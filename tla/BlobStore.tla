------------------------------ MODULE BlobStore ------------------------------
(***************************************************************************)
(* Sidecar blobs in the JSON lines, SQLite and memory stores: puts, the    *)
(* appends, imports and forks whose entries name a blob, the media types   *)
(* kept beside a blob and in a session, deletions, and the sweep that      *)
(* removes a blob no session names once its grace is over.                 *)
(*                                                                         *)
(* One blob is modelled: blobs do not interact.  The JSON lines store      *)
(* keeps it as files, each call a series of steps on them that interleave  *)
(* with the others' and may be cut short by a kill or a power loss; the    *)
(* SQLite and memory stores take each step in a transaction or under the   *)
(* store's locks.  Time moves in units of the grace, and a call other than *)
(* a sweep is assumed to last no longer than the grace.                    *)
(***************************************************************************)
EXTENDS Integers, FiniteSets, FiniteSetsExt

CONSTANTS Holders,      \* sessions' IDs
          Callers,      \* numbers for the calls that may run at once, a sweep apart
          Media,        \* media types a put gives a blob
          OwnMedia,     \* those a session is given for it
          Untyped,      \* no media type
          BlobStores,   \* the stores: of "jsonl", "sqlite" and "memory"
          MaxNow,       \* bound: the clock
          MaxStarted,   \* bound: calls begun
          MaxCuts       \* bound: calls killed, and power losses

VARIABLES
  kind,      \* the store
  now,       \* the clock
  blob,      \* when the blob was last stored, or Never
  type,      \* its type: [is, at], or NoType
  held,      \* per session: [in, names, of]: held, names the blob, forked from, at any remove
  ownTypes,  \* per session: its own type for the blob, or Untyped
  call,      \* per caller: the call it is in
  sweep,     \* the sweep
  undo,      \* the blob and type as they were before removals not yet synced
  started,   \* calls begun so far
  cuts,      \* kills and power losses so far
  lost,      \* history: a power loss happened
  counted,   \* history: sessions that named the blob while it was held
  promise,   \* history: the blob is promised, by a put, until this time
  given,     \* history: per session, the types given it since it was created
  raced      \* history: sessions given a type by a call their deletion overtook

blobVars == <<kind, now, blob, type, held, ownTypes, call, sweep, undo, started, cuts, lost,
              counted, promise, given, raced>>

Never == -1
Grace == 1
NoType == [is |-> Untyped, at |-> Never]
Nowhere == [in |-> FALSE, names |-> FALSE, of |-> {}]
NotCalling == [pc |-> "idle", of |-> {}, orig |-> {}, t |-> Untyped, from |-> 0, ok |-> FALSE, then |-> "idle"]
NoSweep == [pc |-> "idle", cutoff |-> 0, old |-> FALSE, listed |-> {}, named |-> FALSE]

Files == kind = "jsonl"
IsHeld(b) == b /= Never
Old(at, cutoff) == at /= Never /\ at < cutoff

AnyOf(S) == CHOOSE e \in S : TRUE  \* they are alike

\* The blob may have been put, and a session may be there, with no entry or
\* with one that names the blob, and have a type for it.
BlobInit ==
  /\ kind \in BlobStores /\ now = 0
  /\ blob \in {Never, 0}
  /\ type \in {NoType} \cup (IF IsHeld(blob) THEN {[is |-> AnyOf(Media), at |-> 0]} ELSE {})
  /\ \E b \in {{}, {AnyOf(Holders)}}, names \in BOOLEAN, t \in OwnMedia \cup {Untyped} :
       /\ held = [s \in Holders |-> [in |-> s \in b, names |-> s \in b /\ names, of |-> {}]]
       /\ ownTypes = [s \in Holders |-> IF held[s].names THEN t ELSE Untyped]
  /\ counted = {s \in Holders : held[s].names /\ IsHeld(blob)}
  /\ given = [s \in Holders |-> {ownTypes[s]}]
  /\ call = [c \in Callers |-> NotCalling] /\ sweep = NoSweep
  /\ undo = [blob |-> Never, type |-> NoType] /\ started = 0 /\ cuts = 0 /\ lost = FALSE
  /\ promise = Never /\ raced = {}

\* The guard the blob is freshened, typed and removed under, across processes.
GuardFree == sweep.pc \notin {"stray", "type", "blob"}

\* A session's lock: its writer's, or the deletion's.
Locked(s) == \E c \in Callers : call[c].of = {s} /\ call[c].pc \in {"land", "unlink"}

On(c) == CHOOSE s \in Holders : call[c].of = {s}
GoTo(c, pc) == call' = [call EXCEPT ![c].pc = pc]
Called(c, pc, of, t) ==
  call' = [call EXCEPT ![c] = [NotCalling EXCEPT !.pc = pc, !.of = of, !.t = t, !.from = now]]
Done(c) == call' = [call EXCEPT ![c] = NotCalling]

\* A caller that is in no call begins one: the first of them, since they are alike.
Enters(c) ==
  /\ call[c].pc = "idle" /\ \A d \in Callers : d < c => call[d].pc /= "idle"
  /\ started < MaxStarted /\ started' = started + 1

\* A directory synced: what was removed from it stays removed.
Synced == undo' = [blob |-> Never, type |-> NoType]

history == <<lost, counted, promise, given, raced>>

(***************************************************************************)
(* Storing a blob.  A blob there already is freshened under the guard and  *)
(* looked at again; one not there is linked into place, which leaves one   *)
(* another call linked meanwhile.                                          *)
(***************************************************************************)
PutStat(c) ==
  /\ call[c].pc = "stat"
  /\ GoTo(c, IF IsHeld(blob) THEN "freshen" ELSE "link")
  /\ UNCHANGED <<kind, now, blob, type, held, ownTypes, sweep, undo, started, cuts, history>>

Freshened == IF IsHeld(blob) THEN now ELSE Never

PutFreshen(c) ==
  /\ call[c].pc = "freshen" /\ GuardFree
  /\ blob' = Freshened
  /\ GoTo(c, "again")
  /\ UNCHANGED <<kind, now, type, held, ownTypes, sweep, undo, started, cuts, history>>

PutAgain(c) ==
  /\ call[c].pc = "again"
  /\ GoTo(c, IF IsHeld(blob) THEN "typed" ELSE "link")
  /\ UNCHANGED <<kind, now, blob, type, held, ownTypes, sweep, undo, started, cuts, history>>

PutLink(c) ==
  /\ call[c].pc = "link"
  /\ blob' = IF IsHeld(blob) THEN blob ELSE now
  /\ Synced
  /\ GoTo(c, "typed")
  /\ UNCHANGED <<kind, now, type, held, ownTypes, sweep, started, cuts, history>>

\* The put returns, and the blob has its grace.  One that an import of a
\* session's directory made goes on to the session's types.
Stored(c) ==
  /\ promise' = Max({promise, call[c].from + Grace})
  /\ counted' = counted \cup {s \in call[c].of : held[s].in /\ held[s].names /\ call[c].then /= "idle"}
  /\ IF call[c].then = "idle" THEN Done(c)
     ELSE call' = [call EXCEPT ![c].pc = call[c].then, ![c].then = "idle"]
  /\ UNCHANGED <<lost, given, raced>>

\* A put with no type, or that finds a type, is done.  A media import's put
\* has none: its type is the session's.
PutHasType(c) ==
  /\ call[c].pc = "typed"
  /\ \/ (call[c].t = Untyped \/ call[c].then /= "idle" \/ type /= NoType) /\ Stored(c)
     \/ /\ call[c].t /= Untyped /\ call[c].then = "idle" /\ type = NoType
        /\ GoTo(c, "typing") /\ UNCHANGED history
  /\ UNCHANGED <<kind, now, blob, type, held, ownTypes, sweep, undo, started, cuts>>

\* A put that replaces the type another placed since it looked.
PutTypeReplacing(c) ==
  /\ call[c].pc = "typing" /\ GuardFree
  /\ IF IsHeld(blob)
     THEN type' = [is |-> call[c].t, at |-> now] /\ Synced /\ Stored(c)
     ELSE Done(c) /\ UNCHANGED <<type, undo, history>>
  /\ UNCHANGED <<kind, now, blob, held, ownTypes, sweep, started, cuts>>

\* Under the guard: a blob gone since is an error, and a type linked since by
\* another put is kept.
PutType(c) ==
  /\ call[c].pc = "typing" /\ GuardFree
  /\ IF IsHeld(blob)
     THEN /\ type' = IF type = NoType THEN [is |-> call[c].t, at |-> now] ELSE type
          /\ Synced /\ Stored(c)
     ELSE Done(c) /\ UNCHANGED <<type, undo, history>>
  /\ UNCHANGED <<kind, now, blob, held, ownTypes, sweep, started, cuts>>

\* The SQLite and memory stores put blob, time and type in one step.
PutAtOnce(c) ==
  /\ call[c].pc = "stat"
  /\ blob' = now
  /\ type' = IF type = NoType /\ call[c].t /= Untyped /\ call[c].then = "idle"
             THEN [is |-> call[c].t, at |-> now] ELSE type
  /\ Stored(c)
  /\ UNCHANGED <<kind, now, held, ownTypes, sweep, undo, started, cuts>>

PutTypedBlob(c) ==
  /\ Enters(c)
  /\ \E t \in Media \cup {Untyped} : Called(c, "stat", {}, t)
  /\ UNCHANGED <<kind, now, blob, type, held, ownTypes, sweep, undo, cuts, history>>

(***************************************************************************)
(* Naming the blob.  The JSON lines store's appends and imports freshen it *)
(* under the guard before their line, or file, lands; its forks, and the   *)
(* SQLite store's, are of an origin read before.                           *)
(***************************************************************************)
NamesNow(s, of, counts) ==
  /\ held' = [held EXCEPT ![s] = [in |-> TRUE, names |-> TRUE, of |-> of]]
  /\ counted' = IF counts THEN counted \cup {s} ELSE counted

AppendFreshen(c) ==
  /\ Enters(c) /\ GuardFree
  /\ \E s \in Holders :
       /\ held[s].in /\ ~Locked(s)
       /\ call' = [call EXCEPT ![c] = [NotCalling EXCEPT !.pc = "land", !.of = {s}, !.from = now,
                                                !.ok = IsHeld(blob)]]
  /\ blob' = Freshened
  /\ UNCHANGED <<kind, now, type, held, ownTypes, sweep, undo, cuts, history>>

AppendLand(c) ==
  /\ call[c].pc = "land"
  /\ NamesNow(On(c), held[On(c)].of, call[c].ok)
  /\ Done(c)
  /\ UNCHANGED <<kind, now, blob, type, ownTypes, sweep, undo, started, cuts, lost, promise, given, raced>>

AppendAtOnce(c) ==
  /\ Enters(c)
  /\ \E s \in Holders : held[s].in /\ NamesNow(s, held[s].of, IsHeld(blob))
  /\ UNCHANGED <<kind, now, blob, type, ownTypes, call, sweep, undo, cuts, lost, promise, given, raced>>

\* A new session, with no entry.
CreateBare(c) ==
  /\ Enters(c)
  /\ \E s \in Holders :
       /\ ~held[s].in
       /\ held' = [held EXCEPT ![s] = [Nowhere EXCEPT !.in = TRUE]]
       /\ given' = [given EXCEPT ![s] = {}]
  /\ UNCHANGED <<kind, now, blob, type, ownTypes, call, sweep, undo, cuts, lost, counted, promise, raced>>

\* An import, of a file alone or with a sidecar directory that holds the blob
\* and its type, which are stored after.
ImportFreshen(c) ==
  /\ Enters(c) /\ GuardFree
  /\ \E s \in Holders, t \in OwnMedia \cup {Untyped} :
       call' = [call EXCEPT ![c] = [NotCalling EXCEPT !.pc = "place", !.of = {s}, !.from = now, !.t = t,
                  !.ok = IsHeld(blob), !.then = IF t = Untyped THEN "idle" ELSE "given"]]
  /\ blob' = Freshened
  /\ UNCHANGED <<kind, now, type, held, ownTypes, sweep, undo, cuts, history>>

Imported(c, s) ==
  IF held[s].in THEN Done(c) /\ UNCHANGED <<held, counted, given>>
  ELSE /\ NamesNow(s, {}, call[c].ok)
       /\ given' = [given EXCEPT ![s] = {}]
       /\ IF call[c].then = "idle" THEN Done(c) ELSE GoTo(c, "stat")

ImportPlace(c) ==
  /\ call[c].pc = "place"
  /\ Imported(c, On(c))
  /\ UNCHANGED <<kind, now, blob, type, ownTypes, sweep, undo, started, cuts, lost, promise, raced>>

\* The SQLite and memory stores look for no blob: the sweep sees the session
\* as soon as it is there.
ImportAtOnce(c) ==
  /\ Enters(c)
  /\ \E s \in Holders, t \in OwnMedia \cup {Untyped} :
       /\ ~held[s].in
       /\ NamesNow(s, {}, IsHeld(blob))
       /\ given' = [given EXCEPT ![s] = {}]
       /\ call' = IF t = Untyped THEN call
                  ELSE [call EXCEPT ![c] = [NotCalling EXCEPT !.pc = "stat", !.of = {s}, !.t = t,
                                              !.from = now, !.then = "given"]]
  /\ UNCHANGED <<kind, now, blob, type, ownTypes, sweep, undo, cuts, lost, promise, raced>>

\* Sessions and those they were forked from, at any remove.
Descent(S) == S \cup UNION {held[o].of : o \in S}

\* A fork's prefix names what its origin's path named.  The memory store
\* looks at the origin again under the lock it places the fork under.
ForkRead(c) ==
  /\ Enters(c)
  /\ \E o, s \in Holders :
       /\ o /= s /\ held[o].in /\ held[o].names /\ ~held[s].in
       /\ call' = [call EXCEPT ![c] = [NotCalling EXCEPT !.pc = "fork", !.of = {s}, !.orig = {o},
                                         !.from = now, !.ok = o \in counted]]
  /\ UNCHANGED <<kind, now, blob, type, held, ownTypes, sweep, undo, cuts, history>>

ForkPlace(c) ==
  /\ call[c].pc = "fork"
  /\ Done(c)
  /\ LET s == On(c)
         rests == kind = "memory" => \A o \in call[c].orig : held[o].names
     IN \/ (held[s].in \/ ~rests) /\ UNCHANGED <<held, counted, given>>
        \/ /\ ~held[s].in /\ rests
           /\ NamesNow(s, Descent(call[c].orig), IF kind = "memory" THEN call[c].orig \subseteq counted ELSE call[c].ok)
           /\ given' = [given EXCEPT ![s] = {}]
  /\ UNCHANGED <<kind, now, blob, type, ownTypes, sweep, undo, started, cuts, lost, promise, raced>>

(***************************************************************************)
(* A session's own types, and its deletion.  The JSON lines store takes no *)
(* lock between finding the session and linking its type, and removes a    *)
(* session's types before its file.                                        *)
(***************************************************************************)
Gives(c, s) ==
  /\ ownTypes' = [ownTypes EXCEPT ![s] = IF @ = Untyped THEN call[c].t ELSE @]
  /\ given' = [given EXCEPT ![s] = @ \cup {call[c].t}]
  /\ raced' = IF held[s].in THEN raced ELSE raced \cup {s}

SetSessionBlobTypes(c) ==
  /\ Enters(c)
  /\ \E s \in Holders, t \in OwnMedia : held[s].names /\ Called(c, "given", {s}, t)
  /\ UNCHANGED <<kind, now, blob, type, held, ownTypes, sweep, undo, cuts, history>>

TypesFind(c) ==
  /\ call[c].pc = "given"
  /\ IF held[On(c)].in THEN GoTo(c, "giving") ELSE Done(c)
  /\ UNCHANGED <<kind, now, blob, type, held, ownTypes, sweep, undo, started, cuts, history>>

TypesLink(c) ==
  /\ call[c].pc = "giving"
  /\ Gives(c, On(c)) /\ Done(c)
  /\ UNCHANGED <<kind, now, blob, type, held, sweep, undo, started, cuts, lost, counted, promise>>

TypesAtOnce(c) ==
  /\ call[c].pc = "given"
  /\ IF held[On(c)].in THEN Gives(c, On(c)) ELSE UNCHANGED <<ownTypes, given, raced>>
  /\ Done(c)
  /\ UNCHANGED <<kind, now, blob, type, held, sweep, undo, started, cuts, lost, counted, promise>>

\* The session is gone.  A fork of it still to be placed no longer rests on
\* it, nor does one that a sweep under way did not list, or a fork of that
\* one: the store promises such a fork nothing.
Rested(s) == {f \in Holders : s \in held[f].of /\ sweep.pc = "read" /\ f \notin sweep.listed}

Departs(s) ==
  /\ held' = [held EXCEPT ![s] = Nowhere]
  /\ counted' = counted \ ({s} \cup Rested(s))

Unrested(s) ==
  [c \in Callers |-> IF call[c].orig \cap ({s} \cup Rested(s)) /= {}
                     THEN [call[c] EXCEPT !.ok = FALSE] ELSE call[c]]

DeleteTypes(c) ==
  /\ Enters(c)
  /\ \E s \in Holders :
       /\ held[s].in /\ ~Locked(s)
       /\ ownTypes' = [ownTypes EXCEPT ![s] = Untyped]
       /\ Called(c, "unlink", {s}, Untyped)
  /\ UNCHANGED <<kind, now, blob, type, held, sweep, undo, cuts, history>>

DeleteFile(c) ==
  /\ call[c].pc = "unlink"
  /\ Departs(On(c))
  /\ raced' = IF ownTypes[On(c)] = Untyped THEN raced ELSE raced \cup {On(c)}
  /\ call' = [Unrested(On(c)) EXCEPT ![c] = NotCalling]
  /\ UNCHANGED <<kind, now, blob, type, ownTypes, sweep, undo, started, cuts, lost, promise, given>>

DeleteAtOnce(c) ==
  /\ Enters(c)
  /\ \E s \in Holders :
       /\ held[s].in
       /\ ownTypes' = [ownTypes EXCEPT ![s] = Untyped]
       /\ Departs(s)
       /\ call' = Unrested(s)
  /\ UNCHANGED <<kind, now, blob, type, sweep, undo, cuts, lost, promise, given, raced>>

(***************************************************************************)
(* The sweep.  Its cutoff is of the time it began.  The JSON lines store's *)
(* removes stray types, reads the sessions it lists, and looks at the blob *)
(* again under the guard before it removes its type and then the blob.     *)
(***************************************************************************)
SweepTo(pc) == sweep' = IF pc = "idle" THEN NoSweep ELSE [sweep EXCEPT !.pc = pc]
Onward == IF sweep.old THEN "list" ELSE "idle"

\* A sweep that finds nothing old is over at once.
SweepStart ==
  /\ sweep.pc = "idle"
  /\ Old(blob, now - Grace) \/ Old(type.at, now - Grace)
  /\ sweep' = [NoSweep EXCEPT !.pc = "types", !.cutoff = now - Grace, !.old = Old(blob, now - Grace)]
  /\ UNCHANGED <<kind, now, blob, type, held, ownTypes, call, undo, started, cuts, history>>

\* A type whose blob is not held, once old: looked for first, and again
\* under the guard.
SweepTypes ==
  /\ sweep.pc = "types"
  /\ SweepTo(IF ~IsHeld(blob) /\ Old(type.at, sweep.cutoff) THEN "strays" ELSE Onward)
  /\ UNCHANGED <<kind, now, blob, type, held, ownTypes, call, undo, started, cuts, history>>

SweepStrays ==
  /\ sweep.pc = "strays"
  /\ SweepTo(IF ~IsHeld(blob) THEN "stray" ELSE Onward)
  /\ UNCHANGED <<kind, now, blob, type, held, ownTypes, call, undo, started, cuts, history>>

SweepStray ==
  /\ sweep.pc = "stray"
  /\ type' = NoType
  /\ SweepTo(Onward)
  /\ UNCHANGED <<kind, now, blob, held, ownTypes, call, undo, started, cuts, history>>

SweepList ==
  /\ sweep.pc = "list"
  /\ sweep' = [sweep EXCEPT !.pc = "read", !.listed = {s \in Holders : held[s].in}]
  /\ UNCHANGED <<kind, now, blob, type, held, ownTypes, call, undo, started, cuts, history>>

SweepRead ==
  /\ sweep.pc = "read"
  /\ sweep' = [sweep EXCEPT !.pc = "look", !.listed = {},
                 !.named = \E s \in sweep.listed : held[s].names]
  /\ UNCHANGED <<kind, now, blob, type, held, ownTypes, call, undo, started, cuts, history>>

\* A sweep that trusts what it found when it began.
SweepLookOnce ==
  /\ sweep.pc = "look"
  /\ SweepTo(IF sweep.named THEN "idle" ELSE "type")
  /\ UNCHANGED <<kind, now, blob, type, held, ownTypes, call, undo, started, cuts, history>>

SweepLook ==
  /\ sweep.pc = "look"
  /\ SweepTo(IF sweep.named \/ ~Old(blob, sweep.cutoff) THEN "idle" ELSE "type")
  /\ UNCHANGED <<kind, now, blob, type, held, ownTypes, call, undo, started, cuts, history>>

SweepType ==
  /\ sweep.pc = "type"
  /\ undo' = [blob |-> blob, type |-> type]
  /\ type' = NoType
  /\ SweepTo("blob")
  /\ UNCHANGED <<kind, now, blob, held, ownTypes, call, started, cuts, history>>

SweepBlob ==
  /\ sweep.pc = "blob"
  /\ blob' = Never
  /\ SweepTo("sync")
  /\ UNCHANGED <<kind, now, type, held, ownTypes, call, undo, started, cuts, history>>

SweepSync ==
  /\ sweep.pc = "sync"
  /\ Synced /\ SweepTo("idle")
  /\ UNCHANGED <<kind, now, blob, type, held, ownTypes, call, started, cuts, history>>

SweepAtOnce ==
  /\ Old(blob, now - Grace)
  /\ \A s \in Holders : ~held[s].names
  /\ blob' = Never /\ type' = NoType
  /\ UNCHANGED <<kind, now, held, ownTypes, call, sweep, undo, started, cuts, history>>

(***************************************************************************)
(* Kills, power losses, and time.                                          *)
(***************************************************************************)
Cut == cuts < MaxCuts /\ cuts' = cuts + 1

CallKilled(c) ==
  /\ call[c].pc /= "idle" /\ Cut /\ Done(c)
  /\ UNCHANGED <<started, kind, now, blob, type, held, ownTypes, sweep, undo, history>>

SweepKilled ==
  /\ sweep.pc /= "idle" /\ Cut /\ SweepTo("idle")
  /\ UNCHANGED <<started, kind, now, blob, type, held, ownTypes, call, undo, history>>

\* Removals the directory's sync has not followed may be undone, each apart.
PowerLost ==
  /\ Cut /\ undo /= [blob |-> Never, type |-> NoType]
  /\ blob' \in IF IsHeld(blob) THEN {blob} ELSE {blob, undo.blob}
  /\ type' \in IF type /= NoType THEN {type} ELSE {type, undo.type}
  /\ call' = [c \in Callers |-> NotCalling] /\ sweep' = NoSweep
  /\ Synced /\ lost' = TRUE
  /\ UNCHANGED <<started, kind, now, held, ownTypes, counted, promise, given, raced>>

Tick ==
  /\ now < MaxNow /\ now' = now + 1
  /\ \A c \in Callers : call[c].pc /= "idle" => call[c].from >= now
  /\ UNCHANGED <<kind, blob, type, held, ownTypes, call, sweep, undo, started, cuts, history>>

FileSteps(c) ==
  \/ PutStat(c) \/ PutFreshen(c) \/ PutAgain(c) \/ PutLink(c) \/ PutHasType(c) \/ PutType(c)
  \/ AppendFreshen(c) \/ AppendLand(c) \/ ImportFreshen(c) \/ ImportPlace(c)
  \/ TypesFind(c) \/ TypesLink(c) \/ DeleteTypes(c) \/ DeleteFile(c)

MemorySteps(c) ==
  PutAtOnce(c) \/ AppendAtOnce(c) \/ ImportAtOnce(c) \/ TypesAtOnce(c) \/ DeleteAtOnce(c)

\* In a transaction each.
PutRow(c) == PutAtOnce(c)
AppendRow(c) == AppendAtOnce(c)
ImportRows(c) == ImportAtOnce(c)
TypeRows(c) == TypesAtOnce(c)
DeleteRows(c) == DeleteAtOnce(c)
SweepRows == SweepAtOnce

SqliteSteps(c) == PutRow(c) \/ AppendRow(c) \/ ImportRows(c) \/ TypeRows(c) \/ DeleteRows(c)

SweepSteps ==
  \/ SweepStart \/ SweepTypes \/ SweepStrays \/ SweepStray \/ SweepList \/ SweepRead
  \/ SweepLook \/ SweepType \/ SweepBlob \/ SweepSync \/ SweepKilled \/ PowerLost

BlobNext ==
  \/ \E c \in Callers :
       \/ PutTypedBlob(c) \/ CreateBare(c) \/ ForkRead(c) \/ ForkPlace(c) \/ SetSessionBlobTypes(c)
       \/ CallKilled(c)
       \/ Files /\ FileSteps(c)
       \/ kind = "memory" /\ MemorySteps(c)
       \/ kind = "sqlite" /\ SqliteSteps(c)
  \/ Files /\ SweepSteps
  \/ kind = "memory" /\ SweepAtOnce
  \/ kind = "sqlite" /\ SweepRows
  \/ Tick

BlobSpec == BlobInit /\ [][BlobNext]_blobVars

(***************************************************************************)
(* Properties.                                                             *)
(***************************************************************************)

\* A blob the store held when an append, an import or a fork named it stays
\* while the session does: no sweep removes it, whenever it began, listed the
\* sessions and looked at its age (BlobSweeper; SweepBlobs, freshenBlobs).
NamedBlobsStay == counted /= {} => IsHeld(blob)

\* A put's blob is there for its grace, for the write that will name it,
\* though the store had it already and a sweep was about to take it (putBlob).
PutsLast == now <= promise => IsHeld(blob)

\* No type outlives its blob, whenever a sweep is killed: the type goes first,
\* and none is added under a blob being removed (SweepBlobs, putType).  A
\* power loss may leave one.
NoStrayTypes == type /= NoType => IsHeld(blob) \/ lost

\* The types a session has were given to it, not to a session deleted under
\* its ID, a kill between the two removals notwithstanding (Delete).  A call
\* that a deletion overtakes between its look and its link leaves its type.
TypesAreItsOwn == \A s \in Holders \ raced : held[s].in => ownTypes[s] \in given[s] \cup {Untyped}

\* A blob stays while a session names it or its grace lasts, and its types stay
\* with it and with the session they were given to (SweepBlobs, putBlob,
\* Delete).
BlobsKept == NamedBlobsStay /\ PutsLast /\ NoStrayTypes /\ TypesAreItsOwn

\* The first type given a blob is the one it keeps, while it is named or in its
\* grace, of two puts that both found it without one too (putType, linkNew).
FirstTypeStays ==
  [][type /= NoType /\ ~lost /\ (counted /= {} \/ now <= promise) => type'.is = type.is]_blobVars
==============================================================================
