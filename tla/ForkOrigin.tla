----------------------------- MODULE ForkOrigin ------------------------------
(***************************************************************************)
(* Finding the session a fork continues from, in the memory, SQLite and    *)
(* JSON lines stores.  The sessions that hold the fork's base are gathered *)
(* under the store's lock (or by its queries), the lock is let go while    *)
(* the caller's read check is asked of them, and the one picked is looked  *)
(* up again, or not, before the fork is made.  Sessions come and go        *)
(* meanwhile.                                                              *)
(*                                                                         *)
(* One call is modelled, over one base: of a session only whether it owns  *)
(* the base, holds it on its prefix or lacks it matters, and which session *)
(* its header names as its parent.  An ID's number is its place in the     *)
(* store's order: by ID, or by path in the JSON lines store.  The fork's   *)
(* own ID is new; the rest of what makes a store refuse one (its format,   *)
(* its media, a base that may not be one) ends the call with nothing made  *)
(* and is left out.                                                        *)
(***************************************************************************)
EXTENDS Integers, Sequences, SequencesExt, FiniteSetsExt

CONSTANTS Ids,         \* the sessions' IDs, positive numbers
          Backends,    \* the stores: of "memory", "sqlite" and "jsonl"
          Walks,       \* parents followed at most
          MaxChanges   \* bound: sessions created, imported, written, deleted

ASSUME OriginAssumption ==
  /\ Ids \subseteq Nat \ {0} /\ Walks \in Nat /\ MaxChanges \in Nat
  /\ Backends \subseteq {"memory", "sqlite", "jsonl"}

VARIABLES
  backend,  \* the store
  kept,     \* per ID: [at, parent], at "none" for a session not held
  fork,     \* the call: where it is, what it gathered, whom it may read
  changes,  \* changes of the store so far
  steady    \* history: the sessions that held the base ever since the call began

originVars == <<backend, kept, fork, changes, steady>>

Nobody == 0
Everyone == Ids \cup {Nobody}

Absent == [at |-> "none", parent |-> Nobody]
Shapes == {Absent, [at |-> "lacks", parent |-> Nobody], [at |-> "owns", parent |-> Nobody]}
          \cup [at : {"prefix"}, parent : Everyone]

HoldsBase(k, s) == k[s].at \in {"owns", "prefix"}

(***************************************************************************)
(* The candidates and the pick.                                            *)
(***************************************************************************)

\* The walk up the parents ends at a session that owns the base or names no
\* parent, and breaks off at one not held or without the base.
Stops(k, s) == k[s].at = "owns" \/ k[s].parent = Nobody

\* The chain from each session, of at most so many.
Upward(k) ==
  LET up[n \in 0..Walks] ==
        [s \in Everyone |->
           IF n = 0 \/ s = Nobody THEN <<>>
           ELSE IF ~HoldsBase(k, s) THEN <<>>
           ELSE IF Stops(k, s) THEN <<s>>
           ELSE <<s>> \o up[n - 1][k[s].parent]]
  IN up

Chain(k, named) == Upward(k)[Walks][named]

ChainEnds(k, chain) == chain /= <<>> /\ Stops(k, Last(chain))

ChainOf(k, named) == LET c == Chain(k, named) IN [chain |-> c, ends |-> ChainEnds(k, c)]
HoldersOf(k) == [owners |-> {s \in Ids : k[s].at = "owns"},
                 onPrefix |-> {s \in Ids : k[s].at = "prefix"}]

\* A check that passes over a session of the chain it does not admit.
PickPassing(c, h, may) ==
  IF c.ends /\ Last(c.chain) \in may THEN Last(c.chain)
  ELSE IF h.owners \cap may /= {} THEN Min(h.owners \cap may)
  ELSE IF h.onPrefix \cap may /= {} THEN Min(h.onPrefix \cap may)
  ELSE Nobody

\* Up the chain while each is admitted, to its end; else the first admitted
\* owner, else the first admitted that has the base on its prefix.
Pick(c, h, may) ==
  IF c.ends /\ ToSet(c.chain) \subseteq may THEN Last(c.chain)
  ELSE IF h.owners \cap may /= {} THEN Min(h.owners \cap may)
  ELSE IF h.onPrefix \cap may /= {} THEN Min(h.onPrefix \cap may)
  ELSE Nobody

(***************************************************************************)
(* The call.  The memory store gathers under its lock; the others read the *)
(* chain, and then every session, as they are found.                       *)
(***************************************************************************)
NoChain == [chain |-> <<>>, ends |-> FALSE]
NoHolders == [owners |-> {}, onPrefix |-> {}]
Unbegun == [pc |-> "chain", named |-> Nobody, may |-> {}, asked |-> FALSE, tries |-> 0,
            c |-> NoChain, h |-> NoHolders, from |-> Nobody]

OriginInit ==
  /\ backend \in Backends
  /\ kept \in [Ids -> Shapes]
  /\ \E n \in Everyone : fork = [Unbegun EXCEPT !.named = n]
  /\ changes = 0
  /\ steady = {s \in Ids : HoldsBase(kept, s)}

\* The store looks again for an origin deleted between the pick and the
\* lock, or the read, this often; the JSON lines store has it as read.
MaxTries == [memory |-> 8, sqlite |-> 3, jsonl |-> 1]

GatherChain ==
  /\ fork.pc = "chain"
  /\ fork' = IF backend = "memory"
             THEN [fork EXCEPT !.pc = "asking", !.c = ChainOf(kept, fork.named), !.h = HoldersOf(kept)]
             ELSE [fork EXCEPT !.pc = "holders", !.c = ChainOf(kept, fork.named)]
  /\ UNCHANGED <<backend, kept, changes, steady>>

GatherHolders ==
  /\ fork.pc = "holders"
  /\ fork' = [fork EXCEPT !.pc = "asking", !.h = HoldersOf(kept)]
  /\ UNCHANGED <<backend, kept, changes, steady>>

\* The read check, the same one at every try, asked with no lock held.  A
\* create whose base no session holds is refused; an import goes on.
AskReadable ==
  /\ fork.pc = "asking"
  /\ \E may \in IF fork.asked THEN {fork.may} ELSE SUBSET Ids :
       LET id == Pick(fork.c, fork.h, may)
           next == [Unbegun EXCEPT !.named = fork.named, !.tries = fork.tries,
                      !.may = may, !.asked = TRUE, !.from = id]
       IN \/ id /= Nobody /\ fork' = [next EXCEPT !.pc = "taking"]
          \/ id = Nobody /\ fork' \in {[next EXCEPT !.pc = "refused"], [next EXCEPT !.pc = "placing"]}
  /\ UNCHANGED <<backend, kept, changes, steady>>

\* A memory store that trusts its pick once it has the lock.
StillHeldTrusted == TRUE

\* The origin picked, still held with its base: under the memory store's
\* lock, or read by the SQLite store; the JSON lines store has read it.
StillHeld == backend = "jsonl" \/ HoldsBase(kept, fork.from)

\* The memory store makes the fork under the lock it looked again under.
MakeFork == fork' = [fork EXCEPT !.pc = "made"]

TakeOrigin ==
  /\ fork.pc = "taking" /\ StillHeld
  /\ IF backend = "memory" THEN MakeFork ELSE fork' = [fork EXCEPT !.pc = "placing"]
  /\ UNCHANGED <<backend, kept, changes, steady>>

LookAgain ==
  /\ fork.pc = "taking" /\ ~StillHeld
  /\ fork' = [fork EXCEPT !.tries = @ + 1, !.from = Nobody,
                !.pc = IF fork.tries + 1 < MaxTries[backend] THEN "chain" ELSE "refused"]
  /\ UNCHANGED <<backend, kept, changes, steady>>

\* The fork is written, or the import with no origin, or checked against it.
PlaceFork ==
  /\ fork.pc = "placing"
  /\ MakeFork
  /\ UNCHANGED <<backend, kept, changes, steady>>

(***************************************************************************)
(* Sessions created, imported, appended to and deleted meanwhile.          *)
(***************************************************************************)
Calling == fork.pc \in {"chain", "holders", "asking", "taking", "placing"}

Change(s, shape) ==
  /\ Calling /\ changes < MaxChanges
  /\ changes' = changes + 1
  /\ kept' = [kept EXCEPT ![s] = shape]
  /\ steady' = {t \in steady : HoldsBase(kept', t)}
  /\ UNCHANGED <<backend, fork>>

OriginDeleted(s) == kept[s] /= Absent /\ Change(s, Absent)
OriginAdded(s) == kept[s] = Absent /\ \E shape \in Shapes \ {Absent} : Change(s, shape)
OriginWritten(s) == kept[s].at = "lacks" /\ Change(s, [at |-> "owns", parent |-> Nobody])

OriginNext ==
  \/ GatherChain \/ GatherHolders \/ AskReadable \/ TakeOrigin \/ LookAgain \/ PlaceFork
  \/ \E s \in Ids : OriginDeleted(s) \/ OriginAdded(s) \/ OriginWritten(s)

OriginSpec == OriginInit /\ [][OriginNext]_originVars

(***************************************************************************)
(* Properties.                                                             *)
(***************************************************************************)

\* The store as a caller would have it who may read only these sessions.
Seen(may) == [s \in Ids |-> IF s \in may THEN kept[s] ELSE Absent]

\* A session the caller may not read is as one the store does not hold: the
\* origin picked is the one a store holding only the readable sessions would
\* pick, whatever chains and owners the others add, so neither the pick nor a
\* refusal says anything of them (WithReadable; origin.Candidates.Pick).
PickIsBlind ==
  fork.pc = "chain" =>
    \A may \in SUBSET Ids :
      Pick(ChainOf(kept, fork.named), HoldersOf(kept), may)
        = Pick(ChainOf(Seen(may), fork.named), HoldersOf(Seen(may)), Ids)

\* A create is refused for want of its base only if no readable session held
\* it all the while: an origin deleted between the pick and the look at it is
\* looked past, not taken for the only one (lockOrigin, forkOrigin).
RefusedOnlyWithoutBase == fork.pc = "refused" => steady \cap fork.may = {}

\* A fork's origin is picked, and refused, by the readable sessions alone, and
\* refused only for want of one (Candidates.Pick, lockOrigin, forkOrigin).
OriginsRight == PickIsBlind /\ RefusedOnlyWithoutBase

\* A fork is made of a session its caller may read, and the memory store's
\* holds the base at the moment the fork is made, a deletion in the gap
\* between the pick and the lock notwithstanding (heldOrigin).
ForkIsOfAHeldOrigin ==
  [][fork'.pc = "made" /\ fork'.from /= Nobody =>
       /\ fork'.from \in fork'.may
       /\ backend = "memory" => HoldsBase(kept, fork'.from)]_originVars
==============================================================================
