--------------------------- MODULE ContextRecord ---------------------------
(***************************************************************************)
(* A session recorded by a writer that only ever says what it wants in     *)
(* force: each settings change is written as the delta the library         *)
(* computes from the settings it replays, every model call is recorded     *)
(* with the hash of the request that was sent, and the context is          *)
(* compacted now and then.  The reader of the path must find every time    *)
(* what the writer wanted and sent.                                        *)
(*                                                                         *)
(* wants and sent are histories of what the writer meant, for the          *)
(* properties alone.  agenda fixes, for a behaviour, which changes the     *)
(* writer makes: the settings are independent of one another, so their     *)
(* histories are explored one at a time.                                   *)
(***************************************************************************)
EXTENDS SessionContext

CONSTANTS
  Agendas   \* records of the values a writer wants (parts, omitted, omits,
            \* models), the items it records (items), whether it compacts
            \* and calls the model (compacts, calls), the items the path
            \* begins with (start), the settings they put in force (want) and
            \* the length it may reach (max)

VARIABLES
  agenda,
  path,      \* the entries from the root to the leaf
  wants,     \* wants[i]: the settings wanted in force after entry i
  pending,   \* the model call in flight: its response id and request, or None
  sent       \* sent[i]: the request a response entry i answers

vars == <<agenda, path, wants, pending, sent>>

Wanted == [model |-> None, parts |-> <<>>, plain |-> "", omitted |-> <<>>, omit |-> NoOmit]

Want == wants[Len(wants)]

Room(n) == Len(path) + n <= agenda.max

Idle == pending = None

TypeOK ==
  /\ agenda \in Agendas
  /\ Len(wants) = Len(path)
  /\ \A i \in DOMAIN path : path[i].type \in {"item", "summary", "config", "compaction", "response", "other"}
  /\ sent \in Seq({None} \cup {sent[i] : i \in DOMAIN sent}) /\ Len(sent) = Len(path)
  /\ pending /= None => pending.rid \in 1..Len(path) + 1

Init ==
  /\ agenda \in Agendas
  /\ path = agenda.start
  /\ wants = [i \in DOMAIN path |-> agenda.want]
  /\ sent = [i \in DOMAIN path |-> None]
  /\ pending = None

\* Commit the entries, with want in force after the last of them.
Record(entries, want) ==
  /\ Room(Len(entries))
  /\ path' = path \o entries
  /\ wants' = wants \o [i \in DOMAIN entries |-> IF i = Len(entries) THEN want ELSE Want]
  /\ sent' = sent \o [i \in DOMAIN entries |-> None]

(***************************************************************************)
(* Settings.                                                               *)
(***************************************************************************)
\* The delta, where there is one, and what it is to put in force.
RecordDelta(c, want) == c /= None /\ Record(<<c>>, want)

SetParts ==
  /\ Idle /\ Room(1)
  /\ \E parts \in agenda.parts :
       RecordDelta(InstructionsDelta(SettingsAt(path), parts), [Want EXCEPT !.parts = parts, !.plain = ""])
  /\ UNCHANGED <<agenda, pending>>

SetInstructions ==
  /\ Idle /\ Room(1) /\ agenda.parts /= {}
  /\ Record(<<[NoDelta EXCEPT !.plain = "one"]>>, [Want EXCEPT !.parts = <<>>, !.plain = "one"])
  /\ UNCHANGED <<agenda, pending>>

SetOmitted ==
  /\ Idle /\ Room(1)
  /\ \E omitted \in agenda.omitted : \E d \in OmittedDeltas(SettingsAt(path), omitted) :
       d /= None /\ Record(<<[NoDelta EXCEPT !.omitted = d]>>, [Want EXCEPT !.omitted = omitted])
  /\ UNCHANGED <<agenda, pending>>

\* One config entry for each of the deltas: a clear first, where there are two.
RecordOmits(ds, omit) ==
  /\ ds /= <<>>
  /\ Room(Len(ds))
  /\ path' = path \o [i \in DOMAIN ds |-> [NoDelta EXCEPT !.omit = ds[i]]]
  /\ wants' = wants \o [i \in DOMAIN ds |-> [Want EXCEPT !.omit = IF i = Len(ds) THEN omit ELSE NoOmit]]
  /\ sent' = sent \o [i \in DOMAIN ds |-> None]

SetOmit ==
  /\ Idle /\ Room(1)
  /\ \E omit \in agenda.omits : RecordOmits(OmitDeltas(SettingsAt(path), omit), omit)
  /\ UNCHANGED <<agenda, pending>>

SetModel ==
  /\ Idle /\ Room(1)
  /\ \E m \in agenda.models : Record(<<[NoDelta EXCEPT !.model = m]>>, [Want EXCEPT !.model = m])
  /\ UNCHANGED <<agenda, pending>>

\* A replace carries what it wants whole and discards the rest.
Replace ==
  /\ Idle /\ Room(1)
  /\ agenda.parts /= {} \/ agenda.omitted /= {}
  /\ Want /= Wanted
  /\ Record(<<[NoDelta EXCEPT !.replace = TRUE]>>, Wanted)
  /\ UNCHANGED <<agenda, pending>>

(***************************************************************************)
(* Items, model calls and compactions.                                     *)
(***************************************************************************)
AddItem ==
  /\ Idle /\ Room(1)
  /\ \E e \in agenda.items : Record(<<e>>, Want)
  /\ UNCHANGED <<agenda, pending>>

SummarizeBranch ==
  /\ Idle /\ Room(1) /\ agenda.calls
  /\ Record(<<[type |-> "summary"]>>, Want)
  /\ UNCHANGED <<agenda, pending>>

\* Rids are fresh: one past the path, which only grows.
Send ==
  /\ Idle /\ Room(1) /\ agenda.calls
  /\ pending' = [rid |-> Len(path) + 1, request |-> RequestOf(BuildContext(path, TRUE))]
  /\ UNCHANGED <<agenda, path, wants, sent>>

RecordOutput ==
  /\ ~Idle
  /\ \E kind \in {"message", "reasoning"} :
       Record(<<[type |-> "item", kind |-> kind, rid |-> pending.rid, images |-> 0]>>, Want)
  /\ UNCHANGED <<agenda, pending>>

\* Another layer's entry between two outputs: it contributes no item.
RecordOther ==
  /\ ~Idle
  /\ Record(<<[type |-> "other"]>>, Want)
  /\ UNCHANGED <<agenda, pending>>

\* The response entry after its outputs, with the hash of the request sent.
RecordDone ==
  /\ ~Idle
  /\ Room(1)
  /\ path' = Append(path, [type |-> "response", rid |-> pending.rid])
  /\ wants' = Append(wants, Want)
  /\ sent' = Append(sent, pending.request)
  /\ pending' = None
  /\ UNCHANGED agenda

\* The recorder stops with the call half recorded: its outputs stay.
Crash ==
  /\ ~Idle
  /\ pending' = None
  /\ UNCHANGED <<agenda, path, wants, sent>>

\* Mutant: the checkpoint leaves out what requests leave out.
CompactFromBare(ctx, first) ==
  /\ first \in DOMAIN ctx.items
  /\ path[ctx.items[first].of].type /= "compaction"
  /\ Record(<<[type |-> "compaction", kept |-> ctx.items[first].of,
               config |-> [Checkpoint(ctx.settings) EXCEPT !.omit = NoOmit]]>>, Want)

\* Keep the items of the context from the first-th on.
CompactFrom(ctx, first) ==
  /\ first \in DOMAIN ctx.items
  /\ path[ctx.items[first].of].type /= "compaction"
  /\ Record(<<[type |-> "compaction", kept |-> ctx.items[first].of,
               config |-> Checkpoint(ctx.settings)]>>, Want)

Compact ==
  /\ Idle /\ Room(1) /\ agenda.compacts
  /\ \E first \in DOMAIN path : CompactFrom(BuildContext(path, TRUE), first)
  /\ UNCHANGED <<agenda, pending>>

Next ==
  \/ SetParts \/ SetInstructions \/ SetOmitted \/ SetOmit \/ SetModel \/ Replace
  \/ AddItem \/ SummarizeBranch \/ Send \/ RecordOutput \/ RecordOther \/ RecordDone \/ Crash
  \/ Compact

Spec == Init /\ [][Next]_vars

(***************************************************************************)
(* Properties.                                                             *)
(***************************************************************************)
Prefix(i) == SubSeq(path, 1, i)

\* What an omit does, whatever the lists that say it.
Effect(omit) ==
  [reasoning |-> omit.reasoning, items |-> omit.items, images |-> omit.images,
   texts |-> [i \in DOMAIN path |-> TextFor(omit, i)]]

(***************************************************************************)
(* At every entry, replaying the deltas finds the settings that were       *)
(* wanted there, parts with their texts, sources and order: deltas written *)
(* as keeps and hashes, over the list in force, over older lists, over     *)
(* what left force, and over a compaction's checkpoint.                    *)
(***************************************************************************)
Meets(s, want) ==
  /\ s.parts = want.parts /\ s.plain = want.plain
  /\ s.omitted = want.omitted /\ s.model = want.model
  /\ Effect(s.omit) = Effect(want.omit)
SettingsInForce == Meets(SettingsAt(path), Want)

\* The record's types, and that the settings wanted are the settings replayed
\* (Settings.Apply, InstructionsDelta, OmittedDelta, OmitDelta).
ContextInv == TypeOK /\ SettingsInForce

(***************************************************************************)
(* Every recorded response verifies: the request rebuilt from the path     *)
(* before it, its own outputs taken out, is the one that was sent, with    *)
(* orphans of an attempt that failed, entries other layers put between     *)
(* the outputs, and whatever the omit in force leaves out or replaces.     *)
(***************************************************************************)
RequestsRebuild ==
  LET i == Len(path) IN
    path[i].type = "response" => RequestOf(RequestContextAt(Prefix(i - 1), path[i].rid)) = sent[i]

(***************************************************************************)
(* A compaction changes nothing of the request but the items its summary   *)
(* stands for: the items kept are sent as they were, under the same        *)
(* settings, whatever earlier compactions and omits they went through.     *)
(***************************************************************************)
KeptFrom(kept, before, after) ==
  LET at == CHOOSE k \in DOMAIN before.items : before.items[k].of = kept
  IN  /\ after.items = <<[of |-> Len(path), text |-> None, gone |-> 0]>>
                       \o SubSeq(before.items, at, Len(before.items))
      /\ [after EXCEPT !.items = before.items] = before
CompactionKeeps ==
  LET i == Len(path) IN
    path[i].type = "compaction" =>
      KeptFrom(path[i].kept, RequestOf(BuildContext(Prefix(i - 1), TRUE)), RequestOf(BuildContext(path, TRUE)))
=============================================================================
