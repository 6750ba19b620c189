---------------------------- MODULE SessionRecord ----------------------------
(***************************************************************************)
(* A harness writing sessions through Session.Append: calls a model makes, *)
(* decisions on them, hand-offs to tools, results, outputs, runs and       *)
(* queued inputs, with rewinds (Branch), forks and crashes between any two *)
(* appends.  Every entry goes through the rules an append is held to       *)
(* (SessionCalls!CheckCallRules), under the leaf.                          *)
(*                                                                         *)
(* The harness is the caller of the package: what it does is bounded only  *)
(* by what the package refuses and by the promises it makes, that a        *)
(* dispatch is on record before the tool runs, and so before the output of *)
(* a call it ran (the header's records), and that a withdrawal takes back  *)
(* a hand-off that was not made.  Append does not hold an output to that   *)
(* promise: an agenda with "unrecorded" is of a harness that breaks it.    *)
(***************************************************************************)
EXTENDS SessionCalls, TLC

CONSTANTS
  Cids,         \* the call ids a provider gives
  Items,        \* the outputs a tool or the harness may give
  Rewrites,     \* the arguments a decision may rewrite a call's to
  Agendas,      \* what a behaviour does: each a set of entry types and of "branch",
                \* "fork", "copied" (items of another session) and "unrecorded"
                \* (outputs without the dispatch the header promises)
  MaxEntries,   \* how many entries the session may hold
  MaxBranches   \* how often the harness rewinds or forks

ASSUME RecordAssumption ==
  /\ MaxEntries \in Nat /\ MaxBranches \in Nat
  /\ NoArgs \notin Rewrites /\ OwnArgs \notin Rewrites

VARIABLES
  s,         \* the session being written
  hand,      \* the dispatches appended whose hand-off is still to be made
  running,   \* the dispatches whose tool runs
  ran,       \* the calls that ran for some hand-off of this session
  branches,  \* rewinds and forks made
  agenda     \* what this behaviour does

vars == <<s, hand, running, ran, branches, agenda>>

Types == {"call", "output", "dispatch", "result", "decision", "response",
          "start", "end", "queued", "message"}

Path == PathTo(s, s.leaf)

\* The session t under a header that makes the promise, or does not.
Headed(promise, t) ==
  [ents |-> t.ents, base |-> t.base, leaf |-> t.leaf, read |-> t.read, promise |-> promise]

Init ==
  /\ \E p \in BOOLEAN : s = Headed(p, NewSession)
  /\ hand = {} /\ running = {} /\ ran = {} /\ branches = 0
  /\ agenda \in Agendas

\* An append the session takes: the entry is written under the leaf.
Append1(e) ==
  /\ e.type \in agenda
  /\ Len(s.ents) < MaxEntries
  /\ CheckParentRule(s, e.parent)
  /\ CheckCallRules(s, e)
  /\ s' = Commit(s, e)
  /\ UNCHANGED <<branches, agenda>>

\* Whether an item may come from another session.
Copied == IF "copied" \in agenda THEN BOOLEAN ELSE {FALSE}

NextRun(ents) == Cardinality({i \in DOMAIN ents : ents[i].type = "start"}) + 1

NextResponse(ents) == Cardinality({i \in DOMAIN ents : ents[i].type = "response"}) + 1

\* A function call the model made, or one another session made, held as context.
MakeCall ==
  /\ \E cid \in Cids, copied \in Copied :
       Append1([type |-> "call", parent |-> s.leaf, target |-> Nowhere, cid |-> cid,
                copied |-> copied, rid |-> IF copied THEN 0 ELSE NextResponse(s.ents)])
  /\ UNCHANGED <<hand, running, ran>>

Respond ==
  /\ \E status \in {"completed", "error", "incomplete"} :
       Append1([type |-> "response", parent |-> s.leaf, target |-> Nowhere,
                rid |-> NextResponse(s.ents), status |-> status])
  /\ UNCHANGED <<hand, running, ran>>

Decide ==
  /\ \E call \in CallsOn(s.ents, Path),
        verdict \in {"proceed", "hold", "answer", "reject"}, args \in Rewrites \cup {NoArgs} :
       Append1([type |-> "decision", parent |-> s.leaf, target |-> call, cid |-> s.ents[call].cid,
                verdict |-> verdict, withdrawn |-> FALSE, args |-> args])
  /\ UNCHANGED <<hand, running, ran>>

\* The harness takes back a hand-off it recorded and did not make.
Withdraw ==
  \E d \in hand :
    /\ d \in Path
    /\ Append1([type |-> "decision", parent |-> s.leaf, target |-> s.ents[d].target,
                cid |-> s.ents[d].cid, verdict |-> "reject", withdrawn |-> TRUE, args |-> NoArgs])
    /\ hand' = hand \ {d}
    /\ UNCHANGED <<running, ran>>

\* The dispatch is on record; the tool has not been called.
Dispatch ==
  /\ \E call \in CallsOn(s.ents, Path) :
       Append1([type |-> "dispatch", parent |-> s.leaf, target |-> call, cid |-> s.ents[call].cid])
  /\ hand' = hand \cup {Len(s'.ents)}
  /\ UNCHANGED <<running, ran>>

RunTool ==
  \E h \in hand :
    /\ hand' = hand \ {h}
    /\ running' = running \cup {h}
    /\ ran' = ran \cup {s.ents[h].target}
    /\ UNCHANGED <<s, branches, agenda>>

\* The tool returned and the harness records what it returned.
Return ==
  \E h \in running, item \in Items :
    /\ Append1([type |-> "result", parent |-> s.leaf, target |-> s.ents[h].target,
                cid |-> s.ents[h].cid, item |-> item])
    /\ running' = running \ {h}
    /\ UNCHANGED <<hand, ran>>

\* The record a promised output needs: its call was handed off, or was answered
\* or rejected, on this path.
Recorded(cid) ==
  \A call \in CallsOn(s.ents, Path) :
    LET c == CallOn(s.ents, Path, call)
    IN  s.ents[call].cid = cid /\ ~s.ents[call].copied /\ c.output = 0
          => Dispatched(c) \/ Answered(s.ents, c) \/ Rejected(s.ents, c)

Output ==
  /\ \E call \in CallsOn(s.ents, Path), item \in Items, copied \in Copied :
       /\ s.promise => "unrecorded" \in agenda \/ Recorded(s.ents[call].cid)
       /\ Append1([type |-> "output", parent |-> s.leaf, target |-> Nowhere, cid |-> s.ents[call].cid,
                   item |-> item, copied |-> copied])
  /\ UNCHANGED <<hand, running, ran>>

\* A run starts where no run is open: one that a crash cut off is ended first.
StartRun ==
  /\ OpenRun(s.ents, Path) = {}
  /\ \E source \in {"input", "resume"} :
       Append1([type |-> "start", parent |-> s.leaf, target |-> Nowhere,
                run |-> NextRun(s.ents), source |-> source])
  /\ UNCHANGED <<hand, running, ran>>

EndRun ==
  /\ \E start \in OpenRun(s.ents, Path) :
       LET ents == s.ents
           segment == Segment(ents, Path, start)
       IN  \E reason \in {"interrupted", ComputeReason(ents, Path, segment)} :
             Append1([type |-> "end", parent |-> s.leaf, target |-> Nowhere,
                      run |-> ents[start].run, reason |-> reason,
                      pending |-> RunPending(ents, Path, segment)])
  /\ UNCHANGED <<hand, running, ran>>

Queue ==
  /\ Append1([type |-> "queued", parent |-> s.leaf, target |-> Nowhere])
  /\ UNCHANGED <<hand, running, ran>>

\* An input goes into the conversation, from the queue or as it came.
Drain ==
  /\ \E q \in Queued(s.ents, Path) \cup {Nowhere} :
       Append1([type |-> "message", parent |-> s.leaf, target |-> q])
  /\ UNCHANGED <<hand, running, ran>>

\* The leaf moves in memory; nothing is written.
Branch ==
  /\ "branch" \in agenda /\ branches < MaxBranches
  /\ \E id \in DOMAIN s.ents :
       /\ MayRestOn(s, id) /\ id /= s.leaf
       /\ s' = [s EXCEPT !.leaf = id]
  /\ branches' = branches + 1
  /\ UNCHANGED <<hand, running, ran, agenda>>

\* The harness goes on with a session that opens with the path to an entry,
\* under a header of its own; what the origin still does is the origin's.
ForkAt ==
  /\ "fork" \in agenda /\ branches < MaxBranches
  /\ \E id \in DOMAIN s.ents, p \in BOOLEAN :
       s' = Headed(p, Fork(s, id))
  /\ hand' = {} /\ running' = {} /\ ran' = {}
  /\ branches' = branches + 1
  /\ UNCHANGED agenda

\* The harness dies: hand-offs it had recorded are not made, results are lost.
Crash ==
  /\ hand \cup running /= {}
  /\ hand' = {} /\ running' = {}
  /\ UNCHANGED <<s, ran, branches, agenda>>

Next ==
  \/ MakeCall \/ Respond \/ Decide \/ Withdraw \/ Dispatch \/ RunTool \/ Return \/ Output
  \/ StartRun \/ EndRun \/ Queue \/ Drain
  \/ Branch \/ ForkAt \/ Crash

Spec == Init /\ [][Next]_vars

-----------------------------------------------------------------------------
(***************************************************************************)
(* Properties.                                                             *)
(***************************************************************************)

\* Every hand-off in progress is of a dispatch its session holds.
TypeOK ==
  /\ \A i \in DOMAIN s.ents : s.ents[i].type \in Types /\ s.ents[i].parent \in 0..i-1
  /\ s.base \in 0..Len(s.ents) /\ s.leaf \in 0..Len(s.ents)
  /\ s.promise \in BOOLEAN
  /\ \A h \in hand \cup running : h \in DOMAIN s.ents /\ s.ents[h].type = "dispatch"

\* A session written through Append verifies on every one of its paths,
\* whatever was rewound or forked: none of the rules VerifyRecords checks call
\* by call is broken, wherever the writer stood when it appended.  One of them
\* Append does not enforce, that a promised output has a dispatch
\* (ErrRecordMissing): it holds of a harness that keeps the promise.
CallsVerify ==
  \A leaf \in DOMAIN s.ents :
    LET path == PathTo(s, leaf) IN
    \A call \in CallsOn(s.ents, path) :
      LET c == CallOn(s.ents, path, call) IN
      ~s.ents[call].copied =>
        /\ c.faults = {}
        /\ ~AnswerNotDispatched(s, path, call)
        /\ "unrecorded" \notin agenda => ~RecordMissing(s, path, call)

\* The record's types, and that what Append let in verifies on every path
\* (checkCallRules, the loop over the calls of VerifyRecords).
CallsInv == TypeOK /\ CallsVerify

\* A call a session's records say never started has run for no hand-off of
\* that session, on whichever branch the hand-off was recorded.
NeverStartedNeverRan ==
  \A leaf \in DOMAIN s.ents :
    \A call \in CallsOn(s.ents, PathTo(s, leaf)) :
      State(s, PathTo(s, leaf), call) = "never_started" => call \notin ran

\* A withdrawn hand-off leaves the call as it was before the dispatch: its
\* state, and the arguments and the number of the hand-offs made.
WithdrawalRestores ==
  \A w \in DOMAIN s.ents :
    LET e == s.ents[w]
        parts == {i \in PathTo(s, w) \ {w} : Binds(s.ents, s.ents[i], e.target)}
        before == PathTo(s, w) \ {w, Newest(parts)}
        was == CallOn(s.ents, before, e.target)
        is  == CallOn(s.ents, PathTo(s, w), e.target)
    IN  e.type = "decision" /\ e.withdrawn =>
          /\ State(s, before \cup {Newest(parts)}, e.target) = "in_flight"
          /\ Waiting(s.ents, is) = Waiting(s.ents, was)
          /\ Args(s.ents, is) = Args(s.ents, was)
          /\ DispatchedArgs(is) = DispatchedArgs(was)
          /\ is.dispatches = was.dispatches
          /\ InFlight(s.ents, is) = InFlight(s.ents, was)

\* What the record says of a call is true of its tool, and a withdrawal says
\* what the record said before (Calls, Call.State).
CallsTold == NeverStartedNeverRan /\ WithdrawalRestores

\* The end of a run names every call of this session that any entry of the
\* run is about and that has no output by then, and ends done or stopped
\* only when there is none.
RunEndsTell ==
  \A end \in {i \in DOMAIN s.ents : s.ents[i].type = "end"} :
    LET ents == s.ents
        path == PathTo(s, end)
        start == Newest(Starts(ents, path))
        about == {i \in CallsOn(ents, path) : ~ents[i].copied
                    /\ \E j \in path : j >= start /\ (j = i \/ Binds(ents, ents[j], i))}
        open == {ents[i].cid : i \in {j \in about : ~\E o \in path : ents[o].type = "output"
                                                                 /\ ents[o].cid = ents[j].cid}}
    IN  /\ open \subseteq ents[end].pending
        /\ ents[end].reason \in {"done", "stopped"} => open = {}
        /\ RunVerifies(ents, path, start)

\* What a run's first entry about a call shows of the run, a resume or an
\* input, no later entry of the run changes.
SourceSettles ==
  \A leaf \in DOMAIN s.ents :
    LET ents == s.ents
        path == PathTo(s, leaf)
        parent == PathTo(s, ents[leaf].parent)
    IN  \A start \in OpenRun(ents, parent) :
          LET told == {i \in parent : i > start /\ ents[i].type \in {"output", "dispatch", "decision", "result"}}
          IN  told /= {} => ComputeSource(ents, parent, start) = ComputeSource(ents, path, start)

\* A queued input enters the conversation of a path once, and never after
\* the run it was queued into has ended.
DrainedOnce ==
  \A leaf \in DOMAIN s.ents :
    LET ents == s.ents
        path == PathTo(s, leaf)
        drains(q) == {i \in path : ents[i].type = "message" /\ ents[i].target = q}
    IN  \A q \in {i \in path : ents[i].type = "queued"} :
          /\ Cardinality(drains(q)) <= 1
          /\ \A d \in drains(q) : ~\E j \in path : q < j /\ j < d /\ ents[j].type = "end"

\* What the record says of a run, its source, its pending calls and the inputs
\* queued into it, stays true to the end of the path (Runs, EndRun, Queued).
RunsTold == RunEndsTell /\ SourceSettles /\ DrainedOnce

=============================================================================
