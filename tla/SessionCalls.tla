---------------------------- MODULE SessionCalls ----------------------------
(***************************************************************************)
(* What a path of a session says of its function calls, its runs and its   *)
(* queued inputs, and the rules an append is held to for them.             *)
(*                                                                         *)
(* Entries, beside the type, parent and target every entry has:            *)
(*                                                                         *)
(*   call      cid, rid: the response it is output of, copied              *)
(*   output    cid, item, copied                                           *)
(*   dispatch  cid, target the call's entry                                *)
(*   result    cid, target, item                                           *)
(*   decision  cid, target, verdict, withdrawn, args                       *)
(*   response  rid, status: completed, error or incomplete                 *)
(*   start     run, source          end   run, reason, pending: a set      *)
(*   queued    mode                 message   target: the queued entry it  *)
(*                                  drains, or Nowhere                     *)
(*                                                                         *)
(* A path is the set of its ids (SessionTree), read in ascending order.    *)
(***************************************************************************)
EXTENDS SessionTree

NoArgs  == "no args"   \* a decision that rewrites nothing
OwnArgs == "own args"  \* the arguments the call was made with

CallsOn(ents, path) == {i \in path : ents[i].type = "call"}

(***************************************************************************)
(* One call as the entries of a path leave it.  faults holds the names of  *)
(* the rules the path alone breaks for the call, which Calls notes and     *)
(* VerifyRecords reports.  The two that rest on the header's promise are   *)
(* AnswerNotDispatched and RecordMissing, below.                           *)
(***************************************************************************)
NewCall == [decisions |-> <<>>, dispatches |-> <<>>, parts |-> {}, output |-> 0, result |-> 0,
            sinceDecision |-> FALSE, lastIsDispatch |-> FALSE, beforeSince |-> FALSE,
            dispatchedArgs |-> NoArgs, beforeArgs |-> NoArgs,
            resultAfterLast |-> FALSE, answeredSinceResult |-> FALSE, faults |-> {}]

Dispatched(c) == c.dispatches /= <<>>

HasVerdict(ents, c, verdict) == \E k \in DOMAIN c.decisions : ents[c.decisions[k]].verdict = verdict

Answered(ents, c) == HasVerdict(ents, c, "answer")

Rejected(ents, c) == HasVerdict(ents, c, "reject")

LatestIs(ents, c, verdict) ==
  ~c.sinceDecision /\ c.decisions /= <<>> /\ ents[c.decisions[Len(c.decisions)]].verdict = verdict

Waiting(ents, c) == LatestIs(ents, c, "hold")

Returned(c) == c.output = 0 /\ c.result /= 0 /\ c.resultAfterLast

InFlight(ents, c) ==
  /\ c.output = 0 /\ Dispatched(c) /\ ~Returned(c)
  /\ ~LatestIs(ents, c, "hold") /\ ~LatestIs(ents, c, "answer")

\* The arguments a hand-off made now runs with.
Args(ents, c) ==
  LET rewrites == {k \in DOMAIN c.decisions :
                     ents[c.decisions[k]].args /= NoArgs /\ ents[c.decisions[k]].verdict /= "answer"}
  IN  IF rewrites = {} THEN OwnArgs ELSE ents[c.decisions[Newest(rewrites)]].args

DispatchedArgs(c) == IF Dispatched(c) THEN c.dispatchedArgs ELSE NoArgs

\* e takes back the hand-off the call's last entry recorded.
Withdraws(c, e) ==
  e.verdict = "reject" /\ e.withdrawn /\ c.lastIsDispatch /\ c.output = 0 /\ Dispatched(c)

Broken(c, rules) == [c EXCEPT !.faults = @ \cup {r \in DOMAIN rules : rules[r]}]

OnOutput(ents, c, i) ==
  IF c.output /= 0 THEN c
  ELSE [Broken(c, [outputMismatch |-> Returned(c) /\ ~c.answeredSinceResult
                                      /\ ents[c.result].item /= ents[i].item])
        EXCEPT !.output = i, !.lastIsDispatch = FALSE, !.parts = @ \cup {i}]

OnResult(ents, c, i) ==
  [Broken(c, [badResult |-> \/ ~Dispatched(c) \/ c.output /= 0 \/ c.resultAfterLast
                            \/ Answered(ents, c) \/ Rejected(ents, c)])
   EXCEPT !.result = i, !.resultAfterLast = Dispatched(c), !.answeredSinceResult = FALSE,
          !.lastIsDispatch = FALSE, !.parts = @ \cup {i}]

\* The hand-off was never made: the call is what it was before it.
OnWithdrawal(ents, c, i) ==
  [c EXCEPT !.dispatches = SubSeq(@, 1, Len(@) - 1), !.lastIsDispatch = FALSE,
            !.sinceDecision = c.beforeSince, !.dispatchedArgs = c.beforeArgs, !.parts = @ \cup {i}]

OnDecision(ents, c, i) ==
  LET e == ents[i]
      ending == e.verdict \in {"answer", "reject"}
  IN  [Broken(c, [afterResult |-> Returned(c) /\ e.verdict /= "answer",
                  afterAnswer |-> Answered(ents, c),
                  afterReject |-> Rejected(ents, c),
                  rejectAfterDispatch |-> e.verdict = "reject" /\ Dispatched(c),
                  endAfterOutput |-> ending /\ c.output /= 0])
       EXCEPT !.decisions = Append(@, i), !.sinceDecision = FALSE, !.lastIsDispatch = FALSE,
              !.answeredSinceResult = @ \/ (Returned(c) /\ e.verdict = "answer"), !.parts = @ \cup {i}]

OnDispatch(ents, c, i) ==
  [Broken(c, [dispatchAfterOutput |-> c.output /= 0, afterResult |-> Returned(c),
              dispatchAfterEnd |-> Answered(ents, c) \/ Rejected(ents, c)])
   EXCEPT !.resultAfterLast = FALSE, !.dispatches = Append(@, i),
          !.beforeSince = c.sinceDecision, !.beforeArgs = c.dispatchedArgs,
          !.dispatchedArgs = Args(ents, c), !.sinceDecision = TRUE,
          !.lastIsDispatch = c.output = 0, !.parts = @ \cup {i}]

\* An output names its call by call id, the others by their target.
Binds(ents, e, call) ==
  IF e.type = "output" THEN e.cid = ents[call].cid
  ELSE e.type \in {"dispatch", "result", "decision"} /\ e.target = call

CallStep(ents, c, call, i) ==
  LET e == ents[i]
  IN  IF ~Binds(ents, e, call) THEN c
      ELSE CASE e.type = "output"                        -> OnOutput(ents, c, i)
             [] e.type = "result"                        -> OnResult(ents, c, i)
             [] e.type = "decision" /\ Withdraws(c, e)   -> OnWithdrawal(ents, c, i)
             [] e.type = "decision" /\ ~Withdraws(c, e)  -> OnDecision(ents, c, i)
             [] e.type = "dispatch"                      -> OnDispatch(ents, c, i)

CallUpTo(ents, path, call) ==
  LET upTo[i \in call..Len(ents)] ==
        IF i = call THEN [NewCall EXCEPT !.parts = {call}]
        ELSE IF i \in path THEN CallStep(ents, upTo[i-1], call, i) ELSE upTo[i-1]
  IN  upTo

CallOn(ents, path, call) == CallUpTo(ents, path, call)[Len(ents)]

(***************************************************************************)
(* A session's reading of a call: what the fold says, the header's promise *)
(* that dispatches are recorded before the tool runs, where the call was   *)
(* made and what other branches hold.                                      *)
(***************************************************************************)
Dispatches(ents, call) ==
  {i \in 1..Len(ents) : ents[i].type = "dispatch" /\ ents[i].target = call}

\* Mutant: a dispatch on another branch is not looked for.
DispatchedOffNever(ents, call, path) == FALSE

DispatchedOff(ents, call, path) == Dispatches(ents, call) \ path /= {}

State(s, path, call) ==
  LET c == CallOn(s.ents, path, call)
  IN  IF c.output /= 0 THEN "completed"
      ELSE IF Answered(s.ents, c) THEN "answered"
      ELSE IF Rejected(s.ents, c) THEN "rejected"
      ELSE IF Returned(c) THEN "returned"
      ELSE IF Waiting(s.ents, c) THEN "held"
      ELSE IF Dispatched(c) THEN "in_flight"
      ELSE IF /\ s.promise /\ call > s.base /\ ~s.ents[call].copied
              /\ ~DispatchedOff(s.ents, call, path)
           THEN "never_started"
      ELSE "unknown"

\* The rules VerifyRecords has on a call under a header that promises
\* dispatches.  An answer to a call made here, and an output written here, are
\* owed a hand-off: the answer's may be on another branch, and the output owes
\* none where the call was answered or rejected.
AnswerNotDispatched(s, path, call) ==
  LET c == CallOn(s.ents, path, call)
  IN  /\ Answered(s.ents, c) /\ ~Dispatched(c)
      /\ s.promise /\ call > s.base /\ ~DispatchedOff(s.ents, call, path)

RecordMissing(s, path, call) ==
  LET c == CallOn(s.ents, path, call)
  IN  /\ c.output > s.base /\ s.promise
      /\ ~Dispatched(c) /\ ~Rejected(s.ents, c) /\ ~Answered(s.ents, c)

PendingCalls(s, path) ==
  {i \in CallsOn(s.ents, path) : CallOn(s.ents, path, i).output = 0 /\ ~s.ents[i].copied}

(***************************************************************************)
(* The rules an append under parent is held to.                            *)
(***************************************************************************)
CallIds(ents) == {ents[i].cid : i \in CallsOn(ents, 1..Len(ents))}

CopiedIds(ents) == {ents[i].cid : i \in {j \in CallsOn(ents, 1..Len(ents)) : ents[j].copied}}

MayMakeCall(s, e) == e.cid \notin CallIds(s.ents)

MayOutput(s, e, path) ==
  /\ e.cid \in CopiedIds(s.ents) => e.copied
  /\ \A i \in CallsOn(s.ents, path) :
       LET c == CallOn(s.ents, path, i)
       IN  s.ents[i].cid = e.cid /\ Returned(c) /\ ~c.answeredSinceResult
             => s.ents[c.result].item = e.item

\* The target names a call of this session on the path, with the call id.
TargetCall(s, e, path) ==
  /\ e.target \in CallsOn(s.ents, path)
  /\ s.ents[e.target].cid = e.cid
  /\ ~s.ents[e.target].copied

\* Mutant: a call its tool returned for may still be held or rejected.
MayDecideReturned(s, e, path) ==
  LET c == CallOn(s.ents, path, e.target)
      ents == s.ents
  IN  /\ ~Answered(ents, c) /\ ~Rejected(ents, c)
      /\ e.withdrawn => Withdraws(c, e)
      /\ e.verdict = "reject" /\ ~e.withdrawn => ~Dispatched(c)
      /\ e.verdict \in {"answer", "reject"} /\ ~e.withdrawn => c.output = 0
      /\ e.verdict = "answer" /\ ~Dispatched(c) /\ s.promise /\ e.target > s.base
           => DispatchedOff(ents, e.target, path)

MayDecide(s, e, path) ==
  LET c == CallOn(s.ents, path, e.target)
      ents == s.ents
  IN  /\ Returned(c) => e.verdict = "answer"
      /\ ~Answered(ents, c) /\ ~Rejected(ents, c)
      /\ e.withdrawn => Withdraws(c, e)
      /\ e.verdict = "reject" /\ ~e.withdrawn => ~Dispatched(c)
      /\ e.verdict \in {"answer", "reject"} /\ ~e.withdrawn => c.output = 0
      /\ e.verdict = "answer" /\ ~Dispatched(c) /\ s.promise /\ e.target > s.base
           => DispatchedOff(ents, e.target, path)

MayResult(s, e, path) ==
  LET c == CallOn(s.ents, path, e.target)
  IN  /\ c.output = 0
      /\ Dispatched(c) /\ ~c.resultAfterLast /\ ~Answered(s.ents, c) /\ ~Rejected(s.ents, c)

MayDispatch(s, e, path) ==
  LET c == CallOn(s.ents, path, e.target)
  IN  ~Returned(c) /\ ~Rejected(s.ents, c) /\ ~Answered(s.ents, c) /\ c.output = 0

CheckCallRules(s, e) ==
  LET path == PathTo(s, e.parent)
  IN  CASE e.type = "call"     -> MayMakeCall(s, e)
        [] e.type = "output"   -> MayOutput(s, e, path)
        [] e.type = "decision" -> TargetCall(s, e, path) /\ MayDecide(s, e, path)
        [] e.type = "result"   -> TargetCall(s, e, path) /\ MayResult(s, e, path)
        [] e.type = "dispatch" -> TargetCall(s, e, path) /\ MayDispatch(s, e, path)
        [] OTHER               -> TRUE

(***************************************************************************)
(* Runs.  Runs(ents, path) is the start entries on the path; a run reaches *)
(* from its start to its own end, to the next start, or to the path's end. *)
(***************************************************************************)
Starts(ents, path) == {i \in path : ents[i].type = "start"}

EndsOf(ents, path, start) ==
  {i \in path : /\ ents[i].type = "end" /\ ents[i].run = ents[start].run /\ i > start
                /\ \A j \in Starts(ents, path) : ~(start < j /\ j < i)}

EndOf(ents, path, start) ==
  LET ends == EndsOf(ents, path, start)
  IN  IF ends = {} THEN 0 ELSE CHOOSE i \in ends : \A j \in ends : i <= j

Segment(ents, path, start) ==
  LET end == EndOf(ents, path, start)
  IN  {i \in path : /\ i >= start /\ (end /= 0 => i <= end)
                    /\ \A j \in Starts(ents, path) : j > start => i < j}

OpenRun(ents, path) ==
  {i \in Starts(ents, path) : (\A j \in Starts(ents, path) : j <= i) /\ EndOf(ents, path, i) = 0}

\* Mutant: a run's calls are the ones made on its segment.
RunCallsMade(ents, path, segment) == {i \in CallsOn(ents, path) \cap segment : ~ents[i].copied}

\* The calls made on the segment and those it holds an entry for; path ends with segment.
RunCalls(ents, path, segment) ==
  {i \in CallsOn(ents, path) : ~ents[i].copied /\ CallOn(ents, path, i).parts \cap segment /= {}}

RunPending(ents, path, segment) ==
  {ents[i].cid : i \in {j \in RunCalls(ents, path, segment) : CallOn(ents, path, j).output = 0}}

LastResponse(ents, set) ==
  LET rs == {i \in set : ents[i].type = "response"} IN IF rs = {} THEN 0 ELSE Newest(rs)

MadeCalls(ents, path, response) ==
  \E i \in CallsOn(ents, path) : ~ents[i].copied /\ ents[i].rid = ents[response].rid

StoppedOnPath(ents, path, segment) ==
  /\ LastResponse(ents, path) /= 0 /\ MadeCalls(ents, path, LastResponse(ents, path))
  /\ \A i \in CallsOn(ents, path) : ents[i].copied \/ CallOn(ents, path, i).output /= 0
  /\ \E i \in segment : ents[i].type \in {"decision", "output"}

ComputeReason(ents, path, segment) ==
  LET last     == LastResponse(ents, segment)
      open     == {CallOn(ents, path, i) : i \in RunCalls(ents, path, segment)}
      pending  == {c \in open : c.output = 0}
      held     == \E c \in pending : Waiting(ents, c)
      inFlight == \E c \in pending : InFlight(ents, c)
  IN  IF last /= 0 /\ ents[last].status = "error" THEN "error"
      ELSE IF held /\ ~inFlight THEN "input_required"
      ELSE IF pending /= {} \/ (last /= 0 /\ ents[last].status = "incomplete") THEN "aborted"
      ELSE IF last /= 0 /\ ~MadeCalls(ents, path, last) THEN "done"
      ELSE IF StoppedOnPath(ents, path, segment) THEN "stopped"
      ELSE "aborted"

\* A run's written end against its segment: a written error or interrupted stands.
RunVerifies(ents, path, start) ==
  LET end == EndOf(ents, path, start)
      upTo == {i \in path : i <= end}
      segment == Segment(ents, path, start)
  IN  end = 0 \/ /\ \/ ents[end].reason \in {"error", "interrupted"}
                    \/ ents[end].reason = ComputeReason(ents, upTo, segment)
                 /\ ents[end].pending = RunPending(ents, upTo, segment)

\* The source the shape of a run's segment shows: a resume takes up first a
\* call that was on the path with no output when the run began.
ComputeSource(ents, path, start) ==
  LET segment == Segment(ents, path, start)
      upTo    == {i \in path : i <= Newest(segment)}
      calls   == {i \in CallsOn(ents, upTo) : ~ents[i].copied}
      owner(i) == {c \in calls : c /= i /\ i \in CallOn(ents, upTo, c).parts}
      tells   == {i \in segment : owner(i) /= {} \/ ents[i].type = "output"}
      first   == CHOOSE i \in tells : \A j \in tells : i <= j
  IN  IF /\ tells /= {}
         /\ \E c \in owner(first) : c < start /\ (LET o == CallOn(ents, upTo, c).output
                                                  IN  o = 0 \/ o >= start)
      THEN "resume" ELSE "input"

(***************************************************************************)
(* Inputs queued on a path and not yet part of the conversation.           *)
(***************************************************************************)
Queued(ents, path) ==
  {q \in path : /\ ents[q].type = "queued"
                /\ ~\E j \in path : j > q /\ ents[j].type = "end"
                /\ ~\E j \in path : ents[j].type = "message" /\ ents[j].target = q}
==============================================================================
