---------------------------- MODULE RemoteClient ----------------------------
(***************************************************************************)
(* One remote client and the calls its callers make on a session at once:  *)
(* the holding the client keeps for the session, the two kinds of lock     *)
(* over it (holdMu over the list of holdings, mu over each), the session   *)
(* the client keeps beside the server's, and the requests a call sends     *)
(* one after the other, any of which may fail or lose its answer.          *)
(*                                                                         *)
(* RemoteLease models the server's leases; here the server is one session  *)
(* with its lease, entries and head, and answers each request at once.     *)
(* With one session, Close is a Release of whatever holding is listed.     *)
(***************************************************************************)
EXTENDS Naturals, FiniteSets

CONSTANTS
    Threads,     \* the goroutines that call the client
    Free,        \* nobody has the lock
    MaxCalls,    \* bound: calls started
    MaxEntries,  \* bound: entries prepared
    MaxFaults,   \* bound: requests that fail or lose their answers
    MaxEvents    \* bound: the server's lease ending, another client's writes

ASSUME ClientAssumption ==
    Free \notin Threads /\ MaxCalls \in Nat /\ MaxEntries \in Nat

VARIABLES
    srv,      \* the server's session: its lease, entries and head
    holding,  \* holding[h]: the client's holdings, in the order they were made
    listed,   \* the holding Client.holds lists for the session, 0 for none
    holdMu,   \* who has Client.holdMu
    mu,       \* mu[h]: who has the holding's lock
    call,     \* call[t]: the call thread t makes
    parent,   \* parent[e]: where entry e hangs, 0 for the root
    leased,   \* leases granted so far
    orphaned, \* a holding was dropped while a call waited for its lock
    used      \* calls, entries, faults and events so far

clientVars == <<srv, holding, listed, holdMu, mu, call, parent, leased, orphaned, used>>

Root == 0
Ids == 1..MaxEntries
Holdings == 1..MaxCalls
Ops == {"open", "write", "sethead", "delete", "release", "create"}

-----------------------------------------------------------------------------
NoSession == [has |-> FALSE, ents |-> {}, leaf |-> Root]

\* A holding as hold makes one: no lease, no session.  Two members are not the
\* code's: an answer that told of the server's head was lost (behind), and the
\* caller moved the session's leaf while a call had the lock (stirred).
NewHolding == [lease |-> 0, done |-> FALSE, sess |-> NoSession, head |-> Root,
               behind |-> FALSE, stirred |-> FALSE]

Idle == [op |-> "none", at |-> "idle", h |-> 1, e |-> 0, to |-> Root, ok |-> TRUE]

ClientInit ==
    /\ srv = [exists |-> TRUE, lease |-> 0, ents |-> {}, head |-> Root]
    /\ holding = [h \in Holdings |-> NewHolding]
    /\ listed = 0 /\ holdMu = Free /\ mu = [h \in Holdings |-> Free]
    /\ call = [t \in Threads |-> Idle]
    /\ parent = [e \in Ids |-> Root]
    /\ leased = 0 /\ orphaned = FALSE
    /\ used = [calls |-> 0, entries |-> 0, faults |-> 0, events |-> 0, made |-> 0]

-----------------------------------------------------------------------------
(* Steps of a call.                                                        *)

In(t, at) == call[t].at = at
Of(t, ops) == call[t].op \in ops
H(t) == holding[call[t].h]
Sess(t) == H(t).sess

Goto(t, at) == call' = [call EXCEPT ![t].at = at]

\* The call is over; its caller keeps an entry that failed, to write it again.
Over(t, ok) == call' = [call EXCEPT ![t] = [Idle EXCEPT !.e = IF ok THEN 0 ELSE call[t].e, !.ok = ok]]

\* hd.mu is unlocked and the call returns.
Return(t, ok) == Over(t, ok) /\ mu' = [mu EXCEPT ![call[t].h] = Free]

\* A call begins: Create with its request, the others in hold or Release with
\* the listed holding, under holdMu; hold lists a new one if there is none.
Start(t, op) ==
    LET new == used.made + 1
        begun(at, h) == [call[t] EXCEPT !.op = op, !.at = at, !.h = h]
    IN
    /\ In(t, "idle") /\ used.calls < MaxCalls
    /\ IF op = "create"
       THEN /\ call' = [call EXCEPT ![t] = begun("create", new)]
            /\ used' = [used EXCEPT !.calls = @ + 1, !.made = new]
            /\ UNCHANGED listed
       ELSE /\ holdMu = Free /\ (op = "release" => listed # 0)
            /\ listed' = IF listed = 0 THEN new ELSE listed
            /\ used' = [used EXCEPT !.calls = @ + 1, !.made = IF listed = 0 THEN new ELSE @]
            /\ call' = [call EXCEPT ![t] = begun("lock", listed')]
    /\ UNCHANGED <<srv, holding, holdMu, mu, parent, leased, orphaned>>

\* What a call does once its holding has a lease.
Leased(t) == IF Of(t, {"delete"}) THEN "fence" ELSE "session"

\* hd.mu.Lock: a holding with a lease is used as it is, though its lease may
\* be over at the server; any other takes one.
Lock(t) ==
    /\ In(t, "lock") /\ mu[call[t].h] = Free
    /\ mu' = [mu EXCEPT ![call[t].h] = t]
    /\ holding' = [holding EXCEPT ![call[t].h].stirred = FALSE]
    /\ Goto(t, IF Of(t, {"release"}) THEN "drop"
               ELSE IF H(t).lease # 0 /\ ~H(t).done THEN Leased(t) ELSE "acquire")
    /\ UNCHANGED <<srv, listed, holdMu, parent, leased, orphaned, used>>

\* A request's fate: it is answered, or its answer is lost, or it never
\* reaches the server.
Fates == {"answered", "lost", "undelivered"}
Fate(f) ==
    /\ f # "answered" => used.faults < MaxFaults
    /\ used' = IF f = "answered" THEN used ELSE [used EXCEPT !.faults = @ + 1]

\* acquire: POST lease.  A session that is gone or leased refuses.
Acquire(t) ==
    /\ In(t, "acquire")
    /\ \E f \in Fates :
        LET granted == f # "undelivered" /\ srv.exists /\ srv.lease = 0 IN
        /\ Fate(f)
        /\ srv' = IF granted THEN [srv EXCEPT !.lease = leased + 1] ELSE srv
        /\ leased' = IF granted THEN leased + 1 ELSE leased
        /\ IF granted /\ f = "answered"
           THEN /\ holding' = [holding EXCEPT ![call[t].h] =
                        [@ EXCEPT !.lease = leased + 1, !.head = srv.head, !.done = FALSE, !.behind = FALSE]]
                /\ Goto(t, Leased(t))
           ELSE Goto(t, "drop") /\ UNCHANGED holding
    /\ UNCHANGED <<listed, holdMu, mu, parent, orphaned>>

\* drop, which takes holdMu while the caller has hd.mu, and then, for what
\* drops a lease, releaseHeld's request.  An open whose acquire failed has none
\* to drop: its holding has no lease, or is done.
Drop(t) ==
    /\ In(t, "drop") /\ holdMu = Free
    /\ holding' = [holding EXCEPT ![call[t].h].done = TRUE]
    /\ listed' = IF listed = call[t].h THEN 0 ELSE listed
    /\ orphaned' = (orphaned \/ \E u \in Threads \ {t} : In(u, "lock") /\ call[u].h = call[t].h)
    /\ IF H(t).lease # 0 /\ (Of(t, {"release"}) \/ (Of(t, {"open"}) /\ ~H(t).done))
       THEN Goto(t, "unlease") /\ UNCHANGED mu
       ELSE Return(t, Of(t, {"release", "delete"}))
    /\ UNCHANGED <<srv, holdMu, parent, leased, used>>

\* releaseHeld: DELETE lease.
Unlease(t) ==
    /\ In(t, "unlease")
    /\ \E f \in Fates :
        /\ Fate(f)
        /\ srv' = IF f # "undelivered" /\ srv.lease = H(t).lease THEN [srv EXCEPT !.lease = 0] ELSE srv
        /\ Return(t, f = "answered")
    /\ UNCHANGED <<holding, listed, holdMu, parent, leased, orphaned>>

\* Mutant: a session that cannot be read returns with the holding locked.
SessionKeepsLock(t) ==
    /\ In(t, "session") /\ ~Sess(t).has /\ Fate("undelivered")
    /\ Over(t, FALSE)
    /\ UNCHANGED <<srv, holding, listed, holdMu, mu, parent, leased, orphaned>>

\* session: the server's, its leaf where the lease started.  Open lets the
\* lease go when it cannot be read.
Session(t) ==
    LET then == IF Of(t, {"write"}) THEN "prepare" ELSE "fence" IN
    /\ In(t, "session")
    /\ \E f \in {"answered", "undelivered"} :
        LET read == f = "answered" /\ srv.exists /\ H(t).head \in srv.ents \cup {Root} IN
        /\ Sess(t).has => f = "answered"
        /\ Fate(f)
        /\ holding' = IF Sess(t).has \/ ~read THEN holding
                      ELSE [holding EXCEPT ![call[t].h].sess =
                                [has |-> TRUE, ents |-> srv.ents, leaf |-> H(t).head]]
        /\ IF ~Sess(t).has /\ ~read
           THEN IF Of(t, {"open"}) THEN Goto(t, "drop") /\ UNCHANGED mu ELSE Return(t, FALSE)
           ELSE IF Of(t, {"open"}) THEN Return(t, TRUE) ELSE Goto(t, then) /\ UNCHANGED mu
    /\ UNCHANGED <<srv, listed, holdMu, parent, leased, orphaned>>

\* Prepare: a new entry under the session's leaf, or the entry the caller's
\* last write failed with; one the session has is Held.
Prepare(t) ==
    /\ In(t, "prepare")
    /\ \/ /\ used.entries < MaxEntries
          /\ used' = [used EXCEPT !.entries = @ + 1]
          /\ parent' = [parent EXCEPT ![used.entries + 1] = Sess(t).leaf]
          /\ call' = [call EXCEPT ![t].e = used.entries + 1, ![t].at = "fence"]
          /\ UNCHANGED mu
       \/ /\ call[t].e # 0 /\ ~call[t].ok
          /\ IF call[t].e \in Sess(t).ents THEN Return(t, TRUE)
             ELSE IF parent[call[t].e] \in Sess(t).ents \cup {Root}
             THEN Goto(t, "fence") /\ UNCHANGED mu
             ELSE Return(t, FALSE)
          /\ UNCHANGED <<parent, used>>
       \/ Return(t, FALSE) /\ used.entries = MaxEntries /\ UNCHANGED <<parent, used>>
    /\ UNCHANGED <<srv, holding, listed, holdMu, leased, orphaned>>

\* fence: nothing is sent past the client's own deadline, which its renewals
\* move and their failures let pass.  A write then moves the server's head to
\* the session's leaf when they differ.
Fence(t) ==
    LET moves == Of(t, {"write"}) /\ Sess(t).leaf \notin {Root, H(t).head} IN
    /\ In(t, "fence")
    /\ \/ /\ \E to \in IF moves THEN {Sess(t).leaf} ELSE Sess(t).ents \cup {Root} :
               call' = [call EXCEPT ![t].to = IF Of(t, {"sethead"}) \/ moves THEN to ELSE Root,
                                    ![t].at = IF moves THEN "move" ELSE call[t].op]
          /\ UNCHANGED <<mu, used>>
       \/ Fate("undelivered") /\ Return(t, FALSE)
    /\ UNCHANGED <<srv, holding, listed, holdMu, parent, leased, orphaned>>

Fenced(t) == srv.lease # 0 /\ srv.lease = H(t).lease

\* The server's setHead: fenced, compared, swapped.
Swaps(t, expected, to) == Fenced(t) /\ srv.head = expected /\ to \in srv.ents \cup {Root}

\* moveHead, before an append and, for a root, after it; SetHead is the same
\* request with the caller's expected head, here the session's leaf, and moves
\* the session's leaf too.
MoveHead(t) ==
    LET set == In(t, "sethead")
        expected == IF set THEN Sess(t).leaf ELSE H(t).head
        to == call[t].to
    IN
    /\ call[t].at \in {"move", "rootmove", "sethead"}
    /\ \E f \in Fates :
        LET moved == f # "undelivered" /\ Swaps(t, expected, to)
            sess  == IF ~set THEN Sess(t)
                     ELSE IF to \in Sess(t).ents \cup {Root} THEN [Sess(t) EXCEPT !.leaf = to]
                     ELSE NoSession
        IN
        /\ Fate(f)
        /\ srv' = IF moved THEN [srv EXCEPT !.head = to] ELSE srv
        /\ IF moved /\ f = "answered"
           THEN /\ holding' = [holding EXCEPT ![call[t].h] =
                        [@ EXCEPT !.head = to, !.sess = sess, !.behind = FALSE]]
                /\ IF In(t, "move") THEN Goto(t, "write") /\ UNCHANGED mu ELSE Return(t, TRUE)
           ELSE /\ holding' = [holding EXCEPT ![call[t].h].behind = @ \/ moved]
                /\ Return(t, FALSE)
    /\ UNCHANGED <<listed, holdMu, parent, leased, orphaned>>

\* The server's append: an entry under its head continues and takes the head,
\* any other branches.
Appended(e) ==
    IF e \in srv.ents THEN srv
    ELSE [srv EXCEPT !.ents = @ \cup {e}, !.head = IF parent[e] = @ THEN e ELSE @]

\* Mutant: the head is taken to be the entry the client wrote.
HeadAfterOwn(t) == call[t].e

\* hd.head: the head the server reports.
HeadAfter(t) == Appended(call[t].e).head

\* Commit on the client's session.
Committed(sess, e) ==
    [sess EXCEPT !.ents = @ \cup {e}, !.leaf = IF parent[e] = @ THEN e ELSE @]

\* Mutant: a root the server took as a branch is left off the head.
MovesRootNever(t, sess, head) == FALSE

\* A first entry the session continues and the server's took as a branch.
MovesRoot(t, sess, head) == sess.leaf = call[t].e /\ head # sess.leaf /\ parent[call[t].e] = Root

\* Write: POST entries, and then the client's session takes the entry.
Write(t) ==
    LET e == call[t].e IN
    /\ In(t, "write")
    /\ \E f \in Fates :
        LET lands == f # "undelivered" /\ Fenced(t)
            sess  == Committed(Sess(t), e)
        IN
        /\ Fate(f)
        /\ srv' = IF lands THEN Appended(e) ELSE srv
        /\ IF lands /\ f = "answered"
           THEN /\ holding' = [holding EXCEPT ![call[t].h] =
                        [@ EXCEPT !.head = HeadAfter(t), !.sess = sess, !.behind = FALSE]]
                /\ IF MovesRoot(t, sess, HeadAfter(t))
                   THEN call' = [call EXCEPT ![t].to = e, ![t].at = "rootmove"] /\ UNCHANGED mu
                   ELSE Return(t, TRUE)
           ELSE /\ holding' = [holding EXCEPT ![call[t].h].behind = @ \/ lands]
                /\ Return(t, FALSE)
    /\ UNCHANGED <<listed, holdMu, parent, leased, orphaned>>

\* Delete: the lease ends with the session.
Delete(t) ==
    /\ In(t, "delete")
    /\ \E f \in Fates :
        /\ Fate(f)
        /\ srv' = IF f # "undelivered" /\ Fenced(t)
                  THEN [exists |-> FALSE, lease |-> 0, ents |-> {}, head |-> Root] ELSE srv
        /\ IF f = "answered" /\ Fenced(t) THEN Goto(t, "drop") /\ UNCHANGED mu ELSE Return(t, FALSE)
    /\ UNCHANGED <<holding, listed, holdMu, parent, leased, orphaned>>

\* Create: the session comes back with a lease, in a holding of its own.
Create(t) ==
    /\ In(t, "create")
    /\ \E f \in Fates :
        LET made == f # "undelivered" /\ ~srv.exists IN
        /\ Fate(f)
        /\ srv' = IF made THEN [srv EXCEPT !.exists = TRUE, !.lease = leased + 1] ELSE srv
        /\ leased' = IF made THEN leased + 1 ELSE leased
        /\ IF made /\ f = "answered"
           THEN /\ holding' = [holding EXCEPT ![call[t].h] =
                        [NewHolding EXCEPT !.lease = leased + 1, !.sess = [NoSession EXCEPT !.has = TRUE]]]
                /\ Goto(t, "list")
           ELSE Over(t, FALSE) /\ UNCHANGED holding
    /\ UNCHANGED <<listed, holdMu, mu, parent, orphaned>>

\* Create takes holdMu, and an old holding's lock while it has it.
List(t) ==
    /\ In(t, "list") /\ holdMu = Free
    /\ IF listed = 0
       THEN listed' = call[t].h /\ Over(t, TRUE) /\ UNCHANGED holdMu
       ELSE holdMu' = t /\ Goto(t, "replace") /\ UNCHANGED listed
    /\ UNCHANGED <<srv, holding, mu, parent, leased, orphaned, used>>

Replace(t) ==
    /\ In(t, "replace") /\ mu[listed] = Free
    /\ holding' = [holding EXCEPT ![listed].done = TRUE]
    /\ listed' = call[t].h /\ holdMu' = Free
    /\ orphaned' = (orphaned \/ \E u \in Threads : In(u, "lock") /\ call[u].h = listed)
    /\ Over(t, TRUE)
    /\ UNCHANGED <<srv, mu, parent, leased, used>>

-----------------------------------------------------------------------------
(* What else happens.                                                      *)

Event == used.events < MaxEvents /\ used' = [used EXCEPT !.events = @ + 1]

\* The caller moves the leaf of the session Open gave it, under no lock of
\* the client's.
Branch(h, to) ==
    /\ Event /\ holding[h].sess.has /\ to \in (holding[h].sess.ents \cup {Root}) \ {holding[h].sess.leaf}
    /\ holding' = [holding EXCEPT ![h].sess.leaf = to, ![h].stirred = @ \/ mu[h] # Free]
    /\ UNCHANGED <<srv, listed, holdMu, mu, call, parent, leased, orphaned>>

\* The server's lease ends: it ran out, or an admin broke it.
LeaseEnds ==
    /\ Event /\ srv.lease # 0 /\ srv' = [srv EXCEPT !.lease = 0]
    /\ UNCHANGED <<holding, listed, holdMu, mu, call, parent, leased, orphaned>>

\* Another client takes the lease, appends an entry and lets it go.
OtherWrites ==
    /\ used.events < MaxEvents /\ used.entries < MaxEntries /\ srv.exists /\ srv.lease = 0
    /\ used' = [used EXCEPT !.events = @ + 1, !.entries = @ + 1]
    /\ parent' = [parent EXCEPT ![used.entries + 1] = srv.head]
    /\ srv' = [srv EXCEPT !.ents = @ \cup {used.entries + 1}, !.head = used.entries + 1]
    /\ UNCHANGED <<holding, listed, holdMu, mu, call, leased, orphaned>>

-----------------------------------------------------------------------------
CallSteps(t) ==
    \/ Lock(t) \/ Acquire(t) \/ Drop(t) \/ Unlease(t) \/ Session(t) \/ Prepare(t)
    \/ Fence(t) \/ MoveHead(t) \/ Write(t) \/ Delete(t) \/ Create(t) \/ List(t) \/ Replace(t)

ClientNext ==
    \/ \E t \in Threads : CallSteps(t) \/ \E op \in Ops : Start(t, op)
    \/ LeaseEnds \/ OtherWrites
    \/ \E h \in Holdings, to \in Ids \cup {Root} : Branch(h, to)

ClientSpec == ClientInit /\ [][ClientNext]_clientVars

-----------------------------------------------------------------------------
(* Properties.                                                             *)

\* The types of the client's holdings, locks and calls.
ClientTypeOK ==
    /\ srv \in [exists : BOOLEAN, lease : Nat, ents : SUBSET Ids, head : Ids \cup {Root}]
    /\ \A h \in Holdings :
         /\ holding[h].lease \in Nat /\ holding[h].sess.ents \subseteq Ids
         /\ holding[h].sess.leaf \in holding[h].sess.ents \cup {Root}
    /\ listed \in Holdings \cup {0} /\ holdMu \in Threads \cup {Free}
    /\ \A h \in Holdings : mu[h] \in Threads \cup {Free}

\* Under a lease the client knows the server's head, through branches, root
\* entries and head moves, unless it lost an answer since it last heard of it
\* (holding.head: "the server's head, which the client's appends and head
\* moves keep in step with").  A head it has wrong is a move refused.
HeadInStep ==
    \A h \in Holdings :
        holding[h].lease # 0 /\ holding[h].lease = srv.lease /\ ~holding[h].behind
            => holding[h].head = srv.head

\* A write the server takes, and that the caller's session continues, leaves
\* the record's head on it (Client: "so the record's head is the writer's
\* leaf"), unless an answer was lost before it, the server had the entry, or
\* the caller moved the leaf meanwhile.
HeadIsLeaf ==
    [][\A t \in Threads :
        LET h == call[t].h IN
        /\ (In(t, "write") /\ call[t].e \notin srv.ents) \/ In(t, "rootmove")
        /\ call'[t].at = "idle" /\ call'[t].ok
        /\ holding'[h].sess.leaf = call[t].e /\ holding'[h].lease = srv'.lease
        /\ ~holding[h].behind /\ ~holding[h].stirred
        => srv'.head = call[t].e]_clientVars

\* What the client's session shows is on the server while its lease lasts.
SessionOnServer ==
    \A h \in Holdings :
        ~orphaned /\ holding[h].lease # 0 /\ holding[h].lease = srv.lease => holding[h].sess.ents \subseteq srv.ents

Resting == \A t \in Threads : In(t, "idle")

\* When no call is under way, every lease the client was granted, and knows
\* of, is its listed holding's, so that Close ends it, unless a holding was
\* dropped under a call waiting for its lock, which then takes a lease on it.
LeasesListed ==
    Resting /\ ~orphaned =>
        \A h \in Holdings :
            holding[h].lease # 0 /\ holding[h].lease = srv.lease /\ ~holding[h].done => h = listed

\* The client's session, its view of the server's head and its list of leases
\* stay in step with the server, but where an answer or a holding was lost
\* (hold, Write, SetHead, Release, drop).
ClientInStep == ClientTypeOK /\ HeadInStep /\ SessionOnServer /\ LeasesListed

\* The lock a call waits for is another's.
Blocked(t) ==
    \/ In(t, "lock") /\ mu[call[t].h] # Free
    \/ call[t].at \in {"drop", "list"} /\ holdMu # Free
    \/ In(t, "replace") /\ mu[listed] # Free

\* A Create that waits for an old holding's lock while it has holdMu, and a
\* call that has that lock and drops the holding.
Crossed == \E t, u \in Threads : In(t, "replace") /\ In(u, "drop") /\ mu[listed] = u

\* Calls never all wait on one another, whatever locks they take, unless a
\* Create and a drop have crossed.
WaitsEnd == Resting \/ Crossed \/ \E t \in Threads : ~In(t, "idle") /\ ~Blocked(t)
=============================================================================
