---------------------------- MODULE RemoteLease -----------------------------
(***************************************************************************)
(* The write side of a remote store: a handler's leases on sessions, the   *)
(* fencing token every write carries, the store's hold that a lease stands *)
(* on, and the clients that take, renew and lose leases.                   *)
(*                                                                         *)
(* Each handler runs under its session's lock, so it is one action; what   *)
(* interleaves is the requests, which a client may stop waiting for and    *)
(* the network may deliver late, the timer that ends a lease, another      *)
(* process of the store's, an admin's break and a restart of the server.   *)
(* A create looks its Idempotency-Key up before it takes the lock.         *)
(*                                                                         *)
(* Time is a counter.  A lease is current while now < expires.             *)
(***************************************************************************)
EXTENDS Naturals, FiniteSets

CONSTANTS
    Clients, Sessions, Entries,
    None,         \* no session ID: the server makes one
    Created,      \* the sessions the store holds at the start
    Ops,          \* what the clients do
    TTL,          \* the time to live a client asks for
    MaxTTL,       \* the longest the server grants
    Margin,       \* how long before its lease's end a client stops
    PlainCreates, \* whether some client creates a session without a lease
    OtherProcess, \* whether another process uses the store's directory
    MaxTime,      \* bound: the clock
    MaxRequests,  \* bound: requests each client sends
    MaxRestarts,  \* bound: restarts of the server
    MaxBreaks     \* bound: an admin's breaks

AllOps == {"acquire", "renew", "release", "append", "delete", "create"}

ASSUME LeaseAssumption ==
    /\ None \notin Sessions /\ Created \subseteq Sessions /\ Ops \subseteq AllOps
    /\ TTL \in Nat \ {0} /\ MaxTTL \in Nat \ {0} /\ Margin \in 0..TTL
    /\ PlainCreates \in BOOLEAN /\ OtherProcess \in BOOLEAN
    /\ MaxTime \in Nat /\ MaxRequests \in Nat /\ MaxRestarts \in Nat /\ MaxBreaks \in Nat

VARIABLES
    now,      \* the server's clock, and the clients'
    store,    \* store[s]: the session in the store, and who holds it there
    held,     \* held[s]: the handler's write state of the session ID
    fired,    \* expiry calls waiting on a session's lock
    idem,     \* the answers kept under an Idempotency-Key
    begun,    \* creates past their key's lookup
    net,      \* requests on their way to the server
    answers,  \* answers on their way back
    client,   \* client[c]: the lease client c holds, as it sees it
    waits,    \* waits[c]: the requests c waits on
    sent,     \* sent[c]: requests c has sent
    leases,   \* leases granted so far, each the ID of the last
    landed,   \* landed[s]: the lease the last write to s landed under
    made,     \* made[k]: the sessions created for request k
    limits    \* restarts and breaks so far

vars == <<now, store, held, fired, idem, begun, net, answers, client, waits, sent,
          leases, landed, made, limits>>

-----------------------------------------------------------------------------
Keys == [c : Clients, n : 1..MaxRequests]

NoLease == [id |-> 0, token |-> 0, expires |-> 0, timer |-> 0]
NoClaim == [live |-> FALSE, renews |-> FALSE, s |-> None, id |-> 0, token |-> 0, deadline |-> 0]

\* A request: its sender and number, which is its key, and what it carries.
Request(c, op, s, e, lease) ==
    [c |-> c, n |-> sent[c] + 1, op |-> op, s |-> s, entry |-> e, lease |-> lease,
     id |-> client[c].id, token |-> client[c].token,
     at |-> IF op \in {"acquire", "renew", "create"} THEN now ELSE 0, again |-> op = "create"]
KeyOf(r) == [c |-> r.c, n |-> r.n]

Answer(r, ok, s, id, token) ==
    [c |-> r.c, n |-> r.n, op |-> r.op, ok |-> ok, s |-> s, id |-> id, token |-> token,
     at |-> r.at]
Refusal(r) == Answer(r, FALSE, None, IF r.op = "renew" THEN r.id ELSE 0, 0)

-----------------------------------------------------------------------------
(* lease.go.                                                               *)

\* lease.current: granted, and unexpired on the server's clock.
Current(s) == held[s].lease.id # 0 /\ now < held[s].lease.expires

ttlOf(ttl) == IF ttl > MaxTTL THEN MaxTTL ELSE ttl

\* Mutant: the clock alone, though it has not moved past the last token.
nextTokenByClock(last) == now

\* nextToken: the clock, or one past the last token issued.
nextToken(last) == IF now <= last THEN last + 1 ELSE now

\* releaseHold: the store lets the session go, if it holds it.
Released(x) == IF x.by = "server" THEN [x EXCEPT !.by = "none"] ELSE x

\* The store's hold, taken anew unless it has it: a new session in memory.
Opened(x) == IF x.by = "server" THEN x ELSE [x EXCEPT !.by = "server", !.open = @ + 1]

\* end: the lease goes, its timer stops, the store's hold is let go.
Ended(h) == [h EXCEPT !.lease = NoLease, !.sess = 0]

\* grant: a lease on the session the store holds, with the next token.
Granted(h, x) ==
    [token |-> nextToken(h.token), sess |-> x.open,
     lease |-> [id |-> leases + 1, token |-> nextToken(h.token),
                expires |-> now + ttlOf(TTL), timer |-> now + ttlOf(TTL)]]

\* fenced: the request's token is the current lease's.
Fenced(r) == Current(r.s) /\ held[r.s].lease.token = r.token

-----------------------------------------------------------------------------
Init ==
    /\ now = 1
    /\ store = [s \in Sessions |->
            [exists |-> s \in Created, by |-> "none", open |-> 0, log |-> {}, hdr |-> None]]
    /\ held = [s \in Sessions |-> [lease |-> NoLease, token |-> 0, sess |-> 0]]
    /\ fired = {} /\ idem = {} /\ begun = {} /\ net = {} /\ answers = {}
    /\ client = [c \in Clients |-> NoClaim]
    /\ waits = [c \in Clients |-> {}]
    /\ sent = [c \in Clients |-> 0]
    /\ leases = 0
    /\ landed = [s \in Sessions |-> 0]
    /\ made = [k \in Keys |-> {}]
    /\ limits = [restarts |-> 0, breaks |-> 0]

-----------------------------------------------------------------------------
(* The clients.                                                            *)

Send(c, r) ==
    /\ r.op \in Ops /\ sent[c] < MaxRequests
    /\ sent' = [sent EXCEPT ![c] = @ + 1]
    /\ net' = net \cup {r}
    /\ waits' = [waits EXCEPT ![c] = @ \cup {[n |-> r.n, op |-> r.op]}]
    /\ UNCHANGED <<now, store, held, fired, idem, begun, answers, leases, landed, made, limits>>

\* One call on a holding at a time, under its lock; renewals run beside it.
Waiting(c, ops) == \E w \in waits[c] : w.op \in ops
Free(c) == ~Waiting(c, AllOps \ {"renew"})

\* Client.acquire.
SendAcquire(c, s) ==
    /\ Free(c) /\ ~client[c].live
    /\ Send(c, Request(c, "acquire", s, None, TRUE))
    /\ UNCHANGED client

\* Client.fence: past its own deadline a client writes nothing.
Believes(c) == client[c].live /\ now <= client[c].deadline

\* Client.Write and Client.Delete, under the lease.
SendWrite(c, op, e) ==
    /\ Free(c) /\ Believes(c)
    /\ Send(c, Request(c, op, client[c].s, e, TRUE))
    /\ UNCHANGED client

\* One tick of Client.renew, while its lease is held and not known lost.
SendRenew(c) ==
    /\ client[c].renews /\ ~Waiting(c, {"renew"})
    /\ Send(c, Request(c, "renew", client[c].s, None, TRUE))
    /\ UNCHANGED client

\* Client.releaseHeld: the client forgets its lease, then ends it.
SendRelease(c) ==
    /\ Free(c) /\ client[c].live
    /\ Send(c, Request(c, "release", client[c].s, None, TRUE))
    /\ client' = [client EXCEPT ![c] = NoClaim]

\* Client.Create, with an ID of the client's or with none.  A create without
\* a lease is another client's, not this package's.
SendCreate(c, s, lease) ==
    /\ Free(c) /\ ~client[c].live /\ (lease \/ PlainCreates)
    /\ Send(c, Request(c, "create", s, None, lease))
    /\ UNCHANGED client

\* The caller's context ends the wait; the request goes on by itself, and
\* nobody reads its answer.
GiveUp(c) ==
    /\ \E w \in waits[c] :
         /\ waits' = [waits EXCEPT ![c] = @ \ {w}]
         /\ answers' = {a \in answers : a.c # c \/ a.n # w.n}
    /\ UNCHANGED <<now, store, held, fired, idem, begun, net, client, sent, leases,
                   landed, made, limits>>

\* Mutant: the deadline runs from the answer.
DeadlineFromAnswer(at) == now + TTL - Margin

\* The client's deadline runs from when it sent the request.
Deadline(at) == at + TTL - Margin

\* leased, and what renew and Delete make of their answers.
Claim(c, a) ==
    CASE a.ok /\ a.op \in {"acquire", "create"} /\ a.id # 0 ->
            [live |-> TRUE, renews |-> TRUE, s |-> a.s, id |-> a.id, token |-> a.token,
             deadline |-> Deadline(a.at)]
      [] a.ok /\ a.op = "renew" /\ client[c].live /\ client[c].id = a.id ->
            [client[c] EXCEPT !.deadline = Deadline(a.at)]
      [] ~a.ok /\ a.op = "renew" /\ client[c].id = a.id -> [client[c] EXCEPT !.renews = FALSE]
      [] a.ok /\ a.op = "delete" -> NoClaim
      [] OTHER -> client[c]

Receive(a) ==
    /\ a \in answers
    /\ answers' = {b \in answers : b.c # a.c \/ b.n # a.n}
    /\ waits' = [waits EXCEPT ![a.c] = @ \ {[n |-> a.n, op |-> a.op]}]
    /\ client' = [client EXCEPT ![a.c] = Claim(a.c, a)]
    /\ UNCHANGED <<now, store, held, fired, idem, begun, net, sent, leases, landed, made, limits>>

-----------------------------------------------------------------------------
(* The handlers.                                                           *)

Handle(r, op) == r \in net /\ r.op = op /\ net' = net \ {r}
Awaited(a)    == [n |-> a.n, op |-> a.op] \in waits[a.c]
Reply(a)      == answers' = IF Awaited(a) THEN answers \cup {a} ELSE answers
Refuse(r)     == Reply(Refusal(r)) /\ UNCHANGED <<store, held, leases, landed>>

\* leaseAcquire and take: a current lease refuses; an expired one is ended
\* first, and the store's hold taken again.
Acquire(r) ==
    LET s == r.s
        x == IF held[s].lease.id # 0 THEN Released(store[s]) ELSE store[s]
    IN
    /\ Handle(r, "acquire")
    /\ IF Current(s) THEN Refuse(r)
       ELSE IF ~x.exists \/ x.by = "other"
       THEN /\ store' = [store EXCEPT ![s] = x]
            /\ held' = [held EXCEPT ![s] = Ended(@)]
            /\ Reply(Refusal(r))
            /\ UNCHANGED <<leases, landed>>
       ELSE /\ store' = [store EXCEPT ![s] = Opened(x)]
            /\ held' = [held EXCEPT ![s] = Granted(@, Opened(x))]
            /\ leases' = leases + 1
            /\ Reply(Answer(r, TRUE, s, leases + 1, nextToken(held[s].token)))
            /\ UNCHANGED landed
    /\ UNCHANGED <<now, fired, idem, begun, client, waits, sent, made, limits>>

\* Mutant: the timer is not set again.
RenewLeavingTimer(r) ==
    LET s == r.s IN
    /\ Handle(r, "renew")
    /\ IF Current(s) /\ held[s].lease.id = r.id
       THEN /\ held' = [held EXCEPT ![s].lease.expires = now + ttlOf(TTL)]
            /\ Reply(Answer(r, TRUE, s, r.id, r.token))
            /\ UNCHANGED <<store, leases, landed>>
       ELSE Refuse(r)
    /\ UNCHANGED <<now, fired, idem, begun, client, waits, sent, made, limits>>

\* leaseRenew.
Renew(r) ==
    LET s == r.s
        until == now + ttlOf(TTL)
    IN
    /\ Handle(r, "renew")
    /\ IF Current(s) /\ held[s].lease.id = r.id
       THEN /\ held' = [held EXCEPT ![s].lease = [@ EXCEPT !.expires = until, !.timer = until]]
            /\ Reply(Answer(r, TRUE, s, r.id, r.token))
            /\ UNCHANGED <<store, leases, landed>>
       ELSE Refuse(r)
    /\ UNCHANGED <<now, fired, idem, begun, client, waits, sent, made, limits>>

\* leaseRelease: by the lease's ID, expired or not.
Release(r) ==
    LET s == r.s IN
    /\ Handle(r, "release")
    /\ IF held[s].lease.id = r.id
       THEN /\ held' = [held EXCEPT ![s] = Ended(@)]
            /\ store' = [store EXCEPT ![s] = Released(@)]
            /\ Reply(Answer(r, TRUE, s, 0, 0))
            /\ UNCHANGED <<leases, landed>>
       ELSE Refuse(r)
    /\ UNCHANGED <<now, fired, idem, begun, client, waits, sent, made, limits>>

\* appendEntries: fenced, then the store's Write, which takes the hold if it
\* has none and holds an entry it already has.
Append(r) ==
    LET s == r.s
        x == Opened(store[s])
    IN
    /\ Handle(r, "append")
    /\ IF Fenced(r) /\ store[s].exists /\ store[s].by # "other"
       THEN /\ store' = [store EXCEPT ![s] = [x EXCEPT !.log = x.log \cup {r.entry}]]
            /\ landed' = [landed EXCEPT ![s] = r.id]
            /\ Reply(Answer(r, TRUE, s, 0, 0))
            /\ UNCHANGED <<held, leases>>
       ELSE Refuse(r)
    /\ UNCHANGED <<now, fired, idem, begun, client, waits, sent, made, limits>>

\* deleteSession: fenced; the lease ends with the session, its token does not.
Delete(r) ==
    LET s == r.s IN
    /\ Handle(r, "delete")
    /\ IF Fenced(r) /\ store[s].exists /\ store[s].by # "other"
       THEN /\ store' = [store EXCEPT ![s] =
                    [@ EXCEPT !.exists = FALSE, !.by = "none", !.log = {}, !.hdr = None]]
            /\ held' = [held EXCEPT ![s] = Ended(@)]
            /\ landed' = [landed EXCEPT ![s] = r.id]
            /\ Reply(Answer(r, TRUE, s, 0, 0))
            /\ UNCHANGED leases
       ELSE Refuse(r)
    /\ UNCHANGED <<now, fired, idem, begun, client, waits, sent, made, limits>>

\* idempotent.get: an answer younger than the longest lease.
Kept(r) == {k \in idem : k.key = KeyOf(r) /\ now <= k.at + MaxTTL}

\* create, before the lock: a key answered already is answered the same.  The
\* transport may have sent the request twice, as it does one with a key.
CreateArrives(r) ==
    /\ r \in net /\ r.op = "create"
    /\ \E again \in {FALSE, r.again} :
         net' = (net \ {r}) \cup (IF again THEN {[r EXCEPT !.again = FALSE]} ELSE {})
    /\ IF Kept(r) # {}
       THEN (\E k \in Kept(r) : Reply(k.answer)) /\ UNCHANGED begun
       ELSE begun' = begun \cup {r} /\ UNCHANGED answers
    /\ UNCHANGED <<now, store, held, fired, idem, client, waits, sent, leases, landed, made, limits>>

\* answer: sent, and remembered under the request's key.
AnswerKept(r, a) ==
    /\ Reply(a)
    /\ idem' = {k \in idem : now <= k.at + MaxTTL}
                 \cup {[key |-> KeyOf(r), answer |-> a, at |-> now]}

\* create, under the lock of session s.  The same header again is the same
\* session; with a lease asked for, the session comes back leased.
CreateRuns(r, s) ==
    LET fresh == ~store[s].exists
        same  == store[s].exists /\ r.s = s /\ store[s].hdr = r.c
        x     == IF fresh
                 THEN [Opened(store[s]) EXCEPT !.exists = TRUE, !.hdr = IF r.s = None THEN None ELSE r.c]
                 ELSE IF held[s].lease.id # 0 /\ r.lease THEN Released(store[s]) ELSE store[s]
    IN
    /\ r \in begun /\ (r.s = s \/ (r.s = None /\ fresh))
    /\ begun' = begun \ {r}
    /\ IF (~fresh /\ ~same) \/ (r.lease /\ Current(s))
       THEN Refuse(r) /\ UNCHANGED <<idem, made>>
       ELSE IF r.lease /\ x.by = "other"
       THEN /\ store' = [store EXCEPT ![s] = x]
            /\ held' = [held EXCEPT ![s] = Ended(@)]
            /\ Reply(Refusal(r))
            /\ UNCHANGED <<leases, landed, idem, made>>
       ELSE /\ made' = [made EXCEPT ![KeyOf(r)] = IF fresh THEN @ \cup {s} ELSE @]
            /\ IF r.lease
               THEN /\ store' = [store EXCEPT ![s] = Opened(x)]
                    /\ held' = [held EXCEPT ![s] = Granted(@, Opened(x))]
                    /\ leases' = leases + 1
                    /\ AnswerKept(r, Answer(r, TRUE, s, leases + 1, nextToken(held[s].token)))
               ELSE /\ store' = [store EXCEPT ![s] = Released(x)]
                    /\ AnswerKept(r, Answer(r, TRUE, s, 0, 0))
                    /\ UNCHANGED <<held, leases>>
            /\ UNCHANGED landed
    /\ UNCHANGED <<now, fired, net, client, waits, sent, limits>>

-----------------------------------------------------------------------------
(* Time, timers, admins, another process, the server's restart.            *)

Tick ==
    /\ now < MaxTime /\ now' = now + 1
    /\ UNCHANGED <<store, held, fired, idem, begun, net, answers, client, waits, sent,
                   leases, landed, made, limits>>

\* The lease's timer goes off once: a call of expire waits for the lock.
TimerFires(s) ==
    /\ held[s].lease.timer # 0 /\ held[s].lease.timer <= now
    /\ held' = [held EXCEPT ![s].lease.timer = 0]
    /\ fired' = fired \cup {[s |-> s, id |-> held[s].lease.id]}
    /\ UNCHANGED <<now, store, idem, begun, net, answers, client, waits, sent, leases,
                   landed, made, limits>>

\* Mutant: the lease is ended though it was renewed, or another took its place.
ExpireBlindly(f) ==
    /\ f \in fired /\ fired' = fired \ {f}
    /\ held' = [held EXCEPT ![f.s] = Ended(@)]
    /\ UNCHANGED store
    /\ UNCHANGED <<now, idem, begun, net, answers, client, waits, sent, leases, landed, made, limits>>

\* expire: the lease ends unless it was renewed or ended meanwhile.
Expire(f) ==
    /\ f \in fired /\ fired' = fired \ {f}
    /\ IF held[f.s].lease.id = f.id /\ ~Current(f.s)
       THEN /\ held' = [held EXCEPT ![f.s] = Ended(@)]
            /\ store' = [store EXCEPT ![f.s] = Released(@)]
       ELSE UNCHANGED <<held, store>>
    /\ UNCHANGED <<now, idem, begun, net, answers, client, waits, sent, leases, landed, made, limits>>

\* leaseBreak: the lease ends, and its token is advanced past.
Break(s) ==
    /\ limits.breaks < MaxBreaks /\ limits' = [limits EXCEPT !.breaks = @ + 1]
    /\ held' = [held EXCEPT ![s] = [Ended(held[s]) EXCEPT !.token = nextToken(held[s].token)]]
    /\ store' = [store EXCEPT ![s] = IF held[s].lease.id # 0 THEN Released(@) ELSE @]
    /\ UNCHANGED <<now, fired, idem, begun, net, answers, client, waits, sent, leases, landed, made>>

\* The server stops and another starts, at a later time than any token says:
\* its leases, tokens and kept answers are gone, and so are the store's holds.
Restart ==
    /\ limits.restarts < MaxRestarts /\ limits' = [limits EXCEPT !.restarts = @ + 1]
    /\ now < MaxTime /\ now' = now + 1
    /\ \A s \in Sessions : held[s].token < now'
    /\ held' = [s \in Sessions |-> [lease |-> NoLease, token |-> 0, sess |-> 0]]
    /\ store' = [s \in Sessions |-> Released(store[s])]
    /\ fired' = {} /\ idem' = {} /\ begun' = {}
    /\ UNCHANGED <<net, answers, client, waits, sent, leases, landed, made>>

\* Another process of the store's takes a session nobody holds, or lets it go.
OtherHolds(s) ==
    /\ OtherProcess /\ store[s].exists
    /\ \/ store[s].by = "none" /\ store' = [store EXCEPT ![s].by = "other"]
       \/ store[s].by = "other" /\ store' = [store EXCEPT ![s].by = "none"]
    /\ UNCHANGED <<now, held, fired, idem, begun, net, answers, client, waits, sent, leases,
                   landed, made, limits>>

-----------------------------------------------------------------------------
Server ==
    \/ \E r \in net : Acquire(r) \/ Renew(r) \/ Release(r) \/ Append(r) \/ Delete(r)
                      \/ CreateArrives(r)
    \/ \E r \in begun, s \in Sessions : CreateRuns(r, s)
    \/ \E f \in fired : Expire(f)
    \/ \E s \in Sessions : TimerFires(s)

Next ==
    \/ Server
    \/ \E c \in Clients :
         \/ \E s \in Sessions : SendAcquire(c, s)
         \/ \E e \in Entries : SendWrite(c, "append", e)
         \/ SendWrite(c, "delete", None)
         \/ SendRenew(c) \/ SendRelease(c) \/ GiveUp(c)
         \/ \E s \in Sessions \cup {None}, lease \in BOOLEAN : SendCreate(c, s, lease)
    \/ \E a \in answers : Receive(a)
    \/ \E s \in Sessions : Break(s) \/ OtherHolds(s)
    \/ Tick \/ Restart

Spec == Init /\ [][Next]_vars

\* Timers and the calls they start run: the Go runtime runs every goroutine,
\* and a session's lock is held only for the length of a handler.
FairSpec ==
    /\ Spec
    /\ \A s \in Sessions : WF_vars(TimerFires(s))
    /\ WF_vars(\E f \in fired : Expire(f))

-----------------------------------------------------------------------------
(* Properties.                                                             *)

Stored ==
    [exists : BOOLEAN, by : {"none", "server", "other"}, open : Nat, log : SUBSET Entries,
     hdr : Clients \cup {None}]

HeldStates ==
    [lease : [id : Nat, token : Nat, expires : Nat, timer : Nat], token : Nat, sess : Nat]

Holdings ==
    [live : BOOLEAN, renews : BOOLEAN, s : Sessions \cup {None}, id : Nat, token : Nat,
     deadline : Nat]

Requests ==
    [c : Clients, n : Nat, op : AllOps, s : Sessions \cup {None}, entry : Entries \cup {None},
     lease : BOOLEAN, id : Nat, token : Nat, at : Nat, again : BOOLEAN]

Answers ==
    [c : Clients, n : Nat, op : AllOps, ok : BOOLEAN, s : Sessions \cup {None}, id : Nat,
     token : Nat, at : Nat]

\* What a request or an answer names is there for its handler: a session,
\* an entry to append, a session and a token with every lease.
RequestOK(r) ==
    /\ r \in Requests
    /\ r.op # "create" => r.s \in Sessions
    /\ r.op = "append" => r.entry \in Entries

AnswerOK(a) ==
    /\ a \in Answers
    /\ a.ok => a.s \in Sessions

\* Every variable keeps its type; a client that renews or writes has a lease
\* on a session, and a lease's timer, while it is set, goes off when the
\* lease ends.
TypeOK ==
    /\ now \in Nat \ {0} /\ leases \in Nat
    /\ store \in [Sessions -> Stored] /\ held \in [Sessions -> HeldStates]
    /\ client \in [Clients -> Holdings]
    /\ sent \in [Clients -> Nat] /\ landed \in [Sessions -> Nat]
    /\ limits \in [restarts : Nat, breaks : Nat]
    /\ \A s \in Sessions : held[s].lease.timer \in {0, held[s].lease.expires}
    /\ \A c \in Clients :
         /\ client[c].renews => client[c].live
         /\ client[c].live => client[c].s \in Sessions
    /\ \A r \in net \cup begun : RequestOK(r)
    /\ \A r \in begun : r.op = "create"
    /\ \A a \in answers : AnswerOK(a)
    /\ \A k \in idem : AnswerOK(k.answer) /\ k.at \in Nat
    /\ \A f \in fired : f.s \in Sessions

\* A write never lands after one made under a later lease: however long a
\* request was delayed, its token says the lease it was made under (RFC 0003:
\* "cannot write after the new holder has").
LandsInLeaseOrder == [][\A s \in Sessions : landed'[s] >= landed[s]]_vars

\* A current lease stands on the store's hold, and on the session the store
\* has in memory; with no lease the hold is free for another process (held:
\* "sess is the store's session, shared with the store, while a lease holds it").
LeaseIsTheHold ==
    \A s \in Sessions :
        /\ Current(s) => store[s].by = "server" /\ held[s].sess = store[s].open
        /\ held[s].lease.id = 0 => store[s].by # "server"

\* Two clients never both go on writing to a session: a client stops before
\* the server can have ended its lease (leaseMargin).  An admin's break and a
\* restart end leases early, which the client learns by being refused.
OneBeliever ==
    limits.breaks = 0 /\ limits.restarts = 0 =>
    \A c, d \in Clients :
        Believes(c) /\ Believes(d) /\ client[c].s = client[d].s => c = d

\* One create request makes one session, however often the transport sends it
\* (RFC 0003: "the server MUST return the first outcome for a repeated key").
CreatesOnce == \A k \in Keys : Cardinality(made[k]) <= 1

\* A lease past its time is ended, and the store's hold let go, whether or
\* not anyone asks: the timer that renewing moved is never lost.
ExpiredLeasesEnd ==
    \A s \in Sessions :
        (held[s].lease.id # 0 /\ ~Current(s)) ~> (held[s].lease.id = 0 \/ Current(s))

=============================================================================
