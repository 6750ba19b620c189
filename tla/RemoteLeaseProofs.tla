------------------------- MODULE RemoteLeaseProofs --------------------------
(***************************************************************************)
(* Proofs about RemoteLease, for any number of clients and sessions and    *)
(* any times to live: its types, that a token fences, that a lease stands  *)
(* on the store's hold, and that no two clients believe they have one.     *)
(***************************************************************************)
EXTENDS RemoteLeaseInv, TLAPS

-----------------------------------------------------------------------------
(* What the helpers return.                                                *)

LEMMA NextTokenGrows ==
    ASSUME NEW last \in Nat, now \in Nat \ {0}
    PROVE  nextToken(last) \in Nat /\ nextToken(last) > last /\ nextToken(last) >= now
BY DEF nextToken

LEMMA LeaseTimes == ASSUME now \in Nat PROVE now + ttlOf(TTL) \in Nat
BY LeaseAssumption DEF ttlOf

LEMMA StoredTypes ==
    ASSUME NEW x \in Stored
    PROVE  Released(x) \in Stored /\ Opened(x) \in Stored /\ Opened(x).open \in Nat
<1>1. CASE x.by = "server"
  <2>1. Released(x) = [x EXCEPT !.by = "none"] /\ Opened(x) = x
    BY <1>1 DEF Released, Opened
  <2> QED BY <2>1 DEF Stored
<1>2. CASE x.by # "server"
  <2>1. Released(x) = x /\ Opened(x) = [x EXCEPT !.by = "server", !.open = x.open + 1]
    BY <1>2 DEF Released, Opened
  <2>2. x.open + 1 \in Nat
    BY DEF Stored
  <2>3. [x EXCEPT !.by = "server", !.open = x.open + 1] \in Stored
    BY <2>2, Zenon DEF Stored
  <2> QED BY <2>1, <2>3 DEF Stored
<1> QED
  BY <1>1, <1>2

LEMMA EndedType ==
    ASSUME NEW h \in HeldStates
    PROVE  Ended(h) \in HeldStates /\ Ended(h).lease = NoLease /\ Ended(h).token = h.token
BY DEF Ended, HeldStates, NoLease

LEMMA GrantedType ==
    ASSUME NEW h \in HeldStates, NEW x \in Stored, now \in Nat \ {0}, leases \in Nat
    PROVE  /\ Granted(h, x) \in HeldStates
           /\ Granted(h, x).lease.timer = Granted(h, x).lease.expires
<1>1. nextToken(h.token) \in Nat
  BY NextTokenGrows DEF HeldStates
<1>2. now + ttlOf(TTL) \in Nat
  BY LeaseTimes
<1> QED
  BY <1>1, <1>2 DEF Granted, HeldStates, Stored

LEMMA DeadlineType == \A at \in Nat : Deadline(at) \in Nat
BY LeaseAssumption DEF Deadline

\* A client's lease, as any answer leaves it.
LEMMA ClaimType ==
    ASSUME TypeOK, NEW a \in answers
    PROVE  /\ Claim(a.c, a) \in Holdings
           /\ Claim(a.c, a).renews => Claim(a.c, a).live
           /\ Claim(a.c, a).live => Claim(a.c, a).s \in Sessions
<1> USE DEF TypeOK, AnswerOK, Answers
<1>1. a.c \in Clients /\ client[a.c] \in Holdings /\ Deadline(a.at) \in Nat
  BY DeadlineType
<1>2. CASE a.ok /\ a.op \in {"acquire", "create"} /\ a.id # 0
  BY <1>1, <1>2 DEF Claim, Holdings
<1>3. CASE a.ok /\ a.op = "renew" /\ client[a.c].live /\ client[a.c].id = a.id
  BY <1>1, <1>3 DEF Claim, Holdings
<1>4. CASE ~a.ok /\ a.op = "renew" /\ client[a.c].id = a.id
  BY <1>1, <1>4 DEF Claim, Holdings
<1>5. CASE a.ok /\ a.op = "delete"
  BY <1>1, <1>5 DEF Claim, Holdings, NoClaim
<1>6. CASE /\ ~(a.ok /\ a.op \in {"acquire", "create"} /\ a.id # 0)
           /\ ~(a.ok /\ a.op = "renew" /\ client[a.c].live /\ client[a.c].id = a.id)
           /\ ~(~a.ok /\ a.op = "renew" /\ client[a.c].id = a.id)
           /\ ~(a.ok /\ a.op = "delete")
  BY <1>1, <1>6 DEF Claim
<1> QED
  BY <1>2, <1>3, <1>4, <1>5, <1>6

LEMMA RefusalType ==
    ASSUME NEW r, RequestOK(r)
    PROVE  AnswerOK(Refusal(r))
BY DEF Refusal, Answer, AnswerOK, Answers, RequestOK, Requests

LEMMA AnswerType ==
    ASSUME NEW r, RequestOK(r), NEW s \in Sessions, NEW id \in Nat, NEW token \in Nat
    PROVE  AnswerOK(Answer(r, TRUE, s, id, token))
BY DEF Answer, AnswerOK, Answers, RequestOK, Requests

LEMMA ReplyType ==
    ASSUME TypeOK, NEW a, AnswerOK(a), Reply(a)
    PROVE  \A b \in answers' : AnswerOK(b)
BY DEF TypeOK, Reply

LEMMA RequestType ==
    ASSUME TypeOK, NEW c \in Clients, NEW op \in AllOps, NEW s \in Sessions \cup {None},
           NEW e \in Entries \cup {None}, NEW lease \in BOOLEAN,
           op # "create" => s \in Sessions, op = "append" => e \in Entries
    PROVE  RequestOK(Request(c, op, s, e, lease))
<1>1. client[c].id \in Nat /\ client[c].token \in Nat /\ sent[c] \in Nat /\ now \in Nat
  BY DEF TypeOK, Holdings
<1> QED
  BY <1>1 DEF Request, RequestOK, Requests

LEMMA SendType ==
    ASSUME TypeOK, NEW c \in Clients, NEW r, RequestOK(r), Send(c, r),
           client' \in [Clients -> Holdings],
           \A d \in Clients : /\ client'[d].renews => client'[d].live
                              /\ client'[d].live => client'[d].s \in Sessions
    PROVE  TypeOK'
<1>1. sent' \in [Clients -> Nat]
  BY DEF Send, TypeOK
<1>2. \A q \in net' \cup begun' : RequestOK(q)
  BY DEF Send, TypeOK
<1> QED
  BY <1>1, <1>2 DEF Send, TypeOK, RequestOK, AnswerOK

-----------------------------------------------------------------------------
(* Types.                                                                  *)

LEMMA TypeInit == Init => TypeOK
BY LeaseAssumption DEF Init, TypeOK, Stored, HeldStates, Holdings, NoLease, NoClaim

\* A client's steps.
LEMMA TypeClient ==
    ASSUME TypeOK, NEW c \in Clients,
           \/ \E s \in Sessions : SendAcquire(c, s)
           \/ \E e \in Entries : SendWrite(c, "append", e)
           \/ SendWrite(c, "delete", None)
           \/ SendRenew(c) \/ SendRelease(c) \/ GiveUp(c)
           \/ \E s \in Sessions \cup {None}, lease \in BOOLEAN : SendCreate(c, s, lease)
    PROVE  TypeOK'
<1>1. ASSUME NEW s \in Sessions, SendAcquire(c, s) PROVE TypeOK'
  BY <1>1, RequestType, SendType DEF SendAcquire, TypeOK, AllOps
<1>2. ASSUME NEW e \in Entries, SendWrite(c, "append", e) PROVE TypeOK'
  <2>1. client[c].s \in Sessions
    BY <1>2 DEF SendWrite, Believes, TypeOK
  <2> QED BY <1>2, <2>1, RequestType, SendType DEF SendWrite, TypeOK, AllOps
<1>3. CASE SendWrite(c, "delete", None)
  <2>1. client[c].s \in Sessions
    BY <1>3 DEF SendWrite, Believes, TypeOK
  <2> QED BY <1>3, <2>1, RequestType, SendType DEF SendWrite, TypeOK, AllOps
<1>4. CASE SendRenew(c)
  <2>1. client[c].s \in Sessions
    BY <1>4 DEF SendRenew, TypeOK
  <2> QED BY <1>4, <2>1, RequestType, SendType DEF SendRenew, TypeOK, AllOps
<1>5. CASE SendRelease(c)
  <2>1. client[c].s \in Sessions
    BY <1>5 DEF SendRelease, TypeOK
  <2>2. RequestOK(Request(c, "release", client[c].s, None, TRUE))
    BY <2>1, RequestType DEF AllOps
  <2>3. NoClaim \in Holdings /\ ~NoClaim.live /\ ~NoClaim.renews
    BY DEF NoClaim, Holdings
  <2>4. client' \in [Clients -> Holdings]
    BY <1>5, <2>3 DEF SendRelease, TypeOK
  <2>5. \A d \in Clients : client'[d] = IF d = c THEN NoClaim ELSE client[d]
    BY <1>5 DEF SendRelease, TypeOK
  <2> QED
    BY <1>5, <2>2, <2>3, <2>4, <2>5, SendType DEF SendRelease, TypeOK
<1>6. CASE GiveUp(c)
  BY <1>6 DEF GiveUp, TypeOK, RequestOK, AnswerOK
<1>7. ASSUME NEW s \in Sessions \cup {None}, NEW lease \in BOOLEAN, SendCreate(c, s, lease)
      PROVE  TypeOK'
  BY <1>7, RequestType, SendType DEF SendCreate, TypeOK, AllOps
<1> QED
  BY <1>1, <1>2, <1>3, <1>4, <1>5, <1>6, <1>7

LEMMA TypeReceive ==
    ASSUME TypeOK, NEW a \in answers, Receive(a)
    PROVE  TypeOK'
<1>1. a.c \in Clients
  BY DEF TypeOK, AnswerOK, Answers
<1>2. client' \in [Clients -> Holdings]
  BY <1>1, ClaimType DEF Receive, TypeOK
<1>3. \A d \in Clients : client'[d] = IF d = a.c THEN Claim(a.c, a) ELSE client[d]
  BY <1>1 DEF Receive, TypeOK
<1>4. \A d \in Clients : /\ client'[d].renews => client'[d].live
                         /\ client'[d].live => client'[d].s \in Sessions
  BY <1>3, ClaimType DEF TypeOK
<1> QED
  BY <1>2, <1>4 DEF Receive, TypeOK, RequestOK, AnswerOK

\* What is left of TypeOK' for a handler: the write state, the store's and
\* the answers it makes.
LEMMA HandlerType ==
    ASSUME TypeOK, NEW s \in Sessions, NEW h \in HeldStates, NEW x \in Stored,
           h.lease.timer \in {0, h.lease.expires},
           held' = [held EXCEPT ![s] = h], store' = [store EXCEPT ![s] = x],
           leases' \in Nat, landed' \in [Sessions -> Nat],
           net' \subseteq net, begun' \subseteq begun, \A f \in fired' : f.s \in Sessions,
           \A a \in answers' : AnswerOK(a),
           \A k \in idem' : AnswerOK(k.answer) /\ k.at \in Nat,
           limits' \in [restarts : Nat, breaks : Nat], UNCHANGED <<now, client, sent>>
    PROVE  TypeOK'
<1>1. held' \in [Sessions -> HeldStates] /\ store' \in [Sessions -> Stored]
  BY DEF TypeOK
<1>2. \A z \in Sessions : held'[z] = IF z = s THEN h ELSE held[z]
  BY DEF TypeOK
<1>3. \A z \in Sessions : held'[z].lease.timer \in {0, held'[z].lease.expires}
  BY <1>2 DEF TypeOK
<1>4. /\ \A r \in net' \cup begun' : RequestOK(r)
      /\ \A r \in begun' : r.op = "create"
  BY DEF TypeOK
<1>5. \A r : RequestOK(r) => RequestOK(r)'
  BY DEF RequestOK, Requests
<1>6. \A a : AnswerOK(a) => AnswerOK(a)'
  BY DEF AnswerOK, Answers
<1> QED
  BY <1>1, <1>3, <1>4, <1>5, <1>6 DEF TypeOK

\* A request that is refused leaves everything but the network as it was.
LEMMA RefuseType ==
    ASSUME TypeOK, NEW r, RequestOK(r), Refuse(r), net' \subseteq net, begun' \subseteq begun,
           UNCHANGED <<now, fired, idem, client, sent, limits>>
    PROVE  TypeOK'
<1>1. \A a \in answers' : AnswerOK(a)
  BY RefusalType, ReplyType DEF Refuse
<1>2. UNCHANGED <<store, held, leases, landed>>
  BY DEF Refuse
<1> QED
  BY <1>1, <1>2 DEF TypeOK, RequestOK, AnswerOK

LEMMA HandleNet ==
    ASSUME TypeOK, NEW r, NEW op, op # "create", Handle(r, op)
    PROVE  RequestOK(r) /\ r.s \in Sessions /\ net' \subseteq net /\ r.op = op
BY DEF Handle, TypeOK, RequestOK

LEMMA SessionTypes ==
    ASSUME TypeOK, NEW s \in Sessions
    PROVE  held[s] \in HeldStates /\ store[s] \in Stored
BY DEF TypeOK

LEMMA NoTimer == NoLease.timer = 0
BY DEF NoLease

LEMMA TypeAcquire == ASSUME TypeOK, NEW r, Acquire(r) PROVE TypeOK'
<1> DEFINE s == r.s
           x == IF held[s].lease.id # 0 THEN Released(store[s]) ELSE store[s]
<1>1. RequestOK(r) /\ s \in Sessions /\ net' \subseteq net
  BY HandleNet DEF Acquire
<1>2. held[s] \in HeldStates /\ store[s] \in Stored /\ x \in Stored
  BY <1>1, SessionTypes, StoredTypes
<1>3. UNCHANGED <<now, fired, idem, begun, client, sent, limits>>
  BY DEF Acquire
<1>4. CASE Current(s)
  <2>1. Refuse(r)
    BY <1>4 DEF Acquire
  <2> QED BY <1>1, <1>3, <2>1, RefuseType
<1>5. CASE ~Current(s) /\ (~x.exists \/ x.by = "other")
  <2>1. /\ store' = [store EXCEPT ![s] = x] /\ held' = [held EXCEPT ![s] = Ended(held[s])]
        /\ Reply(Refusal(r)) /\ UNCHANGED <<leases, landed>>
    BY <1>5 DEF Acquire
  <2>2. \A a \in answers' : AnswerOK(a)
    BY <1>1, <2>1, RefusalType, ReplyType
  <2>3. Ended(held[s]) \in HeldStates /\ Ended(held[s]).lease.timer = 0
    BY <1>2, EndedType, NoTimer
  <2> QED
    BY <1>1, <1>2, <1>3, <2>1, <2>2, <2>3, HandlerType DEF TypeOK
<1>6. CASE ~Current(s) /\ ~(~x.exists \/ x.by = "other")
  <2> DEFINE g == Granted(held[s], Opened(x))
             a == Answer(r, TRUE, s, leases + 1, nextToken(held[s].token))
  <2>1. /\ store' = [store EXCEPT ![s] = Opened(x)] /\ held' = [held EXCEPT ![s] = g]
        /\ leases' = leases + 1 /\ Reply(a) /\ UNCHANGED landed
    BY <1>6 DEF Acquire
  <2>2. now \in Nat \ {0} /\ leases \in Nat /\ leases + 1 \in Nat
    BY DEF TypeOK
  <2>3. nextToken(held[s].token) \in Nat
    BY <1>2, <2>2, NextTokenGrows DEF HeldStates
  <2>4. \A b \in answers' : AnswerOK(b)
    BY <1>1, <2>1, <2>2, <2>3, AnswerType, ReplyType
  <2>5. Opened(x) \in Stored
    BY <1>2, StoredTypes
  <2>6. g \in HeldStates /\ g.lease.timer = g.lease.expires
    BY <1>2, <2>2, <2>5, GrantedType
  <2> HIDE DEF g, a
  <2> QED
    BY <1>1, <1>2, <1>3, <2>1, <2>2, <2>4, <2>5, <2>6, HandlerType DEF TypeOK
<1> QED
  BY <1>4, <1>5, <1>6

LEMMA TypeRenew == ASSUME TypeOK, NEW r, Renew(r) PROVE TypeOK'
<1> DEFINE s == r.s
           until == now + ttlOf(TTL)
           h == [held[s] EXCEPT !.lease = [held[s].lease EXCEPT !.expires = until, !.timer = until]]
<1>1. RequestOK(r) /\ s \in Sessions /\ net' \subseteq net
  BY HandleNet DEF Renew
<1>2. held[s] \in HeldStates /\ store[s] \in Stored /\ until \in Nat
  BY <1>1, SessionTypes, LeaseTimes DEF TypeOK
<1>3. UNCHANGED <<now, fired, idem, begun, client, sent, limits>>
  BY DEF Renew
<1>4. CASE ~(Current(s) /\ held[s].lease.id = r.id)
  <2>1. Refuse(r)
    BY <1>4 DEF Renew
  <2> QED BY <1>1, <1>3, <2>1, RefuseType
<1>5. CASE Current(s) /\ held[s].lease.id = r.id
  <2>1. /\ held' = [held EXCEPT ![s] = h] /\ Reply(Answer(r, TRUE, s, r.id, r.token))
        /\ UNCHANGED <<store, leases, landed>>
    BY <1>5 DEF Renew
  <2>2. \A a \in answers' : AnswerOK(a)
    BY <1>1, <2>1, AnswerType, ReplyType DEF RequestOK, Requests
  <2>3. h \in HeldStates /\ h.lease.timer = h.lease.expires
    BY <1>2 DEF HeldStates
  <2>4. store' = [store EXCEPT ![s] = store[s]]
    BY <2>1 DEF TypeOK
  <2> HIDE DEF h
  <2> QED
    BY <1>1, <1>2, <1>3, <2>1, <2>2, <2>3, <2>4, HandlerType DEF TypeOK
<1> QED
  BY <1>4, <1>5

LEMMA TypeRelease == ASSUME TypeOK, NEW r, Release(r) PROVE TypeOK'
<1> DEFINE s == r.s
<1>1. RequestOK(r) /\ s \in Sessions /\ net' \subseteq net
  BY HandleNet DEF Release
<1>2. held[s] \in HeldStates /\ store[s] \in Stored
  BY <1>1, SessionTypes
<1>3. UNCHANGED <<now, fired, idem, begun, client, sent, limits>>
  BY DEF Release
<1>4. CASE held[s].lease.id # r.id
  <2>1. Refuse(r)
    BY <1>4 DEF Release
  <2> QED BY <1>1, <1>3, <2>1, RefuseType
<1>5. CASE held[s].lease.id = r.id
  <2>1. /\ held' = [held EXCEPT ![s] = Ended(held[s])]
        /\ store' = [store EXCEPT ![s] = Released(store[s])]
        /\ Reply(Answer(r, TRUE, s, 0, 0)) /\ UNCHANGED <<leases, landed>>
    BY <1>5 DEF Release
  <2>2. \A a \in answers' : AnswerOK(a)
    BY <1>1, <2>1, AnswerType, ReplyType
  <2>3. Ended(held[s]) \in HeldStates /\ Ended(held[s]).lease.timer = 0 /\ Released(store[s]) \in Stored
    BY <1>2, EndedType, NoTimer, StoredTypes
  <2> QED
    BY <1>1, <1>3, <2>1, <2>2, <2>3, HandlerType DEF TypeOK
<1> QED
  BY <1>4, <1>5

LEMMA TypeAppend == ASSUME TypeOK, NEW r, Append(r) PROVE TypeOK'
<1> DEFINE s == r.s
           x == [Opened(store[s]) EXCEPT !.log = Opened(store[s]).log \cup {r.entry}]
<1>1. RequestOK(r) /\ s \in Sessions /\ net' \subseteq net /\ r.op = "append"
  BY HandleNet DEF Append
<1>2. held[s] \in HeldStates /\ store[s] \in Stored /\ Opened(store[s]) \in Stored
  BY <1>1, SessionTypes, StoredTypes
<1>3. UNCHANGED <<now, fired, idem, begun, client, sent, limits>>
  BY DEF Append
<1>4. CASE ~(Fenced(r) /\ store[s].exists /\ store[s].by # "other")
  <2>1. Refuse(r)
    BY <1>4 DEF Append
  <2> QED BY <1>1, <1>3, <2>1, RefuseType
<1>5. CASE Fenced(r) /\ store[s].exists /\ store[s].by # "other"
  <2>1. /\ store' = [store EXCEPT ![s] = x] /\ landed' = [landed EXCEPT ![s] = r.id]
        /\ Reply(Answer(r, TRUE, s, 0, 0)) /\ UNCHANGED <<held, leases>>
    BY <1>5 DEF Append
  <2>2. \A a \in answers' : AnswerOK(a)
    BY <1>1, <2>1, AnswerType, ReplyType
  <2>3. r.entry \in Entries /\ r.id \in Nat
    BY <1>1 DEF RequestOK, Requests
  <2>4. x \in Stored
    BY <1>2, <2>3 DEF Stored
  <2>5. held' = [held EXCEPT ![s] = held[s]] /\ landed' \in [Sessions -> Nat]
    BY <2>1, <2>3 DEF TypeOK
  <2> HIDE DEF x
  <2> QED
    BY <1>1, <1>2, <1>3, <2>1, <2>2, <2>4, <2>5, HandlerType DEF TypeOK
<1> QED
  BY <1>4, <1>5

LEMMA TypeDelete == ASSUME TypeOK, NEW r, Delete(r) PROVE TypeOK'
<1> DEFINE s == r.s
           x == [store[s] EXCEPT !.exists = FALSE, !.by = "none", !.log = {}, !.hdr = None]
<1>1. RequestOK(r) /\ s \in Sessions /\ net' \subseteq net
  BY HandleNet DEF Delete
<1>2. held[s] \in HeldStates /\ store[s] \in Stored
  BY <1>1, SessionTypes
<1>3. UNCHANGED <<now, fired, idem, begun, client, sent, limits>>
  BY DEF Delete
<1>4. CASE ~(Fenced(r) /\ store[s].exists /\ store[s].by # "other")
  <2>1. Refuse(r)
    BY <1>4 DEF Delete
  <2> QED BY <1>1, <1>3, <2>1, RefuseType
<1>5. CASE Fenced(r) /\ store[s].exists /\ store[s].by # "other"
  <2>1. /\ store' = [store EXCEPT ![s] = x] /\ landed' = [landed EXCEPT ![s] = r.id]
        /\ held' = [held EXCEPT ![s] = Ended(held[s])]
        /\ Reply(Answer(r, TRUE, s, 0, 0)) /\ UNCHANGED leases
    BY <1>5 DEF Delete
  <2>2. \A a \in answers' : AnswerOK(a)
    BY <1>1, <2>1, AnswerType, ReplyType
  <2>3. r.id \in Nat
    BY <1>1 DEF RequestOK, Requests
  <2>4. x \in Stored
    BY <1>2 DEF Stored
  <2>5. landed' \in [Sessions -> Nat]
    BY <2>1, <2>3 DEF TypeOK
  <2>6. Ended(held[s]) \in HeldStates /\ Ended(held[s]).lease.timer = 0
    BY <1>2, EndedType, NoTimer
  <2> HIDE DEF x
  <2> QED
    BY <1>1, <1>2, <1>3, <2>1, <2>2, <2>4, <2>5, <2>6, HandlerType DEF TypeOK
<1> QED
  BY <1>4, <1>5

LEMMA TypeCreateArrives == ASSUME TypeOK, NEW r \in net, CreateArrives(r) PROVE TypeOK'
<1>1. RequestOK(r) /\ r.op = "create" /\ RequestOK([r EXCEPT !.again = FALSE])
  <2>1. RequestOK(r) /\ r.op = "create"
    BY DEF TypeOK, CreateArrives
  <2>2. [r EXCEPT !.again = FALSE] \in Requests
    BY <2>1 DEF RequestOK, Requests
  <2> QED BY <2>1, <2>2 DEF RequestOK, Requests
<1>2. \A q \in net' : q \in net \/ q = [r EXCEPT !.again = FALSE]
  BY DEF CreateArrives
<1>3. begun' \subseteq begun \cup {r}
  BY DEF CreateArrives
<1>4. \A q \in net' \cup begun' : RequestOK(q)
  BY <1>1, <1>2, <1>3 DEF TypeOK
<1>5. \A q \in begun' : q.op = "create"
  BY <1>1, <1>3 DEF TypeOK
<1>6. \A a \in answers' : AnswerOK(a)
  <2>1. CASE Kept(r) # {}
    <3>1. PICK k \in Kept(r) : Reply(k.answer)
      BY <2>1 DEF CreateArrives
    <3>2. AnswerOK(k.answer)
      BY DEF Kept, TypeOK
    <3> QED BY <3>1, <3>2, ReplyType
  <2>2. CASE Kept(r) = {}
    BY <2>2 DEF CreateArrives, TypeOK
  <2> QED BY <2>1, <2>2
<1>7. UNCHANGED <<now, store, held, fired, idem, client, sent, leases, landed, limits>>
  BY DEF CreateArrives
<1> QED
  BY <1>4, <1>5, <1>6, <1>7 DEF TypeOK, RequestOK, AnswerOK

LEMMA KeptType ==
    ASSUME TypeOK, NEW r, NEW a, AnswerOK(a), AnswerKept(r, a)
    PROVE  /\ \A b \in answers' : AnswerOK(b)
           /\ \A k \in idem' : AnswerOK(k.answer) /\ k.at \in Nat
<1>1. \A b \in answers' : AnswerOK(b)
  BY ReplyType DEF AnswerKept
<1>2. \A k \in idem' : k \in idem \/ k = [key |-> KeyOf(r), answer |-> a, at |-> now]
  BY DEF AnswerKept
<1>3. now \in Nat
  BY DEF TypeOK
<1> QED
  BY <1>1, <1>2, <1>3 DEF TypeOK

\* The session a create finds or makes.
CreateFound(r, s) ==
    IF ~store[s].exists
    THEN [Opened(store[s]) EXCEPT !.exists = TRUE, !.hdr = IF r.s = None THEN None ELSE r.c]
    ELSE IF held[s].lease.id # 0 /\ r.lease THEN Released(store[s]) ELSE store[s]

LEMMA CreateFoundType ==
    ASSUME TypeOK, NEW r, RequestOK(r), NEW s \in Sessions
    PROVE  CreateFound(r, s) \in Stored
<1>1. store[s] \in Stored /\ Opened(store[s]) \in Stored /\ Released(store[s]) \in Stored
  BY SessionTypes, StoredTypes
<1>2. (IF r.s = None THEN None ELSE r.c) \in Clients \cup {None}
  BY DEF RequestOK, Requests
<1>3. CASE ~store[s].exists
  <2> DEFINE c == IF r.s = None THEN None ELSE r.c
  <2>1. CreateFound(r, s) = [Opened(store[s]) EXCEPT !.exists = TRUE, !.hdr = c]
    BY <1>3 DEF CreateFound
  <2> HIDE DEF c
  <2>2. [Opened(store[s]) EXCEPT !.exists = TRUE, !.hdr = c] \in Stored
    BY <1>1, <1>2 DEF Stored, c
  <2> QED BY <2>1, <2>2
<1>4. CASE store[s].exists
  BY <1>1, <1>4 DEF CreateFound
<1> QED
  BY <1>3, <1>4

\* What a create under the lock of s does, case by case.
LEMMA CreateCases ==
    ASSUME NEW r, NEW s, CreateRuns(r, s)
    PROVE  \/ Refuse(r) /\ UNCHANGED <<idem, made>>
           \/ /\ r.lease /\ ~Current(s) /\ CreateFound(r, s).by = "other"
              /\ store' = [store EXCEPT ![s] = CreateFound(r, s)]
              /\ held' = [held EXCEPT ![s] = Ended(held[s])]
              /\ Reply(Refusal(r)) /\ UNCHANGED <<leases, landed, idem, made>>
           \/ /\ r.lease /\ ~Current(s) /\ CreateFound(r, s).by # "other"
              /\ store' = [store EXCEPT ![s] = Opened(CreateFound(r, s))]
              /\ held' = [held EXCEPT ![s] = Granted(held[s], Opened(CreateFound(r, s)))]
              /\ leases' = leases + 1
              /\ AnswerKept(r, Answer(r, TRUE, s, leases + 1, nextToken(held[s].token)))
              /\ UNCHANGED landed
           \/ /\ ~r.lease
              /\ store' = [store EXCEPT ![s] = Released(CreateFound(r, s))]
              /\ AnswerKept(r, Answer(r, TRUE, s, 0, 0))
              /\ UNCHANGED <<held, leases, landed>>
BY DEF CreateRuns, CreateFound

LEMMA TypeCreateRuns ==
    ASSUME TypeOK, NEW r \in begun, NEW s \in Sessions, CreateRuns(r, s)
    PROVE  TypeOK'
<1> DEFINE x == CreateFound(r, s)
<1>1. RequestOK(r)
  BY DEF TypeOK
<1>2. held[s] \in HeldStates /\ x \in Stored
  BY <1>1, SessionTypes, CreateFoundType
<1>3. UNCHANGED <<now, fired, net, client, sent, limits>> /\ begun' \subseteq begun
  BY DEF CreateRuns
<1>4. CASE Refuse(r) /\ UNCHANGED <<idem, made>>
  BY <1>1, <1>3, <1>4, RefuseType
<1>5. CASE /\ store' = [store EXCEPT ![s] = x] /\ held' = [held EXCEPT ![s] = Ended(held[s])]
           /\ Reply(Refusal(r)) /\ UNCHANGED <<leases, landed, idem, made>>
  <2>1. \A a \in answers' : AnswerOK(a)
    BY <1>1, <1>5, RefusalType, ReplyType
  <2>2. Ended(held[s]) \in HeldStates /\ Ended(held[s]).lease.timer = 0
    BY <1>2, EndedType, NoTimer
  <2> QED
    BY <1>2, <1>3, <1>5, <2>1, <2>2, HandlerType DEF TypeOK
<1>6. CASE /\ store' = [store EXCEPT ![s] = Opened(x)]
           /\ held' = [held EXCEPT ![s] = Granted(held[s], Opened(x))]
           /\ leases' = leases + 1
           /\ AnswerKept(r, Answer(r, TRUE, s, leases + 1, nextToken(held[s].token)))
           /\ UNCHANGED landed
  <2>1. now \in Nat \ {0} /\ leases \in Nat /\ leases + 1 \in Nat
    BY DEF TypeOK
  <2>2. nextToken(held[s].token) \in Nat
    BY <1>2, <2>1, NextTokenGrows DEF HeldStates
  <2>3. AnswerOK(Answer(r, TRUE, s, leases + 1, nextToken(held[s].token)))
    BY <1>1, <2>1, <2>2, AnswerType
  <2>4. /\ \A b \in answers' : AnswerOK(b)
        /\ \A k \in idem' : AnswerOK(k.answer) /\ k.at \in Nat
    BY <1>6, <2>3, KeptType
  <2>5. Opened(x) \in Stored
    BY <1>2, StoredTypes
  <2> DEFINE g == Granted(held[s], Opened(x))
  <2>6. g \in HeldStates /\ g.lease.timer = g.lease.expires
    BY <1>2, <2>1, <2>5, GrantedType
  <2> HIDE DEF g, x
  <2> QED
    BY <1>3, <1>6, <2>1, <2>4, <2>5, <2>6, HandlerType DEF TypeOK, g
<1>7. CASE /\ store' = [store EXCEPT ![s] = Released(x)]
           /\ AnswerKept(r, Answer(r, TRUE, s, 0, 0))
           /\ UNCHANGED <<held, leases, landed>>
  <2>1. /\ \A b \in answers' : AnswerOK(b)
        /\ \A k \in idem' : AnswerOK(k.answer) /\ k.at \in Nat
    BY <1>1, <1>7, AnswerType, KeptType
  <2>2. Released(x) \in Stored
    BY <1>2, StoredTypes
  <2>3. held' = [held EXCEPT ![s] = held[s]]
    BY <1>7 DEF TypeOK
  <2> HIDE DEF x
  <2> QED
    BY <1>2, <1>3, <1>7, <2>1, <2>2, <2>3, HandlerType DEF TypeOK
<1> QED
  BY <1>4, <1>5, <1>6, <1>7, CreateCases

\* The steps of time, of timers, of an admin and of other processes.
LEMMA TypeRest ==
    ASSUME TypeOK,
           \/ \E s \in Sessions : TimerFires(s) \/ Break(s) \/ OtherHolds(s)
           \/ \E f \in fired : Expire(f)
           \/ Tick \/ Restart
    PROVE  TypeOK'
<1>1. ASSUME NEW s \in Sessions, TimerFires(s) PROVE TypeOK'
  <2> DEFINE h == [held[s] EXCEPT !.lease = [held[s].lease EXCEPT !.timer = 0]]
  <2>1. held[s] \in HeldStates /\ store[s] \in Stored
    BY SessionTypes
  <2>2. h \in HeldStates /\ h.lease.timer = 0
    BY <2>1 DEF HeldStates
  <2>3. held' = [held EXCEPT ![s] = h] /\ store' = [store EXCEPT ![s] = store[s]]
    BY <1>1 DEF TimerFires, TypeOK
  <2>4. \A f \in fired' : f.s \in Sessions
    BY <1>1 DEF TimerFires, TypeOK
  <2> HIDE DEF h
  <2> QED
    BY <1>1, <2>1, <2>2, <2>3, <2>4, HandlerType DEF TimerFires, TypeOK
<1>2. ASSUME NEW s \in Sessions, Break(s) PROVE TypeOK'
  <2> DEFINE h == [Ended(held[s]) EXCEPT !.token = nextToken(held[s].token)]
             x == IF held[s].lease.id # 0 THEN Released(store[s]) ELSE store[s]
  <2>1. held[s] \in HeldStates /\ store[s] \in Stored /\ x \in Stored
    BY SessionTypes, StoredTypes
  <2>2. nextToken(held[s].token) \in Nat
    BY <2>1, NextTokenGrows DEF TypeOK, HeldStates
  <2>3. Ended(held[s]) \in HeldStates /\ Ended(held[s]).lease.timer = 0
        /\ Ended(held[s]).token = held[s].token
    BY <2>1, EndedType, NoTimer
  <2>4. h \in HeldStates /\ h.lease.timer = 0
    BY <2>2, <2>3 DEF HeldStates
  <2>5. held' = [held EXCEPT ![s] = h] /\ store' = [store EXCEPT ![s] = x]
    BY <1>2 DEF Break
  <2>6. limits' \in [restarts : Nat, breaks : Nat]
    BY <1>2 DEF Break, TypeOK
  <2>7. /\ leases' \in Nat /\ landed' \in [Sessions -> Nat]
        /\ net' \subseteq net /\ begun' \subseteq begun /\ \A f \in fired' : f.s \in Sessions
        /\ \A a \in answers' : AnswerOK(a)
        /\ \A k \in idem' : AnswerOK(k.answer) /\ k.at \in Nat
        /\ UNCHANGED <<now, client, sent>>
    BY <1>2 DEF Break, TypeOK
  <2> HIDE DEF h, x
  <2> QED
    BY <1>2, <2>1, <2>4, <2>5, <2>6, <2>7, HandlerType
<1>3. ASSUME NEW s \in Sessions, OtherHolds(s) PROVE TypeOK'
  <2>1. PICK by \in {"none", "other"} : store' = [store EXCEPT ![s] = [store[s] EXCEPT !.by = by]]
    BY <1>3 DEF OtherHolds
  <2>2. held[s] \in HeldStates /\ [store[s] EXCEPT !.by = by] \in Stored
    BY SessionTypes DEF Stored
  <2>3. held' = [held EXCEPT ![s] = held[s]]
    BY <1>3 DEF OtherHolds, TypeOK
  <2> QED
    BY <1>3, <2>1, <2>2, <2>3, HandlerType DEF OtherHolds, TypeOK
<1>4. ASSUME NEW f \in fired, Expire(f) PROVE TypeOK'
  <2> DEFINE s == f.s
  <2>1. s \in Sessions /\ held[s] \in HeldStates /\ store[s] \in Stored
    BY SessionTypes DEF TypeOK
  <2>2. Ended(held[s]) \in HeldStates /\ Ended(held[s]).lease.timer = 0 /\ Released(store[s]) \in Stored
    BY <2>1, EndedType, NoTimer, StoredTypes
  <2>3. CASE UNCHANGED <<held, store>>
    BY <1>4, <2>3 DEF Expire, TypeOK, RequestOK, AnswerOK
  <2>4. CASE /\ held' = [held EXCEPT ![s] = Ended(held[s])]
             /\ store' = [store EXCEPT ![s] = Released(store[s])]
    BY <1>4, <2>1, <2>2, <2>4, HandlerType DEF Expire, TypeOK
  <2> QED
    BY <1>4, <2>3, <2>4 DEF Expire
<1>5. CASE Tick
  BY <1>5 DEF Tick, TypeOK, RequestOK, AnswerOK
<1>6. CASE Restart
  <2>1. held' \in [Sessions -> HeldStates] /\ \A s \in Sessions : held'[s].lease.timer = 0
    BY <1>6 DEF Restart, HeldStates, NoLease
  <2>2. store' \in [Sessions -> Stored]
    BY <1>6, StoredTypes, SessionTypes DEF Restart
  <2>3. limits' \in [restarts : Nat, breaks : Nat] /\ now' \in Nat \ {0}
    BY <1>6 DEF Restart, TypeOK
  <2> QED
    BY <1>6, <2>1, <2>2, <2>3 DEF Restart, TypeOK, RequestOK, AnswerOK
<1> QED
  BY <1>1, <1>2, <1>3, <1>4, <1>5, <1>6

LEMMA TypeNext == TypeOK /\ [Next]_vars => TypeOK'
<1> SUFFICES ASSUME TypeOK, [Next]_vars PROVE TypeOK'
  OBVIOUS
<1>1. CASE Server
  BY <1>1, TypeAcquire, TypeRenew, TypeRelease, TypeAppend, TypeDelete, TypeCreateArrives,
     TypeCreateRuns, TypeRest DEF Server
<1>2. CASE \E c \in Clients :
             \/ \E s \in Sessions : SendAcquire(c, s)
             \/ \E e \in Entries : SendWrite(c, "append", e)
             \/ SendWrite(c, "delete", None)
             \/ SendRenew(c) \/ SendRelease(c) \/ GiveUp(c)
             \/ \E s \in Sessions \cup {None}, lease \in BOOLEAN : SendCreate(c, s, lease)
  BY <1>2, TypeClient
<1>3. CASE \E a \in answers : Receive(a)
  BY <1>3, TypeReceive
<1>4. CASE (\E s \in Sessions : Break(s) \/ OtherHolds(s)) \/ Tick \/ Restart
  BY <1>4, TypeRest
<1>5. CASE UNCHANGED vars
  BY <1>5 DEF vars, TypeOK, RequestOK, AnswerOK
<1> QED
  BY <1>1, <1>2, <1>3, <1>4, <1>5 DEF Next

\* RemoteLease's variables keep their types, and a lease's timer its lease's
\* end, whatever the clients, the sessions, the times to live and the bounds.
THEOREM LeaseTypeCorrect == Spec => []TypeOK
<1> QED
  BY TypeInit, TypeNext, PTL DEF Spec

-----------------------------------------------------------------------------
(* Fencing.  Every step moves a session's lease in one of three ways, and   *)
(* whatever lease it puts into a request, an answer or a client it took    *)
(* from another, or has just granted.                                      *)

\* The lease is kept or ended; or granted with the next token; or gone with
\* the server, which starts again later than the last token.
Moves(s) ==
    /\ leases <= leases' /\ now <= now'
    /\ \/ /\ held[s].token <= held'[s].token
          /\ \/ held'[s].lease.id = 0
             \/ /\ held'[s].lease.id = held[s].lease.id
                /\ held'[s].lease.token = held[s].lease.token
       \/ /\ held'[s].token = nextToken(held[s].token)
          /\ held'[s].lease.token = held'[s].token
          /\ leases' = leases + 1 /\ held'[s].lease.id = leases'
          /\ now' = now /\ landed'[s] = landed[s]
       \/ held'[s].lease.id = 0 /\ held[s].token < now'

\* A write lands under the lease the session has, which no other replaces
\* in the same step.
Landing(s) ==
    \/ landed'[s] = landed[s]
    \/ /\ landed'[s] = held[s].lease.id /\ held[s].lease.id # 0
       /\ held'[s].lease.id \in {0, held[s].lease.id}

\* An answer that hands out the lease the step grants.
Fresh(a) ==
    /\ a.s \in Sessions /\ a.id = leases'
    /\ held'[a.s].lease.id = a.id /\ held'[a.s].lease.token = a.token
    /\ held'[a.s].token = a.token

SameLease(x, y) == x.s = y.s /\ x.id = y.id /\ x.token = y.token

ClientFrom(c) ==
    client'[c].live =>
        \/ client[c].live /\ SameLease(client'[c], client[c])
        \/ \E a \in answers : Grants(a) /\ SameLease(client'[c], a)

WriteFrom(r) ==
    r.op \in {"append", "delete"} =>
        \/ r \in net
        \/ \E c \in Clients : client[c].live /\ SameLease(r, client[c])

AnswerFrom(a) ==
    Grants(a) => a \in answers \/ (\E k \in idem : a = k.answer) \/ Fresh(a)

KeptFrom(k) == Grants(k.answer) => k \in idem \/ Fresh(k.answer)

FenceStep ==
    /\ \A s \in Sessions : Moves(s) /\ Landing(s)
    /\ \A c \in Clients : ClientFrom(c)
    /\ \A r \in net' : WriteFrom(r)
    /\ \A a \in answers' : AnswerFrom(a)
    /\ \A k \in idem' : KeptFrom(k)

\* However a session's lease moves, what was known of its leases still is.
LEMMA KnownMoves ==
    ASSUME TypeOK, TypeOK', NEW s \in Sessions, NEW id \in Nat, NEW token \in Nat,
           Moves(s), LastLease(s), Known(s, id, token)
    PROVE  Known(s, id, token)'
<1>1. /\ now \in Nat \ {0} /\ now' \in Nat /\ leases \in Nat /\ leases' \in Nat
      /\ held[s].token \in Nat /\ held'[s].token \in Nat
      /\ held[s].lease.token \in Nat /\ held'[s].lease.token \in Nat
      /\ held[s].lease.id \in Nat /\ held'[s].lease.id \in Nat
  BY DEF TypeOK, HeldStates
<1>2. nextToken(held[s].token) > held[s].token /\ nextToken(held[s].token) >= now
  BY <1>1, NextTokenGrows
<1> QED
  BY <1>1, <1>2 DEF Moves, Known, LastLease

LEMMA FreshKnown ==
    ASSUME TypeOK', NEW a, AnswerOK(a), Fresh(a)
    PROVE  Known(a.s, a.id, a.token)'
BY DEF Fresh, Known, TypeOK, HeldStates, AnswerOK, Answers

LEMMA LastLeaseMoves ==
    ASSUME TypeOK, TypeOK', NEW s \in Sessions, Moves(s), Landing(s), LastLease(s)
    PROVE  LastLease(s)' /\ landed[s] <= landed'[s]
<1>1. /\ leases \in Nat /\ leases' \in Nat /\ landed[s] \in Nat /\ landed'[s] \in Nat
      /\ held[s].token \in Nat /\ held'[s].token \in Nat
      /\ held[s].lease.token \in Nat /\ held'[s].lease.token \in Nat
      /\ held[s].lease.id \in Nat /\ held'[s].lease.id \in Nat
  BY DEF TypeOK, HeldStates
<1> QED
  BY <1>1 DEF Moves, Landing, LastLease

\* So a step of that kind keeps the invariant, and lands no write behind
\* another lease's.
LEMMA FencePreserved ==
    ASSUME TypeOK, TypeOK', FenceInv, FenceStep
    PROVE  FenceInv' /\ \A s \in Sessions : landed'[s] >= landed[s]
<1>1. \A s \in Sessions : LastLease(s)' /\ landed'[s] >= landed[s]
  BY LastLeaseMoves DEF FenceInv, FenceStep, TypeOK
<1>2. ASSUME NEW s \in Sessions, NEW id \in Nat, NEW token \in Nat, Known(s, id, token)
      PROVE  Known(s, id, token)'
  BY <1>2, KnownMoves DEF FenceInv, FenceStep
<1>3. ASSUME NEW a \in answers, Grants(a) PROVE Known(a.s, a.id, a.token)'
  <2>1. a.s \in Sessions /\ a.id \in Nat /\ a.token \in Nat
    BY <1>3 DEF TypeOK, AnswerOK, Answers, Grants
  <2> QED BY <1>2, <1>3, <2>1 DEF FenceInv
<1>4. ASSUME NEW k \in idem, Grants(k.answer)
      PROVE  Known(k.answer.s, k.answer.id, k.answer.token)'
  <2>1. k.answer.s \in Sessions /\ k.answer.id \in Nat /\ k.answer.token \in Nat
    BY <1>4 DEF TypeOK, AnswerOK, Answers, Grants
  <2> QED BY <1>2, <1>4, <2>1 DEF FenceInv
<1>5. ASSUME NEW c \in Clients, client[c].live, NEW s, NEW id, NEW token,
             s = client[c].s, id = client[c].id, token = client[c].token
      PROVE  Known(s, id, token)'
  <2>1. s \in Sessions /\ id \in Nat /\ token \in Nat
    BY <1>5 DEF TypeOK, Holdings
  <2>2. Known(s, id, token)
    BY <1>5 DEF FenceInv
  <2> QED BY <1>2, <2>1, <2>2
<1>6. ASSUME NEW c \in Clients, client'[c].live, NEW s, NEW id, NEW token,
             s = client'[c].s, id = client'[c].id, token = client'[c].token
      PROVE  Known(s, id, token)'
  BY <1>3, <1>5, <1>6 DEF FenceStep, ClientFrom, SameLease
<1>7. ASSUME NEW r \in net', r.op \in {"append", "delete"} PROVE Known(r.s, r.id, r.token)'
  <2>1. CASE r \in net
    <3>1. r.s \in Sessions /\ r.id \in Nat /\ r.token \in Nat
      BY <1>7, <2>1 DEF TypeOK, RequestOK, Requests
    <3> QED BY <1>2, <1>7, <2>1, <3>1 DEF FenceInv
  <2>2. CASE \E c \in Clients : client[c].live /\ SameLease(r, client[c])
    BY <1>5, <2>2 DEF SameLease
  <2> QED BY <1>7, <2>1, <2>2 DEF FenceStep, WriteFrom
<1>8. ASSUME NEW a \in answers', Grants(a) PROVE Known(a.s, a.id, a.token)'
  <2>1. AnswerOK(a)
    BY DEF TypeOK, AnswerOK, Answers
  <2> QED BY <1>3, <1>4, <1>8, <2>1, FreshKnown DEF FenceStep, AnswerFrom
<1>9. ASSUME NEW k \in idem', Grants(k.answer)
      PROVE  Known(k.answer.s, k.answer.id, k.answer.token)'
  <2>1. AnswerOK(k.answer)
    BY DEF TypeOK, AnswerOK, Answers
  <2> QED BY <1>4, <1>9, <2>1, FreshKnown DEF FenceStep, KeptFrom
<1> QED
  BY <1>1, <1>6, <1>7, <1>8, <1>9 DEF FenceInv, Grants

\* A step that leaves the handler's state alone moves no lease.
LEMMA QuietMoves ==
    ASSUME TypeOK, UNCHANGED <<held, leases, landed>>, now' = now \/ now' = now + 1
    PROVE  \A s \in Sessions : Moves(s) /\ Landing(s)
BY DEF TypeOK, HeldStates, Moves, Landing

\* A handler changes one session's state: the others' leases do not move.
LEMMA HandlerMoves ==
    ASSUME TypeOK, NEW s \in Sessions, NEW h \in HeldStates, held' = [held EXCEPT ![s] = h],
           leases' \in Nat, leases <= leases', now' = now, Moves(s), Landing(s),
           \A z \in Sessions \ {s} : landed'[z] = landed[z]
    PROVE  \A z \in Sessions : Moves(z) /\ Landing(z)
<1>1. \A z \in Sessions \ {s} : held'[z] = held[z]
  BY DEF TypeOK
<1>2. \A z \in Sessions \ {s} : Moves(z) /\ Landing(z)
  BY <1>1 DEF Moves, Landing, TypeOK, HeldStates
<1> QED
  BY <1>2

\* Ending a lease is one of its moves.
LEMMA EndMoves ==
    ASSUME TypeOK, NEW s \in Sessions, held' = [held EXCEPT ![s] = Ended(held[s])],
           UNCHANGED <<leases, landed, now>>
    PROVE  \A z \in Sessions : Moves(z) /\ Landing(z)
<1>1. held[s] \in HeldStates /\ leases \in Nat /\ now \in Nat
  BY DEF TypeOK
<1>2. Ended(held[s]) \in HeldStates /\ Ended(held[s]).lease.id = 0 /\ Ended(held[s]).token = held[s].token
  BY <1>1, EndedType DEF NoLease
<1>3. held'[s] = Ended(held[s])
  BY DEF TypeOK
<1>4. Moves(s) /\ Landing(s)
  BY <1>1, <1>2, <1>3 DEF Moves, Landing, HeldStates
<1>5. leases' \in Nat /\ leases <= leases' /\ \A z \in Sessions \ {s} : landed'[z] = landed[z]
  BY <1>1
<1> QED
  BY <1>2, <1>4, <1>5, HandlerMoves, Zenon

\* Granting one is another, and the answer that says so is fresh.
LEMMA GrantMoves ==
    ASSUME TypeOK, NEW s \in Sessions, NEW x \in Stored,
           held' = [held EXCEPT ![s] = Granted(held[s], x)],
           leases' = leases + 1, UNCHANGED <<landed, now>>
    PROVE  /\ \A z \in Sessions : Moves(z) /\ Landing(z)
           /\ \A r : Fresh(Answer(r, TRUE, s, leases + 1, nextToken(held[s].token)))
<1>1. held[s] \in HeldStates /\ leases \in Nat /\ now \in Nat \ {0}
  BY DEF TypeOK
<1>2. Granted(held[s], x) \in HeldStates
  BY <1>1, GrantedType
<1>3. held'[s] = Granted(held[s], x)
  BY DEF TypeOK
<1>4. /\ held'[s].token = nextToken(held[s].token) /\ held'[s].lease.token = held'[s].token
      /\ held'[s].lease.id = leases + 1
  BY <1>3 DEF Granted
<1>5. Moves(s) /\ Landing(s)
  BY <1>1, <1>4 DEF Moves, Landing
<1>6. leases' \in Nat /\ leases <= leases' /\ \A z \in Sessions \ {s} : landed'[z] = landed[z]
  BY <1>1
<1>7. \A z \in Sessions : Moves(z) /\ Landing(z)
  BY <1>2, <1>5, <1>6, HandlerMoves, Zenon
<1> QED
  BY <1>4, <1>7 DEF Fresh, Answer

\* An answer that gives nothing away, or gives the lease just granted.
LEMMA ReplyFrom ==
    ASSUME NEW b, Reply(b), Grants(b) => Fresh(b)
    PROVE  \A a \in answers' : AnswerFrom(a)
BY DEF Reply, AnswerFrom

LEMMA RefusalGrants == \A r : ~Grants(Refusal(r))
BY DEF Grants, Refusal, Answer

LEMMA PlainGrants == \A r, s : ~Grants(Answer(r, TRUE, s, 0, 0))
BY DEF Grants, Answer

\* The rest of FenceStep for a handler.
LEMMA HandlerFence ==
    ASSUME TypeOK, \A s \in Sessions : Moves(s) /\ Landing(s), net' \subseteq net,
           UNCHANGED client, \A a \in answers' : AnswerFrom(a), \A k \in idem' : KeptFrom(k)
    PROVE  FenceStep
BY DEF FenceStep, ClientFrom, SameLease, WriteFrom

LEMMA IdemKept == ASSUME idem' \subseteq idem PROVE \A k \in idem' : KeptFrom(k)
BY DEF KeptFrom

LEMMA RefuseFence ==
    ASSUME TypeOK, NEW r, Refuse(r), net' \subseteq net, UNCHANGED <<now, idem, client>>
    PROVE  FenceStep
<1>1. \A s \in Sessions : Moves(s) /\ Landing(s)
  BY QuietMoves DEF Refuse
<1>2. \A a \in answers' : AnswerFrom(a)
  BY ReplyFrom, RefusalGrants DEF Refuse
<1> QED
  BY <1>1, <1>2, HandlerFence, IdemKept

LEMMA FenceAcquire == ASSUME TypeOK, NEW r, Acquire(r) PROVE FenceStep
<1> DEFINE s == r.s
           x == IF held[s].lease.id # 0 THEN Released(store[s]) ELSE store[s]
<1>1. RequestOK(r) /\ s \in Sessions /\ net' \subseteq net
  BY HandleNet DEF Acquire
<1>2. held[s] \in HeldStates /\ Opened(x) \in Stored
  BY <1>1, SessionTypes, StoredTypes
<1>3. UNCHANGED <<now, idem, client>> /\ \A k \in idem' : KeptFrom(k)
  BY IdemKept DEF Acquire
<1>4. CASE Current(s)
  <2>1. Refuse(r)
    BY <1>4 DEF Acquire
  <2> QED BY <1>1, <1>3, <2>1, RefuseFence
<1>5. CASE ~Current(s) /\ (~x.exists \/ x.by = "other")
  <2>1. /\ held' = [held EXCEPT ![s] = Ended(held[s])]
        /\ Reply(Refusal(r)) /\ UNCHANGED <<leases, landed>>
    BY <1>5 DEF Acquire
  <2>2. \A a \in answers' : AnswerFrom(a)
    BY <2>1, ReplyFrom, RefusalGrants
  <2> QED
    BY <1>1, <1>3, <2>1, <2>2, EndMoves, HandlerFence
<1>6. CASE ~Current(s) /\ ~(~x.exists \/ x.by = "other")
  <2>1. /\ held' = [held EXCEPT ![s] = Granted(held[s], Opened(x))]
        /\ leases' = leases + 1 /\ UNCHANGED landed
        /\ Reply(Answer(r, TRUE, s, leases + 1, nextToken(held[s].token)))
    BY <1>6 DEF Acquire
  <2> HIDE DEF x
  <2>2. /\ \A z \in Sessions : Moves(z) /\ Landing(z)
        /\ Fresh(Answer(r, TRUE, s, leases + 1, nextToken(held[s].token)))
    BY <1>1, <1>2, <1>3, <2>1, GrantMoves
  <2>3. \A a \in answers' : AnswerFrom(a)
    BY <2>1, <2>2, ReplyFrom
  <2> QED
    BY <1>1, <1>3, <2>2, <2>3, HandlerFence
<1> QED
  BY <1>4, <1>5, <1>6

LEMMA FenceRenew == ASSUME TypeOK, NEW r, Renew(r) PROVE FenceStep
<1> DEFINE s == r.s
           until == now + ttlOf(TTL)
           h == [held[s] EXCEPT !.lease = [held[s].lease EXCEPT !.expires = until, !.timer = until]]
<1>1. RequestOK(r) /\ s \in Sessions /\ net' \subseteq net /\ r.op = "renew"
  BY HandleNet DEF Renew
<1>2. held[s] \in HeldStates /\ until \in Nat
  BY <1>1, SessionTypes, LeaseTimes DEF TypeOK
<1>3. UNCHANGED <<now, idem, client>> /\ \A k \in idem' : KeptFrom(k)
  BY IdemKept DEF Renew
<1>4. CASE ~(Current(s) /\ held[s].lease.id = r.id)
  <2>1. Refuse(r)
    BY <1>4 DEF Renew
  <2> QED BY <1>1, <1>3, <2>1, RefuseFence
<1>5. CASE Current(s) /\ held[s].lease.id = r.id
  <2>1. /\ held' = [held EXCEPT ![s] = h] /\ Reply(Answer(r, TRUE, s, r.id, r.token))
        /\ UNCHANGED <<leases, landed>>
    BY <1>5 DEF Renew
  <2>2. ~Grants(Answer(r, TRUE, s, r.id, r.token))
    BY <1>1 DEF Grants, Answer
  <2>3. h \in HeldStates /\ h.token = held[s].token
        /\ h.lease.id = held[s].lease.id /\ h.lease.token = held[s].lease.token
    BY <1>2 DEF HeldStates
  <2> HIDE DEF h
  <2>4. held'[s] = h
    BY <1>1, <2>1 DEF TypeOK
  <2>5. Moves(s) /\ Landing(s)
    BY <1>2, <1>3, <2>1, <2>3, <2>4 DEF Moves, Landing, TypeOK, HeldStates
  <2>6. \A z \in Sessions : Moves(z) /\ Landing(z)
    <3>1. /\ leases' \in Nat /\ leases <= leases' /\ now' = now
          /\ \A z \in Sessions \ {s} : landed'[z] = landed[z]
      BY <1>3, <2>1 DEF TypeOK
    <3> QED BY <1>1, <2>1, <2>3, <2>5, <3>1, HandlerMoves, Zenon
  <2> QED
    BY <1>1, <1>3, <2>1, <2>2, <2>6, ReplyFrom, HandlerFence
<1> QED
  BY <1>4, <1>5

LEMMA FenceRelease == ASSUME TypeOK, NEW r, Release(r) PROVE FenceStep
<1> DEFINE s == r.s
<1>1. RequestOK(r) /\ s \in Sessions /\ net' \subseteq net
  BY HandleNet DEF Release
<1>2. UNCHANGED <<now, idem, client>> /\ \A k \in idem' : KeptFrom(k)
  BY IdemKept DEF Release
<1>3. CASE held[s].lease.id # r.id
  <2>1. Refuse(r)
    BY <1>3 DEF Release
  <2> QED BY <1>1, <1>2, <2>1, RefuseFence
<1>4. CASE held[s].lease.id = r.id
  <2>1. /\ held' = [held EXCEPT ![s] = Ended(held[s])]
        /\ Reply(Answer(r, TRUE, s, 0, 0)) /\ UNCHANGED <<leases, landed>>
    BY <1>4 DEF Release
  <2> QED
    BY <1>1, <1>2, <2>1, EndMoves, ReplyFrom, PlainGrants, HandlerFence
<1> QED
  BY <1>3, <1>4

\* A write passes the fence only with the current lease's token, and only
\* that lease has it.
LEMMA FencedByLease ==
    ASSUME TypeOK, FenceInv, NEW r \in net, r.op \in {"append", "delete"}, Fenced(r)
    PROVE  held[r.s].lease.id # 0 /\ r.id = held[r.s].lease.id
BY DEF Fenced, Current, FenceInv, Known

LEMMA FenceAppend == ASSUME TypeOK, FenceInv, NEW r, Append(r) PROVE FenceStep
<1> DEFINE s == r.s
<1>1. RequestOK(r) /\ s \in Sessions /\ net' \subseteq net /\ r.op = "append" /\ r \in net
  BY HandleNet DEF Append, Handle
<1>2. UNCHANGED <<now, idem, client>> /\ \A k \in idem' : KeptFrom(k)
  BY IdemKept DEF Append
<1>3. CASE ~(Fenced(r) /\ store[s].exists /\ store[s].by # "other")
  <2>1. Refuse(r)
    BY <1>3 DEF Append
  <2> QED BY <1>1, <1>2, <2>1, RefuseFence
<1>4. CASE Fenced(r) /\ store[s].exists /\ store[s].by # "other"
  <2>1. /\ landed' = [landed EXCEPT ![s] = r.id]
        /\ Reply(Answer(r, TRUE, s, 0, 0)) /\ UNCHANGED <<held, leases>>
    BY <1>4 DEF Append
  <2>2. held[s].lease.id # 0 /\ r.id = held[s].lease.id
    BY <1>1, <1>4, FencedByLease
  <2>3. \A z \in Sessions : Moves(z)
    BY <1>2, <2>1 DEF Moves, TypeOK, HeldStates
  <2>4. \A z \in Sessions : Landing(z)
    BY <2>1, <2>2 DEF Landing, TypeOK
  <2> QED
    BY <1>1, <1>2, <2>1, <2>3, <2>4, ReplyFrom, PlainGrants, HandlerFence
<1> QED
  BY <1>3, <1>4

LEMMA FenceDelete == ASSUME TypeOK, FenceInv, NEW r, Delete(r) PROVE FenceStep
<1> DEFINE s == r.s
<1>1. RequestOK(r) /\ s \in Sessions /\ net' \subseteq net /\ r.op = "delete" /\ r \in net
  BY HandleNet DEF Delete, Handle
<1>2. UNCHANGED <<now, idem, client>> /\ \A k \in idem' : KeptFrom(k)
  BY IdemKept DEF Delete
<1>3. CASE ~(Fenced(r) /\ store[s].exists /\ store[s].by # "other")
  <2>1. Refuse(r)
    BY <1>3 DEF Delete
  <2> QED BY <1>1, <1>2, <2>1, RefuseFence
<1>4. CASE Fenced(r) /\ store[s].exists /\ store[s].by # "other"
  <2>1. /\ landed' = [landed EXCEPT ![s] = r.id]
        /\ held' = [held EXCEPT ![s] = Ended(held[s])]
        /\ Reply(Answer(r, TRUE, s, 0, 0)) /\ UNCHANGED leases
    BY <1>4 DEF Delete
  <2>2. held[s].lease.id # 0 /\ r.id = held[s].lease.id
    BY <1>1, <1>4, FencedByLease
  <2>3. held[s] \in HeldStates /\ Ended(held[s]) \in HeldStates
        /\ Ended(held[s]).lease.id = 0 /\ Ended(held[s]).token = held[s].token
    BY <1>1, SessionTypes, EndedType DEF NoLease
  <2>4. held'[s] = Ended(held[s]) /\ landed'[s] = held[s].lease.id
    BY <1>1, <2>1, <2>2 DEF TypeOK
  <2>5. Moves(s) /\ Landing(s)
    BY <1>2, <2>1, <2>2, <2>3, <2>4 DEF Moves, Landing, TypeOK, HeldStates
  <2>6. \A z \in Sessions \ {s} : landed'[z] = landed[z]
    BY <2>1 DEF TypeOK
  <2>7. \A z \in Sessions : Moves(z) /\ Landing(z)
    <3>1. leases' \in Nat /\ leases <= leases' /\ now' = now
      BY <1>2, <2>1 DEF TypeOK
    <3> QED BY <1>1, <2>1, <2>3, <2>5, <2>6, <3>1, HandlerMoves, Zenon
  <2> QED
    BY <1>1, <1>2, <2>1, <2>7, ReplyFrom, PlainGrants, HandlerFence
<1> QED
  BY <1>3, <1>4

LEMMA FenceCreateArrives == ASSUME TypeOK, NEW r \in net, CreateArrives(r) PROVE FenceStep
<1>1. \A s \in Sessions : Moves(s) /\ Landing(s)
  BY QuietMoves DEF CreateArrives
<1>2. \A q \in net' : WriteFrom(q)
  <2>1. \A q \in net' : q \in net \/ q = [r EXCEPT !.again = FALSE]
    BY DEF CreateArrives
  <2>2. [r EXCEPT !.again = FALSE].op = "create"
    BY DEF CreateArrives, TypeOK, RequestOK, Requests
  <2> QED BY <2>1, <2>2 DEF WriteFrom
<1>3. \A a \in answers' : AnswerFrom(a)
  <2>1. CASE Kept(r) # {}
    <3>1. PICK k \in Kept(r) : Reply(k.answer)
      BY <2>1 DEF CreateArrives
    <3>2. k \in idem
      BY DEF Kept
    <3> QED BY <3>1, <3>2 DEF Reply, AnswerFrom
  <2>2. CASE Kept(r) = {}
    BY <2>2 DEF CreateArrives, AnswerFrom
  <2> QED BY <2>1, <2>2
<1>4. \A c \in Clients : ClientFrom(c)
  BY DEF CreateArrives, ClientFrom, SameLease
<1>5. \A k \in idem' : KeptFrom(k)
  BY IdemKept DEF CreateArrives
<1> QED
  BY <1>1, <1>2, <1>3, <1>4, <1>5 DEF FenceStep

LEMMA KeptFence ==
    ASSUME NEW r, NEW a, AnswerKept(r, a), Grants(a) => Fresh(a)
    PROVE  (\A b \in answers' : AnswerFrom(b)) /\ (\A k \in idem' : KeptFrom(k))
<1>1. \A k \in idem' : k \in idem \/ k.answer = a
  BY DEF AnswerKept
<1> QED
  BY <1>1, ReplyFrom DEF AnswerKept, KeptFrom

LEMMA FenceCreateRuns ==
    ASSUME TypeOK, NEW r \in begun, NEW s \in Sessions, CreateRuns(r, s)
    PROVE  FenceStep
<1> DEFINE x == CreateFound(r, s)
<1>1. RequestOK(r)
  BY DEF TypeOK
<1>2. held[s] \in HeldStates /\ x \in Stored /\ Opened(x) \in Stored
  BY <1>1, SessionTypes, CreateFoundType, StoredTypes
<1>3. UNCHANGED <<now, client>> /\ net' \subseteq net
  BY DEF CreateRuns
<1>4. CASE Refuse(r) /\ UNCHANGED <<idem, made>>
  BY <1>3, <1>4, RefuseFence
<1>5. CASE /\ held' = [held EXCEPT ![s] = Ended(held[s])]
           /\ Reply(Refusal(r)) /\ UNCHANGED <<leases, landed, idem, made>>
  <2>1. \A a \in answers' : AnswerFrom(a)
    BY <1>5, ReplyFrom, RefusalGrants
  <2> QED
    BY <1>3, <1>5, <2>1, EndMoves, IdemKept, HandlerFence
<1>6. CASE /\ held' = [held EXCEPT ![s] = Granted(held[s], Opened(x))]
           /\ leases' = leases + 1
           /\ AnswerKept(r, Answer(r, TRUE, s, leases + 1, nextToken(held[s].token)))
           /\ UNCHANGED landed
  <2> HIDE DEF x
  <2>1. /\ \A z \in Sessions : Moves(z) /\ Landing(z)
        /\ Fresh(Answer(r, TRUE, s, leases + 1, nextToken(held[s].token)))
    BY <1>2, <1>3, <1>6, GrantMoves
  <2>2. (\A b \in answers' : AnswerFrom(b)) /\ (\A k \in idem' : KeptFrom(k))
    BY <1>6, <2>1, KeptFence
  <2> QED
    BY <1>3, <2>1, <2>2, HandlerFence
<1>7. CASE AnswerKept(r, Answer(r, TRUE, s, 0, 0)) /\ UNCHANGED <<held, leases, landed>>
  <2>1. (\A b \in answers' : AnswerFrom(b)) /\ (\A k \in idem' : KeptFrom(k))
    BY <1>7, KeptFence, PlainGrants
  <2> QED
    BY <1>3, <1>7, <2>1, QuietMoves, HandlerFence
<1> QED
  BY <1>4, <1>5, <1>6, <1>7, CreateCases

\* A client sends under its own lease, or under none.
LEMMA SendFence ==
    ASSUME TypeOK, NEW c \in Clients, NEW r, Send(c, r), WriteFrom(r),
           \A d \in Clients : client'[d].live => client[d].live /\ SameLease(client'[d], client[d])
    PROVE  FenceStep
<1>1. \A s \in Sessions : Moves(s) /\ Landing(s)
  BY QuietMoves DEF Send
<1>2. \A q \in net' : WriteFrom(q)
  BY DEF Send, WriteFrom
<1> QED
  BY <1>1, <1>2 DEF Send, FenceStep, ClientFrom, AnswerFrom, KeptFrom

LEMMA FenceClient ==
    ASSUME TypeOK, NEW c \in Clients,
           \/ \E s \in Sessions : SendAcquire(c, s)
           \/ \E e \in Entries : SendWrite(c, "append", e)
           \/ SendWrite(c, "delete", None)
           \/ SendRenew(c) \/ SendRelease(c) \/ GiveUp(c)
           \/ \E s \in Sessions \cup {None}, lease \in BOOLEAN : SendCreate(c, s, lease)
    PROVE  FenceStep
<1>1. \A op, s, e, lease : op \notin {"append", "delete"} => WriteFrom(Request(c, op, s, e, lease))
  BY DEF WriteFrom, Request
<1>2. \A d \in Clients : SameLease(client[d], client[d])
  BY DEF SameLease
<1>3. ASSUME NEW s \in Sessions, SendAcquire(c, s) PROVE FenceStep
  BY <1>1, <1>2, <1>3, SendFence DEF SendAcquire
<1>4. ASSUME NEW op, NEW e, SendWrite(c, op, e) PROVE FenceStep
  <2>1. client[c].live
    BY <1>4 DEF SendWrite, Believes
  <2>2. WriteFrom(Request(c, op, client[c].s, e, TRUE))
    BY <2>1 DEF WriteFrom, Request, SameLease
  <2> QED BY <1>2, <1>4, <2>2, SendFence DEF SendWrite
<1>5. CASE SendRenew(c)
  BY <1>1, <1>2, <1>5, SendFence DEF SendRenew
<1>6. CASE SendRelease(c)
  <2>1. \A d \in Clients : client'[d] = IF d = c THEN NoClaim ELSE client[d]
    BY <1>6 DEF SendRelease, TypeOK
  <2>2. ~NoClaim.live
    BY DEF NoClaim
  <2> QED BY <1>1, <1>2, <1>6, <2>1, <2>2, SendFence DEF SendRelease
<1>7. CASE GiveUp(c)
  <2>1. \A s \in Sessions : Moves(s) /\ Landing(s)
    BY <1>7, QuietMoves DEF GiveUp
  <2> QED
    BY <1>7, <2>1 DEF GiveUp, FenceStep, ClientFrom, SameLease, WriteFrom, AnswerFrom, KeptFrom
<1>8. ASSUME NEW s \in Sessions \cup {None}, NEW lease \in BOOLEAN, SendCreate(c, s, lease)
      PROVE  FenceStep
  BY <1>1, <1>2, <1>8, SendFence DEF SendCreate
<1> QED
  BY <1>3, <1>4, <1>5, <1>6, <1>7, <1>8

\* A client's lease is the one it had, or the answer's.
LEMMA ClaimFrom ==
    ASSUME TypeOK, NEW a \in answers, Claim(a.c, a).live
    PROVE  \/ client[a.c].live /\ SameLease(Claim(a.c, a), client[a.c])
           \/ Grants(a) /\ SameLease(Claim(a.c, a), a)
<1>1. a.c \in Clients /\ client[a.c] \in Holdings
  BY DEF TypeOK, AnswerOK, Answers
<1>2. CASE a.ok /\ a.op \in {"acquire", "create"} /\ a.id # 0
  BY <1>2 DEF Claim, Grants, SameLease
<1>3. CASE a.ok /\ a.op = "renew" /\ client[a.c].live /\ client[a.c].id = a.id
  BY <1>1, <1>3 DEF Claim, Holdings, SameLease
<1>4. CASE ~a.ok /\ a.op = "renew" /\ client[a.c].id = a.id
  BY <1>1, <1>4 DEF Claim, Holdings, SameLease
<1>5. CASE a.ok /\ a.op = "delete"
  BY <1>5 DEF Claim, NoClaim
<1>6. CASE /\ ~(a.ok /\ a.op \in {"acquire", "create"} /\ a.id # 0)
           /\ ~(a.ok /\ a.op = "renew" /\ client[a.c].live /\ client[a.c].id = a.id)
           /\ ~(~a.ok /\ a.op = "renew" /\ client[a.c].id = a.id)
           /\ ~(a.ok /\ a.op = "delete")
  BY <1>6 DEF Claim, SameLease
<1> QED
  BY <1>2, <1>3, <1>4, <1>5, <1>6

LEMMA FenceReceive == ASSUME TypeOK, NEW a \in answers, Receive(a) PROVE FenceStep
<1>1. a.c \in Clients
  BY DEF TypeOK, AnswerOK, Answers
<1>2. \A s \in Sessions : Moves(s) /\ Landing(s)
  BY QuietMoves DEF Receive
<1>3. \A d \in Clients : client'[d] = IF d = a.c THEN Claim(a.c, a) ELSE client[d]
  BY <1>1 DEF Receive, TypeOK
<1>4. \A d \in Clients : ClientFrom(d)
  BY <1>1, <1>3, ClaimFrom DEF ClientFrom, SameLease
<1> QED
  BY <1>2, <1>4 DEF Receive, FenceStep, WriteFrom, AnswerFrom, KeptFrom

LEMMA FenceRest ==
    ASSUME TypeOK,
           \/ \E s \in Sessions : TimerFires(s) \/ Break(s) \/ OtherHolds(s)
           \/ \E f \in fired : Expire(f)
           \/ Tick \/ Restart
    PROVE  FenceStep
<1>1. ASSUME \A s \in Sessions : Moves(s) /\ Landing(s), UNCHANGED <<net, answers, client>>,
             idem' \subseteq idem
      PROVE  FenceStep
  BY <1>1 DEF FenceStep, ClientFrom, SameLease, WriteFrom, AnswerFrom, KeptFrom
<1>2. ASSUME NEW s \in Sessions, TimerFires(s) PROVE FenceStep
  <2> DEFINE h == [held[s] EXCEPT !.lease = [held[s].lease EXCEPT !.timer = 0]]
  <2>1. held[s] \in HeldStates
    BY SessionTypes
  <2>2. h \in HeldStates /\ h.token = held[s].token
        /\ h.lease.id = held[s].lease.id /\ h.lease.token = held[s].lease.token
    BY <2>1 DEF HeldStates
  <2>3. held' = [held EXCEPT ![s] = h]
    BY <1>2 DEF TimerFires
  <2> HIDE DEF h
  <2>4. held'[s] = h
    BY <2>3 DEF TypeOK
  <2>5. /\ leases' \in Nat /\ leases <= leases' /\ now' = now
        /\ \A z \in Sessions \ {s} : landed'[z] = landed[z]
    BY <1>2 DEF TimerFires, TypeOK
  <2>6. Moves(s) /\ Landing(s)
    BY <1>2, <2>1, <2>2, <2>4 DEF TimerFires, Moves, Landing, TypeOK, HeldStates
  <2>7. \A z \in Sessions : Moves(z) /\ Landing(z)
    BY <2>2, <2>3, <2>5, <2>6, HandlerMoves, Zenon
  <2> QED BY <1>1, <1>2, <2>7 DEF TimerFires
<1>3. ASSUME NEW s \in Sessions, Break(s) PROVE FenceStep
  <2> DEFINE h == [Ended(held[s]) EXCEPT !.token = nextToken(held[s].token)]
  <2>1. held[s] \in HeldStates
    BY SessionTypes
  <2>2. nextToken(held[s].token) \in Nat /\ held[s].token <= nextToken(held[s].token)
    BY <2>1, NextTokenGrows DEF TypeOK, HeldStates
  <2>3. Ended(held[s]) \in HeldStates /\ Ended(held[s]).lease.id = 0
    BY <2>1, EndedType DEF NoLease
  <2>4. h \in HeldStates /\ h.lease.id = 0 /\ h.token = nextToken(held[s].token)
    BY <2>2, <2>3 DEF HeldStates
  <2>5. held' = [held EXCEPT ![s] = h]
    BY <1>3 DEF Break
  <2> HIDE DEF h
  <2>6. held'[s] = h
    BY <2>5 DEF TypeOK
  <2>7. /\ leases' \in Nat /\ leases <= leases' /\ now' = now
        /\ \A z \in Sessions \ {s} : landed'[z] = landed[z]
    BY <1>3 DEF Break, TypeOK
  <2>8. Moves(s) /\ Landing(s)
    <3>1. held'[s].lease.id = 0 /\ held[s].token <= held'[s].token
      BY <2>2, <2>4, <2>6, Zenon
    <3>2. now <= now' /\ landed' = landed
      BY <1>3 DEF Break, TypeOK
    <3> QED BY <2>7, <3>1, <3>2, Zenon DEF Moves, Landing
  <2>9. \A z \in Sessions : Moves(z) /\ Landing(z)
    BY <2>4, <2>5, <2>7, <2>8, HandlerMoves, Zenon
  <2> QED BY <1>1, <1>3, <2>9 DEF Break
<1>4. ASSUME NEW s \in Sessions, OtherHolds(s) PROVE FenceStep
  BY <1>1, <1>4, QuietMoves DEF OtherHolds
<1>5. ASSUME NEW f \in fired, Expire(f) PROVE FenceStep
  <2>1. f.s \in Sessions
    BY DEF TypeOK
  <2>2. CASE UNCHANGED held
    BY <1>1, <1>5, <2>2, QuietMoves DEF Expire
  <2>3. CASE held' = [held EXCEPT ![f.s] = Ended(held[f.s])]
    BY <1>1, <1>5, <2>1, <2>3, EndMoves DEF Expire
  <2> QED BY <1>5, <2>2, <2>3 DEF Expire
<1>6. CASE Tick
  BY <1>1, <1>6, QuietMoves DEF Tick
<1>7. CASE Restart
  <2>1. \A s \in Sessions : held'[s].lease.id = 0 /\ held[s].token < now'
    BY <1>7 DEF Restart, NoLease
  <2>2. leases' = leases /\ landed' = landed /\ leases <= leases' /\ now <= now'
    BY <1>7 DEF Restart, TypeOK
  <2>3. \A s \in Sessions : Moves(s) /\ Landing(s)
    BY <2>1, <2>2, Zenon DEF Moves, Landing
  <2> QED BY <1>1, <1>7, <2>3 DEF Restart
<1> QED
  BY <1>2, <1>3, <1>4, <1>5, <1>6, <1>7

LEMMA FenceNext == TypeOK /\ FenceInv /\ Next => FenceStep
<1> SUFFICES ASSUME TypeOK, FenceInv, Next PROVE FenceStep
  OBVIOUS
<1>1. CASE Server
  BY <1>1, FenceAcquire, FenceRenew, FenceRelease, FenceAppend, FenceDelete,
     FenceCreateArrives, FenceCreateRuns, FenceRest DEF Server
<1>2. CASE \E c \in Clients :
             \/ \E s \in Sessions : SendAcquire(c, s)
             \/ \E e \in Entries : SendWrite(c, "append", e)
             \/ SendWrite(c, "delete", None)
             \/ SendRenew(c) \/ SendRelease(c) \/ GiveUp(c)
             \/ \E s \in Sessions \cup {None}, lease \in BOOLEAN : SendCreate(c, s, lease)
  BY <1>2, FenceClient
<1>3. CASE \E a \in answers : Receive(a)
  BY <1>3, FenceReceive
<1>4. CASE (\E s \in Sessions : Break(s) \/ OtherHolds(s)) \/ Tick \/ Restart
  BY <1>4, FenceRest
<1> QED
  BY <1>1, <1>2, <1>3, <1>4 DEF Next

LEMMA FenceInit == Init => FenceInv
BY LeaseAssumption DEF Init, FenceInv, LastLease, NoLease, NoClaim

LEMMA FenceStutter == FenceInv /\ UNCHANGED vars => FenceInv'
BY DEF vars, FenceInv, Known, LastLease

\* The leases that requests, answers and clients carry stay the ones that
\* were granted, and no token passes for another lease's.
LEMMA FenceCorrect == Spec => []FenceInv
<1>1. TypeOK /\ TypeOK' /\ FenceInv /\ [Next]_vars => FenceInv'
  BY FenceNext, FencePreserved, FenceStutter
<1> QED
  BY <1>1, FenceInit, LeaseTypeCorrect, PTL DEF Spec

\* A write never lands after one made under a later lease, for any number
\* of clients, however its request is delayed, and through breaks, deletions
\* and restarts of the server (fenced, under the per-session lock).
THEOREM WritesLandInLeaseOrder == Spec => LandsInLeaseOrder
<1>1. TypeOK /\ TypeOK' /\ FenceInv /\ [Next]_vars
        => [\A s \in Sessions : landed'[s] >= landed[s]]_vars
  BY FenceNext, FencePreserved
<1> QED
  BY <1>1, LeaseTypeCorrect, FenceCorrect, PTL DEF Spec, LandsInLeaseOrder

-----------------------------------------------------------------------------
(* Holds.                                                                  *)

LEMMA StoredHolds ==
    ASSUME NEW x \in Stored
    PROVE  /\ Opened(x).by = "server" /\ Opened(x).exists = x.exists
           /\ Released(x).by # "server" /\ Released(x).exists = x.exists
<1>1. CASE x.by = "server"
  BY <1>1 DEF Opened, Released, Stored
<1>2. CASE x.by # "server"
  BY <1>2 DEF Opened, Released, Stored
<1> QED
  BY <1>1, <1>2

LEMMA EndedStandsOn ==
    ASSUME NEW h \in HeldStates, NEW x, x.by # "server"
    PROVE  StandsOn(Ended(h), x)
BY EndedType DEF StandsOn, NoLease

LEMMA GrantedStandsOn ==
    ASSUME NEW h, NEW x \in Stored, x.exists, leases \in Nat
    PROVE  StandsOn(Granted(h, Opened(x)), Opened(x))
<1>1. Granted(h, Opened(x)).lease.id = leases + 1 /\ Granted(h, Opened(x)).sess = Opened(x).open
  BY DEF Granted
<1> QED
  BY <1>1, StoredHolds DEF StandsOn

\* A handler leaves every other session as it was.
LEMMA HandlerHold ==
    ASSUME TypeOK, HoldInv, NEW s \in Sessions, NEW h, NEW x, StandsOn(h, x),
           held' = [held EXCEPT ![s] = h], store' = [store EXCEPT ![s] = x],
           net' \subseteq net, begun' \subseteq begun
    PROVE  HoldInv'
<1>1. \A z \in Sessions : /\ held'[z] = IF z = s THEN h ELSE held[z]
                          /\ store'[z] = IF z = s THEN x ELSE store[z]
  BY DEF TypeOK
<1>2. \A z \in Sessions : StandsOn(held'[z], store'[z])
  BY <1>1 DEF HoldInv
<1> QED
  BY <1>2 DEF HoldInv, StandsOn

LEMMA QuietHold ==
    ASSUME HoldInv, UNCHANGED <<held, store>>,
           \A r \in net' \cup begun' : r.op = "create" => r.lease
    PROVE  HoldInv'
BY DEF HoldInv, StandsOn

LEMMA HoldAcquire == ASSUME TypeOK, HoldInv, NEW r, Acquire(r) PROVE HoldInv'
<1> DEFINE s == r.s
           x == IF held[s].lease.id # 0 THEN Released(store[s]) ELSE store[s]
<1>1. s \in Sessions /\ net' \subseteq net /\ begun' \subseteq begun
  BY HandleNet DEF Acquire
<1>2. held[s] \in HeldStates /\ store[s] \in Stored /\ x \in Stored
  BY <1>1, SessionTypes, StoredTypes
<1>3. x.by # "server"
  BY <1>1, <1>2, StoredHolds DEF HoldInv, StandsOn
<1>4. CASE Current(s)
  BY <1>1, <1>4, QuietHold DEF Acquire, Refuse, HoldInv
<1>5. CASE ~Current(s) /\ (~x.exists \/ x.by = "other")
  <2>1. store' = [store EXCEPT ![s] = x] /\ held' = [held EXCEPT ![s] = Ended(held[s])]
    BY <1>5 DEF Acquire
  <2>2. StandsOn(Ended(held[s]), x)
    BY <1>2, <1>3, EndedStandsOn
  <2> HIDE DEF x
  <2> QED BY <1>1, <2>1, <2>2, HandlerHold
<1>6. CASE ~Current(s) /\ ~(~x.exists \/ x.by = "other")
  <2>1. /\ store' = [store EXCEPT ![s] = Opened(x)]
        /\ held' = [held EXCEPT ![s] = Granted(held[s], Opened(x))]
    BY <1>6 DEF Acquire
  <2>2. StandsOn(Granted(held[s], Opened(x)), Opened(x))
    BY <1>2, <1>6, GrantedStandsOn DEF TypeOK
  <2> HIDE DEF x
  <2> QED BY <1>1, <2>1, <2>2, HandlerHold
<1> QED
  BY <1>4, <1>5, <1>6

LEMMA HoldRenew == ASSUME TypeOK, HoldInv, NEW r, Renew(r) PROVE HoldInv'
<1> DEFINE s == r.s
           until == now + ttlOf(TTL)
           h == [held[s] EXCEPT !.lease = [held[s].lease EXCEPT !.expires = until, !.timer = until]]
<1>1. s \in Sessions /\ net' \subseteq net /\ begun' \subseteq begun
  BY HandleNet DEF Renew
<1>2. held[s] \in HeldStates
  BY <1>1, SessionTypes
<1>3. CASE ~(Current(s) /\ held[s].lease.id = r.id)
  BY <1>1, <1>3, QuietHold DEF Renew, Refuse, HoldInv
<1>4. CASE Current(s) /\ held[s].lease.id = r.id
  <2>1. held' = [held EXCEPT ![s] = h] /\ store' = [store EXCEPT ![s] = store[s]]
    BY <1>4 DEF Renew, TypeOK
  <2>2. h.lease.id = held[s].lease.id /\ h.sess = held[s].sess
    BY <1>2 DEF HeldStates
  <2>3. StandsOn(h, store[s])
    BY <1>1, <2>2 DEF HoldInv, StandsOn
  <2> HIDE DEF h
  <2> QED BY <1>1, <2>1, <2>3, HandlerHold
<1> QED
  BY <1>3, <1>4

LEMMA HoldRelease == ASSUME TypeOK, HoldInv, NEW r, Release(r) PROVE HoldInv'
<1> DEFINE s == r.s
<1>1. s \in Sessions /\ net' \subseteq net /\ begun' \subseteq begun
  BY HandleNet DEF Release
<1>2. StandsOn(Ended(held[s]), Released(store[s]))
  BY <1>1, SessionTypes, StoredHolds, EndedStandsOn
<1>3. CASE held[s].lease.id # r.id
  BY <1>1, <1>3, QuietHold DEF Release, Refuse, HoldInv
<1>4. CASE held[s].lease.id = r.id
  <2>1. /\ held' = [held EXCEPT ![s] = Ended(held[s])]
        /\ store' = [store EXCEPT ![s] = Released(store[s])]
    BY <1>4 DEF Release
  <2> QED BY <1>1, <1>2, <2>1, HandlerHold
<1> QED
  BY <1>3, <1>4

LEMMA HoldAppend == ASSUME TypeOK, HoldInv, NEW r, Append(r) PROVE HoldInv'
<1> DEFINE s == r.s
           o == Opened(store[s])
           x == [o EXCEPT !.log = o.log \cup {r.entry}]
<1>1. s \in Sessions /\ net' \subseteq net /\ begun' \subseteq begun
  BY HandleNet DEF Append
<1>2. store[s] \in Stored /\ held[s] \in HeldStates
  BY <1>1, SessionTypes
<1>3. CASE ~(Fenced(r) /\ store[s].exists /\ store[s].by # "other")
  BY <1>1, <1>3, QuietHold DEF Append, Refuse, HoldInv
<1>4. CASE Fenced(r) /\ store[s].exists /\ store[s].by # "other"
  <2>1. held' = [held EXCEPT ![s] = held[s]] /\ store' = [store EXCEPT ![s] = x]
    BY <1>4 DEF Append, TypeOK
  <2>2. held[s].lease.id # 0 /\ store[s].by = "server"
    BY <1>1, <1>4 DEF Fenced, Current, HoldInv, StandsOn
  <2>3. o = store[s]
    BY <2>2 DEF Opened
  <2>4. x.by = store[s].by /\ x.exists = store[s].exists /\ x.open = store[s].open
    BY <1>2, <2>3 DEF Stored
  <2>5. StandsOn(held[s], x)
    BY <1>1, <2>4 DEF HoldInv, StandsOn
  <2> HIDE DEF x
  <2> QED BY <1>1, <2>1, <2>5, HandlerHold
<1> QED
  BY <1>3, <1>4

LEMMA HoldDelete == ASSUME TypeOK, HoldInv, NEW r, Delete(r) PROVE HoldInv'
<1> DEFINE s == r.s
           x == [store[s] EXCEPT !.exists = FALSE, !.by = "none", !.log = {}, !.hdr = None]
<1>1. s \in Sessions /\ net' \subseteq net /\ begun' \subseteq begun
  BY HandleNet DEF Delete
<1>2. store[s] \in Stored /\ held[s] \in HeldStates
  BY <1>1, SessionTypes
<1>3. CASE ~(Fenced(r) /\ store[s].exists /\ store[s].by # "other")
  BY <1>1, <1>3, QuietHold DEF Delete, Refuse, HoldInv
<1>4. CASE Fenced(r) /\ store[s].exists /\ store[s].by # "other"
  <2>1. held' = [held EXCEPT ![s] = Ended(held[s])] /\ store' = [store EXCEPT ![s] = x]
    BY <1>4 DEF Delete
  <2>2. x.by # "server"
    BY <1>2 DEF Stored
  <2>3. StandsOn(Ended(held[s]), x)
    BY <1>2, <2>2, EndedStandsOn
  <2> HIDE DEF x
  <2> QED BY <1>1, <2>1, <2>3, HandlerHold
<1> QED
  BY <1>3, <1>4

LEMMA HoldCreateRuns ==
    ASSUME TypeOK, HoldInv, NEW r \in begun, NEW s \in Sessions, CreateRuns(r, s)
    PROVE  HoldInv'
<1> DEFINE x == CreateFound(r, s)
<1>1. RequestOK(r) /\ r.op = "create" /\ r.lease /\ net' \subseteq net /\ begun' \subseteq begun
  BY DEF TypeOK, HoldInv, CreateRuns
<1>2. held[s] \in HeldStates /\ store[s] \in Stored /\ x \in Stored
  BY <1>1, SessionTypes, CreateFoundType
<1>3. x.exists
  <2>1. CASE ~store[s].exists
    <3>1. x = [Opened(store[s]) EXCEPT !.exists = TRUE, !.hdr = IF r.s = None THEN None ELSE r.c]
      BY <2>1 DEF CreateFound
    <3> QED BY <1>2, <3>1, StoredTypes DEF Stored
  <2>2. CASE store[s].exists
    BY <1>2, <2>2, StoredHolds DEF CreateFound
  <2> QED BY <2>1, <2>2
<1>4. CASE Refuse(r) /\ UNCHANGED <<idem, made>>
  BY <1>1, <1>4, QuietHold DEF Refuse, HoldInv
<1>5. CASE /\ x.by = "other"
           /\ store' = [store EXCEPT ![s] = x] /\ held' = [held EXCEPT ![s] = Ended(held[s])]
  <2>1. StandsOn(Ended(held[s]), x)
    BY <1>2, <1>5, EndedStandsOn
  <2> HIDE DEF x
  <2> QED BY <1>1, <1>5, <2>1, HandlerHold
<1>6. CASE /\ store' = [store EXCEPT ![s] = Opened(x)]
           /\ held' = [held EXCEPT ![s] = Granted(held[s], Opened(x))]
  <2>1. StandsOn(Granted(held[s], Opened(x)), Opened(x))
    BY <1>2, <1>3, GrantedStandsOn DEF TypeOK
  <2> HIDE DEF x
  <2> QED BY <1>1, <1>6, <2>1, HandlerHold
<1> QED
  BY <1>1, <1>4, <1>5, <1>6, CreateCases

LEMMA HoldRest ==
    ASSUME TypeOK, HoldInv,
           \/ \E s \in Sessions : TimerFires(s) \/ Break(s) \/ OtherHolds(s)
           \/ \E f \in fired : Expire(f)
           \/ Tick \/ Restart
    PROVE  HoldInv'
<1>1. ASSUME NEW s \in Sessions, TimerFires(s) PROVE HoldInv'
  <2> DEFINE h == [held[s] EXCEPT !.lease = [held[s].lease EXCEPT !.timer = 0]]
  <2>1. held' = [held EXCEPT ![s] = h] /\ store' = [store EXCEPT ![s] = store[s]]
    BY <1>1 DEF TimerFires, TypeOK
  <2>2. h.lease.id = held[s].lease.id /\ h.sess = held[s].sess
    BY SessionTypes DEF HeldStates
  <2>3. StandsOn(h, store[s])
    BY <2>2 DEF HoldInv, StandsOn
  <2> HIDE DEF h
  <2> QED BY <1>1, <2>1, <2>3, HandlerHold DEF TimerFires
<1>2. ASSUME NEW s \in Sessions, Break(s) PROVE HoldInv'
  <2> DEFINE h == [Ended(held[s]) EXCEPT !.token = nextToken(held[s].token)]
             x == IF held[s].lease.id # 0 THEN Released(store[s]) ELSE store[s]
  <2>1. held[s] \in HeldStates /\ store[s] \in Stored
    BY SessionTypes
  <2>2. held' = [held EXCEPT ![s] = h] /\ store' = [store EXCEPT ![s] = x]
    BY <1>2 DEF Break
  <2>3. x.by # "server"
    BY <2>1, StoredHolds DEF HoldInv, StandsOn
  <2>4. h.lease.id = 0
    BY <2>1, EndedType DEF HeldStates, NoLease
  <2>5. StandsOn(h, x)
    BY <2>3, <2>4 DEF StandsOn
  <2>6. net' \subseteq net /\ begun' \subseteq begun
    BY <1>2 DEF Break
  <2> HIDE DEF h, x
  <2> QED BY <2>2, <2>5, <2>6, HandlerHold
<1>3. ASSUME NEW s \in Sessions, OtherHolds(s) PROVE HoldInv'
  <2>1. /\ store[s].by # "server" /\ store[s] \in Stored
        /\ \E by \in {"none", "other"} : store' = [store EXCEPT ![s] = [store[s] EXCEPT !.by = by]]
    BY <1>3, SessionTypes DEF OtherHolds
  <2>2. PICK by \in {"none", "other"} : store' = [store EXCEPT ![s] = [store[s] EXCEPT !.by = by]]
    BY <2>1
  <2>3. [store[s] EXCEPT !.by = by].by # "server"
    BY <2>1 DEF Stored
  <2>4. held[s].lease.id = 0
    BY <2>1 DEF HoldInv, StandsOn
  <2>5. StandsOn(held[s], [store[s] EXCEPT !.by = by])
    BY <2>3, <2>4 DEF StandsOn
  <2>6. held' = [held EXCEPT ![s] = held[s]]
    BY <1>3 DEF OtherHolds, TypeOK
  <2> QED BY <1>3, <2>2, <2>5, <2>6, HandlerHold DEF OtherHolds
<1>4. ASSUME NEW f \in fired, Expire(f) PROVE HoldInv'
  <2>1. f.s \in Sessions /\ held[f.s] \in HeldStates /\ store[f.s] \in Stored
    BY SessionTypes DEF TypeOK
  <2>2. StandsOn(Ended(held[f.s]), Released(store[f.s]))
    BY <2>1, StoredHolds, EndedStandsOn
  <2>3. CASE UNCHANGED <<held, store>>
    BY <1>4, <2>3, QuietHold DEF Expire, HoldInv
  <2>4. CASE /\ held' = [held EXCEPT ![f.s] = Ended(held[f.s])]
             /\ store' = [store EXCEPT ![f.s] = Released(store[f.s])]
    BY <1>4, <2>1, <2>2, <2>4, HandlerHold DEF Expire
  <2> QED BY <1>4, <2>3, <2>4 DEF Expire
<1>5. CASE Tick
  BY <1>5, QuietHold DEF Tick, HoldInv
<1>6. CASE Restart
  <2>1. \A s \in Sessions : held'[s].lease.id = 0 /\ store'[s] = Released(store[s])
    BY <1>6 DEF Restart, NoLease
  <2>2. \A s \in Sessions : StandsOn(held'[s], store'[s])
    BY <2>1, StoredHolds, SessionTypes DEF StandsOn
  <2> QED BY <1>6, <2>2 DEF Restart, HoldInv, StandsOn
<1> QED
  BY <1>1, <1>2, <1>3, <1>4, <1>5, <1>6

LEMMA HoldClient ==
    ASSUME PlainCreates = FALSE, TypeOK, HoldInv, NEW c \in Clients,
           \/ \E s \in Sessions : SendAcquire(c, s)
           \/ \E e \in Entries : SendWrite(c, "append", e)
           \/ SendWrite(c, "delete", None)
           \/ SendRenew(c) \/ SendRelease(c) \/ GiveUp(c)
           \/ \E s \in Sessions \cup {None}, lease \in BOOLEAN : SendCreate(c, s, lease)
    PROVE  HoldInv'
<1>1. ASSUME NEW op, NEW s, NEW e, NEW lease, lease = TRUE,
             Send(c, Request(c, op, s, e, lease))
      PROVE  HoldInv'
  <2> DEFINE r == Request(c, op, s, e, lease)
  <2>1. r.lease
    BY <1>1 DEF Request
  <2> HIDE DEF r
  <2>2. net' = net \cup {r} /\ UNCHANGED <<held, store, begun>>
    BY <1>1 DEF Send, r
  <2>3. \A q \in net' \cup begun' : q.op = "create" => q.lease
    BY <2>1, <2>2 DEF HoldInv
  <2> QED BY <2>2, <2>3, QuietHold
<1>2. CASE GiveUp(c)
  BY <1>2, QuietHold DEF GiveUp, HoldInv
<1>3. ASSUME NEW s \in Sessions \cup {None}, NEW lease \in BOOLEAN, SendCreate(c, s, lease)
      PROVE  HoldInv'
  BY <1>1, <1>3 DEF SendCreate
<1> QED
  BY <1>1, <1>2, <1>3 DEF SendAcquire, SendWrite, SendRenew, SendRelease

LEMMA HoldNext == PlainCreates = FALSE /\ TypeOK /\ HoldInv /\ [Next]_vars => HoldInv'
<1> SUFFICES ASSUME PlainCreates = FALSE, TypeOK, HoldInv, [Next]_vars PROVE HoldInv'
  OBVIOUS
<1>1. ASSUME NEW r \in net, CreateArrives(r) PROVE HoldInv'
  <2>1. \A q \in net' : q \in net \/ q = [r EXCEPT !.again = FALSE]
    BY <1>1 DEF CreateArrives
  <2>2. begun' \subseteq begun \cup {r} /\ UNCHANGED <<held, store>>
    BY <1>1 DEF CreateArrives
  <2>3. [r EXCEPT !.again = FALSE].lease = r.lease /\ r.op = "create"
    BY <1>1 DEF CreateArrives, TypeOK, RequestOK, Requests
  <2>4. \A q \in net' \cup begun' : q.op = "create" => q.lease
    BY <2>1, <2>2, <2>3 DEF HoldInv
  <2> QED BY <2>2, <2>4, QuietHold
<1>2. CASE Server
  BY <1>1, <1>2, HoldAcquire, HoldRenew, HoldRelease, HoldAppend, HoldDelete, HoldCreateRuns,
     HoldRest DEF Server
<1>3. CASE \E c \in Clients :
             \/ \E s \in Sessions : SendAcquire(c, s)
             \/ \E e \in Entries : SendWrite(c, "append", e)
             \/ SendWrite(c, "delete", None)
             \/ SendRenew(c) \/ SendRelease(c) \/ GiveUp(c)
             \/ \E s \in Sessions \cup {None}, lease \in BOOLEAN : SendCreate(c, s, lease)
  BY <1>3, HoldClient
<1>4. CASE \E a \in answers : Receive(a)
  BY <1>4, QuietHold DEF Receive, HoldInv
<1>5. CASE (\E s \in Sessions : Break(s) \/ OtherHolds(s)) \/ Tick \/ Restart
  BY <1>5, HoldRest
<1>6. CASE UNCHANGED vars
  BY <1>6, QuietHold DEF vars, HoldInv
<1> QED
  BY <1>2, <1>3, <1>4, <1>5, <1>6 DEF Next

LEMMA HoldInit == Init => HoldInv
BY DEF Init, HoldInv, StandsOn, NoLease

\* A current lease stands on the store's hold, and without a lease the store
\* holds nothing, as long as every create asks for a lease (take, end): the
\* one handler that lets a hold go on its own is a create without one.
THEOREM LeaseStandsOnHold ==
    ASSUME PlainCreates = FALSE PROVE Spec => []LeaseIsTheHold
<1>1. TypeOK /\ HoldInv /\ [Next]_vars => HoldInv'
  BY HoldNext
<1>2. HoldInv => LeaseIsTheHold
  BY DEF HoldInv, StandsOn, LeaseIsTheHold, Current
<1> QED
  BY <1>1, <1>2, HoldInit, LeaseTypeCorrect, PTL DEF Spec

-----------------------------------------------------------------------------
(* No two clients believe they hold a session: the proof of OneBeliever.   *)
(*                                                                         *)
(* A claim, a client's or one on offer to a client that waits for it, is   *)
(* good up to its deadline: the session's lease is that lease and outlives *)
(* the deadline, or the session was deleted under it.  No handler grants   *)
(* or ends a lease that is current, but for the release of a lease nobody  *)
(* claims any more and the deletion itself.                                *)

LEMMA OfferMembers ==
    /\ \A a : a \in Offers <=> a \in answers \/ \E k \in idem : a = k.answer
    /\ \A a : a \in Offers' <=> a \in answers' \/ \E k \in idem' : a = k.answer
BY DEF Offers

LEMMA OfferTypes == ASSUME TypeOK PROVE \A a \in Offers : AnswerOK(a)
BY OfferMembers DEF TypeOK

\* A lease on offer was granted.
LEMMA OfferKnown ==
    ASSUME FenceInv, NEW a \in Offers, Grants(a)
    PROVE  a.id <= leases
BY OfferMembers DEF FenceInv, Known

\* Awaiting is about the waits alone.
LEMMA SameWaits ==
    ASSUME UNCHANGED waits
    PROVE  \A a : Awaited(a)' <=> Awaited(a)
BY DEF Awaited

-----------------------------------------------------------------------------
(* The server's steps.                                                     *)

\* A client, or an answer it waits for, claims lease id on s.
Claimed(s, id) ==
    \/ \E c \in Clients : client[c].live /\ client[c].s = s /\ client[c].id = id
    \/ \E a \in Offers : Offered(a) /\ a.s = s /\ a.id = id

\* Whatever claim was good still is.
KeepsClaims(s) ==
    \A id \in Nat \ {0}, d \in Nat :
        Claimed(s, id) /\ ClaimOK(s, id, d) => ClaimOK(s, id, d)'

ClaimsKept == \A s \in Sessions : KeepsClaims(s)

\* An answer the step makes to request r: it gives the next lease, which will
\* do for its client's claim; or prolongs the lease r names; or neither.
NewOffer(a, r) ==
    /\ a.c = r.c /\ a.n = r.n /\ a.op = r.op
    /\ Grants(a) => /\ a.id = leases + 1 /\ leases' = leases + 1
                    /\ ClaimOK(a.s, a.id, Deadline(a.at))'
    /\ Renewed(a) => r \in net /\ a.id = r.id /\ ClaimOK(r.s, r.id, Deadline(a.at))'

RequestsKept ==
    /\ \A r \in net' \cup begun' : \E q \in net \cup begun :
         r.op = q.op /\ r.c = q.c /\ r.n = q.n /\ r.at = q.at
    /\ \A r \in net' : r.op # "create" => r \in net

OffersKept ==
    /\ \A a \in answers' : Awaited(a)
    /\ \/ Offers' \subseteq Offers
       \/ \E r \in net \cup begun : \A a \in Offers' : a \in Offers \/ NewOffer(a, r)

ServerStep ==
    /\ UNCHANGED <<client, waits, sent>>
    /\ now <= now' /\ leases <= leases'
    /\ RequestsKept /\ OffersKept
    /\ \A s \in Sessions : held'[s].lease.expires <= now' + ttlOf(TTL)
    /\ Undisturbed' => Undisturbed /\ ClaimsKept

LEMMA ServerNumbered ==
    ASSUME TypeOK, TypeOK', NumberedInv, ServerStep
    PROVE  NumberedInv'
<1>1. UNCHANGED <<client, waits, sent>> /\ now <= now'
  BY DEF ServerStep
<1>2. ASSUME NEW r \in net' \cup begun'
      PROVE  r.op \in Ops /\ r.n <= sent'[r.c] /\ r.at <= now'
  <2>1. PICK q \in net \cup begun : r.op = q.op /\ r.c = q.c /\ r.n = q.n /\ r.at = q.at
    BY DEF ServerStep, RequestsKept
  <2>2. q.op \in Ops /\ q.n <= sent[q.c] /\ q.at <= now /\ q.at \in Nat
    BY DEF NumberedInv, TypeOK, RequestOK, Requests
  <2> QED BY <1>1, <2>1, <2>2 DEF TypeOK
<1>3. ASSUME NEW a \in Offers' PROVE a.n <= sent'[a.c]
  <2>1. CASE a \in Offers
    BY <1>1, <2>1 DEF NumberedInv
  <2>2. CASE \E r \in net \cup begun : NewOffer(a, r)
    BY <1>1, <2>2 DEF NumberedInv, NewOffer
  <2> QED BY <2>1, <2>2 DEF ServerStep, OffersKept
<1>4. \A a \in answers' : Awaited(a)'
  BY <1>1, SameWaits DEF ServerStep, OffersKept
<1>5. waits' \in [Clients -> SUBSET [n : Nat, op : AllOps]]
  BY <1>1 DEF NumberedInv
<1> QED
  BY <1>2, <1>3, <1>4, <1>5 DEF NumberedInv, ServerStep

LEMMA ServerOwned ==
    ASSUME TypeOK, FenceInv, OwnedInv, ServerStep
    PROVE  OwnedInv'
<1>1. UNCHANGED client
  BY DEF ServerStep
<1>2. ASSUME NEW a \in Offers', NEW b \in Offers', Grants(a), Grants(b), a.id = b.id
      PROVE  a.c = b.c /\ a.n = b.n /\ a.op = b.op
  <2>1. CASE a \in Offers /\ b \in Offers
    BY <1>2, <2>1 DEF OwnedInv
  <2>2. CASE ~(a \in Offers /\ b \in Offers)
    <3>1. PICK r \in net \cup begun : /\ a \in Offers \/ NewOffer(a, r)
                                      /\ b \in Offers \/ NewOffer(b, r)
      BY <2>2 DEF ServerStep, OffersKept
    <3>2. leases \in Nat
      BY DEF TypeOK
    <3>3. ASSUME NEW e \in Offers, Grants(e) PROVE e.id # leases + 1
      <4>1. AnswerOK(e) /\ e.id <= leases
        BY <3>3, OfferKnown, OfferTypes
      <4> QED BY <3>2, <4>1 DEF AnswerOK, Answers
    <3> QED BY <1>2, <2>2, <3>1, <3>3 DEF NewOffer
  <2> QED BY <2>1, <2>2
<1>3. \A a : Grants(a)' <=> Grants(a)
  BY DEF Grants
<1> QED
  BY <1>1, <1>2, <1>3 DEF OwnedInv

LEMMA ServerSpent ==
    ASSUME TypeOK, TypeOK', FenceInv, SpentInv, ServerStep
    PROVE  SpentInv'
<1>1. UNCHANGED <<client, waits>> /\ leases \in Nat /\ leases' >= leases
  BY DEF ServerStep, TypeOK
<1>2. ASSUME NEW r \in net', r.op \in {"renew", "release"} PROVE r \in net /\ r.id <= leases /\ r.id \in Nat
  BY <1>2 DEF ServerStep, RequestsKept, SpentInv, TypeOK, RequestOK, Requests
<1>3. ASSUME NEW a \in Offers', Renewed(a)
      PROVE  a.id <= leases /\ a.id \in Nat /\ \A b \in Offers : Offered(b) => b.id # a.id
  <2>1. CASE a \in Offers
    BY <1>3, <2>1, OfferTypes DEF SpentInv, AnswerOK, Answers
  <2>2. CASE \E r \in net \cup begun : NewOffer(a, r)
    <3>1. PICK r \in net : a.op = r.op /\ a.id = r.id
      BY <1>3, <2>2 DEF NewOffer
    <3>2. r.op = "renew" /\ r.id \in Nat
      BY <1>3, <3>1 DEF Renewed, TypeOK, RequestOK, Requests
    <3> QED BY <3>1, <3>2 DEF SpentInv
  <2> QED BY <2>1, <2>2 DEF ServerStep, OffersKept
<1>4. \A c \in Clients : client[c].live => client[c].id <= leases /\ client[c].id \in Nat
  BY DEF FenceInv, Known, TypeOK, Holdings
<1>5. ASSUME NEW a \in Offers', Offered(a)
      PROVE  /\ \A c \in Clients : client[c].live => client[c].id # a.id
             /\ \A r \in net' : r.op \in {"renew", "release"} => r.id # a.id
             /\ \A b \in Offers' : Renewed(b) => b.id # a.id
  <2>1. CASE a \in Offers
    BY <1>2, <1>3, <1>5, <2>1 DEF SpentInv
  <2>2. CASE \E r \in net \cup begun : NewOffer(a, r)
    <3>1. a.id = leases + 1
      BY <1>5, <2>2 DEF NewOffer, Offered
    <3> QED BY <1>1, <1>2, <1>3, <1>4, <3>1
  <2> QED BY <2>1, <2>2 DEF ServerStep, OffersKept
<1>6. ASSUME NEW r \in net', NEW c \in Clients, client[c].live, client[c].id = r.id
      PROVE  r.op # "release" /\ (r.op = "renew" => r.s = client[c].s)
  BY <1>2, <1>6 DEF SpentInv
<1>7. \A a : (Offered(a)' <=> Offered(a)) /\ (Renewed(a)' <=> Renewed(a))
  BY <1>1, SameWaits DEF Offered, Grants, Renewed
<1>8. /\ \A r \in net' : r.op \in {"renew", "release"} => r.id <= leases'
      /\ \A a \in Offers' : Renewed(a) => a.id <= leases'
  <2>1. leases' \in Nat
    BY DEF TypeOK
  <2> QED BY <1>1, <1>2, <1>3, <2>1
<1> QED
  BY <1>1, <1>5, <1>6, <1>7, <1>8 DEF SpentInv

LEMMA ServerBelief ==
    ASSUME TypeOK, OwnedInv, SpentInv, BeliefInv, ServerStep
    PROVE  BeliefInv'
<1> SUFFICES ASSUME Undisturbed' PROVE
      /\ \A c \in Clients : client'[c].live => ClaimOK(client[c].s, client[c].id, client[c].deadline)'
      /\ \A a \in Offers' : Offered(a) => ClaimOK(a.s, a.id, Deadline(a.at))'
      /\ \A a \in Offers', c \in Clients : Renewed(a) /\ client[c].live /\ client[c].id = a.id =>
           ClaimOK(client[c].s, a.id, Deadline(a.at))'
  <2>1. UNCHANGED <<client, waits>>
    BY DEF ServerStep
  <2>2. \A a : (Offered(a)' <=> Offered(a)) /\ (Renewed(a)' <=> Renewed(a))
    BY <2>1, SameWaits DEF Offered, Grants, Renewed
  <2> QED BY <2>1, <2>2 DEF BeliefInv
<1>1. UNCHANGED <<client, waits>> /\ Undisturbed /\ ClaimsKept
  BY DEF ServerStep
<1>2. ASSUME NEW c \in Clients, client[c].live, NEW d \in Nat,
             ClaimOK(client[c].s, client[c].id, d)
      PROVE  ClaimOK(client[c].s, client[c].id, d)'
  <2>1. client[c].s \in Sessions /\ client[c].id \in Nat \ {0}
    BY <1>2 DEF TypeOK, Holdings, OwnedInv
  <2>2. PICK s \in Sessions, id \in Nat \ {0} : s = client[c].s /\ id = client[c].id
    BY <2>1
  <2>3. Claimed(s, id)
    BY <1>2, <2>2 DEF Claimed
  <2>4. ClaimOK(s, id, d)'
    BY <1>1, <1>2, <2>2, <2>3 DEF ClaimsKept, KeepsClaims
  <2> QED BY <1>1, <2>2, <2>4
<1>3. ASSUME NEW c \in Clients, client'[c].live
      PROVE  ClaimOK(client[c].s, client[c].id, client[c].deadline)'
  <2>1. client[c].live /\ client[c].deadline \in Nat
    BY <1>1, <1>3 DEF TypeOK, Holdings
  <2>2. ClaimOK(client[c].s, client[c].id, client[c].deadline)
    BY <1>1, <2>1 DEF BeliefInv
  <2>3. PICK d \in Nat : d = client[c].deadline
    BY <2>1
  <2>4. ClaimOK(client[c].s, client[c].id, d)'
    BY <1>2, <2>1, <2>2, <2>3
  <2> QED BY <1>1, <2>3, <2>4
<1>4. ASSUME NEW a \in Offers', Offered(a) PROVE ClaimOK(a.s, a.id, Deadline(a.at))'
  <2>1. CASE a \in Offers
    <3>1. AnswerOK(a) /\ a.ok /\ a.id # 0
      BY <1>4, <2>1, OfferTypes DEF Offered, Grants
    <3>2. a.s \in Sessions /\ a.id \in Nat \ {0} /\ Deadline(a.at) \in Nat
      BY <3>1, DeadlineType DEF AnswerOK, Answers
    <3>3. Claimed(a.s, a.id) /\ ClaimOK(a.s, a.id, Deadline(a.at))
      BY <1>1, <1>4, <2>1 DEF Claimed, BeliefInv
    <3>4. PICK d \in Nat : d = Deadline(a.at)
      BY <3>2
    <3>5. ClaimOK(a.s, a.id, d)'
      BY <1>1, <3>2, <3>3, <3>4 DEF ClaimsKept, KeepsClaims
    <3> QED BY <3>4, <3>5 DEF Deadline
  <2>2. CASE \E r \in net \cup begun : NewOffer(a, r)
    BY <1>4, <2>2 DEF NewOffer, Offered
  <2> QED BY <2>1, <2>2 DEF ServerStep, OffersKept
<1>5. ASSUME NEW a \in Offers', NEW c \in Clients, Renewed(a), client[c].live, client[c].id = a.id
      PROVE  ClaimOK(client[c].s, a.id, Deadline(a.at))'
  <2>1. CASE a \in Offers
    <3>1. Deadline(a.at) \in Nat
      BY <2>1, OfferTypes, DeadlineType DEF AnswerOK, Answers
    <3>2. ClaimOK(client[c].s, client[c].id, Deadline(a.at))
      BY <1>1, <1>5, <2>1 DEF BeliefInv
    <3>3. PICK d \in Nat : d = Deadline(a.at)
      BY <3>1
    <3>4. ClaimOK(client[c].s, client[c].id, d)'
      BY <1>2, <1>5, <3>2, <3>3
    <3> QED BY <1>1, <1>5, <3>3, <3>4 DEF Deadline
  <2>2. CASE \E r \in net \cup begun : NewOffer(a, r)
    <3>1. PICK r \in net : a.op = r.op /\ a.id = r.id /\ ClaimOK(r.s, r.id, Deadline(a.at))'
      BY <1>5, <2>2 DEF NewOffer
    <3>2. r.s = client[c].s
      BY <1>5, <3>1 DEF SpentInv, Renewed
    <3> QED BY <1>1, <3>1, <3>2
  <2> QED BY <2>1, <2>2 DEF ServerStep, OffersKept
<1> QED
  BY <1>3, <1>4, <1>5

LEMMA ServerKeeps ==
    ASSUME TypeOK, TypeOK', FenceInv, BelieverInv, ServerStep
    PROVE  BelieverInv'
BY ServerNumbered, ServerOwned, ServerSpent, ServerBelief DEF BelieverInv

-----------------------------------------------------------------------------
(* The clients' steps.                                                     *)

\* A request is sent: no answer there is can be the one it waits for, and a
\* client releases or renews only the lease it has.
Sends(c, r) ==
    /\ Send(c, r) /\ r.c = c /\ r.n = sent[c] + 1 /\ r.at <= now
    /\ \A d \in Clients : client'[d].live => client'[d] = client[d]
    /\ r.op \in {"renew", "release"} => client[c].live /\ r.id = client[c].id
    /\ r.op = "release" => ~client'[c].live
    /\ r.op = "renew" => r.s = client[c].s

LEMMA RequestSends ==
    ASSUME TypeOK, NEW c \in Clients, NEW op, NEW s, NEW e, NEW lease,
           Send(c, Request(c, op, s, e, lease)),
           \A d \in Clients : client'[d].live => client'[d] = client[d],
           op \in {"renew", "release"} => client[c].live,
           op = "release" => ~client'[c].live,
           op = "renew" => s = client[c].s
    PROVE  \E r : Sends(c, r)
<1>1. PICK r : r = Request(c, op, s, e, lease)
  OBVIOUS
<1>2. /\ r.c = c /\ r.n = sent[c] + 1 /\ r.op = op /\ r.s = s /\ r.id = client[c].id
      /\ r.at \in {now, 0}
  BY <1>1 DEF Request
<1>3. r.at <= now
  BY <1>2 DEF TypeOK
<1>4. Send(c, r)
  BY <1>1
<1>5. Sends(c, r)
  BY <1>2, <1>3, <1>4 DEF Sends
<1> QED
  BY <1>5

LEMMA ClientSends ==
    ASSUME TypeOK, NEW c \in Clients,
           \/ \E s \in Sessions : SendAcquire(c, s)
           \/ \E e \in Entries : SendWrite(c, "append", e)
           \/ SendWrite(c, "delete", None)
           \/ SendRenew(c) \/ SendRelease(c)
           \/ \E s \in Sessions \cup {None}, lease \in BOOLEAN : SendCreate(c, s, lease)
    PROVE  \E r : Sends(c, r)
<1>1. ASSUME NEW s \in Sessions, SendAcquire(c, s) PROVE \E r : Sends(c, r)
  BY <1>1, RequestSends DEF SendAcquire
<1>2. ASSUME NEW op \in {"append", "delete"}, NEW e, SendWrite(c, op, e) PROVE \E r : Sends(c, r)
  BY <1>2, RequestSends DEF SendWrite
<1>3. CASE SendRenew(c)
  <2>1. client[c].live
    BY <1>3 DEF SendRenew, TypeOK
  <2> QED BY <1>3, <2>1, RequestSends DEF SendRenew
<1>4. CASE SendRelease(c)
  <2>1. client' = [client EXCEPT ![c] = NoClaim] /\ client[c].live
    BY <1>4 DEF SendRelease
  <2>2. \A d \in Clients : client'[d] = IF d = c THEN NoClaim ELSE client[d]
    BY <2>1 DEF TypeOK
  <2>3. ~client'[c].live /\ \A d \in Clients : client'[d].live => client'[d] = client[d]
    BY <2>2 DEF NoClaim
  <2> QED BY <1>4, <2>1, <2>3, RequestSends DEF SendRelease
<1>5. ASSUME NEW s, NEW lease, SendCreate(c, s, lease) PROVE \E r : Sends(c, r)
  BY <1>5, RequestSends DEF SendCreate
<1> QED
  BY <1>1, <1>2, <1>3, <1>4, <1>5

LEMMA SendKeeps ==
    ASSUME TypeOK, FenceInv, BelieverInv, NEW c \in Clients, NEW r, Sends(c, r)
    PROVE  BelieverInv'
<1>1. /\ UNCHANGED <<now, store, held, idem, begun, answers, leases, landed, limits>>
      /\ net' = net \cup {r} /\ sent' = [sent EXCEPT ![c] = @ + 1]
      /\ waits' = [waits EXCEPT ![c] = @ \cup {[n |-> r.n, op |-> r.op]}]
      /\ r.op \in Ops
  BY DEF Sends, Send
<1>2. /\ r.c = c /\ r.n = sent[c] + 1 /\ r.at <= now
      /\ \A d \in Clients : client'[d].live => client'[d] = client[d]
      /\ r.op \in {"renew", "release"} => client[c].live /\ r.id = client[c].id
      /\ r.op = "release" => ~client'[c].live
      /\ r.op = "renew" => r.s = client[c].s
  BY DEF Sends
<1>3. Offers' = Offers
  BY <1>1 DEF Offers
<1>4. \A d \in Clients : sent'[d] \in Nat /\ sent[d] \in Nat /\ sent'[d] >= sent[d]
  BY <1>1 DEF TypeOK
<1>5. sent'[c] = sent[c] + 1
  BY <1>1 DEF TypeOK
<1>6. /\ waits \in [Clients -> SUBSET [n : Nat, op : AllOps]]
      /\ waits' \in [Clients -> SUBSET [n : Nat, op : AllOps]]
  BY <1>1, <1>2, <1>4, LeaseAssumption DEF BelieverInv, NumberedInv
<1>7. \A d \in Clients :
        waits'[d] = IF d = c THEN waits[d] \cup {[n |-> r.n, op |-> r.op]} ELSE waits[d]
  BY <1>1, <1>6
<1>8. ASSUME NEW a \in Offers PROVE Offered(a)' => Offered(a)
  <2>1. a.c \in Clients /\ a.n \in Nat /\ a.n <= sent[a.c]
    BY OfferTypes DEF AnswerOK, Answers, BelieverInv, NumberedInv
  <2>2. a.c = c => a.n # r.n
    BY <1>2, <1>4, <2>1
  <2>3. [n |-> a.n, op |-> a.op] = [n |-> r.n, op |-> r.op] => a.n = r.n
    OBVIOUS
  <2>4. Awaited(a)' => Awaited(a)
    BY <1>7, <2>1, <2>2, <2>3 DEF Awaited
  <2> QED BY <2>4 DEF Offered, Grants
<1>9. NumberedInv'
  <2>1. ASSUME NEW q \in net \cup begun
        PROVE  q.op \in Ops /\ q.n <= sent'[q.c] /\ q.at <= now
    <3>1. q.c \in Clients /\ q.n \in Nat /\ q.op \in Ops /\ q.n <= sent[q.c] /\ q.at <= now
      BY DEF TypeOK, RequestOK, Requests, BelieverInv, NumberedInv
    <3> QED BY <1>4, <3>1
  <2>2. r.op \in Ops /\ r.n <= sent'[r.c] /\ r.at <= now
    BY <1>1, <1>2, <1>4, <1>5
  <2>3. ASSUME NEW a \in Offers PROVE a.n <= sent'[a.c]
    <3>1. a.c \in Clients /\ a.n \in Nat /\ a.n <= sent[a.c]
      BY OfferTypes DEF AnswerOK, Answers, BelieverInv, NumberedInv
    <3> QED BY <1>4, <3>1
  <2>4. ASSUME NEW a \in answers PROVE Awaited(a)'
    <3>1. a.c \in Clients /\ Awaited(a)
      BY DEF TypeOK, AnswerOK, Answers, BelieverInv, NumberedInv
    <3> QED BY <1>7, <3>1 DEF Awaited
  <2>5. \A s \in Sessions : held'[s].lease.expires <= now' + ttlOf(TTL)
    BY <1>1 DEF BelieverInv, NumberedInv
  <2> QED BY <1>1, <1>3, <1>6, <2>1, <2>2, <2>3, <2>4, <2>5 DEF NumberedInv
<1>10. OwnedInv'
  BY <1>2, <1>3 DEF BelieverInv, OwnedInv, Grants
<1>11. SpentInv'
  <2>1. client[c].live => client[c].id <= leases
    BY DEF FenceInv, Known
  <2>2. \A q \in net' : q.op \in {"renew", "release"} => q.id <= leases'
    BY <1>1, <1>2, <2>1 DEF BelieverInv, SpentInv
  <2>3. ASSUME NEW a \in Offers, Offered(a)
        PROVE  /\ \A d \in Clients : client'[d].live => client'[d].id # a.id
               /\ \A q \in net' : q.op \in {"renew", "release"} => q.id # a.id
               /\ \A b \in Offers : Renewed(b) => b.id # a.id
    BY <1>1, <1>2, <2>3 DEF BelieverInv, SpentInv
  <2>4. ASSUME NEW q \in net', NEW d \in Clients, client'[d].live, client'[d].id = q.id
        PROVE  q.op # "release" /\ (q.op = "renew" => q.s = client'[d].s)
    <3>1. client'[d] = client[d]
      BY <1>2, <2>4
    <3>2. CASE q \in net
      BY <2>4, <3>1, <3>2 DEF BelieverInv, SpentInv
    <3>3. CASE q = r /\ r.op \in {"renew", "release"}
      <4>1. d = c
        BY <1>2, <2>4, <3>1, <3>3 DEF BelieverInv, OwnedInv
      <4> QED BY <1>2, <2>4, <3>1, <3>3, <4>1
    <3> QED BY <1>1, <3>2, <3>3
  <2>5. \A a : Renewed(a)' <=> Renewed(a)
    BY DEF Renewed
  <2>6. \A a \in Offers : Renewed(a) => a.id <= leases'
    BY <1>1 DEF BelieverInv, SpentInv
  <2> QED BY <1>3, <1>8, <2>2, <2>3, <2>4, <2>5, <2>6 DEF SpentInv
<1>12. BeliefInv'
  <2>1. \A s, id, d : ClaimOK(s, id, d)' <=> ClaimOK(s, id, d)
    BY <1>1 DEF ClaimOK
  <2>2. SUFFICES ASSUME Undisturbed
        PROVE  /\ \A d \in Clients : client'[d].live =>
                    ClaimOK(client'[d].s, client'[d].id, client'[d].deadline)
               /\ \A a \in Offers : Offered(a)' => ClaimOK(a.s, a.id, Deadline(a.at))
               /\ \A a \in Offers, d \in Clients :
                    Renewed(a) /\ client'[d].live /\ client'[d].id = a.id =>
                      ClaimOK(client'[d].s, a.id, Deadline(a.at))
    BY <1>1, <1>3, <2>1 DEF BeliefInv, Undisturbed, Renewed, Deadline, ClaimOK
  <2> QED BY <1>2, <1>8, <2>2 DEF BelieverInv, BeliefInv
<1> QED
  BY <1>9, <1>10, <1>11, <1>12 DEF BelieverInv

\* A client stops waiting: what it waits for, and what is on its way to it,
\* shrinks.
LEMMA GiveUpKeeps ==
    ASSUME TypeOK, BelieverInv, NEW c \in Clients, GiveUp(c)
    PROVE  BelieverInv'
<1>1. PICK w \in waits[c] : /\ waits' = [waits EXCEPT ![c] = @ \ {w}]
                            /\ answers' = {a \in answers : a.c # c \/ a.n # w.n}
  BY DEF GiveUp
<1>2. UNCHANGED <<now, store, held, idem, begun, net, client, sent, leases, landed, limits>>
  BY DEF GiveUp
<1>3. waits \in [Clients -> SUBSET [n : Nat, op : AllOps]]
  BY DEF BelieverInv, NumberedInv
<1>4. /\ waits' \in [Clients -> SUBSET [n : Nat, op : AllOps]]
      /\ \A d \in Clients : waits'[d] = IF d = c THEN waits[d] \ {w} ELSE waits[d]
  BY <1>1, <1>3
<1>5. \A a \in Offers' : a \in Offers
  BY <1>1, <1>2, OfferMembers
<1>6. \A a \in Offers : (Offered(a)' => Offered(a)) /\ (Renewed(a)' <=> Renewed(a))
  BY <1>4, OfferTypes DEF Offered, Awaited, Grants, Renewed, AnswerOK, Answers
<1>7. ASSUME NEW a \in answers' PROVE Awaited(a)'
  <2>1. a \in answers /\ (a.c # c \/ a.n # w.n) /\ a.c \in Clients
    BY <1>1 DEF TypeOK, AnswerOK, Answers
  <2>2. Awaited(a)
    BY <2>1 DEF BelieverInv, NumberedInv
  <2>3. a.n # w.n => [n |-> a.n, op |-> a.op] # w
    OBVIOUS
  <2> QED BY <1>4, <2>1, <2>2, <2>3 DEF Awaited
<1>8. NumberedInv'
  BY <1>2, <1>4, <1>5, <1>7 DEF BelieverInv, NumberedInv
<1>9. OwnedInv'
  BY <1>2, <1>5 DEF BelieverInv, OwnedInv, Grants
<1>10. SpentInv'
  BY <1>2, <1>5, <1>6 DEF BelieverInv, SpentInv
<1>11. BeliefInv'
  <2>1. \A s, id, d : ClaimOK(s, id, d)' <=> ClaimOK(s, id, d)
    BY <1>2 DEF ClaimOK
  <2> QED BY <1>2, <1>5, <1>6, <2>1 DEF BelieverInv, BeliefInv, Undisturbed, Deadline, ClaimOK
<1> QED
  BY <1>8, <1>9, <1>10, <1>11 DEF BelieverInv

\* What an answer makes of its client's lease: that on offer, the same one
\* with a later deadline, the same one, or none.
LEMMA ClaimFrom4 ==
    ASSUME TypeOK, NEW a \in answers, NEW p, p = Claim(a.c, a), p.live
    PROVE  \/ Grants(a) /\ p.s = a.s /\ p.id = a.id /\ p.deadline = Deadline(a.at)
           \/ /\ client[a.c].live /\ p.s = client[a.c].s /\ p.id = client[a.c].id /\ ~Grants(a)
              /\ \/ p.deadline = client[a.c].deadline
                 \/ Renewed(a) /\ client[a.c].id = a.id /\ p.deadline = Deadline(a.at)
<1>1. a.c \in Clients /\ client[a.c] \in Holdings
  BY DEF TypeOK, AnswerOK, Answers
<1>2. CASE a.ok /\ a.op \in {"acquire", "create"} /\ a.id # 0
  BY <1>2 DEF Claim, Grants
<1>3. CASE a.ok /\ a.op = "renew" /\ client[a.c].live /\ client[a.c].id = a.id
  BY <1>1, <1>3 DEF Claim, Grants, Renewed, Holdings
<1>4. CASE ~a.ok /\ a.op = "renew" /\ client[a.c].id = a.id
  BY <1>1, <1>4 DEF Claim, Grants, Holdings
<1>5. CASE a.ok /\ a.op = "delete"
  <2>1. p = NoClaim
    BY <1>5 DEF Claim
  <2> QED BY <2>1 DEF NoClaim
<1>6. CASE /\ ~(a.ok /\ a.op \in {"acquire", "create"} /\ a.id # 0)
           /\ ~(a.ok /\ a.op = "renew" /\ client[a.c].live /\ client[a.c].id = a.id)
           /\ ~(~a.ok /\ a.op = "renew" /\ client[a.c].id = a.id)
           /\ ~(a.ok /\ a.op = "delete")
  <2>1. p = client[a.c]
    BY <1>6 DEF Claim
  <2> QED BY <1>6, <2>1 DEF Grants
<1> QED
  BY <1>2, <1>3, <1>4, <1>5, <1>6

LEMMA ReceiveKeeps ==
    ASSUME TypeOK, BelieverInv, NEW a \in answers, Receive(a)
    PROVE  BelieverInv'
<1>1. /\ answers' = {b \in answers : b.c # a.c \/ b.n # a.n}
      /\ waits' = [waits EXCEPT ![a.c] = @ \ {[n |-> a.n, op |-> a.op]}]
      /\ client' = [client EXCEPT ![a.c] = Claim(a.c, a)]
      /\ UNCHANGED <<now, store, held, idem, begun, net, sent, leases, landed, limits>>
  BY DEF Receive
<1>2. a.c \in Clients /\ AnswerOK(a) /\ a \in Offers
  BY OfferMembers DEF TypeOK, AnswerOK, Answers
<1>3. waits \in [Clients -> SUBSET [n : Nat, op : AllOps]]
  BY DEF BelieverInv, NumberedInv
<1>4. /\ waits' \in [Clients -> SUBSET [n : Nat, op : AllOps]]
      /\ \A d \in Clients :
           waits'[d] = IF d = a.c THEN waits[d] \ {[n |-> a.n, op |-> a.op]} ELSE waits[d]
  BY <1>1, <1>2, <1>3
<1>5. \A d \in Clients : client'[d] = IF d = a.c THEN Claim(a.c, a) ELSE client[d]
  BY <1>1, <1>2 DEF TypeOK
<1>6. \A b \in Offers' : b \in Offers
  BY <1>1, OfferMembers
<1>7. \A b \in Offers : (Offered(b)' => Offered(b)) /\ (Renewed(b)' <=> Renewed(b))
  BY <1>4, OfferTypes DEF Offered, Awaited, Grants, Renewed, AnswerOK, Answers
<1>8. Grants(a) => Offered(a)
  BY DEF Offered, BelieverInv, NumberedInv
<1>9. ASSUME NEW d \in Clients, client'[d].live
      PROVE  \/ /\ client[d].live /\ client'[d].s = client[d].s /\ client'[d].id = client[d].id
                /\ \/ client'[d].deadline = client[d].deadline
                   \/ Renewed(a) /\ client[d].id = a.id /\ client'[d].deadline = Deadline(a.at)
             \/ /\ d = a.c /\ Grants(a) /\ client'[d].s = a.s /\ client'[d].id = a.id
                /\ client'[d].deadline = Deadline(a.at)
  <2>1. CASE d # a.c
    BY <1>5, <1>9, <2>1
  <2>2. CASE d = a.c
    <3>1. PICK p : p = Claim(a.c, a)
      OBVIOUS
    <3>2. client'[d] = p
      BY <1>5, <2>2, <3>1
    <3> QED BY <1>9, <2>2, <3>1, <3>2, ClaimFrom4
  <2> QED BY <2>1, <2>2
\* The lease just taken is on offer no more.
<1>10. ASSUME NEW b \in Offers, Offered(b)', Grants(a) PROVE b.id # a.id
  <2>1. Offered(b) /\ Grants(b)
    BY <1>7, <1>10 DEF Offered
  <2>2. b.id = a.id => b.c = a.c /\ b.n = a.n /\ b.op = a.op
    BY <1>2, <1>10, <2>1 DEF BelieverInv, OwnedInv
  <2>3. b.id = a.id => ~Awaited(b)'
    BY <1>2, <1>4, <2>2 DEF Awaited
  <2> QED BY <1>10, <2>3 DEF Offered
<1>11. NumberedInv'
  <2>1. ASSUME NEW b \in answers' PROVE Awaited(b)'
    <3>1. b \in answers /\ (b.c # a.c \/ b.n # a.n) /\ b.c \in Clients
      BY <1>1 DEF TypeOK, AnswerOK, Answers
    <3>2. Awaited(b)
      BY <3>1 DEF BelieverInv, NumberedInv
    <3>3. b.n # a.n => [n |-> b.n, op |-> b.op] # [n |-> a.n, op |-> a.op]
      OBVIOUS
    <3> QED BY <1>4, <3>1, <3>2, <3>3 DEF Awaited
  <2> QED BY <1>1, <1>4, <1>6, <2>1 DEF BelieverInv, NumberedInv
<1>12. OwnedInv'
  <2>1. \A b, e \in Offers' : Grants(b) /\ Grants(e) /\ b.id = e.id => b.c = e.c /\ b.n = e.n /\ b.op = e.op
    BY <1>6 DEF BelieverInv, OwnedInv
  <2>2. \A d \in Clients : client'[d].live => client'[d].id # 0
    BY <1>9 DEF BelieverInv, OwnedInv, Grants
  <2>3. \A d, e \in Clients : client'[d].live /\ client'[e].live /\ client'[d].id = client'[e].id => d = e
    BY <1>2, <1>8, <1>9 DEF BelieverInv, OwnedInv, SpentInv
  <2> QED BY <2>1, <2>2, <2>3 DEF OwnedInv, Grants
<1>13. SpentInv'
  <2>1. ASSUME NEW b \in Offers, Offered(b)'
        PROVE  /\ \A d \in Clients : client'[d].live => client'[d].id # b.id
               /\ \A r \in net : r.op \in {"renew", "release"} => r.id # b.id
               /\ \A e \in Offers : Renewed(e) => e.id # b.id
    BY <1>7, <1>9, <1>10, <2>1 DEF BelieverInv, SpentInv
  <2>2. ASSUME NEW r \in net, NEW d \in Clients, client'[d].live, client'[d].id = r.id
        PROVE  r.op # "release" /\ (r.op = "renew" => r.s = client'[d].s)
    BY <1>2, <1>8, <1>9, <2>2 DEF BelieverInv, SpentInv
  <2> QED BY <1>1, <1>6, <1>7, <2>1, <2>2 DEF BelieverInv, SpentInv
<1>14. BeliefInv'
  <2>1. \A s, id, d : ClaimOK(s, id, d)' <=> ClaimOK(s, id, d)
    BY <1>1 DEF ClaimOK
  <2>2. SUFFICES ASSUME Undisturbed
        PROVE  /\ \A d \in Clients : client'[d].live =>
                    ClaimOK(client'[d].s, client'[d].id, client'[d].deadline)
               /\ \A b \in Offers : Offered(b)' => ClaimOK(b.s, b.id, Deadline(b.at))
               /\ \A b \in Offers, d \in Clients :
                    Renewed(b) /\ client'[d].live /\ client'[d].id = b.id =>
                      ClaimOK(client'[d].s, b.id, Deadline(b.at))
    BY <1>1, <1>6, <2>1 DEF BeliefInv, Undisturbed, Renewed, Deadline, ClaimOK
  <2>3. ASSUME NEW d \in Clients, client'[d].live
        PROVE  ClaimOK(client'[d].s, client'[d].id, client'[d].deadline)
    BY <1>2, <1>8, <1>9, <2>2, <2>3 DEF BelieverInv, BeliefInv
  <2>4. \A b \in Offers : Offered(b)' => ClaimOK(b.s, b.id, Deadline(b.at))
    BY <1>7, <2>2 DEF BelieverInv, BeliefInv
  <2>5. ASSUME NEW b \in Offers, NEW d \in Clients, Renewed(b), client'[d].live, client'[d].id = b.id
        PROVE  ClaimOK(client'[d].s, b.id, Deadline(b.at))
    BY <1>2, <1>8, <1>9, <2>2, <2>5 DEF BelieverInv, BeliefInv, SpentInv
  <2> QED BY <2>3, <2>4, <2>5
<1> QED
  BY <1>11, <1>12, <1>13, <1>14 DEF BelieverInv

-----------------------------------------------------------------------------
(* The handlers' steps are the server's.                                   *)

LEMMA RequestsGo == ASSUME net' \subseteq net, begun' \subseteq begun PROVE RequestsKept
BY DEF RequestsKept

LEMMA RefusalOffer == ASSUME NEW r PROVE NewOffer(Refusal(r), r)
BY DEF NewOffer, Refusal, Answer, Grants, Renewed

LEMMA PlainOffer ==
    ASSUME NEW r, NEW s, r.op # "renew" PROVE NewOffer(Answer(r, TRUE, s, 0, 0), r)
BY DEF NewOffer, Answer, Grants, Renewed

LEMMA ReplyOffers ==
    ASSUME NumberedInv, NEW r \in net \cup begun, NEW b, NewOffer(b, r), Reply(b), UNCHANGED idem
    PROVE  OffersKept
<1>1. \A a \in answers' : (a \in answers \/ a = b) /\ Awaited(a)
  BY DEF Reply, NumberedInv
<1>2. \A a \in Offers' : a \in Offers \/ NewOffer(a, r)
  BY <1>1, OfferMembers
<1> QED
  BY <1>1, <1>2 DEF OffersKept

LEMMA KeptOffers ==
    ASSUME NumberedInv, NEW r \in net \cup begun, NEW b, NewOffer(b, r), AnswerKept(r, b)
    PROVE  OffersKept
<1>1. \A a \in answers' : (a \in answers \/ a = b) /\ Awaited(a)
  BY DEF AnswerKept, Reply, NumberedInv
<1>2. \A k \in idem' : k \in idem \/ k.answer = b
  <2>1. [key |-> KeyOf(r), answer |-> b, at |-> now].answer = b
    OBVIOUS
  <2> QED BY <2>1 DEF AnswerKept
<1>3. \A a \in Offers' : a \in Offers \/ NewOffer(a, r)
  BY <1>1, <1>2, OfferMembers
<1> QED
  BY <1>1, <1>3 DEF OffersKept

\* A lease that is not current is claimed by nobody who may still act on it;
\* so it can be ended, or another granted.
LEMMA EndKeeps ==
    ASSUME TypeOK, NEW s \in Sessions, ~Current(s), held'[s].lease.id = 0,
           UNCHANGED <<now, landed>>, "delete" \in Ops => store'[s].exists = store[s].exists
    PROVE  KeepsClaims(s)
<1> SUFFICES ASSUME NEW id \in Nat \ {0}, NEW d \in Nat, ClaimOK(s, id, d) PROVE ClaimOK(s, id, d)'
  BY DEF KeepsClaims
<1>1. now \in Nat /\ held[s].lease.expires \in Nat
  BY DEF TypeOK, HeldStates
<1> QED
  BY <1>1 DEF ClaimOK, Current

LEMMA GrantKeeps ==
    ASSUME TypeOK, NEW s \in Sessions, ~Current(s), UNCHANGED now,
           "delete" \in Ops => store[s].exists
    PROVE  KeepsClaims(s)
<1> SUFFICES ASSUME NEW id \in Nat \ {0}, NEW d \in Nat, ClaimOK(s, id, d) PROVE ClaimOK(s, id, d)'
  BY DEF KeepsClaims
<1>1. now \in Nat /\ held[s].lease.expires \in Nat
  BY DEF TypeOK, HeldStates
<1> QED
  BY <1>1 DEF ClaimOK, Current

\* A session whose lease keeps its ID and loses no time keeps its claims.
LEMMA SameKeeps ==
    ASSUME TypeOK, TypeOK', NEW s \in Sessions, held'[s].lease.id = held[s].lease.id,
           held[s].lease.expires <= held'[s].lease.expires, now <= now',
           store'[s].exists = store[s].exists, held[s].lease.id = 0 => landed'[s] = landed[s]
    PROVE  KeepsClaims(s)
<1> SUFFICES ASSUME NEW id \in Nat \ {0}, NEW d \in Nat, ClaimOK(s, id, d) PROVE ClaimOK(s, id, d)'
  BY DEF KeepsClaims
<1>1. now \in Nat /\ now' \in Nat /\ held[s].lease.expires \in Nat /\ held'[s].lease.expires \in Nat
  BY DEF TypeOK, HeldStates
<1> QED
  BY <1>1 DEF ClaimOK

\* A handler on session s.
LEMMA HandlerServes ==
    ASSUME TypeOK, TypeOK', NumberedInv, NEW s \in Sessions, NEW h, NEW x,
           held' = [held EXCEPT ![s] = h], store' = [store EXCEPT ![s] = x],
           UNCHANGED <<now, client, waits, sent, limits>>, leases <= leases',
           \A z \in Sessions \ {s} : landed'[z] = landed[z],
           net' \subseteq net, begun' \subseteq begun, OffersKept,
           h.lease.expires <= now + ttlOf(TTL), KeepsClaims(s)
    PROVE  ServerStep
<1>1. \A z \in Sessions : /\ held'[z] = IF z = s THEN h ELSE held[z]
                          /\ store'[z] = IF z = s THEN x ELSE store[z]
  BY DEF TypeOK
<1>2. \A z \in Sessions : held[z].lease.expires \in Nat /\ now \in Nat
  BY DEF TypeOK, HeldStates
<1>3. ASSUME NEW z \in Sessions \ {s} PROVE KeepsClaims(z)
  BY <1>1, <1>2, SameKeeps
<1>4. ClaimsKept
  BY <1>3 DEF ClaimsKept
<1>5. \A z \in Sessions : held'[z].lease.expires <= now' + ttlOf(TTL)
  BY <1>1 DEF NumberedInv
<1>6. now <= now' /\ (Undisturbed' => Undisturbed)
  BY DEF Undisturbed, TypeOK
<1> QED
  BY <1>4, <1>5, <1>6, RequestsGo DEF ServerStep

\* A step that touches no lease.
LEMMA QuietServes ==
    ASSUME TypeOK, TypeOK', NumberedInv, UNCHANGED <<client, waits, sent, limits, leases, landed>>,
           now <= now', RequestsKept, OffersKept,
           \A z \in Sessions : /\ held'[z].lease.id = held[z].lease.id
                               /\ held'[z].lease.expires = held[z].lease.expires
                               /\ store'[z].exists = store[z].exists
    PROVE  ServerStep
<1>1. \A z \in Sessions : held[z].lease.expires \in Nat /\ now \in Nat /\ now' \in Nat
  BY DEF TypeOK, HeldStates
<1>2. ClaimsKept
  BY <1>1, SameKeeps DEF ClaimsKept
<1>3. \A z \in Sessions : held'[z].lease.expires <= now' + ttlOf(TTL)
  <2>1. ttlOf(TTL) \in Nat
    BY LeaseAssumption DEF ttlOf
  <2> QED BY <1>1, <2>1 DEF NumberedInv
<1>4. leases <= leases'
  BY DEF TypeOK
<1> QED
  BY <1>2, <1>3, <1>4 DEF ServerStep, Undisturbed

LEMMA RefuseServes ==
    ASSUME TypeOK, TypeOK', NumberedInv, NEW r \in net \cup begun, Refuse(r),
           net' \subseteq net, begun' \subseteq begun, UNCHANGED <<now, client, waits, sent, limits, idem>>
    PROVE  ServerStep
<1>1. OffersKept
  BY RefusalOffer, ReplyOffers DEF Refuse
<1>2. UNCHANGED <<store, held, leases, landed>> /\ now <= now'
  BY DEF Refuse, TypeOK
<1> QED
  BY <1>1, <1>2, QuietServes, RequestsGo

\* The lease a handler grants outlives its client's deadline.
LEMMA GrantOffer ==
    ASSUME TypeOK, NumberedInv, TTL <= MaxTTL, 0 < Margin, NEW r \in net \cup begun,
           NEW s \in Sessions, NEW h, NEW x, held' = [held EXCEPT ![s] = h], h = Granted(held[s], x),
           leases' = leases + 1, UNCHANGED now, r.op # "renew",
           NEW b, b = Answer(r, TRUE, s, leases + 1, nextToken(held[s].token))
    PROVE  /\ NewOffer(b, r)
           /\ h.lease.expires <= now + ttlOf(TTL)
<1>1. h.lease.id = leases + 1 /\ h.lease.expires = now + ttlOf(TTL)
  BY DEF Granted
<1>2. held'[s] = h
  BY DEF TypeOK
<1>3. r.at \in Nat /\ r.at <= now /\ now \in Nat
  BY DEF TypeOK, RequestOK, Requests, NumberedInv
<1>4. Deadline(r.at) < now + ttlOf(TTL) /\ now + ttlOf(TTL) \in Nat
  BY <1>3, LeaseAssumption DEF Deadline, ttlOf
<1>5. /\ b.c = r.c /\ b.n = r.n /\ b.op = r.op /\ b.at = r.at /\ b.s = s
      /\ b.id = leases + 1
  BY DEF Answer
<1>6. held'[b.s].lease.id = b.id /\ Deadline(b.at) < held'[b.s].lease.expires
  BY <1>1, <1>2, <1>4, <1>5
<1>7. ClaimOK(b.s, b.id, Deadline(b.at))'
  BY <1>6 DEF ClaimOK, Deadline
<1>8. NewOffer(b, r)
  <2>1. ~Renewed(b)
    BY <1>5 DEF Renewed
  <2> QED BY <1>5, <1>7, <2>1, Zenon DEF NewOffer
<1>9. h.lease.expires <= now + ttlOf(TTL)
  BY <1>1, <1>4
<1> QED
  BY <1>8, <1>9, Zenon

LEMMA EndedExpires ==
    ASSUME TypeOK, NEW h \in HeldStates
    PROVE  Ended(h).lease.id = 0 /\ Ended(h).lease.expires <= now + ttlOf(TTL)
<1>1. Ended(h).lease = NoLease
  BY EndedType
<1>2. now + ttlOf(TTL) \in Nat
  BY LeaseTimes DEF TypeOK
<1> QED
  BY <1>1, <1>2 DEF NoLease

LEMMA SameExists ==
    ASSUME NEW x \in Stored
    PROVE  Released(x).exists = x.exists /\ Opened(x).exists = x.exists
BY DEF Released, Opened, Stored

LEMMA AcquireServes ==
    ASSUME TypeOK, TypeOK', NumberedInv, TTL <= MaxTTL, 0 < Margin, NEW r \in net, Acquire(r)
    PROVE  ServerStep
<1> DEFINE s == r.s
           x == IF held[s].lease.id # 0 THEN Released(store[s]) ELSE store[s]
<1>1. s \in Sessions /\ net' \subseteq net /\ r.op = "acquire" /\ begun' \subseteq begun
  BY HandleNet DEF Acquire
<1>2. held[s] \in HeldStates /\ store[s] \in Stored /\ x \in Stored /\ x.exists = store[s].exists
  BY <1>1, SessionTypes, StoredTypes, SameExists
<1>3. UNCHANGED <<now, idem, client, waits, sent, limits>>
  BY DEF Acquire
<1>4. CASE Current(s)
  <2>1. Refuse(r)
    BY <1>4 DEF Acquire
  <2> QED BY <1>1, <1>3, <2>1, RefuseServes
<1>5. CASE ~Current(s) /\ (~x.exists \/ x.by = "other")
  <2>1. /\ store' = [store EXCEPT ![s] = x] /\ held' = [held EXCEPT ![s] = Ended(held[s])]
        /\ Reply(Refusal(r)) /\ UNCHANGED <<leases, landed>>
    BY <1>5 DEF Acquire
  <2> HIDE DEF x
  <2>2. OffersKept
    BY <1>3, <2>1, RefusalOffer, ReplyOffers
  <2>3. held'[s] = Ended(held[s]) /\ store'[s] = x
    BY <1>1, <2>1 DEF TypeOK
  <2>4. held'[s].lease.id = 0 /\ Ended(held[s]).lease.expires <= now + ttlOf(TTL)
    BY <1>2, <2>3, EndedExpires
  <2>5. KeepsClaims(s)
    BY <1>1, <1>2, <1>3, <1>5, <2>1, <2>3, <2>4, EndKeeps
  <2>6. leases <= leases'
    BY <2>1 DEF TypeOK
  <2> QED
    BY <1>1, <1>3, <2>1, <2>2, <2>4, <2>5, <2>6, HandlerServes
<1>6. CASE ~Current(s) /\ ~(~x.exists \/ x.by = "other")
  <2>1. /\ store' = [store EXCEPT ![s] = Opened(x)]
        /\ held' = [held EXCEPT ![s] = Granted(held[s], Opened(x))]
        /\ leases' = leases + 1 /\ UNCHANGED landed
        /\ Reply(Answer(r, TRUE, s, leases + 1, nextToken(held[s].token)))
    BY <1>6 DEF Acquire
  <2> HIDE DEF x
  <2>2. PICK h : h = Granted(held[s], Opened(x))
    OBVIOUS
  <2>3. held' = [held EXCEPT ![s] = h]
    BY <2>1, <2>2
  <2>4. PICK b : b = Answer(r, TRUE, s, leases + 1, nextToken(held[s].token))
    OBVIOUS
  <2>5. NewOffer(b, r) /\ h.lease.expires <= now + ttlOf(TTL)
    BY <1>1, <1>3, <2>1, <2>2, <2>3, <2>4, GrantOffer
  <2>6. OffersKept
    BY <1>3, <2>1, <2>4, <2>5, ReplyOffers
  <2>7. KeepsClaims(s)
    BY <1>1, <1>2, <1>3, <1>6, GrantKeeps
  <2>8. leases <= leases'
    BY <2>1 DEF TypeOK
  <2> QED
    BY <1>1, <1>3, <2>1, <2>3, <2>5, <2>6, <2>7, <2>8, HandlerServes
<1> QED
  BY <1>4, <1>5, <1>6

LEMMA RenewServes ==
    ASSUME TypeOK, TypeOK', NumberedInv, TTL <= MaxTTL, 0 < Margin, NEW r \in net, Renew(r)
    PROVE  ServerStep
<1> DEFINE s == r.s
           until == now + ttlOf(TTL)
           h == [held[s] EXCEPT !.lease = [held[s].lease EXCEPT !.expires = until, !.timer = until]]
<1>1. s \in Sessions /\ net' \subseteq net /\ r.op = "renew" /\ begun' \subseteq begun
  BY HandleNet DEF Renew
<1>2. held[s] \in HeldStates /\ store[s] \in Stored /\ until \in Nat
  BY <1>1, SessionTypes, LeaseTimes DEF TypeOK
<1>3. UNCHANGED <<now, idem, client, waits, sent, limits>>
  BY DEF Renew
<1>4. CASE ~(Current(s) /\ held[s].lease.id = r.id)
  <2>1. Refuse(r)
    BY <1>4 DEF Renew
  <2> QED BY <1>1, <1>3, <2>1, RefuseServes
<1>5. CASE Current(s) /\ held[s].lease.id = r.id
  <2>1. /\ held' = [held EXCEPT ![s] = h] /\ UNCHANGED <<store, leases, landed>>
        /\ Reply(Answer(r, TRUE, s, r.id, r.token))
    BY <1>5 DEF Renew
  <2>2. h.lease.id = held[s].lease.id /\ h.lease.expires = until
    BY <1>2 DEF HeldStates
  <2> HIDE DEF h
  <2>3. held'[s] = h /\ store' = [store EXCEPT ![s] = store[s]]
    BY <1>1, <2>1 DEF TypeOK
  <2>4. r.at \in Nat /\ r.at <= now /\ now \in Nat
    BY DEF TypeOK, RequestOK, Requests, NumberedInv
  <2>5. Deadline(r.at) < until
    BY <2>4, LeaseAssumption DEF Deadline, ttlOf
  <2>6. ClaimOK(s, r.id, Deadline(r.at))'
    BY <1>5, <2>2, <2>3, <2>5 DEF ClaimOK, Deadline
  <2>7. NewOffer(Answer(r, TRUE, s, r.id, r.token), r)
    BY <1>1, <2>6 DEF NewOffer, Answer, Grants
  <2>8. OffersKept
    BY <1>3, <2>1, <2>7, ReplyOffers
  <2>9. held[s].lease.expires <= until /\ now <= now' /\ leases <= leases'
    BY <1>1, <1>3, <2>1, <2>4 DEF NumberedInv, TypeOK
  <2>10. KeepsClaims(s)
    BY <1>1, <2>1, <2>2, <2>3, <2>9, SameKeeps
  <2>11. h.lease.expires <= now + ttlOf(TTL)
    BY <1>2, <2>2
  <2>12. \A z \in Sessions \ {s} : landed'[z] = landed[z]
    BY <2>1
  <2> QED
    BY <1>1, <1>3, <2>1, <2>3, <2>8, <2>9, <2>10, <2>11, <2>12, HandlerServes
<1> QED
  BY <1>4, <1>5

\* Only a lease nobody claims is released.
LEMMA ReleaseServes ==
    ASSUME TypeOK, TypeOK', NumberedInv, SpentInv, NEW r \in net, Release(r)
    PROVE  ServerStep
<1> DEFINE s == r.s
<1>1. s \in Sessions /\ net' \subseteq net /\ r.op = "release" /\ begun' \subseteq begun
  BY HandleNet DEF Release
<1>2. held[s] \in HeldStates /\ store[s] \in Stored /\ Released(store[s]).exists = store[s].exists
  BY <1>1, SessionTypes, SameExists
<1>3. UNCHANGED <<now, idem, client, waits, sent, limits>>
  BY DEF Release
<1>4. CASE held[s].lease.id # r.id
  <2>1. Refuse(r)
    BY <1>4 DEF Release
  <2> QED BY <1>1, <1>3, <2>1, RefuseServes
<1>5. CASE held[s].lease.id = r.id
  <2>1. /\ held' = [held EXCEPT ![s] = Ended(held[s])]
        /\ store' = [store EXCEPT ![s] = Released(store[s])]
        /\ Reply(Answer(r, TRUE, s, 0, 0)) /\ UNCHANGED <<leases, landed>>
    BY <1>5 DEF Release
  <2>2. OffersKept
    BY <1>1, <1>3, <2>1, PlainOffer, ReplyOffers
  <2>3. held'[s] = Ended(held[s]) /\ store'[s].exists = store[s].exists
    BY <1>1, <1>2, <2>1 DEF TypeOK
  <2>4. held'[s].lease.id = 0 /\ Ended(held[s]).lease.expires <= now + ttlOf(TTL)
    BY <1>2, <2>3, EndedExpires
  <2>5. KeepsClaims(s)
    <3>1. ASSUME NEW id \in Nat \ {0}, NEW d \in Nat, Claimed(s, id), ClaimOK(s, id, d)
          PROVE  ClaimOK(s, id, d)'
      <4>1. id # r.id
        BY <1>1, <3>1 DEF Claimed, SpentInv
      <4> QED BY <1>3, <1>5, <2>1, <2>3, <2>4, <3>1, <4>1 DEF ClaimOK
    <3> QED BY <3>1 DEF KeepsClaims
  <2>6. leases <= leases'
    BY <2>1 DEF TypeOK
  <2> QED
    BY <1>1, <1>3, <2>1, <2>2, <2>4, <2>5, <2>6, HandlerServes
<1> QED
  BY <1>4, <1>5

LEMMA AppendServes ==
    ASSUME TypeOK, TypeOK', FenceInv, NumberedInv, NEW r \in net, Append(r)
    PROVE  ServerStep
<1> DEFINE s == r.s
           x == [Opened(store[s]) EXCEPT !.log = Opened(store[s]).log \cup {r.entry}]
<1>1. s \in Sessions /\ net' \subseteq net /\ r.op = "append" /\ begun' \subseteq begun
  BY HandleNet DEF Append
<1>2. /\ held[s] \in HeldStates /\ store[s] \in Stored /\ Opened(store[s]) \in Stored
      /\ Opened(store[s]).exists = store[s].exists
  BY <1>1, SessionTypes, StoredTypes, SameExists
<1>3. UNCHANGED <<now, idem, client, waits, sent, limits>>
  BY DEF Append
<1>4. CASE ~(Fenced(r) /\ store[s].exists /\ store[s].by # "other")
  <2>1. Refuse(r)
    BY <1>4 DEF Append
  <2> QED BY <1>1, <1>3, <2>1, RefuseServes
<1>5. CASE Fenced(r) /\ store[s].exists /\ store[s].by # "other"
  <2>1. /\ store' = [store EXCEPT ![s] = x] /\ landed' = [landed EXCEPT ![s] = r.id]
        /\ Reply(Answer(r, TRUE, s, 0, 0)) /\ UNCHANGED <<held, leases>>
    BY <1>5 DEF Append
  <2>2. x.exists = store[s].exists
    BY <1>2 DEF Stored
  <2> HIDE DEF x
  <2>3. OffersKept
    BY <1>1, <1>3, <2>1, PlainOffer, ReplyOffers
  <2>4. held' = [held EXCEPT ![s] = held[s]] /\ store'[s] = x
    BY <1>1, <2>1 DEF TypeOK
  <2>5. held[s].lease.id # 0
    BY <1>1, <1>5, FencedByLease
  <2>6. /\ held[s].lease.expires <= now + ttlOf(TTL) /\ now <= now' /\ leases <= leases'
        /\ held[s].lease.expires <= held'[s].lease.expires /\ held'[s].lease.id = held[s].lease.id
    BY <1>1, <1>2, <1>3, <2>1 DEF NumberedInv, TypeOK, HeldStates
  <2>7. KeepsClaims(s)
    BY <1>1, <2>2, <2>4, <2>5, <2>6, SameKeeps
  <2>8. \A z \in Sessions \ {s} : landed'[z] = landed[z]
    BY <2>1 DEF TypeOK
  <2> QED
    BY <1>1, <1>3, <2>1, <2>3, <2>4, <2>6, <2>7, <2>8, HandlerServes
<1> QED
  BY <1>4, <1>5

\* A deletion ends the lease it was made under, and no other.
LEMMA DeleteServes ==
    ASSUME TypeOK, TypeOK', FenceInv, NumberedInv, NEW r \in net, Delete(r)
    PROVE  ServerStep
<1> DEFINE s == r.s
           x == [store[s] EXCEPT !.exists = FALSE, !.by = "none", !.log = {}, !.hdr = None]
<1>1. s \in Sessions /\ net' \subseteq net /\ r.op = "delete" /\ begun' \subseteq begun
  BY HandleNet DEF Delete
<1>2. held[s] \in HeldStates /\ store[s] \in Stored /\ landed \in [Sessions -> Nat]
  BY <1>1, SessionTypes DEF TypeOK
<1>3. UNCHANGED <<now, idem, client, waits, sent, limits>>
  BY DEF Delete
<1>4. CASE ~(Fenced(r) /\ store[s].exists /\ store[s].by # "other")
  <2>1. Refuse(r)
    BY <1>4 DEF Delete
  <2> QED BY <1>1, <1>3, <2>1, RefuseServes
<1>5. CASE Fenced(r) /\ store[s].exists /\ store[s].by # "other"
  <2>1. /\ store' = [store EXCEPT ![s] = x] /\ landed' = [landed EXCEPT ![s] = r.id]
        /\ held' = [held EXCEPT ![s] = Ended(held[s])]
        /\ Reply(Answer(r, TRUE, s, 0, 0)) /\ UNCHANGED leases
    BY <1>5 DEF Delete
  <2>2. x.exists = FALSE
    BY <1>2 DEF Stored
  <2> HIDE DEF x
  <2>3. OffersKept
    BY <1>1, <1>3, <2>1, PlainOffer, ReplyOffers
  <2>4. held'[s] = Ended(held[s]) /\ store'[s] = x /\ landed'[s] = r.id
    BY <1>1, <1>2, <2>1 DEF TypeOK
  <2>5. held[s].lease.id # 0 /\ r.id = held[s].lease.id /\ "delete" \in Ops
    BY <1>1, <1>5, FencedByLease DEF NumberedInv
  <2>6. held'[s].lease.id = 0 /\ Ended(held[s]).lease.expires <= now + ttlOf(TTL)
    BY <1>2, <2>4, EndedExpires
  <2>7. KeepsClaims(s)
    <3>1. ASSUME NEW id \in Nat \ {0}, NEW d \in Nat, ClaimOK(s, id, d) PROVE ClaimOK(s, id, d)'
      BY <1>3, <2>2, <2>4, <2>5, <2>6, <3>1 DEF ClaimOK
    <3> QED BY <3>1 DEF KeepsClaims
  <2>8. leases <= leases' /\ \A z \in Sessions \ {s} : landed'[z] = landed[z]
    BY <2>1 DEF TypeOK
  <2> QED
    BY <1>1, <1>3, <2>1, <2>3, <2>6, <2>7, <2>8, HandlerServes
<1> QED
  BY <1>4, <1>5

LEMMA CreateArrivesServes ==
    ASSUME TypeOK, TypeOK', NumberedInv, NEW r \in net, CreateArrives(r)
    PROVE  ServerStep
<1>1. /\ r.op = "create" /\ UNCHANGED <<now, store, held, idem, client, waits, sent, leases, landed, limits>>
      /\ begun' \subseteq begun \cup {r} /\ \A q \in net' : q \in net \/ q = [r EXCEPT !.again = FALSE]
  BY DEF CreateArrives
<1>2. r \in Requests
  BY DEF TypeOK, RequestOK
<1>3. PICK t : t = [r EXCEPT !.again = FALSE]
  OBVIOUS
<1>4. t.op = r.op /\ t.c = r.c /\ t.n = r.n /\ t.at = r.at
  BY <1>2, <1>3 DEF Requests
<1>5. \A q \in net' : q \in net \/ q = t
  BY <1>1, <1>3
<1>6. RequestsKept
  BY <1>1, <1>4, <1>5 DEF RequestsKept
<1>7. \A a \in answers' : a \in Offers /\ Awaited(a)
  <2>1. CASE \E k \in Kept(r) : Reply(k.answer)
    <3>1. PICK k \in idem : Reply(k.answer)
      BY <2>1 DEF Kept
    <3> QED BY <3>1, OfferMembers DEF Reply, NumberedInv
  <2>2. CASE UNCHANGED answers
    BY <2>2, OfferMembers DEF NumberedInv
  <2> QED BY <2>1, <2>2 DEF CreateArrives
<1>8. OffersKept
  BY <1>1, <1>7, OfferMembers DEF OffersKept
<1>9. now <= now'
  BY <1>1 DEF TypeOK
<1> QED
  BY <1>1, <1>6, <1>8, <1>9, QuietServes

\* A create grants a lease only where there is no current one; no session
\* was deleted that it could make again.
LEMMA CreateRunsServes ==
    ASSUME TypeOK, TypeOK', NumberedInv, TTL <= MaxTTL, 0 < Margin,
           ~("create" \in Ops /\ "delete" \in Ops),
           NEW r \in begun, NEW s \in Sessions, CreateRuns(r, s)
    PROVE  ServerStep
<1>1. RequestOK(r) /\ r.op = "create" /\ "delete" \notin Ops /\ r \in net \cup begun
  BY DEF TypeOK, NumberedInv
<1>2. held[s] \in HeldStates
  BY SessionTypes
<1>3. /\ UNCHANGED <<now, client, waits, sent, limits>> /\ net' \subseteq net /\ begun' \subseteq begun
      /\ now \in Nat /\ leases \in Nat
  BY DEF CreateRuns, TypeOK
<1>4. PICK x : x = CreateFound(r, s)
  OBVIOUS
<1>5. CASE Refuse(r) /\ UNCHANGED <<idem, made>>
  BY <1>1, <1>3, <1>5, RefuseServes
<1>6. CASE /\ ~Current(s) /\ store' = [store EXCEPT ![s] = x]
           /\ held' = [held EXCEPT ![s] = Ended(held[s])]
           /\ Reply(Refusal(r)) /\ UNCHANGED <<leases, landed, idem>>
  <2>1. OffersKept
    BY <1>1, <1>6, RefusalOffer, ReplyOffers
  <2>2. held'[s] = Ended(held[s])
    BY <1>6 DEF TypeOK
  <2>3. held'[s].lease.id = 0 /\ Ended(held[s]).lease.expires <= now + ttlOf(TTL)
    BY <1>2, <2>2, EndedExpires
  <2>4. KeepsClaims(s)
    BY <1>1, <1>3, <1>6, <2>3, EndKeeps
  <2>5. leases <= leases'
    BY <1>3, <1>6
  <2> QED
    BY <1>3, <1>6, <2>1, <2>3, <2>4, <2>5, HandlerServes
<1>7. CASE /\ ~Current(s) /\ store' = [store EXCEPT ![s] = Opened(x)]
           /\ held' = [held EXCEPT ![s] = Granted(held[s], Opened(x))]
           /\ leases' = leases + 1
           /\ AnswerKept(r, Answer(r, TRUE, s, leases + 1, nextToken(held[s].token)))
           /\ UNCHANGED landed
  <2>1. PICK h : h = Granted(held[s], Opened(x))
    OBVIOUS
  <2>2. held' = [held EXCEPT ![s] = h]
    BY <1>7, <2>1
  <2>3. PICK b : b = Answer(r, TRUE, s, leases + 1, nextToken(held[s].token))
    OBVIOUS
  <2>4. NewOffer(b, r) /\ h.lease.expires <= now + ttlOf(TTL)
    BY <1>1, <1>3, <1>7, <2>1, <2>2, <2>3, GrantOffer
  <2>5. OffersKept
    BY <1>1, <1>7, <2>3, <2>4, KeptOffers
  <2>6. KeepsClaims(s)
    BY <1>1, <1>3, <1>7, GrantKeeps
  <2>7. leases <= leases'
    BY <1>3, <1>7
  <2> QED
    BY <1>3, <1>7, <2>2, <2>4, <2>5, <2>6, <2>7, HandlerServes
<1>8. CASE /\ store' = [store EXCEPT ![s] = Released(x)]
           /\ AnswerKept(r, Answer(r, TRUE, s, 0, 0)) /\ UNCHANGED <<held, leases, landed>>
  <2>1. OffersKept
    BY <1>1, <1>8, PlainOffer, KeptOffers
  <2>2. KeepsClaims(s)
    BY <1>1, <1>3, <1>8 DEF KeepsClaims, ClaimOK
  <2>3. /\ held' = [held EXCEPT ![s] = held[s]] /\ held[s].lease.expires <= now + ttlOf(TTL)
        /\ leases <= leases'
    BY <1>3, <1>8 DEF TypeOK, NumberedInv
  <2> QED
    BY <1>3, <1>8, <2>1, <2>2, <2>3, HandlerServes
<1> QED
  BY <1>4, <1>5, <1>6, <1>7, <1>8, CreateCases

-----------------------------------------------------------------------------
(* Timers, another process, time, admins and restarts.                     *)

LEMMA SameOffers ==
    ASSUME NumberedInv, answers' = answers, idem' \subseteq idem
    PROVE  OffersKept
BY OfferMembers DEF OffersKept, NumberedInv

LEMMA TimerServes ==
    ASSUME TypeOK, TypeOK', NumberedInv, NEW s \in Sessions, TimerFires(s)
    PROVE  ServerStep
<1> DEFINE h == [held[s] EXCEPT !.lease = [held[s].lease EXCEPT !.timer = 0]]
<1>1. /\ held' = [held EXCEPT ![s] = h]
      /\ UNCHANGED <<now, store, idem, begun, net, answers, client, waits, sent, leases, landed, limits>>
  BY DEF TimerFires
<1>2. h.lease.id = held[s].lease.id /\ h.lease.expires = held[s].lease.expires
  BY DEF TypeOK, HeldStates
<1> HIDE DEF h
<1>3. \A z \in Sessions : /\ held'[z].lease.id = held[z].lease.id
                          /\ held'[z].lease.expires = held[z].lease.expires
  BY <1>1, <1>2 DEF TypeOK
<1>4. now <= now'
  BY <1>1 DEF TypeOK
<1> QED
  BY <1>1, <1>3, <1>4, QuietServes, SameOffers, RequestsGo

LEMMA ExpireServes ==
    ASSUME TypeOK, TypeOK', NumberedInv, NEW f \in fired, Expire(f)
    PROVE  ServerStep
<1> DEFINE s == f.s
<1>1. s \in Sessions /\ now \in Nat /\ leases \in Nat
  BY DEF TypeOK
<1>2. UNCHANGED <<now, idem, begun, net, answers, client, waits, sent, leases, landed, limits>>
  BY DEF Expire
<1>3. OffersKept /\ RequestsKept /\ now <= now' /\ leases <= leases'
  BY <1>1, <1>2, SameOffers, RequestsGo
<1>4. CASE held[s].lease.id = f.id /\ ~Current(s)
  <2>1. /\ held' = [held EXCEPT ![s] = Ended(held[s])]
        /\ store' = [store EXCEPT ![s] = Released(store[s])]
    BY <1>4 DEF Expire
  <2>2. held[s] \in HeldStates /\ Released(store[s]).exists = store[s].exists
    BY <1>1, SessionTypes, SameExists
  <2>3. held'[s] = Ended(held[s]) /\ store'[s].exists = store[s].exists
    BY <1>1, <2>1, <2>2 DEF TypeOK
  <2>4. held'[s].lease.id = 0 /\ Ended(held[s]).lease.expires <= now + ttlOf(TTL)
    BY <2>2, <2>3, EndedExpires
  <2>5. KeepsClaims(s)
    BY <1>1, <1>2, <1>4, <2>3, <2>4, EndKeeps
  <2> QED
    BY <1>1, <1>2, <1>3, <2>1, <2>4, <2>5, HandlerServes
<1>5. CASE UNCHANGED <<held, store>>
  BY <1>2, <1>3, <1>5, QuietServes
<1> QED
  BY <1>4, <1>5 DEF Expire

LEMMA OtherServes ==
    ASSUME TypeOK, TypeOK', NumberedInv, NEW s \in Sessions, OtherHolds(s)
    PROVE  ServerStep
<1>1. UNCHANGED <<now, held, idem, begun, net, answers, client, waits, sent, leases, landed, limits>>
  BY DEF OtherHolds
<1>2. \A z \in Sessions : store'[z].exists = store[z].exists
  BY DEF OtherHolds, TypeOK, Stored
<1>3. now <= now'
  BY <1>1 DEF TypeOK
<1> QED
  BY <1>1, <1>2, <1>3, QuietServes, SameOffers, RequestsGo

LEMMA TickServes == ASSUME TypeOK, TypeOK', NumberedInv, Tick PROVE ServerStep
<1>1. /\ UNCHANGED <<store, held, idem, begun, net, answers, client, waits, sent, leases, landed, limits>>
      /\ now <= now'
  BY DEF Tick, TypeOK
<1> QED
  BY <1>1, QuietServes, SameOffers, RequestsGo

\* A break or a restart ends leases under their clients.
LEMMA DisturbServes ==
    ASSUME TypeOK, TypeOK', NumberedInv, (\E s \in Sessions : Break(s)) \/ Restart
    PROVE  ServerStep
<1>1. /\ UNCHANGED <<net, answers, client, waits, sent, leases>> /\ now <= now' /\ leases <= leases'
      /\ begun' \subseteq begun /\ idem' \subseteq idem
  BY DEF Break, Restart, TypeOK
<1>2. ~Undisturbed'
  BY DEF Break, Restart, Undisturbed, TypeOK
<1>3. now \in Nat /\ now' \in Nat /\ ttlOf(TTL) \in Nat
  BY LeaseAssumption DEF ttlOf, TypeOK
<1>4. \A z \in Sessions : held'[z].lease.expires <= now' + ttlOf(TTL)
  <2>1. ASSUME NEW s \in Sessions, Break(s), NEW z \in Sessions
        PROVE  held'[z].lease.expires <= now' + ttlOf(TTL)
    <3>1. held' = [held EXCEPT ![s] = [Ended(held[s]) EXCEPT !.token = nextToken(held[s].token)]]
      BY <2>1 DEF Break
    <3>2. held[s] \in HeldStates /\ held[z].lease.expires \in Nat
      BY DEF TypeOK, HeldStates
    <3>3. Ended(held[s]).lease.expires <= now + ttlOf(TTL) /\ Ended(held[s]) \in HeldStates
      BY <3>2, EndedExpires, EndedType
    <3>4. held'[s].lease = Ended(held[s]).lease
      BY <3>1, <3>3 DEF TypeOK, HeldStates
    <3>5. z # s => held'[z] = held[z]
      BY <3>1 DEF TypeOK
    <3>6. held[z].lease.expires <= now + ttlOf(TTL) /\ now' = now
      BY <2>1 DEF NumberedInv, Break
    <3> QED BY <3>3, <3>4, <3>5, <3>6
  <2>2. ASSUME Restart, NEW z \in Sessions PROVE held'[z].lease.expires <= now' + ttlOf(TTL)
    <3>1. held'[z].lease.expires = 0
      BY <2>2 DEF Restart, NoLease
    <3> QED BY <1>3, <3>1
  <2> QED BY <2>1, <2>2
<1> QED
  BY <1>1, <1>2, <1>4, SameOffers, RequestsGo DEF ServerStep

-----------------------------------------------------------------------------
LEMMA BelieverInit == Init => BelieverInv
<1> SUFFICES ASSUME Init PROVE BelieverInv
  OBVIOUS
<1>1. /\ net = {} /\ begun = {} /\ answers = {} /\ Offers = {} /\ waits = [c \in Clients |-> {}]
      /\ \A c \in Clients : client[c].live = FALSE
  BY OfferMembers DEF Init, NoClaim
<1>2. \A s \in Sessions : held[s].lease.expires <= now + ttlOf(TTL)
  BY LeaseAssumption DEF Init, NoLease, ttlOf
<1> QED
  BY <1>1, <1>2 DEF BelieverInv, NumberedInv, OwnedInv, SpentInv, BeliefInv

LEMMA BelieverNext ==
    ASSUME TTL <= MaxTTL, 0 < Margin, ~("create" \in Ops /\ "delete" \in Ops),
           TypeOK, TypeOK', FenceInv, BelieverInv, [Next]_vars
    PROVE  BelieverInv'
<1>1. NumberedInv /\ SpentInv
  BY DEF BelieverInv
<1>2. CASE Server
  <2>1. ServerStep
    BY <1>1, <1>2, AcquireServes, RenewServes, ReleaseServes, AppendServes, DeleteServes,
       CreateArrivesServes, CreateRunsServes, ExpireServes, TimerServes DEF Server
  <2> QED BY <2>1, ServerKeeps
<1>3. ASSUME NEW c \in Clients,
             \/ \E s \in Sessions : SendAcquire(c, s)
             \/ \E e \in Entries : SendWrite(c, "append", e)
             \/ SendWrite(c, "delete", None)
             \/ SendRenew(c) \/ SendRelease(c)
             \/ \E s \in Sessions \cup {None}, lease \in BOOLEAN : SendCreate(c, s, lease)
      PROVE  BelieverInv'
  BY <1>3, ClientSends, SendKeeps
<1>4. CASE \E c \in Clients : GiveUp(c)
  BY <1>4, GiveUpKeeps
<1>5. CASE \E a \in answers : Receive(a)
  BY <1>5, ReceiveKeeps
<1>6. CASE (\E s \in Sessions : Break(s) \/ OtherHolds(s)) \/ Tick \/ Restart
  <2>1. ServerStep
    BY <1>1, <1>6, DisturbServes, OtherServes, TickServes
  <2> QED BY <2>1, ServerKeeps
<1>7. CASE UNCHANGED vars
  <2>1. ServerStep
    <3>1. /\ UNCHANGED <<now, store, held, idem, begun, net, answers, client, waits, sent, leases,
                         landed, limits>>
          /\ now <= now'
      BY <1>7 DEF vars, TypeOK
    <3> QED BY <1>1, <3>1, QuietServes, SameOffers, RequestsGo
  <2> QED BY <2>1, ServerKeeps
<1> QED
  BY <1>2, <1>3, <1>4, <1>5, <1>6, <1>7 DEF Next

\* Good claims are of different leases, so on different sessions.
LEMMA BelieverOne == TypeOK /\ BelieverInv => OneBeliever
<1> SUFFICES ASSUME BelieverInv, Undisturbed, NEW c \in Clients, NEW d \in Clients,
                    Believes(c), Believes(d), client[c].s = client[d].s
             PROVE  c = d
  BY DEF OneBeliever, Undisturbed
<1>1. client[c].live /\ client[d].live /\ client[c].id # 0 /\ client[d].id # 0
  BY DEF Believes, BelieverInv, OwnedInv
<1>2. /\ ClaimOK(client[c].s, client[c].id, client[c].deadline)
      /\ ClaimOK(client[d].s, client[d].id, client[d].deadline)
  BY <1>1 DEF BelieverInv, BeliefInv
<1>3. client[c].id = client[d].id
  BY <1>1, <1>2 DEF ClaimOK, Believes
<1> QED
  BY <1>1, <1>3 DEF BelieverInv, OwnedInv

\* Two clients never both believe they may write to a session, whatever the
\* clients, the sessions, the delays and the bounds, as long as no admin's
\* break and no restart ended a lease early: provided the server grants the
\* time a client asks for, a client stops before its lease ends, and no
\* session is made again under the ID of a deleted one.
THEOREM OneClientBelieves ==
    ASSUME TTL <= MaxTTL, 0 < Margin, ~("create" \in Ops /\ "delete" \in Ops)
    PROVE  Spec => []OneBeliever
<1>1. Init => TypeOK /\ FenceInv /\ BelieverInv
  BY TypeInit, FenceInit, BelieverInit
<1>2. (TypeOK /\ FenceInv /\ BelieverInv) /\ [Next]_vars => (TypeOK /\ FenceInv /\ BelieverInv)'
  BY TypeNext, FenceNext, FencePreserved, FenceStutter, BelieverNext
<1>3. TypeOK /\ BelieverInv => OneBeliever
  BY BelieverOne
<1> QED
  BY <1>1, <1>2, <1>3, PTL DEF Spec

=============================================================================
