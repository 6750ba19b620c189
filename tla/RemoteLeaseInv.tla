--------------------------- MODULE RemoteLeaseInv ---------------------------
(***************************************************************************)
(* The inductive invariants behind RemoteLease's fencing and holds.        *)
(***************************************************************************)
EXTENDS RemoteLease

\* A lease that was granted on s, as whoever saw it remembers it: its token
\* is behind whatever token comes next, and is the current lease's only if
\* it is that lease.
Known(s, id, token) ==
    /\ id <= leases
    /\ token <= held[s].token \/ token < now
    /\ held[s].lease.id # 0 /\ token = held[s].lease.token => id = held[s].lease.id

\* An answer that gives its client a lease.
Grants(a) == a.ok /\ a.op \in {"acquire", "create"} /\ a.id # 0

\* The lease of a session is the last granted on it, and no write landed
\* under a later one.
LastLease(s) ==
    /\ landed[s] <= leases
    /\ held[s].lease.id <= leases
    /\ held[s].lease.id # 0 =>
         landed[s] <= held[s].lease.id /\ held[s].lease.token <= held[s].token

\* Every lease a client, a write on its way, an answer or a kept answer
\* carries was granted, and can pass for no other: what makes a token a
\* fence (nextToken: "greater than every token issued under it before").
FenceInv ==
    /\ \A c \in Clients : client[c].live => Known(client[c].s, client[c].id, client[c].token)
    /\ \A r \in net : r.op \in {"append", "delete"} => Known(r.s, r.id, r.token)
    /\ \A a \in answers : Grants(a) => Known(a.s, a.id, a.token)
    /\ \A k \in idem : Grants(k.answer) => Known(k.answer.s, k.answer.id, k.answer.token)
    /\ \A s \in Sessions : LastLease(s)

\* A write state and the store's session: a lease, expired or not, stands on
\* a session that exists and that the store holds, the one in memory; without
\* a lease the store holds nothing.
StandsOn(h, x) ==
    IF h.lease.id # 0
    THEN x.exists /\ x.by = "server" /\ h.sess = x.open
    ELSE x.by # "server"

\* So it is with every session, when every create asks for a lease.
HoldInv ==
    /\ \A r \in net \cup begun : r.op = "create" => r.lease
    /\ \A s \in Sessions : StandsOn(held[s], store[s])

-----------------------------------------------------------------------------
(* The leases clients believe they have.                                   *)

\* The answers on their way and the ones kept, and of those the ones that
\* give a lease to a client that still waits for it.
Offers == answers \cup {k.answer : k \in idem}
Offered(a) == Grants(a) /\ Awaited(a)
Renewed(a) == a.ok /\ a.op = "renew"

\* Requests are of the kinds clients send, numbered and dated as they were
\* sent; an answer on its way is waited for; no lease runs longer than a
\* lease granted now would.
NumberedInv ==
    /\ waits \in [Clients -> SUBSET [n : Nat, op : AllOps]]
    /\ \A r \in net \cup begun : r.op \in Ops /\ r.n <= sent[r.c] /\ r.at <= now
    /\ \A a \in Offers : a.n <= sent[a.c]
    /\ \A a \in answers : Awaited(a)
    /\ \A s \in Sessions : held[s].lease.expires <= now + ttlOf(TTL)

\* A lease is one request's, and one client's.
OwnedInv ==
    /\ \A a, b \in Offers :
         Grants(a) /\ Grants(b) /\ a.id = b.id => a.c = b.c /\ a.n = b.n /\ a.op = b.op
    /\ \A c \in Clients : client[c].live => client[c].id # 0
    /\ \A c, d \in Clients : client[c].live /\ client[d].live /\ client[c].id = client[d].id => c = d

\* A lease on offer was never had: no client has it, renews it or releases
\* it.  A lease a client has is not being released.
SpentInv ==
    /\ \A r \in net : r.op \in {"renew", "release"} => r.id <= leases
    /\ \A a \in Offers : Renewed(a) => a.id <= leases
    /\ \A a \in Offers : Offered(a) =>
         /\ \A c \in Clients : client[c].live => client[c].id # a.id
         /\ \A r \in net : r.op \in {"renew", "release"} => r.id # a.id
         /\ \A b \in Offers : Renewed(b) => b.id # a.id
    /\ \A r \in net, c \in Clients : client[c].live /\ client[c].id = r.id =>
         r.op # "release" /\ (r.op = "renew" => r.s = client[c].s)

\* Up to the deadline the lease is the session's, and runs on; or the session
\* was deleted under it, and it was the last.
ClaimOK(s, id, deadline) ==
    now <= deadline =>
      \/ held[s].lease.id = id /\ deadline < held[s].lease.expires
      \/ "delete" \in Ops /\ ~store[s].exists /\ held[s].lease.id = 0 /\ landed[s] = id

Undisturbed == limits.breaks = 0 /\ limits.restarts = 0

\* What a client believes, or is about to, is so.
BeliefInv ==
    Undisturbed =>
    /\ \A c \in Clients : client[c].live => ClaimOK(client[c].s, client[c].id, client[c].deadline)
    /\ \A a \in Offers : Offered(a) => ClaimOK(a.s, a.id, Deadline(a.at))
    /\ \A a \in Offers, c \in Clients :
         Renewed(a) /\ client[c].live /\ client[c].id = a.id => ClaimOK(client[c].s, a.id, Deadline(a.at))

BelieverInv == NumberedInv /\ OwnedInv /\ SpentInv /\ BeliefInv

=============================================================================
