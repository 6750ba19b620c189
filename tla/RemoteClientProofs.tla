------------------------- MODULE RemoteClientProofs -------------------------
(***************************************************************************)
(* The calls on one remote client keep its view in step with the server's  *)
(* and never all wait on one another, for any number of callers, calls,    *)
(* entries, lost answers and leases ended.                                 *)
(*                                                                         *)
(* A call that has a holding's lock is the only one that changes the       *)
(* holding (LocksInv); no two holdings have one lease, so what the server  *)
(* accepts under a lease it accepts from the one holding that will be told *)
(* of it (LeaseInv); and until a holding is dropped under a waiting call,  *)
(* every call works on the listed one (ListInv).                           *)
(***************************************************************************)
EXTENDS RemoteClient, TLAPS

Ats == {"idle", "lock", "acquire", "drop", "unlease", "session", "prepare", "fence", "move",
        "rootmove", "write", "sethead", "delete", "create", "list", "replace"}

\* Where a call has its holding's lock; where it also has a lease to send under.
Sending == {"session", "prepare", "fence", "move", "rootmove", "write", "sethead", "delete"}
Owning == {"acquire", "drop", "unlease"} \cup Sending

\* Where a call works on the holding it found listed; where Create makes one.
Working == {"lock", "acquire", "drop"} \cup Sending
Making == {"create", "list", "replace"}

\* A write has an entry that its session does not.
Carrying(c) == c.at \in {"move", "write"} \/ (c.at = "fence" /\ c.op = "write")

IsHolding(d, n) ==
    /\ d = [k \in {"lease", "done", "sess", "head", "behind", "stirred"} |-> d[k]]
    /\ d.sess = [k \in {"has", "ents", "leaf"} |-> d.sess[k]]
    /\ d.lease \in Nat
    /\ d.sess.ents \subseteq 1..n
    /\ d.sess.leaf \in d.sess.ents \cup {Root}
    /\ d.lease = 0 => ~d.sess.has /\ d.sess.ents = {}

IsCall(c, n, m) ==
    /\ c = [k \in {"op", "at", "h", "e", "to", "ok"} |-> c[k]]
    /\ c.at \in Ats
    /\ c.e \in 0..n
    /\ c.at # "idle" => c.h \in Holdings /\ c.h <= m
    /\ c.at = "lock" => c.op \in {"open", "write", "sethead", "delete", "release"}
    /\ c.at = "acquire" => c.op \in {"open", "write", "sethead", "delete"}
    /\ c.at = "session" => c.op \in {"open", "write", "sethead"}
    /\ c.at = "fence" => c.op \in {"write", "sethead", "delete"}
    /\ c.at \in {"prepare", "move"} => c.op = "write"
    /\ Carrying(c) => c.e # 0
    /\ c.at = "rootmove" => c.to = c.e

\* What a call knows of its holding.
Fits(c, d) ==
    /\ c.at \in Sending => d.lease # 0
    /\ Carrying(c) => c.e \notin d.sess.ents
    /\ c.at = "move" /\ ~d.stirred => c.to = d.sess.leaf
    /\ c.at = "write" /\ ~d.stirred => d.sess.leaf \in {Root, d.head}

IsServer(s, n) ==
    /\ s \in [exists : BOOLEAN, lease : Nat, ents : SUBSET (1..n), head : (1..n) \cup {Root}]
    /\ s.head \in s.ents \cup {Root}
    /\ ~s.exists => s.ents = {} /\ s.head = Root /\ s.lease = 0

TypesInv ==
    /\ used \in [calls : 0..MaxCalls, entries : 0..MaxEntries, faults : Nat, events : Nat, made : Nat]
    /\ used.made <= used.calls
    /\ IsServer(srv, used.entries)
    /\ holding = [h \in Holdings |-> holding[h]]
    /\ \A h \in Holdings : IsHolding(holding[h], used.entries)
    /\ call = [t \in Threads |-> call[t]]
    /\ \A t \in Threads : IsCall(call[t], used.entries, used.made)
    /\ listed \in Holdings \cup {0} /\ listed <= used.made
    /\ holdMu \in Threads \cup {Free}
    /\ mu \in [Holdings -> Threads \cup {Free}]
    /\ leased \in Nat

CallsInv == \A t \in Threads : Fits(call[t], holding[call[t].h])

LocksInv ==
    /\ \A t \in Threads : call[t].at \in Owning => mu[call[t].h] = t
    /\ \A h \in Holdings : mu[h] # Free => call[mu[h]].at \in Owning /\ call[mu[h]].h = h
    /\ \A t \in Threads : call[t].at = "replace" <=> holdMu = t
    /\ holdMu # Free => listed # 0

LeaseInv ==
    /\ srv.lease <= leased
    /\ \A h \in Holdings : holding[h].lease <= leased
    /\ \A h, g \in Holdings : holding[h].lease = holding[g].lease /\ holding[h].lease # 0 => h = g
    /\ \A h \in Holdings : h > used.made => holding[h].lease = 0 /\ ~holding[h].done
    /\ HeadInStep

\* Holdings that Create makes are not found by any other call before it lists them.
MakingInv ==
    /\ \A t \in Threads : call[t].at \in Making => call[t].h # listed
    /\ \A t, u \in Threads : call[t].at \in Making /\ call[u].at # "idle" /\ call[t].h = call[u].h => t = u

ListInv ==
    /\ \A t \in Threads : call[t].at \in Working => call[t].h = listed
    /\ listed # 0 => ~holding[listed].done
    /\ \A t \in Threads : call[t].at \in {"list", "replace"} => ~holding[call[t].h].done
    /\ \A t \in Threads : call[t].at = "acquire" => holding[call[t].h].lease = 0
    /\ \A h \in Holdings : holding[h].lease # 0 /\ ~holding[h].done =>
          h = listed \/ \E t \in Threads : call[t].at \in {"list", "replace"} /\ call[t].h = h
    /\ \A h \in Holdings : holding[h].lease # 0 /\ holding[h].lease = srv.lease
          => holding[h].sess.ents \subseteq srv.ents

ClientInv == TypesInv /\ CallsInv /\ LocksInv /\ LeaseInv /\ MakingInv /\ (~orphaned => ListInv)

-----------------------------------------------------------------------------
(* What stays true when more is counted.                                   *)

\* used only grows.
Grows ==
    /\ used' \in [calls : 0..MaxCalls, entries : 0..MaxEntries, faults : Nat, events : Nat, made : Nat]
    /\ used'.made <= used'.calls
    /\ used.entries <= used'.entries /\ used.made <= used'.made

LEMMA HoldingGrows ==
    ASSUME NEW d, NEW m \in Nat, NEW n \in Nat, m <= n, IsHolding(d, m)
    PROVE  IsHolding(d, n)
BY DEF IsHolding

LEMMA CallGrows ==
    ASSUME NEW c, NEW m \in Nat, NEW n \in Nat, NEW i \in Nat, NEW j \in Nat, m <= n, i <= j, IsCall(c, m, i)
    PROVE  IsCall(c, n, j)
<1>1. c.at # "idle" => c.h \in Holdings /\ c.h <= j BY DEF IsCall, Holdings
<1>2. c.e \in 0..n BY DEF IsCall
<1> QED BY <1>1, <1>2 DEF IsCall

LEMMA ServerGrows ==
    ASSUME NEW s, NEW m \in Nat, NEW n \in Nat, m <= n, IsServer(s, m)
    PROVE  IsServer(s, n)
<1>1. 1..m \subseteq 1..n OBVIOUS
<1>2. s \in [exists : BOOLEAN, lease : Nat, ents : SUBSET (1..n), head : (1..n) \cup {Root}]
  BY <1>1 DEF IsServer
<1> QED BY <1>2 DEF IsServer

\* used as a pair of numbers.
LEMMA UsedNat ==
    ASSUME TypesInv
    PROVE  used.entries \in Nat /\ used.made \in Nat /\ used.entries <= MaxEntries
BY ClientAssumption DEF TypesInv

\* One call and one holding change, in place, and the types with them.
LEMMA TypesKept ==
    ASSUME TypesInv, Grows, NEW t \in Threads, NEW c, NEW h \in Holdings, NEW d,
           call' = [call EXCEPT ![t] = c], IsCall(c, used'.entries, used'.made),
           holding' = [holding EXCEPT ![h] = d], IsHolding(d, used'.entries),
           IsServer(srv', used'.entries),
           listed' \in Holdings \cup {0}, listed' <= used'.made,
           holdMu' \in Threads \cup {Free}, mu' \in [Holdings -> Threads \cup {Free}], leased' \in Nat
    PROVE  /\ TypesInv'
           /\ \A u \in Threads : call'[u] = IF u = t THEN c ELSE call[u]
           /\ \A g \in Holdings : holding'[g] = IF g = h THEN d ELSE holding[g]
<1>1. used.entries \in Nat /\ used.made \in Nat /\ used'.entries \in Nat /\ used'.made \in Nat
  BY ClientAssumption DEF Grows, TypesInv
<1>2. \A u \in Threads : call'[u] = IF u = t THEN c ELSE call[u] BY DEF TypesInv
<1>3. \A g \in Holdings : holding'[g] = IF g = h THEN d ELSE holding[g] BY DEF TypesInv
<1>4. ASSUME NEW u \in Threads PROVE IsCall(call'[u], used'.entries, used'.made)
  <2>1. CASE u = t BY <2>1, <1>2
  <2>2. CASE u # t
    <3>1. call'[u] = call[u] /\ IsCall(call[u], used.entries, used.made) BY <2>2, <1>2 DEF TypesInv
    <3> QED BY <3>1, <1>1, CallGrows DEF Grows
  <2> QED BY <2>1, <2>2
<1>5. ASSUME NEW g \in Holdings PROVE IsHolding(holding'[g], used'.entries)
  <2>1. CASE g = h BY <2>1, <1>3
  <2>2. CASE g # h
    <3>1. holding'[g] = holding[g] /\ IsHolding(holding[g], used.entries) BY <2>2, <1>3 DEF TypesInv
    <3> QED BY <3>1, <1>1, HoldingGrows DEF Grows
  <2> QED BY <2>1, <2>2
<1>6. call' = [u \in Threads |-> call'[u]] /\ holding' = [g \in Holdings |-> holding'[g]] BY DEF TypesInv
<1>7. TypesInv' BY <1>4, <1>5, <1>6 DEF TypesInv, Grows
<1> QED BY <1>2, <1>3, <1>7

-----------------------------------------------------------------------------
(* A step of a call that has its holding's lock, or takes it.              *)

\* c is the call after the step, which returned with the lock free or goes on
\* with it; d is its holding after the step.
LockStep(t, c, d) ==
    /\ Grows
    /\ call[t].at \in Owning \cup {"lock"} /\ mu[call[t].h] \in {t, Free}
    /\ holding' = [holding EXCEPT ![call[t].h] = d] /\ IsHolding(d, used'.entries)
    /\ call' = [call EXCEPT ![t] = c] /\ IsCall(c, used'.entries, used'.made)
    /\ c.at \in Owning \cup {"idle"} /\ (c.at # "idle" => c.h = call[t].h)
    /\ mu' = [mu EXCEPT ![call[t].h] = IF c.at = "idle" THEN Free ELSE t]
    /\ Fits(c, d)
    /\ IsServer(srv', used'.entries) /\ leased' \in Nat
    /\ listed' \in {listed, 0} /\ (holdMu # Free => listed' = listed) /\ UNCHANGED holdMu

LEMMA LockStepKeeps ==
    ASSUME ClientInv, NEW t \in Threads, NEW c, NEW d, LockStep(t, c, d), NEW h, h = call[t].h
    PROVE  /\ TypesInv' /\ CallsInv' /\ LocksInv' /\ MakingInv'
           /\ h \in Holdings /\ h <= used.made
           /\ \A u \in Threads : call'[u] = IF u = t THEN c ELSE call[u]
           /\ \A g \in Holdings : holding'[g] = IF g = h THEN d ELSE holding[g]
           /\ \A u \in Threads : u # t /\ call[u].h = h => call[u].at \notin Owning
<1>0. /\ TypesInv /\ CallsInv /\ LocksInv /\ MakingInv
      /\ call[t].at \in Owning \cup {"lock"} /\ call[t].at # "idle"
  BY DEF ClientInv, LockStep, Owning, Sending
<1>1. h \in Holdings /\ h <= used.made BY <1>0 DEF TypesInv, IsCall
<1>2. mu' \in [Holdings -> Threads \cup {Free}]
  <2>1. PICK w \in Threads \cup {Free} : w = IF c.at = "idle" THEN Free ELSE t OBVIOUS
  <2>2. mu' = [mu EXCEPT ![h] = w] BY <2>1 DEF LockStep
  <2> QED BY <2>2, <1>0, <1>1 DEF TypesInv
<1>3. listed' \in Holdings \cup {0} /\ listed' <= used'.made
  <2>1. used.made \in Nat /\ used'.made \in Nat /\ listed \in Nat
    BY <1>0, UsedNat DEF LockStep, Grows, TypesInv, Holdings
  <2> QED BY <2>1, <1>0 DEF LockStep, Grows, TypesInv
<1>4. /\ TypesInv'
      /\ \A u \in Threads : call'[u] = IF u = t THEN c ELSE call[u]
      /\ \A g \in Holdings : holding'[g] = IF g = h THEN d ELSE holding[g]
  BY <1>0, <1>1, <1>2, <1>3, TypesKept DEF LockStep, TypesInv
<1>5. \A u \in Threads : u # t /\ call[u].h = h => call[u].at \notin Owning
  BY <1>0, <1>1, ClientAssumption DEF LocksInv, LockStep
<1>6. CallsInv'
  <2> SUFFICES ASSUME NEW u \in Threads PROVE Fits(call'[u], holding'[call'[u].h]) BY DEF CallsInv
  <2>1. CASE u = t /\ c.at # "idle"
    <3>1. call'[u] = c /\ holding'[call'[u].h] = d BY <2>1, <1>1, <1>4 DEF LockStep
    <3> QED BY <3>1 DEF LockStep
  <2>2. CASE u = t /\ c.at = "idle"
    <3>1. call'[u] = c BY <2>2, <1>4
    <3> QED BY <3>1, <2>2 DEF Fits, Sending, Carrying
  <2>3. CASE u # t
    <3>1. call'[u] = call[u] /\ Fits(call[u], holding[call[u].h]) BY <2>3, <1>0, <1>4 DEF CallsInv
    <3>2. CASE call[u].at \notin Owning BY <3>1, <3>2 DEF Fits, Sending, Carrying, Owning
    <3>3. CASE call[u].at \in Owning
      <4>1. call[u].h \in Holdings /\ call[u].h # h
        BY <2>3, <3>3, <1>0, <1>5 DEF TypesInv, IsCall, Owning, Sending
      <4>2. holding'[call'[u].h] = holding[call[u].h] BY <3>1, <4>1, <1>4
      <4> QED BY <3>1, <4>2
    <3> QED BY <3>2, <3>3
  <2> QED BY <2>1, <2>2, <2>3
<1>7. \A g \in Holdings : mu'[g] = IF g = h THEN IF c.at = "idle" THEN Free ELSE t ELSE mu[g]
  BY <1>0, <1>1 DEF LockStep, TypesInv
<1>8. LocksInv'
  <2>1. \A u \in Threads : call'[u].at \in Owning => mu'[call'[u].h] = u
    <3> SUFFICES ASSUME NEW u \in Threads, call'[u].at \in Owning PROVE mu'[call'[u].h] = u OBVIOUS
    <3>1. CASE u = t
      <4>1. c.at # "idle" /\ c.h = h BY <3>1, <1>4 DEF LockStep, Owning, Sending
      <4> QED BY <3>1, <4>1, <1>1, <1>4, <1>7
    <3>2. CASE u # t
      <4>1. call'[u] = call[u] /\ call[u].h \in Holdings /\ call[u].h # h
        BY <3>2, <1>0, <1>4, <1>5 DEF TypesInv, IsCall, Owning, Sending
      <4>2. mu'[call[u].h] = mu[call[u].h] BY <4>1, <1>7
      <4> QED BY <4>1, <4>2, <1>0 DEF LocksInv
    <3> QED BY <3>1, <3>2
  <2>2. \A g \in Holdings : mu'[g] # Free => call'[mu'[g]].at \in Owning /\ call'[mu'[g]].h = g
    <3> SUFFICES ASSUME NEW g \in Holdings, mu'[g] # Free
                 PROVE  call'[mu'[g]].at \in Owning /\ call'[mu'[g]].h = g
      OBVIOUS
    <3>1. CASE g = h
      <4>1. c.at # "idle" /\ mu'[g] = t BY <3>1, <1>7
      <4> QED BY <3>1, <4>1, <1>4 DEF LockStep
    <3>2. CASE g # h
      <4>1. mu'[g] = mu[g] BY <3>2, <1>7
      <4>2. mu[g] \in Threads BY <4>1, <1>0 DEF TypesInv
      <4>3. call[mu[g]].at \in Owning /\ call[mu[g]].h = g BY <4>1, <1>0 DEF LocksInv
      <4>4. mu[g] # t BY <4>3, <3>2
      <4> QED BY <4>1, <4>2, <4>3, <4>4, <1>4
    <3> QED BY <3>1, <3>2
  <2>3. \A u \in Threads : call'[u].at = "replace" <=> holdMu' = u
    <3>1. call[t].at # "replace" /\ c.at # "replace" BY DEF LockStep, Owning, Sending
    <3> QED BY <3>1, <1>0, <1>4 DEF LockStep, LocksInv
  <2>4. holdMu' # Free => listed' # 0 BY <1>0 DEF LockStep, LocksInv
  <2> QED BY <2>1, <2>2, <2>3, <2>4 DEF LocksInv
<1>9. MakingInv'
  <2>1. \A u \in Threads : call'[u].at \in Making => u # t /\ call'[u] = call[u] /\ call[u].h \in Holdings
    BY <1>0, <1>4 DEF LockStep, Owning, Sending, Making, TypesInv, IsCall
  <2>2. \A u \in Threads : call'[u].at \in Making => call'[u].h # listed'
    <3>1. 0 \notin Holdings BY DEF Holdings
    <3> QED BY <3>1, <2>1, <1>0 DEF LockStep, MakingInv
  <2>3. \A u \in Threads : call'[u].at # "idle" => call[u].at # "idle" /\ call'[u].h = call[u].h
    BY <1>0, <1>4 DEF LockStep
  <2> QED BY <2>1, <2>2, <2>3, <1>0 DEF MakingInv
<1> QED BY <1>1, <1>4, <1>5, <1>6, <1>8, <1>9

\* The holding keeps its lease, and the server's head moves only under it.
OwnerRest(t, d) ==
    /\ Grows
    /\ call[t].at \in Owning
    /\ holding' = [holding EXCEPT ![call[t].h] = d] /\ IsHolding(d, used'.entries)
    /\ d.lease = holding[call[t].h].lease /\ d.done = holding[call[t].h].done
    /\ IsServer(srv', used'.entries)
    /\ srv'.lease # 0 => srv'.lease = srv.lease
    /\ srv'.lease # 0 /\ srv'.lease = d.lease /\ ~d.behind => d.head = srv'.head
    /\ srv'.lease # 0 /\ srv'.lease # d.lease => srv' = srv
    /\ ~orphaned /\ srv'.lease # 0 /\ srv'.lease = d.lease => d.sess.ents \subseteq srv'.ents
    /\ UNCHANGED <<listed, holdMu, leased, orphaned>>

LEMMA OwnerKeeps ==
    ASSUME ClientInv, NEW t \in Threads, NEW c, NEW d, LockStep(t, c, d),
           d.lease = holding[call[t].h].lease, d.done = holding[call[t].h].done,
           srv'.lease # 0 => srv'.lease = srv.lease,
           srv'.lease # 0 /\ srv'.lease = d.lease /\ ~d.behind => d.head = srv'.head,
           srv'.lease # 0 /\ srv'.lease # d.lease => srv' = srv,
           ~orphaned /\ srv'.lease # 0 /\ srv'.lease = d.lease => d.sess.ents \subseteq srv'.ents,
           UNCHANGED <<listed, leased, orphaned>>,
           c.at # "unlease", c.at \in Working => call[t].at \in Working,
           c.at = "acquire" /\ ~orphaned => d.lease = 0
    PROVE  ClientInv'
<1> PICK h : h = call[t].h OBVIOUS
<1>0. TypesInv /\ LeaseInv /\ call[t].at \in Owning \cup {"lock"}
  BY DEF ClientInv, LockStep
<1>1. /\ TypesInv' /\ CallsInv' /\ LocksInv' /\ MakingInv'
      /\ h \in Holdings
      /\ \A u \in Threads : call'[u] = IF u = t THEN c ELSE call[u]
      /\ \A g \in Holdings : holding'[g] = IF g = h THEN d ELSE holding[g]
      /\ \A u \in Threads : u # t /\ call[u].h = h => call[u].at \notin Owning
  BY LockStepKeeps
<1>2. \A g \in Holdings : holding'[g].lease = holding[g].lease /\ holding'[g].done = holding[g].done
  BY <1>1
<1>3. LeaseInv'
  <2>1. srv'.lease <= leased' /\ \A g \in Holdings : holding'[g].lease <= leased'
    <3>1. leased \in Nat /\ srv.lease <= leased BY <1>0 DEF TypesInv, LeaseInv
    <3>2. srv'.lease = 0 \/ srv'.lease = srv.lease OBVIOUS
    <3>3. srv'.lease <= leased BY <3>1, <3>2
    <3> QED BY <3>3, <1>0, <1>2 DEF LeaseInv
  <2>2. \A f, g \in Holdings : holding'[f].lease = holding'[g].lease /\ holding'[f].lease # 0 => f = g
    BY <1>0, <1>2 DEF LeaseInv
  <2>3. \A g \in Holdings : g > used'.made => holding'[g].lease = 0 /\ ~holding'[g].done
    <3>1. used.made \in Nat /\ used'.made \in Nat /\ used.made <= used'.made BY <1>0, UsedNat DEF LockStep, Grows
    <3>2. \A g \in Holdings : g > used'.made => g > used.made BY <3>1 DEF Holdings
    <3> QED BY <3>2, <1>0, <1>2 DEF LeaseInv
  <2>4. HeadInStep'
    <3> SUFFICES ASSUME NEW g \in Holdings,
                        holding'[g].lease # 0, holding'[g].lease = srv'.lease, ~holding'[g].behind
                 PROVE  holding'[g].head = srv'.head
      BY DEF HeadInStep
    <3>1. CASE g = h BY <3>1, <1>1
    <3>2. CASE g # h
      <4>1. d.lease # srv'.lease BY <3>2, <1>0, <1>1, <1>2 DEF LeaseInv
      <4>2. srv' = srv /\ holding'[g] = holding[g] BY <3>2, <4>1, <1>1
      <4> QED BY <4>2, <1>0 DEF LeaseInv, HeadInStep
    <3> QED BY <3>1, <3>2
  <2> QED BY <2>1, <2>2, <2>3, <2>4 DEF LeaseInv
<1>4. ASSUME ~orphaned' PROVE ListInv'
  <2>0. ListInv /\ ~orphaned BY <1>4 DEF ClientInv
  <2>1. \A u \in Threads : call'[u].at \in Working => call'[u].h = listed'
    <3> SUFFICES ASSUME NEW u \in Threads, call'[u].at \in Working PROVE call'[u].h = listed OBVIOUS
    <3>1. CASE u = t
      <4>1. c.at # "idle" /\ c.h = h /\ call[t].at \in Working
        BY <3>1, <1>1 DEF LockStep, Working, Sending
      <4> QED BY <3>1, <4>1, <1>1, <2>0 DEF ListInv
    <3>2. CASE u # t BY <3>2, <1>1, <2>0 DEF ListInv
    <3> QED BY <3>1, <3>2
  <2>2. listed' # 0 => ~holding'[listed'].done BY <1>0, <1>2, <2>0 DEF ListInv, TypesInv
  <2>3. \A u \in Threads : call'[u].at \in {"list", "replace"} => u # t /\ call'[u] = call[u] /\ call[u].h \in Holdings
    BY <1>0, <1>1 DEF LockStep, Owning, Sending, TypesInv, IsCall
  <2>4. \A u \in Threads : call'[u].at \in {"list", "replace"} => ~holding'[call'[u].h].done
    BY <2>3, <2>0, <1>2 DEF ListInv
  <2>5. \A u \in Threads : call'[u].at = "acquire" => holding'[call'[u].h].lease = 0
    <3> SUFFICES ASSUME NEW u \in Threads, call'[u].at = "acquire" PROVE holding'[call'[u].h].lease = 0 OBVIOUS
    <3>1. CASE u = t
      <4>1. call'[u] = c /\ c.h = h BY <3>1, <1>1 DEF LockStep
      <4> QED BY <3>1, <4>1, <1>1, <2>0
    <3>2. CASE u # t
      <4>1. call'[u] = call[u] /\ call[u].h \in Holdings BY <3>2, <1>0, <1>1 DEF TypesInv, IsCall
      <4> QED BY <4>1, <1>2, <2>0 DEF ListInv
    <3> QED BY <3>1, <3>2
  <2>6. \A g \in Holdings : holding'[g].lease # 0 /\ ~holding'[g].done =>
          g = listed' \/ \E u \in Threads : call'[u].at \in {"list", "replace"} /\ call'[u].h = g
    <3>1. \A u \in Threads : call[u].at \in {"list", "replace"} => call'[u] = call[u]
      BY <1>0, <1>1 DEF Owning, Sending
    <3> QED BY <3>1, <2>0, <1>2 DEF ListInv
  <2>7. \A g \in Holdings : holding'[g].lease # 0 /\ holding'[g].lease = srv'.lease
          => holding'[g].sess.ents \subseteq srv'.ents
    <3> SUFFICES ASSUME NEW g \in Holdings, holding'[g].lease # 0, holding'[g].lease = srv'.lease
                 PROVE  holding'[g].sess.ents \subseteq srv'.ents
      OBVIOUS
    <3>1. CASE g = h BY <3>1, <1>1, <2>0
    <3>2. CASE g # h
      <4>1. d.lease # srv'.lease BY <3>2, <1>0, <1>1, <1>2 DEF LeaseInv
      <4>2. srv' = srv /\ holding'[g] = holding[g] BY <3>2, <4>1, <1>1
      <4> QED BY <4>2, <2>0 DEF ListInv
    <3> QED BY <3>1, <3>2
  <2> QED BY <2>1, <2>2, <2>4, <2>5, <2>6, <2>7 DEF ListInv
<1> QED BY <1>1, <1>3, <1>4 DEF ClientInv

-----------------------------------------------------------------------------
(* The steps of a call that has the lock, one by one.                      *)

\* A request's fate counts at most a fault.
LEMMA FateGrows ==
    ASSUME TypesInv, NEW f, Fate(f) \/ UNCHANGED used
    PROVE  Grows /\ used'.entries = used.entries /\ used'.made = used.made
<1>1. used \in [calls : 0..MaxCalls, entries : 0..MaxEntries, faults : Nat, events : Nat, made : Nat]
      /\ used.made <= used.calls
  BY DEF TypesInv
<1>2. CASE used' = used
  <2>1. used.entries \in Nat /\ used.made \in Nat BY <1>1
  <2> QED BY <1>1, <1>2, <2>1 DEF Grows
<1>3. CASE used' = [used EXCEPT !.faults = @ + 1]
  <2>1. PICK n \in Nat : n = used.faults + 1 BY <1>1
  <2>2. used' = [used EXCEPT !.faults = n] BY <1>3, <2>1
  <2>3. /\ used' \in [calls : 0..MaxCalls, entries : 0..MaxEntries, faults : Nat, events : Nat, made : Nat]
        /\ used'.entries = used.entries /\ used'.made = used.made /\ used'.calls = used.calls
    BY <1>1, <2>2
  <2>4. used.entries \in Nat /\ used.made \in Nat BY <1>1
  <2> QED BY <1>1, <2>3, <2>4 DEF Grows
<1> QED BY <1>2, <1>3 DEF Fate

\* What a call that has the lock has.
LEMMA Owner ==
    ASSUME ClientInv, NEW t \in Threads, call[t].at \in Owning
    PROVE  /\ TypesInv /\ call[t].h \in Holdings /\ mu[call[t].h] = t
           /\ IsCall(call[t], used.entries, used.made)
           /\ IsHolding(holding[call[t].h], used.entries)
           /\ Fits(call[t], holding[call[t].h])
           /\ IsServer(srv, used.entries)
<1>1. TypesInv /\ CallsInv /\ LocksInv BY DEF ClientInv
<1>2. call[t].at # "idle" BY DEF Owning, Sending
<1>3. call[t].h \in Holdings BY <1>1, <1>2 DEF TypesInv, IsCall
<1> QED BY <1>1, <1>3 DEF TypesInv, CallsInv, LocksInv

\* The call after it is over.
LEMMA OverCall ==
    ASSUME TypesInv, NEW t \in Threads, NEW ok, Over(t, ok)
    PROVE  \E c : /\ call' = [call EXCEPT ![t] = c] /\ c.at = "idle" /\ c.ok = ok
                  /\ IsCall(c, used.entries, used.made)
<1>1. PICK y : y = TRUE OBVIOUS
<1>2. PICK i : i = [op |-> "none", at |-> "idle", h |-> 1, e |-> 0, to |-> Root, ok |-> y] OBVIOUS
<1>3. Idle = i BY <1>1, <1>2 DEF Idle
<1>4. i = [k \in {"op", "at", "h", "e", "to", "ok"} |-> i[k]] /\ i.at = "idle" BY <1>2
<1>5. PICK e : e = IF ok THEN 0 ELSE call[t].e OBVIOUS
<1>6. PICK c : c = [i EXCEPT !.e = e, !.ok = ok] OBVIOUS
<1>7. c = [k \in {"op", "at", "h", "e", "to", "ok"} |-> c[k]] /\ c.at = "idle" /\ c.e = e BY <1>4, <1>6
<1>8. c.ok = ok BY <1>4, <1>6
<1>9. e \in 0..used.entries
  <2>1. call[t].e \in 0..used.entries /\ used.entries \in Nat BY UsedNat DEF TypesInv, IsCall
  <2> QED BY <1>5, <2>1
<1>10. IsCall(c, used.entries, used.made) BY <1>7, <1>9 DEF IsCall, Ats, Carrying
<1>11. call' = [call EXCEPT ![t] = c] BY <1>3, <1>5, <1>6 DEF Over
<1> QED BY <1>7, <1>8, <1>10, <1>11

\* The call after it returned.
LEMMA Returned ==
    ASSUME TypesInv, NEW t \in Threads, NEW ok, Return(t, ok)
    PROVE  \E c : /\ call' = [call EXCEPT ![t] = c] /\ c.at = "idle" /\ c.ok = ok
                  /\ IsCall(c, used.entries, used.made)
                  /\ mu' = [mu EXCEPT ![call[t].h] = Free]
BY OverCall DEF Return

\* The call after it went on to another step.
LEMMA Gone ==
    ASSUME TypesInv, NEW t \in Threads, NEW at \in Ats, Goto(t, at), call[t].at # "idle"
    PROVE  \E c : /\ call' = [call EXCEPT ![t] = c]
                  /\ c = [k \in {"op", "at", "h", "e", "to", "ok"} |-> c[k]]
                  /\ c.at = at /\ c.op = call[t].op /\ c.h = call[t].h /\ c.e = call[t].e /\ c.to = call[t].to
                  /\ c.h \in Holdings /\ c.h <= used.made /\ c.e \in 0..used.entries
<1>1. PICK b : b = call[t] OBVIOUS
<1>2. PICK c : c = [b EXCEPT !.at = at] OBVIOUS
<1>3. IsCall(b, used.entries, used.made) BY <1>1 DEF TypesInv
<1>4. /\ c = [k \in {"op", "at", "h", "e", "to", "ok"} |-> c[k]]
      /\ c.at = at /\ c.op = b.op /\ c.h = b.h /\ c.e = b.e /\ c.to = b.to
  BY <1>2, <1>3 DEF IsCall
<1>5. call' = [call EXCEPT ![t] = c] BY <1>1, <1>2 DEF Goto
<1>6. b.h \in Holdings /\ b.h <= used.made /\ b.e \in 0..used.entries BY <1>1, <1>3 DEF IsCall
<1> QED BY <1>1, <1>4, <1>5, <1>6

\* A call that has the lock returns.
LEMMA OwnerReturns ==
    ASSUME ClientInv, NEW t \in Threads, NEW ok, NEW d, OwnerRest(t, d), Return(t, ok)
    PROVE  ClientInv'
<1>1. PICK c : /\ call' = [call EXCEPT ![t] = c] /\ c.at = "idle"
               /\ IsCall(c, used.entries, used.made)
               /\ mu' = [mu EXCEPT ![call[t].h] = Free]
  BY Returned DEF ClientInv
<1>2. IsCall(c, used'.entries, used'.made)
  <2>1. used.entries \in Nat /\ used.made \in Nat BY UsedNat DEF ClientInv
  <2>2. /\ used'.entries \in Nat /\ used'.made \in Nat
        /\ used.entries <= used'.entries /\ used.made <= used'.made
    BY DEF OwnerRest, Grows
  <2> QED BY <1>1, <2>1, <2>2, CallGrows
<1>3. c.at \notin Working /\ c.at \notin Owning /\ Fits(c, d) BY <1>1 DEF Fits, Sending, Carrying, Working, Owning
<1>4. mu[call[t].h] = t /\ leased' \in Nat BY DEF OwnerRest, ClientInv, LocksInv, TypesInv
<1>5. LockStep(t, c, d) BY <1>1, <1>2, <1>3, <1>4 DEF LockStep, OwnerRest
<1>6. c.at # "unlease" /\ c.at # "acquire" BY <1>1
<1> QED BY <1>3, <1>5, <1>6, OwnerKeeps DEF OwnerRest

\* A call that has the lock goes on.
LEMMA OwnerGoesOn ==
    ASSUME ClientInv, NEW t \in Threads, NEW c, NEW d, OwnerRest(t, d), UNCHANGED mu,
           call' = [call EXCEPT ![t] = c], IsCall(c, used'.entries, used'.made),
           c.at \in Owning \ {"acquire", "unlease"}, c.h = call[t].h, call[t].at # "unlease", Fits(c, d)
    PROVE  ClientInv'
<1>1. call[t].at \in Working /\ c.at # "idle" BY DEF OwnerRest, Owning, Working, Sending
<1>2. mu[call[t].h] = t /\ leased' \in Nat /\ call[t].h \in Holdings
  BY Owner DEF OwnerRest, ClientInv, TypesInv
<1>3. mu' = [mu EXCEPT ![call[t].h] = t] BY <1>2 DEF ClientInv, TypesInv
<1>4. LockStep(t, c, d) BY <1>1, <1>2, <1>3 DEF LockStep, OwnerRest
<1> QED BY <1>1, <1>4, OwnerKeeps DEF OwnerRest

\* Nothing at the server or in the holding changes.
LEMMA QuietRest ==
    ASSUME ClientInv, NEW t \in Threads, call[t].at \in Owning, Grows,
           UNCHANGED <<srv, holding, listed, holdMu, leased, orphaned>>,
           NEW d, d = holding[call[t].h]
    PROVE  OwnerRest(t, d)
<1> PICK h : h = call[t].h OBVIOUS
<1>1. TypesInv /\ h \in Holdings /\ IsHolding(d, used.entries) /\ IsServer(srv, used.entries) BY Owner
<1>2. used.entries \in Nat /\ used'.entries \in Nat /\ used.entries <= used'.entries
  BY <1>1, UsedNat DEF Grows
<1>3. IsHolding(d, used'.entries) /\ IsServer(srv', used'.entries) BY <1>1, <1>2, HoldingGrows, ServerGrows
<1>4. holding' = [holding EXCEPT ![h] = d] BY <1>1 DEF TypesInv
<1>5. srv'.lease # 0 /\ srv'.lease = d.lease /\ ~d.behind => d.head = srv'.head
  BY <1>1 DEF ClientInv, LeaseInv, HeadInStep
<1>6. ~orphaned /\ srv'.lease # 0 /\ srv'.lease = d.lease => d.sess.ents \subseteq srv'.ents
  BY <1>1 DEF ClientInv, ListInv
<1> QED BY <1>3, <1>4, <1>5, <1>6 DEF OwnerRest

LEMMA UnleaseKeeps ==
    ASSUME ClientInv, NEW t \in Threads, Unlease(t)
    PROVE  ClientInv'
<1> PICK h : h = call[t].h OBVIOUS
<1> PICK d : d = holding[h] OBVIOUS
<1>1. call[t].at \in Owning BY DEF Unlease, In, Owning
<1>2. TypesInv /\ h \in Holdings /\ IsHolding(d, used.entries) /\ IsServer(srv, used.entries) BY <1>1, Owner
<1>3. PICK f \in Fates :
        /\ Fate(f) /\ Return(t, f = "answered")
        /\ srv' = IF f # "undelivered" /\ srv.lease = H(t).lease THEN [srv EXCEPT !.lease = 0] ELSE srv
  BY DEF Unlease
<1>4. Grows /\ used'.entries = used.entries BY <1>2, <1>3, FateGrows
<1>5. UNCHANGED <<holding, listed, holdMu, leased, orphaned>> BY DEF Unlease
<1>6. CASE srv' = srv
  <2>1. OwnerRest(t, d) BY <1>1, <1>4, <1>5, <1>6, QuietRest
  <2> QED BY <2>1, <1>3, OwnerReturns
<1>7. CASE srv' = [srv EXCEPT !.lease = 0]
  <2>1. IsServer(srv', used'.entries) /\ srv'.lease = 0 BY <1>2, <1>4, <1>7 DEF IsServer
  <2>2. holding' = [holding EXCEPT ![h] = d] BY <1>2, <1>5 DEF TypesInv
  <2>3. OwnerRest(t, d) BY <1>1, <1>2, <1>4, <1>5, <2>1, <2>2 DEF OwnerRest
  <2> QED BY <2>3, <1>3, OwnerReturns
<1> QED BY <1>3, <1>6, <1>7

\* The session is read, or the one the holding has is used.
LEMMA SessionKeeps ==
    ASSUME ClientInv, NEW t \in Threads, Session(t)
    PROVE  ClientInv'
<1> PICK h : h = call[t].h OBVIOUS
<1> PICK b : b = holding[h] OBVIOUS
<1>1. call[t].at = "session" /\ call[t].at \in Owning BY DEF Session, In, Owning, Sending
<1>2. /\ TypesInv /\ h \in Holdings /\ IsHolding(b, used.entries) /\ IsServer(srv, used.entries)
      /\ IsCall(call[t], used.entries, used.made) /\ Fits(call[t], b)
  BY <1>1, Owner
<1>3. b.lease # 0 /\ call[t].op \in {"open", "write", "sethead"} BY <1>1, <1>2 DEF Fits, Sending, IsCall
<1>4. UNCHANGED <<srv, listed, holdMu, leased, orphaned>> BY DEF Session
<1>5. PICK f \in {"answered", "undelivered"} :
        LET read == f = "answered" /\ srv.exists /\ b.head \in srv.ents \cup {Root} IN
        /\ Fate(f)
        /\ holding' = IF b.sess.has \/ ~read THEN holding
                      ELSE [holding EXCEPT ![h].sess = [has |-> TRUE, ents |-> srv.ents, leaf |-> b.head]]
        /\ IF ~b.sess.has /\ ~read
           THEN IF Of(t, {"open"}) THEN Goto(t, "drop") /\ UNCHANGED mu ELSE Return(t, FALSE)
           ELSE IF Of(t, {"open"}) THEN Return(t, TRUE)
                ELSE Goto(t, IF Of(t, {"write"}) THEN "prepare" ELSE "fence") /\ UNCHANGED mu
  BY DEF Session, H, Sess
<1>6. Grows /\ used'.entries = used.entries /\ used'.made = used.made BY <1>2, <1>5, FateGrows
<1>7. PICK d : OwnerRest(t, d) /\ d.lease # 0
  <2>1. CASE holding' = holding
    <3>1. OwnerRest(t, b) BY <1>1, <1>4, <1>6, <2>1, QuietRest
    <3> QED BY <3>1, <1>3
  <2>2. CASE /\ b.head \in srv.ents \cup {Root}
             /\ holding' = [holding EXCEPT ![h].sess = [has |-> TRUE, ents |-> srv.ents, leaf |-> b.head]]
    <3>1. PICK y : y = TRUE OBVIOUS
    <3>2. PICK s : s = [has |-> y, ents |-> srv.ents, leaf |-> b.head] OBVIOUS
    <3>3. PICK d : d = [b EXCEPT !.sess = s] OBVIOUS
    <3>4. s = [k \in {"has", "ents", "leaf"} |-> s[k]] /\ s.ents = srv.ents /\ s.leaf = b.head BY <3>2
    <3>5. /\ d = [k \in {"lease", "done", "sess", "head", "behind", "stirred"} |-> d[k]] /\ d.sess = s
          /\ d.lease = b.lease /\ d.head = b.head
      BY <3>3, <1>2 DEF IsHolding
    <3>6. d.done = b.done /\ d.behind = b.behind BY <3>3, <1>2 DEF IsHolding
    <3>7. IsHolding(d, used'.entries)
      <4>1. srv.ents \subseteq 1..used.entries BY <1>2 DEF IsServer
      <4>2. d.lease \in Nat BY <1>2, <3>5 DEF IsHolding
      <4> QED BY <2>2, <3>4, <3>5, <4>1, <4>2, <1>3, <1>6 DEF IsHolding
    <3>8. holding' = [holding EXCEPT ![h] = d] BY <2>2, <3>1, <3>2, <3>3
    <3>9. srv'.lease # 0 /\ srv'.lease = d.lease /\ ~d.behind => d.head = srv'.head
      BY <1>2, <1>4, <3>5, <3>6 DEF ClientInv, LeaseInv, HeadInStep
    <3>10. d.sess.ents \subseteq srv'.ents BY <1>4, <3>4, <3>5
    <3>11. IsServer(srv', used'.entries) BY <1>2, <1>4, <1>6
    <3>12. OwnerRest(t, d) BY <1>1, <1>4, <1>6, <3>5, <3>6, <3>7, <3>8, <3>9, <3>10, <3>11 DEF OwnerRest
    <3> QED BY <3>5, <3>12, <1>3
  <2> QED BY <1>5, <2>1, <2>2
<1>8. CASE Return(t, FALSE) \/ Return(t, TRUE) BY <1>7, <1>8, OwnerReturns
<1>9. ASSUME NEW at \in {"drop", "prepare", "fence"}, Goto(t, at), UNCHANGED mu,
             at = "prepare" => Of(t, {"write"}), at = "fence" => ~Of(t, {"open"}) /\ ~Of(t, {"write"})
      PROVE  ClientInv'
  <2>1. PICK c : /\ call' = [call EXCEPT ![t] = c]
                 /\ c = [k \in {"op", "at", "h", "e", "to", "ok"} |-> c[k]]
                 /\ c.at = at /\ c.op = call[t].op /\ c.h = call[t].h /\ c.e = call[t].e
                 /\ c.h \in Holdings /\ c.h <= used.made /\ c.e \in 0..used.entries
    BY <1>1, <1>2, <1>9, Gone DEF Ats
  <2>2. ~Carrying(c) BY <2>1, <1>9 DEF Carrying, Of
  <2>3. IsCall(c, used'.entries, used'.made) BY <2>1, <2>2, <1>3, <1>6, <1>9 DEF IsCall, Ats, Of
  <2>4. Fits(c, d) BY <2>1, <2>2, <1>7, <1>9 DEF Fits
  <2> QED BY <2>1, <2>3, <2>4, <1>1, <1>7, <1>9, OwnerGoesOn DEF Owning, Sending
<1> QED BY <1>5, <1>8, <1>9 DEF Of

\* Prepare makes an entry, or takes the one that failed up again.
LEMMA PrepareKeeps ==
    ASSUME ClientInv, NEW t \in Threads, Prepare(t)
    PROVE  ClientInv'
<1> PICK h : h = call[t].h OBVIOUS
<1> PICK b : b = holding[h] OBVIOUS
<1>1. call[t].at = "prepare" /\ call[t].at \in Owning BY DEF Prepare, In, Owning, Sending
<1>2. /\ TypesInv /\ h \in Holdings /\ IsHolding(b, used.entries) /\ IsServer(srv, used.entries)
      /\ IsCall(call[t], used.entries, used.made) /\ Fits(call[t], b)
  BY <1>1, Owner
<1>3. b.lease # 0 /\ call[t].op = "write" BY <1>1, <1>2 DEF Fits, Sending, IsCall
<1>4. UNCHANGED <<srv, holding, listed, holdMu, leased, orphaned>> BY DEF Prepare
<1>5. used.entries \in Nat /\ used.made \in Nat BY <1>2, UsedNat
<1>6. CASE UNCHANGED used /\ (Return(t, TRUE) \/ Return(t, FALSE))
  <2>1. Grows BY <1>2, <1>6, FateGrows
  <2>2. OwnerRest(t, b) BY <1>1, <1>4, <2>1, QuietRest
  <2> QED BY <2>2, <1>6, OwnerReturns
<1>7. CASE /\ UNCHANGED <<used, mu>> /\ Goto(t, "fence")
           /\ call[t].e # 0 /\ call[t].e \notin b.sess.ents
  <2>1. Grows BY <1>2, <1>7, FateGrows
  <2>2. OwnerRest(t, b) BY <1>1, <1>4, <2>1, QuietRest
  <2>3. PICK c : /\ call' = [call EXCEPT ![t] = c]
                 /\ c = [k \in {"op", "at", "h", "e", "to", "ok"} |-> c[k]]
                 /\ c.at = "fence" /\ c.op = call[t].op /\ c.h = call[t].h /\ c.e = call[t].e
                 /\ c.h \in Holdings /\ c.h <= used.made /\ c.e \in 0..used.entries
    BY <1>1, <1>2, <1>7, Gone DEF Ats
  <2>4. IsCall(c, used'.entries, used'.made) BY <2>3, <1>3, <1>7 DEF IsCall, Ats, Carrying
  <2>5. Fits(c, b) BY <2>3, <1>3, <1>7 DEF Fits, Carrying
  <2> QED BY <2>2, <2>3, <2>4, <2>5, <1>1, <1>7, OwnerGoesOn DEF Owning, Sending
<1>8. CASE /\ used.entries < MaxEntries
           /\ used' = [used EXCEPT !.entries = @ + 1]
           /\ call' = [call EXCEPT ![t].e = used.entries + 1, ![t].at = "fence"]
           /\ UNCHANGED mu
  <2>1. PICK n \in 0..MaxEntries : n = used.entries + 1 BY <1>5, <1>8, ClientAssumption
  <2>2. used' = [used EXCEPT !.entries = n] BY <1>8, <2>1
  <2>3. /\ used' \in [calls : 0..MaxCalls, entries : 0..MaxEntries, faults : Nat, events : Nat, made : Nat]
        /\ used'.entries = n /\ used'.made = used.made /\ used'.calls = used.calls
    BY <1>2, <2>2 DEF TypesInv
  <2>4. Grows BY <2>1, <2>3, <1>2, <1>5 DEF Grows, TypesInv
  <2>5. OwnerRest(t, b) BY <1>1, <1>4, <2>4, QuietRest
  <2>6. PICK a : a = call[t] OBVIOUS
  <2>7. PICK c : c = [a EXCEPT !.e = n, !.at = "fence"] OBVIOUS
  <2>8. IsCall(a, used.entries, used.made) BY <1>2, <2>6
  <2>9. /\ c = [k \in {"op", "at", "h", "e", "to", "ok"} |-> c[k]]
        /\ c.at = "fence" /\ c.op = a.op /\ c.h = a.h /\ c.e = n
    BY <2>7, <2>8 DEF IsCall
  <2>10. call' = [call EXCEPT ![t] = c] BY <1>8, <1>2, <2>1, <2>6, <2>7 DEF TypesInv
  <2>11. n # 0 /\ n \in 0..n /\ n \notin b.sess.ents
    <3>1. b.sess.ents \subseteq 1..used.entries BY <1>2 DEF IsHolding
    <3> QED BY <3>1, <2>1, <1>5
  <2>12. a.h \in Holdings /\ a.h <= used.made BY <2>6, <2>8, <1>1 DEF IsCall
  <2>13. IsCall(c, used'.entries, used'.made)
    BY <2>3, <2>6, <2>9, <2>11, <2>12, <1>3 DEF IsCall, Ats
  <2>14. Fits(c, b) BY <2>9, <2>11, <1>3 DEF Fits, Carrying
  <2> QED BY <2>5, <2>6, <2>9, <2>10, <2>13, <2>14, <1>1, <1>8, OwnerGoesOn DEF Owning, Sending
<1> QED BY <1>6, <1>7, <1>8 DEF Prepare, Sess, H

\* Past the fence a write moves the head to the session's leaf, if they differ.
LEMMA FenceKeeps ==
    ASSUME ClientInv, NEW t \in Threads, Fence(t)
    PROVE  ClientInv'
<1> PICK h : h = call[t].h OBVIOUS
<1> PICK b : b = holding[h] OBVIOUS
<1>1. call[t].at = "fence" /\ call[t].at \in Owning BY DEF Fence, In, Owning, Sending
<1>2. /\ TypesInv /\ h \in Holdings /\ IsHolding(b, used.entries) /\ IsServer(srv, used.entries)
      /\ IsCall(call[t], used.entries, used.made) /\ Fits(call[t], b)
  BY <1>1, Owner
<1>3. b.lease # 0 /\ call[t].op \in {"write", "sethead", "delete"} BY <1>1, <1>2 DEF Fits, Sending, IsCall
<1>4. UNCHANGED <<srv, holding, listed, holdMu, leased, orphaned>> BY DEF Fence
<1>5. CASE Fate("undelivered") /\ Return(t, FALSE)
  <2>1. Grows BY <1>2, <1>5, FateGrows
  <2>2. OwnerRest(t, b) BY <1>1, <1>4, <2>1, QuietRest
  <2> QED BY <2>2, <1>5, OwnerReturns
<1>6. ASSUME NEW m, NEW at, UNCHANGED <<mu, used>>,
             call' = [call EXCEPT ![t].to = m, ![t].at = at],
             \/ at = "move" /\ call[t].op = "write" /\ m = b.sess.leaf
             \/ at = call[t].op /\ (call[t].op = "write" => b.sess.leaf \in {Root, b.head})
      PROVE  ClientInv'
  <2>1. Grows BY <1>2, <1>6, FateGrows
  <2>2. OwnerRest(t, b) BY <1>1, <1>4, <2>1, QuietRest
  <2>3. PICK a : a = call[t] OBVIOUS
  <2>4. PICK c : c = [a EXCEPT !.to = m, !.at = at] OBVIOUS
  <2>5. IsCall(a, used.entries, used.made) BY <1>2, <2>3
  <2>6. /\ c = [k \in {"op", "at", "h", "e", "to", "ok"} |-> c[k]]
        /\ c.at = at /\ c.op = a.op /\ c.h = a.h /\ c.e = a.e /\ c.to = m
    BY <2>4, <2>5 DEF IsCall
  <2>7. call' = [call EXCEPT ![t] = c] BY <1>6, <1>2, <2>3, <2>4 DEF TypesInv
  <2>8. a.h \in Holdings /\ a.h <= used.made /\ a.e \in 0..used.entries BY <2>3, <2>5, <1>1 DEF IsCall
  <2>9. a.op = "write" => a.e # 0 /\ a.e \notin b.sess.ents
    BY <1>1, <1>2, <2>3, <2>5 DEF IsCall, Fits, Carrying
  <2>10. at \in {"move", "write", "sethead", "delete"} BY <1>3, <1>6
  <2>11. Carrying(c) => a.op = "write" BY <2>3, <2>6, <1>3, <1>6 DEF Carrying
  <2>12. IsCall(c, used'.entries, used'.made)
    BY <2>3, <2>6, <2>8, <2>9, <2>10, <2>11, <1>3, <1>6 DEF IsCall, Ats
  <2>13. Fits(c, b) BY <2>3, <2>6, <2>9, <2>10, <2>11, <1>3, <1>6 DEF Fits
  <2> QED BY <2>2, <2>3, <2>6, <2>7, <2>10, <2>12, <2>13, <1>1, <1>6, OwnerGoesOn DEF Owning, Sending
<1>7. CASE \E to \in IF Of(t, {"write"}) /\ b.sess.leaf \notin {Root, b.head}
                     THEN {b.sess.leaf} ELSE b.sess.ents \cup {Root} :
             /\ UNCHANGED <<mu, used>>
             /\ call' = [call EXCEPT ![t].to = IF Of(t, {"sethead"}) \/ (Of(t, {"write"}) /\ b.sess.leaf \notin {Root, b.head})
                                               THEN to ELSE Root,
                                     ![t].at = IF Of(t, {"write"}) /\ b.sess.leaf \notin {Root, b.head} THEN "move" ELSE call[t].op]
  <2>1. CASE Of(t, {"write"}) /\ b.sess.leaf \notin {Root, b.head}
    <3>1. call' = [call EXCEPT ![t].to = b.sess.leaf, ![t].at = "move"] /\ UNCHANGED <<mu, used>> BY <1>7, <2>1
    <3> QED BY <3>1, <2>1, <1>6 DEF Of
  <2>2. CASE ~(Of(t, {"write"}) /\ b.sess.leaf \notin {Root, b.head})
    <3>1. PICK m : call' = [call EXCEPT ![t].to = m, ![t].at = call[t].op] /\ UNCHANGED <<mu, used>> BY <1>7, <2>2
    <3> QED BY <3>1, <2>2, <1>6 DEF Of
  <2> QED BY <2>1, <2>2
<1> QED BY <1>5, <1>7 DEF Fence, Sess, H

\* The server's session with its head moved.
LEMMA ServerMoved ==
    ASSUME NEW n, IsServer(srv, n), srv.lease # 0, NEW to \in srv.ents \cup {Root}, srv' = [srv EXCEPT !.head = to]
    PROVE  IsServer(srv', n) /\ srv'.lease = srv.lease /\ srv'.head = to /\ srv'.ents = srv.ents
BY DEF IsServer

\* The holding after an answer was lost.
LEMMA HoldingUntold ==
    ASSUME NEW b, NEW n, IsHolding(b, n), NEW x, NEW d, d = [b EXCEPT !.behind = x]
    PROVE  /\ IsHolding(d, n) /\ d.lease = b.lease /\ d.done = b.done
           /\ d.head = b.head /\ d.sess = b.sess /\ d.behind = x
<1>1. /\ d = [k \in {"lease", "done", "sess", "head", "behind", "stirred"} |-> d[k]]
      /\ d.lease = b.lease /\ d.head = b.head /\ d.sess = b.sess
  BY DEF IsHolding
<1>2. d.done = b.done /\ d.behind = x BY DEF IsHolding
<1>3. IsHolding(d, n) BY <1>1 DEF IsHolding
<1> QED BY <1>1, <1>2, <1>3

\* A head moved, or its answer lost, or refused.
LEMMA MoveHeadKeeps ==
    ASSUME ClientInv, NEW t \in Threads, MoveHead(t)
    PROVE  ClientInv'
<1> PICK h : h = call[t].h OBVIOUS
<1> PICK b : b = holding[h] OBVIOUS
<1> PICK to : to = call[t].to OBVIOUS
<1>1. call[t].at \in {"move", "rootmove", "sethead"} /\ call[t].at \in Owning BY DEF MoveHead, Owning, Sending
<1>2. /\ TypesInv /\ h \in Holdings /\ IsHolding(b, used.entries) /\ IsServer(srv, used.entries)
      /\ IsCall(call[t], used.entries, used.made) /\ Fits(call[t], b)
  BY <1>1, Owner
<1>3. b.lease # 0 BY <1>1, <1>2 DEF Fits, Sending
<1>4. UNCHANGED <<listed, holdMu, leased, orphaned>> BY DEF MoveHead
<1>5. PICK x : x = IF In(t, "sethead") THEN b.sess.leaf ELSE b.head OBVIOUS
<1>6. PICK s : s = IF ~In(t, "sethead") THEN b.sess
                   ELSE IF to \in b.sess.ents \cup {Root} THEN [b.sess EXCEPT !.leaf = to] ELSE NoSession
  OBVIOUS
<1>7. PICK f \in Fates :
        LET moved == f # "undelivered" /\ Swaps(t, x, to) IN
        /\ Fate(f)
        /\ srv' = IF moved THEN [srv EXCEPT !.head = to] ELSE srv
        /\ IF moved /\ f = "answered"
           THEN /\ holding' = [holding EXCEPT ![h] = [@ EXCEPT !.head = to, !.sess = s, !.behind = FALSE]]
                /\ IF In(t, "move") THEN Goto(t, "write") /\ UNCHANGED mu ELSE Return(t, TRUE)
           ELSE /\ holding' = [holding EXCEPT ![h].behind = @ \/ moved]
                /\ Return(t, FALSE)
  BY <1>5, <1>6 DEF MoveHead, Sess, H
<1>8. Grows /\ used'.entries = used.entries /\ used'.made = used.made BY <1>2, <1>7, FateGrows
<1>9. Swaps(t, x, to) => srv.lease # 0 /\ srv.lease = b.lease /\ to \in srv.ents \cup {Root}
  BY DEF Swaps, Fenced, H
<1>10. ASSUME Swaps(t, x, to), srv' = [srv EXCEPT !.head = to]
       PROVE  IsServer(srv', used'.entries) /\ srv'.lease = srv.lease /\ srv'.head = to /\ srv'.ents = srv.ents
  BY <1>10, <1>2, <1>8, <1>9, ServerMoved
<1>11. CASE f # "undelivered" /\ Swaps(t, x, to) /\ f = "answered"
  <2>1. s = [k \in {"has", "ents", "leaf"} |-> s[k]] /\ s.ents \subseteq b.sess.ents /\ s.leaf \in s.ents \cup {Root}
    <3>1. CASE ~In(t, "sethead") BY <3>1, <1>2, <1>6 DEF IsHolding
    <3>2. CASE In(t, "sethead") /\ to \in b.sess.ents \cup {Root}
      <4>1. s = [b.sess EXCEPT !.leaf = to] BY <3>2, <1>6
      <4> QED BY <4>1, <3>2, <1>2 DEF IsHolding
    <3>3. CASE In(t, "sethead") /\ to \notin b.sess.ents \cup {Root}
      <4>1. PICK no : no = FALSE OBVIOUS
      <4>2. s = [has |-> no, ents |-> {}, leaf |-> Root] BY <3>3, <4>1, <1>6 DEF NoSession
      <4> QED BY <4>2
    <3> QED BY <3>1, <3>2, <3>3
  <2>2. s.ents \subseteq 1..used'.entries BY <2>1, <1>2, <1>8 DEF IsHolding
  <2>0. PICK no : no = FALSE OBVIOUS
  <2>3. PICK d : d = [b EXCEPT !.head = to, !.sess = s, !.behind = no] OBVIOUS
  <2>4. IsHolding(b, used'.entries) BY <1>2, <1>8
  <2>5. /\ IsHolding(d, used'.entries) /\ d.lease = b.lease /\ d.done = b.done /\ d.stirred = b.stirred
        /\ d.head = to /\ d.sess = s
    <3>1. /\ d = [k \in {"lease", "done", "sess", "head", "behind", "stirred"} |-> d[k]]
          /\ d.lease = b.lease /\ d.head = to /\ d.sess = s
      BY <2>3, <2>4 DEF IsHolding
    <3>2. d.done = b.done /\ d.stirred = b.stirred BY <2>3, <2>4 DEF IsHolding
    <3>3. IsHolding(d, used'.entries) BY <1>3, <2>1, <2>2, <2>4, <3>1 DEF IsHolding
    <3> QED BY <3>1, <3>2, <3>3
  <2>6. holding' = [holding EXCEPT ![h] = d] BY <1>7, <1>11, <2>0, <2>3
  <2>7. srv' = [srv EXCEPT !.head = to] BY <1>7, <1>11
  <2>8. IsServer(srv', used'.entries) /\ srv'.lease = srv.lease /\ srv'.head = to /\ srv'.ents = srv.ents
    BY <1>10, <1>11, <2>7
  <2>9. ~orphaned => d.sess.ents \subseteq srv'.ents
    <3>1. ~orphaned => b.sess.ents \subseteq srv.ents BY <1>2, <1>9, <1>11 DEF ClientInv, ListInv
    <3> QED BY <3>1, <2>1, <2>5, <2>8
  <2>10. OwnerRest(t, d) BY <1>1, <1>4, <1>8, <1>9, <1>11, <2>5, <2>6, <2>8, <2>9 DEF OwnerRest
  <2>11. CASE ~In(t, "move")
    <3>1. Return(t, TRUE) BY <1>7, <1>11, <2>11
    <3> QED BY <3>1, <2>10, OwnerReturns
  <2>12. CASE In(t, "move")
    <3>1. call[t].at = "move" /\ Goto(t, "write") /\ UNCHANGED mu BY <1>7, <1>11, <2>12 DEF In
    <3>2. PICK c : /\ call' = [call EXCEPT ![t] = c]
                   /\ c = [k \in {"op", "at", "h", "e", "to", "ok"} |-> c[k]]
                   /\ c.at = "write" /\ c.op = call[t].op /\ c.h = call[t].h /\ c.e = call[t].e
                   /\ c.h \in Holdings /\ c.h <= used.made /\ c.e \in 0..used.entries
      BY <1>2, <3>1, Gone DEF Ats
    <3>3. c.op = "write" /\ c.e # 0 /\ c.e \notin b.sess.ents
      BY <1>2, <3>1, <3>2 DEF IsCall, Fits, Carrying
    <3>4. IsCall(c, used'.entries, used'.made) BY <1>8, <3>2, <3>3 DEF IsCall, Ats
    <3>5. d.sess = b.sess BY <2>5, <2>12, <1>6, <3>1 DEF In
    <3>6. ~d.stirred => d.sess.leaf = d.head BY <1>2, <2>5, <3>1, <3>5 DEF Fits
    <3>7. Fits(c, d) BY <1>3, <2>5, <3>2, <3>3, <3>5, <3>6 DEF Fits
    <3> QED BY <2>10, <3>1, <3>2, <3>4, <3>7, OwnerGoesOn DEF Owning, Sending
  <2> QED BY <2>11, <2>12
<1>12. CASE ~(f # "undelivered" /\ Swaps(t, x, to) /\ f = "answered")
  <2>1. PICK z : z = (b.behind \/ (f # "undelivered" /\ Swaps(t, x, to))) OBVIOUS
  <2>2. PICK d : d = [b EXCEPT !.behind = z] OBVIOUS
  <2>3. holding' = [holding EXCEPT ![h] = d] /\ Return(t, FALSE) BY <1>7, <1>12, <2>1, <2>2
  <2>4. IsHolding(b, used'.entries) BY <1>2, <1>8
  <2>5. /\ IsHolding(d, used'.entries) /\ d.lease = b.lease /\ d.done = b.done
        /\ d.head = b.head /\ d.sess = b.sess /\ d.behind = z
    BY <2>2, <2>4, HoldingUntold
  <2>6. CASE srv' = srv
    <3>1. srv'.lease # 0 /\ srv'.lease = d.lease /\ ~d.behind => d.head = srv'.head
      BY <1>2, <2>1, <2>5, <2>6 DEF ClientInv, LeaseInv, HeadInStep
    <3>2. ~orphaned /\ srv'.lease # 0 /\ srv'.lease = d.lease => d.sess.ents \subseteq srv'.ents
      BY <1>2, <2>5, <2>6 DEF ClientInv, ListInv
    <3>3. IsServer(srv', used'.entries) BY <1>2, <1>8, <2>6
    <3>4. OwnerRest(t, d) BY <1>1, <1>4, <1>8, <2>3, <2>5, <2>6, <3>1, <3>2, <3>3 DEF OwnerRest
    <3> QED BY <3>4, <2>3, OwnerReturns
  <2>7. CASE f # "undelivered" /\ Swaps(t, x, to) /\ srv' = [srv EXCEPT !.head = to]
    <3>1. IsServer(srv', used'.entries) /\ srv'.lease = srv.lease /\ srv'.head = to /\ srv'.ents = srv.ents
      BY <1>10, <2>7
    <3>2. d.behind BY <2>1, <2>5, <2>7
    <3>3. ~orphaned => d.sess.ents \subseteq srv'.ents
      BY <1>2, <1>9, <2>5, <2>7, <3>1 DEF ClientInv, ListInv
    <3>4. OwnerRest(t, d) BY <1>1, <1>4, <1>8, <1>9, <2>3, <2>5, <2>7, <3>1, <3>2, <3>3 DEF OwnerRest
    <3> QED BY <3>4, <2>3, OwnerReturns
  <2> QED BY <1>7, <2>6, <2>7
<1> QED BY <1>11, <1>12

\* The server's session with an entry more.
LEMMA ServerAppended ==
    ASSUME NEW n \in Nat, IsServer(srv, n), srv.lease # 0, NEW e \in 1..n, NEW r, r = Appended(e)
    PROVE  IsServer(r, n) /\ r.lease = srv.lease /\ r.ents = srv.ents \cup {e}
<1>1. CASE e \in srv.ents BY <1>1 DEF Appended
<1>2. CASE e \notin srv.ents
  <2>1. PICK a : a = srv.ents \cup {e} OBVIOUS
  <2>2. PICK x : x = IF parent[e] = srv.head THEN e ELSE srv.head OBVIOUS
  <2>3. r = [srv EXCEPT !.ents = a, !.head = x] BY <1>2, <2>1, <2>2 DEF Appended
  <2>4. a \subseteq 1..n /\ x \in a \cup {Root} /\ x \in (1..n) \cup {Root} BY <2>1, <2>2 DEF IsServer
  <2> QED BY <2>1, <2>3, <2>4 DEF IsServer
<1> QED BY <1>1, <1>2

\* The client's session with an entry more.
LEMMA SessionCommitted ==
    ASSUME NEW b, b = [k \in {"has", "ents", "leaf"} |-> b[k]], b.leaf \in b.ents \cup {Root},
           NEW e, NEW s, s = Committed(b, e)
    PROVE  /\ s = [k \in {"has", "ents", "leaf"} |-> s[k]] /\ s.ents = b.ents \cup {e}
           /\ s.leaf \in s.ents \cup {Root}
           /\ s.leaf = IF parent[e] = b.leaf THEN e ELSE b.leaf
<1>1. PICK a : a = b.ents \cup {e} OBVIOUS
<1>2. PICK x : x = IF parent[e] = b.leaf THEN e ELSE b.leaf OBVIOUS
<1>3. s = [b EXCEPT !.ents = a, !.leaf = x] BY <1>1, <1>2 DEF Committed
<1>4. s = [k \in {"has", "ents", "leaf"} |-> s[k]] /\ s.ents = a /\ s.leaf = x BY <1>3
<1> QED BY <1>1, <1>2, <1>4

\* An entry written, or its answer lost, or refused.
LEMMA WriteKeeps ==
    ASSUME ClientInv, NEW t \in Threads, Write(t)
    PROVE  ClientInv'
<1> PICK h : h = call[t].h OBVIOUS
<1> PICK b : b = holding[h] OBVIOUS
<1> PICK e : e = call[t].e OBVIOUS
<1>1. call[t].at = "write" /\ call[t].at \in Owning BY DEF Write, In, Owning, Sending
<1>2. /\ TypesInv /\ h \in Holdings /\ IsHolding(b, used.entries) /\ IsServer(srv, used.entries)
      /\ IsCall(call[t], used.entries, used.made) /\ Fits(call[t], b)
  BY <1>1, Owner
<1>3. b.lease # 0 BY <1>1, <1>2 DEF Fits, Sending
<1>4. UNCHANGED <<listed, holdMu, leased, orphaned>> BY DEF Write
<1>5. PICK r : r = Appended(e) OBVIOUS
<1>6. PICK s : s = Committed(b.sess, e) OBVIOUS
<1>7. PICK f \in Fates :
        LET lands == f # "undelivered" /\ Fenced(t) IN
        /\ Fate(f)
        /\ srv' = IF lands THEN r ELSE srv
        /\ IF lands /\ f = "answered"
           THEN /\ holding' = [holding EXCEPT ![h] = [@ EXCEPT !.head = r.head, !.sess = s, !.behind = FALSE]]
                /\ \/ call' = [call EXCEPT ![t].to = e, ![t].at = "rootmove"] /\ UNCHANGED mu
                   \/ Return(t, TRUE)
           ELSE /\ holding' = [holding EXCEPT ![h].behind = @ \/ lands]
                /\ Return(t, FALSE)
  BY <1>5, <1>6 DEF Write, Sess, H, HeadAfter
<1>8. Grows /\ used'.entries = used.entries /\ used'.made = used.made BY <1>2, <1>7, FateGrows
<1>9. Fenced(t) => srv.lease # 0 /\ srv.lease = b.lease BY DEF Fenced, H
<1>10. used.entries \in Nat /\ e \in 1..used.entries
  <2>1. used.entries \in Nat /\ e \in 0..used.entries /\ e # 0 BY <1>1, <1>2, UsedNat DEF IsCall, Carrying
  <2> QED BY <2>1
<1>11. Fenced(t) => IsServer(r, used.entries) /\ r.lease = srv.lease /\ r.ents = srv.ents \cup {e}
  BY <1>2, <1>5, <1>9, <1>10, ServerAppended
<1>12. CASE f # "undelivered" /\ Fenced(t) /\ f = "answered"
  <2>1. b.sess = [k \in {"has", "ents", "leaf"} |-> b.sess[k]] /\ b.sess.leaf \in b.sess.ents \cup {Root}
    BY <1>2 DEF IsHolding
  <2>2. /\ s = [k \in {"has", "ents", "leaf"} |-> s[k]] /\ s.ents = b.sess.ents \cup {e}
        /\ s.leaf \in s.ents \cup {Root}
    <3>1. PICK a : a = b.sess OBVIOUS
    <3>2. a = [k \in {"has", "ents", "leaf"} |-> a[k]] /\ a.leaf \in a.ents \cup {Root} /\ s = Committed(a, e)
      BY <2>1, <1>6, <3>1
    <3>3. /\ s = [k \in {"has", "ents", "leaf"} |-> s[k]] /\ s.ents = a.ents \cup {e}
          /\ s.leaf \in s.ents \cup {Root}
      BY <3>2, SessionCommitted
    <3> QED BY <3>1, <3>3
  <2>3. s.ents \subseteq 1..used'.entries BY <2>2, <1>2, <1>8, <1>10 DEF IsHolding
  <2>4. PICK no : no = FALSE OBVIOUS
  <2>5. PICK d : d = [b EXCEPT !.head = r.head, !.sess = s, !.behind = no] OBVIOUS
  <2>6. IsHolding(b, used'.entries) BY <1>2, <1>8
  <2>7. /\ IsHolding(d, used'.entries) /\ d.lease = b.lease /\ d.done = b.done
        /\ d.head = r.head /\ d.sess = s
    <3>1. /\ d = [k \in {"lease", "done", "sess", "head", "behind", "stirred"} |-> d[k]]
          /\ d.lease = b.lease /\ d.head = r.head /\ d.sess = s
      BY <2>5, <2>6 DEF IsHolding
    <3>2. d.done = b.done BY <2>5, <2>6 DEF IsHolding
    <3>3. IsHolding(d, used'.entries) BY <1>3, <2>2, <2>3, <2>6, <3>1 DEF IsHolding
    <3> QED BY <3>1, <3>2, <3>3
  <2>8. holding' = [holding EXCEPT ![h] = d] BY <1>7, <1>12, <2>4, <2>5
  <2>9. srv' = r BY <1>7, <1>12
  <2>10. IsServer(srv', used'.entries) /\ srv'.lease = srv.lease /\ srv'.head = r.head /\ srv'.ents = srv.ents \cup {e}
    BY <1>8, <1>11, <1>12, <2>9
  <2>11. ~orphaned => d.sess.ents \subseteq srv'.ents
    <3>1. ~orphaned => b.sess.ents \subseteq srv.ents BY <1>2, <1>9, <1>12 DEF ClientInv, ListInv
    <3> QED BY <3>1, <2>2, <2>7, <2>10
  <2>12. OwnerRest(t, d) BY <1>1, <1>4, <1>8, <1>9, <1>12, <2>7, <2>8, <2>10, <2>11 DEF OwnerRest
  <2>13. CASE Return(t, TRUE) BY <2>12, <2>13, OwnerReturns
  <2>14. CASE call' = [call EXCEPT ![t].to = e, ![t].at = "rootmove"] /\ UNCHANGED mu
    <3>1. PICK a : a = call[t] OBVIOUS
    <3>2. PICK c : c = [a EXCEPT !.to = e, !.at = "rootmove"] OBVIOUS
    <3>3. IsCall(a, used.entries, used.made) BY <1>2, <3>1
    <3>4. /\ c = [k \in {"op", "at", "h", "e", "to", "ok"} |-> c[k]]
          /\ c.at = "rootmove" /\ c.h = a.h /\ c.e = a.e /\ c.to = e
      BY <3>2, <3>3 DEF IsCall
    <3>5. call' = [call EXCEPT ![t] = c] BY <2>14, <1>2, <3>1, <3>2 DEF TypesInv
    <3>6. a.h \in Holdings /\ a.h <= used.made /\ a.e \in 0..used.entries /\ a.e = e
      BY <3>1, <3>3, <1>1 DEF IsCall
    <3>7. IsCall(c, used'.entries, used'.made) BY <3>4, <3>6, <1>8 DEF IsCall, Ats, Carrying
    <3>8. Fits(c, d) BY <1>3, <2>7, <3>4 DEF Fits, Carrying
    <3> QED BY <2>12, <2>14, <3>1, <3>4, <3>5, <3>7, <3>8, <1>1, OwnerGoesOn DEF Owning, Sending
  <2> QED BY <1>7, <1>12, <2>13, <2>14
<1>13. CASE ~(f # "undelivered" /\ Fenced(t) /\ f = "answered")
  <2>1. PICK z : z = (b.behind \/ (f # "undelivered" /\ Fenced(t))) OBVIOUS
  <2>2. PICK d : d = [b EXCEPT !.behind = z] OBVIOUS
  <2>3. holding' = [holding EXCEPT ![h] = d] /\ Return(t, FALSE) BY <1>7, <1>13, <2>1, <2>2
  <2>4. IsHolding(b, used'.entries) BY <1>2, <1>8
  <2>5. /\ IsHolding(d, used'.entries) /\ d.lease = b.lease /\ d.done = b.done
        /\ d.head = b.head /\ d.sess = b.sess /\ d.behind = z
    BY <2>2, <2>4, HoldingUntold
  <2>6. CASE srv' = srv
    <3>1. srv'.lease # 0 /\ srv'.lease = d.lease /\ ~d.behind => d.head = srv'.head
      BY <1>2, <2>1, <2>5, <2>6 DEF ClientInv, LeaseInv, HeadInStep
    <3>2. ~orphaned /\ srv'.lease # 0 /\ srv'.lease = d.lease => d.sess.ents \subseteq srv'.ents
      BY <1>2, <2>5, <2>6 DEF ClientInv, ListInv
    <3>3. IsServer(srv', used'.entries) BY <1>2, <1>8, <2>6
    <3>4. OwnerRest(t, d) BY <1>1, <1>4, <1>8, <2>3, <2>5, <2>6, <3>1, <3>2, <3>3 DEF OwnerRest
    <3> QED BY <3>4, <2>3, OwnerReturns
  <2>7. CASE f # "undelivered" /\ Fenced(t) /\ srv' = r
    <3>1. IsServer(srv', used'.entries) /\ srv'.lease = srv.lease /\ srv'.ents = srv.ents \cup {e}
      BY <1>8, <1>11, <2>7
    <3>2. d.behind BY <2>1, <2>5, <2>7
    <3>3. ~orphaned => d.sess.ents \subseteq srv'.ents
      BY <1>2, <1>9, <2>5, <2>7, <3>1 DEF ClientInv, ListInv
    <3>4. OwnerRest(t, d) BY <1>1, <1>4, <1>8, <1>9, <2>3, <2>5, <2>7, <3>1, <3>2, <3>3 DEF OwnerRest
    <3> QED BY <3>4, <2>3, OwnerReturns
  <2> QED BY <1>7, <2>6, <2>7
<1> QED BY <1>12, <1>13

\* The session deleted, with its lease, or not.
LEMMA DeleteKeeps ==
    ASSUME ClientInv, NEW t \in Threads, Delete(t)
    PROVE  ClientInv'
<1> PICK h : h = call[t].h OBVIOUS
<1> PICK b : b = holding[h] OBVIOUS
<1>1. call[t].at = "delete" /\ call[t].at \in Owning BY DEF Delete, In, Owning, Sending
<1>2. /\ TypesInv /\ h \in Holdings /\ IsHolding(b, used.entries) /\ IsServer(srv, used.entries)
      /\ IsCall(call[t], used.entries, used.made)
  BY <1>1, Owner
<1>3. UNCHANGED <<holding, listed, holdMu, leased, orphaned>> BY DEF Delete
<1>4. PICK f \in Fates :
        /\ Fate(f)
        /\ \/ srv' = srv
           \/ srv' = [exists |-> FALSE, lease |-> 0, ents |-> {}, head |-> Root]
        /\ (Goto(t, "drop") /\ UNCHANGED mu) \/ Return(t, FALSE)
  BY DEF Delete
<1>5. Grows /\ used'.entries = used.entries /\ used'.made = used.made BY <1>2, <1>4, FateGrows
<1>6. OwnerRest(t, b)
  <2>1. CASE srv' = srv BY <1>1, <1>3, <1>5, <2>1, QuietRest
  <2>2. CASE srv' = [exists |-> FALSE, lease |-> 0, ents |-> {}, head |-> Root]
    <3>1. PICK no \in BOOLEAN : no = FALSE OBVIOUS
    <3>2. srv' = [exists |-> no, lease |-> 0, ents |-> {}, head |-> Root] BY <2>2, <3>1
    <3>3. /\ srv' \in [exists : BOOLEAN, lease : Nat, ents : SUBSET (1..used.entries), head : (1..used.entries) \cup {Root}]
          /\ srv'.ents = {} /\ srv'.head = Root /\ srv'.lease = 0
      BY <3>2
    <3>4. IsServer(srv', used'.entries) BY <3>3, <1>5 DEF IsServer
    <3>5. holding' = [holding EXCEPT ![h] = b] BY <1>2, <1>3 DEF TypesInv
    <3> QED BY <1>1, <1>2, <1>3, <1>5, <3>3, <3>4, <3>5 DEF OwnerRest
  <2> QED BY <1>4, <2>1, <2>2
<1>7. CASE Return(t, FALSE) BY <1>6, <1>7, OwnerReturns
<1>8. CASE Goto(t, "drop") /\ UNCHANGED mu
  <2>1. PICK c : /\ call' = [call EXCEPT ![t] = c]
                 /\ c = [k \in {"op", "at", "h", "e", "to", "ok"} |-> c[k]]
                 /\ c.at = "drop" /\ c.op = call[t].op /\ c.h = call[t].h /\ c.e = call[t].e
                 /\ c.h \in Holdings /\ c.h <= used.made /\ c.e \in 0..used.entries
    BY <1>1, <1>2, <1>8, Gone DEF Ats
  <2>2. IsCall(c, used'.entries, used'.made) BY <2>1, <1>5 DEF IsCall, Ats, Carrying
  <2>3. Fits(c, b) BY <2>1 DEF Fits, Carrying, Sending
  <2> QED BY <2>1, <2>2, <2>3, <1>1, <1>6, <1>8, OwnerGoesOn DEF Owning, Sending
<1> QED BY <1>4, <1>7, <1>8

\* The lock taken, with the holding's lease or to ask for one.
LEMMA LockKeeps ==
    ASSUME ClientInv, NEW t \in Threads, Lock(t)
    PROVE  ClientInv'
<1> PICK h : h = call[t].h OBVIOUS
<1> PICK b : b = holding[h] OBVIOUS
<1>1. /\ call[t].at = "lock" /\ mu[h] = Free
      /\ mu' = [mu EXCEPT ![h] = t] /\ holding' = [holding EXCEPT ![h].stirred = FALSE]
      /\ UNCHANGED <<srv, listed, holdMu, leased, orphaned, used>>
  BY DEF Lock, In
<1>2. /\ TypesInv /\ h \in Holdings /\ IsHolding(b, used.entries) /\ IsServer(srv, used.entries)
      /\ IsCall(call[t], used.entries, used.made) /\ leased \in Nat
  BY <1>1 DEF ClientInv, TypesInv, IsCall
<1>3. Grows BY <1>1, <1>2, FateGrows
<1>4. PICK no : no = FALSE OBVIOUS
<1>5. PICK d : d = [b EXCEPT !.stirred = no] OBVIOUS
<1>6. /\ d = [k \in {"lease", "done", "sess", "head", "behind", "stirred"} |-> d[k]]
      /\ d.lease = b.lease /\ d.head = b.head /\ d.sess = b.sess
  BY <1>2, <1>5 DEF IsHolding
<1>7. d.done = b.done /\ d.behind = b.behind BY <1>2, <1>5 DEF IsHolding
<1>8. IsHolding(d, used'.entries) BY <1>1, <1>2, <1>6 DEF IsHolding
<1>9. holding' = [holding EXCEPT ![h] = d] BY <1>1, <1>4, <1>5
<1>10. PICK at \in {"drop", "fence", "session", "acquire"} :
         /\ Goto(t, at)
         /\ at = "drop" => call[t].op = "release"
         /\ at = "fence" => call[t].op = "delete" /\ b.lease # 0
         /\ at = "session" => call[t].op \notin {"release", "delete"} /\ b.lease # 0
         /\ at = "acquire" => call[t].op # "release" /\ (b.lease = 0 \/ b.done)
  BY DEF Lock, Leased, Of, H
<1>11. PICK c : /\ call' = [call EXCEPT ![t] = c]
                /\ c = [k \in {"op", "at", "h", "e", "to", "ok"} |-> c[k]]
                /\ c.at = at /\ c.op = call[t].op /\ c.h = call[t].h /\ c.e = call[t].e
                /\ c.h \in Holdings /\ c.h <= used.made /\ c.e \in 0..used.entries
  BY <1>1, <1>2, <1>10, Gone DEF Ats
<1>12. c.op \in {"open", "write", "sethead", "delete", "release"} BY <1>1, <1>2, <1>11 DEF IsCall
<1>13. ~Carrying(c) BY <1>10, <1>11 DEF Carrying
<1>14. IsCall(c, used'.entries, used'.made) BY <1>1, <1>10, <1>11, <1>12, <1>13 DEF IsCall, Ats
<1>15. Fits(c, d) BY <1>6, <1>10, <1>11, <1>13 DEF Fits, Sending
<1>16. c.at \in Owning /\ c.at # "idle" /\ c.at # "unlease" /\ call[t].at \in Working
  BY <1>1, <1>10, <1>11 DEF Owning, Sending, Working
<1>17. LockStep(t, c, d) BY <1>1, <1>2, <1>3, <1>8, <1>9, <1>11, <1>14, <1>15, <1>16 DEF LockStep
<1>18. srv'.lease # 0 /\ srv'.lease = d.lease /\ ~d.behind => d.head = srv'.head
  BY <1>1, <1>2, <1>6, <1>7 DEF ClientInv, LeaseInv, HeadInStep
<1>19. ~orphaned /\ srv'.lease # 0 /\ srv'.lease = d.lease => d.sess.ents \subseteq srv'.ents
  BY <1>1, <1>2, <1>6 DEF ClientInv, ListInv
<1>20. c.at = "acquire" /\ ~orphaned => d.lease = 0
  <2> SUFFICES ASSUME c.at = "acquire", ~orphaned PROVE d.lease = 0 OBVIOUS
  <2>1. ListInv BY DEF ClientInv
  <2>2. h = listed /\ h # 0 BY <2>1, <1>1, <1>2, <1>16 DEF ListInv, Holdings
  <2>3. ~b.done BY <2>1, <2>2 DEF ListInv
  <2> QED BY <2>3, <1>6, <1>10, <1>11
<1> QED BY <1>1, <1>6, <1>7, <1>16, <1>17, <1>18, <1>19, <1>20, OwnerKeeps

\* A lease the server grants, whether the client hears of it or not.
LEMMA GrantKeeps ==
    ASSUME ClientInv, NEW t \in Threads, NEW c, NEW d, LockStep(t, c, d), NEW h, h = call[t].h,
           call[t].at = "acquire", c.at \in Working \ {"acquire"},
           srv'.lease = leased + 1, srv'.head = srv.head, srv'.ents = srv.ents, leased' = leased + 1,
           d.lease = holding[h].lease \/ (d.lease = leased + 1 /\ d.head = srv.head),
           d.sess = holding[h].sess, d.done => holding[h].done,
           UNCHANGED <<listed, orphaned>>
    PROVE  ClientInv'
<1>0. TypesInv /\ LeaseInv /\ MakingInv /\ leased \in Nat /\ used.made \in Nat BY UsedNat DEF ClientInv, TypesInv
<1>1. /\ TypesInv' /\ CallsInv' /\ LocksInv' /\ MakingInv'
      /\ h \in Holdings /\ h <= used.made
      /\ \A u \in Threads : call'[u] = IF u = t THEN c ELSE call[u]
      /\ \A g \in Holdings : holding'[g] = IF g = h THEN d ELSE holding[g]
      /\ \A u \in Threads : u # t /\ call[u].h = h => call[u].at \notin Owning
  BY LockStepKeeps
<1>2. \A g \in Holdings : holding[g].lease \in Nat /\ holding[g].lease <= leased
  BY <1>0 DEF TypesInv, IsHolding, LeaseInv
<1>3. \A g \in Holdings : holding'[g].lease = leased + 1 => g = h /\ d.lease = leased + 1 /\ d.head = srv.head
  <2> SUFFICES ASSUME NEW g \in Holdings, holding'[g].lease = leased + 1
               PROVE  g = h /\ d.lease = leased + 1 /\ d.head = srv.head
    OBVIOUS
  <2>1. holding[g].lease # leased + 1 /\ holding[h].lease # leased + 1 BY <1>0, <1>1, <1>2
  <2> QED BY <2>1, <1>1
<1>4. \A g \in Holdings : holding'[g].lease = holding[g].lease \/ holding'[g].lease = leased + 1 BY <1>1
<1>5. LeaseInv'
  <2>1. srv'.lease <= leased' /\ \A g \in Holdings : holding'[g].lease <= leased'
    BY <1>0, <1>2, <1>4
  <2>2. \A f, g \in Holdings : holding'[f].lease = holding'[g].lease /\ holding'[f].lease # 0 => f = g
    BY <1>0, <1>3, <1>4 DEF LeaseInv
  <2>3. \A g \in Holdings : g > used'.made => holding'[g].lease = 0 /\ ~holding'[g].done
    <3>1. used'.made \in Nat /\ used.made <= used'.made BY DEF LockStep, Grows
    <3>2. \A g \in Holdings : g > used'.made => g > used.made /\ g # h BY <3>1, <1>0, <1>1 DEF Holdings
    <3> QED BY <3>2, <1>0, <1>1 DEF LeaseInv
  <2>4. HeadInStep' BY <1>1, <1>3 DEF HeadInStep
  <2> QED BY <2>1, <2>2, <2>3, <2>4 DEF LeaseInv
<1>6. ASSUME ~orphaned' PROVE ListInv'
  <2>0. ListInv BY <1>6 DEF ClientInv
  <2>1. h = listed /\ holding[h].lease = 0 BY <2>0 DEF ListInv, Working
  <2>2. \A u \in Threads : call'[u].at \in Working => call'[u].h = listed'
    BY <1>1, <2>0, <2>1 DEF ListInv, LockStep, Working, Sending
  <2>3. listed' # 0 => ~holding'[listed'].done BY <1>1, <2>0, <2>1 DEF ListInv
  <2>4. \A u \in Threads : call'[u].at \in {"list", "replace"} => u # t /\ call'[u] = call[u] /\ call[u].h \in Holdings /\ call[u].h # h
    <3> SUFFICES ASSUME NEW u \in Threads, call'[u].at \in {"list", "replace"}
                 PROVE  u # t /\ call'[u] = call[u] /\ call[u].h \in Holdings /\ call[u].h # h
      OBVIOUS
    <3>1. u # t /\ call'[u] = call[u] BY <1>1 DEF Working, Sending
    <3>2. call[u].h \in Holdings BY <3>1, <1>0 DEF TypesInv, IsCall
    <3>3. call[u].h # listed BY <3>1, <1>0 DEF MakingInv, Making
    <3> QED BY <3>1, <3>2, <3>3, <2>1
  <2>5. \A u \in Threads : call'[u].at \in {"list", "replace"} => ~holding'[call'[u].h].done
    BY <2>4, <1>1, <2>0 DEF ListInv
  <2>6. \A u \in Threads : call'[u].at # "acquire"
    <3> SUFFICES ASSUME NEW u \in Threads, call'[u].at = "acquire" PROVE FALSE OBVIOUS
    <3>1. u # t /\ call[u].at = "acquire" BY <1>1
    <3>2. call[u].h = h /\ call[u].at \in Owning BY <3>1, <2>0, <2>1 DEF ListInv, Working, Owning
    <3> QED BY <3>1, <3>2, <1>1
  <2>7. \A g \in Holdings : holding'[g].lease # 0 /\ ~holding'[g].done =>
          g = listed' \/ \E u \in Threads : call'[u].at \in {"list", "replace"} /\ call'[u].h = g
    <3>1. \A u \in Threads : call[u].at \in {"list", "replace"} => call'[u] = call[u] BY <1>1
    <3> QED BY <3>1, <2>0, <2>1, <1>1 DEF ListInv
  <2>8. \A g \in Holdings : holding'[g].lease # 0 /\ holding'[g].lease = srv'.lease
          => holding'[g].sess.ents \subseteq srv'.ents
    <3>1. holding[h].sess.ents = {} BY <1>0, <1>1, <2>1 DEF TypesInv, IsHolding
    <3> QED BY <3>1, <1>1, <1>3
  <2> QED BY <2>2, <2>3, <2>5, <2>6, <2>7, <2>8 DEF ListInv
<1> QED BY <1>1, <1>5, <1>6 DEF ClientInv

\* A lease asked for: refused, granted, or granted and not heard of.
LEMMA AcquireKeeps ==
    ASSUME ClientInv, NEW t \in Threads, Acquire(t)
    PROVE  ClientInv'
<1> PICK h : h = call[t].h OBVIOUS
<1> PICK b : b = holding[h] OBVIOUS
<1>1. call[t].at = "acquire" /\ call[t].at \in Owning /\ UNCHANGED <<listed, holdMu, mu, orphaned>>
  BY DEF Acquire, In, Owning
<1>2. /\ TypesInv /\ h \in Holdings /\ IsHolding(b, used.entries) /\ IsServer(srv, used.entries)
      /\ IsCall(call[t], used.entries, used.made) /\ mu[h] = t
  BY <1>1, Owner
<1>3. leased \in Nat BY <1>2 DEF TypesInv
<1>4. PICK f \in Fates :
        LET granted == f # "undelivered" /\ srv.exists /\ srv.lease = 0 IN
        /\ Fate(f)
        /\ srv' = IF granted THEN [srv EXCEPT !.lease = leased + 1] ELSE srv
        /\ leased' = IF granted THEN leased + 1 ELSE leased
        /\ IF granted /\ f = "answered"
           THEN /\ holding' = [holding EXCEPT ![h] =
                        [@ EXCEPT !.lease = leased + 1, !.head = srv.head, !.done = FALSE, !.behind = FALSE]]
                /\ Goto(t, Leased(t))
           ELSE Goto(t, "drop") /\ UNCHANGED holding
  BY DEF Acquire
<1>5. Grows /\ used'.entries = used.entries /\ used'.made = used.made BY <1>2, <1>4, FateGrows
<1>6. PICK at \in {"drop", "fence", "session"} :
         /\ Goto(t, at)
         /\ at = "drop" => UNCHANGED holding
         /\ at # "drop" => /\ f = "answered" /\ srv.exists /\ srv.lease = 0
                           /\ holding' = [holding EXCEPT ![h] =
                                [@ EXCEPT !.lease = leased + 1, !.head = srv.head, !.done = FALSE, !.behind = FALSE]]
         /\ at = "fence" => call[t].op = "delete"
         /\ at = "session" => call[t].op # "delete"
  BY <1>4 DEF Leased, Of
<1>7. PICK c : /\ call' = [call EXCEPT ![t] = c]
                /\ c = [k \in {"op", "at", "h", "e", "to", "ok"} |-> c[k]]
                /\ c.at = at /\ c.op = call[t].op /\ c.h = call[t].h /\ c.e = call[t].e
                /\ c.h \in Holdings /\ c.h <= used.made /\ c.e \in 0..used.entries
  BY <1>1, <1>2, <1>6, Gone DEF Ats
<1>8. c.op \in {"open", "write", "sethead", "delete"} BY <1>1, <1>2, <1>7 DEF IsCall
<1>9. ~Carrying(c) BY <1>6, <1>7 DEF Carrying
<1>10. IsCall(c, used'.entries, used'.made) BY <1>5, <1>6, <1>7, <1>8, <1>9 DEF IsCall, Ats
<1>11. c.at \in Owning \ {"acquire", "unlease"} /\ c.at # "idle" /\ c.at \in Working \ {"acquire"}
  BY <1>6, <1>7 DEF Owning, Sending, Working
<1>12. CASE UNCHANGED <<srv, leased>> /\ at = "drop"
  <2>1. OwnerRest(t, b) BY <1>1, <1>5, <1>6, <1>12, QuietRest
  <2>2. Fits(c, b) BY <1>7, <1>9, <1>12 DEF Fits, Sending
  <2> QED BY <1>1, <1>7, <1>10, <1>11, <2>1, <2>2, OwnerGoesOn
<1>13. CASE srv.exists /\ srv' = [srv EXCEPT !.lease = leased + 1] /\ leased' = leased + 1
  <2>1. PICK n \in Nat : n = leased + 1 BY <1>3
  <2>2. srv' = [srv EXCEPT !.lease = n] BY <1>13, <2>1
  <2>3. /\ srv' \in [exists : BOOLEAN, lease : Nat, ents : SUBSET (1..used.entries), head : (1..used.entries) \cup {Root}]
        /\ srv'.head = srv.head /\ srv'.ents = srv.ents /\ srv'.lease = n
    BY <1>2, <2>2 DEF IsServer
  <2>4. srv'.exists BY <1>2, <1>13, <2>2 DEF IsServer
  <2>5. IsServer(srv', used'.entries) BY <1>2, <1>5, <2>3, <2>4 DEF IsServer
  <2>6. PICK d : /\ holding' = [holding EXCEPT ![h] = d] /\ IsHolding(d, used'.entries)
                 /\ d.lease = b.lease \/ (d.lease = n /\ d.head = srv.head)
                 /\ d.sess = b.sess /\ (d.done => b.done) /\ (at # "drop" => d.lease # 0)
    <3>1. CASE at = "drop"
      <4>1. holding' = [holding EXCEPT ![h] = b] BY <3>1, <1>2, <1>6 DEF TypesInv
      <4> QED BY <3>1, <4>1, <1>2, <1>5
    <3>2. CASE at # "drop"
      <4>1. PICK no : no = FALSE OBVIOUS
      <4>2. PICK d : d = [b EXCEPT !.lease = n, !.head = srv.head, !.done = no, !.behind = no] OBVIOUS
      <4>3. holding' = [holding EXCEPT ![h] = d] BY <3>2, <1>6, <2>1, <4>1, <4>2
      <4>4. /\ d = [k \in {"lease", "done", "sess", "head", "behind", "stirred"} |-> d[k]]
            /\ d.lease = n /\ d.head = srv.head /\ d.sess = b.sess
        BY <4>2, <1>2 DEF IsHolding
      <4>5. ~d.done BY <4>1, <4>2, <1>2 DEF IsHolding
      <4>6. n # 0 BY <2>1, <1>3
      <4>7. IsHolding(d, used'.entries) BY <4>4, <4>6, <1>2, <1>5 DEF IsHolding
      <4> QED BY <4>3, <4>4, <4>5, <4>6, <4>7
    <3> QED BY <3>1, <3>2
  <2>7. Fits(c, d) BY <1>6, <1>7, <1>9, <2>6 DEF Fits, Sending
  <2>8. mu' = [mu EXCEPT ![h] = t] BY <1>1, <1>2 DEF TypesInv
  <2>9. leased' \in Nat BY <1>13, <2>1
  <2>10. LockStep(t, c, d) BY <1>1, <1>2, <1>5, <1>7, <1>10, <1>11, <2>5, <2>6, <2>7, <2>8, <2>9 DEF LockStep
  <2> QED BY <1>1, <1>11, <1>13, <2>1, <2>3, <2>6, <2>10, GrantKeeps
<1> QED BY <1>4, <1>6, <1>12, <1>13

\* A holding taken off the list.
LEMMA DropKeeps ==
    ASSUME ClientInv, NEW t \in Threads, Drop(t)
    PROVE  ClientInv'
<1> PICK h : h = call[t].h OBVIOUS
<1> PICK b : b = holding[h] OBVIOUS
<1>1. /\ call[t].at = "drop" /\ call[t].at \in Owning /\ holdMu = Free
      /\ holding' = [holding EXCEPT ![h].done = TRUE]
      /\ listed' = IF listed = h THEN 0 ELSE listed
      /\ UNCHANGED <<srv, holdMu, leased, used>>
  BY DEF Drop, In, Owning
<1>2. ~orphaned' => ~orphaned /\ \A u \in Threads : u # t /\ call[u].at = "lock" => call[u].h # h
  BY DEF Drop, In
<1>3. /\ TypesInv /\ LeaseInv /\ MakingInv /\ h \in Holdings /\ IsHolding(b, used.entries) /\ IsServer(srv, used.entries)
      /\ IsCall(call[t], used.entries, used.made) /\ mu[h] = t /\ leased \in Nat
  BY <1>1, Owner DEF ClientInv, TypesInv
<1>4. Grows BY <1>1, <1>3, FateGrows
<1>5. PICK y : y = TRUE OBVIOUS
<1>6. PICK d : d = [b EXCEPT !.done = y] OBVIOUS
<1>7. /\ d = [k \in {"lease", "done", "sess", "head", "behind", "stirred"} |-> d[k]]
      /\ d.lease = b.lease /\ d.head = b.head /\ d.sess = b.sess
  BY <1>3, <1>6 DEF IsHolding
<1>8. d.behind = b.behind /\ d.done BY <1>3, <1>5, <1>6 DEF IsHolding
<1>9. IsHolding(d, used'.entries) BY <1>1, <1>3, <1>7 DEF IsHolding
<1>10. holding' = [holding EXCEPT ![h] = d] BY <1>1, <1>5, <1>6
<1>11. PICK c : /\ call' = [call EXCEPT ![t] = c] /\ IsCall(c, used'.entries, used'.made)
                /\ c.at \in {"unlease", "idle"} /\ (c.at # "idle" => c.h = h)
                /\ mu' = [mu EXCEPT ![h] = IF c.at = "idle" THEN Free ELSE t]
  <2>1. CASE Return(t, TRUE) \/ Return(t, FALSE)
    <3>1. PICK c : /\ call' = [call EXCEPT ![t] = c] /\ c.at = "idle"
                   /\ IsCall(c, used.entries, used.made)
                   /\ mu' = [mu EXCEPT ![call[t].h] = Free]
      BY <2>1, <1>3, Returned
    <3> QED BY <3>1, <1>1
  <2>2. CASE Goto(t, "unlease") /\ UNCHANGED mu
    <3>1. PICK c : /\ call' = [call EXCEPT ![t] = c]
                    /\ c = [k \in {"op", "at", "h", "e", "to", "ok"} |-> c[k]]
                    /\ c.at = "unlease" /\ c.op = call[t].op /\ c.h = call[t].h /\ c.e = call[t].e
                    /\ c.h \in Holdings /\ c.h <= used.made /\ c.e \in 0..used.entries
      BY <1>1, <1>3, <2>2, Gone DEF Ats
    <3>2. IsCall(c, used'.entries, used'.made) BY <3>1, <1>1 DEF IsCall, Ats, Carrying
    <3>3. mu' = [mu EXCEPT ![h] = t] BY <2>2, <1>3 DEF TypesInv
    <3> QED BY <3>1, <3>2, <3>3
  <2>3. (Goto(t, "unlease") /\ UNCHANGED mu) \/ Return(t, Of(t, {"release", "delete"})) BY DEF Drop
  <2>4. Of(t, {"release", "delete"}) \in BOOLEAN BY DEF Of
  <2> QED BY <2>1, <2>2, <2>3, <2>4
<1>12. Fits(c, d) /\ c.at \in Owning \cup {"idle"} /\ c.at \notin Working
  BY <1>11 DEF Fits, Sending, Carrying, Owning, Working
<1>13. LockStep(t, c, d) BY <1>1, <1>3, <1>4, <1>9, <1>10, <1>11, <1>12 DEF LockStep
<1>14. /\ TypesInv' /\ CallsInv' /\ LocksInv' /\ MakingInv' /\ h <= used.made
       /\ \A u \in Threads : call'[u] = IF u = t THEN c ELSE call[u]
       /\ \A g \in Holdings : holding'[g] = IF g = h THEN d ELSE holding[g]
       /\ \A u \in Threads : u # t /\ call[u].h = h => call[u].at \notin Owning
  BY <1>13, LockStepKeeps
<1>15. \A g \in Holdings : /\ holding'[g].lease = holding[g].lease /\ holding'[g].head = holding[g].head
                           /\ holding'[g].sess = holding[g].sess
  BY <1>7, <1>14
<1>16. \A g \in Holdings : holding'[g].behind = holding[g].behind BY <1>8, <1>14
<1>17. LeaseInv'
  <2>1. \A g \in Holdings : g > used'.made => holding'[g].lease = 0 /\ ~holding'[g].done
    <3>1. used.made \in Nat BY <1>3, UsedNat
    <3>2. \A g \in Holdings : g > used.made => g # h BY <3>1, <1>14 DEF Holdings
    <3> QED BY <3>2, <1>1, <1>3, <1>14 DEF LeaseInv
  <2>2. HeadInStep' BY <1>1, <1>3, <1>15, <1>16 DEF LeaseInv, HeadInStep
  <2> QED BY <2>1, <2>2, <1>1, <1>3, <1>15 DEF LeaseInv
<1>18. ASSUME ~orphaned' PROVE ListInv'
  <2>0. ListInv BY <1>2, <1>18 DEF ClientInv
  <2>1. h = listed /\ listed' = 0 BY <1>1, <2>0 DEF ListInv, Working
  <2>2. \A u \in Threads : call'[u].at \notin Working
    <3> SUFFICES ASSUME NEW u \in Threads, call'[u].at \in Working PROVE FALSE OBVIOUS
    <3>1. u # t /\ call[u].at \in Working BY <1>12, <1>14
    <3>2. call[u].h = h BY <3>1, <2>0, <2>1 DEF ListInv
    <3>3. call[u].at = "lock" BY <3>1, <3>2, <1>14 DEF Working, Owning
    <3> QED BY <3>1, <3>2, <3>3, <1>2, <1>18
  <2>3. \A u \in Threads : call'[u].at \in {"list", "replace"} => call'[u] = call[u] /\ call[u].h \in Holdings /\ call[u].h # h
    <3> SUFFICES ASSUME NEW u \in Threads, call'[u].at \in {"list", "replace"}
                 PROVE  call'[u] = call[u] /\ call[u].h \in Holdings /\ call[u].h # h
      OBVIOUS
    <3>1. u # t /\ call'[u] = call[u] BY <1>11, <1>14
    <3>2. call[u].h \in Holdings BY <3>1, <1>3 DEF TypesInv, IsCall
    <3>3. call[u].h # listed BY <3>1, <1>3 DEF MakingInv, Making
    <3> QED BY <3>1, <3>2, <3>3, <2>1
  <2>4. \A u \in Threads : call'[u].at \in {"list", "replace"} => ~holding'[call'[u].h].done
    BY <2>3, <1>14, <2>0 DEF ListInv
  <2>5. \A u \in Threads : call'[u].at # "acquire" BY <2>2 DEF Working
  <2>6. \A g \in Holdings : holding'[g].lease # 0 /\ ~holding'[g].done =>
          \E u \in Threads : call'[u].at \in {"list", "replace"} /\ call'[u].h = g
    <3> SUFFICES ASSUME NEW g \in Holdings, holding'[g].lease # 0, ~holding'[g].done
                 PROVE  \E u \in Threads : call'[u].at \in {"list", "replace"} /\ call'[u].h = g
      OBVIOUS
    <3>1. g # h /\ holding'[g] = holding[g] BY <1>8, <1>14
    <3>2. PICK u \in Threads : call[u].at \in {"list", "replace"} /\ call[u].h = g BY <3>1, <2>0, <2>1 DEF ListInv
    <3>3. call'[u] = call[u] BY <3>2, <1>1, <1>14
    <3> QED BY <3>2, <3>3
  <2>7. \A g \in Holdings : holding'[g].lease # 0 /\ holding'[g].lease = srv'.lease
          => holding'[g].sess.ents \subseteq srv'.ents
    BY <1>1, <1>15, <2>0 DEF ListInv
  <2> QED BY <2>1, <2>2, <2>4, <2>5, <2>6, <2>7 DEF ListInv
<1> QED BY <1>14, <1>17, <1>18 DEF ClientInv

-----------------------------------------------------------------------------
(* A step of a call that neither has nor takes a holding's lock.           *)

\* c is the call after the step, d the holding h, which no call has locked if
\* the step changes it.
FreeStep(t, c, h, d) ==
    /\ Grows
    /\ call[t].at \notin Owning /\ c.at \notin Owning
    /\ call' = [call EXCEPT ![t] = c] /\ IsCall(c, used'.entries, used'.made)
    /\ h \in Holdings /\ holding' = [holding EXCEPT ![h] = d] /\ IsHolding(d, used'.entries)
    /\ d = holding[h] \/ \A u \in Threads : call[u].h = h => call[u].at \notin Owning
    /\ UNCHANGED mu
    /\ IsServer(srv', used'.entries) /\ leased' \in Nat
    /\ listed' \in Holdings \cup {0} /\ listed' <= used'.made
    /\ holdMu' \in Threads \cup {Free} /\ (holdMu' # Free => listed' # 0)
    /\ (c.at = "replace") <=> (holdMu' = t)
    /\ \A u \in Threads \ {t} : (call[u].at = "replace") <=> (holdMu' = u)

LEMMA FreeStepKeeps ==
    ASSUME ClientInv, NEW t \in Threads, NEW c, NEW h, NEW d, FreeStep(t, c, h, d)
    PROVE  /\ TypesInv' /\ CallsInv' /\ LocksInv'
           /\ \A u \in Threads : call'[u] = IF u = t THEN c ELSE call[u]
           /\ \A g \in Holdings : holding'[g] = IF g = h THEN d ELSE holding[g]
<1>0. TypesInv /\ CallsInv /\ LocksInv BY DEF ClientInv
<1>1. mu' \in [Holdings -> Threads \cup {Free}] BY <1>0 DEF FreeStep, TypesInv
<1>2. /\ TypesInv'
      /\ \A u \in Threads : call'[u] = IF u = t THEN c ELSE call[u]
      /\ \A g \in Holdings : holding'[g] = IF g = h THEN d ELSE holding[g]
  <2>1. /\ Grows /\ call' = [call EXCEPT ![t] = c] /\ IsCall(c, used'.entries, used'.made)
        /\ h \in Holdings /\ holding' = [holding EXCEPT ![h] = d] /\ IsHolding(d, used'.entries)
        /\ IsServer(srv', used'.entries) /\ leased' \in Nat
        /\ listed' \in Holdings \cup {0} /\ listed' <= used'.made
        /\ holdMu' \in Threads \cup {Free}
    BY DEF FreeStep
  <2> QED BY <2>1, <1>0, <1>1, TypesKept DEF TypesInv
<1>3. \A u \in Threads : call'[u].at \in Owning <=> call[u].at \in Owning BY <1>2 DEF FreeStep
<1>4. \A u \in Threads : call'[u].at \in Owning => call'[u] = call[u] BY <1>2 DEF FreeStep
<1>5. CallsInv'
  <2> SUFFICES ASSUME NEW u \in Threads PROVE Fits(call'[u], holding'[call'[u].h]) BY DEF CallsInv
  <2>1. CASE call'[u].at \notin Owning BY <2>1 DEF Fits, Sending, Carrying, Owning
  <2>2. CASE call'[u].at \in Owning
    <3>1. call'[u] = call[u] /\ Fits(call[u], holding[call[u].h]) BY <2>2, <1>0, <1>4 DEF CallsInv
    <3>2. call[u].h \in Holdings BY <2>2, <3>1, <1>0 DEF TypesInv, IsCall, Owning, Sending
    <3>3. holding'[call[u].h] = holding[call[u].h] BY <2>2, <3>1, <3>2, <1>2 DEF FreeStep
    <3> QED BY <3>1, <3>3
  <2> QED BY <2>1, <2>2
<1>6. LocksInv'
  <2>1. \A u \in Threads : call'[u].at \in Owning => mu'[call'[u].h] = u
    BY <1>0, <1>4 DEF LocksInv, FreeStep
  <2>2. \A g \in Holdings : mu'[g] # Free => call'[mu'[g]].at \in Owning /\ call'[mu'[g]].h = g
    <3> SUFFICES ASSUME NEW g \in Holdings, mu'[g] # Free
                 PROVE  call'[mu'[g]].at \in Owning /\ call'[mu'[g]].h = g
      OBVIOUS
    <3>1. mu'[g] = mu[g] BY DEF FreeStep
    <3>2. mu[g] \in Threads BY <3>1, <1>0 DEF TypesInv
    <3>3. call[mu[g]].at \in Owning /\ call[mu[g]].h = g BY <3>1, <1>0 DEF LocksInv
    <3>4. call'[mu[g]] = call[mu[g]] BY <3>2, <3>3, <1>3, <1>4
    <3> QED BY <3>1, <3>3, <3>4
  <2>3. \A u \in Threads : call'[u].at = "replace" <=> holdMu' = u BY <1>2 DEF FreeStep
  <2>4. holdMu' # Free => listed' # 0 BY DEF FreeStep
  <2> QED BY <2>1, <2>2, <2>3, <2>4 DEF LocksInv
<1> QED BY <1>2, <1>5, <1>6

\* Nobody works on the list's holding when it lists none.
LEMMA NoneWorks ==
    ASSUME TypesInv, ListInv, listed = 0
    PROVE  \A u \in Threads : call[u].at \notin Working
<1> SUFFICES ASSUME NEW u \in Threads, call[u].at \in Working PROVE FALSE OBVIOUS
<1>1. call[u].h \in Holdings BY DEF TypesInv, IsCall, Working, Sending
<1>2. call[u].h = 0 BY DEF ListInv
<1> QED BY <1>1, <1>2 DEF Holdings

\* A call begins, with the listed holding, a new one, or one to be made.
LEMMA StartKeeps ==
    ASSUME ClientInv, NEW t \in Threads, NEW op \in Ops, Start(t, op)
    PROVE  ClientInv'
<1>0. TypesInv /\ LocksInv /\ LeaseInv /\ MakingInv BY DEF ClientInv
<1>1. call[t].at = "idle" /\ UNCHANGED <<srv, holding, holdMu, mu, leased, orphaned>> /\ used.calls < MaxCalls
  BY DEF Start, In
<1>2. PICK new : new = used.made + 1 OBVIOUS
<1>3. /\ used \in [calls : 0..MaxCalls, entries : 0..MaxEntries, faults : Nat, events : Nat, made : Nat]
      /\ used.made <= used.calls /\ used.made \in Nat /\ used.calls \in Nat /\ used.entries \in Nat
  BY <1>0, ClientAssumption DEF TypesInv
<1>4. new \in Holdings /\ new \in Nat /\ new <= used.calls + 1 /\ new > used.made
  BY <1>1, <1>2, <1>3, ClientAssumption DEF Holdings
<1>5. PICK l, at, h, m :
        /\ listed' = l /\ used' = [used EXCEPT !.calls = @ + 1, !.made = m]
        /\ call' = [call EXCEPT ![t] = [call[t] EXCEPT !.op = op, !.at = at, !.h = h]]
        /\ \/ op = "create" /\ at = "create" /\ h = new /\ m = new /\ l = listed
           \/ op # "create" /\ at = "lock" /\ h = listed /\ m = used.made /\ l = listed /\ listed # 0 /\ holdMu = Free
           \/ op # "create" /\ at = "lock" /\ h = new /\ m = new /\ l = new /\ listed = 0 /\ holdMu = Free
  <2>1. CASE op = "create" BY <2>1, <1>2 DEF Start
  <2>2. CASE op # "create" /\ listed # 0
    <3>1. /\ listed' = listed /\ used' = [used EXCEPT !.calls = @ + 1, !.made = @] /\ holdMu = Free
          /\ call' = [call EXCEPT ![t] = [call[t] EXCEPT !.op = op, !.at = "lock", !.h = listed]]
      BY <2>2 DEF Start
    <3>2. used' = [used EXCEPT !.calls = @ + 1, !.made = used.made] BY <3>1
    <3> QED BY <2>2, <3>1, <3>2
  <2>3. CASE op # "create" /\ listed = 0
    <3>1. /\ listed' = new /\ used' = [used EXCEPT !.calls = @ + 1, !.made = new] /\ holdMu = Free
          /\ call' = [call EXCEPT ![t] = [call[t] EXCEPT !.op = op, !.at = "lock", !.h = new]]
      BY <2>3, <1>2 DEF Start
    <3> QED BY <2>3, <3>1
  <2> QED BY <2>1, <2>2, <2>3
<1>6. m \in {used.made, new} /\ m \in Nat /\ used.made <= m /\ m <= used.calls + 1 BY <1>3, <1>4, <1>5
<1>7. PICK n \in 0..MaxCalls : n = used.calls + 1 BY <1>1, <1>3, ClientAssumption
<1>8. used' = [used EXCEPT !.calls = n, !.made = m] BY <1>5, <1>7
<1>9. /\ used' \in [calls : 0..MaxCalls, entries : 0..MaxEntries, faults : Nat, events : Nat, made : Nat]
      /\ used'.calls = n /\ used'.made = m /\ used'.entries = used.entries
  BY <1>3, <1>6, <1>7, <1>8
<1>10. Grows BY <1>3, <1>6, <1>7, <1>9 DEF Grows
<1>11. listed \in Holdings \cup {0} /\ listed <= used.made /\ listed \in Nat BY <1>0 DEF TypesInv, Holdings
<1>12. h \in Holdings /\ h <= m /\ l \in Holdings \cup {0} /\ l <= m /\ l \in {listed, h}
  BY <1>3, <1>4, <1>5, <1>11
<1>13. PICK a : a = call[t] OBVIOUS
<1>14. PICK c : c = [a EXCEPT !.op = op, !.at = at, !.h = h] OBVIOUS
<1>15. IsCall(a, used.entries, used.made) BY <1>0, <1>13 DEF TypesInv
<1>16. /\ c = [k \in {"op", "at", "h", "e", "to", "ok"} |-> c[k]] /\ c.op = op /\ c.at = at /\ c.h = h /\ c.e = a.e
  BY <1>14, <1>15 DEF IsCall
<1>17. at \in {"create", "lock"} /\ (at = "lock" => op # "create") BY <1>5
<1>18. IsCall(c, used'.entries, used'.made)
  <2>1. c.e \in 0..used'.entries BY <1>9, <1>15, <1>16 DEF IsCall
  <2>2. c.h \in Holdings /\ c.h <= used'.made BY <1>9, <1>12, <1>16
  <2>3. ~Carrying(c) /\ c.at \in Ats BY <1>16, <1>17 DEF Carrying, Ats
  <2> QED BY <1>16, <1>17, <2>1, <2>2, <2>3 DEF IsCall, Ops
<1>19. PICK d : d = holding[h] OBVIOUS
<1>20. holding' = [holding EXCEPT ![h] = d] /\ IsHolding(d, used'.entries)
  BY <1>0, <1>1, <1>9, <1>12, <1>19 DEF TypesInv
<1>21. IsServer(srv', used'.entries) /\ leased' \in Nat BY <1>0, <1>1, <1>9 DEF TypesInv
<1>22. c.at \notin Owning /\ c.at # "replace" /\ c.at # "idle" /\ call[t].at \notin Owning
  BY <1>1, <1>16, <1>17 DEF Owning, Sending
<1>23. /\ holdMu' \in Threads \cup {Free} /\ (holdMu' # Free => listed' # 0)
       /\ (c.at = "replace") <=> (holdMu' = t)
       /\ \A u \in Threads \ {t} : (call[u].at = "replace") <=> (holdMu' = u)
  <2>1. holdMu # t BY <1>0, <1>1 DEF LocksInv
  <2>2. l # 0 \/ l = listed BY <1>5, <1>4 DEF Holdings
  <2> QED BY <2>1, <2>2, <1>0, <1>1, <1>5, <1>22 DEF LocksInv, TypesInv
<1>24. FreeStep(t, c, h, d)
  <2>1. call' = [call EXCEPT ![t] = c] BY <1>5, <1>13, <1>14
  <2> QED BY <2>1, <1>1, <1>5, <1>9, <1>10, <1>12, <1>18, <1>19, <1>20, <1>21, <1>22, <1>23 DEF FreeStep
<1>25. /\ TypesInv' /\ CallsInv' /\ LocksInv'
       /\ \A u \in Threads : call'[u] = IF u = t THEN c ELSE call[u]
  BY <1>24, FreeStepKeeps
<1>26. LeaseInv'
  <2>1. \A g \in Holdings : g > used'.made => holding'[g].lease = 0 /\ ~holding'[g].done
    <3>1. \A g \in Holdings : g > used'.made => g > used.made BY <1>3, <1>6, <1>9 DEF Holdings
    <3> QED BY <3>1, <1>0, <1>1 DEF LeaseInv
  <2>2. HeadInStep' BY <1>0, <1>1 DEF LeaseInv, HeadInStep
  <2> QED BY <2>1, <2>2, <1>0, <1>1 DEF LeaseInv
<1>27. \A u \in Threads : call[u].at # "idle" => call[u].h <= used.made /\ call[u].h # new
  <2>1. \A u \in Threads : call[u].at # "idle" => call[u].h <= used.made /\ call[u].h \in Nat
    BY <1>0 DEF TypesInv, IsCall, Holdings
  <2> QED BY <2>1, <1>3, <1>4
<1>28. MakingInv'
  <2>1. \A u \in Threads : call'[u].at \in Making => call'[u].h # listed'
    <3> SUFFICES ASSUME NEW u \in Threads, call'[u].at \in Making PROVE call'[u].h # l BY <1>5
    <3>1. CASE u = t
      <4>1. at = "create" BY <3>1, <1>16, <1>17, <1>25 DEF Making
      <4>2. call'[u].h = new /\ l = listed BY <3>1, <4>1, <1>5, <1>16, <1>25
      <4>3. new # listed BY <1>3, <1>4, <1>11
      <4> QED BY <4>2, <4>3
    <3>2. CASE u # t
      <4>1. call'[u] = call[u] /\ call[u].at \in Making /\ call[u].at # "idle" BY <3>2, <1>25 DEF Making
      <4> QED BY <4>1, <1>0, <1>5, <1>27 DEF MakingInv
    <3> QED BY <3>1, <3>2
  <2>2. ASSUME NEW u \in Threads, NEW v \in Threads, call'[u].at \in Making, call'[v].at # "idle", call'[u].h = call'[v].h
        PROVE  u = v
    <3>1. CASE u = t /\ v # t
      <4>1. at = "create" BY <2>2, <3>1, <1>16, <1>17, <1>25 DEF Making
      <4>2. call'[u].h = new BY <3>1, <4>1, <1>5, <1>16, <1>25
      <4> QED BY <2>2, <3>1, <4>2, <1>25, <1>27
    <3>2. CASE u # t /\ v = t
      <4>1. call'[u] = call[u] /\ call[u].at \in Making /\ call[u].at # "idle" BY <2>2, <3>2, <1>25 DEF Making
      <4>2. call[u].h # listed /\ call[u].h # new BY <4>1, <1>0, <1>27 DEF MakingInv
      <4>3. call'[v].h \in {listed, new} BY <3>2, <1>5, <1>16, <1>25
      <4> QED BY <2>2, <4>1, <4>2, <4>3
    <3>3. CASE u # t /\ v # t BY <2>2, <3>3, <1>0, <1>25 DEF MakingInv
    <3> QED BY <3>1, <3>2, <3>3
  <2> QED BY <2>1, <2>2 DEF MakingInv
<1>29. ASSUME ~orphaned' PROVE ListInv'
  <2>0. ListInv BY <1>1, <1>29 DEF ClientInv
  <2>1. \A u \in Threads : call'[u].at \in Working => call'[u].h = listed'
    <3> SUFFICES ASSUME NEW u \in Threads, call'[u].at \in Working PROVE call'[u].h = l BY <1>5
    <3>1. CASE u = t
      <4>1. at = "lock" BY <3>1, <1>16, <1>17, <1>25 DEF Working, Sending
      <4> QED BY <3>1, <4>1, <1>5, <1>16, <1>25
    <3>2. CASE u # t
      <4>1. call'[u] = call[u] /\ call[u].h = listed BY <3>2, <2>0, <1>25 DEF ListInv
      <4>2. listed # 0 BY <4>1, <2>0, <1>0, NoneWorks
      <4> QED BY <4>1, <4>2, <1>5
    <3> QED BY <3>1, <3>2
  <2>2. listed' # 0 => ~holding'[listed'].done
    <3>1. ~holding[new].done BY <1>0, <1>4 DEF LeaseInv
    <3> QED BY <3>1, <2>0, <1>1, <1>5 DEF ListInv
  <2>3. \A u \in Threads : call'[u].at \in {"list", "replace", "acquire"} => call'[u] = call[u]
    BY <1>16, <1>17, <1>25
  <2>4. \A g \in Holdings : holding'[g].lease # 0 /\ ~holding'[g].done =>
          g = listed' \/ \E u \in Threads : call'[u].at \in {"list", "replace"} /\ call'[u].h = g
    <3> SUFFICES ASSUME NEW g \in Holdings, holding[g].lease # 0, ~holding[g].done
                 PROVE  g = l \/ \E u \in Threads : call'[u].at \in {"list", "replace"} /\ call'[u].h = g
      BY <1>1, <1>5
    <3>1. CASE g = listed BY <3>1, <1>5 DEF Holdings
    <3>2. ASSUME NEW u \in Threads, call[u].at \in {"list", "replace"}, call[u].h = g
          PROVE  \E v \in Threads : call'[v].at \in {"list", "replace"} /\ call'[v].h = g
      BY <3>2, <1>1, <1>25
    <3> QED BY <3>1, <3>2, <2>0 DEF ListInv
  <2> QED BY <2>0, <2>1, <2>2, <2>3, <2>4, <1>1 DEF ListInv
<1> QED BY <1>25, <1>26, <1>28, <1>29 DEF ClientInv

\* A holding no call has locked, as Create makes it.
LEMMA MadeHolding ==
    ASSUME NEW n \in Nat, n # 0, NEW m,
           NEW d, d = [NewHolding EXCEPT !.lease = n, !.sess = [NoSession EXCEPT !.has = TRUE]]
    PROVE  IsHolding(d, m) /\ d.lease = n /\ d.head = Root /\ d.sess.ents = {} /\ ~d.done
<1>1. PICK no : no = FALSE OBVIOUS
<1>2. PICK y : y = TRUE OBVIOUS
<1>3. PICK i : i = [has |-> no, ents |-> {}, leaf |-> Root] OBVIOUS
<1>4. PICK s : s = [i EXCEPT !.has = y] OBVIOUS
<1>5. s = [k \in {"has", "ents", "leaf"} |-> s[k]] /\ s.ents = {} /\ s.leaf = Root BY <1>3, <1>4
<1>6. PICK j : j = [lease |-> 0, done |-> no, sess |-> i, head |-> Root, behind |-> no, stirred |-> no] OBVIOUS
<1>7. d = [j EXCEPT !.lease = n, !.sess = s] BY <1>1, <1>2, <1>3, <1>4, <1>6 DEF NewHolding, NoSession
<1>8. /\ d = [k \in {"lease", "done", "sess", "head", "behind", "stirred"} |-> d[k]]
      /\ d.lease = n /\ d.head = Root /\ d.sess = s
  BY <1>6, <1>7
<1>9. ~d.done BY <1>1, <1>6, <1>7
<1> QED BY <1>5, <1>8, <1>9 DEF IsHolding

\* Create's request: the session made, made and not heard of, or not made.
LEMMA CreateKeeps ==
    ASSUME ClientInv, NEW t \in Threads, Create(t)
    PROVE  ClientInv'
<1> PICK h : h = call[t].h OBVIOUS
<1>0. TypesInv /\ LocksInv /\ LeaseInv /\ MakingInv BY DEF ClientInv
<1>1. call[t].at = "create" /\ UNCHANGED <<listed, holdMu, mu, orphaned>> BY DEF Create, In
<1>2. /\ h \in Holdings /\ h <= used.made /\ IsServer(srv, used.entries)
      /\ IsCall(call[t], used.entries, used.made) /\ leased \in Nat /\ used.made \in Nat
  BY <1>0, <1>1, UsedNat DEF TypesInv, IsCall
<1>3. PICK n \in Nat : n = leased + 1 BY <1>2
<1>4. n # 0 BY <1>2, <1>3
<1>5. PICK made \in BOOLEAN, f \in Fates :
        /\ Fate(f) /\ (made => ~srv.exists)
        /\ srv' = IF made THEN [srv EXCEPT !.exists = TRUE, !.lease = n] ELSE srv
        /\ leased' = IF made THEN n ELSE leased
        /\ \/ /\ made
              /\ holding' = [holding EXCEPT ![h] =
                        [NewHolding EXCEPT !.lease = n, !.sess = [NoSession EXCEPT !.has = TRUE]]]
              /\ Goto(t, "list")
           \/ Over(t, FALSE) /\ UNCHANGED holding
  <2>1. PICK f \in Fates :
        LET made == f # "undelivered" /\ ~srv.exists IN
        /\ Fate(f)
        /\ srv' = IF made THEN [srv EXCEPT !.exists = TRUE, !.lease = leased + 1] ELSE srv
        /\ leased' = IF made THEN leased + 1 ELSE leased
        /\ IF made /\ f = "answered"
           THEN /\ holding' = [holding EXCEPT ![call[t].h] =
                        [NewHolding EXCEPT !.lease = leased + 1, !.sess = [NoSession EXCEPT !.has = TRUE]]]
                /\ Goto(t, "list")
           ELSE Over(t, FALSE) /\ UNCHANGED holding
    BY DEF Create
  <2>2. PICK made \in BOOLEAN : made = (f # "undelivered" /\ ~srv.exists) OBVIOUS
  <2> QED BY <2>1, <2>2, <1>3
<1>6. Grows /\ used'.entries = used.entries /\ used'.made = used.made BY <1>0, <1>5, FateGrows
<1>7. IsServer(srv', used'.entries) /\ srv'.head = srv.head /\ srv'.ents = srv.ents
  <2>1. CASE ~made BY <2>1, <1>2, <1>5, <1>6
  <2>2. CASE made
    <3>1. PICK y \in BOOLEAN : y = TRUE OBVIOUS
    <3>2. srv' = [srv EXCEPT !.exists = y, !.lease = n] BY <2>2, <3>1, <1>5
    <3>3. /\ srv' \in [exists : BOOLEAN, lease : Nat, ents : SUBSET (1..used.entries), head : (1..used.entries) \cup {Root}]
          /\ srv'.head = srv.head /\ srv'.ents = srv.ents
      BY <3>2, <1>2 DEF IsServer
    <3>4. srv'.exists BY <3>1, <3>2, <1>2 DEF IsServer
    <3> QED BY <3>3, <3>4, <1>2, <1>6 DEF IsServer
  <2> QED BY <2>1, <2>2
<1>8. made => srv'.lease = n /\ srv.head = Root /\ leased' = n BY <1>2, <1>5 DEF IsServer
<1>9. ~made => srv' = srv /\ leased' = leased BY <1>5
<1>10. leased' \in Nat BY <1>2, <1>8, <1>9
<1>11. \A u \in Threads : call[u].h = h /\ u # t => call[u].at = "idle"
  BY <1>0, <1>1 DEF MakingInv, Making
<1>12. PICK c, d :
         /\ call' = [call EXCEPT ![t] = c] /\ IsCall(c, used'.entries, used'.made)
         /\ holding' = [holding EXCEPT ![h] = d] /\ IsHolding(d, used'.entries)
         /\ \/ c.at = "idle" /\ d = holding[h]
            \/ c.at = "list" /\ c.h = h /\ made /\ d.lease = n /\ d.head = Root /\ d.sess.ents = {} /\ ~d.done
  <2>1. CASE Over(t, FALSE) /\ UNCHANGED holding
    <3>1. PICK c : /\ call' = [call EXCEPT ![t] = c] /\ c.at = "idle" /\ IsCall(c, used.entries, used.made)
      BY <2>1, <1>0, OverCall
    <3>2. holding' = [holding EXCEPT ![h] = holding[h]] BY <2>1, <1>0, <1>2 DEF TypesInv
    <3>3. IsHolding(holding[h], used'.entries) BY <1>0, <1>2, <1>6 DEF TypesInv
    <3> QED BY <3>1, <3>2, <3>3, <1>6
  <2>2. CASE /\ made /\ Goto(t, "list")
             /\ holding' = [holding EXCEPT ![h] =
                        [NewHolding EXCEPT !.lease = n, !.sess = [NoSession EXCEPT !.has = TRUE]]]
    <3>1. PICK c : /\ call' = [call EXCEPT ![t] = c]
                   /\ c = [k \in {"op", "at", "h", "e", "to", "ok"} |-> c[k]]
                   /\ c.at = "list" /\ c.op = call[t].op /\ c.h = call[t].h /\ c.e = call[t].e
                   /\ c.h \in Holdings /\ c.h <= used.made /\ c.e \in 0..used.entries
      BY <1>0, <1>1, <2>2, Gone DEF Ats
    <3>2. IsCall(c, used'.entries, used'.made) BY <3>1, <1>6 DEF IsCall, Ats, Carrying
    <3>3. PICK d : d = [NewHolding EXCEPT !.lease = n, !.sess = [NoSession EXCEPT !.has = TRUE]] OBVIOUS
    <3>4. IsHolding(d, used'.entries) /\ d.lease = n /\ d.head = Root /\ d.sess.ents = {} /\ ~d.done
      <4>1. PICK m : m = used'.entries OBVIOUS
      <4>2. IsHolding(d, m) /\ d.lease = n /\ d.head = Root /\ d.sess.ents = {} /\ ~d.done
        BY <3>3, <1>4, MadeHolding
      <4> QED BY <4>1, <4>2
    <3>5. holding' = [holding EXCEPT ![h] = d] BY <2>2, <3>3
    <3> QED BY <3>1, <3>2, <3>4, <3>5, <2>2
  <2> QED BY <2>1, <2>2, <1>5
<1>13. FreeStep(t, c, h, d)
  <2>1. call[t].at \notin Owning /\ c.at \notin Owning /\ c.at # "replace" BY <1>1, <1>12 DEF Owning, Sending
  <2>2. \A u \in Threads : call[u].h = h => call[u].at \notin Owning BY <2>1, <1>11 DEF Owning, Sending
  <2>3. listed' \in Holdings \cup {0} /\ listed' <= used'.made BY <1>0, <1>1, <1>6 DEF TypesInv
  <2>4. /\ holdMu' \in Threads \cup {Free} /\ (holdMu' # Free => listed' # 0)
        /\ (c.at = "replace") <=> (holdMu' = t)
        /\ \A u \in Threads \ {t} : (call[u].at = "replace") <=> (holdMu' = u)
    BY <2>1, <1>0, <1>1 DEF LocksInv, TypesInv
  <2> QED BY <2>1, <2>2, <2>3, <2>4, <1>1, <1>2, <1>6, <1>7, <1>10, <1>12 DEF FreeStep
<1>14. /\ TypesInv' /\ CallsInv' /\ LocksInv'
       /\ \A u \in Threads : call'[u] = IF u = t THEN c ELSE call[u]
       /\ \A g \in Holdings : holding'[g] = IF g = h THEN d ELSE holding[g]
  BY <1>13, FreeStepKeeps
<1>15. \A g \in Holdings : holding[g].lease \in Nat /\ holding[g].lease <= leased /\ holding[g].lease # n
  <2>1. \A g \in Holdings : holding[g].lease \in Nat /\ holding[g].lease <= leased
    BY <1>0 DEF TypesInv, IsHolding, LeaseInv
  <2> QED BY <2>1, <1>2, <1>3
<1>16. \A g \in Holdings : holding'[g] = holding[g] \/ (g = h /\ made /\ holding'[g] = d /\ d.lease = n /\ d.head = Root /\ d.sess.ents = {})
  BY <1>12, <1>14
<1>17. LeaseInv'
  <2>1. srv'.lease <= leased'
    <3>1. CASE made
      <4>1. n <= n OBVIOUS
      <4> QED BY <3>1, <4>1, <1>8
    <3>2. CASE ~made BY <3>2, <1>0, <1>9 DEF LeaseInv
    <3> QED BY <3>1, <3>2
  <2>2. leased <= leased'
    <3>1. leased' = n \/ leased' = leased BY <1>8, <1>9
    <3> QED BY <3>1, <1>2, <1>3
  <2>3. \A g \in Holdings : holding'[g].lease <= leased'
    <3> SUFFICES ASSUME NEW g \in Holdings PROVE holding'[g].lease <= leased' OBVIOUS
    <3>1. CASE holding'[g] = holding[g] BY <3>1, <2>2, <1>2, <1>10, <1>15
    <3>2. CASE made /\ holding'[g].lease = n
      <4>1. n <= n OBVIOUS
      <4> QED BY <3>2, <4>1, <1>8
    <3> QED BY <3>1, <3>2, <1>16
  <2>4. \A i, g \in Holdings : holding'[i].lease = holding'[g].lease /\ holding'[i].lease # 0 => i = g
    BY <1>0, <1>15, <1>16 DEF LeaseInv
  <2>5. \A g \in Holdings : g > used'.made => holding'[g].lease = 0 /\ ~holding'[g].done
    <3>1. \A g \in Holdings : g > used.made => g # h BY <1>2 DEF Holdings
    <3> QED BY <3>1, <1>0, <1>6, <1>14 DEF LeaseInv
  <2>6. HeadInStep'
    <3> SUFFICES ASSUME NEW g \in Holdings,
                        holding'[g].lease # 0, holding'[g].lease = srv'.lease, ~holding'[g].behind
                 PROVE  holding'[g].head = srv'.head
      BY DEF HeadInStep
    <3>1. CASE made
      <4>1. holding'[g].lease = n BY <3>1, <1>8
      <4>2. holding'[g] = d /\ d.head = Root BY <4>1, <1>15, <1>16
      <4> QED BY <3>1, <4>2, <1>7, <1>8
    <3>2. CASE ~made BY <3>2, <1>0, <1>9, <1>16 DEF LeaseInv, HeadInStep
    <3> QED BY <3>1, <3>2
  <2> QED BY <2>1, <2>3, <2>4, <2>5, <2>6 DEF LeaseInv
<1>18. MakingInv'
  <2>1. \A u \in Threads : call'[u].at # "idle" => call[u].at # "idle" /\ call'[u].h = call[u].h
    BY <1>1, <1>12, <1>14
  <2>2. \A u \in Threads : call'[u].at \in Making => call[u].at \in Making /\ call'[u].h = call[u].h
    BY <1>1, <1>12, <1>14 DEF Making
  <2> QED BY <2>1, <2>2, <1>0, <1>1 DEF MakingInv
<1>19. ASSUME ~orphaned' PROVE ListInv'
  <2>0. ListInv BY <1>1, <1>19 DEF ClientInv
  <2>1. \A u \in Threads : call'[u].at \in Working => u # t /\ call'[u] = call[u]
    BY <1>12, <1>14 DEF Working, Sending
  <2>2. h # listed BY <1>0, <1>1 DEF MakingInv, Making
  <2>3. listed' # 0 => ~holding'[listed'].done
    BY <2>0, <2>2, <1>0, <1>1, <1>14 DEF ListInv, TypesInv
  <2>4. \A u \in Threads : call'[u].at \in {"list", "replace"} => ~holding'[call'[u].h].done
    <3> SUFFICES ASSUME NEW u \in Threads, call'[u].at \in {"list", "replace"} PROVE ~holding'[call'[u].h].done OBVIOUS
    <3>1. CASE u = t BY <3>1, <1>2, <1>12, <1>14
    <3>2. CASE u # t
      <4>1. call'[u] = call[u] BY <3>2, <1>14
      <4>2. call[u].h \in Holdings /\ call[u].h # h BY <3>2, <4>1, <1>0, <1>11 DEF TypesInv, IsCall
      <4> QED BY <4>1, <4>2, <2>0, <1>14 DEF ListInv
    <3> QED BY <3>1, <3>2
  <2>5. \A u \in Threads : call'[u].at = "acquire" => holding'[call'[u].h].lease = 0
    <3> SUFFICES ASSUME NEW u \in Threads, call'[u].at = "acquire" PROVE holding'[call'[u].h].lease = 0 OBVIOUS
    <3>1. u # t /\ call'[u] = call[u] BY <1>12, <1>14
    <3>2. call[u].h \in Holdings /\ call[u].h # h BY <3>1, <1>0, <1>11 DEF TypesInv, IsCall
    <3> QED BY <3>1, <3>2, <2>0, <1>14 DEF ListInv
  <2>6. \A g \in Holdings : holding'[g].lease # 0 /\ ~holding'[g].done =>
          g = listed' \/ \E u \in Threads : call'[u].at \in {"list", "replace"} /\ call'[u].h = g
    <3> SUFFICES ASSUME NEW g \in Holdings, holding'[g].lease # 0, ~holding'[g].done
                 PROVE  g = listed \/ \E u \in Threads : call'[u].at \in {"list", "replace"} /\ call'[u].h = g
      BY <1>1
    <3>1. CASE g = h /\ c.at = "list" BY <3>1, <1>12, <1>14
    <3>2. CASE holding'[g] = holding[g]
      <4>1. ASSUME NEW u \in Threads, call[u].at \in {"list", "replace"}, call[u].h = g
            PROVE  \E v \in Threads : call'[v].at \in {"list", "replace"} /\ call'[v].h = g
        BY <4>1, <1>1, <1>14
      <4> QED BY <3>2, <4>1, <2>0 DEF ListInv
    <3> QED BY <3>1, <3>2, <1>12, <1>14
  <2>7. \A g \in Holdings : holding'[g].lease # 0 /\ holding'[g].lease = srv'.lease
          => holding'[g].sess.ents \subseteq srv'.ents
    <3> SUFFICES ASSUME NEW g \in Holdings, holding'[g].lease # 0, holding'[g].lease = srv'.lease
                 PROVE  holding'[g].sess.ents \subseteq srv'.ents
      OBVIOUS
    <3>1. CASE made
      <4>1. holding'[g].lease = n BY <3>1, <1>8
      <4>2. holding'[g].sess.ents = {} BY <4>1, <1>15, <1>16
      <4> QED BY <4>2
    <3>2. CASE ~made BY <3>2, <2>0, <1>9, <1>16 DEF ListInv
    <3> QED BY <3>1, <3>2
  <2> QED BY <2>0, <2>1, <2>3, <2>4, <2>5, <2>6, <2>7, <1>1 DEF ListInv
<1> QED BY <1>14, <1>17, <1>18, <1>19 DEF ClientInv

\* Create lists its holding, or takes holdMu to replace the one listed.
LEMMA ListKeeps ==
    ASSUME ClientInv, NEW t \in Threads, List(t)
    PROVE  ClientInv'
<1> PICK h : h = call[t].h OBVIOUS
<1> PICK d : d = holding[h] OBVIOUS
<1>0. TypesInv /\ LocksInv /\ LeaseInv /\ MakingInv BY DEF ClientInv
<1>1. call[t].at = "list" /\ holdMu = Free /\ UNCHANGED <<srv, holding, mu, leased, orphaned, used>> BY DEF List, In
<1>2. /\ h \in Holdings /\ h <= used.made /\ IsServer(srv, used.entries) /\ IsHolding(d, used.entries) /\ leased \in Nat
  BY <1>0, <1>1 DEF TypesInv, IsCall
<1>3. Grows BY <1>0, <1>1, FateGrows
<1>4. \A u \in Threads : call[u].at # "replace" BY <1>0, <1>1, ClientAssumption DEF LocksInv
<1>5. \A u \in Threads : call[u].h = h /\ u # t => call[u].at = "idle" BY <1>0, <1>1 DEF MakingInv, Making
<1>6. PICK c :
        /\ call' = [call EXCEPT ![t] = c] /\ IsCall(c, used'.entries, used'.made)
        /\ \/ c.at = "idle" /\ listed = 0 /\ listed' = h /\ UNCHANGED holdMu
           \/ c.at = "replace" /\ c.h = h /\ listed # 0 /\ UNCHANGED listed /\ holdMu' = t
  <2>1. CASE listed = 0 /\ listed' = h /\ Over(t, TRUE) /\ UNCHANGED holdMu
    <3>1. PICK c : /\ call' = [call EXCEPT ![t] = c] /\ c.at = "idle" /\ IsCall(c, used.entries, used.made)
      BY <2>1, <1>0, OverCall
    <3> QED BY <2>1, <3>1, <1>1
  <2>2. CASE listed # 0 /\ holdMu' = t /\ Goto(t, "replace") /\ UNCHANGED listed
    <3>1. PICK c : /\ call' = [call EXCEPT ![t] = c]
                   /\ c = [k \in {"op", "at", "h", "e", "to", "ok"} |-> c[k]]
                   /\ c.at = "replace" /\ c.op = call[t].op /\ c.h = call[t].h /\ c.e = call[t].e
                   /\ c.h \in Holdings /\ c.h <= used.made /\ c.e \in 0..used.entries
      BY <1>0, <1>1, <2>2, Gone DEF Ats
    <3>2. IsCall(c, used'.entries, used'.made) BY <3>1, <1>1 DEF IsCall, Ats, Carrying
    <3> QED BY <2>2, <3>1, <3>2
  <2> QED BY <2>1, <2>2 DEF List
<1>7. FreeStep(t, c, h, d)
  <2>1. call[t].at \notin Owning /\ c.at \notin Owning BY <1>1, <1>6 DEF Owning, Sending
  <2>2. holding' = [holding EXCEPT ![h] = d] BY <1>0, <1>1, <1>2 DEF TypesInv
  <2>3. listed' \in Holdings \cup {0} /\ listed' <= used'.made BY <1>0, <1>1, <1>2, <1>6 DEF TypesInv
  <2>4. /\ holdMu' \in Threads \cup {Free} /\ (holdMu' # Free => listed' # 0)
        /\ (c.at = "replace") <=> (holdMu' = t)
        /\ \A u \in Threads \ {t} : (call[u].at = "replace") <=> (holdMu' = u)
    BY <1>1, <1>4, <1>6, ClientAssumption
  <2> QED BY <2>1, <2>2, <2>3, <2>4, <1>1, <1>2, <1>3, <1>6 DEF FreeStep
<1>8. /\ TypesInv' /\ CallsInv' /\ LocksInv'
      /\ \A u \in Threads : call'[u] = IF u = t THEN c ELSE call[u]
  BY <1>7, FreeStepKeeps
<1>9. LeaseInv'
  <2>1. HeadInStep' BY <1>0, <1>1 DEF LeaseInv, HeadInStep
  <2> QED BY <2>1, <1>0, <1>1 DEF LeaseInv
<1>10. MakingInv'
  <2>1. \A u \in Threads : call'[u].at # "idle" => call[u].at # "idle" /\ call'[u].h = call[u].h
    BY <1>1, <1>6, <1>8
  <2>2. \A u \in Threads : call'[u].at \in Making => call[u].at \in Making BY <1>1, <1>6, <1>8 DEF Making
  <2>3. \A u \in Threads : call'[u].at \in Making => call'[u].h # listed'
    <3> SUFFICES ASSUME NEW u \in Threads, call'[u].at \in Making PROVE call'[u].h # listed' OBVIOUS
    <3>1. call[u].at \in Making /\ call[u].at # "idle" /\ call'[u].h = call[u].h BY <2>1, <2>2 DEF Making
    <3>2. CASE UNCHANGED listed BY <3>1, <3>2, <1>0 DEF MakingInv
    <3>3. CASE listed' = h /\ c.at = "idle"
      <4>1. u # t BY <3>3, <1>8 DEF Making
      <4> QED BY <4>1, <3>1, <3>3, <1>5
    <3> QED BY <3>2, <3>3, <1>6
  <2> QED BY <2>1, <2>2, <2>3, <1>0 DEF MakingInv, Making
<1>11. ASSUME ~orphaned' PROVE ListInv'
  <2>0. ListInv BY <1>1, <1>11 DEF ClientInv
  <2>1. \A u \in Threads : call'[u].at \in Working => call'[u].h = listed'
    <3> SUFFICES ASSUME NEW u \in Threads, call'[u].at \in Working PROVE call'[u].h = listed' OBVIOUS
    <3>1. u # t /\ call'[u] = call[u] BY <1>6, <1>8 DEF Working, Sending
    <3>2. listed # 0 BY <3>1, <2>0, <1>0, NoneWorks
    <3> QED BY <3>1, <3>2, <2>0, <1>6 DEF ListInv
  <2>2. ~d.done BY <2>0, <1>1 DEF ListInv
  <2>3. listed' # 0 => ~holding'[listed'].done BY <2>0, <2>2, <1>1, <1>6 DEF ListInv
  <2>4. \A u \in Threads : call'[u].at \in {"list", "replace"} => ~holding'[call'[u].h].done
    <3> SUFFICES ASSUME NEW u \in Threads, call'[u].at \in {"list", "replace"} PROVE ~holding'[call'[u].h].done OBVIOUS
    <3>1. CASE u = t BY <3>1, <2>2, <1>1, <1>6, <1>8
    <3>2. CASE u # t BY <3>2, <2>0, <1>1, <1>8 DEF ListInv
    <3> QED BY <3>1, <3>2
  <2>5. \A u \in Threads : call'[u].at = "acquire" => call'[u] = call[u] BY <1>6, <1>8
  <2>6. \A g \in Holdings : holding'[g].lease # 0 /\ ~holding'[g].done =>
          g = listed' \/ \E u \in Threads : call'[u].at \in {"list", "replace"} /\ call'[u].h = g
    <3> SUFFICES ASSUME NEW g \in Holdings, holding[g].lease # 0, ~holding[g].done
                 PROVE  g = listed' \/ \E u \in Threads : call'[u].at \in {"list", "replace"} /\ call'[u].h = g
      BY <1>1
    <3>1. CASE g = listed BY <3>1, <1>6 DEF Holdings
    <3>2. ASSUME NEW u \in Threads, call[u].at \in {"list", "replace"}, call[u].h = g
          PROVE  g = listed' \/ \E v \in Threads : call'[v].at \in {"list", "replace"} /\ call'[v].h = g
      <4>1. CASE u # t BY <3>2, <4>1, <1>8
      <4>2. CASE u = t
        <5>1. g = h BY <3>2, <4>2
        <5>2. CASE c.at = "idle" BY <5>1, <5>2, <1>6
        <5>3. CASE c.at = "replace" BY <5>1, <5>3, <1>6, <1>8
        <5> QED BY <5>2, <5>3, <1>6
      <4> QED BY <4>1, <4>2
    <3> QED BY <3>1, <3>2, <2>0 DEF ListInv
  <2> QED BY <2>0, <2>1, <2>3, <2>4, <2>5, <2>6, <1>1 DEF ListInv
<1> QED BY <1>8, <1>9, <1>10, <1>11 DEF ClientInv

\* Create's holding takes the place of one no call has locked.
LEMMA ReplaceKeeps ==
    ASSUME ClientInv, NEW t \in Threads, Replace(t)
    PROVE  ClientInv'
<1> PICK h : h = call[t].h OBVIOUS
<1> PICK l : l = listed OBVIOUS
<1> PICK b : b = holding[l] OBVIOUS
<1>0. TypesInv /\ LocksInv /\ LeaseInv /\ MakingInv BY DEF ClientInv
<1>1. /\ call[t].at = "replace" /\ mu[l] = Free /\ holding' = [holding EXCEPT ![l].done = TRUE]
      /\ listed' = h /\ holdMu' = Free /\ UNCHANGED <<srv, mu, leased, used>> /\ Over(t, TRUE)
  BY DEF Replace, In
<1>2. ~orphaned' => ~orphaned /\ \A u \in Threads : call[u].at = "lock" => call[u].h # l BY DEF Replace, In
<1>3. holdMu = t /\ listed # 0 BY <1>0, <1>1, ClientAssumption DEF LocksInv
<1>4. /\ h \in Holdings /\ h <= used.made /\ l \in Holdings /\ l <= used.made /\ h # l
      /\ IsServer(srv, used.entries) /\ IsHolding(b, used.entries) /\ leased \in Nat
  BY <1>0, <1>1, <1>3 DEF TypesInv, IsCall, MakingInv, Making
<1>5. Grows BY <1>0, <1>1, FateGrows
<1>6. PICK y : y = TRUE OBVIOUS
<1>7. PICK d : d = [b EXCEPT !.done = y] OBVIOUS
<1>8. /\ d = [k \in {"lease", "done", "sess", "head", "behind", "stirred"} |-> d[k]]
      /\ d.lease = b.lease /\ d.head = b.head /\ d.sess = b.sess
  BY <1>4, <1>7 DEF IsHolding
<1>9. d.behind = b.behind /\ d.done BY <1>4, <1>6, <1>7 DEF IsHolding
<1>10. IsHolding(d, used'.entries) BY <1>1, <1>4, <1>8 DEF IsHolding
<1>11. holding' = [holding EXCEPT ![l] = d] BY <1>1, <1>6, <1>7
<1>12. PICK c : /\ call' = [call EXCEPT ![t] = c] /\ c.at = "idle" /\ IsCall(c, used'.entries, used'.made)
  BY <1>0, <1>1, OverCall
<1>13. \A u \in Threads : call[u].h = l => call[u].at \notin Owning
  BY <1>0, <1>1, ClientAssumption DEF LocksInv
<1>14. FreeStep(t, c, l, d)
  <2>1. call[t].at \notin Owning /\ c.at \notin Owning BY <1>1, <1>12 DEF Owning, Sending
  <2>2. listed' \in Holdings \cup {0} /\ listed' <= used'.made BY <1>1, <1>4
  <2>3. /\ holdMu' \in Threads \cup {Free} /\ (holdMu' # Free => listed' # 0)
        /\ (c.at = "replace") <=> (holdMu' = t)
        /\ \A u \in Threads \ {t} : (call[u].at = "replace") <=> (holdMu' = u)
    BY <1>0, <1>1, <1>3, <1>12, ClientAssumption DEF LocksInv
  <2> QED BY <2>1, <2>2, <2>3, <1>1, <1>4, <1>5, <1>10, <1>11, <1>12, <1>13 DEF FreeStep
<1>15. /\ TypesInv' /\ CallsInv' /\ LocksInv'
       /\ \A u \in Threads : call'[u] = IF u = t THEN c ELSE call[u]
       /\ \A g \in Holdings : holding'[g] = IF g = l THEN d ELSE holding[g]
  BY <1>14, FreeStepKeeps
<1>16. \A g \in Holdings : /\ holding'[g].lease = holding[g].lease /\ holding'[g].head = holding[g].head
                           /\ holding'[g].sess = holding[g].sess
  BY <1>8, <1>15
<1>17. \A g \in Holdings : holding'[g].behind = holding[g].behind BY <1>9, <1>15
<1>18. LeaseInv'
  <2>1. \A g \in Holdings : g > used'.made => holding'[g].lease = 0 /\ ~holding'[g].done
    <3>1. used.made \in Nat BY <1>0, UsedNat
    <3>2. \A g \in Holdings : g > used.made => g # l BY <3>1, <1>4 DEF Holdings
    <3> QED BY <3>2, <1>0, <1>1, <1>15 DEF LeaseInv
  <2>2. HeadInStep' BY <1>0, <1>1, <1>16, <1>17 DEF LeaseInv, HeadInStep
  <2> QED BY <2>1, <2>2, <1>0, <1>1, <1>16 DEF LeaseInv
<1>19. MakingInv'
  <2>1. \A u \in Threads : call'[u].at # "idle" => u # t /\ call'[u] = call[u] BY <1>12, <1>15
  <2>2. \A u \in Threads : call'[u].at \in Making => call'[u].at # "idle" BY DEF Making
  <2>3. \A u \in Threads : call[u].at \in Making /\ u # t => call[u].h # h
    BY <1>0, <1>1 DEF MakingInv, Making
  <2>4. \A u \in Threads : call'[u].at \in Making => call'[u].h # listed' BY <2>1, <2>2, <2>3, <1>1
  <2> QED BY <2>1, <2>2, <2>4, <1>0 DEF MakingInv
<1>20. ASSUME ~orphaned' PROVE ListInv'
  <2>0. ListInv BY <1>2, <1>20 DEF ClientInv
  <2>1. \A u \in Threads : call'[u].at \notin Working
    <3> SUFFICES ASSUME NEW u \in Threads, call'[u].at \in Working PROVE FALSE OBVIOUS
    <3>1. u # t /\ call[u].at \in Working BY <1>12, <1>15 DEF Working, Sending
    <3>2. call[u].h = l BY <3>1, <2>0 DEF ListInv
    <3>3. call[u].at = "lock" BY <3>1, <3>2, <1>13 DEF Working, Owning
    <3> QED BY <3>2, <3>3, <1>2, <1>20
  <2>2. ~holding'[h].done BY <2>0, <1>1, <1>4, <1>15 DEF ListInv
  <2>3. \A u \in Threads : call'[u].at \in {"list", "replace"} => u # t /\ call'[u] = call[u] /\ call[u].h \in Holdings /\ call[u].h # l
    <3> SUFFICES ASSUME NEW u \in Threads, call'[u].at \in {"list", "replace"}
                 PROVE  u # t /\ call'[u] = call[u] /\ call[u].h \in Holdings /\ call[u].h # l
      OBVIOUS
    <3>1. u # t /\ call'[u] = call[u] BY <1>12, <1>15
    <3>2. call[u].h \in Holdings BY <3>1, <1>0 DEF TypesInv, IsCall
    <3>3. call[u].h # listed BY <3>1, <1>0 DEF MakingInv, Making
    <3> QED BY <3>1, <3>2, <3>3
  <2>4. \A u \in Threads : call'[u].at \in {"list", "replace"} => ~holding'[call'[u].h].done
    BY <2>3, <1>15, <2>0 DEF ListInv
  <2>5. \A u \in Threads : call'[u].at # "acquire" BY <2>1 DEF Working
  <2>6. \A g \in Holdings : holding'[g].lease # 0 /\ ~holding'[g].done =>
          g = listed' \/ \E u \in Threads : call'[u].at \in {"list", "replace"} /\ call'[u].h = g
    <3> SUFFICES ASSUME NEW g \in Holdings, holding'[g].lease # 0, ~holding'[g].done, g # h
                 PROVE  \E u \in Threads : call'[u].at \in {"list", "replace"} /\ call'[u].h = g
      BY <1>1
    <3>1. g # l /\ holding'[g] = holding[g] BY <1>9, <1>15
    <3>2. PICK u \in Threads : call[u].at \in {"list", "replace"} /\ call[u].h = g BY <3>1, <2>0 DEF ListInv
    <3>3. u # t BY <3>2
    <3>4. call'[u] = call[u] BY <3>3, <1>15
    <3> QED BY <3>2, <3>4
  <2>7. \A g \in Holdings : holding'[g].lease # 0 /\ holding'[g].lease = srv'.lease
          => holding'[g].sess.ents \subseteq srv'.ents
    BY <1>1, <1>16, <2>0 DEF ListInv
  <2> QED BY <2>1, <2>2, <2>4, <2>5, <2>6, <2>7, <1>1 DEF ListInv
<1> QED BY <1>15, <1>18, <1>19, <1>20 DEF ClientInv

-----------------------------------------------------------------------------
(* What else happens.                                                      *)

LEMMA TypesSame ==
    ASSUME TypesInv, Grows, UNCHANGED <<call, listed, holdMu, mu, leased>>,
           holding' = [h \in Holdings |-> holding'[h]],
           \A h \in Holdings : IsHolding(holding'[h], used'.entries),
           IsServer(srv', used'.entries)
    PROVE  TypesInv'
<1>1. used.entries \in Nat /\ used.made \in Nat /\ used'.entries \in Nat /\ used'.made \in Nat
  BY ClientAssumption DEF Grows, TypesInv
<1>2. ASSUME NEW u \in Threads PROVE IsCall(call'[u], used'.entries, used'.made)
  <2>1. call'[u] = call[u] /\ IsCall(call[u], used.entries, used.made) BY DEF TypesInv
  <2> QED BY <2>1, <1>1, CallGrows DEF Grows
<1>3. listed' <= used'.made
  <2>1. listed \in Nat /\ listed <= used.made BY DEF TypesInv, Holdings
  <2> QED BY <2>1, <1>1 DEF Grows
<1> QED BY <1>2, <1>3 DEF TypesInv, Grows

\* A member of used counts one more.
LEMMA EventGrows ==
    ASSUME TypesInv, Event
    PROVE  Grows /\ used'.entries = used.entries /\ used'.made = used.made
<1>1. used \in [calls : 0..MaxCalls, entries : 0..MaxEntries, faults : Nat, events : Nat, made : Nat]
      /\ used.made <= used.calls
  BY DEF TypesInv
<1>2. PICK n \in Nat : n = used.events + 1 BY <1>1
<1>3. used' = [used EXCEPT !.events = n] BY <1>2 DEF Event
<1>4. /\ used' \in [calls : 0..MaxCalls, entries : 0..MaxEntries, faults : Nat, events : Nat, made : Nat]
      /\ used'.entries = used.entries /\ used'.made = used.made /\ used'.calls = used.calls
  BY <1>1, <1>3
<1>5. used.entries \in Nat /\ used.made \in Nat BY <1>1
<1> QED BY <1>1, <1>4, <1>5 DEF Grows

\* The caller moves its session's leaf.
LEMMA BranchKeeps ==
    ASSUME ClientInv, NEW h \in Holdings, NEW to, Branch(h, to)
    PROVE  ClientInv'
<1> PICK b : b = holding[h] OBVIOUS
<1>0. TypesInv /\ CallsInv /\ LocksInv /\ LeaseInv /\ MakingInv /\ IsHolding(b, used.entries)
  BY DEF ClientInv, TypesInv
<1>1. UNCHANGED <<srv, listed, holdMu, mu, call, leased, orphaned>> /\ to \in b.sess.ents \cup {Root} BY DEF Branch
<1>2. Grows /\ used'.entries = used.entries /\ used'.made = used.made BY <1>0, EventGrows DEF Branch
<1>3. PICK s : s = [b.sess EXCEPT !.leaf = to] OBVIOUS
<1>4. PICK x : x = (b.stirred \/ mu[h] # Free) OBVIOUS
<1>5. PICK d : d = [b EXCEPT !.sess = s, !.stirred = x] OBVIOUS
<1>6. s = [k \in {"has", "ents", "leaf"} |-> s[k]] /\ s.ents = b.sess.ents /\ s.leaf = to
  BY <1>0, <1>3 DEF IsHolding
<1>7. s.has = b.sess.has BY <1>0, <1>3 DEF IsHolding
<1>8. /\ d = [k \in {"lease", "done", "sess", "head", "behind", "stirred"} |-> d[k]]
      /\ d.lease = b.lease /\ d.head = b.head /\ d.sess = s
  BY <1>0, <1>5 DEF IsHolding
<1>9. d.done = b.done /\ d.behind = b.behind /\ d.stirred = x BY <1>0, <1>5 DEF IsHolding
<1>10. IsHolding(d, used'.entries) BY <1>0, <1>1, <1>2, <1>6, <1>7, <1>8 DEF IsHolding
<1>11. holding' = [holding EXCEPT ![h].sess.leaf = to, ![h].stirred = b.stirred \/ mu[h] # Free]
  BY <1>0 DEF Branch, TypesInv
<1>12. holding' = [holding EXCEPT ![h] = d] BY <1>0, <1>3, <1>4, <1>5, <1>11 DEF TypesInv
<1>13. \A g \in Holdings : holding'[g] = IF g = h THEN d ELSE holding[g] BY <1>0, <1>12 DEF TypesInv
<1>14. holding' = [g \in Holdings |-> holding'[g]] BY <1>0, <1>12 DEF TypesInv
<1>15. \A g \in Holdings : IsHolding(holding'[g], used'.entries) BY <1>0, <1>2, <1>10, <1>13 DEF TypesInv
<1>16. IsServer(srv', used'.entries) BY <1>0, <1>1, <1>2 DEF TypesInv
<1>17. TypesInv' BY <1>0, <1>1, <1>2, <1>14, <1>15, <1>16, TypesSame
<1>18. CallsInv'
  <2> SUFFICES ASSUME NEW u \in Threads PROVE Fits(call[u], holding'[call[u].h]) BY <1>1 DEF CallsInv
  <2>0. Fits(call[u], holding[call[u].h]) BY <1>0 DEF CallsInv
  <2>1. CASE call[u].at \notin Owning BY <2>1 DEF Fits, Sending, Carrying, Owning
  <2>2. CASE call[u].at \in Owning /\ call[u].h # h
    <3>1. call[u].h \in Holdings BY <2>2, <1>0 DEF TypesInv, IsCall, Owning, Sending
    <3> QED BY <2>0, <2>2, <3>1, <1>13
  <2>3. CASE call[u].at \in Owning /\ call[u].h = h
    <3>1. mu[h] # Free BY <2>3, <1>0, ClientAssumption DEF LocksInv
    <3>2. d.stirred BY <3>1, <1>4, <1>9
    <3>3. holding'[call[u].h] = d /\ holding[call[u].h] = b BY <2>3, <1>13
    <3> QED BY <2>0, <3>2, <3>3, <1>6, <1>8 DEF Fits
  <2> QED BY <2>1, <2>2, <2>3
<1>19. LocksInv' /\ MakingInv' BY <1>0, <1>1 DEF LocksInv, MakingInv
<1>20. \A g \in Holdings : /\ holding'[g].lease = holding[g].lease /\ holding'[g].head = holding[g].head
                           /\ holding'[g].sess.ents = holding[g].sess.ents
  BY <1>6, <1>8, <1>13
<1>21. \A g \in Holdings : holding'[g].behind = holding[g].behind /\ holding'[g].done = holding[g].done BY <1>9, <1>13
<1>22. LeaseInv'
  <2>1. HeadInStep' BY <1>0, <1>1, <1>20, <1>21 DEF LeaseInv, HeadInStep
  <2> QED BY <2>1, <1>0, <1>1, <1>2, <1>20, <1>21 DEF LeaseInv
<1>23. ASSUME ~orphaned' PROVE ListInv'
  <2>0. ListInv BY <1>1, <1>23 DEF ClientInv
  <2>1. \A u \in Threads : call[u].at \in {"list", "replace", "acquire"} => call[u].h \in Holdings
    BY <1>0 DEF TypesInv, IsCall
  <2>2. \A u \in Threads : call[u].at \in {"list", "replace"} => ~holding'[call[u].h].done BY <2>0, <2>1, <1>21 DEF ListInv
  <2>3. \A u \in Threads : call[u].at = "acquire" => holding'[call[u].h].lease = 0 BY <2>0, <2>1, <1>20 DEF ListInv
  <2>4. listed # 0 => ~holding'[listed].done BY <2>0, <1>0, <1>21 DEF ListInv, TypesInv
  <2>5. \A g \in Holdings : holding'[g].lease # 0 /\ ~holding'[g].done =>
          g = listed \/ \E u \in Threads : call[u].at \in {"list", "replace"} /\ call[u].h = g
    BY <2>0, <1>20, <1>21 DEF ListInv
  <2>6. \A g \in Holdings : holding'[g].lease # 0 /\ holding'[g].lease = srv.lease
          => holding'[g].sess.ents \subseteq srv.ents
    BY <2>0, <1>20 DEF ListInv
  <2>7. \A u \in Threads : call[u].at \in Working => call[u].h = listed BY <2>0 DEF ListInv
  <2> QED BY <2>2, <2>3, <2>4, <2>5, <2>6, <2>7, <1>1 DEF ListInv
<1> QED BY <1>17, <1>18, <1>19, <1>22, <1>23 DEF ClientInv

\* The server's lease ends, or there is none and another client writes.
LEMMA ServerEventKeeps ==
    ASSUME ClientInv, LeaseEnds \/ OtherWrites
    PROVE  ClientInv'
<1>0. TypesInv /\ CallsInv /\ LocksInv /\ LeaseInv /\ MakingInv /\ IsServer(srv, used.entries)
  BY DEF ClientInv, TypesInv
<1>1. UNCHANGED <<holding, listed, holdMu, mu, call, leased, orphaned>> BY DEF LeaseEnds, OtherWrites
<1>2. Grows /\ used'.made = used.made /\ IsServer(srv', used'.entries) /\ srv'.lease = 0
  <2>1. CASE LeaseEnds
    <3>1. Grows /\ used'.entries = used.entries /\ used'.made = used.made BY <2>1, <1>0, EventGrows DEF LeaseEnds
    <3>2. srv' = [srv EXCEPT !.lease = 0] BY <2>1 DEF LeaseEnds
    <3>3. IsServer(srv', used'.entries) /\ srv'.lease = 0 BY <3>1, <3>2, <1>0 DEF IsServer
    <3> QED BY <3>1, <3>3
  <2>2. CASE OtherWrites
    <3>1. /\ used \in [calls : 0..MaxCalls, entries : 0..MaxEntries, faults : Nat, events : Nat, made : Nat]
          /\ used.made <= used.calls /\ used.entries \in Nat /\ used.made \in Nat
      BY <1>0, UsedNat DEF TypesInv
    <3>2. PICK n \in Nat : n = used.events + 1 BY <3>1
    <3>3. PICK e \in 0..MaxEntries : e = used.entries + 1 BY <2>2, <3>1, ClientAssumption DEF OtherWrites
    <3>4. used' = [used EXCEPT !.events = n, !.entries = e] BY <2>2, <3>2, <3>3 DEF OtherWrites
    <3>5. /\ used' \in [calls : 0..MaxCalls, entries : 0..MaxEntries, faults : Nat, events : Nat, made : Nat]
          /\ used'.entries = e /\ used'.made = used.made /\ used'.calls = used.calls
      BY <3>1, <3>4
    <3>6. Grows BY <3>1, <3>3, <3>5 DEF Grows
    <3>7. PICK x : x = srv.ents \cup {e} OBVIOUS
    <3>8. srv' = [srv EXCEPT !.ents = x, !.head = e] BY <2>2, <3>3, <3>7 DEF OtherWrites
    <3>9. x \subseteq 1..e /\ e \in 1..e
      <4>1. srv.ents \subseteq 1..used.entries BY <1>0 DEF IsServer
      <4> QED BY <4>1, <3>1, <3>3, <3>7
    <3>10. srv.lease = 0 /\ srv.exists BY <2>2 DEF OtherWrites
    <3>11. /\ srv' \in [exists : BOOLEAN, lease : Nat, ents : SUBSET (1..e), head : (1..e) \cup {Root}]
           /\ srv'.head = e /\ srv'.ents = x /\ srv'.lease = 0
      BY <3>8, <3>9, <3>10, <1>0 DEF IsServer
    <3>12. srv'.exists BY <3>8, <3>10, <1>0 DEF IsServer
    <3>13. IsServer(srv', used'.entries) BY <3>5, <3>7, <3>11, <3>12 DEF IsServer
    <3> QED BY <3>5, <3>6, <3>11, <3>13
  <2> QED BY <2>1, <2>2
<1>3. TypesInv'
  <2>1. used.entries \in Nat /\ used'.entries \in Nat /\ used.entries <= used'.entries BY <1>0, <1>2, UsedNat DEF Grows
  <2>2. \A g \in Holdings : IsHolding(holding'[g], used'.entries)
    <3> SUFFICES ASSUME NEW g \in Holdings PROVE IsHolding(holding'[g], used'.entries) OBVIOUS
    <3>1. holding'[g] = holding[g] /\ IsHolding(holding[g], used.entries) BY <1>0, <1>1 DEF TypesInv
    <3> QED BY <3>1, <2>1, HoldingGrows
  <2>3. holding' = [g \in Holdings |-> holding'[g]] BY <1>0, <1>1 DEF TypesInv
  <2> QED BY <2>2, <2>3, <1>0, <1>1, <1>2, TypesSame
<1>4. CallsInv' /\ LocksInv' /\ MakingInv' BY <1>0, <1>1 DEF CallsInv, LocksInv, MakingInv
<1>5. LeaseInv'
  <2>1. HeadInStep' BY <1>2 DEF HeadInStep
  <2>2. srv'.lease <= leased' BY <1>0, <1>1, <1>2 DEF TypesInv
  <2> QED BY <2>1, <2>2, <1>0, <1>1, <1>2 DEF LeaseInv
<1>6. ASSUME ~orphaned' PROVE ListInv'
  <2>0. ListInv BY <1>1, <1>6 DEF ClientInv
  <2> QED BY <2>0, <1>1, <1>2 DEF ListInv
<1> QED BY <1>3, <1>4, <1>5, <1>6 DEF ClientInv

-----------------------------------------------------------------------------
(* The invariant and what follows from it.                                 *)

LEMMA InitHolds ==
    ASSUME ClientInit
    PROVE  ClientInv
<1>1. PICK no : no = FALSE OBVIOUS
<1>2. PICK y \in BOOLEAN : y = TRUE OBVIOUS
<1>3. PICK s : s = [has |-> no, ents |-> {}, leaf |-> Root] OBVIOUS
<1>4. PICK d : d = [lease |-> 0, done |-> no, sess |-> s, head |-> Root, behind |-> no, stirred |-> no] OBVIOUS
<1>5. NewHolding = d BY <1>1, <1>3, <1>4 DEF NewHolding, NoSession
<1>6. PICK c : c = [op |-> "none", at |-> "idle", h |-> 1, e |-> 0, to |-> Root, ok |-> y] OBVIOUS
<1>7. Idle = c BY <1>2, <1>6 DEF Idle
<1>8. \A h \in Holdings : holding[h] = d BY <1>5 DEF ClientInit
<1>9. \A t \in Threads : call[t] = c BY <1>7 DEF ClientInit
<1>10. s = [k \in {"has", "ents", "leaf"} |-> s[k]] /\ s.ents = {} /\ s.leaf = Root BY <1>3
<1>11. ~s.has BY <1>1, <1>3
<1>12. /\ d = [k \in {"lease", "done", "sess", "head", "behind", "stirred"} |-> d[k]]
       /\ d.lease = 0 /\ d.sess = s
  BY <1>4
<1>13. ~d.done BY <1>1, <1>4
<1>14. c = [k \in {"op", "at", "h", "e", "to", "ok"} |-> c[k]] /\ c.at = "idle" /\ c.e = 0 BY <1>6
<1>15. IsHolding(d, 0) BY <1>10, <1>11, <1>12 DEF IsHolding
<1>16. IsCall(c, 0, 0) BY <1>14 DEF IsCall, Ats, Carrying
<1>17. /\ used \in [calls : 0..MaxCalls, entries : 0..MaxEntries, faults : Nat, events : Nat, made : Nat]
       /\ used.calls = 0 /\ used.entries = 0 /\ used.made = 0
  BY ClientAssumption DEF ClientInit
<1>18. IsServer(srv, 0) /\ srv.lease = 0
  <2>1. srv = [exists |-> y, lease |-> 0, ents |-> {}, head |-> Root] BY <1>2 DEF ClientInit
  <2>2. /\ srv \in [exists : BOOLEAN, lease : Nat, ents : SUBSET (1..0), head : (1..0) \cup {Root}]
        /\ srv.ents = {} /\ srv.head = Root /\ srv.lease = 0
    BY <2>1
  <2>3. srv.exists BY <2>1, <1>2
  <2> QED BY <2>2, <2>3 DEF IsServer
<1>19. TypesInv
  <2>1. holding = [h \in Holdings |-> holding[h]] /\ call = [t \in Threads |-> call[t]] BY DEF ClientInit
  <2>2. mu \in [Holdings -> Threads \cup {Free}] /\ holdMu \in Threads \cup {Free} BY DEF ClientInit
  <2>3. listed \in Holdings \cup {0} /\ listed <= used.made /\ leased \in Nat /\ used.made <= used.calls
    BY <1>17 DEF ClientInit
  <2>4. \A h \in Holdings : IsHolding(holding[h], used.entries) BY <1>8, <1>15, <1>17
  <2>5. \A t \in Threads : IsCall(call[t], used.entries, used.made) BY <1>9, <1>16, <1>17
  <2>6. IsServer(srv, used.entries) BY <1>17, <1>18
  <2> QED BY <2>1, <2>2, <2>3, <2>4, <2>5, <2>6, <1>17 DEF TypesInv
<1>20. CallsInv BY <1>9, <1>14 DEF CallsInv, Fits, Sending, Carrying
<1>21. LocksInv
  <2>1. \A t \in Threads : call[t].at \notin Owning /\ call[t].at # "replace" BY <1>9, <1>14 DEF Owning, Sending
  <2>2. \A h \in Holdings : mu[h] = Free BY DEF ClientInit
  <2>3. holdMu = Free BY DEF ClientInit
  <2> QED BY <2>1, <2>2, <2>3, ClientAssumption DEF LocksInv
<1>22. LeaseInv
  <2>1. HeadInStep BY <1>18 DEF HeadInStep
  <2>2. leased = 0 BY DEF ClientInit
  <2> QED BY <2>1, <2>2, <1>8, <1>12, <1>13, <1>18 DEF LeaseInv
<1>23. MakingInv BY <1>9, <1>14 DEF MakingInv, Making
<1>24. ListInv
  <2>1. listed = 0 BY DEF ClientInit
  <2> QED BY <2>1, <1>8, <1>9, <1>12, <1>14 DEF ListInv, Working, Sending
<1> QED BY <1>19, <1>20, <1>21, <1>22, <1>23, <1>24 DEF ClientInv

LEMMA StepKeeps ==
    ASSUME ClientInv, [ClientNext]_clientVars
    PROVE  ClientInv'
<1>1. ASSUME NEW t \in Threads, CallSteps(t) PROVE ClientInv'
  BY <1>1, LockKeeps, AcquireKeeps, DropKeeps, UnleaseKeeps, SessionKeeps, PrepareKeeps, FenceKeeps,
     MoveHeadKeeps, WriteKeeps, DeleteKeeps, CreateKeeps, ListKeeps, ReplaceKeeps DEF CallSteps
<1>2. ASSUME NEW t \in Threads, NEW op \in Ops, Start(t, op) PROVE ClientInv' BY <1>2, StartKeeps
<1>3. CASE LeaseEnds \/ OtherWrites BY <1>3, ServerEventKeeps
<1>4. ASSUME NEW h \in Holdings, NEW to, Branch(h, to) PROVE ClientInv' BY <1>4, BranchKeeps
<1>5. CASE UNCHANGED clientVars
  <2>1. TypesInv' /\ CallsInv' /\ LocksInv' BY <1>5 DEF clientVars, ClientInv, TypesInv, CallsInv, LocksInv
  <2>2. LeaseInv' /\ MakingInv' BY <1>5 DEF clientVars, ClientInv, LeaseInv, HeadInStep, MakingInv
  <2>3. ~orphaned' => ListInv' BY <1>5 DEF clientVars, ClientInv, ListInv
  <2> QED BY <2>1, <2>2, <2>3 DEF ClientInv
<1> QED BY <1>1, <1>2, <1>3, <1>4, <1>5 DEF ClientNext

LEMMA InvHolds == ClientSpec => []ClientInv
BY InitHolds, StepKeeps, PTL DEF ClientSpec

\* The calls on one client keep its session, its view of the server's head
\* and its list of leases in step with the server, whatever answers are lost
\* and leases end (hold, Write, SetHead, Delete, Create, Release, drop).
THEOREM ClientStaysInStep == ClientSpec => []ClientInStep
<1>1. ASSUME ClientInv PROVE ClientInStep
  <2>0. TypesInv /\ LeaseInv /\ used.entries \in Nat /\ used.entries <= MaxEntries
    BY <1>1, UsedNat DEF ClientInv
  <2>1. 1..used.entries \subseteq Ids BY <2>0, ClientAssumption DEF Ids
  <2>2. srv \in [exists : BOOLEAN, lease : Nat, ents : SUBSET Ids, head : Ids \cup {Root}]
    BY <2>0, <2>1 DEF TypesInv, IsServer
  <2>3. \A h \in Holdings : /\ holding[h].lease \in Nat /\ holding[h].sess.ents \subseteq Ids
                            /\ holding[h].sess.leaf \in holding[h].sess.ents \cup {Root}
    BY <2>0, <2>1 DEF TypesInv, IsHolding
  <2>4. ClientTypeOK BY <2>0, <2>2, <2>3 DEF ClientTypeOK, TypesInv
  <2>5. SessionOnServer BY <1>1 DEF ClientInv, ListInv, SessionOnServer
  <2>6. LeasesListed BY <1>1 DEF ClientInv, ListInv, LeasesListed, Resting, In
  <2> QED BY <2>0, <2>4, <2>5, <2>6 DEF ClientInStep, LeaseInv
<1> QED BY <1>1, InvHolds, PTL

\* Calls never all wait on one another, unless a Create that has holdMu waits
\* for a holding whose lock a call has that drops it (Create, drop).
THEOREM CallsNeverAllWait == ClientSpec => []WaitsEnd
<1>1. ASSUME ClientInv PROVE WaitsEnd
  <2> SUFFICES ASSUME ~Resting, ~Crossed, \A t \in Threads : ~In(t, "idle") => Blocked(t) PROVE FALSE
    BY DEF WaitsEnd
  <2>0. TypesInv /\ LocksInv BY <1>1 DEF ClientInv
  <2>1. ASSUME NEW h \in Holdings, mu[h] # Free
        PROVE  mu[h] \in Threads /\ In(mu[h], "drop") /\ holdMu # Free
    <3>1. mu[h] \in Threads BY <2>0, <2>1 DEF TypesInv
    <3>2. call[mu[h]].at \in Owning BY <2>0, <2>1 DEF LocksInv
    <3>3. Blocked(mu[h]) BY <3>1, <3>2 DEF In, Owning, Sending
    <3> QED BY <3>1, <3>2, <3>3 DEF Blocked, In, Owning, Sending
  <2>2. \A t \in Threads : ~In(t, "replace")
    <3> SUFFICES ASSUME NEW t \in Threads, In(t, "replace") PROVE FALSE OBVIOUS
    <3>1. mu[listed] # Free BY DEF Blocked, In
    <3>2. holdMu # Free BY <2>0, ClientAssumption DEF LocksInv, In
    <3>3. listed \in Holdings BY <3>2, <2>0 DEF LocksInv, TypesInv
    <3>4. mu[listed] \in Threads /\ In(mu[listed], "drop") BY <3>1, <3>3, <2>1
    <3> QED BY <3>4 DEF Crossed
  <2>3. holdMu = Free BY <2>0, <2>2 DEF TypesInv, LocksInv, In
  <2>4. PICK t \in Threads : ~In(t, "idle") BY DEF Resting
  <2>5. In(t, "lock") /\ mu[call[t].h] # Free BY <2>2, <2>3, <2>4 DEF Blocked
  <2>6. call[t].h \in Holdings BY <2>0, <2>5 DEF TypesInv, IsCall, In
  <2> QED BY <2>1, <2>3, <2>5, <2>6
<1> QED BY <1>1, InvHolds, PTL

\* Only a call's own steps end it.
LEMMA OwnStep ==
    ASSUME ClientInv, ClientNext, NEW t \in Threads, call[t].at \in {"write", "rootmove"}, call'[t].at = "idle"
    PROVE  Write(t) \/ MoveHead(t)
<1>0. call = [u \in Threads |-> call[u]] BY DEF ClientInv, TypesInv
<1>1. ASSUME NEW u \in Threads, u # t, NEW c, call' = [call EXCEPT ![u] = c] PROVE FALSE
  BY <1>0, <1>1
<1>2. ASSUME NEW u \in Threads, u # t, CallSteps(u) PROVE FALSE
  <2>1. CASE Lock(u) BY <2>1, <1>1, <1>2 DEF Lock, Goto
  <2>2. CASE Acquire(u) BY <2>2, <1>1, <1>2 DEF Acquire, Goto
  <2>3. CASE Drop(u) BY <2>3, <1>1, <1>2 DEF Drop, Goto, Return, Over
  <2>4. CASE Unlease(u) BY <2>4, <1>1, <1>2 DEF Unlease, Return, Over
  <2>5. CASE Session(u) BY <2>5, <1>1, <1>2 DEF Session, Goto, Return, Over
  <2>6. CASE Prepare(u)
    <3>1. CASE call' = [call EXCEPT ![u].e = used.entries + 1, ![u].at = "fence"] BY <3>1, <1>0, <1>2
    <3> QED BY <2>6, <3>1, <1>1, <1>2 DEF Prepare, Goto, Return, Over
  <2>7. CASE Fence(u)
    <3>1. ASSUME NEW m, NEW at, call' = [call EXCEPT ![u].to = m, ![u].at = at] PROVE FALSE BY <3>1, <1>0, <1>2
    <3>2. CASE Return(u, FALSE) BY <3>2, <1>1, <1>2 DEF Return, Over
    <3> DEFINE moves == Of(u, {"write"}) /\ Sess(u).leaf \notin {Root, H(u).head}
    <3>3. CASE \E to \in IF moves THEN {Sess(u).leaf} ELSE Sess(u).ents \cup {Root} :
                 call' = [call EXCEPT ![u].to = IF Of(u, {"sethead"}) \/ moves THEN to ELSE Root,
                                      ![u].at = IF moves THEN "move" ELSE call[u].op]
      <4>1. PICK to : call' = [call EXCEPT ![u].to = IF Of(u, {"sethead"}) \/ moves THEN to ELSE Root,
                                           ![u].at = IF moves THEN "move" ELSE call[u].op]
        BY <3>3
      <4> HIDE DEF moves
      <4>2. PICK m : m = IF Of(u, {"sethead"}) \/ moves THEN to ELSE Root OBVIOUS
      <4>3. PICK at : at = IF moves THEN "move" ELSE call[u].op OBVIOUS
      <4>4. call' = [call EXCEPT ![u].to = m, ![u].at = at] BY <4>1, <4>2, <4>3
      <4> QED BY <4>4, <3>1
    <3> QED BY <2>7, <3>2, <3>3 DEF Fence
  <2>8. CASE MoveHead(u) BY <2>8, <1>1, <1>2 DEF MoveHead, Goto, Return, Over
  <2>9. CASE Write(u)
    <3>1. CASE call' = [call EXCEPT ![u].to = call[u].e, ![u].at = "rootmove"] BY <3>1, <1>0, <1>2
    <3> QED BY <2>9, <3>1, <1>1, <1>2 DEF Write, Return, Over
  <2>10. CASE Delete(u) BY <2>10, <1>1, <1>2 DEF Delete, Goto, Return, Over
  <2>11. CASE Create(u) BY <2>11, <1>1, <1>2 DEF Create, Goto, Over
  <2>12. CASE List(u) BY <2>12, <1>1, <1>2 DEF List, Goto, Over
  <2>13. CASE Replace(u) BY <2>13, <1>1, <1>2 DEF Replace, Over
  <2> QED BY <1>2, <2>1, <2>2, <2>3, <2>4, <2>5, <2>6, <2>7, <2>8, <2>9, <2>10, <2>11, <2>12, <2>13 DEF CallSteps
<1>3. ASSUME CallSteps(t) PROVE Write(t) \/ MoveHead(t)
  BY <1>3 DEF CallSteps, Lock, Acquire, Drop, Unlease, Session, Prepare, Fence, Delete, Create, List, Replace, In
<1>4. ASSUME NEW u \in Threads, NEW op \in Ops, Start(u, op) PROVE FALSE
  <2>1. u # t BY <1>4 DEF Start, In
  <2> QED BY <2>1, <1>1, <1>4 DEF Start
<1>5. ~LeaseEnds /\ ~OtherWrites /\ \A h \in Holdings, to \in Ids \cup {Root} : ~Branch(h, to)
  BY DEF LeaseEnds, OtherWrites, Branch
<1> QED BY <1>2, <1>3, <1>4, <1>5 DEF ClientNext

\* A write that returned well left the record's head on the entry, if the
\* session continues with it and nothing hid the head from the client.
LEMMA WriteLeavesHead ==
    ASSUME ClientInv, NEW t \in Threads, Write(t), call[t].e \notin srv.ents,
           call'[t].at = "idle", call'[t].ok,
           holding'[call[t].h].sess.leaf = call[t].e,
           ~holding[call[t].h].behind, ~holding[call[t].h].stirred
    PROVE  srv'.head = call[t].e
<1> PICK h : h = call[t].h OBVIOUS
<1> PICK b : b = holding[h] OBVIOUS
<1> PICK e : e = call[t].e OBVIOUS
<1>1. call[t].at = "write" /\ call[t].at \in Owning BY DEF Write, In, Owning, Sending
<1>2. /\ TypesInv /\ h \in Holdings /\ IsHolding(b, used.entries) /\ IsServer(srv, used.entries)
      /\ IsCall(call[t], used.entries, used.made) /\ Fits(call[t], b)
  BY <1>1, Owner
<1>3. PICK r : r = Appended(e) OBVIOUS
<1>4. PICK s : s = Committed(b.sess, e) OBVIOUS
<1>5. ASSUME Return(t, FALSE) PROVE FALSE
  <2>1. PICK c : call' = [call EXCEPT ![t] = c] /\ c.ok = FALSE BY <1>2, <1>5, Returned
  <2>2. call'[t] = c BY <2>1, <1>2 DEF TypesInv
  <2> QED BY <2>1, <2>2
<1>6. /\ Fenced(t) /\ srv' = r
      /\ holding' = [holding EXCEPT ![h] = [@ EXCEPT !.head = r.head, !.sess = s, !.behind = FALSE]]
      /\ \/ call' = [call EXCEPT ![t].to = e, ![t].at = "rootmove"]
         \/ ~MovesRoot(t, s, r.head)
  BY <1>3, <1>4, <1>5 DEF Write, Sess, H, HeadAfter
<1>7. call' # [call EXCEPT ![t].to = e, ![t].at = "rootmove"]
  <2> SUFFICES ASSUME call' = [call EXCEPT ![t].to = e, ![t].at = "rootmove"] PROVE FALSE OBVIOUS
  <2>1. PICK a : a = call[t] OBVIOUS
  <2>2. a = [k \in {"op", "at", "h", "e", "to", "ok"} |-> a[k]] BY <2>1, <1>2 DEF IsCall
  <2>3. call'[t] = [a EXCEPT !.to = e, !.at = "rootmove"] BY <2>1, <1>2 DEF TypesInv
  <2>4. call'[t].at = "rootmove" BY <2>2, <2>3
  <2> QED BY <2>4
<1>8. PICK no : no = FALSE OBVIOUS
<1>9. holding'[h] = [b EXCEPT !.head = r.head, !.sess = s, !.behind = no] BY <1>2, <1>6, <1>8 DEF TypesInv
<1>10. holding'[h].sess = s BY <1>2, <1>9 DEF IsHolding
<1>11. s.leaf = e BY <1>10
<1>12. s.leaf = IF parent[e] = b.sess.leaf THEN e ELSE b.sess.leaf
  <2>1. PICK a : a = b.sess OBVIOUS
  <2>2. a = [k \in {"has", "ents", "leaf"} |-> a[k]] /\ a.leaf \in a.ents \cup {Root} /\ s = Committed(a, e)
    BY <2>1, <1>2, <1>4 DEF IsHolding
  <2>3. s.leaf = IF parent[e] = a.leaf THEN e ELSE a.leaf BY <2>2, SessionCommitted
  <2> QED BY <2>1, <2>3
<1>13. b.sess.leaf # e
  <2>1. e # 0 /\ e \notin b.sess.ents BY <1>1, <1>2 DEF IsCall, Fits, Carrying
  <2> QED BY <2>1, <1>2 DEF IsHolding, Root
<1>14. parent[e] = b.sess.leaf BY <1>11, <1>12, <1>13
<1>15. b.head = srv.head
  <2>1. b.lease # 0 /\ b.lease = srv.lease BY <1>6 DEF Fenced, H
  <2> QED BY <2>1, <1>2 DEF ClientInv, LeaseInv, HeadInStep
<1>16. b.sess.leaf \in {Root, b.head} BY <1>1, <1>2 DEF Fits
<1>17. CASE b.sess.leaf = b.head
  <2>1. PICK a : a = srv.ents \cup {e} OBVIOUS
  <2>2. r = [srv EXCEPT !.ents = a, !.head = e] BY <2>1, <1>3, <1>14, <1>15, <1>17 DEF Appended
  <2>3. r.head = e BY <2>2, <1>2 DEF IsServer
  <2> QED BY <2>3, <1>6
<1>18. CASE b.sess.leaf = Root
  <2>1. ~MovesRoot(t, s, r.head) BY <1>6, <1>7
  <2>2. r.head = e BY <2>1, <1>11, <1>14, <1>18 DEF MovesRoot
  <2> QED BY <2>2, <1>6
<1> QED BY <1>16, <1>17, <1>18

\* A root's move that returned well left the head on it.
LEMMA RootLeavesHead ==
    ASSUME ClientInv, NEW t \in Threads, MoveHead(t), call[t].at = "rootmove", call'[t].at = "idle", call'[t].ok
    PROVE  srv'.head = call[t].e
<1>1. /\ TypesInv /\ IsServer(srv, used.entries) /\ IsCall(call[t], used.entries, used.made)
  BY Owner DEF Owning, Sending
<1>2. ASSUME Return(t, FALSE) PROVE FALSE
  <2>1. PICK no : no = FALSE OBVIOUS
  <2>2. Return(t, no) BY <1>2, <2>1
  <2>3. PICK c : call' = [call EXCEPT ![t] = c] /\ c.ok = no BY <1>1, <2>2, Returned
  <2>4. call'[t] = c BY <2>3, <1>1 DEF TypesInv
  <2> QED BY <2>1, <2>3, <2>4
<1>3. srv' = [srv EXCEPT !.head = call[t].to] BY <1>2 DEF MoveHead
<1>4. call[t].to = call[t].e BY <1>1 DEF IsCall
<1> QED BY <1>1, <1>3, <1>4 DEF IsServer

\* A write the server takes and the caller's session continues leaves the
\* record's head on it, through the moves of the head before and after the
\* append (Write, moveHead).
THEOREM HeadFollowsLeaf == ClientSpec => HeadIsLeaf
<1> DEFINE Follows ==
      \A t \in Threads :
        LET h == call[t].h IN
        /\ (In(t, "write") /\ call[t].e \notin srv.ents) \/ In(t, "rootmove")
        /\ call'[t].at = "idle" /\ call'[t].ok
        /\ holding'[h].sess.leaf = call[t].e /\ holding'[h].lease = srv'.lease
        /\ ~holding[h].behind /\ ~holding[h].stirred
        => srv'.head = call[t].e
<1>1. ASSUME ClientInv, ClientNext PROVE Follows
  <2> SUFFICES ASSUME NEW t \in Threads,
                      (In(t, "write") /\ call[t].e \notin srv.ents) \/ In(t, "rootmove"),
                      call'[t].at = "idle", call'[t].ok,
                      holding'[call[t].h].sess.leaf = call[t].e,
                      ~holding[call[t].h].behind, ~holding[call[t].h].stirred
               PROVE  srv'.head = call[t].e
    OBVIOUS
  <2>1. Write(t) \/ MoveHead(t) BY <1>1, OwnStep DEF In
  <2>2. CASE Write(t) BY <1>1, <2>2, WriteLeavesHead DEF In, Write
  <2>3. CASE MoveHead(t) BY <1>1, <2>3, RootLeavesHead DEF In, MoveHead
  <2> QED BY <2>1, <2>2, <2>3
<1>2. ClientInv /\ [ClientNext]_clientVars => [Follows]_clientVars BY <1>1
<1>3. HeadIsLeaf <=> [][Follows]_clientVars BY DEF HeadIsLeaf
<1> QED BY <1>2, <1>3, InvHolds, PTL DEF ClientSpec

=============================================================================
