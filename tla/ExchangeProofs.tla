--------------------------- MODULE ExchangeProofs ---------------------------
(***************************************************************************)
(* Whatever stores exchange a session, in whatever order their steps come, *)
(* every copy is a session, and some copy is the record.                   *)
(*                                                                         *)
(* What a store receives was read from another store some steps before, so *)
(* the invariant speaks of the bundles in flight as well as of the copies: *)
(* each was a session when it was read, and still is one, because entries  *)
(* are only ever written anew.  Merging two sessions gives a session when  *)
(* the call IDs of the one do not meet those of the other, which is what a *)
(* receiver refuses.                                                       *)
(***************************************************************************)
EXTENDS Exchange, TLAPS

\* c is a session of entries of W.
IsSession(c, W) ==
  /\ c \in [entries : SUBSET W, head : W \cup {Root}, mark : {"record", "mirror"}]
  /\ c.head \in c.entries \cup {Root}
  /\ \A e \in c.entries : ParentOf[e] \in c.entries \cup {Root}
  /\ \A e, f \in c.entries : CallOf[e] /= None /\ CallOf[e] = CallOf[f] => e = f

\* What a process carries from step to step of its exchange.
IsExchange(x, W) ==
  /\ x = [k \in DOMAIN x |-> x[k]]
  /\ {"kind", "from", "to", "b", "step"} \subseteq DOMAIN x
  /\ x.kind \in {"push", "fetch", "takeback"} /\ x.to \in Stores
  /\ IsSession(x.b, W)
  /\ x.kind = "push" => /\ x.from \in Locals /\ x.from /= x.to
                        /\ {"expected", "force", "handover"} \subseteq DOMAIN x
  /\ x.step = "upload" => "lacks" \in DOMAIN x /\ x.lacks \subseteq W

CopyInv ==
  /\ copy = [s \in Stores |-> copy[s]]
  /\ \A s \in Stores : copy[s] = None \/ IsSession(copy[s], written)

FlightInv ==
  /\ xs = [p \in Procs |-> xs[p]]
  /\ \A p \in Procs : xs[p] = Idle \/ IsExchange(xs[p], written)

SessionsInv ==
  /\ written \subseteq Entries
  /\ ups \in [Locals -> SUBSET written]
  /\ CopyInv
  /\ FlightInv

(***************************************************************************)
(* Sessions and exchanges.                                                 *)
(***************************************************************************)
\* A session stays one when more has been written elsewhere.
LEMMA SessionGrows ==
  ASSUME NEW c, NEW W, NEW V, W \subseteq V, IsSession(c, W)
  PROVE  IsSession(c, V)
<1>1. c \in [entries : SUBSET V, head : V \cup {Root}, mark : {"record", "mirror"}]
  BY DEF IsSession
<1> QED BY <1>1 DEF IsSession

\* So does what an exchange carries.
LEMMA ExchangeGrows ==
  ASSUME NEW x, NEW W, NEW V, W \subseteq V, IsExchange(x, W)
  PROVE  IsExchange(x, V)
<1>1. IsSession(x.b, V) BY SessionGrows DEF IsExchange
<1> QED BY <1>1 DEF IsExchange

\* A copy whose mark changes hands is the same session.
LEMMA Marked ==
  ASSUME NEW c, NEW W, NEW m \in {"record", "mirror"}, IsSession(c, W)
  PROVE  IsSession([c EXCEPT !.mark = m], W)
<1> PICK d : d = [c EXCEPT !.mark = m] OBVIOUS
<1>1. c \in [entries : SUBSET W, head : W \cup {Root}, mark : {"record", "mirror"}]
  BY DEF IsSession
<1>2. /\ d \in [entries : SUBSET W, head : W \cup {Root}, mark : {"record", "mirror"}]
      /\ d.entries = c.entries /\ d.head = c.head
  BY <1>1
<1>3. IsSession(d, W) BY <1>2 DEF IsSession
<1> QED BY <1>3

\* What a receiver makes of its copy and a bundle is a session, or no copy: a
\* merge keeps the calls apart because the bundle's fresh ones met none.
LEMMA ReceivedIsSession ==
  ASSUME NEW c, NEW b, NEW o, NEW W, IsSession(b, W), c = None \/ IsSession(c, W)
  PROVE  Received(c, b, o) = None \/ IsSession(Received(c, b, o), W)
<1> DEFINE T == [entries : SUBSET W, head : W \cup {Root}, mark : {"record", "mirror"}]
<1>b. b \in T BY DEF IsSession
<1>1. CASE c = None
  <2>1. FreshHead(b, o) \in {b.head, Root} BY DEF FreshHead
  <2> PICK h : h = FreshHead(b, o) OBVIOUS
  <2> PICK m : m = IF o.handover THEN "record" ELSE "mirror" OBVIOUS
  <2> PICK d : d = [entries |-> b.entries, head |-> h, mark |-> m] OBVIOUS
  <2>2. m \in {"record", "mirror"} OBVIOUS
  <2>3. h \in b.entries \cup {Root} /\ h \in W \cup {Root} BY <2>1, <1>b DEF IsSession
  <2>4. d \in T /\ d.entries = b.entries /\ d.head = h BY <2>2, <2>3, <1>b
  <2>5. IsSession(d, W) BY <2>3, <2>4 DEF IsSession
  <2>6. Received(c, b, o) = None \/ Received(c, b, o) = d BY <1>1 DEF Received
  <2> QED BY <2>5, <2>6
<1>2. CASE c /= None /\ CallIDsMeet(c.entries, b)
  <2>1. Received(c, b, o) = c BY <1>2 DEF Received
  <2> QED BY <1>2, <2>1
<1>3. CASE c /= None /\ ~CallIDsMeet(c.entries, b)
  <2>c. IsSession(c, W) /\ c \in T BY <1>3 DEF IsSession
  <2>1. NewHead(c, b, o) \in {b.head, c.head}
    <3>1. CASE b.head = c.head BY <3>1 DEF NewHead
    <3>2. CASE b.head /= c.head /\ o.push BY <3>2 DEF NewHead
    <3>3. CASE b.head /= c.head /\ ~o.push BY <3>3 DEF NewHead
    <3> QED BY <3>1, <3>2, <3>3
  <2> PICK h : h = NewHead(c, b, o) OBVIOUS
  <2> PICK m : m = IF o.handover /\ h = b.head THEN "record" ELSE c.mark OBVIOUS
  <2> PICK d : d = [entries |-> c.entries \cup b.entries, head |-> h, mark |-> m] OBVIOUS
  <2>2. m \in {"record", "mirror"} BY <2>c
  <2>3. h \in c.entries \cup b.entries \cup {Root} BY <2>1, <2>c, <1>b DEF IsSession
  <2>4. h \in W \cup {Root} BY <2>3, <2>c, <1>b
  <2>5. d \in T /\ d.entries = c.entries \cup b.entries /\ d.head = h BY <2>2, <2>4, <2>c, <1>b
  <2>6. \A e \in d.entries : ParentOf[e] \in d.entries \cup {Root}
    BY <2>5, <2>c DEF IsSession
  <2>7. ASSUME NEW e \in d.entries, NEW f \in d.entries, CallOf[e] /= None, CallOf[e] = CallOf[f]
        PROVE  e = f
    <3>1. CASE e \in c.entries /\ f \in c.entries BY <3>1, <2>7, <2>c DEF IsSession
    <3>2. CASE e \in b.entries /\ f \in b.entries BY <3>2, <2>7 DEF IsSession
    <3>3. CASE e \in b.entries \ c.entries /\ f \in c.entries \ b.entries
      BY <3>3, <1>3, <2>7 DEF CallIDsMeet, Carries
    <3>4. CASE f \in b.entries \ c.entries /\ e \in c.entries \ b.entries
      BY <3>4, <1>3, <2>7 DEF CallIDsMeet, Carries
    <3> QED BY <3>1, <3>2, <3>3, <3>4, <2>7, <2>5
  <2>8. IsSession(d, W) BY <2>3, <2>5, <2>6, <2>7 DEF IsSession
  <2>9. Received(c, b, o) = d BY <1>3 DEF Received
  <2> QED BY <2>8, <2>9
<1> QED BY <1>1, <1>2, <1>3

(***************************************************************************)
(* One copy changes, or one process's exchange.                            *)
(***************************************************************************)
\* Copies stay sessions when one is replaced by a session or removed.
LEMMA CopyReplaced ==
  ASSUME CopyInv, written \subseteq written', NEW s \in Stores, NEW d,
         copy' = [copy EXCEPT ![s] = d], d = None \/ IsSession(d, written')
  PROVE  CopyInv'
<1>1. copy' = [t \in Stores |-> IF t = s THEN d ELSE copy[t]] BY DEF CopyInv
<1>2. ASSUME NEW t \in Stores PROVE copy'[t] = None \/ IsSession(copy'[t], written')
  <2>1. CASE t = s BY <2>1, <1>1
  <2>2. CASE t /= s
    <3>1. copy'[t] = copy[t] BY <2>2, <1>1
    <3>2. copy[t] = None \/ IsSession(copy[t], written) BY DEF CopyInv
    <3> QED BY <3>1, <3>2, SessionGrows
  <2> QED BY <2>1, <2>2
<1>3. copy' = [t \in Stores |-> copy'[t]] BY <1>1
<1> QED BY <1>2, <1>3 DEF CopyInv

\* Or when none changes.
LEMMA CopyKept ==
  ASSUME CopyInv, written \subseteq written', UNCHANGED copy
  PROVE  CopyInv'
<1>1. ASSUME NEW t \in Stores PROVE copy'[t] = None \/ IsSession(copy'[t], written')
  <2>1. copy[t] = None \/ IsSession(copy[t], written) BY DEF CopyInv
  <2> QED BY <2>1, SessionGrows
<1> QED BY <1>1 DEF CopyInv

\* A process's exchange is replaced by another, or ends.
LEMMA FlightReplaced ==
  ASSUME FlightInv, written \subseteq written', NEW p \in Procs, NEW x,
         xs' = [xs EXCEPT ![p] = x], x = Idle \/ IsExchange(x, written')
  PROVE  FlightInv'
<1>1. xs' = [q \in Procs |-> IF q = p THEN x ELSE xs[q]] BY DEF FlightInv
<1>2. ASSUME NEW q \in Procs PROVE xs'[q] = Idle \/ IsExchange(xs'[q], written')
  <2>1. CASE q = p BY <2>1, <1>1
  <2>2. CASE q /= p
    <3>1. xs'[q] = xs[q] BY <2>2, <1>1
    <3>2. xs[q] = Idle \/ IsExchange(xs[q], written) BY DEF FlightInv
    <3> QED BY <3>1, <3>2, ExchangeGrows
  <2> QED BY <2>1, <2>2
<1>3. xs' = [q \in Procs |-> xs'[q]] BY <1>1
<1> QED BY <1>2, <1>3 DEF FlightInv

LEMMA FlightKept ==
  ASSUME FlightInv, written \subseteq written', UNCHANGED xs
  PROVE  FlightInv'
<1>1. ASSUME NEW q \in Procs PROVE xs'[q] = Idle \/ IsExchange(xs'[q], written')
  <2>1. xs[q] = Idle \/ IsExchange(xs[q], written) BY DEF FlightInv
  <2> QED BY <2>1, ExchangeGrows
<1> QED BY <1>1 DEF FlightInv

\* A process in the middle of an exchange carries one.
LEMMA AtIsExchange ==
  ASSUME FlightInv, NEW p \in Procs, NEW K, NEW t, At(p, K, t), K \subseteq {"push", "fetch", "takeback"}
  PROVE  xs[p] /= Idle /\ IsExchange(xs[p], written) /\ xs[p].kind \in K /\ xs[p].step = t
<1>1. xs[p].kind \in K /\ xs[p].step = t BY DEF At
<1>2. Idle.kind = "idle" BY DEF Idle
<1>3. xs[p] /= Idle BY <1>1, <1>2
<1> QED BY <1>1, <1>3 DEF FlightInv

\* The next step of an exchange, when it is not the upload.
LEMMA AdvanceIsExchange ==
  ASSUME NEW x, NEW W, NEW step, step /= "upload", IsExchange(x, W)
  PROVE  /\ IsExchange([x EXCEPT !.step = step], W)
         /\ [x EXCEPT !.step = step].step = step
         /\ \A k \in DOMAIN x \ {"step"} : [x EXCEPT !.step = step][k] = x[k]
         /\ DOMAIN [x EXCEPT !.step = step] = DOMAIN x
<1> PICK y : y = [x EXCEPT !.step = step] OBVIOUS
<1>1. /\ DOMAIN y = DOMAIN x /\ y = [k \in DOMAIN y |-> y[k]]
      /\ y.step = step /\ \A k \in DOMAIN x \ {"step"} : y[k] = x[k]
  BY DEF IsExchange
<1>2. y.kind = x.kind /\ y.from = x.from /\ y.to = x.to /\ y.b = x.b BY <1>1 DEF IsExchange
<1>3. IsExchange(y, W) BY <1>1, <1>2 DEF IsExchange
<1> QED BY <1>1, <1>3

LEMMA Advanced ==
  ASSUME FlightInv, UNCHANGED written, NEW p \in Procs, NEW step, step /= "upload",
         IsExchange(xs[p], written), Advance(p, step)
  PROVE  FlightInv'
<1> PICK y : y = [xs[p] EXCEPT !.step = step] OBVIOUS
<1>1. IsExchange(y, written) BY AdvanceIsExchange
<1>2. xs' = [xs EXCEPT ![p] = y] BY DEF Advance
<1>3. IsExchange(y, written') BY <1>1
<1> QED BY <1>2, <1>3, FlightReplaced

LEMMA Finished ==
  ASSUME FlightInv, UNCHANGED written, NEW p \in Procs, Finish(p)
  PROVE  FlightInv'
<1>1. xs' = [xs EXCEPT ![p] = Idle] BY DEF Finish
<1>2. written \subseteq written' OBVIOUS
<1> QED BY <1>1, <1>2, FlightReplaced

\* A store's mark is set, or its copy left alone.
LEMMA MarkSet ==
  ASSUME CopyInv, UNCHANGED written, NEW s \in Stores, Holds(s), NEW m \in {"record", "mirror"},
         copy' = [copy EXCEPT ![s].mark = m]
  PROVE  CopyInv'
<1>1. IsSession(copy[s], written) BY DEF CopyInv, Holds
<1> PICK d : d = [copy[s] EXCEPT !.mark = m] OBVIOUS
<1>2. IsSession(d, written) BY <1>1, Marked
<1>3. copy' = [copy EXCEPT ![s] = d] OBVIOUS
<1>4. IsSession(d, written') BY <1>2
<1> QED BY <1>3, <1>4, CopyReplaced

\* A store takes a bundle in.
LEMMA BundleReceived ==
  ASSUME CopyInv, UNCHANGED written, NEW s \in Stores, NEW b, NEW o, IsSession(b, written),
         copy' = [copy EXCEPT ![s] = Received(@, b, o)]
  PROVE  CopyInv'
<1> PICK c : c = copy[s] OBVIOUS
<1> PICK d : d = Received(c, b, o) OBVIOUS
<1>1. c = None \/ IsSession(c, written) BY DEF CopyInv
<1>2. d = None \/ IsSession(d, written) BY <1>1, ReceivedIsSession
<1>3. copy' = [copy EXCEPT ![s] = d] OBVIOUS
<1>4. d = None \/ IsSession(d, written') BY <1>2
<1> QED BY <1>3, <1>4, CopyReplaced

(***************************************************************************)
(* Each action keeps the invariant.                                        *)
(***************************************************************************)
LEMMA InitSessions == Init => SessionsInv
<1> SUFFICES ASSUME Init PROVE SessionsInv OBVIOUS
<1> PICK s \in Stores :
      copy = [t \in Stores |-> IF t = s THEN [entries |-> {}, head |-> Root, mark |-> "record"] ELSE None]
  BY DEF Init
<1> PICK d : d = [entries |-> {}, head |-> Root, mark |-> "record"] OBVIOUS
<1>1. IsSession(d, written) BY DEF IsSession
<1>2. \A t \in Stores : copy[t] = None \/ copy[t] = d OBVIOUS
<1>3. CopyInv BY <1>1, <1>2 DEF CopyInv
<1>4. FlightInv BY DEF Init, FlightInv
<1> QED BY <1>3, <1>4 DEF Init, SessionsInv

\* A writer appends a fresh entry below one its copy holds.
LEMMA AppendKeeps ==
  ASSUME SessionsInv, NEW s \in Stores, NEW e \in Entries, Append1(s, e)
  PROVE  SessionsInv'
<1> DEFINE c == copy[s]
           d == [copy[s] EXCEPT !.entries = @ \cup {e}, !.head = IF @ = ParentOf[e] THEN e ELSE @]
<1>1. IsSession(c, written) /\ e \notin written /\ written' = written \cup {e}
      /\ ParentOf[e] \in c.entries \cup {Root} /\ ~Carries(c.entries, e)
  BY DEF Append1, MayWrite, IsRecord, Holds, SessionsInv, CopyInv
<1>2. c \in [entries : SUBSET written', head : written' \cup {Root}, mark : {"record", "mirror"}]
  BY <1>1 DEF IsSession
<1>3. /\ d \in [entries : SUBSET written', head : written' \cup {Root}, mark : {"record", "mirror"}]
      /\ d.entries = c.entries \cup {e} /\ d.head \in {e, c.head}
  BY <1>1, <1>2
<1>4. d.head \in d.entries \cup {Root} BY <1>1, <1>3 DEF IsSession
<1>5. \A f \in d.entries : ParentOf[f] \in d.entries \cup {Root} BY <1>1, <1>3 DEF IsSession
<1>6. ASSUME NEW f \in d.entries, NEW g \in d.entries, CallOf[f] /= None, CallOf[f] = CallOf[g]
      PROVE  f = g
  <2>1. CASE f \in c.entries /\ g \in c.entries BY <2>1, <1>1, <1>6 DEF IsSession
  <2>2. CASE f = e /\ g \in c.entries BY <2>2, <1>1, <1>6 DEF Carries
  <2>3. CASE g = e /\ f \in c.entries BY <2>3, <1>1, <1>6 DEF Carries
  <2> QED BY <2>1, <2>2, <2>3, <1>3, <1>6
<1>7. IsSession(d, written') BY <1>3, <1>4, <1>5, <1>6 DEF IsSession
<1>8. copy' = [copy EXCEPT ![s] = d] BY DEF Append1, SessionsInv, CopyInv
<1>9. CopyInv'
  <2> HIDE DEF d
  <2> QED BY <1>1, <1>7, <1>8, CopyReplaced DEF SessionsInv
<1>10. FlightInv' BY <1>1, FlightKept DEF SessionsInv, Append1
<1>11. written' \subseteq Entries /\ ups' \in [Locals -> SUBSET written'] BY <1>1 DEF SessionsInv, Append1
<1> QED BY <1>9, <1>10, <1>11 DEF SessionsInv

LEMMA SetHeadKeeps ==
  ASSUME SessionsInv, NEW s \in Stores, NEW to \in Entries \cup {Root}, SetHead(s, to)
  PROVE  SessionsInv'
<1> PICK d : d = [copy[s] EXCEPT !.head = to] OBVIOUS
<1>1. IsSession(copy[s], written) /\ to \in copy[s].entries \cup {Root} /\ UNCHANGED <<ups, written, xs>>
  BY DEF SetHead, MayWrite, IsRecord, Holds, SessionsInv, CopyInv
<1>2. copy[s] \in [entries : SUBSET written, head : written \cup {Root}, mark : {"record", "mirror"}]
  BY <1>1 DEF IsSession
<1>3. /\ d \in [entries : SUBSET written, head : written \cup {Root}, mark : {"record", "mirror"}]
      /\ d.entries = copy[s].entries /\ d.head = to
  BY <1>1, <1>2
<1>4. IsSession(d, written') BY <1>1, <1>3 DEF IsSession
<1>5. copy' = [copy EXCEPT ![s] = d] BY DEF SetHead
<1>6. CopyInv' BY <1>1, <1>4, <1>5, CopyReplaced DEF SessionsInv
<1>7. FlightInv' BY <1>1, FlightKept DEF SessionsInv
<1> QED BY <1>1, <1>6, <1>7 DEF SessionsInv

LEMMA DeleteKeeps ==
  ASSUME SessionsInv, NEW s \in Stores, Delete(s)
  PROVE  SessionsInv'
<1>1. copy' = [copy EXCEPT ![s] = None] /\ UNCHANGED <<ups, written, xs>> BY DEF Delete
<1>2. CopyInv' BY <1>1, CopyReplaced DEF SessionsInv
<1>3. FlightInv' BY <1>1, FlightKept DEF SessionsInv
<1> QED BY <1>1, <1>2, <1>3 DEF SessionsInv

\* DeclareRecord and FinishHandover set a mark.
LEMMA MarksKeep ==
  ASSUME SessionsInv, NEW s \in Stores, DeclareRecord(s) \/ FinishHandover(s)
  PROVE  SessionsInv'
<1>1. Holds(s) /\ UNCHANGED <<ups, written, xs>> BY DEF DeclareRecord, FinishHandover, IsRecord
<1>2. \E m \in {"record", "mirror"} : copy' = [copy EXCEPT ![s].mark = m]
  BY DEF DeclareRecord, FinishHandover
<1>3. CopyInv' BY <1>1, <1>2, MarkSet DEF SessionsInv
<1>4. FlightInv' BY <1>1, FlightKept DEF SessionsInv
<1> QED BY <1>1, <1>3, <1>4 DEF SessionsInv

LEMMA BeginKeeps ==
  ASSUME SessionsInv, NEW p \in Procs, NEW x, IsExchange(x, written), Begin(p, x)
  PROVE  SessionsInv'
<1>1. xs' = [xs EXCEPT ![p] = x] /\ UNCHANGED <<copy, ups, written>> BY DEF Begin
<1>2. CopyInv' BY <1>1, CopyKept DEF SessionsInv
<1>3. FlightInv' BY <1>1, FlightReplaced DEF SessionsInv
<1> QED BY <1>1, <1>2, <1>3 DEF SessionsInv

LEMMA StartPushKeeps ==
  ASSUME SessionsInv, NEW p \in Procs, NEW from \in Stores, NEW to \in Stores,
         NEW expected, NEW force, NEW handover, StartPush(p, from, to, expected, force, handover)
  PROVE  SessionsInv'
<1> PICK b : b = copy[from] OBVIOUS
<1> PICK t : t = IF to = Server THEN "missing" ELSE "receive" OBVIOUS
<1> PICK x : x = [kind |-> "push", from |-> from, to |-> to, b |-> b, expected |-> expected,
                  force |-> force, handover |-> handover, step |-> t] OBVIOUS
<1>1. from \in Locals /\ from /= to /\ IsSession(b, written)
  BY DEF StartPush, IsRecord, Holds, SessionsInv, CopyInv
<1>2. t /= "upload" OBVIOUS
<1>3. /\ x = [k \in DOMAIN x |-> x[k]]
      /\ {"kind", "from", "to", "b", "step", "expected", "force", "handover"} \subseteq DOMAIN x
      /\ x.kind = "push" /\ x.to = to /\ x.from = from /\ x.b = b /\ x.step = t
  OBVIOUS
<1>4. IsExchange(x, written) BY <1>1, <1>2, <1>3 DEF IsExchange
<1>5. Begin(p, x) BY DEF StartPush
<1> QED BY <1>4, <1>5, BeginKeeps

LEMMA StartFetchKeeps ==
  ASSUME SessionsInv, NEW p \in Procs, NEW from \in Stores, NEW to \in Stores,
         StartFetch(p, to, from) \/ StartTakeBack(p, to)
  PROVE  SessionsInv'
<1>1. \E y \in Stores, k \in {"fetch", "takeback"} :
        /\ Holds(y)
        /\ Begin(p, [kind |-> k, from |-> y, to |-> to, b |-> copy[y], step |-> "receive"])
  BY ExchangeAssumption DEF StartFetch, StartTakeBack
<1> PICK y \in Stores, k \in {"fetch", "takeback"} :
        /\ Holds(y)
        /\ Begin(p, [kind |-> k, from |-> y, to |-> to, b |-> copy[y], step |-> "receive"])
  BY <1>1
<1> PICK b : b = copy[y] OBVIOUS
<1> PICK x : x = [kind |-> k, from |-> y, to |-> to, b |-> b, step |-> "receive"] OBVIOUS
<1>2. IsSession(b, written) BY DEF Holds, SessionsInv, CopyInv
<1>3. /\ x = [i \in DOMAIN x |-> x[i]]
      /\ {"kind", "from", "to", "b", "step"} \subseteq DOMAIN x
      /\ x.kind = k /\ x.to = to /\ x.b = b /\ x.step = "receive"
  OBVIOUS
<1>4. IsExchange(x, written) BY <1>2, <1>3 DEF IsExchange
<1> QED BY <1>4, BeginKeeps

\* The bundle gains the list of what the server lacks of it.
LEMMA MissingKeeps ==
  ASSUME SessionsInv, NEW p \in Procs, Missing(p)
  PROVE  SessionsInv'
<1> PICK x : x = xs[p] OBVIOUS
<1> PICK l : l = x.b.entries \ Reachable(x.from) OBVIOUS
<1> PICK y : y = [k \in DOMAIN x \cup {"lacks"} |->
                    CASE k = "lacks" -> l [] k = "step" -> "upload" [] OTHER -> x[k]] OBVIOUS
<1>1. IsExchange(x, written) BY AtIsExchange DEF Missing, SessionsInv
<1>2. UNCHANGED <<copy, ups, written>> /\ xs' = [xs EXCEPT ![p] = y] BY DEF Missing
<1>3. /\ y = [k \in DOMAIN y |-> y[k]] /\ DOMAIN y = DOMAIN x \cup {"lacks"}
      /\ y.lacks = l /\ y.kind = x.kind /\ y.from = x.from /\ y.to = x.to /\ y.b = x.b
      /\ y.step = "upload"
  BY <1>1 DEF IsExchange
<1>4. l \subseteq written BY <1>1 DEF IsExchange, IsSession
<1>5. IsExchange(y, written) BY <1>1, <1>3, <1>4 DEF IsExchange
<1>6. FlightInv' BY <1>2, <1>5, FlightReplaced DEF SessionsInv
<1>7. CopyInv' BY <1>2, CopyKept DEF SessionsInv
<1> QED BY <1>2, <1>6, <1>7 DEF SessionsInv

LEMMA UploadKeeps ==
  ASSUME SessionsInv, NEW p \in Procs, Upload(p)
  PROVE  SessionsInv'
<1>1. IsExchange(xs[p], written) /\ xs[p].step = "upload" /\ xs[p].kind = "push"
  BY AtIsExchange DEF Upload, SessionsInv
<1>2. xs[p].lacks \subseteq written /\ xs[p].from \in Locals BY <1>1 DEF IsExchange
<1>3. /\ UNCHANGED <<copy, written>> /\ Advance(p, "post")
      /\ ups' = [ups EXCEPT ![xs[p].from] = @ \cup xs[p].lacks]
  BY DEF Upload
<1>4. ups' \in [Locals -> SUBSET written'] BY <1>2, <1>3 DEF SessionsInv
<1>5. FlightInv' BY <1>1, <1>3, Advanced DEF SessionsInv
<1>6. CopyInv' BY <1>3, CopyKept DEF SessionsInv
<1> QED BY <1>3, <1>4, <1>5, <1>6 DEF SessionsInv

LEMMA UploadsExpireKeeps ==
  ASSUME SessionsInv, NEW s \in Locals, UploadsExpire(s)
  PROVE  SessionsInv'
<1>1. UNCHANGED <<copy, written, xs>> /\ ups' = [ups EXCEPT ![s] = {}] BY DEF UploadsExpire
<1>2. ups' \in [Locals -> SUBSET written'] BY <1>1 DEF SessionsInv
<1>3. FlightInv' BY <1>1, FlightKept DEF SessionsInv
<1>4. CopyInv' BY <1>1, CopyKept DEF SessionsInv
<1> QED BY <1>1, <1>2, <1>3, <1>4 DEF SessionsInv

LEMMA ReceivePushKeeps ==
  ASSUME SessionsInv, NEW p \in Procs, ReceivePush(p)
  PROVE  SessionsInv'
<1> PICK x : x = xs[p] OBVIOUS
<1> PICK b : b = IF x.step = "post" THEN Closure(p) ELSE x.b OBVIOUS
<1> PICK o : o = Options(x) OBVIOUS
<1>1. UNCHANGED <<ups, written>> BY DEF ReceivePush
<1>2. IsExchange(x, written) /\ x.kind = "push" BY AtIsExchange DEF ReceivePush, SessionsInv
<1>3. b = None \/ b = x.b BY DEF Closure
<1>4. CASE b = None
  <2>1. Finish(p) /\ UNCHANGED copy BY <1>4 DEF ReceivePush
  <2>2. FlightInv' BY <1>1, <2>1, Finished DEF SessionsInv
  <2>3. CopyInv' BY <1>1, <2>1, CopyKept DEF SessionsInv
  <2> QED BY <1>1, <2>2, <2>3 DEF SessionsInv
<1>5. CASE b /= None
  <2>1. copy' = [copy EXCEPT ![x.to] = Received(@, b, o)] /\ (Advance(p, "clear") \/ Finish(p))
    BY <1>5 DEF ReceivePush
  <2>2. IsSession(b, written) /\ x.to \in Stores BY <1>2, <1>3, <1>5 DEF IsExchange
  <2>3. CopyInv' BY <1>1, <2>1, <2>2, BundleReceived DEF SessionsInv
  <2>4. FlightInv' BY <1>1, <1>2, <2>1, Advanced, Finished DEF SessionsInv
  <2> QED BY <1>1, <2>3, <2>4 DEF SessionsInv
<1> QED BY <1>4, <1>5

\* The copies after a store gave the record up, or refused to.
LEMMA HandedOverKeeps ==
  ASSUME CopyInv, UNCHANGED written, NEW s \in Stores, NEW h, copy' = HandedOver(s, h)
  PROVE  CopyInv'
<1>1. CASE IsRecord(s) /\ copy[s].head = h
  <2>1. Holds(s) /\ copy' = [copy EXCEPT ![s].mark = "mirror"] BY <1>1 DEF IsRecord, HandedOver
  <2> QED BY <2>1, MarkSet
<1>2. CASE ~(IsRecord(s) /\ copy[s].head = h)
  <2>1. UNCHANGED copy BY <1>2 DEF HandedOver
  <2> QED BY <2>1, CopyKept
<1> QED BY <1>1, <1>2

LEMMA ClearKeeps ==
  ASSUME SessionsInv, NEW p \in Procs, Clear(p)
  PROVE  SessionsInv'
<1> PICK x : x = xs[p] OBVIOUS
<1>1. UNCHANGED <<ups, written>> /\ Finish(p) BY DEF Clear
<1>2. IsExchange(x, written) /\ x.kind = "push" BY AtIsExchange DEF Clear, SessionsInv
<1>3. x.from \in Stores BY <1>2 DEF IsExchange, Locals
<1>4. copy' = IF x.to = Server THEN HandedOver(x.from, x.b.head)
              ELSE IF Holds(x.from) THEN [copy EXCEPT ![x.from].mark = "mirror"] ELSE copy
  BY DEF Clear
<1>5. CopyInv'
  <2>1. CASE x.to = Server BY <2>1, <1>1, <1>3, <1>4, HandedOverKeeps DEF SessionsInv
  <2>2. CASE x.to /= Server /\ Holds(x.from) BY <2>2, <1>1, <1>3, <1>4, MarkSet DEF SessionsInv
  <2>3. CASE x.to /= Server /\ ~Holds(x.from) BY <2>3, <1>1, <1>4, CopyKept DEF SessionsInv
  <2> QED BY <2>1, <2>2, <2>3
<1>6. FlightInv' BY <1>1, Finished DEF SessionsInv
<1> QED BY <1>1, <1>5, <1>6 DEF SessionsInv

LEMMA ReceiveFetchKeeps ==
  ASSUME SessionsInv, NEW p \in Procs, ReceiveFetch(p)
  PROVE  SessionsInv'
<1> PICK x : x = xs[p] OBVIOUS
<1>1. UNCHANGED <<ups, written>> /\ (Advance(p, "handover") \/ Finish(p)) BY DEF ReceiveFetch
<1>2. IsExchange(x, written) BY AtIsExchange DEF ReceiveFetch, SessionsInv
<1> PICK b : b = x.b OBVIOUS
<1>3. copy' = [copy EXCEPT ![x.to] = Received(@, b, NoPush)] BY DEF ReceiveFetch
<1>4. IsSession(b, written) /\ x.to \in Stores BY <1>2 DEF IsExchange
<1>5. CopyInv' BY <1>1, <1>3, <1>4, BundleReceived DEF SessionsInv
<1>6. FlightInv' BY <1>1, <1>2, Advanced, Finished DEF SessionsInv
<1> QED BY <1>1, <1>5, <1>6 DEF SessionsInv

LEMMA ServerHandsOverKeeps ==
  ASSUME SessionsInv, NEW p \in Procs, ServerHandsOver(p)
  PROVE  SessionsInv'
<1>1. /\ UNCHANGED <<ups, written>> /\ (Advance(p, "declare") \/ Finish(p))
      /\ copy' = HandedOver(Server, xs[p].b.head)
  BY DEF ServerHandsOver
<1>2. IsExchange(xs[p], written) BY AtIsExchange DEF ServerHandsOver, SessionsInv
<1>3. CopyInv' BY <1>1, HandedOverKeeps, ExchangeAssumption DEF SessionsInv
<1>4. FlightInv' BY <1>1, <1>2, Advanced, Finished DEF SessionsInv
<1> QED BY <1>1, <1>3, <1>4 DEF SessionsInv

LEMMA DeclareRecordAtKeeps ==
  ASSUME SessionsInv, NEW p \in Procs, DeclareRecordAt(p)
  PROVE  SessionsInv'
<1> PICK s : s = xs[p].to OBVIOUS
<1>1. /\ UNCHANGED <<ups, written>> /\ Finish(p)
      /\ UNCHANGED copy \/ (Holds(s) /\ copy' = [copy EXCEPT ![s].mark = "record"])
  BY DEF DeclareRecordAt
<1>2. IsExchange(xs[p], written) BY AtIsExchange DEF DeclareRecordAt, SessionsInv
<1>3. s \in Stores BY <1>2 DEF IsExchange
<1>4. CopyInv'
  <2>1. CASE UNCHANGED copy BY <2>1, <1>1, CopyKept DEF SessionsInv
  <2>2. CASE Holds(s) /\ copy' = [copy EXCEPT ![s].mark = "record"]
    BY <2>2, <1>1, <1>3, MarkSet DEF SessionsInv
  <2> QED BY <1>1, <2>1, <2>2
<1>5. FlightInv' BY <1>1, Finished DEF SessionsInv
<1> QED BY <1>1, <1>4, <1>5 DEF SessionsInv

LEMMA GiveUpKeeps ==
  ASSUME SessionsInv, NEW p \in Procs, GiveUp(p)
  PROVE  SessionsInv'
<1>1. UNCHANGED <<copy, ups, written>> /\ Finish(p) BY DEF GiveUp
<1>2. CopyInv' BY <1>1, CopyKept DEF SessionsInv
<1>3. FlightInv' BY <1>1, Finished DEF SessionsInv
<1> QED BY <1>1, <1>2, <1>3 DEF SessionsInv

LEMMA NextSessions == SessionsInv /\ [Next]_vars => SessionsInv'
<1> SUFFICES ASSUME SessionsInv, [Next]_vars PROVE SessionsInv' OBVIOUS
<1>1. CASE UNCHANGED vars
  <2>1. UNCHANGED <<copy, ups, written, xs>> BY <1>1 DEF vars
  <2>2. CopyInv' BY <2>1, CopyKept DEF SessionsInv
  <2>3. FlightInv' BY <2>1, FlightKept DEF SessionsInv
  <2> QED BY <2>1, <2>2, <2>3 DEF SessionsInv
<1>2. ASSUME NEW s \in Stores, NEW e \in Entries, Append1(s, e) PROVE SessionsInv'
  BY <1>2, AppendKeeps
<1>3. ASSUME NEW s \in Stores, NEW to \in Entries \cup {Root}, SetHead(s, to) PROVE SessionsInv'
  BY <1>3, SetHeadKeeps
<1>4. ASSUME NEW s \in Stores, Delete(s) \/ DeclareRecord(s) \/ FinishHandover(s) PROVE SessionsInv'
  BY <1>4, DeleteKeeps, MarksKeep
<1>5. ASSUME NEW s \in Locals, UploadsExpire(s) PROVE SessionsInv'
  BY <1>5, UploadsExpireKeeps
<1>6. ASSUME NEW p \in Procs, NEW from \in Stores, NEW to \in Stores, NEW expected, NEW force, NEW handover,
             StartPush(p, from, to, expected, force, handover)
      PROVE  SessionsInv'
  BY <1>6, StartPushKeeps
<1>7. ASSUME NEW p \in Procs, NEW from \in Stores, NEW to \in Stores,
             StartFetch(p, to, from) \/ StartTakeBack(p, to)
      PROVE  SessionsInv'
  BY <1>7, StartFetchKeeps
<1>8. ASSUME NEW p \in Procs, Missing(p) \/ Upload(p) \/ ReceivePush(p) \/ Clear(p) PROVE SessionsInv'
  BY <1>8, MissingKeeps, UploadKeeps, ReceivePushKeeps, ClearKeeps
<1>9. ASSUME NEW p \in Procs, ReceiveFetch(p) \/ ServerHandsOver(p) \/ DeclareRecordAt(p) \/ GiveUp(p)
      PROVE  SessionsInv'
  BY <1>9, ReceiveFetchKeeps, ServerHandsOverKeeps, DeclareRecordAtKeeps, GiveUpKeeps
<1> QED BY <1>1, <1>2, <1>3, <1>4, <1>5, <1>6, <1>7, <1>8, <1>9 DEF Next

\* The invariant says of every copy what the runs check.
LEMMA SessionsEnough == SessionsInv => CopiesAreSessions
<1> SUFFICES ASSUME SessionsInv PROVE CopiesAreSessions OBVIOUS
<1>1. \A s \in Stores : Holds(s) => IsSession(copy[s], written) BY DEF SessionsInv, CopyInv, Holds
<1>2. TypeOK BY <1>1 DEF TypeOK, IsSession, SessionsInv
<1>3. CopiesWhole BY <1>1 DEF CopiesWhole, IsSession
<1>4. CallsUnique BY <1>1 DEF CallsUnique, IsSession
<1> QED BY <1>2, <1>3, <1>4 DEF CopiesAreSessions

(***************************************************************************)
(* Every store's copy is a session whose calls have one entry each, after  *)
(* every merge, refusal, lapsed upload and exchange given up half way, for *)
(* any stores, tree of entries, call IDs and number of exchanges in flight *)
(* (receiveBundle, CheckPush).                                             *)
(***************************************************************************)
THEOREM CopiesStaySessions == Spec => []CopiesAreSessions
<1>1. Init => SessionsInv BY InitSessions
<1>2. SessionsInv /\ [Next]_vars => SessionsInv' BY NextSessions
<1>3. SessionsInv => CopiesAreSessions BY SessionsEnough
<1> QED BY <1>1, <1>2, <1>3, PTL DEF Spec

(***************************************************************************)
(* The record is never lost.  A push that hands over clears the sender's   *)
(* mark only while its receiver is still the record, because no other      *)
(* handover has come between.                                              *)
(***************************************************************************)
CountsInv == count \in [ops : Nat, moves : Nat, fails : Nat, stranded : Nat, deletes : Nat, lapses : Nat]

OneAtATime == \A p, q \in Procs : HandsOver(xs[p]) /\ HandsOver(xs[q]) => p = q

RecordIn(copies, s) == copies[s] /= None /\ copies[s].mark = "record"

Clears(x) == x.kind = "push" /\ x.step = "clear"

Declares(x) == x.kind = "takeback" /\ x.step = "declare"

ReceiverIsRecord ==
  \A p \in Procs : Clears(xs[p]) => HandsOver(xs[p]) /\ (IsRecord(xs[p].to) \/ count.deletes > 0)

RecordInv == CountsInv /\ OneAtATime /\ ReceiverIsRecord /\ NeverNone

\* No record gives its mark up in the step.
RecordsKept == \A s \in Stores : IsRecord(s) => IsRecord(s)'

\* Nothing is counted back.
CountsKept == CountsInv' /\ count'.deletes >= count.deletes /\ count'.stranded >= count.stranded

\* The exchanges go on or end, or start while no other hands over; none starts
\* to clear but with its receiver the record.
FlightsKept ==
  \A p \in Procs :
    /\ HandsOver(xs'[p]) => HandsOver(xs[p]) \/ \A q \in Procs : ~HandsOver(xs[q]) /\ (q /= p => ~HandsOver(xs'[q]))
    /\ Clears(xs'[p]) => /\ HandsOver(xs'[p])
                         /\ (Clears(xs[p]) /\ xs'[p].to = xs[p].to) \/ RecordIn(copy', xs'[p].to)
    /\ Declares(xs[p]) => Declares(xs'[p]) \/ Records' /= {} \/ count'.stranded > 0

\* Such a step keeps the invariant.
LEMMA KeptStep ==
  ASSUME SessionsInv, RecordInv, RecordsKept, CountsKept, FlightsKept
  PROVE  RecordInv'
<1>1. CountsInv /\ CountsInv' BY DEF RecordInv, CountsKept
<1>2. OneAtATime'
  <2> SUFFICES ASSUME NEW p \in Procs, NEW q \in Procs, HandsOver(xs'[p]), HandsOver(xs'[q])
               PROVE  p = q
    BY DEF OneAtATime
  <2>1. CASE HandsOver(xs[p]) /\ HandsOver(xs[q]) BY <2>1 DEF RecordInv, OneAtATime
  <2>2. CASE ~HandsOver(xs[p]) BY <2>2 DEF FlightsKept
  <2>3. CASE ~HandsOver(xs[q]) BY <2>3 DEF FlightsKept
  <2> QED BY <2>1, <2>2, <2>3
<1>3. count.deletes > 0 => count'.deletes > 0
  <2>1. count.deletes \in Nat /\ count'.deletes \in Nat BY <1>1 DEF CountsInv
  <2> QED BY <2>1 DEF CountsKept
<1>4. count.stranded > 0 => count'.stranded > 0
  <2>1. count.stranded \in Nat /\ count'.stranded \in Nat BY <1>1 DEF CountsInv
  <2> QED BY <2>1 DEF CountsKept
<1>5. ReceiverIsRecord'
  <2> SUFFICES ASSUME NEW p \in Procs, Clears(xs'[p])
               PROVE  HandsOver(xs'[p]) /\ (RecordIn(copy', xs'[p].to) \/ count'.deletes > 0)
    BY DEF ReceiverIsRecord, IsRecord, Holds, RecordIn, Clears, HandsOver
  <2>1. HandsOver(xs'[p]) BY DEF FlightsKept
  <2>2. CASE Clears(xs[p]) /\ xs'[p].to = xs[p].to
    <3>1. IsRecord(xs[p].to) \/ count.deletes > 0 BY <2>2 DEF RecordInv, ReceiverIsRecord
    <3>2. xs[p].to \in Stores
      <4>1. At(p, {"push"}, "clear") BY <2>2 DEF Clears, At
      <4> QED BY <4>1, AtIsExchange DEF SessionsInv, IsExchange
    <3> PICK t \in Stores : t = xs[p].to BY <3>2
    <3>3. IsRecord(t) => IsRecord(t)' BY DEF RecordsKept
    <3>4. IsRecord(xs[p].to) => RecordIn(copy', xs'[p].to) BY <3>3, <2>2 DEF IsRecord, Holds, RecordIn
    <3> QED BY <2>1, <3>1, <3>4, <1>3
  <2>3. CASE RecordIn(copy', xs'[p].to) BY <2>3, <2>1
  <2> QED BY <2>2, <2>3 DEF FlightsKept
<1>6. NeverNone'
  <2>1. CASE Records /= {} BY <2>1 DEF NeverNone, Records, RecordsKept
  <2>2. CASE count.deletes > 0 BY <2>2, <1>3 DEF NeverNone
  <2>3. CASE count.stranded > 0 BY <2>3, <1>4 DEF NeverNone
  <2>4. ASSUME NEW p \in Procs, At(p, {"takeback"}, "declare") PROVE NeverNone'
    <3>1. Declares(xs[p]) BY <2>4 DEF At, Declares
    <3>2. Declares(xs'[p]) \/ Records' /= {} \/ count'.stranded > 0 BY <3>1 DEF FlightsKept
    <3> QED BY <3>2 DEF NeverNone, Declares, At
  <2> QED BY <2>1, <2>2, <2>3, <2>4 DEF RecordInv, NeverNone
<1> QED BY <1>1, <1>2, <1>5, <1>6 DEF RecordInv

\* The counters only grow.
LEMMA CountKept ==
  ASSUME CountsInv, NEW w \in {"ops", "moves", "fails", "stranded", "deletes", "lapses"},
         Count(w) \/ UNCHANGED count
  PROVE  CountsKept /\ (Count(w) => count'[w] > 0)
<1> PICK c : c = count OBVIOUS
<1> PICK d : d = count' OBVIOUS
<1>1. c \in [ops : Nat, moves : Nat, fails : Nat, stranded : Nat, deletes : Nat, lapses : Nat] BY DEF CountsInv
<1>2. CASE UNCHANGED count
  <2>1. CountsInv' BY <1>2 DEF CountsInv
  <2>2. count.deletes \in Nat /\ count.stranded \in Nat BY DEF CountsInv
  <2>3. CountsKept BY <2>1, <2>2, <1>2 DEF CountsKept
  <2>4. ~Count(w)
    <3>1. SUFFICES ASSUME Count(w) PROVE FALSE OBVIOUS
    <3>2. c = [c EXCEPT ![w] = @ + 1] BY <3>1, <1>2 DEF Count
    <3>3. c[w] \in Nat /\ c[w] = c[w] + 1 BY <1>1, <3>2
    <3> QED BY <3>3
  <2> QED BY <2>3, <2>4
<1>3. CASE Count(w)
  <2>1. d = [c EXCEPT ![w] = @ + 1] BY <1>3 DEF Count
  <2>2. c[w] \in Nat BY <1>1
  <2>3. PICK n \in Nat : n = c[w] + 1 /\ n > 0 BY <2>2
  <2>4. d = [c EXCEPT ![w] = n] BY <2>1, <2>3
  <2>5. d \in [ops : Nat, moves : Nat, fails : Nat, stranded : Nat, deletes : Nat, lapses : Nat]
    BY <1>1, <2>4
  <2>6. d[w] = n BY <1>1, <2>4
  <2>7. c.deletes \in Nat /\ c.stranded \in Nat BY <1>1
  <2>8. d.deletes >= c.deletes
    <3>1. CASE w = "deletes" BY <3>1, <2>3, <2>6, <2>7
    <3>2. CASE w /= "deletes"
      <4>1. d.deletes = c.deletes BY <3>2, <1>1, <2>4
      <4> QED BY <4>1, <2>7
    <3> QED BY <3>1, <3>2
  <2>9. d.stranded >= c.stranded
    <3>1. CASE w = "stranded" BY <3>1, <2>3, <2>6, <2>7
    <3>2. CASE w /= "stranded"
      <4>1. d.stranded = c.stranded BY <3>2, <1>1, <2>4
      <4> QED BY <4>1, <2>7
    <3> QED BY <3>1, <3>2
  <2> QED BY <2>3, <2>5, <2>6, <2>8, <2>9 DEF CountsKept, CountsInv
<1> QED BY <1>2, <1>3

\* A copy whose entries or head change in place keeps its mark.
LEMMA RecordReplaced ==
  ASSUME CopyInv, NEW s \in Stores, NEW d,
         copy' = [copy EXCEPT ![s] = d], IsRecord(s) => d \in Copies /\ d.mark = "record"
  PROVE  RecordsKept
<1>1. \A t \in Stores : copy'[t] = IF t = s THEN d ELSE copy[t] BY DEF CopyInv
<1>2. d \in Copies => d /= None BY ExchangeAssumption
<1> QED BY <1>1, <1>2 DEF RecordsKept, IsRecord, Holds

LEMMA RecordsUntouched ==
  ASSUME UNCHANGED copy
  PROVE  RecordsKept
BY DEF RecordsKept, IsRecord, Holds

\* A session's copy is one of the copies a store can hold, which None is not.
LEMMA SessionIsCopy ==
  ASSUME SessionsInv, NEW c, IsSession(c, written)
  PROVE  c \in Copies /\ c /= None
<1>1. c \in Copies BY DEF IsSession, SessionsInv, Copies
<1> QED BY <1>1, ExchangeAssumption

\* No exchange moves.
LEMMA FlightsUntouched ==
  ASSUME ReceiverIsRecord, UNCHANGED xs
  PROVE  FlightsKept
<1> SUFFICES ASSUME NEW p \in Procs
             PROVE  /\ Clears(xs'[p]) => HandsOver(xs'[p]) /\ Clears(xs[p]) /\ xs'[p].to = xs[p].to
                    /\ HandsOver(xs'[p]) => HandsOver(xs[p])
                    /\ Declares(xs[p]) => Declares(xs'[p])
  BY DEF FlightsKept
<1>1. xs'[p] = xs[p] OBVIOUS
<1>2. Clears(xs[p]) => HandsOver(xs[p]) BY DEF ReceiverIsRecord
<1> QED BY <1>1, <1>2

\* One exchange moves.
LEMMA FlightMoved ==
  ASSUME FlightInv, ReceiverIsRecord, NEW p \in Procs, NEW y, xs' = [xs EXCEPT ![p] = y],
         HandsOver(y) => HandsOver(xs[p]) \/ \A q \in Procs : ~HandsOver(xs[q]),
         Clears(y) => HandsOver(y) /\ RecordIn(copy', y.to),
         Declares(xs[p]) => Declares(y) \/ Records' /= {} \/ count'.stranded > 0
  PROVE  FlightsKept
<1>1. \A q \in Procs : xs'[q] = IF q = p THEN y ELSE xs[q] BY DEF FlightInv
<1>2. ASSUME NEW q \in Procs, q /= p
      PROVE  /\ Clears(xs'[q]) => HandsOver(xs'[q]) /\ Clears(xs[q]) /\ xs'[q].to = xs[q].to
             /\ HandsOver(xs'[q]) => HandsOver(xs[q])
             /\ Declares(xs[q]) => Declares(xs'[q])
  <2>1. xs'[q] = xs[q] BY <1>1, <1>2
  <2>2. Clears(xs[q]) => HandsOver(xs[q]) BY DEF ReceiverIsRecord
  <2> QED BY <2>1, <2>2
<1>3. xs'[p] = y BY <1>1
<1>4. HandsOver(xs'[p]) => HandsOver(xs[p])
        \/ \A q \in Procs : ~HandsOver(xs[q]) /\ (q /= p => ~HandsOver(xs'[q]))
  <2> SUFFICES ASSUME HandsOver(y), ~HandsOver(xs[p]), NEW q \in Procs
               PROVE  ~HandsOver(xs[q]) /\ (q /= p => ~HandsOver(xs'[q]))
    BY <1>3
  <2> QED BY <1>2
<1>5. Clears(xs'[p]) => HandsOver(xs'[p]) /\ RecordIn(copy', xs'[p].to) BY <1>3
<1>6. Declares(xs[p]) => Declares(xs'[p]) \/ Records' /= {} \/ count'.stranded > 0 BY <1>3
<1> SUFFICES ASSUME NEW q \in Procs
             PROVE  /\ HandsOver(xs'[q]) => HandsOver(xs[q]) \/ \A r \in Procs : ~HandsOver(xs[r]) /\ (r /= q => ~HandsOver(xs'[r]))
                    /\ Clears(xs'[q]) => /\ HandsOver(xs'[q])
                                         /\ (Clears(xs[q]) /\ xs'[q].to = xs[q].to) \/ RecordIn(copy', xs'[q].to)
                    /\ Declares(xs[q]) => Declares(xs'[q]) \/ Records' /= {} \/ count'.stranded > 0
  BY DEF FlightsKept
<1> QED BY <1>2, <1>4, <1>5, <1>6

\* An exchange ends.
LEMMA FlightEnds ==
  ASSUME FlightInv, ReceiverIsRecord, NEW p \in Procs, Finish(p),
         Declares(xs[p]) => Records' /= {} \/ count'.stranded > 0
  PROVE  FlightsKept
<1>1. Idle.kind = "idle" BY DEF Idle
<1>2. ~HandsOver(Idle) /\ ~Clears(Idle) BY <1>1 DEF HandsOver, Clears
<1>3. xs' = [xs EXCEPT ![p] = Idle] BY DEF Finish
<1> QED BY <1>2, <1>3, FlightMoved

\* An exchange goes on.
LEMMA FlightAdvances ==
  ASSUME FlightInv, ReceiverIsRecord, NEW p \in Procs, NEW t, Advance(p, t), t /= "upload",
         IsExchange(xs[p], written), ~Declares(xs[p]),
         t = "clear" => HandsOver(xs[p]) /\ RecordIn(copy', xs[p].to)
  PROVE  FlightsKept
<1> PICK x : x = xs[p] OBVIOUS
<1> PICK y : y = [x EXCEPT !.step = t] OBVIOUS
<1>1. xs' = [xs EXCEPT ![p] = y] BY DEF Advance
<1>2. y.step = t /\ \A k \in DOMAIN x \ {"step"} : y[k] = x[k] BY AdvanceIsExchange
<1>3. y.kind = x.kind /\ y.to = x.to BY <1>2 DEF IsExchange
<1>4. HandsOver(y) <=> HandsOver(x)
  <2>1. CASE x.kind = "push"
    <3>1. y.handover = x.handover BY <2>1, <1>2 DEF IsExchange
    <3> QED BY <3>1, <1>3, <2>1 DEF HandsOver
  <2>2. CASE x.kind /= "push" BY <2>2, <1>3 DEF HandsOver
  <2> QED BY <2>1, <2>2
<1>5. Clears(y) => HandsOver(y) /\ RecordIn(copy', y.to) BY <1>2, <1>3, <1>4 DEF Clears
<1> QED BY <1>1, <1>4, <1>5, FlightMoved

LEMMA InitRecord == Init => RecordInv
<1> SUFFICES ASSUME Init PROVE RecordInv OBVIOUS
<1> PICK s \in Stores :
      copy = [t \in Stores |-> IF t = s THEN [entries |-> {}, head |-> Root, mark |-> "record"] ELSE None]
  BY DEF Init
<1> PICK d : d = [entries |-> {}, head |-> Root, mark |-> "record"] OBVIOUS
<1>1. d \in Copies /\ d.mark = "record" BY DEF Copies
<1>2. copy[s] = d OBVIOUS
<1>3. IsRecord(s) BY <1>1, <1>2, ExchangeAssumption DEF IsRecord, Holds
<1>4. NeverNone BY <1>3 DEF NeverNone, Records
<1>5. CountsInv BY DEF Init, CountsInv
<1>6. \A p \in Procs : xs[p].kind = "idle" BY DEF Init, Idle
<1>7. OneAtATime BY <1>6 DEF OneAtATime, HandsOver
<1>8. ReceiverIsRecord BY <1>6 DEF ReceiverIsRecord, Clears
<1> QED BY <1>4, <1>5, <1>7, <1>8 DEF RecordInv

\* The record's writers leave its mark.
LEMMA WritersKeepRecord ==
  ASSUME SessionsInv, RecordInv, NEW s \in Stores,
         \/ \E e \in Entries : Append1(s, e)
         \/ \E to \in Entries \cup {Root} : SetHead(s, to)
  PROVE  RecordInv'
<1>1. UNCHANGED xs /\ IsRecord(s) /\ (Count("moves") \/ UNCHANGED count)
  BY DEF Append1, SetHead, MayWrite
<1>2. IsSession(copy[s], written) BY <1>1 DEF IsRecord, Holds, SessionsInv, CopyInv
<1>3. copy[s] \in Copies /\ copy[s].mark = "record" BY <1>1, <1>2, SessionIsCopy DEF IsRecord
<1>4. PICK d : copy' = [copy EXCEPT ![s] = d] /\ d \in Copies /\ d.mark = "record"
  <2>1. ASSUME NEW e \in Entries, Append1(s, e)
        PROVE  \E d : copy' = [copy EXCEPT ![s] = d] /\ d \in Copies /\ d.mark = "record"
    <3> PICK d : d = [copy[s] EXCEPT !.entries = @ \cup {e}, !.head = IF @ = ParentOf[e] THEN e ELSE @] OBVIOUS
    <3>1. copy' = [copy EXCEPT ![s] = d] BY <2>1 DEF Append1, SessionsInv, CopyInv
    <3>2. d \in Copies /\ d.mark = "record" BY <1>3 DEF Copies
    <3> QED BY <3>1, <3>2
  <2>2. ASSUME NEW to \in Entries \cup {Root}, SetHead(s, to)
        PROVE  \E d : copy' = [copy EXCEPT ![s] = d] /\ d \in Copies /\ d.mark = "record"
    <3> PICK d : d = [copy[s] EXCEPT !.head = to] OBVIOUS
    <3>1. copy' = [copy EXCEPT ![s] = d] BY <2>2 DEF SetHead
    <3>2. d \in Copies /\ d.mark = "record" BY <1>3 DEF Copies
    <3> QED BY <3>1, <3>2
  <2> QED BY <2>1, <2>2
<1>5. RecordsKept BY <1>4, RecordReplaced DEF SessionsInv
<1>6. CountsKept BY <1>1, CountKept DEF RecordInv
<1>7. FlightsKept BY <1>1, FlightsUntouched DEF RecordInv
<1> QED BY <1>5, <1>6, <1>7, KeptStep

\* A deletion is counted, and excuses what it removes.
LEMMA DeleteKeepsRecord ==
  ASSUME SessionsInv, RecordInv, NEW s \in Stores, Delete(s)
  PROVE  RecordInv'
<1>1. Count("deletes") /\ UNCHANGED xs BY DEF Delete
<1>2. CountsInv' /\ count'.deletes > 0 BY <1>1, CountKept DEF RecordInv, CountsKept
<1>3. NeverNone' BY <1>2 DEF NeverNone
<1>4. OneAtATime' BY <1>1 DEF RecordInv, OneAtATime, HandsOver
<1>5. ReceiverIsRecord' BY <1>1, <1>2 DEF RecordInv, ReceiverIsRecord, HandsOver, Clears
<1> QED BY <1>2, <1>3, <1>4, <1>5 DEF RecordInv

\* A mark set to "record" loses none.
LEMMA RecordDeclared ==
  ASSUME SessionsInv, NEW s \in Stores, Holds(s), copy' = [copy EXCEPT ![s].mark = "record"]
  PROVE  RecordsKept /\ Records' /= {}
<1> PICK d : d = [copy[s] EXCEPT !.mark = "record"] OBVIOUS
<1>1. copy[s] \in Copies BY SessionIsCopy DEF SessionsInv, CopyInv, Holds
<1>2. d \in Copies /\ d.mark = "record" BY <1>1 DEF Copies
<1>3. copy' = [copy EXCEPT ![s] = d] OBVIOUS
<1>4. RecordsKept BY <1>2, <1>3, RecordReplaced DEF SessionsInv
<1>5. copy'[s] = d BY <1>3 DEF SessionsInv, CopyInv
<1>6. s \in Records' BY <1>2, <1>5, ExchangeAssumption DEF Records, IsRecord, Holds
<1> QED BY <1>4, <1>6

\* A mark cleared leaves every other store's.
LEMMA MarkCleared ==
  ASSUME SessionsInv, NEW s \in Stores, copy' = [copy EXCEPT ![s].mark = "mirror"]
  PROVE  \A t \in Stores \ {s} : IsRecord(t) => IsRecord(t)'
<1> PICK d : d = [copy[s] EXCEPT !.mark = "mirror"] OBVIOUS
<1>1. copy' = [copy EXCEPT ![s] = d] OBVIOUS
<1>2. \A t \in Stores \ {s} : copy'[t] = copy[t] BY <1>1 DEF SessionsInv, CopyInv
<1> QED BY <1>2 DEF IsRecord, Holds

LEMMA DeclareKeepsRecord ==
  ASSUME SessionsInv, RecordInv, NEW s \in Stores, DeclareRecord(s)
  PROVE  RecordInv'
<1>1. Holds(s) /\ copy' = [copy EXCEPT ![s].mark = "record"] /\ UNCHANGED <<xs, count>> BY DEF DeclareRecord
<1>2. RecordsKept BY <1>1, RecordDeclared
<1>3. CountsKept BY <1>1, CountKept DEF RecordInv
<1>4. FlightsKept BY <1>1, FlightsUntouched DEF RecordInv
<1> QED BY <1>2, <1>3, <1>4, KeptStep

\* Another record is left, and no push is about to clear.
LEMMA FinishKeepsRecord ==
  ASSUME SessionsInv, RecordInv, NEW s \in Stores, FinishHandover(s)
  PROVE  RecordInv'
<1>1. /\ copy' = [copy EXCEPT ![s].mark = "mirror"] /\ UNCHANGED <<xs, count>>
      /\ \A p \in Procs : ~HandsOver(xs[p])
      /\ \E t \in Stores \ {s} : IsRecord(t)
  BY DEF FinishHandover, Records
<1>2. \A t \in Stores \ {s} : IsRecord(t) => IsRecord(t)' BY <1>1, MarkCleared
<1>3. NeverNone' BY <1>1, <1>2 DEF NeverNone, Records
<1>4. OneAtATime' BY <1>1 DEF OneAtATime, HandsOver
<1>5. ReceiverIsRecord' BY <1>1 DEF RecordInv, ReceiverIsRecord, HandsOver, Clears
<1>6. CountsInv' BY <1>1 DEF RecordInv, CountsInv
<1> QED BY <1>3, <1>4, <1>5, <1>6 DEF RecordInv

\* An exchange that hands over starts when no other does.
LEMMA BeginKeepsRecord ==
  ASSUME SessionsInv, RecordInv, OneHandover, NEW p \in Procs, NEW x, Begin(p, x),
         x.step \notin {"clear", "declare"}
  PROVE  RecordInv'
<1>1. xs[p] = Idle /\ xs' = [xs EXCEPT ![p] = x] /\ UNCHANGED copy /\ Count("ops") BY DEF Begin
<1>2. HandsOver(x) => \A q \in Procs : ~HandsOver(xs[q]) BY DEF Begin
<1>3. ~Declares(xs[p]) BY <1>1 DEF Idle, Declares
<1>4. ~Clears(x) BY DEF Clears
<1>5. FlightsKept BY <1>1, <1>2, <1>3, <1>4, FlightMoved DEF RecordInv, SessionsInv
<1>6. CountsKept BY <1>1, CountKept DEF RecordInv
<1> QED BY <1>1, <1>5, <1>6, RecordsUntouched, KeptStep

LEMMA StartKeepsRecord ==
  ASSUME SessionsInv, RecordInv, OneHandover, NEW p \in Procs, NEW from \in Stores, NEW to \in Stores,
         NEW expected, NEW force, NEW handover,
         \/ StartPush(p, from, to, expected, force, handover)
         \/ StartFetch(p, to, from)
         \/ StartTakeBack(p, to)
  PROVE  RecordInv'
<1>1. CASE StartPush(p, from, to, expected, force, handover)
  <2> PICK b : b = copy[from] OBVIOUS
  <2> PICK t : t = IF to = Server THEN "missing" ELSE "receive" OBVIOUS
  <2> PICK x : x = [kind |-> "push", from |-> from, to |-> to, b |-> b, expected |-> expected,
                    force |-> force, handover |-> handover, step |-> t] OBVIOUS
  <2>1. x.step \notin {"clear", "declare"} OBVIOUS
  <2>2. Begin(p, x) BY <1>1 DEF StartPush
  <2> QED BY <2>1, <2>2, BeginKeepsRecord
<1>2. CASE StartFetch(p, to, from)
  <2> PICK x : x = [kind |-> "fetch", from |-> from, to |-> to, b |-> copy[from], step |-> "receive"] OBVIOUS
  <2>1. x.step \notin {"clear", "declare"} OBVIOUS
  <2>2. Begin(p, x) BY <1>2 DEF StartFetch
  <2> QED BY <2>1, <2>2, BeginKeepsRecord
<1>3. CASE StartTakeBack(p, to)
  <2> PICK x : x = [kind |-> "takeback", from |-> Server, to |-> to, b |-> copy[Server], step |-> "receive"] OBVIOUS
  <2>1. x.step \notin {"clear", "declare"} OBVIOUS
  <2>2. Begin(p, x) BY <1>3 DEF StartTakeBack
  <2> QED BY <2>1, <2>2, BeginKeepsRecord
<1> QED BY <1>1, <1>2, <1>3

LEMMA UploadsKeepRecord ==
  ASSUME SessionsInv, RecordInv,
         (\E p \in Procs : Missing(p) \/ Upload(p)) \/ (\E s \in Locals : UploadsExpire(s))
  PROVE  RecordInv'
<1>1. UNCHANGED copy /\ (UNCHANGED count \/ Count("lapses")) BY DEF Missing, Upload, UploadsExpire
<1>2. RecordsKept /\ CountsKept BY <1>1, RecordsUntouched, CountKept DEF RecordInv
<1>3. FlightsKept
  <2>1. ASSUME NEW p \in Procs, Missing(p) PROVE FlightsKept
    <3> PICK x : x = xs[p] OBVIOUS
    <3> PICK l : l = x.b.entries \ Reachable(x.from) OBVIOUS
    <3> PICK y : y = [k \in DOMAIN x \cup {"lacks"} |->
                        CASE k = "lacks" -> l [] k = "step" -> "upload" [] OTHER -> x[k]] OBVIOUS
    <3>1. IsExchange(x, written) /\ x.kind = "push" /\ x.step = "missing"
      BY <2>1, AtIsExchange DEF Missing, SessionsInv
    <3>2. xs' = [xs EXCEPT ![p] = y] BY <2>1 DEF Missing
    <3>3. y.kind = "push" /\ y.step = "upload" /\ y.handover = x.handover BY <3>1 DEF IsExchange
    <3>4. HandsOver(y) => HandsOver(x) BY <3>1, <3>3 DEF HandsOver
    <3>5. ~Clears(y) /\ ~Declares(x) BY <3>1, <3>3 DEF Clears, Declares
    <3> QED BY <3>2, <3>4, <3>5, FlightMoved DEF SessionsInv, RecordInv
  <2>2. ASSUME NEW p \in Procs, Upload(p) PROVE FlightsKept
    <3>1. IsExchange(xs[p], written) /\ xs[p].kind = "push"
      BY <2>2, AtIsExchange DEF Upload, SessionsInv
    <3>2. ~Declares(xs[p]) BY <3>1 DEF Declares
    <3>3. Advance(p, "post") BY <2>2 DEF Upload
    <3> QED BY <3>1, <3>2, <3>3, FlightAdvances DEF SessionsInv, RecordInv
  <2>3. ASSUME NEW s \in Locals, UploadsExpire(s) PROVE FlightsKept
    BY <2>3, FlightsUntouched DEF UploadsExpire, RecordInv
  <2> QED BY <2>1, <2>2, <2>3
<1> QED BY <1>2, <1>3, KeptStep

\* A receiver that is the record stays it; one that accepts a handover is it.
LEMMA ReceivedMark ==
  ASSUME NEW c, NEW b, NEW o, NEW W, IsSession(b, W), W \subseteq Entries, c = None \/ IsSession(c, W)
  PROVE  /\ c /= None /\ c.mark = "record" => Received(c, b, o) \in Copies /\ Received(c, b, o).mark = "record"
         /\ o.handover /\ Accepted(c, b, o) => Received(c, b, o) \in Copies /\ Received(c, b, o).mark = "record"
<1> PICK r : r = Received(c, b, o) OBVIOUS
<1>1. r = None \/ IsSession(r, W) BY ReceivedIsSession
<1>2. r /= None => r \in Copies BY <1>1 DEF IsSession, Copies
<1>c. c /= None => c \in Copies BY DEF IsSession, Copies
<1>b. b \in Copies BY DEF IsSession, Copies
<1>3. ASSUME c /= None, CallIDsMeet(c.entries, b)
      PROVE  r = c /\ ~Accepted(c, b, o)
  BY <1>3 DEF Received, Accepted
<1>4. ASSUME c /= None, ~CallIDsMeet(c.entries, b)
      PROVE  /\ r.mark = IF o.handover /\ NewHead(c, b, o) = b.head THEN "record" ELSE c.mark
             /\ r \in Copies
  <2> PICK h : h = NewHead(c, b, o) OBVIOUS
  <2> PICK m : m = IF o.handover /\ h = b.head THEN "record" ELSE c.mark OBVIOUS
  <2>1. r = [entries |-> c.entries \cup b.entries, head |-> h, mark |-> m] BY <1>4 DEF Received
  <2>2. NewHead(c, b, o) \in {b.head, c.head}
    <3>1. CASE b.head = c.head BY <3>1 DEF NewHead
    <3>2. CASE b.head /= c.head /\ o.push BY <3>2 DEF NewHead
    <3>3. CASE b.head /= c.head /\ ~o.push BY <3>3 DEF NewHead
    <3> QED BY <3>1, <3>2, <3>3
  <2>3. h \in Entries \cup {Root} /\ m \in {"record", "mirror"} BY <2>2, <1>4, <1>c, <1>b DEF Copies
  <2>4. r \in Copies BY <2>1, <2>3, <1>4, <1>c, <1>b DEF Copies
  <2> QED BY <2>1, <2>4
<1>5. ASSUME c = None, o.handover, Accepted(c, b, o)
      PROVE  r \in Copies /\ r.mark = "record"
  <2>1. FreshHead(b, o) = b.head BY <1>5 DEF Accepted
  <2> PICK h : h = b.head OBVIOUS
  <2>2. r = [entries |-> b.entries, head |-> h, mark |-> "record"] BY <1>5, <2>1 DEF Received
  <2>3. b.entries \in SUBSET Entries /\ h \in Entries \cup {Root} BY <1>b DEF Copies
  <2> QED BY <2>2, <2>3 DEF Copies
<1>6. ASSUME c /= None, c.mark = "record" PROVE r \in Copies /\ r.mark = "record"
  <2>1. CASE CallIDsMeet(c.entries, b) BY <2>1, <1>3, <1>6, <1>c
  <2>2. CASE ~CallIDsMeet(c.entries, b) BY <2>2, <1>4, <1>6
  <2> QED BY <2>1, <2>2
<1>7. ASSUME o.handover, Accepted(c, b, o) PROVE r \in Copies /\ r.mark = "record"
  <2>1. CASE c = None BY <2>1, <1>5, <1>7
  <2>2. CASE c /= None
    <3>1. ~CallIDsMeet(c.entries, b) BY <2>2, <1>3, <1>7
    <3>2. NewHead(c, b, o) = b.head BY <2>2, <1>7 DEF Accepted
    <3> QED BY <2>2, <3>1, <3>2, <1>4, <1>7
  <2> QED BY <2>1, <2>2
<1> QED BY <1>6, <1>7

\* So a store that takes a bundle in loses no record.
LEMMA ReceiverKeepsRecord ==
  ASSUME SessionsInv, NEW s \in Stores, NEW b, NEW o, IsSession(b, written),
         copy' = [copy EXCEPT ![s] = Received(@, b, o)]
  PROVE  RecordsKept /\ (o.handover /\ Accepted(copy[s], b, o) => RecordIn(copy', s))
<1> PICK c : c = copy[s] OBVIOUS
<1> PICK d : d = Received(c, b, o) OBVIOUS
<1>1. c = None \/ IsSession(c, written) BY DEF SessionsInv, CopyInv
<1>2. written \subseteq Entries BY DEF SessionsInv
<1>3. /\ c /= None /\ c.mark = "record" => d \in Copies /\ d.mark = "record"
      /\ o.handover /\ Accepted(c, b, o) => d \in Copies /\ d.mark = "record"
  BY <1>1, <1>2, ReceivedMark
<1>4. copy' = [copy EXCEPT ![s] = d] OBVIOUS
<1>5. IsRecord(s) => d \in Copies /\ d.mark = "record" BY <1>3 DEF IsRecord, Holds
<1>6. RecordsKept BY <1>4, <1>5, RecordReplaced DEF SessionsInv
<1>7. copy'[s] = d BY <1>4 DEF SessionsInv, CopyInv
<1>8. d \in Copies /\ d.mark = "record" => RecordIn(copy', s) BY <1>7, ExchangeAssumption DEF RecordIn
<1> QED BY <1>3, <1>6, <1>8

LEMMA ReceivePushKeepsRecord ==
  ASSUME SessionsInv, RecordInv, NEW p \in Procs, ReceivePush(p)
  PROVE  RecordInv'
<1> PICK x : x = xs[p] OBVIOUS
<1> PICK b : b = IF x.step = "post" THEN Closure(p) ELSE x.b OBVIOUS
<1> PICK o : o = Options(x) OBVIOUS
<1>1. UNCHANGED <<count, written>> BY DEF ReceivePush
<1>2. IsExchange(x, written) /\ x.kind = "push" BY AtIsExchange DEF ReceivePush, SessionsInv
<1>3. ~Declares(x) BY <1>2 DEF Declares
<1>4. b = None \/ b = x.b BY DEF Closure
<1>5. CountsKept BY <1>1, CountKept DEF RecordInv
<1>6. CASE b = None
  <2>1. Finish(p) /\ UNCHANGED copy BY <1>6 DEF ReceivePush
  <2>2. FlightsKept BY <2>1, <1>3, FlightEnds DEF SessionsInv, RecordInv
  <2> QED BY <2>1, <2>2, <1>5, RecordsUntouched, KeptStep
<1>7. CASE b /= None
  <2>1. copy' = [copy EXCEPT ![x.to] = Received(@, b, o)] BY <1>7 DEF ReceivePush
  <2>2. IF x.handover /\ Accepted(copy[x.to], b, o) THEN Advance(p, "clear") ELSE Finish(p)
    BY <1>7 DEF ReceivePush
  <2>3. IsSession(b, written) /\ x.to \in Stores BY <1>2, <1>4, <1>7 DEF IsExchange
  <2>4. RecordsKept /\ (o.handover /\ Accepted(copy[x.to], b, o) => RecordIn(copy', x.to))
    BY <2>1, <2>3, ReceiverKeepsRecord
  <2>5. o.handover = x.handover BY DEF Options
  <2>6. FlightsKept
    <3>1. CASE x.handover /\ Accepted(copy[x.to], b, o)
      <4>1. HandsOver(xs[p]) BY <3>1, <1>2 DEF HandsOver
      <4>2. RecordIn(copy', x.to) BY <3>1, <2>4, <2>5
      <4>3. Advance(p, "clear") BY <3>1, <2>2
      <4> QED BY <4>1, <4>2, <4>3, <1>2, <1>3, FlightAdvances DEF SessionsInv, RecordInv
    <3>2. CASE ~(x.handover /\ Accepted(copy[x.to], b, o))
      <4>1. Finish(p) BY <3>2, <2>2
      <4> QED BY <4>1, <1>3, FlightEnds DEF SessionsInv, RecordInv
    <3> QED BY <3>1, <3>2
  <2> QED BY <2>4, <2>6, <1>5, KeptStep
<1> QED BY <1>6, <1>7

\* The sender's mark goes while the receiver has it.
LEMMA ClearKeepsRecord ==
  ASSUME SessionsInv, RecordInv, NEW p \in Procs, Clear(p)
  PROVE  RecordInv'
<1> PICK x : x = xs[p] OBVIOUS
<1>1. Finish(p) /\ (Count("fails") \/ UNCHANGED count) BY DEF Clear
<1>2. IsExchange(x, written) /\ x.kind = "push" /\ x.step = "clear" BY AtIsExchange DEF Clear, SessionsInv
<1>3. x.from \in Stores /\ x.to \in Stores /\ x.from /= x.to BY <1>2 DEF IsExchange, Locals
<1>4. CountsKept BY <1>1, CountKept DEF RecordInv
<1>5. UNCHANGED copy \/ copy' = [copy EXCEPT ![x.from].mark = "mirror"]
  BY DEF Clear, HandedOver
<1>6. Clears(x) /\ ~Declares(x) BY <1>2 DEF Clears, Declares
<1>7. HandsOver(x) /\ (IsRecord(x.to) \/ count.deletes > 0) BY <1>6 DEF RecordInv, ReceiverIsRecord
<1>8. FlightsKept BY <1>1, <1>6, FlightEnds DEF SessionsInv, RecordInv
<1>9. CASE UNCHANGED copy BY <1>9, <1>4, <1>8, RecordsUntouched, KeptStep
<1>10. CASE copy' = [copy EXCEPT ![x.from].mark = "mirror"]
  <2>1. \A t \in Stores \ {x.from} : IsRecord(t) => IsRecord(t)' BY <1>3, <1>10, MarkCleared
  <2>2. count.deletes > 0 => count'.deletes > 0
    <3>1. count.deletes \in Nat /\ count'.deletes \in Nat BY <1>4 DEF CountsKept, CountsInv, RecordInv
    <3> QED BY <3>1, <1>4 DEF CountsKept
  <2>3. PICK t \in Stores \ {x.from} : t = x.to BY <1>3
  <2>4. IsRecord(t) => IsRecord(t)' BY <2>1
  <2>5. NeverNone'
    <3>1. CASE IsRecord(x.to) BY <3>1, <2>3, <2>4 DEF NeverNone, Records
    <3>2. CASE count.deletes > 0 BY <3>2, <2>2 DEF NeverNone
    <3> QED BY <3>1, <3>2, <1>7
  <2>6. ASSUME NEW q \in Procs PROVE ~Clears(xs'[q])
    <3>1. CASE q = p
      <4>1. xs'[q] = Idle BY <3>1, <1>1 DEF Finish, SessionsInv, FlightInv
      <4>2. Idle.kind = "idle" BY DEF Idle
      <4> QED BY <4>1, <4>2 DEF Clears
    <3>2. CASE q /= p
      <4>1. xs'[q] = xs[q] BY <3>2, <1>1 DEF Finish, SessionsInv, FlightInv
      <4>2. Clears(xs[q]) => HandsOver(xs[q]) BY DEF RecordInv, ReceiverIsRecord
      <4>3. ~HandsOver(xs[q]) BY <3>2, <1>7 DEF RecordInv, OneAtATime
      <4> QED BY <4>1, <4>2, <4>3
    <3> QED BY <3>1, <3>2
  <2>7. ReceiverIsRecord' BY <2>6 DEF ReceiverIsRecord, Clears
  <2>8. ASSUME NEW q \in Procs, NEW r \in Procs, HandsOver(xs'[q]), HandsOver(xs'[r]) PROVE q = r
    <3>1. Idle.kind = "idle" BY DEF Idle
    <3>2. \A i \in Procs : xs'[i] = IF i = p THEN Idle ELSE xs[i] BY <1>1 DEF Finish, SessionsInv, FlightInv
    <3>3. q /= p /\ r /= p BY <2>8, <3>1, <3>2 DEF HandsOver
    <3> QED BY <2>8, <3>2, <3>3 DEF RecordInv, OneAtATime
  <2>9. OneAtATime' BY <2>8 DEF OneAtATime, HandsOver
  <2> QED BY <1>4, <2>5, <2>7, <2>9 DEF RecordInv, CountsKept
<1> QED BY <1>5, <1>9, <1>10

LEMMA ReceiveFetchKeepsRecord ==
  ASSUME SessionsInv, RecordInv, NEW p \in Procs, ReceiveFetch(p)
  PROVE  RecordInv'
<1> PICK x : x = xs[p] OBVIOUS
<1> PICK b : b = x.b OBVIOUS
<1> PICK o : o = NoPush OBVIOUS
<1>1. UNCHANGED count /\ (Advance(p, "handover") \/ Finish(p)) BY DEF ReceiveFetch
<1>2. IsExchange(x, written) /\ x.step = "receive" BY AtIsExchange DEF ReceiveFetch, SessionsInv
<1>3. ~Declares(x) BY <1>2 DEF Declares
<1>4. copy' = [copy EXCEPT ![x.to] = Received(@, b, o)] BY DEF ReceiveFetch
<1>5. IsSession(b, written) /\ x.to \in Stores BY <1>2 DEF IsExchange
<1>6. RecordsKept BY <1>4, <1>5, ReceiverKeepsRecord
<1>7. CountsKept BY <1>1, CountKept DEF RecordInv
<1>8. FlightsKept
  <2>1. CASE Advance(p, "handover") BY <2>1, <1>2, <1>3, FlightAdvances DEF SessionsInv, RecordInv
  <2>2. CASE Finish(p) BY <2>2, <1>3, FlightEnds DEF SessionsInv, RecordInv
  <2> QED BY <1>1, <2>1, <2>2
<1> QED BY <1>6, <1>7, <1>8, KeptStep

\* The server gives the record up to the one exchange that will declare it.
LEMMA ServerHandsOverKeepsRecord ==
  ASSUME SessionsInv, RecordInv, NEW p \in Procs, ServerHandsOver(p)
  PROVE  RecordInv'
<1> PICK x : x = xs[p] OBVIOUS
<1>1. UNCHANGED count /\ (IF copy' /= copy THEN Advance(p, "declare") ELSE Finish(p)) BY DEF ServerHandsOver
<1>2. IsExchange(x, written) /\ x.kind = "takeback" /\ x.step = "handover"
  BY AtIsExchange DEF ServerHandsOver, SessionsInv
<1>3. HandsOver(x) /\ ~Declares(x) BY <1>2 DEF HandsOver, Declares
<1>4. CountsKept BY <1>1, CountKept DEF RecordInv
<1>5. CASE copy' = copy
  <2>1. Finish(p) BY <1>1, <1>5
  <2>2. FlightsKept BY <2>1, <1>3, FlightEnds DEF SessionsInv, RecordInv
  <2> QED BY <2>2, <1>4, <1>5, RecordsUntouched, KeptStep
<1>6. CASE copy' /= copy
  <2>1. Advance(p, "declare") BY <1>1, <1>6
  <2>2. FlightsKept BY <2>1, <1>2, <1>3, FlightAdvances DEF SessionsInv, RecordInv
  <2> PICK y : y = [x EXCEPT !.step = "declare"] OBVIOUS
  <2>3. y.step = "declare" /\ y.kind = "takeback" BY <1>2 DEF IsExchange
  <2>4. \A q \in Procs : xs'[q] = IF q = p THEN y ELSE xs[q] BY <2>1 DEF Advance, SessionsInv, FlightInv
  <2>5. At(p, {"takeback"}, "declare")' BY <2>3, <2>4 DEF At
  <2>6. NeverNone' BY <2>5 DEF NeverNone
  <2>7. ASSUME NEW q \in Procs PROVE ~Clears(xs'[q])
    <3>1. CASE q = p BY <3>1, <2>3, <2>4 DEF Clears
    <3>2. CASE q /= p
      <4>1. xs'[q] = xs[q] BY <3>2, <2>4
      <4>2. Clears(xs[q]) => HandsOver(xs[q]) BY DEF RecordInv, ReceiverIsRecord
      <4>3. ~HandsOver(xs[q]) BY <3>2, <1>3 DEF RecordInv, OneAtATime
      <4> QED BY <4>1, <4>2, <4>3
    <3> QED BY <3>1, <3>2
  <2>8. ReceiverIsRecord' BY <2>7 DEF ReceiverIsRecord, Clears
  <2>9. ASSUME NEW q \in Procs, NEW r \in Procs, HandsOver(xs'[q]), HandsOver(xs'[r]) PROVE q = r
    <3>1. HandsOver(xs[q]) /\ HandsOver(xs[r])
      <4>1. \A i \in Procs : HandsOver(xs'[i]) => HandsOver(xs[i])
        <5> SUFFICES ASSUME NEW i \in Procs, HandsOver(xs'[i]) PROVE HandsOver(xs[i]) OBVIOUS
        <5>1. CASE i = p BY <5>1, <1>3
        <5>2. CASE i /= p
          <6>1. xs'[i] = xs[i] BY <5>2, <2>4
          <6> QED BY <6>1
        <5> QED BY <5>1, <5>2
      <4> QED BY <4>1, <2>9
    <3> QED BY <3>1 DEF RecordInv, OneAtATime
  <2>10. OneAtATime' BY <2>9 DEF OneAtATime, HandsOver
  <2> QED BY <1>4, <2>6, <2>8, <2>10 DEF RecordInv, CountsKept
<1> QED BY <1>5, <1>6

LEMMA DeclareRecordAtKeepsRecord ==
  ASSUME SessionsInv, RecordInv, NEW p \in Procs, DeclareRecordAt(p)
  PROVE  RecordInv'
<1> PICK s : s = xs[p].to OBVIOUS
<1>1. IsExchange(xs[p], written) BY AtIsExchange DEF DeclareRecordAt, SessionsInv
<1>2. s \in Stores /\ Finish(p) BY <1>1 DEF IsExchange, DeclareRecordAt
<1>3. CASE UNCHANGED copy /\ Count("stranded")
  <2>1. CountsKept /\ count'.stranded > 0 BY <1>3, CountKept DEF RecordInv
  <2>2. FlightsKept BY <1>2, <2>1, FlightEnds DEF SessionsInv, RecordInv
  <2> QED BY <1>3, <2>1, <2>2, RecordsUntouched, KeptStep
<1>4. CASE Holds(s) /\ copy' = [copy EXCEPT ![s].mark = "record"] /\ UNCHANGED count
  <2>1. RecordsKept /\ Records' /= {} BY <1>2, <1>4, RecordDeclared
  <2>2. CountsKept BY <1>4, CountKept DEF RecordInv
  <2>3. FlightsKept BY <1>2, <2>1, FlightEnds DEF SessionsInv, RecordInv
  <2> QED BY <2>1, <2>2, <2>3, KeptStep
<1> QED BY <1>3, <1>4 DEF DeclareRecordAt

LEMMA GiveUpKeepsRecord ==
  ASSUME SessionsInv, RecordInv, NEW p \in Procs, GiveUp(p)
  PROVE  RecordInv'
<1>1. UNCHANGED copy /\ Finish(p) BY DEF GiveUp
<1> PICK c : c = count OBVIOUS
<1> PICK d : d = count' OBVIOUS
<1>2. c \in [ops : Nat, moves : Nat, fails : Nat, stranded : Nat, deletes : Nat, lapses : Nat]
  BY DEF RecordInv, CountsInv
<1>3. PICK n \in Nat, f \in Nat :
        /\ d = [c EXCEPT !.fails = f, !.stranded = n]
        /\ n >= c.stranded /\ (At(p, {"takeback"}, "declare") => n > 0)
  <2>1. c.fails \in Nat /\ c.stranded \in Nat BY <1>2
  <2>2. PICK f \in Nat : f = c.fails + 1 BY <2>1
  <2>3. PICK n \in Nat :
          /\ n = IF At(p, {"takeback"}, "declare") THEN c.stranded + 1 ELSE c.stranded
          /\ n >= c.stranded /\ (At(p, {"takeback"}, "declare") => n > 0)
    BY <2>1
  <2>4. d = [c EXCEPT !.fails = f, !.stranded = n] BY <2>2, <2>3 DEF GiveUp
  <2> QED BY <2>3, <2>4
<1>4. /\ d \in [ops : Nat, moves : Nat, fails : Nat, stranded : Nat, deletes : Nat, lapses : Nat]
      /\ d.stranded = n /\ d.deletes = c.deletes
  BY <1>2, <1>3
<1>5. c.deletes \in Nat BY <1>2
<1>6. CountsKept BY <1>3, <1>4, <1>5 DEF CountsKept, CountsInv
<1>7. Declares(xs[p]) => count'.stranded > 0 BY <1>3, <1>4 DEF Declares, At
<1>8. FlightsKept BY <1>1, <1>7, FlightEnds DEF SessionsInv, RecordInv
<1> QED BY <1>1, <1>6, <1>8, RecordsUntouched, KeptStep

LEMMA NextRecord ==
  ASSUME OneHandover
  PROVE  SessionsInv /\ RecordInv /\ [Next]_vars => RecordInv'
<1> SUFFICES ASSUME SessionsInv, RecordInv, [Next]_vars PROVE RecordInv' OBVIOUS
<1>1. CASE UNCHANGED vars
  <2>1. UNCHANGED <<copy, xs, count>> BY <1>1 DEF vars
  <2> QED BY <2>1, RecordsUntouched, FlightsUntouched, CountKept, KeptStep DEF RecordInv
<1>2. ASSUME NEW s \in Stores,
             \/ \E e \in Entries : Append1(s, e)
             \/ \E to \in Entries \cup {Root} : SetHead(s, to)
      PROVE  RecordInv'
  BY <1>2, WritersKeepRecord
<1>3. ASSUME NEW s \in Stores, Delete(s) \/ DeclareRecord(s) \/ FinishHandover(s) PROVE RecordInv'
  BY <1>3, DeleteKeepsRecord, DeclareKeepsRecord, FinishKeepsRecord
<1>4. ASSUME NEW p \in Procs, NEW from \in Stores, NEW to \in Stores, NEW expected, NEW force, NEW handover,
             \/ StartPush(p, from, to, expected, force, handover)
             \/ StartFetch(p, to, from)
             \/ StartTakeBack(p, to)
      PROVE  RecordInv'
  BY <1>4, StartKeepsRecord
<1>5. ASSUME (\E p \in Procs : Missing(p) \/ Upload(p)) \/ (\E s \in Locals : UploadsExpire(s))
      PROVE  RecordInv'
  BY <1>5, UploadsKeepRecord
<1>6. ASSUME NEW p \in Procs, ReceivePush(p) \/ Clear(p) \/ ReceiveFetch(p) PROVE RecordInv'
  BY <1>6, ReceivePushKeepsRecord, ClearKeepsRecord, ReceiveFetchKeepsRecord
<1>7. ASSUME NEW p \in Procs, ServerHandsOver(p) \/ DeclareRecordAt(p) \/ GiveUp(p) PROVE RecordInv'
  BY <1>7, ServerHandsOverKeepsRecord, DeclareRecordAtKeepsRecord, GiveUpKeepsRecord
<1> QED BY <1>1, <1>2, <1>3, <1>4, <1>5, <1>6, <1>7 DEF Next

(***************************************************************************)
(* "a failure between the two leaves two records and never none": when     *)
(* handovers and takes back do not overlap, some store is the record at    *)
(* every moment, whatever is pushed, fetched, written and given up between *)
(* their steps, until a copy is deleted; but for a take back between the   *)
(* server's giving it up and the declaration, or one that failed there     *)
(* (Push with Handover, HandOver, TakeBack).                               *)
(***************************************************************************)
THEOREM RecordNeverLost ==
  ASSUME OneHandover
  PROVE  Spec => []NeverNone
<1>1. Init => SessionsInv /\ RecordInv BY InitSessions, InitRecord
<1>2. SessionsInv /\ RecordInv /\ [Next]_vars => (SessionsInv /\ RecordInv)'
  BY NextSessions, NextRecord
<1>3. RecordInv => NeverNone BY DEF RecordInv
<1> QED BY <1>1, <1>2, <1>3, PTL DEF Spec

=============================================================================
