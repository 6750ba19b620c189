----------------------------- MODULE Turnstile -----------------------------
(***************************************************************************)
(* The sweep's lock: many writers hold it shared, one sweep or migration   *)
(* exclusive, and neither may keep the other out for ever.  The kernel's   *)
(* flock does not queue, so every wait is a poll, and two more locks make  *)
(* a turnstile of it: next, which a waiting sweep holds so that writers    *)
(* arriving queue behind it, and want, which a writer kept out holds so    *)
(* that the sweep lets it in.  A writer may be stopped, as by SIGSTOP,     *)
(* while it holds any of them.                                             *)
(***************************************************************************)
EXTENDS Naturals, FiniteSets

CONSTANT Writers  \* the goroutines and processes that write objects

VARIABLES
    lock, next, want, \* the three flocks: their shared holders and exclusive one
    writer,           \* writer[w]: where w is in lockShared
    sweep,            \* where the sweep is in lockExclusive
    stopped           \* writers stopped while they hold the lock

turnVars == <<lock, next, want, writer, sweep, stopped>>

-----------------------------------------------------------------------------
(* flock, without blocking.                                                *)
Unlocked == [shared |-> {}, exclusive |-> FALSE]

MaySh(l) == ~l.exclusive
MayEx(l) == ~l.exclusive /\ l.shared = {}
Sh(l, w) == [l EXCEPT !.shared = @ \cup {w}]
UnSh(l, w) == [l EXCEPT !.shared = @ \ {w}]
Ex(l) == [l EXCEPT !.exclusive = TRUE]
UnEx(l) == [l EXCEPT !.exclusive = FALSE]

TurnInit ==
    /\ lock = Unlocked /\ next = Unlocked /\ want = Unlocked
    /\ writer = [w \in Writers |-> "idle"]
    /\ sweep = "idle" /\ stopped = {}

At(w, pc) == writer[w] = pc /\ w \notin stopped
To(w, pc) == writer' = [writer EXCEPT ![w] = pc]

-----------------------------------------------------------------------------
(* lockShared.                                                             *)

Arrive(w) ==
    /\ At(w, "idle") /\ To(w, "next")
    /\ UNCHANGED <<lock, next, want, sweep, stopped>>

\* Mutant: the writer takes the lock without passing by next.
PollNextNever(w) ==
    /\ At(w, "next") /\ To(w, "try")
    /\ UNCHANGED <<lock, next, want, sweep, stopped>>

\* It polls next, shared.
PollNext(w) ==
    /\ At(w, "next") /\ MaySh(next)
    /\ next' = Sh(next, w) /\ To(w, "try")
    /\ UNCHANGED <<lock, want, sweep, stopped>>

\* lockTry: the lock at once, letting next go, or a wait for it.
TryLock(w) ==
    /\ At(w, "try")
    /\ IF MaySh(lock)
       THEN lock' = Sh(lock, w) /\ next' = UnSh(next, w) /\ To(w, "holds")
       ELSE To(w, "want") /\ UNCHANGED <<lock, next>>
    /\ UNCHANGED <<want, sweep, stopped>>

\* lockWait on want, which says it is waiting.
PollWant(w) ==
    /\ At(w, "want") /\ MaySh(want)
    /\ want' = Sh(want, w) /\ To(w, "wait")
    /\ UNCHANGED <<lock, next, sweep, stopped>>

\* lockPoll on the lock; want and next go once it has it.
PollLock(w) ==
    /\ At(w, "wait") /\ MaySh(lock)
    /\ lock' = Sh(lock, w) /\ want' = UnSh(want, w) /\ next' = UnSh(next, w)
    /\ To(w, "holds")
    /\ UNCHANGED <<sweep, stopped>>

\* Its objects and its record are written: release.
LetGo(w) ==
    /\ At(w, "holds")
    /\ lock' = UnSh(lock, w) /\ To(w, "idle")
    /\ UNCHANGED <<next, want, sweep, stopped>>

\* The caller's context ends a wait: what it holds of the turnstile goes.
GivesUp(w) ==
    /\ writer[w] \in {"next", "want", "wait"} /\ w \notin stopped
    /\ next' = UnSh(next, w) /\ want' = UnSh(want, w) /\ To(w, "idle")
    /\ UNCHANGED <<lock, sweep, stopped>>

\* A holder is stopped, and stays so.
Stops(w) ==
    /\ At(w, "holds") /\ stopped' = stopped \cup {w}
    /\ UNCHANGED <<lock, next, want, writer, sweep>>

-----------------------------------------------------------------------------
(* lockExclusive.                                                          *)

SweepArrives ==
    /\ sweep = "idle" /\ sweep' = "next"
    /\ UNCHANGED <<lock, next, want, writer, stopped>>

\* lockPoll on next, exclusive: a turn begins.
SweepNext ==
    /\ sweep = "next" /\ MayEx(next)
    /\ next' = Ex(next) /\ sweep' = "want"
    /\ UNCHANGED <<lock, want, writer, stopped>>

\* Every writer waiting in lockShared is let in first.
SweepWant ==
    /\ sweep = "want" /\ MayEx(want) /\ sweep' = "lock"
    /\ UNCHANGED <<lock, next, want, writer, stopped>>

SweepLock ==
    /\ sweep = "lock" /\ MayEx(lock)
    /\ lock' = Ex(lock) /\ next' = UnEx(next) /\ sweep' = "holds"
    /\ UNCHANGED <<want, writer, stopped>>

\* turnstileBound passes: next is let go.  The bound is longer than a live
\* holder's hold, so it passes only beside a stopped one.
TurnEnds ==
    /\ sweep \in {"want", "lock"} /\ stopped # {}
    /\ next' = UnEx(next) /\ sweep' = "off"
    /\ UNCHANGED <<lock, want, writer, stopped>>

\* Off the turnstile the lock alone is polled, until the back-off ends.
SweepOff ==
    /\ sweep = "off"
    /\ IF MayEx(lock) THEN lock' = Ex(lock) /\ sweep' = "holds"
                      ELSE sweep' = "next" /\ UNCHANGED lock
    /\ UNCHANGED <<next, want, writer, stopped>>

\* A batch is done; a sweep retakes the lock for the next one.
SweepLetsGo ==
    /\ sweep = "holds"
    /\ lock' = UnEx(lock) /\ sweep' = "idle"
    /\ UNCHANGED <<next, want, writer, stopped>>

-----------------------------------------------------------------------------
WriterSteps(w) ==
    \/ PollNext(w) \/ TryLock(w) \/ PollWant(w) \/ PollLock(w) \/ LetGo(w)
    \/ Arrive(w) \/ GivesUp(w) \/ Stops(w)

SweepSteps ==
    \/ SweepArrives \/ SweepNext \/ SweepWant \/ SweepLock \/ TurnEnds \/ SweepOff
    \/ SweepLetsGo

TurnNext == SweepSteps \/ \E w \in Writers : WriterSteps(w)

\* Every poll comes round, and a hold ends.  A poll of next is granted if it
\* is free again and again; the others once they stay free.  A try at the lock
\* takes microseconds where polls are milliseconds apart: tries do not overlap
\* one another for ever.
TurnFair ==
    /\ \A w \in Writers :
         /\ WF_turnVars(TryLock(w)) /\ WF_turnVars(PollWant(w)) /\ WF_turnVars(PollLock(w))
         /\ WF_turnVars(LetGo(w))
         /\ SF_turnVars(PollNext(w))
    /\ []<>(\A w \in Writers : writer[w] # "try")
    /\ SF_turnVars(SweepNext)
    /\ WF_turnVars(SweepWant) /\ WF_turnVars(SweepLock) /\ WF_turnVars(TurnEnds)
    /\ WF_turnVars(SweepOff) /\ WF_turnVars(SweepLetsGo)

-----------------------------------------------------------------------------
(* Properties.                                                             *)

\* A sweep that waits gets the lock, however many writers come and however
\* their holds overlap, unless one is stopped while it holds it (lockShared:
\* "cannot keep the lock from ever being free for the sweep").
SweepPasses == sweep = "next" ~> (sweep = "holds" \/ stopped # {})

\* A writer that waits gets the lock or gives up, though a sweep takes it
\* batch after batch and though a stopped holder keeps that sweep waiting
\* (turnstileBound: with no bound "every writer of every process waited").
WritersPass == \A w \in Writers : writer[w] = "next" ~> writer[w] \in {"holds", "idle"}

\* At the turnstile neither side waits for ever on the other (lockShared,
\* lockExclusive).
TurnstilePasses == SweepPasses /\ WritersPass

=============================================================================
