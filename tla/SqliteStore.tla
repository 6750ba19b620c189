----------------------------- MODULE SqliteStore -----------------------------
(***************************************************************************)
(* The SQLite store: a session is its header's row, its entries' rows and  *)
(* a holder's row, written in immediate transactions, and each process's   *)
(* store caches the sessions it has open.  One session is modelled, with   *)
(* the processes that create, import, open, append to, move, release and   *)
(* delete it, kills, appends that fail, and an operator who breaks a hold. *)
(*                                                                         *)
(* Its entries, and what a writer may append, are those of the JSON lines  *)
(* store; its transactions are whole, so no line of it is ever torn.       *)
(***************************************************************************)
EXTENDS JsonlStore

CONSTANTS MaxRows,   \* bound: appends stop once the session has this many rows
          MaxErrors  \* bound: kills, deletions, failed appends and broken holds

VARIABLES
  db,       \* the session's rows: [base, format, rows, holder], or NoRows
  store,    \* per process: where it is, the session it caches, and what it
            \* remembers of it: refused, and stale when the header is to be raised
  head,     \* history: the head the last accepted write left
  errors    \* kills, deletions, failed appends and broken holds so far

dbVars == <<db, store, head, errors>>

NoRows == [base |-> None, format |-> "new", rows |-> <<>>, holder |-> None]
Nothing == [pc |-> "up", sess |-> NewSession, refused |-> FALSE, stale |-> FALSE]

DbInit == db = NoRows /\ store = [p \in Procs |-> Nothing] /\ head = Root /\ errors = 0

Stored == db.base /= None
Caches(p) == store[p].pc = "open"
Running(p) == store[p].pc /= "dead"

Err == errors < MaxErrors /\ errors' = errors + 1

\* Forgotten by the process's store, the hold in the database left alone.
Dropped(p) == [store[p] EXCEPT !.pc = "up", !.sess = NewSession]

(***************************************************************************)
(* The hold.  Claim takes it over from a process of this host that no      *)
(* longer runs.                                                            *)
(***************************************************************************)
Claimable(p) == db.holder \notin {None, p} => ~Running(db.holder)

\* The header, every line and the hold go in one transaction: a new session
\* under this format, or an imported one under the format its file names.
Insert(p) ==
  /\ store[p].pc = "up" /\ ~Stored
  /\ \E n \in Bases, f \in Formats \cup {"new"} :
       /\ db' = [base |-> n, format |-> f, rows |-> Prefix(n), holder |-> p]
       /\ store' = [store EXCEPT ![p] = [@ EXCEPT !.pc = "open", !.stale = f = "old",
                      !.sess = [NewSession EXCEPT !.ents = Prefix(n), !.base = n, !.leaf = n]]]
       /\ head' = n
  /\ UNCHANGED errors

Claim(p) ==
  /\ store[p].pc = "up" /\ ~store[p].refused /\ Stored /\ Claimable(p)
  /\ db' = [db EXCEPT !.holder = p]
  /\ store' = [store EXCEPT ![p].pc = "loading"]
  /\ UNCHANGED <<head, errors>>

\* The rows are read in a transaction of their own.
LoadRows(p) ==
  /\ store[p].pc = "loading"
  /\ store' = [store EXCEPT ![p] =
       IF Stored THEN [@ EXCEPT !.pc = "open", !.sess = ReadSession(db.rows, db.base), !.stale = db.format = "old"]
       ELSE Dropped(p)]
  /\ UNCHANGED <<db, head, errors>>

\* Mutant: the hold is let go and the session stays cached.
ReleaseRowsCached(p) ==
  /\ store[p].pc \in {"up", "open"}
  /\ db' = IF Caches(p) /\ db.holder = p THEN [db EXCEPT !.holder = None] ELSE db
  /\ store' = [store EXCEPT ![p].refused = FALSE]
  /\ UNCHANGED <<head, errors>>

\* The hold is let go if the session is cached; what is remembered of it goes.
ReleaseRows(p) ==
  /\ store[p].pc \in {"up", "open"}
  /\ db' = IF Caches(p) /\ db.holder = p THEN [db EXCEPT !.holder = None] ELSE db
  /\ store' = [store EXCEPT ![p] = Nothing]
  /\ UNCHANGED <<head, errors>>

\* A store that is closed lets go what it holds and forgets the rest.
CloseStore(p) == ReleaseRows(p)

\* Any process deletes a session, and its entries and its hold go with it.
DeleteRows(p) ==
  /\ store[p].pc \in {"up", "open"} /\ Stored /\ Err
  /\ db' = NoRows /\ head' = Root
  /\ store' = [store EXCEPT ![p] = [Nothing EXCEPT !.refused = store[p].refused]]

BreakHold ==
  /\ Stored /\ db.holder /= None /\ Err
  /\ db' = [db EXCEPT !.holder = None]
  /\ UNCHANGED <<store, head>>

(***************************************************************************)
(* Append: the entry joins the cached session, then its row goes in, with  *)
(* a leaf label's where the entry alone would read back as the head.       *)
(***************************************************************************)
RowsOf(s, e) == Settled(CaughtUp(Commit(s, e)))

\* Mutant: a cached session is taken to be held.
HoldsRowCached(p) == TRUE

\* The append's transaction finds the process's own hold.
HoldsRow(p) == db.holder = p

\* The hold was lost, or another writer's row is where this one would go.
Refused(p) == HoldsRow(p) => Len(db.rows) > Len(store[p].sess.ents)

RaisedFormat(p) == IF store[p].stale THEN "new" ELSE db.format

InsertRows(p, s) ==
  /\ db' = [db EXCEPT !.format = RaisedFormat(p), !.rows = @ \o New(store[p].sess, s)]
  /\ store' = [store EXCEPT ![p].sess = s, ![p].stale = FALSE]
  /\ head' = s.leaf

AppendRows(p, e) ==
  /\ Caches(p) /\ ~Refused(p) /\ Len(db.rows) < MaxRows
  /\ InsertRows(p, RowsOf(store[p].sess, e))
  /\ UNCHANGED errors

\* Nothing is written, and the session is refused until it is released.
AppendRefused(p) ==
  /\ Caches(p) /\ Refused(p)
  /\ store' = [store EXCEPT ![p] = [Dropped(p) EXCEPT !.refused = TRUE]]
  /\ UNCHANGED <<db, head, errors>>

\* The transaction fails: nothing is written and the cached session dropped.
AppendFails(p) ==
  /\ Caches(p) /\ Err
  /\ store' = [store EXCEPT ![p] = Dropped(p)]
  /\ UNCHANGED <<db, head>>

MoveHead(p) ==
  \E to \in 0..Len(store[p].sess.ents) :
    \E label \in HeadLabel(store[p].sess, store[p].sess.leaf, to) : AppendRows(p, label)

\* The host moves the leaf of the session it was handed to an entry a head
\* may rest on; no row is written.
BranchCached(p) ==
  /\ Caches(p) /\ HoldsRow(p) /\ Len(db.rows) < MaxRows
  /\ \E id \in 0..Len(store[p].sess.ents) :
       /\ id /= store[p].sess.leaf /\ MayRestOn(store[p].sess, id)
       /\ store' = [store EXCEPT ![p].sess.leaf = id]
  /\ UNCHANGED <<db, head, errors>>

KillStore(p) ==
  /\ Running(p) /\ Err
  /\ store' = [store EXCEPT ![p] = [Nothing EXCEPT !.pc = "dead"]]
  /\ UNCHANGED <<db, head>>

RestartStore(p) ==
  /\ ~Running(p) /\ db.holder /= p
  /\ store' = [store EXCEPT ![p] = Nothing]
  /\ UNCHANGED <<db, head, errors>>

DbNext ==
  \/ \E p \in Procs :
       \/ Insert(p) \/ Claim(p) \/ LoadRows(p) \/ ReleaseRows(p) \/ CloseStore(p) \/ DeleteRows(p)
       \/ (\E e \in Appendable(store[p].sess) : AppendRows(p, e)) \/ AppendRefused(p) \/ AppendFails(p)
       \/ MoveHead(p) \/ BranchCached(p) \/ KillStore(p) \/ RestartStore(p)
  \/ BreakHold

------------------------------------------------------------------------------
\* A process whose append the database will take has the session the database
\* holds: a hold lost, broken, taken over or let go, or a session deleted and
\* made again, never leaves a cached one to build on, and no append finds
\* another's row in its place (sqlite.go's appendLocked and claim).
RowsFollow ==
  \A p \in Procs : Caches(p) /\ db.holder = p =>
    store[p].sess.ents = db.rows /\ store[p].sess.base = db.base

\* The head reads back from the rows alone: whichever process opens the
\* session finds the head the last accepted write left, a branch's leaf label
\* keeping it where the branch would read back as the head.
RowsReadBack ==
  Stored /\ MayRestOn(ReadSession(db.rows, db.base), head) =>
    ResolveLeaf(ReadSession(db.rows, db.base)) = head

\* An entry appended by this writer never sits under a header of an earlier
\* minor, whichever of the processes that opened the session wrote first.
RowsRaised == Stored /\ Len(db.rows) > db.base => db.format = "new"

\* The rows are the session: whoever may append has them, whoever opens finds
\* the head its writer left, under a header that allows each entry
\* (appendLocked, claim, load).
RowsKeepTheSession == RowsFollow /\ RowsReadBack /\ RowsRaised

==============================================================================
