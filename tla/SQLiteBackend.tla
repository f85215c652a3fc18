---------------------------- MODULE SQLiteBackend ----------------------------
(***************************************************************************)
(* storage/sqlite.py and storage/sqlite_ledger.py: one database file, a    *)
(* connection that is opened by the first call, and a commit after every   *)
(* write.                                                                  *)
(*                                                                         *)
(* The store and the ledger have no lock of their own.  The manager calls  *)
(* the ledger with its lock held, but also without it (the audit trail,    *)
(* explain_trust, admin_audit_log), and so two first calls may overlap.    *)
(* The file and its locking are SQLite's: a transaction on one connection  *)
(* keeps the others from writing.  Each caller makes one call; a written   *)
(* row is identified with the caller that wrote it.                        *)
(***************************************************************************)
EXTENDS Naturals, FiniteSets

CONSTANTS
    Writers,    \* callers of put, delete or append
    Readers,    \* callers of get, list_agents, query or summary
    Fails,      \* whether an await may raise
    Closes      \* whether close() may be called among other calls

ASSUME CallersAreDistinct == Writers \cap Readers = {}

ASSUME SwitchesAreBoolean == Fails \in BOOLEAN /\ Closes \in BOOLEAN

Callers == Writers \cup Readers

ASSUME CallersAreFinite == IsFiniteSet(Callers)

None == 0

VARIABLES
    conn,       \* self._conn: a connection, or None
    opened,     \* the connections opened so far are 1..opened
    open,       \* those that have not been closed
    rows,       \* what is committed to the file
    dirty,      \* what a connection has written and not committed
    pc,         \* "idle", "connect", "create", "execute", "commit", "done", "failed"
    uses,       \* the connection a call works with
    result,     \* what a reader was given
    earlier     \* history: the writers that had returned when the call began

vars == <<conn, opened, open, rows, dirty, pc, uses, result, earlier>>

Connections == 1..Cardinality(Callers)

Goto(c, phase) == pc' = [pc EXCEPT ![c] = phase]

Returned == {w \in Writers : pc[w] = "done"}

-----------------------------------------------------------------------------
(* _ensure_table *)

(* The connection is there. *)
FindConnection(c) ==
    /\ pc[c] = "idle"
    /\ conn # None
    /\ uses' = [uses EXCEPT ![c] = conn]
    /\ Goto(c, "execute")
    /\ earlier' = [earlier EXCEPT ![c] = Returned]
    /\ UNCHANGED <<conn, opened, open, rows, dirty, result>>

(* `if self._conn is None`, and on to `await aiosqlite.connect(path)`. *)
FindNone(c) ==
    /\ pc[c] = "idle"
    /\ conn = None
    /\ Goto(c, "connect")
    /\ earlier' = [earlier EXCEPT ![c] = Returned]
    /\ UNCHANGED <<conn, opened, open, rows, dirty, uses, result>>

(* The new connection replaces whatever self._conn was meanwhile. *)
Connect(c) ==
    /\ pc[c] = "connect"
    /\ opened' = opened + 1
    /\ open' = open \cup {opened'}
    /\ conn' = opened'
    /\ Goto(c, "create")
    /\ UNCHANGED <<rows, dirty, uses, result, earlier>>

(* The table is created, the DDL committed and self._conn returned, which is
   not always the connection this call has opened. *)
CreateTable(c) ==
    /\ pc[c] = "create"
    /\ conn # None
    /\ rows' = rows \cup dirty[conn]
    /\ dirty' = [dirty EXCEPT ![conn] = {}]
    /\ uses' = [uses EXCEPT ![c] = conn]
    /\ Goto(c, "execute")
    /\ UNCHANGED <<conn, opened, open, result, earlier>>

(* self._conn is None again: AttributeError, raised as StoreError. *)
CreateOnNone(c) ==
    /\ pc[c] = "create"
    /\ conn = None
    /\ Goto(c, "failed")
    /\ UNCHANGED <<conn, opened, open, rows, dirty, uses, result, earlier>>

-----------------------------------------------------------------------------
(* The connection was closed under the call. *)
Closed(c) == uses[c] \notin open

(* Another connection is in a transaction. *)
Busy(c) == \E k \in open \ {uses[c]} : dirty[k] # {}

(* `await conn.execute("INSERT ...")` begins a transaction, if there is none. *)
Insert(c) ==
    /\ c \in Writers /\ pc[c] = "execute"
    /\ ~Closed(c) /\ ~Busy(c)
    /\ dirty' = [dirty EXCEPT ![uses[c]] = @ \cup {c}]
    /\ Goto(c, "commit")
    /\ UNCHANGED <<conn, opened, open, rows, uses, result, earlier>>

(* Mutant: self._conn.commit(), whichever connection that is by now. *)
CommitCurrent(c) ==
    /\ c \in Writers /\ pc[c] = "commit"
    /\ ~Closed(c) /\ conn # None
    /\ rows' = rows \cup dirty[conn]
    /\ dirty' = [dirty EXCEPT ![conn] = {}]
    /\ Goto(c, "done")
    /\ UNCHANGED <<conn, opened, open, uses, result, earlier>>

(* Mutant: the transaction is left open. *)
CommitLeavingOpen(c) ==
    /\ c \in Writers /\ pc[c] = "commit"
    /\ ~Closed(c)
    /\ rows' = rows \cup dirty[uses[c]]
    /\ Goto(c, "done")
    /\ UNCHANGED <<conn, opened, open, dirty, uses, result, earlier>>

(* `await conn.commit()`: everything written through this connection. *)
Commit(c) ==
    /\ c \in Writers /\ pc[c] = "commit"
    /\ ~Closed(c)
    /\ rows' = rows \cup dirty[uses[c]]
    /\ dirty' = [dirty EXCEPT ![uses[c]] = {}]
    /\ Goto(c, "done")
    /\ UNCHANGED <<conn, opened, open, uses, result, earlier>>

(* Mutant: a query sees only what its own connection has written. *)
SelectOwn(c) ==
    /\ c \in Readers /\ pc[c] = "execute"
    /\ ~Closed(c)
    /\ result' = [result EXCEPT ![c] = dirty[uses[c]]]
    /\ Goto(c, "done")
    /\ UNCHANGED <<conn, opened, open, rows, dirty, uses, earlier>>

(* A query sees the file, and what its own connection has not committed. *)
Select(c) ==
    /\ c \in Readers /\ pc[c] = "execute"
    /\ ~Closed(c)
    /\ result' = [result EXCEPT ![c] = rows \cup dirty[uses[c]]]
    /\ Goto(c, "done")
    /\ UNCHANGED <<conn, opened, open, rows, dirty, uses, earlier>>

(* The connection was closed under the call: its next await raises. *)
FindClosed(c) ==
    /\ pc[c] \in {"execute", "commit"} /\ Closed(c)
    /\ Goto(c, "failed")
    /\ UNCHANGED <<conn, opened, open, rows, dirty, uses, result, earlier>>

(* An await raises StoreError: the backend fails, or another transaction lasts
   longer than SQLite's busy timeout.  There is no rollback. *)
Fail(c) ==
    /\ Fails /\ pc[c] \in {"connect", "create", "execute", "commit"}
    /\ Goto(c, "failed")
    /\ UNCHANGED <<conn, opened, open, rows, dirty, uses, result, earlier>>

(* close(); what is not committed is rolled back. *)
Close ==
    /\ conn # None
    /\ Closes \/ \A c \in Callers : pc[c] \in {"done", "failed"}
    /\ open' = open \ {conn}
    /\ dirty' = [dirty EXCEPT ![conn] = {}]
    /\ conn' = None
    /\ UNCHANGED <<opened, rows, pc, uses, result, earlier>>

(* Every caller has made its call.  Whether it returns is a question of
   liveness, not of deadlock. *)
Rest == (\A c \in Callers : pc[c] # "idle") /\ UNCHANGED vars

Init ==
    /\ conn = None
    /\ opened = 0
    /\ open = {}
    /\ rows = {}
    /\ dirty = [k \in Connections |-> {}]
    /\ pc = [c \in Callers |-> "idle"]
    /\ uses = [c \in Callers |-> None]
    /\ result = [c \in Callers |-> {}]
    /\ earlier = [c \in Callers |-> {}]

Step(c) ==
    \/ FindConnection(c) \/ FindNone(c) \/ Connect(c) \/ CreateTable(c) \/ CreateOnNone(c)
    \/ Insert(c) \/ Commit(c) \/ Select(c) \/ FindClosed(c)

Next == (\E c \in Callers : Step(c) \/ Fail(c)) \/ Close \/ Rest

Spec == Init /\ [][Next]_vars

(* The thread of a connection works off its queue. *)
FairSpec == Spec /\ \A c \in Callers : WF_vars(Step(c))

-----------------------------------------------------------------------------
(* A write that has returned is in the file: the process may crash or close
   the connection and it stays there, whichever connections the calls of a
   racing start have opened, and whichever calls failed (sqlite.py:55-67,
   sqlite_ledger.py:66-94). *)
ReturnedMeansDurable == Returned \subseteq rows

(* A query is given every row whose write returned before the query began. *)
QueriesSeeReturned == \A r \in Readers : pc[r] = "done" => earlier[r] \subseteq result[r]

(* While nothing fails, every call returns: a transaction that keeps others
   from writing is always committed (sqlite.py:55-67). *)
EveryCallReturns ==
    \A c \in Callers : [](\A d \in Callers : pc[d] # "failed") => <>(pc[c] = "done")
=============================================================================
