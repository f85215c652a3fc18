-------------------------- MODULE SQLiteBackend_proofs --------------------------
(***************************************************************************)
(* What a call of the SQLite store or ledger may rely on once it has       *)
(* returned, for any number of callers, connections opened by racing first *)
(* calls, failing awaits and a close() at any time.                        *)
(*                                                                         *)
(* The argument: a writer that has executed its statement finds its row in *)
(* the transaction of the connection it holds, or in the file because      *)
(* somebody else committed that connection, or its connection has been     *)
(* closed under it.  A closed connection is never opened again, so that    *)
(* the last of these ends in an error and never in a return.               *)
(***************************************************************************)
EXTENDS SQLiteBackend, FiniteSetTheorems, TLAPS

Phases == {"idle", "connect", "create", "execute", "commit", "done", "failed"}

(* The callers that may still open a connection. *)
Early == {c \in Callers : pc[c] \in {"idle", "connect"}}

(* The second conjunct keeps every connection within Connections. *)
TypeInv ==
    /\ opened \in Nat
    /\ opened + Cardinality(Early) <= Cardinality(Callers)
    /\ conn \in 0..opened
    /\ open \subseteq 1..opened
    /\ rows \subseteq Writers
    /\ dirty \in [Connections -> SUBSET Writers]
    /\ pc \in [Callers -> Phases]
    /\ uses \in [Callers -> 0..opened]
    /\ result \in [Callers -> SUBSET Writers]
    /\ earlier \in [Callers -> SUBSET Writers]

(* The row of writer w is where w left it. *)
RowIsKept(w) ==
    /\ pc[w] = "done" => w \in rows
    /\ pc[w] = "commit" => \/ w \in rows
                           \/ Closed(w)
                           \/ w \in dirty[uses[w]]

(* What had returned when r began is in the file, and in r's answer. *)
AnswerIsFull(r) ==
    /\ earlier[r] \subseteq rows
    /\ r \in Readers /\ pc[r] = "done" => earlier[r] \subseteq result[r]

StoreInv ==
    /\ TypeInv
    /\ \A w \in Writers : RowIsKept(w)
    /\ \A r \in Callers : AnswerIsFull(r)

StepOf(c) == Step(c) \/ Fail(c)
-----------------------------------------------------------------------------
LEMMA Counts ==
    /\ IsFiniteSet(Early) /\ Cardinality(Early) \in Nat
    /\ Cardinality(Callers) \in Nat
    /\ Connections = 1..Cardinality(Callers)
PROOF
<1>1. IsFiniteSet(Callers) /\ Early \subseteq Callers
  BY CallersAreFinite DEF Early
<1>. QED  BY <1>1, FS_Subset, FS_CardinalityType DEF Connections

(* Nobody becomes early: a call that has its connection never asks again. *)
LEMMA EarlyShrinks ==
    ASSUME Early' \subseteq Early
    PROVE  Cardinality(Early') \in Nat /\ Cardinality(Early') <= Cardinality(Early)
PROOF
<1>1. IsFiniteSet(Early)
  BY Counts
<1>2. IsFiniteSet(Early')
  BY <1>1, FS_Subset
<1>. QED  BY <1>1, <1>2, FS_Subset, FS_CardinalityType

(* Opening a connection uses up one of the early callers. *)
LEMMA ConnectCounts ==
    ASSUME TypeInv, NEW c \in Callers, Connect(c)
    PROVE  opened + 1 + Cardinality(Early') <= Cardinality(Callers)
PROOF
<1>1. c \in Early /\ Early' = Early \ {c}
  BY DEF TypeInv, Connect, Goto, Early
<1>2. Cardinality(Early \ {c}) = Cardinality(Early) - 1
  BY <1>1, Counts, FS_RemoveElement
<1>3. Cardinality(Early') = Cardinality(Early) - 1
  BY <1>1, <1>2
<1>4. opened \in Nat /\ opened + Cardinality(Early) <= Cardinality(Callers)
  BY DEF TypeInv
<1>. QED  BY <1>3, <1>4, Counts

(* A step moves the phase of one caller, and only to a later one. *)
LEMMA CallersMove ==
    ASSUME TypeInv, NEW c \in Callers, StepOf(c)
    PROVE  \E phase \in Phases :
              /\ pc' = [pc EXCEPT ![c] = phase]
              /\ phase # "idle"
              /\ phase = "connect" => pc[c] = "idle"
PROOF BY DEF StepOf, Step, FindConnection, FindNone, Connect, CreateTable, CreateOnNone, Insert,
             Commit, Select, FindClosed, Fail, Goto, Phases

LEMMA InitTypes == Init => TypeInv
PROOF
<1>. SUFFICES ASSUME Init PROVE TypeInv
  OBVIOUS
<1>1. opened = 0 /\ Early = Callers
  BY DEF Init, Early
<1>2. Cardinality(Early) = Cardinality(Callers)
  BY <1>1
<1>3. opened + Cardinality(Early) <= Cardinality(Callers)
  BY <1>1, <1>2, Counts
<1>. QED  BY <1>1, <1>3 DEF Init, TypeInv, Phases, None

LEMMA StepTypes == TypeInv /\ [Next]_vars => TypeInv'
PROOF
<1>. SUFFICES ASSUME TypeInv, [Next]_vars PROVE TypeInv'
  OBVIOUS
<1>1. CASE UNCHANGED vars \/ Rest
  BY <1>1 DEF vars, Rest, TypeInv, Early
<1>2. CASE Close
  <2>1. UNCHANGED Early
    BY <1>2 DEF Close, Early
  <2>2. Cardinality(Early') = Cardinality(Early)
    BY <2>1
  <2>3. dirty' \in [Connections -> SUBSET Writers]
    BY <1>2 DEF Close, TypeInv
  <2>4. conn' \in 0..opened' /\ open' \subseteq 1..opened'
    BY <1>2 DEF Close, TypeInv, None
  <2>. QED  BY <1>2, <2>2, <2>3, <2>4 DEF Close, TypeInv
<1>3. ASSUME NEW c \in Callers, StepOf(c)
      PROVE  TypeInv'
  <2>1. PICK phase \in Phases : /\ pc' = [pc EXCEPT ![c] = phase]
                                /\ phase # "idle"
                                /\ phase = "connect" => pc[c] = "idle"
    BY <1>3, CallersMove
  <2>2. pc' \in [Callers -> Phases] /\ Early' \subseteq Early
    BY <2>1 DEF TypeInv, Early
  <2>3. Cardinality(Early') \in Nat /\ Cardinality(Early') <= Cardinality(Early)
    BY <2>2, EarlyShrinks
  <2>4. opened + Cardinality(Early') <= Cardinality(Callers)
    BY <2>3, Counts DEF TypeInv
  <2>5. Returned \subseteq Writers
    BY DEF Returned
  <2>6. \A k \in 1..opened : k \in Connections
    BY Counts DEF TypeInv
  <2>7. CASE Connect(c)
    <3>1. opened' + Cardinality(Early') <= Cardinality(Callers)
      BY <2>7, ConnectCounts DEF Connect
    <3>. QED  BY <2>2, <2>7, <3>1 DEF Connect, TypeInv
  <2>8. CASE FindConnection(c) \/ FindNone(c)
    BY <2>2, <2>4, <2>5, <2>8 DEF FindConnection, FindNone, TypeInv
  <2>9. CASE CreateTable(c)
    <3>1. conn \in 1..opened /\ conn \in Connections
      BY <2>6, <2>9 DEF CreateTable, TypeInv, None
    <3>. QED  BY <2>2, <2>4, <2>9, <3>1 DEF CreateTable, TypeInv
  <2>10. CASE Insert(c) \/ Commit(c) \/ Select(c)
    <3>1. uses[c] \in Connections
      BY <2>6, <2>10 DEF Insert, Commit, Select, Closed, TypeInv
    <3>2. dirty[uses[c]] \subseteq Writers
      BY <3>1 DEF TypeInv
    <3>3. CASE Insert(c)
      BY <2>2, <2>4, <3>1, <3>2, <3>3 DEF Insert, TypeInv
    <3>4. CASE Commit(c)
      BY <2>2, <2>4, <3>1, <3>2, <3>4 DEF Commit, TypeInv
    <3>5. CASE Select(c)
      BY <2>2, <2>4, <3>1, <3>5 DEF Select, TypeInv
    <3>. QED  BY <2>10, <3>3, <3>4, <3>5
  <2>11. CASE CreateOnNone(c) \/ FindClosed(c) \/ Fail(c)
    <3>1. CASE CreateOnNone(c)
      BY <2>2, <2>4, <3>1 DEF CreateOnNone, TypeInv
    <3>2. CASE FindClosed(c)
      BY <2>2, <2>4, <3>2 DEF FindClosed, TypeInv
    <3>3. CASE Fail(c)
      BY <2>2, <2>4, <3>3 DEF Fail, TypeInv
    <3>. QED  BY <2>11, <3>1, <3>2, <3>3
  <2>. QED  BY <1>3, <2>7, <2>8, <2>9, <2>10, <2>11 DEF StepOf, Step
<1>. QED  BY <1>1, <1>2, <1>3 DEF Next, StepOf
-----------------------------------------------------------------------------
(* A connection that was closed under a call is not opened again. *)
LEMMA ClosedStaysClosed ==
    ASSUME TypeInv, [Next]_vars, NEW w \in Callers, pc[w] = "commit", pc'[w] = "commit", Closed(w)
    PROVE  Closed(w)'
PROOF
<1>1. uses'[w] = uses[w]
  BY DEF TypeInv, Next, vars, Rest, Close, Step, FindConnection, FindNone, Connect, CreateTable,
         CreateOnNone, Insert, Commit, Select, FindClosed, Fail
<1>2. open' \subseteq open \cup {opened + 1}
  BY DEF TypeInv, Next, vars, Rest, Close, Step, FindConnection, FindNone, Connect, CreateTable,
         CreateOnNone, Insert, Commit, Select, FindClosed, Fail
<1>3. uses[w] \in 0..opened /\ opened \in Nat
  BY DEF TypeInv
<1>. QED  BY <1>1, <1>2, <1>3 DEF Closed

(* Rows that are committed stay. *)
LEMMA RowsStay ==
    ASSUME [Next]_vars
    PROVE  rows \subseteq rows'
PROOF BY DEF Next, vars, Rest, Close, Step, FindConnection, FindNone, Connect, CreateTable,
             CreateOnNone, Insert, Commit, Select, FindClosed, Fail

(* What a connection has not committed yet stays, is committed or is rolled
   back by closing the connection. *)
LEMMA DirtyStays ==
    ASSUME TypeInv, [Next]_vars, NEW k \in Connections
    PROVE  dirty[k] \subseteq dirty'[k] \/ dirty[k] \subseteq rows' \/ k \notin open'
PROOF
<1>1. CASE Close
  BY <1>1 DEF Close, TypeInv
<1>2. ASSUME NEW c \in Callers, CreateTable(c)
      PROVE  dirty[k] \subseteq dirty'[k] \/ dirty[k] \subseteq rows'
  BY <1>2 DEF CreateTable, TypeInv
<1>3. ASSUME NEW c \in Callers, Insert(c)
      PROVE  dirty[k] \subseteq dirty'[k]
  BY <1>3 DEF Insert, TypeInv
<1>4. ASSUME NEW c \in Callers, Commit(c)
      PROVE  dirty[k] \subseteq dirty'[k] \/ dirty[k] \subseteq rows'
  BY <1>4 DEF Commit, TypeInv
<1>. QED  BY <1>1, <1>2, <1>3, <1>4 DEF Next, vars, Rest, Step, FindConnection, FindNone,
             Connect, CreateOnNone, Select, FindClosed, Fail

(* Only the caller itself leaves or enters its commit. *)
LEMMA OwnPhase ==
    ASSUME TypeInv, [Next]_vars, NEW w \in Callers, pc'[w] # pc[w]
    PROVE  StepOf(w)
PROOF
<1>1. \E c \in Callers : StepOf(c)
  BY DEF Next, vars, Rest, Close, StepOf
<1>. QED  BY <1>1, CallersMove DEF TypeInv

LEMMA StepKeepsRows ==
    ASSUME StoreInv, [Next]_vars, TypeInv', NEW w \in Writers
    PROVE  RowIsKept(w)'
PROOF
<1>0. TypeInv /\ RowIsKept(w) /\ w \in Callers
  BY DEF StoreInv, Callers
<1>1. rows \subseteq rows'
  BY RowsStay
<1>2. CASE pc'[w] = pc[w]
  <2>1. ASSUME pc[w] = "commit"
        PROVE  w \in rows' \/ Closed(w)' \/ w \in dirty'[uses'[w]]
    <3>1. CASE w \in rows
      BY <1>1, <3>1
    <3>2. CASE Closed(w)
      BY <1>0, <1>2, <2>1, <3>2, ClosedStaysClosed
    <3>3. CASE ~Closed(w) /\ w \in dirty[uses[w]]
      <4>1. uses[w] \in Connections
        BY <1>0, <3>3, Counts DEF TypeInv, Closed
      <4>2. uses'[w] = uses[w]
        BY <1>0, <1>2, <2>1
           DEF TypeInv, Next, vars, Rest, Close, Step, FindConnection, FindNone, Connect,
               CreateTable, CreateOnNone, Insert, Commit, Select, FindClosed, Fail
      <4>. QED  BY <1>0, <3>3, <4>1, <4>2, DirtyStays DEF Closed
    <3>. QED  BY <1>0, <2>1, <3>1, <3>2, <3>3 DEF RowIsKept
  <2>. QED  BY <1>0, <1>1, <1>2, <2>1 DEF RowIsKept
<1>3. CASE pc'[w] # pc[w]
  <2>1. StepOf(w)
    BY <1>0, <1>3, OwnPhase
  <2>2. CASE Insert(w)
    <3>1. uses[w] \in Connections
      BY <1>0, <2>2, Counts DEF TypeInv, Closed, Insert
    <3>. QED  BY <1>0, <2>2, <3>1 DEF Insert, Goto, TypeInv, RowIsKept
  <2>3. CASE Commit(w)
    BY <1>0, <2>3 DEF Commit, Goto, TypeInv, RowIsKept
  <2>4. CASE ~(Insert(w) \/ Commit(w))
    <3>1. pc'[w] \notin {"commit", "done"} \/ w \in Readers
      BY <1>0, <2>1, <2>4
         DEF StepOf, Step, FindConnection, FindNone, Connect, CreateTable, CreateOnNone,
             Select, FindClosed, Fail, Goto, TypeInv
    <3>. QED  BY <3>1, CallersAreDistinct DEF RowIsKept
  <2>. QED  BY <2>2, <2>3, <2>4
<1>. QED  BY <1>2, <1>3

LEMMA StepKeepsAnswers ==
    ASSUME StoreInv, [Next]_vars, NEW r \in Callers
    PROVE  AnswerIsFull(r)'
PROOF
<1>0. TypeInv /\ AnswerIsFull(r) /\ rows \subseteq rows'
  BY RowsStay DEF StoreInv
<1>1. Returned \subseteq rows
  BY DEF StoreInv, RowIsKept, Returned
<1>2. ASSUME NEW c \in Callers, Select(c)
      PROVE  AnswerIsFull(r)'
  BY <1>0, <1>2 DEF Select, Goto, TypeInv, AnswerIsFull
<1>3. ASSUME NEW c \in Callers, FindConnection(c) \/ FindNone(c)
      PROVE  AnswerIsFull(r)'
  BY <1>0, <1>1, <1>3 DEF FindConnection, FindNone, Goto, TypeInv, AnswerIsFull
<1>4. ASSUME NEW c \in Callers, Insert(c) \/ Commit(c)
      PROVE  AnswerIsFull(r)'
  BY <1>0, <1>4, CallersAreDistinct DEF Insert, Commit, Goto, TypeInv, AnswerIsFull
<1>5. ASSUME NEW c \in Callers,
             Connect(c) \/ CreateTable(c) \/ CreateOnNone(c) \/ FindClosed(c) \/ Fail(c)
      PROVE  AnswerIsFull(r)'
  BY <1>0, <1>5 DEF Connect, CreateTable, CreateOnNone, FindClosed, Fail, Goto, TypeInv,
                    AnswerIsFull
<1>6. CASE Close \/ Rest \/ UNCHANGED vars
  BY <1>0, <1>6 DEF Close, Rest, vars, AnswerIsFull
<1>. QED  BY <1>2, <1>3, <1>4, <1>5, <1>6 DEF Next, Step

LEMMA StoreKeeps ==
    /\ Init => StoreInv
    /\ StoreInv /\ [Next]_vars => StoreInv'
PROOF
<1>1. Init => StoreInv
  BY InitTypes DEF Init, StoreInv, RowIsKept, AnswerIsFull, Callers
<1>2. ASSUME StoreInv, [Next]_vars PROVE StoreInv'
  <2>1. TypeInv'
    BY <1>2, StepTypes DEF StoreInv
  <2>2. \A w \in Writers : RowIsKept(w)'
    BY <1>2, <2>1, StepKeepsRows
  <2>3. \A r \in Callers : AnswerIsFull(r)'
    BY <1>2, StepKeepsAnswers
  <2>. QED  BY <2>1, <2>2, <2>3 DEF StoreInv
<1>. QED  BY <1>1, <1>2
-----------------------------------------------------------------------------
(* Whatever the first calls race for, whichever calls fail and whenever the
   store is closed, a write that has returned is in the file. *)
THEOREM ReturnedIsDurable == Spec => []ReturnedMeansDurable
PROOF
<1>1. StoreInv => ReturnedMeansDurable
  BY DEF StoreInv, RowIsKept, ReturnedMeansDurable, Returned
<1>. QED  BY <1>1, StoreKeeps, PTL DEF Spec

(* A query sees every write that had returned when it began, although it may
   run on a connection other than the writer's. *)
THEOREM QueriesSeeTheFile == Spec => []QueriesSeeReturned
PROOF
<1>1. StoreInv => QueriesSeeReturned
  BY DEF StoreInv, AnswerIsFull, QueriesSeeReturned, Callers
<1>. QED  BY <1>1, StoreKeeps, PTL DEF Spec
=============================================================================
