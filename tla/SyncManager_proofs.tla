-------------------------- MODULE SyncManager_proofs --------------------------
(***************************************************************************)
(* Callers in threads of their own change the store one after the other,   *)
(* and none is told that its change is done before the change has left the *)
(* locks: for any number of threads, with and without the thread lock, and *)
(* whether or not the facade is closed meanwhile.                          *)
(*                                                                         *)
(* The argument follows a call through the loop.  It is in one place at a  *)
(* time: in the loop's queue, in the queue of the asyncio lock, or past    *)
(* them and between its locks; and a caller that is outside is in none.    *)
(* The queues hold nobody twice, which is why leaving one leaves it.       *)
(***************************************************************************)
EXTENDS SyncManager, TLAPS

TypeInv ==
    /\ calls \in Nat
    /\ caller \in [Callers -> {"outside", "reads", "changes"}]
    /\ closer \in {"outside", "joins", "returned"}
    /\ loop \in {"runs", "stops", "blocked", "ended", "closed"}
    /\ ready \in Seq(Callers \cup {Closer})
    /\ task \in [Callers -> {"none", "waits", "awaits"}]
    /\ waiters \in Seq(Callers)
    /\ lock \in Callers \cup {Nobody}
    /\ threadLock \in Callers \cup {Nobody, NoLock}

Holds(queue, c) == \E i \in DOMAIN queue : queue[i] = c

Once(queue, c) == \A i, j \in DOMAIN queue : queue[i] = c /\ queue[j] = c => i = j

(* Where caller c's call is. *)
InOnePlace(c) ==
    /\ Once(ready, c) /\ Once(waiters, c)
    /\ Holds(ready, c) => caller[c] # "outside" /\ task[c] = "none"
    /\ Holds(waiters, c) <=> task[c] = "waits"
    /\ lock = c <=> task[c] = "awaits" /\ caller[c] = "changes"
    /\ task[c] = "waits" => caller[c] = "changes"
    /\ threadLock = c => caller[c] = "changes" /\ task[c] # "none"
    /\ caller[c] = "outside" => task[c] = "none"

SerialInv == TypeInv /\ \A c \in Callers : InOnePlace(c)

StepOf(c) == Call(c) \/ Serve(c) \/ Finish(c)

Shutdown == Close \/ StopLoop \/ EndLoop \/ Joined
-----------------------------------------------------------------------------
(* Joining a queue. *)
LEMMA AppendHolds ==
    ASSUME NEW S, NEW queue \in Seq(S), NEW e \in S, NEW c
    PROVE  /\ Append(queue, e) \in Seq(S)
           /\ Holds(Append(queue, e), c) <=> Holds(queue, c) \/ e = c
           /\ Once(queue, c) /\ (e = c => ~Holds(queue, c)) => Once(Append(queue, e), c)
PROOF
<1>. DEFINE longer == Append(queue, e)
            n == Len(queue)
<1>1. n \in Nat /\ DOMAIN queue = 1..n
  OBVIOUS
<1>2. longer \in Seq(S) /\ DOMAIN longer = 1..(n + 1)
  OBVIOUS
<1>3. longer[n + 1] = e /\ \A i \in 1..n : longer[i] = queue[i]
  OBVIOUS
<1>. HIDE DEF longer, n
<1>4. 1..(n + 1) = (1..n) \cup {n + 1}
  BY <1>1
<1>5. Holds(longer, c) <=> Holds(queue, c) \/ e = c
  BY <1>1, <1>2, <1>3, <1>4 DEF Holds
<1>6. ASSUME Once(queue, c), e = c => ~Holds(queue, c)
      PROVE  Once(longer, c)
  BY <1>1, <1>2, <1>3, <1>4, <1>6 DEF Once, Holds
<1>. QED  BY <1>2, <1>5, <1>6 DEF longer

(* Leaving a queue at its head. *)
LEMMA TailHolds ==
    ASSUME NEW S, NEW queue \in Seq(S), queue # << >>, NEW c, Once(queue, c)
    PROVE  /\ Tail(queue) \in Seq(S)
           /\ Once(Tail(queue), c)
           /\ Holds(Tail(queue), c) <=> Holds(queue, c) /\ Head(queue) # c
PROOF
<1>. DEFINE shorter == Tail(queue)
            n == Len(queue) - 1
<1>1. n \in Nat /\ DOMAIN queue = 1..(n + 1) /\ Head(queue) = queue[1]
  OBVIOUS
<1>2. shorter \in Seq(S) /\ DOMAIN shorter = 1..n
  OBVIOUS
<1>3. \A i \in 1..n : shorter[i] = queue[i + 1]
  OBVIOUS
<1>. HIDE DEF shorter, n
<1>4. ASSUME NEW i \in 1..n, NEW j \in 1..n, shorter[i] = c, shorter[j] = c
      PROVE  i = j
  <2>1. i + 1 \in DOMAIN queue /\ j + 1 \in DOMAIN queue
    BY <1>1
  <2>2. i + 1 = j + 1
    BY <1>3, <1>4, <2>1 DEF Once
  <2>. QED  BY <1>1, <2>2
<1>5. ASSUME Holds(shorter, c)
      PROVE  Holds(queue, c) /\ Head(queue) # c
  <2>1. PICK i \in 1..n : shorter[i] = c
    BY <1>2, <1>5 DEF Holds
  <2>2. i + 1 \in 1..(n + 1) /\ queue[i + 1] = c /\ i + 1 # 1 /\ 1 \in 1..(n + 1)
    BY <1>1, <1>3, <2>1
  <2>. QED  BY <1>1, <2>2 DEF Holds, Once
<1>6. ASSUME Holds(queue, c), Head(queue) # c
      PROVE  Holds(shorter, c)
  <2>1. PICK i \in 1..(n + 1) : queue[i] = c
    BY <1>1, <1>6 DEF Holds
  <2>2. i - 1 \in 1..n /\ (i - 1) + 1 = i
    BY <1>1, <1>6, <2>1
  <2>. QED  BY <1>2, <1>3, <2>1, <2>2 DEF Holds
<1>. QED  BY <1>2, <1>4, <1>5, <1>6 DEF shorter, Once
-----------------------------------------------------------------------------
(* The loop takes c's coroutine: it is in no queue any more. *)
LEMMA Taken ==
    ASSUME SerialInv, NEW c \in Callers, Takes(c)
    PROVE  /\ ready' \in Seq(Callers \cup {Closer})
           /\ \A d \in Callers : Once(ready', d) /\ (Holds(ready', d) => Holds(ready, d))
           /\ ~Holds(ready', c)
           /\ caller[c] # "outside" /\ task[c] = "none"
           /\ ~Holds(waiters, c) /\ lock # c /\ threadLock # c
PROOF
<1>1. /\ ready \in Seq(Callers \cup {Closer}) /\ ready # << >>
      /\ Head(ready) = c /\ ready' = Tail(ready)
  BY DEF SerialInv, TypeInv, Takes
<1>2. \A d \in Callers : Once(ready, d)
  BY DEF SerialInv, InOnePlace
<1>3. Holds(ready, c)
  <2>1. 1 \in DOMAIN ready /\ ready[1] = c
    BY <1>1
  <2>. QED  BY <2>1 DEF Holds
<1>4. caller[c] # "outside" /\ task[c] = "none"
  BY <1>3 DEF SerialInv, InOnePlace
<1>5. ~Holds(waiters, c) /\ lock # c /\ threadLock # c
  BY <1>4 DEF SerialInv, InOnePlace
<1>6. ready' \in Seq(Callers \cup {Closer}) /\ ~Holds(ready', c)
  BY <1>1, <1>2, TailHolds
<1>7. ASSUME NEW d \in Callers
      PROVE  Once(ready', d) /\ (Holds(ready', d) => Holds(ready, d))
  BY <1>1, <1>2, TailHolds
<1>. QED  BY <1>4, <1>5, <1>6, <1>7

(* Nobody else's call moves. *)
LEMMA OthersStay ==
    ASSUME SerialInv, NEW d \in Callers,
           caller'[d] = caller[d], task'[d] = task[d],
           Once(ready', d), Holds(ready', d) => Holds(ready, d),
           Once(waiters', d), Holds(waiters', d) <=> Holds(waiters, d),
           lock' = d <=> lock = d, threadLock' = d => threadLock = d
    PROVE  InOnePlace(d)'
PROOF BY DEF SerialInv, InOnePlace

LEMMA InitSerial == Init => SerialInv
PROOF
<1>. SUFFICES ASSUME Init PROVE SerialInv
  OBVIOUS
<1>1. TypeInv
  BY DEF Init, TypeInv
<1>2. ASSUME NEW c \in Callers PROVE InOnePlace(c)
  <2>1. c # Nobody /\ c # NoLock
    BY ThreadsAreDistinct
  <2>2. DOMAIN ready = {} /\ DOMAIN waiters = {}
    BY DEF Init
  <2>3. lock # c /\ threadLock # c /\ task[c] = "none"
    BY <2>1 DEF Init
  <2>. QED  BY <2>2, <2>3 DEF InOnePlace, Once, Holds
<1>. QED  BY <1>1, <1>2 DEF SerialInv
-----------------------------------------------------------------------------
LEMMA CallKeeps ==
    ASSUME SerialInv, NEW c \in Callers, Call(c)
    PROVE  SerialInv'
PROOF
<1>0. /\ calls \in Nat /\ ready \in Seq(Callers \cup {Closer})
      /\ c \in Callers \cup {Closer}
      /\ caller[c] = "outside" /\ UNCHANGED <<task, waiters, lock, threadLock>>
  BY DEF SerialInv, TypeInv, Call, locks
<1>1. CASE UNCHANGED <<caller, ready>>
  BY <1>0, <1>1 DEF Call, locks, SerialInv, TypeInv, InOnePlace
<1>2. ASSUME NEW kind \in {"reads", "changes"}, caller' = [caller EXCEPT ![c] = kind],
             ready' = Append(ready, c)
      PROVE  SerialInv'
  <2>1. ~Holds(ready, c) /\ task[c] = "none" /\ lock # c /\ threadLock # c /\ ~Holds(waiters, c)
    BY <1>0 DEF SerialInv, InOnePlace
  <2>2. ready' \in Seq(Callers \cup {Closer})
    BY <1>0, <1>2, AppendHolds
  <2>3. caller' \in [Callers -> {"outside", "reads", "changes"}] /\ caller'[c] = kind
    BY <1>2 DEF SerialInv, TypeInv
  <2>4. TypeInv'
    BY <1>0, <2>2, <2>3 DEF Call, locks, SerialInv, TypeInv
  <2>5. ASSUME NEW d \in Callers
        PROVE  Once(ready', d) /\ (Holds(ready', d) <=> Holds(ready, d) \/ c = d)
    <3>1. Once(ready, d)
      BY DEF SerialInv, InOnePlace
    <3>. QED  BY <1>0, <1>2, <2>1, <3>1, AppendHolds
  <2>6. ASSUME NEW d \in Callers, d # c PROVE InOnePlace(d)'
    <3>1. caller'[d] = caller[d] /\ task'[d] = task[d]
      BY <1>0, <1>2, <2>6 DEF SerialInv, TypeInv
    <3>2. Once(waiters', d)
      BY <1>0 DEF SerialInv, InOnePlace
    <3>. QED  BY <1>0, <2>5, <2>6, <3>1, <3>2, OthersStay
  <2>7. InOnePlace(c)'
    <3>1. Once(waiters', c)
      BY <1>0 DEF SerialInv, InOnePlace
    <3>. QED  BY <1>0, <2>1, <2>3, <2>5, <3>1 DEF InOnePlace
  <2>. QED  BY <2>4, <2>6, <2>7 DEF SerialInv
<1>. QED  BY <1>1, <1>2 DEF Call

LEMMA StartReadingKeeps ==
    ASSUME SerialInv, NEW c \in Callers, StartReading(c)
    PROVE  SerialInv'
PROOF
<1>0. Takes(c) /\ caller[c] = "reads" /\ UNCHANGED <<caller, waiters, lock, threadLock>>
  BY DEF StartReading, locks
<1>1. task' \in [Callers -> {"none", "waits", "awaits"}] /\ task'[c] = "awaits"
  BY DEF StartReading, SerialInv, TypeInv
<1>2. TypeInv'
  BY <1>0, <1>1, Taken DEF StartReading, locks, SerialInv, TypeInv
<1>3. \A d \in Callers : Once(waiters', d)
  BY <1>0 DEF SerialInv, InOnePlace
<1>4. ASSUME NEW d \in Callers, d # c PROVE InOnePlace(d)'
  <2>1. task'[d] = task[d]
    BY <1>4 DEF StartReading, SerialInv, TypeInv
  <2>. QED  BY <1>0, <1>3, <1>4, <2>1, Taken, OthersStay
<1>5. InOnePlace(c)'
  BY <1>0, <1>1, <1>3, Taken DEF InOnePlace
<1>. QED  BY <1>2, <1>4, <1>5 DEF SerialInv

LEMMA StartChangingKeeps ==
    ASSUME SerialInv, NEW c \in Callers, StartChanging(c)
    PROVE  SerialInv'
PROOF
<1>0. /\ Takes(c) /\ caller[c] = "changes" /\ UNCHANGED caller
      /\ threadLock \notin Callers /\ threadLock' \in {NoLock, c}
      /\ threadLock' = NoLock => threadLock = NoLock
  BY ThreadsAreDistinct DEF StartChanging
<1>1. waiters \in Seq(Callers) /\ \A d \in Callers : Once(waiters, d)
  BY DEF SerialInv, TypeInv, InOnePlace
<1>2. CASE /\ lock = Nobody /\ lock' = c /\ UNCHANGED waiters
           /\ task' = [task EXCEPT ![c] = "awaits"]
  <2>1. task' \in [Callers -> {"none", "waits", "awaits"}] /\ task'[c] = "awaits"
    BY <1>2 DEF SerialInv, TypeInv
  <2>2. TypeInv'
    BY <1>0, <1>2, <2>1, Taken DEF StartChanging, SerialInv, TypeInv
  <2>3. ASSUME NEW d \in Callers, d # c PROVE InOnePlace(d)'
    <3>1. task'[d] = task[d]
      BY <1>2, <2>3 DEF SerialInv, TypeInv
    <3>2. lock # d /\ lock' # d /\ threadLock' # d
      BY <1>0, <1>2, <2>3, ThreadsAreDistinct
    <3>. QED  BY <1>0, <1>1, <1>2, <2>3, <3>1, <3>2, Taken, OthersStay
  <2>4. InOnePlace(c)'
    BY <1>0, <1>1, <1>2, <2>1, Taken DEF InOnePlace
  <2>. QED  BY <2>2, <2>3, <2>4 DEF SerialInv
<1>3. CASE waiters' = Append(waiters, c) /\ task' = [task EXCEPT ![c] = "waits"] /\ UNCHANGED lock
  <2>1. task' \in [Callers -> {"none", "waits", "awaits"}] /\ task'[c] = "waits"
    BY <1>3 DEF SerialInv, TypeInv
  <2>2. ~Holds(waiters, c) /\ lock # c
    BY <1>0, Taken
  <2>3. /\ waiters' \in Seq(Callers)
        /\ \A d \in Callers : /\ Once(waiters', d)
                              /\ Holds(waiters', d) <=> Holds(waiters, d) \/ c = d
    BY <1>1, <1>3, <2>2, AppendHolds
  <2>4. TypeInv'
    BY <1>0, <1>3, <2>1, <2>3, Taken DEF StartChanging, SerialInv, TypeInv
  <2>5. ASSUME NEW d \in Callers, d # c PROVE InOnePlace(d)'
    <3>1. task'[d] = task[d]
      BY <1>3, <2>5 DEF SerialInv, TypeInv
    <3>2. threadLock' # d
      BY <1>0, <2>5, ThreadsAreDistinct
    <3>. QED  BY <1>0, <1>3, <2>3, <2>5, <3>1, <3>2, Taken, OthersStay
  <2>6. InOnePlace(c)'
    BY <1>0, <1>3, <2>1, <2>2, <2>3, Taken DEF InOnePlace
  <2>. QED  BY <2>4, <2>5, <2>6 DEF SerialInv
<1>. QED  BY <1>2, <1>3 DEF StartChanging

LEMMA BlockKeeps ==
    ASSUME SerialInv, NEW c \in Callers, Block(c)
    PROVE  SerialInv'
PROOF
<1>0. Takes(c) /\ UNCHANGED <<caller, task, waiters, lock, threadLock>>
  BY DEF Block, locks
<1>1. TypeInv'
  BY <1>0, Taken DEF Block, SerialInv, TypeInv
<1>2. ASSUME NEW d \in Callers PROVE InOnePlace(d)'
  <2>1. Once(waiters', d)
    BY <1>0 DEF SerialInv, InOnePlace
  <2>. QED  BY <1>0, <2>1, Taken, OthersStay
<1>. QED  BY <1>1, <1>2 DEF SerialInv

LEMMA WakeKeeps ==
    ASSUME SerialInv, NEW c \in Callers, Wake(c)
    PROVE  SerialInv'
PROOF
<1>0. /\ lock = Nobody /\ waiters # << >> /\ Head(waiters) = c
      /\ lock' = c /\ waiters' = Tail(waiters)
      /\ UNCHANGED <<caller, ready, threadLock>>
  BY DEF Wake
<1>1. waiters \in Seq(Callers) /\ \A d \in Callers : Once(waiters, d) /\ Once(ready, d)
  BY DEF SerialInv, TypeInv, InOnePlace
<1>2. task' \in [Callers -> {"none", "waits", "awaits"}] /\ task'[c] = "awaits"
  BY DEF Wake, SerialInv, TypeInv
<1>3. /\ waiters' \in Seq(Callers)
      /\ \A d \in Callers : Once(waiters', d) /\ (Holds(waiters', d) <=> Holds(waiters, d) /\ c # d)
  BY <1>0, <1>1, TailHolds
<1>4. Holds(waiters, c)
  <2>1. 1 \in DOMAIN waiters /\ waiters[1] = c
    BY <1>0, <1>1
  <2>. QED  BY <2>1 DEF Holds
<1>5. task[c] = "waits" /\ caller[c] = "changes" /\ ~Holds(ready, c)
  BY <1>4 DEF SerialInv, InOnePlace
<1>6. TypeInv'
  BY <1>0, <1>2, <1>3 DEF Wake, SerialInv, TypeInv
<1>7. ASSUME NEW d \in Callers, d # c PROVE InOnePlace(d)'
  <2>1. task'[d] = task[d] /\ lock # d /\ lock' # d
    BY <1>0, <1>7, ThreadsAreDistinct DEF Wake, SerialInv, TypeInv
  <2>. QED  BY <1>0, <1>1, <1>3, <1>7, <2>1, OthersStay
<1>8. InOnePlace(c)'
  BY <1>0, <1>1, <1>2, <1>3, <1>5 DEF InOnePlace
<1>. QED  BY <1>6, <1>7, <1>8 DEF SerialInv

LEMMA FinishKeeps ==
    ASSUME SerialInv, NEW c \in Callers, Finish(c)
    PROVE  SerialInv'
PROOF
<1>0. /\ task[c] = "awaits" /\ UNCHANGED <<ready, waiters>>
      /\ lock' = IF lock = c THEN Nobody ELSE lock
      /\ threadLock' = IF threadLock = c THEN Nobody ELSE threadLock
  BY DEF Finish
<1>1. /\ task' \in [Callers -> {"none", "waits", "awaits"}] /\ task'[c] = "none"
      /\ caller' \in [Callers -> {"outside", "reads", "changes"}] /\ caller'[c] = "outside"
  BY DEF Finish, SerialInv, TypeInv
<1>2. c # Nobody /\ \A d \in Callers : d # Nobody
  BY ThreadsAreDistinct
<1>3. \A d \in Callers : Once(ready, d) /\ Once(waiters, d)
  BY DEF SerialInv, InOnePlace
<1>4. ~Holds(ready, c) /\ ~Holds(waiters, c)
  BY <1>0 DEF SerialInv, InOnePlace
<1>5. TypeInv'
  BY <1>0, <1>1 DEF Finish, SerialInv, TypeInv
<1>6. ASSUME NEW d \in Callers, d # c PROVE InOnePlace(d)'
  <2>1. task'[d] = task[d] /\ caller'[d] = caller[d]
    BY <1>6 DEF Finish, SerialInv, TypeInv
  <2>2. (lock' = d <=> lock = d) /\ (threadLock' = d => threadLock = d)
    BY <1>0, <1>2, <1>6
  <2>. QED  BY <1>0, <1>3, <1>6, <2>1, <2>2, OthersStay
<1>7. InOnePlace(c)'
  BY <1>0, <1>1, <1>2, <1>3, <1>4 DEF InOnePlace
<1>. QED  BY <1>5, <1>6, <1>7 DEF SerialInv

(* close() adds its stop to the queue and touches no call. *)
LEMMA ShutdownKeeps ==
    ASSUME SerialInv, Shutdown
    PROVE  SerialInv'
PROOF
<1>0. UNCHANGED <<calls, caller, task, waiters, lock, threadLock>>
  BY DEF Shutdown, Close, StopLoop, EndLoop, Joined, locks
<1>1. ready \in Seq(Callers \cup {Closer}) /\ Closer \in Callers \cup {Closer}
  BY DEF SerialInv, TypeInv
<1>2. \A d \in Callers : Once(ready, d) /\ Once(waiters, d) /\ d # Closer
  BY ThreadsAreDistinct DEF SerialInv, InOnePlace
<1>3. /\ ready' \in Seq(Callers \cup {Closer})
      /\ \A d \in Callers : Once(ready', d) /\ (Holds(ready', d) => Holds(ready, d))
  <2>1. CASE ready' = Append(ready, Closer)
    BY <1>1, <1>2, <2>1, AppendHolds
  <2>2. CASE ready # << >> /\ ready' = Tail(ready)
    BY <1>1, <1>2, <2>2, TailHolds
  <2>3. CASE ready' = ready
    BY <1>1, <1>2, <2>3
  <2>. QED  BY <2>1, <2>2, <2>3 DEF Shutdown, Close, StopLoop, EndLoop, Joined, Takes
<1>4. TypeInv'
  BY <1>0, <1>3 DEF Shutdown, Close, StopLoop, EndLoop, Joined, SerialInv, TypeInv
<1>5. ASSUME NEW d \in Callers PROVE InOnePlace(d)'
  BY <1>0, <1>2, <1>3, OthersStay
<1>. QED  BY <1>4, <1>5 DEF SerialInv

LEMMA StepSerial == SerialInv /\ [Next]_vars => SerialInv'
PROOF
<1>. SUFFICES ASSUME SerialInv, [Next]_vars PROVE SerialInv'
  OBVIOUS
<1>1. CASE Rest \/ UNCHANGED vars
  BY <1>1 DEF Rest, vars, SerialInv, TypeInv, InOnePlace
<1>2. CASE Shutdown
  BY <1>2, ShutdownKeeps
<1>3. ASSUME NEW c \in Callers, StepOf(c)
      PROVE  SerialInv'
  BY <1>3, CallKeeps, StartReadingKeeps, StartChangingKeeps, BlockKeeps, WakeKeeps, FinishKeeps
     DEF StepOf, Serve
<1>. QED  BY <1>1, <1>2, <1>3 DEF Next, Shutdown, StepOf
-----------------------------------------------------------------------------
(* Tasks change the store one after the other, and a caller that is outside
   has left both locks, for any number of threads, with or without the thread
   lock, and even when the loop is blocked or closed under the calls. *)
THEOREM CallsAreSerial == Spec => []ChangesAreSerial
PROOF
<1>1. SerialInv => ChangesAreSerial
  BY DEF SerialInv, InOnePlace, ChangesAreSerial
<1>. QED  BY <1>1, InitSerial, StepSerial, PTL DEF Spec
=============================================================================
