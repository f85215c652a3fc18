---------------------------- MODULE SyncManager ----------------------------
(***************************************************************************)
(* manager/sync.py: threads call the manager through an event loop that    *)
(* runs in a thread of its own.                                            *)
(*                                                                         *)
(* A caller hands its coroutine to the loop and blocks until it is done.   *)
(* The loop runs one task at a time; a task gives way only where it awaits *)
(* the asyncio lock or the store.  A method of the manager that changes    *)
(* something enters the thread lock first (trust_manager.py:96-98), which  *)
(* is none unless thread_safe is set, and then the asyncio lock.  A        *)
(* threading.Lock is no awaitable: whoever waits for it stops his thread,  *)
(* here the one of the loop.                                               *)
(***************************************************************************)
EXTENDS Naturals, Sequences

CONSTANTS
    Callers,        \* threads that call the manager
    Closer,         \* the thread that closes the facade
    Nobody,         \* a lock is free
    NoLock,         \* nullcontext(), in place of the thread lock
    ThreadSafety,   \* the values of the constructor's thread_safe
    Closes,         \* whether close() is called
    MaxCalls        \* bound: calls of the facade

ASSUME ThreadsAreDistinct ==
    /\ Callers \cap {Closer, Nobody, NoLock} = {}
    /\ Nobody # NoLock

ASSUME SwitchesAreBoolean == ThreadSafety \subseteq BOOLEAN /\ Closes \in BOOLEAN

ASSUME MaxCallsIsNat == MaxCalls \in Nat

VARIABLES
    calls,      \* calls made so far
    caller,     \* "outside", or inside future.result(): "reads" or "changes"
    closer,     \* "outside", "joins" the loop's thread, or "returned"
    loop,       \* "runs", "stops" (loop.stop was called), "blocked", "ended", "closed"
    ready,      \* what the loop has to run: callers' coroutines, and Closer for stop
    task,       \* of each caller: "none", "waits" for the asyncio lock, or "awaits" the store
    waiters,    \* the queue of the asyncio lock
    lock,       \* holder of the asyncio lock
    threadLock  \* holder of the thread lock, or NoLock

vars == <<calls, caller, closer, loop, ready, task, waiters, lock, threadLock>>

locks == <<waiters, lock, threadLock>>

-----------------------------------------------------------------------------
(* run_coroutine_threadsafe, then future.result().  On a closed loop it
   raises RuntimeError. *)
Call(c) ==
    /\ caller[c] = "outside"
    /\ calls < MaxCalls
    /\ calls' = calls + 1
    /\ \/ /\ loop = "closed"
          /\ UNCHANGED <<caller, ready>>
       \/ /\ loop # "closed"
          /\ \E kind \in {"reads", "changes"} : caller' = [caller EXCEPT ![c] = kind]
          /\ ready' = Append(ready, c)
    /\ UNCHANGED <<closer, loop, task, locks>>

(* The loop takes the next callback; a loop told to stop still finishes the
   round it is in. *)
Takes(c) == loop \in {"runs", "stops"} /\ ready # << >> /\ Head(ready) = c /\ ready' = Tail(ready)

(* A query awaits the store without any lock. *)
StartReading(c) ==
    /\ Takes(c)
    /\ caller[c] = "reads"
    /\ task' = [task EXCEPT ![c] = "awaits"]
    /\ UNCHANGED <<calls, caller, closer, loop, locks>>

(* Mutant: the change enters the thread lock only. *)
StartChangingUnlocked(c) ==
    /\ Takes(c)
    /\ caller[c] = "changes"
    /\ threadLock \notin Callers
    /\ threadLock' = IF threadLock = NoLock THEN NoLock ELSE c
    /\ task' = [task EXCEPT ![c] = "awaits"]
    /\ UNCHANGED <<calls, caller, closer, loop, lock, waiters>>

(* A change enters the locks. *)
StartChanging(c) ==
    /\ Takes(c)
    /\ caller[c] = "changes"
    /\ threadLock \notin Callers
    /\ threadLock' = IF threadLock = NoLock THEN NoLock ELSE c
    /\ \/ /\ lock = Nobody /\ waiters = << >>
          /\ lock' = c
          /\ task' = [task EXCEPT ![c] = "awaits"]
          /\ UNCHANGED waiters
       \/ /\ lock # Nobody \/ waiters # << >>
          /\ waiters' = Append(waiters, c)
          /\ task' = [task EXCEPT ![c] = "waits"]
          /\ UNCHANGED lock
    /\ UNCHANGED <<calls, caller, closer, loop>>

(* threading.Lock.acquire of a lock that another task of this loop holds. *)
Block(c) ==
    /\ Takes(c)
    /\ caller[c] = "changes"
    /\ threadLock \in Callers
    /\ loop' = "blocked"
    /\ UNCHANGED <<calls, caller, closer, task, locks>>

(* The longest waiting task gets the asyncio lock. *)
Wake(c) ==
    /\ loop \in {"runs", "stops"}
    /\ lock = Nobody /\ waiters # << >> /\ Head(waiters) = c
    /\ lock' = c
    /\ waiters' = Tail(waiters)
    /\ task' = [task EXCEPT ![c] = "awaits"]
    /\ UNCHANGED <<calls, caller, closer, loop, ready, threadLock>>

(* Mutant: a task that is done keeps the asyncio lock. *)
FinishKeepingLock(c) ==
    /\ loop \in {"runs", "stops"}
    /\ task[c] = "awaits"
    /\ task' = [task EXCEPT ![c] = "none"]
    /\ caller' = [caller EXCEPT ![c] = "outside"]
    /\ UNCHANGED <<calls, closer, loop, ready, locks>>

(* The store has answered: the task leaves the locks, its caller goes on. *)
Finish(c) ==
    /\ loop \in {"runs", "stops"}
    /\ task[c] = "awaits"
    /\ task' = [task EXCEPT ![c] = "none"]
    /\ caller' = [caller EXCEPT ![c] = "outside"]
    /\ lock' = IF lock = c THEN Nobody ELSE lock
    /\ threadLock' = IF threadLock = c THEN Nobody ELSE threadLock
    /\ UNCHANGED <<calls, closer, loop, ready, waiters>>

-----------------------------------------------------------------------------
(* close(): loop.call_soon_threadsafe(loop.stop), then thread.join. *)
Close ==
    /\ Closes
    /\ closer = "outside"
    /\ ready' = Append(ready, Closer)
    /\ closer' = "joins"
    /\ UNCHANGED <<calls, caller, loop, task, locks>>

StopLoop ==
    /\ Takes(Closer)
    /\ loop' = "stops"
    /\ UNCHANGED <<calls, caller, closer, task, locks>>

(* run_forever returns at the end of the round; the loop's thread ends. *)
EndLoop ==
    /\ loop = "stops"
    /\ loop' = "ended"
    /\ UNCHANGED <<calls, caller, closer, ready, task, locks>>

(* Mutant: join without a timeout. *)
JoinedOnly ==
    /\ closer = "joins"
    /\ loop = "ended" /\ loop' = "closed"
    /\ closer' = "returned"
    /\ UNCHANGED <<calls, caller, ready, task, locks>>

(* The thread has ended, or five seconds have passed; loop.close() discards
   what was left, or raises RuntimeError because the loop still runs. *)
Joined ==
    /\ closer = "joins"
    /\ \/ loop = "ended" /\ loop' = "closed"
       \/ loop # "ended" /\ UNCHANGED loop
    /\ closer' = "returned"
    /\ UNCHANGED <<calls, caller, ready, task, locks>>

(* Nobody is left to call: all calls are made, or every caller is inside one.
   Whether those inside return is a question of liveness, not of deadlock. *)
Rest ==
    /\ calls = MaxCalls \/ \A c \in Callers : caller[c] # "outside"
    /\ UNCHANGED vars

Init ==
    /\ calls = 0
    /\ caller = [c \in Callers |-> "outside"]
    /\ closer = "outside"
    /\ loop = "runs"
    /\ ready = << >>
    /\ task = [c \in Callers |-> "none"]
    /\ waiters = << >>
    /\ lock = Nobody
    /\ threadLock \in {IF safe THEN Nobody ELSE NoLock : safe \in ThreadSafety}

(* What the loop's thread does for a caller. *)
Serve(c) == StartReading(c) \/ StartChanging(c) \/ Block(c) \/ Wake(c)

Next ==
    \/ \E c \in Callers : Call(c) \/ Serve(c) \/ Finish(c)
    \/ Close \/ StopLoop \/ EndLoop \/ Joined
    \/ Rest

Spec == Init /\ [][Next]_vars

(* The loop's thread goes through what is ready and ends when told to, the
   store answers every task, and join has a timeout. *)
FairSpec ==
    /\ Spec
    /\ \A c \in Callers : WF_vars(Serve(c)) /\ WF_vars(Finish(c))
    /\ WF_vars(StopLoop) /\ WF_vars(EndLoop) /\ WF_vars(Joined)

-----------------------------------------------------------------------------
(* Without the thread lock every call of the facade returns, however many
   threads call, as long as it is not closed (sync.py:42-45). *)
CallsReturn ==
    \A c \in Callers :
        caller[c] # "outside" /\ threadLock = NoLock
            ~> caller[c] = "outside" \/ closer # "outside"

(* A call of the facade returns: _run blocks "until complete" (sync.py:43),
   and a manager made with thread_safe=True may be called from many threads
   (docs/dev_design.md:856). *)
EveryCallReturns == \A c \in Callers : caller[c] # "outside" ~> caller[c] = "outside"

(* close() returns, even when the loop's thread does not end any more. *)
CloseReturns == closer = "joins" ~> closer = "returned"

(* A task never changes the store while another one is between its locks, and
   a caller is never told that its change is done before the task has left
   them (sync.py:42-45). *)
ChangesAreSerial ==
    \A c, d \in Callers :
        /\ task[c] = "awaits" /\ caller[c] = "changes" => lock = c
        /\ caller[c] = "outside" => lock # c /\ threadLock # c /\ task[c] = "none"
=============================================================================
