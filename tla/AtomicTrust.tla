---------------------------- MODULE AtomicTrust ----------------------------
(***************************************************************************)
(* What a trust store shared by several callers promises: it is a map from *)
(* keys to records, and every change of it is one call applied to the      *)
(* record that is there at that moment.  A call that reads a record, lets  *)
(* somebody else change it and then writes what it computed from the old   *)
(* one is no step of this specification.                                   *)
(*                                                                         *)
(* The calls, what they admit and the record they leave are parameters, so *)
(* that the same promise can be asked of the manager and of a backend.     *)
(***************************************************************************)
CONSTANTS
    Keys,                   \* the ids records are stored under
    Calls,                  \* what callers may ask for
    Times,                  \* the timestamps a call may carry
    Absent,                 \* stands for "no record under this key"
    Permits(_, _, _, _),    \* Permits(c, k, r, ts): call c changes record r of key k
    Result(_, _, _, _)      \* Result(c, k, r, ts): the record it leaves, or Absent

VARIABLE store

(* The store of a new process is empty. *)
Init == store = [k \in Keys |-> Absent]

(* Call c takes effect on key k, on the record stored there now. *)
Perform(c, k) ==
    \E ts \in Times :
        /\ Permits(c, k, store[k], ts)
        /\ store' = [store EXCEPT ![k] = Result(c, k, store[k], ts)]

Next == \E c \in Calls, k \in Keys : Perform(c, k)

Spec == Init /\ [][Next]_store
=============================================================================
