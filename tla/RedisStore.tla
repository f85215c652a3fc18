----------------------------- MODULE RedisStore -----------------------------
(***************************************************************************)
(* storage/redis_store.py: one hash per agent, with the record and its     *)
(* version.                                                                *)
(*                                                                         *)
(* Every method is one command, one transaction or one Lua script on one   *)
(* key, so one step of the server; between two of them other clients work. *)
(* A client here is a caller of the store.  It reads a record, adds its    *)
(* contribution and writes it back, unconditionally as TrustManager does   *)
(* or with put_if_version, again and again while the version does not      *)
(* match (the loop of tests/storage/test_redis_store.py:100-111); or it    *)
(* deletes the record.  A record is the set of contributions it contains.  *)
(***************************************************************************)
EXTENDS Integers

CONSTANTS
    Clients,    \* callers of the store
    Agents,     \* the keys
    Job,        \* what each caller does, and to which agent
    NoHash,     \* the key is absent
    Fails       \* whether a command may fail or lose its reply

Jobs == [op: {"put", "put_if_version", "delete", "delete_if_version"}, agent: Agents]

Record == SUBSET Clients

Hash == [data: Record, version: Nat \ {0}]

ASSUME JobsAreKnown == Job \in [Clients -> Jobs]

ASSUME NoHashIsNone == NoHash \notin Hash

VARIABLES
    hash,       \* the hashes, by agent
    pc,         \* "idle", "read", "done", or "failed": the call raised StoreError
    saw,        \* what get_versioned returned to a client: a hash, or NoHash
    deleted     \* history: the key was deleted since the client read it

vars == <<hash, pc, saw, deleted>>

Op(c) == Job[c].op

Key(c) == Job[c].agent

(* The version get_versioned reports; 0 for None. *)
Version(h) == IF h = NoHash THEN 0 ELSE h.version

Data(h) == IF h = NoHash THEN {} ELSE h.data

(* Mutant: HSET without HINCRBY. *)
WrittenUnversioned(h, record) == [data |-> record, version |-> Version(h)]

(* The hash after a write; an absent one gets version 1. *)
Written(h, record) == [data |-> record, version |-> Version(h) + 1]

(* Mutant: nothing is inserted by version. *)
MatchesStored(c) == hash[Key(c)] # NoHash /\ Version(hash[Key(c)]) = Version(saw[c])

(* The scripts compare the expected version with the stored one. *)
Matches(c) == Version(hash[Key(c)]) = Version(saw[c])

-----------------------------------------------------------------------------
(* get_versioned (or get), on the way to a write; delete needs no look. *)
GetVersioned(c) ==
    /\ pc[c] = "idle" /\ Op(c) # "delete"
    /\ pc' = [pc EXCEPT ![c] = "read"]
    /\ saw' = [saw EXCEPT ![c] = hash[Key(c)]]
    /\ deleted' = [deleted EXCEPT ![c] = FALSE]
    /\ UNCHANGED hash

(* The effects of the commands. *)
Store(c) ==
    /\ hash' = [hash EXCEPT ![Key(c)] = Written(@, Data(saw[c]) \cup {c})]
    /\ UNCHANGED deleted

Remove(c) ==
    /\ hash' = [hash EXCEPT ![Key(c)] = NoHash]
    /\ deleted' = [d \in Clients |-> deleted[d] \/ Key(d) = Key(c)]

(* What a client's command does to the hash; a mismatch is no effect. *)
Effect(c) ==
    \/ Op(c) = "put" /\ Store(c)
    \/ Op(c) = "put_if_version" /\ Matches(c) /\ Store(c)
    \/ Op(c) = "delete" /\ Remove(c)
    \/ Op(c) = "delete_if_version" /\ saw[c] # NoHash /\ Matches(c) /\ Remove(c)

Ready(c) == pc[c] = IF Op(c) = "delete" THEN "idle" ELSE "read"

(* The command succeeds. *)
Write(c) ==
    /\ Ready(c)
    /\ Effect(c)
    /\ pc' = [pc EXCEPT ![c] = "done"]
    /\ UNCHANGED saw

(* ConcurrencyError: the caller reads again. *)
Conflict(c) ==
    /\ pc[c] = "read"
    /\ \/ Op(c) = "put_if_version" /\ ~Matches(c)
       \/ Op(c) = "delete_if_version" /\ saw[c] # NoHash /\ hash[Key(c)] # NoHash /\ ~Matches(c)
    /\ pc' = [pc EXCEPT ![c] = "idle"]
    /\ UNCHANGED <<hash, saw, deleted>>

(* delete_if_version of an agent that is gone, or was not there: False. *)
NothingToDelete(c) ==
    /\ pc[c] = "read"
    /\ Op(c) = "delete_if_version" /\ (saw[c] = NoHash \/ hash[Key(c)] = NoHash)
    /\ pc' = [pc EXCEPT ![c] = "done"]
    /\ UNCHANGED <<hash, saw, deleted>>

(* The connection breaks, before the command took effect or after. *)
Fail(c) ==
    /\ Fails
    /\ \/ pc[c] \in {"idle", "read"} /\ UNCHANGED <<hash, deleted>>
       \/ Ready(c) /\ Effect(c)
    /\ pc' = [pc EXCEPT ![c] = "failed"]
    /\ UNCHANGED saw

(* Every caller has returned. *)
Rest == (\A c \in Clients : pc[c] \in {"done", "failed"}) /\ UNCHANGED vars

Init ==
    /\ hash = [a \in Agents |-> NoHash]
    /\ pc = [c \in Clients |-> "idle"]
    /\ saw = [c \in Clients |-> NoHash]
    /\ deleted = [c \in Clients |-> FALSE]

Step(c) == GetVersioned(c) \/ Write(c) \/ Conflict(c) \/ NothingToDelete(c)

Next == (\E c \in Clients : Step(c) \/ Fail(c)) \/ Rest

Spec == Init /\ [][Next]_vars

(* The server does not stop answering.  It need not be fair to anybody. *)
FairSpec == Spec /\ WF_vars(\E c \in Clients : Step(c))

-----------------------------------------------------------------------------
TypeOK ==
    /\ hash \in [Agents -> Hash \cup {NoHash}]
    /\ pc \in [Clients -> {"idle", "read", "done", "failed"}]
    /\ saw \in [Clients -> Hash \cup {NoHash}]
    /\ deleted \in [Clients -> BOOLEAN]

(* A conditional write or delete takes effect on the very record its caller
   read, even among unconditional writers and failing connections, unless the
   record was deleted in between. *)
ConditionalWriteSeesItsRead ==
    [][\A c \in Clients :
          (/\ Op(c) \in {"put_if_version", "delete_if_version"}
           /\ pc[c] = "read" /\ pc'[c] = "done"
           /\ hash'[Key(c)] # hash[Key(c)])
          => deleted[c] \/ hash[Key(c)] = saw[c]]_vars

(* The agents nobody writes to but with put_if_version. *)
Guarded == {a \in Agents : \A c \in Clients : Key(c) = a => Op(c) = "put_if_version"}

(* Their records, without the versions. *)
records == [a \in Guarded |-> Data(hash[a])]

Adds(c, a, record, ts) == Key(c) = a

Added(c, a, record, ts) == record \cup {c}

Atomic == INSTANCE AtomicTrust WITH
    store <- records, Keys <- Guarded, Calls <- Clients, Times <- {0}, Absent <- {},
    Permits <- Adds, Result <- Added

(* Where every caller writes with put_if_version (redis_store.py:187-221), the
   read-modify-write loops of concurrent callers change the records as if each
   were a single step: no contribution is lost and none is applied to a record
   that has changed, whatever fails. *)
UpdatesAreAtomic == Atomic!Spec

(* Versions "start at 1 and increment on every successful write"
   (storage/base.py:22-23): the version of an agent's record is never one that
   an earlier record of the agent had. *)
VersionsGrow ==
    [][\A a \in Agents : \A c \in Clients :
          (hash'[a] # hash[a] /\ hash'[a] # NoHash /\ saw[c] # NoHash /\ Key(c) = a)
             => hash'[a].version > saw[c].version]_vars

(* However often the versions did not match, every caller gets its update in:
   a mismatch means that somebody else has made progress
   (redis_store.py:207-213). *)
EveryUpdateLands == <>(\A c \in Clients : pc[c] \in {"done", "failed"})
=============================================================================
