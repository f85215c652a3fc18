---------------------------- MODULE TrustManager ----------------------------
(***************************************************************************)
(* manager/trust_manager.py: the calls of TrustManager as the event loop   *)
(* interleaves them.                                                       *)
(*                                                                         *)
(* A task runs one method of the manager at a time.  It can lose the       *)
(* processor wherever it awaits something outside the manager: the asyncio *)
(* lock, the trust store, the evidence ledger, a handler of the event bus. *)
(* There is one action per await: it performs the awaited operation and    *)
(* the straight-line code from there to the next await.  The phase pc[t]   *)
(* names what task t awaits; frame[t] holds the local variables of its     *)
(* method.                                                                 *)
(*                                                                         *)
(* The store hands out copies and writes whole records, as SQLite and      *)
(* Redis do.  Store, ledger and bus are external: only what one call of    *)
(* theirs does is modelled.                                                *)
(***************************************************************************)
EXTENDS TrustRecords, Sequences, FiniteSets

CONSTANTS
    Tasks,      \* coroutines that call the manager
    NoTask,     \* the asyncio lock is free
    NoCall,     \* the call of an idle task
    Requests,   \* the calls the tasks make
    Admin,      \* ADMIN_AGENT_ID
    Faults,     \* the phases whose await may raise
    MaxCalls,   \* bound: calls started
    MaxClock    \* bound: ticks of time.time()

ASSUME RequestsAreCalls == Requests \subseteq Call

ASSUME Distinct == NoTask \notin Tasks /\ NoCall \notin Call /\ Admin \notin Agents

ASSUME BoundsAreNat == MaxCalls \in Nat /\ MaxClock \in Nat

ASSUME DecayClosed == \A p \in Opinion, n \in 0..MaxClock : Decay(p, n) \in Opinion

VARIABLES
    clock,      \* time.time()
    store,      \* the trust store
    lock,       \* holder of self._asyncio_lock
    ledger,     \* the evidence ledger, in append order
    events,     \* what the event bus has delivered, in order
    started,    \* number of calls started: identifies a call
    applied,    \* history: the changes of the store, by call
    pc,
    frame

vars == <<clock, store, lock, ledger, events, started, applied, pc, frame>>

Phases == {"idle", "peek", "list", "next", "wait", "reflag", "get", "put", "delete",
           "ids", "wipe", "load", "export", "ledger", "emit", "audit"}

(* The phases between entering and leaving `async with self._asyncio_lock`
   (deregister_agent awaits its delete outside it). *)
Locked == {"get", "put", "delete", "ids", "wipe", "load", "ledger", "emit"}

Sweeps == {"apply_decay", "evict_stale_agents", "reset_agents", "export_snapshot"}

(* The calls that are not about one agent. *)
Bulk == Sweeps \cup {"import_snapshot"}

(* The calls that leave a ledger entry of the evidence they absorb. *)
Submissions == {"submit_evidence", "submit_discounted_opinion"}

(* The calls that leave an entry in the operators' audit trail. *)
AdminOps == {"set_authority_trust", "deregister_authority", "reset_agent", "reset_agents",
             "reseed_opinion", "reseed_evidence", "wipe", "load"}

(* The names under which changes of the store are remembered. *)
ChangeName ==
    {"register_agent", "register_authority", "deregister_agent", "submit_evidence",
     "submit_discounted_opinion", "merge_authority_opinions", "apply_decay",
     "evict_stale_agents"} \cup AdminOps

(* An event carries the opinions whose trustworthiness it reports. *)
Event == [type: {"agent_registered", "evidence_submitted", "trust_updated",
                 "trust_threshold_crossed"},
          agent: Agents, old: Opinion, new: Opinion]

(* A ledger entry; `call` is the call that made it. *)
Entry == [type: {"evidence", "discounted_opinion"}, agent: Agents, call: Nat,
          evidence: Evidence]
         \cup [type: {"admin"}, agent: Agents \cup {Admin}, call: Nat,
               targets: SUBSET Agents]

-----------------------------------------------------------------------------
Blank == [call |-> NoCall, id |-> 0, agent |-> Admin, todo |-> {}, done |-> << >>,
          now |-> 0, read |-> NoRecord, local |-> NoRecord, outbox |-> << >>,
          trail |-> << >>]

(* Task t goes on to await `phase` with locals f; returning clears them. *)
Goto(t, phase, f) ==
    /\ pc' = [pc EXCEPT ![t] = phase]
    /\ frame' = [frame EXCEPT ![t] = IF phase = "idle" THEN Blank ELSE f]

(* Leaving `async with self._asyncio_lock`, by its end or by an exception. *)
Release(t) == lock' = IF lock = t THEN NoTask ELSE lock

(* After the lock: a sweep turns to its next id, other calls return. *)
Resume(f) == IF f.call.op \in Sweeps THEN "next" ELSE "idle"

(* The time an operation stamps.  A sweep reads the clock once, before its
   loop; the others read it between get and put. *)
Stamp(f) == IF f.call.op \in {"apply_decay", "evict_stale_agents"} THEN f.now ELSE clock

(* The ids that have a record, in the store or in a snapshot. *)
Included(records) == {a \in Agents : records[a] # NoRecord}

StoredIds == Included(store)

(* What an event about the change in hand says. *)
Announce(type, f) ==
    [type |-> type, agent |-> f.agent, old |-> OrNew(f.read, 0).opinion,
     new |-> f.local.opinion]

(* Mutant: only a rise above the threshold is announced. *)
CrossingUpwards(f) ==
    LET e == Announce("trust_threshold_crossed", f)
    IN  IF ~Trusted(e.old) /\ Trusted(e.new) THEN <<e>> ELSE << >>

(* _threshold_direction: an event when the change crosses the threshold. *)
Crossing(f) ==
    LET e == Announce("trust_threshold_crossed", f)
    IN  IF Trusted(e.old) # Trusted(e.new) THEN <<e>> ELSE << >>

(* Mutant: the entry under ADMIN_AGENT_ID names no target. *)
AuditingNobody(f, ids) == [f EXCEPT !.done = << >>, !.trail = <<Admin>> \o ids]

(* Locals of a call about to write its audit entries for `ids`. *)
Auditing(f, ids) == [f EXCEPT !.done = ids, !.trail = <<Admin>> \o ids]

(* History: call f changed the record of its agent by `op`. *)
Applied(f, op, a) == applied' = applied \cup {[call |-> f.id, op |-> op, agent |-> a]}

-----------------------------------------------------------------------------
FirstAwait(c) ==
    CASE c.op \in Sweeps             -> "list"
      [] c.op = "observe"            -> "peek"
      [] c.op = "deregister_agent"   -> "delete"
      [] OTHER                       -> "wait"

(* A task calls a method of the manager. *)
Invoke(t) ==
    /\ pc[t] = "idle"
    /\ started < MaxCalls
    /\ started' = started + 1
    /\ \E c \in Requests :
          Goto(t, FirstAwait(c),
               [Blank EXCEPT !.call = c, !.id = started + 1,
                             !.agent = IF c.op \in Bulk THEN Admin ELSE c.agent])
    /\ UNCHANGED <<clock, store, lock, ledger, events, applied>>

(* The submission DistributedAuthority.observe turns into, when the record
   of the authority itself is `own`. *)
Submission(c, own) ==
    IF own = NoRecord
    THEN [op |-> "submit_evidence", agent |-> c.agent, evidence |-> c.evidence]
    ELSE [op |-> "submit_discounted_opinion", agent |-> c.agent,
          opinion |-> Discount(own.opinion, EvidenceOpinion(c.evidence)),
          evidence |-> c.evidence]

(* observe reads the authority's record, without the lock. *)
Peek(t) ==
    LET f == frame[t] IN
    /\ pc[t] = "peek"
    /\ Goto(t, "wait", [f EXCEPT !.call = Submission(f.call, store[f.call.by])])
    /\ UNCHANGED <<clock, store, lock, ledger, events, started, applied>>

(* A sweep lists the ids and takes the time, outside the lock. *)
ListAgents(t) ==
    /\ pc[t] = "list"
    /\ Goto(t, "next", [frame[t] EXCEPT !.todo = StoredIds, !.now = clock])
    /\ UNCHANGED <<clock, store, lock, ledger, events, started, applied>>

(* A sweep visits id a, with fresh locals. *)
Visit(t, f, a, left) ==
    Goto(t, IF f.call.op = "export_snapshot" THEN "export" ELSE "wait",
         [f EXCEPT !.agent = a, !.todo = left, !.read = NoRecord,
                   !.local = NoRecord, !.trail = << >>])

(* Mutant: a visited id stays on the list. *)
NextAgentAgain(t) ==
    LET f == frame[t] IN
    /\ pc[t] = "next"
    /\ \/ \E a \in f.todo : Visit(t, f, a, f.todo)
       \/ f.todo = {} /\ Goto(t, "idle", f)
    /\ UNCHANGED <<clock, store, lock, ledger, events, started, applied>>

(* The head of a sweep's loop; the order of the ids is the backend's. *)
NextAgent(t) ==
    LET f == frame[t]
        exports == f.call.op = "export_snapshot" IN
    /\ pc[t] = "next"
    /\ \/ \E a \in f.todo : Visit(t, f, a, f.todo \ {a})
       \/ f.todo = {} /\ exports /\ Goto(t, "audit", Auditing(f, f.done))
       \/ f.todo = {} /\ ~exports /\ Goto(t, "idle", f)
    /\ UNCHANGED <<clock, store, lock, ledger, events, started, applied>>

(* export_snapshot reads one record, without the lock. *)
ExportRecord(t) ==
    LET f == frame[t] IN
    /\ pc[t] = "export"
    /\ Goto(t, "next", IF store[f.agent] = NoRecord THEN f
                       ELSE [f EXCEPT !.done = Append(@, f.agent)])
    /\ UNCHANGED <<clock, store, lock, ledger, events, started, applied>>

(* What a task that enters the lock awaits first. *)
Enter(t) ==
    LET f == frame[t]
        imports == f.call.op = "import_snapshot" IN
    /\ pc[t] \in {"wait", "reflag"}
    /\ lock' = t
    /\ \/ pc[t] = "reflag" /\ Goto(t, "put", f)
       \/ pc[t] = "wait" /\ ~imports /\ Goto(t, "get", f)
       \/ pc[t] = "wait" /\ imports /\ f.call.replace /\ Goto(t, "ids", f)
       \/ pc[t] = "wait" /\ imports /\ ~f.call.replace
          /\ Goto(t, "load", [f EXCEPT !.todo = Included(f.call.snapshot)])
    /\ UNCHANGED <<clock, store, ledger, events, started, applied>>

(* Mutant: a lock of one's own, which nobody else holds. *)
AcquireBusy(t) == Enter(t)

(* `async with self._asyncio_lock`. *)
Acquire(t) == lock = NoTask /\ Enter(t)

-----------------------------------------------------------------------------
(* `record = await self._store.get(agent_id)`.  Every call that changes one
   record reads it here and computes what it will write. *)

Updating(t) ==
    LET f == frame[t]
        rec == store[f.agent]
        new == Outcome(f.call, f.agent, rec, Stamp(f)) IN
    /\ pc[t] = "get"
    /\ Admits(f.call, f.agent, rec, Stamp(f))
    /\ f.call.op = "register_authority" => rec = NoRecord
    /\ Goto(t, IF new = NoRecord THEN "delete" ELSE "put",
            [f EXCEPT !.read = rec, !.local = new])
    /\ UNCHANGED <<clock, store, ledger, events, started, applied>>

(* Mutant: the lock is left between the read and the write. *)
GetForUpdateUnlocked(t) == Updating(t) /\ Release(t)

(* The call changes the record: on to the write. *)
GetForUpdate(t) == Updating(t) /\ UNCHANGED lock

(* register_authority of a plain agent: register_agent returns the record it
   found and leaves the lock; the flag is set on that record and the record is
   put in a second critical section. *)
GetForFlag(t) ==
    LET f == frame[t]
        rec == store[f.agent] IN
    /\ pc[t] = "get"
    /\ f.call.op = "register_authority" /\ rec # NoRecord /\ ~rec.authority
    /\ Release(t)
    /\ Goto(t, "reflag", [f EXCEPT !.read = rec,
                                   !.local = Outcome(f.call, f.agent, rec, clock)])
    /\ UNCHANGED <<clock, store, ledger, events, started, applied>>

(* merge_authority_opinions with an empty list writes nothing but still
   announces an update. *)
GetForNothing(t) ==
    LET f == [frame[t] EXCEPT !.read = store[frame[t].agent],
                              !.local = OrNew(store[frame[t].agent], clock)] IN
    /\ pc[t] = "get"
    /\ f.call.op = "merge_authority_opinions" /\ f.call.referral = NoReferral
    /\ Goto(t, "emit", [f EXCEPT !.outbox = <<Announce("trust_updated", f)>>])
    /\ UNCHANGED <<clock, store, lock, ledger, events, started, applied>>

(* Nothing to change: an id already registered, an unknown id, an agent that
   is no authority, a record that is not stale. *)
GetAndLeave(t) ==
    LET f == frame[t] IN
    /\ pc[t] = "get"
    /\ ~Admits(f.call, f.agent, store[f.agent], Stamp(f))
    /\ f.call.op # "merge_authority_opinions"
    /\ Release(t)
    /\ Goto(t, Resume(f), f)
    /\ UNCHANGED <<clock, store, ledger, events, started, applied>>

-----------------------------------------------------------------------------
(* `await self._store.put(record)`, and what each method does after it. *)

Write(t) ==
    LET f == frame[t] IN
    /\ pc[t] = "put"
    /\ store' = [store EXCEPT ![f.agent] = f.local]
    /\ Applied(f, f.call.op, f.agent)
    /\ UNCHANGED <<clock, ledger, events, started>>

(* submit_evidence and submit_discounted_opinion: the ledger is next. *)
PutEvidence(t) ==
    LET f == frame[t] IN
    /\ Write(t)
    /\ f.call.op \in Submissions
    /\ Goto(t, "ledger", f)
    /\ UNCHANGED lock

Announcing(t) ==
    LET f == frame[t]
        type == IF f.call.op \in {"register_agent", "register_authority"}
                THEN "agent_registered" ELSE "trust_updated" IN
    /\ Write(t)
    /\ \/ f.call.op \in {"register_agent", "merge_authority_opinions", "apply_decay"}
       \/ f.call.op = "register_authority" /\ f.read = NoRecord
    /\ Goto(t, "emit", [f EXCEPT !.outbox = <<Announce(type, f)>>])

(* Mutant: the lock is left before the event is emitted. *)
PutAndAnnounceLater(t) == Announcing(t) /\ Release(t)

(* A new registration, a merge or a decayed record is announced, in the lock. *)
PutAndAnnounce(t) == Announcing(t) /\ UNCHANGED lock

(* The second critical section of register_authority. *)
PutFlag(t) ==
    LET f == frame[t] IN
    /\ Write(t)
    /\ f.call.op = "register_authority" /\ f.read # NoRecord
    /\ Release(t)
    /\ Goto(t, "idle", f)

(* An administrative change leaves the lock and then records itself. *)
PutAdmin(t) ==
    LET f == frame[t] IN
    /\ Write(t)
    /\ f.call.op \in AdminOps
    /\ Release(t)
    /\ Goto(t, "audit", Auditing(f, <<f.agent>>))

(* `await self._store.delete(agent_id)`: of deregister_agent, outside the
   asyncio lock; of deregister_authority and evict_stale_agents, inside it. *)
Delete(t) ==
    LET f == frame[t]
        removed == store[f.agent] # NoRecord
        audits == removed /\ f.call.op = "deregister_authority" IN
    /\ pc[t] = "delete"
    /\ store' = [store EXCEPT ![f.agent] = NoRecord]
    /\ IF removed THEN Applied(f, f.call.op, f.agent) ELSE UNCHANGED applied
    /\ Release(t)
    /\ IF audits THEN Goto(t, "audit", Auditing(f, <<f.agent>>)) ELSE Goto(t, Resume(f), f)
    /\ UNCHANGED <<clock, ledger, events, started>>

-----------------------------------------------------------------------------
(* import_snapshot, under the lock. *)

ImportList(t) ==
    /\ pc[t] = "ids"
    /\ Goto(t, "wipe", [frame[t] EXCEPT !.todo = StoredIds])
    /\ UNCHANGED <<clock, store, lock, ledger, events, started, applied>>

ImportWipe(t) ==
    LET f == frame[t] IN
    /\ pc[t] = "wipe"
    /\ \/ \E a \in f.todo :
             /\ store' = [store EXCEPT ![a] = NoRecord]
             /\ Applied(f, "wipe", a)
             /\ Goto(t, "wipe", [f EXCEPT !.todo = @ \ {a}])
       \/ /\ f.todo = {}
          /\ Goto(t, "load", [f EXCEPT !.todo = Included(f.call.snapshot)])
          /\ UNCHANGED <<store, applied>>
    /\ UNCHANGED <<clock, lock, ledger, events, started>>

ImportLoad(t) ==
    LET f == frame[t] IN
    /\ pc[t] = "load"
    /\ \/ \E a \in f.todo :
             /\ store' = [store EXCEPT ![a] = f.call.snapshot[a]]
             /\ Applied(f, "load", a)
             /\ Goto(t, "load", [f EXCEPT !.todo = @ \ {a}, !.done = Append(@, a)])
             /\ UNCHANGED lock
       \/ /\ f.todo = {}
          /\ Release(t)
          /\ Goto(t, "audit", Auditing(f, f.done))
          /\ UNCHANGED <<store, applied>>
    /\ UNCHANGED <<clock, ledger, events, started>>

-----------------------------------------------------------------------------
(* The ledger and the bus. *)

EvidenceEntry(f, type) ==
    [type |-> type, agent |-> f.agent, call |-> f.id, evidence |-> f.call.evidence]

AdminEntry(f, a) ==
    [type |-> "admin", agent |-> a, call |-> f.id,
     targets |-> IF a = Admin THEN {f.done[i] : i \in DOMAIN f.done} ELSE {}]

(* submit_evidence: the entry first, then up to three events. *)
JournalEvidence(t) ==
    LET f == frame[t] IN
    /\ pc[t] = "ledger" /\ f.call.op = "submit_evidence"
    /\ ledger' = Append(ledger, EvidenceEntry(f, "evidence"))
    /\ Goto(t, "emit", [f EXCEPT !.outbox =
               <<Announce("evidence_submitted", f), Announce("trust_updated", f)>>
               \o Crossing(f)])
    /\ UNCHANGED <<clock, store, lock, events, started, applied>>

(* Mutant: a discounted opinion leaves no entry. *)
JournalNothing(t) ==
    /\ pc[t] = "ledger" /\ frame[t].call.op = "submit_discounted_opinion"
    /\ Release(t)
    /\ Goto(t, "idle", frame[t])
    /\ UNCHANGED <<clock, store, ledger, events, started, applied>>

(* submit_discounted_opinion: an entry and no event. *)
JournalDiscounted(t) ==
    LET f == frame[t] IN
    /\ pc[t] = "ledger" /\ f.call.op = "submit_discounted_opinion"
    /\ ledger' = Append(ledger, EvidenceEntry(f, "discounted_opinion"))
    /\ Release(t)
    /\ Goto(t, "idle", f)
    /\ UNCHANGED <<clock, store, events, started, applied>>

(* `await self._event_bus.emit(event)`; the last event ends the lock. *)
Emit(t) ==
    LET f == frame[t]
        rest == Tail(f.outbox) IN
    /\ pc[t] = "emit"
    /\ events' = Append(events, Head(f.outbox))
    /\ \/ rest # << >> /\ Goto(t, "emit", [f EXCEPT !.outbox = rest]) /\ UNCHANGED lock
       \/ rest = << >> /\ Goto(t, Resume(f), [f EXCEPT !.outbox = rest]) /\ Release(t)
    /\ UNCHANGED <<clock, store, ledger, started, applied>>

(* _record_admin_action: the canonical entry, then one per target. *)
Audit(t) ==
    LET f == frame[t]
        rest == Tail(f.trail)
        after == IF f.call.op = "reset_agents" THEN "next" ELSE "idle" IN
    /\ pc[t] = "audit"
    /\ ledger' = Append(ledger, AdminEntry(f, Head(f.trail)))
    /\ Goto(t, IF rest = << >> THEN after ELSE "audit", [f EXCEPT !.trail = rest])
    /\ UNCHANGED <<clock, store, lock, events, started, applied>>

-----------------------------------------------------------------------------
(* Mutant: the failed write is swallowed and the method goes on. *)
FaultSwallowed(t) ==
    LET f == frame[t] IN
    /\ pc[t] \in Faults
    /\ Goto(t, IF pc[t] = "put" /\ f.call.op \in Submissions THEN "ledger" ELSE "idle", f)
    /\ IF pc'[t] = "ledger" THEN UNCHANGED lock ELSE Release(t)
    /\ UNCHANGED <<clock, store, ledger, events, started, applied>>

(* Mutant: a failed write is retried, after the lock was left. *)
FaultRetried(t) ==
    /\ pc[t] \in Faults
    /\ Release(t)
    /\ Goto(t, IF pc[t] = "put" THEN "put" ELSE "idle", frame[t])
    /\ UNCHANGED <<clock, store, ledger, events, started, applied>>

(* An await raises: the backend fails, a handler raises, the task is
   cancelled.  The method unwinds and leaves the lock. *)
Fault(t) ==
    /\ pc[t] \in Faults
    /\ Release(t)
    /\ Goto(t, "idle", frame[t])
    /\ UNCHANGED <<clock, store, ledger, events, started, applied>>

(* The backend applies the write and its reply is lost. *)
LostReply(t) ==
    LET f == frame[t] IN
    /\ pc[t] \in Faults \cap {"put", "delete"}
    /\ store' = [store EXCEPT ![f.agent] = f.local]
    /\ IF f.local = store[f.agent] THEN UNCHANGED applied
                                   ELSE Applied(f, f.call.op, f.agent)
    /\ Release(t)
    /\ Goto(t, "idle", f)
    /\ UNCHANGED <<clock, ledger, events, started>>

Tick ==
    /\ clock < MaxClock
    /\ clock' = clock + 1
    /\ UNCHANGED <<store, lock, ledger, events, started, applied, pc, frame>>

(* All calls the bound allows have returned. *)
Rest ==
    /\ \A t \in Tasks : pc[t] = "idle"
    /\ started = MaxCalls
    /\ UNCHANGED vars

Init ==
    /\ clock = 0
    /\ store = [a \in Agents |-> NoRecord]
    /\ lock = NoTask
    /\ ledger = << >>
    /\ events = << >>
    /\ started = 0
    /\ applied = {}
    /\ pc = [t \in Tasks |-> "idle"]
    /\ frame = [t \in Tasks |-> Blank]

(* The steps of a running call, but for taking the lock. *)
Continue(t) ==
    \/ Peek(t) \/ ListAgents(t) \/ NextAgent(t) \/ ExportRecord(t)
    \/ GetForUpdate(t) \/ GetForFlag(t) \/ GetForNothing(t) \/ GetAndLeave(t)
    \/ PutEvidence(t) \/ PutAndAnnounce(t) \/ PutFlag(t) \/ PutAdmin(t) \/ Delete(t)
    \/ ImportList(t) \/ ImportWipe(t) \/ ImportLoad(t)
    \/ JournalEvidence(t) \/ JournalDiscounted(t) \/ Emit(t) \/ Audit(t)

Next ==
    \/ \E t \in Tasks : Invoke(t) \/ Acquire(t) \/ Continue(t) \/ Fault(t) \/ LostReply(t)
    \/ Tick
    \/ Rest

Spec == Init /\ [][Next]_vars

(* The event loop resumes every task that can run; asyncio.Lock wakes its
   waiters in the order they came, so none of them is passed over for ever. *)
Fairness == \A t \in Tasks : WF_vars(Continue(t)) /\ SF_vars(Acquire(t))

FairSpec == Spec /\ Fairness
-----------------------------------------------------------------------------
(***************************************************************************)
(* Properties                                                              *)
(***************************************************************************)

Frame == [call: Call \cup {NoCall}, id: Nat, agent: Agents \cup {Admin},
          todo: SUBSET Agents, done: Seq(Agents), now: 0..MaxClock,
          read: Record \cup {NoRecord}, local: Record \cup {NoRecord},
          outbox: Seq(Event), trail: Seq(Agents \cup {Admin})]

(* Every variable, and every local variable of a running method
   (trust_manager.py), holds a value of the kind the code stores there; a
   call counter and a timestamp stay within their bounds. *)
TypeOK ==
    /\ clock \in 0..MaxClock
    /\ store \in [Agents -> Record \cup {NoRecord}]
    /\ lock \in Tasks \cup {NoTask}
    /\ ledger \in Seq(Entry)
    /\ events \in Seq(Event)
    /\ started \in 0..MaxCalls
    /\ applied \subseteq [call: Nat, op: ChangeName, agent: Agents]
    /\ pc \in [Tasks -> Phases]
    /\ frame \in [Tasks -> Frame]

(* A record read under the lock is still the stored one when the call that
   read it writes or deletes: nobody came in between (the read-modify-write
   sections of trust_manager.py:172-187, 208-282, 317-337, 355-391, 824-843). *)
CommitsAreCurrent ==
    \A t \in Tasks : pc[t] \in {"put", "delete"} =>
        /\ lock = t
        /\ frame[t].read = store[frame[t].agent]

(* What can change a record: the requests, the submissions observe turns
   into, and the parts of an import. *)
Observations == {c \in Requests : c.op = "observe"}

Imports == {c \in Requests : c.op = "import_snapshot"}

(* The records an observing authority may have, as far as observe looks. *)
Owners == {NoRecord} \cup {NewRecord(p, FALSE, 0) : p \in Opinion}

Effects ==
    (Requests \ (Observations \cup Imports))
    \cup {Submission(x[1], x[2]) : x \in Observations \X Owners}
    \cup {[op |-> "wipe"] : c \in {d \in Imports : d.replace}}
    \cup {[op |-> "load", snapshot |-> c.snapshot] : c \in Imports}

Atomic == INSTANCE AtomicTrust WITH
    Keys <- Agents, Calls <- Effects, Times <- 0..MaxClock, Absent <- NoRecord,
    Permits <- Admits, Result <- Outcome

(* However the awaits of concurrent calls interleave, every change of the
   store is one call applied to the record that is there at that moment: no
   update is computed from a record that has meanwhile been replaced or
   deleted. *)
StepsAreAtomic == Atomic!Spec

(* The ledger entries for evidence about an agent. *)
EntriesOf(a) ==
    {i \in DOMAIN ledger : ledger[i].type # "admin" /\ ledger[i].agent = a}

Journaling(a) == {t \in Tasks : pc[t] = "ledger" /\ frame[t].agent = a}

(* The record of a was only ever changed by calls of these kinds. *)
OnlyChangedBy(a, ops) == \A x \in applied : x.agent = a => x.op \in ops

OnlyFed(a) ==
    OnlyChangedBy(a, Submissions \cup {"register_agent", "merge_authority_opinions",
                                       "apply_decay"})

(* The weight of a kind that the ledger holds about a, unit by unit. *)
Weight(a, kind) ==
    Cardinality(UNION {{i} \X (1..ledger[i].evidence[kind]) : i \in EntriesOf(a)})

(* While a record is only created, fed and decayed, the ledger and the record
   tell the same story: as many entries as the record counts, and the same
   weight for and against, but for the one call that is between its put and
   its append (trust_manager.py:229-248, 379-391). *)
LedgerMatchesStore ==
    \A a \in {s \in StoredIds : OnlyFed(s)} :
        /\ store[a].count = Cardinality(EntriesOf(a)) + Cardinality(Journaling(a))
        /\ Journaling(a) = {} =>
             \A kind \in {"positive", "negative"} : store[a][kind] = Weight(a, kind)

(* Even when any await may fail, the ledger never holds an entry whose
   evidence the record has not absorbed: put comes before append
   (trust_manager.py:229-248). *)
LedgerNeverAhead ==
    \A a \in {s \in Agents : OnlyFed(s)} : EntriesOf(a) # {} =>
        store[a] # NoRecord /\ Cardinality(EntriesOf(a)) <= store[a].count

Reports(a, types) == {i \in DOMAIN events : events[i].agent = a /\ events[i].type \in types}

FirstReport(a, types) ==
    events[CHOOSE i \in Reports(a, types) : \A j \in Reports(a, types) : i <= j]

LastReport(a, types) ==
    events[CHOOSE i \in Reports(a, types) : \A j \in Reports(a, types) : j <= i]

(* The events that carry the trust an agent has now. *)
Updates == {"agent_registered", "trust_updated"}

(* The calls that emit one of them when they change a record. *)
Announced == {"register_agent", "submit_evidence", "merge_authority_opinions", "apply_decay"}

(* Whenever the lock is free, the last update a subscriber received about an
   agent is the trust the store holds, if all calls that changed the agent
   announce it: the events of concurrent calls are delivered in the order of
   the writes they announce (trust_manager.py:250-282, 830-847). *)
SubscribersCurrent ==
    lock = NoTask => \A a \in {s \in StoredIds : OnlyChangedBy(s, Announced)} :
        /\ Reports(a, Updates) # {}
        /\ LastReport(a, Updates).new = store[a].opinion

(* The opinion on whose side of the threshold a subscriber believes a to be:
   where the last crossing led, else what a was registered with, else what it
   was worth when it was first heard of. *)
Side(a) ==
    IF Reports(a, {"trust_threshold_crossed"}) # {}
    THEN LastReport(a, {"trust_threshold_crossed"}).new
    ELSE IF Reports(a, {"agent_registered"}) # {}
    THEN LastReport(a, {"agent_registered"}).new
    ELSE FirstReport(a, {"trust_updated"}).old

(* Whenever the lock is free, an agent that only evidence has moved is on the
   side of the threshold where its subscribers believe it to be.  No crossing
   is missed and none repeated, in whatever order concurrent submissions got
   the lock (trust_manager.py:264-282). *)
CrossingsAnnounced ==
    lock = NoTask =>
        \A a \in {s \in StoredIds : OnlyChangedBy(s, {"register_agent", "submit_evidence"})} :
            Trusted(Side(a)) = Trusted(store[a].opinion)

Running(id) == \E t \in Tasks : pc[t] # "idle" /\ frame[t].id = id

(* An administrative change of a record is in the operators' audit trail, as
   a canonical entry that names the record's id, unless the call that made it
   is still running. *)
EveryEffectIsAudited ==
    \A x \in applied : x.op \in AdminOps =>
        \/ Running(x.call)
        \/ \E i \in DOMAIN ledger :
              /\ ledger[i].type = "admin"
              /\ ledger[i].call = x.call
              /\ ledger[i].agent = Admin
              /\ x.agent \in ledger[i].targets

(* A sweep of evict_stale_agents removes no agent that was heard of within
   MaxAge of the sweep's start, however long the sweep waited for the lock. *)
EvictionSparesTheFresh ==
    [][\A a \in Agents : \A t \in Tasks :
          (/\ pc[t] = "delete"
           /\ frame[t].call.op = "evict_stale_agents"
           /\ frame[t].agent = a
           /\ pc'[t] # pc[t]
           /\ store[a] # store'[a])
          => store[a].updated + MaxAge < frame[t].now]_vars

(* When import_snapshot leaves the lock after its last record, the store holds
   exactly the snapshot's records for their ids; a replacing import leaves no
   other record. *)
ImportInstallsSnapshot ==
    [][\A t \in Tasks :
          LET c == frame[t].call IN
          (pc[t] = "load" /\ pc'[t] = "audit") =>
             \A a \in Agents :
                (c.replace \/ c.snapshot[a] # NoRecord) => store[a] = c.snapshot[a]]_vars

(* Every call of the manager returns: a sweep gets the lock for each of its ids
   although others keep taking it, and whatever raises releases it
   (trust_manager.py:813-861). *)
EveryCallReturns == \A t \in Tasks : pc[t] # "idle" ~> pc[t] = "idle"
=============================================================================
