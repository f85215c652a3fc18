------------------------ MODULE TrustManager_proofs ------------------------
(***************************************************************************)
(* Theorems about TrustManager, for every set of agents, tasks and         *)
(* requests, every algebra of opinions and every bound: types, the         *)
(* atomicity of the calls, and what the calls owe to the ledger, to        *)
(* subscribers and to the operators' audit trail, and what sweeps and      *)
(* imports promise.                                                        *)
(*                                                                         *)
(* Atomicity is proved of the calls that change a record under the asyncio *)
(* lock.  The rest assumes nothing about which calls there are:            *)
(* deregister_agent, which deletes without the asyncio lock, and           *)
(* register_authority of a plain agent, which writes in a second critical  *)
(* section, are among them.  What survives them is LockInv: the other      *)
(* calls commit what they computed from the stored record, or from one     *)
(* that has been deregistered.                                             *)
(***************************************************************************)
EXTENDS TrustManager, FiniteSetTheorems, SequenceTheorems, TLAPS

(* Evidence submissions, the calls that reach the evidence ledger. *)
SubmitCall == {c \in EvidenceCall \cup DiscountedCall : c.op \in Submissions}

(* What task t holds while it awaits p: a call that can be there, the id it
   works on, the record it is going to write. *)
FrameFits(p, f) ==
    /\ p # "idle" => f.call \in Call
    /\ p \in {"get", "put", "delete", "reflag", "ledger", "emit", "export"} => f.agent \in Agents
    /\ p = "wait" => f.call.op = "import_snapshot" \/ f.agent \in Agents
    /\ p = "peek" => f.call \in ObserveCall /\ f.agent \in Agents
    /\ p \notin {"idle", "peek"} => f.call.op # "observe"
    /\ p = "wait" => f.call.op # "export_snapshot"
    /\ p \in {"get", "reflag", "put", "delete"} => f.call.op \in ChangeName
    /\ p \in {"put", "reflag", "ledger"} => f.local \in Record
    /\ p = "ledger" => f.call \in SubmitCall
    /\ p \in {"ids", "wipe", "load"} => f.call \in ImportCall
    /\ p = "emit" => f.outbox # << >>
    /\ p = "audit" => f.trail # << >>

TypeInv == TypeOK /\ \A t \in Tasks : FrameFits(pc[t], frame[t])

-----------------------------------------------------------------------------
(* The record auto-registration works on is a record. *)
LEMMA OrNewIsRecord ==
    ASSUME NEW rec \in Record \cup {NoRecord}, NEW ts \in Nat
    PROVE  OrNew(rec, ts) \in Record
PROOF BY OpinionsClosed DEF OrNew, NewRecord, Record

(* A record stays one when its fields are given values of their kinds. *)
LEMMA UpdatedIsRecord ==
    ASSUME NEW r \in Record, NEW op \in Opinion, NEW n \in Nat, NEW p \in Nat,
           NEW m \in Nat, NEW ts \in Nat
    PROVE  [r EXCEPT !.opinion = op, !.count = n, !.positive = p, !.negative = m,
                     !.updated = ts] \in Record
PROOF BY DEF Record

(* Absorbing evidence makes a record of a record. *)
LEMMA AbsorbIsRecord ==
    ASSUME NEW rec \in Record \cup {NoRecord}, NEW op \in Opinion, NEW ts \in Nat,
           NEW e \in Evidence
    PROVE  Absorb(rec, op, e, ts) \in Record
PROOF
<1>. DEFINE r == OrNew(rec, ts)
<1>1. r \in Record
  BY OrNewIsRecord
<1>2. r.opinion \in Opinion /\ r.count \in Nat /\ r.positive \in Nat /\ r.negative \in Nat
  BY <1>1 DEF Record
<1>3. e.positive \in Nat /\ e.negative \in Nat
  BY OpinionsClosed
<1>4. Fuse(r.opinion, op) \in Opinion
  BY <1>2, OpinionsClosed
<1>. HIDE DEF r
<1>5. r.count + 1 \in Nat /\ r.positive + e.positive \in Nat /\ r.negative + e.negative \in Nat
  BY <1>2, <1>3
<1>6. [r EXCEPT !.opinion = Fuse(r.opinion, op), !.count = r.count + 1,
                !.positive = r.positive + e.positive, !.negative = r.negative + e.negative,
                !.updated = ts] \in Record
  BY <1>1, <1>4, <1>5, UpdatedIsRecord
<1>. QED  BY <1>6 DEF Absorb, r

(* The record a call leaves is a record, or none if it is to delete one. *)
LEMMA OutcomeIsRecord ==
    ASSUME NEW c \in Call, NEW a \in Agents, NEW rec \in Record \cup {NoRecord},
           NEW ts \in 0..MaxClock, Admits(c, a, rec, ts),
           c.op \notin {"observe", "export_snapshot", "import_snapshot"}
    PROVE  \/ Outcome(c, a, rec, ts) \in Record
           \/ /\ c.op \in {"deregister_agent", "deregister_authority", "evict_stale_agents"}
              /\ Outcome(c, a, rec, ts) = NoRecord
PROOF
<1>. ts \in Nat
  BY BoundsAreNat
<1>0. OrNew(rec, ts) \in Record
  BY OrNewIsRecord
<1>1. CASE c \in AgentCall
  BY <1>1 DEF AgentCall, Outcome
<1>2. CASE c \in OpinionCall
  <2>1. c.opinion \in Opinion
    BY <1>2 DEF OpinionCall
  <2>2. CASE c.op = "register_agent"
    BY <2>1, <2>2 DEF Outcome, NewRecord, Record
  <2>3. CASE c.op = "register_authority"
    BY <2>1, <2>3 DEF Outcome, NewRecord, Record
  <2>4. CASE c.op = "set_authority_trust"
    <3>1. rec \in Record
      BY <2>4 DEF Admits, IsAuthority
    <3>. QED  BY <2>1, <2>4, <3>1 DEF Outcome, Reset, Record
  <2>5. CASE c.op = "reseed_opinion"
    BY <1>0, <2>1, <2>5 DEF Outcome, Reseed, NoEvidence, Record
  <2>. QED  BY <1>2, <2>2, <2>3, <2>4, <2>5 DEF OpinionCall
<1>3. CASE c \in ResetCall
  <2>1. rec \in Record /\ c.opinion \in Opinion /\ c.op = "reset_agent"
    BY <1>3 DEF ResetCall, Admits
  <2>. QED  BY <2>1 DEF Outcome, Reset, Record
<1>4. CASE c \in EvidenceCall
  <2>1. /\ c.evidence \in Evidence
        /\ c.evidence.positive \in Nat /\ c.evidence.negative \in Nat
        /\ EvidenceOpinion(c.evidence) \in Opinion
    BY <1>4, OpinionsClosed DEF EvidenceCall
  <2>2. CASE c.op = "submit_evidence"
    BY <2>1, <2>2, AbsorbIsRecord DEF Outcome
  <2>3. CASE c.op = "reseed_evidence"
    BY <1>0, <2>1, <2>3 DEF Outcome, Reseed, Record
  <2>. QED  BY <1>4, <2>2, <2>3 DEF EvidenceCall
<1>5. CASE c \in DiscountedCall
  <2>1. /\ c.op = "submit_discounted_opinion" /\ c.opinion \in Opinion
        /\ c.evidence \in Evidence
    BY <1>5 DEF DiscountedCall
  <2>. QED  BY <2>1, AbsorbIsRecord DEF Outcome
<1>6. CASE c \in ObserveCall
  BY <1>6 DEF ObserveCall
<1>7. CASE c \in MergeCall
  <2>1. c.op = "merge_authority_opinions" /\ Merge(c.referral) \in Opinion
    BY <1>7, OpinionsClosed DEF MergeCall, Admits
  <2>. QED  BY <1>0, <2>1, OpinionsClosed DEF Outcome, MergeReferral, Record
<1>8. CASE c \in SweepCall
  <2>1. CASE c.op = "apply_decay"
    <3>1. rec \in Record
      BY <2>1 DEF Admits
    <3>2. ts - rec.updated \in Int /\ (ts > rec.updated => ts - rec.updated \in 0..MaxClock)
      BY <3>1, BoundsAreNat DEF Record
    <3>. DEFINE elapsed == IF ts > rec.updated THEN ts - rec.updated ELSE 0
    <3>3. elapsed \in 0..MaxClock
      BY <3>2, BoundsAreNat
    <3>4. Decay(rec.opinion, elapsed) \in Opinion
      BY <3>1, <3>3, DecayClosed DEF Record
    <3>. QED  BY <2>1, <3>1, <3>4 DEF Outcome, DecayTo, Record
  <2>2. CASE c.op = "evict_stale_agents"
    BY <2>2 DEF Outcome
  <2>3. CASE c.op = "reset_agents"
    <3>1. rec \in Record /\ c.opinion \in Opinion
      BY <1>8, <2>3 DEF SweepCall, Admits
    <3>. QED  BY <2>3, <3>1 DEF Outcome, Reset, Record
  <2>. QED  BY <1>8, <2>1, <2>2, <2>3 DEF SweepCall
<1>9. CASE c \in ImportCall
  BY <1>9 DEF ImportCall
<1>. QED  BY <1>1, <1>2, <1>3, <1>4, <1>5, <1>6, <1>7, <1>8, <1>9 DEF Call
-----------------------------------------------------------------------------
(* What TypeOK says of the variables other than pc and frame. *)
DataOK ==
    /\ clock \in 0..MaxClock
    /\ store \in [Agents -> Record \cup {NoRecord}]
    /\ lock \in Tasks \cup {NoTask}
    /\ ledger \in Seq(Entry)
    /\ events \in Seq(Event)
    /\ started \in 0..MaxCalls
    /\ applied \subseteq [call: Nat, op: ChangeName, agent: Agents]

LEMMA BlankIsFrame == Blank \in Frame
PROOF BY BoundsAreNat DEF Blank, Frame

(* A step of one task: what it moves on with has to fit where it goes. *)
LEMMA GotoKeepsTypes ==
    ASSUME TypeInv, DataOK', NEW t \in Tasks, NEW phase \in Phases, NEW f,
           Goto(t, phase, f),
           phase # "idle" => f \in Frame /\ FrameFits(phase, f)
    PROVE  TypeInv'
PROOF
<1>. DEFINE g == IF phase = "idle" THEN Blank ELSE f
<1>1. g \in Frame /\ FrameFits(phase, g)
  <2>1. CASE phase = "idle"
    BY <2>1, BlankIsFrame DEF FrameFits
  <2>. QED  BY <2>1
<1>2. pc' = [pc EXCEPT ![t] = phase] /\ frame' = [frame EXCEPT ![t] = g]
  BY DEF Goto
<1>. HIDE DEF g
<1>3. pc \in [Tasks -> Phases] /\ frame \in [Tasks -> Frame]
  BY DEF TypeInv, TypeOK
<1>4. pc' \in [Tasks -> Phases] /\ frame' \in [Tasks -> Frame]
  BY <1>1, <1>2, <1>3
<1>5. ASSUME NEW s \in Tasks
      PROVE  FrameFits(pc'[s], frame'[s])
  <2>1. CASE s = t
    BY <1>1, <1>2, <1>3, <2>1
  <2>2. CASE s # t
    <3>1. pc'[s] = pc[s] /\ frame'[s] = frame[s]
      BY <1>2, <1>3, <2>2
    <3>. QED  BY <3>1 DEF TypeInv
  <2>. QED  BY <2>1, <2>2
<1>. QED  BY <1>4, <1>5 DEF TypeInv, TypeOK, DataOK

(* What a task's locals are known to hold. *)
LEMMA FrameFacts ==
    ASSUME TypeInv, NEW t \in Tasks
    PROVE  /\ frame[t] \in Frame
           /\ FrameFits(pc[t], frame[t])
           /\ frame[t].id \in Nat
           /\ frame[t].agent \in Agents \cup {Admin}
           /\ frame[t].todo \in SUBSET Agents
           /\ frame[t].done \in Seq(Agents)
           /\ frame[t].now \in 0..MaxClock
           /\ frame[t].read \in Record \cup {NoRecord}
           /\ frame[t].local \in Record \cup {NoRecord}
           /\ frame[t].outbox \in Seq(Event)
           /\ frame[t].trail \in Seq(Agents \cup {Admin})
           /\ DataOK
PROOF
<1>1. frame[t] \in Frame /\ FrameFits(pc[t], frame[t]) /\ DataOK
  BY DEF TypeInv, TypeOK, DataOK
<1>. QED  BY <1>1 DEF Frame

LEMMA ReleaseKeepsType ==
    ASSUME lock \in Tasks \cup {NoTask}, NEW t, Release(t)
    PROVE  lock' \in Tasks \cup {NoTask}
PROOF BY DEF Release

(* The kind of a call follows from its name. *)
LEMMA CallKinds ==
    ASSUME NEW c \in Call
    PROVE  /\ c.op \notin {"observe", "export_snapshot", "import_snapshot"}
                => c.op \in ChangeName
           /\ c.op = "observe" => c \in ObserveCall
           /\ c.op = "import_snapshot" => c \in ImportCall
           /\ c.op \in Submissions => c \in SubmitCall
           /\ c.op \notin Bulk => c.agent \in Agents
PROOF
<1>. USE DEF Bulk, Sweeps, Submissions, SubmitCall, ChangeName, AdminOps
<1>1. CASE c \in AgentCall
  BY <1>1 DEF AgentCall
<1>2. CASE c \in OpinionCall
  BY <1>2 DEF OpinionCall
<1>3. CASE c \in ResetCall
  BY <1>3 DEF ResetCall
<1>4. CASE c \in EvidenceCall
  BY <1>4 DEF EvidenceCall
<1>5. CASE c \in DiscountedCall
  BY <1>5 DEF DiscountedCall
<1>6. CASE c \in ObserveCall
  BY <1>6 DEF ObserveCall
<1>7. CASE c \in MergeCall
  BY <1>7 DEF MergeCall
<1>8. CASE c \in SweepCall
  BY <1>8 DEF SweepCall
<1>9. CASE c \in ImportCall
  BY <1>9 DEF ImportCall
<1>. QED  BY <1>1, <1>2, <1>3, <1>4, <1>5, <1>6, <1>7, <1>8, <1>9 DEF Call

-----------------------------------------------------------------------------
LEMMA InvokeTypes ==
    ASSUME TypeInv, NEW t \in Tasks, Invoke(t)
    PROVE  TypeInv'
PROOF
<1>1. DataOK /\ DataOK'
  BY FrameFacts, BoundsAreNat DEF DataOK, Invoke
<1>2. PICK c \in Requests :
         Goto(t, FirstAwait(c),
              [Blank EXCEPT !.call = c, !.id = started + 1,
                            !.agent = IF c.op \in Bulk THEN Admin ELSE c.agent])
  BY DEF Invoke
<1>. DEFINE a == IF c.op \in Bulk THEN Admin ELSE c.agent
            f == [Blank EXCEPT !.call = c, !.id = started + 1, !.agent = a]
<1>3. c \in Call /\ a \in Agents \cup {Admin} /\ started + 1 \in Nat
  BY <1>1, RequestsAreCalls, CallKinds, BoundsAreNat DEF DataOK
<1>4. f \in Frame /\ f.call = c /\ f.agent = a
  <2>. HIDE DEF a
  <2>. QED  BY <1>3, BlankIsFrame DEF Frame
<1>. HIDE DEF f
<1>5. FirstAwait(c) \in Phases /\ FrameFits(FirstAwait(c), f)
  <2>1. CASE c.op \in Sweeps
    <3>1. FirstAwait(c) = "list"
      BY <2>1 DEF FirstAwait, Sweeps
    <3>. QED  BY <1>3, <1>4, <2>1, <3>1 DEF Phases, FrameFits, Sweeps
  <2>2. CASE c.op = "observe"
    BY <1>3, <1>4, <2>2, CallKinds DEF FirstAwait, Phases, FrameFits, Sweeps, Bulk
  <2>3. CASE c.op = "deregister_agent"
    BY <1>3, <1>4, <2>3, CallKinds
       DEF FirstAwait, Phases, FrameFits, Sweeps, Bulk, ChangeName
  <2>4. CASE c.op \notin Sweeps \cup {"observe", "deregister_agent"}
    <3>1. FirstAwait(c) = "wait"
      BY <2>4 DEF FirstAwait
    <3>2. c.op = "import_snapshot" \/ a \in Agents
      BY <1>3, <2>4, CallKinds DEF Bulk
    <3>. HIDE DEF a
    <3>. QED  BY <1>3, <1>4, <2>4, <3>1, <3>2 DEF Phases, FrameFits, Sweeps
  <2>. QED  BY <2>1, <2>2, <2>3, <2>4
<1>. QED  BY <1>1, <1>2, <1>4, <1>5, GotoKeepsTypes DEF f

LEMMA PeekTypes ==
    ASSUME TypeInv, NEW t \in Tasks, Peek(t)
    PROVE  TypeInv'
PROOF
<1>. DEFINE f == frame[t]
            c == Submission(f.call, store[f.call.by])
            g == [f EXCEPT !.call = c]
<1>1. DataOK /\ DataOK'
  BY FrameFacts DEF DataOK, Peek
<1>2. f \in Frame /\ f.call \in ObserveCall /\ f.agent \in Agents
  BY FrameFacts DEF Peek, FrameFits
<1>3. store[f.call.by] \in Record \cup {NoRecord}
  BY <1>1, <1>2 DEF ObserveCall, DataOK
<1>4. c \in Call /\ c.op \in Submissions
  <2>1. f.call.agent \in Agents /\ f.call.evidence \in Evidence
    BY <1>2 DEF ObserveCall
  <2>2. CASE store[f.call.by] = NoRecord
    BY <2>1, <2>2 DEF Submission, Submissions, Call, EvidenceCall
  <2>3. CASE store[f.call.by] # NoRecord
    <3>1. Discount(store[f.call.by].opinion, EvidenceOpinion(f.call.evidence)) \in Opinion
      BY <1>3, <2>1, <2>3, OpinionsClosed DEF Record
    <3>. QED  BY <2>1, <2>3, <3>1 DEF Submission, Submissions, Call, DiscountedCall
  <2>. QED  BY <2>2, <2>3
<1>. HIDE DEF c
<1>5. g \in Frame /\ g.call = c /\ g.agent = f.agent
  BY <1>2, <1>4 DEF Frame
<1>6. FrameFits("wait", g)
  BY <1>2, <1>4, <1>5 DEF FrameFits, Submissions
<1>7. Goto(t, "wait", g)
  BY DEF Peek, c
<1>. QED  BY <1>1, <1>5, <1>6, <1>7, GotoKeepsTypes DEF Phases

LEMMA ListAgentsTypes ==
    ASSUME TypeInv, NEW t \in Tasks, ListAgents(t)
    PROVE  TypeInv'
PROOF
<1>. DEFINE g == [frame[t] EXCEPT !.todo = StoredIds, !.now = clock]
<1>1. DataOK /\ DataOK'
  BY FrameFacts DEF DataOK, ListAgents
<1>2. g \in Frame /\ g.call = frame[t].call
  BY <1>1, FrameFacts DEF DataOK, Frame, StoredIds, Included
<1>3. FrameFits("next", g)
  BY <1>2, FrameFacts DEF FrameFits, ListAgents
<1>4. Goto(t, "next", g)
  BY DEF ListAgents
<1>. QED  BY <1>1, <1>2, <1>3, <1>4, GotoKeepsTypes DEF Phases

LEMMA VisitTypes ==
    ASSUME TypeInv, NEW t \in Tasks, pc[t] = "next", NEW a \in frame[t].todo,
           NEW left \in SUBSET Agents, Visit(t, frame[t], a, left), DataOK'
    PROVE  TypeInv'
PROOF
<1>. DEFINE f == frame[t]
            g == [f EXCEPT !.agent = a, !.todo = left, !.read = NoRecord,
                           !.local = NoRecord, !.trail = << >>]
            phase == IF f.call.op = "export_snapshot" THEN "export" ELSE "wait"
<1>0. << >> \in Seq(Agents \cup {Admin})
  OBVIOUS
<1>1. g \in Frame /\ g.call = f.call /\ g.agent = a
  BY <1>0, FrameFacts DEF Frame
<1>2. a \in Agents /\ f.call \in Call /\ f.call.op # "observe"
  BY FrameFacts DEF FrameFits
<1>3. FrameFits(phase, g) /\ phase \in Phases
  BY <1>1, <1>2 DEF FrameFits, Phases
<1>4. Goto(t, phase, g)
  BY DEF Visit
<1>. HIDE DEF g, phase
<1>. QED  BY <1>1, <1>3, <1>4, GotoKeepsTypes

LEMMA AuditingTypes ==
    ASSUME NEW f \in Frame, f.call \in Call, NEW ids \in Seq(Agents),
           f.call.op # "observe"
    PROVE  Auditing(f, ids) \in Frame /\ FrameFits("audit", Auditing(f, ids))
PROOF
<1>1. <<Admin>> \o ids \in Seq(Agents \cup {Admin}) /\ <<Admin>> \o ids # << >>
  OBVIOUS
<1>. DEFINE trail == <<Admin>> \o ids
            g == [f EXCEPT !.done = ids, !.trail = trail]
<1>. HIDE DEF trail
<1>2. trail \in Seq(Agents \cup {Admin}) /\ trail # << >>
  BY <1>1 DEF trail
<1>3. g \in Frame /\ g.trail = trail /\ g.call = f.call
  BY <1>2 DEF Frame
<1>. HIDE DEF g
<1>4. FrameFits("audit", g)
  BY <1>2, <1>3 DEF FrameFits
<1>. QED  BY <1>3, <1>4 DEF Auditing, g, trail

LEMMA NextAgentTypes ==
    ASSUME TypeInv, NEW t \in Tasks, NextAgent(t)
    PROVE  TypeInv'
PROOF
<1>. DEFINE f == frame[t]
<1>1. DataOK /\ DataOK' /\ pc[t] = "next"
  BY FrameFacts DEF DataOK, NextAgent
<1>2. /\ f \in Frame /\ f.call \in Call /\ f.call.op # "observe"
      /\ f.done \in Seq(Agents) /\ f.todo \in SUBSET Agents
  BY <1>1, FrameFacts DEF FrameFits
<1>3. CASE \E a \in f.todo : Visit(t, f, a, f.todo \ {a})
  BY <1>1, <1>2, <1>3, VisitTypes
<1>4. CASE Goto(t, "audit", Auditing(f, f.done))
  BY <1>1, <1>2, <1>4, AuditingTypes, GotoKeepsTypes DEF Phases
<1>5. CASE Goto(t, "idle", f)
  BY <1>1, <1>5, GotoKeepsTypes DEF Phases
<1>. QED  BY <1>3, <1>4, <1>5 DEF NextAgent

LEMMA ExportRecordTypes ==
    ASSUME TypeInv, NEW t \in Tasks, ExportRecord(t)
    PROVE  TypeInv'
PROOF
<1>. DEFINE f == frame[t]
            g == [f EXCEPT !.done = Append(@, f.agent)]
<1>1. DataOK /\ DataOK'
  BY FrameFacts DEF DataOK, ExportRecord
<1>2. /\ f \in Frame /\ f.call \in Call /\ f.call.op # "observe"
      /\ f.agent \in Agents /\ f.done \in Seq(Agents)
  BY FrameFacts DEF FrameFits, ExportRecord
<1>3. Append(f.done, f.agent) \in Seq(Agents)
  BY <1>2
<1>4. g \in Frame /\ g.call = f.call
  BY <1>2, <1>3 DEF Frame
<1>5. FrameFits("next", g) /\ FrameFits("next", f)
  BY <1>2, <1>4 DEF FrameFits
<1>6. Goto(t, "next", g) \/ Goto(t, "next", f)
  BY DEF ExportRecord
<1>. HIDE DEF g
<1>. QED  BY <1>1, <1>2, <1>4, <1>5, <1>6, GotoKeepsTypes DEF Phases

LEMMA AcquireTypes ==
    ASSUME TypeInv, NEW t \in Tasks, Acquire(t)
    PROVE  TypeInv'
PROOF
<1>. DEFINE f == frame[t]
            g == [f EXCEPT !.todo = Included(f.call.snapshot)]
<1>1. DataOK /\ DataOK'
  BY FrameFacts DEF DataOK, Acquire, Enter
<1>2. f \in Frame /\ FrameFits(pc[t], f) /\ f.call \in Call
  BY FrameFacts DEF FrameFits, Acquire, Enter
<1>3. CASE pc[t] = "reflag" /\ Goto(t, "put", f)
  <2>1. FrameFits("put", f)
    BY <1>2, <1>3 DEF FrameFits
  <2>. QED  BY <1>1, <1>2, <1>3, <2>1, GotoKeepsTypes DEF Phases
<1>4. CASE pc[t] = "wait" /\ f.call.op # "import_snapshot" /\ Goto(t, "get", f)
  <2>1. FrameFits("get", f)
    BY <1>2, <1>4, CallKinds DEF FrameFits
  <2>. QED  BY <1>1, <1>2, <1>4, <2>1, GotoKeepsTypes DEF Phases
<1>5. CASE f.call.op = "import_snapshot" /\ Goto(t, "ids", f)
  <2>1. FrameFits("ids", f)
    BY <1>2, <1>5, CallKinds DEF FrameFits
  <2>. QED  BY <1>1, <1>2, <1>5, <2>1, GotoKeepsTypes DEF Phases
<1>6. CASE f.call.op = "import_snapshot" /\ Goto(t, "load", g)
  <2>1. g \in Frame /\ g.call = f.call
    BY <1>2 DEF Frame, Included
  <2>2. FrameFits("load", g)
    BY <1>2, <1>6, <2>1, CallKinds DEF FrameFits
  <2>. HIDE DEF g
  <2>. QED  BY <1>1, <1>6, <2>1, <2>2, GotoKeepsTypes DEF Phases
<1>. QED  BY <1>3, <1>4, <1>5, <1>6 DEF Acquire, Enter

-----------------------------------------------------------------------------
(* The reads under the lock. *)
LEMMA StampIsTime ==
    ASSUME TypeInv, NEW t \in Tasks
    PROVE  Stamp(frame[t]) \in 0..MaxClock
PROOF BY FrameFacts DEF Stamp, DataOK

(* The record that is there, and the one the call makes of it. *)
LEMMA GetFacts ==
    ASSUME TypeInv, NEW t \in Tasks, pc[t] = "get",
           Admits(frame[t].call, frame[t].agent, store[frame[t].agent], Stamp(frame[t]))
    PROVE  Outcome(frame[t].call, frame[t].agent, store[frame[t].agent], Stamp(frame[t]))
             \in Record \cup {NoRecord}
PROOF
<1>. DEFINE f == frame[t]
<1>1. /\ f.call \in Call /\ f.agent \in Agents
      /\ f.call.op \notin {"observe", "export_snapshot", "import_snapshot"}
  BY FrameFacts DEF FrameFits, ChangeName, AdminOps
<1>2. store[f.agent] \in Record \cup {NoRecord}
  BY <1>1, FrameFacts DEF DataOK
<1>. QED  BY <1>1, <1>2, OutcomeIsRecord, StampIsTime

LEMMA UpdatingTypes ==
    ASSUME TypeInv, NEW t \in Tasks, Updating(t), UNCHANGED lock
    PROVE  TypeInv'
PROOF
<1>. DEFINE f == frame[t]
            rec == store[f.agent]
            new == Outcome(f.call, f.agent, rec, Stamp(f))
            phase == IF new = NoRecord THEN "delete" ELSE "put"
            g == [f EXCEPT !.read = rec, !.local = new]
<1>1. DataOK /\ DataOK'
  BY FrameFacts DEF DataOK, Updating
<1>2. /\ f \in Frame /\ f.call \in Call /\ f.agent \in Agents /\ f.call.op # "observe"
      /\ f.call.op \in ChangeName
  BY FrameFacts DEF FrameFits, Updating
<1>3. rec \in Record \cup {NoRecord} /\ new \in Record \cup {NoRecord}
  BY <1>1, <1>2, GetFacts DEF DataOK, Updating
<1>4. Goto(t, phase, g)
  BY DEF Updating
<1>. HIDE DEF new, rec
<1>5. g \in Frame /\ g.call = f.call /\ g.agent = f.agent /\ g.local = new
  BY <1>2, <1>3 DEF Frame
<1>6. FrameFits(phase, g) /\ phase \in Phases
  BY <1>2, <1>3, <1>5 DEF FrameFits, Phases
<1>. HIDE DEF g, phase
<1>. QED  BY <1>1, <1>4, <1>5, <1>6, GotoKeepsTypes

LEMMA GetForFlagTypes ==
    ASSUME TypeInv, NEW t \in Tasks, GetForFlag(t)
    PROVE  TypeInv'
PROOF
<1>. DEFINE f == frame[t]
            rec == store[f.agent]
            new == Outcome(f.call, f.agent, rec, clock)
            g == [f EXCEPT !.read = rec, !.local = new]
<1>1. DataOK /\ DataOK'
  BY FrameFacts, ReleaseKeepsType DEF DataOK, GetForFlag
<1>2. f \in Frame /\ f.call \in Call /\ f.agent \in Agents
  BY FrameFacts DEF FrameFits, GetForFlag
<1>3. f.call.op = "register_authority" /\ rec # NoRecord
  BY DEF GetForFlag
<1>4. rec \in Record
  BY <1>1, <1>2, <1>3 DEF DataOK
<1>5. new \in Record
  BY <1>3, <1>4 DEF Outcome, Record
<1>6. Goto(t, "reflag", g)
  BY DEF GetForFlag
<1>. HIDE DEF new, rec
<1>7. g \in Frame /\ g.call = f.call /\ g.agent = f.agent /\ g.local = new
  BY <1>2, <1>4, <1>5 DEF Frame
<1>8. FrameFits("reflag", g)
  BY <1>2, <1>3, <1>5, <1>7 DEF FrameFits, ChangeName
<1>. HIDE DEF g
<1>. QED  BY <1>1, <1>6, <1>7, <1>8, GotoKeepsTypes DEF Phases

(* An event about the change in hand, once there is a record to announce. *)
LEMMA AnnounceIsEvent ==
    ASSUME NEW f \in Frame, f.agent \in Agents, f.local \in Record,
           NEW type \in {"agent_registered", "evidence_submitted", "trust_updated",
                         "trust_threshold_crossed"}
    PROVE  Announce(type, f) \in Event
PROOF
<1>1. f.read \in Record \cup {NoRecord}
  BY DEF Frame
<1>2. OrNew(f.read, 0) \in Record
  BY <1>1, OrNewIsRecord
<1>3. OrNew(f.read, 0).opinion \in Opinion /\ f.local.opinion \in Opinion
  BY <1>2 DEF Record
<1>. QED  BY <1>3 DEF Announce, Event

(* A task that has events to deliver. *)
LEMMA EmittingTypes ==
    ASSUME TypeInv, DataOK', NEW t \in Tasks, NEW f \in Frame, f.call \in Call,
           f.call.op # "observe", f.agent \in Agents, NEW es \in Seq(Event), es # << >>,
           Goto(t, "emit", [f EXCEPT !.outbox = es])
    PROVE  TypeInv'
PROOF
<1>. DEFINE g == [f EXCEPT !.outbox = es]
<1>1. g \in Frame /\ g.call = f.call /\ g.agent = f.agent /\ g.outbox = es
  BY DEF Frame
<1>2. FrameFits("emit", g)
  BY <1>1 DEF FrameFits
<1>. HIDE DEF g
<1>3. Goto(t, "emit", g)
  BY DEF g
<1>. QED  BY <1>1, <1>2, <1>3, GotoKeepsTypes DEF Phases

LEMMA GetForNothingTypes ==
    ASSUME TypeInv, NEW t \in Tasks, GetForNothing(t)
    PROVE  TypeInv'
PROOF
<1>. DEFINE rec == store[frame[t].agent]
            new == OrNew(rec, clock)
            f == [frame[t] EXCEPT !.read = rec, !.local = new]
            es == <<Announce("trust_updated", f)>>
<1>1. DataOK /\ DataOK'
  BY FrameFacts DEF DataOK, GetForNothing
<1>2. frame[t] \in Frame /\ frame[t].call \in Call /\ frame[t].agent \in Agents
  BY FrameFacts DEF FrameFits, GetForNothing
<1>3. frame[t].call.op # "observe"
  BY DEF GetForNothing
<1>4. rec \in Record \cup {NoRecord} /\ clock \in Nat
  BY <1>1, <1>2, BoundsAreNat DEF DataOK
<1>5. new \in Record
  BY <1>4, OrNewIsRecord
<1>6. Goto(t, "emit", [f EXCEPT !.outbox = es])
  BY DEF GetForNothing
<1>. HIDE DEF new, rec
<1>7. f \in Frame /\ f.call = frame[t].call /\ f.agent = frame[t].agent /\ f.local = new
  BY <1>2, <1>4, <1>5 DEF Frame
<1>. HIDE DEF f
<1>8. es \in Seq(Event) /\ es # << >>
  BY <1>2, <1>5, <1>7, AnnounceIsEvent
<1>. HIDE DEF es
<1>. QED  BY <1>1, <1>2, <1>3, <1>6, <1>7, <1>8, EmittingTypes

(* A call that leaves the lock returns, a sweep goes on. *)
LEMMA ResumeTypes ==
    ASSUME TypeInv, DataOK', NEW t \in Tasks, NEW f \in Frame, f.call \in Call,
           f.call.op # "observe", Goto(t, Resume(f), f)
    PROVE  TypeInv'
PROOF
<1>1. Resume(f) \in Phases /\ FrameFits(Resume(f), f)
  BY DEF Resume, Phases, FrameFits
<1>. QED  BY <1>1, GotoKeepsTypes

LEMMA GetAndLeaveTypes ==
    ASSUME TypeInv, NEW t \in Tasks, GetAndLeave(t)
    PROVE  TypeInv'
PROOF
<1>1. DataOK /\ DataOK'
  BY FrameFacts, ReleaseKeepsType DEF DataOK, GetAndLeave
<1>2. frame[t] \in Frame /\ frame[t].call \in Call /\ frame[t].call.op # "observe"
  BY FrameFacts DEF FrameFits, GetAndLeave
<1>3. Goto(t, Resume(frame[t]), frame[t])
  BY DEF GetAndLeave
<1>. QED  BY <1>1, <1>2, <1>3, ResumeTypes

-----------------------------------------------------------------------------
(* The writes. *)
LEMMA AppliedKeepsType ==
    ASSUME applied \subseteq [call: Nat, op: ChangeName, agent: Agents],
           NEW f \in Frame, NEW op \in ChangeName, NEW a \in Agents, Applied(f, op, a)
    PROVE  applied' \subseteq [call: Nat, op: ChangeName, agent: Agents]
PROOF
<1>1. f.id \in Nat
  BY DEF Frame
<1>. QED  BY <1>1 DEF Applied

LEMMA WriteFacts ==
    ASSUME TypeInv, NEW t \in Tasks, Write(t), lock' \in Tasks \cup {NoTask}
    PROVE  /\ DataOK'
           /\ frame[t] \in Frame /\ frame[t].call \in Call
           /\ frame[t].call.op # "observe"
           /\ frame[t].agent \in Agents /\ frame[t].local \in Record
PROOF
<1>. DEFINE f == frame[t]
<1>1. /\ DataOK /\ f \in Frame /\ f.call \in Call /\ f.call.op # "observe"
      /\ f.agent \in Agents /\ f.local \in Record
  BY FrameFacts DEF FrameFits, Write
<1>2. f.call.op \in ChangeName
  BY FrameFacts DEF FrameFits, Write
<1>3. applied' \subseteq [call: Nat, op: ChangeName, agent: Agents]
  BY <1>1, <1>2, AppliedKeepsType DEF DataOK, Write
<1>4. store' \in [Agents -> Record \cup {NoRecord}]
  BY <1>1 DEF DataOK, Write
<1>. QED  BY <1>1, <1>3, <1>4 DEF DataOK, Write

LEMMA PutEvidenceTypes ==
    ASSUME TypeInv, NEW t \in Tasks, PutEvidence(t)
    PROVE  TypeInv'
PROOF
<1>. DEFINE f == frame[t]
<1>1. f.call.op \in Submissions /\ lock' \in Tasks \cup {NoTask} /\ Write(t)
  BY FrameFacts DEF PutEvidence, DataOK
<1>2. /\ DataOK' /\ f \in Frame /\ f.call \in Call
      /\ f.agent \in Agents /\ f.local \in Record
  BY <1>1, WriteFacts DEF Submissions
<1>3. FrameFits("ledger", f)
  BY <1>1, <1>2, CallKinds DEF FrameFits, Submissions
<1>4. Goto(t, "ledger", f)
  BY DEF PutEvidence
<1>. QED  BY <1>2, <1>3, <1>4, GotoKeepsTypes DEF Phases

LEMMA PutAndAnnounceTypes ==
    ASSUME TypeInv, NEW t \in Tasks, PutAndAnnounce(t)
    PROVE  TypeInv'
PROOF
<1>. DEFINE f == frame[t]
            type == IF f.call.op \in {"register_agent", "register_authority"}
                    THEN "agent_registered" ELSE "trust_updated"
            es == <<Announce(type, f)>>
<1>1. /\ lock' \in Tasks \cup {NoTask} /\ Write(t)
  BY FrameFacts DEF PutAndAnnounce, Announcing, DataOK
<1>2. /\ DataOK' /\ f \in Frame /\ f.call \in Call /\ f.call.op # "observe"
      /\ f.agent \in Agents /\ f.local \in Record
  BY <1>1, WriteFacts
<1>3. es \in Seq(Event) /\ es # << >>
  BY <1>2, AnnounceIsEvent
<1>4. Goto(t, "emit", [f EXCEPT !.outbox = es])
  BY DEF PutAndAnnounce, Announcing
<1>. HIDE DEF es
<1>. QED  BY <1>2, <1>3, <1>4, EmittingTypes

LEMMA PutFlagTypes ==
    ASSUME TypeInv, NEW t \in Tasks, PutFlag(t)
    PROVE  TypeInv'
PROOF
<1>1. /\ lock' \in Tasks \cup {NoTask} /\ Write(t)
  BY FrameFacts, ReleaseKeepsType DEF PutFlag, DataOK
<1>2. DataOK'
  BY <1>1, WriteFacts
<1>3. Goto(t, "idle", frame[t])
  BY DEF PutFlag
<1>. QED  BY <1>2, <1>3, GotoKeepsTypes DEF Phases

LEMMA PutAdminTypes ==
    ASSUME TypeInv, NEW t \in Tasks, PutAdmin(t)
    PROVE  TypeInv'
PROOF
<1>. DEFINE f == frame[t]
<1>1. /\ lock' \in Tasks \cup {NoTask} /\ Write(t)
  BY FrameFacts, ReleaseKeepsType DEF PutAdmin, DataOK, AdminOps
<1>2. /\ DataOK' /\ f \in Frame /\ f.call \in Call /\ f.call.op # "observe"
      /\ f.agent \in Agents
  BY <1>1, WriteFacts
<1>3. <<f.agent>> \in Seq(Agents)
  BY <1>2
<1>4. Goto(t, "audit", Auditing(f, <<f.agent>>))
  BY DEF PutAdmin
<1>. QED  BY <1>2, <1>3, <1>4, AuditingTypes, GotoKeepsTypes DEF Phases

LEMMA DeleteTypes ==
    ASSUME TypeInv, NEW t \in Tasks, Delete(t)
    PROVE  TypeInv'
PROOF
<1>. DEFINE f == frame[t]
<1>1. /\ DataOK /\ f \in Frame /\ f.call \in Call /\ f.agent \in Agents
      /\ f.call.op \in ChangeName /\ f.call.op # "observe"
  BY FrameFacts DEF FrameFits, Delete
<1>2. applied' \subseteq [call: Nat, op: ChangeName, agent: Agents]
  BY <1>1, AppliedKeepsType DEF Delete, DataOK
<1>3. lock' \in Tasks \cup {NoTask}
  BY <1>1, ReleaseKeepsType DEF Delete, DataOK
<1>4. store' \in [Agents -> Record \cup {NoRecord}]
  BY <1>1 DEF Delete, DataOK
<1>5. DataOK'
  BY <1>1, <1>2, <1>3, <1>4 DEF Delete, DataOK
<1>6. <<f.agent>> \in Seq(Agents)
  BY <1>1
<1>7. CASE Goto(t, "audit", Auditing(f, <<f.agent>>))
  BY <1>1, <1>5, <1>6, <1>7, AuditingTypes, GotoKeepsTypes DEF Phases
<1>8. CASE Goto(t, Resume(f), f)
  BY <1>1, <1>5, <1>8, ResumeTypes
<1>. QED  BY <1>7, <1>8 DEF Delete

-----------------------------------------------------------------------------
(* import_snapshot. *)

(* The locals of an import that has records left to visit. *)
LEMMA ImportingTypes ==
    ASSUME TypeInv, DataOK', NEW t \in Tasks, NEW f \in Frame, f.call \in ImportCall,
           NEW phase \in {"wipe", "load"}, NEW left \in SUBSET Agents,
           NEW ids \in Seq(Agents),
           Goto(t, phase, [f EXCEPT !.todo = left, !.done = ids])
    PROVE  TypeInv'
PROOF
<1>. DEFINE g == [f EXCEPT !.todo = left, !.done = ids]
<1>1. g \in Frame /\ g.call = f.call
  BY DEF Frame
<1>2. f.call \in Call /\ f.call.op # "observe"
  BY DEF Call, ImportCall
<1>3. FrameFits(phase, g) /\ phase \in Phases
  BY <1>1, <1>2 DEF FrameFits, Phases
<1>. HIDE DEF g
<1>4. Goto(t, phase, g)
  BY DEF g
<1>. QED  BY <1>1, <1>3, <1>4, GotoKeepsTypes

(* Listing ids leaves the list of written ids alone. *)
LEMMA TodoOnly ==
    ASSUME NEW f \in Frame, NEW left
    PROVE  [f EXCEPT !.todo = left] = [f EXCEPT !.todo = left, !.done = f.done]
PROOF BY DEF Frame

LEMMA ImportFacts ==
    ASSUME TypeInv, NEW t \in Tasks, pc[t] \in {"ids", "wipe", "load"}
    PROVE  /\ DataOK /\ frame[t] \in Frame /\ frame[t].call \in ImportCall
           /\ frame[t].call \in Call /\ frame[t].call.op # "observe"
           /\ frame[t].todo \in SUBSET Agents /\ frame[t].done \in Seq(Agents)
           /\ frame[t].call.snapshot \in Snapshot
PROOF BY FrameFacts DEF FrameFits, ImportCall

LEMMA ImportListTypes ==
    ASSUME TypeInv, NEW t \in Tasks, ImportList(t)
    PROVE  TypeInv'
PROOF
<1>1. DataOK'
  BY FrameFacts DEF DataOK, ImportList
<1>2. StoredIds \in SUBSET Agents
  BY DEF StoredIds, Included
<1>3. Goto(t, "wipe", [frame[t] EXCEPT !.todo = StoredIds, !.done = frame[t].done])
  BY TodoOnly, ImportFacts DEF ImportList
<1>. QED  BY <1>1, <1>2, <1>3, ImportFacts, ImportingTypes DEF ImportList

LEMMA ImportWipeTypes ==
    ASSUME TypeInv, NEW t \in Tasks, ImportWipe(t)
    PROVE  TypeInv'
PROOF
<1>. DEFINE f == frame[t]
<1>1. /\ DataOK /\ f \in Frame /\ f.call \in ImportCall /\ f.todo \in SUBSET Agents
      /\ f.done \in Seq(Agents)
  BY ImportFacts DEF ImportWipe
<1>2. ASSUME NEW a \in f.todo, store' = [store EXCEPT ![a] = NoRecord],
             Applied(f, "wipe", a), Goto(t, "wipe", [f EXCEPT !.todo = @ \ {a}])
      PROVE  TypeInv'
  <2>1. a \in Agents /\ "wipe" \in ChangeName
    BY <1>1, <1>2 DEF ChangeName, AdminOps
  <2>2. applied' \subseteq [call: Nat, op: ChangeName, agent: Agents]
    BY <1>1, <1>2, <2>1, AppliedKeepsType DEF DataOK
  <2>3. DataOK'
    BY <1>1, <1>2, <2>1, <2>2 DEF DataOK, ImportWipe
  <2>4. Goto(t, "wipe", [f EXCEPT !.todo = f.todo \ {a}, !.done = f.done])
    BY <1>1, <1>2, TodoOnly
  <2>. QED  BY <1>1, <2>3, <2>4, ImportingTypes
<1>3. ASSUME UNCHANGED <<store, applied>>,
             Goto(t, "load", [f EXCEPT !.todo = Included(f.call.snapshot)])
      PROVE  TypeInv'
  <2>1. DataOK'
    BY <1>1, <1>3 DEF DataOK, ImportWipe
  <2>2. Goto(t, "load", [f EXCEPT !.todo = Included(f.call.snapshot), !.done = f.done])
    BY <1>1, <1>3, TodoOnly
  <2>3. Included(f.call.snapshot) \in SUBSET Agents
    BY DEF Included
  <2>. QED  BY <1>1, <2>1, <2>2, <2>3, ImportingTypes
<1>. QED  BY <1>2, <1>3 DEF ImportWipe

LEMMA ImportLoadTypes ==
    ASSUME TypeInv, NEW t \in Tasks, ImportLoad(t)
    PROVE  TypeInv'
PROOF
<1>. DEFINE f == frame[t]
<1>1. /\ DataOK /\ f \in Frame /\ f.call \in ImportCall /\ f.todo \in SUBSET Agents
      /\ f.done \in Seq(Agents) /\ f.call \in Call /\ f.call.op # "observe"
  BY ImportFacts DEF ImportLoad
<1>2. ASSUME NEW a \in f.todo, store' = [store EXCEPT ![a] = f.call.snapshot[a]],
             Applied(f, "load", a), UNCHANGED lock,
             Goto(t, "load", [f EXCEPT !.todo = @ \ {a}, !.done = Append(@, a)])
      PROVE  TypeInv'
  <2>1. a \in Agents /\ "load" \in ChangeName
    BY <1>1, <1>2 DEF ChangeName, AdminOps
  <2>2. applied' \subseteq [call: Nat, op: ChangeName, agent: Agents]
    BY <1>1, <1>2, <2>1, AppliedKeepsType DEF DataOK
  <2>3. f.call.snapshot[a] \in Record \cup {NoRecord}
    BY <2>1, ImportFacts DEF ImportLoad, Snapshot
  <2>4. DataOK'
    BY <1>1, <1>2, <2>1, <2>2, <2>3 DEF DataOK, ImportLoad
  <2>5. Append(f.done, a) \in Seq(Agents)
    BY <1>1, <2>1
  <2>6. Goto(t, "load", [f EXCEPT !.todo = f.todo \ {a}, !.done = Append(f.done, a)])
    BY <1>2
  <2>. QED  BY <1>1, <2>4, <2>5, <2>6, ImportingTypes
<1>3. ASSUME UNCHANGED <<store, applied>>, Release(t),
             Goto(t, "audit", Auditing(f, f.done))
      PROVE  TypeInv'
  <2>1. DataOK'
    BY <1>1, <1>3, ReleaseKeepsType DEF DataOK, ImportLoad
  <2>. QED  BY <1>1, <1>3, <2>1, AuditingTypes, GotoKeepsTypes DEF Phases
<1>. QED  BY <1>2, <1>3 DEF ImportLoad

-----------------------------------------------------------------------------
(* The ledger and the bus. *)
LEMMA EvidenceEntryIsEntry ==
    ASSUME NEW f \in Frame, f.call \in SubmitCall, f.agent \in Agents,
           NEW type \in {"evidence", "discounted_opinion"}
    PROVE  EvidenceEntry(f, type) \in Entry
PROOF
<1>1. f.call.evidence \in Evidence /\ f.id \in Nat
  BY DEF SubmitCall, EvidenceCall, DiscountedCall, Frame
<1>. QED  BY <1>1 DEF EvidenceEntry, Entry

LEMMA LedgerFacts ==
    ASSUME TypeInv, NEW t \in Tasks, pc[t] = "ledger"
    PROVE  /\ DataOK /\ frame[t] \in Frame /\ frame[t].call \in SubmitCall
           /\ frame[t].call \in Call /\ frame[t].call.op # "observe"
           /\ frame[t].agent \in Agents /\ frame[t].local \in Record
PROOF BY FrameFacts DEF FrameFits

LEMMA ConcatNotEmpty ==
    ASSUME NEW S, NEW s \in Seq(S), NEW u \in Seq(S), s # << >>
    PROVE  s \o u \in Seq(S) /\ s \o u # << >>
PROOF
<1>1. Len(s \o u) = Len(s) + Len(u) /\ s \o u \in Seq(S) /\ Len(u) \in Nat /\ Len(s) \in Nat
  OBVIOUS
<1>2. Len(s) # 0
  OBVIOUS
<1>3. Len(s \o u) # 0
  BY <1>1, <1>2
<1>. QED  BY <1>1, <1>3

LEMMA JournalEvidenceTypes ==
    ASSUME TypeInv, NEW t \in Tasks, JournalEvidence(t)
    PROVE  TypeInv'
PROOF
<1>. DEFINE f == frame[t]
            es == <<Announce("evidence_submitted", f), Announce("trust_updated", f)>>
            all == es \o Crossing(f)
<1>1. /\ DataOK /\ f \in Frame /\ f.call \in SubmitCall /\ f.call \in Call
      /\ f.call.op # "observe" /\ f.agent \in Agents /\ f.local \in Record
  BY LedgerFacts DEF JournalEvidence
<1>2. EvidenceEntry(f, "evidence") \in Entry
  BY <1>1, EvidenceEntryIsEntry
<1>3. DataOK'
  BY <1>1, <1>2 DEF DataOK, JournalEvidence
<1>4. /\ Announce("evidence_submitted", f) \in Event
      /\ Announce("trust_updated", f) \in Event
      /\ Announce("trust_threshold_crossed", f) \in Event
  BY <1>1, AnnounceIsEvent
<1>5. Crossing(f) \in Seq(Event)
  BY <1>4 DEF Crossing
<1>6. es \in Seq(Event) /\ es # << >>
  BY <1>4
<1>7. Goto(t, "emit", [f EXCEPT !.outbox = all])
  BY DEF JournalEvidence
<1>. HIDE DEF es
<1>8. all \in Seq(Event) /\ all # << >>
  BY <1>5, <1>6, ConcatNotEmpty
<1>. HIDE DEF all
<1>. QED  BY <1>1, <1>3, <1>7, <1>8, EmittingTypes

LEMMA JournalDiscountedTypes ==
    ASSUME TypeInv, NEW t \in Tasks, JournalDiscounted(t)
    PROVE  TypeInv'
PROOF
<1>. DEFINE f == frame[t]
<1>1. DataOK /\ f \in Frame /\ f.call \in SubmitCall /\ f.agent \in Agents
  BY LedgerFacts DEF JournalDiscounted
<1>2. EvidenceEntry(f, "discounted_opinion") \in Entry
  BY <1>1, EvidenceEntryIsEntry
<1>3. DataOK'
  BY <1>1, <1>2, ReleaseKeepsType DEF DataOK, JournalDiscounted
<1>4. Goto(t, "idle", f)
  BY DEF JournalDiscounted
<1>. QED  BY <1>3, <1>4, GotoKeepsTypes DEF Phases

LEMMA EmitTypes ==
    ASSUME TypeInv, NEW t \in Tasks, Emit(t)
    PROVE  TypeInv'
PROOF
<1>. DEFINE f == frame[t]
            rest == Tail(f.outbox)
<1>1. /\ DataOK /\ f \in Frame /\ f.call \in Call /\ f.call.op # "observe"
      /\ f.agent \in Agents /\ f.outbox \in Seq(Event) /\ f.outbox # << >>
  BY FrameFacts DEF FrameFits, Emit
<1>2. Head(f.outbox) \in Event /\ rest \in Seq(Event)
  BY <1>1
<1>3. DataOK'
  BY <1>1, <1>2, ReleaseKeepsType DEF DataOK, Emit
<1>4. CASE rest # << >> /\ Goto(t, "emit", [f EXCEPT !.outbox = rest])
  <2>. HIDE DEF rest
  <2>. QED  BY <1>1, <1>2, <1>3, <1>4, EmittingTypes
<1>5. CASE Goto(t, Resume(f), [f EXCEPT !.outbox = rest])
  <2>. DEFINE g == [f EXCEPT !.outbox = rest]
  <2>1. g \in Frame /\ g.call = f.call
    BY <1>1, <1>2 DEF Frame
  <2>2. Resume(g) = Resume(f)
    BY <2>1 DEF Resume
  <2>3. Goto(t, Resume(g), g)
    BY <1>5, <2>2
  <2>. HIDE DEF g
  <2>. QED  BY <1>1, <1>3, <2>1, <2>3, ResumeTypes
<1>. QED  BY <1>4, <1>5 DEF Emit

LEMMA AuditTypes ==
    ASSUME TypeInv, NEW t \in Tasks, Audit(t)
    PROVE  TypeInv'
PROOF
<1>. DEFINE f == frame[t]
            rest == Tail(f.trail)
            after == IF f.call.op = "reset_agents" THEN "next" ELSE "idle"
            phase == IF rest = << >> THEN after ELSE "audit"
            g == [f EXCEPT !.trail = rest]
<1>1. /\ DataOK /\ f \in Frame /\ f.call \in Call /\ f.call.op # "observe" /\ f.id \in Nat
      /\ f.done \in Seq(Agents) /\ f.trail \in Seq(Agents \cup {Admin}) /\ f.trail # << >>
  BY FrameFacts DEF FrameFits, Audit
<1>2. Head(f.trail) \in Agents \cup {Admin} /\ rest \in Seq(Agents \cup {Admin})
  BY <1>1
<1>3. {f.done[i] : i \in DOMAIN f.done} \in SUBSET Agents
  BY <1>1
<1>4. AdminEntry(f, Head(f.trail)) \in Entry
  BY <1>1, <1>2, <1>3 DEF AdminEntry, Entry
<1>5. DataOK'
  <2>. DEFINE e == AdminEntry(f, Head(f.trail))
  <2>1. ledger' = Append(ledger, e) /\ UNCHANGED <<clock, store, lock, events, started, applied>>
    BY DEF Audit
  <2>. HIDE DEF e, f
  <2>2. e \in Entry
    BY <1>4 DEF e, f
  <2>3. ledger' \in Seq(Entry)
    BY <1>1, <2>1, <2>2 DEF DataOK
  <2>. QED  BY <1>1, <2>1, <2>3 DEF DataOK
<1>6. Goto(t, phase, g)
  BY DEF Audit
<1>. HIDE DEF rest
<1>7. g \in Frame /\ g.call = f.call /\ g.trail = rest
  BY <1>1, <1>2 DEF Frame
<1>8. phase \in Phases /\ FrameFits(phase, g)
  BY <1>1, <1>7 DEF Phases, FrameFits
<1>. HIDE DEF g, phase
<1>. QED  BY <1>5, <1>6, <1>7, <1>8, GotoKeepsTypes

-----------------------------------------------------------------------------
LEMMA FaultTypes ==
    ASSUME TypeInv, NEW t \in Tasks, Fault(t)
    PROVE  TypeInv'
PROOF
<1>1. DataOK'
  BY FrameFacts, ReleaseKeepsType DEF DataOK, Fault
<1>2. Goto(t, "idle", frame[t])
  BY DEF Fault
<1>. QED  BY <1>1, <1>2, GotoKeepsTypes DEF Phases

LEMMA LostReplyTypes ==
    ASSUME TypeInv, NEW t \in Tasks, LostReply(t)
    PROVE  TypeInv'
PROOF
<1>. DEFINE f == frame[t]
<1>1. /\ DataOK /\ f \in Frame /\ f.agent \in Agents /\ f.call.op \in ChangeName
      /\ f.local \in Record \cup {NoRecord}
  BY FrameFacts DEF FrameFits, LostReply
<1>2. applied' \subseteq [call: Nat, op: ChangeName, agent: Agents]
  BY <1>1, AppliedKeepsType DEF LostReply, DataOK
<1>3. lock' \in Tasks \cup {NoTask}
  BY <1>1, ReleaseKeepsType DEF LostReply, DataOK
<1>4. store' \in [Agents -> Record \cup {NoRecord}]
  BY <1>1 DEF LostReply, DataOK
<1>5. DataOK'
  BY <1>1, <1>2, <1>3, <1>4 DEF LostReply, DataOK
<1>6. Goto(t, "idle", f)
  BY DEF LostReply
<1>. QED  BY <1>5, <1>6, GotoKeepsTypes DEF Phases

LEMMA InitTypes == Init => TypeInv
PROOF
<1>. SUFFICES ASSUME Init PROVE TypeInv
  OBVIOUS
<1>1. DataOK
  <2>1. << >> \in Seq(Entry) /\ << >> \in Seq(Event)
    OBVIOUS
  <2>. QED  BY <2>1, BoundsAreNat DEF Init, DataOK
<1>2. pc \in [Tasks -> Phases] /\ frame \in [Tasks -> Frame]
  BY BlankIsFrame DEF Init, Phases
<1>3. \A t \in Tasks : FrameFits(pc[t], frame[t])
  BY DEF Init, FrameFits
<1>. QED  BY <1>1, <1>2, <1>3 DEF TypeInv, TypeOK, DataOK

(* Every step keeps the types. *)
LEMMA StepTypes == TypeInv /\ [Next]_vars => TypeInv'
PROOF
<1>. SUFFICES ASSUME TypeInv, [Next]_vars PROVE TypeInv'
  OBVIOUS
<1>1. ASSUME NEW t \in Tasks, Continue(t)
      PROVE  TypeInv'
  BY <1>1, PeekTypes, ListAgentsTypes, NextAgentTypes, ExportRecordTypes, UpdatingTypes,
     GetForFlagTypes, GetForNothingTypes, GetAndLeaveTypes, PutEvidenceTypes,
     PutAndAnnounceTypes, PutFlagTypes, PutAdminTypes, DeleteTypes, ImportListTypes,
     ImportWipeTypes, ImportLoadTypes, JournalEvidenceTypes, JournalDiscountedTypes,
     EmitTypes, AuditTypes
     DEF Continue, GetForUpdate
<1>2. ASSUME NEW t \in Tasks, Invoke(t) \/ Acquire(t) \/ Fault(t) \/ LostReply(t)
      PROVE  TypeInv'
  BY <1>2, InvokeTypes, AcquireTypes, FaultTypes, LostReplyTypes
<1>3. CASE Tick
  BY <1>3, BoundsAreNat DEF Tick, TypeInv, TypeOK
<1>4. CASE UNCHANGED vars
  BY <1>4 DEF vars, TypeInv, TypeOK
<1>. QED  BY <1>1, <1>2, <1>3, <1>4 DEF Next, Rest

(* Type correctness of trust_manager.py's interleavings: whatever the calls
   and however they interleave and fail, the store holds records, a task that
   is about to write has computed a record, ledger entries and events are about
   known agents. *)
THEOREM TypeCorrect == Spec => []TypeOK
PROOF
<1>1. TypeInv => TypeOK
  BY DEF TypeInv
<1>. QED  BY <1>1, InitTypes, StepTypes, PTL DEF Spec

-----------------------------------------------------------------------------
(***************************************************************************)
(* What the asyncio lock buys: as long as every call keeps its read and    *)
(* its write of a record in one critical section, concurrent calls change  *)
(* the store as if each of them were a single step.                        *)
(*                                                                         *)
(* Two methods do not: deregister_agent deletes without the asyncio lock   *)
(* (trust_manager.py:807-809) and register_authority of a plain agent      *)
(* reads in one critical section and writes in another (789-805).  The     *)
(* theorems are about callers that use neither; run deregister_race shows  *)
(* what happens with the first.                                            *)
(***************************************************************************)

OnlyLockedUpdates ==
    \A c \in Requests : c.op \notin {"deregister_agent", "register_authority"}

(* Where a call in hand comes from. *)
Origin == Effects \cup Observations \cup Imports

(* What task t, which awaits p with locals f, may rely on while `holder` has
   the lock. *)
HoldsLock(holder, t, p, f) ==
    /\ p \in Locked => holder = t
    /\ p # "idle" => f.call \in Origin
                     /\ f.call.op \notin {"deregister_agent", "register_authority"}
    /\ p # "reflag"
    /\ p \in {"ids", "wipe"} => f.call.replace
    /\ p = "load" => f.todo \subseteq Included(f.call.snapshot)

(* A write in hand is the effect of its call on the record in `records`. *)
WriteIsCurrent(records, p, f) ==
    p \in {"put", "delete"} =>
        /\ f.read = records[f.agent]
        /\ p = "delete" => f.local = NoRecord
        /\ \E ts \in 0..MaxClock :
              /\ Admits(f.call, f.agent, f.read, ts)
              /\ f.local = Outcome(f.call, f.agent, f.read, ts)

AtomicInv ==
    /\ TypeInv
    /\ \A t \in Tasks :
          HoldsLock(lock, t, pc[t], frame[t]) /\ WriteIsCurrent(store, pc[t], frame[t])

-----------------------------------------------------------------------------
(* The task that moved is not the only one to look at: the others keep what
   they rely on, because only the holder of the lock writes or releases. *)
LEMMA OthersKeep ==
    ASSUME AtomicInv, NEW t \in Tasks, NEW s \in Tasks, s # t,
           pc'[s] = pc[s], frame'[s] = frame[s],
           \/ lock' = lock
           \/ lock = t
           \/ lock = NoTask,
           \/ store' = store
           \/ lock = t
    PROVE  HoldsLock(lock', s, pc[s], frame[s]) /\ WriteIsCurrent(store', pc[s], frame[s])
PROOF
<1>1. HoldsLock(lock, s, pc[s], frame[s]) /\ WriteIsCurrent(store, pc[s], frame[s])
  BY DEF AtomicInv
<1>2. NoTask # s
  BY Distinct
<1>3. HoldsLock(lock', s, pc[s], frame[s])
  BY <1>1, <1>2 DEF HoldsLock
<1>4. WriteIsCurrent(store', pc[s], frame[s])
  <2>1. CASE pc[s] \in {"put", "delete"}
    <3>1. lock = s
      BY <1>1, <2>1 DEF HoldsLock, Locked
    <3>2. store' = store
      BY <3>1
    <3>. QED  BY <1>1, <3>2 DEF WriteIsCurrent
  <2>2. CASE pc[s] \notin {"put", "delete"}
    BY <2>2 DEF WriteIsCurrent
  <2>. QED  BY <2>1, <2>2
<1>. QED  BY <1>3, <1>4

(* A step of one task: what it moves on with has to be safe to rely on. *)
LEMMA GotoKeepsAtomic ==
    ASSUME AtomicInv, TypeInv', NEW t \in Tasks, NEW phase, NEW f, Goto(t, phase, f),
           \/ lock' = lock
           \/ lock = t
           \/ lock = NoTask,
           \/ store' = store
           \/ lock = t,
           phase # "idle" => HoldsLock(lock', t, phase, f) /\ WriteIsCurrent(store', phase, f)
    PROVE  AtomicInv'
PROOF
<1>. DEFINE g == IF phase = "idle" THEN Blank ELSE f
<1>0. pc \in [Tasks -> Phases] /\ frame \in [Tasks -> Frame]
  BY DEF AtomicInv, TypeInv, TypeOK
<1>1. pc' = [pc EXCEPT ![t] = phase] /\ frame' = [frame EXCEPT ![t] = g]
  BY DEF Goto
<1>2. HoldsLock(lock', t, phase, g) /\ WriteIsCurrent(store', phase, g)
  <2>1. CASE phase = "idle"
    BY <2>1 DEF HoldsLock, WriteIsCurrent, Locked
  <2>2. CASE phase # "idle"
    BY <2>2
  <2>. QED  BY <2>1, <2>2
<1>. HIDE DEF g
<1>3. ASSUME NEW s \in Tasks
      PROVE  HoldsLock(lock', s, pc'[s], frame'[s]) /\ WriteIsCurrent(store', pc'[s], frame'[s])
  <2>1. CASE s = t
    <3>1. pc'[s] = phase /\ frame'[s] = g
      BY <1>0, <1>1, <2>1
    <3>. QED  BY <1>2, <2>1, <3>1 DEF HoldsLock, WriteIsCurrent
  <2>2. CASE s # t
    <3>1. pc'[s] = pc[s] /\ frame'[s] = frame[s]
      BY <1>0, <1>1, <2>2
    <3>. QED  BY <2>2, <3>1, OthersKeep
  <2>. QED  BY <2>1, <2>2
<1>. QED  BY <1>3 DEF AtomicInv

LEMMA AtomicFacts ==
    ASSUME AtomicInv, NEW t \in Tasks
    PROVE  /\ TypeInv
           /\ HoldsLock(lock, t, pc[t], frame[t]) /\ WriteIsCurrent(store, pc[t], frame[t])
           /\ pc[t] \in Locked => lock = t
           /\ pc[t] # "idle" => /\ frame[t].call \in Origin
                                /\ frame[t].call.op # "deregister_agent"
                                /\ frame[t].call.op # "register_authority"
PROOF BY DEF AtomicInv, HoldsLock

LEMMA ReleaseIsOwn ==
    ASSUME NEW t, Release(t)
    PROVE  lock' = lock \/ lock = t
PROOF BY DEF Release

(* What observe submits is an effect, with and without a record of its own. *)
LEMMA SubmissionIsEffect ==
    ASSUME NEW c \in Observations, NEW own \in Owners
    PROVE  Submission(c, own) \in Effects
PROOF
<1>. DEFINE x == <<c, own>>
<1>1. x \in Observations \X Owners /\ x[1] = c /\ x[2] = own
  OBVIOUS
<1>. HIDE DEF x
<1>2. Submission(x[1], x[2]) \in {Submission(y[1], y[2]) : y \in Observations \X Owners}
  BY <1>1
<1>3. Submission(c, own) \in {Submission(y[1], y[2]) : y \in Observations \X Owners}
  BY <1>1, <1>2
<1>. QED  BY <1>3 DEF Effects

(* A call that is no observation and no import is an effect. *)
LEMMA OriginKinds ==
    ASSUME NEW c \in Origin
    PROVE  /\ c.op \notin {"observe", "import_snapshot"} => c \in Effects
           /\ c.op = "observe" => c \in Observations
           /\ c.op = "import_snapshot" => c \in Imports
PROOF
<1>1. CASE c \in Requests
  BY <1>1 DEF Effects, Observations, Imports
<1>2. CASE \E d \in Observations, own \in Owners : c = Submission(d, own)
  <2>1. c \in Effects
    BY <1>2, SubmissionIsEffect
  <2>2. c.op \in {"submit_evidence", "submit_discounted_opinion"}
    BY <1>2 DEF Submission
  <2>. QED  BY <2>1, <2>2
<1>3. CASE c = [op |-> "wipe"] /\ c \in Effects
  BY <1>3
<1>4. CASE (\E d \in Imports : c = [op |-> "load", snapshot |-> d.snapshot]) /\ c \in Effects
  BY <1>4
<1>5. c \in Effects => \/ c \in Requests
                       \/ \E d \in Observations, own \in Owners : c = Submission(d, own)
                       \/ c = [op |-> "wipe"]
                       \/ \E d \in Imports : c = [op |-> "load", snapshot |-> d.snapshot]
  BY DEF Effects
<1>6. c \in Requests \/ c \in Effects
  BY DEF Origin, Observations, Imports
<1>. QED  BY <1>1, <1>2, <1>3, <1>4, <1>5, <1>6

LEMMA RequestIsOrigin == Requests \subseteq Origin
PROOF
<1>1. Requests \ (Observations \cup Imports) \subseteq Effects
  BY DEF Effects
<1>. QED  BY <1>1 DEF Origin

(* Away from the lock there is nothing to rely on but the call. *)
LEMMA OutsideLock ==
    ASSUME AtomicInv, NEW t \in Tasks, pc[t] # "idle", NEW phase, NEW f,
           f.call = frame[t].call,
           phase \notin Locked \cup {"reflag"}
    PROVE  HoldsLock(lock', t, phase, f) /\ WriteIsCurrent(store', phase, f)
PROOF
<1>1. phase \notin {"put", "delete", "ids", "wipe", "load"}
  BY DEF Locked
<1>. QED  BY <1>1, AtomicFacts DEF HoldsLock, WriteIsCurrent

-----------------------------------------------------------------------------
LEMMA InvokeAtomic ==
    ASSUME OnlyLockedUpdates, AtomicInv, TypeInv', NEW t \in Tasks, Invoke(t)
    PROVE  AtomicInv'
PROOF
<1>1. PICK c \in Requests :
         Goto(t, FirstAwait(c),
              [Blank EXCEPT !.call = c, !.id = started + 1,
                            !.agent = IF c.op \in Bulk THEN Admin ELSE c.agent])
  BY DEF Invoke
<1>. DEFINE f == [Blank EXCEPT !.call = c, !.id = started + 1,
                               !.agent = IF c.op \in Bulk THEN Admin ELSE c.agent]
<1>2. f.call = c
  BY DEF Blank
<1>. HIDE DEF f
<1>3. c.op \notin {"deregister_agent", "register_authority"} /\ c \in Origin
  BY RequestIsOrigin DEF OnlyLockedUpdates
<1>4. FirstAwait(c) \in {"list", "peek", "wait"}
  BY <1>3 DEF FirstAwait
<1>5. HoldsLock(lock', t, FirstAwait(c), f) /\ WriteIsCurrent(store', FirstAwait(c), f)
  BY <1>2, <1>3, <1>4 DEF HoldsLock, WriteIsCurrent, Locked
<1>6. UNCHANGED <<store, lock>> /\ Goto(t, FirstAwait(c), f)
  BY <1>1 DEF Invoke, f
<1>. QED  BY <1>5, <1>6, GotoKeepsAtomic

LEMMA PeekAtomic ==
    ASSUME AtomicInv, TypeInv', NEW t \in Tasks, Peek(t)
    PROVE  AtomicInv'
PROOF
<1>. DEFINE f == frame[t]
            own == store[f.call.by]
            c == Submission(f.call, own)
            g == [f EXCEPT !.call = c]
<1>1. /\ f \in Frame /\ f.call \in ObserveCall /\ f.call \in Origin
      /\ own \in Record \cup {NoRecord}
  <2>1. f \in Frame /\ f.call \in ObserveCall /\ DataOK
    BY AtomicFacts, FrameFacts DEF Peek, FrameFits
  <2>2. f.call.by \in Agents
    BY <2>1 DEF ObserveCall
  <2>3. own \in Record \cup {NoRecord}
    BY <2>1, <2>2 DEF DataOK
  <2>. QED  BY <2>1, <2>3, AtomicFacts DEF Peek
<1>2. f.call \in Observations
  BY <1>1, OriginKinds DEF ObserveCall
<1>3. c \in Effects /\ c.op \notin {"deregister_agent", "register_authority"}
  <2>1. CASE own = NoRecord
    <3>1. c = Submission(f.call, NoRecord) /\ c.op = "submit_evidence"
      BY <2>1 DEF Submission
    <3>. QED  BY <1>2, <3>1, SubmissionIsEffect DEF Owners
  <2>2. CASE own # NoRecord
    <3>. DEFINE r == NewRecord(own.opinion, FALSE, 0)
    <3>1. own.opinion \in Opinion
      BY <1>1, <2>2 DEF Record
    <3>2. r \in Record /\ r.opinion = own.opinion
      BY <3>1 DEF NewRecord, Record
    <3>3. r # NoRecord
      BY <3>2, NoRecordIsNone
    <3>. HIDE DEF r
    <3>4. c = Submission(f.call, r)
      BY <2>2, <3>2, <3>3 DEF Submission
    <3>5. Submission(f.call, r) \in Effects
      BY <1>2, <3>1, SubmissionIsEffect DEF r, Owners
    <3>6. c.op = "submit_discounted_opinion"
      BY <2>2 DEF Submission
    <3>. QED  BY <3>4, <3>5, <3>6
  <2>. QED  BY <2>1, <2>2
<1>. HIDE DEF c, own
<1>4. g.call = c
  BY <1>1 DEF Frame
<1>. HIDE DEF g
<1>5. HoldsLock(lock', t, "wait", g) /\ WriteIsCurrent(store', "wait", g)
  BY <1>3, <1>4 DEF HoldsLock, WriteIsCurrent, Locked, Origin
<1>6. UNCHANGED <<store, lock>> /\ Goto(t, "wait", g)
  BY DEF Peek, g, c, own
<1>. QED  BY <1>5, <1>6, GotoKeepsAtomic

(* The steps of a sweep between two of its critical sections. *)
LEMMA SweepAtomic ==
    ASSUME AtomicInv, TypeInv', NEW t \in Tasks,
           ListAgents(t) \/ NextAgent(t) \/ ExportRecord(t)
    PROVE  AtomicInv'
PROOF
<1>. DEFINE f == frame[t]
<1>1. UNCHANGED <<store, lock>> /\ pc[t] # "idle" /\ f \in Frame
  BY AtomicFacts, FrameFacts DEF ListAgents, NextAgent, ExportRecord
<1>2. ASSUME NEW phase \in {"next", "wait", "export", "audit", "idle"}, NEW g,
             g.call = f.call, Goto(t, phase, g)
      PROVE  AtomicInv'
  BY <1>1, <1>2, OutsideLock, GotoKeepsAtomic DEF Locked
<1>3. CASE ListAgents(t)
  <2>. DEFINE g == [f EXCEPT !.todo = StoredIds, !.now = clock]
  <2>1. g.call = f.call /\ Goto(t, "next", g)
    BY <1>1, <1>3 DEF ListAgents, Frame
  <2>. HIDE DEF g
  <2>. QED  BY <1>2, <2>1
<1>4. CASE NextAgent(t)
  <2>1. ASSUME NEW a \in f.todo, Visit(t, f, a, f.todo \ {a})
        PROVE  AtomicInv'
    <3>. DEFINE g == [f EXCEPT !.agent = a, !.todo = f.todo \ {a}, !.read = NoRecord,
                               !.local = NoRecord, !.trail = << >>]
    <3>1. g.call = f.call
      BY <1>1 DEF Frame
    <3>2. Goto(t, "export", g) \/ Goto(t, "wait", g)
      BY <2>1 DEF Visit
    <3>. HIDE DEF g
    <3>. QED  BY <1>2, <3>1, <3>2
  <2>2. CASE Goto(t, "audit", Auditing(f, f.done))
    <3>1. Auditing(f, f.done).call = f.call
      BY <1>1 DEF Auditing, Frame
    <3>. QED  BY <1>2, <2>2, <3>1
  <2>3. CASE Goto(t, "idle", f)
    BY <1>2, <2>3
  <2>. QED  BY <1>4, <2>1, <2>2, <2>3 DEF NextAgent
<1>5. CASE ExportRecord(t)
  <2>. DEFINE g == [f EXCEPT !.done = Append(@, f.agent)]
  <2>1. g.call = f.call
    BY <1>1 DEF Frame
  <2>2. Goto(t, "next", g) \/ Goto(t, "next", f)
    BY <1>5 DEF ExportRecord
  <2>. HIDE DEF g
  <2>. QED  BY <1>2, <2>1, <2>2
<1>. QED  BY <1>3, <1>4, <1>5

LEMMA AcquireAtomic ==
    ASSUME AtomicInv, TypeInv', NEW t \in Tasks, Acquire(t)
    PROVE  AtomicInv'
PROOF
<1>. DEFINE f == frame[t]
            g == [f EXCEPT !.todo = Included(f.call.snapshot)]
<1>1. /\ lock = NoTask /\ lock' = t /\ UNCHANGED store /\ f \in Frame
      /\ f.call \in Origin /\ f.call.op \notin {"deregister_agent", "register_authority"}
  BY AtomicFacts, FrameFacts DEF Acquire, Enter
<1>2. pc[t] # "reflag" => f.call \in Origin
  BY <1>1
<1>3. CASE pc[t] = "wait" /\ Goto(t, "get", f)
  <2>1. HoldsLock(lock', t, "get", f) /\ WriteIsCurrent(store', "get", f)
    BY <1>1 DEF HoldsLock, WriteIsCurrent, Locked
  <2>. QED  BY <1>1, <1>3, <2>1, GotoKeepsAtomic
<1>4. CASE f.call.replace /\ Goto(t, "ids", f)
  <2>1. HoldsLock(lock', t, "ids", f) /\ WriteIsCurrent(store', "ids", f)
    BY <1>1, <1>4 DEF HoldsLock, WriteIsCurrent, Locked
  <2>. QED  BY <1>1, <1>4, <2>1, GotoKeepsAtomic
<1>5. CASE Goto(t, "load", g)
  <2>1. g.call = f.call /\ g.todo = Included(f.call.snapshot)
    BY <1>1 DEF Frame
  <2>. HIDE DEF g
  <2>2. HoldsLock(lock', t, "load", g) /\ WriteIsCurrent(store', "load", g)
    BY <1>1, <2>1 DEF HoldsLock, WriteIsCurrent, Locked
  <2>. QED  BY <1>1, <1>5, <2>2, GotoKeepsAtomic
<1>6. CASE pc[t] = "reflag"
  BY <1>6, AtomicFacts DEF AtomicInv, HoldsLock
<1>. QED  BY <1>3, <1>4, <1>5, <1>6 DEF Acquire, Enter

-----------------------------------------------------------------------------
(* A task inside the lock moves on, inside the lock or out of it. *)
LEMMA HolderMoves ==
    ASSUME AtomicInv, TypeInv', NEW t \in Tasks, pc[t] \in Locked, NEW phase, NEW f,
           f.call = frame[t].call, Goto(t, phase, f),
           \/ phase \in {"ledger", "emit"} /\ UNCHANGED lock
           \/ phase \notin Locked \cup {"reflag"} /\ Release(t)
    PROVE  AtomicInv'
PROOF
<1>1. lock = t /\ pc[t] # "idle"
  BY AtomicFacts DEF Locked
<1>2. HoldsLock(lock', t, phase, f) /\ WriteIsCurrent(store', phase, f)
  <2>1. CASE phase \in {"ledger", "emit"} /\ UNCHANGED lock
    BY <1>1, <2>1, AtomicFacts DEF HoldsLock, WriteIsCurrent
  <2>2. CASE phase \notin Locked \cup {"reflag"}
    BY <1>1, <2>2, OutsideLock
  <2>. QED  BY <2>1, <2>2
<1>. QED  BY <1>1, <1>2, GotoKeepsAtomic

LEMMA UpdatingAtomic ==
    ASSUME AtomicInv, TypeInv', NEW t \in Tasks, Updating(t), UNCHANGED lock
    PROVE  AtomicInv'
PROOF
<1>. DEFINE f == frame[t]
            rec == store[f.agent]
            ts == Stamp(f)
            new == Outcome(f.call, f.agent, rec, ts)
            phase == IF new = NoRecord THEN "delete" ELSE "put"
            g == [f EXCEPT !.read = rec, !.local = new]
<1>1. f \in Frame /\ lock = t /\ pc[t] # "idle" /\ ts \in 0..MaxClock
  BY AtomicFacts, FrameFacts, StampIsTime DEF Updating, Locked
<1>2. Admits(f.call, f.agent, rec, ts) /\ UNCHANGED store /\ Goto(t, phase, g)
  BY DEF Updating
<1>. HIDE DEF ts, rec
<1>3. g.call = f.call /\ g.agent = f.agent /\ g.read = rec /\ g.local = new
  <2>. HIDE DEF new
  <2>. QED  BY <1>1 DEF Frame
<1>4. phase \in {"put", "delete"} /\ (phase = "delete" => new = NoRecord)
  OBVIOUS
<1>. HIDE DEF g, phase
<1>5. HoldsLock(lock', t, phase, g)
  BY <1>1, <1>3, <1>4, AtomicFacts DEF HoldsLock
<1>6. WriteIsCurrent(store', phase, g)
  BY <1>1, <1>2, <1>3, <1>4 DEF WriteIsCurrent, rec
<1>. QED  BY <1>1, <1>2, <1>5, <1>6, GotoKeepsAtomic

LEMMA GetForNothingAtomic ==
    ASSUME AtomicInv, TypeInv', NEW t \in Tasks, GetForNothing(t)
    PROVE  AtomicInv'
PROOF
<1>. DEFINE rec == store[frame[t].agent]
            f == [frame[t] EXCEPT !.read = rec, !.local = OrNew(rec, clock)]
            g == [f EXCEPT !.outbox = <<Announce("trust_updated", f)>>]
<1>1. frame[t] \in Frame /\ pc[t] \in Locked
  BY AtomicFacts, FrameFacts DEF GetForNothing, Locked
<1>2. g.call = frame[t].call
  BY <1>1 DEF Frame
<1>3. Goto(t, "emit", g) /\ UNCHANGED lock
  BY DEF GetForNothing
<1>. HIDE DEF g
<1>. QED  BY <1>1, <1>2, <1>3, HolderMoves

LEMMA GetAndLeaveAtomic ==
    ASSUME AtomicInv, TypeInv', NEW t \in Tasks, GetAndLeave(t)
    PROVE  AtomicInv'
PROOF
<1>1. pc[t] \in Locked /\ Release(t) /\ Goto(t, Resume(frame[t]), frame[t])
  BY DEF GetAndLeave, Locked
<1>2. Resume(frame[t]) \notin Locked \cup {"reflag"}
  BY DEF Resume, Locked
<1>. QED  BY <1>1, <1>2, HolderMoves

LEMMA PutEvidenceAtomic ==
    ASSUME AtomicInv, TypeInv', NEW t \in Tasks, PutEvidence(t)
    PROVE  AtomicInv'
PROOF BY HolderMoves DEF PutEvidence, Write, Locked

LEMMA PutAndAnnounceAtomic ==
    ASSUME AtomicInv, TypeInv', NEW t \in Tasks, PutAndAnnounce(t)
    PROVE  AtomicInv'
PROOF
<1>. DEFINE f == frame[t]
            type == IF f.call.op \in {"register_agent", "register_authority"}
                    THEN "agent_registered" ELSE "trust_updated"
            g == [f EXCEPT !.outbox = <<Announce(type, f)>>]
<1>1. f \in Frame /\ pc[t] \in Locked
  BY AtomicFacts, FrameFacts DEF PutAndAnnounce, Announcing, Write, Locked
<1>2. g.call = f.call
  BY <1>1 DEF Frame
<1>3. Goto(t, "emit", g) /\ UNCHANGED lock
  BY DEF PutAndAnnounce, Announcing
<1>. HIDE DEF g
<1>. QED  BY <1>1, <1>2, <1>3, HolderMoves

LEMMA PutAdminAtomic ==
    ASSUME AtomicInv, TypeInv', NEW t \in Tasks, PutAdmin(t)
    PROVE  AtomicInv'
PROOF
<1>. DEFINE f == frame[t]
<1>1. f \in Frame /\ pc[t] \in Locked
  BY AtomicFacts, FrameFacts DEF PutAdmin, Write, Locked
<1>2. Auditing(f, <<f.agent>>).call = f.call
  BY <1>1 DEF Auditing, Frame
<1>3. Goto(t, "audit", Auditing(f, <<f.agent>>)) /\ Release(t)
  BY DEF PutAdmin
<1>. QED  BY <1>1, <1>2, <1>3, HolderMoves DEF Locked

LEMMA DeleteAtomic ==
    ASSUME AtomicInv, TypeInv', NEW t \in Tasks, Delete(t)
    PROVE  AtomicInv'
PROOF
<1>. DEFINE f == frame[t]
<1>1. f \in Frame /\ pc[t] \in Locked /\ Release(t)
  BY AtomicFacts, FrameFacts DEF Delete, Locked
<1>2. CASE Goto(t, "audit", Auditing(f, <<f.agent>>))
  <2>1. Auditing(f, <<f.agent>>).call = f.call
    BY <1>1 DEF Auditing, Frame
  <2>. QED  BY <1>1, <1>2, <2>1, HolderMoves DEF Locked
<1>3. CASE Goto(t, Resume(f), f)
  <2>1. Resume(f) \notin Locked \cup {"reflag"}
    BY DEF Resume, Locked
  <2>. QED  BY <1>1, <1>3, <2>1, HolderMoves
<1>. QED  BY <1>2, <1>3 DEF Delete

(* The two methods the theorems leave out do not get this far. *)
LEMMA NoSplitUpdate ==
    ASSUME AtomicInv, NEW t \in Tasks, GetForFlag(t) \/ PutFlag(t)
    PROVE  FALSE
PROOF BY AtomicFacts DEF GetForFlag, PutFlag, Write

-----------------------------------------------------------------------------
(* An import inside the lock turns to its next record. *)
LEMMA ImportMoves ==
    ASSUME AtomicInv, TypeInv', NEW t \in Tasks, pc[t] \in Locked, UNCHANGED lock,
           NEW f, f.call = frame[t].call, NEW phase \in {"wipe", "load"},
           Goto(t, phase, f),
           phase = "wipe" => f.call.replace,
           phase = "load" => f.todo \subseteq Included(f.call.snapshot)
    PROVE  AtomicInv'
PROOF
<1>1. lock = t /\ pc[t] # "idle"
  BY AtomicFacts DEF Locked
<1>2. HoldsLock(lock', t, phase, f) /\ WriteIsCurrent(store', phase, f)
  BY <1>1, AtomicFacts DEF HoldsLock, WriteIsCurrent
<1>. QED  BY <1>1, <1>2, GotoKeepsAtomic

LEMMA ImportListAtomic ==
    ASSUME AtomicInv, TypeInv', NEW t \in Tasks, ImportList(t)
    PROVE  AtomicInv'
PROOF
<1>. DEFINE g == [frame[t] EXCEPT !.todo = StoredIds]
<1>1. frame[t] \in Frame /\ pc[t] \in Locked /\ frame[t].call.replace
  BY AtomicFacts, FrameFacts DEF ImportList, Locked, HoldsLock
<1>2. g.call = frame[t].call
  BY <1>1 DEF Frame
<1>3. Goto(t, "wipe", g) /\ UNCHANGED lock
  BY DEF ImportList
<1>. HIDE DEF g
<1>. QED  BY <1>1, <1>2, <1>3, ImportMoves

LEMMA ImportWipeAtomic ==
    ASSUME AtomicInv, TypeInv', NEW t \in Tasks, ImportWipe(t)
    PROVE  AtomicInv'
PROOF
<1>. DEFINE f == frame[t]
<1>1. f \in Frame /\ pc[t] \in Locked /\ f.call.replace /\ UNCHANGED lock
  BY AtomicFacts, FrameFacts DEF ImportWipe, Locked, HoldsLock
<1>2. ASSUME NEW a \in f.todo, Goto(t, "wipe", [f EXCEPT !.todo = @ \ {a}])
      PROVE  AtomicInv'
  <2>. DEFINE g == [f EXCEPT !.todo = @ \ {a}]
  <2>1. g.call = f.call
    BY <1>1 DEF Frame
  <2>2. Goto(t, "wipe", g)
    BY <1>2
  <2>. HIDE DEF g
  <2>. QED  BY <1>1, <2>1, <2>2, ImportMoves
<1>3. CASE Goto(t, "load", [f EXCEPT !.todo = Included(f.call.snapshot)])
  <2>. DEFINE g == [f EXCEPT !.todo = Included(f.call.snapshot)]
  <2>1. g.call = f.call /\ g.todo = Included(f.call.snapshot)
    BY <1>1 DEF Frame
  <2>2. Goto(t, "load", g)
    BY <1>3
  <2>. HIDE DEF g
  <2>. QED  BY <1>1, <2>1, <2>2, ImportMoves
<1>. QED  BY <1>2, <1>3 DEF ImportWipe

LEMMA ImportLoadAtomic ==
    ASSUME AtomicInv, TypeInv', NEW t \in Tasks, ImportLoad(t)
    PROVE  AtomicInv'
PROOF
<1>. DEFINE f == frame[t]
<1>1. f \in Frame /\ pc[t] \in Locked /\ f.todo \subseteq Included(f.call.snapshot)
  BY AtomicFacts, FrameFacts DEF ImportLoad, Locked, HoldsLock
<1>2. ASSUME NEW a \in f.todo, UNCHANGED lock,
             Goto(t, "load", [f EXCEPT !.todo = @ \ {a}, !.done = Append(@, a)])
      PROVE  AtomicInv'
  <2>. DEFINE g == [f EXCEPT !.todo = @ \ {a}, !.done = Append(@, a)]
  <2>1. g.call = f.call /\ g.todo = f.todo \ {a}
    BY <1>1 DEF Frame
  <2>2. Goto(t, "load", g)
    BY <1>2
  <2>. HIDE DEF g
  <2>. QED  BY <1>1, <1>2, <2>1, <2>2, ImportMoves
<1>3. CASE Release(t) /\ Goto(t, "audit", Auditing(f, f.done))
  <2>1. Auditing(f, f.done).call = f.call
    BY <1>1 DEF Auditing, Frame
  <2>. QED  BY <1>1, <1>3, <2>1, HolderMoves DEF Locked
<1>. QED  BY <1>2, <1>3 DEF ImportLoad

-----------------------------------------------------------------------------
LEMMA JournalAtomic ==
    ASSUME AtomicInv, TypeInv', NEW t \in Tasks, JournalEvidence(t) \/ JournalDiscounted(t)
    PROVE  AtomicInv'
PROOF
<1>. DEFINE f == frame[t]
<1>1. f \in Frame /\ pc[t] \in Locked
  BY AtomicFacts, FrameFacts DEF JournalEvidence, JournalDiscounted, Locked
<1>2. CASE JournalDiscounted(t)
  <2>1. Release(t) /\ Goto(t, "idle", f)
    BY <1>2 DEF JournalDiscounted
  <2>. QED  BY <1>1, <2>1, HolderMoves DEF Locked
<1>3. CASE JournalEvidence(t)
  <2>. DEFINE es == <<Announce("evidence_submitted", f), Announce("trust_updated", f)>>
                    \o Crossing(f)
              g == [f EXCEPT !.outbox = es]
  <2>1. g.call = f.call
    BY <1>1 DEF Frame
  <2>2. Goto(t, "emit", g) /\ UNCHANGED lock
    BY <1>3 DEF JournalEvidence
  <2>. HIDE DEF g
  <2>. QED  BY <1>1, <2>1, <2>2, HolderMoves
<1>. QED  BY <1>2, <1>3

LEMMA EmitAtomic ==
    ASSUME AtomicInv, TypeInv', NEW t \in Tasks, Emit(t)
    PROVE  AtomicInv'
PROOF
<1>. DEFINE f == frame[t]
            g == [f EXCEPT !.outbox = Tail(f.outbox)]
<1>1. f \in Frame /\ pc[t] \in Locked
  BY AtomicFacts, FrameFacts DEF Emit, Locked
<1>2. g.call = f.call
  BY <1>1 DEF Frame
<1>3. Resume(f) \notin Locked \cup {"reflag"}
  BY DEF Resume, Locked
<1>4. \/ Goto(t, "emit", g) /\ UNCHANGED lock
      \/ Goto(t, Resume(f), g) /\ Release(t)
  BY DEF Emit
<1>. HIDE DEF g
<1>. QED  BY <1>1, <1>2, <1>3, <1>4, HolderMoves

LEMMA AuditAtomic ==
    ASSUME AtomicInv, TypeInv', NEW t \in Tasks, Audit(t)
    PROVE  AtomicInv'
PROOF
<1>. DEFINE f == frame[t]
            g == [f EXCEPT !.trail = Tail(f.trail)]
<1>1. f \in Frame /\ pc[t] # "idle" /\ UNCHANGED <<store, lock>>
  BY AtomicFacts, FrameFacts DEF Audit
<1>2. g.call = f.call
  BY <1>1 DEF Frame
<1>3. \E phase \in {"next", "idle", "audit"} : Goto(t, phase, g)
  BY DEF Audit
<1>. HIDE DEF g
<1>. QED  BY <1>1, <1>2, <1>3, OutsideLock, GotoKeepsAtomic DEF Locked

LEMMA FaultAtomic ==
    ASSUME AtomicInv, TypeInv', NEW t \in Tasks, Fault(t) \/ LostReply(t)
    PROVE  AtomicInv'
PROOF
<1>1. Release(t) /\ Goto(t, "idle", frame[t])
  BY DEF Fault, LostReply
<1>2. store' = store \/ lock = t
  BY AtomicFacts DEF Fault, LostReply, Locked
<1>. QED  BY <1>1, <1>2, ReleaseIsOwn, GotoKeepsAtomic

LEMMA InitAtomic == Init => AtomicInv
PROOF BY InitTypes DEF Init, AtomicInv, HoldsLock, WriteIsCurrent, Locked

LEMMA StepAtomic ==
    ASSUME OnlyLockedUpdates
    PROVE  AtomicInv /\ [Next]_vars => AtomicInv'
PROOF
<1>. SUFFICES ASSUME AtomicInv, [Next]_vars PROVE AtomicInv'
  OBVIOUS
<1>0. TypeInv'
  BY StepTypes DEF AtomicInv
<1>1. ASSUME NEW t \in Tasks, Continue(t)
      PROVE  AtomicInv'
  BY <1>0, <1>1, PeekAtomic, SweepAtomic, UpdatingAtomic, NoSplitUpdate,
     GetForNothingAtomic, GetAndLeaveAtomic, PutEvidenceAtomic, PutAndAnnounceAtomic,
     PutAdminAtomic, DeleteAtomic, ImportListAtomic, ImportWipeAtomic, ImportLoadAtomic,
     JournalAtomic, EmitAtomic, AuditAtomic
     DEF Continue, GetForUpdate
<1>2. ASSUME NEW t \in Tasks, Invoke(t) \/ Acquire(t) \/ Fault(t) \/ LostReply(t)
      PROVE  AtomicInv'
  BY <1>0, <1>2, InvokeAtomic, AcquireAtomic, FaultAtomic
<1>3. CASE UNCHANGED <<store, lock, pc, frame>>
  BY <1>0, <1>3 DEF AtomicInv
<1>. QED  BY <1>1, <1>2, <1>3 DEF Next, Tick, Rest, vars

(* The read-modify-write sections of trust_manager.py commit what they
   computed to the record they computed it from: a call about to put or delete
   holds the lock, and the record it read is still the stored one. *)
THEOREM LockedCommitsAreCurrent ==
    ASSUME OnlyLockedUpdates
    PROVE  Spec => []CommitsAreCurrent
PROOF
<1>1. AtomicInv => CommitsAreCurrent
  BY DEF AtomicInv, HoldsLock, WriteIsCurrent, CommitsAreCurrent, Locked
<1>. QED  BY <1>1, InitAtomic, StepAtomic, PTL DEF Spec

-----------------------------------------------------------------------------
(* Refinement: every step of the awaits is one atomic call, or none. *)
LEMMA PerformIsNext ==
    ASSUME NEW c \in Effects, NEW a \in Agents, NEW ts \in 0..MaxClock,
           Admits(c, a, store[a], ts),
           store' = [store EXCEPT ![a] = Outcome(c, a, store[a], ts)]
    PROVE  Atomic!Next
PROOF
<1>1. Atomic!Perform(c, a)
  BY DEF Atomic!Perform
<1>. QED  BY <1>1 DEF Atomic!Next

(* A write in hand, when it reaches the store. *)
LEMMA CommitIsAtomic ==
    ASSUME AtomicInv, NEW t \in Tasks, pc[t] \in {"put", "delete"},
           store' = [store EXCEPT ![frame[t].agent] = frame[t].local]
    PROVE  Atomic!Next
PROOF
<1>. DEFINE f == frame[t]
<1>1. f.call \in Origin /\ f.call.op \in ChangeName /\ f.agent \in Agents
  BY AtomicFacts, FrameFacts DEF FrameFits
<1>2. f.call \in Effects
  BY <1>1, OriginKinds DEF ChangeName, AdminOps
<1>3. PICK ts \in 0..MaxClock : /\ Admits(f.call, f.agent, store[f.agent], ts)
                                /\ f.local = Outcome(f.call, f.agent, store[f.agent], ts)
  BY AtomicFacts DEF WriteIsCurrent
<1>. QED  BY <1>1, <1>2, <1>3, PerformIsNext

(* What is imported comes from the snapshot of a requested import. *)
LEMMA ImportIsRequested ==
    ASSUME AtomicInv, NEW t \in Tasks, pc[t] \in {"wipe", "load"}
    PROVE  frame[t].call \in Imports
PROOF
<1>1. frame[t].call \in ImportCall /\ frame[t].call \in Origin
  BY AtomicFacts, FrameFacts DEF FrameFits
<1>. QED  BY <1>1, OriginKinds DEF ImportCall

LEMMA WipeIsAtomic ==
    ASSUME AtomicInv, NEW t \in Tasks, ImportWipe(t)
    PROVE  Atomic!Next \/ UNCHANGED store
PROOF
<1>. DEFINE c == [op |-> "wipe"]
<1>1. frame[t].call \in Imports /\ frame[t].call.replace /\ frame[t].todo \subseteq Agents
  BY AtomicFacts, FrameFacts, ImportIsRequested DEF ImportWipe, HoldsLock, Frame
<1>2. c \in Effects
  BY <1>1 DEF Effects
<1>3. ASSUME NEW a \in frame[t].todo, store' = [store EXCEPT ![a] = NoRecord]
      PROVE  Atomic!Next
  <2>1. Outcome(c, a, store[a], 0) = NoRecord /\ Admits(c, a, store[a], 0)
    BY DEF Outcome, Admits
  <2>2. a \in Agents /\ 0 \in 0..MaxClock
    BY <1>1, BoundsAreNat
  <2>. QED  BY <1>2, <1>3, <2>1, <2>2, PerformIsNext
<1>. QED  BY <1>3 DEF ImportWipe

LEMMA LoadIsAtomic ==
    ASSUME AtomicInv, NEW t \in Tasks, ImportLoad(t)
    PROVE  Atomic!Next \/ UNCHANGED store
PROOF
<1>. DEFINE s == frame[t].call.snapshot
            c == [op |-> "load", snapshot |-> s]
<1>1. frame[t].call \in Imports /\ frame[t].todo \subseteq Included(s)
  BY AtomicFacts, ImportIsRequested DEF ImportLoad, HoldsLock
<1>2. c \in Effects
  BY <1>1 DEF Effects
<1>3. ASSUME NEW a \in frame[t].todo, store' = [store EXCEPT ![a] = s[a]]
      PROVE  Atomic!Next
  <2>1. a \in Agents /\ s[a] # NoRecord /\ 0 \in 0..MaxClock
    BY <1>1, BoundsAreNat DEF Included
  <2>2. Outcome(c, a, store[a], 0) = s[a] /\ Admits(c, a, store[a], 0)
    BY <2>1 DEF Outcome, Admits
  <2>. QED  BY <1>2, <1>3, <2>1, <2>2, PerformIsNext
<1>. QED  BY <1>3 DEF ImportLoad

LEMMA StepRefines ==
    ASSUME AtomicInv, [Next]_vars
    PROVE  Atomic!Next \/ UNCHANGED store
PROOF
<1>1. ASSUME NEW t \in Tasks, Write(t)
      PROVE  Atomic!Next
  BY <1>1, CommitIsAtomic DEF Write
<1>2. ASSUME NEW t \in Tasks, Delete(t)
      PROVE  Atomic!Next
  <2>1. frame[t].local = NoRecord
    BY <1>2, AtomicFacts DEF Delete, WriteIsCurrent
  <2>. QED  BY <1>2, <2>1, CommitIsAtomic DEF Delete
<1>3. ASSUME NEW t \in Tasks, LostReply(t)
      PROVE  Atomic!Next
  BY <1>3, CommitIsAtomic DEF LostReply
<1>4. ASSUME NEW t \in Tasks, Continue(t)
      PROVE  Atomic!Next \/ UNCHANGED store
  <2>1. CASE PutEvidence(t) \/ PutAndAnnounce(t) \/ PutFlag(t) \/ PutAdmin(t)
    BY <1>1, <2>1 DEF PutEvidence, PutAndAnnounce, Announcing, PutFlag, PutAdmin
  <2>2. CASE Delete(t)
    BY <1>2, <2>2
  <2>3. CASE ImportWipe(t) \/ ImportLoad(t)
    BY <2>3, WipeIsAtomic, LoadIsAtomic
  <2>4. CASE Peek(t) \/ ListAgents(t) \/ NextAgent(t) \/ ExportRecord(t)
    BY <2>4 DEF Peek, ListAgents, NextAgent, ExportRecord
  <2>5. CASE GetForUpdate(t) \/ GetForFlag(t) \/ GetForNothing(t) \/ GetAndLeave(t)
    BY <2>5 DEF GetForUpdate, Updating, GetForFlag, GetForNothing, GetAndLeave
  <2>6. CASE ImportList(t) \/ JournalEvidence(t) \/ JournalDiscounted(t) \/ Emit(t) \/ Audit(t)
    BY <2>6 DEF ImportList, JournalEvidence, JournalDiscounted, Emit, Audit
  <2>. QED  BY <1>4, <2>1, <2>2, <2>3, <2>4, <2>5, <2>6 DEF Continue
<1>5. ASSUME NEW t \in Tasks, Invoke(t) \/ Acquire(t) \/ Fault(t)
      PROVE  UNCHANGED store
  BY <1>5 DEF Invoke, Acquire, Enter, Fault
<1>6. CASE Tick \/ Rest \/ UNCHANGED vars
  BY <1>6 DEF Tick, Rest, vars
<1>. QED  BY <1>3, <1>4, <1>5, <1>6 DEF Next

(* The manager implements AtomicTrust: however the awaits of concurrent calls
   interleave, every change of the store is one call of trust_manager.py
   applied to the record that is there at that moment. *)
THEOREM StoreIsAtomic ==
    ASSUME OnlyLockedUpdates
    PROVE  Spec => StepsAreAtomic
PROOF
<1>1. Init => Atomic!Init
  BY DEF Init, Atomic!Init
<1>2. AtomicInv /\ [Next]_vars => [Atomic!Next]_store
  BY StepRefines
<1>. QED  BY <1>1, <1>2, InitAtomic, StepAtomic, PTL DEF Spec, StepsAreAtomic, Atomic!Spec

-----------------------------------------------------------------------------

(* Inside the asyncio lock. *)
InLock(p, f) == p \in Locked /\ ~(p = "delete" /\ f.call.op = "deregister_agent")

(* register_authority about to set the flag on a record it read earlier. *)
Flags(f) == f.call.op = "register_authority" /\ f.read # NoRecord

(* The record a call is about to write is its outcome on the one it read; an
   evicting sweep judges by the time it began. *)
Computed(f) ==
    \E ts \in 0..MaxClock :
        /\ Admits(f.call, f.agent, f.read, ts)
        /\ f.local = Outcome(f.call, f.agent, f.read, ts)
        /\ f.call.op = "evict_stale_agents" => ts = f.now

Deregistered(history, a) == \E x \in history : x.op = "deregister_agent" /\ x.agent = a

(* What task t, at await p with locals f, may rely on when `holder` has the
   lock, the store holds `records` and `history` has happened to it. *)
Sound(holder, records, history, t, p, f) ==
    /\ InLock(p, f) => holder = t
    /\ p = "reflag" => Flags(f)
    /\ p = "delete" => f.local = NoRecord
    /\ p \in {"ids", "wipe"} => f.call.replace
    /\ p # "idle" /\ f.call.op = "import_snapshot" => f.call \in Requests
    /\ p \in {"put", "delete"} /\ f.call.op # "deregister_agent" /\ ~Flags(f) =>
         /\ Computed(f)
         /\ \/ f.read = records[f.agent]
            \/ records[f.agent] = NoRecord /\ Deregistered(history, f.agent)

LockInv ==
    /\ TypeInv
    /\ \A t \in Tasks : Sound(lock, store, applied, t, pc[t], frame[t])

-----------------------------------------------------------------------------
(* The steps of task t leave alone what s relies on, unless t has the lock. *)
LEMMA OthersStaySound ==
    ASSUME LockInv, NEW t \in Tasks, NEW s \in Tasks, s # t, TypeInv',
           \/ lock' = lock
           \/ lock = t
           \/ lock = NoTask,
           applied \subseteq applied',
           \/ store' = store
           \/ lock = t
           \/ \E b \in Agents : store' = [store EXCEPT ![b] = NoRecord]
                                /\ Deregistered(applied', b)
    PROVE  Sound(lock', store', applied', s, pc[s], frame[s])
PROOF
<1>. DEFINE p == pc[s]
            f == frame[s]
            writes == p \in {"put", "delete"} /\ f.call.op # "deregister_agent" /\ ~Flags(f)
<1>1. Sound(lock, store, applied, s, p, f) /\ NoTask # s
  BY Distinct DEF LockInv
<1>2. InLock(p, f) => lock' = s
  BY <1>1 DEF Sound
<1>3. ASSUME writes
      PROVE  \/ f.read = store'[f.agent]
             \/ store'[f.agent] = NoRecord /\ Deregistered(applied', f.agent)
  <2>1. lock = s /\ f.agent \in Agents
    <3>1. InLock(p, f)
      BY <1>3 DEF InLock, Locked
    <3>2. f.agent \in Agents
      BY <1>3, FrameFacts DEF LockInv, FrameFits
    <3>. QED  BY <1>1, <3>1, <3>2 DEF Sound
  <2>2. \/ f.read = store[f.agent]
        \/ store[f.agent] = NoRecord /\ Deregistered(applied, f.agent)
    BY <1>1, <1>3 DEF Sound
  <2>3. store \in [Agents -> Record \cup {NoRecord}]
    BY DEF LockInv, TypeInv, TypeOK
  <2>4. Deregistered(applied, f.agent) => Deregistered(applied', f.agent)
    BY DEF Deregistered
  <2>5. CASE store' = store
    BY <2>2, <2>4, <2>5
  <2>6. ASSUME NEW b \in Agents, store' = [store EXCEPT ![b] = NoRecord],
               Deregistered(applied', b)
        PROVE  \/ f.read = store'[f.agent]
               \/ store'[f.agent] = NoRecord /\ Deregistered(applied', f.agent)
    BY <2>1, <2>2, <2>3, <2>4, <2>6
  <2>. QED  BY <2>1, <2>5, <2>6
<1>. QED  BY <1>1, <1>2, <1>3 DEF Sound

(* A step of one task: what it moves on with has to be sound. *)
LEMMA GotoKeepsLocks ==
    ASSUME LockInv, TypeInv', NEW t \in Tasks, NEW phase, NEW f, Goto(t, phase, f),
           \/ lock' = lock
           \/ lock = t
           \/ lock = NoTask,
           applied \subseteq applied',
           \/ store' = store
           \/ lock = t
           \/ \E b \in Agents : store' = [store EXCEPT ![b] = NoRecord]
                                /\ Deregistered(applied', b),
           phase # "idle" => Sound(lock', store', applied', t, phase, f)
    PROVE  LockInv'
PROOF
<1>. DEFINE g == IF phase = "idle" THEN Blank ELSE f
<1>0. pc \in [Tasks -> Phases] /\ frame \in [Tasks -> Frame]
  BY DEF LockInv, TypeInv, TypeOK
<1>1. pc' = [pc EXCEPT ![t] = phase] /\ frame' = [frame EXCEPT ![t] = g]
  BY DEF Goto
<1>2. Sound(lock', store', applied', t, phase, g)
  <2>1. CASE phase = "idle"
    BY <2>1 DEF Sound, InLock, Locked
  <2>. QED  BY <2>1
<1>. HIDE DEF g
<1>3. ASSUME NEW s \in Tasks
      PROVE  Sound(lock', store', applied', s, pc'[s], frame'[s])
  <2>1. CASE s = t
    <3>1. pc'[s] = phase /\ frame'[s] = g
      BY <1>0, <1>1, <2>1
    <3>. QED  BY <1>2, <2>1, <3>1
  <2>2. CASE s # t
    <3>1. pc'[s] = pc[s] /\ frame'[s] = frame[s]
      BY <1>0, <1>1, <2>2
    <3>. QED  BY <2>2, <3>1, OthersStaySound
  <2>. QED  BY <2>1, <2>2
<1>. QED  BY <1>3 DEF LockInv

LEMMA LockFacts ==
    ASSUME LockInv, NEW t \in Tasks
    PROVE  /\ TypeInv
           /\ Sound(lock, store, applied, t, pc[t], frame[t])
           /\ InLock(pc[t], frame[t]) => lock = t
           /\ pc[t] \in Locked \ {"delete"} => lock = t
PROOF BY DEF LockInv, Sound, InLock

(* Where nothing is about to be written, little is relied on. *)
LEMMA QuietIsSound ==
    ASSUME NEW holder, NEW records, NEW history, NEW t, NEW p, NEW f,
           p \notin {"put", "delete", "ids", "wipe", "reflag"},
           p \in Locked => holder = t,
           f.call.op = "import_snapshot" => f.call \in Requests
    PROVE  Sound(holder, records, history, t, p, f)
PROOF BY DEF Sound, InLock

(* A task that neither takes the lock nor writes. *)
LEMMA QuietStep ==
    ASSUME LockInv, TypeInv', NEW t \in Tasks, NEW phase, NEW f, Goto(t, phase, f),
           pc[t] # "idle", UNCHANGED <<store, applied>>,
           phase \notin {"put", "delete", "ids", "wipe", "reflag"},
           \/ UNCHANGED lock /\ (phase \in Locked => lock = t)
           \/ Release(t) /\ phase \notin Locked,
           f.call.op = "import_snapshot" => f.call = frame[t].call
    PROVE  LockInv'
PROOF
<1>1. lock' = lock \/ lock = t
  BY DEF Release
<1>2. f.call.op = "import_snapshot" => f.call \in Requests
  BY LockFacts DEF Sound
<1>3. Sound(lock', store', applied', t, phase, f)
  BY <1>2, QuietIsSound
<1>. QED  BY <1>1, <1>3, GotoKeepsLocks

-----------------------------------------------------------------------------
LEMMA InvokeLocks ==
    ASSUME LockInv, TypeInv', NEW t \in Tasks, Invoke(t)
    PROVE  LockInv'
PROOF
<1>1. PICK c \in Requests :
         Goto(t, FirstAwait(c),
              [Blank EXCEPT !.call = c, !.id = started + 1,
                            !.agent = IF c.op \in Bulk THEN Admin ELSE c.agent])
  BY DEF Invoke
<1>. DEFINE f == [Blank EXCEPT !.call = c, !.id = started + 1,
                               !.agent = IF c.op \in Bulk THEN Admin ELSE c.agent]
<1>2. f.call = c /\ f.local = NoRecord
  BY DEF Blank
<1>3. UNCHANGED <<store, lock, applied>> /\ Goto(t, FirstAwait(c), f)
  BY <1>1 DEF Invoke
<1>. HIDE DEF f
<1>4. Sound(lock', store', applied', t, FirstAwait(c), f)
  <2>1. CASE c.op = "deregister_agent"
    <3>1. FirstAwait(c) = "delete"
      BY <2>1 DEF FirstAwait, Sweeps
    <3>. QED  BY <1>2, <2>1, <3>1 DEF Sound, InLock
  <2>2. CASE c.op # "deregister_agent"
    <3>1. FirstAwait(c) \in {"list", "peek", "wait"}
      BY <2>2 DEF FirstAwait
    <3>. QED  BY <1>2, <3>1, QuietIsSound DEF Locked
  <2>. QED  BY <2>1, <2>2
<1>. QED  BY <1>3, <1>4, GotoKeepsLocks

LEMMA PeekLocks ==
    ASSUME LockInv, TypeInv', NEW t \in Tasks, Peek(t)
    PROVE  LockInv'
PROOF
<1>. DEFINE c == Submission(frame[t].call, store[frame[t].call.by])
            g == [frame[t] EXCEPT !.call = c]
<1>1. frame[t] \in Frame
  BY LockFacts, FrameFacts
<1>2. c.op # "import_snapshot"
  BY DEF Submission
<1>. HIDE DEF c
<1>3. g.call = c
  BY <1>1 DEF Frame
<1>4. Goto(t, "wait", g) /\ UNCHANGED <<store, lock, applied>> /\ pc[t] # "idle"
  BY DEF Peek, c
<1>. HIDE DEF g
<1>. QED  BY <1>2, <1>3, <1>4, QuietStep DEF Locked

(* The steps of a sweep between two of its critical sections. *)
LEMMA SweepLocks ==
    ASSUME LockInv, TypeInv', NEW t \in Tasks,
           ListAgents(t) \/ NextAgent(t) \/ ExportRecord(t)
    PROVE  LockInv'
PROOF
<1>. DEFINE f == frame[t]
<1>1. UNCHANGED <<store, lock, applied>> /\ pc[t] # "idle" /\ f \in Frame
  BY LockFacts, FrameFacts DEF ListAgents, NextAgent, ExportRecord
<1>2. ASSUME NEW phase \in {"next", "wait", "export", "audit", "idle"}, NEW g,
             g.call = f.call, Goto(t, phase, g)
      PROVE  LockInv'
  BY <1>1, <1>2, QuietStep DEF Locked
<1>3. CASE ListAgents(t)
  <2>. DEFINE g == [f EXCEPT !.todo = StoredIds, !.now = clock]
  <2>1. g.call = f.call /\ Goto(t, "next", g)
    BY <1>1, <1>3 DEF ListAgents, Frame
  <2>. HIDE DEF g
  <2>. QED  BY <1>2, <2>1
<1>4. CASE NextAgent(t)
  <2>1. ASSUME NEW a \in f.todo, Visit(t, f, a, f.todo \ {a})
        PROVE  LockInv'
    <3>. DEFINE g == [f EXCEPT !.agent = a, !.todo = f.todo \ {a}, !.read = NoRecord,
                               !.local = NoRecord, !.trail = << >>]
    <3>1. g.call = f.call
      BY <1>1 DEF Frame
    <3>2. Goto(t, "export", g) \/ Goto(t, "wait", g)
      BY <2>1 DEF Visit
    <3>. HIDE DEF g
    <3>. QED  BY <1>2, <3>1, <3>2
  <2>2. CASE Goto(t, "audit", Auditing(f, f.done))
    <3>1. Auditing(f, f.done).call = f.call
      BY <1>1 DEF Auditing, Frame
    <3>. QED  BY <1>2, <2>2, <3>1
  <2>3. CASE Goto(t, "idle", f)
    BY <1>2, <2>3
  <2>. QED  BY <1>4, <2>1, <2>2, <2>3 DEF NextAgent
<1>5. CASE ExportRecord(t)
  <2>. DEFINE g == [f EXCEPT !.done = Append(@, f.agent)]
  <2>1. g.call = f.call
    BY <1>1 DEF Frame
  <2>2. Goto(t, "next", g) \/ Goto(t, "next", f)
    BY <1>5 DEF ExportRecord
  <2>. HIDE DEF g
  <2>. QED  BY <1>2, <2>1, <2>2
<1>. QED  BY <1>3, <1>4, <1>5

LEMMA AcquireLocks ==
    ASSUME LockInv, TypeInv', NEW t \in Tasks, Acquire(t)
    PROVE  LockInv'
PROOF
<1>. DEFINE f == frame[t]
            g == [f EXCEPT !.todo = Included(f.call.snapshot)]
<1>1. /\ lock = NoTask /\ lock' = t /\ UNCHANGED <<store, applied>> /\ f \in Frame
      /\ Sound(lock, store, applied, t, pc[t], f) /\ pc[t] # "idle"
  BY LockFacts, FrameFacts DEF Acquire, Enter
<1>2. CASE pc[t] = "reflag" /\ Goto(t, "put", f)
  <2>1. Flags(f)
    BY <1>1, <1>2 DEF Sound
  <2>2. Sound(lock', store', applied', t, "put", f)
    BY <1>1, <2>1 DEF Sound, InLock
  <2>. QED  BY <1>1, <1>2, <2>2, GotoKeepsLocks
<1>3. CASE pc[t] = "wait" /\ Goto(t, "get", f)
  <2>1. Sound(lock', store', applied', t, "get", f)
    BY <1>1 DEF Sound, InLock
  <2>. QED  BY <1>1, <1>3, <2>1, GotoKeepsLocks
<1>4. CASE f.call.replace /\ Goto(t, "ids", f)
  <2>1. Sound(lock', store', applied', t, "ids", f)
    BY <1>1, <1>4 DEF Sound, InLock
  <2>. QED  BY <1>1, <1>4, <2>1, GotoKeepsLocks
<1>5. CASE Goto(t, "load", g)
  <2>1. g.call = f.call
    BY <1>1 DEF Frame
  <2>. HIDE DEF g
  <2>2. Sound(lock', store', applied', t, "load", g)
    BY <1>1, <2>1 DEF Sound, InLock
  <2>. QED  BY <1>1, <1>5, <2>2, GotoKeepsLocks
<1>. QED  BY <1>2, <1>3, <1>4, <1>5 DEF Acquire, Enter

-----------------------------------------------------------------------------
(* The holder of the lock goes on with the same call; it may have written. *)
LEMMA HolderStep ==
    ASSUME LockInv, TypeInv', NEW t \in Tasks, NEW phase, NEW f, Goto(t, phase, f),
           lock = t, pc[t] # "idle", applied \subseteq applied', f.call = frame[t].call,
           phase \notin {"put", "delete", "ids", "reflag"},
           phase = "wipe" => f.call.replace,
           UNCHANGED lock \/ (Release(t) /\ phase \notin Locked)
    PROVE  LockInv'
PROOF
<1>1. f.call.op = "import_snapshot" => f.call \in Requests
  BY LockFacts DEF Sound
<1>2. Sound(lock', store', applied', t, phase, f)
  BY <1>1 DEF Sound, InLock
<1>. QED  BY <1>2, GotoKeepsLocks DEF Release

LEMMA AppliedGrows ==
    ASSUME NEW f, NEW op, NEW a, Applied(f, op, a)
    PROVE  applied \subseteq applied'
PROOF BY DEF Applied

(* A deregistration that removes a record is remembered. *)
LEMMA DeregistrationRemembered ==
    ASSUME NEW f, NEW a, Applied(f, "deregister_agent", a)
    PROVE  Deregistered(applied', a)
PROOF
<1>. DEFINE x == [call |-> f.id, op |-> "deregister_agent", agent |-> a]
<1>1. x.op = "deregister_agent" /\ x.agent = a
  OBVIOUS
<1>2. x \in applied'
  BY DEF Applied
<1>. HIDE DEF x
<1>. QED  BY <1>1, <1>2 DEF Deregistered

LEMMA UpdatingLocks ==
    ASSUME LockInv, TypeInv', NEW t \in Tasks, Updating(t), UNCHANGED lock
    PROVE  LockInv'
PROOF
<1>. DEFINE f == frame[t]
            rec == store[f.agent]
            ts == Stamp(f)
            new == Outcome(f.call, f.agent, rec, ts)
            phase == IF new = NoRecord THEN "delete" ELSE "put"
            g == [f EXCEPT !.read = rec, !.local = new]
<1>1. /\ f \in Frame /\ lock = t /\ pc[t] = "get" /\ ts \in 0..MaxClock
      /\ f.call.op # "import_snapshot"
  BY LockFacts, FrameFacts, StampIsTime DEF Updating, Locked, FrameFits, ChangeName, AdminOps
<1>2. Admits(f.call, f.agent, rec, ts) /\ UNCHANGED <<store, applied>> /\ Goto(t, phase, g)
  BY DEF Updating
<1>3. f.call.op = "evict_stale_agents" => ts = f.now
  BY DEF Stamp
<1>. HIDE DEF ts
<1>4. g.call = f.call /\ g.agent = f.agent /\ g.read = rec /\ g.local = new /\ g.now = f.now
  <2>. HIDE DEF new, rec
  <2>. QED  BY <1>1 DEF Frame
<1>5. phase \in {"put", "delete"} /\ (phase = "delete" => new = NoRecord)
  OBVIOUS
<1>6. g.read = store'[g.agent]
  BY <1>2, <1>4
<1>. HIDE DEF g, phase
<1>7. Computed(g)
  BY <1>1, <1>2, <1>3, <1>4 DEF Computed
<1>. HIDE DEF new, rec
<1>8. Sound(lock', store', applied', t, phase, g)
  BY <1>1, <1>4, <1>5, <1>6, <1>7 DEF Sound, InLock
<1>. QED  BY <1>1, <1>2, <1>8, GotoKeepsLocks

LEMMA GetForFlagLocks ==
    ASSUME LockInv, TypeInv', NEW t \in Tasks, GetForFlag(t)
    PROVE  LockInv'
PROOF
<1>. DEFINE f == frame[t]
            rec == store[f.agent]
            new == Outcome(f.call, f.agent, rec, clock)
            g == [f EXCEPT !.read = rec, !.local = new]
<1>1. f \in Frame /\ lock = t /\ f.call.op = "register_authority" /\ rec # NoRecord
  BY LockFacts, FrameFacts DEF GetForFlag, Locked
<1>2. Goto(t, "reflag", g) /\ UNCHANGED <<store, applied>> /\ Release(t)
  BY DEF GetForFlag
<1>. HIDE DEF new, rec
<1>3. g.call = f.call /\ g.read = rec
  BY <1>1 DEF Frame
<1>. HIDE DEF g
<1>4. Sound(lock', store', applied', t, "reflag", g)
  BY <1>1, <1>3 DEF Sound, InLock, Locked, Flags
<1>. QED  BY <1>1, <1>2, <1>4, GotoKeepsLocks DEF Release

LEMMA GetForNothingLocks ==
    ASSUME LockInv, TypeInv', NEW t \in Tasks, GetForNothing(t)
    PROVE  LockInv'
PROOF
<1>. DEFINE rec == store[frame[t].agent]
            f == [frame[t] EXCEPT !.read = rec, !.local = OrNew(rec, clock)]
            g == [f EXCEPT !.outbox = <<Announce("trust_updated", f)>>]
<1>1. frame[t] \in Frame /\ lock = t /\ pc[t] # "idle" /\ UNCHANGED <<lock, applied>>
  BY LockFacts, FrameFacts DEF GetForNothing, Locked
<1>2. g.call = frame[t].call
  BY <1>1 DEF Frame
<1>3. Goto(t, "emit", g)
  BY DEF GetForNothing
<1>. HIDE DEF g
<1>. QED  BY <1>1, <1>2, <1>3, HolderStep

LEMMA ResumeUnlocked ==
    ASSUME NEW f
    PROVE  Resume(f) \notin Locked \cup {"reflag"}
PROOF BY DEF Resume, Locked

LEMMA GetAndLeaveLocks ==
    ASSUME LockInv, TypeInv', NEW t \in Tasks, GetAndLeave(t)
    PROVE  LockInv'
PROOF
<1>1. lock = t /\ pc[t] # "idle" /\ Release(t) /\ Goto(t, Resume(frame[t]), frame[t])
  BY LockFacts DEF GetAndLeave, Locked
<1>2. UNCHANGED applied
  BY DEF GetAndLeave
<1>. QED  BY <1>1, <1>2, ResumeUnlocked, HolderStep DEF Locked

(* A put: the lock is held, and the change is remembered. *)
LEMMA WriteLocks ==
    ASSUME LockInv, NEW t \in Tasks, Write(t)
    PROVE  /\ lock = t /\ pc[t] = "put" /\ frame[t] \in Frame /\ frame[t].agent \in Agents
           /\ applied \subseteq applied'
PROOF BY LockFacts, FrameFacts, AppliedGrows DEF Write, Locked, FrameFits

LEMMA PutLocks ==
    ASSUME LockInv, TypeInv', NEW t \in Tasks,
           PutEvidence(t) \/ PutAndAnnounce(t) \/ PutFlag(t) \/ PutAdmin(t)
    PROVE  LockInv'
PROOF
<1>. DEFINE f == frame[t]
<1>1. /\ lock = t /\ pc[t] # "idle" /\ applied \subseteq applied' /\ f \in Frame
  BY WriteLocks DEF PutEvidence, PutAndAnnounce, Announcing, PutFlag, PutAdmin
<1>2. CASE PutEvidence(t)
  BY <1>1, <1>2, HolderStep DEF PutEvidence
<1>3. CASE PutAndAnnounce(t)
  <2>. DEFINE type == IF f.call.op \in {"register_agent", "register_authority"}
                      THEN "agent_registered" ELSE "trust_updated"
              g == [f EXCEPT !.outbox = <<Announce(type, f)>>]
  <2>1. g.call = f.call
    BY <1>1 DEF Frame
  <2>2. Goto(t, "emit", g) /\ UNCHANGED lock
    BY <1>3 DEF PutAndAnnounce, Announcing
  <2>. HIDE DEF g
  <2>. QED  BY <1>1, <2>1, <2>2, HolderStep
<1>4. CASE PutFlag(t)
  BY <1>1, <1>4, HolderStep DEF PutFlag, Locked
<1>5. CASE PutAdmin(t)
  <2>1. Auditing(f, <<f.agent>>).call = f.call
    BY <1>1 DEF Auditing, Frame
  <2>2. Goto(t, "audit", Auditing(f, <<f.agent>>)) /\ Release(t)
    BY <1>5 DEF PutAdmin
  <2>. QED  BY <1>1, <2>1, <2>2, HolderStep DEF Locked
<1>. QED  BY <1>2, <1>3, <1>4, <1>5

(* A delete, with the lock or, by deregister_agent, without. *)
LEMMA DeleteLocks ==
    ASSUME LockInv, TypeInv', NEW t \in Tasks, Delete(t)
    PROVE  LockInv'
PROOF
<1>. DEFINE f == frame[t]
<1>1. /\ f \in Frame /\ pc[t] = "delete" /\ Release(t) /\ f.agent \in Agents
      /\ store' = [store EXCEPT ![f.agent] = NoRecord]
      /\ store \in [Agents -> Record \cup {NoRecord}]
  BY LockFacts, FrameFacts DEF Delete, FrameFits, DataOK
<1>2. applied \subseteq applied'
  BY AppliedGrows DEF Delete
<1>3. PICK phase, g : /\ Goto(t, phase, g) /\ g.call = f.call
                      /\ phase \notin Locked \cup {"reflag"}
  <2>1. CASE Goto(t, "audit", Auditing(f, <<f.agent>>))
    <3>1. Auditing(f, <<f.agent>>).call = f.call
      BY <1>1 DEF Auditing, Frame
    <3>. QED  BY <2>1, <3>1 DEF Locked
  <2>2. CASE Goto(t, Resume(f), f)
    BY <2>2, ResumeUnlocked
  <2>. QED  BY <2>1, <2>2 DEF Delete
<1>4. CASE f.call.op # "deregister_agent"
  <2>1. lock = t
    BY <1>1, <1>4, LockFacts DEF InLock, Locked
  <2>. QED  BY <1>1, <1>2, <1>3, <2>1, HolderStep DEF Locked
<1>5. CASE f.call.op = "deregister_agent"
  <2>1. store' = store \/ Deregistered(applied', f.agent)
    <3>1. CASE store[f.agent] = NoRecord
      BY <1>1, <3>1
    <3>2. CASE store[f.agent] # NoRecord
      <4>1. Applied(f, "deregister_agent", f.agent)
        BY <1>5, <3>2 DEF Delete
      <4>. QED  BY <4>1, DeregistrationRemembered
    <3>. QED  BY <3>1, <3>2
  <2>2. Sound(lock', store', applied', t, phase, g)
    BY <1>3, <1>5 DEF Sound, InLock, Locked
  <2>. QED  BY <1>1, <1>2, <1>3, <2>1, <2>2, GotoKeepsLocks DEF Release
<1>. QED  BY <1>4, <1>5

LEMMA ImportLocks ==
    ASSUME LockInv, TypeInv', NEW t \in Tasks,
           ImportList(t) \/ ImportWipe(t) \/ ImportLoad(t)
    PROVE  LockInv'
PROOF
<1>. DEFINE f == frame[t]
<1>1. /\ f \in Frame /\ pc[t] \in {"ids", "wipe", "load"} /\ lock = t
      /\ pc[t] # "load" => f.call.replace
  BY LockFacts, FrameFacts DEF ImportList, ImportWipe, ImportLoad, Locked, Sound
<1>2. applied \subseteq applied'
  BY AppliedGrows DEF ImportList, ImportWipe, ImportLoad
<1>3. CASE ImportList(t)
  <2>. DEFINE g == [f EXCEPT !.todo = StoredIds]
  <2>1. g.call = f.call
    BY <1>1 DEF Frame
  <2>2. Goto(t, "wipe", g) /\ UNCHANGED lock /\ f.call.replace
    BY <1>1, <1>3 DEF ImportList
  <2>. HIDE DEF g
  <2>. QED  BY <1>1, <1>2, <2>1, <2>2, HolderStep
<1>4. CASE ImportWipe(t)
  <2>1. UNCHANGED lock /\ f.call.replace
    BY <1>1, <1>4 DEF ImportWipe
  <2>2. ASSUME NEW a \in f.todo, Goto(t, "wipe", [f EXCEPT !.todo = @ \ {a}])
        PROVE  LockInv'
    <3>. DEFINE g == [f EXCEPT !.todo = @ \ {a}]
    <3>1. g.call = f.call
      BY <1>1 DEF Frame
    <3>2. Goto(t, "wipe", g)
      BY <2>2
    <3>. HIDE DEF g
    <3>. QED  BY <1>1, <1>2, <2>1, <3>1, <3>2, HolderStep
  <2>3. CASE Goto(t, "load", [f EXCEPT !.todo = Included(f.call.snapshot)])
    <3>. DEFINE g == [f EXCEPT !.todo = Included(f.call.snapshot)]
    <3>1. g.call = f.call
      BY <1>1 DEF Frame
    <3>2. Goto(t, "load", g)
      BY <2>3
    <3>. HIDE DEF g
    <3>. QED  BY <1>1, <1>2, <2>1, <3>1, <3>2, HolderStep
  <2>. QED  BY <1>4, <2>2, <2>3 DEF ImportWipe
<1>5. CASE ImportLoad(t)
  <2>1. ASSUME NEW a \in f.todo, UNCHANGED lock,
               Goto(t, "load", [f EXCEPT !.todo = @ \ {a}, !.done = Append(@, a)])
        PROVE  LockInv'
    <3>. DEFINE g == [f EXCEPT !.todo = @ \ {a}, !.done = Append(@, a)]
    <3>1. g.call = f.call
      BY <1>1 DEF Frame
    <3>2. Goto(t, "load", g)
      BY <2>1
    <3>. HIDE DEF g
    <3>. QED  BY <1>1, <1>2, <2>1, <3>1, <3>2, HolderStep
  <2>2. CASE Release(t) /\ Goto(t, "audit", Auditing(f, f.done))
    <3>1. Auditing(f, f.done).call = f.call
      BY <1>1 DEF Auditing, Frame
    <3>. QED  BY <1>1, <1>2, <2>2, <3>1, HolderStep DEF Locked
  <2>. QED  BY <1>5, <2>1, <2>2 DEF ImportLoad
<1>. QED  BY <1>3, <1>4, <1>5

(* What a call does after its write. *)
LEMMA TellLocks ==
    ASSUME LockInv, TypeInv', NEW t \in Tasks,
           JournalEvidence(t) \/ JournalDiscounted(t) \/ Emit(t) \/ Audit(t)
    PROVE  LockInv'
PROOF
<1>. DEFINE f == frame[t]
<1>1. f \in Frame /\ pc[t] # "idle" /\ UNCHANGED <<store, applied>>
  BY LockFacts, FrameFacts DEF JournalEvidence, JournalDiscounted, Emit, Audit
<1>2. CASE JournalEvidence(t)
  <2>. DEFINE es == <<Announce("evidence_submitted", f), Announce("trust_updated", f)>>
                    \o Crossing(f)
              g == [f EXCEPT !.outbox = es]
  <2>1. g.call = f.call
    BY <1>1 DEF Frame
  <2>2. Goto(t, "emit", g) /\ UNCHANGED lock /\ lock = t
    BY <1>2, LockFacts DEF JournalEvidence, Locked
  <2>. HIDE DEF g
  <2>. QED  BY <1>1, <2>1, <2>2, HolderStep
<1>3. CASE JournalDiscounted(t)
  <2>1. Release(t) /\ Goto(t, "idle", f) /\ lock = t
    BY <1>3, LockFacts DEF JournalDiscounted, Locked
  <2>. QED  BY <1>1, <2>1, HolderStep DEF Locked
<1>4. CASE Emit(t)
  <2>. DEFINE g == [f EXCEPT !.outbox = Tail(f.outbox)]
  <2>1. g.call = f.call
    BY <1>1 DEF Frame
  <2>2. /\ lock = t
        /\ \/ Goto(t, "emit", g) /\ UNCHANGED lock
           \/ Goto(t, Resume(f), g) /\ Release(t)
    BY <1>4, LockFacts DEF Emit, Locked
  <2>. HIDE DEF g
  <2>. QED  BY <1>1, <2>1, <2>2, ResumeUnlocked, HolderStep DEF Locked
<1>5. CASE Audit(t)
  <2>. DEFINE g == [f EXCEPT !.trail = Tail(f.trail)]
  <2>1. g.call = f.call
    BY <1>1 DEF Frame
  <2>2. UNCHANGED lock /\ \E phase \in {"next", "idle", "audit"} : Goto(t, phase, g)
    BY <1>5 DEF Audit
  <2>. HIDE DEF g
  <2>. QED  BY <1>1, <2>1, <2>2, QuietStep DEF Locked
<1>. QED  BY <1>2, <1>3, <1>4, <1>5

(* A failure unwinds; the reply that was lost may be that of a delete without
   the lock. *)
LEMMA FaultLocks ==
    ASSUME LockInv, TypeInv', NEW t \in Tasks, Fault(t) \/ LostReply(t)
    PROVE  LockInv'
PROOF
<1>. DEFINE f == frame[t]
<1>1. Release(t) /\ Goto(t, "idle", f)
  BY DEF Fault, LostReply
<1>2. CASE Fault(t)
  BY <1>1, <1>2, GotoKeepsLocks DEF Fault, Release
<1>3. CASE LostReply(t)
  <2>1. /\ f.agent \in Agents /\ store' = [store EXCEPT ![f.agent] = f.local]
        /\ store \in [Agents -> Record \cup {NoRecord}]
    BY <1>3, LockFacts, FrameFacts DEF LostReply, FrameFits, DataOK
  <2>2. applied \subseteq applied'
    BY <1>3, AppliedGrows DEF LostReply
  <2>3. CASE InLock(pc[t], f)
    BY <1>1, <2>2, <2>3, LockFacts, GotoKeepsLocks DEF Release
  <2>4. CASE ~InLock(pc[t], f)
    <3>1. f.call.op = "deregister_agent" /\ f.local = NoRecord
      BY <1>3, <2>4, LockFacts DEF LostReply, InLock, Locked, Sound
    <3>2. store' = store \/ Deregistered(applied', f.agent)
      <4>1. CASE f.local = store[f.agent]
        BY <2>1, <4>1
      <4>2. CASE f.local # store[f.agent]
        <5>1. Applied(f, "deregister_agent", f.agent)
          BY <1>3, <3>1, <4>2 DEF LostReply
        <5>. QED  BY <5>1, DeregistrationRemembered
      <4>. QED  BY <4>1, <4>2
    <3>. QED  BY <1>1, <2>1, <2>2, <3>1, <3>2, GotoKeepsLocks DEF Release
  <2>. QED  BY <2>3, <2>4
<1>. QED  BY <1>2, <1>3

LEMMA InitLocks == Init => LockInv
PROOF BY InitTypes DEF Init, LockInv, Sound, InLock, Locked

LEMMA StepLocks == LockInv /\ [Next]_vars => LockInv'
PROOF
<1>. SUFFICES ASSUME LockInv, [Next]_vars PROVE LockInv'
  OBVIOUS
<1>0. TypeInv'
  BY StepTypes DEF LockInv
<1>1. ASSUME NEW t \in Tasks, Continue(t)
      PROVE  LockInv'
  BY <1>0, <1>1, PeekLocks, SweepLocks, UpdatingLocks, GetForFlagLocks, GetForNothingLocks,
     GetAndLeaveLocks, PutLocks, DeleteLocks, ImportLocks, TellLocks
     DEF Continue, GetForUpdate
<1>2. ASSUME NEW t \in Tasks, Invoke(t) \/ Acquire(t) \/ Fault(t) \/ LostReply(t)
      PROVE  LockInv'
  BY <1>0, <1>2, InvokeLocks, AcquireLocks, FaultLocks
<1>3. CASE UNCHANGED <<store, lock, applied, pc, frame>>
  BY <1>0, <1>3 DEF LockInv
<1>. QED  BY <1>1, <1>2, <1>3 DEF Next, Tick, Rest, vars
-----------------------------------------------------------------------------
(***************************************************************************)
(* Steps, by what they owe to whom.                                        *)
(***************************************************************************)

(* The changes of a record that the ledger or the subscribers follow. *)
Feeding == Submissions \cup {"register_agent", "merge_authority_opinions", "apply_decay"}

(* The phases in which a change that was made is still to be told. *)
Telling == {"ledger", "emit"}

(* The record of b was changed by a call that feeds nothing. *)
Unfollowed(b) == \E x \in applied' : x.agent = b /\ x.op \notin Feeding

(* A step that tells nobody anything and owes nothing afterwards. *)
Quiet ==
    /\ UNCHANGED events
    /\ applied \subseteq applied'
    /\ \/ UNCHANGED ledger
       \/ \E e \in Entry : e.type = "admin" /\ ledger' = Append(ledger, e)
    /\ \A b \in Agents : store'[b] = store[b] \/ Unfollowed(b)
    /\ \A s \in Tasks :
          \/ pc'[s] = pc[s] /\ frame'[s] = frame[s]
          \/ pc[s] \notin Telling /\ pc'[s] \notin Telling

LEMMA GotoQuiet ==
    ASSUME TypeInv, NEW t \in Tasks, NEW phase, NEW f, Goto(t, phase, f),
           pc[t] \notin Telling, phase \notin Telling
    PROVE  \A s \in Tasks : \/ pc'[s] = pc[s] /\ frame'[s] = frame[s]
                            \/ pc[s] \notin Telling /\ pc'[s] \notin Telling
PROOF
<1>1. pc \in [Tasks -> Phases] /\ frame \in [Tasks -> Frame]
  BY DEF TypeInv, TypeOK
<1>. QED  BY <1>1 DEF Goto

(* Where the stepping task goes, and that nobody else moves. *)
LEMMA GotoMoves ==
    ASSUME TypeInv, NEW t \in Tasks, NEW phase, NEW f, Goto(t, phase, f)
    PROVE  /\ pc'[t] = phase
           /\ frame'[t] = IF phase = "idle" THEN Blank ELSE f
           /\ \A s \in Tasks \ {t} : pc'[s] = pc[s] /\ frame'[s] = frame[s]
PROOF
<1>1. pc \in [Tasks -> Phases] /\ frame \in [Tasks -> Frame]
  BY DEF TypeInv, TypeOK
<1>. QED  BY <1>1 DEF Goto

(* A change of one record is in the history. *)
LEMMA AppliedIsKept ==
    ASSUME NEW f, NEW op, NEW b, Applied(f, op, b)
    PROVE  /\ applied \subseteq applied'
           /\ \E x \in applied' : x.agent = b /\ x.op = op
PROOF
<1>. DEFINE x == [call |-> f.id, op |-> op, agent |-> b]
<1>1. x.agent = b /\ x.op = op
  OBVIOUS
<1>2. x \in applied' /\ applied \subseteq applied'
  BY DEF Applied
<1>. HIDE DEF x
<1>. QED  BY <1>1, <1>2

LEMMA UnfollowedChange ==
    ASSUME NEW f, NEW op, NEW b, Applied(f, op, b), op \notin Feeding
    PROVE  applied \subseteq applied' /\ Unfollowed(b)
PROOF BY AppliedIsKept DEF Unfollowed

(* The steps that neither write nor announce. *)
LEMMA ReadingIsQuiet ==
    ASSUME LockInv, NEW t \in Tasks,
           \/ Invoke(t) \/ Acquire(t) \/ Peek(t) \/ ListAgents(t) \/ NextAgent(t)
           \/ ExportRecord(t) \/ GetForUpdate(t) \/ GetForFlag(t) \/ GetAndLeave(t)
           \/ ImportList(t) \/ (Fault(t) /\ pc[t] \notin Telling)
    PROVE  Quiet
PROOF
<1>0. TypeInv
  BY DEF LockInv
<1>1. UNCHANGED <<store, ledger, events, applied>>
  BY DEF Invoke, Acquire, Enter, Peek, ListAgents, NextAgent, ExportRecord, GetForUpdate,
         Updating, GetForFlag, GetAndLeave, ImportList, Fault
<1>2. pc[t] \notin Telling
  BY DEF Invoke, Acquire, Enter, Peek, ListAgents, NextAgent, ExportRecord, GetForUpdate,
         Updating, GetForFlag, GetAndLeave, ImportList, Telling
<1>3. \E phase, f : Goto(t, phase, f) /\ phase \notin Telling
  <2>1. CASE Invoke(t)
    <3>1. ASSUME NEW c PROVE FirstAwait(c) \notin Telling
      BY DEF FirstAwait, Telling
    <3>. QED  BY <2>1, <3>1 DEF Invoke
  <2>2. CASE Acquire(t)
    BY <2>2 DEF Acquire, Enter, Telling
  <2>3. CASE NextAgent(t)
    <3>1. ASSUME NEW a, NEW left, Visit(t, frame[t], a, left)
          PROVE  \E phase, f : Goto(t, phase, f) /\ phase \notin Telling
      <4>. DEFINE phase == IF frame[t].call.op = "export_snapshot" THEN "export" ELSE "wait"
      <4>1. phase \notin Telling
        BY DEF Telling
      <4>. QED  BY <3>1, <4>1 DEF Visit
    <3>2. ASSUME NEW f, Goto(t, "audit", f) \/ Goto(t, "idle", f)
          PROVE  \E phase, g : Goto(t, phase, g) /\ phase \notin Telling
      BY <3>2 DEF Telling
    <3>. QED  BY <2>3, <3>1, <3>2 DEF NextAgent
  <2>4. CASE GetForUpdate(t)
    <3>. DEFINE f == frame[t]
                rec == store[f.agent]
                new == Outcome(f.call, f.agent, rec, Stamp(f))
                phase == IF new = NoRecord THEN "delete" ELSE "put"
    <3>1. phase \notin Telling
      BY DEF Telling
    <3>2. Goto(t, phase, [f EXCEPT !.read = rec, !.local = new])
      BY <2>4 DEF GetForUpdate, Updating
    <3>. HIDE DEF phase
    <3>. QED  BY <3>1, <3>2
  <2>5. CASE GetAndLeave(t)
    BY <2>5 DEF GetAndLeave, Resume, Telling
  <2>6. CASE Peek(t) \/ ListAgents(t) \/ ExportRecord(t)
    BY <2>6 DEF Peek, ListAgents, ExportRecord, Telling
  <2>7. CASE GetForFlag(t) \/ ImportList(t) \/ Fault(t)
    BY <2>7 DEF GetForFlag, ImportList, Fault, Telling
  <2>. QED  BY <2>1, <2>2, <2>3, <2>4, <2>5, <2>6, <2>7
<1>. QED  BY <1>0, <1>1, <1>2, <1>3, GotoQuiet DEF Quiet

(* What feeding does to the counters of a record: a submission adds its own,
   a registration starts at zero, everything else leaves them alone. *)
Counted(rec) == IF rec = NoRecord THEN 0 ELSE rec.count

Held(rec, kind) == IF rec = NoRecord THEN 0 ELSE rec[kind]

Kinds == {"positive", "negative"}

LEMMA DecayIsRecord ==
    ASSUME NEW rec \in Record, NEW ts \in 0..MaxClock
    PROVE  DecayTo(rec, ts) \in Record
PROOF
<1>. DEFINE elapsed == IF ts > rec.updated THEN ts - rec.updated ELSE 0
<1>1. elapsed \in 0..MaxClock /\ ts \in Nat
  BY BoundsAreNat DEF Record
<1>2. Decay(rec.opinion, elapsed) \in Opinion
  BY <1>1, DecayClosed DEF Record
<1>. QED  BY <1>1, <1>2 DEF DecayTo, Record

LEMMA FeedingCounts ==
    ASSUME NEW c \in Call, NEW a \in Agents, NEW rec \in Record \cup {NoRecord},
           NEW ts \in 0..MaxClock, Admits(c, a, rec, ts), c.op \in Feeding
    PROVE  LET new == Outcome(c, a, rec, ts) IN
           /\ new \in Record
           /\ IF c.op \in Submissions
              THEN /\ c.evidence \in Evidence
                   /\ new.count = Counted(rec) + 1
                   /\ \A kind \in Kinds : new[kind] = Held(rec, kind) + c.evidence[kind]
              ELSE /\ new.count = Counted(rec)
                   /\ \A kind \in Kinds : new[kind] = Held(rec, kind)
PROOF
<1>. DEFINE new == Outcome(c, a, rec, ts)
            r == OrNew(rec, ts)
<1>. USE DEF Feeding, Submissions, Kinds
<1>1. ts \in Nat /\ NoRecord \notin Record
  BY BoundsAreNat, NoRecordIsNone
<1>2. /\ r \in Record /\ r.count = Counted(rec)
      /\ r.positive = Held(rec, "positive") /\ r.negative = Held(rec, "negative")
  BY <1>1, OrNewIsRecord DEF OrNew, NewRecord, Counted, Held
<1>3. CASE c.op \in Submissions
  <2>1. c.evidence \in Evidence
    BY <1>3, CallKinds DEF SubmitCall, EvidenceCall, DiscountedCall
  <2>2. PICK op \in Opinion : new = Absorb(rec, op, c.evidence, ts)
    <3>1. CASE c.op = "submit_evidence"
      BY <2>1, <3>1, OpinionsClosed DEF Outcome
    <3>2. CASE c.op = "submit_discounted_opinion"
      BY <3>2, CallKinds DEF Outcome, SubmitCall, EvidenceCall, DiscountedCall
    <3>. QED  BY <1>3, <3>1, <3>2
  <2>3. Absorb(rec, op, c.evidence, ts) \in Record
    BY <1>1, <2>1, AbsorbIsRecord
  <2>4. /\ Absorb(rec, op, c.evidence, ts).count = r.count + 1
        /\ Absorb(rec, op, c.evidence, ts).positive = r.positive + c.evidence.positive
        /\ Absorb(rec, op, c.evidence, ts).negative = r.negative + c.evidence.negative
    <3>. HIDE DEF r
    <3>. QED  BY <1>2 DEF Absorb, r, Record
  <2>. QED  BY <1>2, <1>3, <2>1, <2>2, <2>3, <2>4
<1>4. CASE c.op = "register_agent"
  <2>1. rec = NoRecord /\ c.opinion \in Opinion
    <3>1. c \in OpinionCall
      BY <1>4 DEF Call, AgentCall, OpinionCall, ResetCall, EvidenceCall, DiscountedCall,
                  ObserveCall, MergeCall, SweepCall, ImportCall
    <3>. QED  BY <1>4, <3>1 DEF Admits, OpinionCall
  <2>2. new = NewRecord(c.opinion, FALSE, ts)
    BY <1>4 DEF Outcome
  <2>3. NewRecord(c.opinion, FALSE, ts) \in Record
    BY <1>1, <2>1 DEF NewRecord, Record
  <2>4. Counted(rec) = 0 /\ Held(rec, "positive") = 0 /\ Held(rec, "negative") = 0
    BY <2>1 DEF Counted, Held
  <2>. QED  BY <1>4, <2>2, <2>3, <2>4 DEF NewRecord
<1>5. CASE c.op = "merge_authority_opinions"
  <2>1. c \in MergeCall /\ c.referral # NoReferral
    BY <1>5 DEF Admits, Call, AgentCall, OpinionCall, ResetCall, EvidenceCall, DiscountedCall,
                ObserveCall, MergeCall, SweepCall, ImportCall
  <2>2. Merge(c.referral) \in Opinion
    BY <2>1, OpinionsClosed DEF MergeCall
  <2>3. new = [r EXCEPT !.opinion = Fuse(r.opinion, Merge(c.referral)), !.updated = ts]
    BY <1>5 DEF Outcome, MergeReferral
  <2>4. Fuse(r.opinion, Merge(c.referral)) \in Opinion
    BY <1>2, <2>2, OpinionsClosed DEF Record
  <2>. HIDE DEF r
  <2>. QED  BY <1>1, <1>2, <1>5, <2>3, <2>4 DEF Record
<1>6. CASE c.op = "apply_decay"
  <2>1. rec \in Record
    BY <1>6 DEF Admits
  <2>2. new = DecayTo(rec, ts)
    BY <1>6 DEF Outcome
  <2>3. DecayTo(rec, ts) \in Record
    BY <2>1, DecayIsRecord
  <2>4. /\ DecayTo(rec, ts).count = rec.count /\ DecayTo(rec, ts).positive = rec.positive
        /\ DecayTo(rec, ts).negative = rec.negative
    BY <2>1 DEF DecayTo, Record
  <2>. QED  BY <1>1, <1>6, <2>1, <2>2, <2>3, <2>4 DEF Counted, Held
<1>. QED  BY <1>3, <1>4, <1>5, <1>6

(* The calls that feed a record leave one. *)
LEMMA FeedingLeavesRecord ==
    ASSUME NEW c \in Call, NEW a \in Agents, NEW rec \in Record \cup {NoRecord},
           NEW ts \in 0..MaxClock, Admits(c, a, rec, ts), Outcome(c, a, rec, ts) = NoRecord
    PROVE  c.op \notin Feeding
PROOF BY FeedingCounts, NoRecordIsNone

(* None of them deletes. *)
LEMMA DeleteFeedsNothing ==
    ASSUME LockInv, NEW t \in Tasks, pc[t] = "delete"
    PROVE  frame[t].call.op \notin Feeding
PROOF
<1>. DEFINE f == frame[t]
<1>1. CASE f.call.op = "deregister_agent"
  BY <1>1 DEF Feeding, Submissions
<1>2. CASE f.call.op # "deregister_agent" /\ ~Flags(f)
  <2>1. PICK ts \in 0..MaxClock : /\ Admits(f.call, f.agent, f.read, ts)
                                  /\ NoRecord = Outcome(f.call, f.agent, f.read, ts)
    BY <1>2, LockFacts DEF Sound, Computed
  <2>2. f.call \in Call /\ f.agent \in Agents /\ f.read \in Record \cup {NoRecord}
    BY LockFacts, FrameFacts DEF FrameFits
  <2>. QED  BY <2>1, <2>2, FeedingLeavesRecord
<1>3. CASE Flags(f)
  BY <1>3 DEF Flags, Feeding, Submissions
<1>. QED  BY <1>1, <1>2, <1>3

(* The changes nobody follows, and the audit trail. *)
LEMMA UnfollowedIsQuiet ==
    ASSUME LockInv, NEW t \in Tasks,
           PutFlag(t) \/ PutAdmin(t) \/ Delete(t) \/ ImportWipe(t) \/ ImportLoad(t) \/ Audit(t)
    PROVE  Quiet
PROOF
<1>. DEFINE f == frame[t]
            elsewhere == \A s \in Tasks : \/ pc'[s] = pc[s] /\ frame'[s] = frame[s]
                                          \/ pc[s] \notin Telling /\ pc'[s] \notin Telling
            followed == \A b \in Agents : store'[b] = store[b] \/ Unfollowed(b)
<1>0. TypeInv /\ UNCHANGED events /\ store \in [Agents -> Record \cup {NoRecord}]
  BY DEF LockInv, TypeInv, TypeOK, PutFlag, PutAdmin, Write, Delete, ImportWipe, ImportLoad, Audit
<1>1. elsewhere
  <2>1. pc[t] \notin Telling
    BY DEF PutFlag, PutAdmin, Write, Delete, ImportWipe, ImportLoad, Audit, Telling
  <2>2. CASE PutFlag(t) \/ PutAdmin(t)
    BY <1>0, <2>1, <2>2, GotoQuiet DEF PutFlag, PutAdmin, Telling
  <2>3. CASE Delete(t)
    BY <1>0, <2>1, <2>3, ResumeUnlocked, GotoQuiet DEF Delete, Telling, Locked
  <2>4. ASSUME NEW g, Goto(t, "wipe", g) \/ Goto(t, "load", g) \/ Goto(t, "audit", g)
        PROVE  elsewhere
    BY <1>0, <2>1, <2>4, GotoQuiet DEF Telling
  <2>5. CASE ImportWipe(t) \/ ImportLoad(t)
    BY <2>4, <2>5 DEF ImportWipe, ImportLoad
  <2>6. CASE Audit(t)
    <3>1. \E phase, g : phase \in {"next", "idle", "audit"} /\ Goto(t, phase, g)
      BY <2>6 DEF Audit
    <3>. QED  BY <1>0, <2>1, <3>1, GotoQuiet DEF Telling
  <2>. QED  BY <2>2, <2>3, <2>5, <2>6
<1>2. CASE PutFlag(t) \/ PutAdmin(t)
  <2>1. f.call.op \notin Feeding /\ Write(t)
    BY <1>2 DEF PutFlag, PutAdmin, Feeding, Submissions, AdminOps
  <2>2. applied \subseteq applied' /\ Unfollowed(f.agent)
    BY <2>1, UnfollowedChange DEF Write
  <2>3. UNCHANGED ledger /\ followed
    BY <1>0, <2>1, <2>2 DEF Write
  <2>. QED  BY <1>0, <1>1, <2>2, <2>3 DEF Quiet
<1>3. CASE Delete(t)
  <2>1. f.call.op \notin Feeding
    BY <1>3, DeleteFeedsNothing DEF Delete
  <2>2. CASE store[f.agent] = NoRecord
    <3>1. store' = store /\ UNCHANGED <<ledger, applied>>
      BY <1>0, <1>3, <2>2 DEF Delete
    <3>. QED  BY <1>0, <1>1, <3>1 DEF Quiet
  <2>3. CASE store[f.agent] # NoRecord
    <3>1. applied \subseteq applied' /\ Unfollowed(f.agent)
      BY <1>3, <2>1, <2>3, UnfollowedChange DEF Delete
    <3>2. UNCHANGED ledger /\ followed
      BY <1>0, <1>3, <3>1 DEF Delete
    <3>. QED  BY <1>0, <1>1, <3>1, <3>2 DEF Quiet
  <2>. QED  BY <2>2, <2>3
<1>4. CASE ImportWipe(t) \/ ImportLoad(t)
  <2>1. UNCHANGED ledger
    BY <1>4 DEF ImportWipe, ImportLoad
  <2>2. CASE UNCHANGED <<store, applied>>
    BY <1>0, <1>1, <2>1, <2>2 DEF Quiet
  <2>3. ASSUME NEW a, NEW rec, NEW op \in {"wipe", "load"}, Applied(f, op, a),
               store' = [store EXCEPT ![a] = rec]
        PROVE  Quiet
    <3>1. op \notin Feeding
      BY DEF Feeding, Submissions
    <3>2. applied \subseteq applied' /\ Unfollowed(a)
      BY <2>3, <3>1, UnfollowedChange
    <3>3. followed
      BY <1>0, <2>3, <3>2
    <3>. QED  BY <1>0, <1>1, <2>1, <3>2, <3>3 DEF Quiet
  <2>. QED  BY <1>4, <2>2, <2>3 DEF ImportWipe, ImportLoad
<1>5. CASE Audit(t)
  <2>1. AdminEntry(f, Head(f.trail)) \in Entry /\ AdminEntry(f, Head(f.trail)).type = "admin"
    <3>1. /\ f.id \in Nat /\ f.done \in Seq(Agents)
          /\ f.trail \in Seq(Agents \cup {Admin}) /\ f.trail # << >>
      BY <1>0, <1>5, FrameFacts DEF FrameFits, Audit
    <3>2. /\ Head(f.trail) \in Agents \cup {Admin}
          /\ {f.done[i] : i \in DOMAIN f.done} \in SUBSET Agents
      BY <3>1
    <3>. QED  BY <3>1, <3>2 DEF AdminEntry, Entry
  <2>2. ledger' = Append(ledger, AdminEntry(f, Head(f.trail))) /\ UNCHANGED <<store, applied>>
    BY <1>5 DEF Audit
  <2>. QED  BY <1>0, <1>1, <2>1, <2>2 DEF Quiet
<1>. QED  BY <1>2, <1>3, <1>4, <1>5

(* A step is quiet, or writes what is followed, or tells, or fails to. *)
LEMMA StepCases ==
    ASSUME LockInv, [Next]_vars
    PROVE  \/ Quiet
           \/ \E t \in Tasks :
                 \/ PutEvidence(t) \/ PutAndAnnounce(t) \/ GetForNothing(t)
                 \/ JournalEvidence(t) \/ JournalDiscounted(t) \/ Emit(t)
                 \/ Fault(t) /\ pc[t] \in Telling
                 \/ LostReply(t)
PROOF
<1>1. CASE UNCHANGED <<store, ledger, events, applied, pc, frame>>
  BY <1>1 DEF Quiet
<1>2. ASSUME NEW t \in Tasks, Continue(t) \/ Invoke(t) \/ Acquire(t) \/ Fault(t) \/ LostReply(t)
      PROVE  \/ Quiet
             \/ \/ PutEvidence(t) \/ PutAndAnnounce(t) \/ GetForNothing(t)
                \/ JournalEvidence(t) \/ JournalDiscounted(t) \/ Emit(t)
                \/ Fault(t) /\ pc[t] \in Telling
                \/ LostReply(t)
  BY <1>2, ReadingIsQuiet, UnfollowedIsQuiet DEF Continue
<1>. QED  BY <1>1, <1>2 DEF Next, Tick, Rest, vars
-----------------------------------------------------------------------------
(***************************************************************************)
(* The evidence ledger.                                                    *)
(***************************************************************************)

(* w[i] units for each i of E. *)
Units(E, w) == UNION {{i} \X (1..w[i]) : i \in E}

LEMMA UnitsAreFinite ==
    ASSUME NEW E, IsFiniteSet(E), NEW w, \A i \in E : w[i] \in Nat
    PROVE  IsFiniteSet(Units(E, w)) /\ Cardinality(Units(E, w)) \in Nat
PROOF
<1>. DEFINE rows == {{i} \X (1..w[i]) : i \in E}
            row == [i \in E |-> {i} \X (1..w[i])]
<1>1. IsFiniteSet(rows)
  <2>1. row \in Surjection(E, rows)
    BY DEF Surjection
  <2>. QED  BY <2>1, FS_Surjection
<1>2. ASSUME NEW R \in rows PROVE IsFiniteSet(R)
  <2>1. PICK i \in E : R = {i} \X (1..w[i]) /\ w[i] \in Nat
    OBVIOUS
  <2>2. IsFiniteSet({i}) /\ IsFiniteSet(1..w[i])
    <3>1. w[i] \in Int /\ 1 \in Int
      BY <2>1
    <3>. QED  BY <3>1, FS_Singleton, FS_Interval
  <2>. QED  BY <2>1, <2>2, FS_Product
<1>3. IsFiniteSet(UNION rows)
  BY <1>1, <1>2, FS_UNION
<1>. QED  BY <1>3, FS_CardinalityType DEF Units

(* One more entry brings its own units. *)
LEMMA UnitsGrow ==
    ASSUME NEW E, IsFiniteSet(E), NEW w, NEW n, n \notin E, \A i \in E \cup {n} : w[i] \in Nat
    PROVE  Cardinality(Units(E \cup {n}, w)) = Cardinality(Units(E, w)) + w[n]
PROOF
<1>. DEFINE row == {n} \X (1..w[n])
<1>1. IsFiniteSet(row) /\ Cardinality(row) = w[n]
  <2>1. IsFiniteSet({n}) /\ Cardinality({n}) = 1
    BY FS_Singleton
  <2>2. IsFiniteSet(1..w[n]) /\ Cardinality(1..w[n]) = w[n]
    BY FS_Interval
  <2>. QED  BY <2>1, <2>2, FS_Product
<1>2. Units(E \cup {n}, w) = Units(E, w) \cup row
  BY DEF Units
<1>3. Units(E, w) \cap row = {}
  BY DEF Units
<1>4. Cardinality({}) = 0
  BY FS_EmptySet
<1>. HIDE DEF row
<1>5. IsFiniteSet(Units(E, w)) /\ Cardinality(Units(E, w)) \in Nat
  BY UnitsAreFinite
<1>6. Cardinality(Units(E, w) \cup row)
        = Cardinality(Units(E, w)) + Cardinality(row) - Cardinality(Units(E, w) \cap row)
  BY <1>1, <1>5, FS_Union
<1>7. ASSUME NEW x \in Nat, NEW y \in Nat, NEW z, z = x + y - 0
      PROVE  z = x + y
  BY <1>7
<1>8. w[n] \in Nat
  OBVIOUS
<1>. QED  BY <1>1, <1>2, <1>3, <1>4, <1>5, <1>6, <1>7, <1>8, Zenon

(* The units behind Weight. *)
Worth(b, kind) == [i \in EntriesOf(b) |-> ledger[i].evidence[kind]]

LEMMA WeightIsUnits ==
    ASSUME NEW b, NEW kind
    PROVE  Weight(b, kind) = Cardinality(Units(EntriesOf(b), Worth(b, kind)))
PROOF
<1>1. ASSUME NEW i \in EntriesOf(b)
      PROVE  Worth(b, kind)[i] = ledger[i].evidence[kind]
  BY DEF Worth
<1>2. {{i} \X (1..Worth(b, kind)[i]) : i \in EntriesOf(b)}
        = {{i} \X (1..ledger[i].evidence[kind]) : i \in EntriesOf(b)}
  BY <1>1
<1>. QED  BY <1>2 DEF Weight, Units

(* The entries about b are finitely many, with weights. *)
LEMMA EntriesFacts ==
    ASSUME TypeInv, NEW b
    PROVE  /\ IsFiniteSet(EntriesOf(b)) /\ Cardinality(EntriesOf(b)) \in Nat
           /\ \A kind \in Kinds : /\ \A i \in EntriesOf(b) : Worth(b, kind)[i] \in Nat
                                  /\ Weight(b, kind) \in Nat
PROOF
<1>1. ledger \in Seq(Entry)
  BY DEF TypeInv, TypeOK
<1>2. IsFiniteSet(EntriesOf(b)) /\ Cardinality(EntriesOf(b)) \in Nat
  <2>1. IsFiniteSet(1..Len(ledger)) /\ EntriesOf(b) \subseteq 1..Len(ledger)
    BY <1>1, FS_Interval DEF EntriesOf
  <2>. QED  BY <2>1, FS_Subset, FS_CardinalityType
<1>3. ASSUME NEW kind \in Kinds, NEW i \in EntriesOf(b)
      PROVE  Worth(b, kind)[i] \in Nat
  <2>1. ledger[i] \in Entry /\ ledger[i].type # "admin"
    BY <1>1 DEF EntriesOf
  <2>2. ledger[i].evidence \in [positive: Nat, negative: Nat]
    BY <2>1, OpinionsClosed DEF Entry
  <2>. QED  BY <2>2 DEF Worth, Kinds
<1>. QED  BY <1>2, <1>3, WeightIsUnits, UnitsAreFinite

(* The ledger tells nothing new about b. *)
Kept(b) ==
    /\ EntriesOf(b)' = EntriesOf(b)
    /\ \A kind \in Kinds : Weight(b, kind)' = Weight(b, kind)

(* It tells of evidence e. *)
Told(b, e) ==
    /\ Cardinality(EntriesOf(b))' = Cardinality(EntriesOf(b)) + 1
    /\ \A kind \in Kinds : Weight(b, kind)' = Weight(b, kind) + e[kind]

LEMMA AppendFacts ==
    ASSUME TypeInv, TypeInv', NEW b, NEW e \in Entry, ledger' = Append(ledger, e)
    PROVE  IF e.type # "admin" /\ e.agent = b THEN Told(b, e.evidence) ELSE Kept(b)
PROOF
<1>. DEFINE n == Len(ledger) + 1
<1>1. ledger \in Seq(Entry) /\ Len(ledger) \in Nat
  BY DEF TypeInv, TypeOK
<1>2. DOMAIN ledger = 1..Len(ledger) /\ DOMAIN ledger' = 1..n
  BY <1>1
<1>3. ledger'[n] = e /\ \A i \in DOMAIN ledger : ledger'[i] = ledger[i]
  BY <1>1
<1>4. n \notin DOMAIN ledger /\ DOMAIN ledger' = DOMAIN ledger \cup {n}
  BY <1>1, <1>2
<1>. HIDE DEF n
<1>5. CASE ~(e.type # "admin" /\ e.agent = b)
  <2>1. EntriesOf(b)' = EntriesOf(b)
    BY <1>3, <1>4, <1>5 DEF EntriesOf
  <2>2. \A i \in EntriesOf(b) : ledger'[i] = ledger[i]
    BY <1>3 DEF EntriesOf
  <2>3. ASSUME NEW kind
        PROVE  Weight(b, kind)' = Weight(b, kind)
    <3>1. Worth(b, kind)' = Worth(b, kind)
      BY <2>1, <2>2 DEF Worth
    <3>2. Units(EntriesOf(b)', Worth(b, kind)') = Units(EntriesOf(b), Worth(b, kind))
      BY <2>1, <3>1
    <3>3. Weight(b, kind)' = Cardinality(Units(EntriesOf(b)', Worth(b, kind)'))
      <4>1. ASSUME NEW i \in EntriesOf(b)'
            PROVE  Worth(b, kind)'[i] = ledger'[i].evidence[kind]
        BY DEF Worth
      <4>2. {{i} \X (1..Worth(b, kind)'[i]) : i \in EntriesOf(b)'}
              = {{i} \X (1..ledger'[i].evidence[kind]) : i \in EntriesOf(b)'}
        BY <4>1
      <4>. QED  BY <4>2 DEF Weight, Units
    <3>. QED  BY <3>2, <3>3, WeightIsUnits
  <2>. QED  BY <1>5, <2>1, <2>3 DEF Kept
<1>6. CASE e.type # "admin" /\ e.agent = b
  <2>1. EntriesOf(b)' = EntriesOf(b) \cup {n} /\ n \notin EntriesOf(b)
    BY <1>3, <1>4, <1>6 DEF EntriesOf
  <2>2. IsFiniteSet(EntriesOf(b))
    BY EntriesFacts
  <2>3. Cardinality(EntriesOf(b))' = Cardinality(EntriesOf(b)) + 1
    BY <2>1, <2>2, FS_AddElement
  <2>4. ASSUME NEW kind \in Kinds
        PROVE  Weight(b, kind)' = Weight(b, kind) + e.evidence[kind]
    <3>. DEFINE w == Worth(b, kind)'
    <3>1. /\ w[n] = e.evidence[kind]
          /\ \A i \in EntriesOf(b) : w[i] = Worth(b, kind)[i]
      <4>1. w = [i \in EntriesOf(b) \cup {n} |-> ledger'[i].evidence[kind]]
        BY <2>1 DEF Worth
      <4>2. \A i \in EntriesOf(b) : ledger'[i] = ledger[i]
        BY <1>3 DEF EntriesOf
      <4>. QED  BY <1>3, <4>1, <4>2 DEF Worth
    <3>2. \A i \in EntriesOf(b) \cup {n} : w[i] \in Nat
      <4>1. e.evidence \in Evidence
        BY <1>6 DEF Entry
      <4>2. e.evidence[kind] \in Nat
        BY <4>1, OpinionsClosed DEF Kinds
      <4>. QED  BY <3>1, <4>2, EntriesFacts
    <3>. HIDE DEF w
    <3>3. Cardinality(Units(EntriesOf(b) \cup {n}, w))
            = Cardinality(Units(EntriesOf(b), w)) + e.evidence[kind]
      <4>1. Cardinality(Units(EntriesOf(b) \cup {n}, w))
              = Cardinality(Units(EntriesOf(b), w)) + w[n]
        BY <2>1, <2>2, <3>2, UnitsGrow
      <4>. QED  BY <3>1, <4>1
    <3>4. Units(EntriesOf(b), w) = Units(EntriesOf(b), Worth(b, kind))
      <4>1. {{i} \X (1..w[i]) : i \in EntriesOf(b)}
              = {{i} \X (1..Worth(b, kind)[i]) : i \in EntriesOf(b)}
        BY <3>1
      <4>. QED  BY <4>1 DEF Units
    <3>5. Weight(b, kind)' = Cardinality(Units(EntriesOf(b)', w))
      <4>1. ASSUME NEW i \in EntriesOf(b)'
            PROVE  w[i] = ledger'[i].evidence[kind]
        BY DEF Worth, w
      <4>2. {{i} \X (1..w[i]) : i \in EntriesOf(b)'}
              = {{i} \X (1..ledger'[i].evidence[kind]) : i \in EntriesOf(b)'}
        BY <4>1
      <4>. QED  BY <4>2 DEF Weight, Units
    <3>. QED  BY <2>1, <3>3, <3>4, <3>5, WeightIsUnits
  <2>. QED  BY <1>6, <2>3, <2>4 DEF Told
<1>. QED  BY <1>5, <1>6

LEMMA LedgerKept ==
    ASSUME NEW b, UNCHANGED ledger
    PROVE  Kept(b)
PROOF BY DEF Kept, EntriesOf, Weight
-----------------------------------------------------------------------------
(* The history only grows. *)
LEMMA HistoryGrows ==
    ASSUME LockInv, [Next]_vars
    PROVE  applied \subseteq applied'
PROOF
<1>1. CASE Quiet
  BY <1>1 DEF Quiet
<1>2. ASSUME NEW t \in Tasks,
             \/ PutEvidence(t) \/ PutAndAnnounce(t) \/ GetForNothing(t)
             \/ JournalEvidence(t) \/ JournalDiscounted(t) \/ Emit(t)
             \/ Fault(t) \/ LostReply(t)
      PROVE  applied \subseteq applied'
  BY <1>2, AppliedGrows
     DEF PutEvidence, PutAndAnnounce, Announcing, Write, GetForNothing, JournalEvidence,
         JournalDiscounted, Emit, Fault, LostReply
<1>. QED  BY <1>1, <1>2, StepCases

LEMMA FedBefore ==
    ASSUME NEW b, NEW ops, OnlyChangedBy(b, ops)', applied \subseteq applied'
    PROVE  OnlyChangedBy(b, ops)
PROOF BY DEF OnlyChangedBy

(* A put of a call that feeds a record: what it writes is its outcome on the
   record that is there, unless that has been deregistered. *)
LEMMA PutIsCurrent ==
    ASSUME LockInv, NEW t \in Tasks, pc[t] = "put", frame[t].call.op \in Feeding,
           NEW ops, OnlyChangedBy(frame[t].agent, ops), "deregister_agent" \notin ops
    PROVE  /\ lock = t /\ frame[t].call \in Call /\ frame[t].agent \in Agents
           /\ frame[t].read = store[frame[t].agent]
           /\ store[frame[t].agent] \in Record \cup {NoRecord}
           /\ \E ts \in 0..MaxClock :
                 /\ Admits(frame[t].call, frame[t].agent, store[frame[t].agent], ts)
                 /\ frame[t].local
                      = Outcome(frame[t].call, frame[t].agent, store[frame[t].agent], ts)
PROOF
<1>. DEFINE f == frame[t]
<1>1. /\ Sound(lock, store, applied, t, "put", f) /\ lock = t
      /\ f.call \in Call /\ f.agent \in Agents
      /\ store[f.agent] \in Record \cup {NoRecord}
  BY LockFacts, FrameFacts DEF FrameFits, DataOK, Locked
<1>2. f.call.op # "deregister_agent" /\ ~Flags(f)
  BY DEF Feeding, Submissions, Flags
<1>3. ~Deregistered(applied, f.agent)
  BY DEF OnlyChangedBy, Deregistered
<1>4. Computed(f) /\ f.read = store[f.agent]
  BY <1>1, <1>2, <1>3 DEF Sound
<1>. QED  BY <1>1, <1>4 DEF Computed

(* What a task about to journal knows, and who it is. *)
LEMMA JournalingFacts ==
    ASSUME LockInv, NEW b
    PROVE  /\ \A s \in Journaling(b) : lock = s /\ s \in Tasks /\ pc[s] = "ledger"
           /\ \A t \in Tasks : lock = t => Journaling(b) \subseteq {t}
           /\ Cardinality(Journaling(b)) \in {0, 1}
PROOF
<1>1. ASSUME NEW s \in Journaling(b)
      PROVE  lock = s /\ s \in Tasks /\ pc[s] = "ledger"
  BY LockFacts DEF Journaling, Locked
<1>2. Journaling(b) = {} \/ Journaling(b) = {lock}
  BY <1>1
<1>. QED  BY <1>1, <1>2, FS_Singleton, FS_EmptySet

(* The record of b keeps its counters. *)
SameCounters(b) ==
    /\ Counted(store'[b]) = Counted(store[b])
    /\ \A kind \in Kinds : Held(store'[b], kind) = Held(store[b], kind)

(* The same calls are about to journal evidence about b. *)
SameJournals(b) ==
    /\ Journaling(b)' = Journaling(b)
    /\ \A s \in Journaling(b) : frame'[s].call = frame[s].call

LEMMA OthersJournal ==
    ASSUME TypeInv, NEW t \in Tasks, NEW phase, NEW f, Goto(t, phase, f), NEW b,
           pc[t] # "ledger" \/ frame[t].agent # b, phase # "ledger" \/ f.agent # b
    PROVE  SameJournals(b)
PROOF
<1>1. pc'[t] = phase /\ frame'[t] = IF phase = "idle" THEN Blank ELSE f
  BY GotoMoves
<1>2. \A s \in Tasks \ {t} : pc'[s] = pc[s] /\ frame'[s] = frame[s]
  BY GotoMoves
<1>3. ASSUME NEW s \in Tasks
      PROVE  s \in Journaling(b)' <=> s \in Journaling(b)
  BY <1>1, <1>2 DEF Journaling
<1>4. t \notin Journaling(b)
  BY DEF Journaling
<1>5. Journaling(b) \subseteq Tasks /\ Journaling(b)' \subseteq Tasks
  BY DEF Journaling
<1>. QED  BY <1>2, <1>3, <1>4, <1>5 DEF SameJournals

(* The steps of the books about b: nothing; a record that absorbs evidence to
   be journaled; an entry; a failure that leaves an entry out. *)
BooksStay(b) == SameCounters(b) /\ Kept(b) /\ SameJournals(b)

RecordAbsorbs(b, t) ==
    LET c == frame[t].call IN
    /\ Journaling(b) = {} /\ Journaling(b)' = {t} /\ Kept(b)
    /\ frame'[t].call = c /\ c.evidence \in Evidence
    /\ Counted(store'[b]) = Counted(store[b]) + 1
    /\ \A kind \in Kinds : Held(store'[b], kind) = Held(store[b], kind) + c.evidence[kind]

EntryFollows(b, t) ==
    /\ Journaling(b) = {t} /\ Journaling(b)' = {}
    /\ SameCounters(b) /\ Told(b, frame[t].call.evidence)

EntryIsLost(b) ==
    /\ Faults \cap {"put", "ledger"} # {}
    /\ Kept(b) /\ Journaling(b)' = {}
    /\ Counted(store'[b]) >= Counted(store[b])

(* The counters of a record that is put. *)
LEMMA PutCounts ==
    ASSUME LockInv, NEW t \in Tasks, pc[t] = "put", frame[t].call.op \in Feeding,
           NEW b \in Agents, b = frame[t].agent, OnlyFed(b), store'[b] = frame[t].local
    PROVE  /\ lock = t /\ Journaling(b) = {}
           /\ Counted(store[b]) \in Nat
           /\ frame[t].call.op \notin Submissions => SameCounters(b)
           /\ frame[t].call.op \in Submissions =>
                LET c == frame[t].call IN
                /\ c.evidence \in Evidence
                /\ Counted(store'[b]) = Counted(store[b]) + 1
                /\ \A kind \in Kinds :
                      Held(store'[b], kind) = Held(store[b], kind) + c.evidence[kind]
PROOF
<1>. DEFINE f == frame[t]
            c == f.call
<1>1. OnlyChangedBy(b, Feeding) /\ "deregister_agent" \notin Feeding
  BY DEF OnlyFed, Feeding, Submissions
<1>2. lock = t /\ c \in Call /\ f.agent \in Agents /\ store[b] \in Record \cup {NoRecord}
  BY <1>1, PutIsCurrent
<1>3. PICK ts \in 0..MaxClock : /\ Admits(c, b, store[b], ts)
                                /\ store'[b] = Outcome(c, b, store[b], ts)
  BY <1>1, PutIsCurrent
<1>4. /\ store'[b] \in Record
      /\ IF c.op \in Submissions
         THEN /\ c.evidence \in Evidence
              /\ store'[b].count = Counted(store[b]) + 1
              /\ \A kind \in Kinds : store'[b][kind] = Held(store[b], kind) + c.evidence[kind]
         ELSE /\ store'[b].count = Counted(store[b])
              /\ \A kind \in Kinds : store'[b][kind] = Held(store[b], kind)
  <2>. DEFINE new == Outcome(c, b, store[b], ts)
  <2>1. /\ new \in Record
        /\ IF c.op \in Submissions
           THEN /\ c.evidence \in Evidence
                /\ new.count = Counted(store[b]) + 1
                /\ \A kind \in Kinds : new[kind] = Held(store[b], kind) + c.evidence[kind]
           ELSE /\ new.count = Counted(store[b])
                /\ \A kind \in Kinds : new[kind] = Held(store[b], kind)
    <3>. HIDE DEF c
    <3>. QED  BY <1>2, <1>3, FeedingCounts DEF c
  <2>2. store'[b] = new
    BY <1>3
  <2>. HIDE DEF new
  <2>. QED  BY <2>1, <2>2
<1>5. Counted(store'[b]) = store'[b].count /\ \A kind : Held(store'[b], kind) = store'[b][kind]
  BY <1>4, NoRecordIsNone DEF Counted, Held
<1>6. Journaling(b) = {}
  <2>1. \A s \in Journaling(b) : s = t /\ pc[s] = "ledger"
    BY <1>2, JournalingFacts
  <2>. QED  BY <2>1
<1>7. Counted(store[b]) \in Nat
  BY <1>2 DEF Counted, Record
<1>. QED  BY <1>2, <1>4, <1>5, <1>6, <1>7 DEF SameCounters

LEMMA BooksMove ==
    ASSUME LockInv, LockInv', [Next]_vars, NEW b \in Agents, OnlyFed(b)'
    PROVE  \/ BooksStay(b)
           \/ \E t \in Tasks : RecordAbsorbs(b, t) \/ EntryFollows(b, t)
           \/ EntryIsLost(b)
PROOF
<1>0. TypeInv /\ TypeInv' /\ store \in [Agents -> Record \cup {NoRecord}]
  BY DEF LockInv, TypeInv, TypeOK
<1>1. OnlyFed(b) /\ \A x \in applied' : x.agent = b => x.op \in Feeding
  BY HistoryGrows, FedBefore DEF OnlyFed, OnlyChangedBy, Feeding
<1>2. CASE Quiet
  <2>1. store'[b] = store[b]
    BY <1>1, <1>2 DEF Quiet, Unfollowed
  <2>2. Kept(b)
    BY <1>0, <1>2, LedgerKept, AppendFacts DEF Quiet
  <2>3. SameJournals(b)
    <3>1. ASSUME NEW s \in Tasks
          PROVE  /\ s \in Journaling(b)' <=> s \in Journaling(b)
                 /\ s \in Journaling(b) => frame'[s] = frame[s]
      BY <1>2 DEF Quiet, Journaling, Telling
    <3>2. Journaling(b) \subseteq Tasks /\ Journaling(b)' \subseteq Tasks
      BY DEF Journaling
    <3>. QED  BY <3>1, <3>2 DEF SameJournals
  <2>. QED  BY <2>1, <2>2, <2>3 DEF BooksStay, SameCounters
<1>3. ASSUME NEW t \in Tasks, PutEvidence(t)
      PROVE  BooksStay(b) \/ RecordAbsorbs(b, t)
  <2>. DEFINE f == frame[t]
  <2>1. /\ pc[t] = "put" /\ store' = [store EXCEPT ![f.agent] = f.local]
        /\ Goto(t, "ledger", f) /\ f.call.op \in Submissions /\ Kept(b)
    BY <1>3, LedgerKept DEF PutEvidence, Write
  <2>2. CASE f.agent = b
    <3>1. store'[b] = f.local
      BY <1>0, <2>1, <2>2
    <3>2. /\ Journaling(b) = {} /\ f.call.evidence \in Evidence
          /\ Counted(store'[b]) = Counted(store[b]) + 1
          /\ \A kind \in Kinds :
                Held(store'[b], kind) = Held(store[b], kind) + f.call.evidence[kind]
      BY <1>1, <2>1, <2>2, <3>1, PutCounts DEF Feeding
    <3>3. /\ pc'[t] = "ledger" /\ frame'[t] = f
          /\ \A s \in Tasks \ {t} : pc'[s] = pc[s] /\ frame'[s] = frame[s]
      BY <1>0, <2>1, GotoMoves
    <3>4. Journaling(b)' = {t}
      <4>1. ASSUME NEW s \in Tasks \ {t} PROVE s \notin Journaling(b)'
        BY <3>2, <3>3 DEF Journaling
      <4>2. t \in Journaling(b)' /\ Journaling(b)' \subseteq Tasks
        BY <2>2, <3>3 DEF Journaling
      <4>. QED  BY <4>1, <4>2
    <3>. QED  BY <2>1, <3>2, <3>3, <3>4 DEF RecordAbsorbs
  <2>3. CASE f.agent # b
    <3>1. SameJournals(b)
      BY <1>0, <2>1, <2>3, OthersJournal
    <3>2. store'[b] = store[b]
      BY <1>0, <2>1, <2>3
    <3>. QED  BY <2>1, <3>1, <3>2 DEF BooksStay, SameCounters
  <2>. QED  BY <2>2, <2>3
<1>4. ASSUME NEW t \in Tasks, PutAndAnnounce(t)
      PROVE  BooksStay(b)
  <2>. DEFINE f == frame[t]
  <2>1. /\ pc[t] = "put" /\ store' = [store EXCEPT ![f.agent] = f.local]
        /\ Applied(f, f.call.op, f.agent) /\ Kept(b)
    BY <1>4, LedgerKept DEF PutAndAnnounce, Announcing, Write
  <2>2. SameJournals(b)
    <3>1. ASSUME NEW g, Goto(t, "emit", g) PROVE SameJournals(b)
      BY <1>0, <2>1, <3>1, OthersJournal
    <3>. QED  BY <1>4, <3>1 DEF PutAndAnnounce, Announcing
  <2>3. SameCounters(b)
    <3>1. CASE f.agent = b
      <4>1. f.call.op \in Feeding
        BY <1>1, <2>1, <3>1, AppliedIsKept
      <4>2. f.call.op \notin Submissions
        BY <1>4 DEF PutAndAnnounce, Announcing, Submissions
      <4>3. store'[b] = f.local
        BY <1>0, <2>1, <3>1
      <4>. QED  BY <1>1, <2>1, <3>1, <4>1, <4>2, <4>3, PutCounts
    <3>2. CASE f.agent # b
      BY <1>0, <2>1, <3>2 DEF SameCounters
    <3>. QED  BY <3>1, <3>2
  <2>. QED  BY <2>1, <2>2, <2>3 DEF BooksStay
<1>5. ASSUME NEW t \in Tasks, GetForNothing(t) \/ Emit(t)
      PROVE  BooksStay(b)
  <2>1. UNCHANGED <<store, ledger>> /\ pc[t] # "ledger"
    BY <1>5 DEF GetForNothing, Emit
  <2>2. ASSUME NEW phase, NEW g, Goto(t, phase, g), phase # "ledger"
        PROVE  SameJournals(b)
    BY <1>0, <2>1, <2>2, OthersJournal
  <2>3. SameJournals(b)
    <3>1. CASE GetForNothing(t)
      BY <2>2, <3>1 DEF GetForNothing
    <3>2. CASE Emit(t)
      BY <2>2, <3>2, ResumeUnlocked DEF Emit, Locked
    <3>. QED  BY <1>5, <3>1, <3>2
  <2>. QED  BY <2>1, <2>3, LedgerKept DEF BooksStay, SameCounters
<1>6. ASSUME NEW t \in Tasks, JournalEvidence(t) \/ JournalDiscounted(t)
      PROVE  BooksStay(b) \/ EntryFollows(b, t)
  <2>. DEFINE f == frame[t]
  <2>1. PICK type \in {"evidence", "discounted_opinion"} :
           ledger' = Append(ledger, EvidenceEntry(f, type))
    BY <1>6 DEF JournalEvidence, JournalDiscounted
  <2>2. /\ EvidenceEntry(f, type).agent = f.agent /\ EvidenceEntry(f, type).type # "admin"
        /\ EvidenceEntry(f, type).evidence = f.call.evidence
    BY DEF EvidenceEntry
  <2>3. pc[t] = "ledger" /\ UNCHANGED store /\ SameCounters(b) /\ lock = t
    BY <1>6, LockFacts DEF JournalEvidence, JournalDiscounted, SameCounters, Locked
  <2>4. EvidenceEntry(f, type) \in Entry
    BY <1>0, <2>3, FrameFacts, EvidenceEntryIsEntry DEF FrameFits
  <2>5. PICK phase, g : phase \in {"emit", "idle"} /\ Goto(t, phase, g)
    BY <1>6 DEF JournalEvidence, JournalDiscounted
  <2>6. CASE f.agent = b
    <3>1. Told(b, f.call.evidence)
      BY <1>0, <2>1, <2>2, <2>4, <2>6, AppendFacts
    <3>2. Journaling(b) = {t}
      <4>1. t \in Journaling(b)
        BY <2>3, <2>6 DEF Journaling
      <4>2. Journaling(b) \subseteq {t}
        BY <2>3, JournalingFacts
      <4>. QED  BY <4>1, <4>2
    <3>3. Journaling(b)' = {}
      <4>1. pc'[t] # "ledger" /\ \A s \in Tasks \ {t} : pc'[s] = pc[s] /\ frame'[s] = frame[s]
        BY <1>0, <2>5, GotoMoves
      <4>. QED  BY <3>2, <4>1 DEF Journaling
    <3>. QED  BY <2>3, <3>1, <3>2, <3>3 DEF EntryFollows
  <2>7. CASE f.agent # b
    <3>1. Kept(b)
      BY <1>0, <2>1, <2>2, <2>4, <2>7, AppendFacts
    <3>2. SameJournals(b)
      BY <1>0, <2>5, <2>7, OthersJournal
    <3>. QED  BY <2>3, <3>1, <3>2 DEF BooksStay
  <2>. QED  BY <2>6, <2>7
<1>7. ASSUME NEW t \in Tasks, Fault(t), pc[t] \in Telling
      PROVE  BooksStay(b) \/ EntryIsLost(b)
  <2>. DEFINE f == frame[t]
  <2>1. UNCHANGED <<store, ledger>> /\ Goto(t, "idle", f) /\ Kept(b) /\ pc[t] \in Faults
    BY <1>7, LedgerKept DEF Fault
  <2>2. CASE pc[t] # "ledger" \/ f.agent # b
    <3>1. SameJournals(b)
      BY <1>0, <2>1, <2>2, OthersJournal
    <3>. QED  BY <2>1, <3>1 DEF BooksStay, SameCounters
  <2>3. CASE pc[t] = "ledger" /\ f.agent = b
    <3>1. lock = t /\ Journaling(b) \subseteq {t}
      BY <2>3, LockFacts, JournalingFacts DEF Locked
    <3>2. pc'[t] = "idle" /\ \A s \in Tasks \ {t} : pc'[s] = pc[s] /\ frame'[s] = frame[s]
      BY <1>0, <2>1, GotoMoves
    <3>3. Journaling(b)' = {}
      BY <3>1, <3>2 DEF Journaling
    <3>4. Counted(store[b]) \in Nat
      BY <1>0 DEF Counted, Record
    <3>. QED  BY <2>1, <2>3, <3>3, <3>4 DEF EntryIsLost
  <2>. QED  BY <2>2, <2>3
<1>8. ASSUME NEW t \in Tasks, LostReply(t)
      PROVE  BooksStay(b) \/ EntryIsLost(b)
  <2>. DEFINE f == frame[t]
  <2>1. /\ UNCHANGED ledger /\ Goto(t, "idle", f) /\ Kept(b)
        /\ pc[t] \in Faults \cap {"put", "delete"}
        /\ store' = [store EXCEPT ![f.agent] = f.local]
    BY <1>8, LedgerKept DEF LostReply
  <2>2. SameJournals(b)
    BY <1>0, <2>1, OthersJournal
  <2>3. CASE store'[b] = store[b]
    BY <2>1, <2>2, <2>3 DEF BooksStay, SameCounters
  <2>4. CASE store'[b] # store[b]
    <3>1. f.agent = b /\ store'[b] = f.local /\ f.local # store[b]
      BY <1>0, <2>1, <2>4
    <3>2. f.call.op \in Feeding
      <4>1. Applied(f, f.call.op, b)
        BY <1>8, <3>1 DEF LostReply
      <4>. QED  BY <1>1, <4>1, AppliedIsKept
    <3>3. pc[t] = "put"
      BY <2>1, <3>2, DeleteFeedsNothing
    <3>4. /\ Journaling(b) = {} /\ Counted(store[b]) \in Nat
          /\ Counted(store'[b]) = Counted(store[b]) \/ Counted(store'[b]) = Counted(store[b]) + 1
      BY <1>1, <3>1, <3>2, <3>3, PutCounts DEF SameCounters
    <3>. QED  BY <2>1, <2>2, <3>3, <3>4 DEF EntryIsLost, SameJournals
  <2>. QED  BY <2>3, <2>4
<1>. QED  BY <1>2, <1>3, <1>4, <1>5, <1>6, <1>7, <1>8, StepCases
-----------------------------------------------------------------------------
(* No entry about b is ahead of its record, the one on its way included. *)
NeverAhead(b) ==
    OnlyFed(b) =>
        Cardinality(EntriesOf(b)) + Cardinality(Journaling(b)) <= Counted(store[b])

LedgerInv == LockInv /\ \A b \in Agents : NeverAhead(b)

LEMMA BooksFacts ==
    ASSUME LockInv, NEW b \in Agents
    PROVE  /\ Cardinality(EntriesOf(b)) \in Nat /\ Cardinality(Journaling(b)) \in Nat
           /\ Counted(store[b]) \in Nat
           /\ \A kind \in Kinds : Held(store[b], kind) \in Nat /\ Weight(b, kind) \in Nat
PROOF
<1>1. TypeInv /\ store[b] \in Record \cup {NoRecord}
  BY DEF LockInv, TypeInv, TypeOK
<1>2. Counted(store[b]) \in Nat /\ \A kind \in Kinds : Held(store[b], kind) \in Nat
  BY <1>1 DEF Counted, Held, Record, Kinds
<1>3. Cardinality(Journaling(b)) \in Nat
  BY JournalingFacts
<1>. QED  BY <1>1, <1>2, <1>3, EntriesFacts

LEMMA StepNeverAhead ==
    ASSUME LedgerInv, LockInv', [Next]_vars, NEW b \in Agents
    PROVE  NeverAhead(b)'
PROOF
<1>. SUFFICES ASSUME OnlyFed(b)'
              PROVE  (Cardinality(EntriesOf(b)) + Cardinality(Journaling(b)) <= Counted(store[b]))'
  BY DEF NeverAhead
<1>1. LockInv /\ OnlyFed(b)
  BY HistoryGrows, FedBefore DEF LedgerInv, OnlyFed
<1>2. /\ Cardinality(EntriesOf(b)) \in Nat /\ Cardinality(Journaling(b)) \in Nat
      /\ Counted(store[b]) \in Nat /\ Counted(store'[b]) \in Nat /\ Cardinality({}) = 0
      /\ Cardinality(EntriesOf(b)) + Cardinality(Journaling(b)) <= Counted(store[b])
  <2>1. Counted(store'[b]) \in Nat
    BY DEF LockInv, TypeInv, TypeOK, Counted, Record
  <2>2. Cardinality({}) = 0
    BY FS_EmptySet
  <2>. QED  BY <1>1, <2>1, <2>2, BooksFacts DEF LedgerInv, NeverAhead
<1>3. CASE BooksStay(b)
  BY <1>2, <1>3 DEF BooksStay, SameCounters, Kept, SameJournals
<1>4. ASSUME NEW t \in Tasks, RecordAbsorbs(b, t)
      PROVE  (Cardinality(EntriesOf(b)) + Cardinality(Journaling(b)) <= Counted(store[b]))'
  <2>1. Cardinality({t}) = 1
    BY FS_Singleton
  <2>2. /\ EntriesOf(b)' = EntriesOf(b) /\ Journaling(b) = {} /\ Journaling(b)' = {t}
        /\ Counted(store'[b]) = Counted(store[b]) + 1
    BY <1>4 DEF RecordAbsorbs, Kept
  <2>. QED  BY <1>2, <2>1, <2>2
<1>5. ASSUME NEW t \in Tasks, EntryFollows(b, t)
      PROVE  (Cardinality(EntriesOf(b)) + Cardinality(Journaling(b)) <= Counted(store[b]))'
  <2>1. Cardinality({t}) = 1
    BY FS_Singleton
  <2>2. /\ Cardinality(EntriesOf(b)') = Cardinality(EntriesOf(b)) + 1
        /\ Journaling(b) = {t} /\ Journaling(b)' = {} /\ Counted(store'[b]) = Counted(store[b])
    BY <1>5 DEF EntryFollows, SameCounters, Told
  <2>. QED  BY <1>2, <2>1, <2>2
<1>6. CASE EntryIsLost(b)
  BY <1>2, <1>6 DEF EntryIsLost, Kept
<1>. QED  BY <1>1, <1>3, <1>4, <1>5, <1>6, BooksMove

LEMMA InitLedger == Init => LedgerInv
PROOF
<1>. SUFFICES ASSUME Init, NEW b \in Agents PROVE NeverAhead(b)
  BY InitLocks DEF LedgerInv
<1>1. EntriesOf(b) = {} /\ Journaling(b) = {} /\ Counted(store[b]) = 0
  BY DEF Init, EntriesOf, Journaling, Counted
<1>. QED  BY <1>1, FS_EmptySet DEF NeverAhead

LEMMA StepLedger == LedgerInv /\ [Next]_vars => LedgerInv'
PROOF
<1>. SUFFICES ASSUME LedgerInv, [Next]_vars PROVE LedgerInv'
  OBVIOUS
<1>1. LockInv'
  BY StepLocks DEF LedgerInv
<1>2. \A b \in Agents : NeverAhead(b)'
  BY <1>1, StepNeverAhead
<1>. QED  BY <1>1, <1>2 DEF LedgerInv

(* trust_manager.py:229-248 puts the record before it appends the entry, and
   the lock covers both: whatever is called, whatever fails, the ledger holds
   no entry whose evidence the record of the agent has not absorbed. *)
THEOREM LedgerIsNeverAhead == Spec => []LedgerNeverAhead
PROOF
<1>1. LedgerInv => LedgerNeverAhead
  <2>. SUFFICES ASSUME LedgerInv, NEW b \in Agents, OnlyFed(b), EntriesOf(b) # {}
                PROVE  store[b] # NoRecord /\ Cardinality(EntriesOf(b)) <= store[b].count
    BY DEF LedgerNeverAhead
  <2>1. LockInv
    BY DEF LedgerInv
  <2>2. /\ Cardinality(EntriesOf(b)) \in Nat /\ Cardinality(Journaling(b)) \in Nat
        /\ Counted(store[b]) \in Nat
        /\ Cardinality(EntriesOf(b)) + Cardinality(Journaling(b)) <= Counted(store[b])
    BY <2>1, BooksFacts DEF LedgerInv, NeverAhead
  <2>3. Cardinality(EntriesOf(b)) # 0
    BY <2>1, EntriesFacts, FS_EmptySet DEF LockInv
  <2>. QED  BY <2>2, <2>3 DEF Counted
<1>. QED  BY <1>1, InitLedger, StepLedger, PTL DEF Spec

(* The trust store and the ledger do what they are asked. *)
NoEntryLost == Faults \cap {"put", "ledger"} = {}

(* Record and ledger agree about b, but for the call that is about to append
   its entry. *)
Balanced(b) ==
    OnlyFed(b) =>
        /\ Counted(store[b]) = Cardinality(EntriesOf(b)) + Cardinality(Journaling(b))
        /\ \A kind \in Kinds :
             /\ Journaling(b) = {} => Held(store[b], kind) = Weight(b, kind)
             /\ \A s \in Journaling(b) :
                  Held(store[b], kind) = Weight(b, kind) + frame[s].call.evidence[kind]

BalanceInv == LockInv /\ \A b \in Agents : Balanced(b)

LEMMA StepBalanced ==
    ASSUME NoEntryLost, BalanceInv, LockInv', [Next]_vars, NEW b \in Agents
    PROVE  Balanced(b)'
PROOF
<1>. SUFFICES ASSUME OnlyFed(b)' PROVE Balanced(b)'
  BY DEF Balanced
<1>1. LockInv /\ OnlyFed(b)
  BY HistoryGrows, FedBefore DEF BalanceInv, OnlyFed
<1>2. /\ Cardinality(EntriesOf(b)) \in Nat
      /\ Cardinality({}) = 0
      /\ \A kind \in Kinds : Held(store[b], kind) \in Nat /\ Weight(b, kind) \in Nat
      /\ Counted(store[b]) = Cardinality(EntriesOf(b)) + Cardinality(Journaling(b))
      /\ \A kind \in Kinds :
           /\ Journaling(b) = {} => Held(store[b], kind) = Weight(b, kind)
           /\ \A s \in Journaling(b) :
                Held(store[b], kind) = Weight(b, kind) + frame[s].call.evidence[kind]
  BY <1>1, BooksFacts, FS_EmptySet DEF BalanceInv, Balanced
<1>3. CASE BooksStay(b)
  BY <1>2, <1>3 DEF BooksStay, SameCounters, Kept, SameJournals, Balanced
<1>4. ASSUME NEW t \in Tasks, RecordAbsorbs(b, t)
      PROVE  Balanced(b)'
  <2>1. Counted(store'[b]) = Cardinality(EntriesOf(b)') + Cardinality(Journaling(b)')
    <3>1. Cardinality({t}) = 1
      BY FS_Singleton
    <3>2. /\ EntriesOf(b)' = EntriesOf(b) /\ Journaling(b) = {} /\ Journaling(b)' = {t}
          /\ Counted(store'[b]) = Counted(store[b]) + 1
      BY <1>4 DEF RecordAbsorbs, Kept
    <3>3. /\ Cardinality(Journaling(b)) = 0 /\ Cardinality(EntriesOf(b)) \in Nat
          /\ Counted(store[b]) = Cardinality(EntriesOf(b)) + Cardinality(Journaling(b))
      BY <1>2, <3>2
    <3>. QED  BY <3>1, <3>2, <3>3
  <2>2. ASSUME NEW kind \in Kinds, NEW s \in Journaling(b)'
        PROVE  Held(store'[b], kind) = Weight(b, kind)' + frame'[s].call.evidence[kind]
    BY <1>2, <1>4, <2>2 DEF RecordAbsorbs, Kept
  <2>3. Journaling(b)' # {}
    BY <1>4 DEF RecordAbsorbs
  <2>. QED  BY <2>1, <2>2, <2>3 DEF Balanced
<1>5. ASSUME NEW t \in Tasks, EntryFollows(b, t)
      PROVE  Balanced(b)'
  <2>1. Counted(store'[b]) = Cardinality(EntriesOf(b)') + Cardinality(Journaling(b)')
    <3>1. Cardinality({t}) = 1
      BY FS_Singleton
    <3>2. /\ Cardinality(EntriesOf(b)') = Cardinality(EntriesOf(b)) + 1
          /\ Journaling(b) = {t} /\ Journaling(b)' = {} /\ Counted(store'[b]) = Counted(store[b])
      BY <1>5 DEF EntryFollows, SameCounters, Told
    <3>. QED  BY <1>2, <3>1, <3>2
  <2>2. ASSUME NEW kind \in Kinds
        PROVE  Held(store'[b], kind) = Weight(b, kind)'
    BY <1>2, <1>5, <2>2 DEF EntryFollows, SameCounters, Told
  <2>3. Journaling(b)' = {}
    BY <1>5 DEF EntryFollows
  <2>. QED  BY <2>1, <2>2, <2>3 DEF Balanced
<1>6. ~EntryIsLost(b)
  BY DEF EntryIsLost, NoEntryLost
<1>. QED  BY <1>1, <1>3, <1>4, <1>5, <1>6, BooksMove

LEMMA InitBalance == Init => BalanceInv
PROOF
<1>. SUFFICES ASSUME Init, NEW b \in Agents PROVE Balanced(b)
  BY InitLocks DEF BalanceInv
<1>1. EntriesOf(b) = {} /\ Journaling(b) = {} /\ Counted(store[b]) = 0
  BY DEF Init, EntriesOf, Journaling, Counted
<1>2. ASSUME NEW kind \in Kinds PROVE Held(store[b], kind) = 0 /\ Weight(b, kind) = 0
  <2>1. UNION {{i} \X (1..ledger[i].evidence[kind]) : i \in EntriesOf(b)} = {}
    BY <1>1
  <2>. QED  BY <2>1, FS_EmptySet DEF Init, Held, Weight
<1>. QED  BY <1>1, <1>2, FS_EmptySet DEF Balanced

LEMMA StepBalance ==
    ASSUME NoEntryLost
    PROVE  BalanceInv /\ [Next]_vars => BalanceInv'
PROOF
<1>. SUFFICES ASSUME BalanceInv, [Next]_vars PROVE BalanceInv'
  OBVIOUS
<1>1. LockInv'
  BY StepLocks DEF BalanceInv
<1>2. \A b \in Agents : Balanced(b)'
  BY <1>1, StepBalanced
<1>. QED  BY <1>1, <1>2 DEF BalanceInv

(* An agent that is only created, fed and decayed has a record that tells the
   same story as the ledger (trust_manager.py:229-248, 379-391): entry by
   entry and, whenever none is on its way, unit by unit of evidence. *)
THEOREM RecordsMatchLedger ==
    ASSUME NoEntryLost
    PROVE  Spec => []LedgerMatchesStore
PROOF
<1>1. BalanceInv => LedgerMatchesStore
  <2>. SUFFICES ASSUME BalanceInv, NEW b \in StoredIds, OnlyFed(b)
                PROVE  /\ store[b].count = Cardinality(EntriesOf(b)) + Cardinality(Journaling(b))
                       /\ Journaling(b) = {} =>
                            \A kind \in {"positive", "negative"} : store[b][kind] = Weight(b, kind)
    BY DEF LedgerMatchesStore
  <2>1. b \in Agents /\ store[b] # NoRecord
    BY DEF StoredIds, Included
  <2>2. Balanced(b)
    BY <2>1 DEF BalanceInv
  <2>3. Counted(store[b]) = store[b].count /\ \A kind : Held(store[b], kind) = store[b][kind]
    BY <2>1 DEF Counted, Held
  <2>. QED  BY <2>2, <2>3 DEF Balanced, Kinds
<1>. QED  BY <1>1, InitBalance, StepBalance, PTL DEF Spec
-----------------------------------------------------------------------------
(***************************************************************************)
(* The event bus.                                                          *)
(***************************************************************************)

(* The trust in b, and what a call about to announce it says it was and is. *)
TrustIn(b) == OrNew(store[b], 0).opinion

Was(f) == OrNew(f.read, 0).opinion

Is(f) == f.local.opinion

HasChanged(history, b, op) == \E x \in history : x.agent = b /\ x.op = op

(* merge_authority_opinions of nothing announces no change. *)
Idles(f) == f.call.op = "merge_authority_opinions" /\ Was(f) = Is(f)

(* What may be left of the events a call delivers. *)
Messages(f) ==
    LET ar == Announce("agent_registered", f)
        ev == Announce("evidence_submitted", f)
        tu == Announce("trust_updated", f)
        cr == Announce("trust_threshold_crossed", f) IN
    IF f.call.op = "submit_evidence"
    THEN IF Trusted(Was(f)) # Trusted(Is(f))
         THEN {<<ev, tu, cr>>, <<tu, cr>>, <<cr>>}
         ELSE {<<ev, tu>>, <<tu>>}
    ELSE IF f.call.op \in {"register_agent", "register_authority"} THEN {<<ar>>} ELSE {<<tu>>}

(* A call has made the change it is about to tell of. *)
Tells(history, p, f) ==
    p \in Telling =>
        /\ HasChanged(history, f.agent, f.call.op) \/ Idles(f)
        /\ p = "emit" => f.outbox \in Messages(f)

(* Those who have something to tell about b. *)
Tellers(b) == {t \in Tasks : pc[t] \in Telling /\ frame[t].agent = b}

TellersInv == LockInv /\ \A t \in Tasks : Tells(applied, pc[t], frame[t])

LEMMA TellersFacts ==
    ASSUME LockInv, NEW b
    PROVE  /\ \A s \in Tellers(b) : lock = s /\ s \in Tasks /\ pc[s] \in Telling
           /\ \A t \in Tasks : lock = t => Tellers(b) \subseteq {t}
PROOF
<1>1. ASSUME NEW s \in Tellers(b)
      PROVE  lock = s /\ s \in Tasks /\ pc[s] \in Telling
  BY LockFacts DEF Tellers, Telling, Locked
<1>. QED  BY <1>1

(* The other locals of a call do not depend on what it has delivered. *)
LEMMA MessagesLeft ==
    ASSUME NEW f \in Frame, NEW es
    PROVE  LET g == [f EXCEPT !.outbox = es] IN
           /\ g.call = f.call /\ g.agent = f.agent /\ g.outbox = es
           /\ Was(g) = Was(f) /\ Is(g) = Is(f) /\ Messages(g) = Messages(f)
PROOF
<1>. DEFINE g == [f EXCEPT !.outbox = es]
<1>1. /\ g.call = f.call /\ g.agent = f.agent /\ g.outbox = es
      /\ g.read = f.read /\ g.local = f.local
  BY DEF Frame
<1>. HIDE DEF g
<1>2. Was(g) = Was(f) /\ Is(g) = Is(f)
  BY <1>1 DEF Was, Is
<1>3. /\ Announce("agent_registered", g) = Announce("agent_registered", f)
      /\ Announce("evidence_submitted", g) = Announce("evidence_submitted", f)
      /\ Announce("trust_updated", g) = Announce("trust_updated", f)
      /\ Announce("trust_threshold_crossed", g) = Announce("trust_threshold_crossed", f)
  BY <1>1 DEF Announce
<1>4. Messages(g) = Messages(f)
  BY <1>1, <1>2, <1>3, Zenon DEF Messages
<1>. QED  BY <1>1, <1>2, <1>4 DEF g

LEMMA HasChangedLater ==
    ASSUME NEW b, NEW op, HasChanged(applied, b, op), applied \subseteq applied'
    PROVE  HasChanged(applied', b, op)
PROOF BY DEF HasChanged

(* submit_evidence delivers the crossing last. *)
LEMMA CrossingAtEnd ==
    ASSUME NEW f, f.call.op = "submit_evidence"
    PROVE  <<Announce("evidence_submitted", f), Announce("trust_updated", f)>> \o Crossing(f)
             \in Messages(f)
PROOF
<1>. DEFINE ev == Announce("evidence_submitted", f)
            tu == Announce("trust_updated", f)
            cr == Announce("trust_threshold_crossed", f)
<1>1. cr.old = Was(f) /\ cr.new = Is(f)
  BY DEF Announce, Was, Is
<1>2. CASE Trusted(Was(f)) # Trusted(Is(f))
  <2>1. Crossing(f) = <<cr>>
    BY <1>1, <1>2, Zenon DEF Crossing
  <2>. HIDE DEF ev, tu, cr
  <2>2. <<ev, tu>> \o <<cr>> = <<ev, tu, cr>>
    <3>1. <<ev, tu>> \in Seq({ev, tu, cr})
      OBVIOUS
    <3>2. Append(<<ev, tu>>, cr) = <<ev, tu>> \o <<cr>>
      BY <3>1, AppendIsConcat
    <3>3. Append(<<ev, tu>>, cr) = <<ev, tu, cr>>
      <4>. DEFINE s == Append(<<ev, tu>>, cr)
      <4>1. /\ s \in Seq({ev, tu, cr}) /\ Len(s) = 3
            /\ s[1] = ev /\ s[2] = tu /\ s[3] = cr
        BY <3>1, AppendProperties
      <4>2. /\ <<ev, tu, cr>> \in Seq({ev, tu, cr}) /\ Len(<<ev, tu, cr>>) = 3
            /\ <<ev, tu, cr>>[1] = ev /\ <<ev, tu, cr>>[2] = tu /\ <<ev, tu, cr>>[3] = cr
        OBVIOUS
      <4>. DEFINE w == <<ev, tu, cr>>
      <4>. HIDE DEF s, w
      <4>3. \A i \in 1..Len(s) : s[i] = w[i]
        BY <4>1, <4>2 DEF w
      <4>4. s = w
        BY <4>1, <4>2, <4>3, SeqEqual DEF w
      <4>. QED  BY <4>4 DEF s, w
    <3>. QED  BY <3>2, <3>3
  <2>3. <<ev, tu, cr>> \in Messages(f)
    BY <1>2 DEF Messages, ev, tu, cr
  <2>. QED  BY <2>1, <2>2, <2>3 DEF ev, tu
<1>3. CASE Trusted(Was(f)) = Trusted(Is(f))
  <2>1. Crossing(f) = << >>
    BY <1>1, <1>3, Zenon DEF Crossing
  <2>. HIDE DEF ev, tu, cr
  <2>2. <<ev, tu>> \o << >> = <<ev, tu>>
    OBVIOUS
  <2>3. <<ev, tu>> \in Messages(f)
    BY <1>3 DEF Messages, ev, tu
  <2>. QED  BY <2>1, <2>2, <2>3 DEF ev, tu
<1>. QED  BY <1>2, <1>3

(* Of the messages of a call, the first is followed by others of them, or is
   the last one. *)
LEMMA MessagesLast ==
    ASSUME NEW f, NEW es \in Messages(f), Tail(es) # << >>
    PROVE  Tail(es) \in Messages(f)
PROOF
<1>. DEFINE ar == Announce("agent_registered", f)
            ev == Announce("evidence_submitted", f)
            tu == Announce("trust_updated", f)
            cr == Announce("trust_threshold_crossed", f)
<1>. HIDE DEF ar, ev, tu, cr
<1>1. /\ Tail(<<ev, tu, cr>>) = <<tu, cr>> /\ Tail(<<tu, cr>>) = <<cr>>
      /\ Tail(<<ev, tu>>) = <<tu>>
      /\ Tail(<<cr>>) = << >> /\ Tail(<<tu>>) = << >> /\ Tail(<<ar>>) = << >>
  OBVIOUS
<1>. QED  BY <1>1 DEF Messages, ar, ev, tu, cr

(* One task moves; the others tell what they told. *)
LEMMA GotoTells ==
    ASSUME TellersInv, LockInv', NEW t \in Tasks, NEW phase, NEW f, Goto(t, phase, f),
           applied \subseteq applied', phase # "idle" => Tells(applied', phase, f)
    PROVE  TellersInv'
PROOF
<1>1. /\ pc'[t] = phase /\ frame'[t] = (IF phase = "idle" THEN Blank ELSE f)
      /\ \A s \in Tasks \ {t} : pc'[s] = pc[s] /\ frame'[s] = frame[s]
  BY GotoMoves DEF TellersInv, LockInv
<1>2. Tells(applied', pc'[t], frame'[t])
  BY <1>1 DEF Tells, Telling
<1>3. ASSUME NEW s \in Tasks \ {t}
      PROVE  Tells(applied', pc'[s], frame'[s])
  <2>1. Tells(applied, pc[s], frame[s])
    BY DEF TellersInv
  <2>2. Tells(applied', pc[s], frame[s])
    BY <2>1, HasChangedLater DEF Tells
  <2>. QED  BY <1>1, <2>2
<1>. QED  BY <1>2, <1>3 DEF TellersInv

LEMMA StepTells == TellersInv /\ [Next]_vars => TellersInv'
PROOF
<1>. SUFFICES ASSUME TellersInv, [Next]_vars PROVE TellersInv'
  OBVIOUS
<1>0. LockInv /\ LockInv' /\ TypeInv /\ applied \subseteq applied'
  BY StepLocks, HistoryGrows DEF TellersInv, LockInv
<1>1. CASE Quiet
  <2>1. ASSUME NEW s \in Tasks
        PROVE  Tells(applied', pc'[s], frame'[s])
    <3>1. CASE pc'[s] \notin Telling
      BY <3>1 DEF Tells
    <3>2. CASE pc'[s] = pc[s] /\ frame'[s] = frame[s]
      <4>1. Tells(applied, pc[s], frame[s])
        BY DEF TellersInv
      <4>. QED  BY <1>0, <3>2, <4>1, HasChangedLater DEF Tells
    <3>. QED  BY <1>1, <3>1, <3>2 DEF Quiet
  <2>. QED  BY <1>0, <2>1 DEF TellersInv
<1>2. ASSUME NEW t \in Tasks, PutEvidence(t)
      PROVE  TellersInv'
  <2>1. Applied(frame[t], frame[t].call.op, frame[t].agent) /\ Goto(t, "ledger", frame[t])
    BY <1>2 DEF PutEvidence, Write
  <2>2. Tells(applied', "ledger", frame[t])
    BY <2>1, AppliedIsKept DEF Tells, HasChanged
  <2>. QED  BY <1>0, <2>1, <2>2, GotoTells
<1>3. ASSUME NEW t \in Tasks, PutAndAnnounce(t)
      PROVE  TellersInv'
  <2>. DEFINE f == frame[t]
              type == IF f.call.op \in {"register_agent", "register_authority"}
                      THEN "agent_registered" ELSE "trust_updated"
              es == <<Announce(type, f)>>
              g == [f EXCEPT !.outbox = es]
  <2>1. /\ Applied(f, f.call.op, f.agent) /\ Goto(t, "emit", g)
        /\ f.call.op # "submit_evidence"
    BY <1>3 DEF PutAndAnnounce, Announcing, Write
  <2>2. es \in Messages(f)
    BY <2>1 DEF Messages
  <2>3. f \in Frame
    BY <1>0, FrameFacts
  <2>4. g.call = f.call /\ g.agent = f.agent /\ g.outbox \in Messages(g)
    <3>. HIDE DEF es
    <3>. QED  BY <2>2, <2>3, MessagesLeft
  <2>. HIDE DEF g
  <2>5. Tells(applied', "emit", g)
    BY <2>1, <2>4, AppliedIsKept DEF Tells, HasChanged
  <2>. QED  BY <1>0, <2>1, <2>5, GotoTells
<1>4. ASSUME NEW t \in Tasks, GetForNothing(t)
      PROVE  TellersInv'
  <2>. DEFINE rec == store[frame[t].agent]
              f == [frame[t] EXCEPT !.read = rec, !.local = OrNew(rec, clock)]
              es == <<Announce("trust_updated", f)>>
              g == [f EXCEPT !.outbox = es]
  <2>1. /\ Goto(t, "emit", g) /\ frame[t].call.op = "merge_authority_opinions"
        /\ frame[t] \in Frame /\ frame[t].agent \in Agents
        /\ store \in [Agents -> Record \cup {NoRecord}] /\ clock \in Nat
    BY <1>0, <1>4, FrameFacts, BoundsAreNat DEF GetForNothing, FrameFits, DataOK
  <2>2. rec \in Record \cup {NoRecord} /\ OrNew(rec, clock) \in Record
    BY <2>1, OrNewIsRecord
  <2>. HIDE DEF rec
  <2>3. /\ f \in Frame /\ f.call = frame[t].call /\ f.read = rec
        /\ f.local = OrNew(rec, clock)
    BY <2>1, <2>2 DEF Frame
  <2>. HIDE DEF f
  <2>4. Was(f) = Is(f)
    BY <2>3 DEF Was, Is, OrNew, NewRecord
  <2>5. es \in Messages(f)
    BY <2>1, <2>3 DEF Messages
  <2>6. g.call = f.call /\ g.outbox \in Messages(g) /\ Was(g) = Is(g)
    <3>. HIDE DEF es
    <3>. QED  BY <2>3, <2>4, <2>5, MessagesLeft
  <2>. HIDE DEF g
  <2>7. Tells(applied', "emit", g)
    BY <2>1, <2>3, <2>6 DEF Tells, Idles
  <2>. QED  BY <1>0, <2>1, <2>7, GotoTells
<1>5. ASSUME NEW t \in Tasks, JournalEvidence(t)
      PROVE  TellersInv'
  <2>. DEFINE f == frame[t]
              es == <<Announce("evidence_submitted", f), Announce("trust_updated", f)>>
                    \o Crossing(f)
              g == [f EXCEPT !.outbox = es]
  <2>1. /\ Goto(t, "emit", g) /\ f.call.op = "submit_evidence" /\ pc[t] = "ledger"
        /\ f \in Frame
    BY <1>0, <1>5, FrameFacts DEF JournalEvidence
  <2>2. es \in Messages(f)
    BY <2>1, CrossingAtEnd
  <2>3. g.call = f.call /\ g.agent = f.agent /\ g.outbox \in Messages(g)
    <3>. HIDE DEF es
    <3>. QED  BY <2>1, <2>2, MessagesLeft
  <2>4. HasChanged(applied, f.agent, f.call.op)
    BY <2>1 DEF TellersInv, Tells, Telling, Idles
  <2>. HIDE DEF g
  <2>5. Tells(applied', "emit", g)
    BY <1>0, <2>1, <2>3, <2>4, HasChangedLater DEF Tells
  <2>. QED  BY <1>0, <2>1, <2>5, GotoTells
<1>6. ASSUME NEW t \in Tasks, Emit(t)
      PROVE  TellersInv'
  <2>. DEFINE f == frame[t]
              g == [f EXCEPT !.outbox = Tail(f.outbox)]
  <2>1. f \in Frame /\ pc[t] = "emit" /\ Tells(applied, "emit", f)
    BY <1>0, <1>6, FrameFacts DEF Emit, TellersInv
  <2>2. CASE Tail(f.outbox) # << >> /\ Goto(t, "emit", g)
    <3>1. Tail(f.outbox) \in Messages(f)
      BY <2>1, <2>2, MessagesLast DEF Tells, Telling
    <3>2. /\ g.call = f.call /\ g.agent = f.agent /\ Was(g) = Was(f) /\ Is(g) = Is(f)
          /\ g.outbox \in Messages(g)
      BY <2>1, <3>1, MessagesLeft
    <3>. HIDE DEF g
    <3>3. Tells(applied', "emit", g)
      BY <1>0, <2>1, <3>2, HasChangedLater DEF Tells, Telling, Idles
    <3>. QED  BY <1>0, <2>2, <3>3, GotoTells
  <2>3. CASE Goto(t, Resume(f), g)
    <3>1. Tells(applied', Resume(f), g)
      BY ResumeUnlocked DEF Tells, Telling, Locked
    <3>. HIDE DEF g
    <3>. QED  BY <1>0, <2>3, <3>1, GotoTells
  <2>. QED  BY <1>6, <2>2, <2>3 DEF Emit
<1>7. ASSUME NEW t \in Tasks, JournalDiscounted(t) \/ Fault(t) \/ LostReply(t)
      PROVE  TellersInv'
  BY <1>0, <1>7, GotoTells DEF JournalDiscounted, Fault, LostReply
<1>. QED  BY <1>0, <1>1, <1>2, <1>3, <1>4, <1>5, <1>6, <1>7, StepCases

LEMMA InitTells == Init => TellersInv
PROOF BY InitLocks DEF Init, TellersInv, Tells, Telling
-----------------------------------------------------------------------------
(* The steps of the news about b: none; a change that is going to be told; the
   next of its phases; an event; a change that is told to nobody. *)
NewsStay(b) ==
    /\ store'[b] = store[b]
    /\ Tellers(b)' = Tellers(b)
    /\ \A s \in Tellers(b) : pc'[s] = pc[s] /\ frame'[s] = frame[s]
    /\ UNCHANGED events \/ \E e \in Event : e.agent # b /\ events' = Append(events, e)

StartsTelling(b, t) ==
    LET g == frame'[t] IN
    /\ UNCHANGED events
    /\ Tellers(b) = {} /\ Tellers(b)' = {t}
    /\ Was(g) = TrustIn(b) /\ Is(g) = TrustIn(b)'
    /\ pc'[t] = "ledger" \/ Head(g.outbox).type # "trust_threshold_crossed"
    /\ \/ store'[b] \in Record /\ (g.call.op = "register_agent" => store[b] = NoRecord)
       \/ Idles(g) /\ store'[b] = store[b]

GoesOn(b, t) ==
    LET f == frame[t]
        g == frame'[t] IN
    /\ UNCHANGED events /\ store'[b] = store[b]
    /\ Tellers(b) = {t} /\ Tellers(b)' = {t} /\ pc'[t] = "emit"
    /\ g.call = f.call /\ Was(g) = Was(f) /\ Is(g) = Is(f)
    /\ Head(g.outbox).type # "trust_threshold_crossed"

Delivers(b, t) ==
    LET f == frame[t] IN
    /\ store'[b] = store[b] /\ events' = Append(events, Head(f.outbox))
    /\ Tellers(b) = {t} /\ pc[t] = "emit"
    /\ IF Tail(f.outbox) = << >> THEN Tellers(b)' = {}
       ELSE /\ Tellers(b)' = {t} /\ pc'[t] = "emit"
            /\ frame'[t] = [f EXCEPT !.outbox = Tail(f.outbox)]

KeepsQuiet(b, t) ==
    /\ UNCHANGED events /\ store'[b] = store[b]
    /\ Tellers(b) = {t} /\ Tellers(b)' = {} /\ frame[t].call.op = "submit_discounted_opinion"

(* The bus and what comes before it do not fail. *)
NothingUndelivered == Faults \cap {"put", "ledger", "emit"} = {}

(* What a step of t does to those who have something to tell about b. *)
LEMMA TellersMove ==
    ASSUME LockInv, NEW t \in Tasks, NEW phase, NEW f, Goto(t, phase, f), NEW b,
           f.agent = frame[t].agent
    PROVE  /\ f.agent # b => /\ Tellers(b)' = Tellers(b)
                             /\ \A s \in Tellers(b) : pc'[s] = pc[s] /\ frame'[s] = frame[s]
           /\ lock = t /\ f.agent = b =>
                /\ Tellers(b) = IF pc[t] \in Telling THEN {t} ELSE {}
                /\ Tellers(b)' = IF phase \in Telling THEN {t} ELSE {}
           /\ pc[t] \notin Telling /\ phase \notin Telling =>
                /\ Tellers(b)' = Tellers(b)
                /\ \A s \in Tellers(b) : pc'[s] = pc[s] /\ frame'[s] = frame[s]
PROOF
<1>1. /\ pc'[t] = phase /\ frame'[t] = (IF phase = "idle" THEN Blank ELSE f)
      /\ \A s \in Tasks \ {t} : pc'[s] = pc[s] /\ frame'[s] = frame[s]
  BY GotoMoves DEF LockInv
<1>2. Tellers(b) \subseteq Tasks /\ Tellers(b)' \subseteq Tasks
  BY DEF Tellers
<1>3. \A s \in Tasks \ {t} : s \in Tellers(b)' <=> s \in Tellers(b)
  BY <1>1 DEF Tellers
<1>4. /\ t \in Tellers(b) <=> pc[t] \in Telling /\ frame[t].agent = b
      /\ t \in Tellers(b)' <=> phase \in Telling /\ f.agent = b
  BY <1>1 DEF Tellers, Telling
<1>5. lock = t => Tellers(b) \subseteq {t}
  BY TellersFacts
<1>. QED  BY <1>1, <1>2, <1>3, <1>4, <1>5

LEMMA NewsMove ==
    ASSUME NothingUndelivered, TellersInv, [Next]_vars, NEW b \in Agents, OnlyFed(b)'
    PROVE  \/ NewsStay(b)
           \/ \E t \in Tasks : \/ StartsTelling(b, t) \/ GoesOn(b, t) \/ Delivers(b, t)
                               \/ KeepsQuiet(b, t)
PROOF
<1>0. LockInv /\ TypeInv /\ store \in [Agents -> Record \cup {NoRecord}]
  BY DEF TellersInv, LockInv, TypeInv, TypeOK
<1>1. /\ OnlyFed(b) /\ OnlyChangedBy(b, Feeding) /\ "deregister_agent" \notin Feeding
      /\ \A x \in applied' : x.agent = b => x.op \in Feeding
  BY <1>0, HistoryGrows, FedBefore DEF OnlyFed, OnlyChangedBy, Feeding, Submissions
<1>2. CASE Quiet
  <2>1. store'[b] = store[b]
    BY <1>1, <1>2 DEF Quiet, Unfollowed
  <2>2. ASSUME NEW s \in Tasks
        PROVE  /\ s \in Tellers(b)' <=> s \in Tellers(b)
               /\ s \in Tellers(b) => pc'[s] = pc[s] /\ frame'[s] = frame[s]
    BY <1>2 DEF Quiet, Tellers
  <2>3. Tellers(b) \subseteq Tasks /\ Tellers(b)' \subseteq Tasks
    BY DEF Tellers
  <2>. QED  BY <1>2, <2>1, <2>2, <2>3 DEF Quiet, NewsStay
<1>3. ASSUME NEW t \in Tasks, Write(t), lock = t, frame[t].agent = b, frame[t].call.op \in Feeding,
             NEW phase \in Telling, NEW g, Goto(t, phase, g), g.agent = b, UNCHANGED events,
             phase = "ledger" \/ Head(g.outbox).type # "trust_threshold_crossed",
             Was(g) = Was(frame[t]), Is(g) = Is(frame[t]), g.call = frame[t].call
      PROVE  StartsTelling(b, t)
  <2>. DEFINE f == frame[t]
  <2>1. /\ pc[t] = "put" /\ store'[b] = f.local /\ f.local \in Record
    BY <1>0, <1>3, FrameFacts DEF Write, FrameFits
  <2>2. /\ f.read = store[b] /\ store[b] \in Record \cup {NoRecord}
        /\ \E ts \in 0..MaxClock : Admits(f.call, b, store[b], ts)
    BY <1>0, <1>1, <1>3, <2>1, PutIsCurrent
  <2>3. f.call.op = "register_agent" => store[b] = NoRecord
    BY <2>2 DEF Admits
  <2>4. Tellers(b) = {} /\ Tellers(b)' = {t}
    BY <1>0, <1>3, <2>1, TellersMove DEF Telling
  <2>5. frame'[t] = g /\ pc'[t] = phase
    BY <1>0, <1>3, GotoMoves DEF Telling
  <2>6. Was(f) = TrustIn(b) /\ Is(f) = TrustIn(b)'
    BY <2>1, <2>2, NoRecordIsNone DEF Was, Is, TrustIn, OrNew
  <2>. QED  BY <1>3, <2>1, <2>3, <2>4, <2>5, <2>6 DEF StartsTelling
<1>4. ASSUME NEW t \in Tasks, Write(t), frame[t].agent # b, UNCHANGED events,
             NEW phase, NEW g, Goto(t, phase, g), g.agent = frame[t].agent
      PROVE  NewsStay(b)
  <2>1. store'[b] = store[b]
    BY <1>0, <1>4 DEF Write
  <2>. QED  BY <1>0, <1>4, <2>1, TellersMove DEF NewsStay
<1>5. ASSUME NEW t \in Tasks, PutEvidence(t)
      PROVE  NewsStay(b) \/ StartsTelling(b, t)
  <2>1. Write(t) /\ UNCHANGED events /\ lock = t /\ Goto(t, "ledger", frame[t])
        /\ frame[t].call.op \in Feeding
    BY <1>0, <1>5, WriteLocks DEF PutEvidence, Write, Feeding
  <2>. QED  BY <1>3, <1>4, <2>1 DEF Telling
<1>6. ASSUME NEW t \in Tasks, PutAndAnnounce(t)
      PROVE  NewsStay(b) \/ StartsTelling(b, t)
  <2>. DEFINE f == frame[t]
              type == IF f.call.op \in {"register_agent", "register_authority"}
                      THEN "agent_registered" ELSE "trust_updated"
              es == <<Announce(type, f)>>
              g == [f EXCEPT !.outbox = es]
  <2>1. /\ Write(t) /\ UNCHANGED events /\ lock = t /\ Goto(t, "emit", g)
        /\ Applied(f, f.call.op, f.agent) /\ f \in Frame
    BY <1>0, <1>6, WriteLocks DEF PutAndAnnounce, Announcing, Write
  <2>2. g.call = f.call /\ g.agent = f.agent /\ Was(g) = Was(f) /\ Is(g) = Is(f)
    <3>. HIDE DEF es
    <3>. QED  BY <2>1, MessagesLeft
  <2>3. f.agent = b => f.call.op \in Feeding
    BY <1>1, <2>1, AppliedIsKept
  <2>4. g.outbox = es /\ Head(es).type # "trust_threshold_crossed"
    <3>1. Announce(type, f).type = type
      BY DEF Announce
    <3>2. type # "trust_threshold_crossed"
      OBVIOUS
    <3>. DEFINE e == Announce(type, f)
    <3>. HIDE DEF e, type
    <3>3. Head(<<e>>) = e
      OBVIOUS
    <3>4. g.outbox = es
      BY <2>1, MessagesLeft
    <3>. QED  BY <3>1, <3>2, <3>3, <3>4 DEF e
  <2>. HIDE DEF g, es
  <2>. QED  BY <1>3, <1>4, <2>1, <2>2, <2>3, <2>4 DEF Telling
<1>7. ASSUME NEW t \in Tasks, GetForNothing(t)
      PROVE  NewsStay(b) \/ StartsTelling(b, t)
  <2>. DEFINE rec == store[frame[t].agent]
              f == [frame[t] EXCEPT !.read = rec, !.local = OrNew(rec, clock)]
              es == <<Announce("trust_updated", f)>>
              g == [f EXCEPT !.outbox = es]
  <2>1. /\ Goto(t, "emit", g) /\ frame[t].call.op = "merge_authority_opinions"
        /\ frame[t] \in Frame /\ frame[t].agent \in Agents /\ pc[t] = "get" /\ lock = t
        /\ clock \in Nat /\ UNCHANGED <<store, events>>
    BY <1>0, <1>7, FrameFacts, LockFacts, BoundsAreNat DEF GetForNothing, FrameFits, DataOK, Locked
  <2>2. rec \in Record \cup {NoRecord} /\ OrNew(rec, clock) \in Record
    BY <1>0, <2>1, OrNewIsRecord
  <2>3. /\ f \in Frame /\ f.call = frame[t].call /\ f.read = rec
        /\ f.local = OrNew(rec, clock) /\ f.agent = frame[t].agent
    <3>. HIDE DEF rec
    <3>. QED  BY <2>1, <2>2 DEF Frame
  <2>. HIDE DEF f
  <2>4. g.call = f.call /\ g.agent = f.agent /\ Was(g) = Was(f) /\ Is(g) = Is(f)
    <3>. HIDE DEF es
    <3>. QED  BY <2>3, MessagesLeft
  <2>5. Was(f) = Is(f) /\ (f.agent = b => Was(f) = TrustIn(b))
    BY <2>3 DEF Was, Is, OrNew, NewRecord, TrustIn
  <2>8. Head(g.outbox).type # "trust_threshold_crossed"
    <3>. DEFINE e == Announce("trust_updated", f)
    <3>1. e.type = "trust_updated"
      BY DEF Announce
    <3>. HIDE DEF e
    <3>2. Head(<<e>>) = e
      OBVIOUS
    <3>3. g.outbox = es
      BY <2>3, MessagesLeft
    <3>. QED  BY <3>1, <3>2, <3>3 DEF e
  <2>. HIDE DEF g, rec
  <2>6. CASE f.agent = b
    <3>1. Tellers(b) = {} /\ Tellers(b)' = {t}
      <4>1. g.agent = frame[t].agent /\ g.agent = b
        BY <2>3, <2>4, <2>6
      <4>2. /\ Tellers(b) = IF pc[t] \in Telling THEN {t} ELSE {}
            /\ Tellers(b)' = IF "emit" \in Telling THEN {t} ELSE {}
        BY <1>0, <2>1, <4>1, TellersMove
      <4>. QED  BY <2>1, <4>2 DEF Telling
    <3>2. frame'[t] = g
      BY <1>0, <2>1, GotoMoves
    <3>3. TrustIn(b)' = TrustIn(b)
      BY <2>1 DEF TrustIn
    <3>. QED  BY <2>1, <2>3, <2>4, <2>5, <2>6, <2>8, <3>1, <3>2, <3>3 DEF StartsTelling, Idles
  <2>7. CASE f.agent # b
    BY <1>0, <2>1, <2>3, <2>4, <2>7, TellersMove DEF NewsStay
  <2>. QED  BY <2>6, <2>7
<1>8. ASSUME NEW t \in Tasks, JournalEvidence(t)
      PROVE  NewsStay(b) \/ GoesOn(b, t)
  <2>. DEFINE f == frame[t]
              ev == Announce("evidence_submitted", f)
              es == <<ev, Announce("trust_updated", f)>> \o Crossing(f)
              g == [f EXCEPT !.outbox = es]
  <2>1. /\ Goto(t, "emit", g) /\ f \in Frame /\ pc[t] = "ledger" /\ lock = t
        /\ UNCHANGED <<store, events>>
    BY <1>0, <1>8, FrameFacts, LockFacts DEF JournalEvidence, Locked
  <2>2. Head(es) = ev
    <3>1. Crossing(f) = << >> \/ Crossing(f) = <<Announce("trust_threshold_crossed", f)>>
      BY Zenon DEF Crossing
    <3>. HIDE DEF ev
    <3>. QED  BY <3>1
  <2>3. ev.type = "evidence_submitted"
    BY DEF Announce
  <2>. HIDE DEF es, ev
  <2>4. /\ g.call = f.call /\ g.agent = f.agent /\ g.outbox = es
        /\ Was(g) = Was(f) /\ Is(g) = Is(f)
    BY <2>1, MessagesLeft
  <2>. HIDE DEF g
  <2>5. CASE f.agent = b
    <3>1. Tellers(b) = {t} /\ Tellers(b)' = {t}
      BY <1>0, <2>1, <2>4, <2>5, TellersMove DEF Telling
    <3>2. frame'[t] = g /\ pc'[t] = "emit"
      BY <1>0, <2>1, GotoMoves
    <3>. QED  BY <2>1, <2>2, <2>3, <2>4, <3>1, <3>2 DEF GoesOn
  <2>6. CASE f.agent # b
    BY <1>0, <2>1, <2>4, <2>6, TellersMove DEF NewsStay
  <2>. QED  BY <2>5, <2>6
<1>9. ASSUME NEW t \in Tasks, JournalDiscounted(t)
      PROVE  NewsStay(b) \/ KeepsQuiet(b, t)
  <2>1. /\ Goto(t, "idle", frame[t]) /\ pc[t] = "ledger" /\ lock = t
        /\ UNCHANGED <<store, events>> /\ frame[t].call.op = "submit_discounted_opinion"
    BY <1>0, <1>9, LockFacts DEF JournalDiscounted, Locked
  <2>2. CASE frame[t].agent = b
    <3>1. Tellers(b) = {t} /\ Tellers(b)' = {}
      BY <1>0, <2>1, <2>2, TellersMove DEF Telling
    <3>. QED  BY <2>1, <3>1 DEF KeepsQuiet
  <2>3. CASE frame[t].agent # b
    BY <1>0, <2>1, <2>3, TellersMove DEF NewsStay
  <2>. QED  BY <2>2, <2>3
<1>10. ASSUME NEW t \in Tasks, Emit(t)
       PROVE  NewsStay(b) \/ Delivers(b, t)
  <2>. DEFINE f == frame[t]
              rest == Tail(f.outbox)
              g == [f EXCEPT !.outbox = rest]
  <2>1. /\ f \in Frame /\ f.outbox \in Seq(Event) /\ f.outbox # << >> /\ pc[t] = "emit"
        /\ lock = t /\ UNCHANGED store /\ events' = Append(events, Head(f.outbox))
        /\ f.outbox \in Messages(f)
    BY <1>0, <1>10, FrameFacts, LockFacts
       DEF Emit, FrameFits, Locked, TellersInv, Tells, Telling
  <2>2. PICK phase : /\ Goto(t, phase, g)
                     /\ IF rest = << >> THEN phase \notin Telling ELSE phase = "emit"
    BY <1>10, ResumeUnlocked DEF Emit, Telling, Locked
  <2>3. g.agent = f.agent
    BY <2>1, MessagesLeft
  <2>4. Head(f.outbox) \in Event /\ Head(f.outbox).agent = f.agent
    <3>1. Head(f.outbox) \in Event
      BY <2>1
    <3>. DEFINE ar == Announce("agent_registered", f)
                ev == Announce("evidence_submitted", f)
                tu == Announce("trust_updated", f)
                cr == Announce("trust_threshold_crossed", f)
    <3>2. /\ ar.agent = f.agent /\ ev.agent = f.agent /\ tu.agent = f.agent
          /\ cr.agent = f.agent
      BY DEF Announce
    <3>. HIDE DEF ar, ev, tu, cr
    <3>3. f.outbox \in {<<ev, tu, cr>>, <<tu, cr>>, <<cr>>, <<ev, tu>>, <<tu>>, <<ar>>}
      BY <2>1 DEF Messages, ar, ev, tu, cr
    <3>4. Head(f.outbox) \in {ar, ev, tu, cr}
      BY <3>3
    <3>. QED  BY <3>1, <3>2, <3>4
  <2>. HIDE DEF g
  <2>5. CASE f.agent = b
    <3>1. Tellers(b) = {t} /\ Tellers(b)' = IF phase \in Telling THEN {t} ELSE {}
      BY <1>0, <2>1, <2>2, <2>3, <2>5, TellersMove DEF Telling
    <3>2. pc'[t] = phase /\ (phase = "emit" => frame'[t] = g)
      BY <1>0, <2>2, GotoMoves
    <3>. QED  BY <2>1, <2>2, <3>1, <3>2 DEF Delivers, Telling, g
  <2>6. CASE f.agent # b
    <3>1. /\ Tellers(b)' = Tellers(b)
          /\ \A s \in Tellers(b) : pc'[s] = pc[s] /\ frame'[s] = frame[s]
      BY <1>0, <2>2, <2>3, <2>6, TellersMove
    <3>. QED  BY <2>1, <2>4, <2>6, <3>1 DEF NewsStay
  <2>. QED  BY <2>5, <2>6
<1>11. ASSUME NEW t \in Tasks, LostReply(t)
       PROVE  NewsStay(b)
  <2>. DEFINE f == frame[t]
  <2>1. /\ pc[t] = "delete" /\ Goto(t, "idle", f) /\ UNCHANGED events
        /\ store' = [store EXCEPT ![f.agent] = f.local]
    BY <1>11 DEF LostReply, NothingUndelivered
  <2>2. store'[b] = store[b]
    <3>1. f.call.op \notin Feeding
      BY <1>0, <2>1, DeleteFeedsNothing
    <3>2. ASSUME f.agent = b, f.local # store[b]
          PROVE  FALSE
      <4>1. Applied(f, f.call.op, b)
        BY <1>11, <3>2 DEF LostReply
      <4>. QED  BY <1>1, <3>1, <4>1, AppliedIsKept
    <3>. QED  BY <1>0, <2>1, <3>2
  <2>. QED  BY <1>0, <2>1, <2>2, TellersMove DEF NewsStay, Telling
<1>12. ASSUME NEW t \in Tasks, Fault(t), pc[t] \in Telling
       PROVE  FALSE
  BY <1>12 DEF Fault, NothingUndelivered, Telling
<1>. QED  BY <1>0, <1>2, <1>5, <1>6, <1>7, <1>8, <1>9, <1>10, <1>11, <1>12, StepCases
-----------------------------------------------------------------------------
(* What es tells of b. *)
Heard(es, b, types) == {i \in DOMAIN es : es[i].agent = b /\ es[i].type \in types}

IsLast(i, S) == i \in S /\ \A j \in S : j <= i

IsFirst(i, S) == i \in S /\ \A j \in S : i <= j

Crossings == {"trust_threshold_crossed"}

Arrivals == {"agent_registered"}

Moves == {"trust_updated"}

(* Who has heard es believes b to be on p's side of the threshold. *)
Believes(es, b, p) ==
    \/ \E i : IsLast(i, Heard(es, b, Crossings)) /\ Trusted(es[i].new) = Trusted(p)
    \/ /\ Heard(es, b, Crossings) = {}
       /\ \E i : IsLast(i, Heard(es, b, Arrivals)) /\ Trusted(es[i].new) = Trusted(p)
    \/ /\ Heard(es, b, Crossings) = {} /\ Heard(es, b, Arrivals) = {}
       /\ \E i : IsFirst(i, Heard(es, b, Moves)) /\ Trusted(es[i].old) = Trusted(p)
    \/ /\ Heard(es, b, Crossings) = {} /\ Heard(es, b, Arrivals) = {}
       /\ Heard(es, b, Moves) = {}
       /\ Trusted(Vacuous) = Trusted(p)

(* The last update about b in es says p. *)
LastSays(es, b, p) == \E i : IsLast(i, Heard(es, b, Updates)) /\ es[i].new = p

(* Who tells of a change of b tells of the trust that is stored. *)
Attentive(b) ==
    OnlyFed(b) =>
        \A s \in Tellers(b) :
           Is(frame[s]) = TrustIn(b) /\ (store[b] \in Record \/ Idles(frame[s]))

(* The last update about b is the stored trust, or one is still to come. *)
UpToDate(b) ==
    OnlyChangedBy(b, Announced) /\ store[b] # NoRecord =>
        \/ LastSays(events, b, TrustIn(b))
        \/ \E s \in Tellers(b) :
              pc[s] = "ledger" \/ Head(frame[s].outbox).type # "trust_threshold_crossed"

(* The calls that cross the threshold with an event, or set the side anew. *)
Movers == {"register_agent", "submit_evidence"}

(* Subscribers believe b on the side where it is, or was before the change
   that they are being told of. *)
OnSide(b) ==
    OnlyChangedBy(b, Movers) =>
        /\ store[b] = NoRecord => /\ Heard(events, b, Crossings) = {}
                                  /\ Heard(events, b, Arrivals) = {}
        /\ Tellers(b) = {} => Believes(events, b, TrustIn(b))
        /\ \A s \in Tellers(b) :
              IF frame[s].call.op = "register_agent" THEN Heard(events, b, Crossings) = {}
              ELSE Believes(events, b, Was(frame[s]))

NewsInv == TellersInv /\ \A b \in Agents : Attentive(b) /\ UpToDate(b) /\ OnSide(b)
-----------------------------------------------------------------------------
(* fs is es and then e. *)
Longer(fs, es, e) ==
    \E n \in Nat \ DOMAIN es :
       /\ DOMAIN fs = DOMAIN es \cup {n} /\ fs[n] = e
       /\ \A i \in DOMAIN es : i \in Nat /\ i <= n /\ fs[i] = es[i]

LEMMA LongerByAppend ==
    ASSUME TypeInv, NEW e, events' = Append(events, e)
    PROVE  Longer(events', events, e)
PROOF
<1>. DEFINE n == Len(events) + 1
<1>1. events \in Seq(Event)
  BY DEF TypeInv, TypeOK
<1>2. Len(events) \in Nat /\ DOMAIN events = 1..Len(events) /\ DOMAIN events' = 1..n
  BY <1>1
<1>3. events'[n] = e /\ \A i \in DOMAIN events : events'[i] = events[i]
  BY <1>1
<1>4. /\ n \in Nat \ DOMAIN events /\ DOMAIN events' = DOMAIN events \cup {n}
      /\ \A i \in DOMAIN events : i \in Nat /\ i <= n
  BY <1>2
<1>. HIDE DEF n
<1>. QED  BY <1>3, <1>4 DEF Longer

LEMMA HeardLonger ==
    ASSUME NEW es, NEW e, NEW fs, Longer(fs, es, e), NEW b, NEW types
    PROVE  \E n \in Nat :
           /\ fs[n] = e
           /\ \A i \in Heard(es, b, types) : i \in Nat /\ i <= n /\ i # n /\ fs[i] = es[i]
           /\ e.agent = b /\ e.type \in types =>
                Heard(fs, b, types) = Heard(es, b, types) \cup {n}
           /\ e.agent # b \/ e.type \notin types => Heard(fs, b, types) = Heard(es, b, types)
PROOF
<1>1. PICK n \in Nat \ DOMAIN es :
       /\ DOMAIN fs = DOMAIN es \cup {n} /\ fs[n] = e
       /\ \A i \in DOMAIN es : i \in Nat /\ i <= n /\ fs[i] = es[i]
  BY DEF Longer
<1>2. Heard(fs, b, types)
        = Heard(es, b, types) \cup (IF e.agent = b /\ e.type \in types THEN {n} ELSE {})
  BY <1>1 DEF Heard
<1>3. \A i \in Heard(es, b, types) : i \in Nat /\ i <= n /\ i # n /\ fs[i] = es[i]
  BY <1>1 DEF Heard
<1>. QED  BY <1>1, <1>2, <1>3

(* An event of none of these types, or about somebody else. *)
LEMMA HeardStays ==
    ASSUME NEW es, NEW e, NEW fs, Longer(fs, es, e), NEW b, NEW types,
           e.agent # b \/ e.type \notin types
    PROVE  /\ Heard(fs, b, types) = Heard(es, b, types)
           /\ \A i \in Heard(es, b, types) : fs[i] = es[i]
PROOF BY HeardLonger

(* An event of one of them is the last, and the first if there was none. *)
LEMMA HeardLast ==
    ASSUME NEW es, NEW e, NEW fs, Longer(fs, es, e), NEW b, NEW types,
           e.agent = b, e.type \in types
    PROVE  /\ \E i : IsLast(i, Heard(fs, b, types)) /\ fs[i] = e
           /\ Heard(es, b, types) = {} => \E i : IsFirst(i, Heard(fs, b, types)) /\ fs[i] = e
           /\ \A i : IsFirst(i, Heard(es, b, types)) =>
                IsFirst(i, Heard(fs, b, types)) /\ fs[i] = es[i]
PROOF
<1>1. PICK n \in Nat :
        /\ fs[n] = e /\ Heard(fs, b, types) = Heard(es, b, types) \cup {n}
        /\ \A i \in Heard(es, b, types) : i \in Nat /\ i <= n /\ i # n /\ fs[i] = es[i]
  BY HeardLonger
<1>2. IsLast(n, Heard(fs, b, types))
  BY <1>1 DEF IsLast
<1>3. Heard(es, b, types) = {} => IsFirst(n, Heard(fs, b, types))
  BY <1>1 DEF IsFirst
<1>4. \A i : IsFirst(i, Heard(es, b, types)) =>
                IsFirst(i, Heard(fs, b, types)) /\ fs[i] = es[i]
  BY <1>1 DEF IsFirst
<1>. QED  BY <1>1, <1>2, <1>3, <1>4

LEMMA BelievesAlike ==
    ASSUME NEW es, NEW b, NEW p, NEW q, Trusted(p) = Trusted(q), Believes(es, b, p)
    PROVE  Believes(es, b, q)
PROOF BY Zenon DEF Believes

(* News of others, and of evidence, change no belief about b. *)
LEMMA BelievesKept ==
    ASSUME NEW es, NEW e, NEW fs, Longer(fs, es, e), NEW b, NEW p, Believes(es, b, p),
           e.agent # b \/ e.type \notin Crossings \cup Arrivals \cup Moves
    PROVE  Believes(fs, b, p)
PROOF
<1>1. /\ Heard(fs, b, Crossings) = Heard(es, b, Crossings)
      /\ \A i \in Heard(es, b, Crossings) : fs[i] = es[i]
  BY HeardStays
<1>2. /\ Heard(fs, b, Arrivals) = Heard(es, b, Arrivals)
      /\ \A i \in Heard(es, b, Arrivals) : fs[i] = es[i]
  BY HeardStays
<1>3. /\ Heard(fs, b, Moves) = Heard(es, b, Moves)
      /\ \A i \in Heard(es, b, Moves) : fs[i] = es[i]
  BY HeardStays
<1>. QED  BY <1>1, <1>2, <1>3, Zenon DEF Believes, IsLast, IsFirst

(* An update by which b was on p's side confirms or founds the belief. *)
LEMMA BelievesMove ==
    ASSUME NEW es, NEW e, NEW fs, Longer(fs, es, e), NEW b, NEW p,
           Believes(es, b, p), e.agent = b, e.type \in Moves, Trusted(e.old) = Trusted(p)
    PROVE  Believes(fs, b, p)
PROOF
<1>0. e.type \notin Crossings /\ e.type \notin Arrivals
  BY DEF Crossings, Arrivals, Moves
<1>1. /\ Heard(fs, b, Crossings) = Heard(es, b, Crossings)
      /\ \A i \in Heard(es, b, Crossings) : fs[i] = es[i]
  BY <1>0, HeardStays
<1>2. /\ Heard(fs, b, Arrivals) = Heard(es, b, Arrivals)
      /\ \A i \in Heard(es, b, Arrivals) : fs[i] = es[i]
  BY <1>0, HeardStays
<1>3. /\ Heard(es, b, Moves) = {} => \E i : IsFirst(i, Heard(fs, b, Moves)) /\ fs[i] = e
      /\ \A i : IsFirst(i, Heard(es, b, Moves)) =>
            IsFirst(i, Heard(fs, b, Moves)) /\ fs[i] = es[i]
  BY HeardLast
<1>4. CASE Heard(es, b, Crossings) # {} \/ Heard(es, b, Arrivals) # {}
  BY <1>1, <1>2, <1>4, Zenon DEF Believes, IsLast
<1>5. CASE /\ Heard(es, b, Crossings) = {} /\ Heard(es, b, Arrivals) = {}
           /\ Heard(es, b, Moves) = {}
  <2>1. \E i : IsFirst(i, Heard(fs, b, Moves)) /\ Trusted(fs[i].old) = Trusted(p)
    BY <1>3, <1>5, Zenon
  <2>. QED  BY <1>1, <1>2, <1>5, <2>1, Zenon DEF Believes
<1>6. CASE /\ Heard(es, b, Crossings) = {} /\ Heard(es, b, Arrivals) = {}
           /\ Heard(es, b, Moves) # {}
  <2>1. PICK i : IsFirst(i, Heard(es, b, Moves)) /\ Trusted(es[i].old) = Trusted(p)
    BY <1>6, Zenon DEF Believes, IsLast
  <2>2. IsFirst(i, Heard(fs, b, Moves)) /\ Trusted(fs[i].old) = Trusted(p)
    BY <1>3, <2>1, Zenon
  <2>. QED  BY <1>1, <1>2, <1>6, <2>2, Zenon DEF Believes
<1>. QED  BY <1>4, <1>5, <1>6

LEMMA BelievesCrossing ==
    ASSUME NEW es, NEW e, NEW fs, Longer(fs, es, e), NEW b,
           e.agent = b, e.type \in Crossings
    PROVE  Believes(fs, b, e.new)
PROOF
<1>1. \E i : IsLast(i, Heard(fs, b, Crossings)) /\ fs[i] = e
  BY HeardLast
<1>. QED  BY <1>1, Zenon DEF Believes

LEMMA BelievesArrival ==
    ASSUME NEW es, NEW e, NEW fs, Longer(fs, es, e), NEW b,
           e.agent = b, e.type \in Arrivals, Heard(es, b, Crossings) = {}
    PROVE  Believes(fs, b, e.new)
PROOF
<1>0. e.type \notin Crossings
  BY DEF Crossings, Arrivals
<1>1. Heard(fs, b, Crossings) = {}
  BY <1>0, HeardStays
<1>2. \E i : IsLast(i, Heard(fs, b, Arrivals)) /\ fs[i] = e
  BY HeardLast
<1>. QED  BY <1>1, <1>2, Zenon DEF Believes
-----------------------------------------------------------------------------
(* What the next of a call's messages says. *)
LEMMA NextMessage ==
    ASSUME NEW f, NEW es \in Messages(f)
    PROVE  LET e == Head(es)
               op == f.call.op IN
           /\ e.agent = f.agent /\ e.old = Was(f) /\ e.new = Is(f)
           /\ \/ /\ op = "submit_evidence" /\ e.type = "evidence_submitted"
                 /\ Tail(es) # << >> /\ Head(Tail(es)).type = "trust_updated"
              \/ op = "submit_evidence" /\ e.type = "trust_updated" /\ Tail(es) # << >>
              \/ /\ op = "submit_evidence" /\ e.type = "trust_updated" /\ Tail(es) = << >>
                 /\ Trusted(Was(f)) = Trusted(Is(f))
              \/ /\ op = "submit_evidence" /\ e.type = "trust_threshold_crossed"
                 /\ Tail(es) = << >>
              \/ /\ op \in {"register_agent", "register_authority"}
                 /\ e.type = "agent_registered" /\ Tail(es) = << >>
              \/ /\ op \notin {"submit_evidence", "register_agent", "register_authority"}
                 /\ e.type = "trust_updated" /\ Tail(es) = << >>
PROOF
<1>. DEFINE ar == Announce("agent_registered", f)
            ev == Announce("evidence_submitted", f)
            tu == Announce("trust_updated", f)
            cr == Announce("trust_threshold_crossed", f)
<1>1. \A e \in {ar, ev, tu, cr} : e.agent = f.agent /\ e.old = Was(f) /\ e.new = Is(f)
  BY DEF Announce, Was, Is
<1>2. /\ ar.type = "agent_registered" /\ ev.type = "evidence_submitted"
      /\ tu.type = "trust_updated" /\ cr.type = "trust_threshold_crossed"
  BY DEF Announce
<1>. HIDE DEF ar, ev, tu, cr
<1>3. /\ Head(<<ev, tu, cr>>) = ev /\ Tail(<<ev, tu, cr>>) = <<tu, cr>>
      /\ Head(<<tu, cr>>) = tu /\ Tail(<<tu, cr>>) = <<cr>> /\ <<tu, cr>> # << >>
      /\ Head(<<ev, tu>>) = ev /\ Tail(<<ev, tu>>) = <<tu>> /\ <<tu>> # << >>
      /\ Head(<<cr>>) = cr /\ Tail(<<cr>>) = << >> /\ <<cr>> # << >>
      /\ Head(<<tu>>) = tu /\ Tail(<<tu>>) = << >>
      /\ Head(<<ar>>) = ar /\ Tail(<<ar>>) = << >>
  OBVIOUS
<1>4. /\ f.call.op = "submit_evidence" /\ Trusted(Was(f)) # Trusted(Is(f)) =>
            es \in {<<ev, tu, cr>>, <<tu, cr>>, <<cr>>}
      /\ f.call.op = "submit_evidence" /\ Trusted(Was(f)) = Trusted(Is(f)) =>
            es \in {<<ev, tu>>, <<tu>>}
      /\ f.call.op \in {"register_agent", "register_authority"} => es = <<ar>>
      /\ f.call.op \notin {"submit_evidence", "register_agent", "register_authority"} =>
            es = <<tu>>
  BY Zenon DEF Messages, ar, ev, tu, cr
<1>. QED  BY <1>1, <1>2, <1>3, <1>4

(* In a call that has changed b or changes nothing, for b's call history. *)
LEMMA TellersHaveChanged ==
    ASSUME TellersInv, NEW b, NEW ops, OnlyChangedBy(b, ops), NEW s \in Tellers(b)
    PROVE  frame[s].call.op \in ops \/ Idles(frame[s])
PROOF BY DEF TellersInv, Tells, Tellers, HasChanged, OnlyChangedBy

LEMMA HeadIsMessage ==
    ASSUME TellersInv, NEW b, NEW s \in Tellers(b), pc[s] = "emit"
    PROVE  frame[s].outbox \in Messages(frame[s]) /\ frame[s].agent = b /\ frame[s] \in Frame
PROOF
<1>1. s \in Tasks /\ frame[s].agent = b
  BY DEF Tellers
<1>2. frame[s].outbox \in Messages(frame[s])
  BY <1>1 DEF TellersInv, Tells, Telling
<1>. QED  BY <1>1, <1>2, FrameFacts DEF TellersInv, LockInv

LEMMA StepAttentive ==
    ASSUME NothingUndelivered, TellersInv, [Next]_vars, NEW b \in Agents, Attentive(b)
    PROVE  Attentive(b)'
PROOF
<1>. SUFFICES ASSUME OnlyFed(b)', NEW s \in Tellers(b)'
              PROVE  /\ Is(frame'[s]) = TrustIn(b)'
                     /\ store'[b] \in Record \/ Idles(frame'[s])
  BY DEF Attentive, Is, TrustIn, Idles, Was
<1>1. \A r \in Tellers(b) :
         Is(frame[r]) = TrustIn(b) /\ (store[b] \in Record \/ Idles(frame[r]))
  <2>1. OnlyFed(b)
    BY HistoryGrows, FedBefore DEF TellersInv, LockInv, OnlyFed
  <2>. QED  BY <2>1 DEF Attentive
<1>2. CASE NewsStay(b)
  BY <1>1, <1>2 DEF NewsStay, TrustIn
<1>3. ASSUME NEW t \in Tasks, StartsTelling(b, t)
      PROVE  /\ Is(frame'[s]) = TrustIn(b)'
             /\ store'[b] \in Record \/ Idles(frame'[s])
  BY <1>3 DEF StartsTelling
<1>4. ASSUME NEW t \in Tasks, GoesOn(b, t)
      PROVE  /\ Is(frame'[s]) = TrustIn(b)'
             /\ store'[b] \in Record \/ Idles(frame'[s])
  BY <1>1, <1>4 DEF GoesOn, TrustIn, Idles
<1>5. ASSUME NEW t \in Tasks, Delivers(b, t)
      PROVE  /\ Is(frame'[s]) = TrustIn(b)'
             /\ store'[b] \in Record \/ Idles(frame'[s])
  <2>. DEFINE f == frame[t]
              g == [f EXCEPT !.outbox = Tail(f.outbox)]
  <2>1. s = t /\ frame'[t] = g /\ t \in Tellers(b) /\ store'[b] = store[b] /\ pc[t] = "emit"
    BY <1>5 DEF Delivers
  <2>2. f \in Frame
    BY <2>1, HeadIsMessage
  <2>3. g.call = f.call /\ Was(g) = Was(f) /\ Is(g) = Is(f)
    BY <2>2, MessagesLeft
  <2>. HIDE DEF g
  <2>. QED  BY <1>1, <2>1, <2>3 DEF TrustIn, Idles
<1>6. ASSUME NEW t \in Tasks, KeepsQuiet(b, t)
      PROVE  FALSE
  BY <1>6 DEF KeepsQuiet
<1>. QED  BY <1>2, <1>3, <1>4, <1>5, <1>6, NewsMove

LEMMA StepUpToDate ==
    ASSUME NothingUndelivered, TellersInv, [Next]_vars, NEW b \in Agents, Attentive(b), UpToDate(b)
    PROVE  UpToDate(b)'
PROOF
<1>. DEFINE ToCome(s) == pc[s] = "ledger" \/ Head(frame[s].outbox).type # "trust_threshold_crossed"
<1>. SUFFICES ASSUME OnlyChangedBy(b, Announced)', store'[b] # NoRecord
              PROVE  \/ LastSays(events', b, TrustIn(b)')
                     \/ \E s \in Tellers(b)' : ToCome(s)'
  BY DEF UpToDate, TrustIn
<1>1. OnlyChangedBy(b, Announced) /\ TypeInv
  BY HistoryGrows, FedBefore DEF TellersInv, LockInv
<1>2. OnlyFed(b) /\ OnlyFed(b)'
  BY <1>1 DEF OnlyFed, OnlyChangedBy, Announced, Submissions
<1>3. store[b] # NoRecord =>
         LastSays(events, b, TrustIn(b)) \/ \E s \in Tellers(b) : ToCome(s)
  BY <1>1 DEF UpToDate
<1>4. ASSUME NEW e, Longer(events', events, e), store'[b] = store[b],
             LastSays(events, b, TrustIn(b)), e.agent # b \/ e.type \notin Updates
      PROVE  LastSays(events', b, TrustIn(b)')
  <2>1. TrustIn(b)' = TrustIn(b)
    BY <1>4 DEF TrustIn
  <2>2. /\ Heard(events', b, Updates) = Heard(events, b, Updates)
        /\ \A i \in Heard(events, b, Updates) : events'[i] = events[i]
    BY <1>4, HeardStays
  <2>. QED  BY <1>4, <2>1, <2>2 DEF LastSays, IsLast
<1>5. CASE NewsStay(b)
  <2>1. CASE \E s \in Tellers(b) : ToCome(s)
    BY <1>5, <2>1 DEF NewsStay
  <2>2. CASE LastSays(events, b, TrustIn(b))
    <3>1. CASE UNCHANGED events
      BY <1>5, <2>2, <3>1 DEF NewsStay, TrustIn, LastSays
    <3>2. ASSUME NEW e \in Event, e.agent # b, events' = Append(events, e)
          PROVE  LastSays(events', b, TrustIn(b)')
      BY <1>1, <1>4, <1>5, <2>2, <3>2, LongerByAppend DEF NewsStay
    <3>. QED  BY <1>5, <3>1, <3>2 DEF NewsStay
  <2>. QED  BY <1>3, <1>5, <2>1, <2>2 DEF NewsStay
<1>6. ASSUME NEW t \in Tasks, StartsTelling(b, t) \/ GoesOn(b, t)
      PROVE  \E s \in Tellers(b)' : ToCome(s)'
  BY <1>6 DEF StartsTelling, GoesOn
<1>7. ASSUME NEW t \in Tasks, Delivers(b, t)
      PROVE  \/ LastSays(events', b, TrustIn(b)')
             \/ \E s \in Tellers(b)' : ToCome(s)'
  <2>. DEFINE f == frame[t]
              e == Head(f.outbox)
              g == [f EXCEPT !.outbox = Tail(f.outbox)]
  <2>1. /\ t \in Tellers(b) /\ Tellers(b) = {t} /\ pc[t] = "emit" /\ store'[b] = store[b]
        /\ events' = Append(events, e)
    BY <1>7 DEF Delivers
  <2>2. f.outbox \in Messages(f) /\ f.agent = b /\ f \in Frame
    BY <2>1, HeadIsMessage
  <2>3. /\ e.agent = b /\ e.new = Is(f)
        /\ \/ e.type = "evidence_submitted" /\ Tail(f.outbox) # << >>
              /\ Head(Tail(f.outbox)).type = "trust_updated"
           \/ e.type \in Updates
           \/ e.type = "trust_threshold_crossed"
    BY <2>2, NextMessage DEF Updates
  <2>4. Is(f) = TrustIn(b)
    BY <1>2, <2>1 DEF Attentive
  <2>. HIDE DEF e
  <2>5. Longer(events', events, e)
    BY <1>1, <2>1, LongerByAppend
  <2>6. CASE e.type = "evidence_submitted" /\ Tail(f.outbox) # << >>
             /\ Head(Tail(f.outbox)).type = "trust_updated"
    <3>1. frame'[t] = g /\ t \in Tellers(b)'
      BY <1>7, <2>6 DEF Delivers
    <3>2. g.outbox = Tail(f.outbox)
      BY <2>2, MessagesLeft
    <3>. HIDE DEF g
    <3>3. ToCome(t)'
      BY <2>6, <3>1, <3>2
    <3>. QED  BY <3>1, <3>3
  <2>7. CASE e.type \in Updates
    <3>1. TrustIn(b)' = TrustIn(b)
      BY <2>1 DEF TrustIn
    <3>2. \E i : IsLast(i, Heard(events', b, Updates)) /\ events'[i] = e
      BY <2>3, <2>5, <2>7, HeardLast
    <3>. QED  BY <2>3, <2>4, <3>1, <3>2 DEF LastSays
  <2>8. CASE e.type = "trust_threshold_crossed"
    <3>1. LastSays(events, b, TrustIn(b))
      BY <1>3, <2>1, <2>8 DEF e
    <3>2. e.type \notin Updates
      BY <2>8 DEF Updates
    <3>. QED  BY <1>4, <2>1, <2>5, <3>1, <3>2
  <2>. QED  BY <2>3, <2>6, <2>7, <2>8
<1>8. ASSUME NEW t \in Tasks, KeepsQuiet(b, t)
      PROVE  FALSE
  <2>1. t \in Tellers(b) /\ frame[t].call.op = "submit_discounted_opinion"
    BY <1>8 DEF KeepsQuiet
  <2>. QED  BY <1>1, <2>1, TellersHaveChanged DEF Announced, Idles
<1>. QED  BY <1>2, <1>5, <1>6, <1>7, <1>8, NewsMove

LEMMA StepOnSide ==
    ASSUME NothingUndelivered, TellersInv, [Next]_vars, NEW b \in Agents, Attentive(b), OnSide(b)
    PROVE  OnSide(b)'
PROOF
<1>. DEFINE Unheard(es) == Heard(es, b, Crossings) = {} /\ Heard(es, b, Arrivals) = {}
            Mid(es, f) == IF f.call.op = "register_agent" THEN Heard(es, b, Crossings) = {}
                          ELSE Believes(es, b, Was(f))
            Goal == /\ store'[b] = NoRecord => Unheard(events')
                    /\ Tellers(b)' = {} => Believes(events', b, TrustIn(b)')
                    /\ \A s \in Tellers(b)' : Mid(events', frame'[s])
<1>. SUFFICES ASSUME OnlyChangedBy(b, Movers)' PROVE Goal
  BY DEF OnSide, TrustIn, Was
<1>1. OnlyChangedBy(b, Movers) /\ TypeInv
  BY HistoryGrows, FedBefore DEF TellersInv, LockInv
<1>2. OnlyFed(b) /\ OnlyFed(b)'
  BY <1>1 DEF OnlyFed, OnlyChangedBy, Movers, Submissions
<1>3. /\ store[b] = NoRecord => Unheard(events)
      /\ Tellers(b) = {} => Believes(events, b, TrustIn(b))
      /\ \A s \in Tellers(b) : Mid(events, frame[s])
  BY <1>1 DEF OnSide
<1>4. CASE NewsStay(b)
  <2>1. TrustIn(b)' = TrustIn(b)
    BY <1>4 DEF NewsStay, TrustIn
  <2>2. CASE UNCHANGED events
    BY <1>3, <1>4, <2>1, <2>2 DEF NewsStay
  <2>3. ASSUME NEW e \in Event, e.agent # b, events' = Append(events, e)
        PROVE  Goal
    <3>1. Longer(events', events, e)
      BY <1>1, <2>3, LongerByAppend
    <3>2. /\ Heard(events', b, Crossings) = Heard(events, b, Crossings)
          /\ Heard(events', b, Arrivals) = Heard(events, b, Arrivals)
      BY <2>3, <3>1, HeardStays
    <3>3. \A p : Believes(events, b, p) => Believes(events', b, p)
      BY <2>3, <3>1, BelievesKept
    <3>. QED  BY <1>3, <1>4, <2>1, <3>2, <3>3 DEF NewsStay
  <2>. QED  BY <1>4, <2>2, <2>3 DEF NewsStay
<1>5. ASSUME NEW t \in Tasks, StartsTelling(b, t)
      PROVE  Goal
  <2>1. store'[b] = NoRecord => Unheard(events')
    BY <1>3, <1>5, NoRecordIsNone DEF StartsTelling
  <2>2. Mid(events', frame'[t])
    <3>1. frame'[t].call.op = "register_agent" => store[b] = NoRecord
      BY <1>5 DEF StartsTelling, Idles
    <3>. QED  BY <1>3, <1>5, <3>1 DEF StartsTelling
  <2>. QED  BY <1>5, <2>1, <2>2 DEF StartsTelling
<1>6. ASSUME NEW t \in Tasks, GoesOn(b, t)
      PROVE  Goal
  BY <1>3, <1>6 DEF GoesOn
<1>7. ASSUME NEW t \in Tasks, Delivers(b, t)
      PROVE  Goal
  <2>. DEFINE f == frame[t]
              op == f.call.op
              e == Head(f.outbox)
              g == [f EXCEPT !.outbox = Tail(f.outbox)]
  <2>1. /\ t \in Tellers(b) /\ Tellers(b) = {t} /\ pc[t] = "emit" /\ store'[b] = store[b]
        /\ events' = Append(events, e) /\ TrustIn(b)' = TrustIn(b)
    BY <1>7 DEF Delivers, TrustIn
  <2>2. f.outbox \in Messages(f) /\ f.agent = b /\ f \in Frame
    BY <2>1, HeadIsMessage
  <2>3. Is(f) = TrustIn(b) /\ (store[b] \in Record \/ Idles(f)) /\ (op \in Movers \/ Idles(f))
    BY <1>1, <1>2, <2>1, TellersHaveChanged DEF Attentive
  <2>4. /\ e.agent = b /\ e.old = Was(f) /\ e.new = Is(f)
        /\ \/ /\ op = "submit_evidence" /\ e.type = "evidence_submitted"
              /\ Tail(f.outbox) # << >>
           \/ op = "submit_evidence" /\ e.type = "trust_updated" /\ Tail(f.outbox) # << >>
           \/ /\ op = "submit_evidence" /\ e.type = "trust_updated" /\ Tail(f.outbox) = << >>
              /\ Trusted(Was(f)) = Trusted(Is(f))
           \/ /\ op = "submit_evidence" /\ e.type = "trust_threshold_crossed"
              /\ Tail(f.outbox) = << >>
           \/ /\ op \in {"register_agent", "register_authority"}
              /\ e.type = "agent_registered" /\ Tail(f.outbox) = << >>
           \/ /\ op \notin {"submit_evidence", "register_agent", "register_authority"}
              /\ e.type = "trust_updated" /\ Tail(f.outbox) = << >>
    BY <2>2, NextMessage
  <2>5. Mid(events, f)
    BY <1>3, <2>1
  <2>6. Tail(f.outbox) # << >> => /\ Tellers(b)' = {t} /\ frame'[t] = g
                                  /\ g.call = f.call /\ Was(g) = Was(f)
    BY <1>7, <2>2, MessagesLeft DEF Delivers
  <2>7. Tail(f.outbox) = << >> => Tellers(b)' = {}
    BY <1>7 DEF Delivers
  <2>. HIDE DEF e, g
  <2>8. Longer(events', events, e)
    BY <1>1, <2>1, LongerByAppend
  <2>9. CASE op = "submit_evidence" /\ e.type = "evidence_submitted" /\ Tail(f.outbox) # << >>
    <3>1. e.type \notin Crossings \cup Arrivals \cup Moves
      BY <2>9 DEF Crossings, Arrivals, Moves
    <3>2. Believes(events', b, Was(f))
      BY <2>5, <2>8, <2>9, <3>1, BelievesKept
    <3>3. store'[b] # NoRecord
      BY <2>1, <2>3, <2>9, NoRecordIsNone DEF Idles
    <3>. QED  BY <2>6, <2>9, <3>2, <3>3
  <2>10. CASE op = "submit_evidence" /\ e.type = "trust_updated"
    <3>1. Believes(events', b, Was(f))
      BY <2>4, <2>5, <2>8, <2>10, BelievesMove DEF Moves
    <3>2. store'[b] # NoRecord
      BY <2>1, <2>3, <2>10, NoRecordIsNone DEF Idles
    <3>3. CASE Tail(f.outbox) # << >>
      BY <2>6, <2>10, <3>1, <3>2, <3>3
    <3>4. CASE Tail(f.outbox) = << >>
      <4>1. Trusted(Was(f)) = Trusted(Is(f))
        BY <2>4, <2>10, <3>4, Zenon
      <4>2. Believes(events', b, Is(f))
        BY <3>1, <4>1, BelievesAlike, Zenon
      <4>. QED  BY <2>1, <2>3, <2>7, <3>2, <3>4, <4>2
    <3>. QED  BY <3>3, <3>4
  <2>11. CASE op = "submit_evidence" /\ e.type = "trust_threshold_crossed"
    <3>1. Tail(f.outbox) = << >>
      BY <2>4, <2>11
    <3>2. Believes(events', b, Is(f))
      BY <2>4, <2>8, <2>11, BelievesCrossing DEF Crossings
    <3>3. store'[b] # NoRecord
      BY <2>1, <2>3, <2>11, NoRecordIsNone DEF Idles
    <3>. QED  BY <2>1, <2>3, <2>7, <3>1, <3>2, <3>3
  <2>12. CASE op \in {"register_agent", "register_authority"}
    <3>1. op = "register_agent" /\ e.type = "agent_registered" /\ Tail(f.outbox) = << >>
      BY <2>3, <2>4, <2>12 DEF Idles, Movers
    <3>2. Believes(events', b, Is(f))
      BY <2>4, <2>5, <2>8, <3>1, BelievesArrival DEF Arrivals
    <3>3. store'[b] # NoRecord
      BY <2>1, <2>3, <3>1, NoRecordIsNone DEF Idles
    <3>. QED  BY <2>1, <2>3, <2>7, <3>1, <3>2, <3>3
  <2>13. CASE op \notin {"submit_evidence", "register_agent", "register_authority"}
    <3>1. Idles(f) /\ e.type = "trust_updated" /\ Tail(f.outbox) = << >>
      BY <2>3, <2>4, <2>13 DEF Movers
    <3>2. Was(f) = Is(f)
      BY <3>1 DEF Idles
    <3>3. Believes(events', b, Was(f))
      BY <2>4, <2>5, <2>8, <2>13, <3>1, BelievesMove DEF Moves
    <3>4. /\ Heard(events', b, Crossings) = Heard(events, b, Crossings)
          /\ Heard(events', b, Arrivals) = Heard(events, b, Arrivals)
      BY <2>8, <3>1, HeardStays DEF Crossings, Arrivals
    <3>. QED  BY <1>3, <2>1, <2>3, <2>7, <3>1, <3>2, <3>3, <3>4
  <2>. QED  BY <2>4, <2>9, <2>10, <2>11, <2>12, <2>13
<1>8. ASSUME NEW t \in Tasks, KeepsQuiet(b, t)
      PROVE  FALSE
  <2>1. t \in Tellers(b) /\ frame[t].call.op = "submit_discounted_opinion"
    BY <1>8 DEF KeepsQuiet
  <2>. QED  BY <1>1, <2>1, TellersHaveChanged DEF Movers, Idles
<1>. QED  BY <1>2, <1>4, <1>5, <1>6, <1>7, <1>8, NewsMove

LEMMA InitNews == Init => NewsInv
PROOF
<1>. SUFFICES ASSUME Init PROVE NewsInv
  OBVIOUS
<1>1. TellersInv /\ events = << >> /\ \A b \in Agents : Tellers(b) = {} /\ store[b] = NoRecord
  BY InitTells DEF Init, Tellers, Telling
<1>2. ASSUME NEW b \in Agents
      PROVE  Attentive(b) /\ UpToDate(b) /\ OnSide(b)
  <2>1. \A types : Heard(events, b, types) = {}
    BY <1>1 DEF Heard
  <2>2. TrustIn(b) = Vacuous
    BY <1>1 DEF TrustIn, OrNew, NewRecord
  <2>3. Believes(events, b, Vacuous)
    BY <2>1, Zenon DEF Believes
  <2>. QED  BY <1>1, <2>1, <2>2, <2>3 DEF Attentive, UpToDate, OnSide
<1>. QED  BY <1>1, <1>2 DEF NewsInv

LEMMA StepNews ==
    ASSUME NothingUndelivered
    PROVE  NewsInv /\ [Next]_vars => NewsInv'
PROOF BY StepTells, StepAttentive, StepUpToDate, StepOnSide DEF NewsInv

LEMMA NewsAlways ==
    ASSUME NothingUndelivered
    PROVE  Spec => []NewsInv
PROOF
<1>1. NewsInv /\ [Next]_vars => NewsInv'
  BY StepNews
<1>. QED  BY <1>1, InitNews, PTL DEF Spec

(* The last of the reports is the one that LastReport chooses. *)
LEMMA ReportsHeard ==
    ASSUME TypeInv, NEW b, NEW types
    PROVE  /\ Reports(b, types) = Heard(events, b, types)
           /\ \A i : IsLast(i, Heard(events, b, types)) => LastReport(b, types) = events[i]
           /\ \A i : IsFirst(i, Heard(events, b, types)) => FirstReport(b, types) = events[i]
PROOF
<1>. DEFINE S == Heard(events, b, types)
<1>1. S \subseteq Nat
  <2>1. events \in Seq(Event)
    BY DEF TypeInv, TypeOK
  <2>2. DOMAIN events \subseteq Nat
    BY <2>1
  <2>. QED  BY <2>2 DEF Heard
<1>2. Reports(b, types) = S
  BY DEF Reports, Heard
<1>. HIDE DEF S
<1>3. ASSUME NEW i, IsLast(i, S)
      PROVE  LastReport(b, types) = events[i]
  <2>. DEFINE j == CHOOSE k \in Reports(b, types) : \A m \in Reports(b, types) : m <= k
  <2>1. j \in S /\ \A m \in S : m <= j
    BY <1>2, <1>3 DEF IsLast
  <2>2. LastReport(b, types) = events[j]
    BY DEF LastReport
  <2>. HIDE DEF j
  <2>. QED  BY <1>1, <1>3, <2>1, <2>2 DEF IsLast
<1>4. ASSUME NEW i, IsFirst(i, S)
      PROVE  FirstReport(b, types) = events[i]
  <2>. DEFINE j == CHOOSE k \in Reports(b, types) : \A m \in Reports(b, types) : k <= m
  <2>1. j \in S /\ \A m \in S : j <= m
    BY <1>2, <1>4 DEF IsFirst
  <2>2. FirstReport(b, types) = events[j]
    BY DEF FirstReport
  <2>. HIDE DEF j
  <2>. QED  BY <1>1, <1>4, <2>1, <2>2 DEF IsFirst
<1>. QED  BY <1>2, <1>3, <1>4 DEF S

(* When nobody holds the lock, nobody has anything to tell. *)
LEMMA NobodyTells ==
    ASSUME LockInv, lock = NoTask, NEW b
    PROVE  Tellers(b) = {}
PROOF
<1>1. \A s \in Tellers(b) : lock = s /\ s \in Tasks
  BY TellersFacts
<1>. QED  BY <1>1, Distinct

LEMMA NewsMakesCurrent == NewsInv => SubscribersCurrent
PROOF
<1>. SUFFICES ASSUME NewsInv, lock = NoTask, NEW b \in StoredIds, OnlyChangedBy(b, Announced)
              PROVE  /\ Reports(b, Updates) # {}
                     /\ LastReport(b, Updates).new = store[b].opinion
  BY DEF SubscribersCurrent
<1>1. b \in Agents /\ store[b] # NoRecord /\ TrustIn(b) = store[b].opinion
  BY DEF StoredIds, Included, TrustIn, OrNew
<1>2. Tellers(b) = {} /\ TypeInv
  BY NobodyTells DEF NewsInv, TellersInv, LockInv
<1>3. PICK i : IsLast(i, Heard(events, b, Updates)) /\ events[i].new = TrustIn(b)
  BY <1>1, <1>2 DEF NewsInv, UpToDate, LastSays
<1>4. Reports(b, Updates) = Heard(events, b, Updates) /\ LastReport(b, Updates) = events[i]
  BY <1>2, <1>3, ReportsHeard
<1>. QED  BY <1>1, <1>3, <1>4 DEF IsLast

LEMMA NewsMakesCrossings == NewsInv => CrossingsAnnounced
PROOF
<1>. SUFFICES ASSUME NewsInv, lock = NoTask, NEW b \in StoredIds,
                     OnlyChangedBy(b, {"register_agent", "submit_evidence"})
              PROVE  Trusted(Side(b)) = Trusted(store[b].opinion)
  BY DEF CrossingsAnnounced
<1>1. /\ b \in Agents /\ store[b] # NoRecord /\ TrustIn(b) = store[b].opinion
      /\ OnlyChangedBy(b, Movers) /\ OnlyChangedBy(b, Announced)
  BY DEF StoredIds, Included, TrustIn, OrNew, OnlyChangedBy, Movers, Announced
<1>2. Tellers(b) = {} /\ TypeInv
  BY NobodyTells DEF NewsInv, TellersInv, LockInv
<1>3. Believes(events, b, store[b].opinion)
  BY <1>1, <1>2 DEF NewsInv, OnSide
<1>4. Heard(events, b, Arrivals) # {} \/ Heard(events, b, Moves) # {}
  <2>1. PICK i : i \in Heard(events, b, Updates)
    BY <1>1, <1>2 DEF NewsInv, UpToDate, LastSays, IsLast
  <2>. QED  BY <2>1 DEF Heard, Updates, Arrivals, Moves
<1>5. /\ Reports(b, Crossings) = Heard(events, b, Crossings)
      /\ \A i : IsLast(i, Heard(events, b, Crossings)) => LastReport(b, Crossings) = events[i]
  BY <1>2, ReportsHeard
<1>6. /\ Reports(b, Arrivals) = Heard(events, b, Arrivals)
      /\ \A i : IsLast(i, Heard(events, b, Arrivals)) => LastReport(b, Arrivals) = events[i]
  BY <1>2, ReportsHeard
<1>7. \A i : IsFirst(i, Heard(events, b, Moves)) => FirstReport(b, Moves) = events[i]
  BY <1>2, ReportsHeard
<1>8. Side(b) = IF Heard(events, b, Crossings) # {} THEN LastReport(b, Crossings).new
                ELSE IF Heard(events, b, Arrivals) # {} THEN LastReport(b, Arrivals).new
                ELSE FirstReport(b, Moves).old
  BY <1>5, <1>6 DEF Side, Crossings, Arrivals, Moves
<1>9. CASE Heard(events, b, Crossings) # {}
  <2>1. PICK i : /\ IsLast(i, Heard(events, b, Crossings))
                 /\ Trusted(events[i].new) = Trusted(store[b].opinion)
    BY <1>3, <1>9, Zenon DEF Believes
  <2>2. Side(b) = events[i].new
    BY <1>5, <1>8, <1>9, <2>1
  <2>. QED  BY <2>1, <2>2, Zenon
<1>10. CASE Heard(events, b, Crossings) = {} /\ Heard(events, b, Arrivals) # {}
  <2>1. PICK i : /\ IsLast(i, Heard(events, b, Arrivals))
                 /\ Trusted(events[i].new) = Trusted(store[b].opinion)
    BY <1>3, <1>10, Zenon DEF Believes, IsLast
  <2>2. Side(b) = events[i].new
    BY <1>6, <1>8, <1>10, <2>1
  <2>. QED  BY <2>1, <2>2, Zenon
<1>11. CASE Heard(events, b, Crossings) = {} /\ Heard(events, b, Arrivals) = {}
  <2>1. PICK i : /\ IsFirst(i, Heard(events, b, Moves))
                 /\ Trusted(events[i].old) = Trusted(store[b].opinion)
    BY <1>3, <1>4, <1>11, Zenon DEF Believes, IsLast
  <2>2. Side(b) = events[i].old
    BY <1>7, <1>8, <1>11, <2>1
  <2>. QED  BY <2>1, <2>2, Zenon
<1>. QED  BY <1>9, <1>10, <1>11

(* Unless a commit, an entry or an event is lost, whoever has followed the
   event bus knows, whenever the lock is free, the trust that is stored of
   every agent whose changes are all announced. *)
THEOREM SubscribersAreCurrent ==
    ASSUME NothingUndelivered
    PROVE  Spec => []SubscribersCurrent
PROOF BY NewsAlways, NewsMakesCurrent, PTL

(* Unless a commit, an entry or an event is lost, whoever has followed the
   crossings of the threshold knows, whenever the lock is free, on which side
   of it an agent is that only its registration and evidence have moved. *)
THEOREM CrossingsAreAnnounced ==
    ASSUME NothingUndelivered
    PROVE  Spec => []CrossingsAnnounced
PROOF BY NewsAlways, NewsMakesCrossings, PTL
-----------------------------------------------------------------------------
(***************************************************************************)
(* Sweeps and imports.                                                     *)
(***************************************************************************)

StepOf(t) == Invoke(t) \/ Acquire(t) \/ Continue(t) \/ Fault(t) \/ LostReply(t)

(* Every step of a task goes on to some await of that task. *)
LEMMA EveryStepGoes ==
    ASSUME NEW t \in Tasks, StepOf(t)
    PROVE  \E phase, f : Goto(t, phase, f)
PROOF
<1>1. CASE Invoke(t) \/ Acquire(t) \/ Peek(t) \/ ListAgents(t) \/ NextAgent(t) \/ ExportRecord(t)
  BY <1>1 DEF Invoke, Acquire, Enter, Peek, ListAgents, NextAgent, Visit, ExportRecord
<1>2. CASE GetForUpdate(t) \/ GetForFlag(t) \/ GetForNothing(t) \/ GetAndLeave(t)
  BY <1>2 DEF GetForUpdate, Updating, GetForFlag, GetForNothing, GetAndLeave
<1>3. CASE PutEvidence(t) \/ PutAndAnnounce(t) \/ PutFlag(t) \/ PutAdmin(t) \/ Delete(t)
  BY <1>3 DEF PutEvidence, PutAndAnnounce, Announcing, PutFlag, PutAdmin, Delete
<1>4. CASE ImportList(t) \/ ImportWipe(t) \/ ImportLoad(t)
  BY <1>4 DEF ImportList, ImportWipe, ImportLoad
<1>5. CASE JournalEvidence(t) \/ JournalDiscounted(t) \/ Emit(t) \/ Audit(t)
  BY <1>5 DEF JournalEvidence, JournalDiscounted, Emit, Audit
<1>6. CASE Fault(t) \/ LostReply(t)
  BY <1>6 DEF Fault, LostReply
<1>. QED  BY <1>1, <1>2, <1>3, <1>4, <1>5, <1>6 DEF StepOf, Continue

(* Only a call goes on. *)
LEMMA CallsRun ==
    ASSUME NEW t \in Tasks, StepOf(t), ~Invoke(t)
    PROVE  pc[t] # "idle" \/ Fault(t)
PROOF BY DEF StepOf, Continue, Acquire, Enter, Peek, ListAgents, NextAgent,
           ExportRecord, GetForUpdate, Updating, GetForFlag, GetForNothing, GetAndLeave,
           PutEvidence, PutAndAnnounce, Announcing, PutFlag, PutAdmin, Write, Delete,
           ImportList, ImportWipe, ImportLoad, JournalEvidence, JournalDiscounted, Emit,
           Audit, LostReply

(* A task that moves has made a step of its own. *)
LEMMA OwnStep ==
    ASSUME TypeInv, [Next]_vars, NEW t \in Tasks, pc'[t] # pc[t]
    PROVE  StepOf(t)
PROOF
<1>1. CASE Tick \/ Rest \/ UNCHANGED vars
  BY <1>1 DEF Tick, Rest, vars
<1>2. ASSUME NEW s \in Tasks, StepOf(s), s # t
      PROVE  FALSE
  <2>1. PICK phase, f : Goto(s, phase, f)
    BY <1>2, EveryStepGoes
  <2>. QED  BY <1>2, <2>1, GotoMoves
<1>. QED  BY <1>1, <1>2 DEF Next, StepOf

(* An evicting sweep deletes the record that it has found stale. *)
LEMMA StepSparesTheFresh ==
    ASSUME LockInv, [Next]_vars, NEW t \in Tasks, NEW a \in Agents, pc[t] = "delete",
           frame[t].call.op = "evict_stale_agents", frame[t].agent = a, pc'[t] # pc[t],
           store[a] # store'[a]
    PROVE  store[a].updated + MaxAge < frame[t].now
PROOF
<1>. DEFINE f == frame[t]
<1>1. /\ TypeInv /\ store \in [Agents -> Record \cup {NoRecord}]
      /\ f.read \in Record \cup {NoRecord} /\ f.now \in Nat
  BY FrameFacts, BoundsAreNat DEF LockInv, DataOK
<1>2. f.local = NoRecord /\ Computed(f) /\ (f.read = store[a] \/ store[a] = NoRecord)
  BY LockFacts DEF Sound, Flags
<1>3. f.read # NoRecord /\ f.now > f.read.updated + MaxAge
  BY <1>2 DEF Computed, Admits
<1>4. Delete(t) \/ Fault(t) \/ LostReply(t)
  <2>1. StepOf(t)
    BY <1>1, OwnStep
  <2>. QED  BY <2>1 DEF StepOf, Continue, Invoke, Acquire, Enter, Peek, ListAgents, NextAgent,
                        ExportRecord, GetForUpdate, Updating, GetForFlag, GetForNothing,
                        GetAndLeave, PutEvidence, PutAndAnnounce, Announcing, PutFlag, PutAdmin,
                        Write, ImportList, ImportWipe, ImportLoad, JournalEvidence,
                        JournalDiscounted, Emit, Audit
<1>5. store'[a] = NoRecord
  BY <1>1, <1>2, <1>4 DEF Delete, Fault, LostReply
<1>6. f.read = store[a] /\ f.read \in Record
  BY <1>1, <1>2, <1>3, <1>5
<1>7. f.read.updated \in Nat /\ MaxAge \in Nat
  BY <1>6, MaxAgeIsNat DEF Record
<1>. QED  BY <1>1, <1>3, <1>6, <1>7

(* Whatever else is called, however often the lock changes hands, whatever is
   deregistered meanwhile and wherever an await raises, an evicting sweep
   removes no record that was fresh when the sweep began. *)
THEOREM SweepsSpareTheFresh == Spec => EvictionSparesTheFresh
PROOF
<1>1. LockInv /\ [Next]_vars => LockInv'
  BY StepLocks
<1>2. LockInv /\ [Next]_vars =>
        [\A a \in Agents : \A t \in Tasks :
          (/\ pc[t] = "delete"
           /\ frame[t].call.op = "evict_stale_agents"
           /\ frame[t].agent = a
           /\ pc'[t] # pc[t]
           /\ store[a] # store'[a])
          => store[a].updated + MaxAge < frame[t].now]_vars
  BY StepSparesTheFresh
<1>. QED  BY <1>1, <1>2, InitLocks, PTL DEF Spec, EvictionSparesTheFresh
-----------------------------------------------------------------------------
(* What the store holds while t imports: nothing of what was wiped, and what
   was loaded. *)
Importing(records, p, f) ==
    /\ p = "wipe" => \A a \in Agents \ f.todo : records[a] = NoRecord
    /\ p = "load" =>
         /\ f.todo \subseteq Included(f.call.snapshot)
         /\ \A a \in Agents \ f.todo :
               f.call.replace \/ f.call.snapshot[a] # NoRecord =>
                   records[a] = f.call.snapshot[a]

ImportInv ==
    /\ LockInv
    /\ \A t \in Tasks : /\ pc[t] # "idle" => frame[t].call.op # "deregister_agent"
                        /\ Importing(store, pc[t], frame[t])

(* Nobody calls deregister_agent, which deletes without the asyncio lock. *)
NobodyDeregisters == \A c \in Requests : c.op # "deregister_agent"

LEMMA GotoKeepsImports ==
    ASSUME ImportInv, LockInv', NEW t \in Tasks, NEW phase, NEW f, Goto(t, phase, f),
           store' = store \/ lock = t,
           phase # "idle" => f.call.op # "deregister_agent" /\ Importing(store', phase, f)
    PROVE  ImportInv'
PROOF
<1>1. /\ pc'[t] = phase /\ frame'[t] = (IF phase = "idle" THEN Blank ELSE f)
      /\ \A s \in Tasks \ {t} : pc'[s] = pc[s] /\ frame'[s] = frame[s]
  BY GotoMoves DEF ImportInv, LockInv
<1>2. /\ pc'[t] # "idle" => frame'[t].call.op # "deregister_agent"
      /\ Importing(store', pc'[t], frame'[t])
  BY <1>1 DEF Importing
<1>3. ASSUME NEW s \in Tasks \ {t}
      PROVE  /\ pc'[s] # "idle" => frame'[s].call.op # "deregister_agent"
             /\ Importing(store', pc'[s], frame'[s])
  <2>1. Importing(store, pc[s], frame[s]) /\ (pc[s] \in {"wipe", "load"} => lock = s)
    BY LockFacts DEF ImportInv, Locked
  <2>2. Importing(store', pc[s], frame[s])
    BY <2>1 DEF Importing
  <2>. QED  BY <1>1, <2>2 DEF ImportInv
<1>. QED  BY <1>2, <1>3 DEF ImportInv

(* Only the entry of the lock and the import itself lead to its loops. *)
LEMMA LeavesImports ==
    ASSUME TypeInv, NEW t \in Tasks, StepOf(t), ~(Invoke(t) \/ Acquire(t) \/ Peek(t)),
           ~(ImportList(t) \/ ImportWipe(t) \/ ImportLoad(t))
    PROVE  \E phase, g : /\ Goto(t, phase, g) /\ phase \notin {"wipe", "load"}
                         /\ phase # "idle" => g.call = frame[t].call
PROOF
<1>. DEFINE f == frame[t]
            Leaves == \E phase, g : /\ Goto(t, phase, g) /\ phase \notin {"wipe", "load"}
                                    /\ phase # "idle" => g.call = f.call
<1>1. f \in Frame
  BY FrameFacts
<1>2. ASSUME NEW x, NEW g, \/ g = [f EXCEPT !.outbox = x] \/ g = [f EXCEPT !.trail = x]
                           \/ g = [f EXCEPT !.done = x],
             NEW phase, phase \notin {"wipe", "load"}, Goto(t, phase, g)
      PROVE  Leaves
  <2>1. g.call = f.call
    BY <1>1, <1>2 DEF Frame
  <2>. QED  BY <1>2, <2>1
<1>3. ASSUME NEW x, NEW y, NEW g, g = [f EXCEPT !.read = x, !.local = y],
             NEW phase, phase \notin {"wipe", "load"}, Goto(t, phase, g)
      PROVE  Leaves
  <2>1. g.call = f.call
    BY <1>1, <1>3 DEF Frame
  <2>. QED  BY <1>3, <2>1
<1>4. ASSUME NEW phase, phase \notin {"wipe", "load"}, Goto(t, phase, f)
      PROVE  Leaves
  BY <1>4
<1>5. ASSUME NEW ids, NEW phase, phase \notin {"wipe", "load"}, Goto(t, phase, Auditing(f, ids))
      PROVE  Leaves
  <2>1. Auditing(f, ids).call = f.call
    BY <1>1 DEF Auditing, Frame
  <2>. QED  BY <1>5, <2>1
<1>6. \A g : Resume(g) \notin {"wipe", "load"}
  BY DEF Resume
<1>7. CASE ListAgents(t) \/ NextAgent(t) \/ ExportRecord(t)
  <2>1. CASE ListAgents(t)
    <3>. DEFINE g == [f EXCEPT !.todo = StoredIds, !.now = clock]
    <3>1. g.call = f.call
      BY <1>1 DEF Frame
    <3>2. Goto(t, "next", g)
      BY <2>1 DEF ListAgents
    <3>. HIDE DEF g
    <3>. QED  BY <3>1, <3>2
  <2>2. ASSUME NEW a, NEW left, Visit(t, f, a, left)
        PROVE  Leaves
    <3>. DEFINE phase == IF f.call.op = "export_snapshot" THEN "export" ELSE "wait"
                g == [f EXCEPT !.agent = a, !.todo = left, !.read = NoRecord,
                               !.local = NoRecord, !.trail = << >>]
    <3>1. g.call = f.call
      BY <1>1 DEF Frame
    <3>2. Goto(t, phase, g) /\ phase \notin {"wipe", "load"}
      BY <2>2 DEF Visit
    <3>. HIDE DEF g, phase
    <3>. QED  BY <3>1, <3>2
  <2>3. CASE NextAgent(t)
    <3>1. CASE \E a \in f.todo : Visit(t, f, a, f.todo \ {a})
      BY <2>2, <3>1
    <3>2. CASE Goto(t, "audit", Auditing(f, f.done))
      BY <1>5, <3>2
    <3>3. CASE Goto(t, "idle", f)
      BY <1>4, <3>3
    <3>. QED  BY <2>3, <3>1, <3>2, <3>3 DEF NextAgent
  <2>4. CASE ExportRecord(t)
    <3>1. CASE store[f.agent] = NoRecord
      BY <1>4, <2>4, <3>1 DEF ExportRecord
    <3>2. CASE store[f.agent] # NoRecord
      <4>. DEFINE so == Append(f.done, f.agent)
                  g == [f EXCEPT !.done = so]
      <4>1. Goto(t, "next", g)
        BY <2>4, <3>2 DEF ExportRecord
      <4>2. g.call = f.call
        BY <1>1 DEF Frame
      <4>. HIDE DEF g
      <4>. QED  BY <4>1, <4>2
    <3>. QED  BY <3>1, <3>2
  <2>. QED  BY <1>7, <2>1, <2>3, <2>4
<1>8. CASE GetForUpdate(t) \/ GetForFlag(t) \/ GetForNothing(t) \/ GetAndLeave(t)
  <2>1. CASE GetForUpdate(t)
    <3>. DEFINE rec == store[f.agent]
                new == Outcome(f.call, f.agent, rec, Stamp(f))
                phase == IF new = NoRecord THEN "delete" ELSE "put"
    <3>1. Goto(t, phase, [f EXCEPT !.read = rec, !.local = new]) /\ phase \notin {"wipe", "load"}
      BY <2>1 DEF GetForUpdate, Updating
    <3>. HIDE DEF rec, new, phase
    <3>. QED  BY <1>3, <3>1
  <2>2. CASE GetForFlag(t)
    <3>. DEFINE rec == store[f.agent]
                new == Outcome(f.call, f.agent, rec, clock)
    <3>1. Goto(t, "reflag", [f EXCEPT !.read = rec, !.local = new])
      BY <2>2 DEF GetForFlag
    <3>2. "reflag" \notin {"wipe", "load"}
      OBVIOUS
    <3>. HIDE DEF rec, new
    <3>. QED  BY <1>3, <3>1, <3>2
  <2>3. CASE GetForNothing(t)
    <3>. DEFINE g == [f EXCEPT !.read = store[f.agent], !.local = OrNew(store[f.agent], clock)]
                es == <<Announce("trust_updated", g)>>
                h == [g EXCEPT !.outbox = es]
    <3>1. h.call = f.call
      BY <1>1 DEF Frame
    <3>2. Goto(t, "emit", h)
      BY <2>3 DEF GetForNothing
    <3>. HIDE DEF h
    <3>. QED  BY <3>1, <3>2
  <2>4. CASE GetAndLeave(t)
    BY <1>4, <1>6, <2>4 DEF GetAndLeave
  <2>. QED  BY <1>8, <2>1, <2>2, <2>3, <2>4
<1>9. CASE PutEvidence(t) \/ PutAndAnnounce(t) \/ PutFlag(t) \/ PutAdmin(t) \/ Delete(t)
  <2>1. CASE PutAndAnnounce(t)
    <3>. DEFINE type == IF f.call.op \in {"register_agent", "register_authority"}
                        THEN "agent_registered" ELSE "trust_updated"
                es == <<Announce(type, f)>>
    <3>1. Goto(t, "emit", [f EXCEPT !.outbox = es])
      BY <2>1 DEF PutAndAnnounce, Announcing
    <3>. HIDE DEF es
    <3>. QED  BY <1>2, <3>1
  <2>2. CASE PutEvidence(t) \/ PutFlag(t)
    BY <1>4, <2>2 DEF PutEvidence, PutFlag
  <2>3. CASE PutAdmin(t)
    BY <1>5, <2>3 DEF PutAdmin
  <2>4. CASE Delete(t)
    BY <1>4, <1>5, <1>6, <2>4 DEF Delete
  <2>. QED  BY <1>9, <2>1, <2>2, <2>3, <2>4
<1>10. CASE JournalEvidence(t) \/ JournalDiscounted(t) \/ Emit(t) \/ Audit(t)
  <2>1. CASE JournalEvidence(t)
    <3>. DEFINE es == <<Announce("evidence_submitted", f), Announce("trust_updated", f)>>
                      \o Crossing(f)
    <3>1. Goto(t, "emit", [f EXCEPT !.outbox = es])
      BY <2>1 DEF JournalEvidence
    <3>. HIDE DEF es
    <3>. QED  BY <1>2, <3>1
  <2>2. CASE JournalDiscounted(t)
    BY <1>4, <2>2 DEF JournalDiscounted
  <2>3. CASE Emit(t)
    <3>1. PICK phase : phase \notin {"wipe", "load"}
                       /\ Goto(t, phase, [f EXCEPT !.outbox = Tail(f.outbox)])
      BY <1>6, <2>3 DEF Emit
    <3>. QED  BY <1>2, <3>1
  <2>4. CASE Audit(t)
    <3>1. PICK phase : phase \notin {"wipe", "load"}
                       /\ Goto(t, phase, [f EXCEPT !.trail = Tail(f.trail)])
      BY <2>4 DEF Audit
    <3>. QED  BY <1>2, <3>1
  <2>. QED  BY <1>10, <2>1, <2>2, <2>3, <2>4
<1>11. CASE Fault(t) \/ LostReply(t)
  BY <1>4, <1>11 DEF Fault, LostReply
<1>. QED  BY <1>7, <1>8, <1>9, <1>10, <1>11 DEF StepOf, Continue

(* Who changes the store holds the lock. *)
LEMMA ChangesHoldLock ==
    ASSUME ImportInv, NEW t \in Tasks, StepOf(t)
    PROVE  store' = store \/ lock = t
PROOF
<1>1. pc[t] \in {"put", "delete", "wipe", "load"} => lock = t
  BY LockFacts DEF ImportInv, InLock, Locked
<1>2. CASE UNCHANGED store
  BY <1>2
<1>3. CASE pc[t] \in {"put", "delete", "wipe", "load"}
  BY <1>1, <1>3
<1>. QED  BY <1>2, <1>3 DEF StepOf, Continue, Invoke, Acquire, Enter, Peek, ListAgents, NextAgent,
                ExportRecord, GetForUpdate, Updating, GetForFlag, GetForNothing, GetAndLeave,
                PutEvidence, PutAndAnnounce, Announcing, PutFlag, PutAdmin, Write, Delete,
                ImportList, ImportWipe, ImportLoad, JournalEvidence, JournalDiscounted, Emit,
                Audit, Fault, LostReply

LEMMA StepImporting ==
    ASSUME NobodyDeregisters, ImportInv, LockInv', NEW t \in Tasks, StepOf(t)
    PROVE  ImportInv'
PROOF
<1>. DEFINE f == frame[t]
            c == f.call
<1>0. /\ TypeInv /\ f \in Frame /\ f.todo \subseteq Agents
      /\ store \in [Agents -> Record \cup {NoRecord}]
      /\ pc[t] # "idle" => c.op # "deregister_agent"
      /\ Importing(store, pc[t], f)
      /\ store' = store \/ lock = t
  BY ChangesHoldLock, FrameFacts DEF ImportInv, LockInv, DataOK
<1>1. CASE Invoke(t)
  <2>1. PICK d \in Requests :
          Goto(t, FirstAwait(d),
               [Blank EXCEPT !.call = d, !.id = started + 1,
                             !.agent = IF d.op \in Bulk THEN Admin ELSE d.agent])
    BY <1>1 DEF Invoke
  <2>. DEFINE g == [Blank EXCEPT !.call = d, !.id = started + 1,
                                 !.agent = IF d.op \in Bulk THEN Admin ELSE d.agent]
              phase == FirstAwait(d)
  <2>2. g.call = d /\ d.op # "deregister_agent"
    BY DEF Blank, NobodyDeregisters
  <2>3. phase \notin {"wipe", "load"}
    BY DEF FirstAwait
  <2>. HIDE DEF g, phase
  <2>4. Goto(t, phase, g) /\ Importing(store', phase, g)
    BY <2>1, <2>3 DEF g, phase, Importing
  <2>. QED  BY <1>0, <2>2, <2>4, GotoKeepsImports
<1>2. CASE Peek(t)
  <2>. DEFINE d == Submission(c, store[c.by])
              g == [f EXCEPT !.call = d]
  <2>1. g.call = d
    BY <1>0 DEF Frame
  <2>2. d.op # "deregister_agent"
    BY DEF Submission
  <2>3. Goto(t, "wait", g)
    BY <1>2 DEF Peek
  <2>. HIDE DEF g
  <2>4. Importing(store', "wait", g)
    BY DEF Importing
  <2>. QED  BY <1>0, <2>1, <2>2, <2>3, <2>4, GotoKeepsImports
<1>3. ASSUME NEW left \in SUBSET Agents, NEW g, g = [f EXCEPT !.todo = left]
      PROVE  g.call = c /\ g.todo = left
  BY <1>0, <1>3 DEF Frame
<1>4. CASE Acquire(t)
  <2>1. CASE \E phase \in {"put", "get", "ids"} : Goto(t, phase, f)
    BY <1>0, <1>4, <2>1, GotoKeepsImports DEF Importing, Acquire, Enter
  <2>2. CASE /\ pc[t] = "wait" /\ ~c.replace
             /\ Goto(t, "load", [f EXCEPT !.todo = Included(c.snapshot)])
    <3>. DEFINE left == Included(c.snapshot)
                g == [f EXCEPT !.todo = left]
    <3>1. left \in SUBSET Agents
      BY DEF Included
    <3>2. g.call = c /\ g.todo = left
      BY <1>3, <3>1
    <3>. HIDE DEF g
    <3>3. Importing(store', "load", g)
      BY <2>2, <3>2 DEF Importing, Included
    <3>. QED  BY <1>0, <2>2, <3>2, <3>3, GotoKeepsImports DEF g
  <2>. QED  BY <1>4, <2>1, <2>2 DEF Acquire, Enter
<1>5. CASE ImportList(t)
  <2>. DEFINE g == [f EXCEPT !.todo = StoredIds]
  <2>1. g.call = c /\ g.todo = StoredIds
    BY <1>3 DEF StoredIds, Included
  <2>2. Goto(t, "wipe", g) /\ UNCHANGED store /\ pc[t] = "ids"
    BY <1>5 DEF ImportList
  <2>. HIDE DEF g
  <2>3. Importing(store', "wipe", g)
    BY <2>1, <2>2 DEF Importing, StoredIds, Included
  <2>. QED  BY <1>0, <2>1, <2>2, <2>3, GotoKeepsImports
<1>6. CASE ImportWipe(t)
  <2>0. pc[t] = "wipe" /\ \A a \in Agents \ f.todo : store[a] = NoRecord
    BY <1>0, <1>6 DEF ImportWipe, Importing
  <2>1. ASSUME NEW a \in f.todo, store' = [store EXCEPT ![a] = NoRecord],
               Goto(t, "wipe", [f EXCEPT !.todo = @ \ {a}])
        PROVE  ImportInv'
    <3>. DEFINE g == [f EXCEPT !.todo = f.todo \ {a}]
    <3>1. g.call = c /\ g.todo = f.todo \ {a}
      BY <1>0, <1>3
    <3>2. Goto(t, "wipe", g)
      BY <2>1
    <3>. HIDE DEF g
    <3>3. Importing(store', "wipe", g)
      BY <1>0, <2>0, <2>1, <3>1 DEF Importing
    <3>. QED  BY <1>0, <2>0, <3>1, <3>2, <3>3, GotoKeepsImports
  <2>2. CASE /\ f.todo = {} /\ UNCHANGED store
             /\ Goto(t, "load", [f EXCEPT !.todo = Included(f.call.snapshot)])
    <3>. DEFINE left == Included(c.snapshot)
                g == [f EXCEPT !.todo = left]
    <3>1. g.call = c /\ g.todo = left
      BY <1>3 DEF Included
    <3>. HIDE DEF g
    <3>2. Importing(store', "load", g)
      BY <2>0, <2>2, <3>1 DEF Importing, Included
    <3>. QED  BY <1>0, <2>0, <2>2, <3>1, <3>2, GotoKeepsImports DEF g
  <2>. QED  BY <1>6, <2>1, <2>2 DEF ImportWipe
<1>7. CASE ImportLoad(t)
  <2>0. /\ pc[t] = "load" /\ f.todo \subseteq Included(c.snapshot)
        /\ \A a \in Agents \ f.todo :
              c.replace \/ c.snapshot[a] # NoRecord => store[a] = c.snapshot[a]
    BY <1>0, <1>7 DEF ImportLoad, Importing
  <2>1. ASSUME NEW a \in f.todo, store' = [store EXCEPT ![a] = f.call.snapshot[a]],
               Goto(t, "load", [f EXCEPT !.todo = @ \ {a}, !.done = Append(@, a)])
        PROVE  ImportInv'
    <3>. DEFINE so == Append(f.done, a)
                g == [f EXCEPT !.todo = f.todo \ {a}, !.done = so]
    <3>1. g.call = c /\ g.todo = f.todo \ {a}
      BY <1>0 DEF Frame
    <3>2. Goto(t, "load", g)
      BY <2>1
    <3>. HIDE DEF g
    <3>3. Importing(store', "load", g)
      BY <1>0, <2>0, <2>1, <3>1 DEF Importing
    <3>. QED  BY <1>0, <2>0, <3>1, <3>2, <3>3, GotoKeepsImports
  <2>2. CASE Goto(t, "audit", Auditing(f, f.done))
    <3>1. Auditing(f, f.done).call = c
      BY <1>0 DEF Auditing, Frame
    <3>2. Importing(store', "audit", Auditing(f, f.done))
      BY DEF Importing
    <3>. QED  BY <1>0, <2>0, <2>2, <3>1, <3>2, GotoKeepsImports
  <2>. QED  BY <1>7, <2>1, <2>2 DEF ImportLoad
<1>8. CASE /\ ~(Invoke(t) \/ Acquire(t) \/ Peek(t))
           /\ ~(ImportList(t) \/ ImportWipe(t) \/ ImportLoad(t))
  <2>1. PICK phase, g : /\ Goto(t, phase, g) /\ phase \notin {"wipe", "load"}
                        /\ phase # "idle" => g.call = c
    BY <1>0, <1>8, LeavesImports
  <2>2. Importing(store', phase, g)
    BY <2>1 DEF Importing
  <2>3. CASE pc[t] # "idle"
    BY <1>0, <2>1, <2>2, <2>3, GotoKeepsImports
  <2>4. CASE Fault(t)
    BY <1>0, <2>4, GotoKeepsImports DEF Fault, Importing
  <2>. QED  BY <1>8, <2>3, <2>4, CallsRun
<1>. QED  BY <1>1, <1>2, <1>4, <1>5, <1>6, <1>7, <1>8

LEMMA StepImports ==
    ASSUME NobodyDeregisters
    PROVE  ImportInv /\ [Next]_vars => ImportInv'
PROOF
<1>. SUFFICES ASSUME ImportInv, [Next]_vars PROVE ImportInv'
  OBVIOUS
<1>1. LockInv'
  BY StepLocks DEF ImportInv
<1>2. CASE Tick \/ Rest \/ UNCHANGED vars
  BY <1>1, <1>2 DEF Tick, Rest, vars, ImportInv, Importing
<1>3. ASSUME NEW t \in Tasks, StepOf(t)
      PROVE  ImportInv'
  BY <1>1, <1>3, StepImporting
<1>. QED  BY <1>2, <1>3 DEF Next, StepOf

(* The last record is in: what is in the store is in the snapshot. *)
LEMMA ImportsEnd ==
    ASSUME ImportInv, [Next]_vars, NEW t \in Tasks, pc[t] = "load", pc'[t] = "audit",
           NEW a \in Agents,
           frame[t].call.replace \/ frame[t].call.snapshot[a] # NoRecord
    PROVE  store[a] = frame[t].call.snapshot[a]
PROOF
<1>1. StepOf(t) /\ TypeInv
  BY OwnStep DEF ImportInv, LockInv
<1>2. ImportLoad(t) \/ Fault(t)
  BY <1>1 DEF StepOf, Continue, Invoke, Acquire, Enter, Peek, ListAgents, NextAgent,
              ExportRecord, GetForUpdate, Updating, GetForFlag, GetForNothing, GetAndLeave,
              PutEvidence, PutAndAnnounce, Announcing, PutFlag, PutAdmin, Write, Delete,
              ImportList, ImportWipe, JournalEvidence, JournalDiscounted, Emit, Audit, LostReply
<1>3. \A g : ~Goto(t, "idle", g) /\ ~Goto(t, "load", g)
  BY <1>1, GotoMoves
<1>4. frame[t].todo = {}
  BY <1>2, <1>3 DEF ImportLoad, Fault
<1>. QED  BY <1>4 DEF ImportInv, Importing

(* Unless someone calls deregister_agent, which deletes without the asyncio
   lock, an import that ends has installed its snapshot, whatever else is
   called meanwhile and wherever an await raises. *)
THEOREM ImportsInstallSnapshots ==
    ASSUME NobodyDeregisters
    PROVE  Spec => ImportInstallsSnapshot
PROOF
<1>1. Init => ImportInv
  BY InitLocks DEF Init, ImportInv, Importing
<1>2. ImportInv /\ [Next]_vars => ImportInv'
  BY StepImports
<1>3. ImportInv /\ [Next]_vars =>
        [\A t \in Tasks :
          LET c == frame[t].call IN
          (pc[t] = "load" /\ pc'[t] = "audit") =>
             \A a \in Agents :
                (c.replace \/ c.snapshot[a] # NoRecord) => store[a] = c.snapshot[a]]_vars
  BY ImportsEnd
<1>. QED  BY <1>1, <1>2, <1>3, PTL DEF Spec, ImportInstallsSnapshot
-----------------------------------------------------------------------------
(***************************************************************************)
(* The audit trail.                                                        *)
(***************************************************************************)

Targets(f) == {f.done[i] : i \in DOMAIN f.done}

(* The canonical entry of change x is among the entries. *)
Audited(entries, x) ==
    \E i \in DOMAIN entries :
       /\ entries[i].type = "admin"
       /\ entries[i].call = x.call
       /\ entries[i].agent = Admin
       /\ x.agent \in entries[i].targets

(* A call at await p with locals f is going to write the entry of change x. *)
Pending(x, p, f) ==
    /\ f.id = x.call /\ x.agent \in Targets(f)
    /\ \/ p = "load"
       \/ p = "audit" /\ Head(f.trail) = Admin

AuditInv ==
    /\ LockInv
    /\ \A x \in applied : x.op \in AdminOps =>
          Audited(ledger, x) \/ \E t \in Tasks : Pending(x, pc[t], frame[t])

(* No administrative change is lost between the store and the trail, and none
   is made for ids that the trail does not name. *)
NoAuditLost == Faults \cap {"put", "delete", "load", "audit"} = {}

NobodyReplaces == \A c \in Requests : c.op = "import_snapshot" => ~c.replace

LEMMA AuditedStays ==
    ASSUME TypeInv, NEW x, Audited(ledger, x),
           UNCHANGED ledger \/ \E e : ledger' = Append(ledger, e)
    PROVE  Audited(ledger', x)
PROOF
<1>1. ledger \in Seq(Entry)
  BY DEF TypeInv, TypeOK
<1>2. \A i \in DOMAIN ledger : i \in DOMAIN ledger' /\ ledger'[i] = ledger[i]
  BY <1>1
<1>. QED  BY <1>2 DEF Audited

LEMMA AuditedNow ==
    ASSUME TypeInv, NEW x, NEW e \in Entry, ledger' = Append(ledger, e),
           e.type = "admin", e.call = x.call, e.agent = Admin, x.agent \in e.targets
    PROVE  Audited(ledger', x)
PROOF
<1>. DEFINE n == Len(ledger) + 1
<1>1. ledger \in Seq(Entry)
  BY DEF TypeInv, TypeOK
<1>2. n \in DOMAIN ledger' /\ ledger'[n] = e
  BY <1>1
<1>. HIDE DEF n
<1>. QED  BY <1>2 DEF Audited

(* What a call is about to audit. *)
LEMMA AuditingTargets ==
    ASSUME NEW f \in Frame, NEW ids \in Seq(Agents)
    PROVE  LET g == Auditing(f, ids) IN
           g.id = f.id /\ Targets(g) = {ids[i] : i \in DOMAIN ids} /\ Head(g.trail) = Admin
PROOF
<1>. DEFINE trail == <<Admin>> \o ids
            g == [f EXCEPT !.done = ids, !.trail = trail]
<1>1. Head(trail) = Admin
  <2>1. <<Admin>> \in Seq(Agents \cup {Admin}) /\ ids \in Seq(Agents \cup {Admin})
    OBVIOUS
  <2>2. Len(trail) = 1 + Len(ids) /\ trail[1] = Admin /\ trail \in Seq(Agents \cup {Admin})
    BY <2>1
  <2>3. Len(ids) \in Nat
    OBVIOUS
  <2>. HIDE DEF trail
  <2>4. trail # << >>
    BY <2>2, <2>3
  <2>. QED  BY <2>2, <2>4
<1>. HIDE DEF trail
<1>2. g.id = f.id /\ g.done = ids /\ g.trail = trail
  BY DEF Frame
<1>. HIDE DEF g
<1>3. Auditing(f, ids) = g
  BY DEF Auditing, g, trail
<1>. QED  BY <1>1, <1>2, <1>3 DEF Targets

(* The administrative calls leave a record, but for deregister_authority. *)
LEMMA AdminsDelete ==
    ASSUME LockInv, NEW t \in Tasks, pc[t] = "delete", frame[t].call.op \in AdminOps
    PROVE  frame[t].call.op = "deregister_authority"
PROOF
<1>. DEFINE f == frame[t]
<1>1. f.call.op \notin {"deregister_agent", "register_authority", "evict_stale_agents"}
  BY DEF AdminOps
<1>2. Computed(f) /\ f.local = NoRecord
  BY <1>1, LockFacts DEF Sound, Flags
<1>3. f.call \in Call /\ f.agent \in Agents /\ f.read \in Record \cup {NoRecord}
  BY FrameFacts DEF LockInv, FrameFits
<1>4. f.call.op \notin {"observe", "export_snapshot", "import_snapshot"}
  BY DEF AdminOps
<1>5. f.local \in Record \/ f.call.op \in {"deregister_agent", "deregister_authority",
                                          "evict_stale_agents"}
  BY <1>2, <1>3, <1>4, OutcomeIsRecord DEF Computed
<1>. QED  BY <1>1, <1>2, <1>5, NoRecordIsNone

(* A call that is going to audit a change goes on to do so. *)
LEMMA PendingStays ==
    ASSUME NoAuditLost, LockInv, NEW t \in Tasks, StepOf(t), NEW x, Pending(x, pc[t], frame[t])
    PROVE  Audited(ledger', x) \/ Pending(x, pc'[t], frame'[t])
PROOF
<1>. DEFINE f == frame[t]
<1>1. /\ f \in Frame /\ f.id \in Nat /\ f.done \in Seq(Agents) /\ TypeInv
      /\ f.id = x.call /\ x.agent \in Targets(f)
      /\ \/ pc[t] = "load"
         \/ pc[t] = "audit" /\ Head(f.trail) = Admin
  BY FrameFacts DEF Pending, LockInv
<1>2. Targets(f) \in SUBSET Agents
  BY <1>1 DEF Targets
<1>3. CASE Audit(t)
  <2>. DEFINE e == AdminEntry(f, Admin)
  <2>1. Head(f.trail) = Admin
    BY <1>1, <1>3 DEF Audit
  <2>2. ledger' = Append(ledger, e)
    BY <1>3, <2>1 DEF Audit
  <2>3. e = [type |-> "admin", agent |-> Admin, call |-> f.id, targets |-> Targets(f)]
    BY DEF AdminEntry, Targets
  <2>4. e \in Entry
    BY <1>1, <1>2, <2>3 DEF Entry
  <2>5. e.type = "admin" /\ e.call = x.call /\ e.agent = Admin /\ x.agent \in e.targets
    BY <1>1, <2>3
  <2>. HIDE DEF e
  <2>. QED  BY <1>1, <2>2, <2>4, <2>5, AuditedNow
<1>4. CASE ImportLoad(t)
  <2>1. ASSUME NEW a \in f.todo,
               Goto(t, "load", [f EXCEPT !.todo = @ \ {a}, !.done = Append(@, a)])
        PROVE  Pending(x, pc'[t], frame'[t])
    <3>. DEFINE so == Append(f.done, a)
                g == [f EXCEPT !.todo = f.todo \ {a}, !.done = so]
    <3>1. \A i \in DOMAIN f.done : i \in DOMAIN so /\ so[i] = f.done[i]
      BY <1>1
    <3>. HIDE DEF so
    <3>2. g.id = f.id /\ g.done = so
      BY <1>1 DEF Frame
    <3>3. Goto(t, "load", g)
      BY <2>1 DEF so
    <3>. HIDE DEF g
    <3>4. Targets(f) \subseteq Targets(g)
      BY <3>1, <3>2 DEF Targets
    <3>5. pc'[t] = "load" /\ frame'[t] = g
      BY <1>1, <3>3, GotoMoves
    <3>. QED  BY <1>1, <3>2, <3>4, <3>5 DEF Pending
  <2>2. CASE Goto(t, "audit", Auditing(f, f.done))
    <3>. DEFINE g == Auditing(f, f.done)
    <3>1. g.id = f.id /\ Targets(g) = Targets(f) /\ Head(g.trail) = Admin
      BY <1>1, AuditingTargets DEF Targets
    <3>. HIDE DEF g
    <3>2. pc'[t] = "audit" /\ frame'[t] = g
      BY <1>1, <2>2, GotoMoves DEF g
    <3>. QED  BY <1>1, <3>1, <3>2 DEF Pending
  <2>. QED  BY <1>4, <2>1, <2>2 DEF ImportLoad
<1>5. Audit(t) \/ ImportLoad(t)
  BY <1>1 DEF NoAuditLost, StepOf, Continue, Invoke, Acquire, Enter, Peek, ListAgents, NextAgent,
              ExportRecord, GetForUpdate, Updating, GetForFlag, GetForNothing, GetAndLeave,
              PutEvidence, PutAndAnnounce, Announcing, PutFlag, PutAdmin, Write, Delete,
              ImportList, ImportWipe, JournalEvidence, JournalDiscounted, Emit, Fault, LostReply
<1>. QED  BY <1>3, <1>4, <1>5

(* The ledger is only appended to. *)
LEMMA LedgerAppends ==
    ASSUME NEW t \in Tasks, StepOf(t)
    PROVE  UNCHANGED ledger \/ \E e : ledger' = Append(ledger, e)
PROOF BY DEF StepOf, Continue, Invoke, Acquire, Enter, Peek, ListAgents, NextAgent,
             ExportRecord, GetForUpdate, Updating, GetForFlag, GetForNothing, GetAndLeave,
             PutEvidence, PutAndAnnounce, Announcing, PutFlag, PutAdmin, Write, Delete,
             ImportList, ImportWipe, ImportLoad, JournalEvidence, JournalDiscounted, Emit, Audit,
             Fault, LostReply

(* A call that makes an administrative change goes on to audit it. *)
LEMMA ChangeIsPending ==
    ASSUME NoAuditLost, NobodyReplaces, LockInv, NEW t \in Tasks, StepOf(t),
           NEW x \in applied' \ applied, x.op \in AdminOps
    PROVE  Pending(x, pc'[t], frame'[t])
PROOF
<1>. DEFINE f == frame[t]
<1>1. TypeInv /\ f \in Frame /\ f.done \in Seq(Agents)
  BY FrameFacts DEF LockInv
<1>2. ASSUME NEW op, NEW a, Applied(f, op, a)
      PROVE  x.call = f.id /\ x.op = op /\ x.agent = a
  BY <1>2 DEF Applied
<1>3. ASSUME x.call = f.id, x.agent \in Agents, Goto(t, "audit", Auditing(f, <<x.agent>>))
      PROVE  Pending(x, pc'[t], frame'[t])
  <2>. DEFINE ids == <<x.agent>>
              g == Auditing(f, ids)
  <2>1. ids \in Seq(Agents) /\ {ids[i] : i \in DOMAIN ids} = {x.agent}
    BY <1>3
  <2>. HIDE DEF ids
  <2>2. g.id = f.id /\ Targets(g) = {x.agent} /\ Head(g.trail) = Admin
    BY <1>1, <2>1, AuditingTargets
  <2>. HIDE DEF g
  <2>3. pc'[t] = "audit" /\ frame'[t] = g
    BY <1>1, <1>3, GotoMoves DEF g, ids
  <2>. QED  BY <1>3, <2>2, <2>3 DEF Pending
<1>4. CASE PutAdmin(t)
  <2>1. x.call = f.id /\ x.agent = f.agent /\ f.agent \in Agents
    BY <1>2, <1>4, WriteLocks DEF PutAdmin, Write
  <2>. QED  BY <1>3, <1>4, <2>1 DEF PutAdmin
<1>5. CASE Delete(t)
  <2>1. /\ pc[t] = "delete" /\ f.agent \in Agents /\ x.call = f.id /\ x.agent = f.agent
        /\ x.op = f.call.op /\ store[f.agent] # NoRecord
    <3>1. store[f.agent] # NoRecord /\ Applied(f, f.call.op, f.agent)
      BY <1>5 DEF Delete
    <3>2. pc[t] = "delete" /\ f.agent \in Agents
      BY <1>1, <1>5, FrameFacts DEF Delete, FrameFits
    <3>. QED  BY <1>2, <3>1, <3>2
  <2>2. f.call.op = "deregister_authority"
    BY <2>1, AdminsDelete
  <2>. QED  BY <1>3, <1>5, <2>1, <2>2 DEF Delete
<1>6. CASE ImportLoad(t)
  <2>1. PICK a \in f.todo :
          /\ Applied(f, "load", a)
          /\ Goto(t, "load", [f EXCEPT !.todo = @ \ {a}, !.done = Append(@, a)])
    BY <1>6 DEF ImportLoad
  <2>. DEFINE so == Append(f.done, a)
              g == [f EXCEPT !.todo = f.todo \ {a}, !.done = so]
  <2>2. a \in {so[i] : i \in DOMAIN so}
    <3>1. Len(f.done) + 1 \in DOMAIN so /\ so[Len(f.done) + 1] = a
      BY <1>1
    <3>. HIDE DEF so
    <3>. QED  BY <3>1
  <2>. HIDE DEF so
  <2>3. g.id = f.id /\ g.done = so
    BY <1>1 DEF Frame
  <2>4. Goto(t, "load", g)
    BY <2>1 DEF so
  <2>. HIDE DEF g
  <2>5. pc'[t] = "load" /\ frame'[t] = g
    BY <1>1, <2>4, GotoMoves
  <2>6. x.call = f.id /\ x.agent = a
    BY <1>2, <2>1
  <2>. QED  BY <2>2, <2>3, <2>5, <2>6 DEF Pending, Targets
<1>7. CASE PutEvidence(t) \/ PutAndAnnounce(t) \/ PutFlag(t)
  <2>1. f.call.op \notin AdminOps /\ Applied(f, f.call.op, f.agent)
    BY <1>7 DEF PutEvidence, PutAndAnnounce, Announcing, PutFlag, Write, AdminOps, Submissions
  <2>. QED  BY <1>2, <2>1
<1>8. CASE ImportWipe(t)
  <2>1. pc[t] = "wipe"
    BY <1>8 DEF ImportWipe
  <2>2. f.call.op = "import_snapshot" /\ f.call.replace /\ f.call \in Requests
    <3>1. f.call.op = "import_snapshot"
      BY <1>1, <2>1, FrameFacts DEF FrameFits, ImportCall
    <3>. QED  BY <2>1, <3>1, LockFacts DEF Sound
  <2>. QED  BY <2>2 DEF NobodyReplaces
<1>9. CASE LostReply(t)
  BY <1>9 DEF LostReply, NoAuditLost
<1>10. CASE UNCHANGED applied
  BY <1>10
<1>. QED  BY <1>4, <1>5, <1>6, <1>7, <1>8, <1>9, <1>10
          DEF StepOf, Continue, Invoke, Acquire, Enter, Peek, ListAgents, NextAgent,
              ExportRecord, GetForUpdate, Updating, GetForFlag, GetForNothing, GetAndLeave,
              ImportList, JournalEvidence, JournalDiscounted, Emit, Audit, Fault

LEMMA StepAudit ==
    ASSUME NoAuditLost, NobodyReplaces
    PROVE  AuditInv /\ [Next]_vars => AuditInv'
PROOF
<1>. SUFFICES ASSUME AuditInv, [Next]_vars PROVE AuditInv'
  OBVIOUS
<1>1. LockInv /\ LockInv' /\ TypeInv
  BY StepLocks DEF AuditInv, LockInv
<1>2. CASE Tick \/ Rest \/ UNCHANGED vars
  BY <1>1, <1>2 DEF Tick, Rest, vars, AuditInv
<1>3. ASSUME NEW t \in Tasks, StepOf(t), NEW x \in applied', x.op \in AdminOps
      PROVE  Audited(ledger', x) \/ \E s \in Tasks : Pending(x, pc'[s], frame'[s])
  <2>1. CASE x \notin applied
    BY <1>1, <1>3, <2>1, ChangeIsPending
  <2>2. CASE Audited(ledger, x)
    BY <1>1, <1>3, <2>2, LedgerAppends, AuditedStays
  <2>3. ASSUME NEW s \in Tasks, Pending(x, pc[s], frame[s])
        PROVE  Audited(ledger', x) \/ Pending(x, pc'[s], frame'[s])
    <3>1. CASE s = t
      BY <1>1, <1>3, <2>3, <3>1, PendingStays
    <3>2. CASE s # t
      <4>1. PICK phase, f : Goto(t, phase, f)
        BY <1>3, EveryStepGoes
      <4>2. pc'[s] = pc[s] /\ frame'[s] = frame[s]
        BY <1>1, <3>2, <4>1, GotoMoves
      <4>. QED  BY <2>3, <4>2
    <3>. QED  BY <3>1, <3>2
  <2>. QED  BY <1>3, <2>1, <2>2, <2>3 DEF AuditInv
<1>4. ASSUME NEW t \in Tasks, StepOf(t)
      PROVE  AuditInv'
  BY <1>1, <1>3, <1>4 DEF AuditInv
<1>. QED  BY <1>2, <1>4 DEF Next, StepOf

(* Unless a commit or an entry of an administrative call is lost, or an
   import deletes what its snapshot does not hold, every change that an
   operator has made is in the audit trail when the call has returned. *)
THEOREM EffectsAreAudited ==
    ASSUME NoAuditLost, NobodyReplaces
    PROVE  Spec => []EveryEffectIsAudited
PROOF
<1>1. Init => AuditInv
  BY InitLocks DEF Init, AuditInv
<1>2. AuditInv /\ [Next]_vars => AuditInv'
  BY StepAudit
<1>3. AuditInv => EveryEffectIsAudited
  <2>1. ASSUME NEW x, NEW t \in Tasks, Pending(x, pc[t], frame[t])
        PROVE  Running(x.call)
    BY <2>1 DEF Pending, Running
  <2>. QED  BY <2>1 DEF AuditInv, EveryEffectIsAudited, Audited
<1>. QED  BY <1>1, <1>2, <1>3, PTL DEF Spec
=============================================================================
