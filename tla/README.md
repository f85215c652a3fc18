# multitrust in TLA+

multitrust keeps track of how far agents can be trusted. Evidence about an agent
is turned into *subjective-logic opinions* (belief, disbelief, uncertainty, base
rate), opinions are fused into the agent's record, records live in a trust store
shared by coroutines, threads or processes, and an evidence ledger remembers what
was submitted, so that a trust score can be explained later.

This directory models the parts of it where the order of things matters: which
awaits of which calls may interleave, what happens when one of them fails, what
the arithmetic makes of long sequences of legal calls, and what is concluded from
its results. Source paths below are relative to `src/src/multitrust/`, documents
to `src/`.

Contents: 1 Inventory · 2 Plan · 3 The modules and the code · 4 Runs · 5 Bounds ·
6 Fairness · 7 Proofs · 8 Where code and documents differ · 9 What is not modelled

## 1 Inventory

**Trust manager** (`manager/trust_manager.py`, `core/trust_record.py`). State: the
records in the store (opinion, totals of positive and negative evidence, number of
submissions, time of the last update, authority flag); an `asyncio.Lock`, and a
`threading.Lock` if the caller opts in. Operations: registration, submission of
evidence and of discounted opinions, merging of authorities' opinions, decay and
eviction sweeps, administrative resets, reseeds, snapshots and imports,
explanations. Each is a coroutine that reads a record, computes, writes it,
appends to the ledger and emits events, and may lose the processor at each of
these awaits. *Hard:* read-modify-write across awaits; sweeps that work from an
old list and an old clock; a failure between two of store, ledger and bus; methods
that do not keep the lock. *Correct when* every change of the store is one call
applied to the stored record; ledger, events and audit trail agree with the store;
sweeps spare what was refreshed; every call returns.

**Distributed authorities** (`manager/trust_authority.py`). No state of their own;
`observe` reads the authority's record without the lock and submits a discounted
opinion, or evidence if there is no discount. *Hard:* the authority may be
re-trusted or deleted in between. *Correct when* the submission is still one
atomic change.

**Opinion algebra** (`core/opinion.py`, `operators/`). Pure functions: mapping of
evidence, cumulative and averaging fusion, discount, decay. *Hard:* opinions
without uncertainty turn the formulas into 0/0, and the code replaces them by
limits. *Correct when* fusion ignores order, averages count nobody twice, base
rates stay between their operands', and no sequence of operations claims more than
the evidence supports.

**Explanations** (`explain_trust`, `core/explanation.py`). Reads record, entries
and summary at three moments, without the lock, and reconstructs the opinion at
the start of a window. *Hard:* the three reads see different states; bounded
ledgers evict; discounted and administrative changes cannot be replayed; evidence
is dated by whoever submits it; entries may never have been appended. *Correct
when* start and difference of the window add up to the movement, and the
attribution covers what the ledger was given or says it does not.

**Redis store** (`storage/redis_store.py`). One hash per agent, with a version;
Lua scripts compare and write. Shared by processes. *Hard:* conflicting writers,
retries, lost replies, deletion and re-creation. *Correct when* conditional
writers update atomically and all of them get through.

**SQLite store and ledger** (`storage/sqlite.py`, `storage/sqlite_ledger.py`). A
connection that the first call opens lazily; every write commits. *Hard:*
overlapping first calls; a transaction left open by a failure; closing with calls
in flight. *Correct when* what a call wrote when it returned is durable and
visible, and calls let each other through.

**In-memory store and ledger** (`storage/memory.py`, `storage/memory_ledger.py`).
A dictionary of live record objects; per-agent lists that may be bounded.

**Synchronous facade** (`manager/sync.py`). An event loop in a thread of its own;
callers block in `future.result()`. *Hard:* two kinds of lock, one of which stops
the loop's thread; closing while calls are in flight. *Correct when* changes are
serial, every call returns and `close` returns.

**Event bus** (`observability/events.py`). Handlers are awaited one after the
other inside the manager's lock. *Correct when* the last event tells the stored
state.

**Evidence collection** (`evidence/`). A list of rules, or a dictionary of
callbacks that may grow at any time. `collect` evaluates the rules one after the
other, or gathers the callbacks concurrently, and turns what they conclude into
evidence; `submit_batch` submits it. *Hard:* callbacks end in any order and are
added or replaced meanwhile; one that raises ends the collection; a schema is
checked when a rule is made, and interpreted when it judges. *Correct when* a
piece carries the name and the answer of its source, what is counted is a prefix
of what was collected, and rules judge as their schema says.

**Policies and timelines** (`manager/policy.py`, `manager/timeline.py`, and
`is_trusted`, `trust_timeline` and the decision of `explain_trust`). No state:
conclusions from the stored opinion. *Hard:* what is stored is decayed or not, as
sweeps happened to run; floor and ceiling interact. *Correct when* nobody is
admitted without counted evidence or by silence, and the estimate of the missing
evidence is one.

**Framework integrations** (`integrations/`). Decorators, hooks, callbacks, graph
nodes and edges, a selection middleware and MCP tools. They get trust, wait, let
an agent run, wait, and report. State: what is between these awaits, and the
scores in the state of a LangGraph graph. *Hard:* trust changes while they wait; a
report fails before or after it took effect; a cached score; a ranking read agent
by agent. *Correct when* whoever goes ahead was trusted during the call, what is
counted is what was earned, and an error that invites a repetition has changed
nothing, unless an application's own handler raised it.

**Evaluation harness** (`evaluation/`). Replays declared evidence with the
operators, without a manager. *Correct when* it computes what the manager does.

**Drift, configuration, observability.** See section 9.

`PROJECT.json` lists every component with its status and, under `hazards`, each
place where one of these things can go wrong, with the property that covers it.

## 2 Plan

Order, most important behaviour first. Items 1–10 exist.

1. `AtomicTrust`: what a shared trust store promises. Abstract; implemented by 2
   and 5.
2. `TrustRecords`, `TrustManager`, `MCTrustManager`: the calls on records, and
   their interleaving.
3. `TrustManager_proofs`: types, the refinement 2 ⇒ 1, and what calls leave behind
   in ledger, events and audit trail.
4. `Opinions`, `EvidenceAccount`: the algebra in exact arithmetic. Justifies the
   evidence counts that `MCTrustManager` and `Adapters` put in place of opinions.
5. `RedisStore`(`_proofs`): one key under concurrent clients, and 5 ⇒ 1.
6. `SyncManager`(`_proofs`), `SQLiteBackend`(`_proofs`): the two components with
   threads or connections.
7. `ExplainTrust`(`_proofs`): explanations over 4.
8. `Assessment`(`_proofs`): policies, timelines, the decision of `explain_trust`
   and the evaluation harness, over 4. The proofs are about 4 as well.
9. `Adapters`(`_proofs`): the framework integrations over atomic submissions (2).
10. `EvidenceResults`, `Collection`(`_proofs`): callbacks, rules and batches, over
    atomic submissions (2), for any rules; `EvidenceRules`, `RuleCollection`: the
    rules there are.

Still to be modelled:

11. The ledger protocol with filters and limits as an abstract log, and its two
    backends against it: `query(limit=n)` is the newest *n* in memory and the
    oldest *n* in SQLite; `admin_audit_log` depends on it.
12. The event bus with subscriptions and handlers that call the manager again.
13. The aliasing of the in-memory store's records; the Redis client's life cycle
    and SCAN; what `SyncTrustManager.__exit__` closes.

Every invariant and action property of the passing runs is proved (the type
invariant of the manager, too); liveness stays with TLC. Modules that theorems are
about use no RECURSIVE operator: what descends into a list or a schema is a
recursive function, and section 7 says how facts about these are proved.

## 3 The modules and the code

| Module | Models | State |
| --- | --- | --- |
| `AtomicTrust` | the promise "one call, one record, one step" | `store` |
| `TrustRecords` | which calls there are, when one changes a record (`Admits`) and what it leaves (`Outcome`) | none |
| `TrustManager` | the coroutines: one action per await | `clock`, `store`, `lock`, `ledger`, `events`, `pc`, `frame`; history `applied`, bound `started` |
| `Opinions` | opinions as fractions with a common denominator, the operators | none |
| `EvidenceAccount` | one record: submit, submit discounted, decay | `clock`, `record`; history `plain`, `taken`, `heard` |
| `Assessment` | what is concluded from that record, online and offline | history `said` |
| `Adapters` | adapters between awaits, on agents that are counts | `record`, `score`, `pc`, `frame`; history `since`, bound `started` |
| `EvidenceResults` | what a rule or a callback comes back with | none |
| `EvidenceRules` | five rules, the schema language, and what it should mean | none |
| `Collection` | collectors and batches, whatever rules conclude | `callbacks`, `stage`, `asked`, `answers`, `rules`, `evidence`, `next`, `counted`; bound `added` |
| `RuleCollection` | `Collection` with the rules of `EvidenceRules` | that of `Collection` |
| `RedisStore` | commands of clients on hashes | `hash`, `pc`, `saw`; history `deleted` |
| `SyncManager` | caller threads, the loop's thread, both locks, `close` | `caller`, `closer`, `loop`, `ready`, `task`, `waiters`, `lock`, `threadLock` |
| `SQLiteBackend` | connections to one file | `conn`, `opened`, `open`, `rows`, `dirty`, `pc`, `uses`, `result`; history `earlier` |
| `ExplainTrust` | changes of a record and `explain_trust` side by side | `capacity`, `clock`, `record`, `pending`, `ledger`, `pc`, `view`; history `was`, `unledgered`, `strayed`, `misdated`; bound `made` |

`MC…` modules fix small instances; `…_proofs` modules hold theorems.

**TrustManager.** A task runs one method at a time. `pc[t]` names the await at
which task *t* is suspended and `frame[t]` holds its local variables. An action
performs the awaited operation and the straight-line code up to the next await, so
that the order put → ledger → emit → leave the lock → audit of each method is the
order of its phases. Early returns (empty merge, unknown agent, nothing to decay)
are transitions to `idle` or to the next agent of a sweep. `deregister_agent`
enters no asyncio lock, and `register_authority` of an agent that exists leaves it
(phase `reflag`) and enters it again, as in the code. With a phase in `Faults`,
its await may raise before it took effect, or, for a write, after it; the task
then releases the lock and returns. `observe` is the phase `peek` followed by a
submission. The calls themselves are pure (`TrustRecords`): the same `Admits` and
`Outcome` define what a call does in `TrustManager` and what it would do in one
step in `AtomicTrust`; the refinement is about the interleaving alone. The algebra
is a parameter of both modules (`Fuse`, `Discount`, `Merge`, `Decay`, `Trusted`),
which is why the proofs hold for every algebra.

The store is one that returns copies, as SQLite and Redis do.

**Opinions.** An opinion is `[b, d, u]` with natural numbers: `b/(b+d+u)` is the
belief, and so on. Base rates are fractions of their own (`FusedBase`), because no
operator lets them influence the other three components. The code's tests against
`EPSILON_DEGENERATE` are comparisons with `1/Degenerate`. Exact arithmetic is an
abstraction of floating point: what is shown is what the formulas do, not how they
round.

**EvidenceAccount.** `ApplyDecay(now)` is the visit of a sweep to the record.
`apply_decay` reads the time once, before it waits for the lock of each agent, and
stamps that time on every record, also on one that was updated since: `now` is any
tick up to the present, and `updated` may go back. The history `taken` counts the
ticks by which it went back, and `heard` remembers its value at the last
submission.

**Assessment** adds no state that the program has: `said` remembers the opinions
that were fused into the record of `EvidenceAccount`. `Verdict` is
`ThresholdPolicy.evaluate` and `is_trusted`, in their order of checks; `Timeline`
is `generate_trust_timeline`, one point per tick; `EvidenceNeeded` is the estimate
of `explain_trust`, as a fraction. `Replay` is `evaluate_scenario`: a case is
evidence in any order and times at which a decision is expected, the events are
sorted, and the opinion is folded over them, decayed in between.

**Adapters.** A task runs one adapter at a time, and `pc[t]` names the call of the
manager, or of the wrapped function, at which it is suspended. Adapters of
different frameworks that make the same calls are one `use`: `hook` stands for the
hooks, callbacks, guardrails and tool handlers that check before an agent runs,
`callback` for those that report after it, `get_tool` for `get_trust` and
`explain_trust` of MCP. `decorated` is a function under `collect_evidence` inside
`trust_aware`. Tasks in `Graphs` run a LangGraph graph whose nodes and edges are
made for one agent; the state of the graph keeps a score between them. A call that
writes may raise before or after its effect: a `StoreError`, or whatever a
subscriber of the manager raises (`SubscriberErrors`), an event handler or a
synchronous callback, since the manager catches nothing. `call_tool` turns a
`KeyError` and an `AgentNotFoundError` into a tool error wherever they come from
(`Raised`); `disturbed` remembers that one came from a subscriber. An agent is
worth its counts, as `OpinionIsEvidenceSum` allows.

**EvidenceRules, Collection, RuleCollection.** JSON values have a kind; a string
is its length, a pattern the set of lengths it admits, and a number is counted in
halves, so that a float may be whole or not. A keyword may have a value of a type
it cannot have (`Malformed`: text for a bound, a number elsewhere).
`ShapeAccepted` is what the constructor of `SchemaValidationRule` checks,
`Validate` what it evaluates, in the code's order of checks, so that the first
mismatch hides a later exception. `Meets` is the reference: what JSON Schema says
of the same keywords, also that 1.0 is an integer, which is not what the code does
(section 8). These are recursive functions on the values (`Json`) and schemas
(`SchemaParts`) that may occur, two constants that contain all parts of their
elements; `Nesting` says that schemas are finite. `Collection` takes as parameters
which rules can be made (`Accepts`) and what they conclude (`Concludes`); in
`RuleCollection` these are the built-in rules. Sessions share one
`CallbackCollector`; a session collects once and submits the batch. `gather` keeps
the answers in the order of the callbacks and raises the first exception.
`EvidenceResult` is not checked until evidence is made of it.

**RedisStore.** A client does one operation of the store protocol in a loop:
`put`, `put_if_version`, `delete` or `delete_if_version`, all but `delete` after
the read its caller computes from. A Lua script is one step. A lost connection may
hide whether the command took effect. A client's update adds the client to a set,
so that a lost update is a missing member. `Guarded` are the keys that clients
only update with `put_if_version`; atomicity is promised for these.

**SyncManager.** `ready` is the loop's queue of callbacks, `waiters` that of the
`asyncio.Lock`. A task runs until it awaits the lock or the store. A changing
method first enters the thread lock, which is no await: a second task that finds
it taken blocks the loop's thread (`loop = "blocked"`). Without `thread_safe=True`
the thread lock is a `nullcontext`, here `NoLock`. `close()` asks the loop to
stop, joins its thread for five seconds and closes the loop, whatever is pending.

**SQLiteBackend.** `conn` is `self._conn`; testing it, connecting, creating the
table, executing and committing are separate awaits. A connection with uncommitted
rows keeps the others from writing. A row stands for the write that made it.

**ExplainTrust.** A change writes the record and, later, appends its entry, which
may fail (`AppendFails`); `explain_trust` reads record, entries and summary in
three steps. The entry of evidence carries the time stamp that its submitter chose
(`at`, any tick); those of the manager's own changes carry the present. Evidence
and discounted opinions are appended in the lock, administrative actions after it.
Imports (`ImportSnapshot`) set the counters without entries that account for them,
and the first record may be one that a persistent store kept from before this
ledger (`Snapshots`). Decay and deregistration leave no entry at all. The window
is `[now - Lookback, now]`; time only passes while no append is pending. The
ledger evicts beyond `capacity` (0 is unbounded), as the in-memory ledger does.

## 4 Runs

Runs expected to pass:

| Run (module, config) | Question | Properties | Distinct states |
| --- | --- | --- | --- |
| manager (`MCTrustManager`, `Manager.cfg`) | Do calls interleave as if each changed the store in one step, also when any await in the lock fails and time passes? Do sweeps, imports and the ledger keep their promises then, and does every call return? | TypeOK, CommitsAreCurrent, LedgerNeverAhead, EvictionSparesTheFresh, ImportInstallsSnapshot, StepsAreAtomic, EveryCallReturns | 288 688 |
| bookkeeping (`MCTrustManager`, `Bookkeeping.cfg`) | Do ledger, last event, announced crossings and audit trail tell what happened to the store, with every kind of call among the requests? | LedgerMatchesStore, SubscribersCurrent, CrossingsAnnounced, EveryEffectIsAudited | 2 099 882 |
| evidence_account (`MCAssessment`, `Assessment.cfg`) | Does trust stay within the evidence through discount and decay, whatever the order and the schedule? Are decisions, forecasts and replays right about it? | TrustWithinEvidence, OpinionIsEvidenceSum, DecayIsScheduleFree, FusionIgnoresOrder, AveragingCountsNobodyTwice, BaseRateStaysBetween, ReplayAgrees, SilenceNeverAdmits, AllowedMeansEvidence, NeedIsNeverOverstated | 190 037 |
| adapters (`MCAdapters`, `Adapters.cfg`) | Do gates, edges and selections rest on trust the agent had, and do reports count what was earned, with interleaved reports, deregistrations and failures, also of subscribers? | RoutesAreBacked, CountedAsEarned, SelectedIsNotDominated, ToolErrorsChangeNothing | 1 409 429 |
| collection (`MCCollection`, `Collection.cfg`) | Does evidence keep its source while callbacks end in any order and change? What does a failed batch leave behind? Do rules judge by their schema? | EvidenceNamesItsSource, BatchCountsAPrefix, RulesJudgeBySchema | 520 337 |
| redis (`MCRedisStore`, `Redis.cfg`) | Are conditional updates atomic, and does each land? Does a conditional command take effect only on what was read, among unconditional ones and failures? | ConditionalWriteSeesItsRead, UpdatesAreAtomic, EveryUpdateLands | 143 264 |
| sync (`MCSyncManager`, `Sync.cfg`) | Are changes serial, do calls return, does `close` return even when the loop's thread is blocked? | ChangesAreSerial, CallsReturn, CloseReturns | 18 078 |
| sqlite (`MCSQLiteBackend`, `SQLite.cfg`) | Is what returned durable and visible, with failures and `close`? Do racing connections let each other through? | ReturnedMeansDurable, QueriesSeeReturned, EveryCallReturns | 37 884 |
| explain (`MCExplainTrust`, `Explain.cfg`) | Are start, delta and attribution of an explanation right while the record changes, appends fail, evidence is dated back and the ledger evicts? | StartOfWindowIsFaithful, DeltaIsContributed, AttributionKeepsUp | 6 012 502 |

Several properties of the manager speak of the records that only calls of certain
kinds have changed, which the history `applied` remembers: a ledger can tell the
whole story of a record only if nobody imported or reset it, and a subscriber
knows the trust of an agent only if all calls that changed it announce it.
`CrossingsAnnounced` compares sides of the threshold: an agent can be registered
as trusted already, which crosses nothing, and a subscriber has to take the side
it begins on from the registration. The runs do make the other calls, to the same
agent and to others, so that these conditions are met in some states and not in
others. Likewise `StartOfWindowIsFaithful` and `DeltaIsContributed` are about
histories in which the opinion came from evidence alone, and an unbounded ledger
got all of it, which the code's documentation names as the condition. The first
also needs evidence that is stamped with the tick of its submission: dated back,
it falls before a window in which the opinion moved. The second holds with any
time stamps. `AttributionKeepsUp` bounds what an explanation may lack by what the
ledger never got (`unledgered`): nothing in the code could tell it more.

`DecayIsScheduleFree` says exactly how much decay there is: that of the time since
the last submission, and once more that of the ticks which late sweeps took back
since (`taken`); without late sweeps, one decay of the whole time. `ReplayAgrees`
is about histories in which no sweep was late, nothing was discounted and the
record was swept before each submission: the manager fuses into whatever is stored
and sets the time of the update, so that a submission to a record no sweep has
decayed forgets the time that has passed (section 8). `NeedIsNeverOverstated` is
about records that nothing was discounted from and that have not decayed, and
`SilenceNeverAdmits` about floors that are not below the base rate; the instances
contain the other cases. `RoutesAreBacked` says that an agent that goes ahead was
trusted at *some* moment since the call began (or, at the edge of a graph, since
the graph last reported about it): a check is stale as soon as it is made, and no
adapter can promise more. `ToolErrorsChangeNothing` is about errors that no
subscriber of the manager has raised, and `RulesJudgeBySchema` about well-formed
schemas whose parts name one type each and outputs without a whole float where an
integer is wanted; the instances contain the other cases (section 8).

Each property of these runs is also known to fail when the code is changed in a
plausible way: the definitions marked "Mutant" in the modules state such changes,
and `PROJECT.json` pairs them with the properties.

Runs expected to end in a violation are listed in section 8.

## 5 Bounds

* **TrustManager** (`MaxCalls` = 3, `MaxClock` = 1, `MaxAge` = 0 or 1, `Requests`
  and `Faults` in each config): two tasks are enough for every pairwise
  interleaving, and the third call lets one start between two others. Agents are
  `a` and an authority `v`. Opinions are pairs of evidence counts capped at 5,
  `<<5, 0>>` is the dogmatic trust of authorities; no instance counts that far, so
  the cap is never what makes a property hold. That fusion of opinions made from
  evidence adds the counts is `OpinionIsEvidenceSum`, proved in
  `Assessment_proofs`. Decay halves per tick; the trust threshold is 0.6, met by
  `<<1, 0>>` and missed by `<<0, 0>>` and `<<1, 1>>`, so single submissions cross
  it both ways. In `manager` the maximal age is 0: with one tick a record can be
  stale, fresh, or refreshed while a sweep waits for the lock. In `bookkeeping`,
  which asks what the calls owe to ledger and subscribers and not what failures
  leave behind, nothing fails.
* **Assessment**, over **EvidenceAccount**: up to three submissions (`MaxCount`),
  plain or discounted by a dogmatic or a vacuous authority, of three kinds of
  evidence, two ticks (`MaxClock`) of one half-life each, and one tick that a late
  sweep may take back (`MaxTaken`): it may hit before or after a submission, and
  the sweep that decays the tick again comes in the same or the next. Three
  opinions suffice for associativity; exchanging neighbours generates all orders,
  and every order of submissions is reached. Floors are 1/4, 1/2, 3/5 and 4/5, on
  both sides of the base rate, ceilings 1/2, 3/4 and 1. `BaseRateStaysBetween`
  takes every ordered pair of base rates out of 1/5, 1/2 and 4/5. `Degenerate` is
  1000, beyond every reached product of uncertainties. The properties of the run
  are proved without these bounds.
* **Adapters**: a graph and one other task, two agents and three calls
  (`MaxCalls`): two calls in flight, and one before or after. Agents begin with no
  evidence; the floor is 1/2, which they then meet exactly, and one report takes
  them to either side. `Amounts` is one piece for and one against, so that a
  confusion of the two, or a second count, shows. Subscribers raise a `KeyError`,
  the one that is mistaken for a missing argument. Deregistrations are not
  bounded.
* **Collection**: three names and two functions, up to four calls of
  `add_callback`, so that names are replaced and added before, during and after a
  collection; callbacks that say nothing, something, or something `Evidence`
  refuses. One session (`Sessions`): sessions share only what `add_callback`
  writes. Seventeen schemas, nested two deep: typed and not, and malformed where
  the constructor looks and where it does not; and eighteen outputs, with a whole
  float and one that is not: every keyword meets values it admits, values it
  refuses and values it is not about.
* **RedisStore**: six clients on two keys: two that update one key with
  `put_if_version`, and one client per operation on the other key.
* **SyncManager**: two callers suffice for a deadlock of two locks; here there are
  three, with five calls (`MaxCalls`), so that there is a queue behind the lock
  and callers come back.
* **SQLiteBackend**: two writers and one reader with one call each: up to three
  connections race.
* **ExplainTrust**: three changes (`MaxChanges`), two ticks (`MaxClock`) and a
  window of one (`Lookback`): time stamps lie before, at the start of, inside and
  after the window. Ledgers are unbounded or keep one entry. There is one
  snapshot, which counts three submissions (`Snapshots`): more than the one that
  may lag, so that a miscount of what has no entry shows. The two sources of
  evidence are interchangeable (`SourcesAlike`).

Deadlock is checked in all runs. Where all callers are done and nothing is left to
do, a disjunct (`Rest`) lets the model stutter; it does not cover states in which
somebody is stuck, except in `SyncManager` and `SQLiteBackend`, where being stuck
is what the liveness properties find. `ExplainTrust` can always explain once more.

## 6 Fairness

* `TrustManager`: weak fairness of `Continue(t)`: the loop resumes a task whose
  await is done, and a store, ledger or handler answers or raises. Strong fairness
  of `Acquire(t)`: `asyncio.Lock` wakes its waiters first come, first served. No
  fairness for starting calls, for the clock or for failures.
* `RedisStore`: weak fairness of the steps of all clients together: the server
  does not stop answering, and is fair to nobody. That suffices because a conflict
  means that another client's command has succeeded, and each succeeds once.
* `SyncManager`: weak fairness of serving and finishing a task, of `stop`, of the
  loop's end and of `join`, which has a timeout. None for callers.
* `SQLiteBackend`: weak fairness of each caller's steps, also of finding that its
  connection was closed. `execute` on a locked file is not enabled; SQLite's busy
  timeout is taken to be longer than a commit takes. Failures are not fair, and
  `EveryCallReturns` is about behaviours without them.
* The other modules make no liveness claims.

## 7 Proofs

`tlapm` proves, for every value of the constants that satisfies the named
assumptions:

* `TrustManager_proofs`, **TypeCorrect**: `Spec => []TypeOK`. `TypeOK` alone is
  not inductive: that `store` gets a record from the frame needs to know which
  local variables a phase relies on. `TypeInv` adds `FrameFits`, which says that
  for each phase (a task in `put` holds a record to write; one in `next` a sweep;
  and so on). One lemma per action.
* `TrustManager_proofs`, **LockedCommitsAreCurrent** and **StoreIsAtomic**: as
  long as no caller uses `deregister_agent` or `register_authority`
  (`OnlyLockedUpdates`, an assumption of both theorems and not of the model), a
  record about to be written was computed from the stored one, and `TrustManager`
  implements `AtomicTrust`. The inductive invariant `AtomicInv` adds two things to
  `TypeInv`: `HoldsLock`, that a task in a locked phase is the holder, and
  `WriteIsCurrent`, that a pending write is the outcome of its call on the record
  *now* in the store. The second survives the steps of others because only the
  holder writes. Faults and any number of tasks, calls and agents are included.
  The two excluded calls are exactly those with which the property fails (section
  8); `manager` calls `register_authority`, but only for an id that is no plain
  agent, and there the property holds as well.
* `TrustManager_proofs`, what each call leaves behind, besides the record:
  everything rests on `LockInv`, which is `AtomicInv` without its assumption:
  `deregister_agent` and `register_authority` are allowed, and a pending write is
  that of the stored record *or* of one that was deleted meanwhile (`Sound`).
  * **SweepsSpareTheFresh** and **LedgerIsNeverAhead** hold for all calls and
    faults. The second counts (`NeverAhead`): the entries of an agent and the
    appends that are pending for it are together at most the submissions in its
    record, for records that were only created, fed and decayed (`OnlyFed`).
  * **RecordsMatchLedger** is the equality, for each kind of evidence (`Balanced`:
    the record is the ledger plus the one pending entry). It assumes
    `NoEntryLost`: no fault of put or append, since each leaves a record that the
    ledger does not tell of (section 8). The amounts of evidence in the ledger are
    sums over a set of entries; the model and the proof count them as the elements
    of a disjoint union (`Units`), for which the finite set theorems suffice.
  * **SubscribersAreCurrent** and **CrossingsAreAnnounced** (`NewsInv`) assume
    `NothingUndelivered`: no fault of put, append or emit. Between its put and its
    last event a call is a *teller* (`Tellers`); it holds the lock, its outbox is
    what is left of the messages from the old value to the new (`Messages`), and a
    subscriber believes the old value until the right one of them is delivered.
    The attempt to prove the second showed that its first version was false of
    agents registered as trusted; the runs had no such registration and now do.
  * **ImportsInstallSnapshots** (`ImportInv`) assumes `NobodyDeregisters`. An
    import wipes, and then loads, under the lock; the only call that could undo a
    part of it before it ends is the one that does not take the lock.
  * **EffectsAreAudited** (`AuditInv`): each administrative change is in the trail
    or belongs to a call that has it pending. Assumes that no commit or audit
    append is lost (`NoAuditLost`) and that no import replaces (`NobodyReplaces`);
    section 8 has both exceptions.
* `Assessment_proofs`, on `EvidenceAccount`: **TrustStaysWithinEvidence**,
  **FusionAddsEvidence** and **SweepsCompose**, for any evidence, any prior
  weight, any authorities, any decay that composes (`GrowthIsExponential`) and
  sweeps that began at any time. The lemmas say what fusion, discount and decay do
  to the bound `W·b <= r·u`, `W·d <= s·u`; they are nonlinear, and are broken into
  products the solver can compare. The invariant is `AccountInv`.
* `Assessment_proofs`, on `Assessment`: **GatesNeedEvidence** and
  **RefusalsOutlastSilence**, for any evidence, authorities, decay and thresholds.
  Both follow from `AccountInv`, which the steps of `Assessment` preserve because
  each is a step of `EvidenceAccount` or a stutter. The first turns the bounds and
  the two comparisons of the gate into bounds on `r` and `r + s`. The second
  compares weights: decay keeps those of belief and disbelief and adds to the
  uncertainty (`DecayParts`), so that a floor of at least 1/2, or a ceiling, that
  was missed stays missed. **EstimatesAreNeverTooHigh** cross-multiplies the
  estimate's two quotients. **FusedBaseStaysBetween** covers the uncertain, the
  nearly certain and the certain case of `FusedBase` (`SaidInv` says that the
  opinions it is about are opinions).
* `Assessment_proofs`, on whole lists of submissions. Induction over their length
  is the fact that a set of natural numbers which has 0 and is closed under
  successors has them all (`CountingUp`, from `WFMin`), because the library's
  induction rules take operators as parameters. That a recursive function exists
  is proved first, then that it does what its equation says.
  * **OrderOfSubmissionsIsForgotten**: two opinions may be fused into a record in
    either order, to the last weight (`SubmissionsCommute`), unless all three are
    dogmatic; what a record hears never is (`Certain`), so neighbours anywhere in
    the list may change places, and so all of it.
  * **ReplayAgreesWithTheManager**, for any evidence, decay and number of
    submissions, while no sweep was late. The events of a case are a set, which
    the harness sorts (`InOrderLists`); one more submission, or one more tick with
    its expected decision, puts an event in its place (`ReplayAdds`); events of
    one time commute where they may be exchanged (`StepsOfOneTimeCommute`), so
    that the order of declaration does not matter. `ReplayInv` then says of every
    state that the fold over what was said so far is the stored opinion, decayed
    until now, up to a common factor (`Times`).
  * **AveragesCountNobodyTwice**: products and weighted sums over a list in which
    everybody speaks twice are those of the list, times the product of the
    uncertainties (`AveragedTwice`). Very certain or very many opinions are fused,
    not averaged (`TooCertain`), and do count twice; section 8 has an example. The
    theorem therefore assumes `LeavesDoubt`: that no list of up to twice
    `MaxCount` opinions that may be submitted is too certain. In `Assessment.cfg`
    uncertainties are at least 1/2, and six of them multiply to 1/64 or more,
    against an epsilon of 1/1000.
* `RedisStore_proofs`: **VersionCheckIsSound**, for any mix of clients and with
  failures: equal versions mean equal hashes unless the key was deleted since the
  read (`CasInv`). **ConditionalUpdatesAreAtomic**: on the `Guarded` keys the
  store implements `AtomicTrust`. Nothing is deleted there
  (`GuardedStaysUndeleted`), so that a write that takes effect adds its client to
  the record that is there.
* `SQLiteBackend_proofs`: **ReturnedIsDurable** and **QueriesSeeTheFile**, for any
  number of callers, racing first calls, failures and `close`. `StoreInv` follows
  a row from the connection that executed it, which stays open as long as it is
  dirty or else fails its commit, to the file (`RowIsKept`), and says that what
  had returned when a reader began is in the file (`AnswerIsFull`). The type
  invariant has to bound the number of connections by the calls that may still
  open one.
* `SyncManager_proofs`: **CallsAreSerial**, with and without the thread lock.
  `SerialInv` says that a call is in one place: in the loop's queue, in the lock's
  queue, at the store, or nowhere (`InOnePlace`); each lock has a holder that is a
  changing call under way, also after the loop was closed under its callers.
* `ExplainTrust_proofs`: **AttributionsKeepUp**, for any submissions, resets,
  imports, failed appends and evictions between the three reads, any capacity, any
  record at the beginning and any clock. `CountInv` counts: an unbounded ledger
  lacks at most the entry of the one submission in the lock and the `unledgered`
  ones, and what an explanation has read is no more than what it reads next.
* `ExplainTrust_proofs`: **StartIsFaithful** and **DeltasAreContributed**, for any
  evidence, sources, time stamps, window and number of submissions. They assume
  that the prior weight is the default one: for others the properties fail
  (section 8). The invariant `HistoryInv` speaks of a log (`Log`): the ledger, and
  the entry that is about to be appended. While only evidence drives the opinion,
  the record says what the log says, the opinion at each tick what was said before
  it, and an explanation holds a prefix of the log with all that precedes its
  time. An append does not change the log, and a submission lengthens it by what
  it fuses (`FuseAdds`). Sums over entries are counted unit by unit (`Total`), so
  that a sum over disjoint sets (`SumSplits`) and a sum of sums by contributor
  (`PartsAddUp`) are facts about cardinalities; equality of opinions is that of
  the evidence they are made of (`EqualEvidenceIsSame`).
* `Adapters_proofs`: **AdmissionsAreBacked**, **ReportsCountOnce**,
  **SelectionsAreSensible** and **ToolErrorsAreHarmless**, for any number of
  tasks, graphs and agents, any evidence, any floor and whatever subscribers
  raise. The last is about tool errors that none of them has caused. `AdapterInv`
  has three parts per task: what its local variables are worth at each await
  (`InHand`: nothing is counted before the first report; a report owes exactly
  what was earned, or one negative piece after a failed one), what it has seen of
  the store (`Seen`: whoever it admits, and each trust it found, is one the agent
  had since the call began; a selection has found, or has yet to visit, every
  agent that was there throughout), and for a graph that its score is one its
  agent had (`ScoreIsSeen`), but for the moment between its report and the next
  reading. The maximum of what was found is then at least the trust of any other
  agent in *some* state, which is all a loop over changing records can promise.
* `Collection_proofs`, for any number of sessions, callbacks and rules:
  **PiecesKeepTheirSource** and **BatchesCountPrefixes**. `CollectionInv` says per
  session what `collect` returned (`CollectedOK`) and what of it is counted
  (`CountedOK`: as much as has returned, or one piece more after a submission that
  raised). The comprehension of `collect` is a recursive function; `PiecesFacts`
  says where in its result the i-th answer is, and that there is nothing else.
* `Collection_proofs`, on `RuleCollection`: **ValidatorMeansTheSchema**, that a
  well-formed schema the constructor accepts, and of which every part names one
  type, judges every value as JSON Schema would and raises for none, if the value
  has no whole float where the schema wants an integer (`NoWholeFloat`); and
  **RulesFollowTheirSchemas**, that a collection with such rules says just that.
  `RecursionIsDefined` shows that an equation whose right side depends only on
  lower points has a solution: it applies to the four functions of `EvidenceRules`
  because parts nest less deeply. `RightByParts` is the induction step, check by
  check. Without the constructor's test the theorem is false (an unknown type name
  raises), and without the three conditions so is the run's property: a part that
  may be of several types is not descended into by the test, bounds are not looked
  at by it, and 1.0 is no integer for the rule.

The assumptions on constants are named `ASSUME`s in the modules that declare them
(closure of the algebra, distinctness of the special values, bounds that are
natural numbers, finite sets of callers); the runs evaluate them. The assumptions
named above are hypotheses of their theorems, about which calls are made, what
fails and what may be submitted, and each is met by the instance of a run:
`Bookkeeping.cfg` meets all but `NobodyDeregisters`, which `Manager.cfg` meets,
`Explain.cfg` has the default prior weight, and `Assessment.cfg` leaves doubt.

Only model-checked: liveness under fairness (`EveryCallReturns`,
`EveryUpdateLands`, `CallsReturn`, `CloseReturns`), and what needs ENABLED, which
are out of the prover's reach; and that the properties of section 8 fail, which
takes a counterexample.

## 8 Where code and documents differ

Each of these runs checks one property that a document or comment states, and ends
in a counterexample. `PROJECT.json` quotes the lines. The liveness violation is
found under `FairSpec`.

| Run | Property | What happens |
| --- | --- | --- |
| deregister_race | StepsAreAtomic | A submission that has read the record puts a deregistered agent back: `deregister_agent` deletes outside the asyncio lock. |
| redis_reuse | VersionsGrow | A re-created record starts again at version 1. |
| sync_thread_safe | EveryCallReturns | With `thread_safe=True` two concurrent changes block the loop's thread for ever. |

The models contain further behaviours that a reader of the documents may not
expect. No run of their own is kept for them; the action that shows each is given.

* `register_authority` of a plain agent writes the record of an earlier critical
  section over newer evidence (`GetForFlag`, `PutFlag`).
* When the append of a submission fails after its put, the record keeps the
  evidence, and explanations without it are called complete (`AppendFails`,
  `Full`); `docs/exp_api.md:248-249` asks to fail closed or to mark them as
  partial.
* An administrative action is noted among the limitations only while it lies in
  the window (`Limitations`): after an older reset the contributions still list
  the evidence from before it. `docs/exp_api.md:592-594` asks to note it.
* When the audit append fails, the administrative change stays (`Fault` in the
  phase `audit`).
* A replacing import deletes records its audit entry does not name (`ImportWipe`
  and the entry of `ImportLoad`), which is why `bookkeeping` imports without
  replacement.
* A decay sweep stamps records that were refreshed meanwhile with the earlier time
  at which the sweep began (`Stamp`, `ApplyDecay`), and the next sweep decays the
  ticks in between once more: overlapping sweeps, or a submission during a sweep,
  decay too much (`taken` in `DecayIsScheduleFree`).
* A discounted opinion moves trust, also over the threshold, without an event
  (`JournalDiscounted`).
* Two dogmatic opinions are fused with equal weights (`FuseDogmatic`), so that a
  later one counts more than several earlier ones: fusion of dogmatic opinions
  depends on the order, although `docs/dev_design.md:236` calls it commutative and
  associative without this exception. The n-ary average does, too; and many fairly
  certain opinions make the product of uncertainties fall below the epsilon
  (`TooCertain`), after which they are fused, not averaged: twenty equal opinions
  of evidence (18, 0) average to belief 0.994 instead of 0.9.
* `submit_evidence` does not decay the record first, but stamps it (`Submit`): the
  time since the last sweep is forgotten. The evaluation harness always decays
  (`Replay`), so the two differ unless a sweep precedes each submission.
* Projections and timelines count from the last update of the record, not from now
  (`Timeline`). At a floor below the base rate, decay raises the trust of a
  distrusted agent over it (`Verdict` with a floor of 1/4).
* The estimate of missing evidence is a lower bound for a record that has not
  decayed, often a small one; after decay it may exceed what is needed
  (`EvidenceNeeded`).
* `collect_evidence` submits a negative piece when the report of a success has
  failed, also after that report took effect: the one success then counts as one
  of each (`AfterFailure`). A `TrustContext` that is entered again submits its
  earlier counts again.
* The docstring of `MCPToolError` (`integrations/mcp/tools.py:30-32`) says that
  every `MultiTrustError` becomes one; `StoreError` and `InvalidEvidenceError` do
  not (`Dispatched`). A `KeyError` that an event handler or callback raises when
  the evidence has been counted is reported as a missing argument, against the
  comment at `tools.py:230`; a client that repeats the call counts it twice
  (`ReportFails`). An `AgentNotFoundError` of a handler becomes a tool error, too
  (`Raised`).
* A schema whose `minimum` is a text, or whose parts without `"type": "object"` or
  `"array"` are malformed, is accepted by the constructor and raises at the first
  output that reaches it, which ends the collection (`ShapeAccepted`, `Validate`),
  although `schema_validation.py:185-188` says that a malformed schema fails at
  construction. 1.0 is no integer, although the comment at line 119 defines
  integers as numbers without fractional part (`Kinds`, `OfType`).
* `enum` of a schema compares with Python's `==`, so that `true` is in `[1]`
  (`Equal`).
* A score or an agreement that is NaN is graded as a full positive piece, because
  `min(1.0, nan)` is 1.0 (`Graded`). `ConsensusRule` never uses its threshold. A
  `score` of None hides `response_quality` (`Evaluate`).
* When a callback of `CallbackCollector` raises, or returns a negative amount,
  what all others have said is lost; when a piece of a batch fails, its caller is
  not told which were counted (`AnswerError`, `Gathered`, `SubmitFails`).
* A facade call that is pending when the loop stops, or arrives before it is
  closed, never returns (`EndLoop`, `Joined`).
* Two overlapping first calls open two SQLite connections, of which `close` closes
  one (`Connect`, `Close`).
* An explanation may see a record whose entry is not appended yet, and shows
  movement with neither new evidence nor a limitation (`ReadRecord` while an entry
  is `pending`); evidence that is dated back before the window is part of its
  start, not of the movement it caused (`Entry`); counters that were imported, or
  are older than the ledger, have no entries and leave the explanation "full"
  (`ImportSnapshot`, `Init`); discounted opinions from before the window appear as
  movement in it (`FromOpinion` leaves them out, `Limitations` flags only those in
  the window); the start of the window is computed with the default prior weight,
  not the configured one (`DefaultPriorWeight`).

## 9 What is not modelled

* Fusion of dogmatic opinions in the manager: no evidence makes one, and
  `FuseDogmatic` is reached by no property (section 8). The averaging theorem
  stops where products of uncertainties fall below the epsilon.
* `SyncTrustManager.__exit__`, which waits for the store's `close()` on the loop
  without a timeout, before what is modelled as `close`. Callers of a facade that
  is being closed may wait for ever, and `CallsReturn` says nothing of them.
* Starvation of sweeps by many callers: with three calls no run exercises it, and
  `EveryCallReturns` rests on the order in which `asyncio.Lock` wakes.
* Some reads of the manager that change nothing (`get_agent`, `list_authorities`,
  `get_authority`, `admin_audit_log`) and its two synchronous callbacks.
* Aliasing of the in-memory store's records. A caller that keeps a record object
  of that store sees, and can make, changes that no call of the manager makes.
* Rounding, and the clamping and warnings of `normalize_opinion` that go with it.
* The wording, trust levels and serialised form of explanations; labels, text and
  plots of timelines.
* Filters and limits of ledger queries; the rows' contents; the serialised form of
  snapshots and records.
* Subscribing to events, and what handlers do. A handler that calls a changing
  method waits for the lock its own call holds.
* `detect_drift`: a pure function of a list its caller keeps; a model would only
  repeat it. Configuration: validated constants. Logging, metrics and tracing:
  they never change what is modelled. The tool descriptors and the stdio server of
  MCP. The built-in corpus and the reports of the evaluation harness: data and
  formatting.
