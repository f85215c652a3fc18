---------------------------- MODULE ExplainTrust ----------------------------
(***************************************************************************)
(* TrustManager.explain_trust (manager/trust_manager.py:406-696): how an   *)
(* agent's trust came about, put together from the record and from the     *)
(* evidence ledger.                                                        *)
(*                                                                         *)
(* The method "is read-only and does not acquire the write lock" (line     *)
(* 422).  It reads the record, the entries and the summary of the ledger   *)
(* one after the other, while other calls change the record and then       *)
(* append their entries, which may fail.  The time stamp of evidence is    *)
(* whatever its submitter wrote into it; other changes of the record leave *)
(* no entry at all.  One agent, in the arithmetic of module Opinions.      *)
(***************************************************************************)
EXTENDS Opinions, FiniteSets

CONSTANTS
    Evidence,       \* what may be submitted about the agent
    Sources,        \* the pairs of authority and rule evidence comes from
    Discounter,     \* "distributed", which discounted opinions are entered under
    Operator,       \* the actor of administrative changes
    Snapshots,      \* records that are there at first, or are imported
    Capacities,     \* what the ledger's max_entries_per_agent may be; 0 for None
    Lookback,       \* the window, in ticks
    MaxChanges,     \* bound: changes of the record
    MaxClock        \* bound: ticks of time.time()

ASSUME EvidenceIsCounted == Evidence \subseteq [positive: Nat, negative: Nat]

ASSUME SourcesAreOthers == {Discounter, Operator} \cap Sources = {}

ASSUME SnapshotsAreRecords == Snapshots \subseteq [opinion: Weights, count: Nat]

ASSUME WindowIsPositive == Lookback \in Nat \ {0}

ASSUME BoundsAreNat == Capacities \cup {MaxChanges, MaxClock} \subseteq Nat

VARIABLES
    capacity,   \* of the ledger, from its constructor
    clock,
    made,       \* changes made so far: identifies a change
    record,     \* [opinion, count]: of the agent
    pending,    \* the entries that changes of the record still have to append
    ledger,     \* the agent's entries, in append order
    pc,         \* of explain_trust: "idle", "query", "summary", "explained"
    view,       \* its local variables
    was,        \* history: was[t] is the opinion when tick t began
    unledgered, \* history: how many submissions the record counts that were
                \*   never entered in this ledger
    strayed,    \* history: something else than evidence entered in the ledger
                \*   has changed the opinion
    misdated    \* history: evidence was stamped with another time than its own

explanation == <<pc, view>>

vars == <<capacity, clock, made, record, pending, ledger, explanation, was, unledgered, strayed,
          misdated>>

NoEvidence == [positive |-> 0, negative |-> 0]

Fresh == [opinion |-> Vacuous, count |-> 0]

(* The time stamp of evidence is in the evidence. *)
Entry(type, source, e, at) ==
    [id |-> made, type |-> type, source |-> source, evidence |-> e, at |-> at]

-----------------------------------------------------------------------------
(* Changes of the record.  A submission holds the asyncio lock from here to
   its append; an administrative change has already left it. *)

(* The lock is free. *)
Unlocked == \A e \in pending : e.type = "admin"

Change(entry, new) ==
    /\ Unlocked
    /\ made < MaxChanges
    /\ made' = made + 1
    /\ record' = new
    /\ pending' = pending \cup {entry}
    /\ UNCHANGED <<capacity, clock, ledger, explanation, was>>

SubmitEvidence(source, e, at) ==
    /\ Change(Entry("evidence", source, e, at),
              [opinion |-> Fuse(record.opinion, FromEvidence(e)), count |-> record.count + 1])
    /\ misdated' = (misdated \/ at # clock)
    /\ UNCHANGED <<unledgered, strayed>>

(* The opinion of an authority of which nothing is known, discounted by that. *)
SubmitDiscounted(e) ==
    /\ Change(Entry("discounted_opinion", Discounter, e, clock),
              [opinion |-> Fuse(record.opinion, Discount(Vacuous, FromEvidence(e))),
               count   |-> record.count + 1])
    /\ strayed' = TRUE
    /\ UNCHANGED <<unledgered, misdated>>

(* The record is set to another, of which so many submissions have no entry
   that counts for it. *)
Administer(new, missing) ==
    /\ Change(Entry("admin", Operator, NoEvidence, clock), new)
    /\ strayed' = TRUE
    /\ unledgered' = missing
    /\ UNCHANGED misdated

(* reset_agent, which clears the counters unless it is told not to. *)
ResetAgent(clear) ==
    IF clear THEN Administer(Fresh, 0)
    ELSE Administer([record EXCEPT !.opinion = Vacuous], unledgered)

(* import_snapshot: the counters come along, their entries do not. *)
ImportSnapshot(snapshot) == Administer(snapshot, snapshot.count)

(* Changes that leave no entry. *)
ChangeSilently(new, missing) ==
    /\ made < MaxChanges
    /\ made' = made + 1
    /\ record' = new
    /\ strayed' = TRUE
    /\ unledgered' = missing
    /\ UNCHANGED <<capacity, clock, pending, ledger, explanation, was, misdated>>

(* apply_decay, after one half-life. *)
ApplyDecay ==
    Unlocked /\ ChangeSilently([record EXCEPT !.opinion = Decay(@, 2)], unledgered)

(* deregister_agent, which does not take the lock; the agent is registered anew
   before it is explained. *)
Reregister == ChangeSilently(Fresh, 0)

(* InMemoryEvidenceLedger.append evicts the oldest entry of a full bucket. *)
Kept(bucket) ==
    IF capacity = 0 \/ Len(bucket) <= capacity THEN bucket
    ELSE SubSeq(bucket, Len(bucket) - capacity + 1, Len(bucket))

AppendEntry ==
    \E e \in pending :
        /\ pending' = pending \ {e}
        /\ ledger' = Kept(Append(ledger, e))
        /\ UNCHANGED <<capacity, clock, made, record, explanation, was, unledgered, strayed,
                       misdated>>

(* The append raises, or is never reached since the call failed after its put:
   the record keeps the change. *)
AppendFails ==
    \E e \in pending :
        /\ pending' = pending \ {e}
        /\ strayed' = TRUE
        /\ unledgered' = unledgered + (IF e.type = "admin" THEN 0 ELSE 1)
        /\ UNCHANGED <<capacity, clock, made, record, ledger, explanation, was, misdated>>

-----------------------------------------------------------------------------
(* explain_trust *)

(* record = await self._store.get(agent_id), and the time. *)
ReadRecord ==
    /\ pc \in {"idle", "explained"}
    /\ view' = [now |-> clock, opinion |-> record.opinion, count |-> record.count,
                unledgered |-> unledgered, entries |-> << >>, total |-> 0]
    /\ pc' = "query"
    /\ UNCHANGED <<capacity, clock, made, record, pending, ledger, was, unledgered, strayed,
                   misdated>>

(* entries = await self._evidence_ledger.query(agent_id) *)
QueryEntries ==
    /\ pc = "query"
    /\ view' = [view EXCEPT !.entries = ledger]
    /\ pc' = "summary"
    /\ UNCHANGED <<capacity, clock, made, record, pending, ledger, was, unledgered, strayed,
                   misdated>>

(* summary_data = await self._evidence_ledger.summary(agent_id) *)
QuerySummary ==
    /\ pc = "summary"
    /\ view' = [view EXCEPT !.total = Len(ledger)]
    /\ pc' = "explained"
    /\ UNCHANGED <<capacity, clock, made, record, pending, ledger, was, unledgered, strayed,
                   misdated>>

(* The entries of a type and on one side of the window's start. *)
Indices(type) == {i \in DOMAIN view.entries : view.entries[i].type = type}

WindowStart == view.now - Lookback

InWindow(i) == view.entries[i].at >= WindowStart

Windowed(type) == {i \in Indices(type) : InWindow(i)}

(* The sum of the natural numbers f[x], counted unit by unit. *)
Total(f) == Cardinality(UNION {{x} \X (1..f[x]) : x \in DOMAIN f})

(* What the entries of S say together. *)
EvidenceIn(S) ==
    LET amounts(kind) == [i \in S |-> view.entries[i].evidence[kind]]
    IN  [positive |-> Total(amounts("positive")), negative |-> Total(amounts("negative"))]

(* evidence_to_opinion without a prior weight takes DEFAULT_PRIOR_WEIGHT. *)
DefaultPriorWeight == 2

(* Mutant: replays the entries of the window. *)
FromOpinionOfWindow ==
    LET pre == EvidenceIn(Windowed("evidence"))
    IN  [b |-> pre.positive, d |-> pre.negative, u |-> DefaultPriorWeight]

(* from_opinion: the evidence before the window, replayed. *)
FromOpinion ==
    LET pre == EvidenceIn(Indices("evidence") \ Windowed("evidence"))
    IN  [b |-> pre.positive, d |-> pre.negative, u |-> DefaultPriorWeight]

(* Mutant: all that the source ever said. *)
ContributorDiffForEver ==
    LET of(s) == {i \in Indices("evidence") : view.entries[i].source = s}
    IN  [s \in {t \in Sources : of(t) # {}} |->
            [evidence |-> EvidenceIn(of(s)), count |-> Cardinality(of(s))]]

(* contributor_diff: per source, what it said in the window. *)
ContributorDiff ==
    LET of(s) == {i \in Windowed("evidence") : view.entries[i].source = s}
    IN  [s \in {t \in Sources : of(t) # {}} |->
            [evidence |-> EvidenceIn(of(s)), count |-> Cardinality(of(s))]]

(* Mutant: entries that were not evicted are taken for all there were. *)
LimitationsUnwindowed ==
    {x \in {"discounted submissions", "administrative actions"} :
        \/ x = "discounted submissions" /\ Windowed("discounted_opinion") # {}
        \/ x = "administrative actions" /\ Windowed("admin") # {}}

(* The contributions: per source, all that it said. *)
Contributions ==
    LET of(s) == {i \in DOMAIN view.entries : view.entries[i].source = s}
    IN  [s \in {view.entries[i].source : i \in DOMAIN view.entries} |->
            [evidence |-> EvidenceIn(of(s)), count |-> Cardinality(of(s))]]

Limitations ==
    {x \in {"windowed attribution", "discounted submissions", "administrative actions"} :
        \/ x = "windowed attribution" /\ capacity # 0
        \/ x = "discounted submissions" /\ Windowed("discounted_opinion") # {}
        \/ x = "administrative actions" /\ Windowed("admin") # {}}

(* completeness = "full" *)
Full == Limitations = {}

-----------------------------------------------------------------------------
(* A change is appended, or fails, within the tick in which it was made: the
   window is long against the time a call takes. *)
Tick ==
    /\ clock < MaxClock
    /\ pending = {}
    /\ clock' = clock + 1
    /\ was' = [was EXCEPT ![clock + 1] = record.opinion]
    /\ UNCHANGED <<capacity, made, record, pending, ledger, explanation, unledgered, strayed,
                   misdated>>

(* The agent was registered before the first tick; or its record is older than
   the ledger, as it is when a persistent store is opened with a ledger in
   memory. *)
Init ==
    /\ capacity \in Capacities
    /\ clock = 0
    /\ made = 0
    /\ record \in {Fresh} \cup Snapshots
    /\ pending = {}
    /\ ledger = << >>
    /\ pc = "idle"
    /\ view = [now |-> 0, opinion |-> Vacuous, count |-> 0, unledgered |-> 0,
                entries |-> << >>, total |-> 0]
    /\ was = [t \in 0..MaxClock |-> record.opinion]
    /\ unledgered = record.count
    /\ strayed = (record # Fresh)
    /\ misdated = FALSE

Next ==
    \/ \E s \in Sources, e \in Evidence, at \in 0..MaxClock : SubmitEvidence(s, e, at)
    \/ \E e \in Evidence : SubmitDiscounted(e)
    \/ \E clear \in BOOLEAN : ResetAgent(clear)
    \/ \E snapshot \in Snapshots : ImportSnapshot(snapshot)
    \/ ApplyDecay
    \/ Reregister
    \/ AppendEntry \/ AppendFails
    \/ ReadRecord \/ QueryEntries \/ QuerySummary
    \/ Tick

Spec == Init /\ [][Next]_vars

-----------------------------------------------------------------------------
Explained == pc = "explained"

(* Nothing but evidence has driven the opinion, and the ledger was given all of
   it and has kept it. *)
OnlyEvidence == capacity = 0 /\ ~strayed

(* When only evidence drives the opinion, and is submitted in the tick it is
   stamped with, the start of the delta is what the opinion was when the window
   began, although the record, the entries and the time are read while
   submissions go on: from_opinion "is faithful when the agent's opinion is
   driven only by accumulated positive/negative counts"
   (docs/cookbook/explanation-deltas.md:95-97).  Evidence that its submitter
   dates back counts for the window of its time stamp. *)
StartOfWindowIsFaithful ==
    Explained /\ OnlyEvidence /\ ~misdated =>
        Same(FromOpinion, was[IF WindowStart > 0 THEN WindowStart ELSE 0])

(* The record was not ahead of the entries. *)
Settled == view.count = Len(view.entries)

Differences(kind) ==
    Total([x \in DOMAIN ContributorDiff |-> ContributorDiff[x].evidence[kind]])

(* What the contributors said in the window is what moved the opinion: fused
   with from_opinion it gives to_opinion (trust_manager.py:541-608), when only
   evidence drives the opinion, whatever times it is stamped with. *)
DeltaIsContributed ==
    Explained /\ OnlyEvidence /\ Settled =>
        Same(view.opinion,
             Fuse(FromOpinion, FromEvidence([positive |-> Differences("positive"),
                                             negative |-> Differences("negative")])))

(* What an explanation attributes to its contributors is never more than what
   its own summary counts (trust_manager.py:473-516); and unless it is marked
   as partial, its entries lag behind the record it explains by no more than
   the one submission that is still to be appended and those that this ledger
   never got: because their append failed, or because they came with the record
   from a snapshot or from an older store. *)
AttributionKeepsUp ==
    Explained =>
        LET told == Total([s \in DOMAIN Contributions |-> Contributions[s].count])
        IN  /\ told <= view.total
            /\ Full => view.count <= Len(view.entries) + 1 + view.unledgered
=============================================================================
