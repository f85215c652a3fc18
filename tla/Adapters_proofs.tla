--------------------------- MODULE Adapters_proofs ---------------------------
(***************************************************************************)
(* What the adapters promise, for any number of tasks, graphs and agents   *)
(* that share a store, for all evidence and every threshold, although each *)
(* await may raise and other tasks run in the middle of every call.        *)
(*                                                                         *)
(* The argument is about one task at a time.  What it relies on is of two  *)
(* kinds: what it has in its own local variables, which nobody else        *)
(* changes (InHand), and what it has seen of the store, which others may   *)
(* have changed since but cannot make unseen (Seen).                       *)
(***************************************************************************)
EXTENDS Adapters, TLAPS

Fractions == Nat \X (Nat \ {0})

Evidences == [positive: Nat, negative: Nat]

Nodes == {"gate_node", "update_node", "edge"}

Awaits == {"idle", "get", "explain", "run", "report", "refresh", "register", "list", "visit"}

Outcomes == {"returned", "selected", "refused", "raised", "tool_error"}

AllUses == Nodes \cup {"decorated", "hook", "callback", "context", "select", "filter", "get_tool",
                       "is_trusted_tool", "submit_tool", "register_tool", "rank_tool"}

FrameType ==
    [use: AllUses \cup {None}, agent: Agents \cup {None}, outcome: Outcomes \cup {None},
     earned: Evidences, due: Evidences, counted: Evidences, changed: BOOLEAN, disturbed: BOOLEAN,
     admitted: SUBSET Agents, todo: SUBSET Agents, found: SUBSET [agent: Agents, trust: Fractions]]

TypeInv ==
    /\ record \in [Agents -> Evidences \cup {None}]
    /\ score \in [Graphs -> Fractions \cup {None}]
    /\ pc \in [Tasks -> Awaits]
    /\ frame \in [Tasks -> FrameType]
    /\ since \in [Tasks -> [Agents -> SUBSET (Evidences \cup {None})]]

-----------------------------------------------------------------------------
(* A call that has not touched anything. *)
Untouched(f) == f.earned = Nothing /\ f.counted = Nothing /\ ~f.changed

(* The first report of a call, or the one after the failed report of a
   decorated success. *)
Owes(f) ==
    \/ /\ f.counted = Nothing /\ ~f.changed /\ f.due = f.earned
       /\ f.use = "decorated" => f.earned \in Judgements
    \/ /\ f.use = "decorated" /\ f.earned = Counts(1, 0) /\ f.due = Counts(0, 1)
       /\ f.counted \in {Nothing, Counts(1, 0)}

(* The clauses of CountedAsEarned and ToolErrorsChangeNothing. *)
Squared(f) ==
    /\ f.outcome \in {"returned", "selected"} => f.counted = f.earned
    /\ f.outcome = "refused" => ~f.changed
    /\ f.outcome = "tool_error" => f.disturbed \/ ~f.changed
    /\ f.outcome \in {"raised", "tool_error"} =>
           \/ f.counted = f.earned
           \/ f.counted.positive <= f.earned.positive /\ f.counted.negative <= 1

(* The local variables f of task t at await p. *)
InHand(t, p, f) ==
    /\ p = "idle" => Squared(f)
    /\ p \notin {"idle", "report", "refresh"} => Untouched(f)
    /\ p \notin {"idle", "run", "report"} => f.admitted = {}
    /\ p # "visit" => f.found = {}
    /\ p \in {"get", "run", "report", "register"} => f.agent \in Agents
    /\ p = "get" => f.use \in {"decorated", "hook", "get_tool", "is_trusted_tool"} \cup Nodes
    /\ p \in {"explain", "run"} => f.use = "decorated"
    /\ p = "report" => Owes(f) /\ f.use \in AllUses \ {"gate_node", "edge"}
    /\ p = "refresh" => f.use = "update_node" /\ f.counted = f.earned
    /\ p = "register" => f.use = "register_tool"
    /\ p = "list" => f.use \in {"select", "rank_tool"}
    /\ p = "visit" => f.use \in {"select", "filter", "rank_tool"}
    /\ p # "idle" /\ t \in Graphs => f.use \in Nodes /\ f.agent = Subject /\ f.admitted = {}
    /\ p # "idle" /\ t \notin Graphs => f.use \notin Nodes

(* Of the two trusts, p was never the lower one. *)
NotBelow(seen, a, b) ==
    \E r \in seen[a] \ {None}, q \in seen[b] : AtLeast(Trust(r), Trust(q))

(* What task t, at await p with locals f, has seen of the store, which is now
   records. *)
Seen(t, p, f, seen, records) ==
    /\ p # "idle" \/ t \in Graphs => \A a \in Agents : records[a] \in seen[a]
    /\ \A a \in f.admitted : \E r \in seen[a] : Trusted(r)
    /\ \A x \in f.found : \E r \in seen[x.agent] \ {None} : Trust(r) = x.trust
    /\ p = "visit" /\ f.use = "select" =>
           \A b \in Agents : None \in seen[b] \/ b \in f.todo \/ \E x \in f.found : x.agent = b
    /\ p = "idle" /\ f.outcome = "selected" =>
           \A a \in f.admitted, b \in Agents : None \notin seen[b] => NotBelow(seen, a, b)

(* The score in a graph's state is one its agent had since the graph last
   reported, but for the moment between its report and the next reading. *)
ScoreIsSeen(p, sc, seen) ==
    p # "refresh" /\ sc # None => \E r \in seen[Subject] \ {None} : Trust(r) = sc

AdapterInv ==
    /\ TypeInv
    /\ \A t \in Tasks : /\ InHand(t, pc[t], frame[t])
                        /\ Seen(t, pc[t], frame[t], since[t], record)
    /\ \A t \in Graphs : ScoreIsSeen(pc[t], score[t], since[t])

(* What a task has seen stays seen. *)
Grows(seen, seen2) == \A a \in Agents : seen[a] \subseteq seen2[a]

-----------------------------------------------------------------------------
(* Facts about the values. *)

LEMMA NothingIsEvidence ==
    /\ Nothing \in Evidences /\ Judgements \subseteq Evidences
    /\ \A p, n \in Nat : Counts(p, n) \in Evidences
    /\ \A e, f \in Evidences : Plus(e, f) \in Evidences
    /\ \A e \in Evidences : Plus(Nothing, e) = e
BY DEF Nothing, Counts, Judgements, Evidences, Plus

LEMMA TrustIsFraction ==
    ASSUME NEW r \in Evidences
    PROVE  Trust(r) \in Fractions
BY FloorIsFraction DEF Trust, Fractions, Evidences

(* A candidate is at least as trusted as whoever is below the threshold. *)
LEMMA ThresholdSeparates ==
    ASSUME NEW p \in Fractions, NEW q \in Fractions, AtLeast(p, Floor), ~AtLeast(q, Floor)
    PROVE  AtLeast(p, q)
<1> DEFINE f == Floor[1]
           h == Floor[2]
<1>1. p[1] \in Nat /\ p[2] \in Nat /\ p[2] > 0 /\ q[1] \in Nat /\ q[2] \in Nat /\ q[2] > 0
  BY DEF Fractions
<1>2. f \in Nat /\ h \in Nat /\ h > 0
  BY FloorIsFraction
<1>3. p[1] * h >= f * p[2] /\ f * q[2] > q[1] * h
  BY <1>1, <1>2 DEF AtLeast
<1> HIDE DEF f, h
<1>4. ASSUME NEW a \in Nat, NEW b \in Nat, NEW c \in Nat, NEW d \in Nat, NEW x \in Nat,
             NEW y \in Nat, b > 0, d > 0, y > 0, a * y >= x * b, x * d > c * y
      PROVE  a * d >= c * b
  <2>1. a * y \in Nat /\ x * b \in Nat /\ x * d \in Nat /\ c * y \in Nat /\ a * d \in Nat
            /\ c * b \in Nat
    OBVIOUS
  <2>2. (a * y) * d >= (x * b) * d
    BY <1>4, <2>1
  <2>3. (x * d) * b >= (c * y) * b
    BY <1>4, <2>1
  <2>4. (a * y) * d = (a * d) * y
    OBVIOUS
  <2>5. (x * b) * d = (x * d) * b
    OBVIOUS
  <2>6. (c * y) * b = (c * b) * y
    OBVIOUS
  <2>7. (a * d) * y >= (c * b) * y
    BY <2>1, <2>2, <2>3, <2>4, <2>5, <2>6
  <2>8. ASSUME NEW m \in Nat, NEW n \in Nat, m * y >= n * y
        PROVE  m >= n
    <3>1. SUFFICES ASSUME n >= m + 1
                   PROVE  FALSE
      OBVIOUS
    <3>2. n * y >= (m + 1) * y
      BY <1>4, <3>1
    <3>3. (m + 1) * y = m * y + y
      OBVIOUS
    <3> QED
      BY <1>4, <2>8, <3>2, <3>3
  <2> QED
    BY <2>1, <2>7, <2>8
<1>5. p[1] * q[2] >= q[1] * p[2]
  BY <1>1, <1>2, <1>3, <1>4
<1> QED
  BY <1>5 DEF AtLeast

-----------------------------------------------------------------------------
(* Facts about the local variables. *)

LEMMA FrameFields ==
    ASSUME NEW use \in AllUses \cup {None}, NEW agent \in Agents \cup {None}
    PROVE  LET f == Frame(use, agent) IN
           /\ f \in FrameType /\ Untouched(f) /\ f.use = use /\ f.agent = agent
           /\ f.due = Nothing /\ f.outcome = None
           /\ f.admitted = {} /\ f.todo = {} /\ f.found = {}
BY NothingIsEvidence DEF Frame, FrameType, Untouched

LEMMA ResultFields ==
    ASSUME NEW f \in FrameType, NEW outcome \in Outcomes
    PROVE  LET g == Result(f, outcome) IN
           /\ g \in FrameType /\ g.outcome = outcome /\ g.found = {}
           /\ g.earned = f.earned /\ g.counted = f.counted /\ g.changed = f.changed
           /\ g.disturbed = f.disturbed /\ g.admitted = f.admitted
BY NothingIsEvidence DEF Result, FrameType

LEMMA CountedFields ==
    ASSUME NEW f \in FrameType
    PROVE  LET g == Counted(f) IN
           /\ g \in FrameType /\ g.counted = Plus(f.counted, f.due) /\ g.changed = TRUE
           /\ g.use = f.use /\ g.agent = f.agent /\ g.earned = f.earned /\ g.due = f.due
           /\ g.admitted = f.admitted /\ g.found = f.found /\ g.outcome = f.outcome
BY NothingIsEvidence DEF Counted, FrameType

(* Failures of the store are never tool errors. *)
LEMMA StoreErrorsRaise == \A use : Raised(use, "StoreError") = "raised"
BY DEF Raised, Dispatched

(* Only what a subscriber of the manager raises after the effect can become a
   tool error: of the store's errors call_tool makes none. *)
LEMMA ToolErrorsDisturb ==
    ASSUME NEW f \in FrameType, NEW exception \in Exceptions
    PROVE  LET g == Disturbed(f, exception) IN
           /\ g \in FrameType
           /\ Raised(f.use, exception) = "tool_error" => g.disturbed
           /\ g.use = f.use /\ g.agent = f.agent /\ g.earned = f.earned /\ g.due = f.due
           /\ g.counted = f.counted /\ g.changed = f.changed
           /\ g.admitted = f.admitted /\ g.found = f.found
<1> DEFINE g == Disturbed(f, exception)
<1>1. g = [f EXCEPT !.disturbed = f.disturbed \/ exception \in SubscriberErrors]
  BY DEF Disturbed
<1>2. Raised(f.use, "StoreError") = "raised"
  BY StoreErrorsRaise
<1>3. Raised(f.use, exception) = "tool_error" => exception \in SubscriberErrors
  BY <1>2 DEF Exceptions
<1>4. f.disturbed \in BOOLEAN
  BY DEF FrameType
<1>5. g.disturbed = (f.disturbed \/ exception \in SubscriberErrors)
  BY <1>1 DEF FrameType
<1>6. Raised(f.use, exception) = "tool_error" => g.disturbed
  BY <1>3, <1>5, Zenon
<1>7. (f.disturbed \/ exception \in SubscriberErrors) \in BOOLEAN
  OBVIOUS
<1>8. /\ g \in FrameType
      /\ g.use = f.use /\ g.agent = f.agent /\ g.earned = f.earned /\ g.due = f.due
      /\ g.counted = f.counted /\ g.changed = f.changed
      /\ g.admitted = f.admitted /\ g.found = f.found
  BY <1>1, <1>7 DEF FrameType
<1> QED
  BY <1>6, <1>8

LEMMA RaisedIsOutcome ==
    \A use, exception : Raised(use, exception) \in {"raised", "tool_error"}
BY DEF Raised, Dispatched

LEMMA UntouchedIsSquared ==
    ASSUME NEW f \in FrameType, NEW outcome \in Outcomes, Untouched(f)
    PROVE  Squared(Result(f, outcome))
BY ResultFields DEF Untouched, Squared

-----------------------------------------------------------------------------
(* Facts about what is seen. *)

LEMMA SeenStaysSeen ==
    ASSUME NEW t \in Tasks, NEW p, NEW f \in FrameType, NEW seen, NEW seen2,
           NEW records, NEW records2, Seen(t, p, f, seen, records), Grows(seen, seen2),
           p # "idle" \/ t \in Graphs => \A a \in Agents : records2[a] \in seen2[a]
    PROVE  Seen(t, p, f, seen2, records2)
<1>1. \A a \in f.admitted : \E r \in seen2[a] : Trusted(r)
  BY DEF Seen, Grows, FrameType
<1>2. \A x \in f.found : \E r \in seen2[x.agent] \ {None} : Trust(r) = x.trust
  BY DEF Seen, Grows, FrameType
<1>3. p = "visit" /\ f.use = "select" =>
          \A b \in Agents : None \in seen2[b] \/ b \in f.todo \/ \E x \in f.found : x.agent = b
  BY DEF Seen, Grows
<1>4. ASSUME NEW a \in f.admitted, NEW b \in Agents, p = "idle", f.outcome = "selected",
             None \notin seen2[b]
      PROVE  NotBelow(seen2, a, b)
  <2>1. a \in Agents /\ seen[a] \subseteq seen2[a] /\ seen[b] \subseteq seen2[b]
    BY DEF Grows, FrameType
  <2>2. NotBelow(seen, a, b)
    BY <1>4, <2>1 DEF Seen
  <2> QED
    BY <2>1, <2>2 DEF NotBelow
<1> QED
  BY <1>1, <1>2, <1>3, <1>4 DEF Seen

LEMMA ScoreStaysSeen ==
    ASSUME NEW p, NEW sc, NEW seen, NEW seen2, ScoreIsSeen(p, sc, seen), Grows(seen, seen2)
    PROVE  ScoreIsSeen(p, sc, seen2)
BY GraphsAreTasks DEF ScoreIsSeen, Grows

-----------------------------------------------------------------------------
(* Steps. *)

RecordType == [Agents -> Evidences \cup {None}]

ScoreType == [Graphs -> Fractions \cup {None}]

SinceType == [Tasks -> [Agents -> SUBSET (Evidences \cup {None})]]

(* What a task other than t relies on. *)
OthersKeep(t) ==
    /\ \A g \in Graphs \ {t} : score'[g] = score[g]
    /\ \A u \in Tasks \ {t} :
           /\ Grows(since[u], since'[u])
           /\ Watching(u) => \A a \in Agents : record'[a] \in since'[u][a]

(* A step of task t to await p with locals f: what remains to be shown of it
   is about t. *)
LEMMA TaskMoves ==
    ASSUME AdapterInv, NEW t \in Tasks, NEW p \in Awaits, NEW f \in FrameType,
           Suspend(t, p, f), record' \in RecordType, score' \in ScoreType, since' \in SinceType,
           OthersKeep(t), InHand(t, p, f), Seen(t, p, f, since'[t], record'),
           t \in Graphs => ScoreIsSeen(p, score'[t], since'[t])
    PROVE  AdapterInv'
<1>1. /\ pc \in [Tasks -> Awaits] /\ frame \in [Tasks -> FrameType]
      /\ pc' = [pc EXCEPT ![t] = p] /\ frame' = [frame EXCEPT ![t] = f]
  BY DEF AdapterInv, TypeInv, Suspend
<1>2. TypeInv'
  BY <1>1 DEF TypeInv, RecordType, ScoreType, SinceType
<1>3. pc'[t] = p /\ frame'[t] = f
  BY <1>1
<1>4. \A u \in Tasks \ {t} : pc'[u] = pc[u] /\ frame'[u] = frame[u]
  BY <1>1
<1>5. ASSUME NEW u \in Tasks
      PROVE  InHand(u, pc'[u], frame'[u]) /\ Seen(u, pc'[u], frame'[u], since'[u], record')
  <2>1. CASE u = t
    BY <1>3, <2>1
  <2>2. CASE u # t
    <3>1. /\ frame[u] \in FrameType /\ pc'[u] = pc[u] /\ frame'[u] = frame[u]
          /\ InHand(u, pc[u], frame[u]) /\ Seen(u, pc[u], frame[u], since[u], record)
      BY <1>1, <1>4, <2>2 DEF AdapterInv
    <3>2. /\ Grows(since[u], since'[u])
          /\ pc[u] # "idle" \/ u \in Graphs => \A a \in Agents : record'[a] \in since'[u][a]
      BY <2>2 DEF OthersKeep, Watching
    <3>3. Seen(u, pc[u], frame[u], since'[u], record')
      BY <3>1, <3>2, SeenStaysSeen
    <3> QED
      BY <3>1, <3>3
  <2> QED
    BY <2>1, <2>2
<1>6. ASSUME NEW g \in Graphs
      PROVE  ScoreIsSeen(pc'[g], score'[g], since'[g])
  <2>1. g \in Tasks
    BY GraphsAreTasks
  <2>2. CASE g = t
    BY <1>3, <2>2
  <2>3. CASE g # t
    <3>1. /\ ScoreIsSeen(pc[g], score[g], since[g]) /\ Grows(since[g], since'[g])
          /\ score'[g] = score[g] /\ pc'[g] = pc[g]
      BY <1>4, <2>1, <2>3 DEF AdapterInv, OthersKeep
    <3>2. ScoreIsSeen(pc[g], score[g], since'[g])
      BY <3>1, ScoreStaysSeen
    <3> QED
      BY <3>1, <3>2
  <2> QED
    BY <2>2, <2>3
<1> QED
  BY <1>2, <1>5, <1>6 DEF AdapterInv

(* The invariant gives what a task has in hand and has seen. *)
LEMMA OfTask ==
    ASSUME AdapterInv, NEW t \in Tasks
    PROVE  /\ InHand(t, pc[t], frame[t]) /\ Seen(t, pc[t], frame[t], since[t], record)
           /\ t \in Graphs => ScoreIsSeen(pc[t], score[t], since[t])
           /\ pc[t] \in Awaits /\ frame[t] \in FrameType /\ Subject \in Agents
           /\ record \in RecordType /\ score \in ScoreType /\ since \in SinceType
BY GraphsAreTasks DEF AdapterInv, TypeInv, RecordType, ScoreType, SinceType

(* A step that leaves the store alone keeps what the others rely on. *)
LEMMA KeptIsKept ==
    ASSUME AdapterInv, NEW t \in Tasks, Kept, \A g \in Graphs \ {t} : score'[g] = score[g]
    PROVE  OthersKeep(t) /\ record' = record /\ since' = since
<1>1. record' = record /\ since' = since
  BY DEF Kept
<1>2. ASSUME NEW u \in Tasks \ {t}
      PROVE  /\ Grows(since[u], since'[u])
             /\ Watching(u) => \A a \in Agents : record'[a] \in since'[u][a]
  <2>1. Seen(u, pc[u], frame[u], since[u], record)
    BY DEF AdapterInv
  <2> QED
    BY <1>1, <2>1 DEF Grows, Watching, Seen
<1> QED
  BY <1>1, <1>2 DEF OthersKeep

(* Task t goes on to another await. *)
LEMMA CallGoesOn ==
    ASSUME AdapterInv, NEW t \in Tasks, NEW p \in Awaits \ {"idle"}, NEW f \in FrameType,
           pc[t] \notin {"idle", "refresh"}, Suspend(t, p, f), Kept, UNCHANGED score,
           InHand(t, p, f),
           \A a \in f.admitted : \E r \in since[t][a] : Trusted(r),
           \A x \in f.found : \E r \in since[t][x.agent] \ {None} : Trust(r) = x.trust,
           p = "visit" /\ f.use = "select" =>
               \A b \in Agents : None \in since[t][b] \/ b \in f.todo
                                     \/ \E x \in f.found : x.agent = b
    PROVE  AdapterInv'
<1>1. OthersKeep(t) /\ record' = record /\ since' = since
  BY KeptIsKept
<1>2. record' \in RecordType /\ score' \in ScoreType /\ since' \in SinceType
  BY <1>1, OfTask
<1>3. \A a \in Agents : record[a] \in since[t][a]
  BY OfTask DEF Seen
<1>4. Seen(t, p, f, since'[t], record')
  BY <1>1, <1>3 DEF Seen
<1>5. t \in Graphs => ScoreIsSeen(p, score'[t], since'[t])
  BY <1>1, OfTask DEF ScoreIsSeen
<1> QED
  BY <1>1, <1>2, <1>4, <1>5, TaskMoves

(* What End does to the scores. *)
LEMMA EndOfCall ==
    ASSUME AdapterInv, NEW t \in Tasks, NEW f, NEW outcome, End(t, f, outcome)
    PROVE  /\ Suspend(t, "idle", Result(f, outcome)) /\ score' \in ScoreType
           /\ \A g \in Graphs \ {t} : score'[g] = score[g]
           /\ t \in Graphs => score'[t] = IF outcome = "raised" THEN None ELSE score[t]
<1>1. score \in ScoreType
  BY OfTask
<1> QED
  BY <1>1 DEF End, ScoreType

(* The call of t ends, and leaves the store alone. *)
LEMMA CallEnds ==
    ASSUME AdapterInv, NEW t \in Tasks, NEW f \in FrameType, NEW outcome \in Outcomes,
           End(t, f, outcome), Kept, pc[t] = "refresh" => outcome = "raised",
           pc[t] # "idle" \/ t \in Graphs, Squared(Result(f, outcome)),
           \A a \in f.admitted : \E r \in since[t][a] : Trusted(r),
           outcome = "selected" =>
               \A a \in f.admitted, b \in Agents : None \notin since[t][b] =>
                   NotBelow(since[t], a, b)
    PROVE  AdapterInv'
<1> DEFINE g == Result(f, outcome)
<1>1. /\ Suspend(t, "idle", g) /\ score' \in ScoreType
      /\ \A u \in Graphs \ {t} : score'[u] = score[u]
      /\ t \in Graphs => score'[t] = IF outcome = "raised" THEN None ELSE score[t]
  BY EndOfCall
<1>2. OthersKeep(t) /\ record' = record /\ since' = since
  BY <1>1, KeptIsKept
<1>3. record' \in RecordType /\ since' \in SinceType
  BY <1>2, OfTask
<1>4. g \in FrameType /\ g.outcome = outcome /\ g.found = {} /\ g.admitted = f.admitted
  BY ResultFields
<1>5. \A a \in Agents : record[a] \in since[t][a]
  BY OfTask DEF Seen
<1> HIDE DEF g
<1>6. Seen(t, "idle", g, since'[t], record')
  BY <1>2, <1>4, <1>5 DEF Seen
<1>7. t \in Graphs => ScoreIsSeen("idle", score'[t], since'[t])
  BY <1>1, <1>2, OfTask DEF ScoreIsSeen
<1>8. InHand(t, "idle", g)
  BY <1>4 DEF InHand, g
<1>9. "idle" \in Awaits
  BY DEF Awaits
<1> QED
  BY <1>1, <1>2, <1>3, <1>4, <1>6, <1>7, <1>8, <1>9, TaskMoves

(* A call begins: what it has seen is the store of this moment, in a graph
   also what the graph has seen. *)
LEMMA CallStarts ==
    ASSUME AdapterInv, NEW t \in Tasks, NEW use, Start(t, use),
           \A g \in Graphs \ {t} : score'[g] = score[g]
    PROVE  /\ OthersKeep(t) /\ record' = record /\ record' \in RecordType /\ since' \in SinceType
           /\ \A a \in Agents : record'[a] \in since'[t][a]
           /\ t \in Graphs => since' = since
           /\ pc[t] = "idle" /\ use \in IF t \in Graphs THEN Nodes ELSE Uses \ Nodes
<1>1. record \in RecordType /\ since \in SinceType
  BY OfTask
<1>2. since' = IF t \in Graphs THEN since
               ELSE [since EXCEPT ![t] = [a \in Agents |-> {record[a]}]]
  BY DEF Start
<1>3. \A a \in Agents : {record[a]} \in SUBSET (Evidences \cup {None})
  BY <1>1 DEF RecordType
<1>4. since' \in SinceType
  BY <1>1, <1>2, <1>3 DEF SinceType
<1>5. record' = record
  BY DEF Start
<1>6. ASSUME NEW u \in Tasks, pc[u] # "idle" \/ u \in Graphs
      PROVE  \A a \in Agents : record[a] \in since[u][a]
  BY <1>6, OfTask DEF Seen
<1>7. \A a \in Agents : record'[a] \in since'[t][a]
  <2>1. CASE t \in Graphs
    BY <1>2, <1>5, <1>6, <2>1
  <2>2. CASE t \notin Graphs
    BY <1>1, <1>2, <1>5, <2>2 DEF SinceType
  <2> QED
    BY <2>1, <2>2
<1>8. ASSUME NEW u \in Tasks \ {t}
      PROVE  /\ Grows(since[u], since'[u])
             /\ Watching(u) => \A a \in Agents : record'[a] \in since'[u][a]
  <2>1. since'[u] = since[u]
    BY <1>1, <1>2 DEF SinceType
  <2> QED
    BY <1>5, <1>6, <2>1 DEF Grows, Watching
<1>9. pc[t] = "idle" /\ use \in IF t \in Graphs THEN Nodes ELSE Uses \ Nodes
  BY NodesAreOfGraphs DEF Start, Nodes
<1> QED
  BY <1>1, <1>2, <1>4, <1>5, <1>7, <1>8, <1>9 DEF OthersKeep

LEMMA CallBegins ==
    ASSUME AdapterInv, NEW t \in Tasks, NEW use, NEW p \in Awaits \ {"idle"}, NEW f \in FrameType,
           Start(t, use), Suspend(t, p, f), UNCHANGED score, InHand(t, p, f),
           f.admitted = {}, f.found = {}, ~(p = "visit" /\ f.use = "select")
    PROVE  AdapterInv'
<1>1. /\ OthersKeep(t) /\ record' = record /\ record' \in RecordType /\ since' \in SinceType
      /\ \A a \in Agents : record'[a] \in since'[t][a]
      /\ t \in Graphs => since' = since
      /\ pc[t] = "idle"
  BY CallStarts
<1>2. score' \in ScoreType
  BY OfTask
<1>3. Seen(t, p, f, since'[t], record')
  BY <1>1 DEF Seen
<1>4. t \in Graphs => ScoreIsSeen(p, score'[t], since'[t])
  BY <1>1, OfTask DEF ScoreIsSeen
<1> QED
  BY <1>1, <1>2, <1>3, <1>4, TaskMoves

LEMMA GateStarts ==
    ASSUME AdapterInv, NEW t \in Tasks, NEW use, NEW a \in Agents,
           StartGate(t, use, a) \/ StartQuery(t, use, a)
    PROVE  AdapterInv'
<1> DEFINE f == Frame(use, a)
<1>1. /\ use \in {"decorated", "hook", "gate_node", "get_tool", "is_trusted_tool"}
      /\ Start(t, use) /\ Suspend(t, "get", f) /\ UNCHANGED score
      /\ use = "gate_node" /\ t \in Graphs => a = Subject
  BY DEF StartGate, StartQuery
<1>2. use \in IF t \in Graphs THEN Nodes ELSE Uses \ Nodes
  BY <1>1, CallStarts
<1>3. /\ f \in FrameType /\ Untouched(f) /\ f.use = use /\ f.agent = a
      /\ f.admitted = {} /\ f.found = {}
  BY <1>1, FrameFields DEF AllUses, Nodes
<1> HIDE DEF f
<1>4. t \in Graphs => use = "gate_node"
  BY <1>1, <1>2 DEF Nodes
<1>5. InHand(t, "get", f)
  BY <1>1, <1>2, <1>3, <1>4 DEF InHand, Nodes
<1>6. "get" \in Awaits \ {"idle"}
  BY DEF Awaits
<1> QED
  BY <1>1, <1>3, <1>5, <1>6, CallBegins

LEMMA ReportingStarts ==
    ASSUME AdapterInv, NEW t \in Tasks, NEW a \in Agents, NEW e \in Evidences,
           NEW use \in {"callback", "update_node", "context", "submit_tool"},
           StartReporting(t, use, a, e), t \in Graphs => a = Subject
    PROVE  AdapterInv'
<1> DEFINE f == Frame(use, a)
           g == [f EXCEPT !.earned = e, !.due = e]
<1>1. Start(t, use) /\ Suspend(t, "report", g) /\ UNCHANGED score
  BY DEF StartReporting
<1>2. use \in IF t \in Graphs THEN Nodes ELSE Uses \ Nodes
  BY <1>1, CallStarts
<1>3. /\ f \in FrameType /\ Untouched(f) /\ f.use = use /\ f.agent = a
      /\ f.admitted = {} /\ f.found = {}
  BY FrameFields DEF AllUses, Nodes
<1> HIDE DEF f
<1>4. /\ g \in FrameType /\ g.earned = e /\ g.due = e /\ g.counted = Nothing /\ ~g.changed
      /\ g.use = use /\ g.agent = a /\ g.admitted = {} /\ g.found = {}
  BY <1>3 DEF FrameType, Untouched
<1> HIDE DEF g
<1>5. Owes(g)
  BY <1>4 DEF Owes
<1>6. InHand(t, "report", g)
  BY <1>2, <1>4, <1>5 DEF InHand, AllUses, Nodes
<1>7. "report" \in Awaits \ {"idle"}
  BY DEF Awaits
<1> QED
  BY <1>1, <1>4, <1>6, <1>7, CallBegins

LEMMA RegisteringStarts ==
    ASSUME AdapterInv, NEW t \in Tasks, NEW a \in Agents, StartRegistering(t, a)
    PROVE  AdapterInv'
<1> DEFINE f == Frame("register_tool", a)
<1>1. Start(t, "register_tool") /\ Suspend(t, "register", f) /\ UNCHANGED score
  BY DEF StartRegistering
<1>2. t \notin Graphs
  BY <1>1, CallStarts DEF Nodes
<1>3. /\ f \in FrameType /\ Untouched(f) /\ f.use = "register_tool" /\ f.agent = a
      /\ f.admitted = {} /\ f.found = {}
  BY FrameFields DEF AllUses
<1> HIDE DEF f
<1>4. InHand(t, "register", f)
  BY <1>2, <1>3 DEF InHand, Nodes
<1>5. "register" \in Awaits \ {"idle"}
  BY DEF Awaits
<1> QED
  BY <1>1, <1>3, <1>4, <1>5, CallBegins

LEMMA LoopingStarts ==
    ASSUME AdapterInv, NEW t \in Tasks, NEW use, StartLooping(t, use)
    PROVE  AdapterInv'
<1> DEFINE f == Frame(use, None)
           g == [f EXCEPT !.todo = Agents]
           p == IF use = "filter" THEN "visit" ELSE "list"
<1>1. /\ use \in {"select", "filter", "rank_tool"}
      /\ Start(t, use) /\ Suspend(t, p, g) /\ UNCHANGED score
  BY DEF StartLooping
<1>2. t \notin Graphs
  BY <1>1, CallStarts DEF Nodes
<1>3. /\ f \in FrameType /\ Untouched(f) /\ f.use = use /\ f.admitted = {} /\ f.found = {}
  BY <1>1, FrameFields DEF AllUses
<1> HIDE DEF f
<1>4. /\ g \in FrameType /\ Untouched(g) /\ g.use = use /\ g.admitted = {} /\ g.found = {}
  BY <1>3 DEF FrameType, Untouched
<1> HIDE DEF g
<1>5. InHand(t, p, g)
  BY <1>1, <1>2, <1>4 DEF InHand, Nodes
<1>6. p \in Awaits \ {"idle"} /\ ~(p = "visit" /\ g.use = "select")
  BY <1>1, <1>4 DEF Awaits
<1> HIDE DEF p
<1> QED
  BY <1>1, <1>4, <1>5, <1>6, CallBegins

(* A call that ends where it begins. *)
LEMMA WrongCallEnds ==
    ASSUME AdapterInv, NEW t \in Tasks, NEW exception, StartWrongly(t, exception)
    PROVE  AdapterInv'
<1> DEFINE f == Frame("submit_tool", None)
           outcome == Raised("submit_tool", exception)
           g == Result(f, outcome)
<1>1. Start(t, "submit_tool") /\ End(t, f, outcome)
  BY DEF StartWrongly
<1>2. outcome \in Outcomes /\ outcome # "selected"
  BY RaisedIsOutcome DEF Outcomes
<1>3. f \in FrameType /\ Untouched(f) /\ f.admitted = {}
  BY FrameFields DEF AllUses
<1> HIDE DEF f, outcome
<1>4. g \in FrameType /\ g.outcome = outcome /\ g.found = {} /\ g.admitted = {} /\ Squared(g)
  BY <1>2, <1>3, ResultFields, UntouchedIsSquared
<1>5. /\ Suspend(t, "idle", g) /\ score' \in ScoreType
      /\ \A u \in Graphs \ {t} : score'[u] = score[u]
  BY <1>1, EndOfCall
<1> HIDE DEF g
<1>6. /\ OthersKeep(t) /\ record' \in RecordType /\ since' \in SinceType
      /\ \A a \in Agents : record'[a] \in since'[t][a]
      /\ "submit_tool" \in IF t \in Graphs THEN Nodes ELSE Uses \ Nodes
  BY <1>1, <1>5, CallStarts
<1>7. t \notin Graphs
  BY <1>6 DEF Nodes
<1>8. InHand(t, "idle", g) /\ Seen(t, "idle", g, since'[t], record') /\ "idle" \in Awaits
  BY <1>4, <1>6 DEF InHand, Seen, Awaits
<1> QED
  BY <1>4, <1>5, <1>6, <1>7, <1>8, TaskMoves

LEMMA EdgeStarts ==
    ASSUME AdapterInv, NEW t \in Tasks, StartEdge(t)
    PROVE  AdapterInv'
<1> DEFINE f == Frame("edge", Subject)
           pass == IF AtLeast(score[t], Floor) THEN {Subject} ELSE {}
           g == [f EXCEPT !.admitted = pass]
           h == Result(g, "returned")
<1>1. /\ Start(t, "edge")
      /\ IF score[t] = None THEN Suspend(t, "get", f) /\ UNCHANGED score
         ELSE End(t, g, "returned")
  BY DEF StartEdge
<1>2. /\ f \in FrameType /\ Untouched(f) /\ f.use = "edge" /\ f.agent = Subject
      /\ f.admitted = {} /\ f.found = {}
  BY FrameFields, OfTask DEF AllUses, Nodes
<1>3. t \in Graphs
  <2>1. "edge" \notin Uses
    BY NodesAreOfGraphs
  <2> QED
    BY <1>1, <2>1 DEF Start
<1> HIDE DEF f
<1>4. CASE score[t] = None
  <2>1. InHand(t, "get", f) /\ "get" \in Awaits \ {"idle"}
    BY <1>2, <1>3, OfTask DEF InHand, Nodes, Awaits
  <2> QED
    BY <1>1, <1>2, <1>4, <2>1, CallBegins
<1>5. CASE score[t] # None
  <2>1. pass \in SUBSET Agents
    BY OfTask
  <2>2. /\ g \in FrameType /\ Untouched(g) /\ g.admitted = pass
    BY <1>2, <2>1 DEF FrameType, Untouched
  <2> HIDE DEF g
  <2>3. "returned" \in Outcomes /\ "returned" # "selected"
    BY DEF Outcomes
  <2>4. h \in FrameType /\ h.outcome = "returned" /\ h.found = {} /\ h.admitted = pass /\ Squared(h)
    BY <2>2, <2>3, ResultFields, UntouchedIsSquared
  <2>5. End(t, g, "returned")
    BY <1>1, <1>5
  <2>6. /\ Suspend(t, "idle", h) /\ score' \in ScoreType
        /\ \A u \in Graphs \ {t} : score'[u] = score[u]
        /\ score'[t] = score[t]
    BY <1>3, <2>5, EndOfCall
  <2> HIDE DEF h
  <2>7. /\ OthersKeep(t) /\ record' \in RecordType /\ since' \in SinceType
        /\ \A a \in Agents : record'[a] \in since'[t][a]
        /\ since' = since /\ pc[t] = "idle"
    BY <1>1, <1>3, <2>6, CallStarts
  <2>8. \E r \in since[t][Subject] \ {None} : Trust(r) = score[t]
    BY <1>3, <1>5, <2>7, OfTask DEF ScoreIsSeen
  <2>9. \A a \in pass : \E r \in since[t][a] : Trusted(r)
    BY <2>8 DEF Trusted
  <2> HIDE DEF pass
  <2>10. /\ InHand(t, "idle", h) /\ Seen(t, "idle", h, since'[t], record') /\ "idle" \in Awaits
         /\ ScoreIsSeen("idle", score'[t], since'[t])
    BY <2>4, <2>6, <2>7, <2>8, <2>9 DEF InHand, Seen, ScoreIsSeen, Awaits
  <2> QED
    BY <2>4, <2>6, <2>7, <2>10, TaskMoves
<1> QED
  BY <1>4, <1>5

(* A submission counts; what others have seen grows, and what its own task has,
   unless it runs a graph. *)
LEMMA CountKeeps ==
    ASSUME AdapterInv, NEW t \in Tasks, pc[t] = "report", Count(t),
           \A g \in Graphs \ {t} : score'[g] = score[g]
    PROVE  /\ OthersKeep(t) /\ record' \in RecordType /\ since' \in SinceType
           /\ \A a \in Agents : record'[a] \in since'[t][a]
           /\ t \notin Graphs => Grows(since[t], since'[t])
<1> DEFINE f == frame[t]
           q == Plus(IF record[f.agent] = None THEN Nothing ELSE record[f.agent], f.due)
           own(u, a) == u = t /\ t \in Graphs /\ a = f.agent
<1>1. /\ record' = [record EXCEPT ![f.agent] = q]
      /\ since' = [u \in Tasks |-> [a \in Agents |->
                      IF own(u, a) THEN {q}
                      ELSE since[u][a] \cup IF Watching(u) THEN {record'[a]} ELSE {}]]
  BY DEF Count
<1>2. record \in RecordType /\ since \in SinceType /\ f \in FrameType
  BY OfTask
<1>3. f.agent \in Agents
  BY OfTask DEF InHand
<1>4. q \in Evidences
  <2>1. f.due \in Evidences
    BY <1>2 DEF FrameType
  <2>2. (IF record[f.agent] = None THEN Nothing ELSE record[f.agent]) \in Evidences
    BY <1>2, <1>3, NothingIsEvidence DEF RecordType
  <2> QED
    BY <2>1, <2>2, NothingIsEvidence
<1> HIDE DEF q
<1>5. record' \in RecordType /\ record'[f.agent] = q
  BY <1>1, <1>2, <1>3, <1>4 DEF RecordType
<1>6. \A a \in Agents : {q} \in SUBSET (Evidences \cup {None})
                     /\ {record'[a]} \in SUBSET (Evidences \cup {None})
  BY <1>4, <1>5 DEF RecordType
<1> HIDE DEF f, own
<1>7. ASSUME NEW u \in Tasks, NEW a \in Agents
      PROVE  since[u][a] \in SUBSET (Evidences \cup {None})
  BY <1>2 DEF SinceType
<1>8. since' \in SinceType
  BY <1>1, <1>6, <1>7 DEF SinceType
<1>9. ASSUME NEW u \in Tasks \ {t}, NEW a \in Agents
      PROVE  since[u][a] \subseteq since'[u][a] /\ (Watching(u) => record'[a] \in since'[u][a])
  BY <1>1 DEF own
<1>10. ASSUME NEW a \in Agents
       PROVE  /\ record'[a] \in since'[t][a]
              /\ t \notin Graphs => since[t][a] \subseteq since'[t][a]
  <2>1. CASE own(t, a)
    BY <1>1, <1>5, <2>1 DEF own
  <2>2. CASE ~own(t, a)
    <3>1. Watching(t)
      BY DEF Watching
    <3> QED
      BY <1>1, <2>2, <3>1
  <2> QED
    BY <2>1, <2>2
<1> QED
  BY <1>5, <1>8, <1>9, <1>10 DEF OthersKeep, Grows

(* After a submission that counted, a task that runs a graph reads the trust
   again, or loses its state. *)
LEMMA CountGoesOn ==
    ASSUME AdapterInv, NEW t \in Tasks, pc[t] = "report", Count(t),
           NEW p \in {"idle", "report", "refresh"}, NEW f \in FrameType,
           Suspend(t, p, f), score' \in ScoreType, \A g \in Graphs \ {t} : score'[g] = score[g],
           InHand(t, p, f), f.admitted = frame[t].admitted, p = "idle" => f.outcome # "selected",
           t \in Graphs => p = "refresh" \/ score'[t] = None
    PROVE  AdapterInv'
<1>1. /\ OthersKeep(t) /\ record' \in RecordType /\ since' \in SinceType
      /\ \A a \in Agents : record'[a] \in since'[t][a]
      /\ t \notin Graphs => Grows(since[t], since'[t])
  BY CountKeeps
<1>2. /\ frame[t].admitted \in SUBSET Agents
      /\ \A a \in frame[t].admitted : \E r \in since[t][a] : Trusted(r)
      /\ t \in Graphs => frame[t].admitted = {}
  BY OfTask DEF FrameType, Seen, InHand
<1>3. f.found = {}
  BY DEF InHand
<1>4. \A a \in f.admitted : \E r \in since'[t][a] : Trusted(r)
  BY <1>1, <1>2 DEF Grows
<1>5. Seen(t, p, f, since'[t], record')
  BY <1>1, <1>3, <1>4 DEF Seen
<1>6. t \in Graphs => ScoreIsSeen(p, score'[t], since'[t])
  BY DEF ScoreIsSeen
<1>7. p \in Awaits
  BY DEF Awaits
<1> QED
  BY <1>1, <1>5, <1>6, <1>7, TaskMoves

(* A call that returns, or raises, after its submission has counted has been
   counted once, or a success also as a failure. *)
LEMMA CountedIsSquared ==
    ASSUME NEW f \in FrameType, Owes(f),
           NEW outcome \in {"returned", "raised"},
           outcome = "returned" => f.use # "decorated" \/ f.due.negative = 0
    PROVE  Squared(Result(Counted(f), outcome))
<1> DEFINE g == Counted(f)
           h == Result(g, outcome)
<1>1. /\ f.earned \in Evidences /\ f.due \in Evidences /\ f.counted \in Evidences
  BY DEF FrameType
<1>2. /\ g \in FrameType /\ g.counted = Plus(f.counted, f.due) /\ g.earned = f.earned
  BY CountedFields
<1> HIDE DEF g
<1>3. outcome \in Outcomes
  BY DEF Outcomes
<1>4. h.outcome = outcome /\ h.counted = Plus(f.counted, f.due) /\ h.earned = f.earned
  BY <1>2, <1>3, ResultFields
<1> HIDE DEF h
<1>5. CASE f.counted = Nothing /\ f.due = f.earned
  <2>1. h.counted = h.earned
    BY <1>1, <1>4, <1>5, NothingIsEvidence
  <2> QED
    BY <1>4, <2>1 DEF Squared, h, g
<1>6. CASE /\ f.use = "decorated" /\ f.earned = Counts(1, 0) /\ f.due = Counts(0, 1)
           /\ f.counted \in {Nothing, Counts(1, 0)}
  <2>1. outcome = "raised"
    BY <1>6 DEF Counts
  <2>2. h.counted.positive <= h.earned.positive /\ h.counted.negative <= 1
    BY <1>4, <1>6 DEF Plus, Counts, Nothing
  <2> QED
    BY <1>4, <2>1, <2>2 DEF Squared, h, g
<1> QED
  BY <1>5, <1>6 DEF Owes

LEMMA OwingIsFair ==
    ASSUME NEW f \in FrameType, Owes(f), NEW effect \in BOOLEAN
    PROVE  LET counted == IF effect THEN Plus(f.counted, f.due) ELSE f.counted IN
           \/ counted = f.earned
           \/ counted.positive <= f.earned.positive /\ counted.negative <= 1
<1>1. /\ f.earned \in Evidences /\ f.due \in Evidences /\ f.counted \in Evidences
  BY DEF FrameType
<1>2. CASE f.counted = Nothing /\ f.due = f.earned
  BY <1>1, <1>2, NothingIsEvidence DEF Counts, Nothing, Evidences
<1>3. CASE /\ f.use = "decorated" /\ f.earned = Counts(1, 0) /\ f.due = Counts(0, 1)
           /\ f.counted \in {Nothing, Counts(1, 0)}
  BY <1>3 DEF Plus, Counts, Nothing
<1> QED
  BY <1>2, <1>3 DEF Owes

LEMMA ReportReturns ==
    ASSUME AdapterInv, NEW t \in Tasks, Report(t)
    PROVE  AdapterInv'
<1> DEFINE f == frame[t]
           g == Counted(f)
           outcome == IF f.use = "decorated" /\ f.due.negative > 0 THEN "raised" ELSE "returned"
           h == Result(g, outcome)
<1>1. /\ pc[t] = "report" /\ Count(t)
      /\ IF Refreshes(f.use) THEN Suspend(t, "refresh", g) /\ UNCHANGED score
         ELSE End(t, g, outcome)
  BY DEF Report
<1>2. /\ f \in FrameType /\ Owes(f) /\ f.found = {} /\ f.agent \in Agents
      /\ f.use \in AllUses \ {"gate_node", "edge"} /\ f.due \in Evidences
      /\ t \in Graphs => f.use \in Nodes /\ f.agent = Subject /\ f.admitted = {}
      /\ t \notin Graphs => f.use \notin Nodes
  BY <1>1, OfTask DEF InHand, FrameType
<1>3. /\ g \in FrameType /\ g.counted = Plus(f.counted, f.due) /\ g.use = f.use
      /\ g.agent = f.agent /\ g.earned = f.earned /\ g.admitted = f.admitted /\ g.found = {}
  BY <1>2, CountedFields
<1>4. CASE f.use = "update_node"
  <2>1. Suspend(t, "refresh", g) /\ UNCHANGED score
    BY <1>1, <1>4 DEF Refreshes
  <2>2. t \in Graphs
    BY <1>2, <1>4 DEF Nodes
  <2>3. g.counted = g.earned
    <3>1. f.counted = Nothing /\ f.due = f.earned
      BY <1>2, <1>4 DEF Owes
    <3> QED
      BY <1>2, <1>3, <3>1, NothingIsEvidence
  <2> HIDE DEF g, f
  <2>4. InHand(t, "refresh", g)
    BY <1>2, <1>3, <1>4, <2>2, <2>3 DEF InHand
  <2>5. score' \in ScoreType /\ \A u \in Graphs \ {t} : score'[u] = score[u]
    BY <2>1, OfTask
  <2> QED
    BY <1>1, <1>3, <2>1, <2>4, <2>5, CountGoesOn DEF f
<1>5. CASE f.use # "update_node"
  <2>1. End(t, g, outcome)
    BY <1>1, <1>5 DEF Refreshes
  <2>2. t \notin Graphs
    BY <1>2, <1>5 DEF Nodes
  <2>3. Squared(h)
    <3>1. outcome = "returned" => f.use # "decorated" \/ f.due.negative = 0
      BY <1>2 DEF Evidences
    <3> HIDE DEF f
    <3> QED
      BY <1>2, <3>1, CountedIsSquared
  <2>4. outcome \in Outcomes /\ outcome # "selected"
    BY DEF Outcomes
  <2> HIDE DEF f, g, outcome
  <2>5. h \in FrameType /\ h.outcome = outcome /\ h.found = {} /\ h.admitted = f.admitted
    BY <1>3, <2>4, ResultFields
  <2>6. /\ Suspend(t, "idle", h) /\ score' \in ScoreType
        /\ \A u \in Graphs \ {t} : score'[u] = score[u]
    BY <2>1, EndOfCall
  <2> HIDE DEF h
  <2>7. InHand(t, "idle", h)
    BY <2>3, <2>5 DEF InHand
  <2> QED
    BY <1>1, <2>2, <2>4, <2>5, <2>6, <2>7, CountGoesOn DEF f
<1> QED
  BY <1>4, <1>5

LEMMA ReportRaises ==
    ASSUME AdapterInv, NEW t \in Tasks, NEW effect \in BOOLEAN, NEW exception,
           ReportFails(t, effect, exception)
    PROVE  AdapterInv'
<1> DEFINE f == frame[t]
           k == IF effect THEN Counted(f) ELSE f
           g == Disturbed(k, exception)
           again == AfterFailure(g)
           outcome == Raised(g.use, exception)
           h == Result(g, outcome)
<1>1. /\ pc[t] = "report" /\ (IF effect THEN Count(t) ELSE Kept) /\ exception \in Exceptions
      /\ IF g.use = "decorated" /\ g.due.positive > 0
         THEN Suspend(t, "report", again) /\ UNCHANGED score
         ELSE End(t, g, outcome)
  BY DEF ReportFails
<1>2. /\ f \in FrameType /\ Owes(f) /\ f.found = {} /\ f.agent \in Agents
      /\ f.use \in AllUses \ {"gate_node", "edge"} /\ f.due \in Evidences
      /\ t \in Graphs => f.use \in Nodes /\ f.agent = Subject /\ f.admitted = {}
      /\ t \notin Graphs => f.use \notin Nodes
      /\ \A a \in f.admitted : \E r \in since[t][a] : Trusted(r)
  BY <1>1, OfTask DEF InHand, FrameType, Seen
<1>3. /\ g \in FrameType /\ g.use = f.use /\ g.due = f.due
      /\ g.agent = f.agent /\ g.earned = f.earned /\ g.admitted = f.admitted /\ g.found = {}
      /\ g.counted = IF effect THEN Plus(f.counted, f.due) ELSE f.counted
      /\ outcome = "tool_error" => g.disturbed
  <2>1. /\ k \in FrameType /\ k.use = f.use /\ k.due = f.due
        /\ k.agent = f.agent /\ k.earned = f.earned /\ k.admitted = f.admitted /\ k.found = {}
        /\ k.counted = IF effect THEN Plus(f.counted, f.due) ELSE f.counted
    BY <1>2, CountedFields
  <2> HIDE DEF k
  <2>. QED  BY <1>1, <2>1, ToolErrorsDisturb
<1>9. /\ outcome \in {"raised", "tool_error"} /\ outcome \in Outcomes
      /\ t \in Graphs => outcome = "raised"
  BY <1>2, <1>3, RaisedIsOutcome DEF Raised, Nodes, Outcomes
<1>4. Squared(h)
  <2>1. \/ g.counted = g.earned
        \/ g.counted.positive <= g.earned.positive /\ g.counted.negative <= 1
    BY <1>2, <1>3, OwingIsFair
  <2> HIDE DEF g, outcome
  <2>. QED  BY <1>3, <1>9, <2>1, ResultFields DEF Squared
<1> HIDE DEF f, g, outcome
<1>5. CASE f.use = "decorated" /\ f.due.positive > 0
  <2>1. Suspend(t, "report", again) /\ UNCHANGED score
    BY <1>1, <1>3, <1>5
  <2>2. /\ again \in FrameType /\ again.use = f.use /\ again.agent = f.agent
        /\ again.due = Counts(0, 1) /\ again.earned = f.earned /\ again.counted = g.counted
        /\ again.admitted = f.admitted /\ again.found = {}
    BY <1>3, NothingIsEvidence DEF AfterFailure, FrameType
  <2>3. Owes(again)
    <3>1. f.counted = Nothing /\ f.due = f.earned /\ f.earned \in Judgements
      BY <1>2, <1>5 DEF Owes, Counts
    <3>2. f.earned = Counts(1, 0)
      BY <1>5, <3>1 DEF Judgements, Counts
    <3>3. g.counted \in {Nothing, Counts(1, 0)}
      BY <1>2, <1>3, <3>1, <3>2, NothingIsEvidence
    <3> HIDE DEF again
    <3> QED
      BY <1>5, <2>2, <3>2, <3>3 DEF Owes
  <2> HIDE DEF again
  <2>4. t \notin Graphs
    BY <1>2, <1>5 DEF Nodes
  <2>5. InHand(t, "report", again)
    BY <1>2, <1>5, <2>2, <2>3, <2>4 DEF InHand
  <2>6. CASE effect
    <3>1. score' \in ScoreType /\ \A u \in Graphs \ {t} : score'[u] = score[u]
      BY <2>1, OfTask
    <3> QED
      BY <1>1, <2>1, <2>2, <2>4, <2>5, <2>6, <3>1, CountGoesOn DEF f
  <2>7. CASE ~effect
    <3>1. "report" \in Awaits \ {"idle"}
      BY DEF Awaits
    <3> QED
      BY <1>1, <1>2, <2>1, <2>2, <2>5, <2>7, <3>1, CallGoesOn
  <2> QED
    BY <2>6, <2>7
<1>6. CASE ~(f.use = "decorated" /\ f.due.positive > 0)
  <2>1. End(t, g, outcome)
    BY <1>1, <1>3, <1>6
  <2>2. h \in FrameType /\ h.outcome = outcome /\ h.found = {} /\ h.admitted = f.admitted
    BY <1>3, <1>9, ResultFields
  <2>3. /\ Suspend(t, "idle", h) /\ score' \in ScoreType
        /\ \A u \in Graphs \ {t} : score'[u] = score[u]
        /\ t \in Graphs => score'[t] = None
    BY <1>9, <2>1, EndOfCall
  <2>4. CASE effect
    <3> HIDE DEF h
    <3>1. InHand(t, "idle", h)
      BY <1>4, <2>2 DEF InHand
    <3> QED
      BY <1>1, <1>9, <2>2, <2>3, <2>4, <3>1, CountGoesOn DEF f
  <2>5. CASE ~effect
    BY <1>1, <1>2, <1>3, <1>4, <1>9, <2>1, <2>5, CallEnds
  <2> QED
    BY <2>4, <2>5
<1> QED
  BY <1>5, <1>6

-----------------------------------------------------------------------------
(* The steps that only read, and registration. *)

LEMMA GetAnswers ==
    ASSUME AdapterInv, NEW t \in Tasks, Get(t)
    PROVE  AdapterInv'
<1> DEFINE f == frame[t]
           a == f.agent
           pass == IF Trusted(record[a]) THEN {a} ELSE {}
           g == [f EXCEPT !.admitted = pass]
           h == Result(f, "returned")
<1>1. /\ pc[t] = "get" /\ record[a] # None /\ Kept
      /\ CASE f.use = "decorated" ->
                  Suspend(t, IF Trusted(record[a]) THEN "run" ELSE "explain", g) /\ UNCHANGED score
           [] f.use = "gate_node" ->
                  /\ Suspend(t, "idle", h)
                  /\ score' = [score EXCEPT ![t] = Trust(record[a])]
           [] f.use = "hook" ->
                  End(t, g, IF Trusted(record[a]) THEN "returned" ELSE "refused")
           [] OTHER -> End(t, g, "returned")
  BY DEF Get
<1>2. /\ f \in FrameType /\ Untouched(f) /\ f.admitted = {} /\ f.found = {} /\ a \in Agents
      /\ t \in Graphs => f.use \in Nodes /\ a = Subject
      /\ t \notin Graphs => f.use \notin Nodes
      /\ \A b \in Agents : record[b] \in since[t][b]
  BY <1>1, OfTask DEF InHand, Seen
<1>3. /\ g \in FrameType /\ g.admitted = pass /\ g.use = f.use /\ g.agent = a /\ g.found = {}
      /\ Untouched(g)
  BY <1>2 DEF FrameType, Untouched
<1>4. \A b \in pass : \E r \in since[t][b] : Trusted(r)
  BY <1>2
<1> HIDE DEF f, g, pass
<1>5. CASE f.use = "decorated"
  <2> DEFINE p == IF Trusted(record[a]) THEN "run" ELSE "explain"
  <2>1. Suspend(t, p, g) /\ UNCHANGED score
    BY <1>1, <1>5
  <2>2. t \notin Graphs
    BY <1>2, <1>5 DEF Nodes
  <2>3. p = "explain" => pass = {}
    BY DEF pass
  <2>4. p \in {"run", "explain"} /\ p \in Awaits \ {"idle"}
    BY DEF Awaits
  <2> HIDE DEF p
  <2>5. InHand(t, p, g)
    BY <1>2, <1>3, <1>5, <2>2, <2>3, <2>4 DEF InHand
  <2> QED
    BY <1>1, <1>3, <1>4, <2>1, <2>4, <2>5, CallGoesOn
<1>6. CASE f.use = "gate_node"
  <2>1. Suspend(t, "idle", h) /\ score' = [score EXCEPT ![t] = Trust(record[a])]
    BY <1>1, <1>6
  <2>2. t \in Graphs /\ a = Subject
    BY <1>2, <1>6 DEF Nodes
  <2>3. "returned" \in Outcomes /\ "idle" \in Awaits
    BY DEF Outcomes, Awaits
  <2>4. h \in FrameType /\ h.outcome = "returned" /\ h.found = {} /\ h.admitted = {} /\ Squared(h)
    BY <1>2, <2>3, ResultFields, UntouchedIsSquared
  <2> HIDE DEF h
  <2>5. record \in RecordType /\ score \in ScoreType /\ since \in SinceType
    BY OfTask
  <2>6. record[a] \in Evidences
    BY <1>1, <1>2, <2>5 DEF RecordType
  <2>7. Trust(record[a]) \in Fractions
    BY <2>6, TrustIsFraction
  <2>8. /\ score' \in ScoreType /\ score'[t] = Trust(record[a])
        /\ \A u \in Graphs \ {t} : score'[u] = score[u]
    BY <2>1, <2>2, <2>5, <2>7 DEF ScoreType
  <2>9. OthersKeep(t) /\ record' = record /\ since' = since
    BY <1>1, <2>8, KeptIsKept
  <2>10. ScoreIsSeen("idle", score'[t], since'[t])
    BY <1>1, <1>2, <2>2, <2>8, <2>9 DEF ScoreIsSeen
  <2>11. InHand(t, "idle", h) /\ Seen(t, "idle", h, since'[t], record')
    BY <1>2, <2>4, <2>9 DEF InHand, Seen
  <2> QED
    BY <2>1, <2>3, <2>4, <2>5, <2>8, <2>9, <2>10, <2>11, TaskMoves
<1>7. CASE f.use \notin {"decorated", "gate_node"}
  <2>1. PICK outcome \in {"returned", "refused"} : End(t, g, outcome)
    <3>1. CASE f.use = "hook"
      BY <1>1, <3>1
    <3>2. CASE f.use # "hook"
      BY <1>1, <1>7, <3>2
    <3> QED
      BY <3>1, <3>2
  <2>2. outcome \in Outcomes /\ outcome # "selected"
    BY DEF Outcomes
  <2>3. Squared(Result(g, outcome))
    BY <1>3, <2>2, UntouchedIsSquared
  <2> QED
    BY <1>1, <1>3, <1>4, <2>1, <2>2, <2>3, CallEnds
<1> QED
  BY <1>5, <1>6, <1>7

(* A call that ends before it has changed anything. *)
LEMMA UntouchedEnds ==
    ASSUME AdapterInv, NEW t \in Tasks, NEW outcome \in Outcomes \ {"selected"},
           pc[t] \in {"get", "explain", "register", "list", "visit"},
           End(t, frame[t], outcome), Kept
    PROVE  AdapterInv'
<1> DEFINE f == frame[t]
<1>1. f \in FrameType /\ Untouched(f) /\ \A a \in f.admitted : \E r \in since[t][a] : Trusted(r)
  BY OfTask DEF InHand, Seen
<1>2. Squared(Result(f, outcome))
  BY <1>1, UntouchedIsSquared
<1> HIDE DEF f
<1> QED
  BY <1>1, <1>2, CallEnds DEF f

LEMMA GetRaises ==
    ASSUME AdapterInv, NEW t \in Tasks, GetNothing(t) \/ Explain(t) \/ VisitNothing(t)
    PROVE  AdapterInv'
<1>1. PICK outcome \in {"returned", "raised", "refused", "tool_error"} :
          End(t, frame[t], outcome) /\ Kept /\ pc[t] \in {"get", "explain", "visit"}
  BY RaisedIsOutcome DEF GetNothing, Explain, VisitNothing
<1>2. outcome \in Outcomes \ {"selected"}
  BY DEF Outcomes
<1> QED
  BY <1>1, <1>2, UntouchedEnds

LEMMA AwaitFails ==
    ASSUME AdapterInv, NEW t \in Tasks, Fail(t)
    PROVE  AdapterInv'
<1>1. /\ pc[t] \in {"get", "refresh", "register", "list", "visit"}
      /\ End(t, frame[t], "raised") /\ Kept
  BY StoreErrorsRaise DEF Fail
<1>2. "raised" \in Outcomes \ {"selected"}
  BY DEF Outcomes
<1>3. CASE pc[t] # "refresh"
  BY <1>1, <1>2, <1>3, UntouchedEnds
<1>4. CASE pc[t] = "refresh"
  <2>1. /\ frame[t] \in FrameType /\ frame[t].counted = frame[t].earned
        /\ \A a \in frame[t].admitted : \E r \in since[t][a] : Trusted(r)
    BY <1>4, OfTask DEF InHand, Seen
  <2>2. Squared(Result(frame[t], "raised"))
    BY <1>2, <2>1, ResultFields DEF Squared
  <2> QED
    BY <1>1, <1>2, <1>4, <2>1, <2>2, CallEnds
<1> QED
  BY <1>3, <1>4

LEMMA FunctionRuns ==
    ASSUME AdapterInv, NEW t \in Tasks, NEW success \in BOOLEAN, Run(t, success)
    PROVE  AdapterInv'
<1> DEFINE f == frame[t]
           e == IF success THEN Counts(1, 0) ELSE Counts(0, 1)
           g == [f EXCEPT !.earned = e, !.due = e]
<1>1. pc[t] = "run" /\ Kept /\ UNCHANGED score /\ Suspend(t, "report", g)
  BY DEF Run
<1>2. /\ f \in FrameType /\ Untouched(f) /\ f.use = "decorated" /\ f.found = {}
      /\ f.agent \in Agents /\ t \notin Graphs
      /\ \A a \in f.admitted : \E r \in since[t][a] : Trusted(r)
  BY <1>1, OfTask DEF InHand, Seen, Nodes
<1>3. e \in Judgements /\ e \in Evidences
  BY NothingIsEvidence DEF Judgements
<1> HIDE DEF f, e
<1>4. /\ g \in FrameType /\ g.earned = e /\ g.due = e /\ g.counted = Nothing /\ ~g.changed
      /\ g.use = "decorated" /\ g.agent = f.agent /\ g.admitted = f.admitted /\ g.found = {}
  BY <1>2, <1>3 DEF FrameType, Untouched
<1> HIDE DEF g
<1>5. Owes(g)
  BY <1>3, <1>4 DEF Owes
<1>6. InHand(t, "report", g)
  BY <1>2, <1>4, <1>5 DEF InHand, AllUses, Nodes
<1>7. "report" \in Awaits \ {"idle"}
  BY DEF Awaits
<1> QED
  BY <1>1, <1>2, <1>4, <1>6, <1>7, CallGoesOn

LEMMA ScoreIsRefreshed ==
    ASSUME AdapterInv, NEW t \in Tasks, Refresh(t)
    PROVE  AdapterInv'
<1> DEFINE f == frame[t]
           h == Result(f, "returned")
<1>1. /\ pc[t] = "refresh" /\ record[Subject] # None /\ Kept /\ Suspend(t, "idle", h)
      /\ score' = [score EXCEPT ![t] = Trust(record[Subject])]
  BY DEF Refresh
<1>2. /\ f \in FrameType /\ f.counted = f.earned /\ f.found = {} /\ f.admitted = {}
      /\ t \in Graphs /\ \A b \in Agents : record[b] \in since[t][b]
  BY <1>1, OfTask DEF InHand, Seen, Nodes
<1>3. "returned" \in Outcomes /\ "idle" \in Awaits
  BY DEF Outcomes, Awaits
<1> HIDE DEF f
<1>4. h \in FrameType /\ h.outcome = "returned" /\ h.found = {} /\ h.admitted = {} /\ Squared(h)
  BY <1>2, <1>3, ResultFields DEF Squared
<1> HIDE DEF h
<1>5. record \in RecordType /\ score \in ScoreType /\ since \in SinceType /\ Subject \in Agents
  BY OfTask
<1>6. Trust(record[Subject]) \in Fractions
  BY <1>1, <1>5, TrustIsFraction DEF RecordType
<1>7. /\ score' \in ScoreType /\ score'[t] = Trust(record[Subject])
      /\ \A u \in Graphs \ {t} : score'[u] = score[u]
  BY <1>1, <1>2, <1>5, <1>6 DEF ScoreType
<1>8. OthersKeep(t) /\ record' = record /\ since' = since
  BY <1>1, <1>7, KeptIsKept
<1>9. ScoreIsSeen("idle", score'[t], since'[t])
  BY <1>1, <1>2, <1>5, <1>7, <1>8 DEF ScoreIsSeen
<1>10. InHand(t, "idle", h) /\ Seen(t, "idle", h, since'[t], record')
  BY <1>2, <1>4, <1>8 DEF InHand, Seen
<1> QED
  BY <1>1, <1>3, <1>4, <1>5, <1>7, <1>8, <1>9, <1>10, TaskMoves

(* Whatever the store becomes, those who watch see it. *)
LEMMA StoreIsSeen ==
    ASSUME AdapterInv, NEW rec \in RecordType, Store(rec)
    PROVE  /\ record' = rec /\ since' \in SinceType
           /\ \A u \in Tasks :
                  /\ Grows(since[u], since'[u])
                  /\ Watching(u) => \A a \in Agents : record'[a] \in since'[u][a]
<1>1. /\ record' = rec
      /\ since' = [t \in Tasks |-> [a \in Agents |->
                      since[t][a] \cup IF Watching(t) THEN {rec[a]} ELSE {}]]
  BY DEF Store
<1>2. since \in SinceType
  BY DEF AdapterInv, TypeInv, SinceType
<1>3. ASSUME NEW u \in Tasks, NEW a \in Agents
      PROVE  /\ since[u][a] \in SUBSET (Evidences \cup {None})
             /\ {rec[a]} \in SUBSET (Evidences \cup {None})
  BY <1>2 DEF SinceType, RecordType
<1>4. since' \in SinceType
  BY <1>1, <1>3 DEF SinceType
<1>5. ASSUME NEW u \in Tasks, NEW a \in Agents
      PROVE  since[u][a] \subseteq since'[u][a] /\ (Watching(u) => rec[a] \in since'[u][a])
  BY <1>1
<1> QED
  BY <1>1, <1>4, <1>5 DEF Grows

LEMMA Registers ==
    ASSUME AdapterInv, NEW t \in Tasks, pc[t] = "register", NEW r \in Evidences, NEW g \in FrameType,
           NEW outcome \in {"returned", "raised", "tool_error"},
           Store([record EXCEPT ![frame[t].agent] = r]), End(t, g, outcome),
           g.earned = frame[t].earned, g.counted = frame[t].counted,
           g.admitted = frame[t].admitted, outcome = "tool_error" => g.disturbed
    PROVE  AdapterInv'
<1> DEFINE f == frame[t]
           rec == [record EXCEPT ![f.agent] = r]
           h == Result(g, outcome)
<1>1. Store(rec)
  OBVIOUS
<1>2. /\ f \in FrameType /\ Untouched(f) /\ f.agent \in Agents /\ f.admitted = {} /\ f.found = {}
      /\ f.use = "register_tool"
  BY OfTask DEF InHand
<1>3. t \notin Graphs
  BY <1>2, OfTask DEF InHand, Nodes
<1>4. rec \in RecordType
  BY <1>2, OfTask DEF RecordType
<1>5. g.earned = Nothing /\ g.counted = Nothing /\ g.admitted = {}
  BY <1>2 DEF Untouched
<1> HIDE DEF f, rec
<1>6. outcome \in Outcomes
  BY DEF Outcomes
<1>7. h \in FrameType /\ h.outcome = outcome /\ h.found = {} /\ h.admitted = {} /\ Squared(h)
  BY <1>5, <1>6, ResultFields DEF Squared
<1>8. /\ Suspend(t, "idle", h) /\ score' \in ScoreType
      /\ \A u \in Graphs \ {t} : score'[u] = score[u]
  BY <1>6, EndOfCall
<1> HIDE DEF h
<1>9. /\ record' \in RecordType /\ since' \in SinceType /\ OthersKeep(t)
      /\ \A a \in Agents : record'[a] \in since'[t][a]
  <2>1. Watching(t)
    BY DEF Watching
  <2> QED
    BY <1>1, <1>4, <1>8, <2>1, StoreIsSeen DEF OthersKeep
<1>10. InHand(t, "idle", h) /\ Seen(t, "idle", h, since'[t], record') /\ "idle" \in Awaits
  BY <1>6, <1>7, <1>9 DEF InHand, Seen, Awaits
<1> QED
  BY <1>3, <1>7, <1>8, <1>9, <1>10, TaskMoves

LEMMA RegisterEnds ==
    ASSUME AdapterInv, NEW t \in Tasks, NEW exception, Register(t) \/ RegisterFails(t, exception)
    PROVE  AdapterInv'
<1> DEFINE f == frame[t]
           a == f.agent
<1>1. /\ f \in FrameType /\ pc[t] = "register" /\ a \in Agents /\ f.use = "register_tool"
      /\ record[a] \in Evidences \cup {None}
  BY OfTask DEF InHand, Register, RegisterFails, RecordType
<1> HIDE DEF f
<1>2. CASE Register(t)
  <2> DEFINE r == IF record[a] = None THEN Nothing ELSE record[a]
             g == [f EXCEPT !.changed = record[a] = None]
  <2>1. Store([record EXCEPT ![a] = r]) /\ End(t, g, "returned")
    BY <1>2, OfTask DEF Register, RecordType, f
  <2>2. r \in Evidences
    BY <1>1, NothingIsEvidence
  <2>3. g \in FrameType /\ g.earned = f.earned /\ g.counted = f.counted /\ g.admitted = f.admitted
    BY <1>1 DEF FrameType
  <2> HIDE DEF g, r
  <2> QED
    BY <1>1, <2>1, <2>2, <2>3, Registers DEF f
<1>3. CASE RegisterFails(t, exception)
  <2> DEFINE k == [f EXCEPT !.changed = TRUE]
             g == Disturbed(k, exception)
             outcome == Raised(g.use, exception)
  <2>1. /\ Store([record EXCEPT ![a] = Nothing]) /\ End(t, g, outcome)
        /\ exception \in Exceptions
    BY <1>3 DEF RegisterFails, f
  <2>2. /\ k \in FrameType /\ k.earned = f.earned /\ k.counted = f.counted
        /\ k.admitted = f.admitted
    BY <1>1 DEF FrameType
  <2> HIDE DEF k
  <2>3. /\ g \in FrameType /\ g.earned = f.earned /\ g.counted = f.counted
        /\ g.admitted = f.admitted /\ g.use = k.use
        /\ Raised(k.use, exception) = "tool_error" => g.disturbed
    BY <2>1, <2>2, ToolErrorsDisturb
  <2>4. outcome \in {"raised", "tool_error"} /\ (outcome = "tool_error" => g.disturbed)
    BY <2>3, RaisedIsOutcome
  <2> HIDE DEF g, outcome
  <2> QED
    BY <1>1, <2>1, <2>3, <2>4, NothingIsEvidence, Registers DEF f
<1> QED
  BY <1>2, <1>3

-----------------------------------------------------------------------------
(* Loops over agents. *)

LEMMA IdsAreListed ==
    ASSUME AdapterInv, NEW t \in Tasks, List(t)
    PROVE  AdapterInv'
<1> DEFINE f == frame[t]
           ids == {a \in Agents : record[a] # None}
           g == [f EXCEPT !.todo = ids]
<1>1. pc[t] = "list" /\ Kept /\ UNCHANGED score /\ Suspend(t, "visit", g)
  BY DEF List
<1>2. /\ f \in FrameType /\ Untouched(f) /\ f.use \in {"select", "rank_tool"} /\ f.found = {}
      /\ f.admitted = {} /\ t \notin Graphs
      /\ \A b \in Agents : record[b] \in since[t][b]
  BY <1>1, OfTask DEF InHand, Seen, Nodes
<1>3. \A b \in Agents : None \in since[t][b] \/ b \in ids
  BY <1>2
<1> HIDE DEF f
<1>4. ids \subseteq Agents
  OBVIOUS
<1> HIDE DEF ids
<1>5. /\ g \in FrameType /\ Untouched(g) /\ g.use = f.use /\ g.admitted = {} /\ g.found = {}
      /\ g.todo = ids
  BY <1>2, <1>4 DEF FrameType, Untouched
<1> HIDE DEF g
<1>6. InHand(t, "visit", g)
  BY <1>2, <1>5 DEF InHand, Nodes
<1>7. "visit" \in Awaits \ {"idle"}
  BY DEF Awaits
<1> QED
  BY <1>1, <1>3, <1>5, <1>6, <1>7, CallGoesOn

LEMMA AgentIsVisited ==
    ASSUME AdapterInv, NEW t \in Tasks, Visit(t)
    PROVE  AdapterInv'
<1> DEFINE f == frame[t]
<1>1. pc[t] = "visit" /\ Kept /\ UNCHANGED score
  BY DEF Visit
<1>2. PICK a \in f.todo :
          Suspend(t, "visit",
                  [f EXCEPT !.todo = @ \ {a},
                            !.found = IF record[a] = None THEN @
                                      ELSE @ \cup {[agent |-> a, trust |-> Trust(record[a])]}])
  BY DEF Visit
<1> DEFINE x == [agent |-> a, trust |-> Trust(record[a])]
           found == IF record[a] = None THEN f.found ELSE f.found \cup {x}
           g == [f EXCEPT !.todo = f.todo \ {a}, !.found = found]
<1>3. /\ f \in FrameType /\ Untouched(f) /\ f.use \in {"select", "filter", "rank_tool"}
      /\ f.admitted = {} /\ t \notin Graphs
      /\ \A b \in Agents : record[b] \in since[t][b]
      /\ \A y \in f.found : \E r \in since[t][y.agent] \ {None} : Trust(r) = y.trust
      /\ f.use = "select" =>
             \A b \in Agents : None \in since[t][b] \/ b \in f.todo
                                   \/ \E y \in f.found : y.agent = b
  BY <1>1, OfTask DEF InHand, Seen, Nodes
<1>4. a \in Agents
  BY <1>2, <1>3 DEF FrameType
<1>5. Suspend(t, "visit", g)
  BY <1>2, <1>3 DEF FrameType
<1> HIDE DEF f
<1>6. x.agent = a /\ x.trust = Trust(record[a])
  OBVIOUS
<1>7. record[a] # None => x \in [agent: Agents, trust: Fractions]
  BY <1>4, TrustIsFraction, OfTask DEF RecordType
<1> HIDE DEF x
<1>8. found \in SUBSET [agent: Agents, trust: Fractions]
  BY <1>3, <1>7 DEF FrameType
<1>9. \A y \in found : \E r \in since[t][y.agent] \ {None} : Trust(r) = y.trust
  BY <1>3, <1>4, <1>6
<1>10. f.use = "select" =>
           \A b \in Agents : None \in since[t][b] \/ b \in f.todo \ {a}
                                 \/ \E y \in found : y.agent = b
  <2>1. SUFFICES ASSUME f.use = "select", NEW b \in Agents, None \notin since[t][b],
                        b \notin f.todo \ {a}
                 PROVE  \E y \in found : y.agent = b
    OBVIOUS
  <2>2. CASE b = a
    BY <1>3, <1>6, <2>1, <2>2
  <2>3. CASE b # a
    BY <1>3, <2>1, <2>3
  <2> QED
    BY <2>2, <2>3
<1> HIDE DEF found
<1>11. /\ g \in FrameType /\ Untouched(g) /\ g.use = f.use /\ g.admitted = {} /\ g.found = found
       /\ g.todo = f.todo \ {a}
  BY <1>3, <1>8 DEF FrameType, Untouched
<1> HIDE DEF g
<1>12. InHand(t, "visit", g)
  BY <1>3, <1>11 DEF InHand, Nodes
<1>13. "visit" \in Awaits \ {"idle"}
  BY DEF Awaits
<1> QED
  BY <1>1, <1>5, <1>9, <1>10, <1>11, <1>12, <1>13, CallGoesOn

(* The best candidate was never less trusted than an agent that was there
   during the whole call: that one was found, and is either a candidate or
   below the threshold. *)
LEMMA BestIsNotBelow ==
    ASSUME NEW found \in SUBSET [agent: Agents, trust: Fractions], NEW seen, NEW b \in Agents,
           NEW x \in found, AtLeast(x.trust, Floor),
           \A y \in found : AtLeast(y.trust, Floor) => AtLeast(x.trust, y.trust),
           \A y \in found : \E r \in seen[y.agent] \ {None} : Trust(r) = y.trust,
           \E y \in found : y.agent = b
    PROVE  NotBelow(seen, x.agent, b)
<1>1. PICK y \in found : y.agent = b
  OBVIOUS
<1>2. x.trust \in Fractions /\ y.trust \in Fractions
  OBVIOUS
<1>3. AtLeast(x.trust, y.trust)
  BY <1>2, ThresholdSeparates
<1>4. PICK r \in seen[x.agent] \ {None} : Trust(r) = x.trust
  OBVIOUS
<1>5. PICK q \in seen[b] \ {None} : Trust(q) = y.trust
  BY <1>1
<1> QED
  BY <1>3, <1>4, <1>5 DEF NotBelow

LEMMA Chooses ==
    ASSUME AdapterInv, NEW t \in Tasks, Choose(t)
    PROVE  AdapterInv'
<1> DEFINE f == frame[t]
           candidates == {x \in f.found : f.use # "rank_tool" /\ AtLeast(x.trust, Floor)}
<1>1. /\ pc[t] = "visit" /\ Kept /\ f.todo = {}
      /\ IF f.use = "select" /\ candidates # {}
         THEN \E x \in candidates :
                  Best(x, candidates) /\ End(t, [f EXCEPT !.admitted = {x.agent}], "selected")
         ELSE End(t, [f EXCEPT !.admitted = {x.agent : x \in candidates}], "returned")
  BY DEF Choose
<1>2. /\ f \in FrameType /\ Untouched(f) /\ f.use \in {"select", "filter", "rank_tool"}
      /\ \A x \in f.found : \E r \in since[t][x.agent] \ {None} : Trust(r) = x.trust
      /\ f.use = "select" =>
             \A b \in Agents : None \in since[t][b] \/ b \in f.todo
                                   \/ \E y \in f.found : y.agent = b
  BY <1>1, OfTask DEF InHand, Seen
<1>3. f.found \in SUBSET [agent: Agents, trust: Fractions]
  BY <1>2 DEF FrameType
<1> HIDE DEF f
<1>4. \A x \in candidates : /\ x.agent \in Agents
                            /\ \E r \in since[t][x.agent] : Trusted(r)
  BY <1>2, <1>3 DEF Trusted
<1>5. "returned" \in Outcomes /\ "selected" \in Outcomes
  BY DEF Outcomes
<1>6. ASSUME NEW s \in SUBSET Agents
      PROVE  LET g == [f EXCEPT !.admitted = s] IN
             g \in FrameType /\ g.admitted = s /\ Untouched(g)
  BY <1>2 DEF FrameType, Untouched
<1>7. CASE f.use = "select" /\ candidates # {}
  <2>1. PICK x \in candidates :
            Best(x, candidates) /\ End(t, [f EXCEPT !.admitted = {x.agent}], "selected")
    BY <1>1, <1>7
  <2> DEFINE g == [f EXCEPT !.admitted = {x.agent}]
  <2>2. g \in FrameType /\ g.admitted = {x.agent} /\ Untouched(g)
    BY <1>4, <1>6
  <2>3. ASSUME NEW b \in Agents, None \notin since[t][b]
        PROVE  NotBelow(since[t], x.agent, b)
    <3>1. \E y \in f.found : y.agent = b
      BY <1>1, <1>2, <1>7, <2>3
    <3>2. \A y \in f.found : AtLeast(y.trust, Floor) => AtLeast(x.trust, y.trust)
      BY <1>7, <2>1 DEF Best
    <3> QED
      BY <1>2, <1>3, <3>1, <3>2, BestIsNotBelow
  <2>4. \A a \in g.admitted : \E r \in since[t][a] : Trusted(r)
    BY <1>4, <2>2
  <2>5. \A a \in g.admitted, b \in Agents : None \notin since[t][b] => NotBelow(since[t], a, b)
    BY <2>2, <2>3
  <2>6. End(t, g, "selected")
    BY <2>1
  <2> HIDE DEF g, candidates
  <2>7. Squared(Result(g, "selected"))
    BY <1>5, <2>2, UntouchedIsSquared
  <2> QED
    BY <1>1, <1>5, <2>2, <2>4, <2>5, <2>6, <2>7, CallEnds
<1>8. CASE ~(f.use = "select" /\ candidates # {})
  <2> DEFINE s == {x.agent : x \in candidates}
             g == [f EXCEPT !.admitted = s]
  <2>1. End(t, g, "returned")
    BY <1>1, <1>8
  <2>2. s \in SUBSET Agents /\ \A a \in s : \E r \in since[t][a] : Trusted(r)
    BY <1>4
  <2> HIDE DEF s, candidates
  <2>3. g \in FrameType /\ g.admitted = s /\ Untouched(g)
    BY <1>6, <2>2
  <2> HIDE DEF g
  <2>4. Squared(Result(g, "returned"))
    BY <1>5, <2>3, UntouchedIsSquared
  <2> QED
    BY <1>1, <1>5, <2>1, <2>2, <2>3, <2>4, CallEnds
<1> QED
  BY <1>7, <1>8

-----------------------------------------------------------------------------
(* Every step keeps the invariant. *)

LEMMA AgentIsForgotten ==
    ASSUME AdapterInv, NEW a \in Agents, Forget(a)
    PROVE  AdapterInv'
<1> DEFINE rec == [record EXCEPT ![a] = None]
<1>1. Store(rec) /\ UNCHANGED <<score, pc, frame>>
  BY DEF Forget
<1>2. rec \in RecordType
  BY DEF AdapterInv, TypeInv, RecordType
<1> HIDE DEF rec
<1>3. /\ record' \in RecordType /\ since' \in SinceType
      /\ \A u \in Tasks :
             /\ Grows(since[u], since'[u])
             /\ Watching(u) => \A b \in Agents : record'[b] \in since'[u][b]
  BY <1>1, <1>2, StoreIsSeen
<1>4. TypeInv'
  BY <1>1, <1>3 DEF AdapterInv, TypeInv, RecordType, SinceType
<1>5. ASSUME NEW u \in Tasks
      PROVE  InHand(u, pc'[u], frame'[u]) /\ Seen(u, pc'[u], frame'[u], since'[u], record')
  <2>1. /\ frame[u] \in FrameType /\ pc' = pc /\ frame' = frame
        /\ InHand(u, pc[u], frame[u]) /\ Seen(u, pc[u], frame[u], since[u], record)
    BY <1>1, OfTask
  <2>2. pc[u] # "idle" \/ u \in Graphs => \A b \in Agents : record'[b] \in since'[u][b]
    BY <1>3 DEF Watching
  <2>3. Seen(u, pc[u], frame[u], since'[u], record')
    BY <1>3, <2>1, <2>2, SeenStaysSeen
  <2> QED
    BY <2>1, <2>3
<1>6. ASSUME NEW g \in Graphs
      PROVE  ScoreIsSeen(pc'[g], score'[g], since'[g])
  <2>1. /\ ScoreIsSeen(pc[g], score[g], since[g]) /\ Grows(since[g], since'[g])
        /\ pc' = pc /\ score' = score
    BY <1>1, <1>3, GraphsAreTasks DEF AdapterInv
  <2> QED
    BY <2>1, ScoreStaysSeen
<1> QED
  BY <1>4, <1>5, <1>6 DEF AdapterInv

LEMMA CallStep ==
    ASSUME AdapterInv, NEW t \in Tasks, Call(t)
    PROVE  AdapterInv'
<1> USE NothingIsEvidence
<1>1. ASSUME NEW e \in Judgements, StartUpdateNode(t, e)
      PROVE  AdapterInv'
  BY <1>1, ReportingStarts, OfTask DEF StartUpdateNode
<1>2. ASSUME NEW a \in Agents, NEW e \in Evidences,
             NEW use \in {"callback", "context", "submit_tool"}, StartReporting(t, use, a, e)
      PROVE  AdapterInv'
  <2>1. Start(t, use) /\ UNCHANGED score
    BY <1>2 DEF StartReporting
  <2>2. use \in IF t \in Graphs THEN Nodes ELSE Uses \ Nodes
    BY <2>1, CallStarts
  <2>3. t \notin Graphs
    BY <2>2 DEF Nodes
  <2> QED
    BY <1>2, <2>3, ReportingStarts
<1>3. ASSUME NEW a \in Agents, NEW e \in Judgements, StartCallback(t, a, e)
      PROVE  AdapterInv'
  BY <1>2, <1>3 DEF StartCallback
<1>4. ASSUME NEW a \in Agents, NEW e \in Amounts, StartContext(t, a, e) \/ StartSubmitTool(t, a, e)
      PROVE  AdapterInv'
  <2>1. e \in Evidences
    BY AmountsAreEvidence DEF Evidences
  <2> QED
    BY <1>2, <1>4, <2>1 DEF StartContext, StartSubmitTool
<1> QED
  BY <1>1, <1>3, <1>4, EdgeStarts, RegisteringStarts, GateStarts, LoopingStarts, WrongCallEnds
  DEF Call

LEMMA ContinueStep ==
    ASSUME AdapterInv, NEW t \in Tasks, Continue(t)
    PROVE  AdapterInv'
BY GetAnswers, GetRaises, ReportReturns, ReportRaises, ScoreIsRefreshed, IdsAreListed,
   AgentIsVisited, Chooses, AwaitFails, FunctionRuns, RegisterEnds
DEF Continue

LEMMA AdapterInit == Init => AdapterInv
<1> SUFFICES ASSUME Init
             PROVE  AdapterInv
  OBVIOUS
<1> DEFINE f == Frame(None, None)
<1>1. /\ record = [a \in Agents |-> Nothing] /\ score = [t \in Graphs |-> None]
      /\ pc = [t \in Tasks |-> "idle"] /\ frame = [t \in Tasks |-> f]
      /\ since = [t \in Tasks |-> [a \in Agents |-> {record[a]}]]
  BY DEF Init
<1>2. f \in FrameType /\ Untouched(f) /\ f.found = {} /\ f.admitted = {}
  BY FrameFields
<1>3. \A a \in Agents : record[a] = Nothing /\ {record[a]} \in SUBSET (Evidences \cup {None})
  BY <1>1, NothingIsEvidence
<1> HIDE DEF f
<1>4. TypeInv
  BY <1>1, <1>2, <1>3, NothingIsEvidence DEF TypeInv, Awaits
<1>5. \A t \in Tasks : InHand(t, pc[t], frame[t])
  BY <1>1, <1>2 DEF InHand, Squared, Untouched
<1>6. \A t \in Tasks : Seen(t, pc[t], frame[t], since[t], record)
  BY <1>1, <1>2 DEF Seen
<1>7. \A t \in Graphs : ScoreIsSeen(pc[t], score[t], since[t])
  BY <1>1 DEF ScoreIsSeen
<1> QED
  BY <1>4, <1>5, <1>6, <1>7 DEF AdapterInv

LEMMA AdapterStep == AdapterInv /\ [Next]_vars => AdapterInv'
<1> SUFFICES ASSUME AdapterInv, [Next]_vars
             PROVE  AdapterInv'
  OBVIOUS
<1>1. CASE UNCHANGED vars
  BY <1>1 DEF vars, AdapterInv, TypeInv
<1>2. ASSUME NEW t \in Tasks, Call(t) \/ Continue(t)
      PROVE  AdapterInv'
  BY <1>2, CallStep, ContinueStep
<1>3. ASSUME NEW a \in Agents, Forget(a)
      PROVE  AdapterInv'
  BY <1>3, AgentIsForgotten
<1> QED
  BY <1>1, <1>2, <1>3 DEF Next, Rest

LEMMA AdapterAlways == Spec => []AdapterInv
BY AdapterInit, AdapterStep, PTL DEF Spec

-----------------------------------------------------------------------------
(* Whoever a gate, an edge, a filter or a selection lets go ahead had met the
   threshold at some moment since the call began, or, in a graph, since the
   graph last reported about the agent: no interleaving of calls, failures and
   deregistrations lets a graph route by a score from before its own report
   (decorators.py:27-37, hooks.py:27-39, edges.py:21-25, nodes.py:32-47,
   middleware.py:18-41). *)
THEOREM AdmissionsAreBacked == Spec => []RoutesAreBacked
<1>1. AdapterInv => RoutesAreBacked
  BY DEF AdapterInv, Seen, RoutesAreBacked
<1> QED
  BY <1>1, AdapterAlways, PTL

(* What is counted of an agent is what it earned: once by a call that returns,
   not at all by one that is refused, and by one that raises never more in its
   favour and at most once more against it, whatever the amounts and whichever
   of the reports failed, before or after its effect (decorators.py:56-72,
   context.py:41-57, callbacks.py:26-44, nodes.py:32-47). *)
THEOREM ReportsCountOnce == Spec => []CountedAsEarned
<1>1. AdapterInv => CountedAsEarned
  <2> SUFFICES ASSUME AdapterInv, NEW t \in Tasks
               PROVE  LET f == frame[t] IN
                      /\ Ended(t, {"returned", "selected"}) => f.counted = f.earned
                      /\ Ended(t, {"refused"}) => ~f.changed
                      /\ Ended(t, {"raised", "tool_error"}) =>
                             \/ f.counted = f.earned
                             \/ f.counted.positive <= f.earned.positive /\ f.counted.negative <= 1
    BY DEF CountedAsEarned
  <2>1. pc[t] = "idle" => Squared(frame[t])
    BY OfTask DEF InHand
  <2> QED
    BY <2>1 DEF Squared, Ended
<1> QED
  BY <1>1, AdapterAlways, PTL

(* The loop of select_agent reads one record at a time while others change
   them, and still no agent that was there all the time was more trusted all
   the time than the selected one ever was (middleware.py:18-32,
   trust_manager.py:775-787). *)
THEOREM SelectionsAreSensible == Spec => []SelectedIsNotDominated
<1>1. AdapterInv => SelectedIsNotDominated
  <2> SUFFICES ASSUME AdapterInv, NEW t \in Tasks, Ended(t, {"selected"}),
                      NEW a \in frame[t].admitted, NEW b \in Agents, None \notin since[t][b]
               PROVE  \E r \in since[t][a] \ {None}, q \in since[t][b] : AtLeast(Trust(r), Trust(q))
    BY DEF SelectedIsNotDominated
  <2>1. NotBelow(since[t], a, b)
    BY OfTask DEF Seen, Ended
  <2> QED
    BY <2>1 DEF NotBelow
<1> QED
  BY <1>1, AdapterAlways, PTL

(* An MCP client that gets a tool error may correct its call and repeat it:
   nothing has been counted, nor registered, unless the error came from a
   subscriber of the manager, whichever errors these raise (tools.py:210-233,
   events.py:64). *)
THEOREM ToolErrorsAreHarmless == Spec => []ToolErrorsChangeNothing
<1>1. AdapterInv => ToolErrorsChangeNothing
  <2> SUFFICES ASSUME AdapterInv, NEW t \in Tasks, Ended(t, {"tool_error"}), ~frame[t].disturbed
               PROVE  ~frame[t].changed
    BY DEF ToolErrorsChangeNothing
  <2> QED
    BY OfTask DEF InHand, Squared, Ended
<1> QED
  BY <1>1, AdapterAlways, PTL
=============================================================================
