------------------------------ MODULE Adapters ------------------------------
(***************************************************************************)
(* The adapters of integrations/: they ask a manager for trust before a    *)
(* framework runs an agent, and report afterwards how it went.             *)
(*                                                                         *)
(* The manager is what TrustManager and EvidenceAccount show it to be: a   *)
(* submission is one step on one record, and a record is worth its counts. *)
(* Every await of an adapter is a call of the manager or of the function   *)
(* it wraps; between them other tasks run, and each may raise, a call that *)
(* writes also after it took effect.  A task runs one adapter at a time.   *)
(***************************************************************************)
EXTENDS Integers, FiniteSets

CONSTANTS
    Agents,
    Tasks,
    Graphs,         \* the tasks that run a LangGraph graph, each with its state
    Subject,        \* the agent their nodes and edges are made for
    Uses,           \* which adapters the other tasks use
    Amounts,        \* the evidence that a TrustContext or an MCP client names
    None,           \* no record
    PriorWeight,    \* W of the evidence mapping
    Floor,          \* the threshold, a fraction
    SubscriberErrors,   \* exceptions of event handlers and callbacks of the manager
    MaxCalls        \* bound: adapter calls

ASSUME GraphsAreTasks == Graphs \subseteq Tasks /\ Subject \in Agents

ASSUME NodesAreOfGraphs == Uses \cap {"gate_node", "update_node", "edge"} = {}

ASSUME AmountsAreEvidence == Amounts \subseteq [positive: Nat, negative: Nat]

ASSUME FloorIsFraction == PriorWeight \in Nat \ {0} /\ Floor \in Nat \X (Nat \ {0})

VARIABLES
    record,     \* the manager's store
    score,      \* trust_scores[Subject] in the state of a graph
    pc,         \* the await at which a task is suspended
    frame,      \* its local variables; the result of its last call
    since,      \* history: the records of an agent since a task's call began,
                \* in a graph since it last reported about the agent itself
    started     \* bound: calls so far

vars == <<record, score, pc, frame, since, started>>

Counts(p, n) == [positive |-> p, negative |-> n]

Nothing == Counts(0, 0)

(* The evidence of a callback: on_success or on_failure. *)
Judgements == {Counts(1, 0), Counts(0, 1)}

Plus(e, f) == Counts(e.positive + f.positive, e.negative + f.negative)

(* record.trustworthiness, a fraction. *)
Trust(r) == <<2 * r.positive + PriorWeight, 2 * (r.positive + r.negative + PriorWeight)>>

AtLeast(p, q) == p[1] * q[2] >= q[1] * p[2]

Trusted(r) == r # None /\ AtLeast(Trust(r), Floor)

-----------------------------------------------------------------------------
(* The local variables of a call: earned is what its agent has deserved, due
   what it submits next, counted what the manager has counted of it, changed
   whether it has changed the store, disturbed whether a subscriber of the
   manager has raised, admitted the agents it lets go ahead; todo and found are
   those of a loop over agents. *)
Frame(use, agent) ==
    [use |-> use, agent |-> agent, outcome |-> None, earned |-> Nothing, due |-> Nothing,
     counted |-> Nothing, changed |-> FALSE, disturbed |-> FALSE, admitted |-> {},
     todo |-> {}, found |-> {}]

(* Task t waits for await. *)
Suspend(t, await, f) == pc' = [pc EXCEPT ![t] = await] /\ frame' = [frame EXCEPT ![t] = f]

(* What is left of a call that ends. *)
Result(f, outcome) ==
    [f EXCEPT !.outcome = outcome, !.use = None, !.agent = None, !.due = Nothing,
              !.todo = {}, !.found = {}]

(* The call of t ends; a graph does not survive an exception of its node. *)
End(t, f, outcome) ==
    /\ Suspend(t, "idle", Result(f, outcome))
    /\ score' = IF t \in Graphs /\ outcome = "raised"
                 THEN [score EXCEPT ![t] = None] ELSE score

(* The history follows the calls under way, and graphs. *)
Watching(t) == pc[t] # "idle" \/ t \in Graphs

(* The store becomes rec. *)
Store(rec) ==
    /\ record' = rec
    /\ since' = [t \in Tasks |-> [a \in Agents |->
                    since[t][a] \cup IF Watching(t) THEN {rec[a]} ELSE {}]]

Kept == UNCHANGED <<record, since>>

(* Mutant: TrustMCPWrapper.call_tool normalizes every exception. *)
DispatchedAll(exception) == "tool_error"

(* TrustMCPWrapper.call_tool: which exceptions become an MCPToolError. *)
Dispatched(exception) ==
    IF exception \in {"MCPToolError", "KeyError", "AgentNotFoundError"}
    THEN "tool_error" ELSE "raised"

(* What the caller of an adapter gets when exception is raised in it. *)
Raised(use, exception) ==
    IF use \in {"get_tool", "is_trusted_tool", "submit_tool", "register_tool", "rank_tool"}
    THEN Dispatched(exception) ELSE "raised"

-----------------------------------------------------------------------------
(* The call of an adapter begins, up to its first await.  A plain call
   looks at the store from now on. *)
Start(t, use) ==
    /\ pc[t] = "idle" /\ started < MaxCalls /\ started' = started + 1
    /\ use \in IF t \in Graphs THEN {"gate_node", "update_node", "edge"} ELSE Uses
    /\ record' = record
    /\ since' = IF t \in Graphs THEN since
                ELSE [since EXCEPT ![t] = [a \in Agents |-> {record[a]}]]

(* trust_aware, the hooks and callbacks that run before an agent, the
   guardrail, the handlers of get_agent_trust for Anthropic and OpenAI, and the
   gate node get the trust of their agent. *)
StartGate(t, use, agent) ==
    /\ use \in {"decorated", "hook", "gate_node"}
    /\ t \in Graphs => agent = Subject
    /\ Start(t, use)
    /\ Suspend(t, "get", Frame(use, agent)) /\ UNCHANGED score

(* get_trust, explain_trust and is_trusted of MCP. *)
StartQuery(t, use, agent) ==
    /\ use \in {"get_tool", "is_trusted_tool"}
    /\ Start(t, use)
    /\ Suspend(t, "get", Frame(use, agent)) /\ UNCHANGED score

(* trust_edge uses the score in the state, if there is one. *)
StartEdge(t) ==
    /\ Start(t, "edge")
    /\ LET f == Frame("edge", Subject) IN
       IF score[t] = None THEN Suspend(t, "get", f) /\ UNCHANGED score
       ELSE End(t, [f EXCEPT !.admitted = IF AtLeast(score[t], Floor)
                                          THEN {Subject} ELSE {}], "returned")

(* The call submits e about agent. *)
StartReporting(t, use, agent, e) ==
    /\ Start(t, use)
    /\ Suspend(t, "report", [Frame(use, agent) EXCEPT !.earned = e, !.due = e])
    /\ UNCHANGED score

(* The callbacks after a task. *)
StartCallback(t, agent, e) == e \in Judgements /\ StartReporting(t, "callback", agent, e)

(* trust_update_node with a decision about its agent. *)
StartUpdateNode(t, e) ==
    t \in Graphs /\ e \in Judgements /\ StartReporting(t, "update_node", Subject, e)

(* TrustContext after its block.  (A context that has recorded nothing submits
   nothing; an exception of its block goes on, counted as a negative.) *)
StartContext(t, agent, e) == e \in Amounts /\ StartReporting(t, "context", agent, e)

(* submit_evidence of MCP. *)
StartSubmitTool(t, agent, e) == e \in Amounts /\ StartReporting(t, "submit_tool", agent, e)

(* register_agent of MCP. *)
StartRegistering(t, agent) ==
    /\ Start(t, "register_tool")
    /\ Suspend(t, "register", Frame("register_tool", agent)) /\ UNCHANGED score

(* select_agent and rank_agents ask the store for the ids, filter_trusted
   gets its own. *)
StartLooping(t, use) ==
    /\ use \in {"select", "filter", "rank_tool"}
    /\ Start(t, use)
    /\ Suspend(t, IF use = "filter" THEN "visit" ELSE "list",
               [Frame(use, None) EXCEPT !.todo = Agents])
    /\ UNCHANGED score

(* An unknown tool, an argument that is missing, and evidence that is refused
   by its constructor (InvalidEvidenceError, ValueError of float). *)
StartWrongly(t, exception) ==
    /\ Start(t, "submit_tool")
    /\ End(t, Frame("submit_tool", None), Raised("submit_tool", exception))

-----------------------------------------------------------------------------
(* get_trust answers.  A decorated function runs next, or the refusal is
   explained; a hook raises TrustThresholdError, check, edge and is_trusted
   say yes or no. *)
Get(t) ==
    /\ pc[t] = "get" /\ record[frame[t].agent] # None
    /\ LET f    == frame[t]
           a    == f.agent
           pass == Trusted(record[a])
           g    == [f EXCEPT !.admitted = IF pass THEN {a} ELSE {}]
       IN  CASE f.use = "decorated" ->
                    Suspend(t, IF pass THEN "run" ELSE "explain", g) /\ UNCHANGED score
             [] f.use = "gate_node" ->
                    /\ Suspend(t, "idle", Result(f, "returned"))
                    /\ score' = [score EXCEPT ![t] = Trust(record[a])]
             [] f.use = "hook" -> End(t, g, IF pass THEN "returned" ELSE "refused")
             [] OTHER -> End(t, g, "returned")
    /\ Kept /\ UNCHANGED started

(* There is no record: get_trust raises, is_trusted is False. *)
GetNothing(t) ==
    /\ pc[t] = "get" /\ record[frame[t].agent] = None
    /\ End(t, frame[t], IF frame[t].use = "is_trusted_tool" THEN "returned"
                        ELSE Raised(frame[t].use, "AgentNotFoundError"))
    /\ Kept /\ UNCHANGED started

(* explain_trust answers or raises; either way TrustThresholdError follows. *)
Explain(t) ==
    /\ pc[t] = "explain" /\ End(t, frame[t], "refused")
    /\ Kept /\ UNCHANGED started

(* The decorated function returns or raises. *)
Run(t, success) ==
    /\ pc[t] = "run"
    /\ LET e == IF success THEN Counts(1, 0) ELSE Counts(0, 1)
       IN  Suspend(t, "report", [frame[t] EXCEPT !.earned = e, !.due = e])
    /\ Kept /\ UNCHANGED <<score, started>>

(* submit_evidence takes effect on the record of t's agent, which it makes if
   there is none.  A graph that has reported looks at the agent anew. *)
Count(t) ==
    LET f == frame[t]
        r == record[f.agent]
        q == Plus(IF r = None THEN Nothing ELSE r, f.due)
    IN  /\ record' = [record EXCEPT ![f.agent] = q]
        /\ since' = [u \in Tasks |-> [a \in Agents |->
                        IF u = t /\ t \in Graphs /\ a = f.agent THEN {q}
                        ELSE since[u][a] \cup IF Watching(u) THEN {record'[a]} ELSE {}]]

Counted(f) == [f EXCEPT !.counted = Plus(@, f.due), !.changed = TRUE]

(* Mutant: trust_update_node leaves the score as it is. *)
RefreshesNever(use) == FALSE

(* trust_update_node reads the trust again. *)
Refreshes(use) == use = "update_node"

(* submit_evidence returns.  collect_evidence now re-raises if its function
   has failed, or its report. *)
Report(t) ==
    /\ pc[t] = "report"
    /\ LET f == frame[t] IN
       IF Refreshes(f.use) THEN Suspend(t, "refresh", Counted(f)) /\ UNCHANGED score
       ELSE End(t, Counted(f),
                IF f.use = "decorated" /\ f.due.negative > 0 THEN "raised" ELSE "returned")
    /\ Count(t) /\ UNCHANGED started

(* Mutant: collect_evidence repeats the report that failed. *)
AfterFailureSame(f) == [f EXCEPT !.due = f.earned]

(* The report of a success has failed: collect_evidence takes that for a
   failure of its function. *)
AfterFailure(f) == [f EXCEPT !.due = Counts(0, 1)]

(* What a call of the manager that writes may raise: a store or ledger that
   fails, or whatever an event handler (events.py:64) or a synchronous callback
   of the manager raises. *)
Exceptions == {"StoreError"} \cup SubscriberErrors

Disturbed(f, exception) == [f EXCEPT !.disturbed = @ \/ exception \in SubscriberErrors]

(* submit_evidence raises, before or after it took effect: the callback for
   submissions comes first, the ledger, the other callback and the events come
   after the put. *)
ReportFails(t, effect, exception) ==
    /\ pc[t] = "report" /\ exception \in Exceptions
    /\ LET f == Disturbed(IF effect THEN Counted(frame[t]) ELSE frame[t], exception) IN
       IF f.use = "decorated" /\ f.due.positive > 0
       THEN Suspend(t, "report", AfterFailure(f)) /\ UNCHANGED score
       ELSE End(t, f, Raised(f.use, exception))
    /\ IF effect THEN Count(t) ELSE Kept
    /\ UNCHANGED started

(* The score in the state of the graph is replaced. *)
Refresh(t) ==
    /\ pc[t] = "refresh" /\ record[Subject] # None
    /\ Suspend(t, "idle", Result(frame[t], "returned"))
    /\ score' = [score EXCEPT ![t] = Trust(record[Subject])]
    /\ Kept /\ UNCHANGED started

(* register_agent makes the record, if there is none. *)
Register(t) ==
    /\ pc[t] = "register"
    /\ LET a   == frame[t].agent
           new == record[a] = None
       IN  /\ Store([record EXCEPT ![a] = IF new THEN Nothing ELSE @])
           /\ End(t, [frame[t] EXCEPT !.changed = new], "returned")
    /\ UNCHANGED started

(* It raises after it has made the record: the put, or a handler of the event
   that follows. *)
RegisterFails(t, exception) ==
    /\ pc[t] = "register" /\ exception \in Exceptions
    /\ LET a == frame[t].agent
           f == Disturbed([frame[t] EXCEPT !.changed = TRUE], exception)
       IN  /\ record[a] = None
           /\ Store([record EXCEPT ![a] = Nothing])
           /\ End(t, f, Raised(f.use, exception))
    /\ UNCHANGED started

(* list_agents. *)
List(t) ==
    /\ pc[t] = "list"
    /\ Suspend(t, "visit", [frame[t] EXCEPT !.todo = {a \in Agents : record[a] # None}])
    /\ Kept /\ UNCHANGED <<score, started>>

(* One round of the loop.  The order of the ids is the caller's or the
   store's.  rank_agents passes over an agent that has gone, filter_trusted
   raises (see VisitNothing). *)
Visit(t) ==
    /\ pc[t] = "visit"
    /\ \E a \in frame[t].todo :
        /\ frame[t].use = "filter" => record[a] # None
        /\ Suspend(t, "visit",
                   [frame[t] EXCEPT
                       !.todo = @ \ {a},
                       !.found = IF record[a] = None THEN @
                                 ELSE @ \cup {[agent |-> a, trust |-> Trust(record[a])]}])
    /\ Kept /\ UNCHANGED <<score, started>>

VisitNothing(t) ==
    /\ pc[t] = "visit" /\ frame[t].use = "filter"
    /\ \E a \in frame[t].todo : record[a] = None
    /\ End(t, frame[t], "raised")
    /\ Kept /\ UNCHANGED started

(* Mutant: the first candidate, of a ranking that is not sorted. *)
BestUnsorted(x, candidates) == TRUE

(* x is first in a ranking, of agents with equal trust any. *)
Best(x, candidates) == \A y \in candidates : AtLeast(x.trust, y.trust)

(* All are visited: select_agent returns the first of those that reach
   min_trust, or None, filter_trusted all of them; rank_agents of MCP lets
   nobody go ahead. *)
Choose(t) ==
    /\ pc[t] = "visit" /\ frame[t].todo = {}
    /\ LET f == frame[t]
           candidates == {x \in f.found : f.use # "rank_tool" /\ AtLeast(x.trust, Floor)}
       IN  IF f.use = "select" /\ candidates # {}
           THEN \E x \in candidates :
                    Best(x, candidates)
                        /\ End(t, [f EXCEPT !.admitted = {x.agent}], "selected")
           ELSE End(t, [f EXCEPT !.admitted = {x.agent : x \in candidates}], "returned")
    /\ Kept /\ UNCHANGED started

(* An await that only reads raises, or one that writes raises at once. *)
Fail(t) ==
    /\ pc[t] \in {"get", "refresh", "register", "list", "visit"}
    /\ End(t, frame[t], Raised(frame[t].use, "StoreError"))
    /\ Kept /\ UNCHANGED started

(* Somebody deregisters an agent.  It has no record when trust is read again
   after a report: get_trust raises. *)
Forget(a) ==
    /\ record[a] # None
    /\ Store([record EXCEPT ![a] = None])
    /\ UNCHANGED <<score, pc, frame, started>>

Rest == started = MaxCalls /\ (\A t \in Tasks : pc[t] = "idle") /\ UNCHANGED vars

Init ==
    /\ record = [a \in Agents |-> Nothing]
    /\ score = [t \in Graphs |-> None]
    /\ pc = [t \in Tasks |-> "idle"]
    /\ frame = [t \in Tasks |-> Frame(None, None)]
    /\ since = [t \in Tasks |-> [a \in Agents |-> {record[a]}]]
    /\ started = 0

Call(t) ==
    \/ StartEdge(t) \/ \E a \in Agents : StartRegistering(t, a)
    \/ \E a \in Agents, use \in Uses \cup {"gate_node"} :
            StartGate(t, use, a) \/ StartQuery(t, use, a)
    \/ \E use \in Uses : StartLooping(t, use)
    \/ \E e \in Judgements : StartUpdateNode(t, e) \/ \E a \in Agents : StartCallback(t, a, e)
    \/ \E a \in Agents, e \in Amounts : StartContext(t, a, e) \/ StartSubmitTool(t, a, e)
    \/ \E exception \in {"MCPToolError", "KeyError", "InvalidEvidenceError"} :
            StartWrongly(t, exception)

Continue(t) ==
    \/ Get(t) \/ GetNothing(t) \/ Explain(t) \/ Report(t) \/ Refresh(t)
    \/ List(t) \/ Visit(t) \/ VisitNothing(t) \/ Choose(t) \/ Fail(t)
    \/ \E success \in BOOLEAN : Run(t, success)
    \/ Register(t)
    \/ \E exception \in Exceptions :
            \/ RegisterFails(t, exception)
            \/ \E effect \in BOOLEAN : ReportFails(t, effect, exception)

Next ==
    \/ \E t \in Tasks : Call(t) \/ Continue(t)
    \/ \E a \in Agents : Forget(a)
    \/ Rest

Spec == Init /\ [][Next]_vars

-----------------------------------------------------------------------------
Ended(t, outcomes) == pc[t] = "idle" /\ frame[t].outcome \in outcomes

(* An agent goes ahead only on trust it had: whoever a gate, guard, edge,
   filter or selection lets go ahead has met the threshold at some moment
   since the call began; at an edge, which may use the score of an earlier
   node, since the graph itself last reported about the agent.  So no graph
   routes by a score from before its own report.
   decorators.py:27-37, hooks.py:27-39, edges.py:21-25, nodes.py:32-47,
   middleware.py:18-41. *)
RoutesAreBacked ==
    \A t \in Tasks : \A a \in frame[t].admitted : \E r \in since[t][a] : Trusted(r)

(* What is counted is what was earned: a call that returns has been counted
   once, exactly as it deserved; one that is refused not at all; and one that
   raises never more in favour of the agent than it deserved, and against it
   at most once more, whichever of its reports failed, with or without effect.
   decorators.py:56-72, context.py:41-57, callbacks.py:26-44, nodes.py:32-47. *)
CountedAsEarned ==
    \A t \in Tasks :
        LET f == frame[t] IN
        /\ Ended(t, {"returned", "selected"}) => f.counted = f.earned
        /\ Ended(t, {"refused"}) => ~f.changed
        /\ Ended(t, {"raised", "tool_error"}) =>
               \/ f.counted = f.earned
               \/ f.counted.positive <= f.earned.positive /\ f.counted.negative <= 1

(* The ranking is not a snapshot, but its winner is a sensible one: no agent
   that had a record during the whole call was more trusted during the whole
   call than the selected one ever was (middleware.py:18-32,
   trust_manager.py:775-787). *)
SelectedIsNotDominated ==
    \A t \in Tasks : Ended(t, {"selected"}) =>
        \A a \in frame[t].admitted, b \in Agents :
            None \notin since[t][b] =>
                \E r \in since[t][a] \ {None}, q \in since[t][b] : AtLeast(Trust(r), Trust(q))

(* A tool error changes nothing, unless it comes from a subscriber of the
   manager: an MCP client that gets one may correct its call and repeat it
   without being counted twice.  Failures of the store, which may come after
   the effect, are not reported as tool errors (tools.py:210-233). *)
ToolErrorsChangeNothing ==
    \A t \in Tasks : Ended(t, {"tool_error"}) /\ ~frame[t].disturbed => ~frame[t].changed
=============================================================================
