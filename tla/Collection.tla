----------------------------- MODULE Collection -----------------------------
(***************************************************************************)
(* The collectors of evidence/collector.py and the submission of what they *)
(* collect: evidence = await collector.collect(...), and then              *)
(* await manager.submit_batch(evidence).                                   *)
(*                                                                         *)
(* Any number of tasks share one CallbackCollector.  Its callbacks run     *)
(* concurrently under asyncio.gather and end in any order, and others may  *)
(* be added meanwhile.  RuleBasedCollector evaluates its rules without an  *)
(* await; what they conclude is a parameter here, RuleCollection puts the  *)
(* rules of EvidenceRules in its place.  A submission is one step on a     *)
(* record, as TrustManager shows.                                          *)
(***************************************************************************)
EXTENDS Integers, SequencesExt, EvidenceResults

CONSTANTS
    Sessions,       \* tasks that collect and submit, once each
    Labels,         \* the names of callbacks
    Callbacks,      \* the functions
    Answers,        \* what a callback may return
    Pending,        \* it has not yet
    RuleLists,      \* a sequence: the rules a collector is made with
    Contexts,       \* a sequence: the contexts
    Accepts(_),     \* the rule can be constructed
    Concludes(_, _),    \* rule.evaluate(context)
    MaxAdded        \* bound: calls of add_callback

ASSUME AnswersAreNotErrors == Error \notin Answers /\ Pending \notin Answers

ASSUME RuleListsAreLists ==
    \A b \in DOMAIN RuleLists : RuleLists[b] \in Seq(Range(RuleLists[b]))

ASSUME NoneIsNoChoice == None \notin (DOMAIN RuleLists) \X (DOMAIN Contexts)

VARIABLES
    callbacks,  \* CallbackCollector._callbacks, in the order of the dict
    added,      \* bound: calls of add_callback so far
    stage,      \* of a session
    asked,      \* its names and its callbacks, as they were at the beginning
    answers,    \* what asyncio.gather has so far
    rules,      \* the rules and the context of a session with rules, by index
    evidence,   \* the list collect returned; by names who the piece comes from
    next,       \* the number of submissions that have returned
    counted     \* the evidence that the manager has counted

vars == <<callbacks, added, stage, asked, answers, rules, evidence, next, counted>>

session == <<stage, asked, answers, rules, evidence, next, counted>>

-----------------------------------------------------------------------------
(* add_callback: a name that is there keeps its place and gets the callback. *)
AddCallback(name, callback) ==
    /\ added < MaxAdded /\ added' = added + 1
    /\ callbacks' =
           IF \E i \in DOMAIN callbacks : callbacks[i].name = name
           THEN [i \in DOMAIN callbacks |->
                    IF callbacks[i].name = name THEN [callbacks[i] EXCEPT !.callback = callback]
                    ELSE callbacks[i]]
           ELSE Append(callbacks, [name |-> name, callback |-> callback])
    /\ UNCHANGED session

(* CallbackCollector.collect, up to gather: the names and the coroutines. *)
StartCallbacks(s) ==
    /\ stage[s] = "idle"
    /\ stage' = [stage EXCEPT ![s] = "gathering"]
    /\ asked' = [asked EXCEPT ![s] = callbacks]
    /\ answers' = [answers EXCEPT ![s] = [i \in DOMAIN callbacks |-> Pending]]
    /\ UNCHANGED <<callbacks, added, rules, evidence, next, counted>>

(* A callback returns. *)
Answer(s, i, answer) ==
    /\ stage[s] = "gathering" /\ answers[s][i] = Pending
    /\ answers' = [answers EXCEPT ![s][i] = answer]
    /\ UNCHANGED <<callbacks, added, stage, asked, rules, evidence, next, counted>>

(* A callback raises, and gather with it: what the others say is lost. *)
AnswerError(s, i) ==
    /\ stage[s] = "gathering" /\ answers[s][i] = Pending
    /\ stage' = [stage EXCEPT ![s] = "lost"]
    /\ UNCHANGED <<callbacks, added, asked, answers, rules, evidence, next, counted>>

(* _evidence_from_result; Evidence refuses negative amounts. *)
Piece(name, source, result) ==
    [name |-> name, by |-> source, positive |-> result.positive, negative |-> result.negative]

Refused(result) == result # None /\ (result.positive < 0 \/ result.negative < 0)

(* Mutant: the results are filtered before they get their names. *)
PiecesNamedLate(entries, results) ==
    LET upTo[n \in 0..Len(entries)] ==
            IF n = 0 THEN << >>
            ELSE IF results[n] = None THEN upTo[n - 1]
            ELSE Append(upTo[n - 1], Piece(entries[Len(upTo[n - 1]) + 1].name,
                                           entries[n].callback, results[n]))
    IN  upTo[Len(entries)]

(* zip(names, raw_results), without those that said nothing. *)
Pieces(entries, results) ==
    LET upTo[n \in 0..Len(entries)] ==
            IF n = 0 THEN << >>
            ELSE IF results[n] = None THEN upTo[n - 1]
            ELSE Append(upTo[n - 1], Piece(entries[n].name, entries[n].callback, results[n]))
    IN  upTo[Len(entries)]

(* All have answered: collect returns the evidence, or raises
   InvalidEvidenceError. *)
Gathered(s) ==
    /\ stage[s] = "gathering" /\ Pending \notin Range(answers[s])
    /\ IF \E i \in DOMAIN answers[s] : Refused(answers[s][i])
       THEN stage' = [stage EXCEPT ![s] = "lost"] /\ UNCHANGED evidence
       ELSE /\ stage' = [stage EXCEPT ![s] = "submitting"]
            /\ evidence' = [evidence EXCEPT ![s] = Pieces(asked[s], answers[s])]
    /\ UNCHANGED <<callbacks, added, asked, answers, rules, next, counted>>

(* RuleEngine.evaluate, one rule after the other. *)
EvaluateAll(book, context) == [i \in DOMAIN book |-> Concludes(book[i], context)]

(* RuleBasedCollector.collect.  The constructor of a rule may refuse its
   schema, and one rule that raises loses what the others concluded. *)
CollectRules(s, b, c) ==
    LET book    == RuleLists[b]
        results == EvaluateAll(book, Contexts[c])
    IN  /\ stage[s] = "idle" /\ \A i \in DOMAIN book : Accepts(book[i])
        /\ rules' = [rules EXCEPT ![s] = <<b, c>>]
        /\ IF Error \in Range(results)
           THEN stage' = [stage EXCEPT ![s] = "lost"] /\ UNCHANGED evidence
           ELSE /\ stage' = [stage EXCEPT ![s] = "submitting"]
                /\ evidence' = [evidence EXCEPT ![s] =
                        Pieces([i \in DOMAIN book |-> [name |-> None, callback |-> book[i].name]],
                               results)]
        /\ UNCHANGED <<callbacks, added, asked, answers, next, counted>>

-----------------------------------------------------------------------------
Count(s) == counted' = [counted EXCEPT ![s] = Append(@, evidence[s][next[s] + 1])]

(* One round of submit_batch. *)
Submit(s) ==
    /\ stage[s] = "submitting" /\ next[s] < Len(evidence[s])
    /\ next' = [next EXCEPT ![s] = @ + 1]
    /\ Count(s)
    /\ UNCHANGED <<callbacks, added, stage, asked, answers, rules, evidence>>

(* Mutant: submit_batch goes on after a piece that failed. *)
AfterFailedGoOn(s) == next' = [next EXCEPT ![s] = @ + 1] /\ UNCHANGED stage

(* The exception leaves submit_batch, with the rest unsubmitted. *)
AfterFailed(s) == stage' = [stage EXCEPT ![s] = "raised"] /\ UNCHANGED next

(* A submission raises, before or after its effect. *)
SubmitFails(s, effect) ==
    /\ stage[s] = "submitting" /\ next[s] < Len(evidence[s])
    /\ AfterFailed(s)
    /\ IF effect THEN Count(s) ELSE UNCHANGED counted
    /\ UNCHANGED <<callbacks, added, asked, answers, rules, evidence>>

Return(s) ==
    /\ stage[s] = "submitting" /\ next[s] = Len(evidence[s])
    /\ stage' = [stage EXCEPT ![s] = "returned"]
    /\ UNCHANGED <<callbacks, added, asked, answers, rules, evidence, next, counted>>

Ended(s) == stage[s] \in {"returned", "lost", "raised"}

Rest == (\A s \in Sessions : Ended(s)) /\ UNCHANGED vars

Init ==
    /\ callbacks = << >> /\ added = 0
    /\ stage = [s \in Sessions |-> "idle"]
    /\ asked = [s \in Sessions |-> << >>]
    /\ answers = [s \in Sessions |-> << >>]
    /\ rules = [s \in Sessions |-> None]
    /\ evidence = [s \in Sessions |-> << >>]
    /\ next = [s \in Sessions |-> 0]
    /\ counted = [s \in Sessions |-> << >>]

Next ==
    \/ \E name \in Labels, callback \in Callbacks : AddCallback(name, callback)
    \/ \E s \in Sessions :
        \/ StartCallbacks(s) \/ Gathered(s) \/ Submit(s) \/ Return(s)
        \/ \E i \in DOMAIN answers[s] :
               AnswerError(s, i) \/ \E answer \in Answers : Answer(s, i, answer)
        \/ \E b \in DOMAIN RuleLists, c \in DOMAIN Contexts : CollectRules(s, b, c)
        \/ \E effect \in BOOLEAN : SubmitFails(s, effect)
    \/ Rest

Spec == Init /\ [][Next]_vars

-----------------------------------------------------------------------------
(* Every piece names its source: whatever order the callbacks end in and
   whatever is added meanwhile, the pieces of a collection are the answers of
   the callbacks there were when it began, once each, in their order and under
   the names they had then; only those that said nothing are missing
   (collector.py:79-93). *)
EvidenceNamesItsSource ==
    \A s \in Sessions : stage[s] \notin {"idle", "gathering", "lost"} /\ rules[s] = None =>
        LET said == {i \in DOMAIN asked[s] : answers[s][i] # None}
        IN  /\ Len(evidence[s]) = Cardinality(said)
            /\ \A i \in said :
                   LET k == Cardinality({j \in said : j <= i})
                   IN  evidence[s][k] =
                           [name     |-> asked[s][i].name,
                            by       |-> asked[s][i].callback,
                            positive |-> answers[s][i].positive,
                            negative |-> answers[s][i].negative]

(* A batch counts a prefix: each piece at most once and in order, all of them
   when submit_batch returns, and when it raises at most one more than had
   returned.  A collection that raised counts nothing.
   trust_manager.py:286-291, collector.py:48-93. *)
BatchCountsAPrefix ==
    \A s \in Sessions :
        /\ IsPrefix(counted[s], evidence[s])
        /\ Len(counted[s]) - next[s] \in {0, 1}
        /\ stage[s] = "returned" => counted[s] = evidence[s]
        /\ stage[s] = "lost" => counted[s] = << >>
=============================================================================
