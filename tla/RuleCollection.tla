--------------------------- MODULE RuleCollection ---------------------------
(***************************************************************************)
(* Collection with the rules of EvidenceRules: which of them can be        *)
(* constructed, and what they conclude.                                    *)
(***************************************************************************)
EXTENDS Collection, EvidenceRules

(* The constructors: only SchemaValidationRule refuses an argument. *)
Accepted(rule) == rule.name = "schema_validation" => ShapeAccepted[rule.schema]

ASSUME RulesAreTheBuiltIn ==
    \A b \in DOMAIN RuleLists, c \in DOMAIN Contexts :
        \A i \in DOMAIN RuleLists[b] :
            LET rule == RuleLists[b][i]
            IN  /\ Accepts(rule) <=> Accepted(rule)
                /\ Accepted(rule) => Concludes(rule, Contexts[c]) = Evaluate(rule, Contexts[c])

(* Rules look at schemas and values that may occur, scores are numbers, and an
   EvidenceResult is neither an exception nor None. *)
ASSUME RulesAreFedWithJson ==
    /\ \A b \in DOMAIN RuleLists : \A rule \in Range(RuleLists[b]) :
           /\ rule.name \in {"task_completion", "latency", "consensus", "response_quality",
                             "schema_validation"}
           /\ rule.name = "schema_validation" => rule.schema \in SchemaParts
    /\ \A c \in DOMAIN Contexts :
           /\ Has(Contexts[c], "output") => Contexts[c].output \in Json
           /\ \A key \in {"agreement_ratio", "score", "response_quality"} :
                  Lookup(Contexts[c], key) \in Int \cup {None, NaN}
    /\ Error # None /\ \A n \in 0..Whole : Result(n, Whole - n) \notin {Error, None}

Context(s) == Contexts[rules[s][2]]

SchemasOf(s) ==
    {rule.schema : rule \in {r \in Range(RuleLists[rules[s][1]]) : r.name = "schema_validation"}}

(* No rule of the session raised.  If the context has an output, each of its
   schema rules gives it a piece, positive if the output meets its schema and
   negative if it does not, and there is no piece of a schema rule beyond
   these; a rule that grades gives one unit in all, like every other. *)
JudgedByItsSchemas(s) ==
    LET pieces == Range(evidence[s])
        Right(p, schema) ==
            p.by = "schema_validation"
            /\ p.positive = IF Meets[<<Context(s).output, schema>>] THEN Whole ELSE 0
    IN  /\ stage[s] # "lost"
        /\ \A p \in pieces :
             /\ p.positive >= 0 /\ p.negative >= 0 /\ p.positive + p.negative = Whole
             /\ p.by = "schema_validation" => \E schema \in SchemasOf(s) : Right(p, schema)
        /\ Has(Context(s), "output") =>
             \A schema \in SchemasOf(s) : \E p \in pieces : Right(p, schema)

(* Rules judge by the schema, as JSON Schema defines it, and none of them
   raises: if the schemas are well-formed, of each part one type is named, and
   the output has no whole float where an integer is wanted.
   schema_validation.py:66-177, 220-240, consensus.py, response_quality.py. *)
RulesJudgeBySchema ==
    \A s \in Sessions : rules[s] # None =>
        ((\A schema \in SchemasOf(s) :
              /\ Typed[schema]
              /\ Has(Context(s), "output") => NoWholeFloat[<<Context(s).output, schema>>])
            => JudgedByItsSchemas(s))
=============================================================================
