---------------------------- MODULE MCCollection ----------------------------
(* A small instance of RuleCollection: one callback collector with three names
   and two functions, and rules over schemas, most of them typed throughout. *)
EXTENDS RuleCollection

MCAnswers == {None, Good, Result(1, 1), Result(-1, 0)}

(* An answer with a text and an optional confidence in percent; bounds of
   numbers are counted in halves. *)
Reply ==
    [type |-> <<"object">>, required |-> {"answer"},
     properties |-> <<[name |-> "answer", schema |-> [type |-> <<"string">>, minLength |-> 1]],
                      [name |-> "percent",
                       schema |-> [type |-> <<"integer">>, minimum |-> 0, maximum |-> 200]]>>]

List(items) == [type |-> <<"array">>, items |-> items]

Schemas == <<
    Reply, List(Reply), List([type |-> <<"number">>, maximum |-> 4]),
    [type |-> <<"integer">>, enum |-> <<Number(1), Number(2)>>],
    [type |-> <<"string">>, maxLength |-> 2, pattern |-> {0, 2, 3}],
    [type |-> <<"boolean">>], [type |-> <<"null">>],
    \* not typed throughout
    [type |-> <<"string", "null">>], [enum |-> <<Number(1), Null>>],
    \* a type nobody knows, where the constructor looks and where it does not
    [type |-> <<"text">>],
    [properties |-> <<[name |-> "answer", schema |-> [type |-> <<"text">>]]>>],
    \* malformed where the constructor looks and where it does not
    [enum |-> Malformed], [required |-> {"answer"}, pattern |-> Malformed],
    [type |-> <<"array">>, items |-> [type |-> <<"object">>, properties |-> Malformed]],
    [type |-> <<"number">>, minimum |-> Malformed],
    [properties |-> <<[name |-> "percent",
                       schema |-> [required |-> Malformed, enum |-> Malformed]]>>],
    [items |-> Malformed, properties |-> Malformed, maxLength |-> Malformed] >>

Rule(name) == [name |-> name]

SchemaRules ==
    [i \in DOMAIN Schemas |->
        <<Rule("task_completion"), [name |-> "schema_validation", schema |-> Schemas[i]]>>]

MCRuleLists ==
    SchemaRules \o << <<Rule("latency"), Rule("consensus")>>, <<Rule("response_quality")>> >>

Outputs == <<
    Number(0), Number(1), Number(3), Float(2), Float(3), Boolean(1), Text(0), Text(2), Text(3), Null,
    Array(<<Number(1), Number(2)>>), Array(<<Boolean(1)>>),
    Object([answer |-> Text(2)]), Object([answer |-> Text(0)]),
    Object([percent |-> Number(1)]), Object([answer |-> Text(1), percent |-> Boolean(1)]),
    Object([answer |-> Text(1), percent |-> Number(100)]),
    Array(<<Object([answer |-> Text(1)]), Object([answer |-> Null])>>) >>

MCContexts ==
    [i \in DOMAIN Outputs |-> [output |-> Outputs[i], success |-> i % 2]] \o
    << [success |-> None],
       [latency_ms |-> 2, agreement_ratio |-> 3, score |-> None, response_quality |-> 2],
       [latency_ms |-> 3, agreement_ratio |-> 1, response_quality |-> -1],
       [latency_ms |-> NaN, agreement_ratio |-> NaN, score |-> NaN] >>

(* The values and schemas above with all their parts. *)
RECURSIVE ValuesIn(_)
ValuesIn(v) ==
    {v} \cup CASE v.kind = "list" -> UNION {ValuesIn(v.items[i]) : i \in DOMAIN v.items}
               [] v.kind = "dict" -> UNION {ValuesIn(v.at[key]) : key \in DOMAIN v.at}
               [] OTHER -> {}

SubSchemas(schema) ==
    (IF Has(schema, "items") /\ ~Broken(schema, "items") THEN {schema.items} ELSE {})
        \cup IF Has(schema, "properties") /\ ~Broken(schema, "properties")
             THEN {p.schema : p \in Range(schema.properties)} ELSE {}

RECURSIVE PartsOf(_)
PartsOf(schema) == {schema} \cup UNION {PartsOf(part) : part \in SubSchemas(schema)}

RECURSIVE Depth(_)
Depth(schema) == Max({0} \cup {1 + Depth(part) : part \in SubSchemas(schema)})

MCSchemaParts == UNION {PartsOf(Schemas[i]) : i \in DOMAIN Schemas}

MCNesting == [schema \in MCSchemaParts |-> Depth(schema)]

MCJson ==
    UNION {ValuesIn(Outputs[i]) : i \in DOMAIN Outputs}
        \cup UNION {Range(schema.enum) : schema \in
                        {x \in MCSchemaParts : Has(x, "enum") /\ ~Broken(x, "enum")}}
=============================================================================
