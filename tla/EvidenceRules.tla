--------------------------- MODULE EvidenceRules ---------------------------
(***************************************************************************)
(* The rules of evidence/: what they conclude from a context, and what a   *)
(* schema of SchemaValidationRule means.                                   *)
(*                                                                         *)
(* A JSON value is a record with a kind; of a string only the length       *)
(* matters, and numbers are counted in halves, so that a float may be      *)
(* whole or not.  Schemas and contexts are records that have the keys of   *)
(* the dict, and properties is a sequence of pairs, as a dict is iterated. *)
(* A keyword may have a value of a type it cannot have.                    *)
(* Values and schemas nest.  What is computed by descending into them is a *)
(* function on those that may occur: what it is of one is an operator of   *)
(* what it is of the parts.                                                *)
(***************************************************************************)
EXTENDS Integers, SequencesExt, EvidenceResults

CONSTANTS
    NaN,        \* the float that compares with nothing
    Malformed,  \* of a keyword: a text where it is a bound, else a number
    Whole,      \* one unit of evidence, in the fraction that scores are given
    MaxLatency, \* threshold_ms
    Json,       \* the values that may occur, with all their parts
    SchemaParts,    \* the schemas that may occur, with all their parts
    Nesting     \* how deep a schema nests: it ends, or no rule could be made of it

ASSUME WholeIsPositive == Whole \in Nat \ {0}

Names == {"object", "array", "string", "number", "integer", "boolean", "null"}

Keywords == {"type", "required", "properties", "items", "enum", "minimum", "maximum",
             "minLength", "maxLength", "pattern"}

Has(dict, key) == key \in DOMAIN dict

Broken(schema, key) == Has(schema, key) /\ schema[key] = Malformed

WellFormed(schema) == \A key \in DOMAIN schema : ~Broken(schema, key)

ASSUME JsonHasItsParts ==
    \A v \in Json :
        /\ v.kind \in {"null", "bool", "int", "float", "str", "list", "dict"}
        /\ v.kind \in {"bool", "int", "float"} => v.number \in Int
        /\ v.kind \in {"bool", "int"} => v.number % 2 = 0
        /\ v.kind = "str" => v.length \in Nat
        /\ v.kind = "list" => v.items \in Seq(Json)
        /\ v.kind = "dict" => \A key \in DOMAIN v.at : v.at[key] \in Json

(* An enum lists values that are not containers, and a property has a dict. *)
ASSUME SchemasHaveTheirParts ==
    /\ Nesting \in [SchemaParts -> Nat]
    /\ \A s \in SchemaParts : \A key \in DOMAIN s : ~Broken(s, key) =>
        /\ key = "type" => s.type \in Seq(STRING)
        /\ key = "enum" => \A w \in Range(s.enum) : w \in Json /\ w.kind \notin {"list", "dict"}
        /\ key \in {"minimum", "maximum", "minLength", "maxLength"} => s[key] \in Int
        /\ key = "properties" =>
               /\ s.properties \in Seq(Range(s.properties))
               /\ \A p \in Range(s.properties) :
                      p.schema \in SchemaParts /\ Nesting[p.schema] < Nesting[s]
        /\ key = "items" => s.items \in SchemaParts /\ Nesting[s.items] < Nesting[s]

-----------------------------------------------------------------------------
Number(n) == [kind |-> "int", number |-> 2 * n]

Boolean(n) == [kind |-> "bool", number |-> 2 * n]

Float(halves) == [kind |-> "float", number |-> halves]

Text(n) == [kind |-> "str", length |-> n]

Null == [kind |-> "null"]

Array(s) == [kind |-> "list", items |-> s]

Object(f) == [kind |-> "dict", at |-> f]

(* Python's ==, of values that are not containers. *)
Equal(v, w) ==
    \/ v.kind \in {"int", "bool", "float"} /\ w.kind \in {"int", "bool", "float"}
           /\ v.number = w.number
    \/ v.kind = "str" /\ w.kind = "str" /\ v.length = w.length
    \/ v.kind = "null" /\ w.kind = "null"

(* Mutant: isinstance(True, int). *)
KindsBoolIsInt(name) ==
    CASE name = "null" -> {"null"} [] name = "boolean" -> {"bool"}
      [] name = "integer" -> {"int", "bool"} [] name = "number" -> {"int", "float"}
      [] name = "string" -> {"str"} [] name = "array" -> {"list"} [] name = "object" -> {"dict"}

(* _matches_type: the kinds of value a type name admits. *)
Kinds(name) ==
    CASE name = "null" -> {"null"} [] name = "boolean" -> {"bool"}
      [] name = "integer" -> {"int"} [] name = "number" -> {"int", "float"}
      [] name = "string" -> {"str"} [] name = "array" -> {"list"} [] name = "object" -> {"dict"}

(* _validate_schema_shape accepts the schema when the rule is constructed.  It
   descends only where a type says that there may be an object or an array, and
   looks at no bound. *)
ShapeIsFine(schema, accepted) ==
    /\ DOMAIN schema \subseteq Keywords
    /\ \A key \in {"type", "required", "enum", "pattern"} : ~Broken(schema, key)
    /\ Has(schema, "type") =>
        /\ Range(schema.type) \subseteq Names
        /\ "object" \in Range(schema.type) /\ Has(schema, "properties") =>
               /\ ~Broken(schema, "properties")
               /\ \A p \in Range(schema.properties) : accepted[p.schema]
        /\ "array" \in Range(schema.type) /\ Has(schema, "items") =>
               ~Broken(schema, "items") /\ accepted[schema.items]

ShapeAccepted[schema \in SchemaParts] == ShapeIsFine(schema, ShapeAccepted)

-----------------------------------------------------------------------------
Verdict(ok) == IF ok THEN "ok" ELSE "mismatch"

(* The verdict of checks that are made one after the other. *)
FirstOf(verdicts) ==
    LET bad == {i \in DOMAIN verdicts : verdicts[i] # "ok"}
    IN  IF bad = {} THEN "ok" ELSE verdicts[Min(bad)]

(* The check of a keyword, which raises TypeError for what it cannot use. *)
Checked(schema, key, ok) ==
    IF ~Has(schema, key) THEN "ok" ELSE IF Broken(schema, key) THEN "raises" ELSE Verdict(ok)

(* _coerce_type_field raises for a name it does not know. *)
TypeVerdict(value, schema) ==
    IF Has(schema, "type") /\ ~Broken(schema, "type") /\ ~(Range(schema.type) \subseteq Names)
    THEN "raises"
    ELSE Checked(schema, "type", \E name \in Range(schema.type) : value.kind \in Kinds(name))

EnumVerdict(value, schema) ==
    Checked(schema, "enum", \E w \in Range(schema.enum) : Equal(value, w))

TextVerdict(value, schema) ==
    IF value.kind # "str" THEN "ok"
    ELSE FirstOf(<<Checked(schema, "minLength", value.length >= schema.minLength),
                   Checked(schema, "maxLength", value.length <= schema.maxLength),
                   Checked(schema, "pattern", value.length \in schema.pattern)>>)

NumberVerdict(value, schema) ==
    IF value.kind \notin {"int", "float"} THEN "ok"
    ELSE FirstOf(<<Checked(schema, "minimum", value.number >= schema.minimum),
                   Checked(schema, "maximum", value.number <= schema.maximum)>>)

RequiredVerdict(value, schema) ==
    IF value.kind # "dict" THEN "ok"
    ELSE Checked(schema, "required", schema.required \subseteq DOMAIN value.at)

(* What the properties and the items have to say, which are there. *)
MemberVerdicts(value, schema, verdictOf) ==
    IF value.kind # "dict" \/ ~Has(schema, "properties") THEN << >>
    ELSE IF Broken(schema, "properties") THEN <<"raises">>
    ELSE [i \in DOMAIN schema.properties |->
            LET p == schema.properties[i]
            IN  IF Has(value.at, p.name) THEN verdictOf[<<value.at[p.name], p.schema>>] ELSE "ok"]

ElementVerdicts(value, schema, verdictOf) ==
    IF value.kind # "list" \/ ~Has(schema, "items") THEN << >>
    ELSE [i \in DOMAIN value.items |->
            IF Broken(schema, "items") THEN "raises"
            ELSE verdictOf[<<value.items[i], schema.items>>]]

(* _validate_value, whatever was checked at construction. *)
Judge(value, schema, verdictOf) ==
    FirstOf(<<TypeVerdict(value, schema), EnumVerdict(value, schema),
              TextVerdict(value, schema), NumberVerdict(value, schema),
              RequiredVerdict(value, schema),
              FirstOf(MemberVerdicts(value, schema, verdictOf)),
              FirstOf(ElementVerdicts(value, schema, verdictOf))>>)

Validate[x \in Json \X SchemaParts] == Judge(x[1], x[2], Validate)

-----------------------------------------------------------------------------
Good == Result(Whole, 0)

Bad == Result(0, Whole)

Lookup(context, key) == IF Has(context, key) THEN context[key] ELSE None

(* ResponseQualityRule and ConsensusRule: a number, clamped to 0..1; what
   min and max make of NaN is 1. *)
Graded(x) ==
    LET n == IF x = NaN \/ x > Whole THEN Whole ELSE IF x < 0 THEN 0 ELSE x
    IN  IF x = None THEN None ELSE Result(n, Whole - n)

(* A rule without the value it is about says nothing. *)
Judged(x, good) == IF x = None THEN None ELSE IF good THEN Good ELSE Bad

SchemaVerdict(context, schema) ==
    LET verdict == Validate[<<context.output, schema>>]
    IN  IF ~Has(context, "output") THEN None
        ELSE IF verdict = "raises" THEN Error
        ELSE IF verdict = "ok" THEN Good ELSE Bad

(* rule.evaluate(context). *)
Evaluate(rule, context) ==
    LET success == Lookup(context, "success")
        latency == Lookup(context, "latency_ms")
    IN  CASE rule.name = "task_completion" -> Judged(success, success = 1)
          [] rule.name = "latency" -> Judged(latency, latency # NaN /\ latency <= MaxLatency)
          [] rule.name = "consensus" -> Graded(Lookup(context, "agreement_ratio"))
          [] rule.name = "response_quality" ->
                 Graded(IF Has(context, "score") THEN context.score
                        ELSE Lookup(context, "response_quality"))
          [] rule.name = "schema_validation" -> SchemaVerdict(context, rule.schema)

-----------------------------------------------------------------------------
(* What a schema means, as JSON Schema defines its keywords: a value meets
   all of them at once, true is not 1, and 1.0 is an integer.  A malformed
   schema means nothing. *)
WholeFloat(value) == value.kind = "float" /\ value.number % 2 = 0

OfType(value, name) ==
    CASE value.kind = "null" -> name = "null"
      [] value.kind = "bool" -> name = "boolean"
      [] value.kind = "int" -> name \in {"integer", "number"}
      [] value.kind = "float" -> name = "number" \/ (name = "integer" /\ WholeFloat(value))
      [] value.kind = "str" -> name = "string"
      [] value.kind = "list" -> name = "array"
      [] value.kind = "dict" -> name = "object"

MeetsAll(value, schema, meets) ==
    /\ WellFormed(schema)
    /\ Has(schema, "type") => \E name \in Range(schema.type) : OfType(value, name)
    /\ Has(schema, "enum") =>
           \E w \in Range(schema.enum) :
               Equal(value, w) /\ (value.kind = "bool" <=> w.kind = "bool")
    /\ value.kind = "str" =>
           /\ Has(schema, "minLength") => schema.minLength <= value.length
           /\ Has(schema, "maxLength") => value.length <= schema.maxLength
           /\ Has(schema, "pattern") => value.length \in schema.pattern
    /\ value.kind \in {"int", "float"} =>
           /\ Has(schema, "minimum") => schema.minimum <= value.number
           /\ Has(schema, "maximum") => value.number <= schema.maximum
    /\ value.kind = "dict" =>
           /\ Has(schema, "required") => \A key \in schema.required : Has(value.at, key)
           /\ Has(schema, "properties") =>
                  \A p \in Range(schema.properties) :
                      Has(value.at, p.name) => meets[<<value.at[p.name], p.schema>>]
    /\ value.kind = "list" /\ Has(schema, "items") =>
           \A item \in Range(value.items) : meets[<<item, schema.items>>]

Meets[x \in Json \X SchemaParts] == MeetsAll(x[1], x[2], Meets)

(* No whole float is where the schema wants an integer. *)
NoWholeFloatAll(value, schema, none) ==
    /\ ~(WholeFloat(value) /\ Has(schema, "type") /\ "integer" \in Range(schema.type))
    /\ value.kind = "dict" /\ Has(schema, "properties") /\ ~Broken(schema, "properties") =>
           \A p \in Range(schema.properties) :
               Has(value.at, p.name) => none[<<value.at[p.name], p.schema>>]
    /\ value.kind = "list" /\ Has(schema, "items") /\ ~Broken(schema, "items") =>
           \A item \in Range(value.items) : none[<<item, schema.items>>]

NoWholeFloat[x \in Json \X SchemaParts] == NoWholeFloatAll(x[1], x[2], NoWholeFloat)

(* Every keyword has a value of its type, and every part of the schema names
   exactly one type, of which its enum is. *)
TypedAll(schema, typed) ==
    /\ WellFormed(schema)
    /\ Has(schema, "type") /\ Len(schema.type) = 1
    /\ Has(schema, "enum") => \A w \in Range(schema.enum) : OfType(w, schema.type[1])
    /\ Has(schema, "properties") =>
           schema.type = <<"object">> /\ \A p \in Range(schema.properties) : typed[p.schema]
    /\ Has(schema, "items") => schema.type = <<"array">> /\ typed[schema.items]

Typed[schema \in SchemaParts] == TypedAll(schema, Typed)
=============================================================================
