----------------------------- MODULE FilterEngine -----------------------------
(***************************************************************************)
(* app/filter_engine.py and app/schema_validator.py as operators: what the *)
(* rules in force say of an event, and what its schema does.               *)
(*                                                                         *)
(* A JSON value is a record with a kind, and what == compares of it.  A    *)
(* "str", "num" or "bool" has the text that str() makes of it and the      *)
(* float that float() does, as a sequence that is empty where there is     *)
(* none; a "list" has items, an "object" fields.  What re and the          *)
(* substring test say of two texts is given by constants.                  *)
(***************************************************************************)
EXTENDS Integers, Sequences

CONSTANTS
  Substrings,  \* pairs of texts <<t, u>> such that t is a part of u
  Patterns,    \* texts that compile as regular expressions
  Found        \* pairs <<t, u>> such that re.search(t, u) succeeds

(* Numbers and booleans compare by their value, as True == 1, in lists and *)
(* objects too.                                                            *)
Scalar(kind, text, float) ==
  [kind |-> kind, text |-> text, float |-> float,
   equals |-> IF kind = "str" THEN <<"str", text>>
              ELSE IF float = <<>> THEN <<"large", text>> ELSE <<"number", float>>]
Object(fields) ==
  [kind |-> "object",
   equals |-> <<"object", {<<key, fields[key].equals>> : key \in DOMAIN fields}>>,
   fields |-> fields]
List(items) ==
  [kind |-> "list",
   equals |-> <<"list", {<<n, items[n].equals>> : n \in DOMAIN items}>>,
   items |-> items]
Null == [kind |-> "null", equals |-> <<"null">>]
Missing == [kind |-> "missing", equals |-> <<"missing">>]

Scalars == {"str", "num", "bool"}

(* str(); the texts of lists and objects are not told apart. *)
Text(v) ==
  CASE v.kind \in Scalars -> v.text
    [] v.kind = "null" -> "None"
    [] OTHER -> v.kind

(* == *)
Equal(v, w) == v.equals = w.equals

(* A field of an object; nothing else has fields. *)
Field(v, key) ==
  IF v.kind = "object" /\ key \in DOMAIN v.fields THEN v.fields[key] ELSE Missing

(* What is no string, and has no split(), is no path. *)
NoPath == <<>>

(* _resolve_field(), along a path of keys. *)
Resolve(event, path) ==
  LET current[n \in 0 .. Len(path)] ==
        IF n = 0 THEN event ELSE Field(current[n - 1], path[n])
  IN  current[Len(path)]
-----------------------------------------------------------------------------
(* A rule is a record of a field, an operator and a value.                 *)

Comparisons == {"gt", "gte", "lt", "lte"}

(* float() raises OverflowError for a number that is too large, TypeError  *)
(* or ValueError for what is none.                                         *)
Overflows(v) == v.kind = "num" /\ v.float = <<>>
HasFloat(v) == v.kind \in Scalars /\ v.float # <<>>

Less(v, w) == HasFloat(v) /\ HasFloat(w) /\ v.float[1] < w.float[1]
SameFloat(v, w) == HasFloat(v) /\ HasFloat(w) /\ v.float = w.float

(* Each operator on the value of a field that is there; FALSE as well      *)
(* where a TypeError or ValueError is caught.                              *)
Holds(operator, v, w) ==
  CASE operator = "eq" -> Equal(v, w)
    [] operator = "neq" -> ~Equal(v, w)
    [] operator = "contains" ->
         \/ v.kind = "str" /\ <<Text(w), v.text>> \in Substrings
         \/ v.kind = "list" /\ \E n \in DOMAIN v.items : Equal(w, v.items[n])
    [] operator = "in" -> w.kind = "list" /\ \E n \in DOMAIN w.items : Equal(v, w.items[n])
    [] operator = "regex" -> <<Text(w), Text(v)>> \in Found
    [] operator = "gt" -> Less(w, v)
    [] operator = "gte" -> Less(w, v) \/ SameFloat(v, w)
    [] operator = "lt" -> Less(v, w)
    [] operator = "lte" -> Less(v, w) \/ SameFloat(v, w)

(* Mutant: a field that is missing differs from any value. *)
MatchesMissing(rule, event) ==
  LET v == Resolve(event, rule.field)
  IN  IF rule.operator = "exists" THEN v.kind \notin {"missing", "null"}
      ELSE Holds(rule.operator, v, rule.value)

(* _evaluate(), where it returns. *)
Matches(rule, event) ==
  LET v == Resolve(event, rule.field)
  IN  IF rule.operator = "exists" THEN v.kind \notin {"missing", "null"}
      ELSE v # Missing /\ Holds(rule.operator, v, rule.value)

(* It does not where split(), re.error or OverflowError are raised. *)
Raises(rule, event) ==
  LET v == Resolve(event, rule.field)
  IN  \/ rule.field = NoPath
      \/ /\ v # Missing /\ rule.operator = "regex"
         /\ Text(rule.value) \notin Patterns
      \/ /\ v # Missing /\ rule.operator \in Comparisons
         /\ Overflows(v) \/ (HasFloat(v) /\ Overflows(rule.value))

(* Mutant: rules are evaluated until the first that decides. *)
ApplyShortCircuit(fs, event) ==
  LET Decides(n) == Matches(fs.rules[n], event) = (fs.mode = "any")
      Stops(n) == Raises(fs.rules[n], event) \/ Decides(n)
      first == {n \in DOMAIN fs.rules : Stops(n) /\ \A m \in 1 .. n - 1 : ~Stops(m)}
  IN  IF \E n \in first : Raises(fs.rules[n], event) THEN "raise"
      ELSE IF (first # {}) = (fs.mode = "any") THEN "forward" ELSE "skip"

(* _apply_filter_set(): every rule is evaluated before any decides. *)
ApplyFilterSet(fs, event) ==
  IF \E n \in DOMAIN fs.rules : Raises(fs.rules[n], event) THEN "raise"
  ELSE IF \/ fs.mode = "any" /\ \E n \in DOMAIN fs.rules : Matches(fs.rules[n], event)
          \/ fs.mode = "all" /\ \A n \in DOMAIN fs.rules : Matches(fs.rules[n], event)
  THEN "forward"
  ELSE "skip"

(* should_forward() of an engine with the given event_type_field (a path)  *)
(* and event_filters (a function from types).                              *)
ShouldForward(field, filters, event) ==
  LET raw == Resolve(event, field)
      type == Text(raw)
  IN  IF field = NoPath THEN "raise"
      ELSE IF raw = Missing \/ type \notin DOMAIN filters \/ filters[type].rules = <<>>
      THEN "skip"
      ELSE ApplyFilterSet(filters[type], event)
-----------------------------------------------------------------------------
(* SchemaValidator.  A schema is sound or raises when it is used; it asks  *)
(* for values of given kinds (jsonschema is external).                     *)

Conforms(event, schema) ==
  \A want \in schema.wants : Resolve(event, want.field).kind = want.kind

(* validate(): null or missing types, the empty one and those without a    *)
(* schema are valid and not counted.                                       *)
Validate(field, schemas, event) ==
  LET raw == Resolve(event, field)
      type == Text(raw)
  IN  IF raw \in {Missing, Null} \/ type = "" \/ type \notin DOMAIN schemas
      THEN "unknown"
      ELSE IF ~schemas[type].sound THEN "raise"
      ELSE IF Conforms(event, schemas[type]) THEN "valid" ELSE "invalid"
=============================================================================
