------------------------------ MODULE MCPipeline ------------------------------
(* One instance, one pipeline that starts with filters for one type and is *)
(* updated to others by bodies the service accepts or refuses at each of   *)
(* its steps, and messages that the rules and the schemas judge either way *)
(* or cannot judge.                                                        *)
EXTENDS Pipeline, TLC

CONSTANTS i1, p1, nested, malformed, unbuildable, list, untyped
OneInstance == {i1}
OnePipeline == {p1}
AllBodies == {nested, malformed, unbuildable, list, untyped}
QualityOfAll ==
  [b \in AllBodies |-> CASE b = malformed -> "malformed"
                         [] b = unbuildable -> "unbuildable"
                         [] b = list -> "shapeless"
                         [] OTHER -> "good"]

Str(string) == Scalar("str", string, <<>>)
Order == Str("order")
Ten == Scalar("num", "10", <<10>>)
Three == Scalar("num", "3", <<3>>)
Huge == Scalar("num", "10^400", <<>>)  \* an integer of 401 digits
Digits == Scalar("str", "10", <<10>>)

Rule(field, operator, value) == [field |-> field, operator |-> operator, value |-> value]
Amount == <<"payload", "amount">>
Paid == Rule(<<"status">>, "neq", Str("open"))
Big == Rule(Amount, "gte", Ten)
Tagged == Rule(<<"tags">>, "contains", Str("vip"))
Urgent == Rule(<<"status">>, "in", List(<<Str("urgent"), Str("late")>>))
Named == Rule(<<"status">>, "regex", Str("^pa"))
Broken == Rule(<<"status">>, "regex", Str("("))
Valued == Rule(Amount, "exists", Null)
AnyOf(rules) == [mode |-> "any", rules |-> rules]
AllOf(rules) == [mode |-> "all", rules |-> rules]

FieldOfAll ==
  (Environment :> <<"type">>) @@ (nested :> <<"payload", "kind">>)
    @@ (malformed :> <<"status">>) @@ (unbuildable :> <<"status">>)
    @@ (list :> <<>>) @@ (untyped :> NoPath)  \* null
FiltersOfAll ==
  (Environment :> (("order" :> AnyOf(<<Paid, Big>>)) @@ ("None" :> AnyOf(<<Urgent, Tagged>>))))
    @@ (nested :> (("order" :> AllOf(<<Big, Paid>>)) @@ ("alert" :> AnyOf(<<Named, Broken>>))
                @@ ("None" :> AnyOf(<<Valued>>))))
    @@ (untyped :> ("None" :> AnyOf(<<Big>>)))
    @@ (malformed :> <<>>) @@ (unbuildable :> <<>>) @@ (list :> <<>>)
OrderSchema ==
  p1 :> (("order" :> [sound |-> TRUE, wants |-> {[field |-> Amount, kind |-> "num"]}])
           @@ ("new" :> [sound |-> FALSE, wants |-> {}]))

Payload(kind, amount) == "payload" :> Object(("kind" :> Str(kind)) @@ ("amount" :> amount))
AllMessages ==
  { Str("text"),
    Object(("type" :> Order) @@ Payload("order", Three)),
    Object(("type" :> Order) @@ ("status" :> Str("paid")) @@ Payload("order", Digits)),
    Object(("type" :> Order) @@ ("status" :> Str("paid")) @@ Payload("alert", Huge)),
    Object("type" :> Str("new")),
    Object(("type" :> Null) @@ ("status" :> Str("late")) @@ ("tags" :> List(<<Str("vip")>>))
             @@ Payload("order", Digits)) }
OneSubstring == {<<"vip", "vips">>}
OnePattern == {"^pa"}
OneFound == {<<"^pa", "paid">>}
=============================================================================
