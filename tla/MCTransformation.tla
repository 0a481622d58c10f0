-------------------------- MODULE MCTransformation --------------------------
(* Two configurations that use every operation, with variables that one    *)
(* pipeline stores and the other uses, and one whose delete operation      *)
(* compares with a variable.                                               *)
EXTENDS Transformation

MCPaths     == {"a", "b"}
MCVariables == {"$v", "$w"}
MCTexts     == {"x", "y", "{x}", "($v)", "json", "xml", ""} \cup MCVariables
MCparseJSON == [s \in {"{x}"} |-> "x"]

Doc(a, b) == [p \in MCPaths |-> IF p = "a" THEN a ELSE b]

Event(id, source, context, data) ==
    [id |-> id, source |-> source, json |-> TRUE, context |-> context, data |-> data]

Store1(v, path)      == [op |-> "store", key |-> v, to |-> "", value |-> path, var |-> "", dot |-> TRUE]
Parse1(path, type)   == [op |-> "parse", key |-> path, to |-> "", value |-> type, var |-> "", dot |-> TRUE]
Add1(path, text, v)  == [op |-> "add", key |-> path, to |-> "", value |-> text, var |-> v, dot |-> TRUE]
Shift1(from, to, v)  == [op |-> "shift", key |-> from, to |-> to, value |-> v, var |-> "", dot |-> TRUE]
Delete1(path, v, dt) == [op |-> "delete", key |-> path, to |-> "", value |-> v, var |-> "", dot |-> dt]

\* The first two are different events with one eventUniqueID.
MCEvents ==
    { Event(<<"1">>, <<"s", "-", "t">>, Doc("x", Nil), Doc("{x}", Nil)),
      Event(<<"1", "-", "s">>, <<"t">>, Doc("y", Nil), Doc("y", "x")),
      Event(<<"2">>, <<"s">>, Doc("y", "x"), Doc("x", "y")),
      Event(<<"3">>, <<"s">>, Doc(Nil, Nil), Malformed),
      [Event(<<"3">>, <<"s">>, Doc("x", Nil), Doc("x", Nil)) EXCEPT !.json = FALSE] }

MCUndecodable == {Doc(Nil, "y")}

MCPipelines ==
    { [context |-> <<Store1("$v", "a"), Add1("b", "($v)", "$v")>>,
       data    |-> <<Parse1("a", "json"), Store1("$w", "a"), Shift1("a", "b", "$v"),
                     Delete1("b", "y", TRUE), Add1("a", "$w", "$w")>>],
      [context |-> <<Shift1("a", "b", "")>>,
       data    |-> <<Parse1("a", "xml"), Store1("$v", "b"), Delete1("a", "", TRUE),
                     Add1("b", "$w", "$w"), Delete1("", "", FALSE), Add1("a", "$v", "$v")>>] }

VariableDelete ==
    { [context |-> <<Store1("$v", "a")>>, data |-> <<Delete1("a", "$v", TRUE)>>] }
=============================================================================
