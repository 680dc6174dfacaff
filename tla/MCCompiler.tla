------------------------------- MODULE MCCompiler ------------------------------
(* Sources of up to five lines with up to two functions, whose parameters  *)
(* and results are chosen so that each may be taken for another's; the     *)
(* first line of the longer ones declares what the functions use.          *)
EXTENDS Compiler

Struct(fields) == [is |-> "struct", pod |-> TRUE, fields |-> fields]
Byte == Struct(<<"char">>)
Pair == Struct(<<"bool", "short">>)
Real == Struct(<<"float">>)
Class == [is |-> "struct", pod |-> FALSE, fields |-> <<"char">>]
Scalar == [is |-> "other"]

Fun(params, result) ==
  [is |-> "function", template |-> FALSE, hasDefault |-> FALSE, params |-> params, output |-> result]

Functions ==
  {Fun(<<Byte, Pair>>, Pair), Fun(<<Pair>>, Byte), Fun(<<Scalar>>, Byte), Fun(<<Byte>>, Class),
   Fun(<<Real>>, Byte), [Fun(<<Byte>>, Byte) EXCEPT !.hasDefault = TRUE],
   [Fun(<<Byte>>, Byte) EXCEPT !.template = TRUE]}

SourceLines == Functions \union {[is |-> "pragma"], [is |-> "text"]}

FunctionsOf(lines) == {l \in DOMAIN lines : lines[l].is = "function"}

MCSources ==
  LET bodies == {ls \in BoundedSeq(SourceLines, 4) : Cardinality(FunctionsOf(ls)) \in {1, 2}}
  IN  {ls \in bodies : Len(ls) <= 2} \union {<<[is |-> "text"]>> \o ls : ls \in bodies}

St(op, args) == [op |-> op, args |-> args, id |-> 7]

MCStatements ==
  {St("tuple_index", <<"param", 1>>), St("bit_slice", <<3, 1, 1>>), St("and", <<3, 4>>),
   St("or", <<4, 5, 3>>), St("not", <<5>>), St("literal", <<1>>), St("concat", <<4, 5>>),
   St("xor", <<3, 4>>)}
================================================================================
