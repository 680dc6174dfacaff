--------------------------------- MODULE IrText --------------------------------
(***************************************************************************)
(* One line of XLS's intermediate representation: what the XLS tools       *)
(* write, which are outside the repository, and how ir_parser.cpp reads    *)
(* it.  A line is a sequence of tokens: words, numbers and marks.  The     *)
(* parser only searches for marks, from left to right, and converts what   *)
(* stands behind them, so positions are tokens here and characters there.  *)
(***************************************************************************)
EXTENDS Integers, Sequences, SequencesExt, FiniteSetsExt

Word(w) == [is |-> "word", of |-> w]
Num(n)  == [is |-> "num", of |-> n]
Mark(c) == [is |-> c]

(***************************************************************************)
(* What XLS writes                                                         *)
(***************************************************************************)

Listed(items) ==
  FlattenSeq([i \in DOMAIN items |-> IF i = 1 THEN items[i] ELSE <<Mark(",")>> \o items[i]])

Parens(tokens) == <<Mark("(")>> \o tokens \o <<Mark(")")>>

\* bits[8], bits[1]
WrittenTypes(widths) ==
  Listed([i \in DOMAIN widths |-> <<Word("bits"), Mark("["), Num(widths[i]), Mark("]")>>])

\* top fn f(a: (bits[8]), b: (bits[1])) -> (bits[8]) {
WrittenHeader(inputs, output) ==
  <<Word("top"), Word("fn"), Word("f")>>
  \o Parens(Listed([i \in DOMAIN inputs |->
       <<Word("param"), Mark(":")>> \o Parens(WrittenTypes(inputs[i]))]))
  \o <<Mark("-"), Mark(">")>> \o Parens(WrittenTypes(output)) \o <<Mark("{")>>

Node(id) == <<Word("node"), Mark("."), Num(id)>>
Named(name, value) == <<Word(name), Mark("="), Num(value)>>

WrittenArguments(st) ==
  CASE st.op = "tuple_index" -> <<<<Word(st.args[1])>>, Named("index", st.args[2])>>
    [] st.op = "bit_slice"   -> <<Node(st.args[1]), Named("start", st.args[2]),
                                  Named("width", st.args[3])>>
    [] st.op = "literal"     -> <<Named("value", st.args[1])>>
    [] OTHER                 -> [i \in DOMAIN st.args |-> Node(st.args[i])]

\* and.3: bits[1] = and(not.1, literal.2, id=3)
\* ret tuple.5: (bits[1], bits[1]) = tuple(and.3, or.4, id=5)
Written(st) ==
  (IF st.op = "ret" THEN <<Word("ret")>> ELSE <<>>)
  \o Node(st.id) \o <<Mark(":")>>
  \o (IF st.op = "ret" THEN Parens(WrittenTypes([i \in DOMAIN st.args |-> 1]))
                       ELSE WrittenTypes(<<1>>))
  \o <<Mark("="), Word(IF st.op = "ret" THEN "tuple" ELSE st.op)>>
  \o Parens(Listed(Append(WrittenArguments(st), Named("id", st.id))))

(***************************************************************************)
(* How the parser reads it                                                 *)
(***************************************************************************)

Found(ts, c, from) == {p \in from..Len(ts) : ts[p].is = c}

\* find(c, from) + 1: behind the first c, or the beginning when there is none.
After(ts, c, from) == IF Found(ts, c, from) = {} THEN 1 ELSE Min(Found(ts, c, from)) + 1

\* find(c, from) as the end of a range.
Until(ts, c, from) == IF Found(ts, c, from) = {} THEN Len(ts) + 1 ELSE Min(Found(ts, c, from))

\* parse_num: 0 when there is no number (an assertion in debug builds).
NumberAt(ts, p) == IF p \in DOMAIN ts /\ ts[p].is = "num" THEN ts[p].of ELSE 0

\* parse_num<uint8_t>: a larger number is an error, too.
InByte(n) == IF n < 256 THEN n ELSE 0

\* The numbers behind each c.
Behind(ts, c) ==
  FlattenSeq([p \in DOMAIN ts |-> IF ts[p].is = c THEN <<NumberAt(ts, p + 1)>> ELSE <<>>])

ParseTypeList(ts) ==
  LET widths == Behind(ts, "[") IN [i \in DOMAIN widths |-> InByte(widths[i])]

\* One character of parse_function_header, its state machine being h.
HeaderStep(h, p, ts) ==
  LET c == ts[p].is
      to(state) == [h EXCEPT !.state = state]
      from(state) == [to(state) EXCEPT !.begin = p]
      signature == ParseTypeList(SubSeq(ts, h.begin + 1, p - 1))
  IN  CASE h.state = "arguments_start" /\ c = ":" -> from("arguments_end")
        [] h.state = "arguments_start" /\ c = ">" -> to("return_start")
        [] h.state = "arguments_end" /\ c = ")"   ->
             [to("arguments_start") EXCEPT !.inputs = Append(@, signature)]
        [] h.state = "return_start" /\ c = "("    -> from("return_end")
        [] h.state = "return_end" /\ c = ")"      -> [to("end") EXCEPT !.output = signature]
        [] h.state = "end"                        -> to("completed")
        [] OTHER                                  -> h

Unparsed == [state |-> "arguments_start", begin |-> 0, inputs |-> <<>>, output |-> <<>>]

ParseHeader(ts) ==
  LET h[p \in 0..Len(ts)] == IF p = 0 THEN Unparsed ELSE HeaderStep(h[p - 1], p, ts)
  IN  h[Len(ts)]

\* The number behind the next "=", searched from where the last one was.
NamedNumber(ts, from) == NumberAt(ts, After(ts, "=", from))

ParseTupleIndex(ts) ==
  LET name  == After(ts, "(", 1)
      index == Until(ts, ",", name)
      id    == Until(ts, ",", After(ts, "=", index))
  IN  [args |-> <<ts[name].of, NamedNumber(ts, index)>>, id |-> NamedNumber(ts, id)]

ParseBitSlice(ts) ==
  LET node  == After(ts, ".", 1)
      start == Until(ts, ",", node)
      width == Until(ts, ",", After(ts, "=", start))
      id    == Until(ts, ",", After(ts, "=", width))
  IN  [args |-> <<NumberAt(ts, node), NamedNumber(ts, start), NamedNumber(ts, width)>>,
       id   |-> NamedNumber(ts, id)]

ParseOneNamed(ts) ==
  LET id == Until(ts, ",", After(ts, "=", 1))
  IN  [args |-> <<NamedNumber(ts, 1)>>, id |-> NamedNumber(ts, id)]

\* Mutant: an operand at the end of the list is dropped.
ParseAllButLast(ts) ==
  [args |-> Front(Behind(ts, ".")), id |-> NamedNumber(ts, 1)]

ParseVariadic(ts) ==
  [args |-> Behind(ts, "."), id |-> NamedNumber(ts, 1)]

Operations == {"tuple_index", "bit_slice", "and", "or", "not", "literal", "concat"}

ParseArguments(op, ts) ==
  CASE op = "tuple_index" -> ParseTupleIndex(ts)
    [] op = "bit_slice"   -> ParseBitSlice(ts)
    [] op = "literal"     -> ParseOneNamed(ts)
    [] OTHER              -> ParseVariadic(ts)

Assignment(ts) == Until(ts, "=", 1)

OperationName(ts) == IF ts[1].is = "word" /\ ts[1].of = "ret" THEN "ret" ELSE ts[Assignment(ts) + 1].of

\* Any other operation has no mapping and ends the parsing.
HasOperation(ts) == OperationName(ts) \in Operations \union {"ret"}

ParseStatement(ts) ==
  LET begin == After(ts, "(", Assignment(ts))
      end   == Until(ts, ")", Assignment(ts))
      parsed == ParseArguments(OperationName(ts), SubSeq(ts, begin, end - 1))
  IN  [op |-> OperationName(ts), args |-> parsed.args, id |-> parsed.id]
================================================================================
