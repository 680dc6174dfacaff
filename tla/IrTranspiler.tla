------------------------------ MODULE IrTranspiler -----------------------------
(***************************************************************************)
(* transpile_ir_program: from the statements of a boolean program in XLS's *)
(* intermediate representation to a circuit.  The compiler that emits the  *)
(* program is outside the repository; it lays the fields of a struct out   *)
(* in a tuple, in an order (Reversed) that the transpiler must undo for    *)
(* the inputs and for the output.  `program` is what has been visited, the *)
(* id of a statement is its position.  Structs, fields, tuple elements and *)
(* bits count from 1, a bit from the lowest, as in the code from 0.        *)
(***************************************************************************)
EXTENDS Integers, Sequences, FiniteSets, FiniteSetsExt, Functions, SequencesExt

CONSTANTS
  InputFields,  \* widths of the fields of each parameter's struct
  OutputFields, \* widths of the fields of the returned struct
  Reversed,     \* the compiler's tuples have the last field first
  MaxOps        \* bound on the logical statements of a program

ASSUME TranspilerAssumption ==
  /\ InputFields \in Seq(Seq(Nat \ {0}))
  /\ OutputFields \in Seq(Nat \ {0})
  /\ Reversed \in BOOLEAN
  /\ MaxOps \in Nat

VARIABLES
  phase,            \* "header", "body", "returned", or "rejected" by a throw
  program,          \* the statements visited so far
  indirectInput,    \* indirect_input_access: from ids to struct and element
  indirectOutput,   \* indirect_output_access: from ids to ids of bits
  idNode,           \* id_node_map: from ids to nodes
  graph             \* circuit_graph: nodes, each with those it has edges from

vars == <<phase, program, indirectInput, indirectOutput, idNode, graph>>

Ids == DOMAIN program
Nodes == DOMAIN graph
Statements(ops) == {id \in Ids : program[id].op \in ops}
Logical == {"and", "or", "not", "literal"}

TypeOK ==
  /\ phase \in {"header", "body", "returned", "rejected"}
  /\ DOMAIN indirectInput = Statements({"tuple_index"})
  /\ DOMAIN indirectOutput = Statements({"concat"})
  /\ \A id \in DOMAIN indirectOutput : Range(indirectOutput[id]) \subseteq DOMAIN idNode
  /\ DOMAIN idNode = Statements(Logical \cup {"bit_slice"})
  /\ Range(idNode) \subseteq Nodes
  /\ IsInjective(idNode)
  /\ \A n \in Nodes : graph[n].from \subseteq 1..(n - 1)

Init ==
  /\ phase = "header"
  /\ program = <<>>
  /\ indirectInput = <<>>
  /\ indirectOutput = <<>>
  /\ idNode = <<>>
  /\ graph = <<>>

(***************************************************************************)
(* The compiler: the tuples and statements it emits for a source           *)
(***************************************************************************)

InTuple(fields) == IF Reversed THEN Reverse(fields) ELSE fields
Element(f, fields) == IF Reversed THEN Len(fields) + 1 - f ELSE f

\* The parameters are taken apart first, each field and bit once.
Unpacked ==
  FlattenSeq([s \in DOMAIN InputFields |->
    FlattenSeq([e \in DOMAIN InputFields[s] |->
      <<[op |-> "tuple_index", args |-> <<s, e>>]>> \o
      [b \in 1..InTuple(InputFields[s])[e] |-> [op |-> "bit_slice", args |-> <<s, e, b>>]]])])

Bits == Statements(Logical \cup {"bit_slice"})
Concats == Statements({"concat"})
Width(id) == Len(program[id].args)

\* The next statement is an `op` with these arguments.
Statement(op, args) ==
  /\ phase = "body"
  /\ program' = Append(program, [op |-> op, args |-> args])

Unpacks(op, args) ==
  /\ Len(program) < Len(Unpacked)
  /\ Unpacked[Len(program) + 1] = [op |-> op, args |-> args]

Computes ==
  /\ Len(program) >= Len(Unpacked)
  /\ Concats = {}
  /\ Cardinality(Statements(Logical)) < MaxOps

(***************************************************************************)
(* The transpiler                                                          *)
(***************************************************************************)

\* The header's widths against the metadata's: element i against field i.
AcceptsHeader ==
  /\ \A s \in DOMAIN InputFields : InTuple(InputFields[s]) = InputFields[s]
  /\ InTuple(OutputFields) = OutputFields

ReadHeader ==
  /\ phase = "header"
  /\ phase' = IF AcceptsHeader THEN "body" ELSE "rejected"
  /\ UNCHANGED <<program, indirectInput, indirectOutput, idNode, graph>>

Id == Len(program) + 1

NodeOfId(id) == id

\* graph.emplace gives the node after the last.
NewNode(id) == Len(graph) + 1

\* emplace and try_emplace of a std::unordered_map: an entry that is there
\* already stays.
Emplaced(map, key, value) ==
  [k \in DOMAIN map \cup {key} |-> IF k \in DOMAIN map THEN map[k] ELSE value]

\* graph.emplace(node), id_node_map.try_emplace(output, iterator), and an
\* edge from the node of every operand.
AddNode(kind, at, operands) ==
  /\ graph' = Append(graph, [kind |-> kind, at |-> at, from |-> {idNode[a] : a \in operands}])
  /\ idNode' = Emplaced(idNode, Id, NewNode(Id))
  /\ UNCHANGED <<phase, indirectInput, indirectOutput>>

VisitTupleIndex(s, e) ==
  /\ Unpacks("tuple_index", <<s, e>>)
  /\ Statement("tuple_index", <<s, e>>)
  /\ indirectInput' = Emplaced(indirectInput, Id, <<s, e>>)
  /\ UNCHANGED <<phase, indirectOutput, idNode, graph>>

\* The element of the tuple is taken for the field of that number.
VisitBitSlice(src, b) ==
  /\ Unpacks("bit_slice", program[src].args \o <<b>>)
  /\ Statement("bit_slice", <<src, b>>)
  /\ AddNode("input", indirectInput[src] \o <<b>>, {})

AlwaysAnd(op) == "and"

GraphOperation(op) == IF op = "and" THEN "and" ELSE "or"

VisitBinary(op, operands) ==
  /\ Computes
  /\ Statement(op, operands)
  /\ AddNode(GraphOperation(op), <<>>, operands)

VisitUnary(operand) ==
  /\ Computes
  /\ Statement("not", {operand})
  /\ AddNode("not", <<>>, {operand})

VisitLiteral(bit) ==
  /\ Computes
  /\ Statement("literal", bit)
  /\ AddNode("constant", <<bit>>, {})

\* The bits of an element of the returned tuple, the highest first.
VisitConcat(args) ==
  /\ Len(program) >= Len(Unpacked)
  /\ Statement("concat", args)
  /\ indirectOutput' = Emplaced(indirectOutput, Id, args)
  /\ UNCHANGED <<phase, indirectInput, idNode, graph>>

LowestFirst(position, size) == position

\* Both counters of visit_return run down from the size.
Countdown(position, size) == size + 1 - position

VisitReturn(args) ==
  /\ Statement("return", args)
  /\ phase' = "returned"
  /\ graph' = graph \o FlattenSeq([e \in DOMAIN args |->
       LET bits == indirectOutput[args[e]] IN
       [p \in DOMAIN bits |->
          [kind |-> "output",
           at |-> <<Countdown(e, Len(args)), Countdown(p, Len(bits))>>,
           from |-> {idNode[bits[p]]}]]])
  /\ UNCHANGED <<indirectInput, indirectOutput, idNode>>

Finished == phase \in {"returned", "rejected"} /\ UNCHANGED vars

\* One concat for each element of the returned tuple, then the return, which
\* may take them in another order.
Concatenates == Cardinality(Concats) < Len(OutputFields)
ElementOfNextConcat == InTuple(OutputFields)[Cardinality(Concats) + 1]

Next ==
  \/ ReadHeader
  \/ \E s \in DOMAIN InputFields : \E e \in DOMAIN InputFields[s] : VisitTupleIndex(s, e)
  \/ \E src \in DOMAIN indirectInput :
       \E b \in 1..InTuple(InputFields[program[src].args[1]])[program[src].args[2]] :
         VisitBitSlice(src, b)
  \/ \E op \in {"and", "or"} : \E operands \in kSubset(2, Bits) : VisitBinary(op, operands)
  \/ \E operand \in Bits : VisitUnary(operand)
  \/ \E bit \in {0, 1} : VisitLiteral(bit)
  \/ Concatenates /\ \E args \in [1..ElementOfNextConcat -> Bits] : VisitConcat(args)
  \/ \E args \in [DOMAIN OutputFields -> Concats] :
       /\ ~Concatenates /\ IsInjective(args)
       /\ \A e \in DOMAIN args : Width(args[e]) = InTuple(OutputFields)[e]
       /\ VisitReturn(args)
  \/ Finished

Spec == Init /\ [][Next]_vars

(***************************************************************************)
(* Properties                                                              *)
(***************************************************************************)

\* Inputs of the source, each the set of its bits that are 1: a bit is
\* <<struct, field, bit>>.  What computes a bit is the set of inputs for
\* which it is 1.
InputBits ==
  UNION {{s} \X UNION {{f} \X (1..InputFields[s][f]) : f \in DOMAIN InputFields[s]} :
           s \in DOMAIN InputFields}
Inputs == SUBSET {<<b[1], b[2][1], b[2][2]>> : b \in InputBits}

Gate(kind, sets) ==
  CASE kind = "and" -> {v \in Inputs : \A x \in sets : v \in x}
    [] kind = "or"  -> UNION sets
    [] kind = "not" -> Inputs \ UNION sets

\* What a statement says, by the rules of the intermediate representation,
\* given what those before it say.
SaidBy(said, id) ==
  LET st == program[id] IN
  CASE st.op = "bit_slice" ->
         LET s == program[st.args[1]].args[1]
             e == program[st.args[1]].args[2]
         IN  {v \in Inputs : <<s, Element(e, InputFields[s]), st.args[2]>> \in v}
    [] st.op = "literal" -> IF st.args = 1 THEN Inputs ELSE {}
    [] st.op \in {"and", "or", "not"} -> Gate(st.op, {said[a] : a \in st.args})
    [] OTHER -> {}

Meaning == LET said[id \in Ids] == SaidBy(said, id) IN said

\* What a node of the circuit computes, given what those before it compute.
ComputedBy(values, n) ==
  LET node == graph[n] IN
  CASE node.kind = "input"    -> {v \in Inputs : node.at \in v}
    [] node.kind = "constant" -> IF node.at = <<1>> THEN Inputs ELSE {}
    [] node.kind = "output"   -> UNION {values[m] : m \in node.from}
    [] OTHER                  -> Gate(node.kind, {values[m] : m \in node.from})

Computed == LET values[n \in Nodes] == ComputedBy(values, n) IN values

\* Every node computes what the statement it was made for says, for every
\* input of the source: ids that have no node do not shift the others, and
\* no gate, operand, constant or input bit is taken for another.
NodesComputeStatements ==
  \A id \in DOMAIN idNode : Computed[idNode[id]] = Meaning[id]

Drives(n, at) == graph[n].kind = "output" /\ graph[n].at = at

\* The circuit computes the program: every bit of every field of the output
\* has exactly one output node, it computes what the program returns for
\* that bit, and there is no other output node.
CircuitComputesSource ==
  phase = "returned" =>
    LET returned == Last(program).args
        source(at) == LET args == program[returned[Element(at[1], OutputFields)]].args
                      IN  Meaning[args[Len(args) + 1 - at[2]]]
        bits == UNION {{f} \X (1..OutputFields[f]) : f \in DOMAIN OutputFields}
    IN  /\ \A n \in Nodes : graph[n].kind = "output" =>
             graph[n].at \in bits /\ Computed[n] = source(graph[n].at)
        /\ \A at \in bits : Cardinality({n \in Nodes : Drives(n, at)}) = 1
================================================================================
