--------------------------- MODULE IrTranspilerProofs --------------------------
(***************************************************************************)
(* Proofs about the transpiler, for every program over every list of       *)
(* structs: what each statement leaves in the maps and in the graph stays, *)
(* and every node computes what its statement says.                        *)
(***************************************************************************)
EXTENDS IrTranspiler, DataLemmas, FiniteSetTheorems

Ops == Logical \cup {"tuple_index", "bit_slice", "concat", "return"}
Args == Seq(Nat) \cup (SUBSET Nat) \cup Nat
Kinds == {"input", "constant", "and", "or", "not", "output"}

Shapes ==
  /\ phase \in {"header", "body", "returned", "rejected"}
  /\ program \in Seq([op : Ops, args : Args])
  /\ graph \in Seq([kind : Kinds, at : Seq(Nat), from : SUBSET Nat])
  /\ DOMAIN indirectInput = Statements({"tuple_index"})
  /\ DOMAIN indirectOutput = Statements({"concat"})
  /\ DOMAIN idNode = Statements(Logical \cup {"bit_slice"})
  /\ \A id \in DOMAIN idNode : idNode[id] \in Nodes
  /\ \A a, b \in DOMAIN idNode : idNode[a] = idNode[b] => a = b
  /\ \A n \in Nodes : graph[n].from \subseteq 1..(n - 1)

(* What each statement left behind in the maps and in the graph.           *)
TupleIndexDone(id) ==
  \E s \in DOMAIN InputFields : \E e \in DOMAIN InputFields[s] :
    program[id].args = <<s, e>> /\ indirectInput[id] = <<s, e>>

BitSliceDone(id) ==
  \E src \in 1..(id - 1), b \in Nat :
    /\ program[id].args = <<src, b>> /\ program[src].op = "tuple_index"
    /\ graph[idNode[id]] = [kind |-> "input", at |-> program[src].args \o <<b>>, from |-> {}]

GateDone(id) ==
  /\ program[id].args \subseteq DOMAIN idNode \cap 1..(id - 1)
  /\ graph[idNode[id]] =
       [kind |-> program[id].op, at |-> <<>>, from |-> {idNode[a] : a \in program[id].args}]

LiteralDone(id) ==
  /\ program[id].args \in {0, 1}
  /\ graph[idNode[id]] = [kind |-> "constant", at |-> <<program[id].args>>, from |-> {}]

ConcatDone(id) ==
  program[id].args \in Seq(DOMAIN idNode) /\ indirectOutput[id] = program[id].args

StatementDone(id) ==
  /\ program[id].op = "tuple_index" => TupleIndexDone(id)
  /\ program[id].op = "bit_slice" => BitSliceDone(id)
  /\ program[id].op \in {"and", "or", "not"} => GateDone(id)
  /\ program[id].op = "literal" => LiteralDone(id)
  /\ program[id].op = "concat" => ConcatDone(id)
  /\ program[id].op = "return" => phase = "returned"

(* The node visit_return makes for the p-th bit of the e-th element.       *)
OutputNode(args, e, p) ==
  [kind |-> "output", at |-> <<Len(OutputFields) + 1 - e, OutputFields[e] + 1 - p>>,
   from |-> {idNode[program[args[e]].args[p]]}]

ReturnDone(args) ==
  /\ args \in [DOMAIN OutputFields -> Concats]
  /\ \A e \in DOMAIN args : Width(args[e]) = OutputFields[e]
  /\ \A n \in Nodes : graph[n].kind = "output" =>
       \E e \in DOMAIN OutputFields : \E p \in 1..OutputFields[e] : graph[n] = OutputNode(args, e, p)
  /\ \A e \in DOMAIN OutputFields : \A p \in 1..OutputFields[e] :
       \E n \in Nodes : graph[n] = OutputNode(args, e, p)
  /\ \A m, n \in Nodes :
       graph[m].kind = "output" /\ graph[n].kind = "output" /\ graph[m].at = graph[n].at => m = n

Phases ==
  /\ phase \in {"header", "rejected"} => program = <<>> /\ graph = <<>>
  /\ phase \in {"body", "returned"} => AcceptsHeader
  /\ phase = "body" => \A n \in Nodes : graph[n].kind # "output"
  /\ phase = "returned" => program # <<>> /\ ReturnDone(Last(program).args)

IInv == Shapes /\ Phases /\ \A id \in Ids : StatementDone(id)

--------------------------------------------------------------------------------
(* What a step adds *)

(* What is there stays, in the program, the maps and the graph.            *)
Keeps ==
  /\ \A i \in Ids : i \in Ids' /\ program'[i] = program[i]
  /\ \A i \in DOMAIN idNode : i \in DOMAIN idNode' /\ idNode'[i] = idNode[i]
  /\ \A n \in Nodes : n \in Nodes' /\ graph'[n] = graph[n]
  /\ \A i \in DOMAIN indirectInput : indirectInput'[i] = indirectInput[i]
  /\ \A i \in DOMAIN indirectOutput : indirectOutput'[i] = indirectOutput[i]
  /\ phase = "returned" => phase' = "returned"

LEMMA FieldsAreNumbered ==
  ASSUME NEW s \in DOMAIN InputFields, NEW e \in DOMAIN InputFields[s]
  PROVE  /\ s \in Nat /\ e \in Nat /\ e \in 1..Len(InputFields[s])
         /\ InputFields[s] \in Seq(Nat \ {0}) /\ Len(InputFields[s]) \in Nat
<1>1. DOMAIN InputFields = 1..Len(InputFields) /\ Len(InputFields) \in Nat
  BY TranspilerAssumption, LenProperties
<1>2. InputFields[s] \in Seq(Nat \ {0})
  BY <1>1, TranspilerAssumption
<1>3. DOMAIN InputFields[s] = 1..Len(InputFields[s]) /\ Len(InputFields[s]) \in Nat
  BY <1>2, LenProperties
<1>4. QED
  BY <1>1, <1>2, <1>3

LEMMA OutputsAreNumbered ==
  /\ DOMAIN OutputFields = 1..Len(OutputFields) /\ Len(OutputFields) \in Nat
  /\ \A e \in DOMAIN OutputFields : OutputFields[e] \in Nat
BY TranspilerAssumption, LenProperties

LEMMA DomainsInIds ==
  ASSUME Shapes
  PROVE  /\ Ids = 1..Len(program) /\ Nodes = 1..Len(graph) /\ Len(program) \in Nat /\ Len(graph) \in Nat
         /\ Ids \subseteq Nat /\ Id \in Nat /\ Id \notin Ids
         /\ DOMAIN idNode \subseteq Ids /\ DOMAIN indirectInput \subseteq Ids
         /\ DOMAIN indirectOutput \subseteq Ids
         /\ Bits = DOMAIN idNode /\ Concats = DOMAIN indirectOutput
<1>1. Ids = 1..Len(program) /\ Nodes = 1..Len(graph) /\ Len(program) \in Nat /\ Len(graph) \in Nat
  BY LenProperties DEF Shapes, Ids, Nodes
<1>2. Id \in Nat /\ Id \notin 1..Len(program) /\ 1..Len(program) \subseteq Nat
  BY <1>1 DEF Id
<1>3. QED
  BY <1>1, <1>2 DEF Shapes, Statements, Bits, Concats

LEMMA StatementIs ==
  ASSUME Shapes, NEW op \in Ops, NEW args \in Args, Statement(op, args)
  PROVE  /\ phase = "body"
         /\ program' \in Seq([op : Ops, args : Args])
         /\ Ids' = Ids \union {Id} /\ Len(program') = Id
         /\ program'[Id] = [op |-> op, args |-> args]
         /\ program'[Id].op = op /\ program'[Id].args = args
         /\ \A i \in Ids : program'[i] = program[i]
         /\ \A ops : Statements(ops)' = IF op \in ops THEN Statements(ops) \union {Id} ELSE Statements(ops)
<1> DEFINE st == [op |-> op, args |-> args]
<1>1. phase = "body" /\ program' = Append(program, st)
  BY DEF Statement
<1>2. st \in [op : Ops, args : Args] /\ program \in Seq([op : Ops, args : Args])
  BY DEF Shapes
<1>3. st.op = op /\ st.args = args
  OBVIOUS
<1> HIDE DEF st
<1>4. /\ program' \in Seq([op : Ops, args : Args])
      /\ DOMAIN program = 1..Len(program) /\ DOMAIN program' = 1..(Len(program) + 1)
      /\ Len(program) \in Nat /\ program'[Len(program) + 1] = st
      /\ Len(program') = Len(program) + 1
      /\ \A i \in 1..Len(program) : program'[i] = program[i]
  BY <1>1, <1>2, AppendIs
<1>5. 1..(Len(program) + 1) = 1..Len(program) \union {Len(program) + 1}
  BY <1>4
<1>6. /\ Ids' = Ids \union {Id} /\ Len(program') = Id /\ program'[Id] = st
      /\ \A i \in Ids : program'[i] = program[i]
  BY <1>4, <1>5 DEF Ids, Id
<1>7. ASSUME NEW ops
      PROVE  Statements(ops)' = IF op \in ops THEN Statements(ops) \union {Id} ELSE Statements(ops)
  BY <1>3, <1>6 DEF Statements
<1>8. QED
  BY <1>1, <1>3, <1>4, <1>6, <1>7 DEF st

(* A statement that is done stays so.                                      *)
LEMMA StatementStays ==
  ASSUME Shapes, Keeps, NEW id \in Ids, StatementDone(id)
  PROVE  StatementDone(id)'
<1>1. /\ Ids = 1..Len(program) /\ Len(program) \in Nat
      /\ \A i \in 1..(id - 1) : i \in Ids
  BY DomainsInIds
<1>2. program'[id] = program[id]
  BY DEF Keeps
<1>3. id \in DOMAIN idNode <=> program[id].op \in Logical \union {"bit_slice"}
  BY DEF Shapes, Statements
<1>4. id \in DOMAIN idNode => graph'[idNode'[id]] = graph[idNode[id]]
  BY DEF Keeps, Shapes
<1>5. program[id].op = "tuple_index" => TupleIndexDone(id)'
  <2>1. program[id].op = "tuple_index" => id \in DOMAIN indirectInput
    BY DEF Shapes, Statements
  <2>2. QED
    BY <1>2, <2>1 DEF StatementDone, TupleIndexDone, Keeps
<1>6. ASSUME program[id].op = "bit_slice" PROVE BitSliceDone(id)'
  <2>1. PICK src \in 1..(id - 1), b \in Nat :
          /\ program[id].args = <<src, b>> /\ program[src].op = "tuple_index"
          /\ graph[idNode[id]] = [kind |-> "input", at |-> program[src].args \o <<b>>, from |-> {}]
    BY <1>6 DEF StatementDone, BitSliceDone
  <2>2. program'[src] = program[src]
    BY <1>1 DEF Keeps
  <2>3. graph'[idNode'[id]] = graph[idNode[id]]
    BY <1>3, <1>4, <1>6
  <2>4. QED
    BY <1>2, <2>1, <2>2, <2>3 DEF BitSliceDone
<1>7. ASSUME program[id].op \in {"and", "or", "not"} PROVE GateDone(id)'
  <2>1. /\ program[id].args \subseteq DOMAIN idNode \cap 1..(id - 1)
        /\ graph[idNode[id]] =
             [kind |-> program[id].op, at |-> <<>>, from |-> {idNode[a] : a \in program[id].args}]
    BY <1>7 DEF StatementDone, GateDone
  <2>2. graph'[idNode'[id]] = graph[idNode[id]]
    BY <1>3, <1>4, <1>7 DEF Logical
  <2>3. \A a \in program[id].args : a \in DOMAIN idNode' /\ idNode'[a] = idNode[a]
    BY <2>1 DEF Keeps
  <2>4. {idNode'[a] : a \in program[id].args} = {idNode[a] : a \in program[id].args}
    BY <2>3
  <2>5. QED
    BY <1>2, <2>1, <2>2, <2>3, <2>4 DEF GateDone
<1>8. ASSUME program[id].op = "literal" PROVE LiteralDone(id)'
  <2>1. graph'[idNode'[id]] = graph[idNode[id]]
    BY <1>3, <1>4, <1>8 DEF Logical
  <2>2. QED
    BY <1>2, <1>8, <2>1 DEF LiteralDone, StatementDone
<1>9. ASSUME program[id].op = "concat" PROVE ConcatDone(id)'
  <2>1. program[id].args \in Seq(DOMAIN idNode) /\ indirectOutput[id] = program[id].args
    BY <1>9 DEF StatementDone, ConcatDone
  <2>2. DOMAIN idNode \subseteq DOMAIN idNode'
    BY DEF Keeps
  <2>3. program[id].args \in Seq(DOMAIN idNode')
    BY <2>1, <2>2, SeqMonotonic
  <2>4. id \in DOMAIN indirectOutput
    BY <1>9 DEF Shapes, Statements
  <2>5. QED
    BY <1>2, <2>1, <2>3, <2>4 DEF ConcatDone, Keeps
<1>10. program[id].op = "return" => phase' = "returned"
  BY DEF StatementDone, Keeps
<1>11. QED
  BY <1>2, <1>5, <1>6, <1>7, <1>8, <1>9, <1>10 DEF StatementDone

(* A new node, and the entry of its statement in id_node_map.              *)
LEMMA AddNodeIs ==
  ASSUME Shapes, NEW kind \in Kinds, NEW at \in Seq(Nat), NEW operands \in SUBSET DOMAIN idNode,
         AddNode(kind, at, operands)
  PROVE  /\ graph' \in Seq([kind : Kinds, at : Seq(Nat), from : SUBSET Nat])
         /\ Nodes' = Nodes \union {NewNode(Id)}
         /\ graph'[NewNode(Id)] =
              [kind |-> kind, at |-> at, from |-> {idNode[a] : a \in operands}]
         /\ graph'[NewNode(Id)].from \subseteq Nodes
         /\ \A n \in Nodes : graph'[n] = graph[n]
         /\ DOMAIN idNode' = DOMAIN idNode \union {Id} /\ idNode'[Id] = NewNode(Id)
         /\ \A i \in DOMAIN idNode : idNode'[i] = idNode[i]
         /\ NewNode(Id) \notin Nodes /\ NewNode(Id) \in Nat
<1> DEFINE node == [kind |-> kind, at |-> at, from |-> {idNode[a] : a \in operands}]
<1>1. /\ graph' = Append(graph, node) /\ idNode' = Emplaced(idNode, Id, NewNode(Id))
  BY DEF AddNode
<1>2. {idNode[a] : a \in operands} \subseteq Nodes /\ Nodes \subseteq Nat
  <2>1. Nodes \subseteq Nat
    BY DomainsInIds
  <2>2. QED
    BY <2>1 DEF Shapes
<1>3. node \in [kind : Kinds, at : Seq(Nat), from : SUBSET Nat] /\ node.from \subseteq Nodes
  BY <1>2
<1>4. graph \in Seq([kind : Kinds, at : Seq(Nat), from : SUBSET Nat])
  BY DEF Shapes
<1> HIDE DEF node
<1>5. /\ graph' \in Seq([kind : Kinds, at : Seq(Nat), from : SUBSET Nat])
      /\ DOMAIN graph = 1..Len(graph) /\ DOMAIN graph' = 1..(Len(graph) + 1)
      /\ Len(graph) \in Nat /\ graph'[Len(graph) + 1] = node
      /\ \A i \in 1..Len(graph) : graph'[i] = graph[i]
  BY <1>1, <1>3, <1>4, AppendIs
<1>6. /\ 1..(Len(graph) + 1) = 1..Len(graph) \union {Len(graph) + 1}
      /\ Len(graph) + 1 \notin 1..Len(graph) /\ Len(graph) + 1 \in Nat
  BY <1>5
<1>7. /\ Nodes' = Nodes \union {NewNode(Id)} /\ graph'[NewNode(Id)] = node
      /\ \A n \in Nodes : graph'[n] = graph[n]
      /\ NewNode(Id) \notin Nodes /\ NewNode(Id) \in Nat
  BY <1>5, <1>6 DEF Nodes, NewNode
<1>8. Id \notin DOMAIN idNode
  BY DomainsInIds
<1>9. /\ DOMAIN idNode' = DOMAIN idNode \union {Id} /\ idNode'[Id] = NewNode(Id)
      /\ \A i \in DOMAIN idNode : idNode'[i] = idNode[i]
  <2> DEFINE grown == Emplaced(idNode, Id, NewNode(Id))
  <2>1. /\ DOMAIN grown = DOMAIN idNode \union {Id} /\ grown[Id] = NewNode(Id)
        /\ \A i \in DOMAIN idNode : grown[i] = idNode[i]
    BY <1>8 DEF Emplaced
  <2> HIDE DEF grown
  <2>2. idNode' = grown
    BY <1>1 DEF grown
  <2>3. QED
    BY <2>1, <2>2
<1>10. QED
  BY <1>3, <1>5, <1>7, <1>9 DEF node

(* A statement that makes a node: bit_slice, a gate or a literal.          *)
NodeAdded(op, args, kind, at, operands) ==
  /\ Shapes' /\ Phases' /\ Keeps
  /\ \A id \in Ids : StatementDone(id)'
  /\ Ids' = Ids \union {Id}
  /\ program'[Id].op = op /\ program'[Id].args = args
  /\ graph'[idNode'[Id]] = [kind |-> kind, at |-> at, from |-> {idNode[a] : a \in operands}]

LEMMA NodeStep ==
  ASSUME IInv, NEW op \in Logical \union {"bit_slice"}, NEW args \in Args, Statement(op, args),
         NEW kind \in Kinds, kind # "output", NEW at \in Seq(Nat),
         NEW operands \in SUBSET DOMAIN idNode, AddNode(kind, at, operands)
  PROVE  NodeAdded(op, args, kind, at, operands)
<1>1. Shapes /\ Phases /\ op \in Ops
  BY DEF IInv, Ops, Logical
<1>2. /\ phase' = phase /\ indirectInput' = indirectInput /\ indirectOutput' = indirectOutput
  BY DEF AddNode
<1>3. /\ phase = "body"
      /\ program' \in Seq([op : Ops, args : Args])
      /\ Ids' = Ids \union {Id} /\ program'[Id].op = op /\ program'[Id].args = args
      /\ \A i \in Ids : program'[i] = program[i]
      /\ \A ops : Statements(ops)' = IF op \in ops THEN Statements(ops) \union {Id} ELSE Statements(ops)
  BY <1>1, StatementIs
<1> DEFINE new == NewNode(Id)
<1> DEFINE node == [kind |-> kind, at |-> at, from |-> {idNode[a] : a \in operands}]
<1>4. /\ graph' \in Seq([kind : Kinds, at : Seq(Nat), from : SUBSET Nat])
      /\ Nodes' = Nodes \union {new}
      /\ graph'[new] = node
      /\ graph'[new].from \subseteq Nodes
      /\ \A n \in Nodes : graph'[n] = graph[n]
      /\ DOMAIN idNode' = DOMAIN idNode \union {Id} /\ idNode'[Id] = new
      /\ \A i \in DOMAIN idNode : idNode'[i] = idNode[i]
      /\ new \notin Nodes /\ new \in Nat
  BY <1>1, AddNodeIs
<1>5. node.kind = kind
  OBVIOUS
<1>6. Nodes = 1..(new - 1)
  BY <1>1, DomainsInIds DEF NewNode
<1> HIDE DEF new, node
<1>7. Shapes'
  <2>1. /\ DOMAIN indirectInput' = Statements({"tuple_index"})'
        /\ DOMAIN indirectOutput' = Statements({"concat"})'
        /\ DOMAIN idNode' = Statements(Logical \union {"bit_slice"})'
    <3>1. op \notin {"tuple_index"} /\ op \notin {"concat"} /\ op \in Logical \union {"bit_slice"}
      BY DEF Logical
    <3>2. QED
      BY <1>1, <1>2, <1>3, <1>4, <3>1 DEF Shapes
  <2>2. /\ \A id \in DOMAIN idNode' : idNode'[id] \in Nodes'
        /\ \A a, b \in DOMAIN idNode' : idNode'[a] = idNode'[b] => a = b
    BY <1>1, <1>4 DEF Shapes
  <2>3. \A n \in Nodes' : graph'[n].from \subseteq 1..(n - 1)
    BY <1>1, <1>4, <1>6 DEF Shapes
  <2>4. QED
    BY <1>1, <1>2, <1>3, <1>4, <2>1, <2>2, <2>3 DEF Shapes
<1>8. Phases'
  <2>1. \A n \in Nodes' : graph'[n].kind # "output"
    BY <1>1, <1>3, <1>4, <1>5 DEF Phases
  <2>2. QED
    BY <1>1, <1>2, <1>3, <2>1 DEF Phases
<1>9. Keeps
  BY <1>2, <1>3, <1>4 DEF Keeps
<1>10. \A id \in Ids : StatementDone(id)'
  BY <1>1, <1>9, StatementStays DEF IInv
<1>11. QED
  BY <1>3, <1>4, <1>7, <1>8, <1>9, <1>10 DEF node, NodeAdded

(* Each kind of statement.                                                 *)
LEMMA GateStep ==
  ASSUME IInv, NEW op \in {"and", "or", "not"}, NEW operands \in SUBSET Bits,
         Statement(op, operands), AddNode(op, <<>>, operands)
  PROVE  IInv'
<1>1. Bits = DOMAIN idNode /\ Bits \subseteq Ids /\ Ids \subseteq Nat /\ Ids = 1..(Id - 1)
  BY DomainsInIds DEF IInv, Id
<1>2. /\ op \in Logical \union {"bit_slice"} /\ op \in Kinds /\ op # "output"
      /\ operands \in SUBSET DOMAIN idNode
  <2>1. op \in Logical \union {"bit_slice"}
    BY DEF Logical
  <2>2. op \in Kinds /\ op # "output"
    BY DEF Kinds
  <2>3. QED
    BY <1>1, <2>1, <2>2
<1>3. operands \in Args /\ <<>> \in Seq(Nat)
  BY <1>1, EmptySeq DEF Args
<1> DEFINE none == <<>>
<1>9. none \in Seq(Nat) /\ AddNode(op, none, operands)
  BY <1>3
<1> HIDE DEF none
<1>4. /\ Shapes' /\ Phases' /\ Keeps
      /\ \A id \in Ids : StatementDone(id)'
      /\ Ids' = Ids \union {Id}
      /\ program'[Id].op = op /\ program'[Id].args = operands
      /\ graph'[idNode'[Id]] = [kind |-> op, at |-> none, from |-> {idNode[a] : a \in operands}]
  <2>1. NodeAdded(op, operands, op, none, operands)
    BY <1>2, <1>3, <1>9, NodeStep
  <2>2. QED
    BY <2>1 DEF NodeAdded
<1>5. PICK i : i = Id
  OBVIOUS
<1>6. GateDone(i)'
  <2>1. \A a \in operands : a \in DOMAIN idNode' /\ idNode'[a] = idNode[a]
    BY <1>2, <1>4 DEF Keeps
  <2>2. {idNode'[a] : a \in operands} = {idNode[a] : a \in operands}
    BY <2>1
  <2>3. /\ program'[i].op = op /\ program'[i].args = operands
        /\ graph'[idNode'[i]] = [kind |-> op, at |-> <<>>, from |-> {idNode[a] : a \in operands}]
        /\ operands \subseteq 1..(i - 1)
    BY <1>1, <1>4, <1>5 DEF none
  <2>4. QED
    BY <2>1, <2>2, <2>3 DEF GateDone
<1>7. StatementDone(i)'
  BY <1>4, <1>5, <1>6 DEF StatementDone
<1>8. QED
  BY <1>4, <1>5, <1>7 DEF IInv

LEMMA LiteralStep ==
  ASSUME IInv, NEW bit \in {0, 1}, VisitLiteral(bit)
  PROVE  IInv'
<1>1. Statement("literal", bit) /\ AddNode("constant", <<bit>>, {})
  BY DEF VisitLiteral
<1>2. /\ "literal" \in Logical \union {"bit_slice"} /\ "constant" \in Kinds
      /\ "constant" # "output" /\ {} \in SUBSET DOMAIN idNode
  BY DEF Logical, Kinds
<1>3. bit \in Args /\ <<bit>> \in Seq(Nat)
  <2>1. bit \in Nat /\ <<bit>> \in Seq(Nat)
    OBVIOUS
  <2>2. bit \in Args
    BY <2>1 DEF Args
  <2>3. QED
    BY <2>1, <2>2
<1>4. /\ Shapes' /\ Phases' /\ Keeps
      /\ \A id \in Ids : StatementDone(id)'
      /\ Ids' = Ids \union {Id}
      /\ program'[Id].op = "literal" /\ program'[Id].args = bit
      /\ graph'[idNode'[Id]] = [kind |-> "constant", at |-> <<bit>>, from |-> {idNode[a] : a \in {}}]
  <2>1. NodeAdded("literal", bit, "constant", <<bit>>, {})
    BY <1>1, <1>2, <1>3, NodeStep
  <2>2. QED
    BY <2>1 DEF NodeAdded
<1>5. PICK i : i = Id
  OBVIOUS
<1>6. StatementDone(i)'
  <2>1. {idNode[a] : a \in {}} = {}
    OBVIOUS
  <2>2. LiteralDone(i)'
    BY <1>4, <1>5, <2>1 DEF LiteralDone
  <2>3. QED
    BY <1>4, <1>5, <2>2 DEF StatementDone
<1>7. QED
  BY <1>4, <1>5, <1>6 DEF IInv

(* An input's node is at the element and the bit the statement names.      *)
LEMMA BitSliceStep ==
  ASSUME IInv, NEW src \in DOMAIN indirectInput, NEW b \in Nat, VisitBitSlice(src, b)
  PROVE  IInv'
<1>1. Statement("bit_slice", <<src, b>>) /\ AddNode("input", indirectInput[src] \o <<b>>, {})
  BY DEF VisitBitSlice
<1>2. /\ src \in Ids /\ src \in Nat /\ Ids = 1..(Id - 1) /\ program[src].op = "tuple_index"
  <2>1. DOMAIN indirectInput \subseteq Ids /\ Ids \subseteq Nat /\ Ids = 1..(Id - 1)
    BY DomainsInIds DEF IInv, Id
  <2>2. src \in Statements({"tuple_index"})
    BY DEF IInv, Shapes
  <2>3. QED
    BY <2>1, <2>2 DEF Statements
<1>11. PICK s \in DOMAIN InputFields : \E e \in DOMAIN InputFields[s] :
             program[src].args = <<s, e>> /\ indirectInput[src] = <<s, e>>
  BY <1>2 DEF IInv, StatementDone, TupleIndexDone
<1>3. PICK e \in DOMAIN InputFields[s] :
             program[src].args = <<s, e>> /\ indirectInput[src] = <<s, e>>
  BY <1>11
<1>4. s \in Nat /\ e \in Nat
  BY FieldsAreNumbered
<1>5. /\ indirectInput[src] \o <<b>> \in Seq(Nat) /\ <<src, b>> \in Args
      /\ indirectInput[src] \o <<b>> = program[src].args \o <<b>>
  BY <1>2, <1>3, <1>4 DEF Args
<1>6. /\ "bit_slice" \in Logical \union {"bit_slice"} /\ "input" \in Kinds
      /\ "input" # "output" /\ {} \in SUBSET DOMAIN idNode
  BY DEF Kinds
<1>12. PICK at \in Seq(Nat), args \in Args :
          /\ args = <<src, b>> /\ Statement("bit_slice", args) /\ AddNode("input", at, {})
          /\ at = program[src].args \o <<b>>
  BY <1>1, <1>5
<1>13. PICK op \in Logical \union {"bit_slice"}, kind \in Kinds, operands \in SUBSET DOMAIN idNode :
          op = "bit_slice" /\ kind = "input" /\ operands = {}
  BY <1>6
<1>14. NodeAdded(op, args, kind, at, operands)
  <2>1. Statement(op, args) /\ AddNode(kind, at, operands) /\ kind # "output"
    BY <1>12, <1>13
  <2>2. QED
    BY <2>1, NodeStep
<1>7. /\ Shapes' /\ Phases' /\ Keeps
      /\ \A id \in Ids : StatementDone(id)'
      /\ Ids' = Ids \union {Id}
      /\ program'[Id].op = "bit_slice" /\ program'[Id].args = args
      /\ graph'[idNode'[Id]] = [kind |-> "input", at |-> at, from |-> {idNode[a] : a \in {}}]
  BY <1>13, <1>14 DEF NodeAdded
<1>8. PICK i : i = Id
  OBVIOUS
<1>9. StatementDone(i)'
  <2>1. {idNode[a] : a \in {}} = {}
    OBVIOUS
  <2>2. program'[src] = program[src] /\ src \in 1..(i - 1)
    BY <1>2, <1>7, <1>8 DEF Keeps
  <2>3. graph'[idNode'[i]] = [kind |-> "input", at |-> program'[src].args \o <<b>>, from |-> {}]
    BY <1>12, <1>7, <1>8, <2>1, <2>2
  <2>4. BitSliceDone(i)'
    BY <1>2, <1>7, <1>8, <1>12, <2>2, <2>3 DEF BitSliceDone
  <2>5. QED
    BY <1>7, <1>8, <2>4 DEF StatementDone
<1>10. QED
  BY <1>7, <1>8, <1>9 DEF IInv

(* Statements that make no node.                                           *)
LEMMA NoNodeStep ==
  ASSUME IInv, NEW op \in {"tuple_index", "concat"}, NEW args \in Args, Statement(op, args),
         UNCHANGED <<phase, idNode, graph>>,
         op = "tuple_index" => /\ indirectInput' = Emplaced(indirectInput, Id, args)
                               /\ indirectOutput' = indirectOutput,
         op = "concat" => /\ indirectOutput' = Emplaced(indirectOutput, Id, args)
                          /\ indirectInput' = indirectInput
  PROVE  /\ Shapes' /\ Phases' /\ Keeps
         /\ \A id \in Ids : StatementDone(id)'
         /\ Ids' = Ids \union {Id}
         /\ program'[Id].op = op /\ program'[Id].args = args
         /\ op = "tuple_index" => indirectInput'[Id] = args
         /\ op = "concat" => indirectOutput'[Id] = args
<1>1. Shapes /\ Phases /\ op \in Ops
  BY DEF IInv, Ops, Logical
<1>2. /\ phase = "body"
      /\ program' \in Seq([op : Ops, args : Args])
      /\ Ids' = Ids \union {Id} /\ program'[Id].op = op /\ program'[Id].args = args
      /\ \A i \in Ids : program'[i] = program[i]
      /\ \A ops : Statements(ops)' = IF op \in ops THEN Statements(ops) \union {Id} ELSE Statements(ops)
  BY <1>1, StatementIs
<1>3. Id \notin DOMAIN indirectInput /\ Id \notin DOMAIN indirectOutput /\ Nodes' = Nodes
  BY <1>1, DomainsInIds DEF Nodes
<1>4. /\ DOMAIN indirectInput' = DOMAIN indirectInput \union (IF op = "tuple_index" THEN {Id} ELSE {})
      /\ DOMAIN indirectOutput' = DOMAIN indirectOutput \union (IF op = "concat" THEN {Id} ELSE {})
      /\ \A i \in DOMAIN indirectInput : indirectInput'[i] = indirectInput[i]
      /\ \A i \in DOMAIN indirectOutput : indirectOutput'[i] = indirectOutput[i]
      /\ op = "tuple_index" => indirectInput'[Id] = args
      /\ op = "concat" => indirectOutput'[Id] = args
  BY <1>3 DEF Emplaced
<1>5. Shapes'
  <2>1. op \notin Logical \union {"bit_slice"}
    BY DEF Logical
  <2>2. /\ DOMAIN indirectInput' = Statements({"tuple_index"})'
        /\ DOMAIN indirectOutput' = Statements({"concat"})'
        /\ DOMAIN idNode' = Statements(Logical \union {"bit_slice"})'
    BY <1>1, <1>2, <1>4, <2>1 DEF Shapes
  <2>3. QED
    BY <1>1, <1>2, <1>3, <2>2 DEF Shapes
<1>6. Phases'
  BY <1>1, <1>2, <1>3 DEF Phases
<1>7. Keeps
  BY <1>2, <1>3, <1>4 DEF Keeps
<1>8. \A id \in Ids : StatementDone(id)'
  BY <1>1, <1>7, StatementStays DEF IInv
<1>9. QED
  BY <1>2, <1>4, <1>5, <1>6, <1>7, <1>8

LEMMA TupleIndexStep ==
  ASSUME IInv, NEW s \in DOMAIN InputFields, NEW e \in DOMAIN InputFields[s], VisitTupleIndex(s, e)
  PROVE  IInv'
<1>1. s \in Nat /\ e \in Nat
  BY FieldsAreNumbered
<1>2. PICK args \in Args, op \in {"tuple_index", "concat"} : args = <<s, e>> /\ op = "tuple_index"
  <2>1. <<s, e>> \in Seq(Nat)
    BY <1>1
  <2>2. QED
    BY <2>1 DEF Args
<1>3. /\ Statement(op, args) /\ UNCHANGED <<phase, idNode, graph>>
      /\ indirectInput' = Emplaced(indirectInput, Id, args) /\ indirectOutput' = indirectOutput
  BY <1>2 DEF VisitTupleIndex
<1>4. /\ Shapes' /\ Phases' /\ Keeps
      /\ \A id \in Ids : StatementDone(id)'
      /\ Ids' = Ids \union {Id}
      /\ program'[Id].op = op /\ program'[Id].args = args
      /\ op = "tuple_index" => indirectInput'[Id] = args
  BY <1>2, <1>3, NoNodeStep
<1>5. PICK i : i = Id
  OBVIOUS
<1>6. StatementDone(i)'
  BY <1>2, <1>4, <1>5 DEF StatementDone, TupleIndexDone
<1>7. QED
  BY <1>4, <1>5, <1>6 DEF IInv

LEMMA ConcatStep ==
  ASSUME IInv, NEW n \in Nat, NEW bits \in [1..n -> Bits], VisitConcat(bits)
  PROVE  IInv'
<1>1. Bits = DOMAIN idNode /\ Bits \subseteq Nat
  BY DomainsInIds DEF IInv
<1>2. bits \in Seq(Bits) /\ bits \in Seq(Nat)
  BY <1>1, FunctionIsSeq
<1>3. PICK args \in Args, op \in {"tuple_index", "concat"} : args = bits /\ op = "concat"
  BY <1>2 DEF Args
<1>4. /\ Statement(op, args) /\ UNCHANGED <<phase, idNode, graph>>
      /\ indirectOutput' = Emplaced(indirectOutput, Id, args) /\ indirectInput' = indirectInput
  BY <1>3 DEF VisitConcat
<1>5. /\ Shapes' /\ Phases' /\ Keeps
      /\ \A id \in Ids : StatementDone(id)'
      /\ Ids' = Ids \union {Id}
      /\ program'[Id].op = op /\ program'[Id].args = args
      /\ op = "concat" => indirectOutput'[Id] = args
  BY <1>3, <1>4, NoNodeStep
<1>6. PICK i : i = Id
  OBVIOUS
<1>7. bits \in Seq(DOMAIN idNode')
  BY <1>1, <1>2, <1>4
<1>8. StatementDone(i)'
  BY <1>3, <1>5, <1>6, <1>7 DEF StatementDone, ConcatDone
<1>9. QED
  BY <1>5, <1>6, <1>8 DEF IInv

(* visit_return: one node for each bit of each element, whatever order the *)
(* counters run in, and none of them twice.                                *)
LEMMA ReturnStep ==
  ASSUME IInv, NEW args \in [DOMAIN OutputFields -> Concats],
         \A e \in DOMAIN args : Width(args[e]) = InTuple(OutputFields)[e],
         VisitReturn(args)
  PROVE  IInv'
<1> DEFINE Rec == [kind : Kinds, at : Seq(Nat), from : SUBSET Nat]
<1> DEFINE k == Len(OutputFields)
<1>1. Shapes /\ Phases /\ \A id \in Ids : StatementDone(id)
  BY DEF IInv
<1>2. /\ k \in Nat /\ DOMAIN OutputFields = 1..k /\ DOMAIN args = 1..k /\ Len(args) = k
      /\ args \in Seq(Concats) /\ args \in Seq(Nat)
  <2>1. k \in Nat /\ DOMAIN OutputFields = 1..k
    BY OutputsAreNumbered
  <2>2. args \in [1..k -> Concats] /\ Concats \subseteq Nat
    BY <1>1, <2>1, DomainsInIds
  <2>3. args \in Seq(Concats) /\ args \in Seq(Nat) /\ Len(args) = k
    BY <2>1, <2>2, FunctionIsSeq
  <2>4. QED
    BY <2>1, <2>2, <2>3
<1>3. Statement("return", args) /\ phase' = "returned" /\ phase = "body"
      /\ UNCHANGED <<indirectInput, indirectOutput, idNode>>
  BY DEF VisitReturn, Statement
<1>4. InTuple(OutputFields) = OutputFields /\ \A n \in Nodes : graph[n].kind # "output"
  BY <1>1, <1>3 DEF Phases, AcceptsHeader
<1>5. PICK op \in Ops, ar \in Args : op = "return" /\ ar = args
  BY <1>2 DEF Ops, Args
<1>6. /\ program' \in Seq([op : Ops, args : Args])
      /\ Ids' = Ids \union {Id} /\ Len(program') = Id
      /\ program'[Id].op = "return" /\ program'[Id].args = args
      /\ \A i \in Ids : program'[i] = program[i]
      /\ \A ops : Statements(ops)' = IF "return" \in ops THEN Statements(ops) \union {Id} ELSE Statements(ops)
  <2>1. Statement(op, ar)
    BY <1>3, <1>5
  <2>2. QED
    BY <1>1, <1>5, <2>1, StatementIs
<1>7. ASSUME NEW e \in 1..k
      PROVE  /\ args[e] \in Ids /\ program[args[e]].args \in Seq(DOMAIN idNode)
             /\ indirectOutput[args[e]] = program[args[e]].args
             /\ Len(program[args[e]].args) = OutputFields[e] /\ OutputFields[e] \in Nat
             /\ DOMAIN program[args[e]].args = 1..OutputFields[e]
  <2>1. args[e] \in Concats /\ args[e] \in Ids /\ program[args[e]].op = "concat"
    BY <1>1, <1>2, DomainsInIds DEF Concats, Statements
  <2>2. program[args[e]].args \in Seq(DOMAIN idNode) /\ indirectOutput[args[e]] = program[args[e]].args
    BY <1>1, <2>1 DEF StatementDone, ConcatDone
  <2>3. Width(args[e]) = OutputFields[e]
    BY <1>2, <1>4
  <2>4. Len(program[args[e]].args) = OutputFields[e]
    BY <2>3 DEF Width
  <2>5. OutputFields[e] \in Nat
    BY <1>2, OutputsAreNumbered
  <2>6. QED
    BY <2>1, <2>2, <2>4, <2>5, LenProperties
<1> DEFINE parts == [e \in DOMAIN args |->
       LET bits == indirectOutput[args[e]] IN
       [p \in DOMAIN bits |->
          [kind |-> "output",
           at |-> <<Countdown(e, Len(args)), Countdown(p, Len(bits))>>,
           from |-> {idNode[bits[p]]}]]]
<1>8. graph' = graph \o FlattenSeq(parts)
  BY DEF VisitReturn
<1>9. ASSUME NEW e \in 1..k
      PROVE  /\ parts[e] = [p \in 1..OutputFields[e] |-> OutputNode(args, e, p)]
             /\ \A p \in 1..OutputFields[e] : parts[e][p] = OutputNode(args, e, p)
  BY <1>2, <1>7 DEF Countdown, OutputNode
<1>10. ASSUME NEW e \in 1..k, NEW p \in 1..OutputFields[e]
       PROVE  /\ OutputNode(args, e, p) \in Rec
              /\ OutputNode(args, e, p).kind = "output"
              /\ OutputNode(args, e, p).at = <<k + 1 - e, OutputFields[e] + 1 - p>>
              /\ OutputNode(args, e, p).from \subseteq Nodes
  <2>1. program[args[e]].args[p] \in DOMAIN idNode
    BY <1>7, ElementOfSeq
  <2>2. idNode[program[args[e]].args[p]] \in Nodes /\ Nodes \subseteq Nat
    <3>1. Nodes \subseteq Nat
      BY <1>1, DomainsInIds
    <3>2. QED
      BY <1>1, <2>1, <3>1 DEF Shapes
  <2>3. OutputFields[e] \in Nat /\ p \in Nat /\ p <= OutputFields[e] /\ e \in Nat /\ e <= k /\ k \in Nat
    BY <1>2, <1>7
  <2>4. k + 1 - e \in Nat /\ OutputFields[e] + 1 - p \in Nat
    BY <2>3
  <2>5. <<k + 1 - e, OutputFields[e] + 1 - p>> \in Seq(Nat)
    BY <2>4
  <2>6. QED
    BY <2>2, <2>5 DEF OutputNode, Kinds
<1>11. parts \in Seq(Seq(Rec)) /\ Len(parts) = k /\ \A e \in 1..k : Len(parts[e]) = OutputFields[e]
  <2>1. DOMAIN parts = 1..k /\ parts = [e \in DOMAIN parts |-> parts[e]]
    BY <1>2
  <2> HIDE DEF parts, Rec
  <2>2. ASSUME NEW e \in 1..k PROVE parts[e] \in Seq(Rec) /\ Len(parts[e]) = OutputFields[e]
    <3>2. parts[e] \in [1..OutputFields[e] -> Rec]
      BY <1>9, <1>10
    <3>3. QED
      BY <1>7, <3>2, FunctionIsSeq
  <2>3. parts \in [1..k -> Seq(Rec)]
    BY <2>1, <2>2
  <2>4. QED
    BY <1>2, <2>2, <2>3, FunctionIsSeq
<1> HIDE DEF parts, Rec
<1> DEFINE old == Len(graph)
<1> DEFINE new == FlattenSeq(parts)
<1>12. PICK at \in [0..k -> Nat] :
         /\ at[k] = Len(new)
         /\ \A e \in 1..k : at[e] = at[e - 1] + OutputFields[e]
         /\ \A e \in 1..k : \A p \in 1..OutputFields[e] : new[at[e - 1] + p] = OutputNode(args, e, p)
         /\ \A q \in 1..Len(new) : \E e \in 1..k : \E p \in 1..OutputFields[e] : q = at[e - 1] + p
         /\ \A e \in 0..k : at[e] <= at[k]
  <2>1. k \in 0..k
    BY <1>2
  <2>2. PICK at \in [0..k -> Nat] :
         /\ at[k] = Len(new)
         /\ \A e \in 1..k : at[e] = at[e - 1] + Len(parts[e])
         /\ \A e \in 1..k : \A p \in 1..Len(parts[e]) : new[at[e - 1] + p] = parts[e][p]
         /\ \A e \in 0..k : \A q \in 1..at[e] :
               \E i \in 1..e : \E p \in 1..Len(parts[i]) : q = at[i - 1] + p
         /\ \A e \in 0..k : \A i \in 0..e : at[i] <= at[e]
    <3>1. Len(parts) = k /\ parts \in Seq(Seq(Rec))
      BY <1>11
    <3> HIDE DEF new, k
    <3>2. PICK at : Parts(parts, FlattenSeq(parts), at)
      BY <3>1, FlattenSeqParts
    <3>3. QED
      BY <3>1, <3>2 DEF Parts, new
  <2> HIDE DEF new, k
  <2>3. ASSUME NEW q \in 1..Len(new)
        PROVE  \E e \in 1..k : \E p \in 1..OutputFields[e] : q = at[e - 1] + p
    <3>1. PICK e \in 1..k : \E p \in 1..Len(parts[e]) : q = at[e - 1] + p
      BY <2>1, <2>2
    <3>2. QED
      BY <1>11, <3>1
  <2>4. \A e \in 0..k : at[e] <= at[k]
    BY <2>1, <2>2
  <2>5. ASSUME NEW e \in 1..k, NEW p \in 1..OutputFields[e]
        PROVE  new[at[e - 1] + p] = OutputNode(args, e, p)
    <3>1. p \in 1..Len(parts[e])
      BY <1>11
    <3>2. new[at[e - 1] + p] = parts[e][p]
      BY <2>2, <3>1
    <3>3. QED
      BY <1>9, <3>2
  <2>6. \A e \in 1..k : at[e] = at[e - 1] + OutputFields[e]
    BY <1>11, <2>2
  <2>7. QED
    BY <2>2, <2>3, <2>4, <2>5, <2>6
<1>13. /\ new \in Seq(Rec) /\ graph \in Seq(Rec) /\ old \in Nat /\ Len(new) \in Nat
       /\ Nodes = 1..old /\ Nodes' = 1..(old + Len(new)) /\ graph' \in Seq(Rec)
       /\ \A n \in 1..old : graph'[n] = graph[n]
       /\ \A q \in 1..Len(new) : graph'[old + q] = new[q]
  <2>1. new \in Seq(Rec) /\ graph \in Seq(Rec)
    BY <1>1, <1>11, FlattenSeqParts DEF Shapes, Rec
  <2> HIDE DEF new
  <2>2. graph' = graph \o new
    BY <1>8 DEF new
  <2>3. PICK a \in Seq(Rec), b \in Seq(Rec) : a = graph /\ b = new /\ graph' = a \o b
    BY <2>1, <2>2
  <2>4. /\ a \o b \in Seq(Rec) /\ Len(a \o b) = Len(a) + Len(b)
        /\ Len(a) \in Nat /\ Len(b) \in Nat
        /\ \A p \in 1..(Len(a) + Len(b)) :
             (a \o b)[p] = IF p <= Len(a) THEN a[p] ELSE b[p - Len(a)]
    BY ConcatProperties, LenProperties
  <2>5. DOMAIN (a \o b) = 1..(Len(a) + Len(b)) /\ DOMAIN a = 1..Len(a)
    BY <2>4, LenProperties
  <2>6. \A n \in 1..Len(a) : (a \o b)[n] = a[n]
    BY <2>4
  <2>7. ASSUME NEW q \in 1..Len(b) PROVE (a \o b)[Len(a) + q] = b[q]
    <3> DEFINE n == Len(a) + q
    <3>1. n \in 1..(Len(a) + Len(b)) /\ ~(n <= Len(a)) /\ n - Len(a) = q
      BY <2>4
    <3>2. (a \o b)[n] = b[n - Len(a)]
      BY <2>4, <3>1
    <3>3. QED
      BY <3>1, <3>2
  <2>8. QED
    BY <2>1, <2>3, <2>4, <2>5, <2>6, <2>7 DEF Nodes
<1> HIDE DEF new, old
<1>14. ASSUME NEW n \in Nodes', n \notin Nodes
       PROVE  \E e \in 1..k : \E p \in 1..OutputFields[e] :
                n = old + (at[e - 1] + p) /\ graph'[n] = OutputNode(args, e, p)
  <2>1. PICK q \in 1..Len(new) : n = old + q
    <3>1. n - old \in 1..Len(new) /\ n = old + (n - old)
      BY <1>13, <1>14
    <3>2. QED
      BY <3>1
  <2>2. PICK e \in 1..k : \E p \in 1..OutputFields[e] : q = at[e - 1] + p
    BY <1>12
  <2>3. PICK p \in 1..OutputFields[e] : q = at[e - 1] + p
    BY <2>2
  <2>4. graph'[n] = new[q] /\ new[q] = OutputNode(args, e, p)
    BY <1>12, <1>13, <2>1, <2>3
  <2>5. QED
    BY <2>1, <2>3, <2>4
<1>15. ASSUME NEW e \in 1..k, NEW p \in 1..OutputFields[e]
       PROVE  \E n \in Nodes' : graph'[n] = OutputNode(args, e, p)
  <2>1. e - 1 \in 0..k /\ e \in 0..k /\ at[e - 1] \in Nat /\ at[e] \in Nat /\ at[k] \in Nat
    <3>1. e - 1 \in 0..k /\ e \in 0..k /\ k \in 0..k
      BY <1>2
    <3>2. QED
      BY <3>1
  <2>2. PICK a \in Nat, w \in Nat : a = at[e - 1] /\ w = OutputFields[e] /\ a + w <= Len(new)
    BY <1>7, <1>12, <2>1
  <2>3. PICK q \in Nat : q = a + p
    BY <2>2
  <2>4. q \in 1..Len(new)
    <3>1. p \in 1..w
      BY <2>2
    <3>2. PICK l \in Nat : l = Len(new)
      BY <1>13
    <3>3. q \in 1..l
      BY <2>2, <2>3, <3>1, <3>2
    <3>4. QED
      BY <3>2, <3>3
  <2>5. new[q] = OutputNode(args, e, p)
    BY <1>12, <2>2, <2>3
  <2>6. old + q \in Nodes'
    BY <1>13, <2>4
  <2>8. graph'[old + q] = new[q]
    BY <1>13, <2>4
  <2>7. QED
    BY <2>5, <2>6, <2>8
<1>16. ASSUME NEW e \in 1..k, NEW p \in 1..OutputFields[e]
       PROVE  OutputNode(args, e, p)' = OutputNode(args, e, p)
  <2>1. program'[args[e]] = program[args[e]] /\ idNode' = idNode
    BY <1>3, <1>6, <1>7
  <2>2. QED
    BY <2>1 DEF OutputNode
<1>17. ReturnDone(args)'
  <2>1. Concats' = Concats /\ args \in [DOMAIN OutputFields -> Concats']
    BY <1>6 DEF Concats
  <2>2. ASSUME NEW e \in DOMAIN args PROVE Width(args[e])' = OutputFields[e]
    <3>1. program'[args[e]] = program[args[e]] /\ Len(program[args[e]].args) = OutputFields[e]
      BY <1>2, <1>6, <1>7
    <3>2. QED
      BY <3>1 DEF Width
  <2>3. ASSUME NEW n \in Nodes', graph'[n].kind = "output"
        PROVE  n \notin Nodes /\ \E e \in DOMAIN OutputFields : \E p \in 1..OutputFields[e] :
                                    graph'[n] = OutputNode(args, e, p)'
    <3>1. n \notin Nodes
      BY <1>4, <1>13, <2>3
    <3>2. PICK e \in 1..k : \E p \in 1..OutputFields[e] : graph'[n] = OutputNode(args, e, p)
      BY <1>14, <3>1
    <3>3. QED
      BY <1>2, <1>16, <3>1, <3>2
  <2>4. ASSUME NEW e \in DOMAIN OutputFields, NEW p \in 1..OutputFields[e]
        PROVE  \E n \in Nodes' : graph'[n] = OutputNode(args, e, p)'
    BY <1>2, <1>15, <1>16
  <2>5. ASSUME NEW m \in Nodes', NEW n \in Nodes',
               graph'[m].kind = "output", graph'[n].kind = "output", graph'[m].at = graph'[n].at
        PROVE  m = n
    <3>1. m \notin Nodes /\ n \notin Nodes
      BY <2>3, <2>5
    <3>2. PICK e \in 1..k : \E p \in 1..OutputFields[e] :
                 m = old + (at[e - 1] + p) /\ graph'[m] = OutputNode(args, e, p)
      BY <1>14, <3>1
    <3>3. PICK p \in 1..OutputFields[e] :
                 m = old + (at[e - 1] + p) /\ graph'[m] = OutputNode(args, e, p)
      BY <3>2
    <3>4. PICK i \in 1..k : \E j \in 1..OutputFields[i] :
                 n = old + (at[i - 1] + j) /\ graph'[n] = OutputNode(args, i, j)
      BY <1>14, <3>1
    <3>5. PICK j \in 1..OutputFields[i] :
                 n = old + (at[i - 1] + j) /\ graph'[n] = OutputNode(args, i, j)
      BY <3>4
    <3>6. <<k + 1 - e, OutputFields[e] + 1 - p>> = <<k + 1 - i, OutputFields[i] + 1 - j>>
      BY <1>10, <2>5, <3>3, <3>5
    <3>7. k + 1 - e = k + 1 - i /\ OutputFields[e] + 1 - p = OutputFields[i] + 1 - j
      BY <3>6
    <3>8. e = i
      BY <1>2, <3>7
    <3>9. p = j
      <4>1. PICK w \in Nat : w = OutputFields[e] /\ p \in 1..w /\ j \in 1..w /\ w + 1 - p = w + 1 - j
        BY <1>7, <3>7, <3>8
      <4>2. QED
        BY <4>1
    <3>10. QED
      BY <3>3, <3>5, <3>8, <3>9
  <2>6. QED
    BY <2>1, <2>2, <2>3, <2>4, <2>5 DEF ReturnDone
<1>18. Shapes'
  <2>1. /\ DOMAIN indirectInput' = Statements({"tuple_index"})'
        /\ DOMAIN indirectOutput' = Statements({"concat"})'
        /\ DOMAIN idNode' = Statements(Logical \union {"bit_slice"})'
    <3>1. "return" \notin Logical \union {"bit_slice"}
      BY DEF Logical
    <3>2. QED
      BY <1>1, <1>3, <1>6, <3>1 DEF Shapes
  <2>2. Nodes \subseteq Nodes'
    BY <1>13
  <2>3. ASSUME NEW n \in Nodes' PROVE graph'[n].from \subseteq 1..(n - 1)
    <3>1. CASE n \in Nodes
      BY <1>1, <1>13, <3>1 DEF Shapes
    <3>2. CASE n \notin Nodes
      <4>1. graph'[n].from \subseteq Nodes
        BY <1>10, <1>14, <3>2
      <4>2. 1..old \subseteq 1..(n - 1)
        BY <1>13, <3>2
      <4>3. QED
        BY <1>13, <4>1, <4>2
    <3>3. QED
      BY <3>1, <3>2
  <2>4. QED
    BY <1>1, <1>3, <1>6, <1>13, <2>1, <2>2, <2>3 DEF Shapes, Rec
<1>19. Phases'
  <2>1. Last(program') = program'[Id] /\ program' # <<>>
    <3>1. Id \in Nat \ {0}
      BY <1>1, DomainsInIds DEF Id
    <3>2. program' # <<>>
      BY <1>6, <3>1, EmptySeq
    <3>3. QED
      BY <1>6, <3>2 DEF Last
  <2>2. Last(program').args = args
    BY <1>6, <2>1
  <2>3. AcceptsHeader
    BY <1>1, <1>3 DEF Phases
  <2>4. QED
    BY <1>3, <1>17, <2>1, <2>2, <2>3 DEF Phases
<1>20. Keeps
  BY <1>3, <1>6, <1>13 DEF Keeps
<1>21. \A id \in Ids : StatementDone(id)'
  BY <1>1, <1>20, StatementStays
<1>22. PICK i : i = Id
  OBVIOUS
<1>23. StatementDone(i)'
  BY <1>3, <1>6, <1>22 DEF StatementDone
<1>24. QED
  BY <1>6, <1>18, <1>19, <1>21, <1>22, <1>23 DEF IInv

--------------------------------------------------------------------------------
(* The invariant *)

LEMMA InitIsGood == Init => IInv
<1>1. SUFFICES ASSUME Init PROVE IInv
  OBVIOUS
<1>2. /\ phase = "header" /\ program = <<>> /\ indirectInput = <<>> /\ indirectOutput = <<>>
      /\ idNode = <<>> /\ graph = <<>>
  BY <1>1 DEF Init
<1>3. DOMAIN <<>> = {} /\ Ids = {} /\ Nodes = {}
  BY <1>2 DEF Ids, Nodes
<1>4. \A ops : Statements(ops) = {}
  BY <1>3 DEF Statements
<1>5. program \in Seq([op : Ops, args : Args]) /\ graph \in Seq([kind : Kinds, at : Seq(Nat), from : SUBSET Nat])
  BY <1>2, EmptySeq
<1>6. Shapes
  BY <1>2, <1>3, <1>4, <1>5 DEF Shapes
<1>7. QED
  BY <1>2, <1>3, <1>6 DEF IInv, Phases

LEMMA StepIsGood ==
  ASSUME IInv, [Next]_vars
  PROVE  IInv'
<1>1. CASE ReadHeader
  <2>1. /\ phase = "header" /\ phase' = IF AcceptsHeader THEN "body" ELSE "rejected"
        /\ UNCHANGED <<program, indirectInput, indirectOutput, idNode, graph>>
    BY <1>1 DEF ReadHeader
  <2>2. Shapes /\ program = <<>> /\ graph = <<>> /\ Ids = {} /\ Nodes = {}
    BY <2>1 DEF IInv, Phases, Ids, Nodes
  <2>3. Ids' = {} /\ Nodes' = {} /\ phase' \in {"body", "rejected"}
    BY <2>1, <2>2 DEF Ids, Nodes
  <2>4. Shapes'
    BY <2>1, <2>2, <2>3 DEF Shapes, Statements, Ids, Nodes
  <2>5. Phases'
    BY <2>1, <2>2, <2>3 DEF Phases, AcceptsHeader, InTuple
  <2>6. QED
    BY <2>3, <2>4, <2>5 DEF IInv
<1>2. ASSUME NEW s \in DOMAIN InputFields, NEW e \in DOMAIN InputFields[s], VisitTupleIndex(s, e)
      PROVE  IInv'
  BY <1>2, TupleIndexStep
<1>3. ASSUME NEW src \in DOMAIN indirectInput,
             NEW b \in 1..InTuple(InputFields[program[src].args[1]])[program[src].args[2]],
             VisitBitSlice(src, b)
      PROVE  IInv'
  <2>1. phase = "body" /\ AcceptsHeader
    BY <1>3 DEF VisitBitSlice, Statement, IInv, Phases
  <2>2. src \in Ids /\ program[src].op = "tuple_index"
    BY DEF IInv, Shapes, Statements
  <2>3. PICK s \in DOMAIN InputFields : \E e \in DOMAIN InputFields[s] : program[src].args = <<s, e>>
    BY <2>2 DEF IInv, StatementDone, TupleIndexDone
  <2>4. PICK e \in DOMAIN InputFields[s] : program[src].args = <<s, e>>
    BY <2>3
  <2>5. program[src].args[1] = s /\ program[src].args[2] = e
    BY <2>4
  <2>6. InTuple(InputFields[s]) = InputFields[s]
    BY <2>1 DEF AcceptsHeader
  <2>7. InputFields[s][e] \in Nat
    BY FieldsAreNumbered, ElementOfSeq
  <2>8. b \in 1..InputFields[s][e]
    BY <2>5, <2>6
  <2>9. b \in Nat
    BY <2>7, <2>8
  <2>10. QED
    BY <1>3, <2>9, BitSliceStep
<1>4. ASSUME NEW op \in {"and", "or"}, NEW operands \in kSubset(2, Bits), VisitBinary(op, operands)
      PROVE  IInv'
  <2>1. GraphOperation(op) = op /\ operands \in SUBSET Bits /\ op \in {"and", "or", "not"}
    BY DEF GraphOperation, kSubset
  <2>2. Statement(op, operands) /\ AddNode(op, <<>>, operands)
    BY <1>4, <2>1 DEF VisitBinary
  <2>3. QED
    BY <2>1, <2>2, GateStep
<1>5. ASSUME NEW operand \in Bits, VisitUnary(operand) PROVE IInv'
  <2>1. PICK op \in {"and", "or", "not"}, operands \in SUBSET Bits : op = "not" /\ operands = {operand}
    OBVIOUS
  <2>2. Statement(op, operands) /\ AddNode(op, <<>>, operands)
    BY <1>5, <2>1 DEF VisitUnary
  <2>3. QED
    BY <2>2, GateStep
<1>6. ASSUME NEW bit \in {0, 1}, VisitLiteral(bit) PROVE IInv'
  BY <1>6, LiteralStep
<1>7. ASSUME Concatenates, NEW args \in [1..ElementOfNextConcat -> Bits], VisitConcat(args)
      PROVE  IInv'
  <2>1. phase = "body" /\ AcceptsHeader
    BY <1>7 DEF VisitConcat, Statement, IInv, Phases
  <2>2. InTuple(OutputFields) = OutputFields
    BY <2>1 DEF AcceptsHeader
  <2>3. Cardinality(Concats) \in Nat
    <3>1. Concats \subseteq 1..Len(program) /\ Len(program) \in Nat
      BY DomainsInIds DEF IInv
    <3>2. IsFiniteSet(1..Len(program))
      BY <3>1, FS_Interval
    <3>3. QED
      BY <3>1, <3>2, FS_Subset, FS_CardinalityType
  <2>4. Cardinality(Concats) + 1 \in DOMAIN OutputFields
    BY <1>7, <2>3, OutputsAreNumbered DEF Concatenates
  <2>5. PICK n \in Nat : n = ElementOfNextConcat
    BY <2>2, <2>4, OutputsAreNumbered DEF ElementOfNextConcat
  <2>6. args \in [1..n -> Bits]
    BY <2>5
  <2>7. QED
    BY <1>7, <2>6, ConcatStep
<1>8. ASSUME NEW args \in [DOMAIN OutputFields -> Concats],
             \A e \in DOMAIN args : Width(args[e]) = InTuple(OutputFields)[e], VisitReturn(args)
      PROVE  IInv'
  BY <1>8, ReturnStep
<1>9. CASE UNCHANGED vars
  <2>1. UNCHANGED <<phase, program, indirectInput, indirectOutput, idNode, graph>>
    BY <1>9 DEF vars
  <2>2. Shapes'
    BY <2>1 DEF IInv, Shapes, Statements, Ids, Nodes
  <2>3. Ids' = Ids /\ Nodes' = Nodes /\ Concats' = Concats
    BY <2>1 DEF Ids, Nodes, Concats, Statements
  <2>4. \A args : ReturnDone(args)' = ReturnDone(args)
    BY <2>1, <2>3 DEF ReturnDone, OutputNode, Width
  <2>5. Phases'
    <3>1. PICK args : args = Last(program).args
      OBVIOUS
    <3>2. Last(program').args = args
      BY <2>1, <3>1
    <3>3. phase = "returned" => ReturnDone(args)
      BY <3>1 DEF IInv, Phases
    <3>4. phase' = "returned" => ReturnDone(args)'
      BY <2>1, <2>4, <3>3
    <3>5. QED
      BY <2>1, <2>3, <3>2, <3>4 DEF IInv, Phases, AcceptsHeader, InTuple
  <2>6. Keeps
    BY <2>1, <2>3 DEF Keeps
  <2>7. \A id \in Ids : StatementDone(id)'
    BY <2>6, StatementStays DEF IInv
  <2>8. QED
    BY <2>2, <2>3, <2>5, <2>7 DEF IInv
<1>10. QED
  BY <1>1, <1>2, <1>3, <1>4, <1>5, <1>6, <1>7, <1>8, <1>9 DEF Next, Finished

LEMMA Invariance == Spec => []IInv
<1>1. IInv /\ [Next]_vars => IInv'
  BY StepIsGood
<1>2. QED
  BY InitIsGood, <1>1, PTL DEF Spec


(* The types of the transpiler's maps hold in every state: every name in   *)
(* them is a statement of its kind, no node has two ids, edges go back.    *)
THEOREM TypeCorrect == Spec => []TypeOK
<1>1. ASSUME IInv PROVE TypeOK
  <2>1. Shapes
    BY <1>1 DEF IInv
  <2>2. ASSUME NEW id \in DOMAIN indirectOutput
        PROVE  Range(indirectOutput[id]) \subseteq DOMAIN idNode
    <3>1. id \in Ids /\ program[id].op = "concat"
      BY <2>1 DEF Shapes, Statements
    <3>2. indirectOutput[id] \in Seq(DOMAIN idNode)
      BY <1>1, <3>1 DEF IInv, StatementDone, ConcatDone
    <3>3. QED
      BY <3>2, ElementOfSeq, LenProperties DEF Range
  <2>3. Range(idNode) \subseteq Nodes /\ IsInjective(idNode)
    BY <2>1 DEF Shapes, Range, IsInjective
  <2>4. QED
    BY <2>1, <2>2, <2>3 DEF TypeOK, Shapes
<1>2. QED
  BY Invariance, <1>1, PTL

--------------------------------------------------------------------------------
(* What the recursive definitions say *)

LEMMA GateOfSets ==
  ASSUME NEW kind \in {"and", "or", "not"}, NEW sets, \A x \in sets : x \subseteq Inputs
  PROVE  Gate(kind, sets) \in SUBSET Inputs
<1>1. CASE kind = "and"
  BY <1>1 DEF Gate
<1>2. CASE kind = "or"
  BY <1>2 DEF Gate
<1>3. CASE kind = "not"
  BY <1>3 DEF Gate
<1>4. QED
  BY <1>1, <1>2, <1>3

(* SaidBy looks at earlier statements only, ComputedBy at earlier nodes.   *)
LEMMA SaidByEarlier ==
  ASSUME IInv, NEW f \in [Ids -> SUBSET Inputs], NEW id \in Ids
  PROVE  /\ SaidBy(f, id) \in SUBSET Inputs
         /\ \A g \in [Ids -> SUBSET Inputs] :
              (\A j \in 1..(id - 1) : f[j] = g[j]) => SaidBy(f, id) = SaidBy(g, id)
<1>1. Ids = 1..Len(program) /\ Len(program) \in Nat
  BY DomainsInIds DEF IInv
<1>2. CASE program[id].op \in {"and", "or", "not"}
  <2>1. program[id].args \subseteq 1..(id - 1) /\ 1..(id - 1) \subseteq Ids
    <3>1. GateDone(id)
      BY <1>2 DEF IInv, StatementDone
    <3>2. program[id].args \subseteq 1..(id - 1)
      BY <3>1 DEF GateDone
    <3>3. QED
      BY <1>1, <3>2
  <2>2. \A h : SaidBy(h, id) = Gate(program[id].op, {h[a] : a \in program[id].args})
    BY <1>2 DEF SaidBy
  <2>3. \A x \in {f[a] : a \in program[id].args} : x \subseteq Inputs
    BY <2>1
  <2>4. PICK kind \in {"and", "or", "not"} : kind = program[id].op
    BY <1>2
  <2>5. PICK sets : sets = {f[a] : a \in program[id].args}
    OBVIOUS
  <2>6. Gate(kind, sets) \in SUBSET Inputs
    <3> HIDE DEF Inputs
    <3>1. \A x \in sets : x \subseteq Inputs
      BY <2>3, <2>5
    <3>2. QED
      BY <3>1, GateOfSets
  <2>7. ASSUME NEW g \in [Ids -> SUBSET Inputs], \A j \in 1..(id - 1) : f[j] = g[j]
        PROVE  SaidBy(f, id) = SaidBy(g, id)
    <3>1. {f[a] : a \in program[id].args} = {g[a] : a \in program[id].args}
      BY <2>1, <2>7
    <3>2. QED
      BY <2>2, <3>1
  <2>8. QED
    BY <2>2, <2>4, <2>5, <2>6, <2>7
<1>3. CASE program[id].op \notin {"and", "or", "not"}
  <2>1. \A h : SaidBy(h, id) \in SUBSET Inputs /\ SaidBy(h, id) = SaidBy(f, id)
    BY <1>3 DEF SaidBy
  <2>2. QED
    BY <2>1
<1>4. QED
  BY <1>2, <1>3

LEMMA ComputedByEarlier ==
  ASSUME IInv, NEW f \in [Nodes -> SUBSET Inputs], NEW n \in Nodes
  PROVE  /\ ComputedBy(f, n) \in SUBSET Inputs
         /\ \A g \in [Nodes -> SUBSET Inputs] :
              (\A j \in 1..(n - 1) : f[j] = g[j]) => ComputedBy(f, n) = ComputedBy(g, n)
<1>1. Nodes = 1..Len(graph) /\ Len(graph) \in Nat
  BY DomainsInIds DEF IInv
<1>2. graph[n].kind \in Kinds
  <2>1. graph \in Seq([kind : Kinds, at : Seq(Nat), from : SUBSET Nat])
    BY DEF IInv, Shapes
  <2>2. graph[n] \in [kind : Kinds, at : Seq(Nat), from : SUBSET Nat]
    BY <1>1, <2>1, ElementOfSeq
  <2>3. QED
    BY <2>2
<1>3. graph[n].from \subseteq 1..(n - 1) /\ 1..(n - 1) \subseteq Nodes
  BY <1>1 DEF IInv, Shapes
<1>4. \A x \in {f[m] : m \in graph[n].from} : x \subseteq Inputs
  BY <1>3
<1>5. ASSUME NEW g \in [Nodes -> SUBSET Inputs], \A j \in 1..(n - 1) : f[j] = g[j]
      PROVE  {f[m] : m \in graph[n].from} = {g[m] : m \in graph[n].from}
  BY <1>3, <1>5
<1>6. CASE graph[n].kind \in {"and", "or", "not"}
  <2>1. \A h : ComputedBy(h, n) = Gate(graph[n].kind, {h[m] : m \in graph[n].from})
    BY <1>6 DEF ComputedBy
  <2>2. PICK kind \in {"and", "or", "not"} : kind = graph[n].kind
    BY <1>6
  <2>3. PICK sets : sets = {f[m] : m \in graph[n].from}
    OBVIOUS
  <2>4. Gate(kind, sets) \in SUBSET Inputs
    BY <1>4, <2>3, GateOfSets
  <2>5. QED
    BY <1>5, <2>1, <2>2, <2>3, <2>4
<1>7. CASE graph[n].kind = "output"
  <2>1. \A h : ComputedBy(h, n) = UNION {h[m] : m \in graph[n].from}
    BY <1>7 DEF ComputedBy
  <2>2. UNION {f[m] : m \in graph[n].from} \in SUBSET Inputs
    BY <1>4
  <2>3. QED
    BY <1>5, <2>1, <2>2
<1>8. CASE graph[n].kind \in {"input", "constant"}
  <2>1. \A h : ComputedBy(h, n) \in SUBSET Inputs /\ ComputedBy(h, n) = ComputedBy(f, n)
    BY <1>8 DEF ComputedBy
  <2>2. QED
    BY <2>1
<1>9. QED
  BY <1>2, <1>6, <1>7, <1>8 DEF Kinds

LEMMA MeaningIs ==
  ASSUME IInv
  PROVE  \A id \in Ids : Meaning[id] = SaidBy(Meaning, id)
<1>1. PICK n \in Nat : Ids = 1..n
  BY DomainsInIds DEF IInv
<1>2. PICK V : V = SUBSET Inputs
  OBVIOUS
<1>3. PICK F : F = [c \in [1..n -> V] \X (1..n) |-> SaidBy(c[1], c[2])]
  OBVIOUS
<1>4. ASSUME NEW f \in [1..n -> V], NEW i \in 1..n
      PROVE  /\ F[<<f, i>>] = SaidBy(f, i) /\ SaidBy(f, i) \in V
             /\ \A g \in [1..n -> V] :
                  (\A j \in 1..(i - 1) : f[j] = g[j]) => SaidBy(f, i) = SaidBy(g, i)
  <2>1. <<f, i>> \in [1..n -> V] \X (1..n) /\ <<f, i>>[1] = f /\ <<f, i>>[2] = i
    OBVIOUS
  <2>2. F[<<f, i>>] = SaidBy(f, i)
    BY <1>3, <2>1
  <2>3. QED
    BY <1>1, <1>2, <2>2, SaidByEarlier
<1>5. F \in [[1..n -> V] \X (1..n) -> V]
  BY <1>3, <1>4
<1>6. ASSUME NEW f \in [1..n -> V], NEW g \in [1..n -> V], NEW i \in 1..n,
             \A j \in 1..(i - 1) : f[j] = g[j]
      PROVE  F[<<f, i>>] = F[<<g, i>>]
  BY <1>4, <1>6
<1>7. PICK f \in [1..n -> V] : \A i \in 1..n : f[i] = F[<<f, i>>]
  <2>1. PICK v \in V : v = {}
    BY <1>2
  <2>2. \A g, h \in [1..n -> V] : \A i \in 1..n :
          (\A j \in 1..(i - 1) : g[j] = h[j]) => F[<<g, i>>] = F[<<h, i>>]
    BY <1>6
  <2>3. LooksBack(F, n, V)
    BY <1>5, <2>2 DEF LooksBack
  <2>4. PICK f : Solves(f, F, n, V)
    BY <2>1, <2>3, Recursion
  <2>5. QED
    BY <2>4 DEF Solves
<1>8. f = [id \in Ids |-> SaidBy(f, id)]
  BY <1>1, <1>4, <1>7
<1>9. Meaning = [id \in Ids |-> SaidBy(Meaning, id)]
  BY <1>8 DEF Meaning
<1>10. QED
  BY <1>9

LEMMA ComputedIs ==
  ASSUME IInv
  PROVE  \A n \in Nodes : Computed[n] = ComputedBy(Computed, n)
<1>1. PICK n \in Nat : Nodes = 1..n
  BY DomainsInIds DEF IInv
<1>2. PICK V : V = SUBSET Inputs
  OBVIOUS
<1>3. PICK F : F = [c \in [1..n -> V] \X (1..n) |-> ComputedBy(c[1], c[2])]
  OBVIOUS
<1>4. ASSUME NEW f \in [1..n -> V], NEW i \in 1..n
      PROVE  /\ F[<<f, i>>] = ComputedBy(f, i) /\ ComputedBy(f, i) \in V
             /\ \A g \in [1..n -> V] :
                  (\A j \in 1..(i - 1) : f[j] = g[j]) => ComputedBy(f, i) = ComputedBy(g, i)
  <2>1. <<f, i>> \in [1..n -> V] \X (1..n) /\ <<f, i>>[1] = f /\ <<f, i>>[2] = i
    OBVIOUS
  <2>2. F[<<f, i>>] = ComputedBy(f, i)
    BY <1>3, <2>1
  <2>3. QED
    BY <1>1, <1>2, <2>2, ComputedByEarlier
<1>5. F \in [[1..n -> V] \X (1..n) -> V]
  BY <1>3, <1>4
<1>6. ASSUME NEW g \in [1..n -> V], NEW h \in [1..n -> V], NEW i \in 1..n,
             \A j \in 1..(i - 1) : g[j] = h[j]
      PROVE  F[<<g, i>>] = F[<<h, i>>]
  BY <1>4, <1>6
<1>7. PICK f \in [1..n -> V] : \A i \in 1..n : f[i] = F[<<f, i>>]
  <2>1. PICK v \in V : v = {}
    BY <1>2
  <2>2. \A g, h \in [1..n -> V] : \A i \in 1..n :
          (\A j \in 1..(i - 1) : g[j] = h[j]) => F[<<g, i>>] = F[<<h, i>>]
    BY <1>6
  <2>3. LooksBack(F, n, V)
    BY <1>5, <2>2 DEF LooksBack
  <2>4. PICK f : Solves(f, F, n, V)
    BY <2>1, <2>3, Recursion
  <2>5. QED
    BY <2>4 DEF Solves
<1>8. f = [i \in Nodes |-> ComputedBy(f, i)]
  BY <1>1, <1>4, <1>7
<1>9. Computed = [i \in Nodes |-> ComputedBy(Computed, i)]
  BY <1>8 DEF Computed
<1>10. QED
  BY <1>9

--------------------------------------------------------------------------------
(* The circuit against the program *)

(* When the transpiler takes the element it finds in the header for the    *)
(* field the compiler put there: structs of one field, or no reversal.     *)
InputsInPlace ==
  AcceptsHeader =>
    \A s \in DOMAIN InputFields : \A e \in DOMAIN InputFields[s] : Element(e, InputFields[s]) = e

(* The same for the fields visit_return counts down: a reversal, or one    *)
(* field.                                                                  *)
OutputsInPlace ==
  AcceptsHeader =>
    \A e \in DOMAIN OutputFields : Element(Len(OutputFields) + 1 - e, OutputFields) = e

LEMMA NodeComputes ==
  ASSUME IInv, InputsInPlace, NEW id \in DOMAIN idNode,
         \A a \in DOMAIN idNode : a < id => Computed[idNode[a]] = Meaning[a]
  PROVE  Computed[idNode[id]] = Meaning[id]
<1>1. /\ Ids = 1..Len(program) /\ Len(program) \in Nat /\ DOMAIN idNode \subseteq Ids
      /\ id \in Ids /\ idNode[id] \in Nodes
  BY DomainsInIds DEF IInv, Shapes
<1>2. program[id].op \in {"and", "or", "not", "literal", "bit_slice"}
  BY DEF IInv, Shapes, Statements, Logical
<1>3. PICK n \in Nodes : n = idNode[id]
  BY <1>1
<1>4. Meaning[id] = SaidBy(Meaning, id) /\ Computed[n] = ComputedBy(Computed, n)
  BY <1>1, MeaningIs, ComputedIs
<1>5. CASE program[id].op \in {"and", "or", "not"}
  <2>1. GateDone(id)
    BY <1>1, <1>5 DEF IInv, StatementDone
  <2>2. /\ graph[n].kind = program[id].op /\ graph[n].from = {idNode[a] : a \in program[id].args}
        /\ program[id].args \subseteq DOMAIN idNode \cap 1..(id - 1)
    BY <1>3, <2>1 DEF GateDone
  <2>3. Computed[n] = Gate(program[id].op, {Computed[m] : m \in graph[n].from})
    BY <1>4, <1>5, <2>2 DEF ComputedBy
  <2>4. Meaning[id] = Gate(program[id].op, {Meaning[a] : a \in program[id].args})
    BY <1>4, <1>5 DEF SaidBy
  <2>5. \A a \in program[id].args : Computed[idNode[a]] = Meaning[a]
    <3>1. \A a \in 1..(id - 1) : a < id
      BY <1>1
    <3>2. QED
      BY <2>2, <3>1
  <2>6. {Computed[m] : m \in graph[n].from} = {Meaning[a] : a \in program[id].args}
    BY <2>2, <2>5
  <2>7. QED
    BY <1>3, <2>3, <2>4, <2>6
<1>6. CASE program[id].op = "literal"
  <2>1. LiteralDone(id)
    BY <1>1, <1>6 DEF IInv, StatementDone
  <2>2. PICK bit \in {0, 1} : program[id].args = bit
    BY <2>1 DEF LiteralDone
  <2>3. graph[n].kind = "constant" /\ graph[n].at = <<bit>>
    BY <1>3, <2>1, <2>2 DEF LiteralDone
  <2>4. Computed[n] = IF <<bit>> = <<1>> THEN Inputs ELSE {}
    BY <1>4, <2>3 DEF ComputedBy
  <2>5. Meaning[id] = IF bit = 1 THEN Inputs ELSE {}
    BY <1>4, <1>6, <2>2 DEF SaidBy
  <2>6. <<bit>> = <<1>> <=> bit = 1
    OBVIOUS
  <2>7. QED
    BY <1>3, <2>4, <2>5, <2>6
<1>7. CASE program[id].op = "bit_slice"
  <2>1. PICK src \in 1..(id - 1), b \in Nat :
          /\ program[id].args = <<src, b>> /\ program[src].op = "tuple_index"
          /\ graph[n] = [kind |-> "input", at |-> program[src].args \o <<b>>, from |-> {}]
    BY <1>1, <1>3, <1>7 DEF IInv, StatementDone, BitSliceDone
  <2>2. src \in Ids
    BY <1>1
  <2>3. PICK s \in DOMAIN InputFields : \E e \in DOMAIN InputFields[s] : program[src].args = <<s, e>>
    BY <2>1, <2>2 DEF IInv, StatementDone, TupleIndexDone
  <2>4. PICK e \in DOMAIN InputFields[s] : program[src].args = <<s, e>>
    BY <2>3
  <2>5. AcceptsHeader
    <3>1. program # <<>>
      BY <1>1
    <3>2. QED
      BY <3>1 DEF IInv, Shapes, Phases
  <2>6. Element(e, InputFields[s]) = e
    BY <2>5 DEF InputsInPlace
  <2>7. graph[n].kind = "input" /\ graph[n].at = <<s, e, b>>
    <3>1. s \in Nat /\ e \in Nat
      BY FieldsAreNumbered
    <3>2. <<s, e>> \o <<b>> = <<s, e, b>>
      BY <3>1, PairAnd
    <3>3. QED
      BY <2>1, <2>4, <3>2
  <2>8. Computed[n] = {v \in Inputs : <<s, e, b>> \in v}
    BY <1>4, <2>7 DEF ComputedBy
  <2>9. Meaning[id] = {v \in Inputs : <<s, Element(e, InputFields[s]), b>> \in v}
    <3>1. /\ program[id].args[1] = src /\ program[id].args[2] = b
          /\ program[src].args[1] = s /\ program[src].args[2] = e
      BY <2>1, <2>4
    <3>2. QED
      BY <1>4, <1>7, <3>1 DEF SaidBy
  <2>10. QED
    BY <1>3, <2>6, <2>8, <2>9
<1>8. QED
  BY <1>2, <1>5, <1>6, <1>7

LEMMA NodesCompute ==
  ASSUME IInv, InputsInPlace
  PROVE  NodesComputeStatements
<1> DEFINE T == {k \in Nat : \A id \in DOMAIN idNode : id <= k => Computed[idNode[id]] = Meaning[id]}
<1>1. DOMAIN idNode \subseteq Nat /\ \A id \in DOMAIN idNode : id >= 1
  BY DomainsInIds DEF IInv
<1>2. PICK S : S = T
  OBVIOUS
<1>3. 0 \in S
  BY <1>1, <1>2
<1>4. ASSUME NEW k \in Nat, k \in S PROVE k + 1 \in S
  <2>1. \A id \in DOMAIN idNode : id <= k => Computed[idNode[id]] = Meaning[id]
    BY <1>2, <1>4
  <2>2. ASSUME NEW id \in DOMAIN idNode, id <= k + 1 PROVE Computed[idNode[id]] = Meaning[id]
    <3>1. \A a \in DOMAIN idNode : a < id => a <= k
      BY <1>1, <2>2
    <3>2. QED
      BY <2>1, <3>1, NodeComputes
  <2>3. QED
    BY <1>2, <2>2
<1>5. Nat \subseteq S
  BY <1>3, <1>4, SetInduction
<1>6. ASSUME NEW id \in DOMAIN idNode PROVE Computed[idNode[id]] = Meaning[id]
  <2>1. id \in T
    BY <1>1, <1>2, <1>5
  <2>2. QED
    BY <1>1, <2>1
<1>7. QED
  BY <1>6 DEF NodesComputeStatements

(* Every node computes what the statement it was made for says, whatever   *)
(* the program: through ids that have no node, through literals and through *)
(* operands of every kind, transpile_ir_program never takes one for another *)
(* when the tuples' elements are where it looks for them.                  *)
THEOREM GraphComputesProgram ==
  ASSUME InputsInPlace
  PROVE  Spec => []NodesComputeStatements
<1>1. IInv => NodesComputeStatements
  BY NodesCompute
<1>2. QED
  BY Invariance, <1>1, PTL

LEMMA PlacesOfFields ==
  ASSUME AcceptsHeader, OutputsInPlace, NEW e \in DOMAIN OutputFields
  PROVE  /\ Len(OutputFields) + 1 - e \in DOMAIN OutputFields
         /\ OutputFields[Len(OutputFields) + 1 - e] = OutputFields[e]
         /\ Element(Len(OutputFields) + 1 - e, OutputFields) = e
         /\ Element(e, OutputFields) = Len(OutputFields) + 1 - e
<1>1. DOMAIN OutputFields = 1..Len(OutputFields) /\ Len(OutputFields) \in Nat /\ e \in Nat
  BY OutputsAreNumbered
<1>2. Len(OutputFields) + 1 - e \in DOMAIN OutputFields
  BY <1>1
<1>3. Element(Len(OutputFields) + 1 - e, OutputFields) = e
  BY DEF OutputsInPlace
<1>4. CASE Reversed
  <2>1. Element(e, OutputFields) = Len(OutputFields) + 1 - e
    BY <1>4 DEF Element
  <2>2. Reverse(OutputFields) = OutputFields
    BY <1>4 DEF AcceptsHeader, InTuple
  <2>3. Reverse(OutputFields)[e] = OutputFields[Len(OutputFields) + 1 - e]
    <3>1. (Len(OutputFields) - e) + 1 = Len(OutputFields) + 1 - e
      BY <1>1
    <3>2. QED
      BY <1>1, <3>1 DEF Reverse
  <2>4. QED
    BY <1>2, <1>3, <2>1, <2>2, <2>3
<1>5. CASE ~Reversed
  BY <1>1, <1>2, <1>3, <1>5 DEF Element
<1>6. QED
  BY <1>4, <1>5

LEMMA CircuitComputes ==
  ASSUME IInv, InputsInPlace, OutputsInPlace
  PROVE  CircuitComputesSource
<1>1. SUFFICES ASSUME phase = "returned" PROVE CircuitComputesSource
  BY DEF CircuitComputesSource
<1> DEFINE L == Len(OutputFields)
<1> DEFINE returned == Last(program).args
<1> DEFINE arguments(at) == program[returned[Element(at[1], OutputFields)]].args
<1> DEFINE source(at) == Meaning[arguments(at)[Len(arguments(at)) + 1 - at[2]]]
<1> DEFINE bits == UNION {{f} \X (1..OutputFields[f]) : f \in DOMAIN OutputFields}
<1>2. AcceptsHeader /\ ReturnDone(returned)
  BY <1>1 DEF IInv, Phases
<1>3. DOMAIN OutputFields = 1..L /\ L \in Nat /\ \A e \in DOMAIN OutputFields : OutputFields[e] \in Nat
  BY OutputsAreNumbered
<1>4. ASSUME NEW e \in DOMAIN OutputFields, NEW p \in 1..OutputFields[e], NEW n \in Nodes,
             graph[n] = OutputNode(returned, e, p)
      PROVE  /\ graph[n].kind = "output" /\ graph[n].at = <<L + 1 - e, OutputFields[e] + 1 - p>>
             /\ graph[n].at \in bits /\ Computed[n] = source(graph[n].at)
  <2>1. L + 1 - e \in DOMAIN OutputFields /\ OutputFields[L + 1 - e] = OutputFields[e]
        /\ Element(L + 1 - e, OutputFields) = e
    BY <1>2, PlacesOfFields
  <2>2. OutputFields[e] + 1 - p \in 1..OutputFields[e]
    BY <1>3
  <2>3. PICK at : at = <<L + 1 - e, OutputFields[e] + 1 - p>>
    OBVIOUS
  <2>4. at \in bits /\ at[1] = L + 1 - e /\ at[2] = OutputFields[e] + 1 - p
    BY <2>1, <2>2, <2>3
  <2>5. PICK c \in Concats : c = returned[e]
    BY <1>2 DEF ReturnDone
  <2>6. c \in Ids /\ program[c].op = "concat"
    BY DEF Concats, Statements
  <2>7. program[c].args \in Seq(DOMAIN idNode) /\ Len(program[c].args) = OutputFields[e]
    <3>1. DOMAIN returned = DOMAIN OutputFields /\ Width(c) = OutputFields[e]
      BY <1>2, <2>5 DEF ReturnDone
    <3>2. QED
      BY <2>6, <3>1 DEF IInv, StatementDone, ConcatDone, Width
  <2>8. PICK x \in DOMAIN idNode : x = program[c].args[p]
    BY <2>7, ElementOfSeq
  <2>9. arguments(at) = program[c].args
    BY <2>1, <2>4, <2>5
  <2>10. OutputFields[e] + 1 - (OutputFields[e] + 1 - p) = p
    BY <1>3
  <2>11. source(at) = Meaning[x]
    BY <2>4, <2>7, <2>8, <2>9, <2>10
  <2>12. graph[n].kind = "output" /\ graph[n].at = at /\ graph[n].from = {idNode[x]}
    BY <1>4, <2>3, <2>5, <2>8 DEF OutputNode
  <2>13. Computed[n] = Computed[idNode[x]]
    <3>1. Computed[n] = ComputedBy(Computed, n)
      BY ComputedIs
    <3>2. Computed[n] = UNION {Computed[m] : m \in graph[n].from}
      BY <2>12, <3>1 DEF ComputedBy
    <3>3. QED
      BY <2>12, <3>2
  <2>14. Computed[idNode[x]] = Meaning[x]
    BY NodesCompute DEF NodesComputeStatements
  <2> HIDE DEF source, arguments
  <2>15. QED
    BY <2>3, <2>4, <2>11, <2>12, <2>13, <2>14
<1>5. ASSUME NEW n \in Nodes, graph[n].kind = "output"
      PROVE  graph[n].at \in bits /\ Computed[n] = source(graph[n].at)
  <2>1. PICK e \in DOMAIN OutputFields : \E p \in 1..OutputFields[e] : graph[n] = OutputNode(returned, e, p)
    BY <1>2, <1>5 DEF ReturnDone
  <2>2. PICK p \in 1..OutputFields[e] : graph[n] = OutputNode(returned, e, p)
    BY <2>1
  <2> HIDE DEF source, bits
  <2>3. QED
    BY <1>4, <2>2
<1>6. ASSUME NEW at \in bits PROVE Cardinality({n \in Nodes : Drives(n, at)}) = 1
  <2>1. PICK f \in DOMAIN OutputFields : at \in {f} \X (1..OutputFields[f])
    OBVIOUS
  <2>2. PICK b \in 1..OutputFields[f] : at = <<f, b>>
    BY <2>1
  <2>3. PICK e \in DOMAIN OutputFields : e = L + 1 - f /\ OutputFields[e] = OutputFields[f]
    BY <1>2, PlacesOfFields
  <2>4. PICK p \in 1..OutputFields[e] : p = OutputFields[e] + 1 - b
    BY <1>3, <2>3
  <2>5. L + 1 - e = f /\ OutputFields[e] + 1 - p = b
    BY <1>3, <2>3, <2>4
  <2>6. PICK n \in Nodes : graph[n] = OutputNode(returned, e, p)
    BY <1>2 DEF ReturnDone
  <2>7. graph[n].kind = "output" /\ graph[n].at = at
    BY <2>2, <2>5, <2>6 DEF OutputNode
  <2>8. \A m \in Nodes : Drives(m, at) <=> m = n
    BY <1>2, <2>7 DEF ReturnDone, Drives
  <2>9. {m \in Nodes : Drives(m, at)} = {n}
    BY <2>8
  <2>10. QED
    BY <2>9, FS_Singleton
<1>7. QED
  BY <1>5, <1>6 DEF CircuitComputesSource

(* The circuit computes the program when also the fields of the result are *)
(* where visit_return counts them: every bit of every field of the output  *)
(* has exactly one output node, driven by the bit the program returns for  *)
(* it, and there is no other.                                              *)
THEOREM CircuitComputesProgram ==
  ASSUME InputsInPlace, OutputsInPlace
  PROVE  Spec => []CircuitComputesSource
<1>1. IInv => CircuitComputesSource
  BY CircuitComputes
<1>2. QED
  BY Invariance, <1>1, PTL
================================================================================
