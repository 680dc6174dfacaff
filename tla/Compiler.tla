-------------------------------- MODULE Compiler -------------------------------
(***************************************************************************)
(* Compiler::translate up to the statements that IrTranspiler takes over:  *)
(* the source is analyzed in the process, three tools are run one after    *)
(* the other over temporary files, and what the last one wrote is parsed,  *)
(* line by line.  Nobody looks at the exit status of a tool or at the      *)
(* state of a file's stream, so any tool may pass on a part of its output. *)
(***************************************************************************)
EXTENDS IrText

CONSTANTS
  Sources,         \* the programs that are translated
  SampleStatements,\* what the tools write a function's statements from
  MaxStatements    \* bound on them

(* What clang tells of a type, and of a line of the source.                *)
Types == [is : {"struct"}, pod : BOOLEAN, fields : Seq(STRING)] \union [is : {"other"}]
Lines ==
  [is : {"function"}, template : BOOLEAN, hasDefault : BOOLEAN, params : Seq(Types), output : Types]
    \union [is : {"pragma", "text"}]

(* What the tools write: a name and a number, three numbers, one, or any.  *)
Operands(op) ==
  CASE op = "tuple_index" -> STRING \X Nat
    [] op = "bit_slice"   -> Nat \X Nat \X Nat
    [] op = "literal"     -> [1..1 -> Nat]
    [] OTHER              -> Seq(Nat)

ASSUME CompilerAssumption ==
  /\ \A lines \in Sources : lines \in Seq(Lines)
  /\ \A st \in SampleStatements :
       /\ st = [op |-> st.op, args |-> st.args, id |-> st.id]
       /\ st.op \in STRING \ {"ret"} /\ st.args \in Operands(st.op) /\ st.id \in Nat
  /\ MaxStatements \in Nat

VARIABLES
  stage,       \* where translate() is
  source,      \* its argument, line by line, while it is needed
  metadata,    \* what the analyzer found: widths of the structs' fields
  output,      \* temp_code: "all" the tool should write, "part" of it or "nothing"
  written,     \* history: the function the tools wrote
  text,        \* temp_code as parse_ir gets it, line by line
  at,          \* current_line_start
  begin,       \* function_begin
  finish,      \* function_end
  definition   \* the ProgramDefinition

parsing == <<at, begin, finish, definition>>
vars == <<stage, source, metadata, output, written, text, parsing>>

Tools == {"xlscc", "opt_main", "booleanify_main"}
Over == {"parsed", "rejected", "faulted"}
Nothing == [inputs |-> <<>>, output |-> <<>>]

TypeOK ==
  /\ stage \in {"analyze", "search start", "search end", "header", "instructions", "end"}
                 \union Tools \union Over
  /\ output \in {"all", "part", "nothing"}
  /\ at \in 1..Len(text) + 1
  /\ begin \in 0..finish \/ finish = 0
  /\ begin \in 0..Len(text) /\ finish \in 0..Len(text)
  /\ stage \in {"header", "instructions", "end", "parsed"} => begin <= finish /\ at >= begin

Init ==
  /\ stage = "analyze"
  /\ source \in Sources
  /\ metadata = Nothing
  /\ output = "all"
  /\ written = [signature |-> Nothing, operations |-> <<>>]
  /\ text = <<>>
  /\ at = 1 /\ begin = 0 /\ finish = 0
  /\ definition = [header |-> ParseHeader(<<>>), operations |-> <<>>]

(***************************************************************************)
(* SourceAnalyzer                                                          *)
(***************************************************************************)

\* map_kind_to_data_type; any other arithmetic type is rejected.
KindWidth ==
  [bool |-> 1, char |-> 8, short |-> 16, int |-> 32, long |-> 64]

Accepted(type) ==
  type.is = "struct" /\ type.pod /\ \A i \in DOMAIN type.fields : type.fields[i] \in DOMAIN KindWidth

Widths(type) == [i \in DOMAIN type.fields |-> KindWidth[type.fields[i]]]

Metadata(f) ==
  [inputs |-> [i \in DOMAIN f.params |-> Widths(f.params[i])], output |-> Widths(f.output)]

\* A parameter with a default argument, one that is no struct, a struct
\* that is no POD: each ends the analysis with a CompilerError.
Supported(f) ==
  /\ ~f.hasDefault
  /\ \A i \in DOMAIN f.params : Accepted(f.params[i])
  /\ Accepted(f.output)

Candidates == {l \in DOMAIN source : source[l].is = "function" /\ ~source[l].template}

\* Mutant: the line before the one it should be.
TwoAbove(l) == l - 2

\* The line after the end of line l - 2, which must exist.
PragmaLine(l) == (l - 2) + 1

HasLineBefore(l) == l - 2 >= 1

Marked(l) == HasLineBefore(l) /\ source[PragmaLine(l)].is = "pragma"

\* The declarations are looked at in order, up to the first that is marked.
Visited(l) == l \in Candidates /\ \A k \in Candidates : k < l => ~Marked(k)

\* A function on the first or the second line has no line two above it, and
\* clang is asked for the position of line 0 or of line 2^32 - 1.
OutOfLines == \E l \in DOMAIN source : Visited(l) /\ ~HasLineBefore(l)

Main == {l \in DOMAIN source : Visited(l) /\ Marked(l)}

AnalyzeFaults ==
  /\ stage = "analyze"
  /\ OutOfLines
  /\ stage' = "faulted"
  /\ UNCHANGED <<source, metadata, output, written, text, parsing>>

AnalyzeThrows ==
  /\ stage = "analyze"
  /\ ~OutOfLines
  /\ \A l \in Main : ~Supported(source[l])
  /\ stage' = "rejected"
  /\ UNCHANGED <<source, metadata, output, written, text, parsing>>

Analyze ==
  /\ stage = "analyze"
  /\ ~OutOfLines
  /\ \E l \in Main : Supported(source[l]) /\ metadata' = Metadata(source[l])
  /\ stage' = "xlscc"
  /\ UNCHANGED <<source, output, written, text, parsing>>

(***************************************************************************)
(* The tools                                                               *)
(***************************************************************************)

\* The function xlscc compiles stands below its pragma; two are an error,
\* and so is a type it has no bits for.
Top == {l \in Candidates : l > 1 /\ source[l - 1].is = "pragma"}

\* exec(): the output is taken as it is, whatever the exit status.
Passes(from, to) ==
  /\ stage = from
  /\ stage' = to
  /\ \/ UNCHANGED output
     \/ output = "all" /\ output' = "part"
     \/ output' = "nothing"

\* exec() throws when popen cannot start the shell that runs the tool.
ToolNotRun ==
  /\ stage \in Tools
  /\ stage' = "rejected"
  /\ UNCHANGED <<source, metadata, output, written, text, parsing>>

TranspileToIr ==
  /\ Passes("xlscc", "opt_main")
  /\ \/ output' = "nothing" /\ UNCHANGED written
     \/ /\ output' # "nothing"
        /\ \E l \in Top :
             /\ Top = {l} /\ Supported(source[l])
             /\ written' = [written EXCEPT !.signature = Metadata(source[l])]
  /\ source' = <<>>
  /\ UNCHANGED <<metadata, text, parsing>>

OptimizeIr ==
  /\ Passes("opt_main", "booleanify_main")
  /\ UNCHANGED <<source, metadata, written, text, parsing>>

Blank == <<>>
Closing == <<Mark("}")>>
Helper == <<<<Word("fn"), Word("helper"), Mark("("), Mark(")"), Mark("{")>>, Closing>>
Package == <<Word("package"), Word("main")>>

\* What stands before and behind the function in the package.
Preambles == {<<Package, Blank>>, <<Package, Blank, Blank>>, <<Package, Blank>> \o Helper \o <<Blank>>}
Postambles == {<<>>, <<Blank>> \o Helper, <<Blank>>}

\* A struct's last field is the first element of its tuple.
InTuples(signature) ==
  [inputs |-> [i \in DOMAIN signature.inputs |-> Reverse(signature.inputs[i])],
   output |-> Reverse(signature.output)]

Function(signature, statements) ==
  <<WrittenHeader(InTuples(signature).inputs, InTuples(signature).output)>>
  \o [i \in DOMAIN statements |-> Written(statements[i])]
  \o <<Closing>>

Return(n) == [op |-> "ret", args |-> [i \in 1..n |-> i], id |-> 9]

WritesNothing == output' = "nothing" /\ text' = <<>> /\ UNCHANGED written

Writes ==
  \E before \in Preambles, after \in Postambles, body \in BoundedSeq(SampleStatements, MaxStatements) :
    LET statements == Append(body, Return(Len(written.signature.output)))
        lines == before \o Function(written.signature, statements) \o after
    IN  /\ written' = [written EXCEPT !.operations = statements]
        /\ \/ output' = "all" /\ text' = lines
           \/ output' = "part" /\ \E n \in 1..Len(lines) - 1 : text' = SubSeq(lines, 1, n)

BooleanifyIr ==
  /\ Passes("booleanify_main", "search start")
  /\ WritesNothing \/ Writes
  /\ UNCHANGED <<source, metadata, parsing>>

(***************************************************************************)
(* parse_ir                                                                *)
(***************************************************************************)

\* Mutant: a run of newlines is taken for one.
AfterNewlines(l) == IF text[l] = Blank THEN l + 2 ELSE l + 1

NextLine(l) == l + 1

\* trim() of a blank line is a view of negative length behind it, so what is
\* compared stands on the next line.
Trimmed(l) == IF text[l] = Blank THEN l + 1 ELSE l

StartsFunction(l) ==
  /\ Trimmed(l) \in DOMAIN text
  /\ text[Trimmed(l)] # Blank
  /\ LET first == text[Trimmed(l)][1] IN first.is = "word" /\ first.of = "top"

\* Mutant: a line is compared with its newline, which only the last may lack.
EndsUntrimmed(l) == l = Len(text) /\ text[l] = Closing

\* A line that is the closing brace and nothing else; a view of negative
\* length is not.
EndsFunction(l) == text[l] # Blank /\ text[l][1].is = "}"

SearchStart ==
  /\ stage = "search start" /\ at \in DOMAIN text
  /\ at' = NextLine(at)
  /\ \/ StartsFunction(at) /\ begin' = Trimmed(at) /\ stage' = "search end"
     \/ ~StartsFunction(at) /\ UNCHANGED <<begin, stage>>
  /\ UNCHANGED <<source, metadata, output, written, text, finish, definition>>

SearchEnd ==
  /\ stage = "search end" /\ at \in DOMAIN text
  /\ \/ EndsFunction(at) /\ finish' = at /\ stage' = "header" /\ at' = begin
     \/ ~EndsFunction(at) /\ at' = NextLine(at) /\ UNCHANGED <<finish, stage>>
  /\ UNCHANGED <<source, metadata, output, written, text, begin, definition>>

\* assert(function_found), or a view between iterators nobody has set.
SearchFails ==
  /\ stage \in {"search start", "search end"} /\ at > Len(text)
  /\ stage' = "faulted"
  /\ UNCHANGED <<source, metadata, output, written, text, parsing>>

(***************************************************************************)
(* parse_function                                                          *)
(***************************************************************************)

ParseHeaderLine ==
  /\ stage = "header"
  /\ stage' = "instructions"
  /\ at' = NextLine(at)
  /\ definition' = [definition EXCEPT !.header = ParseHeader(text[at])]
  /\ UNCHANGED <<source, metadata, output, written, text, begin, finish>>

\* Another operation than the parser's: an assertion, or the exception of at().
ParseStatementLine ==
  /\ stage = "instructions" /\ at <= finish /\ ~EndsFunction(at)
  /\ \/ /\ HasOperation(text[at])
        /\ definition' = [definition EXCEPT !.operations = Append(@, ParseStatement(text[at]))]
        /\ at' = NextLine(at)
        /\ UNCHANGED stage
     \/ ~HasOperation(text[at]) /\ stage' = "rejected" /\ UNCHANGED <<at, definition>>
  /\ UNCHANGED <<source, metadata, output, written, text, begin, finish>>

ParseEndLine ==
  /\ stage = "instructions" /\ at <= finish /\ EndsFunction(at)
  /\ stage' = "end"
  /\ at' = NextLine(at)
  /\ UNCHANGED <<source, metadata, output, written, text, begin, finish, definition>>

ParseEnds ==
  /\ stage \in {"instructions", "end"} /\ at > finish
  /\ stage' = "parsed"
  /\ UNCHANGED <<source, metadata, output, written, text, parsing>>

--------------------------------------------------------------------------------

Translated == stage \in Over /\ UNCHANGED vars

Next ==
  \/ Analyze \/ AnalyzeThrows \/ AnalyzeFaults
  \/ TranspileToIr \/ OptimizeIr \/ BooleanifyIr \/ ToolNotRun
  \/ SearchStart \/ SearchEnd \/ SearchFails
  \/ ParseHeaderLine \/ ParseStatementLine \/ ParseEndLine \/ ParseEnds
  \/ Translated

Spec == Init /\ [][Next]_vars

--------------------------------------------------------------------------------

(* What transpile_ir_program is given belongs together: the header that    *)
(* was read out of the tools' text describes the function the analyzer     *)
(* took the metadata of, although each looked for the top function with    *)
(* rules of its own (find_main_function, xlscc, "top fn").                 *)
MetadataMatchesHeader ==
  stage = "parsed" =>
    /\ definition.header.inputs = InTuples(metadata).inputs
    /\ definition.header.output = InTuples(metadata).output

(* A program is parsed as it was written or not at all: every operation    *)
(* with its operands and its id, in order, whatever other functions and    *)
(* blank lines the package has, and also when a tool failed half-way and   *)
(* its partial output was passed on.                                       *)
ParsedIsWritten ==
  stage = "parsed" =>
    /\ definition.header.state = "completed"
    /\ definition.operations = written.operations

(* The parser's asserted assumption, that the text has a top function with *)
(* an end, holds whenever the tools did their work, and the analyzer's     *)
(* whenever no function stands on the first two lines of the source.       *)
WholeRunsNeverFault ==
  stage = "faulted" /\ output = "all" => \E l \in Candidates : l <= 2
================================================================================
