------------------------------- MODULE CsvImport -------------------------------
(***************************************************************************)
(* CSVReader and the two imports that use it.  The remote one counts the   *)
(* rows of the whole text when it is called, and its task then reads that  *)
(* many rows from wherever the stream stands, encrypting each; the local   *)
(* one adds rows to its columns while the stream is good.  Both can meet   *)
(* a stream that other calls have already read from.                       *)
(*                                                                         *)
(* A text is a sequence of tokens: Comma, Newline, and the integers, each  *)
(* one cell.  A cell that is no number stands with those that do not fit   *)
(* the column: the mappers throw the same error for both.  The program     *)
(* leaves the stream alone while an import reads it.                       *)
(***************************************************************************)
EXTENDS Integers, Sequences, FiniteSets, FiniteSetsExt, SequencesExt

CONSTANTS
  Columns,      \* the frame's columns in order: [signed, width]
  Lines,        \* lines a text is made of: sequences of cells, some Empty
  MaxLines,     \* bound on the lines of a text
  Comma, Newline, Empty

ASSUME ImportAssumption ==
  /\ Columns \in Seq([signed : BOOLEAN, width : Nat \ {0}]) /\ Columns # <<>>
  /\ \A line \in Lines : line \in Seq(Int \cup {Empty}) /\ line # <<>>
  /\ MaxLines \in Nat
  /\ Cardinality({Comma, Newline, Empty}) = 3 /\ {Comma, Newline, Empty} \cap Int = {}

VARIABLES
  lines,        \* the table the text was written from
  text,         \* what is behind the std::istream
  stream,       \* its position, eofbit and failbit
  taken,        \* lines that reads have got out of the stream
  import        \* the latest import and the rows it has read

vars == <<lines, text, stream, taken, import>>

(***************************************************************************)
(* Texts                                                                   *)
(***************************************************************************)

Only(x, here) == IF here THEN <<x>> ELSE <<>>

Without(s, e) == FlattenSeq([i \in DOMAIN s |-> Only(s[i], s[i] # e)])

Written(line) ==
  FlattenSeq([i \in DOMAIN line |-> Only(Comma, i # 1) \o Only(line[i], line[i] # Empty)])

\* The text of a table, with or without a newline at its end.
TextOf(table, terminated) ==
  FlattenSeq([k \in DOMAIN table |->
                Written(table[k]) \o Only(Newline, k < Len(table) \/ terminated)])

Endings(table) ==
  IF table = <<>> \/ Last(table) = <<Empty>> THEN {table # <<>>} ELSE BOOLEAN

None == [kind |-> "none", start |-> 0, announced |-> 0, rows |-> <<>>, status |-> "none"]

TypeOK ==
  /\ lines \in BoundedSeq(Lines, MaxLines)
  /\ stream.pos \in 0..Len(text) /\ stream.eof \in BOOLEAN /\ stream.fail \in BOOLEAN
  /\ taken \in 0..Len(lines)
  /\ import.kind \in {"none", "local", "remote"}
  /\ import.status \in {"none", "reading", "done", "threw", "faulted"}
  /\ import.start \in 0..taken
  /\ import.announced \in 0..Len(lines)
  /\ Len(import.rows) \in 0..(taken - import.start)

Init ==
  /\ lines \in BoundedSeq(Lines, MaxLines)
  /\ \E terminated \in Endings(lines) : text = TextOf(lines, terminated)
  /\ stream = [pos |-> 0, eof |-> FALSE, fail |-> FALSE]
  /\ taken = 0
  /\ import = None

(***************************************************************************)
(* CSVReader                                                               *)
(***************************************************************************)

Good == ~stream.eof /\ ~stream.fail

\* std::getline finds a line only on a good stream that is not at its end.
HasLine == Good /\ stream.pos < Len(text)

LineEnd == Min({i \in (stream.pos + 1)..Len(text) : text[i] = Newline} \cup {Len(text) + 1})

PastEnd ==
  IF ~HasLine THEN [stream EXCEPT !.fail = TRUE, !.eof = @ \/ Good]
  ELSE [stream EXCEPT !.pos = LineEnd, !.eof = LineEnd > Len(text)]

\* The stream after a line was read.
AfterLine ==
  IF ~HasLine THEN [stream EXCEPT !.fail = TRUE, !.eof = @ \/ Good]
  ELSE [stream EXCEPT !.pos = Min({LineEnd, Len(text)}), !.eof = LineEnd > Len(text)]

\* read_row's values: the cells of the line that are not empty.
RawValues ==
  IF HasLine THEN Without(SubSeq(text, stream.pos + 1, LineEnd - 1), Comma) ELSE <<>>

Newlines(from) == Cardinality({i \in (from + 1)..Len(text) : text[i] = Newline})

CountFromHere ==
  IF stream.fail THEN 0
  ELSE Newlines(stream.pos) + IF text # <<>> /\ Last(text) # Newline THEN 1 ELSE 0

CountEveryEnd == IF stream.fail THEN 0 ELSE Newlines(0) + IF text # <<>> THEN 1 ELSE 0

\* row_count counts from the beginning, whatever has been read; it puts
\* position and state back, so the stream does not change.
RowCount ==
  IF stream.fail THEN 0
  ELSE Newlines(0) + IF text # <<>> /\ Last(text) # Newline THEN 1 ELSE 0

(***************************************************************************)
(* Rows                                                                    *)
(***************************************************************************)

\* 2^n, which the provers know nothing of.
Power(n) == LET power[i \in 0..n] == IF i = 0 THEN 1 ELSE 2 * power[i - 1] IN power[n]

Fits(v, column) ==
  IF column.signed THEN v \in -Power(column.width - 1)..(Power(column.width - 1) - 1)
  ELSE v \in 0..(Power(column.width) - 1)

\* What keeps the values from becoming a row, by column: row.get() goes
\* beyond raw_values_, or the mapper throws.
Problem(values) ==
  [i \in {i \in DOMAIN Columns : i > Len(values) \/ ~Fits(values[i], Columns[i])} |->
     IF i > Len(values) THEN "faulted" ELSE "threw"]

BitsFirstHigh(v, column) ==
  [b \in 1..column.width |-> (v \div Power(column.width - b)) % 2]

\* do_encrypt_column_value: the bits of a value, the lowest first.
Bits(v, column) == [b \in 1..column.width |-> (v \div Power(b - 1)) % 2]

EncryptRow(values) == [i \in DOMAIN Columns |-> Bits(values[i], Columns[i])]
AddRow(values) == [i \in DOMAIN Columns |-> values[i]]

(***************************************************************************)
(* The calls                                                               *)
(***************************************************************************)

Reading(kind) == import.kind = kind /\ import.status = "reading"
Idle == import.status \notin {"reading", "faulted"}

\* Reading moves the stream whether or not it gets a line.
Read ==
  /\ stream' = AfterLine
  /\ taken' = taken + IF HasLine THEN 1 ELSE 0
  /\ UNCHANGED <<lines, text>>

\* The program reads a row of its own: a header, say.
ReadRow == Idle /\ Read /\ UNCHANGED import

Begin(kind, count) ==
  /\ Idle
  /\ import' = [kind |-> kind, start |-> taken, announced |-> count, rows |-> <<>>,
                status |-> "reading"]
  /\ UNCHANGED <<lines, text, stream, taken>>

\* populate_frame_from_csv of the remote storage: the row count is announced
\* to the server, and the task is queued.
RemoteImport == Begin("remote", RowCount)

\* The task's next row.  The columns are taken in order.
UploadRow ==
  LET problem == Problem(RawValues) IN
  /\ Reading("remote") /\ Len(import.rows) < import.announced
  /\ Read
  /\ import' = IF problem = <<>> THEN [import EXCEPT !.rows = Append(@, EncryptRow(RawValues))]
               ELSE [import EXCEPT !.status = problem[Min(DOMAIN problem)]]

UploadEnds ==
  /\ Reading("remote") /\ Len(import.rows) = import.announced
  /\ import' = [import EXCEPT !.status = "done"]
  /\ UNCHANGED <<lines, text, stream, taken>>

LocalImport == Begin("local", 0)

\* add_row walks columns(), a map by name: any column with a problem may be
\* the first one it comes to.
LocalRow ==
  LET problem == Problem(RawValues) IN
  /\ Reading("local") /\ Good
  /\ Read
  /\ \/ /\ problem = <<>>
        /\ import' = [import EXCEPT !.rows = Append(@, AddRow(RawValues))]
     \/ \E i \in DOMAIN problem : import' = [import EXCEPT !.status = problem[i]]

LocalEnds ==
  /\ Reading("local") /\ ~Good
  /\ import' = [import EXCEPT !.status = "done"]
  /\ UNCHANGED <<lines, text, stream, taken>>

\* A value beyond the row's values was used: the behaviour is undefined.
Over == import.status = "faulted" /\ UNCHANGED vars

Next ==
  \/ ReadRow
  \/ RemoteImport \/ UploadRow \/ UploadEnds
  \/ LocalImport \/ LocalRow \/ LocalEnds
  \/ Over

Spec == Init /\ [][Next]_vars

(***************************************************************************)
(* Properties                                                              *)
(***************************************************************************)

\* What the server gets out of a column's bits.
Decoded(bits, column) ==
  LET upto[b \in 0..column.width] ==
        IF b = 0 THEN 0 ELSE upto[b - 1] + bits[b] * Power(b - 1)
  IN  upto[column.width]
        - IF column.signed /\ bits[column.width] = 1 THEN Power(column.width) ELSE 0

Value(k, i) ==
  IF import.kind = "remote" THEN Decoded(import.rows[k][i], Columns[i]) ELSE import.rows[k][i]

Filled(line) == \A i \in DOMAIN Columns : i <= Len(line) /\ line[i] # Empty

\* Row k of an import is the k-th line after those that were read before it,
\* none skipped or repeated, and each of its values is the cell of its
\* column: through read_row, the mappers and the bits that are encrypted.
\* Not so for a line with an empty cell, whose later cells move up.
RowsAreLines ==
  \A k \in DOMAIN import.rows :
    LET line == lines[import.start + k] IN
    (\A i \in DOMAIN line : line[i] # Empty)
      => /\ Filled(line)
         /\ \A i \in DOMAIN Columns : Value(k, i) = line[i]

\* An import that completes leaves no line unread, and an upload that
\* completes with rows has the whole text: the count from the beginning and
\* the rows from the stream's position never agree on a part of it, however
\* many rows other calls have read and wherever an earlier import stopped.
CompleteImportIsWhole ==
  import.status = "done" =>
    /\ import.start + Len(import.rows) = Len(lines)
    /\ import.kind = "remote" => (import.rows = <<>> \/ import.start = 0)

\* An import of an unread text whose lines have a cell for every column
\* never asks for a value that is not there: row_count and read_row see the
\* same lines, with or without a newline at the end.  The local import only
\* does so without one, and with at least one line.
GoodTextsNeverFault ==
  (/\ import.start = 0
   /\ \A k \in DOMAIN lines : Filled(lines[k])
   /\ import.kind = "local" => (lines # <<>> /\ Last(text) # Newline))
    => import.status # "faulted"
================================================================================
