\* Every text of up to three lines, and calls in any order.
SPECIFICATION Spec
CONSTANTS
  Comma = Comma
  Newline = Newline
  Empty = Empty
  Columns <- MCColumns
  Lines <- MCLines
  MaxLines = 3
INVARIANTS
  TypeOK
  RowsAreLines
  CompleteImportIsWhole
  GoodTextsNeverFault
