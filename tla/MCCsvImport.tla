------------------------------ MODULE MCCsvImport ------------------------------
(* Two columns, a bit and a signed integer of three bits, and texts of up  *)
(* to three lines: good ones, at the ends of the column's range; too few   *)
(* cells; empty cells before, between and after the others; more cells     *)
(* than columns; and values out of range in either column.                 *)
EXTENDS CsvImport

MCColumns == <<[signed |-> FALSE, width |-> 1], [signed |-> TRUE, width |-> 3]>>

MCLines ==
  {<<1, -4>>, <<0, 3>>, <<1, 2, 9>>,
   <<Empty>>, <<1>>, <<1, Empty>>, <<Empty, 1>>, <<1, Empty, 2>>,
   <<2, 1>>, <<1, 4>>}
================================================================================
