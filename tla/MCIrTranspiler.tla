----------------------------- MODULE MCIrTranspiler ----------------------------
(* Programs of two parameters with one field each, of two bits and of one, *)
(* and a result of two fields of two bits; and programs of one parameter   *)
(* with two fields, and a result of one.                                   *)
EXTENDS IrTranspiler

MCOneFieldEach == <<<<2>>, <<1>>>>
MCTwoResults == <<2, 2>>

MCTwoFields == <<<<1, 1>>>>
MCOneResult == <<1>>
================================================================================
