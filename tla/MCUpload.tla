-------------------------------- MODULE MCUpload -------------------------------
(* Two frames and a key; the first frame needs a full and a partial block, *)
(* the second is empty, the key is one full block and one byte.            *)
EXTENDS Upload, TLC

CONSTANTS f1, f2, k1

MCSize == f1 :> 3 @@ f2 :> 0 @@ k1 :> 3
================================================================================
