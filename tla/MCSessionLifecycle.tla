-------------------------- MODULE MCSessionLifecycle ---------------------------
(* A careful session and a careless one, two keysets of one schema, three  *)
(* uploads and a pool of two threads.                                      *)
EXTENDS SessionLifecycle, TLC

CONSTANTS s1, s2, k1, k2, c1, t1, t2, t3

MCSchemaOf == k1 :> c1 @@ k2 :> c1

Symmetry == Permutations(Task) \union Permutations(Keyset)
================================================================================
