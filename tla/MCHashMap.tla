------------------------------ MODULE MCHashMap ------------------------------
(***************************************************************************)
(* Two tables of two or four positions, filled up to the last free one.    *)
(***************************************************************************)
EXTENDS HashMap, TLC

MCLoadFactors == {[num |-> 1, den |-> 2], [num |-> 1, den |-> 1]}

(* No definition tells the tables apart.                                   *)
Interchangeable == Permutations(Tables)
==============================================================================
