-------------------------- MODULE PartialFunctions --------------------------
(***************************************************************************)
(* A table as a function on the keys it contains.                          *)
(***************************************************************************)

(* f with x mapped to y, whether or not it was mapped before.              *)
Put(f, x, y) == [z \in DOMAIN f \cup {x} |-> IF z = x THEN y ELSE f[z]]
==============================================================================
