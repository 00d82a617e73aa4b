------------------------------ MODULE MCCvTable ------------------------------
(***************************************************************************)
(* A table of eight positions with groups on both sides of its end, so     *)
(* that runs of occupied positions, and the shifts, wrap around.  A group  *)
(* has up to three elements.  Quotients are only compared with each other, *)
(* so they are interchangeable.                                            *)
(***************************************************************************)
EXTENDS CvTable

MCAddresses == {0, 6, 7}

QuotientSymmetry == Permutations(Quotients)
==============================================================================
