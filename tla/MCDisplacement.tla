---------------------------- MODULE MCDisplacement ----------------------------
(***************************************************************************)
(* A table of eight positions.  Keys probe from two addresses before the   *)
(* end of the table and two at its start, so that chains meet, wrap around *)
(* and fill seven of the eight positions.                                  *)
(***************************************************************************)
EXTENDS Displacement

MCAddresses == {0, 1, 6, 7}
===============================================================================
