--------------------------- MODULE DisplacementTable ---------------------------
(***************************************************************************)
(* What the displacement tables have in common: a displacement for every   *)
(* position of the hash table, and operations that finish one after the    *)
(* other.                                                                  *)
(***************************************************************************)
EXTENDS Naturals

CONSTANTS
    TableSize,  \* number of positions
    Values      \* the displacements that are written

ASSUME TableSizeAssumption == TableSize \in Nat \ {0}
ASSUME ValuesAssumption == Values \subseteq Nat

VARIABLE
    done  \* the operation carried out last, until the caller goes on

Positions == 0..(TableSize - 1)
Nothing   == << >>
================================================================================
