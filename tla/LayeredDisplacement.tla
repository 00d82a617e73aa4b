-------------------------- MODULE LayeredDisplacement --------------------------
(***************************************************************************)
(* layered_displacement_table_t: a displacement below `max` is stored in a *)
(* field of fixed width; for a larger one the field holds `max` and the    *)
(* displacement is in a map beside it.  What a position once spilled stays *)
(* in the map when the position is set to a small displacement again.      *)
(* The table can be written into a stream and read back.                   *)
(*                                                                         *)
(* Its names differ from those of EliasGamma, so that a module can extend  *)
(* both tables: their proofs are in DisplacementTableProofs.               *)
(***************************************************************************)
EXTENDS DisplacementTable, Serialization

CONSTANT max  \* what the fields cannot hold: the largest number of their width

ASSUME MaxAssumption == max \in Nat \ {0}

VARIABLES
    m_displace,  \* position -> field
    m_spill      \* the map: some positions -> displacement

layered_vars == <<m_displace, m_spill, done>>

-------------------------------------------------------------------------------
(* m_spill[pos] = val                                                      *)
Spilled(pos, val) ==
    [p \in DOMAIN m_spill \cup {pos} |-> IF p = pos THEN val ELSE m_spill[p]]

(* operator[] of the map: a position that is not in it gets 0.             *)
SpillWith(pos) == IF pos \in DOMAIN m_spill THEN m_spill ELSE Spilled(pos, 0)

LayeredInit ==
    /\ m_displace = [pos \in Positions |-> 0]
    /\ m_spill = << >>
    /\ done = Nothing

(* Mistakes for LayeredValue and layered_set: the map is asked first; the  *)
(* largest value that fits into a field is not spilled although it stands  *)
(* for the map; the field is set to the displacement in both cases.        *)
Value_spill_first(pos) ==
    IF pos \in DOMAIN m_spill THEN m_spill[pos] ELSE m_displace[pos]

set_spilling_above_max(pos, val) ==
    /\ done = Nothing
    /\ done' = <<"set", pos, val>>
    /\ m_displace' = [m_displace EXCEPT ![pos] = IF val > max THEN max ELSE val]
    /\ m_spill' = IF val > max THEN Spilled(pos, val) ELSE m_spill

set_without_max(pos, val) ==
    /\ done = Nothing
    /\ done' = <<"set", pos, val>>
    /\ m_displace' = [m_displace EXCEPT ![pos] = val]
    /\ m_spill' = IF val >= max THEN Spilled(pos, val) ELSE m_spill

LayeredValue(pos) ==
    IF m_displace[pos] = max THEN SpillWith(pos)[pos] ELSE m_displace[pos]

layered_get(pos) ==
    /\ done = Nothing
    /\ done' = <<"get", pos, LayeredValue(pos)>>
    /\ m_spill' = IF m_displace[pos] = max THEN SpillWith(pos) ELSE m_spill
    /\ UNCHANGED m_displace

layered_set(pos, val) ==
    /\ done = Nothing
    /\ done' = <<"set", pos, val>>
    /\ m_displace' = [m_displace EXCEPT ![pos] = IF val >= max THEN max ELSE val]
    /\ m_spill' = IF val >= max THEN Spilled(pos, val) ELSE m_spill

(* serialize<layered_displacement_table_t>: the width (as the largest      *)
(* number it can hold), the block of fields, whose size depends on it, and *)
(* the map's size and its pairs, in the order in which the map happens to  *)
(* hold them.                                                              *)
pair == <<"size_t", "size_t">>

FieldsType(width_max) == <<"m_displace", TableSize, width_max>>

layered_written(order) ==
    << Item(uint64, max), Item(FieldsType(max), m_displace), Item(size_t, Len(order)) >>
    \o [i \in 1..Len(order) |-> Item(pair, <<order[i], m_spill[order[i]]>>)]

read_fields(in) == ReadItem(in, 2, FieldsType(ReadItem(in, 1, uint64)))

(* spill[k] = v, for each of the pairs.                                    *)
MapOf(pairs) ==
    [pos \in {p[1] : p \in pairs} |-> (CHOOSE p \in pairs : p[1] = pos)[2]]

read_spill(in) ==
    MapOf({ReadItem(in, 3 + i, pair) : i \in 1..ReadItem(in, 3, size_t)})

(* The orders of the map: each of its keys once.                           *)
Orders ==
    {order \in UNION {[1..n -> DOMAIN m_spill] : n \in 0..TableSize} :
       /\ \A pos \in DOMAIN m_spill : \E i \in DOMAIN order : order[i] = pos
       /\ \A i, j \in DOMAIN order : order[i] = order[j] => i = j}

LayeredReadBack ==
    /\ done = Nothing
    /\ done' = <<"read back">>
    /\ \E order \in Orders :
          /\ m_displace' = read_fields(layered_written(order))
          /\ m_spill' = read_spill(layered_written(order))

LayeredGoOn ==
    /\ done # Nothing
    /\ done' = Nothing
    /\ UNCHANGED <<m_displace, m_spill>>

LayeredNext ==
    \/ \E pos \in Positions : layered_get(pos)
    \/ \E pos \in Positions, val \in Values : layered_set(pos, val)
    \/ LayeredReadBack
    \/ LayeredGoOn

LayeredSpec == LayeredInit /\ [][LayeredNext]_layered_vars
-------------------------------------------------------------------------------
(* The results the operations leave behind.                                *)
LayeredResults ==
    {Nothing, <<"read back">>} \cup ({"get", "set"} \X Positions \X Nat)

LayeredTypeOK ==
    /\ m_displace \in [Positions -> 0..max]
    /\ DOMAIN m_spill \subseteq Positions
    /\ m_spill \in [DOMAIN m_spill -> Values]
    /\ done \in LayeredResults

(* A field at max always has its displacement in the map, so that reading  *)
(* never makes one up; every other field is a displacement of its own.     *)
FieldsPointToSpill ==
    \A pos \in Positions :
       m_displace[pos] = max => pos \in DOMAIN m_spill /\ m_spill[pos] >= max

Array == INSTANCE DisplacementArray WITH displace <- [pos \in Positions |-> LayeredValue(pos)]

(* The table is an array, over any sequence of large and small values: an  *)
(* outdated entry of the map is never read.                                *)
LayeredRefinesArray == Array!Spec
===============================================================================
