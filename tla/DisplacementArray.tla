-------------------------- MODULE DisplacementArray --------------------------
(***************************************************************************)
(* What displacement_t expects of a displacement table: an array that      *)
(* reads back what was last written at a position, and 0 before that,      *)
(* also once it was written into a stream and read from it.                *)
(***************************************************************************)
EXTENDS DisplacementTable

VARIABLE displace  \* position -> displacement

vars == <<displace, done>>

Init ==
    /\ displace = [pos \in Positions |-> 0]
    /\ done = Nothing

get(pos) ==
    /\ done' = <<"get", pos, displace[pos]>>
    /\ done = Nothing
    /\ UNCHANGED displace

set(pos, val) ==
    /\ done' = <<"set", pos, val>>
    /\ done = Nothing
    /\ displace' = [displace EXCEPT ![pos] = val]

(* The table is written into a stream and read back.                       *)
ReadBack ==
    /\ done' = <<"read back">>
    /\ done = Nothing
    /\ UNCHANGED displace

GoOn ==
    /\ done' = Nothing
    /\ UNCHANGED displace

Next ==
    \/ \E pos \in Positions : get(pos)
    \/ \E pos \in Positions, val \in Values : set(pos, val)
    \/ ReadBack
    \/ GoOn

Spec == Init /\ [][Next]_vars
==============================================================================
