------------------------------ MODULE SlotArray ------------------------------
(***************************************************************************)
(* What a placement expects of the storage below it: an array of           *)
(* positions.  An element can be put at a free position, or in front of a  *)
(* row of elements that all move one to the right, around the end of the   *)
(* table if need be.  A drain hands out every element once; what has been  *)
(* handed out may be gone, everything else must still be there.            *)
(***************************************************************************)
EXTENDS Integers

CONSTANTS
    TableSize,  \* number of positions
    Elems,      \* elements: quotients, and values if there are any
    EMPTY       \* a free position

VARIABLES
    slot,       \* position -> element, or EMPTY
    drained,    \* the positions a drain has handed out, or NotDraining
    handed      \* the last position and element a drain handed out

vars == <<slot, drained, handed>>

Positions   == 0..(TableSize - 1)
NotDraining == {-1}
Nothing     == << >>

Init ==
    /\ slot = [pos \in Positions |-> EMPTY]
    /\ drained = NotDraining
    /\ handed = Nothing

Put(pos, elem) ==
    /\ drained = NotDraining
    /\ slot[pos] = EMPTY
    /\ slot' = [slot EXCEPT ![pos] = elem]
    /\ UNCHANGED <<drained, handed>>

(* How far pos is behind from.                                             *)
Behind(from, pos) == (pos - from) % TableSize

PutInFront(from, to, elem) ==
    /\ drained = NotDraining
    /\ slot[to] = EMPTY
    /\ \A pos \in Positions : Behind(from, pos) < Behind(from, to) => slot[pos] # EMPTY
    /\ slot' = [pos \in Positions |->
                  IF pos = from THEN elem
                  ELSE IF Behind(from, pos) <= Behind(from, to)
                       THEN slot[(pos - 1) % TableSize] ELSE slot[pos]]
    /\ UNCHANGED <<drained, handed>>

StartDrain ==
    /\ drained = NotDraining
    /\ drained' = {}
    /\ UNCHANGED <<slot, handed>>

HandOut(pos) ==
    /\ drained # NotDraining
    /\ pos \notin drained
    /\ slot[pos] # EMPTY
    /\ drained' = drained \cup {pos}
    /\ handed' = <<pos, slot[pos]>>
    /\ \E freed \in SUBSET drained' :
          slot' = [p \in Positions |-> IF p \in freed THEN EMPTY ELSE slot[p]]

(* The drained table is given up and a fresh one takes its place.          *)
EndDrain ==
    /\ drained # NotDraining
    /\ \A pos \in Positions \ drained : slot[pos] = EMPTY
    /\ drained' = NotDraining
    /\ slot' = [pos \in Positions |-> EMPTY]
    /\ handed' = Nothing

Next ==
    \/ \E pos \in Positions, elem \in Elems : Put(pos, elem)
    \/ \E from, to \in Positions, elem \in Elems : PutInFront(from, to, elem)
    \/ StartDrain
    \/ \E pos \in Positions : HandOut(pos)
    \/ EndDrain

Spec == Init /\ [][Next]_vars
==============================================================================
