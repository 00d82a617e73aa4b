-------------------------- MODULE PlainStorageProofs --------------------------
(***************************************************************************)
(* Proofs about PlainStorage, for every table size, all quotients and      *)
(* values, and values that keep their value when they are moved from or do *)
(* not.  The inductive invariant IInv follows a shift through its loop:    *)
(* what is in front of the iterators is as it was before the call, and     *)
(* what is behind them has moved.                                          *)
(***************************************************************************)
EXTENDS PlainStorage, SizeManagerProofs, FiniteSetTheorems

Next1(pos) == mod_add(TableSize, pos, 1)
Prev1(pos) == mod_sub(TableSize, pos, 1)

(* How far pos is behind from, around the end of the table.                *)
Dist(from, pos) == mod_sub(TableSize, pos, from)

Quots == Quotients \cup {0}

(* A position with a value in it; one that is in use; its slot.            *)
Valued == [quot : Quots, val : Values \cup {empty_value}]
InUse  == [quot : Quots, val : Values]
SlotOf(cs, pos) == IF pos_is_empty(cs, pos) THEN EMPTY ELSE cs[pos]

HasFree(cs) == \E pos \in Positions : pos_is_empty(cs, pos)

AllValued(cs) == cs \in [Positions -> Valued]

(* The row of elements that an element is put in front of.                 *)
IsRow(array, from, to) ==
    /\ array[to] = EMPTY
    /\ \A pos \in Positions : Dist(from, pos) < Dist(from, to) => array[pos] # EMPTY

IsArray(array) == array \in [Positions -> InUse \cup {EMPTY}]

(* A new element is about to be constructed at call.location, where a      *)
(* position was free before, or which the row behind it left.              *)
PutAtFree ==
    /\ call.before[call.location] = EMPTY
    /\ \A pos \in Positions \ {call.location} : SlotOf(cells, pos) = call.before[pos]

PutAtRow(to) ==
    /\ to # call.location
    /\ IsRow(call.before, call.location, to)
    /\ \A pos \in Positions \ {call.location} :
          SlotOf(cells, pos) =
            IF Dist(call.location, pos) <= Dist(call.location, to)
            THEN call.before[Prev1(pos)] ELSE call.before[pos]

ConstructInv ==
    /\ call = [op |-> "construct", location |-> call.location, val |-> call.val,
               before |-> call.before]
    /\ call.location \in Positions /\ call.val \in Values
    /\ cells[call.location] \in [quot : Quotients, val : {Uninitialized}]
    /\ cells = [pos \in Positions |-> cells[pos]]
    /\ \A pos \in Positions \ {call.location} : cells[pos] \in Valued
    /\ \E pos \in Positions \ {call.location} : pos_is_empty(cells, pos)
    /\ KeepsValue => /\ IsArray(call.before)
                     /\ PutAtFree \/ \E to \in Positions : PutAtRow(to)

(* The part [lo, hi) of the row that is being shifted.                     *)
Wraps   == call.to < call.from
PartEnd == IF call.part.lo = call.from /\ Wraps THEN TableSize ELSE call.to

PartInv ==
    /\ call.part = [lo |-> call.part.lo, tmp |-> call.part.tmp, src |-> call.part.src,
                    dst |-> call.part.dst]
    /\ call.part.lo = call.from \/ (call.part.lo = 0 /\ Wraps /\ call.to > 0)
    /\ call.part.tmp \in InUse
    /\ call.part.src \in call.part.lo..(PartEnd - 1)
    /\ call.part.dst = IF KeepsValue \/ call.part.src = PartEnd - 1 THEN call.part.src + 1
                       ELSE call.part.src
    /\ \A pos \in call.part.lo..(call.part.src - 1) : ~pos_is_empty(cells, pos)
    /\ pos_is_empty(cells, call.part.src) <=> ~KeepsValue
    /\ SecondPartLeft => \A pos \in 0..(call.to - 1) : ~pos_is_empty(cells, pos)

(* What a position in a shift holds: what was in front of it, if the       *)
(* iterators have passed it; the second part of a row that wraps around    *)
(* starts with the first part done.                                        *)
Shifted(pos) ==
    LET before == call.before IN
    IF call.part.src < pos /\ pos < PartEnd THEN before[pos - 1]
    ELSE IF call.part.lo # call.from /\ pos >= call.from
         THEN before[IF pos = call.from THEN TableSize - 1 ELSE pos - 1]
         ELSE before[pos]

ShiftInv ==
    /\ call = [op |-> "shift", from |-> call.from, to |-> call.to, elem |-> call.elem,
               before |-> call.before, part |-> call.part]
    /\ call.from \in Positions /\ call.to \in Positions /\ call.from # call.to
    /\ call.elem \in Elems
    /\ AllValued(cells)
    /\ pos_is_empty(cells, call.to)
    /\ \E pos \in Positions : /\ pos_is_empty(cells, pos)
                              /\ Dist(call.from, call.to) < Dist(call.from, pos)
    /\ PartInv
    /\ KeepsValue =>
         /\ IsArray(call.before)
         /\ IsRow(call.before, call.from, call.to)
         /\ call.part.tmp = call.before[PartEnd - 1]
         /\ \A pos \in Positions : SlotOf(cells, pos) = Shifted(pos)

ReadInv ==
    \E array \in [Positions -> Valued] :
       /\ call = [op |-> "read",
                  in |-> << Item(value_type, empty_value), Item(ArrayType, array) >>,
                  before |-> [pos \in Positions |-> SlotOf(array, pos)]]
       /\ HasFree(array)
       /\ AllValued(cells)

(* After how many steps the walk of a drain is at a position.              *)
Steps(start, pos) == IF pos = start THEN TableSize ELSE Dist(start, pos)

DrainInv ==
    /\ drain = [op |-> "drain", original_start |-> drain.original_start,
                i |-> drain.i, visited |-> drain.visited]
    /\ drain.original_start \in Positions /\ drain.i \in Positions
    /\ pos_is_empty(cells, drain.original_start)
    /\ drain.visited \subseteq Positions
    /\ KeepsValue =>
         drain.visited = {pos \in Occupied : Steps(drain.original_start, pos)
                                               < Steps(drain.original_start, drain.i)}

(* The inductive invariant.                                                *)
IInv ==
    /\ call = Idle \/ drain = Idle
    /\ call = Idle => AllValued(cells) /\ HasFree(cells)
    /\ call # Idle => \/ call.op = "construct" /\ ConstructInv
                      \/ call.op = "shift" /\ ShiftInv
                      \/ call.op = "read" /\ ReadInv
    /\ drain # Idle => DrainInv
-------------------------------------------------------------------------------
(* Positions.                                                              *)

LEMMA SizeNat == TableSize \in Nat /\ TableSize >= 2 /\ MaxEntries \in 1..(TableSize - 1)
<1>1. TableSize \in Nat
  BY TableSizeAssumption, CapacityFromLog2
<1>2. QED
  BY <1>1, TableSizeAssumption, MaxEntriesAssumption

LEMMA Around ==
  ASSUME NEW from \in Positions, NEW pos \in Positions
  PROVE  /\ Dist(from, pos) \in Positions /\ mod_add(TableSize, from, Dist(from, pos)) = pos
         /\ mod_add(TableSize, from, pos) \in Positions
         /\ Dist(from, mod_add(TableSize, from, pos)) = pos
         /\ Next1(pos) \in Positions /\ Prev1(pos) \in Positions
         /\ Next1(pos) # pos
BY SizeNat DEF Positions, Dist, mod_add, mod_sub, Next1, Prev1

LEMMA DistInjective ==
  ASSUME NEW from \in Positions, NEW p \in Positions, NEW q \in Positions,
         Dist(from, p) = Dist(from, q)
  PROVE  p = q
BY SizeNat DEF Positions, Dist, mod_sub

(* The loops of the iterators stop at the nearest position in use.         *)
LEMMA DecrementIs ==
  ASSUME NEW cs, NEW it \in Nat, NEW pos \in Positions, pos < it, ~pos_is_empty(cs, pos),
         \A q \in Positions : pos < q /\ q < it => pos_is_empty(cs, q)
  PROVE  decrement(cs, it) = pos
<1> DEFINE S == {q \in Positions : q < it /\ ~pos_is_empty(cs, q)}
<1>1. pos \in S /\ \A q \in S : q <= pos
  BY SizeNat DEF Positions
<1>2. S \subseteq Nat
  BY DEF Positions
<1>3. \A m \in S : (\A q \in S : q <= m) => m = pos
  BY <1>1, <1>2
<1> HIDE DEF S
<1>4. Max(S) = pos
  BY <1>1, <1>2, <1>3 DEF Max
<1>5. QED
  BY <1>4 DEF S, decrement

(* The loop that looks for the end of a run finds the nearest free         *)
(* position.                                                               *)
LEMMA TerminatorIs ==
  ASSUME NEW from \in Positions, HasFree(cells)
  PROVE  /\ Terminator(from) \in Positions /\ pos_is_empty(cells, Terminator(from))
         /\ \A pos \in Positions :
               Dist(from, pos) < Dist(from, Terminator(from)) => ~pos_is_empty(cells, pos)
<1> DEFINE S == {k \in Positions : pos_is_empty(cells, mod_add(TableSize, from, k))}
           m == Min(S)
<1>1. PICK free \in Positions : pos_is_empty(cells, free)
  BY DEF HasFree
<1>2. Dist(from, free) \in S
  BY <1>1, Around
<1>3. S \subseteq Nat /\ S \subseteq Positions
  BY DEF Positions
<1>4. Terminator(from) = mod_add(TableSize, from, m)
  BY DEF Terminator
<1>5. \A k \in Positions : k \notin S => ~pos_is_empty(cells, mod_add(TableSize, from, k))
  OBVIOUS
<1>6. \A k \in S : pos_is_empty(cells, mod_add(TableSize, from, k))
  OBVIOUS
<1> HIDE DEF S, m
<1>7. m \in S /\ \A k \in S : m <= k
  BY <1>2, <1>3, MinOfNaturals DEF m
<1>8. Terminator(from) \in Positions /\ Dist(from, Terminator(from)) = m
  BY <1>3, <1>4, <1>7, Around
<1>9. ASSUME NEW pos \in Positions, Dist(from, pos) < m PROVE ~pos_is_empty(cells, pos)
  <2>1. Dist(from, pos) \in Positions /\ mod_add(TableSize, from, Dist(from, pos)) = pos
    BY Around
  <2>2. Dist(from, pos) \in Nat /\ m \in Nat
    BY <2>1, <1>3, <1>7, SizeNat DEF Positions
  <2>3. Dist(from, pos) \notin S
    BY <2>2, <1>7, <1>9
  <2>4. QED
    BY <2>1, <2>3, <1>5
<1>10. QED
  BY <1>4, <1>6, <1>7, <1>8, <1>9

(* While there is room for one more element, two positions are free.       *)
LEMMA RoomLeavesOne ==
  ASSUME HasRoom, NEW pos \in Positions
  PROVE  \E free \in Positions \ {pos} : pos_is_empty(cells, free)
<1> SUFFICES ASSUME \A q \in Positions \ {pos} : ~pos_is_empty(cells, q) PROVE FALSE
  OBVIOUS
<1>1. Positions \ {pos} \subseteq Occupied /\ Occupied \subseteq Positions
  BY DEF Occupied
<1>2. IsFiniteSet(Positions) /\ Cardinality(Positions) = TableSize
  BY FS_Interval, SizeNat DEF Positions
<1>3. Cardinality(Positions \ {pos}) = TableSize - 1
  BY <1>2, FS_RemoveElement
<1>4. IsFiniteSet(Occupied) /\ Cardinality(Positions \ {pos}) <= Cardinality(Occupied)
  BY <1>1, <1>2, FS_Subset
<1>5. Cardinality(Occupied) \in Nat
  BY <1>4, FS_CardinalityType
<1>6. QED
  BY <1>3, <1>4, <1>5, SizeNat DEF HasRoom

(* Cells with and without a value.                                         *)
LEMMA ValuedCells ==
  ASSUME NEW cell \in Valued
  PROVE  /\ cell = [quot |-> cell.quot, val |-> cell.val] /\ cell.quot \in Quots
         /\ cell.val \in Values \cup {empty_value} /\ cell.val # Uninitialized
         /\ cell.val # empty_value => cell \in InUse
         /\ cell \in InUse => cell.val # empty_value
         /\ cell \in InUse => cell # EMPTY
<1>1. InUse = [quot : Quotients \cup {0}, val : Values]
  BY DEF InUse, Quots
<1>2. \A u \in InUse : u # EMPTY
  BY <1>1, EmptyValueAssumption
<1>3. /\ cell = [quot |-> cell.quot, val |-> cell.val]
      /\ cell.quot \in Quots /\ cell.val \in Values \cup {empty_value}
  BY DEF Valued
<1>4. cell.val # Uninitialized
  BY <1>3, EmptyValueAssumption DEF Uninitialized
<1>5. cell.val # empty_value => cell \in InUse
  BY <1>3 DEF InUse
<1>6. cell \in InUse => cell.val # empty_value
  BY EmptyValueAssumption DEF InUse
<1>7. QED
  BY <1>2, <1>3, <1>4, <1>5, <1>6

LEMMA SlotIs ==
  ASSUME NEW cs, NEW pos, cs[pos] \in Valued
  PROVE  /\ SlotOf(cs, pos) \in InUse \cup {EMPTY}
         /\ pos_is_empty(cs, pos) <=> SlotOf(cs, pos) = EMPTY
         /\ SlotOf(cs, pos) # EMPTY => SlotOf(cs, pos) = cs[pos] /\ cs[pos] \in InUse
BY ValuedCells DEF SlotOf, pos_is_empty

(* Moving a value out.                                                     *)
LEMMA MovedOut ==
  ASSUME NEW cs, cs \in [Positions -> Valued], NEW pos \in Positions,
         ~pos_is_empty(cs, pos)
  PROVE  /\ move_out(cs, pos) \in [Positions -> Valued]
         /\ \A q \in Positions : q # pos => move_out(cs, pos)[q] = cs[q]
         /\ pos_is_empty(move_out(cs, pos), pos) <=> ~KeepsValue
         /\ KeepsValue => move_out(cs, pos) = cs
<1> DEFINE new == [quot |-> cs[pos].quot, val |-> MovedFrom(cs[pos].val)]
<1>1. /\ cs[pos] \in Valued /\ cs[pos] = [quot |-> cs[pos].quot, val |-> cs[pos].val]
      /\ cs[pos].val # empty_value
  BY ValuedCells DEF pos_is_empty
<1>2. move_out(cs, pos) = [cs EXCEPT ![pos] = new]
  <2>1. [cs[pos] EXCEPT !.val = MovedFrom(@)] = new
    BY <1>1
  <2>2. QED
    BY <2>1 DEF move_out
<1>3. new \in Valued /\ new.val = MovedFrom(cs[pos].val)
  BY <1>1 DEF Valued, MovedFrom
<1>4. KeepsValue => new = cs[pos]
  BY <1>1 DEF MovedFrom
<1>5. new.val = empty_value <=> ~KeepsValue
  BY <1>1, <1>3 DEF MovedFrom
<1> HIDE DEF new
<1>6. QED
  BY <1>2, <1>3, <1>4, <1>5 DEF pos_is_empty

-------------------------------------------------------------------------------
(* The constructor; an element is put at a free position.                  *)

LEMMA ConstructedIsFree ==
  AllValued(Constructed) /\ \A pos \in Positions : pos_is_empty(Constructed, pos)
<1>1. [quot |-> 0, val |-> empty_value] \in Valued
  BY DEF Valued, Quots
<1>2. AllValued(Constructed)
  BY <1>1 DEF Constructed, AllValued
<1>3. QED
  BY <1>2 DEF Constructed, pos_is_empty

LEMMA InitHasInv == Init => IInv
<1> SUFFICES ASSUME Init PROVE IInv
  OBVIOUS
<1>1. AllValued(cells) /\ 0 \in Positions /\ pos_is_empty(cells, 0)
  BY ConstructedIsFree, SizeNat DEF Init, Positions
<1>2. QED
  BY <1>1 DEF Init, IInv, HasFree

LEMMA PutKeepsInv ==
  ASSUME IInv, NEW pos \in Positions, NEW elem \in Elems, Put(pos, elem)
  PROVE  IInv' /\ call = Idle /\ call'.op = "construct" /\ call'.before = Contents
         /\ UNCHANGED <<drain, handed>>
<1>1. /\ call = Idle /\ drain = Idle /\ HasRoom /\ pos_is_empty(cells, pos)
      /\ cells' = [allocate_pos(cells, pos) EXCEPT ![pos].quot = elem.quot]
      /\ call' = [op |-> "construct", location |-> pos, val |-> elem.val, before |-> Contents]
      /\ drain' = drain /\ handed' = handed
  BY DEF Put, NoCall, Located
<1>2. cells \in [Positions -> Valued]
  BY <1>1 DEF IInv, AllValued
<1>3. elem.quot \in Quotients /\ elem.val \in Values
  BY DEF Elems
<1> DEFINE new == [quot |-> elem.quot, val |-> Uninitialized]
<1>4. cells' = [cells EXCEPT ![pos] = new]
  <2>1. cells[pos] = [quot |-> cells[pos].quot, val |-> cells[pos].val]
    BY <1>2, ValuedCells
  <2>2. [cells[pos] EXCEPT !.val = Uninitialized]
          = [quot |-> cells[pos].quot, val |-> Uninitialized]
    BY <2>1
  <2>3. allocate_pos(cells, pos)
          = [cells EXCEPT ![pos] = [quot |-> cells[pos].quot, val |-> Uninitialized]]
    BY <2>2 DEF allocate_pos, uninitialize
  <2>4. [[quot |-> cells[pos].quot, val |-> Uninitialized] EXCEPT !.quot = elem.quot] = new
    OBVIOUS
  <2>5. QED
    BY <1>1, <1>2, <2>3, <2>4
<1>5. /\ cells'[pos] \in [quot : Quotients, val : {Uninitialized}]
      /\ cells' = [q \in Positions |-> cells'[q]]
      /\ \A q \in Positions \ {pos} : cells'[q] = cells[q]
  BY <1>2, <1>3, <1>4
<1>6. \E free \in Positions \ {pos} : pos_is_empty(cells', free)
  BY <1>1, <1>5, RoomLeavesOne DEF pos_is_empty
<1>7. Contents = [q \in Positions |-> SlotOf(cells, q)]
  BY DEF Contents, SlotOf
<1>8. IsArray(Contents)
  <2>1. \A q \in Positions : SlotOf(cells, q) \in InUse \cup {EMPTY}
    BY <1>2, SlotIs
  <2>2. QED
    BY <1>7, <2>1 DEF IsArray
<1>9. Contents[pos] = EMPTY /\ \A q \in Positions \ {pos} : SlotOf(cells', q) = Contents[q]
  BY <1>1, <1>5, <1>7 DEF SlotOf, pos_is_empty
<1>10. ConstructInv'
  BY <1>1, <1>2, <1>3, <1>5, <1>6, <1>8, <1>9 DEF ConstructInv, PutAtFree
<1>11. IInv'
  BY <1>1, <1>10 DEF IInv, Idle
<1>12. QED
  BY <1>1, <1>11

(* The value that is constructed completes the element.                    *)
LEMMA ConstructKeepsInv ==
  ASSUME IInv, Construct
  PROVE  /\ IInv' /\ call.op = "construct" /\ ConstructInv /\ call' = Idle
         /\ drain = Idle /\ UNCHANGED <<drain, handed>>
         /\ AllValued(cells')
         /\ cells'[call.location] = [quot |-> cells[call.location].quot, val |-> call.val]
         /\ cells'[call.location] \in Elems
         /\ \A pos \in Positions \ {call.location} : cells'[pos] = cells[pos]
<1>1. /\ call.op = "construct" /\ cells' = set_val_no_drop(cells, call.location, call.val)
      /\ call' = Idle /\ drain' = drain /\ handed' = handed
  BY DEF Construct
<1>2. ConstructInv /\ call # Idle /\ drain = Idle
  BY <1>1 DEF IInv, Idle, ShiftInv, ReadInv
<1> DEFINE loc == call.location
           new == [quot |-> cells[loc].quot, val |-> call.val]
<1>3. loc \in Positions /\ cells = [pos \in Positions |-> cells[pos]]
  BY <1>2 DEF ConstructInv
<1>4. new \in Elems /\ new \in Valued
  BY <1>2 DEF ConstructInv, Elems, Valued, Quots
<1>5. cells[loc] = [quot |-> cells[loc].quot, val |-> cells[loc].val]
  BY <1>2 DEF ConstructInv
<1>6. cells' = [cells EXCEPT ![loc] = new]
  <2>1. [cells[loc] EXCEPT !.val = call.val] = new
    BY <1>5
  <2>2. QED
    BY <1>1, <2>1 DEF set_val_no_drop
<1> HIDE DEF new
<1>7. /\ cells' = [pos \in Positions |-> cells'[pos]] /\ cells'[loc] = new
      /\ \A pos \in Positions \ {loc} : cells'[pos] = cells[pos]
  BY <1>3, <1>6
<1>8. AllValued(cells')
  <2>1. \A pos \in Positions : cells'[pos] \in Valued
    BY <1>2, <1>4, <1>7 DEF ConstructInv
  <2>2. QED
    BY <1>7, <2>1 DEF AllValued
<1>9. HasFree(cells')
  BY <1>2, <1>7 DEF ConstructInv, HasFree, pos_is_empty
<1>10. IInv'
  BY <1>1, <1>2, <1>8, <1>9 DEF IInv
<1>11. QED
  BY <1>1, <1>2, <1>4, <1>7, <1>8, <1>10 DEF new

-------------------------------------------------------------------------------
(* Shifting a row of elements.                                             *)

LEMMA RowParts ==
  ASSUME NEW from \in Positions, NEW to \in Positions, from # to, NEW pos \in Positions
  PROVE  Dist(from, pos) < Dist(from, to) <=>
           IF to < from THEN from <= pos \/ pos < to ELSE from <= pos /\ pos < to
BY SizeNat DEF Positions, Dist, mod_sub

LEMMA ContentsIsArray ==
  ASSUME AllValued(cells)
  PROVE  /\ IsArray(Contents) /\ Contents = [pos \in Positions |-> SlotOf(cells, pos)]
         /\ \A pos \in Positions : pos_is_empty(cells, pos) <=> Contents[pos] = EMPTY
<1>1. Contents = [pos \in Positions |-> SlotOf(cells, pos)]
  BY DEF Contents, SlotOf
<1>2. \A pos \in Positions : /\ SlotOf(cells, pos) \in InUse \cup {EMPTY}
                             /\ pos_is_empty(cells, pos) <=> SlotOf(cells, pos) = EMPTY
  BY SlotIs DEF AllValued
<1>3. QED
  BY <1>1, <1>2 DEF IsArray

LEMMA StartPutInFrontKeepsInv ==
  ASSUME IInv, NEW from \in Positions, NEW elem \in Elems, StartPutInFront(from, elem)
  PROVE  IInv' /\ call = Idle /\ call'.op = "shift" /\ call'.before = Contents
         /\ UNCHANGED <<drain, handed>>
<1> DEFINE to  == Terminator(from)
           hi  == IF to < from THEN TableSize ELSE to
<1>1. /\ call = Idle /\ drain = Idle /\ HasRoom /\ from # to
      /\ call' = [op |-> "shift", from |-> from, to |-> to, elem |-> elem,
                  before |-> Contents, part |-> SparseShift(cells, from, hi)]
      /\ cells' = move_out(cells, hi - 1)
      /\ drain' = drain /\ handed' = handed
  BY DEF StartPutInFront, NoCall
<1>2. cells \in [Positions -> Valued] /\ HasFree(cells) /\ AllValued(cells)
  BY <1>1 DEF IInv, AllValued
<1>3. /\ to \in Positions /\ pos_is_empty(cells, to)
      /\ \A pos \in Positions : Dist(from, pos) < Dist(from, to) => ~pos_is_empty(cells, pos)
  BY <1>2, TerminatorIs
<1> HIDE DEF to
<1>4. /\ hi - 1 \in Positions /\ from <= hi - 1 /\ hi \in Nat
      /\ Dist(from, hi - 1) < Dist(from, to)
  <2>1. hi - 1 \in Positions /\ from <= hi - 1 /\ hi \in Nat
    BY <1>1, <1>3, SizeNat DEF Positions
  <2>2. Dist(from, hi - 1) < Dist(from, to)
    BY <2>1, <1>1, <1>3, RowParts, SizeNat DEF Positions
  <2>3. QED
    BY <2>1, <2>2
<1>5. \A pos \in Positions :
         (IF to < from THEN from <= pos \/ pos < to ELSE from <= pos /\ pos < to)
           => ~pos_is_empty(cells, pos)
  BY <1>1, <1>3, RowParts
<1> DEFINE last == hi - 1
<1>6. /\ cells' \in [Positions -> Valued]
      /\ \A q \in Positions : q # last => cells'[q] = cells[q]
      /\ pos_is_empty(cells', last) <=> ~KeepsValue
      /\ KeepsValue => cells' = cells
  BY <1>1, <1>2, <1>3, <1>4, MovedOut
<1>7. pos_is_empty(cells', to)
  <2>1. to # last
    BY <1>3, <1>4
  <2>2. QED
    BY <2>1, <1>3, <1>6 DEF pos_is_empty
<1>8. \E pos \in Positions : pos_is_empty(cells', pos) /\ Dist(from, to) < Dist(from, pos)
  <2>1. PICK pos \in Positions \ {to} : pos_is_empty(cells, pos)
    BY <1>1, <1>3, RoomLeavesOne
  <2>2. Dist(from, pos) # Dist(from, to) /\ ~(Dist(from, pos) < Dist(from, to))
    BY <2>1, <1>3, DistInjective
  <2>3. Dist(from, pos) \in Positions /\ Dist(from, to) \in Positions
    BY <2>1, <1>3, Around
  <2>4. Dist(from, to) < Dist(from, pos)
    BY <2>2, <2>3, SizeNat DEF Positions
  <2>5. pos # last
    BY <2>1, <1>3, <1>4
  <2>6. QED
    BY <2>1, <2>4, <2>5, <1>6 DEF pos_is_empty
<1>9. /\ call'.op = "shift" /\ call'.from = from /\ call'.to = to /\ call'.elem = elem
      /\ call'.before = Contents
      /\ call'.part = [lo |-> from, tmp |-> cells[last], src |-> last, dst |-> hi]
  BY <1>1 DEF SparseShift
<1>10. /\ call'.part.lo = from /\ call'.part.tmp = cells[last] /\ call'.part.src = last
       /\ call'.part.dst = hi
  BY <1>9
<1>11. PartEnd' = hi /\ (Wraps' <=> to < from)
  BY <1>9, <1>10 DEF PartEnd, Wraps
<1>12. PartInv'
  <2>1. cells[last] \in InUse
    BY <1>2, <1>3, <1>4, ValuedCells DEF pos_is_empty
  <2>2. last \in from..(hi - 1) /\ hi = last + 1
    BY <1>4, SizeNat DEF Positions
  <2>3. \A pos \in from..(last - 1) : ~pos_is_empty(cells', pos)
    <3> SUFFICES ASSUME NEW pos \in from..(last - 1) PROVE ~pos_is_empty(cells', pos)
      OBVIOUS
    <3>1. pos \in Positions /\ pos # last /\ from <= pos /\ (to < from \/ pos < to)
      BY <1>3, <1>4, SizeNat DEF Positions
    <3>2. QED
      BY <3>1, <1>5, <1>6 DEF pos_is_empty
  <2>4. to < from => \A pos \in 0..(to - 1) : ~pos_is_empty(cells', pos)
    <3> SUFFICES ASSUME to < from, NEW pos \in 0..(to - 1) PROVE ~pos_is_empty(cells', pos)
      OBVIOUS
    <3>1. pos \in Positions /\ pos # last /\ pos < to
      BY <1>3, <1>4, SizeNat DEF Positions
    <3>2. QED
      BY <3>1, <1>5, <1>6 DEF pos_is_empty
  <2>5. SecondPartLeft' => to < from
    BY <1>9 DEF SecondPartLeft
  <2> HIDE DEF last, hi
  <2>6. QED
    BY <2>1, <2>2, <2>3, <2>4, <2>5, <1>6, <1>9, <1>10, <1>11 DEF PartInv
<1>13. KeepsValue => /\ IsArray(call'.before)
                     /\ IsRow(call'.before, from, to)
                     /\ call'.part.tmp = call'.before[PartEnd' - 1]
                     /\ \A pos \in Positions : SlotOf(cells', pos) = Shifted(pos)'
  <2> SUFFICES ASSUME KeepsValue
               PROVE  /\ IsArray(Contents) /\ IsRow(Contents, from, to)
                      /\ cells[last] = Contents[last]
                      /\ \A pos \in Positions : SlotOf(cells', pos) = Shifted(pos)'
    BY <1>9, <1>10, <1>11
  <2>1. IsArray(Contents) /\ IsRow(Contents, from, to)
    BY <1>2, <1>3, ContentsIsArray DEF IsRow
  <2>2. cells[last] = Contents[last]
    BY <1>2, <1>3, <1>4, ContentsIsArray DEF SlotOf
  <2>3. \A pos \in Positions : Shifted(pos)' = Contents[pos]
    <3> HIDE DEF hi
    <3>1. \A pos \in Positions : ~(hi - 1 < pos /\ pos < hi)
      BY <1>4 DEF Positions
    <3>2. QED
      BY <3>1, <1>9, <1>10, <1>11 DEF Shifted
  <2>4. \A pos \in Positions : SlotOf(cells', pos) = Contents[pos]
    BY <1>2, <1>6, ContentsIsArray
  <2>5. QED
    BY <2>1, <2>2, <2>3, <2>4
<1>14. ShiftInv'
  <2> HIDE DEF last, hi
  <2>1. call' = [op |-> "shift", from |-> call'.from, to |-> call'.to, elem |-> call'.elem,
                 before |-> call'.before, part |-> call'.part]
    BY <1>1
  <2>2. QED
    BY <2>1, <1>1, <1>3, <1>6, <1>7, <1>8, <1>9, <1>12, <1>13 DEF ShiftInv, AllValued
<1>15. IInv'
  BY <1>1, <1>9, <1>14 DEF IInv, Idle
<1>16. QED
  BY <1>1, <1>9, <1>15

(* A part lies in the row.                                                 *)
LEMMA PartInRow ==
  ASSUME ShiftInv
  PROVE  /\ PartEnd \in Nat /\ PartEnd - 1 \in Positions /\ call.part.lo \in Positions
         /\ call.part.src \in Positions
         /\ \A pos \in call.part.lo..(PartEnd - 1) :
              pos \in Positions /\ Dist(call.from, pos) < Dist(call.from, call.to)
         /\ SecondPartLeft => PartEnd = TableSize
         /\ call.part.lo # call.from => /\ PartEnd = call.to /\ call.part.lo = 0
                                        /\ Wraps /\ call.to > 0
         /\ call.part.lo = call.from => PartEnd = IF Wraps THEN TableSize ELSE call.to
<1> DEFINE from == call.from
           to   == call.to
           lo   == call.part.lo
           hi   == PartEnd
<1>1. /\ from \in Positions /\ to \in Positions /\ from # to
      /\ lo = from \/ (lo = 0 /\ to < from /\ to > 0)
      /\ call.part.src \in lo..(hi - 1)
  BY DEF ShiftInv, PartInv, Wraps
<1>2. hi = IF lo = from /\ to < from THEN TableSize ELSE to
  BY DEF PartEnd, Wraps
<1>3. SecondPartLeft => lo = from /\ to < from
  BY DEF SecondPartLeft
<1>4. Wraps <=> to < from
  BY DEF Wraps
<1> HIDE DEF from, to, lo, hi
<1>5. hi \in Nat /\ hi - 1 \in Positions /\ lo \in Positions
  BY <1>1, <1>2, SizeNat DEF Positions
<1>6. ASSUME NEW pos \in lo..(hi - 1)
      PROVE  pos \in Positions /\ Dist(from, pos) < Dist(from, to)
  <2>1. pos \in Positions
    BY <1>5, SizeNat DEF Positions
  <2>2. IF to < from THEN from <= pos \/ pos < to ELSE from <= pos /\ pos < to
    BY <2>1, <1>1, <1>2, <1>5, SizeNat DEF Positions
  <2>3. QED
    BY <2>1, <2>2, <1>1, RowParts
<1>7. call.part.src \in Positions
  BY <1>1, <1>6
<1>8. lo # from => hi = to /\ lo = 0 /\ to < from /\ to > 0
  BY <1>1, <1>2
<1>9. QED
  BY <1>2, <1>3, <1>4, <1>5, <1>6, <1>7, <1>8 DEF from, to, lo, hi

(* One turn of the loop: the iterators find the next element and the       *)
(* position to its right, or, if what was moved from has become the        *)
(* sentinel, the element twice.                                            *)
LEMMA MoveOneCells ==
  ASSUME IInv, MoveOne
  PROVE  /\ ShiftInv /\ call.part.src > call.part.lo
         /\ call.part.src - 1 \in call.part.lo..(PartEnd - 1)
         /\ call' = [call EXCEPT !.part = [lo |-> call.part.lo, tmp |-> call.part.tmp,
                                           src |-> call.part.src - 1,
                                           dst |-> IF KeepsValue THEN call.part.src
                                                   ELSE call.part.src - 1]]
         /\ cells' \in [Positions -> Valued]
         /\ \A pos \in Positions :
               pos \notin {call.part.src, call.part.src - 1} => cells'[pos] = cells[pos]
         /\ pos_is_empty(cells', call.part.src - 1) <=> ~KeepsValue
         /\ KeepsValue => cells' = [cells EXCEPT ![call.part.src] = cells[call.part.src - 1]]
         /\ drain' = drain /\ handed' = handed
<1> DEFINE lo  == call.part.lo
           src == call.part.src
           dst == call.part.dst
           s   == decrement(cells, src)
           d   == decrement(cells, dst)
<1>1. /\ call.op = "shift" /\ src # lo
      /\ call' = [call EXCEPT !.part = [@ EXCEPT !.src = s, !.dst = d]]
      /\ cells' = move_from(cells, d, s)
      /\ drain' = drain /\ handed' = handed
  BY DEF MoveOne, AtFront
<1>2. ShiftInv
  BY <1>1 DEF IInv, Idle, ConstructInv, ReadInv
<1>3. /\ call.part = [lo |-> lo, tmp |-> call.part.tmp, src |-> src, dst |-> dst]
      /\ src \in lo..(PartEnd - 1)
      /\ dst = IF KeepsValue \/ src = PartEnd - 1 THEN src + 1 ELSE src
      /\ \A pos \in lo..(src - 1) : ~pos_is_empty(cells, pos)
      /\ pos_is_empty(cells, src) <=> ~KeepsValue
      /\ cells \in [Positions -> Valued]
  BY <1>2 DEF ShiftInv, PartInv, AllValued
<1>4. lo \in Positions /\ src \in Positions /\ PartEnd \in Nat
  BY <1>2, PartInRow
<1> HIDE DEF lo, src, dst, s, d
<1>5. /\ src - 1 \in Positions /\ src - 1 \in lo..(PartEnd - 1) /\ lo < src
      /\ ~pos_is_empty(cells, src - 1)
  BY <1>1, <1>3, <1>4, SizeNat DEF Positions
<1>6. s = src - 1
  <2>1. \A q \in Positions : ~(src - 1 < q /\ q < src)
    BY <1>4, SizeNat DEF Positions
  <2>2. src \in Nat /\ src - 1 < src
    BY <1>4, SizeNat DEF Positions
  <2>3. QED
    BY <2>1, <2>2, <1>5, DecrementIs DEF s
<1>7. d = IF KeepsValue THEN src ELSE src - 1
  <2>1. CASE KeepsValue
    <3>1. dst = src + 1 /\ ~pos_is_empty(cells, src)
      BY <2>1, <1>3
    <3>2. dst \in Nat /\ src < dst /\ \A q \in Positions : ~(src < q /\ q < dst)
      BY <3>1, <1>4, SizeNat DEF Positions
    <3>3. QED
      BY <3>1, <3>2, <2>1, <1>4, DecrementIs DEF d
  <2>2. CASE ~KeepsValue
    <3>1. dst \in {src, src + 1} /\ pos_is_empty(cells, src)
      BY <2>2, <1>3
    <3>2. dst \in Nat /\ src - 1 < dst
      BY <3>1, <1>4, SizeNat DEF Positions
    <3>3. \A q \in Positions : src - 1 < q /\ q < dst => q = src
      BY <3>1, <1>4, SizeNat DEF Positions
    <3>4. \A q \in Positions : src - 1 < q /\ q < dst => pos_is_empty(cells, q)
      BY <3>1, <3>3
    <3>5. QED
      BY <3>2, <3>4, <2>2, <1>5, DecrementIs DEF d
  <2>3. QED
    BY <2>1, <2>2
<1> DEFINE mid == [cells EXCEPT ![d] = cells[s]]
<1>8. d \in Positions /\ s \in Positions /\ ~pos_is_empty(cells, s)
  BY <1>4, <1>5, <1>6, <1>7
<1>9. /\ mid \in [Positions -> Valued] /\ mid[s] = cells[s]
      /\ \A q \in Positions : q # d => mid[q] = cells[q]
  BY <1>3, <1>8
<1>10. cells' = move_out(mid, s) /\ ~pos_is_empty(mid, s)
  BY <1>1, <1>8, <1>9 DEF move_from, pos_is_empty
<1> HIDE DEF mid
<1>11. /\ cells' \in [Positions -> Valued]
       /\ \A q \in Positions : q # s => cells'[q] = mid[q]
       /\ pos_is_empty(cells', s) <=> ~KeepsValue
       /\ KeepsValue => cells' = mid
  BY <1>8, <1>9, <1>10, MovedOut
<1>12. \A pos \in Positions : pos \notin {src, src - 1} => cells'[pos] = cells[pos]
  BY <1>6, <1>7, <1>9, <1>11
<1>13. KeepsValue => cells' = [cells EXCEPT ![src] = cells[src - 1]]
  BY <1>6, <1>7, <1>11 DEF mid
<1>14. [call.part EXCEPT !.src = s, !.dst = d]
         = [lo |-> lo, tmp |-> call.part.tmp, src |-> s, dst |-> d]
  <2> DEFINE part == call.part
             tmp  == call.part.tmp
             next == [part EXCEPT !.src = s]
  <2>1. part = [lo |-> lo, tmp |-> tmp, src |-> src, dst |-> dst]
    BY <1>3
  <2> HIDE DEF part, tmp
  <2>2. next = [lo |-> lo, tmp |-> tmp, src |-> s, dst |-> dst]
    BY <2>1
  <2> HIDE DEF next
  <2>3. [next EXCEPT !.dst = d] = [lo |-> lo, tmp |-> tmp, src |-> s, dst |-> d]
    BY <2>2
  <2>4. QED
    BY <2>3 DEF part, tmp, next
<1>15. QED
  BY <1>1, <1>2, <1>5, <1>6, <1>7, <1>11, <1>12, <1>13, <1>14 DEF lo, src, dst

LEMMA MoveOneKeepsInv ==
  ASSUME IInv, MoveOne
  PROVE  /\ IInv' /\ call.op = "shift" /\ call'.op = "shift" /\ call'.before = call.before
         /\ UNCHANGED <<drain, handed>>
<1> DEFINE from == call.from
           to   == call.to
           lo   == call.part.lo
           src  == call.part.src
           hi   == PartEnd
           part == [lo |-> lo, tmp |-> call.part.tmp, src |-> src - 1,
                    dst |-> IF KeepsValue THEN src ELSE src - 1]
<1>1. /\ ShiftInv /\ lo < src /\ src - 1 \in lo..(hi - 1)
      /\ call' = [call EXCEPT !.part = part]
      /\ cells' \in [Positions -> Valued]
      /\ \A pos \in Positions : pos \notin {src, src - 1} => cells'[pos] = cells[pos]
      /\ pos_is_empty(cells', src - 1) <=> ~KeepsValue
      /\ KeepsValue => cells' = [cells EXCEPT ![src] = cells[src - 1]]
      /\ drain' = drain /\ handed' = handed
  BY MoveOneCells
<1>2. /\ call = [op |-> "shift", from |-> from, to |-> to, elem |-> call.elem,
                 before |-> call.before, part |-> call.part]
      /\ from \in Positions /\ to \in Positions /\ from # to /\ call.elem \in Elems
      /\ pos_is_empty(cells, to) /\ cells \in [Positions -> Valued]
      /\ PartInv
  BY <1>1 DEF ShiftInv, AllValued
<1>3. /\ hi \in Nat /\ hi - 1 \in Positions /\ lo \in Positions /\ src \in Positions
      /\ \A pos \in lo..(hi - 1) : pos \in Positions /\ Dist(from, pos) < Dist(from, to)
      /\ lo # from => hi = to /\ lo = 0 /\ to < from /\ to > 0
      /\ lo = from => hi = IF to < from THEN TableSize ELSE to
  BY <1>1, PartInRow DEF Wraps
<1>4. src \in lo..(hi - 1)
  BY <1>2 DEF PartInv
<1>5. call' = [op |-> "shift", from |-> from, to |-> to, elem |-> call.elem,
               before |-> call.before, part |-> part]
  <2> HIDE DEF part, from, to
  <2>1. QED
    BY <1>1, <1>2
<1>6. /\ call'.op = "shift" /\ call'.from = from /\ call'.to = to /\ call'.elem = call.elem
      /\ call'.before = call.before /\ call'.part = part
  <2> HIDE DEF part, from, to
  <2>1. QED
    BY <1>5
<1>7. /\ call'.part.lo = lo /\ call'.part.tmp = call.part.tmp /\ call'.part.src = src - 1
      /\ call'.part.dst = IF KeepsValue THEN src ELSE src - 1
  BY <1>6
<1>8. PartEnd' = hi /\ (Wraps' <=> to < from) /\ (Wraps <=> to < from)
  BY <1>6, <1>7 DEF PartEnd, Wraps
<1> HIDE DEF from, to, lo, src, hi, part
<1>9. src - 1 \in Positions /\ src - 1 < src
  BY <1>1, <1>3, SizeNat DEF Positions
<1>10. \A pos \in Positions :
          ~(Dist(from, pos) < Dist(from, to)) => cells'[pos] = cells[pos]
  BY <1>1, <1>3, <1>4
<1>11. Dist(from, to) \in Nat
  BY <1>2, Around, SizeNat DEF Positions
<1>12. pos_is_empty(cells', to)
  BY <1>2, <1>10, <1>11 DEF pos_is_empty
<1>13. \E pos \in Positions : pos_is_empty(cells', pos) /\ Dist(from, to) < Dist(from, pos)
  <2>1. PICK pos \in Positions : pos_is_empty(cells, pos) /\ Dist(from, to) < Dist(from, pos)
    BY <1>1 DEF ShiftInv, from, to
  <2>2. Dist(from, pos) \in Positions /\ Dist(from, to) \in Positions
    BY <2>1, <1>2, Around
  <2>3. ~(Dist(from, pos) < Dist(from, to))
    BY <2>1, <2>2, SizeNat DEF Positions
  <2>4. QED
    BY <2>1, <2>3, <1>10 DEF pos_is_empty
<1>14. PartInv'
  <2>1. call'.part = [lo |-> lo, tmp |-> call.part.tmp, src |-> src - 1,
                      dst |-> call'.part.dst]
    BY <1>6, <1>7 DEF part
  <2>2. lo = from \/ (lo = 0 /\ to < from /\ to > 0)
    BY <1>3
  <2>3. call.part.tmp \in InUse
    BY <1>2 DEF PartInv
  <2>4. call'.part.dst = IF KeepsValue \/ src - 1 = hi - 1 THEN (src - 1) + 1 ELSE src - 1
    BY <1>3, <1>4, <1>7 DEF Positions
  <2>5. \A pos \in lo..((src - 1) - 1) : ~pos_is_empty(cells', pos)
    <3> SUFFICES ASSUME NEW pos \in lo..((src - 1) - 1) PROVE ~pos_is_empty(cells', pos)
      OBVIOUS
    <3>1. pos \in lo..(src - 1) /\ pos \in Positions /\ pos \notin {src, src - 1}
      BY <1>3, <1>4, SizeNat DEF Positions
    <3>2. ~pos_is_empty(cells, pos)
      BY <3>1, <1>2 DEF PartInv, lo, src
    <3>3. QED
      BY <3>1, <3>2, <1>1 DEF pos_is_empty
  <2>6. SecondPartLeft' => \A pos \in 0..(to - 1) : ~pos_is_empty(cells', pos)
    <3> SUFFICES ASSUME SecondPartLeft', NEW pos \in 0..(to - 1)
                 PROVE  ~pos_is_empty(cells', pos)
      OBVIOUS
    <3>1. SecondPartLeft /\ lo = from /\ to < from
      BY <1>6, <1>7 DEF SecondPartLeft, from, to, lo
    <3>2. ~pos_is_empty(cells, pos)
      BY <3>1, <1>2 DEF PartInv, to
    <3>3. pos \in Positions /\ pos \notin {src, src - 1}
      BY <3>1, <1>2, <1>3, <1>4, <1>1, SizeNat DEF Positions
    <3>4. QED
      BY <3>2, <3>3, <1>1 DEF pos_is_empty
  <2>7. QED
    BY <2>1, <2>2, <2>3, <2>4, <2>5, <2>6, <1>1, <1>6, <1>7, <1>8 DEF PartInv
<1>15. KeepsValue => /\ IsArray(call'.before)
                     /\ IsRow(call'.before, from, to)
                     /\ call'.part.tmp = call'.before[PartEnd' - 1]
                     /\ \A pos \in Positions : SlotOf(cells', pos) = Shifted(pos)'
  <2> SUFFICES ASSUME KeepsValue
               PROVE  /\ IsArray(call'.before)
                      /\ IsRow(call'.before, from, to)
                      /\ call'.part.tmp = call'.before[PartEnd' - 1]
                      /\ \A pos \in Positions : SlotOf(cells', pos) = Shifted(pos)'
    OBVIOUS
  <2>1. /\ IsArray(call.before) /\ IsRow(call.before, from, to)
        /\ call.part.tmp = call.before[hi - 1]
        /\ \A pos \in Positions : SlotOf(cells, pos) = Shifted(pos)
    BY <1>1 DEF ShiftInv, from, to, hi
  <2>2. cells' = [cells EXCEPT ![src] = cells[src - 1]]
    BY <1>1
  <2>3. ASSUME NEW pos \in Positions PROVE SlotOf(cells', pos) = Shifted(pos)'
    <3>1. CASE pos = src
      <4>1. SlotOf(cells', pos) = SlotOf(cells, src - 1)
        BY <3>1, <2>2, <1>2, <1>3 DEF SlotOf, pos_is_empty
      <4>2. Shifted(src - 1) = call.before[src - 1]
        <5>1. ~(src < src - 1) /\ (lo # from => ~(src - 1 >= from))
          BY <1>2, <1>3, <1>4, SizeNat DEF Positions
        <5>2. QED
          BY <5>1 DEF Shifted, src, lo, from
      <4>3. Shifted(pos)' = call.before[src - 1]
        <5>1. src - 1 < src /\ src < hi
          BY <1>3, <1>4, <1>9, SizeNat DEF Positions
        <5>2. QED
          BY <3>1, <5>1, <1>6, <1>7, <1>8 DEF Shifted
      <4>4. QED
        BY <3>1, <4>1, <4>2, <4>3, <2>1, <1>9
    <3>2. CASE pos # src
      <4>1. SlotOf(cells', pos) = SlotOf(cells, pos)
        BY <3>2, <2>2, <1>2, <1>3 DEF SlotOf, pos_is_empty
      <4>2. src < pos <=> src - 1 < pos
        BY <3>2, <1>3, SizeNat DEF Positions
      <4>3. Shifted(pos)' = Shifted(pos)
        BY <4>2, <1>6, <1>7, <1>8 DEF Shifted, from, to, lo, src, hi
      <4>4. QED
        BY <4>1, <4>3, <2>1
    <3>3. QED
      BY <3>1, <3>2
  <2>4. QED
    BY <2>1, <2>3, <1>6, <1>7, <1>8
<1>16. ShiftInv'
  <2>1. call' = [op |-> "shift", from |-> call'.from, to |-> call'.to, elem |-> call'.elem,
                 before |-> call'.before, part |-> call'.part]
    BY <1>5, <1>6
  <2>2. QED
    BY <2>1, <1>1, <1>2, <1>6, <1>12, <1>13, <1>14, <1>15 DEF ShiftInv, AllValued
<1>17. drain = Idle
  BY <1>2 DEF IInv, Idle
<1>18. IInv'
  BY <1>1, <1>6, <1>16, <1>17 DEF IInv, Idle
<1>19. QED
  BY <1>1, <1>2, <1>6, <1>18

LEMMA FrontSetIs ==
  ASSUME ShiftInv
  PROVE  /\ FrontSet = [cells EXCEPT ![call.part.lo] = call.part.tmp]
         /\ FrontSet \in [Positions -> Valued]
         /\ FrontSet[call.part.lo] = call.part.tmp
         /\ \A pos \in Positions : pos # call.part.lo => FrontSet[pos] = cells[pos]
<1>1. call.part.tmp \in Valued /\ call.part.lo \in Positions /\ cells \in [Positions -> Valued]
  BY PartInRow DEF ShiftInv, PartInv, AllValued, InUse, Valued
<1>2. FrontSet = [cells EXCEPT ![call.part.lo] = call.part.tmp]
  BY DEF FrontSet, set
<1>3. QED
  BY <1>1, <1>2

(* The second part of a row that wraps around begins.                      *)
LEMMA StartSecondPartKeepsInv ==
  ASSUME IInv, StartSecondPart
  PROVE  /\ IInv' /\ call.op = "shift" /\ call'.op = "shift" /\ call'.before = call.before
         /\ UNCHANGED <<drain, handed>>
<1> DEFINE from == call.from
           to   == call.to
           tmp  == call.part.tmp
           last == to - 1
           part == [lo |-> 0, tmp |-> cells[last], src |-> last, dst |-> to]
           front == FrontSet
<1>1. /\ call.op = "shift" /\ AtFront /\ SecondPartLeft
      /\ cells' = move_out(front, last)
      /\ call' = [call EXCEPT !.part = SparseShift(front, 0, to)]
      /\ drain' = drain /\ handed' = handed
  BY DEF StartSecondPart
<1>2. ShiftInv /\ call # Idle /\ drain = Idle
  BY <1>1 DEF IInv, Idle, ConstructInv, ReadInv
<1>3. /\ call = [op |-> "shift", from |-> from, to |-> to, elem |-> call.elem,
                 before |-> call.before, part |-> call.part]
      /\ from \in Positions /\ to \in Positions /\ from # to /\ call.elem \in Elems
      /\ pos_is_empty(cells, to) /\ cells \in [Positions -> Valued]
      /\ tmp \in InUse
      /\ \A pos \in 0..(to - 1) : ~pos_is_empty(cells, pos)
  BY <1>1, <1>2 DEF ShiftInv, AllValued, PartInv
<1>4. /\ call.part.lo = from /\ call.part.src = from /\ to < from /\ to > 0 /\ from > 0
      /\ PartEnd = TableSize
  BY <1>1, <1>2, <1>3, PartInRow, SizeNat DEF SecondPartLeft, AtFront, Positions
<1>5. /\ last \in Positions /\ last # from /\ last # to /\ last < to
      /\ ~pos_is_empty(cells, last)
  BY <1>3, <1>4, SizeNat DEF Positions
<1>6. /\ front \in [Positions -> Valued] /\ front[from] = tmp
      /\ \A pos \in Positions : pos # from => front[pos] = cells[pos]
  BY <1>2, <1>4, FrontSetIs
<1> HIDE DEF front
<1>7. /\ cells' \in [Positions -> Valued]
      /\ \A pos \in Positions : pos # last => cells'[pos] = front[pos]
      /\ pos_is_empty(cells', last) <=> ~KeepsValue
      /\ KeepsValue => cells' = front
  <2>1. ~pos_is_empty(front, last)
    BY <1>5, <1>6 DEF pos_is_empty
  <2>2. QED
    BY <2>1, <1>1, <1>5, <1>6, MovedOut
<1>8. SparseShift(front, 0, to) = part
  BY <1>5, <1>6 DEF SparseShift
<1>9. call' = [op |-> "shift", from |-> from, to |-> to, elem |-> call.elem,
               before |-> call.before, part |-> part]
  <2> HIDE DEF part, from, to, last
  <2>1. QED
    BY <1>1, <1>3, <1>8
<1>10. /\ call'.op = "shift" /\ call'.from = from /\ call'.to = to /\ call'.elem = call.elem
       /\ call'.before = call.before /\ call'.part = part
  <2> HIDE DEF part, from, to
  <2>1. QED
    BY <1>9
<1>11. /\ call'.part.lo = 0 /\ call'.part.tmp = cells[last] /\ call'.part.src = last
       /\ call'.part.dst = to
  BY <1>10
<1>12. PartEnd' = to /\ (Wraps' <=> to < from)
  BY <1>4, <1>10, <1>11 DEF PartEnd, Wraps
<1> HIDE DEF from, to, tmp, part
<1>13. /\ Dist(from, from) < Dist(from, to) /\ Dist(from, last) < Dist(from, to)
       /\ Dist(from, to) \in Nat
  <2>1. Dist(from, from) < Dist(from, to) /\ Dist(from, last) < Dist(from, to)
    BY <1>3, <1>4, <1>5, RowParts, SizeNat DEF Positions
  <2>2. QED
    BY <2>1, <1>3, Around, SizeNat DEF Positions
<1>14. \A pos \in Positions : pos \notin {from, last} => cells'[pos] = cells[pos]
  BY <1>6, <1>7
<1>15. pos_is_empty(cells', to)
  BY <1>3, <1>5, <1>14 DEF pos_is_empty
<1>16. \E pos \in Positions : pos_is_empty(cells', pos) /\ Dist(from, to) < Dist(from, pos)
  <2>1. PICK pos \in Positions : pos_is_empty(cells, pos) /\ Dist(from, to) < Dist(from, pos)
    BY <1>2 DEF ShiftInv, from, to
  <2>2. Dist(from, pos) \in Positions /\ Dist(from, to) \in Positions
    BY <2>1, <1>3, Around
  <2>3. pos # from /\ pos # last
    BY <2>1, <2>2, <1>13, SizeNat DEF Positions
  <2>4. QED
    BY <2>1, <2>3, <1>14 DEF pos_is_empty
<1>17. PartInv'
  <2>1. call'.part = [lo |-> 0, tmp |-> cells[last], src |-> last, dst |-> to]
    BY <1>10 DEF part
  <2>2. cells[last] \in InUse
    BY <1>3, <1>5, ValuedCells DEF pos_is_empty
  <2>3. last \in 0..(to - 1) /\ last = to - 1 /\ to = last + 1
    BY <1>4, <1>3, SizeNat DEF Positions
  <2>4. \A pos \in 0..(last - 1) : ~pos_is_empty(cells', pos)
    <3> SUFFICES ASSUME NEW pos \in 0..(last - 1) PROVE ~pos_is_empty(cells', pos)
      OBVIOUS
    <3>1. pos \in 0..(to - 1) /\ pos \in Positions /\ pos \notin {from, last}
      BY <1>3, <1>4, <1>5, SizeNat DEF Positions
    <3>2. QED
      BY <3>1, <1>3, <1>14 DEF pos_is_empty, to
  <2>5. ~SecondPartLeft'
    BY <1>4, <1>10, <1>11 DEF SecondPartLeft
  <2> HIDE DEF last
  <2>6. QED
    BY <2>1, <2>2, <2>3, <2>4, <2>5, <1>4, <1>7, <1>10, <1>11, <1>12 DEF PartInv
<1>18. KeepsValue => /\ IsArray(call'.before)
                     /\ IsRow(call'.before, from, to)
                     /\ call'.part.tmp = call'.before[PartEnd' - 1]
                     /\ \A pos \in Positions : SlotOf(cells', pos) = Shifted(pos)'
  <2> SUFFICES ASSUME KeepsValue
               PROVE  /\ IsArray(call'.before)
                      /\ IsRow(call'.before, from, to)
                      /\ call'.part.tmp = call'.before[PartEnd' - 1]
                      /\ \A pos \in Positions : SlotOf(cells', pos) = Shifted(pos)'
    OBVIOUS
  <2>1. /\ IsArray(call.before) /\ IsRow(call.before, from, to)
        /\ tmp = call.before[TableSize - 1]
        /\ \A pos \in Positions : SlotOf(cells, pos) = Shifted(pos)
    BY <1>2, <1>4 DEF ShiftInv, from, to, tmp
  <2>2. \A pos \in Positions :
           Shifted(pos) = IF from < pos THEN call.before[pos - 1] ELSE call.before[pos]
    BY <1>4, SizeNat DEF Shifted, Positions, from
  <2>3. \A pos \in Positions :
           Shifted(pos)' = IF from < pos THEN call.before[pos - 1]
                           ELSE IF from = pos THEN call.before[TableSize - 1]
                           ELSE call.before[pos]
    BY <1>3, <1>4, <1>10, <1>11, <1>12, SizeNat DEF Shifted, Positions
  <2>4. cells[last] = call.before[last]
    <3>1. SlotOf(cells, last) = call.before[last]
      BY <2>1, <2>2, <1>3, <1>4, <1>5, SizeNat DEF Positions
    <3>2. QED
      BY <3>1, <1>5 DEF SlotOf
  <2>5. SlotOf(cells', from) = call.before[TableSize - 1]
    <3>1. cells'[from] = tmp
      BY <1>3, <1>6, <1>7
    <3>2. tmp.val # empty_value
      BY <1>3, EmptyValueAssumption DEF InUse
    <3>3. QED
      BY <3>1, <3>2, <2>1 DEF SlotOf, pos_is_empty
  <2>6. \A pos \in Positions : pos # from => SlotOf(cells', pos) = SlotOf(cells, pos)
    BY <1>6, <1>7 DEF SlotOf, pos_is_empty
  <2>7. \A pos \in Positions : SlotOf(cells', pos) = Shifted(pos)'
    BY <2>1, <2>2, <2>3, <2>5, <2>6, <1>3, SizeNat DEF Positions
  <2>8. QED
    BY <2>1, <2>4, <2>7, <1>10, <1>11, <1>12
<1>19. ShiftInv'
  <2>1. call' = [op |-> "shift", from |-> call'.from, to |-> call'.to, elem |-> call'.elem,
                 before |-> call'.before, part |-> call'.part]
    BY <1>9, <1>10
  <2>2. QED
    BY <2>1, <1>3, <1>7, <1>10, <1>15, <1>16, <1>17, <1>18 DEF ShiftInv, AllValued
<1>20. IInv'
  BY <1>1, <1>2, <1>10, <1>19 DEF IInv, Idle
<1>21. QED
  BY <1>1, <1>10, <1>20

(* The elements change places, whether or not their values are kept when   *)
(* they are moved.                                                         *)
LEMMA Swapping ==
  ASSUME NEW cs, cs \in [Positions -> Valued], NEW p \in Positions, NEW q \in Positions, p # q
  PROVE  swap_with(cs, p, q) = [cs EXCEPT ![p] = cs[q], ![q] = cs[p]]
<1> DEFINE mid == [cs EXCEPT ![p] = cs[q]]
           out == [mid[q] EXCEPT !.val = MovedFrom(@)]
<1>1. mid = [pos \in Positions |-> IF pos = p THEN cs[q] ELSE cs[pos]]
  OBVIOUS
<1>2. move_from(cs, p, q) = [mid EXCEPT ![q] = out]
  BY DEF move_from, move_out
<1> HIDE DEF mid, out
<1>3. swap_with(cs, p, q) = [[mid EXCEPT ![q] = out] EXCEPT ![q] = cs[p]]
  BY <1>2 DEF swap_with, set
<1>4. [[mid EXCEPT ![q] = out] EXCEPT ![q] = cs[p]] = [mid EXCEPT ![q] = cs[p]]
  BY <1>1
<1>5. QED
  BY <1>3, <1>4 DEF mid

LEMMA MovingFront ==
  ASSUME NEW cs, cs \in [Positions -> Valued], NEW from \in Positions, NEW to \in Positions,
         from # to
  PROVE  LET new == MoveFrontTo(cs, from, to)
         IN  /\ new = [pos \in Positions |-> new[pos]]
             /\ new[from] = [quot |-> cs[from].quot, val |-> Uninitialized]
             /\ new[to] = cs[from]
             /\ \A pos \in Positions : pos \notin {from, to} => new[pos] = cs[pos]
<1> DEFINE raw  == [quot |-> cs[from].quot, val |-> Uninitialized]
           c1   == allocate_pos(cs, to)
           c2   == [c1 EXCEPT ![to] = c1[from]]
           out  == [quot |-> cs[from].quot, val |-> MovedFrom(cs[from].val)]
<1>1. cs[from] = [quot |-> cs[from].quot, val |-> cs[from].val]
  BY ValuedCells
<1>2. c1 = [cs EXCEPT ![to] = [cs[to] EXCEPT !.val = Uninitialized]]
  BY DEF allocate_pos, uninitialize
<1>3. /\ c2 = [pos \in Positions |-> c2[pos]]
      /\ c2[to] = cs[from] /\ \A pos \in Positions : pos # to => c2[pos] = cs[pos]
  <2> HIDE DEF c1
  <2>1. c1 = [pos \in Positions |-> c1[pos]] /\ c1[from] = cs[from]
        /\ \A pos \in Positions : pos # to => c1[pos] = cs[pos]
    BY <1>2
  <2>2. QED
    BY <2>1
<1>4. init_from(c1, to, from) = [c2 EXCEPT ![from] = [c2[from] EXCEPT !.val = MovedFrom(@)]]
  BY DEF init_from, move_out
<1> HIDE DEF c1, c2
<1>5. [c2[from] EXCEPT !.val = MovedFrom(@)] = out
  BY <1>1, <1>3
<1> DEFINE c3 == [c2 EXCEPT ![from] = out]
<1>6. c3[from] = out /\ c3 = [pos \in Positions |-> c3[pos]]
      /\ \A pos \in Positions : pos # from => c3[pos] = c2[pos]
  BY <1>3
<1>7. init_from(c1, to, from) = c3
  BY <1>4, <1>5
<1> HIDE DEF c3
<1>8. MoveFrontTo(cs, from, to) = [c3 EXCEPT ![from] = [c3[from] EXCEPT !.val = Uninitialized]]
  BY <1>7 DEF MoveFrontTo, uninitialize, c1
<1>9. [c3[from] EXCEPT !.val = Uninitialized] = raw
  BY <1>6
<1>10. MoveFrontTo(cs, from, to) = [c3 EXCEPT ![from] = raw]
  BY <1>8, <1>9
<1> DEFINE c4 == [c3 EXCEPT ![from] = raw]
<1>11. c4[from] = raw /\ c4 = [pos \in Positions |-> c4[pos]]
       /\ \A pos \in Positions : pos # from => c4[pos] = c3[pos]
  BY <1>6
<1>12. MoveFrontTo(cs, from, to) = c4
  BY <1>10
<1> HIDE DEF c4
<1>13. QED
  BY <1>3, <1>6, <1>11, <1>12

(* The cells when the row has been shifted: its last element is in front.  *)
LEMMA RowShifted ==
  ASSUME ShiftInv,
         NEW cs, cs = IF call.part.lo = call.from THEN FrontSet
                      ELSE swap_with(FrontSet, call.from, 0)
  PROVE  /\ cs \in [Positions -> Valued]
         /\ cs[call.from] = call.part.tmp
         /\ call.part.lo # call.from => cs[0] = cells[call.from]
         /\ \A pos \in Positions :
               pos # call.from /\ pos # call.part.lo => cs[pos] = cells[pos]
<1>1. /\ FrontSet \in [Positions -> Valued] /\ FrontSet[call.part.lo] = call.part.tmp
      /\ \A pos \in Positions : pos # call.part.lo => FrontSet[pos] = cells[pos]
  BY FrontSetIs
<1>2. call.from \in Positions /\ (call.part.lo # call.from => call.part.lo = 0)
      /\ call.part.lo \in Positions
  BY PartInRow DEF ShiftInv
<1>3. CASE call.part.lo = call.from
  BY <1>1, <1>2, <1>3
<1>4. CASE call.part.lo # call.from
  <2> DEFINE f == FrontSet
             p == call.from
  <2>1. cs = [f EXCEPT ![p] = f[0], ![0] = f[p]]
    <3>1. cs = swap_with(f, p, 0)
      BY <1>4
    <3>2. f \in [Positions -> Valued] /\ p \in Positions /\ 0 \in Positions /\ p # 0
      BY <1>1, <1>2, <1>4
    <3> HIDE DEF f, p
    <3>3. QED
      BY <3>1, <3>2, Swapping
  <2>2. /\ f \in [Positions -> Valued] /\ f[0] = call.part.tmp
        /\ \A pos \in Positions : pos # 0 => f[pos] = cells[pos]
        /\ p \in Positions /\ 0 \in Positions /\ p # 0
    BY <1>1, <1>2, <1>4
  <2> HIDE DEF f, p
  <2>3. /\ cs \in [Positions -> Valued] /\ cs[p] = call.part.tmp /\ cs[0] = cells[p]
        /\ \A pos \in Positions : pos # p /\ pos # 0 => cs[pos] = cells[pos]
    BY <2>1, <2>2
  <2>4. QED
    BY <2>3, <1>2, <1>4 DEF p
<1>5. QED
  BY <1>3, <1>4

LEMMA FinishPutInFrontKeepsInv ==
  ASSUME IInv, FinishPutInFront
  PROVE  /\ IInv' /\ call.op = "shift" /\ call'.op = "construct"
         /\ call'.before = call.before
         /\ UNCHANGED <<drain, handed>>
<1> DEFINE from == call.from
           to   == call.to
           lo   == call.part.lo
           tmp  == call.part.tmp
           cs   == IF lo = from THEN FrontSet ELSE swap_with(FrontSet, from, 0)
           elem == call.elem
<1>1. /\ call.op = "shift" /\ AtFront /\ ~SecondPartLeft
      /\ cells' = [MoveFrontTo(cs, from, to) EXCEPT ![from].quot = elem.quot]
      /\ call' = [op |-> "construct", location |-> from, val |-> elem.val,
                  before |-> call.before]
      /\ drain' = drain /\ handed' = handed
  BY DEF FinishPutInFront
<1>2. ShiftInv /\ call # Idle /\ drain = Idle
  BY <1>1 DEF IInv, Idle, ConstructInv, ReadInv
<1>3. /\ from \in Positions /\ to \in Positions /\ from # to /\ elem \in Elems
      /\ pos_is_empty(cells, to) /\ cells \in [Positions -> Valued]
      /\ tmp \in InUse /\ call.part.src = lo /\ Wraps = (to < from)
  BY <1>1, <1>2 DEF ShiftInv, AllValued, PartInv, AtFront, Wraps
<1>4. /\ lo \in Positions
      /\ lo # from => lo = 0 /\ to < from /\ to > 0 /\ PartEnd = to
      /\ lo = from => IF to < from THEN to = 0 /\ PartEnd = TableSize ELSE PartEnd = to
  <2>1. lo = from /\ to < from => to = 0
    BY <1>1, <1>3, SizeNat DEF SecondPartLeft, Positions
  <2>2. QED
    BY <2>1, <1>2, <1>3, PartInRow
<1>5. /\ cs \in [Positions -> Valued] /\ cs[from] = tmp
      /\ lo # from => cs[0] = cells[from]
      /\ \A pos \in Positions : pos # from /\ pos # lo => cs[pos] = cells[pos]
  BY <1>2, RowShifted
<1> HIDE DEF from, to, lo, tmp, cs, elem
<1>6. /\ cells' = [pos \in Positions |-> cells'[pos]]
      /\ cells'[from] = [quot |-> elem.quot, val |-> Uninitialized]
      /\ cells'[to] = tmp
      /\ \A pos \in Positions : pos \notin {from, to} => cells'[pos] = cs[pos]
  <2> DEFINE moved == MoveFrontTo(cs, from, to)
  <2>1. cells' = [moved EXCEPT ![from].quot = elem.quot]
    BY <1>1
  <2>2. /\ moved = [pos \in Positions |-> moved[pos]]
        /\ moved[from] = [quot |-> cs[from].quot, val |-> Uninitialized]
        /\ moved[to] = cs[from]
        /\ \A pos \in Positions : pos \notin {from, to} => moved[pos] = cs[pos]
    BY <1>3, <1>5, MovingFront
  <2> HIDE DEF moved
  <2>3. [moved[from] EXCEPT !.quot = elem.quot] = [quot |-> elem.quot, val |-> Uninitialized]
    BY <2>2
  <2>4. cells' = [moved EXCEPT ![from] = [quot |-> elem.quot, val |-> Uninitialized]]
    BY <2>1, <2>3
  <2>5. QED
    BY <2>2, <2>4, <1>3, <1>5
<1>7. \A pos \in Positions \ {from} : cells'[pos] \in Valued
  BY <1>3, <1>5, <1>6 DEF InUse, Valued
<1>8. \E pos \in Positions \ {from} : pos_is_empty(cells', pos)
  <2>1. PICK pos \in Positions : pos_is_empty(cells, pos) /\ Dist(from, to) < Dist(from, pos)
    BY <1>2 DEF ShiftInv, from, to
  <2>2. Dist(from, pos) \in Positions /\ Dist(from, to) \in Positions
    BY <2>1, <1>3, Around
  <2>3. pos # to /\ ~(Dist(from, pos) < Dist(from, to))
    BY <2>1, <2>2, SizeNat DEF Positions
  <2>4. pos # from /\ pos # lo
    BY <2>1, <2>3, <1>3, <1>4, RowParts, SizeNat DEF Positions
  <2>5. cells'[pos] = cells[pos]
    BY <2>1, <2>3, <2>4, <1>5, <1>6
  <2>6. QED
    BY <2>1, <2>4, <2>5 DEF pos_is_empty
<1>9. /\ call'.op = "construct" /\ call'.location = from /\ call'.val = elem.val
      /\ call'.before = call.before
  BY <1>1
<1>10. KeepsValue =>
          /\ IsArray(call.before) /\ IsRow(call.before, from, to)
          /\ \A pos \in Positions \ {from} :
                SlotOf(cells', pos) =
                  IF Dist(from, pos) <= Dist(from, to)
                  THEN call.before[Prev1(pos)] ELSE call.before[pos]
  <2> SUFFICES ASSUME KeepsValue
               PROVE  /\ IsArray(call.before) /\ IsRow(call.before, from, to)
                      /\ \A pos \in Positions \ {from} :
                            SlotOf(cells', pos) =
                              IF Dist(from, pos) <= Dist(from, to)
                              THEN call.before[Prev1(pos)] ELSE call.before[pos]
    OBVIOUS
  <2>1. /\ IsArray(call.before) /\ IsRow(call.before, from, to)
        /\ tmp = call.before[PartEnd - 1]
        /\ \A pos \in Positions : SlotOf(cells, pos) = Shifted(pos)
    BY <1>2 DEF ShiftInv, from, to, tmp
  <2>2. ASSUME NEW pos \in Positions, pos # from
        PROVE  SlotOf(cells', pos) = IF Dist(from, pos) <= Dist(from, to)
                                     THEN call.before[Prev1(pos)] ELSE call.before[pos]
    <3> DEFINE b == call.before
    <3>1. Shifted(pos) = IF lo < pos /\ pos < PartEnd THEN b[pos - 1]
                         ELSE IF lo # from /\ pos >= from THEN b[pos - 1]
                         ELSE b[pos]
      BY <2>2, <1>3 DEF Shifted, lo, from
    <3>2. Shifted(from) = IF lo = from THEN b[from] ELSE b[TableSize - 1]
      BY <1>3, <1>4, SizeNat DEF Shifted, lo, from, Positions
    <3> HIDE DEF b
    <3>3. CASE pos = to
      <4>1. SlotOf(cells', pos) = tmp
        BY <3>3, <1>3, <1>6, EmptyValueAssumption DEF SlotOf, pos_is_empty, InUse
      <4>2. Prev1(to) = PartEnd - 1
        BY <1>3, <1>4, SizeNat DEF Prev1, mod_sub, Positions
      <4>3. Dist(from, to) <= Dist(from, to)
        BY <1>3, Around, SizeNat DEF Positions
      <4>4. QED
        BY <3>3, <4>1, <4>2, <4>3, <2>1
    <3>4. CASE pos # to /\ pos = lo
      <4>1. lo # from /\ lo = 0 /\ to < from /\ to > 0
        BY <2>2, <3>4, <1>4
      <4>2. cells'[pos] = cells[from]
        BY <2>2, <3>4, <4>1, <1>5, <1>6
      <4>3. SlotOf(cells', pos) = SlotOf(cells, from)
        BY <4>2 DEF SlotOf, pos_is_empty
      <4>4. SlotOf(cells', pos) = b[TableSize - 1]
        BY <4>1, <4>3, <3>2, <2>1, <1>3
      <4>5. Prev1(pos) = TableSize - 1 /\ Dist(from, pos) <= Dist(from, to)
        BY <4>1, <3>4, <1>3, SizeNat DEF Prev1, Dist, mod_sub, Positions
      <4>6. QED
        BY <4>4, <4>5 DEF b
    <3>5. CASE pos # to /\ pos # lo
      <4>1. cells'[pos] = cells[pos]
        BY <2>2, <3>5, <1>5, <1>6
      <4>2. SlotOf(cells', pos) = Shifted(pos)
        BY <4>1, <2>1 DEF SlotOf, pos_is_empty
      <4>3. Dist(from, pos) <= Dist(from, to) <=>
              IF to < from THEN from <= pos \/ pos < to ELSE from <= pos /\ pos < to
        <5>1. Dist(from, pos) # Dist(from, to)
          BY <2>2, <3>5, <1>3, DistInjective
        <5>2. Dist(from, pos) \in Positions /\ Dist(from, to) \in Positions
          BY <2>2, <1>3, Around
        <5>3. Dist(from, pos) <= Dist(from, to) <=> Dist(from, pos) < Dist(from, to)
          BY <5>1, <5>2, SizeNat DEF Positions
        <5>4. QED
          BY <5>3, <2>2, <1>3, RowParts
      <4>4. pos # 0 => Prev1(pos) = pos - 1
        BY SizeNat DEF Prev1, mod_sub, Positions
      <4>5. CASE lo = from
        BY <4>2, <4>3, <4>4, <4>5, <3>1, <3>5, <2>2, <1>3, <1>4, SizeNat DEF Positions, b
      <4>6. CASE lo # from
        BY <4>2, <4>3, <4>4, <4>6, <3>1, <3>5, <2>2, <1>3, <1>4, SizeNat DEF Positions, b
      <4>7. QED
        BY <4>5, <4>6
    <3>6. QED
      BY <3>3, <3>4, <3>5
  <2>3. QED
    BY <2>1, <2>2
<1>11. ConstructInv'
  <2>1. elem.quot \in Quotients /\ elem.val \in Values
    BY <1>3 DEF Elems
  <2>2. call' = [op |-> "construct", location |-> call'.location, val |-> call'.val,
                 before |-> call'.before]
    BY <1>1
  <2>3. cells'[from] \in [quot : Quotients, val : {Uninitialized}]
    BY <2>1, <1>6
  <2>4. KeepsValue => IsArray(call'.before) /\ \E t \in Positions : PutAtRow(t)'
    <3>1. PICK t \in Positions : t = to
      BY <1>3
    <3>2. QED
      BY <3>1, <1>3, <1>9, <1>10 DEF PutAtRow
  <2>5. QED
    BY <2>1, <2>2, <2>3, <2>4, <1>3, <1>6, <1>7, <1>8, <1>9 DEF ConstructInv
<1>12. IInv'
  BY <1>1, <1>2, <1>9, <1>11 DEF IInv, Idle
<1>13. QED
  BY <1>1, <1>9, <1>12

-------------------------------------------------------------------------------
(* Draining.                                                               *)

LEMMA WalkSteps ==
  ASSUME NEW start \in Positions, NEW i \in Positions, NEW pos \in Positions
  PROVE  /\ Next1(i) \in Positions
         /\ i # start => (Steps(start, pos) < Steps(start, Next1(i))
                            <=> pos = i \/ Steps(start, pos) < Steps(start, i))
         /\ ~(Steps(start, pos) < Steps(start, Next1(start)))
         /\ pos # start => Steps(start, pos) < Steps(start, start)
         /\ ~(Steps(start, i) < Steps(start, i))
BY SizeNat DEF Positions, Steps, Dist, Next1, mod_add, mod_sub

LEMMA StartDrainKeepsInv ==
  ASSUME IInv, StartDrain
  PROVE  IInv' /\ call = Idle /\ drain = Idle /\ call' = Idle /\ drain' # Idle
         /\ drain'.visited = {}
         /\ UNCHANGED <<cells, handed>>
<1> DEFINE start == Min(Positions \ Occupied)
<1>1. /\ call = Idle /\ drain = Idle
      /\ drain' = [op |-> "drain", original_start |-> start,
                   i |-> Next1(start), visited |-> {}]
      /\ cells' = cells /\ call' = call /\ handed' = handed
  BY DEF StartDrain, NoCall, Next1
<1>2. AllValued(cells) /\ HasFree(cells)
  BY <1>1 DEF IInv
<1>3. start \in Positions /\ pos_is_empty(cells, start)
  <2> DEFINE S == Positions \ Occupied
  <2>1. S \subseteq Nat /\ S # {}
    BY <1>2 DEF Positions, Occupied, HasFree
  <2>2. \A pos \in S : pos \in Positions /\ pos_is_empty(cells, pos)
    BY DEF Occupied
  <2> HIDE DEF S
  <2>3. Min(S) \in S
    BY <2>1, MinOfNaturals
  <2>4. QED
    BY <2>2, <2>3 DEF S
<1> HIDE DEF start
<1>4. /\ drain' # Idle /\ drain'.original_start = start /\ drain'.i = Next1(start)
      /\ drain'.visited = {}
      /\ drain' = [op |-> "drain", original_start |-> drain'.original_start,
                   i |-> drain'.i, visited |-> drain'.visited]
  BY <1>1 DEF Idle
<1>5. \A pos \in Positions : ~(Steps(start, pos) < Steps(start, Next1(start)))
  BY <1>3, WalkSteps
<1>6. Occupied' \subseteq Positions
  BY DEF Occupied
<1>7. DrainInv'
  BY <1>1, <1>3, <1>4, <1>5, <1>6, WalkSteps DEF DrainInv, pos_is_empty
<1>8. IInv'
  BY <1>1, <1>2, <1>7 DEF IInv, AllValued, HasFree, pos_is_empty
<1>9. QED
  BY <1>1, <1>4, <1>8

LEMMA DrainingIs ==
  ASSUME IInv, drain # Idle
  PROVE  /\ DrainInv /\ call = Idle /\ AllValued(cells) /\ HasFree(cells)
         /\ Next1(drain.i) \in Positions
BY Around DEF IInv, DrainInv

LEMMA SkipEmptyKeepsInv ==
  ASSUME IInv, SkipEmpty
  PROVE  /\ IInv' /\ call = Idle /\ drain # Idle /\ drain' # Idle
         /\ drain'.visited = drain.visited
         /\ UNCHANGED <<cells, call, handed>>
<1> DEFINE start == drain.original_start
<1>1. /\ drain # Idle /\ pos_is_empty(cells, drain.i) /\ drain.i # start
      /\ drain' = [drain EXCEPT !.i = Next1(drain.i)]
      /\ cells' = cells /\ call' = call /\ handed' = handed
  BY DEF SkipEmpty, Next1
<1>2. DrainInv /\ call = Idle /\ AllValued(cells) /\ HasFree(cells) /\ Next1(drain.i) \in Positions
  BY <1>1, DrainingIs
<1>3. drain' = [op |-> "drain", original_start |-> start, i |-> Next1(drain.i),
                visited |-> drain.visited]
  BY <1>1, <1>2 DEF DrainInv
<1>4. /\ drain' # Idle /\ drain'.original_start = start /\ drain'.i = Next1(drain.i)
      /\ drain'.visited = drain.visited
      /\ drain' = [op |-> "drain", original_start |-> drain'.original_start,
                   i |-> drain'.i, visited |-> drain'.visited]
  BY <1>3 DEF Idle
<1>5. /\ Occupied' = Occupied
      /\ \A pos \in Occupied : pos \in Positions /\ pos # drain.i
  BY <1>1 DEF Occupied, pos_is_empty
<1>6. \A pos \in Occupied : Steps(start, pos) < Steps(start, Next1(drain.i))
                              <=> Steps(start, pos) < Steps(start, drain.i)
  BY <1>1, <1>2, <1>5, WalkSteps DEF DrainInv
<1>7. DrainInv'
  <2> HIDE DEF start
  <2>1. KeepsValue => drain'.visited =
           {pos \in Occupied' : Steps(start, pos) < Steps(start, Next1(drain.i))}
    BY <1>2, <1>4, <1>5, <1>6 DEF DrainInv, start
  <2>2. start \in Positions /\ pos_is_empty(cells', start) /\ drain'.visited \subseteq Positions
    BY <1>1, <1>2, <1>4 DEF DrainInv, pos_is_empty, start
  <2>3. QED
    BY <1>2, <1>4, <2>1, <2>2 DEF DrainInv
<1>8. IInv'
  BY <1>1, <1>2, <1>7 DEF IInv, AllValued, HasFree, pos_is_empty
<1>9. QED
  BY <1>1, <1>2, <1>4, <1>8

LEMMA VisitKeepsInv ==
  ASSUME IInv, Visit
  PROVE  /\ IInv' /\ call = Idle /\ drain # Idle /\ drain' # Idle /\ call' = call
         /\ drain.i \in Positions /\ ~pos_is_empty(cells, drain.i)
         /\ handed' = <<drain.i, cells[drain.i]>>
         /\ drain'.visited = drain.visited \cup {drain.i}
         /\ KeepsValue => cells' = cells /\ drain.i \notin drain.visited
<1> DEFINE start == drain.original_start
           i     == drain.i
<1>1. /\ drain # Idle /\ ~pos_is_empty(cells, i)
      /\ drain' = [drain EXCEPT !.i = Next1(i), !.visited = drain.visited \cup {i}]
      /\ cells' = move_out(cells, i) /\ call' = call /\ handed' = <<i, cells[i]>>
  BY DEF Visit, Next1
<1>2. /\ DrainInv /\ call = Idle /\ cells \in [Positions -> Valued] /\ Next1(i) \in Positions
      /\ i \in Positions /\ start \in Positions /\ pos_is_empty(cells, start) /\ i # start
  BY <1>1, DrainingIs DEF DrainInv, AllValued
<1>3. /\ cells' \in [Positions -> Valued]
      /\ \A q \in Positions : q # i => cells'[q] = cells[q]
      /\ KeepsValue => cells' = cells
  BY <1>1, <1>2, MovedOut
<1>4. drain' = [op |-> "drain", original_start |-> start, i |-> Next1(i),
                visited |-> drain.visited \cup {i}]
  <2> DEFINE d    == drain
             next == [d EXCEPT !.i = Next1(i)]
             seen == drain.visited \cup {i}
  <2>1. d = [op |-> "drain", original_start |-> start, i |-> i, visited |-> drain.visited]
    BY <1>2 DEF DrainInv
  <2> HIDE DEF d, seen, start, i
  <2>2. next = [op |-> "drain", original_start |-> start, i |-> Next1(i),
                visited |-> drain.visited]
    BY <2>1
  <2> HIDE DEF next
  <2>3. [next EXCEPT !.visited = seen]
          = [op |-> "drain", original_start |-> start, i |-> Next1(i), visited |-> seen]
    BY <2>2
  <2>4. QED
    BY <2>3, <1>1 DEF next, d, seen
<1> HIDE DEF start, i
<1>5. /\ drain' # Idle /\ drain'.original_start = start /\ drain'.i = Next1(i)
      /\ drain'.visited = drain.visited \cup {i}
      /\ drain' = [op |-> "drain", original_start |-> drain'.original_start,
                   i |-> drain'.i, visited |-> drain'.visited]
  BY <1>4 DEF Idle
<1>6. pos_is_empty(cells', start)
  BY <1>2, <1>3 DEF pos_is_empty
<1>7. KeepsValue => /\ drain.visited = {pos \in Occupied : Steps(start, pos) < Steps(start, i)}
                    /\ Occupied' = Occupied
  BY <1>2, <1>3 DEF DrainInv, start, i, Occupied
<1>8. i \in Occupied /\ \A pos \in Occupied : pos \in Positions
  BY <1>1, <1>2 DEF Occupied
<1>9. \A pos \in Occupied : Steps(start, pos) < Steps(start, Next1(i))
                              <=> pos = i \/ Steps(start, pos) < Steps(start, i)
  BY <1>2, <1>8, WalkSteps
<1>10. KeepsValue => drain'.visited =
          {pos \in Occupied' : Steps(start, pos) < Steps(start, Next1(i))}
  BY <1>5, <1>7, <1>8, <1>9
<1>11. KeepsValue => i \notin drain.visited
  BY <1>2, <1>7, WalkSteps
<1>12. DrainInv'
  <2>1. drain'.visited \subseteq Positions
    BY <1>2, <1>5 DEF DrainInv
  <2>2. QED
    BY <2>1, <1>2, <1>5, <1>6, <1>10 DEF DrainInv
<1>13. HasFree(cells')
  BY <1>2, <1>6 DEF HasFree
<1>14. IInv'
  BY <1>1, <1>2, <1>3, <1>12, <1>13 DEF IInv, AllValued
<1>15. QED
  BY <1>1, <1>2, <1>3, <1>5, <1>11, <1>14 DEF i

LEMMA EndDrainKeepsInv ==
  ASSUME IInv, EndDrain
  PROVE  /\ IInv' /\ call = Idle /\ drain # Idle /\ drain' = Idle /\ call' = call
         /\ cells' = Constructed /\ handed' = Nothing
         /\ KeepsValue => \A pos \in Positions \ drain.visited : pos_is_empty(cells, pos)
<1>1. /\ drain # Idle /\ drain.i = drain.original_start
      /\ drain' = Idle /\ cells' = Constructed /\ handed' = Nothing /\ call' = call
  BY DEF EndDrain
<1>2. DrainInv /\ call = Idle
  BY <1>1, DrainingIs
<1>3. AllValued(cells') /\ HasFree(cells')
  BY <1>1, ConstructedIsFree, SizeNat DEF HasFree, Positions
<1>4. ASSUME KeepsValue, NEW pos \in Positions \ drain.visited
      PROVE  pos_is_empty(cells, pos)
  <2>1. CASE pos = drain.original_start
    BY <2>1, <1>2 DEF DrainInv
  <2>2. CASE pos # drain.original_start
    <3>1. Steps(drain.original_start, pos) < Steps(drain.original_start, drain.i)
      BY <2>2, <1>1, <1>2, WalkSteps DEF DrainInv
    <3>2. QED
      BY <3>1, <1>2, <1>4 DEF DrainInv, Occupied
  <2>3. QED
    BY <2>1, <2>2
<1>5. QED
  BY <1>1, <1>2, <1>3, <1>4 DEF IInv

-------------------------------------------------------------------------------
(* Writing the array into a stream and reading it back.                    *)

LEMMA SerializeKeepsInv ==
  ASSUME IInv, Serialize
  PROVE  /\ IInv' /\ call = Idle /\ call'.op = "read" /\ call'.before = Contents
         /\ UNCHANGED <<drain, handed>>
<1>1. /\ call = Idle /\ drain = Idle
      /\ call' = [op |-> "read", in |-> written, before |-> Contents]
      /\ cells' = Constructed /\ drain' = drain /\ handed' = handed
  BY DEF Serialize, NoCall
<1>2. AllValued(cells) /\ HasFree(cells)
  BY <1>1 DEF IInv
<1>3. PICK array \in [Positions -> Valued] : array = cells
  BY <1>2 DEF AllValued
<1>4. /\ written = << Item(value_type, empty_value), Item(ArrayType, array) >>
      /\ Contents = [pos \in Positions |-> SlotOf(array, pos)]
      /\ HasFree(array)
  BY <1>2, <1>3, ContentsIsArray DEF written
<1>5. AllValued(cells')
  BY <1>1, ConstructedIsFree
<1>6. call' = [op |-> "read",
               in |-> << Item(value_type, empty_value), Item(ArrayType, array) >>,
               before |-> [pos \in Positions |-> SlotOf(array, pos)]]
  BY <1>1, <1>4
<1>7. ReadInv'
  BY <1>4, <1>5, <1>6 DEF ReadInv
<1>8. IInv'
  BY <1>1, <1>7 DEF IInv, Idle
<1>9. QED
  BY <1>1, <1>8

LEMMA DeserializeKeepsInv ==
  ASSUME IInv, Deserialize
  PROVE  /\ IInv' /\ call.op = "read" /\ call' = Idle /\ drain = Idle
         /\ Contents' = call.before
         /\ UNCHANGED <<drain, handed>>
<1>1. /\ call.op = "read" /\ cells' = ReadItem(call.in, 2, ArrayType) /\ call' = Idle
      /\ drain' = drain /\ handed' = handed
  BY DEF Deserialize
<1>2. ReadInv /\ drain = Idle
  BY <1>1 DEF IInv, Idle
<1>3. PICK array \in [Positions -> Valued] :
         /\ call = [op |-> "read",
                    in |-> << Item(value_type, empty_value), Item(ArrayType, array) >>,
                    before |-> [pos \in Positions |-> SlotOf(array, pos)]]
         /\ HasFree(array)
  BY <1>2 DEF ReadInv
<1>4. cells' = array
  <2>1. 2 \in DOMAIN call.in /\ call.in[2] = Item(ArrayType, array)
    BY <1>3
  <2>2. QED
    BY <1>1, <2>1, ReadsItem
<1>5. AllValued(cells') /\ HasFree(cells')
  BY <1>3, <1>4 DEF AllValued
<1>6. Contents' = call.before
  BY <1>3, <1>4 DEF Contents, SlotOf
<1>7. IInv'
  BY <1>1, <1>2, <1>5 DEF IInv
<1>8. QED
  BY <1>1, <1>2, <1>6, <1>7

-------------------------------------------------------------------------------
(* The invariant holds.                                                    *)

LEMMA NextKeepsInv == IInv /\ [Next]_vars => IInv'
<1> SUFFICES ASSUME IInv, [Next]_vars PROVE IInv'
  OBVIOUS
<1>1. CASE \E pos \in Positions, elem \in Elems : Put(pos, elem)
  BY <1>1, PutKeepsInv
<1>2. CASE \E from \in Positions, elem \in Elems : StartPutInFront(from, elem)
  BY <1>2, StartPutInFrontKeepsInv
<1>3. CASE StartDrain
  BY <1>3, StartDrainKeepsInv
<1>4. CASE Serialize
  BY <1>4, SerializeKeepsInv
<1>5. CASE Deserialize
  BY <1>5, DeserializeKeepsInv
<1>6. CASE Construct
  BY <1>6, ConstructKeepsInv
<1>7. CASE MoveOne
  BY <1>7, MoveOneKeepsInv
<1>8. CASE StartSecondPart
  BY <1>8, StartSecondPartKeepsInv
<1>9. CASE FinishPutInFront
  BY <1>9, FinishPutInFrontKeepsInv
<1>10. CASE SkipEmpty
  BY <1>10, SkipEmptyKeepsInv
<1>11. CASE Visit
  BY <1>11, VisitKeepsInv
<1>12. CASE EndDrain
  BY <1>12, EndDrainKeepsInv
<1>13. CASE UNCHANGED vars
  <2>1. cells' = cells /\ call' = call /\ drain' = drain
    BY <1>13 DEF vars
  <2>2. /\ ConstructInv' <=> ConstructInv
        /\ ShiftInv' <=> ShiftInv
        /\ ReadInv' <=> ReadInv
        /\ DrainInv' <=> DrainInv
    <3>1. ConstructInv' <=> ConstructInv
      BY <2>1 DEF ConstructInv, PutAtFree, PutAtRow
    <3>2. ShiftInv' <=> ShiftInv
      BY <2>1 DEF ShiftInv, PartInv, PartEnd, Wraps, SecondPartLeft, Shifted
    <3>3. ReadInv' <=> ReadInv
      BY <2>1 DEF ReadInv
    <3>4. DrainInv' <=> DrainInv
      BY <2>1 DEF DrainInv, Occupied
    <3>5. QED
      BY <3>1, <3>2, <3>3, <3>4
  <2>3. QED
    BY <2>1, <2>2 DEF IInv
<1>14. QED
  BY <1>1, <1>2, <1>3, <1>4, <1>5, <1>6, <1>7, <1>8, <1>9, <1>10, <1>11, <1>12, <1>13
  DEF Next, Continue

LEMMA Invariance == Spec => []IInv
<1>1. Init => IInv
  BY InitHasInv
<1>2. IInv /\ [Next]_vars => IInv'
  BY NextKeepsInv
<1>3. QED
  BY <1>1, <1>2, PTL DEF Spec

(* While no element is about to be constructed every cell has a value.     *)
LEMMA AllHaveValues ==
  ASSUME IInv
  PROVE  \/ call.op = "construct" /\ ConstructInv
         \/ call.op # "construct" /\ AllValued(cells)
BY DEF IInv, ShiftInv, ReadInv, Idle

(* The array always has all its positions, with a value or without one,    *)
(* and no drain begins inside an insertion.                                *)
THEOREM TypeCorrect == Spec => []TypeOK
<1> DEFINE Cell == [quot : Quots, val : Values \cup {empty_value, Uninitialized}]
<1>1. ASSUME IInv PROVE TypeOK
  <2>1. Valued \subseteq Cell /\ [quot : Quotients, val : {Uninitialized}] \subseteq Cell
    BY DEF Valued, Quots
  <2>2. cells \in [Positions -> Cell]
    <3>1. CASE call.op = "construct" /\ ConstructInv
      <4>1. \A pos \in Positions : cells[pos] \in Cell
        BY <2>1, <3>1 DEF ConstructInv
      <4>2. cells = [pos \in Positions |-> cells[pos]]
        BY <3>1 DEF ConstructInv
      <4>3. QED
        BY <4>1, <4>2
    <3>2. CASE AllValued(cells)
      BY <2>1, <3>2 DEF AllValued
    <3>3. QED
      BY <1>1, <3>1, <3>2, AllHaveValues
  <2>3. QED
    BY <1>1, <2>2 DEF TypeOK, IInv, Quots
<1>2. QED
  BY <1>1, Invariance, PTL

(* The life of the values is in order: between two calls every position    *)
(* holds one, and inside a call all but the one that is about to be        *)
(* constructed, whether moving from a value leaves it as it was or not     *)
(* (plain_sentinel_t, move_out to allocate_pos).                           *)
THEOREM LifeCycle == Spec => []OnlyNewIsUninitialized
<1>1. ASSUME IInv PROVE OnlyNewIsUninitialized
  <2>1. \A cell \in Valued : cell.val # Uninitialized
    BY ValuedCells
  <2>2. CASE call.op = "construct" /\ ConstructInv
    <3>1. call.location \in Positions /\ cells[call.location].val = Uninitialized
      BY <2>2 DEF ConstructInv
    <3>2. \A pos \in Positions \ {call.location} : cells[pos].val # Uninitialized
      BY <2>1, <2>2 DEF ConstructInv
    <3>3. QED
      BY <2>2, <3>1, <3>2 DEF OnlyNewIsUninitialized
  <2>3. CASE call.op # "construct" /\ AllValued(cells)
    BY <2>1, <2>3 DEF OnlyNewIsUninitialized, AllValued
  <2>4. QED
    BY <1>1, <2>2, <2>3, AllHaveValues
<1>2. QED
  BY <1>1, Invariance, PTL

(* sparse_shift "shifts all elements one to the right": with values that   *)
(* keep their value when they are moved from, every element of the run     *)
(* that an element is put in front of ends one position further, also      *)
(* around the end of the table.                                            *)
THEOREM ShiftsRuns ==
  ASSUME KeepsValue
  PROVE  Spec => []ShiftsOneToTheRight
<1>1. ASSUME IInv PROVE ShiftsOneToTheRight
  <2> DEFINE loc == call.location
             before == call.before
             S == {k \in Positions : before[mod_add(TableSize, loc, k)] = EMPTY}
             m == Min(S)
  <2> SUFFICES ASSUME call.op = "construct", before[loc] # EMPTY
               PROVE  \A k \in 1..m : cells[mod_add(TableSize, loc, k)]
                                        = before[mod_add(TableSize, loc, k - 1)]
    BY DEF ShiftsOneToTheRight
  <2>1. ConstructInv
    BY <1>1, AllHaveValues
  <2>2. PICK to \in Positions : PutAtRow(to)
    BY <2>1 DEF ConstructInv, PutAtFree
  <2>3. /\ loc \in Positions /\ to # loc /\ before[to] = EMPTY
        /\ \A pos \in Positions : Dist(loc, pos) < Dist(loc, to) => before[pos] # EMPTY
        /\ \A pos \in Positions \ {loc} : Dist(loc, pos) <= Dist(loc, to)
             => SlotOf(cells, pos) = before[Prev1(pos)]
    BY <2>1, <2>2 DEF PutAtRow, IsRow, ConstructInv
  <2>4. /\ \A pos \in Positions \ {loc} : cells[pos] \in Valued
    BY <2>1 DEF ConstructInv
  <2> HIDE DEF loc, before
  <2> DEFINE d == Dist(loc, to)
  <2>5. d \in Positions /\ d \in S
    <3>1. d \in Positions /\ mod_add(TableSize, loc, d) = to
      BY <2>3, Around
    <3>2. QED
      BY <3>1, <2>3
  <2>6. \A k \in Positions : k < d => before[mod_add(TableSize, loc, k)] # EMPTY
    BY <2>3, Around
  <2>7. \A k \in S : d <= k
    <3> SUFFICES ASSUME NEW k \in S PROVE d <= k
      OBVIOUS
    <3>1. k \in Positions /\ before[mod_add(TableSize, loc, k)] = EMPTY
      OBVIOUS
    <3> HIDE DEF S, d
    <3>2. k \in Positions /\ d \in Positions /\ ~(k < d)
      BY <2>5, <2>6, <3>1
    <3>3. QED
      BY <3>2, SizeNat DEF Positions
  <2>8. m = d
    <3>1. S \subseteq Nat
      BY DEF Positions
    <3> HIDE DEF S, d, m
    <3>2. m \in S /\ \A k \in S : m <= k
      BY <2>5, <3>1, MinOfNaturals DEF m
    <3>3. m \in Nat /\ d \in Nat /\ m <= d /\ d <= m
      BY <2>5, <2>7, <3>1, <3>2
    <3>4. QED
      BY <3>3
  <2>9. ASSUME NEW k \in 1..d
        PROVE  cells[mod_add(TableSize, loc, k)] = before[mod_add(TableSize, loc, k - 1)]
    <3> DEFINE pos == mod_add(TableSize, loc, k)
    <3>1. k \in Positions /\ k - 1 \in Positions /\ k - 1 < d /\ k # 0
      BY <2>5, <2>9, SizeNat DEF Positions
    <3>2. pos \in Positions /\ Dist(loc, pos) = k /\ Dist(loc, loc) = 0
      <4>1. pos \in Positions /\ Dist(loc, pos) = k
        BY <2>3, <3>1, Around
      <4>2. Dist(loc, loc) = 0
        BY <2>3, SizeNat DEF Dist, mod_sub, Positions
      <4>3. QED
        BY <4>1, <4>2
    <3>3. Prev1(pos) = mod_add(TableSize, loc, k - 1)
      BY <2>3, <3>1, SizeNat DEF Prev1, mod_add, mod_sub, Positions
    <3>4. before[Prev1(pos)] # EMPTY
      BY <2>6, <3>1, <3>3
    <3> HIDE DEF pos
    <3>5. pos # loc /\ Dist(loc, pos) <= Dist(loc, to)
      BY <2>9, <3>1, <3>2 DEF d
    <3>6. SlotOf(cells, pos) = before[Prev1(pos)]
      BY <2>3, <3>2, <3>5
    <3>7. SlotOf(cells, pos) = cells[pos]
      BY <2>4, <3>2, <3>4, <3>5, <3>6, SlotIs
    <3>8. QED
      BY <3>3, <3>6, <3>7 DEF pos
  <2>10. QED
    BY <2>8, <2>9
<1>2. QED
  BY <1>1, Invariance, PTL

-------------------------------------------------------------------------------
(* The cells are an array of positions (SlotArray).                        *)

LEMMA BehindIsDist ==
  ASSUME NEW from \in Positions, NEW pos \in Positions
  PROVE  /\ A!Behind(from, pos) = Dist(from, pos)
         /\ (pos - 1) % TableSize = Prev1(pos)
<1>1. \A x \in Positions : x % TableSize = x
  BY SizeNat DEF Positions
<1>2. \A x \in (1 - TableSize)..(-1) : x % TableSize = x + TableSize
  BY SizeNat
<1>3. (pos - from) % TableSize = Dist(from, pos)
  <2>1. CASE pos >= from
    BY <1>1, <2>1, SizeNat DEF Positions, Dist, mod_sub
  <2>2. CASE pos < from
    BY <1>2, <2>2, SizeNat DEF Positions, Dist, mod_sub
  <2>3. QED
    BY <2>1, <2>2 DEF Positions
<1>4. (pos - 1) % TableSize = Prev1(pos)
  <2>1. CASE pos >= 1
    BY <1>1, <2>1, SizeNat DEF Positions, Prev1, mod_sub
  <2>2. CASE pos < 1
    BY <1>2, <2>2, SizeNat DEF Positions, Prev1, mod_sub
  <2>3. QED
    BY <2>1, <2>2 DEF Positions
<1>5. QED
  BY <1>3, <1>4 DEF A!Behind

(* The variables of the array.                                             *)
Slot    == IF call = Idle THEN Contents ELSE call.before
Drained == IF drain = Idle THEN {-1} ELSE drain.visited

(* The end of an insertion puts the element: at a free position, or in     *)
(* front of a row.                                                         *)
LEMMA ConstructPuts ==
  ASSUME KeepsValue, IInv, Construct
  PROVE  A!Next
<1>1. /\ ConstructInv /\ call.op = "construct" /\ call' = Idle /\ drain = Idle
      /\ drain' = drain /\ handed' = handed /\ AllValued(cells')
      /\ cells'[call.location] \in Elems
      /\ \A pos \in Positions \ {call.location} : cells'[pos] = cells[pos]
  BY ConstructKeepsInv
<1>2. PICK loc \in Positions : loc = call.location
  BY <1>1 DEF ConstructInv
<1>3. PICK elem \in Elems : elem = cells'[loc]
  BY <1>1, <1>2
<1> DEFINE before == call.before
<1>4. /\ Slot = before /\ Slot' = Contents' /\ before \in [Positions -> InUse \cup {EMPTY}]
      /\ Drained = {-1} /\ Drained' = {-1}
  BY <1>1 DEF Slot, Drained, Idle, ConstructInv, IsArray
<1>5. elem.val # empty_value
  BY EmptyValueAssumption DEF Elems
<1>6. Contents' = [pos \in Positions |-> IF pos = loc THEN elem ELSE SlotOf(cells, pos)]
  BY <1>1, <1>2, <1>3, <1>5 DEF Contents, SlotOf, pos_is_empty
<1>7. CASE PutAtFree
  <2>1. before[loc] = EMPTY /\ \A pos \in Positions \ {loc} : SlotOf(cells, pos) = before[pos]
    BY <1>2, <1>7 DEF PutAtFree
  <2>2. Slot' = [Slot EXCEPT ![loc] = elem]
    BY <1>4, <1>6, <2>1
  <2>3. A!Put(loc, elem)
    BY <1>1, <1>4, <2>1, <2>2 DEF A!Put, A!NotDraining, Slot, Drained
  <2>4. QED
    BY <2>3 DEF A!Next, A!Positions, Positions
<1>8. CASE \E to \in Positions : PutAtRow(to)
  <2>1. PICK to \in Positions : PutAtRow(to)
    BY <1>8
  <2>2. /\ before[to] = EMPTY
        /\ \A pos \in Positions : Dist(loc, pos) < Dist(loc, to) => before[pos] # EMPTY
        /\ \A pos \in Positions \ {loc} :
              SlotOf(cells, pos) = IF Dist(loc, pos) <= Dist(loc, to)
                                   THEN before[Prev1(pos)] ELSE before[pos]
    BY <1>2, <2>1 DEF PutAtRow, IsRow
  <2>3. \A pos \in Positions : /\ A!Behind(loc, pos) = Dist(loc, pos)
                               /\ (pos - 1) % TableSize = Prev1(pos)
    BY BehindIsDist
  <2> HIDE DEF before
  <2>4. Slot' = [pos \in Positions |->
                   IF pos = loc THEN elem
                   ELSE IF A!Behind(loc, pos) <= A!Behind(loc, to)
                        THEN Slot[(pos - 1) % TableSize] ELSE Slot[pos]]
    BY <1>4, <1>6, <2>2, <2>3
  <2>5. \A pos \in Positions : A!Behind(loc, pos) < A!Behind(loc, to) => Slot[pos] # EMPTY
    BY <1>4, <2>2, <2>3
  <2>6. Slot[to] = EMPTY
    BY <1>4, <2>2
  <2>7. A!Positions = Positions
    BY DEF A!Positions, Positions
  <2>8. A!PutInFront(loc, to, elem)
    BY <1>1, <1>4, <2>4, <2>5, <2>6, <2>7 DEF A!PutInFront, A!NotDraining, Slot, Drained
  <2>9. QED
    BY <2>7, <2>8 DEF A!Next
<1>9. QED
  BY <1>1, <1>7, <1>8 DEF ConstructInv

(* A drain hands out every element once.                                   *)
LEMMA DrainHandsOut ==
  ASSUME KeepsValue, IInv, StartDrain \/ SkipEmpty \/ Visit \/ EndDrain
  PROVE  A!Next \/ UNCHANGED <<Slot, Drained, handed>>
<1>1. CASE StartDrain
  <2>1. /\ call = Idle /\ drain = Idle /\ call' = Idle /\ drain' # Idle
        /\ drain'.visited = {} /\ cells' = cells /\ handed' = handed
    BY <1>1, StartDrainKeepsInv
  <2>2. /\ Drained = {-1} /\ Drained' = {} /\ Slot' = Slot
    BY <2>1 DEF Drained, Slot, Contents, pos_is_empty
  <2>3. A!StartDrain
    BY <2>1, <2>2 DEF A!StartDrain, A!NotDraining, Slot, Drained
  <2>4. QED
    BY <2>3 DEF A!Next
<1>2. CASE SkipEmpty
  <2>1. /\ call = Idle /\ drain # Idle /\ drain' # Idle /\ drain'.visited = drain.visited
        /\ cells' = cells /\ call' = call /\ handed' = handed
    BY <1>2, SkipEmptyKeepsInv
  <2>2. QED
    BY <2>1 DEF Drained, Slot, Contents, pos_is_empty
<1>3. CASE Visit
  <2>1. /\ call = Idle /\ drain # Idle /\ drain' # Idle /\ call' = call
        /\ drain.i \in Positions /\ ~pos_is_empty(cells, drain.i)
        /\ handed' = <<drain.i, cells[drain.i]>>
        /\ drain'.visited = drain.visited \cup {drain.i}
        /\ cells' = cells /\ drain.i \notin drain.visited
    BY <1>3, VisitKeepsInv
  <2>2. PICK pos \in Positions : pos = drain.i
    BY <2>1
  <2>3. DrainInv /\ AllValued(cells)
    BY <2>1, DrainingIs
  <2>4. Drained = drain.visited /\ Drained' = Drained \cup {pos} /\ Drained # {-1}
    <3>1. -1 \notin Positions /\ drain.visited \subseteq Positions
      BY <2>3, SizeNat DEF DrainInv, Positions
    <3>2. QED
      BY <2>1, <2>2, <3>1 DEF Drained
  <2>5. /\ Slot = [p \in Positions |-> SlotOf(cells, p)] /\ Slot' = Slot
        /\ Slot[pos] = cells[pos] /\ Slot[pos] # EMPTY
    <3>1. Slot = Contents /\ Contents' = Contents /\ Slot' = Contents'
      BY <2>1 DEF Slot, Contents, pos_is_empty
    <3>2. Contents = [p \in Positions |-> SlotOf(cells, p)]
      BY <2>3, ContentsIsArray
    <3>3. SlotOf(cells, pos) = cells[pos] /\ SlotOf(cells, pos) # EMPTY
      BY <2>1, <2>2, <2>3, SlotIs DEF AllValued
    <3>4. QED
      BY <3>1, <3>2, <3>3
  <2>6. A!Positions = Positions
    BY DEF A!Positions, Positions
  <2>7. \E freed \in SUBSET Drained' :
           Slot' = [p \in Positions |-> IF p \in freed THEN EMPTY ELSE Slot[p]]
    <3>1. PICK freed \in SUBSET Drained' : freed = {}
      OBVIOUS
    <3>2. Slot' = [p \in Positions |-> IF p \in freed THEN EMPTY ELSE Slot[p]]
      BY <2>5, <3>1
    <3>3. QED
      BY <3>2
  <2>8. A!HandOut(pos)
    BY <2>1, <2>2, <2>4, <2>5, <2>6, <2>7 DEF A!HandOut, A!NotDraining, Slot, Drained
  <2>9. QED
    BY <2>6, <2>8 DEF A!Next
<1>4. CASE EndDrain
  <2>1. /\ call = Idle /\ drain # Idle /\ drain' = Idle /\ call' = call
        /\ cells' = Constructed /\ handed' = Nothing
        /\ \A pos \in Positions \ drain.visited : pos_is_empty(cells, pos)
    BY <1>4, EndDrainKeepsInv
  <2>2. DrainInv /\ AllValued(cells)
    BY <2>1, DrainingIs
  <2>3. Drained = drain.visited /\ Drained' = {-1} /\ Drained # {-1}
    <3>1. -1 \notin Positions /\ drain.visited \subseteq Positions
      BY <2>2, SizeNat DEF DrainInv, Positions
    <3>2. QED
      BY <2>1, <3>1 DEF Drained
  <2>4. \A pos \in Positions \ Drained : Slot[pos] = EMPTY
    BY <2>1, <2>2, <2>3, ContentsIsArray DEF Slot
  <2>5. Slot' = [pos \in Positions |-> EMPTY]
    BY <2>1, ConstructedIsFree DEF Slot, Contents
  <2>6. A!Positions = Positions /\ A!Nothing = Nothing
    BY DEF A!Positions, Positions, A!Nothing, Nothing
  <2>7. A!EndDrain
    BY <2>1, <2>3, <2>4, <2>5, <2>6 DEF A!EndDrain, A!NotDraining, Slot, Drained
  <2>8. QED
    BY <2>7 DEF A!Next
<1>5. QED
  BY <1>1, <1>2, <1>3, <1>4

(* Everything else happens inside a call, and changes nothing of the       *)
(* array.                                                                  *)
LEMMA InsideACall ==
  ASSUME IInv,
         \/ \E pos \in Positions, elem \in Elems : Put(pos, elem)
         \/ \E from \in Positions, elem \in Elems : StartPutInFront(from, elem)
         \/ Serialize \/ Deserialize \/ MoveOne \/ StartSecondPart \/ FinishPutInFront
         \/ UNCHANGED vars
  PROVE  UNCHANGED <<Slot, Drained, handed>>
<1>1. CASE \/ \E pos \in Positions, elem \in Elems : Put(pos, elem)
           \/ \E from \in Positions, elem \in Elems : StartPutInFront(from, elem)
           \/ Serialize
  <2>1. /\ call = Idle /\ call'.before = Contents /\ drain' = drain /\ handed' = handed
        /\ call'.op \in {"construct", "shift", "read"}
    BY <1>1, PutKeepsInv, StartPutInFrontKeepsInv, SerializeKeepsInv
  <2>2. QED
    BY <2>1 DEF Slot, Drained, Idle
<1>2. CASE Deserialize
  <2>1. /\ call.op = "read" /\ call' = Idle /\ Contents' = call.before
        /\ drain' = drain /\ handed' = handed
    BY <1>2, DeserializeKeepsInv
  <2>2. QED
    BY <2>1 DEF Slot, Drained, Idle
<1>3. CASE MoveOne \/ StartSecondPart \/ FinishPutInFront
  <2>1. /\ call.op = "shift" /\ call'.op \in {"construct", "shift"}
        /\ call'.before = call.before /\ drain' = drain /\ handed' = handed
    BY <1>3, MoveOneKeepsInv, StartSecondPartKeepsInv, FinishPutInFrontKeepsInv
  <2>2. QED
    BY <2>1 DEF Slot, Drained, Idle
<1>4. CASE UNCHANGED vars
  BY <1>4 DEF vars, Slot, Drained, Contents, pos_is_empty
<1>5. QED
  BY <1>1, <1>2, <1>3, <1>4

(* With values that keep their value when they are moved from, the cells   *)
(* are an array of positions: every insertion, with all the steps of its   *)
(* shift, and every step of a drain, is one of the array, and writing and  *)
(* reading it changes nothing of it.                                       *)
THEOREM IsSlotArray ==
  ASSUME KeepsValue
  PROVE  Spec => RefinesSlotArray
<1>1. Init => A!Init
  <2> SUFFICES ASSUME Init PROVE A!Init
    OBVIOUS
  <2>1. Contents = [pos \in Positions |-> EMPTY]
    BY ConstructedIsFree DEF Init, Contents
  <2>2. QED
    BY <2>1 DEF Init, A!Init, A!Positions, A!NotDraining, A!Nothing, Positions, Nothing
<1>2. IInv /\ [Next]_vars => [A!Next]_(A!vars)
  <2> SUFFICES ASSUME IInv, [Next]_vars PROVE A!Next \/ UNCHANGED <<Slot, Drained, handed>>
    BY DEF A!vars, Slot, Drained
  <2>1. CASE Construct
    BY <2>1, ConstructPuts
  <2>2. CASE StartDrain \/ SkipEmpty \/ Visit \/ EndDrain
    BY <2>2, DrainHandsOut
  <2>3. QED
    BY <2>1, <2>2, InsideACall DEF Next, Continue
<1>3. QED
  BY <1>1, <1>2, Invariance, PTL DEF Spec, RefinesSlotArray, A!Spec
==============================================================================
