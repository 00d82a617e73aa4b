------------------------- MODULE BucketStorageProofs -------------------------
(***************************************************************************)
(* Proofs about BucketStorage, for every table size and bucket width.  The *)
(* first half is about one state of the buckets: if the blocks fit the bit *)
(* vectors (WellFormed), then reading and writing through pointers, a new  *)
(* block with one more element, and an iterator's step to the element      *)
(* before are what they should be on the array that the buckets stand for  *)
(* (Array).  The second half follows each call through its steps on that   *)
(* array.                                                                  *)
(***************************************************************************)
EXTENDS BucketStorage, SizeManagerProofs, FiniteSetTheorems

(* What can be in a place of a block.                                      *)
States == Elems \cup {Raw, Moved}

Bucket == [bv : SUBSET (0..(BucketWidth - 1)), data : Seq(States)]

PositionIn(b, i) == b * BucketWidth + i

(* Every bit is that of a position, and every bit has its place.           *)
WellFormed(bs) ==
    /\ bs \in [Buckets -> Bucket]
    /\ \A b \in Buckets : Len(bs[b].data) = Cardinality(bs[b].bv)
    /\ \A b \in Buckets : \A i \in bs[b].bv : PositionIn(b, i) \in Positions

(* The array that the buckets stand for.                                   *)
Array(bs) == [pos \in Positions |-> Element(bs, pos)]

Bits(bs) == [b \in Buckets |-> bs[b].bv]

(* The bits before a bit.                                                  *)
Below(S, i) == {j \in S : j < i}
-------------------------------------------------------------------------------
(* The inductive invariant.                                                *)

Next1(pos) == mod_add(TableSize, pos, 1)
Prev1(pos) == mod_sub(TableSize, pos, 1)

(* How far pos is behind from, around the end of the table.                *)
Dist(from, pos) == mod_sub(TableSize, pos, from)

Slots == Elems \cup {EMPTY}

IsArray(array) == array \in [Positions -> Slots]

HasFree(array) == \E pos \in Positions : array[pos] = EMPTY

Cells == Array(buckets)

(* The row of elements that an element is put in front of.                 *)
IsRow(array, from, to) ==
    /\ array[to] = EMPTY
    /\ \A pos \in Positions : Dist(from, pos) < Dist(from, to) => array[pos] # EMPTY

(* A new element is about to be constructed at call.location, where a      *)
(* position was free before, or which the row behind it left.              *)
PutAtFree ==
    /\ call.before[call.location] = EMPTY
    /\ \A pos \in Positions \ {call.location} : Cells[pos] = call.before[pos]

PutAtRow(to) ==
    /\ to # call.location
    /\ IsRow(call.before, call.location, to)
    /\ \A pos \in Positions \ {call.location} :
          Cells[pos] = IF Dist(call.location, pos) <= Dist(call.location, to)
                       THEN call.before[Prev1(pos)] ELSE call.before[pos]

ConstructInv ==
    /\ call = [op |-> "construct", location |-> call.location, elem |-> call.elem,
               before |-> call.before]
    /\ call.location \in Positions /\ call.elem \in Elems
    /\ Cells[call.location] = Raw
    /\ \A pos \in Positions \ {call.location} : Cells[pos] \in Slots
    /\ \E pos \in Positions \ {call.location} : Cells[pos] = EMPTY
    /\ IsArray(call.before)
    /\ PutAtFree \/ \E to \in Positions : PutAtRow(to)

(* The part [lo, hi) of the row that is being shifted.                     *)
Wraps   == call.to < call.from
PartEnd == IF call.part.lo = call.from /\ Wraps THEN TableSize ELSE call.to

(* What a position holds when the iterator that reads is on s: what was in *)
(* front of it, if the iterators have passed it; the second part of a row  *)
(* that wraps around starts with the first part done.                      *)
Shifted(s, pos) ==
    LET before == call.before IN
    IF s < pos /\ pos < PartEnd THEN before[pos - 1]
    ELSE IF call.part.lo # call.from /\ pos >= call.from
         THEN before[IF pos = call.from THEN TableSize - 1 ELSE pos - 1]
         ELSE before[pos]

(* The iterators are on s, which was moved from, and on the position after.*)
Reading(s) ==
    /\ call.part.src = make_iter(buckets, s)
    /\ call.part.dst = make_iter(buckets, s + 1)
    /\ Cells[s] = Moved
    /\ \A pos \in Positions \ {s} : Cells[pos] = Shifted(s, pos)

ShiftInv ==
    /\ call = [op |-> "shift", from |-> call.from, to |-> call.to, elem |-> call.elem,
               before |-> call.before, part |-> call.part]
    /\ call.from \in Positions /\ call.to \in Positions /\ call.from # call.to
    /\ call.elem \in Elems
    /\ IsArray(call.before)
    /\ IsRow(call.before, call.from, call.to)
    /\ \E pos \in Positions : /\ call.before[pos] = EMPTY
                              /\ Dist(call.from, call.to) < Dist(call.from, pos)
    /\ call.part = [lo |-> call.part.lo, tmp |-> call.part.tmp, src |-> call.part.src,
                    dst |-> call.part.dst]
    /\ call.part.lo = call.from \/ (call.part.lo = 0 /\ Wraps /\ call.to > 0)
    /\ call.part.tmp = call.before[PartEnd - 1]
    /\ \E s \in call.part.lo..(PartEnd - 1) : Reading(s)

ReadInv ==
    /\ call = [op |-> "read", in |-> call.in, before |-> call.before]
    /\ WellFormed(read(call.in)) /\ Array(read(call.in)) = call.before
    /\ IsArray(call.before) /\ HasFree(call.before)
    /\ Cells = [pos \in Positions |-> EMPTY]

(* After how many steps the walk of a drain is at a position.              *)
Steps(start, pos) == IF pos = start THEN TableSize ELSE Dist(start, pos)

WalkedBy(pos) == Steps(drain.original_start, pos) < Steps(drain.original_start, drain.i)

(* Behind the walk nothing is left but what was moved from; from where it  *)
(* is all is as it was.                                                    *)
DrainInv ==
    /\ drain = [op |-> "drain", original_start |-> drain.original_start, i |-> drain.i,
                drain_start |-> drain.drain_start, visited |-> drain.visited]
    /\ drain.original_start \in Positions /\ drain.i \in Positions
    /\ Cells[drain.original_start] = EMPTY
    /\ drain.visited \subseteq {pos \in Positions : WalkedBy(pos)}
    /\ \A pos \in Positions :
          IF WalkedBy(pos)
          THEN Cells[pos] = EMPTY \/ (Cells[pos] = Moved /\ pos \in drain.visited)
          ELSE Cells[pos] \in Slots

(* What the freeing of buckets relies on: drain_start is the first element *)
(* of the bucket of the last position, or the drain is still in the bucket *)
(* that it began in.                                                       *)
TrimInv ==
    LET last  == handed[1]
        first == idx_of_bucket(Next1(drain.original_start))
    IN  IF drain.visited = {} THEN drain.drain_start = NoPosition
        ELSE /\ drain.drain_start \in drain.visited /\ last \in drain.visited
             /\ idx_of_bucket(drain.drain_start) = idx_of_bucket(last)
             /\ offset_in_bucket(buckets, drain.drain_start) # 0 =>
                   idx_of_bucket(drain.drain_start) = first
             /\ \A pos \in drain.visited :
                  /\ Steps(drain.original_start, pos) <= Steps(drain.original_start, last)
                  /\ Cells[pos] # EMPTY => idx_of_bucket(pos) \in {idx_of_bucket(last), first}

IInv ==
    /\ WellFormed(buckets)
    /\ call = Idle \/ drain = Idle
    /\ NoCall => IsArray(Cells) /\ HasFree(Cells)
    /\ call # Idle => \/ call.op = "construct" /\ ConstructInv
                      \/ call.op = "shift" /\ ShiftInv
                      \/ call.op = "read" /\ ReadInv
    /\ drain # Idle => DrainInv /\ TrimInv
-------------------------------------------------------------------------------
(* Positions in buckets.                                                   *)

LEMMA SizeNat ==
  /\ TableSize \in Nat /\ TableSize >= 2 /\ MaxEntries \in 1..(TableSize - 1)
  /\ BucketWidth \in Nat \ {0}
<1>1. TableSize \in Nat
  BY TableSizeAssumption, CapacityFromLog2
<1>2. QED
  BY <1>1, TableSizeAssumption, MaxEntriesAssumption, BucketWidthAssumption

LEMMA Divided ==
  ASSUME NEW width \in Nat \ {0}, NEW pos \in Nat
  PROVE  /\ pos \div width \in Nat /\ pos % width \in 0..(width - 1)
         /\ pos = (pos \div width) * width + (pos % width)
BY SMT

LEMMA Multiplied ==
  ASSUME NEW width \in Nat \ {0}, NEW b \in Nat, NEW c \in Nat, b < c
  PROVE  b * width + width <= c * width
<1>1. PICK d \in Nat : c = b + 1 + d
  <2>1. c - b - 1 \in Nat /\ c = b + 1 + (c - b - 1)
    OBVIOUS
  <2>2. QED
    BY <2>1
<1>2. c * width = b * width + width + d * width /\ d * width \in Nat /\ b * width \in Nat
  BY <1>1, SMT
<1>3. QED
  BY <1>2

(* The order of the positions is that of their buckets, and inside of a    *)
(* bucket that of their bits.                                              *)
LEMMA PositionOrder ==
  ASSUME NEW p \in Nat, NEW q \in Nat
  PROVE  /\ idx_of_bucket(p) \in Nat /\ idx_inside_bucket(p) \in 0..(BucketWidth - 1)
         /\ PositionIn(idx_of_bucket(p), idx_inside_bucket(p)) = p
         /\ p < q <=> \/ idx_of_bucket(p) < idx_of_bucket(q)
                      \/ /\ idx_of_bucket(p) = idx_of_bucket(q)
                         /\ idx_inside_bucket(p) < idx_inside_bucket(q)
<1> DEFINE w == BucketWidth
           b == idx_of_bucket(p)
           i == idx_inside_bucket(p)
           c == idx_of_bucket(q)
           j == idx_inside_bucket(q)
<1>1. w \in Nat \ {0}
  BY SizeNat
<1>2. b \in Nat /\ i \in 0..(w - 1) /\ p = b * w + i
  BY <1>1, Divided DEF idx_of_bucket, idx_inside_bucket
<1>3. c \in Nat /\ j \in 0..(w - 1) /\ q = c * w + j
  BY <1>1, Divided DEF idx_of_bucket, idx_inside_bucket
<1>4. b < c => b * w + w <= c * w
  BY <1>1, <1>2, <1>3, Multiplied
<1>5. c < b => c * w + w <= b * w
  BY <1>1, <1>2, <1>3, Multiplied
<1>6. b * w \in Nat /\ c * w \in Nat
  BY <1>1, <1>2, <1>3, SMT
<1>7. p = PositionIn(b, i)
  BY <1>2 DEF PositionIn
<1> HIDE DEF b, c, i, j, w
<1>8. b < c => p < q
  BY <1>1, <1>2, <1>3, <1>4, <1>6
<1>9. c < b => q < p
  BY <1>1, <1>2, <1>3, <1>5, <1>6
<1>10. b = c => (p < q <=> i < j)
  BY <1>1, <1>2, <1>3, <1>6
<1>11. p < q <=> b < c \/ (b = c /\ i < j)
  BY <1>2, <1>3, <1>8, <1>9, <1>10
<1>12. QED
  BY <1>1, <1>2, <1>7, <1>11 DEF b, c, i, j, w

LEMMA PositionOfBit ==
  ASSUME NEW b \in Nat, NEW i \in 0..(BucketWidth - 1)
  PROVE  /\ PositionIn(b, i) \in Nat
         /\ idx_of_bucket(PositionIn(b, i)) = b /\ idx_inside_bucket(PositionIn(b, i)) = i
<1>1. PositionIn(b, i) = b * BucketWidth + i /\ BucketWidth \in Nat \ {0}
  BY SizeNat DEF PositionIn
<1>2. b * BucketWidth + i \in Nat
  BY <1>1, SMT
<1>3. (b * BucketWidth + i) \div BucketWidth = b /\ (b * BucketWidth + i) % BucketWidth = i
  BY <1>1, SMT
<1>4. QED
  BY <1>1, <1>2, <1>3 DEF idx_of_bucket, idx_inside_bucket

LEMMA BucketOfPosition ==
  /\ buckets_size \in Nat \ {0} /\ Buckets \subseteq Nat
  /\ \A p \in Positions : p \in Nat /\ idx_of_bucket(p) \in Buckets
<1> DEFINE w == BucketWidth
           n == buckets_size
           m == TableSize + w - 1
<1>1. w \in Nat \ {0} /\ TableSize \in Nat /\ TableSize >= 2 /\ m \in Nat /\ m >= w
  BY SizeNat
<1>2. n \in Nat /\ m % w \in 0..(w - 1) /\ m = n * w + (m % w)
  BY <1>1, Divided DEF buckets_size
<1>3. n # 0
  <2> SUFFICES ASSUME n = 0 PROVE FALSE
    OBVIOUS
  <2>1. n * w = 0
    BY <1>1
  <2> HIDE DEF n, m, w
  <2>2. QED
    BY <2>1, <1>1, <1>2
<1>4. ASSUME NEW p \in Positions PROVE p \in Nat /\ idx_of_bucket(p) \in Buckets
  <2> DEFINE b == p \div w
  <2>1. p \in Nat /\ p <= TableSize - 1
    BY <1>1 DEF Positions
  <2>2. b \in Nat /\ p % w \in 0..(w - 1) /\ p = b * w + (p % w)
    BY <1>1, <2>1, Divided
  <2>3. n <= b => n * w <= b * w
    <3>1. n < b => n * w + w <= b * w
      BY <1>1, <1>2, <2>2, Multiplied
    <3>2. n * w \in Nat /\ b * w \in Nat
      BY <1>1, <1>2, <2>2, SMT
    <3>3. n \in Nat /\ b \in Nat
      BY <1>2, <2>2
    <3> HIDE DEF n, b, w
    <3>4. n <= b => n < b \/ n = b
      BY <3>3
    <3>5. w \in Nat
      BY <1>1
    <3>6. QED
      BY <3>1, <3>2, <3>4, <3>5
  <2>4. n * w \in Nat /\ b * w \in Nat
    BY <1>1, <1>2, <2>2, SMT
  <2>5. b < n
    <3>1. m = TableSize + w - 1
      OBVIOUS
    <3> HIDE DEF n, m, b, w
    <3>2. QED
      BY <3>1, <1>1, <1>2, <2>1, <2>2, <2>3, <2>4
  <2>6. QED
    BY <2>1, <2>2, <2>5, <1>2 DEF idx_of_bucket, Buckets
<1>5. QED
  BY <1>2, <1>3, <1>4 DEF Buckets
-------------------------------------------------------------------------------
(* Ranks of bits.                                                          *)

LEMMA BelowCounts ==
  ASSUME NEW S \in SUBSET (0..(BucketWidth - 1)), NEW i \in Nat
  PROVE  /\ IsFiniteSet(S) /\ Cardinality(S) \in Nat
         /\ IsFiniteSet(Below(S, i)) /\ Cardinality(Below(S, i)) \in 0..Cardinality(S)
         /\ i \in S => Cardinality(Below(S, i)) < Cardinality(S)
         /\ \A j \in Nat : /\ i <= j => Cardinality(Below(S, i)) <= Cardinality(Below(S, j))
                           /\ i \in S /\ i < j =>
                                Cardinality(Below(S, i)) < Cardinality(Below(S, j))
<1>1. IsFiniteSet(0..(BucketWidth - 1))
  BY SizeNat, FS_Interval
<1>2. IsFiniteSet(S) /\ Cardinality(S) \in Nat
  BY <1>1, FS_Subset, FS_CardinalityType
<1>3. \A T : T \subseteq S =>
         IsFiniteSet(T) /\ Cardinality(T) \in Nat /\ Cardinality(T) <= Cardinality(S)
  BY <1>2, FS_Subset, FS_CardinalityType
<1>4. IsFiniteSet(Below(S, i)) /\ Cardinality(Below(S, i)) \in 0..Cardinality(S)
  <2>1. Below(S, i) \subseteq S
    BY DEF Below
  <2>2. QED
    BY <1>2, <1>3, <2>1
<1>5. ASSUME NEW T \in SUBSET S, Below(S, i) \subseteq T, i \in T
      PROVE  Cardinality(Below(S, i)) < Cardinality(T)
  <2>1. i \notin Below(S, i) /\ IsFiniteSet(Below(S, i))
    BY <1>4, SizeNat DEF Below
  <2>2. Cardinality(Below(S, i) \cup {i}) = Cardinality(Below(S, i)) + 1
    BY <2>1, FS_AddElement
  <2>3. IsFiniteSet(T) /\ Cardinality(Below(S, i) \cup {i}) <= Cardinality(T)
    BY <1>3, <1>5, FS_Subset
  <2>4. Cardinality(T) \in Nat /\ Cardinality(Below(S, i)) \in Nat
    <3>1. IsFiniteSet(T)
      BY <1>3
    <3>2. QED
      BY <2>1, <3>1, FS_CardinalityType
  <2>5. QED
    BY <2>2, <2>3, <2>4
<1>6. i \in S => Cardinality(Below(S, i)) < Cardinality(S)
  BY <1>5 DEF Below
<1>7. ASSUME NEW j \in Nat, i <= j
      PROVE  /\ Cardinality(Below(S, i)) <= Cardinality(Below(S, j))
             /\ i \in S /\ i < j => Cardinality(Below(S, i)) < Cardinality(Below(S, j))
  <2>1. Below(S, i) \subseteq Below(S, j) /\ Below(S, j) \subseteq S
    <3>1. \A x \in S : x \in Nat
      BY SizeNat
    <3>2. \A x \in S : x < i => x < j
      BY <1>7, <3>1
    <3>3. QED
      BY <3>2 DEF Below
  <2>2. IsFiniteSet(Below(S, j))
    BY <1>3, <2>1
  <2>3. Cardinality(Below(S, i)) <= Cardinality(Below(S, j))
    BY <2>1, <2>2, FS_Subset
  <2>4. i \in S /\ i < j => i \in Below(S, j)
    BY DEF Below
  <2>5. QED
    BY <1>5, <2>1, <2>3, <2>4
<1>8. QED
  BY <1>2, <1>4, <1>6, <1>7

LEMMA AddedCounts ==
  ASSUME NEW S \in SUBSET (0..(BucketWidth - 1)), NEW i \in 0..(BucketWidth - 1), i \notin S
  PROVE  /\ Cardinality(S \cup {i}) = Cardinality(S) + 1
         /\ \A j \in Nat : Cardinality(Below(S \cup {i}, j))
                             = IF i < j THEN Cardinality(Below(S, j)) + 1
                               ELSE Cardinality(Below(S, j))
<1>1. IsFiniteSet(S)
  BY BelowCounts, SizeNat
<1>2. Cardinality(S \cup {i}) = Cardinality(S) + 1
  BY <1>1, FS_AddElement
<1>3. ASSUME NEW j \in Nat
      PROVE  Cardinality(Below(S \cup {i}, j)) = IF i < j THEN Cardinality(Below(S, j)) + 1
                                                 ELSE Cardinality(Below(S, j))
  <2>1. IsFiniteSet(Below(S, j)) /\ i \notin Below(S, j)
    BY BelowCounts DEF Below
  <2>2. CASE i < j
    <3>1. Below(S \cup {i}, j) = Below(S, j) \cup {i}
      BY <2>2 DEF Below
    <3>2. QED
      BY <2>1, <2>2, <3>1, FS_AddElement
  <2>3. CASE ~(i < j)
    <3>1. Below(S \cup {i}, j) = Below(S, j)
      BY <2>3 DEF Below
    <3>2. QED
      BY <2>3, <3>1
  <2>4. QED
    BY <2>2, <2>3
<1>4. QED
  BY <1>2, <1>3
-------------------------------------------------------------------------------
(* Elements in blocks.                                                     *)

LEMMA OffsetIs ==
  ASSUME NEW bs, NEW pos
  PROVE  /\ offset_in_bucket(bs, pos)
              = Cardinality(Below(bs[idx_of_bucket(pos)].bv, idx_inside_bucket(pos)))
         /\ at(bs, pos) = <<idx_of_bucket(pos), offset_in_bucket(bs, pos)>>
BY DEF offset_in_bucket, Below, at

LEMMA InBucket ==
  ASSUME NEW bs, WellFormed(bs), NEW pos \in Positions
  PROVE  /\ idx_of_bucket(pos) \in Buckets
         /\ bs[idx_of_bucket(pos)] = [bv   |-> bs[idx_of_bucket(pos)].bv,
                                      data |-> bs[idx_of_bucket(pos)].data]
         /\ bs[idx_of_bucket(pos)].bv \in SUBSET (0..(BucketWidth - 1))
         /\ bs[idx_of_bucket(pos)].data \in Seq(States)
         /\ Len(bs[idx_of_bucket(pos)].data) = Cardinality(bs[idx_of_bucket(pos)].bv)
         /\ Cardinality(bs[idx_of_bucket(pos)].bv) \in Nat
         /\ idx_inside_bucket(pos) \in 0..(BucketWidth - 1)
         /\ offset_in_bucket(bs, pos) \in 0..Cardinality(bs[idx_of_bucket(pos)].bv)
         /\ ~pos_is_empty(bs, pos) =>
               offset_in_bucket(bs, pos) < Cardinality(bs[idx_of_bucket(pos)].bv)
<1> DEFINE b == idx_of_bucket(pos)
           i == idx_inside_bucket(pos)
<1>1. b \in Buckets /\ pos \in Nat
  BY BucketOfPosition
<1>2. i \in 0..(BucketWidth - 1) /\ i \in Nat
  BY <1>1, PositionOrder, SizeNat
<1> HIDE DEF b, i
<1>3. bs[b] \in Bucket /\ Len(bs[b].data) = Cardinality(bs[b].bv)
  BY <1>1 DEF WellFormed
<1>4. /\ bs[b] = [bv |-> bs[b].bv, data |-> bs[b].data]
      /\ bs[b].bv \in SUBSET (0..(BucketWidth - 1)) /\ bs[b].data \in Seq(States)
  BY <1>3 DEF Bucket
<1>5. /\ Cardinality(bs[b].bv) \in Nat
      /\ Cardinality(Below(bs[b].bv, i)) \in 0..Cardinality(bs[b].bv)
      /\ i \in bs[b].bv => Cardinality(Below(bs[b].bv, i)) < Cardinality(bs[b].bv)
  BY <1>2, <1>4, BelowCounts
<1>6. offset_in_bucket(bs, pos) = Cardinality(Below(bs[b].bv, i))
  BY OffsetIs DEF b, i
<1>7. ~pos_is_empty(bs, pos) <=> i \in bs[b].bv
  BY DEF pos_is_empty, exists_in_bucket, b, i
<1>8. QED
  BY <1>1, <1>2, <1>3, <1>4, <1>5, <1>6, <1>7 DEF b, i

LEMMA OffsetNat ==
  ASSUME NEW bs, WellFormed(bs), NEW pos \in Positions
  PROVE  offset_in_bucket(bs, pos) \in Nat
<1> DEFINE k == offset_in_bucket(bs, pos)
           n == Cardinality(bs[idx_of_bucket(pos)].bv)
<1>1. n \in Nat /\ k \in 0..n
  BY InBucket
<1> HIDE DEF k, n
<1>2. k \in Nat
  BY <1>1
<1>3. QED
  BY <1>2 DEF k

(* Two elements have two places.                                           *)
LEMMA OffsetsDiffer ==
  ASSUME NEW bs, WellFormed(bs), NEW p \in Positions, NEW q \in Positions,
         ~pos_is_empty(bs, p), ~pos_is_empty(bs, q), at(bs, p) = at(bs, q)
  PROVE  p = q
<1> DEFINE b == idx_of_bucket(p)
           i == idx_inside_bucket(p)
           j == idx_inside_bucket(q)
           S == bs[b].bv
<1>1. idx_of_bucket(q) = b /\ offset_in_bucket(bs, p) = offset_in_bucket(bs, q)
  BY DEF at
<1>2. p \in Nat /\ q \in Nat
  BY BucketOfPosition
<1>3. i \in S /\ j \in S /\ S \in SUBSET (0..(BucketWidth - 1)) /\ i \in Nat /\ j \in Nat
  <2>1. i \in S /\ j \in S
    BY <1>1 DEF pos_is_empty, exists_in_bucket
  <2>2. S \in SUBSET (0..(BucketWidth - 1))
    BY InBucket
  <2> HIDE DEF S, i, j
  <2>3. QED
    BY <2>1, <2>2, SizeNat
<1>4. Cardinality(Below(S, i)) = Cardinality(Below(S, j))
  BY <1>1, OffsetIs
<1>5. PositionIn(b, i) = p /\ PositionIn(b, j) = q
  BY <1>1, <1>2, PositionOrder
<1> HIDE DEF b, i, j, S
<1>6. Cardinality(Below(S, i)) \in Nat /\ Cardinality(Below(S, j)) \in Nat
  BY <1>3, BelowCounts
<1>7. ~(i < j)
  <2>1. i < j => Cardinality(Below(S, i)) < Cardinality(Below(S, j))
    BY <1>3, BelowCounts
  <2>2. QED
    BY <2>1, <1>4, <1>6
<1>8. ~(j < i)
  <2>1. j < i => Cardinality(Below(S, j)) < Cardinality(Below(S, i))
    BY <1>3, BelowCounts
  <2>2. QED
    BY <2>1, <1>4, <1>6
<1>9. QED
  BY <1>3, <1>5, <1>7, <1>8

LEMMA ElementIs ==
  ASSUME NEW bs, WellFormed(bs), NEW pos \in Positions
  PROVE  /\ pos_is_empty(bs, pos) <=> Element(bs, pos) = EMPTY
         /\ ~pos_is_empty(bs, pos) =>
              /\ Element(bs, pos) \in States /\ Element(bs, pos) = Read(bs, at(bs, pos))
              /\ Element(bs, pos)
                   = bs[idx_of_bucket(pos)].data[offset_in_bucket(bs, pos) + 1]
<1>1. EMPTY \notin States
  BY EmptyAssumption, StatesAssumption DEF States
<1>2. Read(bs, at(bs, pos)) = bs[idx_of_bucket(pos)].data[offset_in_bucket(bs, pos) + 1]
  BY DEF Read, at
<1>3. ASSUME ~pos_is_empty(bs, pos)
      PROVE  bs[idx_of_bucket(pos)].data[offset_in_bucket(bs, pos) + 1] \in States
  <2> DEFINE data == bs[idx_of_bucket(pos)].data
             n    == Cardinality(bs[idx_of_bucket(pos)].bv)
             o    == offset_in_bucket(bs, pos)
  <2>1. data \in Seq(States) /\ Len(data) = n /\ n \in Nat /\ o \in 0..n /\ o < n
    BY <1>3, InBucket
  <2>2. data[o + 1] \in States
    <3> HIDE DEF data, n, o
    <3>1. QED
      BY <2>1
  <2>3. QED
    BY <2>2
<1>4. QED
  BY <1>1, <1>2, <1>3 DEF Element
-------------------------------------------------------------------------------
(* Writing into a place.                                                   *)

(* Which positions are in use, their pointers and the iterators follow     *)
(* from the bit vectors.                                                   *)
LEMMA SameBits ==
  ASSUME NEW bs, NEW cs, Bits(bs) = Bits(cs)
  PROVE  /\ \A pos \in Positions : /\ pos_is_empty(bs, pos) <=> pos_is_empty(cs, pos)
                                   /\ offset_in_bucket(bs, pos) = offset_in_bucket(cs, pos)
                                   /\ at(bs, pos) = at(cs, pos)
         /\ \A b, o : IterAt(bs, b, o) = IterAt(cs, b, o)
         /\ \A pos : make_iter(bs, pos) = make_iter(cs, pos)
<1>1. \A b \in Buckets : bs[b].bv = cs[b].bv
  <2>1. \A b \in Buckets : Bits(bs)[b] = bs[b].bv /\ Bits(cs)[b] = cs[b].bv
    BY DEF Bits
  <2>2. QED
    BY <2>1
<1>2. \A pos : idx_of_bucket(pos) \in Buckets =>
                  offset_in_bucket(bs, pos) = offset_in_bucket(cs, pos)
  BY <1>1 DEF offset_in_bucket
<1>3. \A b, o : IterAt(bs, b, o) = IterAt(cs, b, o)
  BY <1>1 DEF IterAt
<1>4. \A pos : make_iter(bs, pos) = make_iter(cs, pos)
  BY <1>2, <1>3 DEF make_iter
<1>5. \A pos \in Positions : idx_of_bucket(pos) \in Buckets
  BY BucketOfPosition
<1>6. QED
  BY <1>1, <1>2, <1>3, <1>4, <1>5 DEF pos_is_empty, exists_in_bucket, at

LEMMA WriteIs ==
  ASSUME NEW bs, WellFormed(bs), NEW pos \in Positions, ~pos_is_empty(bs, pos),
         NEW x \in States
  PROVE  /\ WellFormed(Write(bs, at(bs, pos), x))
         /\ Bits(Write(bs, at(bs, pos), x)) = Bits(bs)
         /\ Array(Write(bs, at(bs, pos), x)) = [Array(bs) EXCEPT ![pos] = x]
<1> DEFINE b    == idx_of_bucket(pos)
           o    == offset_in_bucket(bs, pos) + 1
           bk   == bs[b]
           data == [bk.data EXCEPT ![o] = x]
           new  == [bv |-> bk.bv, data |-> data]
           cs   == Write(bs, at(bs, pos), x)
<1>1. /\ b \in Buckets /\ bk = [bv |-> bk.bv, data |-> bk.data]
      /\ bk.bv \in SUBSET (0..(BucketWidth - 1)) /\ bk.data \in Seq(States)
      /\ Len(bk.data) = Cardinality(bk.bv)
  BY InBucket
<1>2. o \in 1..Len(bk.data) /\ offset_in_bucket(bs, pos) \in Nat
  <2> DEFINE k == offset_in_bucket(bs, pos)
             n == Cardinality(bk.bv)
  <2>1. n \in Nat /\ k \in 0..n /\ k < n /\ Len(bk.data) = n
    BY InBucket
  <2> HIDE DEF k, n, bk
  <2>2. QED
    BY <2>1 DEF k
<1>3. bs \in [Buckets -> Bucket]
  BY DEF WellFormed
<1>4. cs = [bs EXCEPT ![b] = new]
  <2>1. [bk EXCEPT !.data = data] = new
    BY <1>1
  <2>2. cs = [bs EXCEPT ![b] = [bk EXCEPT !.data = data]]
    BY DEF Write, at
  <2>3. QED
    BY <2>1, <2>2
<1>5. data \in Seq(States) /\ Len(data) = Len(bk.data)
      /\ \A k \in 1..Len(bk.data) : data[k] = IF k = o THEN x ELSE bk.data[k]
  <2> HIDE DEF bk, o
  <2>1. QED
    BY <1>1, <1>2
<1> HIDE DEF data
<1>6. new \in Bucket
  BY <1>1, <1>5 DEF Bucket
<1> HIDE DEF b, new, cs
<1>7. /\ cs \in [Buckets -> Bucket] /\ cs[b] = new
      /\ \A d \in Buckets : d # b => cs[d] = bs[d]
  BY <1>1, <1>3, <1>4, <1>6
<1>8. \A d \in Buckets : cs[d].bv = bs[d].bv /\ Len(cs[d].data) = Len(bs[d].data)
  BY <1>5, <1>7 DEF new
<1>9. WellFormed(cs)
  BY <1>7, <1>8 DEF WellFormed
<1>10. Bits(cs) = Bits(bs)
  BY <1>8 DEF Bits
<1>11. ASSUME NEW q \in Positions
       PROVE  Element(cs, q) = IF q = pos THEN x ELSE Element(bs, q)
  <2>1. /\ pos_is_empty(cs, q) <=> pos_is_empty(bs, q)
        /\ offset_in_bucket(cs, q) = offset_in_bucket(bs, q) /\ at(cs, q) = at(bs, q)
    BY <1>10, SameBits
  <2>2. CASE pos_is_empty(bs, q)
    <3>1. q # pos
      BY <2>2
    <3>2. QED
      BY <2>1, <2>2, <3>1 DEF Element
  <2>3. CASE ~pos_is_empty(bs, q)
    <3> DEFINE c == idx_of_bucket(q)
               k == offset_in_bucket(bs, q) + 1
    <3>1. /\ Element(cs, q) = cs[c].data[k] /\ Element(bs, q) = bs[c].data[k]
      BY <1>9, <2>1, <2>3, ElementIs
    <3>2. c \in Buckets
      BY BucketOfPosition
    <3>3. CASE c # b
      BY <1>7, <3>1, <3>2, <3>3 DEF b
    <3>4. CASE c = b
      <4>1. cs[c].data = data /\ bs[c].data = bk.data
        BY <1>7, <3>4 DEF new
      <4>2. k \in 1..Len(bk.data)
        <5>1. /\ offset_in_bucket(bs, q) \in 0..Cardinality(bs[c].bv)
              /\ offset_in_bucket(bs, q) < Cardinality(bs[c].bv)
              /\ Cardinality(bs[c].bv) \in Nat
          BY <2>3, InBucket
        <5>2. Len(bk.data) = Cardinality(bs[c].bv)
          BY <1>1, <3>4
        <5> DEFINE z == offset_in_bucket(bs, q)
        <5>3. k = z + 1
          OBVIOUS
        <5> HIDE DEF k, z, bk, c
        <5>4. QED
          BY <5>1, <5>2, <5>3 DEF z
      <4>3. k = o <=> q = pos
        <5>1. offset_in_bucket(bs, q) \in Int /\ offset_in_bucket(bs, pos) \in Int
          BY OffsetNat
        <5>2. k = o => at(bs, q) = at(bs, pos)
          BY <3>4, <5>1 DEF at, b
        <5>3. QED
          BY <2>3, <5>2, OffsetsDiffer
      <4>4. QED
        BY <1>5, <3>1, <4>1, <4>2, <4>3
    <3>5. QED
      BY <3>3, <3>4
  <2>4. QED
    BY <2>2, <2>3
<1>12. Array(cs) = [Array(bs) EXCEPT ![pos] = x]
  BY <1>11 DEF Array
<1>13. QED
  BY <1>9, <1>10, <1>12 DEF cs
-------------------------------------------------------------------------------
(* A new block with one more place.                                        *)

LEMMA ConcatIs ==
  ASSUME NEW l \in Seq(States), NEW r \in Seq(States)
  PROVE  /\ l \o r \in Seq(States) /\ Len(l \o r) = Len(l) + Len(r)
         /\ \A j \in 1..(Len(l) + Len(r)) :
               (l \o r)[j] = IF j <= Len(l) THEN l[j] ELSE r[j - Len(l)]
OBVIOUS

LEMMA InsertedAt ==
  ASSUME NEW s \in Seq(States), NEW e \in States, NEW k \in 1..(Len(s) + 1)
  PROVE  /\ InsertAt(s, k, e) \in Seq(States) /\ Len(InsertAt(s, k, e)) = Len(s) + 1
         /\ \A j \in 1..(Len(s) + 1) :
               InsertAt(s, k, e)[j] = IF j < k THEN s[j] ELSE IF j = k THEN e ELSE s[j - 1]
<1>1. Len(s) \in Nat
  OBVIOUS
<1> DEFINE l == SubSeq(s, 1, k - 1)
           r == SubSeq(s, k, Len(s))
<1>2. l \in Seq(States) /\ Len(l) = k - 1 /\ \A j \in 1..(k - 1) : l[j] = s[j]
  BY <1>1
<1>3. /\ r \in Seq(States) /\ Len(r) = Len(s) - k + 1
      /\ \A j \in 1..(Len(s) - k + 1) : r[j] = s[k + j - 1]
  BY <1>1
<1>4. InsertAt(s, k, e) = (l \o <<e>>) \o r
  BY DEF InsertAt
<1> HIDE DEF l, r
<1> DEFINE m == l \o <<e>>
<1>5. m \in Seq(States) /\ Len(m) = k /\ \A j \in 1..k : m[j] = IF j < k THEN s[j] ELSE e
  BY <1>1, <1>2
<1> HIDE DEF m
<1>6. m \o r \in Seq(States) /\ Len(m \o r) = Len(m) + Len(r)
  <2>1. m \in Seq(States) /\ r \in Seq(States)
    BY <1>3, <1>5
  <2>2. QED
    BY <2>1, ConcatIs
<1>7. Len(m) + Len(r) = Len(s) + 1
  BY <1>1, <1>3, <1>5
<1>8. ASSUME NEW j \in 1..(Len(s) + 1)
      PROVE  (m \o r)[j] = IF j < k THEN s[j] ELSE IF j = k THEN e ELSE s[j - 1]
  <2>1. (m \o r)[j] = IF j <= Len(m) THEN m[j] ELSE r[j - Len(m)]
    <3>1. j \in 1..(Len(m) + Len(r))
      BY <1>7
    <3>2. m \in Seq(States) /\ r \in Seq(States)
      BY <1>3, <1>5
    <3>3. QED
      BY <3>1, <3>2, ConcatIs
  <2>2. CASE j <= k
    <3>1. j \in 1..k /\ (j < k \/ j = k)
      BY <2>2
    <3>2. m[j] = IF j < k THEN s[j] ELSE e
      BY <1>5, <3>1
    <3>3. QED
      BY <1>5, <2>1, <2>2, <3>1, <3>2
  <2>3. CASE ~(j <= k)
    <3>1. j - k \in 1..(Len(s) - k + 1) /\ k + (j - k) - 1 = j - 1 /\ ~(j < k) /\ j # k
      BY <1>1, <2>3
    <3>2. r[j - k] = s[j - 1]
      BY <1>3, <3>1
    <3>3. QED
      BY <1>5, <2>1, <2>3, <3>1, <3>2
  <2>4. QED
    BY <2>2, <2>3
<1>9. QED
  BY <1>4, <1>6, <1>7, <1>8 DEF m

LEMMA AllocateIs ==
  ASSUME NEW bs, WellFormed(bs), NEW pos \in Positions, pos_is_empty(bs, pos)
  PROVE  /\ WellFormed(allocate_pos(bs, pos))
         /\ Array(allocate_pos(bs, pos)) = [Array(bs) EXCEPT ![pos] = Raw]
<1> DEFINE b    == idx_of_bucket(pos)
           i    == idx_inside_bucket(pos)
           o    == offset_in_bucket(bs, pos) + 1
           bk   == bs[b]
           data == InsertAt(bk.data, o, Raw)
           S    == bk.bv \cup {i}
           new  == [bv |-> S, data |-> data]
           cs   == allocate_pos(bs, pos)
<1>1. /\ b \in Buckets /\ bk = [bv |-> bk.bv, data |-> bk.data]
      /\ bk.bv \in SUBSET (0..(BucketWidth - 1)) /\ bk.data \in Seq(States)
      /\ Len(bk.data) = Cardinality(bk.bv) /\ Cardinality(bk.bv) \in Nat
      /\ i \in 0..(BucketWidth - 1)
  BY InBucket
<1>2. o \in 1..(Len(bk.data) + 1)
  <2> DEFINE k == offset_in_bucket(bs, pos)
             n == Cardinality(bk.bv)
  <2>1. n \in Nat /\ k \in 0..n /\ Len(bk.data) = n
    BY InBucket
  <2> HIDE DEF k, n, bk
  <2>2. QED
    BY <2>1 DEF k
<1>3. bs \in [Buckets -> Bucket]
  BY DEF WellFormed
<1>4. cs = [bs EXCEPT ![b] = new]
  BY DEF allocate_pos
<1>5. i \notin bk.bv /\ pos \in Nat
  BY BucketOfPosition DEF pos_is_empty, exists_in_bucket
<1>6. Raw \in States
  BY DEF States
<1>7. /\ data \in Seq(States) /\ Len(data) = Len(bk.data) + 1
      /\ \A j \in 1..(Len(bk.data) + 1) :
            data[j] = IF j < o THEN bk.data[j] ELSE IF j = o THEN Raw ELSE bk.data[j - 1]
  <2> HIDE DEF o, bk
  <2>1. data = InsertAt(bk.data, o, Raw)
    OBVIOUS
  <2> HIDE DEF data
  <2>2. \A s \in Seq(States) : \A k \in 1..(Len(s) + 1) :
           /\ InsertAt(s, k, Raw) \in Seq(States) /\ Len(InsertAt(s, k, Raw)) = Len(s) + 1
           /\ \A j \in 1..(Len(s) + 1) :
                 InsertAt(s, k, Raw)[j] = IF j < k THEN s[j] ELSE IF j = k THEN Raw ELSE s[j - 1]
    BY <1>6, InsertedAt
  <2>3. QED
    BY <1>1, <1>2, <2>1, <2>2
<1>8. /\ Cardinality(S) = Cardinality(bk.bv) + 1
      /\ \A j \in Nat : Cardinality(Below(S, j))
                          = IF i < j THEN Cardinality(Below(bk.bv, j)) + 1
                            ELSE Cardinality(Below(bk.bv, j))
  BY <1>1, <1>5, AddedCounts
<1>9. o = Cardinality(Below(bk.bv, i)) + 1
  BY OffsetIs
<1> HIDE DEF data
<1>10. new \in Bucket
  <2>1. S \in SUBSET (0..(BucketWidth - 1))
    BY <1>1
  <2> HIDE DEF S
  <2>2. QED
    BY <1>7, <2>1 DEF Bucket
<1>11. PositionIn(b, i) = pos
  BY <1>5, PositionOrder
<1> HIDE DEF S, b, new, cs, i, o
<1>12. /\ cs \in [Buckets -> Bucket] /\ cs[b] = new
       /\ \A d \in Buckets : d # b => cs[d] = bs[d]
  BY <1>1, <1>3, <1>4, <1>10
<1>13. \A d \in Buckets : Len(cs[d].data) = Cardinality(cs[d].bv)
  <2>1. Len(new.data) = Cardinality(new.bv)
    BY <1>1, <1>7, <1>8 DEF new
  <2>2. QED
    BY <1>12, <2>1 DEF WellFormed
<1>14. WellFormed(cs)
  <2>1. \A d \in Buckets : \A j \in cs[d].bv : PositionIn(d, j) \in Positions
    <3>1. \A j \in S : PositionIn(b, j) \in Positions
      BY <1>1, <1>11 DEF S, WellFormed
    <3>2. cs[b].bv = S
      BY <1>12 DEF new
    <3>3. QED
      BY <1>12, <3>1, <3>2 DEF WellFormed
  <2>2. QED
    BY <1>12, <1>13, <2>1 DEF WellFormed
<1>15. ASSUME NEW q \in Positions
       PROVE  Element(cs, q) = IF q = pos THEN Raw ELSE Element(bs, q)
  <2> DEFINE c == idx_of_bucket(q)
             j == idx_inside_bucket(q)
             k == offset_in_bucket(bs, q) + 1
             l == offset_in_bucket(cs, q) + 1
  <2>1. c \in Buckets /\ q \in Nat /\ j \in 0..(BucketWidth - 1) /\ j \in Nat
    <3>1. c \in Buckets /\ q \in Nat
      BY BucketOfPosition
    <3>2. j \in 0..(BucketWidth - 1)
      BY <3>1, PositionOrder
    <3> HIDE DEF c, j
    <3>3. QED
      BY <3>1, <3>2, SizeNat
  <2>2. /\ pos_is_empty(cs, q) <=> j \notin cs[c].bv
        /\ pos_is_empty(bs, q) <=> j \notin bs[c].bv
    BY DEF pos_is_empty, exists_in_bucket
  <2>3. /\ ~pos_is_empty(bs, q) => Element(bs, q) = bs[c].data[k]
        /\ pos_is_empty(bs, q) => Element(bs, q) = EMPTY
    BY ElementIs
  <2>4. /\ ~pos_is_empty(cs, q) => Element(cs, q) = cs[c].data[l]
        /\ pos_is_empty(cs, q) => Element(cs, q) = EMPTY
    BY <1>14, ElementIs
  <2>5. k = Cardinality(Below(bs[c].bv, j)) + 1 /\ l = Cardinality(Below(cs[c].bv, j)) + 1
    BY OffsetIs
  <2>6. k \in Nat /\ l \in Nat
    BY <1>14, OffsetNat
  <2>7. PositionIn(c, j) = q
    BY <2>1, PositionOrder
  <2> HIDE DEF j, k, l
  <2>8. CASE c # b
    <3>1. cs[c] = bs[c]
      BY <1>12, <2>1, <2>8
    <3>2. q # pos /\ k = l
      BY <2>5, <2>8, <3>1 DEF b
    <3>3. QED
      BY <2>2, <2>3, <2>4, <3>1, <3>2
  <2>9. CASE c = b
    <3> HIDE DEF c
    <3>1. cs[c].bv = S /\ cs[c].data = data /\ bs[c] = bk
      BY <1>12, <2>9 DEF new
    <3>2. CASE j = i
      <4>1. q = pos
        BY <1>11, <2>7, <2>9, <3>2
      <4>2. l = o
        <5>1. ~(i < j) /\ i \in Nat
          BY <2>1, <3>2
        <5>2. QED
          BY <1>8, <1>9, <2>1, <2>5, <3>1, <3>2, <5>1
      <4>3. data[o] = Raw
        BY <1>1, <1>2, <1>7
      <4>4. j \in cs[c].bv
        BY <3>1, <3>2 DEF S
      <4>5. QED
        BY <2>2, <2>4, <3>1, <4>1, <4>2, <4>3, <4>4
    <3>3. CASE j # i
      <4>1. q # pos
        BY <3>3 DEF i, j
      <4>2. j \in cs[c].bv <=> j \in bs[c].bv
        BY <3>1, <3>3 DEF S
      <4>3. CASE j \notin bs[c].bv
        BY <2>2, <2>3, <2>4, <4>1, <4>2, <4>3
      <4>4. CASE j \in bs[c].bv
        <5>1. l = IF i < j THEN k + 1 ELSE k
          <6>1. Cardinality(Below(bk.bv, j)) \in Nat
            BY <1>1, <2>1, BelowCounts
          <6>2. QED
            BY <1>8, <2>1, <2>5, <3>1, <6>1
        <5>2. k \in 1..Len(bk.data)
          <6>1. /\ Cardinality(Below(bk.bv, j)) < Cardinality(bk.bv)
                /\ Cardinality(Below(bk.bv, j)) \in Nat
            <7>1. j \in bk.bv
              BY <3>1, <4>4
            <7> HIDE DEF bk, j
            <7>2. bk.bv \in SUBSET (0..(BucketWidth - 1)) /\ j \in Nat
              BY <1>1, <2>1
            <7>3. Cardinality(Below(bk.bv, j)) \in 0..Cardinality(bk.bv)
              BY <7>2, BelowCounts
            <7>4. Cardinality(Below(bk.bv, j)) < Cardinality(bk.bv)
              BY <7>1, <7>2, BelowCounts
            <7>5. QED
              BY <1>1, <7>3, <7>4
          <6>2. QED
            BY <1>1, <2>5, <3>1, <6>1
        <5>3. i < j => o <= k
          <6>1. /\ i \in Nat /\ Cardinality(Below(bk.bv, i)) \in Nat
                /\ Cardinality(Below(bk.bv, j)) \in Nat
            BY <1>1, <2>1, SizeNat, BelowCounts
          <6>2. i < j => Cardinality(Below(bk.bv, i)) <= Cardinality(Below(bk.bv, j))
            <7>1. i < j => i <= j
              BY <2>1, <6>1
            <7>2. QED
              BY <1>1, <2>1, <6>1, <7>1, BelowCounts
          <6>3. QED
            BY <1>9, <2>5, <3>1, <6>1, <6>2
        <5>4. ~(i < j) => k < o
          <6>1. i \in Nat /\ (~(i < j) => j < i)
            BY <1>1, <2>1, <3>3, SizeNat
          <6>2. ~(i < j) => Cardinality(Below(bk.bv, j)) < Cardinality(Below(bk.bv, i))
            BY <1>1, <2>1, <3>1, <4>4, <6>1, BelowCounts
          <6>3. Cardinality(Below(bk.bv, i)) \in Nat /\ Cardinality(Below(bk.bv, j)) \in Nat
            BY <1>1, <2>1, <6>1, BelowCounts
          <6>4. QED
            BY <1>9, <2>5, <3>1, <6>2, <6>3
        <5>5. data[l] = bk.data[k]
          <6>1. l \in 1..(Len(bk.data) + 1) /\ k \in Int /\ o \in Int /\ Len(bk.data) \in Nat
            BY <1>1, <1>2, <5>1, <5>2
          <6>2. CASE i < j
            <7>1. l = k + 1 /\ ~(l < o) /\ l # o /\ l - 1 = k
              BY <5>1, <5>3, <6>1, <6>2
            <7>2. QED
              BY <1>7, <6>1, <7>1
          <6>3. CASE ~(i < j)
            BY <1>7, <5>1, <5>4, <6>1, <6>3
          <6>4. QED
            BY <6>2, <6>3
        <5>6. QED
          BY <2>2, <2>3, <2>4, <3>1, <4>1, <4>2, <4>4, <5>5
      <4>5. QED
        BY <4>3, <4>4
    <3>4. QED
      BY <3>2, <3>3
  <2>10. QED
    BY <2>8, <2>9
<1>16. Array(cs) = [Array(bs) EXCEPT ![pos] = Raw]
  BY <1>15 DEF Array
<1>17. QED
  BY <1>14, <1>16 DEF cs
-------------------------------------------------------------------------------
(* What the calls do to the array.                                         *)

LEMMA ArrayIs ==
  ASSUME NEW bs, WellFormed(bs)
  PROVE  /\ Array(bs) \in [Positions -> States \cup {EMPTY}]
         /\ \A pos \in Positions :
              /\ pos_is_empty(bs, pos) <=> Array(bs)[pos] = EMPTY
              /\ Array(bs)[pos] = Element(bs, pos)
              /\ Array(bs)[pos] # EMPTY => /\ Array(bs)[pos] \in States
                                           /\ Read(bs, at(bs, pos)) = Array(bs)[pos]
<1>1. \A pos \in Positions : Array(bs)[pos] = Element(bs, pos)
  BY DEF Array
<1>2. \A pos \in Positions :
         /\ pos_is_empty(bs, pos) <=> Element(bs, pos) = EMPTY
         /\ ~pos_is_empty(bs, pos) =>
              Element(bs, pos) \in States /\ Element(bs, pos) = Read(bs, at(bs, pos))
  BY ElementIs
<1>3. QED
  BY <1>1, <1>2 DEF Array

(* Writing does not change where the elements are.                         *)
LEMMA Writes ==
  ASSUME NEW bs, WellFormed(bs), NEW pos \in Positions, Array(bs)[pos] # EMPTY,
         NEW x \in States
  PROVE  /\ WellFormed(Write(bs, at(bs, pos), x))
         /\ Bits(Write(bs, at(bs, pos), x)) = Bits(bs)
         /\ Array(Write(bs, at(bs, pos), x)) = [Array(bs) EXCEPT ![pos] = x]
         /\ \A q \in Positions : at(Write(bs, at(bs, pos), x), q) = at(bs, q)
         /\ \A q : make_iter(Write(bs, at(bs, pos), x), q) = make_iter(bs, q)
<1>1. ~pos_is_empty(bs, pos)
  BY ArrayIs
<1>2. /\ WellFormed(Write(bs, at(bs, pos), x)) /\ Bits(Write(bs, at(bs, pos), x)) = Bits(bs)
      /\ Array(Write(bs, at(bs, pos), x)) = [Array(bs) EXCEPT ![pos] = x]
  BY <1>1, WriteIs
<1>3. QED
  BY <1>2, SameBits

LEMMA MovesOut ==
  ASSUME NEW bs, WellFormed(bs), NEW pos \in Positions, Array(bs)[pos] # EMPTY
  PROVE  /\ WellFormed(move_out(bs, at(bs, pos)))
         /\ Bits(move_out(bs, at(bs, pos))) = Bits(bs)
         /\ Array(move_out(bs, at(bs, pos))) = [Array(bs) EXCEPT ![pos] = Moved]
         /\ \A q \in Positions : at(move_out(bs, at(bs, pos)), q) = at(bs, q)
         /\ \A q : make_iter(move_out(bs, at(bs, pos)), q) = make_iter(bs, q)
<1>1. Moved \in States
  BY DEF States
<1>2. QED
  BY <1>1, Writes DEF move_out

LEMMA MovesFrom ==
  ASSUME NEW bs, WellFormed(bs), NEW p \in Positions, NEW q \in Positions, p # q,
         Array(bs)[p] # EMPTY, Array(bs)[q] # EMPTY
  PROVE  LET new == move_from(bs, at(bs, p), at(bs, q))
         IN  /\ WellFormed(new) /\ Bits(new) = Bits(bs)
             /\ Array(new) = [Array(bs) EXCEPT ![p] = Array(bs)[q], ![q] = Moved]
             /\ \A r \in Positions : at(new, r) = at(bs, r)
             /\ \A r : make_iter(new, r) = make_iter(bs, r)
             /\ init_from(bs, at(bs, p), at(bs, q)) = new
<1> DEFINE a   == Array(bs)
           mid == Write(bs, at(bs, p), a[q])
           new == move_from(bs, at(bs, p), at(bs, q))
<1>1. a[q] \in States /\ Read(bs, at(bs, q)) = a[q] /\ a \in [Positions -> States \cup {EMPTY}]
  BY ArrayIs
<1>2. /\ WellFormed(mid) /\ Bits(mid) = Bits(bs) /\ Array(mid) = [a EXCEPT ![p] = a[q]]
      /\ \A r \in Positions : at(mid, r) = at(bs, r)
      /\ \A r : make_iter(mid, r) = make_iter(bs, r)
  BY <1>1, Writes
<1>3. new = move_out(mid, at(bs, q)) /\ init_from(bs, at(bs, p), at(bs, q)) = new
  BY <1>1 DEF move_from, init_from
<1> HIDE DEF mid, new, a
<1>4. Array(mid)[q] = a[q] /\ at(bs, q) = at(mid, q)
  BY <1>1, <1>2
<1>5. a[q] # EMPTY
  BY DEF a
<1>6. /\ WellFormed(new) /\ Bits(new) = Bits(mid) /\ Array(new) = [Array(mid) EXCEPT ![q] = Moved]
      /\ \A r \in Positions : at(new, r) = at(mid, r)
      /\ \A r : make_iter(new, r) = make_iter(mid, r)
  <2>1. new = move_out(mid, at(mid, q)) /\ Array(mid)[q] # EMPTY
    BY <1>3, <1>4, <1>5
  <2>2. QED
    BY <1>2, <2>1, MovesOut
<1>7. Array(new) = [a EXCEPT ![p] = a[q], ![q] = Moved]
  BY <1>2, <1>6
<1>8. QED
  BY <1>2, <1>3, <1>6, <1>7 DEF new, a

LEMMA Swaps ==
  ASSUME NEW bs, WellFormed(bs), NEW p \in Positions, NEW q \in Positions, p # q,
         Array(bs)[p] # EMPTY, Array(bs)[q] # EMPTY
  PROVE  LET new == swap_with(bs, at(bs, p), at(bs, q))
         IN  /\ WellFormed(new)
             /\ Array(new) = [Array(bs) EXCEPT ![p] = Array(bs)[q], ![q] = Array(bs)[p]]
<1> DEFINE a   == Array(bs)
           mid == move_from(bs, at(bs, p), at(bs, q))
           new == swap_with(bs, at(bs, p), at(bs, q))
<1>1. /\ WellFormed(mid) /\ Array(mid) = [a EXCEPT ![p] = a[q], ![q] = Moved]
      /\ \A r \in Positions : at(mid, r) = at(bs, r)
  BY MovesFrom
<1>2. a[p] \in States /\ Read(bs, at(bs, p)) = a[p] /\ a \in [Positions -> States \cup {EMPTY}]
  BY ArrayIs
<1>3. new = Write(mid, at(bs, q), a[p])
  BY <1>2 DEF swap_with
<1> HIDE DEF mid, new, a
<1>4. Array(mid)[q] # EMPTY /\ at(bs, q) = at(mid, q)
  BY <1>1, <1>2, StatesAssumption
<1>5. WellFormed(new) /\ Array(new) = [Array(mid) EXCEPT ![q] = a[p]]
  <2>1. PICK x \in States : x = a[p]
    BY <1>2
  <2>2. /\ WellFormed(Write(mid, at(mid, q), x))
        /\ Array(Write(mid, at(mid, q), x)) = [Array(mid) EXCEPT ![q] = x]
    <3>1. WellFormed(mid) /\ Array(mid)[q] # EMPTY
      BY <1>1, <1>4
    <3>2. QED
      BY <3>1, Writes
  <2>3. QED
    BY <1>3, <1>4, <2>1, <2>2
<1>6. Array(new) = [a EXCEPT ![p] = a[q], ![q] = a[p]]
  BY <1>1, <1>2, <1>5
<1>7. QED
  BY <1>5, <1>6 DEF new, a

LEMMA MovesFront ==
  ASSUME NEW bs, WellFormed(bs), NEW from \in Positions, NEW to \in Positions,
         Array(bs)[from] # EMPTY, Array(bs)[to] = EMPTY
  PROVE  /\ WellFormed(MoveFrontTo(bs, from, to))
         /\ Array(MoveFrontTo(bs, from, to))
              = [Array(bs) EXCEPT ![to] = Array(bs)[from], ![from] = Raw]
<1> DEFINE a   == Array(bs)
           all == allocate_pos(bs, to)
           mid == init_from(all, at(all, to), at(all, from))
           new == MoveFrontTo(bs, from, to)
<1>1. pos_is_empty(bs, to) /\ from # to /\ a \in [Positions -> States \cup {EMPTY}]
  BY ArrayIs
<1>2. WellFormed(all) /\ Array(all) = [a EXCEPT ![to] = Raw]
  BY <1>1, AllocateIs
<1>3. new = Write(mid, at(all, from), Raw)
  BY DEF MoveFrontTo, uninitialize
<1>4. a[from] # EMPTY /\ Raw \in States
  BY DEF States
<1> HIDE DEF a, all, new
<1>5. /\ Array(all)[to] # EMPTY /\ Array(all)[from] # EMPTY /\ Array(all)[from] = a[from]
  BY <1>1, <1>2, <1>4, StatesAssumption
<1>6. /\ WellFormed(mid)
      /\ Array(mid) = [Array(all) EXCEPT ![to] = a[from], ![from] = Moved]
      /\ at(mid, from) = at(all, from)
  <2>1. mid = move_from(all, at(all, to), at(all, from))
    BY <1>1, <1>2, <1>5, MovesFrom
  <2> HIDE DEF mid
  <2> DEFINE new2 == move_from(all, at(all, to), at(all, from))
  <2>2. /\ WellFormed(new2)
        /\ Array(new2) = [Array(all) EXCEPT ![to] = Array(all)[from], ![from] = Moved]
        /\ at(new2, from) = at(all, from)
    <3>1. /\ WellFormed(all) /\ from # to
          /\ Array(all)[to] # EMPTY /\ Array(all)[from] # EMPTY
      BY <1>1, <1>2, <1>5
    <3>2. QED
      BY <3>1, MovesFrom
  <2> HIDE DEF new2
  <2>3. QED
    BY <1>5, <2>1, <2>2 DEF new2
<1> HIDE DEF mid
<1>7. Array(mid)[from] # EMPTY
  BY <1>1, <1>2, <1>6, StatesAssumption
<1>8. WellFormed(new) /\ Array(new) = [Array(mid) EXCEPT ![from] = Raw]
  <2>1. /\ WellFormed(Write(mid, at(mid, from), Raw))
        /\ Array(Write(mid, at(mid, from), Raw)) = [Array(mid) EXCEPT ![from] = Raw]
    <3>1. WellFormed(mid) /\ Array(mid)[from] # EMPTY /\ Raw \in States
      BY <1>4, <1>6, <1>7
    <3>2. QED
      BY <3>1, Writes
  <2>2. QED
    BY <1>3, <1>6, <2>1
<1>9. Array(new) = [a EXCEPT ![to] = a[from], ![from] = Raw]
  BY <1>1, <1>2, <1>6, <1>8
<1>10. QED
  BY <1>8, <1>9 DEF new, a
-------------------------------------------------------------------------------
(* The iterators.                                                          *)

LEMMA NextPosition ==
  ASSUME NEW q \in Nat
  PROVE  \/ /\ idx_of_bucket(q + 1) = idx_of_bucket(q)
            /\ idx_inside_bucket(q + 1) = idx_inside_bucket(q) + 1
         \/ /\ idx_of_bucket(q + 1) = idx_of_bucket(q) + 1
            /\ idx_inside_bucket(q + 1) = 0
            /\ idx_inside_bucket(q) = BucketWidth - 1
<1> DEFINE w == BucketWidth
           b == idx_of_bucket(q)
           i == idx_inside_bucket(q)
<1>1. w \in Nat \ {0} /\ b \in Nat /\ i \in 0..(w - 1) /\ q = b * w + i
  BY SizeNat, PositionOrder DEF PositionIn
<1>2. b * w \in Nat /\ (b + 1) * w = b * w + w
  BY <1>1, SMT
<1>3. CASE i < w - 1
  <2>1. i + 1 \in 0..(w - 1) /\ PositionIn(b, i + 1) = q + 1
    <3>1. PositionIn(b, i + 1) = b * w + (i + 1)
      BY DEF PositionIn
    <3> HIDE DEF b, i, w
    <3>2. QED
      BY <1>1, <1>2, <1>3, <3>1
  <2>2. idx_of_bucket(q + 1) = b /\ idx_inside_bucket(q + 1) = i + 1
    BY <1>1, <2>1, PositionOfBit
  <2>3. QED
    BY <2>2
<1>4. CASE ~(i < w - 1)
  <2>1. b + 1 \in Nat /\ 0 \in 0..(w - 1) /\ i = w - 1 /\ PositionIn(b + 1, 0) = q + 1
    <3>1. PositionIn(b + 1, 0) = (b + 1) * w + 0
      BY DEF PositionIn
    <3> HIDE DEF b, i, w
    <3>2. QED
      BY <1>1, <1>2, <1>4, <3>1
  <2>2. idx_of_bucket(q + 1) = b + 1 /\ idx_inside_bucket(q + 1) = 0
    BY <2>1, PositionOfBit
  <2>3. QED
    BY <2>1, <2>2
<1>5. QED
  BY <1>3, <1>4

(* An iterator of an element is on it.                                     *)
LEMMA IteratorIs ==
  ASSUME NEW bs, WellFormed(bs), NEW pos \in Positions, ~pos_is_empty(bs, pos)
  PROVE  make_iter(bs, pos) = [bucket  |-> idx_of_bucket(pos),
                               b_start |-> <<idx_of_bucket(pos), 0>>,
                               b_end   |-> at(bs, pos)]
<1>1. idx_of_bucket(pos) \in Buckets /\ bs[idx_of_bucket(pos)].bv # {}
  BY BucketOfPosition DEF pos_is_empty, exists_in_bucket
<1>2. QED
  BY <1>1 DEF make_iter, IterAt, at

(* One step back leads to the position before, over the border between two *)
(* buckets as well.                                                        *)
LEMMA DecrementIs ==
  ASSUME NEW bs, WellFormed(bs), NEW q \in Positions, ~pos_is_empty(bs, q)
  PROVE  decrement(bs, make_iter(bs, q + 1)) = make_iter(bs, q)
<1> DEFINE b  == idx_of_bucket(q)
           i  == idx_inside_bucket(q)
           S  == bs[b].bv
           o  == offset_in_bucket(bs, q)
           it == make_iter(bs, q + 1)
<1>1. q \in Nat /\ b \in Buckets /\ i \in S /\ b \in Nat
  BY BucketOfPosition DEF pos_is_empty, exists_in_bucket
<1>2. make_iter(bs, q) = [bucket |-> b, b_start |-> <<b, 0>>, b_end |-> <<b, o>>]
  BY IteratorIs DEF at
<1>3. S \in SUBSET (0..(BucketWidth - 1)) /\ i \in 0..(BucketWidth - 1) /\ o \in Nat
  BY InBucket, OffsetNat
<1>4. o = Cardinality(Below(S, i))
  BY OffsetIs
<1>5. i \in Nat /\ \A j \in S : j \in 0..(BucketWidth - 1)
  BY <1>3, SizeNat
<1>6. Cardinality(Below(S, i) \cup {i}) = o + 1
  <2>1. IsFiniteSet(Below(S, i)) /\ i \notin Below(S, i)
    BY <1>3, <1>5, BelowCounts DEF Below
  <2>2. QED
    BY <1>4, <2>1, FS_AddElement
<1>7. CASE idx_of_bucket(q + 1) = b /\ idx_inside_bucket(q + 1) = i + 1
  <2>1. Below(S, i + 1) = Below(S, i) \cup {i}
    <3>1. \A j \in S : j < i + 1 <=> j < i \/ j = i
      <4>1. \A j \in S : j \in Int
        BY <1>5, SizeNat
      <4> HIDE DEF i, S
      <4>2. QED
        BY <1>5, <4>1
    <3> HIDE DEF i, S
    <3>2. QED
      BY <1>1, <3>1 DEF Below
  <2>2. offset_in_bucket(bs, q + 1) = o + 1
    BY <1>6, <1>7, <2>1, OffsetIs
  <2>3. it = [bucket |-> b, b_start |-> <<b, 0>>, b_end |-> <<b, o + 1>>]
    BY <1>1, <1>7, <2>2 DEF make_iter, IterAt
  <2> HIDE DEF it, o, b
  <2>4. <<b, 0>> # <<b, o + 1>> /\ (o + 1) - 1 = o
    BY <1>3
  <2>5. decrement(bs, it) = [it EXCEPT !.b_end = <<b, (o + 1) - 1>>]
    BY <2>3, <2>4 DEF decrement
  <2>6. QED
    BY <1>2, <2>3, <2>4, <2>5 DEF it
<1>8. CASE /\ idx_of_bucket(q + 1) = b + 1 /\ idx_inside_bucket(q + 1) = 0
           /\ i = BucketWidth - 1
  <2> DEFINE B == {c \in Buckets : c < it.bucket /\ bs[c].bv # {}}
  <2>1. it.bucket = b + 1 /\ it.b_start = it.b_end
    <3>1. idx_of_bucket(q + 1) \in Buckets => offset_in_bucket(bs, q + 1) = 0
      <4>1. Below(bs[b + 1].bv, 0) = {} \/ b + 1 \notin Buckets
        <5>1. b + 1 \in Buckets => bs[b + 1].bv \in SUBSET (0..(BucketWidth - 1))
          BY DEF WellFormed, Bucket
        <5>2. \A j \in 0..(BucketWidth - 1) : ~(j < 0)
          BY SizeNat
        <5>3. QED
          BY <5>1, <5>2 DEF Below
      <4>2. QED
        BY <1>8, <4>1, OffsetIs, FS_EmptySet
    <3>2. QED
      BY <1>8, <3>1 DEF make_iter, IterAt
  <2>2. Max(B) = b
    <3> DEFINE n == it.bucket
    <3>1. b \in B /\ B \subseteq Nat
      <4>1. b < n
        <5> HIDE DEF b, n
        <5>1. QED
          BY <1>1, <2>1 DEF n
      <4>2. B \subseteq Buckets
        OBVIOUS
      <4> HIDE DEF n
      <4>3. b \in B
        BY <1>1, <4>1 DEF n
      <4> HIDE DEF B, b
      <4>4. QED
        BY <4>2, <4>3, BucketOfPosition
    <3>2. \A c \in B : c \in Nat /\ c <= b
      <4>1. \A c \in B : c < n
        OBVIOUS
      <4>2. n = b + 1
        BY <2>1
      <4> HIDE DEF B, b, n
      <4>3. QED
        BY <1>1, <3>1, <4>1, <4>2
    <3>3. \A c \in B : (\A d \in B : d <= c) => c = b
      BY <1>1, <3>1, <3>2
    <3> HIDE DEF B, b
    <3>4. QED
      BY <3>1, <3>2, <3>3 DEF Max
  <2>3. S = Below(S, i) \cup {i}
    <3>1. \A j \in S : j < i \/ j = i
      BY <1>5, <1>8, SizeNat
    <3>2. QED
      BY <1>1, <3>1 DEF Below
  <2>4. Cardinality(S) = o + 1
    BY <1>6, <2>3
  <2>5. (o + 1) - 1 = o
    BY <1>3
  <2>6. decrement(bs, it) = IterAt(bs, b, o)
    <3>1. decrement(bs, it) = IterAt(bs, b, Cardinality(S) - 1)
      BY <2>1, <2>2 DEF decrement
    <3>2. QED
      BY <2>4, <2>5, <3>1
  <2>7. IterAt(bs, b, o) = make_iter(bs, q)
    BY <1>1, <1>2 DEF IterAt
  <2>8. QED
    BY <2>6, <2>7
<1>9. QED
  BY <1>1, <1>7, <1>8, NextPosition
-------------------------------------------------------------------------------
(* Positions around the end of the table.                                  *)

LEMMA Around ==
  ASSUME NEW from \in Positions, NEW pos \in Positions
  PROVE  /\ Dist(from, pos) \in Positions /\ mod_add(TableSize, from, Dist(from, pos)) = pos
         /\ mod_add(TableSize, from, pos) \in Positions
         /\ Dist(from, mod_add(TableSize, from, pos)) = pos
         /\ Next1(pos) \in Positions /\ Prev1(pos) \in Positions
         /\ Next1(pos) # pos
BY SizeNat DEF Positions, Dist, mod_add, mod_sub, Next1, Prev1

LEMMA DistInjective ==
  ASSUME NEW from \in Positions, NEW p \in Positions, NEW q \in Positions,
         Dist(from, p) = Dist(from, q)
  PROVE  p = q
BY SizeNat DEF Positions, Dist, mod_sub

LEMMA RowParts ==
  ASSUME NEW from \in Positions, NEW to \in Positions, from # to, NEW pos \in Positions
  PROVE  Dist(from, pos) < Dist(from, to) <=>
           IF to < from THEN from <= pos \/ pos < to ELSE from <= pos /\ pos < to
BY SizeNat DEF Positions, Dist, mod_sub

(* Elements are no state of raw memory and no free position.               *)
LEMMA Different ==
  /\ \A x \in Elems : x # EMPTY /\ x # Raw /\ x # Moved
  /\ \A x \in Slots : x # Raw /\ x # Moved
  /\ EMPTY # Raw /\ EMPTY # Moved /\ Raw # Moved
  /\ Elems \subseteq States /\ Raw \in States /\ Moved \in States
  /\ \A x \in Slots : x # EMPTY => x \in Elems
<1>1. Raw # Moved
  BY DEF Raw, Moved
<1>2. QED
  BY <1>1, EmptyAssumption, StatesAssumption DEF Slots, States

LEMMA CellsAre ==
  ASSUME WellFormed(buckets)
  PROVE  /\ Cells \in [Positions -> States \cup {EMPTY}]
         /\ \A pos \in Positions : pos_is_empty(buckets, pos) <=> Cells[pos] = EMPTY
         /\ Occupied = {pos \in Positions : Cells[pos] # EMPTY}
         /\ Contents = [pos \in Positions |-> IF Cells[pos] = Moved THEN EMPTY ELSE Cells[pos]]
         /\ IsArray(Cells) => Contents = Cells
<1>1. /\ Cells \in [Positions -> States \cup {EMPTY}]
      /\ \A pos \in Positions : /\ pos_is_empty(buckets, pos) <=> Cells[pos] = EMPTY
                                /\ Cells[pos] = Element(buckets, pos)
  BY ArrayIs DEF Cells
<1>2. Contents = [pos \in Positions |-> IF Cells[pos] = Moved THEN EMPTY ELSE Cells[pos]]
  BY <1>1 DEF Contents
<1>3. IsArray(Cells) => Contents = Cells
  BY <1>1, <1>2, Different DEF IsArray
<1>4. QED
  BY <1>1, <1>2, <1>3 DEF Occupied

(* The loop that looks for the end of a run finds the nearest free         *)
(* position.                                                               *)
LEMMA TerminatorIs ==
  ASSUME WellFormed(buckets), NEW from \in Positions, HasFree(Cells)
  PROVE  Terminator(from) \in Positions /\ IsRow(Cells, from, Terminator(from))
<1> DEFINE S == {k \in Positions : pos_is_empty(buckets, mod_add(TableSize, from, k))}
           m == Min(S)
<1>1. PICK free \in Positions : pos_is_empty(buckets, free)
  BY CellsAre DEF HasFree
<1>2. Dist(from, free) \in S
  BY <1>1, Around
<1>3. S \subseteq Nat /\ S \subseteq Positions
  BY DEF Positions
<1>4. Terminator(from) = mod_add(TableSize, from, m)
  BY DEF Terminator
<1>5. \A k \in Positions : k \notin S => ~pos_is_empty(buckets, mod_add(TableSize, from, k))
  OBVIOUS
<1>6. \A k \in S : pos_is_empty(buckets, mod_add(TableSize, from, k))
  OBVIOUS
<1> HIDE DEF S, m
<1>7. m \in S /\ \A k \in S : m <= k
  BY <1>2, <1>3, MinOfNaturals DEF m
<1>8. Terminator(from) \in Positions /\ Dist(from, Terminator(from)) = m
  BY <1>3, <1>4, <1>7, Around
<1>9. ASSUME NEW pos \in Positions, Dist(from, pos) < m PROVE ~pos_is_empty(buckets, pos)
  <2>1. Dist(from, pos) \in Positions /\ mod_add(TableSize, from, Dist(from, pos)) = pos
    BY Around
  <2>2. Dist(from, pos) \in Nat /\ m \in Nat
    BY <2>1, <1>3, <1>7, SizeNat DEF Positions
  <2>3. Dist(from, pos) \notin S
    BY <2>2, <1>7, <1>9
  <2>4. QED
    BY <2>1, <2>3, <1>5
<1>10. QED
  BY <1>4, <1>6, <1>7, <1>8, <1>9, CellsAre DEF IsRow

(* While there is room for one more element, two positions are free.       *)
LEMMA RoomLeavesOne ==
  ASSUME WellFormed(buckets), HasRoom, NEW pos \in Positions
  PROVE  \E free \in Positions \ {pos} : Cells[free] = EMPTY
<1> SUFFICES ASSUME \A q \in Positions \ {pos} : Cells[q] # EMPTY PROVE FALSE
  OBVIOUS
<1>1. Positions \ {pos} \subseteq Occupied /\ Occupied \subseteq Positions
  BY CellsAre
<1>2. IsFiniteSet(Positions) /\ Cardinality(Positions) = TableSize
  BY FS_Interval, SizeNat DEF Positions
<1>3. Cardinality(Positions \ {pos}) = TableSize - 1
  BY <1>2, FS_RemoveElement
<1>4. IsFiniteSet(Occupied) /\ Cardinality(Positions \ {pos}) <= Cardinality(Occupied)
  BY <1>1, <1>2, FS_Subset
<1>5. Cardinality(Occupied) \in Nat
  BY <1>4, FS_CardinalityType
<1>6. QED
  BY <1>3, <1>4, <1>5, SizeNat DEF HasRoom
-------------------------------------------------------------------------------
(* Empty buckets; an element is put at a free position.                    *)

LEMMA NothingIn ==
  LET bs == [b \in Buckets |-> EmptyBucket]
  IN  WellFormed(bs) /\ Array(bs) = [pos \in Positions |-> EMPTY]
<1> DEFINE bs == [b \in Buckets |-> EmptyBucket]
<1>1. EmptyBucket \in Bucket /\ Len(EmptyBucket.data) = 0 /\ EmptyBucket.bv = {}
  BY DEF EmptyBucket, Bucket
<1>2. WellFormed(bs)
  BY <1>1, FS_EmptySet DEF WellFormed
<1>3. \A pos \in Positions : pos_is_empty(bs, pos)
  BY <1>1, BucketOfPosition DEF pos_is_empty, exists_in_bucket
<1>4. QED
  BY <1>2, <1>3 DEF Array, Element

LEMMA InitHasInv == Init => IInv
<1> SUFFICES ASSUME Init PROVE IInv
  OBVIOUS
<1>1. WellFormed(buckets) /\ Cells = [pos \in Positions |-> EMPTY] /\ 0 \in Positions
  BY NothingIn, SizeNat DEF Init, Cells, Positions
<1>2. QED
  BY <1>1 DEF Init, IInv, HasFree, IsArray, Slots

LEMMA PutKeepsInv ==
  ASSUME IInv, NEW pos \in Positions, NEW elem \in Elems, Put(pos, elem)
  PROVE  IInv' /\ call = Idle /\ call'.op = "construct" /\ call'.before = Contents
         /\ UNCHANGED <<drain, handed>>
<1>1. /\ call = Idle /\ drain = Idle /\ HasRoom /\ pos_is_empty(buckets, pos)
      /\ buckets' = allocate_pos(buckets, pos)
      /\ call' = [op |-> "construct", location |-> pos, elem |-> elem, before |-> Contents]
      /\ drain' = drain /\ handed' = handed
  BY DEF Put, NoCall
<1>2. WellFormed(buckets) /\ IsArray(Cells)
  BY <1>1 DEF IInv, NoCall
<1>3. Contents = Cells /\ Cells[pos] = EMPTY
  BY <1>1, <1>2, CellsAre
<1>4. WellFormed(buckets') /\ Cells' = [Cells EXCEPT ![pos] = Raw]
  BY <1>1, <1>2, AllocateIs DEF Cells
<1>5. PICK free \in Positions \ {pos} : Cells[free] = EMPTY
  BY <1>1, <1>2, RoomLeavesOne
<1> HIDE DEF Cells
<1>6. /\ Cells'[pos] = Raw /\ \A q \in Positions \ {pos} : Cells'[q] = Cells[q]
  BY <1>2, <1>4 DEF IsArray
<1>7. /\ call'.op = "construct" /\ call'.location = pos /\ call'.elem = elem
      /\ call'.before = Cells
  BY <1>1, <1>3
<1>8. PutAtFree'
  BY <1>3, <1>6, <1>7 DEF PutAtFree
<1>9. ConstructInv'
  <2>1. call' = [op |-> "construct", location |-> call'.location, elem |-> call'.elem,
                 before |-> call'.before]
    BY <1>1
  <2>2. /\ \A q \in Positions \ {pos} : Cells'[q] \in Slots
        /\ \E q \in Positions \ {pos} : Cells'[q] = EMPTY
    BY <1>2, <1>5, <1>6 DEF IsArray
  <2>3. QED
    BY <2>1, <2>2, <1>2, <1>6, <1>7, <1>8 DEF ConstructInv, IsArray
<1>10. IInv'
  BY <1>1, <1>4, <1>7, <1>9 DEF IInv, Idle, NoCall
<1>11. QED
  BY <1>1, <1>10

LEMMA InACall ==
  ASSUME IInv, call.op \in {"construct", "shift", "read"}
  PROVE  /\ call # Idle /\ drain = Idle /\ WellFormed(buckets)
         /\ call.op = "construct" => ConstructInv
         /\ call.op = "shift" => ShiftInv
         /\ call.op = "read" => ReadInv
BY DEF IInv, Idle

LEMMA ConstructKeepsInv ==
  ASSUME IInv, Construct
  PROVE  /\ IInv' /\ call.op = "construct" /\ ConstructInv /\ call' = Idle
         /\ drain = Idle /\ UNCHANGED <<drain, handed>>
         /\ Contents' = [Cells EXCEPT ![call.location] = call.elem]
<1>1. /\ call.op = "construct"
      /\ buckets' = Write(buckets, at(buckets, call.location), call.elem)
      /\ call' = Idle /\ drain' = drain /\ handed' = handed
  BY DEF Construct
<1>2. ConstructInv /\ drain = Idle /\ WellFormed(buckets)
  BY <1>1, InACall
<1> DEFINE loc  == call.location
           elem == call.elem
<1>3. /\ loc \in Positions /\ elem \in Elems /\ elem \in States /\ Cells[loc] = Raw
      /\ Cells[loc] # EMPTY
      /\ \A pos \in Positions \ {loc} : Cells[pos] \in Slots
  BY <1>2, Different DEF ConstructInv
<1>4. WellFormed(buckets') /\ Cells' = [Cells EXCEPT ![loc] = elem]
  BY <1>1, <1>2, <1>3, Writes DEF Cells
<1>5. Cells \in [Positions -> States \cup {EMPTY}]
  BY <1>2, CellsAre
<1> HIDE DEF Cells, loc, elem
<1>6. IsArray(Cells')
  BY <1>3, <1>4, <1>5 DEF IsArray, Slots
<1>7. HasFree(Cells')
  <2>1. PICK free \in Positions \ {loc} : Cells[free] = EMPTY
    BY <1>2 DEF ConstructInv, loc
  <2>2. Cells'[free] = EMPTY
    BY <2>1, <1>4, <1>5
  <2>3. QED
    BY <2>1, <2>2 DEF HasFree
<1>8. IInv'
  BY <1>1, <1>2, <1>4, <1>6, <1>7 DEF IInv
<1>9. Contents' = Cells'
  <2>1. \A pos \in Positions : Element(buckets', pos) = Cells'[pos] /\ Cells'[pos] # Moved
    BY <1>6, Different DEF Cells, Array, IsArray
  <2>2. Cells' = [pos \in Positions |-> Cells'[pos]]
    BY <1>6 DEF IsArray
  <2>3. Contents' = [pos \in Positions |->
                       IF Element(buckets', pos) = Moved THEN EMPTY ELSE Element(buckets', pos)]
    BY DEF Contents
  <2>4. QED
    BY <2>1, <2>2, <2>3
<1>10. QED
  BY <1>1, <1>2, <1>4, <1>8, <1>9 DEF loc, elem
-------------------------------------------------------------------------------
(* Shifting a row of elements.                                             *)

LEMMA StartPutInFrontKeepsInv ==
  ASSUME IInv, NEW from \in Positions, NEW elem \in Elems, StartPutInFront(from, elem)
  PROVE  IInv' /\ call = Idle /\ call'.op = "shift" /\ call'.before = Contents
         /\ UNCHANGED <<drain, handed>>
<1> DEFINE to   == Terminator(from)
           hi   == IF to < from THEN TableSize ELSE to
<1>1. /\ call = Idle /\ drain = Idle /\ HasRoom /\ from # to
      /\ call' = [op |-> "shift", from |-> from, to |-> to, elem |-> elem,
                  before |-> Contents, part |-> SparseShift(buckets, from, hi)]
      /\ buckets' = move_out(buckets, at(buckets, hi - 1))
      /\ drain' = drain /\ handed' = handed
  BY DEF StartPutInFront, NoCall
<1>2. WellFormed(buckets) /\ IsArray(Cells) /\ HasFree(Cells) /\ Contents = Cells
  BY <1>1, CellsAre DEF IInv, NoCall
<1>3. to \in Positions /\ IsRow(Cells, from, to)
  BY <1>2, TerminatorIs
<1> HIDE DEF to
<1>4. PICK last \in Positions : /\ from <= last /\ hi \in Nat /\ hi = last + 1 /\ last = hi - 1
                               /\ Dist(from, last) < Dist(from, to)
  <2> DEFINE last == hi - 1
  <2>1. last \in Positions /\ from <= last /\ hi \in Nat /\ hi = last + 1
    BY <1>1, <1>3, SizeNat DEF Positions
  <2>2. Dist(from, last) < Dist(from, to)
    BY <2>1, <1>1, <1>3, RowParts, SizeNat DEF Positions
  <2>3. QED
    BY <2>1, <2>2
<1>5. Cells[last] # EMPTY
  BY <1>3, <1>4 DEF IsRow
<1>6. /\ WellFormed(buckets')
      /\ Cells' = [Cells EXCEPT ![last] = Moved]
      /\ \A q : make_iter(buckets', q) = make_iter(buckets, q)
  BY <1>1, <1>2, <1>4, <1>5, MovesOut DEF Cells
<1>7. /\ Cells'[last] = Moved /\ \A q \in Positions \ {last} : Cells'[q] = Cells[q]
  BY <1>2, <1>4, <1>6 DEF IsArray
<1>8. SparseShift(buckets, from, hi)
        = [lo |-> from, tmp |-> Cells[last], src |-> make_iter(buckets, last),
           dst |-> make_iter(buckets, last + 1)]
  <2>1. Read(buckets, at(buckets, last)) = Cells[last]
    BY <1>2, <1>4, <1>5, ArrayIs DEF Cells
  <2>2. hi - 1 = last
    BY <1>4
  <2> HIDE DEF hi
  <2>3. QED
    BY <2>1, <2>2, <1>4 DEF SparseShift
<1> HIDE DEF Cells
<1>9. /\ call'.op = "shift" /\ call'.from = from /\ call'.to = to /\ call'.elem = elem
      /\ call'.before = Cells
      /\ call'.part = [lo |-> from, tmp |-> Cells[last], src |-> make_iter(buckets, last),
                       dst |-> make_iter(buckets, last + 1)]
  BY <1>1, <1>2, <1>8
<1>10. /\ call'.part.lo = from /\ call'.part.tmp = Cells[last]
       /\ call'.part.src = make_iter(buckets, last)
       /\ call'.part.dst = make_iter(buckets, last + 1)
  BY <1>9
<1>11. PartEnd' = hi /\ (Wraps' <=> to < from)
  BY <1>9, <1>10 DEF PartEnd, Wraps
<1>12. \A pos \in Positions : Shifted(last, pos)' = Cells[pos]
  <2> HIDE DEF hi
  <2>1. \A pos \in Positions : ~(last < pos /\ pos < hi)
    BY <1>4, SizeNat DEF Positions
  <2>2. QED
    BY <2>1, <1>9, <1>10, <1>11 DEF Shifted
<1>13. Reading(last)'
  BY <1>6, <1>7, <1>10, <1>12 DEF Reading
<1>14. last \in from..(hi - 1)
  <2> HIDE DEF hi
  <2>1. QED
    BY <1>4, SizeNat DEF Positions
<1>15. \E pos \in Positions : Cells[pos] = EMPTY /\ Dist(from, to) < Dist(from, pos)
  <2>1. PICK pos \in Positions \ {to} : Cells[pos] = EMPTY
    BY <1>1, <1>2, <1>3, RoomLeavesOne
  <2>2. Dist(from, pos) # Dist(from, to) /\ ~(Dist(from, pos) < Dist(from, to))
    BY <2>1, <1>3, DistInjective DEF IsRow
  <2>3. Dist(from, pos) \in Positions /\ Dist(from, to) \in Positions
    BY <2>1, <1>3, Around
  <2>4. Dist(from, to) < Dist(from, pos)
    BY <2>2, <2>3, SizeNat DEF Positions
  <2>5. QED
    BY <2>1, <2>4
<1>16. Cells[last] = Cells[hi - 1]
  BY <1>4
<1>17. ShiftInv'
  <2> HIDE DEF hi
  <2>1. call' = [op |-> "shift", from |-> call'.from, to |-> call'.to, elem |-> call'.elem,
                 before |-> call'.before, part |-> call'.part]
    BY <1>1
  <2>2. call'.part = [lo |-> call'.part.lo, tmp |-> call'.part.tmp, src |-> call'.part.src,
                      dst |-> call'.part.dst]
    BY <1>9, <1>10
  <2>3. call'.part.tmp = call'.before[PartEnd' - 1]
    BY <1>9, <1>10, <1>11, <1>16
  <2>4. \E s \in call'.part.lo..(PartEnd' - 1) : Reading(s)'
    BY <1>10, <1>11, <1>13, <1>14
  <2>5. QED
    BY <2>1, <2>2, <2>3, <2>4, <1>1, <1>2, <1>3, <1>9, <1>10, <1>15 DEF ShiftInv
<1>18. IInv'
  BY <1>1, <1>6, <1>9, <1>17 DEF IInv, Idle, NoCall
<1>19. QED
  BY <1>1, <1>2, <1>9, <1>18

(* A part lies in the row.                                                 *)
LEMMA PartInRow ==
  ASSUME ShiftInv
  PROVE  /\ PartEnd \in Nat /\ PartEnd - 1 \in Positions /\ call.part.lo \in Positions
         /\ \A pos \in call.part.lo..(PartEnd - 1) :
              /\ pos \in Positions /\ Dist(call.from, pos) < Dist(call.from, call.to)
              /\ call.before[pos] \in Elems
         /\ SecondPartLeft => PartEnd = TableSize
         /\ call.part.lo # call.from => /\ PartEnd = call.to /\ call.part.lo = 0
                                        /\ Wraps /\ call.to > 0
         /\ call.part.lo = call.from => PartEnd = IF Wraps THEN TableSize ELSE call.to
         /\ call.part.tmp \in Elems
<1> DEFINE from == call.from
           to   == call.to
           lo   == call.part.lo
           hi   == PartEnd
<1>1. /\ from \in Positions /\ to \in Positions /\ from # to
      /\ lo = from \/ (lo = 0 /\ to < from /\ to > 0)
      /\ call.part.tmp = call.before[hi - 1]
  BY DEF ShiftInv, Wraps
<1>2. PICK s \in lo..(hi - 1) : TRUE
  BY DEF ShiftInv
<1>3. hi = IF lo = from /\ to < from THEN TableSize ELSE to
  BY DEF PartEnd, Wraps
<1>4. SecondPartLeft => lo = from /\ to < from
  BY DEF SecondPartLeft
<1>5. Wraps <=> to < from
  BY DEF Wraps
<1>6. /\ \A pos \in Positions : Dist(from, pos) < Dist(from, to) => call.before[pos] # EMPTY
      /\ IsArray(call.before)
  BY DEF ShiftInv, IsRow
<1> HIDE DEF from, to, lo, hi
<1>7. hi \in Nat /\ hi - 1 \in Positions /\ lo \in Positions
  BY <1>1, <1>2, <1>3, SizeNat DEF Positions
<1>8. ASSUME NEW pos \in lo..(hi - 1)
      PROVE  pos \in Positions /\ Dist(from, pos) < Dist(from, to) /\ call.before[pos] \in Elems
  <2>1. pos \in Positions
    BY <1>7, SizeNat DEF Positions
  <2>2. IF to < from THEN from <= pos \/ pos < to ELSE from <= pos /\ pos < to
    BY <2>1, <1>1, <1>3, <1>7, SizeNat DEF Positions
  <2>3. Dist(from, pos) < Dist(from, to)
    BY <2>1, <2>2, <1>1, RowParts
  <2>4. QED
    BY <2>1, <2>3, <1>6, Different DEF IsArray
<1>9. lo # from => hi = to /\ lo = 0 /\ to < from /\ to > 0
  BY <1>1, <1>3
<1>10. hi - 1 \in lo..(hi - 1)
  BY <1>2, <1>7, SizeNat DEF Positions
<1>11. call.part.tmp \in Elems
  BY <1>1, <1>8, <1>10
<1>12. QED
  BY <1>3, <1>4, <1>5, <1>7, <1>8, <1>9, <1>11 DEF from, to, lo, hi

(* The iterators are on elements; the loop ends when what was moved from   *)
(* is at the front.                                                        *)
LEMMA FrontIs ==
  ASSUME WellFormed(buckets), ShiftInv,
         NEW s \in call.part.lo..(PartEnd - 1), Reading(s)
  PROVE  /\ s \in Positions /\ call.part.lo \in Positions
         /\ \A pos \in call.part.lo..(s - 1) :
              pos \in Positions /\ Cells[pos] = call.before[pos] /\ Cells[pos] \in Elems
         /\ Cells[call.part.lo] # EMPTY /\ Cells[s] = Moved
         /\ call.part.src.b_end = at(buckets, s)
         /\ AtFront <=> s = call.part.lo
         /\ ~pos_is_empty(buckets, s) /\ ~pos_is_empty(buckets, call.part.lo)
<1> DEFINE lo == call.part.lo
           hi == PartEnd
<1>1. /\ hi \in Nat /\ hi - 1 \in Positions /\ lo \in Positions
      /\ \A pos \in lo..(hi - 1) : pos \in Positions /\ call.before[pos] \in Elems
      /\ lo # call.from => hi = call.to /\ call.to < call.from
  BY PartInRow DEF Wraps
<1>2. call.from \in Positions /\ call.to \in Positions
  BY DEF ShiftInv
<1>3. Cells[s] = Moved /\ \A pos \in Positions \ {s} : Cells[pos] = Shifted(s, pos)
  BY DEF Reading
<1> HIDE DEF lo, hi
<1>4. s \in Positions /\ s \in lo..(hi - 1)
  BY <1>1 DEF lo, hi
<1>5. ASSUME NEW pos \in lo..(s - 1)
      PROVE  pos \in Positions /\ Cells[pos] = call.before[pos] /\ Cells[pos] \in Elems
  <2>1. pos \in lo..(hi - 1) /\ pos < s /\ (lo # call.from => ~(pos >= call.from))
    BY <1>1, <1>2, <1>4, SizeNat DEF Positions
  <2>2. ~(s < pos)
    BY <2>1, <1>4, SizeNat DEF Positions
  <2>3. Shifted(s, pos) = call.before[pos]
    BY <2>1, <2>2 DEF Shifted, lo
  <2>4. QED
    BY <2>1, <2>3, <1>1, <1>3
<1>6. Cells[lo] # EMPTY
  <2>1. lo = s \/ lo \in lo..(s - 1)
    BY <1>1, <1>4, SizeNat DEF Positions
  <2>2. QED
    BY <2>1, <1>3, <1>5, Different
<1>7. ~pos_is_empty(buckets, s) /\ ~pos_is_empty(buckets, lo)
  BY <1>1, <1>3, <1>4, <1>6, CellsAre, Different
<1>8. make_iter(buckets, s).b_end = at(buckets, s) /\ make_iter(buckets, lo).b_end = at(buckets, lo)
  BY <1>1, <1>4, <1>7, IteratorIs
<1>9. call.part.src = make_iter(buckets, s)
  BY DEF Reading
<1>10. AtFront <=> s = lo
  BY <1>1, <1>4, <1>7, <1>8, <1>9, OffsetsDiffer DEF AtFront, lo
<1>11. QED
  BY <1>1, <1>3, <1>4, <1>5, <1>6, <1>7, <1>8, <1>9, <1>10 DEF lo

(* One turn of the loop: the iterators go to the element before and to     *)
(* the one that was moved from.                                            *)
LEMMA MoveOneKeepsInv ==
  ASSUME IInv, MoveOne
  PROVE  /\ IInv' /\ call.op = "shift" /\ call'.op = "shift" /\ call'.before = call.before
         /\ UNCHANGED <<drain, handed>>
<1> DEFINE from == call.from
           to   == call.to
           lo   == call.part.lo
           tmp  == call.part.tmp
           hi   == PartEnd
           src  == decrement(buckets, call.part.src)
           dst  == decrement(buckets, call.part.dst)
<1>1. /\ call.op = "shift" /\ ~AtFront
      /\ call' = [call EXCEPT !.part = [@ EXCEPT !.src = src, !.dst = dst]]
      /\ buckets' = move_from(buckets, dst.b_end, src.b_end)
      /\ drain' = drain /\ handed' = handed
  BY DEF MoveOne
<1>2. ShiftInv /\ drain = Idle /\ WellFormed(buckets)
  BY <1>1, InACall
<1>3. PICK s \in lo..(hi - 1) : Reading(s)
  BY <1>2 DEF ShiftInv
<1>4. /\ s \in Positions /\ lo \in Positions /\ s # lo
      /\ \A pos \in lo..(s - 1) : /\ pos \in Positions /\ Cells[pos] = call.before[pos]
                                  /\ Cells[pos] \in Elems
      /\ Cells[s] = Moved /\ ~pos_is_empty(buckets, s)
  BY <1>1, <1>2, <1>3, FrontIs
<1>5. /\ call.part.src = make_iter(buckets, s) /\ call.part.dst = make_iter(buckets, s + 1)
      /\ \A pos \in Positions \ {s} : Cells[pos] = Shifted(s, pos)
  BY <1>3 DEF Reading
<1>6. hi \in Nat /\ hi - 1 \in Positions
  BY <1>2, PartInRow
<1> HIDE DEF hi, lo
<1>7. PICK r \in Positions : /\ r = s - 1 /\ s = r + 1 /\ r \in lo..(s - 1) /\ r \in lo..(hi - 1)
                             /\ r # s /\ r < s /\ s < hi
  <2> DEFINE x == s - 1
  <2>1. /\ x \in Positions /\ s = x + 1 /\ x \in lo..(s - 1) /\ x \in lo..(hi - 1)
        /\ x # s /\ x < s /\ s < hi
    BY <1>3, <1>4, <1>6, SizeNat DEF Positions
  <2>2. QED
    BY <2>1
<1>8. Cells[r] = call.before[r] /\ Cells[r] \in Elems /\ Cells[r] # EMPTY /\ Cells[s] # EMPTY
  BY <1>4, <1>7, Different
<1>9. ~pos_is_empty(buckets, r)
  BY <1>2, <1>8, CellsAre
<1>10. src = make_iter(buckets, r) /\ dst = make_iter(buckets, s)
  BY <1>2, <1>4, <1>5, <1>7, <1>9, DecrementIs
<1>11. src.b_end = at(buckets, r) /\ dst.b_end = at(buckets, s)
  BY <1>2, <1>4, <1>9, <1>10, IteratorIs
<1>12. /\ WellFormed(buckets')
       /\ Cells' = [Cells EXCEPT ![s] = Cells[r], ![r] = Moved]
       /\ \A q : make_iter(buckets', q) = make_iter(buckets, q)
  <2>1. buckets' = move_from(buckets, at(buckets, s), at(buckets, r))
    BY <1>1, <1>11
  <2>2. Array(buckets)[s] # EMPTY /\ Array(buckets)[r] # EMPTY
    BY <1>8 DEF Cells
  <2>3. s # r /\ WellFormed(buckets)
    BY <1>2, <1>7
  <2> DEFINE new == move_from(buckets, at(buckets, s), at(buckets, r))
  <2>4. /\ WellFormed(new)
        /\ Array(new) = [Array(buckets) EXCEPT ![s] = Array(buckets)[r], ![r] = Moved]
        /\ \A q : make_iter(new, q) = make_iter(buckets, q)
    <3> HIDE DEF from, to, tmp, src, dst
    <3>1. s \in Positions
      BY <1>4
    <3>2. QED
      BY <2>2, <2>3, <3>1, MovesFrom
  <2> HIDE DEF new
  <2>5. QED
    BY <2>1, <2>4 DEF Cells, new
<1>13. Cells \in [Positions -> States \cup {EMPTY}]
  BY <1>2, CellsAre
<1> HIDE DEF from, to, tmp, src, dst, Cells
<1>14. /\ Cells'[s] = Cells[r] /\ Cells'[r] = Moved
       /\ \A q \in Positions \ {s, r} : Cells'[q] = Cells[q]
  BY <1>4, <1>7, <1>12, <1>13
<1> DEFINE part == [lo |-> lo, tmp |-> tmp, src |-> src, dst |-> dst]
<1>15. call' = [op |-> "shift", from |-> from, to |-> to, elem |-> call.elem,
                before |-> call.before, part |-> part]
  <2> DEFINE c == call
             p == call.part
  <2>1. /\ c = [op |-> "shift", from |-> from, to |-> to, elem |-> c.elem,
                before |-> c.before, part |-> p]
        /\ p = [lo |-> lo, tmp |-> tmp, src |-> p.src, dst |-> p.dst]
    BY <1>1, <1>2 DEF ShiftInv, from, to, lo, tmp
  <2>2. call' = [c EXCEPT !.part = [p EXCEPT !.src = src, !.dst = dst]]
    BY <1>1
  <2> HIDE DEF p
  <2>3. [p EXCEPT !.src = src, !.dst = dst] = part
    <3> DEFINE next == [p EXCEPT !.src = src]
    <3>1. next = [lo |-> lo, tmp |-> tmp, src |-> src, dst |-> p.dst]
      BY <2>1
    <3> HIDE DEF next
    <3>2. [next EXCEPT !.dst = dst] = part
      BY <3>1
    <3>3. QED
      BY <3>2 DEF next
  <2> HIDE DEF part, c
  <2>4. call' = [c EXCEPT !.part = part]
    BY <2>2, <2>3
  <2>5. call' = [op |-> "shift", from |-> from, to |-> to, elem |-> c.elem,
                 before |-> c.before, part |-> part]
    BY <2>1, <2>4
  <2>6. QED
    BY <2>5 DEF c
<1> HIDE DEF part
<1>16. /\ call'.op = "shift" /\ call'.from = from /\ call'.to = to /\ call'.elem = call.elem
       /\ call'.before = call.before /\ call'.part = part
  BY <1>15
<1>17. /\ call'.part.lo = lo /\ call'.part.tmp = tmp
       /\ call'.part.src = make_iter(buckets, r) /\ call'.part.dst = make_iter(buckets, s)
  BY <1>10, <1>16 DEF part
<1>18. PartEnd' = hi /\ (Wraps' <=> Wraps)
  BY <1>16, <1>17 DEF PartEnd, Wraps, hi, from, to, lo
<1>19. \A pos \in Positions \ {r} : Cells'[pos] = Shifted(r, pos)'
  <2> SUFFICES ASSUME NEW pos \in Positions \ {r} PROVE Cells'[pos] = Shifted(r, pos)'
    OBVIOUS
  <2>1. CASE pos = s
    <3>1. Shifted(r, pos)' = call.before[pos - 1]
      BY <2>1, <1>7, <1>16, <1>18 DEF Shifted
    <3>2. QED
      BY <2>1, <3>1, <1>7, <1>8, <1>14
  <2>2. CASE pos # s
    <3>1. s < pos <=> r < pos
      BY <2>2, <1>4, <1>7, SizeNat DEF Positions
    <3>2. Shifted(r, pos)' = Shifted(s, pos)
      BY <3>1, <1>16, <1>17, <1>18 DEF Shifted, from, to, lo, hi
    <3>3. QED
      BY <2>2, <3>2, <1>5, <1>14
  <2>3. QED
    BY <2>1, <2>2
<1>20. Reading(r)'
  BY <1>7, <1>12, <1>14, <1>17, <1>19 DEF Reading
<1>21. ShiftInv'
  <2>1. call' = [op |-> "shift", from |-> call'.from, to |-> call'.to, elem |-> call'.elem,
                 before |-> call'.before, part |-> call'.part]
    BY <1>15, <1>16
  <2>2. call'.part = [lo |-> call'.part.lo, tmp |-> call'.part.tmp, src |-> call'.part.src,
                      dst |-> call'.part.dst]
    BY <1>16, <1>17 DEF part
  <2>3. /\ lo = from \/ (lo = 0 /\ Wraps /\ to > 0)
        /\ tmp = call.before[hi - 1]
    BY <1>2 DEF ShiftInv, lo, from, to, hi, tmp
  <2>4. /\ from \in Positions /\ to \in Positions /\ from # to /\ call.elem \in Elems
        /\ IsArray(call.before) /\ IsRow(call.before, from, to)
        /\ \E pos \in Positions : call.before[pos] = EMPTY /\ Dist(from, to) < Dist(from, pos)
    BY <1>2 DEF ShiftInv, from, to
  <2>5. \E x \in call'.part.lo..(PartEnd' - 1) : Reading(x)'
    BY <1>7, <1>17, <1>18, <1>20
  <2>6. QED
    BY <2>1, <2>2, <2>3, <2>4, <2>5, <1>16, <1>17, <1>18 DEF ShiftInv
<1>22. IInv'
  BY <1>1, <1>2, <1>12, <1>16, <1>21 DEF IInv, Idle, NoCall
<1>23. QED
  BY <1>1, <1>16, <1>22

(* The moved-out element at the front of the range.                        *)
LEMMA FrontSetIs ==
  ASSUME WellFormed(buckets), ShiftInv, AtFront
  PROVE  /\ WellFormed(FrontSet) /\ Bits(FrontSet) = Bits(buckets)
         /\ \A q \in Positions : at(FrontSet, q) = at(buckets, q)
         /\ \A q : make_iter(FrontSet, q) = make_iter(buckets, q)
         /\ Array(FrontSet) \in [Positions -> Slots]
         /\ Array(FrontSet)[call.part.lo] = call.part.tmp
         /\ \A pos \in Positions \ {call.part.lo} :
               Array(FrontSet)[pos] = Shifted(call.part.lo, pos)
<1> DEFINE lo  == call.part.lo
           tmp == call.part.tmp
<1>1. PICK s \in lo..(PartEnd - 1) : Reading(s)
  BY DEF ShiftInv
<1>2. s = lo /\ lo \in Positions /\ Cells[lo] # EMPTY
  BY <1>1, FrontIs
<1>3. tmp \in Elems /\ tmp \in States /\ tmp \in Slots
  BY PartInRow, Different DEF Slots
<1>4. /\ WellFormed(FrontSet) /\ Bits(FrontSet) = Bits(buckets)
      /\ Array(FrontSet) = [Cells EXCEPT ![lo] = tmp]
      /\ \A q \in Positions : at(FrontSet, q) = at(buckets, q)
      /\ \A q : make_iter(FrontSet, q) = make_iter(buckets, q)
  <2>1. FrontSet = Write(buckets, at(buckets, lo), tmp)
    BY DEF FrontSet
  <2>2. Array(buckets)[lo] # EMPTY
    BY <1>2 DEF Cells
  <2> HIDE DEF lo, tmp
  <2>3. QED
    BY <1>2, <1>3, <2>1, <2>2, Writes DEF Cells
<1>5. \A pos \in Positions \ {lo} : Cells[pos] = Shifted(lo, pos)
  BY <1>1, <1>2 DEF Reading
<1>6. \A pos \in Positions \ {lo} : Shifted(lo, pos) \in Slots
  <2> SUFFICES ASSUME NEW pos \in Positions \ {lo} PROVE Shifted(lo, pos) \in Slots
    OBVIOUS
  <2>1. /\ call.from \in Positions /\ call.before \in [Positions -> Slots]
    BY DEF ShiftInv, IsArray
  <2>2. lo < pos => pos - 1 \in Positions
    BY <1>2, SizeNat DEF Positions
  <2>3. pos >= call.from /\ pos # call.from => pos - 1 \in Positions
    BY <2>1, SizeNat DEF Positions
  <2>4. TableSize - 1 \in Positions
    BY SizeNat DEF Positions
  <2> HIDE DEF lo
  <2>5. QED
    BY <2>1, <2>2, <2>3, <2>4 DEF Shifted
<1>7. Cells \in [Positions -> States \cup {EMPTY}]
  BY CellsAre
<1> HIDE DEF lo, tmp, Cells
<1>8. /\ Array(FrontSet)[lo] = tmp
      /\ \A pos \in Positions \ {lo} : Array(FrontSet)[pos] = Shifted(lo, pos)
      /\ Array(FrontSet) = [pos \in Positions |-> Array(FrontSet)[pos]]
  BY <1>2, <1>4, <1>5, <1>7
<1>9. Array(FrontSet) \in [Positions -> Slots]
  <2>1. \A pos \in Positions : Array(FrontSet)[pos] \in Slots
    BY <1>3, <1>6, <1>8
  <2> DEFINE f == Array(FrontSet)
  <2> HIDE DEF f
  <2>2. f = [pos \in Positions |-> f[pos]] /\ \A pos \in Positions : f[pos] \in Slots
    BY <1>8, <2>1 DEF f
  <2>3. f \in [Positions -> Slots]
    BY <2>2
  <2>4. QED
    BY <2>3 DEF f
<1>10. QED
  BY <1>4, <1>8, <1>9 DEF lo, tmp

(* The second part of a row that wraps around begins.                      *)
LEMMA StartSecondPartKeepsInv ==
  ASSUME IInv, StartSecondPart
  PROVE  /\ IInv' /\ call.op = "shift" /\ call'.op = "shift" /\ call'.before = call.before
         /\ UNCHANGED <<drain, handed>>
<1> DEFINE from  == call.from
           to    == call.to
           tmp   == call.part.tmp
           front == FrontSet
           a     == Array(front)
<1>1. /\ call.op = "shift" /\ AtFront /\ SecondPartLeft
      /\ buckets' = move_out(front, at(buckets, to - 1))
      /\ call' = [call EXCEPT !.part = SparseShift(front, 0, to)]
      /\ drain' = drain /\ handed' = handed
  BY DEF StartSecondPart
<1>2. ShiftInv /\ drain = Idle /\ WellFormed(buckets)
  BY <1>1, InACall
<1>3. /\ call = [op |-> "shift", from |-> from, to |-> to, elem |-> call.elem,
                 before |-> call.before, part |-> call.part]
      /\ from \in Positions /\ to \in Positions /\ from # to /\ call.elem \in Elems
      /\ IsArray(call.before) /\ IsRow(call.before, from, to)
      /\ \E pos \in Positions : call.before[pos] = EMPTY /\ Dist(from, to) < Dist(from, pos)
      /\ tmp = call.before[PartEnd - 1]
  BY <1>2 DEF ShiftInv
<1>4. /\ call.part.lo = from /\ to < from /\ to > 0 /\ PartEnd = TableSize
      /\ tmp = call.before[TableSize - 1]
  BY <1>1, <1>2, <1>3, PartInRow DEF SecondPartLeft
<1>5. PICK last \in Positions : /\ last = to - 1 /\ to = last + 1 /\ last < from /\ last # from
                                /\ last \in 0..(to - 1)
  BY <1>3, <1>4, SizeNat DEF Positions
<1>6. /\ WellFormed(front)
      /\ \A q \in Positions : at(front, q) = at(buckets, q)
      /\ \A q : make_iter(front, q) = make_iter(buckets, q)
      /\ a \in [Positions -> Slots] /\ a[from] = tmp
      /\ \A pos \in Positions \ {from} : a[pos] = Shifted(from, pos)
  BY <1>1, <1>2, <1>4, FrontSetIs
<1>7. \A pos \in Positions \ {from} :
         Shifted(from, pos) = IF from < pos THEN call.before[pos - 1] ELSE call.before[pos]
  BY <1>3, <1>4, SizeNat DEF Shifted, Positions
<1>8. a[last] = call.before[last] /\ a[last] # EMPTY
  <2>1. a[last] = call.before[last]
    <3> HIDE DEF from, a
    <3>1. ~(from < last)
      BY <1>3, <1>5, SizeNat DEF Positions
    <3>2. QED
      BY <1>5, <1>6, <1>7, <3>1
  <2>2. Dist(from, last) < Dist(from, to)
    BY <1>3, <1>4, <1>5, RowParts, SizeNat DEF Positions
  <2>3. QED
    BY <1>3, <2>1, <2>2 DEF IsRow
<1> HIDE DEF front
<1>9. /\ WellFormed(buckets')
      /\ Cells' = [a EXCEPT ![last] = Moved]
      /\ \A q : make_iter(buckets', q) = make_iter(buckets, q)
  <2>1. buckets' = move_out(front, at(front, last))
    BY <1>1, <1>5, <1>6
  <2>2. /\ WellFormed(move_out(front, at(front, last)))
        /\ Array(move_out(front, at(front, last))) = [a EXCEPT ![last] = Moved]
        /\ \A q : make_iter(move_out(front, at(front, last)), q) = make_iter(front, q)
    BY <1>6, <1>8, MovesOut
  <2>3. QED
    BY <1>6, <2>1, <2>2 DEF Cells
<1> DEFINE part == [lo |-> 0, tmp |-> call.before[last], src |-> make_iter(buckets, last),
                    dst |-> make_iter(buckets, to)]
<1>10. SparseShift(front, 0, to) = part
  <2>1. Read(front, at(front, last)) = a[last]
    BY <1>6, <1>8, ArrayIs
  <2>2. QED
    BY <1>5, <1>6, <1>8, <2>1 DEF SparseShift
<1>11. call' = [op |-> "shift", from |-> from, to |-> to, elem |-> call.elem,
                before |-> call.before, part |-> part]
  <2> HIDE DEF part, from, to
  <2>1. QED
    BY <1>1, <1>3, <1>10
<1>12. /\ call'.op = "shift" /\ call'.from = from /\ call'.to = to /\ call'.elem = call.elem
       /\ call'.before = call.before /\ call'.part = part
  <2> HIDE DEF part, from, to
  <2>1. QED
    BY <1>11
<1>13. /\ call'.part.lo = 0 /\ call'.part.tmp = call.before[last]
       /\ call'.part.src = make_iter(buckets, last) /\ call'.part.dst = make_iter(buckets, to)
  BY <1>12
<1> HIDE DEF from, to, tmp, part, a, Cells
<1>14. PartEnd' = to /\ Wraps'
  <2>1. 0 # from
    BY <1>3, <1>4, SizeNat DEF Positions
  <2>2. PartEnd' = to
    BY <2>1, <1>12, <1>13 DEF PartEnd
  <2>3. Wraps'
    BY <1>4, <1>12 DEF Wraps
  <2>4. QED
    BY <2>2, <2>3
<1>15. Cells'[last] = Moved /\ \A q \in Positions \ {last} : Cells'[q] = a[q]
  BY <1>5, <1>6, <1>9
<1>16. \A pos \in Positions \ {last} : Cells'[pos] = Shifted(last, pos)'
  <2> SUFFICES ASSUME NEW pos \in Positions \ {last} PROVE Cells'[pos] = Shifted(last, pos)'
    OBVIOUS
  <2>1. ~(last < pos /\ pos < to)
    BY <1>3, <1>5, SizeNat DEF Positions
  <2>2. 0 # from
    BY <1>3, <1>4, SizeNat DEF Positions
  <2>3. Shifted(last, pos)' = IF pos >= from
                              THEN call.before[IF pos = from THEN TableSize - 1 ELSE pos - 1]
                              ELSE call.before[pos]
    BY <2>1, <2>2, <1>12, <1>13, <1>14 DEF Shifted
  <2>4. CASE pos = from
    <3>1. pos >= from
      BY <2>4, SizeNat DEF Positions
    <3>2. QED
      BY <2>3, <2>4, <3>1, <1>4, <1>6, <1>15
  <2>5. CASE pos # from
    <3>1. from < pos <=> pos >= from
      BY <2>5, <1>3, SizeNat DEF Positions
    <3>2. QED
      BY <2>3, <2>5, <3>1, <1>6, <1>7, <1>15
  <2>6. QED
    BY <2>4, <2>5
<1>17. Reading(last)'
  BY <1>5, <1>9, <1>13, <1>15, <1>16 DEF Reading
<1>18. ShiftInv'
  <2>1. call' = [op |-> "shift", from |-> call'.from, to |-> call'.to, elem |-> call'.elem,
                 before |-> call'.before, part |-> call'.part]
    BY <1>11, <1>12
  <2>2. call'.part = [lo |-> call'.part.lo, tmp |-> call'.part.tmp, src |-> call'.part.src,
                      dst |-> call'.part.dst]
    BY <1>12, <1>13 DEF part
  <2>3. call'.part.tmp = call'.before[PartEnd' - 1]
    BY <1>5, <1>12, <1>13, <1>14
  <2>4. \E x \in call'.part.lo..(PartEnd' - 1) : Reading(x)'
    BY <1>5, <1>13, <1>14, <1>17
  <2>5. QED
    BY <2>1, <2>2, <2>3, <2>4, <1>3, <1>4, <1>12, <1>13, <1>14 DEF ShiftInv
<1>19. IInv'
  BY <1>1, <1>2, <1>9, <1>12, <1>18 DEF IInv, Idle, NoCall
<1>20. QED
  BY <1>1, <1>12, <1>19

(* The buckets when the row has been shifted: its last element is in front.*)
LEMMA RowShifted ==
  ASSUME WellFormed(buckets), ShiftInv, AtFront,
         NEW bs, bs = IF call.part.lo = call.from THEN FrontSet
                      ELSE swap_with(FrontSet, at(buckets, call.from), at(buckets, 0))
  PROVE  /\ WellFormed(bs)
         /\ Array(bs) \in [Positions -> Slots]
         /\ Array(bs)[call.from] = call.part.tmp
         /\ call.part.lo # call.from => Array(bs)[0] = Shifted(0, call.from)
         /\ \A pos \in Positions :
               pos # call.from /\ pos # call.part.lo =>
                  Array(bs)[pos] = Shifted(call.part.lo, pos)
<1>1. /\ WellFormed(FrontSet)
      /\ \A q \in Positions : at(FrontSet, q) = at(buckets, q)
      /\ Array(FrontSet) \in [Positions -> Slots]
      /\ Array(FrontSet)[call.part.lo] = call.part.tmp
      /\ \A pos \in Positions \ {call.part.lo} :
            Array(FrontSet)[pos] = Shifted(call.part.lo, pos)
  BY FrontSetIs
<1>2. /\ call.from \in Positions /\ call.part.lo \in Positions
      /\ call.part.lo # call.from => call.part.lo = 0 /\ PartEnd = call.to /\ Wraps
  BY PartInRow DEF ShiftInv
<1>3. CASE call.part.lo = call.from
  BY <1>1, <1>2, <1>3
<1>4. CASE call.part.lo # call.from
  <2> DEFINE f == FrontSet
             a == Array(f)
             p == call.from
  <2>1. /\ WellFormed(f) /\ a \in [Positions -> Slots] /\ a[0] = call.part.tmp
        /\ \A pos \in Positions \ {0} : a[pos] = Shifted(0, pos)
        /\ p \in Positions /\ 0 \in Positions /\ p # 0
        /\ bs = swap_with(f, at(f, p), at(f, 0))
    BY <1>1, <1>2, <1>4
  <2>2. call.part.tmp # EMPTY
    BY PartInRow, Different
  <2>3. Shifted(0, p) # EMPTY
    <3>1. Shifted(0, p) = call.before[TableSize - 1]
      BY <1>2, <1>4, <2>1, SizeNat DEF Shifted, Wraps, ShiftInv, Positions
    <3>2. /\ TableSize - 1 \in Positions /\ call.to < p /\ call.to \in Positions
          /\ IsRow(call.before, p, call.to)
      BY <1>2, <1>4, SizeNat DEF ShiftInv, Wraps, Positions
    <3>3. Dist(p, TableSize - 1) < Dist(p, call.to)
      BY <2>1, <3>2, RowParts, SizeNat DEF Positions
    <3>4. QED
      BY <3>1, <3>2, <3>3 DEF IsRow
  <2>4. a[0] # EMPTY /\ a[p] # EMPTY
    BY <2>1, <2>2, <2>3
  <2> DEFINE new == swap_with(f, at(f, p), at(f, 0))
  <2>5. WellFormed(new) /\ Array(new) = [a EXCEPT ![p] = a[0], ![0] = a[p]]
    <3> HIDE DEF f, p
    <3>1. WellFormed(f) /\ p \in Positions /\ 0 \in Positions /\ p # 0
      BY <2>1
    <3>2. Array(f)[0] # EMPTY /\ Array(f)[p] # EMPTY
      BY <2>4
    <3>3. QED
      BY <3>1, <3>2, Swaps
  <2>6. bs = new
    BY <2>1
  <2> HIDE DEF f, a, p, new
  <2>7. /\ Array(bs) \in [Positions -> Slots] /\ Array(bs)[p] = call.part.tmp
        /\ Array(bs)[0] = Shifted(0, p)
        /\ \A pos \in Positions \ {p, 0} : Array(bs)[pos] = Shifted(0, pos)
    BY <2>1, <2>5, <2>6
  <2>8. QED
    BY <2>5, <2>6, <2>7, <1>2, <1>4 DEF p
<1>5. QED
  BY <1>3, <1>4

(* The insertion's position is handed out: the element that was there goes *)
(* to the end of the row.                                                  *)
LEMMA FinishPutInFrontKeepsInv ==
  ASSUME IInv, FinishPutInFront
  PROVE  /\ IInv' /\ call.op = "shift" /\ call'.op = "construct"
         /\ call'.before = call.before
         /\ UNCHANGED <<drain, handed>>
<1> DEFINE from == call.from
           to   == call.to
           lo   == call.part.lo
           tmp  == call.part.tmp
           elem == call.elem
           hi   == PartEnd
           b    == call.before
           bs   == IF lo = from THEN FrontSet
                   ELSE swap_with(FrontSet, at(buckets, from), at(buckets, 0))
           a    == Array(bs)
<1>1. /\ call.op = "shift" /\ AtFront /\ ~SecondPartLeft
      /\ buckets' = MoveFrontTo(bs, from, to)
      /\ call' = [op |-> "construct", location |-> from, elem |-> elem, before |-> b]
      /\ drain' = drain /\ handed' = handed
  BY DEF FinishPutInFront
<1>2. ShiftInv /\ drain = Idle /\ WellFormed(buckets)
  BY <1>1, InACall
<1>3. /\ from \in Positions /\ to \in Positions /\ from # to /\ elem \in Elems
      /\ IsArray(b) /\ IsRow(b, from, to) /\ tmp = b[hi - 1]
      /\ \E pos \in Positions : b[pos] = EMPTY /\ Dist(from, to) < Dist(from, pos)
  BY <1>2 DEF ShiftInv
<1>4. /\ lo \in Positions /\ tmp \in Elems
      /\ lo # from => lo = 0 /\ to < from /\ to > 0 /\ hi = to
      /\ lo = from => IF to < from THEN to = 0 /\ hi = TableSize ELSE hi = to
  <2>1. lo = from /\ to < from => to = 0
    BY <1>1, <1>3, SizeNat DEF SecondPartLeft, Positions
  <2>2. QED
    BY <2>1, <1>2, PartInRow DEF Wraps
<1>5. /\ WellFormed(bs) /\ a \in [Positions -> Slots] /\ a[from] = tmp
      /\ lo # from => a[0] = Shifted(0, from)
      /\ \A pos \in Positions : pos # from /\ pos # lo => a[pos] = Shifted(lo, pos)
  BY <1>1, <1>2, RowShifted
<1>6. \A x, pos : Shifted(x, pos) =
         IF x < pos /\ pos < hi THEN b[pos - 1]
         ELSE IF lo # from /\ pos >= from
              THEN b[IF pos = from THEN TableSize - 1 ELSE pos - 1]
              ELSE b[pos]
  BY DEF Shifted
<1> HIDE DEF from, to, lo, tmp, elem, hi, b, bs
<1>7. to # lo /\ a[to] = EMPTY /\ a[from] # EMPTY
  <2>1. to # lo /\ ~(lo < to /\ to < hi) /\ ~(lo # from /\ to >= from)
    BY <1>3, <1>4, SizeNat DEF Positions
  <2>2. Shifted(lo, to) = b[to]
    BY <2>1, <1>6
  <2>3. a[to] = b[to]
    BY <2>1, <2>2, <1>3, <1>5
  <2>4. QED
    BY <2>1, <2>3, <1>3, <1>4, <1>5, Different DEF IsRow
<1>8. WellFormed(buckets') /\ Cells' = [a EXCEPT ![to] = a[from], ![from] = Raw]
  BY <1>1, <1>3, <1>5, <1>7, MovesFront DEF Cells
<1> HIDE DEF a, Cells
<1>9. /\ Cells'[from] = Raw /\ Cells'[to] = tmp
      /\ \A pos \in Positions : pos # from /\ pos # to => Cells'[pos] = a[pos]
  BY <1>3, <1>5, <1>8
<1>10. \A pos \in Positions \ {from} :
          Cells'[pos] = IF Dist(from, pos) <= Dist(from, to) THEN b[Prev1(pos)] ELSE b[pos]
  <2> SUFFICES ASSUME NEW pos \in Positions, pos # from
               PROVE  Cells'[pos] = IF Dist(from, pos) <= Dist(from, to)
                                    THEN b[Prev1(pos)] ELSE b[pos]
    OBVIOUS
  <2>1. CASE pos = to
    <3>1. Prev1(to) = hi - 1
      BY <1>3, <1>4, SizeNat DEF Prev1, mod_sub, Positions
    <3>2. Dist(from, to) <= Dist(from, to)
      BY <1>3, Around, SizeNat DEF Positions
    <3>3. QED
      BY <2>1, <3>1, <3>2, <1>3, <1>9
  <2>2. CASE pos # to /\ pos = lo
    <3>1. lo # from /\ lo = 0 /\ to < from /\ to > 0 /\ hi = to
      BY <2>2, <1>4
    <3>2. Shifted(0, from) = b[TableSize - 1]
      <4>1. ~(0 < from /\ from < hi) /\ from >= from
        BY <3>1, <1>3, SizeNat DEF Positions
      <4>2. QED
        BY <3>1, <4>1, <1>6
    <3>3. Prev1(pos) = TableSize - 1 /\ Dist(from, pos) <= Dist(from, to)
      BY <2>2, <3>1, <1>3, SizeNat DEF Prev1, Dist, mod_sub, Positions
    <3>4. QED
      BY <2>2, <3>1, <3>2, <3>3, <1>5, <1>9
  <2>3. CASE pos # to /\ pos # lo
    <3>1. Cells'[pos] = Shifted(lo, pos)
      BY <2>3, <1>5, <1>9
    <3>2. Dist(from, pos) <= Dist(from, to) <=>
            IF to < from THEN from <= pos \/ pos < to ELSE from <= pos /\ pos < to
      <4>1. Dist(from, pos) # Dist(from, to)
        BY <2>3, <1>3, DistInjective
      <4>2. Dist(from, pos) \in Positions /\ Dist(from, to) \in Positions
        BY <1>3, Around
      <4>3. Dist(from, pos) <= Dist(from, to) <=> Dist(from, pos) < Dist(from, to)
        BY <4>1, <4>2, SizeNat DEF Positions
      <4>4. QED
        BY <4>3, <1>3, RowParts
    <3>3. Shifted(lo, pos) = IF lo < pos /\ pos < hi THEN b[pos - 1]
                             ELSE IF lo # from /\ pos >= from THEN b[pos - 1] ELSE b[pos]
      BY <1>6
    <3>4. Shifted(lo, pos) = IF Dist(from, pos) <= Dist(from, to) THEN b[pos - 1] ELSE b[pos]
      <4>1. CASE lo = from
        BY <4>1, <3>2, <3>3, <2>3, <1>3, <1>4, SizeNat DEF Positions
      <4>2. CASE lo # from
        BY <4>2, <3>2, <3>3, <2>3, <1>3, <1>4, SizeNat DEF Positions
      <4>3. QED
        BY <4>1, <4>2
    <3>5. Dist(from, pos) <= Dist(from, to) => Prev1(pos) = pos - 1
      <4>1. pos # 0 => Prev1(pos) = pos - 1
        BY SizeNat DEF Prev1, mod_sub, Positions
      <4>2. Dist(from, pos) <= Dist(from, to) => pos # 0
        BY <3>2, <2>3, <1>3, <1>4, SizeNat DEF Positions
      <4>3. QED
        BY <4>1, <4>2
    <3>6. QED
      BY <3>1, <3>4, <3>5
  <2>4. QED
    BY <2>1, <2>2, <2>3
<1>11. \E pos \in Positions \ {from} : Cells'[pos] = EMPTY
  <2>1. PICK pos \in Positions : b[pos] = EMPTY /\ Dist(from, to) < Dist(from, pos)
    BY <1>3
  <2>2. Dist(from, pos) \in Positions /\ Dist(from, to) \in Positions /\ Dist(from, from) = 0
    <3>1. Dist(from, from) = 0
      BY <1>3, SizeNat DEF Dist, mod_sub, Positions
    <3>2. QED
      BY <2>1, <3>1, <1>3, Around
  <2>3. ~(Dist(from, pos) <= Dist(from, to)) /\ pos # from
    BY <2>1, <2>2, SizeNat DEF Positions
  <2>4. QED
    BY <2>1, <2>3, <1>10
<1>12. \A pos \in Positions \ {from} : Cells'[pos] \in Slots
  BY <1>4, <1>5, <1>9 DEF Slots
<1>13. /\ call'.op = "construct" /\ call'.location = from /\ call'.elem = elem
       /\ call'.before = b
  BY <1>1
<1>14. ConstructInv'
  <2>1. call' = [op |-> "construct", location |-> call'.location, elem |-> call'.elem,
                 before |-> call'.before]
    BY <1>1
  <2>2. \E t \in Positions : PutAtRow(t)'
    <3>1. PICK t \in Positions : t = to
      BY <1>3
    <3>2. QED
      BY <3>1, <1>3, <1>10, <1>13 DEF PutAtRow
  <2>3. QED
    BY <2>1, <2>2, <1>3, <1>9, <1>11, <1>12, <1>13 DEF ConstructInv
<1>15. IInv'
  BY <1>1, <1>2, <1>8, <1>13, <1>14 DEF IInv, Idle, NoCall
<1>16. QED
  BY <1>1, <1>13, <1>15 DEF b
-------------------------------------------------------------------------------
(* Draining: how the walk goes round, and which buckets it frees.          *)

LEMMA WalkSteps ==
  ASSUME NEW start \in Positions, NEW i \in Positions, NEW pos \in Positions
  PROVE  /\ Next1(i) \in Positions
         /\ i # start => (Steps(start, pos) < Steps(start, Next1(i))
                            <=> pos = i \/ Steps(start, pos) < Steps(start, i))
         /\ ~(Steps(start, pos) < Steps(start, Next1(start)))
         /\ pos # start => Steps(start, pos) < Steps(start, start)
         /\ ~(Steps(start, i) < Steps(start, i))
         /\ Steps(start, pos) \in Nat
BY SizeNat DEF Positions, Steps, Dist, Next1, mod_add, mod_sub

(* Buckets are in the order of the positions.                              *)
LEMMA BucketOrder ==
  ASSUME NEW p \in Positions, NEW q \in Positions
  PROVE  /\ p <= q => idx_of_bucket(p) <= idx_of_bucket(q)
         /\ idx_of_bucket(p) < idx_of_bucket(q) => p < q
         /\ \A r \in Positions :
              p <= r /\ r <= q /\ idx_of_bucket(p) = idx_of_bucket(q)
                 => idx_of_bucket(r) = idx_of_bucket(q)
<1>1. ASSUME NEW x \in Positions, NEW y \in Positions
      PROVE  /\ x \in Nat /\ y \in Nat
             /\ idx_of_bucket(x) \in Nat /\ idx_of_bucket(y) \in Nat
             /\ x <= y => idx_of_bucket(x) <= idx_of_bucket(y)
             /\ idx_of_bucket(x) < idx_of_bucket(y) => x < y
  <2>1. x \in Nat /\ y \in Nat
    BY BucketOfPosition
  <2>2. /\ idx_of_bucket(x) \in Nat /\ idx_of_bucket(y) \in Nat
        /\ x < y => idx_of_bucket(x) <= idx_of_bucket(y)
        /\ idx_of_bucket(x) < idx_of_bucket(y) => x < y
    BY <2>1, PositionOrder
  <2>3. QED
    BY <2>1, <2>2
<1>2. ASSUME NEW r \in Positions, p <= r, r <= q, idx_of_bucket(p) = idx_of_bucket(q)
      PROVE  idx_of_bucket(r) = idx_of_bucket(q)
  <2>1. idx_of_bucket(p) <= idx_of_bucket(r) /\ idx_of_bucket(r) \in Nat
    BY <1>1, <1>2
  <2>2. idx_of_bucket(r) <= idx_of_bucket(q) /\ idx_of_bucket(q) \in Nat
    BY <1>1, <1>2
  <2>3. QED
    BY <2>1, <2>2, <1>2
<1>3. QED
  BY <1>1, <1>2

(* A position is the first of its bucket's in use if its offset is zero.   *)
LEMMA FirstOfBucket ==
  ASSUME NEW bs, WellFormed(bs), NEW pos \in Positions
  PROVE  offset_in_bucket(bs, pos) = 0 <=>
           \A p \in Positions :
              p < pos /\ idx_of_bucket(p) = idx_of_bucket(pos) => Array(bs)[p] = EMPTY
<1> DEFINE b == idx_of_bucket(pos)
           i == idx_inside_bucket(pos)
           B == Below(bs[b].bv, i)
<1>1. /\ b \in Buckets /\ pos \in Nat /\ i \in 0..(BucketWidth - 1) /\ i \in Nat
      /\ bs[b].bv \in SUBSET (0..(BucketWidth - 1))
  <2>1. b \in Buckets /\ bs[b].bv \in SUBSET (0..(BucketWidth - 1)) /\ i \in 0..(BucketWidth - 1)
    BY InBucket
  <2>2. pos \in Nat
    BY BucketOfPosition
  <2> HIDE DEF b, i
  <2>3. i \in Nat
    BY <2>1, SizeNat
  <2>4. QED
    BY <2>1, <2>2, <2>3
<1>2. offset_in_bucket(bs, pos) = Cardinality(B) /\ IsFiniteSet(B)
  <2>1. IsFiniteSet(Below(bs[b].bv, i))
    <3> HIDE DEF b, i
    <3>1. QED
      BY <1>1, BelowCounts
  <2>2. QED
    BY <2>1, OffsetIs
<1>3. Cardinality(B) = 0 <=> B = {}
  BY <1>2, FS_EmptySet
<1>4. ASSUME NEW p \in Positions, p < pos, idx_of_bucket(p) = b, Array(bs)[p] # EMPTY
      PROVE  B # {}
  <2>1. p \in Nat /\ ~pos_is_empty(bs, p)
    BY <1>4, BucketOfPosition, ArrayIs
  <2>2. idx_inside_bucket(p) \in bs[b].bv
    BY <2>1, <1>4 DEF pos_is_empty, exists_in_bucket
  <2>3. idx_inside_bucket(p) < i
    BY <2>1, <1>1, <1>4, PositionOrder
  <2>4. QED
    BY <2>2, <2>3 DEF Below
<1>5. ASSUME NEW j \in B
      PROVE  \E p \in Positions : p < pos /\ idx_of_bucket(p) = b /\ Array(bs)[p] # EMPTY
  <2>1. j \in bs[b].bv /\ j < i /\ j \in 0..(BucketWidth - 1) /\ b \in Nat
    BY <1>1, BucketOfPosition DEF Below
  <2> HIDE DEF b, i, B
  <2>2. PICK p \in Positions : p = PositionIn(b, j)
    BY <2>1, <1>1 DEF WellFormed
  <2>3. p \in Nat /\ idx_of_bucket(p) = b /\ idx_inside_bucket(p) = j
    BY <2>1, <2>2, PositionOfBit
  <2>4. p < pos
    BY <2>1, <2>3, <1>1, PositionOrder DEF b, i
  <2>5. ~pos_is_empty(bs, p)
    BY <2>1, <2>3 DEF pos_is_empty, exists_in_bucket
  <2>6. QED
    BY <2>3, <2>4, <2>5, ArrayIs
<1> HIDE DEF B, b
<1>6. QED
  BY <1>2, <1>3, <1>4, <1>5 DEF b

(* Buckets that are freed take their elements along, and no other.         *)
LEMMA FreedIs ==
  ASSUME NEW bs, WellFormed(bs), NEW T, NEW new,
         new = [b \in Buckets |-> IF b \in T THEN EmptyBucket ELSE bs[b]]
  PROVE  /\ WellFormed(new)
         /\ \A pos \in Positions :
              /\ Array(new)[pos] = IF idx_of_bucket(pos) \in T THEN EMPTY ELSE Array(bs)[pos]
              /\ idx_of_bucket(pos) \notin T => /\ at(new, pos) = at(bs, pos)
                                                /\ offset_in_bucket(new, pos)
                                                     = offset_in_bucket(bs, pos)
<1>1. /\ bs \in [Buckets -> Bucket]
      /\ \A b \in Buckets : Len(bs[b].data) = Cardinality(bs[b].bv)
      /\ \A b \in Buckets : \A i \in bs[b].bv : PositionIn(b, i) \in Positions
  BY DEF WellFormed
<1>2. /\ EmptyBucket \in Bucket /\ EmptyBucket.bv = {}
      /\ Len(EmptyBucket.data) = Cardinality(EmptyBucket.bv)
  <2>1. /\ EmptyBucket.bv = {} /\ EmptyBucket.data = << >>
        /\ EmptyBucket = [bv |-> {}, data |-> << >>]
    BY DEF EmptyBucket
  <2>2. Cardinality({}) = 0 /\ << >> \in Seq(States) /\ Len(<< >>) = 0
    BY FS_EmptySet
  <2>3. QED
    BY <2>1, <2>2 DEF Bucket
<1>3. \A b \in Buckets : new[b] = IF b \in T THEN EmptyBucket ELSE bs[b]
  OBVIOUS
<1> HIDE DEF EmptyBucket
<1>4. WellFormed(new)
  <2>1. new \in [Buckets -> Bucket]
    BY <1>1, <1>2
  <2>2. \A b \in Buckets : Len(new[b].data) = Cardinality(new[b].bv)
    BY <1>1, <1>2, <1>3
  <2>3. \A b \in Buckets : \A i \in new[b].bv : PositionIn(b, i) \in Positions
    BY <1>1, <1>2, <1>3
  <2>4. QED
    BY <2>1, <2>2, <2>3 DEF WellFormed
<1>5. ASSUME NEW pos \in Positions
      PROVE  /\ Array(new)[pos] = IF idx_of_bucket(pos) \in T THEN EMPTY ELSE Array(bs)[pos]
             /\ idx_of_bucket(pos) \notin T => /\ at(new, pos) = at(bs, pos)
                                               /\ offset_in_bucket(new, pos)
                                                    = offset_in_bucket(bs, pos)
  <2> DEFINE b == idx_of_bucket(pos)
  <2>1. b \in Buckets
    BY BucketOfPosition
  <2>2. CASE b \in T
    <3>1. new[b].bv = {}
      BY <2>1, <2>2, <1>2, <1>3
    <3>2. pos_is_empty(new, pos)
      BY <3>1 DEF pos_is_empty, exists_in_bucket
    <3>3. QED
      BY <2>2, <3>2, <1>4, ArrayIs
  <2>3. CASE b \notin T
    <3>1. new[b] = bs[b]
      BY <2>1, <2>3, <1>3
    <3>2. /\ pos_is_empty(new, pos) = pos_is_empty(bs, pos)
          /\ offset_in_bucket(new, pos) = offset_in_bucket(bs, pos)
          /\ at(new, pos) = at(bs, pos)
      BY <3>1 DEF pos_is_empty, exists_in_bucket, offset_in_bucket, at
    <3>3. Read(new, at(new, pos)) = Read(bs, at(bs, pos))
      BY <3>1, <3>2 DEF Read, at
    <3>4. Array(new)[pos] = Array(bs)[pos]
      BY <3>2, <3>3 DEF Array, Element
    <3>5. QED
      BY <2>3, <3>2, <3>4
  <2>4. QED
    BY <2>2, <2>3
<1>6. QED
  BY <1>4, <1>5

(* From a bucket up to another one, around the end of the table.           *)
LEMMA BucketsBetween ==
  ASSUME NEW n \in Nat \ {0}, NEW b \in 0..(n - 1), NEW s \in 0..(n - 1), NEW e \in 0..(n - 1)
  PROVE  (b - s) % n < (e - s) % n
           <=> IF s <= e THEN s <= b /\ b < e ELSE s <= b \/ b < e
<1>1. \A x \in 0..(n - 1) : x % n = x
  OBVIOUS
<1>2. \A x \in (1 - n)..(-1) : x % n = x + n
  OBVIOUS
<1>3. \A x \in 0..(n - 1) : (x - s) % n = IF s <= x THEN x - s ELSE x - s + n
  <2> SUFFICES ASSUME NEW x \in 0..(n - 1)
               PROVE  (x - s) % n = IF s <= x THEN x - s ELSE x - s + n
    OBVIOUS
  <2>1. CASE s <= x
    BY <2>1, <1>1
  <2>2. CASE ~(s <= x)
    BY <2>2, <1>2
  <2>3. QED
    BY <2>1, <2>2
<1>4. QED
  BY <1>3

(* In which order the walk comes to two positions.                         *)
LEMMA WalkOrder ==
  ASSUME NEW start \in Positions, NEW p \in Positions, NEW q \in Positions,
         p # start, q # start
  PROVE  Steps(start, p) < Steps(start, q)
           <=> \/ p < q /\ (start < p \/ q < start)
               \/ start < p /\ q < start
BY SizeNat DEF Positions, Steps, Dist, mod_sub

LEMMA DrainingIs ==
  ASSUME IInv, drain # Idle
  PROVE  /\ DrainInv /\ TrimInv /\ call = Idle /\ WellFormed(buckets)
         /\ drain.i \in Positions /\ drain.original_start \in Positions
         /\ drain.visited \subseteq Positions /\ Next1(drain.i) \in Positions
         /\ \A pos \in drain.visited : WalkedBy(pos)
         /\ \A pos \in Positions : WalkedBy(pos) /\ Cells[pos] # EMPTY => pos \in drain.visited
         /\ ~pos_is_empty(buckets, drain.i) =>
               drain.i # drain.original_start /\ Cells[drain.i] # EMPTY
<1>1. /\ DrainInv /\ TrimInv /\ call = Idle /\ WellFormed(buckets)
      /\ drain.i \in Positions /\ drain.original_start \in Positions
      /\ Cells[drain.original_start] = EMPTY
      /\ \A pos \in drain.visited : pos \in Positions /\ WalkedBy(pos)
      /\ \A pos \in Positions : WalkedBy(pos) /\ Cells[pos] # EMPTY => pos \in drain.visited
  BY DEF IInv, DrainInv
<1>2. ~pos_is_empty(buckets, drain.i) => Cells[drain.i] # EMPTY
  BY <1>1, CellsAre
<1>3. Next1(drain.i) \in Positions
  BY <1>1, Around
<1>4. QED
  BY <1>1, <1>2, <1>3

(* If the walk comes to an element that is not the first of its bucket, it *)
(* was in the bucket before, or began in it.                               *)
LEMMA StillInBucket ==
  ASSUME IInv, drain # Idle, ~pos_is_empty(buckets, drain.i),
         offset_in_bucket(buckets, drain.i) # 0
  PROVE  /\ drain.visited # {} => idx_of_bucket(handed[1]) = idx_of_bucket(drain.i)
         /\ drain.visited = {} => idx_of_bucket(drain.i)
                                    = idx_of_bucket(Next1(drain.original_start))
<1> DEFINE start == drain.original_start
           i     == drain.i
           last  == handed[1]
<1>1. /\ i \in Positions /\ start \in Positions /\ i # start /\ WellFormed(buckets)
      /\ \A pos \in Positions : WalkedBy(pos) /\ Cells[pos] # EMPTY => pos \in drain.visited
      /\ Cells[start] = EMPTY
  BY DrainingIs DEF DrainInv
<1>2. \A pos \in Positions : WalkedBy(pos) <=> Steps(start, pos) < Steps(start, i)
  BY DEF WalkedBy
<1>3. drain.visited # {} =>
         /\ last \in Positions /\ last # start /\ Steps(start, last) < Steps(start, i)
         /\ \A pos \in drain.visited : Steps(start, pos) <= Steps(start, last)
  <2> SUFFICES ASSUME drain.visited # {}
               PROVE  /\ last \in Positions /\ last # start
                      /\ Steps(start, last) < Steps(start, i)
                      /\ \A pos \in drain.visited : Steps(start, pos) <= Steps(start, last)
    OBVIOUS
  <2>1. /\ last \in drain.visited
        /\ \A pos \in drain.visited : Steps(start, pos) <= Steps(start, last)
    BY DrainingIs DEF TrimInv
  <2>2. last \in Positions /\ Steps(start, last) < Steps(start, i)
    BY <2>1, <1>2, DrainingIs
  <2>3. last # start
    BY <2>2, <1>1, WalkSteps DEF Steps
  <2>4. QED
    BY <2>1, <2>2, <2>3
<1>4. PICK p \in Positions : /\ p < i /\ idx_of_bucket(p) = idx_of_bucket(i)
                             /\ Cells[p] # EMPTY
  BY <1>1, FirstOfBucket DEF Cells
<1> HIDE DEF start, i, last
<1>5. p # start
  BY <1>1, <1>4
<1>6. CASE WalkedBy(p)
  <2>1. p \in drain.visited /\ drain.visited # {}
    BY <1>1, <1>4, <1>6
  <2>2. /\ last \in Positions /\ last # start /\ Steps(start, last) < Steps(start, i)
        /\ Steps(start, p) <= Steps(start, last) /\ Steps(start, p) < Steps(start, i)
    BY <2>1, <1>2, <1>3, <1>6
  <2>3. ~(Steps(start, last) < Steps(start, p))
    BY <2>2, <1>1, WalkSteps
  <2>4. /\ (last < i /\ (start < last \/ i < start)) \/ (start < last /\ i < start)
        /\ ~((last < p /\ (start < last \/ p < start)) \/ (start < last /\ p < start))
        /\ (p < i /\ (start < p \/ i < start)) \/ (start < p /\ i < start)
    BY <2>2, <2>3, <1>1, <1>5, WalkOrder
  <2>5. p <= last /\ last <= i
    BY <2>2, <2>4, <1>1, <1>4, <1>5, SizeNat DEF Positions
  <2>6. idx_of_bucket(last) = idx_of_bucket(i)
    BY <2>2, <2>5, <1>1, <1>4, BucketOrder
  <2>7. QED
    BY <2>1, <2>6 DEF i, last
<1>7. CASE ~WalkedBy(p)
  <2>1. ~((p < i /\ (start < p \/ i < start)) \/ (start < p /\ i < start))
    BY <1>1, <1>2, <1>5, <1>7, WalkOrder
  <2>2. p < start /\ start < i
    BY <2>1, <1>1, <1>4, <1>5, SizeNat DEF Positions
  <2>3. drain.visited # {} => idx_of_bucket(last) = idx_of_bucket(i)
    <3> SUFFICES ASSUME drain.visited # {} PROVE idx_of_bucket(last) = idx_of_bucket(i)
      OBVIOUS
    <3>1. /\ last \in Positions /\ last # start
          /\ (last < i /\ (start < last \/ i < start)) \/ (start < last /\ i < start)
      BY <1>1, <1>3, WalkOrder
    <3>2. p <= last /\ last <= i
      BY <2>2, <3>1, <1>1, <1>4, SizeNat DEF Positions
    <3>3. QED
      BY <3>1, <3>2, <1>1, <1>4, BucketOrder
  <2>4. idx_of_bucket(Next1(start)) = idx_of_bucket(i)
    <3>1. /\ Next1(start) \in Positions /\ p <= Next1(start) /\ Next1(start) <= i
      BY <2>2, <1>1, <1>4, SizeNat DEF Positions, Next1, mod_add
    <3>2. QED
      BY <3>1, <1>1, <1>4, BucketOrder
  <2>5. QED
    BY <2>3, <2>4 DEF i, last, start
<1>8. QED
  BY <1>6, <1>7

(* Only buckets that the walk has left are freed, and at the latest when   *)
(* it comes to the first element of another one.                           *)
LEMMA TrimmedIs ==
  ASSUME IInv, drain # Idle, ~pos_is_empty(buckets, drain.i),
         NEW last_start,
         last_start = IF drain.drain_start = NoPosition THEN drain.i ELSE drain.drain_start,
         NEW T, T = Trimmed(last_start, drain.i)
  PROVE  /\ idx_of_bucket(drain.i) \notin T
         /\ offset_in_bucket(buckets, drain.i) # 0 => T = {}
         /\ \A pos \in Positions :
              idx_of_bucket(pos) \in T /\ Cells[pos] # EMPTY => WalkedBy(pos)
         /\ drain.visited # {} =>
              \/ idx_of_bucket(handed[1]) \in T
              \/ idx_of_bucket(handed[1]) = idx_of_bucket(drain.i)
              \/ idx_of_bucket(handed[1]) = idx_of_bucket(Next1(drain.original_start))
<1> DEFINE start == drain.original_start
           i     == drain.i
           d     == last_start
           first == idx_of_bucket(Next1(start))
           s     == idx_of_bucket(d)
           e     == idx_of_bucket(i)
<1>1. /\ i \in Positions /\ start \in Positions /\ i # start /\ WellFormed(buckets)
      /\ Cells[start] = EMPTY /\ Cells[i] # EMPTY /\ TrimInv
      /\ \A pos \in drain.visited : pos \in Positions /\ WalkedBy(pos)
  BY DrainingIs DEF DrainInv
<1>2. \A pos \in Positions : WalkedBy(pos) <=> Steps(start, pos) < Steps(start, i)
  BY DEF WalkedBy
<1>3. CASE drain.visited = {} \/ offset_in_bucket(buckets, i) # 0
           \/ offset_in_bucket(buckets, d) # 0
  <2>1. T = {}
    <3>1. drain.visited = {} => d = i
      BY <1>1 DEF TrimInv
    <3>2. CASE offset_in_bucket(buckets, i) # 0
      BY <3>2 DEF Trimmed
    <3>3. CASE offset_in_bucket(buckets, i) = 0
      <4>1. T = {b \in Buckets : (b - e) % buckets_size < (e - e) % buckets_size}
        BY <3>1, <3>3, <1>3 DEF Trimmed
      <4>2. buckets_size \in Nat \ {0} /\ Buckets = 0..(buckets_size - 1) /\ e \in Buckets
        BY <1>1, BucketOfPosition DEF Buckets
      <4> HIDE DEF e
      <4>3. \A b \in Buckets : ~((b - e) % buckets_size < (e - e) % buckets_size)
        <5>1. \A b \in Buckets : ~(e <= b /\ b < e)
          BY <4>2
        <5>2. e <= e
          BY <4>2
        <5>3. QED
          BY <4>2, <5>1, <5>2, BucketsBetween
      <4>4. QED
        BY <4>1, <4>3
    <3>4. QED
      BY <3>2, <3>3
  <2>2. drain.visited # {} => \/ idx_of_bucket(handed[1]) = e
                              \/ idx_of_bucket(handed[1]) = first
    <3>1. CASE offset_in_bucket(buckets, i) # 0
      BY <3>1, StillInBucket
    <3>2. CASE offset_in_bucket(buckets, i) = 0 /\ drain.visited # {}
      <4>1. offset_in_bucket(buckets, d) # 0
        BY <3>2, <1>3
      <4>2. d = drain.drain_start
        <5>1. drain.drain_start \in Positions
          BY <3>2, <1>1 DEF TrimInv
        <5>2. drain.drain_start # NoPosition
          BY <5>1, SizeNat DEF NoPosition, Positions
        <5>3. QED
          BY <5>2
      <4>3. QED
        BY <3>2, <4>1, <4>2, <1>1 DEF TrimInv
    <3>3. QED
      BY <3>1, <3>2
  <2>3. QED
    BY <2>1, <2>2
<1>4. CASE /\ drain.visited # {} /\ offset_in_bucket(buckets, i) = 0
           /\ offset_in_bucket(buckets, d) = 0
  <2>1. /\ drain.drain_start \in drain.visited
        /\ idx_of_bucket(drain.drain_start) = idx_of_bucket(handed[1])
    BY <1>1, <1>4 DEF TrimInv
  <2>2. d = drain.drain_start
    <3>1. drain.drain_start # NoPosition
      BY <2>1, <1>1, SizeNat DEF NoPosition, Positions
    <3>2. QED
      BY <3>1
  <2>3. /\ d \in Positions /\ Steps(start, d) < Steps(start, i)
        /\ idx_of_bucket(handed[1]) = s
    BY <2>1, <2>2, <1>1, <1>2
  <2>4. d # start
    BY <2>3, <1>1, WalkSteps DEF Steps
  <2>5. (d < i /\ (start < d \/ i < start)) \/ (start < d /\ i < start)
    BY <2>3, <2>4, <1>1, WalkOrder
  <2>6. T = {b \in Buckets : (b - s) % buckets_size < (e - s) % buckets_size}
    BY <1>4 DEF Trimmed
  <2>7. /\ buckets_size \in Nat \ {0} /\ Buckets = 0..(buckets_size - 1)
        /\ e \in Buckets /\ s \in Buckets
        /\ \A pos \in Positions : idx_of_bucket(pos) \in Buckets
    BY <1>1, <2>3, BucketOfPosition DEF Buckets
  <2>8. \A b \in Buckets : b \in T <=> IF s <= e THEN s <= b /\ b < e ELSE s <= b \/ b < e
    <3> HIDE DEF s, e
    <3>1. QED
      BY <2>6, <2>7, BucketsBetween
  <2>9. /\ \A pos \in Positions : pos < d /\ idx_of_bucket(pos) = s => Cells[pos] = EMPTY
        /\ \A pos \in Positions : d <= pos => s <= idx_of_bucket(pos)
        /\ \A pos \in Positions : pos <= d => idx_of_bucket(pos) <= s
        /\ \A pos \in Positions : idx_of_bucket(pos) < e => pos < i
        /\ d <= i => s <= e
    <3>1. \A pos \in Positions : pos < d /\ idx_of_bucket(pos) = s => Cells[pos] = EMPTY
      BY <1>1, <1>4, <2>3, FirstOfBucket DEF Cells
    <3>2. QED
      BY <3>1, <1>1, <2>3, BucketOrder
  <2> HIDE DEF start, i, d, s, e
  <2>10. e \notin T
    <3>1. s <= e => ~(s <= e /\ e < e)
      BY <2>7
    <3>2. ~(s <= e) => ~(s <= e \/ e < e)
      BY <2>7
    <3>3. QED
      BY <3>1, <3>2, <2>7, <2>8
  <2>11. s = e \/ s \in T
    <3>1. s # e => (IF s <= e THEN s <= s /\ s < e ELSE s <= s \/ s < e)
      BY <2>7
    <3>2. QED
      BY <3>1, <2>7, <2>8
  <2>12. ASSUME NEW pos \in Positions, idx_of_bucket(pos) \in T, Cells[pos] # EMPTY
         PROVE  WalkedBy(pos)
    <3> DEFINE b == idx_of_bucket(pos)
    <3>1. /\ b \in Buckets
          /\ IF s <= e THEN s <= b /\ b < e ELSE s <= b \/ b < e
      BY <2>7, <2>8, <2>12
    <3>2. /\ pos # start
          /\ pos < d => b # s /\ b <= s
          /\ b < e => pos < i
      BY <1>1, <2>9, <2>12, SizeNat, <2>3 DEF Positions
    <3> HIDE DEF b
    <3>3. IF s <= e THEN d <= pos /\ pos < i ELSE d <= pos \/ pos < i
      <4>1. s <= b => d <= pos
        BY <3>1, <3>2, <2>3, <2>7, SizeNat DEF Positions
      <4>2. QED
        BY <3>1, <3>2, <4>1
    <3>4. (d <= pos /\ pos < i) \/ (start < d /\ i < start /\ (d <= pos \/ pos < i))
      <4>1. ~(s <= e) => start < d /\ i < start
        <5>1. ~(s <= e) => ~(d <= i)
          BY <2>9
        <5>2. ~(d <= i) => ~(d < i)
          BY <1>1, <2>3, SizeNat DEF Positions
        <5>3. QED
          BY <5>1, <5>2, <2>5
      <4>2. QED
        BY <3>3, <4>1
    <3>5. (pos < i /\ (start < pos \/ i < start)) \/ (start < pos /\ i < start)
      BY <3>2, <3>4, <2>3, <2>5, <1>1, SizeNat DEF Positions
    <3>6. QED
      BY <3>2, <3>5, <1>1, <1>2, WalkOrder
  <2>13. QED
    BY <2>3, <2>10, <2>11, <2>12, <1>4 DEF i, e, start
<1>5. QED
  BY <1>3, <1>4

LEMMA StartDrainKeepsInv ==
  ASSUME IInv, StartDrain
  PROVE  /\ IInv' /\ call = Idle /\ drain = Idle /\ call' = Idle /\ drain' # Idle
         /\ drain'.visited = {}
         /\ UNCHANGED <<buckets, handed>>
<1> DEFINE start == Min(Positions \ Occupied)
<1>1. /\ call = Idle /\ drain = Idle
      /\ drain' = [op |-> "drain", original_start |-> start, i |-> Next1(start),
                   drain_start |-> NoPosition, visited |-> {}]
      /\ buckets' = buckets /\ call' = call /\ handed' = handed
  BY DEF StartDrain, NoCall, Next1
<1>2. WellFormed(buckets) /\ IsArray(Cells) /\ HasFree(Cells)
  BY <1>1 DEF IInv, NoCall
<1>3. start \in Positions /\ Cells[start] = EMPTY
  <2> DEFINE S == Positions \ Occupied
  <2>1. S = {pos \in Positions : Cells[pos] = EMPTY}
    BY <1>2, CellsAre
  <2>2. S \subseteq Nat /\ S # {}
    BY <1>2, <2>1 DEF Positions, HasFree
  <2> HIDE DEF S
  <2>3. Min(S) \in S
    BY <2>2, MinOfNaturals
  <2>4. QED
    BY <2>1, <2>3 DEF S
<1> HIDE DEF start
<1>4. /\ drain' # Idle /\ drain'.original_start = start /\ drain'.i = Next1(start)
      /\ drain'.drain_start = NoPosition /\ drain'.visited = {}
      /\ drain' = [op |-> "drain", original_start |-> drain'.original_start, i |-> drain'.i,
                   drain_start |-> drain'.drain_start, visited |-> drain'.visited]
  BY <1>1 DEF Idle
<1>5. \A pos \in Positions : ~(Steps(start, pos) < Steps(start, Next1(start)))
  BY <1>3, WalkSteps
<1>6. Cells' = Cells /\ \A pos \in Positions : Cells[pos] \in Slots
  BY <1>1, <1>2 DEF Cells, IsArray
<1>7. DrainInv'
  BY <1>3, <1>4, <1>5, <1>6, WalkSteps DEF DrainInv, WalkedBy
<1>8. TrimInv'
  BY <1>4 DEF TrimInv
<1>9. IInv'
  BY <1>1, <1>2, <1>4, <1>7, <1>8 DEF IInv, NoCall
<1>10. QED
  BY <1>1, <1>4, <1>9

LEMMA SkipEmptyKeepsInv ==
  ASSUME IInv, SkipEmpty
  PROVE  /\ IInv' /\ call = Idle /\ drain # Idle /\ drain' # Idle
         /\ drain'.visited = drain.visited
         /\ UNCHANGED <<buckets, call, handed>>
<1> DEFINE start == drain.original_start
           i     == drain.i
<1>1. /\ drain # Idle /\ pos_is_empty(buckets, i) /\ i # start
      /\ drain' = [drain EXCEPT !.i = Next1(i)]
      /\ buckets' = buckets /\ call' = call /\ handed' = handed
  BY DEF SkipEmpty, Next1
<1>2. /\ DrainInv /\ TrimInv /\ call = Idle /\ WellFormed(buckets) /\ Next1(i) \in Positions
      /\ i \in Positions /\ start \in Positions
  BY <1>1, DrainingIs
<1>3. drain' = [op |-> "drain", original_start |-> start, i |-> Next1(i),
                drain_start |-> drain.drain_start, visited |-> drain.visited]
  BY <1>1, <1>2 DEF DrainInv
<1>4. /\ drain' # Idle /\ drain'.original_start = start /\ drain'.i = Next1(i)
      /\ drain'.drain_start = drain.drain_start /\ drain'.visited = drain.visited
      /\ drain' = [op |-> "drain", original_start |-> drain'.original_start, i |-> drain'.i,
                   drain_start |-> drain'.drain_start, visited |-> drain'.visited]
  BY <1>3 DEF Idle
<1>5. Cells' = Cells /\ Cells[i] = EMPTY
  BY <1>1, <1>2, CellsAre DEF Cells
<1>6. \A pos \in Positions : WalkedBy(pos)' <=> pos = i \/ WalkedBy(pos)
  BY <1>1, <1>2, <1>4, WalkSteps DEF WalkedBy
<1>7. DrainInv'
  <2> HIDE DEF start, i
  <2>1. /\ Cells[start] = EMPTY
        /\ drain.visited \subseteq {pos \in Positions : WalkedBy(pos)}
        /\ \A pos \in Positions :
              IF WalkedBy(pos)
              THEN Cells[pos] = EMPTY \/ (Cells[pos] = Moved /\ pos \in drain.visited)
              ELSE Cells[pos] \in Slots
    BY <1>2 DEF DrainInv, start
  <2>2. drain'.visited \subseteq {pos \in Positions : WalkedBy(pos)'}
    BY <2>1, <1>4, <1>6
  <2>3. \A pos \in Positions :
           IF WalkedBy(pos)'
           THEN Cells'[pos] = EMPTY \/ (Cells'[pos] = Moved /\ pos \in drain'.visited)
           ELSE Cells'[pos] \in Slots
    BY <2>1, <1>4, <1>5, <1>6
  <2>4. QED
    BY <2>1, <2>2, <2>3, <1>2, <1>4, <1>5 DEF DrainInv
<1>8. TrimInv'
  BY <1>1, <1>2, <1>4, <1>5 DEF TrimInv
<1>9. IInv'
  BY <1>1, <1>2, <1>4, <1>7, <1>8 DEF IInv, NoCall
<1>10. QED
  BY <1>1, <1>2, <1>4, <1>9

(* The callback is given the element, whatever buckets are freed before;   *)
(* what they held besides was handed out before.                           *)
LEMMA VisitKeepsInv ==
  ASSUME IInv, Visit
  PROVE  /\ IInv' /\ call = Idle /\ drain # Idle /\ drain' # Idle /\ call' = call
         /\ drain.i \in Positions /\ drain.i \notin drain.visited
         /\ Cells[drain.i] \in Elems /\ handed' = <<drain.i, Cells[drain.i]>>
         /\ drain'.visited = drain.visited \cup {drain.i}
         /\ \A pos \in Positions \ drain'.visited : Cells'[pos] = Cells[pos]
         /\ \A pos \in drain'.visited : Cells'[pos] \in {EMPTY, Moved}
<1> DEFINE start      == drain.original_start
           i          == drain.i
           last_start == IF drain.drain_start = NoPosition THEN i ELSE drain.drain_start
           T          == Trimmed(last_start, i)
           trimmed    == [b \in Buckets |-> IF b \in T THEN EmptyBucket ELSE buckets[b]]
           next_start == IF offset_in_bucket(buckets, i) = 0 THEN i ELSE last_start
           first      == idx_of_bucket(Next1(start))
<1>1. /\ drain # Idle /\ ~pos_is_empty(buckets, i)
      /\ buckets' = move_out(trimmed, at(trimmed, i))
      /\ handed' = <<i, Read(trimmed, at(trimmed, i))>>
      /\ drain' = [drain EXCEPT !.i = Next1(i), !.drain_start = next_start,
                                !.visited = drain.visited \cup {i}]
      /\ call' = call
  BY DEF Visit, Next1
<1>2. /\ DrainInv /\ TrimInv /\ call = Idle /\ WellFormed(buckets) /\ Next1(i) \in Positions
      /\ i \in Positions /\ start \in Positions /\ i # start /\ Cells[i] # EMPTY
      /\ \A pos \in drain.visited : pos \in Positions /\ WalkedBy(pos)
      /\ \A pos \in Positions : WalkedBy(pos) /\ Cells[pos] # EMPTY => pos \in drain.visited
  BY <1>1, DrainingIs
<1>3. /\ idx_of_bucket(i) \notin T
      /\ offset_in_bucket(buckets, i) # 0 => T = {}
      /\ \A pos \in Positions : idx_of_bucket(pos) \in T /\ Cells[pos] # EMPTY => WalkedBy(pos)
      /\ drain.visited # {} => \/ idx_of_bucket(handed[1]) \in T
                               \/ idx_of_bucket(handed[1]) = idx_of_bucket(i)
                               \/ idx_of_bucket(handed[1]) = first
  BY <1>1, TrimmedIs
<1>4. /\ WellFormed(trimmed)
      /\ \A pos \in Positions :
           /\ Array(trimmed)[pos] = IF idx_of_bucket(pos) \in T THEN EMPTY ELSE Cells[pos]
           /\ idx_of_bucket(pos) \notin T => offset_in_bucket(trimmed, pos)
                                               = offset_in_bucket(buckets, pos)
  <2> HIDE DEF T
  <2>1. QED
    BY <1>2, FreedIs DEF Cells
<1> HIDE DEF trimmed
<1>5. /\ Array(trimmed)[i] = Cells[i] /\ Array(trimmed)[i] # EMPTY
      /\ Read(trimmed, at(trimmed, i)) = Cells[i]
  BY <1>2, <1>3, <1>4, ArrayIs
<1>6. /\ WellFormed(buckets') /\ Bits(buckets') = Bits(trimmed)
      /\ Cells' = [Array(trimmed) EXCEPT ![i] = Moved]
  BY <1>1, <1>2, <1>4, <1>5, MovesOut DEF Cells
<1>7. drain' = [op |-> "drain", original_start |-> start, i |-> Next1(i),
                drain_start |-> next_start, visited |-> drain.visited \cup {i}]
  <2> DEFINE dr    == drain
             next1 == [dr EXCEPT !.i = Next1(i)]
             next2 == [next1 EXCEPT !.drain_start = next_start]
             seen  == drain.visited \cup {i}
  <2>1. dr = [op |-> "drain", original_start |-> start, i |-> i,
              drain_start |-> drain.drain_start, visited |-> drain.visited]
    BY <1>2 DEF DrainInv
  <2>2. drain' = [next2 EXCEPT !.visited = seen]
    BY <1>1
  <2> HIDE DEF dr, seen, start, i, next_start
  <2>3. next1 = [op |-> "drain", original_start |-> start, i |-> Next1(i),
                 drain_start |-> drain.drain_start, visited |-> drain.visited]
    BY <2>1
  <2> HIDE DEF next1
  <2>4. next2 = [op |-> "drain", original_start |-> start, i |-> Next1(i),
                 drain_start |-> next_start, visited |-> drain.visited]
    BY <2>3
  <2> HIDE DEF next2
  <2>5. [next2 EXCEPT !.visited = seen]
          = [op |-> "drain", original_start |-> start, i |-> Next1(i),
             drain_start |-> next_start, visited |-> seen]
    BY <2>4
  <2>6. QED
    BY <2>2, <2>5 DEF seen
<1>8. /\ drain.visited = {} => last_start = i
      /\ drain.visited # {} =>
           /\ last_start = drain.drain_start /\ last_start \in drain.visited
           /\ idx_of_bucket(last_start) = idx_of_bucket(handed[1])
           /\ offset_in_bucket(buckets, last_start) # 0 => idx_of_bucket(last_start) = first
  <2>1. drain.visited = {} => last_start = i
    BY <1>2 DEF TrimInv
  <2>2. ASSUME drain.visited # {}
        PROVE  /\ last_start = drain.drain_start /\ last_start \in drain.visited
               /\ idx_of_bucket(last_start) = idx_of_bucket(handed[1])
               /\ offset_in_bucket(buckets, last_start) # 0 => idx_of_bucket(last_start) = first
    <3>1. /\ drain.drain_start \in drain.visited
          /\ idx_of_bucket(drain.drain_start) = idx_of_bucket(handed[1])
          /\ offset_in_bucket(buckets, drain.drain_start) # 0 =>
                idx_of_bucket(drain.drain_start) = first
      BY <2>2, <1>2 DEF TrimInv
    <3>2. drain.drain_start # NoPosition
      BY <3>1, <1>2, SizeNat DEF NoPosition, Positions
    <3>3. QED
      BY <3>1, <3>2
  <2>3. QED
    BY <2>1, <2>2
<1>9. /\ drain.visited = {} => next_start = i
      /\ next_start = i \/ next_start \in drain.visited
      /\ idx_of_bucket(next_start) = idx_of_bucket(i)
      /\ offset_in_bucket(buckets, next_start) # 0 => idx_of_bucket(next_start) = first
  <2>1. CASE offset_in_bucket(buckets, i) = 0
    BY <2>1
  <2>2. CASE offset_in_bucket(buckets, i) # 0
    <3>1. next_start = last_start
      BY <2>2
    <3>2. /\ drain.visited # {} => idx_of_bucket(handed[1]) = idx_of_bucket(i)
          /\ drain.visited = {} => idx_of_bucket(i) = first
      BY <2>2, <1>1, StillInBucket
    <3>3. QED
      BY <3>1, <3>2, <1>8
  <2>3. QED
    BY <2>1, <2>2
<1>10. offset_in_bucket(buckets', next_start) = offset_in_bucket(buckets, next_start)
  <2>1. next_start \in Positions
    BY <1>2, <1>9
  <2>2. idx_of_bucket(next_start) \notin T
    BY <1>3, <1>9
  <2> HIDE DEF next_start, T
  <2>3. offset_in_bucket(trimmed, next_start) = offset_in_bucket(buckets, next_start)
    BY <2>1, <2>2, <1>4
  <2>4. offset_in_bucket(buckets', next_start) = offset_in_bucket(trimmed, next_start)
    BY <2>1, <1>6, SameBits
  <2>5. QED
    BY <2>3, <2>4
<1> HIDE DEF start, i, last_start, next_start, T, first
<1>11. /\ drain' # Idle /\ drain'.original_start = start /\ drain'.i = Next1(i)
       /\ drain'.drain_start = next_start /\ drain'.visited = drain.visited \cup {i}
       /\ drain' = [op |-> "drain", original_start |-> drain'.original_start, i |-> drain'.i,
                    drain_start |-> drain'.drain_start, visited |-> drain'.visited]
  BY <1>7 DEF Idle
<1> HIDE DEF Cells
<1>12. Array(trimmed) \in [Positions -> States \cup {EMPTY}]
  BY <1>4, ArrayIs
<1>13. /\ Cells'[i] = Moved
       /\ \A pos \in Positions \ {i} :
             Cells'[pos] = IF idx_of_bucket(pos) \in T THEN EMPTY ELSE Cells[pos]
  BY <1>2, <1>4, <1>6, <1>12
<1>14. /\ Cells[start] = EMPTY
       /\ \A pos \in Positions :
             IF WalkedBy(pos)
             THEN Cells[pos] = EMPTY \/ (Cells[pos] = Moved /\ pos \in drain.visited)
             ELSE Cells[pos] \in Slots
  BY <1>2 DEF DrainInv, start
<1>15. /\ ~WalkedBy(i) /\ i \notin drain.visited
       /\ \A pos \in Positions : WalkedBy(pos)' <=> pos = i \/ WalkedBy(pos)
  <2>1. \A pos \in Positions : WalkedBy(pos) <=> Steps(start, pos) < Steps(start, i)
    BY DEF WalkedBy, start, i
  <2>2. \A pos \in Positions : WalkedBy(pos)' <=> Steps(start, pos) < Steps(start, Next1(i))
    BY <1>11 DEF WalkedBy
  <2>3. ~WalkedBy(i)
    BY <2>1, <1>2, WalkSteps
  <2>4. QED
    BY <2>1, <2>2, <2>3, <1>2, WalkSteps
<1>16. Cells[i] \in Elems
  BY <1>2, <1>14, <1>15, Different
<1>17. DrainInv'
  <2>1. drain'.visited \subseteq {pos \in Positions : WalkedBy(pos)'}
    BY <1>2, <1>11, <1>15
  <2>2. \A pos \in Positions :
           IF WalkedBy(pos)'
           THEN Cells'[pos] = EMPTY \/ (Cells'[pos] = Moved /\ pos \in drain'.visited)
           ELSE Cells'[pos] \in Slots
    BY <1>2, <1>11, <1>13, <1>14, <1>15 DEF Slots
  <2>3. Cells'[start] = EMPTY
    BY <1>2, <1>13, <1>14
  <2>4. QED
    BY <2>1, <2>2, <2>3, <1>2, <1>11 DEF DrainInv
<1>18. \A pos \in Positions \ drain'.visited : Cells'[pos] = Cells[pos]
  BY <1>2, <1>3, <1>11, <1>13
<1>19. \A pos \in drain'.visited : Cells'[pos] \in {EMPTY, Moved}
  BY <1>2, <1>11, <1>13, <1>14
<1>20. TrimInv'
  <2>1. handed'[1] = i
    BY <1>1, <1>5
  <2>2. /\ drain'.drain_start \in drain'.visited /\ i \in drain'.visited /\ drain'.visited # {}
        /\ idx_of_bucket(drain'.drain_start) = idx_of_bucket(i)
        /\ offset_in_bucket(buckets', drain'.drain_start) # 0 =>
              idx_of_bucket(drain'.drain_start) = first
    BY <1>9, <1>10, <1>11
  <2>3. ASSUME NEW pos \in drain'.visited
        PROVE  /\ Steps(start, pos) <= Steps(start, i)
               /\ Cells'[pos] # EMPTY => idx_of_bucket(pos) \in {idx_of_bucket(i), first}
    <3>1. CASE pos = i
      BY <3>1, <1>2, WalkSteps
    <3>2. CASE pos # i
      <4>1. pos \in drain.visited /\ pos \in Positions /\ WalkedBy(pos) /\ drain.visited # {}
        BY <3>2, <1>2, <1>11
      <4>2. Steps(start, pos) <= Steps(start, i)
        <5>1. Steps(start, pos) < Steps(start, i)
          BY <4>1 DEF WalkedBy, start, i
        <5>2. QED
          BY <4>1, <5>1, <1>2, WalkSteps
      <4>3. Cells'[pos] # EMPTY => idx_of_bucket(pos) \notin T /\ Cells[pos] # EMPTY
        BY <3>2, <4>1, <1>13
      <4>4. Cells[pos] # EMPTY => idx_of_bucket(pos) \in {idx_of_bucket(handed[1]), first}
        BY <4>1, <1>2 DEF TrimInv, first, start
      <4>5. QED
        BY <4>1, <4>2, <4>3, <4>4, <1>3
    <3>3. QED
      BY <3>1, <3>2
  <2>4. QED
    BY <2>1, <2>2, <2>3, <1>11 DEF TrimInv, first
<1>21. IInv'
  BY <1>1, <1>2, <1>6, <1>11, <1>17, <1>20 DEF IInv, NoCall
<1>22. QED
  BY <1>1, <1>2, <1>5, <1>11, <1>15, <1>16, <1>18, <1>19, <1>21 DEF i

LEMMA EndDrainKeepsInv ==
  ASSUME IInv, EndDrain
  PROVE  /\ IInv' /\ call = Idle /\ drain # Idle /\ drain' = Idle /\ call' = call
         /\ Cells' = [pos \in Positions |-> EMPTY] /\ handed' = Nothing
         /\ \A pos \in Positions : Cells[pos] \in {EMPTY, Moved}
<1>1. /\ drain # Idle /\ drain.i = drain.original_start
      /\ drain' = Idle /\ buckets' = [b \in Buckets |-> EmptyBucket]
      /\ handed' = Nothing /\ call' = call
  BY DEF EndDrain
<1>2. DrainInv /\ call = Idle
  BY <1>1, DrainingIs
<1>3. WellFormed(buckets') /\ Cells' = [pos \in Positions |-> EMPTY]
  BY <1>1, NothingIn DEF Cells
<1>4. IsArray(Cells') /\ HasFree(Cells')
  <2>1. 0 \in Positions
    BY SizeNat DEF Positions
  <2>2. QED
    BY <1>3, <2>1 DEF IsArray, HasFree, Slots
<1>5. ASSUME NEW pos \in Positions
      PROVE  Cells[pos] \in {EMPTY, Moved}
  <2>1. CASE pos = drain.original_start
    BY <2>1, <1>2 DEF DrainInv
  <2>2. CASE pos # drain.original_start
    <3>1. Steps(drain.original_start, pos) < Steps(drain.original_start, drain.i)
      BY <2>2, <1>1, <1>2, WalkSteps DEF DrainInv
    <3>2. QED
      BY <3>1, <1>2 DEF DrainInv, WalkedBy
  <2>3. QED
    BY <2>1, <2>2
<1>6. QED
  BY <1>1, <1>2, <1>3, <1>4, <1>5 DEF IInv
-------------------------------------------------------------------------------
(* Writing the buckets into a stream and reading them back.                *)

LEMMA ReadsBack ==
  ASSUME WellFormed(buckets)
  PROVE  read(written) = buckets
<1>1. buckets_size \in Nat \ {0} /\ Buckets = 0..(buckets_size - 1)
  BY BucketOfPosition DEF Buckets
<1>2. ASSUME NEW b \in Buckets
      PROVE  /\ ReadItem(written, 2 * b + 1, uint64) = buckets[b].bv
             /\ ReadItem(written, 2 * b + 2, BlockType(Cardinality(buckets[b].bv)))
                  = buckets[b].data
  <2>1. /\ b \in Nat /\ 2 * b + 1 \in 1..(2 * buckets_size) /\ 2 * b + 2 \in 1..(2 * buckets_size)
        /\ (2 * b + 1) % 2 = 1 /\ (2 * b + 2) % 2 # 1
        /\ ((2 * b + 1) - 1) \div 2 = b /\ ((2 * b + 2) - 1) \div 2 = b
    BY <1>1
  <2>2. /\ 2 * b + 1 \in DOMAIN written
        /\ written[2 * b + 1] = Item(uint64, buckets[b].bv)
    BY <2>1 DEF written
  <2>3. /\ 2 * b + 2 \in DOMAIN written
        /\ written[2 * b + 2] = Item(BlockType(Cardinality(buckets[b].bv)), buckets[b].data)
    BY <2>1 DEF written
  <2> HIDE DEF written
  <2>4. QED
    BY <2>2, <2>3, ReadsItem
<1>3. \A b \in Buckets : buckets[b] = [bv |-> buckets[b].bv, data |-> buckets[b].data]
  BY DEF WellFormed, Bucket
<1>4. buckets = [b \in Buckets |-> buckets[b]]
  BY DEF WellFormed
<1>5. \A b \in Buckets : read(written)[b] = buckets[b]
  BY <1>2, <1>3 DEF read
<1>6. read(written) = [b \in Buckets |-> read(written)[b]]
  BY DEF read
<1>7. QED
  BY <1>4, <1>5, <1>6

LEMMA SerializeKeepsInv ==
  ASSUME IInv, Serialize
  PROVE  /\ IInv' /\ call = Idle /\ call'.op = "read" /\ call'.before = Contents
         /\ UNCHANGED <<drain, handed>>
<1>1. /\ call = Idle /\ drain = Idle
      /\ call' = [op |-> "read", in |-> written, before |-> Contents]
      /\ buckets' = [b \in Buckets |-> EmptyBucket]
      /\ drain' = drain /\ handed' = handed
  BY DEF Serialize, NoCall
<1>2. WellFormed(buckets) /\ IsArray(Cells) /\ HasFree(Cells)
  BY <1>1 DEF IInv, NoCall
<1>3. WellFormed(buckets') /\ Cells' = [pos \in Positions |-> EMPTY]
  BY <1>1, NothingIn DEF Cells
<1>4. Contents = Cells
  BY <1>2, CellsAre
<1>5. read(call'.in) = buckets
  BY <1>1, <1>2, ReadsBack
<1>6. ReadInv'
  <2>1. /\ call' = [op |-> "read", in |-> call'.in, before |-> call'.before]
        /\ call'.before = Cells
    BY <1>1, <1>4
  <2>2. WellFormed(read(call'.in)) /\ Array(read(call'.in)) = call'.before
    BY <2>1, <1>2, <1>5 DEF Cells
  <2>3. QED
    BY <2>1, <2>2, <1>2, <1>3 DEF ReadInv
<1>7. call' # Idle /\ call'.op = "read"
  BY <1>1 DEF Idle
<1>8. IInv'
  BY <1>1, <1>3, <1>6, <1>7 DEF IInv, NoCall
<1>9. QED
  BY <1>1, <1>7, <1>8

LEMMA DeserializeKeepsInv ==
  ASSUME IInv, Deserialize
  PROVE  /\ IInv' /\ call.op = "read" /\ call' = Idle /\ drain = Idle
         /\ Contents' = call.before
         /\ UNCHANGED <<drain, handed>>
<1>1. /\ call.op = "read" /\ buckets' = read(call.in) /\ call' = Idle
      /\ drain' = drain /\ handed' = handed
  BY DEF Deserialize
<1>2. ReadInv /\ drain = Idle
  BY <1>1, InACall
<1>3. /\ WellFormed(buckets') /\ Cells' = call.before
      /\ IsArray(Cells') /\ HasFree(Cells')
  BY <1>1, <1>2 DEF ReadInv, Cells
<1>4. Contents' = Cells'
  <2>1. \A pos \in Positions : Cells'[pos] # Moved
    BY <1>3, Different DEF IsArray
  <2>2. Contents' = [pos \in Positions |-> IF Cells'[pos] = Moved THEN EMPTY ELSE Cells'[pos]]
    BY DEF Contents, Cells, Array
  <2>3. QED
    BY <2>1, <2>2, <1>3 DEF IsArray
<1>5. IInv'
  BY <1>1, <1>2, <1>3 DEF IInv
<1>6. QED
  BY <1>1, <1>2, <1>3, <1>4, <1>5
-------------------------------------------------------------------------------
(* The invariant holds.                                                    *)

LEMMA NextKeepsInv == IInv /\ [Next]_vars => IInv'
<1> SUFFICES ASSUME IInv, [Next]_vars PROVE IInv'
  OBVIOUS
<1>1. CASE \E pos \in Positions, elem \in Elems : Put(pos, elem)
  BY <1>1, PutKeepsInv
<1>2. CASE \E from \in Positions, elem \in Elems : StartPutInFront(from, elem)
  BY <1>2, StartPutInFrontKeepsInv
<1>3. CASE StartDrain
  BY <1>3, StartDrainKeepsInv
<1>4. CASE Serialize
  BY <1>4, SerializeKeepsInv
<1>5. CASE Deserialize
  BY <1>5, DeserializeKeepsInv
<1>6. CASE Construct
  BY <1>6, ConstructKeepsInv
<1>7. CASE MoveOne
  BY <1>7, MoveOneKeepsInv
<1>8. CASE StartSecondPart
  BY <1>8, StartSecondPartKeepsInv
<1>9. CASE FinishPutInFront
  BY <1>9, FinishPutInFrontKeepsInv
<1>10. CASE SkipEmpty
  BY <1>10, SkipEmptyKeepsInv
<1>11. CASE Visit
  BY <1>11, VisitKeepsInv
<1>12. CASE EndDrain
  BY <1>12, EndDrainKeepsInv
<1>13. CASE UNCHANGED vars
  <2>1. buckets' = buckets /\ call' = call /\ drain' = drain /\ handed' = handed
    BY <1>13 DEF vars
  <2>2. ConstructInv' <=> ConstructInv
    BY <2>1 DEF ConstructInv, PutAtFree, PutAtRow, Cells
  <2>3. ShiftInv' <=> ShiftInv
    BY <2>1 DEF ShiftInv, Reading, Shifted, PartEnd, Wraps, Cells
  <2>4. ReadInv' <=> ReadInv
    BY <2>1 DEF ReadInv, Cells
  <2>5. DrainInv' <=> DrainInv
    BY <2>1 DEF DrainInv, WalkedBy, Cells
  <2>6. TrimInv' <=> TrimInv
    BY <2>1 DEF TrimInv, Cells
  <2>7. QED
    BY <2>1, <2>2, <2>3, <2>4, <2>5, <2>6 DEF IInv, NoCall, Cells
<1>14. QED
  BY <1>1, <1>2, <1>3, <1>4, <1>5, <1>6, <1>7, <1>8, <1>9, <1>10, <1>11, <1>12, <1>13
  DEF Next, Continue

LEMMA Invariance == Spec => []IInv
<1>1. Init => IInv
  BY InitHasInv
<1>2. IInv /\ [Next]_vars => IInv'
  BY NextKeepsInv
<1>3. QED
  BY <1>1, <1>2, PTL DEF Spec

(* The blocks fit the bit vectors: every bit has its element, also while   *)
(* elements are shifted, blocks replaced and buckets freed, and no drain   *)
(* begins inside an insertion (buckets_bv_t, bucket_t).                    *)
THEOREM TypeCorrect == Spec => []TypeOK
<1>1. ASSUME IInv PROVE TypeOK
  <2> SUFFICES ASSUME NEW b \in Buckets
               PROVE  /\ buckets[b].bv \subseteq 0..(BucketWidth - 1)
                      /\ buckets[b].data \in
                           [1..Cardinality(buckets[b].bv) -> Elems \cup {Raw, Moved}]
    BY <1>1 DEF TypeOK, IInv
  <2>1. /\ buckets[b].bv \in SUBSET (0..(BucketWidth - 1)) /\ buckets[b].data \in Seq(States)
        /\ Len(buckets[b].data) = Cardinality(buckets[b].bv)
    BY <1>1 DEF IInv, WellFormed, Bucket
  <2>2. buckets[b].data \in [1..Cardinality(buckets[b].bv) -> States]
    BY <2>1
  <2>3. QED
    BY <2>1, <2>2 DEF States
<1>2. QED
  BY <1>1, Invariance, PTL

(* Only the position that an iterator is on has its pointer.               *)
LEMMA PointerOf ==
  ASSUME WellFormed(buckets), NEW pos \in Positions, Cells[pos] # EMPTY
  PROVE  PositionsAt(at(buckets, pos)) = {pos}
<1>1. /\ Occupied = {q \in Positions : Cells[q] # EMPTY}
      /\ \A q \in Positions : Cells[q] # EMPTY => ~pos_is_empty(buckets, q)
  BY CellsAre
<1>2. \A q \in Occupied : at(buckets, q) = at(buckets, pos) => q = pos
  BY <1>1, OffsetsDiffer
<1>3. QED
  BY <1>1, <1>2 DEF PositionsAt

(* "sparse_shift": while a range of elements is shifted, over however many *)
(* buckets, the iterator that reads is on an element of the range and the  *)
(* one that writes is on the position behind it.                           *)
THEOREM IteratorsStayInStep == Spec => []IteratorsInStep
<1>1. ASSUME IInv PROVE IteratorsInStep
  <2> SUFFICES ASSUME call.op = "shift"
               PROVE  \E pos \in PositionsAt(call.part.src.b_end) :
                        /\ pos >= call.part.lo
                        /\ pos <= IF call.to < call.part.lo THEN TableSize - 1 ELSE call.to - 1
                        /\ pos + 1 \in PositionsAt(call.part.dst.b_end)
                                         \cup {call.to, TableSize}
    BY DEF IteratorsInStep
  <2> DEFINE lo == call.part.lo
             hi == PartEnd
  <2>1. WellFormed(buckets) /\ ShiftInv
    BY <1>1, InACall
  <2>2. PICK s \in lo..(hi - 1) : Reading(s)
    BY <2>1 DEF ShiftInv
  <2>3. /\ s \in Positions /\ Cells[s] = Moved /\ call.part.src.b_end = at(buckets, s)
    BY <2>1, <2>2, FrontIs
  <2>4. PositionsAt(call.part.src.b_end) = {s}
    BY <2>1, <2>3, PointerOf, Different
  <2>5. /\ hi \in Nat /\ hi - 1 \in Positions /\ lo \in Positions
        /\ \A pos \in lo..(hi - 1) : pos \in Positions /\ call.before[pos] \in Elems
        /\ lo # call.from => hi = call.to /\ lo = 0 /\ call.to > 0 /\ call.to < call.from
        /\ lo = call.from => hi = IF call.to < call.from THEN TableSize ELSE call.to
        /\ call.from \in Positions /\ call.to \in Positions
    BY <2>1, PartInRow DEF Wraps, ShiftInv
  <2>6. /\ call.part.dst = make_iter(buckets, s + 1)
        /\ \A pos \in Positions \ {s} : Cells[pos] = Shifted(s, pos)
    BY <2>2 DEF Reading
  <2> HIDE DEF hi
  <2>7. s >= lo /\ s <= hi - 1 /\ hi \in {call.to, TableSize}
    BY <2>2, <2>5, SizeNat DEF Positions
  <2>8. hi - 1 <= IF call.to < lo THEN TableSize - 1 ELSE call.to - 1
    BY <2>5, SizeNat DEF Positions
  <2>9. CASE s + 1 = hi
    BY <2>4, <2>7, <2>8, <2>9, <2>5, SizeNat DEF Positions
  <2>10. CASE s + 1 # hi
    <3>1. PICK n \in Positions : n = s + 1 /\ n \in lo..(hi - 1) /\ s < n /\ n < hi /\ n # s
      <4>1. s + 1 \in lo..(hi - 1) /\ s < s + 1 /\ s + 1 < hi /\ s + 1 # s
        BY <2>3, <2>5, <2>7, <2>10, SizeNat DEF Positions
      <4>2. QED
        BY <4>1, <2>5
    <3>2. /\ n - 1 = s /\ Cells[n] = call.before[s]
      <4>1. n - 1 = s
        BY <2>3, <3>1, SizeNat DEF Positions
      <4>2. Cells[n] = call.before[n - 1]
        BY <2>6, <3>1 DEF Shifted, hi
      <4>3. QED
        BY <4>1, <4>2
    <3>3. Cells[n] # EMPTY
      BY <2>2, <2>5, <3>2, Different
    <3>4. call.part.dst.b_end = at(buckets, n)
      <4>1. ~pos_is_empty(buckets, n)
        BY <2>1, <3>3, CellsAre
      <4>2. make_iter(buckets, n).b_end = at(buckets, n)
        BY <2>1, <4>1, IteratorIs
      <4>3. QED
        BY <2>6, <3>1, <4>2
    <3>5. n \in PositionsAt(call.part.dst.b_end)
      BY <2>1, <3>3, <3>4, PointerOf
    <3>6. s <= IF call.to < lo THEN TableSize - 1 ELSE call.to - 1
      BY <2>3, <2>5, <2>7, <2>8, SizeNat DEF Positions
    <3>7. QED
      BY <2>4, <2>7, <3>1, <3>5, <3>6
  <2>11. QED
    BY <2>9, <2>10
<1>2. QED
  BY <1>1, Invariance, PTL

(* "the bucket does not initialize or destroy the value and quotient parts *)
(* of the allocation": at every step of every call, memory is raw only     *)
(* where the caller is about to construct, and moved from only where the   *)
(* call under way will assign, or a drain has handed the element out.      *)
THEOREM LifeCycle == Spec => []OnlyNewIsRaw
<1>1. ASSUME IInv PROVE OnlyNewIsRaw
  <2>1. WellFormed(buckets)
    BY <1>1 DEF IInv
  <2>2. \A state : Holding(state) = {pos \in Positions : Cells[pos] = state}
    BY DEF Holding, Cells, Array
  <2>3. Occupied = {pos \in Positions : Cells[pos] # EMPTY}
    BY <2>1, CellsAre
  <2>4. CASE call.op = "construct"
    <3>1. ConstructInv /\ drain = Idle
      BY <1>1, <2>4, InACall
    <3>2. /\ call.location \in Positions /\ Cells[call.location] = Raw
          /\ \A pos \in Positions \ {call.location} : Cells[pos] \in Slots
      BY <3>1 DEF ConstructInv
    <3>3. /\ \A pos \in Positions : Cells[pos] = Raw <=> pos = call.location
          /\ \A pos \in Positions : Cells[pos] # Moved
      BY <3>2, Different
    <3>4. MovedFrom = {}
      BY <2>4, <3>1 DEF MovedFrom
    <3>5. QED
      BY <2>2, <2>4, <3>2, <3>3, <3>4 DEF OnlyNewIsRaw
  <2>5. CASE call.op = "shift"
    <3>1. ShiftInv /\ drain = Idle
      BY <1>1, <2>5, InACall
    <3>2. PICK s \in call.part.lo..(PartEnd - 1) : Reading(s)
      BY <3>1 DEF ShiftInv
    <3>3. s \in Positions /\ Cells[s] = Moved /\ call.part.src.b_end = at(buckets, s)
      BY <2>1, <3>1, <3>2, FrontIs
    <3>4. ASSUME NEW pos \in Positions \ {s}
          PROVE  Cells[pos] \in Slots
      <4>1. \/ \E q \in Positions : Cells[pos] = call.before[q]
        <5>1. Cells[pos] = Shifted(s, pos)
          BY <3>2 DEF Reading
        <5>2. s < pos => pos - 1 \in Positions
          BY <3>3, SizeNat DEF Positions
        <5>3. pos >= call.from /\ pos # call.from => pos - 1 \in Positions
          BY <3>1, SizeNat DEF Positions, ShiftInv
        <5>4. TableSize - 1 \in Positions
          BY SizeNat DEF Positions
        <5>5. QED
          BY <5>1, <5>2, <5>3, <5>4 DEF Shifted
      <4>2. QED
        BY <3>1, <4>1 DEF ShiftInv, IsArray
    <3>5. /\ \A pos \in Positions : Cells[pos] # Raw
          /\ \A pos \in Positions : Cells[pos] = Moved <=> pos = s
      BY <3>3, <3>4, Different
    <3>6. MovedFrom = {s}
      BY <2>1, <2>5, <3>1, <3>3, PointerOf, Different DEF MovedFrom
    <3>7. QED
      BY <2>2, <2>5, <3>3, <3>5, <3>6 DEF OnlyNewIsRaw
  <2>6. CASE drain # Idle
    <3>1. DrainInv /\ call = Idle /\ drain.visited \subseteq Positions
      BY <1>1, <2>6, DrainingIs
    <3>2. call.op = "idle"
      BY <3>1 DEF Idle
    <3>3. \A pos \in Positions : Cells[pos] # Raw
      BY <3>1, Different DEF DrainInv
    <3>4. \A pos \in Positions : Cells[pos] = Moved <=> pos \in drain.visited /\ Cells[pos] # EMPTY
      BY <3>1, Different DEF DrainInv
    <3>5. MovedFrom = drain.visited \cap Occupied
      BY <2>6, <3>2 DEF MovedFrom
    <3>6. Holding(Raw) = {}
      BY <2>2, <3>3
    <3>7. Holding(Moved) = drain.visited \cap Occupied
      BY <2>2, <2>3, <3>1, <3>4
    <3>8. QED
      BY <3>2, <3>5, <3>6, <3>7 DEF OnlyNewIsRaw
  <2>7. CASE drain = Idle /\ call.op # "construct" /\ call.op # "shift"
    <3>1. \A pos \in Positions : Cells[pos] \in Slots
      <4>1. CASE call = Idle
        BY <1>1, <2>7, <4>1 DEF IInv, NoCall, IsArray
      <4>2. CASE call # Idle
        BY <1>1, <2>7, <4>2 DEF IInv, ReadInv, Slots
      <4>3. QED
        BY <4>1, <4>2
    <3>2. \A pos \in Positions : Cells[pos] # Raw /\ Cells[pos] # Moved
      BY <3>1, Different
    <3>3. MovedFrom = {}
      BY <2>7 DEF MovedFrom
    <3>4. QED
      BY <2>2, <2>7, <3>2, <3>3 DEF OnlyNewIsRaw
  <2>8. QED
    BY <2>4, <2>5, <2>6, <2>7
<1>2. QED
  BY <1>1, Invariance, PTL

(* "move_into tries to free memory eagerly": of what a drain has left,     *)
(* only the bucket that it is in and the one that it began in are there.   *)
THEOREM FreesEagerly == Spec => []EagerlyFreed
<1>1. ASSUME IInv PROVE EagerlyFreed
  <2> SUFFICES ASSUME drain # Idle, NEW pos \in drain.visited, ~pos_is_empty(buckets, pos)
               PROVE  idx_of_bucket(pos) \in
                        {idx_of_bucket(handed[1]),
                         idx_of_bucket(mod_add(TableSize, drain.original_start, 1))}
    BY DEF EagerlyFreed
  <2>1. TrimInv /\ WellFormed(buckets) /\ pos \in Positions
    BY <1>1, DrainingIs
  <2>2. Cells[pos] # EMPTY
    BY <2>1, CellsAre
  <2>3. QED
    BY <2>1, <2>2 DEF TrimInv, Next1
<1>2. QED
  BY <1>1, Invariance, PTL
-------------------------------------------------------------------------------
(* The buckets are an array of positions (SlotArray).                      *)

LEMMA BehindIsDist ==
  ASSUME NEW from \in Positions, NEW pos \in Positions
  PROVE  /\ A!Behind(from, pos) = Dist(from, pos)
         /\ (pos - 1) % TableSize = Prev1(pos)
<1>1. \A x \in Positions : x % TableSize = x
  BY SizeNat DEF Positions
<1>2. \A x \in (1 - TableSize)..(-1) : x % TableSize = x + TableSize
  BY SizeNat
<1>3. (pos - from) % TableSize = Dist(from, pos)
  <2>1. CASE pos >= from
    BY <1>1, <2>1, SizeNat DEF Positions, Dist, mod_sub
  <2>2. CASE pos < from
    BY <1>2, <2>2, SizeNat DEF Positions, Dist, mod_sub
  <2>3. QED
    BY <2>1, <2>2 DEF Positions
<1>4. (pos - 1) % TableSize = Prev1(pos)
  <2>1. CASE pos >= 1
    BY <1>1, <2>1, SizeNat DEF Positions, Prev1, mod_sub
  <2>2. CASE pos < 1
    BY <1>2, <2>2, SizeNat DEF Positions, Prev1, mod_sub
  <2>3. QED
    BY <2>1, <2>2 DEF Positions
<1>5. QED
  BY <1>3, <1>4 DEF A!Behind

(* The variables of the array.                                             *)
Slot    == IF call = Idle THEN Contents ELSE call.before
Drained == IF drain = Idle THEN {-1} ELSE drain.visited

(* The end of an insertion puts the element: at a free position, or in     *)
(* front of a row.                                                         *)
LEMMA ConstructPuts ==
  ASSUME IInv, Construct
  PROVE  A!Next
<1>1. /\ ConstructInv /\ call.op = "construct" /\ call' = Idle /\ drain = Idle
      /\ drain' = drain /\ handed' = handed /\ WellFormed(buckets)
      /\ Contents' = [Cells EXCEPT ![call.location] = call.elem]
  BY ConstructKeepsInv DEF IInv
<1>2. PICK loc \in Positions : loc = call.location
  BY <1>1 DEF ConstructInv
<1>3. PICK elem \in Elems : elem = call.elem
  BY <1>1 DEF ConstructInv
<1> DEFINE before == call.before
<1>4. /\ Slot = before /\ Slot' = Contents' /\ before \in [Positions -> Slots]
      /\ Drained = {-1} /\ Drained' = {-1}
  BY <1>1 DEF Slot, Drained, Idle, ConstructInv, IsArray
<1>5. Contents' = [pos \in Positions |-> IF pos = loc THEN elem ELSE Cells[pos]]
  <2>1. Cells \in [Positions -> States \cup {EMPTY}]
    BY <1>1, CellsAre
  <2> HIDE DEF Cells
  <2>2. QED
    BY <2>1, <1>1, <1>2, <1>3
<1>6. CASE PutAtFree
  <2>1. before[loc] = EMPTY /\ \A pos \in Positions \ {loc} : Cells[pos] = before[pos]
    BY <1>2, <1>6 DEF PutAtFree
  <2> HIDE DEF Cells
  <2>2. Slot' = [Slot EXCEPT ![loc] = elem]
    BY <1>4, <1>5, <2>1
  <2>3. A!Put(loc, elem)
    BY <1>1, <1>4, <2>1, <2>2 DEF A!Put, A!NotDraining, Slot, Drained
  <2>4. QED
    BY <2>3 DEF A!Next, A!Positions, Positions
<1>7. CASE \E to \in Positions : PutAtRow(to)
  <2>1. PICK to \in Positions : PutAtRow(to)
    BY <1>7
  <2>2. /\ before[to] = EMPTY
        /\ \A pos \in Positions : Dist(loc, pos) < Dist(loc, to) => before[pos] # EMPTY
        /\ \A pos \in Positions \ {loc} :
              Cells[pos] = IF Dist(loc, pos) <= Dist(loc, to)
                           THEN before[Prev1(pos)] ELSE before[pos]
    BY <1>2, <2>1 DEF PutAtRow, IsRow
  <2>3. \A pos \in Positions : /\ A!Behind(loc, pos) = Dist(loc, pos)
                               /\ (pos - 1) % TableSize = Prev1(pos)
    BY BehindIsDist
  <2> HIDE DEF before, Cells
  <2>4. Slot' = [pos \in Positions |->
                   IF pos = loc THEN elem
                   ELSE IF A!Behind(loc, pos) <= A!Behind(loc, to)
                        THEN Slot[(pos - 1) % TableSize] ELSE Slot[pos]]
    BY <1>4, <1>5, <2>2, <2>3
  <2>5. \A pos \in Positions : A!Behind(loc, pos) < A!Behind(loc, to) => Slot[pos] # EMPTY
    BY <1>4, <2>2, <2>3
  <2>6. Slot[to] = EMPTY
    BY <1>4, <2>2
  <2>7. A!Positions = Positions
    BY DEF A!Positions, Positions
  <2>8. A!PutInFront(loc, to, elem)
    BY <1>1, <1>4, <2>4, <2>5, <2>6, <2>7 DEF A!PutInFront, A!NotDraining, Slot, Drained
  <2>9. QED
    BY <2>7, <2>8 DEF A!Next
<1>8. QED
  BY <1>1, <1>6, <1>7 DEF ConstructInv

(* A drain hands out every element once, and what it frees was handed out. *)
LEMMA DrainHandsOut ==
  ASSUME IInv, StartDrain \/ SkipEmpty \/ Visit \/ EndDrain
  PROVE  A!Next \/ UNCHANGED <<Slot, Drained, handed>>
<1>1. CASE StartDrain
  <2>1. /\ call = Idle /\ drain = Idle /\ call' = Idle /\ drain' # Idle
        /\ drain'.visited = {} /\ buckets' = buckets /\ handed' = handed
    BY <1>1, StartDrainKeepsInv
  <2>2. Contents' = Contents
    BY <2>1 DEF Contents
  <2>3. Drained = {-1} /\ Drained' = {} /\ Slot' = Slot
    BY <2>1, <2>2 DEF Drained, Slot
  <2>4. A!StartDrain
    BY <2>1, <2>3 DEF A!StartDrain, A!NotDraining, Slot, Drained
  <2>5. QED
    BY <2>4 DEF A!Next
<1>2. CASE SkipEmpty
  <2>1. /\ call = Idle /\ drain # Idle /\ drain' # Idle /\ drain'.visited = drain.visited
        /\ buckets' = buckets /\ call' = call /\ handed' = handed
    BY <1>2, SkipEmptyKeepsInv
  <2>2. Contents' = Contents
    BY <2>1 DEF Contents
  <2>3. QED
    BY <2>1, <2>2 DEF Drained, Slot
<1>3. CASE Visit
  <2>1. /\ IInv' /\ call = Idle /\ drain # Idle /\ drain' # Idle /\ call' = call
        /\ drain.i \in Positions /\ drain.i \notin drain.visited
        /\ Cells[drain.i] \in Elems /\ handed' = <<drain.i, Cells[drain.i]>>
        /\ drain'.visited = drain.visited \cup {drain.i}
        /\ \A pos \in Positions \ drain'.visited : Cells'[pos] = Cells[pos]
        /\ \A pos \in drain'.visited : Cells'[pos] \in {EMPTY, Moved}
    BY <1>3, VisitKeepsInv
  <2>2. PICK pos \in Positions : pos = drain.i
    BY <2>1
  <2>3. Drained = drain.visited /\ Drained' = Drained \cup {pos} /\ Drained # {-1}
    <3>1. -1 \notin Positions /\ drain.visited \subseteq Positions
      BY <2>1, SizeNat, DrainingIs DEF Positions
    <3>2. QED
      BY <2>1, <2>2, <3>1 DEF Drained
  <2>4. /\ Slot = [p \in Positions |-> IF Cells[p] = Moved THEN EMPTY ELSE Cells[p]]
        /\ Slot' = [p \in Positions |-> IF Cells'[p] = Moved THEN EMPTY ELSE Cells'[p]]
    <3>1. Slot = Contents /\ Slot' = Contents'
      BY <2>1 DEF Slot
    <3>2. Contents = [p \in Positions |-> IF Cells[p] = Moved THEN EMPTY ELSE Cells[p]]
      BY DEF Contents, Cells, Array
    <3>3. Contents' = [p \in Positions |-> IF Cells'[p] = Moved THEN EMPTY ELSE Cells'[p]]
      BY DEF Contents, Cells, Array
    <3>4. QED
      BY <3>1, <3>2, <3>3
  <2> HIDE DEF Cells
  <2>5. Slot[pos] = Cells[pos] /\ Slot[pos] # EMPTY
    BY <2>1, <2>2, <2>4, Different
  <2>6. Slot' = [p \in Positions |-> IF p \in Drained' THEN EMPTY ELSE Slot[p]]
    <3>1. \A p \in Positions :
             (IF Cells'[p] = Moved THEN EMPTY ELSE Cells'[p])
               = IF p \in Drained' THEN EMPTY ELSE Slot[p]
      <4>1. Drained' = drain'.visited
        BY <2>1, <2>2, <2>3
      <4>2. QED
        BY <2>1, <2>4, <4>1
    <3>2. QED
      BY <2>4, <3>1
  <2>7. \E freed \in SUBSET Drained' :
           Slot' = [p \in Positions |-> IF p \in freed THEN EMPTY ELSE Slot[p]]
    <3>1. PICK freed \in SUBSET Drained' : freed = Drained'
      OBVIOUS
    <3>2. QED
      BY <2>6, <3>1
  <2>8. A!Positions = Positions
    BY DEF A!Positions, Positions
  <2>9. A!HandOut(pos)
    BY <2>1, <2>2, <2>3, <2>5, <2>7, <2>8 DEF A!HandOut, A!NotDraining, Slot, Drained
  <2>10. QED
    BY <2>8, <2>9 DEF A!Next
<1>4. CASE EndDrain
  <2>1. /\ call = Idle /\ drain # Idle /\ drain' = Idle /\ call' = call
        /\ Cells' = [pos \in Positions |-> EMPTY] /\ handed' = Nothing
        /\ \A pos \in Positions : Cells[pos] \in {EMPTY, Moved}
    BY <1>4, EndDrainKeepsInv
  <2>2. Drained = drain.visited /\ Drained' = {-1} /\ Drained # {-1}
    <3>1. -1 \notin Positions /\ drain.visited \subseteq Positions
      BY <2>1, SizeNat, DrainingIs DEF Positions
    <3>2. QED
      BY <2>1, <3>1 DEF Drained
  <2>3. /\ Slot = [p \in Positions |-> IF Cells[p] = Moved THEN EMPTY ELSE Cells[p]]
        /\ Slot' = [p \in Positions |-> IF Cells'[p] = Moved THEN EMPTY ELSE Cells'[p]]
    <3>1. Slot = Contents /\ Slot' = Contents'
      BY <2>1 DEF Slot
    <3>2. Contents = [p \in Positions |-> IF Cells[p] = Moved THEN EMPTY ELSE Cells[p]]
      BY DEF Contents, Cells, Array
    <3>3. Contents' = [p \in Positions |-> IF Cells'[p] = Moved THEN EMPTY ELSE Cells'[p]]
      BY DEF Contents, Cells, Array
    <3>4. QED
      BY <3>1, <3>2, <3>3
  <2> HIDE DEF Cells
  <2>4. \A pos \in Positions : Slot[pos] = EMPTY
    BY <2>1, <2>3
  <2>5. Slot' = [pos \in Positions |-> EMPTY]
    BY <2>1, <2>3
  <2>6. A!Positions = Positions /\ A!Nothing = Nothing
    BY DEF A!Positions, Positions, A!Nothing, Nothing
  <2>7. A!EndDrain
    BY <2>1, <2>2, <2>4, <2>5, <2>6 DEF A!EndDrain, A!NotDraining, Slot, Drained
  <2>8. QED
    BY <2>7 DEF A!Next
<1>5. QED
  BY <1>1, <1>2, <1>3, <1>4

(* Everything else happens inside a call, and changes nothing of the       *)
(* array.                                                                  *)
LEMMA InsideACall ==
  ASSUME IInv,
         \/ \E pos \in Positions, elem \in Elems : Put(pos, elem)
         \/ \E from \in Positions, elem \in Elems : StartPutInFront(from, elem)
         \/ Serialize \/ Deserialize \/ MoveOne \/ StartSecondPart \/ FinishPutInFront
         \/ UNCHANGED vars
  PROVE  UNCHANGED <<Slot, Drained, handed>>
<1>1. CASE \/ \E pos \in Positions, elem \in Elems : Put(pos, elem)
           \/ \E from \in Positions, elem \in Elems : StartPutInFront(from, elem)
           \/ Serialize
  <2>1. /\ call = Idle /\ call'.before = Contents /\ drain' = drain /\ handed' = handed
        /\ call'.op \in {"construct", "shift", "read"}
    BY <1>1, PutKeepsInv, StartPutInFrontKeepsInv, SerializeKeepsInv
  <2>2. QED
    BY <2>1 DEF Slot, Drained, Idle
<1>2. CASE Deserialize
  <2>1. /\ call.op = "read" /\ call' = Idle /\ Contents' = call.before
        /\ drain' = drain /\ handed' = handed
    BY <1>2, DeserializeKeepsInv
  <2>2. QED
    BY <2>1 DEF Slot, Drained, Idle
<1>3. CASE MoveOne \/ StartSecondPart \/ FinishPutInFront
  <2>1. /\ call.op = "shift" /\ call'.op \in {"construct", "shift"}
        /\ call'.before = call.before /\ drain' = drain /\ handed' = handed
    BY <1>3, MoveOneKeepsInv, StartSecondPartKeepsInv, FinishPutInFrontKeepsInv
  <2>2. QED
    BY <2>1 DEF Slot, Drained, Idle
<1>4. CASE UNCHANGED vars
  <2>1. buckets' = buckets /\ call' = call /\ drain' = drain /\ handed' = handed
    BY <1>4 DEF vars
  <2>2. Contents' = Contents
    BY <2>1 DEF Contents
  <2>3. QED
    BY <2>1, <2>2 DEF Slot, Drained
<1>5. QED
  BY <1>1, <1>2, <1>3, <1>4

(* The buckets are an array of positions: every insertion, with all the    *)
(* moves of its shift between and inside of blocks, and every step of a    *)
(* drain, with the buckets it frees, is one of the array; writing the      *)
(* buckets into a stream and reading them changes nothing of it.           *)
THEOREM IsSlotArray == Spec => RefinesSlotArray
<1>1. Init => A!Init
  <2> SUFFICES ASSUME Init PROVE A!Init
    OBVIOUS
  <2>1. /\ buckets = [b \in Buckets |-> EmptyBucket] /\ call = Idle /\ drain = Idle
        /\ handed = Nothing
    BY DEF Init
  <2>2. Cells = [pos \in Positions |-> EMPTY]
    BY <2>1, NothingIn DEF Cells
  <2>3. Contents = [p \in Positions |-> IF Cells[p] = Moved THEN EMPTY ELSE Cells[p]]
    BY DEF Contents, Cells, Array
  <2> HIDE DEF Cells
  <2>4. Contents = [pos \in Positions |-> EMPTY]
    BY <2>2, <2>3
  <2>5. QED
    BY <2>1, <2>4 DEF A!Init, A!Positions, A!NotDraining, A!Nothing, Positions, Nothing
<1>2. IInv /\ [Next]_vars => [A!Next]_(A!vars)
  <2> SUFFICES ASSUME IInv, [Next]_vars PROVE A!Next \/ UNCHANGED <<Slot, Drained, handed>>
    BY DEF A!vars, Slot, Drained
  <2>1. CASE Construct
    BY <2>1, ConstructPuts
  <2>2. CASE StartDrain \/ SkipEmpty \/ Visit \/ EndDrain
    BY <2>2, DrainHandsOut
  <2>3. QED
    BY <2>1, <2>2, InsideACall DEF Next, Continue
<1>3. QED
  BY <1>1, <1>2, Invariance, PTL DEF Spec, RefinesSlotArray, A!Spec
===============================================================================
