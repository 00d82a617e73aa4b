-------------------------- MODULE DisplacementProofs --------------------------
(***************************************************************************)
(* Proofs about the probing table of Displacement, for every capacity and  *)
(* every set of keys.  The inductive invariant is                          *)
(*                                                                         *)
(*     IInv == TypeOK /\ NoHole /\ NoDuplicate /\ FreePosition             *)
(*                                                                         *)
(* FreePosition makes every probe end (ProbeEnds); NoHole says that what   *)
(* was passed when an element was placed is still occupied, so that a      *)
(* later probe for the same key passes it again and reaches the element    *)
(* before it reaches a free position; this is why no key is placed twice.  *)
(***************************************************************************)
EXTENDS Displacement, SizeManagerProofs, FiniteSetTheorems

IInv == TypeOK /\ Placed

USE CapacityAssumption, AddressesAssumption, EmptyAssumption, MaxEntriesAssumption
-------------------------------------------------------------------------------
(* Probes end.                                                             *)

LEMMA AllocatedFinite ==
  /\ IsFiniteSet(Positions) /\ Cardinality(Positions) = Capacity
  /\ IsFiniteSet(Allocated) /\ Cardinality(Allocated) \in Nat
<1>1. IsFiniteSet(Positions) /\ Cardinality(Positions) = Capacity
  BY FS_Interval DEF Positions
<1>2. Allocated \subseteq Positions
  BY DEF Allocated
<1>3. QED
  BY <1>1, <1>2, FS_Subset, FS_CardinalityType

(* While a position is free the loop over the positions from the initial   *)
(* address has an exit, so the DCHECK_NE after mod_add holds.              *)
LEMMA ExitsNonempty ==
  ASSUME TypeOK, FreePosition, NEW key \in DecomposedKeys
  PROVE  Exits(key) # {} /\ Exits(key) \subseteq Positions
<1>1. PICK pos \in Positions : pos_is_empty(pos)
  <2>1. Allocated # Positions
    BY AllocatedFinite DEF FreePosition
  <2>2. QED
    BY <2>1 DEF Allocated
<1>2. key.ia \in Positions
  BY DEF DecomposedKeys, Positions
<1>3. mod_sub(Capacity, pos, key.ia) \in Positions
      /\ mod_add(Capacity, key.ia, mod_sub(Capacity, pos, key.ia)) = pos
  BY <1>2, ModSubAdd DEF Positions
<1>4. QED
  BY <1>1, <1>3 DEF Exits

(* Where the loop of search and lookup_insert leaves, and that it passed   *)
(* nothing it could have left at.                                          *)
LEMMA ProbeEnds ==
  ASSUME TypeOK, FreePosition, NEW key \in DecomposedKeys
  PROVE  /\ Cursor(key) \in Positions
         /\ mod_sub(Capacity, Cursor(key), key.ia) \in Exits(key)
         /\ \A k \in Exits(key) : mod_sub(Capacity, Cursor(key), key.ia) <= k
         /\ pos_is_empty(Cursor(key)) \/ Holds(key, Cursor(key))
<1> DEFINE m == Min(Exits(key))
<1>1. m \in Exits(key) /\ \A k \in Exits(key) : m <= k
  <2>1. Exits(key) \subseteq Nat
    BY ExitsNonempty DEF Positions
  <2>2. QED
    BY <2>1, ExitsNonempty, MinOfNaturals
<1>2. m \in Positions /\ key.ia \in Positions
  BY <1>1, ExitsNonempty DEF DecomposedKeys, Positions
<1>3. Cursor(key) \in Positions /\ mod_sub(Capacity, Cursor(key), key.ia) = m
  BY <1>2, ModAddSub DEF Cursor, Positions
<1>4. pos_is_empty(Cursor(key)) \/ Holds(key, Cursor(key))
  BY <1>1 DEF Exits, Cursor
<1>5. QED
  BY <1>1, <1>3, <1>4
-------------------------------------------------------------------------------
(* Type correctness.                                                       *)

LEMMA InitIInv == Init => IInv
<1> SUFFICES ASSUME Init PROVE IInv
  OBVIOUS
<1>1. TypeOK
  BY DEF Init, TypeOK, Positions
<1>2. Allocated = {}
  BY DEF Init, Allocated, pos_is_empty
<1>3. Placed
  BY <1>2, FS_EmptySet DEF Placed, NoHole, NoDuplicate, FreePosition
<1>4. QED
  BY <1>1, <1>3 DEF IInv

LEMMA TypeOKStep ==
  ASSUME TypeOK, FreePosition, NEW key \in DecomposedKeys, lookup_insert(key)
  PROVE  TypeOK'
<1> DEFINE cursor == Cursor(key)
<1>1. cursor \in Positions
  BY ProbeEnds
<1>2. mod_sub(Capacity, cursor, key.ia) \in Positions
  BY <1>1, ModSubAdd DEF DecomposedKeys, Positions
<1>3. key.sq \in Quotients
  BY DEF DecomposedKeys
<1>4. slot' \in [Positions -> Quotients \cup {EMPTY}] /\ displace' \in [Positions -> Positions]
  BY <1>1, <1>2, <1>3 DEF lookup_insert, InsertAt, TypeOK
<1>5. reply' = [op |-> "lookup_insert", key |-> key, id |-> cursor,
                already_exist |-> ~pos_is_empty(cursor)]
  BY DEF lookup_insert
<1>6. (~pos_is_empty(cursor)) \in BOOLEAN
  BY DEF pos_is_empty
<1>7. QED
  BY <1>1, <1>4, <1>5, <1>6 DEF TypeOK
-------------------------------------------------------------------------------
(* The placement invariant.  An insertion finds the key and changes        *)
(* nothing, or writes the free position where its probe ended.             *)

LEMMA InsertionStep ==
  ASSUME IInv, NEW key \in DecomposedKeys, lookup_insert(key)
  PROVE  \/ UNCHANGED <<slot, displace>>
         \/ /\ pos_is_empty(Cursor(key))
            /\ InsertAt(key, Cursor(key))
BY DEF lookup_insert

(* What an insertion at a free position leaves, and what it adds.          *)
LEMMA AfterInsertAt ==
  ASSUME IInv, NEW key \in DecomposedKeys,
         pos_is_empty(Cursor(key)), InsertAt(key, Cursor(key))
  PROVE  /\ Cursor(key) \in Positions \ Allocated
         /\ slot'[Cursor(key)] = key.sq
         /\ displace'[Cursor(key)] = mod_sub(Capacity, Cursor(key), key.ia)
         /\ \A pos \in Positions : pos # Cursor(key) =>
               slot'[pos] = slot[pos] /\ displace'[pos] = displace[pos]
         /\ Allocated' = Allocated \cup {Cursor(key)}
<1>1. Cursor(key) \in Positions \ Allocated
  BY ProbeEnds DEF IInv, Placed, Allocated
<1>2. /\ slot'[Cursor(key)] = key.sq
      /\ displace'[Cursor(key)] = mod_sub(Capacity, Cursor(key), key.ia)
  BY <1>1 DEF InsertAt, IInv, TypeOK
<1>3. \A pos \in Positions : pos # Cursor(key) =>
         slot'[pos] = slot[pos] /\ displace'[pos] = displace[pos]
  BY DEF InsertAt, IInv, TypeOK
<1>4. slot'[Cursor(key)] # EMPTY
  BY <1>2 DEF DecomposedKeys
<1>5. Allocated' = Allocated \cup {Cursor(key)}
  BY <1>1, <1>3, <1>4 DEF Allocated, pos_is_empty, Positions
<1>6. QED
  BY <1>1, <1>2, <1>3, <1>5

LEMMA FreePositionStep ==
  ASSUME IInv, NEW key \in DecomposedKeys, lookup_insert(key)
  PROVE  FreePosition'
<1>1. CASE UNCHANGED <<slot, displace>>
  BY <1>1 DEF IInv, Placed, FreePosition, Allocated, pos_is_empty
<1>2. CASE pos_is_empty(Cursor(key)) /\ InsertAt(key, Cursor(key))
  <2>1. Cardinality(Allocated) < MaxEntries
    BY DEF lookup_insert, HasRoom
  <2>2. Allocated' = Allocated \cup {Cursor(key)} /\ Cursor(key) \notin Allocated
    BY <1>2, AfterInsertAt
  <2>3. Cardinality(Allocated') = Cardinality(Allocated) + 1
    BY <2>2, AllocatedFinite, FS_AddElement
  <2>4. QED
    BY <2>1, <2>3, AllocatedFinite DEF FreePosition
<1>3. QED
  BY <1>1, <1>2, InsertionStep

LEMMA NoHoleStep ==
  ASSUME IInv, NEW key \in DecomposedKeys, lookup_insert(key)
  PROVE  NoHole'
<1>1. CASE UNCHANGED <<slot, displace>>
  BY <1>1 DEF IInv, Placed, NoHole, Allocated, pos_is_empty, HomeOf
<1>2. CASE pos_is_empty(Cursor(key)) /\ InsertAt(key, Cursor(key))
  <2> DEFINE cursor == Cursor(key)
  <2>1. /\ cursor \in Positions \ Allocated
        /\ slot'[cursor] = key.sq
        /\ displace'[cursor] = mod_sub(Capacity, cursor, key.ia)
        /\ \A pos \in Positions : pos # cursor =>
              slot'[pos] = slot[pos] /\ displace'[pos] = displace[pos]
        /\ Allocated' = Allocated \cup {cursor}
    BY <1>2, AfterInsertAt
  <2>2. \A pos \in Positions : ~pos_is_empty(pos) => ~(pos_is_empty(pos))'
    BY <2>1 DEF Allocated, pos_is_empty
  <2>3. slot'[cursor] # EMPTY
    BY <2>1 DEF DecomposedKeys
  <2> SUFFICES ASSUME NEW pos \in Allocated', NEW k \in 0..(displace'[pos])
               PROVE  ~(pos_is_empty(mod_add(Capacity, HomeOf(pos), k)))'
    BY DEF NoHole
  <2>4. CASE pos \in Allocated
    <3>1. pos # cursor /\ pos \in Positions
      BY <2>1, <2>4 DEF Allocated
    <3>2. displace'[pos] = displace[pos] /\ HomeOf(pos)' = HomeOf(pos)
      BY <2>1, <3>1 DEF HomeOf
    <3>3. HomeOf(pos) \in Positions /\ displace[pos] \in Positions
      BY <3>1, ModSubAdd DEF HomeOf, IInv, TypeOK, Positions
    <3>4. mod_add(Capacity, HomeOf(pos), k) \in Positions
      <4>1. k \in Positions
        BY <3>2, <3>3 DEF Positions
      <4>2. QED
        BY <4>1, <3>3, ModAddSub DEF Positions
    <3>5. ~pos_is_empty(mod_add(Capacity, HomeOf(pos), k))
      BY <2>4, <3>2 DEF IInv, Placed, NoHole
    <3>6. QED
      BY <2>2, <3>2, <3>4, <3>5 DEF pos_is_empty
  <2>5. CASE pos = cursor
    <3> DEFINE m == mod_sub(Capacity, cursor, key.ia)
    <3>1. key.ia \in Positions
      BY DEF DecomposedKeys, Positions
    <3>2. HomeOf(pos)' = key.ia /\ m \in Positions
      <4>1. HomeOf(pos)' = mod_sub(Capacity, cursor, m)
        BY <2>1, <2>5 DEF HomeOf
      <4>2. cursor \in Positions
        BY <2>1
      <4>3. m \in Positions /\ mod_sub(Capacity, cursor, m) = key.ia
        BY <3>1, <4>2, ModSubAdd DEF Positions
      <4>4. QED
        BY <4>1, <4>3
    <3>3. k \in 0..m /\ k \in Positions
      BY <2>1, <2>5, <3>2 DEF Positions
    <3>4. mod_add(Capacity, key.ia, k) \in Positions
      BY <3>1, <3>3, ModAddSub DEF Positions
    <3>5. CASE k = m
      <4>1. mod_add(Capacity, key.ia, k) = cursor
        <5>1. cursor \in Positions
          BY <2>1
        <5>2. QED
          BY <3>1, <3>5, <5>1, ModSubAdd DEF Positions
      <4>2. (mod_add(Capacity, HomeOf(pos), k))' = cursor
        BY <3>2, <4>1
      <4>3. QED
        BY <2>3, <4>2 DEF pos_is_empty
    <3>6. CASE k # m
      <4>1. k \notin Exits(key)
        <5>1. \A j \in Exits(key) : m <= j
          BY ProbeEnds DEF IInv, Placed
        <5>2. QED
          BY <3>2, <3>3, <3>6, <5>1 DEF Positions
      <4>2. ~pos_is_empty(mod_add(Capacity, key.ia, k))
        BY <3>3, <4>1 DEF Exits
      <4>3. QED
        BY <2>2, <3>2, <3>4, <4>2 DEF pos_is_empty
    <3>7. QED
      BY <3>5, <3>6
  <2>6. QED
    BY <2>1, <2>4, <2>5
<1>3. QED
  BY <1>1, <1>2, InsertionStep
-------------------------------------------------------------------------------
(* A probe and the elements.                                               *)

(* An element the probe stops at is the element of the key.                *)
LEMMA HeldKey ==
  ASSUME TypeOK, NEW key \in DecomposedKeys, NEW pos \in Positions
  PROVE  Holds(key, pos) <=> KeyAt(pos) = key
<1>1. key.ia \in Positions /\ displace[pos] \in Positions
  BY DEF DecomposedKeys, Positions, TypeOK
<1>2. displace[pos] = mod_sub(Capacity, pos, key.ia) <=> HomeOf(pos) = key.ia
  <2>1. mod_sub(Capacity, pos, mod_sub(Capacity, pos, key.ia)) = key.ia
    BY <1>1, ModSubAdd DEF Positions
  <2>2. mod_sub(Capacity, pos, mod_sub(Capacity, pos, displace[pos])) = displace[pos]
    BY <1>1, ModSubAdd DEF Positions
  <2>3. QED
    BY <2>1, <2>2 DEF HomeOf
<1>3. KeyAt(pos) = key <=> HomeOf(pos) = key.ia /\ slot[pos] = key.sq
  <2>1. key = [ia |-> key.ia, sq |-> key.sq]
    BY DEF DecomposedKeys
  <2>2. QED
    BY <2>1 DEF KeyAt
<1>4. QED
  BY <1>2, <1>3 DEF Holds

(* The probe for a stored key ends at its element: no position on the way  *)
(* is free, and no other element holds the key.                            *)
LEMMA StoredKeyIsFound ==
  ASSUME IInv, NEW key \in DecomposedKeys, NEW pos \in Allocated, KeyAt(pos) = key
  PROVE  Cursor(key) = pos
<1> DEFINE m == mod_sub(Capacity, Cursor(key), key.ia)
<1>1. /\ pos \in Positions /\ key.ia \in Positions /\ displace[pos] \in Positions
      /\ HomeOf(pos) = key.ia
  BY DEF Allocated, DecomposedKeys, Positions, IInv, TypeOK, KeyAt
<1>2. Holds(key, pos)
  BY <1>1, HeldKey DEF IInv
<1>3. displace[pos] \in Exits(key)
  <2>1. mod_add(Capacity, key.ia, displace[pos]) = pos
    <3>1. mod_add(Capacity, key.ia, mod_sub(Capacity, pos, key.ia)) = pos
      BY <1>1, ModSubAdd DEF Positions
    <3>2. QED
      BY <1>2, <3>1 DEF Holds
  <2>2. QED
    BY <1>1, <1>2, <2>1 DEF Exits
<1>4. Cursor(key) \in Positions /\ m \in Positions
      /\ mod_add(Capacity, key.ia, m) = Cursor(key) /\ m <= displace[pos]
  <2>1. Cursor(key) \in Positions /\ m <= displace[pos]
    BY <1>3, ProbeEnds DEF IInv, Placed
  <2>2. QED
    BY <1>1, <2>1, ModSubAdd DEF Positions
<1>5. ~pos_is_empty(Cursor(key))
  <2>1. m \in 0..(displace[pos])
    BY <1>1, <1>4 DEF Positions
  <2>2. ~pos_is_empty(mod_add(Capacity, HomeOf(pos), m))
    BY <2>1 DEF IInv, Placed, NoHole
  <2>3. QED
    BY <1>1, <1>4, <2>2
<1>6. Cursor(key) \in Allocated /\ KeyAt(Cursor(key)) = key
  <2>1. Holds(key, Cursor(key))
    BY <1>5, ProbeEnds DEF IInv, Placed
  <2>2. QED
    BY <1>4, <1>5, <2>1, HeldKey DEF IInv, Allocated
<1>7. QED
  BY <1>6 DEF IInv, Placed, NoDuplicate

LEMMA NoDuplicateStep ==
  ASSUME IInv, NEW key \in DecomposedKeys, lookup_insert(key)
  PROVE  NoDuplicate'
<1>1. CASE UNCHANGED <<slot, displace>>
  BY <1>1 DEF IInv, Placed, NoDuplicate, Allocated, pos_is_empty, KeyAt, HomeOf
<1>2. CASE pos_is_empty(Cursor(key)) /\ InsertAt(key, Cursor(key))
  <2> DEFINE cursor == Cursor(key)
  <2>1. /\ cursor \in Positions \ Allocated
        /\ slot'[cursor] = key.sq
        /\ displace'[cursor] = mod_sub(Capacity, cursor, key.ia)
        /\ \A pos \in Positions : pos # cursor =>
              slot'[pos] = slot[pos] /\ displace'[pos] = displace[pos]
        /\ Allocated' = Allocated \cup {cursor}
    BY <1>2, AfterInsertAt
  <2>2. \A pos \in Allocated : KeyAt(pos)' = KeyAt(pos) /\ pos # cursor
    BY <2>1 DEF Allocated, KeyAt, HomeOf
  <2>3. \A pos : pos = cursor => KeyAt(pos)' = key
    <3>1. mod_sub(Capacity, cursor, mod_sub(Capacity, cursor, key.ia)) = key.ia
      BY <2>1, ModSubAdd DEF DecomposedKeys, Positions
    <3>2. key = [ia |-> key.ia, sq |-> key.sq]
      BY DEF DecomposedKeys
    <3>3. QED
      BY <2>1, <3>1, <3>2 DEF KeyAt, HomeOf
  <2>4. \A pos \in Allocated : KeyAt(pos) # key
    BY <2>1, StoredKeyIsFound
  <2>5. \A p, q \in Allocated : KeyAt(p) = KeyAt(q) => p = q
    BY DEF IInv, Placed, NoDuplicate
  <2>6. SUFFICES ASSUME NEW p \in Allocated', NEW q \in Allocated',
                        KeyAt(p)' = KeyAt(q)'
                 PROVE  p = q
    BY DEF NoDuplicate
  <2>7. CASE p \in Allocated /\ q \in Allocated
    BY <2>2, <2>5, <2>6, <2>7
  <2>8. CASE p = cursor \/ q = cursor
    BY <2>1, <2>2, <2>3, <2>4, <2>6, <2>8
  <2>9. QED
    BY <2>1, <2>7, <2>8
<1>3. QED
  BY <1>1, <1>2, InsertionStep

LEMMA NextIInv == IInv /\ [Next]_vars => IInv'
<1> SUFFICES ASSUME IInv, [Next]_vars PROVE IInv'
  OBVIOUS
<1>1. ASSUME NEW key \in DecomposedKeys, lookup_insert(key) PROVE IInv'
  <2>1. TypeOK'
    BY <1>1, TypeOKStep DEF IInv, Placed
  <2>2. NoHole' /\ NoDuplicate' /\ FreePosition'
    BY <1>1, NoHoleStep, NoDuplicateStep, FreePositionStep
  <2>3. QED
    BY <2>1, <2>2 DEF IInv, Placed
<1>2. CASE UNCHANGED vars
  BY <1>2 DEF vars, IInv, TypeOK, Placed, NoHole, NoDuplicate, FreePosition,
              Allocated, pos_is_empty, KeyAt, HomeOf
<1>3. QED
  BY <1>1, <1>2 DEF Next
-------------------------------------------------------------------------------
LEMMA Invariance == Spec => []IInv
BY InitIInv, NextIInv, PTL DEF Spec

(* Quotients, distances and ids stay in their ranges: an id is a position  *)
(* of the table.                                                           *)
THEOREM TypeCorrect == Spec => []TypeOK
<1>1. IInv => TypeOK
  BY DEF IInv
<1>2. QED
  BY <1>1, Invariance, PTL

(* In every reachable table the positions between an element and its       *)
(* initial address are occupied, no key is stored twice, and a position    *)
(* is free.                                                                *)
THEOREM PlacedAlways == Spec => []Placed
<1>1. IInv => Placed
  BY DEF IInv
<1>2. QED
  BY <1>1, Invariance, PTL

(* In every reachable table a search finds exactly the stored keys, each   *)
(* under the id its insertion returned.                                    *)
THEOREM SearchCorrect == Spec => []SearchFindsEntries
<1>1. ASSUME IInv PROVE SearchFindsEntries
  <2> SUFFICES ASSUME NEW key \in DecomposedKeys
               PROVE  search(key) = IF key \in StoredKeys
                                    THEN [found |-> TRUE, id |-> Entries[key]]
                                    ELSE NotFound
    BY DEF SearchFindsEntries
  <2>1. CASE key \in StoredKeys
    <3>1. PICK pos \in Allocated : KeyAt(pos) = key
      BY <2>1 DEF StoredKeys
    <3>2. Cursor(key) = pos
      BY <1>1, <3>1, StoredKeyIsFound
    <3>3. Entries[key] = pos
      <4>1. \A q \in Allocated : KeyAt(q) = key => q = pos
        BY <1>1, <3>1 DEF IInv, Placed, NoDuplicate
      <4>2. (CHOOSE q \in Allocated : KeyAt(q) = key) = pos
        BY <3>1, <4>1
      <4>3. QED
        BY <2>1, <4>2 DEF Entries
    <3>4. ~pos_is_empty(pos)
      BY <3>1 DEF Allocated
    <3>5. QED
      BY <2>1, <3>2, <3>3, <3>4 DEF search
  <2>2. CASE key \notin StoredKeys
    <3>1. Cursor(key) \in Positions
          /\ (pos_is_empty(Cursor(key)) \/ Holds(key, Cursor(key)))
      BY <1>1, ProbeEnds DEF IInv, Placed
    <3>2. pos_is_empty(Cursor(key))
      <4>1. ASSUME ~pos_is_empty(Cursor(key)) PROVE FALSE
        <5>1. Cursor(key) \in Allocated /\ KeyAt(Cursor(key)) = key
          BY <1>1, <3>1, <4>1, HeldKey DEF IInv, Allocated
        <5>2. QED
          BY <2>2, <5>1 DEF StoredKeys
      <4>2. QED
        BY <4>1
    <3>3. QED
      BY <2>2, <3>2 DEF search
  <2>3. QED
    BY <2>1, <2>2
<1>2. QED
  BY <1>1, Invariance, PTL
-------------------------------------------------------------------------------
(* The walk of a rehash.                                                   *)

LEMMA StartIsFree ==
  ASSUME FreePosition
  PROVE  OriginalStart \in Positions /\ pos_is_empty(OriginalStart)
<1> DEFINE S == {pos \in Positions : pos_is_empty(pos)}
<1>1. S # {} /\ S \subseteq Nat
  <2>1. Allocated # Positions
    BY AllocatedFinite DEF FreePosition
  <2>2. QED
    BY <2>1 DEF Allocated, Positions
<1>2. Min(S) \in S
  <2> HIDE DEF S
  <2>1. QED
    BY <1>1, MinOfNaturals DEF Min
<1>3. QED
  BY <1>2 DEF OriginalStart

(* The steps of the walk and the positions other than its start are one to *)
(* one.                                                                    *)
LEMMA StepOfPosition ==
  ASSUME NEW start \in Positions
  PROVE  /\ \A k \in 1..(Capacity - 1) :
              /\ mod_add(Capacity, start, k) \in Positions
              /\ mod_sub(Capacity, mod_add(Capacity, start, k), start) = k
         /\ \A pos \in Positions \ {start} :
              /\ mod_sub(Capacity, pos, start) \in 1..(Capacity - 1)
              /\ mod_add(Capacity, start, mod_sub(Capacity, pos, start)) = pos
BY DEF Positions, mod_add, mod_sub

(* In every reachable table the walk visits every element once, and what   *)
(* it reports of an element is its key (for_all_allocated).                *)
THEOREM WalkIsComplete == Spec => []WalkVisitsEntriesOnce
<1>1. ASSUME IInv PROVE WalkVisitsEntriesOnce
  <2> DEFINE walk == for_all_allocated
  <2>1. OriginalStart \in Positions /\ pos_is_empty(OriginalStart)
    BY <1>1, StartIsFree DEF IInv, Placed
  <2>2. \A k \in DOMAIN walk :
           /\ k \in 1..(Capacity - 1) /\ At(k) \in Allocated
           /\ walk[k].pos = At(k) /\ walk[k].ia = HomeOf(At(k))
           /\ mod_sub(Capacity, At(k), OriginalStart) = k
    BY <2>1, StepOfPosition DEF for_all_allocated, Allocated, HomeOf, At
  <2>3. \A pos \in Allocated : \E k \in DOMAIN walk : At(k) = pos
    <3> SUFFICES ASSUME NEW pos \in Allocated PROVE \E k \in DOMAIN walk : At(k) = pos
      OBVIOUS
    <3>1. pos \in Positions \ {OriginalStart} /\ ~pos_is_empty(pos)
      BY <2>1 DEF Allocated
    <3>2. PICK k \in 1..(Capacity - 1) : At(k) = pos
      BY <2>1, <3>1, StepOfPosition DEF At
    <3>3. k \in DOMAIN walk
      BY <3>1, <3>2 DEF for_all_allocated
    <3>4. QED
      BY <3>2, <3>3
  <2> HIDE DEF walk
  <2>4. \A m, n \in DOMAIN walk : walk[m].pos = walk[n].pos => m = n
    BY <2>2
  <2>5. {[ia |-> walk[n].ia, sq |-> slot[walk[n].pos]] : n \in DOMAIN walk} = StoredKeys
    BY <2>2, <2>3 DEF StoredKeys, KeyAt
  <2>6. {walk[n].pos : n \in DOMAIN walk} = Allocated
    BY <2>2, <2>3
  <2>7. QED
    BY <2>4, <2>5, <2>6 DEF WalkVisitsEntriesOnce, walk
<1>2. QED
  BY <1>1, Invariance, PTL
-------------------------------------------------------------------------------
(* The table implements Placement.                                         *)

(* The id of a stored key is the position of its element.                  *)
LEMMA EntryOf ==
  ASSUME IInv, NEW pos \in Allocated
  PROVE  KeyAt(pos) \in StoredKeys /\ Entries[KeyAt(pos)] = pos
<1>1. KeyAt(pos) \in StoredKeys
  BY DEF StoredKeys
<1>2. \A q \in Allocated : KeyAt(q) = KeyAt(pos) => q = pos
  BY DEF IInv, Placed, NoDuplicate
<1>3. (CHOOSE q \in Allocated : KeyAt(q) = KeyAt(pos)) = pos
  BY <1>2
<1>4. QED
  BY <1>1, <1>3 DEF Entries

(* There are no more entries than occupied positions.                      *)
LEMMA EntriesBounded ==
  ASSUME IInv, HasRoom
  PROVE  Cardinality(DOMAIN Entries) < MaxEntries
<1>1. Entries \in Injection(StoredKeys, Allocated)
  <2>1. \A key \in StoredKeys : \E pos \in Allocated : key = KeyAt(pos) /\ Entries[key] = pos
    BY EntryOf DEF StoredKeys
  <2>2. Entries = [key \in StoredKeys |-> Entries[key]]
    BY DEF Entries
  <2>3. Entries \in [StoredKeys -> Allocated]
    BY <2>1, <2>2
  <2>4. \A k, l \in StoredKeys : Entries[k] = Entries[l] => k = l
    BY <2>1
  <2>5. QED
    BY <2>3, <2>4 DEF Injection, IsInjective
<1>2. IsFiniteSet(Allocated) /\ Cardinality(Allocated) \in Nat
  BY AllocatedFinite
<1>3. IsFiniteSet(StoredKeys) /\ Cardinality(StoredKeys) <= Cardinality(Allocated)
  BY <1>1, <1>2, FS_Injection
<1>4. Cardinality(StoredKeys) \in Nat
  BY <1>3, FS_CardinalityType
<1>5. DOMAIN Entries = StoredKeys
  BY DEF Entries
<1>6. QED
  BY <1>2, <1>3, <1>4, <1>5 DEF HasRoom

(* A lookup_insert that ends at an element is found_exist.                 *)
LEMMA ExistStep ==
  ASSUME IInv, NEW key \in DecomposedKeys, lookup_insert(key),
         ~pos_is_empty(Cursor(key))
  PROVE  P!FoundExist(key)
<1>1. Cursor(key) \in Allocated /\ KeyAt(Cursor(key)) = key
  BY ProbeEnds, HeldKey DEF IInv, Placed, Allocated
<1>2. key \in DOMAIN Entries /\ Entries[key] = Cursor(key)
  BY <1>1, EntryOf DEF Entries
<1>3. UNCHANGED <<slot, displace>>
  BY DEF lookup_insert
<1>4. Entries' = Entries
  BY <1>3 DEF Entries, StoredKeys, Allocated, pos_is_empty, KeyAt, HomeOf
<1>5. reply' = [op |-> "lookup_insert", key |-> key, id |-> Cursor(key),
                already_exist |-> TRUE]
  BY DEF lookup_insert
<1>6. Cursor(key) \in Positions
  BY <1>1 DEF Allocated
<1>7. QED
  BY <1>2, <1>4, <1>5, <1>6 DEF P!FoundExist

(* A lookup_insert that ends at a free position is found_new.              *)
LEMMA NewStep ==
  ASSUME IInv, IInv', NEW key \in DecomposedKeys, lookup_insert(key),
         pos_is_empty(Cursor(key))
  PROVE  P!FoundNew(key)
<1> DEFINE cursor == Cursor(key)
<1>1. InsertAt(key, cursor)
  BY DEF lookup_insert
<1>2. /\ cursor \in Positions \ Allocated
      /\ slot'[cursor] = key.sq
      /\ displace'[cursor] = mod_sub(Capacity, cursor, key.ia)
      /\ \A pos \in Positions : pos # cursor =>
            slot'[pos] = slot[pos] /\ displace'[pos] = displace[pos]
      /\ Allocated' = Allocated \cup {cursor}
  BY <1>1, AfterInsertAt
<1>3. \A pos \in Allocated : KeyAt(pos)' = KeyAt(pos)
  BY <1>2 DEF Allocated, KeyAt, HomeOf
<1>4. \A pos : pos = cursor => KeyAt(pos)' = key
  <2>1. mod_sub(Capacity, cursor, mod_sub(Capacity, cursor, key.ia)) = key.ia
    BY <1>2, ModSubAdd DEF DecomposedKeys, Positions
  <2>2. key = [ia |-> key.ia, sq |-> key.sq]
    BY DEF DecomposedKeys
  <2>3. QED
    BY <1>2, <2>1, <2>2 DEF KeyAt, HomeOf
<1>5. key \notin StoredKeys
  BY <1>2, StoredKeyIsFound DEF StoredKeys
<1>6. StoredKeys' = StoredKeys \cup {key}
  BY <1>2, <1>3, <1>4 DEF StoredKeys
<1>7. \A pos \in Allocated' : Entries'[KeyAt(pos)'] = pos
  <2>1. \A p, q \in Allocated' : KeyAt(p)' = KeyAt(q)' => p = q
    BY DEF IInv, Placed, NoDuplicate
  <2>2. \A pos \in Allocated' : KeyAt(pos)' \in StoredKeys'
    BY DEF StoredKeys
  <2>3. \A pos \in Allocated' :
           (CHOOSE q \in Allocated' : KeyAt(q)' = KeyAt(pos)') = pos
    BY <2>1
  <2>4. \A k \in StoredKeys' : Entries'[k] = CHOOSE q \in Allocated' : KeyAt(q)' = k
    BY DEF Entries
  <2>5. QED
    BY <2>2, <2>3, <2>4
<1>8. Entries'[key] = cursor
  BY <1>2, <1>4, <1>7
<1>9. \A k \in StoredKeys : Entries'[k] = Entries[k]
  <2> SUFFICES ASSUME NEW k \in StoredKeys PROVE Entries'[k] = Entries[k]
    OBVIOUS
  <2>1. PICK pos \in Allocated : KeyAt(pos) = k
    BY DEF StoredKeys
  <2>2. QED
    BY <1>2, <1>3, <1>7, <2>1, EntryOf
<1>10. Entries' = [k \in StoredKeys \cup {key} |-> IF k = key THEN cursor ELSE Entries[k]]
  <2>1. Entries' = [k \in StoredKeys \cup {key} |-> Entries'[k]]
    BY <1>6 DEF Entries
  <2>2. \A k \in StoredKeys \cup {key} :
           Entries'[k] = IF k = key THEN cursor ELSE Entries[k]
    BY <1>5, <1>8, <1>9
  <2>3. QED
    BY <2>1, <2>2
<1>11. DOMAIN Entries = StoredKeys
  BY DEF Entries
<1>12. cursor \notin Range(Entries)
  <2>1. \A k \in StoredKeys : Entries[k] \in Allocated
    BY EntryOf DEF StoredKeys
  <2>2. QED
    BY <1>2, <1>11, <2>1 DEF Range
<1>13. reply' = [op |-> "lookup_insert", key |-> key, id |-> cursor,
                 already_exist |-> FALSE]
  BY DEF lookup_insert
<1>14. QED
  BY <1>2, <1>5, <1>10, <1>11, <1>12, <1>13 DEF P!FoundNew, P!Range, Range

(* displacement_t implements Placement: through any sequence of insertions *)
(* it behaves as a partial function from keys to ids in which a new key    *)
(* gets an id of its own and a key that is there keeps its id.             *)
THEOREM ImplementsPlacement == Spec => RefinesPlacement
<1>1. Init => P!Init
  <2> SUFFICES ASSUME Init PROVE P!Init
    OBVIOUS
  <2>1. Allocated = {}
    BY DEF Init, Allocated, pos_is_empty
  <2>2. Entries \in [{} -> Positions]
    BY <2>1 DEF Entries, StoredKeys
  <2>3. QED
    BY <2>2 DEF Init, NoReply, P!Init, P!NoReply
<1>2. IInv /\ IInv' /\ [Next]_vars => [P!Next]_P!vars
  <2> SUFFICES ASSUME IInv, IInv', [Next]_vars PROVE [P!Next]_P!vars
    OBVIOUS
  <2>1. ASSUME NEW key \in DecomposedKeys, lookup_insert(key) PROVE P!Next
    <3>1. P!FoundExist(key) \/ P!FoundNew(key)
      BY <2>1, ExistStep, NewStep
    <3>2. Cardinality(DOMAIN Entries) < MaxEntries
      BY <2>1, EntriesBounded DEF lookup_insert
    <3>3. P!Cardinality(DOMAIN Entries) = Cardinality(DOMAIN Entries)
      BY DEF P!Cardinality, Cardinality
    <3>4. key \in P!DecomposedKeys
      BY DEF P!DecomposedKeys, DecomposedKeys
    <3>5. QED
      BY <3>1, <3>2, <3>3, <3>4 DEF P!Next, P!lookup_insert
  <2>2. CASE UNCHANGED vars
    BY <2>2 DEF vars, P!vars, Entries, StoredKeys, Allocated, pos_is_empty, KeyAt, HomeOf
  <2>3. QED
    BY <2>1, <2>2 DEF Next
<1>3. QED
  BY <1>1, <1>2, Invariance, PTL DEF Spec, RefinesPlacement, P!Spec
===============================================================================
