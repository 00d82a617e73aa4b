---------------------------- MODULE HashMapProofs ----------------------------
(***************************************************************************)
(* Proofs about HashMap, for any number of tables and all keys, values,    *)
(* widths, capacities and load factors.  The inductive invariant IInv says *)
(* of a table that its elements fit its widths and that its count is       *)
(* theirs (except for a table that is being drained, or was), and of a     *)
(* move_into that the target has room to grow for all that is to come.     *)
(***************************************************************************)
EXTENDS HashMap, SizeManagerProofs, FiniteSetTheorems

SoundTable(tab) ==
    /\ tab = [capacity |-> tab.capacity, size |-> tab.size,
              load_factor |-> tab.load_factor, key_width |-> tab.key_width,
              val_width |-> tab.val_width, elements |-> tab.elements,
              storage |-> tab.storage, is_empty |-> tab.is_empty]
    /\ tab.capacity \in 2..MaxCapacity /\ is_pot(tab.capacity)
    /\ tab.size \in Nat
    /\ tab.load_factor \in LoadFactors
    /\ tab.key_width \in KeyWidths /\ tab.val_width \in ValueWidths
    /\ tab.elements = [key \in KeysOf(tab) |-> tab.elements[key]]
    /\ \A key \in KeysOf(tab) :
          /\ key \in Nat /\ key < pow2[tab.key_width]
          /\ tab.elements[key] \in Nat /\ tab.elements[key] < pow2[tab.val_width]
    /\ IsFiniteSet(KeysOf(tab)) /\ Cardinality(KeysOf(tab)) < tab.capacity
    /\ tab.storage \in {"owned", "drained", "null"}
    /\ tab.is_empty <=> tab.storage = "null"

Counts(tab) == tab.size = Cardinality(KeysOf(tab))

(* Within the model's bound there is a capacity at which the table has     *)
(* room for n more elements.                                               *)
RoomFor(tab, n) ==
    \E k \in Nat :
       /\ tab.capacity * pow2[k] <= MaxCapacity
       /\ ~needs_to_grow_capacity(tab.load_factor, tab.capacity * pow2[k], tab.size + n)

(* The reference that access returns points into a table.                  *)
ReplyInv == reply.op = "access" => reply.table \in Tables

MoveInv ==
    /\ move.from \in Tables /\ move.to \in Tables /\ move.from # move.to
    /\ tables[move.from].storage = "owned" /\ tables[move.to].storage = "owned"
    /\ EnsuresWidths =>
         /\ tables[move.from].key_width <= tables[move.to].key_width
         /\ tables[move.from].val_width <= tables[move.to].val_width
    /\ RoomFor(tables[move.to], Cardinality(KeysOf(tables[move.from])))
    /\ reply = NoReply

(* The inductive invariant.                                                *)
IInv ==
    /\ tables = [t \in Tables |-> tables[t]]
    /\ \A t \in Tables :
          /\ SoundTable(tables[t])
          /\ tables[t].storage = "owned" /\ (move = Idle \/ move.from # t)
                => Counts(tables[t])
    /\ move # Idle => MoveInv
    /\ ReplyInv
-------------------------------------------------------------------------------
(* What a table's members are.                                             *)

LEMMA PowersAreNat == \A n \in Nat : pow2[n] \in Nat \ {0}
BY PowersDouble

LEMMA WidthsNat ==
  ASSUME NEW tab, SoundTable(tab)
  PROVE  /\ tab.capacity \in Nat \ {0} /\ tab.capacity >= 2 /\ tab.size \in Nat
         /\ tab.key_width \in Nat /\ tab.val_width \in Nat
         /\ pow2[tab.key_width] \in Nat \ {0} /\ pow2[tab.val_width] \in Nat \ {0}
         /\ tab.load_factor.num \in Nat \ {0} /\ tab.load_factor.den \in Nat \ {0}
         /\ Cardinality(KeysOf(tab)) \in Nat
<1>1. tab.capacity \in Nat \ {0} /\ tab.capacity >= 2 /\ tab.size \in Nat
  BY BoundsAssumption DEF SoundTable
<1>2. tab.key_width \in Nat /\ tab.val_width \in Nat
  BY KeysAssumption DEF SoundTable
<1>3. tab.load_factor.num \in Nat \ {0} /\ tab.load_factor.den \in Nat \ {0}
  BY LoadFactorsAssumption DEF SoundTable
<1>4. Cardinality(KeysOf(tab)) \in Nat
  BY FS_CardinalityType DEF SoundTable
<1>5. QED
  BY <1>1, <1>2, <1>3, <1>4, PowersAreNat

(* Writing a value to its bits loses nothing if it fits them.              *)
LEMMA FittingValuesAreStored ==
  ASSUME NEW tab, tab.val_width \in Nat, NEW val \in Nat
  PROVE  /\ Stored(tab, val) \in Nat /\ Stored(tab, val) < pow2[tab.val_width]
         /\ val < pow2[tab.val_width] => Stored(tab, val) = val
<1>1. pow2[tab.val_width] \in Nat \ {0}
  BY PowersAreNat
<1>2. \A v \in Nat, m \in Nat \ {0} : v % m \in Nat /\ v % m < m /\ (v < m => v % m = v)
  OBVIOUS
<1>3. QED
  BY <1>1, <1>2 DEF Stored

(* The constructor's table.                                                *)
LEMMA ConstructedIsSound ==
  ASSUME NEW size \in Nat, is_pot(adjust_size(size)), adjust_size(size) <= MaxCapacity,
         NEW key_width \in KeyWidths, NEW val_width \in ValueWidths, NEW lf \in LoadFactors,
         NEW tab, tab = Constructed(size, key_width, val_width, lf)
  PROVE  /\ SoundTable(tab) /\ Counts(tab)
         /\ tab.capacity = adjust_size(size) /\ tab.elements = << >>
         /\ tab.storage = "owned"
<1>1. tab = [capacity |-> adjust_size(size), size |-> 0, load_factor |-> lf,
             key_width |-> key_width, val_width |-> val_width,
             elements |-> << >>, storage |-> "owned", is_empty |-> FALSE]
  BY DEF Constructed
<1>2. /\ tab.capacity = adjust_size(size) /\ tab.size = 0 /\ tab.load_factor = lf
      /\ tab.key_width = key_width /\ tab.val_width = val_width /\ tab.elements = << >>
      /\ tab.storage = "owned" /\ tab.is_empty = FALSE
  BY <1>1
<1>3. adjust_size(size) \in 2..MaxCapacity
  BY BoundsAssumption, CapacityFromLog2 DEF adjust_size
<1>4. KeysOf(tab) = {} /\ tab.elements = [key \in {} |-> tab.elements[key]]
  BY <1>2 DEF KeysOf
<1>5. IsFiniteSet(KeysOf(tab)) /\ Cardinality(KeysOf(tab)) = 0
  BY <1>4, FS_EmptySet
<1>6. tab = [capacity |-> tab.capacity, size |-> tab.size,
             load_factor |-> tab.load_factor, key_width |-> tab.key_width,
             val_width |-> tab.val_width, elements |-> tab.elements,
             storage |-> tab.storage, is_empty |-> tab.is_empty]
  BY <1>1
<1>7. SoundTable(tab)
  BY <1>2, <1>3, <1>4, <1>5, <1>6 DEF SoundTable
<1>8. QED
  BY <1>2, <1>5, <1>7 DEF Counts

-------------------------------------------------------------------------------
(* Growing and inserting.                                                  *)

(* A rebuilt table has the elements and the new capacity and widths.       *)
LEMMA RebuiltIsSound ==
  ASSUME NEW tab, SoundTable(tab),
         NEW capacity \in Nat, is_pot(capacity), capacity >= 2, capacity <= MaxCapacity,
         Cardinality(KeysOf(tab)) < capacity,
         NEW key_width \in KeyWidths, tab.key_width <= key_width,
         NEW val_width \in ValueWidths, tab.val_width <= val_width,
         NEW new, new = Rebuilt(tab, capacity, key_width, val_width)
  PROVE  /\ SoundTable(new) /\ Counts(new)
         /\ new.capacity = capacity /\ new.load_factor = tab.load_factor
         /\ new.key_width = key_width /\ new.val_width = val_width
         /\ new.elements = tab.elements /\ new.storage = "owned"
         /\ new.size = Cardinality(KeysOf(tab))
<1> DEFINE empty == Constructed(capacity, key_width, val_width, tab.load_factor)
           moved == [key \in KeysOf(tab) |-> Stored(empty, tab.elements[key])]
<1>1. adjust_size(capacity) = capacity
  BY DEF adjust_size
<1>2. empty = [capacity |-> capacity, size |-> 0, load_factor |-> tab.load_factor,
               key_width |-> key_width, val_width |-> val_width,
               elements |-> << >>, storage |-> "owned", is_empty |-> FALSE]
  BY <1>1 DEF Constructed
<1>3. /\ key_width \in Nat /\ val_width \in Nat /\ empty.val_width = val_width
      /\ tab.key_width \in Nat /\ tab.val_width \in Nat
  BY <1>2, KeysAssumption, WidthsNat
<1> HIDE DEF empty
<1>4. /\ pow2[tab.key_width] <= pow2[key_width] /\ pow2[tab.val_width] <= pow2[val_width]
      /\ pow2[tab.key_width] \in Nat /\ pow2[key_width] \in Nat
      /\ pow2[tab.val_width] \in Nat /\ pow2[val_width] \in Nat
  BY <1>3, PowerMonotonic, PowersAreNat
<1>5. \A key \in KeysOf(tab) :
         /\ key \in Nat /\ key < pow2[key_width]
         /\ tab.elements[key] \in Nat /\ tab.elements[key] < pow2[val_width]
  BY <1>4 DEF SoundTable
<1>6. moved = tab.elements
  <2>1. \A key \in KeysOf(tab) : Stored(empty, tab.elements[key]) = tab.elements[key]
    BY <1>3, <1>5, FittingValuesAreStored
  <2>2. moved = [key \in KeysOf(tab) |-> tab.elements[key]]
    BY <2>1
  <2>3. QED
    BY <2>2 DEF SoundTable
<1>7. new = [empty EXCEPT !.elements = tab.elements, !.size = Cardinality(KeysOf(tab))]
  BY <1>6 DEF Rebuilt, empty
<1>8. new = [capacity |-> capacity, size |-> Cardinality(KeysOf(tab)),
             load_factor |-> tab.load_factor,
             key_width |-> key_width, val_width |-> val_width,
             elements |-> tab.elements, storage |-> "owned", is_empty |-> FALSE]
  BY <1>2, <1>7
<1>9. /\ new.capacity = capacity /\ new.load_factor = tab.load_factor
      /\ new.size = Cardinality(KeysOf(tab))
      /\ new.key_width = key_width /\ new.val_width = val_width
      /\ new.elements = tab.elements /\ new.storage = "owned" /\ new.is_empty = FALSE
      /\ KeysOf(new) = KeysOf(tab)
  BY <1>8 DEF KeysOf
<1>10. SoundTable(new)
  <2>1. new = [capacity |-> new.capacity, size |-> new.size,
               load_factor |-> new.load_factor, key_width |-> new.key_width,
               val_width |-> new.val_width, elements |-> new.elements,
               storage |-> new.storage, is_empty |-> new.is_empty]
    BY <1>8
  <2>2. new.capacity \in 2..MaxCapacity /\ new.size \in Nat
    BY <1>9, WidthsNat, BoundsAssumption
  <2>3. new.elements = [key \in KeysOf(new) |-> new.elements[key]]
    BY <1>9 DEF SoundTable
  <2>4. IsFiniteSet(KeysOf(new)) /\ Cardinality(KeysOf(new)) < new.capacity
    BY <1>9 DEF SoundTable
  <2>5. new.load_factor \in LoadFactors
    BY <1>9 DEF SoundTable
  <2>6. \A key \in KeysOf(new) :
           /\ key \in Nat /\ key < pow2[new.key_width]
           /\ new.elements[key] \in Nat /\ new.elements[key] < pow2[new.val_width]
    BY <1>5, <1>9
  <2>7. QED
    BY <2>1, <2>2, <2>3, <2>4, <2>5, <2>6, <1>9 DEF SoundTable
<1>11. Counts(new)
  BY <1>9 DEF Counts
<1>12. QED
  BY <1>9, <1>10, <1>11

(* grow_if_needed: room for new_size elements, and the widths asked for.   *)
LEMMA GrownIsSound ==
  ASSUME NEW tab, SoundTable(tab), Counts(tab), tab.storage = "owned",
         NEW new_size \in Nat, tab.size <= new_size,
         NEW key_width \in KeyWidths, tab.key_width <= key_width,
         NEW val_width \in ValueWidths, tab.val_width <= val_width,
         NEW grown, grown = grow_if_needed(tab, new_size, key_width, val_width),
         grown.capacity <= MaxCapacity
  PROVE  /\ SoundTable(grown) /\ Counts(grown)
         /\ grown.load_factor = tab.load_factor
         /\ grown.key_width = key_width /\ grown.val_width = val_width
         /\ grown.elements = tab.elements /\ grown.storage = "owned"
         /\ grown.size = tab.size /\ new_size < grown.capacity
         /\ grown.capacity \in {tab.capacity, GrownCapacity(tab, new_size)}
<1>1. tab.load_factor.num \in Nat \ {0} /\ tab.load_factor.den \in Nat \ {0}
      /\ tab.capacity \in Nat \ {0} /\ tab.capacity >= 2 /\ tab.size \in Nat
  BY WidthsNat
<1>2. CASE needs_to_realloc(tab, new_size, key_width, val_width)
  <2> DEFINE capacity == grown_capacity(tab.load_factor, tab.capacity, new_size)
  <2>1. /\ is_pot(capacity) /\ tab.capacity <= capacity
        /\ ~needs_to_grow_capacity(tab.load_factor, capacity, new_size)
    BY <1>1, GrownCapacitySuffices DEF SoundTable
  <2>2. grown = Rebuilt(tab, capacity, key_width, val_width)
    BY <1>2 DEF grow_if_needed, GrownCapacity
  <2>3. capacity = GrownCapacity(tab, new_size)
    BY DEF GrownCapacity
  <2> HIDE DEF capacity
  <2>4. capacity \in Nat \ {0} /\ capacity >= 2
    BY <1>1, <2>1, CapacityFromLog2
  <2>5. new_size < capacity
    BY <1>1, <2>1, <2>4, NoGrowthLeavesRoom
  <2>6. grown.capacity = capacity
    <3>1. adjust_size(capacity) = capacity
      BY <2>4 DEF adjust_size
    <3>2. QED
      BY <2>2, <3>1 DEF Rebuilt, Constructed
  <2>7. Cardinality(KeysOf(tab)) < capacity /\ Cardinality(KeysOf(tab)) = tab.size
    BY <1>1, <2>4, <2>5 DEF Counts
  <2>8. QED
    BY <2>1, <2>2, <2>3, <2>4, <2>5, <2>6, <2>7, RebuiltIsSound
<1>3. CASE ~needs_to_realloc(tab, new_size, key_width, val_width)
  <2>1. /\ grown = tab /\ key_width = tab.key_width /\ val_width = tab.val_width
        /\ ~needs_to_grow_capacity(tab.load_factor, tab.capacity, new_size)
    BY <1>3 DEF grow_if_needed, needs_to_realloc, needs_to_grow_capacity_for
  <2>2. new_size < tab.capacity
    BY <1>1, <2>1, NoGrowthLeavesRoom
  <2>3. QED
    BY <2>1, <2>2
<1>4. QED
  BY <1>2, <1>3

(* An insertion or an overwriting in a table that has room.                *)
LEMMA PutIsSound ==
  ASSUME NEW tab, SoundTable(tab), Counts(tab), tab.storage = "owned",
         tab.size + 1 < tab.capacity,
         NEW key \in Nat, key < pow2[tab.key_width],
         NEW val \in Nat, val < pow2[tab.val_width],
         NEW new, new = [tab EXCEPT !.elements = Put(@, key, val),
                                    !.size = IF key \in KeysOf(tab) THEN @ ELSE @ + 1]
  PROVE  /\ SoundTable(new) /\ Counts(new)
         /\ new.elements = Put(tab.elements, key, val)
         /\ new.size <= tab.size + 1
<1> DEFINE size == IF key \in KeysOf(tab) THEN tab.size ELSE tab.size + 1
<1>1. new = [capacity |-> tab.capacity, size |-> size,
             load_factor |-> tab.load_factor, key_width |-> tab.key_width,
             val_width |-> tab.val_width, elements |-> Put(tab.elements, key, val),
             storage |-> tab.storage, is_empty |-> tab.is_empty]
  BY DEF SoundTable
<1>2. /\ new.capacity = tab.capacity /\ new.size = size
      /\ new.load_factor = tab.load_factor /\ new.key_width = tab.key_width
      /\ new.val_width = tab.val_width /\ new.elements = Put(tab.elements, key, val)
      /\ new.storage = tab.storage /\ new.is_empty = tab.is_empty
  BY <1>1
<1>3. KeysOf(new) = KeysOf(tab) \cup {key}
  BY <1>2 DEF KeysOf, Put
<1>4. /\ IsFiniteSet(KeysOf(new))
      /\ Cardinality(KeysOf(new)) = size
  <2>1. IsFiniteSet(KeysOf(tab)) /\ Cardinality(KeysOf(tab)) = tab.size
    BY DEF SoundTable, Counts
  <2>2. QED
    BY <1>3, <2>1, FS_AddElement
<1>5. size \in Nat /\ size <= tab.size + 1 /\ size < tab.capacity
  BY WidthsNat
<1>6. new.elements = [k \in KeysOf(new) |-> new.elements[k]]
  BY <1>2, <1>3 DEF Put, KeysOf
<1>7. \A k \in KeysOf(new) :
         /\ k \in Nat /\ k < pow2[new.key_width]
         /\ new.elements[k] \in Nat /\ new.elements[k] < pow2[new.val_width]
  <2> SUFFICES ASSUME NEW k \in KeysOf(new)
               PROVE  /\ k \in Nat /\ k < pow2[new.key_width]
                      /\ new.elements[k] \in Nat /\ new.elements[k] < pow2[new.val_width]
    OBVIOUS
  <2>1. CASE k = key
    BY <2>1, <1>2 DEF Put
  <2>2. CASE k # key
    <3>1. k \in KeysOf(tab) /\ new.elements[k] = tab.elements[k]
      BY <2>2, <1>2, <1>3 DEF Put, KeysOf
    <3>2. QED
      BY <3>1, <1>2 DEF SoundTable
  <2>3. QED
    BY <2>1, <2>2
<1>8. SoundTable(new)
  <2>1. new = [capacity |-> new.capacity, size |-> new.size,
               load_factor |-> new.load_factor, key_width |-> new.key_width,
               val_width |-> new.val_width, elements |-> new.elements,
               storage |-> new.storage, is_empty |-> new.is_empty]
    BY <1>1
  <2> HIDE DEF size
  <2>2. QED
    BY <2>1, <1>2, <1>4, <1>5, <1>6, <1>7 DEF SoundTable
<1>9. QED
  BY <1>2, <1>4, <1>5, <1>8 DEF Counts

LEMMA GrownIsRecord ==
  ASSUME NEW tab, SoundTable(tab), NEW new_size, NEW key_width, NEW val_width,
         NEW g, g = grow_if_needed(tab, new_size, key_width, val_width)
  PROVE  g = [capacity |-> g.capacity, size |-> g.size,
              load_factor |-> g.load_factor, key_width |-> g.key_width,
              val_width |-> g.val_width, elements |-> g.elements,
              storage |-> g.storage, is_empty |-> g.is_empty]
<1>1. CASE needs_to_realloc(tab, new_size, key_width, val_width)
  BY <1>1 DEF grow_if_needed, Rebuilt, Constructed
<1>2. CASE ~needs_to_realloc(tab, new_size, key_width, val_width)
  BY <1>2 DEF grow_if_needed, SoundTable
<1>3. QED
  BY <1>1, <1>2

(* grow_and_insert: the widths asked for, and the key with its value.      *)
LEMMA InsertedIsSound ==
  ASSUME NEW tab, SoundTable(tab), Counts(tab), tab.storage = "owned",
         NEW key_width \in KeyWidths, tab.key_width <= key_width,
         NEW val_width \in ValueWidths, tab.val_width <= val_width,
         NEW key \in Nat, key < pow2[key_width], NEW val \in Nat,
         NEW new, new = grow_and_insert(tab, key, val, key_width, val_width),
         \/ new.capacity <= MaxCapacity
         \/ {tab.capacity, GrownCapacity(tab, tab.size + 1)} \subseteq 0..MaxCapacity
  PROVE  /\ SoundTable(new) /\ Counts(new) /\ new.storage = "owned"
         /\ new.elements = Put(tab.elements, key, val % pow2[val_width])
         /\ val < pow2[val_width] => new.elements = Put(tab.elements, key, val)
         /\ new.key_width = key_width /\ new.val_width = val_width
         /\ new.load_factor = tab.load_factor /\ new.size <= tab.size + 1
         /\ new.capacity \in {tab.capacity, GrownCapacity(tab, tab.size + 1)}
<1> DEFINE g == grow_if_needed(tab, tab.size + 1, key_width, val_width)
           stored == Stored(g, val)
<1>1. g = [capacity |-> g.capacity, size |-> g.size,
           load_factor |-> g.load_factor, key_width |-> g.key_width,
           val_width |-> g.val_width, elements |-> g.elements,
           storage |-> g.storage, is_empty |-> g.is_empty]
  BY GrownIsRecord
<1>2. new = [g EXCEPT !.elements = Put(@, key, stored),
                      !.size = IF key \in KeysOf(g) THEN @ ELSE @ + 1]
  BY DEF grow_and_insert
<1>3. tab.size + 1 \in Nat /\ tab.size <= tab.size + 1 /\ tab.size \in Nat
  BY WidthsNat
<1>4. g.capacity <= MaxCapacity
  <2>1. g.capacity \in {tab.capacity, GrownCapacity(tab, tab.size + 1)}
    <3>1. CASE needs_to_realloc(tab, tab.size + 1, key_width, val_width)
      <4> DEFINE capacity == GrownCapacity(tab, tab.size + 1)
      <4>1. capacity \in Nat /\ capacity >= 2
        <5>1. /\ tab.load_factor.num \in Nat \ {0} /\ tab.load_factor.den \in Nat \ {0}
              /\ tab.capacity >= 2 /\ tab.capacity \in Nat /\ is_pot(tab.capacity)
          BY WidthsNat DEF SoundTable
        <5>2. is_pot(capacity) /\ tab.capacity <= capacity
          BY <5>1, <1>3, GrownCapacitySuffices DEF GrownCapacity
        <5>3. capacity \in Nat
          BY <5>2, CapacityFromLog2
        <5>4. QED
          BY <5>1, <5>2, <5>3
      <4> HIDE DEF capacity
      <4>2. adjust_size(capacity) = capacity
        BY <4>1 DEF adjust_size
      <4>3. g.capacity = capacity
        BY <3>1, <4>2 DEF grow_if_needed, Rebuilt, Constructed, capacity
      <4>4. QED
        BY <4>3 DEF capacity
    <3>2. CASE ~needs_to_realloc(tab, tab.size + 1, key_width, val_width)
      BY <3>2 DEF grow_if_needed
    <3>3. QED
      BY <3>1, <3>2
  <2> HIDE DEF g
  <2>2. CASE new.capacity <= MaxCapacity
    <3>1. new.capacity = g.capacity
      BY <1>1, <1>2
    <3>2. QED
      BY <3>1, <2>2
  <2>3. CASE {tab.capacity, GrownCapacity(tab, tab.size + 1)} \subseteq 0..MaxCapacity
    BY <2>1, <2>3
  <2>4. QED
    BY <2>2, <2>3
<1>5. /\ SoundTable(g) /\ Counts(g)
      /\ g.load_factor = tab.load_factor
      /\ g.key_width = key_width /\ g.val_width = val_width
      /\ g.elements = tab.elements /\ g.storage = "owned"
      /\ g.size = tab.size /\ tab.size + 1 < g.capacity
      /\ g.capacity \in {tab.capacity, GrownCapacity(tab, tab.size + 1)}
  BY <1>3, <1>4, GrownIsSound
<1> HIDE DEF g
<1>6. g.val_width \in Nat
  BY <1>5, WidthsNat
<1>7. stored \in Nat /\ stored < pow2[g.val_width]
      /\ (val < pow2[g.val_width] => stored = val)
  BY <1>6, FittingValuesAreStored
<1>8. stored = val % pow2[val_width]
  BY <1>5 DEF Stored
<1> HIDE DEF stored
<1>9. /\ SoundTable(new) /\ Counts(new)
      /\ new.elements = Put(g.elements, key, stored)
      /\ new.size <= g.size + 1
  BY <1>2, <1>5, <1>7, PutIsSound
<1>10. /\ new.storage = g.storage /\ new.key_width = g.key_width
       /\ new.val_width = g.val_width /\ new.load_factor = g.load_factor
       /\ new.capacity = g.capacity
  BY <1>1, <1>2
<1>11. QED
  BY <1>5, <1>7, <1>8, <1>9, <1>10

(* While a target is filled, its growths stay within the bound.            *)
LEMMA RoomIsKept ==
  ASSUME NEW tab, SoundTable(tab), NEW n \in Nat \ {0}, RoomFor(tab, n)
  PROVE  /\ {tab.capacity, GrownCapacity(tab, tab.size + 1)} \subseteq 0..MaxCapacity
         /\ \A new : /\ SoundTable(new) /\ new.load_factor = tab.load_factor
                     /\ new.capacity \in {tab.capacity, GrownCapacity(tab, tab.size + 1)}
                     /\ new.size <= tab.size + 1
                     => RoomFor(new, n - 1)
<1> DEFINE cap == tab.capacity
           lf  == tab.load_factor
           grown == grown_capacity(lf, cap, tab.size + 1)
<1>1. PICK k \in Nat : /\ cap * pow2[k] <= MaxCapacity
                       /\ ~needs_to_grow_capacity(lf, cap * pow2[k], tab.size + n)
  BY DEF RoomFor
<1>2. /\ lf.num \in Nat \ {0} /\ lf.den \in Nat \ {0}
      /\ cap \in Nat \ {0} /\ tab.size \in Nat
  BY WidthsNat
<1>3. pow2[k] \in Nat \ {0} /\ cap * pow2[k] \in Nat \ {0}
  <2>1. \A a, b \in Nat \ {0} : a * b \in Nat \ {0}
    OBVIOUS
  <2>2. QED
    BY <2>1, <1>2, PowersAreNat
<1>4. \A m \in Nat : m <= tab.size + n =>
         ~needs_to_grow_capacity(lf, cap * pow2[k], m)
  <2> HIDE DEF cap, lf
  <2>1. tab.size + n \in Nat
    BY <1>2
  <2>2. QED
    BY <2>1, <1>1, <1>2, <1>3, FewerNeedNotGrow
<1>5. tab.size + 1 \in Nat /\ tab.size + 1 <= tab.size + n
  BY <1>2
<1>6. /\ cap <= grown
      /\ \E j \in Nat : grown = cap * pow2[j]
      /\ \A m \in Nat : ~needs_to_grow_capacity(lf, cap * pow2[m], tab.size + 1)
                            => grown <= cap * pow2[m]
  <2>1. is_pot(cap)
    BY DEF SoundTable
  <2> HIDE DEF cap, lf
  <2>2. QED
    BY <2>1, <1>2, <1>5, GrownCapacitySuffices
<1>7. PICK j \in Nat : grown = cap * pow2[j]
  BY <1>6
<1>8. grown <= cap * pow2[k] /\ cap <= grown
  BY <1>4, <1>5, <1>6
<1>9. grown = GrownCapacity(tab, tab.size + 1)
  BY DEF GrownCapacity
<1>10. grown \in Nat
  <2>1. pow2[j] \in Nat
    BY PowersAreNat
  <2>2. QED
    BY <2>1, <1>2, <1>7
<1>11. pow2[k] = pow2[j] * pow2[k - j] /\ k - j \in Nat
  <2>1. j <= k
    <3> SUFFICES ASSUME k < j PROVE FALSE
      OBVIOUS
    <3>1. pow2[k] < pow2[j] /\ pow2[j] \in Nat /\ pow2[k] \in Nat
      BY PowerMonotonic, PowersAreNat
    <3>2. \A a \in Nat \ {0}, b, c \in Nat : b < c => a * b < a * c
      OBVIOUS
    <3>3. cap * pow2[k] < cap * pow2[j]
      BY <1>2, <3>1, <3>2
    <3> HIDE DEF cap, grown
    <3>4. QED
      BY <1>3, <1>7, <1>8, <1>10, <3>3
  <2>2. k - j \in Nat /\ j + (k - j) = k
    BY <2>1
  <2>3. QED
    BY <2>2, PowerOfSum
<1> HIDE DEF grown
<1>12. {cap, grown} \subseteq 0..MaxCapacity
  BY <1>1, <1>2, <1>3, <1>8, <1>10, BoundsAssumption
<1>13. ASSUME NEW new, SoundTable(new), new.load_factor = lf,
              new.capacity \in {cap, grown}, new.size <= tab.size + 1
       PROVE  RoomFor(new, n - 1)
  <2>1. new.size \in Nat
    BY <1>13, WidthsNat
  <2>2. new.size + (n - 1) \in Nat /\ new.size + (n - 1) <= tab.size + n
    BY <1>2, <1>13, <2>1
  <2>3. ~needs_to_grow_capacity(lf, cap * pow2[k], new.size + (n - 1))
    BY <1>4, <2>2
  <2>4. CASE new.capacity = cap
    BY <1>1, <1>13, <2>3, <2>4 DEF RoomFor
  <2>5. CASE new.capacity = grown
    <3>1. cap * pow2[k] = grown * pow2[k - j]
      <4>1. \A a, b, c \in Nat : a * (b * c) = (a * b) * c
        OBVIOUS
      <4>2. pow2[j] \in Nat /\ pow2[k - j] \in Nat
        BY <1>11, PowersAreNat
      <4>3. QED
        BY <1>2, <1>7, <1>11, <4>1, <4>2
    <3>2. QED
      BY <1>1, <1>11, <1>13, <2>3, <2>5, <3>1 DEF RoomFor
  <2>6. QED
    BY <1>13, <2>4, <2>5
<1>14. QED
  BY <1>9, <1>12, <1>13

-------------------------------------------------------------------------------
(* Calls on one table.                                                     *)

(* What the tables map their keys to after a step: one of them has         *)
(* changed, or none.                                                       *)
Becomes(t, map) ==
    \A u \in Tables : tables'[u].elements = IF u = t THEN map ELSE tables[u].elements

SameMaps == \A u \in Tables : tables'[u].elements = tables[u].elements

LEMMA OneTableChanges ==
  ASSUME IInv, move = Idle, NEW t \in Tables,
         NEW new, SoundTable(new), new.storage = "owned" => Counts(new),
         tables' = [tables EXCEPT ![t] = new], move' = move, ReplyInv'
  PROVE  IInv' /\ Becomes(t, new.elements)
<1>1. /\ tables = [u \in Tables |-> tables[u]]
      /\ \A u \in Tables : /\ SoundTable(tables[u])
                           /\ tables[u].storage = "owned" => Counts(tables[u])
  BY DEF IInv
<1>2. /\ tables' = [u \in Tables |-> tables'[u]]
      /\ tables'[t] = new /\ \A u \in Tables : u # t => tables'[u] = tables[u]
  BY <1>1
<1>3. \A u \in Tables : /\ SoundTable(tables'[u])
                        /\ tables'[u].storage = "owned" => Counts(tables'[u])
  <2> SUFFICES ASSUME NEW u \in Tables
               PROVE  /\ SoundTable(tables'[u])
                      /\ tables'[u].storage = "owned" => Counts(tables'[u])
    OBVIOUS
  <2>1. CASE u = t
    BY <2>1, <1>2
  <2>2. CASE u # t
    BY <2>2, <1>1, <1>2
  <2>3. QED
    BY <2>1, <2>2
<1>4. Becomes(t, new.elements)
  BY <1>2 DEF Becomes
<1>5. QED
  BY <1>2, <1>3, <1>4 DEF IInv

LEMMA UsableIsSound ==
  ASSUME IInv, NEW t \in Tables, Usable(t)
  PROVE  /\ move = Idle /\ tables[t].storage = "owned"
         /\ SoundTable(tables[t]) /\ Counts(tables[t])
BY DEF IInv, Usable

LEMMA WiderWidths ==
  ASSUME NEW a \in Nat, NEW b \in Nat, NEW S, a \in S, b \in S
  PROVE  Max2(a, b) \in S /\ b <= Max2(a, b) /\ Max2(a, b) \in Nat
BY DEF Max2

LEMMA TwoIsACapacity == adjust_size(0) = 2 /\ is_pot(2)
<1>1. pow2[0 + 1] = 2 * pow2[0] /\ pow2[0] = 1
  BY PowersDouble
<1>2. pow2[1] = 2
  BY <1>1
<1>3. QED
  BY <1>2, PowerIsPot DEF adjust_size

LEMMA InitHasInv == Init => IInv
<1> SUFFICES ASSUME Init PROVE IInv
  OBVIOUS
<1>1. PICK key_width \in KeyWidths, val_width \in ValueWidths, lf \in LoadFactors :
         tables = [t \in Tables |-> Constructed(0, key_width, val_width, lf)]
  BY DEF Init
<1> DEFINE new == Constructed(0, key_width, val_width, lf)
<1>2. SoundTable(new) /\ Counts(new)
  BY TwoIsACapacity, BoundsAssumption, ConstructedIsSound
<1> HIDE DEF new
<1>3. tables = [t \in Tables |-> new]
  BY <1>1 DEF new
<1>4. tables = [t \in Tables |-> tables[t]] /\ \A t \in Tables : tables[t] = new
  BY <1>3
<1>5. move = Idle /\ ReplyInv
  BY DEF Init, ReplyInv, NoReply
<1>6. QED
  BY <1>2, <1>4, <1>5 DEF IInv

LEMMA InsertKeepsInv ==
  ASSUME IInv, NEW t \in Tables, NEW key \in Keys, NEW val \in Values,
         NEW key_width \in KeyWidths, NEW val_width \in ValueWidths,
         insert_kv_width(t, key, val, key_width, val_width)
  PROVE  /\ IInv' /\ Becomes(t, Put(tables[t].elements, key, val))
         /\ reply' = Reply("insert", t, key)
<1> DEFINE tab == tables[t]
           kw  == Max2(key_width, tab.key_width)
           vw  == Max2(val_width, tab.val_width)
           new == grow_and_insert(tab, key, val, kw, vw)
<1>1. /\ Usable(t) /\ key < pow2[kw] /\ val < pow2[vw]
      /\ tables' = [tables EXCEPT ![t] = new]
      /\ tables'[t].capacity <= MaxCapacity
      /\ reply' = Reply("insert", t, key) /\ move' = move
  BY DEF insert_kv_width
<1>2. move = Idle /\ tab.storage = "owned" /\ SoundTable(tab) /\ Counts(tab)
  BY <1>1, UsableIsSound
<1>3. /\ kw \in KeyWidths /\ tab.key_width <= kw
      /\ vw \in ValueWidths /\ tab.val_width <= vw
      /\ key \in Nat /\ val \in Nat
  BY <1>2, WidthsNat, KeysAssumption, WiderWidths DEF SoundTable
<1>4. new.capacity <= MaxCapacity
  BY <1>1 DEF IInv
<1> HIDE DEF kw, vw, tab
<1>5. /\ SoundTable(new) /\ Counts(new)
      /\ new.elements = Put(tab.elements, key, val)
  BY <1>1, <1>2, <1>3, <1>4, InsertedIsSound
<1> HIDE DEF new
<1>6. ReplyInv'
  BY <1>1 DEF ReplyInv, Reply
<1>7. QED
  BY <1>1, <1>2, <1>5, <1>6, OneTableChanges DEF tab

(* Accessing inserts the default value or writes the present one again.    *)
LEMMA AccessKeepsInv ==
  ASSUME IInv, NEW t \in Tables, NEW key \in Keys,
         NEW key_width \in KeyWidths, NEW val_width \in ValueWidths,
         access_kv_width(t, key, key_width, val_width)
  PROVE  /\ IInv' /\ reply' = Reply("access", t, key)
         /\ Becomes(t, IF key \in KeysOf(tables[t]) THEN tables[t].elements
                       ELSE Put(tables[t].elements, key, DefaultValue))
<1> DEFINE tab == tables[t]
           kw  == Max2(key_width, tab.key_width)
           vw  == Max2(val_width, tab.val_width)
           val == IF search(tab, key).found THEN tab.elements[key] ELSE DefaultValue
           new == grow_and_insert(tab, key, val, kw, vw)
<1>1. /\ Usable(t) /\ key < pow2[kw]
      /\ tables' = [tables EXCEPT ![t] = new]
      /\ tables'[t].capacity <= MaxCapacity
      /\ reply' = Reply("access", t, key) /\ move' = move
  BY DEF access_kv_width
<1>2. move = Idle /\ tab.storage = "owned" /\ SoundTable(tab) /\ Counts(tab)
  BY <1>1, UsableIsSound
<1>3. /\ kw \in KeyWidths /\ tab.key_width <= kw /\ key \in Nat
      /\ vw \in ValueWidths /\ tab.val_width <= vw /\ vw \in Nat
      /\ tab.val_width \in Nat
  BY <1>2, WidthsNat, KeysAssumption, WiderWidths DEF SoundTable
<1>4. new.capacity <= MaxCapacity
  BY <1>1 DEF IInv
<1> HIDE DEF kw, vw, tab
<1>5. /\ key \in KeysOf(tab) => val = tab.elements[key]
      /\ key \notin KeysOf(tab) => val = DefaultValue
  BY DEF search
<1>6. val \in Nat /\ val < pow2[vw]
  <2>1. pow2[tab.val_width] <= pow2[vw] /\ pow2[tab.val_width] \in Nat /\ pow2[vw] \in Nat \ {0}
    BY <1>3, PowerMonotonic, PowersAreNat
  <2> HIDE DEF val
  <2>2. CASE key \in KeysOf(tab)
    BY <1>2, <1>5, <2>1, <2>2 DEF SoundTable
  <2>3. CASE key \notin KeysOf(tab)
    BY <1>5, <2>1, <2>3 DEF DefaultValue
  <2>4. QED
    BY <2>2, <2>3
<1> HIDE DEF val
<1>7. /\ SoundTable(new) /\ Counts(new)
      /\ new.elements = Put(tab.elements, key, val)
  BY <1>1, <1>2, <1>3, <1>4, <1>6, InsertedIsSound
<1> HIDE DEF new
<1>8. ReplyInv'
  BY <1>1 DEF ReplyInv, Reply
<1>9. new.elements = IF key \in KeysOf(tab) THEN tab.elements
                     ELSE Put(tab.elements, key, DefaultValue)
  <2>1. CASE key \in KeysOf(tab)
    <3>1. tab.elements = [k \in DOMAIN tab.elements |-> tab.elements[k]]
      BY <1>2 DEF SoundTable, KeysOf
    <3>2. Put(tab.elements, key, tab.elements[key]) = [k \in DOMAIN tab.elements |-> tab.elements[k]]
      BY <2>1 DEF Put, KeysOf
    <3>3. QED
      BY <1>5, <1>7, <2>1, <3>1, <3>2
  <2>2. CASE key \notin KeysOf(tab)
    BY <1>5, <1>7, <2>2
  <2>3. QED
    BY <2>1, <2>2
<1>10. QED
  BY <1>1, <1>2, <1>7, <1>8, <1>9, OneTableChanges DEF tab

LEMMA AssignKeepsInv ==
  ASSUME IInv, NEW val \in Values, Assign(val)
  PROVE  /\ IInv' /\ reply' = reply /\ reply.table \in Tables
         /\ Becomes(reply.table, [tables[reply.table].elements EXCEPT ![reply.key] = val])
<1> DEFINE t == reply.table
           tab == tables[t]
           new == [tab EXCEPT !.elements[reply.key] = val]
<1>1. /\ reply.op = "access" /\ val < pow2[tab.val_width]
      /\ tables' = [tables EXCEPT ![t].elements[reply.key] = Stored(tab, val)]
      /\ move' = move /\ reply' = reply
  BY DEF Assign
<1>2. t \in Tables
  BY <1>1 DEF IInv, ReplyInv
<1>3. move = Idle
  <2>1. reply # NoReply
    BY <1>1 DEF NoReply
  <2>2. QED
    BY <2>1 DEF IInv, MoveInv
<1>4. SoundTable(tab) /\ (tab.storage = "owned" => Counts(tab))
  BY <1>2, <1>3 DEF IInv
<1>5. val \in Nat /\ Stored(tab, val) = val
  <2>1. val \in Nat
    BY KeysAssumption
  <2>2. QED
    BY <1>1, <1>4, <2>1, WidthsNat, FittingValuesAreStored
<1>6. tables' = [tables EXCEPT ![t] = new]
  BY <1>1, <1>2, <1>5
<1> HIDE DEF t, tab
<1>7. new = [capacity |-> tab.capacity, size |-> tab.size,
             load_factor |-> tab.load_factor, key_width |-> tab.key_width,
             val_width |-> tab.val_width,
             elements |-> [tab.elements EXCEPT ![reply.key] = val],
             storage |-> tab.storage, is_empty |-> tab.is_empty]
  BY <1>4 DEF SoundTable
<1> HIDE DEF new
<1>8. /\ new.capacity = tab.capacity /\ new.size = tab.size
      /\ new.load_factor = tab.load_factor /\ new.key_width = tab.key_width
      /\ new.val_width = tab.val_width
      /\ new.elements = [tab.elements EXCEPT ![reply.key] = val]
      /\ new.storage = tab.storage /\ new.is_empty = tab.is_empty
      /\ KeysOf(new) = KeysOf(tab)
  BY <1>7 DEF KeysOf
<1>9. SoundTable(new)
  <2>1. new = [capacity |-> new.capacity, size |-> new.size,
               load_factor |-> new.load_factor, key_width |-> new.key_width,
               val_width |-> new.val_width, elements |-> new.elements,
               storage |-> new.storage, is_empty |-> new.is_empty]
    BY <1>7
  <2>2. new.elements = [k \in KeysOf(new) |-> new.elements[k]]
    BY <1>8 DEF KeysOf
  <2>3. \A k \in KeysOf(new) :
           /\ k \in Nat /\ k < pow2[new.key_width]
           /\ new.elements[k] \in Nat /\ new.elements[k] < pow2[new.val_width]
    <3> SUFFICES ASSUME NEW k \in KeysOf(new)
                 PROVE  /\ k \in Nat /\ k < pow2[new.key_width]
                        /\ new.elements[k] \in Nat /\ new.elements[k] < pow2[new.val_width]
      OBVIOUS
    <3>1. CASE k = reply.key
      BY <3>1, <1>1, <1>4, <1>5, <1>8 DEF SoundTable, KeysOf, tab
    <3>2. CASE k # reply.key
      BY <3>2, <1>4, <1>8 DEF SoundTable, KeysOf
    <3>3. QED
      BY <3>1, <3>2
  <2>4. QED
    BY <2>1, <2>2, <2>3, <1>4, <1>8 DEF SoundTable
<1>10. new.storage = "owned" => Counts(new)
  BY <1>4, <1>8 DEF Counts
<1>11. ReplyInv'
  BY <1>1 DEF IInv, ReplyInv
<1>12. IInv' /\ Becomes(t, new.elements)
  BY <1>1, <1>2, <1>3, <1>6, <1>9, <1>10, <1>11, OneTableChanges
<1>13. QED
  BY <1>1, <1>2, <1>8, <1>12 DEF t, tab

LEMMA GrowKeepsInv ==
  ASSUME IInv, NEW t \in Tables,
         NEW key_width \in KeyWidths, NEW val_width \in ValueWidths,
         grow_kv_width(t, key_width, val_width)
  PROVE  IInv' /\ SameMaps /\ reply' = NoReply
<1> DEFINE tab == tables[t]
           kw  == Max2(key_width, tab.key_width)
           vw  == Max2(val_width, tab.val_width)
           new == grow_if_needed(tab, tab.size, kw, vw)
<1>1. /\ Usable(t)
      /\ tables' = [tables EXCEPT ![t] = new]
      /\ tables'[t].capacity <= MaxCapacity
      /\ reply' = NoReply /\ move' = move
  BY DEF grow_kv_width
<1>2. move = Idle /\ tab.storage = "owned" /\ SoundTable(tab) /\ Counts(tab)
  BY <1>1, UsableIsSound
<1>3. /\ kw \in KeyWidths /\ tab.key_width <= kw
      /\ vw \in ValueWidths /\ tab.val_width <= vw
      /\ tab.size \in Nat /\ tab.size <= tab.size
  BY <1>2, WidthsNat, KeysAssumption, WiderWidths DEF SoundTable
<1>4. new.capacity <= MaxCapacity
  BY <1>1 DEF IInv
<1> HIDE DEF kw, vw, tab
<1>5. SoundTable(new) /\ Counts(new) /\ new.elements = tab.elements
  BY <1>2, <1>3, <1>4, GrownIsSound
<1> HIDE DEF new
<1>6. ReplyInv'
  BY <1>1 DEF ReplyInv, NoReply
<1>7. IInv' /\ Becomes(t, new.elements)
  BY <1>1, <1>2, <1>5, <1>6, OneTableChanges
<1>8. QED
  BY <1>1, <1>5, <1>7 DEF Becomes, SameMaps, tab

LEMMA MaxLoadFactorKeepsInv ==
  ASSUME IInv, NEW t \in Tables, NEW lf \in LoadFactors, max_load_factor(t, lf)
  PROVE  IInv' /\ SameMaps /\ reply' = NoReply
<1> DEFINE tab == tables[t]
           new == [tab EXCEPT !.load_factor = lf]
<1>1. /\ Usable(t)
      /\ tables' = [tables EXCEPT ![t].load_factor = lf]
      /\ reply' = NoReply /\ move' = move
  BY DEF max_load_factor
<1>2. move = Idle /\ SoundTable(tab) /\ Counts(tab)
  BY <1>1, UsableIsSound
<1>3. tables' = [tables EXCEPT ![t] = new]
  BY <1>1
<1> HIDE DEF tab
<1>4. new = [capacity |-> tab.capacity, size |-> tab.size,
             load_factor |-> lf, key_width |-> tab.key_width,
             val_width |-> tab.val_width, elements |-> tab.elements,
             storage |-> tab.storage, is_empty |-> tab.is_empty]
  BY <1>2 DEF SoundTable
<1> HIDE DEF new
<1>5. /\ new.capacity = tab.capacity /\ new.size = tab.size
      /\ new.load_factor = lf /\ new.key_width = tab.key_width
      /\ new.val_width = tab.val_width /\ new.elements = tab.elements
      /\ new.storage = tab.storage /\ new.is_empty = tab.is_empty
      /\ KeysOf(new) = KeysOf(tab)
  BY <1>4 DEF KeysOf
<1>6. SoundTable(new) /\ Counts(new)
  <2>1. new = [capacity |-> new.capacity, size |-> new.size,
               load_factor |-> new.load_factor, key_width |-> new.key_width,
               val_width |-> new.val_width, elements |-> new.elements,
               storage |-> new.storage, is_empty |-> new.is_empty]
    BY <1>4
  <2>2. QED
    BY <2>1, <1>2, <1>5 DEF SoundTable, Counts
<1>7. ReplyInv'
  BY <1>1 DEF ReplyInv, NoReply
<1>8. IInv' /\ Becomes(t, new.elements)
  BY <1>1, <1>2, <1>3, <1>6, <1>7, OneTableChanges
<1>9. QED
  BY <1>1, <1>5, <1>8 DEF Becomes, SameMaps, tab

(* A table read from the stream it was written to is the table written.    *)
LEMMA ReadsWhatWasWritten ==
  ASSUME NEW tab, SoundTable(tab), tab.storage = "owned"
  PROVE  read(written(tab)) = tab
<1> DEFINE in == written(tab)
           rest == << Item(uint8, tab.key_width), Item(uint8, tab.val_width),
                      Item(ElementsType(tab), tab.elements), Item(uint8, tab.is_empty) >>
           ret == [capacity |-> tab.capacity, size |-> tab.size,
                   load_factor |-> tab.load_factor, key_width |-> tab.key_width,
                   val_width |-> tab.val_width, elements |-> << >>,
                   storage |-> "owned", is_empty |-> tab.is_empty]
<1>1. in = write_sizing(tab) \o rest
  BY DEF written
<1>2. /\ DOMAIN in = 1..7
      /\ \A k \in 1..3 : in[k] = write_sizing(tab)[k]
      /\ in[4] = Item(uint8, tab.key_width)
      /\ in[5] = Item(uint8, tab.val_width)
      /\ in[6] = Item(ElementsType(tab), tab.elements)
      /\ in[7] = Item(uint8, tab.is_empty)
  BY <1>1 DEF write_sizing
<1> HIDE DEF in
<1>3. /\ 1..3 \subseteq DOMAIN in /\ 4 \in DOMAIN in /\ 5 \in DOMAIN in
      /\ 6 \in DOMAIN in /\ 7 \in DOMAIN in
  BY <1>2
<1>4. is_pot(tab.capacity)
  BY DEF SoundTable
<1>5. read_sizing(in) = [capacity |-> tab.capacity, size |-> tab.size,
                         load_factor |-> tab.load_factor]
  BY <1>2, <1>3, <1>4, SizingReadsBack
<1>6. ReadItem(in, 4, uint8) = tab.key_width
  BY <1>2, <1>3, ReadsItem
<1>7. ReadItem(in, 5, uint8) = tab.val_width
  BY <1>2, <1>3, ReadsItem
<1>8. ReadItem(in, 7, uint8) = tab.is_empty
  BY <1>2, <1>3, ReadsItem
<1>9. ElementsType(ret) = ElementsType(tab)
  BY DEF ElementsType, quotient_width
<1>10. ReadItem(in, 6, ElementsType(ret)) = tab.elements
  BY <1>2, <1>3, <1>9, ReadsItem
<1>11. read(in) = [ret EXCEPT !.elements = ReadItem(in, 6, ElementsType(ret))]
  BY <1>5, <1>6, <1>7, <1>8 DEF read
<1>12. QED
  BY <1>10, <1>11 DEF SoundTable, in

LEMMA ReadBackKeepsInv ==
  ASSUME IInv, NEW from \in Tables, NEW to \in Tables, ReadBack(from, to)
  PROVE  IInv' /\ Becomes(to, tables[from].elements) /\ reply' = NoReply
<1>1. /\ Usable(from) /\ tables' = [tables EXCEPT ![to] = read(written(tables[from]))]
      /\ reply' = NoReply /\ move' = move
  BY DEF ReadBack
<1>2. move = Idle /\ tables[from].storage = "owned"
      /\ SoundTable(tables[from]) /\ Counts(tables[from])
  BY <1>1, UsableIsSound
<1>3. read(written(tables[from])) = tables[from]
  BY <1>2, ReadsWhatWasWritten
<1>4. ReplyInv'
  BY <1>1 DEF ReplyInv, NoReply
<1>5. QED
  BY <1>1, <1>2, <1>3, <1>4, OneTableChanges

LEMMA RenewKeepsInv ==
  ASSUME IInv, NEW t \in Tables, NEW key_width \in KeyWidths, NEW val_width \in ValueWidths,
         NEW lf \in LoadFactors, Renew(t, key_width, val_width, lf)
  PROVE  IInv' /\ Becomes(t, << >>) /\ reply' = NoReply
<1> DEFINE new == Constructed(0, key_width, val_width, lf)
<1>1. /\ move = Idle /\ tables' = [tables EXCEPT ![t] = new]
      /\ reply' = NoReply /\ move' = move
  BY DEF Renew
<1>2. SoundTable(new) /\ Counts(new) /\ new.elements = << >>
  BY TwoIsACapacity, BoundsAssumption, ConstructedIsSound
<1> HIDE DEF new
<1>3. ReplyInv'
  BY <1>1 DEF ReplyInv, NoReply
<1>4. QED
  BY <1>1, <1>2, <1>3, OneTableChanges

-------------------------------------------------------------------------------
(* Steps between two tables.                                               *)

LEMMA StartMoveKeepsInv ==
  ASSUME IInv, NEW from \in Tables, NEW to \in Tables, StartMove(from, to)
  PROVE  IInv' /\ SameMaps /\ reply' = NoReply
<1>1. /\ from # to /\ Usable(from) /\ Usable(to)
      /\ EnsuresWidths =>
           /\ tables[from].key_width <= tables[to].key_width
           /\ tables[from].val_width <= tables[to].val_width
      /\ GrownCapacity(tables[to], tables[to].size + tables[from].size) <= MaxCapacity
      /\ move' = [op |-> "move_into", from |-> from, to |-> to]
      /\ reply' = NoReply /\ tables' = tables
  BY DEF StartMove
<1>2. /\ move = Idle
      /\ tables[from].storage = "owned" /\ SoundTable(tables[from]) /\ Counts(tables[from])
      /\ tables[to].storage = "owned" /\ SoundTable(tables[to]) /\ Counts(tables[to])
  BY <1>1, UsableIsSound
<1>3. RoomFor(tables[to], Cardinality(KeysOf(tables[from])))
  <2> DEFINE tab == tables[to]
             new_size == tab.size + tables[from].size
             grown == grown_capacity(tab.load_factor, tab.capacity, new_size)
  <2>1. /\ tab.load_factor.num \in Nat \ {0} /\ tab.load_factor.den \in Nat \ {0}
        /\ is_pot(tab.capacity) /\ tab.size \in Nat /\ tables[from].size \in Nat
    BY <1>2, WidthsNat DEF SoundTable
  <2>2. new_size \in Nat
    BY <2>1
  <2>3. grown <= MaxCapacity
    BY <1>1 DEF GrownCapacity
  <2> HIDE DEF new_size, tab
  <2>4. /\ \E n \in Nat : grown = tab.capacity * pow2[n]
        /\ ~needs_to_grow_capacity(tab.load_factor, grown, new_size)
    BY <2>1, <2>2, GrownCapacitySuffices
  <2> HIDE DEF grown
  <2>5. new_size = tab.size + Cardinality(KeysOf(tables[from]))
    BY <1>2 DEF Counts, new_size
  <2>6. RoomFor(tab, Cardinality(KeysOf(tables[from])))
    BY <2>3, <2>4, <2>5 DEF RoomFor
  <2>7. QED
    BY <2>6 DEF tab
<1>4. move'.from = from /\ move'.to = to
  BY <1>1
<1>5. MoveInv'
  BY <1>1, <1>2, <1>3, <1>4 DEF MoveInv
<1>6. ReplyInv'
  BY <1>1 DEF ReplyInv, NoReply
<1>7. QED
  BY <1>1, <1>2, <1>5, <1>6 DEF IInv, SameMaps

(* A callback of a move_into: the target grows as it must and takes the    *)
(* element, with its value whole if the widths were ensured.               *)
LEMMA MoveOneKeepsInv ==
  ASSUME IInv, move # Idle, NEW key \in Keys, MoveOne(key)
  PROVE  /\ IInv' /\ reply = NoReply /\ reply' = NoReply
         /\ move.from \in Tables /\ move.to \in Tables /\ move.from # move.to
         /\ key \in DOMAIN tables[move.from].elements
         /\ EnsuresWidths =>
              tables'[move.to].elements =
                Put(tables[move.to].elements, key, tables[move.from].elements[key])
         /\ tables'[move.from].elements =
              [k \in DOMAIN tables[move.from].elements \ {key} |->
                 tables[move.from].elements[k]]
         /\ \A u \in Tables : u \notin {move.from, move.to} => tables'[u] = tables[u]
         /\ tables'[move.to].load_factor = tables[move.to].load_factor
         /\ tables'[move.to].capacity \in
              {tables[move.to].capacity,
               GrownCapacity(tables[move.to], tables[move.to].size + 1)}
         /\ KeysOf(tables'[move.to]) = KeysOf(tables[move.to]) \cup {key}
<1> DEFINE from == tables[move.from]
           to   == tables[move.to]
           val  == from.elements[key]
           new  == grow_and_insert(to, key, val, to.key_width, to.val_width)
           left == [from EXCEPT !.elements = Restrict(@, DOMAIN @ \ {key})]
           n    == Cardinality(KeysOf(from))
<1>1. /\ key \in KeysOf(from) /\ key < pow2[to.key_width]
      /\ tables' = [tables EXCEPT ![move.to] = new,
                                  ![move.from].elements = Restrict(@, DOMAIN @ \ {key})]
      /\ move' = move /\ reply' = reply
  BY DEF MoveOne, dcheck_key_width
<1>2. /\ move.from \in Tables /\ move.to \in Tables /\ move.from # move.to
      /\ from.storage = "owned" /\ to.storage = "owned"
      /\ EnsuresWidths => from.key_width <= to.key_width /\ from.val_width <= to.val_width
      /\ RoomFor(to, n) /\ reply = NoReply
  BY DEF IInv, MoveInv
<1>3. SoundTable(from) /\ SoundTable(to) /\ Counts(to)
  BY <1>2 DEF IInv
<1>4. /\ tables' = [u \in Tables |-> tables'[u]]
      /\ tables'[move.to] = new /\ tables'[move.from] = left
      /\ \A u \in Tables : u \notin {move.from, move.to} => tables'[u] = tables[u]
  BY <1>1, <1>2 DEF IInv
<1> HIDE DEF from, to
<1>5. /\ n \in Nat \ {0} /\ IsFiniteSet(KeysOf(from))
      /\ Cardinality(KeysOf(from) \ {key}) = n - 1
  BY <1>1, <1>3, WidthsNat, FS_EmptySet, FS_RemoveElement DEF SoundTable
<1> HIDE DEF n
<1>6. /\ key \in Nat /\ val \in Nat /\ val < pow2[from.val_width]
      /\ to.key_width \in KeyWidths /\ to.val_width \in ValueWidths
      /\ to.key_width <= to.key_width /\ to.val_width <= to.val_width
  BY <1>1, <1>3, WidthsNat DEF SoundTable
<1> HIDE DEF val
<1>7. {to.capacity, GrownCapacity(to, to.size + 1)} \subseteq 0..MaxCapacity
  BY <1>2, <1>3, <1>5, RoomIsKept
<1>8. /\ SoundTable(new) /\ Counts(new) /\ new.storage = "owned"
      /\ new.elements = Put(to.elements, key, val % pow2[to.val_width])
      /\ val < pow2[to.val_width] => new.elements = Put(to.elements, key, val)
      /\ new.key_width = to.key_width /\ new.val_width = to.val_width
      /\ new.load_factor = to.load_factor /\ new.size <= to.size + 1
      /\ new.capacity \in {to.capacity, GrownCapacity(to, to.size + 1)}
  BY <1>1, <1>2, <1>3, <1>6, <1>7, InsertedIsSound
<1> HIDE DEF new
<1>9. RoomFor(new, n - 1)
  BY <1>2, <1>3, <1>5, <1>8, RoomIsKept
<1>10. left = [capacity |-> from.capacity, size |-> from.size,
               load_factor |-> from.load_factor, key_width |-> from.key_width,
               val_width |-> from.val_width,
               elements |-> Restrict(from.elements, DOMAIN from.elements \ {key}),
               storage |-> from.storage, is_empty |-> from.is_empty]
  BY <1>3 DEF SoundTable
<1> HIDE DEF left
<1>11. /\ left.capacity = from.capacity /\ left.size = from.size
       /\ left.load_factor = from.load_factor /\ left.key_width = from.key_width
       /\ left.val_width = from.val_width
       /\ left.elements = [k \in DOMAIN from.elements \ {key} |-> from.elements[k]]
       /\ left.storage = from.storage /\ left.is_empty = from.is_empty
       /\ KeysOf(left) = KeysOf(from) \ {key}
  BY <1>10 DEF Restrict, KeysOf
<1>12. SoundTable(left)
  <2>1. left = [capacity |-> left.capacity, size |-> left.size,
                load_factor |-> left.load_factor, key_width |-> left.key_width,
                val_width |-> left.val_width, elements |-> left.elements,
                storage |-> left.storage, is_empty |-> left.is_empty]
    BY <1>10
  <2>2. left.elements = [k \in KeysOf(left) |-> left.elements[k]]
    BY <1>11 DEF KeysOf
  <2>3. \A k \in KeysOf(left) :
           /\ k \in Nat /\ k < pow2[left.key_width]
           /\ left.elements[k] \in Nat /\ left.elements[k] < pow2[left.val_width]
    BY <1>3, <1>11 DEF SoundTable, KeysOf
  <2>4. IsFiniteSet(KeysOf(left)) /\ Cardinality(KeysOf(left)) < left.capacity
    <3>1. n - 1 < from.capacity
      BY <1>3, <1>5, WidthsNat DEF SoundTable, n
    <3>2. QED
      BY <1>5, <1>11, <3>1, FS_RemoveElement
  <2>5. QED
    BY <2>1, <2>2, <2>3, <2>4, <1>3, <1>11 DEF SoundTable
<1>13. \A u \in Tables : SoundTable(tables'[u])
  <2> SUFFICES ASSUME NEW u \in Tables PROVE SoundTable(tables'[u])
    OBVIOUS
  <2>1. u \notin {move.from, move.to} => SoundTable(tables'[u])
    BY <1>4 DEF IInv
  <2>2. QED
    BY <2>1, <1>4, <1>8, <1>12
<1>14. \A u \in Tables : tables'[u].storage = "owned" /\ move.from # u => Counts(tables'[u])
  <2> SUFFICES ASSUME NEW u \in Tables, tables'[u].storage = "owned", move.from # u
               PROVE  Counts(tables'[u])
    OBVIOUS
  <2>1. CASE u = move.to
    BY <2>1, <1>4, <1>8
  <2>2. CASE u # move.to
    BY <2>2, <1>4 DEF IInv
  <2>3. QED
    BY <2>1, <2>2
<1>15. MoveInv'
  <2>1. RoomFor(new, Cardinality(KeysOf(left)))
    BY <1>5, <1>9, <1>11
  <2>2. QED
    BY <2>1, <1>1, <1>2, <1>4, <1>8, <1>11 DEF MoveInv
<1>16. IInv'
  BY <1>1, <1>4, <1>13, <1>14, <1>15 DEF IInv, ReplyInv
<1>17. EnsuresWidths => new.elements = Put(to.elements, key, val)
  <2> SUFFICES ASSUME EnsuresWidths PROVE val < pow2[to.val_width]
    BY <1>8
  <2>1. from.val_width <= to.val_width /\ from.val_width \in Nat /\ to.val_width \in Nat
    BY <1>2, <1>3, WidthsNat
  <2>2. pow2[from.val_width] <= pow2[to.val_width]
        /\ pow2[from.val_width] \in Nat /\ pow2[to.val_width] \in Nat
    BY <2>1, PowerMonotonic, PowersAreNat
  <2>3. QED
    BY <1>6, <2>2
<1>18. KeysOf(new) = KeysOf(to) \cup {key}
  BY <1>8 DEF KeysOf, Put
<1>19. QED
  BY <1>1, <1>2, <1>4, <1>8, <1>11, <1>16, <1>17, <1>18 DEF from, to, val, KeysOf

LEMMA EndMoveKeepsInv ==
  ASSUME IInv, move # Idle, EndMove
  PROVE  IInv' /\ SameMaps /\ reply' = reply
<1> DEFINE t == move.from
           tab == tables[t]
           new == [tab EXCEPT !.storage = "drained"]
<1>1. /\ KeysOf(tab) = {}
      /\ tables' = [tables EXCEPT ![t].storage = "drained"]
      /\ move' = Idle /\ reply' = reply
  BY DEF EndMove
<1>2. t \in Tables /\ tab.storage = "owned"
  BY DEF IInv, MoveInv
<1>3. SoundTable(tab)
  BY <1>2 DEF IInv
<1>4. /\ tables' = [u \in Tables |-> tables'[u]]
      /\ tables'[t] = new /\ \A u \in Tables : u # t => tables'[u] = tables[u]
  BY <1>1, <1>2 DEF IInv
<1> HIDE DEF tab
<1>5. new = [capacity |-> tab.capacity, size |-> tab.size,
             load_factor |-> tab.load_factor, key_width |-> tab.key_width,
             val_width |-> tab.val_width, elements |-> tab.elements,
             storage |-> "drained", is_empty |-> tab.is_empty]
  BY <1>3 DEF SoundTable
<1> HIDE DEF new
<1>6. /\ new.capacity = tab.capacity /\ new.size = tab.size
      /\ new.load_factor = tab.load_factor /\ new.key_width = tab.key_width
      /\ new.val_width = tab.val_width /\ new.elements = tab.elements
      /\ new.storage = "drained" /\ new.is_empty = tab.is_empty
      /\ KeysOf(new) = KeysOf(tab)
  BY <1>5 DEF KeysOf
<1>7. SoundTable(new)
  <2>1. new = [capacity |-> new.capacity, size |-> new.size,
               load_factor |-> new.load_factor, key_width |-> new.key_width,
               val_width |-> new.val_width, elements |-> new.elements,
               storage |-> new.storage, is_empty |-> new.is_empty]
    BY <1>5
  <2>2. tab.storage = "owned" /\ tab.is_empty = FALSE
    BY <1>2, <1>3 DEF SoundTable, tab
  <2>3. new.is_empty <=> new.storage = "null"
    BY <1>6, <2>2
  <2>4. QED
    BY <2>1, <2>3, <1>3, <1>6 DEF SoundTable
<1>8. \A u \in Tables : /\ SoundTable(tables'[u])
                        /\ tables'[u].storage = "owned" => Counts(tables'[u])
  <2> SUFFICES ASSUME NEW u \in Tables
               PROVE  /\ SoundTable(tables'[u])
                      /\ tables'[u].storage = "owned" => Counts(tables'[u])
    OBVIOUS
  <2>1. CASE u = t
    BY <2>1, <1>4, <1>6, <1>7
  <2>2. CASE u # t
    BY <2>2, <1>4 DEF IInv
  <2>3. QED
    BY <2>1, <2>2
<1>9. IInv'
  BY <1>1, <1>4, <1>8 DEF IInv, ReplyInv
<1>10. SameMaps
  BY <1>4, <1>6 DEF SameMaps, tab
<1>11. QED
  BY <1>1, <1>9, <1>10

(* Three fields of a record replaced, one after the other.                 *)
LEMMA FieldsReplaced ==
  ASSUME NEW tab, NEW b,
         tab = [capacity |-> tab.capacity, size |-> tab.size,
                load_factor |-> tab.load_factor, key_width |-> tab.key_width,
                val_width |-> tab.val_width, elements |-> tab.elements,
                storage |-> tab.storage, is_empty |-> tab.is_empty]
  PROVE  [tab EXCEPT !.elements = << >>, !.storage = "null", !.is_empty = b] =
             [capacity |-> tab.capacity, size |-> tab.size,
              load_factor |-> tab.load_factor, key_width |-> tab.key_width,
              val_width |-> tab.val_width, elements |-> << >>,
              storage |-> "null", is_empty |-> b]
<1> DEFINE t1 == [tab EXCEPT !.elements = << >>]
           t2 == [t1 EXCEPT !.storage = "null"]
           t3 == [t2 EXCEPT !.is_empty = b]
<1>1. t1 = [capacity |-> tab.capacity, size |-> tab.size,
            load_factor |-> tab.load_factor, key_width |-> tab.key_width,
            val_width |-> tab.val_width, elements |-> << >>,
            storage |-> tab.storage, is_empty |-> tab.is_empty]
  OBVIOUS
<1> HIDE DEF t1
<1>2. t2 = [capacity |-> tab.capacity, size |-> tab.size,
            load_factor |-> tab.load_factor, key_width |-> tab.key_width,
            val_width |-> tab.val_width, elements |-> << >>,
            storage |-> "null", is_empty |-> tab.is_empty]
  BY <1>1
<1> HIDE DEF t2
<1>3. t3 = [capacity |-> tab.capacity, size |-> tab.size,
            load_factor |-> tab.load_factor, key_width |-> tab.key_width,
            val_width |-> tab.val_width, elements |-> << >>, storage |-> "null", is_empty |-> b]
  BY <1>2
<1>4. QED
  BY <1>3 DEF t1, t2

LEMMA MovedFromIsSound ==
  ASSUME NEW tab, SoundTable(tab)
  PROVE  SoundTable(MovedFrom(tab)) /\ MovedFrom(tab).storage = "null"
         /\ MovedFrom(tab).elements = << >>
<1> DEFINE new == MovedFrom(tab)
<1>1. new = [capacity |-> tab.capacity, size |-> tab.size,
             load_factor |-> tab.load_factor, key_width |-> tab.key_width,
             val_width |-> tab.val_width, elements |-> << >>,
             storage |-> "null", is_empty |-> TRUE]
  <2>1. tab = [capacity |-> tab.capacity, size |-> tab.size,
               load_factor |-> tab.load_factor, key_width |-> tab.key_width,
               val_width |-> tab.val_width, elements |-> tab.elements,
               storage |-> tab.storage, is_empty |-> tab.is_empty]
    BY DEF SoundTable
  <2>2. [tab EXCEPT !.elements = << >>, !.storage = "null", !.is_empty = TRUE] =
            [capacity |-> tab.capacity, size |-> tab.size,
             load_factor |-> tab.load_factor, key_width |-> tab.key_width,
             val_width |-> tab.val_width, elements |-> << >>,
             storage |-> "null", is_empty |-> TRUE]
    BY <2>1, FieldsReplaced
  <2>3. QED
    BY <2>2 DEF MovedFrom
<1> HIDE DEF new
<1>2. /\ new.capacity = tab.capacity /\ new.size = tab.size
      /\ new.load_factor = tab.load_factor /\ new.key_width = tab.key_width
      /\ new.val_width = tab.val_width /\ new.elements = << >>
      /\ new.storage = "null" /\ new.is_empty = TRUE
  BY <1>1
<1>3. KeysOf(new) = {} /\ new.elements = [key \in {} |-> new.elements[key]]
  BY <1>2 DEF KeysOf
<1>4. IsFiniteSet(KeysOf(new)) /\ Cardinality(KeysOf(new)) < new.capacity
  BY <1>2, <1>3, FS_EmptySet, WidthsNat
<1>5. new = [capacity |-> new.capacity, size |-> new.size,
             load_factor |-> new.load_factor, key_width |-> new.key_width,
             val_width |-> new.val_width, elements |-> new.elements,
             storage |-> new.storage, is_empty |-> new.is_empty]
  BY <1>1
<1>6. SoundTable(new)
  BY <1>2, <1>3, <1>4, <1>5 DEF SoundTable
<1>7. QED
  BY <1>2, <1>6 DEF new

LEMMA TwoTablesChange ==
  ASSUME IInv, move = Idle, NEW a \in Tables, NEW b \in Tables,
         tables' = [u \in Tables |-> tables'[u]],
         \A u \in Tables : u # a /\ u # b => tables'[u] = tables[u],
         SoundTable(tables'[a]), tables'[a].storage = "owned" => Counts(tables'[a]),
         SoundTable(tables'[b]), tables'[b].storage = "owned" => Counts(tables'[b]),
         move' = move, reply' = NoReply
  PROVE  IInv'
<1>1. \A u \in Tables : /\ SoundTable(tables'[u])
                        /\ tables'[u].storage = "owned" => Counts(tables'[u])
  <2> SUFFICES ASSUME NEW u \in Tables, u # a, u # b
               PROVE  /\ SoundTable(tables'[u])
                      /\ tables'[u].storage = "owned" => Counts(tables'[u])
    OBVIOUS
  <2>1. tables'[u] = tables[u]
    OBVIOUS
  <2>2. SoundTable(tables[u]) /\ (tables[u].storage = "owned" => Counts(tables[u]))
    BY DEF IInv
  <2>3. QED
    BY <2>1, <2>2
<1>2. ReplyInv'
  BY DEF ReplyInv, NoReply
<1>3. QED
  BY <1>1, <1>2 DEF IInv

LEMMA MoveAssignKeepsInv ==
  ASSUME IInv, NEW to \in Tables, NEW from \in Tables, MoveAssign(to, from)
  PROVE  /\ IInv' /\ reply' = NoReply /\ from # to
         /\ \A u \in Tables : tables'[u].elements =
               IF u = to THEN tables[from].elements ELSE IF u = from THEN << >>
               ELSE tables[u].elements
<1>1. /\ from # to /\ Usable(from)
      /\ tables' = [tables EXCEPT ![to] = tables[from], ![from] = MovedFrom(tables[from])]
      /\ reply' = NoReply /\ move' = move
  BY DEF MoveAssign, IInv
<1>2. move = Idle /\ SoundTable(tables[from]) /\ Counts(tables[from])
  BY <1>1, UsableIsSound
<1>3. /\ SoundTable(MovedFrom(tables[from])) /\ MovedFrom(tables[from]).storage = "null"
      /\ MovedFrom(tables[from]).elements = << >>
  BY <1>2, MovedFromIsSound
<1>4. /\ tables' = [u \in Tables |-> tables'[u]]
      /\ tables'[to] = tables[from] /\ tables'[from] = MovedFrom(tables[from])
      /\ \A u \in Tables : u # to /\ u # from => tables'[u] = tables[u]
  BY <1>1 DEF IInv
<1>5. IInv'
  BY <1>1, <1>2, <1>3, <1>4, TwoTablesChange
<1>6. QED
  BY <1>1, <1>3, <1>4, <1>5

LEMMA SwapKeepsInv ==
  ASSUME IInv, NEW a \in Tables, NEW b \in Tables, Swap(a, b)
  PROVE  /\ IInv' /\ reply' = NoReply /\ a # b
         /\ \A u \in Tables : tables'[u].elements =
               IF u = a THEN tables[b].elements ELSE IF u = b THEN tables[a].elements
               ELSE tables[u].elements
<1>1. /\ a # b /\ Usable(a) /\ Usable(b)
      /\ tables' = [tables EXCEPT ![a] = tables[b], ![b] = tables[a]]
      /\ reply' = NoReply /\ move' = move
  BY DEF Swap
<1>2. /\ move = Idle /\ SoundTable(tables[a]) /\ Counts(tables[a])
      /\ SoundTable(tables[b]) /\ Counts(tables[b])
  BY <1>1, UsableIsSound
<1>3. /\ tables' = [u \in Tables |-> tables'[u]]
      /\ tables'[a] = tables[b] /\ tables'[b] = tables[a]
      /\ \A u \in Tables : u # a /\ u # b => tables'[u] = tables[u]
  BY <1>1 DEF IInv
<1>4. IInv'
  BY <1>1, <1>2, <1>3, TwoTablesChange
<1>5. QED
  BY <1>1, <1>3, <1>4

LEMMA NextKeepsInv == IInv /\ [Next]_vars => IInv'
<1> SUFFICES ASSUME IInv, [Next]_vars PROVE IInv'
  OBVIOUS
<1>1. ASSUME NEW t \in Tables, NEW key_width \in KeyWidths, NEW val_width \in ValueWidths,
             NEW key \in Keys, access_kv_width(t, key, key_width, val_width)
      PROVE  IInv'
  BY <1>1, AccessKeepsInv
<1>2. ASSUME NEW t \in Tables, NEW key_width \in KeyWidths, NEW val_width \in ValueWidths,
             NEW key \in Keys, NEW val \in Values,
             insert_kv_width(t, key, val, key_width, val_width)
      PROVE  IInv'
  BY <1>2, InsertKeepsInv
<1>3. ASSUME NEW t \in Tables, NEW key_width \in KeyWidths, NEW val_width \in ValueWidths,
             grow_kv_width(t, key_width, val_width)
      PROVE  IInv'
  BY <1>3, GrowKeepsInv
<1>4. ASSUME NEW t \in Tables, NEW key_width \in KeyWidths, NEW val_width \in ValueWidths,
             NEW lf \in LoadFactors, Renew(t, key_width, val_width, lf)
      PROVE  IInv'
  BY <1>4, RenewKeepsInv
<1>5. ASSUME NEW t \in Tables, NEW lf \in LoadFactors, max_load_factor(t, lf) PROVE IInv'
  BY <1>5, MaxLoadFactorKeepsInv
<1>6. ASSUME NEW val \in Values, Assign(val) PROVE IInv'
  BY <1>6, AssignKeepsInv
<1>7. ASSUME NEW from \in Tables, NEW to \in Tables, StartMove(from, to) PROVE IInv'
  BY <1>7, StartMoveKeepsInv
<1>8. ASSUME NEW from \in Tables, NEW to \in Tables, MoveAssign(to, from) PROVE IInv'
  BY <1>8, MoveAssignKeepsInv
<1>9. ASSUME NEW from \in Tables, NEW to \in Tables, Swap(from, to) PROVE IInv'
  BY <1>9, SwapKeepsInv
<1>10. ASSUME NEW from \in Tables, NEW to \in Tables, ReadBack(from, to) PROVE IInv'
  BY <1>10, ReadBackKeepsInv
<1>11. ASSUME move # Idle, NEW key \in Keys, MoveOne(key) PROVE IInv'
  BY <1>11, MoveOneKeepsInv
<1>12. ASSUME move # Idle, EndMove PROVE IInv'
  BY <1>12, EndMoveKeepsInv
<1>13. CASE UNCHANGED vars
  BY <1>13 DEF vars, IInv, MoveInv, ReplyInv
<1>14. QED
  BY <1>1, <1>2, <1>3, <1>4, <1>5, <1>6, <1>7, <1>8, <1>9, <1>10, <1>11, <1>12, <1>13
     DEF Next, Move

-------------------------------------------------------------------------------
(* The theorems.                                                           *)

LEMMA Invariance == Spec => []IInv
<1>1. Init => IInv
  BY InitHasInv
<1>2. IInv /\ [Next]_vars => IInv'
  BY NextKeepsInv
<1>3. QED
  BY <1>1, <1>2, PTL DEF Spec

(* Every element fits the widths its table stores it with, at every step   *)
(* of a move_into too (hashmap_t, all members).                            *)
THEOREM TypeCorrect == Spec => []TypeOK
<1>1. IInv => TypeOK
  BY DEF IInv, SoundTable, TypeOK
<1>2. QED
  BY <1>1, Invariance, PTL

(* The element count that decides about growth is the number of elements,  *)
(* and a position is free (size_manager_t::set_size, and its calls in      *)
(* hashmap_t).                                                             *)
THEOREM SizeIsExact == Spec => []SizeCounts
<1>1. IInv => SizeCounts
  BY DEF IInv, SoundTable, Counts, SizeCounts
<1>2. QED
  BY <1>1, Invariance, PTL

(* The keys a target is to hold in the end do not become more while they   *)
(* move, nor does the count of them that decides how far it may grow.      *)
LEMMA CountToHoldShrinks ==
  ASSUME NEW from, NEW to, IsFiniteSet(from), IsFiniteSet(to), NEW key \in from
  PROVE  /\ CountToHold(from, to) \in Nat
         /\ CountToHold(from \ {key}, to \cup {key}) \in Nat
         /\ CountToHold(from \ {key}, to \cup {key}) <= CountToHold(from, to)
         /\ Cardinality(to) + 1 <= CountToHold(from, to)
<1> DEFINE left   == from \ {key}
           filled == to \cup {key}
<1>1. left \cup filled = from \cup to /\ left \cap filled \subseteq from \cap to
  OBVIOUS
<1>2. IsFiniteSet(from \cup to)
  BY FS_Union
<1>3. Cardinality(from \cup to) \in Nat /\ Cardinality(to) \in Nat
  BY <1>2, FS_CardinalityType
<1> HIDE DEF left, filled
<1>4. /\ CountToHold(from, to) \in Nat
      /\ CountToHold(left, filled) \in Nat
      /\ CountToHold(left, filled) <= CountToHold(from, to)
  BY <1>1, <1>3 DEF CountToHold
<1>5. CASE key \in to
  <2>1. from \cap to # {}
    BY <1>5
  <2>2. Cardinality(to) <= Cardinality(from \cup to)
    BY <1>2, FS_Subset
  <2>3. QED
    BY <1>3, <1>4, <2>1, <2>2 DEF CountToHold, left, filled
<1>6. CASE key \notin to
  <2>1. Cardinality(to \cup {key}) = Cardinality(to) + 1
    BY <1>6, FS_AddElement
  <2>2. Cardinality(to \cup {key}) <= Cardinality(from \cup to)
    BY <1>2, FS_Subset
  <2>3. QED
    BY <1>3, <1>4, <2>1, <2>2 DEF CountToHold, left, filled
<1>7. QED
  BY <1>5, <1>6

LEMMA MoveOneGrowsNoFurther ==
  ASSUME IInv, move # Idle, NEW key \in Keys, MoveOne(key)
  PROVE  CapacityToHold' <= CapacityToHold
<1> DEFINE to    == tables[move.to]
           new   == tables'[move.to]
           total == CountToHold(KeysOf(tables[move.from]), KeysOf(to))
           rest  == CountToHold(KeysOf(tables'[move.from]), KeysOf(new))
<1>1. /\ move.from \in Tables /\ move.to \in Tables /\ move.from # move.to
      /\ new.load_factor = to.load_factor
      /\ new.capacity \in {to.capacity, GrownCapacity(to, to.size + 1)}
      /\ KeysOf(new) = KeysOf(to) \cup {key}
      /\ key \in KeysOf(tables[move.from])
      /\ KeysOf(tables'[move.from]) = KeysOf(tables[move.from]) \ {key}
  BY MoveOneKeepsInv DEF KeysOf
<1>2. move' = move
  BY DEF MoveOne
<1>3. SoundTable(to) /\ Counts(to) /\ SoundTable(tables[move.from])
  BY <1>1 DEF IInv, MoveInv
<1>4. IsFiniteSet(KeysOf(to)) /\ IsFiniteSet(KeysOf(tables[move.from]))
  BY <1>3 DEF SoundTable
<1>5. /\ total \in Nat /\ rest \in Nat /\ rest <= total
      /\ Cardinality(KeysOf(to)) + 1 <= total
  BY <1>1, <1>4, CountToHoldShrinks
<1>6. /\ to.load_factor.num \in Nat \ {0} /\ to.load_factor.den \in Nat \ {0}
      /\ to.capacity \in Nat \ {0} /\ is_pot(to.capacity)
      /\ to.size + 1 \in Nat /\ to.size + 1 <= total
  BY <1>3, <1>5, WidthsNat DEF SoundTable, Counts
<1>7. /\ CapacityToHold = grown_capacity(to.load_factor, to.capacity, total)
      /\ CapacityToHold' = grown_capacity(new.load_factor, new.capacity, rest)
  BY <1>2 DEF CapacityToHold, GrownCapacity, KeysOf
<1>8. new.capacity \in {to.capacity, grown_capacity(to.load_factor, to.capacity, to.size + 1)}
  BY <1>1 DEF GrownCapacity
<1> HIDE DEF to, new, total, rest
<1>9. grown_capacity(to.load_factor, new.capacity, rest)
         <= grown_capacity(to.load_factor, to.capacity, total)
  BY <1>5, <1>6, <1>8, GrownInStepsNoFurther
<1>10. QED
  BY <1>1, <1>7, <1>9

(* A move_into leads its target to no larger capacity than the elements of *)
(* both tables need (and one more if they share a key), by however many    *)
(* rebuilds: a target that has it is not rebuilt (hashmap_t::move_into,    *)
(* grow_if_needed).                                                        *)
THEOREM MovesGrowNoFurther == Spec => NeverGrowsBeyondNeed
<1>1. IInv /\ [Next]_vars =>
        [move # Idle /\ move' = move => CapacityToHold' <= CapacityToHold]_vars
  <2> SUFFICES ASSUME IInv, Next, move # Idle, move' = move
               PROVE  CapacityToHold' <= CapacityToHold \/ UNCHANGED vars
    OBVIOUS
  <2>1. reply = NoReply
    BY DEF IInv, MoveInv
  <2>2. ~(\E t \in Tables : Usable(t))
    BY DEF Usable
  <2>3. \E key \in Keys : MoveOne(key)
    BY <2>1, <2>2 DEF Next, Move, EndMove, NoReply, Assign, access_kv_width, insert_kv_width,
          grow_kv_width, Renew, max_load_factor, StartMove, MoveAssign, Swap, ReadBack
  <2>4. QED
    BY <2>3, MoveOneGrowsNoFurther
<1>2. QED
  BY <1>1, Invariance, PTL DEF Spec, NeverGrowsBeyondNeed
-------------------------------------------------------------------------------
(* Step by step, hashmap_t is a map from keys to values.                   *)

Maps == [t \in Tables |-> tables[t].elements]

LEMMA OneMapChanges ==
  ASSUME NEW t \in Tables, NEW map, Becomes(t, map)
  PROVE  Maps' = [Maps EXCEPT ![t] = map]
BY DEF Becomes, Maps

(* A step that changes no table's elements is a copy of one onto itself.   *)
LEMMA NoMapChanges ==
  ASSUME NEW t \in Tables, SameMaps, reply' = NoReply
  PROVE  M!Next
<1>1. Maps' = [Maps EXCEPT ![t] = Maps[t]]
  BY DEF SameMaps, Maps
<1>2. M!Copy(t, t)
  BY <1>1 DEF M!Copy, M!NoReply, NoReply, Maps
<1>3. QED
  BY <1>2 DEF M!Next

LEMMA InitIsAMap == Init => M!Init
<1> SUFFICES ASSUME Init PROVE M!Init
  OBVIOUS
<1>1. PICK key_width \in KeyWidths, val_width \in ValueWidths, lf \in LoadFactors :
         tables = [t \in Tables |-> Constructed(0, key_width, val_width, lf)]
  BY DEF Init
<1>2. \A t \in Tables : tables[t].elements = << >>
  BY <1>1 DEF Constructed
<1>3. reply = NoReply
  BY DEF Init
<1>4. QED
  BY <1>2, <1>3 DEF M!Init, M!EmptyMap, M!NoReply, NoReply

LEMMA NextIsAMapStep ==
  ASSUME EnsuresWidths, IInv, [Next]_vars
  PROVE  [M!Next]_(M!vars)
<1>1. ASSUME NEW t \in Tables, NEW key_width \in KeyWidths, NEW val_width \in ValueWidths,
             NEW key \in Keys, access_kv_width(t, key, key_width, val_width)
      PROVE  M!Next
  <2>1. /\ Maps' = [Maps EXCEPT ![t] = IF key \in KeysOf(tables[t]) THEN tables[t].elements
                                      ELSE Put(tables[t].elements, key, DefaultValue)]
        /\ reply' = Reply("access", t, key)
    BY <1>1, AccessKeepsInv, OneMapChanges
  <2>2. M!access(t, key)
    BY <2>1 DEF M!access, M!Reply, Reply, KeysOf, M!Put, Put, Maps
  <2>3. QED
    BY <2>2 DEF M!Next
<1>2. ASSUME NEW t \in Tables, NEW key_width \in KeyWidths, NEW val_width \in ValueWidths,
             NEW key \in Keys, NEW val \in Values,
             insert_kv_width(t, key, val, key_width, val_width)
      PROVE  M!Next
  <2>1. /\ Maps' = [Maps EXCEPT ![t] = Put(tables[t].elements, key, val)]
        /\ reply' = Reply("insert", t, key)
    BY <1>2, InsertKeepsInv, OneMapChanges
  <2>2. M!insert(t, key, val)
    BY <2>1 DEF M!insert, M!Reply, Reply, KeysOf, M!Put, Put, Maps
  <2>3. QED
    BY <2>2 DEF M!Next
<1>3. ASSUME NEW t \in Tables, NEW key_width \in KeyWidths, NEW val_width \in ValueWidths,
             grow_kv_width(t, key_width, val_width)
      PROVE  M!Next
  BY <1>3, GrowKeepsInv, NoMapChanges
<1>4. ASSUME NEW t \in Tables, NEW key_width \in KeyWidths, NEW val_width \in ValueWidths,
             NEW lf \in LoadFactors, Renew(t, key_width, val_width, lf)
      PROVE  M!Next
  <2>1. Becomes(t, << >>) /\ reply' = NoReply
    BY <1>4, RenewKeepsInv
  <2>2. M!Replace(t, M!EmptyMap, t)
    BY <2>1 DEF Becomes, M!Replace, M!EmptyMap, M!NoReply, NoReply
  <2>3. QED
    BY <2>2 DEF M!Next
<1>5. ASSUME NEW t \in Tables, NEW lf \in LoadFactors, max_load_factor(t, lf) PROVE M!Next
  BY <1>5, MaxLoadFactorKeepsInv, NoMapChanges
<1>6. ASSUME NEW val \in Values, Assign(val) PROVE M!Next
  <2>1. /\ Maps' = [Maps EXCEPT ![reply.table] =
                      [tables[reply.table].elements EXCEPT ![reply.key] = val]]
        /\ reply' = reply /\ reply.table \in Tables
    BY <1>6, AssignKeepsInv, OneMapChanges
  <2>2. reply.op = "access"
    BY <1>6 DEF Assign
  <2>3. M!Assign(val)
    BY <2>1, <2>2 DEF M!Assign, Maps
  <2>4. QED
    BY <2>3 DEF M!Next
<1>7. ASSUME NEW from \in Tables, NEW to \in Tables, StartMove(from, to) PROVE M!Next
  BY <1>7, StartMoveKeepsInv, NoMapChanges
<1>8. ASSUME NEW from \in Tables, NEW to \in Tables, MoveAssign(to, from) PROVE M!Next
  <2>1. /\ reply' = NoReply
        /\ \A u \in Tables : tables'[u].elements =
              IF u = to THEN tables[from].elements ELSE IF u = from THEN << >>
              ELSE tables[u].elements
    BY <1>8, MoveAssignKeepsInv
  <2>2. M!Replace(to, Maps[from], from)
    BY <2>1 DEF M!Replace, M!EmptyMap, M!NoReply, NoReply, Maps
  <2>3. QED
    BY <2>2 DEF M!Next, Maps
<1>9. ASSUME NEW from \in Tables, NEW to \in Tables, Swap(from, to) PROVE M!Next
  <2>1. /\ reply' = NoReply /\ from # to
        /\ \A u \in Tables : tables'[u].elements =
              IF u = from THEN tables[to].elements ELSE IF u = to THEN tables[from].elements
              ELSE tables[u].elements
    BY <1>9, SwapKeepsInv
  <2>2. M!Swap(from, to)
    BY <2>1 DEF M!Swap, M!NoReply, NoReply
  <2>3. QED
    BY <2>2 DEF M!Next
<1>10. ASSUME NEW from \in Tables, NEW to \in Tables, ReadBack(from, to) PROVE M!Next
  <2>1. Becomes(to, tables[from].elements) /\ reply' = NoReply
    BY <1>10, ReadBackKeepsInv
  <2>2. M!Copy(from, to)
    BY <2>1 DEF Becomes, M!Copy, M!NoReply, NoReply
  <2>3. QED
    BY <2>2 DEF M!Next
<1>11. ASSUME move # Idle, NEW key \in Keys, MoveOne(key) PROVE M!Next
  <2> DEFINE from == move.from
             to   == move.to
  <2>1. /\ reply' = NoReply /\ from \in Tables /\ to \in Tables /\ from # to
        /\ key \in DOMAIN tables[from].elements
        /\ tables'[to].elements = Put(tables[to].elements, key, tables[from].elements[key])
        /\ tables'[from].elements =
              [k \in DOMAIN tables[from].elements \ {key} |-> tables[from].elements[k]]
        /\ \A u \in Tables : u \notin {from, to} => tables'[u] = tables[u]
    BY <1>11, MoveOneKeepsInv
  <2> HIDE DEF from, to
  <2>2. M!MoveOne(from, to, key)
    <3> DEFINE taken == Put(Maps[to], key, Maps[from][key])
               left  == [k \in DOMAIN Maps[from] \ {key} |-> Maps[from][k]]
    <3>1. Maps'[to] = taken /\ Maps'[from] = left
      BY <2>1 DEF Maps
    <3>2. Maps' = [Maps EXCEPT ![to] = taken, ![from] = left]
      <4> HIDE DEF taken, left
      <4>1. \A u \in Tables : u # from /\ u # to => Maps'[u] = Maps[u]
        BY <2>1 DEF Maps
      <4>2. /\ Maps = [u \in Tables |-> Maps[u]]
            /\ Maps' = [u \in Tables |-> Maps'[u]]
        BY DEF Maps
      <4>3. QED
        BY <2>1, <3>1, <4>1, <4>2
    <3>3. key \in DOMAIN Maps[from]
      BY <2>1 DEF Maps
    <3>4. QED
      BY <2>1, <3>2, <3>3 DEF M!MoveOne, M!NoReply, NoReply, M!Put, Put, Maps
  <2>3. QED
    BY <2>1, <2>2 DEF M!Next
<1>12. ASSUME move # Idle, EndMove PROVE UNCHANGED M!vars
  <2>1. SameMaps /\ reply' = reply
    BY <1>12, EndMoveKeepsInv
  <2>2. QED
    BY <2>1 DEF SameMaps, M!vars
<1>13. CASE UNCHANGED vars
  BY <1>13 DEF vars, M!vars
<1>14. QED
  BY <1>1, <1>2, <1>3, <1>4, <1>5, <1>6, <1>7, <1>8, <1>9, <1>10, <1>11, <1>12, <1>13
     DEF Next, Move

(* If the user widens the targets of his calls of move_into, the tables    *)
(* are maps: growing, moving, swapping and copying them loses, invents and *)
(* changes no value (hashmap_t, all members).                              *)
THEOREM IsKeyMaps ==
  ASSUME EnsuresWidths
  PROVE  Spec => RefinesKeyMaps
<1>1. Init => M!Init
  BY InitIsAMap
<1>2. IInv /\ [Next]_vars => [M!Next]_(M!vars)
  BY NextIsAMapStep
<1>3. QED
  BY <1>1, <1>2, Invariance, PTL DEF Spec, RefinesKeyMaps, M!Spec
==============================================================================
