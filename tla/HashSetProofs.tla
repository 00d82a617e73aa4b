---------------------------- MODULE HashSetProofs ----------------------------
(***************************************************************************)
(* Proofs about HashSet, for every hash function that is a bijection on    *)
(* its width, every placement, all widths, capacities and load factors.    *)
(* The inductive invariant IInv says of both tables of a rebuild that      *)
(* every element is what a key of the table's width decomposes to          *)
(* (Sound), of the new one that it has room for the rest (FitsWithout-     *)
(* Growing), and that a key is never in both.                              *)
(***************************************************************************)
EXTENDS HashSet, SizeManagerProofs, FiniteSetTheorems

(* The keys a table can hold.                                              *)
KeysOfWidth(width) == 0..(pow2[width] - 1)

Sound(t) ==
    /\ t = [capacity |-> t.capacity, size |-> t.size, load_factor |-> t.load_factor,
            key_width |-> t.key_width, hash_width |-> t.hash_width, entries |-> t.entries]
    /\ t.capacity \in 2..MaxCapacity /\ is_pot(t.capacity)
    /\ t.size \in 0..(t.capacity - 1)
    /\ t.load_factor \in LoadFactors
    /\ t.key_width \in 1..MaxKeyWidth
    /\ t.hash_width = real_width(t)
    /\ IsFiniteSet(DOMAIN t.entries)
    /\ \A dkey \in DOMAIN t.entries :
          \E key \in KeysOfWidth(t.key_width) : dkey = decompose_key(t, key)

Mirrors(m, t) ==
    /\ DOMAIN m = ContentsOf(t)
    /\ \A key \in DOMAIN m : lookup(t, key) = [found |-> TRUE, id |-> m[key]]

Counts(t) == t.size = Cardinality(DOMAIN t.entries)

Calls == {[op |-> "grow_key_width"], [op |-> "move_into"]}
           \cup {[op |-> "lookup_insert", key |-> key] : key \in Keys}

RebuildInv ==
    /\ Sound(new_table)
    /\ Counts(new_table)
    /\ call \in Calls
    /\ call.op = "lookup_insert" => call.key \in KeysOfWidth(new_table.key_width)
    /\ table.key_width <= new_table.key_width
    /\ ContentsOf(table) \cap ContentsOf(new_table) = {}
    /\ Mirrors(mirror, new_table)

(* The inductive invariant.                                                *)
IInv ==
    /\ Sound(table)
    /\ call = Idle => new_table = NoTable /\ Counts(table) /\ Mirrors(mirror, table)
    /\ call # Idle => RebuildInv
    /\ FitsWithoutGrowing
-------------------------------------------------------------------------------
(* Keys and what they decompose to.                                        *)

LEMMA PowersAreNat == \A n \in Nat : pow2[n] \in Nat \ {0}
BY PowersDouble

LEMMA WidthsNat ==
  ASSUME NEW t, Sound(t)
  PROVE  /\ t.capacity \in Nat \ {0} /\ t.size \in Nat
         /\ t.key_width \in Nat \ {0}
         /\ log2_upper(t.capacity) \in Nat /\ pow2[log2_upper(t.capacity)] = t.capacity
         /\ t.hash_width \in Nat /\ t.key_width <= t.hash_width
         /\ log2_upper(t.capacity) < t.hash_width
         /\ t.hash_width \in 1..(MaxKeyWidth + log2_upper(MaxCapacity) + 1)
         /\ t.load_factor.num \in Nat \ {0} /\ t.load_factor.den \in Nat \ {0}
<1>1. t.capacity \in Nat \ {0} /\ t.size \in Nat /\ t.key_width \in Nat \ {0}
      /\ t.capacity <= MaxCapacity /\ t.key_width <= MaxKeyWidth
  BY CapacityFromLog2, BoundsAssumption DEF Sound
<1>2. /\ log2_upper(t.capacity) \in Nat /\ pow2[log2_upper(t.capacity)] = t.capacity
      /\ log2_upper(MaxCapacity) \in Nat /\ pow2[log2_upper(MaxCapacity)] = MaxCapacity
      /\ MaxCapacity \in Nat
  BY CapacityFromLog2, BoundsAssumption DEF Sound
<1>3. log2_upper(t.capacity) <= log2_upper(MaxCapacity)
  <2>1. ~(log2_upper(MaxCapacity) < log2_upper(t.capacity))
    BY <1>1, <1>2, PowerMonotonic
  <2>2. QED
    BY <2>1, <1>2
<1>4. t.hash_width = Max2(log2_upper(t.capacity) + 1, t.key_width)
  BY DEF Sound, real_width
<1>5. MaxKeyWidth \in Nat
  BY BoundsAssumption
<1>6. t.hash_width \in Nat /\ t.key_width <= t.hash_width
      /\ log2_upper(t.capacity) < t.hash_width
      /\ t.hash_width \in 1..(MaxKeyWidth + log2_upper(MaxCapacity) + 1)
  BY <1>1, <1>2, <1>3, <1>4, <1>5 DEF Max2
<1>7. t.load_factor.num \in Nat \ {0} /\ t.load_factor.den \in Nat \ {0}
  BY LoadFactorsAssumption DEF Sound
<1>8. QED
  BY <1>1, <1>2, <1>6, <1>7

(* The DCHECK_EQ in grow_and_insert: a key of the table's width is         *)
(* composed again from what it decomposes to.                              *)
LEMMA ComposeDecomposed ==
  ASSUME NEW t, Sound(t), NEW key \in KeysOfWidth(t.key_width)
  PROVE  /\ compose_key(t, decompose_key(t, key)) = key
         /\ decompose_key(t, key) \in
              [initial_address : 0..(t.capacity - 1),
               stored_quotient : 0..(pow2[quotient_width(t)] - 1)]
<1> DEFINE w == t.hash_width
           h == Hash(w, key)
<1>1. key \in 0..(pow2[w] - 1)
  <2>1. pow2[t.key_width] <= pow2[w] /\ pow2[t.key_width] \in Nat /\ pow2[w] \in Nat
    BY WidthsNat, PowerMonotonic, PowersAreNat
  <2>2. QED
    BY <2>1 DEF KeysOfWidth
<1>2. h \in 0..(pow2[w] - 1) /\ HashInv(w, h) = key
  BY <1>1, WidthsNat, HashAssumption
<1>3. h \in Nat /\ h < pow2[w] /\ pow2[w] \in Nat
  BY <1>2, WidthsNat, PowersAreNat
<1>4. LET dkey == decompose_hashed_value(t.capacity, h)
      IN  /\ dkey.initial_address \in 0..(t.capacity - 1)
          /\ dkey.stored_quotient \in Nat
          /\ compose_hashed_value(t.capacity, dkey.initial_address, dkey.stored_quotient) = h
  BY <1>3, WidthsNat, DecomposeIsLossless
<1>5. compose_key(t, decompose_key(t, key)) = key
  BY <1>2, <1>4 DEF compose_key, decompose_key
<1>6. decompose_hashed_value(t.capacity, h)
        = [initial_address |-> h % t.capacity, stored_quotient |-> h \div t.capacity]
  BY DEF decompose_hashed_value
<1>7. h \div t.capacity < pow2[quotient_width(t)]
  <2>1. quotient_width(t) = w - log2_upper(t.capacity) /\ quotient_width(t) \in Nat
    BY WidthsNat DEF quotient_width, Sound
  <2>2. pow2[w] = t.capacity * pow2[quotient_width(t)] /\ pow2[quotient_width(t)] \in Nat
    <3>1. log2_upper(t.capacity) + quotient_width(t) = w
      BY <2>1, WidthsNat
    <3>2. log2_upper(t.capacity) \in Nat /\ pow2[log2_upper(t.capacity)] = t.capacity
      BY WidthsNat
    <3>3. pow2[log2_upper(t.capacity) + quotient_width(t)]
            = pow2[log2_upper(t.capacity)] * pow2[quotient_width(t)]
      BY <2>1, <3>2, PowerOfSum
    <3>4. pow2[quotient_width(t)] \in Nat
      BY <2>1, PowersAreNat
    <3>5. QED
      BY <3>1, <3>2, <3>3, <3>4
  <2>3. \A a, b \in Nat, c \in Nat \ {0} : a < c * b => a \div c < b
    OBVIOUS
  <2>4. t.capacity \in Nat \ {0}
    BY WidthsNat
  <2>5. QED
    BY <2>2, <2>3, <2>4, <1>3
<1>8. decompose_key(t, key) = [initial_address |-> h % t.capacity, stored_quotient |-> h \div t.capacity]
  BY <1>6 DEF decompose_key
<1>9. (h % t.capacity) \in 0..(t.capacity - 1) /\ (h \div t.capacity) \in Nat
  BY <1>4, <1>6
<1>10. pow2[quotient_width(t)] \in Nat
  <2>1. quotient_width(t) \in Nat
    BY WidthsNat DEF quotient_width, Sound
  <2>2. QED
    BY <2>1, PowersAreNat
<1>11. (h \div t.capacity) \in 0..(pow2[quotient_width(t)] - 1)
  BY <1>7, <1>9, <1>10
<1>12. QED
  BY <1>5, <1>8, <1>9, <1>11

(* The elements of a table are what the keys it contains decompose to.     *)
LEMMA ElementsAreKeys ==
  ASSUME NEW t, Sound(t)
  PROVE  /\ ContentsOf(t) \subseteq KeysOfWidth(t.key_width)
         /\ \A dkey \in DOMAIN t.entries :
               /\ compose_key(t, dkey) \in KeysOfWidth(t.key_width)
               /\ decompose_key(t, compose_key(t, dkey)) = dkey
         /\ \A key \in KeysOfWidth(t.key_width) :
               key \in ContentsOf(t) <=> decompose_key(t, key) \in DOMAIN t.entries
<1>1. ASSUME NEW dkey \in DOMAIN t.entries
      PROVE  /\ compose_key(t, dkey) \in KeysOfWidth(t.key_width)
             /\ decompose_key(t, compose_key(t, dkey)) = dkey
  <2>1. PICK key \in KeysOfWidth(t.key_width) : dkey = decompose_key(t, key)
    BY DEF Sound
  <2>2. QED
    BY <2>1, ComposeDecomposed
<1>2. ASSUME NEW key \in KeysOfWidth(t.key_width)
      PROVE  key \in ContentsOf(t) <=> decompose_key(t, key) \in DOMAIN t.entries
  BY <1>1, ComposeDecomposed DEF ContentsOf
<1>3. QED
  BY <1>1, <1>2 DEF ContentsOf

(* A lookup finds the keys a table contains, and no others.                *)
LEMMA LookupIsMembership ==
  ASSUME NEW t, Sound(t), NEW key \in KeysOfWidth(t.key_width)
  PROVE  /\ lookup(t, key).found \in BOOLEAN
         /\ lookup(t, key).found <=> key \in ContentsOf(t)
         /\ key \in ContentsOf(t) =>
               lookup(t, key) = [found |-> TRUE, id |-> t.entries[decompose_key(t, key)]]
<1>1. key \in ContentsOf(t) <=> decompose_key(t, key) \in DOMAIN t.entries
  BY ElementsAreKeys
<1>2. CASE decompose_key(t, key) \in DOMAIN t.entries
  <2>1. lookup(t, key) = [found |-> TRUE, id |-> t.entries[decompose_key(t, key)]]
    BY <1>2 DEF lookup
  <2>2. lookup(t, key).found = TRUE
    BY <2>1
  <2>3. QED
    BY <1>1, <1>2, <2>1, <2>2
<1>3. CASE decompose_key(t, key) \notin DOMAIN t.entries
  <2>1. lookup(t, key) = [found |-> FALSE]
    BY <1>3 DEF lookup, NotFound
  <2>2. lookup(t, key).found = FALSE
    BY <2>1
  <2>3. QED
    BY <1>1, <1>3, <2>2
<1>4. QED
  BY <1>2, <1>3

-------------------------------------------------------------------------------
(* A table that loses an element, and one that gets another.               *)

(* What a table is composed of decides about its keys, what it counts does *)
(* not.                                                                    *)
LEMMA SameCoordinates ==
  ASSUME NEW t, NEW u, t.capacity = u.capacity, t.hash_width = u.hash_width
  PROVE  /\ \A key : decompose_key(t, key) = decompose_key(u, key)
         /\ \A dkey : compose_key(t, dkey) = compose_key(u, dkey)
BY DEF decompose_key, compose_key

LEMMA SameLookups ==
  ASSUME NEW t, NEW u, t.capacity = u.capacity, t.hash_width = u.hash_width,
         t.entries = u.entries
  PROVE  \A key : lookup(t, key) = lookup(u, key)
<1> SUFFICES ASSUME NEW key PROVE lookup(t, key) = lookup(u, key)
  OBVIOUS
<1>1. decompose_key(t, key) = decompose_key(u, key)
  BY SameCoordinates
<1>2. QED
  BY <1>1 DEF lookup

(* A table from which elements are taken away loses their keys only.       *)
LEMMA RestrictedIsSound ==
  ASSUME NEW t, Sound(t), NEW dkey \in DOMAIN t.entries,
         NEW u, u = [t EXCEPT !.entries = Restrict(@, DOMAIN @ \ {dkey})]
  PROVE  /\ Sound(u)
         /\ u.key_width = t.key_width /\ u.size = t.size
         /\ DOMAIN u.entries = DOMAIN t.entries \ {dkey}
         /\ ContentsOf(u) = ContentsOf(t) \ {compose_key(t, dkey)}
<1>1. u = [capacity |-> t.capacity, size |-> t.size, load_factor |-> t.load_factor,
           key_width |-> t.key_width, hash_width |-> t.hash_width,
           entries |-> Restrict(t.entries, DOMAIN t.entries \ {dkey})]
  BY DEF Sound
<1>2. /\ u.capacity = t.capacity /\ u.size = t.size /\ u.load_factor = t.load_factor
      /\ u.key_width = t.key_width /\ u.hash_width = t.hash_width
      /\ DOMAIN u.entries = DOMAIN t.entries \ {dkey}
  BY <1>1 DEF Restrict
<1>3. \A key : decompose_key(u, key) = decompose_key(t, key)
  BY <1>2, SameCoordinates
<1>4. \A d : compose_key(u, d) = compose_key(t, d)
  BY <1>2, SameCoordinates
<1>5. real_width(u) = real_width(t)
  BY <1>2 DEF real_width
<1>6. IsFiniteSet(DOMAIN u.entries)
  BY <1>2, FS_Subset DEF Sound
<1>7. Sound(u)
  <2>1. u = [capacity |-> u.capacity, size |-> u.size, load_factor |-> u.load_factor,
             key_width |-> u.key_width, hash_width |-> u.hash_width, entries |-> u.entries]
    BY <1>1
  <2>2. QED
    BY <2>1, <1>2, <1>3, <1>5, <1>6 DEF Sound
<1>8. ContentsOf(u) = ContentsOf(t) \ {compose_key(t, dkey)}
  <2>1. ContentsOf(u) = {compose_key(t, d) : d \in DOMAIN t.entries \ {dkey}}
    BY <1>2, <1>4 DEF ContentsOf
  <2>2. \A d \in DOMAIN t.entries : compose_key(t, d) = compose_key(t, dkey) => d = dkey
    BY ElementsAreKeys
  <2>3. QED
    BY <2>1, <2>2 DEF ContentsOf
<1>9. QED
  BY <1>2, <1>7, <1>8

(* A table that an insertion finds without the key.                        *)
LEMMA InsertedAsRecord ==
  ASSUME NEW t, Sound(t), NEW key \in KeysOfWidth(t.key_width), NEW id
  PROVE  /\ key \in ContentsOf(t) => Inserted(t, key, id) = t
         /\ key \notin ContentsOf(t) =>
               Inserted(t, key, id) =
                 [capacity |-> t.capacity, size |-> t.size + 1,
                  load_factor |-> t.load_factor, key_width |-> t.key_width,
                  hash_width |-> t.hash_width,
                  entries |-> Put(t.entries, decompose_key(t, key), id)]
<1>1. key \in ContentsOf(t) <=> lookup(t, key).found
  BY LookupIsMembership
<1>2. CASE key \in ContentsOf(t)
  BY <1>1, <1>2 DEF Inserted
<1>3. CASE key \notin ContentsOf(t)
  <2>1. Inserted(t, key, id) =
          [t EXCEPT !.entries = Put(@, decompose_key(t, key), id), !.size = @ + 1]
    BY <1>1, <1>3 DEF Inserted
  <2>2. QED
    BY <1>3, <2>1 DEF Sound
<1>4. QED
  BY <1>2, <1>3

(* lookup_insert in a table that has room: the key is in the table after   *)
(* it, as the only new one, and it was counted if it is new.               *)
LEMMA InsertedIsSound ==
  ASSUME NEW t, Sound(t), Counts(t), t.size + 1 < t.capacity,
         NEW key \in KeysOfWidth(t.key_width), NEW id,
         NEW u, u = Inserted(t, key, id)
  PROVE  /\ Sound(u) /\ Counts(u)
         /\ u.capacity = t.capacity /\ u.key_width = t.key_width
         /\ u.hash_width = t.hash_width /\ u.load_factor = t.load_factor
         /\ key \notin ContentsOf(t) => u.size = t.size + 1
         /\ ContentsOf(u) = ContentsOf(t) \cup {key}
<1>1. CASE key \in ContentsOf(t)
  BY <1>1, InsertedAsRecord
<1>2. CASE key \notin ContentsOf(t)
  <2> DEFINE dkey == decompose_key(t, key)
  <2>1. u = [capacity |-> t.capacity, size |-> t.size + 1,
             load_factor |-> t.load_factor, key_width |-> t.key_width,
             hash_width |-> t.hash_width, entries |-> Put(t.entries, dkey, id)]
    BY <1>2, InsertedAsRecord
  <2>2. /\ u.capacity = t.capacity /\ u.size = t.size + 1 /\ u.load_factor = t.load_factor
        /\ u.key_width = t.key_width /\ u.hash_width = t.hash_width
        /\ u.entries = Put(t.entries, dkey, id)
    BY <2>1
  <2>3. DOMAIN u.entries = {dkey} \cup DOMAIN t.entries
    BY <2>2 DEF Put
  <2>4. \A k : decompose_key(u, k) = decompose_key(t, k)
    BY <2>2, SameCoordinates
  <2>5. \A d : compose_key(u, d) = compose_key(t, d)
    BY <2>2, SameCoordinates
  <2>6. real_width(u) = real_width(t)
    BY <2>2 DEF real_width
  <2>7. dkey \notin DOMAIN t.entries
    BY <1>2, ElementsAreKeys
  <2>8. IsFiniteSet(DOMAIN u.entries) /\ Cardinality(DOMAIN u.entries) = u.size
    <3>1. IsFiniteSet(DOMAIN t.entries) /\ Cardinality(DOMAIN t.entries) = t.size
      BY DEF Sound, Counts
    <3>2. DOMAIN u.entries = DOMAIN t.entries \cup {dkey}
      BY <2>3
    <3>3. QED
      BY <3>1, <3>2, <2>2, <2>7, FS_AddElement
  <2>9. Sound(u)
    <3>1. u = [capacity |-> u.capacity, size |-> u.size, load_factor |-> u.load_factor,
               key_width |-> u.key_width, hash_width |-> u.hash_width, entries |-> u.entries]
      BY <2>1
    <3>2. u.size \in 0..(u.capacity - 1)
      BY <2>2, WidthsNat
    <3>3. \A d \in DOMAIN u.entries :
             \E k \in KeysOfWidth(u.key_width) : d = decompose_key(u, k)
      BY <2>2, <2>3, <2>4 DEF Sound
    <3>4. QED
      BY <3>1, <3>2, <3>3, <2>2, <2>6, <2>8 DEF Sound
  <2>10. ContentsOf(u) = ContentsOf(t) \cup {key}
    <3>1. compose_key(t, dkey) = key
      BY ComposeDecomposed
    <3>2. ContentsOf(u) = {compose_key(t, d) : d \in {dkey} \cup DOMAIN t.entries}
      BY <2>3, <2>5 DEF ContentsOf
    <3>3. QED
      BY <3>1, <3>2 DEF ContentsOf
  <2>11. QED
    BY <2>2, <2>8, <2>9, <2>10 DEF Counts
<1>3. QED
  BY <1>1, <1>2

(* The user's ids stay the table's when he takes note of the returned one. *)
LEMMA InsertedIsMirrored ==
  ASSUME NEW t, Sound(t), Counts(t), t.size + 1 < t.capacity,
         NEW key \in KeysOfWidth(t.key_width), NEW id \in IdsFor(t, key),
         NEW m, Mirrors(m, t)
  PROVE  Mirrors(Put(m, key, id), Inserted(t, key, id))
<1> DEFINE u == Inserted(t, key, id)
           mm == Put(m, key, id)
<1>1. /\ Sound(u) /\ u.capacity = t.capacity /\ u.key_width = t.key_width
      /\ u.hash_width = t.hash_width /\ ContentsOf(u) = ContentsOf(t) \cup {key}
  BY InsertedIsSound
<1>2. /\ DOMAIN mm = {key} \cup DOMAIN m
      /\ mm[key] = id
      /\ \A k \in DOMAIN m : k # key => mm[k] = m[k]
  BY DEF Put
<1>3. DOMAIN mm = ContentsOf(u)
  BY <1>1, <1>2 DEF Mirrors
<1> HIDE DEF mm
<1>4. ContentsOf(u) \subseteq KeysOfWidth(t.key_width)
  BY <1>1, ElementsAreKeys
<1>5. \A k : decompose_key(u, k) = decompose_key(t, k)
  BY <1>1, SameCoordinates
<1>6. CASE key \in ContentsOf(t)
  <2>1. u = t
    BY <1>6, InsertedAsRecord
  <2>2. lookup(t, key).found
    BY <1>6, LookupIsMembership
  <2>3. id = lookup(t, key).id
    BY <2>2 DEF IdsFor
  <2>4. lookup(t, key) = [found |-> TRUE, id |-> m[key]]
    BY <1>6 DEF Mirrors
  <2>5. id = m[key]
    BY <2>3, <2>4
  <2>6. \A k \in DOMAIN mm : k \in DOMAIN m /\ mm[k] = m[k]
    BY <2>5, <1>2, <1>6 DEF Mirrors
  <2>7. QED
    BY <2>1, <2>6, <1>3 DEF Mirrors, mm
<1>7. CASE key \notin ContentsOf(t)
  <2>1. u.entries = Put(t.entries, decompose_key(t, key), id)
    BY <1>7, InsertedAsRecord
  <2>2. ASSUME NEW k \in DOMAIN mm
        PROVE  lookup(u, k) = [found |-> TRUE, id |-> mm[k]]
    <3>1. k \in KeysOfWidth(u.key_width) /\ k \in ContentsOf(u)
      BY <2>2, <1>1, <1>3, <1>4
    <3>2. lookup(u, k) = [found |-> TRUE, id |-> u.entries[decompose_key(t, k)]]
      BY <3>1, <1>1, <1>5, LookupIsMembership
    <3>3. CASE k = key
      <4>1. u.entries[decompose_key(t, key)] = id
        BY <2>1 DEF Put
      <4>2. QED
        BY <3>2, <3>3, <4>1, <1>2
    <3>4. CASE k # key
      <4>1. k \in DOMAIN m /\ k \in ContentsOf(t) /\ k \in KeysOfWidth(t.key_width)
        BY <2>2, <3>1, <3>4, <1>1, <1>2 DEF Mirrors
      <4>2. lookup(t, k) = [found |-> TRUE, id |-> m[k]]
        BY <4>1 DEF Mirrors
      <4>3. lookup(t, k) = [found |-> TRUE, id |-> t.entries[decompose_key(t, k)]]
        BY <4>1, LookupIsMembership
      <4>4. t.entries[decompose_key(t, k)] = m[k]
        BY <4>2, <4>3
      <4>5. decompose_key(t, k) \in DOMAIN t.entries
            /\ decompose_key(t, key) \notin DOMAIN t.entries
        BY <4>1, <1>7, ElementsAreKeys
      <4>6. u.entries[decompose_key(t, k)] = t.entries[decompose_key(t, k)]
        BY <4>5, <2>1 DEF Put
      <4>7. QED
        BY <3>2, <4>1, <4>4, <4>6, <3>4, <1>2
    <3>5. QED
      BY <3>3, <3>4
  <2>3. QED
    BY <2>2, <1>3 DEF Mirrors, mm
<1>8. QED
  BY <1>6, <1>7

(* A table that the constructor returns has no keys.                       *)
LEMMA ConstructedIsSound ==
  ASSUME NEW size \in Nat, is_pot(adjust_size(size)), adjust_size(size) <= MaxCapacity,
         NEW key_width \in 1..MaxKeyWidth, NEW lf \in LoadFactors,
         NEW t, t = Constructed(size, key_width, lf)
  PROVE  /\ Sound(t) /\ Counts(t)
         /\ t.capacity = adjust_size(size) /\ t.size = 0
         /\ t.key_width = key_width /\ t.load_factor = lf
         /\ ContentsOf(t) = {}
         /\ Mirrors(NoCallbacksYet, t)
<1> DEFINE t0 == [capacity |-> adjust_size(size), size |-> 0, load_factor |-> lf,
                  key_width |-> key_width, hash_width |-> 0, entries |-> << >>]
<1>1. t = [t0 EXCEPT !.hash_width = real_width(t0)]
  BY DEF Constructed
<1>2. t = [capacity |-> adjust_size(size), size |-> 0, load_factor |-> lf,
           key_width |-> key_width, hash_width |-> real_width(t0), entries |-> << >>]
  BY <1>1
<1>3. /\ t.capacity = adjust_size(size) /\ t.size = 0 /\ t.load_factor = lf
      /\ t.key_width = key_width /\ t.hash_width = real_width(t0)
      /\ DOMAIN t.entries = {}
  BY <1>2
<1>4. real_width(t) = real_width(t0)
  BY <1>3 DEF real_width
<1>5. adjust_size(size) \in Nat /\ adjust_size(size) >= 2 /\ MaxCapacity \in Nat
  BY CapacityFromLog2, BoundsAssumption DEF adjust_size
<1>6. Sound(t)
  <2>1. t = [capacity |-> t.capacity, size |-> t.size, load_factor |-> t.load_factor,
             key_width |-> t.key_width, hash_width |-> t.hash_width, entries |-> t.entries]
    BY <1>2
  <2>2. t.capacity \in 2..MaxCapacity /\ t.size \in 0..(t.capacity - 1)
    BY <1>3, <1>5
  <2>3. QED
    BY <2>1, <2>2, <1>3, <1>4, FS_EmptySet DEF Sound
<1>7. Counts(t)
  BY <1>3, FS_EmptySet DEF Counts
<1>8. ContentsOf(t) = {}
  BY <1>3 DEF ContentsOf
<1>9. Mirrors(NoCallbacksYet, t)
  BY <1>8 DEF Mirrors, NoCallbacksYet
<1>10. QED
  BY <1>3, <1>6, <1>7, <1>8, <1>9

(* A table read from the stream it was written to is the table written.    *)
LEMMA ReadsWhatWasWritten ==
  ASSUME NEW t, Sound(t)
  PROVE  read(written(t)) = t
<1> DEFINE in == written(t)
           rest == << Item(uint8, t.key_width), Item(<<"hash_t">>, t.hash_width),
                      Item(EntriesType(t), t.entries) >>
           ret == read_members(in)
<1>1. in = write_sizing(t) \o rest
  BY DEF written
<1>2. /\ DOMAIN in = 1..6
      /\ \A k \in 1..3 : in[k] = write_sizing(t)[k]
      /\ in[4] = Item(uint8, t.key_width)
      /\ in[5] = Item(<<"hash_t">>, t.hash_width)
      /\ in[6] = Item(EntriesType(t), t.entries)
  BY <1>1 DEF write_sizing
<1> HIDE DEF in
<1>3. /\ 1..3 \subseteq DOMAIN in /\ 4 \in DOMAIN in /\ 5 \in DOMAIN in /\ 6 \in DOMAIN in
  BY <1>2
<1>4. is_pot(t.capacity)
  BY DEF Sound
<1>5. read_sizing(in) = [capacity |-> t.capacity, size |-> t.size,
                         load_factor |-> t.load_factor]
  BY <1>2, <1>3, <1>4, SizingReadsBack
<1>6. ReadItem(in, 4, uint8) = t.key_width
  BY <1>2, <1>3, ReadsItem
<1>7. ReadItem(in, 5, <<"hash_t">>) = t.hash_width
  BY <1>2, <1>3, ReadsItem
<1>8. ret = [capacity |-> t.capacity, size |-> t.size, load_factor |-> t.load_factor,
             key_width |-> t.key_width, hash_width |-> t.hash_width, entries |-> << >>]
  BY <1>5, <1>6, <1>7 DEF read_members
<1> HIDE DEF ret
<1>9. EntriesType(ret) = EntriesType(t)
  <2>1. ret.capacity = t.capacity /\ ret.key_width = t.key_width
    BY <1>8
  <2>2. QED
    BY <2>1 DEF EntriesType, quotient_width, real_width
<1>10. ReadItem(in, 6, EntriesType(ret)) = t.entries
  BY <1>2, <1>3, <1>9, ReadsItem
<1>11. read(in) = [ret EXCEPT !.entries = t.entries]
  BY <1>10 DEF read, ret
<1>12. QED
  BY <1>8, <1>11 DEF Sound, in

-------------------------------------------------------------------------------
(* Room, and the ends of an insertion and of a rebuild's start.            *)

LEMMA RoomLeft ==
  ASSUME NEW t, Sound(t), NEW n \in Nat,
         ~needs_to_grow_capacity(t.load_factor, t.capacity, n)
  PROVE  n < t.capacity
BY WidthsNat, NoGrowthLeavesRoom

LEMMA KeysFit == \A width \in 1..MaxKeyWidth : KeysOfWidth(width) \subseteq Keys
<1> SUFFICES ASSUME NEW width \in 1..MaxKeyWidth PROVE KeysOfWidth(width) \subseteq Keys
  OBVIOUS
<1>1. width \in Nat /\ MaxKeyWidth \in Nat /\ width <= MaxKeyWidth
  BY BoundsAssumption
<1>2. pow2[width] <= pow2[MaxKeyWidth] /\ pow2[width] \in Nat /\ pow2[MaxKeyWidth] \in Nat
  BY <1>1, PowerMonotonic, PowersAreNat
<1>3. QED
  BY <1>2 DEF KeysOfWidth, Keys

LEMMA CallsAreNotIdle == \A c \in Calls : c # Idle
BY DEF Calls, Idle

(* A step that leaves the set as it is, and one that adds a key.           *)
SameSet == Contents' = Contents /\ reply' = reply

Adds(key) ==
    /\ Contents' = Contents \cup {key}
    /\ \E id : reply' = CallReply(key, id, lookup(Current, key).found)
    /\ lookup(Current, key).found \in BOOLEAN
    /\ lookup(Current, key).found <=> key \in Contents

LEMMA InsertsInto ==
  ASSUME NEW t, Sound(t), Counts(t), Mirrors(mirror, t), t.size + 1 < t.capacity,
         NEW key \in KeysOfWidth(t.key_width), InsertInto(t, key)
  PROVE  /\ Sound(table') /\ Counts(table') /\ Mirrors(mirror', table')
         /\ ContentsOf(table') = ContentsOf(t) \cup {key}
         /\ \E id : reply' = CallReply(key, id, lookup(t, key).found)
<1>1. PICK id \in IdsFor(t, key) : /\ table' = Inserted(t, key, id)
                                   /\ mirror' = Put(mirror, key, id)
                                   /\ reply' = CallReply(key, id, lookup(t, key).found)
  BY DEF InsertInto
<1>2. Sound(table') /\ Counts(table') /\ ContentsOf(table') = ContentsOf(t) \cup {key}
  BY <1>1, InsertedIsSound
<1>3. Mirrors(mirror', table')
  BY <1>1, InsertedIsMirrored
<1>4. QED
  BY <1>1, <1>2, <1>3

(* What is still to be inserted when a rebuild starts.                     *)
Pending(c) == IF c.op = "lookup_insert" THEN 1 ELSE 0

LEMMA StartKeepsInv ==
  ASSUME IInv, call = Idle,
         NEW pending \in Calls, NEW key_width \in 1..MaxKeyWidth,
         table.key_width <= key_width,
         pending.op = "lookup_insert" => pending.key \in KeysOfWidth(key_width),
         NEW size \in Nat, is_pot(adjust_size(size)), adjust_size(size) <= MaxCapacity,
         NEW lf \in LoadFactors,
         ~needs_to_grow_capacity(lf, adjust_size(size), table.size + Pending(pending)),
         new_table' = Constructed(size, key_width, lf),
         call' = pending, mirror' = NoCallbacksYet, UNCHANGED <<table, reply>>
  PROVE  IInv' /\ SameSet
<1>1. Sound(table) /\ Counts(table)
  BY DEF IInv
<1>2. /\ Sound(new_table') /\ Counts(new_table')
      /\ new_table'.capacity = adjust_size(size) /\ new_table'.size = 0
      /\ new_table'.key_width = key_width /\ new_table'.load_factor = lf
      /\ ContentsOf(new_table') = {} /\ Mirrors(mirror', new_table')
  BY ConstructedIsSound
<1>3. call' # Idle
  BY CallsAreNotIdle
<1>4. RebuildInv'
  BY <1>2, <1>1 DEF RebuildInv
<1>5. FitsWithoutGrowing'
  <2>1. table.size = Cardinality(DOMAIN table'.entries) /\ table.size \in Nat
    BY <1>1, WidthsNat DEF Counts
  <2>2. new_table'.size + Cardinality(DOMAIN table'.entries) + Pending(call')
          = table.size + Pending(pending)
    BY <1>2, <2>1 DEF Pending
  <2>3. QED
    BY <1>2, <2>2 DEF FitsWithoutGrowing, Pending
<1>6. IInv'
  BY <1>1, <1>3, <1>4, <1>5 DEF IInv
<1>7. SameSet
  BY <1>2, <1>3 DEF SameSet, Contents
<1>8. QED
  BY <1>6, <1>7

LEMMA StartRebuildKeepsInv ==
  ASSUME IInv, call = Idle,
         NEW pending \in Calls, NEW key_width \in 1..MaxKeyWidth,
         table.key_width <= key_width,
         pending.op = "lookup_insert" => pending.key \in KeysOfWidth(key_width),
         StartRebuild(pending, table.size + Pending(pending), key_width)
  PROVE  IInv' /\ SameSet
<1> DEFINE new_size == table.size + Pending(pending)
           grown == grown_capacity(table.load_factor, table.capacity, new_size)
<1>1. Sound(table)
  BY DEF IInv
<1>2. new_size \in Nat
  BY <1>1, WidthsNat DEF Pending
<1>3. /\ is_pot(grown) /\ table.capacity <= grown
      /\ ~needs_to_grow_capacity(table.load_factor, grown, new_size)
  <2>1. is_pot(table.capacity)
    BY <1>1 DEF Sound
  <2>2. table.load_factor.num \in Nat \ {0} /\ table.load_factor.den \in Nat \ {0}
    BY <1>1, WidthsNat
  <2> HIDE DEF new_size
  <2>3. QED
    BY <2>1, <2>2, <1>2, GrownCapacitySuffices
<1>4. grown \in Nat /\ grown >= 2
  BY <1>1, <1>3, CapacityFromLog2, WidthsNat DEF Sound
<1>5. adjust_size(grown) = grown
  BY <1>4 DEF adjust_size
<1>6. /\ grown <= MaxCapacity
      /\ new_table' = Constructed(grown, key_width, table.load_factor)
      /\ call' = pending /\ mirror' = NoCallbacksYet /\ UNCHANGED <<table, reply>>
  BY DEF StartRebuild, GrownCapacity
<1>7. table.load_factor \in LoadFactors
  BY <1>1 DEF Sound
<1> HIDE DEF grown
<1>8. QED
  BY <1>3, <1>4, <1>5, <1>6, <1>7, StartKeepsInv

-------------------------------------------------------------------------------
(* The steps.                                                              *)

LEMMA InitHasInv == Init => IInv /\ Contents = {} /\ reply = NoReply
<1> SUFFICES ASSUME Init PROVE IInv /\ Contents = {} /\ reply = NoReply
  OBVIOUS
<1>1. PICK size \in InitialSizes, key_width \in InitialKeyWidths, lf \in LoadFactors :
         table = Constructed(size, key_width, lf)
  BY DEF Init
<1>2. size \in Nat /\ is_pot(adjust_size(size)) /\ adjust_size(size) <= MaxCapacity
  BY InitialSizesAssumption
<1>3. key_width \in 1..MaxKeyWidth
  BY InitialKeyWidthsAssumption
<1>4. /\ Sound(table) /\ Counts(table)
      /\ ContentsOf(table) = {} /\ Mirrors(NoCallbacksYet, table)
  BY <1>1, <1>2, <1>3, ConstructedIsSound
<1>5. /\ new_table = NoTable /\ call = Idle /\ mirror = NoCallbacksYet /\ reply = NoReply
  BY DEF Init
<1>6. QED
  BY <1>4, <1>5 DEF IInv, FitsWithoutGrowing, Contents

LEMMA LookupInsertKeepsInv ==
  ASSUME IInv, NEW key \in Keys, NEW width \in 1..MaxKeyWidth,
         lookup_insert_key_width(key, width)
  PROVE  IInv' /\ (SameSet \/ Adds(key))
<1> DEFINE raw_key_width == Max2(width, table.key_width)
           pending == [op |-> "lookup_insert", key |-> key]
<1>1. /\ call = Idle /\ key < pow2[raw_key_width]
      /\ \/ StartRebuild(pending, table.size + 1, raw_key_width)
         \/ /\ ~needs_to_realloc(table, table.size + 1, raw_key_width)
            /\ InsertInto(table, key)
            /\ UNCHANGED <<new_table, call>>
  BY DEF lookup_insert_key_width
<1>2. /\ Sound(table) /\ Counts(table) /\ Mirrors(mirror, table)
      /\ table.key_width \in 1..MaxKeyWidth
  BY <1>1 DEF IInv, Sound
<1>3. raw_key_width \in 1..MaxKeyWidth /\ table.key_width <= raw_key_width
  BY <1>2, BoundsAssumption DEF Max2
<1>4. key \in KeysOfWidth(raw_key_width)
  <2>1. pow2[raw_key_width] \in Nat /\ pow2[MaxKeyWidth] \in Nat
    BY <1>3, BoundsAssumption, PowersAreNat
  <2>2. QED
    BY <1>1, <2>1 DEF KeysOfWidth, Keys
<1>5. CASE StartRebuild(pending, table.size + 1, raw_key_width)
  <2>1. pending \in Calls /\ Pending(pending) = 1 /\ pending.key = key
    BY DEF Calls, Pending
  <2> HIDE DEF pending, raw_key_width
  <2>2. QED
    BY <1>1, <1>3, <1>4, <1>5, <2>1, StartRebuildKeepsInv
<1>6. CASE /\ ~needs_to_realloc(table, table.size + 1, raw_key_width)
           /\ InsertInto(table, key)
           /\ UNCHANGED <<new_table, call>>
  <2>1. /\ raw_key_width = table.key_width
        /\ ~needs_to_grow_capacity(table.load_factor, table.capacity, table.size + 1)
    BY <1>6 DEF needs_to_realloc
  <2>2. table.size + 1 < table.capacity
    BY <1>2, <2>1, RoomLeft, WidthsNat
  <2>3. key \in KeysOfWidth(table.key_width)
    BY <1>4, <2>1
  <2>4. /\ Sound(table') /\ Counts(table') /\ Mirrors(mirror', table')
        /\ ContentsOf(table') = ContentsOf(table) \cup {key}
        /\ \E id : reply' = CallReply(key, id, lookup(table, key).found)
    BY <1>2, <1>6, <2>2, <2>3, InsertsInto
  <2>5. call' = Idle /\ new_table' = NoTable
    BY <1>1, <1>6 DEF IInv
  <2>6. IInv'
    BY <2>4, <2>5 DEF IInv, FitsWithoutGrowing
  <2>7. Adds(key)
    <3>1. Contents = ContentsOf(table) /\ Current = table /\ Contents' = ContentsOf(table')
      BY <1>1, <2>5 DEF Contents, Current
    <3>2. lookup(table, key).found \in BOOLEAN
      BY <1>2, <2>3, LookupIsMembership
    <3>3. lookup(table, key).found <=> key \in ContentsOf(table)
      BY <1>2, <2>3, LookupIsMembership
    <3>4. QED
      BY <2>4, <3>1, <3>2, <3>3 DEF Adds
  <2>8. QED
    BY <2>6, <2>7
<1>7. QED
  BY <1>1, <1>5, <1>6

LEMMA GrowKeyWidthKeepsInv ==
  ASSUME IInv, NEW width \in 1..MaxKeyWidth, grow_key_width(width)
  PROVE  IInv' /\ SameSet
<1> DEFINE key_width == Max2(width, table.key_width)
           pending == [op |-> "grow_key_width"]
<1>1. call = Idle /\ StartRebuild(pending, table.size, key_width)
  BY DEF grow_key_width
<1>2. table.key_width \in 1..MaxKeyWidth /\ table.size \in Nat
  BY WidthsNat DEF IInv, Sound
<1>3. key_width \in 1..MaxKeyWidth /\ table.key_width <= key_width
  BY <1>2, BoundsAssumption DEF Max2
<1>4. pending \in Calls /\ pending.op # "lookup_insert"
      /\ table.size + Pending(pending) = table.size
  BY <1>2 DEF Calls, Pending
<1> HIDE DEF pending, key_width
<1>5. QED
  BY <1>1, <1>3, <1>4, StartRebuildKeepsInv

LEMMA MoveIntoKeepsInv ==
  ASSUME IInv, NEW size \in InitialSizes, NEW key_width \in 1..MaxKeyWidth,
         NEW lf \in LoadFactors, move_into(size, key_width, lf)
  PROVE  IInv' /\ SameSet
<1> DEFINE other == Constructed(size, key_width, lf)
           pending == [op |-> "move_into"]
<1>1. /\ call = Idle /\ key_width >= table.key_width
      /\ ~needs_to_realloc(other, table.size, key_width)
      /\ new_table' = other /\ call' = pending /\ mirror' = NoCallbacksYet
      /\ UNCHANGED <<table, reply>>
  BY DEF move_into
<1>2. size \in Nat /\ is_pot(adjust_size(size)) /\ adjust_size(size) <= MaxCapacity
  BY InitialSizesAssumption
<1>3. table.key_width \in 1..MaxKeyWidth /\ table.size \in Nat
  BY WidthsNat DEF IInv, Sound
<1>4. pending \in Calls /\ pending.op # "lookup_insert"
      /\ table.size + Pending(pending) = table.size
  BY <1>3 DEF Calls, Pending
<1>5. other.capacity = adjust_size(size) /\ other.load_factor = lf
  BY <1>2, ConstructedIsSound
<1>6. ~needs_to_grow_capacity(lf, adjust_size(size), table.size)
  BY <1>1, <1>5 DEF needs_to_realloc
<1>7. table.key_width <= key_width
  BY <1>1, <1>3, BoundsAssumption
<1> HIDE DEF pending, other
<1>8. new_table' = Constructed(size, key_width, lf)
  BY <1>1 DEF other
<1>9. QED
  BY <1>1, <1>2, <1>4, <1>6, <1>7, <1>8, StartKeepsInv

(* Neither the elements nor their count depend on the load factor.         *)
LEMMA MaxLoadFactorKeepsInv ==
  ASSUME IInv, NEW lf \in LoadFactors, max_load_factor(lf)
  PROVE  IInv' /\ SameSet
<1>1. /\ call = Idle /\ call' = Idle /\ table' = [table EXCEPT !.load_factor = lf]
      /\ new_table' = NoTable /\ mirror' = mirror /\ reply' = reply
  BY DEF max_load_factor, IInv
<1>2. Sound(table) /\ Counts(table) /\ Mirrors(mirror, table)
  BY <1>1 DEF IInv
<1>3. table' = [capacity |-> table.capacity, size |-> table.size, load_factor |-> lf,
                key_width |-> table.key_width, hash_width |-> table.hash_width,
                entries |-> table.entries]
  BY <1>1, <1>2 DEF Sound
<1>4. /\ table'.capacity = table.capacity /\ table'.size = table.size
      /\ table'.load_factor = lf /\ table'.key_width = table.key_width
      /\ table'.hash_width = table.hash_width /\ table'.entries = table.entries
  BY <1>3
<1>5. \A key : decompose_key(table', key) = decompose_key(table, key)
  BY <1>4, SameCoordinates
<1>6. \A dkey : compose_key(table', dkey) = compose_key(table, dkey)
  BY <1>4, SameCoordinates
<1>7. real_width(table') = real_width(table)
  BY <1>4 DEF real_width
<1>8. Sound(table')
  <2>1. table' = [capacity |-> table'.capacity, size |-> table'.size,
                  load_factor |-> table'.load_factor, key_width |-> table'.key_width,
                  hash_width |-> table'.hash_width, entries |-> table'.entries]
    BY <1>3
  <2>2. QED
    BY <2>1, <1>2, <1>4, <1>5, <1>7 DEF Sound
<1>9. ContentsOf(table') = ContentsOf(table)
  BY <1>4, <1>6 DEF ContentsOf
<1>10. Mirrors(mirror, table')
  <2>1. \A key : lookup(table', key) = lookup(table, key)
    BY <1>4, SameLookups
  <2>2. DOMAIN mirror = ContentsOf(table')
    BY <1>2, <1>9 DEF Mirrors
  <2>3. \A key \in DOMAIN mirror : lookup(table, key) = [found |-> TRUE, id |-> mirror[key]]
    BY <1>2 DEF Mirrors
  <2>4. QED
    BY <2>1, <2>2, <2>3 DEF Mirrors
<1>11. Counts(table')
  BY <1>2, <1>4 DEF Counts
<1>12. IInv'
  BY <1>1, <1>8, <1>10, <1>11 DEF IInv, FitsWithoutGrowing
<1>13. SameSet
  BY <1>1, <1>9 DEF SameSet, Contents
<1>14. QED
  BY <1>12, <1>13

(* serialize<hashset_t>: the stream gives back the table, in all members.  *)
LEMMA ReadBackKeepsInv ==
  ASSUME IInv, ReadBack
  PROVE  IInv' /\ table' = table /\ Contents' = Contents /\ reply' = NoReply
<1>1. table' = table
  BY ReadsWhatWasWritten DEF ReadBack, IInv
<1>2. UNCHANGED <<new_table, call, mirror>> /\ reply' = NoReply
  BY DEF ReadBack
<1>3. QED
  BY <1>1, <1>2 DEF IInv, RebuildInv, FitsWithoutGrowing, Contents

(* MoveElement's guard never bites: a rebuild never has to grow the table  *)
(* it fills.                                                               *)
LEMMA RoomForTheNext ==
  ASSUME IInv, call # Idle, NEW dkey \in DOMAIN table.entries
  PROVE  /\ ~needs_to_realloc(new_table, new_table.size + 1, new_table.key_width)
         /\ new_table.size + 1 < new_table.capacity
<1> DEFINE left == Cardinality(DOMAIN table.entries)
           all  == new_table.size + left + Pending(call)
<1>1. Sound(table) /\ Sound(new_table)
  BY DEF IInv, RebuildInv
<1>2. left \in Nat /\ left # 0
  BY <1>1, FS_CardinalityType, FS_EmptySet DEF Sound
<1>3. new_table.size \in Nat /\ Pending(call) \in Nat
  BY <1>1, WidthsNat DEF Pending
<1>4. ~needs_to_grow_capacity(new_table.load_factor, new_table.capacity, all)
  BY DEF IInv, FitsWithoutGrowing, Pending
<1>5. new_table.size + 1 \in Nat /\ all \in Nat /\ new_table.size + 1 <= all
  BY <1>2, <1>3
<1> HIDE DEF all, left
<1>6. ~needs_to_grow_capacity(new_table.load_factor, new_table.capacity, new_table.size + 1)
  BY <1>1, <1>4, <1>5, WidthsNat, FewerNeedNotGrow
<1>7. QED
  BY <1>1, <1>5, <1>6, RoomLeft DEF needs_to_realloc

LEMMA MoveElementKeepsInv ==
  ASSUME IInv, NEW dkey \in DOMAIN table.entries, MoveElement(dkey)
  PROVE  IInv' /\ SameSet
<1> DEFINE key == compose_key(table, dkey)
<1>1. PICK id \in IdsFor(new_table, key) :
         /\ call # Idle
         /\ table' = [table EXCEPT !.entries = Restrict(@, DOMAIN @ \ {dkey})]
         /\ new_table' = Inserted(new_table, key, id)
         /\ mirror' = Put(mirror, key, id)
         /\ UNCHANGED <<call, reply>>
  BY DEF MoveElement
<1>2. /\ Sound(table) /\ Sound(new_table) /\ Counts(new_table)
      /\ call \in Calls
      /\ call.op = "lookup_insert" => call.key \in KeysOfWidth(new_table.key_width)
      /\ table.key_width <= new_table.key_width
      /\ ContentsOf(table) \cap ContentsOf(new_table) = {}
      /\ Mirrors(mirror, new_table)
  BY <1>1 DEF IInv, RebuildInv
<1>3. /\ Sound(table')
      /\ table'.key_width = table.key_width /\ table'.size = table.size
      /\ DOMAIN table'.entries = DOMAIN table.entries \ {dkey}
      /\ ContentsOf(table') = ContentsOf(table) \ {key}
  BY <1>1, <1>2, RestrictedIsSound
<1>4. key \in ContentsOf(table) /\ key \notin ContentsOf(new_table)
  BY <1>2 DEF ContentsOf
<1>5. key \in KeysOfWidth(new_table.key_width)
  <2>1. key \in KeysOfWidth(table.key_width)
    BY <1>2, ElementsAreKeys
  <2>2. /\ pow2[table.key_width] <= pow2[new_table.key_width]
        /\ pow2[table.key_width] \in Nat /\ pow2[new_table.key_width] \in Nat
    BY <1>2, WidthsNat, PowerMonotonic, PowersAreNat
  <2>3. QED
    BY <2>1, <2>2 DEF KeysOfWidth
<1> HIDE DEF key
<1>6. new_table.size + 1 < new_table.capacity
  BY <1>1, RoomForTheNext
<1>7. /\ Sound(new_table') /\ Counts(new_table')
      /\ new_table'.capacity = new_table.capacity
      /\ new_table'.key_width = new_table.key_width
      /\ new_table'.load_factor = new_table.load_factor
      /\ new_table'.size = new_table.size + 1
      /\ ContentsOf(new_table') = ContentsOf(new_table) \cup {key}
  BY <1>1, <1>2, <1>4, <1>5, <1>6, InsertedIsSound
<1>8. Mirrors(mirror', new_table')
  BY <1>1, <1>2, <1>5, <1>6, InsertedIsMirrored
<1>9. RebuildInv'
  BY <1>1, <1>2, <1>3, <1>7, <1>8 DEF RebuildInv
<1>10. FitsWithoutGrowing'
  <2>1. IsFiniteSet(DOMAIN table.entries)
    BY <1>2 DEF Sound
  <2>2. /\ Cardinality(DOMAIN table'.entries) = Cardinality(DOMAIN table.entries) - 1
        /\ Cardinality(DOMAIN table.entries) \in Nat
    BY <1>3, <2>1, FS_RemoveElement, FS_CardinalityType
  <2>3. new_table'.size + Cardinality(DOMAIN table'.entries) + Pending(call')
          = new_table.size + Cardinality(DOMAIN table.entries) + Pending(call)
    BY <1>1, <1>2, <1>7, <2>2, WidthsNat DEF Pending
  <2>4. QED
    BY <1>1, <1>7, <2>3 DEF IInv, FitsWithoutGrowing, Pending
<1>11. IInv'
  BY <1>1, <1>3, <1>9, <1>10 DEF IInv
<1>12. SameSet
  BY <1>1, <1>3, <1>4, <1>7 DEF SameSet, Contents
<1>13. QED
  BY <1>11, <1>12

LEMMA FinishRebuildKeepsInv ==
  ASSUME IInv, FinishRebuild
  PROVE  IInv' /\ (SameSet \/ \E key \in Keys : Adds(key))
<1>1. /\ call # Idle /\ DOMAIN table.entries = {} /\ new_table' = NoTable /\ call' = Idle
  BY DEF FinishRebuild
<1>2. /\ Sound(new_table) /\ Counts(new_table) /\ Mirrors(mirror, new_table)
      /\ call \in Calls
      /\ call.op = "lookup_insert" => call.key \in KeysOfWidth(new_table.key_width)
      /\ new_table.key_width \in 1..MaxKeyWidth
  BY <1>1 DEF IInv, RebuildInv, Sound
<1>3. Contents = ContentsOf(new_table) /\ Current = new_table
  <2>1. ContentsOf(table) = {}
    BY <1>1 DEF ContentsOf
  <2>2. QED
    BY <1>1, <2>1 DEF Contents, Current
<1>4. CASE call.op = "lookup_insert" /\ InsertInto(new_table, call.key)
  <2>1. call.key \in KeysOfWidth(new_table.key_width) /\ call.key \in Keys
    BY <1>2, <1>4, KeysFit
  <2>2. new_table.size + 1 < new_table.capacity
    <3>1. new_table.size + Cardinality(DOMAIN table.entries) + 1 = new_table.size + 1
      BY <1>1, <1>2, WidthsNat, FS_EmptySet
    <3>2. ~needs_to_grow_capacity(new_table.load_factor, new_table.capacity,
                                  new_table.size + 1)
      BY <1>1, <1>4, <3>1 DEF IInv, FitsWithoutGrowing
    <3>3. QED
      BY <1>2, <3>2, RoomLeft, WidthsNat
  <2>3. /\ Sound(table') /\ Counts(table') /\ Mirrors(mirror', table')
        /\ ContentsOf(table') = ContentsOf(new_table) \cup {call.key}
        /\ \E id : reply' = CallReply(call.key, id, lookup(new_table, call.key).found)
    BY <1>2, <1>4, <2>1, <2>2, InsertsInto
  <2>4. IInv'
    BY <1>1, <2>3 DEF IInv, FitsWithoutGrowing
  <2>5. Adds(call.key)
    <3>1. Contents' = ContentsOf(table')
      BY <1>1 DEF Contents
    <3>2. lookup(new_table, call.key).found \in BOOLEAN
      BY <1>2, <2>1, LookupIsMembership
    <3>3. lookup(new_table, call.key).found <=> call.key \in ContentsOf(new_table)
      BY <1>2, <2>1, LookupIsMembership
    <3>4. QED
      BY <1>3, <2>3, <3>1, <3>2, <3>3 DEF Adds
  <2>6. QED
    BY <2>1, <2>4, <2>5
<1>5. CASE table' = new_table /\ UNCHANGED <<mirror, reply>>
  BY <1>1, <1>2, <1>3, <1>5 DEF IInv, FitsWithoutGrowing, SameSet, Contents
<1>6. QED
  BY <1>4, <1>5 DEF FinishRebuild

(* Every step keeps the invariant, and is for the set a stutter, the       *)
(* insertion of a key or a stream.                                         *)
LEMMA NextKeepsInv ==
  ASSUME IInv, [Next]_vars
  PROVE  /\ IInv'
         /\ \/ SameSet
            \/ \E key \in Keys : Adds(key)
            \/ Contents' = Contents /\ reply' = NoReply
<1>1. ASSUME NEW key \in Keys, NEW width \in 1..MaxKeyWidth,
             lookup_insert_key_width(key, width)
      PROVE  IInv' /\ (SameSet \/ \E k \in Keys : Adds(k))
  BY <1>1, LookupInsertKeepsInv
<1>2. ASSUME NEW width \in 1..MaxKeyWidth, grow_key_width(width)
      PROVE  IInv' /\ SameSet
  BY <1>2, GrowKeyWidthKeepsInv
<1>3. ASSUME NEW lf \in LoadFactors, max_load_factor(lf)
      PROVE  IInv' /\ SameSet
  BY <1>3, MaxLoadFactorKeepsInv
<1>4. ASSUME NEW size \in InitialSizes, NEW width \in 1..MaxKeyWidth, NEW lf \in LoadFactors,
             move_into(size, width, lf)
      PROVE  IInv' /\ SameSet
  BY <1>4, MoveIntoKeepsInv
<1>5. CASE ReadBack
  BY <1>5, ReadBackKeepsInv
<1>6. ASSUME NEW dkey \in DOMAIN table.entries, MoveElement(dkey)
      PROVE  IInv' /\ SameSet
  BY <1>6, MoveElementKeepsInv
<1>7. CASE FinishRebuild
  BY <1>7, FinishRebuildKeepsInv
<1>8. CASE UNCHANGED vars
  BY <1>8 DEF vars, IInv, RebuildInv, FitsWithoutGrowing, SameSet, Contents
<1>9. QED
  BY <1>1, <1>2, <1>3, <1>4, <1>5, <1>6, <1>7, <1>8 DEF Next, Rebuild

-------------------------------------------------------------------------------
(* The theorems.                                                           *)

LEMMA Invariance == Spec => []IInv
<1>1. Init => IInv
  BY InitHasInv
<1>2. IInv /\ [Next]_vars => IInv'
  BY NextKeepsInv
<1>3. QED
  BY <1>1, <1>2, PTL DEF Spec

LEMMA IsTableIfSound == \A t : Sound(t) => IsTable(t)
<1> SUFFICES ASSUME NEW t, Sound(t) PROVE IsTable(t)
  OBVIOUS
<1>1. \A dkey \in DOMAIN t.entries :
         dkey \in [initial_address : 0..(t.capacity - 1),
                   stored_quotient : 0..(pow2[quotient_width(t)] - 1)]
  BY ComposeDecomposed DEF Sound
<1>2. QED
  BY <1>1 DEF Sound, IsTable

(* Tables keep to their bounds, in and between rebuilds, and the user only *)
(* learns ids of keys (hashset_t, all members).                            *)
THEOREM TypeCorrect == Spec => []TypeOK
<1>1. IInv => TypeOK
  <2> SUFFICES ASSUME IInv PROVE TypeOK
    OBVIOUS
  <2>1. IsTable(table) /\ (call # Idle => IsTable(new_table))
    BY IsTableIfSound DEF IInv, RebuildInv
  <2>2. DOMAIN mirror \subseteq Keys
    <3>1. CASE call = Idle
      <4>1. DOMAIN mirror \subseteq KeysOfWidth(table.key_width)
        BY <3>1, ElementsAreKeys DEF IInv, Mirrors
      <4>2. table.key_width \in 1..MaxKeyWidth
        BY DEF IInv, Sound
      <4>3. QED
        BY <4>1, <4>2, KeysFit
    <3>2. CASE call # Idle
      <4>1. DOMAIN mirror \subseteq KeysOfWidth(new_table.key_width)
        BY <3>2, ElementsAreKeys DEF IInv, RebuildInv, Mirrors
      <4>2. new_table.key_width \in 1..MaxKeyWidth
        BY <3>2 DEF IInv, RebuildInv, Sound
      <4>3. QED
        BY <4>1, <4>2, KeysFit
    <3>3. QED
      BY <3>1, <3>2
  <2>3. QED
    BY <2>1, <2>2 DEF IInv, TypeOK
<1>2. QED
  BY <1>1, Invariance, PTL

(* The ids that the callbacks and the returned entries tell the user are   *)
(* those of the table he has, after every callback of a rebuild too        *)
(* (on_resize, on_reinsert).                                               *)
THEOREM MirrorIsExact == Spec => []MirrorIsTable
<1>1. IInv => MirrorIsTable
  BY DEF IInv, RebuildInv, Mirrors, MirrorIsTable, Current
<1>2. QED
  BY <1>1, Invariance, PTL

(* Between calls a lookup finds the keys of the set and no others, for     *)
(* every key of the table's width (hashset_t::lookup).                     *)
THEOREM LookupIsExact == Spec => []LookupFindsContents
<1>1. IInv => LookupFindsContents
  <2> SUFFICES ASSUME IInv, call = Idle
               PROVE  /\ \A key \in Contents : dcheck_key_width(table, key)
                      /\ \A key \in 0..(pow2[table.key_width] - 1) :
                            lookup(table, key).found <=> key \in Contents
    BY DEF LookupFindsContents
  <2>1. Sound(table) /\ Contents = ContentsOf(table)
    BY DEF IInv, Contents
  <2>2. pow2[table.key_width] \in Nat
    BY <2>1, WidthsNat, PowersAreNat
  <2>3. \A key \in Contents : dcheck_key_width(table, key)
    BY <2>1, <2>2, ElementsAreKeys DEF KeysOfWidth, dcheck_key_width
  <2>4. \A key \in 0..(pow2[table.key_width] - 1) :
           lookup(table, key).found <=> key \in Contents
    BY <2>1, LookupIsMembership DEF KeysOfWidth
  <2>5. QED
    BY <2>3, <2>4
<1>2. QED
  BY <1>1, Invariance, PTL

(* The count that decides about growth is right, and a position is free    *)
(* for every probe to end at (size_manager_t::set_size).                   *)
THEOREM SizeIsExact == Spec => []SizeCounts
<1>1. IInv => SizeCounts
  <2> SUFFICES ASSUME IInv PROVE SizeCounts
    OBVIOUS
  <2>1. Sound(Current) /\ Counts(Current)
    BY DEF IInv, RebuildInv, Current
  <2>2. Current.size < Current.capacity
    BY <2>1, WidthsNat DEF Sound
  <2>3. QED
    BY <2>1, <2>2 DEF SizeCounts, Counts
<1>2. QED
  BY <1>1, Invariance, PTL

(* move_into inserts no key that is there already, and none too wide.      *)
THEOREM MovesOnce == Spec => []MovesEachKeyOnce
<1>1. IInv => MovesEachKeyOnce
  <2> SUFFICES ASSUME IInv, call # Idle
               PROVE  /\ ContentsOf(table) \cap ContentsOf(new_table) = {}
                      /\ \A key \in ContentsOf(table) : dcheck_key_width(new_table, key)
    BY DEF MovesEachKeyOnce
  <2>1. /\ Sound(table) /\ Sound(new_table) /\ table.key_width <= new_table.key_width
        /\ ContentsOf(table) \cap ContentsOf(new_table) = {}
    BY DEF IInv, RebuildInv
  <2>2. /\ pow2[table.key_width] <= pow2[new_table.key_width]
        /\ pow2[table.key_width] \in Nat /\ pow2[new_table.key_width] \in Nat
    BY <2>1, WidthsNat, PowerMonotonic, PowersAreNat
  <2>3. \A key \in ContentsOf(table) : dcheck_key_width(new_table, key)
    BY <2>1, <2>2, ElementsAreKeys DEF KeysOfWidth, dcheck_key_width
  <2>4. QED
    BY <2>1, <2>3
<1>2. QED
  BY <1>1, Invariance, PTL

(* No insertion of a rebuild, the interrupted one included, has to grow    *)
(* the new table again (the DCHECK at the end of grow_if_needed).          *)
THEOREM FillsWithoutGrowing == Spec => []FitsWithoutGrowing
<1>1. IInv => FitsWithoutGrowing
  BY DEF IInv
<1>2. QED
  BY <1>1, Invariance, PTL

(* serialize<hashset_t>: what is read back is what was written.            *)
THEOREM StreamsAreLossless == Spec => ReadsBackEqual
<1>1. IInv /\ [Next]_vars => [ReadBack => table' = table]_vars
  BY ReadBackKeepsInv
<1>2. QED
  BY <1>1, Invariance, PTL DEF Spec, ReadsBackEqual

(* hashset_t is a set of keys: calls, callbacks, rebuilds and streams are  *)
(* an insertion into the set, or nothing that its user could tell.         *)
THEOREM IsKeySet == Spec => RefinesKeySet
<1> DEFINE abstract_reply == IF reply = NoReply THEN reply
                             ELSE [op |-> reply.op, key |-> reply.key,
                                   already_exist |-> reply.already_exist]
<1>1. Init => S!Init
  BY InitHasInv DEF S!Init, S!NoReply, NoReply
<1>2. IInv /\ [Next]_vars => [S!Next]_(S!vars)
  <2> SUFFICES ASSUME IInv, [Next]_vars PROVE [S!Next]_(S!vars)
    OBVIOUS
  <2>1. CASE SameSet
    BY <2>1 DEF SameSet, S!vars
  <2>2. ASSUME NEW key \in Keys, Adds(key) PROVE S!lookup_insert(key)
    <3>1. PICK id : reply' = CallReply(key, id, lookup(Current, key).found)
      BY <2>2 DEF Adds
    <3>2. lookup(Current, key).found = (key \in Contents)
      BY <2>2 DEF Adds
    <3>3. reply'.op = "lookup_insert" /\ reply'.key = key
          /\ reply'.already_exist = (key \in Contents)
      BY <3>1, <3>2 DEF CallReply
    <3>4. reply' # NoReply
      BY <3>3 DEF NoReply
    <3>5. QED
      BY <2>2, <3>3, <3>4 DEF Adds, S!lookup_insert
  <2>3. CASE Contents' = Contents /\ reply' = NoReply
    BY <2>3 DEF S!Next, S!ReadBack, S!NoReply, NoReply
  <2>4. QED
    BY <2>1, <2>2, <2>3, NextKeepsInv DEF S!Next
<1>3. QED
  BY <1>1, <1>2, Invariance, PTL DEF Spec, S!Spec, RefinesKeySet
==============================================================================
