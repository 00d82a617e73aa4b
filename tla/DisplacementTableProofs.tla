------------------------ MODULE DisplacementTableProofs ------------------------
(***************************************************************************)
(* Proofs about the two displacement tables, for every size of table and   *)
(* set of displacements.                                                   *)
(*                                                                         *)
(* LayeredDisplacement: what a position spilled long ago is never read.    *)
(* The invariant is that a field at `max` has its displacement in the map. *)
(*                                                                         *)
(* EliasGamma, for every size of its buckets and words: the bits of each   *)
(* bucket are a string of codes, one for each position, and the cursor is  *)
(* between two of them.  What the codes are and how they are read, how     *)
(* bits are moved, and what a rewritten string is come first; then the     *)
(* invariant, the steps that keep it, and the array that is implemented.   *)
(***************************************************************************)
EXTENDS LayeredDisplacement, EliasGamma, SizeManagerProofs, FiniteSetTheorems

-------------------------------------------------------------------------------
(* LayeredDisplacement.                                                    *)

LayeredInv == LayeredTypeOK /\ FieldsPointToSpill

(* Where the map is read there is an entry, and a get puts nothing into it.*)
LEMMA ReadsEntry ==
    ASSUME LayeredInv, NEW pos \in Positions, m_displace[pos] = max
    PROVE  SpillWith(pos) = m_spill
BY DEF LayeredInv, LayeredTypeOK, FieldsPointToSpill, SpillWith

LEMMA LayeredValueIsNat ==
    ASSUME LayeredInv, NEW pos \in Positions
    PROVE  LayeredValue(pos) \in Nat
<1>1. CASE m_displace[pos] = max
  <2>1. LayeredValue(pos) = m_spill[pos]
    BY <1>1, ReadsEntry DEF LayeredValue
  <2>2. pos \in DOMAIN m_spill
    BY <1>1 DEF LayeredInv, FieldsPointToSpill
  <2> QED
    BY <2>1, <2>2, ValuesAssumption DEF LayeredInv, LayeredTypeOK
<1>2. CASE m_displace[pos] # max
  BY <1>2, MaxAssumption DEF LayeredValue, LayeredInv, LayeredTypeOK
<1> QED
  BY <1>1, <1>2

(* A get changes neither the fields nor the map.                           *)
LEMMA LayeredGetReadsOnly ==
    ASSUME LayeredInv, NEW pos \in Positions, layered_get(pos)
    PROVE  m_displace' = m_displace /\ m_spill' = m_spill
BY ReadsEntry DEF layered_get

(* The items of a stream are at the places the reader expects them.        *)
LEMMA LayeredStreamItems ==
    ASSUME NEW n \in Nat, NEW order \in [1..n -> DOMAIN m_spill]
    PROVE  LET in == layered_written(order)
           IN  /\ read_fields(in) = m_displace
               /\ ReadItem(in, 3, size_t) = n
               /\ \A i \in 1..n : ReadItem(in, 3 + i, pair) = <<order[i], m_spill[order[i]]>>
<1> DEFINE head  == << Item(uint64, max), Item(FieldsType(max), m_displace), Item(size_t, n) >>
           pairs == [i \in 1..n |-> Item(pair, <<order[i], m_spill[order[i]]>>)]
           in    == head \o pairs
<1>1. Len(order) = n
  OBVIOUS
<1>2. layered_written(order) = in
  BY <1>1 DEF layered_written
<1>3. Len(head) = 3 /\ Len(pairs) = n
  OBVIOUS
<1>4. /\ DOMAIN in = 1..(3 + n)
      /\ in[1] = head[1] /\ in[2] = head[2] /\ in[3] = head[3]
      /\ \A i \in 1..n : in[3 + i] = pairs[i]
  BY <1>3
<1>5. /\ in[1] = Item(uint64, max)
      /\ in[2] = Item(FieldsType(max), m_displace)
      /\ in[3] = Item(size_t, n)
      /\ \A i \in 1..n : in[3 + i] = Item(pair, <<order[i], m_spill[order[i]]>>)
  BY <1>4
<1> HIDE DEF head, pairs, in
<1>6. ReadItem(in, 1, uint64) = max
  BY <1>4, <1>5, ReadsItem
<1>7. read_fields(in) = m_displace
  BY <1>4, <1>5, <1>6, ReadsItem DEF read_fields
<1>8. ReadItem(in, 3, size_t) = n
  BY <1>4, <1>5, ReadsItem
<1>9. ASSUME NEW i \in 1..n
      PROVE  ReadItem(in, 3 + i, pair) = <<order[i], m_spill[order[i]]>>
  <2>1. 3 + i \in DOMAIN in
    BY <1>4
  <2>2. in[3 + i] = Item(pair, <<order[i], m_spill[order[i]]>>)
    BY <1>5
  <2> QED
    BY <2>1, <2>2, ReadsItem
<1> QED
  BY <1>2, <1>7, <1>8, <1>9

(* What is read back is what was written, in whatever order the map's      *)
(* pairs come.                                                             *)
LEMMA LayeredReadBackChangesNothing ==
    ASSUME LayeredInv, LayeredReadBack
    PROVE  m_displace' = m_displace /\ m_spill' = m_spill
<1>1. PICK order \in Orders : /\ m_displace' = read_fields(layered_written(order))
                              /\ m_spill' = read_spill(layered_written(order))
  BY DEF LayeredReadBack
<1>2. PICK n \in 0..TableSize : order \in [1..n -> DOMAIN m_spill]
  BY DEF Orders
<1>3. n \in Nat
  BY <1>2, TableSizeAssumption
<1> DEFINE in    == layered_written(order)
           pairs == {ReadItem(in, 3 + i, pair) : i \in 1..n}
<1>4. /\ read_fields(in) = m_displace
      /\ ReadItem(in, 3, size_t) = n
      /\ \A i \in 1..n : ReadItem(in, 3 + i, pair) = <<order[i], m_spill[order[i]]>>
  BY <1>2, <1>3, LayeredStreamItems
<1>5. m_displace' = m_displace /\ m_spill' = MapOf(pairs)
  BY <1>1, <1>4 DEF read_spill
<1> HIDE DEF in
<1>6. \A pos \in DOMAIN m_spill : <<pos, m_spill[pos]>> \in pairs
  <2> SUFFICES ASSUME NEW pos \in DOMAIN m_spill
               PROVE  <<pos, m_spill[pos]>> \in pairs
    OBVIOUS
  <2>1. PICK i \in 1..n : order[i] = pos
    BY <1>1, <1>2 DEF Orders
  <2> QED
    BY <1>4, <2>1
<1>7. \A p \in pairs : p[1] \in DOMAIN m_spill /\ p = <<p[1], m_spill[p[1]]>>
  BY <1>2, <1>4
<1> HIDE DEF pairs
<1>8. {p[1] : p \in pairs} = DOMAIN m_spill
  BY <1>6, <1>7
<1>9. ASSUME NEW pos \in DOMAIN m_spill
      PROVE  (CHOOSE p \in pairs : p[1] = pos)[2] = m_spill[pos]
  <2>1. \E p \in pairs : p[1] = pos
    BY <1>6
  <2>2. PICK q \in pairs : q = (CHOOSE p \in pairs : p[1] = pos) /\ q[1] = pos
    BY <2>1
  <2> QED
    BY <1>7, <2>2
<1>10. m_spill = [pos \in DOMAIN m_spill |-> m_spill[pos]]
  BY DEF LayeredInv, LayeredTypeOK
<1>11. MapOf(pairs) = m_spill
  BY <1>8, <1>9, <1>10 DEF MapOf
<1> QED
  BY <1>5, <1>11

LEMMA LayeredInvInitially == LayeredInit => LayeredInv
<1> SUFFICES ASSUME LayeredInit PROVE LayeredInv
  OBVIOUS
<1>0. done \in LayeredResults
  BY DEF LayeredInit, LayeredResults
<1>1. \A pos \in Positions : m_displace[pos] = 0
  BY DEF LayeredInit
<1>2. m_displace \in [Positions -> 0..max]
  BY MaxAssumption DEF LayeredInit
<1>3. m_spill = << >> /\ DOMAIN m_spill = {}
  BY DEF LayeredInit
<1>4. LayeredTypeOK
  BY <1>0, <1>2, <1>3 DEF LayeredTypeOK
<1>5. FieldsPointToSpill
  BY <1>1, MaxAssumption DEF FieldsPointToSpill
<1> QED
  BY <1>4, <1>5 DEF LayeredInv

(* What a set leaves behind.                                               *)
LEMMA LayeredSetStores ==
    ASSUME LayeredInv, NEW pos \in Positions, NEW val \in Values, layered_set(pos, val)
    PROVE  /\ val < max => m_displace' = [m_displace EXCEPT ![pos] = val]
           /\ val < max => m_spill' = m_spill
           /\ val >= max => m_displace' = [m_displace EXCEPT ![pos] = max]
           /\ val >= max => m_spill' = Spilled(pos, val)
<1>1. val \in Nat /\ max \in Nat
  BY ValuesAssumption, MaxAssumption
<1>2. CASE val < max
  <2>1. ~(val >= max)
    BY <1>1, <1>2
  <2> QED
    BY <1>2, <2>1 DEF layered_set
<1>3. CASE val >= max
  <2>1. ~(val < max)
    BY <1>1, <1>3
  <2> QED
    BY <1>3, <2>1 DEF layered_set
<1> QED
  BY <1>1, <1>2, <1>3

LEMMA LayeredSetKeepsInv ==
    ASSUME LayeredInv, NEW pos \in Positions, NEW val \in Values, layered_set(pos, val)
    PROVE  LayeredInv'
<1> USE DEF LayeredInv, LayeredTypeOK, FieldsPointToSpill
<1>1. done' \in LayeredResults
  BY ValuesAssumption DEF layered_set, LayeredResults
<1>2. val \in Nat /\ max \in Nat
  BY ValuesAssumption, MaxAssumption
<1>3. CASE val < max
  BY <1>1, <1>2, <1>3, LayeredSetStores
<1>4. CASE val >= max
  <2>1. m_displace' = [m_displace EXCEPT ![pos] = max] /\ m_spill' = Spilled(pos, val)
    BY <1>4, LayeredSetStores
  <2>2. m_displace' \in [Positions -> 0..max]
    BY <1>2, <2>1
  <2>3. /\ DOMAIN m_spill' = DOMAIN m_spill \cup {pos}
        /\ m_spill' \in [DOMAIN m_spill' -> Values]
    BY <2>1 DEF Spilled
  <2>4. FieldsPointToSpill'
    BY <1>2, <1>4, <2>1, <2>3 DEF Spilled
  <2> QED
    BY <1>1, <2>2, <2>3, <2>4
<1> QED
  BY <1>2, <1>3, <1>4

LEMMA LayeredInvKept == LayeredInv /\ [LayeredNext]_layered_vars => LayeredInv'
<1> SUFFICES ASSUME LayeredInv, [LayeredNext]_layered_vars PROVE LayeredInv'
  OBVIOUS
<1>1. ASSUME NEW pos \in Positions, layered_get(pos) PROVE LayeredInv'
  <2>1. m_displace' = m_displace /\ m_spill' = m_spill
    BY <1>1, LayeredGetReadsOnly
  <2>2. done' \in LayeredResults
    BY <1>1, LayeredValueIsNat DEF layered_get, LayeredResults
  <2> QED
    BY <2>1, <2>2 DEF LayeredInv, LayeredTypeOK, FieldsPointToSpill
<1>2. ASSUME NEW pos \in Positions, NEW val \in Values, layered_set(pos, val)
      PROVE  LayeredInv'
  BY <1>2, LayeredSetKeepsInv
<1>3. CASE LayeredGoOn
  <2>1. done' \in LayeredResults
    BY <1>3 DEF LayeredGoOn, LayeredResults
  <2> QED
    BY <1>3, <2>1 DEF LayeredGoOn, LayeredInv, LayeredTypeOK, FieldsPointToSpill
<1>4. CASE LayeredReadBack
  <2>1. m_displace' = m_displace /\ m_spill' = m_spill
    BY <1>4, LayeredReadBackChangesNothing
  <2>2. done' \in LayeredResults
    BY <1>4 DEF LayeredReadBack, LayeredResults
  <2> QED
    BY <2>1, <2>2 DEF LayeredInv, LayeredTypeOK, FieldsPointToSpill
<1>5. CASE UNCHANGED layered_vars
  BY <1>5 DEF layered_vars, LayeredInv, LayeredTypeOK, FieldsPointToSpill
<1> QED
  BY <1>1, <1>2, <1>3, <1>4, <1>5 DEF LayeredNext

(* The fields and the map keep their types (layered_displacement_table_t). *)
THEOREM LayeredTypeCorrect == LayeredSpec => []LayeredTypeOK
<1>1. LayeredInv => LayeredTypeOK
  BY DEF LayeredInv
<1> QED
  BY LayeredInvInitially, LayeredInvKept, <1>1, PTL DEF LayeredSpec

(* A read never meets a field at max without an entry in the map, so that  *)
(* operator[] never makes up a displacement.                               *)
THEOREM SpillIsThere == LayeredSpec => []FieldsPointToSpill
<1>1. LayeredInv => FieldsPointToSpill
  BY DEF LayeredInv
<1> QED
  BY LayeredInvInitially, LayeredInvKept, <1>1, PTL DEF LayeredSpec

LEMMA LayeredSetSetsOne ==
    ASSUME LayeredInv, NEW pos \in Positions, NEW val \in Values, layered_set(pos, val)
    PROVE  \A p \in Positions : LayeredValue(p)' = IF p = pos THEN val ELSE LayeredValue(p)
<1>1. val \in Nat /\ max \in Nat
  BY ValuesAssumption, MaxAssumption
<1> SUFFICES ASSUME NEW p \in Positions
             PROVE  LayeredValue(p)' = IF p = pos THEN val ELSE LayeredValue(p)
  OBVIOUS
<1>2. CASE val < max
  <2>1. m_displace' = [m_displace EXCEPT ![pos] = val] /\ m_spill' = m_spill
    BY <1>2, LayeredSetStores
  <2> QED
    BY <1>1, <1>2, <2>1 DEF LayeredValue, SpillWith, Spilled, LayeredInv, LayeredTypeOK
<1>3. CASE val >= max
  <2>1. m_displace' = [m_displace EXCEPT ![pos] = max] /\ m_spill' = Spilled(pos, val)
    BY <1>3, LayeredSetStores
  <2>2. CASE p = pos
    BY <2>1, <2>2 DEF LayeredValue, SpillWith, Spilled, LayeredInv, LayeredTypeOK
  <2>3. CASE p # pos
    <3>1. m_displace'[p] = m_displace[p]
      BY <2>1, <2>3 DEF LayeredInv, LayeredTypeOK
    <3>2. CASE m_displace[p] = max
      <4>1. p \in DOMAIN m_spill
        BY <3>2 DEF LayeredInv, FieldsPointToSpill
      <4>2. p \in DOMAIN m_spill' /\ m_spill'[p] = m_spill[p]
        BY <2>1, <2>3, <4>1 DEF Spilled
      <4> QED
        BY <2>3, <3>1, <4>1, <4>2 DEF LayeredValue, SpillWith
    <3>3. CASE m_displace[p] # max
      BY <2>3, <3>1, <3>3 DEF LayeredValue
    <3> QED
      BY <3>2, <3>3
  <2> QED
    BY <2>2, <2>3
<1> QED
  BY <1>1, <1>2, <1>3

(* The layered table is an array: every read returns what was last set.    *)
THEOREM LayeredImplementsArray == LayeredSpec => LayeredRefinesArray
<1> DEFINE array == [pos \in Positions |-> LayeredValue(pos)]
<1>1. LayeredInit => Array!Init
  <2> SUFFICES ASSUME LayeredInit PROVE Array!Init
    OBVIOUS
  <2>1. \A pos \in Positions : LayeredValue(pos) = 0
    BY MaxAssumption DEF LayeredInit, LayeredValue
  <2> QED
    BY <2>1 DEF LayeredInit, Array!Init, Array!Positions, Positions, Array!Nothing, Nothing
<1>2. LayeredInv /\ [LayeredNext]_layered_vars => [Array!Next]_(Array!vars)
  <2> SUFFICES ASSUME LayeredInv, [LayeredNext]_layered_vars PROVE [Array!Next]_(Array!vars)
    OBVIOUS
  <2>1. ASSUME NEW pos \in Positions, layered_get(pos) PROVE Array!get(pos)
    <3>1. m_displace' = m_displace /\ m_spill' = m_spill
      BY <2>1, LayeredGetReadsOnly
    <3>2. array' = array
      BY <3>1 DEF LayeredValue, SpillWith, Spilled
    <3> QED
      BY <2>1, <3>2 DEF layered_get, Array!get, Array!Nothing, Nothing
  <2>2. ASSUME NEW pos \in Positions, NEW val \in Values, layered_set(pos, val)
        PROVE  Array!set(pos, val)
    <3>1. array' = [array EXCEPT ![pos] = val]
      BY <2>2, LayeredSetSetsOne
    <3> QED
      BY <2>2, <3>1 DEF layered_set, Array!set, Array!Nothing, Nothing
  <2>3. CASE LayeredGoOn
    <3>1. array' = array
      BY <2>3 DEF LayeredGoOn, LayeredValue, SpillWith, Spilled
    <3> QED
      BY <2>3, <3>1 DEF LayeredGoOn, Array!GoOn, Array!Next, Array!Nothing, Nothing
  <2>4. CASE LayeredReadBack
    <3>1. m_displace' = m_displace /\ m_spill' = m_spill
      BY <2>4, LayeredReadBackChangesNothing
    <3>2. array' = array
      BY <3>1 DEF LayeredValue, SpillWith, Spilled
    <3> QED
      BY <2>4, <3>2 DEF LayeredReadBack, Array!ReadBack, Array!Next, Array!Nothing, Nothing
  <2>5. CASE UNCHANGED layered_vars
    <3>1. array' = array
      BY <2>5 DEF layered_vars, LayeredValue, SpillWith, Spilled
    <3> QED
      BY <2>5, <3>1 DEF layered_vars, Array!vars
  <2> QED
    BY <2>1, <2>2, <2>3, <2>4, <2>5 DEF LayeredNext, Array!Next, Array!Positions, Positions
<1> QED
  BY LayeredInvInitially, LayeredInvKept, <1>1, <1>2, PTL
     DEF LayeredSpec, Array!Spec, LayeredRefinesArray
-------------------------------------------------------------------------------
(* Codes.                                                                  *)

(* Every number lies between two neighbouring powers of two.               *)
LEMMA Log2Exists ==
  ASSUME NEW n \in Nat \ {0}
  PROVE  /\ log2_upper(n) \in 0..n
         /\ pow2[log2_upper(n)] <= n
         /\ n < pow2[log2_upper(n) + 1]
<1> DEFINE S == {e \in Nat : n < pow2[e]}
<1>1. S \subseteq Nat /\ n \in S
  BY PowerExceeds
<1>2. PICK e \in S : \A d \in S : e <= d
  BY <1>1, MinOfNaturals, Zenon
<1>3. e # 0
  BY <1>2, PowersDouble
<1>4. e - 1 \in Nat /\ e - 1 \notin S
  BY <1>2, <1>3
<1>5. pow2[e - 1] <= n
  BY <1>4, PowersDouble
<1>6. e <= n
  BY <1>1, <1>2
<1>7. e - 1 \in 0..n /\ pow2[e - 1] <= n /\ n < pow2[(e - 1) + 1]
  BY <1>2, <1>4, <1>5, <1>6
<1> QED
  BY <1>7 DEF log2_upper

LEMMA DigitsOf ==
  ASSUME NEW v \in Nat
  PROVE  /\ Digits(v) \in Nat
         /\ pow2[Digits(v)] <= v + 1
         /\ v + 1 < 2 * pow2[Digits(v)]
<1>1. v + 1 \in Nat \ {0}
  OBVIOUS
<1>2. /\ Digits(v) \in 0..(v + 1)
      /\ pow2[Digits(v)] <= v + 1
      /\ v + 1 < pow2[Digits(v) + 1]
  BY <1>1, Log2Exists DEF Digits
<1> QED
  BY <1>2, PowersDouble

LEMMA CodeSize ==
  ASSUME NEW v \in Nat
  PROVE  encoded_bit_size(v) \in Nat \ {0} /\ encoded_bit_size(v) = 2 * Digits(v) + 1
BY DigitsOf DEF encoded_bit_size

(* Dropping one binary digit more is halving, and gives that digit.        *)
LEMMA HalvedTwice ==
  ASSUME NEW a \in Nat, NEW p \in Nat \ {0}
  PROVE  /\ a \div p \in Nat
         /\ a \div p = 2 * (a \div (2 * p)) + ((a \div p) % 2)
<1> DEFINE q == a \div p
           r == a % p
           h == q \div 2
           e == q % 2
<1>1. q \in Nat /\ r \in 0..(p - 1) /\ a = p * q + r
  BY SMT
<1>2. h \in Nat /\ e \in 0..1 /\ q = 2 * h + e
  BY <1>1, SMT
<1> HIDE DEF q, r, h, e
<1>3. p * q = (2 * p) * h + p * e
  BY <1>2, SMT
<1>4. p * e + r \in 0..(2 * p - 1)
  <2>1. CASE e = 0
    BY <1>1, <2>1
  <2>2. CASE e = 1
    BY <1>1, <2>2
  <2> QED
    BY <1>2, <2>1, <2>2
<1> DEFINE s == p * e + r
           P == 2 * p
<1>5. a = P * h + s /\ s \in 0..(P - 1) /\ P \in Nat \ {0}
  BY <1>1, <1>2, <1>3, <1>4
<1> HIDE DEF s, P
<1>6. a \div P = h
  BY <1>2, <1>5, SMT
<1> QED
  BY <1>1, <1>2, <1>6 DEF q, h, e, P

LEMMA CodeBitIsBit ==
  ASSUME NEW v \in Nat, NEW i \in 0..(encoded_bit_size(v) - 1)
  PROVE  CodeBit(v, i) \in Bit
<1>1. CASE i < Digits(v)
  BY <1>1 DEF CodeBit, Bit
<1>2. CASE ~(i < Digits(v))
  <2>1. 2 * Digits(v) - i \in Nat
    BY <1>2, CodeSize, DigitsOf
  <2> DEFINE p == pow2[2 * Digits(v) - i]
  <2>2. p \in Nat \ {0} /\ v + 1 \in Nat
    BY <2>1, PowersDouble
  <2> HIDE DEF p
  <2>3. (v + 1) \div p \in Nat
    BY <2>2, HalvedTwice
  <2> QED
    BY <1>2, <2>3 DEF CodeBit, Bit, p
<1> QED
  BY <1>1, <1>2

(* The code of v stands in the bits of a bucket.                           *)
HasCode(data, bit, v) ==
  \A i \in 0..(encoded_bit_size(v) - 1) : read_bit(data, bit + i) = CodeBit(v, i)

(* After the zeros comes the first digit, a one.                           *)
LEMMA FirstDigit ==
  ASSUME NEW v \in Nat
  PROVE  CodeBit(v, Digits(v)) = 1
<1> DEFINE p == pow2[Digits(v)]
<1>1. /\ Digits(v) \in Nat /\ 2 * Digits(v) - Digits(v) = Digits(v)
      /\ p \in Nat \ {0} /\ p <= v + 1 /\ v + 1 < 2 * p
  BY DigitsOf, PowersDouble
<1>2. CodeBit(v, Digits(v)) = ((v + 1) \div p) % 2
  BY <1>1 DEF CodeBit
<1> HIDE DEF p
<1>3. (v + 1) \div p = 1
  <2> DEFINE r == v + 1 - p
  <2>1. v + 1 = p * 1 + r /\ r \in 0..(p - 1)
    BY <1>1
  <2>2. v + 1 \in Nat
    OBVIOUS
  <2> HIDE DEF r
  <2> QED
    BY <1>1, <2>1, <2>2, SMT
<1> QED
  BY <1>2, <1>3

LEMMA ZerosOfCode ==
  ASSUME NEW v \in Nat, NEW bit \in Nat, NEW w \in Nat, NEW data,
         DOMAIN data = 0..(w - 1), bit + encoded_bit_size(v) <= w,
         HasCode(data, bit, v)
  PROVE  Zeros(data, bit) = Digits(v)
<1> DEFINE d == Digits(v)
<1>1. d \in Nat /\ encoded_bit_size(v) = 2 * d + 1
  BY CodeSize, DigitsOf
<1>2. Cardinality(DOMAIN data) = w
  <2>1. 0 \in Int /\ w - 1 \in Int /\ (0 > w - 1 <=> w = 0) /\ (w - 1) - 0 + 1 = w
    OBVIOUS
  <2>2. Cardinality(0..(w - 1)) = IF 0 > w - 1 THEN 0 ELSE (w - 1) - 0 + 1
    BY <2>1, FS_Interval
  <2> QED
    BY <2>1, <2>2
<1>3. \A i \in 0..(2 * d) : read_bit(data, bit + i) = CodeBit(v, i)
  BY <1>1 DEF HasCode
<1>4. read_bit(data, bit + d) = 1
  <2>1. CodeBit(v, d) = 1
    BY FirstDigit
  <2> QED
    BY <1>1, <1>3, <2>1
<1>5. \A i \in 0..(d - 1) : read_bit(data, bit + i) = 0
  <2>1. \A i \in 0..(d - 1) : CodeBit(v, i) = 0
    BY <1>1 DEF CodeBit
  <2> QED
    BY <1>1, <1>3, <2>1
<1> HIDE DEF d
<1>6. d \in 0..w
  BY <1>1
<1>7. ASSUME NEW n \in 0..w, read_bit(data, bit + n) = 1,
             \A i \in 0..(n - 1) : read_bit(data, bit + i) = 0
      PROVE  n = d
  <2>1. ~(n < d)
    BY <1>1, <1>5, <1>7
  <2>2. ~(d < n)
    BY <1>1, <1>4, <1>7
  <2> QED
    BY <1>1, <2>1, <2>2
<1>8. Zeros(data, bit) = CHOOSE n \in 0..w :
         read_bit(data, bit + n) = 1 /\ \A i \in 0..(n - 1) : read_bit(data, bit + i) = 0
  BY <1>2 DEF Zeros
<1>9. Zeros(data, bit) = d
  BY <1>4, <1>5, <1>6, <1>7, <1>8
<1> QED
  BY <1>9 DEF d

LEMMA LengthOfCode ==
  ASSUME NEW v \in Nat, NEW bit \in Nat, NEW w \in Nat, NEW data,
         DOMAIN data = 0..(w - 1), bit + encoded_bit_size(v) <= w,
         HasCode(data, bit, v)
  PROVE  CodeLength(data, bit) = encoded_bit_size(v)
BY ZerosOfCode DEF CodeLength, encoded_bit_size

(* The digits of v + 1 that a read has seen after the first i + 1 of them. *)
LEMMA NextDigit ==
  ASSUME NEW v \in Nat, NEW i \in 1..Digits(v)
  PROVE  /\ Digits(v) - i \in Nat /\ Digits(v) - (i - 1) \in Nat
         /\ (v + 1) \div pow2[Digits(v) - i]
              = 2 * ((v + 1) \div pow2[Digits(v) - (i - 1)]) + CodeBit(v, Digits(v) + i)
<1> DEFINE d == Digits(v)
           p == pow2[d - i]
           digits == (v + 1) \div p
<1>1. d \in Nat
  BY DigitsOf
<1>2. /\ d - i \in Nat /\ (d - i) + 1 = d - (i - 1) /\ d - (i - 1) \in Nat
      /\ ~(d + i < d) /\ 2 * d - (d + i) = d - i
  BY <1>1
<1>3. p \in Nat \ {0} /\ pow2[d - (i - 1)] = 2 * p
  BY <1>2, PowersDouble
<1>4. CodeBit(v, d + i) = digits % 2
  BY <1>2 DEF CodeBit
<1> HIDE DEF d, p
<1>5. v + 1 \in Nat
  OBVIOUS
<1>6. digits = 2 * ((v + 1) \div (2 * p)) + (digits % 2)
  BY <1>3, <1>5, HalvedTwice
<1> QED
  BY <1>2, <1>3, <1>4, <1>6 DEF p, d

LEMMA ValueOfCode ==
  ASSUME NEW v \in Nat, NEW bit \in Nat, NEW w \in Nat, NEW data,
         DOMAIN data = 0..(w - 1), bit + encoded_bit_size(v) <= w,
         HasCode(data, bit, v)
  PROVE  Value(data, bit) = v
<1> DEFINE d == Digits(v)
           Doubled(f) == [i \in 0..d |->
                         IF i = 0 THEN 1 ELSE 2 * f[i - 1] + read_bit(data, bit + d + i)]
           number == CHOOSE f : f = Doubled(f)
           seen == [i \in 0..d |-> (v + 1) \div pow2[d - i]]
<1>1. d \in Nat /\ encoded_bit_size(v) = 2 * d + 1
  BY CodeSize, DigitsOf
<1>2. Zeros(data, bit) = d
  BY ZerosOfCode
<1>3. Value(data, bit) = number[d] - 1
  BY <1>2, Zenon DEF Value
<1>4. \A i \in 1..d : read_bit(data, bit + d + i) = CodeBit(v, d + i)
  <2> SUFFICES ASSUME NEW i \in 1..d PROVE read_bit(data, bit + d + i) = CodeBit(v, d + i)
    OBVIOUS
  <2> HIDE DEF d
  <2>1. d + i \in 0..(encoded_bit_size(v) - 1) /\ bit + d + i = bit + (d + i)
    BY <1>1
  <2> QED
    BY <2>1 DEF HasCode
<1>5. seen[0] = 1
  <2>1. CodeBit(v, d) = 1
    BY FirstDigit
  <2> DEFINE p == pow2[d]
  <2>2. p \in Nat \ {0} /\ p <= v + 1 /\ v + 1 < 2 * p
    BY <1>1, DigitsOf, PowersDouble
  <2> HIDE DEF p
  <2>3. (v + 1) \div p = 1
    BY <2>2, SMT
  <2>4. seen[0] = (v + 1) \div pow2[d - 0] /\ d - 0 = d
    BY <1>1
  <2> QED
    BY <2>3, <2>4 DEF p
<1>6. \A i \in 1..d : seen[i] = 2 * seen[i - 1] + read_bit(data, bit + d + i)
  <2> SUFFICES ASSUME NEW i \in 1..d
               PROVE  seen[i] = 2 * seen[i - 1] + read_bit(data, bit + d + i)
    OBVIOUS
  <2>1. (v + 1) \div pow2[d - i] = 2 * ((v + 1) \div pow2[d - (i - 1)]) + CodeBit(v, d + i)
    BY NextDigit
  <2>2. i \in 0..d /\ i - 1 \in 0..d
    BY <1>1
  <2> HIDE DEF d
  <2> QED
    BY <1>4, <2>1, <2>2
<1>7. seen[d] = v + 1
  <2>1. d \in 0..d /\ d - d = 0
    BY <1>1
  <2>2. seen[d] = (v + 1) \div pow2[0]
    BY <2>1
  <2>3. pow2[0] = 1 /\ (v + 1) \div 1 = v + 1
    BY PowersDouble
  <2> QED
    BY <2>2, <2>3
<1>8. seen = Doubled(seen)
  <2>1. \A i \in 0..d : seen[i] = Doubled(seen)[i]
    <3> SUFFICES ASSUME NEW i \in 0..d PROVE seen[i] = Doubled(seen)[i]
      OBVIOUS
    <3>1. CASE i = 0
      BY <1>5, <3>1
    <3>2. CASE i # 0
      <4>1. i \in 1..d
        BY <1>1, <3>2
      <4>2. seen[i] = 2 * seen[i - 1] + read_bit(data, bit + d + i)
        BY <1>6, <4>1
      <4> HIDE DEF seen, d
      <4> QED
        BY <3>2, <4>2
    <3> QED
      BY <3>1, <3>2
  <2>2. seen = [i \in 0..d |-> seen[i]] /\ Doubled(seen) = [i \in 0..d |-> Doubled(seen)[i]]
    OBVIOUS
  <2> HIDE DEF seen, d, Doubled
  <2> QED
    BY <2>1, <2>2
<1>9. number = Doubled(number)
  <2> HIDE DEF Doubled, seen
  <2> QED
    BY <1>8
<1>10. \A i \in 0..d : number[i] = seen[i]
  <2> DEFINE S == {i \in 0..d : number[i] # seen[i]}
  <2> SUFFICES ASSUME S # {} PROVE FALSE
    OBVIOUS
  <2>1. S \subseteq Nat
    OBVIOUS
  <2>2. PICK i \in S : \A j \in S : i <= j
    BY <2>1, MinOfNaturals, Zenon
  <2>3. number[i] = IF i = 0 THEN 1 ELSE 2 * number[i - 1] + read_bit(data, bit + d + i)
    <3> HIDE DEF number, d
    <3> QED
      BY <1>9, <2>2
  <2> HIDE DEF number, seen, d
  <2>4. i # 0
    BY <1>5, <2>2, <2>3
  <2>5. i \in 1..d /\ i - 1 \in 0..d /\ i - 1 \notin S
    BY <1>1, <2>2, <2>4
  <2>6. number[i - 1] = seen[i - 1]
    BY <2>5
  <2> QED
    BY <1>6, <2>2, <2>3, <2>4, <2>5, <2>6
<1>11. number[d] = v + 1
  <2> HIDE DEF number, seen, d
  <2> QED
    BY <1>1, <1>7, <1>10
<1> HIDE DEF number
<1> QED
  BY <1>3, <1>11
-------------------------------------------------------------------------------
(* Strings of codes.                                                       *)

Bits(words) == 0..(words * WordBits - 1)

(* n codes, of the displacements vals, that start at the bits start.       *)
IsString(data, bits, n, vals, start) ==
  /\ bits \in Nat
  /\ data \in [Bits(bits2alloc(bits)) -> Bit]
  /\ vals \in [0..(n - 1) -> Nat]
  /\ start \in [0..n -> Nat]
  /\ start[0] = 0 /\ start[n] = bits
  /\ \A j \in 0..(n - 1) : /\ start[j + 1] = start[j] + encoded_bit_size(vals[j])
                           /\ HasCode(data, start[j], vals[j])

(* There are words for all bits.                                           *)
LEMMA WordsSuffice ==
  ASSUME NEW bits \in Nat
  PROVE  bits2alloc(bits) \in Nat /\ bits2alloc(bits) * WordBits \in Nat
         /\ bits <= bits2alloc(bits) * WordBits
<1> DEFINE a == bits + WordBits - 1
           q == a \div WordBits
           r == a % WordBits
<1>1. WordBits \in Nat \ {0} /\ a \in Nat
  BY WordBitsAssumption
<1> HIDE DEF a
<1>2. q \in Nat /\ r \in 0..(WordBits - 1) /\ a = q * WordBits + r /\ q * WordBits \in Nat
  BY <1>1, SMT
<1> HIDE DEF q, r
<1>3. bits <= q * WordBits
  BY <1>1, <1>2 DEF a
<1> QED
  BY <1>2, <1>3 DEF bits2alloc, q, a

LEMMA StartsIncrease ==
  ASSUME NEW n \in Nat, NEW vals \in [0..(n - 1) -> Nat], NEW start \in [0..n -> Nat],
         \A j \in 0..(n - 1) : start[j + 1] = start[j] + encoded_bit_size(vals[j]),
         NEW j \in 0..n
  PROVE  \A k \in j..n : start[j] <= start[k]
<1> DEFINE S == {k \in j..n : ~(start[j] <= start[k])}
<1> SUFFICES ASSUME S # {} PROVE FALSE
  OBVIOUS
<1>1. S \subseteq Nat
  OBVIOUS
<1>2. PICK k \in S : \A i \in S : k <= i
  BY <1>1, MinOfNaturals, Zenon
<1>3. k # j
  BY <1>2
<1>4. k - 1 \in j..n /\ k - 1 \in 0..(n - 1) /\ (k - 1) + 1 = k /\ k - 1 \notin S
  BY <1>2, <1>3
<1>5. start[j] <= start[k - 1]
  BY <1>4
<1>6. start[k] = start[k - 1] + encoded_bit_size(vals[k - 1])
  BY <1>4
<1>7. encoded_bit_size(vals[k - 1]) \in Nat
  BY <1>4, CodeSize
<1>8. start[j] \in Nat /\ start[k - 1] \in Nat /\ start[k] \in Nat
  BY <1>2, <1>4
<1> HIDE DEF S
<1>9. start[j] <= start[k]
  BY <1>5, <1>6, <1>7, <1>8
<1> QED
  BY <1>2, <1>9 DEF S

(* Each code of a string is read as it was written.                        *)
ReadsCode(data, bits, vals, start, j) ==
  /\ vals[j] \in Nat /\ start[j] \in Nat /\ start[j + 1] \in Nat
  /\ start[j] + encoded_bit_size(vals[j]) = start[j + 1]
  /\ start[j + 1] <= bits
  /\ CodeLength(data, start[j]) = encoded_bit_size(vals[j])
  /\ Value(data, start[j]) = vals[j]

LEMMA CodesOfString ==
  ASSUME NEW n \in Nat, NEW data, NEW bits, NEW vals, NEW start,
         IsString(data, bits, n, vals, start),
         NEW j \in 0..(n - 1)
  PROVE  ReadsCode(data, bits, vals, start, j)
<1> DEFINE w == bits2alloc(bits) * WordBits
           bit == start[j]
           v == vals[j]
<1>1. j \in 0..n /\ j + 1 \in 0..n /\ n \in (j + 1)..n
  OBVIOUS
<1>2. /\ bits \in Nat /\ data \in [0..(w - 1) -> Bit] /\ v \in Nat
      /\ vals \in [0..(n - 1) -> Nat] /\ start \in [0..n -> Nat]
      /\ bit \in Nat /\ start[j + 1] \in Nat /\ start[n] = bits
      /\ start[j + 1] = bit + encoded_bit_size(v)
      /\ HasCode(data, bit, v)
      /\ \A k \in 0..(n - 1) : start[k + 1] = start[k] + encoded_bit_size(vals[k])
  BY <1>1 DEF IsString, Bits
<1>3. start[j + 1] <= bits
  BY <1>1, <1>2, StartsIncrease
<1>4. w \in Nat /\ bits <= w
  BY <1>2, WordsSuffice
<1> HIDE DEF w, bit, v
<1>5. encoded_bit_size(v) \in Nat
  BY <1>2, CodeSize
<1>6. bit + encoded_bit_size(v) <= w
  BY <1>2, <1>3, <1>4, <1>5
<1>7. DOMAIN data = 0..(w - 1)
  BY <1>2
<1>8. CodeLength(data, bit) = encoded_bit_size(v)
  BY <1>2, <1>4, <1>6, <1>7, LengthOfCode
<1>9. Value(data, bit) = v
  BY <1>2, <1>4, <1>6, <1>7, ValueOfCode
<1> QED
  BY <1>2, <1>3, <1>8, <1>9 DEF bit, v, ReadsCode

(* Reading the codes before the k-th leads to where it starts.             *)
LEMMA BitsBeforeCode ==
  ASSUME NEW n \in Nat, NEW data, NEW bits, NEW vals, NEW start,
         IsString(data, bits, n, vals, start),
         NEW k \in 0..n
  PROVE  BitsBefore(data, k) = start[k]
<1> DEFINE next == [bit \in Nat |-> bit + CodeLength(data, bit)]
           Nexts(f) == [i \in 0..k |-> IF i = 0 THEN 0 ELSE next[f[i - 1]]]
           before == CHOOSE f : f = Nexts(f)
           starts == [i \in 0..k |-> start[i]]
<1>1. BitsBefore(data, k) = before[k]
  BY Zenon DEF BitsBefore
<1>2. start[0] = 0
  BY DEF IsString
<1>3. ASSUME NEW i \in 1..k
      PROVE  next[start[i - 1]] = start[i]
  <2>1. i - 1 \in 0..(n - 1) /\ (i - 1) + 1 = i
    OBVIOUS
  <2>2. /\ start[i - 1] \in Nat
        /\ start[i - 1] + CodeLength(data, start[i - 1]) = start[i]
    BY <2>1, CodesOfString DEF ReadsCode
  <2> QED
    BY <2>2
<1> HIDE DEF next
<1>4. \A i \in 1..k : starts[i - 1] = start[i - 1] /\ starts[i] = start[i]
  OBVIOUS
<1>5. starts[0] = 0
  BY <1>2
<1>6. starts = Nexts(starts)
  <2>1. \A i \in 0..k : starts[i] = IF i = 0 THEN 0 ELSE next[starts[i - 1]]
    <3> SUFFICES ASSUME NEW i \in 0..k
                 PROVE  starts[i] = IF i = 0 THEN 0 ELSE next[starts[i - 1]]
      OBVIOUS
    <3>1. CASE i = 0
      BY <1>5, <3>1
    <3>2. CASE i # 0
      <4>1. i \in 1..k
        BY <3>2
      <4> HIDE DEF starts
      <4> QED
        BY <1>3, <1>4, <3>2, <4>1
    <3> QED
      BY <3>1, <3>2
  <2>2. starts = [i \in 0..k |-> starts[i]]
    OBVIOUS
  <2> HIDE DEF starts
  <2> QED
    BY <2>1, <2>2
<1>7. before = Nexts(before)
  <2> HIDE DEF Nexts, starts
  <2> QED
    BY <1>6
<1>8. \A i \in 0..k : before[i] = IF i = 0 THEN 0 ELSE next[before[i - 1]]
  <2> HIDE DEF before
  <2> QED
    BY <1>7
<1> HIDE DEF before, starts
<1>9. \A i \in 0..k : before[i] = start[i]
  <2> DEFINE S == {i \in 0..k : before[i] # start[i]}
  <2> SUFFICES ASSUME S # {} PROVE FALSE
    OBVIOUS
  <2>1. S \subseteq Nat
    OBVIOUS
  <2>2. PICK i \in S : \A j \in S : i <= j
    BY <2>1, MinOfNaturals, Zenon
  <2>3. i # 0
    BY <1>2, <1>8, <2>2
  <2>4. i \in 1..k /\ i - 1 \in 0..k /\ i - 1 \notin S
    BY <2>2, <2>3
  <2>5. before[i - 1] = start[i - 1]
    BY <2>4
  <2>6. before[i] = start[i]
    BY <1>3, <1>8, <2>2, <2>3, <2>4, <2>5
  <2> QED
    BY <2>2, <2>6
<1> QED
  BY <1>1, <1>9
-------------------------------------------------------------------------------
(* Rewriting a code.                                                       *)

(* The bits behind `from` are behind `to`, and those before both stay.     *)
IsMoved(data, after, from, to, size) ==
  /\ \A i \in 0..(from - 1) : i < to => after[i] = data[i]
  /\ \A i \in 0..(size - 1) : after[to + i] = data[from + i]

(* Bits are copied in the direction in which none is overwritten before it *)
(* is copied.                                                              *)
LEMMA ShiftMoves ==
  ASSUME NEW w \in Nat, NEW data \in [0..(w - 1) -> Bit],
         NEW from \in Nat, NEW to \in Nat, NEW size \in Nat,
         from + size <= w, to + size <= w
  PROVE  /\ shift_bits(data, from, to, size) \in [0..(w - 1) -> Bit]
         /\ IsMoved(data, shift_bits(data, from, to, size), from, to, size)
<1> DEFINE moved == [i \in 0..(w - 1) |->
                       IF i \notin to..(to + size - 1) THEN data[i] ELSE data[from + (i - to)]]
<1>1. DOMAIN data = 0..(w - 1)
  OBVIOUS
<1>2. shift_bits(data, from, to, size) = moved
  <2>1. CASE to < from
    <3>1. shift_bits(data, from, to, size) = CopiedFromFirst(data, from, to, size)
      BY <2>1 DEF shift_bits
    <3>2. ~(to > from)
      BY <2>1
    <3> QED
      BY <3>1, <3>2, <1>1 DEF CopiedFromFirst
  <2>2. CASE to > from
    <3>1. shift_bits(data, from, to, size) = CopiedFromLast(data, from, to, size)
      BY <2>2 DEF shift_bits
    <3>2. ~(to < from)
      BY <2>2
    <3>3. \A i \in to..(to + size - 1) :
             from + size - 1 - ((to + size - 1) - i) = from + (i - to)
      OBVIOUS
    <3>4. CopiedFromLast(data, from, to, size) =
            [i \in 0..(w - 1) |->
               IF i \notin to..(to + size - 1) THEN data[i]
               ELSE data[from + size - 1 - ((to + size - 1) - i)]]
      BY <3>2, <1>1 DEF CopiedFromLast
    <3> QED
      BY <3>1, <3>3, <3>4
  <2>3. CASE to = from
    <3>1. shift_bits(data, from, to, size) = data
      BY <2>3 DEF shift_bits
    <3>2. \A i \in 0..(w - 1) : from + (i - to) = i
      BY <2>3
    <3> QED
      BY <3>1, <3>2
  <2> QED
    BY <2>1, <2>2, <2>3
<1>3. moved \in [0..(w - 1) -> Bit]
  <2>1. \A i \in to..(to + size - 1) : from + (i - to) \in 0..(w - 1)
    OBVIOUS
  <2> QED
    BY <2>1
<1>4. ASSUME NEW i \in 0..(size - 1) PROVE moved[to + i] = data[from + i]
  <2>1. to + i \in 0..(w - 1) /\ to + i \in to..(to + size - 1) /\ (to + i) - to = i
    OBVIOUS
  <2> QED
    BY <2>1
<1>5. ASSUME NEW i \in 0..(from - 1), i < to PROVE moved[i] = data[i]
  BY <1>5
<1> HIDE DEF moved
<1> QED
  BY <1>2, <1>3, <1>4, <1>5 DEF IsMoved

(* Bits that have words before and after keep them.                        *)
LEMMA ReallocKeeps ==
  ASSUME NEW old \in Nat, NEW new \in Nat, NEW data \in [Bits(bits2alloc(old)) -> Bit]
  PROVE  /\ realloc_bits(data, old, new) \in [Bits(bits2alloc(new)) -> Bit]
         /\ \A i \in Nat : i < old /\ i < new => realloc_bits(data, old, new)[i] = data[i]
<1>1. CASE bits2alloc(new) = bits2alloc(old)
  BY <1>1 DEF realloc_bits
<1>2. CASE bits2alloc(new) # bits2alloc(old)
  <2>1. realloc_bits(data, old, new) =
          [i \in Bits(bits2alloc(new)) |-> IF i \in Bits(bits2alloc(old)) THEN data[i] ELSE 0]
    BY <1>2 DEF realloc_bits, Bits
  <2>2. ASSUME NEW i \in Nat, i < old, i < new
        PROVE  i \in Bits(bits2alloc(old)) /\ i \in Bits(bits2alloc(new))
    <3>1. /\ bits2alloc(old) * WordBits \in Nat /\ old <= bits2alloc(old) * WordBits
          /\ bits2alloc(new) * WordBits \in Nat /\ new <= bits2alloc(new) * WordBits
      BY WordsSuffice
    <3> QED
      BY <2>2, <3>1 DEF Bits
  <2> QED
    BY <2>1, <2>2 DEF Bit
<1> QED
  BY <1>1, <1>2

(* The bits behind a code that ends at `from` are moved to `to`: before    *)
(* the words are given back if they are fewer, and after there are words   *)
(* for them if they are more.                                              *)
Moved(data, bits, from, to) ==
  LET new_bits   == to + (bits - from)
      shifted(d) == shift_bits(d, from, to, bits - from)
  IN  IF new_bits < bits THEN realloc_bits(shifted(data), bits, new_bits)
      ELSE shifted(realloc_bits(data, bits, new_bits))

LEMMA MovedBits ==
  ASSUME NEW bits \in Nat, NEW data \in [Bits(bits2alloc(bits)) -> Bit],
         NEW from \in 0..bits, NEW to \in Nat
  PROVE  LET new_bits == to + (bits - from)
             moved == Moved(data, bits, from, to)
         IN  /\ moved \in [Bits(bits2alloc(new_bits)) -> Bit]
             /\ IsMoved(data, moved, from, to, bits - from)
<1> DEFINE size == bits - from
           new_bits == to + size
           oldw == bits2alloc(bits) * WordBits
           neww == bits2alloc(new_bits) * WordBits
           moved == Moved(data, bits, from, to)
<1>1. new_bits \in Nat /\ from \in Nat /\ size \in Nat /\ from + size = bits
  OBVIOUS
<1>2. /\ oldw \in Nat /\ neww \in Nat /\ bits <= oldw /\ new_bits <= neww
      /\ Bits(bits2alloc(bits)) = 0..(oldw - 1)
      /\ Bits(bits2alloc(new_bits)) = 0..(neww - 1)
  BY <1>1, WordsSuffice DEF Bits
<1>3. CASE new_bits < bits
  <2> DEFINE s == shift_bits(data, from, to, size)
             r == realloc_bits(s, bits, new_bits)
  <2>1. moved = r
    BY <1>3 DEF Moved
  <2>2. data \in [0..(oldw - 1) -> Bit] /\ from + size <= oldw /\ to + size <= oldw
    BY <1>1, <1>2, <1>3
  <2> HIDE DEF oldw, neww, size, moved
  <2>3. /\ s \in [0..(oldw - 1) -> Bit]
        /\ IsMoved(data, s, from, to, size)
    BY <1>1, <1>2, <2>2, ShiftMoves
  <2> HIDE DEF s
  <2>4. s \in [Bits(bits2alloc(bits)) -> Bit]
    BY <2>3, <1>2
  <2>5. /\ r \in [Bits(bits2alloc(new_bits)) -> Bit]
        /\ \A i \in Nat : i < bits /\ i < new_bits => r[i] = s[i]
    BY <1>1, <2>4, ReallocKeeps
  <2> HIDE DEF r
  <2>6. ASSUME NEW i \in 0..(from - 1), i < to PROVE moved[i] = data[i]
    <3>1. i \in Nat /\ i < bits /\ i < new_bits /\ i < oldw /\ i \in 0..(to - 1)
      BY <1>1, <1>2, <1>3, <2>6
    <3> QED
      BY <3>1, <2>1, <2>3, <2>5 DEF IsMoved
  <2>7. ASSUME NEW i \in 0..(size - 1) PROVE moved[to + i] = data[from + i]
    <3>1. to + i \in Nat /\ to + i < bits /\ to + i < new_bits
      BY <1>1, <1>3
    <3> QED
      BY <3>1, <2>1, <2>3, <2>5 DEF IsMoved
  <2>8. moved \in [Bits(bits2alloc(new_bits)) -> Bit]
    BY <2>1, <2>5
  <2> QED
    BY <2>6, <2>7, <2>8 DEF moved, size, IsMoved
<1>4. CASE ~(new_bits < bits)
  <2> DEFINE r == realloc_bits(data, bits, new_bits)
             s == shift_bits(r, from, to, size)
  <2>1. moved = s
    BY <1>4 DEF Moved
  <2>2. /\ r \in [Bits(bits2alloc(new_bits)) -> Bit]
        /\ \A i \in Nat : i < bits /\ i < new_bits => r[i] = data[i]
    BY <1>1, ReallocKeeps
  <2> HIDE DEF r
  <2>3. r \in [0..(neww - 1) -> Bit] /\ from + size <= neww /\ to + size <= neww
    BY <1>1, <1>2, <1>4, <2>2
  <2> HIDE DEF oldw, neww, size, moved
  <2>4. /\ s \in [0..(neww - 1) -> Bit]
        /\ IsMoved(r, s, from, to, size)
    BY <1>1, <1>2, <2>3, ShiftMoves
  <2> HIDE DEF s
  <2>5. ASSUME NEW i \in 0..(from - 1), i < to PROVE moved[i] = data[i]
    <3>1. i \in Nat /\ i < bits /\ i < new_bits /\ i < neww /\ i \in 0..(to - 1)
      BY <1>1, <1>2, <1>4, <2>5
    <3> QED
      BY <3>1, <2>1, <2>2, <2>4 DEF IsMoved
  <2>6. ASSUME NEW i \in 0..(size - 1) PROVE moved[to + i] = data[from + i]
    <3>1. from + i \in Nat /\ from + i < bits /\ from + i < new_bits
      BY <1>1, <1>4
    <3> QED
      BY <3>1, <2>1, <2>2, <2>4 DEF IsMoved
  <2>7. moved \in [Bits(bits2alloc(new_bits)) -> Bit]
    BY <1>2, <2>1, <2>4
  <2> QED
    BY <2>5, <2>6, <2>7 DEF moved, size, IsMoved
<1> QED
  BY <1>3, <1>4

(* What a set with another displacement makes of the bits of its bucket:   *)
(* the code is replaced, the bits before it stay, and those behind it      *)
(* follow its end.                                                         *)
HasReplaced(data, after, bits, bit, old, v) ==
  LET new == encoded_bit_size(v)
  IN  /\ bits + new - old \in Nat
      /\ after \in [Bits(bits2alloc(bits + new - old)) -> Bit]
      /\ \A i \in 0..(bit - 1) : after[i] = data[i]
      /\ \A i \in 0..(new - 1) : after[bit + i] = CodeBit(v, i)
      /\ \A i \in 0..(bits - (bit + old) - 1) : after[bit + new + i] = data[bit + old + i]

LEMMA WrittenBits ==
  ASSUME NEW bits \in Nat, NEW data \in [Bits(bits2alloc(bits)) -> Bit],
         NEW bit \in Nat, NEW old \in Nat, bit + old <= bits, NEW v \in Nat
  PROVE  HasReplaced(data, Written(Moved(data, bits, bit + old, bit + encoded_bit_size(v)), bit, v),
                     bits, bit, old, v)
<1> DEFINE new == encoded_bit_size(v)
           from == bit + old
           to == bit + new
           new_bits == bits + new - old
           neww == bits2alloc(new_bits) * WordBits
           moved == Moved(data, bits, from, to)
           after == Written(moved, bit, v)
<1>1. /\ new \in Nat \ {0} /\ from \in 0..bits /\ to \in Nat /\ new_bits \in Nat
      /\ new_bits = to + (bits - from)
  BY CodeSize
<1>2. neww \in Nat /\ new_bits <= neww /\ Bits(bits2alloc(new_bits)) = 0..(neww - 1)
  BY <1>1, WordsSuffice DEF Bits
<1>3. /\ moved \in [Bits(bits2alloc(new_bits)) -> Bit]
      /\ IsMoved(data, moved, from, to, bits - from)
  <2> HIDE DEF from, to, new_bits
  <2> QED
    BY <1>1, MovedBits
<1> HIDE DEF moved
<1>4. after = [i \in 0..(neww - 1) |->
                 IF i \in bit..(bit + new - 1) THEN CodeBit(v, i - bit) ELSE moved[i]]
  BY <1>2, <1>3 DEF Written
<1> HIDE DEF neww, after, new
<1>5. after \in [Bits(bits2alloc(new_bits)) -> Bit]
  <2>1. ASSUME NEW i \in bit..(bit + new - 1) PROVE CodeBit(v, i - bit) \in Bit
    <3>1. i - bit \in 0..(new - 1)
      BY <1>1
    <3> QED
      BY <3>1, CodeBitIsBit DEF new
  <2> HIDE DEF new_bits
  <2> QED
    BY <1>2, <1>3, <1>4, <2>1
<1>6. ASSUME NEW i \in 0..(bit - 1) PROVE after[i] = data[i]
  <2>1. i \in 0..(neww - 1) /\ i \notin bit..(bit + new - 1) /\ i \in 0..(from - 1) /\ i < to
    BY <1>1, <1>2
  <2> QED
    BY <2>1, <1>3, <1>4 DEF IsMoved
<1>7. ASSUME NEW i \in 0..(new - 1) PROVE after[bit + i] = CodeBit(v, i)
  <2>1. bit + i \in 0..(neww - 1) /\ bit + i \in bit..(bit + new - 1) /\ (bit + i) - bit = i
    BY <1>1, <1>2
  <2> QED
    BY <2>1, <1>4
<1>8. ASSUME NEW i \in 0..(bits - from - 1) PROVE after[to + i] = data[from + i]
  <2>1. to + i \in 0..(neww - 1) /\ to + i \notin bit..(bit + new - 1)
    BY <1>1, <1>2
  <2> QED
    BY <2>1, <1>3, <1>4 DEF IsMoved
<1> QED
  BY <1>1, <1>5, <1>6, <1>7, <1>8 DEF after, moved, new, HasReplaced

(* A bit in use is one of the words'.                                      *)
LEMMA ReadsUsedBit ==
  ASSUME NEW bits \in Nat, NEW data \in [Bits(bits2alloc(bits)) -> Bit],
         NEW i \in Nat, i < bits
  PROVE  read_bit(data, i) = data[i]
<1>1. bits2alloc(bits) * WordBits \in Nat /\ bits <= bits2alloc(bits) * WordBits
  BY WordsSuffice
<1>2. i \in Bits(bits2alloc(bits))
  BY <1>1 DEF Bits
<1> QED
  BY <1>2 DEF read_bit

(* A string in which one code is rewritten is a string again: of the same  *)
(* displacements but for that one, with the starts behind it moved.        *)
IsStringAfter(data, bits, n, vals, start, k, v) ==
  LET bit == start[k]
      old == encoded_bit_size(vals[k])
      new == encoded_bit_size(v)
  IN  IsString(Written(Moved(data, bits, bit + old, bit + new), bit, v),
               bits + new - old, n, [vals EXCEPT ![k] = v],
               [j \in 0..n |-> IF j <= k THEN start[j] ELSE start[j] + new - old])

LEMMA StringRewritten ==
  ASSUME NEW n \in Nat, NEW data, NEW bits, NEW vals, NEW start,
         IsString(data, bits, n, vals, start),
         NEW k \in 0..(n - 1), NEW v \in Nat
  PROVE  IsStringAfter(data, bits, n, vals, start, k, v)
<1> DEFINE bit == start[k]
           old == encoded_bit_size(vals[k])
           new == encoded_bit_size(v)
           new_bits == bits + new - old
           after == Written(Moved(data, bits, bit + old, bit + new), bit, v)
           vals2 == [vals EXCEPT ![k] = v]
           start2 == [j \in 0..n |-> IF j <= k THEN start[j] ELSE start[j] + new - old]
<1>1. /\ bits \in Nat /\ data \in [Bits(bits2alloc(bits)) -> Bit]
      /\ vals \in [0..(n - 1) -> Nat] /\ start \in [0..n -> Nat]
      /\ start[0] = 0 /\ start[n] = bits
      /\ \A j \in 0..(n - 1) : start[j + 1] = start[j] + encoded_bit_size(vals[j])
      /\ \A j \in 0..(n - 1) : HasCode(data, start[j], vals[j])
  BY DEF IsString
<1>2. /\ bit \in Nat /\ old \in Nat /\ new \in Nat /\ bit + old <= bits
      /\ bit + old = start[k + 1]
  <2>1. vals[k] \in Nat
    BY <1>1
  <2> QED
    BY <2>1, CodesOfString, CodeSize DEF ReadsCode
<1> HIDE DEF bit, old
<1>3. /\ new_bits \in Nat
      /\ after \in [Bits(bits2alloc(new_bits)) -> Bit]
      /\ \A i \in 0..(bit - 1) : after[i] = data[i]
      /\ \A i \in 0..(new - 1) : after[bit + i] = CodeBit(v, i)
      /\ \A i \in 0..(bits - (bit + old) - 1) : after[bit + new + i] = data[bit + old + i]
  <2>1. HasReplaced(data, after, bits, bit, old, v)
    BY <1>1, <1>2, WrittenBits
  <2> HIDE DEF after
  <2> QED
    BY <2>1 DEF HasReplaced
<1> HIDE DEF after, new
<1>4. vals2 \in [0..(n - 1) -> Nat]
  BY <1>1
<1>5. \A j \in 0..n : start[j] \in Nat
  BY <1>1
<1>6. \A j \in 0..k : start[j] <= bit
  <2> SUFFICES ASSUME NEW j \in 0..k PROVE start[j] <= bit
    OBVIOUS
  <2>1. j \in 0..n /\ k \in j..n
    OBVIOUS
  <2> QED
    BY <2>1, <1>1, StartsIncrease DEF bit
<1>7. \A j \in (k + 1)..n : bit + old <= start[j]
  <2> SUFFICES ASSUME NEW j \in (k + 1)..n PROVE start[k + 1] <= start[j]
    BY <1>2
  <2>1. k + 1 \in 0..n
    OBVIOUS
  <2> QED
    BY <2>1, <1>1, StartsIncrease
<1>8. \A j \in 0..n : start2[j] = IF j <= k THEN start[j] ELSE start[j] + new - old
  OBVIOUS
<1>9. start2 \in [0..n -> Nat]
  <2>1. \A j \in 0..n : (IF j <= k THEN start[j] ELSE start[j] + new - old) \in Nat
    BY <1>2, <1>5, <1>7
  <2> QED
    BY <2>1
<1>10. \A j \in 0..(n - 1) : vals2[j] = IF j = k THEN v ELSE vals[j]
  BY <1>1
<1> HIDE DEF start2, vals2
<1>11. start2[0] = 0 /\ start2[n] = new_bits
  BY <1>1, <1>8
<1>12. ASSUME NEW j \in 0..(n - 1)
       PROVE  start2[j + 1] = start2[j] + encoded_bit_size(vals2[j])
  <2>1. j \in 0..n /\ j + 1 \in 0..n /\ start[j] \in Nat /\ start[j + 1] \in Nat
    BY <1>5
  <2>2. start[j + 1] = start[j] + encoded_bit_size(vals[j]) /\ vals[j] \in Nat
    BY <1>1
  <2>3. encoded_bit_size(vals[j]) \in Nat
    BY <2>2, CodeSize
  <2>4. CASE j < k
    <3>1. start2[j + 1] = start[j + 1] /\ start2[j] = start[j] /\ vals2[j] = vals[j]
      BY <1>8, <1>10, <2>1, <2>4
    <3> QED
      BY <2>2, <3>1
  <2>5. CASE j = k
    <3>1. start2[j + 1] = start[k + 1] + new - old /\ start2[j] = bit /\ vals2[j] = v
      BY <1>8, <1>10, <2>1, <2>5 DEF bit
    <3>2. start2[j + 1] = bit + new
      BY <1>2, <3>1
    <3> QED
      BY <3>1, <3>2 DEF new
  <2>6. CASE k < j
    <3>1. /\ start2[j + 1] = start[j + 1] + new - old /\ start2[j] = start[j] + new - old
          /\ vals2[j] = vals[j]
      BY <1>8, <1>10, <2>1, <2>6
    <3> QED
      BY <1>2, <2>1, <2>2, <2>3, <3>1
  <2> QED
    BY <2>4, <2>5, <2>6
<1>13. ASSUME NEW j \in 0..(n - 1)
       PROVE  HasCode(after, start2[j], vals2[j])
  <2> DEFINE size == encoded_bit_size(vals2[j])
  <2>1. j \in 0..n /\ j + 1 \in 0..n /\ n \in 0..n /\ n \in (j + 1)..n
    OBVIOUS
  <2>2. vals2[j] \in Nat /\ start2[j] \in Nat /\ start2[j + 1] \in Nat
    BY <1>4, <1>9, <2>1
  <2>3. size \in Nat /\ start2[j] + size = start2[j + 1]
    BY <1>12, <2>2, CodeSize
  <2>4. start2[j + 1] <= new_bits
    BY <1>4, <1>9, <1>11, <1>12, <2>1, StartsIncrease
  <2> SUFFICES ASSUME NEW i \in 0..(size - 1)
               PROVE  read_bit(after, start2[j] + i) = CodeBit(vals2[j], i)
    BY DEF HasCode
  <2> HIDE DEF size, new_bits
  <2>5. read_bit(after, start2[j] + i) = after[start2[j] + i]
    <3>1. start2[j] + i \in Nat /\ start2[j] + i < new_bits
      BY <1>3, <2>2, <2>3, <2>4
    <3> QED
      BY <1>3, <3>1, ReadsUsedBit
  <2>6. ASSUME j # k
        PROVE  /\ start[j] \in Nat /\ start[j] + i \in Nat /\ start[j] + i < bits
               /\ data[start[j] + i] = CodeBit(vals2[j], i)
               /\ start[j] + i < start[j + 1]
    <3>1. vals2[j] = vals[j] /\ start[j + 1] = start[j] + size
      BY <1>1, <1>10, <2>6 DEF size
    <3>2. start[j + 1] <= bits
      BY CodesOfString DEF ReadsCode
    <3>3. start[j] + i \in Nat /\ start[j] + i < bits /\ start[j] \in Nat
          /\ start[j] + i < start[j + 1]
      BY <1>1, <1>5, <2>1, <2>3, <3>1, <3>2
    <3>4. read_bit(data, start[j] + i) = CodeBit(vals[j], i)
      BY <1>1, <3>1 DEF HasCode, size
    <3>5. read_bit(data, start[j] + i) = data[start[j] + i]
      BY <1>1, <3>3, ReadsUsedBit
    <3> QED
      BY <3>1, <3>3, <3>4, <3>5
  <2>7. CASE j < k
    <3>1. start2[j] = start[j] /\ start[j + 1] <= bit
      BY <1>6, <1>8, <2>1, <2>7
    <3>2. start[j] + i \in 0..(bit - 1)
      BY <1>2, <1>5, <2>1, <2>6, <2>7, <3>1
    <3> QED
      BY <1>3, <2>5, <2>6, <2>7, <3>1, <3>2
  <2>8. CASE j = k
    <3>1. start2[j] = bit /\ vals2[j] = v
      BY <1>8, <1>10, <2>1, <2>8 DEF bit
    <3>2. i \in 0..(new - 1)
      BY <3>1 DEF size, new
    <3> QED
      BY <1>3, <2>5, <3>1, <3>2
  <2>9. CASE k < j
    <3> DEFINE h == start[j] + i - (bit + old)
    <3>1. start2[j] = start[j] + new - old /\ bit + old <= start[j]
      BY <1>7, <1>8, <2>1, <2>9
    <3>2. /\ h \in 0..(bits - (bit + old) - 1)
          /\ bit + new + h = start2[j] + i /\ bit + old + h = start[j] + i
      <4> DEFINE x == start[j]
                 y == start2[j]
      <4>1. x \in Nat /\ x + i < bits /\ i \in Nat /\ bits \in Nat
        BY <1>1, <2>3, <2>6, <2>9
      <4>2. y = x + new - old /\ bit + old <= x /\ h = x + i - (bit + old)
        BY <3>1
      <4> HIDE DEF x, y, h
      <4>3. /\ h \in 0..(bits - (bit + old) - 1)
            /\ bit + new + h = y + i /\ bit + old + h = x + i
        BY <1>2, <4>1, <4>2
      <4> QED
        BY <4>3 DEF x, y
    <3> HIDE DEF h
    <3>3. after[bit + new + h] = data[bit + old + h]
      BY <1>3, <3>2
    <3> QED
      BY <2>5, <2>6, <2>9, <3>2, <3>3
  <2> QED
    BY <2>7, <2>8, <2>9
<1>14. IsString(after, new_bits, n, vals2, start2)
  <2> HIDE DEF new_bits
  <2> QED
    BY <1>3, <1>4, <1>9, <1>11, <1>12, <1>13 DEF IsString
<1> QED
  BY <1>14 DEF after, new_bits, vals2, start2, bit, old, new, IsStringAfter

(* And this is what a set does.                                            *)
LEMMA RewrittenIs ==
  ASSUME NEW data, NEW bits \in Nat, NEW bit \in Nat,
         call.existing \in Nat, call.val \in Nat
  PROVE  Rewritten(data, bits, bit) =
           Written(Moved(data, bits, bit + encoded_bit_size(call.existing),
                                     bit + encoded_bit_size(call.val)), bit, call.val)
<1> DEFINE old == encoded_bit_size(call.existing)
           new == encoded_bit_size(call.val)
<1>1. old \in Nat /\ new \in Nat
  BY CodeSize
<1> HIDE DEF old, new
<1>2. bits + new - old = (bit + new) + (bits - (bit + old))
  BY <1>1
<1> QED
  BY <1>2 DEF Rewritten, Moved, old, new
-------------------------------------------------------------------------------
(* Positions.                                                              *)

LEMMA SizeIsPositive ==
  ASSUME NEW bucket \in Buckets
  PROVE  SizeOf(bucket) \in Nat \ {0} /\ bucket * BucketSize + SizeOf(bucket) <= TableSize
         /\ SizeOf(bucket) <= BucketSize /\ bucket \in Nat
<1> DEFINE B == BucketSize
           q == (TableSize - 1) \div B
           r == TableSize % B
           d == TableSize \div B
<1>1. B \in Nat \ {0} /\ TableSize \in Nat \ {0}
  BY BucketSizeAssumption, TableSizeAssumption
<1> HIDE DEF B
<1>2. q \in Nat /\ q * B <= TableSize - 1 /\ d \in Nat /\ TableSize = d * B + r /\ r \in 0..(B - 1)
  BY <1>1, SMT
<1>3. bucket \in 0..q
  BY DEF Buckets, calc_buckets, B
<1> HIDE DEF q, r, d
<1>4. bucket \in Nat /\ bucket * B \in Nat /\ bucket * B <= TableSize - 1
      /\ (bucket + 1) * B = bucket * B + B
  <2>1. bucket * B <= q * B
    BY <1>1, <1>2, <1>3, SMT
  <2> QED
    BY <1>1, <1>2, <1>3, <2>1, SMT
<1>5. CASE (bucket + 1) * B <= TableSize
  BY <1>1, <1>4, <1>5 DEF SizeOf, B
<1>6. CASE ~((bucket + 1) * B <= TableSize)
  <2>1. d = bucket
    <3>1. ~(d < bucket)
      <4>1. d < bucket => (d + 1) * B <= bucket * B
        BY <1>1, <1>2, <1>4, SMT
      <4>2. (d + 1) * B = d * B + B /\ d * B \in Nat
        BY <1>1, <1>2, SMT
      <4> QED
        BY <1>1, <1>2, <1>4, <4>1, <4>2
    <3>2. ~(bucket < d)
      <4>1. bucket < d => (bucket + 1) * B <= d * B
        BY <1>1, <1>2, <1>4, SMT
      <4>2. d * B \in Nat
        BY <1>1, <1>2, SMT
      <4> QED
        BY <1>1, <1>2, <1>4, <1>6, <4>1, <4>2
    <3> QED
      BY <1>2, <1>4, <3>1, <3>2
  <2>2. SizeOf(bucket) = r
    BY <1>6 DEF SizeOf, B, r
  <2> QED
    BY <1>1, <1>2, <1>4, <2>1, <2>2 DEF B
<1> QED
  BY <1>5, <1>6

LEMMA PositionAt ==
  ASSUME NEW bucket \in Buckets, NEW offset \in 0..(SizeOf(bucket) - 1)
  PROVE  /\ bucket * BucketSize + offset \in Positions
         /\ (bucket * BucketSize + offset) \div BucketSize = bucket
         /\ (bucket * BucketSize + offset) % BucketSize = offset
<1> DEFINE B == BucketSize
           n == SizeOf(bucket)
           pos == bucket * B + offset
<1>1. /\ B \in Nat \ {0} /\ TableSize \in Nat \ {0} /\ bucket \in Nat
      /\ n \in Nat /\ bucket * B + n <= TableSize /\ n <= B /\ offset \in 0..(n - 1)
  BY SizeIsPositive, BucketSizeAssumption, TableSizeAssumption
<1> HIDE DEF B, n
<1>2. bucket * B \in Nat
  BY <1>1, SMT
<1>3. pos \in 0..(TableSize - 1) /\ offset \in 0..(B - 1)
  BY <1>1, <1>2
<1>4. pos \div B = bucket /\ pos % B = offset
  BY <1>1, <1>2, <1>3, SMT
<1> QED
  BY <1>3, <1>4 DEF Positions, B

LEMMA PositionOf ==
  ASSUME NEW pos \in Positions
  PROVE  /\ pos \div BucketSize \in Buckets
         /\ pos % BucketSize \in 0..(SizeOf(pos \div BucketSize) - 1)
         /\ (pos \div BucketSize) * BucketSize + (pos % BucketSize) = pos
<1> DEFINE B == BucketSize
           b == pos \div B
           r == pos % B
           q == (TableSize - 1) \div B
           d == TableSize \div B
           s == TableSize % B
<1>1. B \in Nat \ {0} /\ TableSize \in Nat \ {0} /\ pos \in 0..(TableSize - 1)
  BY BucketSizeAssumption, TableSizeAssumption DEF Positions
<1> HIDE DEF B
<1>2. b \in Nat /\ r \in 0..(B - 1) /\ pos = b * B + r /\ q \in Nat /\ b * B \in Nat
  BY <1>1, SMT
<1>3. TableSize - 1 < (q + 1) * B
  BY <1>1, SMT
<1>4. d \in Nat /\ s \in 0..(B - 1) /\ TableSize = d * B + s /\ d * B \in Nat
  BY <1>1, SMT
<1> HIDE DEF b, r, q, d, s
<1>5. b <= q
  <2>1. q < b => (q + 1) * B <= b * B
    BY <1>1, <1>2, SMT
  <2>2. (q + 1) * B \in Nat
    BY <1>1, <1>2, SMT
  <2> QED
    BY <1>1, <1>2, <1>3, <2>1, <2>2
<1>6. b \in Buckets
  BY <1>2, <1>5 DEF Buckets, calc_buckets, q, B
<1>7. r \in 0..(SizeOf(b) - 1)
  <2>1. CASE (b + 1) * B <= TableSize
    BY <1>2, <2>1 DEF SizeOf, B
  <2>2. CASE ~((b + 1) * B <= TableSize)
    <3>1. (b + 1) * B = b * B + B /\ (d + 1) * B = d * B + B
      BY <1>1, <1>2, <1>4, SMT
    <3>2. ~(d < b)
      <4>1. d < b => (d + 1) * B <= b * B
        BY <1>1, <1>2, <1>4, SMT
      <4> QED
        BY <1>1, <1>2, <1>4, <3>1, <4>1
    <3>3. ~(b < d)
      <4>1. b < d => (b + 1) * B <= d * B
        BY <1>1, <1>2, <1>4, SMT
      <4> QED
        BY <1>1, <1>2, <1>4, <2>2, <3>1, <4>1
    <3>4. d = b
      BY <1>2, <1>4, <3>2, <3>3
    <3>5. SizeOf(b) = s
      BY <2>2 DEF SizeOf, B, s
    <3> QED
      BY <1>1, <1>2, <1>4, <3>4, <3>5
  <2> QED
    BY <2>1, <2>2
<1> QED
  BY <1>2, <1>6, <1>7 DEF B, b, r
-------------------------------------------------------------------------------
(* The invariant.                                                          *)

Displacements == Values \cup {0}

(* The bits of a bucket are a string with a code for each of its positions.*)
IsBucket(data, bits, n) ==
  \E vals \in [0..(n - 1) -> Displacements], start \in [0..n -> Nat] :
     IsString(data, bits, n, vals, start)

Strings ==
  /\ m_data = [bucket \in Buckets |-> m_data[bucket]]
  /\ m_bits \in [Buckets -> Nat]
  /\ \A bucket \in Buckets : IsBucket(m_data[bucket], m_bits[bucket], SizeOf(bucket))

(* What a call has found out, and what it has done, at each of its steps.  *)
CallInStep ==
  call # Idle =>
    /\ call.op = "set" => call.val \in Values
    /\ call.at # "check" => done = Nothing
    /\ call.at # "seek" => call.op = "set" /\ m_elem_cursor = call.offset
    /\ call.at = "compare" => call.existing = Existing
    /\ call.at = "check" => Existing = call.val

(* A table is read back into at least as many buckets as it has.           *)
BucketsFit == Buckets \subseteq calc_buckets(DefaultBucketSize)

IInv ==
  /\ BucketsFit
  /\ TypeOK
  /\ Strings
  /\ CursorBetweenCodes
  /\ CallInStep

LEMMA DisplacementsAreNat == Displacements \subseteq Nat
BY ValuesAssumption DEF Displacements

LEMMA IInvConsistent == IInv => Consistent
<1> SUFFICES ASSUME IInv PROVE Consistent
  OBVIOUS
<1>1. ASSUME NEW bucket \in Buckets
      PROVE  BitsBefore(m_data[bucket], SizeOf(bucket)) = m_bits[bucket]
  <2> DEFINE n == SizeOf(bucket)
             data == m_data[bucket]
             bits == m_bits[bucket]
  <2>1. n \in Nat /\ n \in 0..n
    BY SizeIsPositive
  <2>2. PICK vals \in [0..(n - 1) -> Displacements], start \in [0..n -> Nat] :
          IsString(data, bits, n, vals, start)
    BY DEF IInv, Strings, IsBucket
  <2> HIDE DEF n, data, bits
  <2>3. BitsBefore(data, n) = start[n]
    BY <2>1, <2>2, BitsBeforeCode
  <2>4. start[n] = bits
    BY <2>2 DEF IsString
  <2> QED
    BY <2>3, <2>4 DEF n, data, bits
<1>2. CodesFillBucket
  BY <1>1 DEF CodesFillBucket
<1>3. ReadsBack
  BY DEF ReadsBack, Running, IInv, CallInStep
<1> QED
  BY <1>2, <1>3 DEF Consistent, IInv

(* The string the cursor is in, and the code it is in front of.            *)
LEMMA AtCursor ==
  ASSUME IInv
  PROVE  LET n == SizeOf(m_bucket_cursor)
         IN  /\ m_bucket_cursor \in Buckets /\ n \in Nat \ {0} /\ m_elem_cursor \in 0..n
             /\ \E vals \in [0..(n - 1) -> Displacements], start \in [0..n -> Nat] :
                   /\ IsString(Data, m_bits[m_bucket_cursor], n, vals, start)
                   /\ m_bit_cursor = start[m_elem_cursor]
<1> DEFINE n == SizeOf(m_bucket_cursor)
           bits == m_bits[m_bucket_cursor]
<1>1. m_bucket_cursor \in Buckets /\ m_elem_cursor \in 0..n
  BY DEF IInv, TypeOK
<1>2. n \in Nat \ {0}
  BY <1>1, SizeIsPositive
<1>3. PICK vals \in [0..(n - 1) -> Displacements], start \in [0..n -> Nat] :
        IsString(Data, bits, n, vals, start)
  BY <1>1 DEF IInv, Strings, IsBucket, Data
<1> HIDE DEF n, bits
<1>4. BitsBefore(Data, m_elem_cursor) = start[m_elem_cursor]
  BY <1>1, <1>2, <1>3, BitsBeforeCode
<1>5. m_bit_cursor = start[m_elem_cursor]
  BY <1>4 DEF IInv, CursorBetweenCodes
<1> QED
  BY <1>1, <1>2, <1>3, <1>5 DEF n, bits

(* A read leads the cursor to the next code, and not past the last.        *)
LEMMA ReadMoves ==
  ASSUME IInv, m_elem_cursor \in 0..(SizeOf(m_bucket_cursor) - 1)
  PROVE  /\ m_elem_cursor + 1 \in 0..SizeOf(m_bucket_cursor)
         /\ m_bit_cursor + CodeLength(Data, m_bit_cursor) \in 0..m_bits[m_bucket_cursor]
         /\ m_bit_cursor + CodeLength(Data, m_bit_cursor) = BitsBefore(Data, m_elem_cursor + 1)
         /\ Existing \in Displacements
<1> DEFINE n == SizeOf(m_bucket_cursor)
           bits == m_bits[m_bucket_cursor]
           j == m_elem_cursor
<1>1. n \in Nat \ {0}
  BY AtCursor
<1>2. PICK vals \in [0..(n - 1) -> Displacements], start \in [0..n -> Nat] :
        /\ IsString(Data, bits, n, vals, start)
        /\ m_bit_cursor = start[j]
  BY AtCursor
<1>3. j \in 0..(n - 1) /\ j + 1 \in 0..n
  BY <1>1
<1> HIDE DEF n, bits, j
<1>4. /\ start[j] \in Nat /\ start[j + 1] \in Nat
      /\ start[j] + encoded_bit_size(vals[j]) = start[j + 1]
      /\ start[j + 1] <= bits
      /\ CodeLength(Data, start[j]) = encoded_bit_size(vals[j])
      /\ Value(Data, start[j]) = vals[j]
  <2>1. IsString(Data, bits, n, vals, start) /\ n \in Nat
    BY <1>1, <1>2
  <2>2. ReadsCode(Data, bits, vals, start, j)
    BY <2>1, <1>3, CodesOfString
  <2> QED
    BY <2>2 DEF ReadsCode
<1>5. BitsBefore(Data, j + 1) = start[j + 1]
  BY <1>1, <1>2, <1>3, BitsBeforeCode
<1>6. bits \in Nat
  BY <1>2 DEF IsString
<1> QED
  BY <1>2, <1>3, <1>4, <1>5, <1>6 DEF n, bits, j, Existing

-------------------------------------------------------------------------------
(* The invariant holds initially: a string of the codes of 0.              *)
LEMMA ZeroCode == encoded_bit_size(0) = 1 /\ CodeBit(0, 0) = 1 /\ Digits(0) = 0
<1>1. Digits(0) \in Nat /\ pow2[Digits(0)] <= 0 + 1
  BY DigitsOf
<1>2. Digits(0) < pow2[Digits(0)] /\ pow2[Digits(0)] \in Nat
  BY <1>1, PowerExceeds, PowersDouble
<1>3. Digits(0) = 0
  BY <1>1, <1>2
<1> QED
  BY <1>3, FirstDigit DEF encoded_bit_size

LEMMA ZeroString ==
  ASSUME NEW n \in Nat
  PROVE  LET data == [i \in Bits(bits2alloc(n)) |-> IF i < n THEN CodeBit(0, 0) ELSE 0]
         IN  IsString(data, n, n, [j \in 0..(n - 1) |-> 0], [j \in 0..n |-> j])
<1> DEFINE data == [i \in Bits(bits2alloc(n)) |-> IF i < n THEN CodeBit(0, 0) ELSE 0]
           vals == [j \in 0..(n - 1) |-> 0]
           start == [j \in 0..n |-> j]
<1>1. data \in [Bits(bits2alloc(n)) -> Bit]
  BY ZeroCode DEF Bit
<1>2. ASSUME NEW j \in 0..(n - 1)
      PROVE  /\ start[j + 1] = start[j] + encoded_bit_size(vals[j])
             /\ HasCode(data, start[j], vals[j])
  <2>1. vals[j] = 0 /\ start[j] = j /\ start[j + 1] = j + 1
    OBVIOUS
  <2>2. bits2alloc(n) * WordBits \in Nat /\ n <= bits2alloc(n) * WordBits
    BY WordsSuffice
  <2>3. j \in Bits(bits2alloc(n)) /\ j < n
    BY <2>2 DEF Bits
  <2>4. data[j] = 1
    BY <2>3, ZeroCode
  <2> HIDE DEF data, vals, start
  <2>5. read_bit(data, j) = 1
    BY <1>1, <2>3, <2>4 DEF read_bit
  <2>6. \A i \in 0..(encoded_bit_size(0) - 1) : i = 0 /\ j + i = j
    BY ZeroCode
  <2>7. HasCode(data, j, 0)
    BY <2>5, <2>6, ZeroCode DEF HasCode
  <2> QED
    BY <2>1, <2>7, ZeroCode
<1>3. vals \in [0..(n - 1) -> Nat] /\ start \in [0..n -> Nat] /\ start[0] = 0 /\ start[n] = n
  OBVIOUS
<1> HIDE DEF data, vals, start
<1>4. IsString(data, n, n, vals, start)
  BY <1>1, <1>2, <1>3 DEF IsString
<1> QED
  BY <1>4 DEF data, vals, start

LEMMA StringsType ==
  ASSUME Strings
  PROVE  /\ m_bits \in [Buckets -> Nat]
         /\ \A bucket \in Buckets :
               m_data[bucket] \in [0..(bits2alloc(m_bits[bucket]) * WordBits - 1) -> Bit]
<1> SUFFICES ASSUME NEW bucket \in Buckets
             PROVE  m_data[bucket] \in [0..(bits2alloc(m_bits[bucket]) * WordBits - 1) -> Bit]
  BY DEF Strings
<1>1. IsBucket(m_data[bucket], m_bits[bucket], SizeOf(bucket))
  BY DEF Strings
<1> QED
  BY <1>1 DEF IsBucket, IsString, Bits

LEMMA FirstBucket == 0 \in Buckets
<1>1. (TableSize - 1) \div BucketSize \in Nat
  BY TableSizeAssumption, BucketSizeAssumption, SMT
<1> QED
  BY <1>1 DEF Buckets, calc_buckets

(* The cursor in front of the first code of a bucket.                      *)
LEMMA FirstCode ==
  ASSUME Strings, NEW bucket \in Buckets
  PROVE  /\ 0 \in 0..SizeOf(bucket) /\ 0 \in 0..m_bits[bucket]
         /\ BitsBefore(m_data[bucket], 0) = 0
<1> DEFINE n == SizeOf(bucket)
           data == m_data[bucket]
           bits == m_bits[bucket]
<1>1. n \in Nat /\ bits \in Nat
  BY SizeIsPositive DEF Strings
<1>2. PICK vals \in [0..(n - 1) -> Displacements], start \in [0..n -> Nat] :
        IsString(data, bits, n, vals, start)
  BY DEF Strings, IsBucket
<1> HIDE DEF n, data, bits
<1>3. BitsBefore(data, 0) = start[0] /\ start[0] = 0
  <2>1. 0 \in 0..n
    BY <1>1
  <2> QED
    <3>1. BitsBefore(data, 0) = start[0]
      BY <1>1, <1>2, <2>1, BitsBeforeCode
    <3> QED
      BY <1>2, <3>1 DEF IsString
<1> QED
  BY <1>1, <1>3 DEF n, data, bits

LEMMA IInvInitially == BucketsFit /\ Init => IInv
<1> SUFFICES ASSUME BucketsFit, Init PROVE IInv
  OBVIOUS
<1>1. ASSUME NEW bucket \in Buckets
      PROVE  /\ m_bits[bucket] = SizeOf(bucket) /\ SizeOf(bucket) \in Nat
             /\ m_data[bucket] = [i \in Bits(bits2alloc(SizeOf(bucket))) |->
                                    IF i < SizeOf(bucket) THEN CodeBit(0, 0) ELSE 0]
  <2>1. SizeOf(bucket) \in Nat /\ 1 * SizeOf(bucket) = SizeOf(bucket)
    BY SizeIsPositive
  <2>2. m_bits[bucket] = SizeOf(bucket)
    BY <2>1, ZeroCode DEF Init
  <2>3. m_data[bucket] = [i \in Bits(bits2alloc(m_bits[bucket])) |->
                            IF i < m_bits[bucket] THEN CodeBit(0, 0) ELSE 0]
    BY DEF Init, Bits
  <2> QED
    BY <2>1, <2>2, <2>3
<1>2. ASSUME NEW bucket \in Buckets
      PROVE  IsBucket(m_data[bucket], m_bits[bucket], SizeOf(bucket))
  <2> DEFINE n == SizeOf(bucket)
             vals == [j \in 0..(n - 1) |-> 0]
             start == [j \in 0..n |-> j]
  <2>1. n \in Nat
    BY SizeIsPositive
  <2> HIDE DEF n
  <2>2. IsString([i \in Bits(bits2alloc(n)) |-> IF i < n THEN CodeBit(0, 0) ELSE 0],
                 n, n, vals, start)
    BY <2>1, ZeroString
  <2>3. vals \in [0..(n - 1) -> Displacements] /\ start \in [0..n -> Nat]
    BY <2>1 DEF Displacements
  <2> HIDE DEF vals, start
  <2>4. IsString(m_data[bucket], m_bits[bucket], n, vals, start)
    BY <1>1, <2>2 DEF n
  <2> QED
    BY <2>3, <2>4 DEF IsBucket, n
<1>3. m_bits \in [Buckets -> Nat] /\ m_data = [bucket \in Buckets |-> m_data[bucket]]
  <2>1. \A bucket \in Buckets : m_bits[bucket] \in Nat
    BY <1>1
  <2>2. m_bits = [bucket \in Buckets |-> m_bits[bucket]]
    BY DEF Init
  <2>3. m_data = [bucket \in Buckets |-> m_data[bucket]]
    BY DEF Init
  <2> QED
    BY <2>1, <2>2, <2>3
<1>4. Strings
  BY <1>2, <1>3 DEF Strings
<1>5. /\ m_bucket_cursor = 0 /\ m_elem_cursor = 0 /\ m_bit_cursor = 0
      /\ call = Idle /\ done = Nothing
  BY DEF Init
<1>6. CursorBetweenCodes
  BY <1>4, <1>5, FirstCode, FirstBucket DEF CursorBetweenCodes, Data
<1>7. TypeOK
  BY <1>4, <1>5, StringsType, FirstCode, FirstBucket DEF TypeOK
<1> QED
  BY <1>4, <1>5, <1>6, <1>7 DEF IInv, CallInStep
-------------------------------------------------------------------------------
(* Reading back.                                                           *)

LEMMA AfterTwo ==
  ASSUME NEW first, NEW second, NEW m \in Nat, NEW S, NEW rest \in [1..m -> S]
  PROVE  LET in == <<first, second>> \o rest
         IN  /\ DOMAIN in = 1..(2 + m) /\ in[2] = second
             /\ \A i \in 1..m : in[2 + i] = rest[i]
<1> DEFINE head == <<first, second>>
<1>1. Len(head) = 2 /\ head[2] = second
  OBVIOUS
<1>2. Len(rest) = m
  OBVIOUS
<1> QED
  BY <1>1, <1>2

(* The items of the stream: the bits of each bucket and then its words.    *)
LEMMA WrittenItems ==
  /\ ReadItem(written, 2, size_t) = BucketSize
  /\ \A bucket \in Buckets :
        /\ ReadItem(written, 3 + 2 * bucket, uint64) = m_bits[bucket]
        /\ ReadItem(written, 4 + 2 * bucket, WordsType(m_bits[bucket])) = m_data[bucket]
<1> DEFINE q == (TableSize - 1) \div BucketSize
           N == Cardinality(Buckets)
           head == << Item(size_t, BucketSize), Item(size_t, BucketSize) >>
           items == [i \in 1..(2 * N) |->
                       LET bucket == (i - 1) \div 2
                       IN IF i % 2 = 1 THEN Item(uint64, m_bits[bucket])
                          ELSE Item(WordsType(m_bits[bucket]), m_data[bucket])]
           in == head \o items
<1>1. written = in
  BY DEF written
<1>2. q \in Nat /\ Buckets = 0..q
  BY TableSizeAssumption, BucketSizeAssumption, SMT DEF Buckets, calc_buckets
<1> HIDE DEF q
<1>3. N = q + 1 /\ N \in Nat
  <2>1. Cardinality(0..q) = IF 0 > q THEN 0 ELSE q - 0 + 1
    BY <1>2, FS_Interval
  <2> QED
    BY <1>2, <2>1
<1>4. \A bucket \in Buckets : bucket \in Nat /\ bucket < N
  BY <1>2, <1>3
<1> HIDE DEF N
<1>5. head[2] = Item(size_t, BucketSize)
  OBVIOUS
<1>6. 2 * N \in Nat
  BY <1>3
<1>7. /\ DOMAIN in = 1..(2 + 2 * N) /\ in[2] = head[2]
      /\ \A i \in 1..(2 * N) : in[2 + i] = items[i]
  <2>1. items \in [1..(2 * N) -> Range(items)]
    BY DEF Range
  <2> HIDE DEF items
  <2> QED
    BY <1>6, <2>1, AfterTwo
<1>8. ASSUME NEW bucket \in Buckets
      PROVE  /\ 3 + 2 * bucket \in DOMAIN in /\ 4 + 2 * bucket \in DOMAIN in
             /\ in[3 + 2 * bucket] = Item(uint64, m_bits[bucket])
             /\ in[4 + 2 * bucket] = Item(WordsType(m_bits[bucket]), m_data[bucket])
  <2>1. bucket \in Nat /\ bucket < N
    BY <1>4
  <2> DEFINE i == 1 + 2 * bucket
             k == 2 + 2 * bucket
  <2>2. /\ i \in 1..(2 * N) /\ k \in 1..(2 * N)
        /\ (i - 1) \div 2 = bucket /\ (k - 1) \div 2 = bucket /\ i % 2 = 1 /\ k % 2 = 0
    BY <1>3, <2>1
  <2>3. items[i] = Item(uint64, m_bits[bucket])
        /\ items[k] = Item(WordsType(m_bits[bucket]), m_data[bucket])
    <3> HIDE DEF i, k
    <3> QED
      BY <2>2
  <2>4. /\ 3 + 2 * bucket = 2 + i /\ 4 + 2 * bucket = 2 + k
        /\ 2 + i \in 1..(2 + 2 * N) /\ 2 + k \in 1..(2 + 2 * N)
    BY <1>3, <2>1
  <2> HIDE DEF i, k, in, items
  <2> QED
    BY <1>7, <2>2, <2>3, <2>4
<1>9. 2 \in DOMAIN in /\ in[2] = Item(size_t, BucketSize)
  BY <1>3, <1>5, <1>6, <1>7
<1> HIDE DEF in, items, head
<1>10. ReadItem(in, 2, size_t) = BucketSize
  BY <1>9, ReadsItem
<1>11. ASSUME NEW bucket \in Buckets
       PROVE  /\ ReadItem(in, 3 + 2 * bucket, uint64) = m_bits[bucket]
              /\ ReadItem(in, 4 + 2 * bucket, WordsType(m_bits[bucket])) = m_data[bucket]
  BY <1>8, ReadsItem
<1> QED
  BY <1>1, <1>10, <1>11

LEMMA ReadBackChangesNothing ==
  ASSUME BucketsFit, Strings, ReadBack
  PROVE  m_data' = m_data /\ m_bits' = m_bits
<1>1. read_bits(written) = m_bits
  <2>1. calc_buckets(ReadItem(written, 2, size_t)) = Buckets
    BY WrittenItems DEF Buckets
  <2>2. m_bits = [bucket \in Buckets |-> m_bits[bucket]]
    BY DEF Strings
  <2> QED
    BY <2>1, <2>2, WrittenItems DEF read_bits
<1>2. DOMAIN m_bits = Buckets
  BY DEF Strings
<1>3. read_data(written) = m_data
  <2>1. m_data = [bucket \in Buckets |-> m_data[bucket]]
    BY DEF Strings
  <2>2. read_data(written) =
          [bucket \in Buckets |-> ReadItem(written, 4 + 2 * bucket, WordsType(m_bits[bucket]))]
    BY <1>1, <1>2 DEF read_data
  <2> QED
    BY <2>1, <2>2, WrittenItems
<1>4. PICK lost \in SUBSET (Buckets \ calc_buckets(DefaultBucketSize)) :
        m_data' = [bucket \in DOMAIN read_bits(written) |->
                     IF bucket \in lost THEN Lost(read_data(written)[bucket])
                     ELSE read_data(written)[bucket]]
  BY DEF ReadBack
<1>5. lost = {}
  BY <1>4 DEF BucketsFit
<1>6. m_data' = [bucket \in Buckets |-> m_data[bucket]]
  BY <1>1, <1>2, <1>3, <1>4, <1>5
<1>7. m_bits' = m_bits
  BY <1>1 DEF ReadBack
<1> QED
  BY <1>6, <1>7 DEF Strings

-------------------------------------------------------------------------------
(* Every step keeps the invariant.                                         *)

CallRecords(bucket) ==
  [op : {"get", "set"}, at : {"seek", "compare", "check"},
   offset : 0..(SizeOf(bucket) - 1), val : Displacements, existing : Displacements]

Results ==
  {Nothing, <<"read back">>} \cup ({"get", "set"} \X Positions \X Displacements)

LEMMA TypeParts ==
  TypeOK <=> /\ m_bits \in [Buckets -> Nat]
             /\ \A bucket \in Buckets :
                   m_data[bucket] \in [0..(bits2alloc(m_bits[bucket]) * WordBits - 1) -> Bit]
             /\ m_bucket_cursor \in Buckets
             /\ m_elem_cursor \in 0..SizeOf(m_bucket_cursor)
             /\ m_bit_cursor \in 0..m_bits[m_bucket_cursor]
             /\ call \in {Idle} \cup CallRecords(m_bucket_cursor)
             /\ done \in Results
BY DEF TypeOK, CallRecords, Results, Displacements

LEMMA TypePartsNext ==
  TypeOK' <=> /\ m_bits' \in [Buckets -> Nat]
              /\ \A bucket \in Buckets :
                    m_data'[bucket] \in [0..(bits2alloc(m_bits'[bucket]) * WordBits - 1) -> Bit]
              /\ m_bucket_cursor' \in Buckets
              /\ m_elem_cursor' \in 0..SizeOf(m_bucket_cursor')
              /\ m_bit_cursor' \in 0..m_bits'[m_bucket_cursor']
              /\ call' \in {Idle} \cup CallRecords(m_bucket_cursor')
              /\ done' \in Results
BY DEF TypeOK, CallRecords, Results, Displacements

LEMMA RunningCall ==
  ASSUME IInv, NEW at, Running(at)
  PROVE  /\ call # Idle /\ call.at = at /\ call \in CallRecords(m_bucket_cursor)
         /\ call.op \in {"get", "set"} /\ call.val \in Displacements
         /\ call.existing \in Displacements
         /\ call.offset \in 0..(SizeOf(m_bucket_cursor) - 1)
         /\ CalledAt \in Positions
<1>1. call # Idle /\ call.at = at
  BY DEF Running
<1>2. call \in CallRecords(m_bucket_cursor) /\ m_bucket_cursor \in Buckets
  BY <1>1, TypeParts DEF IInv
<1>3. /\ call.op \in {"get", "set"} /\ call.val \in Displacements
      /\ call.existing \in Displacements
      /\ call.offset \in 0..(SizeOf(m_bucket_cursor) - 1)
  BY <1>2 DEF CallRecords
<1>4. CalledAt \in Positions
  BY <1>2, <1>3, PositionAt DEF CalledAt
<1> QED
  BY <1>1, <1>2, <1>3, <1>4

LEMMA CallKeepsIInv ==
  ASSUME IInv, NEW op \in {"get", "set"}, NEW pos \in Positions, NEW val \in Displacements,
         op = "set" => val \in Values, Call(op, pos, val)
  PROVE  IInv'
<1> DEFINE bucket == pos \div BucketSize
<1>1. bucket \in Buckets /\ pos % BucketSize \in 0..(SizeOf(bucket) - 1)
  BY PositionOf
<1>2. /\ call' = [op |-> op, at |-> "seek", offset |-> pos % BucketSize,
                  val |-> val, existing |-> 0]
      /\ m_bucket_cursor' = bucket /\ m_data' = m_data /\ m_bits' = m_bits
      /\ done' = done /\ done = Nothing
      /\ m_elem_cursor' = IF bucket = m_bucket_cursor THEN m_elem_cursor ELSE 0
      /\ m_bit_cursor' = IF bucket = m_bucket_cursor THEN m_bit_cursor ELSE 0
  BY DEF Call, GoToBucket
<1> HIDE DEF bucket
<1>3. Strings' /\ BucketsFit
  BY <1>2 DEF IInv, Strings
<1>4. call' \in CallRecords(m_bucket_cursor')
  BY <1>1, <1>2 DEF CallRecords, Displacements
<1>5. /\ m_elem_cursor' \in 0..SizeOf(m_bucket_cursor')
      /\ m_bit_cursor' \in 0..m_bits'[m_bucket_cursor']
      /\ m_bit_cursor' = BitsBefore(m_data'[m_bucket_cursor'], m_elem_cursor')
  <2>1. CASE bucket = m_bucket_cursor
    BY <1>2, <2>1, TypeParts DEF IInv, CursorBetweenCodes, Data
  <2>2. CASE bucket # m_bucket_cursor
    <3>1. Strings
      BY DEF IInv
    <3> QED
      BY <1>1, <1>2, <2>2, <3>1, FirstCode
  <2> QED
    BY <2>1, <2>2
<1>6. CursorBetweenCodes'
  BY <1>5 DEF CursorBetweenCodes, Data
<1>7. TypeOK'
  BY <1>1, <1>2, <1>4, <1>5, TypeParts DEF IInv, TypeOK, CallRecords, Displacements
<1>8. CallInStep'
  BY <1>2 DEF CallInStep
<1> QED
  BY <1>3, <1>6, <1>7, <1>8 DEF IInv

(* A step that leaves the bits as they are, in the bucket it is in.        *)
LEMMA SameBitsKeepIInv ==
  ASSUME IInv, m_data' = m_data, m_bits' = m_bits, m_bucket_cursor' = m_bucket_cursor,
         m_elem_cursor' \in 0..SizeOf(m_bucket_cursor),
         m_bit_cursor' \in 0..m_bits[m_bucket_cursor],
         m_bit_cursor' = BitsBefore(Data, m_elem_cursor'),
         call' \in {Idle} \cup CallRecords(m_bucket_cursor),
         done' \in Results, CallInStep'
  PROVE  IInv'
<1>1. Strings' /\ BucketsFit
  BY DEF IInv, Strings
<1>2. CursorBetweenCodes'
  BY DEF CursorBetweenCodes, Data
<1>3. TypeOK'
  <2>1. /\ m_bits \in [Buckets -> Nat] /\ m_bucket_cursor \in Buckets
        /\ \A bucket \in Buckets :
              m_data[bucket] \in [0..(bits2alloc(m_bits[bucket]) * WordBits - 1) -> Bit]
    BY TypeParts DEF IInv
  <2>2. /\ m_bits' \in [Buckets -> Nat] /\ m_bucket_cursor' \in Buckets
        /\ \A bucket \in Buckets :
              m_data'[bucket] \in [0..(bits2alloc(m_bits'[bucket]) * WordBits - 1) -> Bit]
        /\ m_elem_cursor' \in 0..SizeOf(m_bucket_cursor')
        /\ m_bit_cursor' \in 0..m_bits'[m_bucket_cursor']
        /\ call' \in {Idle} \cup CallRecords(m_bucket_cursor')
        /\ done' \in Results
    BY <2>1
  <2> QED
    BY <2>2, TypePartsNext
<1> QED
  BY <1>1, <1>2, <1>3 DEF IInv

LEMMA SeekKeepsIInv == ASSUME IInv, SeekBack \/ SeekOn PROVE IInv'
<1>1. /\ Running("seek") /\ m_data' = m_data /\ m_bits' = m_bits
      /\ m_bucket_cursor' = m_bucket_cursor /\ call' = call /\ done' = done
  BY DEF SeekBack, SeekOn, Read, MoveCursor
<1>2. /\ call # Idle /\ call.at = "seek" /\ call \in CallRecords(m_bucket_cursor)
      /\ call.offset \in 0..(SizeOf(m_bucket_cursor) - 1)
  BY <1>1, RunningCall
<1>3. /\ m_bucket_cursor \in Buckets /\ done \in Results /\ Strings
      /\ m_elem_cursor \in 0..SizeOf(m_bucket_cursor)
  BY TypeParts DEF IInv
<1>4. /\ m_elem_cursor' \in 0..SizeOf(m_bucket_cursor)
      /\ m_bit_cursor' \in 0..m_bits[m_bucket_cursor]
      /\ m_bit_cursor' = BitsBefore(Data, m_elem_cursor')
  <2>1. CASE SeekBack
    <3>1. m_elem_cursor' = 0 /\ m_bit_cursor' = 0
      BY <2>1 DEF SeekBack, MoveCursor
    <3> QED
      BY <1>3, <3>1, FirstCode DEF Data
  <2>2. CASE SeekOn
    <3>1. /\ m_elem_cursor' = m_elem_cursor + 1
          /\ m_bit_cursor' = m_bit_cursor + CodeLength(Data, m_bit_cursor)
          /\ m_elem_cursor < call.offset
      BY <2>2 DEF SeekOn, Read, MoveCursor
    <3>2. m_elem_cursor \in 0..(SizeOf(m_bucket_cursor) - 1)
      BY <1>2, <1>3, <3>1, SizeIsPositive
    <3> QED
      BY <3>1, <3>2, ReadMoves
  <2> QED
    BY <2>1, <2>2
<1>5. CallInStep'
  BY <1>1, <1>2 DEF IInv, CallInStep
<1> QED
  BY <1>1, <1>2, <1>3, <1>4, <1>5, SameBitsKeepIInv

(* What the cursor is in front of when a call has got to its offset.       *)
LEMMA AtOffset ==
  ASSUME IInv, NEW at, Running(at), m_elem_cursor = call.offset
  PROVE  /\ m_elem_cursor \in 0..(SizeOf(m_bucket_cursor) - 1)
         /\ Existing \in Displacements /\ Existing \in Nat
<1>1. m_elem_cursor \in 0..(SizeOf(m_bucket_cursor) - 1)
  BY RunningCall
<1> QED
  BY <1>1, ReadMoves, DisplacementsAreNat

LEMMA FinishKeepsIInv == ASSUME IInv, FinishGet \/ FinishSet PROVE IInv'
<1>1. /\ m_data' = m_data /\ m_bits' = m_bits /\ call' = Idle
      /\ m_bucket_cursor' = m_bucket_cursor
      /\ m_elem_cursor' = m_elem_cursor + 1
      /\ m_bit_cursor' = m_bit_cursor + CodeLength(Data, m_bit_cursor)
  BY DEF FinishGet, FinishSet, Read, MoveCursor
<1>2. PICK at : Running(at) /\ m_elem_cursor = call.offset
  <2>1. CASE FinishGet
    BY <2>1 DEF FinishGet, Found
  <2>2. CASE FinishSet
    <3>1. Running("check")
      BY <2>2 DEF FinishSet
    <3> QED
      BY <3>1 DEF Running, IInv, CallInStep
  <2> QED
    BY <2>1, <2>2
<1>3. /\ m_elem_cursor \in 0..(SizeOf(m_bucket_cursor) - 1)
      /\ Existing \in Displacements
  BY <1>2, AtOffset
<1>4. done' \in Results
  <2>1. CASE FinishGet
    <3>1. done' = <<"get", CalledAt, Existing>>
      BY <2>1 DEF FinishGet, Existing
    <3>2. CalledAt \in Positions
      BY <1>2, RunningCall
    <3> QED
      BY <1>3, <3>1, <3>2 DEF Results
  <2>2. CASE FinishSet
    BY <2>2, TypeParts DEF FinishSet, IInv
  <2> QED
    BY <2>1, <2>2
<1>5. CallInStep'
  BY <1>1 DEF CallInStep
<1>6. /\ m_elem_cursor' \in 0..SizeOf(m_bucket_cursor)
      /\ m_bit_cursor' \in 0..m_bits[m_bucket_cursor]
      /\ m_bit_cursor' = BitsBefore(Data, m_elem_cursor')
  BY <1>1, <1>3, ReadMoves
<1> QED
  BY <1>1, <1>4, <1>5, <1>6, SameBitsKeepIInv

LEMMA ReadExistingKeepsIInv == ASSUME IInv, ReadExisting PROVE IInv'
<1>1. /\ m_data' = m_data /\ m_bits' = m_bits /\ m_bucket_cursor' = m_bucket_cursor
      /\ m_elem_cursor' = m_elem_cursor /\ m_bit_cursor' = m_bit_cursor /\ done' = done
      /\ call' = [call EXCEPT !.at = "compare", !.existing = Existing]
      /\ Running("seek") /\ m_elem_cursor = call.offset /\ call.op = "set"
  BY DEF ReadExisting, Found, cursor
<1>2. Existing \in Displacements
  BY <1>1, AtOffset
<1>3. call # Idle /\ call.at = "seek" /\ call \in CallRecords(m_bucket_cursor)
  BY <1>1, RunningCall
<1>4. /\ call' \in CallRecords(m_bucket_cursor)
      /\ call'.at = "compare" /\ call'.op = call.op /\ call'.val = call.val
      /\ call'.offset = call.offset /\ call'.existing = Existing
  BY <1>1, <1>2, <1>3 DEF CallRecords
<1>5. call.val \in Values /\ done = Nothing
  BY <1>1, <1>3 DEF IInv, CallInStep
<1>6. Existing' = Existing
  BY <1>1 DEF Existing, Data
<1>7. CallInStep'
  BY <1>1, <1>4, <1>5, <1>6 DEF CallInStep
<1>8. /\ m_elem_cursor' \in 0..SizeOf(m_bucket_cursor)
      /\ m_bit_cursor' \in 0..m_bits[m_bucket_cursor]
      /\ m_bit_cursor' = BitsBefore(Data, m_elem_cursor')
      /\ done' \in Results
  BY <1>1, TypeParts DEF IInv, CursorBetweenCodes
<1> QED
  BY <1>1, <1>4, <1>7, <1>8, SameBitsKeepIInv

(* What a set does once it has compared.                                   *)
LEMMA Compared ==
  ASSUME IInv, Running("compare")
  PROVE  /\ call \in CallRecords(m_bucket_cursor) /\ call # Idle
         /\ call.at = "compare" /\ call.op = "set" /\ call.val \in Values
         /\ m_elem_cursor = call.offset
         /\ m_elem_cursor \in 0..(SizeOf(m_bucket_cursor) - 1)
         /\ call.existing = Existing /\ Existing \in Nat /\ call.val \in Nat
         /\ <<"set", CalledAt, call.val>> \in Results
         /\ done = Nothing
<1>1. /\ call # Idle /\ call.at = "compare" /\ call \in CallRecords(m_bucket_cursor)
      /\ CalledAt \in Positions /\ call.val \in Displacements
  BY RunningCall
<1>2. /\ call.op = "set" /\ call.val \in Values /\ m_elem_cursor = call.offset
      /\ call.existing = Existing /\ done = Nothing
  BY <1>1 DEF IInv, CallInStep
<1>3. m_elem_cursor \in 0..(SizeOf(m_bucket_cursor) - 1) /\ Existing \in Nat
  BY <1>2, AtOffset
<1>4. <<"set", CalledAt, call.val>> \in Results
  BY <1>1 DEF Results
<1> QED
  BY <1>1, <1>2, <1>3, <1>4, ValuesAssumption

LEMMA FoundEqualKeepsIInv == ASSUME IInv, FoundEqual PROVE IInv'
<1>1. /\ m_data' = m_data /\ m_bits' = m_bits /\ m_bucket_cursor' = m_bucket_cursor
      /\ m_elem_cursor' = m_elem_cursor /\ m_bit_cursor' = m_bit_cursor
      /\ done' = <<"set", CalledAt, call.val>>
      /\ call' = [call EXCEPT !.at = "check"] /\ call.existing = call.val
      /\ Running("compare")
  BY DEF FoundEqual, Goto, cursor
<1>2. /\ call \in CallRecords(m_bucket_cursor) /\ call.op = "set" /\ call.val \in Values
      /\ m_elem_cursor = call.offset /\ call.existing = Existing /\ done' \in Results
  BY <1>1, Compared
<1>3. /\ call' \in CallRecords(m_bucket_cursor)
      /\ call'.at = "check" /\ call'.op = call.op /\ call'.val = call.val
      /\ call'.offset = call.offset
  BY <1>1, <1>2 DEF CallRecords
<1>4. Existing' = Existing
  BY <1>1 DEF Existing, Data
<1>5. CallInStep'
  BY <1>1, <1>2, <1>3, <1>4 DEF CallInStep
<1>6. /\ m_elem_cursor' \in 0..SizeOf(m_bucket_cursor)
      /\ m_bit_cursor' \in 0..m_bits[m_bucket_cursor]
      /\ m_bit_cursor' = BitsBefore(Data, m_elem_cursor')
  BY <1>1, TypeParts DEF IInv, CursorBetweenCodes
<1> QED
  BY <1>1, <1>2, <1>3, <1>5, <1>6, SameBitsKeepIInv

(* A set with another displacement rewrites one code of the string.        *)
RewritesString(n, vals, start, vals2, start2) ==
  /\ vals \in [0..(n - 1) -> Displacements] /\ start \in [0..n -> Nat]
  /\ IsString(Data, m_bits[m_bucket_cursor], n, vals, start)
  /\ vals2 = [vals EXCEPT ![call.offset] = call.val]
  /\ vals2 \in [0..(n - 1) -> Displacements] /\ start2 \in [0..n -> Nat]
  /\ IsString(m_data'[m_bucket_cursor], m_bits'[m_bucket_cursor], n, vals2, start2)
  /\ start2[call.offset] = m_bit_cursor

LEMMA RewriteString ==
  ASSUME IInv, Rewrite
  PROVE  \E vals, start, vals2, start2 :
            RewritesString(SizeOf(m_bucket_cursor), vals, start, vals2, start2)
<1> DEFINE n == SizeOf(m_bucket_cursor)
           data == Data
           bits == m_bits[m_bucket_cursor]
           k == call.offset
           v == call.val
<1>1. /\ n \in Nat \ {0} /\ m_bucket_cursor \in Buckets
  BY AtCursor
<1>2. Running("compare")
  BY DEF Rewrite
<1>3. /\ k \in 0..(n - 1) /\ m_elem_cursor = k /\ v \in Values /\ v \in Nat
      /\ call.existing = Existing /\ Existing \in Nat
  BY <1>2, Compared
<1>4. PICK vals \in [0..(n - 1) -> Displacements], start \in [0..n -> Nat] :
        /\ IsString(data, bits, n, vals, start)
        /\ m_bit_cursor = start[k]
  BY <1>3, AtCursor
<1>5. /\ m_data'[m_bucket_cursor] = Rewritten(data, bits, start[k])
      /\ m_bits'[m_bucket_cursor] =
           bits + encoded_bit_size(v) - encoded_bit_size(call.existing)
  BY <1>1, <1>4, TypeParts DEF Rewrite, IInv, Strings, Data
<1> HIDE DEF n, data, bits, k
<1>6. Value(data, start[k]) = vals[k] /\ start[k] \in Nat
  <2>1. ReadsCode(data, bits, vals, start, k)
    BY <1>1, <1>3, <1>4, CodesOfString
  <2> QED
    BY <1>3, <1>4, <2>1 DEF ReadsCode
<1>7. call.existing = vals[k]
  BY <1>3, <1>4, <1>6 DEF Existing, data, k
<1> DEFINE old == encoded_bit_size(vals[k])
           new == encoded_bit_size(v)
           vals2 == [vals EXCEPT ![k] = v]
           start2 == [j \in 0..n |-> IF j <= k THEN start[j] ELSE start[j] + new - old]
<1>8. Rewritten(data, bits, start[k]) =
        Written(Moved(data, bits, start[k] + old, start[k] + new), start[k], v)
  BY <1>3, <1>4, <1>6, <1>7, RewrittenIs DEF IsString
<1>9. IsString(Written(Moved(data, bits, start[k] + old, start[k] + new), start[k], v),
               bits + new - old, n, vals2, start2)
  <2>1. IsStringAfter(data, bits, n, vals, start, k, v)
    BY <1>1, <1>3, <1>4, StringRewritten
  <2> QED
    BY <2>1 DEF IsStringAfter
<1>10. IsString(m_data'[m_bucket_cursor], m_bits'[m_bucket_cursor], n, vals2, start2)
  BY <1>5, <1>7, <1>8, <1>9
<1>11. vals2 \in [0..(n - 1) -> Displacements]
  BY <1>3, <1>4 DEF Displacements
<1>12. start2[k] = m_bit_cursor
  <2>1. k \in 0..n /\ k <= k
    BY <1>1, <1>3
  <2> QED
    BY <1>4, <2>1
<1> HIDE DEF vals2, start2
<1>13. start2 \in [0..n -> Nat]
  BY <1>10 DEF IsString
<1>14. RewritesString(n, vals, start, vals2, start2)
  BY <1>4, <1>10, <1>11, <1>12, <1>13 DEF RewritesString, vals2, k, data, bits
<1> QED
  BY <1>14 DEF n

LEMMA RewriteKeepsIInv == ASSUME IInv, Rewrite PROVE IInv'
<1> DEFINE b == m_bucket_cursor
           n == SizeOf(b)
           k == call.offset
<1>1. /\ m_bucket_cursor' = b /\ m_elem_cursor' = m_elem_cursor
      /\ m_bit_cursor' = m_bit_cursor /\ done' = <<"set", CalledAt, call.val>>
      /\ call' = [call EXCEPT !.at = "check"] /\ Running("compare")
      /\ m_data' = [m_data EXCEPT ![b] = m_data'[b]]
      /\ m_bits' = [m_bits EXCEPT ![b] = m_bits'[b]]
  <2>1. DOMAIN m_data = Buckets /\ DOMAIN m_bits = Buckets /\ b \in Buckets
    BY AtCursor DEF IInv, Strings
  <2> QED
    BY <2>1 DEF Rewrite, Goto, cursor
<1>2. /\ b \in Buckets /\ n \in Nat \ {0} /\ m_elem_cursor \in 0..n
  BY AtCursor
<1>3. /\ call \in CallRecords(b) /\ call.op = "set" /\ call.val \in Values
      /\ m_elem_cursor = k /\ k \in 0..(n - 1) /\ done' \in Results
  BY <1>1, Compared
<1>4. PICK vals, start, vals2, start2 : RewritesString(n, vals, start, vals2, start2)
  BY RewriteString
<1> HIDE DEF n
<1>5. /\ vals2 \in [0..(n - 1) -> Displacements] /\ start2 \in [0..n -> Nat]
      /\ vals \in [0..(n - 1) -> Displacements] /\ vals2 = [vals EXCEPT ![k] = call.val]
      /\ IsString(m_data'[b], m_bits'[b], n, vals2, start2)
      /\ start2[k] = m_bit_cursor
  BY <1>4 DEF RewritesString
<1>6. vals2[k] = call.val
  BY <1>3, <1>5
<1>7. ReadsCode(m_data'[b], m_bits'[b], vals2, start2, k)
  <2>1. n \in Nat /\ IsString(m_data'[b], m_bits'[b], n, vals2, start2)
    BY <1>2, <1>5
  <2> QED
    BY <1>3, <2>1, CodesOfString
<1>8. BitsBefore(m_data'[b], k) = start2[k]
  <2>1. n \in Nat /\ IsString(m_data'[b], m_bits'[b], n, vals2, start2)
    BY <1>2, <1>5
  <2>2. k \in 0..n
    BY <1>2, <1>3
  <2> QED
    BY <2>1, <2>2, BitsBeforeCode
<1>9. IsBucket(m_data'[b], m_bits'[b], n) /\ m_bits'[b] \in Nat
  BY <1>5 DEF IsBucket, IsString
<1>10. Strings'
  <2>1. m_bits' \in [Buckets -> Nat]
    BY <1>1, <1>9 DEF IInv, Strings
  <2>2. m_data' = [bucket \in Buckets |-> m_data'[bucket]]
    BY <1>1 DEF IInv, Strings
  <2>3. ASSUME NEW bucket \in Buckets
        PROVE  IsBucket(m_data'[bucket], m_bits'[bucket], SizeOf(bucket))
    <3>1. CASE bucket = b
      BY <1>9, <3>1 DEF n
    <3>2. CASE bucket # b
      <4>1. m_data'[bucket] = m_data[bucket] /\ m_bits'[bucket] = m_bits[bucket]
        BY <1>1, <3>2 DEF IInv, Strings
      <4> QED
        BY <4>1 DEF IInv, Strings
    <3> QED
      BY <3>1, <3>2
  <2> QED
    BY <2>1, <2>2, <2>3 DEF Strings
<1>11. CursorBetweenCodes'
  BY <1>1, <1>3, <1>5, <1>8 DEF CursorBetweenCodes, Data
<1>12. call' \in CallRecords(b) /\ call'.at = "check" /\ call'.op = "set"
       /\ call'.val = call.val /\ call'.offset = k
  BY <1>1, <1>3 DEF CallRecords
<1>13. Existing' = call.val
  BY <1>1, <1>5, <1>6, <1>7 DEF ReadsCode, Existing, Data
<1>14. CallInStep'
  BY <1>1, <1>3, <1>12, <1>13 DEF CallInStep
<1>15. m_bit_cursor \in 0..m_bits'[b]
  <2>1. vals2[k] \in Nat /\ start2[k] \in Nat
        /\ start2[k] + encoded_bit_size(vals2[k]) <= m_bits'[b]
    BY <1>7 DEF ReadsCode
  <2>2. encoded_bit_size(vals2[k]) \in Nat
    BY <2>1, CodeSize
  <2> QED
    BY <1>5, <1>9, <2>1, <2>2
<1>16. TypeOK'
  <2>1. \A bucket \in Buckets :
           m_data'[bucket] \in [0..(bits2alloc(m_bits'[bucket]) * WordBits - 1) -> Bit]
    <3>1. \A bucket \in Buckets : IsBucket(m_data'[bucket], m_bits'[bucket], SizeOf(bucket))
      BY <1>10 DEF Strings
    <3> QED
      BY <3>1 DEF IsBucket, IsString, Bits
  <2>2. m_bits' \in [Buckets -> Nat]
    BY <1>10 DEF Strings
  <2>3. /\ m_bucket_cursor' \in Buckets
        /\ m_elem_cursor' \in 0..SizeOf(m_bucket_cursor')
        /\ m_bit_cursor' \in 0..m_bits'[m_bucket_cursor']
        /\ call' \in {Idle} \cup CallRecords(m_bucket_cursor')
        /\ done' \in Results
    BY <1>1, <1>2, <1>3, <1>12, <1>15 DEF n
  <2> QED
    BY <2>1, <2>2, <2>3, TypePartsNext
<1> QED
  BY <1>10, <1>11, <1>14, <1>16 DEF IInv

LEMMA ReadBackKeepsIInv == ASSUME IInv, ReadBack PROVE IInv'
<1>1. /\ call' = Idle /\ done' \in Results
      /\ m_bucket_cursor' = 0 /\ m_elem_cursor' = 0 /\ m_bit_cursor' = 0
  BY Zenon DEF ReadBack, Results
<1>2. m_data' = m_data /\ m_bits' = m_bits
  BY ReadBackChangesNothing DEF IInv
<1>3. Strings' /\ Strings
  BY <1>2 DEF IInv, Strings
<1>4. 0 \in 0..SizeOf(0) /\ 0 \in 0..m_bits[0] /\ BitsBefore(m_data[0], 0) = 0
  BY <1>3, FirstBucket, FirstCode
<1>5. CursorBetweenCodes' /\ CallInStep'
  BY Zenon, <1>1, <1>2, <1>4 DEF CursorBetweenCodes, Data, CallInStep
<1>6. TypeOK'
  <2>1. /\ m_bits' \in [Buckets -> Nat]
        /\ \A bucket \in Buckets :
              m_data'[bucket] \in [0..(bits2alloc(m_bits'[bucket]) * WordBits - 1) -> Bit]
    BY <1>2, TypeParts DEF IInv
  <2> QED
    BY <1>1, <1>2, <1>4, <2>1, FirstBucket, TypePartsNext
<1> QED
  BY <1>3, <1>5, <1>6 DEF IInv

LEMMA IInvKept == IInv /\ [Next]_vars => IInv'
<1> SUFFICES ASSUME IInv, [Next]_vars PROVE IInv'
  OBVIOUS
<1>1. ASSUME NEW pos \in Positions, get(pos) PROVE IInv'
  BY <1>1, CallKeepsIInv DEF get, Displacements
<1>2. ASSUME NEW pos \in Positions, NEW val \in Values, set(pos, val) PROVE IInv'
  BY <1>2, CallKeepsIInv DEF set, Displacements
<1>3. CASE ReadBack
  BY <1>3, ReadBackKeepsIInv
<1>4. CASE Step
  BY <1>4, SeekKeepsIInv, FinishKeepsIInv, ReadExistingKeepsIInv, FoundEqualKeepsIInv,
     RewriteKeepsIInv DEF Step
<1>5. CASE GoOn \/ UNCHANGED vars
  <2>1. /\ m_data' = m_data /\ m_bits' = m_bits /\ m_bucket_cursor' = m_bucket_cursor
        /\ m_elem_cursor' = m_elem_cursor /\ m_bit_cursor' = m_bit_cursor /\ call' = call
        /\ (call = Idle /\ done' = Nothing) \/ done' = done
    BY <1>5 DEF GoOn, vars, cursor
  <2>2. CallInStep'
    BY <2>1 DEF IInv, CallInStep, Existing, Data
  <2>3. done' \in Results
    <3>1. done \in Results
      BY TypeParts DEF IInv
    <3>2. Nothing \in Results
      BY Zenon DEF Results
    <3> QED
      BY <2>1, <3>1, <3>2
  <2>4. /\ m_elem_cursor' \in 0..SizeOf(m_bucket_cursor)
        /\ m_bit_cursor' \in 0..m_bits[m_bucket_cursor]
        /\ m_bit_cursor' = BitsBefore(Data, m_elem_cursor')
        /\ call' \in {Idle} \cup CallRecords(m_bucket_cursor)
    BY <2>1, TypeParts DEF IInv, CursorBetweenCodes
  <2> QED
    BY <2>1, <2>2, <2>3, <2>4, SameBitsKeepIInv
<1> QED
  BY <1>1, <1>2, <1>3, <1>4, <1>5 DEF Next

(* The bucket's bits and the cursor keep their types, in every bucket of   *)
(* elias_gamma_displacement_table_t, and the cursor stays in its bucket.   *)
THEOREM EliasGammaTypeCorrect == BucketsFit /\ Spec => []TypeOK
<1>1. IInv => TypeOK
  BY DEF IInv
<1> QED
  BY IInvInitially, IInvKept, <1>1, PTL DEF Spec

(* No read runs past the bits in use, the remembered cursor is in front of *)
(* the code it says, whatever was rewritten before it, and a set reads its *)
(* value back (the DCHECKs of elias_gamma_displacement_table_t::set).      *)
THEOREM EliasGammaConsistent == BucketsFit /\ Spec => []Consistent
BY IInvInitially, IInvKept, IInvConsistent, PTL DEF Spec
-------------------------------------------------------------------------------
(* The table is an array.                                                  *)

DisplaceAt(data_of, pos) ==
  LET data  == data_of[pos \div BucketSize]
      value == [bit \in Nat |-> Value(data, bit)]
  IN  value[BitsBefore(data, pos % BucketSize)]

LEMMA DisplaceIs == displace = [pos \in Positions |-> DisplaceAt(m_data, pos)]
BY DEF displace, DisplaceAt

LEMMA DisplaceIsNext == displace' = [pos \in Positions |-> DisplaceAt(m_data', pos)]
BY DEF displace, DisplaceAt

LEMMA DisplaceOfString ==
  ASSUME NEW data_of, NEW bits, NEW vals, NEW start, NEW pos \in Positions,
         IsString(data_of[pos \div BucketSize], bits, SizeOf(pos \div BucketSize), vals, start)
  PROVE  DisplaceAt(data_of, pos) = vals[pos % BucketSize]
<1> DEFINE b == pos \div BucketSize
           k == pos % BucketSize
           n == SizeOf(b)
           data == data_of[b]
           value == [bit \in Nat |-> Value(data, bit)]
<1>1. b \in Buckets /\ k \in 0..(n - 1) /\ n \in Nat \ {0}
  BY PositionOf, SizeIsPositive
<1>2. IsString(data, bits, n, vals, start)
  OBVIOUS
<1>3. DisplaceAt(data_of, pos) = value[BitsBefore(data, k)]
  BY DEF DisplaceAt
<1> HIDE DEF b, k, n, data
<1>4. k \in 0..n
  BY <1>1
<1>5. BitsBefore(data, k) = start[k]
  BY <1>1, <1>2, <1>4, BitsBeforeCode
<1>6. ReadsCode(data, bits, vals, start, k)
  BY <1>1, <1>2, CodesOfString
<1>7. start[k] \in Nat /\ Value(data, start[k]) = vals[k]
  BY <1>6 DEF ReadsCode
<1> QED
  BY <1>3, <1>5, <1>7 DEF k

(* What a call reads at its offset is the displacement of its position.    *)
LEMMA DisplaceHere ==
  ASSUME IInv, NEW at, Running(at), m_elem_cursor = call.offset
  PROVE  CalledAt \in Positions /\ displace[CalledAt] = Existing
<1>1. /\ m_bucket_cursor \in Buckets /\ CalledAt \in Positions
      /\ call.offset \in 0..(SizeOf(m_bucket_cursor) - 1)
  BY AtCursor, RunningCall
<1>2. CalledAt \div BucketSize = m_bucket_cursor /\ CalledAt % BucketSize = call.offset
  BY <1>1, PositionAt DEF CalledAt
<1>3. m_bit_cursor = BitsBefore(Data, call.offset) /\ m_bit_cursor \in Nat
  <2>1. m_bit_cursor \in 0..m_bits[m_bucket_cursor]
    BY TypeParts DEF IInv
  <2> QED
    BY <2>1 DEF IInv, CursorBetweenCodes
<1>4. DisplaceAt(m_data, CalledAt) = Existing
  BY <1>2, <1>3 DEF DisplaceAt, Existing, Data
<1> QED
  BY <1>1, <1>4, DisplaceIs

LEMMA RewriteSetsOne ==
  ASSUME IInv, Rewrite
  PROVE  displace' = [displace EXCEPT ![CalledAt] = call.val]
<1> DEFINE b == m_bucket_cursor
           k == call.offset
<1>1. Running("compare") /\ b \in Buckets
  BY AtCursor DEF Rewrite
<1>2. k \in 0..(SizeOf(b) - 1) /\ CalledAt \in Positions /\ CalledAt = b * BucketSize + k
  BY <1>1, RunningCall DEF CalledAt
<1>3. PICK vals, start, vals2, start2 : RewritesString(SizeOf(b), vals, start, vals2, start2)
  BY RewriteString
<1>4. ASSUME NEW pos \in Positions
      PROVE  DisplaceAt(m_data', pos) = IF pos = CalledAt THEN call.val ELSE DisplaceAt(m_data, pos)
  <2>1. /\ (pos \div BucketSize) * BucketSize + (pos % BucketSize) = pos
        /\ pos % BucketSize \in 0..(SizeOf(pos \div BucketSize) - 1)
        /\ pos \div BucketSize \in Buckets
    BY PositionOf
  <2>2. CASE pos \div BucketSize = b
    <3>1. /\ IsString(m_data[b], m_bits[b], SizeOf(b), vals, start)
          /\ IsString(m_data'[b], m_bits'[b], SizeOf(b), vals2, start2)
          /\ vals2 = [vals EXCEPT ![k] = call.val]
          /\ vals \in [0..(SizeOf(b) - 1) -> Displacements]
      BY <1>3 DEF RewritesString, Data
    <3>2. /\ DisplaceAt(m_data, pos) = vals[pos % BucketSize]
          /\ DisplaceAt(m_data', pos) = vals2[pos % BucketSize]
      <4>1. /\ IsString(m_data[pos \div BucketSize], m_bits[b],
                        SizeOf(pos \div BucketSize), vals, start)
            /\ IsString(m_data'[pos \div BucketSize], m_bits'[b],
                        SizeOf(pos \div BucketSize), vals2, start2)
        BY <2>2, <3>1
      <4>2. DisplaceAt(m_data, pos) = vals[pos % BucketSize]
        BY <4>1, DisplaceOfString
      <4>3. DisplaceAt(m_data', pos) = vals2[pos % BucketSize]
        BY <4>1, DisplaceOfString
      <4> QED
        BY <4>2, <4>3
    <3>3. pos = CalledAt <=> pos % BucketSize = k
      <4>1. CalledAt % BucketSize = k
        BY <1>1, <1>2, PositionAt DEF CalledAt
      <4> QED
        BY <1>2, <2>1, <2>2, <4>1
    <3> QED
      BY <1>2, <2>1, <2>2, <3>1, <3>2, <3>3
  <2>3. CASE pos \div BucketSize # b
    <3>1. m_data'[pos \div BucketSize] = m_data[pos \div BucketSize]
      BY <2>1, <2>3 DEF Rewrite, IInv, Strings
    <3>2. CalledAt \div BucketSize = b
      BY <1>1, <1>2, PositionAt DEF CalledAt
    <3>3. DisplaceAt(m_data', pos) = DisplaceAt(m_data, pos)
      BY <3>1 DEF DisplaceAt
    <3> QED
      BY <2>3, <3>2, <3>3
  <2> QED
    BY <2>2, <2>3
<1> QED
  BY <1>2, <1>4, DisplaceIs, DisplaceIsNext

LEMMA SameDataSameArray == ASSUME m_data' = m_data PROVE displace' = displace
BY DisplaceIs, DisplaceIsNext

LEMMA ArrayInitially == Init => A!Init
<1> SUFFICES ASSUME Init PROVE A!Init
  OBVIOUS
<1>1. ASSUME NEW pos \in Positions PROVE DisplaceAt(m_data, pos) = 0
  <2> DEFINE b == pos \div BucketSize
             n == SizeOf(b)
  <2>1. b \in Buckets /\ pos % BucketSize \in 0..(n - 1) /\ n \in Nat \ {0}
    BY PositionOf, SizeIsPositive
  <2>2. m_bits[b] = n
    <3>1. 1 * n = n
      BY <2>1
    <3> QED
      BY <2>1, <3>1, ZeroCode DEF Init
  <2>3. m_data[b] = [i \in Bits(bits2alloc(n)) |-> IF i < n THEN CodeBit(0, 0) ELSE 0]
    BY <2>1, <2>2 DEF Init, Bits
  <2> DEFINE vals == [j \in 0..(n - 1) |-> 0]
             start == [j \in 0..n |-> j]
  <2>4. vals[pos % BucketSize] = 0
    BY <2>1
  <2> HIDE DEF n
  <2>5. IsString([i \in Bits(bits2alloc(n)) |-> IF i < n THEN CodeBit(0, 0) ELSE 0],
                 n, n, vals, start)
    BY <2>1, ZeroString
  <2> HIDE DEF vals, start
  <2>6. IsString(m_data[b], n, n, vals, start)
    BY <2>3, <2>5
  <2>7. DisplaceAt(m_data, pos) = vals[pos % BucketSize]
    BY <2>6, DisplaceOfString DEF n
  <2> QED
    BY <2>4, <2>7
<1>2. displace = [pos \in Positions |-> 0]
  BY <1>1, DisplaceIs
<1> QED
  BY <1>2 DEF Init, A!Init, A!Positions, Positions, A!Nothing, Nothing

LEMMA ArraySteps == IInv /\ [Next]_vars => [A!Next]_(A!vars)
<1> SUFFICES ASSUME IInv, [Next]_vars PROVE [A!Next]_(A!vars)
  OBVIOUS
<1>1. ASSUME m_data' = m_data, done' = done PROVE UNCHANGED A!vars
  BY <1>1, SameDataSameArray DEF A!vars
<1>2. ASSUME NEW pos \in Positions, NEW op, NEW val, Call(op, pos, val)
      PROVE  UNCHANGED A!vars
  BY <1>1, <1>2 DEF Call
<1>3. CASE SeekBack \/ SeekOn \/ ReadExisting \/ FinishSet \/ UNCHANGED vars
  BY <1>1, <1>3 DEF SeekBack, SeekOn, ReadExisting, FinishSet, vars
<1>4. CASE FinishGet
  <2>1. CalledAt \in Positions /\ displace[CalledAt] = Existing
    BY <1>4, DisplaceHere DEF FinishGet, Found
  <2>2. displace' = displace
    BY <1>4, SameDataSameArray DEF FinishGet
  <2>3. done = Nothing
    BY <1>4 DEF FinishGet, Found, Running, IInv, CallInStep
  <2>4. A!get(CalledAt)
    BY <1>4, <2>1, <2>2, <2>3 DEF FinishGet, Existing, A!get, A!Nothing, Nothing
  <2> QED
    BY <2>1, <2>4 DEF A!Next, A!Positions, Positions
<1>5. CASE FoundEqual \/ Rewrite
  <2>1. Running("compare") /\ done' = <<"set", CalledAt, call.val>>
    BY <1>5 DEF FoundEqual, Rewrite
  <2>2. /\ call.val \in Values /\ m_elem_cursor = call.offset /\ call.existing = Existing
        /\ done = Nothing /\ CalledAt \in Positions
    BY <2>1, Compared, DisplaceHere
  <2>3. displace' = [displace EXCEPT ![CalledAt] = call.val]
    <3>1. CASE FoundEqual
      <4>1. displace' = displace
        BY <3>1, SameDataSameArray DEF FoundEqual
      <4>2. displace[CalledAt] = call.val
        BY <2>1, <2>2, <3>1, DisplaceHere DEF FoundEqual
      <4> QED
        BY <2>2, <4>1, <4>2, DisplaceIs
    <3>2. CASE Rewrite
      BY <3>2, RewriteSetsOne
    <3> QED
      BY <1>5, <3>1, <3>2
  <2>4. A!set(CalledAt, call.val)
    BY <2>1, <2>2, <2>3 DEF A!set, A!Nothing, Nothing
  <2> QED
    BY <2>2, <2>4 DEF A!Next, A!Positions, Positions
<1>6. CASE ReadBack
  <2>1. displace' = displace
    BY <1>6, ReadBackChangesNothing, SameDataSameArray DEF IInv
  <2> QED
    BY Zenon, <1>6, <2>1 DEF ReadBack, A!ReadBack, A!Next, A!Nothing, Nothing
<1>7. CASE GoOn
  BY <1>7, SameDataSameArray DEF GoOn, A!GoOn, A!Next, A!Nothing, Nothing
<1> QED
  BY <1>2, <1>3, <1>4, <1>5, <1>6, <1>7 DEF Next, Step, get, set

(* A get returns what was last set at its position, and a set changes that *)
(* displacement and no other, by whatever reads, rewrites and shifts of    *)
(* bits elias_gamma_displacement_table_t gets there.                       *)
THEOREM EliasGammaImplementsArray == BucketsFit /\ Spec => RefinesArray
BY IInvInitially, IInvKept, ArrayInitially, ArraySteps, PTL DEF Spec, A!Spec, RefinesArray

(* A table that is written into a stream and read back has the same        *)
(* displacements (equal_check) if its buckets were allocated: the default  *)
(* configuration must have no fewer of them than the one that was written. *)
THEOREM EliasGammaStreamKeepsArray == BucketsFit /\ Spec => ReadsBackEqual
<1>1. IInv /\ [Next]_vars => [ReadBack => displace' = displace]_vars
  BY ReadBackChangesNothing, SameDataSameArray DEF IInv
<1> QED
  BY IInvInitially, IInvKept, <1>1, PTL DEF Spec, ReadsBackEqual
================================================================================
