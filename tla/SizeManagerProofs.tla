-------------------------- MODULE SizeManagerProofs --------------------------
(***************************************************************************)
(* Facts about the operators of SizeManager, and about the least element   *)
(* of a set of naturals, which stands for the end of a loop of the code.   *)
(***************************************************************************)
EXTENDS SizeManager, WellFoundedInduction, TLAPS

(* A loop whose set of possible exits is not empty leaves at the first.    *)
LEMMA MinOfNaturals ==
  ASSUME NEW S, S \subseteq Nat, S # {}
  PROVE  /\ Min(S) \in S
         /\ \A y \in S : Min(S) <= y
<1>1. PICK x \in S : \A y \in S : ~(<<y, x>> \in OpToRel(<, Nat))
  BY NatLessThanWellFounded, WFMin, Zenon
<1>2. \A m, n \in Nat : <<m, n>> \in OpToRel(<, Nat) <=> m < n
  BY Zenon DEF OpToRel
<1>3. \A y \in S : ~(y < x)
  BY <1>1, <1>2, Zenon
<1>4. \A y \in S : x <= y
  BY <1>3
<1>5. QED
  BY <1>4 DEF Min

-------------------------------------------------------------------------------
(* Powers of two.  A recursive function is chosen among those that satisfy *)
(* its equation; that there is one is shown with its initial parts.        *)

IsPart(n, g) ==
  /\ g \in [0..n -> Nat \ {0}]
  /\ \A m \in 0..n : g[m] = IF m = 0 THEN 1 ELSE 2 * g[m - 1]

LEMMA PartsExist == \A n \in Nat : \E g : IsPart(n, g)
<1> DEFINE S == {n \in Nat : ~ \E g : IsPart(n, g)}
<1> SUFFICES ASSUME S # {} PROVE FALSE
  OBVIOUS
<1>1. PICK n \in S : \A m \in S : n <= m
  BY MinOfNaturals, Zenon
<1>2. n # 0
  <2>1. IsPart(0, [m \in 0..0 |-> 1])
    BY DEF IsPart
  <2>2. QED
    BY <2>1
<1>3. PICK g : IsPart(n - 1, g)
  <2>1. n - 1 \in Nat /\ n - 1 \notin S
    BY <1>1, <1>2
  <2>2. QED
    BY <2>1
<1>4. IsPart(n, [m \in 0..n |-> IF m = n THEN 2 * g[n - 1] ELSE g[m]])
  BY <1>2, <1>3 DEF IsPart
<1>5. QED
  BY <1>1, <1>4

LEMMA PartsAgree ==
  ASSUME NEW n \in Nat, NEW m \in Nat, NEW g, NEW h, IsPart(n, g), IsPart(m, h)
  PROVE  \A k \in 0..n : k <= m => g[k] = h[k]
<1> DEFINE S == {k \in 0..n : k <= m /\ g[k] # h[k]}
<1> SUFFICES ASSUME S # {} PROVE FALSE
  OBVIOUS
<1>1. PICK k \in S : \A j \in S : k <= j
  <2>1. S \subseteq Nat
    OBVIOUS
  <2>2. QED
    BY <2>1, MinOfNaturals, Zenon
<1>2. CASE k = 0
  BY <1>1, <1>2 DEF IsPart
<1>3. CASE k # 0
  <2>1. k - 1 \in 0..n /\ k - 1 \notin S
    BY <1>1, <1>3
  <2>2. g[k - 1] = h[k - 1]
    BY <2>1
  <2>3. QED
    BY <1>1, <1>3, <2>2 DEF IsPart
<1>4. QED
  BY <1>2, <1>3

(* The shifts 1 << n double from each n to the next.                       *)
THEOREM PowersDouble ==
  /\ pow2[0] = 1
  /\ \A n \in Nat : pow2[n] \in Nat \ {0} /\ pow2[n + 1] = 2 * pow2[n]
<1> DEFINE part(n) == CHOOSE g : IsPart(n, g)
           F == [n \in Nat |-> part(n)[n]]
<1>1. \A n \in Nat : IsPart(n, part(n))
  BY PartsExist
<1>2. \A n \in Nat : F[n] = part(n)[n] /\ F[n] \in Nat \ {0}
  BY <1>1 DEF IsPart
<1>3. \A n \in Nat : n # 0 => part(n)[n - 1] = F[n - 1]
  <2> SUFFICES ASSUME NEW n \in Nat, n # 0 PROVE part(n)[n - 1] = part(n - 1)[n - 1]
    OBVIOUS
  <2> HIDE DEF part
  <2>1. n - 1 \in Nat
    OBVIOUS
  <2>2. IsPart(n, part(n)) /\ IsPart(n - 1, part(n - 1))
    BY <1>1, <2>1
  <2>3. QED
    BY <2>1, <2>2, PartsAgree
<1> HIDE DEF F
<1>4. \A n \in Nat : F[n] = IF n = 0 THEN 1 ELSE 2 * F[n - 1]
  <2> SUFFICES ASSUME NEW n \in Nat PROVE F[n] = IF n = 0 THEN 1 ELSE 2 * F[n - 1]
    OBVIOUS
  <2> HIDE DEF part
  <2>1. IsPart(n, part(n)) /\ n \in 0..n
    BY <1>1
  <2>2. part(n)[n] = IF n = 0 THEN 1 ELSE 2 * part(n)[n - 1]
    BY <2>1 DEF IsPart
  <2>3. QED
    BY <2>2, <1>2, <1>3
<1>5. F = [n \in Nat |-> IF n = 0 THEN 1 ELSE 2 * F[n - 1]]
  <2>1. F = [n \in Nat |-> F[n]]
    BY DEF F
  <2>2. QED
    BY <2>1, <1>4
<1>6. pow2 = [n \in Nat |-> IF n = 0 THEN 1 ELSE 2 * pow2[n - 1]]
  BY <1>5 DEF pow2
<1>7. pow2[0] = 1 /\ \A n \in Nat : pow2[n + 1] = 2 * pow2[n]
  BY <1>6
<1> DEFINE S == {n \in Nat : pow2[n] \notin Nat \ {0}}
<1>8. S = {}
  <2> SUFFICES ASSUME S # {} PROVE FALSE
    OBVIOUS
  <2>1. PICK n \in S : \A m \in S : n <= m
    BY MinOfNaturals, Zenon
  <2>2. n # 0
    BY <2>1, <1>7
  <2>3. n - 1 \in Nat /\ n - 1 \notin S
    BY <2>1, <2>2
  <2>4. pow2[n] = 2 * pow2[n - 1] /\ pow2[n - 1] \in Nat \ {0}
    BY <2>3, <1>7
  <2>5. QED
    BY <2>1, <2>4
<1>9. QED
  BY <1>7, <1>8

(* Shifting by the sum of two numbers is shifting by both.                 *)
THEOREM PowerOfSum == \A m, n \in Nat : pow2[m + n] = pow2[m] * pow2[n]
<1> SUFFICES ASSUME NEW m \in Nat PROVE \A n \in Nat : pow2[m + n] = pow2[m] * pow2[n]
  OBVIOUS
<1> DEFINE S == {n \in Nat : pow2[m + n] # pow2[m] * pow2[n]}
<1> SUFFICES ASSUME S # {} PROVE FALSE
  OBVIOUS
<1>1. PICK n \in S : \A k \in S : n <= k
  BY MinOfNaturals, Zenon
<1>2. n # 0
  BY <1>1, PowersDouble
<1>3. n - 1 \in Nat /\ n - 1 \notin S
  BY <1>1, <1>2
<1>4. pow2[m + (n - 1)] = pow2[m] * pow2[n - 1]
  BY <1>3
<1>5. pow2[m + n] = 2 * pow2[m + (n - 1)] /\ pow2[n] = 2 * pow2[n - 1]
  <2>1. m + (n - 1) \in Nat /\ (m + (n - 1)) + 1 = m + n /\ (n - 1) + 1 = n
    BY <1>3
  <2>2. QED
    BY <2>1, <1>3, PowersDouble
<1>6. /\ pow2[m] \in Nat /\ pow2[n - 1] \in Nat
      /\ 2 * (pow2[m] * pow2[n - 1]) = pow2[m] * (2 * pow2[n - 1])
  BY <1>3, PowersDouble
<1>7. QED
  BY <1>1, <1>4, <1>5, <1>6

LEMMA PowerExceeds == \A n \in Nat : n < pow2[n]
<1> DEFINE S == {n \in Nat : ~(n < pow2[n])}
<1> SUFFICES ASSUME S # {} PROVE FALSE
  OBVIOUS
<1>1. PICK n \in S : \A k \in S : n <= k
  BY MinOfNaturals, Zenon
<1>2. n # 0
  BY <1>1, PowersDouble
<1>3. n - 1 \in Nat /\ n - 1 \notin S
  BY <1>1, <1>2
<1>4. pow2[n] = 2 * pow2[n - 1] /\ pow2[n - 1] \in Nat
  BY <1>3, PowersDouble
<1>5. QED
  BY <1>1, <1>3, <1>4

LEMMA PowerMonotonic ==
  ASSUME NEW m \in Nat, NEW n \in Nat
  PROVE  /\ m <= n => pow2[m] <= pow2[n]
         /\ m < n => pow2[m] < pow2[n]
<1>1. ASSUME m <= n PROVE pow2[m] <= pow2[n] /\ (m < n => pow2[m] < pow2[n])
  <2>1. n - m \in Nat /\ m + (n - m) = n
    BY <1>1
  <2>2. pow2[n] = pow2[m] * pow2[n - m]
    BY <2>1, PowerOfSum
  <2>3. pow2[m] \in Nat \ {0} /\ pow2[n - m] \in Nat /\ n - m < pow2[n - m]
    BY <2>1, PowersDouble, PowerExceeds
  <2>4. \A a \in Nat \ {0}, b \in Nat : b >= 1 => a <= a * b /\ (b >= 2 => a < a * b)
    OBVIOUS
  <2>5. QED
    BY <2>1, <2>2, <2>3, <2>4
<1>2. QED
  BY <1>1

(* A capacity is kept as its logarithm, which gives it back                *)
(* (size_manager_t::capacity, log2_upper).                                 *)
THEOREM CapacityFromLog2 ==
  ASSUME NEW n, is_pot(n)
  PROVE  n \in Nat \ {0} /\ log2_upper(n) \in Nat /\ pow2[log2_upper(n)] = n
<1>1. PICK e \in 0..n : n = pow2[e]
  BY DEF is_pot
<1>2. e \in Nat
  BY <1>1
<1>3. n \in Nat \ {0} /\ pow2[e + 1] = 2 * n
  BY <1>1, <1>2, PowersDouble
<1>4. pow2[e] <= n /\ n < pow2[e + 1]
  BY <1>1, <1>3
<1>5. \A d \in 0..n : pow2[d] <= n /\ n < pow2[d + 1] => d = e
  <2> SUFFICES ASSUME NEW d \in 0..n, pow2[d] <= n, n < pow2[d + 1] PROVE d = e
    OBVIOUS
  <2>1. d \in Nat /\ pow2[d] \in Nat /\ pow2[d + 1] \in Nat
    BY <1>3, PowersDouble
  <2>2. ~(e < d)
    BY <2>1, <1>1, <1>2, <1>3, PowerMonotonic
  <2>3. ~(d + 1 <= e)
    BY <2>1, <1>1, <1>2, <1>3, PowerMonotonic
  <2>4. QED
    BY <2>1, <2>2, <2>3, <1>2
<1>6. log2_upper(n) = e
  BY <1>1, <1>4, <1>5 DEF log2_upper
<1>7. QED
  BY <1>1, <1>2, <1>3, <1>6

LEMMA PowerIsPot == \A e \in Nat : is_pot(pow2[e])
BY PowerExceeds, PowersDouble DEF is_pot

LEMMA DoublingKeepsPot ==
  ASSUME NEW capacity, is_pot(capacity), NEW n \in Nat
  PROVE  is_pot(capacity * pow2[n])
<1>1. log2_upper(capacity) \in Nat /\ capacity = pow2[log2_upper(capacity)]
  BY CapacityFromLog2
<1>2. capacity * pow2[n] = pow2[log2_upper(capacity) + n]
  BY <1>1, PowerOfSum
<1>3. QED
  BY <1>1, <1>2, PowerIsPot
-------------------------------------------------------------------------------
(* Walking forward from a position stays in the table, and the distance    *)
(* walked is what mod_sub computes (size_manager_t::mod_add, mod_sub).     *)
THEOREM ModAddSub ==
  ASSUME NEW capacity \in Nat, NEW v \in 0..(capacity - 1), NEW k \in 0..(capacity - 1)
  PROVE  /\ mod_add(capacity, v, k) \in 0..(capacity - 1)
         /\ mod_sub(capacity, mod_add(capacity, v, k), v) = k
         /\ mod_sub(capacity, mod_add(capacity, v, k), k) = v
BY SMT DEF mod_add, mod_sub

(* Every position is reached from every other by walking the distance      *)
(* mod_sub computes, and going back by that distance leads to the start.   *)
THEOREM ModSubAdd ==
  ASSUME NEW capacity \in Nat, NEW v \in 0..(capacity - 1), NEW p \in 0..(capacity - 1)
  PROVE  /\ mod_sub(capacity, p, v) \in 0..(capacity - 1)
         /\ mod_add(capacity, v, mod_sub(capacity, p, v)) = p
         /\ mod_sub(capacity, p, mod_sub(capacity, p, v)) = v
BY SMT DEF mod_add, mod_sub

(* A table that needs not grow for new_size elements keeps a position free *)
(* for probes to end at, whatever the load factor                          *)
(* (size_manager_t::needs_to_grow_capacity).                               *)
THEOREM NoGrowthLeavesRoom ==
  ASSUME NEW lf, lf.num \in Nat, lf.den \in Nat \ {0},
         NEW capacity \in Nat \ {0}, NEW new_size \in Nat,
         ~needs_to_grow_capacity(lf, capacity, new_size)
  PROVE  new_size < capacity
<1> DEFINE limits == {capacity - 1, (capacity * lf.num) \div lf.den}
<1>1. capacity * lf.num \in Nat
  OBVIOUS
<1>2. (capacity * lf.num) \div lf.den \in Nat
  BY <1>1
<1>3. limits \subseteq Nat /\ limits # {}
  BY <1>2
<1>4. Min(limits) <= capacity - 1 /\ Min(limits) \in Nat
  <2>1. Min(limits) \in limits /\ \A y \in limits : Min(limits) <= y
    BY <1>3, MinOfNaturals
  <2>2. QED
    BY <2>1, <1>3
<1>5. ~(Min(limits) < new_size)
  BY DEF needs_to_grow_capacity, trigger_capacity
<1>6. QED
  BY <1>4, <1>5

(* A table that need not grow for some elements need not for fewer.        *)
LEMMA FewerNeedNotGrow ==
  ASSUME NEW lf, lf.num \in Nat, lf.den \in Nat \ {0}, NEW capacity \in Nat \ {0},
         NEW m \in Nat, NEW n \in Nat, n <= m,
         ~needs_to_grow_capacity(lf, capacity, m)
  PROVE  ~needs_to_grow_capacity(lf, capacity, n)
<1> DEFINE limits == {capacity - 1, (capacity * lf.num) \div lf.den}
<1>1. capacity * lf.num \in Nat
  OBVIOUS
<1>2. (capacity * lf.num) \div lf.den \in Nat
  BY <1>1
<1>3. limits \subseteq Nat /\ limits # {}
  BY <1>2
<1>4. Min(limits) \in Nat
  BY <1>3, MinOfNaturals
<1>5. ~(Min(limits) < m)
  BY DEF needs_to_grow_capacity, trigger_capacity
<1> HIDE DEF limits
<1>6. ~(Min(limits) < n)
  BY <1>4, <1>5
<1>7. QED
  BY <1>6 DEF needs_to_grow_capacity, trigger_capacity, limits

(* The loop that doubles the capacity ends, at the first of the doubled    *)
(* capacities at which the table need not grow for new_size elements       *)
(* (grow_if_needed of hashset_t and hashmap_t).                            *)
THEOREM GrownCapacitySuffices ==
  ASSUME NEW lf, lf.num \in Nat \ {0}, lf.den \in Nat \ {0},
         NEW capacity, is_pot(capacity), NEW new_size \in Nat
  PROVE  LET grown == grown_capacity(lf, capacity, new_size)
         IN  /\ is_pot(grown) /\ capacity <= grown
             /\ \E n \in Nat : grown = capacity * pow2[n]
             /\ ~needs_to_grow_capacity(lf, grown, new_size)
             /\ \A n \in Nat : ~needs_to_grow_capacity(lf, capacity * pow2[n], new_size)
                                 => grown <= capacity * pow2[n]
<1> DEFINE N == lf.den + new_size
           Sizes == {cap \in {capacity * pow2[n] : n \in 0..N} :
                       ~needs_to_grow_capacity(lf, cap, new_size)}
           last == capacity * pow2[N]
<1>1. capacity \in Nat \ {0} /\ N \in Nat
  BY CapacityFromLog2
<1>2. pow2[lf.den] \in Nat /\ lf.den < pow2[lf.den]
      /\ pow2[new_size] \in Nat /\ new_size < pow2[new_size]
      /\ pow2[N] = pow2[lf.den] * pow2[new_size]
  BY PowersDouble, PowerExceeds, PowerOfSum
<1>3. lf.den * (new_size + 1) <= pow2[N]
  <2>1. \A a, b, c, d \in Nat : a <= c /\ b <= d => a * b <= c * d
    <3> SUFFICES ASSUME NEW a \in Nat, NEW b \in Nat, NEW c \in Nat, NEW d \in Nat,
                        a <= c, b <= d
                 PROVE  a * b <= c * d
      OBVIOUS
    <3>1. a * b <= a * d
      OBVIOUS
    <3>2. a * d <= c * d
      OBVIOUS
    <3>3. QED
      BY <3>1, <3>2
  <2>2. new_size + 1 \in Nat /\ new_size + 1 <= pow2[new_size] /\ lf.den <= pow2[lf.den]
    BY <1>2
  <2>3. QED
    BY <2>1, <2>2, <1>2
<1>4. lf.den * (new_size + 1) <= last /\ last \in Nat
  <2>1. \A a \in Nat \ {0}, b \in Nat : b <= a * b
    OBVIOUS
  <2>2. pow2[N] \in Nat
    BY <1>1, PowersDouble
  <2>3. pow2[N] <= last /\ last \in Nat
    BY <1>1, <2>1, <2>2
  <2>4. lf.den * (new_size + 1) \in Nat
    OBVIOUS
  <2>5. QED
    BY <1>3, <2>2, <2>3, <2>4
<1>5. new_size <= last - 1
  <2>1. \A a \in Nat \ {0}, b \in Nat : b <= a * b
    OBVIOUS
  <2>2. new_size + 1 <= lf.den * (new_size + 1)
    BY <2>1
  <2>3. lf.den * (new_size + 1) \in Nat
    OBVIOUS
  <2>4. QED
    BY <1>4, <2>2, <2>3
<1>6. new_size <= (last * lf.num) \div lf.den
  <2> HIDE DEF last
  <2>1. \A a \in Nat \ {0}, b \in Nat : b <= b * a
    OBVIOUS
  <2>2. last <= last * lf.num /\ last * lf.num \in Nat
    BY <1>4, <2>1
  <2>3. lf.den * new_size <= last * lf.num
    <3>1. lf.den * (new_size + 1) = lf.den * new_size + lf.den
      OBVIOUS
    <3>2. lf.den * new_size \in Nat
      OBVIOUS
    <3>3. QED
      BY <1>4, <2>2, <3>1, <3>2
  <2>4. \A x \in Nat, d \in Nat \ {0}, m \in Nat : d * m <= x => m <= x \div d
    OBVIOUS
  <2>5. QED
    BY <2>2, <2>3, <2>4
<1>7. ~needs_to_grow_capacity(lf, last, new_size)
  <2> DEFINE limits == {last - 1, (last * lf.num) \div lf.den}
  <2>1. last * lf.num \in Nat /\ (last * lf.num) \div lf.den \in Nat
    <3>1. last * lf.num \in Nat
      BY <1>4
    <3>2. QED
      BY <3>1
  <2>2. last - 1 \in Nat
    BY <1>4, <1>5
  <2>3. limits \subseteq Nat /\ limits # {}
    BY <2>1, <2>2
  <2>4. Min(limits) \in limits
    BY <2>3, MinOfNaturals
  <2> HIDE DEF last
  <2>5. ~(Min(limits) < new_size)
    BY <2>1, <2>2, <2>4, <1>5, <1>6
  <2>6. QED
    BY <2>5 DEF needs_to_grow_capacity, trigger_capacity
<1>8. Sizes # {} /\ Sizes \subseteq Nat
  <2>1. last \in Sizes
    BY <1>1, <1>7
  <2>2. \A n \in 0..N : capacity * pow2[n] \in Nat
    BY <1>1, PowersDouble
  <2>3. QED
    BY <2>1, <2>2
<1>9. Min(Sizes) \in Sizes /\ \A cap \in Sizes : Min(Sizes) <= cap
  BY <1>8, MinOfNaturals
<1>10. PICK n \in 0..N : Min(Sizes) = capacity * pow2[n]
  BY <1>9
<1>11. is_pot(Min(Sizes)) /\ capacity <= Min(Sizes)
  <2>1. n \in Nat /\ pow2[n] \in Nat \ {0}
    BY <1>1, <1>10, PowersDouble
  <2>2. is_pot(capacity * pow2[n])
    BY <2>1, DoublingKeepsPot
  <2>3. \A a \in Nat, b \in Nat \ {0} : a <= a * b
    OBVIOUS
  <2>4. capacity <= capacity * pow2[n]
    BY <1>1, <2>1, <2>3
  <2>5. QED
    BY <1>10, <2>2, <2>4
<1>12. ASSUME NEW m \in Nat, ~needs_to_grow_capacity(lf, capacity * pow2[m], new_size)
       PROVE  Min(Sizes) <= capacity * pow2[m]
  <2>1. CASE m <= N
    <3>1. capacity * pow2[m] \in Sizes
      BY <1>1, <1>12, <2>1
    <3>2. QED
      BY <3>1, <1>9
  <2>2. CASE N < m
    <3>1. pow2[N] <= pow2[m] /\ pow2[N] \in Nat /\ pow2[m] \in Nat
      BY <1>1, <2>2, PowerMonotonic, PowersDouble
    <3>2. \A a, b, c \in Nat : b <= c => a * b <= a * c
      OBVIOUS
    <3>3. last <= capacity * pow2[m] /\ capacity * pow2[m] \in Nat
      BY <3>1, <3>2, <1>1
    <3>4. last \in Sizes
      BY <1>1, <1>7
    <3>5. Min(Sizes) <= last /\ Min(Sizes) \in Nat
      BY <3>4, <1>8, <1>9
    <3> HIDE DEF Sizes, last
    <3>6. QED
      BY <3>3, <3>5, <1>4
  <2>3. QED
    BY <2>1, <2>2, <1>1
<1>13. grown_capacity(lf, capacity, new_size) = Min(Sizes)
  BY DEF grown_capacity
<1>14. n \in Nat /\ ~needs_to_grow_capacity(lf, Min(Sizes), new_size)
  BY <1>1, <1>9, <1>10
<1> HIDE DEF Sizes, N, last
<1>15. QED
  BY <1>10, <1>11, <1>12, <1>13, <1>14

(* A table that grows in several steps, each for some of the elements that *)
(* are to come, ends with no larger capacity than one that grows once for  *)
(* all of them (grow_if_needed, called by every insertion of a move_into). *)
THEOREM GrownInStepsNoFurther ==
  ASSUME NEW lf, lf.num \in Nat \ {0}, lf.den \in Nat \ {0},
         NEW capacity \in Nat \ {0}, is_pot(capacity),
         NEW total \in Nat, NEW first \in Nat, first <= total,
         NEW rest \in Nat, rest <= total,
         NEW reached, reached \in {capacity, grown_capacity(lf, capacity, first)}
  PROVE  grown_capacity(lf, reached, rest) <= grown_capacity(lf, capacity, total)
<1> DEFINE final == grown_capacity(lf, capacity, total)
           grown == grown_capacity(lf, capacity, first)
<1>1. /\ \E n \in Nat : final = capacity * pow2[n]
      /\ ~needs_to_grow_capacity(lf, final, total)
  BY GrownCapacitySuffices
<1>2. /\ is_pot(grown) /\ capacity <= grown
      /\ \E n \in Nat : grown = capacity * pow2[n]
      /\ \A n \in Nat : ~needs_to_grow_capacity(lf, capacity * pow2[n], first)
                            => grown <= capacity * pow2[n]
  BY GrownCapacitySuffices
<1> HIDE DEF final, grown
<1>3. PICK k \in Nat : final = capacity * pow2[k]
  BY <1>1
<1>4. PICK j \in Nat : grown = capacity * pow2[j]
  BY <1>2
<1>5. \A a, b \in Nat \ {0} : a * b \in Nat \ {0}
  OBVIOUS
<1>6. /\ pow2[k] \in Nat \ {0} /\ pow2[j] \in Nat \ {0}
      /\ final \in Nat \ {0} /\ grown \in Nat \ {0}
  BY <1>3, <1>4, <1>5, PowersDouble
<1>7. ~needs_to_grow_capacity(lf, final, first) /\ ~needs_to_grow_capacity(lf, final, rest)
  BY <1>1, <1>6, FewerNeedNotGrow
<1>8. ASSUME NEW from \in Nat \ {0}, is_pot(from), NEW n \in Nat, final = from * pow2[n]
      PROVE  grown_capacity(lf, from, rest) <= final
  <2>1. ~needs_to_grow_capacity(lf, from * pow2[n], rest)
    BY <1>7, <1>8
  <2>2. grown_capacity(lf, from, rest) <= from * pow2[n]
    BY <1>8, <2>1, GrownCapacitySuffices
  <2>3. QED
    BY <1>8, <2>2
<1>9. CASE reached = capacity
  BY <1>3, <1>8, <1>9 DEF final
<1>10. CASE reached = grown
  <2>1. grown <= final
    BY <1>2, <1>3, <1>7
  <2>2. j <= k
    <3> SUFFICES ASSUME k < j PROVE FALSE
      OBVIOUS
    <3>1. pow2[k] < pow2[j]
      BY PowerMonotonic
    <3>2. \A a \in Nat \ {0}, b, c \in Nat : b < c => a * b < a * c
      OBVIOUS
    <3>3. final < grown
      BY <1>3, <1>4, <1>6, <3>1, <3>2
    <3>4. QED
      BY <1>6, <2>1, <3>3
  <2>3. k - j \in Nat /\ j + (k - j) = k
    BY <2>2
  <2>4. pow2[k] = pow2[j] * pow2[k - j] /\ pow2[k - j] \in Nat
    <3>1. pow2[j + (k - j)] = pow2[j] * pow2[k - j]
      BY <2>3, PowerOfSum
    <3>2. QED
      BY <2>3, <3>1, PowersDouble
  <2>5. \A a, b, c \in Nat : a * (b * c) = (a * b) * c
    OBVIOUS
  <2>6. final = grown * pow2[k - j]
    BY <1>3, <1>4, <1>6, <2>4, <2>5
  <2>7. grown_capacity(lf, grown, rest) <= final
    BY <1>2, <1>6, <1>8, <2>3, <2>6
  <2>8. QED
    BY <1>10, <2>7 DEF final
<1>11. QED
  BY <1>9, <1>10 DEF grown

(* A hash value is composed again from the address and the quotient it is  *)
(* split into, whatever the capacity: no key of a rebuild is lost or       *)
(* merged with another (decompose_hashed_value, compose_hashed_value).     *)
THEOREM DecomposeIsLossless ==
  ASSUME NEW capacity \in Nat \ {0}, NEW hres \in Nat
  PROVE  LET dkey == decompose_hashed_value(capacity, hres)
         IN  /\ dkey.initial_address \in 0..(capacity - 1)
             /\ dkey.stored_quotient \in Nat
             /\ compose_hashed_value(capacity, dkey.initial_address, dkey.stored_quotient) = hres
BY SMT DEF decompose_hashed_value, compose_hashed_value

(* And two stored keys that differ stand for different hash values.        *)
THEOREM ComposeIsInjective ==
  ASSUME NEW capacity \in Nat \ {0},
         NEW address \in 0..(capacity - 1), NEW quotient \in Nat
  PROVE  decompose_hashed_value(capacity, compose_hashed_value(capacity, address, quotient))
           = [initial_address |-> address, stored_quotient |-> quotient]
<1> DEFINE hres == compose_hashed_value(capacity, address, quotient)
<1>1. hres \in Nat /\ hres = quotient * capacity + address
  BY SMT DEF compose_hashed_value
<1>2. hres % capacity = address /\ hres \div capacity = quotient
  BY <1>1, SMT
<1>3. decompose_hashed_value(capacity, hres)
        = [initial_address |-> hres % capacity, stored_quotient |-> hres \div capacity]
  BY DEF decompose_hashed_value
<1>4. QED
  BY <1>2, <1>3, Zenon

-------------------------------------------------------------------------------
LEMMA ReadsItem ==
  ASSUME NEW in, NEW k, NEW type, NEW val, k \in DOMAIN in, in[k] = Item(type, val)
  PROVE  ReadItem(in, k, type) = val
BY DEF ReadItem, Item

(* A sizing is read back as it was written, whatever follows it in the     *)
(* stream (serialize<size_manager_t>).                                     *)
THEOREM SizingReadsBack ==
  ASSUME NEW t, is_pot(t.capacity), NEW in, 1..3 \subseteq DOMAIN in,
         \A k \in 1..3 : in[k] = write_sizing(t)[k]
  PROVE  read_sizing(in) = [capacity |-> t.capacity, size |-> t.size,
                            load_factor |-> t.load_factor]
<1>1. /\ in[1] = Item(uint8, log2_upper(t.capacity)) /\ in[2] = Item(size_t, t.size)
      /\ in[3] = Item(floating, t.load_factor)
  BY DEF write_sizing
<1>2. 1 \in DOMAIN in /\ 2 \in DOMAIN in /\ 3 \in DOMAIN in
  OBVIOUS
<1>3. ReadItem(in, 1, uint8) = log2_upper(t.capacity)
  BY <1>1, <1>2, ReadsItem
<1>4. ReadItem(in, 2, size_t) = t.size
  BY <1>1, <1>2, ReadsItem
<1>5. ReadItem(in, 3, floating) = t.load_factor
  BY <1>1, <1>2, ReadsItem
<1>6. pow2[log2_upper(t.capacity)] = t.capacity
  BY CapacityFromLog2
<1>7. QED
  BY <1>3, <1>4, <1>5, <1>6 DEF read_sizing
==============================================================================
