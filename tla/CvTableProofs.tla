---------------------------- MODULE CvTableProofs ----------------------------
(***************************************************************************)
(* Proofs about CvTable, for every capacity, all addresses and quotients.  *)
(* The inductive invariant IInv says that the v and c bits hold an address *)
(* for every element (Grouped): seen from any free position, the addresses *)
(* grow with the positions, a c bit stands where the address changes, and  *)
(* the v bits are the addresses of the elements.                           *)
(***************************************************************************)
EXTENDS CvTable, SizeManagerProofs, FiniteSetTheorems

Used(sl) == {p \in Positions : sl[p] # EMPTY}

(* How far a position is behind f, around the end of the table.            *)
Place(f, p) == mod_sub(Capacity, p, f)

(* home is the address of every element, as seen from f: from its address  *)
(* to the element all is occupied, the addresses grow with the positions,  *)
(* a c bit stands where the address changes, every v bit has elements, and *)
(* no two elements of an address have the same quotient.                   *)
Reaches(f, sl, vb, home) ==
    \A p \in Used(sl) :
       /\ vb[home[p]]
       /\ Place(f, home[p]) <= Place(f, p)
       /\ \A q \in Positions :
             Place(f, home[p]) <= Place(f, q) /\ Place(f, q) <= Place(f, p) => q \in Used(sl)

Ordered(f, sl, home) ==
    \A p, q \in Used(sl) :
       Place(f, p) < Place(f, q) => Place(f, home[p]) <= Place(f, home[q])

Starts(f, sl, cb, home) ==
    \A p \in Positions :
       cb[p] <=> /\ p \in Used(sl)
                 /\ \A q \in Used(sl) : Place(f, q) < Place(f, p) => home[q] # home[p]

Addressed(sl, vb, home) ==
    \A a \in Positions : vb[a] => \E p \in Used(sl) : home[p] = a

Distinct(sl, home) ==
    \A p, q \in Used(sl) : home[p] = home[q] /\ sl[p] = sl[q] => p = q

Grouped(f, sl, vb, cb, home) ==
    /\ Reaches(f, sl, vb, home)
    /\ Ordered(f, sl, home)
    /\ Starts(f, sl, cb, home)
    /\ Addressed(sl, vb, home)
    /\ Distinct(sl, home)

Homes == [Positions -> Positions]

IsHome(home) == \A f \in Positions \ Used(slot) : Grouped(f, slot, v, c, home)

(* The inductive invariant.                                                *)
IInv ==
    /\ TypeOK
    /\ Cardinality(Used(slot)) <= MaxEntries
    /\ \E home \in Homes : IsHome(home)
-------------------------------------------------------------------------------
(* Places.                                                                 *)

LEMMA CapacityNat == Capacity \in Nat /\ Capacity >= 2 /\ MaxEntries \in 1..(Capacity - 1)
BY CapacityAssumption, MaxEntriesAssumption

LEMMA Places ==
  ASSUME NEW f \in Positions, NEW p \in Positions
  PROVE  /\ Place(f, p) \in Positions /\ mod_add(Capacity, f, Place(f, p)) = p
         /\ Place(f, p) \in Nat /\ Place(f, p) < Capacity
         /\ Place(f, p) = 0 <=> p = f
         /\ p # f => Prev1(p) \in Positions /\ Place(f, Prev1(p)) = Place(f, p) - 1
         /\ Next1(p) # f => Next1(p) \in Positions /\ Place(f, Next1(p)) = Place(f, p) + 1
BY CapacityNat DEF Positions, Place, Prev1, Next1, mod_add, mod_sub

LEMMA PlacesDiffer ==
  ASSUME NEW f \in Positions, NEW p \in Positions, NEW q \in Positions,
         Place(f, p) = Place(f, q)
  PROVE  p = q
BY CapacityNat DEF Positions, Place, mod_sub

(* What is at a place.                                                     *)
LEMMA PlaceOf ==
  ASSUME NEW f \in Positions, NEW x \in Positions
  PROVE  mod_add(Capacity, f, x) \in Positions /\ Place(f, mod_add(Capacity, f, x)) = x
BY CapacityNat DEF Positions, Place, mod_add, mod_sub

(* Going forward and backward without coming over f.                       *)
LEMMA PlacesBehind ==
  ASSUME NEW f \in Positions, NEW p \in Positions, NEW q \in Positions,
         Place(f, p) <= Place(f, q)
  PROVE  /\ mod_sub(Capacity, q, p) = Place(f, q) - Place(f, p)
BY CapacityNat DEF Positions, Place, mod_sub

LEMMA PlacesForward ==
  ASSUME NEW f \in Positions, NEW p \in Positions, NEW k \in Nat,
         Place(f, p) + k < Capacity
  PROVE  /\ mod_add(Capacity, p, k) \in Positions
         /\ Place(f, mod_add(Capacity, p, k)) = Place(f, p) + k
BY CapacityNat DEF Positions, Place, mod_sub, mod_add

LEMMA PlacesBackward ==
  ASSUME NEW f \in Positions, NEW p \in Positions, NEW k \in Nat,
         k <= Place(f, p)
  PROVE  /\ mod_sub(Capacity, p, k) \in Positions
         /\ Place(f, mod_sub(Capacity, p, k)) = Place(f, p) - k
BY CapacityNat DEF Positions, Place, mod_sub, mod_add
-------------------------------------------------------------------------------
(* An element goes between the elements that are not behind its address    *)
(* and those that are, and these move on to the next free position.        *)

(* Where what is at p comes from, if [e, t) moves on.                      *)
Source(f, e, t, p) ==
    IF Place(f, e) < Place(f, p) /\ Place(f, p) <= Place(f, t) THEN Prev1(p) ELSE p

LEMMA Sources ==
  ASSUME NEW f \in Positions, NEW e \in Positions, NEW t \in Positions,
         Place(f, e) <= Place(f, t)
  PROVE  /\ \A p \in Positions \ {e} :
               /\ Source(f, e, t, p) \in Positions \ {t}
               /\ Place(f, Source(f, e, t, p)) =
                    IF Place(f, e) < Place(f, p) /\ Place(f, p) <= Place(f, t)
                    THEN Place(f, p) - 1 ELSE Place(f, p)
         /\ \A p, q \in Positions \ {e} :
               Place(f, p) < Place(f, q) <=>
                 Place(f, Source(f, e, t, p)) < Place(f, Source(f, e, t, q))
         /\ \A q \in Positions \ {t} : \E p \in Positions \ {e} : q = Source(f, e, t, p)
<1>1. ASSUME NEW p \in Positions \ {e}
      PROVE  /\ Source(f, e, t, p) \in Positions \ {t}
             /\ Place(f, Source(f, e, t, p)) =
                  IF Place(f, e) < Place(f, p) /\ Place(f, p) <= Place(f, t)
                  THEN Place(f, p) - 1 ELSE Place(f, p)
  <2>1. /\ Place(f, p) \in Nat /\ Place(f, e) \in Nat /\ Place(f, t) \in Nat
        /\ Place(f, p) # Place(f, e)
        /\ Place(f, p) = 0 <=> p = f
        /\ p # f => Prev1(p) \in Positions /\ Place(f, Prev1(p)) = Place(f, p) - 1
    BY Places, PlacesDiffer
  <2>2. QED
    BY <2>1 DEF Source
<1>2. ASSUME NEW p \in Positions \ {e}, NEW q \in Positions \ {e}
      PROVE  Place(f, p) < Place(f, q) <=>
               Place(f, Source(f, e, t, p)) < Place(f, Source(f, e, t, q))
  <2>1. /\ Place(f, p) \in Nat /\ Place(f, q) \in Nat
        /\ Place(f, e) \in Nat /\ Place(f, t) \in Nat
        /\ Place(f, p) # Place(f, e) /\ Place(f, q) # Place(f, e)
    BY Places, PlacesDiffer
  <2>2. QED
    BY <1>1, <2>1
<1>3. ASSUME NEW q \in Positions \ {t}
      PROVE  \E p \in Positions \ {e} : q = Source(f, e, t, p)
  <2>1. /\ Place(f, q) \in Nat /\ Place(f, e) \in Nat /\ Place(f, t) \in Nat
        /\ Place(f, q) # Place(f, t) /\ Place(f, t) < Capacity
    BY Places, PlacesDiffer
  <2>2. CASE Place(f, e) <= Place(f, q) /\ Place(f, q) < Place(f, t)
    <3>1. PICK p \in Positions : Place(f, p) = Place(f, q) + 1
      <4>1. mod_add(Capacity, q, 1) \in Positions
            /\ Place(f, mod_add(Capacity, q, 1)) = Place(f, q) + 1
        BY <2>1, <2>2, PlacesForward, CapacityNat
      <4>2. QED
        BY <4>1
    <3>2. p # e /\ Prev1(p) = q
      <4>1. p # f
        BY <2>1, <3>1, Places
      <4>2. Prev1(p) \in Positions /\ Place(f, Prev1(p)) = Place(f, q)
        BY <2>1, <3>1, <4>1, Places
      <4>3. QED
        BY <2>1, <2>2, <3>1, <4>2, PlacesDiffer
    <3>4. q = Source(f, e, t, p)
      BY <2>1, <2>2, <3>1, <3>2 DEF Source
    <3>5. QED
      BY <3>2, <3>4
  <2>3. CASE ~(Place(f, e) <= Place(f, q) /\ Place(f, q) < Place(f, t))
    <3>1. q # e /\ q = Source(f, e, t, q)
      BY <2>1, <2>3 DEF Source
    <3>2. QED
      BY <3>1
  <2>4. QED
    BY <2>2, <2>3
<1>4. QED
  BY <1>1, <1>2, <1>3

(* An element of address a with quotient sq has come to e, and what was in *)
(* [e, t) has moved on.                                                    *)
Inserted(f, sl, vb, cb, home, sl2, vb2, cb2, home2, e, t, a, sq) ==
    /\ \A p \in Positions \ {e} : /\ sl2[p] = sl[Source(f, e, t, p)]
                                  /\ cb2[p] = cb[Source(f, e, t, p)]
                                  /\ home2[p] = home[Source(f, e, t, p)]
    /\ sl2[e] = sq /\ cb2[e] = ~vb[a] /\ home2[e] = a
    /\ \A b \in Positions : vb2[b] = (b = a \/ vb[b])

(* e is where an element of address a goes, in front of the free t.        *)
GoesTo(f, sl, home, e, t, a, sq) ==
    /\ f \notin Used(sl) /\ t \notin Used(sl) /\ f # t
    /\ Place(f, a) <= Place(f, e) /\ Place(f, e) <= Place(f, t)
    /\ \A q \in Positions :
          Place(f, a) <= Place(f, q) /\ Place(f, q) < Place(f, t) => q \in Used(sl)
    /\ \A p \in Used(sl) : Place(f, home[p]) <= Place(f, a) <=> Place(f, p) < Place(f, e)
    /\ \A p \in Used(sl) : home[p] = a => sl[p] # sq
    /\ sq # EMPTY

LEMMA InsertGrouped ==
  ASSUME NEW sl, NEW vb \in [Positions -> BOOLEAN], NEW cb \in [Positions -> BOOLEAN],
         NEW home \in Homes,
         NEW sl2, NEW vb2 \in [Positions -> BOOLEAN], NEW cb2 \in [Positions -> BOOLEAN],
         NEW home2 \in Homes,
         NEW f \in Positions, NEW e \in Positions, NEW t \in Positions, NEW a \in Positions,
         NEW sq,
         Grouped(f, sl, vb, cb, home),
         GoesTo(f, sl, home, e, t, a, sq),
         Inserted(f, sl, vb, cb, home, sl2, vb2, cb2, home2, e, t, a, sq)
  PROVE  Grouped(f, sl2, vb2, cb2, home2)
<1> DEFINE S(p) == Source(f, e, t, p)
<1> DEFINE shifted(p) == Place(f, e) < Place(f, p) /\ Place(f, p) <= Place(f, t)
<1>1. \A p \in Positions : Place(f, p) \in Nat
  BY Places
<1>2. \A p \in Positions \ {e} :
         /\ S(p) \in Positions \ {t}
         /\ Place(f, S(p)) = IF shifted(p) THEN Place(f, p) - 1 ELSE Place(f, p)
         /\ ~shifted(p) => S(p) = p
  BY Sources DEF GoesTo, Source
<1>3. \A p, q \in Positions \ {e} : Place(f, p) < Place(f, q) <=> Place(f, S(p)) < Place(f, S(q))
  BY Sources DEF GoesTo
<1>4. \A q \in Positions \ {t} : \E p \in Positions \ {e} : q = S(p)
  BY Sources DEF GoesTo
<1>5. \A p, q \in Positions : Place(f, p) = Place(f, q) => p = q
  BY PlacesDiffer
<1>6. \A p \in Positions : home[p] \in Positions
  BY DEF Homes
<1>7. /\ \A p \in Positions \ {e} : sl2[p] = sl[S(p)] /\ cb2[p] = cb[S(p)] /\ home2[p] = home[S(p)]
      /\ sl2[e] = sq /\ cb2[e] = ~vb[a] /\ home2[e] = a
      /\ \A b \in Positions : vb2[b] = (b = a \/ vb[b])
  BY DEF Inserted
<1> HIDE DEF S
<1>8. /\ e \in Used(sl2)
      /\ \A p \in Positions \ {e} : p \in Used(sl2) <=> S(p) \in Used(sl)
      /\ Used(sl) \subseteq Positions /\ Used(sl2) \subseteq Positions
  BY <1>2, <1>7 DEF Used, GoesTo
<1>9. \A q \in Positions : Place(f, a) <= Place(f, q) /\ Place(f, q) < Place(f, t) => q \in Used(sl)
  BY DEF GoesTo
<1>10. \A p \in Positions \ {e} : shifted(p) => S(p) \in Used(sl)
  <2> SUFFICES ASSUME NEW p \in Positions \ {e}, shifted(p) PROVE S(p) \in Used(sl)
    OBVIOUS
  <2>1. Place(f, S(p)) = Place(f, p) - 1 /\ S(p) \in Positions
    BY <1>2
  <2>2. Place(f, a) <= Place(f, S(p)) /\ Place(f, S(p)) < Place(f, t)
    BY <1>1, <2>1 DEF GoesTo
  <2>3. QED
    BY <1>9, <2>1, <2>2
<1>11. \A p \in Used(sl2) \ {e} : /\ S(p) \in Used(sl)
                                  /\ Place(f, home2[p]) <= Place(f, a) <=> Place(f, p) < Place(f, e)
  <2> SUFFICES ASSUME NEW p \in Used(sl2) \ {e}
               PROVE  /\ S(p) \in Used(sl)
                      /\ Place(f, home2[p]) <= Place(f, a) <=> Place(f, p) < Place(f, e)
    OBVIOUS
  <2>1. S(p) \in Used(sl) /\ home2[p] = home[S(p)] /\ p \in Positions
    BY <1>7, <1>8
  <2>2. Place(f, S(p)) < Place(f, e) <=> Place(f, p) < Place(f, e)
    BY <1>1, <1>2, <2>1 DEF GoesTo
  <2>3. QED
    BY <2>1, <2>2 DEF GoesTo
<1>12. Reaches(f, sl2, vb2, home2)
  <2> SUFFICES ASSUME NEW p \in Used(sl2)
               PROVE  /\ vb2[home2[p]]
                      /\ Place(f, home2[p]) <= Place(f, p)
                      /\ \A q \in Positions :
                            Place(f, home2[p]) <= Place(f, q) /\ Place(f, q) <= Place(f, p) =>
                              q \in Used(sl2)
    BY DEF Reaches
  <2>1. CASE p = e
    <3>1. vb2[home2[p]] /\ Place(f, home2[p]) <= Place(f, p)
      BY <1>7, <2>1 DEF GoesTo
    <3>2. ASSUME NEW q \in Positions, Place(f, a) <= Place(f, q), Place(f, q) <= Place(f, e)
          PROVE  q \in Used(sl2)
      <4>1. CASE q = e
        BY <1>8, <4>1
      <4>2. CASE q # e
        <5>1. Place(f, q) < Place(f, e) /\ ~shifted(q)
          BY <1>1, <1>5, <3>2, <4>2
        <5>2. q \in Used(sl) /\ S(q) = q
          BY <1>1, <1>2, <1>9, <3>2, <4>2, <5>1 DEF GoesTo
        <5>3. QED
          BY <1>8, <4>2, <5>2
      <4>3. QED
        BY <4>1, <4>2
    <3>3. QED
      BY <1>7, <2>1, <3>1, <3>2
  <2>2. CASE p # e
    <3>1. S(p) \in Used(sl) /\ home2[p] = home[S(p)] /\ p \in Positions /\ home[S(p)] \in Positions
      BY <1>6, <1>7, <1>8, <2>2
    <3>2. /\ vb[home[S(p)]] /\ Place(f, home[S(p)]) <= Place(f, S(p))
          /\ \A q \in Positions :
                Place(f, home[S(p)]) <= Place(f, q) /\ Place(f, q) <= Place(f, S(p)) => q \in Used(sl)
      BY <3>1 DEF Grouped, Reaches
    <3>3. Place(f, S(p)) <= Place(f, p)
      BY <1>1, <1>2, <2>2, <3>1
    <3>4. ASSUME NEW q \in Positions, Place(f, home[S(p)]) <= Place(f, q), Place(f, q) <= Place(f, p)
          PROVE  q \in Used(sl2)
      <4>1. CASE q = e
        BY <1>8, <4>1
      <4>2. CASE q # e /\ shifted(q)
        BY <1>8, <1>10, <4>2
      <4>3. CASE q # e /\ ~shifted(q)
        <5>1. S(q) = q
          BY <1>2, <4>3
        <5>2. Place(f, q) <= Place(f, S(p))
          <6>1. CASE shifted(p)
            <7>1. p # q
              BY <4>3, <6>1
            <7>2. Place(f, p) # Place(f, q)
              BY <1>5, <3>1, <7>1
            <7>3. QED
              BY <1>1, <1>2, <2>2, <3>1, <3>4, <6>1, <7>2
          <6>2. CASE ~shifted(p)
            BY <1>2, <2>2, <3>1, <3>4, <6>2
          <6>3. QED
            BY <6>1, <6>2
        <5>3. QED
          BY <1>8, <3>2, <3>4, <4>3, <5>1, <5>2
      <4>4. QED
        BY <4>1, <4>2, <4>3
    <3>5. Place(f, home[S(p)]) <= Place(f, p)
      <4>1. Place(f, home[S(p)]) \in Nat /\ Place(f, S(p)) \in Nat /\ Place(f, p) \in Nat
        BY <1>1, <1>8, <3>1
      <4>2. QED
        BY <3>2, <3>3, <4>1
    <3>6. QED
      BY <1>7, <3>1, <3>2, <3>4, <3>5
  <2>3. QED
    BY <2>1, <2>2
<1>13. Ordered(f, sl2, home2)
  <2> SUFFICES ASSUME NEW p \in Used(sl2), NEW q \in Used(sl2), Place(f, p) < Place(f, q)
               PROVE  Place(f, home2[p]) <= Place(f, home2[q])
    BY DEF Ordered
  <2>1. /\ Place(f, p) \in Nat /\ Place(f, q) \in Nat /\ Place(f, e) \in Nat /\ Place(f, a) \in Nat
        /\ Place(f, home2[p]) \in Nat /\ Place(f, home2[q]) \in Nat
    BY <1>1, <1>8 DEF Homes
  <2>2. CASE p # e /\ q # e
    <3>1. Place(f, S(p)) < Place(f, S(q))
      BY <1>3, <1>8, <2>2
    <3>2. QED
      BY <1>7, <1>8, <1>11, <2>2, <3>1 DEF Grouped, Ordered
  <2>3. CASE p = e
    BY <1>7, <1>11, <2>1, <2>3
  <2>4. CASE q = e
    BY <1>7, <1>11, <2>1, <2>4
  <2>5. QED
    BY <2>2, <2>3, <2>4
<1>14. Starts(f, sl2, cb2, home2)
  <2> SUFFICES ASSUME NEW p \in Positions
               PROVE  cb2[p] <=> /\ p \in Used(sl2)
                                 /\ \A q \in Used(sl2) : Place(f, q) < Place(f, p) => home2[q] # home2[p]
    BY DEF Starts
  <2>1. CASE p = e
    <3>1. ASSUME vb[a] PROVE \E q \in Used(sl2) : Place(f, q) < Place(f, e) /\ home2[q] = a
      <4>1. PICK r \in Used(sl) : home[r] = a
        BY <3>1 DEF Grouped, Addressed
      <4>2. Place(f, a) \in Nat /\ Place(f, r) \in Nat /\ Place(f, e) \in Nat /\ r \in Positions
        BY <1>1, <1>8
      <4>3. Place(f, r) < Place(f, e)
        BY <4>1, <4>2 DEF GoesTo
      <4>4. r # e /\ ~shifted(r)
        BY <4>2, <4>3
      <4>5. S(r) = r
        BY <1>2, <4>2, <4>4
      <4>6. QED
        BY <1>7, <1>8, <4>1, <4>2, <4>3, <4>4, <4>5
    <3>2. ASSUME ~vb[a], NEW q \in Used(sl2), Place(f, q) < Place(f, e) PROVE home2[q] # a
      <4>1. q # e
        BY <1>1, <3>2
      <4>2. S(q) \in Used(sl) /\ home2[q] = home[S(q)]
        BY <1>7, <1>8, <4>1
      <4>3. QED
        BY <3>2, <4>2 DEF Grouped, Reaches
    <3>3. QED
      BY <1>7, <1>8, <2>1, <3>1, <3>2
  <2>2. CASE p # e
    <3>1. cb2[p] <=> /\ S(p) \in Used(sl)
                     /\ \A r \in Used(sl) : Place(f, r) < Place(f, S(p)) => home[r] # home[S(p)]
      BY <1>2, <1>7, <2>2 DEF Grouped, Starts
    <3>2. p \in Used(sl2) <=> S(p) \in Used(sl)
      BY <1>8, <2>2
    <3>3. ASSUME cb2[p], NEW q \in Used(sl2), Place(f, q) < Place(f, p)
          PROVE  home2[q] # home2[p]
      <4>1. CASE q = e
        <5>1. p \in Used(sl2) \ {e}
          BY <2>2, <3>1, <3>2, <3>3
        <5>2. ~(Place(f, home2[p]) <= Place(f, a))
          BY <1>1, <1>11, <3>3, <4>1, <5>1
        <5>3. QED
          BY <1>1, <1>7, <4>1, <5>2
      <4>2. CASE q # e
        <5>1. S(q) \in Used(sl) /\ Place(f, S(q)) < Place(f, S(p))
          BY <1>3, <1>8, <2>2, <3>3, <4>2
        <5>2. QED
          BY <1>7, <1>8, <2>2, <3>1, <3>3, <4>2, <5>1
      <4>3. QED
        BY <4>1, <4>2
    <3>4. ASSUME p \in Used(sl2),
                 \A q \in Used(sl2) : Place(f, q) < Place(f, p) => home2[q] # home2[p],
                 NEW r \in Used(sl), Place(f, r) < Place(f, S(p))
          PROVE  home[r] # home[S(p)]
      <4>1. r \in Positions \ {t}
        BY <1>8 DEF GoesTo
      <4>2. PICK q \in Positions \ {e} : r = S(q)
        BY <1>4, <4>1
      <4>3. q \in Used(sl2) /\ Place(f, q) < Place(f, p)
        BY <1>3, <1>8, <2>2, <3>4, <4>2
      <4>4. QED
        BY <1>7, <2>2, <3>4, <4>2, <4>3
    <3>5. QED
      BY <3>1, <3>2, <3>3, <3>4
  <2>3. QED
    BY <2>1, <2>2
<1>15. Addressed(sl2, vb2, home2)
  <2> SUFFICES ASSUME NEW b \in Positions, vb2[b] PROVE \E p \in Used(sl2) : home2[p] = b
    BY DEF Addressed
  <2>1. CASE b = a
    BY <1>7, <1>8, <2>1
  <2>2. CASE b # a
    <3>1. PICK r \in Used(sl) : home[r] = b
      BY <1>7, <2>2 DEF Grouped, Addressed
    <3>2. r \in Positions \ {t}
      BY <1>8 DEF GoesTo
    <3>3. PICK q \in Positions \ {e} : r = S(q)
      BY <1>4, <3>2
    <3>4. QED
      BY <1>7, <1>8, <3>1, <3>3
  <2>3. QED
    BY <2>1, <2>2
<1>16. Distinct(sl2, home2)
  <2> SUFFICES ASSUME NEW p \in Used(sl2), NEW q \in Used(sl2),
                      home2[p] = home2[q], sl2[p] = sl2[q]
               PROVE  p = q
    BY DEF Distinct
  <2>1. CASE p # e /\ q # e
    <3>1. S(p) \in Used(sl) /\ S(q) \in Used(sl) /\ p \in Positions /\ q \in Positions
      BY <1>8, <2>1
    <3>2. S(p) = S(q)
      BY <1>7, <2>1, <3>1 DEF Grouped, Distinct
    <3>3. ~(Place(f, p) < Place(f, q)) /\ ~(Place(f, q) < Place(f, p))
      <4>1. Place(f, S(p)) \in Nat /\ Place(f, S(q)) = Place(f, S(p))
        BY <1>1, <1>8, <3>1, <3>2
      <4>2. QED
        BY <1>3, <2>1, <3>1, <4>1
    <3>4. QED
      BY <1>1, <1>5, <3>1, <3>3
  <2>2. CASE p = e /\ q # e
    BY <1>7, <1>8, <2>2 DEF GoesTo
  <2>3. CASE q = e /\ p # e
    BY <1>7, <1>8, <2>3 DEF GoesTo
  <2>4. QED
    BY <2>1, <2>2, <2>3
<1>17. QED
  BY <1>12, <1>13, <1>14, <1>15, <1>16 DEF Grouped
-------------------------------------------------------------------------------
(* What the shifts do: everything from `from` to the free position `to`    *)
(* moves one to the right, around the end of the table if it has to.       *)
Moves(from, to, p) == p # from /\ mod_sub(Capacity, p, from) <= mod_sub(Capacity, to, from)

LEMMA SparseShifts ==
  ASSUME NEW s, NEW from \in Positions, NEW to \in Nat, from < to, to <= Capacity
  PROVE  /\ sparse_shift(s, from, to)[from] = s[to - 1]
         /\ \A p \in Positions : sparse_shift(s, from, to)[p] =
              IF p = from THEN s[to - 1]
              ELSE IF p > from /\ p < to THEN s[p - 1] ELSE s[p]
<1>1. ASSUME NEW p \in Positions
      PROVE  sparse_shift(s, from, to)[p] =
               IF p = from THEN s[to - 1] ELSE IF p > from /\ p < to THEN s[p - 1] ELSE s[p]
  <2>1. p \in (from + 1)..(to - 1) <=> p > from /\ p < to
    BY CapacityNat DEF Positions
  <2>2. QED
    BY <2>1 DEF sparse_shift
<1>2. QED
  BY <1>1

LEMMA ShiftIs ==
  ASSUME slot \in [Positions -> Quotients \cup {EMPTY}],
         NEW from \in Positions, NEW to \in Positions, from # to, NEW sq
  PROVE  /\ shift_elements_and_insert(from, to, sq)[from] = sq
         /\ \A p \in Positions \ {from} :
              shift_elements_and_insert(from, to, sq)[p] =
                IF Moves(from, to, p) THEN slot[Prev1(p)] ELSE slot[p]
         /\ DOMAIN shift_elements_and_insert(from, to, sq) = Positions
<1> DEFINE upper == sparse_shift(slot, from, Capacity)
           lower == sparse_shift(upper, 0, to)
           shifted == CASE to > from           -> sparse_shift(slot, from, to)
                        [] to < from /\ to = 0 -> upper
                        [] to < from /\ to > 0 -> Swapped(lower, from, 0)
           r == [shifted EXCEPT ![to] = shifted[from], ![from] = sq]
<1>1. from \in Nat /\ to \in Nat /\ from < Capacity /\ to < Capacity /\ 0 \in Positions
      /\ Capacity \in Nat /\ from - 1 \in Int /\ to - 1 \in Int
  BY CapacityNat DEF Positions
<1>2. /\ upper[from] = slot[Capacity - 1] /\ DOMAIN upper = Positions
      /\ \A p \in Positions : upper[p] =
           IF p = from THEN slot[Capacity - 1] ELSE IF p > from THEN slot[p - 1] ELSE slot[p]
  <2>1. \A p \in Positions : p < Capacity
    BY CapacityNat DEF Positions
  <2>2. QED
    BY <1>1, <2>1, SparseShifts DEF sparse_shift
<1>3. shift_elements_and_insert(from, to, sq) = r
  BY DEF shift_elements_and_insert
<1>4. \A p \in Positions : p \in Nat /\ p < Capacity
  BY CapacityNat DEF Positions
<1>5. CASE to > from
  <2>1. shifted = sparse_shift(slot, from, to)
    BY <1>1, <1>5
  <2>2. /\ DOMAIN shifted = Positions /\ shifted[from] = slot[to - 1]
        /\ \A p \in Positions : shifted[p] =
              IF p = from THEN slot[to - 1] ELSE IF p > from /\ p < to THEN slot[p - 1] ELSE slot[p]
    BY <1>1, <1>5, <2>1, SparseShifts DEF sparse_shift
  <2> HIDE DEF shifted, upper, lower
  <2>3. /\ DOMAIN r = Positions /\ r[from] = sq
        /\ \A p \in Positions \ {from} :
             r[p] = IF p = to THEN slot[to - 1] ELSE IF p > from /\ p < to THEN slot[p - 1] ELSE slot[p]
    BY <2>2
  <2> HIDE DEF r
  <2>4. ASSUME NEW p \in Positions \ {from}
        PROVE  r[p] = IF Moves(from, to, p) THEN slot[Prev1(p)] ELSE slot[p]
    <3>1. Moves(from, to, p) <=> p > from /\ p <= to
      BY <1>1, <1>4, <1>5 DEF Moves, mod_sub
    <3>2. p > from => Prev1(p) = p - 1
      BY <1>1, <1>4 DEF Prev1, mod_sub
    <3>3. QED
      BY <1>1, <1>4, <1>5, <2>3, <3>1, <3>2
  <2>5. QED
    BY <1>3, <2>3, <2>4
<1>6. CASE to < from /\ to = 0
  <2>1. shifted = upper
    BY <1>1, <1>6
  <2> HIDE DEF shifted, upper, lower
  <2>3. /\ DOMAIN r = Positions /\ r[from] = sq
        /\ \A p \in Positions \ {from} :
             r[p] = IF p = 0 THEN slot[Capacity - 1] ELSE IF p > from THEN slot[p - 1] ELSE slot[p]
    BY <1>1, <1>2, <1>6, <2>1
  <2> HIDE DEF r
  <2>4. ASSUME NEW p \in Positions \ {from}
        PROVE  r[p] = IF Moves(from, to, p) THEN slot[Prev1(p)] ELSE slot[p]
    <3>1. Moves(from, to, p) <=> p > from \/ p = 0
      BY <1>1, <1>4, <1>6 DEF Moves, mod_sub
    <3>2. /\ p > from => Prev1(p) = p - 1
          /\ p = 0 => Prev1(p) = Capacity - 1
      BY <1>1, <1>4 DEF Prev1, mod_sub
    <3>3. QED
      BY <1>1, <1>4, <1>6, <2>3, <3>1, <3>2
  <2>5. QED
    BY <1>3, <2>3, <2>4
<1>7. CASE to < from /\ to > 0
  <2>1. shifted = Swapped(lower, from, 0)
    BY <1>1, <1>7
  <2>2. /\ DOMAIN lower = Positions
        /\ \A p \in Positions : lower[p] =
             IF p = 0 THEN upper[to - 1] ELSE IF p > 0 /\ p < to THEN upper[p - 1] ELSE upper[p]
    BY <1>1, <1>7, SparseShifts DEF sparse_shift
  <2>3. /\ lower[0] = slot[to - 1] /\ lower[from] = slot[Capacity - 1]
        /\ \A p \in Positions \ {0, from} :
             lower[p] = IF p < to \/ p > from THEN slot[p - 1] ELSE slot[p]
    <3>1. to - 1 \in Positions /\ upper[to - 1] = slot[to - 1]
      BY <1>1, <1>2, <1>7 DEF Positions
    <3>2. ASSUME NEW p \in Positions \ {0}, p < to PROVE upper[p - 1] = slot[p - 1]
      <4>1. p - 1 \in Positions /\ p - 1 < from
        BY <1>1, <1>4, <1>7, <3>2 DEF Positions
      <4>2. QED
        BY <1>1, <1>2, <4>1
    <3> HIDE DEF lower, upper
    <3>3. QED
      BY <1>1, <1>2, <1>4, <1>7, <2>2, <3>1, <3>2
  <2> HIDE DEF shifted, lower, upper
  <2>4. /\ DOMAIN shifted = Positions
        /\ shifted[from] = slot[to - 1] /\ shifted[0] = slot[Capacity - 1]
        /\ \A p \in Positions \ {0, from} :
             shifted[p] = IF p < to \/ p > from THEN slot[p - 1] ELSE slot[p]
    BY <1>1, <1>7, <2>1, <2>2, <2>3 DEF Swapped
  <2>5. /\ DOMAIN r = Positions /\ r[from] = sq
        /\ \A p \in Positions \ {from} :
             r[p] = IF p = 0 THEN slot[Capacity - 1]
                    ELSE IF p <= to \/ p > from THEN slot[p - 1] ELSE slot[p]
    BY <1>1, <1>4, <1>7, <2>4
  <2> HIDE DEF r
  <2>6. ASSUME NEW p \in Positions \ {from}
        PROVE  r[p] = IF Moves(from, to, p) THEN slot[Prev1(p)] ELSE slot[p]
    <3>1. Moves(from, to, p) <=> p > from \/ p <= to
      BY <1>1, <1>4, <1>7 DEF Moves, mod_sub
    <3>2. /\ p # 0 => Prev1(p) = p - 1
          /\ p = 0 => Prev1(p) = Capacity - 1
      BY <1>1, <1>4 DEF Prev1, mod_sub
    <3>3. QED
      BY <1>1, <1>4, <1>7, <2>5, <3>1, <3>2
  <2>7. QED
    BY <1>3, <2>5, <2>6
<1>8. QED
  BY <1>1, <1>5, <1>6, <1>7
-------------------------------------------------------------------------------
(* The search of a group.                                                  *)

LEMMA SameCount ==
  ASSUME NEW S, NEW U, IsFiniteSet(S), NEW g \in [S -> U],
         \A x, y \in S : g[x] = g[y] => x = y,
         \A u \in U : \E x \in S : g[x] = u
  PROVE  IsFiniteSet(U) /\ Cardinality(S) = Cardinality(U)
<1>1. g \in Injection(S, U)
  BY DEF Injection, IsInjective
<1>2. g \in Surjection(S, U)
  BY DEF Surjection
<1>3. ExistsBijection(S, U)
  BY <1>1, <1>2 DEF ExistsBijection, Bijection
<1>4. QED
  BY <1>3, FS_Bijection

LEMMA PositionsFinite ==
  /\ IsFiniteSet(Positions)
  /\ \A S : S \subseteq Positions => IsFiniteSet(S) /\ Cardinality(S) \in Nat
<1>1. IsFiniteSet(Positions) /\ Cardinality(Positions) = Capacity
  BY CapacityNat, FS_Interval DEF Positions
<1>2. QED
  BY <1>1, FS_Subset, FS_CardinalityType

(* One position is always free.                                            *)
LEMMA FreeExists ==
  ASSUME Cardinality(Used(slot)) <= MaxEntries
  PROVE  \E f \in Positions : f \notin Used(slot)
<1>1. Cardinality(Positions) = Capacity
  BY CapacityNat, FS_Interval DEF Positions
<1>2. Used(slot) \subseteq Positions
  BY DEF Used
<1>3. Used(slot) # Positions
  BY <1>1, CapacityNat
<1>4. QED
  BY <1>2, <1>3

(* Distances from the free position t back.                                *)
LEMMA Distances ==
  ASSUME NEW t \in Positions, NEW p \in Positions
  PROVE  /\ mod_sub(Capacity, t, p) \in Positions
         /\ mod_sub(Capacity, t, p) \in Nat /\ mod_sub(Capacity, t, p) < Capacity
         /\ mod_sub(Capacity, t, mod_sub(Capacity, t, p)) = p
         /\ mod_sub(Capacity, t, p) = 0 <=> p = t
         /\ p # t => mod_sub(Capacity, t, p) = Capacity - Place(t, p)
BY CapacityNat DEF Positions, Place, mod_sub

LEMMA NextFreeIs ==
  ASSUME Cardinality(Used(slot)) <= MaxEntries, NEW ia \in Used(slot)
  PROVE  /\ NextFree(ia) \in Positions /\ NextFree(ia) \notin Used(slot)
         /\ \A q \in Positions :
              Place(NextFree(ia), ia) <= Place(NextFree(ia), q) => q \in Used(slot)
<1> DEFINE ks == {k \in Positions : pos_is_empty(mod_add(Capacity, ia, k))}
           m == Min(ks)
           t == NextFree(ia)
<1>1. ia \in Positions
  BY DEF Used
<1>2. ks \subseteq Nat /\ ks # {}
  <2>1. PICK f \in Positions : f \notin Used(slot)
    BY FreeExists
  <2>2. mod_sub(Capacity, f, ia) \in ks
    BY <1>1, <2>1, ModSubAdd, CapacityNat DEF Positions, Used, pos_is_empty
  <2>3. QED
    BY <2>2, CapacityNat DEF Positions
<1>3. m \in ks /\ \A k \in ks : m <= k
  BY <1>2, MinOfNaturals
<1>4. t = mod_add(Capacity, ia, m)
  BY DEF NextFree
<1> HIDE DEF m, t
<1>5. t \in Positions /\ t \notin Used(slot) /\ mod_sub(Capacity, t, ia) = m
  BY <1>1, <1>3, <1>4, ModAddSub, CapacityNat DEF Positions, Used, pos_is_empty
<1>6. ASSUME NEW q \in Positions, Place(t, ia) <= Place(t, q) PROVE q \in Used(slot)
  <2>1. t # ia
    BY <1>5
  <2>2. Place(t, ia) > 0 /\ Place(t, ia) \in Nat /\ Place(t, q) \in Nat /\ Place(t, t) = 0
    BY <1>1, <1>5, <2>1, Places
  <2>3. q # t
    BY <1>6, <2>2
  <2>4. /\ mod_sub(Capacity, t, ia) = Capacity - Place(t, ia)
        /\ mod_sub(Capacity, t, q) = Capacity - Place(t, q)
        /\ mod_sub(Capacity, t, q) > 0
    BY <1>1, <1>5, <2>1, <2>3, Distances
  <2>5. mod_sub(Capacity, q, ia) = Place(t, q) - Place(t, ia)
    BY <1>1, <1>5, <1>6, PlacesBehind
  <2>6. mod_sub(Capacity, q, ia) \in Positions /\ mod_add(Capacity, ia, mod_sub(Capacity, q, ia)) = q
    BY <1>1, ModSubAdd, CapacityNat DEF Positions
  <2>7. mod_sub(Capacity, q, ia) < m
    BY <1>5, <2>2, <2>4, <2>5, CapacityNat
  <2>8. mod_sub(Capacity, q, ia) \notin ks
    BY <1>2, <1>3, <2>7
  <2>9. QED
    BY <2>6, <2>8 DEF Used, pos_is_empty
<1>7. QED
  BY <1>5, <1>6 DEF t

(* The walk back over a number of c bits ends at the last of them.         *)
LEMMA WalkBackIs ==
  ASSUME NEW t \in Positions, NEW n \in Positions,
         n = 0 \/ c[mod_sub(Capacity, t, n)]
  PROVE  Min({m \in 0..Capacity : GroupStartsBefore(t, m) = GroupStartsBefore(t, n)}) = n
<1> DEFINE B(m) == {k \in 1..m : c[mod_sub(Capacity, t, k)]}
           S == {m \in 0..Capacity : GroupStartsBefore(t, m) = GroupStartsBefore(t, n)}
<1>1. n \in Nat /\ n < Capacity /\ Capacity \in Nat
  BY CapacityNat DEF Positions
<1>2. n \in S
  BY <1>1
<1>3. ASSUME NEW m \in S, m < n PROVE FALSE
  <2>1. m \in Nat /\ n # 0
    BY <1>1, <1>3
  <2>2. n \in B(n) /\ n \notin B(m) /\ B(m) \subseteq B(n)
    BY <1>1, <1>3, <2>1
  <2>3. IsFiniteSet(B(n))
    <3>1. IsFiniteSet(1..n) /\ B(n) \subseteq 1..n
      BY <1>1, FS_Interval
    <3>2. QED
      BY <3>1, FS_Subset
  <2>4. Cardinality(B(m)) = Cardinality(B(n))
    BY <1>3 DEF GroupStartsBefore
  <2> HIDE DEF B
  <2>5. B(m) = B(n)
    BY <2>2, <2>3, <2>4, FS_Subset
  <2>6. QED
    BY <2>2, <2>5
<1>4. S \subseteq Nat
  BY <1>1
<1>5. Min(S) \in S /\ Min(S) <= n
  <2> HIDE DEF S
  <2>1. QED
    BY <1>2, <1>4, MinOfNaturals
<1>6. Min(S) \in Nat
  BY <1>4, <1>5
<1>7. QED
  BY <1>1, <1>3, <1>5, <1>6

(* The c bits counted are those of the positions passed.                   *)
LEMMA PassedStarts ==
  ASSUME NEW t \in Positions, NEW n \in Positions, ~c[t]
  PROVE  GroupStartsBefore(t, n) =
           Cardinality({p \in Positions : c[p] /\ mod_sub(Capacity, t, p) <= n})
<1> DEFINE S == {k \in 1..n : c[mod_sub(Capacity, t, k)]}
           U == {p \in Positions : c[p] /\ mod_sub(Capacity, t, p) <= n}
           g == [k \in S |-> mod_sub(Capacity, t, k)]
<1>1. n \in Nat /\ n < Capacity /\ Capacity \in Nat
  BY CapacityNat DEF Positions
<1>2. ASSUME NEW k \in S
      PROVE  /\ mod_sub(Capacity, t, k) \in Positions
             /\ mod_sub(Capacity, t, mod_sub(Capacity, t, k)) = k
             /\ k <= n /\ c[mod_sub(Capacity, t, k)]
  <2>1. k \in Positions
    BY <1>1 DEF Positions
  <2>2. QED
    BY <1>1, <2>1, Distances
<1>3. S \subseteq Positions
  BY <1>1 DEF Positions
<1>4. ASSUME NEW p \in U PROVE mod_sub(Capacity, t, p) \in S /\ g[mod_sub(Capacity, t, p)] = p
  <2>1. p # t
    OBVIOUS
  <2>2. /\ mod_sub(Capacity, t, p) \in Nat /\ mod_sub(Capacity, t, p) # 0
        /\ mod_sub(Capacity, t, p) <= n
        /\ mod_sub(Capacity, t, mod_sub(Capacity, t, p)) = p /\ c[p]
    BY <2>1, Distances
  <2>3. mod_sub(Capacity, t, p) \in S
    BY <1>1, <2>2
  <2>4. QED
    BY <2>2, <2>3
<1>5. /\ g \in [S -> U]
      /\ \A x, y \in S : g[x] = g[y] => x = y
  BY <1>2
<1>6. IsFiniteSet(S)
  <2> HIDE DEF S
  <2>1. QED
    BY <1>3, PositionsFinite
<1>7. GroupStartsBefore(t, n) = Cardinality(S)
  BY DEF GroupStartsBefore
<1> HIDE DEF S, U, g
<1>8. Cardinality(S) = Cardinality(U)
  BY <1>4, <1>5, <1>6, SameCount
<1>9. QED
  BY <1>7, <1>8 DEF U
-------------------------------------------------------------------------------
(* Groups and addresses, seen from the free position t.                    *)

(* An element's group starts at or before it.                              *)
LEMMA GroupStart ==
  ASSUME NEW sl, NEW vb, NEW cb, NEW t \in Positions, NEW home \in Homes,
         Grouped(t, sl, vb, cb, home), NEW p \in Used(sl)
  PROVE  \E s \in Used(sl) : cb[s] /\ home[s] = home[p] /\ Place(t, s) <= Place(t, p)
<1> DEFINE same == {q \in Used(sl) : home[q] = home[p]}
           places == {Place(t, q) : q \in same}
<1>1. \A q \in Used(sl) : q \in Positions /\ Place(t, q) \in Nat
  BY Places DEF Used
<1>2. places \subseteq Nat /\ places # {}
  BY <1>1
<1>3. Min(places) \in places /\ \A x \in places : Min(places) <= x
  <2> HIDE DEF places
  <2>1. QED
    BY <1>2, MinOfNaturals
<1>4. PICK s \in same : Place(t, s) = Min(places)
  BY <1>3
<1>5. \A q \in same : Place(t, s) <= Place(t, q)
  BY <1>3, <1>4
<1>6. \A q \in Used(sl) : Place(t, q) < Place(t, s) => home[q] # home[s]
  <2> SUFFICES ASSUME NEW q \in Used(sl), Place(t, q) < Place(t, s), home[q] = home[s]
               PROVE  FALSE
    OBVIOUS
  <2>1. q \in same /\ Place(t, q) \in Nat /\ Place(t, s) \in Nat
    BY <1>1
  <2>2. QED
    BY <1>5, <2>1
<1>7. cb[s]
  BY <1>1, <1>6 DEF Grouped, Starts
<1>8. QED
  BY <1>5, <1>7

(* The elements of the addresses from place b on: as many groups as v bits. *)
LEMMA CountsAgree ==
  ASSUME NEW t \in Positions, NEW home \in Homes, Grouped(t, slot, v, c, home), NEW b \in Nat
  PROVE  Cardinality({p \in Positions : c[p] /\ b <= Place(t, home[p])})
           = Cardinality({a \in Positions : v[a] /\ b <= Place(t, a)})
<1> DEFINE S == {p \in Positions : c[p] /\ b <= Place(t, home[p])}
           U == {a \in Positions : v[a] /\ b <= Place(t, a)}
           g == [p \in S |-> home[p]]
<1>1. \A p \in Positions : c[p] => p \in Used(slot)
  BY DEF Grouped, Starts
<1>2. \A p \in S : home[p] \in Positions /\ v[home[p]] /\ p \in Used(slot)
  BY <1>1 DEF Homes, Grouped, Reaches
<1>3. g \in [S -> U]
  BY <1>2
<1>4. ASSUME NEW p \in S, NEW q \in S, home[p] = home[q] PROVE p = q
  <2>1. /\ \A r \in Used(slot) : Place(t, r) < Place(t, p) => home[r] # home[p]
        /\ \A r \in Used(slot) : Place(t, r) < Place(t, q) => home[r] # home[q]
    BY DEF Grouped, Starts
  <2>2. ~(Place(t, p) < Place(t, q)) /\ ~(Place(t, q) < Place(t, p))
    BY <1>2, <1>4, <2>1
  <2>3. Place(t, p) \in Nat /\ Place(t, q) \in Nat
    BY Places
  <2>4. QED
    BY <2>2, <2>3, PlacesDiffer
<1>5. ASSUME NEW a \in U PROVE \E p \in S : g[p] = a
  <2>1. PICK p \in Used(slot) : home[p] = a
    BY DEF Grouped, Addressed
  <2>2. PICK s \in Used(slot) : c[s] /\ home[s] = home[p]
    BY GroupStart
  <2>3. s \in S
    BY <2>1, <2>2 DEF Used
  <2>4. QED
    BY <2>1, <2>2, <2>3
<1>6. IsFiniteSet(S)
  <2>1. S \subseteq Positions
    OBVIOUS
  <2>2. QED
    BY <2>1, PositionsFinite
<1>7. \A x, y \in S : g[x] = g[y] => x = y
  BY <1>4
<1> HIDE DEF S, U, g
<1>8. Cardinality(S) = Cardinality(U)
  BY <1>3, <1>5, <1>6, <1>7, SameCount
<1>9. QED
  BY <1>8 DEF S, U

(* Where the elements of the addresses from place b on begin, or t; the    *)
(* number of c bits behind it is the number of these addresses.            *)
LEMMA Boundary ==
  ASSUME NEW t \in Positions, NEW home \in Homes, Grouped(t, slot, v, c, home),
         t \notin Used(slot), NEW b \in Nat
  PROVE  \E y \in Positions :
            /\ y = t \/ (y \in Used(slot) /\ c[y])
            /\ \A p \in Used(slot) :
                  b <= Place(t, home[p]) <=> mod_sub(Capacity, t, p) <= mod_sub(Capacity, t, y)
            /\ GroupStartsBefore(t, mod_sub(Capacity, t, y))
                 = Cardinality({a \in Positions : v[a] /\ b <= Place(t, a)})
<1> DEFINE Z == {p \in Used(slot) : b <= Place(t, home[p])}
<1>1. \A p \in Used(slot) : /\ p \in Positions /\ p # t /\ home[p] \in Positions
                            /\ Place(t, p) \in Nat /\ Place(t, home[p]) \in Nat
                            /\ mod_sub(Capacity, t, p) = Capacity - Place(t, p)
                            /\ mod_sub(Capacity, t, p) \in Nat /\ mod_sub(Capacity, t, p) # 0
  <2> SUFFICES ASSUME NEW p \in Used(slot)
               PROVE  /\ p \in Positions /\ p # t /\ home[p] \in Positions
                      /\ Place(t, p) \in Nat /\ Place(t, home[p]) \in Nat
                      /\ mod_sub(Capacity, t, p) = Capacity - Place(t, p)
                      /\ mod_sub(Capacity, t, p) \in Nat /\ mod_sub(Capacity, t, p) # 0
    OBVIOUS
  <2>1. p \in Positions /\ p # t /\ home[p] \in Positions
    BY DEF Used, Homes
  <2>2. Place(t, p) \in Nat /\ Place(t, home[p]) \in Nat
    BY <2>1, Places
  <2>3. QED
    BY <2>1, <2>2, Distances
<1>2. \E y \in Positions :
         /\ y = t \/ (y \in Used(slot) /\ c[y])
         /\ \A p \in Used(slot) :
               b <= Place(t, home[p]) <=> mod_sub(Capacity, t, p) <= mod_sub(Capacity, t, y)
  <2>1. CASE Z = {}
    <3>1. mod_sub(Capacity, t, t) = 0
      BY Distances
    <3>2. \A p \in Used(slot) :
             b <= Place(t, home[p]) <=> mod_sub(Capacity, t, p) <= mod_sub(Capacity, t, t)
      BY <1>1, <2>1, <3>1
    <3>3. QED
      BY <3>2
  <2>2. CASE Z # {}
    <3> DEFINE places == {Place(t, q) : q \in Z}
    <3>1. places \subseteq Nat /\ places # {}
      BY <1>1, <2>2
    <3>2. Min(places) \in places /\ \A x \in places : Min(places) <= x
      <4> HIDE DEF places
      <4>1. QED
        BY <3>1, MinOfNaturals
    <3>3. PICK y \in Z : Place(t, y) = Min(places)
      BY <3>2
    <3>4. \A q \in Z : Place(t, y) <= Place(t, q)
      BY <3>2, <3>3
    <3>5. ASSUME NEW p \in Used(slot)
          PROVE  b <= Place(t, home[p]) <=> Place(t, y) <= Place(t, p)
      <4>1. ASSUME Place(t, y) <= Place(t, p) PROVE b <= Place(t, home[p])
        <5>1. CASE Place(t, y) = Place(t, p)
          <6>1. y = p
            BY <1>1, <5>1, PlacesDiffer
          <6>2. QED
            BY <6>1
        <5>2. CASE Place(t, y) < Place(t, p)
          <6>1. Place(t, home[y]) <= Place(t, home[p])
            BY <5>2 DEF Grouped, Ordered
          <6>2. QED
            BY <1>1, <6>1
        <5>3. QED
          BY <1>1, <4>1, <5>1, <5>2
      <4>2. QED
        BY <3>4, <4>1
    <3>6. \A p \in Used(slot) :
             b <= Place(t, home[p]) <=> mod_sub(Capacity, t, p) <= mod_sub(Capacity, t, y)
      BY <1>1, <3>5, CapacityNat
    <3>7. \A q \in Used(slot) : Place(t, q) < Place(t, y) => home[q] # home[y]
      <4> SUFFICES ASSUME NEW q \in Used(slot), Place(t, q) < Place(t, y), home[q] = home[y]
                   PROVE  FALSE
        OBVIOUS
      <4>1. q \in Z
        OBVIOUS
      <4>2. QED
        BY <1>1, <3>4, <4>1
    <3>8. c[y]
      BY <1>1, <3>7 DEF Grouped, Starts
    <3>9. QED
      BY <1>1, <3>6, <3>8
  <2>3. QED
    BY <2>1, <2>2
<1>3. PICK y \in Positions :
         /\ y = t \/ (y \in Used(slot) /\ c[y])
         /\ \A p \in Used(slot) :
               b <= Place(t, home[p]) <=> mod_sub(Capacity, t, p) <= mod_sub(Capacity, t, y)
  BY <1>2
<1>4. \A p \in Positions : c[p] => p \in Used(slot)
  BY DEF Grouped, Starts
<1>5. {p \in Positions : c[p] /\ mod_sub(Capacity, t, p) <= mod_sub(Capacity, t, y)}
        = {p \in Positions : c[p] /\ b <= Place(t, home[p])}
  BY <1>3, <1>4
<1>6. mod_sub(Capacity, t, y) \in Positions /\ ~c[t]
  BY <1>4, Distances
<1>7. GroupStartsBefore(t, mod_sub(Capacity, t, y))
        = Cardinality({p \in Positions : c[p] /\ b <= Place(t, home[p])})
  BY <1>5, <1>6, PassedStarts
<1>8. QED
  BY <1>3, <1>7, CountsAgree

(* The v bits counted are those from the address to the free position.     *)
LEMMA CountedBits ==
  ASSUME NEW t \in Positions, NEW ia \in Positions, t # ia,
         NEW vbits \in [Positions -> BOOLEAN]
  PROVE  Cardinality({k \in 0..(mod_sub(Capacity, t, ia) - 1) : vbits[mod_add(Capacity, ia, k)]})
           = Cardinality({a \in Positions : vbits[a] /\ Place(t, ia) <= Place(t, a)})
<1> DEFINE n == mod_sub(Capacity, t, ia)
           S == {k \in 0..(n - 1) : vbits[mod_add(Capacity, ia, k)]}
           U == {a \in Positions : vbits[a] /\ Place(t, ia) <= Place(t, a)}
           g == [k \in S |-> mod_add(Capacity, ia, k)]
<1>1. /\ n \in Nat /\ n < Capacity /\ n = Capacity - Place(t, ia)
      /\ Place(t, ia) \in Nat /\ Place(t, ia) # 0 /\ Place(t, t) = 0
  BY Distances, Places
<1>2. S \subseteq Positions
  BY <1>1, CapacityNat DEF Positions
<1>3. ASSUME NEW k \in S
      PROVE  /\ mod_add(Capacity, ia, k) \in U
             /\ mod_sub(Capacity, mod_add(Capacity, ia, k), ia) = k
  <2>1. k \in Nat /\ k \in Positions /\ Place(t, ia) + k < Capacity
    BY <1>1, <1>2, CapacityNat
  <2>2. /\ mod_add(Capacity, ia, k) \in Positions
        /\ Place(t, mod_add(Capacity, ia, k)) = Place(t, ia) + k
    BY <2>1, PlacesForward
  <2>3. mod_sub(Capacity, mod_add(Capacity, ia, k), ia) = k
    BY <2>1, ModAddSub, CapacityNat DEF Positions
  <2>4. QED
    BY <1>1, <2>1, <2>2, <2>3
<1>4. ASSUME NEW a \in U
      PROVE  mod_sub(Capacity, a, ia) \in S /\ mod_add(Capacity, ia, mod_sub(Capacity, a, ia)) = a
  <2>1. mod_sub(Capacity, a, ia) = Place(t, a) - Place(t, ia)
    BY PlacesBehind
  <2>2. mod_add(Capacity, ia, mod_sub(Capacity, a, ia)) = a
    BY ModSubAdd, CapacityNat DEF Positions
  <2>3. Place(t, a) \in Nat /\ Place(t, a) < Capacity
    BY Places
  <2>4. mod_sub(Capacity, a, ia) \in 0..(n - 1)
    BY <1>1, <2>1, <2>3, CapacityNat
  <2>5. QED
    BY <2>2, <2>4
<1>5. IsFiniteSet(S)
  BY <1>2, PositionsFinite
<1>6. /\ g \in [S -> U]
      /\ \A x, y \in S : g[x] = g[y] => x = y
      /\ \A a \in U : \E x \in S : g[x] = a
  BY <1>3, <1>4
<1> HIDE DEF S, U, g
<1>7. Cardinality(S) = Cardinality(U)
  BY <1>5, <1>6, SameCount
<1>8. QED
  BY <1>7 DEF S, U

(* The search finds where the elements of the address begin and where      *)
(* those of the next addresses begin; with a v bit added for an address    *)
(* without elements, the latter is where its first element goes.           *)
GroupIs(group, home, ia) ==
    LET t == group.terminator IN
    /\ t \in Positions /\ t \notin Used(slot)
    /\ \A q \in Positions : Place(t, ia) <= Place(t, q) => q \in Used(slot)
    /\ group.group_end \in Used(slot) \cup {t}
    /\ \A p \in Used(slot) :
          Place(t, ia) < Place(t, home[p]) <=>
            mod_sub(Capacity, t, p) <= mod_sub(Capacity, t, group.group_end)
    /\ v[ia] =>
         /\ group.group_start \in Used(slot)
         /\ c[group.group_start]
         /\ \A p \in Used(slot) :
               Place(t, ia) <= Place(t, home[p]) <=>
                 mod_sub(Capacity, t, p) <= mod_sub(Capacity, t, group.group_start)

LEMMA GroupFound ==
  ASSUME Cardinality(Used(slot)) <= MaxEntries, v \in [Positions -> BOOLEAN],
         NEW home \in Homes, IsHome(home), NEW ia \in Used(slot),
         NEW vbits \in [Positions -> BOOLEAN], vbits[ia],
         \A a \in Positions \ {ia} : vbits[a] = v[a]
  PROVE  GroupIs(search_existing_group(vbits, ia), home, ia)
<1> DEFINE t == NextFree(ia)
           from(x) == {a \in Positions : vbits[a] /\ x <= Place(t, a)}
           vfrom(x) == {a \in Positions : v[a] /\ x <= Place(t, a)}
           group == search_existing_group(vbits, ia)
           WalkBack(count) ==
             mod_sub(Capacity, t,
                     Min({n \in 0..Capacity : GroupStartsBefore(t, n) = count}))
           b == Place(t, ia)
<1>1. /\ t \in Positions /\ t \notin Used(slot) /\ ia \in Positions /\ t # ia
      /\ \A q \in Positions : Place(t, ia) <= Place(t, q) => q \in Used(slot)
  BY NextFreeIs DEF Used
<1> HIDE DEF t
<1>2. Grouped(t, slot, v, c, home)
  BY <1>1 DEF IsHome
<1>3. b \in Nat /\ b + 1 \in Nat
  BY <1>1, Places
<1>4. /\ group.terminator = t
      /\ group.group_start = WalkBack(Cardinality(from(b)))
      /\ group.group_end = WalkBack(Cardinality(from(b)) - 1)
  BY <1>1, CountedBits DEF search_existing_group, t
<1>5. Cardinality(from(b)) - 1 = Cardinality(vfrom(b + 1))
  <2>1. \A a \in Positions \ {ia} : b + 1 <= Place(t, a) <=> b <= Place(t, a)
    <3> SUFFICES ASSUME NEW a \in Positions \ {ia}
                 PROVE  b + 1 <= Place(t, a) <=> b <= Place(t, a)
      OBVIOUS
    <3>1. Place(t, a) \in Nat /\ Place(t, a) # b
      BY <1>1, Places, PlacesDiffer
    <3>2. QED
      BY <1>3, <3>1
  <2>2. vfrom(b + 1) = from(b) \ {ia}
    BY <1>1, <1>3, <2>1
  <2>3. ia \in from(b) /\ from(b) \subseteq Positions
    BY <1>1, <1>3
  <2> HIDE DEF from, vfrom
  <2>4. IsFiniteSet(from(b)) /\ Cardinality(from(b)) \in Nat
    BY <2>3, PositionsFinite
  <2>5. QED
    BY <2>2, <2>3, <2>4, FS_RemoveElement
<1>6. ASSUME NEW y \in Positions, y = t \/ c[y]
      PROVE  WalkBack(GroupStartsBefore(t, mod_sub(Capacity, t, y))) = y
  <2>1. /\ mod_sub(Capacity, t, y) \in Positions
        /\ mod_sub(Capacity, t, mod_sub(Capacity, t, y)) = y
        /\ mod_sub(Capacity, t, y) = 0 <=> y = t
    BY <1>1, Distances
  <2>2. QED
    BY <1>1, <1>6, <2>1, WalkBackIs
<1>7. PICK y \in Positions :
         /\ y = t \/ (y \in Used(slot) /\ c[y])
         /\ \A p \in Used(slot) :
               b + 1 <= Place(t, home[p]) <=> mod_sub(Capacity, t, p) <= mod_sub(Capacity, t, y)
         /\ GroupStartsBefore(t, mod_sub(Capacity, t, y)) = Cardinality(vfrom(b + 1))
  BY <1>1, <1>2, <1>3, Boundary
<1>8. group.group_end = y
  <2> HIDE DEF WalkBack, from, vfrom, group
  <2>1. QED
    BY <1>4, <1>5, <1>6, <1>7
<1>9. \A p \in Used(slot) : b < Place(t, home[p]) <=> b + 1 <= Place(t, home[p])
  <2>1. \A p \in Used(slot) : Place(t, home[p]) \in Nat
    BY <1>1, Places DEF Used, Homes
  <2>2. QED
    BY <1>3, <2>1
<1>10. ASSUME v[ia]
       PROVE  /\ group.group_start \in Used(slot)
              /\ c[group.group_start]
              /\ \A p \in Used(slot) :
                    b <= Place(t, home[p]) <=>
                      mod_sub(Capacity, t, p) <= mod_sub(Capacity, t, group.group_start)
  <2>1. vfrom(b) = from(b)
    BY <1>1, <1>10
  <2>2. PICK s \in Positions :
           /\ s = t \/ (s \in Used(slot) /\ c[s])
           /\ \A p \in Used(slot) :
                 b <= Place(t, home[p]) <=> mod_sub(Capacity, t, p) <= mod_sub(Capacity, t, s)
           /\ GroupStartsBefore(t, mod_sub(Capacity, t, s)) = Cardinality(vfrom(b))
    BY <1>1, <1>2, <1>3, Boundary
  <2>3. group.group_start = s
    <3> HIDE DEF WalkBack, from, vfrom, group
    <3>1. QED
      BY <1>4, <1>6, <2>1, <2>2
  <2>4. s # t
    <3>1. PICK p \in Used(slot) : home[p] = ia
      BY <1>1, <1>2, <1>10 DEF Grouped, Addressed
    <3>2. p \in Positions /\ p # t /\ b <= Place(t, home[p])
      BY <1>1, <1>3, <3>1 DEF Used
    <3>3. /\ mod_sub(Capacity, t, p) \in Nat /\ mod_sub(Capacity, t, p) # 0
          /\ mod_sub(Capacity, t, t) = 0
      BY <1>1, <3>2, Distances
    <3>4. QED
      BY <2>2, <3>2, <3>3
  <2>5. QED
    BY <2>2, <2>3, <2>4
<1> HIDE DEF group
<1>11. GroupIs(group, home, ia)
  BY <1>1, <1>4, <1>7, <1>8, <1>9, <1>10 DEF GroupIs
<1>12. QED
  BY <1>11 DEF group
-------------------------------------------------------------------------------
(* The pairing of the c bits and the v bits in a run.                      *)

LEMMA RunToIs ==
  ASSUME NEW f \in Positions, f \notin Used(slot), NEW pos \in Used(slot)
  PROVE  RunTo(pos) =
           {q \in Positions :
              /\ Place(f, q) <= Place(f, pos)
              /\ \A r \in Positions :
                    Place(f, q) <= Place(f, r) /\ Place(f, r) <= Place(f, pos) => r \in Used(slot)}
<1>1. pos \in Positions /\ Place(f, pos) \in Nat /\ Place(f, pos) < Capacity /\ Capacity \in Nat
  BY Places, CapacityNat DEF Used
<1>2. ASSUME NEW q \in RunTo(pos) PROVE Place(f, q) <= Place(f, pos)
  <2> SUFFICES ASSUME ~(Place(f, q) <= Place(f, pos)) PROVE FALSE
    OBVIOUS
  <2>1. q \in Positions /\ f \in Nat /\ q \in Nat /\ f < Capacity /\ q < Capacity
    BY CapacityNat DEF RunTo, Positions
  <2>2. /\ mod_add(Capacity, q, mod_sub(Capacity, f, q)) = f
        /\ mod_sub(Capacity, f, q) \in Nat /\ mod_sub(Capacity, pos, q) \in Nat
    BY <1>1, <2>1, ModSubAdd, CapacityNat DEF Positions
  <2>3. mod_sub(Capacity, f, q) <= mod_sub(Capacity, pos, q)
    BY <1>1, <2>1, CapacityNat DEF Place, mod_sub, Positions
  <2>4. mod_sub(Capacity, f, q) \in 0..mod_sub(Capacity, pos, q)
    BY <2>2, <2>3
  <2>5. ~pos_is_empty(f)
    BY <2>2, <2>4 DEF RunTo
  <2>6. QED
    BY <2>5 DEF Used, pos_is_empty
<1>3. ASSUME NEW q \in Positions, Place(f, q) <= Place(f, pos), NEW k \in Nat
      PROVE  k <= mod_sub(Capacity, pos, q) =>
               /\ mod_add(Capacity, q, k) \in Positions
               /\ Place(f, mod_add(Capacity, q, k)) = Place(f, q) + k
               /\ Place(f, q) + k <= Place(f, pos)
  <2>1. mod_sub(Capacity, pos, q) = Place(f, pos) - Place(f, q) /\ Place(f, q) \in Nat
    BY <1>1, <1>3, PlacesBehind, Places
  <2>2. k <= mod_sub(Capacity, pos, q) =>
          Place(f, q) + k <= Place(f, pos) /\ Place(f, q) + k < Capacity
    BY <1>1, <2>1
  <2>3. QED
    BY <2>2, PlacesForward
<1>4. ASSUME NEW q \in RunTo(pos), NEW r \in Positions,
             Place(f, q) <= Place(f, r), Place(f, r) <= Place(f, pos)
      PROVE  r \in Used(slot)
  <2>1. q \in Positions /\ Place(f, q) <= Place(f, pos)
    BY <1>2 DEF RunTo
  <2>2. Place(f, q) \in Nat /\ Place(f, r) \in Nat
    BY <2>1, Places
  <2>3. /\ Place(f, r) - Place(f, q) \in Nat
        /\ Place(f, r) - Place(f, q) <= mod_sub(Capacity, pos, q)
    BY <1>1, <1>4, <2>1, <2>2, PlacesBehind
  <2>4. Place(f, r) - Place(f, q) \in 0..mod_sub(Capacity, pos, q)
    <3>1. mod_sub(Capacity, pos, q) \in Nat
      BY <1>1, <2>1, ModSubAdd, CapacityNat DEF Positions
    <3>2. QED
      BY <2>3, <3>1
  <2>5. mod_add(Capacity, q, Place(f, r) - Place(f, q)) = r
    BY <1>3, <2>1, <2>2, <2>3, PlacesDiffer
  <2>6. ~pos_is_empty(r)
    BY <2>4, <2>5 DEF RunTo
  <2>7. QED
    BY <2>6 DEF Used, pos_is_empty
<1>5. ASSUME NEW q \in Positions, Place(f, q) <= Place(f, pos),
             \A r \in Positions :
                Place(f, q) <= Place(f, r) /\ Place(f, r) <= Place(f, pos) => r \in Used(slot)
      PROVE  q \in RunTo(pos)
  <2>1. ASSUME NEW k \in 0..mod_sub(Capacity, pos, q)
        PROVE  ~pos_is_empty(mod_add(Capacity, q, k))
    <3>1. k \in Nat /\ k <= mod_sub(Capacity, pos, q)
      BY <1>1, ModSubAdd, CapacityNat DEF Positions
    <3>2. PICK r \in Positions : /\ r = mod_add(Capacity, q, k)
                                 /\ Place(f, r) = Place(f, q) + k
                                 /\ Place(f, q) + k <= Place(f, pos)
      BY <1>3, <1>5, <3>1
    <3>3. Place(f, q) <= Place(f, r)
      BY <3>1, <3>2, Places
    <3>4. r \in Used(slot)
      BY <1>5, <3>2, <3>3
    <3>5. QED
      BY <3>2, <3>4 DEF Used, pos_is_empty
  <2>2. QED
    BY <2>1 DEF RunTo
<1>6. RunTo(pos) \subseteq Positions
  BY DEF RunTo
<1>7. QED
  BY <1>2, <1>4, <1>5, <1>6

(* The run up to a position of the run.                                    *)
LEMMA RunToNested ==
  ASSUME NEW f \in Positions, f \notin Used(slot), NEW pos \in Used(slot),
         NEW h \in RunTo(pos)
  PROVE  h \in Used(slot) /\ RunTo(h) = {a \in RunTo(pos) : Place(f, a) <= Place(f, h)}
<1>1. \A p \in Positions : Place(f, p) \in Nat
  BY Places
<1>2. pos \in Positions /\ h \in Positions
  BY DEF Used, RunTo
<1>3. h \in Used(slot) /\ Place(f, h) <= Place(f, pos)
  BY <1>1, <1>2, RunToIs
<1>4. QED
  BY <1>1, <1>2, <1>3, RunToIs

(* Addresses of a run that have as many addresses before them are the same. *)
LEMMA AddressesToDiffer ==
  ASSUME NEW f \in Positions, f \notin Used(slot), NEW pos \in Used(slot),
         NEW g \in RunTo(pos), NEW h \in RunTo(pos), v[g], v[h],
         AddressesTo(g) = AddressesTo(h), Place(f, g) <= Place(f, h)
  PROVE  g = h
<1> DEFINE G == {a \in RunTo(g) : v[a]}
           H == {a \in RunTo(h) : v[a]}
<1>1. \A p \in Positions : Place(f, p) \in Nat
  BY Places
<1>2. RunTo(pos) \subseteq Positions
  BY DEF RunTo
<1>3. /\ RunTo(g) = {a \in RunTo(pos) : Place(f, a) <= Place(f, g)}
      /\ RunTo(h) = {a \in RunTo(pos) : Place(f, a) <= Place(f, h)}
  BY RunToNested
<1>4. G \subseteq H /\ H \subseteq Positions /\ h \in H
  BY <1>1, <1>2, <1>3
<1>5. Cardinality(G) = Cardinality(H)
  BY DEF AddressesTo
<1>6. G = H
  <2> HIDE DEF G, H
  <2>1. IsFiniteSet(H)
    BY <1>4, PositionsFinite
  <2>2. QED
    BY <1>4, <1>5, <2>1, FS_Subset
<1>7. Place(f, h) <= Place(f, g)
  BY <1>3, <1>4, <1>6
<1>8. QED
  BY <1>1, <1>2, <1>7, PlacesDiffer

(* The groups that start up to an element are the addresses up to its own. *)
LEMMA Pairing ==
  ASSUME NEW f \in Positions, f \notin Used(slot),
         NEW home \in Homes, Grouped(f, slot, v, c, home), NEW pos \in Used(slot)
  PROVE  /\ home[pos] \in RunTo(pos) /\ v[home[pos]]
         /\ GroupsTo(pos) =
              Cardinality({a \in RunTo(pos) : v[a] /\ Place(f, a) <= Place(f, home[pos])})
<1> DEFINE S == {q \in RunTo(pos) : c[q]}
           U == {a \in RunTo(pos) : v[a] /\ Place(f, a) <= Place(f, home[pos])}
           g == [q \in S |-> home[q]]
<1>1. \A p \in Positions : Place(f, p) \in Nat /\ home[p] \in Positions
  BY Places DEF Homes
<1>2. /\ \A q \in RunTo(pos) : q \in Used(slot) /\ q \in Positions /\ Place(f, q) <= Place(f, pos)
      /\ RunTo(pos) \subseteq Positions /\ pos \in Positions
  <2>1. pos \in Positions
    BY DEF Used
  <2>2. QED
    BY <1>1, <2>1, RunToIs
<1>3. /\ home[pos] \in RunTo(pos) /\ v[home[pos]]
  <2>1. /\ v[home[pos]] /\ Place(f, home[pos]) <= Place(f, pos)
        /\ \A q \in Positions :
              Place(f, home[pos]) <= Place(f, q) /\ Place(f, q) <= Place(f, pos) => q \in Used(slot)
    BY DEF Grouped, Reaches
  <2>2. QED
    BY <1>1, <1>2, <2>1, RunToIs
<1>4. ASSUME NEW q \in Used(slot), Place(f, q) <= Place(f, pos)
      PROVE  Place(f, home[q]) <= Place(f, home[pos])
  <2>1. q \in Positions /\ Place(f, q) \in Nat /\ Place(f, pos) \in Nat /\ Place(f, home[q]) \in Nat
    BY <1>1, <1>2 DEF Used
  <2>2. CASE Place(f, q) = Place(f, pos)
    <3>1. q = pos
      BY <1>2, <2>1, <2>2, PlacesDiffer
    <3>2. QED
      BY <2>1, <3>1
  <2>3. CASE Place(f, q) < Place(f, pos)
    BY <2>3 DEF Grouped, Ordered
  <2>4. QED
    BY <1>4, <2>1, <2>2, <2>3
<1>5. ASSUME NEW q \in S PROVE home[q] \in U
  <2>1. q \in Used(slot) /\ q \in Positions /\ Place(f, q) <= Place(f, pos) /\ home[q] \in Positions
    BY <1>1, <1>2
  <2>2. /\ v[home[q]] /\ Place(f, home[q]) <= Place(f, q)
        /\ \A r \in Positions :
              Place(f, home[q]) <= Place(f, r) /\ Place(f, r) <= Place(f, q) => r \in Used(slot)
    BY <2>1 DEF Grouped, Reaches
  <2>3. \A r \in Positions :
           Place(f, q) <= Place(f, r) /\ Place(f, r) <= Place(f, pos) => r \in Used(slot)
    BY RunToIs
  <2>4. \A r \in Positions :
           Place(f, home[q]) <= Place(f, r) /\ Place(f, r) <= Place(f, pos) => r \in Used(slot)
    BY <1>1, <2>1, <2>2, <2>3
  <2>5. Place(f, home[q]) <= Place(f, pos)
    BY <1>1, <1>2, <2>1, <2>2
  <2>6. home[q] \in RunTo(pos)
    BY <2>1, <2>4, <2>5, RunToIs
  <2>7. QED
    BY <1>4, <2>1, <2>2, <2>6
<1>6. ASSUME NEW p \in S, NEW q \in S, home[p] = home[q] PROVE p = q
  <2>1. /\ \A r \in Used(slot) : Place(f, r) < Place(f, p) => home[r] # home[p]
        /\ \A r \in Used(slot) : Place(f, r) < Place(f, q) => home[r] # home[q]
        /\ p \in Used(slot) /\ q \in Used(slot) /\ p \in Positions /\ q \in Positions
    BY <1>2 DEF Grouped, Starts
  <2>2. ~(Place(f, p) < Place(f, q)) /\ ~(Place(f, q) < Place(f, p))
    BY <1>6, <2>1
  <2>3. QED
    BY <1>1, <2>1, <2>2, PlacesDiffer
<1>7. ASSUME NEW a \in U PROVE \E q \in S : home[q] = a
  <2>1. a \in Positions
    BY <1>2
  <2>2. PICK p \in Used(slot) : home[p] = a
    BY <2>1 DEF Grouped, Addressed
  <2>3. PICK q \in Used(slot) : c[q] /\ home[q] = a
    <3>1. \E s \in Used(slot) : c[s] /\ home[s] = home[p] /\ Place(f, s) <= Place(f, p)
      BY GroupStart
    <3>2. QED
      BY <2>2, <3>1
  <2>4. q \in Positions /\ Place(f, a) <= Place(f, q)
    BY <2>3 DEF Used, Grouped, Reaches
  <2>5. Place(f, q) <= Place(f, pos)
    <3> SUFFICES ASSUME ~(Place(f, q) <= Place(f, pos)) PROVE FALSE
      OBVIOUS
    <3>1. Place(f, pos) < Place(f, q)
      BY <1>1, <1>2, <2>4
    <3>2. Place(f, home[pos]) <= Place(f, home[q])
      BY <3>1 DEF Grouped, Ordered
    <3>3. Place(f, home[pos]) = Place(f, a)
      BY <1>1, <1>2, <2>1, <2>3, <3>2
    <3>4. home[pos] = a
      BY <1>1, <1>2, <2>1, <3>3, PlacesDiffer
    <3>5. home[pos] # home[q]
      BY <2>3, <2>4, <3>1 DEF Grouped, Starts
    <3>6. QED
      BY <2>3, <3>4, <3>5
  <2>6. \A r \in Positions :
           Place(f, q) <= Place(f, r) /\ Place(f, r) <= Place(f, pos) => r \in Used(slot)
    <3>1. \A r \in Positions :
             Place(f, a) <= Place(f, r) /\ Place(f, r) <= Place(f, pos) => r \in Used(slot)
      BY RunToIs
    <3>2. QED
      BY <1>1, <2>1, <2>4, <3>1
  <2>7. q \in RunTo(pos)
    BY <2>4, <2>5, <2>6, RunToIs
  <2>8. QED
    BY <2>3, <2>7
<1>8. /\ g \in [S -> U]
      /\ \A x, y \in S : g[x] = g[y] => x = y
      /\ \A a \in U : \E q \in S : g[q] = a
  BY <1>5, <1>6, <1>7
<1>9. IsFiniteSet(S)
  <2>1. S \subseteq Positions
    BY <1>2
  <2>2. QED
    BY <2>1, PositionsFinite
<1>10. GroupsTo(pos) = Cardinality(S)
  BY DEF GroupsTo
<1> HIDE DEF S, U, g
<1>11. Cardinality(S) = Cardinality(U)
  BY <1>8, <1>9, SameCount
<1>12. QED
  BY <1>3, <1>10, <1>11 DEF U

(* So the pairing gives every element its address.                         *)
LEMMA HomeIs ==
  ASSUME NEW f \in Positions, f \notin Used(slot),
         NEW home \in Homes, Grouped(f, slot, v, c, home), NEW pos \in Used(slot)
  PROVE  HomeOf(pos) = home[pos]
<1>1. /\ home[pos] \in RunTo(pos) /\ v[home[pos]]
      /\ GroupsTo(pos) =
           Cardinality({a \in RunTo(pos) : v[a] /\ Place(f, a) <= Place(f, home[pos])})
  BY Pairing
<1>2. RunTo(home[pos]) = {a \in RunTo(pos) : Place(f, a) <= Place(f, home[pos])}
  BY <1>1, RunToNested
<1>3. AddressesTo(home[pos]) = GroupsTo(pos)
  <2>1. {a \in RunTo(home[pos]) : v[a]}
          = {a \in RunTo(pos) : v[a] /\ Place(f, a) <= Place(f, home[pos])}
    BY <1>2
  <2>2. QED
    BY <1>1, <2>1 DEF AddressesTo
<1>4. ASSUME NEW h \in RunTo(pos), v[h], AddressesTo(h) = GroupsTo(pos)
      PROVE  h = home[pos]
  <2>1. h \in Positions /\ home[pos] \in Positions
    BY <1>1 DEF RunTo
  <2>2. Place(f, h) \in Nat /\ Place(f, home[pos]) \in Nat
    BY <2>1, Places
  <2>3. CASE Place(f, h) <= Place(f, home[pos])
    BY <1>1, <1>3, <1>4, <2>3, AddressesToDiffer
  <2>4. CASE Place(f, home[pos]) <= Place(f, h)
    BY <1>1, <1>3, <1>4, <2>4, AddressesToDiffer
  <2>5. QED
    BY <2>2, <2>3, <2>4
<1>5. QED
  BY <1>1, <1>3, <1>4 DEF HomeOf

(* The bits of a grouped table pair up.                                    *)
LEMMA PairsUp ==
  ASSUME NEW f \in Positions, f \notin Used(slot),
         NEW home \in Homes, Grouped(f, slot, v, c, home)
  PROVE  BitsPairUp
<1>1. Allocated = Used(slot)
  BY DEF Allocated, Used, pos_is_empty
<1>2. \A p \in Positions : Place(f, p) \in Nat /\ Place(f, p) < Capacity
  BY Places
<1>3. ASSUME NEW pos \in Positions \ Used(slot) PROVE ~v[pos] /\ ~c[pos]
  <2>1. ~c[pos]
    BY DEF Grouped, Starts
  <2>2. ASSUME v[pos] PROVE FALSE
    <3>1. PICK p \in Used(slot) : home[p] = pos
      BY <2>2 DEF Grouped, Addressed
    <3>2. Place(f, pos) <= Place(f, p) /\ Place(f, pos) <= Place(f, pos)
      BY <1>2, <3>1 DEF Grouped, Reaches
    <3>3. pos \in Used(slot)
      BY <3>1, <3>2 DEF Grouped, Reaches
    <3>4. QED
      BY <3>3
  <2>3. QED
    BY <2>1, <2>2
<1>4. ASSUME NEW pos \in Used(slot)
      PROVE  /\ 1 <= GroupsTo(pos)
             /\ GroupsTo(pos) <= AddressesTo(pos)
             /\ pos_is_empty(Next1(pos)) => GroupsTo(pos) = AddressesTo(pos)
  <2> DEFINE U == {a \in RunTo(pos) : v[a] /\ Place(f, a) <= Place(f, home[pos])}
             A == {a \in RunTo(pos) : v[a]}
  <2>1. home[pos] \in U /\ GroupsTo(pos) = Cardinality(U)
    <3>1. home[pos] \in RunTo(pos) /\ v[home[pos]] /\ GroupsTo(pos) = Cardinality(U)
      BY Pairing
    <3>2. Place(f, home[pos]) \in Nat
      BY <1>2, <3>1 DEF RunTo
    <3>3. QED
      BY <3>1, <3>2
  <2>2. U \subseteq A /\ A \subseteq Positions /\ AddressesTo(pos) = Cardinality(A)
    BY DEF RunTo, AddressesTo
  <2>3. pos \in Positions
    BY DEF Used
  <2>4. ASSUME pos_is_empty(Next1(pos)) PROVE A \subseteq U
    <3> SUFFICES ASSUME NEW a \in RunTo(pos), v[a]
                 PROVE  Place(f, a) <= Place(f, home[pos])
      OBVIOUS
    <3>1. a \in Positions /\ Place(f, a) <= Place(f, pos)
      BY RunToIs DEF RunTo
    <3>2. PICK p \in Used(slot) : home[p] = a
      BY <3>1 DEF Grouped, Addressed
    <3>3. /\ p \in Positions
          /\ \A q \in Positions :
                Place(f, a) <= Place(f, q) /\ Place(f, q) <= Place(f, p) => q \in Used(slot)
      BY <3>2 DEF Used, Grouped, Reaches
    <3>4. Place(f, p) <= Place(f, pos)
      <4> SUFFICES ASSUME ~(Place(f, p) <= Place(f, pos)) PROVE FALSE
        OBVIOUS
      <4>1. Place(f, pos) + 1 <= Place(f, p) /\ Place(f, p) < Capacity /\ Capacity \in Nat
        BY <1>2, <2>3, <3>3, CapacityNat
      <4>2. Next1(pos) \in Positions /\ Place(f, Next1(pos)) = Place(f, pos) + 1
        <5>1. Place(f, pos) + 1 < Capacity
          BY <1>2, <2>3, <3>3, <4>1
        <5>2. QED
          BY <2>3, <5>1, PlacesForward DEF Next1
      <4>3. Place(f, a) <= Place(f, Next1(pos)) /\ Place(f, Next1(pos)) <= Place(f, p)
        BY <1>2, <2>3, <3>1, <4>1, <4>2
      <4>4. Next1(pos) \in Used(slot)
        BY <3>3, <4>2, <4>3
      <4>5. QED
        BY <2>4, <4>4 DEF Used, pos_is_empty
    <3>5. CASE p = pos
      BY <1>2, <3>1, <3>2, <3>5
    <3>6. CASE p # pos
      <4>1. Place(f, p) # Place(f, pos)
        BY <2>3, <3>3, <3>6, PlacesDiffer
      <4>2. Place(f, p) < Place(f, pos)
        BY <1>2, <2>3, <3>3, <3>4, <4>1
      <4>3. QED
        BY <3>2, <4>2 DEF Grouped, Ordered
    <3>7. QED
      BY <3>5, <3>6
  <2>5. IsFiniteSet(A) /\ IsFiniteSet(U)
    <3>1. U \subseteq Positions
      BY <2>2
    <3> HIDE DEF A, U
    <3>2. QED
      BY <2>2, <3>1, PositionsFinite
  <2> HIDE DEF A, U
  <2>6. 1 <= Cardinality(U)
    <3>1. Cardinality(U) \in Nat /\ Cardinality(U) # 0
      BY <2>1, <2>5, FS_CardinalityType, FS_EmptySet
    <3>2. QED
      BY <3>1
  <2>7. Cardinality(U) <= Cardinality(A)
    BY <2>2, <2>5, FS_Subset
  <2>8. pos_is_empty(Next1(pos)) => U = A
    BY <2>2, <2>4
  <2>9. QED
    BY <2>1, <2>2, <2>6, <2>7, <2>8
<1>5. QED
  BY <1>1, <1>3, <1>4 DEF BitsPairUp
-------------------------------------------------------------------------------
(* The ids: how far an element is behind the start of its group.           *)
LocalIn(cb, pos) == Min({k \in Positions : cb[mod_sub(Capacity, pos, k)]})

LEMMA LocalIs ==
  ASSUME NEW sl, NEW vb, NEW cb, NEW f \in Positions, NEW home \in Homes,
         Grouped(f, sl, vb, cb, home), NEW p \in Used(sl),
         NEW s \in Used(sl), cb[s], home[s] = home[p], Place(f, s) <= Place(f, p)
  PROVE  LocalIn(cb, p) = Place(f, p) - Place(f, s)
<1> DEFINE ks == {k \in Positions : cb[mod_sub(Capacity, p, k)]}
           k0 == Place(f, p) - Place(f, s)
<1>1. /\ p \in Positions /\ s \in Positions /\ Place(f, p) \in Nat /\ Place(f, s) \in Nat
      /\ Place(f, p) < Capacity /\ Capacity \in Nat
      /\ \A q \in Used(sl) : q \in Positions /\ Place(f, home[q]) \in Nat /\ home[q] \in Positions
  BY Places, CapacityNat DEF Used, Homes
<1>2. k0 \in Nat /\ k0 \in Positions /\ k0 <= Place(f, p)
  BY <1>1 DEF Positions
<1>3. mod_sub(Capacity, p, k0) = s
  <2> HIDE DEF k0
  <2>1. /\ mod_sub(Capacity, p, k0) \in Positions
        /\ Place(f, mod_sub(Capacity, p, k0)) = Place(f, p) - k0
    BY <1>1, <1>2, PlacesBackward
  <2>2. Place(f, p) - k0 = Place(f, s)
    BY <1>1 DEF k0
  <2>3. QED
    BY <1>1, <2>1, <2>2, PlacesDiffer
<1>4. k0 \in ks
  BY <1>2, <1>3
<1>5. ASSUME NEW j \in ks, j < k0 PROVE FALSE
  <2>1. j \in Nat /\ j <= Place(f, p)
    BY <1>1, <1>2, <1>5 DEF Positions
  <2>2. PICK r \in Positions : cb[r] /\ Place(f, r) = Place(f, p) - j
    BY <1>1, <2>1, PlacesBackward
  <2>3. r \in Used(sl) /\ \A q \in Used(sl) : Place(f, q) < Place(f, r) => home[q] # home[r]
    BY <2>2 DEF Grouped, Starts
  <2>4. Place(f, s) < Place(f, r) /\ Place(f, r) <= Place(f, p)
    BY <1>1, <1>5, <2>1, <2>2
  <2>5. Place(f, home[s]) <= Place(f, home[r])
    BY <2>3, <2>4 DEF Grouped, Ordered
  <2>6. Place(f, home[r]) <= Place(f, home[p])
    <3>1. CASE r = p
      BY <1>1, <3>1
    <3>2. CASE r # p
      <4>1. Place(f, r) # Place(f, p)
        BY <1>1, <3>2, PlacesDiffer
      <4>2. Place(f, r) < Place(f, p)
        BY <1>1, <2>1, <2>2, <2>4, <4>1
      <4>3. QED
        BY <2>3, <4>2 DEF Grouped, Ordered
    <3>3. QED
      BY <3>1, <3>2
  <2>7. home[r] = home[s]
    <3>1. Place(f, home[r]) = Place(f, home[s])
      BY <1>1, <2>3, <2>5, <2>6
    <3>2. QED
      BY <1>1, <2>3, <3>1, PlacesDiffer
  <2>8. QED
    BY <2>3, <2>4, <2>7
<1>6. ks \subseteq Nat
  BY <1>1 DEF Positions
<1>7. Min(ks) \in ks /\ Min(ks) <= k0
  <2> HIDE DEF ks, k0
  <2>1. QED
    BY <1>4, <1>6, MinOfNaturals
<1>8. Min(ks) = k0
  BY <1>2, <1>5, <1>6, <1>7
<1>9. QED
  BY <1>8 DEF LocalIn

(* The elements of the address are the positions of the group, and their   *)
(* local ids are the offsets.                                              *)
LEMMA GroupElements ==
  ASSUME NEW group, NEW home \in Homes, IsHome(home), NEW ia \in Positions, v[ia],
         GroupIs(group, home, ia)
  PROVE  /\ GroupSize(group) \in Nat /\ GroupSize(group) < Capacity
         /\ home[group.group_start] = ia
         /\ \A n \in 0..(GroupSize(group) - 1) :
               /\ GroupPosition(group, n) \in Used(slot)
               /\ home[GroupPosition(group, n)] = ia
               /\ LocalIn(c, GroupPosition(group, n)) = n
         /\ \A p \in Used(slot) : home[p] = ia =>
               /\ LocalIn(c, p) \in 0..(GroupSize(group) - 1)
               /\ GroupPosition(group, LocalIn(c, p)) = p
<1> DEFINE t == group.terminator
           s == group.group_start
           e == group.group_end
           D(p) == mod_sub(Capacity, t, p)
<1>1. /\ t \in Positions /\ t \notin Used(slot)
      /\ \A q \in Positions : Place(t, ia) <= Place(t, q) => q \in Used(slot)
      /\ e \in Used(slot) \cup {t}
      /\ \A p \in Used(slot) : Place(t, ia) < Place(t, home[p]) <=> D(p) <= D(e)
      /\ s \in Used(slot) /\ c[s]
      /\ \A p \in Used(slot) : Place(t, ia) <= Place(t, home[p]) <=> D(p) <= D(s)
  BY DEF GroupIs
<1> HIDE DEF t, s, e
<1>2. Grouped(t, slot, v, c, home)
  BY <1>1 DEF IsHome
<1>3. /\ Capacity \in Nat
      /\ \A p \in Positions : Place(t, p) \in Nat /\ Place(t, p) < Capacity
      /\ \A p \in Used(slot) : p \in Positions /\ p # t /\ home[p] \in Positions
      /\ e \in Positions /\ s \in Positions
  BY <1>1, Places, CapacityNat DEF Used, Homes
<1>4. /\ \A p \in Positions : p # t => D(p) = Capacity - Place(t, p)
      /\ D(t) = 0
  BY <1>1, Distances
<1>5. home[s] = ia
  <2>1. PICK p \in Used(slot) : home[p] = ia
    BY <1>2 DEF Grouped, Addressed
  <2>2. D(p) <= D(s) /\ Place(t, ia) <= Place(t, home[s])
    <3>1. Place(t, ia) <= Place(t, home[p]) /\ D(s) <= D(s)
      BY <1>3, <1>4, <1>1, <2>1
    <3>2. QED
      BY <1>1, <2>1, <3>1
  <2>3. Place(t, home[s]) <= Place(t, ia)
    <3>1. CASE s = p
      BY <1>3, <2>1, <3>1
    <3>2. CASE s # p
      <4>1. Place(t, s) # Place(t, p)
        BY <1>1, <1>3, <2>1, <3>2, PlacesDiffer
      <4>2. Place(t, s) < Place(t, p)
        <5>1. D(s) = Capacity - Place(t, s) /\ D(p) = Capacity - Place(t, p)
          BY <1>1, <1>3, <1>4, <2>1
        <5>2. Place(t, s) \in Nat /\ Place(t, p) \in Nat
          BY <1>3, <2>1
        <5>3. QED
          BY <1>3, <2>2, <4>1, <5>1, <5>2
      <4>3. QED
        BY <1>1, <1>2, <2>1, <4>2 DEF Grouped, Ordered
    <3>3. QED
      BY <3>1, <3>2
  <2>4. Place(t, home[s]) = Place(t, ia)
    BY <1>1, <1>3, <2>2, <2>3
  <2>5. QED
    BY <1>1, <1>3, <2>4, PlacesDiffer
<1>6. Place(t, ia) <= Place(t, s)
  BY <1>1, <1>2, <1>5 DEF Grouped, Reaches
<1>7. /\ D(s) = Capacity - Place(t, s) /\ D(e) < D(s) /\ D(e) \in Nat
      /\ GroupSize(group) = D(s) - D(e)
  <2>1. D(s) = Capacity - Place(t, s)
    BY <1>1, <1>3, <1>4
  <2>2. D(s) \in Nat /\ D(e) \in Nat
    BY <1>1, <1>3, Distances
  <2>3. ~(D(s) <= D(e))
    <3>1. ~(Place(t, ia) < Place(t, home[s]))
      BY <1>3, <1>5
    <3>2. QED
      BY <1>1, <3>1
  <2>4. mod_sub(Capacity, e, s) = D(s) - D(e)
    <3>1. CASE e = t
      BY <1>4, <2>2, <3>1
    <3>2. CASE e # t
      <4>1. D(e) = Capacity - Place(t, e)
        BY <1>3, <1>4, <3>2
      <4>2. Place(t, s) <= Place(t, e)
        BY <1>3, <2>1, <2>2, <2>3, <4>1
      <4>3. mod_sub(Capacity, e, s) = Place(t, e) - Place(t, s)
        BY <1>1, <1>3, <4>2, PlacesBehind
      <4>4. QED
        BY <1>3, <2>1, <4>1, <4>3
    <3>3. QED
      BY <3>1, <3>2
  <2>5. QED
    BY <2>1, <2>2, <2>3, <2>4 DEF GroupSize, s, e
<1>8. GroupSize(group) \in Nat /\ GroupSize(group) < Capacity
  <2>1. Place(t, s) > 0 /\ Place(t, s) \in Nat
    BY <1>1, <1>3, Places
  <2>2. QED
    BY <1>3, <1>7, <2>1
<1>9. ASSUME NEW n \in 0..(GroupSize(group) - 1)
      PROVE  /\ GroupPosition(group, n) \in Used(slot)
             /\ home[GroupPosition(group, n)] = ia
             /\ LocalIn(c, GroupPosition(group, n)) = n
  <2>1. n \in Nat /\ n < D(s) - D(e) /\ Place(t, s) + n < Capacity
    BY <1>3, <1>7, <1>8
  <2>2. PICK q \in Positions : q = GroupPosition(group, n) /\ Place(t, q) = Place(t, s) + n
    BY <1>1, <1>3, <2>1, PlacesForward DEF GroupPosition, s
  <2>3. Place(t, s) <= Place(t, q) /\ Place(t, ia) <= Place(t, q)
    BY <1>1, <1>3, <1>6, <2>1, <2>2
  <2>4. q \in Used(slot)
    BY <1>1, <2>3
  <2>5. D(q) = D(s) - n
    BY <1>3, <1>4, <1>7, <2>1, <2>2, <2>4
  <2>6. D(q) <= D(s) /\ ~(D(q) <= D(e))
    BY <1>3, <1>7, <2>1, <2>5
  <2>7. Place(t, home[q]) = Place(t, ia)
    BY <1>1, <1>3, <2>4, <2>6
  <2>8. home[q] = ia
    BY <1>1, <1>3, <2>4, <2>7, PlacesDiffer
  <2>9. LocalIn(c, q) = Place(t, q) - Place(t, s)
    BY <1>1, <1>2, <1>5, <2>3, <2>4, <2>8, LocalIs
  <2>10. LocalIn(c, q) = n
    BY <1>3, <2>1, <2>2, <2>9
  <2>11. QED
    BY <2>2, <2>4, <2>8, <2>10
<1>10. ASSUME NEW p \in Used(slot), home[p] = ia
       PROVE  /\ LocalIn(c, p) \in 0..(GroupSize(group) - 1)
              /\ GroupPosition(group, LocalIn(c, p)) = p
  <2>1. D(p) <= D(s) /\ ~(D(p) <= D(e)) /\ D(p) = Capacity - Place(t, p)
    <3>1. Place(t, ia) <= Place(t, home[p]) /\ ~(Place(t, ia) < Place(t, home[p]))
      BY <1>3, <1>10
    <3>2. QED
      BY <1>1, <1>3, <1>4, <3>1
  <2>2. Place(t, p) \in Nat /\ Place(t, s) \in Nat /\ p \in Positions /\ Place(t, p) < Capacity
    BY <1>3
  <2>3. Place(t, s) <= Place(t, p)
    BY <1>3, <1>7, <2>1, <2>2
  <2>4. LocalIn(c, p) = Place(t, p) - Place(t, s)
    BY <1>1, <1>2, <1>5, <1>10, <2>3, LocalIs
  <2>5. LocalIn(c, p) \in Nat /\ LocalIn(c, p) < D(s) - D(e)
    BY <1>3, <1>7, <2>1, <2>2, <2>3, <2>4
  <2>6. LocalIn(c, p) \in 0..(GroupSize(group) - 1)
    BY <1>7, <1>8, <2>5
  <2>7. Place(t, s) + LocalIn(c, p) = Place(t, p)
    BY <2>2, <2>4
  <2>8. mod_add(Capacity, s, LocalIn(c, p)) = p
    BY <1>1, <1>3, <2>2, <2>5, <2>7, PlacesForward, PlacesDiffer
  <2>9. QED
    BY <2>6, <2>8 DEF GroupPosition, s
<1>11. QED
  BY <1>5, <1>8, <1>9, <1>10 DEF s
-------------------------------------------------------------------------------
(* What the table stands for.                                              *)

LEMMA IdReadsBack ==
  ASSUME NEW ia \in Positions, NEW local \in Positions
  PROVE  /\ local_id_to_global_id(ia, local) \in 0..(Capacity * Capacity - 1)
         /\ local_id_to_global_id(ia, local) % Capacity = ia
         /\ local_id_to_global_id(ia, local) \div Capacity = local
<1>1. /\ Capacity \in Nat \ {0} /\ ia \in 0..(Capacity - 1) /\ local \in Nat
      /\ local <= Capacity - 1
  BY CapacityNat DEF Positions
<1>2. /\ local_id_to_global_id(ia, local) % Capacity = ia
      /\ local_id_to_global_id(ia, local) \div Capacity = local
  BY <1>1, SMT DEF local_id_to_global_id
<1>3. local * Capacity <= (Capacity - 1) * Capacity /\ local * Capacity \in Nat
  BY <1>1, SMT
<1>4. (Capacity - 1) * Capacity = Capacity * Capacity - Capacity /\ Capacity * Capacity \in Nat
  BY <1>1, SMT
<1>5. local * Capacity + ia \in Nat /\ local * Capacity + ia <= Capacity * Capacity - 1
  BY <1>1, <1>3, <1>4
<1>6. QED
  BY <1>2, <1>4, <1>5 DEF local_id_to_global_id

(* The table's keys and ids, written with the addresses of the elements.   *)
KeysAre(home) == StoredKeys = {[ia |-> home[p], sq |-> slot[p]] : p \in Used(slot)}

EntriesAre(home) ==
    /\ Entries = [key \in StoredKeys |-> Entries[key]]
    /\ \A p \in Used(slot) :
          Entries[[ia |-> home[p], sq |-> slot[p]]]
            = local_id_to_global_id(home[p], LocalIn(c, p))

LEMMA TableStandsFor ==
  \A home \in Homes :
     Cardinality(Used(slot)) <= MaxEntries /\ IsHome(home) =>
       /\ \A p \in Used(slot) : HomeOf(p) = home[p]
       /\ KeysAre(home) /\ EntriesAre(home)
<1> SUFFICES ASSUME NEW home \in Homes, Cardinality(Used(slot)) <= MaxEntries, IsHome(home)
             PROVE  /\ \A p \in Used(slot) : HomeOf(p) = home[p]
                    /\ KeysAre(home) /\ EntriesAre(home)
  OBVIOUS
<1>1. PICK f \in Positions : f \notin Used(slot)
  BY FreeExists
<1>2. Grouped(f, slot, v, c, home)
  BY <1>1 DEF IsHome
<1>3. \A p \in Used(slot) : HomeOf(p) = home[p]
  BY <1>1, <1>2, HomeIs
<1>4. Allocated = Used(slot)
  BY DEF Allocated, Used, pos_is_empty
<1>5. \A p \in Used(slot) : KeyAt(p) = [ia |-> home[p], sq |-> slot[p]]
  BY <1>3 DEF KeyAt
<1>6. KeysAre(home)
  BY <1>4, <1>5 DEF KeysAre, StoredKeys
<1>7. ASSUME NEW p \in Used(slot)
      PROVE  Entries[[ia |-> home[p], sq |-> slot[p]]]
               = local_id_to_global_id(home[p], LocalIn(c, p))
  <2> DEFINE key == [ia |-> home[p], sq |-> slot[p]]
             Is(q) == slot[q] = key.sq /\ HomeOf(q) = key.ia
  <2>1. key \in StoredKeys
    BY <1>6 DEF KeysAre
  <2>2. key.ia = home[p] /\ key.sq = slot[p]
    OBVIOUS
  <2>3. \A q \in Used(slot) : Is(q) <=> q = p
    BY <1>2, <1>3, <2>2 DEF Grouped, Distinct
  <2>4. (CHOOSE q \in Allocated : Is(q)) = p
    <3> HIDE DEF Is
    <3>1. QED
      BY <1>4, <2>3
  <2> HIDE DEF key
  <2>5. Entries[key] = local_id_to_global_id(key.ia, LocalId(CHOOSE q \in Allocated : Is(q)))
    BY <2>1 DEF Entries
  <2>6. LocalId(p) = LocalIn(c, p)
    BY DEF LocalId, LocalIn
  <2>7. QED
    BY <2>2, <2>4, <2>5, <2>6 DEF key
<1>8. Entries = [key \in StoredKeys |-> Entries[key]]
  BY DEF Entries
<1>9. QED
  BY <1>3, <1>6, <1>7, <1>8 DEF EntriesAre

LEMMA AddressUsed ==
  ASSUME IInv, NEW home \in Homes, IsHome(home), NEW ia \in Positions, v[ia]
  PROVE  ia \in Used(slot) /\ \E p \in Used(slot) : home[p] = ia
<1>1. PICK f \in Positions : f \notin Used(slot)
  BY FreeExists DEF IInv
<1>2. Grouped(f, slot, v, c, home)
  BY <1>1 DEF IsHome
<1>3. PICK p \in Used(slot) : home[p] = ia
  BY <1>2 DEF Grouped, Addressed
<1>4. Place(f, ia) <= Place(f, p) /\ Place(f, ia) <= Place(f, ia)
  BY <1>1, <1>2, <1>3, Places DEF Grouped, Reaches
<1>5. ia \in Used(slot)
  BY <1>2, <1>3, <1>4 DEF Grouped, Reaches
<1>6. QED
  BY <1>3, <1>5

(* The offsets search_in_group finds are the local ids of the elements of  *)
(* the key: one, if the key is stored.                                     *)
LEMMA OffsetsAre ==
  ASSUME IInv, NEW home \in Homes, IsHome(home), NEW key \in DecomposedKeys, v[key.ia]
  PROVE  LET group == search_existing_group(v, key.ia) IN
         /\ GroupIs(group, home, key.ia)
         /\ key \notin StoredKeys => search_in_group(group, key.sq) = {}
         /\ \A pos \in Used(slot) : home[pos] = key.ia /\ slot[pos] = key.sq =>
              /\ search_in_group(group, key.sq) = {LocalIn(c, pos)}
              /\ GroupPosition(group, LocalIn(c, pos)) = pos
<1> DEFINE group == search_existing_group(v, key.ia)
<1>1. /\ key.ia \in Positions /\ key.sq \in Quotients
      /\ key = [ia |-> key.ia, sq |-> key.sq]
  BY AddressesAssumption DEF DecomposedKeys, Positions
<1>2. GroupIs(group, home, key.ia)
  BY <1>1, AddressUsed, GroupFound DEF IInv, TypeOK
<1>3. KeysAre(home)
  BY TableStandsFor DEF IInv
<1> HIDE DEF group
<1>4. \A n \in 0..(GroupSize(group) - 1) :
         /\ GroupPosition(group, n) \in Used(slot)
         /\ home[GroupPosition(group, n)] = key.ia
         /\ LocalIn(c, GroupPosition(group, n)) = n
  BY <1>1, <1>2, GroupElements
<1>5. \A p \in Used(slot) : home[p] = key.ia =>
         /\ LocalIn(c, p) \in 0..(GroupSize(group) - 1)
         /\ GroupPosition(group, LocalIn(c, p)) = p
  BY <1>1, <1>2, GroupElements
<1>6. ASSUME key \notin StoredKeys PROVE search_in_group(group, key.sq) = {}
  <2> SUFFICES ASSUME NEW n \in 0..(GroupSize(group) - 1),
                      slot[GroupPosition(group, n)] = key.sq
               PROVE  FALSE
    BY DEF search_in_group
  <2>1. [ia |-> home[GroupPosition(group, n)], sq |-> slot[GroupPosition(group, n)]] \in StoredKeys
    BY <1>3, <1>4 DEF KeysAre
  <2>2. QED
    BY <1>1, <1>4, <1>6, <2>1
<1>7. ASSUME NEW pos \in Used(slot), home[pos] = key.ia, slot[pos] = key.sq
      PROVE  /\ search_in_group(group, key.sq) = {LocalIn(c, pos)}
             /\ GroupPosition(group, LocalIn(c, pos)) = pos
  <2>1. PICK f \in Positions : f \notin Used(slot)
    BY FreeExists DEF IInv
  <2>2. \A p, q \in Used(slot) : home[p] = home[q] /\ slot[p] = slot[q] => p = q
    BY <2>1 DEF IsHome, Grouped, Distinct
  <2>3. ASSUME NEW n \in 0..(GroupSize(group) - 1)
        PROVE  slot[GroupPosition(group, n)] = key.sq <=> n = LocalIn(c, pos)
    BY <1>4, <1>5, <1>7, <2>2
  <2>4. QED
    BY <1>5, <1>7, <2>3 DEF search_in_group
<1>8. QED
  BY <1>2, <1>6, <1>7 DEF group

LEMMA SearchFinds == IInv => SearchFindsEntries
<1> SUFFICES ASSUME IInv, NEW key \in DecomposedKeys
             PROVE  IF key \in StoredKeys
                    THEN /\ search(key) = [found |-> TRUE, id |-> Entries[key]]
                         /\ lookup_id(Entries[key]) = key.sq
                    ELSE search(key) = NotFound
  BY DEF SearchFindsEntries
<1>1. PICK home \in Homes : IsHome(home)
  BY DEF IInv
<1>2. KeysAre(home) /\ EntriesAre(home)
  BY <1>1, TableStandsFor DEF IInv
<1>3. /\ key.ia \in Positions /\ key.sq \in Quotients
      /\ key = [ia |-> key.ia, sq |-> key.sq]
  BY AddressesAssumption DEF DecomposedKeys, Positions
<1> DEFINE group == search_existing_group(v, key.ia)
           offsets == search_in_group(group, key.sq)
<1>4. CASE key \in StoredKeys
  <2>1. PICK pos \in Used(slot) : key = [ia |-> home[pos], sq |-> slot[pos]]
    BY <1>2, <1>4 DEF KeysAre
  <2>2. home[pos] = key.ia /\ slot[pos] = key.sq
    BY <2>1
  <2>3. v[key.ia]
    <3>1. PICK f \in Positions : f \notin Used(slot)
      BY FreeExists DEF IInv
    <3>2. QED
      BY <1>1, <2>2, <3>1 DEF IsHome, Grouped, Reaches
  <2>4. /\ GroupIs(group, home, key.ia)
        /\ offsets = {LocalIn(c, pos)} /\ GroupPosition(group, LocalIn(c, pos)) = pos
    BY <1>1, <2>2, <2>3, OffsetsAre
  <2>5. LocalIn(c, pos) \in Positions
    <3>1. GroupSize(group) \in Nat /\ GroupSize(group) < Capacity
          /\ LocalIn(c, pos) \in 0..(GroupSize(group) - 1)
      BY <1>1, <1>3, <2>2, <2>3, <2>4, GroupElements
    <3>2. QED
      BY <3>1, CapacityNat DEF Positions
  <2>6. Entries[key] = local_id_to_global_id(key.ia, LocalIn(c, pos))
    BY <1>2, <2>1, <2>2 DEF EntriesAre
  <2>7. Min(offsets) = LocalIn(c, pos) /\ offsets # {}
    <3>1. LocalIn(c, pos) \in Nat
      BY <2>5, CapacityNat DEF Positions
    <3>2. \A n : n \in Nat => Min({n}) = n
      BY MinOfNaturals
    <3>3. QED
      BY <2>4, <3>1, <3>2
  <2>8. search(key) = [found |-> TRUE, id |-> Entries[key]]
    <3> HIDE DEF offsets
    <3>1. search(key) = FoundExist(key, offsets)
      BY <2>3, <2>7 DEF search, offsets
    <3>2. QED
      BY <2>6, <2>7, <3>1 DEF FoundExist
  <2>9. lookup_id(Entries[key]) = key.sq
    <3>1. Entries[key] % Capacity = key.ia /\ Entries[key] \div Capacity = LocalIn(c, pos)
      BY <1>3, <2>5, <2>6, IdReadsBack
    <3>2. lookup_id(Entries[key]) = slot[GroupPosition(group, LocalIn(c, pos))]
      BY <3>1 DEF lookup_id
    <3>3. QED
      BY <2>2, <2>4, <3>2
  <2>10. QED
    BY <1>4, <2>8, <2>9
<1>5. CASE key \notin StoredKeys
  <2>1. CASE v[key.ia]
    <3>1. offsets = {}
      BY <1>1, <1>5, <2>1, OffsetsAre
    <3>2. QED
      BY <1>5, <2>1, <3>1 DEF search
  <2>2. CASE ~v[key.ia]
    BY <1>5, <2>2 DEF search
  <2>3. QED
    BY <2>1, <2>2
<1>6. QED
  BY <1>4, <1>5
-------------------------------------------------------------------------------
(* Where an insertion puts the element.                                    *)

LEMMA MovesIs ==
  ASSUME NEW f \in Positions, NEW e \in Positions, NEW t \in Positions,
         Place(f, e) <= Place(f, t), NEW p \in Positions
  PROVE  /\ Moves(e, t, p) <=> Place(f, e) < Place(f, p) /\ Place(f, p) <= Place(f, t)
         /\ Source(f, e, t, p) = IF Moves(e, t, p) THEN Prev1(p) ELSE p
<1>1. Moves(e, t, p) <=> Place(f, e) < Place(f, p) /\ Place(f, p) <= Place(f, t)
  BY CapacityNat DEF Moves, Positions, Place, mod_sub
<1>2. QED
  BY <1>1 DEF Source

(* The places seen from f are those seen from t, turned round.             *)
LEMMA SeenFrom ==
  ASSUME NEW f \in Positions, NEW t \in Positions, f # t, NEW q \in Positions
  PROVE  /\ Place(f, q) = IF Place(t, f) <= Place(t, q)
                          THEN Place(t, q) - Place(t, f)
                          ELSE Place(t, q) - Place(t, f) + Capacity
         /\ Place(f, t) = Capacity - Place(t, f)
BY CapacityNat DEF Positions, Place, mod_sub

LEMMA GroupGoesTo ==
  ASSUME IInv, NEW home \in Homes, IsHome(home), NEW ia \in Used(slot),
         NEW group, GroupIs(group, home, ia),
         NEW sq, sq # EMPTY, \A p \in Used(slot) : home[p] = ia => slot[p] # sq,
         NEW f \in Positions, f \notin Used(slot), f # group.terminator
  PROVE  GoesTo(f, slot, home, group.group_end, group.terminator, ia, sq)
<1> DEFINE t == group.terminator
           e == group.group_end
           D(p) == mod_sub(Capacity, t, p)
<1>1. /\ t \in Positions /\ t \notin Used(slot) /\ f # t
      /\ \A q \in Positions : Place(t, ia) <= Place(t, q) => q \in Used(slot)
      /\ e \in Used(slot) \cup {t}
      /\ \A p \in Used(slot) : Place(t, ia) < Place(t, home[p]) <=> D(p) <= D(e)
  BY DEF GroupIs
<1> SUFFICES GoesTo(f, slot, home, e, t, ia, sq)
  OBVIOUS
<1> HIDE DEF t, e
<1>2. Grouped(t, slot, v, c, home)
  BY <1>1 DEF IsHome
<1>3. /\ Capacity \in Nat /\ ia \in Positions
      /\ \A p \in Positions : Place(t, p) \in Nat /\ Place(t, p) < Capacity
      /\ \A p \in Used(slot) : p \in Positions /\ p # t /\ home[p] \in Positions
      /\ e \in Positions
  BY <1>1, Places, CapacityNat DEF Used, Homes
<1>4. /\ \A p \in Positions : p # t => D(p) = Capacity - Place(t, p)
      /\ D(t) = 0 /\ Place(t, t) = 0
  BY <1>1, Distances, Places
<1>5. Place(t, f) < Place(t, ia)
  BY <1>1, <1>3
<1>6. \A q \in Positions :
         Place(f, q) = IF Place(t, f) <= Place(t, q)
                       THEN Place(t, q) - Place(t, f)
                       ELSE Place(t, q) - Place(t, f) + Capacity
  BY <1>1, SeenFrom
<1>7. Place(f, t) = Capacity - Place(t, f)
  BY <1>1, SeenFrom
<1>8. e # t => Place(t, ia) <= Place(t, e)
  <2> SUFFICES ASSUME e # t PROVE Place(t, ia) <= Place(t, e)
    OBVIOUS
  <2>1. e \in Used(slot) /\ e \in Positions /\ home[e] \in Positions /\ D(e) <= D(e)
    BY <1>1, <1>3, <1>4
  <2>2. Place(t, ia) < Place(t, home[e]) /\ Place(t, home[e]) <= Place(t, e)
    BY <1>1, <1>2, <2>1 DEF Grouped, Reaches
  <2>3. QED
    BY <1>3, <2>1, <2>2
<1>9. Place(f, e) = (IF e = t THEN Capacity ELSE Place(t, e)) - Place(t, f)
  BY <1>3, <1>5, <1>6, <1>7, <1>8
<1>10. Place(f, ia) = Place(t, ia) - Place(t, f)
  BY <1>3, <1>5, <1>6
<1>11. Place(f, ia) <= Place(f, e) /\ Place(f, e) <= Place(f, t)
  <2>1. /\ Place(t, ia) \in Nat /\ Place(t, e) \in Nat /\ Place(t, f) \in Nat
        /\ Place(t, e) < Capacity /\ Place(t, ia) < Capacity
    BY <1>3
  <2>2. QED
    BY <1>3, <1>7, <1>8, <1>9, <1>10, <2>1
<1>12. ASSUME NEW q \in Positions, Place(f, ia) <= Place(f, q), Place(f, q) < Place(f, t)
       PROVE  q \in Used(slot)
  <2>1. /\ Place(t, q) \in Nat /\ Place(t, f) \in Nat /\ Place(t, ia) \in Nat
    BY <1>3
  <2>2. Place(t, f) <= Place(t, q)
    BY <1>3, <1>6, <1>7, <1>12, <2>1
  <2>3. Place(t, ia) <= Place(t, q)
    BY <1>6, <1>10, <1>12, <2>1, <2>2
  <2>4. QED
    BY <1>1, <2>3
<1>13. ASSUME NEW p \in Used(slot)
       PROVE  Place(f, home[p]) <= Place(f, ia) <=> Place(f, p) < Place(f, e)
  <2> DEFINE h == home[p]
  <2> SUFFICES Place(f, h) <= Place(f, ia) <=> Place(f, p) < Place(f, e)
    OBVIOUS
  <2>1. /\ p \in Positions /\ p # t /\ h \in Positions
        /\ Place(t, p) \in Nat /\ Place(t, h) \in Nat /\ Place(t, f) \in Nat /\ Place(t, ia) \in Nat
        /\ Place(t, e) \in Nat /\ Place(t, e) < Capacity /\ Place(t, p) < Capacity
        /\ Place(t, ia) < Capacity
    BY <1>3
  <2>2. /\ Place(t, h) <= Place(t, p)
        /\ ~(Place(t, h) <= Place(t, f) /\ Place(t, f) <= Place(t, p))
    BY <1>2 DEF Grouped, Reaches
  <2>3. D(p) = Capacity - Place(t, p) /\ (e # t => D(e) = Capacity - Place(t, e))
    BY <1>3, <1>4, <2>1
  <2>4. Place(t, ia) < Place(t, h) <=> (e # t /\ Place(t, e) <= Place(t, p))
    <3>1. Place(t, ia) < Place(t, h) <=> D(p) <= D(e)
      BY <1>1
    <3>2. CASE e = t
      BY <1>3, <1>4, <2>1, <2>3, <3>1, <3>2
    <3>3. CASE e # t
      BY <1>3, <2>1, <2>3, <3>1, <3>3
    <3>4. QED
      BY <3>2, <3>3
  <2>5. /\ Place(f, p) = IF Place(t, f) <= Place(t, p) THEN Place(t, p) - Place(t, f)
                         ELSE Place(t, p) - Place(t, f) + Capacity
        /\ Place(f, h) = IF Place(t, f) <= Place(t, h) THEN Place(t, h) - Place(t, f)
                         ELSE Place(t, h) - Place(t, f) + Capacity
    BY <1>6, <2>1
  <2> HIDE DEF h
  <2>6. CASE Place(t, f) <= Place(t, p)
    BY <1>3, <1>9, <1>10, <2>1, <2>2, <2>4, <2>5, <2>6
  <2>7. CASE Place(t, p) < Place(t, f)
    BY <1>3, <1>5, <1>8, <1>9, <1>10, <2>1, <2>2, <2>5, <2>7
  <2>8. QED
    BY <2>1, <2>6, <2>7
<1>14. QED
  BY <1>1, <1>11, <1>12, <1>13 DEF GoesTo

(* A free address takes its first element itself.                          *)
LEMMA AddressGoesTo ==
  ASSUME IInv, NEW home \in Homes, IsHome(home),
         NEW ia \in Positions, ia \notin Used(slot), NEW sq, sq # EMPTY,
         NEW f \in Positions, f \notin Used(slot), f # ia
  PROVE  GoesTo(f, slot, home, ia, ia, ia, sq)
<1>1. Grouped(f, slot, v, c, home)
  BY DEF IsHome
<1>2. /\ \A p \in Positions : Place(f, p) \in Nat
      /\ \A p \in Used(slot) : p \in Positions /\ p # ia /\ home[p] \in Positions
  BY Places DEF Used, Homes
<1>3. ASSUME NEW p \in Used(slot)
      PROVE  /\ Place(f, home[p]) <= Place(f, ia) <=> Place(f, p) < Place(f, ia)
             /\ home[p] # ia
  <2>1. /\ Place(f, home[p]) <= Place(f, p)
        /\ ~(Place(f, home[p]) <= Place(f, ia) /\ Place(f, ia) <= Place(f, p))
    BY <1>1 DEF Grouped, Reaches
  <2>2. p \in Positions /\ home[p] \in Positions
    BY <1>2
  <2>3. QED
    BY <1>2, <2>1, <2>2
<1>4. ASSUME NEW q \in Positions, Place(f, ia) <= Place(f, q), Place(f, q) < Place(f, ia)
      PROVE  q \in Used(slot)
  BY <1>2, <1>4
<1>5. Place(f, ia) <= Place(f, ia)
  BY <1>2
<1>6. QED
  BY <1>3, <1>4, <1>5 DEF GoesTo

LEMMA ShiftTyped ==
  ASSUME slot \in [Positions -> Quotients \cup {EMPTY}],
         NEW from \in Positions, NEW to \in Positions, from # to, NEW sq \in Quotients
  PROVE  shift_elements_and_insert(from, to, sq) \in [Positions -> Quotients \cup {EMPTY}]
<1> DEFINE T == [Positions -> Quotients \cup {EMPTY}]
           upper == sparse_shift(slot, from, Capacity)
           lower == sparse_shift(upper, 0, to)
           shifted == CASE to > from           -> sparse_shift(slot, from, to)
                        [] to < from /\ to = 0 -> upper
                        [] to < from /\ to > 0 -> Swapped(lower, from, 0)
<1>1. from \in Nat /\ to \in Nat /\ from < Capacity /\ to < Capacity /\ 0 \in Positions
      /\ Capacity \in Nat
  BY CapacityNat DEF Positions
<1>2. ASSUME NEW s \in T, NEW x \in Positions, NEW y \in Nat, x < y, y <= Capacity
      PROVE  sparse_shift(s, x, y) \in T
  <2>1. y - 1 \in Positions /\ \A p \in Positions : p \in (x + 1)..(y - 1) => p - 1 \in Positions
    BY <1>1, <1>2 DEF Positions
  <2>2. QED
    BY <2>1 DEF sparse_shift
<1>3. upper \in T
  BY <1>1, <1>2
<1>4. to > 0 => lower \in T
  <2> HIDE DEF upper
  <2>1. QED
    BY <1>1, <1>2, <1>3
<1>5. to > from => sparse_shift(slot, from, to) \in T
  BY <1>1, <1>2
<1>6. to > 0 => Swapped(lower, from, 0) \in T
  <2> HIDE DEF lower
  <2>1. QED
    BY <1>1, <1>4 DEF Swapped
<1>7. shifted \in T
  <2>1. CASE to > from
    <3>1. shifted = sparse_shift(slot, from, to)
      BY <1>1, <2>1
    <3>2. QED
      BY <1>5, <2>1, <3>1
  <2>2. CASE to < from /\ to = 0
    <3>1. shifted = upper
      BY <1>1, <2>2
    <3>2. QED
      BY <1>3, <3>1
  <2>3. CASE to < from /\ to > 0
    <3>1. shifted = Swapped(lower, from, 0)
      BY <1>1, <2>3
    <3>2. QED
      BY <1>6, <2>3, <3>1
  <2>4. QED
    BY <1>1, <2>1, <2>2, <2>3
<1>8. shift_elements_and_insert(from, to, sq) = [shifted EXCEPT ![to] = shifted[from], ![from] = sq]
  BY DEF shift_elements_and_insert
<1> HIDE DEF shifted
<1>9. QED
  BY <1>7, <1>8
-------------------------------------------------------------------------------
(* What an insertion does to the elements: no one is lost, none changes    *)
(* its address, its quotient or its distance from the start of its group.  *)
LEMMA UsedAfter ==
  ASSUME NEW sl, NEW vb, NEW cb, NEW home, NEW sl2, NEW vb2, NEW cb2, NEW home2,
         NEW f \in Positions, NEW e \in Positions, NEW t \in Positions, NEW a \in Positions,
         NEW sq,
         GoesTo(f, sl, home, e, t, a, sq),
         Inserted(f, sl, vb, cb, home, sl2, vb2, cb2, home2, e, t, a, sq)
  PROVE  Used(sl2) = Used(sl) \cup {t}
<1>1. /\ \A p \in Positions : Place(f, p) \in Nat
      /\ Place(f, a) <= Place(f, e) /\ Place(f, e) <= Place(f, t)
      /\ \A q \in Positions :
            Place(f, a) <= Place(f, q) /\ Place(f, q) < Place(f, t) => q \in Used(sl)
      /\ t \notin Used(sl) /\ sq # EMPTY
  BY Places DEF GoesTo
<1>2. ASSUME NEW p \in Positions PROVE p \in Used(sl2) <=> p \in Used(sl) \/ p = t
  <2>1. CASE p = e
    <3>1. p \in Used(sl2)
      BY <1>1, <2>1 DEF Inserted, Used
    <3>2. p \in Used(sl) \/ p = t
      <4>1. CASE Place(f, e) < Place(f, t)
        BY <1>1, <2>1, <4>1
      <4>2. CASE Place(f, e) = Place(f, t)
        BY <2>1, <4>2, PlacesDiffer
      <4>3. QED
        BY <1>1, <4>1, <4>2
    <3>3. QED
      BY <3>1, <3>2
  <2>2. CASE p # e
    <3>1. sl2[p] = sl[Source(f, e, t, p)]
      BY <2>2 DEF Inserted
    <3>2. CASE Place(f, e) < Place(f, p) /\ Place(f, p) <= Place(f, t)
      <4>1. /\ Source(f, e, t, p) \in Positions
            /\ Place(f, Source(f, e, t, p)) = Place(f, p) - 1
        BY <1>1, <2>2, <3>2, Sources
      <4>2. Source(f, e, t, p) \in Used(sl)
        BY <1>1, <3>2, <4>1
      <4>3. p \in Used(sl2)
        BY <3>1, <4>2 DEF Used
      <4>4. p \in Used(sl) \/ p = t
        <5>1. CASE Place(f, p) < Place(f, t)
          BY <1>1, <3>2, <5>1
        <5>2. CASE Place(f, p) = Place(f, t)
          BY <5>2, PlacesDiffer
        <5>3. QED
          BY <1>1, <3>2, <5>1, <5>2
      <4>5. QED
        BY <4>3, <4>4
    <3>3. CASE ~(Place(f, e) < Place(f, p) /\ Place(f, p) <= Place(f, t))
      <4>1. Source(f, e, t, p) = p
        BY <3>3 DEF Source
      <4>2. p # t
        <5>1. Place(f, e) # Place(f, p)
          BY <2>2, PlacesDiffer
        <5>2. QED
          BY <1>1, <3>3, <5>1
      <4>3. QED
        BY <3>1, <4>1, <4>2 DEF Used
    <3>4. QED
      BY <3>2, <3>3
  <2>3. QED
    BY <2>1, <2>2
<1>3. QED
  BY <1>2 DEF Used

Kept(sl, vb, cb, home, sl2, cb2, home2, e, a) ==
    /\ \A q \in Used(sl) : \E p \in Used(sl2) \ {e} :
          /\ home2[p] = home[q] /\ sl2[p] = sl[q]
          /\ LocalIn(cb2, p) = LocalIn(cb, q)
    /\ \A p \in Used(sl2) \ {e} : \E q \in Used(sl) : home2[p] = home[q] /\ sl2[p] = sl[q]
    /\ ~vb[a] => LocalIn(cb2, e) = 0
    /\ \A s \in Used(sl) : cb[s] /\ home[s] = a => LocalIn(cb2, e) = mod_sub(Capacity, e, s)

LEMMA LocalsKept ==
  ASSUME NEW sl, NEW vb \in [Positions -> BOOLEAN], NEW cb \in [Positions -> BOOLEAN],
         NEW home \in Homes,
         NEW sl2, NEW vb2 \in [Positions -> BOOLEAN], NEW cb2 \in [Positions -> BOOLEAN],
         NEW home2 \in Homes,
         NEW f \in Positions, NEW e \in Positions, NEW t \in Positions, NEW a \in Positions,
         NEW sq,
         Grouped(f, sl, vb, cb, home),
         GoesTo(f, sl, home, e, t, a, sq),
         Inserted(f, sl, vb, cb, home, sl2, vb2, cb2, home2, e, t, a, sq)
  PROVE  Kept(sl, vb, cb, home, sl2, cb2, home2, e, a)
<1> DEFINE S(p) == Source(f, e, t, p)
           shifted(p) == Place(f, e) < Place(f, p) /\ Place(f, p) <= Place(f, t)
<1>1. /\ \A p \in Positions : Place(f, p) \in Nat
      /\ \A p \in Positions : home[p] \in Positions
      /\ Used(sl) \subseteq Positions /\ Used(sl2) \subseteq Positions
  BY Places DEF Homes, Used
<1>2. \A p \in Positions \ {e} :
         /\ S(p) \in Positions \ {t}
         /\ Place(f, S(p)) = IF shifted(p) THEN Place(f, p) - 1 ELSE Place(f, p)
         /\ ~shifted(p) => S(p) = p
  BY Sources DEF GoesTo, Source
<1>3. \A p, q \in Positions \ {e} : Place(f, p) < Place(f, q) <=> Place(f, S(p)) < Place(f, S(q))
  BY Sources DEF GoesTo
<1>4. \A q \in Positions \ {t} : \E p \in Positions \ {e} : q = S(p)
  BY Sources DEF GoesTo
<1>5. /\ \A p \in Positions \ {e} : sl2[p] = sl[S(p)] /\ cb2[p] = cb[S(p)] /\ home2[p] = home[S(p)]
      /\ sl2[e] = sq /\ cb2[e] = ~vb[a] /\ home2[e] = a
  BY DEF Inserted
<1>6. Grouped(f, sl2, vb2, cb2, home2)
  BY InsertGrouped
<1>7. /\ Place(f, a) <= Place(f, e) /\ Place(f, e) <= Place(f, t)
      /\ t \notin Used(sl) /\ sq # EMPTY
      /\ \A p \in Used(sl) : Place(f, home[p]) <= Place(f, a) <=> Place(f, p) < Place(f, e)
  BY DEF GoesTo
<1> HIDE DEF S
<1>8. /\ e \in Used(sl2)
      /\ \A p \in Positions \ {e} : p \in Used(sl2) <=> S(p) \in Used(sl)
  BY <1>2, <1>5, <1>7 DEF Used
<1>9. ASSUME NEW q \in Used(sl)
      PROVE  \E p \in Used(sl2) \ {e} : /\ home2[p] = home[q] /\ sl2[p] = sl[q]
                                        /\ LocalIn(cb2, p) = LocalIn(cb, q)
  <2>1. PICK s \in Used(sl) : cb[s] /\ home[s] = home[q] /\ Place(f, s) <= Place(f, q)
    BY GroupStart
  <2>2. PICK p \in Positions \ {e} : q = S(p)
    BY <1>1, <1>4, <1>7
  <2>3. PICK r \in Positions \ {e} : s = S(r)
    BY <1>1, <1>4, <1>7
  <2>4. /\ p \in Used(sl2) /\ home2[p] = home[q] /\ sl2[p] = sl[q]
        /\ r \in Used(sl2) /\ home2[r] = home[q] /\ cb2[r]
    BY <1>5, <1>8, <2>1, <2>2, <2>3
  <2>5. /\ Place(f, p) \in Nat /\ Place(f, q) \in Nat /\ Place(f, r) \in Nat /\ Place(f, s) \in Nat
        /\ Place(f, e) \in Nat /\ Place(f, t) \in Nat
        /\ q \in Positions /\ s \in Positions
        /\ p \in Positions \ {e} /\ r \in Positions \ {e}
    BY <1>1
  <2>6. shifted(p) <=> shifted(r)
    <3>1. Place(f, q) = (IF shifted(p) THEN Place(f, p) - 1 ELSE Place(f, p))
          /\ Place(f, s) = (IF shifted(r) THEN Place(f, r) - 1 ELSE Place(f, r))
      BY <1>2, <2>2, <2>3, <2>5
    <3>2. Place(f, p) # Place(f, e) /\ Place(f, r) # Place(f, e)
      BY <2>5, PlacesDiffer
    <3>3. Place(f, q) < Place(f, e) <=> Place(f, s) < Place(f, e)
      BY <1>7, <2>1
    <3>4. ~(Place(f, s) <= Place(f, t) /\ Place(f, t) <= Place(f, q))
      <4>1. Place(f, home[s]) <= Place(f, s)
        BY DEF Grouped, Reaches
      <4>2. ~(Place(f, home[q]) <= Place(f, t) /\ Place(f, t) <= Place(f, q))
        BY <1>7 DEF Grouped, Reaches
      <4>3. Place(f, home[s]) \in Nat
        BY <1>1
      <4>4. QED
        BY <2>1, <2>5, <4>1, <4>2, <4>3
    <3>5. QED
      BY <1>7, <2>1, <2>5, <3>1, <3>2, <3>3, <3>4
  <2>7. Place(f, r) <= Place(f, p) /\ Place(f, p) - Place(f, r) = Place(f, q) - Place(f, s)
    <3>1. Place(f, q) = (IF shifted(p) THEN Place(f, p) - 1 ELSE Place(f, p))
          /\ Place(f, s) = (IF shifted(r) THEN Place(f, r) - 1 ELSE Place(f, r))
      BY <1>2, <2>2, <2>3, <2>5
    <3> HIDE DEF shifted
    <3>2. QED
      BY <2>1, <2>5, <2>6, <3>1
  <2>8. LocalIn(cb, q) = Place(f, q) - Place(f, s)
    BY <2>1, LocalIs
  <2>9. home2[r] = home2[p]
    BY <2>4
  <2>10. LocalIn(cb2, p) = Place(f, p) - Place(f, r)
    BY <1>6, <2>4, <2>7, <2>9, LocalIs
  <2>11. QED
    BY <2>4, <2>5, <2>7, <2>8, <2>10
<1>10. ASSUME NEW p \in Used(sl2) \ {e}
       PROVE  \E q \in Used(sl) : home2[p] = home[q] /\ sl2[p] = sl[q]
  <2>1. p \in Positions \ {e}
    BY <1>1
  <2>2. S(p) \in Used(sl) /\ home2[p] = home[S(p)] /\ sl2[p] = sl[S(p)]
    BY <1>5, <1>8, <2>1
  <2>3. QED
    BY <2>2
<1>11. ASSUME ~vb[a] PROVE LocalIn(cb2, e) = 0
  <2>1. cb2[e] /\ Place(f, e) <= Place(f, e) /\ Place(f, e) - Place(f, e) = 0
    BY <1>1, <1>5, <1>11
  <2>2. LocalIn(cb2, e) = Place(f, e) - Place(f, e)
    BY <1>6, <1>8, <2>1, LocalIs
  <2>3. QED
    BY <2>1, <2>2
<1>12. ASSUME NEW s \in Used(sl), cb[s], home[s] = a
       PROVE  LocalIn(cb2, e) = mod_sub(Capacity, e, s)
  <2>1. s \in Positions /\ Place(f, s) \in Nat /\ Place(f, e) \in Nat /\ Place(f, a) \in Nat
    BY <1>1
  <2>2. Place(f, s) < Place(f, e)
    BY <1>7, <1>12, <2>1
  <2>3. s # e /\ S(s) = s
    BY <1>2, <2>1, <2>2
  <2>4. s \in Used(sl2) /\ cb2[s] /\ home2[s] = home2[e] /\ Place(f, s) <= Place(f, e)
    BY <1>5, <1>8, <1>12, <2>1, <2>2, <2>3
  <2>5. LocalIn(cb2, e) = Place(f, e) - Place(f, s)
    BY <1>6, <1>8, <2>4, LocalIs
  <2>6. mod_sub(Capacity, e, s) = Place(f, e) - Place(f, s)
    BY <2>1, <2>4, PlacesBehind
  <2>7. QED
    BY <2>5, <2>6
<1>13. QED
  BY <1>9, <1>10, <1>11, <1>12 DEF Kept
-------------------------------------------------------------------------------
(* The actions.                                                            *)

(* The part of an insertion that is the same in all of them: the element   *)
(* is at e, and what was from e on to the free position t has moved on.    *)
Adds(home, key, e, t) ==
    /\ e \in Positions /\ t \in Positions /\ t \notin Used(slot)
    /\ \A f \in Positions : f \notin Used(slot) /\ f # t =>
          GoesTo(f, slot, home, e, t, key.ia, key.sq)
    /\ slot' \in [Positions -> Quotients \cup {EMPTY}]
    /\ v' \in [Positions -> BOOLEAN] /\ c' \in [Positions -> BOOLEAN]
    /\ slot'[e] = key.sq /\ c'[e] = ~v[key.ia]
    /\ \A p \in Positions \ {e} :
          /\ slot'[p] = slot[IF Moves(e, t, p) THEN Prev1(p) ELSE p]
          /\ c'[p] = c[IF Moves(e, t, p) THEN Prev1(p) ELSE p]
    /\ \A b \in Positions : v'[b] = (b = key.ia \/ v[b])

(* The id that is returned.                                                *)
Returns(home, key, e) ==
    \E n \in Positions :
       /\ reply' = [op |-> "lookup_insert", key |-> key,
                    id |-> local_id_to_global_id(key.ia, n), already_exist |-> FALSE]
       /\ \/ ~v[key.ia] /\ n = 0
          \/ v[key.ia] /\ \E s \in Used(slot) :
               c[s] /\ home[s] = key.ia /\ n = mod_sub(Capacity, e, s)

LEMMA InsertValueIs ==
  ASSUME IInv, NEW group,
         NEW e \in Positions, e = group.group_end, NEW t \in Positions, t = group.terminator,
         t \notin Used(slot), e \in Used(slot) \cup {t}, NEW sq \in Quotients
  PROVE  LET r == insert_value_after_group(group, sq) IN
         /\ r.slot \in [Positions -> Quotients \cup {EMPTY}] /\ r.slot[e] = sq
         /\ r.c \in [Positions -> BOOLEAN] /\ ~r.c[e]
         /\ \A p \in Positions \ {e} :
               /\ r.slot[p] = slot[IF Moves(e, t, p) THEN Prev1(p) ELSE p]
               /\ r.c[p] = c[IF Moves(e, t, p) THEN Prev1(p) ELSE p]
<1> DEFINE r == insert_value_after_group(group, sq)
<1>1. slot \in [Positions -> Quotients \cup {EMPTY}] /\ c \in [Positions -> BOOLEAN]
  BY DEF IInv, TypeOK
<1>2. PICK home \in Homes : Grouped(t, slot, v, c, home)
  BY DEF IInv, IsHome
<1>3. CASE e = t
  <2>1. pos_is_empty(group.group_end)
    BY <1>3 DEF Used, pos_is_empty
  <2>2. r.slot = [slot EXCEPT ![e] = sq] /\ r.c = c
    BY <2>1 DEF insert_value_after_group
  <2>3. ~c[e]
    BY <1>2, <1>3 DEF Grouped, Starts
  <2>4. \A p \in Positions \ {e} : ~Moves(e, t, p)
    <3>1. \A p \in Positions \ {e} : mod_sub(Capacity, p, e) # 0 /\ mod_sub(Capacity, p, e) \in Nat
      BY CapacityNat DEF Positions, mod_sub
    <3>2. mod_sub(Capacity, t, e) = 0
      BY <1>3, CapacityNat DEF Positions, mod_sub
    <3>3. QED
      BY <3>1, <3>2 DEF Moves
  <2> HIDE DEF r
  <2>5. QED
    BY <1>1, <2>2, <2>3, <2>4 DEF r
<1>4. CASE e # t
  <2>1. ~pos_is_empty(group.group_end)
    BY <1>4 DEF Used, pos_is_empty
  <2>2. r.slot = shift_elements_and_insert(e, t, sq) /\ r.c = shift_c(e, t)
    BY <2>1 DEF insert_value_after_group
  <2>3. /\ shift_elements_and_insert(e, t, sq) \in [Positions -> Quotients \cup {EMPTY}]
        /\ shift_elements_and_insert(e, t, sq)[e] = sq
        /\ \A p \in Positions \ {e} :
              shift_elements_and_insert(e, t, sq)[p] =
                IF Moves(e, t, p) THEN slot[Prev1(p)] ELSE slot[p]
    BY <1>1, <1>4, ShiftTyped, ShiftIs
  <2>4. /\ shift_c(e, t) \in [Positions -> BOOLEAN] /\ ~shift_c(e, t)[e]
        /\ \A p \in Positions \ {e} :
              shift_c(e, t)[p] = IF Moves(e, t, p) THEN c[Prev1(p)] ELSE c[p]
    <3>1. \A p \in Positions : Prev1(p) \in Positions
      BY CapacityNat DEF Positions, Prev1, mod_sub
    <3>2. QED
      BY <1>1, <3>1 DEF shift_c, Moves
  <2> HIDE DEF r
  <2>5. QED
    BY <2>2, <2>3, <2>4 DEF r
<1>5. QED
  BY <1>3, <1>4

LEMMA KeyFacts ==
  ASSUME NEW key \in DecomposedKeys
  PROVE  /\ key.ia \in Positions /\ key.sq \in Quotients /\ key.sq # EMPTY
         /\ key = [ia |-> key.ia, sq |-> key.sq] /\ 0 \in Positions
<1>1. key.ia \in Addresses /\ key.sq \in Quotients /\ key = [ia |-> key.ia, sq |-> key.sq]
  BY DEF DecomposedKeys
<1>2. key.ia \in Positions /\ key.sq # EMPTY
  BY <1>1, AddressesAssumption, EmptyAssumption DEF Positions
<1>3. 0 \in Positions
  BY CapacityNat DEF Positions
<1>4. QED
  BY <1>1, <1>2, <1>3

LEMMA AtAddressStep ==
  ASSUME IInv, NEW home \in Homes, IsHome(home), NEW key \in DecomposedKeys,
         InsertAtAddress(key)
  PROVE  Adds(home, key, key.ia, key.ia) /\ Returns(home, key, key.ia) /\ ~v[key.ia]
<1> DEFINE ia == key.ia
<1>1. ia \in Positions /\ key.sq \in Quotients /\ key.sq # EMPTY /\ ia \notin Used(slot)
  BY KeyFacts DEF InsertAtAddress, Used, pos_is_empty
<1>2. ~v[ia]
  BY <1>1, AddressUsed
<1>3. \A f \in Positions : f \notin Used(slot) /\ f # ia =>
         GoesTo(f, slot, home, ia, ia, ia, key.sq)
  BY <1>1, AddressGoesTo
<1>4. \A p \in Positions \ {ia} : ~Moves(ia, ia, p)
  <2>1. \A p \in Positions \ {ia} : mod_sub(Capacity, p, ia) # 0 /\ mod_sub(Capacity, p, ia) \in Nat
    BY <1>1, CapacityNat DEF Positions, mod_sub
  <2>2. mod_sub(Capacity, ia, ia) = 0
    BY <1>1, CapacityNat DEF Positions, mod_sub
  <2>3. QED
    BY <2>1, <2>2 DEF Moves
<1>5. /\ slot \in [Positions -> Quotients \cup {EMPTY}]
      /\ v \in [Positions -> BOOLEAN] /\ c \in [Positions -> BOOLEAN]
  BY DEF IInv, TypeOK
<1>6. Adds(home, key, ia, ia)
  BY <1>1, <1>2, <1>3, <1>4, <1>5 DEF Adds, InsertAtAddress
<1>7. Returns(home, key, ia)
  BY <1>2, KeyFacts DEF Returns, InsertAtAddress, Reply
<1>8. QED
  BY <1>2, <1>6, <1>7

LEMMA InGroupStep ==
  ASSUME IInv, NEW home \in Homes, IsHome(home), NEW key \in DecomposedKeys,
         key \notin StoredKeys, InsertInGroup(key)
  PROVE  \E e, t \in Positions : Adds(home, key, e, t) /\ Returns(home, key, e)
<1> DEFINE group == search_existing_group(v, key.ia)
           r == insert_value_after_group(group, key.sq)
           e == group.group_end
           t == group.terminator
<1>1. key.ia \in Positions /\ key.sq \in Quotients /\ key.sq # EMPTY /\ v[key.ia]
      /\ key = [ia |-> key.ia, sq |-> key.sq]
  BY KeyFacts DEF InsertInGroup
<1>2. key.ia \in Used(slot)
  BY <1>1, AddressUsed
<1>3. GroupIs(group, home, key.ia) /\ search_in_group(group, key.sq) = {}
  BY <1>1, OffsetsAre
<1>4. /\ slot' = r.slot /\ c' = r.c /\ v' = v
      /\ reply' = [op |-> "lookup_insert", key |-> key,
                   id |-> local_id_to_global_id(key.ia, GroupSize(group)),
                   already_exist |-> FALSE]
  BY <1>3 DEF InsertInGroup, Reply
<1> HIDE DEF group
<1>5. /\ t \in Positions /\ t \notin Used(slot) /\ e \in Used(slot) \cup {t} /\ e \in Positions
      /\ group.group_start \in Used(slot) /\ c[group.group_start]
  BY <1>1, <1>3 DEF GroupIs, Used
<1>6. /\ r.slot \in [Positions -> Quotients \cup {EMPTY}] /\ r.slot[e] = key.sq
      /\ r.c \in [Positions -> BOOLEAN] /\ ~r.c[e]
      /\ \A p \in Positions \ {e} :
            /\ r.slot[p] = slot[IF Moves(e, t, p) THEN Prev1(p) ELSE p]
            /\ r.c[p] = c[IF Moves(e, t, p) THEN Prev1(p) ELSE p]
  BY <1>1, <1>5, InsertValueIs
<1>7. \A p \in Used(slot) : home[p] = key.ia => slot[p] # key.sq
  <2>1. KeysAre(home)
    BY TableStandsFor DEF IInv
  <2>2. QED
    BY <1>1, <2>1 DEF KeysAre
<1>8. \A f \in Positions : f \notin Used(slot) /\ f # t =>
         GoesTo(f, slot, home, e, t, key.ia, key.sq)
  BY <1>1, <1>2, <1>3, <1>7, GroupGoesTo
<1>9. v \in [Positions -> BOOLEAN]
  BY DEF IInv, TypeOK
<1> HIDE DEF r, e, t
<1>10. Adds(home, key, e, t)
  BY <1>1, <1>4, <1>5, <1>6, <1>8, <1>9 DEF Adds
<1>11. Returns(home, key, e)
  <2>1. /\ GroupSize(group) \in Positions /\ home[group.group_start] = key.ia
    <3>1. /\ GroupSize(group) \in Nat /\ GroupSize(group) < Capacity
          /\ home[group.group_start] = key.ia
      BY <1>1, <1>3, GroupElements
    <3>2. QED
      BY <3>1, CapacityNat DEF Positions
  <2>2. GroupSize(group) = mod_sub(Capacity, e, group.group_start)
    BY DEF GroupSize, e
  <2>3. QED
    BY <1>1, <1>4, <1>5, <2>1, <2>2 DEF Returns
<1>12. QED
  BY <1>5, <1>10, <1>11

LEMMA NewGroupStep ==
  ASSUME IInv, NEW home \in Homes, IsHome(home), NEW key \in DecomposedKeys,
         InsertNewGroup(key)
  PROVE  /\ \E e, t \in Positions : Adds(home, key, e, t) /\ Returns(home, key, e)
         /\ ~v[key.ia]
<1>1. key.ia \in Positions /\ key.sq \in Quotients /\ key.sq # EMPTY /\ ~v[key.ia]
      /\ 0 \in Positions
  BY KeyFacts DEF InsertNewGroup
<1>2. key.ia \in Used(slot)
  BY <1>1 DEF InsertNewGroup, Used, pos_is_empty
<1>3. v \in [Positions -> BOOLEAN]
  BY DEF IInv, TypeOK
<1>4. PICK vbits : vbits = v'
  OBVIOUS
<1>5. /\ vbits = [v EXCEPT ![key.ia] = TRUE] /\ vbits \in [Positions -> BOOLEAN]
      /\ vbits[key.ia] /\ \A a \in Positions \ {key.ia} : vbits[a] = v[a]
  BY <1>1, <1>3, <1>4 DEF InsertNewGroup
<1> DEFINE group == search_existing_group(vbits, key.ia)
           r == insert_value_after_group(group, key.sq)
           e == group.group_end
           t == group.terminator
<1>6. GroupIs(group, home, key.ia)
  BY <1>2, <1>3, <1>5, GroupFound DEF IInv
<1>7. /\ slot' = r.slot /\ c' = [r.c EXCEPT ![e] = TRUE]
      /\ reply' = [op |-> "lookup_insert", key |-> key,
                   id |-> local_id_to_global_id(key.ia, 0), already_exist |-> FALSE]
  BY <1>4 DEF InsertNewGroup, Reply
<1> HIDE DEF group
<1>8. t \in Positions /\ t \notin Used(slot) /\ e \in Used(slot) \cup {t} /\ e \in Positions
  BY <1>6 DEF GroupIs, Used
<1>9. /\ r.slot \in [Positions -> Quotients \cup {EMPTY}] /\ r.slot[e] = key.sq
      /\ r.c \in [Positions -> BOOLEAN]
      /\ \A p \in Positions \ {e} :
            /\ r.slot[p] = slot[IF Moves(e, t, p) THEN Prev1(p) ELSE p]
            /\ r.c[p] = c[IF Moves(e, t, p) THEN Prev1(p) ELSE p]
  BY <1>1, <1>8, InsertValueIs
<1>10. \A p \in Used(slot) : home[p] # key.ia
  <2>1. PICK f \in Positions : f \notin Used(slot)
    BY FreeExists DEF IInv
  <2>2. \A p \in Used(slot) : v[home[p]]
    BY <2>1 DEF IsHome, Grouped, Reaches
  <2>3. QED
    BY <1>1, <2>2
<1>11. \A f \in Positions : f \notin Used(slot) /\ f # t =>
         GoesTo(f, slot, home, e, t, key.ia, key.sq)
  BY <1>1, <1>2, <1>6, <1>10, GroupGoesTo
<1> HIDE DEF r, e, t
<1>12. c' \in [Positions -> BOOLEAN] /\ c'[e] /\ \A p \in Positions \ {e} : c'[p] = r.c[p]
  BY <1>7, <1>8, <1>9
<1>13. Adds(home, key, e, t)
  <2>1. \A b \in Positions : v'[b] = (b = key.ia \/ v[b])
    BY <1>1, <1>3, <1>4, <1>5
  <2>2. c'[e] = ~v[key.ia]
    BY <1>1, <1>3, <1>8, <1>12
  <2>3. \A p \in Positions \ {e} :
           /\ slot'[p] = slot[IF Moves(e, t, p) THEN Prev1(p) ELSE p]
           /\ c'[p] = c[IF Moves(e, t, p) THEN Prev1(p) ELSE p]
    BY <1>7, <1>9, <1>12
  <2>4. slot' \in [Positions -> Quotients \cup {EMPTY}] /\ slot'[e] = key.sq
        /\ v' \in [Positions -> BOOLEAN]
    BY <1>4, <1>5, <1>7, <1>9
  <2>5. QED
    BY <1>8, <1>11, <1>12, <2>1, <2>2, <2>3, <2>4 DEF Adds
<1>14. Returns(home, key, e)
  BY <1>1, <1>7 DEF Returns
<1>15. QED
  BY <1>1, <1>8, <1>13, <1>14
-------------------------------------------------------------------------------
(* The invariant.                                                          *)

LEMMA RoomLeft ==
  ASSUME HasRoom, NEW t \in Positions
  PROVE  \E f \in Positions : f \notin Used(slot) /\ f # t
<1>1. Allocated = Used(slot) /\ Used(slot) \subseteq Positions
  BY DEF Allocated, Used, pos_is_empty
<1>2. Cardinality(Positions) = Capacity
  BY CapacityNat, FS_Interval DEF Positions
<1>3. IsFiniteSet(Used(slot)) /\ Cardinality(Used(slot)) \in Nat
  BY <1>1, PositionsFinite
<1>4. /\ Cardinality(Used(slot) \cup {t}) \in Nat
      /\ Cardinality(Used(slot) \cup {t}) <= Cardinality(Used(slot)) + 1
  BY <1>3, FS_AddElement
<1>5. Cardinality(Used(slot) \cup {t}) # Capacity
  BY <1>1, <1>3, <1>4, CapacityNat DEF HasRoom
<1>6. Used(slot) \cup {t} # Positions
  BY <1>2, <1>5
<1>7. QED
  BY <1>1, <1>6

(* Elements of a group are told apart by their local ids.                  *)
LEMMA LocalsDiffer ==
  ASSUME NEW sl, NEW vb, NEW cb, NEW f \in Positions, NEW home \in Homes,
         Grouped(f, sl, vb, cb, home), NEW p \in Used(sl)
  PROVE  /\ LocalIn(cb, p) \in Positions
         /\ \A q \in Used(sl) :
               home[q] = home[p] /\ LocalIn(cb, q) = LocalIn(cb, p) => q = p
<1>1. \A q \in Used(sl) : q \in Positions /\ Place(f, q) \in Nat /\ Place(f, q) < Capacity
  BY Places DEF Used
<1>2. ASSUME NEW x \in Used(sl), NEW y \in Used(sl), home[x] = home[y],
             Place(f, x) <= Place(f, y)
      PROVE  /\ LocalIn(cb, x) \in Positions
             /\ LocalIn(cb, x) = LocalIn(cb, y) => x = y
  <2>1. PICK s \in Used(sl) : cb[s] /\ home[s] = home[x] /\ Place(f, s) <= Place(f, x)
    BY GroupStart
  <2>2. LocalIn(cb, x) = Place(f, x) - Place(f, s)
    BY <2>1, LocalIs
  <2>3. home[s] = home[y] /\ Place(f, s) <= Place(f, y)
    BY <1>1, <1>2, <2>1
  <2>4. LocalIn(cb, y) = Place(f, y) - Place(f, s)
    BY <2>1, <2>3, LocalIs
  <2>5. LocalIn(cb, x) = LocalIn(cb, y) => Place(f, x) = Place(f, y)
    BY <1>1, <2>2, <2>4
  <2>6. LocalIn(cb, x) \in Positions
    BY <1>1, <2>1, <2>2, CapacityNat DEF Positions
  <2>7. QED
    BY <1>1, <2>5, <2>6, PlacesDiffer
<1>3. LocalIn(cb, p) \in Positions
  BY <1>1, <1>2
<1>4. ASSUME NEW q \in Used(sl), home[q] = home[p], LocalIn(cb, q) = LocalIn(cb, p)
      PROVE  q = p
  <2>1. CASE Place(f, p) <= Place(f, q)
    BY <1>2, <1>4, <2>1
  <2>2. CASE Place(f, q) <= Place(f, p)
    BY <1>2, <1>4, <2>2
  <2>3. QED
    BY <1>1, <2>1, <2>2
<1>5. QED
  BY <1>3, <1>4

(* The table after an insertion.                                           *)
After(home, home2, key, e, t) ==
    /\ Used(slot') = Used(slot) \cup {t}
    /\ IsHome(home2)'
    /\ e \in Used(slot') /\ home2[e] = key.ia /\ slot'[e] = key.sq
    /\ \A q \in Used(slot) : \E p \in Used(slot') \ {e} :
          home2[p] = home[q] /\ slot'[p] = slot[q] /\ LocalIn(c', p) = LocalIn(c, q)
    /\ \A p \in Used(slot') \ {e} : \E q \in Used(slot) :
          home2[p] = home[q] /\ slot'[p] = slot[q]
    /\ LocalIn(c', e) \in Positions
    /\ reply' = [op |-> "lookup_insert", key |-> key,
                 id |-> local_id_to_global_id(key.ia, LocalIn(c', e)),
                 already_exist |-> FALSE]

LEMMA AfterAdds ==
  ASSUME IInv, HasRoom, NEW home \in Homes, IsHome(home), NEW key \in DecomposedKeys,
         NEW e \in Positions, NEW t \in Positions, Adds(home, key, e, t), Returns(home, key, e)
  PROVE  \E home2 \in Homes : After(home, home2, key, e, t)
<1> DEFINE from(p) == IF Moves(e, t, p) THEN Prev1(p) ELSE p
           home2 == [p \in Positions |-> IF p = e THEN key.ia ELSE home[from(p)]]
<1>1. key.ia \in Positions /\ key.sq # EMPTY
  BY KeyFacts
<1>2. \A p \in Positions : from(p) \in Positions /\ home[p] \in Positions
  BY CapacityNat DEF Positions, Prev1, mod_sub, Homes
<1> HIDE DEF from
<1>3. home2 \in Homes
  BY <1>1, <1>2 DEF Homes
<1>4. PICK sl2, vb2, cb2 : sl2 = slot' /\ vb2 = v' /\ cb2 = c'
  OBVIOUS
<1>5. home2[e] = key.ia /\ \A p \in Positions \ {e} : home2[p] = home[from(p)]
  OBVIOUS
<1> HIDE DEF home2
<1>6. /\ v \in [Positions -> BOOLEAN] /\ c \in [Positions -> BOOLEAN]
      /\ vb2 \in [Positions -> BOOLEAN] /\ cb2 \in [Positions -> BOOLEAN]
  BY <1>4 DEF IInv, TypeOK, Adds
<1>7. ASSUME NEW f \in Positions, f \notin Used(slot), f # t
      PROVE  /\ GoesTo(f, slot, home, e, t, key.ia, key.sq)
             /\ Inserted(f, slot, v, c, home, sl2, vb2, cb2, home2, e, t, key.ia, key.sq)
             /\ Grouped(f, slot, v, c, home)
             /\ Grouped(f, sl2, vb2, cb2, home2)
  <2>1. GoesTo(f, slot, home, e, t, key.ia, key.sq) /\ Grouped(f, slot, v, c, home)
    BY <1>7 DEF Adds, IsHome
  <2>2. Place(f, e) <= Place(f, t)
    BY <2>1 DEF GoesTo
  <2>3. \A p \in Positions : Source(f, e, t, p) = from(p)
    BY <2>2, MovesIs DEF from
  <2>4. /\ sl2[e] = key.sq /\ cb2[e] = ~v[key.ia]
        /\ \A p \in Positions \ {e} : sl2[p] = slot[from(p)] /\ cb2[p] = c[from(p)]
        /\ \A b \in Positions : vb2[b] = (b = key.ia \/ v[b])
    BY <1>4 DEF Adds, from
  <2>5. Inserted(f, slot, v, c, home, sl2, vb2, cb2, home2, e, t, key.ia, key.sq)
    BY <1>5, <2>3, <2>4 DEF Inserted
  <2>6. Grouped(f, sl2, vb2, cb2, home2)
    BY <1>1, <1>3, <1>6, <2>1, <2>5, InsertGrouped
  <2>7. QED
    BY <2>1, <2>5, <2>6
<1>8. PICK f0 \in Positions : f0 \notin Used(slot) /\ f0 # t
  BY RoomLeft
<1>9. Used(sl2) = Used(slot) \cup {t}
  BY <1>1, <1>7, <1>8, UsedAfter
<1>10. \A f \in Positions \ Used(sl2) : Grouped(f, sl2, vb2, cb2, home2)
  BY <1>7, <1>9
<1>11. IsHome(home2)'
  BY <1>4, <1>10 DEF IsHome
<1>12. /\ \A q \in Used(slot) : \E p \in Used(sl2) \ {e} :
             /\ home2[p] = home[q] /\ sl2[p] = slot[q]
             /\ LocalIn(cb2, p) = LocalIn(c, q)
       /\ \A p \in Used(sl2) \ {e} : \E q \in Used(slot) :
             home2[p] = home[q] /\ sl2[p] = slot[q]
       /\ ~v[key.ia] => LocalIn(cb2, e) = 0
       /\ \A s \in Used(slot) : c[s] /\ home[s] = key.ia =>
             LocalIn(cb2, e) = mod_sub(Capacity, e, s)
  <2>1. Kept(slot, v, c, home, sl2, cb2, home2, e, key.ia)
    BY <1>1, <1>3, <1>6, <1>7, <1>8, LocalsKept
  <2>2. QED
    BY <2>1 DEF Kept
<1>13. e \in Used(sl2) /\ sl2[e] = key.sq
  BY <1>1, <1>4 DEF Adds, Used
<1>14. /\ LocalIn(cb2, e) \in Positions
       /\ reply' = [op |-> "lookup_insert", key |-> key,
                    id |-> local_id_to_global_id(key.ia, LocalIn(cb2, e)),
                    already_exist |-> FALSE]
  <2>1. PICK n \in Positions :
           /\ reply' = [op |-> "lookup_insert", key |-> key,
                        id |-> local_id_to_global_id(key.ia, n), already_exist |-> FALSE]
           /\ \/ ~v[key.ia] /\ n = 0
              \/ v[key.ia] /\ \E s \in Used(slot) :
                   c[s] /\ home[s] = key.ia /\ n = mod_sub(Capacity, e, s)
    BY DEF Returns
  <2>2. LocalIn(cb2, e) = n
    BY <1>12, <2>1
  <2>3. QED
    BY <2>1, <2>2
<1>15. After(home, home2, key, e, t)
  BY <1>4, <1>5, <1>9, <1>11, <1>12, <1>13, <1>14 DEF After
<1>16. QED
  BY <1>3, <1>15

LEMMA AfterIInv ==
  ASSUME IInv, HasRoom, NEW home \in Homes, NEW home2 \in Homes, NEW key \in DecomposedKeys,
         NEW e, NEW t, Adds(home, key, e, t), After(home, home2, key, e, t)
  PROVE  IInv'
<1>1. TypeOK'
  <2>1. /\ slot' \in [Positions -> Quotients \cup {EMPTY}]
        /\ v' \in [Positions -> BOOLEAN] /\ c' \in [Positions -> BOOLEAN]
    BY DEF Adds
  <2>2. local_id_to_global_id(key.ia, LocalIn(c', e)) \in 0..(Capacity * Capacity - 1)
    <3>1. PICK n \in Positions : n = LocalIn(c', e)
      BY DEF After
    <3>2. local_id_to_global_id(key.ia, n) \in 0..(Capacity * Capacity - 1)
      BY KeyFacts, IdReadsBack
    <3>3. QED
      BY <3>1, <3>2
  <2>3. reply' \in [op : {"lookup_insert"}, key : DecomposedKeys,
                    id : 0..(Capacity * Capacity - 1), already_exist : BOOLEAN]
    BY <2>2 DEF After
  <2>4. QED
    BY <2>1, <2>3 DEF TypeOK
<1>2. Cardinality(Used(slot')) <= MaxEntries
  <2>1. Allocated = Used(slot) /\ Used(slot) \subseteq Positions
    BY DEF Allocated, Used, pos_is_empty
  <2>2. IsFiniteSet(Used(slot)) /\ Cardinality(Used(slot)) \in Nat
    BY <2>1, PositionsFinite
  <2>3. Cardinality(Used(slot) \cup {t}) <= Cardinality(Used(slot)) + 1
    <3>1. Cardinality(Used(slot) \cup {t}) =
            IF t \in Used(slot) THEN Cardinality(Used(slot)) ELSE Cardinality(Used(slot)) + 1
      BY <2>2, FS_AddElement
    <3>2. QED
      BY <2>2, <3>1
  <2>4. Cardinality(Used(slot) \cup {t}) \in Nat
    BY <2>2, FS_AddElement, FS_CardinalityType
  <2>5. QED
    BY <2>1, <2>2, <2>3, <2>4, CapacityNat DEF HasRoom, After
<1>3. IsHome(home2)'
  BY DEF After
<1>4. QED
  BY <1>1, <1>2, <1>3 DEF IInv

(* A lookup_insert finds the key under its id, or adds it.                 *)
LEMMA LookupStep ==
  ASSUME IInv, NEW home \in Homes, IsHome(home), NEW key \in DecomposedKeys,
         lookup_insert(key)
  PROVE  \/ /\ key \in StoredKeys
            /\ UNCHANGED <<slot, v, c>>
            /\ reply' = [op |-> "lookup_insert", key |-> key, id |-> Entries[key],
                         already_exist |-> TRUE]
            /\ Entries[key] \in 0..(Capacity * Capacity - 1)
         \/ /\ key \notin StoredKeys
            /\ \E e, t \in Positions, home2 \in Homes :
                  Adds(home, key, e, t) /\ After(home, home2, key, e, t)
<1>1. HasRoom /\ (InsertAtAddress(key) \/ InsertInGroup(key) \/ InsertNewGroup(key))
  BY DEF lookup_insert
<1>2. KeysAre(home) /\ EntriesAre(home)
  BY TableStandsFor DEF IInv
<1>3. key.ia \in Positions /\ key = [ia |-> key.ia, sq |-> key.sq]
  BY KeyFacts
<1>4. PICK f \in Positions : f \notin Used(slot)
  BY FreeExists DEF IInv
<1>5. Grouped(f, slot, v, c, home)
  BY <1>4 DEF IsHome
<1>6. ASSUME ~v[key.ia] PROVE key \notin StoredKeys
  <2> SUFFICES ASSUME key \in StoredKeys PROVE FALSE
    OBVIOUS
  <2>1. PICK p \in Used(slot) : key = [ia |-> home[p], sq |-> slot[p]]
    BY <1>2 DEF KeysAre
  <2>2. v[home[p]] /\ home[p] = key.ia
    BY <1>5, <2>1 DEF Grouped, Reaches
  <2>3. QED
    BY <1>6, <2>2
<1>7. CASE InsertAtAddress(key)
  <2>1. Adds(home, key, key.ia, key.ia) /\ Returns(home, key, key.ia) /\ ~v[key.ia]
    BY <1>7, AtAddressStep
  <2>2. PICK home2 \in Homes : After(home, home2, key, key.ia, key.ia)
    BY <1>1, <1>3, <2>1, AfterAdds
  <2>3. QED
    BY <1>3, <1>6, <2>1, <2>2
<1>8. CASE InsertNewGroup(key)
  <2>1. ~v[key.ia] /\ \E e, t \in Positions : Adds(home, key, e, t) /\ Returns(home, key, e)
    BY <1>8, NewGroupStep
  <2>2. PICK e, t \in Positions : Adds(home, key, e, t) /\ Returns(home, key, e)
    BY <2>1
  <2>3. PICK home2 \in Homes : After(home, home2, key, e, t)
    BY <1>1, <2>2, AfterAdds
  <2>4. QED
    BY <1>6, <2>1, <2>2, <2>3
<1>9. CASE InsertInGroup(key) /\ key \notin StoredKeys
  <2>1. PICK e, t \in Positions : Adds(home, key, e, t) /\ Returns(home, key, e)
    BY <1>9, InGroupStep
  <2>2. PICK home2 \in Homes : After(home, home2, key, e, t)
    BY <1>1, <2>1, AfterAdds
  <2>3. QED
    BY <1>9, <2>1, <2>2
<1>10. CASE InsertInGroup(key) /\ key \in StoredKeys
  <2> DEFINE group == search_existing_group(v, key.ia)
             offsets == search_in_group(group, key.sq)
  <2>1. PICK p \in Used(slot) : key = [ia |-> home[p], sq |-> slot[p]]
    BY <1>2, <1>10 DEF KeysAre
  <2>2. home[p] = key.ia /\ slot[p] = key.sq /\ v[key.ia]
    BY <1>10, <2>1 DEF InsertInGroup
  <2>3. offsets = {LocalIn(c, p)}
    BY <2>2, OffsetsAre
  <2>4. LocalIn(c, p) \in Positions
    BY <1>5, LocalsDiffer
  <2>5. Min(offsets) = LocalIn(c, p)
    <3>1. LocalIn(c, p) \in Nat
      BY <2>4, CapacityNat DEF Positions
    <3>2. \A n : n \in Nat => Min({n}) = n
      BY MinOfNaturals
    <3>3. QED
      BY <2>3, <3>1, <3>2
  <2>6. Entries[key] = local_id_to_global_id(key.ia, LocalIn(c, p))
    BY <1>2, <2>1, <2>2 DEF EntriesAre
  <2>7. UNCHANGED <<slot, v, c>> /\ Reply(key, Min(offsets), TRUE)
    <3>1. offsets # {}
      BY <2>3
    <3>2. QED
      BY <1>10, <3>1 DEF InsertInGroup
  <2>8. Entries[key] \in 0..(Capacity * Capacity - 1)
    BY <1>3, <2>4, <2>6, IdReadsBack
  <2> HIDE DEF offsets
  <2>9. QED
    BY <1>10, <2>5, <2>6, <2>7, <2>8 DEF Reply
<1>11. QED
  BY <1>1, <1>7, <1>8, <1>9, <1>10

LEMMA InitIInv == Init => IInv
<1> SUFFICES ASSUME Init PROVE IInv
  OBVIOUS
<1>1. TypeOK
  BY DEF Init, TypeOK
<1>2. Used(slot) = {}
  BY DEF Init, Used
<1>3. Cardinality(Used(slot)) <= MaxEntries
  BY <1>2, FS_EmptySet, CapacityNat
<1>4. PICK home : home = [p \in Positions |-> 0]
  OBVIOUS
<1>5. home \in Homes
  BY <1>4, CapacityNat DEF Homes, Positions
<1>6. \A f \in Positions : Grouped(f, slot, v, c, home)
  BY <1>2 DEF Init, Grouped, Reaches, Ordered, Starts, Addressed, Distinct
<1>7. QED
  BY <1>1, <1>3, <1>5, <1>6 DEF IInv, IsHome

LEMMA FoundKeepsIInv ==
  ASSUME IInv, NEW key \in DecomposedKeys, UNCHANGED <<slot, v, c>>,
         NEW id \in 0..(Capacity * Capacity - 1),
         reply' = [op |-> "lookup_insert", key |-> key, id |-> id, already_exist |-> TRUE]
  PROVE  IInv'
BY DEF IInv, TypeOK, IsHome

LEMMA NextIInv == IInv /\ [Next]_vars => IInv'
<1> SUFFICES ASSUME IInv, [Next]_vars PROVE IInv'
  OBVIOUS
<1>1. ASSUME NEW key \in DecomposedKeys, lookup_insert(key) PROVE IInv'
  <2>1. PICK home \in Homes : IsHome(home)
    BY DEF IInv
  <2>2. HasRoom
    BY <1>1 DEF lookup_insert
  <2>3. CASE key \in StoredKeys
    BY <1>1, <2>1, <2>3, LookupStep, FoundKeepsIInv
  <2>4. CASE key \notin StoredKeys
    <3>1. PICK e, t \in Positions, home2 \in Homes :
             Adds(home, key, e, t) /\ After(home, home2, key, e, t)
      BY <1>1, <2>1, <2>4, LookupStep
    <3>2. QED
      BY <2>2, <3>1, AfterIInv
  <2>5. QED
    BY <2>3, <2>4
<1>2. CASE UNCHANGED vars
  BY <1>2 DEF vars, IInv, TypeOK, IsHome
<1>3. QED
  BY <1>1, <1>2 DEF Next

LEMMA Invariance == Spec => []IInv
BY InitIInv, NextIInv, PTL DEF Spec

(* Quotients, bits and ids stay in their ranges: an id is below the square *)
(* of the capacity (local_id_to_global_id).                                *)
THEOREM TypeCorrect == Spec => []TypeOK
<1>1. IInv => TypeOK
  BY DEF IInv
<1>2. QED
  BY <1>1, Invariance, PTL

(* In every reachable table the c bits and the v bits of every run of      *)
(* occupied positions pair up (shift_elements_and_insert and the updates   *)
(* of m_cv around it).                                                     *)
THEOREM BitsAlwaysPairUp == Spec => []BitsPairUp
<1>1. ASSUME IInv PROVE BitsPairUp
  <2>1. PICK home \in Homes : IsHome(home)
    BY <1>1 DEF IInv
  <2>2. PICK f \in Positions : f \notin Used(slot)
    BY <1>1, FreeExists DEF IInv
  <2>3. QED
    BY <2>1, <2>2, PairsUp DEF IsHome
<1>2. QED
  BY <1>1, Invariance, PTL

(* In every reachable table a search finds exactly the stored keys, each   *)
(* under the id its insertion returned, and that id leads back to the      *)
(* element (search, lookup_id).                                            *)
THEOREM SearchCorrect == Spec => []SearchFindsEntries
BY SearchFinds, Invariance, PTL
-------------------------------------------------------------------------------
(* The walk of a rehash.                                                   *)

LEMMA StartIsFree ==
  ASSUME Cardinality(Used(slot)) <= MaxEntries
  PROVE  OriginalStart \in Positions /\ OriginalStart \notin Used(slot)
<1> DEFINE S == {pos \in Positions : pos_is_empty(pos)}
<1>1. S # {} /\ S \subseteq Nat
  BY FreeExists, CapacityNat DEF Used, pos_is_empty, Positions
<1>2. Min(S) \in S
  <2> HIDE DEF S
  <2>1. QED
    BY <1>1, MinOfNaturals
<1>3. QED
  BY <1>2 DEF OriginalStart, Used, pos_is_empty

LEMMA NextAddressIs ==
  ASSUME NEW f \in Positions, NEW a \in Positions, NEW b \in Positions,
         v[b], Place(f, a) < Place(f, b),
         \A x \in Positions : Place(f, a) < Place(f, x) /\ Place(f, x) < Place(f, b) => ~v[x]
  PROVE  NextAddress[a] = b
<1> DEFINE ks == {k \in 1..Capacity : v[mod_add(Capacity, a, k)]}
           d == Place(f, b) - Place(f, a)
<1>1. /\ Place(f, a) \in Nat /\ Place(f, b) \in Nat /\ Place(f, b) < Capacity
      /\ d \in 1..Capacity /\ d \in Nat /\ Capacity \in Nat
  BY Places, CapacityNat
<1>2. mod_add(Capacity, a, d) = b
  <2>1. mod_sub(Capacity, b, a) = d
    BY PlacesBehind, <1>1
  <2>2. QED
    BY <2>1, ModSubAdd, CapacityNat DEF Positions
<1>3. d \in ks
  BY <1>1, <1>2
<1>4. ASSUME NEW k \in ks, k < d PROVE FALSE
  <2>1. k \in Nat /\ k > 0 /\ Place(f, a) + k < Capacity
    BY <1>1, <1>4
  <2>2. /\ mod_add(Capacity, a, k) \in Positions
        /\ Place(f, mod_add(Capacity, a, k)) = Place(f, a) + k
    BY <2>1, PlacesForward
  <2>3. QED
    BY <1>1, <1>4, <2>1, <2>2
<1> HIDE DEF d
<1>5. ks \subseteq Nat /\ ks # {}
  BY <1>3
<1>6. Min(ks) \in ks /\ \A k \in ks : Min(ks) <= k
  <2> HIDE DEF ks
  <2>1. QED
    BY <1>5, MinOfNaturals
<1>7. Min(ks) = d
  BY <1>1, <1>3, <1>4, <1>5, <1>6
<1>8. QED
  BY <1>2, <1>7 DEF NextAddress

(* From one position to the next the walk comes from address to address.   *)
LEMMA WalkStep ==
  ASSUME NEW f \in Positions, f \notin Used(slot),
         NEW home \in Homes, Grouped(f, slot, v, c, home), NEW p \in Used(slot)
  PROVE  LET from == IF Prev1(p) \in Used(slot) THEN home[Prev1(p)] ELSE Prev1(p)
         IN  home[p] = IF c[p] THEN NextAddress[from] ELSE from
<1> DEFINE o == Prev1(p)
<1>1. /\ p \in Positions /\ o \in Positions /\ Place(f, o) = Place(f, p) - 1
      /\ home[p] \in Positions /\ home[o] \in Positions
  <2>1. p \in Positions /\ p # f
    BY DEF Used
  <2>2. QED
    BY <2>1, Places DEF Homes
<1>2. \A q \in Positions : Place(f, q) \in Nat
  BY Places
<1>3. \A q, r \in Positions : Place(f, q) = Place(f, r) => q = r
  BY PlacesDiffer
<1>4. \A q \in Used(slot) : q \in Positions /\ home[q] \in Positions
  BY DEF Used, Homes
<1>5. v[home[p]] /\ Place(f, home[p]) <= Place(f, p)
  BY DEF Grouped, Reaches
<1>6. CASE o \notin Used(slot)
  <2>1. home[p] = p
    <3>1. ASSUME Place(f, home[p]) < Place(f, p) PROVE FALSE
      <4>1. Place(f, home[p]) <= Place(f, o) /\ Place(f, o) <= Place(f, p)
        BY <1>1, <1>2, <3>1
      <4>2. QED
        BY <1>1, <1>6, <4>1 DEF Grouped, Reaches
    <3>2. QED
      BY <1>1, <1>2, <1>3, <1>5, <3>1
  <2>2. c[p]
    <3>1. ASSUME NEW q \in Used(slot), Place(f, q) < Place(f, p) PROVE home[q] # home[p]
      <4>1. Place(f, home[q]) <= Place(f, q)
        BY DEF Grouped, Reaches
      <4>2. QED
        BY <1>1, <1>2, <1>4, <2>1, <3>1, <4>1
    <3>2. QED
      BY <1>1, <3>1 DEF Grouped, Starts
  <2>3. NextAddress[o] = p
    <3>1. v[p] /\ Place(f, o) < Place(f, p)
      BY <1>1, <1>2, <1>5, <2>1
    <3>2. \A x \in Positions : ~(Place(f, o) < Place(f, x) /\ Place(f, x) < Place(f, p))
      BY <1>1, <1>2
    <3>3. QED
      BY <1>1, <3>1, <3>2, NextAddressIs
  <2>4. QED
    BY <1>6, <2>1, <2>2, <2>3
<1>7. CASE o \in Used(slot) /\ c[p]
  <2>1. Place(f, home[o]) < Place(f, home[p])
    <3>1. home[o] # home[p]
      BY <1>1, <1>2, <1>7 DEF Grouped, Starts
    <3>2. Place(f, home[o]) <= Place(f, home[p])
      BY <1>1, <1>2, <1>7 DEF Grouped, Ordered
    <3>3. QED
      BY <1>1, <1>2, <1>3, <3>1, <3>2
  <2>2. ASSUME NEW x \in Positions, v[x],
               Place(f, home[o]) < Place(f, x), Place(f, x) < Place(f, home[p])
        PROVE  FALSE
    <3>1. PICK q \in Used(slot) : home[q] = x
      BY <2>2 DEF Grouped, Addressed
    <3>2. Place(f, q) < Place(f, o) => Place(f, home[q]) <= Place(f, home[o])
      BY <1>7 DEF Grouped, Ordered
    <3>3. Place(f, p) < Place(f, q) => Place(f, home[p]) <= Place(f, home[q])
      BY DEF Grouped, Ordered
    <3>4. q # o /\ q # p
      BY <1>1, <1>2, <2>2, <3>1
    <3>5. QED
      BY <1>1, <1>2, <1>3, <1>4, <2>2, <3>1, <3>2, <3>3, <3>4
  <2>3. NextAddress[home[o]] = home[p]
    BY <1>1, <1>5, <2>1, <2>2, NextAddressIs
  <2>4. QED
    BY <1>7, <2>3
<1>8. CASE o \in Used(slot) /\ ~c[p]
  <2>1. PICK q \in Used(slot) : Place(f, q) < Place(f, p) /\ home[q] = home[p]
    BY <1>1, <1>8 DEF Grouped, Starts
  <2>2. q = o \/ Place(f, q) < Place(f, o)
    BY <1>1, <1>2, <1>3, <1>4, <2>1
  <2>3. Place(f, home[q]) <= Place(f, home[o])
    BY <1>1, <1>2, <1>8, <2>2 DEF Grouped, Ordered
  <2>4. Place(f, home[o]) <= Place(f, home[p])
    BY <1>1, <1>2, <1>8 DEF Grouped, Ordered
  <2>5. home[o] = home[p]
    BY <1>1, <1>2, <1>3, <2>1, <2>3, <2>4
  <2>6. QED
    BY <1>8, <2>5
<1>9. QED
  BY <1>6, <1>7, <1>8

(* So initial_address is the address of every element the walk comes to.   *)
LEMMA WalkAddresses ==
  ASSUME NEW home \in Homes, OriginalStart \in Positions, OriginalStart \notin Used(slot),
         Grouped(OriginalStart, slot, v, c, home)
  PROVE  \A k \in Positions :
            initial_address[k] = IF pos_is_empty(At(k)) THEN At(k) ELSE home[At(k)]
<1> DEFINE Step(g, k) == IF pos_is_empty(At(k)) THEN At(k)
                         ELSE IF c[At(k)] THEN NextAddress[g[k - 1]]
                         ELSE g[k - 1]
           G == [k \in Positions |-> IF pos_is_empty(At(k)) THEN At(k) ELSE home[At(k)]]
<1>1. /\ At(0) = OriginalStart /\ pos_is_empty(At(0)) /\ 0 \in Positions
      /\ \A k \in Positions : At(k) \in Positions
      /\ \A k \in Positions : k # 0 => k - 1 \in Positions /\ At(k - 1) = Prev1(At(k))
  BY CapacityNat DEF At, Positions, Used, pos_is_empty, mod_add, mod_sub, Prev1
<1>2. \A p \in Positions : p \in Used(slot) <=> ~pos_is_empty(p)
  BY DEF Used, pos_is_empty
<1>3. \A k \in Positions : G[k] = Step(G, k)
  <2> SUFFICES ASSUME NEW k \in Positions, ~pos_is_empty(At(k)) PROVE G[k] = Step(G, k)
    OBVIOUS
  <2>1. k # 0 /\ k - 1 \in Positions /\ At(k - 1) = Prev1(At(k))
    BY <1>1
  <2>2. At(k) \in Used(slot) /\ At(k - 1) \in Positions
    BY <1>1, <1>2, <2>1
  <2>3. G[k - 1] = IF Prev1(At(k)) \in Used(slot) THEN home[Prev1(At(k))] ELSE Prev1(At(k))
    BY <1>2, <2>1, <2>2
  <2>4. G[k] = home[At(k)]
    OBVIOUS
  <2>5. home[At(k)] = IF c[At(k)] THEN NextAddress[G[k - 1]] ELSE G[k - 1]
    BY <2>2, <2>3, WalkStep
  <2>6. QED
    BY <2>4, <2>5
<1>4. G = [k \in Positions |-> Step(G, k)]
  <2>1. G = [k \in Positions |-> G[k]]
    OBVIOUS
  <2> HIDE DEF G, Step
  <2>2. QED
    BY <1>3, <2>1
<1>5. initial_address = [k \in Positions |-> Step(initial_address, k)]
  <2> HIDE DEF G
  <2>1. QED
    BY <1>4 DEF initial_address
<1> DEFINE S == {k \in Positions : initial_address[k] # G[k]}
<1> HIDE DEF G
<1>6. S = {}
  <2> SUFFICES ASSUME S # {} PROVE FALSE
    OBVIOUS
  <2>1. S \subseteq Nat
    BY CapacityNat DEF Positions
  <2>2. PICK k \in S : \A m \in S : k <= m
    <3> HIDE DEF S
    <3>1. QED
      BY <2>1, MinOfNaturals
  <2>3. k \in Positions /\ initial_address[k] = Step(initial_address, k) /\ G[k] = Step(G, k)
    BY <1>3, <1>5, <2>2
  <2>4. CASE k = 0
    BY <1>1, <2>2, <2>3, <2>4
  <2>5. CASE k # 0
    <3>1. k - 1 \in Positions /\ k \in Nat
      BY <1>1, <2>1, <2>2, <2>3, <2>5
    <3>2. initial_address[k - 1] = G[k - 1]
      BY <2>2, <3>1
    <3>3. QED
      BY <2>2, <2>3, <3>2
  <2>6. QED
    BY <2>4, <2>5
<1>7. QED
  BY <1>6 DEF G

(* In every reachable table the walk visits every element once, and the    *)
(* address it has come to by stepping through the v bits is the one the    *)
(* element was inserted with (for_all_allocated).                          *)
THEOREM WalkIsComplete == Spec => []WalkVisitsEntriesOnce
<1>1. ASSUME IInv PROVE WalkVisitsEntriesOnce
  <2> DEFINE walk == for_all_allocated
  <2>1. OriginalStart \in Positions /\ OriginalStart \notin Used(slot)
    BY <1>1, StartIsFree DEF IInv
  <2>2. PICK home \in Homes : Grouped(OriginalStart, slot, v, c, home)
    BY <1>1, <2>1 DEF IInv, IsHome
  <2>3. \A p \in Positions : p \in Allocated <=> p \in Used(slot)
    BY DEF Allocated, Used, pos_is_empty
  <2>4. \A k \in DOMAIN walk :
           /\ k \in 1..(Capacity - 1) /\ k \in Positions /\ At(k) \in Positions
           /\ ~pos_is_empty(At(k)) /\ At(k) \in Allocated
           /\ walk[k].pos = At(k) /\ walk[k].ia = initial_address[k]
           /\ Place(OriginalStart, At(k)) = k
    <3>1. \A k \in 1..(Capacity - 1) :
             k \in Positions /\ At(k) \in Positions /\ Place(OriginalStart, At(k)) = k
      BY <2>1, PlaceOf, CapacityNat DEF At, Positions
    <3>2. QED
      BY <3>1 DEF for_all_allocated, Allocated
  <2>5. \A k \in DOMAIN walk : walk[k].ia = HomeOf(walk[k].pos)
    <3> SUFFICES ASSUME NEW k \in DOMAIN walk PROVE walk[k].ia = HomeOf(walk[k].pos)
      OBVIOUS
    <3> HIDE DEF walk
    <3>1. initial_address[k] = home[At(k)]
      BY <2>1, <2>2, <2>4, WalkAddresses
    <3>2. HomeOf(At(k)) = home[At(k)]
      BY <2>1, <2>2, <2>3, <2>4, HomeIs
    <3>3. QED
      BY <2>4, <3>1, <3>2
  <2>6. \A pos \in Allocated : \E k \in DOMAIN walk : At(k) = pos
    <3> SUFFICES ASSUME NEW pos \in Allocated PROVE \E k \in DOMAIN walk : At(k) = pos
      OBVIOUS
    <3>1. pos \in Positions /\ pos # OriginalStart /\ ~pos_is_empty(pos)
      BY <2>1, <2>3 DEF Allocated
    <3>2. PICK k \in 1..(Capacity - 1) : At(k) = pos
      <4>1. Place(OriginalStart, pos) \in 1..(Capacity - 1)
        BY <2>1, <3>1, Places, CapacityNat
      <4>2. QED
        BY <2>1, <3>1, <4>1, Places DEF At
    <3>3. QED
      BY <3>1, <3>2 DEF for_all_allocated
  <2> HIDE DEF walk
  <2>7. \A m, n \in DOMAIN walk : walk[m].pos = walk[n].pos => m = n
    BY <2>4
  <2>8. {walk[n].pos : n \in DOMAIN walk} = Allocated
    BY <2>4, <2>6
  <2>9. QED
    BY <2>5, <2>7, <2>8 DEF WalkVisitsEntriesOnce, walk
<1>2. QED
  BY <1>1, Invariance, PTL
-------------------------------------------------------------------------------
(* The table implements Placement.                                         *)
StandsFor(home) ==
    Cardinality(Used(slot)) <= MaxEntries /\ IsHome(home) => KeysAre(home) /\ EntriesAre(home)

LEMMA StandsForNext == (\A home \in Homes : StandsFor(home))'
<1>1. \A home \in Homes : StandsFor(home)
  BY TableStandsFor DEF StandsFor
<1>2. QED
  BY <1>1, PTL

LEMMA FreeExistsNext ==
  (Cardinality(Used(slot)) <= MaxEntries => \E f \in Positions : f \notin Used(slot))'
<1>1. Cardinality(Used(slot)) <= MaxEntries => \E f \in Positions : f \notin Used(slot)
  BY FreeExists
<1>2. QED
  BY <1>1, PTL

LEMMA EntriesBounded ==
  ASSUME IInv, HasRoom
  PROVE  Cardinality(DOMAIN Entries) < MaxEntries
<1>1. PICK home \in Homes : KeysAre(home) /\ EntriesAre(home)
  BY TableStandsFor DEF IInv
<1> DEFINE g == [p \in Used(slot) |-> [ia |-> home[p], sq |-> slot[p]]]
<1>2. DOMAIN Entries = StoredKeys
  BY <1>1 DEF EntriesAre
<1>3. g \in Surjection(Used(slot), StoredKeys)
  BY <1>1 DEF KeysAre, Surjection
<1>4. Allocated = Used(slot) /\ Used(slot) \subseteq Positions
  BY DEF Allocated, Used, pos_is_empty
<1>5. IsFiniteSet(Used(slot)) /\ Cardinality(Used(slot)) \in Nat
  BY <1>4, PositionsFinite
<1>6. IsFiniteSet(StoredKeys) /\ Cardinality(StoredKeys) <= Cardinality(Used(slot))
  BY <1>3, <1>5, FS_Surjection
<1>7. Cardinality(StoredKeys) \in Nat
  BY <1>6, FS_CardinalityType
<1>8. QED
  BY <1>2, <1>4, <1>5, <1>6, <1>7, CapacityNat DEF HasRoom

(* A lookup_insert that finds the key is found_exist.                      *)
LEMMA ExistStep ==
  ASSUME IInv, NEW key \in DecomposedKeys, key \in StoredKeys, UNCHANGED <<slot, v, c>>,
         reply' = [op |-> "lookup_insert", key |-> key, id |-> Entries[key],
                   already_exist |-> TRUE],
         Entries[key] \in 0..(Capacity * Capacity - 1)
  PROVE  P!FoundExist(key)
<1>1. Entries' = Entries
  BY DEF Entries, StoredKeys, Allocated, pos_is_empty, KeyAt, HomeOf, RunTo,
         AddressesTo, GroupsTo, LocalId
<1>2. key \in DOMAIN Entries
  BY DEF Entries
<1>3. QED
  BY <1>1, <1>2 DEF P!FoundExist

(* A lookup_insert that adds an element is found_new.                      *)
LEMMA NewStep ==
  ASSUME IInv, IInv', NEW home \in Homes, IsHome(home), NEW home2 \in Homes,
         NEW key \in DecomposedKeys, key \notin StoredKeys,
         NEW e, NEW t, Adds(home, key, e, t), After(home, home2, key, e, t)
  PROVE  P!FoundNew(key)
<1>1. KeysAre(home) /\ EntriesAre(home)
  BY TableStandsFor DEF IInv
<1>2. KeysAre(home2)' /\ EntriesAre(home2)'
  <2>1. (Cardinality(Used(slot)) <= MaxEntries /\ IsHome(home2))'
    BY DEF IInv, After
  <2>2. QED
    BY <2>1, StandsForNext DEF StandsFor
<1>3. /\ StoredKeys = {[ia |-> home[p], sq |-> slot[p]] : p \in Used(slot)}
      /\ StoredKeys' = {[ia |-> home2[p], sq |-> slot'[p]] : p \in Used(slot')}
      /\ Entries = [k \in StoredKeys |-> Entries[k]]
      /\ Entries' = [k \in StoredKeys' |-> Entries'[k]]
      /\ \A p \in Used(slot) : Entries[[ia |-> home[p], sq |-> slot[p]]]
                                 = local_id_to_global_id(home[p], LocalIn(c, p))
      /\ \A p \in Used(slot') : Entries'[[ia |-> home2[p], sq |-> slot'[p]]]
                                  = local_id_to_global_id(home2[p], LocalIn(c', p))
  BY <1>1, <1>2 DEF KeysAre, EntriesAre
<1>4. /\ e \in Used(slot') /\ home2[e] = key.ia /\ slot'[e] = key.sq
      /\ \A q \in Used(slot) : \E p \in Used(slot') \ {e} :
            home2[p] = home[q] /\ slot'[p] = slot[q] /\ LocalIn(c', p) = LocalIn(c, q)
      /\ \A p \in Used(slot') \ {e} : \E q \in Used(slot) :
            home2[p] = home[q] /\ slot'[p] = slot[q]
      /\ LocalIn(c', e) \in Positions
      /\ reply' = [op |-> "lookup_insert", key |-> key,
                   id |-> local_id_to_global_id(key.ia, LocalIn(c', e)),
                   already_exist |-> FALSE]
  BY DEF After
<1>5. key = [ia |-> key.ia, sq |-> key.sq] /\ key.ia \in Positions
  BY KeyFacts
<1> DEFINE id == local_id_to_global_id(key.ia, LocalIn(c', e))
<1>6. StoredKeys' = StoredKeys \cup {key}
  <2>1. ASSUME NEW k \in StoredKeys' PROVE k \in StoredKeys \cup {key}
    <3>1. PICK p \in Used(slot') : k = [ia |-> home2[p], sq |-> slot'[p]]
      BY <1>3
    <3>2. CASE p = e
      BY <1>4, <1>5, <3>1, <3>2
    <3>3. CASE p # e
      <4>1. PICK q \in Used(slot) : home2[p] = home[q] /\ slot'[p] = slot[q]
        BY <1>4, <3>3
      <4>2. QED
        BY <1>3, <3>1, <4>1
    <3>4. QED
      BY <3>2, <3>3
  <2>2. ASSUME NEW k \in StoredKeys PROVE k \in StoredKeys'
    <3>1. PICK q \in Used(slot) : k = [ia |-> home[q], sq |-> slot[q]]
      BY <1>3
    <3>2. PICK p \in Used(slot') : home2[p] = home[q] /\ slot'[p] = slot[q]
      BY <1>4
    <3>3. QED
      BY <1>3, <3>1, <3>2
  <2>3. key \in StoredKeys'
    BY <1>3, <1>4, <1>5
  <2>4. QED
    BY <2>1, <2>2, <2>3
<1>7. Entries'[key] = id
  BY <1>3, <1>4, <1>5
<1>8. ASSUME NEW k \in StoredKeys
      PROVE  Entries'[k] = Entries[k] /\ Entries[k] # id
  <2>1. PICK q \in Used(slot) : k = [ia |-> home[q], sq |-> slot[q]]
    BY <1>3
  <2>2. PICK p \in Used(slot') \ {e} :
           home2[p] = home[q] /\ slot'[p] = slot[q] /\ LocalIn(c', p) = LocalIn(c, q)
    BY <1>4
  <2>3. /\ Entries[k] = local_id_to_global_id(home[q], LocalIn(c, q))
        /\ Entries'[k] = local_id_to_global_id(home[q], LocalIn(c, q))
    BY <1>3, <2>1, <2>2
  <2>4. ASSUME Entries[k] = id PROVE FALSE
    <3>1. PICK f \in Positions : f \notin Used(slot')
      <4>1. (Cardinality(Used(slot)) <= MaxEntries => \E f \in Positions : f \notin Used(slot))'
        BY FreeExistsNext
      <4>2. QED
        BY <4>1 DEF IInv
    <3>2. PICK sl2, vb2, cb2 : sl2 = slot' /\ vb2 = v' /\ cb2 = c'
      OBVIOUS
    <3>3. Grouped(f, sl2, vb2, cb2, home2)
      BY <3>1, <3>2 DEF After, IsHome
    <3>4. p \in Used(sl2) \ {e} /\ e \in Used(sl2) /\ home2[p] \in Positions
      BY <1>4, <3>2 DEF Homes, Used
    <3>5. LocalIn(cb2, p) \in Positions /\ LocalIn(cb2, e) \in Positions
      BY <3>3, <3>4, LocalsDiffer
    <3>6. local_id_to_global_id(home2[p], LocalIn(cb2, p))
            = local_id_to_global_id(key.ia, LocalIn(cb2, e))
      BY <2>2, <2>3, <2>4, <3>2
    <3>7. home2[p] = key.ia /\ LocalIn(cb2, p) = LocalIn(cb2, e)
      <4>1. /\ local_id_to_global_id(home2[p], LocalIn(cb2, p)) % Capacity = home2[p]
            /\ local_id_to_global_id(home2[p], LocalIn(cb2, p)) \div Capacity = LocalIn(cb2, p)
        BY <3>4, <3>5, IdReadsBack
      <4>2. /\ local_id_to_global_id(key.ia, LocalIn(cb2, e)) % Capacity = key.ia
            /\ local_id_to_global_id(key.ia, LocalIn(cb2, e)) \div Capacity = LocalIn(cb2, e)
        BY <1>5, <3>5, IdReadsBack
      <4>3. QED
        BY <3>6, <4>1, <4>2
    <3>8. p = e
      BY <1>4, <3>3, <3>4, <3>7, LocalsDiffer
    <3>9. QED
      BY <3>4, <3>8
  <2>5. QED
    BY <2>3, <2>4
<1>9. id \in 0..(Capacity * Capacity - 1)
  <2>1. PICK n \in Positions : n = LocalIn(c', e)
    BY <1>4
  <2>2. local_id_to_global_id(key.ia, n) \in 0..(Capacity * Capacity - 1)
    BY <1>5, IdReadsBack
  <2>3. QED
    BY <2>1, <2>2
<1> HIDE DEF id
<1>10. Entries' = [k \in StoredKeys \cup {key} |-> IF k = key THEN id ELSE Entries[k]]
  <2>1. \A k \in StoredKeys \cup {key} :
           Entries'[k] = IF k = key THEN id ELSE Entries[k]
    BY <1>7, <1>8
  <2>2. Entries' = [k \in StoredKeys \cup {key} |-> Entries'[k]]
    BY <1>3, <1>6
  <2>3. QED
    BY <2>1, <2>2
<1>11. DOMAIN Entries = StoredKeys
  BY DEF Entries
<1>12. id \notin Range(Entries)
  BY <1>8, <1>11 DEF Range
<1>13. reply' = [op |-> "lookup_insert", key |-> key, id |-> id, already_exist |-> FALSE]
  BY <1>4 DEF id
<1>14. QED
  BY <1>9, <1>10, <1>11, <1>12, <1>13 DEF P!FoundNew, P!Range, Range

(* cv_bvs_t implements Placement: through any sequence of insertions it    *)
(* behaves as a partial function from keys to ids in which a new key gets  *)
(* an id of its own and a key that is there keeps its id, although its     *)
(* element moves.                                                          *)
THEOREM ImplementsPlacement == Spec => RefinesPlacement
<1>1. Init => P!Init
  <2> SUFFICES ASSUME Init PROVE P!Init
    OBVIOUS
  <2>1. Allocated = {}
    BY DEF Init, Allocated, pos_is_empty
  <2>2. Entries \in [{} -> 0..(Capacity * Capacity - 1)]
    BY <2>1 DEF Entries, StoredKeys
  <2>3. QED
    BY <2>2 DEF Init, NoReply, P!Init, P!NoReply
<1>2. IInv /\ IInv' /\ [Next]_vars => [P!Next]_P!vars
  <2> SUFFICES ASSUME IInv, IInv', [Next]_vars PROVE [P!Next]_P!vars
    OBVIOUS
  <2>1. ASSUME NEW key \in DecomposedKeys, lookup_insert(key) PROVE P!Next
    <3>1. PICK home \in Homes : IsHome(home)
      BY DEF IInv
    <3>2. P!FoundExist(key) \/ P!FoundNew(key)
      <4>1. CASE key \in StoredKeys
        BY <2>1, <3>1, <4>1, LookupStep, ExistStep
      <4>2. CASE key \notin StoredKeys
        <5>1. PICK e, t \in Positions, home2 \in Homes :
                 Adds(home, key, e, t) /\ After(home, home2, key, e, t)
          BY <2>1, <3>1, <4>2, LookupStep
        <5>2. QED
          BY <3>1, <4>2, <5>1, NewStep
      <4>3. QED
        BY <4>1, <4>2
    <3>3. Cardinality(DOMAIN Entries) < MaxEntries
      BY <2>1, EntriesBounded DEF lookup_insert
    <3>4. P!Cardinality(DOMAIN Entries) = Cardinality(DOMAIN Entries)
      BY DEF P!Cardinality, Cardinality
    <3>5. key \in P!DecomposedKeys
      BY DEF P!DecomposedKeys, DecomposedKeys
    <3>6. QED
      BY <3>2, <3>3, <3>4, <3>5 DEF P!Next, P!lookup_insert
  <2>2. CASE UNCHANGED vars
    BY <2>2 DEF vars, P!vars, Entries, StoredKeys, Allocated, pos_is_empty, KeyAt, HomeOf,
                RunTo, AddressesTo, GroupsTo, LocalId
  <2>3. QED
    BY <2>1, <2>2 DEF Next
<1>3. QED
  BY <1>1, <1>2, Invariance, PTL DEF Spec, RefinesPlacement, P!Spec
==============================================================================
