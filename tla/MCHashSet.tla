------------------------------ MODULE MCHashSet ------------------------------
(***************************************************************************)
(* Tables of two to eight positions with keys of up to three bits.  Ids    *)
(* are those of cv_bvs_t: the initial address and the number of elements   *)
(* already there.                                                          *)
(***************************************************************************)
EXTENDS HashSet, Arithmetic

MCLoadFactors == {[num |-> 1, den |-> 2], [num |-> 1, den |-> 1]}

(* The hash function of the default configurations, tabulated once.        *)
HashTable ==
    [w \in 1..7 |-> [x \in 0..(2^w - 1) |-> poplar_hash(w, x)]]
HashInvTable ==
    [w \in 1..7 |-> [x \in 0..(2^w - 1) |-> poplar_hash_inv(w, x)]]

MCHash(w, x)    == HashTable[w][x]
MCHashInv(w, x) == HashInvTable[w][x]

MCFreshIds(capacity, entries, dkey) ==
    {dkey.initial_address +
       capacity * Cardinality({d \in DOMAIN entries :
                                 d.initial_address = dkey.initial_address})}
==============================================================================
