----------------------------- MODULE SizeManager -----------------------------
(***************************************************************************)
(* The arithmetic of size_manager_t: capacities, the trigger of a growth,  *)
(* the split of a hash value into an initial address and a quotient, and   *)
(* positions modulo the capacity.  The state of the manager (the capacity, *)
(* the number of elements, the load factor) lives in the modules that use  *)
(* these operators, which pass it as a parameter.                          *)
(*                                                                         *)
(* A load factor is a fraction [num |-> n, den |-> d]; for the fractions   *)
(* with a power of two as denominator the float product of the code is     *)
(* exact.                                                                  *)
(***************************************************************************)
EXTENDS Integers, FiniteSetsExt, Serialization

(* 1 << n *)
pow2[n \in Nat] == IF n = 0 THEN 1 ELSE 2 * pow2[n - 1]

(* Every capacity is a power of two and at least 2. *)
adjust_size(size) == IF size < 2 THEN 2 ELSE size

is_pot(n) == \E e \in 0..n : n = pow2[e]

log2_upper(n) == CHOOSE e \in 0..n : pow2[e] <= n /\ n < pow2[e + 1]

(* Mistakes the properties would show: a definition of this section can    *)
(* stand in for the one it is named after.                                 *)
mod_sub_without_wrap(capacity, v, sub) == v - sub

trigger_capacity_uncapped(lf, capacity) == (capacity * lf.num) \div lf.den
-------------------------------------------------------------------------------
(* (v + add) & (capacity - 1), for v in the table and add at most one      *)
(* round: Arithmetic.tla compares it with the mask.                        *)
mod_add(capacity, v, add) ==
    IF v + add < capacity THEN v + add ELSE v + add - capacity

(* (v - sub) & (capacity - 1), likewise.                                   *)
mod_sub(capacity, v, sub) ==
    IF sub <= v THEN v - sub ELSE v - sub + capacity

(* How many elements may be stored before the next growth: one position    *)
(* always stays free.                                                      *)
trigger_capacity(lf, capacity) ==
    Min({capacity - 1, (capacity * lf.num) \div lf.den})

needs_to_grow_capacity(lf, capacity, new_size) ==
    trigger_capacity(lf, capacity) < new_size

(* The capacity doubles until the load factor allows the new size; the     *)
(* bound on the number of turns is enough (GrownCapacitySuffices).         *)
grown_capacity(lf, capacity, new_size) ==
    Min({cap \in {capacity * pow2[n] : n \in 0..(lf.den + new_size)} :
           ~needs_to_grow_capacity(lf, cap, new_size)})

decompose_hashed_value(capacity, hres) ==
    [initial_address |-> hres % capacity, stored_quotient |-> hres \div capacity]

compose_hashed_value(capacity, initial_address, quotient) ==
    quotient * capacity + initial_address

(* serialize<size_manager_t>, of anything that has the three members; the  *)
(* capacity is written as its logarithm.                                   *)
write_sizing(t) ==
    << Item(uint8, log2_upper(t.capacity)), Item(size_t, t.size),
       Item(floating, t.load_factor) >>

read_sizing(in) ==
    [capacity    |-> pow2[ReadItem(in, 1, uint8)],
     size        |-> ReadItem(in, 2, size_t),
     load_factor |-> ReadItem(in, 3, floating)]
==============================================================================
