------------------------------ MODULE Arithmetic ------------------------------
(***************************************************************************)
(* The pure arithmetic the tables rest on, compared with its reference     *)
(* definitions for every value x of every width w up to MaxWidth, as the   *)
(* loops of test_hashfn do.  SizeManagerProofs.tla has proofs, for every   *)
(* value, of what needs no bit operators.                                  *)
(***************************************************************************)
EXTENDS SizeManager, HashFunctions

MaxWidth == 11  \* widths of keys and capacities
WordSize == 16  \* the bits of the machine word that subtractions wrap in

(* hash_inv undoes hash, and hash stays within the width: no two keys of a *)
(* table get the same initial address and quotient (hash_functions.hpp,    *)
(* the DCHECK_EQ in decompose_key).                                        *)
ASSUME HashesAreBijective ==
    \A w \in 1..MaxWidth : \A x \in 0..Mask(w) :
       /\ xorshift_hash(w, x) \in 0..Mask(w)
       /\ xorshift_hash_inv(w, xorshift_hash(w, x)) = x
       /\ poplar_hash(w, x) \in 0..Mask(w)
       /\ poplar_hash_inv(w, poplar_hash(w, x)) = x

(* Positions computed by comparing with the capacity are those the code    *)
(* gets by masking a sum or a wrapping difference.                         *)
ASSUME PositionsMatchMask ==
    \A w \in 1..MaxWidth : \A x \in 0..Mask(w) :
       \A step \in {0, 1, w, Mask(w), Mask(w) - x} :
          /\ mod_add(2^w, x, step) = (x + step) & Mask(w)
          /\ mod_sub(2^w, x, step) = ((2^WordSize + x - step) % 2^WordSize) & Mask(w)

(* A hash value of w bits splits, in every table it may be stored in, into *)
(* an address inside the table and a quotient of the remaining bits.       *)
ASSUME DecomposesAtMask ==
    \A w \in 1..MaxWidth : \A x \in 0..Mask(w), log2 \in 1..(w - 1) :
       LET dkey == decompose_hashed_value(2^log2, x)
       IN /\ dkey.initial_address = x & Mask(log2)
          /\ dkey.stored_quotient \in 0..Mask(w - log2)
          /\ log2_upper(2^log2) = log2

(* Where a table needs to grow, doubling the capacity does reach a size    *)
(* that suffices, at every load factor.                                    *)
ASSUME GrowthReachesRoom ==
    \A w \in 1..MaxWidth : \A x \in 0..Mask(w), sixteenths \in 1..16 :
       LET lf == [num |-> sixteenths, den |-> 16]
       IN needs_to_grow_capacity(lf, 2^w, x + 1) =>
            ~needs_to_grow_capacity(lf, 2^(w + 5), x + 1)
==============================================================================
