---------------------------- MODULE HashFunctions ----------------------------
(***************************************************************************)
(* The bijective hash functions of hash_functions.hpp, on integers of w    *)
(* bits, for the widths whose products TLC can compute.                    *)
(***************************************************************************)
EXTENDS Integers, Bitwise

(* m_w_mask, mask()                                                        *)
Mask(w) == 2^w - 1

(* m_j, m_shift                                                            *)
Shift(w) == (w \div 2) + 1

(* xorshift_t.  The shift is at least half the width, so that hashing      *)
(* twice gives the value back.                                             *)
xorshift_hash(w, x) == (x ^^ ((x * 2^Shift(w)) & Mask(w))) & Mask(w)

xorshift_hash_inv(w, x) == xorshift_hash(w, x)

(* The rows of PRIME_TABLE for w = 1..15: three factors, and their         *)
(* inverses modulo 2^w.                                                    *)
PRIME_TABLE ==
    << << <<1, 1, 1>>,             <<1, 1, 1>> >>,
       << <<3, 1, 3>>,             <<3, 1, 3>> >>,
       << <<7, 5, 3>>,             <<7, 5, 3>> >>,
       << <<13, 11, 7>>,           <<5, 3, 7>> >>,
       << <<31, 29, 23>>,          <<31, 21, 7>> >>,
       << <<61, 59, 53>>,          <<21, 51, 29>> >>,
       << <<127, 113, 109>>,       <<127, 17, 101>> >>,
       << <<251, 241, 239>>,       <<51, 17, 15>> >>,
       << <<509, 503, 499>>,       <<341, 455, 315>> >>,
       << <<1021, 1019, 1013>>,    <<341, 819, 93>> >>,
       << <<2039, 2029, 2027>>,    <<455, 1509, 195>> >>,
       << <<4093, 4091, 4079>>,    <<1365, 819, 3855>> >>,
       << <<8191, 8179, 8171>>,    <<8191, 4411, 4291>> >>,
       << <<16381, 16369, 16363>>, <<5461, 4369, 12483>> >>,
       << <<32749, 32719, 32717>>, <<13797, 10031, 1285>> >> >>

(* x ^ (x >> (m_shift + n))                                                *)
xor_shifted(w, n, x) == x ^^ (x \div 2^(Shift(w) + n))

hash_round(w, n, x) ==
    (xor_shifted(w, n, x) * PRIME_TABLE[w][1][n + 1]) % 2^w

hash_inv_round(w, n, x) ==
    xor_shifted(w, n, (x * PRIME_TABLE[w][2][n + 1]) % 2^w)

(* Xorshift::hash, hash_inv: three rounds, undone in the opposite order.   *)
poplar_hash(w, x) ==
    hash_round(w, 2, hash_round(w, 1, hash_round(w, 0, x)))

poplar_hash_inv(w, x) ==
    hash_inv_round(w, 0, hash_inv_round(w, 1, hash_inv_round(w, 2, x)))
==============================================================================
