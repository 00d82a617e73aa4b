---------------------------- MODULE Serialization ----------------------------
(***************************************************************************)
(* tdc::serialize: a stream is the sequence of what was written into it.   *)
(* The bytes say nothing about themselves: what a reader gets depends on   *)
(* the type, and for a block of memory on the sizes, that it reads with.   *)
(* An item of the model carries both, so that a read with any other gets   *)
(* Garbage.  Types are tuples of a name and sizes.                         *)
(***************************************************************************)
EXTENDS Naturals, Sequences

uint8    == <<"uint8_t">>
uint64   == <<"uint64_t">>
size_t   == <<"size_t">>
floating == <<"float">>

Garbage == "garbage"

(* serialize<T>::write                                                     *)
Item(type, val) == [type |-> type, val |-> val]

(* serialize<T>::read of the n-th item.                                    *)
ReadItem(in, n, type) ==
    IF n \in DOMAIN in /\ in[n].type = type THEN in[n].val ELSE Garbage
==============================================================================
