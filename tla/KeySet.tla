-------------------------------- MODULE KeySet --------------------------------
(***************************************************************************)
(* What hashset_t promises its user: it is a set of keys that only grows.  *)
(* lookup_insert adds the key and says whether it was there before; a      *)
(* change of the capacity or of the key width changes nothing, and neither *)
(* does writing the set to a stream and reading it back.                   *)
(***************************************************************************)
CONSTANT Keys

VARIABLES keys, reply

vars == <<keys, reply>>

NoReply == [op |-> "none"]

Init == keys = {} /\ reply = NoReply

lookup_insert(key) ==
    /\ reply' = [op |-> "lookup_insert", key |-> key, already_exist |-> key \in keys]
    /\ keys' = keys \cup {key}

(* The set was written to a stream and read back: entries are gone.        *)
ReadBack == reply' = NoReply /\ UNCHANGED keys

Next == (\E key \in Keys : lookup_insert(key)) \/ ReadBack

Spec == Init /\ [][Next]_vars
==============================================================================
