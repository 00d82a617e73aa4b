------------------------------ MODULE Placement ------------------------------
(***************************************************************************)
(* What every placement strategy of the hash tables promises               *)
(* (entry_t.hpp, and the comment of hashset_t::lookup_insert): the table   *)
(* is a partial function from decomposed keys to ids.  A key that is       *)
(* looked up and not there gets an id nobody else has; a key that is       *)
(* already there keeps its id, however the elements move inside the        *)
(* table.  cv_bvs_t and displacement_t implement this specification.       *)
(***************************************************************************)
EXTENDS Integers, FiniteSets, Functions

CONSTANTS
    Addresses,  \* initial addresses of the keys that may be inserted
    Quotients,  \* quotients of the keys that may be inserted
    Ids,        \* what may be returned as an id
    MaxEntries  \* the caller never asks for more than that many entries

VARIABLES
    entries,    \* partial function: [ia, sq] -> id
    reply       \* the entry_t the last lookup_insert returned

vars == <<entries, reply>>

DecomposedKeys == [ia : Addresses, sq : Quotients]

NoReply == [op |-> "none"]

Init ==
    /\ entries \in [{} -> Ids]
    /\ reply = NoReply

(* entry_t::found_exist: the id handed out when the key was inserted.      *)
FoundExist(key) ==
    \E id \in Ids :
       /\ reply' = [op |-> "lookup_insert", key |-> key, id |-> id,
                    already_exist |-> TRUE]
       /\ key \in DOMAIN entries
       /\ entries[key] = id
       /\ UNCHANGED entries

(* entry_t::found_new: an id no entry of the table has.                    *)
FoundNew(key) ==
    \E id \in Ids :
       /\ reply' = [op |-> "lookup_insert", key |-> key, id |-> id,
                    already_exist |-> FALSE]
       /\ key \notin DOMAIN entries
       /\ id \notin Range(entries)
       /\ entries' = [k \in DOMAIN entries \cup {key} |->
                        IF k = key THEN id ELSE entries[k]]

lookup_insert(key) ==
    /\ FoundExist(key) \/ FoundNew(key)
    /\ Cardinality(DOMAIN entries) < MaxEntries

Next == \E key \in DecomposedKeys : lookup_insert(key)

Spec == Init /\ [][Next]_vars
==============================================================================
