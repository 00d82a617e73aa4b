----------------------------- MODULE Displacement -----------------------------
(***************************************************************************)
(* displacement_t over the naive displacement table: a hash table with     *)
(* linear probing that stores at each position the quotient of its key and *)
(* how far the position is from the key's initial address.  Both together  *)
(* say which key it is, so a probe needs no second look at the key.        *)
(*                                                                         *)
(* The loops of the code walk `cursor` from the initial address one        *)
(* position at a time until an exit condition holds; here the cursor is    *)
(* the first position, in probe order, where it does.                      *)
(***************************************************************************)
EXTENDS SizeManager, FiniteSets, Functions

CONSTANTS
    Capacity,   \* size of the table, a power of two
    Addresses,  \* initial addresses of the inserted keys
    Quotients,  \* stored quotients of the inserted keys
    EMPTY,      \* a position whose bit in the bucket bitmap is 0
    MaxEntries  \* bound of the model on the number of entries

ASSUME CapacityAssumption == Capacity \in Nat /\ Capacity >= 2
ASSUME AddressesAssumption == Addresses \subseteq 0..(Capacity - 1)
ASSUME EmptyAssumption == EMPTY \notin Quotients
ASSUME MaxEntriesAssumption == MaxEntries \in 1..(Capacity - 1)

VARIABLES
    slot,       \* the storage: position -> quotient, or EMPTY
    displace,   \* m_displace: position -> distance from the initial address
    reply       \* the entry_t the last lookup_insert returned

vars == <<slot, displace, reply>>

Positions == 0..(Capacity - 1)

DecomposedKeys == [ia : Addresses, sq : Quotients]

pos_is_empty(pos) == slot[pos] = EMPTY

Allocated == {pos \in Positions : ~pos_is_empty(pos)}
-------------------------------------------------------------------------------
(* Mistakes the properties would show, each named after the definition it  *)
(* can stand in for.                                                       *)
Holds_without_wrap(key, pos) ==
    displace[pos] = pos - key.ia /\ slot[pos] = key.sq

Holds_any_address(key, pos) == slot[pos] = key.sq

OriginalStart_at_zero == 0

InsertAt_keeps_displacement(key, cursor) ==
    slot' = [slot EXCEPT ![cursor] = key.sq] /\ UNCHANGED displace
-------------------------------------------------------------------------------
(* The probe loop, shared by search and lookup_insert.                     *)

Holds(key, pos) ==
    /\ displace[pos] = mod_sub(Capacity, pos, key.ia)
    /\ slot[pos] = key.sq

(* How many steps from the initial address the loop can stop.              *)
Exits(key) ==
    {k \in Positions : LET cursor == mod_add(Capacity, key.ia, k) IN
                       pos_is_empty(cursor) \/ Holds(key, cursor)}

(* DCHECK_NE(cursor, initial_address): the loop leaves before it comes     *)
(* round, which is what a nonempty set of exits means.                     *)
Cursor(key) == mod_add(Capacity, key.ia, Min(Exits(key)))

NotFound == [found |-> FALSE]

search(key) ==
    IF pos_is_empty(Cursor(key))
    THEN NotFound
    ELSE [found |-> TRUE, id |-> Cursor(key)]

(* lookup_id: the id is the position.                                      *)
lookup_id(id) == slot[id]
-------------------------------------------------------------------------------
(* for_all_allocated, which drain_all runs on: from the position after the *)
(* first free one, once around the table.  The walk is the function from   *)
(* the steps at which an element is visited to what is reported of it.     *)
OriginalStart == Min({pos \in Positions : pos_is_empty(pos)})

At(k) == mod_add(Capacity, OriginalStart, k)

for_all_allocated ==
    [k \in {k \in 1..(Capacity - 1) : ~pos_is_empty(At(k))} |->
       [ia  |-> mod_sub(Capacity, At(k), displace[At(k)]),
        pos |-> At(k)]]
-------------------------------------------------------------------------------
NoReply == [op |-> "none"]

Init ==
    /\ slot = [pos \in Positions |-> EMPTY]
    /\ displace = [pos \in Positions |-> 0]
    /\ reply = NoReply

(* allocate_pos, m_displace.set, set_quotient.                             *)
InsertAt(key, cursor) ==
    /\ slot' = [slot EXCEPT ![cursor] = key.sq]
    /\ displace' = [displace EXCEPT ![cursor] = mod_sub(Capacity, cursor, key.ia)]

(* The caller has made room for one more entry before the call             *)
(* (grow_if_needed(size() + 1, ...)), also when the key turns out to exist.*)
HasRoom == Cardinality(Allocated) < MaxEntries

lookup_insert(key) ==
    /\ HasRoom
    /\ LET cursor == Cursor(key) IN
       /\ reply' = [op |-> "lookup_insert", key |-> key, id |-> cursor,
                    already_exist |-> ~pos_is_empty(cursor)]
       /\ \/ pos_is_empty(cursor) /\ InsertAt(key, cursor)
          \/ ~pos_is_empty(cursor) /\ UNCHANGED <<slot, displace>>

Next == \E key \in DecomposedKeys : lookup_insert(key)

Spec == Init /\ [][Next]_vars
-------------------------------------------------------------------------------
(* The address a position's element was probed from.                       *)
HomeOf(pos) == mod_sub(Capacity, pos, displace[pos])

KeyAt(pos) == [ia |-> HomeOf(pos), sq |-> slot[pos]]

TypeOK ==
    /\ slot \in [Positions -> Quotients \cup {EMPTY}]
    /\ displace \in [Positions -> Positions]
    /\ reply \in {NoReply} \cup
         [op : {"lookup_insert"}, key : DecomposedKeys, id : Positions,
          already_exist : BOOLEAN]

(* No position between an element's home and the element is free:          *)
(* otherwise the probe of search would stop there and miss the element.    *)
NoHole ==
    \A pos \in Allocated :
       \A k \in 0..(displace[pos]) :
          ~pos_is_empty(mod_add(Capacity, HomeOf(pos), k))

(* No key sits at two positions.                                           *)
NoDuplicate ==
    \A p, q \in Allocated : KeyAt(p) = KeyAt(q) => p = q

(* Every probe ends: some position is free.                                *)
FreePosition == Cardinality(Allocated) <= MaxEntries

Placed == NoHole /\ NoDuplicate /\ FreePosition

(* The partial function from keys to ids the table stands for.             *)
StoredKeys == {KeyAt(pos) : pos \in Allocated}

Entries ==
    [key \in StoredKeys |-> CHOOSE pos \in Allocated : KeyAt(pos) = key]

(* A probe finds exactly the stored keys, each under the id it was given,  *)
(* whatever else probed through the same positions.                        *)
SearchFindsEntries ==
    \A key \in DecomposedKeys :
       search(key) = IF key \in StoredKeys
                     THEN [found |-> TRUE, id |-> Entries[key]]
                     ELSE NotFound

(* The walk that a rehash drains the table with reports every element      *)
(* once, with the initial address it was inserted under, also when it sits *)
(* beyond the end of the table.                                            *)
WalkVisitsEntriesOnce ==
    LET walk == for_all_allocated IN
    /\ \A m, n \in DOMAIN walk : walk[m].pos = walk[n].pos => m = n
    /\ {[ia |-> walk[n].ia, sq |-> slot[walk[n].pos]] : n \in DOMAIN walk}
         = StoredKeys
    /\ {walk[n].pos : n \in DOMAIN walk} = Allocated

P == INSTANCE Placement WITH entries <- Entries, Ids <- Positions

(* displacement_t is a placement.                                          *)
RefinesPlacement == P!Spec
===============================================================================
