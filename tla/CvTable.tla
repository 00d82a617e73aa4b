------------------------------- MODULE CvTable -------------------------------
(***************************************************************************)
(* cv_bvs_t: a hash table that keeps the keys of one initial address       *)
(* together, as a group of consecutive positions.  v[a] says that address  *)
(* a has a group; c[p] says that position p starts a group.  Groups follow *)
(* each other in the order of their addresses, so inside a run of occupied *)
(* positions the n-th c bit starts the group of the n-th v bit: nothing    *)
(* else says which address an element was inserted under.                  *)
(*                                                                         *)
(* A new element goes behind its group and everything up to the next free  *)
(* position moves one to the right.                                        *)
(***************************************************************************)
EXTENDS SizeManager, FiniteSets, Functions, TLC

CONSTANTS
    Capacity,   \* size of the table, a power of two
    Addresses,  \* initial addresses of the inserted keys
    Quotients,  \* stored quotients of the inserted keys
    EMPTY,      \* a position whose bit in the bucket bitmap is 0
    MaxEntries  \* bound of the model on the number of entries

ASSUME CapacityAssumption == Capacity \in Nat /\ Capacity >= 2
ASSUME AddressesAssumption == Addresses \subseteq 0..(Capacity - 1)
ASSUME EmptyAssumption == EMPTY \notin Quotients
ASSUME MaxEntriesAssumption == MaxEntries \in 1..(Capacity - 1)

VARIABLES
    slot,       \* the storage: position -> quotient, or EMPTY
    v,          \* the v bits of m_cv
    c,          \* the c bits of m_cv
    reply       \* the entry_t the last lookup_insert returned

vars == <<slot, v, c, reply>>

Positions == 0..(Capacity - 1)

DecomposedKeys == [ia : Addresses, sq : Quotients]

pos_is_empty(pos) == slot[pos] = EMPTY

Allocated == {pos \in Positions : ~pos_is_empty(pos)}

Next1(pos) == mod_add(Capacity, pos, 1)
Prev1(pos) == mod_sub(Capacity, pos, 1)
-------------------------------------------------------------------------------
(* Mistakes the properties would show, each named after the definition it  *)
(* can stand in for.                                                       *)
GroupSize_without_wrap(group) == group.group_end - group.group_start

Swapped_not(s, p, q) == s

shift_c_too_short(from, to) ==
    [i \in Positions |->
       IF i = from THEN FALSE
       ELSE IF mod_sub(Capacity, i, from) < mod_sub(Capacity, to, from)
            THEN c[Prev1(i)] ELSE c[i]]

NextAddress_not_moving ==
    [ia \in Positions |->
       mod_add(Capacity, ia,
               Min({k \in Positions : v[mod_add(Capacity, ia, k)]}))]

GroupStartsBefore_at_cursor(pos, n) ==
    Cardinality({k \in 0..(n - 1) : c[mod_sub(Capacity, pos, k)]})
-------------------------------------------------------------------------------
(* Finding a group.                                                        *)

(* The first free position at or behind pos.                               *)
NextFree(pos) ==
    mod_add(Capacity, pos,
            Min({k \in Positions : pos_is_empty(mod_add(Capacity, pos, k))}))

(* How many of the n positions before pos start a group.                   *)
GroupStartsBefore(pos, n) ==
    Cardinality({k \in 1..n : c[mod_sub(Capacity, pos, k)]})

(* search_existing_group with the v bits vbits: count the groups from      *)
(* address ia up to the free position behind it, then walk back over as    *)
(* many c bits, first all but one, then the last one.                      *)
search_existing_group(vbits, ia) ==
    LET groups_terminator == NextFree(ia)
        v_counter ==
          Cardinality({k \in 0..(mod_sub(Capacity, groups_terminator, ia) - 1) :
                         vbits[mod_add(Capacity, ia, k)]})
        WalkBack(count) ==
          mod_sub(Capacity, groups_terminator,
                  Min({n \in 0..Capacity :
                         GroupStartsBefore(groups_terminator, n) = count}))
    IN [group_start |-> WalkBack(v_counter),
        group_end   |-> WalkBack(v_counter - 1),
        terminator  |-> groups_terminator]

(* How many elements a group has, and its n-th position.                   *)
GroupSize(group) == mod_sub(Capacity, group.group_end, group.group_start)

GroupPosition(group, n) == mod_add(Capacity, group.group_start, n)

(* The offsets in the group that hold the quotient.                        *)
search_in_group(group, sq) ==
    {n \in 0..(GroupSize(group) - 1) : slot[GroupPosition(group, n)] = sq}

local_id_to_global_id(ia, local_id) == local_id * Capacity + ia
-------------------------------------------------------------------------------
(* The lookups.                                                            *)

NotFound == [found |-> FALSE]

FoundExist(key, offsets) ==
    [found |-> TRUE, id |-> local_id_to_global_id(key.ia, Min(offsets))]

search(key) ==
    IF ~v[key.ia] THEN NotFound
    ELSE LET offsets == search_in_group(search_existing_group(v, key.ia), key.sq)
         IN  IF offsets = {} THEN NotFound ELSE FoundExist(key, offsets)

lookup_id(id) ==
    LET group == search_existing_group(v, id % Capacity)
    IN  slot[GroupPosition(group, id \div Capacity)]
-------------------------------------------------------------------------------
(* for_all_allocated: once around the table from the first free position,  *)
(* moving the address on to the next v bit at every c bit.  The walk is    *)
(* the function from the steps at which an element is visited to what is   *)
(* reported of it.                                                         *)
OriginalStart == Min({pos \in Positions : pos_is_empty(pos)})

NextAddress ==
    [ia \in Positions |->
       mod_add(Capacity, ia,
               Min({k \in 1..Capacity : v[mod_add(Capacity, ia, k)]}))]

At(k) == mod_add(Capacity, OriginalStart, k)

initial_address[k \in Positions] ==
    IF pos_is_empty(At(k)) THEN At(k)
    ELSE IF c[At(k)] THEN NextAddress[initial_address[k - 1]]
    ELSE initial_address[k - 1]

for_all_allocated ==
    [k \in {k \in 1..(Capacity - 1) : ~pos_is_empty(At(k))} |->
       [ia |-> initial_address[k], pos |-> At(k)]]
-------------------------------------------------------------------------------
(* Inserting behind a group.                                               *)

(* sparse_shift: move [from, to) one to the right, the last element to the *)
(* front; the range does not wrap around.                                  *)
sparse_shift(s, from, to) ==
    [i \in Positions |->
       IF i = from THEN s[to - 1]
       ELSE IF i \in (from + 1)..(to - 1) THEN s[i - 1] ELSE s[i]]

Swapped(s, p, q) == [s EXCEPT ![p] = s[q], ![q] = s[p]]

(* shift_elements_and_insert: a range that wraps around is shifted in two  *)
(* parts whose front elements change places; then the front element moves  *)
(* to the free position `to` and the new quotient takes its place.         *)
shift_elements_and_insert(from, to, sq) ==
    LET upper == sparse_shift(slot, from, Capacity)
        shifted ==
          CASE to > from             -> sparse_shift(slot, from, to)
            [] to < from /\ to = 0   -> upper
            [] to < from /\ to > 0   -> Swapped(sparse_shift(upper, 0, to), from, 0)
    IN [shifted EXCEPT ![to] = shifted[from], ![from] = sq]

(* The c bits move with their elements.                                    *)
shift_c(from, to) ==
    [i \in Positions |->
       IF i = from THEN FALSE
       ELSE IF mod_sub(Capacity, i, from) <= mod_sub(Capacity, to, from)
            THEN c[Prev1(i)] ELSE c[i]]

(* insert_value_after_group, and the set_quotient its callers do next.     *)
insert_value_after_group(group, sq) ==
    LET from == group.group_end
        to   == group.terminator
    IN  IF pos_is_empty(from)
        THEN [slot |-> [slot EXCEPT ![from] = sq], c |-> c]
        ELSE [slot |-> shift_elements_and_insert(from, to, sq),
              c    |-> shift_c(from, to)]
-------------------------------------------------------------------------------
NoReply == [op |-> "none"]

Reply(key, local_id, already_exist) ==
    reply' = [op |-> "lookup_insert", key |-> key,
              id |-> local_id_to_global_id(key.ia, local_id),
              already_exist |-> already_exist]

Init ==
    /\ slot = [pos \in Positions |-> EMPTY]
    /\ v = [pos \in Positions |-> FALSE]
    /\ c = [pos \in Positions |-> FALSE]
    /\ reply = NoReply

(* The initial address is free: the element is a group of its own.         *)
InsertAtAddress(key) ==
    /\ pos_is_empty(key.ia)
    /\ slot' = [slot EXCEPT ![key.ia] = key.sq]
    /\ v' = [v EXCEPT ![key.ia] = TRUE]
    /\ c' = [c EXCEPT ![key.ia] = TRUE]
    /\ Reply(key, 0, FALSE)

(* The address has a group: find the key there or append it.               *)
InsertInGroup(key) ==
    /\ ~pos_is_empty(key.ia)
    /\ v[key.ia]
    /\ LET group   == search_existing_group(v, key.ia)
           offsets == search_in_group(group, key.sq)
           t       == insert_value_after_group(group, key.sq)
       IN \/ /\ offsets # {}
             /\ Reply(key, Min(offsets), TRUE)
             /\ UNCHANGED <<slot, v, c>>
          \/ /\ offsets = {}
             /\ slot' = t.slot
             /\ c' = t.c
             /\ Reply(key, GroupSize(group), FALSE)
             /\ UNCHANGED v

(* The address is occupied by another address's group: the v bit goes in   *)
(* first, so that the search returns the group before the one to create.   *)
InsertNewGroup(key) ==
    /\ ~pos_is_empty(key.ia)
    /\ ~v[key.ia]
    /\ v' = [v EXCEPT ![key.ia] = TRUE]
    /\ LET group == search_existing_group(v', key.ia)
           t     == insert_value_after_group(group, key.sq)
       IN /\ slot' = t.slot
          /\ c' = [t.c EXCEPT ![group.group_end] = TRUE]
    /\ Reply(key, 0, FALSE)

(* The caller has made room for one more entry before the call.            *)
HasRoom == Cardinality(Allocated) < MaxEntries

lookup_insert(key) ==
    /\ HasRoom
    /\ InsertAtAddress(key) \/ InsertInGroup(key) \/ InsertNewGroup(key)

Next == \E key \in DecomposedKeys : lookup_insert(key)

Spec == Init /\ [][Next]_vars
-------------------------------------------------------------------------------
TypeOK ==
    /\ slot \in [Positions -> Quotients \cup {EMPTY}]
    /\ v \in [Positions -> BOOLEAN]
    /\ c \in [Positions -> BOOLEAN]
    /\ reply \in {NoReply} \cup
         [op : {"lookup_insert"}, key : DecomposedKeys,
          id : 0..(Capacity * Capacity - 1), already_exist : BOOLEAN]

(* The positions of pos's run of occupied positions, up to pos itself.     *)
RunTo(pos) ==
    {q \in Positions : \A k \in 0..mod_sub(Capacity, pos, q) :
                          ~pos_is_empty(mod_add(Capacity, q, k))}

(* How many v bits, c bits stand in that part of the run.                  *)
AddressesTo(pos) == Cardinality({q \in RunTo(pos) : v[q]})
GroupsTo(pos)    == Cardinality({q \in RunTo(pos) : c[q]})

(* The v and the c bits of every run of occupied positions pair up: no     *)
(* free position has a bit, every element belongs to a group, no group     *)
(* starts before its address, and where the run ends every address has its *)
(* group.                                                                  *)
BitsPairUp ==
    /\ \A pos \in Positions \ Allocated : ~v[pos] /\ ~c[pos]
    /\ \A pos \in Allocated :
         /\ 1 <= GroupsTo(pos)
         /\ GroupsTo(pos) <= AddressesTo(pos)
         /\ pos_is_empty(Next1(pos)) => GroupsTo(pos) = AddressesTo(pos)

(* The address of an element, by the pairing: in its run it is the n-th    *)
(* with a v bit, if the element is in the n-th group.                      *)
HomeOf(pos) ==
    CHOOSE home \in RunTo(pos) : v[home] /\ AddressesTo(home) = GroupsTo(pos)

(* How far an element is from the start of its group.                      *)
LocalId(pos) == Min({k \in Positions : c[mod_sub(Capacity, pos, k)]})

KeyAt(pos) == [ia |-> HomeOf(pos), sq |-> slot[pos]]

StoredKeys == {KeyAt(pos) : pos \in Allocated}

(* The partial function from keys to ids the table stands for.             *)
Entries ==
    [key \in StoredKeys |->
       local_id_to_global_id(key.ia,
         LocalId(CHOOSE pos \in Allocated :
                   slot[pos] = key.sq /\ HomeOf(pos) = key.ia))]

(* A search finds exactly the stored keys, each under the id it was given  *)
(* when it was inserted, and that id leads back to the element.            *)
SearchFindsEntries ==
    \A key \in DecomposedKeys :
       IF key \in StoredKeys
       THEN /\ search(key) = [found |-> TRUE, id |-> Entries[key]]
            /\ lookup_id(Entries[key]) = key.sq
       ELSE search(key) = NotFound

(* The walk of a rehash reports every element once, under the address it   *)
(* was inserted with.                                                      *)
WalkVisitsEntriesOnce ==
    LET walk == for_all_allocated IN
    /\ \A m, n \in DOMAIN walk : walk[m].pos = walk[n].pos => m = n
    /\ {walk[n].pos : n \in DOMAIN walk} = Allocated
    /\ \A n \in DOMAIN walk : walk[n].ia = HomeOf(walk[n].pos)

P == INSTANCE Placement WITH entries <- Entries, Ids <- 0..(Capacity * Capacity - 1)

(* cv_bvs_t is a placement.                                                *)
RefinesPlacement == P!Spec
==============================================================================
