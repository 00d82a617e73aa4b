------------------------------- MODULE HashMap -------------------------------
(***************************************************************************)
(* hashmap_t: maps from integer keys to values of a bounded bit width, of  *)
(* which the user has several.  He inserts and accesses with growing key   *)
(* and value widths, moves the elements of one table into another with     *)
(* move_into, and moves, swaps, destroys and constructs whole tables, and  *)
(* copies them through a stream.                                           *)
(*                                                                         *)
(* A table's placement and storage are its partial function from keys to   *)
(* values (HashSet.tla has the way from a key to its stored form and       *)
(* back).  With plain storage the user is assumed to leave the sentinel    *)
(* out of his values.                                                      *)
(***************************************************************************)
EXTENDS SizeManager, PartialFunctions, FiniteSets, Functions

CONSTANTS
    Tables,         \* the user's tables
    Keys, Values,   \* the keys and values he uses
    KeyWidths,      \* key widths the constructor and the calls are given
    ValueWidths,    \* value widths, likewise
    LoadFactors,    \* values given to max_load_factor, [num, den]
    StopsAtNull,    \* destroy_vals: buckets_bv_t does, plain_sentinel_t not
    EnsuresWidths,  \* whether the user widens the target of a move_into
    MaxCapacity     \* bound of the model on the capacity

ASSUME KeysAssumption ==
    /\ Keys \subseteq Nat /\ Values \subseteq Nat
    /\ KeyWidths \subseteq Nat \ {0} /\ ValueWidths \subseteq Nat \ {0}
ASSUME LoadFactorsAssumption ==
    \A lf \in LoadFactors : lf.num \in Nat \ {0} /\ lf.den \in Nat \ {0}
ASSUME BoundsAssumption == MaxCapacity \in Nat /\ MaxCapacity >= 2

VARIABLES
    tables,     \* table -> its members
    move,       \* the move_into under way, or Idle
    reply,      \* what the last call returned
    destroyed   \* what the last destroy_vals went over

vars == <<tables, move, reply, destroyed>>

Idle         == [op |-> "idle"]
NoReply      == [op |-> "none"]
DefaultValue == 0  \* value_type()

Max2(a, b) == IF a >= b THEN a ELSE b
-------------------------------------------------------------------------------
(* A table: m_sizing, m_key_width, m_val_width, the elements, m_is_empty,  *)
(* and whether m_storage holds its allocation ("owned"), one that a drain  *)
(* went through ("drained") or, moved away, none ("null").                 *)
Constructed(size, key_width, val_width, lf) ==
    [capacity |-> adjust_size(size), size |-> 0, load_factor |-> lf,
     key_width |-> key_width, val_width |-> val_width,
     elements |-> << >>, storage |-> "owned", is_empty |-> FALSE]

dcheck_key_width(tab, key) == key < pow2[tab.key_width]

(* A value written to its bits.                                            *)
Stored(tab, val) == val % pow2[tab.val_width]

KeysOf(tab) == DOMAIN tab.elements

needs_to_grow_capacity_for(tab, new_size) ==
    needs_to_grow_capacity(tab.load_factor, tab.capacity, new_size)

needs_to_realloc(tab, new_size, new_key_width, new_val_width) ==
    \/ needs_to_grow_capacity_for(tab, new_size)
    \/ new_key_width # tab.key_width
    \/ new_val_width # tab.val_width

(* The capacity doubles until the load factor allows the new size.         *)
GrownCapacity(tab, new_size) ==
    grown_capacity(tab.load_factor, tab.capacity, new_size)

(* Mistakes the properties would show, here and below named after the      *)
(* definition they can stand in for: the new table has the default load    *)
(* factor.                                                                 *)
Rebuilt_default_load_factor(tab, new_capacity, new_key_width, new_val_width) ==
    LET new_table == Constructed(new_capacity, new_key_width, new_val_width,
                                 [num |-> 1, den |-> 2])
    IN  [new_table EXCEPT
           !.elements = [key \in KeysOf(tab) |-> Stored(new_table, tab.elements[key])],
           !.size = Cardinality(KeysOf(tab))]

(* The new table, filled by move_into, whose insertions count again.       *)
Rebuilt(tab, new_capacity, new_key_width, new_val_width) ==
    LET new_table == Constructed(new_capacity, new_key_width, new_val_width, tab.load_factor)
    IN  [new_table EXCEPT
           !.elements = [key \in KeysOf(tab) |-> Stored(new_table, tab.elements[key])],
           !.size = Cardinality(KeysOf(tab))]

grow_if_needed(tab, new_size, new_key_width, new_val_width) ==
    IF needs_to_realloc(tab, new_size, new_key_width, new_val_width)
    THEN Rebuilt(tab, GrownCapacity(tab, new_size), new_key_width, new_val_width)
    ELSE tab

(* grow_and_insert and the construction or assignment of the value.        *)
grow_and_insert(tab, key, val, key_width, val_width) ==
    LET grown == grow_if_needed(tab, tab.size + 1, key_width, val_width)
    IN  [grown EXCEPT !.elements = Put(@, key, Stored(grown, val)),
                      !.size = IF key \in KeysOf(grown) THEN @ ELSE @ + 1]

(* search, find and count: a value, or the null pointer.                   *)
search(tab, key) ==
    IF key \in KeysOf(tab) THEN [found |-> TRUE, val |-> tab.elements[key]]
    ELSE [found |-> FALSE]

quotient_width(tab) == Max2(log2_upper(tab.capacity) + 1, tab.key_width) - log2_upper(tab.capacity)

(* serialize<hashmap_t>: the storage and the placement, which hold the     *)
(* elements together, are blocks whose sizes a reader has to know from the *)
(* members he has read before.  (m_hash is left to HashSet.)               *)
ElementsType(tab) ==
    <<"storage and placement", tab.capacity, quotient_width(tab), tab.val_width>>

written(tab) ==
    write_sizing(tab) \o
    << Item(uint8, tab.key_width), Item(uint8, tab.val_width),
       Item(ElementsType(tab), tab.elements), Item(uint8, tab.is_empty) >>

read(in) ==
    LET m_sizing == read_sizing(in)
        ret == [capacity |-> m_sizing.capacity, size |-> m_sizing.size,
                load_factor |-> m_sizing.load_factor, key_width |-> ReadItem(in, 4, uint8),
                val_width |-> ReadItem(in, 5, uint8), elements |-> << >>,
                storage |-> "owned", is_empty |-> ReadItem(in, 7, uint8)]
    IN  [ret EXCEPT !.elements = ReadItem(in, 6, ElementsType(ret))]
-------------------------------------------------------------------------------
Init ==
    /\ \E key_width \in KeyWidths, val_width \in ValueWidths, lf \in LoadFactors :
          tables = [t \in Tables |-> Constructed(0, key_width, val_width, lf)]
    /\ move = Idle
    /\ reply = NoReply
    /\ destroyed = "nothing"

(* A moved-from or drained table may only be assigned to or destroyed.     *)
Usable(t) ==
    /\ move = Idle
    /\ tables[t].storage = "owned"

Reply(op, t, key) ==
    [op |-> op, table |-> t, key |-> key, already_exist |-> key \in KeysOf(tables[t])]

(* insert and insert_key_width pass the table's own widths.  Key and value *)
(* fit the widths.                                                         *)
insert_kv_width(t, key, val, key_width, val_width) ==
    LET raw_key_width == Max2(key_width, tables[t].key_width)
        raw_val_width == Max2(val_width, tables[t].val_width)
    IN  /\ Usable(t)
        /\ key < pow2[raw_key_width]
        /\ val < pow2[raw_val_width]
        /\ tables' = [tables EXCEPT ![t] =
                        grow_and_insert(@, key, val, raw_key_width, raw_val_width)]
        /\ tables'[t].capacity <= MaxCapacity
        /\ reply' = Reply("insert", t, key)
        /\ UNCHANGED <<move, destroyed>>

(* A mistake: the widths of the call replace larger ones of the table.     *)
access_kv_width_narrowing(t, key, key_width, val_width) ==
    LET val == IF search(tables[t], key).found THEN tables[t].elements[key] ELSE DefaultValue
    IN  /\ Usable(t)
        /\ key < pow2[key_width]
        /\ tables' = [tables EXCEPT ![t] = grow_and_insert(@, key, val, key_width, val_width)]
        /\ tables'[t].capacity <= MaxCapacity
        /\ reply' = Reply("access", t, key)
        /\ UNCHANGED <<move, destroyed>>

(* The value of a key that is not there is default-constructed.            *)
access_kv_width(t, key, key_width, val_width) ==
    LET raw_key_width == Max2(key_width, tables[t].key_width)
        raw_val_width == Max2(val_width, tables[t].val_width)
        val == IF search(tables[t], key).found THEN tables[t].elements[key] ELSE DefaultValue
    IN  /\ Usable(t)
        /\ key < pow2[raw_key_width]
        /\ tables' = [tables EXCEPT ![t] =
                        grow_and_insert(@, key, val, raw_key_width, raw_val_width)]
        /\ tables'[t].capacity <= MaxCapacity
        /\ reply' = Reply("access", t, key)
        /\ UNCHANGED <<move, destroyed>>

(* The user writes through the reference he was returned, which is valid   *)
(* until his next call.                                                    *)
Assign(val) ==
    /\ reply.op = "access"
    /\ val < pow2[tables[reply.table].val_width]
    /\ tables' = [tables EXCEPT ![reply.table].elements[reply.key] =
                    Stored(tables[reply.table], val)]
    /\ UNCHANGED <<move, reply, destroyed>>

grow_kv_width(t, key_width, val_width) ==
    LET tab == tables[t] IN
    /\ Usable(t)
    /\ tables' = [tables EXCEPT ![t] =
                    grow_if_needed(tab, tab.size, Max2(key_width, tab.key_width),
                                   Max2(val_width, tab.val_width))]
    /\ tables'[t].capacity <= MaxCapacity
    /\ reply' = NoReply
    /\ UNCHANGED <<move, destroyed>>

max_load_factor(t, lf) ==
    /\ Usable(t)
    /\ lf # tables[t].load_factor
    /\ tables' = [tables EXCEPT ![t].load_factor = lf]
    /\ reply' = NoReply
    /\ UNCHANGED <<move, destroyed>>
-------------------------------------------------------------------------------
(* move_into another table of the user's.                                  *)
StartMove(from, to) ==
    /\ from # to
    /\ Usable(from)
    /\ Usable(to)
    /\ EnsuresWidths =>
         /\ tables[from].key_width <= tables[to].key_width
         /\ tables[from].val_width <= tables[to].val_width
    /\ GrownCapacity(tables[to], tables[to].size + tables[from].size) <= MaxCapacity
    /\ move' = [op |-> "move_into", from |-> from, to |-> to]
    /\ reply' = NoReply
    /\ UNCHANGED <<tables, destroyed>>

(* A mistake: the target does not grow while elements arrive.              *)
MoveOne_into_full(key) ==
    LET from == tables[move.from]
        to   == tables[move.to]
    IN  /\ key \in KeysOf(from)
        /\ tables' = [tables EXCEPT
             ![move.to].elements = Put(@, key, Stored(to, from.elements[key])),
             ![move.to].size = IF key \in KeysOf(to) THEN @ ELSE @ + 1,
             ![move.from].elements = Restrict(@, DOMAIN @ \ {key})]
        /\ UNCHANGED <<move, reply, destroyed>>

(* One callback of drain_all: other.insert(key, value), with the widths of *)
(* the other table, whose check of the key must not fail.                  *)
MoveOne(key) ==
    LET from == tables[move.from]
        to   == tables[move.to]
    IN  /\ key \in KeysOf(from)
        /\ dcheck_key_width(to, key)
        /\ tables' = [tables EXCEPT
             ![move.to] = grow_and_insert(to, key, from.elements[key], to.key_width, to.val_width),
             ![move.from].elements = Restrict(@, DOMAIN @ \ {key})]
        /\ UNCHANGED <<move, reply, destroyed>>

EndMove ==
    /\ KeysOf(tables[move.from]) = {}
    /\ tables' = [tables EXCEPT ![move.from].storage = "drained"]
    /\ move' = Idle
    /\ UNCHANGED <<reply, destroyed>>

(* What destroy_vals goes over.                                            *)
destroy_vals(tab) ==
    IF tab.storage # "null" THEN "values" ELSE IF StopsAtNull THEN "nothing" ELSE "null"

(* A mistake: the table moved from is not marked.                          *)
MovedFrom_unmarked(tab) == [tab EXCEPT !.elements = << >>, !.storage = "null"]

(* The counts and widths stay, copied.                                     *)
MovedFrom(tab) == [tab EXCEPT !.elements = << >>, !.storage = "null", !.is_empty = TRUE]

(* operator=(hashmap_t&&).                                                 *)
MoveAssign(to, from) ==
    /\ from # to
    /\ Usable(from)
    /\ move = Idle
    /\ destroyed' = destroy_vals(tables[to])
    /\ tables' = [tables EXCEPT ![to] = tables[from], ![from] = MovedFrom(@)]
    /\ reply' = NoReply
    /\ UNCHANGED move

(* std::swap, called by the user: a table is moved out and two             *)
(* are assigned, each of them over a storage that was just moved away.     *)
Swap(a, b) ==
    /\ a # b
    /\ Usable(a)
    /\ Usable(b)
    /\ destroyed' = destroy_vals(MovedFrom(tables[a]))
    /\ tables' = [tables EXCEPT ![a] = tables[b], ![b] = tables[a]]
    /\ reply' = NoReply
    /\ UNCHANGED move

(* A table is written into a stream, and what is read from it is moved     *)
(* into another one (serialize_read_into).                                 *)
ReadBack(from, to) ==
    /\ Usable(from)
    /\ destroyed' = destroy_vals(tables[to])
    /\ tables' = [tables EXCEPT ![to] = read(written(tables[from]))]
    /\ reply' = NoReply
    /\ UNCHANGED move

(* The destructor, and a new table in its place.                           *)
Renew(t, key_width, val_width, lf) ==
    /\ move = Idle
    /\ destroyed' = IF tables[t].is_empty THEN "nothing" ELSE destroy_vals(tables[t])
    /\ tables' = [tables EXCEPT ![t] = Constructed(0, key_width, val_width, lf)]
    /\ reply' = NoReply
    /\ UNCHANGED move

Move == move # Idle /\ ((\E key \in Keys : MoveOne(key)) \/ EndMove)

Next ==
    \/ \E t \in Tables, key_width \in KeyWidths, val_width \in ValueWidths :
          \/ \E key \in Keys :
                \/ access_kv_width(t, key, key_width, val_width)
                \/ \E val \in Values : insert_kv_width(t, key, val, key_width, val_width)
          \/ grow_kv_width(t, key_width, val_width)
          \/ \E lf \in LoadFactors : Renew(t, key_width, val_width, lf)
    \/ \E t \in Tables, lf \in LoadFactors : max_load_factor(t, lf)
    \/ \E val \in Values : Assign(val)
    \/ \E from, to \in Tables :
          StartMove(from, to) \/ MoveAssign(to, from) \/ Swap(from, to) \/ ReadBack(from, to)
    \/ Move

Spec == Init /\ [][Next]_vars
-------------------------------------------------------------------------------
TypeOK ==
    \A t \in Tables :
       LET tab == tables[t] IN
       /\ tab.capacity \in 2..MaxCapacity /\ is_pot(tab.capacity)
       /\ tab.key_width \in KeyWidths /\ tab.val_width \in ValueWidths
       /\ \A key \in KeysOf(tab) :
             /\ key < pow2[tab.key_width]
             /\ tab.elements[key] < pow2[tab.val_width]
       /\ tab.is_empty <=> tab.storage = "null"

(* The element count that decides about growth is the number of elements,  *)
(* whatever was overwritten, moved in or rebuilt, and one position at      *)
(* least is free.                                                          *)
SizeCounts ==
    \A t \in Tables :
       LET tab == tables[t] IN
       /\ tab.storage = "owned" /\ (move = Idle \/ move.from # t)
             => tab.size = Cardinality(KeysOf(tab))
       /\ Cardinality(KeysOf(tab)) < tab.capacity

(* move_into: "The target hashtable will grow as needed."  No key that is  *)
(* still to move is wider than the keys of the target.  (It is not so if   *)
(* the user does not widen the target himself.)                            *)
TargetGrowsAsNeeded ==
    move # Idle =>
       \A key \in KeysOf(tables[move.from]) : dcheck_key_width(tables[move.to], key)

(* How many elements the target of a move_into has to have room for, given *)
(* the keys of both tables: all of them, and one more if they share a key, *)
(* since insert makes room before it finds the key there.                  *)
CountToHold(from, to) ==
    Cardinality(from \cup to) + (IF from \cap to = {} THEN 0 ELSE 1)

CapacityToHold ==
    GrownCapacity(tables[move.to],
                  CountToHold(KeysOf(tables[move.from]), KeysOf(tables[move.to])))

(* move_into: "To prevent that, ensure its capacity [is] already large     *)
(* enough."  However often the target is rebuilt while elements arrive, the *)
(* capacity it will end with never becomes larger than what its capacity,  *)
(* load factor and elements were enough for when the move began; one with  *)
(* that capacity is not rebuilt at all.                                    *)
NeverGrowsBeyondNeed ==
    [][move # Idle /\ move' = move => CapacityToHold' <= CapacityToHold]_vars

(* m_is_empty: "Marker for correctly handling moving-out".  The destructors *)
(* of values are never run over a storage that was moved away.             *)
NeverDestroysMovedOut == destroyed # "null"

M == INSTANCE KeyMaps WITH maps <- [t \in Tables |-> tables[t].elements]

(* hashmap_t is a map from keys to values.                                 *)
RefinesKeyMaps == M!Spec
==============================================================================
