------------------------------- MODULE HashSet -------------------------------
(***************************************************************************)
(* hashset_t: a set of integer keys over a placement.  A key is hashed     *)
(* with a bijection on as many bits as the table can store and split into  *)
(* an initial address and a quotient; the two are all that is kept, and    *)
(* the key is composed from them again when the table is rebuilt with      *)
(* another capacity or key width.                                          *)
(*                                                                         *)
(* The placement is the one of Placement.tla, which CvTable and            *)
(* Displacement implement: a partial function from decomposed keys to ids. *)
(*                                                                         *)
(* A rebuild calls the user back: on_resize once, on_reinsert for every    *)
(* element.  The user of this model keeps a mirror of the table's ids out  *)
(* of these callbacks, the way the tests' shadow_sets_t does.  The steps   *)
(* of a rebuild between two callbacks are actions of their own.            *)
(***************************************************************************)
EXTENDS SizeManager, PartialFunctions, FiniteSets, Functions

CONSTANTS
    InitialSizes,           \* sizes the constructor is called with
    InitialKeyWidths,       \* key widths the constructor is called with
    LoadFactors,            \* values given to max_load_factor, [num, den]
    Hash(_, _),             \* hash(w, x), on integers of w bits
    HashInv(_, _),          \* hash_inv(w, x)
    FreshIds(_, _, _),      \* ids the placement may give to a new key, from
                            \* the capacity, the entries and the key
    MaxCapacity,            \* bound of the model on the capacity
    MaxKeyWidth             \* bound of the model on the key width

ASSUME InitialSizesAssumption ==
    \A size \in InitialSizes :
       size \in Nat /\ is_pot(adjust_size(size)) /\ adjust_size(size) <= MaxCapacity
ASSUME InitialKeyWidthsAssumption == InitialKeyWidths \subseteq 1..MaxKeyWidth
ASSUME LoadFactorsAssumption ==
    \A lf \in LoadFactors : lf.num \in Nat \ {0} /\ lf.den \in Nat \ {0}
ASSUME BoundsAssumption == is_pot(MaxCapacity) /\ MaxKeyWidth \in Nat
ASSUME HashAssumption ==
    \A w \in 1..(MaxKeyWidth + log2_upper(MaxCapacity) + 1) :
       \A x \in 0..(pow2[w] - 1) :
          Hash(w, x) \in 0..(pow2[w] - 1) /\ HashInv(w, Hash(w, x)) = x

VARIABLES
    table,      \* the table the user holds
    new_table,  \* the table a rebuild is filling, or NoTable
    call,       \* the call a rebuild interrupts, or Idle
    mirror,     \* the user's ids: key -> id
    reply       \* what the last lookup_insert returned

vars == <<table, new_table, call, mirror, reply>>

NoTable == [capacity |-> 0]
Idle    == [op |-> "idle"]
NoReply == [op |-> "none"]
NoCallbacksYet == << >>

CallReply(key, id, already_exist) ==
    [op |-> "lookup_insert", key |-> key, id |-> id, already_exist |-> already_exist]
-------------------------------------------------------------------------------
(* A table: m_sizing (capacity, size, load factor), m_key_width, the width *)
(* m_hash was constructed with, and the placement's entries.               *)

Max2(a, b) == IF a >= b THEN a ELSE b

real_width(t) == Max2(log2_upper(t.capacity) + 1, t.key_width)

quotient_width(t) == real_width(t) - log2_upper(t.capacity)

(* A mistake: the load factor of the old table is not carried over.        *)
Constructed_default_load_factor(size, key_width, lf) ==
    LET t == [capacity |-> adjust_size(size), size |-> 0,
              load_factor |-> [num |-> 1, den |-> 2],
              key_width |-> key_width, hash_width |-> 0, entries |-> << >>]
    IN  [t EXCEPT !.hash_width = real_width(t)]

(* A mistake: the hash function is constructed for one bit too many.       *)
Constructed_wide_hash(size, key_width, lf) ==
    LET t == [capacity |-> adjust_size(size), size |-> 0, load_factor |-> lf,
              key_width |-> key_width, hash_width |-> 0, entries |-> << >>]
    IN  [t EXCEPT !.hash_width = real_width(t) + 1]

Constructed(size, key_width, lf) ==
    LET t == [capacity |-> adjust_size(size), size |-> 0, load_factor |-> lf,
              key_width |-> key_width, hash_width |-> 0, entries |-> << >>]
    IN  [t EXCEPT !.hash_width = real_width(t)]

dcheck_key_width(t, key) == key < pow2[t.key_width]

decompose_key(t, key) ==
    decompose_hashed_value(t.capacity, Hash(t.hash_width, key))

compose_key(t, dkey) ==
    HashInv(t.hash_width,
            compose_hashed_value(t.capacity, dkey.initial_address, dkey.stored_quotient))

NotFound == [found |-> FALSE]

lookup(t, key) ==
    LET dkey == decompose_key(t, key)
    IN  IF dkey \in DOMAIN t.entries
        THEN [found |-> TRUE, id |-> t.entries[dkey]]
        ELSE NotFound

needs_to_realloc(t, new_size, new_key_width) ==
    \/ needs_to_grow_capacity(t.load_factor, t.capacity, new_size)
    \/ new_key_width # t.key_width

(* The capacity doubles until the load factor allows the new size.         *)
GrownCapacity(t, new_size) ==
    grown_capacity(t.load_factor, t.capacity, new_size)

(* The end of grow_and_insert, in a table that has room: find the key or   *)
(* insert it under a fresh id.                                             *)
Inserted(t, key, id) ==
    IF lookup(t, key).found THEN t
    ELSE [t EXCEPT !.entries = Put(@, decompose_key(t, key), id), !.size = @ + 1]

IdsFor(t, key) ==
    IF lookup(t, key).found THEN {lookup(t, key).id}
    ELSE FreshIds(t.capacity, t.entries, decompose_key(t, key)) \ Range(t.entries)

(* serialize<hashset_t>: the storage and the placement, which hold the     *)
(* entries together, are blocks whose sizes a reader has to know from the  *)
(* members he has read before.                                             *)
EntriesType(t) == <<"storage and placement", t.capacity, quotient_width(t)>>

written(t) ==
    write_sizing(t) \o << Item(uint8, t.key_width), Item(<<"hash_t">>, t.hash_width),
                          Item(EntriesType(t), t.entries) >>

read_members(in) ==
    LET m_sizing == read_sizing(in)
    IN  [capacity |-> m_sizing.capacity, size |-> m_sizing.size,
         load_factor |-> m_sizing.load_factor, key_width |-> ReadItem(in, 4, uint8),
         hash_width |-> ReadItem(in, 5, <<"hash_t">>), entries |-> << >>]

(* A mistake: the hash function stays that of the default constructor.     *)
read_default_hash(in) ==
    LET ret == [read_members(in) EXCEPT !.hash_width = 2]
    IN  [ret EXCEPT !.entries = ReadItem(in, 6, EntriesType(ret))]

read(in) ==
    LET ret == read_members(in)
    IN  [ret EXCEPT !.entries = ReadItem(in, 6, EntriesType(ret))]
-------------------------------------------------------------------------------
Init ==
    /\ \E size \in InitialSizes, key_width \in InitialKeyWidths, lf \in LoadFactors :
          table = Constructed(size, key_width, lf)
    /\ new_table = NoTable
    /\ call = Idle
    /\ mirror = NoCallbacksYet
    /\ reply = NoReply

(* A mistake: the new table keeps the old key width.                       *)
StartRebuild_keeping_width(pending, new_size, new_key_width) ==
    LET new_capacity == GrownCapacity(table, new_size) IN
    /\ needs_to_realloc(table, new_size, new_key_width)
    /\ new_capacity <= MaxCapacity
    /\ new_table' = Constructed(new_capacity, table.key_width, table.load_factor)
    /\ call' = pending
    /\ mirror' = NoCallbacksYet
    /\ UNCHANGED <<table, reply>>

(* grow_if_needed up to on_resize: a new table with the configuration of   *)
(* the old one, and the user forgets the old ids.                          *)
StartRebuild(pending, new_size, new_key_width) ==
    LET new_capacity == GrownCapacity(table, new_size) IN
    /\ needs_to_realloc(table, new_size, new_key_width)
    /\ new_capacity <= MaxCapacity
    /\ new_table' = Constructed(new_capacity, new_key_width, table.load_factor)
    /\ call' = pending
    /\ mirror' = NoCallbacksYet
    /\ UNCHANGED <<table, reply>>

(* What lookup_insert does to the table it ends on, t.                     *)
InsertInto(t, key) ==
    \E id \in IdsFor(t, key) :
       /\ table' = Inserted(t, key, id)
       /\ mirror' = Put(mirror, key, id)
       /\ reply' = CallReply(key, id, lookup(t, key).found)

(* lookup_insert_key_width; lookup_insert passes the current key width.    *)
(* The user's key fits the width.                                          *)
lookup_insert_key_width(key, width) ==
    LET raw_key_width == Max2(width, table.key_width)
        new_size      == table.size + 1
    IN  /\ call = Idle
        /\ key < pow2[raw_key_width]
        /\ \/ StartRebuild([op |-> "lookup_insert", key |-> key], new_size, raw_key_width)
           \/ /\ ~needs_to_realloc(table, new_size, raw_key_width)
              /\ InsertInto(table, key)
              /\ UNCHANGED <<new_table, call>>

grow_key_width(width) ==
    /\ call = Idle
    /\ StartRebuild([op |-> "grow_key_width"], table.size, Max2(width, table.key_width))

max_load_factor(lf) ==
    /\ call = Idle
    /\ lf # table.load_factor
    /\ table' = [table EXCEPT !.load_factor = lf]
    /\ UNCHANGED <<new_table, call, mirror, reply>>

(* The user moves the set into an empty table that he has constructed,     *)
(* with capacity and width large enough, as the comment of move_into       *)
(* advises, perhaps a smaller one, and goes on with that one (swap).       *)
move_into(size, key_width, lf) ==
    LET other == Constructed(size, key_width, lf) IN
    /\ call = Idle
    /\ key_width >= table.key_width
    /\ ~needs_to_realloc(other, table.size, key_width)
    /\ new_table' = other
    /\ call' = [op |-> "move_into"]
    /\ mirror' = NoCallbacksYet
    /\ UNCHANGED <<table, reply>>

(* The set is written into a stream and read back, and the user goes on    *)
(* with what he read and with the ids he knows.                            *)
ReadBack ==
    /\ call = Idle
    /\ table' = read(written(table))
    /\ reply' = NoReply
    /\ UNCHANGED <<new_table, call, mirror>>

(* Mistakes: the element is reported under its old id; it is copied.       *)
MoveElement_reporting_old_id(dkey) ==
    LET key == compose_key(table, dkey) IN
    /\ call # Idle
    /\ ~needs_to_realloc(new_table, new_table.size + 1, new_table.key_width)
    /\ table' = [table EXCEPT !.entries = Restrict(@, DOMAIN @ \ {dkey})]
    /\ \E id \in IdsFor(new_table, key) : new_table' = Inserted(new_table, key, id)
    /\ mirror' = Put(mirror, key, table.entries[dkey])
    /\ UNCHANGED <<call, reply>>

MoveElement_copying(dkey) ==
    LET key == compose_key(table, dkey) IN
    /\ call # Idle
    /\ ~needs_to_realloc(new_table, new_table.size + 1, new_table.key_width)
    /\ \E id \in IdsFor(new_table, key) :
          /\ new_table' = Inserted(new_table, key, id)
          /\ mirror' = Put(mirror, key, id)
    /\ UNCHANGED <<table, call, reply>>

(* One callback of move_into: the element leaves the old table, its key is *)
(* composed and inserted in the new one, and the user learns its new id.   *)
(* The old table's size is not updated.  The walk of drain_all takes the   *)
(* elements in the order of their positions, here it is any order.  The    *)
(* guard on needs_to_realloc never bites: RebuildEnds would fail.          *)
MoveElement(dkey) ==
    LET key == compose_key(table, dkey) IN
    /\ call # Idle
    /\ ~needs_to_realloc(new_table, new_table.size + 1, new_table.key_width)
    /\ table' = [table EXCEPT !.entries = Restrict(@, DOMAIN @ \ {dkey})]
    /\ \E id \in IdsFor(new_table, key) :
          /\ new_table' = Inserted(new_table, key, id)
          /\ mirror' = Put(mirror, key, id)
    /\ UNCHANGED <<call, reply>>

(* A mistake: the walk over the old table stops early.                     *)
FinishRebuild_early ==
    /\ call # Idle
    /\ new_table' = NoTable
    /\ call' = Idle
    /\ \/ call.op = "lookup_insert" /\ InsertInto(new_table, call.key)
       \/ /\ call.op \in {"grow_key_width", "move_into"}
          /\ table' = new_table
          /\ UNCHANGED <<mirror, reply>>

(* The new table replaces the old one and the interrupted call goes on.    *)
FinishRebuild ==
    /\ call # Idle
    /\ DOMAIN table.entries = {}
    /\ new_table' = NoTable
    /\ call' = Idle
    /\ \/ call.op = "lookup_insert" /\ InsertInto(new_table, call.key)
       \/ /\ call.op \in {"grow_key_width", "move_into"}
          /\ table' = new_table
          /\ UNCHANGED <<mirror, reply>>

Keys == 0..(pow2[MaxKeyWidth] - 1)

Rebuild ==
    \/ \E dkey \in DOMAIN table.entries : MoveElement(dkey)
    \/ FinishRebuild

Next ==
    \/ \E key \in Keys, width \in 1..MaxKeyWidth : lookup_insert_key_width(key, width)
    \/ \E width \in 1..MaxKeyWidth : grow_key_width(width)
    \/ \E lf \in LoadFactors : max_load_factor(lf)
    \/ \E size \in InitialSizes, width \in 1..MaxKeyWidth, lf \in LoadFactors :
          move_into(size, width, lf)
    \/ ReadBack
    \/ Rebuild

(* A call runs to its end: the rebuild inside it is never left half done.  *)
Spec == Init /\ [][Next]_vars /\ WF_vars(Rebuild)
-------------------------------------------------------------------------------
IsTable(t) ==
    /\ t.capacity \in 2..MaxCapacity /\ is_pot(t.capacity)
    /\ t.size \in 0..(t.capacity - 1)
    /\ t.load_factor \in LoadFactors
    /\ t.key_width \in 1..MaxKeyWidth
    /\ DOMAIN t.entries \subseteq
         [initial_address : 0..(t.capacity - 1),
          stored_quotient : 0..(pow2[quotient_width(t)] - 1)]

TypeOK ==
    /\ IsTable(table)
    /\ call = Idle => new_table = NoTable
    /\ call # Idle => IsTable(new_table)
    /\ DOMAIN mirror \subseteq Keys

ContentsOf(t) == {compose_key(t, dkey) : dkey \in DOMAIN t.entries}

(* The keys in the set, wherever a rebuild has them at the moment.         *)
Contents ==
    IF call = Idle THEN ContentsOf(table)
    ELSE ContentsOf(table) \cup ContentsOf(new_table)

(* The table the callbacks speak about.                                    *)
Current == IF call = Idle THEN table ELSE new_table

(* The user's mirror, kept up only by on_resize, on_reinsert and the       *)
(* returned entries, is the table's own mapping from keys to ids, at every *)
(* callback of a rebuild as well.                                          *)
MirrorIsTable ==
    /\ DOMAIN mirror = ContentsOf(Current)
    /\ \A key \in DOMAIN mirror :
          lookup(Current, key) = [found |-> TRUE, id |-> mirror[key]]

(* Between two calls a lookup finds exactly the keys of the set, for every *)
(* key it may be asked for, and every key fits the key width.              *)
LookupFindsContents ==
    call = Idle =>
       /\ \A key \in Contents : dcheck_key_width(table, key)
       /\ \A key \in 0..(pow2[table.key_width] - 1) :
             lookup(table, key).found <=> key \in Contents

(* The element count that decides about growth is the number of elements,  *)
(* and a position is free for the next probe to end at.                    *)
SizeCounts ==
    /\ Current.size = Cardinality(DOMAIN Current.entries)
    /\ Current.size < Current.capacity

(* A rebuild moves each key once: what is still to move is not in the new  *)
(* table (DCHECK(!r.key_already_exist())), and fits its key width.         *)
MovesEachKeyOnce ==
    call # Idle =>
       /\ ContentsOf(table) \cap ContentsOf(new_table) = {}
       /\ \A key \in ContentsOf(table) : dcheck_key_width(new_table, key)

(* What is still to move, and the element that the interrupted call        *)
(* inserts, fit into the new table without another growth: the DCHECK at   *)
(* the end of grow_if_needed, for every insertion of a rebuild.            *)
FitsWithoutGrowing ==
    call # Idle =>
       ~needs_to_grow_capacity(new_table.load_factor, new_table.capacity,
          new_table.size + Cardinality(DOMAIN table.entries)
            + IF call.op = "lookup_insert" THEN 1 ELSE 0)

(* A set read back from a stream equals the one written, in all of its     *)
(* members (serialize<hashset_t>::equal_check), although none of the sizes *)
(* of its blocks is in the stream.                                         *)
ReadsBackEqual == [][ReadBack => table' = table]_vars

(* Every rebuild ends, and the call it interrupted returns.  The elements  *)
(* fit into the new table: it never has to grow while it is filled, which  *)
(* would make the ids already reported stale.                              *)
RebuildEnds == (call # Idle) ~> (call = Idle)

(* hashset_t is a set of keys.                                             *)
S == INSTANCE KeySet WITH
       keys  <- Contents,
       reply <- IF reply = NoReply THEN reply
                ELSE [op |-> reply.op, key |-> reply.key,
                      already_exist |-> reply.already_exist]

RefinesKeySet == S!Spec
===============================================================================
