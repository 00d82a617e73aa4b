---------------------------- MODULE BucketStorage ----------------------------
(***************************************************************************)
(* buckets_bv_t: the positions of a table in buckets, each a bit vector of *)
(* the positions in use and a block that holds just their elements.  Where *)
(* the element of a position is follows from the number of bits before its *)
(* own; every insertion replaces the block by a larger one.  A block is    *)
(* raw memory in which elements are constructed, moved and destroyed.      *)
(*                                                                         *)
(* Four calls use it.  Put is allocate_pos, after which the caller         *)
(* constructs the element.  PutInFront is cv_bvs_t's                       *)
(* shift_elements_and_insert, whose loop walks two iterators backwards     *)
(* over the blocks, one action per turn, up to a location in which the     *)
(* caller constructs.  Drain is drain_all with the walk of                 *)
(* for_all_allocated and trim_storage, which frees buckets behind the      *)
(* walk, one action per call of its callback.  The last one writes the     *)
(* buckets into a stream, from which a table is read later.                *)
(***************************************************************************)
EXTENDS SizeManager, SequencesExt

CONSTANTS
    TableSize,   \* number of positions
    BucketWidth, \* positions per bucket: 64, the bits of the bit vector
    Elems,       \* elements
    EMPTY,       \* stands for a free position
    MaxEntries   \* bound of the model on the number of elements

ASSUME TableSizeAssumption == is_pot(TableSize) /\ TableSize >= 2
ASSUME BucketWidthAssumption == BucketWidth \in Nat /\ BucketWidth >= 1
ASSUME EmptyAssumption == EMPTY \notin Elems
ASSUME MaxEntriesAssumption == MaxEntries \in 1..(TableSize - 1)

VARIABLES
    buckets,    \* m_buckets: [bv, data], data without gaps
    call,       \* the insertion under way, the stream to be read, or Idle
    drain,      \* the drain under way, or Idle
    handed      \* the last position and element the drain gave to its callback

vars == <<buckets, call, drain, handed>>

Positions  == 0..(TableSize - 1)
Idle       == [op |-> "idle"]
Nothing    == << >>
NoPosition == -1
Raw        == "raw"    \* memory without an element in it
Moved      == "moved"  \* an element that was moved from

ASSUME StatesAssumption == {Raw, Moved} \cap (Elems \cup {EMPTY}) = {}
-------------------------------------------------------------------------------
(* Positions and blocks.                                                   *)

idx_of_bucket(pos)     == pos \div BucketWidth
idx_inside_bucket(pos) == pos % BucketWidth
buckets_size           == (TableSize + BucketWidth - 1) \div BucketWidth

Buckets == 0..(buckets_size - 1)

EmptyBucket == [bv |-> {}, data |-> << >>]

exists_in_bucket(bs, pos) == idx_inside_bucket(pos) \in bs[idx_of_bucket(pos)].bv

pos_is_empty(bs, pos) == ~exists_in_bucket(bs, pos)

(* popcount(bv & (mask - 1)): also where a new element would go.           *)
offset_in_bucket(bs, pos) ==
    Cardinality({i \in bs[idx_of_bucket(pos)].bv : i < idx_inside_bucket(pos)})

(* A pointer to an element is its bucket and its offset in the block.      *)
at(bs, pos) == <<idx_of_bucket(pos), offset_in_bucket(bs, pos)>>

Read(bs, ptr)        == bs[ptr[1]].data[ptr[2] + 1]
Write(bs, ptr, elem) == [bs EXCEPT ![ptr[1]].data[ptr[2] + 1] = elem]

(* move_out: what is left is still to be destroyed or assigned to.         *)
move_out(bs, ptr) == Write(bs, ptr, Moved)

move_from(bs, ptr, other) == move_out(Write(bs, ptr, Read(bs, other)), other)

init_from(bs, ptr, other) == move_out(Write(bs, ptr, Read(bs, other)), other)

swap_with(bs, ptr, other) == Write(move_from(bs, ptr, other), other, Read(bs, ptr))

uninitialize(bs, ptr) == Write(bs, ptr, Raw)

(* Mistakes the properties would show, here and below named after the      *)
(* definition they can stand in for: the bit of the element is not set.    *)
allocate_pos_without_bit(bs, pos) ==
    [bs EXCEPT ![idx_of_bucket(pos)].data = InsertAt(@, offset_in_bucket(bs, pos) + 1, Raw)]

(* allocate_pos, insert_at: a new block into which the elements of the old *)
(* one are moved, with raw memory in the place of the new one.             *)
allocate_pos(bs, pos) ==
    [bs EXCEPT ![idx_of_bucket(pos)] =
       [bv   |-> @.bv \cup {idx_inside_bucket(pos)},
        data |-> InsertAt(@.data, offset_in_bucket(bs, pos) + 1, Raw)]]

Occupied == {pos \in Positions : ~pos_is_empty(buckets, pos)}

(* The array the buckets stand for.                                        *)
Element(bs, pos) == IF pos_is_empty(bs, pos) THEN EMPTY ELSE Read(bs, at(bs, pos))

Contents ==
    [pos \in Positions |->
       LET elem == Element(buckets, pos) IN IF elem = Moved THEN EMPTY ELSE elem]
-------------------------------------------------------------------------------
(* iter_t: a bucket, which can be the one past the last, the pointer to    *)
(* the start of its block and the pointer to the element.  An empty bucket *)
(* has no block.                                                           *)
NullPtr == << >>

IterAt(bs, bucket, offset) ==
    IF bucket \in Buckets /\ bs[bucket].bv # {}
    THEN [bucket |-> bucket, b_start |-> <<bucket, 0>>, b_end |-> <<bucket, offset>>]
    ELSE [bucket |-> bucket, b_start |-> NullPtr, b_end |-> NullPtr]

make_iter(bs, pos) ==
    IterAt(bs, idx_of_bucket(pos),
           IF idx_of_bucket(pos) \in Buckets THEN offset_in_bucket(bs, pos) ELSE 0)

(* A mistake: to the first element of the bucket before.                   *)
decrement_to_bucket_start(bs, it) ==
    IF it.b_start # it.b_end
    THEN [it EXCEPT !.b_end = <<@[1], @[2] - 1>>]
    ELSE IterAt(bs, Max({b \in Buckets : b < it.bucket /\ bs[b].bv # {}}), 0)

decrement(bs, it) ==
    IF it.b_start # it.b_end
    THEN [it EXCEPT !.b_end = <<@[1], @[2] - 1>>]
    ELSE LET before == Max({b \in Buckets : b < it.bucket /\ bs[b].bv # {}})
         IN  IterAt(bs, before, Cardinality(bs[before].bv) - 1)
-------------------------------------------------------------------------------
Init ==
    /\ buckets = [b \in Buckets |-> EmptyBucket]
    /\ call = Idle
    /\ drain = Idle
    /\ handed = Nothing

NoCall == call = Idle /\ drain = Idle

(* The caller has made room for one more element.                          *)
HasRoom == Cardinality(Occupied) < MaxEntries

Put(pos, elem) ==
    /\ NoCall
    /\ HasRoom
    /\ pos_is_empty(buckets, pos)
    /\ buckets' = allocate_pos(buckets, pos)
    /\ call' = [op |-> "construct", location |-> pos, elem |-> elem, before |-> Contents]
    /\ UNCHANGED <<drain, handed>>

(* The caller constructs the element in the location it was given.         *)
Construct ==
    /\ call.op = "construct"
    /\ buckets' = Write(buckets, at(buckets, call.location), call.elem)
    /\ call' = Idle
    /\ UNCHANGED <<drain, handed>>

(* sparse_shift(lo, hi), up to its loop.                                   *)
SparseShift(bs, lo, hi) ==
    [lo |-> lo, tmp |-> Read(bs, at(bs, hi - 1)),
     src |-> make_iter(bs, hi - 1), dst |-> make_iter(bs, hi)]

(* groups_terminator: the first free position behind from.                 *)
Terminator(from) ==
    mod_add(TableSize, from,
            Min({k \in Positions : pos_is_empty(buckets, mod_add(TableSize, from, k))}))

(* shift_elements_and_insert; a range that wraps around is shifted in two  *)
(* parts.  `before` is a history variable, the array before the call.      *)
StartPutInFront(from, elem) ==
    LET to == Terminator(from)
        hi == IF to < from THEN TableSize ELSE to
    IN  /\ NoCall
        /\ HasRoom
        /\ from # to
        /\ call' = [op |-> "shift", from |-> from, to |-> to, elem |-> elem,
                    before |-> Contents, part |-> SparseShift(buckets, from, hi)]
        /\ buckets' = move_out(buckets, at(buckets, hi - 1))
        /\ UNCHANGED <<drain, handed>>

AtFront == call.part.src.b_end = make_iter(buckets, call.part.lo).b_end

(* One turn of sparse_shift's loop.                                        *)
MoveOne ==
    LET src == decrement(buckets, call.part.src)
        dst == decrement(buckets, call.part.dst)
    IN  /\ call.op = "shift"
        /\ ~AtFront
        /\ call' = [call EXCEPT !.part = [@ EXCEPT !.src = src, !.dst = dst]]
        /\ buckets' = move_from(buckets, dst.b_end, src.b_end)
        /\ UNCHANGED <<drain, handed>>

(* The moved-out element goes to the front of the range.                   *)
FrontSet == Write(buckets, at(buckets, call.part.lo), call.part.tmp)

SecondPartLeft == call.to < call.from /\ call.to > 0 /\ call.part.lo = call.from

StartSecondPart ==
    /\ call.op = "shift"
    /\ AtFront
    /\ SecondPartLeft
    /\ buckets' = move_out(FrontSet, at(buckets, call.to - 1))
    /\ call' = [call EXCEPT !.part = SparseShift(FrontSet, 0, call.to)]
    /\ UNCHANGED <<drain, handed>>

(* Mistakes: the pointer to the front is taken before allocate_pos; the    *)
(* element that moved to the free position is not destroyed.               *)
MoveFrontTo_by_stale_pointer(bs, from, to) ==
    LET allocated == allocate_pos(bs, to)
        front     == at(bs, from)
    IN  uninitialize(init_from(allocated, at(allocated, to), front), front)

MoveFrontTo_keeping_element(bs, from, to) ==
    LET allocated == allocate_pos(bs, to)
    IN  init_from(allocated, at(allocated, to), at(allocated, from))

(* The front element moves to the free position and its location is the    *)
(* one handed out; the pointer to it is taken after allocate_pos, which    *)
(* may have replaced its block.                                            *)
MoveFrontTo(bs, from, to) ==
    LET allocated == allocate_pos(bs, to)
        front     == at(allocated, from)
    IN  uninitialize(init_from(allocated, at(allocated, to), front), front)

FinishPutInFront ==
    LET shifted == IF call.part.lo = call.from THEN FrontSet
                   ELSE swap_with(FrontSet, at(buckets, call.from), at(buckets, 0))
    IN  /\ call.op = "shift"
        /\ AtFront
        /\ ~SecondPartLeft
        /\ buckets' = MoveFrontTo(shifted, call.from, call.to)
        /\ call' = [op |-> "construct", location |-> call.from, elem |-> call.elem,
                    before |-> call.before]
        /\ UNCHANGED <<drain, handed>>
-------------------------------------------------------------------------------
(* A mistake: the walk starts in the middle of a chain.                    *)
StartDrain_at_zero ==
    /\ NoCall
    /\ drain' = [op |-> "drain", original_start |-> 0, i |-> mod_add(TableSize, 0, 1),
                 drain_start |-> NoPosition, visited |-> {}]
    /\ UNCHANGED <<buckets, call, handed>>

(* drain_all: start behind the first free position.                        *)
StartDrain ==
    LET original_start == Min(Positions \ Occupied) IN
    /\ NoCall
    /\ drain' = [op |-> "drain", original_start |-> original_start,
                 i |-> mod_add(TableSize, original_start, 1),
                 drain_start |-> NoPosition, visited |-> {}]
    /\ UNCHANGED <<buckets, call, handed>>

SkipEmpty ==
    /\ drain # Idle
    /\ pos_is_empty(buckets, drain.i)
    /\ drain.i # drain.original_start
    /\ drain' = [drain EXCEPT !.i = mod_add(TableSize, @, 1)]
    /\ UNCHANGED <<buckets, call, handed>>

(* A mistake: a bucket is only freed when the walk comes back to its start. *)
Trimmed_at_wrap(last_start, end) ==
    IF offset_in_bucket(buckets, end) # 0 \/ end > last_start THEN {}
    ELSE {b \in Buckets : b > idx_of_bucket(last_start)}

(* trim_storage: at the first element of a bucket, the buckets the walk    *)
(* has left, unless it started in the middle of the first of them.         *)
Trimmed(last_start, end) ==
    IF offset_in_bucket(buckets, end) # 0 THEN {}
    ELSE LET bstart == IF offset_in_bucket(buckets, last_start) # 0
                       THEN idx_of_bucket(end) ELSE idx_of_bucket(last_start)
             bend   == idx_of_bucket(end)
         IN  {b \in Buckets : (b - bstart) % buckets_size < (bend - bstart) % buckets_size}

(* The callback moves the element into another table.                      *)
Visit ==
    LET i          == drain.i
        last_start == IF drain.drain_start = NoPosition THEN i ELSE drain.drain_start
        trimmed    == [b \in Buckets |->
                         IF b \in Trimmed(last_start, i) THEN EmptyBucket ELSE buckets[b]]
    IN  /\ drain # Idle
        /\ ~pos_is_empty(buckets, i)
        /\ buckets' = move_out(trimmed, at(trimmed, i))
        /\ handed' = <<i, Read(trimmed, at(trimmed, i))>>
        /\ drain' = [drain EXCEPT
                       !.i = mod_add(TableSize, @, 1),
                       !.drain_start = IF offset_in_bucket(buckets, i) = 0
                                       THEN i ELSE last_start,
                       !.visited = @ \cup {i}]
        /\ UNCHANGED call

(* The walk is back at its start; the caller replaces the table.           *)
EndDrain ==
    /\ drain # Idle
    /\ pos_is_empty(buckets, drain.i)
    /\ drain.i = drain.original_start
    /\ drain' = Idle
    /\ buckets' = [b \in Buckets |-> EmptyBucket]
    /\ handed' = Nothing
    /\ UNCHANGED call

-------------------------------------------------------------------------------
(* serialize<buckets_bv_t>: of each bucket the bit vector and the words of *)
(* the block, of which there are none if it is empty.                      *)
BlockType(size) == <<"entries", size>>

written ==
    [i \in 1..(2 * buckets_size) |->
       LET bucket == buckets[(i - 1) \div 2]
       IN  IF i % 2 = 1 THEN Item(uint64, bucket.bv)
           ELSE Item(BlockType(Cardinality(bucket.bv)), bucket.data)]

read(in) ==
    [b \in Buckets |->
       LET bv == ReadItem(in, 2 * b + 1, uint64)
       IN  [bv |-> bv, data |-> ReadItem(in, 2 * b + 2, BlockType(Cardinality(bv)))]]

(* The table is written and gone; all that is left of it is the stream.    *)
Serialize ==
    /\ NoCall
    /\ call' = [op |-> "read", in |-> written, before |-> Contents]
    /\ buckets' = [b \in Buckets |-> EmptyBucket]
    /\ UNCHANGED <<drain, handed>>

Deserialize ==
    /\ call.op = "read"
    /\ buckets' = read(call.in)
    /\ call' = Idle
    /\ UNCHANGED <<drain, handed>>
-------------------------------------------------------------------------------
(* The inside of a call.                                                   *)
Continue ==
    \/ Construct \/ MoveOne \/ StartSecondPart \/ FinishPutInFront
    \/ SkipEmpty \/ Visit \/ EndDrain

Next ==
    \/ \E pos \in Positions, elem \in Elems : Put(pos, elem)
    \/ \E from \in Positions, elem \in Elems : StartPutInFront(from, elem)
    \/ StartDrain
    \/ Serialize \/ Deserialize
    \/ Continue

(* A call that was begun runs to its end.                                  *)
Spec == Init /\ [][Next]_vars /\ WF_vars(Continue)
-------------------------------------------------------------------------------
(* The bit vector of a bucket counts the elements of its block.            *)
TypeOK ==
    /\ \A b \in Buckets :
         /\ buckets[b].bv \subseteq 0..(BucketWidth - 1)
         /\ buckets[b].data \in [1..Cardinality(buckets[b].bv) -> Elems \cup {Raw, Moved}]
    /\ call = Idle \/ drain = Idle

(* Where a pointer leads.                                                  *)
PositionsAt(ptr) == {pos \in Occupied : at(buckets, pos) = ptr}

(* While elements are shifted, the iterator that reads stays inside the    *)
(* range, and the one that writes is on the next position, over the border *)
(* between two buckets as well: no element outside of the range moves.     *)
IteratorsInStep ==
    call.op = "shift" =>
       \E pos \in PositionsAt(call.part.src.b_end) :
          /\ pos >= call.part.lo
          /\ pos <= IF call.to < call.part.lo THEN TableSize - 1 ELSE call.to - 1
          /\ pos + 1 \in PositionsAt(call.part.dst.b_end) \cup {call.to, TableSize}

(* The position that a shift has moved from and not assigned to again, and *)
(* the ones a drain has.                                                   *)
MovedFrom ==
    CASE call.op = "shift" -> PositionsAt(call.part.src.b_end)
      [] drain # Idle -> drain.visited \cap Occupied
      [] OTHER -> {}

(* The positions of which the memory is in a state.                        *)
Holding(state) == {pos \in Positions : Element(buckets, pos) = state}

(* "the bucket does not initialize or destroy the value and quotient parts *)
(* of the allocation", that is what its users have to do: memory is raw    *)
(* only where a call is about to construct, so that nothing raw is read,   *)
(* assigned to or destroyed with a block, and an element is moved from     *)
(* only where the call that did so will assign to it or destroy it.        *)
OnlyNewIsRaw ==
    /\ Holding(Raw) = IF call.op = "construct" THEN {call.location} ELSE {}
    /\ Holding(Moved) = MovedFrom

(* move_into tries to free memory eagerly: a bucket the drain has left is  *)
(* gone, other than the one it started in.                                 *)
EagerlyFreed ==
    drain # Idle =>
       \A pos \in drain.visited :
          ~pos_is_empty(buckets, pos) =>
             idx_of_bucket(pos) \in
                {idx_of_bucket(handed[1]), idx_of_bucket(mod_add(TableSize, drain.original_start, 1))}

(* Every insertion and every drain comes to its end.                       *)
CallsEnd == (call.op \in {"construct", "shift"} \/ drain # Idle) ~> NoCall

A == INSTANCE SlotArray WITH
       slot    <- IF call = Idle THEN Contents ELSE call.before,
       drained <- IF drain = Idle THEN {-1} ELSE drain.visited

(* The buckets are an array of positions, also after they were read from a *)
(* stream.                                                                 *)
RefinesSlotArray == A!Spec
==============================================================================
