---------------------------- MODULE PlainStorage ----------------------------
(***************************************************************************)
(* plain_sentinel_t: the positions of a map in one array of quotients and  *)
(* values, all of them constructed from the start.  A position is free if  *)
(* its value equals empty_value, so that placing, shifting and draining,   *)
(* which destroy, construct and move values, also decide which positions   *)
(* are in use.                                                             *)
(*                                                                         *)
(* A call is an insertion of a mapped value (hashmap_t's insert_kv_width   *)
(* with cv_bvs_t below it) that finds a free position or shifts elements   *)
(* to make one, or the drain of a rebuild, whose callback moves every      *)
(* value into the new table, or writes the array into a stream, from which *)
(* a table is read later.                                                  *)
(***************************************************************************)
EXTENDS SizeManager, FiniteSets

CONSTANTS
    TableSize,   \* number of positions
    Quotients,   \* stored quotients
    Values,      \* mapped values a user inserts
    empty_value, \* config_args::empty_value, by default value_type()
    KeepsValue,  \* whether a value is still the same after it was moved from
    EMPTY,       \* stands for a free position
    MaxEntries   \* bound of the model on the number of elements

ASSUME TableSizeAssumption == is_pot(TableSize) /\ TableSize >= 2
ASSUME QuotientsAssumption == Quotients \subseteq Nat
ASSUME EmptyValueAssumption ==
    /\ empty_value \notin Values
    /\ "uninitialized" \notin Values \cup {empty_value}
    /\ EMPTY \notin [quot : Quotients \cup {0}, val : Values]
ASSUME KeepsValueAssumption == KeepsValue \in BOOLEAN
ASSUME MaxEntriesAssumption == MaxEntries \in 1..(TableSize - 1)

VARIABLES
    cells,      \* m_alloc: position -> [quot, val]
    call,       \* the insertion under way, the stream to be read, or Idle
    drain,      \* the drain under way, or Idle
    handed      \* the last position and element the drain gave to its callback

vars == <<cells, call, drain, handed>>

Positions     == 0..(TableSize - 1)
Elems         == [quot : Quotients, val : Values]
Idle          == [op |-> "idle"]
Nothing       == << >>
Uninitialized == "uninitialized"  \* memory without a value in it

pos_is_empty(cs, pos) == cs[pos].val = empty_value

Occupied == {pos \in Positions : ~pos_is_empty(cells, pos)}

(* The array the cells stand for.                                          *)
Contents == [pos \in Positions |-> IF pos_is_empty(cells, pos) THEN EMPTY ELSE cells[pos]]
-------------------------------------------------------------------------------
(* What is done to values.                                                 *)

(* Integers keep their value, a string is left empty.                      *)
MovedFrom(val) == IF KeepsValue THEN val ELSE empty_value

uninitialize(cs, pos) == [cs EXCEPT ![pos].val = Uninitialized]

set_val_no_drop(cs, pos, val) == [cs EXCEPT ![pos].val = val]

set(cs, pos, elem) == [cs EXCEPT ![pos] = elem]

(* tmp = move_out(): what is left behind.                                  *)
move_out(cs, pos) == [cs EXCEPT ![pos].val = MovedFrom(@)]

(* Also with itself as the source.                                         *)
move_from(cs, pos, other) == move_out([cs EXCEPT ![pos] = cs[other]], other)

init_from(cs, pos, other) == move_out([cs EXCEPT ![pos] = cs[other]], other)

swap_with(cs, pos, other) == set(move_from(cs, pos, other), other, cs[pos])

(* The location is handed out destroyed.                                   *)
allocate_pos(cs, pos) == uninitialize(cs, pos)

(* iter_t is the position of m_end; one past the end is allowed.           *)
decrement(cs, it) == Max({pos \in Positions : pos < it /\ ~pos_is_empty(cs, pos)})
-------------------------------------------------------------------------------
(* Mistakes the properties would show, here and below named after the      *)
(* definition they can stand in for: the loop runs once too often.         *)
Constructed_past_end == [pos \in 0..TableSize |-> [quot |-> 0, val |-> empty_value]]

(* The constructor fills the table with the sentinel.                      *)
Constructed == [pos \in Positions |-> [quot |-> 0, val |-> empty_value]]

Init ==
    /\ cells = Constructed
    /\ call = Idle
    /\ drain = Idle
    /\ handed = Nothing

NoCall == call = Idle /\ drain = Idle

(* The caller has made room for one more element.                          *)
HasRoom == Cardinality(Occupied) < MaxEntries

(* The placement returns a location with a quotient and without a value.   *)
Located(cs, pos, elem) ==
    /\ cells' = [cs EXCEPT ![pos].quot = elem.quot]
    /\ call' = [op |-> "construct", location |-> pos, val |-> elem.val, before |-> Contents]

Put(pos, elem) ==
    /\ NoCall
    /\ HasRoom
    /\ pos_is_empty(cells, pos)
    /\ Located(allocate_pos(cells, pos), pos, elem)
    /\ UNCHANGED <<drain, handed>>

(* The rest of insert_kv_width: the value is constructed.                  *)
Construct ==
    /\ call.op = "construct"
    /\ cells' = set_val_no_drop(cells, call.location, call.val)
    /\ call' = Idle
    /\ UNCHANGED <<drain, handed>>
-------------------------------------------------------------------------------
(* sparse_shift(lo, hi), up to its loop.                                   *)
SparseShift(cs, lo, hi) ==
    [lo |-> lo, tmp |-> cs[hi - 1], src |-> hi - 1, dst |-> hi]

(* groups_terminator: the first free position behind from.                 *)
Terminator(from) ==
    mod_add(TableSize, from,
            Min({k \in Positions : pos_is_empty(cells, mod_add(TableSize, from, k))}))

(* shift_elements_and_insert; a range that wraps around is shifted in two  *)
(* parts.  `before` is a history variable, the array before the call.      *)
StartPutInFront(from, elem) ==
    LET to == Terminator(from)
        hi == IF to < from THEN TableSize ELSE to
    IN  /\ NoCall
        /\ HasRoom
        /\ from # to
        /\ call' = [op |-> "shift", from |-> from, to |-> to, elem |-> elem,
                    before |-> Contents, part |-> SparseShift(cells, from, hi)]
        /\ cells' = move_out(cells, hi - 1)
        /\ UNCHANGED <<drain, handed>>

AtFront == call.part.src = call.part.lo

(* A mistake: only the value moves.                                        *)
MoveOne_without_quotient ==
    LET src == decrement(cells, call.part.src)
        dst == decrement(cells, call.part.dst)
    IN  /\ call.op = "shift"
        /\ ~AtFront
        /\ call' = [call EXCEPT !.part = [@ EXCEPT !.src = src, !.dst = dst]]
        /\ cells' = move_out([cells EXCEPT ![dst].val = cells[src].val], src)
        /\ UNCHANGED <<drain, handed>>

(* One turn of sparse_shift's loop.                                        *)
MoveOne ==
    LET src == decrement(cells, call.part.src)
        dst == decrement(cells, call.part.dst)
    IN  /\ call.op = "shift"
        /\ ~AtFront
        /\ call' = [call EXCEPT !.part = [@ EXCEPT !.src = src, !.dst = dst]]
        /\ cells' = move_from(cells, dst, src)
        /\ UNCHANGED <<drain, handed>>

(* The moved-out element goes to the front of the range.                   *)
FrontSet == set(cells, call.part.lo, call.part.tmp)

SecondPartLeft == call.to < call.from /\ call.to > 0 /\ call.part.lo = call.from

StartSecondPart ==
    /\ call.op = "shift"
    /\ AtFront
    /\ SecondPartLeft
    /\ cells' = move_out(FrontSet, call.to - 1)
    /\ call' = [call EXCEPT !.part = SparseShift(FrontSet, 0, call.to)]
    /\ UNCHANGED <<drain, handed>>

(* A mistake: the value that moved to the free position is not destroyed.  *)
MoveFrontTo_keeping_value(cs, from, to) == init_from(allocate_pos(cs, to), to, from)

(* The front element moves to the free position, and its location is the   *)
(* one handed out.                                                         *)
MoveFrontTo(cs, from, to) ==
    uninitialize(init_from(allocate_pos(cs, to), to, from), from)

FinishPutInFront ==
    LET shifted == IF call.part.lo = call.from THEN FrontSet ELSE swap_with(FrontSet, call.from, 0)
    IN  /\ call.op = "shift"
        /\ AtFront
        /\ ~SecondPartLeft
        /\ cells' = [MoveFrontTo(shifted, call.from, call.to) EXCEPT
                       ![call.from].quot = call.elem.quot]
        /\ call' = [op |-> "construct", location |-> call.from, val |-> call.elem.val,
                    before |-> call.before]
        /\ UNCHANGED <<drain, handed>>
-------------------------------------------------------------------------------
(* drain_all: start behind the first free position.                        *)
StartDrain ==
    LET original_start == Min(Positions \ Occupied) IN
    /\ NoCall
    /\ drain' = [op |-> "drain", original_start |-> original_start,
                 i |-> mod_add(TableSize, original_start, 1), visited |-> {}]
    /\ UNCHANGED <<cells, call, handed>>

SkipEmpty ==
    /\ drain # Idle
    /\ pos_is_empty(cells, drain.i)
    /\ drain.i # drain.original_start
    /\ drain' = [drain EXCEPT !.i = mod_add(TableSize, @, 1)]
    /\ UNCHANGED <<cells, call, handed>>

(* The callback moves the value into the new table.                        *)
Visit ==
    /\ drain # Idle
    /\ ~pos_is_empty(cells, drain.i)
    /\ handed' = <<drain.i, cells[drain.i]>>
    /\ cells' = move_out(cells, drain.i)
    /\ drain' = [drain EXCEPT !.i = mod_add(TableSize, @, 1), !.visited = @ \cup {drain.i}]
    /\ UNCHANGED call

(* The walk is back at its start; the table destroys its values and takes  *)
(* over another allocation.                                                *)
EndDrain ==
    /\ drain # Idle
    /\ pos_is_empty(cells, drain.i)
    /\ drain.i = drain.original_start
    /\ drain' = Idle
    /\ cells' = Constructed
    /\ handed' = Nothing
    /\ UNCHANGED call

-------------------------------------------------------------------------------
(* serialize<plain_sentinel_t>: the sentinel and the words of the array.   *)
(* They are copied as they are, which does for values without memory of    *)
(* their own.                                                              *)
value_type == <<"value_type">>
ArrayType  == <<"entries", TableSize>>

written == << Item(value_type, empty_value), Item(ArrayType, cells) >>

(* The table is written and gone; all that is left of it is the stream.    *)
Serialize ==
    /\ NoCall
    /\ KeepsValue
    /\ call' = [op |-> "read", in |-> written, before |-> Contents]
    /\ cells' = Constructed
    /\ UNCHANGED <<drain, handed>>

(* Which of the positions are free comes back with their values: the       *)
(* sentinel of the new table, the first item, is that of the old one.      *)
Deserialize ==
    /\ call.op = "read"
    /\ cells' = ReadItem(call.in, 2, ArrayType)
    /\ call' = Idle
    /\ UNCHANGED <<drain, handed>>
-------------------------------------------------------------------------------
(* The inside of a call.                                                   *)
Continue ==
    \/ Construct \/ MoveOne \/ StartSecondPart \/ FinishPutInFront
    \/ SkipEmpty \/ Visit \/ EndDrain

Next ==
    \/ \E pos \in Positions, elem \in Elems : Put(pos, elem)
    \/ \E from \in Positions, elem \in Elems : StartPutInFront(from, elem)
    \/ StartDrain
    \/ Serialize \/ Deserialize
    \/ Continue

Spec == Init /\ [][Next]_vars
-------------------------------------------------------------------------------
TypeOK ==
    /\ cells \in [Positions ->
                    [quot : Quotients \cup {0},
                     val  : Values \cup {empty_value, Uninitialized}]]
    /\ call = Idle \/ drain = Idle

(* Every position holds a value at every time, other than the one a call   *)
(* is about to construct: no value is moved from, compared with or         *)
(* destroyed after its destruction, and none is constructed over another.  *)
OnlyNewIsUninitialized ==
    {pos \in Positions : cells[pos].val = Uninitialized}
       = IF call.op = "construct" THEN {call.location} ELSE {}

(* sparse_shift: "Shifts all elements one to the right".  When the new     *)
(* element is about to be constructed, every other one of its run is one   *)
(* position further than it was before the call.                           *)
ShiftsOneToTheRight ==
    (call.op = "construct" /\ call.before[call.location] # EMPTY) =>
       LET to == Min({k \in Positions :
                        call.before[mod_add(TableSize, call.location, k)] = EMPTY})
       IN  \A k \in 1..to :
              cells[mod_add(TableSize, call.location, k)]
                 = call.before[mod_add(TableSize, call.location, k - 1)]

A == INSTANCE SlotArray WITH
       slot    <- IF call = Idle THEN Contents ELSE call.before,
       drained <- IF drain = Idle THEN {-1} ELSE drain.visited

(* The cells are an array of positions: free ones are those with the       *)
(* sentinel, and values and quotients move together.                       *)
RefinesSlotArray == A!Spec
==============================================================================
