# compact_sparse_hash: models, checks and proofs

This directory keeps the formal model of the compact sparse hash tables in
`src/include/tudocomp/util/compact_hash/` (abbreviated `CH/` below): TLA+
modules translated from the C++ headers, the TLC configurations that check them,
and theorems about them with proofs for TLAPS.  `PROJECT.json` maps every
definition to the lines it models.

Run from this directory: `tlc -config MCDisplacement.cfg MCDisplacement` (and
the other `.cfg` files: `PROJECT.json` names the module of each), and `tlapm` with
`SizeManagerProofs.tla`, `DisplacementProofs.tla`, `CvTableProofs.tla`,
`DisplacementTableProofs.tla`, `HashSetProofs.tla`, `HashMapProofs.tla`,
`PlainStorageProofs.tla` and `BucketStorageProofs.tla` (`CvTableProofs` and the
last four take some minutes each).

## 1. The system

A table stores integer keys in little more than the information-theoretic
minimum.  A key of `real_width` bits is hashed with a **bijection** on that many
bits; the hash value is split into an **initial address** (the low bits, as many
as the table has address bits) and a **quotient** (the rest).  Only the quotient
is stored, near the initial address; the **placement** keeps enough to recover
the initial address, so that the key can be composed again.  Everything is
single-threaded; what makes the code hard is that many keys share a few bits of
bookkeeping, that elements move when others arrive, that positions wrap around
the end of the table, and that the whole table is rebuilt, with user callbacks in
the middle, whenever the capacity or a width grows.

| component | source | state | operations | status |
|---|---|---|---|---|
| size manager | `size_manager_t.hpp`, `util.hpp` | log2 of the capacity, element count, load factor | growth trigger, grown capacity, decompose/compose, modular positions, `write`/`read` | modelled |
| hash functions | `hash_functions.hpp` | width, shift, mask | `hash`, `hash_inv` | partly: the widths TLC can compute |
| displacement placement | `index_structure/displacement_t.hpp`, `naive_displacement_table_t.hpp` | displacement per position | `search`, `lookup_insert`, `lookup_id`, `for_all_allocated`/`drain_all` | modelled |
| cv placement | `index_structure/cv_bvs_t.hpp` | a v and a c bit per position | the same, with groups that shift | modelled |
| hash set | `set/hashset_t.hpp` | size manager, key width, storage, placement, hash function | `lookup`, `lookup_insert`, `lookup_insert_key_width`, `grow_key_width`, `max_load_factor`, `move_into`, `swap`, `write`/`read` | modelled |
| bucket storage | `storage/buckets_bv_t.hpp`, `bucket_t.hpp`, `sparse_pos_t.hpp` | per 64 positions a bitmap and a reallocated block | `allocate_pos`, `at`, iterators, `trim_storage`, `destroy_vals`, `write`/`read` | modelled, with the life cycle of the elements |
| plain storage | `storage/plain_sentinel_t.hpp`, `map/val_quot_*` | array of values, sentinel = free | the same interface | modelled, with the life cycle of values |
| layered displacement table | `layered_displacement_table_t.hpp` | small fields and a spill map | `get`, `set`, `write`/`read` | modelled |
| Elias-gamma displacement table | `elias_gamma_displacement_table_t.hpp` | per bucket a string of variable-length codes, a read cursor | `get`, `set`, `write`/`read` | modelled |
| hash map | `map/hashmap_t.hpp` | as the set, and a value width and owned values | `insert_kv_width`, `access_kv_width`, `grow_kv_width`, `max_load_factor`, `search`, `move_into`, move assignment (and `std::swap` by it), destructor, `write`/`read` | modelled |
| entry pointers | `entry_t.hpp`, `map/val_quot_*`, `storage/*bucket*` layouts | pointers into an allocation | move, initialise, swap, destroy an element | partly: the operations, not the layout |
| serialization | `serialization.hpp` and the `serialize<>` of every class | – | `write`, `read`, `equal_check` | partly: see section 5 |
| memory statistics | `heap_size.hpp`, `object_size_t.hpp` | – | sums of sizes | not modelled: no state, pure arithmetic |
| bit-packed vectors | `bit_span` (empty submodule) | – | array of bounded integers | external |

Interactions are calls: the set asks the size manager whether it must grow,
rebuilds itself through a second table if so, hashes and decomposes the key, and
hands `(initial_address, stored_quotient)` to the placement, which reads and
writes positions of the storage.  The callbacks `on_resize` and `on_reinsert` run
in the middle of a rebuild.  A table writes itself into a stream member by member,
each of which writes its own members; the reader learns the sizes of the blocks
from members it has read before.

What makes each component correct:

* **size manager** – a position always stays free (every probe loop ends on it);
  decompose and compose are inverse; positions wrap correctly.
* **hash functions** – bijective on their width, for every width.
* **placements** – a key is found exactly if it was inserted, under the id it
  was given, however the other elements move; ids are unique; the walk of a
  rebuild reports every element once, under the right address.
* **hash set** – a set of keys, whatever the growths; a user who follows the
  callbacks knows every id; a rebuild never needs a rebuild and always ends.
* **hash map** – a map from keys to values, whatever the growths, also when the
  elements of another map arrive; values never lose bits to a width.
* **storages** – a position reads back what was written to it; values
  are constructed and destroyed exactly once; draining frees nothing still to be
  visited.
* **displacement tables** – arrays of numbers, whatever their encoding.
* **serialization** – what is read is what was written: nothing in the stream
  says what it is, so that writer and reader must agree on order, type and size.

The hazards, each with its line and the properties that watch it, are listed
under "hazards" in `PROJECT.json`.

## 2. The modules

```
Placement  <--implements-- Displacement    (MCDisplacement, DisplacementProofs)
           <--implements-- CvTable         (MCCvTable, CvTableProofs)
           <--assumed by-- HashSet --implements--> KeySet   (MCHashSet, HashSetProofs)
                           HashMap --implements--> KeyMaps  (MCHashMap, HashMapProofs)
SlotArray  <--implements-- BucketStorage   (BucketStorageProofs)
           <--implements-- PlainStorage    (PlainStorageProofs)
DisplacementArray <--implements-- EliasGamma           (DisplacementTableProofs)
                  <--implements-- LayeredDisplacement  (DisplacementTableProofs)
DisplacementTable (what these three share)
SizeManager   (used by all, SizeManagerProofs)
HashFunctions, Arithmetic   (MCHashSet)
Serialization (the sets, maps, storages and displacement tables)
PartialFunctions (HashSet, HashMap, KeyMaps)
```

The code composes its parts by template parameters; the models compose them by
these abstract specifications.  `Displacement` and `CvTable` keep their elements
in a function from positions, which is `SlotArray`, and `Displacement` its
displacements in one, which is `DisplacementArray` and the code's own
`naive_displacement_table_t`.

* **SizeManager** – the pure operators of `size_manager_t`, with the capacity
  and the load factor as parameters.  Load factors are fractions with a power
  of two as denominator, for which the `float` product of the code is exact.
  `write_sizing` and `read_sizing` are its part of a table's stream.  Powers of
  two are the recursive function `pow2`, since the provers know nothing of `^`;
  `grown_capacity` is the least of the doubled capacities that suffice, which the
  loop of the set and of the map reaches.
* **PartialFunctions** – `Put(f, x, y)`, the function with one argument mapped
  anew (the provers do not expand `@@` of the module TLC).
* **Serialization** – a stream is a sequence of items, each with its type and
  sizes; reading with another type or size yields `Garbage`.  A module that
  serializes defines what it writes (`written`) and how it reads it (`read`), so
  that order, types and sizes of both sides are compared and nothing else is.
* **HashFunctions** – `xorshift_t` and poplar's `Xorshift` with the rows 1–15 of
  `PRIME_TABLE`.
* **Placement** – the abstract specification of a placement, from the promises
  of `entry_t.hpp` and `hashset_t::lookup_insert`: a partial function from
  decomposed keys to unique ids that never changes for a stored key.
* **Displacement** – `displacement_t`: `slot` is the storage (the bucket bitmap
  and the quotients), `displace` is `m_displace`.  The probe loop is "the first
  position in probe order where an exit condition holds" (`Cursor`);
  `lookup_insert` is one action, as in the code, with its two outcomes.
* **CvTable** – `cv_bvs_t`: `slot`, and the `v` and `c` bits of `m_cv`.
  `search_existing_group` counts v bits forward and c bits back as the code
  does, on the new v bits when a group is created (`InsertNewGroup`).  The shift
  is translated in its three shapes: not wrapping, wrapping onto a free first
  position, and wrapping in two parts whose front elements are swapped.
* **SlotArray** – what the placements expect of their storage: an array of
  positions, with the insertion in front of a row of elements that move on, and
  a drain that hands every element out once and may forget it afterwards.
* **BucketStorage** – `buckets_bv_t`, `bucket_t` and `sparse_pos_t`: per bucket
  a bit vector (a set of bit numbers) and a block (a sequence without gaps), the
  element of a position found by rank.  A place of a block holds an element, is
  `Moved` (moved from, still to be destroyed or assigned to) or `Raw` (memory
  without an element).  The replacement of a block (`insert_at`, with its moves
  from the old block into the new one) is a single step, `allocate_pos`: the model
  shows the block it leaves, not the two half-moved blocks inside of the call.
  `Put` is `allocate_pos`, whose location the caller
  initialises in `Construct`; `StartPutInFront`, `MoveOne`, `StartSecondPart`
  and `FinishPutInFront` are `shift_elements_and_insert` with one action per turn
  of `sparse_shift`'s loop, so that the two iterators can be watched;
  `StartDrain`, `SkipEmpty`, `Visit` and `EndDrain` are `drain_all` with one
  action per call of its callback, including `trim_storage`.  `Serialize` and
  `Deserialize` write the buckets into a stream and replace the table by what is
  read from it.  `call.before` is a history variable for the refinement, and
  `call.part` the range that `sparse_shift` is at.
* **PlainStorage** – `plain_sentinel_t` below an insertion into a map: a cell has
  a quotient and a value, which is the sentinel in a free position and
  `Uninitialized` after a destruction.  The actions are those of
  `BucketStorage`, without buckets.  `KeepsValue` says what is left where a value
  was moved from: the value, as with integers, or the sentinel, as with a string
  and the default sentinel.
* **DisplacementArray** – what a displacement placement expects of its table:
  `get` and `set` on an array, and a table read back from its stream holds what
  was written.  `done` is the last call and its result.
* **DisplacementTable** – the positions, the displacements that are written, and
  `done`, which the abstract array and both tables have in common.
* **LayeredDisplacement** – `layered_displacement_table_t`: fields up to `max` and
  a map for what does not fit; `get` inserts a default into the map if an entry
  is missing, as `operator[]` does.  `ReadBack` writes the map in any order of
  iteration, outdated entries included.  Its names carry a prefix, so that the
  module with the proofs can extend both tables.
* **EliasGamma** – `elias_gamma_displacement_table_t` and its buckets, down to
  the bits: `m_data` is the bits of a bucket's words, of which `m_bits` are in
  use.  How many binary digits a code has is `log2_upper` of `SizeManager`.  A call
  starts with `get` or `set`, which go to the bucket; `SeekBack` and `SeekOn` move
  the cursor, one code a step; `FinishGet` reads; `ReadExisting`,
  then `FoundEqual` or `Rewrite`, then `FinishSet` change a code in place, with
  the shift of the bits behind it in either direction and the reallocation.  The
  cursor lives on from call to call.  `ReadBack` gives the read table as many
  buckets as one of the default size (`DefaultBucketSize`) has, as `read` does,
  and as many as the written bucket size asks for are read; what has no place is
  `Lost`.
* **HashMap** – `hashmap_t`, several of them.  A table is a record of capacity,
  size, both widths, its partial function, the state of its storage and
  `m_is_empty`.  An insertion with the rebuild inside of it is one action, since
  no callback interrupts it; `move_into` is `StartMove`, one `MoveOne` per
  element, each of which may rebuild the target, and `EndMove`.  `MoveAssign`,
  `Swap` (three moves, as `std::swap` does it), `Renew` (destructor and
  constructor) and `ReadBack` (a table read from another's stream and assigned)
  replace whole tables.  Decomposing and composing keys is left to `HashSet`.
  `destroyed` is what the last `destroy_vals` went over.
* **KeyMaps** – the abstract maps.
* **HashSet** – `hashset_t` over an abstract placement.  A table is a record of
  capacity, size, load factor, key width, the width its hash function was
  constructed with and the placement's partial function.  `StartRebuild` is
  `grow_if_needed` up to and including `on_resize`; `MoveElement` is one turn of
  `drain_all`'s loop in `move_into` including its `on_reinsert`; `FinishRebuild`
  is the move assignment and the rest of the interrupted call.  These are
  separate actions because user code runs between them.  The user's `move_into`
  goes through the same actions into a table of his own choice, with which he
  then swaps.  `ReadBack` writes the table and reads it.  `mirror` is the user's
  own map from keys to ids, kept up from callbacks and returned entries only,
  as `shadow_sets_t` of the tests does.
* **KeySet** – the abstract set.
* **Arithmetic** – the arithmetic compared with its reference definitions
  (masks, inverses), for all values of all widths up to 11, as assumptions that
  TLC evaluates when it starts the run `hash_set`.

Each module has a section of *mistakes*: variants of its definitions that a
plausible bug would produce.  No specification uses them; with one in place of
the original, TLC finds the property that `PROJECT.json` lists violated, which
shows that the property depends on the code.

## 3. The runs

| run | shows | bounds |
|---|---|---|
| `displacement` | type, `Placed` (no free position inside a chain, no duplicate, one free position), search, walk, implements `Placement` | 8 positions; addresses 0, 1, 6, 7; two quotients, so 8 keys; filled up to 7 entries, the most the code allows at this capacity |
| `cv_table` | type, `BitsPairUp` (v and c bits of every run pair up), search and `lookup_id`, walk, implements `Placement` | 8 positions; addresses 0, 6, 7; three quotients (symmetric), so 9 keys; up to 6 entries |
| `bucket_storage` | bit vectors match blocks, the shift's iterators stay in step and in range, only the location of a new element is ever raw and every other place is constructed, drained buckets are freed, every call ends, implements `SlotArray` through drains and streams | 8 positions in two buckets of 4 (64 in the code), two different elements, up to 7 of them; every content, every shift and every drain |
| `plain_storage` | only the location of a new element is ever without a value, a shift takes every element of its run one position further, implements `SlotArray` through drains and streams | 8 positions, two quotients, two values, up to 4 elements; values keep their value when moved from |
| `elias_gamma` | the cursor agrees with the bits (`Consistent`), every call ends, implements `DisplacementArray` | 4 positions in buckets of 3, values 0–3 (codes of 1, 3 and 5 bits), words of 4 bits (64 in the code): every content, cursor, call and stream; the default bucket size is 2, not larger than the configured one |
| `layered_displacement` | a field at `max` has an entry in the map, implements `DisplacementArray`, also when read back with the map in another order | 3 positions, `max` 3, values 0–5 |
| `hash_map` | sizes count, widths hold all keys and values, the rebuilds in the middle of a `move_into` never go beyond the capacity that both tables need (`NeverGrowsBeyondNeed`), implements `KeyMaps` | two tables (interchangeable: symmetry), three keys of one and two bits, a two-bit value and the default one, value widths 1 and 2, capacities 2 and 4 filled up to the last free position, load factors 1/2 and 1 |
| `hash_set` | mirror, lookup, sizes, each key moved once, the new table of a rebuild never has to grow itself (`FitsWithoutGrowing`), what is read is what was written, rebuild ends, implements `KeySet` | initial sizes 0 and 4, widths 1–3, load factors 1/2 and 1, capacities 2–8, all 8 keys of 3 bits, poplar's hash, cv ids; the arithmetic of all widths up to 11 |

Why these bounds are enough to be interesting.  In the first two runs chains
start on both sides of the table's end, meet, wrap and displace each other;
every insertion case and all three shapes of the shift occur, and the table of
the first run is filled until one position is free.  The cv run stops at 6 of
the 7 possible entries to keep it short; groups of up to three elements are
pushed by, and push, their neighbours.  In the set run a table grows from 2 to 8
positions and from 1-bit to 3-bit keys in every order, at the trigger where no
position would be left, the load factor changes between any two calls, and the
user's own targets are smaller, larger, narrower and wider than their source.

The storage runs contain shift ranges in one part and in two, over bucket
borders, and drains that start anywhere.  In the Elias-gamma run every code can
be replaced by a shorter and a longer one at every place of a bucket, codes
cross word borders, blocks grow and shrink, and the last bucket is shorter than
the others.  In the map run the target of a `move_into` is rebuilt in the middle
of the move, of tables that share keys and of tables that do not.  That the user
widens the target first (`EnsuresWidths`) is an assumption of this run, without
which keys and values do not survive; what the code does without it is the
subject of `move_into_widths`.  `NeverGrowsBeyondNeed` is the other half of what
`move_into` says of its target: a capacity that is large enough beforehand
prevents a rebuild.  Large enough is one element more than both tables hold
together if they share a key, because `insert` makes room before it finds the key
there.

Four runs show that the code does not do what a comment or a test says; the
findings in `PROJECT.json` quote the lines.

| run | finding |
|---|---|
| `moved_from_sentinel` | with values that equal the sentinel once they were moved from, the iterators of `sparse_shift` skip positions and elements are lost; the run `plain_storage` checks the same property, which holds there, with values that keep their value |
| `move_into_widths` | `move_into` grows the target's capacity, not its widths, so a wider key fails the check in `decompose_key` |
| `assign_moved_from` | move assignment to a moved-from map with plain storage runs the destructors over a null allocation; bucket storage stops there, and so does the destructor; `std::swap` of two maps gets there |
| `read_back_buckets` | with buckets smaller than the default, an Elias-gamma table is read back into an array with fewer buckets than are read: the first four displacements in buckets of three, where the default is four |

`CHECK_DEADLOCK FALSE` appears where the model really stops: the placements at
the bound of entries (a caller that wants more rebuilds into a larger table).

**Fairness.**  `HashSet` assumes `WF_vars(Rebuild)`, `BucketStorage`
`WF_vars(Continue)` and `EliasGamma` `WF_vars(Step)`.  The code is one thread,
and a rebuild, a shift, a drain and the walk of a cursor are the inside of a call
that the user waits for; their loops run on their own until the call returns.  No
fairness is assumed for the user's calls: he may insert or not, and may never
read the stream he wrote, so that `CallsEnd` of `BucketStorage` is about
insertions and drains.

## 4. The proofs

`SizeManagerProofs`: `mod_sub` undoes `mod_add` and the reverse (`ModAddSub`,
`ModSubAdd`); a table that need not grow for n elements has a free position
(`NoGrowthLeavesRoom`), the loop that doubles the capacity ends at the first
capacity that need not grow (`GrownCapacitySuffices`), and growing in several
steps ends no higher than growing once (`GrownInStepsNoFurther`), for every
capacity and load factor; the logarithm the code keeps stands for its capacity
(`CapacityFromLog2`), and a sizing is read from a stream as it was written
(`SizingReadsBack`); address and quotient of a hash value compose to it again
(`DecomposeIsLossless`), and no two pairs stand for the same value
(`ComposeIsInjective`), for every capacity.  The facts about powers of two that
all of this needs (`PowersDouble`, `PowerOfSum`, `PowerMonotonic`) are proved by
taking a least counterexample, an induction that the provers can follow.

`DisplacementProofs`, for every capacity, set of addresses, set of quotients and
bound, from the assumptions named in `Displacement`:

* `TypeCorrect`: `Spec => []TypeOK`
* `PlacedAlways`: `Spec => []Placed`
* `SearchCorrect`: `Spec => []SearchFindsEntries`
* `WalkIsComplete`: `Spec => []WalkVisitsEntriesOnce`
* `ImplementsPlacement`: `Spec => RefinesPlacement`

The inductive invariant is `TypeOK /\ Placed`, and `Placed` needs all its three
parts.  `FreePosition` makes the probe end (`ProbeEnds`).  `NoHole` says that the
positions between an element and its address are occupied; with it a probe for a
stored key cannot stop early at a free position (`StoredKeyIsFound`), and so a
probe that does stop at a free position proves the key absent, which keeps
`NoDuplicate`.  `NoHole` is itself preserved because a probe that inserts has
passed only occupied positions.  `SearchFindsEntries` follows in every state of
the invariant, and for the refinement the insertion step extends `Entries` by one
unused position while the other step leaves it alone (`NewStep`, `ExistStep`).

`CvTableProofs`, for every capacity, set of addresses, set of quotients and
bound, from the assumptions named in `CvTable`: `TypeCorrect`,
`BitsAlwaysPairUp` (`Spec => []BitsPairUp`), `SearchCorrect` (`Spec =>
[]SearchFindsEntries`), `WalkIsComplete` (`Spec => []WalkVisitsEntriesOnce`) and
`ImplementsPlacement` (`Spec => RefinesPlacement`).
The table does not keep the address of an element anywhere; the inductive
invariant `IInv` says that there is a function `home` from positions to addresses
which the bits encode.  Seen from any free position, where the table is a line
(`Place`), all is occupied between an element and its address (`Reaches`), the
addresses grow with the positions (`Ordered`), a c bit stands exactly where the
address changes (`Starts`), every v bit has an element (`Addressed`), and no
address has a quotient twice (`Distinct`).  The pairing of the bits is not
inductive: it does not say that a key is stored once, nor in which group a new
key belongs.  The argument has five parts.

* *Insertion.*  If a gap opens at a position where the addresses stay in order
  and all up to the next free position moves on by one, the bits encode the new
  `home` again (`InsertGrouped`).  The three shapes of the shift are all this one
  move, around the end of the table too (`ShiftIs`, `MovesIs`), and so are the
  three cases of `lookup_insert` (`AtAddressStep`, `InGroupStep`,
  `NewGroupStep`).
* *Search.*  From an address up to the free position behind it there are as many v
  bits as c bits from groups of these addresses (`CountsAgree`), by a bijection
  between addresses and the first positions of their groups, so that the walk
  back ends at the boundary of the group (`Boundary`, `GroupFound`).  This is
  also what finds the place of a group that does not exist yet, after its v bit
  is set.
* *Pairing.*  The same bijection inside a run gives `BitsPairUp`, and that the
  address which `HomeOf` reads off the bits is `home` (`HomeIs`); there is only one
  such function.
* *Walk.*  From one element to the next the address stays, or moves on to the next
  v bit, because there is none between the addresses of neighbours (`WalkStep`);
  the recursion of the walk is therefore solved by `home` (`WalkAddresses`).
* *Refinement.*  The id of an element is its address and its distance from the
  start of its group.  Elements are added behind a group, and groups move as a
  whole, so that no distance changes (`LocalsKept`); two elements with the same
  address and distance are one (`LocalsDiffer`).

`DisplacementTableProofs` is about both displacement tables.  Of the layered one,
for every table size, `max` and set of values: `LayeredTypeCorrect`,
`SpillIsThere` (`LayeredSpec => []FieldsPointToSpill`) and
`LayeredImplementsArray`.  The invariant is `LayeredTypeOK /\
FieldsPointToSpill`: the map may hold outdated entries for fields below `max`,
but a field at `max` always has its own, so that `get` never inserts a default
and reads what the last `set` wrote.  A table read back has the same fields and
the same map: the items of the pairs, wherever the order of iteration put them,
rebuild the function they were taken from (`LayeredStreamItems`,
`LayeredReadBackChangesNothing`).

Of the Elias-gamma table, for every table size, bucket size, word size and set of
values: `EliasGammaTypeCorrect`, `EliasGammaConsistent`,
`EliasGammaImplementsArray` and `EliasGammaStreamKeepsArray` (`BucketsFit /\ Spec
=> ReadsBackEqual`).  They have the hypothesis `BucketsFit`: the default
configuration has no fewer buckets than the table, so that it is read back into
buckets that are there.  Without it a table loses displacements when it is read
back, as the run `read_back_buckets` shows; a table that is never read back could
do without it, but the specification has that step.  `Consistent` is not
inductive: it speaks of where codes end and not of what is in them, and a set
could leave any bits behind it.  The invariant `IInv` says that the bits in use
of every bucket are a string (`IsString`): there are displacements and places
where their codes start, one behind the other from the first bit to the last.
The cursor is at one of these places, and what a running call has found out is
true of the code there (`CallInStep`).  The argument has four parts.

* *Codes.*  The digits of a number follow from halving it (`HalvedTwice`); the
  zeros in front of it end where they should (`ZerosOfCode`), and reading its
  digits gives it back (`ValueOfCode`).  `number` is a recursive function: its
  solution is exhibited, and a least argument at which the two differ is
  impossible.  So every code of a string is read as it was written
  (`CodesOfString`), and scanning k codes gets to the k-th start
  (`BitsBeforeCode`).
* *Bits.*  Copying bit by bit in the right direction moves any number of bits by
  any distance, however the ranges overlap (`ShiftMoves`); reallocating keeps
  what has words before and after (`ReallocKeeps`); shifting before the words are
  given back, or after there are more, moves the bits behind a code to its new
  end (`MovedBits`, `WrittenBits`).
* *Rewriting.*  The string of a bucket in which one code was rewritten is the
  string of the same displacements but for that one (`StringRewritten`), with the
  starts in front of it, and so the cursor, where they were.
* *Array.*  The displacement of a position is what its bucket's string says
  (`DisplaceOfString`); a bucket and an offset stand for one position
  (`PositionAt`, `PositionOf`, the last and shorter bucket included).  `FinishGet`
  is the array's `get`, `FoundEqual` and `Rewrite` its `set`, and the steps of
  the cursor change nothing.

`HashSetProofs`, for all initial sizes and widths, load factors and bounds, for
every hash that is a bijection on each width (`HashAssumption`, which the run
evaluates for the hash it uses) and for every way in which a placement chooses
its ids: all safety properties of the run `hash_set` (`TypeCorrect`,
`MirrorIsExact`, `LookupIsExact`, `SizeIsExact`, `MovesOnce`,
`FillsWithoutGrowing`, `StreamsAreLossless`) and `IsKeySet` (`Spec =>
RefinesKeySet`).  None of them is inductive.  The invariant `IInv` says of each
table that it is `Sound`: every entry is what some key of the table's width
decomposes to under the table's own hash width.  With that, `compose_key` gives a
key back, of which the new table's `decompose_key` makes an entry that no other
key has (`ComposeDecomposed`), so that a rebuild loses and merges nothing while
the elements are in two tables with different parameters.  Of a rebuild `IInv`
says that no key is in both tables, that the mirror is the new one's, and
`FitsWithoutGrowing`: size and what is left to move together need no growth.
This is what ties the capacity chosen before the walk to the last insertion of
it, and why the guard of `MoveElement` never holds the walk up
(`RoomForTheNext`).

`HashMapProofs`, for any number of tables: `TypeCorrect` (every key and value
fits the widths of the table that holds it), `SizeIsExact`, and, if the user
widens the targets of his calls of `move_into` (`EnsuresWidths`), `IsKeyMaps`
(`Spec => RefinesKeyMaps`); without that hypothesis it is false, since values are
cut to the width of the target, and a wider key does not even get there (run
`move_into_widths`).  `MovesGrowNoFurther` (`Spec => NeverGrowsBeyondNeed`) needs
no such hypothesis: the number of keys that the target is to hold in the end does
not change while they move, a shared key only ceases to be one
(`CountToHoldShrinks`), and growing in steps goes no further than growing once
(`GrownInStepsNoFurther` of `SizeManagerProofs`).  `IInv` excepts
from counting what is drained or being drained, and says of a move that both
tables are owned, that the widths of the target are not smaller, and that within
the model's bound there is a capacity with room for all that is to come
(`RoomFor`), which every insertion of the move keeps true.

`PlainStorageProofs`, for every table size, all quotients and values:
`TypeCorrect` and `LifeCycle` (`Spec => []OnlyNewIsUninitialized`), whether or not
a value survives being moved from, and, for values that do (`KeepsValue`),
`ShiftsRuns` and `IsSlotArray` (`Spec => RefinesSlotArray`); for the others these
two are false (run `moved_from_sentinel`).  `IInv` is a loop invariant of
`sparse_shift`: positions the iterators have passed hold what was in front of
them before the call, the others what they held, in either part of a run that
wraps around (`Shifted`).  For values that become the sentinel it still says that
source and destination iterator stay inside the run and what they point at, which
is all that the life cycle needs: elements are lost there, but no value is used
after its destruction.  While an element waits for its construction `IInv`
compares the cells with the array before the call (`PutAtFree`, `PutAtRow`); of a
stream it says that some array was written into it (`ReadInv`); and of a drain
that what was visited is what lies between its start and its position in walking
order (`Steps`).  That two positions are free before every insertion, one for the
new element and one to stop at, follows from the bound `MaxEntries`, which stands
for the caller's check of the load factor.

`BucketStorageProofs`, for every table size, every number of positions per bucket
and all elements: `TypeCorrect`, `IteratorsStayInStep` (`Spec =>
[]IteratorsInStep`), `LifeCycle` (`Spec => []OnlyNewIsRaw`), `FreesEagerly` (`Spec
=> []EagerlyFreed`) and `IsSlotArray` (`Spec => RefinesSlotArray`).  Where an
element is follows from all the bits of its bucket, so that the proof has two
halves.

* *Blocks.*  `WellFormed` says that a block is as long as its bit vector has bits,
  and that every bit belongs to a position.  Then no two positions have the same
  pointer (`OffsetsDiffer`), and the operations on pointers are operations on the
  array of positions: writing through a pointer changes one position (`Writes`,
  `MovesFrom`, `Swaps`), a new block with one more element changes one position and
  moves every pointer behind it (`AllocateIs`), freed buckets change their own
  positions (`FreedIs`), decrementing the iterator of the position after an element
  leads to that element, over empty buckets too (`DecrementIs`), and buckets are
  read from a stream as they were written (`ReadsBack`).
* *Calls.*  `IInv` is, with `Cells` for that array, the loop invariant of
  `sparse_shift` (`Shifted`, `Reading`), the state between the allocation of a
  position and its construction (`PutAtFree`, `PutAtRow`), what a stream stands for
  (`ReadInv`), and what lies in front of and behind the walk of a drain
  (`DrainInv`).  `TrimInv` says where `trim_storage` stands: `drain_start` is in the
  bucket of the last element handed out, and is its first element unless the drain
  began inside that bucket.  It follows that only buckets the walk has left are
  freed (`TrimmedIs`), in a table that is walked from any position around its end:
  no element is freed before it is handed out, and the pointer that the callback is
  given is not into a freed block.

The assumptions are those the modules name.  `EmptyValueAssumption` keeps the
sentinel out of the user's values (section 5); the others are ranges of
constants, and the code's checks of its arguments.  `MaxCapacity` and
`MaxKeyWidth` bound the models, and the theorems hold for every value of them.

Only model-checked: the hash functions (bit operators), and liveness
(`RebuildEnds`, `CallsEnd`), which is beyond TLAPS.  That
`DisplacementProofs` and `HashSetProofs` meet at `Placement` is by construction:
`HashSet` uses of a placement only what `Placement` promises.

## 5. Not modelled

Abstracted everywhere: the bits of quotients and values and their packing,
allocation, and the pointer part of `entry_t`.  The narrowing of widths to
`uint8_t` is left out (widths are at most 64), and so are integers wider than 32
bits, with them the rows of `PRIME_TABLE` for words of more than 15 bits.

With plain storage the user is assumed not to store the sentinel.  This is a
real restriction: the default sentinel is the default value, which `access`
itself constructs for a new key, so a caller has to assign at once.  What a
placement does with an element that became free behind its back depends on
every bit of the placement and means nothing any more.  A table that `move_into`
drained, or that was moved from, can in the models only be assigned to or
destroyed: the code gives any other call no meaning.

Left out of the serialization: `cv_bvs_t`, which copies the words of one vector
whose size both sides compute from the same capacity; `displacement_t`, which
delegates to its table (`naive_displacement_table_t` has no serialization); the
members of a hash function, which are its width and what follows from it (the
set reads its hash function as one item); the byte counts that `write` and
`read` return; and values that own memory, which a stream of words cannot carry
and which the code does not refuse.

Memory statistics have no state.  The bit-packed vectors are a submodule that is
not part of the repository.
