------------------------------ MODULE EliasGamma ------------------------------
(***************************************************************************)
(* elias_gamma_displacement_table_t: the displacements of a bucket are one *)
(* string of variable-length codes.  A read scans from the table's cursor, *)
(* which remembers where the last call stopped; a write whose code has     *)
(* another length moves all bits behind it, in place, before or after the  *)
(* words are reallocated.                                                  *)
(*                                                                         *)
(* A call is a sequence of steps: it goes to the bucket, scans code by     *)
(* code to the offset, and then reads, or reads, rewrites and reads again. *)
(* The bits of a bucket are a function on 0..(words * WordBits - 1), the   *)
(* words with the unused bits at their end.  Between calls the table can   *)
(* be written into a stream and read back.                                 *)
(***************************************************************************)
EXTENDS DisplacementTable, SizeManager, FiniteSets

CONSTANTS
    BucketSize,         \* m_bucket_size_cache
    DefaultBucketSize,  \* the bucket size of a table made without a configuration
    WordBits            \* bits of a word (64 in the code)

ASSUME BucketSizeAssumption == BucketSize \in Nat \ {0}
ASSUME DefaultBucketSizeAssumption == DefaultBucketSize \in Nat \ {0}
ASSUME WordBitsAssumption == WordBits \in Nat \ {0}

VARIABLES
    m_data,           \* bucket -> the bits of its words
    m_bits,           \* bucket -> the number of bits in use
    m_bucket_cursor,  \* the bucket the last call went to,
    m_elem_cursor,    \* the codes of it that have been read,
    m_bit_cursor,     \* and the bits they take
    call              \* the call that runs, or Idle

cursor == <<m_bucket_cursor, m_elem_cursor, m_bit_cursor>>
vars == <<m_data, m_bits, cursor, call, done>>

(* calc_buckets: the last bucket has the remainder.                        *)
calc_buckets(bucket_size) == 0..((TableSize - 1) \div bucket_size)

Buckets == calc_buckets(BucketSize)

SizeOf(bucket) ==
    IF (bucket + 1) * BucketSize <= TableSize
    THEN BucketSize ELSE TableSize % BucketSize

bits2alloc(bits) == (bits + WordBits - 1) \div WordBits

Idle == << >>
-------------------------------------------------------------------------------
(* The code of v: as many zeros as v + 1 has binary digits after its first *)
(* one, then v + 1.                                                        *)
Digits(v) == log2_upper(v + 1)

encoded_bit_size(v) == 2 * Digits(v) + 1

CodeBit(v, i) ==
    IF i < Digits(v) THEN 0 ELSE ((v + 1) \div pow2[2 * Digits(v) - i]) % 2

(* Past the last word there is nothing to read; that no read gets there is *)
(* what CodesFillBucket says.                                              *)
read_bit(data, i) == IF i \in DOMAIN data THEN data[i] ELSE 1

(* The zeros before the next one.                                          *)
Zeros(data, bit) ==
    CHOOSE n \in 0..Cardinality(DOMAIN data) :
       read_bit(data, bit + n) = 1 /\ \A i \in 0..(n - 1) : read_bit(data, bit + i) = 0

CodeLength(data, bit) == 2 * Zeros(data, bit) + 1

(* The number after the zeros, less one.                                   *)
Value(data, bit) ==
    LET n == Zeros(data, bit)
        number[i \in 0..n] ==
            IF i = 0 THEN 1 ELSE 2 * number[i - 1] + read_bit(data, bit + n + i)
    IN number[n] - 1

(* The bits before the k-th code.                                          *)
BitsBefore(data, k) ==
    LET next == [bit \in Nat |-> bit + CodeLength(data, bit)]
        before[i \in 0..k] == IF i = 0 THEN 0 ELSE next[before[i - 1]]
    IN before[k]

Written(data, bit, v) ==
    [i \in DOMAIN data |->
       IF i \in bit..(bit + encoded_bit_size(v) - 1)
       THEN CodeBit(v, i - bit) ELSE data[i]]
-------------------------------------------------------------------------------
(* realloc_bits: other words only if another number of them is needed.     *)
realloc_bits(data, old_bits, bits) ==
    IF bits2alloc(bits) = bits2alloc(old_bits) THEN data
    ELSE [i \in 0..(bits2alloc(bits) * WordBits - 1) |->
            IF i \in DOMAIN data THEN data[i] ELSE 0]

(* Copying bit by bit to the right of where the bits are, a bit that was   *)
(* copied too early comes again and again; the same to the left.           *)
CopiedFromFirst(data, from, to, size) ==
    [i \in DOMAIN data |->
       IF i \notin to..(to + size - 1) THEN data[i]
       ELSE data[from + IF to > from THEN (i - to) % (to - from) ELSE i - to]]

CopiedFromLast(data, from, to, size) ==
    LET last == to + size - 1 IN
    [i \in DOMAIN data |->
       IF i \notin to..last THEN data[i]
       ELSE data[from + size - 1 -
                 IF to < from THEN (last - i) % (from - to) ELSE last - i]]

(* A mistake for shift_bits: one direction for both.                       *)
shift_bits_from_first(data, from, to, size) ==
    IF to # from THEN CopiedFromFirst(data, from, to, size) ELSE data

shift_bits(data, from, to, size) ==
    IF to < from THEN CopiedFromFirst(data, from, to, size)
    ELSE IF to > from THEN CopiedFromLast(data, from, to, size)
    ELSE data
-------------------------------------------------------------------------------
Init ==
    /\ m_bits = [bucket \in Buckets |-> encoded_bit_size(0) * SizeOf(bucket)]
    /\ m_data = [bucket \in Buckets |->
                   [i \in 0..(bits2alloc(m_bits[bucket]) * WordBits - 1) |->
                      IF i < m_bits[bucket] THEN CodeBit(0, 0) ELSE 0]]
    /\ m_bucket_cursor = 0 /\ m_elem_cursor = 0 /\ m_bit_cursor = 0
    /\ call = Idle
    /\ done = Nothing

(* A mistake for GoToBucket: the cursor is the old bucket's.               *)
GoToBucket_keeping_cursor(bucket) ==
    m_bucket_cursor' = bucket /\ UNCHANGED <<m_elem_cursor, m_bit_cursor>>

(* The cursor is dropped when the call goes to another bucket.             *)
GoToBucket(bucket) ==
    /\ m_bucket_cursor' = bucket
    /\ m_elem_cursor' = IF bucket = m_bucket_cursor THEN m_elem_cursor ELSE 0
    /\ m_bit_cursor' = IF bucket = m_bucket_cursor THEN m_bit_cursor ELSE 0

Call(op, pos, val) ==
    /\ call = Idle
    /\ done = Nothing
    /\ GoToBucket(pos \div BucketSize)
    /\ call' = [op |-> op, at |-> "seek", offset |-> pos % BucketSize,
                val |-> val, existing |-> 0]
    /\ UNCHANGED <<m_data, m_bits, done>>

get(pos)      == Call("get", pos, 0)
set(pos, val) == Call("set", pos, val)

Running(at) == call # Idle /\ call.at = at

Data == m_data[m_bucket_cursor]

MoveCursor(elem, bit) ==
    /\ m_elem_cursor' = elem
    /\ m_bit_cursor' = bit
    /\ UNCHANGED m_bucket_cursor

(* read: on to the next code.                                              *)
Read == MoveCursor(m_elem_cursor + 1, m_bit_cursor + CodeLength(Data, m_bit_cursor))

Goto(at) == call' = [call EXCEPT !.at = at]

(* Mistakes for SeekBack: the bits read so far are not forgotten; a cursor *)
(* at the offset itself is taken back.                                     *)
SeekBack_keeping_bits ==
    /\ Running("seek")
    /\ call.offset < m_elem_cursor
    /\ MoveCursor(0, m_bit_cursor)
    /\ UNCHANGED <<m_data, m_bits, call, done>>

SeekBack_from_offset ==
    /\ Running("seek")
    /\ call.offset <= m_elem_cursor
    /\ MoveCursor(0, 0)
    /\ UNCHANGED <<m_data, m_bits, call, done>>

(* seek: back to the first code if the offset lies behind the cursor, then *)
(* forward one code at a time.                                             *)
SeekBack ==
    /\ Running("seek")
    /\ call.offset < m_elem_cursor
    /\ MoveCursor(0, 0)
    /\ UNCHANGED <<m_data, m_bits, call, done>>

SeekOn ==
    /\ Running("seek")
    /\ m_elem_cursor < call.offset
    /\ Read
    /\ UNCHANGED <<m_data, m_bits, call, done>>

Found == Running("seek") /\ m_elem_cursor = call.offset

CalledAt == m_bucket_cursor * BucketSize + call.offset

FinishGet ==
    /\ Found
    /\ call.op = "get"
    /\ done' = <<"get", CalledAt, Value(Data, m_bit_cursor)>>
    /\ Read
    /\ call' = Idle
    /\ UNCHANGED <<m_data, m_bits>>

Existing == Value(Data, m_bit_cursor)

(* The value that is there is read; what follows starts over at its code.  *)
ReadExisting ==
    /\ Found
    /\ call.op = "set"
    /\ call' = [call EXCEPT !.at = "compare", !.existing = Existing]
    /\ UNCHANGED <<m_data, m_bits, cursor, done>>

FoundEqual ==
    /\ Running("compare")
    /\ call.existing = call.val
    /\ Goto("check")
    /\ done' = <<"set", CalledAt, call.val>>
    /\ UNCHANGED <<m_data, m_bits, cursor>>

(* The bits behind the code move left before the words are given back, and *)
(* right after there are words for them.                                   *)
Rewritten(data, bits, bit) ==
    LET existing_size == encoded_bit_size(call.existing)
        new_size      == encoded_bit_size(call.val)
        new_bits      == bits + new_size - existing_size
        Shifted(d)    == shift_bits(d, bit + existing_size, bit + new_size,
                                    bits - (bit + existing_size))
        moved         == IF new_bits < bits
                         THEN realloc_bits(Shifted(data), bits, new_bits)
                         ELSE Shifted(realloc_bits(data, bits, new_bits))
    IN Written(moved, bit, call.val)

(* Once written, the cursor is put back in front of the code.              *)
Rewrite ==
    /\ Running("compare")
    /\ call.existing # call.val
    /\ m_data' = [m_data EXCEPT ![m_bucket_cursor] =
                    Rewritten(@, m_bits[m_bucket_cursor], m_bit_cursor)]
    /\ m_bits' = [m_bits EXCEPT ![m_bucket_cursor] =
                    @ + encoded_bit_size(call.val) - encoded_bit_size(call.existing)]
    /\ Goto("check")
    /\ done' = <<"set", CalledAt, call.val>>
    /\ UNCHANGED cursor

(* The written value is read back.                                         *)
FinishSet ==
    /\ Running("check")
    /\ Read
    /\ call' = Idle
    /\ UNCHANGED <<m_data, m_bits, done>>

-------------------------------------------------------------------------------
(* serialize<elias_gamma_displacement_table_t>: the size of the buckets,   *)
(* as it is kept and as it was configured, then each bucket's bits and as  *)
(* many words as that many bits need.                                      *)
WordsType(bits) == <<"uint64_t", bits2alloc(bits)>>

written ==
    << Item(size_t, BucketSize), Item(size_t, BucketSize) >>
    \o [i \in 1..(2 * Cardinality(Buckets)) |->
          LET bucket == (i - 1) \div 2
          IN IF i % 2 = 1 THEN Item(uint64, m_bits[bucket])
             ELSE Item(WordsType(m_bits[bucket]), m_data[bucket])]

read_bits(in) ==
    [bucket \in calc_buckets(ReadItem(in, 2, size_t)) |-> ReadItem(in, 3 + 2 * bucket, uint64)]

read_data(in) ==
    [bucket \in DOMAIN read_bits(in) |->
       ReadItem(in, 4 + 2 * bucket, WordsType(read_bits(in)[bucket]))]

(* The buckets that are read into were allocated for the default size: one *)
(* past them is other memory, and what is stored there may or may not last.*)
Lost(data) == [i \in DOMAIN data |-> 0]

ReadBack ==
    /\ call = Idle
    /\ done = Nothing
    /\ done' = <<"read back">>
    /\ m_bits' = read_bits(written)
    /\ \E lost \in SUBSET (Buckets \ calc_buckets(DefaultBucketSize)) :
          m_data' = [bucket \in DOMAIN read_bits(written) |->
                       IF bucket \in lost THEN Lost(read_data(written)[bucket])
                       ELSE read_data(written)[bucket]]
    /\ m_bucket_cursor' = 0 /\ m_elem_cursor' = 0 /\ m_bit_cursor' = 0
    /\ UNCHANGED call

GoOn ==
    /\ call = Idle
    /\ done # Nothing
    /\ done' = Nothing
    /\ UNCHANGED <<m_data, m_bits, cursor, call>>

Step == SeekBack \/ SeekOn \/ FinishGet
        \/ ReadExisting \/ FoundEqual \/ Rewrite \/ FinishSet

Next ==
    \/ \E pos \in Positions : get(pos)
    \/ \E pos \in Positions, val \in Values : set(pos, val)
    \/ ReadBack
    \/ Step
    \/ GoOn

(* A call runs to its end.                                                 *)
Spec == Init /\ [][Next]_vars /\ WF_vars(Step)
-------------------------------------------------------------------------------
Bit == {0, 1}

TypeOK ==
    /\ m_bits \in [Buckets -> Nat]
    /\ \A bucket \in Buckets :
          m_data[bucket] \in [0..(bits2alloc(m_bits[bucket]) * WordBits - 1) -> Bit]
    /\ m_bucket_cursor \in Buckets
    /\ m_elem_cursor \in 0..SizeOf(m_bucket_cursor)
    /\ m_bit_cursor \in 0..m_bits[m_bucket_cursor]
    /\ call \in {Idle} \cup
         [op : {"get", "set"}, at : {"seek", "compare", "check"},
          offset : 0..(SizeOf(m_bucket_cursor) - 1),
          val : Values \cup {0}, existing : Values \cup {0}]
    /\ done \in {Nothing, <<"read back">>}
               \cup ({"get", "set"} \X Positions \X (Values \cup {0}))

(* The bits in use of a bucket are its codes, one for each position and    *)
(* nothing left over: no read of a code ever runs past m_bits.             *)
CodesFillBucket ==
    \A bucket \in Buckets :
       BitsBefore(m_data[bucket], SizeOf(bucket)) = m_bits[bucket]

(* The cursor stands between two codes, as many codes into its bucket as   *)
(* it says, whatever was rewritten in the bucket since it got there.       *)
CursorBetweenCodes ==
    m_bit_cursor = BitsBefore(Data, m_elem_cursor)

(* A set that has been carried out reads back the value it was given       *)
(* (DCHECK_EQ(val, post_val_check)).                                       *)
ReadsBack == Running("check") => Existing = call.val

Consistent == CodesFillBucket /\ CursorBetweenCodes /\ ReadsBack

(* Every call comes to an end: scanning neither oscillates nor runs on.    *)
CallsEnd == call # Idle ~> call = Idle

displace ==
    [pos \in Positions |->
       LET data  == m_data[pos \div BucketSize]
           value == [bit \in Nat |-> Value(data, bit)]
       IN value[BitsBefore(data, pos % BucketSize)]]

A == INSTANCE DisplacementArray

(* The table is an array: a set changes the displacement at its position   *)
(* and no other, and a get returns the one last set.                       *)
RefinesArray == A!Spec

(* A table that was written into a stream and read back has the same       *)
(* displacements at all positions (the equal_check of the tests), whatever *)
(* the bucket size it was configured with.                                 *)
ReadsBackEqual == [][ReadBack => displace' = displace]_vars
===============================================================================
