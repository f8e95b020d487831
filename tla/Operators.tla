----------------------------- MODULE Operators -----------------------------
(***************************************************************************)
(* The vector operators a query plan is made of (src/engine/operators),   *)
(* and the scratchpad they work on (src/engine/execution/scratchpad.rs).   *)
(*                                                                         *)
(* An operator is a record [op, ins, outs, temps, arg, types]: its kind,   *)
(* the buffers its inputs() and outputs() name, buffers of its own, its    *)
(* parameters, and the types of its inputs.  The same record               *)
(* stands for all the monomorphic copies of an operator.  A buffer holds a *)
(* sequence; a scalar is a sequence of length one; a null map is a         *)
(* sequence of bytes, each the set of its bits that are one.               *)
(*                                                                         *)
(* Every operator has the four parts of the VecOperator trait: what may be *)
(* streamed, init, execute for one batch, and finalize.                    *)
(***************************************************************************)
EXTENDS Integers, Sequences, FiniteSets, SequencesExt

CONSTANTS ByteBits,               \* bits in a byte of a null map (8 in the code)
          LengthMarker,           \* the byte of a packed length that has another after it (255)
          U8Max, U16Max, U32Max,  \* the largest values of the unsigned types
          I64Min, I64Max          \* the range of i64

ASSUME WidthAssumption ==
    /\ ByteBits \in Nat \ {0} /\ LengthMarker \in Nat \ {0, 1} /\ U8Max \in Nat /\ U16Max \in Nat /\ U32Max \in Nat
    /\ U8Max < U16Max /\ U16Max < U32Max /\ U32Max < I64Max
    /\ I64Min \in Int /\ I64Max \in Int /\ I64Min < 0

Least(a, b) == IF a < b THEN a ELSE b

\* i64 arithmetic wraps around in a release build
Wrap(x) == ((x - I64Min) % (I64Max - I64Min + 1)) + I64Min

\* Cast: what is left of a number in an integer type
WrapTo(base, x) ==
    CASE base = "u8" -> x % (U8Max + 1)
      [] base = "u16" -> x % (U16Max + 1)
      [] base = "u32" -> x % (U32Max + 1)
      [] OTHER -> Wrap(x)

------------------------------------------------------------------------------
(* What may be streamed.                                                    *)

\* Operators that turn a batch into a batch.
Pipes == {"binary", "checked", "nullable_checked", "not", "cast", "delta_decode", "filter",
          "nullable_filter", "and", "or", "identity", "assemble_nullable",
          "propagate_nullability", "combine_null_maps", "get_null_map", "fuse_nulls",
          "unfuse_nulls", "fuse_int_nulls", "unfuse_int_nulls", "is_null", "is_not_null"}

\* Operators without a streamed input that hand out one batch at a time.
Sources == {"read", "lz4_decode", "unhexpack_strings", "constant_expand", "scalar",
            "scalar_str", "null_vec"}

\* Operators that take batches and give nothing until they have seen all.
Sinks == {"aggregate", "exists", "nonzero_indices", "top_n"}

\* can_stream_input
StreamsInput(op, b) ==
    \/ op.op \in Pipes \union Sinks \union {"hashmap_grouping"}
    \/ op.op = "dict_lookup" /\ b = op.ins[1]

\* can_stream_output
StreamsOutput(op, b) ==
    \/ op.op \in Pipes \union Sources \union {"dict_lookup"}
    \/ op.op = "hashmap_grouping" /\ b # op.outs[1]

\* mutates: the operators that work in place on their first input
Mutates(op, b) ==
    op.op \in {"and", "or", "compact", "nonzero_compact"} /\ b = op.ins[1]

\* allocates
Allocates(op) ==
    op.op \notin {"read", "scalar", "null_vec", "and", "or", "identity",
                  "compact", "nonzero_compact", "inverse_dict_lookup"}

\* is_streaming_producer
IsStreamingProducer(op) ==
    op.op \in {"read", "lz4_decode", "unpack_strings", "unhexpack_strings", "constant_expand"}

------------------------------------------------------------------------------
(* The scratchpad.                                                          *)

\* Scratchpad::new, with the operators' private fields: the position of a
\* reader, its batch size, has_more, a running value, and collected pairs.
NewScratchpad(count, ops) ==
    [data    |-> [b \in 1..count |-> <<>>],
     written |-> {},
     alias   |-> [b \in 1..count |-> b],
     nullMap |-> [b \in 1..count |-> 0],
     pinned  |-> {},
     local   |-> [i \in DOMAIN ops |-> [pos |-> 0, batch |-> 0, more |-> TRUE,
                                        previous |-> 0, kept |-> <<>>]],
     fault   |-> "none"]

\* Scratchpad::resolve
Resolve(pad, buffer) ==
    LET target[b \in DOMAIN pad.alias] == IF pad.alias[b] = b THEN b ELSE target[pad.alias[b]]
    IN  target[buffer]

Panic(pad) == [pad EXCEPT !.fault = "panic"]

Overflow(pad) == [pad EXCEPT !.fault = "overflow"]

Get(pad, b) == pad.data[Resolve(pad, b)]

\* get_any on a buffer nobody has set finds an empty placeholder, which no
\* operator can cast to its type.
Readable(pad, bs) == \A b \in bs : Resolve(pad, b) \in pad.written

\* set, set_any, set_const: refused for a pinned buffer
Set(pad, b, value) ==
    LET target == Resolve(pad, b)
    IN  IF target \in pad.pinned
        THEN Panic(pad)
        ELSE [pad EXCEPT !.data[target] = value, !.written = @ \union {target}]

\* The loop that ends most operators: clear the output first if it is streamed.
PushAll(pad, b, stream, values) ==
    Set(pad, b, IF stream THEN values ELSE Get(pad, b) \o values)

\* get_pinned
Pin(pad, b) == [pad EXCEPT !.pinned = @ \union {Resolve(pad, b)}]

\* alias
Alias(pad, original, alias) ==
    [pad EXCEPT !.alias[alias] = original, !.nullMap[alias] = pad.nullMap[original]]

\* assemble_nullable
AssembleNullable(pad, data, present, nullable) ==
    [pad EXCEPT !.alias[nullable] = data, !.nullMap[nullable] = present]

\* get_null_map
NullMap(pad, b) == Get(pad, pad.nullMap[b])

\* A buffer without a null map of its own is taken for one that holds nullable
\* data, which none is
HasNullMaps(pad, bs) ==
    \A b \in bs : pad.nullMap[b] # 0 /\ Readable(pad, {pad.nullMap[b]})

\* BitVec::is_set; a bit past the end is not set
IsSet(bytes, i) ==
    /\ i \div ByteBits < Len(bytes)
    /\ (i % ByteBits) \in bytes[(i \div ByteBits) + 1]

\* BitVec::set on the rows of a new null map
BitMap(rows) ==
    LET bytes == {r \div ByteBits : r \in rows}
    IN  [k \in 1..(IF bytes = {} THEN 0 ELSE Max(bytes) + 1) |->
            {r % ByteBits : r \in {x \in rows : x \div ByteBits = k - 1}}]

\* vec![0; len / 8 + 1], then BitVec::set
FullBitMap(rows, len) ==
    [k \in 1..((len \div ByteBits) + 1) |->
        {r % ByteBits : r \in {x \in rows : x \div ByteBits = k - 1}}]

------------------------------------------------------------------------------
(* Readers and decoders: execute.                                           *)

\* Fault: the position does not move on to the next batch.
ReadColumnDataFault(op, i, stream, pad, section) ==
    LET end == IF stream THEN pad.local[i].batch ELSE Len(section)
    IN  [Set(pad, op.outs[1], SubSeq(section, 1, Least(end, Len(section))))
            EXCEPT !.local[i].more = pad.local[i].pos + end < Len(section),
                   !.local[i].pos = @ + pad.local[i].batch]

\* ReadColumnData: a slice of a column's data section.  slice_box ends the
\* slice at the end of the section, and a slice that starts behind it panics.
ReadColumnData(op, i, stream, pad, section) ==
    LET from == pad.local[i].pos
        end  == IF stream THEN from + pad.local[i].batch ELSE Len(section)
        to   == Least(end, Len(section))
    IN  IF from > to
        THEN Panic(pad)
        ELSE [Set(pad, op.outs[1], SubSeq(section, from + 1, to))
                 EXCEPT !.local[i].pos = from + pad.local[i].batch,
                        !.local[i].more = end < Len(section)]

\* Fault: has_more is never cleared.
LZ4DecodeFault(op, i, pad) ==
    LET source  == Get(pad, op.ins[1])[1]
        from    == pad.local[i].pos
        len     == Least(Len(Get(pad, op.outs[1])), Len(source) - from)
    IN  [Set(pad, op.outs[1], SubSeq(source, from + 1, from + len)) EXCEPT !.local[i].pos = from + len]

\* LZ4Decode: fills the decoded buffer from where the reader stopped.  The
\* single element of the encoded section stands for its compressed bytes.
LZ4Decode(op, i, pad) ==
    LET source  == Get(pad, op.ins[1])[1]
        decoded == Get(pad, op.outs[1])
        from    == pad.local[i].pos
        len     == Least(Len(decoded), Len(source) - from)
    IN  [Set(pad, op.outs[1], SubSeq(source, from + 1, from + len))
            EXCEPT !.local[i].pos = from + len,
                   !.local[i].more = @ /\ len = Len(decoded)]

\* PackedStrings::push: the length, in bytes that are less than the marker but for
\* those before the last, and the letters.  The string n has n letters.
Packed(n) ==
    [k \in 1..(n \div LengthMarker) |-> LengthMarker] \o <<n % LengthMarker>> \o [k \in 1..n |-> 1]

\* StringPackerIterator::next at an index; ends with an index out of bounds if the
\* bytes end in the middle of a string
NextPacked(bytes, from) ==
    LET ends   == {k \in from..(Len(bytes) - 1) : bytes[k + 1] # LengthMarker}
        last   == Min(ends)
        length == LengthMarker * (last - from) + bytes[last + 1]
    IN  IF ends = {} \/ last + 1 + length > Len(bytes)
        THEN [ok |-> FALSE, at |-> from, string |-> 0]
        ELSE [ok |-> TRUE, at |-> last + 1 + length, string |-> length]

\* The next strings, until the output vector is at its capacity
Unpacked(bytes, from, room) ==
    FoldLeft(LAMBDA u, k :
                IF ~u.ok \/ u.at >= Len(bytes) THEN u
                ELSE LET n == NextPacked(bytes, u.at)
                     IN  [ok |-> n.ok, at |-> n.at, strings |-> Append(u.strings, n.string)],
             [ok |-> TRUE, at |-> from, strings |-> <<>>], [k \in 1..room |-> k])

\* UnpackStrings: it finds out that there is no more when the iterator ends, and
\* does not support streaming
UnpackStrings(op, i, stream, pad) ==
    LET room == pad.local[i].batch - Len(Get(pad, op.outs[1]))
        next == Unpacked(Get(pad, op.ins[1]), pad.local[i].pos, room)
    IN  IF stream \/ ~next.ok THEN Panic(pad)
        ELSE [PushAll(pad, op.outs[1], FALSE, next.strings)
                 EXCEPT !.local[i].pos = next.at, !.local[i].more = @ /\ room > 0 /\ Len(next.strings) = room]

\* UnhexpackStrings: it asks the iterator after every batch.  Its string store has room
\* for all the bytes of the column, which the assert relies on.
UnhexpackStrings(op, i, stream, pad) ==
    LET bytes == Get(pad, op.ins[1])
        room  == pad.local[i].batch - (IF stream THEN 0 ELSE Len(Get(pad, op.outs[1])))
        next  == Unpacked(bytes, pad.local[i].pos, room)
    IN  IF ~next.ok THEN Panic(pad)
        ELSE [PushAll(pad, op.outs[1], stream, next.strings)
                 EXCEPT !.local[i].pos = next.at, !.local[i].more = next.at < Len(bytes)]

\* Fault: every batch starts its running sum at zero again.
DeltaDecodeFault(op, i, stream, pad) ==
    LET encoded == Get(pad, op.ins[1])
        decoded == [k \in DOMAIN encoded |-> FoldLeft(LAMBDA x, y : Wrap(x + y), 0, SubSeq(encoded, 1, k))]
    IN  PushAll(pad, op.outs[1], stream, decoded)

\* DeltaDecode: the running sum goes on from the end of the previous batch.
DeltaDecode(op, i, stream, pad) ==
    LET encoded == Get(pad, op.ins[1])
        sums    == [k \in DOMAIN encoded |-> FoldLeft(LAMBDA x, y : Wrap(x + y), pad.local[i].previous,
                                                      SubSeq(encoded, 1, k))]
    IN  [PushAll(pad, op.outs[1], stream, sums)
            EXCEPT !.local[i].previous = IF sums = <<>> THEN @ ELSE Last(sums)]

\* DictLookup: section 1 of the column says where in section 2 a string is.
DictLookup(op, stream, pad) ==
    LET indices == Get(pad, op.ins[1])
    IN  PushAll(Pin(pad, op.ins[3]), op.outs[1], stream,
                [k \in DOMAIN indices |-> Get(pad, op.ins[3])[Get(pad, op.ins[2])[indices[k] + 1]]])

\* InverseDictLookup: the index of a string constant, -1 if it is not there.
InverseDictLookup(op, pad) ==
    LET offsets == Get(pad, op.ins[2])
        hits    == {k \in DOMAIN offsets : Get(pad, op.ins[3])[offsets[k]] = Get(pad, op.ins[1])[1]}
    IN  Set(pad, op.outs[1], <<IF hits = {} THEN -1
                               ELSE (CHOOSE k \in hits : \A h \in hits : k <= h) - 1>>)

\* ConstantExpand: init made a full batch; the last one is cut short.
ConstantExpand(op, i, pad) ==
    LET from  == pad.local[i].pos
        batch == pad.local[i].batch
        next  == [pad EXCEPT !.local[i].pos = from + batch, !.local[i].more = from + batch < op.arg.len]
    IN  IF from + batch > op.arg.len
        THEN Set(next, op.outs[1], SubSeq(Get(pad, op.outs[1]), 1, op.arg.len - from))
        ELSE next

------------------------------------------------------------------------------
(* Element-wise operators and filters: execute.                             *)

\* Division of i64, which rounds towards zero
Quotient(x, y) ==
    IF (x < 0) = (y < 0) THEN (IF x < 0 THEN -x ELSE x) \div (IF y < 0 THEN -y ELSE y)
    ELSE -((IF x < 0 THEN -x ELSE x) \div (IF y < 0 THEN -y ELSE y))

\* The functions of comparison_operators.rs
Holds(f, x, y) ==
    CASE f = "lt" -> x < y [] f = "lte" -> x <= y [] f = "eq" -> x = y [] f = "neq" -> x # y

\* The functions of numeric_operators.rs
Perform(f, x, y) ==
    CASE f \in {"lt", "lte", "eq", "neq"} -> IF Holds(f, x, y) THEN 1 ELSE 0
      [] f = "add" -> x + y
      [] f = "subtract" -> x - y
      [] f = "multiply" -> x * y
      [] f = "divide" -> IF y = 0 THEN 1 ELSE Quotient(x, y)
      [] f = "modulo" -> IF y = 0 THEN 1 ELSE x - y * Quotient(x, y)

\* perform_checked: what it reports as an overflow
Overflown(f, x, y) ==
    IF f \in {"divide", "modulo"} THEN y = 0 ELSE Perform(f, x, y) \notin I64Min..I64Max

\* / and % of i64 panic in any build if the quotient does not fit
Aborts(f, x, y) == f \in {"divide", "modulo"} /\ x = I64Min /\ y = -1

\* Pairs of operands: both vectors (zipped), or one of them a scalar
Operands(op, lhs, rhs) ==
    CASE op.arg.scalar = "lhs" -> [k \in DOMAIN rhs |-> <<lhs[1], rhs[k]>>]
      [] op.arg.scalar = "rhs" -> [k \in DOMAIN lhs |-> <<lhs[k], rhs[1]>>]
      [] op.arg.scalar = "none" -> [k \in 1..Least(Len(lhs), Len(rhs)) |-> <<lhs[k], rhs[k]>>]

\* BinaryOperator, BinaryVSOperator, BinarySVOperator
BinaryOperator(op, stream, pad, pairs) ==
    PushAll(pad, op.outs[1], stream,
            [k \in DOMAIN pairs |-> Wrap(Perform(op.arg.f, pairs[k][1], pairs[k][2]))])

\* CheckedBinaryOperator: an overflow is an error of the query
CheckedBinaryOperator(op, stream, pad, pairs) ==
    CASE \E k \in DOMAIN pairs : Aborts(op.arg.f, pairs[k][1], pairs[k][2]) -> Panic(pad)
      [] \E k \in DOMAIN pairs : Overflown(op.arg.f, pairs[k][1], pairs[k][2]) -> Overflow(pad)
      [] OTHER -> BinaryOperator(op, stream, pad, pairs)

\* Fault: a null row can overflow.
NullableCheckedBinaryOperatorFault(op, stream, pad, pairs) ==
    CheckedBinaryOperator(op, stream, pad, pairs)

\* NullableCheckedBinaryOperator: unless the row is null
NullableCheckedBinaryOperator(op, stream, pad, pairs) ==
    CASE \E k \in DOMAIN pairs : Aborts(op.arg.f, pairs[k][1], pairs[k][2]) -> Panic(pad)
      [] \E k \in DOMAIN pairs :
            /\ Overflown(op.arg.f, pairs[k][1], pairs[k][2])
            /\ IsSet(Get(pad, op.ins[3]), k - 1) -> Overflow(pad)
      [] OTHER -> BinaryOperator(op, stream, pad, pairs)

\* BooleanOperator: in place on the left operand, of which the output is an
\* alias.  Borrowing one buffer both mutably and not panics.
BooleanOperator(op, pad) ==
    LET lhs == Get(pad, op.ins[1])
        rhs == Get(pad, op.ins[2])
        at(k) == IF op.op = "and" THEN Least(lhs[k], rhs[k]) ELSE Least(1, lhs[k] + rhs[k])
    IN  IF Resolve(pad, op.ins[1]) = Resolve(pad, op.ins[2])
        THEN Panic(pad)
        ELSE Set(pad, op.ins[1],
                 [k \in DOMAIN lhs |-> IF k \in DOMAIN rhs THEN at(k) ELSE lhs[k]])

\* MapOperator with BooleanNot
MapOperator(op, stream, pad, data) ==
    PushAll(pad, op.outs[1], stream, [k \in DOMAIN data |-> 1 - data[k]])

\* TypeConversionOperator
TypeConversion(op, stream, pad, data) ==
    PushAll(pad, op.outs[1], stream, [k \in DOMAIN data |-> WrapTo(op.arg.to, data[k])])

\* The rows a filter lets through
Passing(data, filter) ==
    SelectSeq([k \in 1..Least(Len(data), Len(filter)) |-> k], LAMBDA k : filter[k] > 0)

\* Filter
Filter(op, stream, pad, data) ==
    LET rows == Passing(data, Get(pad, op.ins[2]))
    IN  PushAll(pad, op.outs[1], stream, [k \in DOMAIN rows |-> data[rows[k]]])

\* NullableFilter: a null condition does not let the row through
NullableFilter(op, stream, pad, data) ==
    LET present == NullMap(pad, op.ins[2])
        rows    == SelectSeq(Passing(data, Get(pad, op.ins[2])), LAMBDA k : IsSet(present, k - 1))
    IN  IF Len(Get(pad, op.ins[2])) < Len(data)
        THEN Panic(pad)
        ELSE PushAll(pad, op.outs[1], stream, [k \in DOMAIN rows |-> data[rows[k]]])

\* FuseNullsI64: null becomes i64::MIN
FuseNulls(op, stream, pad, data) ==
    PushAll(pad, op.outs[1], stream,
            [k \in DOMAIN data |-> IF IsSet(NullMap(pad, op.ins[1]), k - 1) THEN data[k] ELSE I64Min])

\* UnfuseNullsStr
UnfuseNulls(op, stream, pad, fused) ==
    PushAll(Set(pad, op.temps[1], FullBitMap({k - 1 : k \in {j \in DOMAIN fused : fused[j] # I64Min}},
                                             Len(fused))),
            op.temps[2], stream,
            [k \in DOMAIN fused |-> IF fused[k] = I64Min THEN 0 ELSE fused[k]])

\* FuseIntNulls: null becomes zero, everything else is moved up by the offset,
\* in the type of the column
FuseIntNulls(op, stream, pad, data) ==
    PushAll(pad, op.outs[1], stream,
            [k \in DOMAIN data |->
                IF IsSet(NullMap(pad, op.ins[1]), k - 1)
                THEN WrapTo(op.types[1].base, data[k] + op.arg.offset) ELSE 0])

\* UnfuseIntNulls: the null map is made new for every batch
UnfuseIntNulls(op, stream, pad, fused) ==
    LET rows == {k \in DOMAIN fused : fused[k] # 0}
    IN  PushAll(Set(pad, op.temps[1], FullBitMap({k - 1 : k \in rows}, Len(fused))),
                op.temps[2], stream,
                [k \in DOMAIN fused |->
                    IF k \in rows THEN WrapTo(op.types[1].base, fused[k] - op.arg.offset) ELSE 0])

\* IsNull and IsNotNull
IsNull(op, stream, pad, data) ==
    PushAll(pad, op.outs[1], stream,
            [k \in DOMAIN data |->
                IF IsSet(NullMap(pad, op.ins[1]), k - 1) = (op.op = "is_null") THEN 0 ELSE 1])

\* CombineNullMaps: the output was made by init, long enough for a batch
CombineNullMaps(op, pad) ==
    LET l   == NullMap(pad, op.ins[1])
        r   == NullMap(pad, op.ins[2])
        out == Get(pad, op.outs[1])
    IN  Set(pad, op.outs[1],
            [k \in DOMAIN out |-> IF k \in DOMAIN l \intersect DOMAIN r THEN l[k] \intersect r[k] ELSE out[k]])

------------------------------------------------------------------------------
(* Selecting, sorting and grouping: execute.                                *)

\* Select
Select(op, stream, pad, data, indices) ==
    IF \E k \in DOMAIN indices : indices[k] + 1 \notin DOMAIN data
    THEN Panic(pad)
    ELSE PushAll(pad, op.outs[1], stream, [k \in DOMAIN indices |-> data[indices[k] + 1]])

\* SelectNullable: the null map is selected like the data
SelectNullable(op, stream, pad, indices) ==
    LET present == NullMap(pad, op.ins[1])
        kept    == {k \in 1..Len(indices) : IsSet(present, indices[k])}
    IN  Select(op, stream, Set(pad, op.temps[1], BitMap({k - 1 : k \in kept})),
               Get(pad, op.ins[1]), indices)

\* The order of two sort keys; SortByNullable puts null before every value
Rank(op, pad, row) ==
    IF op.arg.nullable /\ ~IsSet(NullMap(pad, op.ins[1]), row)
    THEN I64Min - 1
    ELSE Get(pad, op.ins[1])[row + 1]

\* SortBy and SortByNullable: sorts the indices in place and aliases its
\* output to them.  Rows with equal keys stay in order if the sort is stable;
\* the order an unstable sort leaves them in is not modelled.
SortBy(op, pad) ==
    LET indices == Get(pad, op.ins[2])
        rank == [row \in ToSet(indices) |-> Rank(op, pad, row)]
        before(j, k) == \/ rank[indices[j]] # rank[indices[k]]
                           /\ (rank[indices[j]] < rank[indices[k]]) = ~op.arg.desc
                        \/ rank[indices[j]] = rank[indices[k]] /\ j < k
        order == SortSeq([k \in DOMAIN indices |-> k], before)
    IN  IF \E row \in ToSet(indices) : row + 1 \notin DOMAIN Get(pad, op.ins[1])
        THEN Panic(pad)
        ELSE Set(Alias(pad, op.ins[2], op.outs[1]), op.ins[2],
                 [k \in DOMAIN order |-> indices[order[k]]])

\* Comparator::cmp of top_n: whether key a goes before key b
Beats(desc, a, b) == IF desc THEN a > b ELSE a < b

\* heap_replace: the child that moves up in place of a node, or the node itself if
\* the key belongs there
SinksTo(heap, key, node, desc) ==
    LET left  == 2 * node
        right == left + 1
    IN  IF /\ left <= Len(heap) /\ Beats(desc, key, heap[left][1])
           /\ right > Len(heap) \/ Beats(desc, heap[right][1], heap[left][1])
        THEN left
        ELSE IF right <= Len(heap) /\ Beats(desc, key, heap[right][1]) THEN right ELSE node

\* heap_replace: the worst of the kept keys, which is at the root, makes room
HeapReplace(heap, entry, desc) ==
    LET sink(s) == LET child == SinksTo(s.heap, entry[1], s.node, desc)
                   IN  [heap |-> [s.heap EXCEPT ![s.node] = s.heap[child]], node |-> child]
        sunk == FoldLeft(LAMBDA s, k : sink(s), [heap |-> heap, node |-> 1], heap)
    IN  [sunk.heap EXCEPT ![sunk.node] = entry]

\* TopN: the first n keys are sorted, the worst one first, and are the heap that
\* keeps the n best keys and the rows they were found in.
TopN(op, i, pad) ==
    LET batch  == Get(pad, op.ins[1])
        local  == pad.local[i]
        count  == Least(op.arg.n - Len(local.kept), Len(batch))
        entries == [k \in DOMAIN batch |-> <<batch[k], local.pos + k - 1>>]
        filled == local.kept \o SubSeq(entries, 1, count)
        heap   == IF count > 0 /\ Len(filled) = op.arg.n
                  THEN SortSeq(filled, LAMBDA a, b : Beats(op.arg.desc, b[1], a[1])) ELSE filled
        best   == FoldLeft(LAMBDA h, e : IF Beats(op.arg.desc, e[1], h[1][1])
                                         THEN HeapReplace(h, e, op.arg.desc) ELSE h,
                           heap, SubSeq(entries, count + 1, Len(entries)))
    IN  IF op.arg.n = 0 /\ batch # <<>>
        THEN Panic(pad)
        ELSE [pad EXCEPT !.local[i].kept = best, !.local[i].pos = @ + Len(batch)]

\* The accumulators of aggregate.rs
Unit(aggregator) ==
    CASE aggregator \in {"count", "sum"} -> 0
      [] aggregator = "max" -> I64Min
      [] aggregator = "min" -> I64Max

Accumulate(aggregator, acc, x) ==
    CASE aggregator = "count" -> acc + 1
      [] aggregator = "sum" -> acc + x
      [] aggregator = "max" -> IF x > acc THEN x ELSE acc
      [] aggregator = "min" -> Least(acc, x)

\* Vec::resize, which never makes the vector shorter here
Resized(seq, len, unit) ==
    [k \in 1..(IF len > Len(seq) THEN len ELSE Len(seq)) |-> IF k \in DOMAIN seq THEN seq[k] ELSE unit]

\* max_index as usize + 1, of a cardinality that wrapped around, is too long for any
\* vector
TooLong(maxIndex) == maxIndex < -1

\* Aggregate, CheckedAggregate and their nullable forms: the accumulators live
\* in the output, from batch to batch.  The nullable forms index the grouping
\* by the row, the others zip the two.
Aggregate(op, pad, grouping, nums) ==
    LET rows == SelectSeq([k \in 1..Len(nums) |-> k],
                          LAMBDA k : IF op.arg.nullable THEN IsSet(NullMap(pad, op.ins[2]), k - 1)
                                     ELSE k <= Len(grouping))
        start == Resized(Get(pad, op.outs[1]), Get(pad, op.ins[3])[1] + 1, Unit(op.arg.aggregator))
        run(k) == FoldLeft(LAMBDA acc, r : [acc EXCEPT ![grouping[r] + 1] =
                                              Accumulate(op.arg.aggregator, @, nums[r])],
                           start, SubSeq(rows, 1, k))
    IN  CASE TooLong(Get(pad, op.ins[3])[1]) -> Panic(pad)
          [] \E k \in DOMAIN rows : \/ rows[k] > Len(grouping)
                                  \/ grouping[rows[k]] + 1 \notin DOMAIN start -> Panic(pad)
          [] op.arg.aggregator = "sum"
             /\ \E k \in DOMAIN rows : run(k)[grouping[rows[k]] + 1] \notin I64Min..I64Max -> Overflow(pad)
          [] OTHER -> Set(pad, op.outs[1], run(Len(rows)))

\* Exists: reads the scalar max_index, a buffer its inputs() does not name
Exists(op, pad) ==
    IF ~Readable(pad, {op.arg.maxIndex})
    THEN Panic(pad)
    ELSE LET seen == Resized(Get(pad, op.outs[1]), Get(pad, op.arg.maxIndex)[1] + 1, 0)
             hit  == ToSet(Get(pad, op.ins[1]))
         IN  IF TooLong(Get(pad, op.arg.maxIndex)[1]) \/ \E g \in hit : g + 1 \notin DOMAIN seen
             THEN Panic(pad)
             ELSE Set(pad, op.outs[1], [k \in DOMAIN seen |-> IF k - 1 \in hit THEN 1 ELSE seen[k]])

\* NonzeroIndices
NonzeroIndices(op, pad) ==
    LET input == Get(pad, op.ins[1])
    IN  PushAll(pad, op.outs[1], FALSE,
                SelectSeq([k \in DOMAIN input |-> k - 1], LAMBDA g : input[g + 1] > 0))

\* Compact and NonzeroCompact: in place, the output is an alias of the data
Compact(op, pad, select) ==
    LET data == Get(pad, op.ins[1])
        keep == SelectSeq([k \in 1..Least(Len(data), Len(select)) |-> k], LAMBDA k : select[k] > 0)
    IN  Set(pad, op.ins[1], [k \in DOMAIN keep |-> data[keep[k]]])

\* HashMapGrouping: the number of a key is the place of its first occurrence
\* among the distinct keys seen so far, in this batch and in earlier ones.
HashMapGrouping(op, stream, pad) ==
    LET keys   == Get(pad, op.ins[1])
        unique == FoldLeft(LAMBDA u, k : IF k \in ToSet(u) THEN u ELSE Append(u, k),
                           Get(pad, op.outs[1]), keys)
        place(k) == (CHOOSE j \in DOMAIN unique : unique[j] = k) - 1
    IN  Set(Set(PushAll(pad, op.outs[2], stream, [k \in DOMAIN keys |-> place(keys[k])]),
                op.outs[1], unique),
            op.outs[3], <<Len(unique)>>)

------------------------------------------------------------------------------
(* The VecOperator trait.                                                   *)

\* has_more
HasMore(op, pad, i) == IsStreamingProducer(op) /\ pad.local[i].more

\* custom_output_len: only LZ4Decode gives one
OutputLen(op, default) == IF op.op = "lz4_decode" THEN op.arg.len ELSE default

\* init
Initialize(op, i, batch, pad) ==
    LET sized == [pad EXCEPT !.local[i].batch = batch]
        bytes == (batch \div ByteBits) + 1
    IN  CASE op.op \in {"scalar", "scalar_str"} -> Set(pad, op.outs[1], <<op.arg.value>>)
          [] op.op = "null_vec" -> Set(pad, op.outs[1], [k \in 1..op.arg.len |-> 0])
          [] op.op = "constant_expand" -> Set(sized, op.outs[1], [k \in 1..batch |-> op.arg.value])
          [] op.op = "lz4_decode" -> Pin(Set(pad, op.outs[1], [k \in 1..batch |-> 0]), op.ins[1])
          [] op.op \in {"unpack_strings", "unhexpack_strings"} ->
                Pin(Set(sized, op.outs[1], <<>>), op.ins[1])
          [] op.op \in {"and", "or", "identity", "compact", "nonzero_compact"} ->
                Alias(pad, op.ins[1], op.outs[1])
          [] op.op = "assemble_nullable" -> AssembleNullable(pad, op.ins[1], op.ins[2], op.outs[1])
          [] op.op = "propagate_nullability" ->
                AssembleNullable(pad, op.ins[2], pad.nullMap[op.ins[1]], op.outs[1])
          [] op.op = "get_null_map" ->
                IF pad.nullMap[op.ins[1]] = 0 THEN Panic(pad)
                ELSE [pad EXCEPT !.alias[op.outs[1]] = pad.nullMap[op.ins[1]]]
          [] op.op = "combine_null_maps" -> Set(pad, op.outs[1], [k \in 1..bytes |-> {}])
          [] op.op = "nullable_checked" ->
                Set([pad EXCEPT !.nullMap[op.outs[1]] = op.ins[3]], op.outs[1], <<>>)
          [] op.op = "select_nullable" ->
                Set(Set([pad EXCEPT !.nullMap[op.outs[1]] = op.temps[1]], op.temps[1], <<>>),
                    op.outs[1], <<>>)
          [] op.op \in {"unfuse_nulls", "unfuse_int_nulls"} ->
                Set(AssembleNullable(pad, op.temps[2], op.temps[1], op.outs[1]), op.temps[2], <<>>)
          [] op.op = "hashmap_grouping" -> Set(Set(pad, op.outs[1], <<>>), op.outs[2], <<>>)
          [] op.op \in {"read", "sort_by", "indices", "inverse_dict_lookup"} -> sized
          [] OTHER -> Set(pad, op.outs[1], <<>>)

\* execute, for the operators that read their inputs
Compute(op, i, stream, pad, x, y) ==
    CASE op.op = "lz4_decode" -> LZ4Decode(op, i, pad)
      [] op.op = "unpack_strings" -> UnpackStrings(op, i, stream, pad)
      [] op.op = "unhexpack_strings" -> UnhexpackStrings(op, i, stream, pad)
      [] op.op = "delta_decode" -> DeltaDecode(op, i, stream, pad)
      [] op.op = "dict_lookup" -> DictLookup(op, stream, pad)
      [] op.op = "inverse_dict_lookup" -> InverseDictLookup(op, pad)
      [] op.op = "binary" -> BinaryOperator(op, stream, pad, Operands(op, x, y))
      [] op.op = "checked" -> CheckedBinaryOperator(op, stream, pad, Operands(op, x, y))
      [] op.op = "nullable_checked" -> NullableCheckedBinaryOperator(op, stream, pad, Operands(op, x, y))
      [] op.op \in {"and", "or"} -> BooleanOperator(op, pad)
      [] op.op = "not" -> MapOperator(op, stream, pad, x)
      [] op.op = "cast" -> TypeConversion(op, stream, pad, x)
      [] op.op = "filter" -> Filter(op, stream, pad, x)
      [] op.op = "nullable_filter" -> NullableFilter(op, stream, pad, x)
      [] op.op = "fuse_nulls" -> FuseNulls(op, stream, pad, x)
      [] op.op = "unfuse_nulls" -> UnfuseNulls(op, stream, pad, x)
      [] op.op = "fuse_int_nulls" -> FuseIntNulls(op, stream, pad, x)
      [] op.op = "unfuse_int_nulls" -> UnfuseIntNulls(op, stream, pad, x)
      [] op.op \in {"is_null", "is_not_null"} -> IsNull(op, stream, pad, x)
      [] op.op = "combine_null_maps" -> CombineNullMaps(op, pad)
      [] op.op = "select" -> Select(op, stream, pad, x, y)
      [] op.op = "select_nullable" -> SelectNullable(op, stream, pad, y)
      [] op.op = "indices" -> Set(pad, op.outs[1], [k \in DOMAIN x |-> k - 1])
      [] op.op = "sort_by" -> SortBy(op, pad)
      [] op.op = "top_n" -> TopN(op, i, pad)
      [] op.op = "aggregate" -> Aggregate(op, pad, x, y)
      [] op.op = "exists" -> Exists(op, pad)
      [] op.op = "nonzero_indices" -> NonzeroIndices(op, pad)
      [] op.op = "compact" -> Compact(op, pad, y)
      [] op.op = "nonzero_compact" -> Compact(op, pad, x)
      [] op.op = "hashmap_grouping" -> HashMapGrouping(op, stream, pad)

\* Operators whose execute does nothing: init did it all
Passive == {"scalar", "scalar_str", "null_vec", "identity", "assemble_nullable", "propagate_nullability", "get_null_map"}

\* The inputs whose null maps execute reads
NullableInputs(op) ==
    CASE op.op \in {"fuse_nulls", "fuse_int_nulls", "is_null", "is_not_null", "select_nullable"} -> {op.ins[1]}
      [] op.op = "nullable_filter" -> {op.ins[2]}
      [] op.op = "combine_null_maps" -> ToSet(op.ins)
      [] op.op = "sort_by" /\ op.arg.nullable -> {op.ins[1]}
      [] op.op = "aggregate" /\ op.arg.nullable -> {op.ins[2]}
      [] OTHER -> {}

\* execute: a panic if an input was never written
Execute(op, i, stream, pad, columns) ==
    CASE op.op = "read" -> ReadColumnData(op, i, stream, pad, columns[op.arg.col].sections[op.arg.section])
      [] op.op = "constant_expand" -> ConstantExpand(op, i, pad)
      [] op.op \in Passive -> pad
      [] OTHER ->
            IF ~Readable(pad, ToSet(op.ins)) \/ ~HasNullMaps(pad, NullableInputs(op))
            THEN Panic(pad)
            ELSE Compute(op, i, stream, pad, Get(pad, op.ins[1]),
                         IF Len(op.ins) > 1 THEN Get(pad, op.ins[2]) ELSE <<>>)

\* finalize: TopN gives out the rows of the keys it kept, best first
Finalize(op, i, pad) ==
    LET kept == SortSeq(pad.local[i].kept, LAMBDA a, b : Beats(op.arg.desc, a[1], b[1]))
    IN  IF op.op = "top_n" THEN Set(pad, op.outs[1], [k \in DOMAIN kept |-> kept[k][2]]) ELSE pad

==============================================================================
