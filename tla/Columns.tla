------------------------------ MODULE Columns ------------------------------
(***************************************************************************)
(* How the values of a column become a Column: its codec, its data         *)
(* sections and its range (column_builder.rs, integers.rs, strings.rs,     *)
(* column.rs).                                                             *)
(*                                                                         *)
(* A column is a record [sections, bases, codec, decoded, range].  Strings *)
(* are numbers ordered like the strings: n stands for a string of n equal  *)
(* letters (or 2n hexadecimal digits).  A compressed section is a sequence *)
(* of one element, the data that went into it.                             *)
(***************************************************************************)
EXTENDS Operators

CONSTANT Null   \* a missing value

ASSUME NullAssumption == Null \notin I64Min..I64Max

\* A CodecOp: x is the constant of Add, the section of PushDataSection or the
\* length of LZ4, base the type LZ4 gives back.
CodecOp(c, x, base) == [c |-> c, x |-> x, base |-> base]

AddOp(x) == CodecOp("add", x, "i64")
DeltaOp == CodecOp("delta", 0, "i64")
ToI64 == CodecOp("toi64", 0, "i64")
PushDataSection(i) == CodecOp("push", i, "any")
DictLookupOp == CodecOp("dict", 0, "str")
NullableOp == CodecOp("nullable", 0, "any")

\* Column::new
Column(range, codec, bases, sections, decoded) ==
    [range |-> range, codec |-> codec, bases |-> bases, sections |-> sections, decoded |-> decoded]

\* Column::lz4_encode and Codec::with_lz4.  Whether it is worth it depends on
\* the bytes: worth is given.
Lz4Encode(column, worth) ==
    IF ~worth
    THEN column
    ELSE [column EXCEPT !.codec = <<CodecOp("lz4", Len(column.sections[1]), column.bases[1])>> \o @,
                        !.bases[1] = "u8",
                        !.sections[1] = <<@>>]

\* Column::lz4_decode and Codec::without_lz4, when a column is loaded from disk and
\* not kept compressed: the first section is decoded into a vector of as many
\* elements as the column has rows.
Lz4Decode(column, len) ==
    IF column.codec = <<>> \/ Head(column.codec).c # "lz4"
    THEN column
    ELSE [column EXCEPT !.codec = Tail(@), !.bases[1] = Head(column.codec).base,
                        !.sections[1] = [k \in 1..len |-> IF k <= Len(@[1]) THEN @[1][k] ELSE 0]]

\* The null map of a nullable column
Present(values) == BitMap({k - 1 : k \in {j \in DOMAIN values : values[j] # Null}})

\* push: a null is stored as zero, or as the empty string
Pushed(values) == [k \in DOMAIN values |-> IF values[k] = Null THEN 0 ELSE values[k]]

\* The differences IntegerColumn::new_boxed stores; the first value stays
Deltas(data) ==
    [k \in DOMAIN data |-> IF k = 1 THEN data[1] ELSE Wrap(data[k] - data[k - 1])]

\* IntColBuilder: delta encoding if more than nine values in ten are larger
\* than the one before.  A step down that overflows forbids it; a step up that
\* overflows goes unnoticed.
DeltaEncode(data, lz4Enabled) ==
    LET last(k) == IF k = 1 THEN I64Min ELSE data[k - 1]
        increasing == {k \in DOMAIN data : data[k] > last(k)}
    IN  /\ lz4Enabled
        /\ \A k \in DOMAIN data \ increasing : data[k] - last(k) \in I64Min..I64Max
        /\ Cardinality(increasing) * 10 > Len(data) * 9

\* IntegerColumn::create_col
CreateCol(data, encoded, offset, base, delta, present, nullable) ==
    LET shift == IF offset = 0 THEN <<>> ELSE <<AddOp(offset)>>
        nulls == IF nullable THEN <<PushDataSection(1), NullableOp>> ELSE <<>>
        codec == CASE delta -> shift \o <<DeltaOp>> \o nulls
                   [] ~delta /\ offset = 0 -> nulls \o <<ToI64>>
                   [] OTHER -> nulls \o shift
    IN  Column(<<Min(ToSet(data)) - offset, Max(ToSet(data)) - offset>>, codec,
               IF nullable THEN <<base, "u8">> ELSE <<base>>,
               <<[k \in DOMAIN encoded |-> encoded[k] - offset]>>
                  \o (IF nullable THEN <<present>> ELSE <<>>), "int")

\* The columns of values no smaller type can hold
WideCol(data, encoded, delta, present, nullable) ==
    Column(<<Min(ToSet(data)), Max(ToSet(data))>>,
           (IF delta THEN <<DeltaOp>> ELSE <<>>)
              \o (IF nullable THEN <<PushDataSection(1), NullableOp>> ELSE <<>>),
           IF nullable THEN <<"i64", "u8">> ELSE <<"i64">>,
           <<encoded>> \o (IF nullable THEN <<present>> ELSE <<>>), "int")

\* Fault: one value too many for the type.
FitsFault(min, max, limit) == min >= 0 /\ max - 1 <= limit

Fits(min, max, limit) == min >= 0 /\ max <= limit

\* IntegerColumn::new_boxed: the smallest type, without an offset if that does
\* it.  min and max are those of the differences if there are any.
IntegerColumn(data, encoded, delta, present, nullable) ==
    LET min   == Min(ToSet(encoded))
        max   == Max(ToSet(encoded))
        width == max - min
        col(limit, base) == CreateCol(data, encoded, IF Fits(min, max, limit) THEN 0 ELSE min, base,
                                      delta, present, nullable)
    IN  CASE width <= U8Max \/ Fits(min, max, U8Max) -> col(U8Max, "u8")
          [] ~Fits(min, max, U8Max) /\ width \in (U8Max + 1)..U16Max -> col(U16Max, "u16")
          [] ~Fits(min, max, U16Max) /\ width \in (U16Max + 1)..U32Max -> col(U32Max, "u32")
          [] OTHER -> WideCol(data, encoded, delta, present, nullable)

\* IntColBuilder::finalize
BuildInts(values, nullable, lz4Enabled, worth) ==
    LET data  == Pushed(values)
        delta == DeltaEncode(data, lz4Enabled)
    IN  Lz4Encode(IntegerColumn(data, IF delta THEN Deltas(data) ELSE data, delta,
                                Present(values), nullable),
                  lz4Enabled /\ worth)

\* The strings of a column in the order of the dictionary
Dictionary(data) == SetToSortSeq(ToSet(data), LAMBDA a, b : a < b)

\* A dictionary that has half as many strings as the column has rows is not
\* worth it
Packs(data) == Len(data) \div 2 >= 1 /\ Cardinality(ToSet(data)) >= Len(data) \div 2

\* The packed column of fast_build_string_column
PackedCol(data, hex, present, nullable) ==
    Column(<<>>,
           <<CodecOp(IF hex THEN "unhexpack" ELSE "unpack", 0, "str")>>
              \o (IF nullable THEN <<PushDataSection(1), NullableOp>> ELSE <<>>),
           IF nullable THEN <<"u8", "u8">> ELSE <<"u8">>,
           <<FlattenSeq([k \in DOMAIN data |-> Packed(data[k])])>>
              \o (IF nullable THEN <<present>> ELSE <<>>), "str")

\* The dictionary column: indices, offsets into the strings, the strings
DictCol(data, dictionary, present, nullable) ==
    Column(<<0, Len(dictionary)>>,
           (IF nullable THEN <<PushDataSection(3), NullableOp>> ELSE <<>>)
              \o <<PushDataSection(1), PushDataSection(2), DictLookupOp>>,
           <<IF Len(dictionary) <= U8Max THEN "u8" ELSE IF Len(dictionary) <= U16Max THEN "u16" ELSE "u32",
             "u64", "u8">> \o (IF nullable THEN <<"u8">> ELSE <<>>),
           <<[k \in DOMAIN data |-> (CHOOSE j \in DOMAIN dictionary : dictionary[j] = data[k]) - 1],
             [k \in DOMAIN dictionary |-> k], dictionary>>
              \o (IF nullable THEN <<present>> ELSE <<>>), "str")

\* fast_build_string_column
BuildStrings(values, nullable, hex, worth) ==
    LET data == Pushed(values)
    IN  Lz4Encode(IF Packs(data) THEN PackedCol(data, hex, Present(values), nullable)
                  ELSE DictCol(data, Dictionary(data), Present(values), nullable),
                  worth)

==============================================================================
