---------------------------- MODULE TupleCodec ----------------------------
(***************************************************************************)
(* duck::Tuple, Schema, Column and NullBitmap: a row and its schema turned *)
(* into bytes and read again, as the catalog and the tables do across a    *)
(* restart.                                                                *)
(*                                                                         *)
(* A byte has ByteBits bits, 8 in the code; lengths and types have two     *)
(* bytes.  The bytes of a value are the value (bit_cast, or the characters *)
(* of a string).                                                           *)
(***************************************************************************)
EXTENDS Integers, Sequences, SequencesExt

CONSTANTS ByteBits,     \* bits of a byte
          Columns,      \* columns of schemas
          MaxColumns,   \* bound of this model on the columns of a schema
          MaxString,    \* bound of this model on strings
          Ints          \* values of INT32, as bytes

Byte   == 0 .. 2^ByteBits - 1
uint16 == 0 .. 2^(2 * ByteBits) - 1

(* Five of the ten types; the others are as INT32, with other sizes. *)
TypeIds == <<"INT32", "BOOL", "CHAR", "VARCHAR", "VARBINARY">>
TypeNames == Range(TypeIds)
Column == [name : Seq(Byte), type : TypeNames, length : uint16]

ASSUME CodecAssumption ==
  /\ ByteBits \in Nat \ {0, 1} /\ MaxColumns \in Nat \ {0} /\ MaxString \in Nat
  /\ \A c \in Columns : c \in Column
  /\ Ints \subseteq [1 .. 4 -> Byte]

VARIABLES schema,   \* the columns of the table
          values,   \* the row
          stage,    \* how far it has got
          raw,      \* the bytes of the row
          rawSchema,\* the bytes of the schema
          loaded    \* what is read from them

vars == <<schema, values, stage, raw, rawSchema, loaded>>

Strings == UNION {[1 .. n -> {0, 1}] : n \in 0 .. MaxString}

Null == [null |-> TRUE, data |-> <<>>]
Of(data) == [null |-> FALSE, data |-> data]

(* The values that the constructor of Tuple allows in a column. *)
ValuesOf(c) ==
  {Null} \cup {Of(d) : d \in CASE c.type = "INT32" -> Ints
                               [] c.type = "BOOL"  -> {<<0>>, <<1>>}
                               [] OTHER            -> Strings}

-----------------------------------------------------------------------------
(* Numbers in two bytes, the lower one first. *)
Two(n) == LET w == n % 2^(2 * ByteBits) IN <<w % 2^ByteBits, w \div 2^ByteBits>>
read_two(bytes, at) == bytes[at + 1] + 2^ByteBits * bytes[at + 2]

Sub(bytes, at, size) == SubSeq(bytes, at + 1, at + size)
Zeros(n) == [i \in 1 .. n |-> 0]

is_fixed_size(c) == c.type \in {"INT32", "BOOL", "CHAR"}
fixed_size_of(c) == CASE c.type = "INT32" -> 4
                      [] c.type = "BOOL"  -> 1
                      [] c.type = "CHAR"  -> c.length
                      [] OTHER            -> 0

(* NullBitmap *)
BitmapSize(n) == (n + ByteBits - 1) \div ByteBits

Bitmap(nulls, n) ==
  [k \in 1 .. BitmapSize(n) |->
     LET bits == {i \in nulls : i \div ByteBits = k - 1}
     IN  FoldSet(LAMBDA i, sum : sum + 2^(i % ByteBits), 0, bits)]
is_null(bytes, i) == (bytes[i \div ByteBits + 1] \div 2^(i % ByteBits)) % 2 = 1

(* Mutant of TooLong: a CHAR may be as long as it likes. *)
TooLong_VarcharOnly(c, v) ==
  /\ ~v.null /\ c.type = "VARCHAR"
  /\ c.length > 0 /\ Len(v.data) > c.length

(* What serialize throws at.  The checks of VARBINARY stand where only     *)
(* CHAR and VARCHAR come.                                                  *)
TooLong(c, v) ==
  /\ ~v.null
  /\ \/ c.type = "CHAR" /\ Len(v.data) > c.length
     \/ c.type = "VARCHAR" /\ c.length > 0 /\ Len(v.data) > c.length
     \/ c.type = "VARCHAR" /\ Len(v.data) >= 2^(2 * ByteBits)

(* The bytes of a column, padded or with their number in front. *)
Encoded(c, v) ==
  IF is_fixed_size(c)
  THEN v.data \o Zeros(IF Len(v.data) < fixed_size_of(c) THEN fixed_size_of(c) - Len(v.data)
                       ELSE 0)
  ELSE Two(Len(v.data)) \o v.data

serialize(cols, row) ==
  LET nulls == {i \in 0 .. Len(cols) - 1 : row[i + 1].null}
  IN  Bitmap(nulls, Len(cols)) \o FlattenSeq([i \in DOMAIN cols |-> Encoded(cols[i], row[i])])

-----------------------------------------------------------------------------
(* Where each column starts; at a place without two bytes left a length    *)
(* would be read from behind the bytes, and counts as 0.                   *)
compute_offsets(cols, bytes) ==
  LET offset[i \in 1 .. Len(cols) + 1] ==
        IF i = 1 THEN BitmapSize(Len(cols))
        ELSE IF fixed_size_of(cols[i - 1]) > 0 THEN offset[i - 1] + fixed_size_of(cols[i - 1])
        ELSE offset[i - 1] + 2 + (IF offset[i - 1] + 2 > Len(bytes) THEN 0
                                  ELSE read_two(bytes, offset[i - 1]))
  IN  offset

(* CHAR without the zeros at its end. *)
Stripped(data) ==
  LET kept == {i \in DOMAIN data : data[i] # 0}
  IN  SubSeq(data, 1, IF kept = {} THEN 0 ELSE Max(kept))

deserialize_value(cols, bytes, i) ==
  LET c     == cols[i]
      start == compute_offsets(cols, bytes)[i]
      at    == IF is_fixed_size(c) THEN start ELSE start + 2
      size  == IF is_fixed_size(c) THEN fixed_size_of(c) ELSE read_two(bytes, start)
  IN  IF is_null(bytes, i - 1) THEN Null
      ELSE IF c.type = "CHAR" THEN Of(Stripped(Sub(bytes, at, size)))
      ELSE Of(Sub(bytes, at, size))

(* Some read would go past the end of the bytes. *)
OutOfBounds(cols, bytes) ==
  \E i \in DOMAIN cols :
    LET start == compute_offsets(cols, bytes)[i] IN
    /\ ~is_null(bytes, i - 1)
    /\ IF is_fixed_size(cols[i]) THEN start + fixed_size_of(cols[i]) > Len(bytes)
       ELSE \/ start + 2 > Len(bytes)
            \/ start + 2 + read_two(bytes, start) > Len(bytes)

Undefined == <<>>
deserialize(cols, bytes) ==
  IF OutOfBounds(cols, bytes) THEN Undefined
  ELSE [i \in DOMAIN cols |-> deserialize_value(cols, bytes, i)]

-----------------------------------------------------------------------------
(* Column and Schema *)
TypeCode(type) == CHOOSE k \in DOMAIN TypeIds : TypeIds[k] = type
ColumnBytes(c) == Two(Len(c.name)) \o c.name \o Two(TypeCode(c.type)) \o Two(c.length)
SchemaBytes(cols) == Two(Len(cols)) \o FlattenSeq([i \in DOMAIN cols |-> ColumnBytes(cols[i])])

ColumnAt(bytes, at) ==
  LET n    == read_two(bytes, at)
      type == at + 2 + n
  IN  [name |-> Sub(bytes, at + 2, n),
       type |-> TypeIds[read_two(bytes, type)],
       length |-> read_two(bytes, type + 2)]

(* Mutant of Consumed: the length of the name does not count. *)
Consumed_NoName(c) == 6

(* The bytes Column::deserialize says it has read. *)
Consumed(c) == 2 + Len(c.name) + 4

SchemaOf(bytes) ==
  LET n == read_two(bytes, 0)
      at[i \in 1 .. n] ==
        IF i = 1 THEN 2 ELSE at[i - 1] + Consumed(ColumnAt(bytes, at[i - 1]))
  IN  [i \in 1 .. n |-> ColumnAt(bytes, at[i])]

-----------------------------------------------------------------------------
Init ==
  /\ \E n \in 1 .. MaxColumns : schema \in [1 .. n -> Columns]
  /\ values \in {row \in [DOMAIN schema -> UNION {ValuesOf(c) : c \in Columns}] :
                   \A i \in DOMAIN schema : row[i] \in ValuesOf(schema[i])}
  /\ stage = "new"
  /\ raw = <<>> /\ rawSchema = <<>>
  /\ loaded = [schema |-> <<>>, values |-> <<>>]

Store ==
  /\ stage = "new"
  /\ \A i \in DOMAIN schema : ~TooLong(schema[i], values[i])
  /\ raw' = serialize(schema, values)
  /\ rawSchema' = SchemaBytes(schema)
  /\ stage' = "stored"
  /\ UNCHANGED <<schema, values, loaded>>

Refuse ==
  /\ stage = "new"
  /\ \E i \in DOMAIN schema : TooLong(schema[i], values[i])
  /\ stage' = "refused"
  /\ UNCHANGED <<schema, values, raw, rawSchema, loaded>>

Load ==
  /\ stage = "stored"
  /\ LET cols == SchemaOf(rawSchema)
     IN  loaded' = [schema |-> cols, values |-> deserialize(cols, raw)]
  /\ stage' = "loaded"
  /\ UNCHANGED <<schema, values, raw, rawSchema>>

(* The row has been read, or refused. *)
Done == stage \in {"loaded", "refused"} /\ UNCHANGED vars

Next == Store \/ Refuse \/ Load \/ Done
Spec == Init /\ [][Next]_vars

-----------------------------------------------------------------------------
TypeOK ==
  /\ stage \in {"new", "stored", "refused", "loaded"}
  /\ raw \in Seq(Byte) /\ rawSchema \in Seq(Byte)
  /\ \A i \in DOMAIN schema : schema[i] \in Column /\ values[i] \in ValuesOf(schema[i])

(* What is read is what was written: every value, at its place, null or    *)
(* not, whatever the values before it; a CHAR comes without the zeros at   *)
(* its end.  It is not so for columns behind a CHAR of length 0, which     *)
(* compute_offsets takes for a column with a length in front.              *)
Expected(c, v) == IF c.type = "CHAR" THEN [v EXCEPT !.data = Stripped(@)] ELSE v
RowRoundTrips ==
  /\ TypeOK
  /\ stage = "loaded" =>
       loaded.values = [i \in DOMAIN schema |-> Expected(schema[i], values[i])]

(* The catalog reads the schema it has written, with all names.            *)
SchemaRoundTrips == stage = "loaded" => loaded.schema = schema

=============================================================================
