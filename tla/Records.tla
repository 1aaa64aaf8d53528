------------------------------ MODULE Records ------------------------------
(***************************************************************************)
(* How a row becomes stored bytes and comes back (core/record_codec.cpp,   *)
(* core/schema.cpp, core/key_codec.cpp): the keys of the searchable        *)
(* columns make the match record, the other values the payload record.     *)
(*                                                                         *)
(* A byte has ByteBits bits; an integer or a real has IntBytes bytes, a    *)
(* text length one.  A cell is the readings of what is written in it: as   *)
(* an integer and as the bits of a real, or None, whether it is JSON, and  *)
(* its characters.                                                         *)
(***************************************************************************)
EXTENDS Integers, Sequences, FiniteSets, Functions, Concat, Ddl

CONSTANTS ByteBits, IntBytes

ASSUME WidthAssumption == ByteBits \in Nat \ {0} /\ IntBytes \in Nat \ {0}

Pow2[n \in Nat] == IF n = 0 THEN 1 ELSE 2 * Pow2[n - 1]

Base == Pow2[ByteBits]
IntBits == ByteBits * IntBytes
None == 99

\* A cell's integer fits the signed width, its real is a bit pattern.
IsCell(c) ==
  /\ c.int = None \/ (c.int \in Int /\ -Pow2[IntBits] <= 2 * c.int /\ 2 * c.int < Pow2[IntBits])
  /\ c.real = None \/ c.real \in 0 .. Pow2[IntBits] - 1
  /\ c.text \in Seq(0 .. Base - 1)

KeyIndex(columns) == CHOOSE i \in DOMAIN columns : columns[i].encoding = "eq"

SearchableCount(columns) == Cardinality({i \in DOMAIN columns : IsSearchable(columns[i])})

SearchableRank(columns, i) == Cardinality({j \in 1 .. i - 1 : IsSearchable(columns[j])})

Parses(type, cell) ==
  CASE type = "int"  -> cell.int # None
    [] type = "real" -> cell.real # None
    [] type = "text" -> TRUE
    [] type = "json" -> cell.json

ParseValue(type, cell) ==
  CASE type = "int"  -> [int |-> cell.int]
    [] type = "real" -> [real |-> cell.real]
    [] OTHER         -> [text |-> cell.text]

\* AppendU64, PackKey: the low digits, least first.
Digits(n, width) ==
  LET rest[i \in 1 .. width + 1] == IF i = 1 THEN n ELSE rest[i - 1] \div Base
  IN  [i \in 1 .. width |-> rest[i] % Base]

\* ReadU64, UnpackKey.
Number(bytes) ==
  LET from[i \in 1 .. Len(bytes) + 1] ==
        IF i > Len(bytes) THEN 0 ELSE bytes[i] + Base * from[i + 1]
  IN  from[1]

\* static_cast<std::int64_t>.
Signed(n) == IF 2 * n >= Pow2[IntBits] THEN n - Pow2[IntBits] ELSE n

EncodeValue(value) ==
  IF "int" \in DOMAIN value THEN Digits(value.int % Pow2[IntBits], IntBytes)
  ELSE IF "real" \in DOMAIN value THEN Digits(value.real, IntBytes)
  ELSE <<Len(value.text)>> \o value.text

\* A text's length has to fit its length field.
Encodable(value) == "text" \in DOMAIN value => Len(value.text) < Base

Encoded(payload) == Concat([i \in DOMAIN payload |-> EncodeValue(payload[i])])

Fits(payload, record_bytes) ==
  /\ \A i \in DOMAIN payload : Encodable(payload[i])
  /\ Len(Encoded(payload)) <= record_bytes

\* EncodeRecord, of values that fit.
EncodeRecord(payload, record_bytes) ==
  LET out == Encoded(payload) IN out \o [i \in 1 .. record_bytes - Len(out) |-> 0]

\* Fnv1a, StableHash: a fixed number for each text, here that of its bytes as digits.
TextHash(text) == Number(text)

\* EncodeKeyValue: an integer as it is, a text by its hash.
KeyValue(value, key_bits) ==
  IF "int" \in DOMAIN value THEN value.int % Pow2[IntBits]
  ELSE TextHash(value.text) % Pow2[key_bits]

\* A key of the width of an integer takes every integer.
KeyFits(value, key_bits) ==
  "int" \in DOMAIN value => key_bits = IntBits \/ value.int \in 0 .. Pow2[key_bits] - 1

\* KeyRecordBytes, MatchRecordBytes.
MatchRecordBytes(key_bits) == (key_bits + ByteBits - 1) \div ByteBits

\* The value of column i: the key, or the next of the payload.
ValueOf(columns, key, payload, i) ==
  IF columns[i].encoding = "eq" THEN key
  ELSE payload[Cardinality({j \in 1 .. i : columns[j].encoding # "eq"})]

\* Mutant of MatchValue: the payload is not advanced past a column that is not searched.
MatchValueSkipping(columns, key, payload, i) ==
  IF columns[i].encoding = "eq" THEN key
  ELSE payload[Cardinality({j \in 1 .. i : columns[j].encoding = "index"})]

MatchValue(columns, key, payload, i) == ValueOf(columns, key, payload, i)

\* EncodeMatchRecord: the keys of the searchable columns, in schema order.
EncodeMatchRecord(columns, key, payload, key_bits) ==
  Concat([i \in DOMAIN columns |->
    IF IsSearchable(columns[i])
      THEN Digits(KeyValue(MatchValue(columns, key, payload, i), key_bits),
                  MatchRecordBytes(key_bits))
      ELSE <<>>])

KeysFit(columns, key, payload, key_bits) ==
  \A i \in DOMAIN columns :
    IsSearchable(columns[i]) => KeyFits(ValueOf(columns, key, payload, i), key_bits)

\* One column of DecodeRecord: the value at the front of the bytes that are left.
DecodeColumn(s, column) ==
  LET number == column.type \in {"int", "real"}
      size == IF number THEN IntBytes
              ELSE IF s.left = <<>> THEN 1 ELSE 1 + Head(s.left)
      bytes == SubSeq(s.left, 1, size)
      value == CASE column.type = "int"  -> [int |-> Signed(Number(bytes))]
                 [] column.type = "real" -> [real |-> Number(bytes)]
                 [] OTHER                -> [text |-> Tail(bytes)]
  IN  IF ~s.ok \/ size > Len(s.left) THEN [s EXCEPT !.ok = FALSE]
      ELSE [ok |-> TRUE, left |-> SubSeq(s.left, size + 1, Len(s.left)),
            values |-> Append(s.values, value)]

\* DecodeRecord: the columns but the key in schema order, unless the record is too short.
DecodeRecord(columns, record) ==
  LET after[i \in 0 .. Len(columns)] ==
        IF i = 0 THEN [ok |-> TRUE, left |-> record, values |-> <<>>]
        ELSE IF columns[i].encoding = "eq" THEN after[i - 1]
        ELSE DecodeColumn(after[i - 1], columns[i])
  IN  after[Len(columns)]
=============================================================================
