------------------------------ MODULE Matcher ------------------------------
(***************************************************************************)
(* The private match, slot by slot: the client's operands (crypto/ops.cpp),*)
(* the bit-sliced matcher of every shard (backend/reference/reference.cpp),*)
(* the sum of the shards' partials and the client's reading of the result  *)
(* buckets (crypto/ops.cpp, client/query_client.cpp).                      *)
(*                                                                         *)
(* A ciphertext is the vector of the slots it encrypts: two rows of        *)
(* SlotRow slots, integers modulo Plain.  The evaluator's operations are   *)
(* what they do to the slots.  Encryption, noise, relinearization and the  *)
(* modulus chain are left out.                                             *)
(***************************************************************************)
EXTENDS Integers, Sequences, FiniteSets, Functions

CONSTANTS
  KeyBits,       \* key_bits, a power of two
  SlotRow,       \* slots in one of the two rows of a plaintext
  BucketCounts,  \* the values result_buckets may be configured to
  RecordBytes,   \* record_bytes
  BytesPerSlot,  \* bytes_per_slot
  Byte,          \* number of byte values (256 in the code)
  Plain,         \* the plaintext modulus
  MixOf,         \* the splitmix finalizer, on the keys of the instance
  Key,           \* keys, numbers below 2^KeyBits
  Shard,         \* the shards
  Payload,       \* the records of the rows, in table order
  Op,            \* the operators asked: a subset of {"eq", "ne"}
  MaxOperands    \* bound on the values a query lists

IsPowerOfTwo(n) == \E i \in 0 .. n : 2 ^ i = n

ASSUME ConstantsAssumption ==
  /\ IsPowerOfTwo(KeyBits) /\ SlotRow % KeyBits = 0
  /\ \A n \in BucketCounts : IsPowerOfTwo(n) /\ n <= SlotRow \div KeyBits
  /\ \A i \in DOMAIN Payload : Payload[i] \in [1 .. RecordBytes -> 0 .. Byte - 1]
  /\ IsInjective(Payload)
  /\ Key \subseteq 0 .. 2 ^ KeyBits - 1
  /\ Byte ^ BytesPerSlot <= Plain
  /\ Op \subseteq {"eq", "ne"}

VARIABLES
  buckets,  \* result_buckets
  table,    \* the rows of all shards: key and shard of each, in table order
  op,       \* the query's operator
  values,   \* the values it lists, as written
  pending,  \* per shard: the batches still to be processed
  planes,   \* per shard: the accumulated planes, then presence
  status,   \* "new", "asked", "ok" or "refused"
  results   \* what the client decodes, per bucket

vars == <<buckets, table, op, values, pending, planes, status, results>>

-----------------------------------------------------------------------------
(* Slot vectors.                                                           *)

Slots == 0 .. 2 * SlotRow - 1

Const(c) == [i \in Slots |-> c]
Plus(u, v) == [i \in Slots |-> (u[i] + v[i]) % Plain]
Minus(u, v) == [i \in Slots |-> (u[i] - v[i]) % Plain]
Times(u, v) == [i \in Slots |-> (u[i] * v[i]) % Plain]

\* rotate_rows: each row by itself, to the left for a positive step.
Rotate(v, step) ==
  [i \in Slots |-> v[(i \div SlotRow) * SlotRow + (((i % SlotRow) + step) % SlotRow)]]

Bit(key, b) == (key \div 2 ^ b) % 2

\* v combined with itself rotated by step, 2 * step, ... while below hi.
RECURSIVE Doubled(_, _, _, _, _)
Doubled(T(_, _), v, step, hi, sign) ==
  IF step >= hi THEN v
  ELSE LET w == T(v, Rotate(v, sign * step)) IN Doubled(T, w, 2 * step, hi, sign)

-----------------------------------------------------------------------------
(* Geometry and placement.                                                 *)

Seg == (SlotRow \div KeyBits) \div buckets
BucketStride == SlotRow \div buckets
PayloadBytesPerBlock == KeyBits * BytesPerSlot
PayloadPlaneCount == (RecordBytes + PayloadBytesPerBlock - 1) \div PayloadBytesPerBlock

Mix(key) == MixOf[key]

RowsOf(s) == {r \in DOMAIN table : table[r].shard = s}

\* Mutant of Bucket: the rows of a key do not walk.
BucketFixed(r) == Mix(table[r].key) % buckets

\* The i-th row of its key, in its shard, goes to bucket Mix(key) + i.
Bucket(r) ==
  LET earlier == {q \in RowsOf(table[r].shard) : q < r /\ table[q].key = table[r].key}
  IN  (Mix(table[r].key) + Cardinality(earlier)) % buckets

\* The batch and the slot of a row: the next free block of its bucket.
Place(r) ==
  LET o == Cardinality({q \in RowsOf(table[r].shard) : q < r /\ Bucket(q) = Bucket(r)})
      k == o % (2 * Seg)
      block == Bucket(r) * Seg + (k % Seg)
  IN  [batch |-> o \div (2 * Seg),
       slot |-> (IF k < Seg THEN 0 ELSE SlotRow) + block * KeyBits]

Batches(s) == {Place(r).batch : r \in RowsOf(s)}

\* The rows of a batch by the slot they are placed at.
Layout(s, b) ==
  LET items == {r \in RowsOf(s) : Place(r).batch = b}
  IN  [at \in {Place(r).slot : r \in items} |-> CHOOSE r \in items : Place(r).slot = at]

\* The slots of a vector made of blocks: Val(r, j) is slot j of row r's block.
Blocks(layout, Val(_, _)) ==
  [i \in Slots |-> LET at == i - (i % KeyBits) IN
     IF at \in DOMAIN layout THEN Val(layout[at], i % KeyBits) ELSE 0]

KeySlots(layout) == LET V(r, j) == Bit(table[r].key, j) IN Blocks(layout, V)

\* Mutant of StartMask: every block start is marked, occupied or not.
StartMaskStatic(layout) == [i \in Slots |-> IF i % KeyBits = 0 THEN 1 ELSE 0]

\* A 1 at every occupied block start.
StartMask(layout) == LET V(r, j) == IF j = 0 THEN 1 ELSE 0 IN Blocks(layout, V)

\* PackBytesToSlots: slot j of plane p holds bytes_per_slot bytes, the first one lowest.
PlaneSlots(layout, p) ==
  LET V(r, j) ==
        LET first == p * PayloadBytesPerBlock + j * BytesPerSlot
            byte(b) == IF first + b < RecordBytes THEN Payload[r][first + b + 1] * (Byte ^ b) ELSE 0
        IN  SumFunction([b \in 0 .. BytesPerSlot - 1 |-> byte(b)])
  IN  Blocks(layout, V)

-----------------------------------------------------------------------------
(* One batch.                                                              *)

\* EncryptOperand: the bits of the value, tiled over all slots.
Operand(value) == [i \in Slots |-> Bit(value, i % KeyBits)]

\* 1 - (operand - key)^2, then the product over each block at its start.
EqualityIndicator(layout, value) ==
  LET d == Minus(Operand(value), KeySlots(layout))
  IN  Doubled(Times, Minus(Const(1), Times(d, d)), 1, KeyBits, 1)

\* BuildEncryptedOperands: duplicates are dropped.
Operands == Range(values)

\* The sum of the operands' indicators at occupied starts, inverted for '<>',
\* and broadcast over each block.
Selected(layout) ==
  LET mask == StartMask(layout)
      eq == FoldFunctionOnSet(Plus, Const(0), [v \in Operands |-> EqualityIndicator(layout, v)], Operands)
      hit == Times(eq, mask)
      sel == IF op = "ne" THEN Minus(mask, hit) ELSE hit
  IN  Doubled(Plus, sel, 1, KeyBits, -1)

\* The blocks of each bucket are summed into its first block.
BucketSum(v) == Doubled(Plus, v, KeyBits, BucketStride, 1)

Planes == 0 .. PayloadPlaneCount  \* the last one is presence

\* process_batch: what a batch adds to each plane.
BatchPlane(layout, p) ==
  LET sel == Selected(layout)
  IN  BucketSum(IF p = PayloadPlaneCount THEN sel ELSE Times(sel, PlaneSlots(layout, p)))

-----------------------------------------------------------------------------
(* The query.                                                              *)

NoPlanes == [p \in {} |-> Const(0)]

Init ==
  /\ buckets \in BucketCounts
  /\ table \in UNION {[1 .. n -> [key: Key, shard: Shard]] : n \in 0 .. Len(Payload)}
  /\ op \in Op
  /\ values \in UNION {[1 .. n -> Key] : n \in 1 .. (IF op = "eq" THEN MaxOperands ELSE 1)}
  /\ pending = [s \in Shard |-> {}]
  /\ planes = [s \in Shard |-> NoPlanes]
  /\ status = "new"
  /\ results = <<>>

\* EvaluateShard: the template lists as many operands as values were written, and
\* as many ciphertexts must have come.  An empty shard has no planes.
Ask ==
  /\ status = "new"
  /\ IF Cardinality(Operands) # Len(values)
       THEN status' = "refused" /\ UNCHANGED <<pending, planes>>
       ELSE /\ status' = "asked"
            /\ pending' = [s \in Shard |-> Batches(s)]
            /\ planes' = [s \in Shard |-> [p \in (IF RowsOf(s) = {} THEN {} ELSE Planes) |-> Const(0)]]
  /\ UNCHANGED <<buckets, table, op, values, results>>

\* A worker thread of a shard processes a batch.
ProcessBatch(s, b) ==
  LET layout == Layout(s, b) IN
  /\ status = "asked" /\ b \in pending[s]
  /\ pending' = [pending EXCEPT ![s] = @ \ {b}]
  /\ planes' = [planes EXCEPT ![s] = [p \in Planes |-> Plus(@[p], BatchPlane(layout, p))]]
  /\ UNCHANGED <<buckets, table, op, values, status, results>>

\* combine: the planes of the shards that have any, plane by plane.
Combined ==
  LET some == {s \in Shard : planes[s] # NoPlanes}
  IN  [p \in (IF some = {} THEN {} ELSE Planes) |->
         FoldFunctionOnSet(Plus, Const(0), [s \in some |-> planes[s][p]], some)]

\* bucket_block: the two rows of a bucket's first block.
Block(v, g, j) == v[g * BucketStride + j] + v[SlotRow + g * BucketStride + j]

\* UnpackSlotsToBytes over the planes: byte n of bucket g's record.
UnpackedByte(c, g, n) ==
  LET inBlock == n % PayloadBytesPerBlock
      slot == Block(c[n \div PayloadBytesPerBlock], g, inBlock \div BytesPerSlot)
  IN  (slot \div Byte ^ (inBlock % BytesPerSlot)) % Byte

\* Mutant of DecryptResults: a collided bucket is read as a row.
DecryptCollisions(c) ==
  [g \in 1 .. buckets |->
     LET count == Block(c[PayloadPlaneCount], g - 1, 0)
     IN  [count |-> IF count = 0 THEN 0 ELSE 1,
          record |-> [n \in 1 .. RecordBytes |-> UnpackedByte(c, g - 1, n - 1)]]]

\* DecryptResults: a bucket is absent, clean or collided.
DecryptResults(c) ==
  [g \in 1 .. buckets |->
     LET count == Block(c[PayloadPlaneCount], g - 1, 0)
     IN  [count |-> count,
          record |-> IF count = 1
                       THEN [n \in 1 .. RecordBytes |-> UnpackedByte(c, g - 1, n - 1)]
                       ELSE <<>>]]

Decode ==
  /\ status = "asked" /\ \A s \in Shard : pending[s] = {}
  /\ status' = "ok"
  /\ results' = IF Combined = NoPlanes THEN <<>> ELSE DecryptResults(Combined)
  /\ pending' = pending /\ planes' = [s \in Shard |-> NoPlanes]
  /\ UNCHANGED <<buckets, table, op, values>>

Next ==
  \/ Ask
  \/ \E s \in Shard : \E b \in pending[s] : ProcessBatch(s, b)
  \/ Decode

Spec == Init /\ [][Next]_vars

-----------------------------------------------------------------------------
(* Properties.                                                             *)

\* The rows the WHERE clause asks for.
Matching ==
  {r \in DOMAIN table : (table[r].key \in Range(values)) = (op = "eq")}

Records(rows) == {Payload[r] : r \in rows}

\* CollectClean: the rows of the buckets that hold exactly one.
CleanBuckets == {g \in DOMAIN results : results[g].count = 1}
Clean == {results[g].record : g \in CleanBuckets}

\* QueryCount: the sum of the buckets' counts.
QueryCount == SumFunction([g \in DOMAIN results |-> results[g].count])

\* The type invariant.
TypeOK ==
  /\ status \in {"new", "asked", "ok", "refused"}
  /\ pending \in [Shard -> SUBSET (0 .. Len(Payload))]
  /\ \A s \in Shard :
       /\ DOMAIN planes[s] \in {{}, Planes}
       /\ \A p \in DOMAIN planes[s] : planes[s][p] \in [Slots -> 0 .. Plain - 1]

\* "summing the per-bucket counts is the exact total even when rows collide in a
\* bucket" (client/query_client.cpp:417-419), over all shards, operands and
\* batches, for '=' and '<>', key 0 and empty blocks included.  The tables of the run
\* hold fewer rows than the plaintext modulus: a bucket's count is kept modulo Plain, and
\* one that reaches it wraps without a sign.
CountExact == status = "ok" => QueryCount = Cardinality(Matching)

\* A bucket that is read as a row is a matching row, byte for byte, and no row
\* is read twice; the others are counted as collided (client/query_client.cpp:325-327).
CleanRowsMatch ==
  status = "ok" =>
    /\ Clean \subseteq Records(Matching)
    /\ Cardinality(Clean) = Cardinality(CleanBuckets)

\* Rows sharing a key land "in distinct buckets (no collision until a key has more
\* than `buckets` rows)" (backend/reference/reference.cpp:177-178): a point query
\* answered by one shard returns all of them.
PointQueryComplete ==
  /\ status = "ok" /\ op = "eq" /\ Cardinality(Operands) = 1
  /\ Cardinality(Matching) <= buckets
  /\ \A q, r \in Matching : table[q].shard = table[r].shard
  => Clean = Records(Matching)

\* "both shard rows matching the value must be returned"
\* (tests/matcher_bug_repro_test.cpp:160-161), whatever shards they are on.
SameValueRowsReturned ==
  /\ status = "ok" /\ op = "eq" /\ Cardinality(Operands) = 1
  /\ Cardinality(Matching) <= buckets
  => Clean = Records(Matching)

\* "WHERE k IN (...) returns every listed row" (tests/server_test.cpp:129), on one
\* shard and up to as many rows as there are buckets.
EveryListedRowReturned ==
  status = "ok" /\ op = "eq" /\ Cardinality(Matching) <= buckets
    => Clean = Records(Matching)

\* IN (42, 42) "builds a single operand and the row comes back clean"
\* (tests/matcher_bug_repro_test.cpp:167-168): a repeated value is no reason to
\* refuse a query.
RepeatedValueAnswered == status # "refused"
=============================================================================
