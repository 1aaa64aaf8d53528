----------------------------- MODULE EpochFiles -----------------------------
(***************************************************************************)
(* What an epoch directory holds (storage/segment.cpp, epoch_manifest.cpp, *)
(* staging.cpp, local_repository.cpp): a manifest and two segments, one of *)
(* match and one of payload records.  A segment file is the fields of its  *)
(* header and the bytes after it; a file cut short has fewer of either.    *)
(***************************************************************************)
EXTENDS Records

CONSTANTS Wide   \* what a 64-bit size wraps at

Magic == 1
FormatVersion == 1

\* Crc32: 0 of no bytes, and different when one byte is.
Crc(bytes) ==
  LET upto[i \in 0 .. Len(bytes)] == IF i = 0 THEN 0 ELSE (upto[i - 1] + bytes[i] + 1) % (Base + 1)
  IN  upto[Len(bytes)]

\* WriteSegment, of records that all have record_bytes bytes.
WriteSegment(record_bytes, records) ==
  LET region == Concat(records)
  IN  [header |-> <<Magic, FormatVersion, record_bytes, Len(records), Crc(region)>>,
       region |-> region]

\* Mutant of SegmentOpens: the checksum is not computed.
SegmentOpensUnchecked(file, expect) ==
  /\ Len(file.header) = 5
  /\ file.header[1] = Magic /\ file.header[2] = FormatVersion
  /\ LET record_bytes == file.header[3]
         count == file.header[4]
         size == count * record_bytes
     IN  /\ record_bytes # 0
         /\ size < Wide /\ size <= Len(file.region)
         /\ expect.record_bytes # 0 => record_bytes = expect.record_bytes
         /\ expect.record_count # 0 => count = expect.record_count
         /\ expect.crc32 # 0 => file.header[5] = expect.crc32

\* SegmentReader::Open: the header, the size it declares, its checksum, and what
\* the manifest says unless that is 0.
SegmentOpens(file, expect) ==
  /\ Len(file.header) = 5
  /\ file.header[1] = Magic /\ file.header[2] = FormatVersion
  /\ LET record_bytes == file.header[3]
         count == file.header[4]
         size == count * record_bytes
         crc == Crc(SubSeq(file.region, 1, size))
     IN  /\ record_bytes # 0
         /\ size < Wide /\ size <= Len(file.region)
         /\ crc = file.header[5]
         /\ expect.record_bytes # 0 => record_bytes = expect.record_bytes
         /\ expect.record_count # 0 => count = expect.record_count
         /\ expect.crc32 # 0 => crc = expect.crc32

\* SegmentReader::Record, for each record.
SegmentRecords(file) ==
  LET size == file.header[3]
  IN  [i \in 1 .. file.header[4] |-> SubSeq(file.region, (i - 1) * size + 1, i * size)]

-----------------------------------------------------------------------------

\* What the manifest says of a segment.
Descriptor(file) ==
  [record_bytes |-> file.header[3], record_count |-> file.header[4], crc32 |-> file.header[5]]

\* StagingEpoch::Validate, SlotGeometry::Validate: a geometry here is the layout of an
\* epoch, its schema and key width included.
StagingValid(g) ==
  /\ Valid(g.columns)
  /\ g.key_bits \in 1 .. 64
  /\ g.slot_count # 0 /\ g.bytes_per_slot # 0 /\ g.record_bytes # 0

\* EpochManifest::Validate.
ManifestValid(m) ==
  /\ StagingValid(m)
  /\ m.match.record_count = m.payload.record_count
  /\ m.match.record_bytes = SearchableCount(m.columns) * MatchRecordBytes(m.key_bits)
  /\ m.payload.record_bytes = m.record_bytes

\* StagingEpoch::AppendRow takes only rows of the epoch's sizes.
Appendable(geometry, row) ==
  /\ Len(row.match) = SearchableCount(geometry.columns) * MatchRecordBytes(geometry.key_bits)
  /\ Len(row.payload) = geometry.record_bytes

\* LocalEpochRepository::Publish: the files of the rows of a staging epoch.
EpochOf(geometry, rows) ==
  LET match == WriteSegment(SearchableCount(geometry.columns) * MatchRecordBytes(geometry.key_bits),
                            [i \in DOMAIN rows |-> rows[i].match])
      payload == WriteSegment(geometry.record_bytes, [i \in DOMAIN rows |-> rows[i].payload])
  IN  [match |-> match, payload |-> payload,
       manifest |-> [columns |-> geometry.columns, key_bits |-> geometry.key_bits,
                     slot_count |-> geometry.slot_count,
                     bytes_per_slot |-> geometry.bytes_per_slot,
                     record_bytes |-> geometry.record_bytes,
                     match |-> Descriptor(match), payload |-> Descriptor(payload)]]

\* OpenVersion.
Opens(epoch) ==
  /\ ManifestValid(epoch.manifest)
  /\ SegmentOpens(epoch.match, epoch.manifest.match)
  /\ SegmentOpens(epoch.payload, epoch.manifest.payload)

\* EpochReader: its rows.
RowsOf(epoch) ==
  LET match == SegmentRecords(epoch.match)
      payload == SegmentRecords(epoch.payload)
  IN  [i \in DOMAIN match |-> [match |-> match[i], payload |-> payload[i]]]

-----------------------------------------------------------------------------
(* Rows.                                                                   *)

Names(columns) == {columns[i].name : i \in DOMAIN columns}

ValuesOf(columns, cells) ==
  [i \in DOMAIN columns |-> ParseValue(columns[i].type, cells[columns[i].name])]

\* The values without the key's, in schema order.
PayloadOf(columns, cells) ==
  LET values == ValuesOf(columns, cells)
      k == KeyIndex(columns)
  IN  SubSeq(values, 1, k - 1) \o SubSeq(values, k + 1, Len(values))

KeyOf(columns, cells) == ValuesOf(columns, cells)[KeyIndex(columns)]

RowFits(g, cells) ==
  /\ KeysFit(g.columns, KeyOf(g.columns, cells), PayloadOf(g.columns, cells), g.key_bits)
  /\ Fits(PayloadOf(g.columns, cells), g.record_bytes)

RowOf(g, cells) ==
  [match |-> EncodeMatchRecord(g.columns, KeyOf(g.columns, cells),
                               PayloadOf(g.columns, cells), g.key_bits),
   payload |-> EncodeRecord(PayloadOf(g.columns, cells), g.record_bytes)]

\* The layout of an epoch, for an insert.
GeometryOf(manifest) ==
  [columns |-> manifest.columns, key_bits |-> manifest.key_bits,
   slot_count |-> manifest.slot_count, bytes_per_slot |-> manifest.bytes_per_slot,
   record_bytes |-> manifest.record_bytes]

-----------------------------------------------------------------------------
(* The disk.                                                               *)

\* The sequence with one element changed.
Altered(seq, values) == UNION {{[seq EXCEPT ![i] = v] : v \in values} : i \in DOMAIN seq}

\* The file cut short, longer, or with one field or byte changed.
Damages(file) ==
  {[file EXCEPT !.header = SubSeq(@, 1, i), !.region = <<>>] : i \in 0 .. Len(file.header) - 1}
  \cup {[file EXCEPT !.region = SubSeq(@, 1, i)] : i \in 0 .. Len(file.region) - 1}
  \cup {[file EXCEPT !.region = Append(@, b)] : b \in 0 .. Base - 1}
  \cup {[file EXCEPT !.header = h] : h \in Altered(file.header, 0 .. 12)}
  \cup {[file EXCEPT !.region = r] : r \in Altered(file.region, 0 .. Base - 1)}
=============================================================================
