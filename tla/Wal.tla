--------------------------------- MODULE Wal ---------------------------------
(***************************************************************************)
(* The write-ahead log (storage/wal.cpp): WalWriter appends one framed     *)
(* entry at a time and syncs it, ReplayWal returns the entries up to the   *)
(* first one that is incomplete or fails its CRC.  Writes may stop half    *)
(* way, calls may fail, the process and the machine may die, and the log   *)
(* is opened again for appending without being cut.                        *)
(*                                                                         *)
(* The file is a sequence of words: a length, a CRC, then the payload.     *)
(* The CRC of other bytes never matches by chance, so a length read from   *)
(* the middle of a frame ends the replay.                                  *)
(***************************************************************************)
EXTENDS Integers, Sequences

CONSTANTS
  Value,           \* the words of a payload
  MaxPayload,      \* bound on the words of a payload
  MaxAppends       \* bound on the calls of Append

ASSUME BoundsAssumption == MaxPayload \in Nat /\ MaxAppends \in Nat

VARIABLES
  log,      \* the words of the file
  synced,   \* how many of them an fsync covered
  pc,       \* the writer: closed, idle (open), or inside Append at write or sync
  pending,  \* the words Append has still to write
  called,   \* history: the entries Append was called with
  acked,    \* history: which calls of Append returned ok
  behind,   \* history: which calls found the last frame of the log torn
  zeroed    \* history: a loss of power has left zeros for unsynced words

vars == <<log, synced, pc, pending, called, acked, behind, zeroed>>

-----------------------------------------------------------------------------
(* Frames.                                                                 *)

\* The word 0.
Zero == [zero |-> 0]

Entry == UNION {[1 .. n -> {[data |-> v] : v \in Value}] : n \in 0 .. MaxPayload}

LengthWord(n) == IF n = 0 THEN Zero ELSE [length |-> n]

\* Crc32 of no bytes is 0.
CrcWord(payload) == IF payload = <<>> THEN Zero ELSE [crc |-> payload]

Frame(entry) == <<LengthWord(Len(entry)), CrcWord(entry)>> \o entry

\* Mutant of IsFrame: the CRC is not compared.
CrcIgnored(words, i, n) ==
  i + n + 1 <= Len(words) /\ words[i] = LengthWord(n)

\* At word i starts a whole frame of n payload words whose CRC matches.
IsFrame(words, i, n) ==
  /\ i + n + 1 <= Len(words)
  /\ words[i] = LengthWord(n)
  /\ words[i + 1] = CrcWord(SubSeq(words, i + 2, i + n + 1))

\* The loop of ReplayWal from word i on: the entries before the first torn or
\* corrupt frame, and where that frame begins.
ReplayFrom(words) ==
  LET from[i \in 1 .. Len(words) + 1] ==
        LET fits == {n \in 0 .. MaxPayload : IsFrame(words, i, n)}
        IN  IF fits = {}
              THEN [entries |-> <<>>, stop |-> i]
              ELSE LET n == CHOOSE n \in fits : TRUE
                   IN  [entries |-> <<SubSeq(words, i + 2, i + n + 1)>>
                                      \o from[i + n + 2].entries,
                        stop |-> from[i + n + 2].stop]
  IN  from

\* ReplayWal.
Replay(words) == ReplayFrom(words)[1]

\* The last frame is incomplete.
Torn == Replay(log).stop <= Len(log)

-----------------------------------------------------------------------------

Init ==
  /\ log = <<>>
  /\ synced = 0
  /\ pc = "closed"
  /\ pending = <<>>
  /\ called = <<>>
  /\ acked = {}
  /\ behind = {}
  /\ zeroed = FALSE

\* Mutant of Open: the file is truncated.
OpenTruncates ==
  /\ pc = "closed"
  /\ pc' = "idle"
  /\ log' = <<>>
  /\ synced' = 0
  /\ UNCHANGED <<pending, called, acked, behind, zeroed>>

\* WalWriter::Open: O_CREAT | O_APPEND, what is there stays.
Open ==
  /\ pc = "closed"
  /\ pc' = "idle"
  /\ UNCHANGED <<log, synced, pending, called, acked, behind, zeroed>>

\* Append is called and frames its entry.
BeginAppend ==
  /\ pc = "idle"
  /\ Len(called) < MaxAppends  \* bound
  /\ \E entry \in Entry :
       /\ pending' = Frame(entry)
       /\ called' = Append(called, entry)
  /\ behind' = behind \cup {n \in {Len(called) + 1} : Torn}
  /\ pc' = "write"
  /\ UNCHANGED <<log, synced, acked, zeroed>>

\* WriteAll: write() takes some of the bytes and is called again for the rest.
WriteAll ==
  /\ pc = "write"
  /\ log' = Append(log, Head(pending))
  /\ pending' = Tail(pending)
  /\ pc' = IF pending' = <<>> THEN "sync" ELSE "write"
  /\ UNCHANGED <<synced, called, acked, behind, zeroed>>

\* Mutant of Sync: ok is returned before the data is on the disk.
SyncSkipped ==
  /\ pc = "sync"
  /\ acked' = acked \cup {Len(called)}
  /\ pc' = "idle"
  /\ UNCHANGED <<log, synced, pending, called, behind, zeroed>>

\* fsync, and Append returns ok.
Sync ==
  /\ pc = "sync"
  /\ synced' = Len(log)
  /\ acked' = acked \cup {Len(called)}
  /\ pc' = "idle"
  /\ UNCHANGED <<log, pending, called, behind, zeroed>>

\* write or fsync fails: Append returns the error and the log stays open.
Fail ==
  /\ pc \in {"write", "sync"}
  /\ pc' = "idle"
  /\ pending' = <<>>
  /\ UNCHANGED <<log, synced, called, acked, behind, zeroed>>

\* WalWriter::Close.
Close ==
  /\ pc = "idle"
  /\ pc' = "closed"
  /\ UNCHANGED <<log, synced, pending, called, acked, behind, zeroed>>

\* The process dies.
Crash ==
  /\ pc # "closed"
  /\ pc' = "closed"
  /\ pending' = <<>>
  /\ UNCHANGED <<log, synced, called, acked, behind, zeroed>>

\* The machine dies: of the words after the last fsync a prefix is on the disk,
\* and where the file had grown further zeros may follow.
PowerLoss ==
  /\ \E kept \in synced .. Len(log), size \in synced .. Len(log) :
       /\ kept <= size
       /\ log' = [i \in 1 .. size |-> IF i <= kept THEN log[i] ELSE Zero]
       /\ synced' = size
       /\ zeroed' = (zeroed \/ kept < size)
  /\ pc' = "closed"
  /\ pending' = <<>>
  /\ UNCHANGED <<called, acked, behind>>

Next ==
  \/ Open \/ BeginAppend \/ WriteAll \/ Sync \/ Fail \/ Close
  \/ Crash \/ PowerLoss

Spec == Init /\ [][Next]_vars

-----------------------------------------------------------------------------
(* Properties.                                                             *)

\* The type invariant.
TypeOK ==
  /\ synced \in 0 .. Len(log)
  /\ pc \in {"closed", "idle", "write", "sync"}
  /\ Len(called) <= MaxAppends
  /\ acked \cup behind \subseteq 1 .. Len(called)
  /\ zeroed \in BOOLEAN
  /\ pending # <<>> <=> pc = "write"

\* origin names for each replayed entry the call of Append that it is from, in
\* the order of the calls.  The CRC of no bytes is 0, so zeros left by a loss
\* of power read as empty entries that are from no call.
Traces(entries, origin) ==
  /\ \A i \in DOMAIN entries :
       IF origin[i] = 0 THEN zeroed /\ entries[i] = <<>>
                        ELSE entries[i] = called[origin[i]]
  /\ \A i, j \in DOMAIN entries :
       i < j /\ origin[i] # 0 /\ origin[j] # 0 => origin[i] < origin[j]

\* Replay returns only entries that were appended, in the order of the calls
\* and none twice ("the valid prefix of entries", storage/wal.h:49-51): what
\* remains of a crash is never an entry, zeros that read as empty ones apart.
ReplayedWereAppended ==
  LET entries == Replay(log).entries
  IN  \E origin \in [DOMAIN entries -> 0 .. Len(called)] : Traces(entries, origin)

\* "The entry is durable when this returns ok" (storage/wal.h:36): every entry
\* Append acknowledged is replayed, whatever fails or dies later, unless the
\* log already ended in a torn frame when Append was called.
AckedReplayed ==
  LET entries == Replay(log).entries
  IN  \E origin \in [DOMAIN entries -> 0 .. Len(called)] :
        /\ Traces(entries, origin)
        /\ \A n \in acked \ behind : \E i \in DOMAIN entries : origin[i] = n

StartsWith(s, t) == Len(t) <= Len(s) /\ t = SubSeq(s, 1, Len(t))

\* What an fsync has covered stays replayable: no later append, failure or loss
\* of power shortens or changes the entries replayed from the synced words.
SyncedStaysReplayed ==
  [][StartsWith(Replay(log').entries, Replay(SubSeq(log, 1, synced)).entries)]_vars
=============================================================================
