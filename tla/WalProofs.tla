------------------------------ MODULE WalProofs ------------------------------
(***************************************************************************)
(* What ReplayWal returns of a log that was cut, zeroed and appended to at *)
(* any word, for every set of values and every bound on payloads and       *)
(* appends.                                                                *)
(***************************************************************************)
EXTENDS Wal, TLAPS, WellFoundedInduction

-----------------------------------------------------------------------------
(* Induction over the numbers, with a set for the statement.               *)

\* A set of numbers has a least one.
LEMMA LeastExists ==
  ASSUME NEW S, S \subseteq Nat, S # {}
  PROVE  \E x \in S : \A y \in S : x <= y
<1> DEFINE Below == {ss \in Nat \X Nat : ss[1] < ss[2]}
<1>1. IsWellFoundedOn(Below, Nat)
  BY NatLessThanWellFounded, Zenon DEF OpToRel
<1> HIDE DEF Below
<1>2. PICK x \in S : \A y \in S : ~ (<<y, x>> \in Below)
  BY <1>1, WFMin, Zenon
<1>3. ASSUME NEW y \in S, y < x PROVE FALSE
  <2> DEFINE yx == <<y, x>>
  <2>1. yx \in Nat \X Nat /\ yx[1] = y /\ yx[2] = x
    OBVIOUS
  <2> HIDE DEF yx
  <2>2. yx \in Below
    BY <1>3, <2>1, Zenon DEF Below
  <2> QED BY <1>2, <2>2, Zenon DEF yx
<1> QED BY <1>3

\* A set that holds 0 and the successor of each of its numbers holds all.
LEMMA SetInduction ==
  ASSUME NEW S, 0 \in S, \A n \in Nat : n \in S => n + 1 \in S
  PROVE  \A n \in Nat : n \in S
<1> DEFINE T == {n \in Nat : n \notin S}
<1>1. SUFFICES ASSUME T # {} PROVE FALSE
  OBVIOUS
<1>2. PICK x \in T : \A y \in T : x <= y
  BY <1>1, LeastExists, Zenon
<1>3. x # 0 /\ x - 1 \in Nat /\ x - 1 \notin T
  BY <1>2
<1> QED BY <1>2, <1>3

-----------------------------------------------------------------------------
(* Words.                                                                  *)

\* The words that a log consists of.
Word ==
  {Zero} \cup {[length |-> n] : n \in 1 .. MaxPayload}
         \cup {[crc |-> entry] : entry \in Entry \ {<<>>}}
         \cup {[data |-> v] : v \in Value}

\* Words of different kinds differ, and a word tells what it holds.
LEMMA WordsDiffer ==
  ASSUME NEW a, NEW b
  PROVE  /\ Zero # [length |-> a] /\ Zero # [crc |-> a] /\ Zero # [data |-> a]
         /\ [length |-> a] # [crc |-> b] /\ [length |-> a] # [data |-> b]
         /\ [crc |-> a] # [data |-> b]
         /\ [length |-> a] = [length |-> b] => a = b
         /\ [crc |-> a] = [crc |-> b] => a = b
BY Zenon DEF Zero

\* A length word tells the length.
LEMMA LengthWordTells ==
  ASSUME NEW m \in Nat, NEW n \in Nat, LengthWord(m) = LengthWord(n)
  PROVE  m = n
BY WordsDiffer, Zenon DEF LengthWord

\* A frame at a word has one length.
LEMMA FrameUnique ==
  ASSUME NEW words, NEW i, NEW m \in Nat, NEW n \in Nat,
         IsFrame(words, i, m), IsFrame(words, i, n)
  PROVE  m = n
BY LengthWordTells, Zenon DEF IsFrame

-----------------------------------------------------------------------------
(* ReplayFrom is the function that its recursive definition describes.     *)

\* The lengths that a frame at word i may have.
Fits(words, i) == {n \in 0 .. MaxPayload : IsFrame(words, i, n)}

\* What the loop returns from word i, when from says what it returns later.
Step(words, from, i) ==
  IF Fits(words, i) = {}
    THEN [entries |-> <<>>, stop |-> i]
    ELSE LET n == CHOOSE n \in Fits(words, i) : TRUE
         IN  [entries |-> <<SubSeq(words, i + 2, i + n + 1)>>
                            \o from[i + n + 2].entries,
              stop |-> from[i + n + 2].stop]

\* The step at word i reads the function only further on.
LEMMA StepLooksAhead ==
  ASSUME NEW words \in Seq(Word), NEW i \in 1 .. Len(words) + 1, NEW f, NEW g,
         \A j \in i + 1 .. Len(words) + 1 : f[j] = g[j]
  PROVE  Step(words, f, i) = Step(words, g, i)
<1>1. CASE Fits(words, i) = {}
  BY <1>1, Zenon DEF Step
<1>2. CASE Fits(words, i) # {}
  <2> DEFINE n == CHOOSE n \in Fits(words, i) : TRUE
  <2>1. n \in Fits(words, i)
    BY <1>2, Zenon
  <2> HIDE DEF n
  <2>2. f[i + n + 2] = g[i + n + 2]
    <3>1. n \in Nat /\ i + n + 1 <= Len(words)
      BY <2>1, BoundsAssumption DEF Fits, IsFrame
    <3>2. i + n + 2 \in i + 1 .. Len(words) + 1
      BY <3>1
    <3> QED BY <3>2, Zenon
  <2> QED BY <1>2, <2>2, Zenon DEF Step, n
<1> QED BY <1>1, <1>2, Zenon

\* The recursion has a solution from the last word down to the first.
LEMMA StepsExist ==
  ASSUME NEW words \in Seq(Word)
  PROVE  \E f : f = [i \in 1 .. Len(words) + 1 |-> Step(words, f, i)]
<1> DEFINE L == Len(words)
           Have == {m \in Nat : m <= L =>
                      \E f : f = [i \in L + 1 - m .. L + 1 |-> Step(words, f, i)]}
<1>0. L \in Nat
  OBVIOUS
<1>1. 0 \in Have
  <2>1. Fits(words, L + 1) = {}
    BY BoundsAssumption DEF Fits, IsFrame
  <2> DEFINE f == [i \in L + 1 .. L + 1 |-> [entries |-> <<>>, stop |-> i]]
  <2>2. \A i \in L + 1 .. L + 1 : Step(words, f, i) = [entries |-> <<>>, stop |-> i]
    <3>1. Step(words, f, L + 1) = [entries |-> <<>>, stop |-> L + 1]
      BY <2>1, Zenon DEF Step
    <3> HIDE DEF f
    <3>2. \A i \in L + 1 .. L + 1 : i = L + 1
      BY <1>0
    <3> QED BY <3>1, <3>2, Zenon
  <2>3. f = [i \in L + 1 .. L + 1 |-> Step(words, f, i)]
    BY <2>2, Zenon
  <2>4. L + 1 - 0 = L + 1
    BY <1>0
  <2> HIDE DEF f, L
  <2> QED BY <2>3, <2>4, Zenon
<1>2. ASSUME NEW m \in Nat, m \in Have PROVE m + 1 \in Have
  <2> SUFFICES ASSUME m + 1 <= L
               PROVE  \E f : f = [i \in L + 1 - (m + 1) .. L + 1 |-> Step(words, f, i)]
    OBVIOUS
  <2> DEFINE lo == L + 1 - (m + 1)
  <2>0. lo \in 1 .. L /\ lo + 1 = L + 1 - m
    BY <1>0
  <2>1. PICK g : g = [i \in L + 1 - m .. L + 1 |-> Step(words, g, i)]
    BY <1>2, <1>0
  <2> DEFINE f == [i \in lo .. L + 1 |-> Step(words, g, i)]
  <2> HIDE DEF lo
  <2>2. \A j \in lo + 1 .. L + 1 : f[j] = g[j]
    <3> TAKE j \in lo + 1 .. L + 1
    <3>1. j \in lo .. L + 1
      BY <1>0, <2>0
    <3>2. f[j] = Step(words, g, j)
      BY <3>1, Zenon
    <3>3. g[j] = Step(words, g, j)
      BY <2>0, <2>1, Zenon
    <3> QED BY <3>2, <3>3, Zenon
  <2> HIDE DEF f
  <2>3. \A i \in lo .. L + 1 : Step(words, f, i) = Step(words, g, i)
    <3> TAKE i \in lo .. L + 1
    <3>1. i \in 1 .. L + 1 /\ \A j \in i + 1 .. L + 1 : j \in lo + 1 .. L + 1
      BY <1>0, <2>0
    <3>2. \A j \in i + 1 .. Len(words) + 1 : f[j] = g[j]
      BY <2>2, <3>1, Zenon
    <3> QED BY <3>1, <3>2, StepLooksAhead, Zenon
  <2>4. f = [i \in lo .. L + 1 |-> Step(words, f, i)]
    BY <2>3, Zenon DEF f
  <2> QED BY <2>4, Zenon DEF lo
<1> HIDE DEF Have
<1>3. L \in Have
  BY <1>0, <1>1, <1>2, SetInduction, Zenon
<1>4. L + 1 - L = 1
  BY <1>0
<1> QED BY <1>0, <1>3, <1>4 DEF Have

\* What the loop returns from each word.
LEMMA ReplayFromDef ==
  ASSUME NEW words \in Seq(Word)
  PROVE  ReplayFrom(words) =
           [i \in 1 .. Len(words) + 1 |-> Step(words, ReplayFrom(words), i)]
<1> DEFINE Body(f) == [i \in 1 .. Len(words) + 1 |-> Step(words, f, i)]
<1>1. \E f : f = Body(f)
  BY StepsExist, Zenon
<1>2. ReplayFrom(words) = CHOOSE f : f = Body(f)
  BY Zenon DEF ReplayFrom, Step, Fits
<1> HIDE DEF Body
<1>3. ReplayFrom(words) = Body(ReplayFrom(words))
  BY <1>1, <1>2, Zenon
<1> QED BY <1>3, Zenon DEF Body

-----------------------------------------------------------------------------
(* A parse of a log: its entries, and the word at which each frame begins. *)

\* The frame of an entry begins at word i, and the next one at word j.
Holds(words, i, j, entry) ==
  /\ Len(entry) \in 0 .. MaxPayload
  /\ IsFrame(words, i, Len(entry))
  /\ entry = SubSeq(words, i + 2, i + Len(entry) + 1)
  /\ j = i + Len(entry) + 2

Parse(words, entries, cut) ==
  /\ entries \in Seq(Seq(Word))
  /\ cut \in [1 .. Len(entries) + 1 -> 1 .. Len(words) + 1]
  /\ cut[1] = 1
  /\ \A k \in 1 .. Len(entries) : Holds(words, cut[k], cut[k + 1], entries[k])
  /\ \A j, k \in 1 .. Len(entries) + 1 : j < k => cut[j] < cut[k]
  /\ Fits(words, cut[Len(entries) + 1]) = {}

\* The first entry before the others.
LEMMA SubSeqCons ==
  ASSUME NEW S, NEW s \in Seq(S), NEW k \in 1 .. Len(s)
  PROVE  <<s[k]>> \o SubSeq(s, k + 1, Len(s)) = SubSeq(s, k, Len(s))
OBVIOUS

\* Sequences with the same elements are the same.
LEMMA SameElements ==
  ASSUME NEW T, NEW s \in Seq(T), NEW t \in Seq(T),
         Len(s) = Len(t), \A k \in 1 .. Len(s) : s[k] = t[k]
  PROVE  s = t
OBVIOUS

\* A parse is what ReplayWal returns.
LEMMA ParseIsReplay ==
  ASSUME NEW words \in Seq(Word), NEW entries, NEW cut, Parse(words, entries, cut)
  PROVE  Replay(words) = [entries |-> entries, stop |-> cut[Len(entries) + 1]]
<1> DEFINE K == Len(entries)
           from == ReplayFrom(words)
           Done(k) == from[cut[k]] = [entries |-> SubSeq(entries, k, K), stop |-> cut[K + 1]]
           Have == {m \in Nat : m <= K => Done(K + 1 - m)}
<1>0. K \in Nat /\ entries \in Seq(Seq(Word))
  BY DEF Parse
<1>a. \A k \in 1 .. K + 1 : cut[k] \in 1 .. Len(words) + 1
  BY Zenon DEF Parse
<1>b. \A k \in 1 .. K + 1 : from[cut[k]] = Step(words, from, cut[k])
  BY <1>a, ReplayFromDef, Zenon
<1> HIDE DEF from
<1>1. Done(K + 1)
  <2>1. from[cut[K + 1]] = [entries |-> <<>>, stop |-> cut[K + 1]]
    <3>1. K + 1 \in 1 .. K + 1
      BY <1>0
    <3>2. Fits(words, cut[K + 1]) = {}
      BY Zenon DEF Parse
    <3> QED BY <1>b, <3>1, <3>2, Zenon DEF Step
  <2>2. SubSeq(entries, K + 1, K) = <<>>
    BY <1>0
  <2> QED BY <2>1, <2>2, Zenon
<1>2. ASSUME NEW k \in 1 .. K, Done(k + 1) PROVE Done(k)
  <2> DEFINE n == Len(entries[k])
             more == [entries |-> SubSeq(entries, k + 1, K), stop |-> cut[K + 1]]
  <2>0. k \in 1 .. K + 1
    BY <1>0
  <2>1. from[cut[k + 1]] = more
    BY <1>2, Zenon
  <2> HIDE DEF K, Done, Have
  <2>2. Holds(words, cut[k], cut[k + 1], entries[k])
    BY <2>0, Zenon DEF Parse, K
  <2>3. n \in Fits(words, cut[k])
    BY <2>2, Zenon DEF Holds, Fits
  <2>4. (CHOOSE x \in Fits(words, cut[k]) : TRUE) = n
    <3> DEFINE x == CHOOSE x \in Fits(words, cut[k]) : TRUE
    <3>1. x \in Fits(words, cut[k])
      BY <2>3, Zenon
    <3> HIDE DEF x
    <3>2. x \in Nat /\ n \in Nat /\ IsFrame(words, cut[k], x) /\ IsFrame(words, cut[k], n)
      BY <2>3, <3>1, BoundsAssumption DEF Fits
    <3>3. x = n
      BY <3>2, FrameUnique, Zenon
    <3> QED BY <3>3, Zenon DEF x
  <2>5. Step(words, from, cut[k]) =
          [entries |-> <<SubSeq(words, cut[k] + 2, cut[k] + n + 1)>> \o from[cut[k] + n + 2].entries,
           stop |-> from[cut[k] + n + 2].stop]
    BY <2>3, <2>4, Zenon DEF Step
  <2>6. entries[k] = SubSeq(words, cut[k] + 2, cut[k] + n + 1) /\ cut[k + 1] = cut[k] + n + 2
    BY <2>2, Zenon DEF Holds
  <2>7. from[cut[k]] =
          [entries |-> <<entries[k]>> \o from[cut[k + 1]].entries, stop |-> from[cut[k + 1]].stop]
    BY <1>b, <2>0, <2>5, <2>6, Zenon
  <2>8. <<entries[k]>> \o SubSeq(entries, k + 1, K) = SubSeq(entries, k, K)
    BY <1>0, <2>0, SubSeqCons, Zenon DEF K
  <2>9. more.entries = SubSeq(entries, k + 1, K) /\ more.stop = cut[K + 1]
    OBVIOUS
  <2> HIDE DEF more
  <2> QED BY <2>1, <2>7, <2>8, <2>9, Zenon DEF Done
<1>3. K \in Have
  <2> HIDE DEF Done, K
  <2>1. K + 1 - 0 = K + 1
    BY <1>0
  <2>2. 0 \in Have
    BY <1>1, <2>1, Zenon
  <2>3. ASSUME NEW m \in Nat, m \in Have PROVE m + 1 \in Have
    <3> SUFFICES ASSUME m + 1 <= K PROVE Done(K + 1 - (m + 1))
      OBVIOUS
    <3>1. K + 1 - (m + 1) \in 1 .. K /\ K + 1 - (m + 1) + 1 = K + 1 - m /\ m <= K
      BY <1>0
    <3> QED BY <1>2, <2>3, <3>1, Zenon
  <2> HIDE DEF Have
  <2> QED BY <1>0, <2>2, <2>3, SetInduction, Zenon
<1>4. from[cut[1]] = [entries |-> SubSeq(entries, 1, K), stop |-> cut[K + 1]]
  <2>1. K + 1 - K = 1 /\ K <= K
    BY <1>0
  <2>2. Done(K + 1 - K)
    BY <1>3, <2>1, Zenon
  <2> QED BY <2>1, <2>2, Zenon
<1>5. SubSeq(entries, 1, K) = entries
  BY <1>0
<1> QED BY <1>4, <1>5, Zenon DEF Replay, from, Parse
-----------------------------------------------------------------------------
(* A log and its prefixes.                                                 *)

\* Two logs begin with the same m words.
Agree(words, other, m) ==
  /\ m <= Len(words)
  /\ m <= Len(other)
  /\ \A x \in 1 .. m : words[x] = other[x]

\* Whether words are a frame depends on no words behind it.
LEMMA FrameIsLocal ==
  ASSUME NEW words \in Seq(Word), NEW other \in Seq(Word), NEW m \in Nat,
         Agree(words, other, m),
         NEW i \in Nat \ {0}, NEW n \in Nat, i + n + 1 <= m
  PROVE  /\ SubSeq(words, i + 2, i + n + 1) = SubSeq(other, i + 2, i + n + 1)
         /\ IsFrame(words, i, n) <=> IsFrame(other, i, n)
<1>1. SubSeq(words, i + 2, i + n + 1) = SubSeq(other, i + 2, i + n + 1)
  BY DEF Agree
<1>2. words[i] = other[i] /\ words[i + 1] = other[i + 1]
  BY DEF Agree
<1>3. i + n + 1 <= Len(words) /\ i + n + 1 <= Len(other)
  BY DEF Agree
<1> QED BY <1>1, <1>2, <1>3, Zenon DEF IsFrame

\* A frame of a parse is one of every log that agrees up to its end.
LEMMA HoldsIsLocal ==
  ASSUME NEW words \in Seq(Word), NEW other \in Seq(Word), NEW m \in Nat,
         Agree(words, other, m),
         NEW i \in Nat \ {0}, NEW j, NEW entry, Holds(words, i, j, entry), j <= m + 1
  PROVE  Holds(other, i, j, entry)
<1> DEFINE n == Len(entry)
<1>1. n \in Nat /\ n \in 0 .. MaxPayload /\ j = i + n + 2 /\ i + n + 1 <= m
  BY BoundsAssumption DEF Holds
<1>2. IsFrame(words, i, n) /\ entry = SubSeq(words, i + 2, i + n + 1)
  BY Zenon DEF Holds
<1> HIDE DEF n
<1>3. SubSeq(words, i + 2, i + n + 1) = SubSeq(other, i + 2, i + n + 1) /\ IsFrame(other, i, n)
  BY <1>1, <1>2, FrameIsLocal
<1> QED BY <1>1, <1>2, <1>3, Zenon DEF Holds, n

\* A prefix of a log replays as a prefix of its entries: those whose frames it
\* holds.
LEMMA PrefixParse ==
  ASSUME NEW words \in Seq(Word), NEW other \in Seq(Word),
         Agree(words, other, Len(other)),
         NEW entries, NEW cut, Parse(words, entries, cut)
  PROVE  \E K \in 0 .. Len(entries) :
           /\ Parse(other, SubSeq(entries, 1, K), [k \in 1 .. K + 1 |-> cut[k]])
           /\ \A k \in 1 .. Len(entries) : k <= K <=> cut[k + 1] <= Len(other) + 1
<1> DEFINE m == Len(other)
           N == Len(entries)
           Beyond == {k \in 1 .. N + 1 : cut[k] > m + 1}
           Within(K) == \A k \in 1 .. K + 1 : cut[k] <= m + 1
           Final(K) == K = N \/ cut[K + 2] > m + 1
<1>0. N \in Nat /\ m \in Nat /\ entries \in Seq(Seq(Word))
  BY DEF Parse
<1>1. /\ \A k \in 1 .. N + 1 : cut[k] \in 1 .. Len(words) + 1
      /\ cut[1] = 1
      /\ \A k \in 1 .. N : Holds(words, cut[k], cut[k + 1], entries[k])
      /\ \A j, k \in 1 .. N + 1 : j < k => cut[j] < cut[k]
      /\ Fits(words, cut[N + 1]) = {}
  BY Zenon DEF Parse
<1> HIDE DEF N
<1>2. PICK K \in 0 .. N : Within(K) /\ Final(K)
  <2>1. CASE Beyond = {}
    <3>1. \A k \in 1 .. N + 1 : cut[k] \in Nat /\ ~ (cut[k] > m + 1)
      <4> TAKE k \in 1 .. N + 1
      <4>1. cut[k] \in Nat
        BY <1>0, <1>1
      <4>2. k \notin Beyond
        BY <2>1, Zenon
      <4> QED BY <4>1, <4>2, Zenon
    <3>2. Within(N) /\ Final(N) /\ N \in 0 .. N
      BY <1>0, <3>1
    <3> HIDE DEF Within, Final
    <3> QED BY <3>2, Zenon
  <2>2. CASE Beyond # {}
    <3>1. Beyond \subseteq Nat
      BY <1>0
    <3>2. PICK x \in Beyond : \A y \in Beyond : x <= y
      BY <2>2, <3>1, LeastExists, Zenon
    <3>3. x \in 2 .. N + 1 /\ cut[x] > m + 1
      BY <1>0, <1>1, <3>2
    <3>4. \A k \in 1 .. x - 1 : cut[k] <= m + 1
      BY <1>0, <1>1, <3>2, <3>3
    <3>5. x - 2 \in 0 .. N /\ x - 2 + 1 = x - 1 /\ x - 2 + 2 = x
      BY <1>0, <3>3
    <3> QED BY <3>3, <3>4, <3>5, Zenon
  <2> QED BY <2>1, <2>2, Zenon
<1>3. /\ \A k \in 1 .. K + 1 : cut[k] <= m + 1
      /\ K = N \/ cut[K + 2] > m + 1
  BY <1>2, Zenon
<1> HIDE DEF m, Beyond
<1> DEFINE some == SubSeq(entries, 1, K)
           cuts == [k \in 1 .. K + 1 |-> cut[k]]
<1>4. some \in Seq(Seq(Word)) /\ Len(some) = K /\ \A k \in 1 .. K : some[k] = entries[k]
  BY <1>0 DEF N
<1>5. \A k \in 1 .. K : Holds(other, cut[k], cut[k + 1], entries[k])
  <2> TAKE k \in 1 .. K
  <2>1. Holds(words, cut[k], cut[k + 1], entries[k]) /\ cut[k] \in Nat \ {0}
    BY <1>0, <1>1
  <2>2. cut[k + 1] <= m + 1
    BY <1>0, <1>3
  <2> QED BY <1>0, <2>1, <2>2, HoldsIsLocal DEF m
<1>6. Fits(other, cut[K + 1]) = {}
  <2> SUFFICES ASSUME NEW n \in 0 .. MaxPayload, IsFrame(other, cut[K + 1], n) PROVE FALSE
    BY Zenon DEF Fits
  <2>1. n \in Nat /\ cut[K + 1] \in Nat \ {0} /\ cut[K + 1] + n + 1 <= m
    <3>1. n \in Nat
      BY BoundsAssumption
    <3>2. cut[K + 1] \in Nat \ {0}
      BY <1>0, <1>1
    <3> QED BY <3>1, <3>2, Zenon DEF IsFrame, m
  <2>2. IsFrame(words, cut[K + 1], n)
    BY <1>0, <2>1, FrameIsLocal DEF m
  <2>3. CASE K = N
    BY <1>1, <2>2, <2>3, Zenon DEF Fits
  <2>4. CASE K # N
    <3>1. Holds(words, cut[K + 1], cut[K + 2], entries[K + 1]) /\ cut[K + 2] > m + 1
      BY <1>0, <1>1, <1>3, <2>4
    <3>2. Len(entries[K + 1]) \in Nat /\ IsFrame(words, cut[K + 1], Len(entries[K + 1]))
          /\ cut[K + 2] = cut[K + 1] + Len(entries[K + 1]) + 2
      BY <3>1, BoundsAssumption DEF Holds
    <3>3. Len(entries[K + 1]) = n
      BY <2>1, <2>2, <3>2, FrameUnique, ZenonT(40)
    <3> QED BY <1>0, <2>1, <3>1, <3>2, <3>3
  <2> QED BY <2>3, <2>4, Zenon
<1>7. Parse(other, some, cuts)
  <2>1. cuts \in [1 .. K + 1 -> 1 .. m + 1]
    BY <1>0, <1>1, <1>3
  <2>2. cuts[1] = 1 /\ \A j, k \in 1 .. K + 1 : j < k => cuts[j] < cuts[k]
    BY <1>0, <1>1
  <2>3. cuts[K + 1] = cut[K + 1] /\ \A k \in 1 .. K : cuts[k] = cut[k] /\ cuts[k + 1] = cut[k + 1]
    BY <1>0
  <2> HIDE DEF cuts, some
  <2>4. \A k \in 1 .. K : Holds(other, cuts[k], cuts[k + 1], some[k])
    BY <1>4, <1>5, <2>3, Zenon
  <2> QED BY <1>4, <1>6, <2>1, <2>2, <2>3, <2>4, Zenon DEF Parse, m
<1>8. \A k \in 1 .. N : k <= K <=> cut[k + 1] <= m + 1
  <2> TAKE k \in 1 .. N
  <2>1. CASE k <= K
    BY <1>0, <1>3, <2>1
  <2>2. CASE k > K
    <3>1. cut[K + 2] > m + 1 /\ (K + 2 = k + 1 \/ cut[K + 2] < cut[k + 1])
      BY <1>0, <1>1, <1>3, <2>2
    <3> QED BY <1>0, <1>1, <2>2, <3>1
  <2> QED BY <1>0, <2>1, <2>2
<1> QED BY <1>7, <1>8, Zenon DEF N, m
\* The payload of a frame has the length that the frame says.
LEMMA PayloadLength ==
  ASSUME NEW words \in Seq(Word), NEW i \in Nat \ {0}, NEW n \in Nat, i + n + 1 <= Len(words)
  PROVE  /\ SubSeq(words, i + 2, i + n + 1) \in Seq(Word)
         /\ Len(SubSeq(words, i + 2, i + n + 1)) = n
         /\ \A x \in 1 .. n : SubSeq(words, i + 2, i + n + 1)[x] = words[i + 1 + x]
OBVIOUS

\* The beginnings of N frames and of the rest, and one more.
CutMore(cut, N, i) == [k \in 1 .. N + 2 |-> IF k = N + 2 THEN i ELSE cut[k]]

\* A log with one word more replays as before, or the word completes the frame
\* of one more entry.
LEMMA AppendParse ==
  ASSUME NEW words \in Seq(Word), NEW w \in Word,
         NEW entries, NEW cut, Parse(words, entries, cut)
  PROVE  \/ Parse(Append(words, w), entries, cut)
         \/ \E entry \in Seq(Word) :
              /\ Holds(Append(words, w), cut[Len(entries) + 1], Len(words) + 2, entry)
              /\ Parse(Append(words, w), Append(entries, entry),
                       CutMore(cut, Len(entries), Len(words) + 2))
<1> DEFINE more == Append(words, w)
           N == Len(entries)
           L == Len(words)
<1>0. N \in Nat /\ L \in Nat /\ entries \in Seq(Seq(Word))
  BY DEF Parse
<1>1. more \in Seq(Word) /\ Len(more) = L + 1 /\ Agree(words, more, L)
  BY DEF Agree
<1>2. /\ cut \in [1 .. N + 1 -> 1 .. L + 1]
      /\ cut[1] = 1
      /\ \A k \in 1 .. N : Holds(words, cut[k], cut[k + 1], entries[k])
      /\ \A j, k \in 1 .. N + 1 : j < k => cut[j] < cut[k]
      /\ Fits(words, cut[N + 1]) = {}
  BY Zenon DEF Parse
<1> HIDE DEF N, L, more
<1>3. \A k \in 1 .. N : Holds(more, cut[k], cut[k + 1], entries[k])
  <2> TAKE k \in 1 .. N
  <2>1. Holds(words, cut[k], cut[k + 1], entries[k]) /\ cut[k] \in Nat \ {0} /\ cut[k + 1] <= L + 1
    BY <1>0, <1>2
  <2> QED BY <1>0, <1>1, <2>1, HoldsIsLocal
<1>4. CASE Fits(more, cut[N + 1]) = {}
  <2>1. cut \in [1 .. N + 1 -> 1 .. Len(more) + 1]
    BY <1>0, <1>1, <1>2
  <2>2. Parse(more, entries, cut)
    BY <1>0, <1>2, <1>3, <1>4, <2>1, Zenon DEF Parse, N
  <2> QED BY <2>2, Zenon DEF more
<1>5. CASE Fits(more, cut[N + 1]) # {}
  <2>1. PICK n \in 0 .. MaxPayload : IsFrame(more, cut[N + 1], n)
    BY <1>5, Zenon DEF Fits
  <2>2. n \in Nat /\ cut[N + 1] \in Nat \ {0} /\ cut[N + 1] <= L + 1
    BY <1>0, <1>2, BoundsAssumption
  <2>3. cut[N + 1] + n + 1 = L + 1
    <3>1. cut[N + 1] + n + 1 <= L + 1
      BY <1>1, <2>1, Zenon DEF IsFrame
    <3>2. ~ (cut[N + 1] + n + 1 <= L)
      <4> SUFFICES ASSUME cut[N + 1] + n + 1 <= L PROVE FALSE
        OBVIOUS
      <4>1. IsFrame(words, cut[N + 1], n)
        BY <1>0, <1>1, <2>1, <2>2, FrameIsLocal
      <4> QED BY <1>2, <4>1, Zenon DEF Fits
    <3> QED BY <1>0, <2>2, <3>1, <3>2
  <2> DEFINE entry == SubSeq(more, cut[N + 1] + 2, cut[N + 1] + n + 1)
             all == Append(entries, entry)
             cuts == CutMore(cut, N, L + 2)
  <2>4. entry \in Seq(Word) /\ Len(entry) = n
    <3>1. cut[N + 1] + n + 1 <= Len(more)
      BY <2>1, Zenon DEF IsFrame
    <3> QED BY <1>1, <2>2, <3>1, PayloadLength, ZenonT(40)
  <2>5. Holds(more, cut[N + 1], L + 2, entry)
    <3>1. entry = SubSeq(more, cut[N + 1] + 2, cut[N + 1] + n + 1)
      OBVIOUS
    <3> HIDE DEF entry, all, cuts
    <3>2. L + 2 = cut[N + 1] + n + 2
      <4>1. \A i \in Nat : i + n + 1 = L + 1 => L + 2 = i + n + 2
        BY <1>0, <2>2
      <4>2. cut[N + 1] \in Nat
        BY <2>2, Zenon
      <4> QED BY <2>3, <4>1, <4>2, Zenon
    <3> QED BY <2>1, <2>4, <3>1, <3>2, Zenon DEF Holds
  <2> HIDE DEF entry
  <2>6. /\ all \in Seq(Seq(Word)) /\ Len(all) = N + 1 /\ all[N + 1] = entry
        /\ \A k \in 1 .. N : all[k] = entries[k]
    BY <1>0, <2>4 DEF N
  <2>7. cuts \in [1 .. N + 2 -> 1 .. L + 2]
    BY <1>0, <1>2 DEF CutMore
  <2>8. cuts[1] = 1 /\ cuts[N + 2] = L + 2 /\ \A k \in 1 .. N + 1 : cuts[k] = cut[k]
    BY <1>0, <1>2 DEF CutMore
  <2>9. \A j, k \in 1 .. N + 2 : j < k => cuts[j] < cuts[k]
    <3> HIDE DEF cuts
    <3>1. TAKE j, k \in 1 .. N + 2
    <3>2. HAVE j < k
    <3>3. j \in 1 .. N + 1 /\ cuts[j] = cut[j] /\ cut[j] \in 1 .. L + 1
      BY <1>0, <1>2, <2>8, <3>2
    <3>4. CASE k = N + 2
      BY <1>0, <2>8, <3>3, <3>4
    <3>5. CASE k # N + 2
      <4>1. k \in 1 .. N + 1
        BY <1>0, <3>5
      <4> QED BY <1>2, <2>8, <3>2, <3>3, <4>1, ZenonT(40)
    <3> QED BY <3>4, <3>5, Zenon
  <2> HIDE DEF all, cuts
  <2>a. \A k \in 1 .. N + 1 : Holds(more, cuts[k], cuts[k + 1], all[k])
    <3> TAKE k \in 1 .. N + 1
    <3>1. CASE k = N + 1
      <4>1. N + 1 + 1 = N + 2
        BY <1>0
      <4> QED BY <2>5, <2>6, <2>8, <3>1, <4>1, Zenon
    <3>2. CASE k # N + 1
      <4>1. k \in 1 .. N /\ k + 1 \in 1 .. N + 1
        BY <1>0, <3>2
      <4> QED BY <1>3, <2>6, <2>8, <4>1, Zenon
    <3> QED BY <3>1, <3>2, Zenon
  <2>b. Fits(more, L + 2) = {}
    BY <1>0, <1>1, BoundsAssumption DEF Fits, IsFrame
  <2>c. Parse(more, all, cuts)
    <3>1. N + 1 + 1 = N + 2 /\ Len(more) + 1 = L + 2
      BY <1>0, <1>1
    <3> QED BY <2>6, <2>7, <2>8, <2>9, <2>a, <2>b, <3>1, Zenon DEF Parse
  <2> QED BY <2>4, <2>5, <2>c, Zenon DEF all, cuts, more, N, L
<1> QED BY <1>4, <1>5, Zenon
\* The log that holds nothing.
LEMMA EmptyParse ==
  Parse(<<>>, <<>>, [k \in 1 .. 1 |-> 1])
<1>1. Fits(<<>>, 1) = {}
  BY BoundsAssumption DEF Fits, IsFrame
<1> QED BY <1>1 DEF Parse

\* Every log has a parse.
LEMMA ParseExists ==
  ASSUME NEW words \in Seq(Word)
  PROVE  \E entries, cut : Parse(words, entries, cut)
<1> DEFINE Part(m) == SubSeq(words, 1, m)
           Parsed(m) == \E entries, cut : Parse(Part(m), entries, cut)
           Have == {m \in Nat : m <= Len(words) => Parsed(m)}
<1>1. Parsed(0)
  <2>1. Part(0) = <<>>
    OBVIOUS
  <2> QED BY <2>1, EmptyParse, Zenon
<1>2. ASSUME NEW m \in Nat, m + 1 <= Len(words), Parsed(m) PROVE Parsed(m + 1)
  <2>1. Part(m) \in Seq(Word) /\ words[m + 1] \in Word /\ Append(Part(m), words[m + 1]) = Part(m + 1)
    BY <1>2
  <2>2. PICK entries, cut : Parse(Part(m), entries, cut)
    BY <1>2, Zenon
  <2> HIDE DEF Part
  <2>3. \E e, c : Parse(Append(Part(m), words[m + 1]), e, c)
    BY <2>1, <2>2, AppendParse, Zenon
  <2> QED BY <2>1, <2>3, Zenon
<1>3. Len(words) \in Have
  <2> HIDE DEF Parsed
  <2>1. 0 \in Have /\ \A m \in Nat : m \in Have => m + 1 \in Have
    BY <1>1, <1>2
  <2> HIDE DEF Have
  <2> QED BY <2>1, SetInduction
<1>4. Part(Len(words)) = words
  OBVIOUS
<1>5. Parsed(Len(words))
  BY <1>3
<1> QED BY <1>4, <1>5, Zenon
-----------------------------------------------------------------------------
(* Frames that are being written.                                          *)

\* The words of payloads.
Data == {[data |-> v] : v \in Value}

\* The entries are the short sequences of payload words.
LEMMA EntryType ==
  ASSUME NEW x
  PROVE  x \in Entry <=> x \in Seq(Data) /\ Len(x) \in 0 .. MaxPayload
<1>1. Entry = UNION {[1 .. m -> Data] : m \in 0 .. MaxPayload}
  BY Zenon DEF Entry, Data
<1>2. ASSUME NEW m \in 0 .. MaxPayload, x \in [1 .. m -> Data]
      PROVE  x \in Seq(Data) /\ Len(x) = m
  BY <1>2, BoundsAssumption
<1>3. ASSUME x \in Seq(Data), Len(x) \in 0 .. MaxPayload PROVE x \in [1 .. Len(x) -> Data]
  BY <1>3
<1> QED BY <1>1, <1>2, <1>3, Zenon

\* The empty entry.
LEMMA EmptyEntry ==
  <<>> \in Entry /\ Len(<<>>) = 0 /\ \A x \in Entry : Len(x) = 0 => x = <<>>
<1>1. <<>> \in Seq(Data) /\ Len(<<>>) \in 0 .. MaxPayload /\ Len(<<>>) = 0
  BY BoundsAssumption
<1>2. \A x \in Seq(Data) : Len(x) = 0 => x = <<>>
  OBVIOUS
<1> QED BY <1>1, <1>2, EntryType, Zenon

\* A CRC word holds an entry.
LEMMA CrcOfEntry ==
  ASSUME NEW x, [crc |-> x] \in Word
  PROVE  x \in Entry
<1>1. PICK e \in Entry : [crc |-> x] = [crc |-> e]
  BY WordsDiffer, Zenon DEF Word
<1> QED BY <1>1, WordsDiffer, Zenon

\* The words of a frame.
LEMMA FrameWords ==
  ASSUME NEW x \in Entry
  PROVE  /\ Frame(x) \in Seq(Word)
         /\ Len(x) \in 0 .. MaxPayload /\ Len(x) \in Nat
         /\ Len(Frame(x)) = Len(x) + 2
         /\ Frame(x)[1] = LengthWord(Len(x)) /\ Frame(x)[2] = CrcWord(x)
         /\ \A k \in 1 .. Len(x) : Frame(x)[k + 2] = x[k] /\ x[k] \in Data
<1>1. x \in Seq(Data) /\ Len(x) \in 0 .. MaxPayload /\ Len(x) \in Nat
  BY EntryType, BoundsAssumption
<1>2. LengthWord(Len(x)) \in Word
  BY <1>1 DEF LengthWord, Word
<1>3. CrcWord(x) \in Word
  BY Zenon DEF CrcWord, Word
<1>4. Data \subseteq Word
  BY Zenon DEF Data, Word
<1>5. x \in Seq(Word)
  BY <1>1, <1>4
<1> DEFINE l == LengthWord(Len(x))
           c == CrcWord(x)
<1> HIDE DEF l, c
<1>6. <<l, c>> \o x \in Seq(Word) /\ Len(<<l, c>> \o x) = Len(x) + 2
  BY <1>1, <1>2, <1>3, <1>5 DEF l, c
<1>7. (<<l, c>> \o x)[1] = l /\ (<<l, c>> \o x)[2] = c
      /\ \A k \in 1 .. Len(x) : (<<l, c>> \o x)[k + 2] = x[k] /\ x[k] \in Data
  BY <1>1
<1> QED BY <1>1, <1>6, <1>7, Zenon DEF Frame, l, c

\* The words from s on are the beginning of the frame of x, or all of it.
Begins(words, s, x) ==
  /\ Len(words) + 1 <= s + Len(x) + 2
  /\ \A i \in s .. Len(words) : words[i] = Frame(x)[i - s + 1]

\* The words from s on are no beginning of a frame.
Dead(words, s) == \A x \in Entry : ~ Begins(words, s, x)

\* A frame that ends the log is the frame of an entry.
LEMMA FrameFound ==
  ASSUME NEW words \in Seq(Word), NEW s \in Nat \ {0}, NEW x \in Seq(Word),
         Holds(words, s, Len(words) + 1, x)
  PROVE  x \in Entry /\ Begins(words, s, x)
<1> DEFINE n == Len(x)
<1>1. n \in Nat /\ n \in 0 .. MaxPayload /\ s + n + 1 = Len(words)
  BY BoundsAssumption DEF Holds
<1>2. words[s] = LengthWord(n) /\ words[s + 1] = CrcWord(x) /\ x = SubSeq(words, s + 2, s + n + 1)
  BY Zenon DEF Holds, IsFrame
<1>3. x \in Entry
  <2>1. CASE x = <<>>
    BY <2>1, EmptyEntry, Zenon
  <2>2. CASE x # <<>>
    <3>1. words[s + 1] = [crc |-> x] /\ words[s + 1] \in Word
      BY <1>1, <1>2, <2>2 DEF CrcWord
    <3> QED BY <3>1, CrcOfEntry, Zenon
  <2> QED BY <2>1, <2>2, Zenon
<1>4. \A k \in 1 .. n : x[k] = words[s + 1 + k]
  BY <1>1, <1>2, PayloadLength
<1> HIDE DEF n
<1>5. \A i \in s .. Len(words) : words[i] = Frame(x)[i - s + 1]
  <2> TAKE i \in s .. Len(words)
  <2>1. CASE i = s
    BY <1>2, <1>3, <2>1, FrameWords DEF n
  <2>2. CASE i = s + 1
    BY <1>2, <1>3, <2>2, FrameWords DEF n
  <2>3. CASE i > s + 1
    <3>1. i - s - 1 \in 1 .. n /\ s + 1 + (i - s - 1) = i /\ (i - s - 1) + 2 = i - s + 1
      BY <1>1, <2>3
    <3>2. x[i - s - 1] = words[i]
      BY <1>4, <3>1, Zenon
    <3>3. Frame(x)[i - s + 1] = x[i - s - 1]
      BY <1>3, <3>1, FrameWords, Zenon DEF n
    <3> QED BY <3>2, <3>3, Zenon
  <2> QED BY <2>1, <2>2, <2>3
<1> QED BY <1>1, <1>3, <1>5 DEF Begins, n
\* Length words, CRC words and payload words: only the zero of an empty entry
\* is two of them.
LEMMA WordKinds ==
  ASSUME NEW x \in Entry, NEW d \in Data, NEW n \in Nat
  PROVE  /\ d # Zero /\ d # LengthWord(n)
         /\ CrcWord(x) = LengthWord(n) => x = <<>> /\ n = 0
<1>1. d # Zero /\ d # LengthWord(n)
  BY WordsDiffer, Zenon DEF Data, LengthWord
<1>2. CrcWord(x) = LengthWord(n) => x = <<>> /\ n = 0
  BY WordsDiffer, Zenon DEF CrcWord, LengthWord
<1> QED BY <1>1, <1>2, Zenon

\* A beginning of a frame without its last word is one too.
LEMMA BeginsShorter ==
  ASSUME NEW words \in Seq(Word), NEW w, NEW s \in Nat \ {0}, NEW x \in Entry,
         Begins(Append(words, w), s, x)
  PROVE  Begins(words, s, x)
<1>1. Len(Append(words, w)) = Len(words) + 1
      /\ \A i \in 1 .. Len(words) : Append(words, w)[i] = words[i]
  OBVIOUS
<1>2. Len(x) \in Nat
  BY FrameWords, Zenon
<1>3. Len(words) + 1 <= s + Len(x) + 2
  BY <1>1, <1>2 DEF Begins
<1>4. \A i \in s .. Len(words) : words[i] = Frame(x)[i - s + 1]
  <2> TAKE i \in s .. Len(words)
  <2>1. i \in s .. Len(words) + 1 /\ i \in 1 .. Len(words)
    OBVIOUS
  <2> QED BY <1>1, <2>1, Zenon DEF Begins
<1> QED BY <1>3, <1>4, Zenon DEF Begins

\* Nothing that is appended makes a frame of a dead tail.
LEMMA DeadStays ==
  ASSUME NEW words \in Seq(Word), NEW w, NEW s \in Nat \ {0}, Dead(words, s)
  PROVE  Dead(Append(words, w), s)
BY BeginsShorter, Zenon DEF Dead

\* The rest of a log begins at one of its words or behind the last.
LEMMA StopType ==
  ASSUME NEW words \in Seq(Word), NEW entries, NEW cut, Parse(words, entries, cut)
  PROVE  /\ Len(entries) \in Nat /\ entries \in Seq(Seq(Word))
         /\ cut[Len(entries) + 1] \in Nat \ {0}
         /\ cut[Len(entries) + 1] <= Len(words) + 1
         /\ \A k \in 1 .. Len(entries) + 1 : cut[k] \in 1 .. Len(words) + 1
<1>1. Len(entries) \in Nat /\ entries \in Seq(Seq(Word))
  BY DEF Parse
<1>2. \A k \in 1 .. Len(entries) + 1 : cut[k] \in 1 .. Len(words) + 1
  BY Zenon DEF Parse
<1>3. Len(entries) + 1 \in 1 .. Len(entries) + 1
  BY <1>1
<1> QED BY <1>1, <1>2, <1>3

\* A word behind a dead tail changes nothing.
LEMMA AppendDead ==
  ASSUME NEW words \in Seq(Word), NEW w \in Word,
         NEW entries, NEW cut, Parse(words, entries, cut),
         Dead(Append(words, w), cut[Len(entries) + 1])
  PROVE  Parse(Append(words, w), entries, cut)
<1> DEFINE s == cut[Len(entries) + 1]
           more == Append(words, w)
<1>1. s \in Nat \ {0} /\ more \in Seq(Word) /\ Len(more) + 1 = Len(words) + 2
  BY StopType
<1>2. ASSUME NEW x \in Seq(Word), Holds(more, s, Len(words) + 2, x) PROVE FALSE
  <2> HIDE DEF s, more
  <2>1. x \in Entry /\ Begins(more, s, x)
    BY <1>1, <1>2, FrameFound, Zenon
  <2> QED BY <2>1, Zenon DEF Dead, s, more
<1> QED BY <1>2, AppendParse, Zenon

\* One word alone is no frame.
LEMMA AppendTooShort ==
  ASSUME NEW words \in Seq(Word), NEW w \in Word,
         NEW entries, NEW cut, Parse(words, entries, cut),
         cut[Len(entries) + 1] = Len(words) + 1
  PROVE  Parse(Append(words, w), entries, cut)
<1>1. ASSUME NEW x \in Seq(Word), Holds(Append(words, w), Len(words) + 1, Len(words) + 2, x)
      PROVE  FALSE
  <2>1. Len(x) \in Nat /\ Len(words) \in Nat
    OBVIOUS
  <2>2. Len(words) + 2 = Len(words) + 1 + Len(x) + 2
    BY <1>1, Zenon DEF Holds
  <2> QED BY <2>1, <2>2
<1> QED BY <1>1, AppendParse, Zenon

\* The frame at the end of a log is the one whose beginning was written.
LEMMA FrameIsOwn ==
  ASSUME NEW words \in Seq(Word), NEW s \in Nat \ {0}, s <= Len(words),
         NEW x \in Entry, Begins(words, s, x),
         NEW y \in Seq(Word), Holds(words, s, Len(words) + 1, y)
  PROVE  x = y
<1>1. y \in Entry /\ Begins(words, s, y)
  BY FrameFound, Zenon
<1>a. \A i \in s .. Len(words) : Frame(x)[i - s + 1] = Frame(y)[i - s + 1]
  BY <1>1, Zenon DEF Begins
<1>2. Frame(x)[1] = Frame(y)[1]
  <2>1. s \in s .. Len(words) /\ s - s + 1 = 1
    OBVIOUS
  <2>2. Frame(x)[s - s + 1] = Frame(y)[s - s + 1]
    BY <1>a, <2>1, Zenon
  <2> QED BY <2>1, <2>2, Zenon
<1>3. Len(x) = Len(y) /\ Len(x) \in Nat
  BY <1>1, <1>2, FrameWords, LengthWordTells
<1>4. Len(words) + 1 = s + Len(x) + 2
  BY <1>3, Zenon DEF Holds
<1>5. \A k \in 1 .. Len(x) : x[k] = y[k]
  <2> TAKE k \in 1 .. Len(x)
  <2>1. s + k + 1 \in s .. Len(words) /\ (s + k + 1) - s + 1 = k + 2
    BY <1>3, <1>4
  <2>2. Frame(x)[(s + k + 1) - s + 1] = Frame(y)[(s + k + 1) - s + 1]
    BY <1>a, <2>1, Zenon
  <2>3. Frame(x)[k + 2] = x[k] /\ Frame(y)[k + 2] = y[k]
    BY <1>1, <1>3, FrameWords, Zenon
  <2> QED BY <2>1, <2>2, <2>3, Zenon
<1>6. x \in Seq(Data) /\ y \in Seq(Data)
  BY <1>1, EntryType, Zenon
<1> QED BY <1>3, <1>5, <1>6
\* A word of a frame that is being written: the frame is complete and one more
\* entry is replayed, or it is not and nothing changes.
LEMMA AppendOwn ==
  ASSUME NEW words \in Seq(Word), NEW w \in Word,
         NEW entries, NEW cut, Parse(words, entries, cut),
         NEW x \in Entry, Begins(Append(words, w), cut[Len(entries) + 1], x)
  PROVE  IF Len(words) + 2 = cut[Len(entries) + 1] + Len(x) + 2
           THEN Parse(Append(words, w), Append(entries, x),
                      CutMore(cut, Len(entries), Len(words) + 2))
           ELSE Parse(Append(words, w), entries, cut)
<1> DEFINE s == cut[Len(entries) + 1]
           more == Append(words, w)
<1>1. s \in Nat \ {0} /\ s <= Len(words) + 1
  BY StopType, Zenon
<1>2. more \in Seq(Word) /\ Len(more) = Len(words) + 1 /\ Len(more) + 1 = Len(words) + 2
  OBVIOUS
<1>3. Len(x) \in Nat /\ Len(x) \in 0 .. MaxPayload
  BY FrameWords, Zenon
<1> HIDE DEF s, more
<1>4. ASSUME NEW y \in Seq(Word), Holds(more, s, Len(words) + 2, y)
      PROVE  y = x /\ Len(words) + 2 = s + Len(x) + 2
  <2>1. y = x
    BY <1>1, <1>2, <1>4, FrameIsOwn, ZenonT(40) DEF s, more
  <2> QED BY <1>4, <2>1, Zenon DEF Holds
<1>5. CASE Parse(more, entries, cut)
  <2>1. Len(words) + 2 # s + Len(x) + 2
    <3> SUFFICES ASSUME Len(words) + 2 = s + Len(x) + 2 PROVE FALSE
      OBVIOUS
    <3>0. Len(more) = s + Len(x) + 1
      BY <1>1, <1>2, <1>3
    <3>a. \A i \in s .. Len(more) : more[i] = Frame(x)[i - s + 1]
      BY Zenon DEF Begins, s, more
    <3>1. more[s] = LengthWord(Len(x)) /\ more[s + 1] = CrcWord(x)
      <4>1. more[s] = Frame(x)[1] /\ more[s + 1] = Frame(x)[2]
        <5>1. s \in s .. Len(more) /\ s + 1 \in s .. Len(more)
              /\ s - s + 1 = 1 /\ (s + 1) - s + 1 = 2
          BY <1>1, <1>3, <3>0
        <5> QED BY <3>a, <5>1, Zenon
      <4> QED BY <4>1, FrameWords, Zenon
    <3>2. \A k \in 1 .. Len(x) : more[s + 1 + k] = x[k]
      <4> TAKE k \in 1 .. Len(x)
      <4>1. more[s + 1 + k] = Frame(x)[k + 2]
        <5>1. s + 1 + k \in s .. Len(more) /\ (s + 1 + k) - s + 1 = k + 2
          BY <1>1, <1>3, <3>0
        <5> QED BY <3>a, <5>1, Zenon
      <4> QED BY <4>1, FrameWords, Zenon
    <3>3. SubSeq(more, s + 2, s + Len(x) + 1) = x
      <4>1. x \in Seq(Data) /\ s + Len(x) + 1 <= Len(more)
        BY <1>2, <1>3, <3>0, EntryType
      <4> DEFINE p == SubSeq(more, s + 2, s + Len(x) + 1)
      <4>2. p \in Seq(Word) /\ Len(p) = Len(x) /\ \A k \in 1 .. Len(x) : p[k] = more[s + 1 + k]
        BY <1>1, <1>2, <1>3, <4>1, PayloadLength, ZenonT(40)
      <4> HIDE DEF p
      <4>3. p = x
        BY <3>2, <4>1, <4>2
      <4> QED BY <4>3, Zenon DEF p
    <3>4. IsFrame(more, s, Len(x))
      <4>1. s + Len(x) + 1 <= Len(more)
        BY <1>2, <3>0
      <4> QED BY <3>1, <3>3, <4>1, Zenon DEF IsFrame
    <3> QED BY <1>3, <1>5, <3>4, Zenon DEF Parse, Fits, s
  <2> QED BY <1>5, <2>1, Zenon DEF s, more
<1>6. CASE \E y \in Seq(Word) :
             /\ Holds(more, s, Len(words) + 2, y)
             /\ Parse(more, Append(entries, y), CutMore(cut, Len(entries), Len(words) + 2))
  BY <1>4, <1>6, Zenon DEF s, more
<1> QED BY <1>5, <1>6, AppendParse, Zenon DEF s, more

\* A length word behind a torn frame: only the zero of an empty entry goes on
\* with a frame, the one of another empty entry.
LEMMA BehindTorn ==
  ASSUME NEW words \in Seq(Word), NEW s \in Nat \ {0}, s <= Len(words), NEW y \in Entry,
         NEW x \in Entry, Begins(Append(words, LengthWord(Len(y))), s, x)
  PROVE  x = <<>> /\ y = <<>> /\ s = Len(words)
<1> DEFINE w == LengthWord(Len(y))
           i == Len(words) + 2 - s
<1> HIDE DEF w
<1>1. Len(x) \in Nat /\ Len(y) \in Nat
  BY FrameWords, Zenon
<1>2. i \in 2 .. Len(x) + 2 /\ w = Frame(x)[i]
  <2>1. Len(Append(words, w)) = Len(words) + 1 /\ Append(words, w)[Len(words) + 1] = w
    OBVIOUS
  <2>2. Len(words) + 1 \in s .. Len(words) + 1 /\ (Len(words) + 1) - s + 1 = i
    OBVIOUS
  <2>3. Len(words) + 1 + 1 <= s + Len(x) + 2
    BY <2>1, Zenon DEF Begins, w
  <2>4. \A k \in s .. Len(words) + 1 : Append(words, w)[k] = Frame(x)[k - s + 1]
    BY <2>1, Zenon DEF Begins, w
  <2>5. w = Frame(x)[(Len(words) + 1) - s + 1]
    BY <2>1, <2>2, <2>4, Zenon
  <2>6. i \in 2 .. Len(x) + 2
    BY <1>1, <2>3
  <2> QED BY <2>2, <2>5, <2>6, Zenon
<1>3. CASE i = 2
  <2>1. CrcWord(x) = LengthWord(Len(y))
    BY <1>2, <1>3, FrameWords, Zenon DEF w
  <2>2. CrcWord(x) = LengthWord(Len(y)) => x = <<>> /\ Len(y) = 0
    BY <1>1, Zenon DEF CrcWord, LengthWord, Zero
  <2>3. s = Len(words)
    BY <1>3
  <2> QED BY <2>1, <2>2, <2>3, EmptyEntry, Zenon
<1>4. CASE i # 2
  <2>1. i - 2 \in 1 .. Len(x) /\ (i - 2) + 2 = i
    BY <1>1, <1>2, <1>4
  <2>2. w = x[i - 2] /\ x[i - 2] \in Data
    BY <1>2, <2>1, FrameWords, Zenon
  <2> QED BY <1>1, <2>2, WordKinds, Zenon DEF w
<1> QED BY <1>3, <1>4, Zenon
-----------------------------------------------------------------------------
(* Where the entries of a parse are from.                                  *)

\* Traces with its origins typed, for any calls and any zeros.
TraceOf(entries, origin, calls, zeros) ==
  /\ origin \in [1 .. Len(entries) -> 0 .. Len(calls)]
  /\ \A k \in 1 .. Len(entries) :
       IF origin[k] = 0 THEN zeros /\ entries[k] = <<>>
                        ELSE entries[k] = calls[origin[k]]
  /\ \A j, k \in 1 .. Len(entries) :
       j < k /\ origin[j] # 0 /\ origin[k] # 0 => origin[j] < origin[k]

\* The calls S are among the origins of the N frames, with frames that end in
\* the first m words.
Durable(cut, origin, N, m, S) ==
  \A c \in S : \E k \in 1 .. N : origin[k] = c /\ cut[k + 1] <= m + 1

\* The origins of N entries, and of one more.
OriginMore(origin, N, c) == [k \in 1 .. N + 1 |-> IF k = N + 1 THEN c ELSE origin[k]]

\* One more entry, from a later call or from zeros.
LEMMA TraceMore ==
  ASSUME NEW entries \in Seq(Seq(Word)), NEW x \in Seq(Word), NEW calls \in Seq(Entry),
         NEW zeros \in BOOLEAN, NEW origin, TraceOf(entries, origin, calls, zeros),
         NEW c \in 0 .. Len(calls),
         c = 0 => zeros /\ x = <<>>,
         c # 0 => x = calls[c] /\ \A k \in 1 .. Len(entries) : origin[k] < c
  PROVE  TraceOf(Append(entries, x), OriginMore(origin, Len(entries), c), calls, zeros)
<1> DEFINE N == Len(entries)
           all == Append(entries, x)
           org == OriginMore(origin, N, c)
<1>0. N \in Nat /\ Len(calls) \in Nat
  OBVIOUS
<1>1. Len(all) = N + 1 /\ all[N + 1] = x /\ \A k \in 1 .. N : all[k] = entries[k]
  OBVIOUS
<1>2. /\ origin \in [1 .. N -> 0 .. Len(calls)]
      /\ \A k \in 1 .. N : IF origin[k] = 0 THEN zeros /\ entries[k] = <<>>
                                            ELSE entries[k] = calls[origin[k]]
      /\ \A j, k \in 1 .. N : j < k /\ origin[j] # 0 /\ origin[k] # 0 => origin[j] < origin[k]
  BY Zenon DEF TraceOf
<1>3. c # 0 => \A k \in 1 .. N : origin[k] < c
  OBVIOUS
<1> HIDE DEF N, all
<1>4. org \in [1 .. N + 1 -> 0 .. Len(calls)]
  BY <1>0, <1>2 DEF OriginMore
<1>5. org[N + 1] = c /\ \A k \in 1 .. N : org[k] = origin[k]
  BY <1>0 DEF OriginMore
<1> HIDE DEF org
<1>6. \A k \in 1 .. N + 1 : k \in 1 .. N \/ k = N + 1
  BY <1>0
<1>7. \A k \in 1 .. N + 1 : IF org[k] = 0 THEN zeros /\ all[k] = <<>>
                                         ELSE all[k] = calls[org[k]]
  BY <1>1, <1>2, <1>5, <1>6, Zenon
<1>8. \A j, k \in 1 .. N + 1 : j < k /\ org[j] # 0 /\ org[k] # 0 => org[j] < org[k]
  <2> TAKE j, k \in 1 .. N + 1
  <2> HAVE j < k /\ org[j] # 0 /\ org[k] # 0
  <2>1. j \in 1 .. N
    BY <1>0
  <2>2. CASE k = N + 1
    BY <1>3, <1>5, <2>1, <2>2, ZenonT(40)
  <2>3. CASE k \in 1 .. N
    BY <1>2, <1>5, <2>1, <2>3, ZenonT(40)
  <2> QED BY <1>6, <2>2, <2>3, Zenon
<1>9. TraceOf(all, org, calls, zeros)
  BY <1>1, <1>4, <1>7, <1>8, Zenon DEF TraceOf
<1> QED BY <1>9, Zenon DEF all, org, N

\* The first K entries.
LEMMA TraceLess ==
  ASSUME NEW entries \in Seq(Seq(Word)), NEW calls \in Seq(Entry),
         NEW zeros, NEW origin, TraceOf(entries, origin, calls, zeros),
         NEW K \in 0 .. Len(entries)
  PROVE  TraceOf(SubSeq(entries, 1, K), [k \in 1 .. K |-> origin[k]], calls, zeros)
<1> DEFINE some == SubSeq(entries, 1, K)
           org == [k \in 1 .. K |-> origin[k]]
<1>1. Len(some) = K /\ \A k \in 1 .. K : some[k] = entries[k] /\ org[k] = origin[k]
  OBVIOUS
<1>2. \A k \in 1 .. K : k \in 1 .. Len(entries)
  OBVIOUS
<1>3. org \in [1 .. K -> 0 .. Len(calls)]
  BY <1>2, Zenon DEF TraceOf
<1> HIDE DEF some, org
<1>4. \A k \in 1 .. K : IF org[k] = 0 THEN zeros /\ some[k] = <<>>
                                     ELSE some[k] = calls[org[k]]
  BY <1>1, <1>2, Zenon DEF TraceOf
<1>5. \A j, k \in 1 .. K : j < k /\ org[j] # 0 /\ org[k] # 0 => org[j] < org[k]
  BY <1>1, <1>2, Zenon DEF TraceOf
<1>6. TraceOf(some, org, calls, zeros)
  BY <1>1, <1>3, <1>4, <1>5, Zenon DEF TraceOf
<1> QED BY <1>6, Zenon DEF some, org

\* More zeros and more calls leave the origins right.
LEMMA TraceStays ==
  ASSUME NEW entries, NEW origin, NEW calls \in Seq(Entry), NEW zeros, NEW later,
         TraceOf(entries, origin, calls, zeros), zeros => later, NEW x \in Entry
  PROVE  /\ TraceOf(entries, origin, calls, later)
         /\ TraceOf(entries, origin, Append(calls, x), zeros)
<1>1. TraceOf(entries, origin, calls, later)
  BY Zenon DEF TraceOf
<1>2. Len(Append(calls, x)) = Len(calls) + 1
      /\ \A c \in 1 .. Len(calls) : Append(calls, x)[c] = calls[c]
  OBVIOUS
<1>3. origin \in [1 .. Len(entries) -> 0 .. Len(calls)]
  BY Zenon DEF TraceOf
<1>4. origin \in [1 .. Len(entries) -> 0 .. Len(Append(calls, x))]
  BY <1>2, <1>3
<1>5. \A k \in 1 .. Len(entries) : origin[k] # 0 => origin[k] \in 1 .. Len(calls)
  BY <1>3
<1>6. \A k \in 1 .. Len(entries) :
        IF origin[k] = 0 THEN zeros /\ entries[k] = <<>>
                         ELSE entries[k] = Append(calls, x)[origin[k]]
  BY <1>2, <1>5, Zenon DEF TraceOf
<1>7. TraceOf(entries, origin, Append(calls, x), zeros)
  BY <1>4, <1>6, Zenon DEF TraceOf
<1> QED BY <1>1, <1>7, Zenon
\* A log whose entries are traced, the calls S to its first m words.
Found(words, entries, cut, origin, calls, zeros, m, S) ==
  /\ Parse(words, entries, cut)
  /\ TraceOf(entries, origin, calls, zeros)
  /\ Durable(cut, origin, Len(entries), m, S)

\* One more word completes an entry from a later call or from zeros.
LEMMA FoundMore ==
  ASSUME NEW words \in Seq(Word), NEW more, NEW entries, NEW cut, NEW origin,
         NEW calls \in Seq(Entry), NEW zeros \in BOOLEAN, NEW m, NEW S,
         Found(words, entries, cut, origin, calls, zeros, m, S),
         NEW x \in Seq(Word), NEW i,
         Parse(more, Append(entries, x), CutMore(cut, Len(entries), i)),
         NEW c \in 0 .. Len(calls),
         c = 0 => zeros /\ x = <<>>,
         c # 0 => x = calls[c] /\ \A k \in 1 .. Len(entries) : origin[k] < c
  PROVE  Found(more, Append(entries, x), CutMore(cut, Len(entries), i),
               OriginMore(origin, Len(entries), c), calls, zeros, m, S)
<1> DEFINE N == Len(entries)
           cuts == CutMore(cut, N, i)
           org == OriginMore(origin, N, c)
<1>0. N \in Nat /\ entries \in Seq(Seq(Word))
  BY DEF Found, Parse
<1>1. Len(Append(entries, x)) = N + 1
  BY <1>0
<1>2. TraceOf(Append(entries, x), org, calls, zeros)
  BY <1>0, TraceMore, Zenon DEF Found
<1>4. Durable(cut, origin, N, m, S)
  BY Zenon DEF Found
<1> HIDE DEF N
<1>3. \A k \in 1 .. N : k \in 1 .. N + 1 /\ org[k] = origin[k] /\ cuts[k + 1] = cut[k + 1]
  <2> TAKE k \in 1 .. N
  <2>1. k \in 1 .. N + 1 /\ k # N + 1 /\ k + 1 \in 1 .. N + 2 /\ k + 1 # N + 2
    BY <1>0
  <2> QED BY <2>1, Zenon DEF CutMore, OriginMore
<1> HIDE DEF cuts, org
<1>5. Durable(cuts, org, N + 1, m, S)
  BY <1>3, <1>4, Zenon DEF Durable
<1> QED BY <1>1, <1>2, <1>5, Zenon DEF Found, N, cuts, org

\* What a loss of power leaves of a traced log.
LEMMA FoundPrefix ==
  ASSUME NEW words \in Seq(Word), NEW other \in Seq(Word), Agree(words, other, Len(other)),
         NEW entries, NEW cut, NEW origin, NEW calls \in Seq(Entry), NEW zeros, NEW S,
         NEW m \in 0 .. Len(other),
         Found(words, entries, cut, origin, calls, zeros, m, S)
  PROVE  \E e, c, o : Found(other, e, c, o, calls, zeros, m, S)
<1> DEFINE N == Len(entries)
<1>0. N \in Nat /\ entries \in Seq(Seq(Word)) /\ cut \in [1 .. N + 1 -> 1 .. Len(words) + 1]
      /\ Parse(words, entries, cut)
  BY DEF Found, Parse
<1>1. PICK K \in 0 .. N :
        /\ Parse(other, SubSeq(entries, 1, K), [k \in 1 .. K + 1 |-> cut[k]])
        /\ \A k \in 1 .. N : k <= K <=> cut[k + 1] <= Len(other) + 1
  BY <1>0, PrefixParse, Zenon
<1> DEFINE cuts == [k \in 1 .. K + 1 |-> cut[k]]
           org == [k \in 1 .. K |-> origin[k]]
           some == SubSeq(entries, 1, K)
<1>2. TraceOf(some, org, calls, zeros)
  BY <1>0, TraceLess, Zenon DEF Found
<1>3. Len(some) = K
  BY <1>0
<1>4. \A k \in 1 .. N : cut[k + 1] <= m + 1 => k \in 1 .. K
  <2> TAKE k \in 1 .. N
  <2> HAVE cut[k + 1] <= m + 1
  <2>0. k + 1 \in 1 .. N + 1
    BY <1>0
  <2>1. cut[k + 1] \in 1 .. Len(words) + 1
    BY <1>0, <2>0, Zenon
  <2>2. cut[k + 1] <= Len(other) + 1
    BY <2>1
  <2> QED BY <1>0, <1>1, <2>2
<1>5. \A k \in 1 .. K : org[k] = origin[k] /\ cuts[k + 1] = cut[k + 1]
  BY <1>0
<1> HIDE DEF cuts, org, some
<1>6. Durable(cuts, org, K, m, S)
  BY <1>4, <1>5, Zenon DEF Found, Durable
<1>7. Found(other, some, cuts, org, calls, zeros, m, S)
  BY <1>1, <1>2, <1>3, <1>6, Zenon DEF Found, some, cuts
<1> QED BY <1>7, Zenon

\* Zeros complete only empty entries.
LEMMA ZeroCompletesNothing ==
  ASSUME NEW words \in Seq(Word), NEW s \in Nat \ {0}, NEW x \in Seq(Word),
         Holds(Append(words, Zero), s, Len(words) + 2, x)
  PROVE  x = <<>>
<1> DEFINE more == Append(words, Zero)
<1>1. more \in Seq(Word) /\ Len(more) = Len(words) + 1 /\ Len(more) + 1 = Len(words) + 2
      /\ more[Len(words) + 1] = Zero
  BY DEF Word
<1> HIDE DEF more
<1>2. x \in Entry /\ Begins(more, s, x)
  BY <1>1, FrameFound, Zenon DEF more
<1>3. Len(x) \in Nat /\ Len(words) + 2 = s + Len(x) + 2
  BY <1>2, FrameWords, Zenon DEF Holds
<1>4. SUFFICES ASSUME Len(x) # 0 PROVE FALSE
  BY <1>2, EmptyEntry, Zenon
<1>5. Len(words) + 1 \in s .. Len(more) /\ (Len(words) + 1) - s + 1 = Len(x) + 2
  BY <1>1, <1>3
<1>6. \A i \in s .. Len(more) : more[i] = Frame(x)[i - s + 1]
  BY <1>2, Zenon DEF Begins
<1>7. more[Len(words) + 1] = Frame(x)[(Len(words) + 1) - s + 1]
  BY <1>5, <1>6, Zenon
<1>8. Zero = x[Len(x)] /\ x[Len(x)] \in Data
  BY <1>1, <1>2, <1>3, <1>4, <1>5, <1>7, FrameWords
<1> QED BY <1>2, <1>8, WordKinds, Zenon

\* A zero that a loss of power leaves.
LEMMA FoundZero ==
  ASSUME NEW words \in Seq(Word), NEW calls \in Seq(Entry), NEW m, NEW S,
         \E e, c, o : Found(words, e, c, o, calls, TRUE, m, S)
  PROVE  \E e, c, o : Found(Append(words, Zero), e, c, o, calls, TRUE, m, S)
<1>1. PICK e, c, o : Found(words, e, c, o, calls, TRUE, m, S)
  OBVIOUS
<1>2. Parse(words, e, c) /\ c[Len(e) + 1] \in Nat \ {0} /\ Zero \in Word
  BY <1>1, StopType, Zenon DEF Found, Word
<1>3. CASE Parse(Append(words, Zero), e, c)
  BY <1>1, <1>3, Zenon DEF Found
<1>4. CASE \E x \in Seq(Word) :
             /\ Holds(Append(words, Zero), c[Len(e) + 1], Len(words) + 2, x)
             /\ Parse(Append(words, Zero), Append(e, x), CutMore(c, Len(e), Len(words) + 2))
  <2>1. PICK x \in Seq(Word) :
             /\ Holds(Append(words, Zero), c[Len(e) + 1], Len(words) + 2, x)
             /\ Parse(Append(words, Zero), Append(e, x), CutMore(c, Len(e), Len(words) + 2))
    BY <1>4, Zenon
  <2>2. x = <<>>
    BY <1>2, <2>1, ZeroCompletesNothing, Zenon
  <2>3. 0 \in 0 .. Len(calls)
    OBVIOUS
  <2>4. Found(Append(words, Zero), Append(e, x), CutMore(c, Len(e), Len(words) + 2),
              OriginMore(o, Len(e), 0), calls, TRUE, m, S)
    BY <1>1, <2>1, <2>2, <2>3, FoundMore, ZenonT(40)
  <2> QED BY <2>4, Zenon
<1> QED BY <1>2, <1>3, <1>4, AppendParse, Zenon
\* All the zeros that a loss of power leaves.
LEMMA FoundZeros ==
  ASSUME NEW words \in Seq(Word), NEW other \in Seq(Word), Agree(words, other, Len(words)),
         \A i \in Len(words) + 1 .. Len(other) : other[i] = Zero,
         NEW calls \in Seq(Entry), NEW m, NEW S,
         \E e, c, o : Found(words, e, c, o, calls, TRUE, m, S)
  PROVE  \E e, c, o : Found(other, e, c, o, calls, TRUE, m, S)
<1> DEFINE L == Len(words)
           Part(z) == SubSeq(other, 1, L + z)
           Good(z) == \E e, c, o : Found(Part(z), e, c, o, calls, TRUE, m, S)
           Have == {z \in Nat : L + z <= Len(other) => Good(z)}
<1>0. L \in Nat /\ Len(other) \in Nat /\ L <= Len(other)
  BY DEF Agree
<1>1. Good(0)
  <2>1. Part(0) = words
    BY DEF Agree
  <2> QED BY <2>1, Zenon
<1>2. ASSUME NEW z \in Nat, L + z + 1 <= Len(other), Good(z) PROVE Good(z + 1)
  <2>1. Part(z) \in Seq(Word)
    BY <1>0, <1>2
  <2>2. Append(Part(z), Zero) = Part(z + 1)
    <3>1. other[L + z + 1] = Zero
      BY <1>0, <1>2
    <3>2. Append(SubSeq(other, 1, L + z), other[L + z + 1]) = SubSeq(other, 1, L + z + 1)
      BY <1>0, <1>2
    <3>3. L + (z + 1) = L + z + 1
      BY <1>0
    <3> QED BY <3>1, <3>2, <3>3, Zenon
  <2> HIDE DEF Part
  <2>3. \E e, c, o : Found(Append(Part(z), Zero), e, c, o, calls, TRUE, m, S)
    BY <1>2, <2>1, FoundZero, Zenon
  <2> QED BY <2>2, <2>3, Zenon
<1>3. Len(other) - L \in Have
  <2> HIDE DEF Good, L
  <2>1. 0 \in Have
    BY <1>1, Zenon
  <2>2. ASSUME NEW z \in Nat, z \in Have PROVE z + 1 \in Have
    BY <1>0, <1>2, <2>2
  <2> HIDE DEF Have
  <2> QED BY <1>0, <2>1, <2>2, SetInduction
<1>4. Good(Len(other) - L)
  <2>1. L + (Len(other) - L) <= Len(other)
    BY <1>0
  <2> QED BY <1>3, <2>1, Zenon
<1>5. Part(Len(other) - L) = other
  <2>1. L + (Len(other) - L) = Len(other)
    BY <1>0
  <2>2. SubSeq(other, 1, Len(other)) = other
    OBVIOUS
  <2> QED BY <2>1, <2>2, Zenon
<1> HIDE DEF Part
<1> QED BY <1>4, <1>5, Zenon
-----------------------------------------------------------------------------
(* The inductive invariant.                                                *)

\* The variables have their types; inside Append there is a call.
TypeInv ==
  /\ TypeOK
  /\ log \in Seq(Word)
  /\ pending \in Seq(Word)
  /\ called \in Seq(Entry)
  /\ pc \in {"write", "sync"} => called # <<>>

\* The entries of the log are from calls, the acknowledged ones in its synced
\* words.
FoundLog(entries, cut, origin) ==
  Found(log, entries, cut, origin, called, zeroed, synced, acked \ behind)

\* All N entries are from calls before the last.
Earlier(origin, N) == \A k \in 1 .. N : origin[k] < Len(called)

\* Append writes its frame behind the last entry, at word s.
Own(s) ==
  /\ Begins(log, s, called[Len(called)])
  /\ pending = SubSeq(Frame(called[Len(called)]), (Len(log) + 2) - s,
                      Len(called[Len(called)]) + 2)

\* Append writes behind a torn frame: it has written nothing, or nothing that
\* begins a frame.
Stray(s) ==
  \/ pending = Frame(called[Len(called)]) /\ s <= Len(log)
  \/ Dead(log, s)

\* Append's first zero has completed the torn frame of an empty entry.
Joined(s) == s = Len(log) + 1 /\ pending = <<Zero>>

\* What Append has written of its frame.
Writing(s, origin, N) ==
  IF Len(called) \in behind
    THEN Joined(s) \/ (Earlier(origin, N) /\ Stray(s))
    ELSE Earlier(origin, N) /\ Own(s)

\* A frame that was not appended behind a torn one is the last entry.
Written(s, origin, N) ==
  Len(called) \notin behind =>
    s = Len(log) + 1 /\ N \in Nat \ {0} /\ origin[N] = Len(called)

LogInv(entries, cut, origin) ==
  /\ FoundLog(entries, cut, origin)
  /\ pc = "write" => Writing(cut[Len(entries) + 1], origin, Len(entries))
  /\ pc = "sync" => Written(cut[Len(entries) + 1], origin, Len(entries))

WalInv == TypeInv /\ \E entries, cut, origin : LogInv(entries, cut, origin)

\* The invariant holds of the empty log.
LEMMA InitInv == Init => WalInv
<1> SUFFICES ASSUME Init PROVE WalInv
  OBVIOUS
<1>0. Len(<<>>) = 0 /\ <<>> \in Seq(Word) /\ <<>> \in Seq(Entry)
  OBVIOUS
<1>1. TypeInv
  <2>1. TypeOK
    <3>1. synced \in 0 .. Len(log) /\ Len(called) <= MaxAppends
      BY <1>0, BoundsAssumption DEF Init
    <3>2. acked \cup behind \subseteq 1 .. Len(called)
      BY Zenon DEF Init
    <3> QED BY <3>1, <3>2, Zenon DEF Init, TypeOK
  <2> QED BY <1>0, <2>1, Zenon DEF Init, TypeInv
<1> DEFINE o == [k \in 1 .. 0 |-> 0]
           c == [k \in 1 .. 1 |-> 1]
<1>2. TraceOf(<<>>, o, <<>>, FALSE)
  BY DEF TraceOf
<1>3. Durable(c, o, 0, 0, {} \ {})
  BY Zenon DEF Durable
<1> HIDE DEF o, c
<1>5. Found(<<>>, <<>>, c, o, <<>>, FALSE, 0, {} \ {})
  BY <1>0, <1>2, <1>3, EmptyParse, Zenon DEF Found, c
<1>6. LogInv(<<>>, c, o)
  BY <1>5, Zenon DEF LogInv, FoundLog, Init
<1> QED BY <1>1, <1>6, Zenon DEF WalInv

\* Types are kept.
LEMMA TypeStep == TypeInv /\ [Next]_vars => TypeInv'
<1> SUFFICES ASSUME TypeInv, [Next]_vars PROVE TypeInv'
  OBVIOUS
<1>0. Len(log) \in Nat /\ Len(called) \in Nat
  BY DEF TypeInv
<1>1. CASE Open
  BY <1>1, Zenon DEF Open, TypeInv, TypeOK
<1>2. CASE BeginAppend
  <2>1. PICK x \in Entry : pending' = Frame(x) /\ called' = Append(called, x)
    BY <1>2, Zenon DEF BeginAppend
  <2>2. pending' \in Seq(Word) /\ pending' # <<>>
    BY <2>1, FrameWords
  <2>3. called' \in Seq(Entry) /\ Len(called') = Len(called) + 1 /\ called' # <<>>
    BY <2>1 DEF TypeInv
  <2>4. Len(called') <= MaxAppends
    BY <1>0, <1>2, <2>3, BoundsAssumption DEF BeginAppend
  <2>5. acked' \cup behind' \subseteq 1 .. Len(called')
    BY <1>0, <1>2, <2>3 DEF BeginAppend, TypeInv, TypeOK
  <2> QED BY <1>2, <2>2, <2>3, <2>4, <2>5, ZenonT(40) DEF BeginAppend, TypeInv, TypeOK
<1>3. CASE WriteAll
  <2>1. pending \in Seq(Word) /\ pending # <<>>
    BY <1>3, Zenon DEF WriteAll, TypeInv, TypeOK
  <2>2. log' \in Seq(Word) /\ Len(log') = Len(log) + 1 /\ pending' \in Seq(Word)
    BY <1>3, <2>1 DEF WriteAll, TypeInv
  <2>3. synced' \in 0 .. Len(log')
    BY <1>0, <1>3, <2>2 DEF WriteAll, TypeInv, TypeOK
  <2> QED BY <1>3, <2>2, <2>3, Zenon DEF WriteAll, TypeInv, TypeOK
<1>4. CASE Sync
  <2>1. Len(called) \in 1 .. Len(called)
    BY <1>4 DEF Sync, TypeInv
  <2> QED BY <1>0, <1>4, <2>1 DEF Sync, TypeInv, TypeOK
<1>5. CASE Fail
  BY <1>5 DEF Fail, TypeInv, TypeOK
<1>6. CASE Close
  BY <1>6, Zenon DEF Close, TypeInv, TypeOK
<1>7. CASE Crash
  BY <1>7 DEF Crash, TypeInv, TypeOK
<1>8. CASE PowerLoss
  <2>1. PICK kept \in synced .. Len(log), size \in synced .. Len(log) :
          /\ log' = [i \in 1 .. size |-> IF i <= kept THEN log[i] ELSE Zero]
          /\ synced' = size
          /\ zeroed' = (zeroed \/ kept < size)
    BY <1>8, Zenon DEF PowerLoss
  <2>2. size \in Nat /\ size <= Len(log) /\ Zero \in Word
    BY <1>0 DEF TypeInv, TypeOK, Word
  <2>3. log' \in Seq(Word) /\ Len(log') = size
    BY <1>0, <2>1, <2>2 DEF TypeInv
  <2>4. zeroed' \in BOOLEAN
    BY <2>1, Zenon DEF TypeInv, TypeOK
  <2> QED BY <1>8, <2>1, <2>2, <2>3, <2>4 DEF PowerLoss, TypeInv, TypeOK
<1>9. CASE UNCHANGED vars
  BY <1>9, Zenon DEF vars, TypeInv, TypeOK
<1> QED BY <1>1, <1>2, <1>3, <1>4, <1>5, <1>6, <1>7, <1>8, <1>9, Zenon DEF Next
\* The steps that leave the log, its calls and its syncs alone.
LEMMA QuietStep ==
  ASSUME NEW entries, NEW cut, NEW origin, FoundLog(entries, cut, origin),
         UNCHANGED <<log, synced, called, acked, behind, zeroed>>, pc' \notin {"write", "sync"}
  PROVE  LogInv(entries, cut, origin)'
<1>1. FoundLog(entries, cut, origin)'
  BY Zenon DEF FoundLog
<1> QED BY <1>1, Zenon DEF LogInv

\* Append is called.
LEMMA BeginAppendStep ==
  ASSUME TypeInv, TypeInv', NEW entries, NEW cut, NEW origin, FoundLog(entries, cut, origin),
         BeginAppend
  PROVE  LogInv(entries, cut, origin)'
<1> DEFINE s == cut[Len(entries) + 1]
           N == Len(entries)
           c == Len(called)
<1>0. c \in Nat /\ log \in Seq(Word) /\ called \in Seq(Entry) /\ behind \subseteq 1 .. c
      /\ acked \subseteq 1 .. c
  BY DEF TypeInv, TypeOK
<1>1. Parse(log, entries, cut) /\ TraceOf(entries, origin, called, zeroed)
      /\ Durable(cut, origin, N, synced, acked \ behind)
  BY Zenon DEF FoundLog, Found
<1>2. PICK x \in Entry : pending' = Frame(x) /\ called' = Append(called, x)
  BY Zenon DEF BeginAppend
<1>3. Len(called') = c + 1 /\ called'[Len(called')] = x
  BY <1>0, <1>2
<1>4. log' = log /\ synced' = synced /\ acked' = acked /\ zeroed' = zeroed /\ pc' = "write"
      /\ behind' = behind \cup {n \in {c + 1} : Torn}
  BY Zenon DEF BeginAppend
<1>5. Torn <=> s <= Len(log)
  <2>1. Replay(log).stop = s
    BY <1>0, <1>1, ParseIsReplay
  <2> QED BY <2>1, Zenon DEF Torn
<1>6. c + 1 \in behind' <=> s <= Len(log)
  BY <1>0, <1>4, <1>5
<1>7. FoundLog(entries, cut, origin)'
  <2>1. TraceOf(entries, origin, called', zeroed')
    BY <1>0, <1>1, <1>2, <1>4, TraceStays, ZenonT(40)
  <2>2. acked' \ behind' \subseteq acked \ behind
    BY <1>4, Zenon
  <2>3. Durable(cut, origin, N, synced, acked' \ behind')
    BY <1>1, <2>2, Zenon DEF Durable
  <2> QED BY <1>1, <1>4, <2>1, <2>3, Zenon DEF FoundLog, Found
<1>8. s \in Nat \ {0} /\ s <= Len(log) + 1 /\ Len(log) \in Nat /\ N \in Nat
  BY <1>0, <1>1, StopType
<1>9. \A k \in 1 .. N : origin[k] < Len(called')
  <2>1. \A k \in 1 .. N : origin[k] \in 0 .. c
    BY <1>1, Zenon DEF TraceOf
  <2> QED BY <1>0, <1>3, <2>1
<1> HIDE DEF s, N, c
<1>a. CASE s <= Len(log)
  <2>1. Len(called') \in behind' /\ pending' = Frame(called'[Len(called')]) /\ s <= Len(log')
    BY <1>2, <1>3, <1>4, <1>6, <1>a, Zenon
  <2>2. Writing(s, origin, N)'
    BY <1>9, <2>1, Zenon DEF Writing, Earlier, Stray
  <2> QED BY <1>4, <1>7, <2>2, Zenon DEF LogInv, s, N
<1>b. CASE ~ (s <= Len(log))
  <2>1. Len(called') \notin behind' /\ s = Len(log) + 1
    BY <1>3, <1>6, <1>8, <1>b
  <2>2. Len(x) \in Nat /\ Len(Frame(x)) = Len(x) + 2 /\ Frame(x) \in Seq(Word)
    BY FrameWords, Zenon
  <2>3. Begins(log, s, x)
    BY <1>8, <2>1, <2>2 DEF Begins
  <2>4. (Len(log) + 2) - s = 1
    BY <1>8, <2>1
  <2>5. Frame(x) = SubSeq(Frame(x), (Len(log) + 2) - s, Len(x) + 2)
    BY <2>2, <2>4
  <2>6. Own(s)'
    BY <1>2, <1>3, <1>4, <2>3, <2>5, Zenon DEF Own
  <2>7. Writing(s, origin, N)'
    BY <1>9, <2>1, <2>6, Zenon DEF Writing, Earlier
  <2> QED BY <1>4, <1>7, <2>7, Zenon DEF LogInv, s, N
<1> QED BY <1>a, <1>b, Zenon

\* The sync of Append.
LEMMA SyncStep ==
  ASSUME TypeInv, NEW entries, NEW cut, NEW origin, LogInv(entries, cut, origin), Sync
  PROVE  LogInv(entries, cut, origin)'
<1> DEFINE s == cut[Len(entries) + 1]
           N == Len(entries)
<1>0. log \in Seq(Word) /\ synced \in 0 .. Len(log)
  BY Zenon DEF TypeInv, TypeOK
<1>1. Parse(log, entries, cut) /\ TraceOf(entries, origin, called, zeroed)
      /\ Durable(cut, origin, N, synced, acked \ behind)
      /\ Written(s, origin, N)
  BY Zenon DEF LogInv, FoundLog, Found, Sync
<1>2. log' = log /\ synced' = Len(log) /\ called' = called /\ zeroed' = zeroed /\ behind' = behind
      /\ acked' = acked \cup {Len(called)} /\ pc' = "idle"
  BY Zenon DEF Sync
<1>3. \A k \in 1 .. N : cut[k + 1] \in Nat
  <2> TAKE k \in 1 .. N
  <2>1. k + 1 \in 1 .. N + 1
    BY <1>1, StopType
  <2>2. cut[k + 1] \in 1 .. Len(log) + 1
    BY <1>0, <1>1, <2>1, StopType, Zenon
  <2> QED BY <1>0, <2>2
<1> HIDE DEF s, N
<1>4. ASSUME NEW n \in acked' \ behind'
      PROVE  \E k \in 1 .. N : origin[k] = n /\ cut[k + 1] <= synced' + 1
  <2>1. CASE n \in acked
    <3>1. PICK k \in 1 .. N : origin[k] = n /\ cut[k + 1] <= synced + 1
      BY <1>1, <1>2, <1>4, <2>1, Zenon DEF Durable
    <3>2. cut[k + 1] <= synced' + 1
      BY <1>0, <1>2, <1>3, <3>1
    <3> QED BY <3>1, <3>2, Zenon
  <2>2. CASE n = Len(called)
    <3>1. n \notin behind
      BY <1>2, Zenon
    <3>2. s = Len(log) + 1 /\ N \in 1 .. N /\ origin[N] = n
      BY <1>1, <2>2, <3>1 DEF Written
    <3>3. cut[N + 1] <= synced' + 1
      BY <1>0, <1>2, <3>2 DEF s, N
    <3> QED BY <3>2, <3>3, Zenon
  <2> QED BY <1>2, <2>1, <2>2, Zenon
<1>5. FoundLog(entries, cut, origin)'
  <2>1. Durable(cut, origin, N, synced', acked' \ behind')
    BY <1>4, Zenon DEF Durable
  <2> QED BY <1>1, <1>2, <2>1, Zenon DEF FoundLog, Found, N
<1> QED BY <1>2, <1>5, Zenon DEF LogInv

\* A word that completes no entry.
LEMMA WriteNothing ==
  ASSUME NEW entries, NEW cut, NEW origin, FoundLog(entries, cut, origin), WriteAll,
         Parse(log', entries, cut)
  PROVE  FoundLog(entries, cut, origin)'
<1>1. UNCHANGED <<synced, called, acked, behind, zeroed>>
  BY Zenon DEF WriteAll
<1> QED BY <1>1, Zenon DEF FoundLog, Found

\* A word that completes the entry x of the last call, call c.
LEMMA WriteEntry ==
  ASSUME TypeInv, NEW entries, NEW cut, NEW origin, FoundLog(entries, cut, origin), WriteAll,
         NEW c \in Nat \ {0}, c = Len(called), NEW x, x = called[c],
         Earlier(origin, Len(entries)), NEW i,
         Parse(log', Append(entries, x), CutMore(cut, Len(entries), i))
  PROVE  /\ FoundLog(Append(entries, x), CutMore(cut, Len(entries), i),
                     OriginMore(origin, Len(entries), c))'
         /\ Len(Append(entries, x)) = Len(entries) + 1
         /\ Len(entries) \in Nat
         /\ CutMore(cut, Len(entries), i)[Len(entries) + 2] = i
         /\ OriginMore(origin, Len(entries), c)[Len(entries) + 1] = c
<1>0. log \in Seq(Word) /\ called \in Seq(Entry) /\ zeroed \in BOOLEAN
  BY Zenon DEF TypeInv, TypeOK
<1>1. c \in 0 .. Len(called) /\ x \in Entry
  BY <1>0
<1>2. x \in Seq(Word)
  <2>1. x \in Seq(Data) /\ Data \subseteq Word
    BY <1>1, EntryType, Zenon DEF Data, Word
  <2> QED BY <2>1
<1>3. UNCHANGED <<synced, called, acked, behind, zeroed>>
  BY Zenon DEF WriteAll
<1>4. Len(entries) \in Nat /\ entries \in Seq(Seq(Word))
  BY <1>0, StopType, Zenon DEF FoundLog, Found
<1>5. \A k \in 1 .. Len(entries) : origin[k] < c
  BY Zenon DEF Earlier
<1> DEFINE more == Append(entries, x)
           cuts == CutMore(cut, Len(entries), i)
           org == OriginMore(origin, Len(entries), c)
<1>6. Found(log', more, cuts, org, called, zeroed, synced, acked \ behind)
  <2>1. Found(log, entries, cut, origin, called, zeroed, synced, acked \ behind) /\ c # 0
    BY Zenon DEF FoundLog
  <2> QED BY <1>0, <1>1, <1>2, <1>5, <2>1, FoundMore, SMTT(30)
<1>7. Len(more) = Len(entries) + 1
  BY <1>2, <1>4
<1>8. cuts[Len(entries) + 2] = i /\ org[Len(entries) + 1] = c
  BY <1>4 DEF CutMore, OriginMore
<1> HIDE DEF more, cuts, org
<1>9. FoundLog(more, cuts, org)'
  BY <1>3, <1>6, Zenon DEF FoundLog
<1> QED BY <1>4, <1>7, <1>8, <1>9, Zenon DEF more, cuts, org

\* The machine dies.
LEMMA PowerLossStep ==
  ASSUME TypeInv, TypeInv', NEW entries, NEW cut, NEW origin, FoundLog(entries, cut, origin),
         PowerLoss
  PROVE  \E e, c, o : LogInv(e, c, o)'
<1>0. log \in Seq(Word) /\ log' \in Seq(Word) /\ synced \in 0 .. Len(log)
      /\ called \in Seq(Entry) /\ zeroed \in BOOLEAN
  BY Zenon DEF TypeInv, TypeOK
<1>1. PICK kept \in synced .. Len(log), size \in synced .. Len(log) :
        /\ kept <= size
        /\ log' = [i \in 1 .. size |-> IF i <= kept THEN log[i] ELSE Zero]
        /\ synced' = size
        /\ zeroed' = (zeroed \/ kept < size)
  BY Zenon DEF PowerLoss
<1>2. called' = called /\ acked' = acked /\ behind' = behind /\ pc' = "closed"
  BY Zenon DEF PowerLoss
<1>3. kept \in Nat /\ size \in Nat /\ synced \in Nat /\ synced <= kept
  BY <1>0
<1> DEFINE S == acked \ behind
           part == SubSeq(log, 1, kept)
           Good(words, zeros) == \E e, c, o : Found(words, e, c, o, called, zeros, synced, S)
<1>4. part \in Seq(Word) /\ Len(part) = kept /\ \A i \in 1 .. kept : part[i] = log[i]
  BY <1>0, <1>3
<1>5. Len(log') = size /\ (\A i \in 1 .. kept : log'[i] = log[i])
      /\ \A i \in kept + 1 .. size : log'[i] = Zero
  BY <1>1, <1>3
<1> HIDE DEF part
<1>6. Agree(log, part, Len(part)) /\ Agree(part, log', Len(part))
  <2>1. kept <= Len(log) /\ kept <= kept
    BY <1>0, <1>1, <1>3
  <2> QED BY <1>1, <1>4, <1>5, <2>1, Zenon DEF Agree
<1>7. Good(part, zeroed)
  <2>1. synced \in 0 .. Len(part)
    BY <1>3, <1>4
  <2>2. Found(log, entries, cut, origin, called, zeroed, synced, S)
    BY Zenon DEF FoundLog
  <2> QED BY <1>0, <1>4, <1>6, <2>1, <2>2, FoundPrefix
<1>8. Good(log', zeroed')
  <2>1. CASE kept = size
    <3>1. log' = part
      BY <1>0, <1>4, <1>5, <2>1, SameElements, Zenon
    <3>2. zeroed' = zeroed
      <4>1. ~ (kept < size)
        BY <1>3, <2>1
      <4> QED BY <1>0, <1>1, <4>1, Zenon
    <3> QED BY <1>7, <3>1, <3>2, Zenon
  <2>2. CASE kept # size
    <3>1. zeroed' = TRUE
      <4>1. kept < size
        BY <1>1, <1>3, <2>2
      <4> QED BY <1>1, <4>1, Zenon
    <3>2. PICK e, c, o : Found(part, e, c, o, called, zeroed, synced, S)
      BY <1>7, Zenon
    <3>3. TraceOf(e, o, called, TRUE)
      <4>1. TraceOf(e, o, called, zeroed)
        BY <3>2, Zenon DEF Found
      <4> QED BY <1>0, <4>1, EmptyEntry, TraceStays, Zenon
    <3>4. Found(part, e, c, o, called, TRUE, synced, S)
      BY <3>2, <3>3, Zenon DEF Found
    <3>5. \A i \in Len(part) + 1 .. Len(log') : log'[i] = Zero
      BY <1>4, <1>5, Zenon
    <3>6. Good(part, TRUE)
      BY <3>4, Zenon
    <3>7. Good(log', TRUE)
      BY <1>0, <1>4, <1>6, <3>5, <3>6, FoundZeros, ZenonT(40)
    <3> QED BY <3>1, <3>7, Zenon
  <2> QED BY <2>1, <2>2, Zenon
<1>9. PICK e, c, o : Found(log', e, c, o, called, zeroed', synced, S)
  BY <1>8, Zenon
<1>a. Durable(c, o, Len(e), synced', S)
  <2>1. Parse(log', e, c) /\ Durable(c, o, Len(e), synced, S)
    BY <1>9, Zenon DEF Found
  <2>2. \A k \in 1 .. Len(e) : c[k + 1] \in Nat
    <3> TAKE k \in 1 .. Len(e)
    <3>1. k + 1 \in 1 .. Len(e) + 1
      BY <1>0, <2>1, StopType
    <3>2. c[k + 1] \in 1 .. Len(log') + 1
      BY <1>0, <2>1, <3>1, StopType, ZenonT(40)
    <3> QED BY <1>0, <3>2
  <2>3. \A k \in 1 .. Len(e) : c[k + 1] <= synced + 1 => c[k + 1] <= synced' + 1
    BY <1>1, <1>3, <2>2
  <2> QED BY <2>1, <2>3, Zenon DEF Durable
<1>b. FoundLog(e, c, o)'
  BY <1>2, <1>9, <1>a, Zenon DEF FoundLog, Found
<1>c. LogInv(e, c, o)'
  BY <1>2, <1>b, Zenon DEF LogInv
<1> QED BY <1>c, Zenon

\* What is left to write when the words f[i], f[i + 1], ... are, and the next is written.
LEMMA RestOfFrame ==
  ASSUME NEW T, NEW f \in Seq(T), NEW i \in 1 .. Len(f)
  PROVE  /\ Head(SubSeq(f, i, Len(f))) = f[i]
         /\ Tail(SubSeq(f, i, Len(f))) = SubSeq(f, i + 1, Len(f))
         /\ SubSeq(f, i + 1, Len(f)) = <<>> <=> i = Len(f)
<1> DEFINE r == SubSeq(f, i, Len(f))
           u == SubSeq(f, i + 1, Len(f))
<1>1. r \in Seq(T) /\ Len(r) = Len(f) - i + 1 /\ \A k \in 1 .. Len(r) : r[k] = f[i + k - 1]
  OBVIOUS
<1>2. u \in Seq(T) /\ Len(u) = Len(f) - i /\ \A k \in 1 .. Len(u) : u[k] = f[i + k]
  OBVIOUS
<1> HIDE DEF r, u
<1>3. Head(r) = f[i]
  BY <1>1
<1>4. Tail(r) \in Seq(T) /\ Len(Tail(r)) = Len(f) - i
      /\ \A k \in 1 .. Len(Tail(r)) : Tail(r)[k] = r[k + 1]
  BY <1>1
<1>5. Tail(r) = u
  <2>1. \A k \in 1 .. Len(u) : Tail(r)[k] = u[k]
    <3> TAKE k \in 1 .. Len(u)
    <3>1. k + 1 \in 1 .. Len(r) /\ i + (k + 1) - 1 = i + k
      BY <1>1, <1>2
    <3> QED BY <1>1, <1>2, <1>4, <3>1, ZenonT(40)
  <2>2. Len(Tail(r)) = Len(u) /\ \A k \in 1 .. Len(Tail(r)) : Tail(r)[k] = u[k]
    BY <1>2, <1>4, <2>1, Zenon
  <2> QED BY <1>2, <1>4, <2>2, SameElements, Zenon
<1>6. u = <<>> <=> i = Len(f)
  BY <1>2
<1> QED BY <1>3, <1>5, <1>6, ZenonT(40) DEF r, u

\* The next word of a frame that begins at s.
LEMMA NextWord ==
  ASSUME NEW m \in Nat, NEW s \in Nat \ {0}, NEW n \in Nat
  PROVE  /\ ((m + 1) + 2) - s = ((m + 2) - s) + 1
         /\ m + 2 = s + n + 2 <=> (m + 2) - s = n + 2
         /\ (m + 2) - s <= n + 2 => (m + 1) + 1 <= s + n + 2
         /\ (n + 1) + 1 = n + 2 /\ n + 1 \in Nat \ {0}
OBVIOUS

\* Append writes a word.
LEMMA WriteAllStep ==
  ASSUME TypeInv, TypeInv', NEW entries, NEW cut, NEW origin, LogInv(entries, cut, origin),
         WriteAll
  PROVE  \E e, t, o : LogInv(e, t, o)'
<1> DEFINE N == Len(entries)
           s == cut[N + 1]
           w == Head(pending)
<1>0. log \in Seq(Word) /\ called \in Seq(Entry) /\ pending \in Seq(Word) /\ pending # <<>>
      /\ called # <<>> /\ pc = "write"
  BY Zenon DEF TypeInv, TypeOK, WriteAll
<1>1. PICK c \in Nat \ {0} : c = Len(called)
  BY <1>0
<1>2. PICK x \in Entry : x = called[c]
  BY <1>0, <1>1
<1>3. /\ log' = Append(log, w) /\ pending' = Tail(pending) /\ w \in Word
      /\ pc' = (IF pending' = <<>> THEN "sync" ELSE "write")
      /\ called' = called /\ behind' = behind
  BY <1>0 DEF WriteAll
<1>4. FoundLog(entries, cut, origin) /\ Parse(log, entries, cut) /\ Writing(s, origin, N)
  BY <1>0, Zenon DEF LogInv, FoundLog, Found
<1>5. s \in Nat \ {0} /\ s <= Len(log) + 1 /\ Len(log) \in Nat /\ N \in Nat /\ Len(x) \in Nat
  BY <1>0, <1>4, StopType, FrameWords
<1>6. Len(log') = Len(log) + 1 /\ Len(log') + 1 = Len(log) + 2
  BY <1>0, <1>3
<1>7. Len(x) \in Nat /\ Frame(x) \in Seq(Word) /\ Len(Frame(x)) = Len(x) + 2
      /\ Frame(x)[1] = LengthWord(Len(x))
  BY FrameWords, Zenon
<1> HIDE DEF w
<1>8. ASSUME c \notin behind PROVE \E e, t, o : LogInv(e, t, o)'
  <2>1. Earlier(origin, N) /\ Begins(log, s, x)
        /\ pending = SubSeq(Frame(x), (Len(log) + 2) - s, Len(x) + 2)
    BY <1>1, <1>2, <1>4, <1>8, Zenon DEF Writing, Own
  <2> DEFINE i == (Len(log) + 2) - s
  <2>2. i \in 1 .. Len(x) + 2
    <3>1. i \in Nat \ {0}
      BY <1>5
    <3>2. i <= Len(x) + 2
      <4> SUFFICES ASSUME i > Len(x) + 2 PROVE FALSE
        BY <1>5, <3>1
      <4> QED BY <1>0, <1>5, <1>7, <2>1, <3>1
    <3> QED BY <1>5, <3>1, <3>2
  <2> HIDE DEF i
  <2>3. w = Frame(x)[i] /\ pending' = SubSeq(Frame(x), i + 1, Len(x) + 2)
        /\ (pending' = <<>> <=> i = Len(x) + 2)
    <3>1. i \in 1 .. Len(Frame(x)) /\ pending = SubSeq(Frame(x), i, Len(Frame(x)))
      BY <1>7, <2>1, <2>2, ZenonT(40) DEF i
    <3>2. Head(pending) = Frame(x)[i] /\ Tail(pending) = SubSeq(Frame(x), i + 1, Len(Frame(x)))
          /\ (Tail(pending) = <<>> <=> i = Len(Frame(x)))
      BY <1>7, <3>1, RestOfFrame, Zenon
    <3> QED BY <1>3, <1>7, <3>2, Zenon DEF w
  <2>4. i = (Len(log) + 2) - s
    BY Zenon DEF i
  <2>5. Begins(log', s, x)
    <3>1. Len(log') + 1 <= s + Len(x) + 2
      <4>1. i <= Len(x) + 2
        BY <1>5, <2>2
      <4> QED BY <1>5, <1>6, <2>4, <4>1, NextWord, Zenon
    <3>2. ASSUME NEW j \in s .. Len(log') PROVE log'[j] = Frame(x)[j - s + 1]
      <4>1. CASE j = Len(log) + 1
        <5>1. log'[j] = w
          BY <1>0, <1>3, <4>1
        <5>2. j - s + 1 = i
          BY <1>5, <2>4, <4>1
        <5> QED BY <2>3, <5>1, <5>2, Zenon
      <4>2. CASE j # Len(log) + 1
        <5>1. j \in s .. Len(log) /\ j \in 1 .. Len(log)
          BY <1>5, <1>6, <4>2
        <5>2. log'[j] = log[j]
          BY <1>0, <1>3, <5>1
        <5> QED BY <2>1, <5>1, <5>2, Zenon DEF Begins
      <4> QED BY <4>1, <4>2, Zenon
    <3> QED BY <3>1, <3>2, Zenon DEF Begins
  <2>6. CASE i = Len(x) + 2
    <3>1. Len(log) + 2 = s + Len(x) + 2
      BY <1>5, <2>4, <2>6, NextWord
    <3>2. Parse(log', Append(entries, x), CutMore(cut, N, Len(log) + 2))
      BY <1>0, <1>3, <1>4, <2>5, <3>1, AppendOwn, ZenonT(40)
    <3>3. PICK j : j = Len(log) + 2
      BY Zenon
    <3> DEFINE e == Append(entries, x)
               t == CutMore(cut, N, j)
               o == OriginMore(origin, N, c)
    <3>a. Parse(log', e, t)
      BY <3>2, <3>3, Zenon
    <3>4. FoundLog(e, t, o)' /\ Len(e) = N + 1 /\ t[N + 2] = j /\ o[N + 1] = c
      BY <1>1, <1>2, <1>4, <2>1, <3>a, WriteEntry
    <3> HIDE DEF e, t, o
    <3>5. t[Len(e) + 1] = Len(log') + 1 /\ Len(e) \in Nat \ {0} /\ o[Len(e)] = Len(called')
      <4>1. (N + 1) + 1 = N + 2 /\ N + 1 \in Nat \ {0}
        BY <1>5
      <4> QED BY <1>1, <1>3, <1>6, <3>3, <3>4, <4>1, Zenon
    <3>6. Written(t[Len(e) + 1], o, Len(e))'
      BY <3>5, Zenon DEF Written
    <3>7. pc' = "sync"
      BY <1>3, <2>3, <2>6, Zenon
    <3>8. LogInv(e, t, o)'
      BY <3>4, <3>6, <3>7, Zenon DEF LogInv
    <3> QED BY <3>8, Zenon
  <2>7. CASE i # Len(x) + 2
    <3>1. Len(log) + 2 # s + Len(x) + 2
      BY <1>5, <2>4, <2>7, NextWord
    <3>2. Parse(log', entries, cut)
      BY <1>0, <1>3, <1>4, <2>5, <3>1, AppendOwn, ZenonT(40)
    <3>3. FoundLog(entries, cut, origin)'
      BY <1>4, <3>2, WriteNothing, ZenonT(40)
    <3>4. pc' = "write" /\ (Len(log') + 2) - s = i + 1
      <4>1. pc' = "write"
        BY <1>3, <2>3, <2>7, Zenon
      <4> QED BY <1>5, <1>6, <2>4, <4>1, NextWord
    <3>5. Own(s)'
      BY <1>1, <1>2, <1>3, <2>3, <2>5, <3>4, Zenon DEF Own
    <3>6. Writing(s, origin, N)'
      BY <1>1, <1>3, <1>8, <2>1, <3>5, Zenon DEF Writing, Earlier
    <3>7. LogInv(entries, cut, origin)'
      BY <3>3, <3>4, <3>6, Zenon DEF LogInv
    <3> QED BY <3>7, Zenon
  <2> QED BY <2>6, <2>7, Zenon
<1>9. ASSUME c \in behind, Joined(s) PROVE \E e, t, o : LogInv(e, t, o)'
  <2>1. s = Len(log) + 1 /\ w = Zero /\ pending' = <<>>
    BY <1>3, <1>9 DEF Joined, w
  <2>2. Parse(log', entries, cut)
    BY <1>0, <1>3, <1>4, <1>5, <2>1, AppendTooShort, ZenonT(40)
  <2>3. FoundLog(entries, cut, origin)'
    BY <1>4, <2>2, WriteNothing, Zenon
  <2>4. pc' = "sync"
    BY <1>3, <2>1, Zenon
  <2>5. Written(s, origin, N)'
    BY <1>1, <1>3, <1>9, Zenon DEF Written
  <2>6. LogInv(entries, cut, origin)'
    BY <2>3, <2>4, <2>5, Zenon DEF LogInv
  <2> QED BY <2>6, Zenon
<1>10. ASSUME c \in behind, Earlier(origin, N), Stray(s), Dead(log', s)
       PROVE  \E e, t, o : LogInv(e, t, o)'
  <2>1. Parse(log', entries, cut)
    BY <1>0, <1>3, <1>4, <1>10, AppendDead, ZenonT(40)
  <2>2. FoundLog(entries, cut, origin)'
    BY <1>4, <2>1, WriteNothing, Zenon
  <2>3. Writing(s, origin, N)'
    BY <1>1, <1>3, <1>10, Zenon DEF Writing, Earlier, Stray
  <2>4. Written(s, origin, N)'
    BY <1>1, <1>3, <1>10, Zenon DEF Written
  <2>5. LogInv(entries, cut, origin)'
    BY <2>2, <2>3, <2>4, Zenon DEF LogInv
  <2> QED BY <2>5, Zenon
<1>11. ASSUME c \in behind, Earlier(origin, N), pending = Frame(x), s <= Len(log), ~ Dead(log', s)
       PROVE  \E e, t, o : LogInv(e, t, o)'
  <2>1. w = LengthWord(Len(x))
    BY <1>7, <1>11 DEF w
  <2>2. PICK y \in Entry : Begins(log', s, y)
    BY <1>11, Zenon DEF Dead
  <2>3. y = <<>> /\ x = <<>> /\ s = Len(log)
    BY <1>0, <1>3, <1>5, <1>11, <2>1, <2>2, BehindTorn, ZenonT(40)
  <2>4. Len(log) + 2 = s + Len(x) + 2
    <3>1. Len(x) = 0
      BY <2>3, EmptyEntry, Zenon
    <3> QED BY <1>5, <2>3, <3>1
  <2>5. Parse(log', Append(entries, x), CutMore(cut, N, Len(log) + 2))
    <3>1. Begins(log', s, x)
      BY <2>2, <2>3, Zenon
    <3> QED BY <1>0, <1>3, <1>4, <2>4, <3>1, AppendOwn, ZenonT(40)
  <2>6. PICK j : j = Len(log) + 2
    BY Zenon
  <2> DEFINE e == Append(entries, x)
             t == CutMore(cut, N, j)
             o == OriginMore(origin, N, c)
  <2>a. Parse(log', e, t)
    BY <2>5, <2>6, Zenon
  <2>7. FoundLog(e, t, o)' /\ Len(e) = N + 1 /\ t[N + 2] = j
    BY <1>1, <1>2, <1>4, <1>11, <2>a, WriteEntry
  <2> HIDE DEF e, t, o
  <2>8. t[Len(e) + 1] = Len(log') + 1
    <3>1. (N + 1) + 1 = N + 2
      BY <1>5
    <3> QED BY <1>6, <2>6, <2>7, <3>1, Zenon
  <2>9. pending' = <<Zero>> /\ pc' = "write"
    <3>1. pending = <<Zero, Zero>>
      BY <1>11, <2>3 DEF Frame, LengthWord, CrcWord, Zero
    <3>2. Tail(<<Zero, Zero>>) = <<Zero>> /\ <<Zero>> # <<>>
      BY DEF Zero
    <3> QED BY <1>3, <3>1, <3>2, Zenon
  <2> HIDE DEF e, t, o
  <2>10. Joined(t[Len(e) + 1])'
    BY <2>8, <2>9, Zenon DEF Joined
  <2>11. Writing(t[Len(e) + 1], o, Len(e))'
    BY <1>1, <1>3, <1>11, <2>10, Zenon DEF Writing
  <2>12. Written(t[Len(e) + 1], o, Len(e))'
    BY <1>1, <1>3, <1>11, Zenon DEF Written
  <2>13. LogInv(e, t, o)'
    BY <2>7, <2>11, <2>12, Zenon DEF LogInv
  <2> QED BY <2>13, Zenon
<1>12. CASE c \in behind
  <2>1. Joined(s) \/ (Earlier(origin, N) /\ Stray(s))
    BY <1>1, <1>4, <1>12, Zenon DEF Writing
  <2>2. Stray(s) => \/ pending = Frame(x) /\ s <= Len(log)
                    \/ Dead(log', s)
    BY <1>0, <1>1, <1>2, <1>3, <1>5, DeadStays, Zenon DEF Stray
  <2> QED BY <1>9, <1>10, <1>11, <1>12, <2>1, <2>2, Zenon
<1> QED BY <1>8, <1>12, Zenon

\* Every step of the log keeps the invariant.
LEMMA InvStep == WalInv /\ [Next]_vars => WalInv'
<1> SUFFICES ASSUME WalInv, [Next]_vars PROVE WalInv'
  OBVIOUS
<1>1. TypeInv /\ TypeInv'
  BY TypeStep, Zenon DEF WalInv
<1>2. PICK entries, cut, origin : LogInv(entries, cut, origin)
  BY Zenon DEF WalInv
<1>3. FoundLog(entries, cut, origin)
  BY <1>2, Zenon DEF LogInv
<1>4. \E e, t, o : LogInv(e, t, o)'
  <2>1. CASE Open \/ Fail \/ Close \/ Crash
    <3>1. UNCHANGED <<log, synced, called, acked, behind, zeroed>> /\ pc' \notin {"write", "sync"}
      BY <2>1, Zenon DEF Open, Fail, Close, Crash
    <3> QED BY <1>3, <3>1, QuietStep, Zenon
  <2>2. CASE BeginAppend
    BY <1>1, <1>3, <2>2, BeginAppendStep, Zenon
  <2>3. CASE WriteAll
    BY <1>1, <1>2, <2>3, WriteAllStep, Zenon
  <2>4. CASE Sync
    BY <1>1, <1>2, <2>4, SyncStep, Zenon
  <2>5. CASE PowerLoss
    BY <1>1, <1>3, <2>5, PowerLossStep, Zenon
  <2>6. CASE UNCHANGED vars
    <3>1. LogInv(entries, cut, origin)'
      BY <1>2, <2>6, Zenon DEF vars, LogInv, FoundLog, Writing, Written, Joined, Own, Stray, Earlier
    <3> QED BY <3>1, Zenon
  <2> QED BY <2>1, <2>2, <2>3, <2>4, <2>5, <2>6, Zenon DEF Next
<1> QED BY <1>1, <1>4, Zenon DEF WalInv

\* The log is always a parse whose entries trace back to the calls, with what
\* Append has written of its frame behind it.
THEOREM Invariance == Spec => []WalInv
BY InitInv, InvStep, PTL DEF Spec

\* What the invariant says of ReplayWal's result.
LEMMA InvReplay ==
  ASSUME WalInv
  PROVE  ReplayedWereAppended /\ AckedReplayed
<1>1. PICK entries, cut, origin : FoundLog(entries, cut, origin)
  BY Zenon DEF WalInv, LogInv
<1>2. log \in Seq(Word)
  BY Zenon DEF WalInv, TypeInv
<1>3. Parse(log, entries, cut) /\ TraceOf(entries, origin, called, zeroed)
      /\ Durable(cut, origin, Len(entries), synced, acked \ behind)
  BY <1>1, Zenon DEF FoundLog, Found
<1>4. Replay(log) = [entries |-> entries, stop |-> cut[Len(entries) + 1]]
  BY <1>2, <1>3, ParseIsReplay, Zenon
<1>5. Replay(log).entries = entries
  BY <1>4
<1>6. DOMAIN entries = 1 .. Len(entries)
  BY <1>2, <1>3, StopType
<1>7. origin \in [DOMAIN entries -> 0 .. Len(called)]
  BY <1>3, <1>6, Zenon DEF TraceOf
<1>8. Traces(entries, origin)
  BY <1>3, <1>6, Zenon DEF TraceOf, Traces
<1>9. \A n \in acked \ behind : \E i \in DOMAIN entries : origin[i] = n
  BY <1>3, <1>6, Zenon DEF Durable
<1>10. ReplayedWereAppended
  BY <1>5, <1>7, <1>8, Zenon DEF ReplayedWereAppended
<1>11. AckedReplayed
  BY <1>5, <1>7, <1>8, <1>9, Zenon DEF AckedReplayed
<1> QED BY <1>10, <1>11, Zenon

\* Whatever crashes, failed writes and losses of power have left in the log,
\* ReplayWal returns entries that Append was called with, in the order of the
\* calls and none twice (zeros that read as empty entries apart).
THEOREM ReplayedAreAppended == Spec => []ReplayedWereAppended
BY Invariance, InvReplay, PTL

\* Every entry that WalWriter::Append acknowledged is replayed, unless the log
\* already ended in a torn frame when Append was called.
THEOREM AckedAreReplayed == Spec => []AckedReplayed
BY Invariance, InvReplay, PTL

\* A prefix of a sequence's entries.
LEMMA PrefixOf ==
  ASSUME NEW T, NEW e \in Seq(T), NEW K \in 0 .. Len(e)
  PROVE  StartsWith(e, SubSeq(e, 1, K))
<1> DEFINE p == SubSeq(e, 1, K)
<1>1. p \in Seq(T) /\ Len(p) = K /\ SubSeq(p, 1, K) = p
  OBVIOUS
<1> QED BY <1>1 DEF StartsWith

\* ReplayWal returns more of a longer log.
LEMMA ReplayGrows ==
  ASSUME NEW words \in Seq(Word), NEW other \in Seq(Word), Agree(words, other, Len(other))
  PROVE  StartsWith(Replay(words).entries, Replay(other).entries)
<1>1. PICK entries, cut : Parse(words, entries, cut)
  BY ParseExists, Zenon
<1>2. PICK K \in 0 .. Len(entries) :
        Parse(other, SubSeq(entries, 1, K), [k \in 1 .. K + 1 |-> cut[k]])
  BY <1>1, PrefixParse, Zenon
<1>3. Replay(words).entries = entries
  BY <1>1, ParseIsReplay
<1> DEFINE part == SubSeq(entries, 1, K)
           ends == [k \in 1 .. K + 1 |-> cut[k]]
<1> HIDE DEF part, ends
<1>4. Parse(other, part, ends)
  BY <1>2, Zenon DEF part, ends
<1>5. Replay(other).entries = part
  BY <1>4, ParseIsReplay
<1>6. entries \in Seq(Seq(Word))
  BY <1>1, StopType, Zenon
<1>7. StartsWith(entries, part)
  BY <1>2, <1>6, PrefixOf, Zenon DEF part
<1> QED BY <1>3, <1>5, <1>7, Zenon

\* Every step keeps the synced words where they are.
LEMMA SyncedStay ==
  ASSUME TypeInv, TypeInv', [Next]_vars
  PROVE  Agree(log', SubSeq(log, 1, synced), synced) /\ synced <= Len(log')
<1>0. log \in Seq(Word) /\ synced \in 0 .. Len(log)
  BY Zenon DEF TypeInv, TypeOK
<1>1. CASE log' = log
  BY <1>0, <1>1 DEF Agree
<1>2. CASE WriteAll
  <2>1. log' = Append(log, Head(pending))
    BY <1>2, Zenon DEF WriteAll
  <2> QED BY <1>0, <2>1 DEF Agree
<1>3. CASE PowerLoss
  <2>1. PICK kept \in synced .. Len(log), size \in synced .. Len(log) :
          kept <= size /\ log' = [i \in 1 .. size |-> IF i <= kept THEN log[i] ELSE Zero]
    BY <1>3, Zenon DEF PowerLoss
  <2> QED BY <1>0, <2>1 DEF Agree
<1> QED BY <1>1, <1>2, <1>3, Zenon DEF Next, Open, BeginAppend, Sync, Fail, Close, Crash, vars

\* What an fsync has covered is replayed for ever: no append, failure or loss of
\* power changes the entries ReplayWal finds in the synced words.
THEOREM SyncedEntriesStay == Spec => SyncedStaysReplayed
<1>1. ASSUME WalInv, WalInv', [Next]_vars
      PROVE  StartsWith(Replay(log').entries, Replay(SubSeq(log, 1, synced)).entries)
  <2>1. TypeInv /\ TypeInv'
    BY <1>1, Zenon DEF WalInv
  <2>2. log \in Seq(Word) /\ synced \in 0 .. Len(log) /\ log' \in Seq(Word)
    BY <2>1, Zenon DEF TypeInv, TypeOK
  <2> DEFINE part == SubSeq(log, 1, synced)
  <2>3. part \in Seq(Word) /\ Len(part) = synced
    BY <2>2
  <2>4. Agree(log', part, synced)
    BY <1>1, <2>1, SyncedStay, Zenon
  <2> HIDE DEF part
  <2>5. StartsWith(Replay(log').entries, Replay(part).entries)
    BY <2>2, <2>3, <2>4, ReplayGrows, Zenon
  <2> QED BY <2>5, Zenon DEF part
<1>2. WalInv /\ WalInv' /\ [Next]_vars
      => [StartsWith(Replay(log').entries, Replay(SubSeq(log, 1, synced)).entries)]_vars
  BY <1>1, Zenon
<1> QED BY <1>2, Invariance, PTL DEF Spec, SyncedStaysReplayed
=============================================================================
