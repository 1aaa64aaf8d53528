---------------------------- MODULE RecordProofs ----------------------------
(***************************************************************************)
(* Records, segments and schemas, for any widths, any schema and any rows: *)
(* what DecodeRecord finds in an encoded record, where the key of a column *)
(* is in a match record, that a damaged segment opens only with the        *)
(* records that were written, and which columns a statement declares.      *)
(***************************************************************************)
EXTENDS EpochFiles, TLAPS, FiniteSetTheorems, WellFoundedInduction

-----------------------------------------------------------------------------
(* Induction.                                                              *)

\* A set of natural numbers has a least one.
LEMMA LeastExists ==
  ASSUME NEW S, S \subseteq Nat, S # {}
  PROVE  \E x \in S : \A y \in S : x <= y
<1> DEFINE Below == {ss \in Nat \X Nat : ss[1] < ss[2]}
<1>1. IsWellFoundedOn(Below, Nat)
  BY NatLessThanWellFounded, Zenon DEF OpToRel
<1> HIDE DEF Below
<1>2. PICK x \in S : \A y \in S : ~ (<<y, x>> \in Below)
  BY <1>1, WFMin, Zenon
<1>3. ASSUME NEW y \in S, y < x PROVE FALSE
  <2> DEFINE yx == <<y, x>>
  <2>1. yx \in Nat \X Nat /\ yx[1] = y /\ yx[2] = x
    OBVIOUS
  <2> HIDE DEF yx
  <2>2. yx \in Below
    BY <1>3, <2>1, Zenon DEF Below
  <2> QED BY <1>2, <2>2 DEF yx
<1>4. \A y \in S : x <= y
  BY <1>3, SMTT(30)
<1> QED BY <1>4, Zenon

\* A set that holds 0 and the successor of each of its numbers holds all.
LEMMA SetInduction ==
  ASSUME NEW S, 0 \in S, \A n \in Nat : n \in S => n + 1 \in S
  PROVE  \A n \in Nat : n \in S
<1> DEFINE T == {n \in Nat : n \notin S}
<1>1. SUFFICES ASSUME T # {} PROVE FALSE
  OBVIOUS
<1>2. PICK x \in T : \A y \in T : x <= y
  BY <1>1, LeastExists, Zenon
<1>3. x # 0 /\ x - 1 \in Nat /\ x - 1 \notin T
  BY <1>2
<1> QED BY <1>2, <1>3

-----------------------------------------------------------------------------
(* Sequences.                                                              *)

\* Sequences with the same elements are the same.
LEMMA SameElements ==
  ASSUME NEW T, NEW s \in Seq(T), NEW t \in Seq(T),
         Len(s) = Len(t), \A i \in 1 .. Len(s) : s[i] = t[i]
  PROVE  s = t
OBVIOUS

\* The elements up to each one appended, when `f` has those before it.
Appended(s, f, i) == IF i = 0 THEN <<>> ELSE f[i - 1] \o s[i]

\* Concat appends one element after the other.
LEMMA ConcatIs ==
  \A T : \A s \in Seq(Seq(T)) :
    \E f : /\ f[0] = <<>> /\ Concat(s) = f[Len(s)]
           /\ \A m \in Nat : m + 1 <= Len(s) => f[m + 1] = f[m] \o s[m + 1]
\* Appending is defined for the elements of every array.
<1>AppendedExists.
     ASSUME NEW T, NEW s \in Seq(Seq(T))
     PROVE  \E f : f = [i \in 0 .. Len(s) |-> Appended(s, f, i)]
  <2> USE <1>AppendedExists
  <2> DEFINE Have == {m \in Nat : \E f : f = [i \in 0 .. m |-> Appended(s, f, i)]}
  <2>1. 0 \in Have
    <3> DEFINE f == [i \in 0 .. 0 |-> <<>>]
    <3>1. \A i \in 0 .. 0 : Appended(s, f, i) = <<>>
      <4>1. \A i \in 0 .. 0 : i = 0
        OBVIOUS
      <4> QED BY <4>1, Zenon DEF Appended
    <3>2. f = [i \in 0 .. 0 |-> Appended(s, f, i)]
      BY <3>1, Zenon
    <3> HIDE DEF f
    <3> QED BY <3>2
  <2>2. ASSUME NEW m \in Nat, m \in Have PROVE m + 1 \in Have
    <3>1. PICK g : g = [i \in 0 .. m |-> Appended(s, g, i)]
      BY <2>2
    <3> DEFINE f == [i \in 0 .. m + 1 |-> Appended(s, g, i)]
    <3>2. ASSUME NEW j \in 0 .. m PROVE f[j] = g[j]
      <4>1. j \in 0 .. m + 1
        OBVIOUS
      <4>2. f[j] = Appended(s, g, j)
        BY <4>1, Zenon
      <4>3. g[j] = Appended(s, g, j)
        BY <3>1, Zenon
      <4> QED BY <4>2, <4>3, Zenon
    <3> HIDE DEF f
    <3>3. \A i \in 0 .. m + 1 : Appended(s, f, i) = Appended(s, g, i)
      <4> TAKE i \in 0 .. m + 1
      <4>1. i = 0 \/ i - 1 \in 0 .. m
        OBVIOUS
      <4> QED BY <3>2, <4>1, Zenon DEF Appended
    <3>4. f = [i \in 0 .. m + 1 |-> Appended(s, f, i)]
      BY <3>3, Zenon DEF f
    <3> QED BY <3>4
  <2> HIDE DEF Have
  <2>3. Len(s) \in Nat
    OBVIOUS
  <2>4. Len(s) \in Have
    BY <2>1, <2>2, <2>3, SetInduction, Zenon
  <2> QED BY <2>4, Zenon DEF Have
<1> SUFFICES ASSUME NEW T, NEW s \in Seq(Seq(T))
             PROVE  \E f : /\ f[0] = <<>> /\ Concat(s) = f[Len(s)]
                           /\ \A m \in Nat : m + 1 <= Len(s) => f[m + 1] = f[m] \o s[m + 1]
  OBVIOUS
<1> DEFINE Body(f) == [i \in 0 .. Len(s) |-> Appended(s, f, i)]
           F == CHOOSE f : f = Body(f)
<1>1. \E f : f = Body(f)
  BY <1>AppendedExists, Zenon
<1>2. Concat(s) = F[Len(s)]
  BY Zenon DEF Concat, Appended
<1> HIDE DEF Body
<1>3. F = Body(F)
  BY <1>1, Zenon
<1> HIDE DEF F
<1>4. \A i \in 0 .. Len(s) : F[i] = Appended(s, F, i)
  BY <1>3, Zenon DEF Body
<1>5. 0 \in 0 .. Len(s)
  OBVIOUS
<1>6. ASSUME NEW m \in Nat, m + 1 <= Len(s) PROVE F[m + 1] = F[m] \o s[m + 1]
  <2>1. m + 1 \in 0 .. Len(s) /\ m + 1 # 0 /\ (m + 1) - 1 = m
    BY <1>6
  <2> QED BY <1>4, <2>1, Zenon DEF Appended
<1>7. F[0] = <<>>
  BY <1>4, <1>5, Zenon DEF Appended
<1> QED BY <1>2, <1>6, <1>7, Zenon

-----------------------------------------------------------------------------
(* Numbers and their digits.                                               *)


\* f is a at 0 and G leads from each of its values to the next.
Recurs(f, S, a, G) ==
  /\ f \in [Nat -> S] /\ f[0] = a
  /\ \A n \in Nat : f[n + 1] = G[n][f[n]]

\* A first value and a step make a function.
LEMMA Recursion ==
  ASSUME NEW S, NEW a \in S, NEW G \in [Nat -> [S -> S]]
  PROVE  \E f : Recurs(f, S, a, G)
<1> DEFINE Begins(n) == {g \in [0 .. n -> S] : /\ g[0] = a
                                              /\ \A i \in Nat : i < n => g[i + 1] = G[i][g[i]]}
           Have == {n \in Nat : Begins(n) # {}}
           Alike == {n \in Nat : \A g, h \in Begins(n) : g[n] = h[n]}
<1>1. \A n \in Nat : n \in Have
  <2>1. 0 \in Have
    <3>1. [i \in 0 .. 0 |-> a] \in Begins(0)
      OBVIOUS
    <3> QED BY <3>1, Zenon
  <2>2. ASSUME NEW n \in Nat, n \in Have PROVE n + 1 \in Have
    <3>1. PICK g \in Begins(n) : TRUE
      BY <2>2
    <3> DEFINE h == [i \in 0 .. n + 1 |-> IF i = n + 1 THEN G[n][g[n]] ELSE g[i]]
    <3>2. \A i \in 0 .. n : g[i] \in S /\ h[i] = g[i]
      OBVIOUS
    <3>3. h[n + 1] = G[n][g[n]] /\ G[n][g[n]] \in S
      BY <3>2
    <3>4. h \in [0 .. n + 1 -> S]
      BY <3>2, <3>3
    <3>5. \A i \in Nat : i < n + 1 => h[i + 1] = G[i][h[i]]
      <4> SUFFICES ASSUME NEW i \in Nat, i < n + 1 PROVE h[i + 1] = G[i][h[i]]
        OBVIOUS
      <4>1. CASE i = n
        <5>1. h[n] = g[n]
          BY <3>2
        <5> HIDE DEF h
        <5> QED BY <3>3, <4>1, <5>1, Zenon
      <4>2. CASE i < n
        <5>1. h[i] = g[i] /\ h[i + 1] = g[i + 1]
          BY <3>2, <4>2
        <5>2. g[i + 1] = G[i][g[i]]
          BY <3>1, <4>2, Zenon
        <5> HIDE DEF h
        <5> QED BY <5>1, <5>2, Zenon
      <4> QED BY <4>1, <4>2
    <3>6. h[0] = a
      BY <3>1, <3>2
    <3> HIDE DEF h
    <3>7. h \in Begins(n + 1)
      BY <3>4, <3>5, <3>6, Zenon
    <3>8. n + 1 \in Nat
      OBVIOUS
    <3> QED BY <3>7, <3>8, Zenon
  <2> HIDE DEF Have
  <2> QED BY <2>1, <2>2, SetInduction, Zenon
<1>2. ASSUME NEW n \in Nat, NEW g \in Begins(n + 1)
      PROVE  [i \in 0 .. n |-> g[i]] \in Begins(n)
  <2> DEFINE h == [i \in 0 .. n |-> g[i]]
  <2>1. h \in [0 .. n -> S] /\ \A i \in 0 .. n : h[i] = g[i]
    OBVIOUS
  <2>2. \A i \in Nat : i < n => h[i + 1] = G[i][h[i]]
    <3> SUFFICES ASSUME NEW i \in Nat, i < n PROVE h[i + 1] = G[i][h[i]]
      OBVIOUS
    <3>1. h[i] = g[i] /\ h[i + 1] = g[i + 1] /\ i < n + 1
      BY <2>1
    <3> HIDE DEF h
    <3> QED BY <3>1, Zenon
  <2>3. h[0] = a
    BY <2>1
  <2> HIDE DEF h
  <2>4. h \in Begins(n)
    BY <2>1, <2>2, <2>3, Zenon
  <2> QED BY <2>4, Zenon DEF h
<1>3. \A n \in Nat : n \in Alike
  <2>1. 0 \in Alike
    BY Zenon
  <2>2. ASSUME NEW n \in Nat, n \in Alike PROVE n + 1 \in Alike
    <3>1. ASSUME NEW g \in Begins(n + 1), NEW h \in Begins(n + 1) PROVE g[n + 1] = h[n + 1]
      <4>1. n < n + 1 /\ n \in 0 .. n
        OBVIOUS
      <4>2. [i \in 0 .. n |-> g[i]] \in Begins(n) /\ [i \in 0 .. n |-> h[i]] \in Begins(n)
        BY <1>2, Zenon
      <4>3. [i \in 0 .. n |-> g[i]][n] = [i \in 0 .. n |-> h[i]][n]
        BY <2>2, <4>2, Zenon
      <4>4. g[n] = h[n]
        BY <4>1, <4>3, Zenon
      <4>5. g[n + 1] = G[n][g[n]] /\ h[n + 1] = G[n][h[n]]
        BY <4>1, Zenon
      <4> QED BY <4>4, <4>5, Zenon
    <3>2. n + 1 \in Nat
      OBVIOUS
    <3> QED BY <3>1, <3>2, Zenon
  <2> HIDE DEF Alike
  <2> QED BY <2>1, <2>2, SetInduction, Zenon
<1> DEFINE Pick(n) == CHOOSE g : g \in Begins(n)
           f == [n \in Nat |-> Pick(n)[n]]
<1>4. \A n \in Nat : Pick(n) \in Begins(n)
  BY <1>1, Zenon
<1>5. ASSUME NEW n \in Nat PROVE f[n] = Pick(n)[n] /\ f[n] \in S
  <2>1. n \in 0 .. n
    OBVIOUS
  <2>2. Pick(n) \in [0 .. n -> S]
    BY <1>4, Zenon
  <2> QED BY <2>1, <2>2, Zenon
<1>6. f[0] = a
  <2>1. 0 \in Nat
    OBVIOUS
  <2>2. Pick(0)[0] = a
    BY <1>4, <2>1, Zenon
  <2> HIDE DEF f
  <2> QED BY <1>5, <2>1, <2>2, Zenon
<1>7. ASSUME NEW n \in Nat PROVE f[n + 1] = G[n][f[n]]
  <2> DEFINE g == Pick(n + 1)
  <2>1. n < n + 1 /\ n \in 0 .. n /\ n + 1 \in Nat
    OBVIOUS
  <2>2. g \in Begins(n + 1) /\ f[n + 1] = g[n + 1]
    BY <1>4, <1>5, <2>1, Zenon
  <2> HIDE DEF g, f
  <2>3. g[n + 1] = G[n][g[n]]
    BY <2>1, <2>2, Zenon
  <2>4. [i \in 0 .. n |-> g[i]] \in Begins(n)
    BY <1>2, <2>2, Zenon
  <2>5. [i \in 0 .. n |-> g[i]][n] = Pick(n)[n]
    BY <1>3, <1>4, <2>4, Zenon
  <2>6. g[n] = f[n]
    BY <1>5, <2>1, <2>5, Zenon
  <2> QED BY <2>2, <2>3, <2>6, Zenon
<1>8. f \in [Nat -> S]
  BY <1>5, Zenon
<1> HIDE DEF f
<1>9. Recurs(f, S, a, G)
  BY <1>6, <1>7, <1>8, Zenon DEF Recurs
<1> QED BY <1>9, Zenon

\* The powers of two.
LEMMA Pow2Is ==
  /\ Pow2 \in [Nat -> Nat] /\ Pow2[0] = 1
  /\ \A n \in Nat : Pow2[n + 1] = 2 * Pow2[n]
<1> DEFINE Body(p) == [n \in Nat |-> IF n = 0 THEN 1 ELSE 2 * p[n - 1]]
           G == [n \in Nat |-> [x \in Nat |-> 2 * x]]
<1>1. G \in [Nat -> [Nat -> Nat]] /\ 1 \in Nat
  OBVIOUS
<1>2. \A n \in Nat, y \in Nat : G[n][y] = 2 * y
  OBVIOUS
<1> HIDE DEF G
<1>3. PICK f : Recurs(f, Nat, 1, G)
  BY <1>1, Recursion, Zenon
<1>4. f = Body(f)
  <2>1. ASSUME NEW n \in Nat PROVE f[n] = IF n = 0 THEN 1 ELSE 2 * f[n - 1]
    <3>1. CASE n = 0
      BY <1>3, <3>1, Zenon DEF Recurs
    <3>2. CASE n # 0
      <4>1. n - 1 \in Nat /\ n - 1 + 1 = n
        BY <3>2
      <4>2. f[n - 1 + 1] = G[n - 1][f[n - 1]] /\ f[n - 1] \in Nat
        BY <1>3, <4>1, Zenon DEF Recurs
      <4> QED BY <1>2, <3>2, <4>1, <4>2, Zenon
    <3> QED BY <3>1, <3>2
  <2>2. f = [n \in Nat |-> f[n]]
    BY <1>3, Zenon DEF Recurs
  <2> QED BY <2>1, <2>2, Zenon
<1>5. Pow2 = CHOOSE p : p = Body(p)
  BY Zenon DEF Pow2
<1> HIDE DEF Body
<1>6. Pow2 = Body(Pow2)
  BY <1>4, <1>5, Zenon
<1>7. \A n \in Nat : Pow2[n] = IF n = 0 THEN 1 ELSE 2 * Pow2[n - 1]
  BY <1>6, Zenon DEF Body
<1>8. DOMAIN Pow2 = Nat /\ Pow2 = [n \in Nat |-> Pow2[n]]
  BY <1>6, Zenon DEF Body
<1>9. Pow2[0] = 1
  BY <1>7
<1>10. ASSUME NEW n \in Nat PROVE Pow2[n + 1] = 2 * Pow2[n]
  <2>1. n + 1 \in Nat /\ n + 1 # 0 /\ n + 1 - 1 = n
    OBVIOUS
  <2> QED BY <1>7, <2>1
<1>11. \A n \in Nat : Pow2[n] \in Nat
  <2> DEFINE Have == {n \in Nat : Pow2[n] \in Nat}
  <2>1. 0 \in Have
    BY <1>9
  <2>2. ASSUME NEW n \in Nat, n \in Have PROVE n + 1 \in Have
    BY <1>10, <2>2
  <2> HIDE DEF Have
  <2>3. \A n \in Nat : n \in Have
    BY <2>1, <2>2, SetInduction, Zenon
  <2> QED BY <2>3 DEF Have
<1> QED BY <1>8, <1>9, <1>10, <1>11, Zenon

\* Powers of two are positive, and those of sums are products.
LEMMA Pow2Sum ==
  ASSUME NEW m \in Nat
  PROVE  /\ Pow2[m] \in Nat \ {0}
         /\ \A n \in Nat : Pow2[m + n] = Pow2[m] * Pow2[n]
<1>1. Pow2[m] \in Nat \ {0}
  <2> DEFINE Have == {n \in Nat : Pow2[n] \in Nat \ {0}}
  <2>1. 0 \in Have
    BY Pow2Is
  <2>2. ASSUME NEW n \in Nat, n \in Have PROVE n + 1 \in Have
    BY Pow2Is, <2>2
  <2> HIDE DEF Have
  <2>3. \A n \in Nat : n \in Have
    BY <2>1, <2>2, SetInduction, Zenon
  <2> QED BY <2>3 DEF Have
<1>2. \A n \in Nat : Pow2[m + n] = Pow2[m] * Pow2[n]
  <2> DEFINE Have == {n \in Nat : Pow2[m + n] = Pow2[m] * Pow2[n]}
  <2>1. 0 \in Have
    BY Pow2Is, <1>1
  <2>2. ASSUME NEW n \in Nat, n \in Have PROVE n + 1 \in Have
    <3>1. Pow2[m + n] = Pow2[m] * Pow2[n]
      BY <2>2
    <3>2. m + (n + 1) = m + n + 1 /\ m + n \in Nat
      OBVIOUS
    <3>3. Pow2[m + n + 1] = 2 * Pow2[m + n] /\ Pow2[n + 1] = 2 * Pow2[n] /\ Pow2[n] \in Nat
      BY Pow2Is, <3>2
    <3>4. \A a, b \in Nat : 2 * (a * b) = a * (2 * b)
      OBVIOUS
    <3>5. 2 * (Pow2[m] * Pow2[n]) = Pow2[m] * (2 * Pow2[n])
      BY <1>1, <3>3, <3>4
    <3>6. n + 1 \in Nat /\ Pow2[m + (n + 1)] = Pow2[m] * Pow2[n + 1]
      BY <3>1, <3>2, <3>3, <3>5
    <3> QED BY <3>6
  <2> HIDE DEF Have
  <2>3. \A n \in Nat : n \in Have
    BY <2>1, <2>2, SetInduction, Zenon
  <2> QED BY <2>3 DEF Have
<1> QED BY <1>1, <1>2, Zenon

-----------------------------------------------------------------------------
(* Digits.                                                                 *)

\* Quotient and remainder.
LEMMA DivMod ==
  ASSUME NEW n \in Nat, NEW b \in Nat, b > 1
  PROVE  /\ n \div b \in Nat /\ n % b \in 0 .. b - 1
         /\ (n % b) + b * (n \div b) = n
<1>1. n \div b \in Nat /\ n % b \in 0 .. b - 1
  OBVIOUS
<1>2. n % b = n - b * (n \div b)
  OBVIOUS
<1>3. b * (n \div b) \in Int
  BY <1>1
<1> QED BY <1>1, <1>2, <1>3

\* A byte has at least two values.
LEMMA BaseIs == Base \in Nat /\ Base > 1
<1>1. ByteBits \in Nat /\ ByteBits - 1 \in Nat /\ ByteBits = ByteBits - 1 + 1
  BY WidthAssumption
<1>2. Pow2[ByteBits - 1] \in Nat \ {0}
  BY <1>1, Pow2Sum, Zenon
<1>3. Pow2[ByteBits - 1 + 1] = 2 * Pow2[ByteBits - 1]
  BY <1>1, Pow2Is, Zenon
<1>4. Base = 2 * Pow2[ByteBits - 1]
  BY <1>1, <1>3, Zenon DEF Base
<1> QED BY <1>2, <1>4

\* What w bytes hold.
Space(w) == Pow2[ByteBits * w]

\* The numbers of w digits: one more digit makes Base times as many.
LEMMA SpaceIs ==
  /\ Space(0) = 1
  /\ \A w \in Nat : Space(w) \in Nat \ {0} /\ Space(w + 1) = Base * Space(w)
<1>1. ByteBits \in Nat
  BY WidthAssumption
<1>2. Space(0) = 1
  <2>1. ByteBits * 0 = 0
    BY <1>1
  <2> QED BY <2>1, Pow2Is, Zenon DEF Space
<1>3. ASSUME NEW w \in Nat PROVE Space(w) \in Nat \ {0} /\ Space(w + 1) = Base * Space(w)
  <2>1. ByteBits * w \in Nat /\ ByteBits * (w + 1) = ByteBits + ByteBits * w
    BY <1>1
  <2>2. Pow2[ByteBits + ByteBits * w] = Pow2[ByteBits] * Pow2[ByteBits * w]
    BY <1>1, <2>1, Pow2Sum, Zenon
  <2>3. Pow2[ByteBits * w] \in Nat \ {0}
    BY <2>1, Pow2Sum, Zenon
  <2> QED BY <2>1, <2>2, <2>3, Zenon DEF Space, Base
<1> QED BY <1>2, <1>3, Zenon

\* Number adds up the bytes from the last to the first.
LEMMA NumberIs ==
  ASSUME NEW s \in Seq(Nat)
  PROVE  \E F : /\ Number(s) = F[1] /\ F[Len(s) + 1] = 0
                /\ \A i \in 1 .. Len(s) : F[i] = s[i] + Base * F[i + 1]
<1> DEFINE L == Len(s)
           Value(F, i) == IF i > L THEN 0 ELSE s[i] + Base * F[i + 1]
           Body(F) == [i \in 1 .. L + 1 |-> Value(F, i)]
           G == [n \in Nat |-> [y \in Nat |-> IF n < L THEN s[L - n] + Base * y ELSE 0]]
<1>0. L \in Nat /\ Base \in Nat /\ \A i \in 1 .. L : s[i] \in Nat
  BY BaseIs
<1> HIDE DEF L
<1>1. G \in [Nat -> [Nat -> Nat]]
  <2>1. ASSUME NEW n \in Nat, NEW y \in Nat
        PROVE  (IF n < L THEN s[L - n] + Base * y ELSE 0) \in Nat
    <3>1. n < L => L - n \in 1 .. L
      BY <1>0
    <3>2. Base * y \in Nat
      BY <1>0
    <3>3. CASE n < L
      <4>1. s[L - n] \in Nat
        BY <1>0, <3>1, <3>3, Zenon
      <4> QED BY <3>2, <3>3, <4>1
    <3>4. CASE ~ (n < L)
      BY <3>4
    <3> QED BY <3>3, <3>4, Zenon
  <2> QED BY <2>1, Zenon
<1>2. \A n \in Nat, y \in Nat : n < L => G[n][y] = s[L - n] + Base * y
  BY Zenon
<1> HIDE DEF G
<1>3. PICK r : Recurs(r, Nat, 0, G)
  <2>1. 0 \in Nat
    OBVIOUS
  <2> QED BY <1>1, <2>1, Recursion, Zenon
<1> DEFINE H == [i \in 1 .. L + 1 |-> r[L + 1 - i]]
<1>4. H = Body(H)
  <2>1. ASSUME NEW i \in 1 .. L + 1 PROVE H[i] = Value(H, i)
    <3>1. H[i] = r[L + 1 - i]
      BY Zenon
    <3>2. CASE i > L
      <4>1. L + 1 - i = 0
        BY <1>0, <3>2
      <4>2. H[i] = 0
        BY <1>3, <3>1, <4>1, Zenon DEF Recurs
      <4> HIDE DEF H
      <4> QED BY <3>2, <4>2, Zenon
    <3>3. CASE ~ (i > L)
      <4>1. i + 1 \in 1 .. L + 1 /\ L - i \in Nat /\ L - i < L
        BY <1>0, <3>3
      <4>2. L + 1 - (i + 1) = L - i /\ L + 1 - i = L - i + 1 /\ L - (L - i) = i
        BY <1>0
      <4>3. H[i + 1] = r[L - i]
        BY <4>1, <4>2, Zenon
      <4>4. r[L - i + 1] = G[L - i][r[L - i]] /\ r[L - i] \in Nat
        BY <1>3, <4>1, Zenon DEF Recurs
      <4>5. G[L - i][r[L - i]] = s[L - (L - i)] + Base * r[L - i]
        BY <1>2, <4>1, <4>4, Zenon
      <4> HIDE DEF H
      <4> QED BY <3>1, <3>3, <4>2, <4>3, <4>4, <4>5, Zenon
    <3> QED BY <3>2, <3>3, Zenon
  <2> HIDE DEF Value
  <2> QED BY <2>1, Zenon
<1> DEFINE F == CHOOSE f : f = Body(f)
<1>5. Number(s) = F[1]
  BY Zenon DEF Number, L
<1> HIDE DEF H, Body
<1>6. F = Body(F)
  BY <1>4, Zenon
<1> HIDE DEF F
<1>7. \A i \in 1 .. L + 1 : F[i] = Value(F, i)
  BY <1>6, Zenon DEF Body
<1>8. F[L + 1] = 0
  <2>1. L + 1 > L /\ L + 1 \in 1 .. L + 1
    BY <1>0
  <2> QED BY <1>7, <2>1, Zenon
<1>9. \A i \in 1 .. L : F[i] = s[i] + Base * F[i + 1]
  <2> SUFFICES ASSUME NEW i \in 1 .. L PROVE F[i] = s[i] + Base * F[i + 1]
    OBVIOUS
  <2>1. ~ (i > L) /\ i \in 1 .. L + 1
    BY <1>0
  <2> QED BY <1>7, <2>1, Zenon
<1> QED BY <1>5, <1>8, <1>9, Zenon DEF L

\* Digits divides by the base again and again.
LEMMA DigitsIs ==
  ASSUME NEW n \in Nat, NEW w \in Nat
  PROVE  \E R : /\ R[1] = n /\ \A i \in 1 .. w + 1 : R[i] \in Nat
                /\ \A i \in 1 .. w : R[i + 1] = R[i] \div Base
                /\ Digits(n, w) = [i \in 1 .. w |-> R[i] % Base]
<1> DEFINE Value(F, i) == IF i = 1 THEN n ELSE F[i - 1] \div Base
           Body(F) == [i \in 1 .. w + 1 |-> Value(F, i)]
           G == [m \in Nat |-> [y \in Nat |-> y \div Base]]
<1>1. G \in [Nat -> [Nat -> Nat]]
  <2>1. \A y \in Nat : y \div Base \in Nat
    BY BaseIs, DivMod, Zenon
  <2> QED BY <2>1, Zenon
<1>2. \A m \in Nat, y \in Nat : G[m][y] = y \div Base
  BY Zenon
<1> HIDE DEF G
<1>3. PICK r : Recurs(r, Nat, n, G)
  BY <1>1, Recursion, Zenon
<1> DEFINE H == [i \in 1 .. w + 1 |-> r[i - 1]]
<1>4. H = Body(H)
  <2>1. ASSUME NEW i \in 1 .. w + 1 PROVE H[i] = Value(H, i)
    <3>1. H[i] = r[i - 1]
      BY Zenon
    <3>2. CASE i = 1
      <4>1. i - 1 = 0
        BY <3>2
      <4>2. H[i] = n
        BY <1>3, <3>1, <4>1, Zenon DEF Recurs
      <4> HIDE DEF H
      <4> QED BY <3>2, <4>2, Zenon
    <3>3. CASE i # 1
      <4>1. i - 1 \in 1 .. w + 1 /\ i - 1 - 1 \in Nat /\ i - 1 = i - 1 - 1 + 1
        BY <3>3
      <4>2. H[i - 1] = r[i - 1 - 1]
        BY <4>1, Zenon
      <4>3. r[i - 1 - 1 + 1] = G[i - 1 - 1][r[i - 1 - 1]] /\ r[i - 1 - 1] \in Nat
        BY <1>3, <4>1, Zenon DEF Recurs
      <4>4. G[i - 1 - 1][r[i - 1 - 1]] = r[i - 1 - 1] \div Base
        BY <1>2, <4>1, <4>3, Zenon
      <4> HIDE DEF H
      <4> QED BY <3>1, <3>3, <4>1, <4>2, <4>3, <4>4, Zenon
    <3> QED BY <3>2, <3>3, Zenon
  <2> HIDE DEF Value
  <2> QED BY <2>1, Zenon
<1> DEFINE F == CHOOSE f : f = Body(f)
<1>5. Digits(n, w) = [i \in 1 .. w |-> F[i] % Base]
  BY Zenon DEF Digits
<1> HIDE DEF H, Body
<1>6. F = Body(F)
  BY <1>4, Zenon
<1> HIDE DEF F
<1>7. \A i \in 1 .. w + 1 : F[i] = Value(F, i)
  BY <1>6, Zenon DEF Body
<1>8. F[1] = n
  <2>1. 1 \in 1 .. w + 1
    OBVIOUS
  <2> QED BY <1>7, <2>1, Zenon
<1>9. ASSUME NEW i \in 1 .. w PROVE F[i + 1] = F[i] \div Base
  <2>1. i + 1 # 1 /\ i + 1 \in 1 .. w + 1 /\ i + 1 - 1 = i
    OBVIOUS
  <2>2. F[i + 1] = Value(F, i + 1)
    BY <1>7, <2>1, Zenon
  <2> QED BY <2>1, <2>2
<1>10. ASSUME NEW i \in 1 .. w + 1 PROVE F[i] \in Nat
  <2> DEFINE Have == {m \in Nat : m + 1 \in 1 .. w + 1 => F[m + 1] \in Nat}
  <2>1. 0 \in Have
    BY <1>8
  <2>2. ASSUME NEW m \in Nat, m \in Have PROVE m + 1 \in Have
    <3>1. ASSUME m + 1 + 1 \in 1 .. w + 1 PROVE F[m + 1 + 1] \in Nat
      <4>1. m + 1 \in 1 .. w /\ m + 1 \in 1 .. w + 1
        BY <3>1
      <4>2. F[m + 1] \in Nat
        BY <2>2, <4>1, Zenon
      <4> QED BY <1>9, <4>1, <4>2, BaseIs, DivMod, ZenonT(40)
    <3> QED BY <3>1
  <2> HIDE DEF Have
  <2>3. \A m \in Nat : m \in Have
    BY <2>1, <2>2, SetInduction, Zenon
  <2>4. i - 1 \in Nat /\ i - 1 + 1 = i
    OBVIOUS
  <2>5. i - 1 \in Have
    BY <2>3, <2>4, Zenon
  <2> QED BY <2>4, <2>5, Zenon DEF Have
<1> QED BY <1>5, <1>8, <1>9, <1>10, Zenon

\* A function on the first numbers is a sequence.
LEMMA FunctionIsSeq ==
  ASSUME NEW T, NEW w \in Nat, NEW f \in [1 .. w -> T]
  PROVE  f \in Seq(T) /\ Len(f) = w
OBVIOUS

\* The digits of a number are bytes.
LEMMA DigitsType ==
  ASSUME NEW n \in Nat, NEW w \in Nat
  PROVE  Digits(n, w) \in Seq(0 .. Base - 1) /\ Len(Digits(n, w)) = w
<1>1. PICK R : /\ R[1] = n /\ \A i \in 1 .. w + 1 : R[i] \in Nat
               /\ \A i \in 1 .. w : R[i + 1] = R[i] \div Base
               /\ Digits(n, w) = [i \in 1 .. w |-> R[i] % Base]
  BY DigitsIs, Zenon
<1>2. ASSUME NEW i \in 1 .. w PROVE R[i] % Base \in 0 .. Base - 1
  <2>1. i \in 1 .. w + 1
    OBVIOUS
  <2> QED BY <1>1, <2>1, BaseIs, DivMod, Zenon
<1>3. Digits(n, w) \in [1 .. w -> 0 .. Base - 1]
  BY <1>1, <1>2, Zenon
<1> QED BY <1>3, FunctionIsSeq, Zenon

\* A number that w bytes hold is read back from them (AppendU64 and ReadU64,
\* PackKey and UnpackKey).
LEMMA NumberOfDigits ==
  \A w \in Nat : \A n \in 0 .. Space(w) - 1 :
    Number(Digits(n, w)) = n
\* A quotient is below what the number is below, divided.
<1>DivBelow.
     ASSUME NEW n \in Nat, NEW b \in Nat, b > 1, NEW p \in Nat, n < b * p
     PROVE  n \div b < p
  BY <1>DivBelow
<1> SUFFICES ASSUME NEW w \in Nat, NEW n \in 0 .. Space(w) - 1
             PROVE  Number(Digits(n, w)) = n
  OBVIOUS
<1>0. n \in Nat /\ n < Space(w) /\ Space(w) \in Nat
  <2>1. Space(w) \in Nat
    BY SpaceIs, Zenon
  <2> QED BY <2>1
<1>1. PICK R : /\ R[1] = n /\ \A i \in 1 .. w + 1 : R[i] \in Nat
               /\ \A i \in 1 .. w : R[i + 1] = R[i] \div Base
               /\ Digits(n, w) = [i \in 1 .. w |-> R[i] % Base]
  BY <1>0, DigitsIs, Zenon
<1> DEFINE d == Digits(n, w)
<1>2. d \in Seq(Nat) /\ Len(d) = w
  <2>1. d \in Seq(0 .. Base - 1) /\ Len(d) = w
    BY <1>0, DigitsType, Zenon
  <2> HIDE DEF d
  <2>2. \A i \in 1 .. w : d[i] \in Nat
    BY <2>1, BaseIs
  <2> QED BY <2>1, <2>2
<1>3. PICK F : /\ Number(d) = F[1] /\ F[w + 1] = 0
               /\ \A i \in 1 .. w : F[i] = d[i] + Base * F[i + 1]
  <2> HIDE DEF d
  <2> QED BY <1>2, NumberIs, Zenon
<1>4. \A i \in 1 .. w : d[i] = R[i] % Base
  BY <1>1, Zenon
<1> HIDE DEF d
<1>5. R[w + 1] = 0
  <2> DEFINE Have == {m \in Nat : m <= w => R[m + 1] < Space(w - m)}
  <2>1. 0 \in Have
    BY <1>0, <1>1
  <2>2. ASSUME NEW m \in Nat, m \in Have PROVE m + 1 \in Have
    <3>1. ASSUME m + 1 <= w PROVE R[m + 1 + 1] < Space(w - (m + 1))
      <4>1. m + 1 \in 1 .. w /\ m + 1 \in 1 .. w + 1 /\ w - (m + 1) \in Nat
             /\ w - m = w - (m + 1) + 1 /\ m <= w
        BY <3>1
      <4>2. R[m + 1] < Space(w - m)
        BY <2>2, <4>1, Zenon
      <4>3. Space(w - m) = Base * Space(w - (m + 1)) /\ Space(w - (m + 1)) \in Nat
        BY <4>1, SpaceIs, Zenon
      <4>4. R[m + 1] \in Nat /\ R[m + 1 + 1] = R[m + 1] \div Base
        BY <1>1, <4>1, Zenon
      <4> QED BY <4>2, <4>3, <4>4, BaseIs, <1>DivBelow, Zenon
    <3> QED BY <3>1
  <2> HIDE DEF Have
  <2>3. w \in Have
    BY <2>1, <2>2, SetInduction, Zenon
  <2>4. R[w + 1] < Space(w - w)
    <3>1. w <= w
      OBVIOUS
    <3> QED BY <2>3, <3>1, Zenon DEF Have
  <2>5. w - w = 0 /\ w + 1 \in 1 .. w + 1
    OBVIOUS
  <2>6. R[w + 1] < 1
    BY <2>4, <2>5, SpaceIs, Zenon
  <2>7. R[w + 1] \in Nat
    BY <1>1, <2>5, Zenon
  <2> QED BY <2>6, <2>7
<1>6. F[1] = R[1]
  <2> DEFINE Have == {m \in Nat : m <= w => F[w + 1 - m] = R[w + 1 - m]}
  <2>1. 0 \in Have
    BY <1>3, <1>5
  <2>2. ASSUME NEW m \in Nat, m \in Have PROVE m + 1 \in Have
    <3>1. ASSUME m + 1 <= w PROVE F[w + 1 - (m + 1)] = R[w + 1 - (m + 1)]
      <4> DEFINE i == w + 1 - (m + 1)
      <4>1. i \in 1 .. w /\ i \in 1 .. w + 1 /\ i + 1 = w + 1 - m /\ m <= w
        BY <3>1
      <4> HIDE DEF i
      <4>2. F[i + 1] = R[i + 1]
        BY <2>2, <4>1, Zenon
      <4>3. F[i] = (R[i] % Base) + Base * (R[i] \div Base) /\ R[i] \in Nat
        BY <1>1, <1>3, <1>4, <4>1, <4>2, ZenonT(40)
      <4>4. F[i] = R[i]
        BY <4>3, BaseIs, DivMod, Zenon
      <4> QED BY <4>4 DEF i
    <3> QED BY <3>1
  <2> HIDE DEF Have
  <2>3. w \in Have
    BY <2>1, <2>2, SetInduction, Zenon
  <2>4. w <= w /\ w + 1 - w = 1
    OBVIOUS
  <2> QED BY <2>3, <2>4, Zenon DEF Have
<1> QED BY <1>1, <1>3, <1>6, Zenon DEF d

-----------------------------------------------------------------------------
(* Values.                                                                 *)

Byte == 0 .. Base - 1

\* What a column of a type holds.
IntValues == {[int |-> x] : x \in {y \in Int : -Space(IntBytes) <= 2 * y /\ 2 * y < Space(IntBytes)}}
RealValues == {[real |-> x] : x \in 0 .. Space(IntBytes) - 1}
TextValues == {[text |-> t] : t \in Seq(Byte)}

ValuesIn(type) ==
  IF type = "int" THEN IntValues ELSE IF type = "real" THEN RealValues ELSE TextValues

\* A record with one field.
LEMMA Fields ==
  ASSUME NEW x
  PROVE  /\ DOMAIN [int |-> x] = {"int"} /\ [int |-> x].int = x
         /\ DOMAIN [real |-> x] = {"real"} /\ [real |-> x].real = x
         /\ DOMAIN [text |-> x] = {"text"} /\ [text |-> x].text = x
OBVIOUS

\* Two's complement.
LEMMA Complement ==
  ASSUME NEW p \in Nat, p > 1, NEW x \in Int, -p <= 2 * x, 2 * x < p
  PROVE  /\ x % p \in 0 .. p - 1
         /\ x = IF 2 * (x % p) >= p THEN (x % p) - p ELSE x % p
<1>1. CASE x >= 0
  <2>1. x % p = x
    BY <1>1
  <2> QED BY <1>1, <2>1
<1>2. CASE x < 0
  <2>1. x % p = x + p
    BY <1>2
  <2> QED BY <1>2, <2>1
<1> QED BY <1>1, <1>2

\* The bit patterns of an integer are those of its bytes.
LEMMA IntSpace ==
  /\ IntBytes \in Nat \ {0} /\ Space(IntBytes) = Pow2[IntBits]
  /\ Space(IntBytes) \in Nat /\ Space(IntBytes) > 1
<1>1. IntBytes \in Nat \ {0} /\ IntBytes - 1 \in Nat /\ IntBytes = IntBytes - 1 + 1
  BY WidthAssumption
<1>2. Space(IntBytes) = Pow2[IntBits]
  BY Zenon DEF Space, IntBits
<1>3. Space(IntBytes - 1) \in Nat \ {0} /\ Space(IntBytes - 1 + 1) = Base * Space(IntBytes - 1)
  BY <1>1, SpaceIs, Zenon
<1>4. \A b, p \in Nat : b > 1 /\ p # 0 => b * p > 1 /\ b * p \in Nat
  OBVIOUS
<1>5. Base * Space(IntBytes - 1) > 1 /\ Base * Space(IntBytes - 1) \in Nat
  BY <1>3, <1>4, BaseIs
<1> QED BY <1>1, <1>2, <1>3, <1>5, Zenon

\* An integer as bytes.
LEMMA IntEncodes ==
  ASSUME NEW v \in IntValues
  PROVE  /\ EncodeValue(v) \in Seq(Byte) /\ Len(EncodeValue(v)) = IntBytes
         /\ [int |-> Signed(Number(EncodeValue(v)))] = v
<1> DEFINE p == Space(IntBytes)
<1>1. PICK x \in Int : -p <= 2 * x /\ 2 * x < p /\ v = [int |-> x]
  BY Zenon DEF IntValues
<1>2. p \in Nat /\ p > 1 /\ p = Pow2[IntBits] /\ IntBytes \in Nat
  BY IntSpace, Zenon
<1> HIDE DEF p
<1>3. x % p \in 0 .. p - 1 /\ x = IF 2 * (x % p) >= p THEN (x % p) - p ELSE x % p
  BY <1>1, <1>2, Complement, Zenon
<1>4. EncodeValue(v) = Digits(x % p, IntBytes)
  <2>1. "int" \in DOMAIN v /\ v.int = x
    BY <1>1, Fields, Zenon
  <2> QED BY <1>2, <2>1, Zenon DEF EncodeValue
<1>5. Number(Digits(x % p, IntBytes)) = x % p
  BY <1>2, <1>3, NumberOfDigits, Zenon DEF p
<1>6. Signed(x % p) = x
  BY <1>2, <1>3, Zenon DEF Signed
<1>7. x % p \in Nat
  BY <1>2, <1>3
<1>8. EncodeValue(v) \in Seq(Byte) /\ Len(EncodeValue(v)) = IntBytes
  BY <1>2, <1>4, <1>7, DigitsType, ZenonT(40) DEF Byte
<1> QED BY <1>1, <1>4, <1>5, <1>6, <1>8, Zenon

\* The bits of a real as bytes.
LEMMA RealEncodes ==
  ASSUME NEW v \in RealValues
  PROVE  /\ EncodeValue(v) \in Seq(Byte) /\ Len(EncodeValue(v)) = IntBytes
         /\ [real |-> Number(EncodeValue(v))] = v
<1>1. PICK x \in 0 .. Space(IntBytes) - 1 : v = [real |-> x]
  BY Zenon DEF RealValues
<1>2. "int" \notin DOMAIN v /\ "real" \in DOMAIN v /\ v.real = x
  BY <1>1, Fields
<1>3. EncodeValue(v) = Digits(x, IntBytes)
  BY <1>2, Zenon DEF EncodeValue
<1>4. IntBytes \in Nat
  BY IntSpace, Zenon
<1>5. Number(Digits(x, IntBytes)) = x
  BY <1>4, NumberOfDigits, Zenon
<1>6. x \in Nat
  BY IntSpace
<1>7. EncodeValue(v) \in Seq(Byte) /\ Len(EncodeValue(v)) = IntBytes
  BY <1>3, <1>4, <1>6, DigitsType, Zenon DEF Byte
<1> QED BY <1>1, <1>3, <1>5, <1>7, Zenon

\* A text with its length before it.
LEMMA TextEncodes ==
  ASSUME NEW v \in TextValues, Encodable(v)
  PROVE  /\ EncodeValue(v) \in Seq(Byte) /\ EncodeValue(v) # <<>>
         /\ Len(EncodeValue(v)) = 1 + Head(EncodeValue(v))
         /\ [text |-> Tail(EncodeValue(v))] = v
<1>1. PICK t \in Seq(Byte) : v = [text |-> t]
  BY Zenon DEF TextValues
<1>2. "int" \notin DOMAIN v /\ "real" \notin DOMAIN v /\ "text" \in DOMAIN v /\ v.text = t
  BY <1>1, Fields
<1>3. EncodeValue(v) = <<Len(t)>> \o t /\ Len(t) < Base
  BY <1>2, Zenon DEF EncodeValue, Encodable
<1>4. Len(t) \in Byte
  BY <1>3, BaseIs DEF Byte
<1>5. /\ <<Len(t)>> \o t \in Seq(Byte) /\ <<Len(t)>> \o t # <<>>
      /\ Len(<<Len(t)>> \o t) = 1 + Len(t) /\ Head(<<Len(t)>> \o t) = Len(t)
      /\ Tail(<<Len(t)>> \o t) = t
  BY <1>4
<1> QED BY <1>1, <1>3, <1>5, Zenon

Joined(t, e, rest) == t = e \o rest

DecodesFrom(left, column, v, rest) ==
  \A vs : DecodeColumn([ok |-> TRUE, left |-> left, values |-> vs], column)
           = [ok |-> TRUE, left |-> rest, values |-> Append(vs, v)]

\* What EncodeValue writes are bytes.
LEMMA EncodesToBytes ==
  ASSUME NEW type, NEW v \in ValuesIn(type), Encodable(v)
  PROVE  EncodeValue(v) \in Seq(Byte)
BY IntEncodes, RealEncodes, TextEncodes, Zenon DEF ValuesIn

\* DecodeColumn takes the value from the front.
LEMMA ColumnDecodes ==
  \A column : \A v \in ValuesIn(column.type), rest \in Seq(Byte) : \A left :
    Encodable(v) /\ Joined(left, EncodeValue(v), rest) =>
      DecodesFrom(left, column, v, rest)
\* What stands before and after a place.
<1>Front.
     ASSUME NEW T, NEW e \in Seq(T), NEW rest \in Seq(T)
     PROVE  /\ e \o rest \in Seq(T) /\ Len(e \o rest) = Len(e) + Len(rest)
            /\ SubSeq(e \o rest, 1, Len(e)) = e
            /\ SubSeq(e \o rest, Len(e) + 1, Len(e \o rest)) = rest
            /\ e # <<>> => e \o rest # <<>> /\ Head(e \o rest) = Head(e)
  <2> USE <1>Front
  <2> DEFINE s == e \o rest
  <2>1. s \in Seq(T) /\ Len(s) = Len(e) + Len(rest)
    OBVIOUS
  <2>2. SubSeq(s, 1, Len(e)) = e
    <3>1. SubSeq(s, 1, Len(e)) \in Seq(T) /\ Len(SubSeq(s, 1, Len(e))) = Len(e)
      BY <2>1
    <3>2. \A i \in 1 .. Len(e) : SubSeq(s, 1, Len(e))[i] = e[i]
      OBVIOUS
    <3> HIDE DEF s
    <3> QED BY <3>1, <3>2, SameElements
  <2>3. SubSeq(s, Len(e) + 1, Len(s)) = rest
    <3> DEFINE u == SubSeq(s, Len(e) + 1, Len(s))
    <3>1. u \in Seq(T) /\ Len(u) = Len(rest)
      BY <2>1
    <3>2. \A i \in 1 .. Len(rest) : u[i] = rest[i]
      BY <2>1
    <3> HIDE DEF u
    <3>3. u = rest
      BY <3>1, <3>2, SameElements
    <3> QED BY <3>3, Zenon DEF u
  <2>4. e # <<>> => s # <<>> /\ Head(s) = Head(e)
    OBVIOUS
  <2> QED BY <2>1, <2>2, <2>3, <2>4, Zenon
<1> SUFFICES ASSUME NEW column, NEW v \in ValuesIn(column.type), Encodable(v), NEW rest \in Seq(Byte),
                    NEW left, Joined(left, EncodeValue(v), rest)
             PROVE  DecodesFrom(left, column, v, rest)
  OBVIOUS
<1> SUFFICES ASSUME NEW vs
             PROVE  DecodeColumn([ok |-> TRUE, left |-> left, values |-> vs], column)
                      = [ok |-> TRUE, left |-> rest, values |-> Append(vs, v)]
  BY Zenon DEF DecodesFrom
<1> DEFINE e == EncodeValue(v)
           s == [ok |-> TRUE, left |-> left, values |-> vs]
           number == column.type \in {"int", "real"}
           size == IF number THEN IntBytes
                   ELSE IF s.left = <<>> THEN 1 ELSE 1 + Head(s.left)
           bytes == SubSeq(s.left, 1, size)
           value == CASE column.type = "int"  -> [int |-> Signed(Number(bytes))]
                      [] column.type = "real" -> [real |-> Number(bytes)]
                      [] OTHER                -> [text |-> Tail(bytes)]
           after == [ok |-> TRUE, left |-> SubSeq(s.left, size + 1, Len(s.left)),
                     values |-> Append(s.values, value)]
<1>1. DecodeColumn(s, column)
        = IF ~ s.ok \/ size > Len(s.left) THEN [s EXCEPT !.ok = FALSE] ELSE after
  BY Zenon DEF DecodeColumn
<1>2. e \in Seq(Byte)
  BY EncodesToBytes, Zenon
<1>3. s.ok /\ s.left = left /\ s.values = vs
  OBVIOUS
<1>a. left = e \o rest
  BY Zenon DEF Joined
<1> HIDE DEF e
<1>4. /\ left \in Seq(Byte) /\ Len(left) = Len(e) + Len(rest)
      /\ SubSeq(left, 1, Len(e)) = e
      /\ SubSeq(left, Len(e) + 1, Len(left)) = rest
      /\ e # <<>> => left # <<>> /\ Head(left) = Head(e)
  <2>1. /\ e \o rest \in Seq(Byte) /\ Len(e \o rest) = Len(e) + Len(rest)
        /\ SubSeq(e \o rest, 1, Len(e)) = e
        /\ SubSeq(e \o rest, Len(e) + 1, Len(e \o rest)) = rest
        /\ e # <<>> => e \o rest # <<>> /\ Head(e \o rest) = Head(e)
    BY <1>2, <1>Front, Zenon
  <2> QED BY <1>a, <2>1, Zenon
<1>5. size = Len(e)
  <2>1. CASE column.type = "int"
    BY <2>1, IntEncodes, Zenon DEF ValuesIn, e
  <2>2. CASE column.type = "real"
    <3>1. column.type # "int"
      BY <2>2
    <3> QED BY <2>2, <3>1, RealEncodes, Zenon DEF ValuesIn, e
  <2>3. CASE column.type \notin {"int", "real"}
    <3>1. column.type # "int" /\ column.type # "real"
      BY <2>3
    <3>2. e # <<>> /\ Len(e) = 1 + Head(e)
      BY <3>1, TextEncodes, Zenon DEF ValuesIn, e
    <3> HIDE DEF s
    <3> QED BY <1>3, <1>4, <2>3, <3>2, Zenon
  <2> QED BY <2>1, <2>2, <2>3, Zenon
<1> HIDE DEF size
<1>6. bytes = e
  BY <1>3, <1>4, <1>5, Zenon
<1> HIDE DEF bytes
<1>7. value = v
  <2>1. CASE column.type = "int"
    <3>1. [int |-> Signed(Number(e))] = v
      BY <2>1, IntEncodes, Zenon DEF ValuesIn, e
    <3>2. column.type # "real"
      BY <2>1
    <3>3. value = [int |-> Signed(Number(bytes))]
      BY <2>1, <3>2
    <3> HIDE DEF value
    <3> QED BY <1>6, <3>1, <3>3, Zenon
  <2>2. CASE column.type = "real"
    <3>1. column.type # "int"
      BY <2>2
    <3>2. [real |-> Number(e)] = v
      BY <2>2, <3>1, RealEncodes, Zenon DEF ValuesIn, e
    <3>3. value = [real |-> Number(bytes)]
      BY <2>2, <3>1
    <3> HIDE DEF value
    <3> QED BY <1>6, <3>2, <3>3, Zenon
  <2>3. CASE column.type \notin {"int", "real"}
    <3>1. column.type # "int" /\ column.type # "real"
      BY <2>3
    <3>2. [text |-> Tail(e)] = v
      BY <3>1, TextEncodes, Zenon DEF ValuesIn, e
    <3>3. value = [text |-> Tail(bytes)]
      BY <3>1
    <3> HIDE DEF value
    <3> QED BY <1>6, <3>2, <3>3, Zenon
  <2> QED BY <2>1, <2>2, <2>3, Zenon
<1> HIDE DEF value
<1>8. DecodeColumn(s, column) = after
  <2>1. ~ (Len(e) > Len(e) + Len(rest))
    BY <1>2
  <2> HIDE DEF s, after
  <2> QED BY <1>1, <1>3, <1>4, <1>5, <2>1, Zenon
<1>9. after = [ok |-> TRUE, left |-> rest, values |-> Append(vs, v)]
  <2> HIDE DEF s
  <2> QED BY <1>3, <1>4, <1>5, <1>7, Zenon
<1> QED BY <1>8, <1>9, Zenon

-----------------------------------------------------------------------------
(* What is appended piece by piece is read piece by piece.                 *)

\* Appending sequences makes a sequence.
LEMMA ConcatType ==
  ASSUME NEW T, NEW s \in Seq(Seq(T))
  PROVE  Concat(s) \in Seq(T)
<1>0. Len(s) \in Nat /\ <<>> \in Seq(T) /\ \A i \in 1 .. Len(s) : s[i] \in Seq(T)
  OBVIOUS
<1>1. PICK f : /\ f[0] = <<>> /\ Concat(s) = f[Len(s)]
               /\ \A m \in Nat : m + 1 <= Len(s) => f[m + 1] = f[m] \o s[m + 1]
  BY ConcatIs, Zenon
<1> DEFINE Have == {m \in Nat : m <= Len(s) => f[m] \in Seq(T)}
<1>2. 0 \in Have
  <2>1. 0 \in Nat /\ f[0] \in Seq(T)
    BY <1>0, <1>1
  <2> QED BY <2>1, Zenon
<1>3. ASSUME NEW m \in Nat, m \in Have PROVE m + 1 \in Have
  <2>1. ASSUME m + 1 <= Len(s) PROVE f[m + 1] \in Seq(T)
    <3>1. m <= Len(s) /\ m + 1 \in 1 .. Len(s)
      BY <1>0, <2>1
    <3>2. f[m] \in Seq(T) /\ s[m + 1] \in Seq(T) /\ f[m + 1] = f[m] \o s[m + 1]
      BY <1>0, <1>1, <1>3, <2>1, <3>1, Zenon
    <3> QED BY <3>2
  <2>2. m + 1 \in Nat
    OBVIOUS
  <2> QED BY <2>1, <2>2, Zenon
<1> HIDE DEF Have
<1>4. Len(s) \in Have
  BY <1>0, <1>2, <1>3, SetInduction, Zenon
<1>5. Len(s) <= Len(s)
  BY <1>0
<1> QED BY <1>1, <1>4, <1>5, Zenon DEF Have

\* r[m] is what follows the first m of the sequences, and then pad.
Follows(r, T, s, pad) ==
  /\ r \in [0 .. Len(s) -> Seq(T)] /\ r[Len(s)] = pad
  /\ \A m \in Nat : m < Len(s) => r[m] = s[m + 1] \o r[m + 1]

\* The rests of a concatenation, followed by a padding, piece by piece.
LEMMA FollowsExists ==
  \A T : \A s \in Seq(Seq(T)), pad \in Seq(T) :
    \E r : Follows(r, T, s, pad) /\ r[0] = Concat(s) \o pad
\* Nothing before a sequence.
<1>NothingBefore.
     ASSUME NEW T, NEW a \in Seq(T)
     PROVE  <<>> \o a = a /\ <<>> \in Seq(T) /\ Len(<<>>) = 0
  <2> USE <1>NothingBefore
  <2>1. <<>> \in Seq(T) /\ Len(<<>>) = 0
    OBVIOUS
  <2> DEFINE x == <<>> \o a
  <2>2. x \in Seq(T) /\ Len(x) = Len(a) /\ \A i \in 1 .. Len(x) : x[i] = a[i]
    OBVIOUS
  <2> HIDE DEF x
  <2>3. x = a
    BY <2>2, SameElements, Zenon
  <2> QED BY <2>1, <2>3, Zenon DEF x
<1> SUFFICES ASSUME NEW T, NEW s \in Seq(Seq(T)), NEW pad \in Seq(T)
             PROVE  \E r : Follows(r, T, s, pad) /\ r[0] = Concat(s) \o pad
  OBVIOUS
<1> DEFINE L == Len(s)
           G == [n \in Nat |-> [y \in Seq(T) |-> IF n < L THEN s[L - n] \o y ELSE y]]
<1>0. L \in Nat /\ \A i \in 1 .. L : s[i] \in Seq(T)
  OBVIOUS
<1> HIDE DEF L
<1>1. ASSUME NEW n \in Nat, n < L PROVE L - n \in 1 .. L /\ s[L - n] \in Seq(T)
  <2>1. L - n \in 1 .. L
    BY <1>0, <1>1
  <2> QED BY <1>0, <2>1, Zenon
<1>2. G \in [Nat -> [Seq(T) -> Seq(T)]]
  <2>1. ASSUME NEW n \in Nat, NEW y \in Seq(T)
        PROVE  (IF n < L THEN s[L - n] \o y ELSE y) \in Seq(T)
    <3>1. \A z \in Seq(T) : z \o y \in Seq(T)
      OBVIOUS
    <3> QED BY <1>1, <3>1, Zenon
  <2> QED BY <2>1, Zenon
<1>3. \A n \in Nat, y \in Seq(T) : n < L => G[n][y] = s[L - n] \o y
  BY Zenon
<1> HIDE DEF G
<1>4. PICK t : Recurs(t, Seq(T), pad, G)
  BY <1>2, Recursion, Zenon
<1> DEFINE r == [m \in 0 .. L |-> t[L - m]]
<1>5. \A m \in 0 .. L : L - m \in Nat
  BY <1>0
<1>6. r \in [0 .. L -> Seq(T)]
  BY <1>4, <1>5, Zenon DEF Recurs
<1>7. r[L] = pad
  <2>1. L \in 0 .. L /\ L - L = 0
    BY <1>0
  <2> QED BY <1>4, <2>1, Zenon DEF Recurs
<1>8. ASSUME NEW m \in Nat, m < L PROVE r[m] = s[m + 1] \o r[m + 1]
  <2> DEFINE n == L - (m + 1)
  <2>1. n \in Nat /\ n < L /\ L - m = n + 1 /\ L - n = m + 1 /\ m \in 0 .. L /\ m + 1 \in 0 .. L
    BY <1>0, <1>8
  <2>2. r[m] = t[n + 1] /\ r[m + 1] = t[n]
    BY <2>1, Zenon
  <2> HIDE DEF n, r
  <2>3. t[n + 1] = G[n][t[n]] /\ t[n] \in Seq(T)
    BY <1>4, <2>1, Zenon DEF Recurs
  <2> QED BY <1>3, <2>1, <2>2, <2>3, Zenon
<1> HIDE DEF r
<1>9. Follows(r, T, s, pad)
  BY <1>6, <1>7, <1>8, Zenon DEF Follows, L
<1>10. PICK f : /\ f[0] = <<>> /\ Concat(s) = f[Len(s)]
                /\ \A m \in Nat : m + 1 <= Len(s) => f[m + 1] = f[m] \o s[m + 1]
  BY ConcatIs, Zenon
<1> DEFINE Have == {m \in Nat : m <= L => f[m] \in Seq(T) /\ f[m] \o r[m] = r[0]}
<1>11. 0 \in Have
  <2>1. 0 \in 0 .. L
    BY <1>0
  <2>2. r[0] \in Seq(T)
    BY <1>6, <2>1, Zenon
  <2>3. f[0] \in Seq(T) /\ f[0] \o r[0] = r[0]
    BY <1>10, <2>2, <1>NothingBefore, Zenon
  <2>4. 0 \in Nat
    OBVIOUS
  <2> QED BY <2>3, <2>4, Zenon
<1>12. ASSUME NEW m \in Nat, m \in Have PROVE m + 1 \in Have
  <2>1. ASSUME m + 1 <= L PROVE f[m + 1] \in Seq(T) /\ f[m + 1] \o r[m + 1] = r[0]
    <3>1. m <= L /\ m < L /\ m + 1 \in 0 .. L /\ m + 1 \in 1 .. L
      BY <1>0, <2>1
    <3>2. f[m] \in Seq(T) /\ f[m] \o r[m] = r[0]
      BY <1>12, <3>1, Zenon
    <3>3. f[m + 1] = f[m] \o s[m + 1] /\ r[m] = s[m + 1] \o r[m + 1]
      BY <1>8, <1>10, <2>1, <3>1, Zenon DEF L
    <3>4. s[m + 1] \in Seq(T) /\ r[m + 1] \in Seq(T)
      BY <1>0, <1>6, <3>1, Zenon
    <3>5. f[m + 1] \o r[m + 1] = r[0]
      <4>1. f[m + 1] \o r[m + 1] = f[m] \o r[m]
        <5> DEFINE a == f[m]
                   b == s[m + 1]
                   c == r[m + 1]
                   ab == f[m + 1]
                   bc == r[m]
        <5>1. a \in Seq(T) /\ b \in Seq(T) /\ c \in Seq(T) /\ ab = a \o b /\ bc = b \o c
          BY <3>2, <3>3, <3>4, Zenon
        <5> HIDE DEF a, b, c, ab, bc
        <5>2. ab \o c = a \o bc
          BY <5>1, SMTT(30)
        <5> QED BY <5>2, Zenon DEF a, b, c, ab, bc
      <4> QED BY <3>2, <4>1, Zenon
    <3>6. f[m] \o s[m + 1] \in Seq(T)
      BY <3>2, <3>4
    <3> QED BY <3>3, <3>5, <3>6, Zenon
  <2>2. m + 1 \in Nat
    OBVIOUS
  <2> QED BY <2>1, <2>2, Zenon
<1> HIDE DEF Have
<1>13. L \in Have
  BY <1>0, <1>11, <1>12, SetInduction, Zenon
<1>14. r[0] = Concat(s) \o pad
  <2>1. L <= L
    BY <1>0
  <2>2. f[L] \o r[L] = r[0]
    BY <1>13, <2>1, Zenon DEF Have
  <2> QED BY <1>7, <1>10, <2>2, Zenon DEF L
<1> QED BY <1>9, <1>14, Zenon

\* The elements of a piece.
LEMMA Slice ==
  ASSUME NEW T, NEW whole \in Seq(T), NEW k \in Nat, NEW n \in Nat, k + n <= Len(whole)
  PROVE  /\ SubSeq(whole, k + 1, k + n) \in Seq(T) /\ Len(SubSeq(whole, k + 1, k + n)) = n
         /\ \A i \in 1 .. n : SubSeq(whole, k + 1, k + n)[i] = whole[k + i]
OBVIOUS

PieceOf(whole, k, e, rest) ==
  /\ k + Len(e) <= Len(whole)
  /\ SubSeq(whole, k + 1, k + Len(e)) = e
  /\ SubSeq(whole, (k + Len(e)) + 1, Len(whole)) = rest
DropFirst(t, whole, k) == t = SubSeq(whole, k + 1, Len(whole))

\* Where each of the sequences begins.
Offsets(k, s) ==
  /\ k \in [0 .. Len(s) -> Nat] /\ k[0] = 0
  /\ \A m \in Nat : m < Len(s) => k[m + 1] = k[m] + Len(s[m + 1])

\* The pieces of a concatenation are at the sums of the lengths before them.
LEMMA PiecesAt ==
  \A T : \A s \in Seq(Seq(T)) : \A k :
    Offsets(k, s) =>
      /\ Concat(s) \in Seq(T) /\ Len(Concat(s)) = k[Len(s)]
      /\ \A m \in Nat : m < Len(s) =>
           SubSeq(Concat(s), k[m] + 1, k[m + 1]) = s[m + 1]
\* The elements after the first k.
<1>Remainder.
     ASSUME NEW T, NEW whole \in Seq(T), NEW k \in Nat, k <= Len(whole)
     PROVE  /\ SubSeq(whole, k + 1, Len(whole)) \in Seq(T)
            /\ Len(SubSeq(whole, k + 1, Len(whole))) = Len(whole) - k
            /\ \A i \in 1 .. Len(whole) - k : SubSeq(whole, k + 1, Len(whole))[i] = whole[k + i]
  BY <1>Remainder
\* The piece of a sequence after what stands before it.
<1>PieceAt.
     ASSUME NEW T, NEW whole \in Seq(T), NEW k \in Nat, k <= Len(whole),
            NEW e \in Seq(T), NEW rest \in Seq(T), NEW tail,
            DropFirst(tail, whole, k), Joined(tail, e, rest)
     PROVE  PieceOf(whole, k, e, rest)
  <2> USE <1>PieceAt
  <2>1. /\ tail \in Seq(T) /\ Len(tail) = Len(whole) - k
        /\ \A i \in 1 .. Len(whole) - k : tail[i] = whole[k + i]
    BY <1>Remainder, Zenon DEF DropFirst
  <2>2. /\ Len(tail) = Len(e) + Len(rest) /\ Len(e) \in Nat /\ Len(rest) \in Nat
        /\ \A i \in 1 .. Len(e) : tail[i] = e[i]
        /\ \A i \in 1 .. Len(rest) : tail[Len(e) + i] = rest[i]
    <3>1. /\ Len(e \o rest) = Len(e) + Len(rest) /\ Len(e) \in Nat /\ Len(rest) \in Nat
          /\ \A i \in 1 .. Len(e) : (e \o rest)[i] = e[i]
          /\ \A i \in 1 .. Len(rest) : (e \o rest)[Len(e) + i] = rest[i]
      OBVIOUS
    <3>2. tail = e \o rest
      BY Zenon DEF Joined
    <3> QED BY <3>1, <3>2, Zenon
  <2>3. Len(whole) - k = Len(e) + Len(rest) /\ Len(e) \in Nat /\ Len(rest) \in Nat
    BY <2>1, <2>2, Zenon
  <2>4. \A i \in 1 .. Len(e) : whole[k + i] = e[i]
    BY <2>1, <2>2, <2>3
  <2>5. \A i \in 1 .. Len(rest) : whole[k + Len(e) + i] = rest[i]
    <3> SUFFICES ASSUME NEW i \in 1 .. Len(rest) PROVE whole[k + Len(e) + i] = rest[i]
      OBVIOUS
    <3>1. Len(e) + i \in 1 .. Len(whole) - k /\ k + (Len(e) + i) = k + Len(e) + i
      BY <2>3
    <3>2. tail[Len(e) + i] = rest[i]
      BY <2>2, <2>3
    <3>3. tail[Len(e) + i] = whole[k + (Len(e) + i)]
      BY <2>1, <3>1, Zenon
    <3> QED BY <3>1, <3>2, <3>3, Zenon
  <2>6. SubSeq(whole, k + 1, k + Len(e)) = e
    <3> DEFINE u == SubSeq(whole, k + 1, k + Len(e))
    <3>1. u \in Seq(T) /\ Len(u) = Len(e) /\ \A i \in 1 .. Len(u) : u[i] = whole[k + i]
      <4>1. k + Len(e) <= Len(whole)
        BY <2>3
      <4>2. /\ SubSeq(whole, k + 1, k + Len(e)) \in Seq(T)
            /\ Len(SubSeq(whole, k + 1, k + Len(e))) = Len(e)
            /\ \A i \in 1 .. Len(e) : SubSeq(whole, k + 1, k + Len(e))[i] = whole[k + i]
        BY <2>3, <4>1, Slice, ZenonT(40)
      <4> QED BY <4>2, Zenon
    <3> HIDE DEF u
    <3>2. u = e
      BY <2>4, <3>1, SameElements, Zenon
    <3> QED BY <3>2, Zenon DEF u
  <2>7. SubSeq(whole, (k + Len(e)) + 1, Len(whole)) = rest
    <3> DEFINE u == SubSeq(whole, (k + Len(e)) + 1, Len(whole))
    <3>1. u \in Seq(T) /\ Len(u) = Len(rest) /\ \A i \in 1 .. Len(u) : u[i] = whole[k + Len(e) + i]
      BY <2>3
    <3> HIDE DEF u
    <3>2. u = rest
      BY <2>5, <3>1, SameElements, Zenon
    <3> QED BY <3>2, Zenon DEF u
  <2>8. k + Len(e) <= Len(whole)
    BY <2>3
  <2> QED BY <2>6, <2>7, <2>8, Zenon DEF PieceOf
<1> SUFFICES ASSUME NEW T, NEW s \in Seq(Seq(T)), NEW k, Offsets(k, s)
             PROVE  /\ Concat(s) \in Seq(T) /\ Len(Concat(s)) = k[Len(s)]
                    /\ \A m \in Nat : m < Len(s) =>
                         SubSeq(Concat(s), k[m] + 1, k[m + 1]) = s[m + 1]
  OBVIOUS
<1> DEFINE L == Len(s)
           whole == Concat(s)
<1>0. L \in Nat /\ <<>> \in Seq(T) /\ \A i \in 1 .. L : s[i] \in Seq(T)
  OBVIOUS
<1>1. PICK r : Follows(r, T, s, <<>>) /\ r[0] = whole \o <<>>
  BY <1>0, FollowsExists, Zenon
<1>2. whole \in Seq(T)
  BY ConcatType, Zenon
<1>3. r[0] = whole
  <2> HIDE DEF whole
  <2> QED BY <1>1, <1>2
<1> HIDE DEF L, whole
<1> DEFINE Rest(m) == SubSeq(whole, k[m] + 1, Len(whole))
           Have == {m \in Nat : m <= L => k[m] \in Nat /\ k[m] <= Len(whole) /\ Rest(m) = r[m]}
<1>4. 0 \in Have
  <2>1. k[0] = 0
    BY Zenon DEF Offsets
  <2>2. Rest(0) = whole
    BY <1>2, <2>1
  <2> QED BY <1>2, <1>3, <2>1, <2>2
<1>5. ASSUME NEW m \in Nat, m < L, m \in Have
      PROVE  m + 1 \in Have /\ SubSeq(whole, k[m] + 1, k[m + 1]) = s[m + 1]
  <2>1. m <= L /\ m + 1 \in 1 .. L /\ m + 1 \in 0 .. L /\ m + 1 \in Nat
    BY <1>0, <1>5
  <2>2. k[m] \in Nat /\ k[m] <= Len(whole) /\ Rest(m) = r[m]
    BY <1>5, <2>1, Zenon
  <2>3. r[m] = s[m + 1] \o r[m + 1] /\ r[m + 1] \in Seq(T)
    BY <1>1, <1>5, <2>1, Zenon DEF Follows, L
  <2>4. s[m + 1] \in Seq(T) /\ k[m + 1] = k[m] + Len(s[m + 1]) /\ k[m + 1] \in Nat
    BY <1>0, <1>5, <2>1, Zenon DEF Offsets, L
  <2> DEFINE e == s[m + 1]
             rest == r[m + 1]
             at == k[m]
  <2>5. /\ e \in Seq(T) /\ rest \in Seq(T) /\ at \in Nat /\ at <= Len(whole)
        /\ k[m + 1] = at + Len(e)
    BY <2>2, <2>3, <2>4, Zenon
  <2>a. DropFirst(r[m], whole, at)
    <3>1. r[m] = SubSeq(whole, at + 1, Len(whole))
      BY <2>2, Zenon
    <3> QED BY <3>1, Zenon DEF DropFirst
  <2>b. Joined(r[m], e, rest)
    BY <2>3, Zenon DEF Joined
  <2> HIDE DEF e, rest, at
  <2>6. /\ at + Len(e) <= Len(whole)
        /\ SubSeq(whole, at + 1, at + Len(e)) = e
        /\ SubSeq(whole, (at + Len(e)) + 1, Len(whole)) = rest
    <3>1. PieceOf(whole, at, e, rest)
      BY <1>2, <2>5, <2>a, <2>b, <1>PieceAt, Zenon
    <3> QED BY <3>1, Zenon DEF PieceOf
  <2>7. k[m + 1] <= Len(whole) /\ Rest(m + 1) = r[m + 1]
    BY <2>5, <2>6, Zenon DEF rest
  <2>8. SubSeq(whole, k[m] + 1, k[m + 1]) = s[m + 1]
    BY <2>5, <2>6, Zenon DEF e, at
  <2> HIDE DEF Rest
  <2> QED BY <2>1, <2>4, <2>7, <2>8, Zenon
<1>6. \A m \in Nat : m \in Have
  <2>1. ASSUME NEW m \in Nat, m \in Have PROVE m + 1 \in Have
    <3>1. CASE m < L
      BY <1>5, <2>1, <3>1, Zenon
    <3>2. CASE ~ (m < L)
      <4>1. m + 1 \in Nat /\ ~ (m + 1 <= L)
        BY <1>0, <3>2
      <4> QED BY <4>1, Zenon
    <3> QED BY <3>1, <3>2, Zenon
  <2> HIDE DEF Have
  <2> QED BY <1>4, <2>1, SetInduction, Zenon
<1>7. Len(whole) = k[L]
  <2>1. L <= L
    BY <1>0
  <2>2. k[L] \in Nat /\ k[L] <= Len(whole) /\ Rest(L) = r[L]
    BY <1>0, <1>6, <2>1, Zenon
  <2>3. r[L] = <<>>
    BY <1>1, Zenon DEF Follows, L
  <2>4. Len(Rest(L)) = 0
    <3>1. Rest(L) = <<>>
      BY <2>2, <2>3, Zenon
    <3> HIDE DEF Rest
    <3> QED BY <3>1
  <2>5. Len(Rest(L)) = Len(whole) - k[L]
    BY <1>2, <2>2, <1>Remainder, Zenon
  <2>6. Len(whole) \in Nat
    BY <1>2
  <2> HIDE DEF Rest
  <2> QED BY <2>2, <2>4, <2>5, <2>6
<1> HIDE DEF Have
<1>8. \A m \in Nat : m < L => SubSeq(whole, k[m] + 1, k[m + 1]) = s[m + 1]
  BY <1>5, <1>6, Zenon
<1> QED BY <1>2, <1>7, <1>8, Zenon DEF L, whole

-----------------------------------------------------------------------------
(* A record.                                                               *)

Column == [name : STRING, encoding : {"eq", "index", "raw"}, type : Types]

\* k is the column of the key.
KeyAt(columns, k) ==
  /\ k \in 1 .. Len(columns)
  /\ \A i \in 1 .. Len(columns) : columns[i].encoding = "eq" <=> i = k

\* A schema has one key.
LEMMA KeyIs ==
  ASSUME NEW columns \in Seq(Column), Valid(columns)
  PROVE  KeyAt(columns, KeyIndex(columns))
<1> DEFINE S == {i \in DOMAIN columns : columns[i].encoding = "eq"}
<1>1. DOMAIN columns = 1 .. Len(columns) /\ Len(columns) \in Nat
  OBVIOUS
<1>2. IsFiniteSet(S)
  <2>1. IsFiniteSet(1 .. Len(columns))
    BY <1>1, FS_Interval
  <2>2. S \subseteq 1 .. Len(columns)
    BY <1>1
  <2> QED BY <2>1, <2>2, FS_Subset, Zenon
<1>3. Cardinality(S) = 1
  BY Zenon DEF Valid
<1>4. PICK k : S = {k}
  BY <1>2, <1>3, FS_Singleton, Zenon
<1>5. KeyIndex(columns) \in S
  <2>1. k \in DOMAIN columns /\ columns[k].encoding = "eq"
    BY <1>4, Zenon
  <2>2. KeyIndex(columns) \in DOMAIN columns /\ columns[KeyIndex(columns)].encoding = "eq"
    BY <2>1, Zenon DEF KeyIndex
  <2> QED BY <2>2, Zenon
<1>6. \A i \in 1 .. Len(columns) : columns[i].encoding = "eq" <=> i = KeyIndex(columns)
  <2>1. KeyIndex(columns) = k
    BY <1>4, <1>5, Zenon
  <2>2. \A i \in 1 .. Len(columns) : i \in S <=> columns[i].encoding = "eq"
    BY <1>1, Zenon
  <2> HIDE DEF S
  <2> QED BY <1>4, <2>1, <2>2, Zenon
<1> QED BY <1>1, <1>5, <1>6, Zenon DEF KeyAt

\* The sequence without its k-th.
Without(values, k) == SubSeq(values, 1, k - 1) \o SubSeq(values, k + 1, Len(values))

\* Where the i-th column's value is in the payload.
Place(k, i) == IF i < k THEN i ELSE i - 1

\* The values without the k-th: those before it at their place, the others one earlier.
LEMMA WithoutIs ==
  ASSUME NEW T, NEW values \in Seq(T), NEW k \in 1 .. Len(values)
  PROVE  /\ Without(values, k) \in Seq(T) /\ Len(Without(values, k)) = Len(values) - 1
         /\ \A i \in 1 .. Len(values) : i # k => Without(values, k)[Place(k, i)] = values[i]
<1> DEFINE a == SubSeq(values, 1, k - 1)
           b == SubSeq(values, k + 1, Len(values))
<1>1. /\ a \in Seq(T) /\ Len(a) = k - 1 /\ \A i \in 1 .. k - 1 : a[i] = values[i]
      /\ b \in Seq(T) /\ Len(b) = Len(values) - k
      /\ \A i \in 1 .. Len(values) - k : b[i] = values[k + i]
      /\ Len(values) \in Nat /\ k \in Nat
  BY SMTT(30)
<1>2. Without(values, k) = a \o b
  BY Zenon DEF Without
<1> HIDE DEF a, b
<1>3. /\ a \o b \in Seq(T) /\ Len(a \o b) = Len(values) - 1
      /\ \A i \in 1 .. Len(a) : (a \o b)[i] = a[i]
      /\ \A i \in 1 .. Len(b) : (a \o b)[Len(a) + i] = b[i]
  BY <1>1
<1> DEFINE w == a \o b
<1>4. /\ w \in Seq(T) /\ Len(w) = Len(values) - 1
      /\ \A i \in 1 .. k - 1 : w[i] = a[i]
      /\ \A i \in 1 .. Len(values) - k : w[k - 1 + i] = b[i]
  BY <1>1, <1>3, Zenon
<1> HIDE DEF w
<1>5. ASSUME NEW i \in 1 .. Len(values), i # k PROVE w[Place(k, i)] = values[i]
  <2>1. CASE i < k
    <3>1. i \in 1 .. k - 1
      BY <1>1, <2>1
    <3> QED BY <1>1, <1>4, <2>1, <3>1, Zenon DEF Place
  <2>2. CASE ~ (i < k)
    <3>1. i - k \in 1 .. Len(values) - k /\ k - 1 + (i - k) = i - 1 /\ k + (i - k) = i
      BY <1>1, <1>5, <2>2
    <3>2. w[i - 1] = values[i]
      BY <1>1, <1>4, <3>1, ZenonT(40)
    <3> QED BY <2>2, <3>2, Zenon DEF Place
  <2> QED BY <2>1, <2>2, Zenon
<1> QED BY <1>2, <1>4, <1>5, Zenon DEF w

\* The values of a row, one for each column.
RowTyped(columns, values) ==
  /\ columns \in Seq(Column) /\ values \in Seq(UNION {ValuesIn(t) : t \in Types})
  /\ Len(values) = Len(columns)
  /\ \A i \in 1 .. Len(columns) : values[i] \in ValuesIn(columns[i].type)

\* A payload of values that fit is decoded from its record as it was.
LEMMA RecordDecodes ==
  \A columns, values, k : \A record_bytes \in Nat :
    /\ RowTyped(columns, values)
    /\ KeyAt(columns, k)
    /\ Fits(Without(values, k), record_bytes)
    => /\ EncodeRecord(Without(values, k), record_bytes) \in Seq(Byte)
       /\ Len(EncodeRecord(Without(values, k), record_bytes)) = record_bytes
       /\ DecodeRecord(columns, EncodeRecord(Without(values, k), record_bytes)).ok
       /\ DecodeRecord(columns, EncodeRecord(Without(values, k), record_bytes)).values
            = Without(values, k)
\* The encoded values of a payload, each with its length.
<1>EncodedIs.
     ASSUME NEW columns \in Seq(Column), NEW values \in Seq(UNION {ValuesIn(t) : t \in Types}),
            Len(values) = Len(columns), NEW k, KeyAt(columns, k),
            \A i \in 1 .. Len(columns) : values[i] \in ValuesIn(columns[i].type),
            \A j \in DOMAIN Without(values, k) : Encodable(Without(values, k)[j])
     PROVE  [j \in DOMAIN Without(values, k) |-> EncodeValue(Without(values, k)[j])] \in Seq(Seq(Byte))
  <2> USE <1>EncodedIs
  <2> DEFINE p == Without(values, k)
             n == Len(columns) - 1
  <2>1. k \in 1 .. Len(columns) /\ Len(columns) \in Nat /\ n \in Nat
    BY DEF KeyAt
  <2>2. /\ p \in Seq(UNION {ValuesIn(t) : t \in Types}) /\ Len(p) = n
        /\ \A i \in 1 .. Len(columns) : i # k => p[Place(k, i)] = values[i]
    <3>1. k \in 1 .. Len(values)
      BY <2>1, Zenon
    <3>2. /\ p \in Seq(UNION {ValuesIn(t) : t \in Types}) /\ Len(p) = Len(values) - 1
          /\ \A i \in 1 .. Len(values) : i # k => p[Place(k, i)] = values[i]
      BY <3>1, WithoutIs, Zenon
    <3> HIDE DEF p
    <3> QED BY <3>2, Zenon
  <2>3. DOMAIN p = 1 .. n
    BY <2>1, <2>2
  <2>4. ASSUME NEW j \in 1 .. n PROVE EncodeValue(p[j]) \in Seq(Byte)
    <3> DEFINE i == IF j < k THEN j ELSE j + 1
    <3>1. i \in 1 .. Len(columns) /\ i # k /\ Place(k, i) = j
      BY <2>1 DEF Place
    <3> HIDE DEF i
    <3>2. p[j] \in ValuesIn(columns[i].type) /\ Encodable(p[j])
      BY <2>2, <2>3, <3>1, Zenon
    <3> HIDE DEF p
    <3> QED BY <3>2, EncodesToBytes, Zenon
  <2> HIDE DEF p, n
  <2>5. [j \in 1 .. n |-> EncodeValue(p[j])] \in [1 .. n -> Seq(Byte)]
    BY <2>4, Zenon
  <2>6. [j \in 1 .. n |-> EncodeValue(p[j])] \in Seq(Seq(Byte))
    BY <2>1, <2>5, FunctionIsSeq, Zenon
  <2> QED BY <2>3, <2>6, Zenon DEF p
\* DecodeRecord, when A is what it has after each column.
<1>DecodesBy.
     ASSUME NEW columns \in Seq(Column), NEW record, NEW A,
            A[0] = [ok |-> TRUE, left |-> record, values |-> <<>>],
            \A i \in 1 .. Len(columns) :
              /\ columns[i].encoding = "eq" => A[i] = A[i - 1]
              /\ columns[i].encoding # "eq" => A[i] = DecodeColumn(A[i - 1], columns[i])
     PROVE  DecodeRecord(columns, record) = A[Len(columns)]
  <2> USE <1>DecodesBy
  <2> DEFINE L == Len(columns)
             Body(f) == [i \in 0 .. L |->
                          IF i = 0 THEN [ok |-> TRUE, left |-> record, values |-> <<>>]
                          ELSE IF columns[i].encoding = "eq" THEN f[i - 1]
                          ELSE DecodeColumn(f[i - 1], columns[i])]
             B == [i \in 0 .. L |-> A[i]]
             F == CHOOSE f : f = Body(f)
  <2>0. L \in Nat
    OBVIOUS
  <2>1. DecodeRecord(columns, record) = F[L]
    BY Zenon DEF DecodeRecord
  <2> HIDE DEF L
  <2>2. B = Body(B)
    <3>1. ASSUME NEW i \in 0 .. L PROVE B[i] = Body(B)[i]
      <4>1. CASE i = 0
        BY <4>1, Zenon
      <4>2. CASE i # 0
        <5>1. i \in 1 .. L /\ i - 1 \in 0 .. L
          BY <2>0, <4>2
        <5> QED BY <4>2, <5>1, Zenon DEF L
      <4> QED BY <4>1, <4>2, Zenon
    <3>2. B = [i \in 0 .. L |-> B[i]]
      BY Zenon
    <3> HIDE DEF B
    <3>3. Body(B) = [i \in 0 .. L |-> Body(B)[i]]
      BY Zenon
    <3> HIDE DEF Body
    <3> QED BY <3>1, <3>2, <3>3, Zenon
  <2>3. F = Body(F)
    <3> HIDE DEF B, Body
    <3> QED BY <2>2, Zenon
  <2> DEFINE Have == {m \in Nat : m <= L => F[m] = A[m]}
  <2>4. 0 \in Have
    <3>1. 0 \in 0 .. L /\ 0 \in Nat
      BY <2>0
    <3>2. F[0] = Body(F)[0]
      BY <2>3, Zenon
    <3> HIDE DEF F
    <3> QED BY <3>1, <3>2, Zenon
  <2>5. ASSUME NEW m \in Nat, m \in Have PROVE m + 1 \in Have
    <3>1. ASSUME m + 1 <= L PROVE F[m + 1] = A[m + 1]
      <4>1. m <= L /\ m + 1 \in 0 .. L /\ m + 1 \in 1 .. L /\ m + 1 # 0 /\ m + 1 - 1 = m
        BY <2>0, <3>1
      <4>2. F[m] = A[m]
        BY <2>5, <4>1, Zenon
      <4> HIDE DEF F
      <4>3. F[m + 1] = Body(F)[m + 1]
        <5> HIDE DEF Body
        <5> QED BY <2>3, Zenon
      <4>4. /\ columns[m + 1].encoding = "eq" => A[m + 1] = A[m]
            /\ columns[m + 1].encoding # "eq" => A[m + 1] = DecodeColumn(A[m], columns[m + 1])
        <5>1. m + 1 \in 1 .. Len(columns)
          BY <4>1, Zenon DEF L
        <5>2. ASSUME NEW i \in 1 .. Len(columns), i - 1 = m
              PROVE  /\ columns[i].encoding = "eq" => A[i] = A[m]
                     /\ columns[i].encoding # "eq" => A[i] = DecodeColumn(A[m], columns[i])
          BY <5>2, Zenon
        <5> DEFINE i == m + 1
        <5>3. i \in 1 .. Len(columns) /\ i - 1 = m
          BY <5>1
        <5> HIDE DEF i
        <5>4. /\ columns[i].encoding = "eq" => A[i] = A[m]
              /\ columns[i].encoding # "eq" => A[i] = DecodeColumn(A[m], columns[i])
          BY <5>2, <5>3, Zenon
        <5> QED BY <5>4, Zenon DEF i
      <4>5. /\ columns[m + 1].encoding = "eq" => Body(F)[m + 1] = F[m]
            /\ columns[m + 1].encoding # "eq" => Body(F)[m + 1] = DecodeColumn(F[m], columns[m + 1])
        <5>1. ASSUME NEW i \in 0 .. L, i # 0, i - 1 = m
              PROVE  /\ columns[i].encoding = "eq" => Body(F)[i] = F[m]
                     /\ columns[i].encoding # "eq" => Body(F)[i] = DecodeColumn(F[m], columns[i])
          BY <5>1, Zenon
        <5> HIDE DEF Body
        <5> DEFINE i == m + 1
        <5>3. i \in 0 .. L /\ i # 0 /\ i - 1 = m
          BY <4>1
        <5> HIDE DEF i
        <5>4. /\ columns[i].encoding = "eq" => Body(F)[i] = F[m]
              /\ columns[i].encoding # "eq" => Body(F)[i] = DecodeColumn(F[m], columns[i])
          BY <5>1, <5>3, Zenon
        <5> QED BY <5>4, Zenon DEF i
      <4> HIDE DEF Body
      <4> QED BY <4>2, <4>3, <4>4, <4>5, Zenon
    <3>2. m + 1 \in Nat
      OBVIOUS
    <3> QED BY <3>1, <3>2, Zenon
  <2> HIDE DEF Have
  <2>6. L \in Have /\ L <= L
    BY <2>0, <2>4, <2>5, SetInduction
  <2> HIDE DEF F
  <2> QED BY <2>1, <2>6, Zenon DEF Have, L
<1> SUFFICES ASSUME NEW columns, NEW values, RowTyped(columns, values), NEW k, KeyAt(columns, k),
                    NEW record_bytes \in Nat, Fits(Without(values, k), record_bytes)
             PROVE  /\ EncodeRecord(Without(values, k), record_bytes) \in Seq(Byte)
                    /\ Len(EncodeRecord(Without(values, k), record_bytes)) = record_bytes
                    /\ DecodeRecord(columns, EncodeRecord(Without(values, k), record_bytes)).ok
                    /\ DecodeRecord(columns, EncodeRecord(Without(values, k), record_bytes)).values
                         = Without(values, k)
  OBVIOUS
<1> DEFINE p == Without(values, k)
           L == Len(columns)
           V == UNION {ValuesIn(t) : t \in Types}
           s == [j \in DOMAIN p |-> EncodeValue(p[j])]
           out == Concat(s)
           n == record_bytes - Len(out)
           pad == [i \in 1 .. n |-> 0]
           record == EncodeRecord(p, record_bytes)
<1>1. /\ columns \in Seq(Column) /\ values \in Seq(V) /\ Len(values) = L
      /\ \A i \in 1 .. L : values[i] \in ValuesIn(columns[i].type)
  BY Zenon DEF RowTyped
<1>2. k \in 1 .. L /\ \A i \in 1 .. L : columns[i].encoding = "eq" <=> i = k
  BY Zenon DEF KeyAt
<1>3. L \in Nat /\ k \in 1 .. Len(values) /\ k \in Nat
  BY <1>1, <1>2
<1>4. /\ p \in Seq(V) /\ Len(p) = Len(values) - 1
      /\ \A i \in 1 .. Len(values) : i # k => p[Place(k, i)] = values[i]
  BY <1>1, <1>3, WithoutIs, Zenon
<1>5. /\ \A j \in DOMAIN p : Encodable(p[j])
      /\ Len(out) <= record_bytes
  BY Zenon DEF Fits, Encoded
<1>6. s \in Seq(Seq(Byte))
  BY <1>1, <1>5, <1>EncodedIs, Zenon
<1>7. record = out \o pad
  BY Zenon DEF EncodeRecord, Encoded
<1> HIDE DEF record, p, s
<1>8. out \in Seq(Byte)
  BY <1>6, ConcatType, Zenon
<1> HIDE DEF out
<1>9. n \in Nat
  BY <1>5, <1>8
<1>10. 0 \in Byte
  BY BaseIs DEF Byte
<1> HIDE DEF n
<1>11. pad \in Seq(Byte) /\ Len(pad) = n
  <2>1. pad \in [1 .. n -> Byte]
    BY <1>10, Zenon
  <2> HIDE DEF pad
  <2> QED BY <1>9, <2>1, FunctionIsSeq, Zenon
<1> HIDE DEF pad
<1>12. record \in Seq(Byte) /\ Len(record) = record_bytes
  <2>1. out \o pad \in Seq(Byte) /\ Len(out \o pad) = Len(out) + Len(pad) /\ Len(out) \in Nat
    BY <1>8, <1>11
  <2>2. Len(out) + n = record_bytes
    BY <2>1 DEF n
  <2> QED BY <1>7, <1>11, <2>1, <2>2, Zenon
<1>13. PICK r : Follows(r, Byte, s, pad) /\ r[0] = Concat(s) \o pad
  BY <1>6, <1>11, FollowsExists, Zenon
<1>14. r[0] = record
  BY <1>7, <1>13, Zenon DEF out
<1>15. Len(s) = L - 1 /\ DOMAIN p = 1 .. L - 1 /\ \A j \in 1 .. L - 1 : s[j] = EncodeValue(p[j])
  <2>1. DOMAIN p = 1 .. L - 1
    BY <1>1, <1>3, <1>4
  <2>2. s = [j \in 1 .. L - 1 |-> EncodeValue(p[j])]
    BY <2>1, Zenon DEF s
  <2>3. L - 1 \in Nat
    BY <1>2, <1>3
  <2>4. Len(s) = L - 1
    BY <1>6, <2>2, <2>3
  <2> QED BY <2>1, <2>2, <2>4, Zenon
<1> DEFINE c == [i \in 0 .. L |-> Place(k, i)]
           A == [i \in 0 .. L |-> [ok |-> TRUE, left |-> r[Place(k, i)], values |-> SubSeq(p, 1, Place(k, i))]]
<1>16. A[0] = [ok |-> TRUE, left |-> record, values |-> <<>>]
  <2>1. 0 \in 0 .. L /\ Place(k, 0) = 0
    BY <1>2, <1>3 DEF Place
  <2>2. SubSeq(p, 1, 0) = <<>>
    BY <1>4
  <2> QED BY <1>14, <2>1, <2>2, Zenon
<1>17. ASSUME NEW i \in 1 .. L
       PROVE  /\ columns[i].encoding = "eq" => A[i] = A[i - 1]
              /\ columns[i].encoding # "eq" => A[i] = DecodeColumn(A[i - 1], columns[i])
  <2>0. i \in 0 .. L /\ i - 1 \in 0 .. L
    BY <1>3
  <2>1. CASE i = k
    <3>1. Place(k, i) = Place(k, i - 1)
      BY <1>3, <2>1 DEF Place
    <3>2. columns[i].encoding = "eq"
      BY <1>2, <2>1, Zenon
    <3> QED BY <2>0, <3>1, <3>2, Zenon
  <2>2. CASE i # k
    <3> DEFINE m == Place(k, i - 1)
    <3>1. m \in Nat /\ m < L - 1 /\ Place(k, i) = m + 1 /\ m + 1 \in 1 .. L - 1
      BY <1>2, <1>3, <2>2 DEF Place
    <3> HIDE DEF m
    <3>2. columns[i].encoding # "eq"
      BY <1>2, <2>2, Zenon
    <3>3. r[m] = s[m + 1] \o r[m + 1] /\ r[m + 1] \in Seq(Byte)
      <4>1. m < Len(s) /\ m + 1 \in 0 .. Len(s)
        BY <1>15, <3>1
      <4> QED BY <1>13, <3>1, <4>1, Zenon DEF Follows
    <3>4. s[m + 1] = EncodeValue(values[i]) /\ p[m + 1] = values[i] /\ Encodable(values[i])
      BY <1>1, <1>4, <1>5, <1>15, <2>2, <3>1, Zenon
    <3>5. values[i] \in ValuesIn(columns[i].type)
      BY <1>1, Zenon
    <3>6. DecodeColumn([ok |-> TRUE, left |-> r[m], values |-> SubSeq(p, 1, m)], columns[i])
            = [ok |-> TRUE, left |-> r[m + 1], values |-> Append(SubSeq(p, 1, m), values[i])]
      <4>1. Joined(r[m], EncodeValue(values[i]), r[m + 1])
        BY <3>3, <3>4, Zenon DEF Joined
      <4>2. DecodesFrom(r[m], columns[i], values[i], r[m + 1])
        BY <3>3, <3>4, <3>5, <4>1, ColumnDecodes, Zenon
      <4> QED BY <4>2, Zenon DEF DecodesFrom
    <3>7. Append(SubSeq(p, 1, m), values[i]) = SubSeq(p, 1, m + 1)
      <4>1. m + 1 <= Len(p)
        BY <1>1, <1>4, <3>1
      <4>2. Append(SubSeq(p, 1, m), p[m + 1]) = SubSeq(p, 1, m + 1)
        BY <1>4, <3>1, <4>1
      <4> QED BY <3>4, <4>2, Zenon
    <3>8. A[i - 1] = [ok |-> TRUE, left |-> r[m], values |-> SubSeq(p, 1, m)]
      BY <2>0, Zenon DEF m
    <3>9. A[i] = [ok |-> TRUE, left |-> r[m + 1], values |-> SubSeq(p, 1, m + 1)]
      BY <2>0, <3>1, Zenon
    <3> HIDE DEF A
    <3> QED BY <3>2, <3>3, <3>4, <3>6, <3>7, <3>8, <3>9, Zenon
  <2> QED BY <2>1, <2>2, Zenon
<1>18. DecodeRecord(columns, record) = A[L]
  <2> HIDE DEF A
  <2> QED BY <1>1, <1>16, <1>17, <1>DecodesBy, Zenon
<1>19. A[L].ok /\ A[L].values = p
  <2>1. L \in 0 .. L /\ Place(k, L) = L - 1
    BY <1>2, <1>3 DEF Place
  <2>2. SubSeq(p, 1, L - 1) = p
    BY <1>1, <1>3, <1>4
  <2>3. A[L] = [ok |-> TRUE, left |-> r[L - 1], values |-> p]
    BY <2>1, <2>2, Zenon
  <2> HIDE DEF A
  <2> QED BY <2>3
<1> QED BY <1>12, <1>18, <1>19, Zenon DEF record, p

-----------------------------------------------------------------------------
(* Keys.                                                                   *)

\* A record for keys of some bits holds the keys.
LEMMA KeyBytes ==
  ASSUME NEW key_bits \in Nat \ {0}
  PROVE  /\ MatchRecordBytes(key_bits) \in Nat \ {0}
         /\ Pow2[key_bits] \in Nat \ {0} /\ Pow2[key_bits] <= Space(MatchRecordBytes(key_bits))
<1> DEFINE w == MatchRecordBytes(key_bits)
           b == ByteBits
<1>1. b \in Nat /\ b > 0
  BY WidthAssumption
<1>2. w = (key_bits + b - 1) \div b
  BY Zenon DEF MatchRecordBytes
<1> HIDE DEF b, w
<1>3. w \in Nat \ {0} /\ b * w >= key_bits
  <2> DEFINE n == key_bits + b - 1
  <2>1. n \in Nat /\ n >= b /\ key_bits = n - b + 1
    BY <1>1
  <2> HIDE DEF n
  <2>2. n \div b \in Nat /\ n % b \in 0 .. b - 1 /\ n % b = n - b * (n \div b)
    BY <1>1, <2>1
  <2>3. w = n \div b
    BY <1>2, Zenon DEF n
  <2>4. b * w \in Nat /\ n - b * w <= b - 1 /\ w \in Nat
    BY <1>1, <2>2, <2>3
  <2>5. b * w >= key_bits
    BY <1>1, <2>1, <2>4
  <2>6. w # 0
    <3>1. b * 0 = 0
      BY <1>1
    <3> QED BY <2>5, <3>1
  <2> QED BY <2>4, <2>5, <2>6
<1>4. b * w - key_bits \in Nat /\ key_bits + (b * w - key_bits) = b * w
  <2>1. b * w \in Nat
    BY <1>1, <1>3
  <2> QED BY <1>3, <2>1
<1>5. /\ Pow2[key_bits] \in Nat \ {0} /\ Pow2[b * w - key_bits] \in Nat \ {0}
      /\ Pow2[key_bits + (b * w - key_bits)] = Pow2[key_bits] * Pow2[b * w - key_bits]
  <2> DEFINE d == b * w - key_bits
  <2>1. d \in Nat
    BY <1>4
  <2> HIDE DEF d
  <2>2. /\ Pow2[key_bits] \in Nat \ {0} /\ Pow2[d] \in Nat \ {0}
        /\ Pow2[key_bits + d] = Pow2[key_bits] * Pow2[d]
    <3>1. key_bits \in Nat
      OBVIOUS
    <3> QED BY <2>1, <3>1, Pow2Sum, Zenon
  <2> QED BY <2>2, Zenon DEF d
<1>6. Space(w) = Pow2[b * w]
  BY Zenon DEF Space, b
<1>7. ASSUME NEW x \in Nat \ {0}, NEW y \in Nat \ {0} PROVE x <= x * y
  <2>1. y - 1 \in Nat /\ x * y = x + x * (y - 1)
    OBVIOUS
  <2>2. x * (y - 1) \in Nat
    BY <2>1
  <2> QED BY <2>1, <2>2
<1>8. Pow2[key_bits] <= Space(w)
  <2>1. Pow2[key_bits] <= Pow2[key_bits] * Pow2[b * w - key_bits]
    BY <1>5, <1>7, Zenon
  <2>2. Pow2[key_bits] * Pow2[b * w - key_bits] = Space(w)
    BY <1>4, <1>5, <1>6
  <2> QED BY <2>1, <2>2, Zenon
<1> QED BY <1>3, <1>5, <1>8, Zenon DEF w

\* How many of the first m columns are searched.
Searched(columns, m) == Cardinality({j \in 1 .. m : IsSearchable(columns[j])})

\* The key of every searched column is at its rank in the match record.
KeysAtRanks(columns, values, key_bits, record) ==
  \A i \in 1 .. Len(columns) :
    IsSearchable(columns[i]) =>
      Number(SubSeq(record, MatchRecordBytes(key_bits) * SearchableRank(columns, i) + 1,
                    MatchRecordBytes(key_bits) * SearchableRank(columns, i) + MatchRecordBytes(key_bits)))
        % Pow2[key_bits] = KeyValue(values[i], key_bits)

\* EncodeMatchRecord: the key of each searched column is at its rank.
LEMMA MatchRecordIs ==
  \A columns, values, k : \A key_bits \in Nat \ {0} : \A record :
    /\ RowTyped(columns, values)
    /\ Valid(columns)
    /\ KeyAt(columns, k)
    /\ KeysFit(columns, values[k], Without(values, k), key_bits)
    /\ record = EncodeMatchRecord(columns, values[k], Without(values, k), key_bits)
    => /\ record \in Seq(Byte)
       /\ Len(record) = SearchableCount(columns) * MatchRecordBytes(key_bits)
       /\ KeysAtRanks(columns, values, key_bits, record)
\* The key of a value that fits is below the number of keys.
<1>KeyBelow.
     \A type \in {"int", "text"} : \A v \in ValuesIn(type), key_bits \in Nat \ {0} :
       KeyFits(v, key_bits) =>
         KeyValue(v, key_bits) \in 0 .. Pow2[key_bits] - 1
  \* The number of any bytes.
  <2>NumberType.
       ASSUME NEW s \in Seq(Nat)
       PROVE  Number(s) \in Nat
    <3> USE <2>NumberType
    <3> DEFINE L == Len(s)
    <3>0. L \in Nat /\ Base \in Nat /\ \A i \in 1 .. L : s[i] \in Nat
      BY BaseIs
    <3>1. PICK F : /\ Number(s) = F[1] /\ F[Len(s) + 1] = 0
                   /\ \A i \in 1 .. Len(s) : F[i] = s[i] + Base * F[i + 1]
      BY NumberIs, Zenon
    <3> DEFINE Have == {m \in Nat : m <= L => F[L + 1 - m] \in Nat}
    <3>2. 0 \in Have
      <4>1. L + 1 - 0 = L + 1 /\ 0 \in Nat
        BY <3>0
      <4> QED BY <3>1, <4>1, Zenon
    <3> HIDE DEF L
    <3>3. ASSUME NEW m \in Nat, m \in Have PROVE m + 1 \in Have
      <4>1. ASSUME m + 1 <= L PROVE F[L + 1 - (m + 1)] \in Nat
        <5> DEFINE i == L + 1 - (m + 1)
        <5>1. i \in 1 .. L /\ i + 1 = L + 1 - m /\ m <= L
          BY <3>0, <4>1
        <5>2. F[i + 1] \in Nat
          BY <3>3, <5>1, Zenon
        <5> HIDE DEF i
        <5>3. F[i] = s[i] + Base * F[i + 1] /\ s[i] \in Nat
          BY <3>0, <3>1, <5>1, Zenon DEF L
        <5>4. F[i] \in Nat
          <6>1. \A a, c, d \in Nat : a + c * d \in Nat
            OBVIOUS
          <6>2. s[i] + Base * F[i + 1] \in Nat
            BY <3>0, <5>2, <5>3, <6>1, Zenon
          <6> QED BY <5>3, <6>2, Zenon
        <5> QED BY <5>4, Zenon DEF i
      <4>2. m + 1 \in Nat
        OBVIOUS
      <4> QED BY <4>1, <4>2, Zenon
    <3> HIDE DEF Have
    <3>4. L \in Have
      BY <3>0, <3>2, <3>3, SetInduction, Zenon
    <3>5. L <= L /\ L + 1 - L = 1
      BY <3>0
    <3>6. F[L + 1 - L] \in Nat
      BY <3>4, <3>5, Zenon DEF Have
    <3> QED BY <3>1, <3>5, <3>6, Zenon
  <2> SUFFICES ASSUME NEW type \in {"int", "text"}, NEW v \in ValuesIn(type), NEW key_bits \in Nat \ {0},
                      KeyFits(v, key_bits)
               PROVE  KeyValue(v, key_bits) \in 0 .. Pow2[key_bits] - 1
    OBVIOUS
  <2> DEFINE p == Pow2[key_bits]
             q == Space(IntBytes)
  <2>1. p \in Nat \ {0} /\ q \in Nat /\ q > 1 /\ q = Pow2[IntBits]
    BY KeyBytes, IntSpace, Zenon
  <2>2. CASE type = "int"
    <3>1. PICK x \in Int : -q <= 2 * x /\ 2 * x < q /\ v = [int |-> x]
      BY <2>2, Zenon DEF ValuesIn, IntValues
    <3>2. "int" \in DOMAIN v /\ v.int = x
      BY <3>1, Fields, Zenon
    <3>3. KeyValue(v, key_bits) = x % q
      BY <2>1, <3>2, Zenon DEF KeyValue
    <3>4. key_bits = IntBits \/ x \in 0 .. p - 1
      BY <3>2, Zenon DEF KeyFits
    <3> HIDE DEF p, q
    <3>5. x % q \in 0 .. q - 1
      BY <2>1, <3>1, Complement, Zenon
    <3>6. CASE key_bits = IntBits
      BY <2>1, <3>3, <3>5, <3>6, Zenon DEF p
    <3>7. CASE x \in 0 .. p - 1
      <4>1. x % q = x
        BY <2>1, <3>1, <3>7
      <4> QED BY <3>3, <3>7, <4>1, Zenon DEF p
    <3> QED BY <3>4, <3>6, <3>7, Zenon
  <2>3. CASE type = "text"
    <3>0. type # "int" /\ type # "real"
      BY <2>3
    <3>1. PICK t \in Seq(Byte) : v = [text |-> t]
      BY <3>0, Zenon DEF ValuesIn, TextValues
    <3>2. "int" \notin DOMAIN v /\ v.text = t
      BY <3>1, Fields
    <3>3. KeyValue(v, key_bits) = Number(t) % p
      BY <3>2, Zenon DEF KeyValue, TextHash
    <3>4. t \in Seq(Nat)
      <4>1. Byte \subseteq Nat
        BY BaseIs DEF Byte
      <4>2. t \in [1 .. Len(t) -> Byte] /\ Len(t) \in Nat
        <5> HIDE DEF Byte
        <5> QED OBVIOUS
      <4>3. t \in [1 .. Len(t) -> Nat]
        BY <4>1, <4>2, Zenon
      <4> QED BY <4>2, <4>3, FunctionIsSeq, Zenon
    <3>5. Number(t) \in Nat
      BY <3>4, <2>NumberType, Zenon
    <3> HIDE DEF p, q
    <3>6. Number(t) % p \in 0 .. p - 1
      BY <2>1, <3>5
    <3> QED BY <3>3, <3>6, Zenon DEF p
  <2> QED BY <2>2, <2>3, Zenon
\* A key is read back from the bytes of its record.
<1>KeyReads.
     ASSUME NEW key_bits \in Nat \ {0}, NEW n \in 0 .. Pow2[key_bits] - 1
     PROVE  /\ Digits(n, MatchRecordBytes(key_bits)) \in Seq(Byte)
            /\ Len(Digits(n, MatchRecordBytes(key_bits))) = MatchRecordBytes(key_bits)
            /\ Number(Digits(n, MatchRecordBytes(key_bits))) % Pow2[key_bits] = n
  <2> USE <1>KeyReads
  <2> DEFINE w == MatchRecordBytes(key_bits)
             p == Pow2[key_bits]
  <2>1. w \in Nat /\ p \in Nat \ {0} /\ p <= Space(w) /\ Space(w) \in Nat
    <3>1. w \in Nat \ {0} /\ p \in Nat \ {0} /\ p <= Space(w)
      BY KeyBytes, Zenon
    <3> HIDE DEF w
    <3>2. Space(w) \in Nat \ {0}
      BY <3>1, SpaceIs
    <3> QED BY <3>1, <3>2
  <2> HIDE DEF w, p
  <2>2. n \in Nat /\ n \in 0 .. Space(w) - 1 /\ n % p = n
    <3>1. n \in 0 .. p - 1
      BY Zenon DEF p
    <3> QED BY <2>1, <3>1
  <2>3. Digits(n, w) \in Seq(Byte) /\ Len(Digits(n, w)) = w
    BY <2>1, <2>2, DigitsType, Zenon DEF Byte
  <2>4. Number(Digits(n, w)) = n
    BY <2>1, <2>2, NumberOfDigits, Zenon
  <2> QED BY <2>2, <2>3, <2>4, Zenon DEF w, p
\* A column's value is found in the key and the payload.
<1>ValueIs.
     ASSUME NEW columns, NEW values, RowTyped(columns, values), NEW k, KeyAt(columns, k),
            NEW i \in 1 .. Len(columns)
     PROVE  ValueOf(columns, values[k], Without(values, k), i) = values[i]
  <2> USE <1>ValueIs
  <2> DEFINE L == Len(columns)
             S == {j \in 1 .. i : columns[j].encoding # "eq"}
  <2>1. columns \in Seq(Column) /\ values \in Seq(UNION {ValuesIn(t) : t \in Types}) /\ Len(values) = L
    BY Zenon DEF RowTyped
  <2>2. k \in 1 .. L /\ \A j \in 1 .. L : columns[j].encoding = "eq" <=> j = k
    BY Zenon DEF KeyAt
  <2>3. L \in Nat
    BY <2>1
  <2>4. CASE i = k
    BY <2>2, <2>4, Zenon DEF ValueOf
  <2>5. CASE i # k
    <3>1. k \in 1 .. Len(values) /\ i \in 1 .. Len(values)
      BY <2>1, <2>2, Zenon
    <3>2. Without(values, k)[Place(k, i)] = values[i]
      BY <2>1, <2>5, <3>1, WithoutIs, Zenon
    <3>3. \A j \in 1 .. i : j \in 1 .. L
      BY <2>3
    <3>4. S = (1 .. i) \ {k}
      BY <2>2, <3>3, Zenon
    <3>5. 1 \in Int /\ i \in Int /\ ~ (1 > i) /\ i - 1 + 1 = i
      BY <2>3
    <3>6. IsFiniteSet(1 .. i) /\ Cardinality(1 .. i) = i
      <4>1. IsFiniteSet(1 .. i) /\ Cardinality(1 .. i) = IF 1 > i THEN 0 ELSE i - 1 + 1
        BY <3>5, FS_Interval, Zenon
      <4> QED BY <3>5, <4>1, Zenon
    <3>7. Cardinality((1 .. i) \ {k}) = IF k \in 1 .. i THEN Cardinality(1 .. i) - 1 ELSE Cardinality(1 .. i)
      BY <3>6, FS_RemoveElement, Zenon
    <3>8. Cardinality(S) = Place(k, i)
      <4>1. k \in 1 .. i <=> ~ (i < k)
        BY <2>2, <2>3
      <4> HIDE DEF S
      <4> QED BY <3>4, <3>6, <3>7, <4>1, Zenon DEF Place
    <3>9. columns[i].encoding # "eq"
      BY <2>2, <2>5, Zenon
    <3>10. ValueOf(columns, values[k], Without(values, k), i) = Without(values, k)[Cardinality(S)]
      BY <3>9, Zenon DEF ValueOf
    <3> HIDE DEF S
    <3> QED BY <3>2, <3>8, <3>10, Zenon
  <2> QED BY <2>4, <2>5, Zenon
\* SearchableRank counts the searched columns before, one by one.
<1>SearchedIs.
     ASSUME NEW columns \in Seq(Column)
     PROVE  /\ Searched(columns, 0) = 0 /\ Searched(columns, Len(columns)) = SearchableCount(columns)
            /\ \A i \in 1 .. Len(columns) : SearchableRank(columns, i) = Searched(columns, i - 1)
            /\ \A m \in Nat : /\ Searched(columns, m) \in Nat
                              /\ Searched(columns, m + 1)
                                   = Searched(columns, m) + (IF IsSearchable(columns[m + 1]) THEN 1 ELSE 0)
  <2> USE <1>SearchedIs
  <2> DEFINE S(m) == {j \in 1 .. m : IsSearchable(columns[j])}
  <2>1. ASSUME NEW m \in Nat PROVE IsFiniteSet(S(m)) /\ Cardinality(S(m)) \in Nat
    <3>1. IsFiniteSet(1 .. m)
      BY FS_Interval
    <3>2. S(m) \subseteq 1 .. m
      BY Zenon
    <3>3. IsFiniteSet(S(m))
      BY <3>1, <3>2, FS_Subset, Zenon
    <3> HIDE DEF S
    <3> QED BY <3>3, FS_CardinalityType, Zenon
  <2>2. Searched(columns, 0) = 0
    <3>1. S(0) = {}
      OBVIOUS
    <3>2. Cardinality({}) = 0
      BY FS_EmptySet
    <3> QED BY <3>1, <3>2, Zenon DEF Searched
  <2>3. Searched(columns, Len(columns)) = SearchableCount(columns)
    <3>1. DOMAIN columns = 1 .. Len(columns)
      OBVIOUS
    <3> QED BY <3>1, Zenon DEF Searched, SearchableCount
  <2>4. \A i \in 1 .. Len(columns) : SearchableRank(columns, i) = Searched(columns, i - 1)
    BY Zenon DEF Searched, SearchableRank
  <2>5. ASSUME NEW m \in Nat
        PROVE  Searched(columns, m + 1)
                 = Searched(columns, m) + (IF IsSearchable(columns[m + 1]) THEN 1 ELSE 0)
    <3>0. \A j : j \in 1 .. m + 1 <=> j \in 1 .. m \/ j = m + 1
      OBVIOUS
    <3>1. m + 1 \notin 1 .. m
      OBVIOUS
    <3>2. CASE IsSearchable(columns[m + 1])
      <4>1. S(m + 1) = S(m) \cup {m + 1}
        BY <3>0, <3>2, Zenon
      <4>2. m + 1 \notin S(m)
        BY <3>1, Zenon
      <4> HIDE DEF S
      <4>3. Cardinality(S(m) \cup {m + 1}) = Cardinality(S(m)) + 1
        BY <2>1, <4>2, FS_AddElement, Zenon
      <4> QED BY <3>2, <4>1, <4>3, Zenon DEF Searched, S
    <3>3. CASE ~ IsSearchable(columns[m + 1])
      <4>1. S(m + 1) = S(m)
        BY <3>0, <3>3, Zenon
      <4> HIDE DEF S
      <4>2. Cardinality(S(m)) + 0 = Cardinality(S(m))
        BY <2>1
      <4> QED BY <3>3, <4>1, <4>2, Zenon DEF Searched, S
    <3> QED BY <3>2, <3>3, Zenon
  <2> HIDE DEF S
  <2> QED BY <2>1, <2>2, <2>3, <2>4, <2>5, Zenon DEF Searched, S
<1> SUFFICES ASSUME NEW columns, NEW values, RowTyped(columns, values), Valid(columns), NEW k, KeyAt(columns, k),
                    NEW key_bits \in Nat \ {0}, KeysFit(columns, values[k], Without(values, k), key_bits),
                    NEW record, record = EncodeMatchRecord(columns, values[k], Without(values, k), key_bits)
             PROVE  /\ record \in Seq(Byte)
                    /\ Len(record) = SearchableCount(columns) * MatchRecordBytes(key_bits)
                    /\ KeysAtRanks(columns, values, key_bits, record)
  OBVIOUS
<1> DEFINE L == Len(columns)
           w == MatchRecordBytes(key_bits)
           key(i) == Digits(KeyValue(values[i], key_bits), w)
           s == [i \in 1 .. L |-> IF IsSearchable(columns[i]) THEN key(i) ELSE <<>>]
           off == [m \in 0 .. L |-> w * Searched(columns, m)]
<1>1. /\ columns \in Seq(Column) /\ Len(values) = L
      /\ \A i \in 1 .. L : values[i] \in ValuesIn(columns[i].type)
  BY Zenon DEF RowTyped
<1>2. L \in Nat /\ DOMAIN columns = 1 .. L
  BY <1>1
<1>3. w \in Nat
  BY KeyBytes
<1>4. record = Concat(s)
  <2>1. \A i \in 1 .. L : MatchValue(columns, values[k], Without(values, k), i) = values[i]
    BY <1>ValueIs, Zenon DEF MatchValue
  <2>2. EncodeMatchRecord(columns, values[k], Without(values, k), key_bits)
          = Concat([i \in 1 .. L |->
              IF IsSearchable(columns[i])
                THEN Digits(KeyValue(MatchValue(columns, values[k], Without(values, k), i), key_bits), w)
                ELSE <<>>])
    BY <1>2, Zenon DEF EncodeMatchRecord
  <2>3. [i \in 1 .. L |->
              IF IsSearchable(columns[i])
                THEN Digits(KeyValue(MatchValue(columns, values[k], Without(values, k), i), key_bits), w)
                ELSE <<>>] = s
    BY <2>1, Zenon
  <2> HIDE DEF s
  <2> QED BY <2>2, <2>3, Zenon
<1>5. ASSUME NEW i \in 1 .. L, IsSearchable(columns[i])
      PROVE  key(i) \in Seq(Byte) /\ Len(key(i)) = w
             /\ Number(key(i)) % Pow2[key_bits] = KeyValue(values[i], key_bits)
  <2>1. columns[i].type \in {"int", "text"}
    <3>1. columns[i].type \notin {"real", "json"}
      BY <1>2, <1>5, Zenon DEF Valid
    <3>2. columns[i].type \in Types
      <4>1. columns[i] \in Column
        BY <1>1, <1>2
      <4> QED BY <4>1, Zenon DEF Column
    <3> QED BY <3>1, <3>2 DEF Types
  <2>2. KeyFits(values[i], key_bits)
    BY <1>2, <1>5, <1>ValueIs, Zenon DEF KeysFit
  <2>3. KeyValue(values[i], key_bits) \in 0 .. Pow2[key_bits] - 1
    BY <1>1, <2>1, <2>2, <1>KeyBelow, Zenon
  <2> QED BY <2>3, <1>KeyReads, Zenon
<1> HIDE DEF key, w, L
<1>6. s \in Seq(Seq(Byte)) /\ Len(s) = L
  <2>1. <<>> \in Seq(Byte)
    OBVIOUS
  <2>2. s \in [1 .. L -> Seq(Byte)]
    BY <1>5, <2>1, Zenon
  <2> HIDE DEF s
  <2> QED BY <1>2, <2>2, FunctionIsSeq, Zenon
<1>7. ASSUME NEW m \in Nat PROVE w * Searched(columns, m) \in Nat
  <2>1. Searched(columns, m) \in Nat
    BY <1>1, <1>SearchedIs, Zenon
  <2>2. \A x, y \in Nat : x * y \in Nat
    OBVIOUS
  <2> QED BY <1>3, <2>1, <2>2, Zenon
<1>8. Offsets(off, s)
  <2>1. off \in [0 .. L -> Nat]
    <3>1. \A m \in 0 .. L : m \in Nat
      OBVIOUS
    <3> QED BY <1>7, <3>1, Zenon
  <2>2. off[0] = 0
    <3>1. 0 \in 0 .. L /\ w * 0 = 0
      BY <1>2, <1>3
    <3> QED BY <1>1, <3>1, <1>SearchedIs, Zenon
  <2>3. ASSUME NEW m \in Nat, m < L PROVE off[m + 1] = off[m] + Len(s[m + 1])
    <3>1. m \in 0 .. L /\ m + 1 \in 0 .. L /\ m + 1 \in 1 .. L
      BY <1>2, <2>3
    <3>2. off[m + 1] = w * Searched(columns, m + 1) /\ off[m] = w * Searched(columns, m)
      BY <3>1, Zenon
    <3>3. Len(s[m + 1]) = IF IsSearchable(columns[m + 1]) THEN w ELSE 0
      <4>1. Len(<<>>) = 0
        OBVIOUS
      <4>2. s[m + 1] = IF IsSearchable(columns[m + 1]) THEN key(m + 1) ELSE <<>>
        BY <3>1, Zenon
      <4>3. IsSearchable(columns[m + 1]) => Len(key(m + 1)) = w
        BY <1>5, <3>1, Zenon
      <4> HIDE DEF s
      <4>4. CASE IsSearchable(columns[m + 1])
        BY <4>2, <4>3, <4>4, Zenon
      <4>5. CASE ~ IsSearchable(columns[m + 1])
        <5>1. s[m + 1] = <<>>
          BY <4>2, <4>5, Zenon
        <5>2. Len(s[m + 1]) = 0
          BY <5>1
        <5> QED BY <4>5, <5>2, Zenon
      <4> QED BY <4>4, <4>5, Zenon
    <3> DEFINE x == Searched(columns, m)
    <3>4. x \in Nat /\ Searched(columns, m + 1) = x + (IF IsSearchable(columns[m + 1]) THEN 1 ELSE 0)
      BY <1>1, <1>SearchedIs, Zenon
    <3> HIDE DEF x
    <3>5. w * (x + 1) = w * x + w /\ w * (x + 0) = w * x + 0
      BY <1>3, <3>4
    <3>6. w * Searched(columns, m + 1) = w * x + Len(s[m + 1])
      <4> HIDE DEF s
      <4>1. CASE IsSearchable(columns[m + 1])
        BY <3>3, <3>4, <3>5, <4>1, Zenon
      <4>2. CASE ~ IsSearchable(columns[m + 1])
        BY <3>3, <3>4, <3>5, <4>2, Zenon
      <4> QED BY <4>1, <4>2, Zenon
    <3> QED BY <3>2, <3>6, Zenon DEF x
  <2> HIDE DEF off, s
  <2> QED BY <1>6, <2>1, <2>2, <2>3, Zenon DEF Offsets
<1>9. /\ Concat(s) \in Seq(Byte) /\ Len(Concat(s)) = off[Len(s)]
      /\ \A m \in Nat : m < Len(s) => SubSeq(Concat(s), off[m] + 1, off[m + 1]) = s[m + 1]
  <2> HIDE DEF off, s
  <2> QED BY <1>6, <1>8, PiecesAt, ZenonT(40)
<1>10. Len(record) = SearchableCount(columns) * w
  <2>1. L \in 0 .. L
    BY <1>2
  <2>2. off[L] = w * SearchableCount(columns)
    BY <1>1, <2>1, <1>SearchedIs, Zenon DEF L
  <2>3. SearchableCount(columns) \in Nat
    BY <1>1, <1>2, <1>SearchedIs, Zenon DEF L
  <2>4. w * SearchableCount(columns) = SearchableCount(columns) * w
    BY <1>3, <2>3
  <2> HIDE DEF off, s
  <2> QED BY <1>4, <1>6, <1>9, <2>2, <2>4, Zenon
<1>11. ASSUME NEW i \in 1 .. L, IsSearchable(columns[i])
       PROVE  SubSeq(record, w * SearchableRank(columns, i) + 1, w * SearchableRank(columns, i) + w) = key(i)
  <2> DEFINE m == i - 1
  <2>1. m \in Nat /\ m < L /\ m \in 0 .. L /\ i \in 0 .. L /\ m + 1 = i
    BY <1>2
  <2>2. SearchableRank(columns, i) = Searched(columns, m)
    BY <1>1, <1>SearchedIs, Zenon DEF L
  <2> HIDE DEF m
  <2>3. off[m] = w * Searched(columns, m) /\ off[i] = off[m] + Len(s[i]) /\ s[i] = key(i)
    <3>1. off[m] = w * Searched(columns, m)
      BY <2>1, Zenon
    <3>2. s[i] = key(i)
      BY <1>11, Zenon
    <3> HIDE DEF off, s
    <3>3. off[m + 1] = off[m] + Len(s[m + 1])
      BY <1>6, <1>8, <2>1, Zenon DEF Offsets
    <3> QED BY <2>1, <3>1, <3>2, <3>3, Zenon
  <2> HIDE DEF off, s
  <2>4. SubSeq(Concat(s), off[m] + 1, off[m + 1]) = s[m + 1]
    BY <1>6, <1>9, <2>1, Zenon
  <2>5. Len(key(i)) = w
    BY <1>5, <1>11, Zenon
  <2> QED BY <1>4, <2>1, <2>2, <2>3, <2>4, <2>5, Zenon
<1>12. KeysAtRanks(columns, values, key_bits, record)
  <2> HIDE DEF off, s
  <2> QED BY <1>5, <1>11, Zenon DEF KeysAtRanks, L, w
<1> HIDE DEF off, s
<1> QED BY <1>4, <1>9, <1>10, <1>12, Zenon DEF w

-----------------------------------------------------------------------------
(* Checksums.                                                              *)

Sums == 0 .. Base

\* One step of the checksum.
CrcStep(c, b) == (c + b + 1) % (Base + 1)

\* f is the checksum of each beginning of the bytes.
CrcOf(f, bytes) ==
  /\ f \in [0 .. Len(bytes) -> Sums] /\ f[0] = 0 /\ Crc(bytes) = f[Len(bytes)]
  /\ \A m \in Nat : m < Len(bytes) => f[m + 1] = CrcStep(f[m], bytes[m + 1])

\* Bytes that differ in one place have different checksums (Crc32).
LEMMA CrcDiffers ==
  \A bytes \in Seq(Byte), other \in Seq(Byte) : \A d \in 1 .. Len(bytes) :
    /\ Len(other) = Len(bytes)
    /\ other[d] # bytes[d]
    /\ (\A i \in 1 .. Len(bytes) : i # d => other[i] = bytes[i])
    => Crc(other) # Crc(bytes)
\* A step of the checksum keeps sums apart, and bytes.
<1>CrcStepIs.
     ASSUME NEW c \in Sums, NEW b \in Byte
     PROVE  /\ CrcStep(c, b) \in Sums
            /\ \A d \in Sums : d # c => CrcStep(d, b) # CrcStep(c, b)
            /\ \A e \in Byte : e # b => CrcStep(c, e) # CrcStep(c, b)
  <2> USE <1>CrcStepIs
  <2> DEFINE p == Base + 1
             wrap(n) == IF n < p THEN n ELSE n - p
  <2>0. Base \in Nat /\ p \in Nat /\ p > 1
    BY BaseIs
  <2>1. \A n \in Nat : n < 2 * p => n % p = wrap(n)
    <3> SUFFICES ASSUME NEW n \in Nat, n < 2 * p PROVE n % p = wrap(n)
      OBVIOUS
    <3> HIDE DEF p
    <3>1. CASE n < p
      BY <2>0, <3>1
    <3>2. CASE ~ (n < p)
      BY <2>0, <3>2
    <3> QED BY <3>1, <3>2
  <2>2. \A x \in Sums, y \in Byte : x + y + 1 \in Nat /\ x + y + 1 < 2 * p
    BY <2>0 DEF Sums, Byte
  <2>3. \A x \in Sums, y \in Byte : CrcStep(x, y) = wrap(x + y + 1)
    BY <2>1, <2>2, Zenon DEF CrcStep
  <2>4. CrcStep(c, b) \in Sums
    BY <2>0, <2>3 DEF Sums, Byte
  <2>5. ASSUME NEW d \in Sums, d # c PROVE CrcStep(d, b) # CrcStep(c, b)
    BY <2>0, <2>3, <2>5 DEF Sums, Byte
  <2>6. ASSUME NEW e \in Byte, e # b PROVE CrcStep(c, e) # CrcStep(c, b)
    BY <2>0, <2>3, <2>6 DEF Sums, Byte
  <2> QED BY <2>4, <2>5, <2>6, Zenon
\* The checksum is made of such steps.
<1>CrcIs.
     ASSUME NEW bytes \in Seq(Byte)
     PROVE  \E f : CrcOf(f, bytes)
  <2> USE <1>CrcIs
  <2> DEFINE L == Len(bytes)
             Value(F, i) == IF i = 0 THEN 0 ELSE (F[i - 1] + bytes[i] + 1) % (Base + 1)
             Body(F) == [i \in 0 .. L |-> Value(F, i)]
             G == [n \in Nat |-> [y \in Sums |-> IF n < L THEN CrcStep(y, bytes[n + 1]) ELSE 0]]
  <2>0. L \in Nat /\ \A i \in 1 .. L : bytes[i] \in Byte
    OBVIOUS
  <2>a. 0 \in Sums
    BY BaseIs DEF Sums
  <2> HIDE DEF L
  <2>b. ASSUME NEW n \in Nat, n < L PROVE n + 1 \in 1 .. L /\ bytes[n + 1] \in Byte
    <3>1. n + 1 \in 1 .. L
      BY <2>0, <2>b
    <3> QED BY <2>0, <3>1, Zenon
  <2>1. G \in [Nat -> [Sums -> Sums]]
    <3>1. ASSUME NEW n \in Nat, NEW y \in Sums
          PROVE  (IF n < L THEN CrcStep(y, bytes[n + 1]) ELSE 0) \in Sums
      BY <2>a, <2>b, <1>CrcStepIs, Zenon
    <3> QED BY <3>1, Zenon
  <2>2. \A n \in Nat, y \in Sums : n < L => G[n][y] = CrcStep(y, bytes[n + 1])
    BY Zenon
  <2> HIDE DEF G
  <2>3. PICK r : Recurs(r, Sums, 0, G)
    BY <2>a, <2>1, Recursion, Zenon
  <2> DEFINE H == [i \in 0 .. L |-> r[i]]
  <2>4. H = Body(H)
    <3>1. ASSUME NEW i \in 0 .. L PROVE H[i] = Value(H, i)
      <4>1. H[i] = r[i]
        BY Zenon
      <4>2. CASE i = 0
        <5>1. H[i] = 0
          BY <2>3, <4>1, <4>2, Zenon DEF Recurs
        <5> HIDE DEF H
        <5> QED BY <4>2, <5>1, Zenon
      <4>3. CASE i # 0
        <5> DEFINE n == i - 1
        <5>1. n \in Nat /\ n \in 0 .. L /\ n < L /\ n + 1 = i
          BY <2>0, <4>3
        <5>2. H[n] = r[n]
          BY <5>1, Zenon
        <5> HIDE DEF n
        <5>3. r[n + 1] = G[n][r[n]] /\ r[n] \in Sums
          BY <2>3, <5>1, Zenon DEF Recurs
        <5>4. G[n][r[n]] = CrcStep(r[n], bytes[n + 1])
          BY <2>2, <5>1, <5>3, Zenon
        <5>5. H[i] = CrcStep(H[n], bytes[i])
          BY <4>1, <5>1, <5>2, <5>3, <5>4, Zenon
        <5> HIDE DEF H
        <5> QED BY <4>3, <5>5, Zenon DEF n, CrcStep
      <4> QED BY <4>2, <4>3, Zenon
    <3> HIDE DEF Value
    <3> QED BY <3>1, Zenon
  <2> DEFINE F == CHOOSE f : f = Body(f)
  <2>5. Crc(bytes) = F[L]
    BY Zenon DEF Crc, L
  <2> HIDE DEF H, Body
  <2>6. F = Body(F)
    BY <2>4, Zenon
  <2> HIDE DEF F
  <2>7. F = [i \in 0 .. L |-> F[i]] /\ \A i \in 0 .. L : F[i] = Value(F, i)
    BY <2>6, Zenon DEF Body
  <2>8. F[0] = 0
    <3>1. 0 \in 0 .. L
      BY <2>0
    <3> QED BY <2>7, <3>1, Zenon
  <2>9. ASSUME NEW m \in Nat, m < L PROVE F[m + 1] = CrcStep(F[m], bytes[m + 1])
    <3> DEFINE i == m + 1
    <3>1. i \in 0 .. L /\ i # 0 /\ i - 1 = m
      BY <2>0, <2>9
    <3> HIDE DEF i
    <3>2. F[i] = CrcStep(F[m], bytes[i])
      BY <2>7, <3>1, Zenon DEF CrcStep
    <3> QED BY <3>2, Zenon DEF i
  <2> DEFINE Have == {m \in Nat : m <= L => F[m] \in Sums}
  <2>10. 0 \in Have
    <3>1. 0 \in Nat
      OBVIOUS
    <3> QED BY <2>8, <2>a, <3>1, Zenon
  <2>11. ASSUME NEW m \in Nat, m \in Have PROVE m + 1 \in Have
    <3>1. ASSUME m + 1 <= L PROVE F[m + 1] \in Sums
      <4>1. m < L /\ m <= L
        BY <2>0, <3>1
      <4> QED BY <2>9, <2>11, <2>b, <4>1, <1>CrcStepIs, Zenon
    <3>2. m + 1 \in Nat
      OBVIOUS
    <3> QED BY <3>1, <3>2, Zenon
  <2> HIDE DEF Have
  <2>12. \A m \in Nat : m \in Have
    BY <2>10, <2>11, SetInduction, Zenon
  <2>13. F \in [0 .. L -> Sums]
    <3>1. \A i \in 0 .. L : i \in Nat /\ i <= L
      BY <2>0
    <3>2. \A i \in 0 .. L : F[i] \in Sums
      BY <2>12, <3>1, Zenon DEF Have
    <3>3. F = [i \in 0 .. L |-> F[i]]
      BY <2>7, Zenon
    <3> QED BY <3>2, <3>3, Zenon
  <2>14. CrcOf(F, bytes)
    BY <2>5, <2>8, <2>9, <2>13, Zenon DEF CrcOf, L
  <2> QED BY <2>14, Zenon
<1> SUFFICES ASSUME NEW bytes \in Seq(Byte), NEW other \in Seq(Byte), Len(other) = Len(bytes),
                    NEW d \in 1 .. Len(bytes), other[d] # bytes[d],
                    \A i \in 1 .. Len(bytes) : i # d => other[i] = bytes[i]
             PROVE  Crc(other) # Crc(bytes)
  OBVIOUS
<1> DEFINE L == Len(bytes)
<1>0. L \in Nat /\ d \in Nat /\ d <= L /\ \A i \in 1 .. L : bytes[i] \in Byte /\ other[i] \in Byte
  OBVIOUS
<1>1. PICK f : CrcOf(f, bytes)
  BY <1>CrcIs, Zenon
<1>2. PICK g : CrcOf(g, other)
  BY <1>CrcIs, Zenon
<1> HIDE DEF L
<1> DEFINE Have == {m \in Nat : m <= L => (m < d => g[m] = f[m]) /\ (~ (m < d) => g[m] # f[m])}
<1>3. 0 \in Have
  <2>1. 0 \in Nat /\ 0 < d
    BY <1>0
  <2>2. g[0] = f[0]
    BY <1>1, <1>2, Zenon DEF CrcOf
  <2> QED BY <2>1, <2>2, Zenon
<1>4. ASSUME NEW m \in Nat, m \in Have PROVE m + 1 \in Have
  <2>1. ASSUME m + 1 <= L PROVE (m + 1 < d => g[m + 1] = f[m + 1]) /\ (~ (m + 1 < d) => g[m + 1] # f[m + 1])
    <3>1. m < L /\ m <= L /\ m + 1 \in 1 .. L /\ m \in 0 .. L
      BY <1>0, <2>1
    <3>2. (m < d => g[m] = f[m]) /\ (~ (m < d) => g[m] # f[m])
      BY <1>4, <3>1, Zenon
    <3>3. /\ f[m + 1] = CrcStep(f[m], bytes[m + 1]) /\ f[m] \in Sums
          /\ g[m + 1] = CrcStep(g[m], other[m + 1]) /\ g[m] \in Sums
      BY <1>1, <1>2, <3>1, Zenon DEF CrcOf, L
    <3>4. bytes[m + 1] \in Byte /\ other[m + 1] \in Byte
      BY <1>0, <3>1, Zenon
    <3>5. CASE m + 1 = d
      <4>1. m < d /\ ~ (m + 1 < d)
        BY <1>0, <3>5
      <4>2. g[m] = f[m] /\ other[m + 1] # bytes[m + 1]
        BY <3>2, <3>5, <4>1, Zenon
      <4> QED BY <3>3, <3>4, <4>1, <4>2, <1>CrcStepIs, Zenon
    <3>6. CASE m + 1 # d
      <4>1. m < d <=> m + 1 < d
        BY <1>0, <3>6
      <4>2. other[m + 1] = bytes[m + 1]
        BY <3>1, <3>6, Zenon DEF L
      <4> QED BY <3>2, <3>3, <3>4, <4>1, <4>2, <1>CrcStepIs, Zenon
    <3> QED BY <3>5, <3>6, Zenon
  <2>2. m + 1 \in Nat
    OBVIOUS
  <2> QED BY <2>1, <2>2, Zenon
<1> HIDE DEF Have
<1>5. L \in Have
  BY <1>0, <1>3, <1>4, SetInduction, Zenon
<1>6. L <= L /\ ~ (L < d)
  BY <1>0
<1>7. g[L] # f[L]
  BY <1>5, <1>6, Zenon DEF Have
<1> QED BY <1>1, <1>2, <1>7, Zenon DEF CrcOf, L

-----------------------------------------------------------------------------
(* Segments.                                                               *)

\* Records that all have the segment's size.
Sized(size, records) ==
  /\ size \in Nat \ {0} /\ records \in Seq(Seq(Byte))
  /\ \A i \in 1 .. Len(records) : Len(records[i]) = size

\* What SegmentReader::Open has checked.
Checked(file, size, count, crc) ==
  /\ Len(file.header) = 5
  /\ file.header[3] = size
  /\ count # 0 => file.header[4] = count
  /\ file.header[4] * size <= Len(file.region)
  /\ Crc(SubSeq(file.region, 1, file.header[4] * size)) = file.header[5]

\* The records that the header declares are those written.
Intact(file, size, count, region) ==
  /\ file.header[3] = size /\ file.header[4] = count
  /\ \A i \in 1 .. count :
       SubSeq(file.region, (i - 1) * size + 1, i * size) = SubSeq(region, (i - 1) * size + 1, i * size)

\* The kinds of damage.
Damaged(file, h, r) ==
  \/ \E i \in 0 .. Len(h) - 1 : file.header = SubSeq(h, 1, i)
  \/ \E i \in 0 .. Len(r) - 1 : file.header = h /\ file.region = SubSeq(r, 1, i)
  \/ \E b \in Byte : file.header = h /\ file.region = Append(r, b)
  \/ \E i \in DOMAIN h : \E v \in 0 .. 12 : file.header = [h EXCEPT ![i] = v] /\ file.region = r
  \/ \E i \in DOMAIN r : \E v \in Byte : file.header = h /\ file.region = [r EXCEPT ![i] = v]

\* A segment that opens has the records that were written.
LEMMA SegmentSurvives ==
  \A size, records, w, file :
    /\ Sized(size, records)
    /\ w = WriteSegment(size, records)
    /\ (file = w \/ file \in Damages(w))
    /\ SegmentOpens(file, Descriptor(w))
    => SegmentRecords(file) = records
\* The records are read from the file that was written.
<1>SegmentIs.
     ASSUME NEW size, NEW records, Sized(size, records)
     PROVE  /\ Concat(records) \in Seq(Byte) /\ Len(Concat(records)) = Len(records) * size
            /\ records = [i \in 1 .. Len(records) |->
                            SubSeq(Concat(records), (i - 1) * size + 1, i * size)]
  <2> USE <1>SegmentIs
  <2> DEFINE L == Len(records)
             off == [m \in 0 .. L |-> m * size]
             whole == Concat(records)
  <2>0. /\ size \in Nat /\ records \in Seq(Seq(Byte)) /\ L \in Nat
        /\ \A i \in 1 .. L : Len(records[i]) = size
    BY DEF Sized
  <2>1. records = [i \in 1 .. L |-> records[i]]
    BY <2>0
  <2> HIDE DEF L
  <2>2. Offsets(off, records)
    <3>1. off \in [0 .. L -> Nat]
      <4>1. \A m \in 0 .. L : m * size \in Nat
        BY <2>0
      <4> QED BY <4>1, Zenon
    <3>2. off[0] = 0
      <4>1. 0 \in 0 .. L /\ 0 * size = 0
        BY <2>0
      <4> QED BY <4>1, Zenon
    <3>3. ASSUME NEW m \in Nat, m < L PROVE off[m + 1] = off[m] + Len(records[m + 1])
      <4>1. m \in 0 .. L /\ m + 1 \in 0 .. L /\ m + 1 \in 1 .. L /\ (m + 1) * size = m * size + size
        BY <2>0, <3>3
      <4> QED BY <2>0, <4>1, Zenon
    <3> HIDE DEF off
    <3> QED BY <3>1, <3>2, <3>3, Zenon DEF Offsets, L
  <2>3. \A m \in 0 .. L : off[m] = m * size
    BY Zenon
  <2> HIDE DEF off, whole
  <2>4. /\ whole \in Seq(Byte) /\ Len(whole) = off[L]
        /\ \A m \in Nat : m < L => SubSeq(whole, off[m] + 1, off[m + 1]) = records[m + 1]
    BY <2>0, <2>2, PiecesAt, Zenon DEF whole, L
  <2>5. Len(whole) = L * size
    <3>1. L \in 0 .. L
      BY <2>0
    <3> QED BY <2>3, <2>4, <3>1, Zenon
  <2>6. ASSUME NEW i \in 1 .. L PROVE records[i] = SubSeq(whole, (i - 1) * size + 1, i * size)
    <3> DEFINE m == i - 1
    <3>1. m \in Nat /\ m < L /\ m \in 0 .. L /\ i \in 0 .. L /\ m + 1 = i
      BY <2>0
    <3>2. off[m] = (i - 1) * size
      BY <2>3, <3>1, Zenon
    <3> HIDE DEF m
    <3> QED BY <2>3, <2>4, <3>1, <3>2, Zenon
  <2>7. [i \in 1 .. L |-> records[i]] = [i \in 1 .. L |-> SubSeq(whole, (i - 1) * size + 1, i * size)]
    BY <2>6, Zenon
  <2> QED BY <2>1, <2>4, <2>5, <2>7, Zenon DEF whole, L
\* The file of some records.
<1>WrittenIs.
     ASSUME NEW size, NEW records, NEW w, w = WriteSegment(size, records)
     PROVE  /\ w.header = <<1, 1, size, Len(records), Crc(Concat(records))>>
            /\ w.region = Concat(records)
            /\ Descriptor(w) = [record_bytes |-> size, record_count |-> Len(records),
                                crc32 |-> Crc(Concat(records))]
  <2> USE <1>WrittenIs
  <2> DEFINE c == Crc(Concat(records))
             r == Concat(records)
             h == <<1, 1, size, Len(records), c>>
  <2>1. w = [header |-> h, region |-> r]
    BY Zenon DEF WriteSegment, Magic, FormatVersion
  <2> HIDE DEF c, r
  <2>2. w.header = h /\ w.region = r
    BY <2>1
  <2>3. h[3] = size /\ h[4] = Len(records) /\ h[5] = c
    OBVIOUS
  <2> HIDE DEF h
  <2>4. Descriptor(w) = [record_bytes |-> size, record_count |-> Len(records), crc32 |-> c]
    BY <2>2, <2>3, Zenon DEF Descriptor
  <2> QED BY <2>2, <2>4, Zenon DEF c, r, h
\* What SegmentReader::Open has checked.
<1>OpensIs.
     ASSUME NEW size \in Nat \ {0}, NEW count, NEW crc, NEW file,
            SegmentOpens(file, [record_bytes |-> size, record_count |-> count, crc32 |-> crc])
     PROVE  Checked(file, size, count, crc)
  <2> USE <1>OpensIs
  <2> DEFINE expect == [record_bytes |-> size, record_count |-> count, crc32 |-> crc]
  <2>1. expect.record_bytes = size /\ expect.record_count = count /\ size # 0
    OBVIOUS
  <2>2. SegmentOpens(file, expect)
    BY Zenon
  <2> HIDE DEF expect
  <2>3. /\ Len(file.header) = 5
        /\ expect.record_bytes # 0 => file.header[3] = expect.record_bytes
        /\ expect.record_count # 0 => file.header[4] = expect.record_count
        /\ file.header[4] * file.header[3] <= Len(file.region)
        /\ Crc(SubSeq(file.region, 1, file.header[4] * file.header[3])) = file.header[5]
    BY <2>2, Zenon DEF SegmentOpens
  <2> QED BY <2>1, <2>3, Zenon DEF Checked
\* A changed field.
<1>HeaderChanged.
     ASSUME NEW size \in Nat \ {0}, NEW count \in Nat, NEW crc, NEW region \in Seq(Byte),
            Len(region) = count * size, NEW j \in 1 .. 5, NEW v \in 0 .. 12, NEW file,
            file.header = [<<1, 1, size, count, crc>> EXCEPT ![j] = v], file.region = region,
            Checked(file, size, count, crc)
     PROVE  Intact(file, size, count, region)
  <2> USE <1>HeaderChanged
  <2>1. file.header[4] = IF j = 4 THEN v ELSE count
    OBVIOUS
  <2>2. file.header[4] = count
    <3>1. CASE count # 0
      BY <3>1, Zenon DEF Checked
    <3>2. CASE count = 0
      <4>1. file.header[4] * size <= Len(file.region)
        BY Zenon DEF Checked
      <4>2. v * size <= 0 => v = 0
        OBVIOUS
      <4>3. Len(file.region) = 0
        BY <3>2
      <4> QED BY <2>1, <3>2, <4>1, <4>2, <4>3, Zenon
    <3> QED BY <3>1, <3>2, Zenon
  <2>3. file.header[3] = size
    BY Zenon DEF Checked
  <2> QED BY <2>2, <2>3, Zenon DEF Intact
\* A changed byte.
<1>ByteChanged.
     ASSUME NEW size \in Nat \ {0}, NEW count \in Nat, NEW region \in Seq(Byte),
            Len(region) = count * size, NEW j \in 1 .. Len(region), NEW v \in Byte, NEW file,
            file.header[4] = count, file.header[5] = Crc(region), file.region = [region EXCEPT ![j] = v],
            Checked(file, size, count, Crc(region))
     PROVE  Intact(file, size, count, region)
  <2> USE <1>ByteChanged
  <2> DEFINE other == [region EXCEPT ![j] = v]
  <2>1. /\ other \in Seq(Byte) /\ Len(other) = Len(region) /\ other[j] = v
        /\ \A i \in 1 .. Len(region) : i # j => other[i] = region[i]
    OBVIOUS
  <2>2. file.region = other
    BY Zenon
  <2> HIDE DEF other
  <2>3. SubSeq(other, 1, Len(other)) = other
    BY <2>1
  <2>4. Crc(other) = Crc(region)
    <3>1. Crc(SubSeq(file.region, 1, file.header[4] * size)) = file.header[5]
      BY Zenon DEF Checked
    <3> QED BY <2>1, <2>2, <2>3, <3>1, Zenon
  <2>5. other[j] = region[j]
    BY <2>1, <2>4, CrcDiffers, Zenon
  <2>6. \A i \in 1 .. Len(other) : other[i] = region[i]
    BY <2>1, <2>5, Zenon
  <2>7. other = region
    BY <2>1, <2>6, SameElements, Zenon
  <2>8. file.header[3] = size
    BY Zenon DEF Checked
  <2> QED BY <2>2, <2>7, <2>8, Zenon DEF Intact
\* The damages of a file, one by one.
<1>DamageIs.
     ASSUME NEW h, NEW r, NEW w, w = [header |-> h, region |-> r], NEW file \in Damages(w)
     PROVE  Damaged(file, h, r)
  <2> USE <1>DamageIs
  <2> DEFINE D1 == {[w EXCEPT !.header = SubSeq(@, 1, i), !.region = <<>>] : i \in 0 .. Len(w.header) - 1}
             D2 == {[w EXCEPT !.region = SubSeq(@, 1, i)] : i \in 0 .. Len(w.region) - 1}
             D3 == {[w EXCEPT !.region = Append(@, b)] : b \in 0 .. Base - 1}
             D4 == {[w EXCEPT !.header = a] : a \in Altered(w.header, 0 .. 12)}
             D5 == {[w EXCEPT !.region = a] : a \in Altered(w.region, 0 .. Base - 1)}
  <2>1. w.header = h /\ w.region = r
    OBVIOUS
  <2>2. CASE file \in D1
    <3>1. PICK i \in 0 .. Len(w.header) - 1 : file = [w EXCEPT !.header = SubSeq(@, 1, i), !.region = <<>>]
      BY <2>2, Zenon
    <3>2. file.header = SubSeq(h, 1, i)
      BY <3>1
    <3> QED BY <2>1, <3>2, Zenon DEF Damaged
  <2>3. CASE file \in D2
    <3>1. PICK i \in 0 .. Len(w.region) - 1 : file = [w EXCEPT !.region = SubSeq(@, 1, i)]
      BY <2>3, Zenon
    <3>2. file.header = h /\ file.region = SubSeq(r, 1, i)
      BY <3>1
    <3> QED BY <2>1, <3>2, Zenon DEF Damaged
  <2>4. CASE file \in D3
    <3>1. PICK b \in Byte : file = [w EXCEPT !.region = Append(@, b)]
      BY <2>4, Zenon DEF Byte
    <3>2. file.header = h /\ file.region = Append(r, b)
      BY <3>1
    <3> QED BY <2>1, <3>2, Zenon DEF Damaged
  <2>5. CASE file \in D4
    <3>1. PICK a \in Altered(h, 0 .. 12) : file = [w EXCEPT !.header = a]
      BY <2>1, <2>5, Zenon
    <3>2. file.header = a /\ file.region = r
      BY <3>1
    <3>3. PICK i \in DOMAIN h : \E v \in 0 .. 12 : a = [h EXCEPT ![i] = v]
      BY Zenon DEF Altered
    <3> QED BY <3>2, <3>3, Zenon DEF Damaged
  <2>6. CASE file \in D5
    <3>1. PICK a \in Altered(r, Byte) : file = [w EXCEPT !.region = a]
      BY <2>1, <2>6, Zenon DEF Byte
    <3>2. file.header = h /\ file.region = a
      BY <3>1
    <3>3. PICK i \in DOMAIN r : \E v \in Byte : a = [r EXCEPT ![i] = v]
      BY Zenon DEF Altered
    <3> QED BY <3>2, <3>3, Zenon DEF Damaged
  <2>7. Damages(w) = D1 \cup D2 \cup D3 \cup D4 \cup D5
    BY Zenon DEF Damages
  <2> HIDE DEF D1, D2, D3, D4, D5
  <2>8. file \in D1 \/ file \in D2 \/ file \in D3 \/ file \in D4 \/ file \in D5
    BY <2>7, Zenon
  <2> QED BY <2>2, <2>3, <2>4, <2>5, <2>6, <2>8, Zenon DEF Damaged
<1> SUFFICES ASSUME NEW size, NEW records, Sized(size, records), NEW w, w = WriteSegment(size, records),
                    NEW file, file = w \/ file \in Damages(w), SegmentOpens(file, Descriptor(w))
             PROVE  SegmentRecords(file) = records
  OBVIOUS
<1> DEFINE count == Len(records)
           r == Concat(records)
           c == Crc(Concat(records))
           h == <<1, 1, size, count, c>>
<1>1. size \in Nat \ {0} /\ count \in Nat
  BY DEF Sized
<1>2. /\ w.header = h /\ w.region = r /\ w = [header |-> h, region |-> r]
      /\ Descriptor(w) = [record_bytes |-> size, record_count |-> count, crc32 |-> c]
  <2>1. w = [header |-> h, region |-> r]
    BY Zenon DEF WriteSegment, Magic, FormatVersion
  <2> QED BY <2>1, <1>WrittenIs, Zenon
<1>3. r \in Seq(Byte) /\ Len(r) = count * size
  BY <1>SegmentIs, Zenon
<1>4. records = [i \in 1 .. count |-> SubSeq(r, (i - 1) * size + 1, i * size)]
  BY <1>SegmentIs, Zenon
<1> HIDE DEF count, r, c
<1>5. /\ h[3] = size /\ h[4] = count /\ h[5] = c /\ Len(h) = 5 /\ DOMAIN h = 1 .. 5
      /\ h \in Seq({1, 1, size, count, c})
  OBVIOUS
<1>6. Checked(file, size, count, c)
  BY <1>1, <1>2, <1>OpensIs, Zenon
<1>7. Intact(file, size, count, r)
  <2>1. CASE file = w
    <3> HIDE DEF h
    <3> QED BY <1>2, <1>5, <2>1, Zenon DEF Intact
  <2>2. CASE \E i \in 0 .. Len(h) - 1 : file.header = SubSeq(h, 1, i)
    <3>1. PICK i \in 0 .. Len(h) - 1 : file.header = SubSeq(h, 1, i)
      BY <2>2, Zenon
    <3> HIDE DEF h
    <3>2. i \in Nat /\ i < 5 /\ Len(SubSeq(h, 1, i)) = i
      BY <1>5
    <3>3. Len(file.header) = 5
      BY <1>6, Zenon DEF Checked
    <3>4. i = 5
      BY <3>1, <3>2, <3>3, Zenon
    <3> QED BY <3>2, <3>4
  <2>3. CASE \E i \in 0 .. Len(r) - 1 : file.header = h /\ file.region = SubSeq(r, 1, i)
    <3>1. PICK i \in 0 .. Len(r) - 1 : file.header = h /\ file.region = SubSeq(r, 1, i)
      BY <2>3, Zenon
    <3> HIDE DEF h
    <3>2. i \in Nat /\ i < Len(r) /\ Len(SubSeq(r, 1, i)) = i
      BY <1>3
    <3>3. file.header[4] * size <= Len(file.region)
      BY <1>6, Zenon DEF Checked
    <3>4. Len(r) <= i
      BY <1>3, <1>5, <3>1, <3>2, <3>3, Zenon
    <3>5. Len(r) \in Nat
      BY <1>3
    <3> QED BY <3>2, <3>4, <3>5
  <2>4. CASE \E b \in Byte : file.header = h /\ file.region = Append(r, b)
    <3>1. PICK b \in Byte : file.header = h /\ file.region = Append(r, b)
      BY <2>4, Zenon
    <3> HIDE DEF h
    <3>2. ASSUME NEW i \in 1 .. count
          PROVE  SubSeq(Append(r, b), (i - 1) * size + 1, i * size) = SubSeq(r, (i - 1) * size + 1, i * size)
      <4> DEFINE k == (i - 1) * size
                 n == size
      <4>1. k \in Nat /\ i * size = k + n /\ k + n <= Len(r) /\ n \in Nat
        <5>1. (i - 1) * size \in Nat /\ i * size = (i - 1) * size + size
          BY <1>1
        <5>2. count - i \in Nat /\ count * size = i * size + (count - i) * size
          BY <1>1
        <5>3. (count - i) * size \in Nat /\ i * size \in Nat
          BY <1>1, <5>2
        <5> QED BY <1>1, <1>3, <5>1, <5>2, <5>3
      <4> HIDE DEF k, n
      <4> DEFINE a == Append(r, b)
      <4>2. a \in Seq(Byte) /\ Len(a) = Len(r) + 1 /\ \A x \in 1 .. Len(r) : a[x] = r[x]
        BY <1>3
      <4> HIDE DEF a
      <4>3. k + n <= Len(a)
        BY <1>3, <4>1, <4>2
      <4> DEFINE s == SubSeq(a, k + 1, k + n)
                 t == SubSeq(r, k + 1, k + n)
      <4>a. a \in Seq(Byte) /\ k \in Nat /\ n \in Nat
        BY <4>1, <4>2, Zenon
      <4>4. s \in Seq(Byte) /\ Len(s) = n /\ \A x \in 1 .. n : s[x] = a[k + x]
        BY <4>a, <4>3, Slice, Zenon
      <4>5. t \in Seq(Byte) /\ Len(t) = n /\ \A x \in 1 .. n : t[x] = r[k + x]
        BY <1>3, <4>1, Slice, Zenon
      <4>6. \A x \in 1 .. n : k + x \in 1 .. Len(r)
        BY <1>3, <4>1
      <4>7. s = t
        <5>1. \A x \in 1 .. n : s[x] = t[x]
          BY <4>2, <4>4, <4>5, <4>6, Zenon
        <5> HIDE DEF s, t
        <5> QED BY <4>4, <4>5, <5>1, SameElements, Zenon
      <4> QED BY <4>1, <4>7, Zenon DEF k, a
    <3> QED BY <1>5, <3>1, <3>2, Zenon DEF Intact
  <2>5. CASE \E i \in DOMAIN h : \E v \in 0 .. 12 : file.header = [h EXCEPT ![i] = v] /\ file.region = r
    <3>1. PICK i \in DOMAIN h, v \in 0 .. 12 : file.header = [h EXCEPT ![i] = v] /\ file.region = r
      BY <2>5, Zenon
    <3> QED BY <1>1, <1>3, <1>5, <1>6, <3>1, <1>HeaderChanged, ZenonT(40)
  <2>6. CASE \E i \in DOMAIN r : \E v \in Byte : file.header = h /\ file.region = [r EXCEPT ![i] = v]
    <3>1. PICK i \in DOMAIN r, v \in Byte : file.header = h /\ file.region = [r EXCEPT ![i] = v]
      BY <2>6, Zenon
    <3>2. i \in 1 .. Len(r)
      BY <1>3
    <3> HIDE DEF h
    <3>3. file.header[4] = count /\ file.header[5] = Crc(r)
      BY <1>5, <3>1, Zenon DEF c, r
    <3>4. Checked(file, size, count, Crc(r))
      BY <1>6, Zenon DEF c, r
    <3> QED BY <1>1, <1>3, <3>1, <3>2, <3>3, <3>4, <1>ByteChanged, Zenon
  <2> HIDE DEF h
  <2>7. file = w \/ Damaged(file, h, r)
    BY <1>2, <1>DamageIs, Zenon
  <2> QED BY <2>1, <2>2, <2>3, <2>4, <2>5, <2>6, <2>7, Zenon DEF Damaged
<1>8. SegmentRecords(file) = [i \in 1 .. count |-> SubSeq(r, (i - 1) * size + 1, i * size)]
  <2>1. SegmentRecords(file)
          = [i \in 1 .. file.header[4] |->
               SubSeq(file.region, (i - 1) * file.header[3] + 1, i * file.header[3])]
    BY Zenon DEF SegmentRecords
  <2> QED BY <1>7, <2>1, Zenon DEF Intact
<1> QED BY <1>4, <1>8, Zenon

-----------------------------------------------------------------------------
(* The statement.                                                          *)

Reading == {"create", "table", "title", "open", "name", "type", "encoding", "separator", "end", "error"}

\* The states of the parser: there is a column once one was named.
DdlState ==
  {s \in [at : Reading, columns : Seq(Column)] :
     s.at \in {"type", "encoding", "separator"} => s.columns # <<>>}

\* The last column replaced by one with the same name.
Renewed(columns, new, column) ==
  /\ new \in Seq(Column) /\ Len(new) = Len(columns)
  /\ \A i \in 1 .. Len(columns) - 1 : new[i] = columns[i]
  /\ new[Len(columns)] = column /\ column.name = columns[Len(columns)].name

\* What a token does.
Takes(s, token, t) ==
  \/ t.at = "error" /\ t.columns = s.columns
  \/ /\ s.at # "error" /\ t.at \notin {"type", "encoding", "separator", "error"}
     /\ token \notin {"KEY", "INDEX"} /\ t.columns = s.columns
  \/ /\ s.at = "name" /\ t.at = "type" /\ token \notin {"KEY", "INDEX"}
     /\ t.columns = Append(s.columns, [name |-> token, encoding |-> "raw", type |-> "text"])
  \/ /\ s.at = "type" /\ t.at = "encoding" /\ token \notin {"KEY", "INDEX"}
     /\ \E c \in Column : /\ Renewed(s.columns, t.columns, c)
                          /\ c.encoding = s.columns[Len(s.columns)].encoding
  \/ /\ s.at = "encoding" /\ t.at = "separator" /\ token \in {"KEY", "INDEX"}
     /\ \E c \in Column : Renewed(s.columns, t.columns, c) /\ IsSearchable(c)

\* f is the parser's state after each token.
ParsesBy(f, tokens) ==
  /\ f \in [0 .. Len(tokens) -> DdlState] /\ f[0] = [at |-> "create", columns |-> <<>>]
  /\ ParseCreateTable(tokens)
       = [ok |-> f[Len(tokens)].at = "end" /\ Valid(f[Len(tokens)].columns),
          columns |-> f[Len(tokens)].columns]
  /\ \A m \in Nat : m < Len(tokens) => f[m + 1] = DdlStep(f[m], tokens[m + 1])

\* A column of that name that is searched.
HasColumn(columns, name) ==
  \E i \in 1 .. Len(columns) : columns[i].name = name /\ IsSearchable(columns[i])

\* What is known after m tokens: the column that is being read, and those declared.
ReadSoFar(s, tokens, m) ==
  /\ s.at = "type" => m >= 1 /\ s.columns[Len(s.columns)].name = tokens[m]
  /\ s.at = "encoding" => m >= 2 /\ s.columns[Len(s.columns)].name = tokens[m - 1]
  /\ \A d \in Nat : d >= 1 /\ d + 2 <= m /\ tokens[d + 2] \in {"KEY", "INDEX"} =>
                    HasColumn(s.columns, tokens[d])

\* A statement that is accepted has typed, valid columns, and a searched one for each name
\* two tokens before a KEY or an INDEX.
LEMMA Declares ==
  \A tokens \in Seq(STRING) :
    ParseCreateTable(tokens).ok =>
      /\ ParseCreateTable(tokens).columns \in Seq(Column)
      /\ Valid(ParseCreateTable(tokens).columns)
      /\ \A d \in Nat : d >= 1 /\ d + 2 <= Len(tokens) /\ tokens[d + 2] \in {"KEY", "INDEX"} =>
           HasColumn(ParseCreateTable(tokens).columns, tokens[d])
\* Each token of the statement leaves the parser in one of its states.
<1>DdlStepIs.
     \A s \in DdlState, token \in STRING :
       DdlStep(s, token) \in DdlState /\ Takes(s, token, DdlStep(s, token))
  \* Replacing the last column leaves the others.
  <2>SetsLast.
       ASSUME NEW columns \in Seq(Column), columns # <<>>, NEW column \in Column,
              column.name = columns[Len(columns)].name
       PROVE  Renewed(columns, [columns EXCEPT ![Len(columns)] = column], column)
    <3> USE <2>SetsLast
    <3> DEFINE new == [columns EXCEPT ![Len(columns)] = column]
    <3>1. new \in Seq(Column) /\ Len(new) = Len(columns)
      OBVIOUS
    <3>2. \A i \in 1 .. Len(columns) - 1 : new[i] = columns[i]
      OBVIOUS
    <3>3. new[Len(columns)] = column
      OBVIOUS
    <3> QED BY <3>1, <3>2, <3>3, Zenon DEF Renewed
  <2> SUFFICES ASSUME NEW s \in DdlState, NEW token \in STRING
               PROVE  DdlStep(s, token) \in DdlState /\ Takes(s, token, DdlStep(s, token))
    OBVIOUS
  <2> DEFINE columns == s.columns
             last == s.columns[Len(s.columns)]
             SetLast(column) == [s.columns EXCEPT ![Len(s.columns)] = column]
             t == DdlStep(s, token)
             Moves(at) == t = [s EXCEPT !.at = at]
  <2>0. /\ s = [at |-> s.at, columns |-> s.columns] /\ s.at \in Reading /\ s.columns \in Seq(Column)
        /\ s.at \in {"type", "encoding", "separator"} => s.columns # <<>>
    BY DEF DdlState
  <2> DEFINE raw == [name |-> token, encoding |-> "raw", type |-> "text"]
             typed == [last EXCEPT !.type = token]
             encoded == [last EXCEPT !.encoding = EncodingOf(token)]
             p1 == s.at = "create" /\ token = "CREATE"
             p2 == s.at = "table" /\ token = "TABLE"
             p3 == s.at = "title" /\ Identifier(token)
             p4 == s.at = "open" /\ token = "("
             p5 == s.at = "name" /\ Identifier(token)
             p6 == s.at = "type" /\ token \in Types
             p7 == s.at = "encoding" /\ token \in {"KEY", "INDEX"}
             p8 == s.at \in {"encoding", "separator"} /\ token = ","
             p9 == s.at \in {"encoding", "separator"} /\ token = ")"
             Sets(at) == [s EXCEPT !.at = at]
             With(at, c) == [at |-> at, columns |-> c]
  <2>1. \A at : Sets(at).at = at /\ Sets(at).columns = columns
    BY <2>0
  <2>2. \A at, c : With(at, c).at = at /\ With(at, c).columns = c
    BY <2>0
  <2>3. t = CASE p1 -> Sets("table") [] p2 -> Sets("title") [] p3 -> Sets("open") [] p4 -> Sets("name")
            [] p5 -> With("type", Append(columns, raw))
            [] p6 -> With("encoding", SetLast(typed)) [] p7 -> With("separator", SetLast(encoded))
            [] p8 -> Sets("name") [] p9 -> Sets("end") [] OTHER -> Sets("error")
    BY Zenon DEF DdlStep
  <2> HIDE DEF Sets, With, t
  <2>4. \/ p1 /\ t = Sets("table")
        \/ p2 /\ t = Sets("title")
        \/ p3 /\ t = Sets("open")
        \/ p4 /\ t = Sets("name")
        \/ p5 /\ t = With("type", Append(columns, raw))
        \/ p6 /\ t = With("encoding", SetLast(typed))
        \/ p7 /\ t = With("separator", SetLast(encoded))
        \/ p8 /\ t = Sets("name")
        \/ p9 /\ t = Sets("end")
        \/ t = Sets("error")
    <3> HIDE DEF p1, p2, p3, p4, p5, p6, p7, p8, p9, raw, typed, encoded, SetLast, columns
    <3> QED BY <2>3
  <2> SUFFICES t \in DdlState /\ Takes(s, token, t)
    BY Zenon DEF t
  <2>5. ASSUME NEW at \in Reading, at \notin {"type", "encoding", "separator"}, t = Sets(at)
        PROVE  t.at = at /\ t.columns = columns /\ t \in DdlState
    <3>1. t.at = at /\ t.columns = columns
      BY <2>1, <2>5, Zenon
    <3>2. t = [at |-> at, columns |-> columns]
      BY <2>0, <2>5 DEF Sets
    <3>3. t \in [at : Reading, columns : Seq(Column)]
      BY <2>0, <3>2
    <3> QED BY <2>5, <3>1, <3>3, Zenon DEF DdlState
  <2>6. ASSUME NEW at \in Reading, NEW c \in Seq(Column), c # <<>>, t = With(at, c)
        PROVE  t.at = at /\ t.columns = c /\ t \in DdlState
    <3>1. t.at = at /\ t.columns = c
      BY <2>2, <2>6, Zenon
    <3>3. t \in [at : Reading, columns : Seq(Column)]
      BY <2>6, Zenon DEF With
    <3> QED BY <2>6, <3>1, <3>3, Zenon DEF DdlState
  <2>a. /\ "table" \in Reading /\ "title" \in Reading /\ "open" \in Reading /\ "name" \in Reading
        /\ "type" \in Reading /\ "encoding" \in Reading /\ "separator" \in Reading
        /\ "end" \in Reading /\ "error" \in Reading
    BY DEF Reading
  <2>7. ASSUME NEW at \in {"table", "title", "open", "name", "end"}, t = Sets(at),
               s.at # "error", token \notin {"KEY", "INDEX"}
        PROVE  t \in DdlState /\ Takes(s, token, t)
    <3>1. at \in Reading /\ at \notin {"type", "encoding", "separator", "error"}
      BY <2>7 DEF Reading
    <3>2. t.at = at /\ t.columns = columns /\ t \in DdlState
      BY <2>5, <2>7, <3>1, Zenon
    <3> QED BY <2>7, <3>1, <3>2, Zenon DEF Takes
  <2>8. CASE t = Sets("error")
    <3>1. "error" \in Reading /\ "error" \notin {"type", "encoding", "separator"}
      BY <2>a
    <3>2. t.at = "error" /\ t.columns = columns /\ t \in DdlState
      BY <2>5, <2>8, <3>1, Zenon
    <3> QED BY <3>2, Zenon DEF Takes
  <2>9. CASE p5 /\ t = With("type", Append(columns, raw))
    <3>1. raw \in Column
      BY DEF Column, Types
    <3> HIDE DEF raw
    <3>2. Append(columns, raw) \in Seq(Column) /\ Append(columns, raw) # <<>>
      BY <2>0, <3>1
    <3>3. t.at = "type" /\ t.columns = Append(columns, raw) /\ t \in DdlState
      BY <2>6, <2>9, <2>a, <3>2, Zenon
    <3>4. s.at = "name" /\ token \notin {"KEY", "INDEX"}
      BY <2>9, Zenon DEF Identifier
    <3> QED BY <3>3, <3>4, Zenon DEF Takes, raw
  <2>b. ASSUME columns # <<>> PROVE last \in Column
    <3> DEFINE n == Len(columns)
    <3>1. n \in 1 .. Len(columns) /\ columns \in [1 .. Len(columns) -> Column]
      <4> HIDE DEF columns
      <4>1. columns \in Seq(Column)
        BY <2>0, Zenon DEF columns
      <4> QED BY <2>b, <4>1
    <3> HIDE DEF n
    <3>2. columns[n] \in Column
      BY <3>1, Zenon
    <3> QED BY <3>2, Zenon DEF n
  <2>10. CASE p6 /\ t = With("encoding", SetLast(typed))
    <3>0. columns # <<>> /\ s.at = "type" /\ token \in Types
      BY <2>0, <2>10
    <3>1. last \in Column
      BY <2>b, <3>0, Zenon
    <3>2. typed \in Column /\ typed.name = last.name /\ typed.encoding = last.encoding
      <4> HIDE DEF last
      <4> QED BY <3>0, <3>1 DEF Column
    <3> HIDE DEF typed
    <3>3. Renewed(columns, SetLast(typed), typed)
      BY <2>0, <3>0, <3>2, <2>SetsLast, Zenon
    <3>4. SetLast(typed) \in Seq(Column) /\ SetLast(typed) # <<>>
      <4>1. SetLast(typed) \in Seq(Column) /\ Len(SetLast(typed)) = Len(columns)
        BY <3>3, Zenon DEF Renewed
      <4>2. Len(columns) # 0
        BY <2>0, <3>0
      <4> HIDE DEF SetLast
      <4> QED BY <4>1, <4>2
    <3> HIDE DEF SetLast
    <3>5. t.at = "encoding" /\ t.columns = SetLast(typed) /\ t \in DdlState
      BY <2>6, <2>10, <2>a, <3>4, Zenon
    <3>6. token \notin {"KEY", "INDEX"}
      BY <3>0 DEF Types
    <3> QED BY <3>0, <3>2, <3>3, <3>5, <3>6, Zenon DEF Takes
  <2>11. CASE p7 /\ t = With("separator", SetLast(encoded))
    <3>0. columns # <<>> /\ s.at = "encoding" /\ token \in {"KEY", "INDEX"}
      BY <2>0, <2>11
    <3>1. last \in Column
      BY <2>b, <3>0, Zenon
    <3>2. encoded \in Column /\ encoded.name = last.name /\ IsSearchable(encoded)
      <4>1. EncodingOf(token) \in {"eq", "index"}
        BY DEF EncodingOf
      <4> HIDE DEF last
      <4> QED BY <3>1, <4>1 DEF Column, IsSearchable
    <3> HIDE DEF encoded
    <3>3. Renewed(columns, SetLast(encoded), encoded)
      BY <2>0, <3>0, <3>2, <2>SetsLast, Zenon
    <3>4. SetLast(encoded) \in Seq(Column) /\ SetLast(encoded) # <<>>
      <4>1. SetLast(encoded) \in Seq(Column) /\ Len(SetLast(encoded)) = Len(columns)
        BY <3>3, Zenon DEF Renewed
      <4>2. Len(columns) # 0
        BY <2>0, <3>0
      <4> HIDE DEF SetLast
      <4> QED BY <4>1, <4>2
    <3> HIDE DEF SetLast
    <3>5. t.at = "separator" /\ t.columns = SetLast(encoded) /\ t \in DdlState
      BY <2>6, <2>11, <2>a, <3>4, Zenon
    <3> QED BY <3>0, <3>2, <3>3, <3>5, Zenon DEF Takes
  <2>12. p1 \/ p2 \/ p3 \/ p4 \/ p8 \/ p9 => s.at # "error" /\ token \notin {"KEY", "INDEX"}
    <3>1. p1 => s.at # "error" /\ token \notin {"KEY", "INDEX"}
      OBVIOUS
    <3>2. p2 => s.at # "error" /\ token \notin {"KEY", "INDEX"}
      OBVIOUS
    <3>3. p3 => s.at # "error" /\ token \notin {"KEY", "INDEX"}
      <4>1. p3 => s.at # "error"
        OBVIOUS
      <4> QED BY <4>1, Zenon DEF Identifier
    <3>4. p4 => s.at # "error" /\ token \notin {"KEY", "INDEX"}
      OBVIOUS
    <3>5. p8 => s.at # "error" /\ token \notin {"KEY", "INDEX"}
      BY Zenon
    <3>6. p9 => s.at # "error" /\ token \notin {"KEY", "INDEX"}
      OBVIOUS
    <3> HIDE DEF p1, p2, p3, p4, p8, p9
    <3> QED BY <3>1, <3>2, <3>3, <3>4, <3>5, <3>6, Zenon
  <2>13. t \in DdlState /\ Takes(s, token, t)
    <3> HIDE DEF p1, p2, p3, p4, p5, p6, p7, p8, p9, raw, typed, encoded, SetLast, columns
    <3>1. /\ "table" \in {"table", "title", "open", "name", "end"}
          /\ "title" \in {"table", "title", "open", "name", "end"}
          /\ "open" \in {"table", "title", "open", "name", "end"}
          /\ "name" \in {"table", "title", "open", "name", "end"}
          /\ "end" \in {"table", "title", "open", "name", "end"}
      OBVIOUS
    <3> QED BY <2>4, <2>7, <2>8, <2>9, <2>10, <2>11, <2>12, <3>1, Zenon
  <2> QED BY <2>13, Zenon
\* ParseCreateTable goes through these states.
<1>DdlIs.
     ASSUME NEW tokens \in Seq(STRING)
     PROVE  \E f : ParsesBy(f, tokens)
  <2> USE <1>DdlIs
  <2> DEFINE L == Len(tokens)
             start == [at |-> "create", columns |-> <<>>]
             Value(F, i) == IF i = 0 THEN start ELSE DdlStep(F[i - 1], tokens[i])
             Body(F) == [i \in 0 .. L |-> Value(F, i)]
             G == [n \in Nat |-> [y \in DdlState |-> IF n < L THEN DdlStep(y, tokens[n + 1]) ELSE start]]
  <2>0. L \in Nat /\ \A i \in 1 .. L : tokens[i] \in STRING
    OBVIOUS
  <2>a. start \in DdlState
    BY DEF DdlState, Reading
  <2> HIDE DEF L, start
  <2>b. ASSUME NEW n \in Nat, n < L PROVE n + 1 \in 1 .. L /\ tokens[n + 1] \in STRING
    <3>1. n + 1 \in 1 .. L
      BY <2>0, <2>b
    <3> QED BY <2>0, <3>1, Zenon
  <2>1. G \in [Nat -> [DdlState -> DdlState]]
    <3>1. ASSUME NEW n \in Nat, NEW y \in DdlState
          PROVE  (IF n < L THEN DdlStep(y, tokens[n + 1]) ELSE start) \in DdlState
      BY <2>a, <2>b, <1>DdlStepIs, Zenon
    <3> QED BY <3>1, Zenon
  <2>2. \A n \in Nat, y \in DdlState : n < L => G[n][y] = DdlStep(y, tokens[n + 1])
    BY Zenon
  <2> HIDE DEF G
  <2>3. PICK r : Recurs(r, DdlState, start, G)
    BY <2>a, <2>1, Recursion, Zenon
  <2> DEFINE H == [i \in 0 .. L |-> r[i]]
  <2>4. H = Body(H)
    <3>1. ASSUME NEW i \in 0 .. L PROVE H[i] = Value(H, i)
      <4>1. H[i] = r[i]
        BY Zenon
      <4>2. CASE i = 0
        <5>1. H[i] = start
          BY <2>3, <4>1, <4>2, Zenon DEF Recurs
        <5> HIDE DEF H
        <5> QED BY <4>2, <5>1, Zenon
      <4>3. CASE i # 0
        <5> DEFINE n == i - 1
        <5>1. n \in Nat /\ n \in 0 .. L /\ n < L /\ n + 1 = i
          BY <2>0, <4>3
        <5>2. H[n] = r[n]
          BY <5>1, Zenon
        <5> HIDE DEF n
        <5>3. r[n + 1] = G[n][r[n]] /\ r[n] \in DdlState
          BY <2>3, <5>1, Zenon DEF Recurs
        <5>4. G[n][r[n]] = DdlStep(r[n], tokens[n + 1])
          BY <2>2, <5>1, <5>3, Zenon
        <5>5. H[i] = DdlStep(H[n], tokens[i])
          BY <4>1, <5>1, <5>2, <5>3, <5>4, Zenon
        <5> HIDE DEF H
        <5> QED BY <4>3, <5>5, Zenon DEF n
      <4> QED BY <4>2, <4>3, Zenon
    <3> HIDE DEF Value
    <3> QED BY <3>1, Zenon
  <2> DEFINE F == CHOOSE f : f = Body(f)
  <2>5. ParseCreateTable(tokens) = [ok |-> F[L].at = "end" /\ Valid(F[L].columns), columns |-> F[L].columns]
    BY Zenon DEF ParseCreateTable, L, start
  <2> HIDE DEF H, Body
  <2>6. F = Body(F)
    BY <2>4, Zenon
  <2> HIDE DEF F
  <2>7. F = [i \in 0 .. L |-> F[i]] /\ \A i \in 0 .. L : F[i] = Value(F, i)
    BY <2>6, Zenon DEF Body
  <2>8. F[0] = start
    <3>1. 0 \in 0 .. L
      BY <2>0
    <3> QED BY <2>7, <3>1, Zenon
  <2>9. ASSUME NEW m \in Nat, m < L PROVE F[m + 1] = DdlStep(F[m], tokens[m + 1])
    <3> DEFINE i == m + 1
    <3>1. i \in 0 .. L /\ i # 0 /\ i - 1 = m
      BY <2>0, <2>9
    <3> HIDE DEF i
    <3>2. F[i] = DdlStep(F[m], tokens[i])
      BY <2>7, <3>1, Zenon
    <3> QED BY <3>2, Zenon DEF i
  <2> DEFINE Have == {m \in Nat : m <= L => F[m] \in DdlState}
  <2>10. 0 \in Have
    <3>1. 0 \in Nat
      OBVIOUS
    <3> QED BY <2>8, <2>a, <3>1, Zenon
  <2>11. ASSUME NEW m \in Nat, m \in Have PROVE m + 1 \in Have
    <3>1. ASSUME m + 1 <= L PROVE F[m + 1] \in DdlState
      <4>1. m < L /\ m <= L
        BY <2>0, <3>1
      <4> QED BY <2>9, <2>11, <2>b, <4>1, <1>DdlStepIs, Zenon
    <3>2. m + 1 \in Nat
      OBVIOUS
    <3> QED BY <3>1, <3>2, Zenon
  <2> HIDE DEF Have
  <2>12. \A m \in Nat : m \in Have
    BY <2>10, <2>11, SetInduction, Zenon
  <2>13. F \in [0 .. L -> DdlState]
    <3>1. \A i \in 0 .. L : i \in Nat /\ i <= L
      BY <2>0
    <3>2. \A i \in 0 .. L : F[i] \in DdlState
      BY <2>12, <3>1, Zenon DEF Have
    <3>3. F = [i \in 0 .. L |-> F[i]]
      BY <2>7, Zenon
    <3> QED BY <3>2, <3>3, Zenon
  <2>14. ParsesBy(F, tokens)
    BY <2>5, <2>8, <2>9, <2>13, Zenon DEF ParsesBy, L, start
  <2> QED BY <2>14, Zenon
\* A token keeps what is known of the columns.
<1>ReadIs.
     \A tokens \in Seq(STRING), s \in DdlState, m \in Nat : \A t :
       /\ m < Len(tokens)
       /\ (s.at # "error" => ReadSoFar(s, tokens, m))
       /\ t = DdlStep(s, tokens[m + 1])
       => (t.at # "error" => ReadSoFar(t, tokens, m + 1))
  \* A column stays when the last one gets its type or its encoding, or one is added.
  <2>ColumnStays.
       ASSUME NEW columns \in Seq(Column), NEW name, HasColumn(columns, name), NEW new
       PROVE  /\ \A c \in Column : new = Append(columns, c) => HasColumn(new, name)
              /\ \A c \in Column : Renewed(columns, new, c) /\ IsSearchable(c) => HasColumn(new, name)
              /\ \A c \in Column : Renewed(columns, new, c) /\ c.encoding = columns[Len(columns)].encoding
                                     => HasColumn(new, name)
    <3> USE <2>ColumnStays
    <3>1. PICK i \in 1 .. Len(columns) : columns[i].name = name /\ IsSearchable(columns[i])
      BY Zenon DEF HasColumn
    <3>2. Len(columns) \in Nat /\ (i \in 1 .. Len(columns) - 1 \/ i = Len(columns))
      OBVIOUS
    <3>3. ASSUME NEW c \in Column, new = Append(columns, c) PROVE HasColumn(new, name)
      <4>1. Len(new) = Len(columns) + 1 /\ new[i] = columns[i]
        BY <3>3
      <4>2. i \in 1 .. Len(new)
        BY <3>2, <4>1
      <4> QED BY <3>1, <4>1, <4>2, Zenon DEF HasColumn
    <3>4. ASSUME NEW c \in Column, Renewed(columns, new, c), IsSearchable(c) PROVE HasColumn(new, name)
      <4>1. i \in 1 .. Len(new) /\ new[i].name = name /\ IsSearchable(new[i])
        BY <3>1, <3>2, <3>4, Zenon DEF Renewed
      <4> QED BY <4>1, Zenon DEF HasColumn
    <3>5. ASSUME NEW c \in Column, Renewed(columns, new, c), c.encoding = columns[Len(columns)].encoding
          PROVE  HasColumn(new, name)
      <4>1. i \in 1 .. Len(new) /\ new[i].name = name /\ new[i].encoding = columns[i].encoding
        BY <3>1, <3>2, <3>5, Zenon DEF Renewed
      <4>2. IsSearchable(new[i])
        BY <3>1, <4>1, Zenon DEF IsSearchable
      <4> QED BY <4>1, <4>2, Zenon DEF HasColumn
    <3> QED BY <3>3, <3>4, <3>5, Zenon
  <2> SUFFICES ASSUME NEW tokens \in Seq(STRING), NEW s \in DdlState, NEW m \in Nat, m < Len(tokens),
                      s.at # "error" => ReadSoFar(s, tokens, m),
                      NEW t, t = DdlStep(s, tokens[m + 1])
               PROVE  t.at # "error" => ReadSoFar(t, tokens, m + 1)
    OBVIOUS
  <2> DEFINE token == tokens[m + 1]
             n == m + 1
  <2>0. /\ s.at \in Reading /\ s.columns \in Seq(Column) /\ Len(s.columns) \in Nat
        /\ s.at \in {"type", "encoding", "separator"} => s.columns # <<>>
    BY DEF DdlState
  <2>1. token \in STRING /\ n \in Nat /\ n >= 1
    OBVIOUS
  <2>2. Takes(s, token, t)
    BY <2>1, <1>DdlStepIs, Zenon
  <2> SUFFICES ASSUME t.at # "error" PROVE ReadSoFar(t, tokens, n)
    BY Zenon
  <2>3. s.at # "error"
    BY <2>2, Zenon DEF Takes
  <2>4. ReadSoFar(s, tokens, m)
    BY <2>3, Zenon
  <2>5. ASSUME NEW d \in Nat, d >= 1, d + 2 <= n PROVE d + 2 <= m \/ (d + 2 = n /\ d = m - 1)
    BY <2>5
  \* The columns declared before stay; the last token may declare one.
  <2>6. ASSUME \A name : HasColumn(s.columns, name) => HasColumn(t.columns, name),
               token \notin {"KEY", "INDEX"} \/ (m - 1 \in Nat => HasColumn(t.columns, tokens[m - 1])),
               NEW d \in Nat, d >= 1, d + 2 <= n, tokens[d + 2] \in {"KEY", "INDEX"}
        PROVE  HasColumn(t.columns, tokens[d])
    <3>1. CASE d + 2 <= m
      BY <2>4, <2>6, <3>1, Zenon DEF ReadSoFar
    <3>2. CASE d + 2 = n /\ d = m - 1
      <4>1. tokens[d + 2] = token
        BY <3>2, Zenon
      <4>2. m - 1 \in Nat
        BY <3>2, Zenon
      <4> QED BY <2>6, <3>2, <4>1, <4>2, Zenon
    <3> QED BY <2>5, <2>6, <3>1, <3>2, Zenon
  <2>7. CASE /\ t.at \notin {"type", "encoding", "separator", "error"}
             /\ token \notin {"KEY", "INDEX"} /\ t.columns = s.columns
    <3>1. \A name : HasColumn(s.columns, name) => HasColumn(t.columns, name)
      BY <2>7, Zenon
    <3>2. t.at # "type" /\ t.at # "encoding"
      BY <2>7, Zenon
    <3> HIDE DEF token, n
    <3> QED BY <2>6, <2>7, <3>1, <3>2, Zenon DEF ReadSoFar
  <2>8. CASE /\ t.at = "type" /\ token \notin {"KEY", "INDEX"}
             /\ t.columns = Append(s.columns, [name |-> token, encoding |-> "raw", type |-> "text"])
    <3> DEFINE c == [name |-> token, encoding |-> "raw", type |-> "text"]
    <3>1. c \in Column
      BY <2>1 DEF Column, Types
    <3>2. t.columns[Len(t.columns)].name = token
      <4>1. t.columns[Len(t.columns)] = c
        BY <2>0, <2>8, <3>1
      <4>2. c.name = token
        BY Zenon
      <4> QED BY <4>1, <4>2, Zenon
    <3>3. \A name : HasColumn(s.columns, name) => HasColumn(t.columns, name)
      BY <2>0, <2>8, <3>1, <2>ColumnStays, Zenon
    <3>4. t.at # "encoding"
      BY <2>8
    <3>5. tokens[n] = token
      BY Zenon
    <3> HIDE DEF token, n, c
    <3> QED BY <2>1, <2>6, <2>8, <3>2, <3>3, <3>4, <3>5, Zenon DEF ReadSoFar
  <2>9. CASE /\ s.at = "type" /\ t.at = "encoding" /\ token \notin {"KEY", "INDEX"}
             /\ \E c \in Column : /\ Renewed(s.columns, t.columns, c)
                                  /\ c.encoding = s.columns[Len(s.columns)].encoding
    <3>1. PICK c \in Column : Renewed(s.columns, t.columns, c) /\ c.encoding = s.columns[Len(s.columns)].encoding
      BY <2>9, Zenon
    <3>2. m >= 1 /\ s.columns[Len(s.columns)].name = tokens[m]
      BY <2>4, <2>9, Zenon DEF ReadSoFar
    <3>3. t.columns[Len(t.columns)].name = tokens[m]
      BY <3>1, <3>2, Zenon DEF Renewed
    <3>4. n >= 2 /\ n - 1 = m
      BY <3>2
    <3>5. \A name : HasColumn(s.columns, name) => HasColumn(t.columns, name)
      BY <2>0, <3>1, <2>ColumnStays, Zenon
    <3>6. t.at # "type"
      BY <2>9
    <3> HIDE DEF token, n
    <3> QED BY <2>6, <2>9, <3>3, <3>4, <3>5, <3>6, Zenon DEF ReadSoFar
  <2>10. CASE /\ s.at = "encoding" /\ t.at = "separator" /\ token \in {"KEY", "INDEX"}
              /\ \E c \in Column : Renewed(s.columns, t.columns, c) /\ IsSearchable(c)
    <3>1. PICK c \in Column : Renewed(s.columns, t.columns, c) /\ IsSearchable(c)
      BY <2>10, Zenon
    <3>2. m >= 2 /\ s.columns[Len(s.columns)].name = tokens[m - 1]
      BY <2>4, <2>10, Zenon DEF ReadSoFar
    <3>3. Len(s.columns) \in 1 .. Len(s.columns)
      BY <2>0, <2>10
    <3>4. HasColumn(t.columns, tokens[m - 1])
      <4>1. Len(s.columns) \in 1 .. Len(t.columns)
        BY <3>1, <3>3, Zenon DEF Renewed
      <4>2. t.columns[Len(s.columns)].name = tokens[m - 1] /\ IsSearchable(t.columns[Len(s.columns)])
        BY <3>1, <3>2, Zenon DEF Renewed
      <4> QED BY <4>1, <4>2, Zenon DEF HasColumn
    <3>5. \A name : HasColumn(s.columns, name) => HasColumn(t.columns, name)
      BY <2>0, <3>1, <2>ColumnStays, Zenon
    <3>6. t.at # "type" /\ t.at # "encoding"
      BY <2>10
    <3> HIDE DEF token, n
    <3> QED BY <2>6, <3>4, <3>5, <3>6, Zenon DEF ReadSoFar
  <2> HIDE DEF token, n
  <2> QED BY <2>2, <2>7, <2>8, <2>9, <2>10, Zenon DEF Takes
<1> SUFFICES ASSUME NEW tokens \in Seq(STRING), ParseCreateTable(tokens).ok
             PROVE  /\ ParseCreateTable(tokens).columns \in Seq(Column)
                    /\ Valid(ParseCreateTable(tokens).columns)
                    /\ \A d \in Nat : d >= 1 /\ d + 2 <= Len(tokens) /\ tokens[d + 2] \in {"KEY", "INDEX"} =>
                         HasColumn(ParseCreateTable(tokens).columns, tokens[d])
  OBVIOUS
<1>1. PICK f : ParsesBy(f, tokens)
  BY <1>DdlIs, Zenon
<1> DEFINE L == Len(tokens)
           Have == {m \in Nat : m <= L => (f[m].at # "error" => ReadSoFar(f[m], tokens, m))}
<1>0. L \in Nat
  OBVIOUS
<1> HIDE DEF L
<1>2. \A m \in Nat : m <= L => f[m] \in DdlState
  <2>1. \A m \in Nat : m <= L => m \in 0 .. L
    BY <1>0
  <2> QED BY <1>1, <2>1, Zenon DEF ParsesBy, L
<1>3. 0 \in Have
  <2>1. f[0].at = "create" /\ f[0].at # "type" /\ f[0].at # "encoding"
    BY <1>1 DEF ParsesBy
  <2>2. \A d \in Nat : ~ (d >= 1 /\ d + 2 <= 0)
    OBVIOUS
  <2>3. 0 \in Nat
    OBVIOUS
  <2> QED BY <2>1, <2>2, <2>3, Zenon DEF ReadSoFar
<1>4. ASSUME NEW m \in Nat, m \in Have PROVE m + 1 \in Have
  <2>1. ASSUME m + 1 <= L PROVE f[m + 1].at # "error" => ReadSoFar(f[m + 1], tokens, m + 1)
    <3>1. m < L /\ m <= L
      BY <1>0, <2>1
    <3>2. f[m] \in DdlState /\ (f[m].at # "error" => ReadSoFar(f[m], tokens, m))
      BY <1>2, <1>4, <3>1, Zenon
    <3>3. f[m + 1] = DdlStep(f[m], tokens[m + 1])
      BY <1>1, <3>1, Zenon DEF ParsesBy, L
    <3> QED BY <3>1, <3>2, <3>3, <1>ReadIs, Zenon DEF L
  <2>2. m + 1 \in Nat
    OBVIOUS
  <2> QED BY <2>1, <2>2, Zenon
<1> HIDE DEF Have
<1>5. L \in Have
  BY <1>0, <1>3, <1>4, SetInduction, Zenon
<1>6. L <= L
  BY <1>0
<1> DEFINE accepted == f[L].at = "end" /\ Valid(f[L].columns)
<1>7. ParseCreateTable(tokens) = [ok |-> accepted, columns |-> f[L].columns]
  BY <1>1, Zenon DEF ParsesBy, L
<1> HIDE DEF accepted
<1>7a. ParseCreateTable(tokens).ok = accepted /\ ParseCreateTable(tokens).columns = f[L].columns
  BY <1>7
<1>8. f[L].at = "end" /\ Valid(f[L].columns)
  BY <1>7a, Zenon DEF accepted
<1>9. f[L].at # "error"
  BY <1>8
<1>10. ReadSoFar(f[L], tokens, L)
  BY <1>0, <1>5, <1>6, <1>9, Zenon DEF Have
<1>11. f[L].columns \in Seq(Column)
  <2>1. f[L] \in DdlState
    BY <1>0, <1>2, <1>6, Zenon
  <2> QED BY <2>1, Zenon DEF DdlState
<1> QED BY <1>7a, <1>8, <1>10, <1>11, Zenon DEF ReadSoFar, L

-----------------------------------------------------------------------------
(* The rows.                                                               *)

\* Cells that every column takes.
Takeable(columns, cells) ==
  \A i \in 1 .. Len(columns) :
    IsCell(cells[columns[i].name]) /\ Parses(columns[i].type, cells[columns[i].name])

\* Cells that the columns take have values of their types, in schema order.
LEMMA ValuesTyped ==
  \A columns \in Seq(Column) : \A cells :
    Takeable(columns, cells) =>
      /\ RowTyped(columns, ValuesOf(columns, cells))
      /\ \A i \in 1 .. Len(columns) :
           ValuesOf(columns, cells)[i] = ParseValue(columns[i].type, cells[columns[i].name])
\* A cell that parses has a value of its column's type.
<1>CellValue.
     ASSUME NEW c, IsCell(c), NEW type \in Types, Parses(type, c)
     PROVE  ParseValue(type, c) \in ValuesIn(type)
  <2> USE <1>CellValue
  <2>1. CASE type = "int"
    <3>1. c.int # None /\ ParseValue(type, c) = [int |-> c.int]
      BY <2>1 DEF Parses, ParseValue
    <3>2. c.int \in Int /\ -Space(IntBytes) <= 2 * c.int /\ 2 * c.int < Space(IntBytes)
      BY <3>1, IntSpace, Zenon DEF IsCell
    <3>3. [int |-> c.int] \in IntValues
      BY <3>2, Zenon DEF IntValues
    <3> QED BY <2>1, <3>1, <3>3, Zenon DEF ValuesIn
  <2>2. CASE type = "real"
    <3>1. c.real # None /\ ParseValue(type, c) = [real |-> c.real]
      BY <2>2 DEF Parses, ParseValue
    <3>2. c.real \in 0 .. Space(IntBytes) - 1
      BY <3>1, IntSpace, Zenon DEF IsCell
    <3>3. [real |-> c.real] \in RealValues
      BY <3>2, Zenon DEF RealValues
    <3>4. type # "int"
      BY <2>2
    <3> QED BY <2>2, <3>1, <3>3, <3>4, Zenon DEF ValuesIn
  <2>3. CASE type \in {"text", "json"}
    <3>0. type # "int" /\ type # "real"
      BY <2>3
    <3>1. ParseValue(type, c) = [text |-> c.text]
      BY <3>0 DEF ParseValue
    <3>2. c.text \in Seq(Byte)
      BY Zenon DEF IsCell, Byte
    <3>3. [text |-> c.text] \in TextValues
      BY <3>2, Zenon DEF TextValues
    <3> QED BY <3>0, <3>1, <3>3, Zenon DEF ValuesIn
  <2> QED BY <2>1, <2>2, <2>3, Zenon DEF Types
<1> SUFFICES ASSUME NEW columns \in Seq(Column), NEW cells, Takeable(columns, cells)
             PROVE  /\ RowTyped(columns, ValuesOf(columns, cells))
                    /\ \A i \in 1 .. Len(columns) :
                         ValuesOf(columns, cells)[i] = ParseValue(columns[i].type, cells[columns[i].name])
  OBVIOUS
<1> DEFINE v == ValuesOf(columns, cells)
           L == Len(columns)
           T == UNION {ValuesIn(t) : t \in Types}
           value(i) == ParseValue(columns[i].type, cells[columns[i].name])
<1>0. L \in Nat /\ DOMAIN columns = 1 .. L /\ \A i \in 1 .. L : columns[i] \in Column
  OBVIOUS
<1>1. v = [i \in 1 .. L |-> value(i)]
  BY <1>0, Zenon DEF ValuesOf
<1>2. ASSUME NEW i \in 1 .. L PROVE value(i) \in ValuesIn(columns[i].type) /\ value(i) \in T
  <2>1. columns[i].type \in Types
    BY <1>0, Zenon DEF Column
  <2>2. value(i) \in ValuesIn(columns[i].type)
    BY <2>1, <1>CellValue, Zenon DEF Takeable
  <2> QED BY <2>1, <2>2, Zenon
<1> HIDE DEF value, T, v
<1>3. v \in [1 .. L -> T] /\ \A i \in 1 .. L : v[i] = value(i)
  BY <1>1, <1>2, Zenon
<1>4. v \in Seq(T) /\ Len(v) = L
  BY <1>0, <1>3, FunctionIsSeq, Zenon
<1>5. RowTyped(columns, v)
  BY <1>2, <1>3, <1>4, Zenon DEF RowTyped, T
<1> QED BY <1>3, <1>5, Zenon DEF value, v

\* A layout that Publish takes, of columns that are typed.
Layout(g) ==
  /\ g.columns \in Seq(Column) /\ StagingValid(g) /\ g.record_bytes \in Nat

\* What a row's records hold.
Holds(g, cells, row) ==
  /\ DecodeRecord(g.columns, row.payload).ok
  /\ DecodeRecord(g.columns, row.payload).values = PayloadOf(g.columns, cells)
  /\ KeysAtRanks(g.columns, ValuesOf(g.columns, cells), g.key_bits, row.match)

MatchSize(g) == SearchableCount(g.columns) * MatchRecordBytes(g.key_bits)

\* The records of a row are those of the layout, and hold its values.
LEMMA RowIs ==
  \A g, cells :
    Layout(g) /\ Takeable(g.columns, cells) /\ RowFits(g, cells) =>
      LET row == RowOf(g, cells) IN
      /\ row.match \in Seq(Byte) /\ Len(row.match) = MatchSize(g)
      /\ row.payload \in Seq(Byte) /\ Len(row.payload) = g.record_bytes
      /\ Holds(g, cells, row)
\* The key and the payload of a row are its values.
<1>PayloadIs.
     ASSUME NEW columns, NEW cells
     PROVE  /\ PayloadOf(columns, cells) = Without(ValuesOf(columns, cells), KeyIndex(columns))
            /\ KeyOf(columns, cells) = ValuesOf(columns, cells)[KeyIndex(columns)]
  BY <1>PayloadIs, Zenon DEF PayloadOf, KeyOf, Without
<1> SUFFICES ASSUME NEW g, Layout(g), NEW cells, Takeable(g.columns, cells), RowFits(g, cells)
             PROVE  LET row == RowOf(g, cells) IN
                    /\ row.match \in Seq(Byte) /\ Len(row.match) = MatchSize(g)
                    /\ row.payload \in Seq(Byte) /\ Len(row.payload) = g.record_bytes
                    /\ Holds(g, cells, row)
  OBVIOUS
<1> DEFINE columns == g.columns
           v == ValuesOf(columns, cells)
           k == KeyIndex(columns)
           match == EncodeMatchRecord(columns, v[k], Without(v, k), g.key_bits)
           payload == EncodeRecord(Without(v, k), g.record_bytes)
<1>1. RowOf(g, cells) = [match |-> match, payload |-> payload]
  BY <1>PayloadIs, Zenon DEF RowOf
<1>2. KeysFit(columns, v[k], Without(v, k), g.key_bits) /\ Fits(Without(v, k), g.record_bytes)
  BY <1>PayloadIs, Zenon DEF RowFits
<1>3. columns \in Seq(Column) /\ Valid(columns) /\ g.record_bytes \in Nat /\ g.key_bits \in 1 .. 64
  BY Zenon DEF Layout, StagingValid
<1>4. g.key_bits \in Nat \ {0}
  <2>1. \A x \in 1 .. 64 : x \in Nat \ {0}
    OBVIOUS
  <2> QED BY <1>3, <2>1, Zenon
<1>5. RowTyped(columns, v)
  BY <1>3, ValuesTyped, Zenon
<1>6. KeyAt(columns, k)
  BY <1>3, KeyIs, Zenon
<1>6a. PayloadOf(columns, cells) = Without(v, k)
  BY <1>PayloadIs, Zenon
<1> HIDE DEF v, k, columns
<1>7. /\ payload \in Seq(Byte) /\ Len(payload) = g.record_bytes
      /\ DecodeRecord(columns, payload).ok /\ DecodeRecord(columns, payload).values = Without(v, k)
  <2> DEFINE bytes == g.record_bytes
  <2>1. bytes \in Nat /\ Fits(Without(v, k), bytes)
    BY <1>2, <1>3, Zenon
  <2> HIDE DEF bytes
  <2>2. DecodeRecord(columns, EncodeRecord(Without(v, k), bytes)).ok
    BY <1>5, <1>6, <2>1, RecordDecodes, Zenon
  <2>3. DecodeRecord(columns, EncodeRecord(Without(v, k), bytes)).values = Without(v, k)
    BY <1>5, <1>6, <2>1, RecordDecodes, SMT
  <2>4. EncodeRecord(Without(v, k), bytes) \in Seq(Byte) /\ Len(EncodeRecord(Without(v, k), bytes)) = bytes
    BY <1>5, <1>6, <2>1, RecordDecodes, SMT
  <2> QED BY <2>2, <2>3, <2>4, Zenon DEF bytes
<1>8. /\ match \in Seq(Byte) /\ Len(match) = SearchableCount(columns) * MatchRecordBytes(g.key_bits)
      /\ KeysAtRanks(columns, v, g.key_bits, match)
  BY <1>2, <1>3, <1>4, <1>5, <1>6, MatchRecordIs, Zenon
<1> HIDE DEF match, payload
<1>9. RowOf(g, cells).match = match /\ RowOf(g, cells).payload = payload
  BY <1>1
<1> QED BY <1>6a, <1>7, <1>8, <1>9, Zenon DEF Holds, MatchSize, columns, v

\* Neither kind of record is empty: there is a key.
LEMMA MatchSizeIs ==
  ASSUME NEW g, Layout(g)
  PROVE  MatchSize(g) \in Nat \ {0} /\ g.record_bytes \in Nat \ {0}
<1> DEFINE n == SearchableCount(g.columns)
           S == {i \in DOMAIN g.columns : IsSearchable(g.columns[i])}
           k == KeyIndex(g.columns)
<1>1. g.columns \in Seq(Column) /\ Valid(g.columns) /\ g.record_bytes \in Nat /\ g.record_bytes # 0
      /\ g.key_bits \in 1 .. 64
  BY Zenon DEF Layout, StagingValid
<1>2. g.key_bits \in Nat \ {0} /\ DOMAIN g.columns = 1 .. Len(g.columns) /\ Len(g.columns) \in Nat
  <2>1. /\ \A x \in 1 .. 64 : x \in Nat \ {0}
        /\ \A s \in Seq(Column) : DOMAIN s = 1 .. Len(s) /\ Len(s) \in Nat
    OBVIOUS
  <2> QED BY <1>1, <2>1, Zenon
<1>3. MatchRecordBytes(g.key_bits) \in Nat \ {0}
  BY <1>2, KeyBytes, Zenon
<1>4. k \in S
  <2>1. KeyAt(g.columns, k)
    BY <1>1, KeyIs, Zenon
  <2> HIDE DEF k
  <2>2. k \in 1 .. Len(g.columns) /\ g.columns[k].encoding = "eq"
    BY <2>1, Zenon DEF KeyAt
  <2> QED BY <1>2, <2>2, Zenon DEF IsSearchable
<1>5. IsFiniteSet(S)
  <2>1. IsFiniteSet(1 .. Len(g.columns))
    <3>1. 1 \in Int /\ Len(g.columns) \in Int
      BY <1>2
    <3> QED BY <3>1, FS_Interval, Zenon
  <2> QED BY <1>2, <2>1, FS_Subset, Zenon
<1>6. n = Cardinality(S)
  BY Zenon DEF SearchableCount
<1> HIDE DEF S, n, k
<1>7. n \in Nat \ {0}
  <2>1. Cardinality(S) \in Nat /\ (Cardinality(S) = 0 <=> S = {})
    BY <1>5, FS_CardinalityType, FS_EmptySet, Zenon
  <2>2. n \in Nat /\ n # 0
    BY <1>4, <1>6, <2>1, Zenon
  <2> QED BY <2>2
<1> DEFINE m == MatchRecordBytes(g.key_bits)
<1> HIDE DEF m
<1>8. \A x, y \in Nat \ {0} : x * y \in Nat \ {0}
  OBVIOUS
<1>9. n * m \in Nat \ {0}
  BY <1>3, <1>7, <1>8, Zenon DEF m
<1>10. g.record_bytes \in Nat \ {0}
  BY <1>1
<1> QED BY <1>9, <1>10, Zenon DEF MatchSize, n, m

-----------------------------------------------------------------------------
(* The epochs.                                                             *)

RowsFor(g, cells) == [r \in DOMAIN cells |-> RowOf(g, cells[r])]

\* The rows that a layout takes.
Rows(g, cells) ==
  /\ Len(cells) \in Nat /\ DOMAIN cells = 1 .. Len(cells)
  /\ cells = [r \in 1 .. Len(cells) |-> cells[r]]
  /\ \A r \in 1 .. Len(cells) : Takeable(g.columns, cells[r]) /\ RowFits(g, cells[r])

\* The files of an epoch are those that were written, or one of them is damaged.
Files(e, w) ==
  /\ e.manifest = w.manifest
  /\ e.match = w.match \/ e.match \in Damages(w.match)
  /\ e.payload = w.payload \/ e.payload \in Damages(w.payload)

\* An epoch that opens has the rows that were written.
LEMMA EpochReads ==
  ASSUME NEW g, Layout(g), NEW cells, Rows(g, cells), NEW e,
         Files(e, EpochOf(g, RowsFor(g, cells))), Opens(e)
  PROVE  RowsOf(e) = RowsFor(g, cells)
<1> DEFINE L == Len(cells)
           rows == RowsFor(g, cells)
           M == [r \in 1 .. L |-> rows[r].match]
           P == [r \in 1 .. L |-> rows[r].payload]
           wm == WriteSegment(MatchSize(g), M)
           wp == WriteSegment(g.record_bytes, P)
           w == EpochOf(g, rows)
<1>0. L \in Nat /\ DOMAIN cells = 1 .. L
  BY Zenon DEF Rows
<1>1. DOMAIN rows = 1 .. L /\ rows = [r \in 1 .. L |-> RowOf(g, cells[r])]
      /\ \A r \in 1 .. L : rows[r] = RowOf(g, cells[r])
  BY <1>0, Zenon DEF RowsFor
<1>2. ASSUME NEW r \in 1 .. L
      PROVE  /\ rows[r].match \in Seq(Byte) /\ Len(rows[r].match) = MatchSize(g)
             /\ rows[r].payload \in Seq(Byte) /\ Len(rows[r].payload) = g.record_bytes
  BY <1>1, RowIs, Zenon DEF Rows
<1> HIDE DEF rows
<1>3. M \in [1 .. L -> Seq(Byte)] /\ P \in [1 .. L -> Seq(Byte)]
      /\ \A r \in 1 .. L : M[r] = rows[r].match /\ P[r] = rows[r].payload
  BY <1>2, Zenon
<1>4. w.match = wm /\ w.payload = wp /\ w.manifest.match = Descriptor(wm)
      /\ w.manifest.payload = Descriptor(wp)
  <2>1. w = [match |-> wm, payload |-> wp,
             manifest |-> [columns |-> g.columns, key_bits |-> g.key_bits,
                           slot_count |-> g.slot_count, bytes_per_slot |-> g.bytes_per_slot,
                           record_bytes |-> g.record_bytes,
                           match |-> Descriptor(wm), payload |-> Descriptor(wp)]]
    BY <1>1, Zenon DEF EpochOf, MatchSize
  <2> HIDE DEF wm, wp, w
  <2> QED BY <2>1
<1> HIDE DEF M, P, L, w
<1>5. M \in Seq(Seq(Byte)) /\ Len(M) = L /\ P \in Seq(Seq(Byte)) /\ Len(P) = L
  BY <1>0, <1>3, FunctionIsSeq, Zenon
<1>6. Sized(MatchSize(g), M) /\ Sized(g.record_bytes, P)
  <2>1. MatchSize(g) \in Nat \ {0} /\ g.record_bytes \in Nat \ {0}
    BY MatchSizeIs, Zenon
  <2>2. \A r \in 1 .. L : Len(M[r]) = MatchSize(g) /\ Len(P[r]) = g.record_bytes
    BY <1>2, <1>3, Zenon
  <2> QED BY <1>5, <2>1, <2>2, Zenon DEF Sized
<1>7. SegmentOpens(e.match, Descriptor(wm)) /\ SegmentOpens(e.payload, Descriptor(wp))
  <2>1. e.manifest = w.manifest
    BY Zenon DEF Files, w, rows
  <2> HIDE DEF wm, wp
  <2> QED BY <1>4, <2>1, Zenon DEF Opens
<1>8. (e.match = wm \/ e.match \in Damages(wm)) /\ (e.payload = wp \/ e.payload \in Damages(wp))
  <2>1. (e.match = w.match \/ e.match \in Damages(w.match))
        /\ (e.payload = w.payload \/ e.payload \in Damages(w.payload))
    BY Zenon DEF Files, w, rows
  <2> HIDE DEF wm, wp
  <2> QED BY <1>4, <2>1, Zenon
<1>9. SegmentRecords(e.match) = M /\ SegmentRecords(e.payload) = P
  BY <1>6, <1>7, <1>8, SegmentSurvives, Zenon
<1>10. RowsOf(e) = [i \in 1 .. L |-> [match |-> M[i], payload |-> P[i]]]
  <2>1. DOMAIN M = 1 .. L
    BY <1>3, Zenon
  <2> QED BY <1>9, <2>1, Zenon DEF RowsOf
<1>11. ASSUME NEW i \in 1 .. L PROVE [match |-> M[i], payload |-> P[i]] = rows[i]
  <2> DEFINE a == EncodeMatchRecord(g.columns, KeyOf(g.columns, cells[i]),
                                    PayloadOf(g.columns, cells[i]), g.key_bits)
             b == EncodeRecord(PayloadOf(g.columns, cells[i]), g.record_bytes)
  <2>1. rows[i] = [match |-> a, payload |-> b]
    BY <1>1, Zenon DEF RowOf
  <2> HIDE DEF a, b
  <2>2. rows[i].match = a /\ rows[i].payload = b
    BY <2>1
  <2> QED BY <1>3, <2>1, <2>2, Zenon
<1>12. rows = [r \in 1 .. L |-> rows[r]]
  BY <1>1, Zenon
<1>13. RowsOf(e) = rows
  BY <1>10, <1>11, <1>12, Zenon
<1> QED BY <1>13, Zenon DEF rows

\* What an epoch that was published for the cells is.
Stored(e, cells, columns, whole) ==
  LET g == GeometryOf(e.manifest)
      w == EpochOf(g, RowsFor(g, cells))
  IN  /\ Layout(g) /\ g.columns = columns /\ Rows(g, cells)
      /\ DOMAIN e = {"match", "payload", "manifest"} /\ Files(e, w)
      /\ whole => e.match = w.match /\ e.payload = w.payload

\* Publish stores the rows that a layout takes.
LEMMA PublishStores ==
  \A columns, key_bits, slot_count, bytes_per_slot, record_bytes, g, cells, e :
    /\ g = [columns |-> columns, key_bits |-> key_bits, slot_count |-> slot_count,
            bytes_per_slot |-> bytes_per_slot, record_bytes |-> record_bytes]
    /\ Layout(g)
    /\ Rows(g, cells)
    /\ e = EpochOf(g, RowsFor(g, cells))
    => \A whole : Stored(e, cells, columns, whole)
\* The layout of an epoch is the one it was published with.
<1>LayoutStays.
     ASSUME NEW columns, NEW key_bits, NEW slot_count, NEW bytes_per_slot, NEW record_bytes, NEW g,
            g = [columns |-> columns, key_bits |-> key_bits, slot_count |-> slot_count,
                 bytes_per_slot |-> bytes_per_slot, record_bytes |-> record_bytes], NEW rows
     PROVE  GeometryOf(EpochOf(g, rows).manifest) = g
  <2> USE <1>LayoutStays
  <2> DEFINE wm == WriteSegment(SearchableCount(g.columns) * MatchRecordBytes(g.key_bits),
                                [i \in DOMAIN rows |-> rows[i].match])
             wp == WriteSegment(g.record_bytes, [i \in DOMAIN rows |-> rows[i].payload])
             dm == Descriptor(wm)
             dp == Descriptor(wp)
             m == EpochOf(g, rows).manifest
  <2>1. EpochOf(g, rows)
          = [match |-> wm, payload |-> wp,
             manifest |-> [columns |-> g.columns, key_bits |-> g.key_bits,
                           slot_count |-> g.slot_count, bytes_per_slot |-> g.bytes_per_slot,
                           record_bytes |-> g.record_bytes, match |-> dm, payload |-> dp]]
    BY Zenon DEF EpochOf
  <2> HIDE DEF wm, wp, dm, dp
  <2>2. m = [columns |-> g.columns, key_bits |-> g.key_bits, slot_count |-> g.slot_count,
             bytes_per_slot |-> g.bytes_per_slot, record_bytes |-> g.record_bytes,
             match |-> dm, payload |-> dp]
    BY <2>1
  <2> HIDE DEF m
  <2>3. /\ m.columns = g.columns /\ m.key_bits = g.key_bits /\ m.slot_count = g.slot_count
        /\ m.bytes_per_slot = g.bytes_per_slot /\ m.record_bytes = g.record_bytes
    BY <2>2
  <2>4. /\ g.columns = columns /\ g.key_bits = key_bits /\ g.slot_count = slot_count
        /\ g.bytes_per_slot = bytes_per_slot /\ g.record_bytes = record_bytes
    OBVIOUS
  <2>5. GeometryOf(m) = g
    BY <2>3, <2>4, Zenon DEF GeometryOf
  <2> QED BY <2>5, Zenon DEF m
<1> SUFFICES ASSUME NEW columns, NEW key_bits, NEW slot_count, NEW bytes_per_slot, NEW record_bytes, NEW g,
                    g = [columns |-> columns, key_bits |-> key_bits, slot_count |-> slot_count,
                         bytes_per_slot |-> bytes_per_slot, record_bytes |-> record_bytes],
                    Layout(g), NEW cells, Rows(g, cells), NEW e, e = EpochOf(g, RowsFor(g, cells))
             PROVE  \A whole : Stored(e, cells, columns, whole)
  OBVIOUS
<1>1. GeometryOf(e.manifest) = g
  BY <1>LayoutStays, Zenon
<1>2. g.columns = columns
  OBVIOUS
<1>3. Files(e, e)
  BY Zenon DEF Files
<1>4. DOMAIN e = {"match", "payload", "manifest"}
  <2> DEFINE rows == RowsFor(g, cells)
             wm == WriteSegment(SearchableCount(g.columns) * MatchRecordBytes(g.key_bits),
                                [i \in DOMAIN rows |-> rows[i].match])
             wp == WriteSegment(g.record_bytes, [i \in DOMAIN rows |-> rows[i].payload])
             m == [columns |-> g.columns, key_bits |-> g.key_bits,
                   slot_count |-> g.slot_count, bytes_per_slot |-> g.bytes_per_slot,
                   record_bytes |-> g.record_bytes, match |-> Descriptor(wm), payload |-> Descriptor(wp)]
  <2>1. e = [match |-> wm, payload |-> wp, manifest |-> m]
    BY Zenon DEF EpochOf
  <2> HIDE DEF wm, wp, m
  <2> QED BY <2>1
<1> QED BY <1>1, <1>2, <1>3, <1>4, Zenon DEF Stored

\* The sequence with one more element.
Longer(new, s, x) ==
  /\ Len(new) = Len(s) + 1 /\ DOMAIN new = 1 .. Len(s) + 1
  /\ new = [i \in 1 .. Len(s) + 1 |-> new[i]]
  /\ new[Len(s) + 1] = x /\ \A i \in 1 .. Len(s) : new[i] = s[i]

\* A row more.
LEMMA RowsMore ==
  \A g, cells, row :
    Rows(g, cells) /\ Takeable(g.columns, row) /\ RowFits(g, row) =>
      /\ Rows(g, Append(cells, row))
      /\ RowsFor(g, Append(cells, row)) = Append(RowsFor(g, cells), RowOf(g, row))
\* The same for any function on an interval from 1.
<1>AppendLonger.
     \A s : \A L \in Nat : \A x :
       s = [i \in 1 .. L |-> s[i]] =>
         Len(s) = L /\ Longer(Append(s, x), s, x)
  \* Append adds one element at the end.
  <2>AppendIs.
       ASSUME NEW T, NEW s \in Seq(T), NEW x \in T
       PROVE  /\ Append(s, x) \in Seq(T) /\ Len(Append(s, x)) = Len(s) + 1
              /\ Append(s, x)[Len(s) + 1] = x
              /\ \A i \in 1 .. Len(s) : Append(s, x)[i] = s[i]
    BY <2>AppendIs
  <2> SUFFICES ASSUME NEW s, NEW L \in Nat, s = [i \in 1 .. L |-> s[i]], NEW x
               PROVE  Len(s) = L /\ Longer(Append(s, x), s, x)
    OBVIOUS
  <2> DEFINE T == {s[i] : i \in 1 .. L} \cup {x}
             new == Append(s, x)
  <2>1. s \in [1 .. L -> T] /\ x \in T
    BY Zenon
  <2> HIDE DEF T
  <2>2. s \in Seq(T) /\ Len(s) = L
    BY <2>1, FunctionIsSeq, Zenon
  <2>3. new \in Seq(T) /\ Len(new) = L + 1 /\ new[L + 1] = x /\ \A i \in 1 .. L : new[i] = s[i]
    BY <2>1, <2>2, <2>AppendIs, SMT
  <2> HIDE DEF new
  <2>4. new \in [1 .. L + 1 -> T]
    BY <2>3
  <2>5. DOMAIN new = 1 .. L + 1 /\ new = [i \in 1 .. L + 1 |-> new[i]]
    BY <2>4, Zenon
  <2>6. Longer(new, s, x)
    BY <2>2, <2>3, <2>5, Zenon DEF Longer
  <2> QED BY <2>2, <2>6, Zenon DEF new
<1> SUFFICES ASSUME NEW g, NEW cells, Rows(g, cells), NEW row, Takeable(g.columns, row), RowFits(g, row)
             PROVE  /\ Rows(g, Append(cells, row))
                    /\ RowsFor(g, Append(cells, row)) = Append(RowsFor(g, cells), RowOf(g, row))
  OBVIOUS
<1> DEFINE L == Len(cells)
           new == Append(cells, row)
           rows == RowsFor(g, cells)
           more == Append(rows, RowOf(g, row))
<1>0. L \in Nat /\ DOMAIN cells = 1 .. L /\ cells = [r \in 1 .. L |-> cells[r]]
      /\ \A r \in 1 .. L : Takeable(g.columns, cells[r]) /\ RowFits(g, cells[r])
  BY Zenon DEF Rows
<1>1. Longer(new, cells, row)
  BY <1>0, <1>AppendLonger, Zenon
<1>2. rows = [r \in 1 .. L |-> rows[r]] /\ \A r \in 1 .. L : rows[r] = RowOf(g, cells[r])
  BY <1>0, Zenon DEF RowsFor
<1>3. Len(rows) = L /\ Longer(more, rows, RowOf(g, row))
  <2> HIDE DEF rows, L
  <2> QED BY <1>0, <1>2, <1>AppendLonger, Zenon
<1> HIDE DEF new, more, rows
<1>4. /\ Len(new) = L + 1 /\ DOMAIN new = 1 .. L + 1 /\ new = [i \in 1 .. L + 1 |-> new[i]]
      /\ new[L + 1] = row /\ \A i \in 1 .. L : new[i] = cells[i]
  BY <1>1, Zenon DEF Longer
<1>5. /\ more = [i \in 1 .. L + 1 |-> more[i]]
      /\ more[L + 1] = RowOf(g, row) /\ \A i \in 1 .. L : more[i] = rows[i]
  BY <1>3, Zenon DEF Longer
<1>6. \A i \in 1 .. L + 1 : i \in 1 .. L \/ i = L + 1
  BY <1>0
<1>7. L + 1 \in Nat
  BY <1>0
<1> HIDE DEF L
<1>8. \A i \in 1 .. L + 1 : Takeable(g.columns, new[i]) /\ RowFits(g, new[i])
  BY <1>0, <1>4, <1>6, Zenon
<1>9. Rows(g, new)
  BY <1>4, <1>7, <1>8, Zenon DEF Rows
<1>10. \A i \in 1 .. L + 1 : more[i] = RowOf(g, new[i])
  BY <1>2, <1>4, <1>5, <1>6, Zenon
<1>11. RowsFor(g, new) = [i \in 1 .. L + 1 |-> RowOf(g, new[i])]
  BY <1>4, Zenon DEF RowsFor
<1>12. RowsFor(g, new) = more
  BY <1>5, <1>10, <1>11, Zenon
<1> QED BY <1>9, <1>12, Zenon DEF new, more, rows

\* An epoch that is whole is also one that may be damaged.
LEMMA StoredWhole ==
  ASSUME NEW e, NEW cells, NEW columns, NEW whole, Stored(e, cells, columns, whole), NEW less, less => whole
  PROVE  Stored(e, cells, columns, less)
BY Zenon DEF Stored
=============================================================================
