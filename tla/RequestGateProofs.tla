------------------------- MODULE RequestGateProofs -------------------------
(***************************************************************************)
(* The rate limit for any number of threads and principals and any rate.   *)
(* RateBound is not inductive: a bucket that is fuller than the window     *)
(* accounts for would let one call too many pass.  RateInv adds what is    *)
(* in a bucket to what was taken from it.                                  *)
(***************************************************************************)
EXTENDS RequestGate, TLAPS, FiniteSetTheorems

\* What the limiter's arithmetic needs of the state.
Clocks ==
  /\ now \in Nat /\ since \in Nat /\ since <= now
  /\ limiters \in [Principal -> Bucket(Burst) \cup {NoBucket}]
  /\ global \in Bucket(Multiple * Burst)
  /\ count \in [Principal -> Nat] /\ total \in Nat

\* Units taken in the window and units left are what the window can have had.
Accounted(b, n, rate, burst) ==
  One * n + Refilled(b, rate, burst) <= burst + rate * (now - since)

RateInv ==
  /\ Clocks
  /\ \A p \in Principal : IF limiters[p] = NoBucket THEN count[p] = 0
                          ELSE Accounted(limiters[p], count[p], Rate, Burst)
  /\ Accounted(global, total, Multiple * Rate, Multiple * Burst)

-----------------------------------------------------------------------------
(* Arithmetic of one bucket.                                               *)

\* What a bucket has is between nothing and its burst.
LEMMA RefilledBounds ==
  ASSUME NEW rate \in Nat, NEW burst \in Nat, now \in Nat, NEW b \in Bucket(burst)
  PROVE  Refilled(b, rate, burst) \in 0 .. burst
<1>1. b.tokens \in 0 .. burst /\ b.last \in 0 .. now
  BY DEF Bucket
<1>2. now - b.last \in Nat
  BY <1>1
<1>3. rate * (now - b.last) \in Nat
  BY <1>2
<1> QED BY <1>1, <1>3 DEF Refilled, Least

\* TryAcquire leaves a bucket that has what it had, less the call it admits.
LEMMA AcquiredBucket ==
  ASSUME NEW rate \in Nat, NEW burst \in Nat, now \in Nat, NEW b \in Bucket(burst)
  PROVE  LET left == Acquired(b, rate, burst) IN
         /\ left \in Bucket(burst)
         /\ Refilled(left, rate, burst)
              = Refilled(b, rate, burst) - (IF Affords(b, rate, burst) THEN One ELSE 0)
<1> DEFINE r == Refilled(b, rate, burst)
           left == Acquired(b, rate, burst)
<1>1. r \in 0 .. burst
  BY RefilledBounds
<1>2. left = [tokens |-> r - (IF r >= One THEN One ELSE 0), last |-> now]
  BY DEF Acquired
<1>3. left.tokens \in 0 .. burst
  BY <1>1, <1>2, GateAssumption
<1>4. left \in Bucket(burst)
  BY <1>2, <1>3 DEF Bucket
<1>5. Refilled(left, rate, burst) = left.tokens
  <2>1. left.last = now
    BY <1>2
  <2>2. rate * (now - left.last) = 0
    BY <2>1
  <2> QED BY <1>3, <2>2 DEF Refilled, Least
<1> QED BY <1>2, <1>4, <1>5 DEF Affords

\* A new bucket is full.
LEMMA NewBucketFull ==
  ASSUME now \in Nat
  PROVE  /\ NewBucket(Burst) \in Bucket(Burst)
         /\ Refilled(NewBucket(Burst), Rate, Burst) = Burst
<1>1. Rate * (now - now) = 0
  BY GateAssumption
<1> QED BY <1>1, GateAssumption DEF NewBucket, Bucket, Refilled, Least

\* One tick refills a bucket by no more than its rate.
LEMMA TickRefill ==
  ASSUME NEW rate \in Nat, NEW burst \in Nat, NEW b \in Bucket(burst), now \in Nat,
         now' = now + 1
  PROVE  /\ b \in Bucket(burst)'
         /\ Least(burst, b.tokens + rate * (now' - b.last)) <= Refilled(b, rate, burst) + rate
<1>1. b.tokens \in 0 .. burst /\ b.last \in 0 .. now /\ now' - b.last = (now - b.last) + 1
  BY DEF Bucket
<1>2. b \in Bucket(burst)'
  BY <1>1 DEF Bucket
<1>3. now - b.last \in Nat
  BY <1>1
<1>4. rate * (now' - b.last) = rate * (now - b.last) + rate
  BY <1>1, <1>3
<1>5. rate * (now - b.last) \in Nat
  BY <1>3
<1> QED BY <1>1, <1>2, <1>4, <1>5 DEF Refilled, Least

-----------------------------------------------------------------------------

LEMMA InitRateInv == Init => RateInv
<1> SUFFICES ASSUME Init PROVE RateInv
  OBVIOUS
<1> USE GateAssumption DEF Init
<1>1. Multiple * Burst \in Nat /\ Multiple * Rate \in Nat
  OBVIOUS
<1>2. global \in Bucket(Multiple * Burst)
  BY <1>1 DEF Bucket
<1>3. Clocks
  BY <1>2 DEF Clocks
<1>4. Refilled(global, Multiple * Rate, Multiple * Burst) \in 0 .. Multiple * Burst
  BY <1>1, <1>2, RefilledBounds
<1>5. (Multiple * Rate) * (now - since) = 0 /\ One * total = 0
  BY <1>1
<1>6. Accounted(global, total, Multiple * Rate, Multiple * Burst)
  BY <1>1, <1>4, <1>5 DEF Accounted
<1> QED BY <1>3, <1>6 DEF RateInv

LEMMA AdmitRateInv ==
  ASSUME RateInv, NEW t \in Thread, Admit(t)
  PROVE  RateInv'
<1> DEFINE p == call[t].id
           bucket == BucketOf(p)
           mine == Affords(bucket, Rate, Burst)
           both == mine /\ Affords(global, Multiple * Rate, Multiple * Burst)
           left == Acquired(bucket, Rate, Burst)
           gleft == Acquired(global, Multiple * Rate, Multiple * Burst)
<1>a. now \in Nat /\ since \in Nat /\ now' = now /\ since' = since
  BY DEF RateInv, Clocks, Admit
<1>b. /\ Rate \in Nat /\ Burst \in Nat /\ One \in Nat
      /\ Multiple * Rate \in Nat /\ Multiple * Burst \in Nat
  BY GateAssumption
<1>c. \A x, rate, burst : Refilled(x, rate, burst)' = Refilled(x', rate, burst)
  BY <1>a DEF Refilled
<1>d. /\ limiters' = [limiters EXCEPT ![p] = left]
      /\ global' = IF mine THEN gleft ELSE global
      /\ count' = [count EXCEPT ![p] = @ + (IF both THEN 1 ELSE 0)]
      /\ total' = total + (IF both THEN 1 ELSE 0)
  BY DEF Admit
<1>1. ASSUME p \in Principal
      PROVE  /\ left \in Bucket(Burst) /\ left # NoBucket
             /\ One * (count[p] + (IF both THEN 1 ELSE 0)) + Refilled(left, Rate, Burst)
                  <= Burst + Rate * (now - since)
  <2>1. /\ bucket \in Bucket(Burst)
        /\ One * count[p] + Refilled(bucket, Rate, Burst) <= Burst + Rate * (now - since)
    <3>1. CASE limiters[p] = NoBucket
      <4>1. bucket = NewBucket(Burst) /\ count[p] = 0
        BY <1>1, <3>1 DEF BucketOf, RateInv
      <4>2. Rate * (now - since) \in Nat
        <5>1. now - since \in Nat
          BY <1>a DEF RateInv, Clocks
        <5> QED BY <5>1, <1>b
      <4> QED BY <1>a, <1>b, <4>1, <4>2, NewBucketFull
    <3>2. CASE limiters[p] # NoBucket
      BY <1>1, <3>2 DEF BucketOf, RateInv, Clocks, Accounted
    <3> QED BY <3>1, <3>2
  <2>2. /\ left \in Bucket(Burst)
        /\ Refilled(left, Rate, Burst) = Refilled(bucket, Rate, Burst) - (IF mine THEN One ELSE 0)
    BY <1>a, <1>b, <2>1, AcquiredBucket
  <2>3. left # NoBucket
    BY <2>2 DEF Bucket, NoBucket
  <2>4. Refilled(bucket, Rate, Burst) \in Int /\ Refilled(left, Rate, Burst) \in Int
    BY <1>a, <1>b, <2>1, <2>2, RefilledBounds
  <2>5. count[p] \in Nat /\ Rate * (now - since) \in Int
    BY <1>1, <1>a, <1>b DEF RateInv, Clocks
  <2>6. One * (count[p] + (IF both THEN 1 ELSE 0)) = One * count[p] + (IF both THEN One ELSE 0)
    BY <1>b, <2>5
  <2>7. One * count[p] \in Int
    BY <1>b, <2>5
  <2> QED BY <1>b, <2>1, <2>2, <2>3, <2>4, <2>5, <2>6, <2>7
<1>2. /\ global' \in Bucket(Multiple * Burst)
      /\ One * total' + Refilled(global', Multiple * Rate, Multiple * Burst)
           <= Multiple * Burst + (Multiple * Rate) * (now - since)
  <2> DEFINE mr == Multiple * Rate
             mb == Multiple * Burst
             held == Refilled(global, mr, mb)
             span == mr * (now - since)
  <2>1. /\ global \in Bucket(mb) /\ total \in Nat
        /\ One * total + held <= mb + span
    BY DEF RateInv, Clocks, Accounted
  <2>2. /\ gleft \in Bucket(mb)
        /\ Refilled(gleft, mr, mb) = held - (IF Affords(global, mr, mb) THEN One ELSE 0)
    BY <1>a, <1>b, <2>1, AcquiredBucket
  <2>3. held \in Int /\ One * total \in Int /\ span \in Int
    BY <1>a, <1>b, <2>1, RefilledBounds
  <2>4. One * (total + 1) = One * total + One
    BY <1>b, <2>1
  <2> HIDE DEF mr, mb, held, span
  <2>5. CASE both
    <3>1. global' = gleft /\ total' = total + 1 /\ Refilled(gleft, mr, mb) = held - One
      BY <1>d, <2>2, <2>5 DEF mr, mb
    <3>2. One * total' + Refilled(global', mr, mb) <= mb + span
      BY <1>b, <2>1, <2>3, <2>4, <3>1 DEF mb
    <3> QED BY <2>2, <3>1, <3>2 DEF mr, mb, span
  <2>6. CASE ~both
    <3>1. total' = total
      BY <1>d, <2>1, <2>6
    <3>2. CASE mine
      <4>1. global' = gleft /\ Refilled(gleft, mr, mb) = held
        BY <1>d, <2>2, <2>3, <2>6, <3>2 DEF mr, mb
      <4> QED BY <2>1, <2>2, <3>1, <4>1 DEF mr, mb, span
    <3>3. CASE ~mine
      <4>1. global' = global
        BY <1>d, <3>3
      <4> QED BY <2>1, <3>1, <4>1 DEF mr, mb, held, span
    <3> QED BY <3>2, <3>3
  <2> QED BY <2>5, <2>6
<1>3. limiters' \in [Principal -> Bucket(Burst) \cup {NoBucket}]
      /\ count' \in [Principal -> Nat] /\ total' \in Nat
  <2> HIDE DEF left, both
  <2>1. limiters \in [Principal -> Bucket(Burst) \cup {NoBucket}]
        /\ count \in [Principal -> Nat] /\ total \in Nat
    BY DEF RateInv, Clocks
  <2>2. p \in Principal => left \in Bucket(Burst)
    BY <1>1
  <2>3. (IF both THEN 1 ELSE 0) \in Nat
    OBVIOUS
  <2>4. limiters' \in [Principal -> Bucket(Burst) \cup {NoBucket}]
    BY <1>d, <2>1, <2>2, Zenon
  <2>5. count' \in [Principal -> Nat]
    <3> DEFINE n == IF both THEN 1 ELSE 0
    <3>1. count' = [count EXCEPT ![p] = count[p] + n] /\ n \in Nat
      BY <1>d, <2>3
    <3> HIDE DEF n
    <3>2. \A q \in Principal : count[q] + n \in Nat
      BY <2>1, <3>1
    <3> QED BY <2>1, <3>1, <3>2, Zenon
  <2>6. total' \in Nat
    BY <1>d, <2>1
  <2> QED BY <2>4, <2>5, <2>6
<1>4. Clocks'
  <2>1. Bucket(Burst)' = Bucket(Burst) /\ Bucket(Multiple * Burst)' = Bucket(Multiple * Burst)
    BY <1>a DEF Bucket
  <2>2. since <= now
    BY DEF RateInv, Clocks
  <2> QED BY <1>a, <1>2, <1>3, <2>1, <2>2 DEF Clocks
<1>5. ASSUME NEW q \in Principal
      PROVE  IF limiters'[q] = NoBucket THEN count'[q] = 0
             ELSE Accounted(limiters[q], count[q], Rate, Burst)'
  <2> HIDE DEF left, both
  <2>0. limiters \in [Principal -> Bucket(Burst) \cup {NoBucket}] /\ count \in [Principal -> Nat]
    BY DEF RateInv, Clocks
  <2>1. CASE q = p
    <3>1. limiters'[q] = left /\ count'[q] = count[p] + (IF both THEN 1 ELSE 0)
      BY <1>d, <2>0, <2>1, <1>5
    <3> QED BY <1>1, <1>a, <1>5, <2>1, <3>1 DEF Accounted, Refilled
  <2>2. CASE q # p
    <3>1. limiters'[q] = limiters[q] /\ count'[q] = count[q]
      BY <1>d, <2>0, <2>2, <1>5
    <3> QED BY <1>a, <1>5, <3>1 DEF Accounted, Refilled, RateInv
  <2> QED BY <2>1, <2>2
<1>6. Accounted(global, total, Multiple * Rate, Multiple * Burst)'
  BY <1>a, <1>2 DEF Accounted, Refilled
<1> QED BY <1>4, <1>5, <1>6 DEF RateInv

LEMMA TickRateInv ==
  ASSUME RateInv, Tick
  PROVE  RateInv'
<1>a. /\ now \in Nat /\ since \in Nat /\ since <= now /\ now' = now + 1
      /\ UNCHANGED <<limiters, global, since, count, total>>
  BY DEF RateInv, Clocks, Tick
<1>b. /\ Rate \in Nat /\ Burst \in Nat /\ One \in Nat
      /\ Multiple * Rate \in Nat /\ Multiple * Burst \in Nat
  BY GateAssumption
<1>1. ASSUME NEW rate \in Nat, NEW burst \in Nat, NEW b \in Bucket(burst), NEW n \in Nat,
             One * n + Refilled(b, rate, burst) <= burst + rate * (now - since)
      PROVE  One * n + Least(burst, b.tokens + rate * (now' - b.last))
               <= burst + rate * (now' - since)
  <2>1. Least(burst, b.tokens + rate * (now' - b.last)) <= Refilled(b, rate, burst) + rate
    BY <1>a, TickRefill
  <2>2. Refilled(b, rate, burst) \in Int
    BY <1>a, RefilledBounds
  <2>3. /\ b.tokens \in Int /\ b.last \in Int
    BY <1>1, <1>a DEF Bucket
  <2>4. rate * (now' - b.last) \in Int
    BY <1>a, <2>3
  <2>5. Least(burst, b.tokens + rate * (now' - b.last)) \in Int
    BY <2>3, <2>4 DEF Least
  <2>6. rate * (now' - since) = rate * (now - since) + rate
    BY <1>a
  <2>7. rate * (now - since) \in Int /\ One * n \in Int
    BY <1>a, <1>b
  <2> QED BY <1>1, <2>1, <2>2, <2>5, <2>6, <2>7
<1>2. /\ \A b \in Bucket(Burst) : b \in Bucket(Burst)'
      /\ \A b \in Bucket(Multiple * Burst) : b \in Bucket(Multiple * Burst)'
  BY <1>a, <1>b, TickRefill
<1>3. Clocks'
  <2>1. limiters' \in [Principal -> Bucket(Burst)' \cup {NoBucket}]
    BY <1>a, <1>2 DEF RateInv, Clocks
  <2>2. global' \in Bucket(Multiple * Burst)'
    BY <1>a, <1>2 DEF RateInv, Clocks
  <2> QED BY <1>a, <2>1, <2>2 DEF RateInv, Clocks
<1>4. ASSUME NEW p \in Principal
      PROVE  IF limiters'[p] = NoBucket THEN count'[p] = 0
             ELSE Accounted(limiters[p], count[p], Rate, Burst)'
  <2>1. CASE limiters[p] = NoBucket
    BY <1>a, <2>1 DEF RateInv
  <2>2. CASE limiters[p] # NoBucket
    <3>1. limiters[p] \in Bucket(Burst) /\ count[p] \in Nat
      BY <2>2 DEF RateInv, Clocks
    <3>2. One * count[p] + Refilled(limiters[p], Rate, Burst) <= Burst + Rate * (now - since)
      BY <2>2 DEF RateInv, Accounted
    <3>3. One * count[p] + Least(Burst, limiters[p].tokens + Rate * (now' - limiters[p].last))
            <= Burst + Rate * (now' - since)
      BY <1>b, <1>1, <3>1, <3>2
    <3> QED BY <1>a, <2>2, <3>3 DEF Accounted, Refilled
  <2> QED BY <2>1, <2>2
<1>5. Accounted(global, total, Multiple * Rate, Multiple * Burst)'
  <2>1. /\ global \in Bucket(Multiple * Burst) /\ total \in Nat
        /\ One * total + Refilled(global, Multiple * Rate, Multiple * Burst)
             <= Multiple * Burst + (Multiple * Rate) * (now - since)
    BY DEF RateInv, Clocks, Accounted
  <2>2. One * total + Least(Multiple * Burst,
                            global.tokens + (Multiple * Rate) * (now' - global.last))
          <= Multiple * Burst + (Multiple * Rate) * (now' - since)
    BY <1>b, <1>1, <2>1
  <2> QED BY <1>a, <2>2 DEF Accounted, Refilled
<1> QED BY <1>3, <1>4, <1>5 DEF RateInv

LEMMA OpenWindowRateInv ==
  ASSUME RateInv, OpenWindow
  PROVE  RateInv'
<1>a. /\ now \in Nat /\ since' = now /\ now' = now
      /\ limiters' = limiters /\ global' = global
      /\ count' = [p \in Principal |-> 0] /\ total' = 0
  BY DEF RateInv, Clocks, OpenWindow
<1>b. /\ Rate \in Nat /\ Burst \in Nat /\ One \in Nat
      /\ Multiple * Rate \in Nat /\ Multiple * Burst \in Nat
  BY GateAssumption
<1>1. Bucket(Burst)' = Bucket(Burst) /\ Bucket(Multiple * Burst)' = Bucket(Multiple * Burst)
  BY <1>a DEF Bucket
<1>2. Clocks'
  BY <1>a, <1>1 DEF RateInv, Clocks
<1>3. ASSUME NEW rate \in Nat, NEW burst \in Nat, NEW b \in Bucket(burst)
      PROVE  One * 0 + Refilled(b, rate, burst) <= burst + rate * (now - now)
  <2>1. Refilled(b, rate, burst) \in 0 .. burst
    BY <1>a, RefilledBounds
  <2>2. rate * (now - now) = 0 /\ One * 0 = 0
    BY <1>a, <1>b
  <2> QED BY <2>1, <2>2
<1>4. ASSUME NEW p \in Principal
      PROVE  IF limiters'[p] = NoBucket THEN count'[p] = 0
             ELSE Accounted(limiters[p], count[p], Rate, Burst)'
  <2>1. CASE limiters[p] = NoBucket
    BY <1>a, <2>1
  <2>2. CASE limiters[p] # NoBucket
    <3>1. limiters[p] \in Bucket(Burst)
      BY <2>2 DEF RateInv, Clocks
    <3>2. One * 0 + Refilled(limiters[p], Rate, Burst) <= Burst + Rate * (now - now)
      BY <1>b, <1>3, <3>1
    <3> QED BY <1>a, <2>2, <3>2 DEF Accounted, Refilled
  <2> QED BY <2>1, <2>2
<1>5. Accounted(global, total, Multiple * Rate, Multiple * Burst)'
  <2>1. global \in Bucket(Multiple * Burst)
    BY DEF RateInv, Clocks
  <2>2. One * 0 + Refilled(global, Multiple * Rate, Multiple * Burst)
          <= Multiple * Burst + (Multiple * Rate) * (now - now)
    BY <1>b, <1>3, <2>1
  <2> QED BY <1>a, <2>2 DEF Accounted, Refilled
<1> QED BY <1>2, <1>4, <1>5 DEF RateInv

\* A step that leaves buckets, clock and window alone keeps what is said of them.
LEMMA OtherRateInv ==
  ASSUME RateInv, UNCHANGED rateVars
  PROVE  RateInv'
<1>1. UNCHANGED <<limiters, global, now, since, count, total>>
  BY DEF rateVars
<1>2. Clocks'
  BY <1>1 DEF RateInv, Clocks, Bucket
<1> QED BY <1>1, <1>2 DEF RateInv, Accounted, Refilled

LEMMA NextRateInv == RateInv /\ [Next]_vars => RateInv'
<1> SUFFICES ASSUME RateInv, [Next]_vars PROVE RateInv'
  OBVIOUS
<1>1. ASSUME NEW t \in Thread, Arrive(t) \/ Check(t) \/ Return(t) PROVE RateInv'
  BY <1>1, OtherRateInv DEF Arrive, Check, Return
<1>2. ASSUME NEW t \in Thread, Admit(t) PROVE RateInv'
  BY <1>2, AdmitRateInv
<1>3. CASE WriteFile \/ Hangup \/ TakeFlag \/ ReadTokens \/ SetAuthenticator
  BY <1>3, OtherRateInv DEF WriteFile, Hangup, TakeFlag, ReadTokens, SetAuthenticator
<1>4. CASE Tick
  BY <1>4, TickRateInv
<1>5. CASE OpenWindow
  BY <1>5, OpenWindowRateInv
<1>6. CASE UNCHANGED vars
  BY <1>6, OtherRateInv DEF vars
<1> QED BY <1>1, <1>2, <1>3, <1>4, <1>5, <1>6 DEF Next

LEMMA RateInvImpliesBound == RateInv => RateBound
<1> SUFFICES ASSUME RateInv PROVE RateBound
  OBVIOUS
<1>a. now \in Nat /\ since \in Nat /\ since <= now
  BY DEF RateInv, Clocks
<1>b. /\ Rate \in Nat /\ Burst \in Nat /\ One \in Nat /\ Multiple \in Nat
      /\ Multiple * Rate \in Nat /\ Multiple * Burst \in Nat
  BY GateAssumption
<1>c. now - since \in Nat
  BY <1>a
<1>1. ASSUME NEW p \in Principal
      PROVE  One * count[p] <= Burst + Rate * (now - since)
  <2>1. Rate * (now - since) \in Nat /\ count[p] \in Nat
    BY <1>b, <1>c DEF RateInv, Clocks
  <2>2. CASE limiters[p] = NoBucket
    BY <1>b, <2>1, <2>2 DEF RateInv
  <2>3. CASE limiters[p] # NoBucket
    <3>1. Refilled(limiters[p], Rate, Burst) \in 0 .. Burst
      BY <1>a, <1>b, <2>3, RefilledBounds DEF RateInv, Clocks
    <3>2. One * count[p] \in Nat
      BY <1>b, <2>1
    <3> QED BY <1>b, <2>1, <2>3, <3>1, <3>2 DEF RateInv, Accounted
  <2> QED BY <2>2, <2>3
<1>2. One * total <= Multiple * (Burst + Rate * (now - since))
  <2>1. Refilled(global, Multiple * Rate, Multiple * Burst) \in 0 .. Multiple * Burst
    BY <1>a, <1>b, RefilledBounds DEF RateInv, Clocks
  <2>2. One * total \in Nat
    BY <1>b DEF RateInv, Clocks
  <2>3. Multiple * (Burst + Rate * (now - since))
          = Multiple * Burst + (Multiple * Rate) * (now - since)
    BY <1>b, <1>c
  <2>4. (Multiple * Rate) * (now - since) \in Nat
    BY <1>b, <1>c
  <2> QED BY <1>b, <2>1, <2>2, <2>3, <2>4 DEF RateInv, Accounted
<1> QED BY <1>1, <1>2 DEF RateBound

\* In every window a principal's admitted calls are bounded by its burst and the
\* refill of the window, and the node's by Multiple times that, whatever the
\* threads, principals, rates and reloads (RequestGate::Admit and TryAcquire).
THEOREM RateBounded == Spec => []RateBound
<1>1. Init => RateInv
  BY InitRateInv
<1>2. RateInv /\ [Next]_vars => RateInv'
  BY NextRateInv
<1>3. RateInv => RateBound
  BY RateInvImpliesBound
<1> QED BY <1>1, <1>2, <1>3, PTL DEF Spec

-----------------------------------------------------------------------------
(* Who is admitted.                                                        *)

Fields == {"step", "in", "required", "lists"}

\* A list in force since the call arrived permits it.
Allowed(c) == \E entries \in c.lists : Permitted(Authenticate(entries, c.in), c.required)

\* Before its check a call has seen the list in force; after it, the one that
\* permitted it.
ListInv ==
  /\ DOMAIN call = Thread
  /\ \A t \in Thread :
       \/ call[t].step = "idle"
       \/ call[t].step = "check" /\ DOMAIN call[t] = Fields /\ auth \in call[t].lists
       \/ /\ call[t].step \in {"admit", "handle"} /\ DOMAIN call[t] = Fields \cup {"id"}
          /\ Allowed(call[t])

\* auth.mode never changes, so a list permits later what it permits now.
LEMMA StillAllowed ==
  ASSUME mode' = mode, NEW c, NEW d,
         d.in = c.in, d.required = c.required, c.lists \subseteq d.lists, Allowed(c)
  PROVE  Allowed(d)'
<1>1. \A entries : Authenticate(entries, c.in)' = Authenticate(entries, c.in)
  BY DEF Authenticate
<1> QED BY <1>1 DEF Allowed

LEMMA CheckListInv ==
  ASSUME ListInv, NEW t \in Thread, Check(t)
  PROVE  ListInv'
<1>1. call[t].step = "check" /\ auth \in call[t].lists /\ UNCHANGED <<mode, auth>>
  BY DEF ListInv, Check, authVars
<1>2. CASE Authorized(t, auth)
  <2> DEFINE d == [step |-> "admit", in |-> call[t].in, required |-> call[t].required,
                   lists |-> call[t].lists, id |-> Authenticate(auth, call[t].in).id]
  <2>1. call' = [call EXCEPT ![t] = d]
    BY <1>2, Zenon DEF Check
  <2>2. /\ d.step = "admit" /\ DOMAIN d = Fields \cup {"id"} /\ d.in = call[t].in
        /\ d.required = call[t].required /\ d.lists = call[t].lists
    BY DEF Fields
  <2> HIDE DEF d
  <2>3. Allowed(call[t])
    BY <1>1, <1>2 DEF Authorized, Allowed
  <2>4. \A u \in Thread : Allowed(call[u]) => Allowed(call[u])' \/ u = t
    <3> SUFFICES ASSUME NEW u \in Thread, Allowed(call[u]), u # t PROVE Allowed(call[u])'
      OBVIOUS
    <3>1. call'[u] = call[u]
      BY <2>1
    <3> QED BY <1>1, <3>1, StillAllowed
  <2>5. call'[t] = d /\ Allowed(call[t])'
    <3>1. call'[t] = d
      BY <2>1 DEF ListInv
    <3> QED BY <1>1, <2>2, <2>3, <3>1, StillAllowed
  <2> QED BY <1>1, <2>1, <2>2, <2>4, <2>5 DEF ListInv
<1>3. CASE ~ Authorized(t, auth)
  <2>1. call' = [call EXCEPT ![t] = Idle] /\ UNCHANGED authVars
    BY <1>3 DEF Check
  <2>2. \A u \in Thread : u # t => call'[u] = call[u]
    BY <2>1
  <2>3. \A u \in Thread : Allowed(call[u]) /\ u # t => Allowed(call[u])'
    BY <1>1, <2>2, StillAllowed
  <2>4. call'[t].step = "idle" /\ DOMAIN call' = Thread
    BY <2>1 DEF ListInv, Idle
  <2> QED BY <1>1, <2>2, <2>3, <2>4 DEF ListInv
<1> QED BY <1>2, <1>3

\* A step that ends a call, or lets it go on to its handler.
LEMMA CallListInv ==
  ASSUME ListInv, NEW t \in Thread, UNCHANGED authVars,
         \/ call' = [call EXCEPT ![t] = Idle]
         \/ /\ call[t].step = "admit"
            /\ call' = [call EXCEPT ![t] = [call[t] EXCEPT !.step = "handle"]]
         \/ \E in, required : call' = [call EXCEPT ![t] = [step |-> "check", in |-> in,
                                         required |-> required, lists |-> {auth}]]
  PROVE  ListInv'
<1>1. UNCHANGED <<mode, auth>> /\ DOMAIN call' = Thread
  BY DEF authVars, ListInv
<1>2. \A u \in Thread : u # t => call'[u] = call[u]
  BY DEF ListInv
<1>3. \A u \in Thread : Allowed(call[u]) /\ u # t => Allowed(call[u])'
  BY <1>1, <1>2, StillAllowed
<1>4. \/ call'[t].step = "idle"
      \/ call'[t].step = "check" /\ DOMAIN call'[t] = Fields /\ auth' \in call'[t].lists
      \/ /\ call'[t].step \in {"admit", "handle"} /\ DOMAIN call'[t] = Fields \cup {"id"}
         /\ Allowed(call[t])'
  <2>1. CASE call' = [call EXCEPT ![t] = Idle]
    BY <2>1 DEF ListInv, Idle
  <2>2. CASE /\ call[t].step = "admit"
             /\ call' = [call EXCEPT ![t] = [call[t] EXCEPT !.step = "handle"]]
    <3>1. DOMAIN call[t] = Fields \cup {"id"} /\ Allowed(call[t])
      BY <2>2 DEF ListInv
    <3>2. /\ call'[t].step = "handle" /\ DOMAIN call'[t] = Fields \cup {"id"}
          /\ call'[t].in = call[t].in /\ call'[t].required = call[t].required
          /\ call'[t].lists = call[t].lists
      BY <2>2, <3>1 DEF ListInv, Fields
    <3> QED BY <1>1, <3>1, <3>2, StillAllowed
  <2>3. ASSUME NEW in, NEW required,
               call' = [call EXCEPT ![t] = [step |-> "check", in |-> in,
                                            required |-> required, lists |-> {auth}]]
        PROVE  call'[t].step = "check" /\ DOMAIN call'[t] = Fields /\ auth' \in call'[t].lists
    BY <1>1, <2>3 DEF ListInv, Fields
  <2> QED BY <2>1, <2>2, <2>3
<1> QED BY <1>1, <1>2, <1>3, <1>4 DEF ListInv

\* The swap: calls before their check see the new list.
LEMMA SwapListInv ==
  ASSUME ListInv, SetAuthenticator
  PROVE  ListInv'
<1>1. auth' = loaded /\ mode' = mode /\ call' = Seen(loaded)
  BY DEF SetAuthenticator
<1>2. DOMAIN call' = Thread
  BY <1>1 DEF Seen
<1>3. \A t \in Thread : call[t].step # "check" => call'[t] = call[t]
  BY <1>1 DEF Seen
<1>4. \A t \in Thread : call[t].step = "check" =>
        call'[t].step = "check" /\ DOMAIN call'[t] = Fields /\ auth' \in call'[t].lists
  BY <1>1 DEF Seen, ListInv, Fields
<1>5. \A t \in Thread : Allowed(call[t]) /\ call[t].step # "check" => Allowed(call[t])'
  BY <1>1, <1>3, StillAllowed
<1> QED BY <1>2, <1>3, <1>4, <1>5 DEF ListInv

LEMMA QuietListInv ==
  ASSUME ListInv, UNCHANGED <<mode, auth, call>>
  PROVE  ListInv'
<1>1. \A t \in Thread : Allowed(call[t]) => Allowed(call[t])'
  BY StillAllowed
<1> QED BY <1>1 DEF ListInv

LEMMA NextListInv == ListInv /\ [Next]_vars => ListInv'
<1> SUFFICES ASSUME ListInv, [Next]_vars PROVE ListInv'
  OBVIOUS
<1>1. ASSUME NEW t \in Thread, Arrive(t) PROVE ListInv'
  <2>1. UNCHANGED authVars
    BY <1>1 DEF Arrive
  <2>2. \E in, required : call' = [call EXCEPT ![t] = [step |-> "check", in |-> in,
                                      required |-> required, lists |-> {auth}]]
    BY <1>1, Zenon DEF Arrive
  <2> QED BY <2>1, <2>2, CallListInv, Zenon
<1>2. ASSUME NEW t \in Thread, Check(t) PROVE ListInv'
  BY <1>2, CheckListInv
<1>3. ASSUME NEW t \in Thread, Admit(t) PROVE ListInv'
  <2>1. /\ call[t].step = "admit" /\ UNCHANGED authVars
        /\ \/ call' = [call EXCEPT ![t] = Idle]
           \/ call' = [call EXCEPT ![t] = [call[t] EXCEPT !.step = "handle"]]
    BY <1>3, Zenon DEF Admit
  <2> QED BY <2>1, CallListInv
<1>4. ASSUME NEW t \in Thread, Return(t) PROVE ListInv'
  BY <1>4, CallListInv, Zenon DEF Return
<1>5. CASE SetAuthenticator
  BY <1>5, SwapListInv
<1>6. CASE WriteFile \/ Hangup \/ TakeFlag \/ ReadTokens \/ Tick \/ OpenWindow \/ UNCHANGED vars
  BY <1>6, QuietListInv
  DEF WriteFile, Hangup, TakeFlag, ReadTokens, Tick, OpenWindow, authVars, vars
<1> QED BY <1>1, <1>2, <1>3, <1>4, <1>5, <1>6 DEF Next

\* RequestGate::Check against SetAuthenticator: whatever the threads, the token files
\* and the moments of reloads, a call that is handled was permitted, with its role, by
\* a credential list in force after it arrived.
THEOREM AdmittedByOneList == Spec => []AdmittedByList
<1>1. Init => ListInv
  BY DEF Init, ListInv, Idle
<1>2. ListInv => AdmittedByList
  BY DEF ListInv, AdmittedByList, Allowed
<1> QED BY <1>1, <1>2, NextListInv, PTL DEF Spec

-----------------------------------------------------------------------------
(* Who is charged.                                                         *)

\* A set of numbers up to n has a greatest one.
LEMMA GreatestExists ==
  ASSUME NEW n \in Nat, NEW S \in SUBSET (1 .. n), S # {}
  PROVE  \E i \in S : \A j \in S : j <= i
<1> DEFINE Above == {k \in Nat : \A j \in S : j <= k}
<1>1. n \in Above
  OBVIOUS
<1>2. PICK k \in Above : \A m \in Above : ~ (m < k)
  <2> DEFINE R == OpToRel(<, Nat)
  <2>1. IsWellFoundedOn(R, Nat)
    BY NatLessThanWellFounded
  <2>2. PICK k \in Above : \A m \in Above : ~ (<<m, k>> \in R)
    BY <1>1, <2>1, WFMin, Zenon
  <2> QED BY <2>2 DEF OpToRel
<1>3. k \in S
  <2> SUFFICES ASSUME k \notin S PROVE FALSE
    OBVIOUS
  <2>1. PICK j \in S : TRUE
    OBVIOUS
  <2>2. k - 1 \in Nat /\ \A i \in S : i <= k - 1
    BY <2>1
  <2> QED BY <1>2, <2>2
<1> QED BY <1>3

\* Whoever an authenticator knows is a principal.
LEMMA KnownIsPrincipal ==
  ASSUME mode \in {"token", "mtls", "none"}, NEW in \in Inputs, NEW entries,
         mode = "token" => entries \in TokenFile \ {Malformed},
         Authenticate(entries, in) # NoPrincipal
  PROVE  Authenticate(entries, in).id \in Principal
<1>1. CASE mode = "token"
  <2> DEFINE found == {i \in DOMAIN entries : entries[i].token = in.token}
             last == CHOOSE i \in found : \A j \in found : j <= i
  <2>1. Authenticate(entries, in) = TokenPrincipal(entries, in)
    BY <1>1 DEF Authenticate
  <2>2. found # {} /\ TokenPrincipal(entries, in) = [id |-> entries[last].id, role |-> entries[last].role]
    BY <2>1 DEF TokenPrincipal
  <2>3. Len(entries) \in Nat /\ found \in SUBSET (1 .. Len(entries))
    BY <1>1, PrincipalAssumption
  <2>4. \E i \in found : \A j \in found : j <= i
    <3> HIDE DEF found
    <3> QED BY <2>2, <2>3, GreatestExists
  <2>5. last \in found
    BY <2>4, Zenon
  <2>6. entries[last].id \in Principal
    BY <1>1, <2>5, PrincipalAssumption, Zenon
  <2> HIDE DEF last
  <2> QED BY <2>1, <2>2, <2>6
<1>2. CASE mode = "mtls"
  <2>1. Authenticate(entries, in) = MtlsPrincipal(in)
    BY <1>2 DEF Authenticate
  <2>2. in.identity # NoValue /\ in.identity \in Principal
    BY <2>1, PrincipalAssumption DEF MtlsPrincipal
  <2>3. MtlsPrincipal(in).id = in.identity
    BY <2>2 DEF MtlsPrincipal
  <2> QED BY <2>1, <2>2, <2>3
<1>3. CASE mode = "none"
  <2>1. Authenticate(entries, in) = [id |-> CHOOSE p \in Principal : TRUE, role |-> "query"]
    BY <1>3 DEF Authenticate
  <2>2. (CHOOSE p \in Principal : TRUE) \in Principal
    BY PrincipalAssumption, Zenon
  <2> QED BY <2>1, <2>2
<1> QED BY <1>1, <1>2, <1>3

\* The lists in force and on their way there parse, and a call that is to be charged
\* has its principal's id.
IdInv ==
  /\ mode \in {"token", "mtls", "none"} /\ file \in TokenFile
  /\ mode = "token" =>
       /\ auth \in TokenFile \ {Malformed}
       /\ loop = "swap" => loaded \in TokenFile \ {Malformed}
  /\ \A t \in Thread :
       /\ call[t].step = "check" => call[t].in \in Inputs
       /\ call[t].step = "admit" => call[t].id \in Principal

LEMMA InitIdInv == Init => IdInv
BY PrincipalAssumption DEF Init, IdInv, Idle

\* A step that ends a call or hands it to its handler.
LEMMA EndIdInv ==
  ASSUME ListInv, IdInv, UNCHANGED authVars, NEW t \in Thread,
         \A u \in Thread : u # t => call'[u] = call[u],
         call'[t].step \notin {"check", "admit"}
  PROVE  IdInv'
BY Zenon DEF IdInv, authVars

LEMMA NextIdInv == ListInv /\ IdInv /\ [Next]_vars => IdInv'
<1> SUFFICES ASSUME ListInv, IdInv, [Next]_vars PROVE IdInv'
  OBVIOUS
<1>1. ASSUME NEW t \in Thread, Arrive(t) PROVE IdInv'
  <2>1. PICK in \in Inputs, required \in {"query", "admin"} :
          call' = [call EXCEPT ![t] = [step |-> "check", in |-> in, required |-> required,
                                       lists |-> {auth}]]
    BY <1>1 DEF Arrive
  <2>2. call'[t].step = "check" /\ call'[t].in = in
        /\ \A u \in Thread : u # t => call'[u] = call[u]
    BY <2>1 DEF ListInv
  <2>3. UNCHANGED authVars
    BY <1>1 DEF Arrive
  <2> QED BY <2>2, <2>3 DEF IdInv, authVars
<1>2. ASSUME NEW t \in Thread, Check(t) PROVE IdInv'
  <2>0. UNCHANGED authVars /\ call[t].step = "check"
    BY <1>2 DEF Check
  <2>1. CASE Authorized(t, auth)
    <3>1. call' = [call EXCEPT ![t] = [step |-> "admit", in |-> call[t].in,
                     required |-> call[t].required, lists |-> call[t].lists,
                     id |-> Authenticate(auth, call[t].in).id]]
      BY <1>2, <2>1, Zenon DEF Check
    <3>2. call'[t].step = "admit" /\ call'[t].id = Authenticate(auth, call[t].in).id
          /\ \A u \in Thread : u # t => call'[u] = call[u]
      BY <3>1 DEF ListInv
    <3>3. Authenticate(auth, call[t].in) # NoPrincipal
      BY <2>1 DEF Authorized, Permitted
    <3>4. Authenticate(auth, call[t].in).id \in Principal
      <4>1. mode \in {"token", "mtls", "none"} /\ call[t].in \in Inputs
            /\ (mode = "token" => auth \in TokenFile \ {Malformed})
        BY <2>0, Zenon DEF IdInv
      <4> QED BY <3>3, <4>1, KnownIsPrincipal, Zenon
    <3> QED BY <2>0, <3>2, <3>4 DEF IdInv, authVars
  <2>2. CASE ~ Authorized(t, auth)
    <3>1. call' = [call EXCEPT ![t] = Idle]
      BY <1>2, <2>2 DEF Check
    <3>2. call'[t].step = "idle" /\ \A u \in Thread : u # t => call'[u] = call[u]
      BY <3>1 DEF ListInv, Idle
    <3> QED BY <2>0, <3>2, EndIdInv
  <2> QED BY <2>1, <2>2
<1>3. ASSUME NEW t \in Thread, Admit(t) PROVE IdInv'
  <2>1. UNCHANGED authVars /\ call[t].step = "admit"
        /\ (call' = [call EXCEPT ![t] = Idle]
              \/ call' = [call EXCEPT ![t] = [call[t] EXCEPT !.step = "handle"]])
    BY <1>3, Zenon DEF Admit
  <2>2. DOMAIN call[t] = Fields \cup {"id"}
    BY <2>1 DEF ListInv
  <2>3. call'[t].step \in {"idle", "handle"} /\ \A u \in Thread : u # t => call'[u] = call[u]
    BY <2>1, <2>2 DEF ListInv, Idle, Fields
  <2> QED BY <2>1, <2>3, EndIdInv
<1>4. ASSUME NEW t \in Thread, Return(t) PROVE IdInv'
  <2>1. UNCHANGED authVars /\ call' = [call EXCEPT ![t] = Idle]
    BY <1>4 DEF Return
  <2>2. call'[t].step = "idle" /\ \A u \in Thread : u # t => call'[u] = call[u]
    BY <2>1 DEF ListInv, Idle
  <2> QED BY <2>1, <2>2, EndIdInv
<1>5. CASE SetAuthenticator
  <2>1. \A t \in Thread : IF call[t].step = "check"
                             THEN call'[t].step = "check" /\ call'[t].in = call[t].in
                             ELSE call'[t] = call[t]
    BY <1>5 DEF SetAuthenticator, Seen, ListInv, Fields
  <2>2. mode' = mode /\ file' = file /\ loop = "swap" /\ auth' = loaded /\ loop' = "wait"
    BY <1>5 DEF SetAuthenticator
  <2> QED BY <2>1, <2>2 DEF IdInv
<1>6. CASE ReadTokens
  BY <1>6 DEF ReadTokens, IdInv
<1>7. CASE WriteFile \/ Hangup \/ TakeFlag \/ Tick \/ OpenWindow \/ UNCHANGED vars
  BY <1>7 DEF WriteFile, Hangup, TakeFlag, Tick, OpenWindow, authVars, vars, IdInv
<1> QED BY <1>1, <1>2, <1>3, <1>4, <1>5, <1>6, <1>7 DEF Next

-----------------------------------------------------------------------------
(* The global bucket has what the principals' buckets have together.       *)

\* What a principal can take now.
Units(p) == Refilled(BucketOf(p), Rate, Burst)

\* What the node can admit now.
Global == Refilled(global, Multiple * Rate, Multiple * Burst)

\* e lists the n principals.
Enumeration(e, n) ==
  /\ n \in Nat /\ n <= Multiple /\ e \in [1 .. n -> Principal]
  /\ \A i, j \in 1 .. n : e[i] = e[j] => i = j
  /\ \A p \in Principal : \E i \in 1 .. n : e[i] = p

\* share[i] covers what the first i principals can take, and the global bucket all.
Covered(e, n, share) ==
  /\ share \in [0 .. n -> Nat]
  /\ \A i, j \in 0 .. n : i < j => share[i] + Units(e[j]) <= share[j]
  /\ share[n] <= Global

ShareInv(e, n) == ~ throttled /\ \E share : Covered(e, n, share)

\* Products grow with their factors.
LEMMA ProductGrows ==
  ASSUME NEW i \in Nat, NEW j \in Nat, NEW r \in Nat
  PROVE  /\ i * r \in Nat
         /\ i <= j => i * r <= j * r
         /\ i < j => i * r + r <= j * r
<1>1. i * r \in Nat /\ j * r \in Nat
  OBVIOUS
<1>2. ASSUME i <= j PROVE i * r <= j * r
  <2>1. PICK k \in Nat : j = i + k
    <3>1. j - i \in Nat /\ j = i + (j - i)
      BY <1>2
    <3> QED BY <3>1
  <2>2. j * r = i * r + k * r /\ k * r \in Nat
    BY <2>1
  <2> QED BY <1>1, <2>2
<1>3. ASSUME i < j PROVE i * r + r <= j * r
  <2>1. PICK k \in Nat : j = (i + 1) + k
    <3>1. j - (i + 1) \in Nat /\ j = (i + 1) + (j - (i + 1))
      BY <1>3
    <3> QED BY <3>1
  <2>2. j * r = (i * r + r) + k * r /\ k * r \in Nat
    BY <2>1
  <2> QED BY <1>1, <2>2
<1> QED BY <1>1, <1>2, <1>3

\* What a principal can take is between nothing and its burst.
LEMMA UnitsBounds ==
  ASSUME Clocks, NEW p \in Principal
  PROVE  Units(p) \in Nat /\ Units(p) <= Burst /\ BucketOf(p) \in Bucket(Burst)
<1>1. now \in Nat /\ limiters[p] \in Bucket(Burst) \cup {NoBucket}
  BY DEF Clocks
<1>2. BucketOf(p) \in Bucket(Burst)
  BY <1>1, NewBucketFull DEF BucketOf
<1>3. Units(p) \in 0 .. Burst
  BY <1>1, <1>2, RefilledBounds, GateAssumption DEF Units
<1> QED BY <1>2, <1>3, GateAssumption

LEMMA InitShareInv ==
  ASSUME NEW e, NEW n, Enumeration(e, n), Init
  PROVE  ShareInv(e, n)
<1> DEFINE share == [i \in 0 .. n |-> i * Burst]
<1>0. n \in Nat /\ Burst \in Nat /\ Multiple \in Nat /\ n <= Multiple
  BY GateAssumption DEF Enumeration
<1>1. share \in [0 .. n -> Nat]
  BY <1>0, ProductGrows
<1>2. Clocks
  BY InitRateInv DEF RateInv
<1>3. ASSUME NEW i \in 0 .. n, NEW j \in 0 .. n, i < j
      PROVE  share[i] + Units(e[j]) <= share[j]
  <2>1. e[j] \in Principal
    BY <1>0, <1>3 DEF Enumeration
  <2>2. Units(e[j]) \in Nat /\ Units(e[j]) <= Burst
    BY <1>2, <2>1, UnitsBounds
  <2>3. i * Burst + Burst <= j * Burst /\ i * Burst \in Nat /\ j * Burst \in Nat
    BY <1>0, <1>3, ProductGrows
  <2> QED BY <1>0, <2>2, <2>3
<1>4. share[n] <= Global
  <2>1. n * Burst <= Multiple * Burst /\ n * Burst \in Nat /\ Multiple * Burst \in Nat
    BY <1>0, ProductGrows
  <2>2. global.tokens = Multiple * Burst /\ now - global.last = 0
    BY DEF Init
  <2>3. (Multiple * Rate) * (now - global.last) = 0
    BY <2>2, GateAssumption
  <2>4. Global = Multiple * Burst
    BY <2>1, <2>2, <2>3 DEF Global, Refilled, Least
  <2> QED BY <1>0, <2>1, <2>4
<1>5. Covered(e, n, share)
  BY <1>1, <1>3, <1>4 DEF Covered
<1> QED BY <1>5, Zenon DEF ShareInv, Init

\* Two buckets are charged together.
LEMMA AdmitShareInv ==
  ASSUME NEW e, NEW n, Enumeration(e, n), Clocks, IdInv, ShareInv(e, n),
         NEW t \in Thread, Admit(t)
  PROVE  ShareInv(e, n)'
<1>1. PICK p \in Principal : p = call[t].id
  BY Zenon DEF IdInv, Admit
<1>2. PICK share : Covered(e, n, share)
  BY Zenon DEF ShareInv
<1>3. PICK k \in 1 .. n : e[k] = p
  BY Zenon DEF Enumeration
<1> DEFINE bucket == BucketOf(p)
           left == Acquired(bucket, Rate, Burst)
           gleft == Acquired(global, Multiple * Rate, Multiple * Burst)
           mine == Affords(bucket, Rate, Burst)
           both == mine /\ Affords(global, Multiple * Rate, Multiple * Burst)
<1>4. /\ limiters' = [limiters EXCEPT ![p] = left]
      /\ global' = IF mine THEN gleft ELSE global
      /\ throttled' = (throttled \/ (mine /\ ~ both)) /\ now' = now
  BY <1>1, Zenon DEF Admit
<1>5. /\ One \in Nat \ {0} /\ Rate \in Nat /\ Burst \in Nat
      /\ Multiple * Rate \in Nat /\ Multiple * Burst \in Nat
      /\ n \in Nat /\ now \in Nat /\ global \in Bucket(Multiple * Burst)
  BY GateAssumption DEF Enumeration, Clocks
<1>6. bucket \in Bucket(Burst) /\ \A q \in Principal : Units(q) \in Nat
  BY UnitsBounds, Zenon
<1>7. left \in Bucket(Burst) /\ Refilled(left, Rate, Burst) = Units(p) - (IF mine THEN One ELSE 0)
  BY <1>5, <1>6, AcquiredBucket DEF Units
<1>8. left # NoBucket
  BY <1>7 DEF Bucket, NoBucket
<1> HIDE DEF left
<1>9. Units(p)' = Units(p) - (IF mine THEN One ELSE 0)
  <2>1. limiters'[p] = left
    BY <1>4 DEF Clocks
  <2>2. BucketOf(p)' = left
    BY <1>8, <2>1, Zenon DEF BucketOf
  <2>3. Units(p)' = Refilled(left, Rate, Burst)
    BY <1>4, <2>2, Zenon DEF Units, Refilled
  <2> QED BY <1>7, <2>3, Zenon
<1>10. \A q \in Principal : q # p => Units(q)' = Units(q)
  <2> SUFFICES ASSUME NEW q \in Principal, q # p PROVE Units(q)' = Units(q)
    OBVIOUS
  <2>1. limiters'[q] = limiters[q]
    BY <1>4 DEF Clocks
  <2>2. BucketOf(q)' = BucketOf(q)
    BY <1>4, <2>1, Zenon DEF BucketOf, NewBucket
  <2> QED BY <1>4, <2>2, Zenon DEF Units, Refilled
<1>11. /\ share \in [0 .. n -> Nat] /\ share[n] <= Global
       /\ \A i, j \in 0 .. n : i < j => share[i] + Units(e[j]) <= share[j]
  BY <1>2, Zenon DEF Covered
<1>12. \A j \in 1 .. n : e[j] \in Principal /\ (j # k => e[j] # p)
  BY <1>3, Zenon DEF Enumeration
<1>13. (mine <=> Units(p) >= One) /\ Units(p) \in Nat
  BY <1>6, Zenon DEF Affords, Units
<1> HIDE DEF mine, both, bucket
<1>14. ASSUME mine PROVE ShareInv(e, n)'
  <2>1. Units(p) >= One /\ share[0] + Units(p) <= share[k] /\ share[k] <= share[n]
    <3>1. 0 \in 0 .. n /\ k \in 0 .. n /\ n \in 0 .. n /\ 0 < k /\ n \in 1 .. n
      BY <1>5
    <3>2. share[0] + Units(p) <= share[k]
      BY <1>3, <1>11, <3>1, Zenon
    <3>3. Units(e[n]) \in Nat /\ share[k] \in Nat /\ share[n] \in Nat
      BY <1>6, <1>11, <1>12, <3>1, Zenon
    <3>4. k # n => share[k] + Units(e[n]) <= share[n]
      BY <1>5, <1>11, <3>1
    <3> QED BY <1>13, <1>14, <3>2, <3>3, <3>4
  <2>2. Global \in Nat /\ share[0] \in Nat /\ share[k] \in Nat /\ share[n] \in Nat
    <3>1. Global \in 0 .. Multiple * Burst
      BY <1>5, RefilledBounds DEF Global
    <3>2. 0 \in 0 .. n /\ k \in 0 .. n /\ n \in 0 .. n
      BY <1>5
    <3> QED BY <1>5, <1>11, <3>1, <3>2
  <2>3. Global >= One
    BY <1>5, <1>11, <1>13, <2>1, <2>2
  <2>4. Affords(global, Multiple * Rate, Multiple * Burst)
    BY <2>3, Zenon DEF Affords, Global
  <2>5. ~ throttled' /\ global' = gleft
    BY <1>4, <1>14, <2>4, Zenon DEF both, ShareInv
  <2>6. Global' = Global - One
    <3>1. Refilled(gleft, Multiple * Rate, Multiple * Burst) = Global - One
      BY <1>5, <2>4, AcquiredBucket DEF Global
    <3>2. Global' = Refilled(gleft, Multiple * Rate, Multiple * Burst)
      BY <1>4, <2>5, Zenon DEF Global, Refilled
    <3> QED BY <3>1, <3>2, Zenon
  <2> DEFINE rest == [i \in 0 .. n |-> IF i < k THEN share[i] ELSE share[i] - One]
  <2>7. \A i \in 0 .. n : i >= k => share[i] - One \in Nat
    <3> SUFFICES ASSUME NEW i \in 0 .. n, i >= k PROVE share[i] >= One
      BY <1>5, <1>11
    <3>1. share[i] \in Nat /\ k \in 0 .. n
      BY <1>5, <1>11
    <3>2. share[k] >= One
      BY <1>5, <1>13, <2>1, <2>2
    <3>3. CASE i # k
      <4>1. i \in 1 .. n /\ k < i
        BY <1>5, <3>3
      <4>2. Units(e[i]) \in Nat /\ share[k] + Units(e[i]) <= share[i]
        BY <1>6, <1>11, <1>12, <3>1, <4>1, Zenon
      <4> QED BY <1>5, <2>2, <3>1, <3>2, <4>2
    <3> QED BY <3>2, <3>3
  <2>8. rest \in [0 .. n -> Nat]
    BY <1>11, <2>7
  <2>9. ASSUME NEW i \in 0 .. n, NEW j \in 0 .. n, i < j
        PROVE  rest[i] + Units(e[j])' <= rest[j]
    <3>1. /\ share[i] \in Nat /\ share[j] \in Nat /\ j \in 1 .. n /\ k \in 0 .. n
          /\ share[i] + Units(e[j]) <= share[j]
      BY <1>5, <1>11, <2>9
    <3>2. Units(e[j]) \in Nat
      BY <1>6, <1>12, <3>1, Zenon
    <3>3. CASE j = k
      <4>1. Units(e[j])' = Units(e[j]) - One
        BY <1>3, <1>9, <1>14, <3>3, Zenon
      <4> QED BY <1>5, <2>9, <3>1, <3>2, <3>3, <4>1
    <3>4. CASE j # k
      <4>1. Units(e[j])' = Units(e[j])
        BY <1>10, <1>12, <3>1, <3>4, Zenon
      <4>2. CASE i < k /\ k < j
        <5>1. share[i] + Units(p) <= share[k] /\ share[k] + Units(e[j]) <= share[j]
          BY <1>3, <1>11, <3>1, <4>2, Zenon
        <5> QED BY <1>5, <1>13, <2>1, <2>2, <3>1, <3>2, <4>1, <4>2, <5>1
      <4>3. CASE ~ (i < k /\ k < j)
        BY <1>5, <2>9, <3>1, <3>2, <3>4, <4>1, <4>3
      <4> QED BY <4>2, <4>3
    <3> QED BY <3>3, <3>4
  <2>10. rest[n] <= Global'
    BY <1>5, <1>11, <2>2, <2>6
  <2> HIDE DEF rest
  <2>11. Covered(e, n, rest)'
    BY <2>8, <2>9, <2>10, Zenon DEF Covered
  <2> QED BY <2>5, <2>11, Zenon DEF ShareInv
<1>15. ASSUME ~ mine PROVE ShareInv(e, n)'
  <2>1. ~ throttled' /\ global' = global
    BY <1>4, <1>15, Zenon DEF ShareInv
  <2>2. Global' = Global
    BY <1>4, <2>1, Zenon DEF Global, Refilled
  <2>3. \A q \in Principal : Units(q)' = Units(q)
    <3>1. Units(p)' = Units(p)
      BY <1>9, <1>13, <1>15
    <3> QED BY <1>10, <3>1, Zenon
  <2>4. \A j \in 1 .. n : Units(e[j])' = Units(e[j])
    BY <1>12, <2>3, Zenon
  <2>5. \A i, j \in 0 .. n : i < j => j \in 1 .. n
    BY <1>5
  <2>6. Covered(e, n, share)'
    BY <1>11, <2>2, <2>4, <2>5, Zenon DEF Covered
  <2> QED BY <2>1, <2>6, Zenon DEF ShareInv
<1> QED BY <1>14, <1>15, Zenon

\* A tick refills the global bucket by Multiple rates, or fills it.
LEMMA TickGlobal ==
  ASSUME NEW rate \in Nat, NEW burst \in Nat, NEW b \in Bucket(burst), now \in Nat,
         now' = now + 1
  PROVE  Least(burst, b.tokens + rate * (now' - b.last))
           = Least(burst, Refilled(b, rate, burst) + rate)
<1>1. b.tokens \in 0 .. burst /\ b.last \in 0 .. now /\ now' - b.last = (now - b.last) + 1
  BY DEF Bucket
<1>2. now - b.last \in Nat
  BY <1>1
<1>3. rate * (now' - b.last) = rate * (now - b.last) + rate /\ rate * (now - b.last) \in Nat
  BY <1>1, <1>2
<1> QED BY <1>1, <1>3 DEF Refilled, Least

\* Time passes: n principals gain at most n rates and hold at most n bursts.
LEMMA TickShareInv ==
  ASSUME NEW e, NEW n, Enumeration(e, n), Clocks, ShareInv(e, n), Tick
  PROVE  ShareInv(e, n)'
<1>1. PICK share : Covered(e, n, share)
  BY Zenon DEF ShareInv
<1>2. now' = now + 1 /\ UNCHANGED <<limiters, global, throttled>> /\ now \in Nat
  BY DEF Tick, Clocks
<1>3. /\ Rate \in Nat /\ Burst \in Nat /\ Multiple \in Nat /\ n \in Nat /\ n <= Multiple
      /\ Multiple * Rate \in Nat /\ Multiple * Burst \in Nat
  BY GateAssumption DEF Enumeration
<1>4. /\ share \in [0 .. n -> Nat] /\ share[n] <= Global
      /\ \A i, j \in 0 .. n : i < j => share[i] + Units(e[j]) <= share[j]
  BY <1>1, Zenon DEF Covered
<1>5. ASSUME NEW q \in Principal
      PROVE  Units(q) \in Nat /\ Units(q)' <= Burst /\ Units(q)' <= Units(q) + Rate /\ Units(q)' \in Int
  <2>0. Units(q) \in Nat /\ Units(q) <= Burst
    BY UnitsBounds, Zenon
  <2>1. CASE limiters[q] = NoBucket
    <3>1. Rate * (now - now) = 0 /\ Rate * (now' - now') = 0
      BY <1>2, <1>3
    <3>2. BucketOf(q) = NewBucket(Burst) /\ BucketOf(q)' = NewBucket(Burst)'
      BY <1>2, <2>1, Zenon DEF BucketOf
    <3>21. BucketOf(q).tokens = Burst /\ BucketOf(q).last = now
      BY <3>2, SMT DEF NewBucket
    <3>22. BucketOf(q)'.tokens = Burst /\ BucketOf(q)'.last = now'
      BY <3>2, SMT DEF NewBucket
    <3>3. Units(q) = Least(Burst, Burst + Rate * (now - now))
      BY <3>21, Zenon DEF Units, Refilled
    <3>4. Units(q)' = Least(Burst, Burst + Rate * (now' - now'))
      BY <3>22, Zenon DEF Units, Refilled
    <3>5. Units(q) = Burst /\ Units(q)' = Burst
      BY <1>3, <3>1, <3>3, <3>4 DEF Least
    <3> QED BY <1>3, <3>5
  <2>2. CASE limiters[q] # NoBucket
    <3> DEFINE b == limiters[q]
    <3>1. b \in Bucket(Burst)
      BY <2>2 DEF Clocks
    <3>2. Units(q) = Refilled(b, Rate, Burst)
      BY <2>2, Zenon DEF Units, BucketOf
    <3>3. Units(q)' = Least(Burst, b.tokens + Rate * (now' - b.last))
      BY <1>2, <2>2, Zenon DEF Units, BucketOf, Refilled
    <3>4. Units(q)' = Least(Burst, Units(q) + Rate)
      BY <1>2, <1>3, <3>1, <3>2, <3>3, TickGlobal, SMTT(30)
    <3> QED BY <1>3, <2>0, <3>4 DEF Least
  <2> QED BY <2>1, <2>2
<1>6. Global' = Least(Multiple * Burst, Global + Multiple * Rate) /\ Global \in Nat
  <2>1. global \in Bucket(Multiple * Burst)
    BY DEF Clocks
  <2>2. Global' = Least(Multiple * Burst, global.tokens + (Multiple * Rate) * (now' - global.last))
    BY <1>2, Zenon DEF Global, Refilled
  <2>3. Global \in 0 .. Multiple * Burst
    BY <1>2, <1>3, <2>1, RefilledBounds DEF Global
  <2>4. Global' = Least(Multiple * Burst, Global + Multiple * Rate)
    BY <1>2, <1>3, <2>1, <2>2, TickGlobal DEF Global
  <2> QED BY <1>3, <2>3, <2>4
<1> DEFINE more == [i \in 0 .. n |-> Least(i * Burst, share[i] + i * Rate)]
<1>7. \A i \in 0 .. n : i * Burst \in Nat /\ i * Rate \in Nat /\ share[i] \in Nat
  BY <1>3, <1>4, ProductGrows
<1>8. more \in [0 .. n -> Nat]
  BY <1>7 DEF Least
<1>9. ASSUME NEW i \in 0 .. n, NEW j \in 0 .. n, i < j
      PROVE  more[i] + Units(e[j])' <= more[j]
  <2>1. e[j] \in Principal
    BY <1>3, <1>9 DEF Enumeration
  <2> DEFINE u == Units(e[j])
             v == Units(e[j])'
  <2>2. u \in Nat /\ v \in Int /\ v <= Burst /\ v <= u + Rate
    BY <1>5, <2>1, Zenon
  <2>3. share[i] + u <= share[j]
    BY <1>4, <1>9, Zenon
  <2>4. i * Burst + Burst <= j * Burst /\ i * Rate + Rate <= j * Rate
    BY <1>3, <1>9, ProductGrows
  <2>5. /\ i * Burst \in Nat /\ i * Rate \in Nat /\ share[i] \in Nat
        /\ j * Burst \in Nat /\ j * Rate \in Nat /\ share[j] \in Nat
    BY <1>7, Zenon
  <2>6. more[i] = Least(i * Burst, share[i] + i * Rate) /\ more[j] = Least(j * Burst, share[j] + j * Rate)
    OBVIOUS
  <2> DEFINE ib == i * Burst
             ir == i * Rate
             jb == j * Burst
             jr == j * Rate
  <2> HIDE DEF u, v, ib, ir, jb, jr, more
  <2>7. Least(ib, share[i] + ir) + v <= Least(jb, share[j] + jr)
    BY <1>3, <2>2, <2>3, <2>4, <2>5 DEF Least, ib, ir, jb, jr
  <2> QED BY <2>6, <2>7, Zenon DEF v, ib, ir, jb, jr
<1>10. more[n] <= Global'
  <2>1. n * Burst <= Multiple * Burst /\ n * Rate <= Multiple * Rate /\ n * Burst \in Nat /\ n * Rate \in Nat
    BY <1>3, ProductGrows
  <2>2. n \in 0 .. n /\ share[n] \in Nat
    BY <1>3, <1>4
  <2>3. more[n] = Least(n * Burst, share[n] + n * Rate)
    BY <2>2
  <2> DEFINE nb == n * Burst
             nr == n * Rate
             mb == Multiple * Burst
             mr == Multiple * Rate
  <2> HIDE DEF nb, nr, mb, mr
  <2>4. Least(nb, share[n] + nr) <= Least(mb, Global + mr)
    BY <1>3, <1>4, <1>6, <2>1, <2>2, SMTT(30) DEF Least, nb, nr, mb, mr
  <2> QED BY <1>6, <2>3, <2>4, Zenon DEF nb, nr, mb, mr
<1> HIDE DEF more
<1>11. Covered(e, n, more)'
  BY <1>8, <1>9, <1>10, Zenon DEF Covered
<1> QED BY <1>2, <1>11, Zenon DEF ShareInv

\* The clock and the buckets stay.
LEMMA OtherShareInv ==
  ASSUME NEW e, NEW n, ShareInv(e, n), UNCHANGED <<limiters, global, now, throttled>>
  PROVE  ShareInv(e, n)'
<1>1. \A q : Units(q)' = Units(q)
  BY Zenon DEF Units, BucketOf, NewBucket, Refilled
<1>2. Global' = Global
  BY Zenon DEF Global, Refilled
<1> QED BY <1>1, <1>2, Zenon DEF ShareInv, Covered

LEMMA NextShareInv ==
  ASSUME NEW e, NEW n, Enumeration(e, n), Clocks, IdInv, ShareInv(e, n), [Next]_vars
  PROVE  ShareInv(e, n)'
<1>1. ASSUME NEW t \in Thread, Arrive(t) \/ Check(t) \/ Return(t) PROVE ShareInv(e, n)'
  BY <1>1, OtherShareInv DEF Arrive, Check, Return, rateVars
<1>2. ASSUME NEW t \in Thread, Admit(t) PROVE ShareInv(e, n)'
  BY <1>2, AdmitShareInv, Zenon
<1>3. CASE WriteFile \/ Hangup \/ TakeFlag \/ ReadTokens \/ SetAuthenticator \/ OpenWindow
  BY <1>3, OtherShareInv
  DEF WriteFile, Hangup, TakeFlag, ReadTokens, SetAuthenticator, OpenWindow, rateVars
<1>4. CASE Tick
  BY <1>4, TickShareInv, Zenon
<1>5. CASE UNCHANGED vars
  BY <1>5, OtherShareInv DEF vars, rateVars
<1> QED BY <1>1, <1>2, <1>3, <1>4, <1>5, Zenon DEF Next

\* At most Multiple principals can be listed.
LEMMA EnumerationExists ==
  ASSUME Cardinality(Principal) <= Multiple
  PROVE  \E e, n : Enumeration(e, n)
<1> DEFINE n == Cardinality(Principal)
<1>1. n \in Nat /\ ExistsBijection(1 .. n, Principal)
  BY FS_CardinalityType, PrincipalAssumption
<1>2. PICK e : e \in Bijection(1 .. n, Principal)
  BY <1>1, Zenon DEF ExistsBijection
<1> HIDE DEF n
<1>3. /\ e \in [1 .. n -> Principal]
      /\ \A i, j \in 1 .. n : e[i] = e[j] => i = j
      /\ \A p \in Principal : \E i \in 1 .. n : e[i] = p
  BY <1>2 DEF Bijection, Injection, Surjection, IsInjective
<1>4. n <= Multiple
  BY DEF n
<1>5. Enumeration(e, n)
  BY <1>1, <1>3, <1>4, Zenon DEF Enumeration
<1> QED BY <1>5, Zenon

\* RequestGate::Admit with one bucket per principal and a global one of Multiple times
\* its rate and burst: among at most Multiple principals, whatever their calls, the
\* global bucket refuses no call that its principal's bucket admits.
THEOREM GateNotStarved == Spec => []NotStarved
<1>1. CASE ~ (Cardinality(Principal) <= Multiple)
  <2>1. NotStarved
    BY <1>1, Zenon DEF NotStarved
  <2> QED BY <2>1, PTL
<1>2. CASE Cardinality(Principal) <= Multiple
  <2>1. PICK e, n : Enumeration(e, n)
    BY <1>2, EnumerationExists, Zenon
  <2> DEFINE Inv == RateInv /\ ListInv /\ IdInv /\ ShareInv(e, n)
  <2>2. Init => Inv
    <3>1. Init => ListInv
      BY DEF Init, ListInv, Idle
    <3> QED BY <2>1, <3>1, InitRateInv, InitIdInv, InitShareInv, Zenon
  <2>3. Inv /\ [Next]_vars => Inv'
    <3>1. RateInv => Clocks
      BY Zenon DEF RateInv
    <3> QED BY <2>1, <3>1, NextRateInv, NextListInv, NextIdInv, NextShareInv, Zenon
  <2>4. Inv => NotStarved
    BY Zenon DEF ShareInv, NotStarved
  <2> QED BY <2>2, <2>3, <2>4, PTL DEF Spec
<1> QED BY <1>1, <1>2
=============================================================================
