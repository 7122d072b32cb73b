------------------------- MODULE RateLimiter_proofs -------------------------
(***************************************************************************)
(* Proofs about RateLimiter, for any clients, policy and clock.            *)
(***************************************************************************)
EXTENDS RateLimiter, FiniteSetTheorems, TLAPS

----------------------------------------------------------------------------
(* Token buckets.                                                          *)

LEMMA NewBucketGood ==
  ASSUME now \in Nat, NEW rate \in Nat
  PROVE  NewBucket(rate) \in Bucket /\ GoodBucket(NewBucket(rate))
<1>1. Burst \in Nat /\ rate * Burst \in Nat
  BY PolicyAssumption
<1>2. rate * (now - now) = 0
  BY Z3
<1> QED BY <1>1, <1>2 DEF NewBucket, Bucket, GoodBucket

LEMMA TryAcquireGood ==
  ASSUME now \in Nat, NEW b \in Bucket, GoodBucket(b)
  PROVE  TryAcquire(b) \in Bucket /\ GoodBucket(TryAcquire(b))
<1> DEFINE gain == (now - b.last) * b.rate
<1>1. /\ b.cap \in Nat /\ b.rate \in Nat /\ b.tokens \in Nat
      /\ b.last \in Nat /\ b.born \in Nat /\ b.granted \in Nat
  BY DEF Bucket
<1>2. b.last <= now /\ b.born <= b.last
  BY DEF GoodBucket
<1>3. gain \in Nat
  <2>1. now - b.last \in Nat
    BY <1>1, <1>2
  <2> QED BY <1>1, <2>1
<1>4. b.rate * (now - b.born) = gain + b.rate * (b.last - b.born)
  BY <1>1
<1>5. /\ Refilled(b) \in Nat
      /\ Refilled(b) <= b.cap
      /\ Refilled(b) <= b.tokens + gain
  BY <1>1, <1>3 DEF Refilled
<1> DEFINE r == Refilled(b)
           taken == IF Enough(b) THEN 1 ELSE 0
<1>6. /\ taken \in Nat /\ taken <= r
      /\ r \in Nat /\ r <= b.cap /\ r <= b.tokens + gain
  BY <1>5 DEF Enough
<1>7. TryAcquire(b) = [b EXCEPT !.tokens = r - taken, !.last = now,
                                !.granted = b.granted + taken]
  BY DEF TryAcquire, Last
<1> HIDE DEF r, gain, taken
<1>8. r - taken \in Nat /\ b.granted + taken \in Nat
  BY <1>1, <1>6
<1>9. TryAcquire(b) \in Bucket
  BY <1>7, <1>8 DEF Bucket
<1>10. b.tokens + b.granted <= b.cap + b.rate * (b.last - b.born)
  BY DEF GoodBucket
<1>11. (r - taken) + (b.granted + taken) <= b.cap + b.rate * (now - b.born)
  <2>1. b.rate * (b.last - b.born) \in Int
    BY <1>1
  <2> QED BY <1>1, <1>3, <1>4, <1>6, <1>10, <2>1
<1>12. /\ TryAcquire(b).tokens = r - taken /\ TryAcquire(b).cap = b.cap
       /\ TryAcquire(b).last = now /\ TryAcquire(b).born = b.born
       /\ TryAcquire(b).rate = b.rate /\ TryAcquire(b).granted = b.granted + taken
  BY <1>7 DEF Bucket
<1> QED BY <1>1, <1>2, <1>6, <1>9, <1>11, <1>12 DEF GoodBucket

\* The state of the buckets, as three conjuncts: each is a good bucket or None.
BucketsOK ==
    /\ globalBucket # None => globalBucket \in Bucket /\ GoodBucket(globalBucket)
    /\ \A p \in Ips : ipBuckets[p] # None =>
          ipBuckets[p] \in Bucket /\ GoodBucket(ipBuckets[p])
    /\ \A i \in Ids : idBuckets[i] # None =>
          idBuckets[i] \in Bucket /\ GoodBucket(idBuckets[i])

LEMMA BucketsSplit ==
  ASSUME TypeOK, BucketInv PROVE BucketsOK
  BY DEF TypeOK, BucketInv, AllBuckets, BucketsOK

LEMMA PolicyTypes ==
  ASSUME NEW s \in Sessions
  PROVE  /\ Policy[s].rate \in Nat /\ Policy[s].maxConc \in Nat
         /\ Policy[s].maxPerId \in Nat /\ Policy[s].maxDay \in Nat
         /\ Policy[s].maxMonth \in Nat
  BY PolicyAssumption DEF Limits

\* acquire's three buckets.
LEMMA TakeTokensGood ==
  ASSUME TypeOK, BucketInv, NEW s \in Sessions, TakeTokens(s), UNCHANGED now
  PROVE  /\ globalBucket' \in Bucket \cup {None}
         /\ ipBuckets' \in [Ips -> Bucket \cup {None}]
         /\ idBuckets' \in [Ids -> Bucket \cup {None}]
         /\ BucketsOK'
<1>1. now \in Nat /\ BucketsOK
  BY BucketsSplit, ClockAssumption DEF TypeOK
<1>2. /\ globalBucket \in Bucket \cup {None}
      /\ ipBuckets \in [Ips -> Bucket \cup {None}]
      /\ idBuckets \in [Ids -> Bucket \cup {None}]
  BY DEF TypeOK
<1>3. /\ globalBucket' \in Bucket \cup {None}
      /\ globalBucket' # None => GoodBucket(globalBucket')
  <2>1. CASE globalBucket = None
    BY <2>1 DEF TakeTokens
  <2>2. CASE globalBucket # None
    <3>1. globalBucket \in Bucket /\ GoodBucket(globalBucket)
      BY <1>1, <2>2 DEF BucketsOK
    <3>2. globalBucket' = TryAcquire(globalBucket)
      BY <2>2 DEF TakeTokens
    <3> QED BY <1>1, <3>1, <3>2, TryAcquireGood
  <2> QED BY <2>1, <2>2
<1>4. ASSUME NEW p \in Ips, p = IpOf[s]
      PROVE  LET b == TryAcquire(BucketFor(ipBuckets, p, s))
             IN  b \in Bucket /\ GoodBucket(b)
  <2>1. BucketFor(ipBuckets, p, s) \in Bucket /\ GoodBucket(BucketFor(ipBuckets, p, s))
    <3>1. CASE ipBuckets[p] = None
      BY <1>1, <3>1, NewBucketGood, PolicyTypes DEF BucketFor
    <3>2. CASE ipBuckets[p] # None
      BY <1>1, <3>2 DEF BucketFor, BucketsOK
    <3> QED BY <3>1, <3>2
  <2> QED BY <1>1, <2>1, TryAcquireGood
<1>5. ASSUME NEW i \in Ids, i = IdOf[s]
      PROVE  LET b == TryAcquire(BucketFor(idBuckets, i, s))
             IN  b \in Bucket /\ GoodBucket(b)
  <2>1. BucketFor(idBuckets, i, s) \in Bucket /\ GoodBucket(BucketFor(idBuckets, i, s))
    <3>1. CASE idBuckets[i] = None
      BY <1>1, <3>1, NewBucketGood, PolicyTypes DEF BucketFor
    <3>2. CASE idBuckets[i] # None
      BY <1>1, <3>2 DEF BucketFor, BucketsOK
    <3> QED BY <3>1, <3>2
  <2> QED BY <1>1, <2>1, TryAcquireGood
<1>6. /\ ipBuckets' \in [Ips -> Bucket \cup {None}]
      /\ \A p \in Ips : ipBuckets'[p] # None => GoodBucket(ipBuckets'[p])
  <2>1. CASE ipBuckets' = ipBuckets
    BY <1>1, <1>2, <2>1 DEF BucketsOK
  <2>2. CASE /\ UsesIp(s)
             /\ ipBuckets' = [ipBuckets EXCEPT ![IpOf[s]] =
                                TryAcquire(BucketFor(ipBuckets, IpOf[s], s))]
    <3>1. IpOf[s] \in Ips
      BY <2>2, SessionAssumption DEF UsesIp
    <3> DEFINE b == TryAcquire(BucketFor(ipBuckets, IpOf[s], s))
    <3>2. b \in Bucket /\ GoodBucket(b)
      BY <3>1, <1>4
    <3>3. ipBuckets' = [ipBuckets EXCEPT ![IpOf[s]] = b]
      BY <2>2
    <3> HIDE DEF b
    <3> QED BY <1>1, <1>2, <3>1, <3>2, <3>3 DEF BucketsOK
  <2> QED BY <2>1, <2>2 DEF TakeTokens
<1>7. /\ idBuckets' \in [Ids -> Bucket \cup {None}]
      /\ \A i \in Ids : idBuckets'[i] # None => GoodBucket(idBuckets'[i])
  <2>1. CASE idBuckets' = idBuckets
    BY <1>1, <1>2, <2>1 DEF BucketsOK
  <2>2. CASE /\ UsesId(s)
             /\ idBuckets' = [idBuckets EXCEPT ![IdOf[s]] =
                                TryAcquire(BucketFor(idBuckets, IdOf[s], s))]
    <3>1. IdOf[s] \in Ids
      BY <2>2, SessionAssumption DEF UsesId
    <3> DEFINE b == TryAcquire(BucketFor(idBuckets, IdOf[s], s))
    <3>2. b \in Bucket /\ GoodBucket(b)
      BY <3>1, <1>5
    <3>3. idBuckets' = [idBuckets EXCEPT ![IdOf[s]] = b]
      BY <2>2
    <3> HIDE DEF b
    <3> QED BY <1>1, <1>2, <3>1, <3>2, <3>3 DEF BucketsOK
  <2> QED BY <2>1, <2>2 DEF TakeTokens
<1> QED BY <1>3, <1>6, <1>7 DEF BucketsOK, GoodBucket

\* A clock that moves on leaves good buckets good.
LEMMA BucketsLater ==
  ASSUME BucketsOK, now \in Nat, now' \in Nat, now <= now', UNCHANGED buckets
  PROVE  BucketsOK'
<1>1. ASSUME NEW b \in Bucket, GoodBucket(b) PROVE b.last <= now'
  BY <1>1 DEF GoodBucket, Bucket
<1> QED BY <1>1 DEF BucketsOK, GoodBucket, buckets

\* Back from the three conjuncts to the invariants.
LEMMA BucketsJoin ==
  ASSUME BucketsOK
  PROVE  BucketInv /\ \A b \in AllBuckets : b.tokens <= b.cap
  BY DEF BucketsOK, BucketInv, AllBuckets, GoodBucket

----------------------------------------------------------------------------
(* Types and buckets.                                                      *)

\* The part of TypeOK that is not about buckets.
CounterTypes ==
    /\ now \in 0..MaxTime
    /\ sessions \in SUBSET Sessions
    /\ active \in Int
    /\ ipActive \in [Ips -> Int]
    /\ idActive \in [Ids -> Int]
    /\ globalUse \in GlobalUse
    /\ idUse \in [Ids -> Use]
    /\ client \in [Sessions -> {"idle", "open", "sending"}]
    /\ sent \in Nat

BucketTypes ==
    /\ globalBucket \in Bucket \cup {None}
    /\ ipBuckets \in [Ips -> Bucket \cup {None}]
    /\ idBuckets \in [Ids -> Bucket \cup {None}]

LEMMA TypesSplit == TypeOK => CounterTypes /\ BucketTypes
  BY DEF TypeOK, CounterTypes, BucketTypes

LEMMA TypesJoin == CounterTypes /\ BucketTypes /\ BucketsOK => TypeOK /\ BucketInv
  BY BucketsJoin DEF TypeOK, CounterTypes, BucketTypes

LEMMA FreshBuckets ==
  ASSUME now \in Nat, globalBucket = GlobalBucket,
         ipBuckets = [p \in Ips |-> None], idBuckets = [i \in Ids |-> None]
  PROVE  BucketTypes /\ BucketsOK
<1>1. GlobalRate \in Nat
  BY PolicyAssumption
<1>2. globalBucket # None => globalBucket \in Bucket /\ GoodBucket(globalBucket)
  BY <1>1, NewBucketGood DEF GlobalBucket
<1> QED BY <1>2 DEF BucketTypes, BucketsOK

LEMMA DayTypes ==
  ASSUME now \in Nat
  PROVE  Day \in Nat /\ Month \in Nat
<1>1. now \div DaySeconds \in Nat
  BY ClockAssumption
<1>2. Day \in Nat /\ Day - 1 \in Nat
  BY <1>1 DEF Day
<1> HIDE DEF Day
<1>3. (Day - 1) \div MonthDays \in Nat
  BY <1>2, ClockAssumption
<1> QED BY <1>2, <1>3 DEF Month

LEMMA InitBuckets == Init => TypeOK /\ BucketInv
<1> SUFFICES ASSUME Init PROVE TypeOK /\ BucketInv
  OBVIOUS
<1>1. CounterTypes
  BY ClockAssumption DEF Init, CounterTypes, NewUse, NewGlobalUse, Use, GlobalUse
<1>2. BucketTypes /\ BucketsOK
  BY FreshBuckets DEF Init
<1> QED BY <1>1, <1>2, TypesJoin

LEMMA ChargedType ==
  ASSUME NEW s \in Sessions
  PROVE  /\ ipActive \in [Ips -> Int] => Charged(ipActive, IpOf[s]) \in [Ips -> Int]
         /\ idActive \in [Ids -> Int] => Charged(idActive, IdOf[s]) \in [Ids -> Int]
  BY SessionAssumption DEF Charged

LEMMA CreditedType ==
  ASSUME NEW p \in Ips \cup {None}, NEW i \in Ids \cup {None}
  PROVE  /\ ipActive \in [Ips -> Int] => Credited(ipActive, p) \in [Ips -> Int]
         /\ idActive \in [Ids -> Int] => Credited(idActive, i) \in [Ids -> Int]
  BY DEF Credited

LEMMA StepBuckets ==
  TypeOK /\ BucketInv /\ [Next]_vars => TypeOK' /\ BucketInv'
<1> SUFFICES ASSUME TypeOK, BucketInv, [Next]_vars PROVE TypeOK' /\ BucketInv'
  OBVIOUS
<1>0. CounterTypes /\ BucketTypes /\ BucketsOK /\ now \in Nat
  BY TypesSplit, BucketsSplit, ClockAssumption DEF CounterTypes
<1> SUFFICES CounterTypes' /\ BucketTypes' /\ BucketsOK'
  BY TypesJoin, PTL
<1>1. ASSUME UNCHANGED <<now, buckets>>
      PROVE  BucketTypes' /\ BucketsOK'
  BY <1>0, <1>1, BucketsLater DEF buckets, BucketTypes
<1>2. ASSUME NEW s \in Sessions, Acquire(s)
      PROVE  CounterTypes' /\ BucketTypes' /\ BucketsOK'
  <2>1. BucketTypes' /\ BucketsOK'
    BY <1>2, TakeTokensGood DEF Acquire, BucketTypes
  <2>2. ipActive' \in [Ips -> Int] /\ idActive' \in [Ids -> Int]
    BY <1>0, <1>2, ChargedType DEF CounterTypes, Acquire
  <2> QED BY <1>0, <1>2, <2>1, <2>2 DEF CounterTypes, Acquire, quotas
<1>3. ASSUME NEW s \in Sessions, Refuse(s) \/ Request(s)
      PROVE  CounterTypes' /\ BucketTypes' /\ BucketsOK'
  <2>1. TakeTokens(s) /\ UNCHANGED <<now, counters, quotas, client>>
    BY <1>3 DEF Refuse, Request
  <2>2. BucketTypes' /\ BucketsOK'
    BY <2>1, TakeTokensGood DEF BucketTypes
  <2> QED BY <1>0, <2>1, <2>2 DEF CounterTypes, counters, quotas
<1>4. ASSUME NEW s \in Sessions, Release(s)
      PROVE  CounterTypes' /\ BucketTypes' /\ BucketsOK'
  <2>1. BucketTypes' /\ BucketsOK'
    BY <1>1, <1>4 DEF Release
  <2>2. ipActive' \in [Ips -> Int] /\ idActive' \in [Ids -> Int]
    <3>1. /\ (IF OmitsIp THEN None ELSE IpOf[s]) \in Ips \cup {None}
          /\ IdOf[s] \in Ids \cup {None}
      BY SessionAssumption
    <3> QED BY <1>0, <1>4, <3>1, CreditedType DEF CounterTypes, Release, counters
  <2> QED BY <1>0, <1>4, <2>1, <2>2 DEF CounterTypes, Release, quotas, counters
<1>5. ASSUME NEW s \in Sessions, CheckBandwidth(s)
      PROVE  CounterTypes' /\ BucketTypes' /\ BucketsOK'
  <2>1. BucketTypes' /\ BucketsOK'
    BY <1>1, <1>5 DEF CheckBandwidth
  <2>2. Day \in Nat /\ Month \in Nat
    BY <1>0, DayTypes
  <2>3. \A u \in Use : Rolled(u) \in Use
    BY <2>2 DEF Use, Rolled, DayBytes
  <2>4. \A u \in GlobalUse : RolledGlobal(u) \in GlobalUse
    BY <2>2 DEF GlobalUse, Rolled, RolledGlobal, DayBytes, MonthBytes
  <2>5. globalUse' \in GlobalUse
    BY <1>0, <1>5, <2>4 DEF CounterTypes, CheckBandwidth
  <2>6. idUse' \in [Ids -> Use]
    <3>1. idUse \in [Ids -> Use]
      BY <1>0 DEF CounterTypes
    <3>2. CASE idUse' = idUse
      BY <3>1, <3>2
    <3>3. CASE IdOf[s] # None /\ idUse' = [idUse EXCEPT ![IdOf[s]] = Rolled(idUse[IdOf[s]])]
      <4>1. IdOf[s] \in Ids
        BY <3>3, SessionAssumption
      <4> QED BY <2>3, <3>1, <3>3, <4>1
    <3> QED BY <1>5, <3>2, <3>3 DEF CheckBandwidth
  <2> QED BY <1>0, <1>5, <2>1, <2>5, <2>6 DEF CounterTypes, CheckBandwidth, counters
<1>6. ASSUME NEW s \in Sessions, RecordBytes(s)
      PROVE  CounterTypes' /\ BucketTypes' /\ BucketsOK'
  <2>1. BucketTypes' /\ BucketsOK'
    BY <1>1, <1>6 DEF RecordBytes
  <2>2. globalUse' \in GlobalUse
    <3>1. /\ globalUse \in GlobalUse
          /\ globalUse' = [globalUse EXCEPT !.bytes = globalUse.bytes + 1,
                                             !.month = globalUse.month + 1]
      BY <1>0, <1>6 DEF CounterTypes, RecordBytes
    <3>2. globalUse.bytes + 1 \in Nat /\ globalUse.month + 1 \in Nat
      BY <3>1 DEF GlobalUse
    <3> QED BY <3>1, <3>2 DEF GlobalUse
  <2>3. idUse' \in [Ids -> Use]
    <3>1. idUse \in [Ids -> Use]
      BY <1>0 DEF CounterTypes
    <3>2. CASE idUse' = idUse
      BY <3>1, <3>2
    <3>3. CASE /\ IdOf[s] # None
               /\ idUse' = [idUse EXCEPT ![IdOf[s]].bytes = idUse[IdOf[s]].bytes + 1]
      <4>1. IdOf[s] \in Ids
        BY <3>3, SessionAssumption
      <4>2. [idUse[IdOf[s]] EXCEPT !.bytes = idUse[IdOf[s]].bytes + 1] \in Use
        BY <3>1, <4>1 DEF Use
      <4> QED BY <3>1, <3>3, <4>1, <4>2
    <3> QED BY <1>6, <3>2, <3>3 DEF RecordBytes
  <2> QED BY <1>0, <1>6, <2>1, <2>2, <2>3 DEF CounterTypes, RecordBytes, counters
<1>7. ASSUME Reset PROVE CounterTypes' /\ BucketTypes' /\ BucketsOK'
  <2>1. CounterTypes'
    BY <1>0, <1>7 DEF Reset, CounterTypes, NewUse, NewGlobalUse, Use, GlobalUse
  <2>2. BucketTypes' /\ BucketsOK'
    <3>1. GlobalRate \in Nat
      BY PolicyAssumption
    <3>2. /\ globalBucket' # None =>
                globalBucket' \in Bucket /\ GoodBucket(globalBucket')
      BY <1>0, <1>7, <3>1, NewBucketGood DEF GlobalBucket, Reset
    <3> QED BY <1>7, <3>2 DEF BucketTypes, BucketsOK, Reset, GoodBucket
  <2> QED BY <2>1, <2>2
<1>8. ASSUME Tick PROVE CounterTypes' /\ BucketTypes' /\ BucketsOK'
  <2>1. now' \in 0..MaxTime /\ now <= now'
    BY <1>0, <1>8, ClockAssumption DEF Tick, CounterTypes
  <2>2. CounterTypes'
    BY <1>0, <1>8, <2>1 DEF Tick, CounterTypes, counters
  <2> QED BY <1>0, <1>8, <2>1, <2>2, BucketsLater DEF Tick, BucketTypes, buckets
<1>9. CASE UNCHANGED vars
  BY <1>0, <1>1, <1>9 DEF vars, buckets, CounterTypes
<1> QED
  BY <1>2, <1>3, <1>4, <1>5, <1>6, <1>7, <1>8, <1>9 DEF Next

\* Types and the capacity of buckets, for every instance.
THEOREM TypeCorrect == Spec => []TypeOK
<1> QED BY InitBuckets, StepBuckets, PTL DEF Spec

\* The rate limit, for every policy and clock: no bucket ever gave more tokens
\* than its burst and its rate allow.
THEOREM RateLimited == Spec => []RateBound
<1>1. TypeOK /\ BucketInv => RateBound
  <2> SUFFICES ASSUME TypeOK, BucketInv, NEW b \in AllBuckets
               PROVE  b.granted <= b.cap + b.rate * (now - b.born)
    BY DEF RateBound
  <2>1. b \in Bucket /\ GoodBucket(b) /\ now \in Nat
    BY ClockAssumption DEF TypeOK, BucketInv, AllBuckets
  <2>2. /\ b.cap \in Nat /\ b.rate \in Nat /\ b.tokens \in Nat
        /\ b.last \in Nat /\ b.born \in Nat /\ b.granted \in Nat
    BY <2>1 DEF Bucket
  <2>3. /\ now - b.last \in Nat
        /\ b.tokens + b.granted <= b.cap + b.rate * (b.last - b.born)
    BY <2>1, <2>2 DEF GoodBucket
  <2>4. b.rate * (now - b.last) \in Nat
    BY <2>2, <2>3
  <2>5. b.rate * (now - b.born) = b.rate * (now - b.last) + b.rate * (b.last - b.born)
    BY <2>1, <2>2
  <2>6. b.rate * (b.last - b.born) \in Int
    BY <2>2
  <2> QED BY <2>2, <2>3, <2>4, <2>5, <2>6
<1> QED BY InitBuckets, StepBuckets, <1>1, PTL DEF Spec

----------------------------------------------------------------------------
(* Sessions.                                                               *)

LEMMA FiniteSessions ==
  ASSUME TypeOK
  PROVE  /\ IsFiniteSet(sessions)
         /\ \A i \in Ids : IsFiniteSet(SessionsOf(i))
         /\ \A p \in Ips : IsFiniteSet(SessionsFrom(p))
<1>1. sessions \subseteq Sessions /\ IsFiniteSet(Sessions)
  BY SessionAssumption DEF TypeOK
<1>2. \A i \in Ids : SessionsOf(i) \subseteq Sessions
  BY <1>1 DEF SessionsOf
<1>3. \A p \in Ips : SessionsFrom(p) \subseteq Sessions
  BY <1>1 DEF SessionsFrom
<1> QED BY <1>1, <1>2, <1>3, FS_Subset

LEMMA AcquireCounters ==
  ASSUME TypeOK, SessionsOpen, CountersMatch, LimitsHold,
         NEW s \in Sessions, Acquire(s)
  PROVE  SessionsOpen' /\ CountersMatch' /\ LimitsHold'
<1>1. /\ s \notin sessions /\ sessions' = sessions \cup {s}
      /\ IdOf[s] \in Ids \cup {None} /\ IpOf[s] \in Ips \cup {None}
      /\ ipActive \in [Ips -> Int] /\ idActive \in [Ids -> Int] /\ active \in Int
      /\ None \notin Ids /\ None \notin Ips
  BY SessionAssumption DEF SessionsOpen, Acquire, TypeOK
<1>2. SessionsOpen'
  BY <1>1 DEF SessionsOpen, Acquire, TypeOK
<1>3. CountersMatch'
  <2>1. active' = Cardinality(sessions')
    BY ZenonT(60), <1>1, FiniteSessions, FS_AddElement DEF CountersMatch, Acquire
  <2>2. ASSUME NEW i \in Ids PROVE idActive'[i] = Cardinality(SessionsOf(i)')
    <3>1. CASE i = IdOf[s]
      <4>1. SessionsOf(i)' = SessionsOf(i) \cup {s} /\ s \notin SessionsOf(i)
        BY <1>1, <3>1 DEF SessionsOf
      <4>2. Cardinality(SessionsOf(i)') = Cardinality(SessionsOf(i)) + 1
        BY <4>1, FiniteSessions, FS_AddElement
      <4> QED BY <1>1, <3>1, <4>2 DEF CountersMatch, Acquire, Charged
    <3>2. CASE i # IdOf[s]
      <4>1. SessionsOf(i)' = SessionsOf(i)
        BY <1>1, <3>2 DEF SessionsOf
      <4> QED BY <1>1, <3>2, <4>1 DEF CountersMatch, Acquire, Charged
    <3> QED BY <3>1, <3>2
  <2>3. ASSUME ~OmitsIp, NEW p \in Ips PROVE ipActive'[p] = Cardinality(SessionsFrom(p)')
    <3>1. CASE p = IpOf[s]
      <4>1. SessionsFrom(p)' = SessionsFrom(p) \cup {s} /\ s \notin SessionsFrom(p)
        BY <1>1, <3>1 DEF SessionsFrom
      <4>2. Cardinality(SessionsFrom(p)') = Cardinality(SessionsFrom(p)) + 1
        BY <4>1, FiniteSessions, FS_AddElement
      <4> QED BY <1>1, <2>3, <3>1, <4>2 DEF CountersMatch, Acquire, Charged
    <3>2. CASE p # IpOf[s]
      <4>1. SessionsFrom(p)' = SessionsFrom(p)
        BY <1>1, <3>2 DEF SessionsFrom
      <4> QED BY <1>1, <2>3, <3>2, <4>1 DEF CountersMatch, Acquire, Charged
    <3> QED BY <3>1, <3>2
  <2> QED BY <2>1, <2>2, <2>3 DEF CountersMatch
<1>4. ASSUME NEW p \in Ips,
             \A t \in {t \in Sessions : IpOf[t] = p} : Policy[t].maxConc # 0,
             {t \in Sessions : IpOf[t] = p} # {}
      PROVE  \E t \in {t \in Sessions : IpOf[t] = p} : ipActive'[p] <= Policy[t].maxConc
  <2>1. CASE p = IpOf[s]
    <3>1. ipActive[p] < Policy[s].maxConc
      BY <1>1, <1>4, <2>1 DEF Acquire, Admitted, BelowLimits
    <3>2. ipActive'[p] = ipActive[p] + 1
      BY <1>1, <2>1 DEF Acquire, Charged
    <3>3. ipActive'[p] <= Policy[s].maxConc
      BY <1>1, <3>1, <3>2, PolicyTypes
    <3> QED BY <2>1, <3>3
  <2>2. CASE p # IpOf[s]
    <3>1. ipActive'[p] = ipActive[p]
      BY <1>1, <2>2 DEF Acquire, Charged
    <3> QED BY <1>4, <3>1 DEF LimitsHold
  <2> QED BY <2>1, <2>2
<1>5. ASSUME NEW i \in Ids,
             \A t \in {t \in Sessions : IdOf[t] = i} :
                 Policy[t].maxConc # 0 /\ Policy[t].maxPerId # 0,
             {t \in Sessions : IdOf[t] = i} # {}
      PROVE  \E t \in {t \in Sessions : IdOf[t] = i} : idActive'[i] <= Policy[t].maxPerId
  <2>1. CASE i = IdOf[s]
    <3>1. idActive[i] < Policy[s].maxPerId
      BY <1>1, <1>5, <2>1 DEF Acquire, Admitted, BelowLimits
    <3>2. idActive'[i] = idActive[i] + 1
      BY <1>1, <2>1 DEF Acquire, Charged
    <3>3. idActive'[i] <= Policy[s].maxPerId
      BY <1>1, <3>1, <3>2, PolicyTypes
    <3> QED BY <2>1, <3>3
  <2>2. CASE i # IdOf[s]
    <3>1. idActive'[i] = idActive[i]
      BY <1>1, <2>2 DEF Acquire, Charged
    <3> QED BY <1>5, <3>1 DEF LimitsHold
  <2> QED BY <2>1, <2>2
<1>6. LimitsHold'
  BY <1>4, <1>5 DEF LimitsHold
<1> QED BY <1>2, <1>3, <1>6

\* Counters that do not grow stay within the limits.
LEMMA LimitsShrink ==
  ASSUME TypeOK, TypeOK', LimitsHold,
         \A p \in Ips : ipActive'[p] <= ipActive[p],
         \A i \in Ids : idActive'[i] <= idActive[i]
  PROVE  LimitsHold'
<1>1. /\ \A p \in Ips : ipActive[p] \in Int /\ ipActive'[p] \in Int
      /\ \A i \in Ids : idActive[i] \in Int /\ idActive'[i] \in Int
  BY DEF TypeOK
<1>2. ASSUME NEW p \in Ips, NEW t \in Sessions, ipActive[p] <= Policy[t].maxConc
      PROVE  ipActive'[p] <= Policy[t].maxConc
  BY <1>1, <1>2, PolicyTypes
<1>3. ASSUME NEW i \in Ids, NEW t \in Sessions, idActive[i] <= Policy[t].maxPerId
      PROVE  idActive'[i] <= Policy[t].maxPerId
  BY <1>1, <1>3, PolicyTypes
<1> QED BY <1>2, <1>3 DEF LimitsHold

LEMMA ReleaseCounters ==
  ASSUME TypeOK, TypeOK', SessionsOpen, CountersMatch, LimitsHold,
         NEW s \in Sessions, Release(s)
  PROVE  SessionsOpen' /\ CountersMatch' /\ LimitsHold'
<1>1. /\ IdOf[s] \in Ids \cup {None} /\ IpOf[s] \in Ips \cup {None}
      /\ ipActive \in [Ips -> Int] /\ idActive \in [Ids -> Int] /\ active \in Int
      /\ client \in [Sessions -> {"idle", "open", "sending"}]
      /\ None \notin Ids /\ None \notin Ips
  BY SessionAssumption DEF TypeOK
<1>2. CASE s \notin sessions
  <2>1. UNCHANGED <<sessions, active, ipActive, idActive>>
    BY <1>2 DEF Release, Known, counters
  <2>2. SessionsOpen'
    BY <1>1, <1>2, <2>1 DEF SessionsOpen, Release
  <2> QED BY <2>1, <2>2 DEF CountersMatch, SessionsOf, SessionsFrom, LimitsHold
<1>3. CASE s \in sessions
  <2>1. /\ sessions' = sessions \ {s} /\ active' = active - 1
        /\ ipActive' = Credited(ipActive, IF OmitsIp THEN None ELSE IpOf[s])
        /\ idActive' = Credited(idActive, IdOf[s])
    BY <1>3 DEF Release, Known
  <2>2. SessionsOpen'
    BY <1>1, <2>1 DEF SessionsOpen, Release, TypeOK
  <2>3. active' = Cardinality(sessions')
    BY <1>1, <1>3, <2>1, FiniteSessions, FS_RemoveElement DEF CountersMatch
  <2>4. ASSUME NEW i \in Ids
        PROVE  idActive'[i] = Cardinality(SessionsOf(i)') /\ idActive'[i] <= idActive[i]
    <3>1. CASE i = IdOf[s]
      <4>1. SessionsOf(i)' = SessionsOf(i) \ {s} /\ s \in SessionsOf(i)
        BY <1>3, <2>1, <3>1 DEF SessionsOf
      <4>2. Cardinality(SessionsOf(i)') = Cardinality(SessionsOf(i)) - 1
        BY <4>1, FiniteSessions, FS_RemoveElement
      <4> QED BY <1>1, <2>1, <3>1, <4>2 DEF CountersMatch, Credited
    <3>2. CASE i # IdOf[s]
      <4>1. SessionsOf(i)' = SessionsOf(i)
        BY <2>1, <3>2 DEF SessionsOf
      <4> QED BY <1>1, <2>1, <3>2, <4>1 DEF CountersMatch, Credited
    <3> QED BY <3>1, <3>2
  <2>5. ASSUME ~OmitsIp, NEW p \in Ips PROVE ipActive'[p] = Cardinality(SessionsFrom(p)')
    <3>1. CASE p = IpOf[s]
      <4>1. SessionsFrom(p)' = SessionsFrom(p) \ {s} /\ s \in SessionsFrom(p)
        BY <1>3, <2>1, <3>1 DEF SessionsFrom
      <4>2. Cardinality(SessionsFrom(p)') = Cardinality(SessionsFrom(p)) - 1
        BY <4>1, FiniteSessions, FS_RemoveElement
      <4> QED BY <1>1, <2>1, <2>5, <3>1, <4>2 DEF CountersMatch, Credited
    <3>2. CASE p # IpOf[s]
      <4>1. SessionsFrom(p)' = SessionsFrom(p)
        BY <2>1, <3>2 DEF SessionsFrom
      <4> QED BY <1>1, <2>1, <2>5, <3>2, <4>1 DEF CountersMatch, Credited
    <3> QED BY <3>1, <3>2
  <2>6. ASSUME NEW p \in Ips PROVE ipActive'[p] <= ipActive[p]
    BY <1>1, <2>1 DEF Credited
  <2>7. LimitsHold'
    BY <2>4, <2>6, LimitsShrink
  <2> QED BY <2>2, <2>3, <2>4, <2>5, <2>7 DEF CountersMatch
<1> QED BY <1>2, <1>3

LEMMA NoSessions ==
  (/\ sessions = {} /\ active = 0 /\ ipActive = [p \in Ips |-> 0]
   /\ idActive = [i \in Ids |-> 0])
     => SessionsOpen /\ CountersMatch /\ LimitsHold
<1> SUFFICES ASSUME sessions = {}, active = 0, ipActive = [p \in Ips |-> 0],
                    idActive = [i \in Ids |-> 0]
             PROVE  SessionsOpen /\ CountersMatch /\ LimitsHold
  OBVIOUS
<1>1. /\ Cardinality(sessions) = 0
      /\ \A i \in Ids : Cardinality(SessionsOf(i)) = 0
      /\ \A p \in Ips : Cardinality(SessionsFrom(p)) = 0
  <2>1. /\ \A i \in Ids : SessionsOf(i) = {}
        /\ \A p \in Ips : SessionsFrom(p) = {}
    BY DEF SessionsOf, SessionsFrom
  <2> QED BY <2>1, FS_EmptySet
<1>2. \A s \in Sessions : 0 <= Policy[s].maxConc /\ 0 <= Policy[s].maxPerId
  BY PolicyTypes
<1> QED BY <1>1, <1>2 DEF SessionsOpen, CountersMatch, LimitsHold

\* Steps that touch no counter, of clients that keep their session.
LEMMA CountersKept ==
  ASSUME SessionsOpen, CountersMatch, LimitsHold, UNCHANGED counters,
         \A s \in Sessions : client[s] # "idle" => client'[s] # "idle",
         sessions \subseteq Sessions
  PROVE  SessionsOpen' /\ CountersMatch' /\ LimitsHold'
<1>1. UNCHANGED <<sessions, active, ipActive, idActive>>
  BY DEF counters
<1> QED BY <1>1 DEF SessionsOpen, CountersMatch, SessionsOf, SessionsFrom, LimitsHold

----------------------------------------------------------------------------
(* Quotas.                                                                 *)

LEMMA SendingCount ==
  ASSUME TypeOK
  PROVE  /\ IsFiniteSet(Sending) /\ Cardinality(Sending) \in Nat
         /\ Cardinality(Sessions) \in Nat
         /\ Cardinality(Sending) <= Cardinality(Sessions)
<1>1. Sending \subseteq Sessions
  BY DEF Sending
<1> QED BY <1>1, SessionAssumption, FS_Subset, FS_CardinalityType

LEMMA DayGrows ==
  ASSUME now \in Nat, now' = now + 1
  PROVE  Day <= Day'
<1>1. DaySeconds \in Nat /\ DaySeconds > 0
  BY ClockAssumption
<1> DEFINE q == now \div DaySeconds
           r == now % DaySeconds
           x == (now + 1) \div DaySeconds
           y == (now + 1) % DaySeconds
<1>2. /\ q \in Nat /\ x \in Nat /\ r \in Nat /\ y \in Nat
      /\ r < DaySeconds /\ y < DaySeconds
      /\ now = DaySeconds * q + r /\ now + 1 = DaySeconds * x + y
  BY <1>1
<1> HIDE DEF q, r, x, y
<1>3. q <= x
  <2> SUFFICES ASSUME x + 1 <= q PROVE FALSE
    BY <1>2
  <2>1. DaySeconds * (x + 1) <= DaySeconds * q
    <3>1. q - (x + 1) \in Nat
      BY <1>2
    <3>2. DaySeconds * (q - (x + 1)) \in Nat
      BY <1>1, <3>1
    <3>3. DaySeconds * (q - (x + 1)) = DaySeconds * q - DaySeconds * (x + 1)
      BY <1>1, <1>2
    <3>4. DaySeconds * q \in Nat /\ DaySeconds * (x + 1) \in Nat
      BY <1>1, <1>2
    <3> QED BY <3>2, <3>3, <3>4
  <2>2. DaySeconds * (x + 1) = DaySeconds * x + DaySeconds
    BY <1>1, <1>2
  <2>3. DaySeconds * x \in Nat /\ DaySeconds * q \in Nat
    BY <1>1, <1>2
  <2> QED BY <1>1, <1>2, <2>1, <2>2, <2>3
<1>4. Day = 1 + q /\ Day' = 1 + x
  BY DEF Day, q, x
<1> QED BY <1>2, <1>3, <1>4

\* Steps that transfer nothing and do not move the clock.
LEMMA QuotaKept ==
  ASSUME QuotaInv, UNCHANGED <<now, globalUse, sent>>, Sending' = Sending
  PROVE  QuotaInv'
  BY DEF QuotaInv, Day

LEMMA CheckQuota ==
  ASSUME TypeOK, TypeOK', QuotaInv, NEW s \in Sessions, CheckBandwidth(s)
  PROVE  QuotaInv'
<1> DEFINE N == Cardinality(Sessions)
           P == Cardinality(Sending)
           Q == Cardinality(Sending')
<1>1. /\ Day \in Nat /\ Day' = Day /\ sent \in Nat /\ sent' = sent
      /\ globalUse \in GlobalUse /\ globalUse.bytes \in Nat
      /\ client \in [Sessions -> {"idle", "open", "sending"}]
  <2>1. now \in Nat
    BY ClockAssumption DEF TypeOK
  <2> QED BY <2>1, DayTypes DEF TypeOK, CheckBandwidth, GlobalUse, Day
<1>2. /\ globalUse'.lastDay = Day
      /\ globalUse'.bytes = DayBytes(globalUse)
  BY <1>1 DEF CheckBandwidth, Rolled, RolledGlobal, GlobalUse
<1>3. N \in Nat /\ P \in Nat /\ P <= N /\ Q \in Nat /\ Q <= N
  <2>1. IsFiniteSet(Sessions) /\ Sending' \subseteq Sessions
    BY SessionAssumption DEF Sending
  <2> QED BY <2>1, SendingCount, FS_Subset, FS_CardinalityType
<1>4. sent' <= globalUse'.bytes + N
  <2>1. CASE globalUse.lastDay = Day
    BY <1>1, <1>2, <1>3, <2>1 DEF QuotaInv, DayBytes
  <2>2. CASE globalUse.lastDay # Day
    BY <1>1, <1>2, <1>3, <2>2 DEF QuotaInv, DayBytes
  <2> QED BY <2>1, <2>2
<1>5. ASSUME \A t \in Sessions : Policy[t].maxDay # 0
      PROVE  \E t \in Sessions : globalUse'.bytes + Q < Policy[t].maxDay + N
  <2>1. CASE CheckGlobal(s)
    <3>1. DayBytes(globalUse) + 1 <= Policy[s].maxDay
      BY <1>5, <2>1 DEF CheckGlobal, Allows
    <3>2. globalUse'.bytes + Q < Policy[s].maxDay + N
      BY <1>1, <1>2, <1>3, <3>1, PolicyTypes DEF DayBytes
    <3> QED BY <3>2
  <2>2. CASE ~CheckGlobal(s)
    <3>1. Sending' = Sending
      BY <1>1, <2>2 DEF CheckBandwidth, Sending
    <3>2. CASE globalUse.lastDay = Day
      BY <1>2, <1>5, <3>1, <3>2 DEF QuotaInv, DayBytes
    <3>3. CASE globalUse.lastDay # Day
      <4>1. globalUse'.bytes = 0 /\ Policy[s].maxDay \in Nat /\ Policy[s].maxDay # 0
        BY <1>2, <1>5, <3>3, PolicyTypes DEF DayBytes
      <4>2. globalUse'.bytes + Q < Policy[s].maxDay + N
        BY <1>3, <4>1
      <4> QED BY <4>2
    <3> QED BY <3>2, <3>3
  <2> QED BY <2>1, <2>2
<1> QED BY <1>1, <1>2, <1>4, <1>5 DEF QuotaInv

LEMMA RecordQuota ==
  ASSUME TypeOK, QuotaInv, NEW s \in Sessions, RecordBytes(s)
  PROVE  QuotaInv'
<1> DEFINE N == Cardinality(Sessions)
           P == Cardinality(Sending)
           Q == Cardinality(Sending')
<1>1. /\ Day' = Day /\ sent \in Nat /\ sent' = sent + 1
      /\ globalUse \in GlobalUse /\ globalUse.bytes \in Nat
      /\ client \in [Sessions -> {"idle", "open", "sending"}]
  BY DEF TypeOK, RecordBytes, GlobalUse, Day
<1>2. globalUse'.lastDay = globalUse.lastDay /\ globalUse'.bytes = globalUse.bytes + 1
  BY <1>1 DEF RecordBytes, GlobalUse
<1>3. Sending' = Sending \ {s} /\ s \in Sending
  BY <1>1 DEF RecordBytes, Sending
<1>4. N \in Nat /\ P \in Nat /\ Q = P - 1
  BY <1>3, SendingCount, FS_RemoveElement
<1>5. \A t \in Sessions :
        globalUse.bytes + P < Policy[t].maxDay + N
           => globalUse'.bytes + Q < Policy[t].maxDay + N
  BY <1>1, <1>2, <1>4, PolicyTypes
<1>6. sent' + Q = sent + P
  BY <1>1, <1>4
<1>7. sent <= globalUse.bytes + N => sent' <= globalUse'.bytes + N
  BY <1>1, <1>2, <1>4
<1> QED BY <1>1, <1>2, <1>5, <1>6, <1>7 DEF QuotaInv

LEMMA ResetQuota ==
  ASSUME TypeOK, Reset PROVE QuotaInv'
<1>1. now \in Nat /\ Day \in Nat /\ Day' = Day /\ Day >= 1
  <2>1. now \in Nat
    BY ClockAssumption DEF TypeOK
  <2>2. now \div DaySeconds \in Nat
    BY <2>1, ClockAssumption
  <2> QED BY <2>1, <2>2 DEF Day, Reset
<1>2. Sending' = Sending
  BY DEF Reset, Sending
<1>3. globalUse'.lastDay = 0 /\ sent' = 0
  BY DEF Reset, NewGlobalUse
<1> QED BY <1>1, <1>2, <1>3, SendingCount DEF QuotaInv

LEMMA TickQuota ==
  ASSUME TypeOK, QuotaInv, Tick PROVE QuotaInv'
<1>1. /\ now \in Nat /\ Day \in Nat /\ Day <= Day' /\ Day' \in Nat
      /\ globalUse.lastDay \in Nat
  <2>1. now \in Nat /\ now' \in Nat /\ globalUse.lastDay \in Nat
    BY ClockAssumption DEF TypeOK, Tick, GlobalUse
  <2>2. Day \in Nat /\ Day <= Day'
    BY <2>1, DayTypes, DayGrows DEF Tick
  <2>3. now' \div DaySeconds \in Nat
    <3>1. \A n \in Nat : n \div DaySeconds \in Nat
      BY ClockAssumption
    <3> QED BY <2>1, <3>1
  <2>4. Day' \in Nat
    BY <2>3 DEF Day
  <2> QED BY <2>1, <2>2, <2>4
<1>2. Sending' = Sending /\ globalUse' = globalUse
  BY DEF Tick, Sending
<1>3. CASE Day' = Day
  <2>1. sent' = sent
    BY <1>3 DEF Tick
  <2> QED BY <1>2, <1>3, <2>1 DEF QuotaInv
<1>4. CASE Day' # Day
  <2>1. sent' = 0
    BY <1>4 DEF Tick
  <2>2. globalUse.lastDay <= Day' /\ globalUse.lastDay # Day'
    BY <1>1, <1>4 DEF QuotaInv
  <2> QED BY <1>2, <2>1, <2>2, SendingCount DEF QuotaInv
<1> QED BY <1>3, <1>4

----------------------------------------------------------------------------
(* The invariant.                                                          *)

LEMMA InitLimiter == Init => LimiterInv
<1> SUFFICES ASSUME Init PROVE LimiterInv
  OBVIOUS
<1>1. TypeOK /\ BucketInv
  BY InitBuckets
<1>2. SessionsOpen /\ CountersMatch /\ LimitsHold
  BY NoSessions DEF Init
<1>3. QuotaInv
  <2>1. now = 0 /\ globalUse.lastDay = 0 /\ sent = 0
    BY DEF Init, NewGlobalUse
  <2>2. 0 \div DaySeconds = 0
    BY ClockAssumption
  <2>3. Day = 1
    BY <2>1, <2>2 DEF Day
  <2> QED BY <1>1, <2>1, <2>3, SendingCount DEF QuotaInv
<1> QED BY <1>1, <1>2, <1>3 DEF LimiterInv

LEMMA StepLimiter == LimiterInv /\ [Next]_vars => LimiterInv'
<1> SUFFICES ASSUME LimiterInv, [Next]_vars PROVE LimiterInv'
  OBVIOUS
<1>0. /\ TypeOK /\ BucketInv /\ SessionsOpen /\ CountersMatch /\ LimitsHold
      /\ QuotaInv /\ TypeOK' /\ BucketInv'
  BY StepBuckets DEF LimiterInv
<1>1. client \in [Sessions -> {"idle", "open", "sending"}] /\ sessions \subseteq Sessions
  BY <1>0 DEF TypeOK
<1> SUFFICES SessionsOpen' /\ CountersMatch' /\ LimitsHold' /\ QuotaInv'
  BY <1>0 DEF LimiterInv
<1>2. ASSUME NEW s \in Sessions, Acquire(s)
      PROVE  SessionsOpen' /\ CountersMatch' /\ LimitsHold' /\ QuotaInv'
  <2>1. Sending' = Sending
    BY <1>1, <1>2 DEF Sending, Acquire
  <2> QED BY <1>0, <1>2, <2>1, AcquireCounters, QuotaKept DEF Acquire, quotas
<1>3. ASSUME NEW s \in Sessions, Refuse(s) \/ Request(s)
      PROVE  SessionsOpen' /\ CountersMatch' /\ LimitsHold' /\ QuotaInv'
  <2>1. UNCHANGED <<now, counters, quotas, client>>
    BY <1>3 DEF Refuse, Request
  <2>2. QuotaInv'
    BY <1>0, <2>1, QuotaKept DEF Sending, quotas
  <2> QED BY <1>0, <1>1, <2>1, <2>2, CountersKept
<1>4. ASSUME NEW s \in Sessions, Release(s)
      PROVE  SessionsOpen' /\ CountersMatch' /\ LimitsHold' /\ QuotaInv'
  <2>1. Sending' = Sending
    BY <1>1, <1>4 DEF Sending, Release
  <2> QED BY <1>0, <1>4, <2>1, ReleaseCounters, QuotaKept DEF Release, quotas
<1>5. ASSUME NEW s \in Sessions, CheckBandwidth(s)
      PROVE  SessionsOpen' /\ CountersMatch' /\ LimitsHold' /\ QuotaInv'
  <2>1. UNCHANGED counters /\ \A t \in Sessions : client[t] # "idle" => client'[t] # "idle"
    BY <1>1, <1>5 DEF CheckBandwidth
  <2> QED BY <1>0, <1>1, <1>5, <2>1, CountersKept, CheckQuota
<1>6. ASSUME NEW s \in Sessions, RecordBytes(s)
      PROVE  SessionsOpen' /\ CountersMatch' /\ LimitsHold' /\ QuotaInv'
  <2>1. UNCHANGED counters /\ \A t \in Sessions : client[t] # "idle" => client'[t] # "idle"
    BY <1>1, <1>6 DEF RecordBytes
  <2> QED BY <1>0, <1>1, <1>6, <2>1, CountersKept, RecordQuota
<1>7. ASSUME Reset PROVE SessionsOpen' /\ CountersMatch' /\ LimitsHold' /\ QuotaInv'
  <2>1. /\ sessions' = {} /\ active' = 0 /\ ipActive' = [p \in Ips |-> 0]
        /\ idActive' = [i \in Ids |-> 0]
    BY <1>7 DEF Reset
  <2>2. SessionsOpen' /\ CountersMatch' /\ LimitsHold'
    <3>1. (/\ sessions = {} /\ active = 0 /\ ipActive = [p \in Ips |-> 0]
           /\ idActive = [i \in Ids |-> 0])'
      BY <2>1
    <3> QED BY <3>1, NoSessions, PTL
  <2> QED BY <1>0, <1>7, <2>2, ResetQuota
<1>8. ASSUME Tick PROVE SessionsOpen' /\ CountersMatch' /\ LimitsHold' /\ QuotaInv'
  <2>1. UNCHANGED <<counters, client>>
    BY <1>8 DEF Tick
  <2> QED BY <1>0, <1>1, <1>8, <2>1, CountersKept, TickQuota
<1>9. CASE UNCHANGED vars
  <2>1. UNCHANGED <<counters, now, globalUse, sent, client>>
    BY <1>9 DEF vars, counters
  <2>2. Sending' = Sending
    BY <2>1 DEF Sending
  <2> QED BY <1>0, <1>1, <2>1, <2>2, CountersKept, QuotaKept
<1> QED
  BY <1>2, <1>3, <1>4, <1>5, <1>6, <1>7, <1>8, <1>9 DEF Next

\* The counters are those of the active sessions, and the limits on concurrent
\* sessions hold, for every policy and every set of clients.
THEOREM SessionsCounted == Spec => [](CountersMatch /\ LimitsHold)
<1>1. LimiterInv => CountersMatch /\ LimitsHold
  BY DEF LimiterInv
<1> QED BY InitLimiter, StepLimiter, <1>1, PTL DEF Spec

\* The daily quota is exceeded by less than two chunks of each client, for every
\* policy, clock and set of clients.
THEOREM QuotaBounded == Spec => []DailyOvershoot
<1>1. LimiterInv => DailyOvershoot
  <2> SUFFICES ASSUME LimiterInv, \A s \in Sessions : Policy[s].maxDay # 0,
                      Sessions # {}
               PROVE  \E s \in Sessions : sent + Cardinality(Sending)
                          < Policy[s].maxDay + 2 * Cardinality(Sessions)
    BY DEF DailyOvershoot
  <2> DEFINE N == Cardinality(Sessions)
             P == Cardinality(Sending)
  <2>1. /\ N \in Nat /\ P \in Nat /\ P <= N /\ sent \in Nat
        /\ globalUse.bytes \in Nat
    BY SendingCount DEF LimiterInv, TypeOK, GlobalUse
  <2>2. \A s \in Sessions : Policy[s].maxDay \in Nat /\ Policy[s].maxDay # 0
    BY PolicyTypes
  <2>3. CASE globalUse.lastDay # Day
    <3>1. sent + P <= N
      BY <2>3 DEF LimiterInv, QuotaInv
    <3> HIDE DEF N, P
    <3>2. ASSUME NEW s \in Sessions PROVE sent + P < Policy[s].maxDay + 2 * N
      <4> DEFINE m == Policy[s].maxDay
      <4>1. m \in Nat /\ m # 0
        BY <2>2
      <4> HIDE DEF m
      <4>2. sent + P < m + 2 * N
        BY <2>1, <3>1, <4>1
      <4> QED BY <4>2 DEF m
    <3> USE DEF N, P
    <3> QED BY <3>2
  <2>4. CASE globalUse.lastDay = Day
    <3>1. /\ sent <= globalUse.bytes + N
          /\ \E s \in Sessions : globalUse.bytes + P < Policy[s].maxDay + N
      BY <2>4 DEF LimiterInv, QuotaInv
    <3> HIDE DEF N, P
    <3>2. \E s \in Sessions : sent + P < Policy[s].maxDay + 2 * N
      BY <2>1, <2>2, <3>1
    <3> USE DEF N, P
    <3> QED BY <3>2
  <2> QED BY <2>3, <2>4
<1> QED BY InitLimiter, StepLimiter, <1>1, PTL DEF Spec

\* No address and no identity ever has more active sessions than its policy
\* allows.
THEOREM LimitsAreHeld == Spec => []LimitsHold
<1> QED BY SessionsCounted, PTL
=============================================================================
