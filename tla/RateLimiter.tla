---------------------------- MODULE RateLimiter ----------------------------
(***************************************************************************)
(* The rate limiter of wh/enterprise/rate_limiter.py: token buckets,       *)
(* session counters and transfer quotas, for concurrent clients.           *)
(*                                                                         *)
(* Every method holds _lock from its first to its last line and awaits     *)
(* nothing inside, so every method is one step.  What interleaves are the  *)
(* steps of a client: acquire, then check_bandwidth and record_bytes for   *)
(* each transfer, then release.                                            *)
(*                                                                         *)
(* Time is a number of seconds, and buckets hold whole tokens.  A transfer *)
(* is one chunk, the unit of the quotas.  connections_today and the bytes  *)
(* of an IP address are counted for get_stats only and are left out.       *)
(*                                                                         *)
(* Where an operator has a second form right before it, the first is a     *)
(* plausible wrong version that the properties are tested against.         *)
(***************************************************************************)
EXTENDS Integers, FiniteSets

CONSTANTS
    Sessions,    \* session ids; one client each
    Ids, Ips,    \* identities and source addresses
    IdOf, IpOf,  \* those a client names, or None
    GlobalRate,  \* requests_per_second of the policy, 0 when not set
    Burst,       \* burst_multiplier
    Policy,      \* Policy[s]: what get_rate_limits and get_quotas return for s
    OmitsIp,     \* do clients call release without their source address?
    DaySeconds,  \* bound: the length of a day
    MonthDays,   \* bound: the length of a month
    MaxTime,     \* bound: the time at which a behaviour ends
    None         \* Python's None

\* A limit of 0 stands for a limit that is not set: the code tests both alike.
Limits == [perMinute : Nat,        \* connections_per_minute
           rate : Nat \ {0},       \* tokens per second of a bucket
           maxConc : Nat,          \* max_concurrent_connections
           maxPerId : Nat,         \* max_sessions_per_identity
           maxDay : Nat,           \* max_transfer_bytes_per_day
           maxMonth : Nat]         \* max_transfer_bytes_per_month

ASSUME SessionAssumption ==
    /\ IsFiniteSet(Sessions)
    /\ IdOf \in [Sessions -> Ids \cup {None}]
    /\ IpOf \in [Sessions -> Ips \cup {None}]
    /\ None \notin Ids /\ None \notin Ips
ASSUME PolicyAssumption ==
    /\ Policy \in [Sessions -> Limits]
    /\ GlobalRate \in Nat /\ Burst \in Nat \ {0}
    /\ OmitsIp \in BOOLEAN
ASSUME ClockAssumption ==
    MaxTime \in Nat /\ DaySeconds \in Nat \ {0} /\ MonthDays \in Nat \ {0}

VARIABLES
    now,           \* the clock
    globalBucket,  \* _global_bucket, or None
    ipBuckets,     \* _ip_buckets and ...
    idBuckets,     \* ... _identity_buckets: None where there is no entry
    sessions,      \* _active_sessions
    active,        \* _global_tracker.active_connections
    ipActive,      \* active_connections of _ip_connections and ...
    idActive,      \* ... of _identity_connections
    globalUse,     \* bytes and last resets of _global_tracker ...
    idUse,         \* ... and of _identity_connections
    client,        \* what each client is doing
    sent           \* history: chunks recorded since midnight or a reset

counters == <<sessions, active, ipActive, idActive>>
buckets == <<globalBucket, ipBuckets, idBuckets>>
quotas == <<globalUse, idUse, sent>>
vars == <<now, globalBucket, ipBuckets, idBuckets, sessions, active, ipActive,
          idActive, globalUse, idUse, client, sent>>

\* tm_yday and tm_mon: both start at 1, and no clock here runs for a year.
Day == 1 + (now \div DaySeconds)
Month == 1 + ((Day - 1) \div MonthDays)

----------------------------------------------------------------------------
(* TokenBucket.  born and granted are history: when the bucket was made and *)
(* how many tokens it gave.                                                 *)

NewBucket(rate) ==
    [cap |-> rate * Burst, rate |-> rate, tokens |-> rate * Burst,
     last |-> now, born |-> now, granted |-> 0]

RefilledUncapped(b) == b.tokens + (now - b.last) * b.rate
Refilled(b) ==
    LET t == b.tokens + (now - b.last) * b.rate IN IF t <= b.cap THEN t ELSE b.cap

LastNever(b) == b.last
Last(b) == now

Enough(b) == Refilled(b) >= 1

\* try_acquire: refill, then take a token if there is one.
TryAcquire(b) ==
    LET taken == IF Enough(b) THEN 1 ELSE 0
    IN  [b EXCEPT !.tokens = Refilled(b) - taken, !.last = Last(b),
                  !.granted = @ + taken]

GlobalBucket == IF GlobalRate = 0 THEN None ELSE NewBucket(GlobalRate)

\* _get_bucket: a bucket keeps the rate of the request that made it.
BucketFor(bs, key, s) == IF bs[key] = None THEN NewBucket(Policy[s].rate) ELSE bs[key]

----------------------------------------------------------------------------
(* ConnectionTracker: the transfer counters.                               *)

\* The monthly counter of an identity is written but never read: left out.
NewUse == [bytes |-> 0, lastDay |-> 0]
NewGlobalUse == [bytes |-> 0, lastDay |-> 0, month |-> 0, lastMonth |-> 0]

\* reset_if_needed.
DayBytesForget(u) == 0
DayBytes(u) == IF u.lastDay = Day THEN u.bytes ELSE 0
MonthBytes(u) == IF u.lastMonth = Month THEN u.month ELSE 0

Rolled(u) == [u EXCEPT !.bytes = DayBytes(u), !.lastDay = Day]
RolledGlobal(u) == [Rolled(u) EXCEPT !.month = MonthBytes(u), !.lastMonth = Month]

Init ==
    /\ now = 0
    /\ globalBucket = GlobalBucket
    /\ ipBuckets = [p \in Ips |-> None]
    /\ idBuckets = [i \in Ids |-> None]
    /\ sessions = {}
    /\ active = 0
    /\ ipActive = [p \in Ips |-> 0]
    /\ idActive = [i \in Ids |-> 0]
    /\ globalUse = NewGlobalUse
    /\ idUse = [i \in Ids |-> NewUse]
    /\ client = [s \in Sessions |-> "idle"]
    /\ sent = 0

----------------------------------------------------------------------------
(* acquire and release.                                                    *)

UsesIp(s) == IpOf[s] # None /\ Policy[s].perMinute # 0
UsesId(s) == IdOf[s] # None /\ Policy[s].perMinute # 0

PassGlobal == globalBucket # None => Enough(globalBucket)
PassIp(s) == UsesIp(s) => Enough(BucketFor(ipBuckets, IpOf[s], s))
PassId(s) == UsesId(s) => Enough(BucketFor(idBuckets, IdOf[s], s))

\* The concurrency limits.  The limit per identity is looked at only when the
\* limit on connections is set.
BelowLimitsByOne(s) ==
    Policy[s].maxConc # 0 =>
        /\ IpOf[s] # None => ipActive[IpOf[s]] <= Policy[s].maxConc
        /\ IdOf[s] # None /\ Policy[s].maxPerId # 0 =>
              idActive[IdOf[s]] <= Policy[s].maxPerId
BelowLimits(s) ==
    Policy[s].maxConc # 0 =>
        /\ IpOf[s] # None => ipActive[IpOf[s]] < Policy[s].maxConc
        /\ IdOf[s] # None /\ Policy[s].maxPerId # 0 =>
              idActive[IdOf[s]] < Policy[s].maxPerId

\* The three buckets in turn; the tokens of a passed bucket are gone even when
\* a later check refuses the request.
TakeTokens(s) ==
    /\ globalBucket' = IF globalBucket = None THEN None ELSE TryAcquire(globalBucket)
    /\ ipBuckets' =
         IF PassGlobal /\ UsesIp(s)
         THEN [ipBuckets EXCEPT ![IpOf[s]] = TryAcquire(BucketFor(ipBuckets, IpOf[s], s))]
         ELSE ipBuckets
    /\ idBuckets' =
         IF PassGlobal /\ PassIp(s) /\ UsesId(s)
         THEN [idBuckets EXCEPT ![IdOf[s]] = TryAcquire(BucketFor(idBuckets, IdOf[s], s))]
         ELSE idBuckets

Admitted(s) == PassGlobal /\ PassIp(s) /\ PassId(s) /\ BelowLimits(s)

Charged(f, key) == IF key = None THEN f ELSE [f EXCEPT ![key] = @ + 1]
Credited(f, key) == IF key = None THEN f ELSE [f EXCEPT ![key] = @ - 1]

Acquire(s) ==
    /\ client[s] = "idle"
    /\ Admitted(s)
    /\ TakeTokens(s)
    /\ sessions' = sessions \cup {s}
    /\ active' = active + 1
    /\ ipActive' = Charged(ipActive, IpOf[s])
    /\ idActive' = Charged(idActive, IdOf[s])
    /\ client' = [client EXCEPT ![s] = "open"]
    /\ UNCHANGED <<now, quotas>>

Refuse(s) ==
    /\ client[s] = "idle"
    /\ ~Admitted(s)
    /\ TakeTokens(s)
    /\ UNCHANGED <<now, counters, quotas, client>>

\* acquire without a session id, for a request: checked like a connection, but
\* nothing is counted.
Request(s) ==
    /\ client[s] = "open"
    /\ TakeTokens(s)
    /\ UNCHANGED <<now, counters, quotas, client>>

\* "if session_id in self._active_sessions": false after a reset.
KnownAlways(s) == TRUE
Known(s) == s \in sessions

Release(s) ==
    /\ client[s] = "open"
    /\ IF Known(s)
       THEN /\ sessions' = sessions \ {s}
            /\ active' = active - 1
            /\ ipActive' = Credited(ipActive, IF OmitsIp THEN None ELSE IpOf[s])
            /\ idActive' = Credited(idActive, IdOf[s])
       ELSE UNCHANGED counters
    /\ client' = [client EXCEPT ![s] = "idle"]
    /\ UNCHANGED <<now, buckets, quotas>>

----------------------------------------------------------------------------
(* check_bandwidth, record_bytes, reset; the clock.                        *)

Allows(max, used) == max # 0 => used + 1 <= max

\* The global counters are compared with the quotas of the client.
CheckGlobal(s) ==
    /\ Allows(Policy[s].maxDay, DayBytes(globalUse))
    /\ Allows(Policy[s].maxMonth, MonthBytes(globalUse))
CheckId(s) ==
    IdOf[s] # None => Allows(Policy[s].maxDay, DayBytes(idUse[IdOf[s]]))

CheckBandwidth(s) ==
    /\ client[s] = "open"
    /\ globalUse' = RolledGlobal(globalUse)
    /\ idUse' = IF CheckGlobal(s) /\ IdOf[s] # None
                THEN [idUse EXCEPT ![IdOf[s]] = Rolled(@)] ELSE idUse
    /\ client' = [client EXCEPT ![s] =
                    IF CheckGlobal(s) /\ CheckId(s) THEN "sending" ELSE "open"]
    /\ UNCHANGED <<now, buckets, counters, sent>>

RecordBytes(s) ==
    /\ client[s] = "sending"
    /\ globalUse' = [globalUse EXCEPT !.bytes = @ + 1, !.month = @ + 1]
    /\ idUse' = IF IdOf[s] # None
                THEN [idUse EXCEPT ![IdOf[s]].bytes = @ + 1] ELSE idUse
    /\ client' = [client EXCEPT ![s] = "open"]
    /\ sent' = sent + 1
    /\ UNCHANGED <<now, buckets, counters>>

Reset ==
    /\ globalBucket' = GlobalBucket
    /\ ipBuckets' = [p \in Ips |-> None]
    /\ idBuckets' = [i \in Ids |-> None]
    /\ sessions' = {}
    /\ active' = 0
    /\ ipActive' = [p \in Ips |-> 0]
    /\ idActive' = [i \in Ids |-> 0]
    /\ globalUse' = NewGlobalUse
    /\ idUse' = [i \in Ids |-> NewUse]
    /\ sent' = 0
    /\ UNCHANGED <<now, client>>

Tick ==
    /\ now < MaxTime
    /\ now' = now + 1
    /\ sent' = IF Day' = Day THEN sent ELSE 0
    /\ UNCHANGED <<buckets, counters, globalUse, idUse, client>>

Next ==
    \/ \E s \in Sessions :
         \/ Acquire(s) \/ Refuse(s) \/ Request(s) \/ Release(s)
         \/ CheckBandwidth(s) \/ RecordBytes(s)
    \/ Reset \/ Tick

Spec == Init /\ [][Next]_vars

----------------------------------------------------------------------------
(* Properties.                                                             *)

Bucket == [cap : Nat, rate : Nat, tokens : Nat, last : Nat, born : Nat, granted : Nat]
Use == [bytes : Nat, lastDay : Nat]
GlobalUse == [bytes : Nat, lastDay : Nat, month : Nat, lastMonth : Nat]

AllBuckets ==
    {b \in {globalBucket} \cup {ipBuckets[p] : p \in Ips} \cup {idBuckets[i] : i \in Ids} :
        b # None}

\* Types; and no bucket holds more than its capacity, however long nobody asked.
TypeOK ==
    /\ now \in 0..MaxTime
    /\ globalBucket \in Bucket \cup {None}
    /\ ipBuckets \in [Ips -> Bucket \cup {None}]
    /\ idBuckets \in [Ids -> Bucket \cup {None}]
    /\ sessions \in SUBSET Sessions
    /\ active \in Int
    /\ ipActive \in [Ips -> Int]
    /\ idActive \in [Ids -> Int]
    /\ globalUse \in GlobalUse
    /\ idUse \in [Ids -> Use]
    /\ client \in [Sessions -> {"idle", "open", "sending"}]
    /\ sent \in Nat
    /\ \A b \in AllBuckets : b.tokens <= b.cap

\* The rate limit itself: a bucket never gave more tokens than its burst and
\* what its rate allows for the time since it was made.
RateBound ==
    \A b \in AllBuckets : b.granted <= b.cap + b.rate * (now - b.born)

SessionsFrom(p) == {s \in sessions : IpOf[s] = p}
SessionsOf(i) == {s \in sessions : IdOf[s] = i}

\* The counters are those of the active sessions, across resets that forget
\* sessions whose clients release them later.  The counters of addresses need
\* clients that name their address when they release: see ReleaseFreesSlot.
CountersMatch ==
    /\ active = Cardinality(sessions)
    /\ \A i \in Ids : idActive[i] = Cardinality(SessionsOf(i))
    /\ ~OmitsIp => \A p \in Ips : ipActive[p] = Cardinality(SessionsFrom(p))

\* An address, or an identity, has no more sessions than the largest limit the
\* policy gives to one of its clients.
LimitsHold ==
    /\ \A p \in Ips :
         LET cs == {s \in Sessions : IpOf[s] = p}
         IN  (\A s \in cs : Policy[s].maxConc # 0) /\ cs # {} =>
                \E s \in cs : ipActive[p] <= Policy[s].maxConc
    /\ \A i \in Ids :
         LET cs == {s \in Sessions : IdOf[s] = i}
         IN  (\A s \in cs : Policy[s].maxConc # 0 /\ Policy[s].maxPerId # 0) /\ cs # {} =>
                \E s \in cs : idActive[i] <= Policy[s].maxPerId

Sending == {s \in Sessions : client[s] = "sending"}

\* check_bandwidth and record_bytes are two steps, and record_bytes does not
\* look at the date.  What is really sent on a day still exceeds the largest
\* daily quota by less than two chunks of each client: one that passed the check
\* together with others, and one that passed it before midnight (or a reset) and
\* was recorded after, to be forgotten at the next check.
DailyOvershoot ==
    (\A s \in Sessions : Policy[s].maxDay # 0) /\ Sessions # {} =>
        \E s \in Sessions :
            sent + Cardinality(Sending) < Policy[s].maxDay + 2 * Cardinality(Sessions)

\* "Release when done": when no session is active, no address is charged.
ReleaseFreesSlot == sessions = {} => \A p \in Ips : ipActive[p] = 0

----------------------------------------------------------------------------
(* The inductive invariant behind the properties above.                    *)

\* Tokens left and tokens given add up to no more than the bucket ever had.
GoodBucket(b) ==
    /\ b.tokens <= b.cap
    /\ b.born <= b.last /\ b.last <= now
    /\ b.tokens + b.granted <= b.cap + b.rate * (b.last - b.born)

BucketInv == \A b \in AllBuckets : GoodBucket(b)

\* Before the first check of a day every client has sent at most the chunk it
\* was allowed the day before; after it, that is all the counter misses, and
\* the counter with what is still in flight is bounded by the last check.
QuotaInv ==
    /\ globalUse.lastDay <= Day
    /\ globalUse.lastDay # Day => sent + Cardinality(Sending) <= Cardinality(Sessions)
    /\ globalUse.lastDay = Day =>
         /\ sent <= globalUse.bytes + Cardinality(Sessions)
         /\ (\A s \in Sessions : Policy[s].maxDay # 0) =>
              \E s \in Sessions :
                 globalUse.bytes + Cardinality(Sending)
                     < Policy[s].maxDay + Cardinality(Sessions)

\* A session id in use belongs to a client that has not released it.
SessionsOpen == \A s \in sessions : client[s] # "idle"

LimiterInv ==
    /\ TypeOK /\ BucketInv /\ SessionsOpen /\ CountersMatch /\ LimitsHold
    /\ QuotaInv
============================================================================
