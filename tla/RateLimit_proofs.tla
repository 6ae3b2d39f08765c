--------------------------- MODULE RateLimit_proofs ---------------------------
(***************************************************************************)
(* The counters keep their limits for any number of requests, processes    *)
(* and rules, any limits and windows, and any delay shorter than a window. *)
(*                                                                         *)
(* A hit may be trimmed or dropped while the request it stands for is      *)
(* still in somebody's span.  The invariant says which hits a counter must *)
(* still hold: those of the requests it let pass less than a window ago    *)
(* (KeptByRedis, KeptInMemory).  A script reads Redis at most MaxDelay     *)
(* after its clock, so what it does not find is more than Span away from   *)
(* the request it judges.                                                  *)
(***************************************************************************)
EXTENDS RateLimit, FiniteSetTheorems, TLAPS

RequestInv ==
    \A q \in Requests :
        /\ requests[q].sent <= requests[q].at /\ requests[q].at <= now
        /\ requests[q].pc = "idle" => requests[q] = Idle
        /\ requests[q].pc = "waiting" =>
              /\ requests[q].sent = requests[q].at
              /\ requests[q].counter = NoCounter
        /\ requests[q].pc = "allowed" => requests[q].counter # NoCounter

ScriptInv ==
    /\ now # 0
    /\ \A q \in Requests :
          /\ requests[q].copies > 0 \/ requests[q].pc = "waiting" =>
                requests[q].sent # 0
          /\ requests[q].copies > 0 => now <= requests[q].sent + MaxDelay
          /\ ~requests[q].resent => requests[q].copies <= 1

RunInv == \A k \in Keepers : runs[k] > 0

CounterInv ==
    \A q \in Requests :
        requests[q].counter # NoCounter =>
            /\ requests[q].counter.run \in 1..runs[requests[q].counter.keeper]
            /\ requests[q].counter.keeper = Redis =>
                  /\ requests[q].at = requests[q].sent
                  /\ ~requests[q].resent => requests[q].copies = 0
            /\ requests[q].counter.keeper # Redis =>
                  RuleOf[q] \notin FailClosed \/ MemoryOnly

MayHaveHit(q) == requests[q].pc # "idle" /\ ~OnItsWay(q) /\ ~TurnedAway(q)

HitsAreRequests ==
    \A rule \in Rules :
        /\ \A q \in bucket[rule] : RuleOf[q] = rule /\ MayHaveHit(q)
        /\ \A p \in Processes : \A q \in memory[p][rule] :
              RuleOf[q] = rule /\ Allowed(q)

CountersAreFull ==
    \A rule \in Rules :
        /\ IsFiniteSet(bucket[rule])
        /\ Cardinality(bucket[rule]) <= Limit[rule]
        /\ \A p \in Processes :
              /\ IsFiniteSet(memory[p][rule])
              /\ Cardinality(memory[p][rule]) <= Limit[rule]

\* The last snapshot of Redis holds no more, and nothing else.
SavedInv ==
    \A rule \in Rules :
        /\ IsFiniteSet(saved.bucket[rule])
        /\ Cardinality(saved.bucket[rule]) <= Limit[rule]
        /\ \A q \in saved.bucket[rule] : RuleOf[q] = rule /\ MayHaveHit(q)

RedisCounter == [keeper |-> Redis, run |-> runs[Redis]]
MemoryCounter(p) == [keeper |-> p, run |-> runs[p]]

KeptByRedis ==
    \A q \in Requests :
        Allowed(q) /\ requests[q].counter = RedisCounter =>
            /\ requests[q].at + Window[RuleOf[q]] <= expires[RuleOf[q]]
            /\ requests[q].at + Window[RuleOf[q]] > now =>
                  q \in bucket[RuleOf[q]]

KeptInMemory ==
    \A p \in Processes, q \in Requests :
        /\ Allowed(q) /\ requests[q].counter = MemoryCounter(p)
        /\ requests[q].at + Window[RuleOf[q]] > now
        => q \in memory[p][RuleOf[q]]

LimitsHold ==
    \A r \in Requests :
        Allowed(r) => /\ IsFiniteSet(AllowedBefore(r))
                      /\ Cardinality(AllowedBefore(r)) <= Limit[RuleOf[r]]

Started == {q \in Requests : requests[q].pc # "idle"}

RateInv ==
    /\ TypeOK
    /\ RequestInv
    /\ ScriptInv
    /\ RunInv
    /\ CounterInv
    /\ HitsAreRequests
    /\ CountersAreFull
    /\ SavedInv
    /\ KeptByRedis
    /\ KeptInMemory
    /\ LimitsHold
    /\ IsFiniteSet(Started)
    /\ RefusalsAreEarned

-----------------------------------------------------------------------------
(* Facts about one state and one request                                   *)

LEMMA Bounds ==
  ASSUME NEW q \in Requests
  PROVE  /\ RuleOf[q] \in Rules /\ ProcessOf[q] \in Processes
         /\ ProcessOf[q] # Redis
         /\ Limit[RuleOf[q]] \in Nat /\ Limit[RuleOf[q]] > 0
         /\ Window[RuleOf[q]] \in Nat /\ MaxDelay \in Nat
         /\ MaxDelay < Window[RuleOf[q]]
  BY RateLimitAssumption

LEMMA Fields ==
  ASSUME TypeOK, NEW q \in Requests
  PROVE  /\ requests[q] \in Request
         /\ requests[q].sent \in Nat /\ requests[q].at \in Nat
         /\ requests[q].copies \in Nat /\ requests[q].resent \in BOOLEAN
         /\ requests[q].counter \in Counters \cup {NoCounter}
         /\ now \in Nat
  BY DEF TypeOK, Request

LEMMA CountersAreCounters ==
  ASSUME TypeOK
  PROVE  /\ RedisCounter \in Counters /\ RedisCounter # NoCounter
         /\ \A p \in Processes : /\ MemoryCounter(p) \in Counters
                                 /\ MemoryCounter(p) # NoCounter
                                 /\ MemoryCounter(p) # RedisCounter
         /\ \A p, q \in Processes :
               MemoryCounter(p) = MemoryCounter(q) => p = q
  BY RateLimitAssumption
     DEF TypeOK, RedisCounter, MemoryCounter, Counters, Keepers

LEMMA RunsAreCounted ==
  ASSUME TypeOK, RunInv, NEW k \in Keepers
  PROVE  runs[k] \in Nat /\ runs[k] \in 1..runs[k]
  BY DEF TypeOK, RunInv

LEMMA OneMore ==
  ASSUME NEW S, NEW x, IsFiniteSet(S)
  PROVE  /\ IsFiniteSet(S \cup {x})
         /\ Cardinality(S) \in Nat /\ Cardinality(S \cup {x}) \in Nat
         /\ Cardinality(S \cup {x}) <= Cardinality(S) + 1
  <1>1. /\ IsFiniteSet(S \cup {x})
        /\ Cardinality(S \cup {x}) =
              IF x \in S THEN Cardinality(S) ELSE Cardinality(S) + 1
    BY FS_AddElement
  <1>2. Cardinality(S) \in Nat
    BY FS_CardinalityType
  <1> QED BY <1>1, <1>2

\* A step of one request leaves what the others may have left alone.
LEMMA OthersMayHaveHit ==
  ASSUME NEW q \in Requests, requests'[q] = requests[q]
  PROVE  MayHaveHit(q)' <=> MayHaveHit(q)
  BY DEF MayHaveHit, OnItsWay, TurnedAway

LEMMA SavedStays ==
  ASSUME TypeOK, SavedInv, saved' = saved,
         \A q \in Requests : MayHaveHit(q) => MayHaveHit(q)'
  PROVE  SavedInv'
  <1>1. \A rule \in Rules : saved.bucket[rule] \subseteq Requests
    BY DEF TypeOK
  <1> QED BY <1>1 DEF SavedInv

LEMMA StartedStaysFinite ==
  ASSUME IsFiniteSet(Started), NEW r \in Requests,
         \A q \in Requests : q # r => requests'[q] = requests[q]
  PROVE  IsFiniteSet(Started')
  <1>1. Started' \in SUBSET (Started \cup {r})
    BY DEF Started
  <1> QED BY <1>1, FS_AddElement, FS_Subset

\* With no request newly let pass, every span holds what it held.
LEMMA LimitsStay ==
  ASSUME LimitsHold,
         \A q \in Requests : Allowed(q)' => Allowed(q),
         \A q \in Requests : Allowed(q) =>
            /\ requests'[q].at = requests[q].at
            /\ requests'[q].counter = requests[q].counter
            /\ Allowed(q)'
  PROVE  LimitsHold'
  <1> SUFFICES ASSUME NEW r \in Requests, Allowed(r)'
               PROVE  /\ IsFiniteSet(AllowedBefore(r)')
                      /\ Cardinality(AllowedBefore(r)') <= Limit[RuleOf[r]]
    BY DEF LimitsHold
  <1>1. Span(r)' = Span(r)
    BY DEF Span
  <1>2. AllowedBefore(r)' = AllowedBefore(r)
    BY <1>1 DEF AllowedBefore
  <1> QED BY <1>2 DEF LimitsHold

\* With r newly let pass, the spans that do not hold it stay as they are.
LEMMA LimitsStayWithout ==
  ASSUME LimitsHold, NEW r \in Requests, ~Allowed(r),
         \A q \in Requests : q # r => requests'[q] = requests[q],
         NEW x \in Requests, Allowed(x)', r \notin AllowedBefore(x)', x # r
  PROVE  /\ IsFiniteSet(AllowedBefore(x)')
         /\ Cardinality(AllowedBefore(x)') <= Limit[RuleOf[x]]
  <1>1. Allowed(x) /\ Span(x)' = Span(x)
    BY DEF Allowed, Span
  <1>2. AllowedBefore(x)' = AllowedBefore(x)
    <2>1. \A q \in Requests : q # r =>
             (q \in AllowedBefore(x)' <=> q \in AllowedBefore(x))
      BY <1>1 DEF AllowedBefore, Allowed
    <2>2. r \notin AllowedBefore(x)
      BY DEF AllowedBefore
    <2>3. AllowedBefore(x)' \subseteq Requests
          /\ AllowedBefore(x) \subseteq Requests
      BY DEF AllowedBefore
    <2> QED BY <2>1, <2>2, <2>3
  <1> QED BY <1>1, <1>2 DEF LimitsHold

\* A refusal stays earned: hits that may have been left stay in its window.
LEMMA RefusalsStay ==
  ASSUME TypeOK, TypeOK', RefusalsAreEarned, IsFiniteSet(Started'),
         NEW r \in Requests, requests[r].pc = "refused",
         requests'[r].counter = requests[r].counter,
         requests'[r].at = requests[r].at,
         \A q \in Requests : MayHaveHit(q) =>
            MayHaveHit(q)' /\ requests[q].at <= requests'[q].at
  PROVE  IF requests'[r].counter = NoCounter THEN RuleOf[r] \in FailClosed
         ELSE Cardinality(CountedWithin(r)') >= Limit[RuleOf[r]]
  <1>1. CASE requests[r].counter = NoCounter
    BY <1>1 DEF RefusalsAreEarned
  <1>2. CASE requests[r].counter # NoCounter
    <2>1. Cardinality(CountedWithin(r)) >= Limit[RuleOf[r]]
      BY <1>2 DEF RefusalsAreEarned
    <2>2. CountedWithin(r) \in SUBSET CountedWithin(r)'
      <3> SUFFICES ASSUME NEW q \in CountedWithin(r)
                   PROVE  q \in CountedWithin(r)'
        OBVIOUS
      <3>1. q \in Requests /\ MayHaveHit(q) /\ RuleOf[q] = RuleOf[r]
            /\ requests[q].at + Window[RuleOf[r]] > requests[r].at
        BY DEF CountedWithin, MayHaveHit
      <3>2. requests'[q].at \in Nat /\ requests[q].at \in Nat
            /\ requests[r].at \in Nat /\ Window[RuleOf[r]] \in Nat
        BY <3>1, Bounds, Fields DEF TypeOK, Request
      <3>3. requests'[q].at + Window[RuleOf[r]] > requests'[r].at
        BY <3>1, <3>2
      <3> QED BY <3>1, <3>3 DEF CountedWithin, MayHaveHit
    <2>3. CountedWithin(r)' \in SUBSET Started'
      BY DEF CountedWithin, Started
    <2>4. /\ IsFiniteSet(CountedWithin(r)')
          /\ Cardinality(CountedWithin(r)) <= Cardinality(CountedWithin(r)')
          /\ IsFiniteSet(CountedWithin(r))
      BY <2>2, <2>3, FS_Subset
    <2>5. /\ Cardinality(CountedWithin(r)) \in Nat
          /\ Cardinality(CountedWithin(r)') \in Nat
      BY <2>4, FS_CardinalityType
    <2> QED BY <1>2, <2>1, <2>4, <2>5, Bounds
  <1> QED BY <1>1, <1>2

-----------------------------------------------------------------------------
(* A step of one request that lets none pass                               *)

LEMMA NobodyPasses ==
  ASSUME RateInv, TypeOK', NEW r \in Requests,
         \A q \in Requests : q # r => requests'[q] = requests[q],
         UNCHANGED <<now, saved, memory, runs>>,
         Allowed(r)' <=> Allowed(r),
         Allowed(r) => /\ requests'[r].at = requests[r].at
                       /\ requests'[r].counter = requests[r].counter,
         MayHaveHit(r) => MayHaveHit(r)',
         requests[r].at <= requests'[r].at,
         requests'[r].pc = "refused" =>
            \/ /\ requests[r].pc = "refused"
               /\ requests'[r].at = requests[r].at
               /\ requests'[r].counter = requests[r].counter
            \/ requests'[r].counter = NoCounter /\ RuleOf[r] \in FailClosed
  PROVE  /\ SavedInv' /\ KeptInMemory' /\ LimitsHold'
         /\ IsFiniteSet(Started') /\ RefusalsAreEarned'
  <1> USE DEF RateInv
  <1>1. IsFiniteSet(Started')
    BY StartedStaysFinite
  <1>2. LimitsHold'
    BY LimitsStay DEF Allowed
  <1>3. KeptInMemory'
    BY DEF KeptInMemory, MemoryCounter, Allowed
  <1>4. \A q \in Requests : MayHaveHit(q) =>
           MayHaveHit(q)' /\ requests[q].at <= requests'[q].at
    BY OthersMayHaveHit, Fields
  <1>5. ASSUME NEW q \in Requests, requests'[q].pc = "refused"
        PROVE  IF requests'[q].counter = NoCounter THEN RuleOf[q] \in FailClosed
               ELSE Cardinality(CountedWithin(q)') >= Limit[RuleOf[q]]
    <2>1. CASE /\ requests[q].pc = "refused"
               /\ requests'[q].at = requests[q].at
               /\ requests'[q].counter = requests[q].counter
      BY <1>1, <1>4, <2>1, RefusalsStay
    <2>2. CASE requests'[q].counter = NoCounter /\ RuleOf[q] \in FailClosed
      BY <2>2
    <2> QED BY <1>5, <2>1, <2>2
  <1>6. SavedInv'
    BY <1>4, SavedStays
  <1> QED BY <1>1, <1>2, <1>3, <1>5, <1>6 DEF RefusalsAreEarned

LEMMA BucketStays ==
  ASSUME RateInv, NEW r \in Requests,
         \A q \in Requests : q # r => requests'[q] = requests[q],
         UNCHANGED <<now, bucket, expires, memory, runs>>,
         Allowed(r)' <=> Allowed(r),
         Allowed(r) => /\ requests'[r].at = requests[r].at
                       /\ requests'[r].counter = requests[r].counter,
         MayHaveHit(r) => MayHaveHit(r)'
  PROVE  HitsAreRequests' /\ CountersAreFull' /\ KeptByRedis'
  <1> USE DEF RateInv
  <1>1. HitsAreRequests'
    <2>1. \A q \in Requests : (MayHaveHit(q) => MayHaveHit(q)')
                              /\ (Allowed(q) => Allowed(q)')
      BY OthersMayHaveHit DEF Allowed
    <2>2. \A rule \in Rules : bucket[rule] \subseteq Requests
          /\ \A p \in Processes : memory[p][rule] \subseteq Requests
      BY DEF TypeOK
    <2>3. bucket' = bucket /\ memory' = memory
      OBVIOUS
    <2> QED BY <2>1, <2>2, <2>3 DEF HitsAreRequests
  <1>2. CountersAreFull'
    BY DEF CountersAreFull
  <1>3. KeptByRedis'
    BY DEF KeptByRedis, RedisCounter, Allowed
  <1> QED BY <1>1, <1>2, <1>3

LEMMA ConsumeInRedisKeepsInv ==
  ASSUME RateInv, NEW r \in Requests, ConsumeInRedis(r)
  PROVE  RateInv'
  <1> USE DEF RateInv
  <1>1. /\ requests' \in [Requests -> Request]
        /\ \A q \in Requests : q # r => requests'[q] = requests[q]
        /\ requests'[r].pc = "waiting" /\ requests'[r].copies = 1
        /\ requests'[r].sent = now /\ requests'[r].at = now
        /\ requests'[r].resent = FALSE /\ requests'[r].counter = NoCounter
        /\ requests[r] = Idle
    BY Fields DEF ConsumeInRedis, TypeOK, Request, RequestInv, Idle
  <1>2. UNCHANGED <<now, bucket, expires, saved, memory, fallbackUntil, runs>>
    BY DEF ConsumeInRedis
  <1>3. TypeOK'
    BY <1>1, <1>2 DEF TypeOK
  <1>4. RequestInv' /\ ScriptInv' /\ RunInv' /\ CounterInv'
    BY <1>1, <1>2, Fields, Bounds DEF RequestInv, ScriptInv, RunInv, CounterInv
  <1>5. ~MayHaveHit(r) /\ ~Allowed(r) /\ ~Allowed(r)' /\ requests[r].at = 0
    BY <1>1 DEF MayHaveHit, Allowed, Idle
  <1>6. requests[r].at <= requests'[r].at
    BY <1>1, <1>5, Fields
  <1> QED BY <1>1, <1>2, <1>3, <1>4, <1>5, <1>6, NobodyPasses, BucketStays

LEMMA LoseScriptKeepsInv ==
  ASSUME RateInv, NEW r \in Requests, LoseScript(r)
  PROVE  RateInv'
  <1> USE DEF RateInv
  <1>1. /\ requests' \in [Requests -> Request]
        /\ \A q \in Requests : q # r => requests'[q] = requests[q]
        /\ requests'[r].copies = requests[r].copies - 1
        /\ requests'[r].copies \in Nat /\ requests[r].copies > 0
        /\ requests'[r].pc = requests[r].pc
        /\ requests'[r].sent = requests[r].sent
        /\ requests'[r].at = requests[r].at
        /\ requests'[r].resent = requests[r].resent
        /\ requests'[r].counter = requests[r].counter
    <2>1. requests[r].copies - 1 \in Nat /\ requests[r].copies > 0
      BY Fields DEF LoseScript
    <2> QED BY <2>1 DEF LoseScript, TypeOK, Request
  <1>2. UNCHANGED <<now, bucket, expires, saved, memory, fallbackUntil, runs>>
    BY DEF LoseScript
  <1>3. TypeOK'
    BY <1>1, <1>2 DEF TypeOK
  <1>4. RequestInv' /\ ScriptInv' /\ RunInv' /\ CounterInv'
    BY <1>1, <1>2, Fields, Bounds DEF RequestInv, ScriptInv, RunInv, CounterInv, Idle
  <1>5. MayHaveHit(r) => MayHaveHit(r)'
    BY <1>1, Fields DEF MayHaveHit, OnItsWay, TurnedAway, ScriptInv
  <1>6. (Allowed(r)' <=> Allowed(r)) /\ requests[r].at <= requests'[r].at
    BY <1>1, Fields DEF Allowed
  <1> QED BY <1>1, <1>2, <1>3, <1>4, <1>5, <1>6, NobodyPasses, BucketStays

LEMMA ResendKeepsInv ==
  ASSUME RateInv, NEW r \in Requests, Resend(r)
  PROVE  RateInv'
  <1> USE DEF RateInv
  <1>1. /\ requests' \in [Requests -> Request]
        /\ \A q \in Requests : q # r => requests'[q] = requests[q]
        /\ requests'[r].copies = requests[r].copies + 1
        /\ requests[r].pc = "waiting" /\ requests'[r].pc = "waiting"
        /\ requests'[r].sent = requests[r].sent
        /\ requests'[r].at = requests[r].at
        /\ requests'[r].resent = TRUE
        /\ requests'[r].counter = requests[r].counter
        /\ now <= requests[r].sent + MaxDelay
    BY Fields DEF Resend, TypeOK, Request
  <1>2. UNCHANGED <<now, bucket, expires, saved, memory, fallbackUntil, runs>>
    BY DEF Resend
  <1>3. TypeOK'
    BY <1>1, <1>2 DEF TypeOK
  <1>4. RequestInv' /\ ScriptInv' /\ RunInv' /\ CounterInv'
    BY <1>1, <1>2, Fields, Bounds DEF RequestInv, ScriptInv, RunInv, CounterInv, Idle
  <1>5. MayHaveHit(r)'
    BY <1>1 DEF MayHaveHit, OnItsWay, TurnedAway
  <1>6. /\ ~Allowed(r)' /\ ~Allowed(r)
        /\ requests[r].at <= requests'[r].at
    BY <1>1, Fields DEF Allowed
  <1> QED BY <1>1, <1>2, <1>3, <1>4, <1>5, <1>6, NobodyPasses, BucketStays

LEMMA RefuseUncountedKeepsInv ==
  ASSUME RateInv, NEW r \in Requests, RefuseUncounted(r)
  PROVE  RateInv'
  <1> USE DEF RateInv
  <1>1. /\ requests' \in [Requests -> Request]
        /\ \A q \in Requests : q # r => requests'[q] = requests[q]
        /\ requests[r].pc = "waiting" /\ requests'[r].pc = "refused"
        /\ requests'[r].copies = requests[r].copies
        /\ requests'[r].sent = requests[r].sent
        /\ requests'[r].at = requests[r].at
        /\ requests'[r].resent = requests[r].resent
        /\ requests'[r].counter = NoCounter
        /\ RuleOf[r] \in FailClosed
    BY Fields DEF RefuseUncounted, TypeOK, Request, RequestInv
  <1>2. UNCHANGED <<now, bucket, expires, saved, memory, fallbackUntil, runs>>
    BY DEF RefuseUncounted
  <1>3. TypeOK'
    BY <1>1, <1>2 DEF TypeOK
  <1>4. RequestInv' /\ ScriptInv' /\ RunInv' /\ CounterInv'
    BY <1>1, <1>2, Fields, Bounds DEF RequestInv, ScriptInv, RunInv, CounterInv, Idle
  <1>5. MayHaveHit(r)'
    BY <1>1 DEF MayHaveHit, OnItsWay, TurnedAway
  <1>6. /\ ~Allowed(r)' /\ ~Allowed(r)
        /\ requests[r].at <= requests'[r].at
    BY <1>1, Fields DEF Allowed
  <1> QED BY <1>1, <1>2, <1>3, <1>4, <1>5, <1>6, NobodyPasses, BucketStays

-----------------------------------------------------------------------------
(* A script runs                                                           *)

\* What the script finds, and that it never overfills the set.
LEMMA ScriptFinds ==
  ASSUME RateInv, NEW r \in Requests
  PROVE  /\ RedisHits(r) \subseteq bucket[RuleOf[r]]
         /\ IsFiniteSet(RedisHits(r))
         /\ Cardinality(RedisHits(r)) \in Nat
         /\ Cardinality(RedisHits(r)) <= Limit[RuleOf[r]]
         /\ IsFiniteSet(RedisHits(r) \cup {r})
         /\ HasRoom(r) =>
               Cardinality(RedisHits(r) \cup {r}) <= Limit[RuleOf[r]]
  <1> USE DEF RateInv
  <1>1. RedisHits(r) \in SUBSET bucket[RuleOf[r]]
    BY DEF RedisHits
  <1>2. /\ IsFiniteSet(bucket[RuleOf[r]])
        /\ Cardinality(bucket[RuleOf[r]]) <= Limit[RuleOf[r]]
        /\ Cardinality(bucket[RuleOf[r]]) \in Nat
    BY Bounds, FS_CardinalityType DEF CountersAreFull
  <1>3. /\ IsFiniteSet(RedisHits(r))
        /\ Cardinality(RedisHits(r)) <= Cardinality(bucket[RuleOf[r]])
    BY <1>1, <1>2, FS_Subset
  <1>4. /\ IsFiniteSet(RedisHits(r) \cup {r})
        /\ Cardinality(RedisHits(r)) \in Nat
        /\ Cardinality(RedisHits(r) \cup {r}) \in Nat
        /\ Cardinality(RedisHits(r) \cup {r}) <= Cardinality(RedisHits(r)) + 1
    BY <1>3, OneMore
  <1> QED BY <1>1, <1>2, <1>3, <1>4, Bounds DEF HasRoom

\* A request that passed less than a window ago is found by every script.
LEMMA ScriptFindsTheRecent ==
  ASSUME RateInv, NEW r \in Requests, NEW q \in Requests,
         RuleOf[q] = RuleOf[r],
         Allowed(q), requests[q].counter = RedisCounter,
         requests[q].at + Window[RuleOf[q]] > now
  PROVE  q \in RedisHits(r)
  <1> USE DEF RateInv
  <1>1. /\ requests[q].at + Window[RuleOf[q]] <= expires[RuleOf[q]]
        /\ q \in bucket[RuleOf[q]]
    BY DEF KeptByRedis
  <1>2. requests[q].at = requests[q].sent
    BY CountersAreCounters DEF CounterInv, RedisCounter
  <1>3. requests[r].sent <= now
    BY Fields DEF RequestInv
  <1>4. /\ now \in Nat /\ requests[q].at \in Nat /\ requests[r].sent \in Nat
        /\ expires[RuleOf[q]] \in Nat /\ Window[RuleOf[q]] \in Nat
    BY Fields, Bounds DEF TypeOK
  <1> QED BY <1>1, <1>2, <1>3, <1>4 DEF RedisHits

LEMMA ScriptKeepsTheBucket ==
  ASSUME RateInv, NEW r \in Requests, RunScript(r),
         \A q \in Requests : q # r => requests'[q] = requests[q],
         UNCHANGED <<now, memory, runs>>,
         Allowed(r) =>
            /\ Allowed(r)' /\ requests'[r].at = requests[r].at
            /\ requests'[r].counter = requests[r].counter,
         Allowed(r)' /\ ~Allowed(r) =>
            HasRoom(r) /\ requests'[r].at \in Nat /\ requests'[r].at <= now,
         MayHaveHit(r)' \/ (r \notin RedisHits(r) /\ ~HasRoom(r))
  PROVE  HitsAreRequests' /\ CountersAreFull' /\ KeptByRedis'
  <1> USE DEF RateInv
  <1> DEFINE rule == RuleOf[r]
             hits == RedisHits(r) \cup (IF HasRoom(r) THEN {r} ELSE {})
  <1>1. /\ bucket'[rule] = hits
        /\ \A other \in Rules : other # rule => bucket'[other] = bucket[other]
        /\ expires'[rule] = now + Window[rule]
        /\ \A other \in Rules : other # rule => expires'[other] = expires[other]
        /\ rule \in Rules
    BY Bounds DEF RunScript, TypeOK
  <1>2. memory' = memory /\ now' = now /\ RedisCounter' = RedisCounter
    BY DEF RedisCounter
  <1>3. /\ \A other \in Rules : bucket[other] \subseteq Requests
        /\ \A p \in Processes, other \in Rules :
              memory[p][other] \subseteq Requests
    BY DEF TypeOK
  <1>4. HitsAreRequests'
    <2>1. \A q \in Requests : Allowed(q) => Allowed(q)'
      BY DEF Allowed
    <2>2. \A q \in Requests : q # r => (MayHaveHit(q) => MayHaveHit(q)')
      BY OthersMayHaveHit
    <2>3. ASSUME NEW other \in Rules, NEW q \in bucket'[other]
          PROVE  RuleOf[q] = other /\ MayHaveHit(q)'
      <3>1. CASE other # rule
        <4>1. q \in bucket[other] /\ q \in Requests /\ q # r
          BY <1>1, <1>3, <3>1 DEF HitsAreRequests
        <4> QED BY <2>2, <4>1 DEF HitsAreRequests
      <3>2. CASE other = rule /\ q # r
        <4>1. q \in bucket[other] /\ q \in Requests
          BY <1>1, <1>3, <3>2, ScriptFinds
        <4> QED BY <2>2, <3>2, <4>1 DEF HitsAreRequests
      <3>3. CASE other = rule /\ q = r
        <4>1. r \in RedisHits(r) \/ HasRoom(r)
          BY <1>1, <3>3
        <4> QED BY <3>3, <4>1
      <3> QED BY <3>1, <3>2, <3>3
    <2>4. ASSUME NEW other \in Rules, NEW p \in Processes,
                 NEW q \in memory'[p][other]
          PROVE  RuleOf[q] = other /\ Allowed(q)'
      BY <1>2, <1>3, <2>1 DEF HitsAreRequests
    <2> QED BY <2>3, <2>4 DEF HitsAreRequests
  <1>5. CountersAreFull'
    <2>1. IsFiniteSet(hits) /\ Cardinality(hits) <= Limit[rule]
      <3>1. CASE HasRoom(r)
        BY <3>1, ScriptFinds
      <3>2. CASE ~HasRoom(r)
        <4>1. hits = RedisHits(r)
          BY <3>2
        <4> QED BY <4>1, ScriptFinds
      <3> QED BY <3>1, <3>2
    <2> QED BY <1>1, <1>2, <2>1 DEF CountersAreFull
  <1>6. KeptByRedis'
    <2> SUFFICES ASSUME NEW q \in Requests, Allowed(q)',
                        requests'[q].counter = RedisCounter
                 PROVE  /\ requests'[q].at + Window[RuleOf[q]]
                              <= expires'[RuleOf[q]]
                        /\ requests'[q].at + Window[RuleOf[q]] > now =>
                              q \in bucket'[RuleOf[q]]
      BY <1>2 DEF KeptByRedis
    <2>1. CASE Allowed(q)
      <3>1. /\ requests'[q].at = requests[q].at
            /\ requests[q].counter = RedisCounter
            /\ requests[q].at <= now
        BY <2>1 DEF Allowed, RequestInv
      <3>2. CASE RuleOf[q] # rule
        BY <1>1, <2>1, <3>1, <3>2, Bounds DEF KeptByRedis
      <3>3. CASE RuleOf[q] = rule
        <4>1. requests'[q].at + Window[RuleOf[q]] <= expires'[RuleOf[q]]
          BY <1>1, <3>1, <3>3, Fields, Bounds
        <4>2. requests[q].at + Window[RuleOf[q]] > now => q \in RedisHits(r)
          BY <2>1, <3>1, <3>3, ScriptFindsTheRecent
        <4> QED BY <1>1, <3>1, <3>3, <4>1, <4>2
      <3> QED BY <3>2, <3>3
    <2>2. CASE ~Allowed(q)
      <3>1. q = r /\ HasRoom(r)
            /\ requests'[r].at \in Nat /\ requests'[r].at <= now
        BY <2>2 DEF Allowed
      <3>2. requests'[r].at + Window[rule] <= now + Window[rule]
        BY <3>1, Fields, Bounds
      <3> QED BY <1>1, <3>1, <3>2
    <2> QED BY <2>1, <2>2
  <1> QED BY <1>4, <1>5, <1>6

LEMMA RunUnheardKeepsInv ==
  ASSUME RateInv, NEW r \in Requests, RunUnheard(r)
  PROVE  RateInv'
  <1> USE DEF RateInv
  <1>1. /\ requests' \in [Requests -> Request]
        /\ \A q \in Requests : q # r => requests'[q] = requests[q]
        /\ requests'[r].copies = requests[r].copies - 1
        /\ requests'[r].copies \in Nat /\ requests[r].copies > 0
        /\ requests'[r].pc = requests[r].pc
        /\ requests'[r].sent = requests[r].sent
        /\ requests'[r].at = requests[r].at
        /\ requests'[r].resent = requests[r].resent
        /\ requests'[r].counter = requests[r].counter
    <2>1. requests[r].copies - 1 \in Nat /\ requests[r].copies > 0
      BY Fields DEF RunUnheard, RunScript
    <2> QED BY <2>1 DEF RunUnheard, TypeOK, Request
  <1>2. UNCHANGED <<now, saved, memory, fallbackUntil, runs>> /\ RunScript(r)
    BY DEF RunUnheard
  <1>3. TypeOK'
    <2>1. RedisHits(r) \cup (IF HasRoom(r) THEN {r} ELSE {}) \subseteq Requests
      BY Bounds DEF RedisHits, TypeOK
    <2>2. now + Window[RuleOf[r]] \in Nat
      BY Bounds, Fields
    <2> QED BY <1>1, <1>2, <2>1, <2>2, Bounds DEF TypeOK, RunScript
  <1>4. RequestInv' /\ ScriptInv' /\ RunInv' /\ CounterInv'
    BY <1>1, <1>2, Fields, Bounds DEF RequestInv, ScriptInv, RunInv, CounterInv, Idle
  <1>5. MayHaveHit(r)'
    <2>1. requests[r].pc # "idle"
      BY <1>1 DEF RequestInv, Idle
    <2>2. ~OnItsWay(r)'
      BY <1>1, Fields DEF OnItsWay, ScriptInv
    <2>3. ~TurnedAway(r)'
      BY <1>1, Fields DEF TurnedAway, CounterInv, ScriptInv
    <2> QED BY <1>1, <2>1, <2>2, <2>3 DEF MayHaveHit
  <1>6. (Allowed(r)' <=> Allowed(r)) /\ requests[r].at <= requests'[r].at
    BY <1>1, Fields DEF Allowed
  <1>7. HitsAreRequests' /\ CountersAreFull' /\ KeptByRedis'
    BY <1>1, <1>2, <1>5, <1>6, ScriptKeepsTheBucket
  <1>8. /\ SavedInv' /\ KeptInMemory' /\ LimitsHold'
        /\ IsFiniteSet(Started') /\ RefusalsAreEarned'
    BY <1>1, <1>2, <1>3, <1>5, <1>6, NobodyPasses
  <1> QED BY <1>3, <1>4, <1>7, <1>8

-----------------------------------------------------------------------------
(* Redis judges a request                                                  *)

LEMMA AnswerMoves ==
  ASSUME RateInv, NEW r \in Requests, Answer(r)
  PROVE  /\ requests' \in [Requests -> Request]
         /\ \A q \in Requests : q # r => requests'[q] = requests[q]
         /\ requests[r].pc = "waiting" /\ requests[r].copies > 0
         /\ requests'[r].pc = IF HasRoom(r) THEN "allowed" ELSE "refused"
         /\ requests'[r].copies = requests[r].copies - 1
         /\ requests'[r].copies \in Nat
         /\ requests'[r].sent = requests[r].sent
         /\ requests'[r].at = requests[r].at
         /\ requests[r].at = requests[r].sent
         /\ requests'[r].resent = requests[r].resent
         /\ requests'[r].counter = RedisCounter
         /\ now <= requests[r].sent + MaxDelay
  <1> USE DEF RateInv
  <1>1. requests[r].copies - 1 \in Nat /\ requests[r].copies > 0
    BY Fields DEF Answer, RunScript
  <1>2. RedisCounter \in Counters
    BY CountersAreCounters
  <1>3. requests[r].pc = "waiting" /\ requests[r].at = requests[r].sent
        /\ now <= requests[r].sent + MaxDelay
    BY <1>1 DEF Answer, RequestInv, ScriptInv
  <1> QED BY <1>1, <1>2, <1>3 DEF Answer, TypeOK, Request, RedisCounter

\* Whoever shares a span with a request that Redis lets pass is still found by
\* its script.
LEMMA SpanOfAnAnswer ==
  ASSUME RateInv, NEW r \in Requests, Answer(r), HasRoom(r),
         NEW x \in Requests, Allowed(x)', r \in AllowedBefore(x)'
  PROVE  AllowedBefore(x)' \subseteq RedisHits(r) \cup {r}
  <1> USE DEF RateInv
  <1> SUFFICES ASSUME NEW q \in AllowedBefore(x)', q # r
               PROVE  q \in RedisHits(r)
    OBVIOUS
  <1>1. /\ q \in Requests /\ requests'[q] = requests[q]
        /\ RuleOf[x] = RuleOf[r] /\ RuleOf[q] = RuleOf[r]
        /\ requests'[x].counter = RedisCounter
        /\ requests[q].counter = RedisCounter /\ Allowed(q)
        /\ requests[r].at <= requests'[x].at
        /\ requests[q].at + Span(x)' > requests'[x].at
    BY AnswerMoves DEF AllowedBefore, Allowed
  <1>2. Span(x)' = Window[RuleOf[r]] - MaxDelay
    BY <1>1 DEF Span, RedisCounter
  <1>3. /\ requests'[x].at \in Nat /\ requests[r].at \in Nat
        /\ requests[q].at \in Nat /\ now \in Nat
        /\ now <= requests[r].at + MaxDelay
    BY <1>1, AnswerMoves, Fields DEF Request
  <1>4. requests[q].at + Window[RuleOf[q]] > now
    BY <1>1, <1>2, <1>3, Bounds
  <1> QED BY <1>1, <1>4, ScriptFindsTheRecent

LEMMA AnswerKeepsLimits ==
  ASSUME RateInv, NEW r \in Requests, Answer(r)
  PROVE  LimitsHold'
  <1> USE DEF RateInv
  <1> SUFFICES ASSUME NEW x \in Requests, Allowed(x)'
               PROVE  /\ IsFiniteSet(AllowedBefore(x)')
                      /\ Cardinality(AllowedBefore(x)') <= Limit[RuleOf[x]]
    BY DEF LimitsHold
  <1>1. CASE r \in AllowedBefore(x)'
    <2>1. HasRoom(r) /\ RuleOf[x] = RuleOf[r]
      BY <1>1, AnswerMoves DEF AllowedBefore, Allowed
    <2>2. AllowedBefore(x)' \in SUBSET (RedisHits(r) \cup {r})
      BY <1>1, <2>1, SpanOfAnAnswer
    <2>3. /\ IsFiniteSet(RedisHits(r) \cup {r})
          /\ Cardinality(RedisHits(r) \cup {r}) <= Limit[RuleOf[r]]
          /\ Cardinality(RedisHits(r) \cup {r}) \in Nat
      BY <2>1, ScriptFinds, FS_CardinalityType
    <2>4. /\ IsFiniteSet(AllowedBefore(x)')
          /\ Cardinality(AllowedBefore(x)')
               <= Cardinality(RedisHits(r) \cup {r})
      BY <2>2, <2>3, FS_Subset
    <2>5. Cardinality(AllowedBefore(x)') \in Nat
      BY <2>4, FS_CardinalityType
    <2> QED BY <2>1, <2>3, <2>4, <2>5, Bounds
  <1>2. CASE r \notin AllowedBefore(x)'
    <2>1. CASE HasRoom(r)
      <3>1. x # r
        <4> SUFFICES r \in AllowedBefore(r)'
          BY <1>2
        <4>1. Allowed(r)' /\ requests'[r].at \in Nat
          BY <2>1, AnswerMoves, Fields DEF Allowed, Request
        <4>2. Span(r)' = Window[RuleOf[r]] - MaxDelay
          BY AnswerMoves DEF Span, RedisCounter
        <4> QED BY <4>1, <4>2, Bounds DEF AllowedBefore
      <3> QED BY <1>2, <3>1, AnswerMoves, LimitsStayWithout DEF Allowed
    <2>2. CASE ~HasRoom(r)
      <3>1. /\ ~Allowed(r) /\ ~Allowed(r)'
            /\ \A q \in Requests : q # r => requests'[q] = requests[q]
        BY <2>2, AnswerMoves DEF Allowed
      <3>2. LimitsHold'
        BY <3>1, LimitsStay DEF Allowed
      <3> QED BY <3>2 DEF LimitsHold
    <2> QED BY <2>1, <2>2
  <1> QED BY <1>1, <1>2

\* A script whose hit is already there was sent again.
LEMMA AnswerLeavesHits ==
  ASSUME RateInv, NEW r \in Requests, Answer(r)
  PROVE  /\ MayHaveHit(r) => MayHaveHit(r)'
         /\ r \in RedisHits(r) \/ HasRoom(r) => MayHaveHit(r)'
         /\ \A q \in Requests : MayHaveHit(q) =>
               MayHaveHit(q)' /\ requests[q].at <= requests'[q].at
  <1> USE DEF RateInv
  <1>1. requests'[r].pc \in {"allowed", "refused"} /\ ~OnItsWay(r)'
        /\ requests'[r].pc # "idle"
    BY AnswerMoves DEF OnItsWay
  <1>2. MayHaveHit(r) => requests[r].resent
    BY AnswerMoves, Fields DEF MayHaveHit, OnItsWay, ScriptInv
  <1>3. requests[r].resent \/ HasRoom(r) => ~TurnedAway(r)'
    BY AnswerMoves, CountersAreCounters DEF TurnedAway, RedisCounter
  <1>4. MayHaveHit(r) => MayHaveHit(r)'
    BY <1>1, <1>2, <1>3 DEF MayHaveHit
  <1>5. r \in RedisHits(r) => MayHaveHit(r)
    BY ScriptFinds, Bounds DEF HitsAreRequests
  <1>6. HasRoom(r) => MayHaveHit(r)'
    BY <1>1, <1>3 DEF MayHaveHit
  <1>7. ASSUME NEW q \in Requests, MayHaveHit(q)
        PROVE  MayHaveHit(q)' /\ requests[q].at <= requests'[q].at
    <2>1. CASE q = r
      BY <1>4, <1>7, <2>1, AnswerMoves, Fields
    <2>2. CASE q # r
      BY <1>7, <2>2, AnswerMoves, OthersMayHaveHit, Fields
    <2> QED BY <2>1, <2>2
  <1> QED BY <1>4, <1>5, <1>6, <1>7

LEMMA AnswerRefusesTheFull ==
  ASSUME RateInv, NEW r \in Requests, Answer(r), ~HasRoom(r),
         IsFiniteSet(Started')
  PROVE  Cardinality(CountedWithin(r)') >= Limit[RuleOf[r]]
  <1> USE DEF RateInv
  <1>1. RedisHits(r) \in SUBSET CountedWithin(r)'
    <2> SUFFICES ASSUME NEW q \in RedisHits(r) PROVE q \in CountedWithin(r)'
      OBVIOUS
    <2>1. /\ q \in bucket[RuleOf[r]] /\ q \in Requests
          /\ requests[q].sent + Window[RuleOf[r]] > requests[r].sent
      BY Bounds DEF RedisHits, TypeOK
    <2>2. RuleOf[q] = RuleOf[r] /\ MayHaveHit(q)
      BY <2>1, Bounds DEF HitsAreRequests
    <2>3. requests'[q].at = requests[q].at
      BY <2>1, AnswerMoves
    <2>4. requests[q].sent <= requests[q].at
          /\ requests'[r].at = requests[r].sent
      BY <2>1, AnswerMoves DEF RequestInv
    <2>5. requests'[q].at + Window[RuleOf[r]] > requests'[r].at
      BY <2>1, <2>3, <2>4, Fields, Bounds
    <2> QED BY <2>1, <2>2, <2>5, AnswerLeavesHits DEF CountedWithin, MayHaveHit
  <1>2. CountedWithin(r)' \in SUBSET Started'
    BY DEF CountedWithin, Started
  <1>3. IsFiniteSet(CountedWithin(r)')
    BY <1>2, FS_Subset
  <1>4. /\ Cardinality(RedisHits(r)) <= Cardinality(CountedWithin(r)')
        /\ Cardinality(CountedWithin(r)') \in Nat
    BY <1>1, <1>3, FS_Subset, FS_CardinalityType
  <1>5. ~(Cardinality(RedisHits(r)) < Limit[RuleOf[r]])
    BY DEF HasRoom
  <1>6. Cardinality(RedisHits(r)) \in Nat /\ Limit[RuleOf[r]] \in Nat
    BY ScriptFinds, Bounds
  <1> QED BY <1>4, <1>5, <1>6

LEMMA AnswerKeepsInv ==
  ASSUME RateInv, NEW r \in Requests, Answer(r)
  PROVE  RateInv'
  <1> USE DEF RateInv
  <1>1. UNCHANGED <<now, saved, memory, fallbackUntil, runs>> /\ RunScript(r)
    BY DEF Answer
  <1>2. TypeOK'
    <2>1. RedisHits(r) \cup (IF HasRoom(r) THEN {r} ELSE {}) \subseteq Requests
      BY Bounds DEF RedisHits, TypeOK
    <2>2. now + Window[RuleOf[r]] \in Nat
      BY Bounds, Fields
    <2> QED BY <1>1, <2>1, <2>2, AnswerMoves, Bounds DEF TypeOK, RunScript
  <1>3. RequestInv' /\ ScriptInv' /\ RunInv'
    BY <1>1, AnswerMoves, CountersAreCounters, Fields, Bounds
       DEF RequestInv, ScriptInv, RunInv
  <1>4. CounterInv'
    <2>1. RedisCounter.run \in 1..runs[Redis] /\ RedisCounter.keeper = Redis
      BY <1>1, RunsAreCounted DEF RedisCounter, Keepers
    <2>2. ~requests'[r].resent => requests'[r].copies = 0
      BY AnswerMoves, Fields DEF ScriptInv
    <2> QED BY <1>1, <2>1, <2>2, AnswerMoves DEF CounterInv
  <1>5. Allowed(r)' => HasRoom(r) /\ requests'[r].at \in Nat
                       /\ requests'[r].at <= now
    BY AnswerMoves, Fields DEF Allowed, RequestInv
  <1>6. ~Allowed(r)
    BY AnswerMoves DEF Allowed
  <1>7. HitsAreRequests' /\ CountersAreFull' /\ KeptByRedis'
    BY <1>1, <1>5, <1>6, AnswerMoves, AnswerLeavesHits, ScriptKeepsTheBucket
  <1>8. KeptInMemory'
    BY <1>1, AnswerMoves, CountersAreCounters
       DEF KeptInMemory, Allowed, MemoryCounter
  <1>9. LimitsHold'
    BY AnswerKeepsLimits
  <1>10. IsFiniteSet(Started')
    BY AnswerMoves, StartedStaysFinite
  <1>11. RefusalsAreEarned'
    <2> SUFFICES ASSUME NEW q \in Requests, requests'[q].pc = "refused"
                 PROVE  IF requests'[q].counter = NoCounter
                        THEN RuleOf[q] \in FailClosed
                        ELSE Cardinality(CountedWithin(q)') >= Limit[RuleOf[q]]
      BY DEF RefusalsAreEarned
    <2>1. CASE q = r
      <3>1. ~HasRoom(r) /\ requests'[r].counter # NoCounter
        BY <2>1, AnswerMoves, CountersAreCounters
      <3> QED BY <1>10, <2>1, <3>1, AnswerRefusesTheFull
    <2>2. CASE q # r
      <3>1. requests'[q] = requests[q]
        BY <2>2, AnswerMoves
      <3> QED BY <1>2, <1>10, <3>1, AnswerLeavesHits, RefusalsStay
    <2> QED BY <2>1, <2>2
  <1>12. SavedInv'
    BY <1>1, AnswerLeavesHits, SavedStays
  <1> QED BY <1>2, <1>3, <1>4, <1>7, <1>8, <1>9, <1>10, <1>11, <1>12

-----------------------------------------------------------------------------
(* The memory of a process judges a request                                *)

MemoryHas(r) ==
    Cardinality(MemoryHits(ProcessOf[r], RuleOf[r])) < Limit[RuleOf[r]]

LEMMA MemoryFinds ==
  ASSUME RateInv, NEW r \in Requests
  PROVE  LET hits == MemoryHits(ProcessOf[r], RuleOf[r])
         IN  /\ hits \subseteq memory[ProcessOf[r]][RuleOf[r]]
             /\ IsFiniteSet(hits)
             /\ Cardinality(hits) \in Nat
             /\ Cardinality(hits) <= Limit[RuleOf[r]]
             /\ IsFiniteSet(hits \cup {r})
             /\ Cardinality(hits \cup {r}) \in Nat
             /\ MemoryHas(r) => Cardinality(hits \cup {r}) <= Limit[RuleOf[r]]
  <1> USE DEF RateInv
  <1> DEFINE hits == MemoryHits(ProcessOf[r], RuleOf[r])
             held == memory[ProcessOf[r]][RuleOf[r]]
  <1>1. hits \in SUBSET held
    BY DEF MemoryHits
  <1>2. /\ IsFiniteSet(held) /\ Cardinality(held) <= Limit[RuleOf[r]]
        /\ Cardinality(held) \in Nat
    BY Bounds, FS_CardinalityType DEF CountersAreFull
  <1>3. /\ IsFiniteSet(hits) /\ Cardinality(hits) <= Cardinality(held)
    BY <1>1, <1>2, FS_Subset
  <1>4. /\ IsFiniteSet(hits \cup {r}) /\ Cardinality(hits) \in Nat
        /\ Cardinality(hits \cup {r}) \in Nat
        /\ Cardinality(hits \cup {r}) <= Cardinality(hits) + 1
    BY <1>3, OneMore
  <1>5. MemoryHas(r) => Cardinality(hits) < Limit[RuleOf[r]]
    BY DEF MemoryHas
  <1> HIDE DEF hits, held
  <1>6. MemoryHas(r) => Cardinality(hits \cup {r}) <= Limit[RuleOf[r]]
    BY <1>4, <1>5, Bounds
  <1>7. Cardinality(hits) <= Limit[RuleOf[r]]
    BY <1>2, <1>3, <1>4, Bounds
  <1> QED BY <1>1, <1>3, <1>4, <1>6, <1>7 DEF hits, held

\* What a count in memory does; the request had no hit there before.
LEMMA CountMoves ==
  ASSUME RateInv, NEW r \in Requests, CountInMemory(r),
         requests[r].pc \in {"idle", "waiting"}
  PROVE  /\ requests' \in [Requests -> Request]
         /\ \A q \in Requests : q # r => requests'[q] = requests[q]
         /\ requests'[r].pc = IF MemoryHas(r) THEN "allowed" ELSE "refused"
         /\ requests'[r].at = now /\ requests[r].at <= now
         /\ requests'[r].sent = requests[r].sent
         /\ requests'[r].copies = requests[r].copies
         /\ requests'[r].resent = requests[r].resent
         /\ requests'[r].counter = MemoryCounter(ProcessOf[r])
         /\ requests[r].counter = NoCounter
         /\ memory' = [memory EXCEPT ![ProcessOf[r]][RuleOf[r]] =
                         MemoryHits(ProcessOf[r], RuleOf[r])
                           \cup (IF MemoryHas(r) THEN {r} ELSE {})]
         /\ r \notin MemoryHits(ProcessOf[r], RuleOf[r])
  <1> USE DEF RateInv
  <1>1. MemoryCounter(ProcessOf[r]) \in Counters
    BY Bounds, CountersAreCounters
  <1>2. requests[r].counter = NoCounter /\ requests[r].at <= now
    BY DEF RequestInv, Idle
  <1>3. r \notin MemoryHits(ProcessOf[r], RuleOf[r])
    BY Bounds DEF MemoryHits, HitsAreRequests, Allowed
  <1>4. now \in Nat
    BY Fields
  <1>5. /\ requests' \in [Requests -> Request]
        /\ \A q \in Requests : q # r => requests'[q] = requests[q]
        /\ requests'[r].pc = IF MemoryHas(r) THEN "allowed" ELSE "refused"
        /\ requests'[r].at = now
        /\ requests'[r].sent = requests[r].sent
        /\ requests'[r].copies = requests[r].copies
        /\ requests'[r].resent = requests[r].resent
        /\ requests'[r].counter = MemoryCounter(ProcessOf[r])
    BY <1>1, <1>4
       DEF CountInMemory, MemoryHas, MemoryCounter, TypeOK, Request
  <1>6. memory' = [memory EXCEPT ![ProcessOf[r]][RuleOf[r]] =
                     MemoryHits(ProcessOf[r], RuleOf[r])
                       \cup (IF MemoryHas(r) THEN {r} ELSE {})]
    BY DEF CountInMemory, MemoryHas
  <1> QED BY <1>2, <1>3, <1>5, <1>6

LEMMA SpanOfACount ==
  ASSUME RateInv, NEW r \in Requests, CountInMemory(r), UNCHANGED now,
         requests[r].pc \in {"idle", "waiting"}, MemoryHas(r),
         NEW x \in Requests, Allowed(x)', r \in AllowedBefore(x)'
  PROVE  AllowedBefore(x)' \subseteq
           MemoryHits(ProcessOf[r], RuleOf[r]) \cup {r}
  <1> USE DEF RateInv
  <1> SUFFICES ASSUME NEW q \in AllowedBefore(x)', q # r
               PROVE  q \in MemoryHits(ProcessOf[r], RuleOf[r])
    OBVIOUS
  <1>1. /\ q \in Requests /\ requests'[q] = requests[q]
        /\ RuleOf[x] = RuleOf[r] /\ RuleOf[q] = RuleOf[r]
        /\ requests'[x].counter = MemoryCounter(ProcessOf[r])
        /\ requests[q].counter = MemoryCounter(ProcessOf[r]) /\ Allowed(q)
        /\ now <= requests'[x].at
        /\ requests[q].at + Span(x)' > requests'[x].at
    BY CountMoves DEF AllowedBefore, Allowed
  <1>2. Span(x)' = Window[RuleOf[r]]
    BY <1>1, Bounds DEF Span, MemoryCounter
  <1>3. requests'[x].at \in Nat /\ requests[q].at \in Nat /\ now \in Nat
    BY <1>1, CountMoves, Fields DEF Request
  <1>4. requests[q].at + Window[RuleOf[r]] > now
    BY <1>1, <1>2, <1>3, Bounds
  <1>5. q \in memory[ProcessOf[r]][RuleOf[r]]
    BY <1>1, <1>4, Bounds DEF KeptInMemory
  <1> QED BY <1>4, <1>5 DEF MemoryHits

LEMMA CountKeepsLimits ==
  ASSUME RateInv, NEW r \in Requests, CountInMemory(r), UNCHANGED now,
         requests[r].pc \in {"idle", "waiting"}
  PROVE  LimitsHold'
  <1> USE DEF RateInv
  <1> DEFINE hits == MemoryHits(ProcessOf[r], RuleOf[r])
  <1>0. ~Allowed(r)
    BY DEF Allowed
  <1> SUFFICES ASSUME NEW x \in Requests, Allowed(x)'
               PROVE  /\ IsFiniteSet(AllowedBefore(x)')
                      /\ Cardinality(AllowedBefore(x)') <= Limit[RuleOf[x]]
    BY DEF LimitsHold
  <1>1. CASE r \in AllowedBefore(x)'
    <2>1. MemoryHas(r) /\ RuleOf[x] = RuleOf[r]
      BY <1>1, CountMoves DEF AllowedBefore, Allowed
    <2>2. AllowedBefore(x)' \in SUBSET (hits \cup {r})
      BY <1>1, <2>1, SpanOfACount
    <2>3. /\ IsFiniteSet(hits \cup {r}) /\ Cardinality(hits \cup {r}) \in Nat
          /\ Cardinality(hits \cup {r}) <= Limit[RuleOf[r]]
      BY <2>1, MemoryFinds
    <2>4. /\ IsFiniteSet(AllowedBefore(x)')
          /\ Cardinality(AllowedBefore(x)') <= Cardinality(hits \cup {r})
      BY <2>2, <2>3, FS_Subset
    <2>5. Cardinality(AllowedBefore(x)') \in Nat
      BY <2>4, FS_CardinalityType
    <2> QED BY <2>1, <2>3, <2>4, <2>5, Bounds
  <1>2. CASE r \notin AllowedBefore(x)'
    <2>1. CASE MemoryHas(r)
      <3>1. x # r
        <4> SUFFICES r \in AllowedBefore(r)'
          BY <1>2
        <4>1. Allowed(r)' /\ requests'[r].at \in Nat
          BY <2>1, CountMoves, Fields DEF Allowed
        <4>2. Span(r)' = Window[RuleOf[r]]
          <5>1. requests'[r].counter = MemoryCounter(ProcessOf[r])
            BY CountMoves
          <5>2. requests'[r].counter.keeper # Redis
            BY <5>1, Bounds DEF MemoryCounter
          <5> QED BY <5>2 DEF Span
        <4>3. requests'[r].at + Span(r)' > requests'[r].at
          BY <4>1, <4>2, Bounds
        <4> QED BY <4>1, <4>3 DEF AllowedBefore
      <3> QED BY <1>0, <1>2, <3>1, CountMoves, LimitsStayWithout
    <2>2. CASE ~MemoryHas(r)
      <3>1. /\ ~Allowed(r)'
            /\ \A q \in Requests : q # r => requests'[q] = requests[q]
        BY <2>2, CountMoves DEF Allowed
      <3>2. LimitsHold'
        BY <1>0, <3>1, LimitsStay DEF Allowed
      <3> QED BY <3>2 DEF LimitsHold
    <2> QED BY <2>1, <2>2
  <1> QED BY <1>1, <1>2

\* What a count in memory adds to a rule that does not fail closed, or to any
\* rule when there is no Redis to count in.
LEMMA CountKeepsInv ==
  ASSUME RateInv, NEW r \in Requests, CountInMemory(r),
         requests[r].pc \in {"idle", "waiting"},
         UNCHANGED <<now, bucket, expires, saved, runs>>,
         fallbackUntil' \in [Processes -> Nat],
         RuleOf[r] \notin FailClosed \/ MemoryOnly
  PROVE  RateInv'
  <1> USE DEF RateInv
  <1> DEFINE p == ProcessOf[r]
             rule == RuleOf[r]
             hits == MemoryHits(p, rule)
             held == hits \cup (IF MemoryHas(r) THEN {r} ELSE {})
  <1>0. /\ p \in Processes /\ rule \in Rules /\ now \in Nat /\ p # Redis
        /\ MemoryCounter(p) \in Counters /\ MemoryCounter(p) # NoCounter
        /\ MemoryCounter(p) # RedisCounter
    BY Bounds, Fields, CountersAreCounters
  <1>m. /\ \A q \in Requests : q # r => requests'[q] = requests[q]
        /\ requests'[r].pc = IF MemoryHas(r) THEN "allowed" ELSE "refused"
        /\ requests'[r].at = now /\ requests[r].at <= now
        /\ requests'[r].sent = requests[r].sent
        /\ requests'[r].copies = requests[r].copies
        /\ requests'[r].resent = requests[r].resent
        /\ requests'[r].counter = MemoryCounter(p)
        /\ requests[r].counter = NoCounter
    BY CountMoves
  <1>1. held \subseteq Requests
    BY <1>0 DEF MemoryHits, TypeOK
  <1>2. /\ memory'[p][rule] = held
        /\ \A k \in Processes, other \in Rules :
              k # p \/ other # rule => memory'[k][other] = memory[k][other]
        /\ memory' \in [Processes -> [Rules -> SUBSET Requests]]
    <2>1. memory' = [memory EXCEPT ![p][rule] = held]
      BY CountMoves
    <2> HIDE DEF held, p, rule
    <2> QED BY <1>0, <1>1, <2>1 DEF TypeOK
  <1>3. TypeOK'
    BY <1>2, CountMoves DEF TypeOK
  <1>4. RequestInv' /\ ScriptInv' /\ RunInv'
    <2>1. requests[r].sent <= now /\ now <= now
      BY <1>0, <1>m, Fields DEF RequestInv
    <2>2. requests[r].pc = "idle" => requests[r].copies = 0
      BY DEF RequestInv, Idle
    <2>3. RequestInv'
      BY <1>0, <1>m, <2>1 DEF RequestInv
    <2>4. ScriptInv'
      BY <1>m, <2>2, Fields DEF ScriptInv
    <2> QED BY <2>3, <2>4 DEF RunInv
  <1>5. CounterInv'
    <2>1. /\ MemoryCounter(p).run \in 1..runs[p] /\ MemoryCounter(p).keeper = p
          /\ p # Redis
      BY <1>0, RunsAreCounted DEF MemoryCounter, Keepers
    <2> HIDE DEF p
    <2> QED BY <1>m, <2>1 DEF CounterInv
  <1>6. /\ MayHaveHit(r) => MayHaveHit(r)'
        /\ MemoryHas(r) => MayHaveHit(r)'
    <2>1. /\ requests'[r].pc # "idle" /\ ~OnItsWay(r)'
          /\ requests'[r].counter.keeper # Redis
      BY <1>0, <1>m DEF OnItsWay, MemoryCounter
    <2>2. MayHaveHit(r) => requests[r].sent # 0
      BY DEF MayHaveHit, ScriptInv
    <2>3. MayHaveHit(r) \/ MemoryHas(r) => ~TurnedAway(r)'
      BY <1>m, <2>1, <2>2 DEF TurnedAway
    <2> QED BY <2>1, <2>3 DEF MayHaveHit
  <1>7. \A q \in Requests :
           /\ Allowed(q) => requests'[q] = requests[q]
           /\ MayHaveHit(q) =>
                 MayHaveHit(q)' /\ requests[q].at <= requests'[q].at
    <2>1. \A q \in Requests : requests[q].at <= requests[q].at
      BY Fields
    <2> QED BY <1>6, <2>1, CountMoves, OthersMayHaveHit DEF Allowed
  <1>8. HitsAreRequests'
    <2>1. \A q \in Requests : Allowed(q) => Allowed(q)'
      BY <1>7 DEF Allowed
    <2>2. MemoryHas(r) => Allowed(r)'
      BY CountMoves DEF Allowed
    <2>3. \A q \in held : RuleOf[q] = rule /\ Allowed(q)'
      BY <1>0, <1>1, <2>1, <2>2 DEF HitsAreRequests, MemoryHits
    <2>4. /\ \A other \in Rules : bucket[other] \subseteq Requests
          /\ \A k \in Processes, other \in Rules :
                memory[k][other] \subseteq Requests
      BY DEF TypeOK
    <2>5. ASSUME NEW other \in Rules, NEW k \in Processes,
                 NEW q \in memory'[k][other]
          PROVE  RuleOf[q] = other /\ Allowed(q)'
      <3>1. CASE k = p /\ other = rule
        BY <1>2, <2>3, <3>1
      <3>2. CASE k # p \/ other # rule
        BY <1>2, <2>1, <2>4, <3>2 DEF HitsAreRequests
      <3> QED BY <3>1, <3>2
    <2>6. \A other \in Rules : \A q \in bucket[other] :
             RuleOf[q] = other /\ MayHaveHit(q)'
      BY <1>7, <2>4 DEF HitsAreRequests
    <2> QED BY <2>5, <2>6 DEF HitsAreRequests
  <1>9. CountersAreFull'
    <2>1. IsFiniteSet(held) /\ Cardinality(held) <= Limit[rule]
      <3>1. CASE MemoryHas(r)
        BY <3>1, MemoryFinds
      <3>2. CASE ~MemoryHas(r)
        <4>1. held = hits
          BY <3>2
        <4> QED BY <4>1, MemoryFinds
      <3> QED BY <3>1, <3>2
    <2> HIDE DEF held, p, rule
    <2> QED BY <1>2, <2>1 DEF CountersAreFull
  <1>10. KeptByRedis'
    <2>1. \A q \in Requests : Allowed(q)' /\ requests'[q].counter = RedisCounter
             => Allowed(q) /\ requests'[q] = requests[q]
      BY <1>0, <1>m DEF Allowed
    <2> QED BY <2>1 DEF KeptByRedis, RedisCounter
  <1>11. KeptInMemory'
    <2> SUFFICES ASSUME NEW k \in Processes, NEW q \in Requests, Allowed(q)',
                        requests'[q].counter = MemoryCounter(k),
                        requests'[q].at + Window[RuleOf[q]] > now
                 PROVE  q \in memory'[k][RuleOf[q]]
      BY DEF KeptInMemory, MemoryCounter
    <2>1. CASE q = r
      <3>1. MemoryHas(r) /\ MemoryCounter(p) = MemoryCounter(k)
        BY <1>m, <2>1 DEF Allowed
      <3>2. k = p
        BY <1>0, <3>1, CountersAreCounters
      <3> QED BY <1>2, <2>1, <3>1, <3>2
    <2>2. CASE q # r
      <3>1. q \in memory[k][RuleOf[q]]
            /\ requests[q].at + Window[RuleOf[q]] > now
        BY <2>2, CountMoves DEF KeptInMemory, Allowed
      <3>2. k = p /\ RuleOf[q] = rule => q \in hits
        BY <3>1 DEF MemoryHits
      <3> QED BY <1>2, <3>1, <3>2, Bounds
    <2> QED BY <2>1, <2>2
  <1>12. LimitsHold'
    BY CountKeepsLimits
  <1>13. IsFiniteSet(Started')
    BY CountMoves, StartedStaysFinite
  <1>14. RefusalsAreEarned'
    <2> SUFFICES ASSUME NEW q \in Requests, requests'[q].pc = "refused"
                 PROVE  IF requests'[q].counter = NoCounter
                        THEN RuleOf[q] \in FailClosed
                        ELSE Cardinality(CountedWithin(q)') >= Limit[RuleOf[q]]
      BY DEF RefusalsAreEarned
    <2>1. CASE q = r
      <3>1. ~MemoryHas(r) /\ requests'[r].counter # NoCounter
        BY <1>0, <2>1, CountMoves, CountersAreCounters
      <3>2. hits \in SUBSET CountedWithin(r)'
        <4> SUFFICES ASSUME NEW h \in hits PROVE h \in CountedWithin(r)'
          OBVIOUS
        <4>1. /\ h \in Requests /\ h \in memory[p][rule]
              /\ requests[h].at + Window[rule] > now
          BY <1>0 DEF MemoryHits, TypeOK
        <4>2. RuleOf[h] = rule /\ Allowed(h)
          BY <1>0, <4>1 DEF HitsAreRequests
        <4>3. requests'[h] = requests[h] /\ MayHaveHit(h)'
          BY <1>7, <4>1, <4>2 DEF MayHaveHit, Allowed, OnItsWay, TurnedAway
        <4> QED BY <4>1, <4>2, <4>3, CountMoves DEF CountedWithin, MayHaveHit
      <3>3. CountedWithin(r)' \in SUBSET Started'
        BY DEF CountedWithin, Started
      <3>4. IsFiniteSet(CountedWithin(r)')
        BY <1>13, <3>3, FS_Subset
      <3>5. /\ Cardinality(hits) <= Cardinality(CountedWithin(r)')
            /\ Cardinality(CountedWithin(r)') \in Nat
        BY <3>2, <3>4, FS_Subset, FS_CardinalityType
      <3>6. /\ ~(Cardinality(hits) < Limit[rule])
            /\ Cardinality(hits) \in Nat /\ Limit[rule] \in Nat
        BY <3>1, MemoryFinds, Bounds DEF MemoryHas
      <3> HIDE DEF hits, rule
      <3>7. Cardinality(CountedWithin(r)') >= Limit[rule]
        BY <3>5, <3>6
      <3> QED BY <2>1, <3>1, <3>7 DEF rule
    <2>2. CASE q # r
      <3>1. requests'[q] = requests[q]
        BY <2>2, CountMoves
      <3> QED BY <1>3, <1>7, <1>13, <3>1, RefusalsStay
    <2> QED BY <2>1, <2>2
  <1>15. SavedInv'
    BY <1>7, SavedStays
  <1> QED BY <1>3, <1>4, <1>5, <1>8, <1>9, <1>10, <1>11, <1>12, <1>13, <1>14,
             <1>15

LEMMA ConsumeInMemoryKeepsInv ==
  ASSUME RateInv, NEW r \in Requests, ConsumeInMemory(r)
  PROVE  RateInv'
  BY CountKeepsInv DEF ConsumeInMemory, UsesMemory, RateInv, TypeOK

LEMMA FallBackKeepsInv ==
  ASSUME RateInv, NEW r \in Requests, FallBack(r)
  PROVE  RateInv'
  <1>1. now + Cooldown \in Nat
    BY RateLimitAssumption DEF RateInv, TypeOK
  <1>2. fallbackUntil' \in [Processes -> Nat]
    BY <1>1 DEF FallBack, RateInv, TypeOK
  <1> QED BY <1>2, CountKeepsInv DEF FallBack

-----------------------------------------------------------------------------
(* Time and restarts                                                       *)

\* What time, snapshots and restarts share: no request is judged.
LEMMA NobodyIsJudged ==
  ASSUME RateInv, TypeOK', IsFiniteSet(Started'),
         \A q \in Requests :
            /\ requests'[q].at = requests[q].at
            /\ requests'[q].counter = requests[q].counter
            /\ Allowed(q)' <=> Allowed(q)
            /\ requests'[q].pc = "refused" => requests[q].pc = "refused"
            /\ MayHaveHit(q) => MayHaveHit(q)'
  PROVE  LimitsHold' /\ RefusalsAreEarned'
  <1> USE DEF RateInv
  <1>1. LimitsHold'
    BY LimitsStay
  <1>2. \A q \in Requests : MayHaveHit(q) =>
           MayHaveHit(q)' /\ requests[q].at <= requests'[q].at
    BY Fields
  <1>3. RefusalsAreEarned'
    BY <1>2, RefusalsStay DEF RefusalsAreEarned
  <1> QED BY <1>1, <1>3

LEMMA TickKeepsInv ==
  ASSUME RateInv, Tick
  PROVE  RateInv'
  <1> USE DEF RateInv
  <1>1. /\ now' = now + 1 /\ now \in Nat
        /\ UNCHANGED
             <<requests, bucket, expires, saved, memory, fallbackUntil, runs>>
        /\ \A q \in Requests :
              requests[q].copies > 0 => now < requests[q].sent + MaxDelay
    BY DEF Tick, TypeOK
  <1>2. TypeOK' /\ RunInv' /\ CounterInv' /\ CountersAreFull'
    BY <1>1 DEF TypeOK, RunInv, CounterInv, CountersAreFull
  <1>3. RequestInv'
    BY <1>1, Fields DEF RequestInv
  <1>4. ScriptInv'
    BY <1>1, Fields, RateLimitAssumption DEF ScriptInv
  <1>5. \A q \in Requests : /\ Allowed(q)' <=> Allowed(q)
                            /\ MayHaveHit(q)' <=> MayHaveHit(q)
    BY <1>1, OthersMayHaveHit DEF Allowed
  <1>6. HitsAreRequests'
    <2>1. \A rule \in Rules :
             /\ bucket[rule] \subseteq Requests
             /\ \A p \in Processes : memory[p][rule] \subseteq Requests
      BY DEF TypeOK
    <2>2. bucket' = bucket /\ memory' = memory
      BY <1>1
    <2> QED BY <1>5, <2>1, <2>2 DEF HitsAreRequests
  <1>7. \A q \in Requests :
           requests[q].at + Window[RuleOf[q]] > now' =>
              requests[q].at + Window[RuleOf[q]] > now
    BY <1>1, Fields, Bounds
  <1>8. KeptByRedis'
    BY <1>1, <1>5, <1>7 DEF KeptByRedis, RedisCounter
  <1>9. KeptInMemory'
    BY <1>1, <1>5, <1>7 DEF KeptInMemory, MemoryCounter
  <1>10. IsFiniteSet(Started')
    BY <1>1 DEF Started
  <1>11. LimitsHold' /\ RefusalsAreEarned'
    BY <1>1, <1>2, <1>5, <1>10, NobodyIsJudged
  <1>12. SavedInv'
    BY <1>1, <1>5, SavedStays
  <1> QED BY <1>2, <1>3, <1>4, <1>6, <1>8, <1>9, <1>10, <1>11, <1>12

LEMMA SaveRedisKeepsInv ==
  ASSUME RateInv, SaveRedis
  PROVE  RateInv'
  <1> USE DEF RateInv
  <1>1. /\ UNCHANGED
             <<now, requests, bucket, expires, memory, fallbackUntil, runs>>
        /\ saved' = [bucket |-> bucket, expires |-> expires]
    BY DEF SaveRedis
  <1>2. /\ TypeOK' /\ RequestInv' /\ ScriptInv' /\ RunInv' /\ CounterInv'
        /\ CountersAreFull'
    BY <1>1 DEF TypeOK, RequestInv, ScriptInv, RunInv, CounterInv,
                CountersAreFull
  <1>3. \A q \in Requests : /\ Allowed(q)' <=> Allowed(q)
                            /\ MayHaveHit(q)' <=> MayHaveHit(q)
    BY <1>1, OthersMayHaveHit DEF Allowed
  <1>4. \A rule \in Rules :
           /\ bucket[rule] \subseteq Requests
           /\ \A p \in Processes : memory[p][rule] \subseteq Requests
    BY DEF TypeOK
  <1>5. HitsAreRequests'
    <2>1. bucket' = bucket /\ memory' = memory
      BY <1>1
    <2> QED BY <1>3, <1>4, <2>1 DEF HitsAreRequests
  <1>6. SavedInv'
    <2>1. \A rule \in Rules : saved'.bucket[rule] = bucket[rule]
      BY <1>1
    <2> QED BY <1>3, <1>4, <2>1 DEF SavedInv, HitsAreRequests, CountersAreFull
  <1>7. KeptByRedis' /\ KeptInMemory'
    BY <1>1, <1>3 DEF KeptByRedis, KeptInMemory, RedisCounter, MemoryCounter
  <1>8. IsFiniteSet(Started')
    BY <1>1 DEF Started
  <1>9. LimitsHold' /\ RefusalsAreEarned'
    BY <1>1, <1>2, <1>3, <1>8, NobodyIsJudged
  <1> QED BY <1>2, <1>5, <1>6, <1>7, <1>8, <1>9

\* The next run of a keeper has judged nothing yet.
LEMMA NextRunIsNew ==
  ASSUME RateInv, NEW k \in Keepers, runs' = [runs EXCEPT ![k] = @ + 1],
         NEW q \in Requests
  PROVE  /\ runs' \in [Keepers -> Nat] /\ RunInv'
         /\ runs'[k] = runs[k] + 1
         /\ \A other \in Keepers : other # k => runs'[other] = runs[other]
         /\ requests[q].counter # NoCounter =>
               requests[q].counter.run \in 1..runs'[requests[q].counter.keeper]
         /\ requests[q].counter # [keeper |-> k, run |-> runs'[k]]
  <1> USE DEF RateInv
  <1>1. /\ runs' \in [Keepers -> Nat] /\ runs'[k] = runs[k] + 1
        /\ \A other \in Keepers : other # k => runs'[other] = runs[other]
        /\ runs[k] \in Nat
    BY DEF TypeOK
  <1>2. RunInv'
    BY <1>1 DEF RunInv, TypeOK
  <1>3. ASSUME requests[q].counter # NoCounter
        PROVE  /\ requests[q].counter.keeper \in Keepers
               /\ requests[q].counter.run
                    \in 1..runs[requests[q].counter.keeper]
    BY <1>3, Fields DEF CounterInv, Counters
  <1>4. requests[q].counter # NoCounter =>
           requests[q].counter.run \in 1..runs'[requests[q].counter.keeper]
    BY <1>1, <1>3 DEF TypeOK
  <1>5. requests[q].counter # [keeper |-> k, run |-> runs'[k]]
    <2> SUFFICES ASSUME requests[q].counter = [keeper |-> k, run |-> runs'[k]]
                 PROVE  FALSE
      OBVIOUS
    <2>1. requests[q].counter # NoCounter
      BY <1>1, RateLimitAssumption DEF Keepers
    <2>2. runs'[k] \in 1..runs[k]
      BY <1>3, <2>1
    <2> QED BY <1>1, <2>2
  <1> QED BY <1>1, <1>2, <1>4, <1>5

LEMMA RestartRedisKeepsInv ==
  ASSUME RateInv, RestartRedis
  PROVE  RateInv'
  <1> USE DEF RateInv
  <1>1. bucket' = saved.bucket /\ expires' = saved.expires
    BY DEF RestartRedis
  <1>2. /\ UNCHANGED <<now, requests, saved, memory, fallbackUntil>>
        /\ runs' = [runs EXCEPT ![Redis] = @ + 1] /\ Redis \in Keepers
    BY DEF RestartRedis, Keepers
  <1>4. runs' \in [Keepers -> Nat] /\ RunInv'
    BY <1>2 DEF TypeOK, RunInv
  <1>5. TypeOK'
    <2>1. /\ bucket' \in [Rules -> SUBSET Requests]
          /\ expires' \in [Rules -> Nat]
      BY <1>1 DEF TypeOK
    <2> QED BY <1>2, <1>4, <2>1 DEF TypeOK
  <1>6. RequestInv' /\ ScriptInv'
    BY <1>2 DEF RequestInv, ScriptInv
  <1>7. CounterInv'
    BY <1>2, NextRunIsNew DEF CounterInv
  <1>8. \A q \in Requests : /\ Allowed(q)' <=> Allowed(q)
                            /\ MayHaveHit(q)' <=> MayHaveHit(q)
    BY <1>2, OthersMayHaveHit DEF Allowed
  <1>9. HitsAreRequests'
    <2>1. \A rule \in Rules :
             /\ saved.bucket[rule] \subseteq Requests
             /\ \A p \in Processes : memory[p][rule] \subseteq Requests
      BY DEF TypeOK
    <2>2. memory' = memory
      BY <1>2
    <2> QED BY <1>1, <1>8, <2>1, <2>2 DEF HitsAreRequests, SavedInv
  <1>10. CountersAreFull' /\ SavedInv'
    BY <1>1, <1>2, <1>8, SavedStays DEF CountersAreFull, SavedInv
  <1>11. KeptByRedis'
    BY <1>2, NextRunIsNew DEF KeptByRedis, RedisCounter
  <1>12. KeptInMemory'
    <2>1. \A p \in Processes : MemoryCounter(p)' = MemoryCounter(p)
      BY <1>2, RateLimitAssumption DEF MemoryCounter, Keepers, TypeOK
    <2> QED BY <1>2, <1>8, <2>1 DEF KeptInMemory
  <1>13. IsFiniteSet(Started')
    BY <1>2 DEF Started
  <1>14. LimitsHold' /\ RefusalsAreEarned'
    BY <1>2, <1>5, <1>8, <1>13, NobodyIsJudged
  <1> QED BY <1>4, <1>5, <1>6, <1>7, <1>9, <1>10, <1>11, <1>12, <1>13, <1>14

LEMMA RestartProcessKeepsInv ==
  ASSUME RateInv, NEW p \in Processes, RestartProcess(p)
  PROVE  RateInv'
  <1> USE DEF RateInv
  <1>1. /\ UNCHANGED <<now, bucket, expires, saved>>
        /\ runs' = [runs EXCEPT ![p] = @ + 1] /\ p \in Keepers /\ p # Redis
        /\ \A rule \in Rules : memory'[p][rule] = {}
        /\ \A k \in Processes : k # p => memory'[k] = memory[k]
        /\ memory' \in [Processes -> [Rules -> SUBSET Requests]]
        /\ fallbackUntil' \in [Processes -> Nat]
    BY RateLimitAssumption DEF RestartProcess, Keepers, TypeOK
  <1>2. runs' \in [Keepers -> Nat] /\ RunInv'
    BY <1>1 DEF TypeOK, RunInv
  <1>3. /\ requests' \in [Requests -> Request]
        /\ \A q \in Requests :
              /\ requests'[q].at = requests[q].at
              /\ requests'[q].sent = requests[q].sent
              /\ requests'[q].copies = requests[q].copies
              /\ requests'[q].resent = requests[q].resent
              /\ requests'[q].counter = requests[q].counter
              /\ requests[q].pc # "waiting" => requests'[q] = requests[q]
              /\ \/ requests'[q].pc = requests[q].pc
                 \/ requests[q].pc = "waiting" /\ requests'[q].pc = "gone"
    <2>1. requests' = [q \in Requests |->
                         IF ProcessOf[q] = p /\ requests[q].pc = "waiting"
                         THEN [requests[q] EXCEPT !.pc = "gone"]
                         ELSE requests[q]]
      BY DEF RestartProcess
    <2>2. ASSUME NEW q \in Requests
          PROVE  /\ requests'[q] \in Request
                 /\ requests'[q].at = requests[q].at
                 /\ requests'[q].sent = requests[q].sent
                 /\ requests'[q].copies = requests[q].copies
                 /\ requests'[q].resent = requests[q].resent
                 /\ requests'[q].counter = requests[q].counter
                 /\ requests[q].pc # "waiting" => requests'[q] = requests[q]
                 /\ \/ requests'[q].pc = requests[q].pc
                    \/ requests[q].pc = "waiting" /\ requests'[q].pc = "gone"
      <3>1. requests[q] \in Request
        BY Fields
      <3>2. CASE ProcessOf[q] = p /\ requests[q].pc = "waiting"
        <4>1. requests'[q] = [requests[q] EXCEPT !.pc = "gone"]
          BY <2>1, <3>2
        <4> QED BY <3>1, <3>2, <4>1 DEF Request
      <3>3. CASE ~(ProcessOf[q] = p /\ requests[q].pc = "waiting")
        <4>1. requests'[q] = requests[q]
          BY <2>1, <3>3
        <4> QED BY <3>1, <4>1
      <3> QED BY <3>2, <3>3
    <2> QED BY <2>1, <2>2
  <1>4. TypeOK'
    BY <1>1, <1>2, <1>3 DEF TypeOK
  <1>5. RequestInv' /\ ScriptInv'
    <2>1. RequestInv'
      BY <1>1, <1>3 DEF RequestInv, Idle
    <2>2. ScriptInv'
      BY <1>1, <1>3 DEF ScriptInv
    <2> QED BY <2>1, <2>2
  <1>6. CounterInv'
    <2>1. \A q \in Requests : requests[q].counter # NoCounter =>
             requests[q].counter.run \in 1..runs'[requests[q].counter.keeper]
      BY <1>1, NextRunIsNew
    <2> QED BY <1>3, <2>1 DEF CounterInv
  <1>7. \A q \in Requests :
           /\ Allowed(q)' <=> Allowed(q)
           /\ requests'[q].pc = "refused" => requests[q].pc = "refused"
           /\ MayHaveHit(q) => MayHaveHit(q)'
    BY <1>3 DEF Allowed, MayHaveHit, OnItsWay, TurnedAway
  <1>8. \A k \in Processes, rule \in Rules : memory'[k][rule] = {}
                                        \/ memory'[k][rule] = memory[k][rule]
    BY <1>1
  <1>9. HitsAreRequests'
    <2>1. \A rule \in Rules :
             /\ bucket[rule] \subseteq Requests
             /\ \A k \in Processes : memory[k][rule] \subseteq Requests
      BY DEF TypeOK
    <2>2. bucket' = bucket
      BY <1>1
    <2> QED BY <1>7, <1>8, <2>1, <2>2 DEF HitsAreRequests
  <1>10. CountersAreFull'
    <2>1. /\ IsFiniteSet({}) /\ Cardinality({}) = 0
          /\ \A rule \in Rules : Limit[rule] \in Nat
      BY FS_EmptySet, RateLimitAssumption
    <2>2. ASSUME NEW k \in Processes, NEW rule \in Rules
          PROVE  /\ IsFiniteSet(memory'[k][rule])
                 /\ Cardinality(memory'[k][rule]) <= Limit[rule]
      <3>1. CASE memory'[k][rule] = {}
        <4>1. 0 <= Limit[rule]
          BY <2>1
        <4> QED BY <2>1, <3>1, <4>1
      <3>2. CASE memory'[k][rule] = memory[k][rule]
        BY <3>2 DEF CountersAreFull
      <3> QED BY <1>8, <3>1, <3>2
    <2> QED BY <1>1, <2>2 DEF CountersAreFull
  <1>11. KeptByRedis'
    <2>1. RedisCounter' = RedisCounter
      BY <1>1 DEF RedisCounter, Keepers, TypeOK
    <2> QED BY <1>1, <1>3, <1>7, <2>1 DEF KeptByRedis
  <1>12. KeptInMemory'
    <2> SUFFICES ASSUME NEW k \in Processes, NEW q \in Requests, Allowed(q)',
                        requests'[q].counter = [keeper |-> k, run |-> runs'[k]],
                        requests'[q].at + Window[RuleOf[q]] > now
                 PROVE  q \in memory'[k][RuleOf[q]]
      BY <1>1 DEF KeptInMemory, MemoryCounter
    <2>1. k # p
      <3>1. requests[q].counter # [keeper |-> p, run |-> runs'[p]]
        BY <1>1, NextRunIsNew
      <3> QED BY <1>3, <3>1
    <2>2. requests[q].counter = MemoryCounter(k)
      BY <1>1, <1>3, <2>1, NextRunIsNew DEF MemoryCounter, Keepers
    <2> QED BY <1>1, <1>3, <1>7, <2>1, <2>2 DEF KeptInMemory
  <1>13. IsFiniteSet(Started')
    <2>1. Started' \in SUBSET Started
      BY <1>3 DEF Started
    <2> QED BY <2>1, FS_Subset
  <1>14. LimitsHold' /\ RefusalsAreEarned'
    BY <1>3, <1>4, <1>7, <1>13, NobodyIsJudged
  <1>15. SavedInv'
    BY <1>1, <1>7, SavedStays
  <1> QED BY <1>2, <1>4, <1>5, <1>6, <1>9, <1>10, <1>11, <1>12, <1>13, <1>14,
             <1>15

-----------------------------------------------------------------------------
(* The theorems                                                            *)

LEMMA InitEstablishesRateInv == Init => RateInv
  <1> SUFFICES ASSUME Init PROVE RateInv
    OBVIOUS
  <1> USE DEF Init
  <1>1. Idle \in Request
    BY DEF Idle, Request
  <1>2. TypeOK
    BY <1>1, RateLimitAssumption DEF TypeOK
  <1>3. \A q \in Requests : /\ requests[q] = Idle /\ ~Allowed(q)
                            /\ requests[q].pc = "idle"
    BY DEF Allowed, Idle
  <1>4. /\ RequestInv /\ ScriptInv /\ RunInv /\ CounterInv
        /\ KeptByRedis /\ KeptInMemory
    BY <1>3, RateLimitAssumption
       DEF Idle, RequestInv, ScriptInv, RunInv, CounterInv, KeptByRedis,
           KeptInMemory
  <1>5. HitsAreRequests
    BY DEF HitsAreRequests
  <1>6. CountersAreFull
    BY FS_EmptySet, RateLimitAssumption DEF CountersAreFull
  <1>9. SavedInv
    BY FS_EmptySet, RateLimitAssumption DEF SavedInv
  <1>7. LimitsHold /\ RefusalsAreEarned
    BY <1>3 DEF LimitsHold, RefusalsAreEarned
  <1>8. IsFiniteSet(Started)
    <2>1. Started = {}
      BY <1>3 DEF Started
    <2> QED BY <2>1, FS_EmptySet
  <1> QED BY <1>2, <1>4, <1>5, <1>6, <1>7, <1>8, <1>9 DEF RateInv

LEMMA NextKeepsRateInv == RateInv /\ [Next]_vars => RateInv'
  <1> SUFFICES ASSUME RateInv, [Next]_vars PROVE RateInv'
    OBVIOUS
  <1>1. ASSUME NEW r \in Requests, RequestStep(r) PROVE RateInv'
    BY <1>1, ConsumeInMemoryKeepsInv, ConsumeInRedisKeepsInv, AnswerKeepsInv,
       RunUnheardKeepsInv, LoseScriptKeepsInv, ResendKeepsInv,
       RefuseUncountedKeepsInv, FallBackKeepsInv DEF RequestStep
  <1>2. CASE Tick
    BY <1>2, TickKeepsInv
  <1>3. CASE SaveRedis \/ RestartRedis
    BY <1>3, SaveRedisKeepsInv, RestartRedisKeepsInv
  <1>4. ASSUME NEW p \in Processes, RestartProcess(p) PROVE RateInv'
    BY <1>4, RestartProcessKeepsInv
  <1>5. CASE UNCHANGED vars
    <2> USE DEF RateInv
    <2>1. UNCHANGED <<now, requests, bucket, expires, saved, memory,
                      fallbackUntil, runs>>
      BY <1>5 DEF vars
    <2>2. TypeOK' /\ RequestInv' /\ ScriptInv' /\ RunInv' /\ CounterInv'
      BY <2>1 DEF TypeOK, RequestInv, ScriptInv, RunInv, CounterInv
    <2>3. HitsAreRequests' /\ CountersAreFull' /\ KeptByRedis' /\ KeptInMemory'
      BY <2>1 DEF HitsAreRequests, MayHaveHit, OnItsWay, TurnedAway, Allowed,
                  CountersAreFull, KeptByRedis, KeptInMemory, RedisCounter,
                  MemoryCounter
    <2>4. LimitsHold' /\ IsFiniteSet(Started') /\ RefusalsAreEarned'
      BY <2>1 DEF LimitsHold, AllowedBefore, Span, Allowed, Started,
                  RefusalsAreEarned, CountedWithin, OnItsWay, TurnedAway
    <2>5. SavedInv'
      BY <2>1 DEF SavedInv, MayHaveHit, OnItsWay, TurnedAway
    <2> QED BY <2>2, <2>3, <2>4, <2>5
  <1> QED BY <1>1, <1>2, <1>3, <1>4, <1>5 DEF Next

\* The invariant holds however requests, scripts, failures and restarts of
\* consumeFromStore's two stores interleave.
THEOREM RateInvariant == Spec => []RateInv
  <1> QED BY InitEstablishesRateInv, NextKeepsRateInv, PTL DEF Spec

\* Requests, sets, cooldowns and runs keep their types.
THEOREM RateTypesHold == Spec => []TypeOK
  <1>1. RateInv => TypeOK
    BY DEF RateInv
  <1> QED BY <1>1, RateInvariant, PTL

\* No counter lets more requests pass than its limit in any span of its window,
\* for any number of requests and any delay of their scripts below the window.
THEOREM CountersNeverExceedTheLimit == Spec => []CountersKeepTheLimit
  <1>1. RateInv => CountersKeepTheLimit
    BY DEF RateInv, LimitsHold, CountersKeepTheLimit
  <1> QED BY <1>1, RateInvariant, PTL

\* For a rule that fails closed the same limit holds over all API processes,
\* their restarts and every outage in which Redis keeps its data.
THEOREM LoginsNeverExceedTheLimit == Spec => []LoginsKeepTheLimit
  <1>1. RateInv => LoginsKeepTheLimit
    <2> SUFFICES ASSUME RateInv, ~MemoryOnly,
                        NEW r \in Requests, RuleOf[r] \in FailClosed, Allowed(r)
                 PROVE  /\ requests[r].counter.keeper = Redis
                        /\ runs[Redis] = 1 =>
                             Cardinality({q \in Requests :
                                /\ Allowed(q)
                                /\ RuleOf[q] = RuleOf[r]
                                /\ requests[q].at <= requests[r].at
                                /\ requests[q].at + (Window[RuleOf[r]] - MaxDelay)
                                     > requests[r].at})
                               <= Limit[RuleOf[r]]
      BY DEF LoginsKeepTheLimit
    <2>1. ASSUME NEW q \in Requests, Allowed(q), RuleOf[q] = RuleOf[r]
          PROVE  /\ requests[q].counter.keeper = Redis
                 /\ runs[Redis] = 1 =>
                       requests[q].counter = [keeper |-> Redis, run |-> 1]
      <3>1. requests[q].counter # NoCounter
        BY <2>1 DEF RateInv, RequestInv, Allowed
      <3>2. requests[q].counter \in Counters
        BY <3>1, Fields DEF RateInv
      <3>3. /\ requests[q].counter.keeper = Redis
            /\ runs[Redis] = 1 => requests[q].counter.run \in 1..1
        BY <2>1, <3>1 DEF RateInv, CounterInv
      <3>4. runs[Redis] = 1 => requests[q].counter.run = 1
        BY <3>3
      <3> QED BY <3>2, <3>3, <3>4 DEF Counters
    <2>2. ASSUME runs[Redis] = 1
          PROVE  {q \in Requests :
                    /\ Allowed(q)
                    /\ RuleOf[q] = RuleOf[r]
                    /\ requests[q].at <= requests[r].at
                    /\ requests[q].at + (Window[RuleOf[r]] - MaxDelay)
                         > requests[r].at} = AllowedBefore(r)
      <3>1. Span(r) = Window[RuleOf[r]] - MaxDelay
        BY <2>1 DEF Span
      <3> QED BY <2>1, <2>2, <3>1 DEF AllowedBefore
    <2> QED BY <2>1, <2>2 DEF RateInv, LimitsHold
  <1> QED BY <1>1, RateInvariant, PTL

\* Nobody is turned away below the limit, however often a script is sent,
\* unless the rule fails closed and Redis is out of reach.
THEOREM RefusalsAreAlwaysEarned == Spec => []RefusalsAreEarned
  <1>1. RateInv => RefusalsAreEarned
    BY DEF RateInv
  <1> QED BY <1>1, RateInvariant, PTL

=============================================================================
