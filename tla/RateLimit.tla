----------------------------- MODULE RateLimit ------------------------------
(***************************************************************************)
(* The rate limiter of the API: a guard in front of every route counts the *)
(* requests of a client under one rule.  The counters are sliding windows  *)
(* kept in Redis, shared by all API processes; when Redis fails, a process *)
(* counts in its own memory for a while, except for the rules that fail    *)
(* closed (AUTH_LOGIN).                                                    *)
(*                                                                         *)
(* A request reads the clock before its script travels to Redis, so Redis  *)
(* sees the clock readings late and out of order.  ioredis sends a script  *)
(* again, with the same arguments, when the connection breaks before its   *)
(* reply; the first copy may still be executed.                            *)
(*                                                                         *)
(* The counters of different clients share nothing, so one client is       *)
(* modelled; the cooldown of a process is shared by its rules.             *)
(***************************************************************************)
EXTENDS Naturals, FiniteSets

CONSTANTS
    Requests, Rules, Processes,
    RuleOf, ProcessOf,  \* the rule and the API process of a request
    FailClosed,         \* the rules that cannot fail open: AUTH_LOGIN
    Limit, Window,      \* of each rule
    Cooldown,           \* REDIS_FALLBACK_COOLDOWN_MS
    MemoryOnly,         \* RATE_LIMIT_STORE=memory
    MaxDelay,           \* how late a script, first or second copy, gets there
    MaxTime,            \* bound on the clock
    MaxRuns,            \* bound on the runs of Redis and of each process
    MaxRestarted,       \* bound on how many of them are restarted
    Redis, NoCounter

ASSUME RateLimitAssumption ==
    /\ RuleOf \in [Requests -> Rules]
    /\ ProcessOf \in [Requests -> Processes]
    /\ FailClosed \subseteq Rules
    /\ Limit \in [Rules -> Nat \ {0}]
    /\ Window \in [Rules -> Nat \ {0}]
    /\ {Cooldown, MaxDelay, MaxTime, MaxRuns, MaxRestarted} \subseteq Nat
    /\ \A rule \in Rules : MaxDelay < Window[rule]
    /\ MemoryOnly \in BOOLEAN
    /\ Redis \notin Processes
    /\ NoCounter \notin [keeper: Processes \cup {Redis}, run: Nat]

VARIABLES
    now,            \* the clock
    requests,
    bucket,         \* the sorted set of each rule in Redis: its members
    expires,        \* when Redis drops the set as a whole
    saved,          \* the last snapshot of Redis: both of these
    memory,         \* RateLimitMemoryStore.buckets of each process
    fallbackUntil,  \* redisFallbackUntil of each process
    runs            \* how often Redis and each process were started

vars ==
    <<now, requests, bucket, expires, saved, memory, fallbackUntil, runs>>

Keepers == Processes \cup {Redis}
Counters == [keeper: Keepers, run: Nat]

Request ==
    [pc: {"idle", "waiting", "allowed", "refused", "gone"},
     sent: Nat,     \* the clock reading its script carries, its score in Redis
     at: Nat,       \* the clock reading it was judged by
     copies: Nat,   \* its scripts on their way to Redis
     resent: BOOLEAN,
     counter: Counters \cup {NoCounter}] \* who judged it

Idle == [pc |-> "idle", sent |-> 0, at |-> 0, copies |-> 0, resent |-> FALSE,
         counter |-> NoCounter]

Init ==
    /\ now = 1
    /\ requests = [r \in Requests |-> Idle]
    /\ bucket = [rule \in Rules |-> {}]
    /\ expires = [rule \in Rules |-> 0]
    /\ saved = [bucket |-> bucket, expires |-> expires]
    /\ memory = [p \in Processes |-> [rule \in Rules |-> {}]]
    /\ fallbackUntil = [p \in Processes |-> 0]
    /\ runs = [k \in Keepers |-> 1]

-----------------------------------------------------------------------------
(* Counting in memory: RateLimitMemoryStore.consume *)

MemoryHits(p, rule) ==
    {q \in memory[p][rule] : requests[q].at + Window[rule] > now}

CountInMemory(r) ==
    LET p == ProcessOf[r]
        rule == RuleOf[r]
        room == Cardinality(MemoryHits(p, rule)) < Limit[rule]
    IN  /\ memory' = [memory EXCEPT ![p][rule] =
                        MemoryHits(p, rule) \cup (IF room THEN {r} ELSE {})]
        /\ requests' = [requests EXCEPT
                          ![r].pc = IF room THEN "allowed" ELSE "refused",
                          ![r].at = now,
                          ![r].counter = [keeper |-> p, run |-> runs[p]]]

-----------------------------------------------------------------------------
(* Counting in Redis: RATE_LIMIT_LUA_SCRIPT *)

\* Mutant: the set is never trimmed, only dropped by its expiry.
RedisHitsUntrimmed(r) ==
    {q \in bucket[RuleOf[r]] : now < expires[RuleOf[r]]}

\* What the set holds after ZREMRANGEBYSCORE with the clock reading of r.
RedisHits(r) ==
    LET rule == RuleOf[r]
    IN  {q \in bucket[rule] :
            /\ now < expires[rule]
            /\ requests[q].sent + Window[rule] > requests[r].sent}

\* Mutant: 'count > limit'.
HasRoomForOneMore(r) == Cardinality(RedisHits(r)) <= Limit[RuleOf[r]]

HasRoom(r) == Cardinality(RedisHits(r)) < Limit[RuleOf[r]]

\* The script runs as one step.  Adding a member twice changes nothing.
RunScript(r) ==
    /\ requests[r].copies > 0
    /\ bucket' = [bucket EXCEPT ![RuleOf[r]] =
                    RedisHits(r) \cup (IF HasRoom(r) THEN {r} ELSE {})]
    /\ expires' = [expires EXCEPT ![RuleOf[r]] = now + Window[RuleOf[r]]]

-----------------------------------------------------------------------------
(* A request: consume, consumeFromStore *)

\* Mutant: the cooldown pulls every rule into memory.
UsesMemoryForAll(r) == MemoryOnly \/ now < fallbackUntil[ProcessOf[r]]

UsesMemory(r) ==
    \/ MemoryOnly
    \/ RuleOf[r] \notin FailClosed /\ now < fallbackUntil[ProcessOf[r]]

ConsumeInMemory(r) ==
    /\ requests[r].pc = "idle"
    /\ UsesMemory(r)
    /\ CountInMemory(r)
    /\ UNCHANGED <<now, bucket, expires, saved, fallbackUntil, runs>>

ConsumeInRedis(r) ==
    /\ requests[r].pc = "idle"
    /\ ~UsesMemory(r)
    /\ requests' = [requests EXCEPT ![r].pc = "waiting", ![r].copies = 1,
                                    ![r].sent = now, ![r].at = now]
    /\ UNCHANGED <<now, bucket, expires, saved, memory, fallbackUntil, runs>>

\* The script runs and the request that waits for it gets the reply.
Answer(r) ==
    /\ requests[r].pc = "waiting"
    /\ RunScript(r)
    /\ requests' = [requests EXCEPT
                      ![r].pc = IF HasRoom(r) THEN "allowed" ELSE "refused",
                      ![r].copies = @ - 1,
                      ![r].counter = [keeper |-> Redis, run |-> runs[Redis]]]
    /\ UNCHANGED <<now, saved, memory, fallbackUntil, runs>>

\* The script runs, but its reply is lost or nobody waits for it any more.
RunUnheard(r) ==
    /\ RunScript(r)
    /\ requests' = [requests EXCEPT ![r].copies = @ - 1]
    /\ UNCHANGED <<now, saved, memory, fallbackUntil, runs>>

LoseScript(r) ==
    /\ requests[r].copies > 0
    /\ requests' = [requests EXCEPT ![r].copies = @ - 1]
    /\ UNCHANGED <<now, bucket, expires, saved, memory, fallbackUntil, runs>>

\* maxRetriesPerRequest: 1.  The second copy carries the first clock reading.
Resend(r) ==
    /\ requests[r].pc = "waiting"
    /\ ~requests[r].resent
    /\ now <= requests[r].sent + MaxDelay
    /\ requests' = [requests EXCEPT ![r].resent = TRUE, ![r].copies = @ + 1]
    /\ UNCHANGED <<now, bucket, expires, saved, memory, fallbackUntil, runs>>

\* redisStore.consume rejects.  A rule that fails closed refuses; any other
\* starts the cooldown of its process and counts in its memory.
RefuseUncounted(r) ==
    /\ requests[r].pc = "waiting"
    /\ RuleOf[r] \in FailClosed
    /\ requests' = [requests EXCEPT ![r].pc = "refused"]
    /\ UNCHANGED <<now, bucket, expires, saved, memory, fallbackUntil, runs>>

FallBack(r) ==
    /\ requests[r].pc = "waiting"
    /\ RuleOf[r] \notin FailClosed
    /\ fallbackUntil' = [fallbackUntil EXCEPT ![ProcessOf[r]] = now + Cooldown]
    /\ CountInMemory(r)
    /\ UNCHANGED <<now, bucket, expires, saved, runs>>

-----------------------------------------------------------------------------
(* The world around it *)

\* No script is on its way for longer than MaxDelay.
Tick ==
    /\ now < MaxTime
    /\ \A r \in Requests :
          requests[r].copies > 0 => now < requests[r].sent + MaxDelay
    /\ now' = now + 1
    /\ UNCHANGED
         <<requests, bucket, expires, saved, memory, fallbackUntil, runs>>

MayRestart(k) ==
    /\ runs[k] < MaxRuns
    /\ Cardinality({j \in Keepers : runs[j] > 1} \cup {k}) <= MaxRestarted

\* A snapshot that no restart reads is no state.
SaveRedis ==
    /\ MayRestart(Redis)
    /\ saved' = [bucket |-> bucket, expires |-> expires]
    /\ UNCHANGED
         <<now, requests, bucket, expires, memory, fallbackUntil, runs>>

\* Redis comes back with its last snapshot.
RestartRedis ==
    /\ MayRestart(Redis)
    /\ bucket' = saved.bucket
    /\ expires' = saved.expires
    /\ runs' = [runs EXCEPT ![Redis] = @ + 1]
    /\ UNCHANGED <<now, requests, saved, memory, fallbackUntil>>

\* A process comes back with empty counters; its requests are gone, their
\* scripts may still arrive.
RestartProcess(p) ==
    /\ MayRestart(p)
    /\ memory' = [memory EXCEPT ![p] = [rule \in Rules |-> {}]]
    /\ fallbackUntil' = [fallbackUntil EXCEPT ![p] = 0]
    /\ runs' = [runs EXCEPT ![p] = @ + 1]
    /\ requests' = [r \in Requests |->
                      IF ProcessOf[r] = p /\ requests[r].pc = "waiting"
                      THEN [requests[r] EXCEPT !.pc = "gone"]
                      ELSE requests[r]]
    /\ UNCHANGED <<now, bucket, expires, saved>>

RequestStep(r) ==
    \/ ConsumeInMemory(r) \/ ConsumeInRedis(r)
    \/ Answer(r) \/ RunUnheard(r) \/ LoseScript(r)
    \/ Resend(r) \/ RefuseUncounted(r) \/ FallBack(r)

Next ==
    \/ \E r \in Requests : RequestStep(r)
    \/ Tick
    \/ SaveRedis \/ RestartRedis
    \/ \E p \in Processes : RestartProcess(p)

Spec == Init /\ [][Next]_vars

-----------------------------------------------------------------------------
(* Properties *)

TypeOK ==
    /\ now \in Nat
    /\ requests \in [Requests -> Request]
    /\ bucket \in [Rules -> SUBSET Requests]
    /\ expires \in [Rules -> Nat]
    /\ saved \in [bucket: [Rules -> SUBSET Requests], expires: [Rules -> Nat]]
    /\ memory \in [Processes -> [Rules -> SUBSET Requests]]
    /\ fallbackUntil \in [Processes -> Nat]
    /\ runs \in [Keepers -> Nat]

Allowed(r) == requests[r].pc = "allowed"

\* How much of the window a counter vouches for: scripts that arrive late and
\* out of order cost Redis the length of the delay.
Span(r) ==
    IF requests[r].counter.keeper = Redis
    THEN Window[RuleOf[r]] - MaxDelay
    ELSE Window[RuleOf[r]]

\* The requests the counter of r let pass in the span that ends with r.
AllowedBefore(r) ==
    {q \in Requests :
        /\ Allowed(q)
        /\ RuleOf[q] = RuleOf[r]
        /\ requests[q].counter = requests[r].counter
        /\ requests[q].at <= requests[r].at
        /\ requests[q].at + Span(r) > requests[r].at}

\* However the scripts are delayed, doubled, lost or overtaken, and although
\* trimming and expiry forget hits, no counter lets more than the limit pass in
\* any span of its window.
CountersKeepTheLimit ==
    \A r \in Requests :
        Allowed(r) => Cardinality(AllowedBefore(r)) <= Limit[RuleOf[r]]

\* A login is never counted in memory, whichever rule started the cooldown; so,
\* as long as Redis keeps its data, all the processes together let no more than
\* the limit pass, through their restarts and every outage of Redis.
LoginsKeepTheLimit ==
    ~MemoryOnly =>
        \A r \in Requests :
            RuleOf[r] \in FailClosed /\ Allowed(r) =>
                /\ requests[r].counter.keeper = Redis
                /\ runs[Redis] = 1 =>
                      Cardinality({q \in Requests :
                          /\ Allowed(q)
                          /\ RuleOf[q] = RuleOf[r]
                          /\ requests[q].at <= requests[r].at
                          /\ requests[q].at + (Window[RuleOf[r]] - MaxDelay)
                               > requests[r].at})
                        <= Limit[RuleOf[r]]

\* A refused request that left no hit: Redis refused the one script of it that
\* ran, or it never had a script and found no room in memory.
TurnedAway(q) ==
    /\ requests[q].pc = "refused"
    /\ requests[q].counter # NoCounter
    /\ IF requests[q].counter.keeper = Redis THEN ~requests[q].resent
       ELSE requests[q].sent = 0

OnItsWay(q) ==
    requests[q].pc = "waiting" /\ ~requests[q].resent /\ requests[q].copies = 1

\* The requests of the rule of r, in its window, that may have left a hit.
CountedWithin(r) ==
    {q \in Requests :
        /\ requests[q].pc # "idle" /\ ~OnItsWay(q) /\ ~TurnedAway(q)
        /\ RuleOf[q] = RuleOf[r]
        /\ requests[q].at + Window[RuleOf[r]] > requests[r].at}

\* A request is turned away only with the limit reached within its window,
\* where a script that runs twice counts once and a refusal does not count, or,
\* under a rule that fails closed, with Redis out of reach.
RefusalsAreEarned ==
    \A r \in Requests :
        requests[r].pc = "refused" =>
            IF requests[r].counter = NoCounter THEN RuleOf[r] \in FailClosed
            ELSE Cardinality(CountedWithin(r)) >= Limit[RuleOf[r]]

=============================================================================
