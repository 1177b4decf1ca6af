---------------------------- MODULE RateLimiter ----------------------------
(***************************************************************************)
(* The sliding window every API and MCP request passes.  It is kept in     *)
(* Redis, where a request is an entry named by its millisecond, and, once  *)
(* Redis has failed, for good in the memory of the process.                *)
(***************************************************************************)
EXTENDS Integers, Sequences, FiniteSets, SequencesExt

CONSTANTS Keys,       \* an address, a token or an API key
          Limit,      \* requests in a window
          Window,
          MaxKeys,    \* _IN_MEMORY_MAX_KEYS
          MaxNow      \* bound: the clock

ASSUME LimiterAssumption == /\ Limit \in Nat /\ Window \in Nat \ {0}
                            /\ MaxKeys \in Nat \ {0} /\ MaxNow \in Nat

VARIABLES now,
          zset,       \* key -> milliseconds, in Redis
          store,      \* tracked key -> the times of its requests, in memory
          down,       \* Redis has failed once
          granted     \* history: what was let through, and by which window

limiterVars == <<zset, store, down, granted>>

TypeOKLimiter ==
    /\ now \in 0..MaxNow
    /\ zset \in [Keys -> SUBSET (0..MaxNow)]
    /\ DOMAIN store \subseteq Keys /\ \A k \in DOMAIN store : store[k] \in Seq(0..MaxNow)
    /\ down \in BOOLEAN
    /\ granted \subseteq [key : Keys, at : 0..MaxNow, by : {"redis", "memory"}, nth : Nat]

InitLimiter(start) ==
    /\ now = start /\ down = FALSE /\ granted = {}
    /\ zset = [k \in Keys |-> {}] /\ store = <<>>

Tick ==
    /\ now < MaxNow /\ now' = now + 1
    /\ UNCHANGED limiterVars

(* A request let through; those of one key and one instant are numbered.   *)
Granted(k, by) ==
    [key |-> k, at |-> now, by |-> by,
     nth |-> Cardinality({g \in granted : g.key = k /\ g.at = now /\ g.by = by})]

----------------------------------------------------------------------------
(* Redis                                                                   *)

(* The entries of the window, this request's included.                     *)
Entries(k) == {t \in zset[k] : t > now - Window} \cup {now}

get_remaining(k) == IF Limit > Cardinality(Entries(k)) THEN Limit - Cardinality(Entries(k)) ELSE 0

(* Mutant of redis_allows: none left is still let through.                 *)
redis_allows_zero(k) == get_remaining(k) >= 0

redis_allows(k) == get_remaining(k) > 0

(* A refused request is entered all the same.                              *)
RedisCheck(k, ok) ==
    /\ ~down /\ ok = redis_allows(k)
    /\ zset' = [zset EXCEPT ![k] = Entries(k)]
    /\ granted' = granted \cup (IF ok THEN {Granted(k, "redis")} ELSE {})
    /\ UNCHANGED <<now, store, down>>

----------------------------------------------------------------------------
(* Memory                                                                  *)

(* Requests are entered as they come, so the recent ones are the last.     *)
Recent(times) ==
    LET recent == {i \in DOMAIN times : now - times[i] < Window}
    IN IF recent = {} THEN <<>> ELSE SubSeq(times, Min(recent), Len(times))

(* Mutant of AtCap: the store is pruned one key late.                      *)
AtCapLate(tracked) == Cardinality(tracked) > MaxKeys

AtCap(tracked) == Cardinality(tracked) >= MaxKeys

(* The keys a new one may find tracked: at the cap those whose window has  *)
(* passed go, and if that is not enough the least recent, down to half.    *)
prune_store ==
    LET tracked == DOMAIN store
        fresh == {k \in tracked : Recent(store[k]) # <<>>}
        LastUse(k) == store[k][Len(store[k])]
    IN IF ~AtCap(tracked) THEN {tracked}
       ELSE IF ~AtCap(fresh) THEN {fresh}
       ELSE {kept \in SUBSET fresh : /\ Cardinality(kept) = MaxKeys \div 2
                                     /\ \A k \in kept, l \in fresh \ kept : LastUse(k) >= LastUse(l)}

MemoryCheck(k, ok) ==
    /\ UNCHANGED <<now, zset>>
    /\ \E kept \in (IF k \in DOMAIN store THEN {DOMAIN store} ELSE prune_store) :
          LET times == IF k \in DOMAIN store THEN Recent(store[k]) ELSE <<>>
              Forgotten(g) == g.by = "memory" /\ g.key \in DOMAIN store \ kept
          IN /\ ok = (Len(times) < Limit)
             /\ store' = [l \in kept \cup {k} |-> IF l # k THEN store[l]
                                                 ELSE IF ok THEN Append(times, now) ELSE times]
             /\ granted' = {g \in granted : ~Forgotten(g)} \cup (IF ok THEN {Granted(k, "memory")} ELSE {})

(* One call that raises is enough to leave Redis for good.                 *)
RedisFails(k, ok) == ~down /\ down' = TRUE /\ MemoryCheck(k, ok)

FallenBack(k, ok) == down /\ UNCHANGED down /\ MemoryCheck(k, ok)

is_allowed(k, ok, answers) ==
    \/ answers /\ RedisCheck(k, ok)
    \/ ~answers /\ RedisFails(k, ok)
    \/ FallenBack(k, ok)

----------------------------------------------------------------------------
(* Properties                                                              *)

InWindow(g, k, t, by) == g.key = k /\ g.by = by /\ g.at <= t /\ t - g.at < Window

(* No window of either store lets more than the limit through for one key: *)
(* in Redis more than Limit milliseconds with a request, in memory more    *)
(* than Limit requests, unless the key was evicted meanwhile               *)
(* (get_remaining, RateLimitMiddleware._is_allowed).                       *)
RateBound ==
    \A k \in Keys, t \in 0..now :
        /\ Cardinality({g.at : g \in {h \in granted : InWindow(h, k, t, "redis")}}) <= Limit
        /\ Cardinality({g \in granted : InWindow(g, k, t, "memory")}) <= Limit

(* However many different keys arrive while Redis is away, the process     *)
(* tracks no more of them than the cap (_prune_store).                     *)
StoreBounded == Cardinality(DOMAIN store) <= MaxKeys
=============================================================================
