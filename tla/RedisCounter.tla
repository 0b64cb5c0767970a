---------------------------- MODULE RedisCounter ----------------------------
(***************************************************************************)
(* RateLimitStorage.allow (redis/manager.py): requests are counted in one  *)
(* Redis key per window of time, by INCR; the request that finds the count *)
(* at one then sets the key's time to live.  The two commands are separate *)
(* round trips: other requests, the end of the window, the end of the      *)
(* key's life and the death of the process all fit in between.             *)
(*                                                                         *)
(* InMemoryRateLimitMiddleware (security/hardening.py) counts in the same  *)
(* way in a dictionary of the process, in one step and without expiry.     *)
(***************************************************************************)
EXTENDS Integers, FiniteSets

CONSTANTS
    Requests,   \* requests of one identity
    Limit,      \* limit
    Window,     \* window_seconds, in ticks
    Horizon     \* bound on the clock

ASSUME CounterAssumption ==
    Limit \in Nat \ {0} /\ Window \in Nat \ {0} /\ Horizon \in Nat /\ IsFiniteSet(Requests)

Buckets == 0..(Horizon \div Window)
Endless == -1  \* a key without time to live

VARIABLES
    clock,    \* time.time()
    hits,     \* hits[b]: the value of key rate:<key>:<b>; 0 is no key
    ttl,      \* ttl[b]: ticks the key has left, or Endless
    buckets,  \* buckets[b]: the middleware's dictionary
    request   \* request[r]: where it is, its limiter, its bucket, the count it got, and when it was made

counterVars == <<clock, hits, ttl, buckets, request>>

States == {"new", "named", "counted", "allowed", "refused", "dead"}

CounterInit ==
    /\ clock = 0
    /\ hits = [b \in Buckets |-> 0] /\ ttl = [b \in Buckets |-> Endless]
    /\ buckets = [b \in Buckets |-> 0]
    /\ request \in [Requests -> [state : {"new"}, limiter : {"redis", "memory"}, bucket : {0}, got : {0}, made : {0}]]

-----------------------------------------------------------------------------
(* RateLimitStorage.                                                       *)

\* The number of the current window.
Bucket == clock \div Window

\* allow names the key, with the time of now.
Name(r) ==
    /\ request[r].state = "new" /\ request[r].limiter = "redis"
    /\ request' = [request EXCEPT ![r] = [state |-> "named", limiter |-> "redis", bucket |-> Bucket, got |-> 0, made |-> clock]]
    /\ UNCHANGED <<clock, hits, ttl, buckets>>

\* Redis: INCR; a key that has expired starts again at one, without time to live.
Incr(r) ==
    LET b == request[r].bucket
    IN  /\ request[r].state = "named"
        /\ hits' = [hits EXCEPT ![b] = @ + 1]
        /\ request' = [request EXCEPT ![r] = [state |-> "counted", limiter |-> "redis", bucket |-> b,
                                              got |-> hits[b] + 1, made |-> request[r].made]]
        /\ UNCHANGED <<clock, ttl, buckets>>

\* count <= limit
Verdict(n) == IF n <= Limit THEN "allowed" ELSE "refused"

\* A time to live of half a window.
LifetimeHalf == Window \div 2

\* The second argument of EXPIRE.
LifetimeOfKey == Window

\* EXPIRE for the first of the window, and the answer.
Finish(r) ==
    LET b == request[r].bucket
    IN  /\ request[r].state = "counted"
        /\ ttl' = IF request[r].got = 1 /\ hits[b] > 0 THEN [ttl EXCEPT ![b] = LifetimeOfKey] ELSE ttl
        /\ request' = [request EXCEPT ![r].state = Verdict(request[r].got)]
        /\ UNCHANGED <<clock, hits, buckets>>

\* The process dies, or loses Redis, at any await.
Die(r) ==
    /\ request[r].state \in {"named", "counted"}
    /\ request' = [request EXCEPT ![r].state = "dead"]
    /\ UNCHANGED <<clock, hits, ttl, buckets>>

-----------------------------------------------------------------------------
(* The middleware.                                                         *)

\* InMemoryRateLimitMiddleware.dispatch
Dispatch(r) ==
    /\ request[r].state = "new" /\ request[r].limiter = "memory"
    /\ buckets' = [buckets EXCEPT ![Bucket] = @ + 1]
    /\ request' = [request EXCEPT ![r] = [state |-> Verdict(buckets[Bucket] + 1), limiter |-> "memory", bucket |-> Bucket,
                                          got |-> buckets[Bucket] + 1, made |-> clock]]
    /\ UNCHANGED <<clock, hits, ttl>>

\* Time passes; Redis drops the keys whose time is over.
ClockTick ==
    /\ clock < Horizon /\ clock' = clock + 1
    /\ ttl' = [b \in Buckets |-> IF ttl[b] = Endless \/ ttl[b] = 1 THEN Endless ELSE ttl[b] - 1]
    /\ hits' = [b \in Buckets |-> IF ttl[b] = 1 THEN 0 ELSE hits[b]]
    /\ UNCHANGED <<buckets, request>>

CounterRests == clock = Horizon /\ UNCHANGED counterVars

CounterNext == ClockTick \/ CounterRests \/ \E r \in Requests : Name(r) \/ Incr(r) \/ Finish(r) \/ Die(r) \/ Dispatch(r)

CounterSpec == CounterInit /\ [][CounterNext]_counterVars

-----------------------------------------------------------------------------
(* Properties.                                                             *)

\* Type invariant.
CounterTypeOK ==
    /\ clock \in 0..Horizon
    /\ hits \in [Buckets -> Nat] /\ ttl \in [Buckets -> Endless..Window] /\ buckets \in [Buckets -> Nat]
    /\ request \in [Requests -> [state : States, limiter : {"redis", "memory"}, bucket : Buckets,
                                 got : 0..Cardinality(Requests), made : 0..Horizon]]

\* The requests made in the same window as r, and to the same limiter.
Peers(r) == {s \in Requests : /\ request[s].state /= "new" /\ request[s].limiter = request[r].limiter
                              /\ request[s].made \div Window = request[r].made \div Window}

\* While a window lasts, at most Limit of its requests pass: no key is dropped in
\* its own window, whenever its time to live was set and by whom.
AtMostLimit ==
    \A r \in Requests :
        request[r].state = "allowed" /\ request[r].made \div Window = clock \div Window
            => Cardinality({s \in Peers(r) : request[s].state = "allowed"}) <= Limit

\* A request is refused only if Limit others were made in its own window: a key left
\* behind without time to live, by a process that died between INCR and EXPIRE,
\* never costs a later window anything.
RefusedOnlyFull ==
    \A r \in Requests : request[r].state = "refused" => Cardinality(Peers(r)) > Limit

\* The API's rate limit as a whole: neither more nor fewer pass than it says.
LimitExact == AtMostLimit /\ RefusedOnlyFull
=============================================================================
