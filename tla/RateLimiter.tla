---------------------------- MODULE RateLimiter ----------------------------
(***************************************************************************)
(* AsyncRateLimiter (exchanges/rate_limit.py), a token bucket that every   *)
(* REST client of a venue has for itself, and the calls that go through    *)
(* it: RestClient.request and PrivateRestExecutionClient._signed_request   *)
(* take a token before each of at most three attempts, and a refusal by    *)
(* the limiter counts as an attempt like an error of the venue.            *)
(*                                                                         *)
(* The bucket is refilled when it is asked, for the time since it was      *)
(* asked last.  acquire holds a lock and does not await inside it, so it   *)
(* is one step.  Units as in TokenBudget, which this module implements.    *)
(***************************************************************************)
EXTENDS Integers, FiniteSets

CONSTANTS
    Clients, Capacity, Window, MaxNow,   \* see TokenBudget
    Calls,        \* calls made in the course of a run
    MaxAttempts   \* stop_after_attempt

ASSUME LimiterAssumption ==
    /\ Capacity \in Nat \ {0} /\ Window \in Nat \ {0} /\ MaxNow \in Nat
    /\ MaxAttempts \in Nat \ {0}

VARIABLES
    now,      \* time.monotonic()
    tokens,   \* tokens[c]: TokenBucket.tokens of client c, in units
    updated,  \* updated[c]: TokenBucket.updated_at
    call,     \* call[r]: where call r stands, its client and its attempt
    total,    \* total[c]: requests client c has sent
    mark      \* mark[c][t]: history: total[c] at the beginning of tick t

bucketVars == <<tokens, updated>>
vars == <<now, tokens, updated, call, total, mark>>

Cap == Capacity * Window
AtMost(a, b) == IF a <= b THEN a ELSE b

\* RateLimitRule of a definition; a bucket starts full, and nothing has been called.
Init ==
    /\ now = 0
    /\ tokens = [c \in Clients |-> Cap]
    /\ updated = [c \in Clients |-> 0]
    /\ call \in [Calls -> [state : {"idle"}, client : Clients, attempt : {1}]]
    /\ total = [c \in Clients |-> 0]
    /\ mark = [c \in Clients |-> [t \in 0..MaxNow |-> 0]]

\* The clock behind the limiter.
Tick ==
    /\ now < MaxNow /\ now' = now + 1
    /\ mark' = [c \in Clients |-> [mark[c] EXCEPT ![now + 1] = total[c]]]
    /\ UNCHANGED <<bucketVars, call, total>>

\* The refill acquire computes first.
Refilled(c) == AtMost(Cap, tokens[c] + (now - updated[c]) * Capacity)

\* A retry that does not count its attempts.
AgainForever(r) == [call EXCEPT ![r].state = "waiting"]

\* tenacity: another attempt after a wait, or the error is raised.
Again(r) ==
    IF call[r].attempt < MaxAttempts
    THEN [call EXCEPT ![r].state = "waiting", ![r].attempt = @ + 1]
    ELSE [call EXCEPT ![r].state = "failed"]

\* The first attempt of a call, or the next one once its wait is over.
Ready(r) == call[r].state \in {"idle", "waiting"}

\* A token taken without moving updated_at: the same seconds refill again.
SendTwice(r) ==
    LET c == call[r].client
    IN  /\ Ready(r) /\ Refilled(c) >= Window
        /\ tokens' = [tokens EXCEPT ![c] = Refilled(c) - Window]
        /\ call' = [call EXCEPT ![r].state = "sent"]
        /\ total' = [total EXCEPT ![c] = @ + 1]
        /\ UNCHANGED <<now, updated, mark>>

\* acquire finds a token and the request is sent.
Send(r) ==
    LET c == call[r].client
    IN  /\ Ready(r) /\ Refilled(c) >= Window
        /\ tokens' = [tokens EXCEPT ![c] = Refilled(c) - Window]
        /\ updated' = [updated EXCEPT ![c] = now]
        /\ call' = [call EXCEPT ![r].state = "sent"]
        /\ total' = [total EXCEPT ![c] = @ + 1]
        /\ UNCHANGED <<now, mark>>

\* A refusal that loses the refill.
RefuseForgets(r) ==
    LET c == call[r].client
    IN  /\ Ready(r) /\ Refilled(c) < Window
        /\ updated' = [updated EXCEPT ![c] = now]
        /\ call' = Again(r)
        /\ UNCHANGED <<now, tokens, total, mark>>

\* acquire raises RateLimitExceededError; the refill is kept.
Refuse(r) ==
    LET c == call[r].client
    IN  /\ Ready(r) /\ Refilled(c) < Window
        /\ tokens' = [tokens EXCEPT ![c] = Refilled(c)]
        /\ updated' = [updated EXCEPT ![c] = now]
        /\ call' = Again(r)
        /\ UNCHANGED <<now, total, mark>>

\* The venue answers, or an error or a timeout is taken as a failed attempt.
Answer(r) ==
    /\ call[r].state = "sent"
    /\ \/ call' = [call EXCEPT ![r].state = "done"]
       \/ call' = Again(r)
    /\ UNCHANGED <<now, bucketVars, total, mark>>

\* Every call has ended and the clock stands at its bound.
Rest ==
    /\ now = MaxNow /\ \A r \in Calls : call[r].state \in {"done", "failed"}
    /\ UNCHANGED vars

Next == Tick \/ Rest \/ \E r \in Calls : Send(r) \/ Refuse(r) \/ Answer(r)

Spec == Init /\ [][Next]_vars

-----------------------------------------------------------------------------
(* Properties.                                                             *)

\* Type invariant.
TypeOK ==
    /\ now \in 0..MaxNow
    /\ tokens \in [Clients -> 0..Cap]
    /\ updated \in [Clients -> 0..now]
    /\ call \in [Calls -> [state : {"idle", "waiting", "sent", "done", "failed"},
                           client : Clients, attempt : 1..MaxAttempts]]
    /\ total \in [Clients -> Nat]
    /\ mark \in [Clients -> [0..MaxNow -> Nat]]

\* The bucket refilled on demand is one refilled with every tick: the budget of
\* TokenBudget is what acquire would find now.
Budget == INSTANCE TokenBudget WITH budget <- [c \in Clients |-> Refilled(c)]

\* Refinement: refusals, answers and waits change nothing, a request spends.
ImplementsBudget == Budget!Spec

\* In no window does one client send more than twice its rule, whatever the calls,
\* their retries and their refusals: see TokenBudget.
WindowBound == Budget!WindowBound

\* Call r has ended, in an answer or in an error.
Ended(r) == call[r].state \in {"done", "failed"}
=============================================================================
