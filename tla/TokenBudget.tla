---------------------------- MODULE TokenBudget ----------------------------
(***************************************************************************)
(* What a local rate limiter promises, without its bookkeeping: every      *)
(* client has a budget that grows with every tick up to a cap, and a       *)
(* request leaves the client only if the budget covers it.  RateLimiter,   *)
(* which computes the refill when it is asked and not when time passes,    *)
(* implements this specification.                                          *)
(*                                                                         *)
(* A request costs Window units and a tick earns Capacity units, so that   *)
(* Capacity requests are earned in Window ticks and no unit is split.      *)
(***************************************************************************)
EXTENDS Integers

CONSTANTS
    Clients,    \* clients, each with a limiter of its own
    Capacity,   \* RateLimitRule.requests
    Window,     \* RateLimitRule.window_seconds, in ticks
    MaxNow      \* bound on the clock

Cap == Capacity * Window

VARIABLES
    now,      \* the monotonic clock
    budget,   \* budget[c]: units client c may spend
    total,    \* total[c]: requests client c has sent
    mark      \* mark[c][t]: history: total[c] at the beginning of tick t

vars == <<now, budget, total, mark>>

AtMost(a, b) == IF a <= b THEN a ELSE b

Init ==
    /\ now = 0
    /\ budget = [c \in Clients |-> Cap]
    /\ total = [c \in Clients |-> 0]
    /\ mark = [c \in Clients |-> [t \in 0..MaxNow |-> 0]]

\* A tick passes and every budget grows.
Tick ==
    /\ now < MaxNow /\ now' = now + 1
    /\ budget' = [c \in Clients |-> AtMost(Cap, budget[c] + Capacity)]
    /\ mark' = [c \in Clients |-> [mark[c] EXCEPT ![now + 1] = total[c]]]
    /\ UNCHANGED total

\* A request leaves the client.
Spend(c) ==
    /\ budget[c] >= Window
    /\ budget' = [budget EXCEPT ![c] = @ - Window]
    /\ total' = [total EXCEPT ![c] = @ + 1]
    /\ UNCHANGED <<now, mark>>

Next == Tick \/ \E c \in Clients : Spend(c)

Spec == Init /\ [][Next]_vars

-----------------------------------------------------------------------------

\* Type invariant: a budget is neither overdrawn nor above its cap.
TypeOK ==
    /\ now \in 0..MaxNow
    /\ budget \in [Clients -> 0..Cap]
    /\ total \in [Clients -> Nat]
    /\ mark \in [Clients -> [0..MaxNow -> Nat]]

\* What has been spent since any earlier tick and what is left are covered by a
\* full bucket and the income since: the inductive form of WindowBound.
Accounted ==
    \A c \in Clients : \A t \in 0..now :
        Window * (total[c] - mark[c][t]) + budget[c] <= Cap + Capacity * (now - t)

\* In no window does a client send more than twice what its rule names: a bucket
\* that was full when the window began, and what is earned until it ends.
WindowBound ==
    \A c \in Clients : \A t \in 0..now :
        now - t <= Window => total[c] - mark[c][t] <= 2 * Capacity
=============================================================================
