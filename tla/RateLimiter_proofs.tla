------------------------- MODULE RateLimiter_proofs -------------------------
(***************************************************************************)
(* Proofs about RateLimiter for any clients, rule, calls and clock: types, *)
(* the refinement of TokenBudget, and the bound on the requests of a       *)
(* window, which follows from an account of all units earned and spent.    *)
(***************************************************************************)
EXTENDS RateLimiter, TLAPS

States == {"idle", "waiting", "sent", "done", "failed"}
CallType == [state : States, client : Clients, attempt : 1..MaxAttempts]

\* A cap and a product of naturals are naturals.
LEMMA CapNat == Cap \in Nat
BY LimiterAssumption, SMT DEF LimiterAssumption, Cap

\* What a tick adds to a product with the elapsed time.
LEMMA OneMore ==
    ASSUME NEW k \in Nat, NEW d \in Int
    PROVE  (d + 1) * k = d * k + k
BY SMT

\* A smaller product has a smaller factor.
LEMMA Cancel ==
    ASSUME NEW w \in Nat \ {0}, NEW x \in Int, NEW b \in Int, w * x <= w * b
    PROVE  x <= b
<1>1. SUFFICES ASSUME x >= b + 1 PROVE FALSE
  BY SMT
<1>2. w * x >= w * (b + 1)
  BY <1>1, SMT
<1>3. w * (b + 1) = w * b + w
  BY SMT
<1> QED
  BY <1>2, <1>3, SMT

\* The refill lies between nothing and the cap.
LEMMA RefilledType ==
    ASSUME TypeOK, NEW c \in Clients
    PROVE  /\ Refilled(c) \in 0..Cap
           /\ Refilled(c) \in Int
<1>1. now - updated[c] \in Nat /\ tokens[c] \in 0..Cap
  BY SMT DEF TypeOK
<1>2. (now - updated[c]) * Capacity \in Nat
  BY <1>1, LimiterAssumption, SMT DEF LimiterAssumption
<1> QED
  BY <1>1, <1>2, CapNat, SMT DEF Refilled, AtMost

\* The next attempt keeps a call a call.
LEMMA AgainType ==
    ASSUME TypeOK, NEW r \in Calls
    PROVE  Again(r) \in [Calls -> CallType]
<1>1. call \in [Calls -> CallType] /\ call[r] \in CallType
  BY DEF TypeOK, CallType, States
<1>2. call[r].attempt \in 1..MaxAttempts /\ MaxAttempts \in Nat
  BY <1>1, LimiterAssumption DEF CallType, LimiterAssumption
<1>3. CASE call[r].attempt < MaxAttempts
  <2>1. call[r].attempt + 1 \in 1..MaxAttempts
    BY <1>2, <1>3, SMT
  <2>2. [[call[r] EXCEPT !.state = "waiting"] EXCEPT !.attempt = @ + 1] \in CallType
    BY <1>1, <2>1 DEF CallType, States
  <2> QED
    BY <1>1, <1>3, <2>1 DEF Again, CallType, States
<1>4. CASE ~(call[r].attempt < MaxAttempts)
  BY <1>1, <1>4 DEF Again, CallType, States
<1> QED
  BY <1>3, <1>4

-----------------------------------------------------------------------------

\* Type correctness of the limiter and its calls: no bucket is overdrawn or above
\* its cap, and none was asked later than now (AsyncRateLimiter.acquire).
THEOREM TypeCorrect == Spec => []TypeOK
<1> USE LimiterAssumption DEF LimiterAssumption
<1>1. Init => TypeOK
  <2> SUFFICES ASSUME Init PROVE TypeOK
    OBVIOUS
  <2>1. now \in 0..MaxNow /\ tokens \in [Clients -> 0..Cap] /\ updated \in [Clients -> 0..now]
    BY CapNat, SMT DEF Init
  <2>2. call \in [Calls -> [state : States, client : Clients, attempt : 1..MaxAttempts]]
    BY SMT DEF Init, States
  <2>3. total \in [Clients -> Nat] /\ mark \in [Clients -> [0..MaxNow -> Nat]]
    BY SMT DEF Init
  <2> QED
    BY <2>1, <2>2, <2>3 DEF TypeOK, States
<1>2. TypeOK /\ [Next]_vars => TypeOK'
  <2> SUFFICES ASSUME TypeOK, [Next]_vars PROVE TypeOK'
    OBVIOUS
  <2>1. CASE Tick
    <3>1. now' \in 0..MaxNow /\ now' = now + 1 /\ UNCHANGED <<tokens, updated, call, total>>
      BY <2>1, SMT DEF TypeOK, Tick, bucketVars
    <3>2. updated' \in [Clients -> 0..now']
      BY <3>1, SMT DEF TypeOK
    <3>3. mark' \in [Clients -> [0..MaxNow -> Nat]]
      BY <2>1, SMT DEF TypeOK, Tick
    <3> QED
      BY <3>1, <3>2, <3>3 DEF TypeOK
  <2>2. ASSUME NEW r \in Calls, Send(r) PROVE TypeOK'
    <3> DEFINE c == call[r].client
    <3>1. c \in Clients /\ Refilled(c) \in 0..Cap /\ Refilled(c) >= Window
      BY <2>2, RefilledType DEF TypeOK, Send
    <3>2. Refilled(c) - Window \in 0..Cap
      BY <3>1, CapNat, SMT
    <3>3. tokens' \in [Clients -> 0..Cap]
      BY <2>2, <3>1, <3>2 DEF TypeOK, Send
    <3>4. updated' \in [Clients -> 0..now'] /\ now' = now /\ mark' = mark
      BY <2>2, <3>1, SMT DEF TypeOK, Send
    <3>5. call' \in [Calls -> CallType]
      BY <2>2 DEF TypeOK, Send, CallType, States
    <3>6. total' \in [Clients -> Nat]
      BY <2>2, <3>1, SMT DEF TypeOK, Send
    <3> QED
      BY <3>3, <3>4, <3>5, <3>6 DEF TypeOK, CallType, States
  <2>3. ASSUME NEW r \in Calls, Refuse(r) PROVE TypeOK'
    <3> DEFINE c == call[r].client
    <3>1. c \in Clients /\ Refilled(c) \in 0..Cap
      BY <2>3, RefilledType DEF TypeOK
    <3>2. tokens' \in [Clients -> 0..Cap]
      BY <2>3, <3>1 DEF TypeOK, Refuse
    <3>3. updated' \in [Clients -> 0..now'] /\ now' = now /\ mark' = mark /\ total' = total
      BY <2>3, <3>1, SMT DEF TypeOK, Refuse
    <3>4. call' \in [Calls -> CallType]
      BY <2>3, AgainType DEF Refuse
    <3> QED
      BY <3>2, <3>3, <3>4 DEF TypeOK, CallType, States
  <2>4. ASSUME NEW r \in Calls, Answer(r) PROVE TypeOK'
    <3>1. call' \in [Calls -> CallType]
      <4>1. CASE call' = Again(r)
        BY <4>1, AgainType
      <4>2. CASE call' = [call EXCEPT ![r].state = "done"]
        BY <4>2 DEF TypeOK, CallType, States
      <4> QED
        BY <2>4, <4>1, <4>2 DEF Answer
    <3> QED
      BY <2>4, <3>1 DEF TypeOK, Answer, bucketVars, CallType, States
  <2>5. CASE Rest \/ UNCHANGED vars
    BY <2>5 DEF TypeOK, Rest, vars
  <2> QED
    BY <2>1, <2>2, <2>3, <2>4, <2>5 DEF Next
<1> QED
  BY <1>1, <1>2, PTL DEF Spec

-----------------------------------------------------------------------------

\* The budget of the refinement mapping.
Mapped == [c \in Clients |-> Refilled(c)]

\* A tick of the clock raises every refill by the income of a tick, up to the cap.
LEMMA TickRefills ==
    ASSUME TypeOK, Tick, NEW c \in Clients
    PROVE  Refilled(c)' = AtMost(Cap, Refilled(c) + Capacity)
<1> DEFINE d == now - updated[c]
<1>1. d \in Nat /\ tokens[c] \in 0..Cap /\ now \in Nat /\ updated[c] \in Nat
  BY SMT DEF TypeOK
<1>2. now' = now + 1 /\ tokens' = tokens /\ updated' = updated
  BY DEF Tick, bucketVars
<1>3. now' - updated'[c] = d + 1
  BY <1>1, <1>2, SMT
<1>4. Capacity \in Nat /\ d * Capacity \in Nat /\ (d + 1) * Capacity = d * Capacity + Capacity
  BY <1>1, LimiterAssumption, OneMore, SMT DEF LimiterAssumption
<1>5. Refilled(c)' = AtMost(Cap, tokens[c] + (d + 1) * Capacity)
  BY <1>2, <1>3 DEF Refilled, AtMost, Cap
<1>6. Refilled(c) = AtMost(Cap, tokens[c] + d * Capacity)
  BY DEF Refilled
<1> HIDE DEF d
<1> QED
  BY <1>1, <1>4, <1>5, <1>6, CapNat, SMT DEF AtMost

\* Storing the refill, less what was spent of it, leaves that to be found now.
LEMMA StoredRefill ==
    ASSUME TypeOK, NEW c \in Clients, NEW b \in 0..Cap, now' = now,
           tokens'[c] = b, updated'[c] = now
    PROVE  Refilled(c)' = b
<1>1. now \in Nat /\ Capacity \in Nat
  BY LimiterAssumption, SMT DEF TypeOK, LimiterAssumption
<1>2. (now' - updated'[c]) * Capacity = 0
  BY <1>1, SMT
<1>3. Refilled(c)' = AtMost(Cap, b + 0)
  BY <1>2 DEF Refilled, AtMost, Cap
<1> QED
  BY <1>3, CapNat, SMT DEF AtMost

\* A step that leaves a bucket and the clock alone leaves its refill.
LEMMA SameRefill ==
    ASSUME NEW c \in Clients, now' = now, tokens'[c] = tokens[c], updated'[c] = updated[c]
    PROVE  Refilled(c)' = Refilled(c)
BY DEF Refilled, AtMost, Cap

\* Every step of the limiter is a step of the budget or leaves it alone.
LEMMA Simulates ==
    ASSUME TypeOK, [Next]_vars
    PROVE  [Budget!Next]_Budget!vars
<1> USE LimiterAssumption DEF LimiterAssumption
<1>1. CASE Tick
  <2>1. Mapped' = [c \in Clients |-> AtMost(Cap, Mapped[c] + Capacity)]
    BY <1>1, TickRefills DEF Mapped
  <2>2. Budget!Tick
    BY <1>1, <2>1 DEF Tick, Mapped, Budget!Tick, Budget!AtMost, Budget!Cap, AtMost, Cap
  <2> QED
    BY <2>2 DEF Budget!Next
<1>2. ASSUME NEW r \in Calls, Send(r) PROVE Budget!Next
  <2>0. PICK c \in Clients : c = call[r].client
    BY DEF TypeOK
  <2>1. c \in Clients /\ Refilled(c) \in 0..Cap /\ Refilled(c) >= Window
    BY <1>2, <2>0, RefilledType DEF Send
  <2>2. Refilled(c) - Window \in 0..Cap
    BY <2>1, CapNat, SMT
  <2>3. now' = now /\ tokens'[c] = Refilled(c) - Window /\ updated'[c] = now
    BY <1>2, <2>0, <2>1 DEF TypeOK, Send
  <2>4. Refilled(c)' = Refilled(c) - Window
    BY <2>1, <2>2, <2>3, StoredRefill
  <2>5. ASSUME NEW e \in Clients, e # c PROVE Refilled(e)' = Refilled(e)
    <3>1. tokens'[e] = tokens[e] /\ updated'[e] = updated[e] /\ now' = now
      BY <1>2, <2>0, <2>5 DEF TypeOK, Send
    <3> QED
      BY <3>1, SameRefill
  <2>6. Mapped' = [Mapped EXCEPT ![c] = Mapped[c] - Window]
    BY <2>1, <2>4, <2>5 DEF Mapped
  <2>7. Budget!Spend(c)
    BY <1>2, <2>0, <2>1, <2>6 DEF Send, Mapped, Budget!Spend
  <2> QED
    BY <2>1, <2>7 DEF Budget!Next
<1>3. ASSUME NEW r \in Calls, Refuse(r) PROVE UNCHANGED Budget!vars
  <2>0. PICK c \in Clients : c = call[r].client
    BY DEF TypeOK
  <2>1. c \in Clients /\ Refilled(c) \in 0..Cap
    BY <1>3, <2>0, RefilledType
  <2>2. now' = now /\ tokens'[c] = Refilled(c) /\ updated'[c] = now
    BY <1>3, <2>0, <2>1 DEF TypeOK, Refuse
  <2>3. Refilled(c)' = Refilled(c)
    BY <2>1, <2>2, StoredRefill
  <2>4. ASSUME NEW e \in Clients, e # c PROVE Refilled(e)' = Refilled(e)
    <3>1. tokens'[e] = tokens[e] /\ updated'[e] = updated[e] /\ now' = now
      BY <1>3, <2>0, <2>4 DEF TypeOK, Refuse
    <3> QED
      BY <3>1, SameRefill
  <2>5. Mapped' = Mapped
    BY <2>3, <2>4 DEF Mapped
  <2> QED
    BY <1>3, <2>5 DEF Refuse, Mapped, Budget!vars
<1>4. ASSUME UNCHANGED <<now, tokens, updated, total, mark>> PROVE UNCHANGED Budget!vars
  <2>1. Mapped' = Mapped
    BY <1>4, SameRefill DEF Mapped
  <2> QED
    BY <1>4, <2>1 DEF Mapped, Budget!vars
<1>5. ASSUME NEW r \in Calls, Answer(r) PROVE UNCHANGED Budget!vars
  BY <1>4, <1>5 DEF Answer, bucketVars
<1>6. CASE Rest \/ UNCHANGED vars
  BY <1>4, <1>6 DEF Rest, vars
<1> QED
  BY <1>1, <1>2, <1>3, <1>5, <1>6 DEF Next

\* Refinement: the bucket AsyncRateLimiter refills when it is asked is one that is
\* refilled as time passes; whatever calls, refusals and retries do, the limiter
\* takes only steps of TokenBudget.
THEOREM Refinement == Spec => ImplementsBudget
<1> USE LimiterAssumption DEF LimiterAssumption
<1>1. Init => Budget!Init
  <2> SUFFICES ASSUME Init PROVE Budget!Init
    OBVIOUS
  <2>1. ASSUME NEW c \in Clients PROVE Refilled(c) = Cap
    <3>1. now - updated[c] = 0 /\ tokens[c] = Cap
      BY SMT DEF Init
    <3>2. (now - updated[c]) * Capacity = 0
      BY <3>1, SMT
    <3> QED
      BY <3>1, <3>2, CapNat, SMT DEF Refilled, AtMost
  <2>2. Mapped = [c \in Clients |-> Cap]
    BY <2>1 DEF Mapped
  <2> QED
    BY <2>2 DEF Init, Mapped, Budget!Init, Budget!Cap, Cap
<1>2. TypeOK /\ [Next]_vars => [Budget!Next]_Budget!vars
  BY Simulates
<1> QED
  BY <1>1, <1>2, TypeCorrect, PTL DEF Spec, ImplementsBudget, Budget!Spec

-----------------------------------------------------------------------------

\* The units spent since a tick and the units left are covered by a full bucket and
\* the income since that tick, before and after every step.
LEMMA AccountKept ==
    ASSUME TypeOK, TypeOK', Budget!Accounted, [Next]_vars
    PROVE  Budget!Accounted'
<1> DEFINE Spent(c, t) == Window * (total[c] - mark[c][t])
           Income(t)   == Capacity * (now - t)
<1> USE LimiterAssumption DEF LimiterAssumption
<1>1. SUFFICES ASSUME NEW c \in Clients, NEW t \in 0..now'
               PROVE  (Spent(c, t) + Mapped[c])' <= Cap + Income(t)'
  BY DEF Budget!Accounted, Budget!Cap, Cap, Mapped
<1>2. /\ Capacity \in Nat /\ Window \in Nat /\ Cap \in Nat
      /\ now \in Nat /\ now' \in Nat /\ t \in Nat
      /\ total[c] \in Nat
      /\ \A u \in 0..now : mark[c][u] \in Nat
      /\ Mapped[c] \in 0..Cap /\ Mapped'[c] \in 0..Cap
  <2>1. Mapped[c] \in 0..Cap
    BY RefilledType DEF Mapped
  <2>2. Refilled(c)' \in 0..Cap
    <3>1. now' - updated'[c] \in Nat /\ tokens'[c] \in 0..Cap
      BY SMT DEF TypeOK, Cap
    <3>2. (now' - updated'[c]) * Capacity \in Nat
      BY <3>1, SMT
    <3>3. Refilled(c)' = AtMost(Cap, tokens'[c] + (now' - updated'[c]) * Capacity)
      BY DEF Refilled, AtMost, Cap
    <3> QED
      BY <3>1, <3>2, <3>3, CapNat, SMT DEF AtMost
  <2>3. Mapped'[c] \in 0..Cap
    BY <2>2 DEF Mapped
  <2>4. now \in Nat /\ now' \in Nat /\ t \in Nat
    BY <1>1, SMT DEF TypeOK
  <2>5. total[c] \in Nat /\ \A u \in 0..now : mark[c][u] \in Nat
    BY SMT DEF TypeOK
  <2> QED
    BY <2>1, <2>3, <2>4, <2>5, CapNat
<1>3. ASSUME t \in 0..now PROVE Spent(c, t) + Mapped[c] <= Cap + Income(t)
  BY <1>3 DEF Budget!Accounted, Budget!Cap, Cap, Mapped
<1>4. CASE Budget!Tick
  <2>1. now' = now + 1 /\ total' = total /\ Mapped'[c] <= Mapped[c] + Capacity
    BY <1>2, <1>4, SMT DEF Budget!Tick, Budget!AtMost, Mapped
  <2>2. CASE t = now + 1
    <3>1. mark'[c][t] = total[c]
      BY <1>2, <1>4, <2>1, <2>2 DEF Budget!Tick, TypeOK
    <3>2. Spent(c, t)' = 0 /\ Income(t)' = 0
      BY <1>2, <2>1, <2>2, <3>1, SMT
    <3> QED
      BY <1>2, <3>2, SMT
  <2>3. CASE t \in 0..now
    <3>1. mark'[c][t] = mark[c][t]
      BY <1>2, <1>4, <2>1, <2>3 DEF Budget!Tick, TypeOK
    <3>2. Spent(c, t)' = Spent(c, t) /\ Spent(c, t) \in Int
      BY <1>2, <2>1, <2>3, <3>1, SMT
    <3>3. Income(t)' = Income(t) + Capacity /\ Income(t) \in Int
      BY <1>2, <2>1, <2>3, OneMore, SMT
    <3> HIDE DEF Spent, Income
    <3> QED
      BY <1>2, <1>3, <2>1, <2>3, <3>2, <3>3, SMT
  <2> QED
    BY <1>2, <2>1, <2>2, <2>3, SMT
<1>5. ASSUME NEW e \in Clients, Budget!Spend(e) PROVE (Spent(c, t) + Mapped[c])' <= Cap + Income(t)'
  <2>1. now' = now /\ mark' = mark /\ t \in 0..now
    BY <1>1, <1>5 DEF Budget!Spend
  <2>2. Income(t)' = Income(t) /\ Income(t) \in Int /\ Spent(c, t) \in Int
    BY <1>2, <2>1, SMT
  <2>3. CASE e = c
    <3>1. total'[c] = total[c] + 1 /\ Mapped'[c] = Mapped[c] - Window
      BY <1>5, <2>3 DEF Budget!Spend, Mapped, TypeOK
    <3>2. Spent(c, t)' = Spent(c, t) + Window
      BY <1>2, <2>1, <3>1, SMT
    <3> HIDE DEF Spent, Income
    <3> QED
      BY <1>2, <1>3, <2>1, <2>2, <3>1, <3>2, SMT
  <2>4. CASE e # c
    <3>1. total'[c] = total[c] /\ Mapped'[c] = Mapped[c]
      BY <1>5, <2>4 DEF Budget!Spend, Mapped, TypeOK
    <3>2. Spent(c, t)' = Spent(c, t)
      BY <2>1, <3>1
    <3> HIDE DEF Spent, Income
    <3> QED
      BY <1>2, <1>3, <2>1, <2>2, <3>1, <3>2, SMT
  <2> QED
    BY <2>3, <2>4
<1>6. CASE UNCHANGED Budget!vars
  <2>1. now' = now /\ mark' = mark /\ total' = total /\ Mapped' = Mapped
    BY <1>6 DEF Budget!vars, Mapped
  <2> QED
    BY <1>1, <1>3, <2>1
<1> QED
  BY <1>4, <1>5, <1>6, Simulates DEF Budget!Next

\* In no window does a client of AsyncRateLimiter send more than twice the requests
\* of its rule, however its calls are timed, refused and retried; no smaller bound
\* holds, since a full bucket is spent while the next one is earned.
THEOREM WindowBounded == Spec => []WindowBound
<1> USE LimiterAssumption DEF LimiterAssumption
<1>1. Init /\ TypeOK => Budget!Accounted
  <2> SUFFICES ASSUME Init, TypeOK, NEW c \in Clients, NEW t \in 0..now
               PROVE  Window * (total[c] - mark[c][t]) + Mapped[c] <= Cap + Capacity * (now - t)
    BY DEF Budget!Accounted, Budget!Cap, Cap, Mapped
  <2>1. t = 0 /\ now = 0 /\ total[c] = 0 /\ mark[c][t] = 0
    BY SMT DEF Init
  <2>2. Mapped[c] \in 0..Cap
    BY RefilledType DEF Mapped
  <2>3. Window * (total[c] - mark[c][t]) = 0 /\ Capacity * (now - t) = 0
    BY <2>1, SMT
  <2> QED
    BY <2>2, <2>3, CapNat, SMT
<1>2. TypeOK /\ TypeOK' /\ Budget!Accounted /\ [Next]_vars => Budget!Accounted'
  BY AccountKept
<1>3. TypeOK /\ Budget!Accounted => WindowBound
  <2> SUFFICES ASSUME TypeOK, Budget!Accounted, NEW c \in Clients, NEW t \in 0..now, now - t <= Window
               PROVE  total[c] - mark[c][t] <= 2 * Capacity
    BY DEF WindowBound, Budget!WindowBound
  <2> DEFINE x == total[c] - mark[c][t]
  <2>1. Window * x + Mapped[c] <= Cap + Capacity * (now - t)
    BY DEF Budget!Accounted, Budget!Cap, Cap, Mapped
  <2>2. /\ x \in Int /\ now - t \in Nat /\ Mapped[c] \in 0..Cap
        /\ Capacity \in Nat /\ Window \in Nat \ {0} /\ Cap \in Nat
    <3>1. Mapped[c] \in 0..Cap
      BY RefilledType DEF Mapped
    <3> QED
      BY <3>1, CapNat, SMT DEF TypeOK
  <2> HIDE DEF x
  <2>3. Capacity * (now - t) <= Capacity * Window
    BY <2>2, SMT
  <2>4. Window * x <= Window * (2 * Capacity)
    BY <2>1, <2>2, <2>3, SMT DEF Cap
  <2>5. x <= 2 * Capacity
    BY <2>2, <2>4, Cancel
  <2> QED
    BY <2>5 DEF x
<1> QED
  BY <1>1, <1>2, <1>3, TypeCorrect, PTL DEF Spec
=============================================================================
