---------------------------- MODULE RiskControls ----------------------------
(***************************************************************************)
(* The two objects every order passes before it is placed: the RiskEngine  *)
(* (engines/risk/engine.py: limits, kill switch, circuit breakers,         *)
(* emergency shutdown and recovery) and the CanaryController               *)
(* (production/canary.py: a daily order count, a position limit, a latch). *)
(* They are modelled over their whole interface, as the tests and the      *)
(* stress harness drive them; RiskGate models what the runtime wires up.   *)
(*                                                                         *)
(* Both are plain objects of one event loop: a call is one step.  Time is  *)
(* a tick that ages an open breaker and a midnight that changes the date.  *)
(* Notionals are small integers; quantity and exposure limits have the     *)
(* shape of the notional limit and are not repeated.                       *)
(***************************************************************************)
EXTENDS Integers, FiniteSets

CONSTANTS
    Breakers,        \* RiskEngine.breakers
    Threshold,       \* circuit_breaker_error_threshold
    Cooldown,        \* circuit_breaker_cooldown_seconds, in ticks
    Notionals,       \* notionals of the order intents offered
    Exposures,       \* position notionals the caller passes to the risk engine
    OpenCounts,      \* open order counts the caller passes
    DayResults,      \* daily results the caller passes
    OrderLimit,      \* RiskSettings.max_order_notional
    PositionLimit,   \* RiskSettings.max_position_notional
    OpenLimit,       \* RiskSettings.max_open_orders
    LossLimit,       \* RiskSettings.max_daily_loss
    CanaryPosition,  \* CanaryPolicy.max_position_notional
    CanaryNotional,  \* CanaryPolicy.max_order_notional
    CanaryCount,     \* CanaryPolicy.max_order_count
    MaxFailures,     \* bound on failures recorded
    MaxDays,         \* bound on midnights
    MaxApprovals,    \* bound on reset_after_approval
    MaxShutdowns     \* bound on shutdowns and operator activations

ASSUME ControlsAssumption ==
    /\ Threshold \in Nat \ {0} /\ Cooldown \in Nat \ {0}
    /\ Notionals \subseteq Nat /\ Exposures \subseteq Int /\ OpenCounts \subseteq Nat /\ DayResults \subseteq Int
    /\ {OrderLimit, PositionLimit, OpenLimit, LossLimit} \subseteq Nat \ {0}
    /\ {CanaryPosition, CanaryNotional, CanaryCount} \subseteq Nat \ {0}
    /\ {MaxFailures, MaxDays, MaxApprovals, MaxShutdowns} \subseteq Nat

Closed == -1  \* opened_at is None

VARIABLES
    failures,   \* failures[b]: CircuitBreaker.failures
    opened,     \* opened[b]: ticks since opened_at, or Closed
    switched,   \* kill_switch.active
    shutdown,   \* shutdown_state.active
    position,   \* CanaryState.position_notional
    count,      \* CanaryState.order_count
    stale,      \* CanaryState.trading_day is not today
    latch,      \* CanaryState.kill_switch_active
    offered,    \* outcome of the last order
    errors,     \* failures recorded, for the bound
    days,       \* midnights, for the bound
    approvals,  \* approvals since the last midnight
    granted,    \* approvals ever, for the bound
    shutdowns,  \* shutdowns and activations, for the bound
    today,      \* history: orders accepted since the last midnight
    burst,      \* burst[b]: history: failures since b succeeded, or was asked after a quiet Cooldown
    calm        \* calm[b]: history: ticks since the last failure of b

breakerVars == <<failures, opened, burst, calm, errors>>
riskVars    == <<switched, shutdown, shutdowns>>
canaryVars  == <<position, count, stale, latch, approvals, granted, today>>
controlVars == <<breakerVars, riskVars, canaryVars, offered, days>>

Absolute(n) == IF n < 0 THEN -n ELSE n

\* Type invariant: no counter leaves the range its limit leaves it.
ControlsTypeOK ==
    /\ failures \in [Breakers -> 0..MaxFailures]
    /\ opened \in [Breakers -> Closed..Cooldown]
    /\ switched \in BOOLEAN /\ shutdown \in BOOLEAN
    /\ position \in Int /\ count \in 0..CanaryCount
    /\ stale \in BOOLEAN /\ latch \in BOOLEAN
    /\ offered \in {"none", "kill_switch", "violation", "canary", "accepted"}
    /\ errors \in 0..MaxFailures /\ days \in 0..MaxDays /\ shutdowns \in 0..MaxShutdowns
    /\ approvals \in 0..MaxApprovals /\ granted \in 0..MaxApprovals /\ today \in Nat
    /\ burst \in [Breakers -> Nat] /\ calm \in [Breakers -> 0..Cooldown]

\* RiskEngine.__init__ and CanaryState's defaults
ControlsInit ==
    /\ failures = [b \in Breakers |-> 0] /\ opened = [b \in Breakers |-> Closed]
    /\ switched = FALSE /\ shutdown = FALSE
    /\ position = 0 /\ count = 0 /\ stale = FALSE /\ latch = FALSE
    /\ offered = "none"
    /\ errors = 0 /\ days = 0 /\ approvals = 0 /\ granted = 0 /\ shutdowns = 0 /\ today = 0
    /\ burst = [b \in Breakers |-> 0] /\ calm = [b \in Breakers |-> Cooldown]

-----------------------------------------------------------------------------
(* Circuit breakers.                                                       *)

Expired(b) == opened[b] >= Cooldown

\* What is_open returns; asking also closes a breaker whose cooldown is over.
IsOpen(b) == opened[b] /= Closed /\ ~Expired(b)

\* is_open on the breakers of B
Ask(B) ==
    /\ failures' = [b \in Breakers |-> IF b \in B /\ Expired(b) THEN 0 ELSE failures[b]]
    /\ opened' = [b \in Breakers |-> IF b \in B /\ Expired(b) THEN Closed ELSE opened[b]]
    /\ burst' = [b \in Breakers |-> IF b \in B /\ calm[b] >= Cooldown THEN 0 ELSE burst[b]]

\* CircuitBreaker.record_failure: every failure past the threshold restarts the cooldown.
RecordFailure(b) ==
    /\ errors < MaxFailures /\ errors' = errors + 1
    /\ failures' = [failures EXCEPT ![b] = @ + 1]
    /\ opened' = [opened EXCEPT ![b] = IF failures[b] + 1 >= Threshold THEN 0 ELSE @]
    /\ burst' = [burst EXCEPT ![b] = @ + 1]
    /\ calm' = [calm EXCEPT ![b] = 0]
    /\ UNCHANGED <<riskVars, canaryVars, offered, days>>

\* CircuitBreaker.record_success
RecordSuccess(b) ==
    /\ failures' = [failures EXCEPT ![b] = 0]
    /\ opened' = [opened EXCEPT ![b] = Closed]
    /\ burst' = [burst EXCEPT ![b] = 0]
    /\ UNCHANGED <<calm, errors, riskVars, canaryVars, offered, days>>

\* The clock behind opened_at.
BreakerTick ==
    /\ opened' = [b \in Breakers |-> IF opened[b] \in 0..(Cooldown - 1) THEN opened[b] + 1 ELSE opened[b]]
    /\ calm' = [b \in Breakers |-> IF calm[b] < Cooldown THEN calm[b] + 1 ELSE calm[b]]
    /\ UNCHANGED <<failures, burst, errors, riskVars, canaryVars, offered, days>>

-----------------------------------------------------------------------------
(* Kill switch, shutdown and recovery of the risk engine.                  *)

ActivateKillSwitch ==
    /\ shutdowns < MaxShutdowns /\ shutdowns' = shutdowns + 1
    /\ switched' = TRUE
    /\ UNCHANGED <<shutdown, breakerVars, canaryVars, offered, days>>

\* A shutdown that notes its steps and leaves the switch alone.
ShutdownUnswitched ==
    /\ shutdowns < MaxShutdowns /\ shutdowns' = shutdowns + 1
    /\ shutdown' = TRUE
    /\ UNCHANGED <<switched, breakerVars, canaryVars, offered, days>>

\* RiskEngine.emergency_shutdown
EmergencyShutdown ==
    /\ shutdowns < MaxShutdowns /\ shutdowns' = shutdowns + 1
    /\ switched' = TRUE /\ shutdown' = TRUE
    /\ UNCHANGED <<breakerVars, canaryVars, offered, days>>

\* RiskEngine.recover; recovery_ready asks the breakers until one is open, and
\* the approval is refused, so that the ones behind it are not asked.
Recover ==
    /\ shutdown /\ switched
    /\ \/ /\ \A b \in Breakers : ~IsOpen(b)
          /\ switched' = FALSE /\ shutdown' = FALSE
          /\ Ask(Breakers)
       \/ /\ \E b \in Breakers : IsOpen(b)
          /\ \E B \in SUBSET {c \in Breakers : ~IsOpen(c)} : Ask(B)
          /\ UNCHANGED <<switched, shutdown>>
    /\ UNCHANGED <<calm, errors, shutdowns, canaryVars, offered, days>>

-----------------------------------------------------------------------------
(* The canary controller.                                                  *)

\* A date comparison that never finds the stored day to be today.
RolledAlways == 0

\* _roll_day_if_needed, as the count an evaluation sees.
Rolled == IF stale THEN 0 ELSE count

\* A limit that lets the order that fills it pass.
LimitOffByOne(n, c) == Absolute(position) > CanaryPosition \/ c > CanaryCount \/ n > CanaryNotional

\* _automatic_shutdown_reason: the position limit is tested before the order is
\* added, so the last order accepted may carry the position past it.
AutomaticShutdown(n, c) == Absolute(position) > CanaryPosition \/ c >= CanaryCount \/ n > CanaryNotional

\* CanaryController.record_order on an order the risk engine has passed; the
\* modes without external execution count their orders in the same way.
RecordOrder(n, sign) ==
    /\ stale' = FALSE
    /\ \/ /\ latch
          /\ offered' = "canary" /\ count' = Rolled
          /\ UNCHANGED <<latch, position, today>>
       \/ /\ ~latch /\ AutomaticShutdown(n, Rolled)
          /\ latch' = TRUE
          /\ offered' = "canary" /\ count' = Rolled
          /\ UNCHANGED <<position, today>>
       \/ /\ ~latch /\ ~AutomaticShutdown(n, Rolled)
          /\ offered' = "accepted"
          /\ count' = Rolled + 1 /\ position' = position + sign * n
          /\ today' = today + 1
          /\ UNCHANGED latch
    /\ UNCHANGED <<approvals, granted>>

\* reset_after_approval: the latch and the count, not the position.
ResetAfterApproval ==
    /\ latch /\ granted < MaxApprovals
    /\ latch' = FALSE /\ count' = 0
    /\ approvals' = approvals + 1 /\ granted' = granted + 1
    /\ UNCHANGED <<position, stale, today, breakerVars, riskVars, offered, days>>

\* The date changes; the controller notices at its next evaluation.
Midnight ==
    /\ days < MaxDays /\ days' = days + 1
    /\ stale' = TRUE /\ today' = 0 /\ approvals' = 0
    /\ UNCHANGED <<position, count, latch, granted, breakerVars, riskVars, offered>>

-----------------------------------------------------------------------------
(* An order on its way through both.                                       *)

\* The violations evaluate_order collects besides the breakers.
Violates(n, exposure, open, pnl) ==
    \/ n > OrderLimit
    \/ Absolute(exposure) + n > PositionLimit
    \/ open + 1 > OpenLimit
    \/ pnl <= -LossLimit

\* assert_order_allowed, then the canary's decision.
Offer(n, sign, exposure, open, pnl) ==
    /\ \/ /\ switched
          /\ offered' = "kill_switch"
          /\ UNCHANGED <<failures, opened, burst, canaryVars>>
       \/ /\ ~switched /\ Ask(Breakers)
          /\ Violates(n, exposure, open, pnl) \/ \E b \in Breakers : IsOpen(b)
          /\ offered' = "violation"
          /\ UNCHANGED canaryVars
       \/ /\ ~switched /\ Ask(Breakers)
          /\ ~Violates(n, exposure, open, pnl) /\ \A b \in Breakers : ~IsOpen(b)
          /\ RecordOrder(n, sign)
    /\ UNCHANGED <<calm, errors, riskVars, days>>

ControlsNext ==
    \/ \E b \in Breakers : RecordFailure(b) \/ RecordSuccess(b)
    \/ BreakerTick \/ Midnight
    \/ ActivateKillSwitch \/ EmergencyShutdown \/ Recover
    \/ ResetAfterApproval
    \/ \E n \in Notionals, sign \in {-1, 1}, exposure \in Exposures, open \in OpenCounts, pnl \in DayResults :
          Offer(n, sign, exposure, open, pnl)

ControlsSpec == ControlsInit /\ [][ControlsNext]_controlVars

-----------------------------------------------------------------------------
(* Properties.                                                             *)

Accepted == offered' = "accepted" /\ today' = today + 1

\* The canary accepts at most max_order_count orders a day, and as many again for
\* every approval of that day: midnight, which the controller notices late, the
\* latch and the reset never combine to more.
OrdersPerDay == today <= CanaryCount * (1 + approvals)

\* The canary's position passes its limit by at most one order: the order that
\* crosses it is the last one before the latch, and an approval, which leaves the
\* position alone, only leads back to the latch.
PositionBounded == Absolute(position) <= CanaryPosition + CanaryNotional

\* CanaryController, as its two limits say together: so many orders a day, and a
\* position at most one order beyond its limit.
CanaryBounded == OrdersPerDay /\ PositionBounded

\* Of a step: while fewer than Cooldown ticks have passed since the last of Threshold failures
\* in a row, no order is accepted, however often is_open was asked meanwhile.
BurstBlocks ==
    Accepted => \A b \in Breakers : burst[b] >= Threshold => calm[b] >= Cooldown

\* Of a step: no order is accepted between an emergency shutdown and its recovery, and a
\* recovery never ends while a burst of failures is still cooling down.
ShutdownHolds ==
    /\ Accepted => ~shutdown
    /\ shutdown /\ ~shutdown' => \A b \in Breakers : burst[b] >= Threshold => calm[b] >= Cooldown

\* CircuitBreaker and EmergencyShutdown, at every step: no order is accepted within
\* Cooldown ticks of the last of Threshold failures in a row, nor between a shutdown
\* and its recovery, and no recovery ends while a burst of failures is cooling down.
BlocksHold == [][BurstBlocks /\ ShutdownHolds]_controlVars
=============================================================================
