---------------------------- MODULE EngineDaemon ----------------------------
(***************************************************************************)
(* EngineDaemon.run: the loop both engines live in.  A tick checks Redis   *)
(* and the database, runs the engine (whose first tick subscribes to the   *)
(* bus), commits, and publishes a heartbeat; a failing tick rolls back,    *)
(* writes a degraded health file and publishes a degraded heartbeat, whose *)
(* own failure leaves the loop.  Redis and the database go and come back   *)
(* between any two steps.  The container supervisor starts the process     *)
(* again after it ended (docker-compose: restart unless-stopped).          *)
(***************************************************************************)
EXTENDS Integers

CONSTANTS
  Outages,    \* bound: outages of Redis or the database, failing engine ticks
  MaxErrors   \* bound: consecutive_errors is counted up to here

ASSUME DaemonAssumption == Outages \in Nat /\ MaxErrors \in Nat

VARIABLES
  pc,         \* where the process is
  redisUp, databaseUp,
  started,    \* runtime.started
  subscribed, \* the bus consumer runs on an established subscription
  session,    \* "clean", "tick" (rows of this tick), "failed" (of a failed one)
  health,     \* the health file's status
  beat,       \* the status under engine:health:<component> in Redis
  errors,     \* consecutive_errors
  torn,       \* history: a commit took rows of a failed tick along
  outages

daemonVars == <<pc, redisUp, databaseUp, started, subscribed, session, health, beat, errors, torn, outages>>
world == <<redisUp, databaseUp, outages>>
bus == <<started, subscribed>>

Cap(n) == IF n > MaxErrors THEN MaxErrors ELSE n

----------------------------------------------------------------------------
(* The tick.                                                               *)

\* _initialize_dependencies and the first health file.
Boot ==
  /\ pc = "ended"
  /\ pc' = "loop"
  /\ started' = FALSE /\ subscribed' = FALSE
  /\ session' = "clean"
  /\ health' = "starting"
  /\ errors' = 0
  /\ UNCHANGED <<world, beat, torn>>

\* The health checks of _service_tick: either one raising fails the tick.
CheckDependencies ==
  /\ pc = "loop"
  /\ pc' = IF redisUp /\ databaseUp THEN "start" ELSE "rollback"
  /\ UNCHANGED <<world, bus, session, health, beat, errors, torn>>

\* The market maker's ensure_started: the flag is set, then psubscribe.
EnsureStarted ==
  /\ pc = "start"
  /\ started' = TRUE
  /\ IF started THEN pc' = "engine" /\ UNCHANGED subscribed
     ELSE IF redisUp
          THEN pc' = "engine" /\ subscribed' = TRUE
          ELSE pc' = "rollback" /\ UNCHANGED subscribed
  /\ UNCHANGED <<world, session, health, beat, errors, torn>>

\* runtime.tick(): rows are flushed into the session.  It may fail midway
\* when a dependency is gone (not every read is fatal), or by itself.
EngineTick ==
  /\ pc = "engine"
  /\ session' = IF session = "failed" THEN "failed" ELSE "tick"
  /\ \/ pc' = "commit" /\ UNCHANGED outages
     \/ ~(redisUp /\ databaseUp) /\ pc' = "rollback" /\ UNCHANGED outages
     \/ outages < Outages /\ outages' = outages + 1 /\ pc' = "rollback"
  /\ UNCHANGED <<redisUp, databaseUp, bus, health, beat, errors, torn>>

\* session.commit().
CommitTick ==
  /\ pc = "commit"
  /\ IF databaseUp
     THEN /\ pc' = "beat"
          /\ torn' = (torn \/ session = "failed")
          /\ session' = "clean"
     ELSE pc' = "rollback" /\ UNCHANGED <<torn, session>>
  /\ UNCHANGED <<world, bus, health, beat, errors>>

\* The heartbeat, and after it the end of a good turn of the loop.
Heartbeat ==
  /\ pc = "beat"
  /\ IF redisUp
     THEN pc' = "loop" /\ beat' = "healthy" /\ health' = "healthy" /\ errors' = 0
     ELSE pc' = "rollback" /\ UNCHANGED <<beat, health, errors>>
  /\ UNCHANGED <<world, bus, session, torn>>

\* Mutant of Rollback: the session is left as the failure left it.
RollbackForgotten ==
  /\ pc = "rollback"
  /\ session' = IF session = "clean" THEN "clean" ELSE "failed"
  /\ errors' = Cap(errors + 1)
  /\ health' = "degraded"
  /\ pc' = "degraded"
  /\ UNCHANGED <<world, bus, beat, torn>>

\* The except branch: roll back, count, write the health file ...
Rollback ==
  /\ pc = "rollback"
  /\ session' = "clean"
  /\ errors' = Cap(errors + 1)
  /\ health' = "degraded"
  /\ pc' = "degraded"
  /\ UNCHANGED <<world, bus, beat, torn>>

\* ... and publish; an exception here is raised out of the loop.
HeartbeatDegraded ==
  /\ pc = "degraded"
  /\ pc' = IF redisUp THEN "loop" ELSE "shutdown"
  /\ beat' = IF redisUp THEN "degraded" ELSE beat
  /\ UNCHANGED <<world, bus, session, health, errors, torn>>

\* _shutdown: the runtime's consumer is cancelled, the session closed.
Shutdown ==
  /\ pc = "shutdown"
  /\ pc' = "ended"
  /\ subscribed' = FALSE
  /\ session' = "clean"
  /\ health' = "stopped"
  /\ UNCHANGED <<world, started, beat, errors, torn>>

----------------------------------------------------------------------------
(* The surroundings.                                                       *)

Outage ==
  /\ outages < Outages
  /\ outages' = outages + 1
  /\ \/ redisUp /\ redisUp' = FALSE /\ UNCHANGED databaseUp
     \/ databaseUp /\ databaseUp' = FALSE /\ UNCHANGED redisUp
  /\ UNCHANGED <<pc, bus, session, health, beat, errors, torn>>

Repair ==
  /\ ~redisUp \/ ~databaseUp
  /\ redisUp' = TRUE /\ databaseUp' = TRUE
  /\ UNCHANGED <<pc, bus, session, health, beat, errors, torn, outages>>

\* The heartbeat key's time to live runs out while nobody refreshes it.
BeatExpires ==
  /\ redisUp /\ beat # "absent"
  /\ pc \in {"ended", "shutdown"}
  /\ beat' = "absent"
  /\ UNCHANGED <<pc, world, bus, session, health, errors, torn>>

DaemonInit ==
  /\ pc = "ended"
  /\ redisUp = TRUE /\ databaseUp = TRUE
  /\ started = FALSE /\ subscribed = FALSE
  /\ session = "clean"
  /\ health = "none" /\ beat = "absent"
  /\ errors = 0 /\ torn = FALSE /\ outages = 0

DaemonStep ==
  \/ Boot \/ CheckDependencies \/ EnsureStarted \/ EngineTick \/ CommitTick
  \/ Heartbeat \/ Rollback \/ HeartbeatDegraded \/ Shutdown

DaemonNext == DaemonStep \/ Outage \/ Repair \/ BeatExpires

DaemonSpec == DaemonInit /\ [][DaemonNext]_daemonVars

----------------------------------------------------------------------------
(* Properties.                                                             *)

\* The bus is only listened to by a started engine; counters stay in range.
DaemonTypeOK ==
  /\ subscribed => started
  /\ pc = "ended" => ~subscribed
  /\ health \in {"none", "starting", "healthy", "degraded", "stopped"}
  /\ beat \in {"absent", "healthy", "degraded"}
  /\ errors \in 0..MaxErrors

\* Rows a failing tick left in the session are never committed by a later
\* tick: what is stored comes from whole ticks.
NoTornCommit == ~torn

\* The health file says healthy only between a whole turn of the loop and
\* the next failing one, never over rows that are not committed and a
\* process that is about to end.
HealthyIsWhole ==
  health = "healthy" => errors = 0 /\ pc \notin {"degraded", "shutdown", "ended"}

\* What the loop leaves behind and says of itself can be relied upon: both of these.
LoopHonest == NoTornCommit /\ HealthyIsWhole

\* The health file says that all is well.
Healthy == health = "healthy"
=============================================================================
