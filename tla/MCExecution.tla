---------------------------- MODULE MCExecution -----------------------------
(***************************************************************************)
(* The two ways an order is executed, checked for safety in one model: one *)
(* live order whose answers get lost again and again, two live orders that *)
(* would trade with each other, or two orders of the paper engine, under   *)
(* their own client ids or under one.  A behaviour is a behaviour of one   *)
(* part, chosen in the initial state; the first part keeps the variables   *)
(* of LiveExecution, the others use the slots.                             *)
(***************************************************************************)
EXTENDS LiveExecution, TLC

CONSTANT o1

VARIABLES part, s1, s2, s3, s4, s5, s6, s7, s8, s9, s10, s11, s12, s13, s14, s15, s16, s17, s18, s19

slots == <<s1, s2, s3, s4, s5, s6, s7, s8, s9, s10, s11, s12, s13, s14, s15, s16, s17, s18, s19>>
allVars == <<part, vars, slots>>

OneSide == (o1 :> "sell")
OnePrice == (o1 :> 100)

\* A sell and a buy that cross, at a venue whose balances cannot be read; one lost
\* answer and one failing write.
Crossing == INSTANCE LiveExecution WITH
  BalanceTolerance <- 0, NotionalTolerance <- 0, Orders <- {"x", "y"},
  Side <- [x |-> "sell", y |-> "buy"], Price <- [x |-> 100, y |-> 101], Size <- 1,
  BalanceRows <- FALSE, Deduplicates <- FALSE, MaxLost <- 1, MaxDrops <- 0, MaxFailures <- 1,
  Reconciles <- TRUE, MaxRestarts <- 0,
  venue <- s1, feed <- s2, link <- s3, db <- s4, disk <- s5, asked <- s6, pc <- s7, cur <- s8, tries <- s9,
  con <- s10, conTries <- s11, acks <- s12, due <- s13, canary <- s14, unheard <- s15,
  lost <- s16, drops <- s17, failures <- s18, restarts <- s19

\* Two tasks of the paper engine and two orders of their own client ids and of one
\* unit each.
OwnIds == INSTANCE PaperEngine WITH
  Tasks <- {"tick", "consumer"}, TickTask <- "tick", LevelSizes <- {1, 2}, MaxFailures <- 1,
  Orders <- {"p", "q"}, Ids <- {"a", "b"}, ClientId <- [p |-> "a", q |-> "b"],
  Size <- [p |-> 1, q |-> 1], Side <- [p |-> "buy", q |-> "sell"],
  status <- s1, filled <- s2, open <- s3, base <- s4, cached <- s5, db <- s6, disk <- s7, sess <- s8,
  pc <- s9, cur <- s10, todo <- s11, amt <- s12, failures <- s13, lost <- s14

\* Two orders under one client id: what _submit_quotes makes of a ladder that
\* names the same quote twice.
OneId == INSTANCE PaperEngine WITH
  Tasks <- {"tick", "consumer"}, TickTask <- "tick", LevelSizes <- {1, 2}, MaxFailures <- 1,
  Orders <- {"p", "q"}, Ids <- {"a"}, ClientId <- [p |-> "a", q |-> "a"],
  Size <- [p |-> 2, q |-> 1], Side <- [p |-> "buy", q |-> "buy"],
  status <- s1, filled <- s2, open <- s3, base <- s4, cached <- s5, db <- s6, disk <- s7, sess <- s8,
  pc <- s9, cur <- s10, todo <- s11, amt <- s12, failures <- s13, lost <- s14

\* The instances are within what the modules assume of their parameters.
ASSUME ToleranceAssumption

\* The slots a part leaves unused.
Idle15 == s15 = 0 /\ s16 = 0 /\ s17 = 0 /\ s18 = 0 /\ s19 = 0
Idle1 == /\ s1 = 0 /\ s2 = 0 /\ s3 = 0 /\ s4 = 0 /\ s5 = 0 /\ s6 = 0 /\ s7 = 0 /\ s8 = 0
         /\ s9 = 0 /\ s10 = 0 /\ s11 = 0 /\ s12 = 0 /\ s13 = 0 /\ s14 = 0 /\ Idle15
After14 == <<s15, s16, s17, s18, s19>>

ExecutionInit ==
  /\ Init
  /\ \/ part = "retries" /\ Idle1
     \/ part = "crossing" /\ Crossing!Init
     \/ part = "own ids" /\ OwnIds!Init /\ Idle15
     \/ part = "one id" /\ OneId!Init /\ Idle15

ExecutionNext ==
  \/ part = "retries" /\ Next /\ UNCHANGED <<part, slots>>
  \/ part = "crossing" /\ Crossing!Next /\ UNCHANGED <<part, vars>>
  \/ part = "own ids" /\ OwnIds!Next /\ UNCHANGED <<part, vars, After14>>
  \/ part = "one id" /\ OneId!Next /\ UNCHANGED <<part, vars, After14>>

ExecutionSpec == ExecutionInit /\ [][ExecutionNext]_allVars

-----------------------------------------------------------------------------
(* Properties.                                                             *)

\* CoinstoreExecution: rows hold statuses of the status column, and of two orders that
\* would trade with each other, too, the accepted ones are known, although every
\* reconciliation fails and rolls back.
CrossingOrdersKnown ==
  TypeOK /\ (part = "crossing" => Crossing!TypeOK /\ Crossing!AcceptedOrdersKnown)

\* PaperExecutionEngine: with two orders, too, none trades more than was asked for,
\* memory and tables agree, and what an order has traded is in the trade rows, also
\* when two orders under one client id replace each other in memory and share a row.
EveryTradeRecorded ==
  /\ part = "own ids" => OwnIds!TypeOK /\ OwnIds!NoOverfill /\ OwnIds!MemoryRecorded
  /\ part = "one id" => OneId!TypeOK /\ OneId!NoOverfill /\ OneId!MemoryRecorded
=============================================================================
