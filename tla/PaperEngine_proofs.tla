------------------------- MODULE PaperEngine_proofs -------------------------
(***************************************************************************)
(* Proofs about PaperEngine, for every number of tasks, orders and client  *)
(* order ids, also when orders share an id.                                *)
(***************************************************************************)
EXTENDS PaperEngine, FiniteSetTheorems, TLAPS

\* Inside a fill or a write, a task has an order.
TaskInv == \A t \in Tasks : pc[t] \notin {"idle", "start", "sim"} => cur[t] \in Orders

EngineInv == TypeOK /\ TaskInv /\ NoOverfill

\* What is left of an order.
LEMMA RemainingBounded ==
    ASSUME TypeOK, NEW o \in Orders
    PROVE  Remaining(o) \in Nat /\ (NoOverfill => filled[o] + Remaining(o) = Size[o])
  BY EngineAssumption DEF EngineAssumption, TypeOK, Remaining, NoOverfill

\* A match trades something, and no more than is left.
LEMMA MatchWithinRemaining ==
    ASSUME TypeOK, NEW o \in Orders, NEW q \in Matches(o)
    PROVE  q \in Nat /\ q <= Remaining(o)
  BY RemainingBounded, EngineAssumption DEF EngineAssumption, Matches

\* Every status of an order has a row status.
LEMMA RowStatusTyped == \A s \in Status : RowStatusOf(s) \in RowStatus
  BY DEF Status, RowStatusOf, RowStatus

\* A new process satisfies the invariant.
LEMMA InitEngine == Init => EngineInv
  <1> SUFFICES ASSUME Init PROVE EngineInv
    OBVIOUS
  <1>1. \A a \in BOOLEAN : Fresh(a) \in Database
    BY DEF Fresh, Database, RowStatus
  <1>2. TypeOK
    <2>1. cached \in BOOLEAN
      BY Zenon DEF Init
    <2>2. db \in Database /\ disk \in Database
      BY <1>1, Zenon DEF Init
    <2>3. status \in [Orders -> Status] /\ pc \in [Tasks -> Places]
      BY DEF Init, Status, Places
    <2>4. /\ filled \in [Orders -> Nat] /\ amt \in [Tasks -> Nat]
          /\ base \in Int /\ failures \in 0..MaxFailures
      BY EngineAssumption DEF EngineAssumption, Init
    <2>5. /\ open \subseteq Orders /\ lost \subseteq Ids /\ sess \in {"ok", "broken"}
          /\ cur \in [Tasks -> Orders \cup {NoOrder}] /\ todo \in [Tasks -> SUBSET Orders]
      BY DEF Init
    <2> QED
      BY <2>1, <2>2, <2>3, <2>4, <2>5 DEF TypeOK
  <1>3. TaskInv /\ NoOverfill
    BY EngineAssumption DEF EngineAssumption, Init, TaskInv, NoOverfill
  <1> QED
    BY <1>2, <1>3 DEF EngineInv

\* Steps in memory.
LEMMA MemoryStep ==
    ASSUME EngineInv, NEW t \in Tasks,
           \/ SimulateDone(t) \/ FillResult(t) \/ SimulateFills(t)
           \/ \E o \in Orders : PlaceOrder(t, o) \/ CancelOrder(t, o) \/ ApplyFill(t, o)
    PROVE  EngineInv'
  <1> USE DEF EngineInv, TypeOK, TaskInv, NoOverfill, memVars, dbVars, taskVars, Goto, Places, Status
  <1>1. CASE SimulateDone(t)
    BY <1>1 DEF SimulateDone, Return
  <1>2. CASE FillResult(t)
    BY <1>2 DEF FillResult, Pop
  <1>3. CASE SimulateFills(t)
    BY <1>3 DEF SimulateFills
  <1>4. ASSUME NEW o \in Orders, PlaceOrder(t, o) PROVE EngineInv'
    BY <1>4 DEF PlaceOrder, Pop
  <1>5. ASSUME NEW o \in Orders, CancelOrder(t, o) PROVE EngineInv'
    BY <1>5 DEF CancelOrder, Pop
  <1>6. ASSUME NEW o \in Orders, ApplyFill(t, o) PROVE EngineInv'
    <2>1. PICK q \in Matches(o) : /\ base' = IF Side[o] = "buy" THEN base + q ELSE base - q
                                  /\ filled' = [filled EXCEPT ![o] = @ + q]
                                  /\ amt' = [amt EXCEPT ![t] = q]
      BY <1>6 DEF ApplyFill
    <2>2. q \in Nat /\ q <= Remaining(o)
      BY MatchWithinRemaining
    <2>3. filled[o] \in Nat /\ filled[o] + q <= Size[o]
      BY <2>2, RemainingBounded, EngineAssumption DEF EngineAssumption
    <2>4. TypeOK'
      BY <1>6, <2>1, <2>2, <2>3 DEF ApplyFill
    <2>5. TaskInv'
      BY <1>6 DEF ApplyFill
    <2>6. NoOverfill'
      BY <2>1, <2>3
    <2> QED
      BY <2>4, <2>5, <2>6
  <1> QED
    BY <1>1, <1>2, <1>3, <1>4, <1>5, <1>6

\* Steps of the session.
LEMMA SessionStep ==
    ASSUME EngineInv,
           \/ Commit \/ Rollback \/ CancelOrphans
           \/ \E t \in Tasks : PersistOrder(t) \/ PersistTrade(t) \/ PersistPosition(t) \/ PersistRaises(t)
    PROVE  EngineInv'
  <1>1. db' \in Database
    <2> USE EngineAssumption DEF EngineAssumption, EngineInv, TypeOK, TaskInv, Database
    <2>1. ASSUME NEW t \in Tasks, PersistOrder(t) PROVE db' \in Database
      <3>1. cur[t] \in Orders
        BY <2>1 DEF PersistOrder
      <3>2. [status |-> RowStatusOf(status[cur[t]]), filled |-> filled[cur[t]]] \in [status : RowStatus, filled : Nat]
        BY <3>1, RowStatusTyped
      <3> QED
        BY <2>1, <3>1, <3>2 DEF PersistOrder
    <2>2. ASSUME NEW t \in Tasks, PersistTrade(t) PROVE db' \in Database
      <3>1. cur[t] \in Orders
        BY <2>2 DEF PersistTrade
      <3>2. db.sold[ClientId[cur[t]]] + amt[t] \in Nat
        BY <3>1
      <3> QED
        BY <2>2, <3>1, <3>2 DEF PersistTrade
    <2>3. ASSUME NEW t \in Tasks, PersistPosition(t) PROVE db' \in Database
      <3>1. db' = [db EXCEPT !.acct = TRUE, !.pos = base]
        BY <2>3 DEF PersistPosition
      <3>2. base \in Int /\ db \in Database
        OBVIOUS
      <3>3. [db EXCEPT !.pos = base] \in Database
        BY <3>2
      <3> QED
        BY <3>1, <3>2, <3>3
    <2>4. CASE Commit \/ Rollback \/ \E t \in Tasks : PersistRaises(t)
      BY <2>4 DEF Commit, Rollback, PersistRaises
    <2>5. CASE CancelOrphans
      <3>1. \A i \in Ids : [db.row[i] EXCEPT !.status = "cancelled"] \in [status : RowStatus, filled : Nat]
        <4>1. \A i \in Ids : db.row[i] \in [status : RowStatus, filled : Nat]
          OBVIOUS
        <4> QED
          BY <4>1 DEF RowStatus
      <3> QED
        BY <2>5, <3>1 DEF CancelOrphans
    <2> QED
      BY <2>1, <2>2, <2>3, <2>4, <2>5
  <1>2. /\ UNCHANGED memVars
        /\ disk' \in Database /\ sess' \in {"ok", "broken"} /\ cached' \in BOOLEAN
        /\ failures' \in 0..MaxFailures /\ lost' \subseteq Ids
    <2> USE EngineAssumption DEF EngineAssumption, EngineInv, TypeOK, TaskInv, taskVars
    <2>1. UNCHANGED memVars /\ disk' \in Database /\ sess' \in {"ok", "broken"}
      BY DEF Commit, Rollback, CancelOrphans, PersistOrder, PersistTrade, PersistPosition, PersistRaises
    <2>2. cached' = cached \/ cached' = TRUE
      BY DEF Commit, Rollback, CancelOrphans, PersistOrder, PersistTrade, PersistPosition, PersistRaises, EnsureAccount
    <2>3. cached' \in BOOLEAN
      BY <2>2, Zenon
    <2>4. failures' \in 0..MaxFailures /\ lost' \subseteq Ids
      <3>1. CASE Commit \/ Rollback \/ CancelOrphans
        BY <3>1 DEF Commit, Rollback, CancelOrphans
      <3>2. ASSUME NEW t \in Tasks, PersistOrder(t) \/ PersistTrade(t) \/ PersistPosition(t) PROVE <2>4!1 /\ <2>4!2
        BY <3>2 DEF PersistOrder, PersistTrade, PersistPosition
      <3>3. ASSUME NEW t \in Tasks, PersistRaises(t) PROVE <2>4!1 /\ <2>4!2
        <4>1. cur[t] \in Orders /\ lost' = lost \cup {ClientId[cur[t]]}
          BY <3>3 DEF PersistRaises
        <4>2. failures' = failures \/ (failures < MaxFailures /\ failures' = failures + 1)
          BY <3>3 DEF PersistRaises
        <4> QED
          BY <4>1, <4>2
      <3> QED
        BY <3>1, <3>2, <3>3
    <2> QED
      BY <2>1, <2>3, <2>4
  <1> DEFINE TasksOK == /\ pc' \in [Tasks -> Places] /\ cur' \in [Tasks -> Orders \cup {NoOrder}]
                        /\ todo' \in [Tasks -> SUBSET Orders] /\ amt' \in [Tasks -> Nat] /\ TaskInv'
  <1>3. TasksOK
    <2> USE DEF EngineInv, TypeOK, TaskInv, taskVars, Goto, Return, Places
    <2>1. CASE Commit \/ Rollback \/ CancelOrphans
      BY <2>1 DEF Commit, Rollback, CancelOrphans
    <2>2. ASSUME NEW t \in Tasks, PersistOrder(t) PROVE TasksOK
      <3>1. cur[t] \in Orders
        BY <2>2 DEF PersistOrder
      <3>2. CASE Goto(t, "start") /\ UNCHANGED <<cur, todo, amt>>
        BY <3>1, <3>2
      <3>3. CASE Goto(t, "sim") /\ UNCHANGED <<cur, todo, amt>>
        BY <3>1, <3>3
      <3>4. CASE Return(t)
        BY <3>4
      <3> QED
        BY <2>2, <3>2, <3>3, <3>4 DEF PersistOrder
    <2>3. ASSUME NEW t \in Tasks, PersistTrade(t) \/ PersistPosition(t) PROVE TasksOK
      BY <2>3 DEF PersistTrade, PersistPosition
    <2>4. ASSUME NEW t \in Tasks, PersistRaises(t) PROVE TasksOK
      BY <2>4 DEF PersistRaises
    <2> QED
      BY <2>1, <2>2, <2>3, <2>4
  <1> QED
    BY <1>1, <1>2, <1>3 DEF EngineInv, TypeOK, NoOverfill, memVars

\* The invariant of the paper engine.
LEMMA EngineInvariant == Spec => []EngineInv
  <1>1. EngineInv /\ [Next]_vars => EngineInv'
    <2> SUFFICES ASSUME EngineInv, [Next]_vars PROVE EngineInv'
      OBVIOUS
    <2>1. CASE UNCHANGED vars
      BY <2>1 DEF EngineInv, TypeOK, TaskInv, NoOverfill, vars, memVars, dbVars, taskVars
    <2>2. CASE Next
      BY <2>2, MemoryStep, SessionStep DEF Next, Step
    <2> QED
      BY <2>1, <2>2
  <1> QED
    BY InitEngine, <1>1, PTL DEF Spec

\* Type correctness of the paper engine and of the rows it writes.
THEOREM EngineTypeCorrect == Spec => []TypeOK
  <1>1. EngineInv => TypeOK
    BY DEF EngineInv
  <1> QED
    BY EngineInvariant, <1>1, PTL

\* For every number of tasks, orders and ids, with failures and rollbacks: the paper
\* engine never trades more of an order than its intent asked for.
THEOREM NoOverfillTheorem == Spec => []NoOverfill
  <1>1. EngineInv => NoOverfill
    BY DEF EngineInv
  <1> QED
    BY EngineInvariant, <1>1, PTL
-----------------------------------------------------------------------------
(***************************************************************************)
(* Memory and tables.  RowInSync is inductive as it stands, the other      *)
(* parts of MemoryRecorded are not: an order without a remainder must be   *)
(* in the hands of a task that has not yet come to simulate_fills' check   *)
(* of the remainder, a session only breaks together with a lost write, and *)
(* the trades are counted in finite sets.                                  *)
(***************************************************************************)

\* An order that has not been placed is nowhere.
NewOrdersAside ==
    \A o \in Orders : status[o] = "NEW" =>
        filled[o] = 0 /\ o \notin open /\ \A t \in Tasks : cur[t] # o /\ o \notin todo[t]

\* A task has traded of o and has not yet looked whether anything is left.
Filling(o) == \E t \in Tasks : cur[t] = o /\ pc[t] \in {"trade", "position", "matched"}

SpentOrdersHeld ==
    \A o \in open : Remaining(o) > 0 \/ Filling(o) \/ ClientId[o] \in lost

BrokenMeansLost == sess = "broken" => lost # {}

MemoryInv == NewOrdersAside /\ SpentOrdersHeld /\ RowInSync /\ PositionRecorded /\ BrokenMeansLost

\* A new process satisfies it.
LEMMA InitMemory == Init => MemoryInv
  BY NoOrderAssumption DEF Init, MemoryInv, NewOrdersAside, SpentOrdersHeld, RowInSync, PositionRecorded, BrokenMeansLost, Fresh

\* What is left of an order depends on what it has traded, and on nothing else.
LEMMA RemainingSame ==
    ASSUME NEW o \in Orders, filled'[o] = filled[o]
    PROVE  Remaining(o)' = Remaining(o)
  BY DEF Remaining

\* Orders that are not placed stay aside.
LEMMA NewOrdersStep ==
    ASSUME EngineInv, NewOrdersAside, Next
    PROVE  NewOrdersAside'
  <1> USE DEF EngineInv, TypeOK, TaskInv, NewOrdersAside, memVars, taskVars, Goto, Return, Pop
  <1>1. ASSUME NEW t \in Tasks, SimulateDone(t) \/ FillResult(t) \/ SimulateFills(t) PROVE NewOrdersAside'
    BY <1>1, NoOrderAssumption DEF SimulateDone, FillResult, SimulateFills
  <1>2. ASSUME NEW t \in Tasks, NEW o \in Orders, PlaceOrder(t, o) \/ CancelOrder(t, o) PROVE NewOrdersAside'
    BY <1>2 DEF PlaceOrder, CancelOrder
  <1>3. ASSUME NEW t \in Tasks, NEW o \in Orders, ApplyFill(t, o) PROVE NewOrdersAside'
    BY <1>3 DEF ApplyFill
  <1>4. ASSUME NEW t \in Tasks, PersistOrder(t) \/ PersistTrade(t) \/ PersistPosition(t) \/ PersistRaises(t)
        PROVE  NewOrdersAside'
    BY <1>4, NoOrderAssumption DEF PersistOrder, PersistTrade, PersistPosition, PersistRaises
  <1>5. CASE Commit \/ Rollback \/ CancelOrphans
    BY <1>5 DEF Commit, Rollback, CancelOrphans
  <1> QED
    BY <1>1, <1>2, <1>3, <1>4, <1>5 DEF Next, Step

\* An order without a remainder is held by a task, or a write for it was lost.
LEMMA SpentOrdersStep ==
    ASSUME EngineInv, NewOrdersAside, SpentOrdersHeld, Next
    PROVE  SpentOrdersHeld'
  <1> USE DEF EngineInv, TypeOK, TaskInv, memVars, taskVars, Goto, Return, Pop
  <1> SUFFICES ASSUME NEW o \in open'
               PROVE  (Remaining(o) > 0 \/ Filling(o) \/ ClientId[o] \in lost)'
    BY DEF SpentOrdersHeld
  <1>1. ASSUME NEW t \in Tasks, SimulateDone(t) \/ SimulateFills(t)
        PROVE  (Remaining(o) > 0 \/ Filling(o) \/ ClientId[o] \in lost)'
    <2>1. o \in open /\ Remaining(o)' = Remaining(o) /\ lost' = lost
      BY <1>1, RemainingSame DEF SimulateDone, SimulateFills
    <2>2. Filling(o) => Filling(o)'
      BY <1>1 DEF SimulateDone, SimulateFills, Filling
    <2> QED
      BY <2>1, <2>2 DEF SpentOrdersHeld
  <1>2. ASSUME NEW t \in Tasks, FillResult(t)
        PROVE  (Remaining(o) > 0 \/ Filling(o) \/ ClientId[o] \in lost)'
    <2>1. o \in open /\ Remaining(o)' = Remaining(o) /\ lost' = lost
      BY <1>2, RemainingSame DEF FillResult
    <2>2. CASE o = cur[t]
      BY <1>2, <2>1, <2>2, RemainingBounded DEF FillResult
    <2>3. CASE o # cur[t]
      <3>1. Filling(o) => Filling(o)'
        BY <1>2, <2>3 DEF FillResult, Filling
      <3> QED
        BY <2>1, <3>1 DEF SpentOrdersHeld
    <2> QED
      BY <2>2, <2>3
  <1>3. ASSUME NEW t \in Tasks, NEW p \in Orders, PlaceOrder(t, p) \/ CancelOrder(t, p)
        PROVE  (Remaining(o) > 0 \/ Filling(o) \/ ClientId[o] \in lost)'
    <2>1. o \in Orders /\ Remaining(o)' = Remaining(o) /\ lost' = lost
      BY <1>3, RemainingSame DEF PlaceOrder, CancelOrder
    <2>2. CASE o \in open
      <3>1. Filling(o) => Filling(o)'
        BY <1>3 DEF PlaceOrder, CancelOrder, Filling
      <3> QED
        BY <2>1, <2>2, <3>1 DEF SpentOrdersHeld
    <2>3. CASE o \notin open
      <3>1. status[o] = "NEW"
        BY <1>3, <2>3 DEF PlaceOrder, CancelOrder
      <3>2. Remaining(o) > 0
        BY <2>1, <3>1, EngineAssumption DEF EngineAssumption, Remaining, NewOrdersAside
      <3> QED
        BY <2>1, <3>2
    <2> QED
      BY <2>2, <2>3
  <1>4. ASSUME NEW t \in Tasks, NEW p \in Orders, ApplyFill(t, p)
        PROVE  (Remaining(o) > 0 \/ Filling(o) \/ ClientId[o] \in lost)'
    <2>1. CASE o = p
      BY <1>4, <2>1 DEF ApplyFill, Filling
    <2>2. CASE o # p
      <3>1. o \in open /\ Remaining(o)' = Remaining(o) /\ lost' = lost
        BY <1>4, <2>2, RemainingSame DEF ApplyFill
      <3>2. Filling(o) => Filling(o)'
        BY <1>4 DEF ApplyFill, Filling
      <3> QED
        BY <3>1, <3>2 DEF SpentOrdersHeld
    <2> QED
      BY <2>1, <2>2
  <1>5. ASSUME NEW t \in Tasks, PersistOrder(t) \/ PersistTrade(t) \/ PersistPosition(t) \/ PersistRaises(t)
        PROVE  (Remaining(o) > 0 \/ Filling(o) \/ ClientId[o] \in lost)'
    <2>1. o \in open /\ Remaining(o)' = Remaining(o) /\ lost \subseteq lost'
      BY <1>5, RemainingSame DEF PersistOrder, PersistTrade, PersistPosition, PersistRaises
    <2>2. Filling(o) => Filling(o)' \/ ClientId[o] \in lost'
      BY <1>5 DEF PersistOrder, PersistTrade, PersistPosition, PersistRaises, Filling
    <2> QED
      BY <2>1, <2>2 DEF SpentOrdersHeld
  <1>6. CASE Commit \/ Rollback \/ CancelOrphans
    <2>1. o \in open /\ Remaining(o)' = Remaining(o) /\ lost \subseteq lost'
      BY <1>6, RemainingSame DEF Commit, Rollback, CancelOrphans
    <2>2. Filling(o) => Filling(o)'
      BY <1>6 DEF Commit, Rollback, CancelOrphans, Filling
    <2> QED
      BY <2>1, <2>2 DEF SpentOrdersHeld
  <1> QED
    BY <1>1, <1>2, <1>3, <1>4, <1>5, <1>6 DEF Next, Step

\* Whoever changes an order, or its row, keeps the two in step.
LEMMA RowInSyncStep ==
    ASSUME EngineInv, RowInSync, Next
    PROVE  RowInSync'
  <1> USE DEF EngineInv, TypeOK, TaskInv, memVars, dbVars, taskVars, Goto, Return, Pop
  <1> DEFINE Synced(o) == db.row[ClientId[o]] = [status |-> RowStatusOf(status[o]), filled |-> filled[o]]
             Dropped(o) == o \notin open /\ db.row[ClientId[o]].status = "cancelled"
  <1> SUFFICES ASSUME NEW o \in Orders, (status[o] # "NEW")', ClientId[o] \notin lost',
                      \A p \in Orders : ClientId[p] = ClientId[o] => p = o
               PROVE  (Synced(o) \/ Writing(o) \/ Dropped(o))'
    BY DEF RowInSync
  <1>a. ASSUME status[o] # "NEW", ClientId[o] \notin lost
        PROVE  Synced(o) \/ Writing(o) \/ Dropped(o)
    BY <1>a DEF RowInSync
  <1>1. ASSUME NEW t \in Tasks, SimulateDone(t) \/ SimulateFills(t)
        PROVE  (Synced(o) \/ Writing(o) \/ Dropped(o))'
    <2>1. UNCHANGED <<status, filled, open, db, lost>>
      BY <1>1 DEF SimulateDone, SimulateFills
    <2>2. Writing(o) => Writing(o)'
      BY <1>1 DEF SimulateDone, SimulateFills, Writing
    <2> QED
      BY <1>a, <2>1, <2>2
  <1>2. ASSUME NEW t \in Tasks, FillResult(t)
        PROVE  (Synced(o) \/ Writing(o) \/ Dropped(o))'
    <2>1. CASE o = cur[t]
      BY <1>2, <2>1 DEF FillResult, Writing
    <2>2. CASE o # cur[t]
      <3>1. UNCHANGED <<status[o], filled, db, lost>> /\ open' \subseteq open
        BY <1>2, <2>2 DEF FillResult
      <3>2. Writing(o) => Writing(o)'
        BY <1>2, <2>2 DEF FillResult, Writing
      <3> QED
        BY <1>a, <3>1, <3>2
    <2> QED
      BY <2>1, <2>2
  <1>3. ASSUME NEW t \in Tasks, NEW p \in Orders, PlaceOrder(t, p) \/ CancelOrder(t, p) \/ ApplyFill(t, p)
        PROVE  (Synced(o) \/ Writing(o) \/ Dropped(o))'
    <2>1. CASE o = p
      BY <1>3, <2>1 DEF PlaceOrder, CancelOrder, ApplyFill, Writing
    <2>2. CASE o # p
      <3>1. UNCHANGED <<status[o], filled[o], db, lost>> /\ (o \in open' => o \in open)
        BY <1>3, <2>2 DEF PlaceOrder, CancelOrder, ApplyFill
      <3>2. Writing(o) => Writing(o)'
        BY <1>3 DEF PlaceOrder, CancelOrder, ApplyFill, Writing
      <3> QED
        BY <1>a, <3>1, <3>2
    <2> QED
      BY <2>1, <2>2
  <1>4. ASSUME NEW t \in Tasks, PersistOrder(t)
        PROVE  (Synced(o) \/ Writing(o) \/ Dropped(o))'
    <2>0. /\ UNCHANGED <<status, filled, open, lost>> /\ cur[t] \in Orders
          /\ db' = [db EXCEPT !.acct = TRUE,
                              !.row[ClientId[cur[t]]] = [status |-> RowStatusOf(status[cur[t]]), filled |-> filled[cur[t]]]]
      BY <1>4 DEF PersistOrder
    <2>1. CASE o = cur[t]
      <3>1. Synced(o)'
        BY <2>0, <2>1, EngineAssumption DEF EngineAssumption, Database
      <3> QED
        BY <3>1
    <2>2. CASE o # cur[t]
      <3>1. db'.row[ClientId[o]] = db.row[ClientId[o]]
        BY <2>0, <2>2, EngineAssumption DEF EngineAssumption, Database
      <3>2. Writing(o) => Writing(o)'
        BY <1>4, <2>2 DEF PersistOrder, Writing
      <3> QED
        BY <1>a, <2>0, <3>1, <3>2
    <2> QED
      BY <2>1, <2>2
  <1>5. ASSUME NEW t \in Tasks, PersistTrade(t) \/ PersistPosition(t)
        PROVE  (Synced(o) \/ Writing(o) \/ Dropped(o))'
    <2>1. UNCHANGED <<status, filled, open, lost>> /\ db'.row = db.row
      BY <1>5 DEF PersistTrade, PersistPosition, Database
    <2>2. Writing(o) => Writing(o)'
      BY <1>5 DEF PersistTrade, PersistPosition, Writing
    <2> QED
      BY <1>a, <2>1, <2>2
  <1>6. ASSUME NEW t \in Tasks, PersistRaises(t)
        PROVE  (Synced(o) \/ Writing(o) \/ Dropped(o))'
    <2>1. UNCHANGED <<status, filled, open, db>> /\ lost \subseteq lost'
      BY <1>6 DEF PersistRaises
    <2>2. Writing(o) => Writing(o)'
      BY <1>6 DEF PersistRaises, Writing
    <2> QED
      BY <1>a, <2>1, <2>2
  <1>7. CASE Commit \/ Rollback
    <2>1. UNCHANGED <<status, filled, open>> /\ db'.row[ClientId[o]] = db.row[ClientId[o]] /\ lost \subseteq lost'
      BY <1>7, EngineAssumption DEF EngineAssumption, Commit, Rollback
    <2>2. Writing(o) => Writing(o)'
      BY <1>7 DEF Commit, Rollback, Writing
    <2> QED
      BY <1>a, <2>1, <2>2
  <1>8. CASE CancelOrphans
    <2>1. UNCHANGED <<status, filled, open, lost>> /\ (Writing(o) => Writing(o)')
      BY <1>8 DEF CancelOrphans, Writing
    <2>2. \/ db'.row[ClientId[o]] = db.row[ClientId[o]]
          \/ ClientId[o] \notin OpenIds /\ db'.row[ClientId[o]].status = "cancelled"
      BY <1>8, EngineAssumption DEF EngineAssumption, CancelOrphans, Database
    <2>3. ClientId[o] \notin OpenIds => o \notin open
      BY DEF OpenIds
    <2> QED
      BY <1>a, <2>1, <2>2, <2>3
  <1> QED
    BY <1>1, <1>2, <1>3, <1>4, <1>5, <1>6, <1>7, <1>8 DEF Next, Step

\* The session and the position.
LEMMA PositionStep ==
    ASSUME EngineInv, PositionRecorded, BrokenMeansLost, Next
    PROVE  PositionRecorded' /\ BrokenMeansLost'
  <1> USE DEF EngineInv, TypeOK, TaskInv, PositionRecorded, BrokenMeansLost, memVars, dbVars, taskVars, Goto, Return
  <1>1. ASSUME NEW t \in Tasks, SimulateDone(t) \/ FillResult(t) \/ SimulateFills(t)
        PROVE  PositionRecorded' /\ BrokenMeansLost'
    BY <1>1 DEF SimulateDone, FillResult, SimulateFills
  <1>2. ASSUME NEW t \in Tasks, NEW o \in Orders, PlaceOrder(t, o) \/ CancelOrder(t, o) \/ ApplyFill(t, o)
        PROVE  PositionRecorded' /\ BrokenMeansLost'
    BY <1>2 DEF PlaceOrder, CancelOrder, ApplyFill
  <1>3. ASSUME NEW t \in Tasks, PersistOrder(t) \/ PersistTrade(t)
        PROVE  PositionRecorded' /\ BrokenMeansLost'
    <2>1. UNCHANGED <<base, sess, lost>> /\ db'.pos = db.pos
      BY <1>3 DEF PersistOrder, PersistTrade, Database
    <2>2. (\E u \in Tasks : pc[u] \in {"trade", "position"}) => \E u \in Tasks : pc'[u] \in {"trade", "position"}
      BY <1>3 DEF PersistOrder, PersistTrade
    <2> QED
      BY <2>1, <2>2
  <1>4. ASSUME NEW t \in Tasks, PersistPosition(t)
        PROVE  PositionRecorded' /\ BrokenMeansLost'
    BY <1>4 DEF PersistPosition, Database
  <1>5. ASSUME NEW t \in Tasks, PersistRaises(t)
        PROVE  PositionRecorded' /\ BrokenMeansLost'
    BY <1>5 DEF PersistRaises
  <1>6. CASE Commit \/ Rollback \/ CancelOrphans
    BY <1>6 DEF Commit, Rollback, CancelOrphans, Database
  <1> QED
    BY <1>1, <1>2, <1>3, <1>4, <1>5, <1>6 DEF Next, Step

-----------------------------------------------------------------------------
(* The trades.                                                             *)

\* n more units of one member that has a of them.
More(x, a, n) == {x} \X ((a + 1)..(a + n))

LEMMA UnitsAdded ==
    ASSUME NEW A, IsFiniteSet(A), NEW x, NEW a \in Nat, NEW n \in Nat, A \cap More(x, a, n) = {}
    PROVE  /\ IsFiniteSet(A \cup More(x, a, n))
           /\ Cardinality(A \cup More(x, a, n)) = Cardinality(A) + n
  <1>1. PICK B : B = (a + 1)..(a + n)
    OBVIOUS
  <1>2. IsFiniteSet(B) /\ Cardinality(B) = n
    <2>1. a + 1 \in Int /\ a + n \in Int /\ (a + 1 > a + n <=> n = 0) /\ a + n - (a + 1) + 1 = n
      OBVIOUS
    <2>2. IsFiniteSet(B) /\ Cardinality(B) = IF a + 1 > a + n THEN 0 ELSE a + n - (a + 1) + 1
      BY <1>1, <2>1, FS_Interval
    <2> QED
      BY <2>1, <2>2
  <1>3. PICK C : C = {x} \X B /\ C = More(x, a, n)
    BY <1>1 DEF More
  <1>4. IsFiniteSet(C) /\ Cardinality(C) = n
    <2>1. IsFiniteSet({x}) /\ Cardinality({x}) = 1
      BY FS_Singleton
    <2>2. IsFiniteSet(C) /\ Cardinality(C) = Cardinality({x}) * Cardinality(B)
      BY <1>2, <1>3, <2>1, FS_Product
    <2>3. 1 * n = n
      OBVIOUS
    <2> QED
      BY <1>2, <2>1, <2>2, <2>3
  <1>5. A \cap C = {}
    BY <1>1, <1>3
  <1>6. IsFiniteSet(A \cup C) /\ Cardinality(A \cup C) = Cardinality(A) + Cardinality(C) - Cardinality(A \cap C)
    BY <1>4, FS_Union
  <1>7. Cardinality(A) \in Nat /\ Cardinality(A \cap C) = 0
    BY <1>5, FS_CardinalityType, FS_EmptySet
  <1>8. Cardinality(A \cup C) = Cardinality(A) + n
    BY <1>4, <1>6, <1>7
  <1> QED
    BY <1>3, <1>6, <1>8

\* What is in Units.
LEMMA UnitIn ==
    ASSUME NEW q, NEW S, NEW p
    PROVE  p \in Units(q, S) <=> \E x \in S : p \in {x} \X (1..q[x])
  BY DEF Units

\* Units depend on the quantities of the members only.
LEMMA UnitsSame ==
    ASSUME NEW q, NEW r, NEW S, \A x \in S : q[x] = r[x]
    PROVE  Units(q, S) = Units(r, S)
  BY DEF Units

\* A member's quantity grows.
Grown(q, r, S, x, n) ==
    x \in S /\ q[x] \in Nat /\ r[x] = q[x] + n /\ \A y \in S : y # x => r[y] = q[y]

LEMMA UnitsGrow ==
    ASSUME NEW q, NEW r, NEW S, NEW x, NEW n \in Nat, Grown(q, r, S, x, n), IsFiniteSet(Units(q, S))
    PROVE  IsFiniteSet(Units(r, S)) /\ Cardinality(Units(r, S)) = Cardinality(Units(q, S)) + n
  <1>0. x \in S /\ q[x] \in Nat /\ r[x] = q[x] + n /\ \A y \in S : y # x => r[y] = q[y]
    BY DEF Grown
  <1>1. PICK a \in Nat : a = q[x]
    BY <1>0
  <1>2. PICK C : C = {x} \X ((a + 1)..(a + n)) /\ C = More(x, a, n)
    BY DEF More
  <1>3. Units(r, S) = Units(q, S) \cup C
    <2>1. 1..(a + n) = (1..a) \cup ((a + 1)..(a + n))
      OBVIOUS
    <2>2. {x} \X (1..r[x]) = ({x} \X (1..q[x])) \cup C
      BY <1>0, <1>1, <1>2, <2>1
    <2>3. \A y \in S : y # x => {y} \X (1..r[y]) = {y} \X (1..q[y])
      BY <1>0
    <2>4. ASSUME NEW p PROVE p \in Units(r, S) <=> p \in Units(q, S) \cup C
      <3>1. ASSUME p \in Units(r, S) PROVE p \in Units(q, S) \cup C
        <4>1. PICK y \in S : p \in {y} \X (1..r[y])
          BY <3>1, UnitIn
        <4>2. CASE y = x
          <5>1. p \in {x} \X (1..q[x]) \/ p \in C
            BY <2>2, <4>1, <4>2
          <5> QED
            BY <1>0, <5>1, UnitIn
        <4>3. CASE y # x
          <5>1. p \in {y} \X (1..q[y])
            BY <2>3, <4>1, <4>3
          <5> QED
            BY <1>0, <5>1, UnitIn
        <4> QED
          BY <4>2, <4>3
      <3>2. ASSUME p \in C PROVE p \in Units(r, S)
        <4>1. p \in {x} \X (1..r[x])
          BY <2>2, <3>2
        <4> QED
          BY <1>0, <4>1, UnitIn
      <3>3. ASSUME p \in Units(q, S) PROVE p \in Units(r, S)
        <4>1. PICK y \in S : p \in {y} \X (1..q[y])
          BY <3>3, UnitIn
        <4>2. p \in {y} \X (1..r[y])
          BY <2>2, <2>3, <4>1
        <4> QED
          BY <4>2, UnitIn
      <3> QED
        BY <3>1, <3>2, <3>3
    <2> QED
      BY <2>4
  <1>4. Units(q, S) \cap C = {}
    <2> SUFFICES ASSUME NEW p, p \in Units(q, S), p \in C PROVE FALSE
      OBVIOUS
    <2>1. PICK y \in S : p \in {y} \X (1..q[y])
      BY UnitIn
    <2>2. p[1] = x /\ p[2] \in (a + 1)..(a + n)
      BY <1>2
    <2>3. p[1] = y /\ p[2] \in 1..q[y]
      BY <2>1
    <2>4. p[2] \in 1..a
      BY <1>1, <2>2, <2>3
    <2> QED
      BY <2>2, <2>4
  <1>5. Units(q, S) \cap More(x, a, n) = {} /\ Units(r, S) = Units(q, S) \cup More(x, a, n)
    BY <1>2, <1>3, <1>4
  <1>6. /\ IsFiniteSet(Units(q, S) \cup More(x, a, n))
        /\ Cardinality(Units(q, S) \cup More(x, a, n)) = Cardinality(Units(q, S)) + n
    <2>1. Units(q, S) \cap More(x, a, n) = {}
      BY <1>5
    <2> QED
      BY <2>1, UnitsAdded, Zenon
  <1> QED
    BY <1>5, <1>6

\* A new member.
LEMMA UnitsJoin ==
    ASSUME NEW q, NEW S, NEW x, x \notin S, q[x] \in Nat, IsFiniteSet(Units(q, S))
    PROVE  IsFiniteSet(Units(q, S \cup {x})) /\ Cardinality(Units(q, S \cup {x})) = Cardinality(Units(q, S)) + q[x]
  <1>1. PICK n \in Nat : n = q[x]
    OBVIOUS
  <1>2. PICK C : C = {x} \X ((0 + 1)..(0 + n)) /\ C = More(x, 0, n)
    BY DEF More
  <1>3. C = {x} \X (1..q[x])
    BY <1>1, <1>2
  <1>4. Units(q, S \cup {x}) = Units(q, S) \cup C
    <2>1. ASSUME NEW p PROVE p \in Units(q, S \cup {x}) <=> p \in Units(q, S) \cup C
      <3>1. ASSUME p \in Units(q, S \cup {x}) PROVE p \in Units(q, S) \cup C
        <4>1. PICK y \in S \cup {x} : p \in {y} \X (1..q[y])
          BY <3>1, UnitIn
        <4>2. CASE y = x
          BY <1>3, <4>1, <4>2
        <4>3. CASE y \in S
          BY <4>1, <4>3, UnitIn
        <4> QED
          BY <4>2, <4>3
      <3>2. ASSUME p \in Units(q, S) PROVE p \in Units(q, S \cup {x})
        <4>1. PICK y \in S : p \in {y} \X (1..q[y])
          BY <3>2, UnitIn
        <4>2. y \in S \cup {x}
          OBVIOUS
        <4> QED
          BY <4>1, <4>2, UnitIn
      <3>3. ASSUME p \in C PROVE p \in Units(q, S \cup {x})
        <4>1. x \in S \cup {x} /\ p \in {x} \X (1..q[x])
          BY <1>3, <3>3
        <4> QED
          BY <4>1, UnitIn
      <3> QED
        BY <3>1, <3>2, <3>3
    <2> QED
      BY <2>1
  <1>5. Units(q, S) \cap C = {}
    <2> SUFFICES ASSUME NEW p, p \in Units(q, S), p \in C PROVE FALSE
      OBVIOUS
    <2>1. PICK y \in S : p \in {y} \X (1..q[y])
      BY UnitIn
    <2>2. p[1] = x
      BY <1>3
    <2>3. p[1] = y
      BY <2>1
    <2> QED
      BY <2>2, <2>3
  <1>6. Units(q, S) \cap More(x, 0, n) = {} /\ Units(q, S \cup {x}) = Units(q, S) \cup More(x, 0, n)
    BY <1>2, <1>4, <1>5
  <1>7. 0 \in Nat
    OBVIOUS
  <1>8. /\ IsFiniteSet(Units(q, S) \cup More(x, 0, n))
        /\ Cardinality(Units(q, S) \cup More(x, 0, n)) = Cardinality(Units(q, S)) + n
    BY <1>6, <1>7, UnitsAdded
  <1> QED
    BY <1>1, <1>6, <1>8

\* The tasks whose trade of an order under id i is under way, and those orders.
Trading(i) == {t \in Tasks : pc[t] = "trade" /\ ClientId[cur[t]] = i}
OrdersOf(i) == {o \in Orders : ClientId[o] = i}

\* The sums are finite; TradesRecorded compares them.
TradesInv ==
    /\ \A i \in Ids : IsFiniteSet(Traded(i)) /\ IsFiniteSet(Underway(i))
    /\ TradesRecorded

\* Initially nothing has been traded.
LEMMA InitTrades == Init => TradesInv
  <1> SUFFICES ASSUME Init PROVE TradesInv
    OBVIOUS
  <1>1. ASSUME NEW i \in Ids PROVE Traded(i) = {} /\ Underway(i) = {}
    <2>1. Underway(i) = {}
      BY DEF Init, Underway, Units
    <2>2. \A o \in Orders : {o} \X (1..filled[o]) = {}
      BY DEF Init
    <2>3. Traded(i) = {}
      BY <2>2 DEF Traded, Units
    <2> QED
      BY <2>1, <2>3
  <1>2. \A i \in Ids : db.sold[i] = 0
    BY DEF Init, Fresh
  <1>3. IsFiniteSet({}) /\ Cardinality({}) = 0 /\ 0 + 0 = 0
    BY FS_EmptySet
  <1> QED
    BY <1>1, <1>2, <1>3 DEF TradesInv, TradesRecorded

\* Steps that neither fill nor write a trade, and may give up the writes of an id.
LEMMA TradesAside ==
    ASSUME TradesInv, UNCHANGED filled, lost \subseteq lost',
           \A t \in Tasks : pc'[t] = "trade" <=> pc[t] = "trade",
           \A t \in Tasks : pc[t] = "trade" => amt'[t] = amt[t] /\ cur'[t] = cur[t],
           \A i \in Ids \ lost' : db'.sold[i] = db.sold[i]
    PROVE  TradesInv'
  <1>1. ASSUME NEW i \in Ids PROVE Traded(i)' = Traded(i) /\ Underway(i)' = Underway(i)
    <2>1. Traded(i)' = Traded(i)
      BY DEF Traded
    <2>2. Trading(i)' = Trading(i) /\ \A t \in Trading(i) : amt'[t] = amt[t]
      BY DEF Trading
    <2>3. Units(amt', Trading(i)) = Units(amt, Trading(i))
      BY <2>2, UnitsSame
    <2> QED
      BY <2>1, <2>2, <2>3 DEF Underway, Trading
  <1> QED
    BY <1>1 DEF TradesInv, TradesRecorded

\* _apply_fill: what an order has traded grows by what the task is about to write.
LEMMA TradesFill ==
    ASSUME EngineInv, TradesInv, NEW t \in Tasks, NEW o \in Orders, ApplyFill(t, o)
    PROVE  TradesInv'
  <1> USE DEF EngineInv, TypeOK
  <1>1. PICK n \in Nat : /\ filled' = [filled EXCEPT ![o] = @ + n]
                         /\ amt' = [amt EXCEPT ![t] = n]
    BY MatchWithinRemaining DEF ApplyFill
  <1>2. /\ pc[t] = "sim" /\ pc' = [pc EXCEPT ![t] = "trade"] /\ cur' = [cur EXCEPT ![t] = o]
        /\ UNCHANGED <<db, lost>>
    BY DEF ApplyFill, Goto, dbVars
  <1>3. ClientId[o] \in Ids /\ filled[o] \in Nat
    BY EngineAssumption DEF EngineAssumption
  <1>4. ASSUME NEW i \in Ids, i # ClientId[o] PROVE Traded(i)' = Traded(i) /\ Underway(i)' = Underway(i)
    <2>1. \A p \in OrdersOf(i) : filled'[p] = filled[p]
      BY <1>1, <1>4 DEF OrdersOf
    <2>2. Trading(i)' = Trading(i) /\ \A u \in Trading(i) : amt'[u] = amt[u]
      BY <1>1, <1>2, <1>4 DEF Trading
    <2>3. Units(filled', OrdersOf(i)) = Units(filled, OrdersOf(i))
      BY <2>1, UnitsSame
    <2>4. Units(amt', Trading(i)) = Units(amt, Trading(i))
      BY <2>2, UnitsSame
    <2> QED
      BY <2>2, <2>3, <2>4 DEF Traded, Underway, OrdersOf, Trading
  <1>5. ASSUME NEW i \in Ids, i = ClientId[o]
        PROVE  /\ IsFiniteSet(Traded(i)') /\ Cardinality(Traded(i)') = Cardinality(Traded(i)) + n
               /\ IsFiniteSet(Underway(i)') /\ Cardinality(Underway(i)') = Cardinality(Underway(i)) + n
    <2>1. o \in OrdersOf(i) /\ filled'[o] = filled[o] + n /\ \A p \in OrdersOf(i) : p # o => filled'[p] = filled[p]
      BY <1>1, <1>5 DEF OrdersOf
    <2>2. IsFiniteSet(Units(filled, OrdersOf(i))) /\ IsFiniteSet(Units(amt, Trading(i)))
      BY DEF TradesInv, Traded, Underway, OrdersOf, Trading
    <2>3. /\ IsFiniteSet(Units(filled', OrdersOf(i)))
          /\ Cardinality(Units(filled', OrdersOf(i))) = Cardinality(Units(filled, OrdersOf(i))) + n
      <3>1. Grown(filled, filled', OrdersOf(i), o, n)
        BY <1>3, <2>1 DEF Grown
      <3> QED
        BY <2>2, <3>1, UnitsGrow
    <2>4. t \notin Trading(i) /\ Trading(i)' = Trading(i) \cup {t} /\ \A u \in Trading(i) : amt[u] = amt'[u]
      BY <1>1, <1>2, <1>5 DEF Trading
    <2>5. Units(amt, Trading(i)) = Units(amt', Trading(i))
      BY <2>4, UnitsSame
    <2>6. amt'[t] = n
      BY <1>1
    <2>7. /\ IsFiniteSet(Units(amt', Trading(i) \cup {t}))
          /\ Cardinality(Units(amt', Trading(i) \cup {t})) = Cardinality(Units(amt', Trading(i))) + amt'[t]
      BY <2>2, <2>4, <2>5, <2>6, UnitsJoin
    <2> QED
      BY <2>3, <2>4, <2>5, <2>6, <2>7 DEF Traded, Underway, OrdersOf, Trading
  <1>6. ASSUME NEW i \in Ids PROVE IsFiniteSet(Traded(i)') /\ IsFiniteSet(Underway(i)')
    BY <1>4, <1>5 DEF TradesInv
  <1>7. ASSUME NEW i \in Ids \ lost'
        PROVE  db'.sold[i] + Cardinality(Underway(i)') = Cardinality(Traded(i)')
    <2>1. db'.sold[i] + Cardinality(Underway(i)) = Cardinality(Traded(i))
      BY <1>2 DEF TradesInv, TradesRecorded
    <2>2. db'.sold[i] \in Nat /\ Cardinality(Underway(i)) \in Nat
      BY <1>2, FS_CardinalityType DEF Database, TradesInv
    <2>3. CASE i = ClientId[o]
      BY <1>5, <2>1, <2>2, <2>3
    <2>4. CASE i # ClientId[o]
      BY <1>4, <2>1, <2>4
    <2> QED
      BY <2>3, <2>4
  <1> QED
    BY <1>6, <1>7 DEF TradesInv, TradesRecorded

\* _persist_trade, and a write that raises: the task's trade is written or given up.
LEMMA TradeEnds ==
    ASSUME EngineInv, TradesInv, NEW t \in Tasks, NEW i \in Ids, t \in Trading(i), UNCHANGED filled,
           pc'[t] # "trade", \A u \in Tasks \ {t} : pc'[u] = pc[u] /\ cur'[u] = cur[u] /\ amt'[u] = amt[u],
           \/ lost' = lost /\ db'.sold[i] = db.sold[i] + amt[t] /\ \A j \in Ids \ {i} : db'.sold[j] = db.sold[j]
           \/ lost' = lost \cup {i} /\ UNCHANGED db
    PROVE  TradesInv'
  <1>1. ASSUME NEW j \in Ids PROVE Traded(j)' = Traded(j)
    BY DEF Traded
  <1>2. ASSUME NEW j \in Ids, j # i PROVE Underway(j)' = Underway(j)
    <2>1. Trading(j)' = Trading(j) /\ \A u \in Trading(j) : amt'[u] = amt[u]
      BY <1>2 DEF Trading
    <2>2. Units(amt', Trading(j)) = Units(amt, Trading(j))
      BY <2>1, UnitsSame
    <2> QED
      BY <2>1, <2>2 DEF Underway, Trading
  <1>3. IsFiniteSet(Underway(i)') /\ Cardinality(Underway(i)) = Cardinality(Underway(i)') + amt[t]
    <2>1. PICK S : S = Trading(i) \ {t}
      OBVIOUS
    <2>2. t \notin S /\ Trading(i) = S \cup {t} /\ Trading(i)' = S /\ \A u \in S : amt'[u] = amt[u]
      BY <2>1 DEF Trading
    <2>3. Units(amt', S) = Units(amt, S)
      BY <2>2, UnitsSame
    <2>4. Units(amt, S) \subseteq Units(amt, S \cup {t})
      BY DEF Units
    <2>5. IsFiniteSet(Units(amt, S \cup {t}))
      BY <2>2 DEF TradesInv, Underway, Trading
    <2>6. IsFiniteSet(Units(amt, S))
      BY <2>4, <2>5, FS_Subset
    <2>7. amt[t] \in Nat
      BY DEF EngineInv, TypeOK
    <2>8. Cardinality(Units(amt, S \cup {t})) = Cardinality(Units(amt, S)) + amt[t]
      BY <2>2, <2>6, <2>7, UnitsJoin
    <2> QED
      BY <2>2, <2>3, <2>6, <2>8 DEF Underway, Trading
  <1>4. ASSUME NEW j \in Ids PROVE IsFiniteSet(Traded(j)') /\ IsFiniteSet(Underway(j)')
    BY <1>1, <1>2, <1>3 DEF TradesInv
  <1>5. ASSUME NEW j \in Ids \ lost'
        PROVE  db'.sold[j] + Cardinality(Underway(j)') = Cardinality(Traded(j)')
    <2>1. db.sold[j] + Cardinality(Underway(j)) = Cardinality(Traded(j))
      BY DEF TradesInv, TradesRecorded
    <2>2. CASE j # i
      BY <1>1, <1>2, <2>1, <2>2
    <2>3. CASE j = i
      <3>1. db'.sold[i] = db.sold[i] + amt[t]
        BY <2>3
      <3>2. db.sold[i] \in Nat /\ amt[t] \in Nat /\ Cardinality(Underway(i)') \in Nat
        BY <1>3, FS_CardinalityType DEF EngineInv, TypeOK, Database
      <3>3. db'.sold[i] + Cardinality(Underway(i)') = db.sold[i] + Cardinality(Underway(i))
        BY <1>3, <3>1, <3>2
      <3> QED
        BY <1>1, <2>1, <2>3, <3>3
    <2> QED
      BY <2>2, <2>3
  <1> QED
    BY <1>4, <1>5 DEF TradesInv, TradesRecorded

\* Every step.
LEMMA TradesStep ==
    ASSUME EngineInv, TradesInv, Next
    PROVE  TradesInv'
  <1> USE DEF EngineInv, TypeOK, memVars, dbVars, taskVars, Goto, Return
  <1>1. ASSUME NEW t \in Tasks, SimulateDone(t) \/ FillResult(t) \/ SimulateFills(t) \/ PersistPosition(t)
        PROVE  TradesInv'
    <2>1. /\ UNCHANGED <<filled, lost>> /\ db'.sold = db.sold
          /\ \A u \in Tasks : (pc'[u] = "trade" <=> pc[u] = "trade") /\ (pc[u] = "trade" => amt'[u] = amt[u] /\ cur'[u] = cur[u])
      BY <1>1 DEF SimulateDone, FillResult, SimulateFills, PersistPosition, Database
    <2> QED
      BY <2>1, TradesAside
  <1>2. ASSUME NEW t \in Tasks, NEW o \in Orders, PlaceOrder(t, o) \/ CancelOrder(t, o)
        PROVE  TradesInv'
    <2>1. /\ UNCHANGED <<filled, lost, db>>
          /\ \A u \in Tasks : (pc'[u] = "trade" <=> pc[u] = "trade") /\ (pc[u] = "trade" => amt'[u] = amt[u] /\ cur'[u] = cur[u])
      BY <1>2 DEF PlaceOrder, CancelOrder
    <2> QED
      BY <2>1, TradesAside
  <1>3. ASSUME NEW t \in Tasks, PersistOrder(t)
        PROVE  TradesInv'
    <2>1. /\ UNCHANGED <<filled, lost>> /\ db'.sold = db.sold
          /\ \A u \in Tasks : (pc'[u] = "trade" <=> pc[u] = "trade") /\ (pc[u] = "trade" => amt'[u] = amt[u] /\ cur'[u] = cur[u])
      BY <1>3 DEF PersistOrder, Database
    <2> QED
      BY <2>1, TradesAside
  <1>4. ASSUME NEW t \in Tasks, PersistTrade(t)
        PROVE  TradesInv'
    <2>1. PICK i \in Ids : i = ClientId[cur[t]]
      BY <1>4, EngineAssumption DEF EngineAssumption, PersistTrade, TaskInv
    <2>2. t \in Trading(i)
      BY <1>4, <2>1 DEF PersistTrade, Trading
    <2>3. /\ UNCHANGED <<filled, lost>> /\ pc'[t] # "trade"
          /\ \A u \in Tasks \ {t} : pc'[u] = pc[u] /\ cur'[u] = cur[u] /\ amt'[u] = amt[u]
      BY <1>4 DEF PersistTrade
    <2>4. db'.sold[i] = db.sold[i] + amt[t] /\ \A j \in Ids \ {i} : db'.sold[j] = db.sold[j]
      BY <1>4, <2>1 DEF PersistTrade, Database
    <2> QED
      BY <2>2, <2>3, <2>4, TradeEnds
  <1>5. ASSUME NEW t \in Tasks, PersistRaises(t)
        PROVE  TradesInv'
    <2>1. PICK i \in Ids : i = ClientId[cur[t]]
      BY <1>5, EngineAssumption DEF EngineAssumption, PersistRaises, TaskInv
    <2>2. /\ UNCHANGED <<filled, db>> /\ pc'[t] = "idle" /\ lost' = lost \cup {i}
          /\ \A u \in Tasks \ {t} : pc'[u] = pc[u] /\ cur'[u] = cur[u] /\ amt'[u] = amt[u]
      BY <1>5, <2>1 DEF PersistRaises
    <2>3. CASE pc[t] = "trade"
      <3>1. t \in Trading(i)
        BY <2>1, <2>3 DEF Trading
      <3> QED
        BY <2>2, <3>1, TradeEnds
    <2>4. CASE pc[t] # "trade"
      BY <2>2, <2>4, TradesAside
    <2> QED
      BY <2>3, <2>4
  <1>6. CASE Commit \/ Rollback \/ CancelOrphans
    <2>1. /\ UNCHANGED <<filled, pc, amt, cur>> /\ lost \subseteq lost'
          /\ \A i \in Ids \ lost' : db'.sold[i] = db.sold[i]
      BY <1>6 DEF Commit, Rollback, CancelOrphans, Database
    <2> QED
      BY <2>1, TradesAside
  <1>7. ASSUME NEW t \in Tasks, NEW o \in Orders, ApplyFill(t, o)
        PROVE  TradesInv'
    BY <1>7, TradesFill
  <1> QED
    BY <1>1, <1>2, <1>3, <1>4, <1>5, <1>6, <1>7 DEF Next, Step

-----------------------------------------------------------------------------
\* For every number of tasks, orders and ids, with failures and rollbacks: a filled
\* order does not stay in open_orders, the orders table shows what memory holds, the
\* trades table every fill once and the positions table the balance, unless a write
\* is under way or was lost.
THEOREM MemoryRecordedTheorem == Spec => []MemoryRecorded
  <1>1. EngineInv /\ MemoryInv /\ TradesInv /\ [Next]_vars => MemoryInv' /\ TradesInv'
    <2> SUFFICES ASSUME EngineInv, MemoryInv, TradesInv, [Next]_vars PROVE MemoryInv' /\ TradesInv'
      OBVIOUS
    <2>1. CASE UNCHANGED vars
      <3>1. MemoryInv'
        BY <2>1 DEF MemoryInv, NewOrdersAside, SpentOrdersHeld, Filling, Remaining, RowInSync, Writing,
                    PositionRecorded, BrokenMeansLost, vars, memVars, dbVars, taskVars
      <3>2. UNCHANGED <<filled, db, lost, pc, amt, cur>>
        BY <2>1 DEF vars, memVars, dbVars, taskVars
      <3>3. TradesInv'
        BY <3>2, TradesAside
      <3> QED
        BY <3>1, <3>3
    <2>2. CASE Next
      BY <2>2, NewOrdersStep, SpentOrdersStep, RowInSyncStep, PositionStep, TradesStep DEF MemoryInv
    <2> QED
      BY <2>1, <2>2
  <1>2. MemoryInv /\ TradesInv => MemoryRecorded
    BY DEF MemoryInv, TradesInv, MemoryRecorded, SpentOrdersHeld, Filling, NoSpentOrderOpen, Writing
  <1> QED
    BY InitMemory, InitTrades, EngineInvariant, <1>1, <1>2, PTL DEF Spec
=============================================================================
