----------------------- MODULE TradingControl_proofs ------------------------
(***************************************************************************)
(* Proofs of the safety properties of TradingControl, for every mode,      *)
(* number of symbols, ladder size and sequence of requests.                *)
(***************************************************************************)
EXTENDS TradingControl, TLAPS

-----------------------------------------------------------------------------
(* What the tick's loops guarantee: inside the loop over the symbols one is *)
(* still to do, and a placement at a venue belongs to a quote of the batch. *)

LoopOK ==
    /\ pc \in {"volume", "sync", "submit", "live"} => left > 0
    /\ pc = "live" => batch > 0 /\ Mode \in External

ControlInv == ControlOK /\ LoopOK

-----------------------------------------------------------------------------
(* Types.  The Boolean variables and the others are separate obligations.  *)

\* Every initial state has the types of TypeOK.
LEMMA InitType == Init => TypeOK /\ LoopOK
  <1> SUFFICES ASSUME Init PROVE TypeOK /\ LoopOK
    OBVIOUS
  <1>1. SwitchesOK
    BY Zenon DEF Init, SwitchesOK, Loaded
  <1>2. ControlOK
    BY ConstantsAssumption DEF ConstantsAssumption, Init, ControlOK, Commands, PlainCommands, ConfigCommands
  <1>3. LoopOK
    BY DEF Init, LoopOK
  <1> QED
    BY <1>1, <1>2, <1>3 DEF TypeOK

\* Every step keeps the flags, latches and the key Boolean.
LEMMA SwitchesStep == SwitchesOK /\ [Next]_vars => SwitchesOK'
  <1> SUFFICES ASSUME SwitchesOK, [Next]_vars PROVE SwitchesOK'
    OBVIOUS
  <1> USE DEF SwitchesOK, opVars, flagVars, latchVars, tickVars, conVars, ordVars, histVars,
          faultVars, Accept
  <1>1. CASE Operator
    <2>1. CASE KillSwitchEnable
      BY <2>1, Zenon DEF KillSwitchEnable, SetKillKey
    <2>2. CASE KillSwitchDisable
      BY <2>2, Zenon DEF KillSwitchDisable
    <2>3. CASE EmergencyDisable
      BY <2>3, Zenon DEF EmergencyDisable, SetKillKey
    <2>4. CASE EmergencyEnable
      BY <2>4, Zenon DEF EmergencyEnable
    <2>5. ASSUME NEW c \in PlainCommands, PlainRequest(c) PROVE SwitchesOK'
      BY <2>5, Zenon DEF PlainRequest
    <2>6. ASSUME NEW c \in ConfigCommands, UpdateDomain(c) PROVE SwitchesOK'
      BY <2>6, Zenon DEF UpdateDomain
    <2>7. ASSUME NEW c \in Commands, Publish(c) PROVE SwitchesOK'
      BY <2>7, Zenon DEF Publish
    <2> QED
      BY <1>1, <2>1, <2>2, <2>3, <2>4, <2>5, <2>6, <2>7 DEF Operator
  <1>2. CASE TickStep
    <2>1. CASE TickStart
      BY <2>1, Zenon DEF TickStart, KillSwitchActive, KillSwitchInactive
    <2>2. CASE TickLoad
      BY <2>2, Zenon DEF TickLoad
    <2>3. CASE QuoteSymbol
      BY <2>3, Zenon DEF QuoteSymbol
    <2>4. CASE SubmitQuotes
      BY <2>4, Zenon DEF SubmitQuotes
    <2>5. CASE LadderSynced
      BY <2>5, Zenon DEF LadderSynced
    <2>6. CASE RejectQuote
      BY <2>6, Zenon DEF RejectQuote
    <2>7. CASE LiveAnswer
      BY <2>7, Zenon DEF LiveAnswer
    <2>8. CASE QuotesDone
      BY <2>8, Zenon DEF QuotesDone
    <2>9. CASE SymbolsDone
      BY <2>9, Zenon DEF SymbolsDone
    <2>10. CASE MaybeReconcile
      BY <2>10, Zenon DEF MaybeReconcile
    <2>11. CASE StaleDone
      BY <2>11, Zenon DEF StaleDone
    <2>12. ASSUME NEW o \in Orders, LifecycleCancel(o) PROVE SwitchesOK'
      BY <2>12, Zenon DEF LifecycleCancel, Remove
    <2>13. ASSUME NEW o \in Orders, PlaceQuote(o) PROVE SwitchesOK'
      BY <2>13, Zenon DEF PlaceQuote
    <2> QED
      BY <1>2, <2>1, <2>2, <2>3, <2>4, <2>5, <2>6, <2>7, <2>8, <2>9, <2>10, <2>11, <2>12, <2>13 DEF TickStep
  <1>3. CASE ConsumerStep
    <2>1. ASSUME NEW c \in ConfigCommands, HandleConfig(c) PROVE SwitchesOK'
      BY <2>1, Zenon DEF HandleConfig, Receive, SetFlags
    <2>2. CASE HandleDisable
      BY <2>2, Zenon DEF HandleDisable, Receive, SetFlags, BeginCancelAll
    <2>3. CASE HandlePause
      BY <2>3, Zenon DEF HandlePause, Receive, SetFlags
    <2>4. CASE HandleStop
      BY <2>4, Zenon DEF HandleStop, Receive, SetFlags, BeginCancelAll
    <2>5. CASE HandleClose
      BY <2>5, Zenon DEF HandleClose, Receive, Unused
    <2>6. CASE CloseDone
      BY <2>6, Zenon DEF CloseDone
    <2>7. CASE CancelDone
      BY <2>7, Zenon DEF CancelDone
    <2>8. CASE CancelAtVenue
      BY <2>8, Zenon DEF CancelAtVenue, Remove
    <2>9. ASSUME NEW c \in {"ENABLE_TRADING", "START"}, HandleEnable(c) PROVE SwitchesOK'
      BY <2>9, Zenon DEF HandleEnable, Receive, SetFlags, KillSwitchActive, KillSwitchInactive
    <2>10. ASSUME NEW c \in {"CANCEL_ALL_ORDERS", "RUNTIME_RESTART"}, HandleCancelAll(c) PROVE SwitchesOK'
      BY <2>10, Zenon DEF HandleCancelAll, Receive, BeginCancelAll
    <2>11. ASSUME NEW o \in Orders, CancelNext(o) PROVE SwitchesOK'
      BY <2>11, Zenon DEF CancelNext, Remove
    <2>12. ASSUME NEW o \in Orders, CloseAtVenue(o) PROVE SwitchesOK'
      BY <2>12, Zenon DEF CloseAtVenue, Unused
    <2> QED
      BY <1>3, <2>1, <2>2, <2>3, <2>4, <2>5, <2>6, <2>7, <2>8, <2>9, <2>10, <2>11, <2>12 DEF ConsumerStep
  <1>4. CASE TickFails
    BY <1>4, Zenon DEF TickFails
  <1>5. CASE IntervalElapses
    BY <1>5, Zenon DEF IntervalElapses
  <1>6. CASE IngestBook
    BY <1>6, Zenon DEF IngestBook
  <1>7. CASE Restart
    BY <1>7, Zenon DEF Restart, SetFlags, Remove, Loaded
  <1>8. ASSUME NEW o \in Orders, Fill(o) PROVE SwitchesOK'
    BY <1>8, Zenon DEF Fill, Remove
  <1>9. CASE UNCHANGED vars
    BY <1>9, Zenon DEF vars
  <1> QED
    BY <1>1, <1>2, <1>3, <1>4, <1>5, <1>6, <1>7, <1>8, <1>9 DEF Next

\* Every step keeps queues, counters, sets of orders and program counters typed.
LEMMA ControlStep == ControlInv /\ [Next]_vars => ControlInv'
  <1> SUFFICES ASSUME ControlInv, [Next]_vars PROVE ControlInv'
    OBVIOUS
  <1> USE ConstantsAssumption DEF ConstantsAssumption, Commands, PlainCommands, ConfigCommands,
          ControlInv, ControlOK, LoopOK, External, opVars, flagVars, latchVars, tickVars,
          conVars, ordVars, histVars, faultVars, Accept
  <1>1. CASE Operator
    <2>1. CASE KillSwitchEnable
      BY <2>1 DEF KillSwitchEnable, SetKillKey
    <2>2. CASE KillSwitchDisable
      BY <2>2 DEF KillSwitchDisable
    <2>3. CASE EmergencyDisable
      BY <2>3 DEF EmergencyDisable, SetKillKey
    <2>4. CASE EmergencyEnable
      BY <2>4 DEF EmergencyEnable
    <2>5. ASSUME NEW c \in PlainCommands, PlainRequest(c) PROVE ControlInv'
      BY <2>5 DEF PlainRequest
    <2>6. ASSUME NEW c \in ConfigCommands, UpdateDomain(c) PROVE ControlInv'
      BY <2>6 DEF UpdateDomain
    <2>7. ASSUME NEW c \in Commands, Publish(c) PROVE ControlInv'
      <3>1. pub' \in [Commands -> 0..3]
        BY <2>7 DEF Publish
      <3>2. bus' \in Seq(Commands) /\ Len(bus') <= MaxBus
        BY <2>7 DEF Publish
      <3> QED
        BY <2>7, <3>1, <3>2 DEF Publish
    <2> QED
      BY <1>1, <2>1, <2>2, <2>3, <2>4, <2>5, <2>6, <2>7 DEF Operator
  <1>2. CASE TickStep
    <2>1. CASE TickStart
      BY <2>1 DEF TickStart, KillSwitchActive, KillSwitchInactive
    <2>2. CASE TickLoad
      BY <2>2 DEF TickLoad
    <2>3. CASE QuoteSymbol
      BY <2>3 DEF QuoteSymbol
    <2>4. CASE SubmitQuotes
      BY <2>4 DEF SubmitQuotes
    <2>5. CASE LadderSynced
      BY <2>5 DEF LadderSynced
    <2>6. CASE RejectQuote
      BY <2>6 DEF RejectQuote
    <2>7. CASE LiveAnswer
      BY <2>7 DEF LiveAnswer
    <2>8. CASE QuotesDone
      BY <2>8 DEF QuotesDone
    <2>9. CASE SymbolsDone
      BY <2>9 DEF SymbolsDone
    <2>10. CASE MaybeReconcile
      BY <2>10 DEF MaybeReconcile
    <2>11. CASE StaleDone
      BY <2>11 DEF StaleDone
    <2>12. ASSUME NEW o \in Orders, LifecycleCancel(o) PROVE ControlInv'
      BY <2>12 DEF LifecycleCancel, Remove
    <2>13. ASSUME NEW o \in Orders, PlaceQuote(o) PROVE ControlInv'
      BY <2>13 DEF PlaceQuote
    <2> QED
      BY <1>2, <2>1, <2>2, <2>3, <2>4, <2>5, <2>6, <2>7, <2>8, <2>9, <2>10, <2>11, <2>12, <2>13 DEF TickStep
  <1>3. CASE ConsumerStep
    <2>1. ASSUME NEW c \in ConfigCommands, HandleConfig(c) PROVE ControlInv'
      BY <2>1 DEF HandleConfig, Receive, SetFlags
    <2>2. CASE HandleDisable
      BY <2>2 DEF HandleDisable, Receive, SetFlags, BeginCancelAll
    <2>3. CASE HandlePause
      BY <2>3 DEF HandlePause, Receive, SetFlags
    <2>4. CASE HandleStop
      BY <2>4 DEF HandleStop, Receive, SetFlags, BeginCancelAll
    <2>5. CASE HandleClose
      BY <2>5 DEF HandleClose, Receive, Unused
    <2>6. CASE CloseDone
      BY <2>6 DEF CloseDone
    <2>7. CASE CancelDone
      BY <2>7 DEF CancelDone
    <2>8. CASE CancelAtVenue
      BY <2>8 DEF CancelAtVenue, Remove
    <2>9. ASSUME NEW c \in {"ENABLE_TRADING", "START"}, HandleEnable(c) PROVE ControlInv'
      BY <2>9 DEF HandleEnable, Receive, SetFlags, KillSwitchActive, KillSwitchInactive
    <2>10. ASSUME NEW c \in {"CANCEL_ALL_ORDERS", "RUNTIME_RESTART"}, HandleCancelAll(c) PROVE ControlInv'
      BY <2>10 DEF HandleCancelAll, Receive, BeginCancelAll
    <2>11. ASSUME NEW o \in Orders, CancelNext(o) PROVE ControlInv'
      BY <2>11 DEF CancelNext, Remove
    <2>12. ASSUME NEW o \in Orders, CloseAtVenue(o) PROVE ControlInv'
      BY <2>12 DEF CloseAtVenue, Unused
    <2> QED
      BY <1>3, <2>1, <2>2, <2>3, <2>4, <2>5, <2>6, <2>7, <2>8, <2>9, <2>10, <2>11, <2>12 DEF ConsumerStep
  <1>4. CASE TickFails
    BY <1>4 DEF TickFails
  <1>5. CASE IntervalElapses
    BY <1>5 DEF IntervalElapses
  <1>6. CASE IngestBook
    BY <1>6 DEF IngestBook
  <1>7. CASE Restart
    BY <1>7 DEF Restart, SetFlags, Remove, Loaded
  <1>8. ASSUME NEW o \in Orders, Fill(o) PROVE ControlInv'
    BY <1>8 DEF Fill, Remove
  <1>9. CASE UNCHANGED vars
    BY <1>9 DEF vars
  <1> QED
    BY <1>1, <1>2, <1>3, <1>4, <1>5, <1>6, <1>7, <1>8, <1>9 DEF Next

\* The types together with the tick's loop conditions are inductive.
LEMMA LoopInvariant == Spec => [](TypeOK /\ LoopOK)
  <1>1. TypeOK /\ LoopOK /\ [Next]_vars => TypeOK' /\ LoopOK'
    BY SwitchesStep, ControlStep DEF TypeOK, ControlInv
  <1> QED
    BY InitType, <1>1, PTL DEF Spec

\* Type correctness of the control path: whatever operators, the two tasks, failures
\* and restarts do, a tick never counts past its symbols or its batch.
THEOREM TypeCorrect == Spec => []TypeOK
  BY LoopInvariant, PTL

-----------------------------------------------------------------------------
(* How many quotes the running tick can still place.                       *)

\* The most quotes one tick submits.
FullTick == NSymbols * MaxQuotes

\* Quotes of the running batch that have not been placed yet.
InBatch ==
    IF pc \in {"sync", "submit"} THEN batch ELSE IF pc = "live" THEN batch - 1 ELSE 0

\* Quotes of the running tick that have not been placed yet.
Allowance ==
    IF pc \in {"sync", "submit", "live"} THEN (left - 1) * MaxQuotes + InBatch
    ELSE IF pc \in {"load", "quote", "volume"} THEN left * MaxQuotes
    ELSE 0

\* A smaller number of symbols leaves room for fewer quotes.
LEMMA QuotesMonotone ==
    ASSUME NEW n \in 0..NSymbols
    PROVE  /\ n * MaxQuotes \in Nat
           /\ FullTick \in Nat
           /\ n * MaxQuotes <= FullTick
           /\ n > 0 => (n - 1) * MaxQuotes \in Nat /\ n * MaxQuotes = (n - 1) * MaxQuotes + MaxQuotes
  BY ConstantsAssumption DEF ConstantsAssumption, FullTick

\* A tick never has more quotes left than one full tick submits.
LEMMA AllowanceBounded ==
    ControlInv => /\ InBatch \in 0..MaxQuotes
                  /\ Allowance \in Nat
                  /\ Allowance <= FullTick
  <1> SUFFICES ASSUME ControlInv
               PROVE  /\ InBatch \in 0..MaxQuotes
                      /\ Allowance \in Nat
                      /\ Allowance <= FullTick
    OBVIOUS
  <1>1. left \in 0..NSymbols /\ batch \in 0..MaxQuotes /\ MaxQuotes \in Nat /\ NSymbols \in Nat
    BY ConstantsAssumption DEF ControlInv, ControlOK, ConstantsAssumption
  <1>2. InBatch \in 0..MaxQuotes
    BY <1>1 DEF InBatch, ControlInv, LoopOK
  <1>3. CASE pc \in {"sync", "submit", "live"}
    BY <1>1, <1>2, <1>3, QuotesMonotone DEF Allowance, ControlInv, LoopOK
  <1>4. CASE pc \notin {"sync", "submit", "live"}
    BY <1>1, <1>2, <1>4, QuotesMonotone DEF Allowance
  <1> QED
    BY <1>2, <1>3, <1>4

-----------------------------------------------------------------------------
(* What the parts of the system leave alone.                               *)

\* Operators change neither the engine's state nor the history of its flags.
LEMMA OperatorFrame == Operator => UNCHANGED <<flagVars, latchVars, tickVars, conVars, ordVars, after, grace>>
  BY DEF Operator, KillSwitchEnable, KillSwitchDisable, EmergencyDisable, EmergencyEnable,
         PlainRequest, UpdateDomain, Publish, histVars

\* The consumer task changes neither the key nor the state of the tick.
LEMMA ConsumerFrame == ConsumerStep => UNCHANGED <<killKey, late, tickVars>>
  BY DEF ConsumerStep, HandleConfig, HandleDisable, HandlePause, HandleStop, HandleClose, CloseDone,
         CancelDone, CancelAtVenue, HandleEnable, HandleCancelAll, CancelNext, CloseAtVenue, Receive, SetFlags,
         opVars, histVars

-----------------------------------------------------------------------------
(* The kill switch key.                                                    *)

\* The inductive form of KillSwitchBounded: while the key is set, the quotes placed
\* since and those the running tick can still place are together one tick's.
KillInv ==
    (RedisFails => ~FailsOpen) =>
        /\ late <= FullTick
        /\ killKey => late + Allowance <= FullTick

\* No step lets the engine exceed one tick's quotes while the key is set.
LEMMA KillStep == ControlInv /\ KillInv /\ [Next]_vars => KillInv'
  <1> DEFINE Goal == late' <= FullTick /\ (killKey' => late' + Allowance' <= FullTick)
             Shrinks == Allowance' \in Nat /\ Allowance' <= Allowance
  <1> SUFFICES ASSUME ControlInv, KillInv, [Next]_vars, RedisFails => ~FailsOpen
               PROVE  Goal
    BY DEF KillInv, FailsOpen, FullTick
  <1> USE DEF opVars, histVars, tickVars
  <1>1. /\ late \in Nat /\ left \in 0..NSymbols /\ batch \in 0..MaxQuotes
        /\ NSymbols \in Nat /\ MaxQuotes \in Nat /\ LoopOK
    BY ConstantsAssumption DEF ControlInv, ControlOK, ConstantsAssumption
  <1>2. /\ FullTick \in Nat /\ Allowance \in Nat /\ Allowance <= FullTick
        /\ late <= FullTick /\ (killKey => late + Allowance <= FullTick)
    BY <1>1, AllowanceBounded, QuotesMonotone DEF KillInv
  <1>3. ASSUME UNCHANGED <<late, killKey>>, Shrinks PROVE Goal
    <2>1. late' <= FullTick
      BY <1>2, <1>3
    <2>2. ASSUME killKey' PROVE late' + Allowance' <= FullTick
      <3>1. killKey
        BY <1>3, <2>2, Zenon
      <3>2. late + Allowance <= FullTick
        BY <1>2, <3>1, Zenon
      <3>3. late' = late
        BY <1>3
      <3>4. PICK a \in Nat : a = Allowance' /\ a <= Allowance
        BY <1>3
      <3>5. a \in Nat /\ a <= Allowance
        BY <3>4
      <3>6. late + a <= FullTick
        BY <1>1, <1>2, <3>2, <3>5
      <3> QED
        BY <3>3, <3>4, <3>6
    <2> QED
      BY <2>1, <2>2
  <1>4. CASE UNCHANGED <<killKey, late, pc, left, batch>>
    <2>1. Allowance' = Allowance
      BY <1>4 DEF Allowance, InBatch
    <2> QED
      BY <1>2, <1>3, <1>4, <2>1
  <1>5. CASE Operator
    <2>1. UNCHANGED <<pc, left, batch>>
      BY <1>5, OperatorFrame
    <2>2. Allowance' = Allowance
      BY <2>1 DEF Allowance, InBatch
    <2>3. CASE KillSwitchEnable \/ EmergencyDisable
      BY <2>2, <2>3, <1>1, <1>2 DEF KillSwitchEnable, EmergencyDisable, SetKillKey
    <2>4. CASE KillSwitchDisable \/ EmergencyEnable
      BY <2>2, <2>4, <1>2 DEF KillSwitchDisable, EmergencyEnable
    <2>5. ASSUME NEW c, PlainRequest(c) \/ UpdateDomain(c) \/ Publish(c) PROVE Goal
      BY <2>2, <2>5, <1>2 DEF PlainRequest, UpdateDomain, Publish
    <2> QED
      BY <1>5, <2>3, <2>4, <2>5 DEF Operator
  <1>6. CASE ConsumerStep
    BY <1>4, <1>6, ConsumerFrame
  <1>7. CASE TickStart
    <2>1. CASE UNCHANGED <<pc, left>>
      BY <1>4, <1>7, <2>1 DEF TickStart
    <2>2. CASE KillSwitchInactive
      BY <1>2, <1>7, <2>2 DEF TickStart, KillSwitchInactive
    <2> QED
      BY <1>7, <2>1, <2>2 DEF TickStart
  <1>8. ASSUME NEW o \in Orders, PlaceQuote(o) PROVE Goal
    <2>1. Allowance' = Allowance - 1
      BY <1>1, <1>8, QuotesMonotone DEF PlaceQuote, Allowance, InBatch, LoopOK
    <2>2. killKey' = killKey /\ late' = IF killKey THEN late + 1 ELSE late
      BY <1>8 DEF PlaceQuote
    <2>3. Allowance >= 1
      BY <1>1, <1>8, QuotesMonotone DEF PlaceQuote, Allowance, InBatch, LoopOK
    <2> QED
      BY <1>1, <1>2, <2>1, <2>2, <2>3
  <1>9. CASE \/ QuoteSymbol \/ SubmitQuotes \/ LadderSynced \/ RejectQuote \/ LiveAnswer \/ QuotesDone
             \/ TickLoad \/ SymbolsDone \/ MaybeReconcile \/ StaleDone \/ TickFails \/ Restart
    <2>1. UNCHANGED <<killKey, late>>
      BY <1>9 DEF QuoteSymbol, SubmitQuotes, LadderSynced, RejectQuote, LiveAnswer, QuotesDone, TickLoad,
                   SymbolsDone, MaybeReconcile, StaleDone, TickFails, Restart, SetFlags
    <2>2. QuoteSymbol => Shrinks
      BY <1>1, QuotesMonotone DEF QuoteSymbol, Allowance
    <2>3. SubmitQuotes => Shrinks
      BY <1>1, QuotesMonotone DEF SubmitQuotes, Allowance, InBatch, LoopOK
    <2>4. LadderSynced \/ RejectQuote \/ LiveAnswer => Shrinks
      BY <1>1, QuotesMonotone DEF LadderSynced, RejectQuote, LiveAnswer, Allowance, InBatch, LoopOK
    <2>5. QuotesDone => Shrinks
      BY <1>1, QuotesMonotone DEF QuotesDone, Allowance, InBatch, LoopOK
    <2>6. TickLoad \/ SymbolsDone => Shrinks
      BY <1>1, <1>2, QuotesMonotone DEF TickLoad, SymbolsDone, Allowance
    <2>7. MaybeReconcile \/ StaleDone \/ TickFails \/ Restart => Shrinks
      <3>1. MaybeReconcile \/ StaleDone \/ TickFails \/ Restart => pc' \in {"idle", "stale"}
        BY DEF MaybeReconcile, StaleDone, TickFails, Restart
      <3> QED
        BY <1>2, <3>1 DEF Allowance
    <2> QED
      BY <1>3, <1>9, <2>1, <2>2, <2>3, <2>4, <2>5, <2>6, <2>7
  <1>10. CASE IntervalElapses \/ IngestBook
    BY <1>4, <1>10 DEF IntervalElapses, IngestBook
  <1>11. ASSUME NEW o \in Orders, LifecycleCancel(o) \/ Fill(o) PROVE Goal
    BY <1>4, <1>11 DEF LifecycleCancel, Fill
  <1>12. CASE UNCHANGED vars
    BY <1>4, <1>12 DEF vars
  <1> QED
    BY <1>5, <1>6, <1>7, <1>8, <1>9, <1>10, <1>11, <1>12 DEF Next, TickStep

\* For every mode that fails closed and every number of symbols and quotes: once
\* risk:kill_switch is set, the market maker creates at most the quotes of one tick.
THEOREM KillSwitchBoundedTheorem == Spec => []KillSwitchBounded
  <1>1. Init => KillInv
    BY ConstantsAssumption, QuotesMonotone DEF Init, KillInv, Allowance, ConstantsAssumption
  <1>2. TypeOK /\ LoopOK /\ KillInv /\ [Next]_vars => KillInv'
    BY KillStep DEF TypeOK, ControlInv
  <1>3. KillInv => KillSwitchBounded
    BY DEF KillInv, KillSwitchBounded, FullTick
  <1> QED
    BY LoopInvariant, <1>1, <1>2, <1>3, PTL DEF Spec

-----------------------------------------------------------------------------
(* trading_enabled.                                                        *)

\* The inductive form of SwitchedOffBounded: while trading is off, the quotes placed
\* since and those still in the batch are within the batch that was running.
SwitchInv == after <= grace /\ (~trading => after + InBatch <= grace)

\* No step places a quote beyond the batch that was running when trading went off.
LEMMA SwitchStep == ControlInv /\ SwitchInv /\ [Next]_vars => SwitchInv'
  <1> SUFFICES ASSUME ControlInv, SwitchInv, [Next]_vars PROVE SwitchInv'
    OBVIOUS
  <1> USE DEF flagVars, tickVars, histVars
  <1>1. /\ after \in Nat /\ grace \in Nat /\ batch \in Nat /\ InBatch \in Nat
        /\ pc = "live" => batch > 0
    BY AllowanceBounded, ConstantsAssumption DEF ControlInv, ControlOK, LoopOK, ConstantsAssumption
  <1>2. ASSUME UNCHANGED <<trading, after, grace, pc, batch>> PROVE SwitchInv'
    BY <1>2 DEF SwitchInv, InBatch
  <1>3. ASSUME NEW on \in BOOLEAN, SetFlags(on), UNCHANGED <<pc, batch>> \/ pc' = "idle" PROVE SwitchInv'
    BY <1>1, <1>3 DEF SetFlags, SwitchInv, InBatch
  <1>4. CASE Operator
    BY <1>2, <1>4, OperatorFrame
  <1>5. CASE ConsumerStep
    <2>1. UNCHANGED <<pc, batch>>
      BY <1>5, ConsumerFrame
    <2>2. (\E on \in BOOLEAN : SetFlags(on)) \/ UNCHANGED <<trading, after, grace>>
      BY <1>5 DEF ConsumerStep, HandleConfig, HandleDisable, HandlePause, HandleStop, HandleClose, CloseDone,
                  CancelDone, CancelAtVenue, HandleEnable, HandleCancelAll, CancelNext, CloseAtVenue
    <2> QED
      BY <1>2, <1>3, <2>1, <2>2
  <1>6. CASE Restart
    <2>1. pc' = "idle" /\ \E on \in Loaded : SetFlags(on)
      BY <1>6 DEF Restart
    <2> QED
      BY <1>1, <2>1 DEF SetFlags, SwitchInv, InBatch
  <1>7. CASE SubmitQuotes
    BY <1>1, <1>7 DEF SubmitQuotes, SwitchInv, InBatch
  <1>8. ASSUME NEW o \in Orders, PlaceQuote(o) PROVE SwitchInv'
    BY <1>1, <1>8 DEF PlaceQuote, SwitchInv, InBatch
  <1>9. CASE RejectQuote \/ LiveAnswer \/ LadderSynced
    BY <1>1, <1>9 DEF RejectQuote, LiveAnswer, LadderSynced, SwitchInv, InBatch
  <1>10. CASE TickStart \/ TickLoad \/ QuoteSymbol \/ QuotesDone \/ SymbolsDone \/ MaybeReconcile \/ StaleDone \/ TickFails
    <2>1. UNCHANGED <<trading, after, grace>>
      BY <1>10 DEF TickStart, TickLoad, QuoteSymbol, QuotesDone, SymbolsDone, MaybeReconcile, StaleDone, TickFails
    <2>2. pc' \notin {"sync", "submit", "live"}
      BY <1>10 DEF TickStart, TickLoad, QuoteSymbol, QuotesDone, SymbolsDone, MaybeReconcile, StaleDone, TickFails
    <2> QED
      BY <1>1, <2>1, <2>2 DEF SwitchInv, InBatch
  <1>11. CASE IntervalElapses \/ IngestBook
    BY <1>2, <1>11 DEF IntervalElapses, IngestBook
  <1>12. ASSUME NEW o \in Orders, LifecycleCancel(o) \/ Fill(o) PROVE SwitchInv'
    BY <1>2, <1>12 DEF LifecycleCancel, Fill
  <1>13. CASE UNCHANGED vars
    BY <1>2, <1>13 DEF vars
  <1> QED
    BY <1>4, <1>5, <1>6, <1>7, <1>8, <1>9, <1>10, <1>11, <1>12, <1>13 DEF Next, TickStep

\* For every instance: once trading is switched off, by whichever command and at
\* whichever await of the tick, only the batch already being submitted is placed.
THEOREM SwitchedOffBoundedTheorem == Spec => []SwitchedOffBounded
  <1>1. Init => SwitchInv
    BY DEF Init, SwitchInv, InBatch
  <1>2. TypeOK /\ LoopOK /\ SwitchInv /\ [Next]_vars => SwitchInv'
    BY SwitchStep DEF TypeOK, ControlInv
  <1>3. SwitchInv => SwitchedOffBounded
    BY DEF SwitchInv, SwitchedOffBounded
  <1> QED
    BY LoopInvariant, <1>1, <1>2, <1>3, PTL DEF Spec

-----------------------------------------------------------------------------
(* A handled DISABLE_TRADING.                                              *)

\* KillDrains is inductive: the kill switch closes the gate in the same step in
\* which cancel-all takes its list, so nothing is added that is not accounted for.
LEMMA DrainStep == ControlInv /\ KillDrains /\ [Next]_vars => KillDrains'
  <1> SUFFICES ASSUME ControlInv, KillDrains, [Next]_vars, Mode = "paper", riskKill'
               PROVE  open' \subseteq pend' \cup closing' \cup stuck'
    BY DEF KillDrains
  <1> DEFINE Goal == open' \subseteq pend' \cup closing' \cup stuck'
  <1> USE DEF latchVars, ordVars, conVars, External
  <1>1. ASSUME UNCHANGED <<riskKill, open, pend, closing, stuck>> PROVE Goal
    BY <1>1 DEF KillDrains
  <1>2. ASSUME NEW S, Remove(S), UNCHANGED riskKill, pend' = pend \/ pend' = pend \ S PROVE Goal
    BY <1>2 DEF KillDrains, Remove
  <1>3. ASSUME BeginCancelAll, UNCHANGED open PROVE Goal
    BY <1>3 DEF BeginCancelAll
  <1>4. CASE Operator
    BY <1>1, <1>4, OperatorFrame
  <1>5. CASE ConsumerStep
    <2>1. ASSUME NEW c, HandleConfig(c) PROVE Goal
      BY <2>1 DEF HandleConfig
    <2>2. CASE HandleDisable \/ HandleStop
      BY <1>3, <2>2 DEF HandleDisable, HandleStop
    <2>3. ASSUME NEW c, HandleCancelAll(c) PROVE Goal
      BY <1>3, <2>3 DEF HandleCancelAll
    <2>4. CASE HandlePause \/ CloseDone \/ CancelDone
      BY <1>1, <2>4 DEF HandlePause, CloseDone, CancelDone
    <2>5. ASSUME NEW c, HandleEnable(c) PROVE Goal
      BY <1>1, <2>5 DEF HandleEnable
    <2>6. CASE HandleClose
      BY <2>6 DEF HandleClose, KillDrains
    <2>7. ASSUME NEW o \in Orders, CancelNext(o) PROVE Goal
      BY <2>7 DEF CancelNext, KillDrains, Remove
    <2>8. ASSUME NEW o \in Orders, CloseAtVenue(o) PROVE Goal
      BY <2>8 DEF CloseAtVenue
    <2>9. CASE CancelAtVenue
      BY <2>9 DEF CancelAtVenue
    <2> QED
      BY <1>5, <2>1, <2>2, <2>3, <2>4, <2>5, <2>6, <2>7, <2>8, <2>9 DEF ConsumerStep
  <1>6. CASE Restart
    BY <1>6, Zenon DEF Restart
  <1>7. ASSUME NEW o \in Orders, PlaceQuote(o) PROVE Goal
    BY <1>7 DEF PlaceQuote, GatesOpen
  <1>8. CASE LiveAnswer
    BY <1>8 DEF LiveAnswer, ControlInv, LoopOK
  <1>9. CASE \/ TickStart \/ TickLoad \/ QuoteSymbol \/ SubmitQuotes \/ LadderSynced \/ RejectQuote \/ QuotesDone
             \/ SymbolsDone \/ MaybeReconcile \/ StaleDone \/ TickFails
    BY <1>1, <1>9 DEF TickStart, TickLoad, QuoteSymbol, SubmitQuotes, LadderSynced, RejectQuote, QuotesDone,
                      SymbolsDone, MaybeReconcile, StaleDone, TickFails
  <1>10. CASE IntervalElapses \/ IngestBook
    BY <1>1, <1>10 DEF IntervalElapses, IngestBook
  <1>11. ASSUME NEW o \in Orders, LifecycleCancel(o) \/ Fill(o) PROVE Goal
    BY <1>2, <1>11 DEF LifecycleCancel, Fill
  <1>12. CASE UNCHANGED vars
    BY <1>1, <1>12 DEF vars
  <1> QED
    BY <1>4, <1>5, <1>6, <1>7, <1>8, <1>9, <1>10, <1>11, <1>12 DEF Next, TickStep

\* For every instance: a handled DISABLE_TRADING leaves no paper order behind that
\* is not being cancelled, an emergency close, or the victim of a failed cancel.
THEOREM KillDrainsTheorem == Spec => []KillDrains
  <1>1. Init => KillDrains
    BY DEF Init, KillDrains
  <1>2. TypeOK /\ LoopOK /\ KillDrains /\ [Next]_vars => KillDrains'
    BY DrainStep DEF TypeOK, ControlInv
  <1> QED
    BY LoopInvariant, <1>1, <1>2, PTL DEF Spec

=============================================================================
