---------------------------- MODULE Rules_proofs ----------------------------
(***************************************************************************)
(* Proofs about the rules quotes go through: PaperLadder, for every set of *)
(* ladder keys and order ids, RiskGate, for any prices, limits and bounds, *)
(* RiskControls, for any breakers, thresholds and limits,                  *)
(* ReconciliationReport, for any snapshots and tolerances, VolumePressure, *)
(* for any windows and settings, Surveillance, for any windows, limits and *)
(* histories, and QuoteLadder, for any valid configurations and markets.   *)
(***************************************************************************)
EXTENDS PaperLadder, RiskGate, RiskControls, QuoteLadder, ReconciliationReport, VolumePressure, Surveillance,
        Functions, FiniteSetTheorems, SequenceTheorems, WellFoundedInduction, TLAPS

-----------------------------------------------------------------------------
(* The paper ladder.                                                       *)

\* What the plan of a tick keeps true until it is carried out: of each wanted key
\* one quote is to be placed; until the cancellations are done the orders in its
\* way are on the list of those to cancel, and afterwards there are none.
PlanInv ==
    /\ phase = "idle" => \A i \in Ids : place[i] = 0
    /\ \A i \in Ids : place[i] > 0 => i.key \in desired
    /\ \A i, j \in Ids : (place[i] > 0 /\ place[j] > 0 /\ i.key = j.key) => i = j
    /\ phase = "sync" => \A i \in Ids, j \in open : (place[i] > 0 /\ i.key = j.key) => j \in drop
    /\ phase = "submit" => \A i \in Ids, j \in open : (place[i] > 0 /\ i.key = j.key) => i = j

\* The inductive form of OutsideLadderGone: what rests outside the ladder during
\* the cancellations is to be cancelled.
OutsideInv ==
    /\ phase = "sync" => \A i \in open : i \in drop \/ i.key \in desired \/ i \in foreign
    /\ OutsideLadderGone

LadderInv == TypeOK /\ PlanInv /\ OneOrderPerLevel /\ OutsideInv

\* A quote is in the list at most twice.
LEMMA CopiesBounded == \A k, K : Copies(k, K) \in 0..2
  BY DEF Copies

\* The plan SyncLadder makes.
LEMMA SyncPlan == LadderInv /\ SyncLadder => LadderInv'
  <1> SUFFICES ASSUME LadderInv, SyncLadder PROVE LadderInv'
    OBVIOUS
  <1>1. PICK K \in Keepable(desired'), quote \in [desired' -> Ids] :
          /\ \A k \in desired' : quote[k] \in Unused(k)
          /\ drop' = open \ K
          /\ place' = [i \in Ids |-> IF i.key \in desired' /\ quote[i.key] = i THEN Copies(i.key, K) ELSE 0]
          /\ made' = [i \in Ids |-> IF i.key \in desired' /\ quote[i.key] = i THEN 0 ELSE made[i]]
    BY DEF SyncLadder
  <1>2. /\ phase' = "sync" /\ open' = open /\ foreign' = {} /\ desired' \subseteq Keys
        /\ K \subseteq open /\ KeysOf(K) \subseteq desired'
    BY DEF SyncLadder, Keepable
  <1>3. TypeOK'
    <2>1. place' \in [Ids -> 0..2]
      BY <1>1, CopiesBounded
    <2>2. made' \in [Ids -> Nat]
      BY <1>1 DEF LadderInv, TypeOK
    <2> QED
      BY <1>1, <1>2, <2>1, <2>2 DEF LadderInv, TypeOK
  <1>4. ASSUME NEW i \in Ids, place'[i] > 0
        PROVE  i.key \in desired' /\ quote[i.key] = i /\ i.key \notin KeysOf(K)
    BY <1>1, <1>4 DEF Copies
  <1>5. ASSUME NEW i \in Ids, NEW j \in open, place'[i] > 0, i.key = j.key PROVE j \in drop'
    BY <1>1, <1>4, <1>5 DEF KeysOf
  <1>6. PlanInv'
    BY <1>2, <1>4, <1>5 DEF PlanInv
  <1>7. OneOrderPerLevel'
    BY <1>2 DEF LadderInv, OneOrderPerLevel
  <1>8. OutsideInv'
    BY <1>1, <1>2 DEF OutsideInv, OutsideLadderGone, KeysOf
  <1> QED
    BY <1>3, <1>6, <1>7, <1>8 DEF LadderInv

\* Every step keeps the invariant.
LEMMA LadderStep == LadderInv /\ [Next]_vars => LadderInv'
  <1> SUFFICES ASSUME LadderInv, [Next]_vars PROVE LadderInv'
    OBVIOUS
  <1> USE LadderAssumption DEF LadderAssumption, LadderInv, TypeOK, PlanInv, OneOrderPerLevel, OutsideInv, OutsideLadderGone
  <1>1. CASE SyncLadder
    BY <1>1, SyncPlan
  <1>2. CASE SyncDone
    BY <1>2 DEF SyncDone
  <1>3. CASE SubmitDone
    BY <1>3 DEF SubmitDone
  <1>4. ASSUME NEW i \in Ids, SyncCancel(i) PROVE LadderInv'
    BY <1>4 DEF SyncCancel
  <1>5. ASSUME NEW i \in Ids, SubmitQuote(i) PROVE LadderInv'
    <2>1. TypeOK'
      BY <1>5 DEF SubmitQuote
    <2>2. \A j \in Ids : place'[j] > 0 => place[j] > 0
      BY <1>5 DEF SubmitQuote
    <2>3. PlanInv'
      BY <1>5, <2>2 DEF SubmitQuote
    <2>4. OneOrderPerLevel'
      BY <1>5 DEF SubmitQuote
    <2>5. OutsideInv'
      BY <1>5 DEF SubmitQuote
    <2> QED
      BY <2>1, <2>3, <2>4, <2>5
  <1>6. ASSUME NEW i \in Ids, RejectQuote(i) PROVE LadderInv'
    <2>1. TypeOK'
      BY <1>6 DEF RejectQuote
    <2>2. \A j \in Ids : place'[j] > 0 => place[j] > 0
      BY <1>6 DEF RejectQuote
    <2> QED
      BY <1>6, <2>1, <2>2 DEF RejectQuote
  <1>7. CASE TickFails
    BY <1>7 DEF TickFails
  <1>8. CASE ClosePosition
    <2>1. PICK i \in Ids : /\ i.key = NoKey /\ i \notin open
                           /\ open' = open \cup {i} /\ foreign' = foreign \cup {i}
                           /\ made' = [made EXCEPT ![i] = 1]
      BY <1>8 DEF ClosePosition, Unused
    <2>2. UNCHANGED <<phase, desired, drop, place>>
      BY <1>8 DEF ClosePosition
    <2>3. TypeOK'
      BY <2>1, <2>2
    <2>4. PlanInv'
      BY <2>1, <2>2
    <2>5. OneOrderPerLevel'
      BY <2>1
    <2>6. OutsideInv'
      BY <2>1, <2>2
    <2> QED
      BY <2>3, <2>4, <2>5, <2>6
  <1>9. ASSUME NEW i \in Ids, OrderGone(i) PROVE LadderInv'
    BY <1>9 DEF OrderGone
  <1>10. CASE UNCHANGED vars
    BY <1>10 DEF vars
  <1> QED
    BY <1>1, <1>2, <1>3, <1>4, <1>5, <1>6, <1>7, <1>8, <1>9, <1>10 DEF Next, TickStep

\* The invariant of the ladder.
LEMMA LadderInvariant == Spec => []LadderInv
  <1>1. Init => LadderInv
    BY LadderAssumption DEF LadderAssumption, Init, LadderInv, TypeOK, PlanInv, OneOrderPerLevel, OutsideInv, OutsideLadderGone
  <1> QED
    BY <1>1, LadderStep, PTL DEF Spec

\* Type correctness of the ladder: a quote is never in the list more than twice.
THEOREM LadderTypeCorrect == Spec => []TypeOK
  <1>1. LadderInv => TypeOK
    BY DEF LadderInv
  <1> QED
    BY LadderInvariant, <1>1, PTL

\* For every ladder: whatever fills, cancels and failures come in between, no level
\* of the paper ladder ever holds two orders.
THEOREM OneOrderPerLevelTheorem == Spec => []OneOrderPerLevel
  <1>1. LadderInv => OneOrderPerLevel
    BY DEF LadderInv
  <1> QED
    BY LadderInvariant, <1>1, PTL

\* For every ladder: no quote is submitted while an order outside the ladder rests
\* that the consumer task has not placed since.
THEOREM OutsideLadderGoneTheorem == Spec => []OutsideLadderGone
  <1>1. LadderInv => OutsideLadderGone
    BY DEF LadderInv, OutsideInv
  <1> QED
    BY LadderInvariant, <1>1, PTL

-----------------------------------------------------------------------------
(* The risk gate.                                                          *)

Buys(S) == {o \in S : o.side = "buy"}
Sells(S) == {o \in S : o.side = "sell"}

\* The orders of S that a book fills.
Crossing(S, b, a) == {o \in S : Crosses(o, b, a)}

\* What the position may come to, valued at p, if all that rests is filled.
Bound(p) == MaxPosition + (MaxOpen - 1) * p

Lowest(p) == p \in Prices /\ \A q \in Prices : p <= q

\* Types; the position is made of fills, and the orders at the venue were placed.
GateTypes ==
    /\ GateTypeOK
    /\ IsFiniteSet(resting)
    /\ -fills <= base /\ base <= fills /\ venue <= placed

\* If every order that rests is filled, on either side, the position stays within
\* reach of its limit.
ReachBounded ==
    \A p : Lowest(p) =>
        /\ (base + Cardinality(Buys(resting))) * p <= Bound(p)
        /\ (Cardinality(Sells(resting)) - base) * p <= Bound(p)

\* The histories are what the switches say.
SwitchesKept == (disabled => killed) /\ (tripped => latched)

GateInv == GateTypes /\ OpenBounded /\ ReachBounded /\ SwitchesKept

LEMMA GateConstants ==
  /\ Prices \subseteq Nat \ {0}
  /\ MaxOrder \in Nat \ {0} /\ MaxPosition \in Nat \ {0} /\ MaxOpen \in Nat \ {0} /\ MaxLoss \in Nat \ {0} /\ CanaryOrder \in Nat \ {0}
  /\ MaxFills \in Nat /\ MaxPlaced \in Nat /\ MaxCommands \in Nat
BY GateAssumption

\* Cardinalities of a set of orders and of its two sides.
LEMMA SidesCount ==
  ASSUME NEW S \in SUBSET Orders, IsFiniteSet(S)
  PROVE  /\ Cardinality(S) \in Nat
         /\ IsFiniteSet(Buys(S)) /\ Cardinality(Buys(S)) \in Nat
         /\ IsFiniteSet(Sells(S)) /\ Cardinality(Sells(S)) \in Nat
         /\ Cardinality(Buys(S)) + Cardinality(Sells(S)) = Cardinality(S)
<1>1. Buys(S) \in SUBSET S /\ Sells(S) \in SUBSET S /\ Buys(S) \cup Sells(S) = S /\ Buys(S) \cap Sells(S) = {}
  BY DEF Buys, Sells, Orders, Sides
<1>2. IsFiniteSet(Buys(S)) /\ IsFiniteSet(Sells(S))
  BY <1>1, FS_Subset
<1>3. Cardinality(Buys(S) \cup Sells(S)) = Cardinality(Buys(S)) + Cardinality(Sells(S)) - Cardinality(Buys(S) \cap Sells(S))
  BY <1>2, FS_Union
<1>4. Cardinality(S) \in Nat /\ Cardinality(Buys(S)) \in Nat /\ Cardinality(Sells(S)) \in Nat
  BY <1>2, FS_CardinalityType
<1>5. Cardinality(Buys(S) \cap Sells(S)) = 0 /\ Cardinality(Buys(S) \cup Sells(S)) = Cardinality(S)
  BY <1>1, FS_EmptySet
<1> QED BY <1>2, <1>3, <1>4, <1>5

\* Taking a part T out of S.
LEMMA PartTakenOut ==
  ASSUME NEW S, IsFiniteSet(S), NEW T \in SUBSET S
  PROVE  /\ IsFiniteSet(T) /\ IsFiniteSet(S \ T)
         /\ Cardinality(S) \in Nat /\ Cardinality(T) \in Nat /\ Cardinality(S \ T) \in Nat
         /\ Cardinality(S \ T) = Cardinality(S) - Cardinality(T)
<1>1. S \cap T = T
  OBVIOUS
<1>2. IsFiniteSet(T) /\ IsFiniteSet(S \ T) /\ Cardinality(S \ T) = Cardinality(S) - Cardinality(S \cap T)
  BY FS_Subset, FS_Difference
<1>3. Cardinality(S) \in Nat /\ Cardinality(T) \in Nat /\ Cardinality(S \ T) \in Nat
  BY <1>2, FS_CardinalityType
<1> QED BY <1>1, <1>2, <1>3

LEMMA GateStart == GateInit => GateInv
<1> SUFFICES ASSUME GateInit PROVE GateInv
  OBVIOUS
<1>1. GateTypes
  <2>1. 0 \in -MaxFills..MaxFills /\ 0 \in 0..MaxFills /\ 0 \in 0..MaxPlaced /\ 0 \in 0..MaxCommands
    BY GateConstants
  <2>2. IsFiniteSet(resting) /\ resting = {}
    BY FS_EmptySet DEF GateInit
  <2>3. /\ resting \subseteq Orders /\ \A o, p \in resting : o.id = p.id => o = p
        /\ cash \in Int /\ realized \in Nat /\ -fills <= base /\ base <= fills
    BY <2>2 DEF GateInit
  <2> QED BY <2>1, <2>2, <2>3 DEF GateInit, GateTypes, GateTypeOK
<1>2. OpenBounded
  BY GateConstants, FS_EmptySet DEF GateInit, OpenBounded
<1>3. ReachBounded
  <2> SUFFICES ASSUME NEW p, Lowest(p) PROVE (base + Cardinality(Buys(resting))) * p <= Bound(p) /\ (Cardinality(Sells(resting)) - base) * p <= Bound(p)
    BY DEF ReachBounded
  <2>1. Cardinality(Buys(resting)) = 0 /\ Cardinality(Sells(resting)) = 0
    BY FS_EmptySet DEF GateInit, Buys, Sells
  <2>2. p \in Nat /\ (MaxOpen - 1) * p \in Nat
    BY GateConstants DEF Lowest
  <2> QED BY <2>1, <2>2, GateConstants DEF GateInit, Bound
<1>4. SwitchesKept
  BY DEF GateInit, SwitchesKept
<1> QED BY <1>1, <1>2, <1>3, <1>4 DEF GateInv

-----------------------------------------------------------------------------
(* Fills.                                                                  *)

\* The largest position, on either side, if all of os is filled.
ReachWithin(os) ==
    \A p : Lowest(p) =>
        /\ (base + Cardinality(Buys(os))) * p <= Bound(p)
        /\ (Cardinality(Sells(os)) - base) * p <= Bound(p)

\* What _apply_fill does to the numbers of the account.
LEMMA FilledCounts ==
  ASSUME GateTypes, NEW os \in SUBSET Orders, IsFiniteSet(os), NEW b \in Prices, NEW a \in Prices, Filled(os, b, a)
  PROVE  \E m, n \in Nat :
           /\ base' = base + m - n /\ fills' = fills + m + n /\ fills' <= MaxFills
           /\ cash' \in Int /\ realized' \in Nat
           /\ resting' \in SUBSET os /\ IsFiniteSet(resting')
           /\ Cardinality(resting') \in Nat /\ Cardinality(resting') <= Cardinality(os)
           /\ Cardinality(Buys(resting')) = Cardinality(Buys(os)) - m
           /\ Cardinality(Sells(resting')) = Cardinality(Sells(os)) - n
<1> DEFINE buys == {o \in os : o.side = "buy" /\ Crosses(o, b, a)}
           sells == {o \in os : o.side = "sell" /\ Crosses(o, b, a)}
           m == Cardinality(buys)
           n == Cardinality(sells)
<1>1. /\ base' = base + m - n
      /\ cash' = cash + b * n - a * m
      /\ realized' = realized + b * n
      /\ fills' = fills + Cardinality(buys \cup sells) /\ fills' <= MaxFills
      /\ resting' = os \ (buys \cup sells)
  BY DEF Filled
<1>2. buys \in SUBSET Buys(os) /\ sells \in SUBSET Sells(os) /\ buys \cup sells \in SUBSET os /\ buys \cap sells = {}
  BY DEF Buys, Sells
<1>3. Buys(resting') = Buys(os) \ buys /\ Sells(resting') = Sells(os) \ sells
  BY <1>1 DEF Buys, Sells
<1> HIDE DEF buys, sells
<1>4. IsFiniteSet(Buys(os)) /\ IsFiniteSet(Sells(os))
  BY SidesCount
<1>5. m \in Nat /\ Cardinality(Buys(resting')) = Cardinality(Buys(os)) - m /\ IsFiniteSet(buys)
  BY <1>2, <1>3, <1>4, PartTakenOut
<1>6. n \in Nat /\ Cardinality(Sells(resting')) = Cardinality(Sells(os)) - n /\ IsFiniteSet(sells)
  BY <1>2, <1>3, <1>4, PartTakenOut
<1>7. Cardinality(buys \cup sells) = m + n
  <2>1. Cardinality(buys \cup sells) = m + n - Cardinality(buys \cap sells)
    BY <1>5, <1>6, FS_Union
  <2>2. Cardinality(buys \cap sells) = 0
    BY <1>2, FS_EmptySet
  <2> QED BY <1>5, <1>6, <2>1, <2>2
<1>8. /\ resting' \in SUBSET os /\ IsFiniteSet(resting')
      /\ Cardinality(resting') \in Nat /\ Cardinality(resting') <= Cardinality(os)
  <2>1. /\ IsFiniteSet(os \ (buys \cup sells)) /\ Cardinality(os \ (buys \cup sells)) \in Nat
        /\ Cardinality(os) \in Nat /\ Cardinality(buys \cup sells) \in Nat
        /\ Cardinality(os \ (buys \cup sells)) = Cardinality(os) - Cardinality(buys \cup sells)
    BY <1>2, PartTakenOut
  <2>2. Cardinality(os \ (buys \cup sells)) <= Cardinality(os)
    BY <2>1
  <2> QED BY <1>1, <2>1, <2>2
<1>9. cash' \in Int /\ realized' \in Nat
  <2>1. b * n \in Nat /\ a * m \in Nat
    BY <1>5, <1>6, GateConstants
  <2> QED BY <1>1, <2>1 DEF GateTypes, GateTypeOK
<1>10. fills' = fills + m + n
  <2>1. fills \in Nat
    BY GateConstants DEF GateTypes, GateTypeOK
  <2> QED BY <1>1, <1>5, <1>6, <1>7, <2>1
<1>11. m \in Nat /\ n \in Nat
  BY <1>5, <1>6
<1> HIDE DEF m, n
<1> USE <1>11
<1> WITNESS m \in Nat, n \in Nat
<1> QED BY <1>1, <1>5, <1>6, <1>8, <1>9, <1>10

\* Multiplying by a price.
LEMMA ByPrice ==
  ASSUME NEW x \in Int, NEW y \in Int, x <= y, NEW p \in Nat
  PROVE  x * p <= y * p
OBVIOUS

\* A fill takes from what rests what it adds to the position.
LEMMA FilledKeeps ==
  ASSUME GateTypes, NEW os \in SUBSET Orders, IsFiniteSet(os), NEW b \in Prices, NEW a \in Prices, Filled(os, b, a), ReachWithin(os)
  PROVE  ReachBounded'
<1>1. PICK m \in Nat, n \in Nat :
        /\ base' = base + m - n
        /\ Cardinality(Buys(resting')) = Cardinality(Buys(os)) - m
        /\ Cardinality(Sells(resting')) = Cardinality(Sells(os)) - n
  BY FilledCounts
<1>2. base \in Int /\ Cardinality(Buys(os)) \in Nat /\ Cardinality(Sells(os)) \in Nat
  BY SidesCount, GateConstants DEF GateTypes, GateTypeOK
<1> SUFFICES ASSUME NEW p, Lowest(p)
             PROVE  /\ (base' + Cardinality(Buys(resting'))) * p <= Bound(p)
                    /\ (Cardinality(Sells(resting')) - base') * p <= Bound(p)
  BY DEF ReachBounded, Lowest, Bound
<1>3. p \in Nat /\ Bound(p) \in Int
  BY GateConstants DEF Lowest, Bound
<1>4. (base' + Cardinality(Buys(resting'))) * p <= (base + Cardinality(Buys(os))) * p
  BY <1>1, <1>2, <1>3, ByPrice
<1>5. (Cardinality(Sells(resting')) - base') * p <= (Cardinality(Sells(os)) - base) * p
  BY <1>1, <1>2, <1>3, ByPrice
<1>6. (base + Cardinality(Buys(os))) * p <= Bound(p) /\ (Cardinality(Sells(os)) - base) * p <= Bound(p)
  BY DEF ReachWithin
<1>7. /\ (base' + Cardinality(Buys(resting'))) * p \in Int /\ (base + Cardinality(Buys(os))) * p \in Int
      /\ (Cardinality(Sells(resting')) - base') * p \in Int /\ (Cardinality(Sells(os)) - base) * p \in Int
  BY <1>1, <1>2, <1>3
<1> QED BY <1>3, <1>4, <1>5, <1>6, <1>7

\* Types after fills.
LEMMA FilledTyped ==
  ASSUME GateTypes, NEW os \in SUBSET Orders, IsFiniteSet(os), \A o, p \in os : o.id = p.id => o = p,
         NEW b \in Prices, NEW a \in Prices, b <= a, Filled(os, b, a),
         bid' = b, ask' = a, UNCHANGED <<mode, venue, placed, switchVars>>
  PROVE  GateTypes'
<1>1. PICK m \in Nat, n \in Nat :
        /\ base' = base + m - n /\ fills' = fills + m + n /\ fills' <= MaxFills
        /\ cash' \in Int /\ realized' \in Nat
        /\ resting' \in SUBSET os /\ IsFiniteSet(resting')
  BY FilledCounts
<1>2. fills \in Nat /\ base \in Int /\ -fills <= base /\ base <= fills
  BY GateConstants DEF GateTypes, GateTypeOK
<1>3. fills' \in 0..MaxFills /\ base' \in -MaxFills..MaxFills /\ -fills' <= base' /\ base' <= fills'
  BY <1>1, <1>2, GateConstants
<1>4. resting' \subseteq Orders /\ \A o, p \in resting' : o.id = p.id => o = p
  BY <1>1
<1> QED BY <1>1, <1>3, <1>4 DEF GateTypes, GateTypeOK, switchVars

\* With fewer orders resting and the same position, the bounds stay.
LEMMA FewerKeep ==
  ASSUME GateInv, resting' \in SUBSET resting, base' = base
  PROVE  OpenBounded' /\ ReachBounded' /\ Cardinality(resting') <= Cardinality(resting)
<1> USE DEF GateInv
<1>1. resting \in SUBSET Orders /\ IsFiniteSet(resting) /\ base \in Int
  BY GateConstants DEF GateTypes, GateTypeOK
<1>2. /\ IsFiniteSet(resting') /\ Cardinality(resting') \in Nat /\ Cardinality(resting) \in Nat
      /\ Cardinality(resting') <= Cardinality(resting)
  BY <1>1, FS_Subset, FS_CardinalityType
<1>3. OpenBounded'
  BY <1>2, GateConstants DEF OpenBounded
<1>4. Buys(resting') \in SUBSET Buys(resting) /\ Sells(resting') \in SUBSET Sells(resting)
  BY DEF Buys, Sells
<1>5. /\ Cardinality(Buys(resting')) <= Cardinality(Buys(resting)) /\ Cardinality(Sells(resting')) <= Cardinality(Sells(resting))
      /\ Cardinality(Buys(resting)) \in Nat /\ Cardinality(Sells(resting)) \in Nat
  BY <1>1, <1>4, SidesCount, FS_Subset
<1>6. Cardinality(Buys(resting')) \in Nat /\ Cardinality(Sells(resting')) \in Nat
  BY <1>1, <1>2, SidesCount
<1>7. ReachBounded'
  <2> SUFFICES ASSUME NEW p, Lowest(p)
               PROVE  /\ (base' + Cardinality(Buys(resting'))) * p <= Bound(p)
                      /\ (Cardinality(Sells(resting')) - base') * p <= Bound(p)
    BY DEF ReachBounded, Lowest, Bound
  <2>1. p \in Nat /\ Bound(p) \in Int
    BY GateConstants DEF Lowest, Bound
  <2>2. (base' + Cardinality(Buys(resting'))) * p <= (base + Cardinality(Buys(resting))) * p
    BY <1>1, <1>5, <1>6, <2>1, ByPrice
  <2>3. (Cardinality(Sells(resting')) - base') * p <= (Cardinality(Sells(resting)) - base) * p
    BY <1>1, <1>5, <1>6, <2>1, ByPrice
  <2>4. (base + Cardinality(Buys(resting))) * p <= Bound(p) /\ (Cardinality(Sells(resting)) - base) * p <= Bound(p)
    BY DEF ReachBounded
  <2>5. /\ (base' + Cardinality(Buys(resting'))) * p \in Int /\ (base + Cardinality(Buys(resting))) * p \in Int
        /\ (Cardinality(Sells(resting')) - base') * p \in Int /\ (Cardinality(Sells(resting)) - base) * p \in Int
    BY <1>1, <1>5, <1>6, <2>1
  <2> QED BY <2>1, <2>2, <2>3, <2>4, <2>5
<1> QED BY <1>2, <1>3, <1>7

\* An order the risk engine lets through: even if all that rests is then filled, the
\* position passes its limit by fewer than MaxOpen units.
LEMMA AllowedWithin ==
  ASSUME GateInv, NEW o \in Orders, RiskAllows(o.price), o \notin resting
  PROVE  /\ IsFiniteSet(resting \cup {o}) /\ Cardinality(resting \cup {o}) \in Nat /\ Cardinality(resting \cup {o}) <= MaxOpen
         /\ ReachWithin(resting \cup {o})
<1> USE DEF GateInv
<1> DEFINE os == resting \cup {o}
<1>1. /\ resting \in SUBSET Orders /\ IsFiniteSet(resting) /\ base \in Int
      /\ bid \in Prices /\ ask \in Prices /\ o.price \in Prices /\ os \in SUBSET Orders
  BY GateConstants DEF GateTypes, GateTypeOK, Orders
<1>2. IsFiniteSet(os) /\ Cardinality(os) = Cardinality(resting) + 1 /\ Cardinality(resting) \in Nat
  BY <1>1, FS_AddElement, FS_CardinalityType
<1>3. Cardinality(os) \in Nat /\ Cardinality(os) <= MaxOpen
  BY <1>2, GateConstants DEF RiskAllows
<1> HIDE DEF os
<1>4. /\ Cardinality(Buys(os)) \in Nat /\ Cardinality(Buys(os)) <= MaxOpen
      /\ Cardinality(Sells(os)) \in Nat /\ Cardinality(Sells(os)) <= MaxOpen
  BY <1>1, <1>2, <1>3, SidesCount, GateConstants
<1>5. ASSUME NEW p, Lowest(p)
      PROVE  /\ (base + Cardinality(Buys(os))) * p <= Bound(p)
             /\ (Cardinality(Sells(os)) - base) * p <= Bound(p)
  <2>1. p \in Nat /\ p <= bid /\ p <= ask /\ p <= o.price /\ bid \in Nat /\ ask \in Nat /\ o.price \in Nat
    BY <1>1, <1>5, GateConstants DEF Lowest
  <2>2. PICK e \in Nat : e = Abs(base) /\ base <= e /\ -base <= e
    <3>1. Abs(base) \in Nat /\ base <= Abs(base) /\ -base <= Abs(base)
      BY <1>1 DEF Abs
    <3> QED BY <3>1
  <2>3. Abs(base * (bid + ask)) = e * (bid + ask)
    <3>1. PICK k \in Nat : k = bid + ask
      BY <2>1
    <3>2. CASE base >= 0
      BY <1>1, <2>2, <3>1, <3>2 DEF Abs
    <3>3. CASE base < 0
      <4>1. base * k = -(e * k) /\ e * k \in Nat
        BY <1>1, <2>2, <3>1, <3>3 DEF Abs
      <4> QED BY <1>1, <2>2, <3>1, <4>1 DEF Abs
    <3> QED BY <1>1, <3>2, <3>3
  <2>4. e * (bid + ask) + 2 * o.price <= 2 * MaxPosition
    BY <2>3 DEF RiskAllows, Exposure2
  <2>5. e * (2 * p) <= e * (bid + ask)
    BY <2>1, <2>2, ByPrice
  <2>6. (e + 1) * p <= MaxPosition
    BY <2>1, <2>2, <2>4, <2>5, GateConstants
  <2>7. (e + 1) * p + (MaxOpen - 1) * p = (e + MaxOpen) * p
    BY <2>1, <2>2, GateConstants
  <2>8. (e + MaxOpen) * p <= Bound(p)
    BY <2>1, <2>2, <2>6, <2>7, GateConstants DEF Bound
  <2>9. (base + Cardinality(Buys(os))) * p <= (e + MaxOpen) * p
    BY <1>1, <1>4, <2>1, <2>2, GateConstants, ByPrice
  <2>10. (Cardinality(Sells(os)) - base) * p <= (e + MaxOpen) * p
    BY <1>1, <1>4, <2>1, <2>2, GateConstants, ByPrice
  <2>11. /\ (base + Cardinality(Buys(os))) * p \in Int /\ (Cardinality(Sells(os)) - base) * p \in Int
         /\ (e + MaxOpen) * p \in Int /\ Bound(p) \in Int
    BY <1>1, <1>4, <2>1, <2>2, GateConstants DEF Bound
  <2> QED BY <2>8, <2>9, <2>10, <2>11
<1>6. ReachWithin(os)
  BY <1>5 DEF ReachWithin
<1> QED BY <1>2, <1>3, <1>6 DEF os

\* A step that changes neither the account nor the book.
LEMMA AccountStays ==
  ASSUME GateInv, UNCHANGED <<bookVars, accountVars>>
  PROVE  OpenBounded' /\ ReachBounded' /\ Cardinality(resting') <= Cardinality(resting)
BY FewerKeep DEF accountVars

\* A quote: the one step that places orders.
LEMMA QuoteKeeps ==
  ASSUME GateInv, UNCHANGED mode, NEW o \in Orders, GateQuote(o)
  PROVE  GateInv'
<1> USE DEF GateInv
<1>1. CASE CanaryShutdown
  <2>1. GateTypes' /\ SwitchesKept'
    BY <1>1 DEF CanaryShutdown, GateTypes, GateTypeOK, SwitchesKept, bookVars, accountVars
  <2> QED BY <1>1, <2>1, AccountStays DEF CanaryShutdown
<1>2. CASE PlaceLive
  <2>1. venue' \in 0..MaxPlaced /\ placed' \in 0..MaxPlaced /\ venue' <= placed'
    BY <1>2, GateConstants DEF PlaceLive, GateTypes, GateTypeOK
  <2>2. GateTypes'
    BY <1>2, <2>1 DEF PlaceLive, GateTypes, GateTypeOK, bookVars, accountVars, switchVars
  <2>3. SwitchesKept'
    BY <1>2 DEF PlaceLive, SwitchesKept, switchVars
  <2> QED BY <1>2, <2>2, <2>3, AccountStays DEF PlaceLive
<1>3. CASE PlacePaper(o)
  <2> DEFINE os == resting \cup {o}
  <2>1. o \notin resting /\ os \in SUBSET Orders /\ \A p, q \in os : p.id = q.id => p = q
    BY <1>3 DEF PlacePaper, GateTypes, GateTypeOK
  <2>2. IsFiniteSet(os) /\ Cardinality(os) \in Nat /\ Cardinality(os) <= MaxOpen /\ ReachWithin(os)
    BY <2>1, AllowedWithin DEF GateQuote
  <2>3. Filled(os, bid, ask) /\ bid' = bid /\ ask' = ask /\ UNCHANGED <<mode, venue, placed, switchVars>>
    BY <1>3 DEF PlacePaper, bookVars
  <2>4. bid \in Prices /\ ask \in Prices /\ bid <= ask
    BY DEF GateTypes, GateTypeOK
  <2> HIDE DEF os
  <2>5. GateTypes' /\ ReachBounded'
    BY <2>1, <2>2, <2>3, <2>4, FilledTyped, FilledKeeps
  <2>6. Cardinality(resting') \in Nat /\ Cardinality(resting') <= Cardinality(os)
    BY <2>1, <2>2, <2>3, <2>4, FilledCounts
  <2>7. OpenBounded'
    BY <2>2, <2>6, GateConstants DEF OpenBounded
  <2>8. SwitchesKept'
    BY <2>3 DEF SwitchesKept, switchVars
  <2> QED BY <2>5, <2>7, <2>8
<1> QED BY <1>1, <1>2, <1>3 DEF GateQuote

\* A new book fills what it crosses.
LEMMA IngestKeeps ==
  ASSUME GateInv, UNCHANGED mode, NEW b \in Prices, NEW a \in Prices, IngestBook(b, a)
  PROVE  GateInv' /\ Cardinality(resting') <= Cardinality(resting)
<1> USE DEF GateInv
<1>1. /\ Filled(resting, b, a) /\ b <= a /\ bid' = b /\ ask' = a /\ UNCHANGED <<mode, venue, placed, switchVars>>
      /\ resting \in SUBSET Orders /\ IsFiniteSet(resting) /\ \A o, p \in resting : o.id = p.id => o = p
  BY DEF IngestBook, GateTypes, GateTypeOK
<1>2. ReachWithin(resting)
  BY DEF ReachBounded, ReachWithin
<1>3. GateTypes' /\ ReachBounded'
  BY <1>1, <1>2, FilledTyped, FilledKeeps
<1>4. Cardinality(resting') \in Nat /\ Cardinality(resting') <= Cardinality(resting) /\ Cardinality(resting) \in Nat
  BY <1>1, FilledCounts, SidesCount
<1>5. OpenBounded'
  BY <1>4, GateConstants DEF OpenBounded
<1>6. SwitchesKept'
  BY <1>1 DEF SwitchesKept, switchVars
<1> QED BY <1>3, <1>4, <1>5, <1>6

\* Cancels, orders that end at the venue, and commands: nothing is placed.
Quiet == (\E o \in Orders : CancelQuote(o)) \/ VenueEnds \/ DisableTrading \/ EnableTrading \/ \E on \in BOOLEAN : ConfigReload(on)

LEMMA QuietKeeps ==
  ASSUME GateInv, UNCHANGED mode, Quiet
  PROVE  GateInv' /\ Cardinality(resting') <= Cardinality(resting) /\ placed' = placed
<1> USE DEF GateInv
<1>1. placed' = placed /\ UNCHANGED <<mode, bid, ask, base, cash, realized, fills>> /\ resting' \in SUBSET resting
  BY DEF Quiet, CancelQuote, VenueEnds, DisableTrading, EnableTrading, ConfigReload, bookVars, accountVars
<1>2. IsFiniteSet(resting')
  BY <1>1, FS_Subset DEF GateTypes
<1>3. resting' \subseteq Orders /\ \A o, p \in resting' : o.id = p.id => o = p
  BY <1>1 DEF GateTypes, GateTypeOK
<1>4. venue' \in 0..MaxPlaced /\ venue' <= placed' /\ commands' \in 0..MaxCommands
  <2> USE GateConstants DEF GateTypes, GateTypeOK, Handle
  <2>1. CASE VenueEnds
    BY <2>1 DEF VenueEnds, switchVars
  <2>2. CASE DisableTrading
    BY <2>2 DEF DisableTrading
  <2>3. CASE UNCHANGED venue
    <3>1. commands' \in 0..MaxCommands
      BY <2>3 DEF Quiet, CancelQuote, VenueEnds, DisableTrading, EnableTrading, ConfigReload, switchVars
    <3> QED BY <1>1, <2>3, <3>1
  <2> QED BY <2>1, <2>2, <2>3 DEF Quiet, CancelQuote, EnableTrading, ConfigReload
<1>5. trading' \in BOOLEAN /\ killed' \in BOOLEAN /\ latched' \in BOOLEAN /\ disabled' \in BOOLEAN /\ tripped' \in BOOLEAN
  <2> USE DEF GateTypes, GateTypeOK
  <2>1. CASE UNCHANGED switchVars
    BY <2>1 DEF switchVars
  <2>2. CASE DisableTrading \/ EnableTrading \/ \E on \in BOOLEAN : ConfigReload(on)
    BY <2>2, Zenon DEF DisableTrading, EnableTrading, ConfigReload
  <2> QED BY <2>1, <2>2 DEF Quiet, CancelQuote, VenueEnds
<1>6. SwitchesKept'
  BY DEF Quiet, CancelQuote, VenueEnds, DisableTrading, EnableTrading, ConfigReload, switchVars, SwitchesKept
<1>7. GateTypes'
  BY <1>1, <1>2, <1>3, <1>4, <1>5 DEF GateTypes, GateTypeOK
<1> QED BY <1>1, <1>6, <1>7, FewerKeep

\* The steps of the gate, by what they place.
LEMMA GateSteps ==
  ASSUME GateInv, GateNext
  PROVE  GateInv' /\ (Quoted => \E o \in Orders : GateQuote(o))
<1>1. CASE \E o \in Orders : GateQuote(o)
  BY <1>1, QuoteKeeps DEF GateNext
<1>2. CASE \E b, a \in Prices : IngestBook(b, a)
  <2>1. placed' = placed /\ placed \in Nat
    BY <1>2, GateConstants DEF IngestBook, GateInv, GateTypes, GateTypeOK
  <2>2. GateInv' /\ Cardinality(resting') <= Cardinality(resting)
    BY <1>2, IngestKeeps DEF GateNext
  <2>3. Cardinality(resting') \in Nat /\ Cardinality(resting) \in Nat
    BY <2>2, FS_CardinalityType DEF GateInv, GateTypes
  <2> QED BY <2>1, <2>2, <2>3 DEF Quoted
<1>3. CASE Quiet
  <2>1. GateInv' /\ Cardinality(resting') <= Cardinality(resting) /\ placed' = placed
    BY <1>3, QuietKeeps DEF GateNext
  <2>2. Cardinality(resting') \in Nat /\ Cardinality(resting) \in Nat /\ placed \in Nat
    BY <2>1, FS_CardinalityType, GateConstants DEF GateInv, GateTypes, GateTypeOK
  <2> QED BY <2>1, <2>2 DEF Quoted
<1> QED BY <1>1, <1>2, <1>3 DEF GateNext, Quiet

LEMMA GateKeeps == GateInv /\ [GateNext]_gateVars => GateInv'
<1> SUFFICES ASSUME GateInv, [GateNext]_gateVars PROVE GateInv'
  OBVIOUS
<1>1. CASE UNCHANGED gateVars
  <2>1. GateTypes' /\ SwitchesKept'
    BY <1>1 DEF GateInv, gateVars, bookVars, accountVars, switchVars, GateTypes, GateTypeOK, SwitchesKept
  <2>2. OpenBounded' /\ ReachBounded'
    BY <1>1, AccountStays DEF gateVars
  <2> QED BY <2>1, <2>2 DEF GateInv
<1> QED BY <1>1, GateSteps

\* Types of the gate, and ids unique among the orders that rest, for every instance.
THEOREM GateTypeCorrect == GateSpec => []GateTypeOK
<1>1. GateInv => GateTypeOK
  BY DEF GateInv, GateTypes
<1> QED BY <1>1, GateStart, GateKeeps, PTL DEF GateSpec

\* RiskEngine.assert_order_allowed as _submit_quotes calls it, for any prices and limits:
\* no more than max_open_orders rest, and fills carry the position beyond
\* max_position_notional by fewer than max_open_orders units at the lowest price,
\* although the limit is tested without the orders that already rest.
THEOREM RiskLimitsBoundTheorem == GateSpec => []RiskLimitsBound
<1>1. ASSUME GateInv PROVE OvershootBounded
  <2> SUFFICES ASSUME NEW p \in Prices, \A q \in Prices : p <= q PROVE Abs(base) * p <= Bound(p)
    BY DEF OvershootBounded, Bound
  <2>1. (base + Cardinality(Buys(resting))) * p <= Bound(p) /\ (Cardinality(Sells(resting)) - base) * p <= Bound(p)
    BY <1>1 DEF GateInv, ReachBounded, Lowest
  <2>2. /\ base \in Int /\ Cardinality(Buys(resting)) \in Nat /\ Cardinality(Sells(resting)) \in Nat
        /\ p \in Nat /\ Bound(p) \in Int
    BY <1>1, SidesCount, GateConstants DEF GateInv, GateTypes, GateTypeOK, Bound
  <2>3. base * p <= (base + Cardinality(Buys(resting))) * p /\ (-base) * p <= (Cardinality(Sells(resting)) - base) * p
    BY <2>2, ByPrice
  <2>4. base * p <= Bound(p) /\ (-base) * p <= Bound(p)
    BY <2>1, <2>2, <2>3
  <2> QED BY <2>2, <2>4 DEF Abs
<1>2. GateInv => RiskLimitsBound
  BY <1>1 DEF RiskLimitsBound, GateInv
<1> QED BY <1>2, GateStart, GateKeeps, PTL DEF GateSpec

\* The kill switch of the risk engine and the latch of the canary controller, at every
\* step of every instance: after DISABLE_TRADING nothing is placed before a
\* configuration reload, and after a quote above the canary's limit nothing ever.
THEOREM StopsStayTheorem == GateSpec => StopsStay
<1>1. GateInv /\ [GateNext]_gateVars => [DisabledUntilReload /\ LatchIsFinal]_gateVars
  <2> SUFFICES ASSUME GateInv, GateNext, Quoted PROVE ~disabled /\ ~tripped
    BY DEF DisabledUntilReload, LatchIsFinal
  <2>1. PICK o \in Orders : GateQuote(o)
    BY GateSteps
  <2> QED BY <2>1 DEF GateQuote, GateInv, SwitchesKept
<1> QED BY <1>1, GateStart, GateKeeps, PTL DEF GateSpec, StopsStay

-----------------------------------------------------------------------------
(* The risk engine and the canary controller.                              *)

\* Types; a breaker counts no more failures than were recorded, and approvals of the
\* day are approvals.
ControlsTypes ==
    /\ ControlsTypeOK
    /\ \A b \in Breakers : failures[b] <= errors
    /\ approvals <= granted

\* The orders of the day are those the controller counts and those of the counts
\* that approvals have reset; of a day it has not noticed yet there are none.
DayCounted == IF stale THEN today = 0 ELSE today <= count + CanaryCount * approvals

\* A burst is counted as failures, and a breaker is open exactly when its failures
\* have reached the threshold, since the last of them.
BurstsOpen ==
    \A b \in Breakers : /\ burst[b] <= failures[b]
                        /\ failures[b] >= Threshold => opened[b] = calm[b]
                        /\ opened[b] /= Closed => failures[b] >= Threshold

\* A shutdown has its switch on.
ShutdownSwitched == shutdown => switched

ControlsInv == ControlsTypes /\ DayCounted /\ PositionBounded /\ BurstsOpen /\ ShutdownSwitched

LEMMA ControlsConstants ==
  /\ Threshold \in Nat \ {0} /\ Cooldown \in Nat \ {0} /\ Notionals \subseteq Nat
  /\ CanaryPosition \in Nat \ {0} /\ CanaryNotional \in Nat \ {0} /\ CanaryCount \in Nat \ {0}
  /\ MaxFailures \in Nat /\ MaxDays \in Nat /\ MaxApprovals \in Nat /\ MaxShutdowns \in Nat
BY ControlsAssumption

LEMMA ControlsStart == ControlsInit => ControlsInv
<1> SUFFICES ASSUME ControlsInit PROVE ControlsInv
  OBVIOUS
<1> USE ControlsConstants DEF ControlsInit
<1>1. ControlsTypes
  <2>1. switched \in BOOLEAN /\ shutdown \in BOOLEAN /\ stale \in BOOLEAN /\ latch \in BOOLEAN
    BY Zenon
  <2>2. /\ failures \in [Breakers -> 0..MaxFailures] /\ opened \in [Breakers -> Closed..Cooldown]
        /\ burst \in [Breakers -> Nat] /\ calm \in [Breakers -> 0..Cooldown]
        /\ \A b \in Breakers : failures[b] <= errors
    BY DEF Closed
  <2> QED BY <2>1, <2>2 DEF ControlsTypes, ControlsTypeOK
<1>2. DayCounted /\ PositionBounded /\ ShutdownSwitched
  BY DEF DayCounted, PositionBounded, Absolute, ShutdownSwitched
<1>3. BurstsOpen
  BY DEF BurstsOpen
<1> QED BY <1>1, <1>2, <1>3 DEF ControlsInv

\* What is_open does to the breakers it asks: those that are left open were open.
LEMMA AskKeeps ==
  ASSUME ControlsInv, NEW B \in SUBSET Breakers, Ask(B), UNCHANGED <<calm, errors>>
  PROVE  /\ failures' \in [Breakers -> 0..MaxFailures] /\ opened' \in [Breakers -> Closed..Cooldown]
         /\ burst' \in [Breakers -> Nat] /\ \A b \in Breakers : failures'[b] <= errors'
         /\ BurstsOpen'
<1> USE ControlsConstants DEF ControlsInv, ControlsTypes, ControlsTypeOK, Ask, Closed
<1>1. failures' \in [Breakers -> 0..MaxFailures] /\ opened' \in [Breakers -> Closed..Cooldown] /\ burst' \in [Breakers -> Nat]
  OBVIOUS
<1>2. \A b \in Breakers : failures'[b] <= errors'
  OBVIOUS
<1>3. BurstsOpen'
  BY DEF BurstsOpen, Expired
<1> QED BY <1>1, <1>2, <1>3

\* Failures, successes and the clock: only the breakers change.
LEMMA BreakersKeep ==
  ASSUME ControlsInv, (\E b \in Breakers : RecordFailure(b) \/ RecordSuccess(b)) \/ BreakerTick
  PROVE  ControlsInv' /\ UNCHANGED <<riskVars, canaryVars>>
<1> USE ControlsConstants DEF ControlsInv
<1>1. UNCHANGED <<riskVars, canaryVars, offered, days>>
  BY DEF RecordFailure, RecordSuccess, BreakerTick
<1>2. DayCounted' /\ PositionBounded' /\ ShutdownSwitched'
  BY <1>1 DEF riskVars, canaryVars, DayCounted, PositionBounded, ShutdownSwitched
<1>3. /\ failures' \in [Breakers -> 0..MaxFailures] /\ opened' \in [Breakers -> Closed..Cooldown] /\ errors' \in 0..MaxFailures
      /\ burst' \in [Breakers -> Nat] /\ calm' \in [Breakers -> 0..Cooldown] /\ \A b \in Breakers : failures'[b] <= errors'
  <2> USE DEF ControlsTypes, ControlsTypeOK, Closed
  <2>1. ASSUME NEW b \in Breakers, RecordFailure(b) PROVE <1>3!:
    BY <2>1 DEF RecordFailure
  <2>2. ASSUME NEW b \in Breakers, RecordSuccess(b) PROVE <1>3!:
    BY <2>2 DEF RecordSuccess
  <2>3. CASE BreakerTick
    BY <2>3 DEF BreakerTick
  <2> QED BY <2>1, <2>2, <2>3
<1>4. BurstsOpen'
  <2> USE DEF ControlsTypes, ControlsTypeOK, Closed, BurstsOpen
  <2>1. ASSUME NEW b \in Breakers, RecordFailure(b) PROVE BurstsOpen'
    BY <2>1 DEF RecordFailure
  <2>2. ASSUME NEW b \in Breakers, RecordSuccess(b) PROVE BurstsOpen'
    BY <2>2 DEF RecordSuccess
  <2>3. CASE BreakerTick
    BY <2>3 DEF BreakerTick
  <2> QED BY <2>1, <2>2, <2>3
<1>5. ControlsTypes'
  BY <1>1, <1>3 DEF ControlsTypes, ControlsTypeOK, riskVars, canaryVars
<1> QED BY <1>1, <1>2, <1>4, <1>5

\* The switch, the shutdown and the recovery.
LEMMA SwitchKeeps ==
  ASSUME ControlsInv, ActivateKillSwitch \/ EmergencyShutdown \/ Recover
  PROVE  /\ ControlsInv' /\ UNCHANGED canaryVars
         /\ shutdown /\ ~shutdown' => \A b \in Breakers : ~IsOpen(b)
<1> USE ControlsConstants DEF ControlsInv
<1>1. UNCHANGED <<canaryVars, offered, days, calm, errors>>
  BY DEF ActivateKillSwitch, EmergencyShutdown, Recover, breakerVars
<1>2. DayCounted' /\ PositionBounded'
  BY <1>1 DEF canaryVars, DayCounted, PositionBounded
<1>3. /\ switched' \in BOOLEAN /\ shutdown' \in BOOLEAN /\ ShutdownSwitched'
      /\ (shutdown /\ ~shutdown' => \A b \in Breakers : ~IsOpen(b))
  BY Zenon DEF ActivateKillSwitch, EmergencyShutdown, Recover, ShutdownSwitched, ControlsTypes, ControlsTypeOK
<1>4. shutdowns' \in 0..MaxShutdowns
  BY DEF ActivateKillSwitch, EmergencyShutdown, Recover, ControlsTypes, ControlsTypeOK
<1>5. /\ failures' \in [Breakers -> 0..MaxFailures] /\ opened' \in [Breakers -> Closed..Cooldown]
      /\ burst' \in [Breakers -> Nat] /\ \A b \in Breakers : failures'[b] <= errors'
      /\ BurstsOpen'
  <2>1. CASE UNCHANGED breakerVars
    BY <2>1 DEF breakerVars, ControlsTypes, ControlsTypeOK, BurstsOpen
  <2>2. CASE Recover
    <3>1. PICK B \in SUBSET Breakers : Ask(B)
      BY <2>2 DEF Recover
    <3> QED BY <1>1, <3>1, AskKeeps
  <2> QED BY <2>1, <2>2 DEF ActivateKillSwitch, EmergencyShutdown
<1>6. ControlsTypes'
  BY <1>1, <1>3, <1>4, <1>5 DEF ControlsTypes, ControlsTypeOK, canaryVars
<1> QED BY <1>1, <1>2, <1>3, <1>5, <1>6

\* The date and the approval.
LEMMA DayKeeps ==
  ASSUME ControlsInv, Midnight \/ ResetAfterApproval
  PROVE  ControlsInv' /\ UNCHANGED riskVars /\ (today' = 0 \/ today' = today)
<1> USE ControlsConstants DEF ControlsInv
<1>1. UNCHANGED <<breakerVars, riskVars, offered, position>> /\ (today' = 0 \/ today' = today)
  BY DEF Midnight, ResetAfterApproval
<1>2. PositionBounded' /\ BurstsOpen' /\ ShutdownSwitched'
  BY <1>1 DEF breakerVars, riskVars, PositionBounded, BurstsOpen, ShutdownSwitched
<1>3. stale' \in BOOLEAN /\ latch' \in BOOLEAN
  BY Zenon DEF Midnight, ResetAfterApproval, ControlsTypes, ControlsTypeOK
<1>4. /\ count' \in 0..CanaryCount /\ days' \in 0..MaxDays /\ approvals' \in 0..MaxApprovals /\ granted' \in 0..MaxApprovals
      /\ today' \in Nat /\ approvals' <= granted'
  BY DEF Midnight, ResetAfterApproval, ControlsTypes, ControlsTypeOK
<1>5. ControlsTypes'
  BY <1>1, <1>3, <1>4 DEF ControlsTypes, ControlsTypeOK, breakerVars, riskVars
<1>6. DayCounted'
  <2>1. CASE Midnight
    BY <2>1 DEF Midnight, DayCounted
  <2>2. CASE ResetAfterApproval
    <3>1. count' = 0 /\ approvals' = approvals + 1 /\ UNCHANGED <<stale, today>>
      BY <2>2 DEF ResetAfterApproval
    <3>2. count \in 0..CanaryCount /\ approvals \in Nat /\ today \in Nat
      BY DEF ControlsTypes, ControlsTypeOK
    <3>3. count + CanaryCount * approvals <= 0 + CanaryCount * (approvals + 1)
      BY <3>2
    <3> QED BY <3>1, <3>2, <3>3 DEF DayCounted
  <2> QED BY <2>1, <2>2
<1> QED BY <1>1, <1>2, <1>5, <1>6

\* An order that passes the risk engine and is recorded.
LEMMA RecordKeeps ==
  ASSUME ControlsInv, NEW n \in Notionals, NEW sign \in {-1, 1}, RecordOrder(n, sign)
  PROVE  /\ DayCounted' /\ PositionBounded' /\ UNCHANGED <<approvals, granted>>
         /\ position' \in Int /\ count' \in 0..CanaryCount /\ today' \in Nat
         /\ stale' \in BOOLEAN /\ latch' \in BOOLEAN /\ offered' \in {"canary", "accepted"}
<1> USE ControlsConstants DEF ControlsInv
<1>1. stale' = FALSE /\ latch' \in BOOLEAN
  BY Zenon DEF RecordOrder, ControlsTypes, ControlsTypeOK
<1>2. /\ position \in Int /\ count \in 0..CanaryCount /\ today \in Nat /\ approvals \in Nat /\ n \in Nat
      /\ Rolled \in 0..CanaryCount /\ today <= Rolled + CanaryCount * approvals
  <2>1. position \in Int /\ count \in 0..CanaryCount /\ today \in Nat /\ approvals \in Nat /\ n \in Nat
    BY DEF ControlsTypes, ControlsTypeOK
  <2>2. CanaryCount * approvals \in Nat
    BY <2>1
  <2> QED BY <2>1, <2>2 DEF Rolled, DayCounted
<1>3. UNCHANGED <<approvals, granted>>
  BY DEF RecordOrder
<1>4. CASE offered' = "canary" /\ count' = Rolled /\ UNCHANGED <<position, today>>
  BY <1>1, <1>2, <1>3, <1>4 DEF DayCounted, PositionBounded
<1>5. CASE ~AutomaticShutdown(n, Rolled) /\ offered' = "accepted" /\ count' = Rolled + 1 /\ position' = position + sign * n /\ today' = today + 1
  <2>1. Absolute(position) <= CanaryPosition /\ Rolled < CanaryCount /\ n <= CanaryNotional
    BY <1>2, <1>5 DEF AutomaticShutdown, Absolute
  <2>2. position' = position + n \/ position' = position - n
    BY <1>2, <1>5
  <2>3. PositionBounded' /\ position' \in Int
    BY <1>2, <2>1, <2>2 DEF PositionBounded, Absolute
  <2>4. CanaryCount * approvals \in Nat
    BY <1>2
  <2>5. count' \in 0..CanaryCount /\ today' \in Nat /\ today' <= count' + CanaryCount * approvals
    BY <1>2, <1>5, <2>1, <2>4
  <2>6. DayCounted'
    BY <1>1, <1>3, <2>5 DEF DayCounted
  <2> QED BY <1>1, <1>3, <1>5, <2>3, <2>5, <2>6
<1> QED BY <1>1, <1>4, <1>5 DEF RecordOrder

\* An order on its way through both.
LEMMA OfferKeeps ==
  ASSUME ControlsInv, NEW n \in Notionals, NEW sign \in {-1, 1}, NEW exposure, NEW orders, NEW pnl,
         Offer(n, sign, exposure, orders, pnl)
  PROVE  /\ ControlsInv' /\ UNCHANGED <<shutdown, switched>>
         /\ UNCHANGED today \/ (~switched /\ \A b \in Breakers : ~IsOpen(b))
<1> USE ControlsConstants DEF ControlsInv
<1>1. /\ UNCHANGED <<calm, errors, switched, shutdown, shutdowns, days>> /\ ShutdownSwitched'
      /\ UNCHANGED today \/ (~switched /\ \A b \in Breakers : ~IsOpen(b))
  BY DEF Offer, riskVars, canaryVars, ShutdownSwitched
<1>2. /\ failures' \in [Breakers -> 0..MaxFailures] /\ opened' \in [Breakers -> Closed..Cooldown]
      /\ burst' \in [Breakers -> Nat] /\ \A b \in Breakers : failures'[b] <= errors'
      /\ BurstsOpen'
  <2>1. CASE UNCHANGED <<failures, opened, burst>>
    BY <1>1, <2>1 DEF ControlsTypes, ControlsTypeOK, BurstsOpen
  <2>2. CASE Ask(Breakers)
    BY <1>1, <2>2, AskKeeps
  <2> QED BY <2>1, <2>2 DEF Offer
<1>3. /\ DayCounted' /\ PositionBounded' /\ UNCHANGED <<approvals, granted>>
      /\ position' \in Int /\ count' \in 0..CanaryCount /\ today' \in Nat
      /\ stale' \in BOOLEAN /\ latch' \in BOOLEAN /\ offered' \in {"none", "kill_switch", "violation", "canary", "accepted"}
  <2>1. CASE UNCHANGED canaryVars /\ offered' \in {"kill_switch", "violation"}
    BY <2>1 DEF canaryVars, ControlsTypes, ControlsTypeOK, DayCounted, PositionBounded
  <2>2. CASE RecordOrder(n, sign)
    BY <2>2, RecordKeeps
  <2> QED BY <2>1, <2>2 DEF Offer
<1>4. ControlsTypes'
  BY <1>1, <1>2, <1>3 DEF ControlsTypes, ControlsTypeOK
<1> QED BY <1>1, <1>2, <1>3, <1>4

LEMMA ControlsKeep == ControlsInv /\ [ControlsNext]_controlVars => ControlsInv'
<1> SUFFICES ASSUME ControlsInv, [ControlsNext]_controlVars PROVE ControlsInv'
  OBVIOUS
<1>1. CASE UNCHANGED controlVars
  BY <1>1 DEF ControlsInv, controlVars, breakerVars, riskVars, canaryVars, ControlsTypes, ControlsTypeOK, DayCounted,
              PositionBounded, BurstsOpen, ShutdownSwitched
<1> QED BY <1>1, BreakersKeep, SwitchKeeps, DayKeeps, OfferKeeps DEF ControlsNext

\* Types of the risk engine and of the canary controller, and no counter past its
\* limit, for any breakers, thresholds and limits.
THEOREM ControlsTypeCorrect == ControlsSpec => []ControlsTypeOK
<1>1. ControlsInv => ControlsTypeOK
  BY DEF ControlsInv, ControlsTypes
<1> QED BY <1>1, ControlsStart, ControlsKeep, PTL DEF ControlsSpec

\* CanaryController for any limits: orders of a day and position are bounded, however
\* midnights, latches and approvals fall.
THEOREM CanaryBoundedTheorem == ControlsSpec => []CanaryBounded
<1>1. ASSUME ControlsInv PROVE OrdersPerDay
  <2>1. count \in 0..CanaryCount /\ approvals \in Nat /\ today \in Nat /\ CanaryCount \in Nat
    BY <1>1, ControlsConstants DEF ControlsInv, ControlsTypes, ControlsTypeOK
  <2>2. CanaryCount * (1 + approvals) = CanaryCount + CanaryCount * approvals /\ CanaryCount * approvals \in Nat
    BY <2>1
  <2> QED BY <1>1, <2>1, <2>2 DEF ControlsInv, DayCounted, OrdersPerDay
<1>2. ControlsInv => CanaryBounded
  BY <1>1 DEF CanaryBounded, ControlsInv
<1> QED BY <1>2, ControlsStart, ControlsKeep, PTL DEF ControlsSpec

\* A breaker that is not open has cooled down since a burst.
LEMMA ClosedCooled ==
  ASSUME ControlsInv, \A b \in Breakers : ~IsOpen(b)
  PROVE  \A b \in Breakers : burst[b] >= Threshold => calm[b] >= Cooldown
BY ControlsConstants DEF ControlsInv, ControlsTypes, ControlsTypeOK, BurstsOpen, IsOpen, Expired, Closed

\* CircuitBreaker and EmergencyShutdown for any breakers, threshold and cooldown: no
\* order is accepted, and no recovery ends, while a burst of failures cools down, and
\* none between a shutdown and its recovery, whoever asked is_open in between.
THEOREM BlocksHoldTheorem == ControlsSpec => BlocksHold
<1>1. ASSUME ControlsInv, ControlsNext PROVE BurstBlocks /\ ShutdownHolds
  <2> USE <1>1
  <2>1. today \in Nat /\ (today' = today => ~Accepted) /\ (today' = 0 => ~Accepted)
    BY DEF ControlsInv, ControlsTypes, ControlsTypeOK, Accepted
  <2>2. CASE (\E b \in Breakers : RecordFailure(b) \/ RecordSuccess(b)) \/ BreakerTick
    BY <2>1, <2>2, BreakersKeep DEF riskVars, canaryVars, BurstBlocks, ShutdownHolds
  <2>3. CASE ActivateKillSwitch \/ EmergencyShutdown \/ Recover
    BY <2>1, <2>3, SwitchKeeps, ClosedCooled DEF canaryVars, BurstBlocks, ShutdownHolds
  <2>4. CASE Midnight \/ ResetAfterApproval
    BY <2>1, <2>4, DayKeeps DEF riskVars, BurstBlocks, ShutdownHolds
  <2>5. ASSUME NEW n \in Notionals, NEW sign \in {-1, 1}, NEW exposure \in Exposures, NEW orders \in OpenCounts, NEW pnl \in DayResults,
               Offer(n, sign, exposure, orders, pnl)
        PROVE  BurstBlocks /\ ShutdownHolds
    BY <2>1, <2>5, OfferKeeps, ClosedCooled DEF ControlsInv, ShutdownSwitched, BurstBlocks, ShutdownHolds
  <2> QED BY <2>2, <2>3, <2>4, <2>5 DEF ControlsNext
<1> QED BY <1>1, ControlsStart, ControlsKeep, PTL DEF ControlsSpec, BlocksHold

-----------------------------------------------------------------------------
(* Reconciliation.                                                         *)

\* Among the records under one key there is a last one.
LEMMA LastUnderKey ==
  ASSUME NEW n \in Nat, NEW key, NEW i \in 1..n
  PROVE  \E j \in 1..n : key[j] = key[i] /\ \A m \in (j + 1)..n : key[m] # key[i]
<1> DEFINE R == {ss \in Nat \X Nat : ss[1] < ss[2]}
           S == {n - j : j \in {j \in 1..n : key[j] = key[i]}}
<1>1. IsWellFoundedOn(R, Nat)
  BY NatLessThanWellFounded DEF OpToRel
<1> HIDE DEF R
<1>2. S \subseteq Nat /\ n - i \in S
  OBVIOUS
<1> HIDE DEF S
<1>3. PICK x \in S : \A y \in S : ~(<<y, x>> \in R)
  BY <1>1, <1>2, WFMin
<1>4. \A y \in S : x <= y
  <2> TAKE y \in S
  <2>1. y < x => <<y, x>> \in R
    BY <1>2 DEF R
  <2> QED BY <1>2, <1>3, <2>1
<1>5. PICK j \in 1..n : key[j] = key[i] /\ x = n - j
  BY DEF S
<1>6. ASSUME NEW m \in (j + 1)..n PROVE key[m] # key[i]
  <2> SUFFICES ASSUME key[m] = key[i] PROVE FALSE
    OBVIOUS
  <2>1. m \in 1..n /\ n - m \in S
    BY DEF S
  <2> QED BY <2>1, <1>4, <1>5
<1> QED BY <1>5, <1>6

\* What a dictionary holds under a key is the current record.
Holds(d, l, key) ==
  /\ DOMAIN d = {key[i] : i \in 1..Len(l)}
  /\ \A i \in 1..Len(l) : (\A m \in (i + 1)..Len(l) : key[m] # key[i]) => d[key[i]] = l[i]

LEMMA CurrentThere ==
  ASSUME NEW T, NEW l \in Seq(T), NEW key, NEW d, Holds(d, l, key), NEW k \in DOMAIN d
  PROVE  \E i \in 1..Len(l) : key[i] = k /\ (\A m \in (i + 1)..Len(l) : key[m] # key[i]) /\ d[k] = l[i]
<1>1. PICK i \in 1..Len(l) : key[i] = k
  BY DEF Holds
<1>2. Len(l) \in Nat
  OBVIOUS
<1>3. PICK j \in 1..Len(l) : key[j] = key[i] /\ \A m \in (j + 1)..Len(l) : key[m] # key[i]
  BY <1>2, LastUnderKey
<1> QED BY <1>1, <1>3 DEF Holds

\* Every current record of l has a current partner in r, for lists with their keys.
PairedBy(l, r, kl, kr, Same) ==
  \A x \in 1..Len(l) : (\A m \in (x + 1)..Len(l) : kl[m] # kl[x]) =>
    \E y \in 1..Len(r) : (\A m \in (y + 1)..Len(r) : kr[m] # kr[y]) /\ kl[x] = kr[y] /\ <<l[x], r[y]>> \in Same

\* Two lists are paired both ways exactly when their dictionaries have the same keys
\* and the same under each.
LEMMA PairedBothWays ==
  ASSUME NEW T, NEW e \in Seq(T), NEW i \in Seq(T), NEW ke, NEW ki, NEW l, NEW r,
         Holds(l, e, ke), Holds(r, i, ki), NEW Same,
         \A a, b \in T : <<a, b>> \in Same <=> <<b, a>> \in Same
  PROVE  PairedBy(e, i, ke, ki, Same) /\ PairedBy(i, e, ki, ke, Same)
           <=> DOMAIN l = DOMAIN r /\ \A k \in DOMAIN l : <<l[k], r[k]>> \in Same
<1> DEFINE pe == PairedBy(e, i, ke, ki, Same)
           pi == PairedBy(i, e, ki, ke, Same)
<1>1. ASSUME pe, NEW k \in DOMAIN l PROVE k \in DOMAIN r /\ <<l[k], r[k]>> \in Same
  <2>1. PICK x \in 1..Len(e) : ke[x] = k /\ (\A m \in (x + 1)..Len(e) : ke[m] # ke[x]) /\ l[k] = e[x]
    BY CurrentThere
  <2>2. PICK y \in 1..Len(i) : (\A m \in (y + 1)..Len(i) : ki[m] # ki[y]) /\ ke[x] = ki[y] /\ <<e[x], i[y]>> \in Same
    BY <1>1, <2>1 DEF PairedBy
  <2>3. r[ki[y]] = i[y] /\ ki[y] \in DOMAIN r
    BY <2>2 DEF Holds
  <2> QED BY <2>1, <2>2, <2>3
<1>2. ASSUME pi, NEW k \in DOMAIN r PROVE k \in DOMAIN l
  <2>1. PICK x \in 1..Len(i) : ki[x] = k /\ (\A m \in (x + 1)..Len(i) : ki[m] # ki[x]) /\ r[k] = i[x]
    BY CurrentThere
  <2>2. PICK y \in 1..Len(e) : ki[x] = ke[y]
    BY <1>2, <2>1 DEF PairedBy
  <2>3. ke[y] \in DOMAIN l
    BY <2>2 DEF Holds
  <2> QED BY <2>1, <2>2, <2>3
<1>3. ASSUME DOMAIN l = DOMAIN r, \A k \in DOMAIN l : <<l[k], r[k]>> \in Same
      PROVE  pe
  <2> SUFFICES ASSUME NEW x \in 1..Len(e), \A m \in (x + 1)..Len(e) : ke[m] # ke[x]
               PROVE  \E y \in 1..Len(i) : (\A m \in (y + 1)..Len(i) : ki[m] # ki[y]) /\ ke[x] = ki[y] /\ <<e[x], i[y]>> \in Same
    BY DEF PairedBy
  <2>1. ke[x] \in DOMAIN l /\ l[ke[x]] = e[x]
    BY DEF Holds
  <2>2. PICK y \in 1..Len(i) : ki[y] = ke[x] /\ (\A m \in (y + 1)..Len(i) : ki[m] # ki[y]) /\ r[ke[x]] = i[y]
    BY <1>3, <2>1, CurrentThere
  <2> QED BY <1>3, <2>1, <2>2
<1>4. ASSUME DOMAIN l = DOMAIN r, \A k \in DOMAIN l : <<l[k], r[k]>> \in Same
      PROVE  pi
  <2> SUFFICES ASSUME NEW x \in 1..Len(i), \A m \in (x + 1)..Len(i) : ki[m] # ki[x]
               PROVE  \E y \in 1..Len(e) : (\A m \in (y + 1)..Len(e) : ke[m] # ke[y]) /\ ki[x] = ke[y] /\ <<i[x], e[y]>> \in Same
    BY DEF PairedBy
  <2>1. ki[x] \in DOMAIN r /\ r[ki[x]] = i[x]
    BY DEF Holds
  <2>2. PICK y \in 1..Len(e) : ke[y] = ki[x] /\ (\A m \in (y + 1)..Len(e) : ke[m] # ke[y]) /\ l[ki[x]] = e[y]
    BY <1>4, <2>1, CurrentThere
  <2>3. <<e[y], i[x]>> \in Same /\ e[y] \in T /\ i[x] \in T
    BY <1>4, <2>1, <2>2
  <2> QED BY <2>2, <2>3
<1> QED BY <1>1, <1>2, <1>3, <1>4

\* The amounts are whole numbers, the tolerances natural ones.
LEMMA ApartNotWithin ==
  ASSUME NEW a \in Int, NEW b \in Int, NEW tolerance \in Nat
  PROVE  /\ Apart(a, b, tolerance) <=> ~Within(a, b, tolerance)
         /\ Apart(a, b, tolerance) <=> Apart(b, a, tolerance)
         /\ Within(a, b, tolerance) <=> Within(b, a, tolerance)
BY DEF Apart, Within

LEMMA MissingNone ==
  ASSUME NEW category, NEW l, NEW r
  PROVE  /\ Missing(category, l, r) = {} <=> DOMAIN l = DOMAIN r
         /\ Missing(category, l, r) = Missing(category, r, l)
         /\ Common(l, r) = Common(r, l)
         /\ DOMAIN l = DOMAIN r => Common(l, r) = DOMAIN l
BY DEF Missing, Common

BalanceRecords == [asset : STRING, total : Int, available : Int]

LEMMA BalancesHeld ==
  ASSUME NEW l \in Seq(BalanceRecords)
  PROVE  /\ Holds(ByKey(l, Asset), l, [i \in 1..Len(l) |-> l[i].asset])
         /\ \A k \in DOMAIN ByKey(l, Asset) : ByKey(l, Asset)[k] \in BalanceRecords
<1> DEFINE n == Len(l)
           key == [i \in 1..n |-> l[i].asset]
           d == ByKey(l, Asset)
<1>1. n \in Nat
  OBVIOUS
<1>2. d = [k \in {l[i].asset : i \in 1..n} |->
             l[CHOOSE i \in 1..n : l[i].asset = k /\ \A j \in (i + 1)..n : l[j].asset # k]]
  BY DEF ByKey, Asset
<1>3. DOMAIN d = {key[i] : i \in 1..n}
  BY <1>2
<1>4. ASSUME NEW i \in 1..n, \A m \in (i + 1)..n : key[m] # key[i] PROVE d[key[i]] = l[i]
  <2>0. (i + 1)..n \subseteq 1..n /\ \A m \in 1..n : key[m] = l[m].asset
    BY <1>1
  <2> HIDE DEF key
  <2>1. l[i].asset = key[i] /\ \A j \in (i + 1)..n : l[j].asset # key[i]
    BY <1>4, <2>0
  <2>2. \A x \in 1..n : (l[x].asset = key[i] /\ \A j \in (x + 1)..n : l[j].asset # key[i]) => x = i
    BY <1>1, <2>1
  <2>3. (CHOOSE x \in 1..n : l[x].asset = key[i] /\ \A j \in (x + 1)..n : l[j].asset # key[i]) = i
    BY <2>1, <2>2
  <2>4. key[i] \in {l[x].asset : x \in 1..n}
    BY <2>1
  <2> HIDE DEF d
  <2> QED BY <1>2, <2>3, <2>4
<1>5. Holds(d, l, key)
  BY <1>3, <1>4 DEF Holds
<1> HIDE DEF d, key
<1>6. \A k \in DOMAIN d : d[k] \in BalanceRecords
  BY <1>5, CurrentThere
<1> QED BY <1>5, <1>6 DEF d, key

LEMMA BalancesPaired ==
  ASSUME NEW l \in Seq(BalanceRecords), NEW r \in Seq(BalanceRecords), NEW kl, NEW kr, NEW Same,
         \A x \in 1..Len(l) : kl[x] = l[x].asset, \A y \in 1..Len(r) : kr[y] = r[y].asset,
         \A a, b \in BalanceRecords : <<a, b>> \in Same <=> SameBalance(a, b)
  PROVE  Paired(l, r, Asset, SameBalance) <=> PairedBy(l, r, kl, kr, Same)
<1> DEFINE Cl(x) == \A m \in (x + 1)..Len(l) : l[m].asset # l[x].asset
           Cr(y) == \A m \in (y + 1)..Len(r) : r[m].asset # r[y].asset
<1>1. Paired(l, r, Asset, SameBalance) <=>
        \A x \in 1..Len(l) : Cl(x) =>
          \E y \in 1..Len(r) : Cr(y) /\ l[x].asset = r[y].asset /\ SameBalance(l[x], r[y])
  BY Zenon DEF Paired, Current, Asset
<1>2. \A x \in 1..Len(l) : Cl(x) <=> \A m \in (x + 1)..Len(l) : kl[m] # kl[x]
  <2>1. \A x \in 1..Len(l) : (x + 1)..Len(l) \subseteq 1..Len(l)
    OBVIOUS
  <2> QED BY <2>1
<1>3. \A y \in 1..Len(r) : Cr(y) <=> \A m \in (y + 1)..Len(r) : kr[m] # kr[y]
  <2>1. \A y \in 1..Len(r) : (y + 1)..Len(r) \subseteq 1..Len(r)
    OBVIOUS
  <2> QED BY <2>1
<1>4. \A x \in 1..Len(l), y \in 1..Len(r) :
        (l[x].asset = r[y].asset /\ SameBalance(l[x], r[y])) <=> (kl[x] = kr[y] /\ <<l[x], r[y]>> \in Same)
  OBVIOUS
<1> DEFINE Dl(x) == \A m \in (x + 1)..Len(l) : kl[m] # kl[x]
           Dr(y) == \A m \in (y + 1)..Len(r) : kr[m] # kr[y]
           P(x, y) == l[x].asset = r[y].asset /\ SameBalance(l[x], r[y])
           Q(x, y) == kl[x] = kr[y] /\ <<l[x], r[y]>> \in Same
<1>5. PairedBy(l, r, kl, kr, Same) <=> \A x \in 1..Len(l) : Dl(x) => \E y \in 1..Len(r) : Dr(y) /\ Q(x, y)
  BY Zenon DEF PairedBy
<1>6. Paired(l, r, Asset, SameBalance) <=> \A x \in 1..Len(l) : Cl(x) => \E y \in 1..Len(r) : Cr(y) /\ P(x, y)
  BY <1>1, Zenon
<1>7. \A x \in 1..Len(l), y \in 1..Len(r) : (Cl(x) <=> Dl(x)) /\ (Cr(y) <=> Dr(y)) /\ (P(x, y) <=> Q(x, y))
  BY <1>2, <1>3, <1>4, Zenon
<1>8. \A x \in 1..Len(l) : (Cl(x) <=> Dl(x))
  BY <1>2, Zenon
<1> HIDE DEF Cl, Cr, Dl, Dr, P, Q
<1> QED BY <1>5, <1>6, <1>7, <1>8

\* _compare_balances finds nothing exactly when the lists are paired.
LEMMA BalancesCompared ==
  ASSUME NEW e \in Seq(BalanceRecords), NEW i \in Seq(BalanceRecords)
  PROVE  /\ CompareBalances(e, i) = {} <=> Paired(e, i, Asset, SameBalance) /\ Paired(i, e, Asset, SameBalance)
         /\ CompareBalances(e, i) = CompareBalances(i, e)
<1> DEFINE l == ByKey(e, Asset)
           r == ByKey(i, Asset)
           ke == [x \in 1..Len(e) |-> e[x].asset]
           ki == [x \in 1..Len(i) |-> i[x].asset]
           Same == {p \in BalanceRecords \X BalanceRecords : SameBalance(p[1], p[2])}
           pe == Paired(e, i, Asset, SameBalance)
           pi == Paired(i, e, Asset, SameBalance)
<1>1. /\ Holds(l, e, ke) /\ \A k \in DOMAIN l : l[k] \in BalanceRecords
      /\ Holds(r, i, ki) /\ \A k \in DOMAIN r : r[k] \in BalanceRecords
  BY BalancesHeld
<1>2. BalanceTolerance \in Nat
  BY ReportAssumption DEF ToleranceAssumption
<1>3. \A a, b \in BalanceRecords : <<a, b>> \in Same <=> SameBalance(a, b)
  OBVIOUS
<1>4. ASSUME NEW a \in BalanceRecords, NEW b \in BalanceRecords
      PROVE  /\ SameBalance(a, b) <=> SameBalance(b, a)
             /\ SameBalance(a, b) <=> ~Apart(a.total, b.total, BalanceTolerance) /\ ~Apart(a.available, b.available, BalanceTolerance)
             /\ Apart(a.total, b.total, BalanceTolerance) <=> Apart(b.total, a.total, BalanceTolerance)
             /\ Apart(a.available, b.available, BalanceTolerance) <=> Apart(b.available, a.available, BalanceTolerance)
  <2>1. a.total \in Int /\ b.total \in Int /\ a.available \in Int /\ b.available \in Int
    BY DEF BalanceRecords
  <2> QED BY <2>1, <1>2, ApartNotWithin DEF SameBalance
<1>5. \A a, b \in BalanceRecords : <<a, b>> \in Same <=> <<b, a>> \in Same
  BY <1>3, <1>4
<1>6. (\A x \in 1..Len(e) : ke[x] = e[x].asset) /\ (\A x \in 1..Len(i) : ki[x] = i[x].asset)
  OBVIOUS
<1> HIDE DEF Same, ke, ki
<1>7. (pe <=> PairedBy(e, i, ke, ki, Same)) /\ (pi <=> PairedBy(i, e, ki, ke, Same))
  BY <1>3, <1>6, BalancesPaired
<1> HIDE DEF l, r, pe, pi
<1>8. pe /\ pi <=> DOMAIN l = DOMAIN r /\ \A k \in DOMAIN l : <<l[k], r[k]>> \in Same
  BY <1>1, <1>5, <1>7, PairedBothWays
<1>9. CompareBalances(e, i) =
        Missing("balance", l, r)
        \cup {Finding("balance", a, "critical") : a \in {a \in Common(l, r) : Apart(l[a].total, r[a].total, BalanceTolerance)}}
        \cup {Finding("balance", a, "warning") : a \in {a \in Common(l, r) : Apart(l[a].available, r[a].available, BalanceTolerance)}}
  BY DEF CompareBalances, l, r
<1>10. CompareBalances(i, e) =
        Missing("balance", r, l)
        \cup {Finding("balance", a, "critical") : a \in {a \in Common(r, l) : Apart(r[a].total, l[a].total, BalanceTolerance)}}
        \cup {Finding("balance", a, "warning") : a \in {a \in Common(r, l) : Apart(r[a].available, l[a].available, BalanceTolerance)}}
  BY DEF CompareBalances, l, r
<1>11. Common(l, r) \subseteq DOMAIN l \cap DOMAIN r
  BY DEF Common
<1>12. CompareBalances(e, i) = {} <=> DOMAIN l = DOMAIN r /\ \A k \in DOMAIN l : <<l[k], r[k]>> \in Same
  <2>1. CompareBalances(e, i) = {} <=>
          /\ Missing("balance", l, r) = {}
          /\ \A a \in Common(l, r) : ~Apart(l[a].total, r[a].total, BalanceTolerance) /\ ~Apart(l[a].available, r[a].available, BalanceTolerance)
    BY <1>9
  <2>2. \A a \in Common(l, r) : <<l[a], r[a]>> \in Same <=>
          ~Apart(l[a].total, r[a].total, BalanceTolerance) /\ ~Apart(l[a].available, r[a].available, BalanceTolerance)
    BY <1>1, <1>3, <1>4, <1>11
  <2>3. /\ Missing("balance", l, r) = {} <=> DOMAIN l = DOMAIN r
        /\ DOMAIN l = DOMAIN r => Common(l, r) = DOMAIN l
    BY MissingNone
  <2> QED BY <2>1, <2>2, <2>3
<1>13. CompareBalances(e, i) = CompareBalances(i, e)
  BY <1>1, <1>4, <1>9, <1>10, <1>11, MissingNone
<1> QED BY <1>8, <1>12, <1>13 DEF pe, pi
PositionRecords == [symbol : STRING, asset : STRING, quantity : Int, notional : Int]

LEMMA PositionsHeld ==
  ASSUME NEW l \in Seq(PositionRecords)
  PROVE  /\ Holds(ByKey(l, PositionKey), l, [i \in 1..Len(l) |-> <<l[i].symbol, l[i].asset>>])
         /\ \A k \in DOMAIN ByKey(l, PositionKey) : ByKey(l, PositionKey)[k] \in PositionRecords
<1> DEFINE n == Len(l)
           key == [i \in 1..n |-> <<l[i].symbol, l[i].asset>>]
           d == ByKey(l, PositionKey)
<1>1. n \in Nat
  OBVIOUS
<1>2. d = [k \in {<<l[i].symbol, l[i].asset>> : i \in 1..n} |->
             l[CHOOSE i \in 1..n : <<l[i].symbol, l[i].asset>> = k /\ \A j \in (i + 1)..n : <<l[j].symbol, l[j].asset>> # k]]
  BY DEF ByKey, PositionKey
<1>3. DOMAIN d = {key[i] : i \in 1..n}
  BY <1>2
<1>4. ASSUME NEW i \in 1..n, \A m \in (i + 1)..n : key[m] # key[i] PROVE d[key[i]] = l[i]
  <2>0. (i + 1)..n \subseteq 1..n /\ \A m \in 1..n : key[m] = <<l[m].symbol, l[m].asset>>
    BY <1>1
  <2> HIDE DEF key
  <2>1. <<l[i].symbol, l[i].asset>> = key[i] /\ \A j \in (i + 1)..n : <<l[j].symbol, l[j].asset>> # key[i]
    BY <1>4, <2>0
  <2>2. \A x \in 1..n : (<<l[x].symbol, l[x].asset>> = key[i] /\ \A j \in (x + 1)..n : <<l[j].symbol, l[j].asset>> # key[i]) => x = i
    BY <1>1, <2>1
  <2>3. (CHOOSE x \in 1..n : <<l[x].symbol, l[x].asset>> = key[i] /\ \A j \in (x + 1)..n : <<l[j].symbol, l[j].asset>> # key[i]) = i
    BY <2>1, <2>2
  <2>4. key[i] \in {<<l[x].symbol, l[x].asset>> : x \in 1..n}
    BY <2>1
  <2> HIDE DEF d
  <2> QED BY <1>2, <2>3, <2>4
<1>5. Holds(d, l, key)
  BY <1>3, <1>4 DEF Holds
<1> HIDE DEF d, key
<1>6. \A k \in DOMAIN d : d[k] \in PositionRecords
  BY <1>5, CurrentThere
<1> QED BY <1>5, <1>6 DEF d, key

LEMMA PositionsPaired ==
  ASSUME NEW l \in Seq(PositionRecords), NEW r \in Seq(PositionRecords), NEW kl, NEW kr, NEW Same,
         \A x \in 1..Len(l) : kl[x] = <<l[x].symbol, l[x].asset>>, \A y \in 1..Len(r) : kr[y] = <<r[y].symbol, r[y].asset>>,
         \A a, b \in PositionRecords : <<a, b>> \in Same <=> SamePosition(a, b)
  PROVE  Paired(l, r, PositionKey, SamePosition) <=> PairedBy(l, r, kl, kr, Same)
<1> DEFINE Cl(x) == \A m \in (x + 1)..Len(l) : <<l[m].symbol, l[m].asset>> # <<l[x].symbol, l[x].asset>>
           Cr(y) == \A m \in (y + 1)..Len(r) : <<r[m].symbol, r[m].asset>> # <<r[y].symbol, r[y].asset>>
<1>1. Paired(l, r, PositionKey, SamePosition) <=>
        \A x \in 1..Len(l) : Cl(x) =>
          \E y \in 1..Len(r) : Cr(y) /\ <<l[x].symbol, l[x].asset>> = <<r[y].symbol, r[y].asset>> /\ SamePosition(l[x], r[y])
  BY Zenon DEF Paired, Current, PositionKey
<1>2. \A x \in 1..Len(l) : Cl(x) <=> \A m \in (x + 1)..Len(l) : kl[m] # kl[x]
  <2>1. \A x \in 1..Len(l) : (x + 1)..Len(l) \subseteq 1..Len(l)
    OBVIOUS
  <2> QED BY <2>1
<1>3. \A y \in 1..Len(r) : Cr(y) <=> \A m \in (y + 1)..Len(r) : kr[m] # kr[y]
  <2>1. \A y \in 1..Len(r) : (y + 1)..Len(r) \subseteq 1..Len(r)
    OBVIOUS
  <2> QED BY <2>1
<1>4. \A x \in 1..Len(l), y \in 1..Len(r) :
        (<<l[x].symbol, l[x].asset>> = <<r[y].symbol, r[y].asset>> /\ SamePosition(l[x], r[y])) <=> (kl[x] = kr[y] /\ <<l[x], r[y]>> \in Same)
  <2> TAKE x \in 1..Len(l), y \in 1..Len(r)
  <2>1. l[x] \in PositionRecords /\ r[y] \in PositionRecords
    OBVIOUS
  <2>2. SamePosition(l[x], r[y]) <=> <<l[x], r[y]>> \in Same
    BY <2>1, Zenon
  <2>3. kl[x] = <<l[x].symbol, l[x].asset>> /\ kr[y] = <<r[y].symbol, r[y].asset>>
    BY Zenon
  <2> QED BY <2>2, <2>3, Zenon
<1> DEFINE Dl(x) == \A m \in (x + 1)..Len(l) : kl[m] # kl[x]
           Dr(y) == \A m \in (y + 1)..Len(r) : kr[m] # kr[y]
           P(x, y) == <<l[x].symbol, l[x].asset>> = <<r[y].symbol, r[y].asset>> /\ SamePosition(l[x], r[y])
           Q(x, y) == kl[x] = kr[y] /\ <<l[x], r[y]>> \in Same
<1>5. PairedBy(l, r, kl, kr, Same) <=> \A x \in 1..Len(l) : Dl(x) => \E y \in 1..Len(r) : Dr(y) /\ Q(x, y)
  BY Zenon DEF PairedBy
<1>6. Paired(l, r, PositionKey, SamePosition) <=> \A x \in 1..Len(l) : Cl(x) => \E y \in 1..Len(r) : Cr(y) /\ P(x, y)
  BY <1>1, Zenon
<1>7. \A x \in 1..Len(l), y \in 1..Len(r) : (Cl(x) <=> Dl(x)) /\ (Cr(y) <=> Dr(y)) /\ (P(x, y) <=> Q(x, y))
  BY <1>2, <1>3, <1>4, Zenon
<1>8. \A x \in 1..Len(l) : (Cl(x) <=> Dl(x))
  BY <1>2, Zenon
<1> HIDE DEF Cl, Cr, Dl, Dr, P, Q
<1> QED BY <1>5, <1>6, <1>7, <1>8

\* _compare_positions finds nothing exactly when the lists are paired.
LEMMA PositionsCompared ==
  ASSUME NEW e \in Seq(PositionRecords), NEW i \in Seq(PositionRecords)
  PROVE  /\ ComparePositions(e, i) = {} <=> Paired(e, i, PositionKey, SamePosition) /\ Paired(i, e, PositionKey, SamePosition)
         /\ ComparePositions(e, i) = ComparePositions(i, e)
<1> DEFINE l == ByKey(e, PositionKey)
           r == ByKey(i, PositionKey)
           ke == [x \in 1..Len(e) |-> <<e[x].symbol, e[x].asset>>]
           ki == [x \in 1..Len(i) |-> <<i[x].symbol, i[x].asset>>]
           Same == {p \in PositionRecords \X PositionRecords : SamePosition(p[1], p[2])}
           pe == Paired(e, i, PositionKey, SamePosition)
           pi == Paired(i, e, PositionKey, SamePosition)
<1>1. /\ Holds(l, e, ke) /\ \A k \in DOMAIN l : l[k] \in PositionRecords
      /\ Holds(r, i, ki) /\ \A k \in DOMAIN r : r[k] \in PositionRecords
  BY PositionsHeld
<1>2. BalanceTolerance \in Nat /\ NotionalTolerance \in Nat
  BY ReportAssumption DEF ToleranceAssumption
<1>3. \A a, b \in PositionRecords : <<a, b>> \in Same <=> SamePosition(a, b)
  OBVIOUS
<1>4. ASSUME NEW a \in PositionRecords, NEW b \in PositionRecords
      PROVE  /\ SamePosition(a, b) <=> SamePosition(b, a)
             /\ SamePosition(a, b) <=> ~Apart(a.quantity, b.quantity, BalanceTolerance) /\ ~Apart(a.notional, b.notional, NotionalTolerance)
             /\ Apart(a.quantity, b.quantity, BalanceTolerance) <=> Apart(b.quantity, a.quantity, BalanceTolerance)
             /\ Apart(a.notional, b.notional, NotionalTolerance) <=> Apart(b.notional, a.notional, NotionalTolerance)
  <2>1. a.quantity \in Int /\ b.quantity \in Int /\ a.notional \in Int /\ b.notional \in Int
    BY DEF PositionRecords
  <2> QED BY <2>1, <1>2, ApartNotWithin DEF SamePosition
<1>5. \A a, b \in PositionRecords : <<a, b>> \in Same <=> <<b, a>> \in Same
  BY <1>3, <1>4
<1>6. (\A x \in 1..Len(e) : ke[x] = <<e[x].symbol, e[x].asset>>) /\ (\A x \in 1..Len(i) : ki[x] = <<i[x].symbol, i[x].asset>>)
  OBVIOUS
<1> HIDE DEF Same, ke, ki
<1>7. (pe <=> PairedBy(e, i, ke, ki, Same)) /\ (pi <=> PairedBy(i, e, ki, ke, Same))
  BY <1>3, <1>6, PositionsPaired
<1> HIDE DEF l, r, pe, pi
<1>8. pe /\ pi <=> DOMAIN l = DOMAIN r /\ \A k \in DOMAIN l : <<l[k], r[k]>> \in Same
  BY <1>1, <1>5, <1>7, PairedBothWays
<1>9. ComparePositions(e, i) =
        Missing("position", l, r)
        \cup {Finding("position", a, "critical") : a \in {a \in Common(l, r) : Apart(l[a].quantity, r[a].quantity, BalanceTolerance)}}
        \cup {Finding("position", a, "warning") : a \in {a \in Common(l, r) : Apart(l[a].notional, r[a].notional, NotionalTolerance)}}
  BY DEF ComparePositions, l, r
<1>10. ComparePositions(i, e) =
        Missing("position", r, l)
        \cup {Finding("position", a, "critical") : a \in {a \in Common(r, l) : Apart(r[a].quantity, l[a].quantity, BalanceTolerance)}}
        \cup {Finding("position", a, "warning") : a \in {a \in Common(r, l) : Apart(r[a].notional, l[a].notional, NotionalTolerance)}}
  BY DEF ComparePositions, l, r
<1>11. Common(l, r) \subseteq DOMAIN l \cap DOMAIN r
  BY DEF Common
<1>12. ComparePositions(e, i) = {} <=> DOMAIN l = DOMAIN r /\ \A k \in DOMAIN l : <<l[k], r[k]>> \in Same
  <2>1. ComparePositions(e, i) = {} <=>
          /\ Missing("position", l, r) = {}
          /\ \A a \in Common(l, r) : ~Apart(l[a].quantity, r[a].quantity, BalanceTolerance) /\ ~Apart(l[a].notional, r[a].notional, NotionalTolerance)
    BY <1>9
  <2>2. \A a \in Common(l, r) : <<l[a], r[a]>> \in Same <=>
          ~Apart(l[a].quantity, r[a].quantity, BalanceTolerance) /\ ~Apart(l[a].notional, r[a].notional, NotionalTolerance)
    BY <1>1, <1>3, <1>4, <1>11
  <2>3. /\ Missing("position", l, r) = {} <=> DOMAIN l = DOMAIN r
        /\ DOMAIN l = DOMAIN r => Common(l, r) = DOMAIN l
    BY MissingNone
  <2> QED BY <2>1, <2>2, <2>3
<1>13. ComparePositions(e, i) = ComparePositions(i, e)
  BY <1>1, <1>4, <1>9, <1>10, <1>11, MissingNone
<1> QED BY <1>8, <1>12, <1>13 DEF pe, pi
OrderRecords == [client_order_id : STRING, status : STRING, filled_quantity : Int]

LEMMA OrdersHeld ==
  ASSUME NEW l \in Seq(OrderRecords)
  PROVE  /\ Holds(ByKey(l, ClientOrderId), l, [i \in 1..Len(l) |-> l[i].client_order_id])
         /\ \A k \in DOMAIN ByKey(l, ClientOrderId) : ByKey(l, ClientOrderId)[k] \in OrderRecords
<1> DEFINE n == Len(l)
           key == [i \in 1..n |-> l[i].client_order_id]
           d == ByKey(l, ClientOrderId)
<1>1. n \in Nat
  OBVIOUS
<1>2. d = [k \in {l[i].client_order_id : i \in 1..n} |->
             l[CHOOSE i \in 1..n : l[i].client_order_id = k /\ \A j \in (i + 1)..n : l[j].client_order_id # k]]
  BY DEF ByKey, ClientOrderId
<1>3. DOMAIN d = {key[i] : i \in 1..n}
  BY <1>2
<1>4. ASSUME NEW i \in 1..n, \A m \in (i + 1)..n : key[m] # key[i] PROVE d[key[i]] = l[i]
  <2>0. (i + 1)..n \subseteq 1..n /\ \A m \in 1..n : key[m] = l[m].client_order_id
    BY <1>1
  <2> HIDE DEF key
  <2>1. l[i].client_order_id = key[i] /\ \A j \in (i + 1)..n : l[j].client_order_id # key[i]
    BY <1>4, <2>0
  <2>2. \A x \in 1..n : (l[x].client_order_id = key[i] /\ \A j \in (x + 1)..n : l[j].client_order_id # key[i]) => x = i
    BY <1>1, <2>1
  <2>3. (CHOOSE x \in 1..n : l[x].client_order_id = key[i] /\ \A j \in (x + 1)..n : l[j].client_order_id # key[i]) = i
    BY <2>1, <2>2
  <2>4. key[i] \in {l[x].client_order_id : x \in 1..n}
    BY <2>1
  <2> HIDE DEF d
  <2> QED BY <1>2, <2>3, <2>4
<1>5. Holds(d, l, key)
  BY <1>3, <1>4 DEF Holds
<1> HIDE DEF d, key
<1>6. \A k \in DOMAIN d : d[k] \in OrderRecords
  BY <1>5, CurrentThere
<1> QED BY <1>5, <1>6 DEF d, key

LEMMA OrdersPaired ==
  ASSUME NEW l \in Seq(OrderRecords), NEW r \in Seq(OrderRecords), NEW kl, NEW kr, NEW Same,
         \A x \in 1..Len(l) : kl[x] = l[x].client_order_id, \A y \in 1..Len(r) : kr[y] = r[y].client_order_id,
         \A a, b \in OrderRecords : <<a, b>> \in Same <=> SameOrder(a, b)
  PROVE  Paired(l, r, ClientOrderId, SameOrder) <=> PairedBy(l, r, kl, kr, Same)
<1> DEFINE Cl(x) == \A m \in (x + 1)..Len(l) : l[m].client_order_id # l[x].client_order_id
           Cr(y) == \A m \in (y + 1)..Len(r) : r[m].client_order_id # r[y].client_order_id
<1>1. Paired(l, r, ClientOrderId, SameOrder) <=>
        \A x \in 1..Len(l) : Cl(x) =>
          \E y \in 1..Len(r) : Cr(y) /\ l[x].client_order_id = r[y].client_order_id /\ SameOrder(l[x], r[y])
  BY Zenon DEF Paired, Current, ClientOrderId
<1>2. \A x \in 1..Len(l) : Cl(x) <=> \A m \in (x + 1)..Len(l) : kl[m] # kl[x]
  <2>1. \A x \in 1..Len(l) : (x + 1)..Len(l) \subseteq 1..Len(l)
    OBVIOUS
  <2> QED BY <2>1
<1>3. \A y \in 1..Len(r) : Cr(y) <=> \A m \in (y + 1)..Len(r) : kr[m] # kr[y]
  <2>1. \A y \in 1..Len(r) : (y + 1)..Len(r) \subseteq 1..Len(r)
    OBVIOUS
  <2> QED BY <2>1
<1>4. \A x \in 1..Len(l), y \in 1..Len(r) :
        (l[x].client_order_id = r[y].client_order_id /\ SameOrder(l[x], r[y])) <=> (kl[x] = kr[y] /\ <<l[x], r[y]>> \in Same)
  OBVIOUS
<1> DEFINE Dl(x) == \A m \in (x + 1)..Len(l) : kl[m] # kl[x]
           Dr(y) == \A m \in (y + 1)..Len(r) : kr[m] # kr[y]
           P(x, y) == l[x].client_order_id = r[y].client_order_id /\ SameOrder(l[x], r[y])
           Q(x, y) == kl[x] = kr[y] /\ <<l[x], r[y]>> \in Same
<1>5. PairedBy(l, r, kl, kr, Same) <=> \A x \in 1..Len(l) : Dl(x) => \E y \in 1..Len(r) : Dr(y) /\ Q(x, y)
  BY Zenon DEF PairedBy
<1>6. Paired(l, r, ClientOrderId, SameOrder) <=> \A x \in 1..Len(l) : Cl(x) => \E y \in 1..Len(r) : Cr(y) /\ P(x, y)
  BY <1>1, Zenon
<1>7. \A x \in 1..Len(l), y \in 1..Len(r) : (Cl(x) <=> Dl(x)) /\ (Cr(y) <=> Dr(y)) /\ (P(x, y) <=> Q(x, y))
  BY <1>2, <1>3, <1>4, Zenon
<1>8. \A x \in 1..Len(l) : (Cl(x) <=> Dl(x))
  BY <1>2, Zenon
<1> HIDE DEF Cl, Cr, Dl, Dr, P, Q
<1> QED BY <1>5, <1>6, <1>7, <1>8

\* _compare_orders finds nothing exactly when the lists are paired.
LEMMA OrdersCompared ==
  ASSUME NEW e \in Seq(OrderRecords), NEW i \in Seq(OrderRecords)
  PROVE  /\ CompareOrders(e, i) = {} <=> Paired(e, i, ClientOrderId, SameOrder) /\ Paired(i, e, ClientOrderId, SameOrder)
         /\ CompareOrders(e, i) = CompareOrders(i, e)
<1> DEFINE l == ByKey(e, ClientOrderId)
           r == ByKey(i, ClientOrderId)
           ke == [x \in 1..Len(e) |-> e[x].client_order_id]
           ki == [x \in 1..Len(i) |-> i[x].client_order_id]
           Same == {p \in OrderRecords \X OrderRecords : SameOrder(p[1], p[2])}
           pe == Paired(e, i, ClientOrderId, SameOrder)
           pi == Paired(i, e, ClientOrderId, SameOrder)
<1>1. /\ Holds(l, e, ke) /\ \A k \in DOMAIN l : l[k] \in OrderRecords
      /\ Holds(r, i, ki) /\ \A k \in DOMAIN r : r[k] \in OrderRecords
  BY OrdersHeld
<1>2. BalanceTolerance \in Nat
  BY ReportAssumption DEF ToleranceAssumption
<1>3. \A a, b \in OrderRecords : <<a, b>> \in Same <=> SameOrder(a, b)
  OBVIOUS
<1>4. ASSUME NEW a \in OrderRecords, NEW b \in OrderRecords
      PROVE  /\ SameOrder(a, b) <=> SameOrder(b, a)
             /\ SameOrder(a, b) <=> a.status = b.status /\ ~Apart(a.filled_quantity, b.filled_quantity, BalanceTolerance)
             /\ Apart(a.filled_quantity, b.filled_quantity, BalanceTolerance) <=> Apart(b.filled_quantity, a.filled_quantity, BalanceTolerance)
  <2>1. a.filled_quantity \in Int /\ b.filled_quantity \in Int
    BY DEF OrderRecords
  <2> QED BY <2>1, <1>2, ApartNotWithin DEF SameOrder
<1>5. \A a, b \in OrderRecords : <<a, b>> \in Same <=> <<b, a>> \in Same
  BY <1>3, <1>4
<1>6. (\A x \in 1..Len(e) : ke[x] = e[x].client_order_id) /\ (\A x \in 1..Len(i) : ki[x] = i[x].client_order_id)
  OBVIOUS
<1> HIDE DEF Same, ke, ki
<1>7. (pe <=> PairedBy(e, i, ke, ki, Same)) /\ (pi <=> PairedBy(i, e, ki, ke, Same))
  BY <1>3, <1>6, OrdersPaired
<1> HIDE DEF l, r, pe, pi
<1>8. pe /\ pi <=> DOMAIN l = DOMAIN r /\ \A k \in DOMAIN l : <<l[k], r[k]>> \in Same
  BY <1>1, <1>5, <1>7, PairedBothWays
<1>9. CompareOrders(e, i) =
        Missing("order", l, r)
        \cup {Finding("order", a, "critical") : a \in {a \in Common(l, r) : l[a].status # r[a].status}}
        \cup {Finding("order", a, "warning") : a \in {a \in Common(l, r) : Apart(l[a].filled_quantity, r[a].filled_quantity, BalanceTolerance)}}
  BY DEF CompareOrders, l, r
<1>10. CompareOrders(i, e) =
        Missing("order", r, l)
        \cup {Finding("order", a, "critical") : a \in {a \in Common(r, l) : r[a].status # l[a].status}}
        \cup {Finding("order", a, "warning") : a \in {a \in Common(r, l) : Apart(r[a].filled_quantity, l[a].filled_quantity, BalanceTolerance)}}
  BY DEF CompareOrders, l, r
<1>11. Common(l, r) \subseteq DOMAIN l \cap DOMAIN r
  BY DEF Common
<1>12. CompareOrders(e, i) = {} <=> DOMAIN l = DOMAIN r /\ \A k \in DOMAIN l : <<l[k], r[k]>> \in Same
  <2>1. CompareOrders(e, i) = {} <=>
          /\ Missing("order", l, r) = {}
          /\ \A a \in Common(l, r) : l[a].status = r[a].status /\ ~Apart(l[a].filled_quantity, r[a].filled_quantity, BalanceTolerance)
    BY <1>9
  <2>2. \A a \in Common(l, r) : <<l[a], r[a]>> \in Same <=>
          l[a].status = r[a].status /\ ~Apart(l[a].filled_quantity, r[a].filled_quantity, BalanceTolerance)
    BY <1>1, <1>3, <1>4, <1>11
  <2>3. /\ Missing("order", l, r) = {} <=> DOMAIN l = DOMAIN r
        /\ DOMAIN l = DOMAIN r => Common(l, r) = DOMAIN l
    BY MissingNone
  <2> QED BY <2>1, <2>2, <2>3
<1>13. CompareOrders(e, i) = CompareOrders(i, e)
  BY <1>1, <1>4, <1>9, <1>10, <1>11, MissingNone
<1> QED BY <1>8, <1>12, <1>13 DEF pe, pi

\* _compare_fills finds nothing exactly when the same trade ids are on both sides.
LEMMA FillsCompared ==
  ASSUME NEW e \in Seq([trade_id : STRING]), NEW i \in Seq([trade_id : STRING])
  PROVE  /\ CompareFills(e, i) = {} <=> {e[k].trade_id : k \in DOMAIN e} = {i[k].trade_id : k \in DOMAIN i}
         /\ CompareFills(e, i) = CompareFills(i, e)
<1> DEFINE te == {e[k].trade_id : k \in 1..Len(e)}
           ti == {i[k].trade_id : k \in 1..Len(i)}
<1>1. DOMAIN e = 1..Len(e) /\ DOMAIN i = 1..Len(i)
  OBVIOUS
<1>2. /\ CompareFills(e, i) = {Finding("fill", t, "critical") : t \in (te \ ti) \cup (ti \ te)}
      /\ CompareFills(i, e) = {Finding("fill", t, "critical") : t \in (ti \ te) \cup (te \ ti)}
  BY DEF CompareFills
<1>3. te = {e[k].trade_id : k \in DOMAIN e} /\ ti = {i[k].trade_id : k \in DOMAIN i}
  BY <1>1
<1> HIDE DEF te, ti
<1>4. CompareFills(e, i) = {} <=> te = ti
  BY <1>2
<1>5. CompareFills(e, i) = CompareFills(i, e)
  BY <1>2
<1> QED BY <1>3, <1>4, <1>5

PnlRecords == [realized : Int, unrealized : Int, fees : Int]

\* _compare_pnl finds nothing exactly when both sides have no summary, or both have
\* one and its three fields are close.
LEMMA PnlCompared ==
  ASSUME NEW e, NEW i,
         \A p, q \in e : p = q /\ p \in PnlRecords,
         \A p, q \in i : p = q /\ p \in PnlRecords
  PROVE  /\ ComparePnl(e, i) = {} <=> /\ \A p \in e : \E q \in i : SamePnl(p, q)
                                      /\ \A q \in i : \E p \in e : SamePnl(p, q)
         /\ ComparePnl(e, i) = ComparePnl(i, e)
<1> DEFINE F == {"realized", "unrealized", "fees"}
<1>1. NotionalTolerance \in Nat
  BY ReportAssumption DEF ToleranceAssumption
<1>2. CASE e = {} \/ i = {}
  BY <1>2 DEF ComparePnl, Finding
<1>3. CASE e # {} /\ i # {}
  <2>1. PICK p \in e, q \in i : TRUE
    BY <1>3
  <2>2. e = {p} /\ i = {q} /\ p \in PnlRecords /\ q \in PnlRecords
    BY <2>1
  <2>3. (CHOOSE x \in e : TRUE) = p /\ (CHOOSE x \in i : TRUE) = q
    BY <2>2
  <2>4. /\ ComparePnl(e, i) = {Finding("pnl", f, "warning") : f \in {f \in F : Apart(p[f], q[f], NotionalTolerance)}}
        /\ ComparePnl(i, e) = {Finding("pnl", f, "warning") : f \in {f \in F : Apart(q[f], p[f], NotionalTolerance)}}
    BY <1>3, <2>3 DEF ComparePnl
  <2>5. \A f \in F : p[f] \in Int /\ q[f] \in Int
    BY <2>2 DEF PnlRecords
  <2>6. \A f \in F : /\ Apart(p[f], q[f], NotionalTolerance) <=> ~Within(p[f], q[f], NotionalTolerance)
                     /\ Apart(p[f], q[f], NotionalTolerance) <=> Apart(q[f], p[f], NotionalTolerance)
    BY <1>1, <2>5, ApartNotWithin
  <2>7. SamePnl(p, q) <=> \A f \in F : Within(p[f], q[f], NotionalTolerance)
    BY DEF SamePnl
  <2> HIDE DEF F
  <2>8. ComparePnl(e, i) = {} <=> SamePnl(p, q)
    BY <2>4, <2>6, <2>7
  <2>9. ComparePnl(e, i) = ComparePnl(i, e)
    BY <2>4, <2>6
  <2> QED BY <2>2, <2>8, <2>9
<1> QED BY <1>2, <1>3

\* For every pair of well-formed snapshots the report is empty exactly when they
\* agree, and does not depend on which is called the exchange's.
LEMMA ReconcileExact ==
  ASSUME NEW e, NEW i, WellFormed(e), WellFormed(i)
  PROVE  /\ Reconcile(e, i) = {} <=> Agree(e, i)
         /\ Reconcile(e, i) = Reconcile(i, e)
<1> DEFINE B(x, y) == CompareBalances(x.balances, y.balances)
           P(x, y) == ComparePositions(x.positions, y.positions)
           O(x, y) == CompareOrders(x.orders, y.orders)
           F(x, y) == CompareFills(x.fills, y.fills)
           L(x, y) == ComparePnl(x.pnl, y.pnl)
<1>1. /\ B(e, i) = {} <=> /\ Paired(e.balances, i.balances, Asset, SameBalance)
                          /\ Paired(i.balances, e.balances, Asset, SameBalance)
      /\ B(e, i) = B(i, e)
  BY BalancesCompared DEF WellFormed, BalanceRecords
<1>2. /\ P(e, i) = {} <=> /\ Paired(e.positions, i.positions, PositionKey, SamePosition)
                          /\ Paired(i.positions, e.positions, PositionKey, SamePosition)
      /\ P(e, i) = P(i, e)
  BY PositionsCompared DEF WellFormed, PositionRecords
<1>3. /\ O(e, i) = {} <=> /\ Paired(e.orders, i.orders, ClientOrderId, SameOrder)
                          /\ Paired(i.orders, e.orders, ClientOrderId, SameOrder)
      /\ O(e, i) = O(i, e)
  BY OrdersCompared DEF WellFormed, OrderRecords
<1>4. /\ F(e, i) = {} <=> {e.fills[k].trade_id : k \in DOMAIN e.fills} = {i.fills[k].trade_id : k \in DOMAIN i.fills}
      /\ F(e, i) = F(i, e)
  BY FillsCompared DEF WellFormed
<1>5. /\ L(e, i) = {} <=> /\ \A p \in e.pnl : \E q \in i.pnl : SamePnl(p, q)
                          /\ \A q \in i.pnl : \E p \in e.pnl : SamePnl(p, q)
      /\ L(e, i) = L(i, e)
  <2>1. /\ \A p, q \in e.pnl : p = q /\ p \in PnlRecords
        /\ \A p, q \in i.pnl : p = q /\ p \in PnlRecords
    BY DEF WellFormed, PnlRecords
  <2> QED BY <2>1, PnlCompared
<1>6. /\ Reconcile(e, i) = B(e, i) \cup P(e, i) \cup O(e, i) \cup F(e, i) \cup L(e, i)
      /\ Reconcile(i, e) = B(i, e) \cup P(i, e) \cup O(i, e) \cup F(i, e) \cup L(i, e)
  BY DEF Reconcile
<1> HIDE DEF B, P, O, F, L
<1>7. Reconcile(e, i) = {} <=> B(e, i) = {} /\ P(e, i) = {} /\ O(e, i) = {} /\ F(e, i) = {} /\ L(e, i) = {}
  BY <1>6
<1>8. Reconcile(e, i) = {} <=> Agree(e, i)
  BY <1>1, <1>2, <1>3, <1>4, <1>5, <1>7, Zenon DEF Agree
<1>9. Reconcile(e, i) = Reconcile(i, e)
  BY <1>1, <1>2, <1>3, <1>4, <1>5, <1>6
<1> QED BY <1>8, <1>9

\* The snapshots of a call are the ones it was given; a report is reconcile's.
ReportInv ==
  /\ WellFormed(theirs) /\ WellFormed(ours)
  /\ compared => mismatches = Reconcile(theirs, ours)

\* ReconciliationEngine.reconcile reports nothing exactly when the two snapshots
\* agree within the tolerances, and the same whichever side is the exchange's, for
\* lists of records of every length, duplicates under one key included, and all
\* tolerances (reconciliation/engine.py).
THEOREM MismatchesExactAlways == ReportSpec => []MismatchesExact
<1>1. ReportInit => ReportInv
  BY ReportAssumption DEF ReportInit, ReportInv
<1>2. ReportInv /\ [ReportNext]_reportVars => ReportInv'
  BY DEF ReportInv, ReportNext, reportVars, WellFormed
<1>3. ReportInv => MismatchesExact
  <2> SUFFICES ASSUME ReportInv PROVE MismatchesExact
    OBVIOUS
  <2>1. /\ Reconcile(theirs, ours) = {} <=> Agree(theirs, ours)
        /\ Reconcile(theirs, ours) = Reconcile(ours, theirs)
    BY ReconcileExact DEF ReportInv
  <2> QED BY <2>1 DEF ReportInv, MismatchesExact, CleanExactlyWhenEqual, Symmetric
<1> QED BY <1>1, <1>2, <1>3, PTL DEF ReportSpec

-----------------------------------------------------------------------------
(* The volume engine.                                                      *)

\* A ratio of two natural numbers, rounded down.
LEMMA Ratio ==
  ASSUME NEW n \in Nat, NEW d \in Nat \ {0}
  PROVE  n \div d \in Nat /\ d * (n \div d) <= n /\ n < d * (n \div d) + d
<1>1. n \div d \in Nat
  OBVIOUS
<1>2. d * (n \div d) <= n
  OBVIOUS
<1>3. n < d * (n \div d) + d
  OBVIOUS
<1> QED BY <1>1, <1>2, <1>3

\* What has passed of a window and what remains of it make up the whole, exactly.
LEMMA PassedAndLeft ==
  ASSUME NEW L \in Nat \ {0}, NEW U \in Nat \ {0}, U % L = 0, NEW c \in 0..L
  PROVE  /\ (U * c) \div L \in 0..U
         /\ (U * (L - c)) \div L \in 0..U
         /\ U - (U * (L - c)) \div L = (U * c) \div L
<1>1. PICK u \in Nat : U = u * L
  <2>1. U = L * (U \div L) + (U % L)
    OBVIOUS
  <2>2. U \div L \in Nat
    BY Ratio
  <2> QED BY <2>1, <2>2
<1>2. ASSUME NEW k \in 0..L PROVE (U * k) \div L = u * k /\ u * k \in 0..U
  <2>1. U * k = L * (u * k)
    BY <1>1
  <2>2. U * k \in Nat /\ u * k \in Nat /\ u * k <= U
    BY <1>1
  <2>3. /\ (U * k) \div L \in Nat /\ L * ((U * k) \div L) <= U * k
        /\ U * k < L * ((U * k) \div L) + L
    BY <2>2, Ratio
  <2> DEFINE q == (U * k) \div L
             v == u * k
  <2>4. q \in Nat /\ v \in Nat /\ L * q <= L * v /\ L * v < L * q + L
    BY <2>1, <2>2, <2>3
  <2> HIDE DEF q, v
  <2>5. q = v
    <3>1. q <= v
      BY <2>4
    <3>2. v < q + 1
      BY <2>4
    <3> QED BY <2>4, <3>1, <3>2
  <2> QED BY <2>2, <2>5 DEF q, v
<1>3. L - c \in 0..L
  OBVIOUS
<1>4. u * c + u * (L - c) = U
  BY <1>1
<1>5. /\ (U * c) \div L = u * c /\ u * c \in 0..U
      /\ (U * (L - c)) \div L = u * (L - c) /\ u * (L - c) \in 0..U
  BY <1>2, <1>3
<1> QED BY <1>4, <1>5

\* A shorter window makes what remains of it a larger part.
LEMMA ShorterLeavesMore ==
  ASSUME NEW L \in Nat \ {0}, NEW T \in Nat \ {0}, T <= L, NEW n \in Nat
  PROVE  n \div L <= n \div T
<1> DEFINE a == n \div L
           b == n \div T
<1>1. a \in Nat /\ b \in Nat /\ L * a <= n /\ n < T * b + T
  BY Ratio
<1> HIDE DEF a, b
<1>2. T * a <= L * a
  BY <1>1
<1>3. T * a < T * b + T
  BY <1>1, <1>2
<1>4. a < b + 1
  BY <1>1, <1>3
<1> QED BY <1>1, <1>4 DEF a, b

LEMMA SmallerOf ==
  ASSUME NEW a \in Int, NEW b \in Int
  PROVE  Min({a, b}) = IF a <= b THEN a ELSE b
BY DEF Min

LEMMA LargerOf ==
  ASSUME NEW a \in Int, NEW b \in Int
  PROVE  Max({a, b}) = IF a >= b THEN a ELSE b
BY DEF Max

LEMMA LargestOfThree ==
  ASSUME NEW a \in Int, NEW b \in Int, NEW c \in Int
  PROVE  /\ Max({a, b, c}) \in {a, b, c}
         /\ Max({a, b, c}) >= a /\ Max({a, b, c}) >= b /\ Max({a, b, c}) >= c
<1>1. \E x \in {a, b, c} : \A y \in {a, b, c} : x >= y
  <2>1. CASE a >= b /\ a >= c
    BY <2>1
  <2>2. CASE b >= a /\ b >= c
    BY <2>2
  <2>3. CASE c >= a /\ c >= b
    BY <2>3
  <2> QED BY <2>1, <2>2, <2>3
<1> QED BY <1>1 DEF Max

\* The trade table is finite, and the last report is the one of this state.
VolumeInv ==
  /\ VolumeTypeOK /\ IsFiniteSet(trades)
  /\ signal # Never => signal = Multiplier

LEMMA VolumeConstants ==
  /\ Hour \in Nat \ {0} /\ Day \in Nat \ {0} /\ Week \in Nat \ {0} /\ Unit \in Nat \ {0} /\ Horizon \in Nat \ {0}
  /\ Hour < Day /\ Day < Week
  /\ \A s \in Settings : /\ \A w \in Windows : s.target[w] \in Nat
                         /\ s.threshold \in 1..Unit /\ s.maxMultiplier \in Unit..(5 * Unit) /\ s.gap \in Nat \ {0}
<1>1. Unit \in Nat \ {0}
  BY VolumeAssumption
<1>2. \A s \in Settings : ValidSettings(s)
  BY VolumeAssumption
<1>3. \A s \in Settings : /\ \A w \in Windows : s.target[w] \in Nat
                          /\ s.threshold \in 1..Unit /\ s.maxMultiplier \in Unit..(5 * Unit) /\ s.gap \in Nat \ {0}
  BY <1>2 DEF ValidSettings, Windows
<1> QED BY <1>3, VolumeAssumption

\* What remains of a window, and the length _target_window_seconds guesses from it.
LEMMA GuessedLength ==
  ASSUME clock \in Nat, NEW w \in Windows
  PROVE  /\ Length[w] \in Nat \ {0} /\ Unit % Length[w] = 0
         /\ Remaining(w) \in 1..Length[w]
         /\ TargetWindow(Remaining(w)) \in {Hour, Day, Week}
         /\ Remaining(w) <= TargetWindow(Remaining(w)) /\ TargetWindow(Remaining(w)) <= Length[w]
         /\ w = "hour" \/ (w = "day" /\ Remaining(w) > Hour) \/ (w = "week" /\ Remaining(w) > Day)
              => TargetWindow(Remaining(w)) = Length[w]
<1>1. Length[w] \in Nat \ {0} /\ Unit % Length[w] = 0
  BY VolumeConstants, VolumeAssumption DEF Length, Windows
<1>2. \A L \in Nat \ {0} : clock % L \in 0..(L - 1)
  OBVIOUS
<1>3. Remaining(w) \in 1..Length[w]
  BY <1>1, <1>2 DEF Remaining
<1> DEFINE r == Remaining(w)
<1> HIDE DEF r
<1>4. r \in Nat /\ r <= Length[w]
  BY <1>1, <1>3 DEF r
<1>5. /\ r <= Hour => TargetWindow(r) = Hour
      /\ r > Hour /\ r <= Day => TargetWindow(r) = Day
      /\ r > Day => TargetWindow(r) = Week
  BY <1>4, VolumeConstants DEF TargetWindow
<1>6. CASE w = "hour"
  BY <1>4, <1>5, <1>6, <1>1, <1>3, VolumeConstants DEF Length, r
<1>7. CASE w = "day"
  BY <1>4, <1>5, <1>7, <1>1, <1>3, VolumeConstants DEF Length, r
<1>8. CASE w = "week"
  BY <1>4, <1>5, <1>8, <1>1, <1>3, VolumeConstants DEF Length, r
<1> QED BY <1>6, <1>7, <1>8 DEF Windows

\* The urgency of a window is what it is behind on its line, as the engine sees the
\* line: never more than it is, and no less while the length is guessed right.
LEMMA UrgencyBehind ==
  ASSUME VolumeTypeOK, IsFiniteSet(trades), NEW w \in Windows
  PROVE  /\ Urgency(w) \in 0..Unit
         /\ Urgency(w) >= settings.threshold => Behind(w, settings.threshold)
         /\ TargetWindow(Remaining(w)) = Length[w] /\ Behind(w, settings.threshold) => Urgency(w) >= settings.threshold
<1> DEFINE L == Length[w]
           c == clock % L
           T == TargetWindow(Remaining(w))
           x == Executed(w)
           g == settings.target[w]
           p == (Unit * x) \div g
           e == (Unit * c) \div L
           f == Unit - (Unit * (L - c)) \div T
           h == settings.threshold
<1>1. /\ L \in Nat \ {0} /\ Unit \in Nat \ {0} /\ Unit % L = 0
      /\ g \in Nat /\ h \in 1..Unit /\ clock \in Nat
  BY VolumeConstants, VolumeAssumption DEF Length, Windows, VolumeTypeOK
<1>2. c \in 0..L /\ c < L
  BY <1>1
<1>3. T \in Nat \ {0} /\ L - c <= T /\ T <= L /\ Unit % T = 0
  <2>1. T \in {Hour, Day, Week} /\ L - c <= T /\ T <= L
    BY <1>1, GuessedLength DEF Remaining
  <2> HIDE DEF T
  <2> QED BY <2>1, VolumeAssumption
<1>4. x \in Nat
  <2>1. IsFiniteSet({t \in trades : t.at >= WindowStart(w)})
    BY FS_Subset
  <2> QED BY <2>1, FS_CardinalityType DEF Executed
<1>5. Behind(w, h) <=> g > 0 /\ e - p >= h
  BY DEF Behind, Executed, WindowStart
<1>6. Urgency(w) = IF g = 0 THEN 0 ELSE Max({0, f - Progress(w)})
  BY DEF Urgency, Remaining
<1>7. Progress(w) = IF g = 0 THEN Unit ELSE Min({Unit, p})
  BY DEF Progress
<1>8. e \in 0..Unit /\ Unit - (Unit * (L - c)) \div L = e
  BY <1>1, <1>2, PassedAndLeft
<1>9. f \in 0..Unit /\ f <= e /\ (T = L => f = e)
  <2> DEFINE n == L - c
             a == (Unit * n) \div L
             b == (Unit * n) \div T
  <2>1. n \in Nat /\ Unit * n \in Nat /\ T - n \in 0..T
    BY <1>1, <1>2, <1>3
  <2>2. a <= b
    BY <1>1, <1>3, <2>1, ShorterLeavesMore
  <2>3. n = T - (T - n)
    BY <1>3, <2>1
  <2>4. b \in 0..Unit
    BY <1>1, <1>3, <2>1, <2>3, PassedAndLeft
  <2>5. a \in 0..Unit
    BY <1>1, <1>2, PassedAndLeft
  <2>6. f = Unit - b /\ e = Unit - a /\ (T = L => a = b)
    BY <1>8
  <2> HIDE DEF a, b, e, f
  <2> QED BY <1>1, <2>2, <2>4, <2>5, <2>6
<1> HIDE DEF e, f, c, x, h
<1>10. CASE g = 0
  <2>1. Urgency(w) = 0
    BY <1>6, <1>10
  <2> QED BY <1>1, <1>5, <1>10, <2>1 DEF h
<1>11. CASE g # 0
  <2>1. Unit * x \in Nat /\ g \in Nat \ {0}
    BY <1>1, <1>4, <1>11
  <2>2. p \in Nat
    BY <2>1, Ratio
  <2> HIDE DEF p
  <2>3. Progress(w) = IF Unit <= p THEN Unit ELSE p
    BY <1>1, <1>7, <1>11, <2>2, SmallerOf
  <2>4. Progress(w) \in Nat /\ f - Progress(w) \in Int
    BY <1>1, <1>9, <2>2, <2>3
  <2>5. Urgency(w) = IF 0 >= f - Progress(w) THEN 0 ELSE f - Progress(w)
    BY <1>6, <1>11, <2>4, LargerOf
  <2> HIDE DEF T, L, g
  <2>6. Urgency(w) \in 0..Unit
    BY <1>1, <1>9, <2>4, <2>5
  <2>7. Urgency(w) >= h => g > 0 /\ e - p >= h
    BY <1>1, <1>8, <1>9, <1>11, <2>2, <2>3, <2>5
  <2>8. T = L /\ g > 0 /\ e - p >= h => Urgency(w) >= h
    BY <1>1, <1>8, <1>9, <1>11, <2>2, <2>3, <2>5
  <2> QED BY <1>5, <2>6, <2>7, <2>8 DEF T, L, h
<1> QED BY <1>10, <1>11

\* What pressure_signal makes of the three urgencies.
LEMMA MultiplierOf ==
  ASSUME VolumeTypeOK, IsFiniteSet(trades)
  PROVE  /\ Multiplier \in Unit..settings.maxMultiplier
         /\ Multiplier # Unit => \E w \in Windows : Urgency(w) >= settings.threshold
         /\ Multiplier # Unit => Allowed
         /\ Allowed /\ (\E w \in Windows : Urgency(w) >= settings.threshold)
              => Multiplier > Unit \/ settings.maxMultiplier = Unit
<1> DEFINE u == Max({Urgency(w) : w \in Windows})
           h == settings.threshold
           top == settings.maxMultiplier
<1>1. \A w \in Windows : Urgency(w) \in 0..Unit
  BY UrgencyBehind
<1>2. Unit \in Nat \ {0} /\ h \in 1..Unit /\ top \in Unit..(5 * Unit)
  BY VolumeConstants DEF VolumeTypeOK
<1>3. Urgency("hour") \in Int /\ Urgency("day") \in Int /\ Urgency("week") \in Int
  BY <1>1, <1>2 DEF Windows
<1>4. {Urgency(w) : w \in Windows} = {Urgency("hour"), Urgency("day"), Urgency("week")}
  BY DEF Windows
<1>5. (\E w \in Windows : u = Urgency(w)) /\ (\A w \in Windows : u >= Urgency(w))
  BY <1>3, <1>4, LargestOfThree DEF Windows
<1>6. Multiplier = IF ~Allowed \/ u < h THEN Unit ELSE Min({top, Unit + u})
  BY DEF Multiplier
<1> HIDE DEF u, h, top
<1>7. u \in 0..Unit
  BY <1>1, <1>5
<1>8. Min({top, Unit + u}) = IF top <= Unit + u THEN top ELSE Unit + u
  BY <1>2, <1>7, SmallerOf
<1>9. Multiplier \in Unit..top
  BY <1>2, <1>6, <1>7, <1>8
<1>10. ASSUME Multiplier # Unit PROVE Allowed /\ \E w \in Windows : Urgency(w) >= h
  <2>1. Allowed /\ ~(u < h)
    BY <1>6, <1>10
  <2> QED BY <1>2, <1>5, <1>7, <2>1
<1>11. ASSUME Allowed, \E w \in Windows : Urgency(w) >= h PROVE Multiplier > Unit \/ top = Unit
  <2>1. u >= h
    BY <1>1, <1>2, <1>5, <1>7, <1>11
  <2> QED BY <1>2, <1>6, <1>7, <1>8, <1>11, <2>1
<1> QED BY <1>9, <1>10, <1>11 DEF h, top

\* A step leaves the report of an earlier state behind, or makes the one of this.
LEMMA VolumeKeeps == VolumeInv /\ [VolumeNext]_volumeVars => VolumeInv'
<1> SUFFICES ASSUME VolumeInv, [VolumeNext]_volumeVars PROVE VolumeInv'
  OBVIOUS
<1> USE DEF VolumeInv
<1>0. /\ Unit \in Nat \ {0} /\ Horizon \in Nat /\ clock \in 0..Horizon /\ MaxTrades \in Nat
      /\ last \in Never..clock /\ Never = -1
  BY VolumeConstants, VolumeAssumption DEF VolumeTypeOK, Never
<1>1. CASE Refresh
  <2>1. Multiplier' = Multiplier
    BY <1>1 DEF Refresh, Multiplier, Urgency, Progress, Executed, WindowStart, Remaining, Allowed, LimitReached
  <2>2. Multiplier \in Unit..settings.maxMultiplier
    BY MultiplierOf
  <2>3. IsFiniteSet(trades)' /\ (signal # Never => signal = Multiplier)'
    BY <1>1, <2>1 DEF Refresh
  <2>4. (clock \in 0..Horizon /\ trades \subseteq [id : 1..MaxTrades, at : 0..clock])'
    BY <1>1 DEF Refresh, VolumeTypeOK
  <2>5. (external \in Externals /\ settings \in Settings /\ (signal = Never \/ signal \in Unit..settings.maxMultiplier))'
    BY <1>1, <2>2 DEF Refresh, VolumeTypeOK
  <2>6. (last \in Never..clock)'
    BY <1>0, <1>1 DEF Refresh
  <2>7. (pressed => last = clock /\ signal > Unit)'
    <3>1. settings.maxMultiplier \in Int
      BY <1>0, VolumeConstants DEF VolumeTypeOK
    <3>2. Multiplier # Unit => Multiplier > Unit
      BY <1>0, <2>2, <3>1
    <3> QED BY <1>1, <3>2 DEF Refresh
  <2> QED BY <2>3, <2>4, <2>5, <2>6, <2>7 DEF VolumeTypeOK
<1>2. CASE Trade
  <2>1. Cardinality(trades) \in Nat
    BY FS_CardinalityType
  <2>2. IsFiniteSet(trades')
    BY <1>2, FS_AddElement DEF Trade
  <2>3. [id |-> Cardinality(trades) + 1, at |-> clock] \in [id : 1..MaxTrades, at : 0..clock]
    BY <1>0, <1>2, <2>1 DEF Trade
  <2> QED BY <1>2, <2>2, <2>3 DEF Trade, VolumeTypeOK
<1>3. CASE Tick
  <2>1. clock' \in 0..Horizon /\ 0..clock \subseteq 0..clock' /\ last' \in Never..clock'
    BY <1>0, <1>3 DEF Tick
  <2>2. trades' \subseteq [id : 1..MaxTrades, at : 0..clock']
    BY <1>3, <2>1 DEF Tick, VolumeTypeOK
  <2> QED BY <1>3, <2>1, <2>2 DEF Tick, VolumeTypeOK
<1>4. CASE UpdateSettings
  BY <1>4 DEF UpdateSettings, VolumeTypeOK
<1>5. CASE Restart
  BY <1>0, <1>5 DEF Restart, VolumeTypeOK
<1>6. CASE UNCHANGED volumeVars
  <2>1. Multiplier' = Multiplier
    BY <1>6 DEF volumeVars, Multiplier, Urgency, Progress, Executed, WindowStart, Remaining, Allowed, LimitReached
  <2> QED BY <1>6, <2>1 DEF volumeVars, VolumeTypeOK
<1> QED BY <1>1, <1>2, <1>3, <1>4, <1>5, <1>6 DEF VolumeNext

LEMMA VolumeStart == VolumeInit => VolumeInv
<1> SUFFICES ASSUME VolumeInit PROVE VolumeInv
  OBVIOUS
<1>1. IsFiniteSet(trades)
  BY FS_EmptySet DEF VolumeInit
<1> QED BY <1>1, VolumeConstants DEF VolumeInit, VolumeInv, VolumeTypeOK, Never

\* Type correctness of VolumePressure.
THEOREM VolumeTypeCorrect == VolumeSpec => []VolumeTypeOK
<1>1. VolumeInv => VolumeTypeOK
  BY DEF VolumeInv
<1> QED BY <1>1, VolumeStart, VolumeKeeps, PTL DEF VolumeSpec

\* VolumeEngine.pressure_signal, for any lengths of the windows and any settings: a
\* ladder is enlarged only while some target is missed by the threshold on its
\* line, however _target_window_seconds guesses the window, and outside the last
\* hour of a day and the last day of a week every report says so.
THEOREM PushedWhenBehindTheorem == VolumeSpec => []PushedWhenBehind
<1>1. ASSUME VolumeInv PROVE PushedOnlyBehind
  <2> SUFFICES ASSUME pressed PROVE \E w \in Windows : Behind(w, settings.threshold)
    BY DEF PushedOnlyBehind
  <2>1. signal > Unit /\ Unit \in Nat /\ (signal = Never \/ signal = Multiplier)
    BY <1>1, VolumeConstants DEF VolumeInv, VolumeTypeOK
  <2>2. Multiplier # Unit
    BY <2>1 DEF Never
  <2> QED BY <1>1, <2>2, MultiplierOf, UrgencyBehind DEF VolumeInv
<1>2. ASSUME VolumeInv PROVE BehindPushes
  <2> SUFFICES ASSUME signal # Never, Allowed, ~(signal > Unit), settings.maxMultiplier # Unit
               PROVE  /\ ~Behind("hour", settings.threshold)
                      /\ clock % Day < Day - Hour => ~Behind("day", settings.threshold)
                      /\ clock % Week < Week - Day => ~Behind("week", settings.threshold)
    BY DEF BehindPushes
  <2>1. \A w \in Windows : ~(Urgency(w) >= settings.threshold)
    BY <1>2, MultiplierOf DEF VolumeInv
  <2>2. \A w \in Windows : TargetWindow(Remaining(w)) = Length[w] => ~Behind(w, settings.threshold)
    BY <1>2, <2>1, UrgencyBehind DEF VolumeInv
  <2>3. clock \in Nat
    BY <1>2, VolumeConstants DEF VolumeInv, VolumeTypeOK
  <2>4. /\ TargetWindow(Remaining("hour")) = Length["hour"]
        /\ Remaining("day") > Hour => TargetWindow(Remaining("day")) = Length["day"]
        /\ Remaining("week") > Day => TargetWindow(Remaining("week")) = Length["week"]
    BY <2>3, GuessedLength DEF Windows
  <2>5. clock % Day < Day - Hour => Remaining("day") > Hour
    BY <2>3, VolumeConstants DEF Remaining, Length
  <2>6. clock % Week < Week - Day => Remaining("week") > Day
    BY <2>3, VolumeConstants DEF Remaining, Length
  <2> QED BY <2>2, <2>4, <2>5, <2>6 DEF Windows
<1>3. VolumeInv => PushedWhenBehind
  BY <1>1, <1>2 DEF PushedWhenBehind
<1> QED BY <1>3, VolumeStart, VolumeKeeps, PTL DEF VolumeSpec

-----------------------------------------------------------------------------
(* Surveillance.                                                           *)

\* What _trim_times takes away of a sorted deque is what is older than the cutoff.
LEMMA StaleFront ==
  ASSUME NEW n \in Nat, NEW at, \A i \in 1..n : at[i] \in Int, NEW cutoff \in Int,
         \A i, j \in 1..n : i <= j => at[i] <= at[j],
         NEW gone \in SUBSET (1..n), \A i \in 1..n : i \in gone <=> \A j \in 1..i : at[j] < cutoff
  PROVE  /\ Cardinality(gone) \in 0..n
         /\ \A i \in 1..n : at[i] < cutoff <=> i <= Cardinality(gone)
<1>1. gone = {i \in 1..n : at[i] < cutoff}
  <2>1. \A i \in 1..n : (\A j \in 1..i : at[j] < cutoff) <=> at[i] < cutoff
    OBVIOUS
  <2> QED BY <2>1
<1>2. \E k \in 0..n : gone = 1..k
  <2>1. CASE gone = {}
    <3>1. 0 \in 0..n /\ 1..0 = {}
      OBVIOUS
    <3> QED BY <2>1, <3>1
  <2>2. CASE gone # {}
    <3> DEFINE key == [i \in 1..n |-> IF at[i] < cutoff THEN 1 ELSE 0]
    <3>1. PICK i \in 1..n : at[i] < cutoff
      BY <1>1, <2>2
    <3>3. \A m \in 1..n : key[m] = 1 <=> at[m] < cutoff
      OBVIOUS
    <3> HIDE DEF key
    <3>2. \E j \in 1..n : key[j] = key[i] /\ \A m \in (j + 1)..n : key[m] # key[i]
      BY LastUnderKey
    <3>4. PICK j \in 1..n : at[j] < cutoff /\ \A m \in (j + 1)..n : ~(at[m] < cutoff)
      BY <3>1, <3>2, <3>3
    <3>5. \A m \in 1..n : at[m] < cutoff <=> m <= j
      BY <3>4
    <3> QED BY <1>1, <3>5
  <2> QED BY <2>1, <2>2
<1>3. PICK k \in 0..n : gone = 1..k
  BY <1>2
<1>4. Cardinality(gone) = k
  <2>1. 1 \in Int /\ k \in Int /\ (1 > k <=> k = 0) /\ k - 1 + 1 = k
    OBVIOUS
  <2>2. Cardinality(1..k) = IF 1 > k THEN 0 ELSE k - 1 + 1
    BY <2>1, FS_Interval
  <2> QED BY <1>3, <2>1, <2>2
<1>5. \A i \in 1..n : i \in 1..k <=> i <= k
  OBVIOUS
<1>6. \A i \in 1..n : i \in gone <=> at[i] < cutoff
  BY <1>1
<1> QED BY <1>3, <1>4, <1>5, <1>6

\* SubSeq from place k + 1 on drops the first k items.
LEMMA FrontGone ==
  ASSUME NEW T, NEW d \in Seq(T), NEW k \in 0..Len(d)
  PROVE  /\ SubSeq(d, k + 1, Len(d)) \in Seq(T)
         /\ Len(SubSeq(d, k + 1, Len(d))) = Len(d) - k
         /\ \A i \in 1..(Len(d) - k) : SubSeq(d, k + 1, Len(d))[i] = d[i + k]
<1>1. \A i \in (k + 1)..Len(d) : d[i] \in T
  OBVIOUS
<1>2. k + 1 \in Int /\ Len(d) \in Int /\ Len(d) - (k + 1) + 1 = Len(d) - k /\ k <= Len(d)
  OBVIOUS
<1>3. /\ SubSeq(d, k + 1, Len(d)) \in Seq(T)
      /\ Len(SubSeq(d, k + 1, Len(d))) = IF k + 1 <= Len(d) THEN Len(d) - (k + 1) + 1 ELSE 0
      /\ \A i \in 1..(Len(d) - (k + 1) + 1) : SubSeq(d, k + 1, Len(d))[i] = d[(k + 1) + i - 1]
  BY <1>1, <1>2, SubSeqProperties
<1>4. \A i \in 1..(Len(d) - k) : (k + 1) + i - 1 = i + k
  OBVIOUS
<1> DEFINE s == SubSeq(d, k + 1, Len(d))
<1> HIDE DEF s
<1>5. Len(s) = Len(d) - k
  <2>1. Len(s) = IF k + 1 <= Len(d) THEN Len(d) - (k + 1) + 1 ELSE 0
    BY <1>3 DEF s
  <2>2. k + 1 <= Len(d) \/ k = Len(d)
    OBVIOUS
  <2> DEFINE m == Len(d)
             l == Len(s)
  <2>3. m \in Nat /\ k \in Nat
    OBVIOUS
  <2> HIDE DEF m, l
  <2>4. l = m - k
    BY <2>1, <2>2, <2>3 DEF m, l
  <2> QED BY <2>4 DEF m, l
<1>6. \A i \in 1..(Len(d) - k) : s[i] = d[i + k]
  BY <1>2, <1>3, <1>4 DEF s
<1> QED BY <1>3, <1>5, <1>6 DEF s

\* The items of a deque are those of different events of a history.
Mirror(f, d, H) ==
  /\ f \in [1..Len(d) -> H]
  /\ \A i, j \in 1..Len(d) : f[i] = f[j] => i = j
  /\ \A i \in 1..Len(d) : f[i][2] = d[i]

\* An event is recorded at the end of the deque and k items leave its front.
Shifted(d, item, k, r) ==
  /\ k \in 0..Len(d) /\ Len(r) = Len(d) + 1 - k
  /\ \A x \in 1..Len(r) : (x + k = Len(d) + 1 => r[x] = item) /\ (x + k # Len(d) + 1 => r[x] = d[x + k])

\* SubSeq after Append, in these terms.
LEMMA Trimmed ==
  ASSUME NEW T, NEW d \in Seq(T), NEW item \in T, NEW k \in 0..Len(d)
  PROVE  LET r == SubSeq(Append(d, item), k + 1, Len(Append(d, item)))
         IN  r \in Seq(T) /\ Shifted(d, item, k, r)
<1> DEFINE n == Len(d) + 1
           v == Append(d, item)
           r == SubSeq(v, k + 1, Len(v))
<1>1. Len(d) \in Nat /\ n \in Nat /\ v \in Seq(T) /\ Len(v) = n /\ \A i \in 1..n : v[i] = IF i = n THEN item ELSE d[i]
  OBVIOUS
<1>2. r \in Seq(T) /\ Len(r) = n - k /\ \A i \in 1..(n - k) : r[i] = v[i + k]
  <2> HIDE DEF v
  <2>1. k \in 0..Len(v)
    BY <1>1
  <2> QED BY <1>1, <2>1, FrontGone
<1>3. \A x \in 1..(n - k) : x + k \in 1..n
  BY <1>1
<1>4. \A x \in 1..Len(r) : r[x] = IF x + k = n THEN item ELSE d[x + k]
  BY <1>1, <1>2, <1>3
<1>5. /\ Len(r) = Len(d) + 1 - k
      /\ \A x \in 1..Len(r) : (x + k = Len(d) + 1 => r[x] = item) /\ (x + k # Len(d) + 1 => r[x] = d[x + k])
  BY <1>2, <1>4
<1> HIDE DEF r
<1>6. r \in Seq(T) /\ Shifted(d, item, k, r)
  BY <1>2, <1>5 DEF Shifted
<1> QED BY <1>6 DEF r

\* The events of what is left.
Moved(g, f, d, e, k, r) ==
  /\ \A i \in 1..Len(d) : i > k => \E x \in 1..Len(r) : g[x] = f[i]
  /\ \E x \in 1..Len(r) : g[x] = e
  /\ \A x \in 1..Len(r) : (x + k = Len(d) + 1 => g[x] = e) /\ (x + k # Len(d) + 1 => g[x] = f[x + k])

\* They are different events of the longer history.
LEMMA MirrorStep ==
  ASSUME NEW d, Len(d) \in Nat, NEW H, NEW f, Mirror(f, d, H), NEW e, e \notin H, NEW k, NEW r, Shifted(d, e[2], k, r)
  PROVE  \E g : Mirror(g, r, H \cup {e}) /\ Moved(g, f, d, e, k, r)
<1>0. /\ k \in 0..Len(d) /\ Len(r) = Len(d) + 1 - k
      /\ \A x \in 1..Len(r) : (x + k = Len(d) + 1 => r[x] = e[2]) /\ (x + k # Len(d) + 1 => r[x] = d[x + k])
  BY DEF Shifted
<1> DEFINE n == Len(d) + 1
           g == [x \in 1..(n - k) |-> IF x + k = n THEN e ELSE f[x + k]]
<1>1. n \in Nat /\ Len(r) = n - k
  BY <1>0
<1>3. \A x \in 1..(n - k) : x + k \in 1..n /\ (x + k # n => x + k \in 1..Len(d))
  <2>1. PICK m \in Nat : m = Len(d)
    OBVIOUS
  <2>2. k \in 0..m
    BY <1>0, <2>1
  <2>3. \A x \in 1..(m + 1 - k) : x + k \in 1..(m + 1) /\ (x + k # m + 1 => x + k \in 1..m)
    BY <2>2
  <2> QED BY <2>1, <2>2, <2>3, SMT
<1>5. Mirror(g, r, H \cup {e})
  <2>1. g \in [1..Len(r) -> H \cup {e}]
    BY <1>0, <1>1, <1>3 DEF Mirror
  <2>2. ASSUME NEW i \in 1..Len(r), NEW j \in 1..Len(r), g[i] = g[j] PROVE i = j
    <3>1. i \in 1..(n - k) /\ j \in 1..(n - k)
      BY <1>0, <1>1
    <3>2. CASE i + k = n /\ j + k = n
      BY <1>0, <1>1, <3>1, <3>2
    <3>3. CASE i + k # n /\ j + k # n
      <4>1. f[i + k] = f[j + k] /\ i + k \in 1..Len(d) /\ j + k \in 1..Len(d)
        BY <1>3, <2>2, <3>1, <3>3
      <4>2. i + k = j + k
        BY <4>1 DEF Mirror
      <4> QED BY <1>0, <3>1, <4>2
    <3>4. CASE i + k = n /\ j + k # n
      BY <1>3, <2>2, <3>1, <3>4 DEF Mirror
    <3>5. CASE i + k # n /\ j + k = n
      <4>1. g[i] = f[i + k] /\ g[j] = e /\ i + k \in 1..Len(d)
        BY <1>3, <3>1, <3>5
      <4> QED BY <2>2, <4>1 DEF Mirror
    <3> QED BY <3>2, <3>3, <3>4, <3>5
  <2>3. ASSUME NEW i \in 1..Len(r) PROVE g[i][2] = r[i]
    <3>1. i \in 1..(n - k)
      BY <1>0, <1>1
    <3> QED BY <1>0, <1>3, <3>1 DEF Mirror
  <2> HIDE DEF g
  <2> QED BY <2>1, <2>2, <2>3 DEF Mirror
<1>6. ASSUME NEW i \in 1..Len(d), i > k PROVE \E x \in 1..Len(r) : g[x] = f[i]
  <2>1. i - k \in 1..(n - k) /\ (i - k) + k = i /\ i # n
    BY <1>0, <1>1, <1>6
  <2> QED BY <1>0, <1>1, <2>1
<1>7. \E x \in 1..Len(r) : g[x] = e
  <2>1. n - k \in 1..(n - k) /\ (n - k) + k = n
    BY <1>0, <1>1
  <2> QED BY <1>0, <1>1, <2>1
<1>8. \A x \in 1..Len(r) : (x + k = Len(d) + 1 => g[x] = e) /\ (x + k # Len(d) + 1 => g[x] = f[x + k])
  BY <1>0, <1>1
<1> HIDE DEF g, n
<1> QED BY <1>5, <1>6, <1>7, <1>8 DEF Moved

\* Places of a deque and the events they stand for are equally many.
LEMMA MirrorCounts ==
  ASSUME NEW d, NEW H, NEW g, Mirror(g, d, H), NEW I \in SUBSET (1..Len(d)), IsFiniteSet(I), NEW K,
         \A x \in I : g[x] \in K, \A e \in K : \E x \in I : g[x] = e
  PROVE  Cardinality(K) = Cardinality(I)
<1> DEFINE h == [x \in I |-> g[x]]
<1>1. h \in Bijection(I, K)
  BY DEF Bijection, Injection, Surjection, IsInjective, Mirror
<1>2. ExistsBijection(I, K)
  BY <1>1 DEF ExistsBijection
<1> QED BY <1>2, FS_Bijection

\* The items of a deque are events of a history, in order, none later than t, and
\* the others have left the window.
Tracks(f, d, H, when, cutoff, t) ==
  /\ Mirror(f, d, H)
  /\ \A i \in 1..Len(d) : when[f[i]] <= t
  /\ \A i, j \in 1..Len(d) : i <= j => when[f[i]] <= when[f[j]]
  /\ \A x \in H : when[x] < cutoff \/ \E i \in 1..Len(d) : f[i] = x

TracksWindow(f, d, H, when, cutoff, t) ==
  Tracks(f, d, H, when, cutoff, t) /\ \A i \in 1..Len(d) : when[f[i]] >= cutoff

Trims(d, item, gone, r) == Cardinality(gone) \in 0..Len(d) => Shifted(d, item, Cardinality(gone), r)

\* The times of the items once an event of time t is recorded, and which are stale.
ItemTimes(at, f, d, when, t) == at[Len(d) + 1] = t /\ \A i \in 1..Len(d) : at[i] = when[f[i]]

Happens(e, item, H, when, t) == e[2] = item /\ when[e] = t /\ \A x \in H : when[x] \in Int

StalePlaces(gone, at, n, cutoff) ==
  /\ gone \subseteq 1..n
  /\ \A i \in 1..n : i \in gone <=> \A j \in 1..i : at[j] < cutoff

\* An event of time t is recorded and what is older than the cutoff leaves: the
\* deque holds, in order, the events of the window and no others.
LEMMA WindowStep ==
  ASSUME NEW d, Len(d) \in Nat, NEW H, NEW e, e \notin H, NEW item, NEW t \in Int, NEW cutoff \in Int, cutoff <= t,
         NEW when, Happens(e, item, H, when, t), NEW f, Tracks(f, d, H, when, cutoff, t),
         NEW at, ItemTimes(at, f, d, when, t), NEW gone, StalePlaces(gone, at, Len(d) + 1, cutoff),
         NEW r, Trims(d, item, gone, r)
  PROVE  Cardinality(gone) \in 0..Len(d) /\ \E g : TracksWindow(g, r, H \cup {e}, when, cutoff, t)
<1>0. /\ \A x \in H \cup {e} : when[x] \in Int
      /\ Mirror(f, d, H)
      /\ \A x \in H : when[x] < cutoff \/ \E i \in 1..Len(d) : f[i] = x
      /\ \A i \in 1..Len(d) : at[i] = when[f[i]] /\ at[i] <= t
      /\ at[Len(d) + 1] = t
      /\ \A i, j \in 1..Len(d) : i <= j => at[i] <= at[j]
      /\ e[2] = item /\ when[e] = t
  BY DEF Tracks, ItemTimes, Happens
<1> PICK k : k = Cardinality(gone)
  OBVIOUS
<1>1. PICK m \in Nat : m = Len(d)
  OBVIOUS
<1>2. PICK n \in Nat : n = m + 1
  OBVIOUS
<1>3. \A i \in 1..n : i = n \/ i \in 1..m
  BY <1>2
<1>4. \A i \in 1..n : at[i] \in Int
  BY <1>0, <1>1, <1>2, <1>3 DEF Mirror
<1>5. \A i, j \in 1..n : i <= j => at[i] <= at[j]
  <2> TAKE i, j \in 1..n
  <2>1. CASE j = n
    BY <1>0, <1>1, <1>2, <1>3, <1>4, <2>1
  <2>2. CASE j # n
    BY <1>0, <1>1, <1>2, <1>3, <2>2
  <2> QED BY <2>1, <2>2
<1>6. gone \in SUBSET (1..n) /\ \A i \in 1..n : i \in gone <=> \A j \in 1..i : at[j] < cutoff
  BY <1>0, <1>1, <1>2 DEF StalePlaces
<1>7. Cardinality(gone) \in 0..n /\ \A i \in 1..n : at[i] < cutoff <=> i <= Cardinality(gone)
  BY <1>4, <1>5, <1>6, StaleFront
<1>8. k \in 0..n /\ \A i \in 1..n : at[i] < cutoff <=> i <= k
  BY <1>7
<1>9. k \in 0..m
  <2>1. n \in 1..n /\ ~(at[n] < cutoff)
    BY <1>0, <1>1, <1>2
  <2> QED BY <1>2, <1>8, <2>1
<1>10. k \in 0..Len(d) /\ Shifted(d, e[2], k, r)
  BY <1>0, <1>1, <1>9 DEF Trims
<1>11. PICK g : Mirror(g, r, H \cup {e}) /\ Moved(g, f, d, e, k, r)
  BY <1>0, <1>10, MirrorStep
<1>12. /\ \A i \in 1..Len(d) : i > k => \E x \in 1..Len(r) : g[x] = f[i]
       /\ \E x \in 1..Len(r) : g[x] = e
       /\ \A x \in 1..Len(r) : (x + k = Len(d) + 1 => g[x] = e) /\ (x + k # Len(d) + 1 => g[x] = f[x + k])
       /\ Len(r) = Len(d) + 1 - k
  BY <1>10, <1>11 DEF Moved, Shifted
<1>13. PICK l \in Nat : l = Len(r) /\ l = n - k
  <2>1. n - k \in Nat
    BY <1>2, <1>9
  <2>2. Len(r) = n - k
    <3>1. Len(r) = Len(d) + 1 - k
      BY <1>12
    <3>2. m + 1 - k = n - k
      BY <1>2, <1>9
    <3> QED BY <1>1, <3>1, <3>2
  <2> QED BY <2>1, <2>2
<1>14. \A x \in 1..l : x + k \in 1..n /\ when[g[x]] = at[x + k]
  <2> TAKE x \in 1..l
  <2>1. x + k \in 1..n
    BY <1>9, <1>13
  <2>2. CASE x + k = n
    BY <1>0, <1>1, <1>2, <1>12, <1>13, <2>2
  <2>3. CASE x + k # n
    <3>1. x + k \in 1..m
      BY <1>3, <2>1, <2>3
    <3>2. g[x] = f[x + k]
      BY <1>0, <1>1, <1>2, <1>12, <1>13, <2>3
    <3> QED BY <1>0, <1>1, <2>1, <3>1, <3>2
  <2> QED BY <2>1, <2>2, <2>3
<1>15. \A x \in 1..l : when[g[x]] >= cutoff /\ when[g[x]] <= t
  <2> TAKE x \in 1..l
  <2>1. x + k \in 1..n /\ ~(x + k <= k) /\ n \in 1..n /\ x + k <= n
    BY <1>9, <1>13, <1>14
  <2>2. at[x + k] \in Int /\ ~(at[x + k] < cutoff) /\ at[x + k] <= at[n] /\ at[n] = t
    BY <1>0, <1>1, <1>2, <1>4, <1>5, <1>8, <2>1
  <2> QED BY <1>14, <2>2
<1>16. \A x, y \in 1..l : x <= y => when[g[x]] <= when[g[y]]
  <2> TAKE x, y \in 1..l
  <2>1. x <= y => x + k <= y + k
    BY <1>9
  <2> QED BY <1>5, <1>14, <2>1
<1>17. ASSUME NEW x \in H \cup {e}, ~(when[x] < cutoff) PROVE \E y \in 1..Len(r) : g[y] = x
  <2>1. CASE x = e
    BY <1>12, <2>1
  <2>2. CASE x \in H
    <3>1. PICK i \in 1..m : f[i] = x
      BY <1>0, <1>1, <1>17, <2>2
    <3>2. i \in 1..n /\ ~(at[i] < cutoff)
      BY <1>0, <1>1, <1>2, <1>17, <3>1
    <3>3. i > k
      BY <1>8, <1>9, <3>2
    <3> QED BY <1>0, <1>1, <1>12, <3>1, <3>3
  <2> QED BY <2>1, <2>2
<1>18. /\ \A x \in 1..Len(r) : when[g[x]] >= cutoff /\ when[g[x]] <= t
       /\ \A x, y \in 1..Len(r) : x <= y => when[g[x]] <= when[g[y]]
  BY <1>13, <1>15, <1>16
<1>19. Tracks(g, r, H \cup {e}, when, cutoff, t)
  BY <1>11, <1>17, <1>18 DEF Tracks
<1> QED BY <1>10, <1>18, <1>19 DEF TracksWindow

\* The places of a deque.
LEMMA Places ==
  ASSUME NEW l \in Nat
  PROVE  IsFiniteSet(1..l) /\ Cardinality(1..l) = l
<1>1. 1 \in Int /\ l \in Int /\ (1 > l => l = 0) /\ l - 1 + 1 = l
  OBVIOUS
<1>2. IsFiniteSet(1..l) /\ Cardinality(1..l) = IF 1 > l THEN 0 ELSE l - 1 + 1
  BY <1>1, FS_Interval
<1> QED BY <1>1, <1>2

\* A deque of times mirrors the events of an account, but for some that have left
\* the window for good.
TimesKept(d, H, window, t) ==
  \E f : /\ Mirror(f, d, H)
         /\ \A i \in 1..Len(d) : f[i][2] <= t
         /\ \A i, j \in 1..Len(d) : i <= j => f[i][2] <= f[j][2]
         /\ \A e \in H : e[2] < t - window \/ \E x \in 1..Len(d) : f[x] = e

\* The same for a deque of fills.
FillsKept(d, H, window, t) ==
  \E f : /\ Mirror(f, d, H)
         /\ \A i \in 1..Len(d) : f[i][2].at <= t
         /\ \A i, j \in 1..Len(d) : i <= j => f[i][2].at <= f[j][2].at
         /\ \A e \in H : e[2].at < t - window \/ \E x \in 1..Len(d) : f[x] = e

\* An event of time t that is not in the history.
TimedAt(H, e, t) == e \notin H /\ e[2] = t /\ \A x \in H : x[2] \in Int

\* A deque that mirrors the history and holds exactly its events in the window.
TimesHeld(r, H, window, t) ==
  /\ r \in Seq(0..MaxNow) /\ TimesKept(r, H, window, t)
  /\ Cardinality({x \in H : x[2] >= t - window}) = Len(r)

\* An event happens now: the deque holds exactly the events of the window.
LEMMA TimesStep ==
  ASSUME MaxNow \in Nat, NEW d \in Seq(0..MaxNow), NEW H, NEW window \in Nat, NEW t \in 0..MaxNow,
         TimesKept(d, H, window, t), NEW e, TimedAt(H, e, t)
  PROVE  TimesHeld(_trim_times(Append(d, t), t - window), H \cup {e}, window, t)
<1>0. e \notin H /\ e[2] = t /\ \A x \in H : x[2] \in Int
  BY DEF TimedAt
<1>1. PICK f : /\ Mirror(f, d, H)
               /\ \A i \in 1..Len(d) : f[i][2] <= t
               /\ \A i, j \in 1..Len(d) : i <= j => f[i][2] <= f[j][2]
               /\ \A x \in H : x[2] < t - window \/ \E i \in 1..Len(d) : f[i] = x
  BY DEF TimesKept
<1>2. PICK cutoff \in Int : cutoff = t - window /\ cutoff <= t /\ t \in Int
  OBVIOUS
<1>3. PICK when : when = [x \in H \cup {e} |-> x[2]]
  OBVIOUS
<1>4. PICK at : at = Append(d, t)
  OBVIOUS
<1>5. PICK gone : gone = {i \in 1..Len(at) : \A j \in 1..i : at[j] < cutoff}
  OBVIOUS
<1>6. PICK k : k = Cardinality(gone)
  OBVIOUS
<1>7. PICK r : r = SubSeq(at, k + 1, Len(at))
  OBVIOUS
<1>8. _trim_times(Append(d, t), t - window) = r
  BY <1>2, <1>4, <1>5, <1>6, <1>7 DEF _trim_times
<1>9. /\ Len(d) \in Nat /\ Len(at) = Len(d) + 1 /\ at[Len(d) + 1] = t
      /\ \A i \in 1..Len(d) : at[i] = d[i]
  BY <1>4
<1>10. \A x \in H \cup {e} : when[x] \in Int /\ when[x] = x[2]
  BY <1>0, <1>2, <1>3
<1>11. when[e] = t
  BY <1>0, <1>10
<1>13. \A i \in 1..Len(d) : f[i] \in H /\ f[i][2] = d[i] /\ when[f[i]] = f[i][2]
  BY <1>1, <1>10 DEF Mirror
<1>12. Tracks(f, d, H, when, cutoff, t)
  BY <1>1, <1>2, <1>10, <1>13 DEF Tracks
<1>14. ItemTimes(at, f, d, when, t)
  BY <1>9, <1>13 DEF ItemTimes
<1>15. StalePlaces(gone, at, Len(d) + 1, cutoff)
  BY <1>5, <1>9 DEF StalePlaces
<1>16. k \in 0..Len(d) => r \in Seq(0..MaxNow) /\ Shifted(d, t, k, r)
  <2> SUFFICES ASSUME k \in 0..Len(d) PROVE r \in Seq(0..MaxNow) /\ Shifted(d, t, k, r)
    OBVIOUS
  <2> DEFINE T == 0..MaxNow
  <2>1. d \in Seq(T) /\ t \in T
    OBVIOUS
  <2> HIDE DEF T
  <2>2. SubSeq(Append(d, t), k + 1, Len(Append(d, t))) \in Seq(T) /\ Shifted(d, t, k, SubSeq(Append(d, t), k + 1, Len(Append(d, t))))
    BY <2>1, Trimmed
  <2> QED BY <1>4, <1>7, <2>2 DEF T
<1>17. Cardinality(gone) \in 0..Len(d) /\ \E g : TracksWindow(g, r, H \cup {e}, when, cutoff, t)
  <2>1. Trims(d, t, gone, r)
    BY <1>6, <1>16 DEF Trims
  <2>2. cutoff <= t /\ t \in Int /\ Len(d) \in Nat
    BY <1>2, <1>9
  <2>3. Happens(e, t, H, when, t)
    BY <1>0, <1>10, <1>11 DEF Happens
  <2> QED BY <1>0, <2>2, <2>3, <1>12, <1>14, <1>15, <2>1, WindowStep
<1>18. PICK g : /\ Tracks(g, r, H \cup {e}, when, cutoff, t)
                /\ \A x \in 1..Len(r) : when[g[x]] >= cutoff
  BY <1>17 DEF TracksWindow
<1>19. \A x \in 1..Len(r) : g[x] \in H \cup {e} /\ when[g[x]] = g[x][2]
  BY <1>10, <1>18 DEF Tracks, Mirror
<1>20. TimesKept(r, H \cup {e}, window, t)
  <2>1. /\ \A x \in 1..Len(r) : g[x][2] <= t
        /\ \A x, y \in 1..Len(r) : x <= y => g[x][2] <= g[y][2]
        /\ \A x \in H \cup {e} : x[2] < t - window \/ \E y \in 1..Len(r) : g[y] = x
    BY <1>2, <1>10, <1>18, <1>19 DEF Tracks
  <2> QED BY <1>18, <2>1 DEF TimesKept, Tracks
<1>21. Cardinality({x \in H \cup {e} : x[2] >= t - window}) = Len(r)
  <2>1. PICK K : K = {x \in H \cup {e} : x[2] >= t - window}
    OBVIOUS
  <2>2. \A x \in 1..Len(r) : g[x] \in K
    BY <1>2, <1>18, <1>19, <2>1
  <2>3. \A x \in K : \E y \in 1..Len(r) : g[y] = x
    <3> TAKE x \in K
    <3>1. x \in H \cup {e} /\ ~(when[x] < cutoff)
      BY <1>2, <1>10, <2>1
    <3> QED BY <1>18, <3>1 DEF Tracks
  <2>4. Len(r) \in Nat
    BY <1>6, <1>16, <1>17
  <2>5. IsFiniteSet(1..Len(r)) /\ Cardinality(1..Len(r)) = Len(r)
    BY <2>4, Places
  <2>7. Mirror(g, r, H \cup {e})
    BY <1>18 DEF Tracks
  <2>6. Cardinality(K) = Cardinality(1..Len(r))
    BY <2>2, <2>3, <2>5, <2>7, MirrorCounts
  <2> QED BY <2>1, <2>5, <2>6
<1> QED BY <1>6, <1>8, <1>16, <1>17, <1>20, <1>21 DEF TimesHeld

\* The same for fills, counted at one price and side.
FilledAt(H, e, fill, t) == e \notin H /\ e[2] = fill /\ fill.at = t /\ \A x \in H : x[2].at \in Int

FillsHeld(r, H, fill, window, t) ==
  /\ r \in Seq(SurveillanceFills) /\ FillsKept(r, H, window, t)
  /\ Cardinality({x \in H : x[2].price = fill.price /\ x[2].side = fill.side /\ x[2].at >= t - window})
       = Cardinality({i \in DOMAIN r : r[i].price = fill.price /\ r[i].side = fill.side})

\* A fill happens now: the deque holds exactly the fills of the window.
LEMMA FillsStep ==
  ASSUME NEW d \in Seq(SurveillanceFills), NEW H, NEW window \in Nat, NEW t \in Int,
         FillsKept(d, H, window, t), NEW e, NEW fill \in SurveillanceFills, FilledAt(H, e, fill, t)
  PROVE  FillsHeld(TrimFills(Append(d, fill), t - window), H \cup {e}, fill, window, t)
<1>0. e \notin H /\ e[2] = fill /\ fill.at = t /\ \A x \in H : x[2].at \in Int
  BY DEF FilledAt
<1>1. PICK f : /\ Mirror(f, d, H)
               /\ \A i \in 1..Len(d) : f[i][2].at <= t
               /\ \A i, j \in 1..Len(d) : i <= j => f[i][2].at <= f[j][2].at
               /\ \A x \in H : x[2].at < t - window \/ \E i \in 1..Len(d) : f[i] = x
  BY DEF FillsKept
<1>2. PICK cutoff \in Int : cutoff = t - window /\ cutoff <= t /\ t \in Int
  OBVIOUS
<1>3. PICK when : when = [x \in H \cup {e} |-> x[2].at]
  OBVIOUS
<1>22. PICK v : v = Append(d, fill)
  OBVIOUS
<1>4. PICK at : at = [i \in 1..Len(v) |-> v[i].at]
  OBVIOUS
<1>5. PICK gone : gone = {i \in 1..Len(v) : \A j \in 1..i : v[j].at < cutoff}
  OBVIOUS
<1>6. PICK k : k = Cardinality(gone)
  OBVIOUS
<1>7. PICK r : r = SubSeq(v, k + 1, Len(v))
  OBVIOUS
<1>8. TrimFills(Append(d, fill), t - window) = r
  BY <1>2, <1>22, <1>5, <1>6, <1>7 DEF TrimFills
<1>23. /\ Len(d) \in Nat /\ Len(v) = Len(d) + 1 /\ v[Len(d) + 1] = fill
       /\ \A i \in 1..Len(d) : v[i] = d[i]
  BY <1>22
<1>9. /\ at[Len(d) + 1] = t
      /\ \A i \in 1..Len(d) : at[i] = d[i].at
      /\ \A i \in 1..(Len(d) + 1) : at[i] = v[i].at
  BY <1>0, <1>4, <1>23
<1>10. \A x \in H \cup {e} : when[x] \in Int /\ when[x] = x[2].at
  BY <1>0, <1>2, <1>3
<1>11. when[e] = t
  BY <1>0, <1>10
<1>13. \A i \in 1..Len(d) : f[i] \in H /\ f[i][2] = d[i] /\ when[f[i]] = f[i][2].at
  BY <1>1, <1>10 DEF Mirror
<1>12. Tracks(f, d, H, when, cutoff, t)
  BY <1>1, <1>2, <1>10, <1>13 DEF Tracks
<1>14. ItemTimes(at, f, d, when, t)
  BY <1>9, <1>13 DEF ItemTimes
<1>15. StalePlaces(gone, at, Len(d) + 1, cutoff)
  <2>1. gone = {i \in 1..(Len(d) + 1) : \A j \in 1..i : v[j].at < cutoff}
    BY <1>5, <1>23
  <2>2. ASSUME NEW i \in 1..(Len(d) + 1) PROVE (\A j \in 1..i : v[j].at < cutoff) <=> (\A j \in 1..i : at[j] < cutoff)
    <3>1. \A j \in 1..i : j \in 1..(Len(d) + 1)
      BY <1>23
    <3> QED BY <1>9, <3>1
  <2> QED BY <2>1, <2>2 DEF StalePlaces
<1>16. k \in 0..Len(d) => r \in Seq(SurveillanceFills) /\ Shifted(d, fill, k, r)
  <2> SUFFICES ASSUME k \in 0..Len(d) PROVE r \in Seq(SurveillanceFills) /\ Shifted(d, fill, k, r)
    OBVIOUS
  <2> DEFINE T == SurveillanceFills
  <2>1. d \in Seq(T) /\ fill \in T
    OBVIOUS
  <2> HIDE DEF T
  <2>2. SubSeq(Append(d, fill), k + 1, Len(Append(d, fill))) \in Seq(T) /\ Shifted(d, fill, k, SubSeq(Append(d, fill), k + 1, Len(Append(d, fill))))
    BY <2>1, Trimmed
  <2> QED BY <1>22, <1>7, <2>2 DEF T
<1>17. Cardinality(gone) \in 0..Len(d) /\ \E g : TracksWindow(g, r, H \cup {e}, when, cutoff, t)
  <2>1. Trims(d, fill, gone, r)
    BY <1>6, <1>16 DEF Trims
  <2>2. cutoff <= t /\ t \in Int /\ Len(d) \in Nat
    BY <1>2, <1>23
  <2>3. Happens(e, fill, H, when, t)
    BY <1>0, <1>10, <1>11 DEF Happens
  <2> QED BY <1>0, <2>2, <2>3, <1>12, <1>14, <1>15, <2>1, WindowStep
<1>18. PICK g : /\ Tracks(g, r, H \cup {e}, when, cutoff, t)
                /\ \A x \in 1..Len(r) : when[g[x]] >= cutoff
  BY <1>17 DEF TracksWindow
<1>19. \A x \in 1..Len(r) : g[x] \in H \cup {e} /\ when[g[x]] = g[x][2].at
  BY <1>10, <1>18 DEF Tracks, Mirror
<1>20. FillsKept(r, H \cup {e}, window, t)
  <2>1. /\ \A x \in 1..Len(r) : g[x][2].at <= t
        /\ \A x, y \in 1..Len(r) : x <= y => g[x][2].at <= g[y][2].at
        /\ \A x \in H \cup {e} : x[2].at < t - window \/ \E y \in 1..Len(r) : g[y] = x
    BY <1>2, <1>10, <1>18, <1>19 DEF Tracks
  <2> QED BY <1>18, <2>1 DEF FillsKept, Tracks
<1>21. ASSUME NEW K, K = {x \in H \cup {e} : x[2].price = fill.price /\ x[2].side = fill.side /\ x[2].at >= t - window},
              NEW I, I = {i \in DOMAIN r : r[i].price = fill.price /\ r[i].side = fill.side}
       PROVE  Cardinality(K) = Cardinality(I)
  <2>1. r \in Seq(SurveillanceFills) /\ Len(r) \in Nat /\ DOMAIN r = 1..Len(r)
    BY <1>6, <1>16, <1>17
  <2>7. Mirror(g, r, H \cup {e})
    BY <1>18 DEF Tracks
  <2>8. \A x \in 1..Len(r) : g[x][2] = r[x]
    BY <2>7 DEF Mirror
  <2>2. \A x \in I : g[x] \in K
    <3> TAKE x \in I
    <3>1. x \in 1..Len(r) /\ r[x].price = fill.price /\ r[x].side = fill.side
      BY <1>21, <2>1
    <3>2. g[x] \in H \cup {e} /\ g[x][2].at >= t - window
      BY <1>2, <1>18, <1>19, <3>1
    <3> QED BY <1>21, <2>8, <3>1, <3>2
  <2>3. \A x \in K : \E y \in I : g[y] = x
    <3> TAKE x \in K
    <3>1. x \in H \cup {e} /\ ~(when[x] < cutoff)
      BY <1>2, <1>10, <1>21
    <3>2. PICK y \in 1..Len(r) : g[y] = x
      BY <1>18, <3>1 DEF Tracks
    <3>3. r[y] = x[2]
      BY <2>8, <3>2
    <3>4. y \in I
      BY <1>21, <2>1, <3>3
    <3> QED BY <3>2, <3>4
  <2>5. IsFiniteSet(1..Len(r))
    BY <2>1, Places
  <2>6. I \in SUBSET (1..Len(r))
    BY <1>21, <2>1
  <2>9. IsFiniteSet(I)
    BY <2>5, <2>6, FS_Subset
  <2> HIDE <1>21
  <2> QED BY <2>2, <2>3, <2>6, <2>7, <2>9, MirrorCounts
<1>24. r \in Seq(SurveillanceFills)
  BY <1>6, <1>16, <1>17
<1> QED BY <1>8, <1>20, <1>21, <1>24 DEF FillsHeld

\* The events of one account.
By(H, a) == {e \in H : e[1] = a}
FillsBy(H, a) == {e \in H : e[2].account = a}

\* The histories, with ids and numbers that are used once.
HistoryInv ==
  /\ submitted \subseteq Accounts \X (0..MaxNow) \X Nat /\ IsFiniteSet(submitted)
  /\ cancelled \subseteq Accounts \X (0..MaxNow) \X Nat
  /\ filled \subseteq Nat \X SurveillanceFills /\ IsFiniteSet(filled)
  /\ \A e \in submitted \cup cancelled : e[3] <= Cardinality(submitted)
  /\ \A e \in filled : e[1] < Cardinality(filled)

\* The engine knows every order that rests, and a cancelled one rests no more.
RestingInv ==
  /\ onVenue \subseteq open_orders
  /\ \A o \in onVenue : o.id <= Cardinality(submitted) /\ \A e \in cancelled : e[3] # o.id
  /\ \A o, p \in onVenue : o.id = p.id => o = p

\* The deques of every account mirror its events.
OrdersKept == \A a \in Accounts : TimesKept(order_times[a], By(submitted, a), OrderWindow, now)
CancelsKept == \A a \in Accounts : TimesKept(cancels[a], By(cancelled, a), CancelWindow, now)
FillsAllKept == \A a \in Accounts : FillsKept(recent_fills[a], FillsBy(filled, a), FillWindow, now)

WatchInv == WatchTypeOK /\ HistoryInv /\ RestingInv /\ OrdersKept /\ CancelsKept /\ FillsAllKept

\* Empty deques mirror empty histories.
LEMMA NothingKept == \A window, t : TimesKept(<<>>, {}, window, t) /\ FillsKept(<<>>, {}, window, t)
<1> TAKE window, t
<1> DEFINE f == [i \in {} |-> i]
<1>1. Len(<<>>) = 0 /\ 1..0 = {}
  OBVIOUS
<1>2. Mirror(f, <<>>, {})
  BY <1>1 DEF Mirror
<1> HIDE DEF f
<1> QED BY <1>1, <1>2 DEF TimesKept, FillsKept

\* As time passes events only leave the window.
LEMMA LaterKept ==
  ASSUME NEW d, NEW H, NEW window \in Int, NEW t \in Int
  PROVE  /\ TimesKept(d, H, window, t) /\ (\A x \in H : x[2] \in Int) => TimesKept(d, H, window, t + 1)
         /\ FillsKept(d, H, window, t) /\ (\A x \in H : x[2].at \in Int) => FillsKept(d, H, window, t + 1)
<1>1. ASSUME TimesKept(d, H, window, t), \A x \in H : x[2] \in Int PROVE TimesKept(d, H, window, t + 1)
  <2>1. PICK f : /\ Mirror(f, d, H)
                 /\ \A i \in 1..Len(d) : f[i][2] <= t
                 /\ \A i, j \in 1..Len(d) : i <= j => f[i][2] <= f[j][2]
                 /\ \A e \in H : e[2] < t - window \/ \E x \in 1..Len(d) : f[x] = e
    BY <1>1 DEF TimesKept
  <2>2. \A i \in 1..Len(d) : f[i] \in H
    BY <2>1 DEF Mirror
  <2>3. \A i \in 1..Len(d) : f[i][2] <= t + 1
    BY <1>1, <2>1, <2>2
  <2>4. \A e \in H : e[2] < t - window => e[2] < t + 1 - window
    BY <1>1
  <2>5. \A e \in H : e[2] < t + 1 - window \/ \E x \in 1..Len(d) : f[x] = e
    BY <2>1, <2>4
  <2> QED BY <2>1, <2>3, <2>5 DEF TimesKept
<1>2. ASSUME FillsKept(d, H, window, t), \A x \in H : x[2].at \in Int PROVE FillsKept(d, H, window, t + 1)
  <2>1. PICK f : /\ Mirror(f, d, H)
                 /\ \A i \in 1..Len(d) : f[i][2].at <= t
                 /\ \A i, j \in 1..Len(d) : i <= j => f[i][2].at <= f[j][2].at
                 /\ \A e \in H : e[2].at < t - window \/ \E x \in 1..Len(d) : f[x] = e
    BY <1>2 DEF FillsKept
  <2>2. \A i \in 1..Len(d) : f[i] \in H
    BY <2>1 DEF Mirror
  <2>3. \A i \in 1..Len(d) : f[i][2].at <= t + 1
    BY <1>2, <2>1, <2>2
  <2>4. \A e \in H : e[2].at < t - window => e[2].at < t + 1 - window
    BY <1>2
  <2>5. \A e \in H : e[2].at < t + 1 - window \/ \E x \in 1..Len(d) : f[x] = e
    BY <2>1, <2>4
  <2> QED BY <2>1, <2>3, <2>5 DEF FillsKept
<1> QED BY <1>1, <1>2

\* An event joins a history that numbers its events.
LEMMA OneMoreEvent ==
  ASSUME NEW H, IsFiniteSet(H), NEW e
  PROVE  /\ IsFiniteSet(H \cup {e}) /\ Cardinality(H) \in Nat
         /\ e \notin H => Cardinality(H \cup {e}) = Cardinality(H) + 1
  BY FS_AddElement, FS_CardinalityType

\* record_order and record_cancel, on the deque they append to.
CallHeld(deques, times, history, a, id, window) ==
  /\ times \in Seq(0..MaxNow)
  /\ Recent(history \cup {<<a, now, id>>}, a, window) = Len(times)
  /\ \A b \in Accounts :
       TimesKept([deques EXCEPT ![a] = times][b], By(history \cup {<<a, now, id>>}, b), window, now)

\* The deque of the account then holds exactly its events in the window.
LEMMA CallRecorded ==
  ASSUME SurveillanceAssumption, now \in 0..MaxNow,
         NEW history, history \subseteq Accounts \X (0..MaxNow) \X Nat,
         NEW a \in Accounts, NEW id \in Nat, NEW window \in Nat, <<a, now, id>> \notin history,
         NEW deques \in [Accounts -> Seq(0..MaxNow)],
         \A b \in Accounts : TimesKept(deques[b], By(history, b), window, now)
  PROVE  CallHeld(deques, _trim_times(Append(deques[a], now), now - window), history, a, id, window)
<1>0. PICK times : times = _trim_times(Append(deques[a], now), now - window)
  OBVIOUS
<1> DEFINE e == <<a, now, id>>
<1>1. e[1] = a /\ e[2] = now /\ e \notin By(history, a) /\ MaxNow \in Nat
  BY DEF By, SurveillanceAssumption
<1>2. By(history \cup {e}, a) = By(history, a) \cup {e}
  BY <1>1 DEF By
<1>3. \A b \in Accounts : b # a => By(history \cup {e}, b) = By(history, b)
  BY <1>1 DEF By
<1> HIDE DEF e
<1>4. \A x \in By(history, a) : x[2] \in Int
  BY <1>1 DEF By
<1>5. deques[a] \in Seq(0..MaxNow) /\ TimesKept(deques[a], By(history, a), window, now)
  OBVIOUS
<1>10. TimedAt(By(history, a), e, now)
  BY <1>1, <1>4 DEF TimedAt
<1>11. TimesHeld(times, By(history, a) \cup {e}, window, now)
  BY <1>0, <1>1, <1>5, <1>10, TimesStep
<1>6. /\ times \in Seq(0..MaxNow) /\ TimesKept(times, By(history, a) \cup {e}, window, now)
      /\ Cardinality({x \in By(history, a) \cup {e} : x[2] >= now - window}) = Len(times)
  BY <1>11 DEF TimesHeld
<1>7. {x \in By(history, a) \cup {e} : x[2] >= now - window} = {x \in history \cup {e} : x[1] = a /\ x[2] >= now - window}
  BY <1>1 DEF By
<1>8. Recent(history \cup {e}, a, window) = Len(times)
  BY <1>6, <1>7 DEF Recent
<1>9. ASSUME NEW b \in Accounts PROVE TimesKept([deques EXCEPT ![a] = times][b], By(history \cup {e}, b), window, now)
  <2>1. CASE b = a
    BY <1>2, <1>6, <2>1
  <2>2. CASE b # a
    <3>1. [deques EXCEPT ![a] = times][b] = deques[b]
      BY <2>2
    <3>2. By(history \cup {e}, b) = By(history, b)
      BY <1>3, <2>2
    <3> QED BY <3>1, <3>2
  <2> QED BY <2>1, <2>2
<1> QED BY <1>0, <1>6, <1>8, <1>9 DEF e, CallHeld

\* record_fill, on the deque it appends to.
FillHeld(kept, fill, a, e) ==
  /\ kept \in Seq(SurveillanceFills)
  /\ Cardinality({x \in filled \cup {e} : /\ x[2].account = a /\ x[2].side = fill.side
                                         /\ x[2].price = fill.price /\ x[2].at >= now - FillWindow})
       = Cardinality({i \in DOMAIN kept : kept[i].price = fill.price /\ kept[i].side = fill.side})
  /\ \A b \in Accounts : FillsKept([recent_fills EXCEPT ![a] = kept][b], FillsBy(filled \cup {e}, b), FillWindow, now)

\* The deque of the account then holds exactly its fills in the window.
LEMMA FillRecorded ==
  ASSUME SurveillanceAssumption, filled \subseteq Nat \X SurveillanceFills,
         NEW a \in Accounts, NEW number \in Nat, now \in 0..MaxNow,
         NEW fill \in SurveillanceFills, fill.account = a, fill.at = now, <<number, fill>> \notin filled,
         recent_fills \in [Accounts -> Seq(SurveillanceFills)], FillsAllKept
  PROVE  FillHeld(TrimFills(Append(recent_fills[a], fill), now - FillWindow), fill, a, <<number, fill>>)
<1>0. PICK kept : kept = TrimFills(Append(recent_fills[a], fill), now - FillWindow)
  OBVIOUS
<1> DEFINE e == <<number, fill>>
<1>1. e[2] = fill /\ e \notin FillsBy(filled, a) /\ FillWindow \in Nat /\ now \in Int
  BY DEF FillsBy, SurveillanceAssumption
<1>2. FillsBy(filled \cup {e}, a) = FillsBy(filled, a) \cup {e}
  BY <1>1 DEF FillsBy
<1>3. \A b \in Accounts : b # a => FillsBy(filled \cup {e}, b) = FillsBy(filled, b)
  BY <1>1 DEF FillsBy
<1>13. e \notin filled
  OBVIOUS
<1> HIDE DEF e
<1>4. \A x \in FillsBy(filled, a) : x[2].at \in Int
  <2>1. \A x \in filled : x[2] \in SurveillanceFills
    OBVIOUS
  <2>2. \A s \in SurveillanceFills : s.at \in Int
    BY DEF SurveillanceFills, SurveillanceAssumption
  <2> QED BY <2>1, <2>2 DEF FillsBy
<1>5. recent_fills[a] \in Seq(SurveillanceFills) /\ FillsKept(recent_fills[a], FillsBy(filled, a), FillWindow, now)
  BY DEF FillsAllKept
<1>10. FilledAt(FillsBy(filled, a), e, fill, now)
  BY <1>1, <1>4 DEF FilledAt
<1>11. FillsHeld(kept, FillsBy(filled, a) \cup {e}, fill, FillWindow, now)
  BY <1>0, <1>1, <1>5, <1>10, FillsStep
<1>6. /\ kept \in Seq(SurveillanceFills) /\ FillsKept(kept, FillsBy(filled, a) \cup {e}, FillWindow, now)
      /\ Cardinality({x \in FillsBy(filled, a) \cup {e} :
                        x[2].price = fill.price /\ x[2].side = fill.side /\ x[2].at >= now - FillWindow})
           = Cardinality({i \in DOMAIN kept : kept[i].price = fill.price /\ kept[i].side = fill.side})
  BY <1>11 DEF FillsHeld
<1>7. {x \in FillsBy(filled, a) \cup {e} :
         x[2].price = fill.price /\ x[2].side = fill.side /\ x[2].at >= now - FillWindow}
      = {x \in filled \cup {e} : /\ x[2].account = a /\ x[2].side = fill.side
                                 /\ x[2].price = fill.price /\ x[2].at >= now - FillWindow}
  BY <1>1 DEF FillsBy
<1>9. ASSUME NEW b \in Accounts PROVE FillsKept([recent_fills EXCEPT ![a] = kept][b], FillsBy(filled \cup {e}, b), FillWindow, now)
  <2>1. CASE b = a
    BY <1>2, <1>6, <2>1
  <2>2. CASE b # a
    <3>1. [recent_fills EXCEPT ![a] = kept][b] = recent_fills[b]
      BY <2>2
    <3>2. FillsBy(filled \cup {e}, b) = FillsBy(filled, b)
      BY <1>3, <2>2
    <3> QED BY <3>1, <3>2 DEF FillsAllKept
  <2> QED BY <2>1, <2>2
<1>12. Cardinality({x \in filled \cup {e} : /\ x[2].account = a /\ x[2].side = fill.side
                                           /\ x[2].price = fill.price /\ x[2].at >= now - FillWindow})
         = Cardinality({i \in DOMAIN kept : kept[i].price = fill.price /\ kept[i].side = fill.side})
  BY <1>6, <1>7
<1> QED BY <1>0, <1>6, <1>9, <1>12 DEF e, FillHeld

\* What a step of the engine shows.
StepExact == EqualPriceAlerted /\ RatesExact /\ ClustersExact

\* Initially nothing has happened.
LEMMA WatchInitial == SurveillanceAssumption /\ WatchInit => WatchInv
<1> SUFFICES ASSUME SurveillanceAssumption, WatchInit PROVE WatchInv
  OBVIOUS
<1>1. WatchTypeOK
  BY DEF WatchInit, WatchTypeOK, SurveillanceAssumption
<1>2. HistoryInv /\ RestingInv
  BY FS_EmptySet DEF WatchInit, HistoryInv, RestingInv
<1>3. \A a \in Accounts : By({}, a) = {} /\ FillsBy({}, a) = {}
  BY DEF By, FillsBy
<1>4. OrdersKept /\ CancelsKept /\ FillsAllKept
  BY <1>3, NothingKept DEF WatchInit, OrdersKept, CancelsKept, FillsAllKept
<1> QED BY <1>1, <1>2, <1>4 DEF WatchInv

\* record_order.
LEMMA OrderExact ==
  ASSUME SurveillanceAssumption, WatchInv, NEW order \in SurveillanceOrders, record_order(order)
  PROVE  WatchInv' /\ StepExact
<1> USE DEF WatchInv
<1> DEFINE a == order.account
           e == <<a, now, order.id>>
           times == _trim_times(Append(order_times[a], now), now - OrderWindow)
<1>1. /\ a \in Accounts /\ order.id \in Nat /\ order.side \in {"buy", "sell"} /\ order.price \in LevelPrices
      /\ now \in 0..MaxNow /\ OrderWindow \in Nat /\ MaxNow \in Nat
  BY DEF SurveillanceOrders, SurveillanceAssumption, WatchTypeOK
<1>2. /\ order.id = Cardinality(submitted) + 1 /\ order_times' = [order_times EXCEPT ![a] = times]
      /\ alerts' = If(Len(times) > MaxPerWindow, "order_spam")
                   \union If(_detect(order, TRUE), "self_trade_prevention")
                   \union If(_detect(order, FALSE), "cross_account_collision")
      /\ open_orders' = open_orders \union {order} /\ onVenue' = onVenue \union {order}
      /\ submitted' = submitted \union {e}
      /\ UNCHANGED <<now, cancels, recent_fills, cancelled, filled>>
  BY DEF record_order
<1>3. Cardinality(submitted) \in Nat /\ e \notin submitted /\ e[1] = a /\ e[3] = order.id
  <2>1. Cardinality(submitted) \in Nat
    BY OneMoreEvent DEF HistoryInv
  <2> QED BY <1>2, <2>1 DEF HistoryInv
<1>4. /\ times \in Seq(0..MaxNow) /\ Recent(submitted \cup {e}, a, OrderWindow) = Len(times)
      /\ \A b \in Accounts : TimesKept([order_times EXCEPT ![a] = times][b], By(submitted \cup {e}, b), OrderWindow, now)
  <2>1. /\ submitted \subseteq Accounts \X (0..MaxNow) \X Nat /\ order_times \in [Accounts -> Seq(0..MaxNow)]
        /\ \A b \in Accounts : TimesKept(order_times[b], By(submitted, b), OrderWindow, now)
    BY DEF HistoryInv, WatchTypeOK, OrdersKept
  <2>2. CallHeld(order_times, times, submitted, a, order.id, OrderWindow)
    BY <1>1, <1>3, <2>1, CallRecorded
  <2> QED BY <2>2 DEF CallHeld
<1> HIDE DEF times
<1>5. WatchTypeOK'
  <2>1. order_times' \in [Accounts -> Seq(0..MaxNow)]
    BY <1>1, <1>2, <1>4 DEF WatchTypeOK
  <2> QED BY <1>2, <2>1 DEF WatchTypeOK, If
<1>6. HistoryInv'
  <2>1. IsFiniteSet(submitted') /\ Cardinality(submitted') = Cardinality(submitted) + 1
    BY <1>2, <1>3, OneMoreEvent DEF HistoryInv
  <2>2. e \in Accounts \X (0..MaxNow) \X Nat
    BY <1>1
  <2>3. \A x \in submitted \cup cancelled : x[3] \in Nat /\ x[3] <= Cardinality(submitted)
    BY DEF HistoryInv
  <2> HIDE DEF e
  <2>4. \A x \in submitted' \cup cancelled' : x[3] <= Cardinality(submitted')
    BY <1>2, <1>3, <2>1, <2>3
  <2> QED BY <1>2, <2>1, <2>2, <2>4 DEF HistoryInv
<1>7. RestingInv'
  <2>1. Cardinality(submitted') = Cardinality(submitted) + 1
    BY <1>2, <1>3, OneMoreEvent DEF HistoryInv
  <2>2. \A x \in cancelled : x[3] \in Nat /\ x[3] <= Cardinality(submitted)
    BY DEF HistoryInv
  <2>3. \A o \in onVenue : o.id \in Nat /\ o.id <= Cardinality(submitted)
    BY DEF RestingInv, WatchTypeOK, SurveillanceOrders, SurveillanceAssumption
  <2> HIDE DEF e
  <2> QED BY <1>2, <1>3, <2>1, <2>2, <2>3 DEF RestingInv
<1>8. OrdersKept' /\ CancelsKept' /\ FillsAllKept'
  BY <1>2, <1>4 DEF OrdersKept, CancelsKept, FillsAllKept
<1>9. EqualPriceAlerted
  <2> SUFFICES ASSUME NEW o \in onVenue, o.side # order.side, o.price = order.price
               PROVE  (IF o.account = order.account THEN "self_trade_prevention"
                       ELSE "cross_account_collision") \in alerts'
    BY <1>2 DEF EqualPriceAlerted
  <2>1. o \in open_orders /\ o.side = Opposite(order.side)
    BY <1>1 DEF RestingInv, WatchTypeOK, SurveillanceOrders, Opposite
  <2>2. _detect(order, o.account = order.account)
    BY <2>1 DEF _detect
  <2>3. CASE o.account = order.account
    BY <1>2, <2>2, <2>3 DEF If
  <2>4. CASE o.account # order.account
    BY <1>2, <2>2, <2>4 DEF If
  <2> QED BY <2>3, <2>4
<1>10. RatesExact
  <2>1. submitted' \ submitted = {e} /\ cancelled' \ cancelled = {}
    BY <1>2, <1>3
  <2>2. "order_spam" \in alerts' <=> Len(times) > MaxPerWindow
    BY <1>2 DEF If
  <2>3. Recent(submitted', a, OrderWindow) = Len(times)
    BY <1>2, <1>4
  <2> HIDE DEF e, a
  <2> QED BY <1>3, <2>1, <2>2, <2>3 DEF RatesExact
<1>11. ClustersExact
  BY <1>2 DEF ClustersExact
<1> QED BY <1>5, <1>6, <1>7, <1>8, <1>9, <1>10, <1>11 DEF StepExact

\* record_cancel: the id was never cancelled before.
LEMMA CancelExact ==
  ASSUME SurveillanceAssumption, WatchInv, NEW order \in onVenue, record_cancel(order)
  PROVE  WatchInv' /\ StepExact
<1> USE DEF WatchInv
<1> DEFINE a == order.account
           e == <<a, now, order.id>>
           times == _trim_times(Append(cancels[a], now), now - CancelWindow)
<1>1. /\ a \in Accounts /\ order.id \in Nat /\ now \in 0..MaxNow /\ CancelWindow \in Nat /\ MaxNow \in Nat
  BY DEF SurveillanceOrders, SurveillanceAssumption, WatchTypeOK
<1>2. /\ open_orders' = open_orders \ {order} /\ onVenue' = onVenue \ {order}
      /\ cancels' = [cancels EXCEPT ![a] = times]
      /\ alerts' = If(Len(times) > MaxPerWindow, "excessive_cancel")
      /\ cancelled' = cancelled \union {e}
      /\ UNCHANGED <<now, order_times, recent_fills, submitted, filled>>
  BY DEF record_cancel
<1>3. e \notin cancelled /\ e[1] = a /\ e[3] = order.id
  BY DEF RestingInv
<1>4. /\ times \in Seq(0..MaxNow) /\ Recent(cancelled \cup {e}, a, CancelWindow) = Len(times)
      /\ \A b \in Accounts : TimesKept([cancels EXCEPT ![a] = times][b], By(cancelled \cup {e}, b), CancelWindow, now)
  <2>1. /\ cancelled \subseteq Accounts \X (0..MaxNow) \X Nat /\ cancels \in [Accounts -> Seq(0..MaxNow)]
        /\ \A b \in Accounts : TimesKept(cancels[b], By(cancelled, b), CancelWindow, now)
    BY DEF HistoryInv, WatchTypeOK, CancelsKept
  <2>2. CallHeld(cancels, times, cancelled, a, order.id, CancelWindow)
    BY <1>1, <1>3, <2>1, CallRecorded
  <2> QED BY <2>2 DEF CallHeld
<1> HIDE DEF times
<1>5. WatchTypeOK'
  <2>1. cancels' \in [Accounts -> Seq(0..MaxNow)]
    BY <1>1, <1>2, <1>4 DEF WatchTypeOK
  <2> QED BY <1>2, <2>1 DEF WatchTypeOK, If
<1>6. HistoryInv'
  <2>1. e \in Accounts \X (0..MaxNow) \X Nat /\ e[3] <= Cardinality(submitted)
    BY <1>1, <1>3 DEF RestingInv
  <2> HIDE DEF e
  <2> QED BY <1>2, <2>1 DEF HistoryInv
<1>7. RestingInv'
  <2> HIDE DEF e
  <2> QED BY <1>2, <1>3 DEF RestingInv
<1>8. OrdersKept' /\ CancelsKept' /\ FillsAllKept'
  BY <1>2, <1>4 DEF OrdersKept, CancelsKept, FillsAllKept
<1>10. RatesExact
  <2>1. cancelled' \ cancelled = {e} /\ submitted' \ submitted = {}
    BY <1>2, <1>3
  <2>2. "excessive_cancel" \in alerts' <=> Len(times) > MaxPerWindow
    BY <1>2 DEF If
  <2>3. Recent(cancelled', a, CancelWindow) = Len(times)
    BY <1>2, <1>4
  <2> HIDE DEF e, a
  <2> QED BY <1>3, <2>1, <2>2, <2>3 DEF RatesExact
<1>11. EqualPriceAlerted /\ ClustersExact
  BY <1>2 DEF EqualPriceAlerted, ClustersExact
<1> QED BY <1>5, <1>6, <1>7, <1>8, <1>10, <1>11 DEF StepExact

\* record_fill.
LEMMA FillExact ==
  ASSUME SurveillanceAssumption, WatchInv, NEW order \in onVenue, NEW final \in BOOLEAN, NEW counterparty,
         record_fill(order, counterparty, final)
  PROVE  WatchInv' /\ StepExact
<1> USE DEF WatchInv
<1> DEFINE a == order.account
           fill == [account |-> a, side |-> order.side, price |-> order.price, at |-> now]
           e == <<Cardinality(filled), fill>>
           kept == TrimFills(Append(recent_fills[a], fill), now - FillWindow)
           same == {i \in DOMAIN kept : kept[i].price = fill.price /\ kept[i].side = fill.side}
<1>1. /\ a \in Accounts /\ order.side \in {"buy", "sell"} /\ order.price \in LevelPrices
      /\ now \in 0..MaxNow /\ FillWindow \in Nat /\ MaxNow \in Nat
  BY DEF SurveillanceOrders, SurveillanceAssumption, WatchTypeOK
<1>2. /\ recent_fills' = [recent_fills EXCEPT ![a] = kept]
      /\ alerts' = If(counterparty = a, "wash_trade") \union If(Cardinality(same) >= Cluster, "abnormal_execution")
      /\ onVenue' = IF final THEN onVenue \ {order} ELSE onVenue
      /\ filled' = filled \union {e}
      /\ UNCHANGED <<now, open_orders, order_times, cancels, submitted, cancelled>>
  BY DEF record_fill
<1>3. Cardinality(filled) \in Nat /\ e \notin filled /\ e[1] = Cardinality(filled) /\ e[2] = fill
  <2>1. Cardinality(filled) \in Nat
    BY OneMoreEvent DEF HistoryInv
  <2>2. e[1] = Cardinality(filled) /\ e[2] = fill
    OBVIOUS
  <2> HIDE DEF e, fill
  <2> QED BY <2>1, <2>2 DEF HistoryInv
<1>12. fill \in SurveillanceFills /\ fill.account = a /\ fill.at = now
  BY <1>1 DEF SurveillanceFills
<1>4. /\ kept \in Seq(SurveillanceFills)
      /\ Cardinality({x \in filled \cup {e} : /\ x[2].account = a /\ x[2].side = fill.side
                                             /\ x[2].price = fill.price /\ x[2].at >= now - FillWindow})
           = Cardinality(same)
      /\ \A b \in Accounts : FillsKept([recent_fills EXCEPT ![a] = kept][b], FillsBy(filled \cup {e}, b), FillWindow, now)
  <2> HIDE DEF fill, a
  <2>1. filled \subseteq Nat \X SurveillanceFills /\ recent_fills \in [Accounts -> Seq(SurveillanceFills)] /\ FillsAllKept
    BY DEF HistoryInv, WatchTypeOK
  <2>2. FillHeld(kept, fill, a, e)
    BY <1>1, <1>3, <1>12, <2>1, FillRecorded
  <2> HIDE DEF kept
  <2> QED BY <2>2 DEF FillHeld
<1> HIDE DEF kept, fill
<1>5. WatchTypeOK'
  <2>1. recent_fills' \in [Accounts -> Seq(SurveillanceFills)]
    BY <1>1, <1>2, <1>4 DEF WatchTypeOK
  <2>2. alerts' \subseteq {"wash_trade", "abnormal_execution"}
    BY <1>2 DEF If
  <2> QED BY <1>2, <2>1, <2>2 DEF WatchTypeOK
<1>6. HistoryInv'
  <2>1. IsFiniteSet(filled') /\ Cardinality(filled') = Cardinality(filled) + 1
    BY <1>2, <1>3, OneMoreEvent DEF HistoryInv
  <2>2. e \in Nat \X SurveillanceFills
    BY <1>3, <1>12
  <2>3. \A x \in filled : x[1] \in Nat /\ x[1] < Cardinality(filled)
    BY DEF HistoryInv
  <2> HIDE DEF e
  <2>4. \A x \in filled' : x[1] < Cardinality(filled')
    BY <1>2, <1>3, <2>1, <2>3
  <2> QED BY <1>2, <2>1, <2>2, <2>4 DEF HistoryInv
<1>7. RestingInv'
  BY <1>2 DEF RestingInv
<1>8. OrdersKept' /\ CancelsKept' /\ FillsAllKept'
  BY <1>2, <1>4 DEF OrdersKept, CancelsKept, FillsAllKept
<1>9. EqualPriceAlerted /\ RatesExact
  <2>1. onVenue' \ onVenue = {} /\ submitted' \ submitted = {} /\ cancelled' \ cancelled = {}
    BY <1>2
  <2> QED BY <2>1 DEF EqualPriceAlerted, RatesExact
<1>10. ClustersExact
  <2>1. filled' \ filled = {e}
    BY <1>2, <1>3
  <2>2. "abnormal_execution" \in alerts' <=> Cardinality(same) >= Cluster
    BY <1>2 DEF If
  <2>3. e[2].account = a /\ e[2].side = fill.side /\ e[2].price = fill.price
    BY <1>3, <1>12
  <2>4. Cardinality({x \in filled' : /\ x[2].account = e[2].account /\ x[2].side = e[2].side
                                     /\ x[2].price = e[2].price /\ x[2].at >= now - FillWindow})
          = Cardinality(same)
    BY <1>2, <1>4, <2>3
  <2> HIDE DEF e, same, a
  <2> QED BY <2>1, <2>2, <2>4 DEF ClustersExact
<1> QED BY <1>5, <1>6, <1>7, <1>8, <1>9, <1>10 DEF StepExact

\* Steps that are no event: time passes, an order vanishes.
LEMMA QuietExact ==
  ASSUME SurveillanceAssumption, WatchInv, TimePasses \/ \E order \in onVenue : Vanish(order)
  PROVE  WatchInv' /\ StepExact
<1> USE DEF WatchInv
<1>1. /\ onVenue' \subseteq onVenue /\ now' \in {now, now + 1} /\ now' \in 0..MaxNow /\ alerts' \subseteq alerts
      /\ UNCHANGED <<open_orders, order_times, cancels, recent_fills, submitted, cancelled, filled>>
  BY DEF TimePasses, Vanish, events, WatchTypeOK, SurveillanceAssumption
<1>2. StepExact
  <2>1. onVenue' \ onVenue = {} /\ submitted' \ submitted = {} /\ cancelled' \ cancelled = {} /\ filled' \ filled = {}
    BY <1>1
  <2> QED BY <2>1 DEF StepExact, EqualPriceAlerted, RatesExact, ClustersExact
<1>3. WatchTypeOK' /\ HistoryInv' /\ RestingInv'
  BY <1>1 DEF WatchTypeOK, HistoryInv, RestingInv
<1>4. now \in Int /\ OrderWindow \in Int /\ CancelWindow \in Int /\ FillWindow \in Int
  BY DEF WatchTypeOK, SurveillanceAssumption
<1>5. ASSUME NEW a \in Accounts
      PROVE  /\ \A x \in By(submitted, a) \cup By(cancelled, a) : x[2] \in Int
             /\ \A x \in FillsBy(filled, a) : x[2].at \in Int
  <2>1. \A x \in submitted \cup cancelled : x[2] \in 0..MaxNow
    BY DEF HistoryInv
  <2>2. \A x \in filled : x[2] \in SurveillanceFills
    BY DEF HistoryInv
  <2>3. \A s \in SurveillanceFills : s.at \in 0..MaxNow
    BY DEF SurveillanceFills
  <2>4. MaxNow \in Nat /\ 0..MaxNow \subseteq Int
    BY DEF SurveillanceAssumption
  <2> QED BY <2>1, <2>2, <2>3, <2>4 DEF By, FillsBy
<1>6. OrdersKept' /\ CancelsKept' /\ FillsAllKept'
  <2>1. CASE now' = now
    BY <1>1, <2>1 DEF OrdersKept, CancelsKept, FillsAllKept
  <2>2. CASE now' = now + 1
    <3>1. ASSUME NEW a \in Accounts PROVE TimesKept(order_times[a], By(submitted, a), OrderWindow, now + 1)
      BY <1>4, <1>5, LaterKept DEF OrdersKept
    <3>2. ASSUME NEW a \in Accounts PROVE TimesKept(cancels[a], By(cancelled, a), CancelWindow, now + 1)
      BY <1>4, <1>5, LaterKept DEF CancelsKept
    <3>3. ASSUME NEW a \in Accounts PROVE FillsKept(recent_fills[a], FillsBy(filled, a), FillWindow, now + 1)
      BY <1>4, <1>5, LaterKept DEF FillsAllKept
    <3> QED BY <1>1, <2>2, <3>1, <3>2, <3>3 DEF OrdersKept, CancelsKept, FillsAllKept
  <2> QED BY <1>1, <2>1, <2>2
<1> QED BY <1>2, <1>3, <1>6

\* Every step keeps the invariant and raises exactly the alerts due.
LEMMA WatchStep ==
  ASSUME SurveillanceAssumption, WatchInv, [WatchNext]_watchVars
  PROVE  WatchInv' /\ [StepExact]_watchVars
<1>1. CASE UNCHANGED watchVars
  BY <1>1 DEF watchVars, WatchInv, WatchTypeOK, HistoryInv, RestingInv, OrdersKept, CancelsKept, FillsAllKept
<1>2. CASE \E order \in SurveillanceOrders : record_order(order)
  BY <1>2, OrderExact
<1>3. CASE \E order \in onVenue : record_cancel(order)
  BY <1>3, CancelExact
<1>4. CASE \E order \in onVenue, final \in BOOLEAN, c \in Accounts \union {"outside"} : record_fill(order, c, final)
  BY <1>4, FillExact
<1>5. CASE TimePasses \/ \E order \in onVenue : Vanish(order)
  BY <1>5, QuietExact
<1> QED BY <1>1, <1>2, <1>3, <1>4, <1>5 DEF WatchNext

\* Every reachable state is well typed and its deques mirror the histories.
THEOREM WatchTypeCorrect == WatchSpec => []WatchTypeOK
<1>1. WatchInit => WatchInv
  BY SurveillanceAssumption, WatchInitial
<1>2. WatchInv /\ [WatchNext]_watchVars => WatchInv'
  BY SurveillanceAssumption, WatchStep
<1>3. WatchInv => WatchTypeOK
  BY DEF WatchInv
<1> QED BY <1>1, <1>2, <1>3, PTL DEF WatchSpec

\* The alerts of record_order, record_cancel and record_fill are the ones the whole
\* history calls for, for any windows and limits and any number of events.
THEOREM AlertsExactTheorem == WatchSpec => AlertsExact
<1>1. WatchInit => WatchInv
  BY SurveillanceAssumption, WatchInitial
<1>2. WatchInv /\ [WatchNext]_watchVars => WatchInv' /\ [StepExact]_watchVars
  BY SurveillanceAssumption, WatchStep
<1>3. [StepExact]_watchVars => [EqualPriceAlerted /\ RatesExact /\ ClustersExact]_watchVars
  BY DEF StepExact
<1> QED BY <1>1, <1>2, <1>3, PTL DEF WatchSpec, AlertsExact

-----------------------------------------------------------------------------
(* The quotes.                                                             *)

\* A valid configuration, field by field.
LEMMA ConfigFields ==
  ASSUME NEW c \in Configs
  PROVE  /\ c.minSpread \in Nat \ {0} /\ c.baseSpread \in Nat /\ c.maxSpread \in Nat /\ c.minSpread <= c.maxSpread
         /\ c.minSize \in Nat \ {0} /\ c.baseSize \in Nat /\ c.maxSize \in Nat /\ c.minSize <= c.maxSize
         /\ c.sizeMultiplier \in Nat /\ c.spacing \in Nat /\ c.outer \in Nat /\ c.threshold \in Nat \ {0}
         /\ c.target \in Nat /\ c.intensity \in Nat /\ c.volMultiplier \in Nat
         /\ c.ladderLevels \in Nat /\ c.enabledLevels \in Nat /\ c.maxPerSide \in Nat
<1>1. Valid(c)
  BY QuotesAssumption
<1>2. c \in [QuoteFields -> Nat]
  BY <1>1 DEF Valid
<1>3. \A f \in QuoteFields : c[f] \in Nat
  BY <1>2
<1>4. /\ c.minSpread \in Nat /\ c.baseSpread \in Nat /\ c.maxSpread \in Nat
      /\ c.minSize \in Nat /\ c.baseSize \in Nat /\ c.maxSize \in Nat
      /\ c.sizeMultiplier \in Nat /\ c.spacing \in Nat /\ c.outer \in Nat /\ c.threshold \in Nat
      /\ c.target \in Nat /\ c.intensity \in Nat /\ c.volMultiplier \in Nat
      /\ c.ladderLevels \in Nat /\ c.enabledLevels \in Nat /\ c.maxPerSide \in Nat
  BY <1>3 DEF QuoteFields
<1>5. /\ 0 < c.minSpread /\ c.minSpread <= c.baseSpread /\ c.baseSpread <= c.maxSpread
      /\ 0 < c.minSize /\ c.minSize <= c.baseSize /\ c.baseSize <= c.maxSize /\ c.threshold > 0
  BY <1>1 DEF Valid
<1> QED BY <1>4, <1>5

LEMMA MarketFields ==
  ASSUME NEW m \in Markets
  PROVE  /\ m.book[1] \in Nat \ {0} /\ m.book[2] \in Nat \ {0} /\ m.book[1] < m.book[2]
         /\ m.volatility \in Nat /\ m.imbalance \in -100..100
         /\ m.holding[1] \in Nat /\ m.holding[2] \in Nat
         /\ m.pressure \in Nat /\ m.pressure >= 100
<1>1. m.book \in Books /\ m.volatility \in Volatilities /\ m.imbalance \in Imbalances
      /\ m.holding \in Holdings /\ m.pressure \in Pressures
  BY DEF Markets
<1>2. m.book \in Nat \X Nat /\ 0 < m.book[1] /\ m.book[1] < m.book[2]
  BY <1>1, QuotesAssumption
<1>3. m.holding \in Nat \X Nat
  BY <1>1, QuotesAssumption
<1>4. m.volatility \in Nat /\ m.imbalance \in -100..100 /\ m.pressure \in Nat /\ m.pressure >= 100
  BY <1>1, QuotesAssumption
<1> QED BY <1>2, <1>3, <1>4

LEMMA ActiveLevel ==
  ASSUME NEW c \in Configs, NEW l \in ActiveLevels(c)
  PROVE  l \in Nat \ {0}
<1> DEFINE a == c.ladderLevels
           b == c.enabledLevels
           d == c.maxPerSide
<1>1. a \in Int /\ b \in Int /\ d \in Int
  BY ConfigFields
<1> HIDE DEF a, b, d
<1>2. \E x \in {a, b, d} : \A y \in {a, b, d} : x <= y
  <2>1. CASE a <= b /\ a <= d
    BY <1>1, <2>1
  <2>2. CASE b <= a /\ b <= d
    BY <1>1, <2>2
  <2>3. CASE d <= a /\ d <= b
    BY <1>1, <2>3
  <2> QED BY <1>1, <2>1, <2>2, <2>3
<1>3. Min({a, b, d}) \in Int
  BY <1>1, <1>2 DEF Min
<1>4. l \in 1..Min({a, b, d})
  BY DEF ActiveLevels, a, b, d
<1> QED BY <1>3, <1>4

\* A number clamped to an interval lies in it.
LEMMA Clamped ==
  ASSUME NEW a \in Int, NEW b \in Int, a <= b, NEW z \in Int
  PROVE  Min({b, Max({a, z})}) \in a..b
<1>1. Max({a, z}) \in Int /\ Max({a, z}) >= a
  BY LargerOf
<1> HIDE DEF Max
<1> QED BY <1>1, SmallerOf

\* adjusted_spread_bps never falls below min_spread_bps, and each level adds to it.
LEMMA SpreadBounds ==
  ASSUME NEW c \in Configs, NEW m \in Markets, NEW l \in ActiveLevels(c)
  PROVE  /\ LevelSpread(c, m, l) \in Nat /\ LevelSpread(c, m, l) >= c.minSpread
         /\ LevelSpread(c, m, l) = 2 * (LevelSpread(c, m, l) \div 2) /\ LevelSpread(c, m, l) \div 2 \in Nat
<1> DEFINE wide == c.baseSpread + (m.volatility * c.volMultiplier) \div 100 + (Magnitude(m.imbalance) * c.baseSpread) \div 100
           inner == AdjustedSpread(c, m)
           step == (c.spacing * (l - 1) * c.outer) \div 100
           more == Max({0, m.volatility})
           spread == LevelSpread(c, m, l)
<1>1. wide \in Int
  <2>1. m.volatility * c.volMultiplier \in Nat
    BY ConfigFields, MarketFields
  <2>2. Magnitude(m.imbalance) \in Nat
    BY MarketFields DEF Magnitude
  <2>3. Magnitude(m.imbalance) * c.baseSpread \in Nat
    BY <2>2, ConfigFields
  <2>4. (m.volatility * c.volMultiplier) \div 100 \in Nat /\ (Magnitude(m.imbalance) * c.baseSpread) \div 100 \in Nat
    BY <2>1, <2>3, Ratio
  <2> QED BY <2>4, ConfigFields
<1>2. inner \in c.minSpread..c.maxSpread
  <2> HIDE DEF wide
  <2>1. Min({c.maxSpread, Max({c.minSpread, wide})}) \in c.minSpread..c.maxSpread
    BY <1>1, ConfigFields, Clamped
  <2> QED BY <2>1 DEF AdjustedSpread, wide
<1>3. step \in Nat
  <2>1. l - 1 \in Nat
    BY ActiveLevel
  <2>2. c.spacing * (l - 1) \in Nat
    BY <2>1, ConfigFields
  <2>3. c.spacing * (l - 1) * c.outer \in Nat
    BY <2>2, ConfigFields
  <2> QED BY <2>3, Ratio
<1>4. more \in Nat
  BY MarketFields, LargerOf
<1>5. spread = inner + step + more
  BY DEF LevelSpread
<1>6. spread % 2 = 0
  BY ExactAssumption
<1> HIDE DEF inner, step, more, spread
<1>7. spread \in Nat /\ spread >= c.minSpread
  BY <1>2, <1>3, <1>4, <1>5, ConfigFields
<1>8. spread = 2 * (spread \div 2) /\ spread \div 2 \in Nat
  BY <1>6, <1>7
<1> QED BY <1>7, <1>8 DEF spread

LEMMA SkewInt ==
  ASSUME NEW c \in Configs, NEW m \in Markets
  PROVE  BaseRatio(m) \in Nat /\ Skew(c, m) \in Int /\ Skew(c, m) = (BaseRatio(m) - c.target) * c.intensity
<1>1. BaseRatio(m) \in Nat
  <2>1. m.holding[1] + m.holding[2] \in Nat /\ 100 * m.holding[1] \in Nat
    BY MarketFields
  <2>2. m.holding[1] + m.holding[2] > 0 => (100 * m.holding[1]) \div (m.holding[1] + m.holding[2]) \in Nat
    BY <2>1, Ratio
  <2> QED BY <2>1, <2>2 DEF BaseRatio
<1>2. (BaseRatio(m) - c.target) * c.intensity \in Int
  BY <1>1, ConfigFields
<1> QED BY <1>1, <1>2 DEF Skew

\* The improvement moves one side by at most a basis point towards mid.
LEMMA Improved ==
  ASSUME NEW m \in Markets
  PROVE  /\ Improvement(m, "buy") \in 0..100 /\ Improvement(m, "sell") \in -100..0
         /\ Improvement(m, "buy") - Improvement(m, "sell") <= 100
<1>1. m.imbalance \in -100..100
  BY MarketFields
<1>2. CASE m.imbalance > 0
  <2>1. Improvement(m, "buy") = 0 /\ Improvement(m, "sell") = -m.imbalance
    BY <1>1, <1>2 DEF Improvement
  <2> QED BY <1>1, <1>2, <2>1
<1>3. CASE m.imbalance < 0
  <2>1. Improvement(m, "buy") = -m.imbalance /\ Improvement(m, "sell") = 0
    BY <1>1, <1>3 DEF Improvement
  <2> QED BY <1>1, <1>3, <2>1
<1>4. CASE m.imbalance = 0
  <2>1. Improvement(m, "buy") = 0 /\ Improvement(m, "sell") = 0
    BY <1>4 DEF Improvement
  <2> QED BY <2>1
<1> QED BY <1>1, <1>2, <1>3, <1>4

\* What a quote's distance from mid is made of.
LEMMA RateParts ==
  ASSUME NEW c \in Configs, NEW m \in Markets, NEW l \in ActiveLevels(c)
  PROVE  \E half, reach \in Nat :
           /\ LevelSpread(c, m, l) = 2 * half /\ 2 * half >= c.minSpread
           /\ reach >= 2 * half /\ reach >= 100 /\ (reach = 2 * half \/ reach = 100)
           /\ LET buy  == -half - Skew(c, m) + Improvement(m, "buy")
                  sell == half - Skew(c, m) + Improvement(m, "sell")
              IN  /\ Rate(c, m, "buy", l) = IF buy <= reach THEN buy ELSE reach
                  /\ Rate(c, m, "sell", l) = IF sell >= -reach THEN sell ELSE -reach
<1> DEFINE spread == LevelSpread(c, m, l)
           half == spread \div 2
           reach == Max({spread, 100})
           skew == Skew(c, m)
<1>1. spread \in Nat /\ half \in Nat /\ spread = 2 * half /\ 2 * half >= c.minSpread
  BY SpreadBounds
<1>2. reach = IF spread >= 100 THEN spread ELSE 100
  BY <1>1, LargerOf
<1>3. skew \in Int
  BY SkewInt
<1>4. Improvement(m, "buy") \in Int /\ Improvement(m, "sell") \in Int
  BY Improved
<1>5. /\ Rate(c, m, "buy", l) = Min({-half - skew + Improvement(m, "buy"), reach})
      /\ Rate(c, m, "sell", l) = Max({half - skew + Improvement(m, "sell"), -reach})
  BY DEF Rate, Protect
<1>6. /\ reach \in Nat /\ reach >= 2 * half /\ reach >= 100 /\ (reach = 2 * half \/ reach = 100)
  BY <1>1, <1>2
<1> HIDE DEF spread, half, reach, skew
<1>7. -half - skew + Improvement(m, "buy") \in Int /\ half - skew + Improvement(m, "sell") \in Int /\ -reach \in Int
  BY <1>1, <1>3, <1>4, <1>6
<1>8. /\ Min({-half - skew + Improvement(m, "buy"), reach})
           = IF -half - skew + Improvement(m, "buy") <= reach THEN -half - skew + Improvement(m, "buy") ELSE reach
      /\ Max({half - skew + Improvement(m, "sell"), -reach})
           = IF half - skew + Improvement(m, "sell") >= -reach THEN half - skew + Improvement(m, "sell") ELSE -reach
  BY <1>6, <1>7, SmallerOf, LargerOf
<1> QED BY <1>1, <1>5, <1>6, <1>8 DEF spread, skew

\* Bids and offers keep their distance whatever the skew.
LEMMA RatesApart ==
  ASSUME NEW c \in Configs, NEW m \in Markets, NEW i \in ActiveLevels(c), NEW j \in ActiveLevels(c)
  PROVE  /\ Rate(c, m, "buy", i) \in Int /\ Rate(c, m, "sell", j) \in Int
         /\ Rate(c, m, "sell", j) - Rate(c, m, "buy", i) >= c.minSpread - 100
<1>1. /\ Skew(c, m) \in Int
      /\ Improvement(m, "buy") \in Int /\ Improvement(m, "sell") \in Int
      /\ Improvement(m, "buy") - Improvement(m, "sell") <= 100 /\ c.minSpread \in Nat
  BY SkewInt, Improved, ConfigFields
<1>2. PICK h1, r1 \in Nat :
           /\ 2 * h1 >= c.minSpread
           /\ LET buy  == -h1 - Skew(c, m) + Improvement(m, "buy")
              IN  Rate(c, m, "buy", i) = IF buy <= r1 THEN buy ELSE r1
  BY RateParts
<1>3. PICK h2, r2 \in Nat :
           /\ 2 * h2 >= c.minSpread
           /\ LET sell  == h2 - Skew(c, m) + Improvement(m, "sell")
              IN  Rate(c, m, "sell", j) = IF sell >= -r2 THEN sell ELSE -r2
  BY RateParts
<1> QED BY <1>1, <1>2, <1>3

\* round keeps within half a unit.
LEMMA Rounded ==
  ASSUME NEW n \in Int, NEW d \in Nat \ {0}
  PROVE  /\ Round(n, d) \in Int
         /\ 2 * (d * Round(n, d)) <= 2 * n + d /\ 2 * (d * Round(n, d)) >= 2 * n - d
<1> DEFINE q == n \div d
           r == n % d
<1>1. q \in Int /\ r \in 0..(d - 1) /\ n = d * q + r
  OBVIOUS
<1>2. Round(n, d) = q \/ (Round(n, d) = q + 1 /\ 2 * r >= d)
  BY <1>1 DEF Round
<1>3. Round(n, d) = q => 2 * r <= d
  BY <1>1 DEF Round
<1> HIDE DEF q, r
<1>4. d * (q + 1) = d * q + d /\ d * q \in Int
  BY <1>1
<1> QED BY <1>1, <1>2, <1>3, <1>4

\* The two precisions prices are rounded from.
LEMMA RoundedPrices ==
  ASSUME NEW n, n \in Int
  PROVE  /\ Round(n, 2000000) \in Int /\ Round(n, 1000000) \in Int
         /\ 2000000 * Round(n, 2000000) <= n + 1000000 /\ 2000000 * Round(n, 2000000) >= n - 1000000
         /\ 1000000 * Round(n, 1000000) <= n + 500000 /\ 1000000 * Round(n, 1000000) >= n - 500000
<1>1. ASSUME NEW d, d \in Nat \ {0}
      PROVE  /\ Round(n, d) \in Int
             /\ 2 * (d * Round(n, d)) <= 2 * n + d /\ 2 * (d * Round(n, d)) >= 2 * n - d
  BY <1>1, Rounded
<1>2. /\ Round(n, 2000000) \in Int
      /\ 2 * (2000000 * Round(n, 2000000)) <= 2 * n + 2000000 /\ 2 * (2000000 * Round(n, 2000000)) >= 2 * n - 2000000
  BY <1>1, SMT
<1>3. /\ Round(n, 1000000) \in Int
      /\ 2 * (1000000 * Round(n, 1000000)) <= 2 * n + 1000000 /\ 2 * (1000000 * Round(n, 1000000)) >= 2 * n - 1000000
  BY <1>1, SMT
<1> QED BY <1>2, <1>3, SMT

\* More of a positive number is more.
LEMMA TimesMonotone ==
  ASSUME NEW s \in Nat, NEW x \in Int, NEW y \in Int, x <= y
  PROVE  s * x <= s * y /\ s * x \in Int /\ s * y \in Int
OBVIOUS

\* A generated price, to half a unit.  Mid is counted twice, as the sum of the book.
Twice(m) == m.book[1] + m.book[2]

LEMMA GeneratedPrice ==
  ASSUME NEW c \in Configs, NEW m \in Markets, NEW side \in QuoteSides, NEW l \in ActiveLevels(c)
  PROVE  LET price == Generated(c, m, side, l).price
             exact == Twice(m) * Rate(c, m, side, l)
         IN  /\ price \in Int /\ exact \in Int /\ Twice(m) \in Nat
             /\ 2000000 * price <= 1000000 * Twice(m) + exact + 1000000
             /\ 2000000 * price >= 1000000 * Twice(m) + exact - 1000000
<1> DEFINE s == Twice(m)
           r == Rate(c, m, side, l)
           price == Generated(c, m, side, l).price
<1>1. s \in Nat
  BY MarketFields, SMT DEF Twice
<1>2. r \in Int
  BY RatesApart, SMT DEF QuoteSides
<1>3. price = Round(s * (1000000 + r), 2000000)
  BY SMT DEF Generated, Million, Twice
<1> HIDE DEF s, r, price
<1>4. s * (1000000 + r) \in Int /\ s * (1000000 + r) = 1000000 * s + s * r /\ s * r \in Int
  BY <1>1, <1>2, SMT
<1> DEFINE n == s * (1000000 + r)
<1>5. n \in Int /\ n = 1000000 * s + s * r /\ price = Round(n, 2000000)
  BY <1>3, <1>4, SMT
<1> HIDE DEF n
<1>6. price \in Int /\ 2000000 * price <= n + 1000000 /\ 2000000 * price >= n - 1000000
  BY <1>5, RoundedPrices, SMT
<1> QED BY <1>1, <1>4, <1>5, <1>6, SMT DEF s, r, price

\* _apply_volume_pressure moves no price towards the other side, and enlarges a
\* size within the limits.
LEMMA PressedQuote ==
  ASSUME NEW c \in Configs, NEW m \in Markets, NEW l \in ActiveLevels(c)
  PROVE  /\ Desired(c, m, "buy", l).price \in Int /\ Desired(c, m, "sell", l).price \in Int
         /\ Desired(c, m, "buy", l).price <= Generated(c, m, "buy", l).price
         /\ Desired(c, m, "sell", l).price >= Generated(c, m, "sell", l).price
         /\ \/ Desired(c, m, "buy", l).price = Generated(c, m, "buy", l).price
            \/ Desired(c, m, "buy", l).price = Round(m.book[2] * 999999, 1000000)
         /\ \/ Desired(c, m, "sell", l).price = Generated(c, m, "sell", l).price
            \/ Desired(c, m, "sell", l).price = Round(m.book[1] * 1000001, 1000000)
<1> DEFINE buyAt == Generated(c, m, "buy", l).price
           sellAt == Generated(c, m, "sell", l).price
           low == Round(m.book[2] * 999999, 1000000)
           high == Round(m.book[1] * 1000001, 1000000)
<1>1. buyAt \in Int /\ sellAt \in Int
  BY GeneratedPrice, SMT DEF QuoteSides
<1>2. m.book[2] * 999999 \in Int /\ m.book[1] * 1000001 \in Int
  BY MarketFields, SMT
<1>3. low \in Int /\ high \in Int
  BY <1>2, RoundedPrices, SMT
<1>4. Million - 1 = 999999 /\ Million + 1 = 1000001 /\ Million = 1000000
  BY SMT DEF Million
<1>5. CASE m.pressure = 100
  BY <1>1, <1>5, SMT DEF Desired, Pressed
<1>6. CASE m.pressure # 100
  <2>1. Desired(c, m, "buy", l).price = Min({buyAt, low}) /\ Desired(c, m, "sell", l).price = Max({sellAt, high})
    BY <1>4, <1>6, SMT DEF Desired, Pressed
  <2> HIDE DEF buyAt, sellAt, low, high
  <2>2. /\ Min({buyAt, low}) = IF buyAt <= low THEN buyAt ELSE low
        /\ Max({sellAt, high}) = IF sellAt >= high THEN sellAt ELSE high
    BY <1>1, <1>3, SmallerOf, LargerOf, SMT
  <2>3. /\ Desired(c, m, "buy", l).price = IF buyAt <= low THEN buyAt ELSE low
        /\ Desired(c, m, "sell", l).price = IF sellAt >= high THEN sellAt ELSE high
    BY <2>1, <2>2, SMT
  <2>4. /\ Desired(c, m, "buy", l).price \in Int /\ Desired(c, m, "sell", l).price \in Int
        /\ Desired(c, m, "buy", l).price <= buyAt /\ Desired(c, m, "sell", l).price >= sellAt
        /\ (Desired(c, m, "buy", l).price = buyAt \/ Desired(c, m, "buy", l).price = low)
        /\ (Desired(c, m, "sell", l).price = sellAt \/ Desired(c, m, "sell", l).price = high)
    BY <1>1, <1>3, <2>3, SMT
  <2> QED BY <2>4, SMT DEF buyAt, sellAt, low, high
<1> QED BY <1>5, <1>6, SMT

\* The bids and offers of one refresh, to a unit.
LEMMA DesiredApart ==
  ASSUME NEW c \in Configs, NEW m \in Markets, NEW i \in ActiveLevels(c), NEW j \in ActiveLevels(c)
  PROVE  LET buyAt == Desired(c, m, "buy", i).price
             sellAt == Desired(c, m, "sell", j).price
         IN  /\ buyAt \in Int /\ sellAt \in Int
             /\ 2000000 * (sellAt - buyAt) >= Twice(m) * (c.minSpread - 100) - 2000000
<1> DEFINE s == Twice(m)
           x == Rate(c, m, "buy", i)
           y == Rate(c, m, "sell", j)
           buyAt == Desired(c, m, "buy", i).price
           sellAt == Desired(c, m, "sell", j).price
           low == Generated(c, m, "buy", i).price
           high == Generated(c, m, "sell", j).price
<1>1. x \in Int /\ y \in Int /\ y - x >= c.minSpread - 100 /\ c.minSpread \in Nat
  BY RatesApart, ConfigFields, SMT
<1>2. s \in Nat /\ low \in Int /\ 2000000 * low <= 1000000 * s + s * x + 1000000
  BY GeneratedPrice, SMT DEF QuoteSides
<1>3. high \in Int /\ 2000000 * high >= 1000000 * s + s * y - 1000000
  BY GeneratedPrice, SMT DEF QuoteSides
<1>4. buyAt \in Int /\ sellAt \in Int /\ buyAt <= low /\ sellAt >= high
  BY PressedQuote, SMT
<1> DEFINE k == c.minSpread
<1> HIDE DEF s, x, y, buyAt, sellAt, low, high, k
<1>5. s * (k - 100) <= s * (y - x) /\ s * (k - 100) \in Int
  <2>1. k - 100 \in Int /\ y - x \in Int /\ k - 100 <= y - x
    BY <1>1, SMT DEF k
  <2> QED BY <1>2, <2>1, TimesMonotone, SMT
<1>6. s * (y - x) = s * y - s * x /\ s * y \in Int /\ s * x \in Int
  BY <1>1, <1>2, SMT
<1>7. 2000000 * (sellAt - buyAt) >= s * (k - 100) - 2000000
  BY <1>2, <1>3, <1>4, <1>5, <1>6, SMT
<1> QED BY <1>4, <1>7, SMT DEF s, buyAt, sellAt, k

\* The skew outweighs the improvement.
LEMMA QuotesLean ==
  ASSUME NEW c \in Configs, NEW m \in Markets, NEW l \in ActiveLevels(c)
  PROVE  LET centre == Generated(c, m, "buy", l).price + Generated(c, m, "sell", l).price - Twice(m)
             excess == BaseRatio(m) - c.target
         IN  /\ excess * c.intensity >= 50 => centre <= 2
             /\ excess * c.intensity <= -50 => centre >= -2
<1> DEFINE s == Twice(m)
           x == Rate(c, m, "buy", l)
           y == Rate(c, m, "sell", l)
           buyAt == Generated(c, m, "buy", l).price
           sellAt == Generated(c, m, "sell", l).price
           excess == BaseRatio(m) - c.target
           skew == Skew(c, m)
           up == Improvement(m, "buy")
           down == Improvement(m, "sell")
<1>1. /\ s \in Nat /\ buyAt \in Int /\ sellAt \in Int
      /\ 2000000 * buyAt <= 1000000 * s + s * x + 1000000 /\ 2000000 * buyAt >= 1000000 * s + s * x - 1000000
      /\ 2000000 * sellAt <= 1000000 * s + s * y + 1000000 /\ 2000000 * sellAt >= 1000000 * s + s * y - 1000000
  BY GeneratedPrice, SMT DEF QuoteSides
<1>2. x \in Int /\ y \in Int
  BY RatesApart, SMT
<1>3. skew \in Int /\ skew = excess * c.intensity
  BY SkewInt, ConfigFields, SMT
<1>4. up \in 0..100 /\ down \in -100..0
  BY Improved, SMT
<1>5. PICK half, reach \in Nat :
        /\ reach >= 2 * half /\ reach >= 100
        /\ x = IF -half - skew + up <= reach THEN -half - skew + up ELSE reach
        /\ y = IF half - skew + down >= -reach THEN half - skew + down ELSE -reach
  BY RateParts, SMT
<1> HIDE DEF s, x, y, buyAt, sellAt, skew, up, down
<1>6. s * (x + y) = s * x + s * y /\ s * x \in Int /\ s * y \in Int
  BY <1>1, <1>2, SMT
<1>7. skew >= 50 => buyAt + sellAt - s <= 2
  <2> SUFFICES ASSUME skew >= 50 PROVE buyAt + sellAt - s <= 2
    OBVIOUS
  <2>1. x + y <= 0
    BY <1>3, <1>4, <1>5, SMT
  <2>2. s * (x + y) <= 0
    BY <1>1, <1>2, <2>1, SMT
  <2> QED BY <1>1, <1>6, <2>2, SMT
<1>8. skew <= -50 => buyAt + sellAt - s >= -2
  <2> SUFFICES ASSUME skew <= -50 PROVE buyAt + sellAt - s >= -2
    OBVIOUS
  <2>1. x + y >= 0
    BY <1>3, <1>4, <1>5, SMT
  <2>2. s * (x + y) >= 0
    BY <1>1, <1>2, <2>1, SMT
  <2> QED BY <1>1, <1>6, <2>2, SMT
<1> QED BY <1>3, <1>7, <1>8 DEF s, buyAt, sellAt

\* Where the configuration leaves room, a quote stays near mid.
Near(m, price) == price \in Int /\ price > 0 /\ 8 * price <= 5 * Twice(m) + 4

LEMMA GeneratedNear ==
  ASSUME NEW c \in Configs, NEW m \in Markets, NEW side \in QuoteSides, NEW l \in ActiveLevels(c),
         Twice(m) * (c.minSpread - 100 - 3 * c.threshold) > 2000000,
         4 * (LevelSpread(c, m, l) + Magnitude(Skew(c, m))) <= 1000000
  PROVE  Near(m, Generated(c, m, side, l).price) /\ Twice(m) >= 9
<1> DEFINE s == Twice(m)
           skew == Skew(c, m)
           x == Rate(c, m, side, l)
           price == Generated(c, m, side, l).price
           up == Improvement(m, "buy")
           down == Improvement(m, "sell")
<1>1. /\ s \in Nat /\ price \in Int
      /\ 2000000 * price <= 1000000 * s + s * x + 1000000 /\ 2000000 * price >= 1000000 * s + s * x - 1000000
  BY GeneratedPrice, SMT
<1>2. skew \in Int /\ up \in 0..100 /\ down \in -100..0
  BY SkewInt, Improved, SMT
<1>3. PICK half, reach \in Nat :
        /\ LevelSpread(c, m, l) = 2 * half /\ 2 * half >= c.minSpread
        /\ reach >= 2 * half /\ (reach = 2 * half \/ reach = 100)
        /\ Rate(c, m, "buy", l) = IF -half - skew + up <= reach THEN -half - skew + up ELSE reach
        /\ Rate(c, m, "sell", l) = IF half - skew + down >= -reach THEN half - skew + down ELSE -reach
  BY RateParts, SMT
<1>4. s >= 9 /\ c.minSpread > 100 /\ 2 * half - skew <= 250000 /\ 2 * half + skew <= 250000
  <2> DEFINE k == c.minSpread
             t == c.threshold
             spread == LevelSpread(c, m, l)
             room == k - 100 - 3 * t
  <2>1. k \in Nat /\ t \in Nat /\ spread \in Nat /\ spread >= k /\ spread = 2 * half
    BY <1>3, ConfigFields, SpreadBounds
  <2>2. s * room > 2000000 /\ room = k - 100 - 3 * t /\ 4 * (spread + Magnitude(skew)) <= 1000000
    BY SMT
  <2> HIDE DEF s, skew, k, t, spread, room
  <2>3. spread - skew <= 250000 /\ spread + skew <= 250000 /\ spread <= 250000
    BY <1>2, <2>1, <2>2, SMT DEF Magnitude
  <2>4. room \in Int /\ room <= 250000
    BY <2>1, <2>2, <2>3, SMT
  <2>5. s * room <= s * 250000
    BY <1>1, <2>4, TimesMonotone, SMT
  <2>6. room <= 0 => s * room <= s * 0
    BY <1>1, <2>4, TimesMonotone, SMT
  <2>7. s >= 9 /\ room > 0
    BY <1>1, <2>2, <2>4, <2>5, <2>6, SMT
  <2> QED BY <2>1, <2>2, <2>3, <2>7, SMT DEF k
<1>5. c.minSpread \in Nat
  BY ConfigFields
<1>6. x \in Int /\ x <= 250000 /\ x >= -250000
  <2>1. CASE side = "buy"
    BY <1>2, <1>3, <1>4, <1>5, <2>1, SMT
  <2>2. CASE side = "sell"
    BY <1>2, <1>3, <1>4, <1>5, <2>2, SMT
  <2> QED BY <2>1, <2>2, SMT DEF QuoteSides
<1> HIDE DEF s, skew, x, price, up, down
<1>7. s * x <= s * 250000 /\ s * (-250000) <= s * x /\ s * x \in Int
  BY <1>1, <1>6, TimesMonotone, SMT
<1>8. price > 0 /\ 8 * price <= 5 * s + 4
  BY <1>1, <1>4, <1>7, SMT
<1> QED BY <1>1, <1>4, <1>8, SMT DEF Near, s, price

LEMMA DesiredNear ==
  ASSUME NEW c \in Configs, NEW m \in Markets, NEW side \in QuoteSides, NEW l \in ActiveLevels(c),
         Twice(m) * (c.minSpread - 100 - 3 * c.threshold) > 2000000,
         4 * (LevelSpread(c, m, l) + Magnitude(Skew(c, m))) <= 1000000
  PROVE  Near(m, Desired(c, m, side, l).price)
<1> DEFINE s == Twice(m)
           buyAt == Generated(c, m, "buy", l).price
           sellAt == Generated(c, m, "sell", l).price
           low == Round(m.book[2] * 999999, 1000000)
           high == Round(m.book[1] * 1000001, 1000000)
           buy == Desired(c, m, "buy", l).price
           sell == Desired(c, m, "sell", l).price
           b == m.book[1]
           a == m.book[2]
<1>1. Near(m, buyAt) /\ Near(m, sellAt) /\ s >= 9
  BY GeneratedNear, SMT DEF QuoteSides
<1>2. b \in Nat \ {0} /\ a \in Nat \ {0} /\ b < a /\ s = b + a
  BY MarketFields DEF Twice
<1>3. /\ buy \in Int /\ sell \in Int /\ buy <= buyAt /\ sell >= sellAt
      /\ (buy = buyAt \/ buy = low) /\ (sell = sellAt \/ sell = high)
  BY PressedQuote, SMT
<1>4. a * 999999 \in Int /\ b * 1000001 \in Int
  BY <1>2, SMT
<1>5. low \in Int /\ 1000000 * low >= a * 999999 - 500000
  BY <1>4, RoundedPrices, SMT
<1>6. high \in Int /\ 1000000 * high <= b * 1000001 + 500000
  BY <1>4, RoundedPrices, SMT
<1> HIDE DEF s, buyAt, sellAt, low, high, buy, sell, b, a
<1>7. buyAt \in Int /\ buyAt > 0 /\ 8 * buyAt <= 5 * s + 4 /\ sellAt \in Int /\ sellAt > 0 /\ 8 * sellAt <= 5 * s + 4
  BY <1>1, SMT DEF Near, s
<1>8. low > 0 /\ 8 * high <= 5 * s + 4
  BY <1>2, <1>5, <1>6, SMT
<1>9. buy > 0 /\ 8 * buy <= 5 * s + 4 /\ sell > 0 /\ 8 * sell <= 5 * s + 4
  BY <1>2, <1>3, <1>5, <1>6, <1>7, <1>8, SMT
<1> QED BY <1>3, <1>9, SMT DEF Near, QuoteSides, s, buy, sell

\* An order _quote_drifted keeps for a quote, or places for it.
Fits(c, order, quote) ==
  /\ order.quantity = quote.quantity
  /\ \/ order.price = quote.price
     \/ Magnitude(quote.price - order.price) * Million < c.threshold * Magnitude(quote.price)

\* A kept order's price is within the threshold of the quote it stands for.
LEMMA FitsWithin ==
  ASSUME NEW t \in Nat, NEW p \in Int, NEW d \in Int, d > 0,
         p = d \/ Magnitude(d - p) * 1000000 < t * Magnitude(d)
  PROVE  /\ t * d \in Nat
         /\ 1000000 * p <= 1000000 * d + t * d /\ 1000000 * p >= 1000000 * d - t * d
<1>1. t * d \in Nat
  OBVIOUS
<1>2. Magnitude(d) = d
  BY DEF Magnitude
<1>3. p = d \/ Magnitude(d - p) * 1000000 < t * d
  BY <1>2, SMT
<1> QED BY <1>1, <1>3, SMT DEF Magnitude

\* The orders of one refresh do not cross, new or kept.
LEMMA OrdersApart ==
  ASSUME NEW c \in Configs, NEW m \in Markets, NEW i \in ActiveLevels(c), NEW j \in ActiveLevels(c),
         Twice(m) * (c.minSpread - 100 - 3 * c.threshold) > 2000000,
         \A l \in ActiveLevels(c) : 4 * (LevelSpread(c, m, l) + Magnitude(Skew(c, m))) <= 1000000,
         NEW p, p.price \in Int, Fits(c, p, Desired(c, m, "buy", i)),
         NEW q, q.price \in Int, Fits(c, q, Desired(c, m, "sell", j))
  PROVE  p.price < q.price
<1> DEFINE s == Twice(m)
           buyAt == Desired(c, m, "buy", i).price
           sellAt == Desired(c, m, "sell", j).price
           t == c.threshold
           k == c.minSpread
           x == p.price
           y == q.price
<1>1. k \in Nat /\ t \in Nat
  BY ConfigFields
<1>2. Near(m, buyAt) /\ Near(m, sellAt)
  BY DesiredNear, SMT DEF QuoteSides
<1>3. s \in Nat /\ s >= 9 /\ s * (k - 100 - 3 * t) > 2000000
  BY GeneratedPrice, GeneratedNear, SMT DEF QuoteSides
<1>4. buyAt \in Int /\ sellAt \in Int /\ 2000000 * (sellAt - buyAt) >= s * (k - 100) - 2000000
  BY DesiredApart, SMT
<1>5. /\ x \in Int /\ (x = buyAt \/ Magnitude(buyAt - x) * 1000000 < t * Magnitude(buyAt))
      /\ y \in Int /\ (y = sellAt \/ Magnitude(sellAt - y) * 1000000 < t * Magnitude(sellAt))
  BY SMT DEF Fits, Million
<1> HIDE DEF s, buyAt, sellAt, t, k, x, y
<1>6. buyAt > 0 /\ sellAt > 0 /\ 8 * buyAt <= 5 * s + 4 /\ 8 * sellAt <= 5 * s + 4
  BY <1>2, SMT DEF Near, s
<1>7. t * buyAt \in Nat /\ 1000000 * x <= 1000000 * buyAt + t * buyAt
  BY <1>1, <1>4, <1>5, <1>6, FitsWithin, SMT
<1>8. t * sellAt \in Nat /\ 1000000 * y >= 1000000 * sellAt - t * sellAt
  BY <1>1, <1>4, <1>5, <1>6, FitsWithin, SMT
<1>9. 2 * (t * buyAt) + 2 * (t * sellAt) <= 3 * (t * s)
  <2>1. 2 * (buyAt + sellAt) \in Int /\ 3 * s \in Int /\ 2 * (buyAt + sellAt) <= 3 * s
    BY <1>3, <1>4, <1>6, SMT
  <2>2. t * (2 * (buyAt + sellAt)) <= t * (3 * s)
    BY <1>1, <2>1, TimesMonotone
  <2>3. t * (2 * (buyAt + sellAt)) = 2 * (t * buyAt) + 2 * (t * sellAt) /\ t * (3 * s) = 3 * (t * s)
    BY <1>1, <1>3, <1>4
  <2> QED BY <2>2, <2>3
<1>10. s * (k - 100 - 3 * t) = s * (k - 100) - 3 * (t * s) /\ s * (k - 100) \in Int /\ t * s \in Int
  BY <1>1, <1>3
<1>11. 1000000 * y > 1000000 * x
  BY <1>3, <1>4, <1>5, <1>7, <1>8, <1>9, <1>10, SMT
<1>12. x < y
  BY <1>5, <1>11, SMT
<1> QED BY <1>12 DEF x, y

\* min_order_size and max_order_size hold for every level, under pressure too.
LEMMA DesiredSize ==
  ASSUME NEW c \in Configs, NEW m \in Markets, NEW side \in QuoteSides, NEW l \in ActiveLevels(c)
  PROVE  Desired(c, m, side, l).quantity \in c.minSize..c.maxSize
<1> DEFINE power == c.sizeMultiplier ^ (l - 1)
           scale == 100 ^ (l - 1)
           size == Quantity(c, l)
           p == m.pressure
<1>1. power \in Nat /\ scale \in Nat \ {0}
  BY ExactAssumption
<1>2. /\ c.minSize \in Nat \ {0} /\ c.maxSize \in Nat /\ c.minSize <= c.maxSize /\ c.baseSize \in Nat
      /\ p \in Nat /\ p >= 100
  BY ConfigFields, MarketFields
<1>3. size = Min({c.maxSize, Max({c.minSize, (c.baseSize * power) \div scale})})
  BY DEF Quantity
<1> HIDE DEF power, scale, size, p
<1>4. c.baseSize * power \in Nat
  BY <1>1, <1>2
<1>5. (c.baseSize * power) \div scale \in Nat
  BY <1>1, <1>4, Ratio
<1>6. size \in c.minSize..c.maxSize
  BY <1>2, <1>3, <1>5, Clamped
<1>7. CASE p = 100
  <2>1. Desired(c, m, side, l).quantity = size
    BY <1>7 DEF Desired, Pressed, Generated, size, p
  <2> QED BY <1>6, <2>1
<1>8. CASE p # 100
  <2> DEFINE larger == (size * p) \div 100
  <2>1. Desired(c, m, side, l).quantity = Min({c.maxSize, larger})
    BY <1>8 DEF Desired, Pressed, Generated, size, p
  <2>2. size * p \in Nat /\ size * p >= size * 100
    BY <1>2, <1>6, TimesMonotone
  <2>3. larger \in Nat /\ size * p < 100 * larger + 100
    BY <2>2, Ratio
  <2> HIDE DEF larger
  <2>4. larger >= size
    BY <1>2, <1>6, <2>2, <2>3
  <2>5. Min({c.maxSize, larger}) = IF c.maxSize <= larger THEN c.maxSize ELSE larger
    BY <1>2, <2>3, SmallerOf
  <2> QED BY <1>2, <1>6, <2>1, <2>3, <2>4, <2>5
<1> QED BY <1>7, <1>8

\* A quote of either side is an order: a price and a size.
PlacedOrders == [price : Int, quantity : Int]

LEMMA DesiredOrder ==
  ASSUME NEW c \in Configs, NEW m \in Markets, NEW side \in QuoteSides, NEW l \in ActiveLevels(c)
  PROVE  Desired(c, m, side, l) \in PlacedOrders
<1> DEFINE quote == Desired(c, m, side, l)
<1>1. quote.price \in Int
  BY PressedQuote, SMT DEF QuoteSides
<1>2. quote.quantity \in Int
  BY DesiredSize, ConfigFields
<1>3. quote = [price |-> quote.price, quantity |-> quote.quantity]
  BY DEF Desired, Pressed, Generated
<1> QED BY <1>1, <1>2, <1>3 DEF PlacedOrders

-----------------------------------------------------------------------------
\* After a refresh every paper order fits the quote of its place.
WorkingFits ==
  fresh => \A s \in QuoteSides, l \in Levels :
             working[s][l] # NoOrder =>
               l \in ActiveLevels(config) /\ Fits(config, working[s][l], Desired(config, market, s, l))

\* What the venue was sent has the price of a quote: the client's rounding finds
\* nothing left to round.
SentAsQuoted ==
  fresh => \A q \in sent : \E l \in ActiveLevels(config) : q.price = Desired(config, market, q.side, l).price

QuotesInv ==
  /\ config \in Configs /\ market \in Markets
  /\ working \in [QuoteSides -> [Levels -> PlacedOrders]]
  /\ (live => working = EmptyLadder) /\ (~live => sent = {})
  /\ \A q \in sent : q.side \in QuoteSides
  /\ WorkingFits /\ SentAsQuoted

LEMMA EmptyLadderTyped == EmptyLadder \in [QuoteSides -> [Levels -> PlacedOrders]]
BY DEF EmptyLadder, NoOrder, PlacedOrders

LEMMA QuotesStart == QuoteInit => QuotesInv
BY EmptyLadderTyped DEF QuoteInit, QuotesInv, WorkingFits, SentAsQuoted

\* _sync_paper_ladder: what stays and what replaces it fits the new quote.
LEMMA SyncedFits ==
  ASSUME QuotesInv, NEW m \in Markets, NEW s \in QuoteSides, NEW l \in Levels
  PROVE  /\ Synced(config, m, s, l) \in PlacedOrders
         /\ Synced(config, m, s, l) # NoOrder =>
              l \in ActiveLevels(config) /\ Fits(config, Synced(config, m, s, l), Desired(config, m, s, l))
<1> DEFINE old == working[s][l]
           quote == Desired(config, m, s, l)
<1>1. config \in Configs /\ old \in PlacedOrders
  BY DEF QuotesInv
<1>2. CASE l \notin ActiveLevels(config)
  BY <1>2 DEF Synced, NoOrder, PlacedOrders
<1>3. CASE l \in ActiveLevels(config) /\ old # NoOrder /\ ~Drifted(config, old, quote)
  <2>1. Synced(config, m, s, l) = old
    BY <1>3 DEF Synced
  <2>2. quote \in PlacedOrders
    BY <1>1, <1>3, DesiredOrder
  <2>3. quote.price \in Int /\ old.price \in Int /\ config.threshold \in Nat
    BY <1>1, <2>2, ConfigFields DEF PlacedOrders
  <2> HIDE DEF old, quote
  <2>4. /\ ~(Magnitude(quote.price - old.price) * Million >= config.threshold * Magnitude(quote.price))
        /\ quote.quantity = old.quantity
    BY <1>3 DEF Drifted
  <2>5. Magnitude(quote.price - old.price) \in Int /\ Magnitude(quote.price) \in Int
    BY <2>3 DEF Magnitude
  <2>6. /\ Magnitude(quote.price - old.price) * Million \in Int
        /\ config.threshold * Magnitude(quote.price) \in Int
    BY <2>3, <2>5, SMT DEF Million
  <2>7. Magnitude(quote.price - old.price) * Million < config.threshold * Magnitude(quote.price)
    BY <2>4, <2>6
  <2>8. Fits(config, old, quote)
    BY <2>4, <2>7 DEF Fits
  <2> QED BY <1>1, <1>3, <2>1, <2>8 DEF quote
<1>4. CASE l \in ActiveLevels(config) /\ ~(old # NoOrder /\ ~Drifted(config, old, quote))
  <2>1. Synced(config, m, s, l) = quote
    BY <1>4 DEF Synced
  <2>2. quote \in PlacedOrders /\ Fits(config, quote, quote)
    BY <1>1, <1>4, DesiredOrder DEF Fits
  <2> QED BY <1>4, <2>1, <2>2
<1> QED BY <1>2, <1>3, <1>4

LEMMA RefreshKeeps ==
  ASSUME QuotesInv, NEW m \in Markets, RefreshQuotes(m)
  PROVE  QuotesInv'
<1>1. /\ market' = m /\ config' = config /\ live' = live /\ config \in Configs
      /\ working \in [QuoteSides -> [Levels -> PlacedOrders]]
      /\ (live => working = EmptyLadder) /\ (~live => sent = {}) /\ \A q \in sent : q.side \in QuoteSides
  BY DEF RefreshQuotes, QuotesInv
<1>2. CASE ~live
  <2>1. working' = [s \in QuoteSides |-> [l \in Levels |-> Synced(config, m, s, l)]] /\ sent' = sent
    BY <1>2 DEF RefreshQuotes
  <2>2. \A s \in QuoteSides, l \in Levels : working'[s][l] = Synced(config, m, s, l)
    BY <2>1
  <2>3. working' \in [QuoteSides -> [Levels -> PlacedOrders]]
    BY <2>1, SyncedFits
  <2>4. WorkingFits'
    <3> SUFFICES ASSUME NEW s \in QuoteSides, NEW l \in Levels, working'[s][l] # NoOrder
                 PROVE  l \in ActiveLevels(config') /\ Fits(config', working'[s][l], Desired(config', market', s, l))
      BY DEF WorkingFits
    <3>1. working'[s][l] = Synced(config, m, s, l)
      BY <2>2
    <3>2. l \in ActiveLevels(config) /\ Fits(config, working'[s][l], Desired(config, m, s, l))
      BY <3>1, SyncedFits
    <3> QED BY <1>1, <3>2
  <2>5. SentAsQuoted'
    BY <1>1, <1>2, <2>1 DEF SentAsQuoted
  <2> QED BY <1>1, <1>2, <2>1, <2>3, <2>4, <2>5 DEF QuotesInv
<1>3. CASE live
  <2> DEFINE quotes == {<<s, Desired(config, m, s, l)>> : s \in QuoteSides, l \in ActiveLevels(config)}
  <2>1. /\ sent' = {Labelled(q[1], Applied(q[2])) : q \in {p \in quotes : Precise(p[2])}}
        /\ working' = working
    BY <1>3 DEF RefreshQuotes
  <2>2. ASSUME NEW x \in sent'
        PROVE  x.side \in QuoteSides /\ \E l \in ActiveLevels(config) : x.price = Desired(config, m, x.side, l).price
    <3>1. PICK q \in quotes : Precise(q[2]) /\ x = Labelled(q[1], Applied(q[2]))
      BY <2>1
    <3>2. PICK s \in QuoteSides, l \in ActiveLevels(config) : q = <<s, Desired(config, m, s, l)>>
      BY <3>1
    <3>3. x.side = s /\ x.price = QuantizeDown(Desired(config, m, s, l).price, PriceTick)
      BY <3>1, <3>2 DEF Labelled, Applied
    <3>4. QuantizeDown(Desired(config, m, s, l).price, PriceTick) = Desired(config, m, s, l).price
      BY <3>1, <3>2 DEF Precise
    <3> QED BY <3>3, <3>4
  <2>3. WorkingFits'
    <3>1. \A s \in QuoteSides, l \in Levels : working'[s][l] = NoOrder
      BY <1>1, <1>3, <2>1 DEF EmptyLadder
    <3> QED BY <3>1 DEF WorkingFits
  <2>4. SentAsQuoted'
    BY <1>1, <2>2 DEF SentAsQuoted
  <2> QED BY <1>1, <1>3, <2>1, <2>2, <2>3, <2>4 DEF QuotesInv
<1> QED BY <1>2, <1>3

LEMMA QuotesStep == QuotesInv /\ [QuoteNext]_quoteVars => QuotesInv'
<1> SUFFICES ASSUME QuotesInv, [QuoteNext]_quoteVars PROVE QuotesInv'
  OBVIOUS
<1>1. CASE UpdateQuoteSettings
  BY <1>1 DEF UpdateQuoteSettings, QuotesInv, WorkingFits, SentAsQuoted
<1>2. ASSUME NEW m \in Markets, RefreshQuotes(m) PROVE QuotesInv'
  BY <1>2, RefreshKeeps
<1>3. CASE UNCHANGED quoteVars
  BY <1>3 DEF quoteVars, QuotesInv, WorkingFits, SentAsQuoted
<1> QED BY <1>1, <1>2, <1>3 DEF QuoteNext

\* The invariant says enough.
LEMMA QuotesInvSound == QuotesInv => QuotesSound
<1> SUFFICES ASSUME QuotesInv PROVE QuotesSound
  OBVIOUS
<1>1. config \in Configs /\ market \in Markets /\ working \in [QuoteSides -> [Levels -> PlacedOrders]]
  BY DEF QuotesInv
<1>2. NoSelfCross
  <2> SUFFICES ASSUME fresh, Roomy, NEW i \in Levels, NEW j \in Levels,
                      working["buy"][i] # NoOrder, working["sell"][j] # NoOrder
               PROVE  working["buy"][i].price < working["sell"][j].price
    BY DEF NoSelfCross
  <2> DEFINE p == working["buy"][i]
             q == working["sell"][j]
  <2>1. /\ i \in ActiveLevels(config) /\ Fits(config, p, Desired(config, market, "buy", i))
        /\ j \in ActiveLevels(config) /\ Fits(config, q, Desired(config, market, "sell", j))
    BY DEF QuotesInv, WorkingFits, QuoteSides
  <2>2. p.price \in Int /\ q.price \in Int
    BY <1>1 DEF PlacedOrders, QuoteSides
  <2>3. /\ Twice(market) * (config.minSpread - 100 - 3 * config.threshold) > 2000000
        /\ \A l \in ActiveLevels(config) : 4 * (LevelSpread(config, market, l) + Magnitude(Skew(config, market))) <= 1000000
    BY SMT DEF Roomy, Twice, Million
  <2> HIDE DEF p, q
  <2>4. p.price < q.price
    BY <1>1, <2>1, <2>2, <2>3, OrdersApart, SMT
  <2> QED BY <2>4 DEF p, q
<1>3. SizesAllowed
  <2> SUFFICES ASSUME fresh, NEW s \in QuoteSides, NEW l \in Levels, working[s][l] # NoOrder
               PROVE  working[s][l].quantity \in config.minSize..config.maxSize
    BY DEF SizesAllowed
  <2>1. l \in ActiveLevels(config) /\ working[s][l].quantity = Desired(config, market, s, l).quantity
    BY DEF QuotesInv, WorkingFits, Fits
  <2> QED BY <1>1, <2>1, DesiredSize
<1>4. Reverting
  <2> SUFFICES ASSUME NEW l \in ActiveLevels(config)
               PROVE  LET buyAt  == Generated(config, market, "buy", l).price
                          sellAt == Generated(config, market, "sell", l).price
                          centre == buyAt + sellAt - market.book[1] - market.book[2]
                          excess == BaseRatio(market) - config.target
                      IN  /\ excess * config.intensity >= 50 => centre <= 2
                          /\ excess * config.intensity <= -50 => centre >= -2
    BY DEF Reverting
  <2> DEFINE buyAt == Generated(config, market, "buy", l).price
             sellAt == Generated(config, market, "sell", l).price
             a == market.book[1]
             b == market.book[2]
             lean == (BaseRatio(market) - config.target) * config.intensity
  <2>1. buyAt \in Int /\ sellAt \in Int
    BY <1>1, GeneratedPrice, SMT DEF QuoteSides
  <2>2. a \in Int /\ b \in Int
    BY <1>1, MarketFields
  <2>3. /\ lean >= 50 => buyAt + sellAt - (a + b) <= 2
        /\ lean <= -50 => buyAt + sellAt - (a + b) >= -2
    BY <1>1, QuotesLean DEF Twice
  <2> HIDE DEF buyAt, sellAt, a, b, lean
  <2>4. buyAt + sellAt - (a + b) = buyAt + sellAt - a - b
    BY <2>1, <2>2
  <2>5. (lean >= 50 => buyAt + sellAt - a - b <= 2) /\ (lean <= -50 => buyAt + sellAt - a - b >= -2)
    BY <2>3, <2>4
  <2> QED BY <2>5 DEF buyAt, sellAt, a, b, lean
<1>5. SentUncrossed
  <2> SUFFICES ASSUME fresh, Twice(market) * (config.minSpread - 100) > 2 * Million,
                      NEW p \in sent, NEW q \in sent, p.side = "buy", q.side = "sell"
               PROVE  p.price < q.price
    BY DEF SentUncrossed, Twice
  <2>1. PICK i \in ActiveLevels(config) : p.price = Desired(config, market, "buy", i).price
    BY DEF QuotesInv, SentAsQuoted
  <2>2. PICK j \in ActiveLevels(config) : q.price = Desired(config, market, "sell", j).price
    BY DEF QuotesInv, SentAsQuoted
  <2> DEFINE x == p.price
             y == q.price
             room == Twice(market) * (config.minSpread - 100)
  <2>3. x \in Int /\ y \in Int /\ 2000000 * (y - x) >= room - 2000000
    BY <1>1, <2>1, <2>2, DesiredApart, SMT
  <2>4. room > 2000000 /\ room \in Int
    <3>1. config.minSpread \in Nat /\ Twice(market) \in Nat
      BY <1>1, ConfigFields, MarketFields DEF Twice
    <3> QED BY <3>1, SMT DEF Million
  <2> HIDE DEF x, y, room
  <2>5. x < y
    BY <2>3, <2>4, SMT
  <2> QED BY <2>5 DEF x, y
<1> QED BY <1>2, <1>3, <1>4, <1>5 DEF QuotesSound

\* The quotes of a refresh, for every valid configuration and market: working orders
\* do not cross and keep to the sizes, quotes lean towards the inventory target, and
\* orders sent to the venue do not cross.
THEOREM QuotesSoundTheorem == QuoteSpec => []QuotesSound
<1>1. QuoteSpec => []QuotesInv
  BY QuotesStart, QuotesStep, PTL DEF QuoteSpec
<1> QED BY <1>1, QuotesInvSound, PTL
=============================================================================
