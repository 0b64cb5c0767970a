---------------------------- MODULE PaperLadder -----------------------------
(***************************************************************************)
(* The quote ladder of one symbol in paper mode: _sync_paper_ladder and    *)
(* the loop of _submit_quotes in market_making/runtime.py, while the       *)
(* consumer task fills, cancels and places orders of its own.              *)
(*                                                                         *)
(* A quote is the ladder key it is for and a number that stands for the    *)
(* uuid in its client order id.  Ages, prices and sizes are data: which    *)
(* resting orders are too old or have drifted from the wanted quote is a   *)
(* free choice at every synchronisation.                                   *)
(***************************************************************************)
EXTENDS Naturals

CONSTANTS
    Keys,   \* ladder keys, symbol:side:level
    NoKey,  \* _order_ladder_key of an emergency close order: None
    Gens    \* numbers that tell the client order ids of one key apart

ASSUME LadderAssumption == NoKey \notin Keys

Ids == [key : Keys \cup {NoKey}, gen : Gens]

VARIABLES
    open,     \* client order ids in paper.open_orders
    phase,    \* "idle", "sync" or "submit": where the tick is in _submit_quotes
    desired,  \* keys of the ladder the tick wants
    drop,     \* orders _sync_paper_ladder has still to cancel
    place,    \* place[i]: how often id i is still in the list of quotes to submit
    foreign,  \* orders the consumer task has placed since the synchronisation
    made      \* history: PaperOrder objects created under each id

vars == <<open, phase, desired, drop, place, foreign, made>>

TypeOK ==
    /\ open \subseteq Ids
    /\ phase \in {"idle", "sync", "submit"}
    /\ desired \subseteq Keys
    /\ drop \subseteq Ids
    /\ place \in [Ids -> 0..2]
    /\ foreign \subseteq Ids
    /\ made \in [Ids -> Nat]

Init ==
    /\ open = {} /\ phase = "idle" /\ desired = {} /\ drop = {} /\ foreign = {}
    /\ place = [i \in Ids |-> 0] /\ made = [i \in Ids |-> 0]

-----------------------------------------------------------------------------

KeysOf(S) == {i.key : i \in S}

\* A new client order id for key k: none that is still referred to.
Unused(k) == {i \in Ids : i.key = k /\ i \notin open \cup drop /\ place[i] = 0}

\* Mutant of Keepable: orders outside the wanted ladder are left alone.
KeepableAnywhere(D) == {K \in SUBSET open : \A i, j \in K : i.key = j.key => i = j}

\* What _sync_paper_ladder leaves alone: of the orders of a wanted key the newest,
\* if it is neither stale nor drifted.
Keepable(D) == {K \in SUBSET open : /\ KeysOf(K) \subseteq D
                                    /\ \A i, j \in K : i.key = j.key => i = j}

\* Mutant of Copies: the key of a kept order stays in desired_by_key.
CopiesOfKeptToo(k, K) == IF k \in KeysOf(open) \ KeysOf(K) THEN 2 ELSE 1

\* How often the wanted quote of key k is in the list _sync_paper_ladder returns.
\* A replaced quote is appended where its order is cancelled and, because its
\* key is not popped from desired_by_key, again by the final extend.
Copies(k, K) == IF k \in KeysOf(K) THEN 0 ELSE IF k \in KeysOf(open) THEN 2 ELSE 1

\* _submit_quotes up to the first await: the whole plan is made on one copy of
\* open_orders.
SyncLadder ==
    /\ phase = "idle" /\ phase' = "sync"
    /\ desired' \in SUBSET Keys \ {{}}
    /\ \E K \in Keepable(desired') :
       \E quote \in {q \in [desired' -> Ids] : \A k \in desired' : q[k] \in Unused(k)} :
          /\ drop' = open \ K
          /\ place' = [i \in Ids |-> IF i.key \in desired' /\ quote[i.key] = i THEN Copies(i.key, K) ELSE 0]
          /\ made' = [i \in Ids |-> IF i.key \in desired' /\ quote[i.key] = i THEN 0 ELSE made[i]]
    /\ foreign' = {}
    /\ UNCHANGED open

\* _cancel_paper_lifecycle_order
SyncCancel(i) ==
    /\ phase = "sync" /\ i \in drop
    /\ drop' = drop \ {i} /\ open' = open \ {i}
    /\ UNCHANGED <<phase, desired, place, foreign, made>>

SyncDone ==
    /\ phase = "sync" /\ drop = {} /\ phase' = "submit"
    /\ UNCHANGED <<open, desired, drop, place, foreign, made>>

\* One turn of the loop in _submit_quotes: paper.place_order, which replaces an
\* entry of the same client order id.
SubmitQuote(i) ==
    /\ phase = "submit" /\ place[i] > 0
    /\ place' = [place EXCEPT ![i] = @ - 1]
    /\ open' = open \cup {i}
    /\ made' = [made EXCEPT ![i] = @ + 1]
    /\ UNCHANGED <<phase, desired, drop, foreign>>

\* The risk engine or the canary controller refuses the quote.
RejectQuote(i) ==
    /\ phase = "submit" /\ place[i] > 0
    /\ place' = [place EXCEPT ![i] = @ - 1]
    /\ UNCHANGED <<open, phase, desired, drop, foreign, made>>

SubmitDone ==
    /\ phase = "submit" /\ \A i \in Ids : place[i] = 0
    /\ phase' = "idle"
    /\ UNCHANGED <<open, desired, drop, place, foreign, made>>

\* A database call of the tick raises and the tick is given up.
TickFails ==
    /\ phase # "idle" /\ phase' = "idle"
    /\ drop' = {} /\ place' = [i \in Ids |-> 0]
    /\ UNCHANGED <<open, desired, foreign, made>>

\* simulate_fills completes an order, or _cancel_all_orders cancels it.
OrderGone(i) ==
    /\ i \in open /\ open' = open \ {i}
    /\ UNCHANGED <<phase, desired, drop, place, foreign, made>>

\* _close_paper_positions: an order without ladder metadata.  Its remainder rests
\* like any other, its time in force is not looked at.
ClosePosition ==
    /\ \E i \in Unused(NoKey) :
          /\ open' = open \cup {i} /\ foreign' = foreign \cup {i}
          /\ made' = [made EXCEPT ![i] = 1]
    /\ UNCHANGED <<phase, desired, drop, place>>

TickStep ==
    \/ SyncLadder \/ SyncDone \/ SubmitDone
    \/ \E i \in Ids : SyncCancel(i) \/ SubmitQuote(i) \/ RejectQuote(i)

Next == TickStep \/ TickFails \/ ClosePosition \/ \E i \in Ids : OrderGone(i)

Spec == Init /\ [][Next]_vars

-----------------------------------------------------------------------------
(* Properties.                                                             *)

\* At no point of a tick do two orders rest at one level of the ladder: the
\* level's old order is cancelled before its successor is placed, whatever the
\* consumer task does in between and wherever a tick is given up.
OneOrderPerLevel == \A i, j \in open : (i.key = j.key /\ i.key # NoKey) => i = j

\* When the quotes are submitted, nothing rests outside the wanted ladder except
\* what the consumer task has placed since: levels that a new configuration
\* dropped and emergency close orders have been cancelled.
OutsideLadderGone == phase = "submit" => \A i \in open : i.key \in desired \/ i \in foreign

\* What the certification playbook expects of a replacement: one intended quote
\* becomes one order.
SubmittedOnce == \A i \in Ids : made[i] <= 1
=============================================================================
