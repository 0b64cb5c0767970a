------------------------ MODULE ReconciliationReport ------------------------
(***************************************************************************)
(* One call of ReconciliationEngine.reconcile: the snapshots it is given,  *)
(* and what it reports about them.                                         *)
(***************************************************************************)
EXTENDS Reconciliation

CONSTANT SnapshotPairs   \* the exchange's and the internal snapshot of a call

\* The records of a snapshot as reconcile.py declares them, of the fields compared.
WellFormed(s) ==
  /\ s.balances \in Seq([asset : STRING, total : Int, available : Int])
  /\ s.positions \in Seq([symbol : STRING, asset : STRING, quantity : Int, notional : Int])
  /\ s.orders \in Seq([client_order_id : STRING, status : STRING, filled_quantity : Int])
  /\ s.fills \in Seq([trade_id : STRING])
  /\ \A p, q \in s.pnl : p = q /\ p \in [realized : Int, unrealized : Int, fees : Int]

ASSUME ReportAssumption ==
  /\ ToleranceAssumption
  /\ \A pair \in SnapshotPairs : WellFormed(pair[1]) /\ WellFormed(pair[2])

VARIABLES theirs, ours, mismatches, compared

reportVars == <<theirs, ours, mismatches, compared>>

ReportInit ==
  /\ \E pair \in SnapshotPairs : theirs = pair[1] /\ ours = pair[2]
  /\ mismatches = {} /\ compared = FALSE

ReportNext ==
  /\ ~compared /\ compared' = TRUE
  /\ mismatches' = Reconcile(theirs, ours)
  /\ UNCHANGED <<theirs, ours>>

ReportSpec == ReportInit /\ [][ReportNext]_reportVars

-----------------------------------------------------------------------------
(* Properties. *)

\* reconcile returns an empty list exactly when the two snapshots agree: no
\* difference in a compared field hides behind a tolerance, a duplicate or a
\* record that only one side has, and agreement is never reported as a mismatch.
CleanExactlyWhenEqual == compared => (mismatches = {} <=> Agree(theirs, ours))

\* It does not matter which side is called the exchange: the same keys are
\* reported, with the same severities.
Symmetric == compared => mismatches = Reconcile(ours, theirs)

\* ReconciliationEngine.reconcile finds nothing exactly when the snapshots agree
\* within the tolerances, and as much whichever side is called the exchange.
MismatchesExact == CleanExactlyWhenEqual /\ Symmetric
=============================================================================
