-------------------------- MODULE MCTradingControl --------------------------
(***************************************************************************)
(* Instances of TradingControl for TLC.  The orders are interchangeable.   *)
(***************************************************************************)
EXTENDS TradingControl, TLC

Symmetry == Permutations(Orders)
=============================================================================
