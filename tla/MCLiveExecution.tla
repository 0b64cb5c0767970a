--------------------------- MODULE MCLiveExecution --------------------------
(* Instance of LiveExecution for TLC: one order. *)
EXTENDS LiveExecution, TLC

CONSTANT o1

OneSide == (o1 :> "sell")
OnePrice == (o1 :> 100)
=============================================================================
