---------------------------- MODULE MCPaperEngine ---------------------------
(* Instances of PaperEngine for TLC: one order. *)
EXTENDS PaperEngine, TLC

CONSTANTS o1, tick, consumer

OneId == (o1 :> "a")
OneSize == (o1 :> 2)
OneSide == (o1 :> "sell")
=============================================================================
