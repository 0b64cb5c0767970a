----------------------------- MODULE MarketData -----------------------------
(***************************************************************************)
(* The market data engine: the feed that reaches its handlers, and what    *)
(* they store.  The feed keeps its sequence numbers in memory and the      *)
(* store keeps rows of the session, so the two share no state: any step of *)
(* one may come between two steps of the other.                            *)
(***************************************************************************)
EXTENDS MarketDataFeed, MarketDataStore

MarketDataSpec == FeedSpec /\ StoreSpec

\* The market data engine: the order books a symbol's handler takes are a run of
\* sequence numbers without a hole, over every disconnect; and an insert of what
\* it stores raises only when the session was rolled back, or broke, between that
\* connector's lookup and its insert.
MarketDataWhole == NoSilentGap /\ FailuresExplained
=============================================================================
