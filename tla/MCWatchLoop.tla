---------------------------- MODULE MCWatchLoop ----------------------------
(* WatchLoop with small values for TLC: two levels of score that one       *)
(* profile tells apart and the other takes for within, so that the keys of *)
(* a wallet move and fail independently of each other.                     *)
EXTENDS WatchLoop

CONSTANTS w1, p1, p2

Levels   == {"middle", "high"}
Statuses == {"within", "approaching", "outside"}
Profiles == {"conservative", "moderate"}

Thresholds ==
  [conservative |-> [middle |-> "approaching", high |-> "outside"],
   moderate     |-> [middle |-> "within", high |-> "within"]]
============================================================================
