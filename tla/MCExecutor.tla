----------------------------- MODULE MCExecutor -----------------------------
(***************************************************************************)
(* The exit engine alone, for permits to reduce by half and legs that      *)
(* share a debt: the comet's, with and without a collateral, and one       *)
(* Morpho market's under two assets.                                       *)
(***************************************************************************)
EXTENDS Executor

Repaying(market, asset) == [market : {market}, asset : {asset}, repay : {1, 1000}, withdraw : {0}]
ReduceLegs == {<<a, b>> : a \in Repaying("comet", "zero"), b \in Repaying("cometEth", "eth")}
           \union {<<a, b>> : a \in Repaying("morpho", "eth"), b \in Repaying("morpho", "btc")}
           \union {<<a>> : a \in Repaying("comet", "zero") \union Repaying("morpho", "eth")}

ReduceCalls == [permit : {[kind |-> 2, mask |-> 15, trigger |-> 0, repay |-> 5000, slip |-> 500]},
                legs : ReduceLegs]

ReduceWorlds ==
  {[halted |-> FALSE, wallet |-> [usdc |-> 9, eth |-> 9],
    pos |-> [comet    |-> [variable |-> v, stable |-> 0, collateral |-> 0],
             cometEth |-> [variable |-> 0, stable |-> 0, collateral |-> 9],
             morpho   |-> [variable |-> v, stable |-> 0, collateral |-> 9]]] : v \in 1 .. 8}

Protocols   == [comet |-> 2, cometEth |-> 2, morpho |-> 3]
Debts       == [comet |-> "usdc", cometEth |-> "usdc", morpho |-> "eth"]
Collaterals == [comet |-> "usdc", cometEth |-> "eth", morpho |-> "eth"]
Owing       == [comet |-> "comet", cometEth |-> "comet", morpho |-> "morpho"]

Spec == Init /\ [][Next]_vars
=============================================================================
