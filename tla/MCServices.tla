----------------------------- MODULE MCServices -----------------------------
(***************************************************************************)
(* The services with small values for TLC.                                 *)
(***************************************************************************)
EXTENDS Services, TLC

CONSTANTS
  r, q   \* requests, operators, reads, calls that overlap

Both == {r, q}
Interchangeable == Permutations(Both)

(* What a leg may name: (market, asset), and the amounts it may ask for,   *)
(* AMOUNT_FULL among them.                                                 *)
AaveUsdc == <<"aaveUsdc", "aaveUsdc">>
AaveEth  == <<"aaveEth", "aaveEth">>
Moon     == <<"moon", "moon">>
Comet    == <<"comet", "zero">>
CometEth == <<"cometEth", "eth">>
CometBtc == <<"cometBtc", "btc">>
Morpho   == <<"morpho", "eth">>
Morpho2  == <<"morpho", "btc">>
LegsFor(n, amounts) == [market : {n[1]}, asset : {n[2]}, repay : amounts, withdraw : amounts]

(* One leg of any market, or several that meet in a protocol, in a token,  *)
(* in one debt or in one collateral.                                       *)
Singles == {<<l>> : l \in UNION {LegsFor(n, {0, 1, 1000})
                                  : n \in {AaveUsdc, AaveEth, Moon, Comet, CometEth, Morpho}}}
Pairs   == UNION {LegsFor(n[1], {0, 1000}) \X LegsFor(n[2], {0, 1000})
                  : n \in {<<AaveEth, AaveUsdc>>, <<Morpho, AaveEth>>, <<CometEth, Moon>>,
                           <<Moon, Moon>>, <<Comet, CometBtc>>}}
Shared  == UNION {LegsFor(n[1], {1, 1000}) \X LegsFor(n[2], {1, 1000})
                  : n \in {<<CometEth, CometBtc>>, <<Morpho, Morpho2>>}}
Signed  == [kind : {0, 1}, mask : {15}, trigger : {0}, repay : {10000}, slip : {500}]
           \union [kind : {2}, mask : {15}, trigger : {0}, repay : {5000}, slip : {500}]

ExitCalls == [permit : Signed \union {Nothing}, legs : Singles \union Pairs \union Shared]

(* A debt with an odd half, one whose half is nothing, and none; a wallet  *)
(* that has enough and one that has not.                                   *)
ExitWorlds ==
  {[halted |-> h, wallet |-> [usdc |-> w, eth |-> w, btc |-> w],
    pos |-> [aaveUsdc |-> a, moon |-> [a EXCEPT !.stable = 0], aaveEth |-> b, morpho |-> b,
             comet |-> [b EXCEPT !.collateral = 0], cometEth |-> [b EXCEPT !.variable = 0],
             cometBtc |-> [a EXCEPT !.variable = 0, !.stable = 0]]]
   : h \in BOOLEAN, w \in {2, 9},
     a \in [variable : {0, 1, 3}, stable : {0, 2}, collateral : {0, 5}],
     b \in [variable : {0, 3}, stable : {0}, collateral : {0, 4}]}

(* Every kind, mask and trigger, and the fractions and slippages at the    *)
(* edges of what is accepted.                                              *)
AllDrafts == [kind : 0 .. 3, mask : {0, 1, 2, 4, 8, 15, 16, 24, 255}, trigger : {0, 1, 2},
              repay : {0, 1, 9999, 10000, 10001}, slip : {0, 500, 501}]

(* Two permits on one nonce, the second of the next epoch.                 *)
SharedNonce == [a |-> 1, b |-> 1]
Epochs      == [a |-> 0, b |-> 1]
Deadlines   == [a |-> 2, b |-> 3]

OneCard     == [c |-> 2]
ThreeHours  == [c |-> 3]
ShortLives  == [proof |-> 1, full |-> 2, readonly |-> 1]

(* The markets of an exit; the comet lends USDC on two collaterals.        *)
Protocols   == [aaveUsdc |-> 0, aaveEth |-> 0, moon |-> 1, comet |-> 2, cometEth |-> 2,
                cometBtc |-> 2, morpho |-> 3]
Debts       == [aaveUsdc |-> "usdc", aaveEth |-> "eth", moon |-> "eth", comet |-> "usdc",
                cometEth |-> "usdc", cometBtc |-> "usdc", morpho |-> "eth"]
Collaterals == [aaveUsdc |-> "usdc", aaveEth |-> "eth", moon |-> "eth", comet |-> "usdc",
                cometEth |-> "eth", cometBtc |-> "btc", morpho |-> "eth"]
Owing       == [m \in DOMAIN Protocols |-> IF Protocols[m] = 2 THEN "comet" ELSE m]

Fees        == [balancer |-> 0, morpho |-> 0, aave |-> 1]
LoanOrders  == [protocol : {"aave", "moonwell", "comet", "morpho"},
                source : {"balancer", "morpho", "aave"}, repay : {0, 1, 3},
                withdraw : {0, 1, 3, 4}, slip : {0, 500, 501}]
LoanWorlds  == [debt : {0, 2, 3}, coll : {2, 4, 6}, lender : {1, 9},
                bal : {[debt |-> 0, coll |-> 0], [debt |-> 1, coll |-> 1]}]
=============================================================================
