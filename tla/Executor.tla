------------------------------ MODULE Executor ------------------------------
(***************************************************************************)
(* The exit engine of the executor contract (_exit in PanikExecutor.sol):  *)
(* for each leg repay from the owner's wallet, withdraw the collateral and *)
(* sell it for USDC, then sweep the USDC to the owner.  The owner calls it *)
(* (atomicExit), or anybody with the owner's permit (atomicExitFor), who   *)
(* then chooses the legs and their amounts.                                *)
(*                                                                         *)
(* One behaviour is one transaction.  A guard that fails is a revert: the  *)
(* behaviour has no next step, and its "done" is never reached.  Prices    *)
(* are one, so amounts are values.                                         *)
(*                                                                         *)
(* A leg names a protocol, an asset and, in its data, a comet or a Morpho  *)
(* market; what these select is its market here.  The legs of one call     *)
(* differ in (protocol, asset), which is not always the market: a comet's  *)
(* legs on different assets owe one debt, and Morpho does not look at the  *)
(* asset at all.                                                           *)
(***************************************************************************)
EXTENDS PermitScope, Sequences, FiniteSetsExt

CONSTANTS
  Market,      \* a reserve, an mToken, a Morpho market, a comet without
               \* an asset, or a comet with one of its collateral assets
  ProtocolOf, DebtToken, CollateralToken,   \* functions on Market
  Owes,        \* where a market's debt is: at the comet, else in itself
  NoAsset,     \* the zero address, which a leg on a comet may name
  Usdc,
  Calls,       \* the calls that are made: permits (or None) with legs
  Worlds,      \* the positions, wallets and halts they meet
  None,
  DeployBps,   \* _swapMinOutBpsByAsset: the floor of the owner's own exits
  MTokens,     \* mTokens to one unit of the underlying
  Stray        \* what the executor holds of each token, sent there by mistake

Token == {DebtToken[m] : m \in Market} \union {CollateralToken[m] : m \in Market} \union {Usdc}
Full  == 1000   \* AMOUNT_FULL, above every amount

VARIABLES
  stage,          \* how far the transaction is
  permit, legs,   \* the call: permit is None for the owner's own
  halted,         \* the protocols have no liquidity or are paused
  pos,            \* pos[m]: debts of both rate modes and collateral; a
                  \* comet's collaterals have none, the comet has nothing else
  wallet, held,   \* the owner's and the executor's balances
  due,            \* Aave actions still to run
  rest,           \* places of the other protocols' legs still to run
  before          \* history: positions and wallet when the call was made

call == <<permit, legs, halted, before>>
vars == <<stage, call, pos, wallet, held, due, rest>>

Lesser(a, b) == IF a < b THEN a ELSE b

Delegated == permit # None   \* ctx.permitFloor
Bps       == IF Delegated THEN permit.repay ELSE BpsDenominator

(* _computePermitAmountOutMinimum and _computeAmountOutMinimum.            *)
MinOut(amount) ==
  (amount * IF Delegated THEN BpsDenominator - permit.slip ELSE DeployBps) \div BpsDenominator

(* Mutant of capRepay: the signed fraction is not applied.                 *)
capNothing(amount, live) == amount

(* _capRepay: at most the signed fraction of the live debt.                *)
capRepay(amount, live) ==
  IF Bps >= BpsDenominator THEN amount ELSE Lesser(amount, (live * Bps) \div BpsDenominator)

(* _assertRepayFloor, _assertWithdrawFloor, _assertWorkDone.               *)
RepayFloor(planned, live)    == Delegated => planned >= capRepay(live, live)
WithdrawFloor(planned, live) == Delegated => planned >= live
WorkDone(acted)              == Delegated => acted

(* A leg withdraws, except that a comet's leg on the zero address does not *)
(* whatever it asks for (_processCometLeg).                                *)
Takes(l) == l.withdraw > 0 /\ ~(ProtocolOf[l.market] = CompoundV3 /\ l.asset = NoAsset)

(* What a leg is to repay in each rate mode, variable first, and to take,  *)
(* of what is there when it is planned.                                    *)
Plan(l) ==
  LET p == pos[Owes[l.market]]
      v == Lesser(p.variable, l.repay)
      s == Lesser(p.stable, l.repay - v)
  IN  [variable   |-> capRepay(v, p.variable),
       stable     |-> capRepay(s, p.stable),
       collateral |-> IF Takes(l) THEN Lesser(pos[l.market].collateral, l.withdraw) ELSE 0]

Repays(l) == Plan(l).variable + Plan(l).stable

FloorsMet(l) ==
  LET p == pos[Owes[l.market]]
  IN  /\ l.repay > 0 => /\ RepayFloor(Plan(l).variable, p.variable)
                        /\ RepayFloor(Plan(l).stable, p.stable)
      /\ Takes(l) => WithdrawFloor(Plan(l).collateral, pos[l.market].collateral)

Debt(p) == p.variable + p.stable

(* What collateral is worth: Moonwell's is in mTokens.                     *)
Freed(m, amount) == IF ProtocolOf[m] = Moonwell THEN amount \div MTokens ELSE amount

(* The markets that secure a market's debt: all of Aave's or Moonwell's,   *)
(* all of a comet, one of Morpho.                                          *)
AccountOf(m) ==
  {n \in Market : /\ ProtocolOf[n] = ProtocolOf[m]
                  /\ ProtocolOf[m] \in {AaveV3, Moonwell} \/ Owes[n] = Owes[m]}
AaveAccount == {m \in Market : ProtocolOf[m] = AaveV3}
DebtOf(account, ps)  == MapThenSumSet(LAMBDA m : Debt(ps[m]), account)
WorthOf(account, ps) == MapThenSumSet(LAMBDA m : Freed(m, ps[m].collateral), account)

(* The lending protocols' own rule, with a threshold of one.               *)
Covered(account, ps) == DebtOf(account, ps) <= WorthOf(account, ps)

(* LockChecker._isLegLocked, where halted is no cash, a freeze or a pause. *)
Locked(l) ==
  LET protocol == ProtocolOf[l.market]
      there    == pos[l.market].collateral
  IN  /\ halted
      /\ \/ protocol = AaveV3
         \/ protocol = Moonwell /\ there > 0
         \/ protocol = CompoundV3 /\ \/ Debt(pos[Owes[l.market]]) > 0
                                     \/ l.asset # NoAsset /\ there > 0

----------------------------------------------------------------------------
AaveLegs == {i \in 1 .. Len(legs) : ProtocolOf[legs[i].market] = AaveV3}

(* _validateUniqueLegs: two legs differ in their protocol or their asset,  *)
(* which need not tell their markets or their debts apart.                 *)
UniqueLegs ==
  \A i, j \in 1 .. Len(legs) :
    /\ ProtocolOf[legs[i].market] = ProtocolOf[legs[j].market]
    /\ legs[i].asset = legs[j].asset
    => i = j

(* The checks of the entry points and of _exit.  All Aave legs are planned *)
(* before any acts, and judged by their plans (_buildAavePosition).        *)
Begin ==
  /\ stage = "called"
  /\ legs # <<>>
  /\ Delegated =>
       contractScope(permit,
         {[protocol |-> ProtocolOf[legs[i].market], repay |-> legs[i].repay > 0,
           withdraw |-> legs[i].withdraw > 0] : i \in 1 .. Len(legs)})
  /\ UniqueLegs
  /\ \A i \in 1 .. Len(legs) : ~Locked(legs[i])
  /\ \A i \in AaveLegs : FloorsMet(legs[i])
                         /\ WorkDone(Repays(legs[i]) + Plan(legs[i]).collateral > 0)
  /\ due' = {d \in UNION {{[market |-> legs[i].market, side |-> side,
                            amount |-> Plan(legs[i])[side]]
                           : side \in {"variable", "stable", "collateral"}} : i \in AaveLegs}
               : d.amount > 0}
  /\ rest' = (1 .. Len(legs)) \ AaveLegs
  /\ stage' = "repay"
  /\ UNCHANGED <<call, pos, wallet, held>>

(* SequenceLib: variable debt in USDC, then in other tokens, then stable   *)
(* debt; withdrawals afterwards, the most valuable first.                  *)
Turn(d) == CASE d.side = "variable" /\ DebtToken[d.market] = Usdc -> 1
             [] d.side = "variable" /\ DebtToken[d.market] # Usdc -> 2
             [] d.side = "stable" -> 3
             [] d.side = "collateral" -> 4

Earlier(e, d) == Turn(e) < Turn(d) \/ (Turn(e) = 4 /\ Turn(d) = 4 /\ e.amount > d.amount)
First(d)      == d \in due /\ \A e \in due : ~Earlier(e, d)

(* _repayAaveDebtActions: pull from the wallet, which must have it.        *)
AaveRepay ==
  /\ stage = "repay"
  /\ \E d \in due :
       LET t == DebtToken[d.market]
       IN  /\ First(d) /\ Turn(d) < 4
           /\ wallet[t] >= d.amount
           /\ wallet' = [wallet EXCEPT ![t] = @ - d.amount]
           /\ pos' = [pos EXCEPT ![d.market][d.side] = @ - d.amount]
           /\ due' = due \ {d}
  /\ UNCHANGED <<stage, call, held, rest>>

(* assertHealthFactorImproved, if anything was repaid: an account without  *)
(* debt is at the maximum, one without collateral stays at zero.           *)
AaveCheck ==
  /\ stage = "repay"
  /\ \A d \in due : Turn(d) = 4
  /\ pos # before.pos => DebtOf(AaveAccount, pos) = 0 \/ WorthOf(AaveAccount, pos) > 0
  /\ stage' = "withdraw"
  /\ UNCHANGED <<call, pos, wallet, held, due, rest>>

(* What the executor gets in USDC for an amount of a token: itself, or     *)
(* what the market pays for it, which is no less than the floor.           *)
Sold(t, amount) == IF t = Usdc THEN {amount} ELSE MinOut(amount) .. amount

AaveWithdraw ==
  /\ stage = "withdraw"
  /\ \E d \in due : \E out \in Sold(CollateralToken[d.market], d.amount) :
       /\ First(d)
       /\ pos' = [pos EXCEPT ![d.market].collateral = @ - d.amount]
       /\ Covered(AaveAccount, pos')
       /\ held' = [held EXCEPT ![Usdc] = @ + out]
       /\ due' = due \ {d}
  /\ UNCHANGED <<stage, call, wallet, rest>>

----------------------------------------------------------------------------
(* The other protocols, leg by leg.                                        *)

(* Morpho: a whole debt is closed by shares, whose rounding may leave one  *)
(* unit of what was pulled.                                                *)
Leftover(l) ==
  IF /\ ProtocolOf[l.market] = MorphoBlue
     /\ l.repay = Full /\ Repays(l) > 0 /\ Repays(l) = Debt(pos[Owes[l.market]])
  THEN 0 .. 1 ELSE {0}

(* acted: a Moonwell redemption that yields nothing is none.               *)
Acted(l) == Repays(l) > 0 \/ Freed(l.market, Plan(l).collateral) > 0

(* It goes back to the wallet at once, unless the sweep will bring it.     *)
Returned(t, left) == IF t = Usdc THEN 0 ELSE left

(* _processMoonwellLeg, _processCometLeg, _processMorphoLeg: the debt that *)
(* a leg repays is what the legs before it have left.                      *)
ProcessLeg ==
  /\ stage = "withdraw" /\ due = {}
  /\ \E i \in rest :
       LET l == legs[i]
           m == l.market
           d == Owes[m]
           t == DebtToken[d]
           take == Plan(l).collateral
       IN  /\ \A j \in rest : i <= j
           /\ FloorsMet(l) /\ WorkDone(Acted(l))
           /\ wallet[t] >= Repays(l)
           /\ pos' = [pos EXCEPT ![d].variable = @ - Repays(l), ![m].collateral = @ - take]
           /\ take > 0 \/ (ProtocolOf[m] = CompoundV3 /\ Acted(l)) => Covered(AccountOf(m), pos')
           /\ \E left \in Leftover(l), out \in Sold(CollateralToken[m], Freed(m, take)) :
                /\ wallet' = [wallet EXCEPT ![t] = @ - Repays(l) + Returned(t, left)]
                /\ held' = [held EXCEPT ![Usdc] = @ + out + (left - Returned(t, left))]
           /\ rest' = rest \ {i}
  /\ UNCHANGED <<stage, call, due>>

(* The USDC that came in, and not what was there before.                   *)
Sweep ==
  /\ stage = "withdraw" /\ due = {} /\ rest = {}
  /\ wallet' = [wallet EXCEPT ![Usdc] = @ + held[Usdc] - Stray]
  /\ held' = [held EXCEPT ![Usdc] = Stray]
  /\ stage' = "done"
  /\ UNCHANGED <<call, pos, due, rest>>

Init ==
  /\ stage = "called"
  /\ \E c \in Calls : permit = c.permit /\ legs = c.legs
  /\ \E w \in Worlds : halted = w.halted /\ pos = w.pos /\ wallet = w.wallet
  /\ held = [t \in Token |-> Stray]
  /\ due = {} /\ rest = {}
  /\ before = [pos |-> pos, wallet |-> wallet]

Next == Begin \/ AaveRepay \/ AaveCheck \/ AaveWithdraw \/ ProcessLeg \/ Sweep

----------------------------------------------------------------------------
TypeOK ==
  /\ stage \in {"called", "repay", "withdraw", "done"}
  /\ \A m \in Market : pos[m].variable >= 0 /\ pos[m].stable >= 0 /\ pos[m].collateral >= 0
  /\ \A t \in Token : wallet[t] >= 0 /\ held[t] >= Stray

(* The legs that have had their turn and repay the debt of a market, or    *)
(* take its collateral.                                                    *)
Repayers(m) == {i \in (1 .. Len(legs)) \ rest : Owes[legs[i].market] = m /\ legs[i].repay > 0}
Takers(m)   == {i \in (1 .. Len(legs)) \ rest : legs[i].market = m /\ Takes(legs[i])}

(* What the owner's debt in t fell by, and the least that the collateral   *)
(* taken must have fetched: each sale of a part rounds its floor down.     *)
Repaid(t) ==
  MapThenSumSet(LAMBDA m : Debt(before.pos[m]) - Debt(pos[m]),
                {m \in Market : DebtToken[m] = t})
RoundedOff(m) == IF Takers(m) = {} THEN 0 ELSE Cardinality(Takers(m)) - 1
Fetched ==
  MapThenSumSet(
    LAMBDA m : LET freed == Freed(m, before.pos[m].collateral - pos[m].collateral)
               IN  IF CollateralToken[m] = Usdc THEN freed ELSE MinOut(freed) - RoundedOff(m),
    Market)

(* What a debt may have fallen by after so many legs that repay it: one    *)
(* leg repays the signed fraction of it, and each further one no more.     *)
AsSigned(debt, fell, times) ==
  LET fraction == (debt * permit.repay) \div BpsDenominator
  IN  IF times = 0 THEN fell = 0 ELSE fraction <= fell /\ fell <= times * fraction

(* An exit that goes through under a permit has done what was signed on    *)
(* every side that a leg names, whatever amounts the submitter wrote: a    *)
(* debt that one leg repays fell by exactly the signed fraction, one that  *)
(* several repay by no less and by at most the fraction for each of them;  *)
(* all of the collateral was taken, and only under a full exit; and every  *)
(* leg moved something (ExitTypes.sol, "no kind can be spent by a leg that *)
(* does less than the authorised work").                                   *)
DoneAsSigned ==
  stage = "done" /\ Delegated =>
    /\ \A m \in Market :
         LET b == before.pos[m]
             a == pos[m]
             times == Cardinality(Repayers(m))
         IN  /\ AsSigned(b.variable, b.variable - a.variable, times)
             /\ AsSigned(b.stable, b.stable - a.stable, times)
             /\ a.collateral = IF Takers(m) = {} THEN b.collateral ELSE 0
    /\ \A i \in 1 .. Len(legs) :
         LET m == legs[i].market
         IN  /\ legs[i].withdraw > 0 => permit.kind = FullExit
             /\ \/ Debt(pos[Owes[m]]) < Debt(before.pos[Owes[m]])
                \/ pos[m].collateral < before.pos[m].collateral

(* And whoever called, the owner paid no more than the debts fell by, got  *)
(* at least the floor for all that was taken, and the executor kept        *)
(* nothing and gave nothing of what it had (_exit's sweep, the leftovers). *)
OwnerMadeWhole ==
  stage = "done" =>
    /\ \A t \in Token :
         wallet[t] >= before.wallet[t] - Repaid(t) + IF t = Usdc THEN Fetched ELSE 0
    /\ held = [t \in Token |-> Stray]

ExitSettles == DoneAsSigned /\ OwnerMadeWhole

(* A permit to reduce repays exactly the signed fraction of the live debt  *)
(* (ExitTypes.sol, "REDUCE - repay only, exactly maxRepayFractionBps of    *)
(* the live debt"): each debt of the owner that the exit repays ends lower *)
(* by that fraction of what it was.                                        *)
ReduceIsExact ==
  stage = "done" /\ Delegated /\ permit.kind = Reduce =>
    \A m \in Market :
      Repayers(m) # {} =>
        before.pos[m].variable - pos[m].variable
          = (before.pos[m].variable * permit.repay) \div BpsDenominator
=============================================================================
