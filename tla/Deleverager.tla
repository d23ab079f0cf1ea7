---------------------------- MODULE Deleverager ----------------------------
(***************************************************************************)
(* PanikDeleverager.sol: an owner reduces a debt with the position's own   *)
(* collateral and no money of their own.  What repays the debt is lent     *)
(* first, by a flash loan or, on Morpho, by the market itself (native),    *)
(* and given back from the sale of the collateral, in callbacks.           *)
(*                                                                         *)
(* One behaviour is one transaction.  A guard that fails is a revert: the  *)
(* behaviour has no next step.  Prices are one, so amounts are values, and *)
(* the lending protocols' threshold is one.                                *)
(***************************************************************************)
EXTENDS Integers

CONSTANTS
  Orders,    \* DeleverageParams: protocol, source, repay, withdraw, slip
  Worlds,    \* the position, the lender's funds, what is in the contract
  Premium,   \* Premium[s]: fee of a flash loan from source s
  MTokens,   \* mTokens to one unit of the underlying
  Ceiling    \* maxSlippageBpsCeiling

BpsDenominator == 10000
Lesser(a, b) == IF a < b THEN a ELSE b

VARIABLES
  step,        \* how far the transaction is
  order,       \* the parameters
  debt, coll,  \* the owner's position
  extra,       \* what Comet holds for the owner beyond the debt
  bal,         \* the contract's balances of both tokens
  approved,    \* what the lender may pull of the debt token
  owner,       \* what the contract has sent to the owner
  lender,      \* the funds of the source, or of the native market
  flashActive,
  before       \* history: debt, coll, bal and lender at the start

position == <<debt, coll, extra>>
vars == <<step, order, position, bal, approved, owner, lender, flashActive, before>>

Native == order.protocol = "morpho"
Retain == order.repay + IF Native THEN 0 ELSE Premium[order.source]

(* _computeMinOut.                                                         *)
MinOut(amount) == (amount * (BpsDenominator - order.slip)) \div BpsDenominator

(* _validate, over assets and markets that are on the lists.               *)
Valid ==
  /\ order.repay > 0 /\ order.withdraw > 0
  /\ order.slip > 0 /\ order.slip <= Ceiling

(* _deleverageViaFlash: the source must have the amount, and lends it.     *)
Borrow ==
  /\ step = "called" /\ Valid /\ ~Native
  /\ lender >= order.repay
  /\ lender' = lender - order.repay
  /\ bal' = [bal EXCEPT !.debt = @ + order.repay]
  /\ flashActive' = TRUE
  /\ step' = "repay"
  /\ UNCHANGED <<order, position, approved, owner, before>>

(* _deleverageMorphoNative: Morpho takes the debt off before it calls back *)
(* and before it is paid, and refuses an amount above the debt.            *)
BorrowNative ==
  /\ step = "called" /\ Valid /\ Native
  /\ order.repay <= debt
  /\ debt' = debt - order.repay
  /\ flashActive' = TRUE
  /\ step' = "withdraw"
  /\ UNCHANGED <<order, coll, extra, bal, approved, owner, lender, before>>

(* _aaveRepay, _moonwellRepay, _cometRepay, as the protocols take them: of *)
(* an amount above the debt Aave leaves the rest, Moonwell fails, and      *)
(* Comet keeps the rest for the owner.                                     *)
Repay ==
  /\ step = "repay" /\ flashActive
  /\ LET taken == IF order.protocol = "aave" THEN Lesser(order.repay, debt) ELSE order.repay
     IN  /\ order.protocol = "moonwell" => order.repay <= debt
         /\ debt' = debt - Lesser(taken, debt)
         /\ extra' = taken - Lesser(taken, debt)
         /\ bal' = [bal EXCEPT !.debt = @ - taken]
  /\ step' = "withdraw"
  /\ UNCHANGED <<order, coll, approved, owner, lender, flashActive, before>>

Shortfall(d, c) == IF d > c THEN d - c ELSE 0

(* The health after the withdrawal: Aave's factor has risen, Moonwell's    *)
(* shortfall has not, Comet and Morpho are covered.                        *)
Healthier ==
  CASE order.protocol = "aave" ->
         (debt = 0 /\ before.debt > 0) \/ coll' * before.debt > before.coll * debt
    [] order.protocol = "moonwell" ->
         Shortfall(debt, coll') <= Shortfall(before.debt, before.coll)
    [] OTHER -> debt <= coll'

(* The protocols themselves let nothing be taken that leaves a debt        *)
(* uncovered.                                                              *)
Allowed(taken) == taken <= coll /\ (debt > 0 => debt <= coll - taken)

(* _aaveWithdraw, _moonwellWithdraw, _cometWithdraw, withdrawCollateral:   *)
(* mTokens are redeemed at their rate, a native asset is wrapped.          *)
Freed == IF order.protocol = "moonwell" THEN order.withdraw \div MTokens ELSE order.withdraw

Withdraw ==
  /\ step = "withdraw" /\ flashActive
  /\ Allowed(Freed)
  /\ coll' = coll - Freed
  /\ Healthier
  /\ bal' = [bal EXCEPT !.coll = @ + Freed]
  /\ step' = "swap"
  /\ UNCHANGED <<order, debt, extra, approved, owner, lender, flashActive, before>>

(* _swap sells what the withdrawal brought, and not what was there before. *)
Swap ==
  /\ step = "swap"
  /\ \E out \in MinOut(Freed) .. Freed :
       bal' = [debt |-> bal.debt + out, coll |-> bal.coll - Freed]
  /\ step' = "pay"
  /\ UNCHANGED <<order, position, approved, owner, lender, flashActive, before>>

(* _sweepDebtAsset: the owner gets both tokens, but for an amount kept.    *)
Swept(b, kept) == [debt |-> Lesser(b.debt, kept), coll |-> 0]
Given(b, kept) == [debt |-> b.debt - Lesser(b.debt, kept), coll |-> b.coll]

(* receiveFlashLoan: Balancer is paid by a transfer, then all is swept.    *)
PayBack ==
  /\ step = "pay" /\ ~Native /\ order.source = "balancer"
  /\ bal.debt >= Retain
  /\ lender' = lender + Retain
  /\ LET left == [bal EXCEPT !.debt = @ - Retain]
     IN  bal' = Swept(left, 0) /\ owner' = Given(left, 0)
  /\ step' = "return"
  /\ UNCHANGED <<order, position, approved, flashActive, before>>

(* executeOperation, onMorphoFlashLoan: the sweep leaves what the lender   *)
(* is approved to pull.                                                    *)
ApproveBack ==
  /\ step = "pay" /\ ~Native /\ order.source # "balancer"
  /\ bal.debt >= Retain
  /\ approved' = Retain
  /\ bal' = Swept(bal, Retain) /\ owner' = Given(bal, Retain)
  /\ step' = "pull"
  /\ UNCHANGED <<order, position, lender, flashActive, before>>

(* onMorphoRepay: approve only; the sweep comes after the pull.            *)
ApproveNative ==
  /\ step = "pay" /\ Native
  /\ bal.debt >= Retain
  /\ approved' = Retain
  /\ step' = "pull"
  /\ UNCHANGED <<order, position, bal, owner, lender, flashActive, before>>

(* The lender pulls after the callback.                                    *)
Pull ==
  /\ step = "pull"
  /\ approved >= Retain /\ bal.debt >= Retain
  /\ lender' = lender + Retain
  /\ bal' = [bal EXCEPT !.debt = @ - Retain]
  /\ approved' = 0
  /\ step' = "return"
  /\ UNCHANGED <<order, position, owner, flashActive, before>>

(* Back in the entry point.                                                *)
Return ==
  /\ step = "return"
  /\ flashActive' = FALSE
  /\ IF Native THEN bal' = Swept(bal, 0) /\ owner' = Given(bal, 0)
               ELSE UNCHANGED <<bal, owner>>
  /\ step' = "done"
  /\ UNCHANGED <<order, position, approved, lender, before>>

Init ==
  /\ step = "called"
  /\ order \in Orders
  /\ \E w \in Worlds : debt = w.debt /\ coll = w.coll /\ lender = w.lender /\ bal = w.bal
  /\ extra = 0 /\ approved = 0
  /\ owner = [debt |-> 0, coll |-> 0]
  /\ flashActive = FALSE
  /\ before = [debt |-> debt, coll |-> coll, bal |-> bal, lender |-> lender]

Next ==
  \/ Borrow \/ BorrowNative \/ Repay \/ Withdraw \/ Swap
  \/ PayBack \/ ApproveBack \/ ApproveNative \/ Pull \/ Return

----------------------------------------------------------------------------
TypeOK ==
  /\ step \in {"called", "repay", "withdraw", "swap", "pay", "pull", "return", "done"}
  /\ debt >= 0 /\ coll >= 0 /\ extra >= 0 /\ approved >= 0
  /\ bal.debt >= 0 /\ bal.coll >= 0 /\ owner.debt >= 0 /\ owner.coll >= 0
  /\ flashActive \in BOOLEAN

(* A deleverage that goes through has paid its lender in full and is done  *)
(* with it; the owner's debt is smaller, and the position is covered no    *)
(* worse, on Aave better; and of the proceeds, at the floor or above, the  *)
(* owner was sent, or has with Comet, all that neither repaid debt nor     *)
(* paid the premium, with nothing left in the contract                     *)
(* (PanikDeleverager.sol, "Proceeds and every remainder go to the caller"). *)
LoanSettled ==
  step = "done" =>
    /\ lender - before.lender = Retain - IF Native THEN 0 ELSE order.repay
    /\ approved = 0 /\ ~flashActive
    /\ before.debt > 0 => debt < before.debt
    /\ Shortfall(debt, coll) <= Shortfall(before.debt, before.coll)
    /\ order.protocol = "aave" => coll * before.debt > before.coll * debt \/ debt = 0
    /\ bal = [debt |-> 0, coll |-> 0]
    /\ owner.coll = before.bal.coll
    /\ owner.debt + extra >=
         before.bal.debt + MinOut(before.coll - coll) - (before.debt - debt)
           - (Retain - order.repay)
=============================================================================
