---------------------------- MODULE PermitScope ----------------------------
(***************************************************************************)
(* The static scope of an ExitPermit, as two programs judge it: the        *)
(* backend before it stores the permit (server/exitPermit.ts) and the      *)
(* executor contract when the permit is used                               *)
(* (executor/contracts/PanikExecutor.sol).  A permit is a record with the  *)
(* fields kind, repay (maxRepayFractionBps), slip (maxSlippageBps), mask   *)
(* (protocolsMask) and trigger (triggerHealthFactorWad, in halves).        *)
(***************************************************************************)
EXTENDS Integers, FiniteSets

CONSTANT Ceiling   \* maxPermitSlippageBps, immutable in the executor

FullExit == 0   FullRepay == 1   Reduce == 2
BpsDenominator == 10000

AaveV3 == 0   Moonwell == 1   CompoundV3 == 2   MorphoBlue == 3
Protocol == AaveV3 .. MorphoBlue

(* Bit i of the uint8 mask m.                                              *)
HasBit(m, i) == (m \div 2 ^ i) % 2 = 1

RepayOK(permit) ==
  /\ permit.repay # 0
  /\ permit.repay <= BpsDenominator
  /\ permit.kind \in {FullRepay, FullExit} => permit.repay = BpsDenominator

(* Mutant of validatePermitScope: any nonzero mask will do.                *)
validateAnyMask(permit) ==
  /\ permit.kind <= Reduce
  /\ RepayOK(permit)
  /\ permit.slip <= Ceiling
  /\ permit.mask # 0

(* exitPermit.ts validatePermitScope, without the deadline.                *)
validatePermitScope(permit) ==
  /\ permit.kind <= Reduce
  /\ RepayOK(permit)
  /\ permit.slip <= Ceiling
  /\ permit.mask % 16 # 0

(* A leg of an exit: the protocol and which of its two sides act.          *)
Leg == [protocol : Protocol, repay : BOOLEAN, withdraw : BOOLEAN]

LegPermitted(permit, leg) ==
  /\ HasBit(permit.mask, leg.protocol)
  /\ leg.repay \/ leg.withdraw
  /\ leg.withdraw => permit.kind = FullExit

(* PanikExecutor._validatePermitScope, for assets and markets it tracks.   *)
contractScope(permit, legs) ==
  /\ permit.kind <= Reduce
  /\ RepayOK(permit)
  /\ permit.slip <= Ceiling
  /\ \A leg \in legs : LegPermitted(permit, leg)

(* PanikExecutor._assertTriggerMet: the health factor hf is exact on Aave; *)
(* Moonwell only proves that it is under one; the others prove nothing.    *)
assertTriggerMet(permit, legs, hf) ==
  \/ permit.trigger = 0
  \/ \A leg \in legs :
       \/ leg.protocol = AaveV3 /\ hf < permit.trigger
       \/ leg.protocol = Moonwell /\ hf < 2 /\ 2 <= permit.trigger

(* Some exit passes the static checks of the contract.                     *)
SomeLegPermitted(permit) == \E leg \in Leg : contractScope(permit, {leg})

(* Some exit passes all of them, at some health factor.                    *)
Usable(permit) ==
  \E leg \in Leg : \E hf \in 0 .. permit.trigger :
    contractScope(permit, {leg}) /\ assertTriggerMet(permit, {leg}, hf)

(* The backend accepts a scope exactly when the contract would let some    *)
(* leg pass it: no permit is stored that only has bits above the four      *)
(* protocols, or a fraction its kind forbids, and none is refused that the *)
(* contract would honour (exitPermit.ts validatePermitScope).              *)
ScopeMirrors(permit) == validatePermitScope(permit) <=> SomeLegPermitted(permit)
============================================================================
