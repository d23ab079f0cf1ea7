------------------------------- MODULE Escrow -------------------------------
(***************************************************************************)
(* PanikEscrow.sol: founding users deposit one fixed amount each; until    *)
(* one global deadline the owner may ship, which sweeps the balance to the *)
(* treasury, and from the deadline on every depositor may claim a refund.  *)
(* A call that reverts leaves no trace, so only calls that succeed are     *)
(* actions.  Amounts are in deposits (DEPOSIT_AMOUNT = 1).                 *)
(***************************************************************************)
EXTENDS Integers, FiniteSets

CONSTANTS
  Account,         \* addresses that may call
  Team,            \* the owner and the treasury the contract is deployed with
  RefundDeadline,  \* refundDeadline
  MaxNow,          \* bound: the last timestamp
  MaxDonations     \* bound: transfers of USDC that are no deposits

VARIABLES
  timestamp,          \* block.timestamp, 1 at deployment
  owner, treasury, shipped,
  depositTime,  \* depositTime[a], 0 for never
  refunded,     \* accounts whose refund was paid
  balance,      \* usdc.balanceOf(escrow)
  swept,        \* what ship has sent to a treasury
  donations     \* transfers that were no deposits

roles == <<owner, treasury>>
vars  == <<timestamp, roles, shipped, depositTime, refunded, balance, swept, donations>>

Depositors == {a \in Account : depositTime[a] # 0}

Deposit(a) ==
  /\ ~shipped
  /\ timestamp < RefundDeadline
  /\ depositTime[a] = 0
  /\ depositTime' = [depositTime EXCEPT ![a] = timestamp]
  /\ balance' = balance + 1
  /\ UNCHANGED <<timestamp, roles, shipped, refunded, swept, donations>>

(* Mutant of Ship: the owner may ship after the deadline.                  *)
ShipLate(a) ==
  /\ a = owner
  /\ ~shipped
  /\ balance # 0
  /\ shipped' = TRUE
  /\ swept' = balance /\ balance' = 0
  /\ UNCHANGED <<timestamp, roles, depositTime, refunded, donations>>

Ship(a) ==
  /\ a = owner
  /\ ~shipped
  /\ timestamp < RefundDeadline
  /\ balance # 0
  /\ shipped' = TRUE
  /\ swept' = balance /\ balance' = 0
  /\ UNCHANGED <<timestamp, roles, depositTime, refunded, donations>>

(* Mutant of ClaimRefund: a refund is not marked as paid.                  *)
ClaimRefundAgain(a) ==
  /\ ~shipped
  /\ depositTime[a] # 0
  /\ timestamp >= RefundDeadline
  /\ balance >= 1
  /\ balance' = balance - 1
  /\ UNCHANGED <<timestamp, roles, shipped, depositTime, refunded, swept, donations>>

(* The transfer reverts when the balance does not cover it.                *)
ClaimRefund(a) ==
  /\ ~shipped
  /\ depositTime[a] # 0
  /\ a \notin refunded
  /\ timestamp >= RefundDeadline
  /\ refunded' = refunded \union {a}
  /\ balance >= 1
  /\ balance' = balance - 1
  /\ UNCHANGED <<timestamp, roles, shipped, depositTime, swept, donations>>

TransferOwnership(a, b) ==
  /\ a = owner
  /\ owner' = b
  /\ UNCHANGED <<timestamp, treasury, shipped, depositTime, refunded, balance, swept, donations>>

SetTreasury(a, b) ==
  /\ a = owner
  /\ treasury' = b
  /\ UNCHANGED <<timestamp, owner, shipped, depositTime, refunded, balance, swept, donations>>

(* Anyone may send USDC to the contract.                                   *)
Donate ==
  /\ donations < MaxDonations
  /\ donations' = donations + 1
  /\ balance' = balance + 1
  /\ UNCHANGED <<timestamp, roles, shipped, depositTime, refunded, swept>>

NextSecond ==
  /\ timestamp < MaxNow
  /\ timestamp' = timestamp + 1
  /\ UNCHANGED <<roles, shipped, depositTime, refunded, balance, swept, donations>>

Init ==
  /\ timestamp = 1
  /\ owner = Team /\ treasury = Team
  /\ shipped = FALSE
  /\ depositTime = [a \in Account |-> 0]
  /\ refunded = {}
  /\ balance = 0 /\ swept = 0 /\ donations = 0

Next ==
  \/ \E a \in Account : Deposit(a) \/ Ship(a) \/ ClaimRefund(a)
  \/ \E a, b \in Account : TransferOwnership(a, b) \/ SetTreasury(a, b)
  \/ Donate \/ NextSecond

Spec == Init /\ [][Next]_vars

----------------------------------------------------------------------------
TypeOK ==
  /\ timestamp \in 1 .. MaxNow + 1
  /\ owner \in Account /\ treasury \in Account
  /\ shipped \in BOOLEAN
  /\ depositTime \in [Account -> Nat]
  /\ refunded \subseteq Account
  /\ balance \in Nat /\ swept \in Nat /\ donations \in 0 .. MaxDonations

(* The escrow is solvent: until it is shipped, it holds the deposit of     *)
(* every account that has not been refunded (plus whatever was donated),   *)
(* however deposits, refunds and changes of the roles interleave; and no   *)
(* account is refunded what it did not deposit, or once the funds shipped. *)
RefundsFunded ==
  /\ refunded \subseteq Depositors
  /\ ~shipped => balance = Cardinality(Depositors \ refunded) + donations
  /\ shipped => refunded = {}
============================================================================
