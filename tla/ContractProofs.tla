--------------------------- MODULE ContractProofs ---------------------------
(***************************************************************************)
(* Proofs about the three contracts: PanikEscrow is solvent until it       *)
(* ships, an exit through PanikExecutor does what was signed and leaves    *)
(* the owner whole, and PanikDeleverager settles its flash loan.           *)
(***************************************************************************)
EXTENDS ServiceProofs

----------------------------------------------------------------------------
(* The escrow.                                                             *)

(* The invariant.  Besides the books themselves it says what keeps Ship    *)
(* and ClaimRefund apart: a refund is only ever paid from the deadline on, *)
(* when nothing can ship any more, and time does not run back.             *)
Owed == Cardinality(Funds!Depositors \ refunded)

Dated ==
  /\ timestamp \in Nat \ {0}
  /\ depositTime \in [Account -> Nat]
  /\ refunded \subseteq Funds!Depositors
  /\ refunded # {} => timestamp >= RefundDeadline
  /\ shipped \in BOOLEAN
  /\ shipped => refunded = {}

Books ==
  /\ balance \in Int
  /\ donations \in Nat
  /\ ~shipped => balance = Owed + donations

FundsInv == Dated /\ Books

(* The instance counts sets as this module does.                           *)
LEMMA CountsAlike ==
  ASSUME NEW S PROVE Funds!Cardinality(S) = Cardinality(S)
BY DEF Cardinality, Funds!Cardinality

(* Nothing is owed, or paid, before the first deposit.                     *)
LEMMA FundsInitially == Funds!Init => FundsInv
<1> SUFFICES ASSUME Funds!Init PROVE FundsInv
  OBVIOUS
<1>1. Funds!Depositors \ refunded = {}
  BY DEF Funds!Init, Funds!Depositors
<1>2. Owed = 0
  BY <1>1, FS_EmptySet DEF Owed
<1>3. Dated
  <2>1. timestamp \in Nat \ {0} /\ depositTime \in [Account -> Nat] /\ refunded = {}
    BY DEF Funds!Init
  <2>2. shipped \in BOOLEAN
    BY DEF Funds!Init
  <2> QED
    BY <2>1, <2>2 DEF Dated
<1>4. Books
  BY <1>2 DEF Funds!Init, Books
<1> QED
  BY <1>3, <1>4 DEF FundsInv

(* The set of those who are owed grows by a depositor.                     *)
LEMMA DepositOwes ==
  ASSUME IsFiniteSet(Account), FundsInv, NEW a \in Account, Funds!Deposit(a)
  PROVE  FundsInv'
<1> USE DEF FundsInv
<1>1. Funds!Depositors' = Funds!Depositors \union {a} /\ a \notin Funds!Depositors
  BY DEF Funds!Deposit, Dated, Funds!Depositors
<1>2. Funds!Depositors' \ refunded' = (Funds!Depositors \ refunded) \union {a} /\ a \notin Funds!Depositors \ refunded
  BY <1>1 DEF Funds!Deposit, Dated
<1>3. IsFiniteSet(Funds!Depositors \ refunded)
  BY FS_Subset DEF Funds!Depositors
<1>4. Owed' = Owed + 1 /\ Owed \in Nat
  BY <1>2, <1>3, FS_AddElement, FS_CardinalityType DEF Owed
<1>5. Dated'
  BY <1>1 DEF Funds!Deposit, Dated
<1>6. Books'
  BY <1>4 DEF Funds!Deposit, Books
<1> QED
  BY <1>5, <1>6

(* It shrinks by the one who is refunded, and the balance with it.         *)
LEMMA RefundPays ==
  ASSUME IsFiniteSet(Account), FundsInv, NEW a \in Account, Funds!ClaimRefund(a)
  PROVE  FundsInv'
<1> USE DEF FundsInv
<1>1. Funds!Depositors' = Funds!Depositors /\ a \in Funds!Depositors \ refunded
  BY DEF Funds!ClaimRefund, Dated, Funds!Depositors
<1>2. Funds!Depositors' \ refunded' = (Funds!Depositors \ refunded) \ {a}
  BY <1>1 DEF Funds!ClaimRefund
<1>3. IsFiniteSet(Funds!Depositors \ refunded)
  BY FS_Subset DEF Funds!Depositors
<1>4. Owed' = Owed - 1 /\ Owed \in Nat
  BY <1>1, <1>2, <1>3, FS_RemoveElement, FS_CardinalityType DEF Owed
<1>5. Dated'
  BY <1>1 DEF Funds!ClaimRefund, Dated
<1>6. Books'
  BY <1>4 DEF Funds!ClaimRefund, Books
<1> QED
  BY <1>5, <1>6

(* What pays nobody and takes no deposit leaves the debts as they are.     *)
LEMMA RestKeepsBooks ==
  ASSUME IsFiniteSet(Account), RefundDeadline \in Int, FundsInv,
         \/ \E a \in Account : Funds!Ship(a)
         \/ \E a, b \in Account : Funds!TransferOwnership(a, b) \/ Funds!SetTreasury(a, b)
         \/ Funds!Donate \/ Funds!NextSecond \/ UNCHANGED Funds!vars
  PROVE  FundsInv'
<1> USE DEF FundsInv
<1>1. depositTime' = depositTime /\ refunded' = refunded
  BY DEF Funds!Ship, Funds!TransferOwnership, Funds!SetTreasury, Funds!Donate, Funds!NextSecond,
     Funds!vars
<1>2. Funds!Depositors' = Funds!Depositors /\ Owed' = Owed
  BY <1>1 DEF Funds!Depositors, Owed
<1>0. Owed \in Nat
  BY FS_Subset, FS_CardinalityType DEF Owed, Funds!Depositors
<1>3. CASE \E a \in Account : Funds!Ship(a)
  <2>1. refunded = {}
    BY <1>3 DEF Funds!Ship, Dated
  <2> QED
    BY <1>1, <1>2, <1>3, <2>1 DEF Funds!Ship, Dated, Books
<1>4. CASE Funds!NextSecond
  BY <1>1, <1>2, <1>4 DEF Funds!NextSecond, Dated, Books
<1>5. CASE Funds!Donate
  <2>1. Dated'
    BY <1>1, <1>2, <1>5 DEF Funds!Donate, Dated, Funds!roles
  <2>2. CASE shipped
    BY <1>5, <2>1, <2>2 DEF Funds!Donate, Books
  <2>3. CASE ~shipped
    <3>1. balance = Owed + donations /\ balance' = balance + 1 /\ donations' = donations + 1
      BY <1>5, <2>3 DEF Funds!Donate, Books
    <3> QED
      BY <1>0, <1>2, <1>5, <2>1, <2>3, <3>1 DEF Funds!Donate, Books
  <2> QED
    BY <2>1, <2>2, <2>3 DEF Dated
<1>6. CASE \E a, b \in Account : Funds!TransferOwnership(a, b) \/ Funds!SetTreasury(a, b)
  BY <1>1, <1>2, <1>6 DEF Funds!TransferOwnership, Funds!SetTreasury, Dated, Books
<1>7. CASE UNCHANGED Funds!vars
  BY <1>1, <1>2, <1>7 DEF Funds!vars, Dated, Books
<1> QED
  BY <1>3, <1>4, <1>5, <1>6, <1>7

(* Every step keeps the books.                                             *)
LEMMA FundsInductive ==
  ASSUME IsFiniteSet(Account), RefundDeadline \in Int, FundsInv, [Funds!Next]_(Funds!vars)
  PROVE  FundsInv'
<1>1. CASE \E a \in Account : Funds!Deposit(a)
  BY <1>1, DepositOwes
<1>2. CASE \E a \in Account : Funds!ClaimRefund(a)
  BY <1>2, RefundPays
<1>3. CASE \/ \E a \in Account : Funds!Ship(a)
           \/ \E a, b \in Account : Funds!TransferOwnership(a, b) \/ Funds!SetTreasury(a, b)
           \/ Funds!Donate \/ Funds!NextSecond \/ UNCHANGED Funds!vars
  BY <1>3, RestKeepsBooks
<1> QED
  BY <1>1, <1>2, <1>3 DEF Funds!Next

(* The escrow is solvent until it ships, whoever deposits, claims, donates *)
(* or changes the roles, in any order and number: balance covers every     *)
(* account that has paid and was not refunded.                             *)
THEOREM EscrowIsSolvent == Spec => []RefundsFunded
<1> IsFiniteSet(Account) /\ RefundDeadline \in Int
  BY ServiceConstants
<1> DEFINE IInv == focus = "funds" => FundsInv
<1>1. Init => IInv
  BY FundsInitially DEF Init
<1>2. IInv /\ [Next]_vars => IInv'
  <2>1. ASSUME focus = "funds", [Next]_vars PROVE [Funds!Next]_(Funds!vars)
    BY <2>1 DEF Next, vars, fundVars, Funds!vars, Funds!roles
  <2>2. ASSUME [Next]_vars PROVE focus' = focus
    BY <2>2 DEF Next, Others, vars
  <2> QED
    BY <2>1, <2>2, FundsInductive
<1>3. IInv => RefundsFunded
  BY CountsAlike DEF FundsInv, Dated, Books, Owed, Funds!RefundsFunded, RefundsFunded
<1> QED
  BY <1>1, <1>2, <1>3, PTL DEF Spec

----------------------------------------------------------------------------
(* The deleverager.                                                        *)

(* The shape, and what was there at the start.                             *)
LoanShape ==
  /\ step \in {"called", "repay", "withdraw", "swap", "pay", "pull", "return", "done"}
  /\ order \in [protocol : {"aave", "moonwell", "comet", "morpho"},
                source : {"balancer", "morpho", "aave"},
                repay : Nat, withdraw : Nat, slip : Nat]
  /\ debt \in Nat /\ coll \in Nat /\ extra \in Nat /\ approved \in Nat /\ lender \in Nat
  /\ bal \in [debt : Nat, coll : Nat] /\ paid \in [debt : Nat, coll : Nat]
  /\ flashActive \in BOOLEAN
  /\ start \in [debt : Nat, coll : Nat, bal : [debt : Nat, coll : Nat], lender : Nat]
  /\ step # "called" => order.repay > 0 /\ order.slip <= Ceiling
  /\ step = "repay" => ~Levers!Native
  /\ flashActive <=> step \notin {"called", "done"}

(* What was taken off the debt or put beside it came from the loan.        *)
Repaying ==
  /\ step \in {"called", "repay"} => debt = start.debt /\ extra = 0
  /\ step \notin {"called", "repay"} =>
       /\ debt <= start.debt /\ (start.debt > 0 => debt < start.debt)
       /\ Levers!Native => start.debt - debt = order.repay /\ extra = 0

Taking ==
  /\ step \in {"called", "repay", "withdraw"} => coll = start.coll
  /\ step \notin {"called", "repay", "withdraw"} =>
       /\ coll <= start.coll /\ Levers!Freed = start.coll - coll
       /\ Levers!Shortfall(debt, coll) <= Levers!Shortfall(start.debt, start.coll)
       /\ order.protocol = "aave" => coll * start.debt > start.coll * debt \/ debt = 0

(* What the lender has out, in the contract's hands or spent.              *)
Lent == IF Levers!Native \/ step = "called" THEN 0 ELSE order.repay

Floor == Levers!MinOut(start.coll - coll)

Balanced ==
  /\ step \in {"called", "repay", "withdraw", "swap", "pay", "pull"} =>
       /\ lender = start.lender - Lent
  /\ step \in {"return", "done"} => lender - start.lender = Levers!Retain - Lent
  /\ step # "pull" => approved = 0
  /\ step \in {"called", "repay", "withdraw", "swap", "pay"} => paid = [debt |-> 0, coll |-> 0]
  /\ step \in {"called", "repay", "withdraw"} => bal.coll = start.bal.coll
  /\ step = "swap" => bal.coll = start.bal.coll + Levers!Freed
  /\ step = "pay" => bal.coll = start.bal.coll
  /\ step \in {"called", "repay", "withdraw", "swap"} =>
       bal.debt + extra = start.bal.debt + Lent - (start.debt - debt) + (IF Levers!Native THEN start.debt - debt ELSE 0)
  /\ step = "pay" =>
       bal.debt + extra >= start.bal.debt + Lent + Floor - (start.debt - debt) + (IF Levers!Native THEN start.debt - debt ELSE 0)
  /\ step \in {"pull", "return", "done"} /\ ~(Levers!Native /\ step # "done") =>
       /\ bal = [debt |-> IF step = "pull" THEN Levers!Retain ELSE 0, coll |-> 0]
       /\ paid.coll = start.bal.coll
       /\ paid.debt + extra >=
            start.bal.debt + Floor - (start.debt - debt) - (Levers!Retain - order.repay)
  /\ step \in {"pull", "return"} /\ Levers!Native =>
       /\ paid = [debt |-> 0, coll |-> 0]
       /\ bal.coll = start.bal.coll
       /\ bal.debt >= start.bal.debt + Floor - (IF step = "return" THEN order.repay ELSE 0)

LoanInv == LoanShape /\ Repaying /\ Taking /\ Balanced

(* What is at least the floor, and the floor itself, are amounts.          *)
LEMMA FloorIsAmount ==
  ASSUME LoanShape, LoanNumbers, step # "called", NEW x \in Nat
  PROVE  Levers!MinOut(x) \in Nat
<1>0. order.slip \in Nat /\ order.slip <= Ceiling
  BY DEF LoanShape
<1>1. PICK s \in Nat : s = order.slip
  BY <1>0
<1>2. PICK k \in Nat : k = 10000 - s
  <2>1. s <= Ceiling /\ Ceiling \in 0 .. 10000
    BY <1>0, <1>1 DEF LoanNumbers
  <2>2. 10000 - s \in Nat
    BY <2>1
  <2> QED
    BY <2>2
<1>3. x * k \in Nat
  BY <1>2
<1>4. (x * k) \div 10000 \in Nat
  BY <1>3
<1> QED
  BY <1>1, <1>2, <1>4 DEF Levers!MinOut, Levers!BpsDenominator

(* What a withdrawal frees is an amount.                                   *)
LEMMA FreedIsAmount ==
  ASSUME LoanShape, LoanNumbers PROVE Levers!Freed \in Nat
<1>1. order.withdraw \in Nat
  BY DEF LoanShape
<1>2. order.withdraw \div MTokens \in Nat
  BY <1>1 DEF LoanNumbers
<1> QED
  BY <1>1, <1>2 DEF Levers!Freed

(* What is kept back for the flash loan covers what was borrowed.          *)
LEMMA RetainIsAmount ==
  ASSUME LoanShape, LoanNumbers
  PROVE  /\ Levers!Retain \in Nat /\ Levers!Retain >= order.repay
         /\ Levers!Native => Levers!Retain = order.repay
BY DEF LoanShape, LoanNumbers, Levers!Retain, Levers!Native

(* The invariant holds when the call arrives.                              *)
LEMMA LoanInit ==
  ASSUME LoanNumbers, Init, focus = "levers" PROVE LoanInv
<1>1. Levers!Init
  BY DEF Init
<1>2. PICK w \in LeverWorlds : debt = w.debt /\ coll = w.coll /\ lender = w.lender /\ bal = w.bal
  BY <1>1 DEF Levers!Init
<1>3. /\ w.debt \in Nat /\ w.coll \in Nat /\ w.lender \in Nat
      /\ w.bal \in [debt : Nat, coll : Nat]
  BY DEF LoanNumbers
<1>4. /\ step = "called" /\ order \in Orders /\ extra = 0 /\ approved = 0
      /\ paid = [debt |-> 0, coll |-> 0] /\ flashActive = FALSE
      /\ start = [debt |-> debt, coll |-> coll, bal |-> bal, lender |-> lender]
  BY <1>1 DEF Levers!Init
<1>5. LoanShape
  <2>1. order \in [protocol : {"aave", "moonwell", "comet", "morpho"},
                   source : {"balancer", "morpho", "aave"},
                   repay : Nat, withdraw : Nat, slip : Nat]
    BY <1>4 DEF LoanNumbers
  <2>2. /\ debt \in Nat /\ coll \in Nat /\ lender \in Nat /\ bal \in [debt : Nat, coll : Nat]
    BY <1>2, <1>3
  <2>3. start \in [debt : Nat, coll : Nat, bal : [debt : Nat, coll : Nat], lender : Nat]
    BY <1>4, <2>2
  <2> QED
    BY <1>4, <2>1, <2>2, <2>3 DEF LoanShape
<1>6. /\ start.debt = debt /\ start.coll = coll /\ start.bal = bal /\ start.lender = lender
      /\ bal.debt \in Nat /\ bal.coll \in Nat /\ lender \in Nat /\ debt \in Nat
  BY <1>2, <1>3, <1>4
<1>7. Repaying /\ Taking
  BY <1>4, <1>6 DEF Repaying, Taking
<1>8. Balanced
  BY <1>4, <1>6 DEF Balanced, Lent
<1> QED
  BY <1>5, <1>7, <1>8 DEF LoanInv

(* The sweep and what it sends add up.                                     *)
LEMMA SweptUp ==
  ASSUME NEW b \in [debt : Nat, coll : Nat], NEW kept \in Nat, kept <= b.debt
  PROVE  /\ Levers!Swept(b, kept) = [debt |-> kept, coll |-> 0]
         /\ Levers!Given(b, kept) = [debt |-> b.debt - kept, coll |-> b.coll]
         /\ b.debt - kept \in Nat /\ b.coll \in Nat
BY DEF Levers!Swept, Levers!Given, Levers!Lesser

(* Paying back changes neither the position nor what is owed.              *)
LEMMA PositionKept ==
  ASSUME LoanNumbers, LoanInv, step \in {"pay", "pull", "return"},
         step' \in {"pull", "return", "done"}, UNCHANGED <<order, debt, coll, extra, start>>
  PROVE  /\ Repaying' /\ Taking' /\ Lent' = Lent /\ Floor' = Floor
         /\ Levers!Retain' = Levers!Retain /\ (Levers!Native' <=> Levers!Native)
<1>1. /\ Levers!Native' = Levers!Native /\ Levers!Freed' = Levers!Freed
      /\ Levers!Retain' = Levers!Retain
  BY DEF Levers!Retain, Levers!Native, Levers!Freed
<1>2. Floor' = Floor
  BY DEF Floor, Levers!MinOut
<1> QED
  BY <1>1, <1>2 DEF LoanInv, Repaying, Taking, Lent

(* Each step of the loan.                                                  *)
LEMMA LoanStep ==
  ASSUME LoanNumbers, LoanInv, Levers!Next PROVE LoanInv'
<1> USE DEF LoanInv
<1>0. /\ Levers!Retain' = IF order' = order THEN Levers!Retain ELSE Levers!Retain'
      /\ order' = order => Levers!Native' = Levers!Native /\ Levers!Freed' = Levers!Freed
  BY DEF Levers!Retain, Levers!Native, Levers!Freed
<1>1. CASE Levers!Borrow
  <2>1. /\ step = "called" /\ Levers!Valid /\ ~Levers!Native /\ lender >= order.repay
        /\ lender' = lender - order.repay
        /\ bal' = [bal EXCEPT !.debt = @ + order.repay]
        /\ flashActive' = TRUE /\ step' = "repay" /\ order' = order /\ debt' = debt
        /\ coll' = coll /\ extra' = extra /\ approved' = approved /\ paid' = paid /\ start' = start
    BY <1>1 DEF Levers!Borrow, Levers!position
  <2>2. bal'.debt = bal.debt + order.repay /\ bal'.coll = bal.coll
    BY <2>1 DEF LoanShape
  <2>3. LoanShape'
    BY <2>1, <2>2, <1>0 DEF LoanShape, Levers!Valid
  <2> QED
    BY <2>1, <2>2, <2>3, <1>0 DEF LoanShape, Repaying, Taking, Balanced, Lent
<1>2. CASE Levers!BorrowNative
  <2>1. /\ step = "called" /\ Levers!Valid /\ Levers!Native /\ order.repay <= debt
        /\ debt' = debt - order.repay
        /\ flashActive' = TRUE /\ step' = "withdraw" /\ order' = order /\ lender' = lender
        /\ coll' = coll /\ extra' = extra /\ approved' = approved /\ paid' = paid /\ start' = start
        /\ bal' = bal
    BY <1>2 DEF Levers!BorrowNative
  <2>3. LoanShape'
    BY <2>1, <1>0 DEF LoanShape, Levers!Valid
  <2>4. Repaying' /\ Taking'
    <3>1. /\ debt \in Nat /\ debt = start.debt /\ order.repay \in Nat /\ order.repay > 0
          /\ extra = 0 /\ coll = start.coll
      BY <2>1 DEF LoanShape, Repaying, Taking, Levers!Valid
    <3> QED
      BY <2>1, <3>1, <1>0 DEF Repaying, Taking
  <2>5. Balanced'
    <3>1. /\ debt \in Nat /\ debt = start.debt /\ order.repay \in Nat /\ bal.debt \in Nat
          /\ start.bal.debt \in Nat /\ start.lender \in Nat /\ extra = 0
      BY <2>1 DEF LoanShape, Repaying
    <3>2. Lent = 0 /\ Lent' = 0
      BY <2>1, <1>0 DEF Lent
    <3>3. bal.debt + extra = start.bal.debt + Lent - (start.debt - debt) + (start.debt - debt)
      BY <2>1 DEF Balanced
    <3>4. lender = start.lender - Lent /\ approved = 0 /\ paid = [debt |-> 0, coll |-> 0]
          /\ bal.coll = start.bal.coll
      BY <2>1 DEF Balanced
    <3>5. PICK b, d, e : b = bal.debt /\ d = start.bal.debt /\ e = start.debt - debt'
      OBVIOUS
    <3>6. b \in Nat /\ d \in Nat /\ e \in Int /\ b = d /\ b + 0 = d + 0 - e + e
      BY <2>1, <3>1, <3>2, <3>3, <3>5
    <3> QED
      BY <2>1, <3>1, <3>2, <3>4, <3>5, <3>6, <1>0 DEF Balanced
  <2> QED
    BY <2>3, <2>4, <2>5
<1>3. CASE Levers!Repay
  <2>1. PICK taken : taken = IF order.protocol = "aave" THEN Levers!Lesser(order.repay, debt) ELSE order.repay
    OBVIOUS
  <2>2. /\ step = "repay"
        /\ order.protocol = "moonwell" => order.repay <= debt
        /\ debt' = debt - Levers!Lesser(taken, debt)
        /\ extra' = taken - Levers!Lesser(taken, debt)
        /\ bal' = [bal EXCEPT !.debt = @ - taken]
        /\ step' = "withdraw" /\ order' = order /\ lender' = lender /\ flashActive' = flashActive
        /\ coll' = coll /\ approved' = approved /\ paid' = paid /\ start' = start
    BY <1>3, <2>1 DEF Levers!Repay
  <2>3. /\ ~Levers!Native /\ order.repay \in Nat \ {0} /\ debt \in Nat /\ bal.debt \in Nat
        /\ start.bal.debt \in Nat /\ debt = start.debt /\ extra = 0
        /\ bal.debt = start.bal.debt + order.repay
    BY <2>2 DEF LoanShape, Repaying, Balanced, Lent
  <2>4. taken \in Nat /\ taken <= order.repay /\ (debt > 0 => taken > 0)
    BY <2>1, <2>3 DEF Levers!Lesser
  <2>5. /\ Levers!Lesser(taken, debt) \in Nat /\ Levers!Lesser(taken, debt) <= taken
        /\ Levers!Lesser(taken, debt) <= debt /\ (debt > 0 => Levers!Lesser(taken, debt) > 0)
    BY <2>3, <2>4 DEF Levers!Lesser
  <2>6. PICK less : less = Levers!Lesser(taken, debt)
    OBVIOUS
  <2>7. /\ bal'.debt = bal.debt - taken /\ bal'.coll = bal.coll /\ bal' \in [debt : Nat, coll : Nat]
        /\ debt' = debt - less /\ extra' = taken - less
        /\ debt' \in Nat /\ extra' \in Nat
    BY <2>2, <2>3, <2>4, <2>5, <2>6 DEF LoanShape
  <2>8. LoanShape'
    BY <2>2, <2>7, <1>0 DEF LoanShape
  <2> QED
    BY <2>2, <2>3, <2>4, <2>5, <2>6, <2>7, <2>8, <1>0 DEF LoanShape, Repaying, Taking, Balanced, Lent
<1>4. CASE Levers!Withdraw
  <2>1. PICK freed : freed = Levers!Freed
    OBVIOUS
  <2>2. /\ step = "withdraw" /\ Levers!Allowed(freed) /\ coll' = coll - freed
        /\ Levers!Healthier /\ bal' = [bal EXCEPT !.coll = @ + freed]
        /\ step' = "swap" /\ order' = order /\ debt' = debt /\ extra' = extra
        /\ lender' = lender /\ flashActive' = flashActive
        /\ approved' = approved /\ paid' = paid /\ start' = start
    BY <1>4, <2>1 DEF Levers!Withdraw
  <2>3. freed \in Nat /\ freed <= coll /\ coll \in Nat /\ debt \in Nat /\ coll = start.coll
    BY <2>1, <2>2, FreedIsAmount DEF Levers!Allowed, LoanShape, Taking
  <2>4. bal'.coll = bal.coll + freed /\ bal'.debt = bal.debt /\ bal' \in [debt : Nat, coll : Nat]
        /\ coll' \in Nat
    BY <2>2, <2>3 DEF LoanShape
  <2>5. LoanShape'
    BY <2>2, <2>4, <1>0 DEF LoanShape
  <2>6. Repaying'
    BY <2>2, <1>0 DEF Repaying
  <2>7. Taking'
    <3>1. order.protocol = "aave" => coll' * start.debt > start.coll * debt \/ debt = 0
      BY <2>2 DEF Levers!Healthier
    <3>2. Levers!Shortfall(debt, coll') = 0
      BY <2>2, <2>3 DEF Levers!Shortfall, Levers!Allowed
    <3>3. Levers!Shortfall(start.debt, start.coll) >= 0
      BY DEF Levers!Shortfall, LoanShape
    <3> QED
      BY <2>1, <2>2, <2>3, <3>1, <3>2, <3>3, <1>0 DEF Taking
  <2>8. Balanced'
    BY <2>1, <2>2, <2>3, <2>4, <1>0 DEF Balanced, Lent
  <2> QED
    BY <2>5, <2>6, <2>7, <2>8
<1>5. CASE Levers!Swap
  <2>1. PICK freed, out : /\ freed = Levers!Freed
                          /\ out \in Levers!MinOut(freed) .. freed
                          /\ bal' = [debt |-> bal.debt + out, coll |-> bal.coll - freed]
    BY <1>5 DEF Levers!Swap
  <2>2. /\ step = "swap" /\ step' = "pay" /\ order' = order /\ debt' = debt /\ extra' = extra
        /\ lender' = lender /\ flashActive' = flashActive /\ coll' = coll
        /\ approved' = approved /\ paid' = paid /\ start' = start
    BY <1>5 DEF Levers!Swap, Levers!position
  <2>3. freed \in Nat /\ Levers!MinOut(freed) \in Nat /\ freed = start.coll - coll
    BY <2>1, <2>2, FreedIsAmount, FloorIsAmount DEF Taking
  <2>4. /\ bal'.debt = bal.debt + out /\ bal'.coll = bal.coll - freed /\ out \in Nat
        /\ bal.coll = start.bal.coll + freed
    BY <2>1, <2>2, <2>3 DEF Balanced
  <2>5. bal' \in [debt : Nat, coll : Nat]
    <3>1. bal.debt \in Nat /\ start.bal.coll \in Nat
      BY DEF LoanShape
    <3>2. bal.debt + out \in Nat /\ bal.coll - freed \in Nat
      BY <2>3, <2>4, <3>1
    <3> QED
      BY <2>1, <3>2
  <2>6. LoanShape'
    BY <2>2, <2>5, <1>0 DEF LoanShape
  <2>7. Repaying' /\ Taking'
    BY <2>2, <1>0 DEF Repaying, Taking
  <2>8. Levers!MinOut(freed)' = Levers!MinOut(freed) /\ Floor' = Floor /\ Floor = Levers!MinOut(freed)
    BY <2>1, <2>2, <2>3 DEF Floor, Levers!MinOut
  <2>9. Balanced'
    BY <2>1, <2>2, <2>3, <2>4, <2>8, <1>0 DEF Balanced, Lent, LoanShape
  <2> QED
    BY <2>6, <2>7, <2>9
<1>6. /\ debt \in Nat /\ extra \in Nat /\ start.debt \in Nat /\ start.bal.debt \in Nat
      /\ start.bal.coll \in Nat /\ order.repay \in Nat /\ lender \in Nat /\ start.lender \in Nat
      /\ bal \in [debt : Nat, coll : Nat] /\ bal.debt \in Nat /\ paid \in [debt : Nat, coll : Nat]
  BY DEF LoanShape
<1>7. /\ Levers!Retain \in Nat /\ Levers!Retain >= order.repay
      /\ Levers!Native => Levers!Retain = order.repay
  BY RetainIsAmount
<1>8. step # "called" /\ coll <= start.coll => Floor \in Nat
  <2> SUFFICES ASSUME step # "called", coll <= start.coll PROVE Floor \in Nat
    OBVIOUS
  <2>1. start.coll - coll \in Nat
    BY DEF LoanShape
  <2> QED
    BY <2>1, FloorIsAmount DEF Floor
<1>9. step \in {"pay", "pull", "return"} => Floor \in Nat /\ start.debt - debt \in Nat
  BY <1>6, <1>8 DEF Taking, Repaying
<1>10. CASE Levers!PayBack
  <2>1. PICK left : left = [bal EXCEPT !.debt = @ - Levers!Retain]
    OBVIOUS
  <2>2. /\ step = "pay" /\ ~Levers!Native /\ bal.debt >= Levers!Retain
        /\ lender' = lender + Levers!Retain
        /\ bal' = Levers!Swept(left, 0) /\ paid' = Levers!Given(left, 0)
        /\ step' = "return" /\ UNCHANGED <<order, debt, coll, extra, start, approved, flashActive>>
    BY <1>10, <2>1 DEF Levers!PayBack, Levers!position
  <2>3. left.debt = bal.debt - Levers!Retain /\ left.coll = bal.coll
        /\ left \in [debt : Nat, coll : Nat]
    BY <2>1, <2>2, <1>6, <1>7
  <2>4. /\ bal' = [debt |-> 0, coll |-> 0]
        /\ paid' = [debt |-> left.debt - 0, coll |-> left.coll]
    BY <2>2, <2>3, SweptUp
  <2>5. paid'.debt = bal.debt - Levers!Retain /\ paid'.coll = start.bal.coll
    BY <2>2, <2>3, <2>4, <1>6, <1>7 DEF Balanced
  <2>6. LoanShape'
    BY <2>2, <2>3, <2>4, <1>6, <1>7 DEF LoanShape
  <2>7. Balanced'
    BY <2>2, <2>4, <2>5, <1>6, <1>7, <1>9, PositionKept DEF Balanced, Lent
  <2> QED
    BY <2>2, <2>6, <2>7, PositionKept
<1>11. CASE Levers!ApproveBack
  <2>2. /\ step = "pay" /\ ~Levers!Native /\ bal.debt >= Levers!Retain
        /\ approved' = Levers!Retain
        /\ bal' = Levers!Swept(bal, Levers!Retain) /\ paid' = Levers!Given(bal, Levers!Retain)
        /\ step' = "pull" /\ UNCHANGED <<order, debt, coll, extra, start, lender, flashActive>>
    BY <1>11 DEF Levers!ApproveBack, Levers!position
  <2>4. /\ bal' = [debt |-> Levers!Retain, coll |-> 0]
        /\ paid' = [debt |-> bal.debt - Levers!Retain, coll |-> bal.coll]
        /\ bal.debt - Levers!Retain \in Nat /\ bal.coll \in Nat
    BY <2>2, <1>6, <1>7, SweptUp
  <2>5. paid'.debt = bal.debt - Levers!Retain /\ paid'.coll = start.bal.coll
    BY <2>2, <2>4, <1>6, <1>7 DEF Balanced
  <2>6. LoanShape'
    BY <2>2, <2>4, <1>6, <1>7 DEF LoanShape
  <2>7. Balanced'
    BY <2>2, <2>4, <2>5, <1>6, <1>7, <1>9, PositionKept DEF Balanced, Lent
  <2> QED
    BY <2>2, <2>6, <2>7, PositionKept
<1>12. CASE Levers!ApproveNative
  <2>2. /\ step = "pay" /\ Levers!Native /\ bal.debt >= Levers!Retain
        /\ approved' = Levers!Retain
        /\ step' = "pull"
        /\ UNCHANGED <<order, debt, coll, extra, start, lender, flashActive, bal, paid>>
    BY <1>12 DEF Levers!ApproveNative, Levers!position
  <2>6. LoanShape'
    BY <2>2, <1>6, <1>7 DEF LoanShape
  <2>7. Balanced'
    BY <2>2, <1>6, <1>7, <1>9, PositionKept DEF Balanced, Lent, Repaying
  <2> QED
    BY <2>2, <2>6, <2>7, PositionKept
<1>13. CASE Levers!Pull
  <2>2. /\ step = "pull" /\ bal.debt >= Levers!Retain
        /\ lender' = lender + Levers!Retain /\ approved' = 0
        /\ bal' = [bal EXCEPT !.debt = @ - Levers!Retain]
        /\ step' = "return" /\ UNCHANGED <<order, debt, coll, extra, start, flashActive, paid>>
    BY <1>13 DEF Levers!Pull, Levers!position
  <2>3. bal'.debt = bal.debt - Levers!Retain /\ bal'.coll = bal.coll
        /\ bal' \in [debt : Nat, coll : Nat]
    BY <2>2, <1>6, <1>7
  <2>6. LoanShape'
    BY <2>2, <2>3, <1>6, <1>7 DEF LoanShape
  <2>7. Balanced'
    <3>1. CASE Levers!Native
      BY <2>2, <2>3, <1>6, <1>7, <1>9, <3>1, PositionKept DEF Balanced, Lent
    <3>2. CASE ~Levers!Native
      <4>1. bal = [debt |-> Levers!Retain, coll |-> 0]
        BY <2>2, <3>2 DEF Balanced
      <4>2. bal' = [debt |-> 0, coll |-> 0]
        BY <2>2, <4>1, <1>7
      <4> QED
        BY <2>2, <4>2, <1>6, <1>7, <1>9, <3>2, PositionKept DEF Balanced, Lent
    <3> QED
      BY <3>1, <3>2
  <2> QED
    BY <2>2, <2>6, <2>7, PositionKept
<1>14. CASE Levers!Return
  <2>2. /\ step = "return" /\ flashActive' = FALSE /\ step' = "done"
        /\ UNCHANGED <<order, debt, coll, extra, start, approved, lender>>
    BY <1>14 DEF Levers!Return, Levers!position
  <2>3. CASE Levers!Native
    <3>1. bal' = Levers!Swept(bal, 0) /\ paid' = Levers!Given(bal, 0)
      BY <1>14, <2>3 DEF Levers!Return
    <3>2. /\ bal' = [debt |-> 0, coll |-> 0]
          /\ paid' = [debt |-> bal.debt - 0, coll |-> bal.coll] /\ bal.coll \in Nat
      BY <3>1, <1>6, SweptUp
    <3>3. paid'.debt = bal.debt /\ paid'.coll = start.bal.coll
      BY <2>2, <2>3, <3>2, <1>6 DEF Balanced
    <3>4. LoanShape'
      <4>1. bal' \in [debt : Nat, coll : Nat] /\ paid' \in [debt : Nat, coll : Nat]
        BY <3>2, <1>6
      <4> QED
        BY <2>2, <4>1 DEF LoanShape
    <3>5. Balanced'
      BY <2>2, <2>3, <3>2, <3>3, <1>6, <1>7, <1>9, PositionKept DEF Balanced, Lent, Repaying
    <3> QED
      BY <2>2, <3>4, <3>5, PositionKept
  <2>4. CASE ~Levers!Native
    <3>1. UNCHANGED <<bal, paid>>
      BY <1>14, <2>4 DEF Levers!Return
    <3>4. LoanShape'
      BY <2>2, <3>1, <1>6 DEF LoanShape
    <3>5. Balanced'
      BY <2>2, <2>4, <3>1, <1>6, <1>7, <1>9, PositionKept DEF Balanced, Lent
    <3> QED
      BY <2>2, <3>4, <3>5, PositionKept
  <2> QED
    BY <2>3, <2>4
<1> QED
  BY <1>1, <1>2, <1>3, <1>4, <1>5, <1>10, <1>11, <1>12, <1>13, <1>14 DEF Levers!Next

(* A loan that is done is settled.                                         *)
LEMMA DoneIsSettled ==
  ASSUME LoanNumbers, LoanInv PROVE Levers!LoanSettled
<1> SUFFICES ASSUME step = "done" PROVE Levers!LoanSettled
  BY DEF Levers!LoanSettled
<1>1. bal = [debt |-> 0, coll |-> 0] /\ paid.coll = start.bal.coll
  BY DEF LoanInv, Balanced
<1>2. lender - start.lender = Levers!Retain - IF Levers!Native THEN 0 ELSE order.repay
  BY DEF LoanInv, Balanced, Lent
<1>3. paid.debt + extra >= start.bal.debt + Levers!MinOut(start.coll - coll)
                            - (start.debt - debt) - (Levers!Retain - order.repay)
  BY DEF LoanInv, Balanced, Floor
<1> QED
  BY <1>1, <1>2, <1>3 DEF LoanInv, LoanShape, Repaying, Taking, Balanced, Levers!LoanSettled

----------------------------------------------------------------------------
(* Sums over finite sets, as MapThenSumSet computes them: it takes the     *)
(* elements out one by one.                                                *)

Chosen(s) == CHOOSE x \in s : TRUE

(* f adds up what g is on each set of elements of S.                       *)
IsSum(f, g, S) ==
  f = [s \in SUBSET S |-> IF s = {} THEN 0 ELSE g[Chosen(s)] + f[s \ {Chosen(s)}]]

(* Taking an element out of a finite set leaves one element less.          *)
LEMMA TakenOut ==
  ASSUME NEW S, IsFiniteSet(S), NEW s \in SUBSET S, s # {}
  PROVE  /\ Chosen(s) \in s /\ s \ {Chosen(s)} \in SUBSET S
         /\ Cardinality(s) \in Nat \ {0} /\ Cardinality(s \ {Chosen(s)}) = Cardinality(s) - 1
<1>1. Chosen(s) \in s
  BY DEF Chosen
<1>2. IsFiniteSet(s)
  BY FS_Subset
<1>3. Cardinality(s) \in Nat /\ Cardinality(s) # 0
  BY <1>2, FS_CardinalityType, FS_EmptySet
<1>4. Cardinality(s \ {Chosen(s)}) = Cardinality(s) - 1
  BY <1>1, <1>2, FS_RemoveElement
<1> QED
  BY <1>1, <1>3, <1>4

(* The recursion has a solution.                                           *)
LEMMA SumExists ==
  ASSUME NEW S, IsFiniteSet(S), NEW g PROVE \E f : IsSum(f, g, S)
<1> DEFINE Value(f, s) == IF s = {} THEN 0 ELSE g[Chosen(s)] + f[s \ {Chosen(s)}]
           Solves(f, n) == \A s \in SUBSET S : Cardinality(s) <= n => f[s] = Value(f, s)
           Unsolved == {n \in Nat : ~ \E f : Solves(f, n)}
<1>1. 0 \notin Unsolved
  <2>1. PICK f : f = [s \in SUBSET S |-> 0]
    OBVIOUS
  <2>2. ASSUME NEW s \in SUBSET S, Cardinality(s) <= 0 PROVE s = {}
    <3>1. s # {} => Cardinality(s) \in Nat \ {0}
      BY TakenOut
    <3> QED
      BY <2>2, <3>1
  <2>3. Solves(f, 0)
    BY <2>1, <2>2
  <2> QED
    BY <2>3
<1>2. ASSUME NEW n \in Nat, n \notin Unsolved PROVE n + 1 \notin Unsolved
  <2>1. PICK f : Solves(f, n)
    BY <1>2
  <2>2. PICK h : h = [s \in SUBSET S |-> IF Cardinality(s) <= n THEN f[s] ELSE Value(f, s)]
    OBVIOUS
  <2>3. ASSUME NEW s \in SUBSET S, Cardinality(s) <= n + 1 PROVE h[s] = Value(h, s)
    <3>1. CASE s = {}
      <4>1. Cardinality(s) <= n
        BY <3>1, FS_EmptySet
      <4> QED
        BY <2>1, <2>2, <3>1, <4>1
    <3>2. CASE s # {}
      <4>1. /\ s \ {Chosen(s)} \in SUBSET S /\ Cardinality(s) \in Nat
            /\ Cardinality(s \ {Chosen(s)}) = Cardinality(s) - 1
        BY <3>2, TakenOut
      <4>2. Cardinality(s \ {Chosen(s)}) <= n
        BY <4>1, <2>3
      <4>3. h[s \ {Chosen(s)}] = f[s \ {Chosen(s)}]
        BY <2>2, <4>1, <4>2
      <4>4. h[s] = Value(f, s)
        BY <2>1, <2>2, <3>2
      <4> QED
        BY <3>2, <4>3, <4>4
    <3> QED
      BY <3>1, <3>2
  <2>4. Solves(h, n + 1)
    BY <2>3
  <2> QED
    BY <2>4
<1>3. Unsolved = {}
  <2> SUFFICES ASSUME Unsolved # {} PROVE FALSE
    OBVIOUS
  <2> HIDE DEF Unsolved
  <2>1. Unsolved \in SUBSET Nat
    BY DEF Unsolved
  <2>2. PICK n \in Unsolved : \A m \in Unsolved : n <= m
    BY <2>1, LeastNumber, Zenon
  <2>3. n \in Nat /\ n # 0
    BY <1>1, <2>1, <2>2
  <2>4. n - 1 \in Nat /\ n - 1 \notin Unsolved /\ (n - 1) + 1 = n
    BY <2>2, <2>3
  <2> QED
    BY <1>2, <2>2, <2>4
<1>4. Cardinality(S) \in Nat
  BY FS_CardinalityType
<1>5. PICK f : Solves(f, Cardinality(S))
  BY <1>3, <1>4
<1>6. \A s \in SUBSET S : Cardinality(s) <= Cardinality(S)
  BY FS_Subset
<1>7. PICK h : h = [s \in SUBSET S |-> f[s]]
  OBVIOUS
<1>8. ASSUME NEW s \in SUBSET S PROVE h[s] = Value(h, s)
  <2>1. f[s] = Value(f, s)
    BY <1>5, <1>6
  <2>2. s # {} => s \ {Chosen(s)} \in SUBSET S
    OBVIOUS
  <2> QED
    BY <1>7, <2>1, <2>2
<1>9. h = [s \in SUBSET S |-> Value(h, s)]
  BY <1>7, <1>8
<1> QED
  BY <1>9 DEF IsSum

(* What sums are when what is added up changes at one element.             *)
LEMMA SumMoves ==
  ASSUME NEW S, IsFiniteSet(S), NEW g \in [S -> Int], NEW h \in [S -> Int],
         NEW x, NEW d \in Int, \A y \in S \ {x} : h[y] = g[y], x \in S => h[x] = g[x] + d,
         NEW f, IsSum(f, g, S), NEW e, IsSum(e, h, S)
  PROVE  f[S] \in Int /\ (x \in S => e[S] = f[S] + d) /\ (x \notin S => e[S] = f[S])
<1> DEFINE Moves(s) == f[s] \in Int /\ e[s] = f[s] + IF x \in s THEN d ELSE 0
           Unmoved == {n \in Nat : \E s \in SUBSET S : Cardinality(s) = n /\ ~Moves(s)}
<1>1. ASSUME NEW s \in SUBSET S
      PROVE  /\ f[s] = IF s = {} THEN 0 ELSE g[Chosen(s)] + f[s \ {Chosen(s)}]
             /\ e[s] = IF s = {} THEN 0 ELSE h[Chosen(s)] + e[s \ {Chosen(s)}]
  BY Zenon DEF IsSum
<1>2. ASSUME NEW s \in SUBSET S, s # {}, Moves(s \ {Chosen(s)}) PROVE Moves(s)
  <2>1. PICK c \in s : c = Chosen(s)
    BY <1>2, TakenOut
  <2>2. c \in S /\ g[c] \in Int /\ h[c] = g[c] + IF c = x THEN d ELSE 0
    BY <2>1
  <2>3. f[s] = g[c] + f[s \ {c}] /\ e[s] = h[c] + e[s \ {c}]
    BY <1>1, <1>2, <2>1
  <2>4. f[s \ {c}] \in Int /\ e[s \ {c}] = f[s \ {c}] + IF x \in s \ {c} THEN d ELSE 0
    BY <1>2, <2>1
  <2> QED
    BY <2>1, <2>2, <2>3, <2>4
<1>3. Moves({})
  <2>1. f[{}] = 0 /\ e[{}] = 0 /\ x \notin {}
    BY <1>1
  <2> QED
    BY <2>1
<1>4. Unmoved = {}
  <2> SUFFICES ASSUME Unmoved # {} PROVE FALSE
    OBVIOUS
  <2>1. Unmoved \in SUBSET Nat
    OBVIOUS
  <2>2. PICK n \in Unmoved : \A m \in Unmoved : n <= m
    <3> HIDE DEF Unmoved
    <3> QED
      BY <2>1, LeastNumber, Zenon
  <2>3. PICK s \in SUBSET S : Cardinality(s) = n /\ ~Moves(s)
    BY <2>2
  <2>4. s # {}
    BY <1>3, <2>3
  <2>5. /\ s \ {Chosen(s)} \in SUBSET S /\ Cardinality(s) \in Nat \ {0}
        /\ Cardinality(s \ {Chosen(s)}) = Cardinality(s) - 1
    BY <2>4, TakenOut
  <2>6. ~Moves(s \ {Chosen(s)})
    BY <1>2, <2>3, <2>4
  <2>7. n - 1 \in Unmoved /\ ~(n <= n - 1)
    BY <2>3, <2>5, <2>6
  <2> QED
    BY <2>2, <2>7
<1>5. Cardinality(S) \in Nat
  BY FS_CardinalityType
<1>6. Moves(S)
  BY <1>4, <1>5
<1> QED
  BY <1>6

(* There is one sum.                                                       *)
LEMMA SumIsOne ==
  ASSUME NEW S, IsFiniteSet(S), NEW g, g \in [S -> Int], NEW f, IsSum(f, g, S), NEW e, IsSum(e, g, S)
  PROVE  f[S] \in Int /\ e[S] = f[S]
<1>1. PICK x : x = S
  OBVIOUS
<1>2. 0 \in Int
  OBVIOUS
<1>3. x \in S => g[x] = g[x] + 0
  OBVIOUS
<1>4. (x \in S => e[S] = f[S] + 0) /\ (x \notin S => e[S] = f[S]) /\ f[S] \in Int
  BY <1>2, <1>3, SumMoves
<1> QED
  BY <1>4

(* What is nowhere anything adds up to nothing.                            *)
LEMMA SumOfNothing ==
  ASSUME NEW S, IsFiniteSet(S), NEW g, \A y \in S : g[y] = 0, NEW f, IsSum(f, g, S)
  PROVE  f[S] = 0
<1> DEFINE Something == {n \in Nat : \E s \in SUBSET S : Cardinality(s) = n /\ f[s] # 0}
<1>1. ASSUME NEW s \in SUBSET S
      PROVE  f[s] = IF s = {} THEN 0 ELSE g[Chosen(s)] + f[s \ {Chosen(s)}]
  BY Zenon DEF IsSum
<1>2. Something = {}
  <2> SUFFICES ASSUME Something # {} PROVE FALSE
    OBVIOUS
  <2>1. Something \in SUBSET Nat
    OBVIOUS
  <2>2. PICK n \in Something : \A m \in Something : n <= m
    <3> HIDE DEF Something
    <3> QED
      BY <2>1, LeastNumber, Zenon
  <2>3. PICK s \in SUBSET S : Cardinality(s) = n /\ f[s] # 0
    BY <2>2
  <2>4. s # {}
    BY <1>1, <2>3
  <2>5. /\ Chosen(s) \in s /\ s \ {Chosen(s)} \in SUBSET S /\ Cardinality(s) \in Nat \ {0}
        /\ Cardinality(s \ {Chosen(s)}) = Cardinality(s) - 1
    BY <2>4, TakenOut
  <2>6. f[s \ {Chosen(s)}] # 0
    <3> SUFFICES ASSUME f[s \ {Chosen(s)}] = 0 PROVE FALSE
      OBVIOUS
    <3>1. f[s] = 0 + 0
      BY <1>1, <2>4, <2>5
    <3> QED
      BY <2>3, <3>1
  <2>7. n - 1 \in Something /\ ~(n <= n - 1)
    BY <2>3, <2>5, <2>6
  <2> QED
    BY <2>2, <2>7
<1>3. Cardinality(S) \in Nat
  BY FS_CardinalityType
<1> QED
  BY <1>2, <1>3

----------------------------------------------------------------------------
(* The exit.                                                               *)

(* The parts of the assumption that are about the scale of an exit.        *)
LEMMA ExitParts ==
  ASSUME ExitNumbers PROVE IsFiniteSet(Market) /\ ExitScale
BY DEF ExitNumbers

(* The scale of an exit in numbers.                                        *)
LEMMA ScaleIsNumbers ==
  ASSUME ExitNumbers
  PROVE  /\ DeployBps \in 0 .. 10000 /\ Ceiling \in 0 .. 10000
         /\ MTokens \in Nat \ {0} /\ Stray \in Nat
<1>1. ExitScale
  BY ExitParts
<1> QED
  BY <1>1 DEF ExitScale

(* What the executor held of a token before an exit is an amount.          *)
LEMMA StrayIsAmount ==
  ASSUME ExitNumbers PROVE Stray \in Nat
BY ScaleIsNumbers

Sides == {"variable", "stable", "collateral"}

ExitShape ==
  /\ stage \in {"called", "repay", "withdraw", "done"}
  /\ permit \in Scoped \union {Nothing} /\ legs \in Seq(ExitLeg)
  /\ pos \in [Market -> Position]
  /\ wallet \in [Exits!Token -> Nat] /\ held \in [Exits!Token -> Nat]
  /\ before.pos \in [Market -> Position] /\ before.wallet \in [Exits!Token -> Nat]
  /\ \A m \in Market : ProtocolOf[m] # Exits!AaveV3 => before.pos[m].stable = 0
  /\ \A i \in 1 .. Len(legs) : LegFits(legs[i])
  /\ due \subseteq [market : Market, side : Sides, amount : Nat]
  /\ rest \subseteq 1 .. Len(legs)

(* What an Aave leg was to repay and to take when the call was made.       *)
Planned(l) ==
  LET p == before.pos[l.market]
      v == Exits!Lesser(p.variable, l.repay)
      s == Exits!Lesser(p.stable, l.repay - v)
  IN  [variable   |-> Exits!capRepay(v, p.variable),
       stable     |-> Exits!capRepay(s, p.stable),
       collateral |-> Exits!Lesser(p.collateral, l.withdraw)]

(* What the permit says of a debt.                                         *)
Share(amount) == (amount * permit.repay) \div 10000

(* An Aave leg does what was signed.                                       *)
DoesAsSigned(l) ==
  Exits!Delegated =>
    LET p == before.pos[l.market]
    IN  /\ l.withdraw > 0 => permit.kind = Exits!FullExit
        /\ Planned(l).variable = IF l.repay > 0 THEN Share(p.variable) ELSE 0
        /\ Planned(l).stable = IF l.repay > 0 THEN Share(p.stable) ELSE 0
        /\ Planned(l).collateral = IF l.withdraw > 0 THEN p.collateral ELSE 0
        /\ Planned(l).variable + Planned(l).stable + Planned(l).collateral > 0

(* The turn of a side of an Aave leg is still to come.                     *)
Waits(i, side) == \E d \in due : d.market = legs[i].market /\ d.side = side

(* An Aave market is what it was, less what the plan says of the sides     *)
(* whose turn has come.                                                    *)
HowFar(i) ==
  LET was  == before.pos[legs[i].market]
      is   == pos[legs[i].market]
      plan == Planned(legs[i])
  IN  /\ is.variable = was.variable - IF Waits(i, "variable") THEN 0 ELSE plan.variable
      /\ is.stable = was.stable - IF Waits(i, "stable") THEN 0 ELSE plan.stable
      /\ is.collateral = was.collateral - IF Waits(i, "collateral") THEN 0 ELSE plan.collateral

(* What is due is part of a plan.                                          *)
DuePlanned ==
  \A d \in due : \E i \in Exits!AaveLegs :
    /\ legs[i].market = d.market
    /\ d.side = "variable" => d.amount = Planned(legs[i]).variable
    /\ d.side = "stable" => d.amount = Planned(legs[i]).stable
    /\ d.side = "collateral" => d.amount = Planned(legs[i]).collateral

LegsOf(m) == {i \in 1 .. Len(legs) : legs[i].market = m}

(* What the checks of the entry point leave true of the call.              *)
Checked ==
  /\ \A i, j \in 1 .. Len(legs) :
       ProtocolOf[legs[i].market] = ProtocolOf[legs[j].market] /\ legs[i].asset = legs[j].asset
         => i = j
  /\ Exits!Delegated =>
       /\ permit.repay <= 10000 /\ permit.slip <= Ceiling
       /\ \A i \in 1 .. Len(legs) : legs[i].withdraw > 0 => permit.kind = Exits!FullExit

(* How far another market is: as many legs as have repaid its debt have    *)
(* each taken the signed fraction of what was left, and the first of those *)
(* that took collateral has taken it all.                                  *)
SoFar(m) ==
  LET was  == before.pos[m]
      is   == pos[m]
      part == Share(was.variable)
  IN  /\ is.variable <= was.variable /\ is.stable = was.stable
      /\ is.collateral <= was.collateral
      /\ Exits!Repayers(m) = {} => is.variable = was.variable
      /\ Exits!Takers(m) = {} => is.collateral = was.collateral
      /\ Exits!Delegated =>
           /\ Exits!Repayers(m) # {} =>
                /\ part <= was.variable - is.variable
                /\ was.variable - is.variable <= Cardinality(Exits!Repayers(m)) * part
           /\ Exits!Takers(m) # {} => is.collateral = 0

(* A leg has moved something.                                              *)
Worked(i) ==
  LET m == legs[i].market
  IN  Exits!Delegated =>
        \/ pos[Owes[m]].variable < before.pos[Owes[m]].variable
        \/ pos[m].collateral < before.pos[m].collateral

ExitProgress ==
  /\ stage = "called" => pos = before.pos /\ due = {} /\ rest = {}
  /\ stage = "withdraw" => \A d \in due : d.side = "collateral"
  /\ stage = "done" => due = {} /\ rest = {}
  /\ rest \intersect Exits!AaveLegs = {}
  /\ \A m \in Market : ProtocolOf[m] = Exits!AaveV3 /\ LegsOf(m) = {} => pos[m] = before.pos[m]
  /\ DuePlanned
  /\ stage # "called" =>
       /\ Checked
       /\ \A i \in Exits!AaveLegs : HowFar(i) /\ DoesAsSigned(legs[i])
       /\ \A m \in Market : ProtocolOf[m] # Exits!AaveV3 => SoFar(m)
       /\ \A i \in (1 .. Len(legs)) \ rest : i \notin Exits!AaveLegs => Worked(i)

(* The owner has paid no more than the debts fell by, and the executor     *)
(* holds for the owner what was not sent yet.                              *)
OwnerWhole ==
  /\ stage \in {"called", "done"} => held[Usdc] = Stray
  /\ stage = "called" => wallet = before.wallet
  /\ \A t \in Exits!Token \ {Usdc} : held[t] = Stray
  /\ held[Usdc] >= Stray
  /\ stage # "called" =>
       /\ \A t \in Exits!Token \ {Usdc} : wallet[t] >= before.wallet[t] - Exits!Repaid(t)
       /\ wallet[Usdc] + held[Usdc] - Stray >=
            before.wallet[Usdc] - Exits!Repaid(Usdc) + Exits!Fetched

ExitInv == ExitShape /\ ExitProgress /\ OwnerWhole

(* What is assumed of the markets.                                         *)
LEMMA MarketsKnown ==
  ASSUME ExitNumbers, NEW m \in Market
  PROVE  /\ Owes[m] \in Market /\ ProtocolOf[Owes[m]] = ProtocolOf[m]
         /\ DebtToken[Owes[m]] = DebtToken[m]
         /\ ProtocolOf[m] # Exits!CompoundV3 => Owes[m] = m
BY DEF ExitNumbers, MarketsFit

(* A fraction of an amount is an amount, and no larger.                    *)
LEMMA FractionIsAmount ==
  ASSUME NEW x \in Nat, NEW k \in Nat
  PROVE  /\ (x * k) \div 10000 \in Nat
         /\ k <= 10000 => (x * k) \div 10000 <= x
         /\ k = 10000 => (x * k) \div 10000 = x
<1>1. PICK y \in Nat : y = x * k
  <2>1. x * k \in Nat
    OBVIOUS
  <2> QED
    BY <2>1
<1>2. y \div 10000 \in Nat /\ 10000 * (y \div 10000) <= y
  OBVIOUS
<1>3. ASSUME k <= 10000 PROVE y <= 10000 * x
  <2>1. PICK e \in Nat : k + e = 10000
    <3>1. 10000 - k \in Nat /\ k + (10000 - k) = 10000
      BY <1>3
    <3> QED
      BY <3>1
  <2>2. x * e \in Nat
    OBVIOUS
  <2>3. x * (k + e) = x * k + x * e
    OBVIOUS
  <2> QED
    BY <1>1, <2>1, <2>2, <2>3
<1>4. ASSUME k <= 10000 PROVE y \div 10000 <= x
  BY <1>2, <1>3, <1>4
<1>5. ASSUME k = 10000 PROVE y \div 10000 = x
  BY <1>1, <1>5
<1> QED
  BY <1>1, <1>2, <1>4, <1>5

(* What a leg repays of a debt is an amount and no more than it asks for.  *)
LEMMA CapIsAmount ==
  ASSUME ExitShape, NEW a \in Nat, NEW live \in Nat
  PROVE  Exits!capRepay(a, live) \in 0 .. a
<1>1. PICK k \in Nat : k = Exits!Bps
  <2>1. permit # Nothing => permit \in Scoped
    BY DEF ExitShape
  <2>2. permit # Nothing => permit.repay \in Nat
    BY <2>1 DEF Scoped
  <2>3. Exits!Bps \in Nat
    BY <2>2 DEF Exits!Bps, Exits!Delegated, Exits!BpsDenominator
  <2> QED
    BY <2>3
<1>2. PICK part \in Nat : part = (live * k) \div 10000
  BY FractionIsAmount
<1>3. Exits!capRepay(a, live) = IF k >= 10000 THEN a ELSE IF a < part THEN a ELSE part
  BY <1>1, <1>2 DEF Exits!capRepay, Exits!BpsDenominator, Exits!Lesser
<1> QED
  BY <1>3

(* A plan that passes the floor of its permit is what the permit says.     *)
LEMMA FloorIsShare ==
  ASSUME ExitShape, Exits!Delegated, permit.repay <= 10000,
         NEW live \in Nat, NEW a \in Nat, a <= live,
         Exits!RepayFloor(Exits!capRepay(a, live), live)
  PROVE  Exits!capRepay(a, live) = Share(live)
<1>0. permit \in Scoped
  BY DEF ExitShape, Exits!Delegated
<1>1. PICK k \in Nat : k = permit.repay
  BY <1>0 DEF Scoped
<1>2. PICK part \in Nat : part = (live * k) \div 10000
  BY FractionIsAmount
<1>3. k <= 10000 /\ part <= live /\ (k = 10000 => part = live) /\ Share(live) = part
  BY <1>1, <1>2, FractionIsAmount DEF Share
<1>4. \A x \in Nat : Exits!capRepay(x, live) = IF k >= 10000 THEN x ELSE IF x < part THEN x ELSE part
  BY <1>1, <1>2 DEF Exits!capRepay, Exits!BpsDenominator, Exits!Lesser, Exits!Bps
<1>5. Exits!capRepay(a, live) >= Exits!capRepay(live, live)
  BY DEF Exits!RepayFloor
<1> QED
  BY <1>3, <1>4, <1>5

(* What a leg is to repay and to take is there.                            *)
LEMMA PlannedIsAmount ==
  ASSUME ExitShape, NEW l \in ExitLeg
  PROVE  LET p == before.pos[l.market]
         IN  /\ Planned(l) \in Position /\ p \in Position
             /\ Planned(l).variable <= p.variable /\ Planned(l).stable <= p.stable
             /\ Planned(l).collateral <= p.collateral
<1>1. PICK p \in Position : p = before.pos[l.market]
  BY DEF ExitShape, ExitLeg
<1>2. PICK v \in Nat : v = Exits!Lesser(p.variable, l.repay) /\ v <= p.variable /\ v <= l.repay
  <2>1. p.variable \in Nat /\ l.repay \in Nat
    BY DEF Position, ExitLeg
  <2> QED
    BY <2>1 DEF Exits!Lesser
<1>3. PICK s \in Nat : s = Exits!Lesser(p.stable, l.repay - v) /\ s <= p.stable
  <2>1. p.stable \in Nat /\ l.repay \in Nat /\ l.repay - v \in Nat
    BY <1>2 DEF Position, ExitLeg
  <2> QED
    BY <2>1 DEF Exits!Lesser
<1>4. PICK c \in Nat : c = Exits!Lesser(p.collateral, l.withdraw) /\ c <= p.collateral
  <2>1. p.collateral \in Nat /\ l.withdraw \in Nat
    BY DEF Position, ExitLeg
  <2> QED
    BY <2>1 DEF Exits!Lesser
<1>5. p.variable \in Nat /\ p.stable \in Nat
  BY DEF Position
<1>6. PICK cv \in 0 .. v : cv = Exits!capRepay(v, p.variable)
  BY <1>5, CapIsAmount
<1>7. PICK cs \in 0 .. s : cs = Exits!capRepay(s, p.stable)
  BY <1>5, CapIsAmount
<1>8. Planned(l) = [variable |-> cv, stable |-> cs, collateral |-> c]
  BY <1>1, <1>2, <1>3, <1>4, <1>6, <1>7 DEF Planned
<1>9. [variable |-> cv, stable |-> cs, collateral |-> c] \in Position
  BY <1>2, <1>3, <1>4, <1>6, <1>7 DEF Position
<1>10. cv <= p.variable /\ cs <= p.stable /\ c <= p.collateral
  BY <1>2, <1>3, <1>4, <1>5, <1>6, <1>7
<1> QED
  BY <1>1, <1>8, <1>9, <1>10

(* On Aave a market is its own debt, and a leg takes what it names.        *)
LEMMA AaveLeg ==
  ASSUME ExitNumbers, NEW l \in ExitLeg, ProtocolOf[l.market] = Exits!AaveV3
  PROVE  Owes[l.market] = l.market /\ (Exits!Takes(l) <=> l.withdraw > 0)
<1>1. Exits!AaveV3 # Exits!CompoundV3
  BY DEF Exits!AaveV3, Exits!CompoundV3
<1>2. l.market \in Market
  BY DEF ExitLeg
<1> QED
  BY <1>1, <1>2, MarketsKnown DEF Exits!Takes

(* While an Aave market is as it was, the plan is the one made at the      *)
(* start.                                                                  *)
LEMMA PlanIsPlanned ==
  ASSUME ExitNumbers, ExitShape, NEW l \in ExitLeg, ProtocolOf[l.market] = Exits!AaveV3,
         pos[l.market] = before.pos[l.market]
  PROVE  Exits!Plan(l) = Planned(l)
<1>1. Owes[l.market] = l.market /\ (Exits!Takes(l) <=> l.withdraw > 0)
  BY AaveLeg
<1>2. PICK p \in Position : p = before.pos[l.market] /\ p = pos[l.market]
  BY DEF ExitShape, ExitLeg
<1>3. PICK c \in Nat : c = p.collateral
  BY DEF Position
<1>4. PICK w \in Nat : w = l.withdraw
  BY DEF ExitLeg
<1>5. Exits!Lesser(c, w) = IF w > 0 THEN Exits!Lesser(c, w) ELSE 0
  BY <1>3, <1>4 DEF Exits!Lesser
<1>6. Exits!Lesser(p.collateral, l.withdraw)
        = IF Exits!Takes(l) THEN Exits!Lesser(pos[l.market].collateral, l.withdraw) ELSE 0
  BY <1>1, <1>2, <1>3, <1>4, <1>5
<1> QED
  BY <1>1, <1>2, <1>6 DEF Exits!Plan, Planned

(* What of each debt a leg asks to repay, before the permit caps it.       *)
LEMMA Asking ==
  ASSUME ExitShape, NEW l \in ExitLeg, NEW p \in Position, p = before.pos[l.market]
  PROVE  \E v, s \in Nat :
           /\ v <= p.variable /\ s <= p.stable
           /\ Planned(l).variable = Exits!capRepay(v, p.variable)
           /\ Planned(l).stable = Exits!capRepay(s, p.stable)
           /\ l.repay = 0 => Planned(l).variable = 0 /\ Planned(l).stable = 0
<1>2. p.variable \in Nat /\ p.stable \in Nat /\ l.repay \in Nat
  BY DEF Position, ExitLeg
<1>3. PICK v \in Nat : /\ v = Exits!Lesser(p.variable, l.repay) /\ (l.repay = 0 => v = 0)
                        /\ v <= l.repay /\ v <= p.variable
  BY <1>2 DEF Exits!Lesser
<1>4. PICK w \in Nat : w = l.repay - v /\ (l.repay = 0 => w = 0)
  <2>1. l.repay - v \in Nat /\ (l.repay = 0 => l.repay - v = 0)
    BY <1>2, <1>3
  <2> QED
    BY <2>1
<1>5. PICK s \in Nat : s = Exits!Lesser(p.stable, w) /\ (w = 0 => s = 0) /\ s <= p.stable
  BY <1>2 DEF Exits!Lesser
<1>6. Planned(l).variable = Exits!capRepay(v, p.variable) /\ Planned(l).stable = Exits!capRepay(s, p.stable)
  BY <1>3, <1>4, <1>5 DEF Planned
<1>7. Exits!capRepay(v, p.variable) \in 0 .. v /\ Exits!capRepay(s, p.stable) \in 0 .. s
  BY <1>2, CapIsAmount
<1>8. PICK cv, cs \in Nat : /\ cv = Exits!capRepay(v, p.variable) /\ cv <= v
                           /\ cs = Exits!capRepay(s, p.stable) /\ cs <= s
  BY <1>7
<1>9. ASSUME l.repay = 0 PROVE cv = 0 /\ cs = 0
  <2>1. v = 0 /\ s = 0
    BY <1>3, <1>4, <1>5, <1>9
  <2> QED
    BY <1>8, <2>1
<1> QED
  BY <1>2, <1>3, <1>5, <1>6, <1>8, <1>9

(* An Aave leg that passes the checks does as signed.                      *)
LEMMA ChecksAreSigned ==
  ASSUME ExitNumbers, ExitShape, NEW l \in ExitLeg, ProtocolOf[l.market] = Exits!AaveV3,
         pos[l.market] = before.pos[l.market],
         Exits!Delegated => permit.repay <= 10000 /\ (l.withdraw > 0 => permit.kind = Exits!FullExit),
         Exits!FloorsMet(l),
         Exits!Delegated => Exits!Repays(l) + Exits!Plan(l).collateral > 0
  PROVE  DoesAsSigned(l)
<1> SUFFICES ASSUME Exits!Delegated PROVE DoesAsSigned(l)
  BY DEF DoesAsSigned
<1>1. PICK p \in Position : p = before.pos[l.market]
  BY DEF ExitShape, ExitLeg
<1>2. /\ \E plan \in Position : plan = Planned(l) /\ plan = Exits!Plan(l)
      /\ Owes[l.market] = l.market /\ (Exits!Takes(l) <=> l.withdraw > 0)
  BY PlannedIsAmount, PlanIsPlanned, AaveLeg
<1>2a. PICK plan \in Position : plan = Planned(l) /\ plan = Exits!Plan(l)
  BY <1>2
<1>3. /\ p.variable \in Nat /\ p.stable \in Nat /\ p.collateral \in Nat
      /\ l.repay \in Nat /\ l.withdraw \in Nat
      /\ plan.variable \in Nat /\ plan.stable \in Nat /\ plan.collateral \in Nat
  BY DEF Position, ExitLeg
<1>4. PICK v, s \in Nat :
        /\ v <= p.variable /\ s <= p.stable
        /\ plan.variable = Exits!capRepay(v, p.variable)
        /\ plan.stable = Exits!capRepay(s, p.stable)
        /\ l.repay = 0 => plan.variable = 0 /\ plan.stable = 0
  <2>1. PICK v, s \in Nat :
          /\ v <= p.variable /\ s <= p.stable
          /\ Planned(l).variable = Exits!capRepay(v, p.variable)
          /\ Planned(l).stable = Exits!capRepay(s, p.stable)
          /\ l.repay = 0 => Planned(l).variable = 0 /\ Planned(l).stable = 0
    BY <1>1, Asking
  <2> QED
    BY <1>2a, <2>1
<1>8. plan.variable = IF l.repay > 0 THEN Share(p.variable) ELSE 0
  <2>1. CASE l.repay > 0
    <3>1. Exits!RepayFloor(plan.variable, p.variable)
      BY <1>1, <1>2, <1>2a, <2>1 DEF Exits!FloorsMet
    <3> QED
      BY <1>3, <1>4, <2>1, <3>1, FloorIsShare
  <2>2. CASE l.repay = 0
    BY <1>4, <2>2
  <2> QED
    BY <1>3, <2>1, <2>2
<1>9. plan.stable = IF l.repay > 0 THEN Share(p.stable) ELSE 0
  <2>1. CASE l.repay > 0
    <3>1. Exits!RepayFloor(plan.stable, p.stable)
      BY <1>1, <1>2, <1>2a, <2>1 DEF Exits!FloorsMet
    <3> QED
      BY <1>3, <1>4, <2>1, <3>1, FloorIsShare
  <2>2. CASE l.repay = 0
    BY <1>4, <2>2
  <2> QED
    BY <1>3, <2>1, <2>2
<1>10. plan.collateral = IF l.withdraw > 0 THEN p.collateral ELSE 0
  <2>1. plan.collateral = Exits!Lesser(p.collateral, l.withdraw)
    BY <1>1, <1>2a DEF Planned
  <2>2. ASSUME l.withdraw > 0 PROVE plan.collateral >= p.collateral
    <3>1. Exits!Takes(l)
      BY <1>2, <2>2
    <3>2. Exits!WithdrawFloor(Exits!Plan(l).collateral, pos[l.market].collateral)
      BY <3>1 DEF Exits!FloorsMet
    <3>3. Exits!Plan(l).collateral >= pos[l.market].collateral
      BY <3>2 DEF Exits!WithdrawFloor
    <3> QED
      BY <1>1, <1>2a, <3>3
  <2> QED
    BY <1>3, <2>1, <2>2 DEF Exits!Lesser
<1>11. plan.variable + plan.stable + plan.collateral > 0
  BY <1>2a DEF Exits!Repays
<1> QED
  BY <1>1, <1>2a, <1>8, <1>9, <1>10, <1>11 DEF DoesAsSigned

(* The call itself, and with it the plans, stay as they are.               *)
LEMMA SameCall ==
  ASSUME UNCHANGED <<permit, legs, before>>
  PROVE  /\ \A l : Planned(l)' = Planned(l) /\ (DoesAsSigned(l) => DoesAsSigned(l)')
         /\ Exits!AaveLegs' = Exits!AaveLegs
         /\ \A m : LegsOf(m)' = LegsOf(m)
         /\ Exits!Delegated' = Exits!Delegated /\ (Checked => Checked')
         /\ \A l : Exits!Takes(l)' = Exits!Takes(l)
         /\ \A x : Share(x)' = Share(x)
<1>1. Exits!Delegated' = Exits!Delegated /\ Exits!Bps' = Exits!Bps
  BY DEF Exits!Delegated, Exits!Bps
<1>2. \A a, live : Exits!capRepay(a, live)' = Exits!capRepay(a, live)
  BY <1>1 DEF Exits!capRepay
<1>3. ASSUME NEW l PROVE Planned(l)' = Planned(l)
  BY <1>2 DEF Planned
<1>4. ASSUME NEW l, DoesAsSigned(l) PROVE DoesAsSigned(l)'
  BY <1>1, <1>3, <1>4 DEF DoesAsSigned, Share
<1>5. (\A l : Exits!Takes(l)' = Exits!Takes(l)) /\ \A x : Share(x)' = Share(x)
  BY DEF Exits!Takes, Share
<1> QED
  BY <1>1, <1>3, <1>4, <1>5 DEF Exits!AaveLegs, LegsOf, Checked

(* And so do the legs that had their turn, while none has it.              *)
LEMMA SameTurns ==
  ASSUME UNCHANGED <<permit, legs, before, rest>>
  PROVE  \A m : /\ Exits!Repayers(m)' = Exits!Repayers(m) /\ Exits!Takers(m)' = Exits!Takers(m)
                /\ Exits!RoundedOff(m)' = Exits!RoundedOff(m)
<1>1. ASSUME NEW m
      PROVE  Exits!Repayers(m)' = Exits!Repayers(m) /\ Exits!Takers(m)' = Exits!Takers(m)
  BY SameCall DEF Exits!Repayers, Exits!Takers
<1> QED
  BY <1>1 DEF Exits!RoundedOff

(* Markets that do not move meanwhile are as far as they were.             *)
LEMMA SoFarStays ==
  ASSUME UNCHANGED <<permit, legs, before, rest>>,
         \A n \in Market : ProtocolOf[n] # Exits!AaveV3 => pos'[n] = pos[n]
  PROVE  /\ \A m \in Market : ProtocolOf[m] # Exits!AaveV3 /\ SoFar(m) => SoFar(m)'
         /\ ExitNumbers /\ ExitShape =>
              \A i \in 1 .. Len(legs) : i \notin Exits!AaveLegs /\ Worked(i) => Worked(i)'
<1>1. ASSUME NEW m \in Market, ProtocolOf[m] # Exits!AaveV3, SoFar(m) PROVE SoFar(m)'
  <2>1. /\ pos'[m] = pos[m] /\ before' = before
        /\ Exits!Repayers(m)' = Exits!Repayers(m) /\ Exits!Takers(m)' = Exits!Takers(m)
        /\ Exits!Delegated' = Exits!Delegated /\ \A x : Share(x)' = Share(x)
    BY <1>1, SameCall, SameTurns
  <2> QED
    BY <1>1, <2>1 DEF SoFar
<1>2. ASSUME ExitNumbers, ExitShape, NEW i \in 1 .. Len(legs), i \notin Exits!AaveLegs, Worked(i)
      PROVE  Worked(i)'
  <2>0. legs[i] \in ExitLeg
    BY <1>2 DEF ExitShape
  <2>1. PICK m \in Market : m = legs[i].market
    BY <2>0 DEF ExitLeg
  <2>2. ProtocolOf[m] # Exits!AaveV3
    BY <1>2, <2>1 DEF Exits!AaveLegs
  <2>3. Owes[m] \in Market /\ ProtocolOf[Owes[m]] # Exits!AaveV3
    BY <1>2, <2>2, MarketsKnown
  <2>4. pos'[m] = pos[m] /\ pos'[Owes[m]] = pos[Owes[m]] /\ before' = before /\ legs' = legs
    BY <2>2, <2>3
  <2>5. Exits!Delegated' = Exits!Delegated
    BY SameCall
  <2> QED
    BY <1>2, <2>1, <2>4, <2>5 DEF Worked
<1> QED
  BY <1>1, <1>2

(* A leg on Aave or Moonwell has its market to itself.                     *)
LEMMA OwnMarket ==
  ASSUME ExitShape, Checked, NEW i \in 1 .. Len(legs), NEW j \in 1 .. Len(legs),
         ProtocolOf[legs[i].market] \in {Exits!AaveV3, Exits!Moonwell},
         legs[j].market = legs[i].market
  PROVE  i = j
<1>1. legs[i].asset = legs[i].market /\ legs[j].asset = legs[j].market
  BY DEF ExitShape, LegFits
<1> QED
  BY <1>1 DEF Checked

(* A place in the legs is of a leg, and its market has an account.         *)
LEMMA LegsTyped ==
  ASSUME ExitShape, NEW i \in 1 .. Len(legs)
  PROVE  /\ legs[i] \in ExitLeg /\ legs[i].market \in Market
         /\ pos[legs[i].market] \in Position /\ before.pos[legs[i].market] \in Position
<1>1. legs[i] \in ExitLeg
  BY DEF ExitShape
<1>2. legs[i].market \in Market
  BY <1>1 DEF ExitLeg
<1> QED
  BY <1>1, <1>2 DEF ExitShape

(* An exit that was called has the right types, and nothing has moved.     *)
LEMMA ExitStarts ==
  ASSUME ExitNumbers, Init, focus = "exits" PROVE ExitShape /\ ExitProgress
<1>1. Exits!Init
  BY DEF Init
<1>2. PICK c \in Calls : permit = c.permit /\ legs = c.legs
  BY <1>1 DEF Exits!Init
<1>3. PICK w \in Worlds : halted = w.halted /\ pos = w.pos /\ wallet = w.wallet
  BY <1>1 DEF Exits!Init
<1>4. /\ stage = "called" /\ held = [t \in Exits!Token |-> Stray] /\ due = {} /\ rest = {}
      /\ before.pos = pos /\ before.wallet = wallet
  BY <1>1 DEF Exits!Init
<1>5. /\ permit \in Scoped \union {Nothing} /\ legs \in Seq(ExitLeg)
      /\ pos \in [Market -> Position] /\ wallet \in [Exits!Token -> Nat] /\ Stray \in Nat
      /\ \A m \in Market : ProtocolOf[m] # Exits!AaveV3 => pos[m].stable = 0
      /\ \A i \in 1 .. Len(legs) : LegFits(legs[i])
  <2>0. Stray \in Nat
    BY StrayIsAmount
  <2>1. /\ c.legs \in Seq(ExitLeg) /\ c.permit \in Scoped \union {Nothing}
        /\ \A i \in 1 .. Len(c.legs) : LegFits(c.legs[i])
    BY DEF ExitNumbers
  <2>2. /\ w.pos \in [Market -> Position] /\ w.wallet \in [Exits!Token -> Nat]
        /\ \A m \in Market : ProtocolOf[m] # Exits!AaveV3 => w.pos[m].stable = 0
    BY DEF ExitNumbers
  <2> QED
    BY <1>2, <1>3, <2>0, <2>1, <2>2
<1>6. held \in [Exits!Token -> Nat]
  BY <1>4, <1>5
<1>7. ExitShape
  BY <1>4, <1>5, <1>6 DEF ExitShape
<1> QED
  BY <1>4, <1>7 DEF ExitProgress, DuePlanned

(* When the exit begins no leg of another protocol has had its turn, and   *)
(* an Aave leg has its market to itself.                                   *)
LEMMA NoneHadTurn ==
  ASSUME ExitNumbers, ExitShape, legs' = legs, rest' = (1 .. Len(legs)) \ Exits!AaveLegs,
         NEW m \in Market, ProtocolOf[m] # Exits!AaveV3
  PROVE  Exits!Repayers(m)' = {} /\ Exits!Takers(m)' = {}
<1>1. ASSUME NEW i \in (1 .. Len(legs)) \ rest'
      PROVE  legs[i].market # m /\ Owes[legs[i].market] # m
  <2>1. i \in 1 .. Len(legs) /\ ProtocolOf[legs[i].market] = Exits!AaveV3
    BY DEF Exits!AaveLegs
  <2>2. legs[i].market \in Market
    BY <2>1, LegsTyped
  <2>3. ProtocolOf[Owes[legs[i].market]] = Exits!AaveV3
    BY <2>1, <2>2, MarketsKnown
  <2> QED
    BY <2>1, <2>3
<1> QED
  BY <1>1 DEF Exits!Repayers, Exits!Takers

(* The exit begins: the Aave legs are planned, and all is still to come.   *)
LEMMA ExitBegins ==
  ASSUME ExitNumbers, ExitShape, ExitProgress, Exits!Begin PROVE ExitShape' /\ ExitProgress'
<1>1. /\ stage = "called" /\ stage' = "repay" /\ rest' = (1 .. Len(legs)) \ Exits!AaveLegs
      /\ UNCHANGED <<permit, legs, before, pos, wallet, held>>
      /\ pos = before.pos
  BY DEF Exits!Begin, Exits!call, ExitProgress
<1>2. Checked
  <2>1. \A i, j \in 1 .. Len(legs) :
          ProtocolOf[legs[i].market] = ProtocolOf[legs[j].market] /\ legs[i].asset = legs[j].asset
            => i = j
    BY DEF Exits!Begin, Exits!UniqueLegs
  <2>2. ASSUME Exits!Delegated
        PROVE  /\ permit.repay <= 10000 /\ permit.slip <= Ceiling
               /\ \A i \in 1 .. Len(legs) : legs[i].withdraw > 0 => permit.kind = Exits!FullExit
    <3>1. PICK shapes :
            /\ shapes = {[protocol |-> ProtocolOf[legs[i].market], repay |-> legs[i].repay > 0,
                          withdraw |-> legs[i].withdraw > 0] : i \in 1 .. Len(legs)}
            /\ Exits!contractScope(permit, shapes)
      BY <2>2 DEF Exits!Begin
    <3>2. /\ permit.repay <= 10000 /\ permit.slip <= Ceiling
          /\ \A leg \in shapes : leg.withdraw => permit.kind = Exits!FullExit
      BY <3>1 DEF Exits!contractScope, Exits!RepayOK, Exits!LegPermitted, Exits!BpsDenominator
    <3>3. ASSUME NEW i \in 1 .. Len(legs), legs[i].withdraw > 0 PROVE permit.kind = Exits!FullExit
      <4>1. PICK leg \in shapes : leg = [protocol |-> ProtocolOf[legs[i].market],
                       repay |-> legs[i].repay > 0, withdraw |-> legs[i].withdraw > 0]
        BY <3>1
      <4>2. leg.withdraw
        BY <3>3, <4>1, Zenon
      <4> QED
        BY <3>2, <4>2
    <3> QED
      BY <3>2, <3>3
  <2> QED
    BY <2>1, <2>2 DEF Checked
<1>3. ASSUME NEW i \in Exits!AaveLegs
      PROVE  /\ i \in 1 .. Len(legs) /\ legs[i] \in ExitLeg
             /\ ProtocolOf[legs[i].market] = Exits!AaveV3
             /\ Exits!Plan(legs[i]) = Planned(legs[i])
  <2>1. i \in 1 .. Len(legs) /\ ProtocolOf[legs[i].market] = Exits!AaveV3
    BY DEF Exits!AaveLegs
  <2>2. legs[i] \in ExitLeg
    BY <2>1, LegsTyped
  <2> QED
    BY <1>1, <2>1, <2>2, PlanIsPlanned
<1>4. ASSUME NEW d \in due'
      PROVE  /\ d \in [market : Market, side : Sides, amount : Nat]
             /\ \E i \in Exits!AaveLegs :
                  /\ legs[i].market = d.market
                  /\ d.side = "variable" => d.amount = Planned(legs[i]).variable
                  /\ d.side = "stable" => d.amount = Planned(legs[i]).stable
                  /\ d.side = "collateral" => d.amount = Planned(legs[i]).collateral
  <2>1. PICK i \in Exits!AaveLegs, side \in Sides :
          d = [market |-> legs[i].market, side |-> side, amount |-> Exits!Plan(legs[i])[side]]
    BY <1>4 DEF Exits!Begin, Sides
  <2>2. i \in 1 .. Len(legs)
    BY DEF Exits!AaveLegs
  <2>3. PICK plan \in Position : plan = Planned(legs[i]) /\ plan = Exits!Plan(legs[i])
    BY <1>3, <2>2, LegsTyped, PlannedIsAmount
  <2>4. d = [market |-> legs[i].market, side |-> side, amount |-> plan[side]]
    BY <2>1, <2>3
  <2>5. plan[side] \in Nat
    BY DEF Sides, Position
  <2>6. d \in [market : Market, side : Sides, amount : Nat]
    BY <2>2, <2>4, <2>5, LegsTyped
  <2>7. /\ d.side = "variable" => d.amount = plan.variable
        /\ d.side = "stable" => d.amount = plan.stable
        /\ d.side = "collateral" => d.amount = plan.collateral
    BY <2>4 DEF Position
  <2>8. legs[i].market = d.market
    BY <2>4
  <2> QED
    BY <2>3, <2>6, <2>7, <2>8
<1>5. ExitShape'
  BY <1>1, <1>4 DEF ExitShape
<1>6. DuePlanned'
  BY <1>1, <1>4, SameCall DEF DuePlanned
<1>7. ASSUME NEW i \in Exits!AaveLegs PROVE DoesAsSigned(legs[i])
  <2>2. /\ Exits!FloorsMet(legs[i])
        /\ Exits!Delegated => Exits!Repays(legs[i]) + Exits!Plan(legs[i]).collateral > 0
    BY DEF Exits!Begin, Exits!WorkDone
  <2>3. Exits!Delegated => permit.repay <= 10000
                           /\ (legs[i].withdraw > 0 => permit.kind = Exits!FullExit)
    BY <1>2, <1>3 DEF Checked
  <2>4. pos[legs[i].market] = before.pos[legs[i].market]
    BY <1>1
  <2> QED
    BY <1>3, <2>2, <2>3, <2>4, ChecksAreSigned
<1>8. ASSUME NEW i \in Exits!AaveLegs PROVE HowFar(i)'
  <2>1. PICK p, plan \in Position : /\ p = before.pos[legs[i].market] /\ p = pos[legs[i].market]
                                    /\ plan = Planned(legs[i]) /\ plan = Exits!Plan(legs[i])
    BY <1>1, <1>3, LegsTyped, PlannedIsAmount
  <2>2. /\ p.variable \in Nat /\ p.stable \in Nat /\ p.collateral \in Nat
        /\ plan.variable \in Nat /\ plan.stable \in Nat /\ plan.collateral \in Nat
    BY DEF Position
  <2>4. ASSUME NEW side \in Sides, plan[side] > 0 PROVE Waits(i, side)'
    <3>1. PICK d : d = [market |-> legs[i].market, side |-> side, amount |-> Exits!Plan(legs[i])[side]]
      OBVIOUS
    <3>2. d \in due'
      BY <2>1, <2>4, <3>1 DEF Exits!Begin, Sides
    <3> QED
      BY <1>1, <3>1, <3>2 DEF Waits
  <2>5. /\ Waits(i, "variable")' \/ plan.variable = 0
        /\ Waits(i, "stable")' \/ plan.stable = 0
        /\ Waits(i, "collateral")' \/ plan.collateral = 0
    BY <2>2, <2>4 DEF Sides
  <2>6. /\ legs' = legs /\ before' = before /\ pos' = pos /\ Planned(legs[i])' = plan
    BY <1>1, <2>1, SameCall
  <2>7. /\ p.variable = p.variable - IF Waits(i, "variable")' THEN 0 ELSE plan.variable
        /\ p.stable = p.stable - IF Waits(i, "stable")' THEN 0 ELSE plan.stable
        /\ p.collateral = p.collateral - IF Waits(i, "collateral")' THEN 0 ELSE plan.collateral
    BY <2>2, <2>5
  <2> QED
    BY <2>1, <2>6, <2>7 DEF HowFar
<1>9. ASSUME NEW m \in Market, ProtocolOf[m] # Exits!AaveV3 PROVE SoFar(m)'
  <2>1. Exits!Repayers(m)' = {} /\ Exits!Takers(m)' = {}
    BY <1>1, <1>9, NoneHadTurn
  <2>2. PICK is \in Position : is = before.pos[m] /\ is = pos[m]
    BY <1>1 DEF ExitShape
  <2>3. is.variable \in Nat /\ is.stable \in Nat /\ is.collateral \in Nat
    BY DEF Position
  <2>4. before'.pos[m] = is /\ pos'[m] = is
    BY <1>1, <2>2
  <2> QED
    BY <2>1, <2>3, <2>4 DEF SoFar
<1>10. /\ Checked' /\ \A i \in Exits!AaveLegs : DoesAsSigned(legs[i])'
       /\ Exits!AaveLegs' = Exits!AaveLegs /\ \A m : LegsOf(m)' = LegsOf(m)
  BY <1>1, <1>2, <1>7, SameCall
<1>11. /\ rest' \intersect Exits!AaveLegs = {}
       /\ \A i \in (1 .. Len(legs)) \ rest' : i \in Exits!AaveLegs
  BY <1>1
<1> QED
  BY <1>1, <1>5, <1>6, <1>8, <1>9, <1>10, <1>11 DEF ExitProgress

(* What is due is there to be repaid or taken.                             *)
LEMMA DueFits ==
  ASSUME ExitShape, ExitProgress, stage # "called", NEW d \in due
  PROVE  \E i \in Exits!AaveLegs :
           /\ i \in 1 .. Len(legs) /\ legs[i].market = d.market /\ legs[i] \in ExitLeg
           /\ d.market \in Market /\ d.side \in Sides /\ d.amount \in Nat
           /\ d.side = "variable" => /\ d.amount = Planned(legs[i]).variable
                                     /\ pos[d.market].variable = before.pos[d.market].variable
                                     /\ d.amount <= pos[d.market].variable
           /\ d.side = "stable" => /\ d.amount = Planned(legs[i]).stable
                                   /\ pos[d.market].stable = before.pos[d.market].stable
                                   /\ d.amount <= pos[d.market].stable
           /\ d.side = "collateral" => /\ d.amount = Planned(legs[i]).collateral
                                       /\ pos[d.market].collateral = before.pos[d.market].collateral
                                       /\ d.amount <= pos[d.market].collateral
<1>1. PICK i \in Exits!AaveLegs :
        /\ legs[i].market = d.market
        /\ d.side = "variable" => d.amount = Planned(legs[i]).variable
        /\ d.side = "stable" => d.amount = Planned(legs[i]).stable
        /\ d.side = "collateral" => d.amount = Planned(legs[i]).collateral
  BY DEF ExitProgress, DuePlanned
<1>2. i \in 1 .. Len(legs)
  BY DEF Exits!AaveLegs
<1>3. d.market \in Market /\ d.side \in Sides /\ d.amount \in Nat
  BY DEF ExitShape
<1>4. Waits(i, d.side)
  BY <1>1 DEF Waits
<1>5. PICK was, is, plan \in Position :
        /\ was = before.pos[d.market] /\ is = pos[d.market] /\ plan = Planned(legs[i])
        /\ plan.variable <= was.variable /\ plan.stable <= was.stable
        /\ plan.collateral <= was.collateral
  BY <1>1, <1>2, LegsTyped, PlannedIsAmount
<1>6. /\ was.variable \in Nat /\ was.stable \in Nat /\ was.collateral \in Nat
      /\ plan.variable \in Nat /\ plan.stable \in Nat /\ plan.collateral \in Nat
  BY DEF Position
<1>7. HowFar(i)
  BY <1>2 DEF ExitProgress
<1>8. /\ is.variable = was.variable - IF Waits(i, "variable") THEN 0 ELSE plan.variable
      /\ is.stable = was.stable - IF Waits(i, "stable") THEN 0 ELSE plan.stable
      /\ is.collateral = was.collateral - IF Waits(i, "collateral") THEN 0 ELSE plan.collateral
  BY <1>1, <1>5, <1>7 DEF HowFar
<1>9. /\ d.side = "variable" => is.variable = was.variable /\ d.amount <= is.variable
      /\ d.side = "stable" => is.stable = was.stable /\ d.amount <= is.stable
      /\ d.side = "collateral" => is.collateral = was.collateral /\ d.amount <= is.collateral
  BY <1>1, <1>4, <1>5, <1>6, <1>8
<1>10. legs[i] \in ExitLeg
  BY <1>2, LegsTyped
<1> QED
  BY <1>1, <1>2, <1>3, <1>5, <1>9, <1>10

(* What changes when the turn of a side comes.                             *)
Less(d) ==
  /\ \A m \in Market \ {d.market} : pos'[m] = pos[m]
  /\ pos'[d.market].variable
       = pos[d.market].variable - IF d.side = "variable" THEN d.amount ELSE 0
  /\ pos'[d.market].stable = pos[d.market].stable - IF d.side = "stable" THEN d.amount ELSE 0
  /\ pos'[d.market].collateral
       = pos[d.market].collateral - IF d.side = "collateral" THEN d.amount ELSE 0

(* An Aave action lowers one side of its market and nothing else.          *)
LEMMA TakenOff ==
  ASSUME ExitShape, ExitProgress, stage # "called", NEW d \in due,
         \/ pos' = [pos EXCEPT ![d.market][d.side] = @ - d.amount]
         \/ d.side = "collateral" /\ pos' = [pos EXCEPT ![d.market].collateral = @ - d.amount]
  PROVE  pos' \in [Market -> Position] /\ Less(d)
<1>1. PICK i \in Exits!AaveLegs :
           /\ d.market \in Market /\ d.side \in Sides /\ d.amount \in Nat
           /\ d.side = "variable" => d.amount <= pos[d.market].variable
           /\ d.side = "stable" => d.amount <= pos[d.market].stable
           /\ d.side = "collateral" => d.amount <= pos[d.market].collateral
  BY DueFits
<1>2. PICK is \in Position : is = pos[d.market]
  BY <1>1 DEF ExitShape
<1>3. is.variable \in Nat /\ is.stable \in Nat /\ is.collateral \in Nat
  BY DEF Position
<1>4. pos \in [Market -> Position]
  BY DEF ExitShape
<1>5. CASE d.side = "variable"
  <2>1. pos' = [pos EXCEPT ![d.market].variable = @ - d.amount]
    BY <1>5
  <2>2. is.variable - d.amount \in Nat
    BY <1>1, <1>2, <1>3, <1>5
  <2>3. pos' = [pos EXCEPT ![d.market] = [is EXCEPT !.variable = is.variable - d.amount]]
    BY <1>1, <1>2, <1>4, <2>1
  <2>4. [is EXCEPT !.variable = is.variable - d.amount] \in Position
    BY <2>2 DEF Position
  <2> QED
    BY <1>1, <1>2, <1>3, <1>4, <1>5, <2>3, <2>4 DEF Less, Position
<1>6. CASE d.side = "stable"
  <2>1. pos' = [pos EXCEPT ![d.market].stable = @ - d.amount]
    BY <1>6
  <2>2. is.stable - d.amount \in Nat
    BY <1>1, <1>2, <1>3, <1>6
  <2>3. pos' = [pos EXCEPT ![d.market] = [is EXCEPT !.stable = is.stable - d.amount]]
    BY <1>1, <1>2, <1>4, <2>1
  <2>4. [is EXCEPT !.stable = is.stable - d.amount] \in Position
    BY <2>2 DEF Position
  <2> QED
    BY <1>1, <1>2, <1>3, <1>4, <1>6, <2>3, <2>4 DEF Less, Position
<1>7. CASE d.side = "collateral"
  <2>1. pos' = [pos EXCEPT ![d.market].collateral = @ - d.amount]
    BY <1>7
  <2>2. is.collateral - d.amount \in Nat
    BY <1>1, <1>2, <1>3, <1>7
  <2>3. pos' = [pos EXCEPT ![d.market] = [is EXCEPT !.collateral = is.collateral - d.amount]]
    BY <1>1, <1>2, <1>4, <2>1
  <2>4. [is EXCEPT !.collateral = is.collateral - d.amount] \in Position
    BY <2>2 DEF Position
  <2> QED
    BY <1>1, <1>2, <1>3, <1>4, <1>7, <2>3, <2>4 DEF Less, Position
<1> QED
  BY <1>1, <1>5, <1>6, <1>7 DEF Sides

(* The turn of a side of an Aave market comes.                             *)
LEMMA SideTurns ==
  ASSUME ExitNumbers, ExitShape, ExitProgress, stage \in {"repay", "withdraw"}, NEW d \in due, Less(d),
         UNCHANGED <<stage, permit, legs, before, rest>>, due' = due \ {d}
  PROVE  ExitProgress'
<1>1. PICK i \in Exits!AaveLegs :
           /\ i \in 1 .. Len(legs) /\ legs[i].market = d.market /\ legs[i] \in ExitLeg
           /\ d.market \in Market /\ d.side \in Sides /\ d.amount \in Nat
           /\ d.side = "variable" => /\ d.amount = Planned(legs[i]).variable
                                     /\ pos[d.market].variable = before.pos[d.market].variable
           /\ d.side = "stable" => /\ d.amount = Planned(legs[i]).stable
                                   /\ pos[d.market].stable = before.pos[d.market].stable
           /\ d.side = "collateral" => /\ d.amount = Planned(legs[i]).collateral
                                       /\ pos[d.market].collateral = before.pos[d.market].collateral
  BY DueFits
<1>2. Checked
  BY DEF ExitProgress
<1>3. \A m \in Market : LegsOf(m) = {} => m # d.market
  BY <1>1 DEF LegsOf
<1>4. DuePlanned'
  BY SameCall DEF ExitProgress, DuePlanned
<1>5. ASSUME NEW j \in Exits!AaveLegs, legs[j].market # d.market PROVE HowFar(j)'
  <2>1. \A side : Waits(j, side)' = Waits(j, side)
    BY <1>5, SameCall DEF Waits
  <2>2. pos'[legs[j].market] = pos[legs[j].market]
    BY <1>5, LegsTyped DEF Less, Exits!AaveLegs
  <2>3. HowFar(j)
    BY DEF ExitProgress
  <2> QED
    BY <2>1, <2>2, <2>3, SameCall DEF HowFar
<1>6. HowFar(i)'
  <2>1. ASSUME NEW e \in due, e.market = d.market, e.side = d.side PROVE e = d
    <3>1. PICK j \in Exits!AaveLegs :
             /\ j \in 1 .. Len(legs) /\ legs[j].market = e.market
             /\ e.side = "variable" => e.amount = Planned(legs[j]).variable
             /\ e.side = "stable" => e.amount = Planned(legs[j]).stable
             /\ e.side = "collateral" => e.amount = Planned(legs[j]).collateral
      BY DueFits
    <3>2. j = i
      BY <1>1, <1>2, <2>1, <3>1, OwnMarket DEF Exits!AaveLegs
    <3>3. e.amount = d.amount
      BY <1>1, <2>1, <3>1, <3>2 DEF Sides
    <3>4. /\ e \in [market : Market, side : Sides, amount : Nat]
          /\ d \in [market : Market, side : Sides, amount : Nat]
      BY DEF ExitShape
    <3> QED
      BY <2>1, <3>3, <3>4
  <2>2. ~Waits(i, d.side)'
    BY <1>1, <2>1, SameCall DEF Waits
  <2>3. \A side : side # d.side => Waits(i, side)' = Waits(i, side)
    BY <1>1, SameCall DEF Waits
  <2>4. PICK was, is, plan \in Position :
          /\ was = before.pos[d.market] /\ is = pos[d.market] /\ plan = Planned(legs[i])
    BY <1>1, LegsTyped, PlannedIsAmount
  <2>5. /\ was.variable \in Nat /\ was.stable \in Nat /\ was.collateral \in Nat
        /\ plan.variable \in Nat /\ plan.stable \in Nat /\ plan.collateral \in Nat
    BY DEF Position
  <2>6. /\ is.variable = was.variable - IF Waits(i, "variable") THEN 0 ELSE plan.variable
        /\ is.stable = was.stable - IF Waits(i, "stable") THEN 0 ELSE plan.stable
        /\ is.collateral = was.collateral - IF Waits(i, "collateral") THEN 0 ELSE plan.collateral
    BY <1>1, <2>4 DEF HowFar, ExitProgress
  <2>7. PICK new : new = pos'[d.market]
    OBVIOUS
  <2>8. /\ new.variable = is.variable - IF d.side = "variable" THEN d.amount ELSE 0
        /\ new.stable = is.stable - IF d.side = "stable" THEN d.amount ELSE 0
        /\ new.collateral = is.collateral - IF d.side = "collateral" THEN d.amount ELSE 0
    BY <2>4, <2>7 DEF Less
  <2>9. new.variable = was.variable - IF Waits(i, "variable")' THEN 0 ELSE plan.variable
    BY <1>1, <2>2, <2>3, <2>4, <2>5, <2>6, <2>8
  <2>10. new.stable = was.stable - IF Waits(i, "stable")' THEN 0 ELSE plan.stable
    BY <1>1, <2>2, <2>3, <2>4, <2>5, <2>6, <2>8
  <2>11. new.collateral = was.collateral - IF Waits(i, "collateral")' THEN 0 ELSE plan.collateral
    BY <1>1, <2>2, <2>3, <2>4, <2>5, <2>6, <2>8
  <2>12. legs' = legs /\ before' = before /\ Planned(legs[i])' = plan
    BY <2>4, SameCall
  <2> QED
    BY <1>1, <2>4, <2>7, <2>9, <2>10, <2>11, <2>12 DEF HowFar
<1>7. ASSUME NEW j \in Exits!AaveLegs PROVE HowFar(j)'
  <2>1. legs[j].market = d.market => j = i
    BY <1>1, <1>2, OwnMarket DEF Exits!AaveLegs
  <2> QED
    BY <1>5, <1>6, <2>1
<1>8. ProtocolOf[d.market] = Exits!AaveV3
  BY <1>1 DEF Exits!AaveLegs
<1>9. \A n \in Market : ProtocolOf[n] # Exits!AaveV3 => pos'[n] = pos[n]
  BY <1>8 DEF Less
<1>10. /\ \A m \in Market : ProtocolOf[m] # Exits!AaveV3 => SoFar(m)'
       /\ \A j \in (1 .. Len(legs)) \ rest : j \notin Exits!AaveLegs => Worked(j)'
  BY <1>9, SoFarStays DEF ExitProgress
<1>11. \A m \in Market : ProtocolOf[m] = Exits!AaveV3 /\ LegsOf(m) = {} => pos'[m] = before.pos[m]
  BY <1>3 DEF ExitProgress, Less
<1>12. /\ Checked' /\ \A j \in Exits!AaveLegs : DoesAsSigned(legs[j])'
       /\ Exits!AaveLegs' = Exits!AaveLegs /\ \A m : LegsOf(m)' = LegsOf(m)
  BY <1>2, SameCall DEF ExitProgress
<1> QED
  BY <1>4, <1>7, <1>10, <1>11, <1>12 DEF ExitProgress

(* The floor of a sale is an amount, and none for nothing.                 *)
LEMMA OutIsAmount ==
  ASSUME ExitNumbers, ExitShape, Checked, NEW x \in Nat
  PROVE  Exits!MinOut(x) \in Nat /\ (x = 0 => Exits!MinOut(x) = 0)
<1>1. PICK k \in Nat : k = IF Exits!Delegated THEN 10000 - permit.slip ELSE DeployBps
  <2>1. ASSUME Exits!Delegated PROVE 10000 - permit.slip \in Nat
    <3>1. permit \in Scoped
      BY <2>1 DEF ExitShape, Exits!Delegated
    <3>2. PICK s \in Nat : s = permit.slip
      BY <3>1 DEF Scoped
    <3>3. s <= Ceiling
      BY <2>1, <3>2 DEF Checked
    <3>4. Ceiling \in 0 .. 10000
      BY ScaleIsNumbers
    <3>5. PICK c \in Nat : c = Ceiling /\ c <= 10000
      BY <3>4
    <3>6. 10000 - s \in Nat
      BY <3>2, <3>3, <3>5
    <3> QED
      BY <3>2, <3>6
  <2>2. DeployBps \in Nat
    <3>1. DeployBps \in 0 .. 10000
      BY ScaleIsNumbers
    <3> QED
      BY <3>1
  <2> QED
    BY <2>1, <2>2
<1>2. Exits!MinOut(x) = (x * k) \div 10000
  BY <1>1 DEF Exits!MinOut, Exits!BpsDenominator
<1>3. (x * k) \div 10000 \in Nat
  BY FractionIsAmount
<1>4. x = 0 => x * k = 0
  OBVIOUS
<1> QED
  BY <1>2, <1>3, <1>4

(* What a sale brings is an amount, and what the market pays is no less    *)
(* than the floor.                                                         *)
LEMMA SoldIsAmount ==
  ASSUME ExitNumbers, ExitShape, Checked, NEW t, NEW x \in Nat, NEW out \in Exits!Sold(t, x)
  PROVE  out \in Nat /\ out >= IF t = Usdc THEN x ELSE Exits!MinOut(x)
<1>1. Exits!MinOut(x) \in Nat
  BY OutIsAmount
<1> QED
  BY <1>1 DEF Exits!Sold

(* The tokens of a market are tokens.                                      *)
LEMMA TokensOf ==
  ASSUME NEW m \in Market
  PROVE  DebtToken[m] \in Exits!Token /\ CollateralToken[m] \in Exits!Token /\ Usdc \in Exits!Token
BY DEF Exits!Token

(* A repayment on Aave keeps shape and progress.                           *)
LEMMA RepayKeeps ==
  ASSUME ExitNumbers, ExitShape, ExitProgress, Exits!AaveRepay
  PROVE  /\ ExitShape' /\ ExitProgress'
         /\ \E d \in due :
              /\ Less(d) /\ d.side # "collateral"
              /\ wallet[DebtToken[d.market]] >= d.amount
              /\ wallet' = [wallet EXCEPT ![DebtToken[d.market]] = @ - d.amount]
<1>1. /\ stage = "repay" /\ UNCHANGED <<stage, permit, legs, halted, before, held, rest>>
  BY DEF Exits!AaveRepay, Exits!call
<1>2. PICK d \in due :
        /\ Exits!Turn(d) < 4
        /\ wallet[DebtToken[d.market]] >= d.amount
        /\ wallet' = [wallet EXCEPT ![DebtToken[d.market]] = @ - d.amount]
        /\ pos' = [pos EXCEPT ![d.market][d.side] = @ - d.amount]
        /\ due' = due \ {d}
  BY DEF Exits!AaveRepay
<1>3. pos' \in [Market -> Position] /\ Less(d)
  BY <1>1, <1>2, TakenOff
<1>4. ExitProgress'
  BY <1>1, <1>2, <1>3, SideTurns
<1>5. d.market \in Market /\ d.side \in Sides /\ d.amount \in Nat
  BY DEF ExitShape
<1>6. PICK t \in Exits!Token : t = DebtToken[d.market]
  BY <1>5, TokensOf
<1>7. wallet \in [Exits!Token -> Nat] /\ wallet[t] - d.amount \in Nat
  BY <1>2, <1>5, <1>6 DEF ExitShape
<1>8. wallet' = [wallet EXCEPT ![t] = wallet[t] - d.amount]
  BY <1>2, <1>6
<1>9. wallet' \in [Exits!Token -> Nat]
  BY <1>7, <1>8
<1>10. ExitShape'
  BY <1>1, <1>2, <1>3, <1>9 DEF ExitShape
<1>11. d.side # "collateral"
  <2>1. d.side = "collateral" => Exits!Turn(d) = 4
    BY DEF Exits!Turn
  <2> QED
    BY <1>2, <2>1
<1> QED
  BY <1>2, <1>3, <1>4, <1>10, <1>11

(* A withdrawal from Aave keeps shape and progress.                        *)
LEMMA WithdrawKeeps ==
  ASSUME ExitNumbers, ExitShape, ExitProgress, Exits!AaveWithdraw
  PROVE  /\ ExitShape' /\ ExitProgress'
         /\ \E d \in due : \E out \in Exits!Sold(CollateralToken[d.market], d.amount) :
              /\ Less(d) /\ d.side = "collateral"
              /\ held' = [held EXCEPT ![Usdc] = @ + out]
<1>1. /\ stage = "withdraw" /\ UNCHANGED <<stage, permit, legs, halted, before, wallet, rest>>
  BY DEF Exits!AaveWithdraw, Exits!call
<1>2a. PICK d \in due : \E out \in Exits!Sold(CollateralToken[d.market], d.amount) :
        /\ pos' = [pos EXCEPT ![d.market].collateral = @ - d.amount]
        /\ held' = [held EXCEPT ![Usdc] = @ + out]
        /\ due' = due \ {d}
  BY DEF Exits!AaveWithdraw
<1>2. PICK out \in Exits!Sold(CollateralToken[d.market], d.amount) :
        /\ pos' = [pos EXCEPT ![d.market].collateral = @ - d.amount]
        /\ held' = [held EXCEPT ![Usdc] = @ + out]
        /\ due' = due \ {d}
  BY <1>2a
<1>3. d.side = "collateral"
  BY <1>1 DEF ExitProgress
<1>4. pos' \in [Market -> Position] /\ Less(d)
  BY <1>1, <1>2, <1>3, TakenOff
<1>5. ExitProgress'
  BY <1>1, <1>2, <1>4, SideTurns
<1>6. d.market \in Market /\ d.amount \in Nat
  BY DEF ExitShape
<1>7. out \in Nat
  BY <1>1, <1>6, SoldIsAmount DEF ExitProgress
<1>8. Usdc \in Exits!Token
  BY DEF Exits!Token
<1>9. held \in [Exits!Token -> Nat]
  BY DEF ExitShape
<1>10. held' \in [Exits!Token -> Nat]
  BY <1>2, <1>7, <1>8, <1>9
<1>11. ExitShape'
  BY <1>1, <1>2, <1>4, <1>10 DEF ExitShape
<1> QED
  BY <1>2, <1>3, <1>4, <1>5, <1>11

(* A step that only moves the stage, or sends USDC, keeps both.            *)
LEMMA StageKeeps ==
  ASSUME ExitNumbers, ExitShape, ExitProgress, stage \in {"repay", "withdraw"},
         UNCHANGED <<permit, legs, halted, before, pos, due, rest>>,
         wallet' \in [Exits!Token -> Nat], held' \in [Exits!Token -> Nat],
         \/ stage' = "withdraw" /\ \A d \in due : d.side = "collateral"
         \/ stage' = "done" /\ due = {} /\ rest = {}
  PROVE  ExitShape' /\ ExitProgress'
<1>1. ExitShape'
  BY DEF ExitShape
<1>2. DuePlanned'
  BY SameCall DEF ExitProgress, DuePlanned
<1>3. ASSUME NEW i \in Exits!AaveLegs PROVE HowFar(i)'
  <2>1. HowFar(i)
    BY DEF ExitProgress
  <2>2. \A side : Waits(i, side)' = Waits(i, side)
    BY DEF Waits
  <2> QED
    BY <2>1, <2>2, SameCall DEF HowFar
<1>4. /\ \A m \in Market : ProtocolOf[m] # Exits!AaveV3 => SoFar(m)'
      /\ \A i \in (1 .. Len(legs)) \ rest : i \notin Exits!AaveLegs => Worked(i)'
  BY SoFarStays DEF ExitProgress
<1>5. /\ Checked' /\ \A i \in Exits!AaveLegs : DoesAsSigned(legs[i])'
      /\ Exits!AaveLegs' = Exits!AaveLegs /\ \A m : LegsOf(m)' = LegsOf(m)
  BY SameCall DEF ExitProgress
<1> QED
  BY <1>1, <1>2, <1>3, <1>4, <1>5 DEF ExitProgress

(* What is freed of an amount is an amount, and nothing of nothing.        *)
LEMMA FreedFrom ==
  ASSUME ExitNumbers, NEW m, NEW x \in Nat
  PROVE  Exits!Freed(m, x) \in Nat /\ (x = 0 => Exits!Freed(m, x) = 0)
<1>1. PICK k \in Nat \ {0} : k = MTokens
  BY ScaleIsNumbers
<1>2. x \div k \in Nat /\ (x = 0 => x \div k = 0)
  OBVIOUS
<1> QED
  BY <1>1, <1>2 DEF Exits!Freed

(* What changes, in the terms of the owner's balance: the debt of d falls  *)
(* by a, and the collateral of m by take.                                  *)
Moved(d, a, m, take) ==
  /\ d \in Market /\ m \in Market /\ a \in Nat /\ take \in Nat
  /\ \A n \in Market :
       /\ Exits!Debt(pos'[n]) = Exits!Debt(pos[n]) - IF n = d THEN a ELSE 0
       /\ pos'[n].collateral = pos[n].collateral - IF n = m THEN take ELSE 0

(* A position in numbers.                                                  *)
LEMMA InNumbers ==
  ASSUME NEW p \in Position
  PROVE  p.variable \in Nat /\ p.stable \in Nat /\ p.collateral \in Nat /\ Exits!Debt(p) \in Nat
BY DEF Position, Exits!Debt

(* The turn of a side moves the debt or the collateral.                    *)
LEMMA SideMoves ==
  ASSUME ExitShape, ExitProgress, stage # "called", NEW d \in due, Less(d)
  PROVE  /\ IF d.side = "collateral" THEN Moved(d.market, 0, d.market, d.amount)
                                     ELSE Moved(d.market, d.amount, d.market, 0)
         /\ d.side = "collateral" => pos[d.market].collateral = before.pos[d.market].collateral
<1>1. PICK i \in Exits!AaveLegs :
           /\ d.market \in Market /\ d.side \in Sides /\ d.amount \in Nat
           /\ d.side = "collateral" => pos[d.market].collateral = before.pos[d.market].collateral
  BY DueFits
<1>2. PICK is \in Position : is = pos[d.market]
  BY <1>1 DEF ExitShape
<1>3. is.variable \in Nat /\ is.stable \in Nat /\ is.collateral \in Nat
  BY InNumbers
<1>4. PICK new : new = pos'[d.market]
  OBVIOUS
<1>5. /\ new.variable = is.variable - IF d.side = "variable" THEN d.amount ELSE 0
      /\ new.stable = is.stable - IF d.side = "stable" THEN d.amount ELSE 0
      /\ new.collateral = is.collateral - IF d.side = "collateral" THEN d.amount ELSE 0
  BY <1>2, <1>4 DEF Less
<1>6. ASSUME NEW n \in Market, n # d.market
      PROVE  /\ Exits!Debt(pos'[n]) = Exits!Debt(pos[n]) - 0
             /\ pos'[n].collateral = pos[n].collateral - 0
  <2>1. PICK p \in Position : p = pos[n] /\ p = pos'[n]
    BY <1>6 DEF Less, ExitShape
  <2>2. Exits!Debt(p) = Exits!Debt(p) - 0 /\ p.collateral = p.collateral - 0
    BY InNumbers
  <2> QED
    BY <2>1, <2>2
<1>7. CASE d.side = "collateral"
  <2>1. new.variable + new.stable = (is.variable + is.stable) - 0
    BY <1>3, <1>5, <1>7
  <2>2. Exits!Debt(new) = Exits!Debt(is) - 0
    BY <2>1 DEF Exits!Debt
  <2>3. new.collateral = is.collateral - d.amount
    BY <1>5, <1>7
  <2>4. Moved(d.market, 0, d.market, d.amount)
    BY <1>1, <1>2, <1>4, <1>6, <2>2, <2>3 DEF Moved
  <2> QED
    BY <1>1, <1>7, <2>4
<1>8. CASE d.side # "collateral"
  <2>1. new.variable + new.stable = (is.variable + is.stable) - d.amount
    BY <1>1, <1>3, <1>5, <1>8 DEF Sides
  <2>2. new.collateral = is.collateral - 0
    BY <1>3, <1>5, <1>8
  <2>3. Exits!Debt(new) = Exits!Debt(is) - d.amount
    BY <2>1 DEF Exits!Debt
  <2>4. Moved(d.market, d.amount, d.market, 0)
    BY <1>1, <1>2, <1>4, <1>6, <2>2, <2>3 DEF Moved
  <2> QED
    BY <1>8, <2>4
<1> QED
  BY <1>7, <1>8

(* What a leg of another protocol repays and takes is there; and if it     *)
(* passes the floors of a permit it repays the signed fraction of what is  *)
(* left of the debt, and takes all the collateral.                         *)
LEMMA LegPlan ==
  ASSUME ExitNumbers, ExitShape, ExitProgress, stage # "called", NEW i \in rest,
         NEW m, m = legs[i].market, NEW d, d = Owes[m],
         NEW a, a = Exits!Repays(legs[i]), NEW take, take = Exits!Plan(legs[i]).collateral
  PROVE  /\ i \in 1 .. Len(legs) /\ legs[i] \in ExitLeg /\ m \in Market /\ d \in Market
         /\ ProtocolOf[m] # Exits!AaveV3 /\ ProtocolOf[d] # Exits!AaveV3
         /\ a \in Nat /\ take \in Nat /\ a <= pos[d].variable /\ take <= pos[m].collateral
         /\ legs[i].repay = 0 => a = 0
         /\ take > 0 => Exits!Takes(legs[i])
         /\ Exits!Delegated /\ Exits!FloorsMet(legs[i]) =>
              /\ legs[i].repay > 0 => a = Share(pos[d].variable)
              /\ Exits!Takes(legs[i]) => take = pos[m].collateral
<1>1. i \in 1 .. Len(legs) /\ i \notin Exits!AaveLegs
  BY DEF ExitShape, ExitProgress
<1>2. PICK l \in ExitLeg : l = legs[i]
  BY <1>1, LegsTyped
<1>3. l.market = m /\ m \in Market /\ l.repay \in Nat /\ l.withdraw \in Nat
  BY <1>2 DEF ExitLeg
<1>4. ProtocolOf[m] # Exits!AaveV3
  BY <1>1, <1>2, <1>3 DEF Exits!AaveLegs
<1>5. d \in Market /\ ProtocolOf[d] # Exits!AaveV3
  BY <1>3, <1>4, MarketsKnown
<1>6. PICK p \in Position : p = pos[d]
  BY <1>5 DEF ExitShape
<1>7. PICK there \in Position : there = pos[m]
  BY <1>3 DEF ExitShape
<1>8. p.variable \in Nat /\ p.stable = 0 /\ there.collateral \in Nat
  <2>1. pos[d].stable = before.pos[d].stable
    BY <1>5 DEF ExitProgress, SoFar
  <2>2. before.pos[d].stable = 0
    BY <1>5 DEF ExitShape
  <2> QED
    BY <1>6, <1>7, <2>1, <2>2, InNumbers
<1>9. PICK v \in Nat : v = Exits!Lesser(p.variable, l.repay) /\ v <= p.variable /\ v <= l.repay
  BY <1>3, <1>8 DEF Exits!Lesser
<1>10. Exits!Lesser(p.stable, l.repay - v) = 0
  BY <1>3, <1>8, <1>9 DEF Exits!Lesser
<1>11. PICK cv \in 0 .. v : cv = Exits!capRepay(v, p.variable)
  BY <1>8, CapIsAmount
<1>12. Exits!capRepay(0, p.stable) = 0
  <2>1. Exits!capRepay(0, 0) \in 0 .. 0
    BY CapIsAmount
  <2> QED
    BY <1>8, <2>1
<1>13. PICK c \in Nat : /\ c = (IF Exits!Takes(l) THEN Exits!Lesser(there.collateral, l.withdraw) ELSE 0)
                        /\ c <= there.collateral /\ (c > 0 => Exits!Takes(l))
  BY <1>3, <1>8 DEF Exits!Lesser
<1>14. Exits!Plan(l) = [variable |-> cv, stable |-> 0, collateral |-> c]
  <2>1. Owes[l.market] = d
    BY <1>3
  <2> QED
    BY <1>3, <1>6, <1>7, <1>9, <1>10, <1>11, <1>12, <1>13, <2>1 DEF Exits!Plan
<1>15. a = cv /\ take = c
  <2>1. a = cv + 0
    BY <1>2, <1>14 DEF Exits!Repays
  <2> QED
    BY <1>2, <1>14, <2>1
<1>16. a \in Nat /\ take \in Nat /\ a <= p.variable /\ take <= there.collateral /\ (l.repay = 0 => a = 0)
  BY <1>3, <1>8, <1>9, <1>13, <1>15
<1>17. ASSUME Exits!Delegated, Exits!FloorsMet(l)
       PROVE  /\ l.repay > 0 => a = Share(p.variable)
              /\ Exits!Takes(l) => take = there.collateral
  <2>1. Owes[l.market] = d
    BY <1>3
  <2>2. l.repay > 0 => Exits!RepayFloor(cv, p.variable)
    BY <1>6, <1>14, <1>17, <2>1 DEF Exits!FloorsMet
  <2>3. permit.repay <= 10000
    BY <1>17 DEF ExitProgress, Checked
  <2>4. ASSUME l.repay > 0 PROVE a = Share(p.variable)
    <3>1. Exits!RepayFloor(Exits!capRepay(v, p.variable), p.variable)
      BY <1>11, <2>2, <2>4
    <3>2. Exits!capRepay(v, p.variable) = Share(p.variable)
      BY <1>8, <1>9, <1>17, <2>3, <3>1, FloorIsShare
    <3> QED
      BY <1>11, <1>15, <3>2
  <2>5. ASSUME Exits!Takes(l) PROVE take = there.collateral
    <3>1. c >= there.collateral
      BY <1>3, <1>7, <1>14, <1>17, <2>5 DEF Exits!FloorsMet, Exits!WithdrawFloor
    <3> QED
      BY <1>8, <1>13, <1>15, <3>1
  <2> QED
    BY <2>4, <2>5
<1> QED
  BY <1>1, <1>2, <1>3, <1>4, <1>5, <1>6, <1>7, <1>13, <1>15, <1>16, <1>17

(* A leg of another protocol pays a of a debt and takes collateral.        *)
Served(d, m, a, take) ==
  pos' = [pos EXCEPT ![d].variable = @ - a, ![m].collateral = @ - take]

(* One side of one position is set.                                        *)
LEMMA DebtSet ==
  ASSUME NEW f, f \in [Market -> Position], NEW d \in Market, NEW v \in Nat,
         NEW g, g = [f EXCEPT ![d].variable = v]
  PROVE  /\ g \in [Market -> Position]
         /\ \A n \in Market : /\ g[n].variable = IF n = d THEN v ELSE f[n].variable
                              /\ g[n].stable = f[n].stable /\ g[n].collateral = f[n].collateral
                              /\ n # d => g[n] = f[n]
<1>1. PICK p \in Position : p = f[d]
  OBVIOUS
<1>2. PICK q : q = [p EXCEPT !.variable = v]
  OBVIOUS
<1>3. /\ q \in Position /\ q.variable = v /\ q.stable = p.stable /\ q.collateral = p.collateral
  BY <1>2 DEF Position
<1>4. g = [f EXCEPT ![d] = q]
  BY <1>1, <1>2
<1> QED
  BY <1>1, <1>3, <1>4

(* Or the other.                                                           *)
LEMMA CollateralSet ==
  ASSUME NEW f, f \in [Market -> Position], NEW d \in Market, NEW v \in Nat,
         NEW g, g = [f EXCEPT ![d].collateral = v]
  PROVE  /\ g \in [Market -> Position]
         /\ \A n \in Market : /\ g[n].collateral = IF n = d THEN v ELSE f[n].collateral
                              /\ g[n].stable = f[n].stable /\ g[n].variable = f[n].variable
                              /\ n # d => g[n] = f[n]
<1>1. PICK p \in Position : p = f[d]
  OBVIOUS
<1>2. PICK q : q = [p EXCEPT !.collateral = v]
  OBVIOUS
<1>3. /\ q \in Position /\ q.collateral = v /\ q.stable = p.stable /\ q.variable = p.variable
  BY <1>2 DEF Position
<1>4. g = [f EXCEPT ![d] = q]
  BY <1>1, <1>2
<1> QED
  BY <1>1, <1>3, <1>4

(* What is served ends lower, and the rest stays.                          *)
LEMMA ServedFalls ==
  ASSUME ExitShape, NEW d \in Market, NEW m \in Market, NEW a \in Nat, NEW take \in Nat,
         a <= pos[d].variable, take <= pos[m].collateral, Served(d, m, a, take)
  PROVE  /\ pos' \in [Market -> Position]
         /\ \A n \in Market \ {d, m} : pos'[n] = pos[n]
         /\ \A n \in Market :
              /\ pos'[n].variable = pos[n].variable - IF n = d THEN a ELSE 0
              /\ pos'[n].stable = pos[n].stable
              /\ pos'[n].collateral = pos[n].collateral - IF n = m THEN take ELSE 0
<1>1. pos \in [Market -> Position]
  BY DEF ExitShape
<1>2. PICK v \in Nat : v = pos[d].variable - a
  <2>1. pos[d].variable \in Nat
    BY <1>1, InNumbers
  <2>2. pos[d].variable - a \in Nat
    BY <2>1
  <2> QED
    BY <2>2
<1>3. PICK c \in Nat : c = pos[m].collateral - take
  <2>1. pos[m].collateral \in Nat
    BY <1>1, InNumbers
  <2>2. pos[m].collateral - take \in Nat
    BY <2>1
  <2> QED
    BY <2>2
<1>4. PICK q : q = [pos EXCEPT ![d].variable = pos[d].variable - a]
  OBVIOUS
<1>5. q = [pos EXCEPT ![d].variable = v]
  BY <1>2, <1>4
<1>6. /\ q \in [Market -> Position]
      /\ \A n \in Market : /\ q[n].variable = IF n = d THEN v ELSE pos[n].variable
                           /\ q[n].stable = pos[n].stable /\ q[n].collateral = pos[n].collateral
                           /\ n # d => q[n] = pos[n]
  BY <1>1, <1>5, DebtSet
<1>7. pos' = [q EXCEPT ![m].collateral = c]
  <2>1. pos' = [q EXCEPT ![m].collateral = pos[m].collateral - take]
    BY <1>4 DEF Served
  <2> QED
    BY <1>3, <2>1
<1>8. /\ pos' \in [Market -> Position]
      /\ \A n \in Market : /\ pos'[n].collateral = IF n = m THEN c ELSE q[n].collateral
                           /\ pos'[n].stable = q[n].stable /\ pos'[n].variable = q[n].variable
                           /\ n # m => pos'[n] = q[n]
  BY <1>6, <1>7, CollateralSet
<1>9. ASSUME NEW n \in Market
      PROVE  /\ pos'[n].variable = pos[n].variable - IF n = d THEN a ELSE 0
             /\ pos'[n].collateral = pos[n].collateral - IF n = m THEN take ELSE 0
  <2>1. pos[n].variable \in Nat /\ pos[n].collateral \in Nat
    BY <1>1, InNumbers
  <2>2. pos'[n].variable = IF n = d THEN v ELSE pos[n].variable
    BY <1>6, <1>8
  <2>3. pos'[n].collateral = IF n = m THEN c ELSE pos[n].collateral
    BY <1>6, <1>8
  <2> QED
    BY <1>2, <1>3, <2>1, <2>2, <2>3
<1> QED
  BY <1>6, <1>8, <1>9

(* What a leg of another protocol does to the markets.                     *)
LEMMA LegMoves ==
  ASSUME ExitNumbers, ExitShape, ExitProgress, stage # "called", NEW i \in rest,
         NEW m, m = legs[i].market, NEW d, d = Owes[m],
         NEW a, a = Exits!Repays(legs[i]), NEW take, take = Exits!Plan(legs[i]).collateral,
         Served(d, m, a, take)
  PROVE  /\ pos' \in [Market -> Position] /\ Moved(d, a, m, take)
         /\ \A n \in Market \ {d, m} : pos'[n] = pos[n]
         /\ \A n \in Market :
              /\ pos'[n].variable = pos[n].variable - IF n = d THEN a ELSE 0
              /\ pos'[n].stable = pos[n].stable
              /\ pos'[n].collateral = pos[n].collateral - IF n = m THEN take ELSE 0
<1>1. /\ m \in Market /\ d \in Market
      /\ a \in Nat /\ take \in Nat /\ a <= pos[d].variable /\ take <= pos[m].collateral
  BY LegPlan
<1>2. /\ pos' \in [Market -> Position]
      /\ \A n \in Market \ {d, m} : pos'[n] = pos[n]
      /\ \A n \in Market :
           /\ pos'[n].variable = pos[n].variable - IF n = d THEN a ELSE 0
           /\ pos'[n].stable = pos[n].stable
           /\ pos'[n].collateral = pos[n].collateral - IF n = m THEN take ELSE 0
  BY <1>1, ServedFalls
<1>3. ASSUME NEW n \in Market
      PROVE  Exits!Debt(pos'[n]) = Exits!Debt(pos[n]) - IF n = d THEN a ELSE 0
  <2>1. PICK p, q \in Position : p = pos[n] /\ q = pos'[n]
    BY <1>2 DEF ExitShape
  <2>2. p.variable \in Nat /\ p.stable \in Nat
    BY InNumbers
  <2>3. q.variable = p.variable - (IF n = d THEN a ELSE 0) /\ q.stable = p.stable
    BY <1>2, <2>1
  <2>4. q.variable + q.stable = (p.variable + p.stable) - IF n = d THEN a ELSE 0
    BY <1>1, <2>2, <2>3
  <2> QED
    BY <2>1, <2>4 DEF Exits!Debt
<1> QED
  BY <1>1, <1>2, <1>3 DEF Moved

(* The instance counts sets as this module does.                           *)
LEMMA LegsCounted ==
  ASSUME NEW S PROVE Exits!Cardinality(S) = Cardinality(S)
BY DEF Cardinality, Exits!Cardinality

(* The legs that have had their turn are so many.                          *)
LEMMA TurnsCounted ==
  ASSUME ExitShape, NEW m
  PROVE  /\ IsFiniteSet(Exits!Repayers(m)) /\ IsFiniteSet(Exits!Takers(m))
         /\ Cardinality(Exits!Repayers(m)) \in Nat /\ Cardinality(Exits!Takers(m)) \in Nat
         /\ Exits!Takers(m) # {} => Cardinality(Exits!Takers(m)) \in Nat \ {0}
         /\ Exits!RoundedOff(m) \in Nat
         /\ Exits!Takers(m) # {} => Exits!RoundedOff(m) = Cardinality(Exits!Takers(m)) - 1
<1>1. IsFiniteSet(1 .. Len(legs))
  <2>1. Len(legs) \in Nat
    BY DEF ExitShape
  <2> QED
    BY <2>1, FS_Interval
<1>2. IsFiniteSet(Exits!Repayers(m)) /\ IsFiniteSet(Exits!Takers(m))
  <2>1. Exits!Repayers(m) \subseteq 1 .. Len(legs) /\ Exits!Takers(m) \subseteq 1 .. Len(legs)
    BY DEF Exits!Repayers, Exits!Takers
  <2> QED
    BY <1>1, <2>1, FS_Subset
<1>3. Cardinality(Exits!Repayers(m)) \in Nat /\ Cardinality(Exits!Takers(m)) \in Nat
  BY <1>2, FS_CardinalityType
<1>4. Exits!Takers(m) # {} => Cardinality(Exits!Takers(m)) \in Nat \ {0}
  BY <1>2, <1>3, FS_EmptySet
<1>5. Exits!RoundedOff(m) = IF Exits!Takers(m) = {} THEN 0 ELSE Cardinality(Exits!Takers(m)) - 1
  BY LegsCounted DEF Exits!RoundedOff
<1>6. Exits!RoundedOff(m) \in Nat
  BY <1>4, <1>5
<1> QED
  BY <1>2, <1>3, <1>4, <1>5, <1>6

(* When a leg has had its turn it is among those who had.                  *)
LEMMA TurnTaken ==
  ASSUME ExitShape, NEW i \in rest, rest' = rest \ {i}, UNCHANGED legs,
         NEW n
  PROVE  /\ i \in 1 .. Len(legs) /\ i \notin Exits!Repayers(n) /\ i \notin Exits!Takers(n)
         /\ Exits!Repayers(n)' = Exits!Repayers(n) \union
              IF Owes[legs[i].market] = n /\ legs[i].repay > 0 THEN {i} ELSE {}
         /\ Exits!Takers(n)' = Exits!Takers(n) \union
              IF legs[i].market = n /\ Exits!Takes(legs[i]) THEN {i} ELSE {}
<1>1. i \in 1 .. Len(legs) /\ (1 .. Len(legs)) \ rest' = ((1 .. Len(legs)) \ rest) \union {i}
  BY DEF ExitShape
<1>2. i \notin Exits!Repayers(n) /\ i \notin Exits!Takers(n)
  BY DEF Exits!Repayers, Exits!Takers
<1>3. Exits!Repayers(n)' = {j \in (1 .. Len(legs)) \ rest' : Owes[legs[j].market] = n /\ legs[j].repay > 0}
  BY DEF Exits!Repayers
<1>4. Exits!Takers(n)' = {j \in (1 .. Len(legs)) \ rest' : legs[j].market = n /\ Exits!Takes(legs[j])}
  BY DEF Exits!Takers, Exits!Takes
<1>5. Exits!Repayers(n)' = Exits!Repayers(n) \union
        IF Owes[legs[i].market] = n /\ legs[i].repay > 0 THEN {i} ELSE {}
  BY <1>1, <1>3 DEF Exits!Repayers
<1>6. Exits!Takers(n)' = Exits!Takers(n) \union
        IF legs[i].market = n /\ Exits!Takes(legs[i]) THEN {i} ELSE {}
  BY <1>1, <1>4 DEF Exits!Takers
<1> QED
  BY <1>1, <1>2, <1>5, <1>6

(* A fraction of less is no more.                                          *)
LEMMA ShareMonotone ==
  ASSUME NEW x \in Nat, NEW y \in Nat, x <= y, NEW k \in Nat
  PROVE  (x * k) \div 10000 <= (y * k) \div 10000
<1>1. PICK z \in Nat : y = x + z
  <2>1. y - x \in Nat /\ y = x + (y - x)
    OBVIOUS
  <2> QED
    BY <2>1
<1>2. PICK p, q \in Nat : p = x * k /\ q = z * k
  <2>1. x * k \in Nat /\ z * k \in Nat
    OBVIOUS
  <2> QED
    BY <2>1
<1>3. y * k = p + q
  <2>1. (x + z) * k = x * k + z * k
    OBVIOUS
  <2> QED
    BY <1>1, <1>2, <2>1
<1>4. p \div 10000 <= (p + q) \div 10000
  OBVIOUS
<1> QED
  BY <1>2, <1>3, <1>4

(* The shares of a permit in numbers.                                      *)
LEMMA ShareIsAmount ==
  ASSUME ExitShape, Exits!Delegated, NEW x \in Nat, NEW y \in Nat, x <= y
  PROVE  Share(x) \in Nat /\ Share(y) \in Nat /\ Share(x) <= Share(y)
<1>0. permit \in Scoped
  BY DEF ExitShape, Exits!Delegated
<1>1. PICK k \in Nat : k = permit.repay
  BY <1>0 DEF Scoped
<1>2. (x * k) \div 10000 \in Nat /\ (y * k) \div 10000 \in Nat
  BY FractionIsAmount
<1>3. (x * k) \div 10000 <= (y * k) \div 10000
  BY ShareMonotone
<1> QED
  BY <1>1, <1>2, <1>3 DEF Share

(* What a leg of another protocol pays, is paid back, and brings.          *)
Settled(l, left, out) ==
  LET m == l.market
      t == DebtToken[Owes[m]]
      back == IF t = Usdc THEN 0 ELSE left
  IN  /\ left \in Nat /\ out \in Exits!Sold(CollateralToken[m], Exits!Freed(m, Exits!Plan(l).collateral))
      /\ wallet[t] >= Exits!Repays(l)
      /\ wallet' = [wallet EXCEPT ![t] = @ - Exits!Repays(l) + back]
      /\ held' = [held EXCEPT ![Usdc] = @ + out + (left - back)]

(* A leg of another protocol passes its checks, and moves something.       *)
LEMMA LegServed ==
  ASSUME ExitNumbers, ExitShape, ExitProgress, Exits!ProcessLeg
  PROVE  \E i \in rest :
           /\ Served(Owes[legs[i].market], legs[i].market,
                     Exits!Repays(legs[i]), Exits!Plan(legs[i]).collateral)
           /\ Exits!FloorsMet(legs[i])
           /\ Exits!Delegated => Exits!Repays(legs[i]) > 0 \/ Exits!Plan(legs[i]).collateral > 0
           /\ rest' = rest \ {i} /\ \E left, out : Settled(legs[i], left, out)
<1>1. stage = "withdraw"
  BY DEF Exits!ProcessLeg
<1>2. PICK i \in rest :
        /\ Served(Owes[legs[i].market], legs[i].market,
                  Exits!Repays(legs[i]), Exits!Plan(legs[i]).collateral)
        /\ Exits!FloorsMet(legs[i]) /\ Exits!WorkDone(Exits!Acted(legs[i]))
        /\ wallet[DebtToken[Owes[legs[i].market]]] >= Exits!Repays(legs[i])
        /\ \E left \in Exits!Leftover(legs[i]),
              out \in Exits!Sold(CollateralToken[legs[i].market],
                                 Exits!Freed(legs[i].market, Exits!Plan(legs[i]).collateral)) :
             /\ wallet' = [wallet EXCEPT ![DebtToken[Owes[legs[i].market]]] =
                             @ - Exits!Repays(legs[i])
                               + Exits!Returned(DebtToken[Owes[legs[i].market]], left)]
             /\ held' = [held EXCEPT ![Usdc] =
                           @ + out + (left - Exits!Returned(DebtToken[Owes[legs[i].market]], left))]
        /\ rest' = rest \ {i}
  BY DEF Exits!ProcessLeg, Served
<1>3. \A left \in Exits!Leftover(legs[i]) : left \in Nat
  BY DEF Exits!Leftover
<1>4. \E left, out : Settled(legs[i], left, out)
  <2>1. PICK left \in Exits!Leftover(legs[i]),
             out \in Exits!Sold(CollateralToken[legs[i].market],
                                Exits!Freed(legs[i].market, Exits!Plan(legs[i]).collateral)) :
          /\ wallet' = [wallet EXCEPT ![DebtToken[Owes[legs[i].market]]] =
                          @ - Exits!Repays(legs[i])
                            + Exits!Returned(DebtToken[Owes[legs[i].market]], left)]
          /\ held' = [held EXCEPT ![Usdc] =
                        @ + out + (left - Exits!Returned(DebtToken[Owes[legs[i].market]], left))]
    BY <1>2
  <2>2. Settled(legs[i], left, out)
    BY <1>2, <1>3, <2>1 DEF Settled, Exits!Returned
  <2> QED
    BY <2>2
<1>5. ASSUME Exits!Delegated
      PROVE  Exits!Repays(legs[i]) > 0 \/ Exits!Plan(legs[i]).collateral > 0
  <2>1. PICK c \in Nat : c = Exits!Plan(legs[i]).collateral
    BY <1>1, LegPlan
  <2>2. Exits!Repays(legs[i]) > 0 \/ Exits!Freed(legs[i].market, c) > 0
    BY <1>2, <1>5, <2>1 DEF Exits!WorkDone, Exits!Acted
  <2>3. c = 0 => Exits!Freed(legs[i].market, c) = 0
    BY FreedFrom
  <2> QED
    BY <2>1, <2>2, <2>3
<1> QED
  BY <1>2, <1>4, <1>5

(* The balances stay balances.                                             *)
LEMMA BalancesKept ==
  ASSUME ExitNumbers, ExitShape, Checked, NEW l \in ExitLeg, NEW left, NEW out,
         Settled(l, left, out), Exits!Repays(l) \in Nat, Exits!Plan(l).collateral \in Nat
  PROVE  /\ wallet' \in [Exits!Token -> Nat] /\ held' \in [Exits!Token -> Nat]
         /\ left \in Nat /\ out \in Nat
<1>1. PICK m \in Market : m = l.market
  BY DEF ExitLeg
<1>2. PICK t \in Exits!Token : t = DebtToken[Owes[m]]
  BY MarketsKnown, TokensOf
<1>3. Exits!Freed(m, Exits!Plan(l).collateral) \in Nat
  BY FreedFrom
<1>4. left \in Nat /\ out \in Nat
  BY <1>1, <1>3, SoldIsAmount DEF Settled
<1>5. PICK back \in Nat : back = (IF t = Usdc THEN 0 ELSE left) /\ back <= left
  BY <1>4
<1>6. /\ wallet \in [Exits!Token -> Nat] /\ held \in [Exits!Token -> Nat] /\ Usdc \in Exits!Token
  BY TokensOf DEF ExitShape
<1>7. PICK w \in Nat : w = wallet[t] - Exits!Repays(l) + back
  <2>1. wallet[t] >= Exits!Repays(l)
    BY <1>1, <1>2 DEF Settled
  <2>2. wallet[t] \in Nat
    BY <1>6
  <2>3. wallet[t] - Exits!Repays(l) + back \in Nat
    BY <1>5, <2>1, <2>2
  <2> QED
    BY <2>3
<1>8. wallet' = [wallet EXCEPT ![t] = w]
  BY <1>1, <1>2, <1>5, <1>7 DEF Settled
<1>9. PICK h \in Nat : h = held[Usdc] + out + (left - back)
  <2>1. held[Usdc] \in Nat /\ left - back \in Nat
    BY <1>4, <1>5, <1>6
  <2>2. held[Usdc] + out + (left - back) \in Nat
    BY <1>4, <2>1
  <2> QED
    BY <2>2
<1>10. held' = [held EXCEPT ![Usdc] = h]
  BY <1>1, <1>2, <1>5, <1>9 DEF Settled
<1> QED
  BY <1>4, <1>6, <1>8, <1>9, <1>10

(* After the turn of a leg every other market is as far as it should be.   *)
LEMMA LegBringsOn ==
  ASSUME ExitNumbers, ExitShape, ExitProgress, stage # "called", NEW i \in rest,
         rest' = rest \ {i}, UNCHANGED <<permit, legs, before>>,
         NEW m, m = legs[i].market, NEW d, d = Owes[m],
         NEW a, a = Exits!Repays(legs[i]), NEW take, take = Exits!Plan(legs[i]).collateral,
         Served(d, m, a, take), Exits!FloorsMet(legs[i]),
         NEW n \in Market, ProtocolOf[n] # Exits!AaveV3
  PROVE  SoFar(n)'
<1>1. /\ a \in Nat /\ take \in Nat /\ a <= pos[d].variable /\ take <= pos[m].collateral
      /\ legs[i].repay = 0 => a = 0
      /\ take > 0 => Exits!Takes(legs[i])
      /\ Exits!Delegated =>
           /\ legs[i].repay > 0 => a = Share(pos[d].variable)
           /\ Exits!Takes(legs[i]) => take = pos[m].collateral
      /\ legs[i] \in ExitLeg
  BY LegPlan
<1>2. /\ pos' \in [Market -> Position]
      /\ \A k \in Market :
           /\ pos'[k].variable = pos[k].variable - IF k = d THEN a ELSE 0
           /\ pos'[k].stable = pos[k].stable
           /\ pos'[k].collateral = pos[k].collateral - IF k = m THEN take ELSE 0
  BY LegMoves
<1>3. PICK was, is, new \in Position : was = before.pos[n] /\ is = pos[n] /\ new = pos'[n]
  BY <1>2 DEF ExitShape
<1>4. /\ was.variable \in Nat /\ was.stable \in Nat /\ was.collateral \in Nat
      /\ is.variable \in Nat /\ is.stable \in Nat /\ is.collateral \in Nat
      /\ new.variable \in Nat /\ new.stable \in Nat /\ new.collateral \in Nat
  BY InNumbers
<1>5. PICK more, all \in BOOLEAN :
        /\ more = (d = n /\ legs[i].repay > 0) /\ all = (m = n /\ Exits!Takes(legs[i]))
  OBVIOUS
<1>6. PICK R, T, RR, TT :
        /\ R = Exits!Repayers(n) /\ T = Exits!Takers(n)
        /\ RR = Exits!Repayers(n)' /\ TT = Exits!Takers(n)'
  OBVIOUS
<1>7. /\ i \notin R /\ RR = R \union (IF more THEN {i} ELSE {})
      /\ TT = T \union (IF all THEN {i} ELSE {})
  BY <1>5, <1>6, TurnTaken
<1>8. /\ is.variable <= was.variable /\ is.stable = was.stable /\ is.collateral <= was.collateral
      /\ R = {} => is.variable = was.variable
      /\ T = {} => is.collateral = was.collateral
      /\ Exits!Delegated =>
           /\ R # {} => /\ Share(was.variable) <= was.variable - is.variable
                        /\ was.variable - is.variable <= Cardinality(R) * Share(was.variable)
           /\ T # {} => is.collateral = 0
  BY <1>3, <1>6 DEF ExitProgress, SoFar
<1>9. /\ new.stable = is.stable
      /\ new.variable <= is.variable /\ (~more => new.variable = is.variable)
      /\ new.collateral <= is.collateral /\ (~all => new.collateral = is.collateral)
  <2>1. /\ new.stable = is.stable
        /\ new.variable = is.variable - IF n = d THEN a ELSE 0
        /\ new.collateral = is.collateral - IF n = m THEN take ELSE 0
    BY <1>2, <1>3
  <2>2. ASSUME n = d, ~more PROVE a = 0
    <3>1. legs[i].repay \in Nat
      BY <1>1 DEF ExitLeg
    <3>2. ~(legs[i].repay > 0)
      BY <1>5, <2>2
    <3>3. legs[i].repay = 0
      BY <3>1, <3>2
    <3> QED
      BY <1>1, <3>3
  <2>3. ASSUME n = m, ~all PROVE take = 0
    <3>1. ~Exits!Takes(legs[i])
      BY <1>5, <2>3
    <3>2. take \in Nat /\ ~(take > 0)
      BY <1>1, <3>1
    <3> QED
      BY <3>2
  <2> QED
    BY <1>1, <1>4, <2>1, <2>2, <2>3
<1>10. ASSUME Exits!Delegated
       PROVE  /\ more => new.variable = is.variable - Share(is.variable)
              /\ all => new.collateral = 0
  <2>1. more => a = Share(is.variable) /\ n = d
    BY <1>1, <1>3, <1>5, <1>10
  <2>2. all => take = is.collateral /\ n = m
    BY <1>1, <1>3, <1>5, <1>10
  <2>3. /\ new.variable = is.variable - IF n = d THEN a ELSE 0
        /\ new.collateral = is.collateral - IF n = m THEN take ELSE 0
    BY <1>2, <1>3
  <2> QED
    BY <1>4, <2>1, <2>2, <2>3
<1>11. ASSUME Exits!Delegated, RR # {}
       PROVE  /\ Share(was.variable) <= was.variable - new.variable
              /\ was.variable - new.variable <= Cardinality(RR) * Share(was.variable)
  <2>1. CASE ~more
    <3>1. RR = R /\ new.variable = is.variable
      BY <1>7, <1>9, <2>1
    <3> QED
      BY <1>8, <1>11, <3>1
  <2>2. CASE more
    <3>1. PICK part, some \in Nat : /\ part = Share(was.variable) /\ some = Share(is.variable)
                                    /\ some <= part
      BY <1>4, <1>8, <1>11, ShareIsAmount
    <3>2. PICK k \in Nat : k = Cardinality(R) /\ Cardinality(RR) = k + 1
      <4>1. IsFiniteSet(R) /\ Cardinality(R) \in Nat
        BY <1>6, TurnsCounted
      <4>2. RR = R \union {i}
        BY <1>7, <2>2
      <4>3. Cardinality(R \union {i}) = Cardinality(R) + 1
        BY <1>7, <4>1, FS_AddElement
      <4> QED
        BY <4>1, <4>2, <4>3
    <3>3. new.variable = is.variable - some
      BY <1>10, <1>11, <2>2, <3>1
    <3>4. PICK kp \in Nat : kp = k * part /\ (k + 1) * part = kp + part
      <4>1. k * part \in Nat /\ (k + 1) * part = k * part + part
        OBVIOUS
      <4> QED
        BY <4>1
    <3>5. CASE R = {}
      <4>1. k = 0 /\ is.variable = was.variable /\ some = part
        BY <1>8, <3>1, <3>2, <3>5, FS_EmptySet
      <4>2. was.variable - new.variable = part
        BY <1>4, <3>3, <4>1
      <4>3. part <= (k + 1) * part
        BY <3>4
      <4> QED
        BY <3>1, <3>2, <4>2, <4>3
    <3>6. CASE R # {}
      <4>1. part <= was.variable - is.variable /\ was.variable - is.variable <= kp
        BY <1>8, <1>11, <3>1, <3>2, <3>4, <3>6
      <4>2. was.variable - new.variable = (was.variable - is.variable) + some
        BY <1>4, <3>3
      <4>3. part <= was.variable - new.variable /\ was.variable - new.variable <= kp + part
        BY <1>4, <3>1, <4>1, <4>2
      <4> QED
        BY <3>1, <3>2, <3>4, <4>3
    <3> QED
      BY <3>5, <3>6
  <2> QED
    BY <2>1, <2>2
<1>12. Exits!Delegated /\ TT # {} => new.collateral = 0
  BY <1>4, <1>7, <1>8, <1>9, <1>10
<1>13. /\ new.variable <= was.variable /\ new.stable = was.stable /\ new.collateral <= was.collateral
       /\ RR = {} => new.variable = was.variable
       /\ TT = {} => new.collateral = was.collateral
  <2>1. new.variable <= was.variable /\ new.collateral <= was.collateral
    BY <1>4, <1>8, <1>9
  <2>2. RR = {} => R = {} /\ ~more
    BY <1>7
  <2>3. TT = {} => T = {} /\ ~all
    BY <1>7
  <2> QED
    BY <1>8, <1>9, <2>1, <2>2, <2>3
<1>14. /\ before'.pos[n] = was /\ pos'[n] = new /\ Exits!Delegated' = Exits!Delegated
       /\ \A x : Share(x)' = Share(x)
  BY <1>3, SameCall
<1>15. Exits!Delegated =>
         /\ RR # {} => /\ Share(was.variable) <= was.variable - new.variable
                       /\ was.variable - new.variable <= Cardinality(RR) * Share(was.variable)
         /\ TT # {} => new.collateral = 0
  BY <1>11, <1>12
<1> QED
  BY <1>6, <1>13, <1>14, <1>15 DEF SoFar

(* And every leg that had its turn has moved something.                    *)
LEMMA LegWorks ==
  ASSUME ExitNumbers, ExitShape, ExitProgress, stage # "called", NEW i \in rest,
         rest' = rest \ {i}, UNCHANGED <<permit, legs, before>>,
         NEW m, m = legs[i].market, NEW d, d = Owes[m],
         NEW a, a = Exits!Repays(legs[i]), NEW take, take = Exits!Plan(legs[i]).collateral,
         Served(d, m, a, take), Exits!Delegated => a > 0 \/ take > 0,
         NEW j \in (1 .. Len(legs)) \ rest', j \notin Exits!AaveLegs
  PROVE  Worked(j)'
<1>1. /\ a \in Nat /\ take \in Nat /\ m \in Market /\ d \in Market
      /\ ProtocolOf[m] # Exits!AaveV3 /\ ProtocolOf[d] # Exits!AaveV3
  BY LegPlan
<1>2. \A k \in Market :
        /\ pos'[k].variable = pos[k].variable - IF k = d THEN a ELSE 0
        /\ pos'[k].collateral = pos[k].collateral - IF k = m THEN take ELSE 0
  BY LegMoves
<1>3. PICK n, o \in Market : n = legs[j].market /\ o = Owes[n]
  BY LegsTyped, MarketsKnown
<1>4. PICK p, q, pp, qq \in Nat :
        /\ p = before.pos[o].variable /\ q = pos[o].variable
        /\ pp = before.pos[n].collateral /\ qq = pos[n].collateral
  <2>1. /\ before.pos[o] \in Position /\ pos[o] \in Position
        /\ before.pos[n] \in Position /\ pos[n] \in Position
    BY DEF ExitShape
  <2> QED
    BY <2>1, InNumbers
<1>4a. p \in Nat /\ q \in Nat /\ pp \in Nat /\ qq \in Nat
  BY <1>4
<1>5. q <= p /\ qq <= pp
  <2>1. ProtocolOf[n] # Exits!AaveV3
    BY <1>3 DEF Exits!AaveLegs
  <2>2. ProtocolOf[o] # Exits!AaveV3
    BY <1>3, <2>1, MarketsKnown
  <2> QED
    BY <1>4, <2>1, <2>2 DEF ExitProgress, SoFar
<1>6. PICK f, g : f = pos'[o].variable /\ g = pos'[n].collateral
  OBVIOUS
<1>7. f = q - (IF o = d THEN a ELSE 0) /\ g = qq - IF n = m THEN take ELSE 0
  BY <1>2, <1>4, <1>6
<1>8. ASSUME Exits!Delegated PROVE f < p \/ g < pp
  <2>1. CASE j = i
    <3>1. n = m /\ o = d
      BY <1>3, <2>1
    <3>2. f = q - a /\ g = qq - take
      BY <1>7, <3>1
    <3>3. a \in Nat /\ take \in Nat /\ (a > 0 \/ take > 0)
      BY <1>1, <1>8
    <3> QED
      BY <1>4a, <1>5, <3>2, <3>3
  <2>2. CASE j # i
    <3>1. j \notin rest
      BY <2>2
    <3>2. Worked(j)
      BY <3>1 DEF ExitProgress
    <3>3. q < p \/ qq < pp
      BY <1>3, <1>4, <1>8, <3>2 DEF Worked
    <3>4. PICK x, y \in Nat : x = (IF o = d THEN a ELSE 0) /\ y = IF n = m THEN take ELSE 0
      <4>1. (IF o = d THEN a ELSE 0) \in Nat /\ (IF n = m THEN take ELSE 0) \in Nat
        BY <1>1
      <4> QED
        BY <4>1
    <3>5. f = q - x /\ g = qq - y
      BY <1>7, <3>4
    <3>6. x \in Nat /\ y \in Nat
      BY <3>4
    <3> QED
      BY <1>4a, <1>5, <3>3, <3>5, <3>6
  <2> QED
    BY <2>1, <2>2
<1>9. Exits!Delegated' = Exits!Delegated /\ legs' = legs /\ before' = before
  BY SameCall
<1> QED
  BY <1>3, <1>4, <1>6, <1>8, <1>9 DEF Worked

(* A leg of another protocol keeps shape and progress.                     *)
LEMMA LegKeeps ==
  ASSUME ExitNumbers, ExitShape, ExitProgress, Exits!ProcessLeg
  PROVE  /\ ExitShape' /\ ExitProgress'
         /\ \E i \in rest :
              /\ Served(Owes[legs[i].market], legs[i].market,
                        Exits!Repays(legs[i]), Exits!Plan(legs[i]).collateral)
              /\ rest' = rest \ {i} /\ \E left, out : Settled(legs[i], left, out)
<1>1. /\ stage = "withdraw" /\ UNCHANGED <<stage, permit, legs, halted, before, due>>
  BY DEF Exits!ProcessLeg, Exits!call
<1>2. PICK i \in rest :
        /\ Served(Owes[legs[i].market], legs[i].market,
                  Exits!Repays(legs[i]), Exits!Plan(legs[i]).collateral)
        /\ Exits!FloorsMet(legs[i])
        /\ Exits!Delegated => Exits!Repays(legs[i]) > 0 \/ Exits!Plan(legs[i]).collateral > 0
        /\ rest' = rest \ {i} /\ \E left, out : Settled(legs[i], left, out)
  BY LegServed
<1>3. PICK m, d, a, take :
        /\ m = legs[i].market /\ d = Owes[m]
        /\ a = Exits!Repays(legs[i]) /\ take = Exits!Plan(legs[i]).collateral
  OBVIOUS
<1>4. Served(d, m, a, take)
  BY <1>2, <1>3
<1>5. /\ i \in 1 .. Len(legs) /\ legs[i] \in ExitLeg /\ m \in Market /\ d \in Market
      /\ ProtocolOf[m] # Exits!AaveV3 /\ ProtocolOf[d] # Exits!AaveV3
      /\ a \in Nat /\ take \in Nat
  BY <1>1, <1>3, LegPlan
<1>6. pos' \in [Market -> Position] /\ \A n \in Market \ {d, m} : pos'[n] = pos[n]
  BY <1>1, <1>3, <1>4, LegMoves
<1>7. Checked
  BY <1>1 DEF ExitProgress
<1>8. wallet' \in [Exits!Token -> Nat] /\ held' \in [Exits!Token -> Nat]
  <2>1. Exits!Repays(legs[i]) \in Nat /\ Exits!Plan(legs[i]).collateral \in Nat
    BY <1>3, <1>5
  <2> QED
    BY <1>2, <1>5, <1>7, <2>1, BalancesKept
<1>9. ExitShape'
  BY <1>1, <1>2, <1>6, <1>8 DEF ExitShape
<1>10. \A n \in Market : ProtocolOf[n] = Exits!AaveV3 => pos'[n] = pos[n]
  BY <1>5, <1>6
<1>11. ASSUME NEW j \in Exits!AaveLegs PROVE HowFar(j)'
  <2>1. pos'[legs[j].market] = pos[legs[j].market]
    BY <1>10, LegsTyped DEF Exits!AaveLegs
  <2>2. \A side : Waits(j, side)' = Waits(j, side)
    BY <1>1 DEF Waits
  <2>3. HowFar(j)
    BY <1>1 DEF ExitProgress
  <2> QED
    BY <1>1, <2>1, <2>2, <2>3, SameCall DEF HowFar
<1>12. \A n \in Market : ProtocolOf[n] # Exits!AaveV3 => SoFar(n)'
  BY <1>1, <1>2, <1>3, <1>4, LegBringsOn
<1>13. \A j \in (1 .. Len(legs)) \ rest' : j \notin Exits!AaveLegs => Worked(j)'
  <2>1. Exits!Delegated => a > 0 \/ take > 0
    BY <1>2, <1>3
  <2> QED
    BY <1>1, <1>2, <1>3, <1>4, <2>1, LegWorks
<1>14. \A n \in Market : ProtocolOf[n] = Exits!AaveV3 /\ LegsOf(n) = {} => pos'[n] = before.pos[n]
  BY <1>10 DEF ExitProgress
<1>15. DuePlanned'
  BY <1>1, SameCall DEF ExitProgress, DuePlanned
<1>16. /\ Checked' /\ \A j \in Exits!AaveLegs : DoesAsSigned(legs[j])'
       /\ Exits!AaveLegs' = Exits!AaveLegs /\ \A n : LegsOf(n)' = LegsOf(n)
  BY <1>1, <1>7, SameCall DEF ExitProgress
<1>17. rest' \intersect Exits!AaveLegs = {}
  BY <1>2 DEF ExitProgress
<1>18. ExitProgress'
  BY <1>1, <1>11, <1>12, <1>13, <1>14, <1>15, <1>16, <1>17 DEF ExitProgress
<1> QED
  BY <1>2, <1>9, <1>18

(* A total adds up what g says of each element.                            *)
AddsUp(total, g) == \E f : IsSum(f, g, DOMAIN g) /\ total = f[DOMAIN g]

(* By how much the debts in a token have fallen, market by market.         *)
Fallen(t) ==
  [m \in {n \in Market : DebtToken[n] = t} |-> Exits!Debt(before.pos[m]) - Exits!Debt(pos[m])]

(* The least that the collateral taken must have fetched, likewise.        *)
Brought ==
  [m \in Market |->
     IF CollateralToken[m] = Usdc
     THEN Exits!Freed(m, before.pos[m].collateral - pos[m].collateral)
     ELSE Exits!MinOut(Exits!Freed(m, before.pos[m].collateral - pos[m].collateral))
            - Exits!RoundedOff(m)]

(* What MapThenSumSet computes is the sum.                                 *)
LEMMA RepaidAddsUp == IsFiniteSet(Market) => \A t : AddsUp(Exits!Repaid(t), Fallen(t))
<1> SUFFICES ASSUME IsFiniteSet(Market), NEW t PROVE AddsUp(Exits!Repaid(t), Fallen(t))
  OBVIOUS
<1> DEFINE S == {m \in Market : DebtToken[m] = t}
           Adds(f) == f = [s \in SUBSET S |-> IF s = {} THEN 0
                             ELSE (Exits!Debt(before.pos[Chosen(s)]) - Exits!Debt(pos[Chosen(s)]))
                                  + f[s \ {Chosen(s)}]]
<1>1. IsFiniteSet(S)
  BY FS_Subset
<1>2. DOMAIN Fallen(t) = S
  BY DEF Fallen
<1>3. ASSUME NEW s \in SUBSET S, s # {}
      PROVE  Fallen(t)[Chosen(s)] = Exits!Debt(before.pos[Chosen(s)]) - Exits!Debt(pos[Chosen(s)])
  <2>1. Chosen(s) \in S
    BY <1>1, <1>3, TakenOut
  <2> QED
    BY <2>1 DEF Fallen
<1>4. \A f : IsSum(f, Fallen(t), S) <=> Adds(f)
  BY <1>3 DEF IsSum
<1>5. \E f : Adds(f)
  BY <1>1, <1>4, SumExists
<1>6. PICK iter : iter = CHOOSE f : Adds(f)
  OBVIOUS
<1>7. Adds(iter)
  BY <1>5, <1>6
<1>8. Exits!Repaid(t) = iter[S]
  BY <1>6 DEF Exits!Repaid, Exits!MapThenSumSet, Exits!MapThenFoldSet, Chosen
<1> QED
  BY <1>2, <1>4, <1>7, <1>8 DEF AddsUp

(* And so it is in the state after.                                       *)
LEMMA RepaidAddsUpThen == (IsFiniteSet(Market) => \A t : AddsUp(Exits!Repaid(t), Fallen(t)))'
BY RepaidAddsUp, PTL

(* So it is with what was fetched.                                         *)
LEMMA FetchedAddsUp == IsFiniteSet(Market) => AddsUp(Exits!Fetched, Brought)
<1> SUFFICES ASSUME IsFiniteSet(Market) PROVE AddsUp(Exits!Fetched, Brought)
  OBVIOUS
<1> DEFINE Worth(m) == IF CollateralToken[m] = Usdc
                       THEN Exits!Freed(m, before.pos[m].collateral - pos[m].collateral)
                       ELSE Exits!MinOut(Exits!Freed(m, before.pos[m].collateral - pos[m].collateral))
                              - Exits!RoundedOff(m)
           Adds(f) == f = [s \in SUBSET Market |->
                             IF s = {} THEN 0 ELSE Worth(Chosen(s)) + f[s \ {Chosen(s)}]]
<1>2. DOMAIN Brought = Market
  BY DEF Brought
<1>3. ASSUME NEW s \in SUBSET Market, s # {} PROVE Brought[Chosen(s)] = Worth(Chosen(s))
  <2>1. Chosen(s) \in Market
    BY <1>3, TakenOut
  <2> QED
    BY <2>1 DEF Brought
<1> HIDE DEF Worth
<1>4. \A f : IsSum(f, Brought, Market) <=> Adds(f)
  BY <1>3 DEF IsSum
<1>5. \E f : Adds(f)
  BY <1>4, SumExists
<1>6. PICK iter : iter = CHOOSE f : Adds(f)
  OBVIOUS
<1>7. Adds(iter)
  BY <1>5, <1>6
<1>8. Exits!Fetched = iter[Market]
  BY <1>6 DEF Exits!Fetched, Exits!MapThenSumSet, Exits!MapThenFoldSet, Chosen, Worth
<1> QED
  BY <1>2, <1>4, <1>7, <1>8 DEF AddsUp

(* And so it is in the state after.                                        *)
LEMMA FetchedAddsUpThen == (IsFiniteSet(Market) => AddsUp(Exits!Fetched, Brought))'
BY FetchedAddsUp, PTL

(* The fraction that a sale must bring is a number.                        *)
LEMMA SlipIsNumber ==
  ASSUME ExitNumbers, ExitShape
  PROVE  (IF Exits!Delegated THEN 10000 - permit.slip ELSE DeployBps) \in Int
<1>1. ASSUME Exits!Delegated PROVE 10000 - permit.slip \in Int
  <2>1. permit \in Scoped
    BY <1>1 DEF ExitShape, Exits!Delegated
  <2>2. permit.slip \in Nat
    BY <2>1 DEF Scoped
  <2> QED
    BY <2>2
<1>2. DeployBps \in Int
  <2>1. DeployBps \in 0 .. 10000
    BY ScaleIsNumbers
  <2> QED
    BY <2>1
<1> QED
  BY <1>1, <1>2

(* A sale and a redemption are numbers, and nothing of nothing.            *)
LEMMA WorthIsNumber ==
  ASSUME ExitNumbers, ExitShape, NEW m, NEW x \in Int
  PROVE  /\ Exits!Freed(m, x) \in Int /\ Exits!MinOut(Exits!Freed(m, x)) \in Int
         /\ x = 0 => Exits!Freed(m, x) = 0 /\ Exits!MinOut(Exits!Freed(m, x)) = 0
<1>1. PICK k \in Nat \ {0} : k = MTokens
  BY ScaleIsNumbers
<1>2. x \div k \in Int /\ (x = 0 => x \div k = 0)
  OBVIOUS
<1>3. PICK y \in Int : y = Exits!Freed(m, x) /\ (x = 0 => y = 0)
  BY <1>1, <1>2 DEF Exits!Freed
<1>4. PICK b \in Int : b = IF Exits!Delegated THEN 10000 - permit.slip ELSE DeployBps
  BY SlipIsNumber
<1>5. PICK z \in Int : z = y * b /\ (y = 0 => z = 0)
  OBVIOUS
<1>6. z \div 10000 \in Int /\ (z = 0 => z \div 10000 = 0)
  OBVIOUS
<1>7. Exits!MinOut(y) = z \div 10000
  BY <1>4, <1>5 DEF Exits!MinOut, Exits!BpsDenominator
<1> QED
  BY <1>3, <1>5, <1>6, <1>7

(* What a market's debt falls by is what was repaid on it.                 *)
LEMMA RepaidMoves ==
  ASSUME ExitNumbers, ExitShape, before' = before, 
         NEW d, NEW a, NEW m, NEW take, Moved(d, a, m, take), NEW t
  PROVE  /\ Exits!Repaid(t) \in Int
         /\ Exits!Repaid(t)' = Exits!Repaid(t) + IF DebtToken[d] = t THEN a ELSE 0
<1>0. IsFiniteSet(Market)
  BY ExitParts
<1>1. PICK S : S = {n \in Market : DebtToken[n] = t}
  OBVIOUS
<1>2. IsFiniteSet(S)
  BY <1>0, <1>1, FS_Subset
<1>3. PICK g, h : g = Fallen(t) /\ h = Fallen(t)'
  OBVIOUS
<1>4. DOMAIN g = S /\ DOMAIN h = S
  BY <1>1, <1>3 DEF Fallen
<1>5. d \in Market /\ a \in Nat
  BY DEF Moved
<1>6. ASSUME NEW n \in S
      PROVE  /\ g[n] \in Int /\ h[n] = g[n] + IF n = d THEN a ELSE 0
  <2>1. PICK was, is \in Position : was = before.pos[n] /\ is = pos[n]
    BY <1>1 DEF ExitShape
  <2>2. Exits!Debt(was) \in Nat /\ Exits!Debt(is) \in Nat
    BY DEF Exits!Debt, Position
  <2>3. g[n] = Exits!Debt(was) - Exits!Debt(is)
    BY <1>1, <1>3, <2>1 DEF Fallen
  <2>4. h[n] = Exits!Debt(was) - Exits!Debt(pos'[n])
    BY <1>1, <1>3, <2>1 DEF Fallen, Exits!Debt
  <2>5. Exits!Debt(pos'[n]) = Exits!Debt(is) - IF n = d THEN a ELSE 0
    BY <1>1, <2>1 DEF Moved
  <2> QED
    BY <1>5, <2>2, <2>3, <2>4, <2>5
<1>7. /\ g \in [S -> Int] /\ h \in [S -> Int]
  <2>1. g = [n \in S |-> g[n]] /\ h = [n \in S |-> h[n]]
    BY <1>1, <1>3 DEF Fallen
  <2>2. \A n \in S : h[n] \in Int
    BY <1>5, <1>6
  <2> QED
    BY <1>6, <2>1, <2>2
<1>8. PICK f : IsSum(f, g, S) /\ Exits!Repaid(t) = f[S]
  BY <1>0, <1>3, <1>4, RepaidAddsUp DEF AddsUp
<1>9. PICK e : IsSum(e, h, S) /\ Exits!Repaid(t)' = e[S]
  <2>1. (\A u : AddsUp(Exits!Repaid(u), Fallen(u)))'
    BY <1>0, RepaidAddsUpThen
  <2>2. AddsUp(Exits!Repaid(t)', h)
    BY <1>3, <2>1 DEF AddsUp
  <2> QED
    BY <1>4, <2>2 DEF AddsUp
<1>10. f[S] \in Int /\ (d \in S => e[S] = f[S] + a) /\ (d \notin S => e[S] = f[S])
  <2>1. PICK k : k = a /\ k \in Int
    BY <1>5
  <2>2. \A n \in S \ {d} : h[n] = g[n]
    BY <1>6
  <2>3. d \in S => h[d] = g[d] + k
    BY <1>6, <2>1
  <2>4. IsSum(f, g, S) /\ IsSum(e, h, S)
    BY <1>8, <1>9
  <2>5. f[S] \in Int /\ (d \in S => e[S] = f[S] + k) /\ (d \notin S => e[S] = f[S])
    <3>1. CASE d \in S
      <4>1. h[d] = g[d] + k
        BY <2>3, <3>1
      <4> QED
        BY <1>2, <1>7, <2>1, <2>2, <2>4, <3>1, <4>1, SumMoves
    <3>2. CASE d \notin S
      <4>1. \A n \in S : h[n] = g[n]
        BY <2>2, <3>2
      <4>2. h = g
        BY <1>7, <4>1
      <4>3. f[S] \in Int /\ e[S] = f[S]
        BY <1>2, <1>7, <2>4, <4>2, SumIsOne
      <4> QED
        BY <3>2, <4>3
    <3> QED
      BY <3>1, <3>2
  <2> QED
    BY <2>1, <2>5
<1> QED
  BY <1>1, <1>5, <1>8, <1>9, <1>10

(* The least that what is taken of a market must fetch.                    *)
Yields(m, take) ==
  IF CollateralToken[m] = Usdc THEN Exits!Freed(m, take) ELSE Exits!MinOut(Exits!Freed(m, take))

(* The floor of a whole is at most that of its parts and one unit.         *)
LEMMA FloorOfParts ==
  ASSUME ExitNumbers, ExitShape, NEW x \in Int, NEW y \in Int
  PROVE  /\ Exits!MinOut(x) \in Int /\ Exits!MinOut(y) \in Int /\ Exits!MinOut(x + y) \in Int
         /\ Exits!MinOut(x + y) <= Exits!MinOut(x) + Exits!MinOut(y) + 1
<1>1. PICK k \in Int : k = IF Exits!Delegated THEN 10000 - permit.slip ELSE DeployBps
  BY SlipIsNumber
<1>2. PICK p, q \in Int : p = x * k /\ q = y * k
  <2>1. x * k \in Int /\ y * k \in Int
    OBVIOUS
  <2> QED
    BY <2>1
<1>3. (x + y) * k = p + q
  <2>1. (x + y) * k = x * k + y * k
    OBVIOUS
  <2> QED
    BY <1>2, <2>1
<1>4. /\ Exits!MinOut(x) = p \div 10000 /\ Exits!MinOut(y) = q \div 10000
      /\ Exits!MinOut(x + y) = (p + q) \div 10000
  BY <1>1, <1>2, <1>3 DEF Exits!MinOut, Exits!BpsDenominator
<1>5. /\ p \div 10000 \in Int /\ q \div 10000 \in Int /\ (p + q) \div 10000 \in Int
      /\ (p + q) \div 10000 <= p \div 10000 + q \div 10000 + 1
  OBVIOUS
<1> QED
  BY <1>4, <1>5

(* What a market must have fetched grows by no more than the floor of what *)
(* is taken: where a part was taken before, one unit is rounded off.       *)
LEMMA GainIsFloor ==
  ASSUME ExitNumbers, ExitShape, UNCHANGED <<permit, before>>,
         NEW d, NEW a, NEW m, NEW take, Moved(d, a, m, take),
         Exits!RoundedOff(m) \in Nat, Exits!RoundedOff(m)' \in Nat,
         Exits!RoundedOff(m)' >= Exits!RoundedOff(m),
         \/ take = 0
         \/ pos[m].collateral = before.pos[m].collateral
         \/ /\ ProtocolOf[m] # Exits!Moonwell
            /\ Exits!RoundedOff(m)' = Exits!RoundedOff(m) + 1
  PROVE  \E gain \in Int : Brought'[m] = Brought[m] + gain /\ gain <= Yields(m, take)
<1>1. m \in Market /\ take \in Nat
  BY DEF Moved
<1>2. PICK was, is \in Nat : was = before.pos[m].collateral /\ is = pos[m].collateral
  BY <1>1, InNumbers DEF ExitShape
<1>3. PICK new : new = pos'[m].collateral /\ new = is - take
  BY <1>1, <1>2 DEF Moved
<1>4. PICK x, y \in Int : x = was - is /\ y = was - new /\ y = x + take
  <2>1. was - is \in Int /\ was - new \in Int /\ was - new = (was - is) + take
    BY <1>1, <1>2, <1>3
  <2> QED
    BY <2>1
<1>5. PICK r, s \in Nat : r = Exits!RoundedOff(m) /\ s = Exits!RoundedOff(m)' /\ s >= r
  OBVIOUS
<1>6. /\ \A z : Exits!MinOut(z)' = Exits!MinOut(z)
      /\ \A z : Exits!Freed(m, z)' = Exits!Freed(m, z)
  BY DEF Exits!MinOut, Exits!Delegated, Exits!Freed
<1>7. Brought[m] = IF CollateralToken[m] = Usdc THEN Exits!Freed(m, x)
                   ELSE Exits!MinOut(Exits!Freed(m, x)) - r
  BY <1>1, <1>2, <1>4, <1>5 DEF Brought
<1>8. Brought'[m] = IF CollateralToken[m] = Usdc THEN Exits!Freed(m, y)
                    ELSE Exits!MinOut(Exits!Freed(m, y)) - s
  <2>1. Brought'[m] = (IF CollateralToken[m] = Usdc
                       THEN Exits!Freed(m, before.pos[m].collateral - pos[m].collateral)
                       ELSE Exits!MinOut(Exits!Freed(m, before.pos[m].collateral - pos[m].collateral))
                              - Exits!RoundedOff(m))'
    BY <1>1 DEF Brought
  <2> QED
    BY <1>2, <1>3, <1>4, <1>5, <1>6, <2>1
<1>9. ASSUME NEW z \in Int
      PROVE  /\ Exits!Freed(m, z) \in Int /\ Exits!MinOut(Exits!Freed(m, z)) \in Int
             /\ z = 0 => Exits!Freed(m, z) = 0 /\ Exits!MinOut(Exits!Freed(m, z)) = 0
  BY WorthIsNumber
<1>10. PICK fx, fy, ft \in Int :
         fx = Exits!Freed(m, x) /\ fy = Exits!Freed(m, y) /\ ft = Exits!Freed(m, take)
  BY <1>1, <1>9
<1>11. PICK gx, gy, gt \in Int :
         gx = Exits!MinOut(fx) /\ gy = Exits!MinOut(fy) /\ gt = Exits!MinOut(ft)
  BY <1>1, <1>9, <1>10
<1>12. Yields(m, take) = IF CollateralToken[m] = Usdc THEN ft ELSE gt
  BY <1>10, <1>11 DEF Yields
<1>13. /\ Brought[m] = IF CollateralToken[m] = Usdc THEN fx ELSE gx - r
       /\ Brought'[m] = IF CollateralToken[m] = Usdc THEN fy ELSE gy - s
  BY <1>7, <1>8, <1>10, <1>11
<1>14. fy <= fx + ft /\ gy - s <= gx - r + gt
  <2>1. CASE take = 0
    <3>1. y = x
      BY <1>4, <2>1
    <3>2. fy = fx /\ gy = gx
      BY <1>10, <1>11, <3>1
    <3>3. ft = 0 /\ gt = 0
      BY <1>9, <1>10, <1>11, <2>1
    <3> QED
      BY <1>5, <3>2, <3>3
  <2>2. CASE is = was
    <3>1. x = 0 /\ y = take
      BY <1>1, <1>2, <1>4, <2>2
    <3>2. fx = 0 /\ gx = 0
      BY <1>9, <1>10, <1>11, <3>1
    <3>3. fy = ft /\ gy = gt
      BY <1>10, <1>11, <3>1
    <3> QED
      BY <1>5, <3>2, <3>3
  <2>3. CASE ProtocolOf[m] # Exits!Moonwell /\ s = r + 1
    <3>1. fx = x /\ fy = y /\ ft = take
      BY <1>10, <2>3 DEF Exits!Freed
    <3>2. fy = fx + ft
      BY <1>4, <3>1
    <3>3. gy <= gx + gt + 1
      <4>1. Exits!MinOut(fx + ft) <= Exits!MinOut(fx) + Exits!MinOut(ft) + 1
        BY FloorOfParts
      <4> QED
        BY <1>11, <3>2, <4>1
    <3> QED
      BY <1>5, <2>3, <3>2, <3>3
  <2> QED
    BY <1>2, <1>5, <2>1, <2>2, <2>3
<1>15. CASE CollateralToken[m] = Usdc
  <2>1. PICK gain \in Int : gain = fy - fx
    OBVIOUS
  <2>2. fy = fx + gain /\ gain <= ft
    BY <1>14, <2>1
  <2> QED
    BY <1>12, <1>13, <1>15, <2>2
<1>16. CASE CollateralToken[m] # Usdc
  <2>1. PICK gain \in Int : gain = (gy - s) - (gx - r)
    OBVIOUS
  <2>2. gy - s = (gx - r) + gain /\ gain <= gt
    BY <1>14, <2>1
  <2> QED
    BY <1>12, <1>13, <1>16, <2>2
<1> QED
  BY <1>15, <1>16

(* What a market must have fetched is a number.                            *)
LEMMA BroughtIsNumber ==
  ASSUME ExitNumbers, ExitShape, NEW n \in Market PROVE Brought[n] \in Int
<1>1. PICK was, is \in Nat : was = before.pos[n].collateral /\ is = pos[n].collateral
  BY InNumbers DEF ExitShape
<1>2. PICK x \in Int : x = was - is
  OBVIOUS
<1>3. Exits!Freed(n, x) \in Int /\ Exits!MinOut(Exits!Freed(n, x)) \in Int
  BY WorthIsNumber
<1>4. Exits!RoundedOff(n) \in Nat
  BY TurnsCounted
<1>5. Exits!MinOut(Exits!Freed(n, x)) - Exits!RoundedOff(n) \in Int
  BY <1>3, <1>4
<1>6. Brought[n] = IF CollateralToken[n] = Usdc THEN Exits!Freed(n, x)
                   ELSE Exits!MinOut(Exits!Freed(n, x)) - Exits!RoundedOff(n)
  BY <1>1, <1>2 DEF Brought
<1> QED
  BY <1>3, <1>5, <1>6

(* What a market's collateral falls by has fetched its floor.              *)
LEMMA FetchedMoves ==
  ASSUME ExitNumbers, ExitShape, UNCHANGED <<permit, before>>,
         NEW d, NEW a, NEW m, NEW take, Moved(d, a, m, take),
         \A n \in Market : Exits!RoundedOff(n) \in Nat /\ Exits!RoundedOff(n)' \in Nat,
         \A n \in Market \ {m} : Exits!RoundedOff(n)' = Exits!RoundedOff(n),
         Exits!RoundedOff(m)' >= Exits!RoundedOff(m),
         \/ take = 0
         \/ pos[m].collateral = before.pos[m].collateral
         \/ /\ ProtocolOf[m] # Exits!Moonwell
            /\ Exits!RoundedOff(m)' = Exits!RoundedOff(m) + 1
  PROVE  /\ Exits!Fetched \in Int /\ Exits!Fetched' \in Int
         /\ Exits!Fetched' <= Exits!Fetched + Yields(m, take)
<1>0. IsFiniteSet(Market)
  BY ExitParts
<1>1. PICK g, h : g = Brought /\ h = Brought'
  OBVIOUS
<1>2. DOMAIN g = Market /\ DOMAIN h = Market
  BY <1>1 DEF Brought
<1>3. m \in Market /\ take \in Nat
  BY DEF Moved
<1>4. PICK gain \in Int : h[m] = g[m] + gain /\ gain <= Yields(m, take)
  BY <1>1, <1>3, GainIsFloor
<1>5. Yields(m, take) \in Int
  BY <1>3, WorthIsNumber DEF Yields
<1>6. \A x : Exits!MinOut(x)' = Exits!MinOut(x)
  BY DEF Exits!MinOut, Exits!Delegated
<1>7. ASSUME NEW n \in Market, n # m PROVE h[n] = g[n]
  <2>1. PICK is \in Nat : is = pos[n].collateral
    BY InNumbers DEF ExitShape
  <2>2. pos'[n].collateral = is
    <3>1. pos'[n].collateral = is - 0
      BY <1>7, <2>1 DEF Moved
    <3> QED
      BY <3>1
  <2>3. \A y : Exits!Freed(n, y)' = Exits!Freed(n, y)
    BY DEF Exits!Freed
  <2>4. h[n] = (IF CollateralToken[n] = Usdc
                THEN Exits!Freed(n, before.pos[n].collateral - pos[n].collateral)
                ELSE Exits!MinOut(Exits!Freed(n, before.pos[n].collateral - pos[n].collateral))
                       - Exits!RoundedOff(n))'
    BY <1>1 DEF Brought
  <2>5. h[n] = IF CollateralToken[n] = Usdc
               THEN Exits!Freed(n, before.pos[n].collateral - pos[n].collateral)
               ELSE Exits!MinOut(Exits!Freed(n, before.pos[n].collateral - pos[n].collateral))
                      - Exits!RoundedOff(n)
    BY <1>6, <1>7, <2>1, <2>2, <2>3, <2>4
  <2> QED
    BY <1>1, <2>5 DEF Brought
<1>8. g \in [Market -> Int] /\ h \in [Market -> Int]
  <2>1. g = [n \in Market |-> g[n]] /\ h = [n \in Market |-> h[n]]
    BY <1>1 DEF Brought
  <2>2. \A n \in Market : g[n] \in Int
    BY <1>1, BroughtIsNumber
  <2>3. \A n \in Market : h[n] \in Int
    BY <1>4, <1>7, <2>2
  <2> QED
    BY <2>1, <2>2, <2>3
<1>9. PICK f : IsSum(f, g, Market) /\ Exits!Fetched = f[Market]
  BY <1>0, <1>1, <1>2, FetchedAddsUp DEF AddsUp
<1>10. PICK e : IsSum(e, h, Market) /\ Exits!Fetched' = e[Market]
  <2>1. AddsUp(Exits!Fetched, Brought)'
    BY <1>0, FetchedAddsUpThen
  <2>2. AddsUp(Exits!Fetched', h)
    BY <1>1, <2>1 DEF AddsUp
  <2> QED
    BY <1>2, <2>2 DEF AddsUp
<1>11. f[Market] \in Int /\ e[Market] = f[Market] + gain
  <2>2. \A n \in Market \ {m} : h[n] = g[n]
    BY <1>7
  <2>3. h[m] = g[m] + gain
    BY <1>4
  <2>4. f[Market] \in Int /\ (m \in Market => e[Market] = f[Market] + gain)
    BY <1>0, <1>8, <1>9, <1>10, <2>2, <2>3, SumMoves
  <2> QED
    BY <1>3, <2>4
<1>12. f[Market] + gain \in Int /\ f[Market] + gain <= f[Market] + Yields(m, take)
  BY <1>4, <1>5, <1>11
<1> QED
  BY <1>9, <1>10, <1>11, <1>12

(* Before anything moves nothing was repaid or fetched.                    *)
LEMMA NothingYet ==
  ExitNumbers /\ ExitShape /\ pos = before.pos /\ (\A n \in Market : Exits!RoundedOff(n) = 0)
    => (\A t : Exits!Repaid(t) = 0) /\ Exits!Fetched = 0
<1> SUFFICES ASSUME ExitNumbers, ExitShape, pos = before.pos,
                    \A n \in Market : Exits!RoundedOff(n) = 0
             PROVE  (\A t : Exits!Repaid(t) = 0) /\ Exits!Fetched = 0
  OBVIOUS
<1>0. IsFiniteSet(Market)
  BY ExitParts
<1>1. ASSUME NEW t PROVE Exits!Repaid(t) = 0
  <2>1. PICK S : S = {n \in Market : DebtToken[n] = t}
    OBVIOUS
  <2>2. IsFiniteSet(S)
    BY <1>0, <2>1, FS_Subset
  <2>3. ASSUME NEW n \in S PROVE Fallen(t)[n] = 0
    <3>1. PICK is \in Position : is = before.pos[n] /\ is = pos[n]
      BY <2>1 DEF ExitShape
    <3>2. Exits!Debt(is) \in Nat
      BY DEF Exits!Debt, Position
    <3>3. Fallen(t)[n] = Exits!Debt(is) - Exits!Debt(is)
      BY <2>1, <3>1 DEF Fallen
    <3> QED
      BY <3>2, <3>3
  <2>4. DOMAIN Fallen(t) = S
    BY <2>1 DEF Fallen
  <2>5. PICK f : IsSum(f, Fallen(t), S) /\ Exits!Repaid(t) = f[S]
    BY <1>0, <2>4, RepaidAddsUp DEF AddsUp
  <2> QED
    BY <2>2, <2>3, <2>5, SumOfNothing
<1>2. ASSUME NEW n \in Market PROVE Brought[n] = 0
  <2>1. PICK is \in Position : is = before.pos[n] /\ is = pos[n]
    BY DEF ExitShape
  <2>2. is.collateral \in Nat
    BY DEF Position
  <2>3. is.collateral - is.collateral = 0
    BY <2>2
  <2>4. Brought[n] = IF CollateralToken[n] = Usdc THEN Exits!Freed(n, 0)
                     ELSE Exits!MinOut(Exits!Freed(n, 0)) - 0
    BY <2>1, <2>3 DEF Brought
  <2>5. Exits!Freed(n, 0) = 0 /\ Exits!MinOut(Exits!Freed(n, 0)) = 0
    BY WorthIsNumber
  <2> QED
    BY <2>4, <2>5
<1>3. DOMAIN Brought = Market
  BY DEF Brought
<1>4. PICK f : IsSum(f, Brought, Market) /\ Exits!Fetched = f[Market]
  BY <1>0, <1>3, FetchedAddsUp DEF AddsUp
<1>5. Exits!Fetched = 0
  BY <1>0, <1>2, <1>4, SumOfNothing
<1> QED
  BY <1>1, <1>5

(* And so it is in the state after.                                        *)
LEMMA NothingThen ==
  (ExitNumbers /\ ExitShape /\ pos = before.pos /\ (\A n \in Market : Exits!RoundedOff(n) = 0)
    => (\A t : Exits!Repaid(t) = 0) /\ Exits!Fetched = 0)'
BY NothingYet, PTL

(* The debts in a token are numbers, and so is what they fell by.          *)
LEMMA FallenIsNumber ==
  ASSUME ExitShape, NEW t, NEW S, S = {n \in Market : DebtToken[n] = t}
  PROVE  Fallen(t) \in [S -> Int] /\ DOMAIN Fallen(t) = S
<1>1. ASSUME NEW n \in S PROVE Fallen(t)[n] \in Int
  <2>1. PICK was, is \in Position : was = before.pos[n] /\ is = pos[n]
    BY DEF ExitShape
  <2>2. Exits!Debt(was) \in Nat /\ Exits!Debt(is) \in Nat
    BY DEF Exits!Debt, Position
  <2>3. Fallen(t)[n] = Exits!Debt(was) - Exits!Debt(is)
    BY <2>1 DEF Fallen
  <2> QED
    BY <2>2, <2>3
<1>2. Fallen(t) = [n \in S |-> Fallen(t)[n]]
  BY DEF Fallen
<1> QED
  BY <1>1, <1>2

(* So what was repaid is a number.                                         *)
LEMMA RepaidIsNumber ==
  ASSUME ExitNumbers, ExitShape, NEW t PROVE Exits!Repaid(t) \in Int
<1>0. IsFiniteSet(Market)
  BY ExitParts
<1>1. PICK S : S = {n \in Market : DebtToken[n] = t}
  OBVIOUS
<1>2. IsFiniteSet(S)
  BY <1>0, <1>1, FS_Subset
<1>3. Fallen(t) \in [S -> Int] /\ DOMAIN Fallen(t) = S
  BY <1>1, FallenIsNumber
<1>4. PICK f : IsSum(f, Fallen(t), S) /\ Exits!Repaid(t) = f[S]
  BY <1>0, <1>3, RepaidAddsUp DEF AddsUp
<1> QED
  BY <1>2, <1>3, <1>4, SumIsOne

(* Where no position moves, no total does.                                 *)
LEMMA TotalsStay ==
  ASSUME ExitNumbers, ExitShape, UNCHANGED <<permit, legs, pos, rest, before>>
  PROVE  /\ \A t : Exits!Repaid(t) \in Int /\ Exits!Repaid(t)' = Exits!Repaid(t)
         /\ Exits!Fetched \in Int /\ Exits!Fetched' = Exits!Fetched
<1>0. IsFiniteSet(Market)
  BY ExitParts
<1>1. ASSUME NEW t PROVE Exits!Repaid(t) \in Int /\ Exits!Repaid(t)' = Exits!Repaid(t)
  <2>1. PICK S : S = {n \in Market : DebtToken[n] = t}
    OBVIOUS
  <2>2. IsFiniteSet(S)
    BY <1>0, <2>1, FS_Subset
  <2>3. PICK g : g = Fallen(t)
    OBVIOUS
  <2>4. Fallen(t)' = g
    BY <2>3 DEF Fallen, Exits!Debt
  <2>6. g \in [S -> Int] /\ DOMAIN g = S
    BY <2>1, <2>3, FallenIsNumber
  <2>7. PICK f : IsSum(f, g, S) /\ Exits!Repaid(t) = f[S]
    BY <1>0, <2>3, <2>6, RepaidAddsUp DEF AddsUp
  <2>8. PICK e : IsSum(e, g, S) /\ Exits!Repaid(t)' = e[S]
    <3>1. (\A u : AddsUp(Exits!Repaid(u), Fallen(u)))'
      BY <1>0, RepaidAddsUpThen
    <3>2. AddsUp(Exits!Repaid(t)', g)
      BY <2>4, <3>1 DEF AddsUp
    <3> QED
      BY <2>6, <3>2 DEF AddsUp
  <2> QED
    BY <2>2, <2>6, <2>7, <2>8, SumIsOne
<1>2. Exits!Fetched \in Int /\ Exits!Fetched' = Exits!Fetched
  <2>1. PICK g : g = Brought
    OBVIOUS
  <2>2. Brought' = g
    <3>1. \A x : Exits!MinOut(x)' = Exits!MinOut(x)
      BY DEF Exits!MinOut, Exits!Delegated
    <3>2. \A n, x : Exits!Freed(n, x)' = Exits!Freed(n, x)
      BY DEF Exits!Freed
    <3>3. \A n : Exits!RoundedOff(n)' = Exits!RoundedOff(n)
      BY SameTurns
    <3> QED
      BY <2>1, <3>1, <3>2, <3>3 DEF Brought
  <2>3. \A n \in Market : g[n] \in Int
    BY <2>1, BroughtIsNumber
  <2>4. g \in [Market -> Int] /\ DOMAIN g = Market
    <3>1. g = [n \in Market |-> g[n]]
      BY <2>1 DEF Brought
    <3> QED
      BY <2>3, <3>1
  <2>5. PICK f : IsSum(f, g, Market) /\ Exits!Fetched = f[Market]
    BY <1>0, <2>1, <2>4, FetchedAddsUp DEF AddsUp
  <2>6. PICK e : IsSum(e, g, Market) /\ Exits!Fetched' = e[Market]
    <3>1. AddsUp(Exits!Fetched, Brought)'
      BY <1>0, FetchedAddsUpThen
    <3>2. AddsUp(Exits!Fetched', g)
      BY <2>2, <3>1 DEF AddsUp
    <3> QED
      BY <2>4, <3>2 DEF AddsUp
  <2> QED
    BY <1>0, <2>4, <2>5, <2>6, SumIsOne
<1> QED
  BY <1>1, <1>2

(* A step that takes a from the wallet for a debt that falls by a, and     *)
(* brings the executor what the collateral must fetch, keeps the owner     *)
(* whole.                                                                  *)
LEMMA OwnerStays ==
  ASSUME ExitNumbers, ExitShape, ExitShape', OwnerWhole, UNCHANGED <<permit, before>>,
         NEW d, NEW a, NEW m, NEW take, Moved(d, a, m, take),
         stage # "called", stage' \notin {"called", "done"},
         NEW t, t = DebtToken[d], NEW back \in Nat, NEW got \in Nat,
         Exits!Fetched \in Int, Exits!Fetched' \in Int, Exits!Fetched' <= Exits!Fetched + got,
         \A u \in Exits!Token \ {t} : wallet'[u] = wallet[u],
         wallet'[t] = wallet[t] - a + back,
         \A u \in Exits!Token \ {Usdc} : held'[u] = held[u],
         held'[Usdc] = held[Usdc] + got
  PROVE  OwnerWhole'
<1>1. /\ wallet \in [Exits!Token -> Nat] /\ held \in [Exits!Token -> Nat]
      /\ before.wallet \in [Exits!Token -> Nat] /\ Usdc \in Exits!Token
  BY DEF ExitShape, Exits!Token
<1>2. d \in Market /\ a \in Nat /\ t \in Exits!Token
  BY TokensOf DEF Moved
<1>3. \A u : /\ Exits!Repaid(u) \in Int
             /\ Exits!Repaid(u)' = Exits!Repaid(u) + IF t = u THEN a ELSE 0
  BY RepaidMoves
<1>6. Stray \in Nat
  BY StrayIsAmount
<1>7. ASSUME NEW u \in Exits!Token
      PROVE  /\ wallet'[u] >= wallet[u] - IF t = u THEN a ELSE 0
             /\ wallet[u] \in Nat /\ wallet'[u] \in Nat /\ before.wallet[u] \in Nat
  <2>1. wallet[u] \in Nat /\ before.wallet[u] \in Nat
    BY <1>1
  <2>2. CASE u = t
    <3>1. wallet'[u] = wallet[u] - a + back
      BY <2>2
    <3>2. wallet'[u] >= wallet[u] - a
      BY <1>2, <2>1, <3>1
    <3>3. wallet'[u] \in Nat
      BY DEF ExitShape
    <3> QED
      BY <2>1, <2>2, <3>2, <3>3
  <2>3. CASE u # t
    BY <2>1, <2>3
  <2> QED
    BY <2>2, <2>3
<1>8. ASSUME NEW u \in Exits!Token \ {Usdc}
      PROVE  held'[u] = Stray /\ wallet'[u] >= before.wallet[u] - Exits!Repaid(u)'
  <2>1. held[u] = Stray /\ wallet[u] >= before.wallet[u] - Exits!Repaid(u)
    BY DEF OwnerWhole
  <2>2. PICK w, x, y \in Nat : w = wallet[u] /\ x = wallet'[u] /\ y = before.wallet[u]
    BY <1>7
  <2>3. PICK r, s \in Int : r = Exits!Repaid(u) /\ s = Exits!Repaid(u)'
                            /\ s = r + IF t = u THEN a ELSE 0
    <3>1. (IF t = u THEN a ELSE 0) \in Int
      BY <1>2
    <3>2. Exits!Repaid(u)' \in Int
      BY <1>3, <3>1
    <3> QED
      BY <1>3, <3>2
  <2>4. x >= w - IF t = u THEN a ELSE 0
    BY <1>7, <2>2
  <2>5. x >= y - s
    BY <1>2, <2>1, <2>2, <2>3, <2>4
  <2> QED
    BY <2>1, <2>2, <2>3, <2>5
<1>9. /\ held'[Usdc] >= Stray
      /\ wallet'[Usdc] + held'[Usdc] - Stray
           >= before.wallet[Usdc] - Exits!Repaid(Usdc)' + Exits!Fetched'
  <2>1. /\ held[Usdc] >= Stray
        /\ wallet[Usdc] + held[Usdc] - Stray
             >= before.wallet[Usdc] - Exits!Repaid(Usdc) + Exits!Fetched
    BY DEF OwnerWhole
  <2>2. PICK w, x, y \in Nat : w = wallet[Usdc] /\ x = wallet'[Usdc] /\ y = before.wallet[Usdc]
    BY <1>1, <1>7
  <2>3. PICK r, s \in Int : r = Exits!Repaid(Usdc) /\ s = Exits!Repaid(Usdc)'
                            /\ s = r + IF t = Usdc THEN a ELSE 0
    <3>1. (IF t = Usdc THEN a ELSE 0) \in Int
      BY <1>2
    <3>2. Exits!Repaid(Usdc)' \in Int
      BY <1>3, <3>1
    <3> QED
      BY <1>3, <3>2
  <2>4. PICK g, h \in Int : g = Exits!Fetched /\ h = Exits!Fetched' /\ h <= g + got
    OBVIOUS
  <2>5. x >= w - IF t = Usdc THEN a ELSE 0
    BY <1>1, <1>7, <2>2
  <2>6. PICK k \in Nat : k = held[Usdc]
    BY <1>1
  <2>7. k >= Stray /\ w + k - Stray >= y - r + g
    BY <2>1, <2>2, <2>3, <2>4, <2>6
  <2>8. x + (k + got) - Stray >= y - s + h
    <3>1. CASE t = Usdc
      BY <1>2, <1>6, <2>3, <2>4, <2>5, <2>7, <3>1
    <3>2. CASE t # Usdc
      BY <1>6, <2>3, <2>4, <2>5, <2>7, <3>2
    <3> QED
      BY <3>1, <3>2
  <2>9. held'[Usdc] = k + got /\ k + got >= Stray
    BY <1>6, <2>6, <2>7
  <2> QED
    BY <2>2, <2>3, <2>4, <2>8, <2>9
<1> QED
  BY <1>8, <1>9 DEF OwnerWhole

(* A turn on Aave rounds off nothing.                                      *)
LEMMA SideFetches ==
  ASSUME ExitNumbers, ExitShape, ExitProgress, stage # "called", UNCHANGED <<permit, legs, before, rest>>,
         NEW d, NEW a, NEW m, NEW take, Moved(d, a, m, take),
         take = 0 \/ pos[m].collateral = before.pos[m].collateral
  PROVE  /\ Exits!Fetched \in Int /\ Exits!Fetched' \in Int
         /\ Exits!Fetched' <= Exits!Fetched + Yields(m, take)
<1>1. \A n \in Market : Exits!RoundedOff(n) \in Nat
  BY TurnsCounted
<1>2. \A n : Exits!RoundedOff(n)' = Exits!RoundedOff(n)
  BY SameTurns
<1>3. \A n \in Market : Exits!RoundedOff(n)' \in Nat /\ Exits!RoundedOff(n)' = Exits!RoundedOff(n)
  BY <1>1, <1>2
<1>4. Exits!RoundedOff(m)' >= Exits!RoundedOff(m)
  BY <1>1, <1>3 DEF Moved
<1> QED
  BY <1>1, <1>3, <1>4, FetchedMoves

(* A repayment on Aave keeps the owner whole.                              *)
LEMMA RepayOwes ==
  ASSUME ExitNumbers, ExitInv, Exits!AaveRepay PROVE ExitInv'
<1>1. ExitShape /\ ExitProgress /\ OwnerWhole
  BY DEF ExitInv
<1>2. /\ stage = "repay" /\ UNCHANGED <<stage, permit, legs, halted, before, held, rest>>
  BY DEF Exits!AaveRepay, Exits!call
<1>3. /\ ExitShape' /\ ExitProgress'
      /\ \E d \in due :
           /\ Less(d) /\ d.side # "collateral"
           /\ wallet[DebtToken[d.market]] >= d.amount
           /\ wallet' = [wallet EXCEPT ![DebtToken[d.market]] = @ - d.amount]
  BY <1>1, RepayKeeps
<1>4. PICK d \in due :
        /\ Less(d) /\ d.side # "collateral"
        /\ wallet[DebtToken[d.market]] >= d.amount
        /\ wallet' = [wallet EXCEPT ![DebtToken[d.market]] = @ - d.amount]
  BY <1>3
<1>5. PICK m, a, take : m = d.market /\ a = d.amount /\ take = 0 /\ Moved(m, a, m, take)
  BY <1>1, <1>2, <1>4, SideMoves
<1>6. m \in Market /\ a \in Nat
  BY <1>5 DEF Moved
<1>7. PICK t \in Exits!Token : t = DebtToken[m]
  BY <1>6, TokensOf
<1>8. /\ Exits!Fetched \in Int /\ Exits!Fetched' \in Int
      /\ Exits!Fetched' <= Exits!Fetched + 0
  <2>1. Yields(m, take) = 0
    BY <1>1, <1>5, WorthIsNumber DEF Yields
  <2>2. /\ Exits!Fetched \in Int /\ Exits!Fetched' \in Int
        /\ Exits!Fetched' <= Exits!Fetched + Yields(m, take)
    BY <1>1, <1>2, <1>5, SideFetches
  <2> QED
    BY <2>1, <2>2
<1>9. /\ wallet \in [Exits!Token -> Nat] /\ held \in [Exits!Token -> Nat] /\ Usdc \in Exits!Token
  BY <1>1 DEF ExitShape, Exits!Token
<1>10. wallet' = [wallet EXCEPT ![t] = wallet[t] - a]
  BY <1>4, <1>5, <1>7
<1>11. /\ \A u \in Exits!Token \ {t} : wallet'[u] = wallet[u]
       /\ wallet'[t] = wallet[t] - a
  BY <1>9, <1>10
<1>12. /\ wallet'[t] = wallet[t] - a + 0 /\ held'[Usdc] = held[Usdc] + 0
       /\ \A u \in Exits!Token \ {Usdc} : held'[u] = held[u]
  BY <1>2, <1>6, <1>9, <1>11
<1>13. 0 \in Nat /\ stage # "called" /\ stage' \notin {"called", "done"}
  BY <1>2
<1>14. OwnerWhole'
  BY <1>1, <1>2, <1>3, <1>5, <1>7, <1>8, <1>11, <1>12, <1>13, OwnerStays
<1> QED
  BY <1>3, <1>14 DEF ExitInv

(* So does a withdrawal from Aave.                                         *)
LEMMA WithdrawOwes ==
  ASSUME ExitNumbers, ExitInv, Exits!AaveWithdraw PROVE ExitInv'
<1>1. ExitShape /\ ExitProgress /\ OwnerWhole
  BY DEF ExitInv
<1>2. /\ stage = "withdraw" /\ UNCHANGED <<stage, permit, legs, halted, before, wallet, rest>>
  BY DEF Exits!AaveWithdraw, Exits!call
<1>3. /\ ExitShape' /\ ExitProgress'
      /\ \E d \in due : \E out \in Exits!Sold(CollateralToken[d.market], d.amount) :
           /\ Less(d) /\ d.side = "collateral"
           /\ held' = [held EXCEPT ![Usdc] = @ + out]
  BY <1>1, WithdrawKeeps
<1>4. PICK d \in due : \E out \in Exits!Sold(CollateralToken[d.market], d.amount) :
        /\ Less(d) /\ d.side = "collateral"
        /\ held' = [held EXCEPT ![Usdc] = @ + out]
  BY <1>3
<1>5. PICK out \in Exits!Sold(CollateralToken[d.market], d.amount) :
        /\ Less(d) /\ d.side = "collateral"
        /\ held' = [held EXCEPT ![Usdc] = @ + out]
  BY <1>4
<1>6. PICK m, a, take : /\ m = d.market /\ a = 0 /\ take = d.amount /\ Moved(m, a, m, take)
                        /\ pos[m].collateral = before.pos[m].collateral
  BY <1>1, <1>2, <1>5, SideMoves
<1>7. m \in Market /\ take \in Nat
  BY <1>6 DEF Moved
<1>8. PICK t \in Exits!Token : t = DebtToken[m]
  BY <1>7, TokensOf
<1>9. Exits!Freed(m, take) = take
  <2>1. PICK i \in Exits!AaveLegs : legs[i].market = m
    BY <1>1, <1>2, <1>6, DueFits
  <2>2. ProtocolOf[m] # Exits!Moonwell
    BY <2>1 DEF Exits!AaveLegs, Exits!AaveV3, Exits!Moonwell
  <2> QED
    BY <2>2 DEF Exits!Freed
<1>10. Checked
  BY <1>1, <1>2 DEF ExitProgress
<1>11. out \in Nat /\ out >= Yields(m, take)
  <2>1. out \in Nat /\ out >= IF CollateralToken[m] = Usdc THEN take ELSE Exits!MinOut(take)
    BY <1>1, <1>5, <1>6, <1>7, <1>10, SoldIsAmount
  <2> QED
    BY <1>9, <2>1 DEF Yields
<1>12. /\ wallet \in [Exits!Token -> Nat] /\ held \in [Exits!Token -> Nat] /\ Usdc \in Exits!Token
  BY <1>1 DEF ExitShape, Exits!Token
<1>13. /\ \A u \in Exits!Token \ {t} : wallet'[u] = wallet[u]
       /\ wallet'[t] = wallet[t] - a + a
       /\ \A u \in Exits!Token \ {Usdc} : held'[u] = held[u]
       /\ held'[Usdc] = held[Usdc] + out
  <2>1. wallet[t] \in Nat /\ wallet'[t] = wallet[t]
    BY <1>2, <1>12
  <2>2. wallet'[t] = wallet[t] - a + a
    BY <1>6, <2>1
  <2> QED
    BY <1>2, <1>5, <1>8, <1>12, <2>2
<1>14. a \in Nat /\ stage # "called" /\ stage' \notin {"called", "done"}
  BY <1>2, <1>6
<1>15. /\ Exits!Fetched \in Int /\ Exits!Fetched' \in Int
       /\ Exits!Fetched' <= Exits!Fetched + out
  <2>1. /\ Exits!Fetched \in Int /\ Exits!Fetched' \in Int
        /\ Exits!Fetched' <= Exits!Fetched + Yields(m, take)
    BY <1>1, <1>2, <1>6, SideFetches
  <2>2. Yields(m, take) \in Int
    BY <1>1, <1>7, WorthIsNumber DEF Yields
  <2> QED
    BY <1>11, <2>1, <2>2
<1>16. OwnerWhole'
  <2>1. Moved(m, a, m, take) /\ UNCHANGED <<permit, before>>
    BY <1>2, <1>6
  <2> QED
    BY <1>1, <1>3, <1>8, <1>11, <1>13, <1>14, <1>15, <2>1, OwnerStays
<1> QED
  BY <1>3, <1>16 DEF ExitInv

(* A leg of another protocol rounds off at most one unit, and none when it *)
(* is the first to take from its market.                                   *)
LEMMA LegFetches ==
  ASSUME ExitNumbers, ExitShape, ExitProgress, stage # "called",
         UNCHANGED <<permit, legs, before>>, NEW i \in rest, rest' = rest \ {i},
         NEW m, m = legs[i].market, NEW d, d = Owes[m],
         NEW a, a = Exits!Repays(legs[i]), NEW take, take = Exits!Plan(legs[i]).collateral,
         Moved(d, a, m, take)
  PROVE  /\ Exits!Fetched \in Int /\ Exits!Fetched' \in Int
         /\ Exits!Fetched' <= Exits!Fetched + Yields(m, take)
<1>1. /\ i \in 1 .. Len(legs) /\ m \in Market /\ ProtocolOf[m] # Exits!AaveV3
      /\ take \in Nat /\ (take > 0 => Exits!Takes(legs[i]))
  BY LegPlan
<1>2. \A n \in Market : Exits!RoundedOff(n) \in Nat
  BY TurnsCounted
<1>3. ASSUME NEW n \in Market, ~(n = m /\ Exits!Takes(legs[i]))
      PROVE  Exits!RoundedOff(n)' = Exits!RoundedOff(n)
  <2>1. Exits!Takers(n)' = Exits!Takers(n)
    BY <1>3, TurnTaken
  <2> QED
    BY <2>1 DEF Exits!RoundedOff
<1>4. ASSUME Exits!Takes(legs[i])
      PROVE  /\ Exits!RoundedOff(m)' \in Nat /\ Exits!RoundedOff(m)' >= Exits!RoundedOff(m)
             /\ Exits!Takers(m) # {} => Exits!RoundedOff(m)' = Exits!RoundedOff(m) + 1
  <2>1. i \notin Exits!Takers(m) /\ Exits!Takers(m)' = Exits!Takers(m) \union {i}
    BY <1>4, TurnTaken
  <2>2. PICK T : T = Exits!Takers(m)
    OBVIOUS
  <2>3. PICK k \in Nat : k = Cardinality(T) /\ Cardinality(T \union {i}) = k + 1
    <3>1. IsFiniteSet(T) /\ Cardinality(T) \in Nat
      BY <2>2, TurnsCounted
    <3>2. Cardinality(T \union {i}) = Cardinality(T) + 1
      BY <2>1, <2>2, <3>1, FS_AddElement
    <3> QED
      BY <3>1, <3>2
  <2>4. Exits!RoundedOff(m)' = Exits!Cardinality(T \union {i}) - 1
    <3>1. Exits!Takers(m)' = T \union {i} /\ T \union {i} # {}
      BY <2>1, <2>2
    <3> QED
      BY <3>1 DEF Exits!RoundedOff
  <2>5. Exits!RoundedOff(m)' = k
    BY <2>3, <2>4, LegsCounted
  <2>6. Exits!RoundedOff(m) = IF T = {} THEN 0 ELSE k - 1
    <3>1. Exits!RoundedOff(m) = IF T = {} THEN 0 ELSE Exits!Cardinality(T) - 1
      BY <2>2 DEF Exits!RoundedOff
    <3> QED
      BY <2>3, <3>1, LegsCounted
  <2> QED
    BY <2>2, <2>3, <2>5, <2>6
<1>5. \A n \in Market : Exits!RoundedOff(n)' \in Nat
  <2>1. ASSUME NEW n \in Market PROVE Exits!RoundedOff(n)' \in Nat
    <3>1. CASE n = m /\ Exits!Takes(legs[i])
      BY <1>4, <3>1
    <3>2. CASE ~(n = m /\ Exits!Takes(legs[i]))
      BY <1>2, <1>3, <3>2
    <3> QED
      BY <3>1, <3>2
  <2> QED
    BY <2>1
<1>6. \A n \in Market \ {m} : Exits!RoundedOff(n)' = Exits!RoundedOff(n)
  BY <1>3
<1>7. Exits!RoundedOff(m)' >= Exits!RoundedOff(m)
  <2>1. CASE Exits!Takes(legs[i])
    BY <1>4, <2>1
  <2>2. CASE ~Exits!Takes(legs[i])
    <3>1. Exits!RoundedOff(m)' = Exits!RoundedOff(m)
      BY <1>1, <1>3, <2>2
    <3> QED
      BY <1>1, <1>2, <3>1
  <2> QED
    BY <2>1, <2>2
<1>8. ASSUME take # 0, pos[m].collateral # before.pos[m].collateral
      PROVE  /\ ProtocolOf[m] # Exits!Moonwell
             /\ Exits!RoundedOff(m)' = Exits!RoundedOff(m) + 1
  <2>1. Exits!Takes(legs[i])
    BY <1>1, <1>8
  <2>2. Exits!Takers(m) # {}
    BY <1>1, <1>8 DEF ExitProgress, SoFar
  <2>3. PICK j \in Exits!Takers(m) : TRUE
    BY <2>2
  <2>4. j \in 1 .. Len(legs) /\ j # i /\ legs[j].market = m
    BY <2>3 DEF Exits!Takers
  <2>5. Checked
    BY DEF ExitProgress
  <2>6. ProtocolOf[m] # Exits!Moonwell
    BY <1>1, <2>4, <2>5, OwnMarket
  <2> QED
    BY <1>4, <2>1, <2>2, <2>6
<1>9. \/ take = 0
      \/ pos[m].collateral = before.pos[m].collateral
      \/ /\ ProtocolOf[m] # Exits!Moonwell
         /\ Exits!RoundedOff(m)' = Exits!RoundedOff(m) + 1
  BY <1>8
<1>10. \A n \in Market : Exits!RoundedOff(n) \in Nat /\ Exits!RoundedOff(n)' \in Nat
  BY <1>2, <1>5
<1> QED
  BY <1>6, <1>7, <1>9, <1>10, FetchedMoves

(* And a leg of another protocol.                                          *)
LEMMA LegOwes ==
  ASSUME ExitNumbers, ExitInv, Exits!ProcessLeg PROVE ExitInv'
<1>1. ExitShape /\ ExitProgress /\ OwnerWhole
  BY DEF ExitInv
<1>2. /\ stage = "withdraw" /\ UNCHANGED <<stage, permit, legs, halted, before, due>>
  BY DEF Exits!ProcessLeg, Exits!call
<1>3. /\ ExitShape' /\ ExitProgress'
      /\ \E i \in rest :
           /\ Served(Owes[legs[i].market], legs[i].market,
                     Exits!Repays(legs[i]), Exits!Plan(legs[i]).collateral)
           /\ rest' = rest \ {i} /\ \E left, out : Settled(legs[i], left, out)
  BY <1>1, LegKeeps
<1>4. PICK i \in rest :
           /\ Served(Owes[legs[i].market], legs[i].market,
                     Exits!Repays(legs[i]), Exits!Plan(legs[i]).collateral)
           /\ rest' = rest \ {i} /\ \E left, out : Settled(legs[i], left, out)
  BY <1>3
<1>5. PICK m, d, a, take :
        /\ m = legs[i].market /\ d = Owes[m]
        /\ a = Exits!Repays(legs[i]) /\ take = Exits!Plan(legs[i]).collateral
  OBVIOUS
<1>6. Served(d, m, a, take) /\ stage # "called"
  BY <1>2, <1>4, <1>5
<1>7. /\ i \in 1 .. Len(legs) /\ legs[i] \in ExitLeg /\ m \in Market /\ d \in Market
      /\ a \in Nat /\ take \in Nat
  BY <1>1, <1>5, <1>6, LegPlan
<1>8. Moved(d, a, m, take)
  BY <1>1, <1>5, <1>6, LegMoves
<1>9. PICK left, out : Settled(legs[i], left, out)
  BY <1>4
<1>10. Checked
  BY <1>1, <1>2 DEF ExitProgress
<1>11. left \in Nat /\ out \in Nat
  <2>1. Exits!Repays(legs[i]) \in Nat /\ Exits!Plan(legs[i]).collateral \in Nat
    BY <1>5, <1>7
  <2> QED
    BY <1>1, <1>7, <1>9, <1>10, <2>1, BalancesKept
<1>12. PICK t \in Exits!Token : t = DebtToken[d]
  BY <1>7, TokensOf
<1>13. PICK back \in Nat : back = (IF t = Usdc THEN 0 ELSE left) /\ back <= left
  BY <1>11
<1>14. PICK got \in Nat : got = out + (left - back) /\ got >= out
  <2>1. out + (left - back) \in Nat /\ out + (left - back) >= out
    BY <1>11, <1>13
  <2> QED
    BY <2>1
<1>15. /\ out \in Exits!Sold(CollateralToken[m], Exits!Freed(m, take))
       /\ wallet' = [wallet EXCEPT ![t] = @ - a + back]
       /\ held' = [held EXCEPT ![Usdc] = @ + out + (left - back)]
  BY <1>5, <1>9, <1>12, <1>13 DEF Settled
<1>16. /\ wallet \in [Exits!Token -> Nat] /\ held \in [Exits!Token -> Nat] /\ Usdc \in Exits!Token
  BY <1>1 DEF ExitShape, Exits!Token
<1>17. out >= Yields(m, take)
  <2>1. Exits!Freed(m, take) \in Nat
    BY <1>7, FreedFrom
  <2> QED
    BY <1>1, <1>10, <1>15, <2>1, SoldIsAmount DEF Yields
<1>18. /\ Exits!Fetched \in Int /\ Exits!Fetched' \in Int
       /\ Exits!Fetched' <= Exits!Fetched + got
  <2>1. Yields(m, take) \in Int
    BY <1>1, <1>7, WorthIsNumber DEF Yields
  <2>2. /\ Exits!Fetched \in Int /\ Exits!Fetched' \in Int
        /\ Exits!Fetched' <= Exits!Fetched + Yields(m, take)
    BY <1>1, <1>2, <1>4, <1>5, <1>6, <1>8, LegFetches
  <2>3. got >= Yields(m, take)
    BY <1>11, <1>14, <1>17, <2>1
  <2> QED
    BY <2>1, <2>2, <2>3
<1>19. /\ \A u \in Exits!Token \ {t} : wallet'[u] = wallet[u]
       /\ wallet'[t] = wallet[t] - a + back
       /\ \A u \in Exits!Token \ {Usdc} : held'[u] = held[u]
  BY <1>15, <1>16
<1>20. held'[Usdc] = held[Usdc] + got
  <2>1. held'[Usdc] = held[Usdc] + out + (left - back)
    BY <1>15, <1>16
  <2>2. held[Usdc] \in Nat
    BY <1>16
  <2> QED
    BY <1>11, <1>13, <1>14, <2>1, <2>2
<1>21. stage' \notin {"called", "done"}
  BY <1>2
<1>22. OwnerWhole'
  BY <1>1, <1>2, <1>3, <1>6, <1>8, <1>12, <1>18, <1>19, <1>20, <1>21, OwnerStays
<1> QED
  BY <1>3, <1>22 DEF ExitInv

(* When the exit begins no leg has taken a second share of a market.       *)
LEMMA NothingRounded ==
  ASSUME ExitNumbers, ExitShape, Checked, legs' = legs, rest' = (1 .. Len(legs)) \ Exits!AaveLegs,
         NEW m \in Market
  PROVE  Exits!RoundedOff(m)' = 0
<1>1. CASE ProtocolOf[m] # Exits!AaveV3
  <2>1. Exits!Takers(m)' = {}
    BY <1>1, NoneHadTurn
  <2> QED
    BY <2>1 DEF Exits!RoundedOff
<1>2. CASE ProtocolOf[m] = Exits!AaveV3
  <2>1. PICK T : T = Exits!Takers(m)'
    OBVIOUS
  <2>2. \A i \in T : i \in 1 .. Len(legs) /\ legs[i].market = m
    BY <2>1 DEF Exits!Takers
  <2>3. \A i, j \in T : i = j
    BY <1>2, <2>2, OwnMarket
  <2>4. Exits!RoundedOff(m)' = IF T = {} THEN 0 ELSE Exits!Cardinality(T) - 1
    BY <2>1 DEF Exits!RoundedOff
  <2>5. T # {} => Cardinality(T) = 1
    <3>1. ASSUME NEW i \in T PROVE Cardinality(T) = 1
      <4>1. T = {i}
        BY <2>3
      <4> QED
        BY <4>1, FS_Singleton
    <3> QED
      BY <3>1
  <2> QED
    BY <2>4, <2>5, LegsCounted
<1> QED
  BY <1>1, <1>2

(* The entry leaves the owner with what there was.                         *)
LEMMA EntryOwes ==
  ASSUME ExitNumbers, ExitInv, Exits!Begin PROVE ExitInv'
<1>1. ExitShape /\ ExitProgress /\ OwnerWhole
  BY DEF ExitInv
<1>2. ExitShape' /\ ExitProgress'
  BY <1>1, ExitBegins
<1>3. /\ stage = "called" /\ stage' = "repay" /\ rest' = (1 .. Len(legs)) \ Exits!AaveLegs
      /\ UNCHANGED <<permit, legs, before, pos, wallet, held>> /\ pos = before.pos
  BY <1>1 DEF Exits!Begin, Exits!call, ExitProgress
<1>4. Checked
  <2>1. Checked'
    BY <1>2, <1>3 DEF ExitProgress
  <2> QED
    BY <1>3, <2>1, SameCall DEF Checked
<1>5. \A n \in Market : Exits!RoundedOff(n)' = 0
  BY <1>1, <1>3, <1>4, NothingRounded
<1>6. (\A t : Exits!Repaid(t)' = 0) /\ Exits!Fetched' = 0
  <2>1. pos' = before'.pos
    BY <1>3
  <2> QED
    BY <1>2, <1>5, <2>1, NothingThen
<1>7. /\ wallet \in [Exits!Token -> Nat] /\ held \in [Exits!Token -> Nat] /\ Usdc \in Exits!Token
      /\ wallet' = wallet /\ before'.wallet = wallet /\ held' = held
      /\ held[Usdc] = Stray /\ \A t \in Exits!Token \ {Usdc} : held[t] = Stray
  BY <1>1, <1>3 DEF ExitShape, Exits!Token, OwnerWhole
<1>8. Stray \in Nat
  BY StrayIsAmount
<1>9. ASSUME NEW t \in Exits!Token PROVE wallet'[t] >= before'.wallet[t] - Exits!Repaid(t)'
  <2>1. PICK w \in Nat : w = wallet'[t] /\ w = before'.wallet[t]
    BY <1>7
  <2>2. w >= w - 0
    OBVIOUS
  <2> QED
    BY <1>6, <2>1, <2>2
<1>10. wallet'[Usdc] + held'[Usdc] - Stray
         >= before'.wallet[Usdc] - Exits!Repaid(Usdc)' + Exits!Fetched'
  <2>1. PICK w \in Nat : w = wallet'[Usdc] /\ w = before'.wallet[Usdc]
    BY <1>7
  <2>2. w + Stray - Stray >= w - 0 + 0
    BY <1>8
  <2> QED
    BY <1>6, <1>7, <2>1, <2>2
<1>11. held'[Usdc] >= Stray
  BY <1>7, <1>8
<1>12. OwnerWhole'
  BY <1>3, <1>7, <1>9, <1>10, <1>11 DEF OwnerWhole
<1> QED
  BY <1>2, <1>12 DEF ExitInv

(* A step in which no position moves: the check, the sweep.                *)
LEMMA StandingOwes ==
  ASSUME ExitNumbers, ExitInv, Exits!AaveCheck \/ Exits!Sweep PROVE ExitInv'
<1>1. ExitShape /\ ExitProgress /\ OwnerWhole
  BY DEF ExitInv
<1>2. UNCHANGED <<permit, legs, halted, before, pos, rest>>
  BY DEF Exits!AaveCheck, Exits!Sweep, Exits!call
<1>3. /\ \A t : Exits!Repaid(t) \in Int /\ Exits!Repaid(t)' = Exits!Repaid(t)
      /\ Exits!Fetched \in Int /\ Exits!Fetched' = Exits!Fetched
  BY <1>1, <1>2, TotalsStay
<1>4. /\ wallet \in [Exits!Token -> Nat] /\ held \in [Exits!Token -> Nat] /\ Usdc \in Exits!Token
      /\ before.wallet \in [Exits!Token -> Nat] /\ Stray \in Nat
  <2>1. Stray \in Nat
    BY StrayIsAmount
  <2> QED
    BY <1>1, <2>1 DEF ExitShape, Exits!Token
<1>5. CASE Exits!AaveCheck
  <2>1. /\ stage = "repay" /\ stage' = "withdraw" /\ UNCHANGED <<wallet, held, due, rest>>
        /\ \A d \in due : Exits!Turn(d) = 4
    BY <1>5 DEF Exits!AaveCheck
  <2>2. OwnerWhole'
    BY <1>1, <1>2, <1>3, <2>1 DEF OwnerWhole
  <2>3. ASSUME NEW d \in due PROVE d.side = "collateral"
    <3>1. d.side \in Sides /\ Exits!Turn(d) = 4
      BY <1>1, <2>1 DEF ExitShape
    <3>2. CASE d.side = "variable"
      BY <3>1, <3>2 DEF Exits!Turn
    <3>3. CASE d.side = "stable"
      BY <3>1, <3>3 DEF Exits!Turn
    <3> QED
      BY <3>1, <3>2, <3>3 DEF Sides
  <2>4. ExitShape' /\ ExitProgress'
    BY <1>1, <1>2, <1>4, <2>1, <2>3, StageKeeps
  <2> QED
    BY <2>2, <2>4 DEF ExitInv
<1>6. CASE Exits!Sweep
  <2>1. /\ stage = "withdraw" /\ due = {} /\ rest = {} /\ stage' = "done" /\ UNCHANGED <<due, rest>>
        /\ wallet' = [wallet EXCEPT ![Usdc] = @ + held[Usdc] - Stray]
        /\ held' = [held EXCEPT ![Usdc] = Stray]
    BY <1>6 DEF Exits!Sweep
  <2>2. /\ held[Usdc] >= Stray
        /\ wallet[Usdc] + held[Usdc] - Stray
             >= before.wallet[Usdc] - Exits!Repaid(Usdc) + Exits!Fetched
        /\ \A t \in Exits!Token \ {Usdc} :
             held[t] = Stray /\ wallet[t] >= before.wallet[t] - Exits!Repaid(t)
    <3>1. OwnerWhole /\ stage # "called"
      BY <1>1, <2>1
    <3> QED
      BY <3>1 DEF OwnerWhole
  <2>3. PICK w \in Nat : w = wallet[Usdc] + held[Usdc] - Stray
    <3>1. wallet[Usdc] \in Nat /\ held[Usdc] \in Nat
      BY <1>4
    <3>2. wallet[Usdc] + held[Usdc] - Stray \in Nat
      BY <1>4, <2>2, <3>1
    <3> QED
      BY <3>2
  <2>4. wallet' = [wallet EXCEPT ![Usdc] = w]
    BY <2>1, <2>3
  <2>5. wallet' \in [Exits!Token -> Nat] /\ held' \in [Exits!Token -> Nat]
    BY <1>4, <2>1, <2>4
  <2>6. ExitShape' /\ ExitProgress'
    BY <1>1, <1>2, <2>1, <2>5, StageKeeps
  <2>7. /\ wallet'[Usdc] = w /\ held'[Usdc] = Stray
        /\ \A t \in Exits!Token \ {Usdc} : wallet'[t] = wallet[t] /\ held'[t] = held[t]
    BY <1>4, <2>1, <2>4
  <2>8. w + Stray - Stray = w /\ Stray >= Stray
    BY <1>4, <2>3
  <2>9. wallet'[Usdc] + held'[Usdc] - Stray
          >= before.wallet[Usdc] - Exits!Repaid(Usdc) + Exits!Fetched
    BY <2>2, <2>3, <2>7, <2>8
  <2>10. /\ \A t \in Exits!Token \ {Usdc} : held'[t] = Stray
         /\ \A t \in Exits!Token \ {Usdc} : wallet'[t] >= before'.wallet[t] - Exits!Repaid(t)'
    BY <1>2, <1>3, <2>2, <2>7
  <2>11. wallet'[Usdc] + held'[Usdc] - Stray
           >= before'.wallet[Usdc] - Exits!Repaid(Usdc)' + Exits!Fetched'
    BY <1>2, <1>3, <2>9
  <2>12. held'[Usdc] = Stray /\ held'[Usdc] >= Stray /\ stage' = "done"
    BY <2>1, <2>7, <2>8
  <2>13. OwnerWhole'
    BY <2>10, <2>11, <2>12 DEF OwnerWhole
  <2> QED
    BY <2>6, <2>13 DEF ExitInv
<1> QED
  BY <1>5, <1>6

(* The invariant holds when the call arrives.                              *)
LEMMA ExitInit ==
  ASSUME ExitNumbers, Init, focus = "exits" PROVE ExitInv
<1>1. ExitShape /\ ExitProgress
  BY ExitStarts
<1>2. Exits!Init
  BY DEF Init
<1>3. /\ stage = "called" /\ held = [t \in Exits!Token |-> Stray] /\ before.wallet = wallet
  BY <1>2 DEF Exits!Init
<1>4. Stray \in Nat
  BY StrayIsAmount
<1>5. Usdc \in Exits!Token
  BY DEF Exits!Token
<1>6. (\A t \in Exits!Token : held[t] = Stray) /\ held[Usdc] >= Stray
  BY <1>3, <1>4, <1>5
<1>7. OwnerWhole
  BY <1>3, <1>5, <1>6 DEF OwnerWhole
<1> QED
  BY <1>1, <1>7 DEF ExitInv

(* A market of Aave that is done has fallen by what its one leg says.      *)
LEMMA AaveIsDone ==
  ASSUME ExitNumbers, ExitInv, stage = "done", Exits!Delegated,
         NEW m \in Market, ProtocolOf[m] = Exits!AaveV3,
         NEW was \in Position, was = before.pos[m], NEW is \in Position, is = pos[m]
  PROVE  /\ Exits!AsSigned(was.variable, was.variable - is.variable, Cardinality(Exits!Repayers(m)))
         /\ Exits!AsSigned(was.stable, was.stable - is.stable, Cardinality(Exits!Repayers(m)))
         /\ is.collateral = IF Exits!Takers(m) = {} THEN was.collateral ELSE 0
         /\ \A i \in LegsOf(m) : Exits!Debt(is) < Exits!Debt(was) \/ is.collateral < was.collateral
<1>1. ExitShape /\ ExitProgress /\ Checked /\ due = {} /\ rest = {}
  BY DEF ExitInv, ExitProgress
<1>2. /\ was.variable \in Nat /\ was.stable \in Nat /\ was.collateral \in Nat
      /\ is.variable \in Nat /\ is.stable \in Nat /\ is.collateral \in Nat
  BY InNumbers
<1>3. ASSUME NEW i \in 1 .. Len(legs)
      PROVE  /\ legs[i].market \in Market
             /\ Owes[legs[i].market] = m <=> legs[i].market = m
  <2>1. legs[i].market \in Market
    BY <1>1, LegsTyped
  <2>2. /\ ProtocolOf[Owes[legs[i].market]] = ProtocolOf[legs[i].market]
        /\ ProtocolOf[legs[i].market] # Exits!CompoundV3 => Owes[legs[i].market] = legs[i].market
    BY <2>1, MarketsKnown
  <2>3. Exits!AaveV3 # Exits!CompoundV3
    BY DEF Exits!AaveV3, Exits!CompoundV3
  <2> QED
    BY <2>1, <2>2, <2>3
<1>4. CASE LegsOf(m) = {}
  <2>1. Exits!Repayers(m) = {} /\ Exits!Takers(m) = {}
    BY <1>3, <1>4 DEF Exits!Repayers, Exits!Takers, LegsOf
  <2>2. is = was
    BY <1>1, <1>4 DEF ExitProgress
  <2>3. was.variable - is.variable = 0 /\ was.stable - is.stable = 0
    BY <1>2, <2>2
  <2>4. Cardinality(Exits!Repayers(m)) = 0
    BY <2>1, FS_EmptySet
  <2> QED
    BY <1>4, <2>1, <2>2, <2>3, <2>4 DEF Exits!AsSigned
<1>5. ASSUME NEW i \in LegsOf(m)
      PROVE  /\ Exits!AsSigned(was.variable, was.variable - is.variable, Cardinality(Exits!Repayers(m)))
             /\ Exits!AsSigned(was.stable, was.stable - is.stable, Cardinality(Exits!Repayers(m)))
             /\ is.collateral = IF Exits!Takers(m) = {} THEN was.collateral ELSE 0
             /\ Exits!Debt(is) < Exits!Debt(was) \/ is.collateral < was.collateral
  <2>1. i \in 1 .. Len(legs) /\ legs[i].market = m
    BY DEF LegsOf
  <2>2. i \in Exits!AaveLegs /\ legs[i] \in ExitLeg
    BY <1>1, <2>1, LegsTyped DEF Exits!AaveLegs
  <2>3. PICK plan \in Position : plan = Planned(legs[i])
    BY <1>1, <2>2, PlannedIsAmount
  <2>4. /\ plan.variable \in Nat /\ plan.stable \in Nat /\ plan.collateral \in Nat
        /\ legs[i].repay \in Nat /\ legs[i].withdraw \in Nat
    BY <2>2, InNumbers DEF ExitLeg
  <2>5. \A side : ~Waits(i, side)
    BY <1>1 DEF Waits
  <2>6. HowFar(i) /\ DoesAsSigned(legs[i])
    BY <1>1, <2>2 DEF ExitProgress
  <2>7. /\ is.variable = was.variable - plan.variable /\ is.stable = was.stable - plan.stable
        /\ is.collateral = was.collateral - plan.collateral
    BY <2>1, <2>3, <2>5, <2>6 DEF HowFar
  <2>8. /\ plan.variable = IF legs[i].repay > 0 THEN Share(was.variable) ELSE 0
        /\ plan.stable = IF legs[i].repay > 0 THEN Share(was.stable) ELSE 0
        /\ plan.collateral = IF legs[i].withdraw > 0 THEN was.collateral ELSE 0
        /\ plan.variable + plan.stable + plan.collateral > 0
    BY <2>1, <2>3, <2>6 DEF DoesAsSigned
  <2>9. \A j \in 1 .. Len(legs) : legs[j].market = m => j = i
    BY <1>1, <2>1, OwnMarket
  <2>10. Exits!Repayers(m) = IF legs[i].repay > 0 THEN {i} ELSE {}
    BY <1>1, <1>3, <2>1, <2>9 DEF Exits!Repayers
  <2>11. Exits!Takes(legs[i]) <=> legs[i].withdraw > 0
    BY <2>1, <2>2, AaveLeg
  <2>12. Exits!Takers(m) = IF legs[i].withdraw > 0 THEN {i} ELSE {}
    BY <1>1, <2>1, <2>9, <2>11 DEF Exits!Takers
  <2>13. is.collateral = IF Exits!Takers(m) = {} THEN was.collateral ELSE 0
    <3>1. is.collateral = IF legs[i].withdraw > 0 THEN 0 ELSE was.collateral
      BY <1>2, <2>4, <2>7, <2>8
    <3> QED
      BY <2>12, <3>1
  <2>14. Exits!Debt(is) < Exits!Debt(was) \/ is.collateral < was.collateral
    <3>1. is.variable + is.stable < was.variable + was.stable \/ is.collateral < was.collateral
      BY <1>2, <2>4, <2>7, <2>8
    <3> QED
      BY <3>1 DEF Exits!Debt
  <2>15. was.variable - is.variable = plan.variable /\ was.stable - is.stable = plan.stable
    BY <1>2, <2>4, <2>7
  <2>16. CASE legs[i].repay > 0
    <3>1. Cardinality(Exits!Repayers(m)) = 1
      BY <2>10, <2>16, FS_Singleton
    <3>2. PICK v, s \in Nat : v = Share(was.variable) /\ s = Share(was.stable)
      BY <2>4, <2>8, <2>16
    <3>3. plan.variable = v /\ plan.stable = s /\ v <= 1 * v /\ s <= 1 * s
      BY <2>8, <2>16, <3>2
    <3>4. /\ v = (was.variable * permit.repay) \div Exits!BpsDenominator
          /\ s = (was.stable * permit.repay) \div Exits!BpsDenominator
      BY <3>2 DEF Share, Exits!BpsDenominator
    <3>5. /\ Exits!AsSigned(was.variable, v, 1) /\ Exits!AsSigned(was.stable, s, 1)
      BY <3>3, <3>4 DEF Exits!AsSigned
    <3> QED
      BY <2>13, <2>14, <2>15, <3>1, <3>3, <3>5
  <2>17. CASE legs[i].repay = 0
    <3>1. Cardinality(Exits!Repayers(m)) = 0 /\ plan.variable = 0 /\ plan.stable = 0
      BY <2>8, <2>10, <2>17, FS_EmptySet
    <3> QED
      BY <2>13, <2>14, <2>15, <3>1 DEF Exits!AsSigned
  <2> QED
    BY <2>4, <2>16, <2>17
<1> QED
  BY <1>4, <1>5

(* A market of another protocol that is done has fallen as its legs say.   *)
LEMMA OtherIsDone ==
  ASSUME ExitNumbers, ExitInv, stage = "done", Exits!Delegated,
         NEW m \in Market, ProtocolOf[m] # Exits!AaveV3,
         NEW was \in Position, was = before.pos[m], NEW is \in Position, is = pos[m]
  PROVE  /\ Exits!AsSigned(was.variable, was.variable - is.variable, Cardinality(Exits!Repayers(m)))
         /\ Exits!AsSigned(was.stable, was.stable - is.stable, Cardinality(Exits!Repayers(m)))
         /\ is.collateral = IF Exits!Takers(m) = {} THEN was.collateral ELSE 0
<1>1. ExitShape /\ SoFar(m) /\ was.stable = 0
  BY DEF ExitInv, ExitProgress, ExitShape
<1>2. /\ was.variable \in Nat /\ was.stable \in Nat /\ was.collateral \in Nat
      /\ is.variable \in Nat /\ is.stable \in Nat /\ is.collateral \in Nat
  BY InNumbers
<1>2a. PICK R : R = Exits!Repayers(m)
  OBVIOUS
<1>3. PICK k \in Nat : k = Cardinality(R) /\ (k = 0 <=> R = {})
  <2>2. IsFiniteSet(R) /\ Cardinality(R) \in Nat
    BY <1>1, <1>2a, TurnsCounted
  <2>3. Cardinality(R) = 0 <=> R = {}
    BY <2>2, FS_EmptySet
  <2> QED
    BY <2>2, <2>3
<1>4. /\ is.stable = was.stable
      /\ R = {} => is.variable = was.variable
      /\ Exits!Takers(m) = {} => is.collateral = was.collateral
      /\ R # {} => /\ Share(was.variable) <= was.variable - is.variable
                   /\ was.variable - is.variable <= k * Share(was.variable)
      /\ Exits!Takers(m) # {} => is.collateral = 0
  BY <1>1, <1>2a, <1>3 DEF SoFar
<1>5. Share(was.variable) = (was.variable * permit.repay) \div Exits!BpsDenominator
  BY DEF Share, Exits!BpsDenominator
<1>6. Exits!AsSigned(was.variable, was.variable - is.variable, k)
  BY <1>2, <1>3, <1>4, <1>5 DEF Exits!AsSigned
<1>7. Exits!AsSigned(was.stable, was.stable - is.stable, k)
  <2>1. permit \in Scoped
    BY <1>1 DEF ExitShape, Exits!Delegated
  <2>2. PICK r \in Nat : r = permit.repay
    BY <2>1 DEF Scoped
  <2>3. (0 * r) \div 10000 = 0 /\ k * 0 = 0
    BY <1>3
  <2>4. (was.stable * permit.repay) \div Exits!BpsDenominator = 0
    BY <1>1, <2>2, <2>3 DEF Exits!BpsDenominator
  <2>5. was.stable - is.stable = 0
    BY <1>2, <1>4
  <2> QED
    BY <2>3, <2>4, <2>5 DEF Exits!AsSigned
<1> QED
  BY <1>2a, <1>3, <1>4, <1>6, <1>7

(* An exit that is done has done what was signed.                          *)
LEMMA DoneIsSigned ==
  ASSUME ExitNumbers, ExitInv PROVE Exits!DoneAsSigned
<1> SUFFICES ASSUME stage = "done", Exits!Delegated PROVE Exits!DoneAsSigned
  BY DEF Exits!DoneAsSigned
<1>1. ExitShape /\ ExitProgress /\ Checked /\ rest = {}
  BY DEF ExitInv, ExitProgress
<1>2. ASSUME NEW m \in Market
      PROVE  LET b == before.pos[m]
                 a == pos[m]
                 times == Exits!Cardinality(Exits!Repayers(m))
             IN  /\ Exits!AsSigned(b.variable, b.variable - a.variable, times)
                 /\ Exits!AsSigned(b.stable, b.stable - a.stable, times)
                 /\ a.collateral = IF Exits!Takers(m) = {} THEN b.collateral ELSE 0
  <2>1. PICK was, is \in Position : was = before.pos[m] /\ is = pos[m]
    BY <1>1 DEF ExitShape
  <2>2. /\ Exits!AsSigned(was.variable, was.variable - is.variable, Cardinality(Exits!Repayers(m)))
        /\ Exits!AsSigned(was.stable, was.stable - is.stable, Cardinality(Exits!Repayers(m)))
        /\ is.collateral = IF Exits!Takers(m) = {} THEN was.collateral ELSE 0
    BY <2>1, AaveIsDone, OtherIsDone
  <2>3. Exits!Cardinality(Exits!Repayers(m)) = Cardinality(Exits!Repayers(m))
    BY LegsCounted
  <2> QED
    BY <2>1, <2>2, <2>3
<1>3. ASSUME NEW i \in 1 .. Len(legs)
      PROVE  /\ legs[i].withdraw > 0 => permit.kind = Exits!FullExit
             /\ \/ Exits!Debt(pos[Owes[legs[i].market]]) < Exits!Debt(before.pos[Owes[legs[i].market]])
                \/ pos[legs[i].market].collateral < before.pos[legs[i].market].collateral
  <2>1. legs[i].withdraw > 0 => permit.kind = Exits!FullExit
    BY <1>1 DEF Checked
  <2>2. PICK m, d \in Market : m = legs[i].market /\ d = Owes[m]
    BY <1>1, LegsTyped, MarketsKnown
  <2>3. CASE ProtocolOf[m] = Exits!AaveV3
    <3>1. i \in LegsOf(m)
      BY <2>2 DEF LegsOf
    <3>2. PICK was, is \in Position : was = before.pos[m] /\ is = pos[m]
      BY <1>1 DEF ExitShape
    <3>3. Exits!Debt(is) < Exits!Debt(was) \/ is.collateral < was.collateral
      BY <2>3, <3>1, <3>2, AaveIsDone
    <3>4. d = m
      BY <2>2, <2>3, MarketsKnown DEF Exits!AaveV3, Exits!CompoundV3
    <3> QED
      BY <2>1, <2>2, <3>2, <3>3, <3>4
  <2>4. CASE ProtocolOf[m] # Exits!AaveV3
    <3>1. Worked(i)
      BY <1>1, <2>2, <2>4 DEF ExitProgress, Exits!AaveLegs
    <3>2. pos[d].variable < before.pos[d].variable \/ pos[m].collateral < before.pos[m].collateral
      BY <2>2, <3>1 DEF Worked
    <3>3. PICK was, is \in Position : was = before.pos[d] /\ is = pos[d]
      BY <1>1 DEF ExitShape
    <3>4. is.stable = was.stable
      <4>1. ProtocolOf[d] # Exits!AaveV3
        BY <2>2, <2>4, MarketsKnown
      <4> QED
        BY <1>1, <3>3, <4>1 DEF ExitProgress, SoFar
    <3>5. is.variable < was.variable => Exits!Debt(is) < Exits!Debt(was)
      BY <3>4, InNumbers DEF Exits!Debt
    <3> QED
      BY <2>1, <2>2, <3>2, <3>3, <3>5
  <2> QED
    BY <2>3, <2>4
<1> QED
  BY <1>2, <1>3 DEF Exits!DoneAsSigned

(* And leaves the owner whole.                                             *)
LEMMA DoneIsWhole ==
  ASSUME ExitNumbers, ExitInv PROVE Exits!OwnerMadeWhole
<1> SUFFICES ASSUME stage = "done" PROVE Exits!OwnerMadeWhole
  BY DEF Exits!OwnerMadeWhole
<1>1. /\ held[Usdc] = Stray
      /\ \A t \in Exits!Token \ {Usdc} :
           held[t] = Stray /\ wallet[t] >= before.wallet[t] - Exits!Repaid(t)
      /\ wallet[Usdc] + held[Usdc] - Stray >=
           before.wallet[Usdc] - Exits!Repaid(Usdc) + Exits!Fetched
  BY DEF ExitInv, OwnerWhole
<1>2. /\ wallet \in [Exits!Token -> Nat] /\ held \in [Exits!Token -> Nat] /\ Usdc \in Exits!Token
      /\ before.wallet \in [Exits!Token -> Nat]
  BY DEF ExitInv, ExitShape, Exits!Token
<1>3. held = [t \in Exits!Token |-> Stray]
  BY <1>1, <1>2
<1>4. wallet[Usdc] >= before.wallet[Usdc] - Exits!Repaid(Usdc) + Exits!Fetched
  <2>1. held[Usdc] \in Nat /\ wallet[Usdc] \in Nat
    BY <1>2
  <2>2. wallet[Usdc] + held[Usdc] - Stray = wallet[Usdc]
    BY <1>1, <2>1
  <2> QED
    BY <1>1, <2>2
<1>5. ASSUME NEW t \in Exits!Token
      PROVE  wallet[t] >= before.wallet[t] - Exits!Repaid(t) + IF t = Usdc THEN Exits!Fetched ELSE 0
  <2>1. CASE t = Usdc
    BY <1>4, <2>1
  <2>2. CASE t # Usdc
    <3>1. Exits!Repaid(t) \in Int /\ before.wallet[t] \in Nat
      BY <1>2, RepaidIsNumber DEF ExitInv
    <3>2. before.wallet[t] - Exits!Repaid(t) + 0 = before.wallet[t] - Exits!Repaid(t)
      BY <3>1
    <3> QED
      BY <1>1, <2>2, <3>2
  <2> QED
    BY <2>1, <2>2
<1> QED
  BY <1>3, <1>5 DEF Exits!OwnerMadeWhole

(* While nothing moves the invariant stays.                                *)
LEMMA StillExit ==
  ASSUME ExitNumbers, ExitInv,
         UNCHANGED <<stage, permit, legs, halted, pos, wallet, held, due, rest, before>>
  PROVE  ExitInv'
<1>1. ExitShape /\ ExitProgress /\ OwnerWhole
  BY DEF ExitInv
<1>2. ExitShape'
  BY <1>1 DEF ExitShape
<1>3. \A i : HowFar(i)' = HowFar(i)
  <2>1. \A i, side : Waits(i, side)' = Waits(i, side)
    BY DEF Waits
  <2> QED
    BY <2>1, SameCall DEF HowFar
<1>4. DuePlanned'
  BY <1>1, SameCall DEF ExitProgress, DuePlanned
<1>5. ASSUME stage # "called"
      PROVE  /\ \A m \in Market : ProtocolOf[m] # Exits!AaveV3 => SoFar(m)'
             /\ \A i \in (1 .. Len(legs)) \ rest : i \notin Exits!AaveLegs => Worked(i)'
  BY <1>1, <1>5, SoFarStays DEF ExitProgress
<1>6. ExitProgress'
  BY <1>1, <1>3, <1>4, <1>5, SameCall DEF ExitProgress
<1>7. OwnerWhole'
  BY <1>1, TotalsStay DEF OwnerWhole
<1> QED
  BY <1>2, <1>6, <1>7 DEF ExitInv

(* And so does that of a deleverage.                                       *)
LEMMA StillLoan ==
  ASSUME LoanInv, UNCHANGED leverVars PROVE LoanInv'
BY DEF leverVars, LoanInv, LoanShape, Repaying, Taking, Balanced, Lent, Floor,
       Levers!Native, Levers!Retain, Levers!Freed, Levers!MinOut

(* Every step of an exit keeps the invariant.                              *)
LEMMA ExitStep ==
  ASSUME ExitNumbers, ExitInv, Exits!Next PROVE ExitInv'
BY EntryOwes, RepayOwes, WithdrawOwes, LegOwes, StandingOwes DEF Exits!Next

(* The invariants of the two contracts hold.                               *)
LEMMA TransactionsInvariant ==
  Spec => []((focus = "exits" => ExitInv) /\ (focus = "levers" => LoanInv))
<1> ExitNumbers /\ LoanNumbers
  BY ServiceConstants
<1> DEFINE IInv == /\ focus = "exits" => ExitInv
                   /\ focus = "levers" => LoanInv
<1>1. ASSUME Init PROVE IInv
  BY <1>1, ExitInit, LoanInit
<1>2. ASSUME IInv, [Next]_vars PROVE IInv'
  <2>1. CASE UNCHANGED vars
    <3>1. UNCHANGED <<focus, exitVars, leverVars>>
      BY <2>1 DEF vars
    <3>2. ASSUME focus = "exits" PROVE ExitInv'
      <4>1. ExitInv /\ UNCHANGED <<permit, legs, halted, before, pos, wallet, held, due, rest, stage>>
        BY <1>2, <3>1, <3>2 DEF exitVars
      <4> QED
        BY <4>1, StillExit
    <3>3. ASSUME focus = "levers" PROVE LoanInv'
      <4>1. LoanInv /\ UNCHANGED leverVars
        BY <1>2, <3>1, <3>3
      <4> QED
        BY <4>1, StillLoan
    <3> QED
      BY <3>1, <3>2, <3>3
  <2>2. CASE focus = "exits" /\ Exits!Next /\ Others
    <3>1. focus' = focus
      BY <2>2 DEF Others
    <3>2. ExitInv'
      BY <1>2, <2>2, ExitStep
    <3> QED
      BY <2>2, <3>1, <3>2
  <2>3. CASE focus = "levers" /\ Levers!Next /\ Others
    <3>1. focus' = focus
      BY <2>3 DEF Others
    <3>2. LoanInv'
      BY <1>2, <2>3, LoanStep
    <3> QED
      BY <2>3, <3>1, <3>2
  <2>4. CASE Others /\ focus \notin {"exits", "levers"}
    <3>1. focus' = focus
      BY <2>4 DEF Others
    <3> QED
      BY <2>4, <3>1
  <2> QED
    BY <1>2, <2>1, <2>2, <2>3, <2>4 DEF Next
<1> QED
  BY <1>1, <1>2, PTL DEF Spec

----------------------------------------------------------------------------
(* An exit that goes through under a permit has lowered a debt that one    *)
(* leg repays by exactly the signed fraction, and one that several legs    *)
(* repay (on a comet, or a Morpho market) by no less and at most the       *)
(* fraction for each of them; it has taken all of a collateral or nothing; *)
(* the owner is left whole and the executor with what it had.  A           *)
(* deleverage that goes through has settled its loan (PanikExecutor.sol,   *)
(* _exit; PanikDeleverager.sol, _deleverage).                              *)
THEOREM TransactionsAreSettled == Spec => []TransactionsSettle
<1> ExitNumbers /\ LoanNumbers
  BY ServiceConstants
<1>1. (focus = "exits" => ExitInv) /\ (focus = "levers" => LoanInv) => TransactionsSettle
  BY DoneIsSigned, DoneIsWhole, DoneIsSettled DEF TransactionsSettle, Exits!ExitSettles
<1> QED
  BY <1>1, TransactionsInvariant, PTL
=============================================================================
