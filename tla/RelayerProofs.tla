--------------------------- MODULE RelayerProofs ---------------------------
(***************************************************************************)
(* Theorems about Relayer for every value of its constants: any number of  *)
(* wallets, permits, overlapping passes, signers and broadcasts.           *)
(***************************************************************************)
EXTENDS RelayerExits, FiniteSetTheorems, TLAPS

(* The await points at which a pass works on a permit.                     *)
Working == {"vet", "simulate", "acquire"} \union Leasing \union Claiming

(* A pass that works on a permit has one: TypeOK alone is not inductive,   *)
(* as ClaimReopen reads attempts[permit[t]].                               *)
HasPermit == \A t \in Tick : at[t] \in Working => permit[t] \in Permit

(* Every broadcast was for a permit.                                       *)
SentForPermit == \A h \in Hash : tx[h].state # "unsent" => tx[h].permit \in Permit

TypeInv == TypeOK /\ HasPermit /\ SentForPermit

USE DEF None

(* Every stretch of a pass keeps the types.                                *)
LEMMA DropType ==
  ASSUME TypeInv, NEW t \in Tick, Drop(t)
  PROVE  /\ at' \in [Tick -> AtState]
         /\ todo' \in [Tick -> SUBSET Wallet]
         /\ permit' \in [Tick -> Permit \union {None}]
         /\ lease' \in [Tick -> Signer \union {-1}]
         /\ nonce' \in [Tick -> Nat \union {-1}]
         /\ seen' \in [Tick -> Nat]
         /\ hash' \in [Tick -> Hash \union {None}]
         /\ HasPermit'
BY DEF Drop, TypeInv, TypeOK, HasPermit, AtState, Working, Leasing, Claiming

(* lease.release keeps the types of the pool.                            *)
LEMMA ReleaseType ==
  ASSUME TypeInv, NEW t \in Tick, NEW landed \in BOOLEAN, Release(t, landed)
  PROVE  /\ busy' \subseteq Signer
         /\ next' \in [Signer -> Nat \union {-1}]
         /\ cursor' \in Signer /\ hourly' \in Nat /\ crashes' \in 0 .. MaxCrashes
<1>1. (IF landed THEN nonce[t] + 1 ELSE nonce[t]) \in Nat \union {-1}
  <2>1. nonce[t] \in Nat \union {-1}
    BY DEF TypeInv, TypeOK
  <2> QED
    BY <2>1
<1> QED
  BY <1>1 DEF Release, TypeInv, TypeOK

(* A pending transaction that changes its state keeps its type.          *)
LEMMA TxStateType ==
  ASSUME TypeInv, NEW h \in Pending, NEW st \in TxState,
         tx' = [tx EXCEPT ![h].state = st]
  PROVE  tx' \in [Hash -> TxRecord] /\ SentForPermit'
<1>1. h \in Hash /\ tx[h] \in TxRecord /\ tx[h].permit \in Permit
  BY DEF TypeInv, TypeOK, SentForPermit, Pending
<1>2. /\ [tx[h] EXCEPT !.state = st] \in TxRecord
      /\ [tx[h] EXCEPT !.state = st].permit = tx[h].permit
  <2> HIDE DEF TxState
  <2> QED
    BY <1>1 DEF TxRecord
<1>3. tx' = [g \in Hash |-> IF g = h THEN [tx[h] EXCEPT !.state = st] ELSE tx[g]]
  BY DEF TypeInv, TypeOK
<1>4. \A g \in Hash : tx'[g].state # "unsent" => tx'[g].permit \in Permit
  BY <1>1, <1>2, <1>3 DEF TypeInv, SentForPermit
<1> QED
  BY <1>2, <1>3, <1>4 DEF TypeInv, TypeOK, SentForPermit

(* A broadcast of a pass that works on a permit keeps the types.         *)
LEMMA BroadcastType ==
  ASSUME TypeInv, NEW t \in Tick, NEW h \in Hash,
         at[t] \in Working, Broadcast(h, permit[t], lease[t], nonce[t])
  PROVE  /\ tx' \in [Hash -> TxRecord] /\ SentForPermit'
         /\ mined' \in [Signer -> Nat]
         /\ dead' \subseteq Permit /\ distress' \subseteq Wallet
<1>1. [permit |-> permit[t], signer |-> lease[t], nonce |-> nonce[t], state |-> "pending"]
        \in TxRecord
  <2>1. /\ permit[t] \in Permit \union {None} /\ lease[t] \in Signer \union {-1}
        /\ nonce[t] \in Nat \union {-1}
    BY DEF TypeInv, TypeOK
  <2>2. "pending" \in TxState
    BY DEF TxState
  <2> QED
    BY <2>1, <2>2 DEF TxRecord
<1>2. \A g \in Hash : [tx[g] EXCEPT !.state = "replaced"] \in TxRecord
  <2>1. ASSUME NEW r \in TxRecord PROVE [r EXCEPT !.state = "replaced"] \in TxRecord
    BY DEF TxRecord, TxState
  <2> QED
    BY <2>1 DEF TypeInv, TypeOK
<1>3. tx' \in [Hash -> TxRecord]
  BY <1>1, <1>2 DEF Broadcast, TypeInv, TypeOK
<1>4. \A g \in Hash :
        [tx[g] EXCEPT !.state = "replaced"].permit = tx[g].permit
  BY DEF TypeInv, TypeOK, TxRecord
<1>5. permit[t] \in Permit
  BY DEF TypeInv, HasPermit
<1>6. SentForPermit'
  BY <1>4, <1>5 DEF Broadcast, TypeInv, SentForPermit
<1> QED
  BY <1>3, <1>6 DEF Broadcast, TypeInv, TypeOK

(* Types hold in every reachable state of the relayer.                     *)
LEMMA TypeInvariance == Spec => []TypeInv
<1>1. Init => TypeInv
  <2>1. 0 \in Signer /\ MaxCrashes \in Nat
    BY ConstantsOK DEF Signer
  <2>2. Unsent \in TxRecord /\ Unsent.state = "unsent"
    BY DEF Unsent, TxRecord, TxState
  <2>3. Init => TypeOK /\ HasPermit
    BY <2>1, <2>2 DEF Init, TypeOK, HasPermit, AtState, Working, Leasing, Claiming
  <2> QED
    BY <2>2, <2>3 DEF Init, TypeInv, SentForPermit
<1>2. TypeInv /\ [Next]_vars => TypeInv'
  <2> SUFFICES ASSUME TypeInv, [Next]_vars PROVE TypeInv'
    OBVIOUS
  <2> USE DEF ledger, pool, process, locals, chain
  <2>1. ASSUME NEW t \in Tick, StartTick(t) PROVE TypeInv'
    BY <2>1 DEF StartTick, TypeInv, TypeOK, HasPermit, SentForPermit, AtState, Working, Leasing, Claiming
  <2>2. ASSUME NEW t \in Tick, EndTick(t) PROVE TypeInv'
    BY <2>2 DEF EndTick, TypeInv, TypeOK, HasPermit, SentForPermit, AtState, Working, Leasing, Claiming
  <2>3. ASSUME NEW t \in Tick, Select(t) PROVE TypeInv'
    BY <2>3 DEF Select, Live, TypeInv, TypeOK, HasPermit, SentForPermit, AtState, Working, Leasing, Claiming
  <2>4. ASSUME NEW t \in Tick, CheckCaps(t) \/ Simulate(t) PROVE TypeInv'
    BY <2>4, DropType DEF CheckCaps, Simulate, TypeInv, TypeOK, HasPermit, SentForPermit, AtState, Working, Leasing, Claiming
  <2>5. ASSUME NEW t \in Tick, NoFreeSigner(t) PROVE TypeInv'
    BY <2>5, DropType DEF NoFreeSigner, TypeInv, TypeOK, HasPermit, SentForPermit, AtState, Working, Leasing, Claiming
  <2>6. ASSUME NEW t \in Tick, Acquire(t) PROVE TypeInv'
    <3>1. \A s \in Signer : (s + 1) % NSigners \in Signer
      BY ConstantsOK DEF Signer
    <3> QED
      BY <2>6, <3>1 DEF Acquire, TypeInv, TypeOK, HasPermit, SentForPermit, AtState, Working, Leasing, Claiming
  <2>7. ASSUME NEW t \in Tick, PinNonce(t) PROVE TypeInv'
    BY <2>7, DropType DEF PinNonce, TypeInv, TypeOK, HasPermit, SentForPermit, AtState, Working, Leasing, Claiming
  <2>8. ASSUME NEW t \in Tick, BalanceLow(t) PROVE TypeInv'
    BY <2>8, DropType DEF BalanceLow, TypeInv, TypeOK, HasPermit, SentForPermit, AtState, Working, Leasing, Claiming
  <2>9. ASSUME NEW t \in Tick, ClaimRefused(t) PROVE TypeInv'
    BY <2>9, DropType DEF ClaimRefused, TypeInv, TypeOK, HasPermit, SentForPermit, AtState, Working, Leasing, Claiming
  <2>10. ASSUME NEW t \in Tick, ClaimInsert(t) PROVE TypeInv'
    BY <2>10 DEF ClaimInsert, InsertRow, TypeInv, TypeOK, HasPermit, SentForPermit, AtState, Working, Leasing, Claiming
  <2>11. ASSUME NEW t \in Tick, ClaimReopen(t) PROVE TypeInv'
    BY <2>11 DEF ClaimReopen, ReopenRow, TypeInv, TypeOK, HasPermit, SentForPermit, AtState, Working, Leasing, Claiming
  <2>12. ASSUME NEW t \in Tick, ClaimThrows(t) PROVE TypeInv'
    <3>1. /\ status' \in [Permit -> {None, "in_flight", "succeeded", "failed"}]
          /\ attempts' \in [Permit -> Nat]
      BY <2>12 DEF ClaimThrows, InsertRow, ReopenRow, TypeInv, TypeOK
    <3>2. Release(t, FALSE) /\ Drop(t) /\ UNCHANGED <<done, chain>>
      BY <2>12 DEF ClaimThrows
    <3> QED
      BY <3>1, <3>2, DropType, ReleaseType DEF TypeInv, TypeOK, SentForPermit, chain
  <2>13. ASSUME NEW t \in Tick, CountAttempt(t) PROVE TypeInv'
    BY <2>13 DEF CountAttempt, TypeInv, TypeOK, HasPermit, SentForPermit, AtState, Working, Leasing, Claiming
  <2>14. ASSUME NEW t \in Tick, CountThrows(t) PROVE TypeInv'
    BY <2>14, DropType, ReleaseType DEF CountThrows, TypeInv, TypeOK, HasPermit, SentForPermit, AtState, Working, Leasing, Claiming
  <2>15. ASSUME NEW t \in Tick, Send(t) PROVE TypeInv'
    BY <2>15, BroadcastType DEF Send, TypeInv, TypeOK, HasPermit, SentForPermit, AtState, Working, Leasing, Claiming
  <2>16. ASSUME NEW t \in Tick, SendThrows(t) PROVE TypeInv'
    BY <2>16, BroadcastType, ReleaseType DEF SendThrows, Rewind, TypeInv, TypeOK, HasPermit, SentForPermit, AtState, Working, Leasing, Claiming
  <2>17. ASSUME NEW t \in Tick, Mined(t) PROVE TypeInv'
    BY <2>17, ReleaseType DEF Mined, Receipt, TypeInv, TypeOK, HasPermit, SentForPermit, AtState, Working, Leasing, Claiming
  <2>18. ASSUME NEW t \in Tick, Timeout(t) PROVE TypeInv'
    BY <2>18 DEF Timeout, TypeInv, TypeOK, HasPermit, SentForPermit, AtState, Working, Leasing, Claiming
  <2>19. ASSUME NEW t \in Tick, Replace(t) PROVE TypeInv'
    BY <2>19, BroadcastType DEF Replace, TypeInv, TypeOK, HasPermit, SentForPermit, AtState, Working, Leasing, Claiming
  <2>20. ASSUME NEW t \in Tick, NoReplacement(t) PROVE TypeInv'
    <3>1. CASE Receipt(t) /\ UNCHANGED chain
      BY <2>20, <3>1, ReleaseType DEF NoReplacement, Receipt, TypeInv, TypeOK, HasPermit, SentForPermit, AtState, Working, Leasing, Claiming
    <3>2. CASE /\ at' = [at EXCEPT ![t] = "unmined"]
               /\ UNCHANGED <<process, todo, permit, lease, nonce, seen, hash>>
      <4>1. /\ tx' \in [Hash -> TxRecord] /\ SentForPermit'
            /\ mined' \in [Signer -> Nat]
            /\ dead' \subseteq Permit /\ distress' \subseteq Wallet
        <5>1. CASE UNCHANGED chain
          BY <5>1 DEF TypeInv, TypeOK, SentForPermit, chain
        <5>2. CASE \E h \in Hash : Broadcast(h, permit[t], lease[t], nonce[t])
          BY <2>20, <5>2, BroadcastType DEF NoReplacement, Working, Claiming
        <5> QED
          BY <2>20, <3>2, <5>1, <5>2 DEF NoReplacement, Receipt
      <4> QED
        BY <2>20, <3>2, <4>1 DEF NoReplacement, TypeInv, TypeOK, HasPermit, AtState, Working, Leasing, Claiming
    <3> QED
      BY <2>20, <3>1, <3>2 DEF NoReplacement
  <2>21. ASSUME NEW t \in Tick, Unmined(t) PROVE TypeInv'
    <3>1. /\ status' \in [Permit -> {None, "in_flight", "succeeded", "failed"}]
          /\ attempts' \in [Permit -> Nat]
      BY <2>21 DEF Unmined, FinishRow, FinishThrows, TypeInv, TypeOK
    <3>2. UNCHANGED <<done, chain>>
      BY <2>21 DEF Unmined
    <3>3. CASE Release(t, TRUE) /\ Drop(t)
      BY <3>1, <3>2, <3>3, DropType, ReleaseType DEF TypeInv, TypeOK, SentForPermit, chain
    <3>4. CASE Rewind(t) /\ UNCHANGED <<todo, permit, seen, hash>>
      BY <3>1, <3>2, <3>4, <2>21, ReleaseType DEF Unmined, Rewind, TypeInv, TypeOK, HasPermit, SentForPermit, AtState, Working, Leasing, Claiming
    <3> QED
      BY <2>21, <3>3, <3>4 DEF Unmined
  <2>22. ASSUME NEW t \in Tick, Settle(t) PROVE TypeInv'
    BY <2>22, DropType DEF Settle, FinishRow, Outcome, TypeInv, TypeOK, HasPermit, SentForPermit, AtState, Working, Leasing, Claiming
  <2>23. ASSUME NEW t \in Tick, SettleThrows(t) PROVE TypeInv'
    BY <2>23 DEF SettleThrows, FinishThrows, FinishRow, Outcome, TypeInv, TypeOK, HasPermit, SentForPermit, AtState, Working, Leasing, Claiming
  <2>24. ASSUME NEW t \in Tick, Abort(t) PROVE TypeInv'
    BY <2>24, DropType DEF Abort, FinishRow, TypeInv, TypeOK, HasPermit, SentForPermit, AtState, Working, Leasing, Claiming
  <2>25. ASSUME Crash PROVE TypeInv'
    BY <2>25, ConstantsOK DEF Crash, Signer, TypeInv, TypeOK, HasPermit, SentForPermit, AtState, Working, Leasing, Claiming
  <2>26. ASSUME HourPasses PROVE TypeInv'
    BY <2>26, ConstantsOK DEF HourPasses, Signer, TypeInv, TypeOK, HasPermit, SentForPermit, AtState, Working, Leasing, Claiming
  <2>27. ASSUME NEW h \in Hash, Mine(h) PROVE TypeInv'
    <3>1. mined' \in [Signer -> Nat]
      <4> DEFINE s == tx[h].signer
      <4>1. \A n \in Nat : n + 1 \in Nat
        OBVIOUS
      <4>2. mined' = [mined EXCEPT ![s] = mined[s] + 1]
        BY <2>27 DEF Mine
      <4> HIDE DEF s
      <4> QED
        BY <4>1, <4>2 DEF TypeInv, TypeOK
    <3>2. h \in Pending /\ tx[h].permit \in Permit
      BY <2>27 DEF Mine, Pending, TypeInv, SentForPermit
    <3>3. \E st \in TxState : tx' = [tx EXCEPT ![h].state = st]
      BY <2>27 DEF Mine, TxState
    <3>4. tx' \in [Hash -> TxRecord] /\ SentForPermit' /\ dead' \subseteq Permit
      BY <2>27, <3>2, <3>3, TxStateType DEF Mine, TypeInv, TypeOK
    <3> QED
      BY <2>27, <3>1, <3>4 DEF Mine, TypeInv, TypeOK, HasPermit, SentForPermit, AtState, Working, Leasing, Claiming
  <2>28. ASSUME NEW h \in Hash, Evict(h) PROVE TypeInv'
    BY <2>28, ConstantsOK, TxStateType DEF Evict, TxState, Pending, TypeInv, TypeOK, HasPermit, SentForPermit, AtState, Working, Leasing, Claiming
  <2>29. ASSUME NEW p \in Permit, Lapse(p) PROVE TypeInv'
    BY <2>29, ConstantsOK DEF Lapse, Signer, TypeInv, TypeOK, HasPermit, SentForPermit, AtState, Working, Leasing, Claiming
  <2>30. ASSUME NEW w \in Wallet, RevokeAll(w) PROVE TypeInv'
    BY <2>30, ConstantsOK DEF RevokeAll, Signer, TypeInv, TypeOK, HasPermit, SentForPermit, AtState, Working, Leasing, Claiming
  <2>31. ASSUME NEW w \in Wallet, MarketMoves(w) PROVE TypeInv'
    BY <2>31, ConstantsOK DEF MarketMoves, Signer, TypeInv, TypeOK, HasPermit, SentForPermit, AtState, Working, Leasing, Claiming
  <2>32. CASE UNCHANGED vars
    BY <2>32 DEF vars, TypeInv, TypeOK, HasPermit, SentForPermit, AtState, Working, Leasing, Claiming
  <2> QED
    BY <2>1, <2>2, <2>3, <2>4, <2>5, <2>6, <2>7, <2>8, <2>9, <2>10, <2>11, <2>12, <2>13, <2>14, <2>15, <2>16, <2>17, <2>18, <2>19, <2>20, <2>21, <2>22, <2>23, <2>24, <2>25, <2>26, <2>27, <2>28, <2>29, <2>30, <2>31, <2>32
       DEF Next, Advance, Environment
<1> QED
  BY <1>1, <1>2, PTL DEF Spec

(* The variables of the relayer, its ledger, pool and chain are of their *)
(* types in every reachable state, for every value of the constants.     *)
THEOREM TypeCorrect == Spec => []TypeOK
<1>1. TypeInv => TypeOK
  BY DEF TypeInv
<1> QED
  BY <1>1, TypeInvariance, PTL

----------------------------------------------------------------------------
(* The lease.                                                              *)

(* A signer serves one submission at a time, whatever the faults: the pool *)
(* tests and sets its busy set with no await in between, and only the      *)
(* holder of a lease takes the signer out of it again.                     *)
THEOREM LeasesExclusive == Spec => []LeaseExclusive
<1>1. Init => LeaseExclusive
  BY DEF Init, LeaseExclusive, Leasing
<1>2. TypeInv /\ LeaseExclusive /\ [Next]_vars => LeaseExclusive'
  <2> SUFFICES ASSUME TypeInv, LeaseExclusive, [Next]_vars PROVE LeaseExclusive'
    OBVIOUS
  <2> USE DEF ledger, pool, process, locals, chain, TypeInv
  <2>1. ASSUME NEW t \in Tick, StartTick(t) PROVE LeaseExclusive'
    BY <2>1 DEF StartTick, LeaseExclusive, Leasing, TypeOK
  <2>2. ASSUME NEW t \in Tick, EndTick(t) PROVE LeaseExclusive'
    BY <2>2 DEF EndTick, LeaseExclusive, Leasing, TypeOK
  <2>3. ASSUME NEW t \in Tick, Select(t) PROVE LeaseExclusive'
    BY <2>3 DEF Select, LeaseExclusive, Leasing, TypeOK
  <2>4. ASSUME NEW t \in Tick, CheckCaps(t) \/ Simulate(t) PROVE LeaseExclusive'
    BY <2>4 DEF CheckCaps, Simulate, Drop, LeaseExclusive, Leasing, TypeOK
  <2>5. ASSUME NEW t \in Tick, NoFreeSigner(t) PROVE LeaseExclusive'
    BY <2>5 DEF NoFreeSigner, Drop, LeaseExclusive, Leasing, TypeOK
  <2>6. ASSUME NEW t \in Tick, Acquire(t) PROVE LeaseExclusive'
    BY <2>6 DEF Acquire, FirstFree, LeaseExclusive, Leasing, TypeOK
  <2>7. ASSUME NEW t \in Tick, PinNonce(t) PROVE LeaseExclusive'
    BY <2>7, SMTT(30) DEF PinNonce, Drop, LeaseExclusive, Leasing, TypeOK
  <2>8. ASSUME NEW t \in Tick, BalanceLow(t) PROVE LeaseExclusive'
    BY <2>8 DEF BalanceLow, Drop, LeaseExclusive, Leasing, TypeOK
  <2>9. ASSUME NEW t \in Tick, ClaimRefused(t) PROVE LeaseExclusive'
    BY <2>9 DEF ClaimRefused, Drop, LeaseExclusive, Leasing, TypeOK
  <2>10. ASSUME NEW t \in Tick, ClaimInsert(t) PROVE LeaseExclusive'
    BY <2>10 DEF ClaimInsert, InsertRow, LeaseExclusive, Leasing, TypeOK
  <2>11. ASSUME NEW t \in Tick, ClaimReopen(t) PROVE LeaseExclusive'
    BY <2>11 DEF ClaimReopen, ReopenRow, LeaseExclusive, Leasing, TypeOK
  <2>12. ASSUME NEW t \in Tick, ClaimThrows(t) PROVE LeaseExclusive'
    BY <2>12 DEF ClaimThrows, Drop, Release, InsertRow, ReopenRow, LeaseExclusive, Leasing, TypeOK
  <2>13. ASSUME NEW t \in Tick, CountAttempt(t) PROVE LeaseExclusive'
    BY <2>13 DEF CountAttempt, LeaseExclusive, Leasing, TypeOK
  <2>14. ASSUME NEW t \in Tick, CountThrows(t) PROVE LeaseExclusive'
    BY <2>14 DEF CountThrows, Drop, Release, LeaseExclusive, Leasing, TypeOK
  <2>15. ASSUME NEW t \in Tick, Send(t) PROVE LeaseExclusive'
    BY <2>15 DEF Send, LeaseExclusive, Leasing, TypeOK
  <2>16. ASSUME NEW t \in Tick, SendThrows(t) PROVE LeaseExclusive'
    BY <2>16 DEF SendThrows, Rewind, Release, LeaseExclusive, Leasing, TypeOK
  <2>17. ASSUME NEW t \in Tick, Mined(t) PROVE LeaseExclusive'
    BY <2>17 DEF Mined, Receipt, Release, LeaseExclusive, Leasing, TypeOK
  <2>18. ASSUME NEW t \in Tick, Timeout(t) PROVE LeaseExclusive'
    BY <2>18 DEF Timeout, LeaseExclusive, Leasing, TypeOK
  <2>19. ASSUME NEW t \in Tick, Replace(t) PROVE LeaseExclusive'
    BY <2>19 DEF Replace, LeaseExclusive, Leasing, TypeOK
  <2>20. ASSUME NEW t \in Tick, NoReplacement(t) PROVE LeaseExclusive'
    BY <2>20 DEF NoReplacement, Receipt, Release, LeaseExclusive, Leasing, TypeOK
  <2>21. ASSUME NEW t \in Tick, Unmined(t) PROVE LeaseExclusive'
    <3>1. CASE Release(t, TRUE) /\ Drop(t)
      BY <2>21, <3>1 DEF Unmined, Drop, Release, LeaseExclusive, Leasing, TypeOK
    <3>2. CASE Rewind(t) /\ UNCHANGED <<todo, permit, seen, hash>>
      BY <2>21, <3>2 DEF Unmined, Release, Rewind, LeaseExclusive, Leasing, TypeOK
    <3> QED
      BY <2>21, <3>1, <3>2 DEF Unmined
  <2>22. ASSUME NEW t \in Tick, Settle(t) PROVE LeaseExclusive'
    BY <2>22 DEF Settle, Drop, FinishRow, LeaseExclusive, Leasing, TypeOK
  <2>23. ASSUME NEW t \in Tick, SettleThrows(t) PROVE LeaseExclusive'
    BY <2>23 DEF SettleThrows, FinishThrows, FinishRow, LeaseExclusive, Leasing, TypeOK
  <2>24. ASSUME NEW t \in Tick, Abort(t) PROVE LeaseExclusive'
    BY <2>24 DEF Abort, Drop, FinishRow, LeaseExclusive, Leasing, TypeOK
  <2>25. ASSUME Crash PROVE LeaseExclusive'
    BY <2>25 DEF Crash, LeaseExclusive, Leasing, TypeOK
  <2>26. ASSUME HourPasses PROVE LeaseExclusive'
    BY <2>26 DEF HourPasses, LeaseExclusive, Leasing, TypeOK
  <2>27. ASSUME NEW h \in Hash, Mine(h) PROVE LeaseExclusive'
    BY <2>27 DEF Mine, LeaseExclusive, Leasing, TypeOK
  <2>28. ASSUME NEW h \in Hash, Evict(h) PROVE LeaseExclusive'
    BY <2>28 DEF Evict, LeaseExclusive, Leasing, TypeOK
  <2>29. ASSUME NEW p \in Permit, Lapse(p) PROVE LeaseExclusive'
    BY <2>29 DEF Lapse, LeaseExclusive, Leasing, TypeOK
  <2>30. ASSUME NEW w \in Wallet, RevokeAll(w) PROVE LeaseExclusive'
    BY <2>30 DEF RevokeAll, LeaseExclusive, Leasing, TypeOK
  <2>31. ASSUME NEW w \in Wallet, MarketMoves(w) PROVE LeaseExclusive'
    BY <2>31 DEF MarketMoves, LeaseExclusive, Leasing, TypeOK
  <2>32. CASE UNCHANGED vars
    BY <2>32 DEF vars, LeaseExclusive, Leasing, TypeOK
  <2> QED
    BY <2>1, <2>2, <2>3, <2>4, <2>5, <2>6, <2>7, <2>8, <2>9, <2>10, <2>11,
       <2>12, <2>13, <2>14, <2>15, <2>16, <2>17, <2>18, <2>19, <2>20, <2>21,
       <2>22, <2>23, <2>24, <2>25, <2>26, <2>27, <2>28, <2>29, <2>30, <2>31,
       <2>32
       DEF Next, Advance, Environment
<1> QED
  BY <1>1, <1>2, TypeInvariance, PTL DEF Spec

----------------------------------------------------------------------------
(* The ledger row.                                                         *)

(* When no reply of the ledger is lost, at most one pass is between claim  *)
(* and outcome of a permit, and the row is in flight as long as it is:     *)
(* over any interleaving of passes and any sequence of crashes.            *)
LEMMA ClaimInductive ==
  ASSUME "reply" \notin Faults
  PROVE  TypeInv /\ ClaimExclusive /\ [Next]_vars => ClaimExclusive'
<1> SUFFICES ASSUME TypeInv, ClaimExclusive, [Next]_vars PROVE ClaimExclusive'
  OBVIOUS
<1> USE DEF ledger, pool, process, locals, chain, TypeInv
<1>1. ASSUME NEW t \in Tick, StartTick(t) PROVE ClaimExclusive'
  BY <1>1 DEF StartTick, ClaimExclusive, Claims, Claiming, Leasing, Working, HasPermit, TypeOK
<1>2. ASSUME NEW t \in Tick, EndTick(t) PROVE ClaimExclusive'
  BY <1>2 DEF EndTick, ClaimExclusive, Claims, Claiming, Leasing, Working, HasPermit, TypeOK
<1>3. ASSUME NEW t \in Tick, Select(t) PROVE ClaimExclusive'
  BY <1>3 DEF Select, ClaimExclusive, Claims, Claiming, Leasing, Working, HasPermit, TypeOK
<1>4. ASSUME NEW t \in Tick, CheckCaps(t) \/ Simulate(t) PROVE ClaimExclusive'
  BY SMTT(30), <1>4 DEF CheckCaps, Simulate, Drop, ClaimExclusive, Claims, Claiming, Leasing, Working, HasPermit, TypeOK
<1>5. ASSUME NEW t \in Tick, NoFreeSigner(t) PROVE ClaimExclusive'
  BY <1>5 DEF NoFreeSigner, Drop, ClaimExclusive, Claims, Claiming, Leasing, Working, HasPermit, TypeOK
<1>6. ASSUME NEW t \in Tick, Acquire(t) PROVE ClaimExclusive'
  BY <1>6 DEF Acquire, FirstFree, ClaimExclusive, Claims, Claiming, Leasing, Working, HasPermit, TypeOK
<1>7. ASSUME NEW t \in Tick, PinNonce(t) PROVE ClaimExclusive'
  <2>1. CASE at' = [at EXCEPT ![t] = "leased"] /\ permit' = permit
    BY <1>7, <2>1 DEF PinNonce, ClaimExclusive, Claims, Claiming, Leasing, Working, HasPermit, TypeOK
  <2>2. CASE Drop(t)
    BY <1>7, <2>2 DEF PinNonce, Drop, ClaimExclusive, Claims, Claiming, Leasing, Working, HasPermit, TypeOK
  <2> QED
    BY <1>7, <2>1, <2>2 DEF PinNonce
<1>8. ASSUME NEW t \in Tick, BalanceLow(t) PROVE ClaimExclusive'
  BY <1>8 DEF BalanceLow, Drop, ClaimExclusive, Claims, Claiming, Leasing, Working, HasPermit, TypeOK
<1>9. ASSUME NEW t \in Tick, ClaimRefused(t) PROVE ClaimExclusive'
  BY <1>9 DEF ClaimRefused, Drop, ClaimExclusive, Claims, Claiming, Leasing, Working, HasPermit, TypeOK
<1>10. ASSUME NEW t \in Tick, ClaimInsert(t) PROVE ClaimExclusive'
  BY <1>10 DEF ClaimInsert, InsertRow, ClaimExclusive, Claims, Claiming, Leasing, Working, HasPermit, TypeOK
<1>11. ASSUME NEW t \in Tick, ClaimReopen(t) PROVE ClaimExclusive'
  BY <1>11 DEF ClaimReopen, ReopenRow, ClaimExclusive, Claims, Claiming, Leasing, Working, HasPermit, TypeOK
<1>12. ASSUME NEW t \in Tick, ClaimThrows(t) PROVE ClaimExclusive'
  BY <1>12 DEF ClaimThrows, Drop, Release, InsertRow, ReopenRow, ClaimExclusive, Claims, Claiming, Leasing, Working, HasPermit, TypeOK
<1>13. ASSUME NEW t \in Tick, CountAttempt(t) PROVE ClaimExclusive'
  BY <1>13 DEF CountAttempt, ClaimExclusive, Claims, Claiming, Leasing, Working, HasPermit, TypeOK
<1>14. ASSUME NEW t \in Tick, CountThrows(t) PROVE ClaimExclusive'
  BY <1>14 DEF CountThrows, Drop, Release, ClaimExclusive, Claims, Claiming, Leasing, Working, HasPermit, TypeOK
<1>15. ASSUME NEW t \in Tick, Send(t) PROVE ClaimExclusive'
  BY <1>15 DEF Send, ClaimExclusive, Claims, Claiming, Leasing, Working, HasPermit, TypeOK
<1>16. ASSUME NEW t \in Tick, SendThrows(t) PROVE ClaimExclusive'
  BY <1>16 DEF SendThrows, Rewind, Release, ClaimExclusive, Claims, Claiming, Leasing, Working, HasPermit, TypeOK
<1>17. ASSUME NEW t \in Tick, Mined(t) PROVE ClaimExclusive'
  BY <1>17 DEF Mined, Receipt, Release, ClaimExclusive, Claims, Claiming, Leasing, Working, HasPermit, TypeOK
<1>18. ASSUME NEW t \in Tick, Timeout(t) PROVE ClaimExclusive'
  BY <1>18 DEF Timeout, ClaimExclusive, Claims, Claiming, Leasing, Working, HasPermit, TypeOK
<1>19. ASSUME NEW t \in Tick, Replace(t) PROVE ClaimExclusive'
  BY <1>19 DEF Replace, ClaimExclusive, Claims, Claiming, Leasing, Working, HasPermit, TypeOK
<1>20. ASSUME NEW t \in Tick, NoReplacement(t) PROVE ClaimExclusive'
  BY <1>20 DEF NoReplacement, Receipt, Release, ClaimExclusive, Claims, Claiming, Leasing, Working, HasPermit, TypeOK
<1>21. ASSUME NEW t \in Tick, Unmined(t) PROVE ClaimExclusive'
  BY <1>21, SMTT(30) DEF Unmined, Drop, Release, Rewind, FinishRow, FinishThrows, ClaimExclusive, Claims, Claiming, Leasing, Working, HasPermit, TypeOK
<1>22. ASSUME NEW t \in Tick, Settle(t) PROVE ClaimExclusive'
  BY <1>22 DEF Settle, Drop, FinishRow, ClaimExclusive, Claims, Claiming, Leasing, Working, HasPermit, TypeOK
<1>23. ASSUME NEW t \in Tick, SettleThrows(t) PROVE ClaimExclusive'
  BY <1>23 DEF SettleThrows, FinishThrows, FinishRow, ClaimExclusive, Claims, Claiming, Leasing, Working, HasPermit, TypeOK
<1>24. ASSUME NEW t \in Tick, Abort(t) PROVE ClaimExclusive'
  BY <1>24 DEF Abort, Drop, FinishRow, ClaimExclusive, Claims, Claiming, Leasing, Working, HasPermit, TypeOK
<1>25. ASSUME Crash PROVE ClaimExclusive'
  BY <1>25 DEF Crash, ClaimExclusive, Claims, Claiming, Leasing, Working, HasPermit, TypeOK
<1>26. ASSUME HourPasses PROVE ClaimExclusive'
  BY <1>26 DEF HourPasses, ClaimExclusive, Claims, Claiming, Leasing, Working, HasPermit, TypeOK
<1>27. ASSUME NEW h \in Hash, Mine(h) PROVE ClaimExclusive'
  BY <1>27 DEF Mine, ClaimExclusive, Claims, Claiming, Leasing, Working, HasPermit, TypeOK
<1>28. ASSUME NEW h \in Hash, Evict(h) PROVE ClaimExclusive'
  BY <1>28 DEF Evict, ClaimExclusive, Claims, Claiming, Leasing, Working, HasPermit, TypeOK
<1>29. ASSUME NEW p \in Permit, Lapse(p) PROVE ClaimExclusive'
  BY <1>29 DEF Lapse, ClaimExclusive, Claims, Claiming, Leasing, Working, HasPermit, TypeOK
<1>30. ASSUME NEW w \in Wallet, RevokeAll(w) PROVE ClaimExclusive'
  BY <1>30 DEF RevokeAll, ClaimExclusive, Claims, Claiming, Leasing, Working, HasPermit, TypeOK
<1>31. ASSUME NEW w \in Wallet, MarketMoves(w) PROVE ClaimExclusive'
  BY <1>31 DEF MarketMoves, ClaimExclusive, Claims, Claiming, Leasing, Working, HasPermit, TypeOK
<1>32. CASE UNCHANGED vars
  BY <1>32 DEF vars, ClaimExclusive, Claims, Claiming, Leasing, Working, HasPermit, TypeOK
<1> QED
  BY <1>1, <1>2, <1>3, <1>4, <1>5, <1>6, <1>7, <1>8, <1>9, <1>10, <1>11,
     <1>12, <1>13, <1>14, <1>15, <1>16, <1>17, <1>18, <1>19, <1>20, <1>21,
     <1>22, <1>23, <1>24, <1>25, <1>26, <1>27, <1>28, <1>29, <1>30, <1>31,
     <1>32
     DEF Next, Advance, Environment

(* The unique index and the conditional update of relayer_attempts make  *)
(* the row a mutex over overlapping passes.                              *)
THEOREM ClaimsExclusive ==
  ASSUME "reply" \notin Faults
  PROVE  Spec => []ClaimExclusive
<1>1. Init => ClaimExclusive
  BY DEF Init, ClaimExclusive, Claims, Claiming
<1> QED
  BY <1>1, ClaimInductive, TypeInvariance, PTL DEF Spec

(* A row left in flight by a pass that died or could not write its outcome *)
(* is never claimed again, so its permit is never broadcast again.         *)
THEOREM AbandonedRows ==
  ASSUME "reply" \notin Faults
  PROVE  Spec => AbandonedNeverRefired
<1> DEFINE Frozen == \A p \in Permit :
             status[p] = "in_flight" /\ ~Claimed(p) =>
               status'[p] = "in_flight" /\ ~Claimed(p)'
<1>1. TypeInv /\ ClaimExclusive /\ [Next]_vars => Frozen
  <2> SUFFICES ASSUME TypeInv, ClaimExclusive, [Next]_vars,
                      NEW p \in Permit, status[p] = "in_flight", ~Claimed(p)
               PROVE  status'[p] = "in_flight" /\ ~Claimed(p)'
    OBVIOUS
  <2> DEFINE Still == status'[p] = "in_flight" /\ ~Claimed(p)'
  <2> USE DEF ledger, pool, process, locals, chain, TypeInv
  <2>1. ASSUME NEW t \in Tick, StartTick(t) PROVE Still
    BY <2>1 DEF StartTick, Claimed, Claims, Claiming, Leasing, Working, HasPermit, TypeOK
  <2>2. ASSUME NEW t \in Tick, EndTick(t) PROVE Still
    BY <2>2 DEF EndTick, Claimed, Claims, Claiming, Leasing, Working, HasPermit, TypeOK
  <2>3. ASSUME NEW t \in Tick, Select(t) PROVE Still
    BY <2>3 DEF Select, Claimed, Claims, Claiming, Leasing, Working, HasPermit, TypeOK
  <2>4. ASSUME NEW t \in Tick, CheckCaps(t) \/ Simulate(t) PROVE Still
    BY <2>4 DEF CheckCaps, Simulate, Drop, Claimed, Claims, Claiming, Leasing, Working, HasPermit, TypeOK
  <2>5. ASSUME NEW t \in Tick, NoFreeSigner(t) PROVE Still
    BY <2>5 DEF NoFreeSigner, Drop, Claimed, Claims, Claiming, Leasing, Working, HasPermit, TypeOK
  <2>6. ASSUME NEW t \in Tick, Acquire(t) PROVE Still
    BY <2>6 DEF Acquire, FirstFree, Claimed, Claims, Claiming, Leasing, Working, HasPermit, TypeOK
  <2>7. ASSUME NEW t \in Tick, PinNonce(t) PROVE Still
    BY <2>7 DEF PinNonce, Drop, Claimed, Claims, Claiming, Leasing, Working, HasPermit, TypeOK
  <2>8. ASSUME NEW t \in Tick, BalanceLow(t) PROVE Still
    BY <2>8 DEF BalanceLow, Drop, Claimed, Claims, Claiming, Leasing, Working, HasPermit, TypeOK
  <2>9. ASSUME NEW t \in Tick, ClaimRefused(t) PROVE Still
    BY <2>9 DEF ClaimRefused, Drop, Claimed, Claims, Claiming, Leasing, Working, HasPermit, TypeOK
  <2>10. ASSUME NEW t \in Tick, ClaimInsert(t) PROVE Still
    BY <2>10 DEF ClaimInsert, InsertRow, Claimed, Claims, Claiming, Leasing, Working, HasPermit, TypeOK
  <2>11. ASSUME NEW t \in Tick, ClaimReopen(t) PROVE Still
    BY <2>11 DEF ClaimReopen, ReopenRow, Claimed, Claims, Claiming, Leasing, Working, HasPermit, TypeOK
  <2>12. ASSUME NEW t \in Tick, ClaimThrows(t) PROVE Still
    BY <2>12 DEF ClaimThrows, Drop, Release, InsertRow, ReopenRow, Claimed, Claims, Claiming, Leasing, Working, HasPermit, TypeOK
  <2>13. ASSUME NEW t \in Tick, CountAttempt(t) PROVE Still
    BY <2>13 DEF CountAttempt, Claimed, Claims, Claiming, Leasing, Working, HasPermit, TypeOK
  <2>14. ASSUME NEW t \in Tick, CountThrows(t) PROVE Still
    BY <2>14 DEF CountThrows, Drop, Release, Claimed, Claims, Claiming, Leasing, Working, HasPermit, TypeOK
  <2>15. ASSUME NEW t \in Tick, Send(t) PROVE Still
    BY <2>15 DEF Send, Claimed, Claims, Claiming, Leasing, Working, HasPermit, TypeOK
  <2>16. ASSUME NEW t \in Tick, SendThrows(t) PROVE Still
    BY <2>16 DEF SendThrows, Rewind, Release, Claimed, Claims, Claiming, Leasing, Working, HasPermit, TypeOK
  <2>17. ASSUME NEW t \in Tick, Mined(t) PROVE Still
    BY <2>17 DEF Mined, Receipt, Release, Claimed, Claims, Claiming, Leasing, Working, HasPermit, TypeOK
  <2>18. ASSUME NEW t \in Tick, Timeout(t) PROVE Still
    BY <2>18 DEF Timeout, Claimed, Claims, Claiming, Leasing, Working, HasPermit, TypeOK
  <2>19. ASSUME NEW t \in Tick, Replace(t) PROVE Still
    BY <2>19 DEF Replace, Claimed, Claims, Claiming, Leasing, Working, HasPermit, TypeOK
  <2>20. ASSUME NEW t \in Tick, NoReplacement(t) PROVE Still
    BY <2>20 DEF NoReplacement, Receipt, Release, Claimed, Claims, Claiming, Leasing, Working, HasPermit, TypeOK
  <2>21. ASSUME NEW t \in Tick, Unmined(t) PROVE Still
    BY <2>21 DEF Unmined, Drop, Release, Rewind, FinishRow, FinishThrows, Claimed, Claims, Claiming, Leasing, Working, HasPermit, TypeOK
  <2>22. ASSUME NEW t \in Tick, Settle(t) PROVE Still
    BY <2>22 DEF Settle, Drop, FinishRow, Claimed, Claims, Claiming, Leasing, Working, HasPermit, TypeOK
  <2>23. ASSUME NEW t \in Tick, SettleThrows(t) PROVE Still
    BY <2>23 DEF SettleThrows, FinishThrows, FinishRow, Claimed, Claims, Claiming, Leasing, Working, HasPermit, TypeOK
  <2>24. ASSUME NEW t \in Tick, Abort(t) PROVE Still
    BY <2>24 DEF Abort, Drop, FinishRow, Claimed, Claims, Claiming, Leasing, Working, HasPermit, TypeOK
  <2>25. ASSUME Crash PROVE Still
    BY <2>25 DEF Crash, Claimed, Claims, Claiming, Leasing, Working, HasPermit, TypeOK
  <2>26. ASSUME HourPasses PROVE Still
    BY <2>26 DEF HourPasses, Claimed, Claims, Claiming, Leasing, Working, HasPermit, TypeOK
  <2>27. ASSUME NEW h \in Hash, Mine(h) PROVE Still
    BY <2>27 DEF Mine, Claimed, Claims, Claiming, Leasing, Working, HasPermit, TypeOK
  <2>28. ASSUME NEW h \in Hash, Evict(h) PROVE Still
    BY <2>28 DEF Evict, Claimed, Claims, Claiming, Leasing, Working, HasPermit, TypeOK
  <2>29. ASSUME NEW q \in Permit, Lapse(q) PROVE Still
    BY <2>29 DEF Lapse, Claimed, Claims, Claiming, Leasing, Working, HasPermit, TypeOK
  <2>30. ASSUME NEW w \in Wallet, RevokeAll(w) PROVE Still
    BY <2>30 DEF RevokeAll, Claimed, Claims, Claiming, Leasing, Working, HasPermit, TypeOK
  <2>31. ASSUME NEW w \in Wallet, MarketMoves(w) PROVE Still
    BY <2>31 DEF MarketMoves, Claimed, Claims, Claiming, Leasing, Working, HasPermit, TypeOK
  <2>32. CASE UNCHANGED vars
    BY <2>32 DEF vars, Claimed, Claims, Claiming, Leasing, Working, HasPermit, TypeOK
  <2> QED
    BY <2>1, <2>2, <2>3, <2>4, <2>5, <2>6, <2>7, <2>8, <2>9, <2>10, <2>11,
       <2>12, <2>13, <2>14, <2>15, <2>16, <2>17, <2>18, <2>19, <2>20, <2>21,
       <2>22, <2>23, <2>24, <2>25, <2>26, <2>27, <2>28, <2>29, <2>30, <2>31,
       <2>32
       DEF Next, Advance, Environment
<1> QED
  BY <1>1, ClaimsExclusive, TypeInvariance, PTL DEF Spec, AbandonedNeverRefired

----------------------------------------------------------------------------
(* The chain.                                                              *)

(* An executed permit has spent its nonce bit, and no second execution is  *)
(* in the chain.                                                           *)
ExitsSpend ==
  /\ \A h \in Hash : tx[h].state = "success" => tx[h].permit \in dead
  /\ \A g, h \in Hash :
       tx[g].state = "success" /\ tx[h].state = "success" /\ tx[g].permit = tx[h].permit
         => g = h

(* A broadcast neither executes nor undoes anything.                       *)
LEMMA BroadcastKeeps ==
  ASSUME NEW h, NEW p, NEW sg, NEW n, TypeInv, ExitsSpend, Broadcast(h, p, sg, n)
  PROVE  ExitsSpend'
<1>1. \A g \in Hash : [tx[g] EXCEPT !.state = "replaced"].state = "replaced"
  BY DEF TypeInv, TypeOK, TxRecord
<1>2. \A g \in Hash : tx'[g].state = "success" =>
        tx[g].state = "success" /\ tx'[g] = tx[g]
  BY <1>1 DEF Broadcast
<1> QED
  BY <1>2 DEF Broadcast, ExitsSpend

(* A change of a transaction's state changes nothing else of it, nor of  *)
(* another one.                                                          *)
LEMMA StateOnly ==
  ASSUME TypeInv, NEW h \in Hash, NEW st, tx' = [tx EXCEPT ![h].state = st]
  PROVE  /\ tx'[h].state = st /\ tx'[h].permit = tx[h].permit
         /\ \A g \in Hash \ {h} : tx'[g] = tx[g]
BY DEF TypeInv, TypeOK, TxRecord

(* Inductive: only Mine executes, and only a permit whose nonce bit is     *)
(* unset.                                                                  *)
LEMMA ExitsInductive == TypeInv /\ ExitsSpend /\ [Next]_vars => ExitsSpend'
<1> SUFFICES ASSUME TypeInv, ExitsSpend, [Next]_vars PROVE ExitsSpend'
  OBVIOUS
<1> DEFINE Quiet == tx' = tx /\ dead \subseteq dead'
           Sends == \E h, p, sg, n : Broadcast(h, p, sg, n)
<1>1. ASSUME NEW t \in Tick, StartTick(t) \/ Advance(t) PROVE Quiet \/ Sends
  <2>1. ASSUME Send(t) \/ SendThrows(t) \/ Replace(t) \/ NoReplacement(t)
        PROVE  Quiet \/ Sends
    BY <2>1 DEF Send, SendThrows, Replace, NoReplacement, chain
  <2>2. ASSUME Unmined(t) \/ Settle(t) \/ SettleThrows(t) \/ Abort(t) PROVE Quiet
    BY <2>2 DEF Unmined, Settle, SettleThrows, Abort, chain, locals
  <2>3. ASSUME ClaimInsert(t) \/ ClaimReopen(t) \/ ClaimThrows(t) \/ CountAttempt(t)
                 \/ CountThrows(t) \/ BalanceLow(t) \/ ClaimRefused(t)
        PROVE  Quiet
    BY <2>3 DEF ClaimInsert, ClaimReopen, ClaimThrows, CountAttempt, CountThrows,
                BalanceLow, ClaimRefused, chain, locals
  <2>4. ASSUME StartTick(t) \/ EndTick(t) \/ Select(t) \/ CheckCaps(t) \/ Simulate(t) \/ NoFreeSigner(t)
                 \/ Acquire(t) \/ PinNonce(t) \/ Mined(t) \/ Timeout(t)
        PROVE  Quiet
    BY <2>4 DEF StartTick, EndTick, Select, CheckCaps, Simulate, NoFreeSigner, Acquire, PinNonce,
                Mined, Timeout, chain, locals
  <2> QED
    BY <1>1, <2>1, <2>2, <2>3, <2>4 DEF Advance
<1>2. ASSUME Crash \/ HourPasses \/ (\E p \in Permit : Lapse(p))
               \/ (\E w \in Wallet : RevokeAll(w) \/ MarketMoves(w)) \/ UNCHANGED vars
      PROVE  Quiet
  BY <1>2 DEF Crash, HourPasses, Lapse, RevokeAll, MarketMoves, vars, chain
<1>3. ASSUME NEW h \in Hash, Mine(h) PROVE ExitsSpend'
  <2>1. CASE /\ Executable(tx[h].permit)
             /\ tx' = [tx EXCEPT ![h].state = "success"]
             /\ dead' = dead \union {tx[h].permit}
    BY <2>1, StateOnly DEF Executable, ExitsSpend
  <2>2. CASE tx' = [tx EXCEPT ![h].state = "reverted"] /\ UNCHANGED dead
    BY <2>2, StateOnly DEF ExitsSpend
  <2> QED
    BY <1>3, <2>1, <2>2 DEF Mine
<1>4. ASSUME NEW h \in Hash, Evict(h) PROVE ExitsSpend'
  BY <1>4, StateOnly DEF Evict, ExitsSpend
<1>5. Quiet => ExitsSpend'
  BY DEF ExitsSpend
<1>6. Sends => ExitsSpend'
  BY BroadcastKeeps
<1> QED
  BY <1>1, <1>2, <1>3, <1>4, <1>5, <1>6 DEF Next, Environment

----------------------------------------------------------------------------
(* The promise to the owner.                                              *)

(* The receipt that a pass waits for or settles is one of its permit.      *)
OwnReceipt ==
  \A t \in Tick :
    at[t] \in {"wait", "replace", "rewait", "settle"} =>
      /\ hash[t] \in Hash
      /\ tx[hash[t]].state # "unsent"
      /\ tx[hash[t]].permit = permit[t]

(* A broadcast gives a fresh hash to its permit and leaves the permits of  *)
(* the others alone.                                                       *)
LEMMA BroadcastSends ==
  ASSUME TypeInv, NEW h, NEW p, NEW s, NEW n, Broadcast(h, p, s, n)
  PROVE  /\ h \in Hash /\ tx[h].state = "unsent"
         /\ tx'[h].permit = p /\ tx'[h].state = "pending"
         /\ \A g \in Hash \ {h} :
              /\ tx'[g].permit = tx[g].permit
              /\ tx'[g].state \in {tx[g].state, "replaced"}
              /\ tx'[g].state = "success" <=> tx[g].state = "success"
<1>1. \A g \in Hash : /\ [tx[g] EXCEPT !.state = "replaced"].state = "replaced"
                      /\ [tx[g] EXCEPT !.state = "replaced"].permit = tx[g].permit
  BY DEF TypeInv, TypeOK, TxRecord
<1> QED
  BY <1>1 DEF Broadcast, Fresh

(* What a pass has sent stays sent, for the permit it was sent for.        *)
SentStays ==
  \A h \in Hash :
    tx[h].state # "unsent" => tx'[h].state # "unsent" /\ tx'[h].permit = tx[h].permit

(* No step unsends a transaction or gives it to another permit.          *)
LEMMA NextSends ==
  ASSUME TypeInv, [Next]_vars
  PROVE  SentStays
<1>1. CASE tx' = tx
  BY <1>1 DEF SentStays
<1>2. ASSUME NEW h, NEW p, NEW s, NEW n, Broadcast(h, p, s, n)
      PROVE  SentStays
  BY <1>2, BroadcastSends DEF SentStays
<1>3. ASSUME NEW h \in Hash, Mine(h) \/ Evict(h)
      PROVE  SentStays
  BY <1>3, StateOnly DEF Mine, Evict, SentStays
<1>4. ASSUME NEW t \in Tick, StartTick(t) \/ Advance(t)
      PROVE  tx' = tx \/ \E h, p, s, n : Broadcast(h, p, s, n)
  <2>1. CASE Send(t) \/ SendThrows(t) \/ Replace(t) \/ NoReplacement(t)
    BY <2>1 DEF Send, SendThrows, Replace, NoReplacement, chain
  <2>2. CASE \/ StartTick(t) \/ EndTick(t) \/ Select(t) \/ CheckCaps(t) \/ Simulate(t) \/ NoFreeSigner(t)
             \/ Acquire(t) \/ PinNonce(t) \/ Mined(t) \/ Timeout(t)
    BY <2>2 DEF StartTick, EndTick, Select, CheckCaps, Simulate, NoFreeSigner, Acquire, PinNonce,
                Mined, Timeout, chain, locals
  <2>3. CASE \/ ClaimInsert(t) \/ ClaimReopen(t) \/ ClaimThrows(t) \/ CountAttempt(t)
             \/ CountThrows(t) \/ BalanceLow(t) \/ ClaimRefused(t) \/ Unmined(t)
             \/ Settle(t) \/ SettleThrows(t) \/ Abort(t)
    BY <2>3 DEF ClaimInsert, ClaimReopen, ClaimThrows, CountAttempt, CountThrows, BalanceLow,
                ClaimRefused, Unmined, Settle, SettleThrows, Abort, chain, locals
  <2> QED
    BY <1>4, <2>1, <2>2, <2>3 DEF Advance
<1>5. ASSUME Crash \/ HourPasses \/ (\E p \in Permit : Lapse(p))
               \/ (\E w \in Wallet : RevokeAll(w) \/ MarketMoves(w)) \/ UNCHANGED vars
      PROVE  tx' = tx
  BY <1>5 DEF Crash, HourPasses, Lapse, RevokeAll, MarketMoves, vars, chain
<1> QED
  BY <1>1, <1>2, <1>3, <1>4, <1>5 DEF Next, Environment

(* The receipt a pass waits for is one of the permit it works on.          *)
LEMMA ReceiptInductive ==
  ASSUME TypeInv, OwnReceipt, [Next]_vars
  PROVE  OwnReceipt'
<1> DEFINE W == {"wait", "replace", "rewait", "settle"}
<1>1. SentStays
  BY NextSends
<1>2. TypeOK
  BY DEF TypeInv
<1>3. ASSUME \A t \in Tick : at'[t] \in W =>
               at[t] \in W /\ hash'[t] = hash[t] /\ permit'[t] = permit[t]
      PROVE  OwnReceipt'
  BY <1>1, <1>3 DEF OwnReceipt, SentStays
<1> USE DEF ledger, pool, process, locals, chain
<1>4. ASSUME NEW t \in Tick, NEW l,
             at' = [at EXCEPT ![t] = l], l \notin W, UNCHANGED <<permit, hash>>
      PROVE  OwnReceipt'
  BY <1>2, <1>3, <1>4 DEF TypeOK
<1>5. ASSUME NEW t \in Tick, Drop(t)
       PROVE  OwnReceipt'
  BY <1>2, <1>3, <1>5 DEF Drop, TypeOK
<1>6. ASSUME NEW t \in Tick,
             \/ StartTick(t) \/ EndTick(t) \/ Acquire(t) \/ ClaimInsert(t) \/ ClaimReopen(t)
             \/ CountAttempt(t)
      PROVE  OwnReceipt'
  BY <1>6, <1>4
     DEF StartTick, EndTick, Acquire, ClaimInsert, ClaimReopen, CountAttempt
<1>7. ASSUME NEW t \in Tick,
              \/ NoFreeSigner(t) \/ BalanceLow(t) \/ ClaimRefused(t) \/ ClaimThrows(t)
              \/ CountThrows(t) \/ Settle(t) \/ Abort(t)
       PROVE  OwnReceipt'
  BY <1>5, <1>7
     DEF NoFreeSigner, BalanceLow, ClaimRefused, ClaimThrows, CountThrows, Settle, Abort
<1>8. ASSUME NEW t \in Tick, CheckCaps(t) \/ Simulate(t) PROVE OwnReceipt'
  BY <1>4, <1>5, <1>8 DEF CheckCaps, Simulate
<1>9. ASSUME NEW t \in Tick, PinNonce(t) PROVE OwnReceipt'
  BY <1>4, <1>5, <1>9 DEF PinNonce
<1>10. ASSUME NEW t \in Tick, Select(t) PROVE OwnReceipt'
  BY <1>2, <1>3, <1>10 DEF Select, TypeOK
<1>11. ASSUME NEW t \in Tick, SendThrows(t) \/ SettleThrows(t) PROVE OwnReceipt'
  BY <1>4, <1>11 DEF SendThrows, SettleThrows, Rewind
<1>12. ASSUME NEW t \in Tick, Unmined(t) PROVE OwnReceipt'
  BY <1>4, <1>5, <1>12 DEF Unmined, Rewind
<1>13. ASSUME NEW t \in Tick, at[t] \in W, NEW l,
              at' = [at EXCEPT ![t] = l], UNCHANGED <<permit, hash>>
       PROVE  OwnReceipt'
  BY <1>2, <1>3, <1>13 DEF TypeOK
<1>14. ASSUME NEW t \in Tick, Mined(t) \/ Timeout(t) \/ NoReplacement(t)
      PROVE  OwnReceipt'
  BY <1>14, <1>13 DEF Mined, Timeout, NoReplacement, Receipt
<1>15. ASSUME NEW t \in Tick, Send(t) \/ Replace(t)
      PROVE  OwnReceipt'
  <2>1. PICK h \in Hash : /\ Broadcast(h, permit[t], lease[t], nonce[t])
                          /\ hash' = [hash EXCEPT ![t] = h]
    BY <1>15 DEF Send, Replace
  <2>2. permit' = permit /\ \A u \in Tick \ {t} : at'[u] = at[u] /\ hash'[u] = hash[u]
    BY <1>2, <1>15, <2>1 DEF Send, Replace, TypeOK
  <2>3. hash'[t] = h /\ tx'[h].state # "unsent" /\ tx'[h].permit = permit[t]
    BY <1>2, <2>1, BroadcastSends DEF TypeOK
  <2> QED
    BY <1>1, <2>2, <2>3 DEF OwnReceipt, SentStays
<1>16. ASSUME Crash PROVE OwnReceipt'
  BY <1>16 DEF Crash, OwnReceipt
<1>17. ASSUME \/ HourPasses \/ (\E h \in Hash : Mine(h) \/ Evict(h))
             \/ (\E p \in Permit : Lapse(p))
             \/ (\E w \in Wallet : RevokeAll(w) \/ MarketMoves(w)) \/ UNCHANGED vars
      PROVE  OwnReceipt'
  BY <1>3, <1>17 DEF HourPasses, Mine, Evict, Lapse, RevokeAll, MarketMoves, vars
<1> QED
  BY <1>6, <1>14, <1>15, <1>16, <1>17, <1>7, <1>8, <1>9, <1>10, <1>11, <1>12
     DEF Next, Advance, Environment


(* A permit has been executed not at all or in one transaction.            *)
LEMMA ExitsCounted ==
  ASSUME ExitsSpend, NEW p \in Permit
  PROVE  Cardinality(Successes(p)) = IF Successes(p) = {} THEN 0 ELSE 1
<1>1. CASE Successes(p) = {}
  BY <1>1, FS_EmptySet
<1>2. CASE Successes(p) # {}
  <2>1. PICK h \in Successes(p) : TRUE
    BY <1>2
  <2>2. Successes(p) = {h}
    BY <2>1 DEF ExitsSpend, Successes
  <2>3. Cardinality({h}) = 1
    BY FS_Singleton
  <2> QED
    BY <1>2, <2>2, <2>3, Zenon
<1> QED
  BY <1>1, <1>2

(* What the mapping makes of a step: the executions, the voided permits,   *)
(* the reports.                                                            *)
SameExits   == \A p \in Permit : Successes(p)' = Successes(p)
SameReports == \A p \in Permit : status'[p] = "succeeded" <=> status[p] = "succeeded"

(* A step that keeps all three is one ExitOnce does not see.             *)
LEMMA Stutters ==
  ASSUME SameExits, SameReports, dead \subseteq Permit, dead' = dead
  PROVE  UNCHANGED Promise!vars
BY DEF SameExits, SameReports, Promise!vars

(* The executions of a permit are the same when no transaction begins or *)
(* ceases to be successful.                                              *)
LEMMA SameStatesSameExits ==
  ASSUME \A h \in Hash :
           /\ tx'[h].state = "success" <=> tx[h].state = "success"
           /\ tx[h].state = "success" => tx'[h].permit = tx[h].permit
  PROVE  SameExits
BY DEF SameExits, Successes

(* The writes to the row of a permit are reports, or take one back.        *)
LEMMA FailureWithdraws ==
  ASSUME TypeInv, NEW p \in Permit, UNCHANGED <<tx, dead>>,
         status' = [status EXCEPT ![p] = "failed"]
  PROVE  Promise!Next
<1>1. Promise!Withdraw(p)
  BY DEF Promise!Withdraw, TypeInv, TypeOK, Successes
<1> QED
  BY <1>1 DEF Promise!Next

(* A success is written for a permit whose transaction succeeded.        *)
LEMMA SuccessReports ==
  ASSUME TypeInv, ExitsSpend, NEW p \in Permit, UNCHANGED <<tx, dead>>,
         NEW h \in Hash, tx[h].permit = p, tx[h].state = "success",
         status' = [status EXCEPT ![p] = "succeeded"]
  PROVE  Promise!Next
<1>1. Cardinality(Successes(p)) = 1
  <2>1. Successes(p) # {}
    BY DEF Successes
  <2> QED
    BY <2>1, ExitsCounted
<1>2. Promise!Report(p)
  BY <1>1 DEF Promise!Report, TypeInv, TypeOK, Successes
<1> QED
  BY <1>2 DEF Promise!Next

(* A transaction that succeeds exits its permit, which is live.            *)
LEMMA ExecutionExits ==
  ASSUME TypeInv, ExitsSpend, ExitsSpend', NEW h \in Hash, NEW p \in Permit,
         tx[h].permit = p, tx[h].state = "pending", p \notin dead,
         tx' = [tx EXCEPT ![h].state = "success"], dead' = dead \union {p},
         UNCHANGED status
  PROVE  Promise!Next
<1>1. /\ tx'[h].state = "success" /\ tx'[h].permit = p
      /\ \A g \in Hash \ {h} : tx'[g] = tx[g]
  BY StateOnly
<1>2. \A q \in Permit \ {p} : Successes(q)' = Successes(q)
  BY <1>1 DEF Successes
<1>3. Successes(p) = {} /\ Successes(p)' # {}
  BY <1>1 DEF ExitsSpend, Successes
<1>4. Cardinality(Successes(p)) = 0 /\ Cardinality(Successes(p)') = 1
  <2>1. Cardinality(Successes(p)) = IF Successes(p) = {} THEN 0 ELSE 1
    BY ExitsCounted
  <2>2. Successes(p)' = {h}
    BY <1>1 DEF ExitsSpend, Successes
  <2>3. Cardinality({h}) = 1
    BY FS_Singleton
  <2> QED
    BY <1>3, <2>1, <2>2, <2>3
<1>5. {q \in dead : Successes(q) = {}}' = {q \in dead : Successes(q) = {}}
  BY <1>2, <1>3 DEF TypeInv, TypeOK
<1>6. [q \in Permit |-> Cardinality(Successes(q))]'
        = [[q \in Permit |-> Cardinality(Successes(q))] EXCEPT ![p] = 1]
  BY <1>2, <1>4
<1>7. Promise!Exit(p)
  BY <1>4, <1>5, <1>6 DEF Promise!Exit
<1> QED
  BY <1>7 DEF Promise!Next

(* Permits that lapse or are revoked are voided unless they were used.     *)
LEMMA LapseVoids ==
  ASSUME TypeInv, ExitsSpend, NEW ps \in SUBSET Permit,
         dead' = dead \union ps, UNCHANGED <<tx, status>>
  PROVE  Promise!Next
<1>1. \A p \in Permit : Successes(p)' = Successes(p)
  BY DEF Successes
<1>2. \A p \in Permit : Cardinality(Successes(p)) = 0 <=> Successes(p) = {}
  BY ExitsCounted
<1>3. {p \in dead : Successes(p) = {}}'
        = {p \in dead : Successes(p) = {}} \union {p \in ps : Successes(p) = {}}
  BY <1>1 DEF TypeInv, TypeOK
<1>4. Promise!Void(ps)
  BY <1>1, <1>2, <1>3 DEF Promise!Void
<1> QED
  BY <1>4 DEF Promise!Next

(* Every step of the relayer is one of ExitOnce or is not seen by it.    *)
LEMMA StepImplements ==
  ASSUME TypeInv, ExitsSpend, OwnReceipt, [Next]_vars
  PROVE  [Promise!Next]_(Promise!vars)
<1> DEFINE Goal == [Promise!Next]_(Promise!vars)
<1> USE DEF ledger, pool, process, locals, chain
<1>1. TypeOK /\ ExitsSpend'
  BY ExitsInductive DEF TypeInv
<1>2. ASSUME SameReports, UNCHANGED <<tx, dead>>
      PROVE  Goal
  BY <1>1, <1>2, Stutters DEF SameExits, Successes, TypeOK
<1>3. ASSUME SameReports, UNCHANGED dead, NEW h, NEW p, NEW s, NEW n, Broadcast(h, p, s, n)
      PROVE  Goal
  <2>1. \A g \in Hash :
          /\ tx'[g].state = "success" <=> tx[g].state = "success"
          /\ tx[g].state = "success" => tx'[g].permit = tx[g].permit
    BY <1>3, BroadcastSends
  <2> QED
    BY <1>1, <1>3, <2>1, SameStatesSameExits, Stutters DEF TypeOK
<1>4. ASSUME NEW t \in Tick,
             \/ StartTick(t) \/ EndTick(t) \/ Select(t) \/ CheckCaps(t) \/ Simulate(t) \/ NoFreeSigner(t)
             \/ Acquire(t) \/ PinNonce(t) \/ BalanceLow(t) \/ ClaimRefused(t)
             \/ CountAttempt(t) \/ CountThrows(t) \/ Mined(t) \/ Timeout(t)
      PROVE  Goal
  <2>1. UNCHANGED <<status, tx, dead>>
    BY <1>4 DEF StartTick, EndTick, Select, CheckCaps, Simulate, NoFreeSigner, Acquire, PinNonce, BalanceLow,
                ClaimRefused, CountAttempt, CountThrows, Mined, Timeout
  <2> QED
    BY <1>2, <2>1 DEF SameReports
<1>5. ASSUME NEW t \in Tick, ClaimInsert(t) \/ ClaimReopen(t) \/ ClaimThrows(t)
      PROVE  Goal
  <2>1. UNCHANGED <<tx, dead>>
    BY <1>5 DEF ClaimInsert, ClaimReopen, ClaimThrows
  <2>2. UNCHANGED status \/ InsertRow(permit[t]) \/ ReopenRow(permit[t])
    BY <1>5 DEF ClaimInsert, ClaimReopen, ClaimThrows
  <2>3. SameReports
    BY <1>1, <2>2 DEF SameReports, InsertRow, ReopenRow, TypeOK, None
  <2> QED
    BY <1>2, <2>1, <2>3
<1>6. ASSUME NEW t \in Tick, Send(t) \/ SendThrows(t) \/ Replace(t) \/ NoReplacement(t)
      PROVE  Goal
  <2>1. \/ UNCHANGED <<tx, dead>>
        \/ UNCHANGED dead /\ \E h \in Hash : Broadcast(h, permit[t], lease[t], nonce[t])
    BY <1>6 DEF Send, SendThrows, Replace, NoReplacement, Broadcast
  <2>2. SameReports
    BY <1>6 DEF Send, SendThrows, Replace, NoReplacement, SameReports
  <2> QED
    BY <1>2, <1>3, <2>1, <2>2
<1>7. ASSUME NEW t \in Tick, Unmined(t) \/ Abort(t)
      PROVE  Goal
  <2>1. UNCHANGED <<tx, dead>> /\ permit[t] \in Permit
    BY <1>7 DEF Unmined, Abort, TypeInv, HasPermit, Working, Claiming
  <2>2. UNCHANGED status \/ status' = [status EXCEPT ![permit[t]] = "failed"]
    BY <1>7 DEF Unmined, Abort, FinishRow, FinishThrows
  <2> QED
    BY <1>2, <2>1, <2>2, FailureWithdraws DEF SameReports
<1>8. ASSUME NEW t \in Tick, Settle(t) \/ SettleThrows(t)
      PROVE  Goal
  <2>1. /\ UNCHANGED <<tx, dead>> /\ permit[t] \in Permit
        /\ hash[t] \in Hash /\ tx[hash[t]].permit = permit[t]
    BY <1>8 DEF Settle, SettleThrows, TypeInv, HasPermit, Working, Claiming, OwnReceipt
  <2>2. UNCHANGED status \/ status' = [status EXCEPT ![permit[t]] = Outcome(hash[t])]
    BY <1>8 DEF Settle, SettleThrows, FinishRow, FinishThrows
  <2>3. CASE tx[hash[t]].state = "success"
    BY <1>2, <2>1, <2>2, <2>3, SuccessReports DEF Outcome, SameReports
  <2>4. CASE tx[hash[t]].state # "success"
    BY <1>2, <2>1, <2>2, <2>4, FailureWithdraws DEF Outcome, SameReports
  <2> QED
    BY <2>3, <2>4
<1>9. ASSUME NEW h \in Hash, Mine(h) \/ Evict(h)
      PROVE  Goal
  <2>1. UNCHANGED status /\ tx[h].state = "pending" /\ tx[h].permit \in Permit
    BY <1>9 DEF Mine, Evict, TypeInv, SentForPermit
  <2>2. CASE /\ Executable(tx[h].permit)
             /\ tx' = [tx EXCEPT ![h].state = "success"]
             /\ dead' = dead \union {tx[h].permit}
    BY <1>1, <2>1, <2>2, ExecutionExits DEF Executable
  <2>3. ASSUME NEW st, st # "success", tx' = [tx EXCEPT ![h].state = st], UNCHANGED dead
        PROVE  Goal
    <3>1. SameExits
      BY <2>1, <2>3, StateOnly, SameStatesSameExits
    <3> QED
      BY <1>1, <2>1, <2>3, <3>1, Stutters DEF SameReports, TypeOK
  <2> QED
    BY <1>9, <2>2, <2>3 DEF Mine, Evict
<1>10. ASSUME \/ \E p \in Permit : Lapse(p)
              \/ \E w \in Wallet : RevokeAll(w)
       PROVE  Goal
  <2>1. \E ps \in SUBSET Permit : dead' = dead \union ps
    BY <1>10 DEF Lapse, RevokeAll
  <2>2. UNCHANGED <<tx, status>>
    BY <1>10 DEF Lapse, RevokeAll
  <2> QED
    BY <2>1, <2>2, LapseVoids
<1>11. ASSUME \/ Crash \/ HourPasses \/ (\E w \in Wallet : MarketMoves(w)) \/ UNCHANGED vars
       PROVE  Goal
  BY <1>2, <1>11 DEF Crash, HourPasses, MarketMoves, vars, SameReports
<1> QED
  BY <1>4, <1>5, <1>6, <1>7, <1>8, <1>9, <1>10, <1>11 DEF Next, Advance, Environment

(* Under every fault and any number of crashes the relayer keeps the       *)
(* promise of ExitOnce.                                                    *)
THEOREM Implementation == Spec => ImplementsExitOnce
<1>1. Init => Promise!Init
  <2> SUFFICES ASSUME Init PROVE Promise!Init
    OBVIOUS
  <2>1. \A p \in Permit : Successes(p) = {}
    BY DEF Init, Successes, Unsent
  <2>2. \A p \in Permit : Cardinality(Successes(p)) = 0
    BY <2>1, FS_EmptySet
  <2> QED
    BY <2>2 DEF Init, Promise!Init, None
<1>2. Init => ExitsSpend /\ OwnReceipt
  BY DEF Init, ExitsSpend, Unsent, OwnReceipt
<1> QED
  BY <1>1, <1>2, TypeInvariance, ExitsInductive, ReceiptInductive, StepImplements, PTL
     DEF Spec, ImplementsExitOnce, Promise!Spec

----------------------------------------------------------------------------
(* The attempt counter.                                                    *)

(* A broadcast gives a fresh hash to its permit and slot and leaves those  *)
(* of the others alone.                                                    *)
LEMMA BroadcastSlot ==
  ASSUME TypeInv, NEW h, NEW p, NEW s, NEW n, Broadcast(h, p, s, n)
  PROVE  /\ tx'[h].signer = s /\ tx'[h].nonce = n
         /\ \A g \in Hash \ {h} : tx'[g].signer = tx[g].signer /\ tx'[g].nonce = tx[g].nonce
<1>1. \A g \in Hash : /\ [tx[g] EXCEPT !.state = "replaced"].signer = tx[g].signer
                      /\ [tx[g] EXCEPT !.state = "replaced"].nonce = tx[g].nonce
  BY DEF TypeInv, TypeOK, TxRecord
<1> QED
  BY <1>1 DEF Broadcast, Fresh

(* A change of a transaction's state leaves it in its slot.              *)
LEMMA StateSlot ==
  ASSUME TypeInv, NEW h \in Hash, NEW st, tx' = [tx EXCEPT ![h].state = st]
  PROVE  tx'[h].signer = tx[h].signer /\ tx'[h].nonce = tx[h].nonce
BY DEF TypeInv, TypeOK, TxRecord

(* The await points after the first broadcast, while the lease is held.    *)
Sent == {"wait", "replace", "rewait", "unmined"}

(* How many slots the broadcasts of p have taken.                          *)
Count(p) == Cardinality(SlotsOf(p))

(* The inductive invariant: an attempt takes its one slot when it sends,   *)
(* and is counted before.                                                  *)
NoBlankPermit == \A h \in Hash : tx[h].state = "unsent" => tx[h].permit = None

CountedRow(p) ==
  /\ IsFiniteSet(SlotsOf(p))
  /\ Count(p) <= attempts[p]
  /\ attempts[p] <= IF MaxAttempts = 0 THEN 1 ELSE MaxAttempts
  /\ status[p] = None => Count(p) = 0

CountedPass(t) ==
  /\ at[t] = "bump" => seen[t] = attempts[permit[t]] /\ attempts[permit[t]] < MaxAttempts
  /\ at[t] = "send" => Count(permit[t]) < attempts[permit[t]]
  /\ at[t] \in Sent => <<lease[t], nonce[t]>> \in SlotsOf(permit[t])

RowCounts ==
  /\ NoBlankPermit
  /\ \A p \in Permit : CountedRow(p)
  /\ \A t \in Tick : CountedPass(t)

(* A step that gives no permit a new slot.                                 *)
SameSlots == \A p \in Permit : SlotsOf(p)' = SlotsOf(p)

(* A broadcast adds its slot to those of its permit, and to no other's.  *)
LEMMA BroadcastCounts ==
  ASSUME TypeInv, NoBlankPermit, NEW h, NEW p \in Permit, NEW s, NEW n, Broadcast(h, p, s, n)
  PROVE  /\ NoBlankPermit'
         /\ SlotsOf(p)' = SlotsOf(p) \union {<<s, n>>}
         /\ \A q \in Permit \ {p} : SlotsOf(q)' = SlotsOf(q)
<1>1. /\ h \in Hash /\ tx[h].permit \notin Permit
      /\ tx'[h].permit = p /\ tx'[h].state = "pending"
      /\ Slot(h)' = <<s, n>>
  BY BroadcastSends, BroadcastSlot, NoneIsNoPermit DEF NoBlankPermit, Slot
<1>2. \A g \in Hash \ {h} :
        tx'[g].permit = tx[g].permit /\ tx'[g].state \in {tx[g].state, "replaced"} /\ Slot(g)' = Slot(g)
  BY BroadcastSends, BroadcastSlot DEF Slot
<1>3. NoBlankPermit'
  BY <1>1, <1>2 DEF NoBlankPermit
<1>4. {g \in Hash : tx[g].permit = p}' = {g \in Hash : tx[g].permit = p} \union {h}
  BY <1>1, <1>2
<1>5. \A q \in Permit \ {p} : {g \in Hash : tx[g].permit = q}' = {g \in Hash : tx[g].permit = q}
  BY <1>1, <1>2
<1>6. SlotsOf(p)' = SlotsOf(p) \union {<<s, n>>}
  BY <1>1, <1>2, <1>4 DEF SlotsOf
<1>7. \A q \in Permit \ {p} : SlotsOf(q)' = SlotsOf(q)
  BY <1>1, <1>2, <1>5 DEF SlotsOf
<1> QED
  BY <1>3, <1>6, <1>7

(* Mining and eviction change nobody's slots.                            *)
LEMMA StateCounts ==
  ASSUME TypeInv, NoBlankPermit, NEW h \in Hash, tx[h].state # "unsent",
         NEW st, st # "unsent", tx' = [tx EXCEPT ![h].state = st]
  PROVE  NoBlankPermit' /\ SameSlots
<1>1. \A g \in Hash : /\ tx'[g].permit = tx[g].permit /\ Slot(g)' = Slot(g)
                      /\ tx'[g].state = "unsent" => tx[g].state = "unsent"
  BY StateOnly, StateSlot DEF Slot
<1> QED
  BY <1>1 DEF NoBlankPermit, SameSlots, SlotsOf

(* The ledger answers and neither counts an attempt for nothing nor misses *)
(* one: the inductive step of AttemptsBound.                               *)
LEMMA CountsInductive ==
  ASSUME "store" \notin Faults, "reply" \notin Faults,
         TypeInv, ClaimExclusive, RowCounts, [Next]_vars
  PROVE  RowCounts'
<1> USE DEF ledger, pool, process, locals, chain
<1>1. TypeOK /\ HasPermit
  BY DEF TypeInv
(* A step that neither counts nor sends, and moves nobody to a counted     *)
(* await point.                                                            *)
<1>2. ASSUME NoBlankPermit', SameSlots, attempts' = attempts,
             \A p \in Permit : status'[p] = None => status[p] = None,
             \A t \in Tick : at'[t] \in {"bump", "send"} \union Sent =>
               /\ at'[t] = at[t] \/ (at[t] \in Sent /\ at'[t] \in Sent)
               /\ permit'[t] = permit[t] /\ lease'[t] = lease[t]
               /\ nonce'[t] = nonce[t] /\ seen'[t] = seen[t]
      PROVE  RowCounts'
  <2>1. \A t \in Tick : at'[t] \in {"bump", "send"} \union Sent => permit[t] \in Permit
    BY <1>1, <1>2 DEF HasPermit, Working, Claiming, Sent
  <2>2. \A p \in Permit : CountedRow(p)'
    BY <1>2 DEF RowCounts, CountedRow, Count, SameSlots
  <2>3. ASSUME NEW t \in Tick PROVE CountedPass(t)'
    BY <1>2, <2>1 DEF RowCounts, CountedPass, Count, SameSlots, Sent
  <2> QED
    BY <1>2, <2>2, <2>3 DEF RowCounts
<1>3. UNCHANGED tx => NoBlankPermit' /\ SameSlots
  BY DEF RowCounts, NoBlankPermit, SameSlots, SlotsOf, Slot
<1>4. ASSUME NEW t \in Tick,
             \/ StartTick(t) \/ EndTick(t) \/ Select(t) \/ CheckCaps(t) \/ Simulate(t) \/ NoFreeSigner(t)
             \/ Acquire(t) \/ PinNonce(t) \/ BalanceLow(t) \/ ClaimRefused(t)
             \/ ClaimThrows(t) \/ CountThrows(t) \/ Unmined(t)
             \/ Settle(t) \/ SettleThrows(t) \/ Abort(t)
      PROVE  RowCounts'
  <2>1. UNCHANGED <<attempts, tx>>
    BY <1>4 DEF StartTick, EndTick, Select, CheckCaps, Simulate, NoFreeSigner, Acquire, PinNonce, BalanceLow,
         ClaimRefused, ClaimThrows, CountThrows, Unmined, Settle, SettleThrows, Abort,
         FinishRow, FinishThrows
  <2>2. /\ \A u \in Tick \ {t} :
             /\ at'[u] = at[u] /\ permit'[u] = permit[u] /\ lease'[u] = lease[u]
             /\ nonce'[u] = nonce[u] /\ seen'[u] = seen[u]
        /\ at'[t] \notin {"bump", "send"} \union Sent
    <3> USE <1>1 DEF TypeOK, Sent
    <3>1. CASE Drop(t)
      BY <3>1 DEF Drop
    <3>2. CASE Rewind(t) /\ UNCHANGED <<permit, seen>>
      BY <3>2 DEF Rewind
    <3>3. CASE StartTick(t) \/ EndTick(t) \/ Select(t)
      BY <3>3 DEF StartTick, EndTick, Select
    <3>4. CASE CheckCaps(t) \/ Simulate(t) \/ NoFreeSigner(t)
      BY <3>1, <3>4 DEF CheckCaps, Simulate, NoFreeSigner
    <3>5. CASE Acquire(t) \/ PinNonce(t)
      BY <3>1, <3>5 DEF Acquire, PinNonce
    <3>6. CASE SettleThrows(t)
      BY <3>6 DEF SettleThrows
    <3>7. CASE \/ BalanceLow(t) \/ ClaimRefused(t) \/ ClaimThrows(t) \/ CountThrows(t)
               \/ Unmined(t) \/ Settle(t) \/ Abort(t)
      BY <3>1, <3>2, <3>7 DEF BalanceLow, ClaimRefused, ClaimThrows, CountThrows, Unmined,
           Settle, Abort
    <3> QED
      BY <1>4, <3>3, <3>4, <3>5, <3>6, <3>7
  <2>3. \/ UNCHANGED status
        \/ \E r : r # None /\ status' = [status EXCEPT ![permit[t]] = r]
    BY <1>4 DEF StartTick, EndTick, Select, CheckCaps, Simulate, NoFreeSigner, Acquire, PinNonce, BalanceLow,
         ClaimRefused, ClaimThrows, CountThrows, Unmined, Settle, SettleThrows, Abort,
         FinishRow, FinishThrows, Outcome
  <2> QED
    BY <1>1, <1>2, <1>3, <2>1, <2>2, <2>3 DEF TypeOK
<1>5. ASSUME NEW t \in Tick, ClaimInsert(t) PROVE RowCounts'
  <2> DEFINE p == permit[t]
  <2>1. /\ p \in Permit /\ status[p] = None /\ UNCHANGED <<tx, permit, lease, nonce, seen>>
        /\ at' = [at EXCEPT ![t] = "send"]
        /\ status' = [status EXCEPT ![p] = "in_flight"]
        /\ attempts' = [attempts EXCEPT ![p] = 1]
    BY <1>1, <1>5 DEF ClaimInsert, InsertRow, HasPermit, Working, Leasing
  <2>2. \A u \in Tick : at[u] \in Claiming => permit[u] # p
    BY <2>1 DEF ClaimExclusive
  <2>3. SlotsOf(p)' = SlotsOf(p) /\ Count(p) = 0 /\ SameSlots /\ NoBlankPermit'
    BY <1>3, <2>1 DEF RowCounts, CountedRow, SameSlots
  <2>4. \A q \in Permit : CountedRow(q)'
    BY <1>1, <2>1, <2>3, ConstantsOK DEF RowCounts, CountedRow, Count, SameSlots, TypeOK
  <2>5. CountedPass(t)'
    BY <1>1, <2>1, <2>3 DEF CountedPass, Count, Sent, TypeOK
  <2>6. ASSUME NEW u \in Tick \ {t} PROVE CountedPass(u)'
    <3>1. at'[u] = at[u]
      BY <1>1, <2>1 DEF TypeOK
    <3>2. at[u] \in {"bump", "send"} \union Sent => permit[u] \in Permit \ {p}
      BY <1>1, <2>2 DEF HasPermit, Working, Claiming, Sent
    <3> QED
      BY <1>1, <2>1, <2>3, <3>1, <3>2 DEF RowCounts, CountedPass, Count, SameSlots, TypeOK
  <2> QED
    BY <2>3, <2>4, <2>5, <2>6 DEF RowCounts
<1>6. ASSUME NEW t \in Tick, ClaimReopen(t) PROVE RowCounts'
  <2> DEFINE p == permit[t]
  <2>1. /\ p \in Permit /\ UNCHANGED <<tx, permit, lease, nonce, attempts>>
        /\ status[p] = "failed" /\ attempts[p] < MaxAttempts
        /\ at' = [at EXCEPT ![t] = "bump"]
        /\ status' = [status EXCEPT ![p] = "in_flight"]
        /\ seen' = [seen EXCEPT ![t] = attempts[p]]
    BY <1>1, <1>6 DEF ClaimReopen, ReopenRow, HasPermit, Working, Leasing
  <2>2. SameSlots /\ NoBlankPermit'
    BY <1>3, <2>1
  <2>3. \A q \in Permit : CountedRow(q)'
    BY <1>1, <2>1, <2>2 DEF RowCounts, CountedRow, Count, SameSlots, TypeOK
  <2>4. CountedPass(t)'
    BY <1>1, <2>1 DEF CountedPass, Sent, TypeOK
  <2>5. ASSUME NEW u \in Tick \ {t} PROVE CountedPass(u)'
    <3>1. at'[u] = at[u] /\ seen'[u] = seen[u]
      BY <1>1, <2>1 DEF TypeOK
    <3>2. at[u] \in {"bump", "send"} \union Sent => permit[u] \in Permit
      BY <1>1 DEF HasPermit, Working, Claiming, Sent
    <3> QED
      BY <2>1, <2>2, <3>1, <3>2 DEF RowCounts, CountedPass, Count, SameSlots
  <2> QED
    BY <2>2, <2>3, <2>4, <2>5 DEF RowCounts
<1>7. ASSUME NEW t \in Tick, CountAttempt(t) PROVE RowCounts'
  <2> DEFINE p == permit[t]
  <2>1. /\ p \in Permit /\ UNCHANGED <<tx, permit, lease, nonce, status>>
        /\ seen[t] = attempts[p] /\ attempts[p] < MaxAttempts
        /\ at[t] = "bump" /\ at' = [at EXCEPT ![t] = "send"]
        /\ attempts' = [attempts EXCEPT ![p] = attempts[p] + 1]
    BY <1>1, <1>7 DEF CountAttempt, HasPermit, Working, Claiming, RowCounts, CountedPass
  <2>2. \A u \in Tick \ {t} : at[u] \in Claiming => permit[u] # p
    BY <2>1 DEF ClaimExclusive, Claims, Claiming
  <2>3. SameSlots /\ NoBlankPermit'
    BY <1>3, <2>1
  <2>4. \A q \in Permit : Count(q) \in Nat /\ attempts[q] \in Nat
    BY <1>1, FS_CardinalityType DEF RowCounts, CountedRow, Count, TypeOK
  <2>5. \A q \in Permit : CountedRow(q)'
    BY <1>1, <2>1, <2>3, <2>4, ConstantsOK DEF RowCounts, CountedRow, Count, SameSlots, TypeOK
  <2>6. CountedPass(t)'
    BY <1>1, <2>1, <2>3, <2>4 DEF RowCounts, CountedRow, CountedPass, Count, SameSlots, Sent, TypeOK
  <2>7. ASSUME NEW u \in Tick \ {t} PROVE CountedPass(u)'
    <3>1. at'[u] = at[u] /\ seen'[u] = seen[u]
      BY <1>1, <1>7, <2>1 DEF CountAttempt, TypeOK
    <3>2. at[u] \in {"bump", "send"} \union Sent => permit[u] \in Permit \ {p}
      BY <1>1, <2>2 DEF HasPermit, Working, Claiming, Sent
    <3> QED
      BY <1>1, <2>1, <2>3, <3>1, <3>2 DEF RowCounts, CountedPass, Count, SameSlots, TypeOK
  <2> QED
    BY <2>3, <2>5, <2>6, <2>7 DEF RowCounts
(* The first broadcast of an attempt uses the one slot it may add, a       *)
(* replacement none.                                                       *)
<1>8. ASSUME NEW t \in Tick, at[t] \in {"send", "replace"}, NEW h, NEW p \in Permit, NEW x,
             p = permit[t], x = <<lease[t], nonce[t]>>,
             Broadcast(h, permit[t], lease[t], nonce[t]),
             UNCHANGED <<status, attempts, permit, seen>>,
             \A u \in Tick \ {t} : at'[u] = at[u] /\ lease'[u] = lease[u] /\ nonce'[u] = nonce[u],
             at'[t] \in Sent \union {"abort"},
             at'[t] \in Sent => lease'[t] = lease[t] /\ nonce'[t] = nonce[t]
      PROVE  RowCounts'
  <2>1. status[p] = "in_flight"
    BY <1>1, <1>8 DEF HasPermit, Working, Claiming, ClaimExclusive
  <2>2. \A u \in Tick \ {t} : at[u] \in Claiming => permit[u] # p
    BY <1>8 DEF ClaimExclusive, Claims, Claiming, Sent
  <2>3. /\ NoBlankPermit' /\ SlotsOf(p)' = SlotsOf(p) \union {x}
        /\ \A q \in Permit \ {p} : SlotsOf(q)' = SlotsOf(q)
    BY <1>8, BroadcastCounts DEF RowCounts
  <2>4. /\ IsFiniteSet(SlotsOf(p)) /\ IsFiniteSet(SlotsOf(p) \union {x})
        /\ Count(p) \in Nat /\ attempts[p] \in Nat
        /\ Cardinality(SlotsOf(p) \union {x}) <= attempts[p]
    <3>1. IsFiniteSet(SlotsOf(p)) /\ Count(p) <= attempts[p] /\ attempts[p] \in Nat
      BY <1>1, <2>1 DEF RowCounts, CountedRow, TypeOK
    <3>2. Count(p) \in Nat
      BY <3>1, FS_CardinalityType DEF Count
    <3>3. /\ IsFiniteSet(SlotsOf(p) \union {x})
          /\ Cardinality(SlotsOf(p) \union {x})
               = IF x \in SlotsOf(p) THEN Count(p) ELSE Count(p) + 1
      BY <3>1, FS_AddElement DEF Count
    <3>4. x \in SlotsOf(p) \/ Count(p) < attempts[p]
      BY <1>8 DEF RowCounts, CountedPass, Sent
    <3> QED
      BY <3>1, <3>2, <3>3, <3>4
  <2>5. CountedRow(p)'
    BY <1>8, <2>1, <2>3, <2>4 DEF RowCounts, CountedRow, Count
  <2>6. \A q \in Permit \ {p} : CountedRow(q)'
    BY <1>8, <2>3 DEF RowCounts, CountedRow, Count
  <2>7. CountedPass(t)'
    BY <1>8, <2>3 DEF CountedPass, Sent
  <2>8. ASSUME NEW u \in Tick \ {t} PROVE CountedPass(u)'
    <3>1. at[u] \in {"bump", "send"} \union Sent => permit[u] \in Permit \ {p}
      BY <1>1, <2>2 DEF HasPermit, Working, Claiming, Sent
    <3> QED
      BY <1>8, <2>3, <3>1 DEF RowCounts, CountedPass, Count
  <2> QED
    BY <2>3, <2>5, <2>6, <2>7, <2>8 DEF RowCounts
<1>9. ASSUME NEW t \in Tick, Send(t) \/ Replace(t) PROVE RowCounts'
  BY <1>1, <1>8, <1>9 DEF Send, Replace, Sent, HasPermit, Working, Claiming, TypeOK
<1>10. ASSUME NEW t \in Tick, SendThrows(t) PROVE RowCounts'
  <2>1. /\ \A u \in Tick \ {t} : at'[u] = at[u] /\ lease'[u] = lease[u] /\ nonce'[u] = nonce[u]
        /\ at[t] = "send" /\ at'[t] = "abort" /\ UNCHANGED <<status, attempts, permit, seen>>
    BY <1>1, <1>10 DEF SendThrows, Rewind, TypeOK
  <2>2. CASE UNCHANGED tx
    BY <1>2, <1>3, <2>1, <2>2 DEF Sent
  <2>3. CASE \E h \in Hash : Broadcast(h, permit[t], lease[t], nonce[t])
    BY <1>1, <1>8, <2>1, <2>3 DEF Sent, HasPermit, Working, Claiming
  <2> QED
    BY <1>10, <2>2, <2>3 DEF SendThrows
<1>11. ASSUME NEW t \in Tick, Mined(t) \/ Timeout(t) PROVE RowCounts'
  <2>1. UNCHANGED <<tx, status, attempts>>
    BY <1>11 DEF Mined, Timeout
  <2>2. \A u \in Tick : at'[u] \in {"bump", "send"} \union Sent =>
               /\ at'[u] = at[u] \/ (at[u] \in Sent /\ at'[u] \in Sent)
               /\ permit'[u] = permit[u] /\ lease'[u] = lease[u]
               /\ nonce'[u] = nonce[u] /\ seen'[u] = seen[u]
    <3>1. CASE Mined(t)
      BY <1>1, <3>1 DEF Mined, Receipt, Sent, TypeOK
    <3>2. CASE Timeout(t)
      BY <1>1, <3>2 DEF Timeout, Sent, TypeOK
    <3> QED
      BY <1>11, <3>1, <3>2
  <2> QED
    BY <1>2, <1>3, <2>1, <2>2
<1>12. ASSUME NEW t \in Tick, NoReplacement(t) PROVE RowCounts'
  <2>1. UNCHANGED <<status, attempts, permit, seen>> /\ at[t] = "replace"
    BY <1>12 DEF NoReplacement, Receipt
  <2>2. CASE Receipt(t) /\ UNCHANGED chain
    <3>1. \A u \in Tick : at'[u] \in {"bump", "send"} \union Sent =>
               /\ at'[u] = at[u]
               /\ permit'[u] = permit[u] /\ lease'[u] = lease[u]
               /\ nonce'[u] = nonce[u] /\ seen'[u] = seen[u]
      BY <1>1, <2>2 DEF Receipt, Sent, TypeOK
    <3> QED
      BY <1>2, <1>3, <2>1, <2>2, <3>1
  <2>3. CASE at' = [at EXCEPT ![t] = "unmined"] /\ UNCHANGED <<lease, nonce, tx>>
    <3>1. \A u \in Tick : at'[u] = at[u] \/ (at[u] \in Sent /\ at'[u] \in Sent)
      BY <1>1, <2>1, <2>3 DEF Sent, TypeOK
    <3> QED
      BY <1>2, <1>3, <2>1, <2>3, <3>1
  <2>4. CASE /\ at' = [at EXCEPT ![t] = "unmined"] /\ UNCHANGED <<lease, nonce>>
             /\ \E h \in Hash : Broadcast(h, permit[t], lease[t], nonce[t])
    BY <1>1, <1>8, <2>1, <2>4 DEF Sent, HasPermit, Working, Claiming, TypeOK
  <2> QED
    BY <1>12, <2>2, <2>3, <2>4 DEF NoReplacement
<1>13. ASSUME NEW h \in Hash, Mine(h) \/ Evict(h) PROVE RowCounts'
  <2>1. \E st : /\ st # "unsent" /\ tx[h].state # "unsent"
                /\ tx' = [tx EXCEPT ![h].state = st]
    BY <1>13 DEF Mine, Evict
  <2>2. NoBlankPermit' /\ SameSlots
    BY <2>1, StateCounts DEF RowCounts
  <2>3. UNCHANGED <<ledger, process, at, locals>>
    BY <1>13 DEF Mine, Evict
  <2> QED
    BY <1>2, <2>2, <2>3
<1>14. ASSUME Crash PROVE RowCounts'
  <2>1. UNCHANGED <<tx, status, attempts>> /\ \A t \in Tick : at'[t] = "off"
    BY <1>14 DEF Crash
  <2> QED
    BY <1>2, <1>3, <2>1 DEF Sent
<1>15. ASSUME \/ HourPasses \/ (\E p \in Permit : Lapse(p))
              \/ (\E w \in Wallet : RevokeAll(w) \/ MarketMoves(w)) \/ UNCHANGED vars
       PROVE  RowCounts'
  <2>1. UNCHANGED <<ledger, at, locals, tx>>
    BY <1>15 DEF HourPasses, Lapse, RevokeAll, MarketMoves, vars
  <2> QED
    BY <1>2, <1>3, <2>1
<1> QED
  BY <1>4, <1>5, <1>6, <1>7, <1>9, <1>10, <1>11, <1>12, <1>13, <1>14, <1>15
     DEF Next, Advance, Environment

(* With a ledger that answers, and whatever the mempool does, a permit is*)
(* broadcast in no more slots than its row counts attempts, and the row  *)
(* counts no more than the limit: over any interleaving of passes and any*)
(* number of crashes.                                                    *)
THEOREM AttemptsBounded ==
  ASSUME "store" \notin Faults, "reply" \notin Faults
  PROVE  Spec => []AttemptsBound
<1>1. Init => RowCounts /\ ClaimExclusive
  <2> SUFFICES ASSUME Init PROVE RowCounts /\ ClaimExclusive
    OBVIOUS
  <2>1. \A p \in Permit : SlotsOf(p) = {}
    BY NoneIsNoPermit DEF Init, SlotsOf, Unsent
  <2>2. ASSUME NEW p \in Permit PROVE CountedRow(p)
    <3>1. IsFiniteSet(SlotsOf(p)) /\ Count(p) = 0 /\ attempts[p] = 0
      BY <2>1, FS_EmptySet DEF Init, Count
    <3> QED
      BY <3>1, ConstantsOK DEF CountedRow
  <2>3. NoBlankPermit /\ \A t \in Tick : CountedPass(t)
    BY DEF Init, NoBlankPermit, Unsent, CountedPass, Sent
  <2> QED
    BY <2>2, <2>3 DEF RowCounts, Init, ClaimExclusive, Claims, Claiming
<1>2. RowCounts => AttemptsBound
  BY DEF RowCounts, CountedRow, Count, AttemptsBound
<1> QED
  BY <1>1, <1>2, TypeInvariance, ClaimInductive, CountsInductive, PTL DEF Spec

----------------------------------------------------------------------------
(* The cap of the hour.                                                    *)

(* A step neither counts a submission nor starts one.                      *)
NoMore == hourly' <= hourly /\ UnderWay' \subseteq UnderWay

(* A pass that counts a submission is no longer under way, and one that    *)
(* starts has seen room under the cap.                                     *)
LEMMA StepCounts ==
  ASSUME TypeInv, [Next]_vars
  PROVE  \/ NoMore
         \/ hourly < MaxPerHour /\ hourly' = hourly
         \/ \E t \in UnderWay : UnderWay' = UnderWay \ {t} /\ hourly' \in {hourly, hourly + 1}
<1> DEFINE Goal == \/ NoMore
                   \/ hourly < MaxPerHour /\ hourly' = hourly
                   \/ \E t \in UnderWay : UnderWay' = UnderWay \ {t} /\ hourly' \in {hourly, hourly + 1}
<1> hourly \in Nat /\ at \in [Tick -> AtState]
  BY DEF TypeInv, TypeOK
<1> USE DEF NoMore, UnderWay, ledger, pool, process, locals, chain
<1>1. ASSUME NEW t \in Tick, StartTick(t) \/ EndTick(t) \/ Select(t) \/ Simulate(t)
               \/ NoFreeSigner(t) \/ Acquire(t) \/ PinNonce(t)
      PROVE  Goal
  BY <1>1 DEF StartTick, EndTick, Select, Simulate, NoFreeSigner, Acquire, PinNonce, Drop
<1>2. ASSUME NEW t \in Tick, CheckCaps(t) PROVE Goal
  BY <1>2 DEF CheckCaps, UnderCaps, Drop
<1>3. ASSUME NEW t \in Tick, BalanceLow(t) \/ ClaimRefused(t) \/ ClaimInsert(t)
               \/ ClaimReopen(t) \/ ClaimThrows(t) \/ CountAttempt(t) \/ CountThrows(t)
      PROVE  Goal
  BY <1>3 DEF BalanceLow, ClaimRefused, ClaimInsert, ClaimReopen, ClaimThrows, CountAttempt,
              CountThrows, Drop, Release
<1>4. ASSUME NEW t \in Tick, Send(t) \/ SendThrows(t) \/ Mined(t) \/ Timeout(t) \/ Replace(t)
               \/ NoReplacement(t)
      PROVE  Goal
  BY <1>4 DEF Send, SendThrows, Mined, Timeout, Replace, NoReplacement, Receipt, Rewind, Release
<1>5. ASSUME NEW t \in Tick, Unmined(t) \/ SettleThrows(t) \/ Abort(t) PROVE Goal
  BY <1>5 DEF Unmined, SettleThrows, Abort, Drop, Rewind, Release
<1>6. ASSUME NEW t \in Tick, Settle(t) PROVE Goal
  BY <1>6 DEF Settle, Drop
<1>7. ASSUME Crash \/ HourPasses PROVE Goal
  BY <1>7 DEF Crash, HourPasses
<1>8. ASSUME \/ \E h \in Hash : Mine(h) \/ Evict(h)
             \/ \E p \in Permit : Lapse(p)
             \/ \E w \in Wallet : RevokeAll(w) \/ MarketMoves(w)
             \/ UNCHANGED vars
      PROVE  Goal
  BY <1>8 DEF Mine, Evict, Lapse, RevokeAll, MarketMoves, vars
<1> QED
  BY <1>1, <1>2, <1>3, <1>4, <1>5, <1>6, <1>7, <1>8 DEF Next, Advance, Environment

(* However many passes overlap, the cap of the hour is exceeded by less    *)
(* than their number.                                                      *)
THEOREM CapKept == Spec => []CapOvershoot
<1>1. IsFiniteSet(Tick) /\ Cardinality(Tick) \in Nat /\ Cardinality(Tick) >= 1 /\ MaxPerHour \in Nat
  <2>1. Cardinality(Tick) # 0
    BY SomePasses, FS_EmptySet
  <2> QED
    BY <2>1, SomePasses, ConstantsOK, FS_CardinalityType
<1>2. Init => CapOvershoot
  <2> SUFFICES ASSUME Init PROVE CapOvershoot
    OBVIOUS
  <2>1. UnderWay = {}
    BY DEF Init, UnderWay
  <2> QED
    BY <1>1, <2>1, FS_EmptySet DEF Init, CapOvershoot
<1>3. TypeInv /\ TypeInv' /\ CapOvershoot /\ [Next]_vars => CapOvershoot'
  <2> SUFFICES ASSUME TypeInv, CapOvershoot, [Next]_vars,
                      hourly \in Nat, hourly' \in Nat
               PROVE  hourly' + Cardinality(UnderWay') <= MaxPerHour + Cardinality(Tick) - 1
    BY DEF TypeInv, TypeOK, CapOvershoot
  <2>1. /\ IsFiniteSet(UnderWay) /\ Cardinality(UnderWay) \in Nat
        /\ Cardinality(UnderWay') \in Nat /\ Cardinality(UnderWay') <= Cardinality(Tick)
    BY <1>1, FS_Subset, FS_CardinalityType DEF UnderWay
  <2>2. CASE NoMore
    <3>1. Cardinality(UnderWay') <= Cardinality(UnderWay)
      BY <2>1, <2>2, FS_Subset DEF NoMore
    <3> QED
      BY <1>1, <2>1, <2>2, <3>1 DEF NoMore, CapOvershoot
  <2>3. CASE hourly < MaxPerHour /\ hourly' = hourly
    BY <1>1, <2>1, <2>3
  <2>4. CASE \E t \in UnderWay : UnderWay' = UnderWay \ {t} /\ hourly' \in {hourly, hourly + 1}
    <3>1. Cardinality(UnderWay') = Cardinality(UnderWay) - 1
      BY <2>1, <2>4, FS_RemoveElement
    <3> QED
      BY <1>1, <2>1, <2>4, <3>1 DEF CapOvershoot
  <2> QED
    BY <2>2, <2>3, <2>4, StepCounts
<1> QED
  BY <1>2, <1>3, TypeInvariance, PTL DEF Spec

----------------------------------------------------------------------------
(* The nonces.                                                             *)

(* What was ever sent, and what waits in the mempool in a slot.            *)
Broadcasts == {h \in Hash : tx[h].state # "unsent"}

Waits(s, n) == \E h \in Pending : Slot(h) = <<s, n>>

(* Every sent transaction carries a signer of the pool and its nonce.      *)
SentInSlots == \A h \in Broadcasts : tx[h].signer \in Signer /\ tx[h].nonce \in Nat

(* A lease has the nonce that the pool keeps for its signer.               *)
LeaseNonce ==
  \A t \in Tick : at[t] \in Leasing \ {"pin"} =>
    lease[t] \in Signer /\ nonce[t] \in Nat /\ next[lease[t]] = nonce[t]

(* After its first broadcast a pass owns the slot of its lease.            *)
SlotTaken ==
  \A t \in Tick : at[t] \in Sent =>
    \E h \in Broadcasts : Slot(h) = <<lease[t], nonce[t]>>

(* What was sent has a nonce below the one the pool will give next, except *)
(* by the pass that holds the lease.                                       *)
NextIsAbove ==
  \A h \in Broadcasts :
    \/ next[tx[h].signer] = -1
    \/ tx[h].nonce < next[tx[h].signer]
    \/ \E t \in Tick : /\ at[t] \in Sent /\ permit[t] = tx[h].permit
                       /\ lease[t] = tx[h].signer /\ nonce[t] = tx[h].nonce

(* The mempool holds the nonces of a signer without a gap, up to what was  *)
(* sent and up to what the pool will give next.                            *)
NoGap ==
  /\ \A h \in Broadcasts : \A m \in mined[tx[h].signer] .. tx[h].nonce : Waits(tx[h].signer, m)
  /\ \A s \in Signer : next[s] # -1 => \A m \in mined[s] .. next[s] - 1 : Waits(s, m)

OnePermitPerSlot ==
  \A g, h \in Broadcasts : Slot(g) = Slot(h) => tx[g].permit = tx[h].permit

(* The strengthening of NoExitKnockedOut: two permits never share a slot   *)
(* because every slot above the mempool is reached through the pool.       *)
SlotInv == SentInSlots /\ LeaseNonce /\ SlotTaken /\ NextIsAbove /\ NoGap /\ OnePermitPerSlot

(* What a broadcast of pass t does to the slots.                           *)
LEMMA BroadcastInSlot ==
  ASSUME TypeInv, NEW h, NEW p, NEW s \in Signer, NEW n \in Nat, Broadcast(h, p, s, n),
         SentInSlots
  PROVE  /\ h \in Hash \ Broadcasts /\ Broadcasts' = Broadcasts \union {h}
         /\ tx'[h].permit = p /\ tx'[h].signer = s /\ tx'[h].nonce = n /\ h \in Pending'
         /\ \A g \in Broadcasts : /\ tx'[g].permit = tx[g].permit /\ tx'[g].signer = tx[g].signer
                                  /\ tx'[g].nonce = tx[g].nonce
         /\ SentInSlots'
         /\ Waits(s, n)'
         /\ \A r \in Signer, m \in Nat : Waits(r, m) => Waits(r, m)'
         /\ UNCHANGED mined
<1>1. /\ h \in Hash \ Broadcasts
      /\ tx'[h].permit = p /\ tx'[h].signer = s /\ tx'[h].nonce = n /\ tx'[h].state = "pending"
  BY BroadcastSends, BroadcastSlot DEF Broadcasts
<1>2. \A g \in Hash \ {h} : /\ tx'[g].permit = tx[g].permit /\ tx'[g].signer = tx[g].signer
                            /\ tx'[g].nonce = tx[g].nonce
                            /\ tx'[g].state \in {tx[g].state, "replaced"}
  BY BroadcastSends, BroadcastSlot
<1>3. \A g \in Hash \ {h} : tx[g].state = "unsent" => tx'[g].state = "unsent"
  BY <1>1 DEF Broadcast
<1>4. Broadcasts' = Broadcasts \union {h}
  BY <1>1, <1>2, <1>3 DEF Broadcasts
<1>5. SentInSlots'
  BY <1>1, <1>2, <1>4 DEF SentInSlots, Broadcasts
<1>6. h \in Pending' /\ Waits(s, n)'
  BY <1>1 DEF Pending, Waits, Slot
<1>7. \A g \in Pending : g \in Pending' \/ Slot(g) = <<s, n>>
  BY <1>1 DEF Broadcast, Pending, Fresh
<1>8. \A g \in Pending : Slot(g)' = Slot(g)
  BY <1>1, <1>2 DEF Pending, Slot, Broadcasts
<1>9. \A r \in Signer, m \in Nat : Waits(r, m) => Waits(r, m)'
  BY <1>6, <1>7, <1>8 DEF Waits
<1>10. UNCHANGED mined
  BY DEF Broadcast
<1> QED
  BY <1>1, <1>2, <1>4, <1>5, <1>6, <1>9, <1>10 DEF Broadcasts

(* A mined transaction frees the lowest nonce.                             *)
LEMMA MineSlots ==
  ASSUME TypeInv, SentInSlots, NEW h \in Hash, Mine(h)
  PROVE  /\ Broadcasts' = Broadcasts /\ SentInSlots'
         /\ \A g \in Hash : /\ tx'[g].permit = tx[g].permit /\ tx'[g].signer = tx[g].signer
                            /\ tx'[g].nonce = tx[g].nonce
         /\ \A r \in Signer : mined[r] \in Nat /\ mined'[r] \in Nat /\ mined[r] <= mined'[r]
         /\ \A r \in Signer, m \in Nat : m >= mined'[r] /\ Waits(r, m) => Waits(r, m)'
<1>1. h \in Broadcasts /\ tx[h].state = "pending"
  BY DEF Mine, Broadcasts
<1>2. PICK st : st \in {"success", "reverted"} /\ tx' = [tx EXCEPT ![h].state = st]
  BY DEF Mine
<1>3. \A g \in Hash : /\ tx'[g].permit = tx[g].permit /\ tx'[g].signer = tx[g].signer
                      /\ tx'[g].nonce = tx[g].nonce
  BY <1>2, StateOnly, StateSlot
<1>4. tx'[h].state = st /\ \A g \in Hash \ {h} : tx'[g] = tx[g]
  BY <1>2, StateOnly
<1>5. Broadcasts' = Broadcasts
  BY <1>1, <1>2, <1>4 DEF Broadcasts
<1>6. SentInSlots'
  BY <1>3, <1>5 DEF SentInSlots, Broadcasts
<1> DEFINE s == tx[h].signer
<1>7. s \in Signer /\ mined[s] \in Nat /\ tx[h].nonce = mined[s]
      /\ mined' = [mined EXCEPT ![s] = mined[s] + 1]
  BY <1>1 DEF SentInSlots, TypeInv, TypeOK, Mine
<1>8. mined'[s] = mined[s] + 1 /\ \A r \in Signer \ {s} : mined'[r] = mined[r] /\ mined[r] \in Nat
  BY <1>7 DEF TypeInv, TypeOK
<1>9. ASSUME NEW r \in Signer, NEW m \in Nat, m >= mined'[r], Waits(r, m)
      PROVE  Waits(r, m)'
  <2>1. PICK g \in Pending : Slot(g) = <<r, m>>
    BY <1>9 DEF Waits
  <2>2. g # h
    BY <1>7, <1>8, <1>9, <2>1 DEF Slot
  <2>3. g \in Pending' /\ Slot(g)' = <<r, m>>
    BY <1>4, <2>1, <2>2 DEF Pending, Slot
  <2> QED
    BY <2>3 DEF Waits
<1> QED
  BY <1>3, <1>5, <1>6, <1>7, <1>8, <1>9

(* With an environment that makes no faults but may kill the process: the  *)
(* inductive step of NoExitKnockedOut.                                     *)
LEMMA SlotsInductive ==
  ASSUME Faults = {}, TypeInv, LeaseExclusive, SlotInv, [Next]_vars
  PROVE  SlotInv'
<1> USE DEF ledger, pool, process, locals, chain
<1> DEFINE Held == Leasing \ {"pin"}
<1>1. TypeOK /\ HasPermit
  BY DEF TypeInv
<1>2. Sent \subseteq Held
  BY DEF Sent, Leasing
(* A step of no consequence for the slots.                                 *)
<1>3. ASSUME UNCHANGED <<tx, mined, next>>,
             \A t \in Tick : at'[t] \in Held =>
               at[t] \in Held /\ lease'[t] = lease[t] /\ nonce'[t] = nonce[t],
             \A t \in Tick : at[t] \in Sent =>
               /\ at'[t] \in Sent /\ permit'[t] = permit[t]
               /\ lease'[t] = lease[t] /\ nonce'[t] = nonce[t],
             \A t \in Tick : at'[t] \in Sent => at[t] \in Sent
      PROVE  SlotInv'
  <2>1. SentInSlots' /\ NoGap' /\ OnePermitPerSlot'
    BY <1>3 DEF SlotInv, SentInSlots, NoGap, OnePermitPerSlot, Broadcasts, Waits, Pending, Slot
  <2>2. LeaseNonce'
    BY <1>3 DEF SlotInv, LeaseNonce
  <2>3. SlotTaken'
    BY <1>3 DEF SlotInv, SlotTaken, Broadcasts, Slot
  <2>4. NextIsAbove'
    BY <1>3 DEF SlotInv, NextIsAbove, Broadcasts
  <2> QED
    BY <2>1, <2>2, <2>3, <2>4 DEF SlotInv
<1>4. ASSUME NEW t \in Tick,
             \/ StartTick(t) \/ EndTick(t) \/ Select(t) \/ CheckCaps(t) \/ Simulate(t) \/ NoFreeSigner(t)
             \/ Acquire(t) \/ BalanceLow(t) \/ ClaimRefused(t) \/ ClaimInsert(t)
             \/ ClaimReopen(t) \/ CountAttempt(t) \/ Timeout(t) \/ Settle(t) \/ Abort(t)
      PROVE  SlotInv'
  <2>1. UNCHANGED <<tx, mined, next>>
    BY <1>4 DEF StartTick, EndTick, Select, CheckCaps, Simulate, NoFreeSigner, Acquire, BalanceLow,
         ClaimRefused, ClaimInsert, ClaimReopen, CountAttempt, Timeout, Settle, Abort
  <2>2. \A u \in Tick \ {t} :
          /\ at'[u] = at[u] /\ permit'[u] = permit[u] /\ lease'[u] = lease[u]
          /\ nonce'[u] = nonce[u]
    BY <1>1, <1>4 DEF StartTick, EndTick, Select, CheckCaps, Simulate, NoFreeSigner, Acquire, BalanceLow,
         ClaimRefused, ClaimInsert, ClaimReopen, CountAttempt, Timeout, Settle, Abort,
         Drop, TypeOK
  <2>3. /\ at'[t] \in Held => at[t] \in Held /\ lease'[t] = lease[t] /\ nonce'[t] = nonce[t]
        /\ at[t] \in Sent <=> at'[t] \in Sent
        /\ at[t] \in Sent => UNCHANGED <<permit, lease, nonce>>
    BY <1>1, <1>4 DEF StartTick, EndTick, Select, CheckCaps, Simulate, NoFreeSigner, Acquire, BalanceLow,
         ClaimRefused, ClaimInsert, ClaimReopen, CountAttempt, Timeout, Settle, Abort,
         Drop, TypeOK, Leasing, Sent
  <2> QED
    BY <1>3, <2>1, <2>2, <2>3
(* Before the first broadcast a release gives the nonce back unused.       *)
<1>5. ASSUME NEW t \in Tick, ClaimThrows(t) \/ CountThrows(t) \/ SendThrows(t)
      PROVE  SlotInv'
  <2>1. /\ at[t] \in Held \ Sent /\ Release(t, FALSE) /\ UNCHANGED <<tx, mined>>
        /\ at'[t] \notin Leasing
    BY <1>1, <1>5 DEF ClaimThrows, CountThrows, SendThrows, Drop, Rewind, Leasing, Sent, TypeOK
  <2>2. next' = next
    BY <1>1, <2>1 DEF Release, SlotInv, LeaseNonce, TypeOK
  <2>3. \A u \in Tick \ {t} :
          /\ at'[u] = at[u] /\ permit'[u] = permit[u] /\ lease'[u] = lease[u]
          /\ nonce'[u] = nonce[u]
    BY <1>1, <1>5 DEF ClaimThrows, CountThrows, SendThrows, Drop, Rewind, TypeOK
  <2> QED
    BY <1>2, <1>3, <2>1, <2>2, <2>3
(* The pool fixes its next nonce: there is no sent transaction above it.   *)
<1>6. ASSUME NEW t \in Tick, PinNonce(t) PROVE SlotInv'
  <2>1. CASE UNCHANGED next /\ Drop(t)
    <3>1. UNCHANGED <<tx, mined>> /\ at[t] \notin Held
      BY <1>6 DEF PinNonce
    <3>2. \A u \in Tick \ {t} :
          /\ at'[u] = at[u] /\ permit'[u] = permit[u] /\ lease'[u] = lease[u]
          /\ nonce'[u] = nonce[u]
      BY <1>1, <2>1 DEF Drop, TypeOK
    <3>3. at'[t] \notin Leasing
      BY <1>1, <2>1 DEF Drop, TypeOK, Leasing
    <3> QED
      BY <1>2, <1>3, <2>1, <3>1, <3>2, <3>3
  <2>2. ASSUME NEW s \in Signer, s = lease[t], NEW n \in Nat,
               n = next[s] \/ (next[s] = -1 /\ IsPendingNonce(s, n)),
               UNCHANGED <<permit, lease>>,
               nonce' = [nonce EXCEPT ![t] = n], next' = [next EXCEPT ![s] = n],
               at' = [at EXCEPT ![t] = "leased"]
        PROVE  SlotInv'
    <3>1. UNCHANGED <<tx, mined, permit, lease>> /\ at[t] = "pin"
      BY <1>6, <2>2 DEF PinNonce, Drop, TypeOK
    <3>2. \A u \in Tick \ {t} : at[u] \in Leasing => lease[u] # s
      BY <2>2, <3>1 DEF LeaseExclusive, Leasing
    <3>3. ASSUME next[s] = -1, NEW m \in mined[s] .. n - 1
          PROVE  Waits(s, m)
      BY <2>2, <3>3 DEF IsPendingNonce, Waits, Slot, Pending
    <3>4. ASSUME next[s] = -1, NEW h \in Broadcasts, tx[h].signer = s
          PROVE  tx[h].nonce < n
      <4>1. tx[h].nonce \in Nat /\ mined[s] \in Nat /\ n >= mined[s] /\ ~Waits(s, n)
        BY <1>1, <2>2, <3>4 DEF SlotInv, SentInSlots, IsPendingNonce, Waits, Slot, Pending, TypeOK
      <4>2. tx[h].nonce >= n => Waits(s, n)
        BY <3>4, <4>1 DEF SlotInv, NoGap
      <4> QED
        BY <4>1, <4>2
    <3>5. SentInSlots' /\ OnePermitPerSlot'
      BY <3>1 DEF SlotInv, SentInSlots, OnePermitPerSlot, Broadcasts, Slot
    <3>6. LeaseNonce'
      BY <1>1, <2>2, <3>1, <3>2 DEF SlotInv, LeaseNonce, TypeOK
    <3>7. SlotTaken'
      BY <1>1, <2>2, <3>1 DEF SlotInv, SlotTaken, Broadcasts, Slot, Sent, TypeOK
    <3>8. NoGap'
      BY <1>1, <2>2, <3>1, <3>3 DEF SlotInv, NoGap, Broadcasts, Waits, Pending, Slot, TypeOK
    <3>9. NextIsAbove'
      <4>1. \A u \in Tick : at[u] \in Sent =>
              at'[u] = at[u] /\ lease'[u] = lease[u] /\ nonce'[u] = nonce[u] /\ permit'[u] = permit[u]
        BY <1>1, <2>2, <3>1 DEF Sent, TypeOK
      <4>2. ASSUME NEW h \in Broadcasts, tx[h].signer # s
            PROVE  \/ next'[tx[h].signer] = -1 \/ tx[h].nonce < next'[tx[h].signer]
                   \/ \E u \in Tick : /\ at'[u] \in Sent /\ permit'[u] = tx[h].permit
                                      /\ lease'[u] = tx[h].signer /\ nonce'[u] = tx[h].nonce
        BY <1>1, <2>2, <4>1, <4>2 DEF SlotInv, NextIsAbove, TypeOK
      <4>3. ASSUME NEW h \in Broadcasts, tx[h].signer = s
            PROVE  tx[h].nonce < next'[s]
        <5>1. next'[s] = n
          BY <1>1, <2>2 DEF TypeOK
        <5>2. CASE next[s] = -1
          BY <3>4, <4>3, <5>1, <5>2
        <5>3. CASE next[s] # -1
          BY <1>2, <2>2, <3>1, <3>2, <4>3, <5>1, <5>3 DEF SlotInv, NextIsAbove, Sent
        <5> QED
          BY <5>2, <5>3
      <4> QED
        BY <3>1, <4>2, <4>3 DEF NextIsAbove, Broadcasts
    <3> QED
      BY <3>5, <3>6, <3>7, <3>8, <3>9 DEF SlotInv
  <2>3. lease[t] \in Signer
    BY <1>1, <1>6 DEF PinNonce, LeaseExclusive, Leasing, TypeOK
  <2> QED
    BY <1>6, <2>1, <2>2, <2>3 DEF PinNonce
(* A release after a receipt, or without one, gives the next nonce.        *)
<1>7. ASSUME NEW t \in Tick, at[t] \in Sent, Release(t, TRUE), UNCHANGED <<tx, mined>>,
             at'[t] \notin Leasing,
             \A u \in Tick \ {t} :
               /\ at'[u] = at[u] /\ permit'[u] = permit[u] /\ lease'[u] = lease[u]
               /\ nonce'[u] = nonce[u]
      PROVE  SlotInv'
  <2>1. PICK s \in Signer, n \in Nat : s = lease[t] /\ n = nonce[t] /\ next[s] = n
    BY <1>2, <1>7 DEF SlotInv, LeaseNonce
  <2>2. next' = [next EXCEPT ![s] = n + 1]
    BY <1>7, <2>1 DEF Release
  <2>3. \A u \in Tick \ {t} : at[u] \in Leasing => lease[u] # s
    BY <1>2, <1>7, <2>1 DEF LeaseExclusive
  <2>4. PICK g \in Broadcasts : Slot(g) = <<s, n>>
    BY <1>7, <2>1 DEF SlotInv, SlotTaken
  <2>5. \A m \in mined[s] .. n : Waits(s, m)
    BY <2>4 DEF SlotInv, NoGap, Slot
  <2>6. SentInSlots' /\ OnePermitPerSlot'
    BY <1>7 DEF SlotInv, SentInSlots, OnePermitPerSlot, Broadcasts, Slot
  <2>7. LeaseNonce'
    BY <1>1, <1>7, <2>2, <2>3 DEF SlotInv, LeaseNonce, TypeOK
  <2>8. SlotTaken'
    BY <1>2, <1>7 DEF SlotInv, SlotTaken, Broadcasts, Slot
  <2>9. NoGap'
    <3>1. next'[s] = n + 1 /\ \A r \in Signer \ {s} : next'[r] = next[r]
      BY <1>1, <2>2 DEF TypeOK
    <3>2. \A r \in Signer, m \in Nat : Waits(r, m)' <=> Waits(r, m)
      BY <1>7 DEF Waits, Pending, Slot
    <3>3. mined'[s] = mined[s] /\ (mined[s] .. (n + 1) - 1) = mined[s] .. n
      BY <1>1, <1>7 DEF TypeOK
    <3>4. \A h \in Broadcasts' : \A m \in mined'[tx'[h].signer] .. tx'[h].nonce : Waits(tx[h].signer, m)'
      BY <1>7 DEF SlotInv, NoGap, Broadcasts, Waits, Pending, Slot
    <3>5. \A r \in Signer \ {s} : next'[r] # -1 =>
            \A m \in mined'[r] .. next'[r] - 1 : Waits(r, m)'
      BY <1>7, <3>1 DEF SlotInv, NoGap, Waits, Pending, Slot
    <3>6. \A m \in mined'[s] .. next'[s] - 1 : Waits(s, m)'
      BY <1>1, <1>7, <2>5, <3>1, <3>3 DEF Waits, Pending, Slot
    <3> QED
      BY <1>7, <3>4, <3>5, <3>6 DEF NoGap
  <2>10. NextIsAbove'
    <3>1. \A u \in Tick \ {t} : at[u] \in Sent =>
              at'[u] = at[u] /\ lease'[u] = lease[u] /\ nonce'[u] = nonce[u] /\ permit'[u] = permit[u]
      BY <1>7
    <3>2. ASSUME NEW h \in Broadcasts, tx[h].signer # s
          PROVE  \/ next'[tx[h].signer] = -1 \/ tx[h].nonce < next'[tx[h].signer]
                 \/ \E u \in Tick : /\ at'[u] \in Sent /\ permit'[u] = tx[h].permit
                                    /\ lease'[u] = tx[h].signer /\ nonce'[u] = tx[h].nonce
      BY <1>1, <1>7, <2>1, <2>2, <3>1, <3>2 DEF SlotInv, NextIsAbove, TypeOK
    <3>3. ASSUME NEW h \in Broadcasts, tx[h].signer = s
          PROVE  tx[h].nonce < next'[s]
      <4>1. next'[s] = n + 1 /\ tx[h].nonce \in Nat
        BY <1>1, <2>2, <3>3 DEF SlotInv, SentInSlots, TypeOK
      <4>2. tx[h].nonce < n \/ tx[h].nonce = n
        BY <1>2, <2>1, <2>3, <3>3 DEF SlotInv, NextIsAbove
      <4> QED
        BY <4>1, <4>2
    <3> QED
      BY <1>7, <3>2, <3>3 DEF NextIsAbove, Broadcasts
  <2> QED
    BY <2>6, <2>7, <2>8, <2>9, <2>10 DEF SlotInv
(* A broadcast: the first one of a lease finds its slot empty, a           *)
(* replacement finds the same permit in it.                                *)
<1>8. ASSUME NEW t \in Tick, at[t] \in {"send", "replace"}, NEW h,
             Broadcast(h, permit[t], lease[t], nonce[t]),
             UNCHANGED <<next, permit, lease, nonce>>,
             \A u \in Tick \ {t} : at'[u] = at[u], at'[t] \in Sent
      PROVE  SlotInv'
  <2>1. PICK p \in Permit, s \in Signer, n \in Nat :
          p = permit[t] /\ s = lease[t] /\ n = nonce[t] /\ next[s] = n
    BY <1>1, <1>8 DEF SlotInv, LeaseNonce, Leasing, HasPermit, Working, Claiming
  <2>2. Broadcast(h, p, s, n) /\ SentInSlots
    BY <1>8, <2>1 DEF SlotInv
  <2>3. \A u \in Tick \ {t} : at[u] \in Leasing => lease[u] # s
    BY <1>8, <2>1 DEF LeaseExclusive, Leasing
  <2>4. /\ h \in Hash \ Broadcasts /\ Broadcasts' = Broadcasts \union {h}
        /\ tx'[h].permit = p /\ tx'[h].signer = s /\ tx'[h].nonce = n
        /\ \A g \in Broadcasts : /\ tx'[g].permit = tx[g].permit /\ tx'[g].signer = tx[g].signer
                                 /\ tx'[g].nonce = tx[g].nonce
        /\ SentInSlots'
        /\ Waits(s, n)'
        /\ \A r \in Signer, m \in Nat : Waits(r, m) => Waits(r, m)'
        /\ UNCHANGED mined
    <3>1. h \in Hash \ Broadcasts /\ Broadcasts' = Broadcasts \union {h}
      BY <2>2, BroadcastInSlot
    <3>2. tx'[h].permit = p /\ tx'[h].signer = s /\ tx'[h].nonce = n
      BY <2>2, BroadcastInSlot
    <3>3. \A g \in Broadcasts : /\ tx'[g].permit = tx[g].permit /\ tx'[g].signer = tx[g].signer
                                /\ tx'[g].nonce = tx[g].nonce
      BY <2>2, BroadcastInSlot
    <3>4. SentInSlots' /\ Waits(s, n)' /\ UNCHANGED mined
      BY <2>2, BroadcastInSlot
    <3>5. \A r \in Signer, m \in Nat : Waits(r, m) => Waits(r, m)'
      BY <2>2, BroadcastInSlot
    <3> QED
      BY <3>1, <3>2, <3>3, <3>4, <3>5, Zenon
  <2>5. \A g \in Broadcasts : tx[g].signer = s => tx[g].nonce < n \/ (tx[g].nonce = n /\ tx[g].permit = p)
    BY <1>2, <1>8, <2>1, <2>3 DEF SlotInv, NextIsAbove
  <2>6. OnePermitPerSlot'
    BY <2>4, <2>5 DEF SlotInv, OnePermitPerSlot, Slot, SentInSlots
  <2>7. LeaseNonce'
    BY <1>2, <1>8, <2>1 DEF SlotInv, LeaseNonce
  <2>8. SlotTaken'
    BY <1>8, <2>1, <2>4 DEF SlotInv, SlotTaken, Slot
  <2>9. NextIsAbove'
    <3>1. \A u \in Tick : at[u] \in Sent => at'[u] \in Sent
      BY <1>8
    <3> QED
      BY <1>8, <2>1, <2>4, <3>1 DEF SlotInv, NextIsAbove
  <2>10. NoGap'
    <3>1. \A r \in Signer : mined[r] \in Nat /\ mined'[r] = mined[r] /\ next'[r] = next[r]
      BY <1>1, <1>8, <2>4 DEF TypeOK
    <3>2. \A g \in Broadcasts : \A m \in mined[tx[g].signer] .. tx[g].nonce : Waits(tx[g].signer, m)'
      BY <2>2, <2>4, <3>1 DEF SlotInv, NoGap, SentInSlots
    <3>3. \A r \in Signer : next[r] # -1 => \A m \in mined[r] .. next[r] - 1 : Waits(r, m)'
      BY <2>4, <3>1, <1>1 DEF SlotInv, NoGap, TypeOK
    <3>4. \A m \in mined[s] .. n : Waits(s, m)'
      BY <2>1, <2>4, <3>1, <3>3
    <3> QED
      BY <2>4, <3>1, <3>2, <3>3, <3>4 DEF NoGap
  <2> QED
    BY <2>4, <2>6, <2>7, <2>8, <2>9, <2>10 DEF SlotInv
<1>9. ASSUME NEW t \in Tick, Send(t) \/ Replace(t) PROVE SlotInv'
  BY <1>1, <1>8, <1>9 DEF Send, Replace, Sent, TypeOK
<1>10. ASSUME NEW t \in Tick, Mined(t) PROVE SlotInv'
  BY <1>1, <1>7, <1>10 DEF Mined, Receipt, Sent, Leasing, TypeOK
<1>11. ASSUME NEW t \in Tick, Unmined(t) PROVE SlotInv'
  BY <1>1, <1>7, <1>11 DEF Unmined, FinishThrows, Drop, Sent, Leasing, TypeOK
<1>12. ASSUME NEW t \in Tick, NoReplacement(t) PROVE SlotInv'
  <2>1. CASE Receipt(t)
    BY <1>1, <1>7, <1>12, <2>1 DEF NoReplacement, Receipt, Sent, Leasing, TypeOK
  <2>2. CASE UNCHANGED chain /\ at' = [at EXCEPT ![t] = "unmined"]
             /\ UNCHANGED <<process, permit, lease, nonce>>
    <3>1. \A u \in Tick : at'[u] = at[u] \/ (at[u] \in Sent /\ at'[u] \in Sent)
      BY <1>1, <1>12, <2>2 DEF NoReplacement, Sent, TypeOK
    <3> QED
      BY <1>2, <1>3, <2>2, <3>1
  <2> QED
    BY <1>12, <2>1, <2>2 DEF NoReplacement
<1>13. ASSUME NEW t \in Tick, SettleThrows(t) PROVE FALSE
  BY <1>13 DEF SettleThrows, FinishThrows
<1>14. ASSUME NEW h \in Hash, Mine(h) PROVE SlotInv'
  <2>1. SentInSlots /\ UNCHANGED <<next, at, permit, lease, nonce>>
    BY <1>14 DEF Mine, SlotInv
  <2>2. /\ Broadcasts' = Broadcasts /\ SentInSlots'
        /\ \A g \in Hash : /\ tx'[g].permit = tx[g].permit /\ tx'[g].signer = tx[g].signer
                            /\ tx'[g].nonce = tx[g].nonce
        /\ \A r \in Signer : mined[r] \in Nat /\ mined'[r] \in Nat /\ mined[r] <= mined'[r]
        /\ \A r \in Signer, m \in Nat : m >= mined'[r] /\ Waits(r, m) => Waits(r, m)'
    BY <1>14, <2>1, MineSlots
  <2>3. LeaseNonce'
    BY <2>1 DEF SlotInv, LeaseNonce
  <2>4. SlotTaken' /\ OnePermitPerSlot' /\ NextIsAbove'
    BY <2>1, <2>2 DEF SlotInv, SlotTaken, OnePermitPerSlot, NextIsAbove, Slot, Broadcasts
  <2>5. NoGap'
    BY <1>1, <2>1, <2>2 DEF SlotInv, NoGap, SentInSlots, Broadcasts, TypeOK
  <2> QED
    BY <2>2, <2>3, <2>4, <2>5 DEF SlotInv
<1>15. ASSUME NEW h \in Hash, Evict(h) PROVE FALSE
  BY <1>15 DEF Evict
<1>16. ASSUME Crash PROVE SlotInv'
  <2>1. UNCHANGED <<tx, mined>> /\ \A t \in Tick : at'[t] = "off"
    BY <1>16 DEF Crash
  <2>2. \A s \in Signer : next'[s] = -1
    BY <1>16 DEF Crash
  <2>3. SentInSlots' /\ OnePermitPerSlot'
    BY <2>1 DEF SlotInv, SentInSlots, OnePermitPerSlot, Broadcasts, Slot
  <2>4. LeaseNonce' /\ SlotTaken'
    BY <2>1 DEF LeaseNonce, SlotTaken, Sent, Leasing
  <2>5. NextIsAbove'
    BY <2>2, <2>3 DEF NextIsAbove, SentInSlots
  <2>6. NoGap'
    BY <2>1, <2>2 DEF SlotInv, NoGap, Broadcasts, Waits, Pending, Slot
  <2> QED
    BY <2>3, <2>4, <2>5, <2>6 DEF SlotInv
<1>17. ASSUME \/ HourPasses \/ (\E p \in Permit : Lapse(p))
              \/ (\E w \in Wallet : RevokeAll(w) \/ MarketMoves(w)) \/ UNCHANGED vars
       PROVE  SlotInv'
  <2>1. UNCHANGED <<next, at, locals, tx, mined>>
    BY <1>17 DEF HourPasses, Lapse, RevokeAll, MarketMoves, vars
  <2> QED
    BY <1>3, <2>1
<1> QED
  BY <1>4, <1>5, <1>6, <1>9, <1>10, <1>11, <1>12, <1>13, <1>14, <1>15, <1>16, <1>17
     DEF Next, Advance, Environment

(* Without faults, and over any number of crashes, no broadcast displaces*)
(* the pending exit of another permit: a pool that lost its cached nonces*)
(* takes the pending nonce of the node, and the mempool has no gap in    *)
(* which that could lie under a transaction already sent.                *)
THEOREM NobodyKnockedOut ==
  ASSUME Faults = {}
  PROVE  Spec => []NoExitKnockedOut
<1>1. Init => SlotInv
  BY DEF Init, Unsent, Broadcasts, SlotInv, SentInSlots, LeaseNonce, SlotTaken, NextIsAbove, NoGap,
         OnePermitPerSlot, Sent, Leasing
<1>2. SlotInv => NoExitKnockedOut
  BY DEF SlotInv, OnePermitPerSlot, NoExitKnockedOut, Broadcasts
<1> QED
  BY <1>1, <1>2, TypeInvariance, LeasesExclusive, SlotsInductive, PTL DEF Spec
============================================================================
