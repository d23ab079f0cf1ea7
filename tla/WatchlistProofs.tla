-------------------------- MODULE WatchlistProofs --------------------------
(* Proofs about Watchlist: the types, the cap of every owner's list, and   *)
(* that commits leave the registry right.                                  *)
EXTENDS Watchlist, FiniteSetTheorems, TLAPS

(* The advisory lock: one open transaction for an owner.                   *)
LockExclusive ==
  \A s, q \in Session :
    InTxn(s) /\ InTxn(q) /\ s # q => txn[s].owner # txn[q].owner

(* What an open transaction past its cap check is about to commit fits.    *)
ChangeFits ==
  \A s \in Session :
    txn[s].at \in {"count", "write"} =>
      Cardinality(Watches(Over(txn[s].change, txn[s].owner))) <= WatchlistMax

IdleIsIdle == \A s \in Session : txn[s].at = "idle" => txn[s] = Idle

(* register_watched_wallet subscribes an owner to itself only.             *)
SelfOnly ==
  \A s \in Session : txn[s].door = "register" => DOMAIN txn[s].ops = {txn[s].owner}

Inv == TypeOK /\ IdleIsIdle /\ LockExclusive /\ SelfOnly /\ ChangeFits /\ CapHolds
-----------------------------------------------------------------------------

(* A value for some wallets, from a set.                                   *)
LEMMA NothingTyped ==
  ASSUME NEW S PROVE Nothing \in UNION {[ws -> S] : ws \in SUBSET Wallet}
<1>1. Nothing \in [{} -> S]  BY DEF Nothing
<1> QED  BY <1>1

LEMMA IdleTyped == Idle \in Txn
<1>1. Nothing \in Batch  BY NothingTyped DEF Batch
<1>2. Nothing \in UNION {[ws -> Ranks] : ws \in SUBSET Wallet}  BY NothingTyped
<1>3. Nothing \in UNION {[ws -> Row] : ws \in SUBSET Wallet}  BY NothingTyped
<1>4. Unwatched \in Ranks  BY DEF Ranks
<1> QED  BY <1>1, <1>2, <1>3, <1>4 DEF Idle, Txn

(* A batch is a function of some wallets, and every one of those is what   *)
(* Batch and its like contain.                                             *)
LEMMA SomeWallets ==
  ASSUME NEW S, NEW f PROVE
    f \in UNION {[ws -> S] : ws \in SUBSET Wallet}
      <=> DOMAIN f \subseteq Wallet /\ f \in [DOMAIN f -> S]
<1>1. ASSUME NEW ws \in SUBSET Wallet, f \in [ws -> S]
      PROVE DOMAIN f \subseteq Wallet /\ f \in [DOMAIN f -> S]
  BY <1>1
<1> QED  BY <1>1

(* The list of an owner with a change on top is a list.                    *)
LEMMA OverTyped ==
  ASSUME subs \in [Owner -> [Wallet -> Ranks]], NEW o \in Owner,
         NEW change \in UNION {[ws -> Ranks] : ws \in SUBSET Wallet}
  PROVE Over(change, o) \in [Wallet -> Ranks]
BY SomeWallets DEF Over

(* What the operations of a batch leave is a change.                       *)
LEMMA AppliedTyped ==
  ASSUME NEW ops \in Batch, NEW list \in [Wallet -> Ranks]
  PROVE Applied(ops, list) \in UNION {[ws -> Ranks] : ws \in SUBSET Wallet}
<1>1. DOMAIN ops \subseteq Wallet /\ ops \in [DOMAIN ops -> Op]  BY SomeWallets DEF Batch
<1>2. \A w \in DOMAIN ops : ops[w].rank \in Ranks /\ list[w] \in Ranks
  BY <1>1 DEF Op, Ranks
<1>3. Applied(ops, list) \in [DOMAIN ops -> Ranks]  BY <1>2 DEF Applied
<1> QED  BY <1>1, <1>3
-----------------------------------------------------------------------------

(* The cap check at both doors is a check of what would be committed.      *)
LEMMA FitsMeansFits ==
  ASSUME TypeOK, SelfOnly, CapHolds, NEW s \in Session, txn[s].at = "apply",
         Fits(s, Applied(txn[s].ops, subs[txn[s].owner]))
  PROVE Cardinality(Watches(Over(Applied(txn[s].ops, subs[txn[s].owner]), txn[s].owner)))
          <= WatchlistMax
<1> DEFINE o == txn[s].owner
<1> DEFINE change == Applied(txn[s].ops, subs[o])
<1> DEFINE before == Watches(subs[o])
<1> DEFINE after == Watches(Over(change, o))
<1>1. o \in Owner /\ o \in Wallet /\ txn[s].door \in {"batch", "register"}
  BY WatchlistAssumption DEF TypeOK, Txn
<1>2. CASE txn[s].door = "batch"  BY <1>2 DEF Fits
<1>3. CASE txn[s].door = "register"
  <2>1. DOMAIN change = {o}  BY <1>3 DEF Applied, SelfOnly
  <2>2. after \subseteq before \union {o}  BY <2>1 DEF Watches, Over
  <2>3. before \subseteq Wallet  BY DEF Watches
  <2>4. IsFiniteSet(before)  BY <2>3, FS_Subset, WatchlistAssumption
  <2>5. Cardinality(before) \in Nat  BY <2>4, FS_CardinalityType
  <2>6. IsFiniteSet(before \union {o})
        /\ Cardinality(before \union {o}) =
             IF o \in before THEN Cardinality(before) ELSE Cardinality(before) + 1
    BY <2>4, FS_AddElement
  <2>7. Cardinality(after) <= Cardinality(before \union {o}) /\ Cardinality(after) \in Nat
    BY <2>2, <2>6, FS_Subset, FS_CardinalityType
  <2>8. Cardinality(before) < WatchlistMax \/ subs[o][o] # Unwatched
    BY <1>3 DEF Fits
  <2>9. Cardinality(before) <= WatchlistMax  BY <1>1 DEF CapHolds
  <2>10. Cardinality(before \union {o}) <= WatchlistMax
    <3>1. CASE o \in before  BY <3>1, <2>6, <2>9
    <3>2. CASE o \notin before
      <4>1. subs[o][o] = Unwatched  BY <3>2, <1>1 DEF Watches
      <4> QED  BY <4>1, <3>2, <2>5, <2>6, <2>8, WatchlistAssumption
    <3> QED  BY <3>1, <3>2
  <2>11. Cardinality(before \union {o}) \in Nat  BY <2>6, FS_CardinalityType
  <2> QED  BY <2>5, <2>7, <2>10, <2>11, WatchlistAssumption
<1> QED  BY <1>1, <1>2, <1>3
-----------------------------------------------------------------------------

(* A session that goes back to idle disturbs nothing (Refuse, Abort, and   *)
(* the transaction's side of Commit).                                      *)
LEMMA GoesIdle ==
  ASSUME TypeOK, IdleIsIdle, LockExclusive, SelfOnly, NEW s \in Session,
         txn' = [txn EXCEPT ![s] = Idle], met' = [met EXCEPT ![s] = {}]
  PROVE /\ txn' \in [Session -> Txn]
        /\ met' \in [Session -> SUBSET Wallet]
        /\ \A q \in Session :
             /\ txn'[q].at # "idle" => txn'[q].owner \in Owner
             /\ met'[q] \subseteq DOMAIN txn'[q].ops
             /\ \A r \in Session \ {q} : DOMAIN txn'[q].rows \intersect DOMAIN txn'[r].rows = {}
        /\ IdleIsIdle'
        /\ LockExclusive'
        /\ SelfOnly'
<1>1. txn' \in [Session -> Txn] /\ met' \in [Session -> SUBSET Wallet]
  BY IdleTyped DEF TypeOK
<1>2. \A q \in Session : txn'[q] = IF q = s THEN Idle ELSE txn[q]  BY DEF TypeOK
<1>3. \A q \in Session : met'[q] = IF q = s THEN {} ELSE met[q]  BY DEF TypeOK
<1>4. Idle.at = "idle" /\ Idle.door = "batch" /\ DOMAIN Idle.rows = {}  BY DEF Idle, Nothing
<1>5. \A q \in Session : q # s => /\ txn[q].at # "idle" => txn[q].owner \in Owner
                                 /\ met[q] \subseteq DOMAIN txn[q].ops
  BY DEF TypeOK
<1>6. \A q, r \in Session : q # r => DOMAIN txn[q].rows \intersect DOMAIN txn[r].rows = {}
  BY DEF TypeOK
<1>7. \A q \in Session : \A r \in Session \ {q} :
        DOMAIN txn'[q].rows \intersect DOMAIN txn'[r].rows = {}
  BY <1>2, <1>4, <1>6
<1>8. LockExclusive'  BY <1>2, <1>4 DEF LockExclusive, InTxn
<1>9. SelfOnly'  BY <1>2, <1>4 DEF SelfOnly
<1>10. IdleIsIdle'  BY <1>2 DEF IdleIsIdle
<1> QED  BY <1>1, <1>2, <1>3, <1>4, <1>5, <1>7, <1>8, <1>9, <1>10

(* A session that moves on, keeping its owner and its locks, or adding the *)
(* locks of rows nobody holds.                                             *)
LEMMA MovesOn ==
  ASSUME Inv, NEW s \in Session, NEW t \in Txn,
         txn' = [txn EXCEPT ![s] = t], UNCHANGED <<subs, registry, met>>,
         txn[s].at = "idle" \/ (InTxn(s) /\ t.owner = txn[s].owner /\ t.ops = txn[s].ops
                                /\ t.door = txn[s].door),
         t.at # "idle" /\ t.owner \in Owner,
         txn[s].at = "idle" => t.at = "lock",
         t.door = "register" => DOMAIN t.ops = {t.owner},
         \A w \in DOMAIN t.rows \ DOMAIN txn[s].rows : RowFree(w),
         t.at \in {"count", "write"} =>
           Cardinality(Watches(Over(t.change, t.owner))) <= WatchlistMax
  PROVE Inv'
<1>1. txn' \in [Session -> Txn]  BY DEF Inv, TypeOK
<1>2. \A q \in Session : txn'[q] = IF q = s THEN t ELSE txn[q]  BY DEF Inv, TypeOK
<1>3. TypeOK'
  <2>1. subs' \in [Owner -> [Wallet -> Ranks]] /\ registry' \in [Wallet -> Row]
        /\ met' \in [Session -> SUBSET Wallet]
    BY DEF Inv, TypeOK
  <2>2. \A q \in Session : txn'[q].at # "idle" => txn'[q].owner \in Owner
    BY <1>2 DEF Inv, TypeOK
  <2>3. \A q \in Session : met'[q] \subseteq DOMAIN txn'[q].ops
    <3>1. txn[s].at = "idle" => met[s] = {}
      BY DEF Inv, IdleIsIdle, Idle, Nothing, TypeOK
    <3> QED  BY <1>2, <3>1 DEF Inv, TypeOK
  <2>4. \A q, r \in Session : q # r => DOMAIN txn[q].rows \intersect DOMAIN txn[r].rows = {}
    BY DEF Inv, TypeOK
  <2>5. \A q \in Session \ {s} : DOMAIN t.rows \intersect DOMAIN txn[q].rows = {}
    BY <2>4 DEF RowFree
  <2>6. \A q \in Session : \A r \in Session \ {q} :
          DOMAIN txn'[q].rows \intersect DOMAIN txn'[r].rows = {}
    BY <1>2, <2>4, <2>5
  <2> QED  BY <1>1, <2>1, <2>2, <2>3, <2>6 DEF TypeOK
<1>4. LockExclusive'
  BY <1>2 DEF Inv, LockExclusive, InTxn
<1>5. SelfOnly'  BY <1>2 DEF Inv, SelfOnly
<1>6. ChangeFits'
  <2>1. \A c, o : Over(c, o)' = Over(c, o)
    BY DEF Over
  <2>2. ASSUME NEW q \in Session, txn'[q].at \in {"count", "write"}
        PROVE Cardinality(Watches(Over(txn'[q].change, txn'[q].owner))) <= WatchlistMax
    BY <1>2, <2>2 DEF Inv, ChangeFits
  <2>3. \A q \in Session : Watches(Over(txn[q].change, txn[q].owner))'
                            = Watches(Over(txn'[q].change, txn'[q].owner))
    BY DEF Watches, Over
  <2> QED  BY <2>2, <2>3 DEF ChangeFits
<1>7. CapHolds'  BY DEF Inv, CapHolds, Watches
<1>8. IdleIsIdle'  BY <1>2 DEF Inv, IdleIsIdle
<1> QED  BY <1>3, <1>4, <1>5, <1>6, <1>7, <1>8 DEF Inv
-----------------------------------------------------------------------------

LEMMA InitInv == Init => Inv
<1> SUFFICES ASSUME Init PROVE Inv  OBVIOUS
<1> USE DEF Init
<1>1. \A s \in Session : txn[s] = Idle /\ met[s] = {}  OBVIOUS
<1>2. Idle.at = "idle" /\ Idle.door = "batch" /\ DOMAIN Idle.rows = {}  BY DEF Idle, Nothing
<1>3. TypeOK
  <2>1. Unwatched \in Ranks /\ Absent \in Row  BY DEF Ranks, Row, Absent
  <2>2. txn \in [Session -> Txn]  BY IdleTyped
  <2> QED  BY <1>1, <1>2, <2>1, <2>2 DEF TypeOK
<1>4. IdleIsIdle /\ LockExclusive /\ SelfOnly /\ ChangeFits
  BY <1>1, <1>2 DEF IdleIsIdle, LockExclusive, InTxn, SelfOnly, ChangeFits
<1>5. CapHolds
  <2>1. \A o \in Owner : Watches(subs[o]) = {}  BY WatchlistAssumption DEF Watches
  <2> QED  BY <2>1, FS_EmptySet, WatchlistAssumption DEF CapHolds
<1> QED  BY <1>3, <1>4, <1>5 DEF Inv

LEMMA NextInv == Inv /\ [Next]_vars => Inv'
<1> SUFFICES ASSUME Inv, [Next]_vars PROVE Inv'  OBVIOUS
<1>1. CASE UNCHANGED vars
  <2>1. UNCHANGED <<subs, registry, txn, met>>
    BY <1>1 DEF vars
  <2>2. TypeOK'
    BY <2>1 DEF Inv, TypeOK
  <2>3. IdleIsIdle' /\ LockExclusive' /\ SelfOnly'
    BY <2>1 DEF Inv, IdleIsIdle, LockExclusive, InTxn, SelfOnly
  <2>4. ChangeFits' /\ CapHolds'
    BY <2>1 DEF Inv, ChangeFits, CapHolds, Watches, Over
  <2> QED
    BY <2>2, <2>3, <2>4 DEF Inv
<1>2. ASSUME NEW s \in Session, NEW o \in Owner, SendBatch(s, o) PROVE Inv'
  <2>1. PICK ops \in Request :
          txn' = [txn EXCEPT ![s] = [Idle EXCEPT !.at = "lock", !.owner = o, !.ops = ops]]
    BY <1>2 DEF SendBatch
  <2> DEFINE t == [Idle EXCEPT !.at = "lock", !.owner = o, !.ops = ops]
  <2>2. t \in Txn  BY IdleTyped, WatchlistAssumption DEF Txn
  <2>3. t.at = "lock" /\ t.owner = o /\ t.door = "batch" /\ DOMAIN t.rows = {}
    BY DEF Idle, Nothing
  <2>4. txn' = [txn EXCEPT ![s] = t] /\ txn[s].at = "idle" /\ UNCHANGED <<subs, registry, met>>
    BY <1>2, <2>1 DEF SendBatch
  <2> HIDE DEF t
  <2> QED  BY <2>2, <2>3, <2>4, MovesOn
<1>3. ASSUME NEW s \in Session, NEW o \in Owner, SendRegister(s, o) PROVE Inv'
  <2>1. PICK k \in Rank :
          txn' = [txn EXCEPT ![s] = [Idle EXCEPT !.at = "lock", !.owner = o, !.door = "register",
                                       !.ops = [w \in {o} |-> [op |-> "add", rank |-> k]]]]
    BY <1>3 DEF SendRegister
  <2> DEFINE ops == [w \in {o} |-> [op |-> "add", rank |-> k]]
  <2> DEFINE t == [Idle EXCEPT !.at = "lock", !.owner = o, !.door = "register", !.ops = ops]
  <2>2. ops \in Batch
    <3>1. ops \in [{o} -> Op]  BY DEF Op
    <3> QED  BY <3>1, WatchlistAssumption DEF Batch
  <2>3. t \in Txn  BY IdleTyped, <2>2 DEF Txn
  <2>4. t.at = "lock" /\ t.owner = o /\ DOMAIN t.ops = {o} /\ DOMAIN t.rows = {}
    BY DEF Idle, Nothing
  <2>5. txn' = [txn EXCEPT ![s] = t] /\ txn[s].at = "idle" /\ UNCHANGED <<subs, registry, met>>
    BY <1>3, <2>1 DEF SendRegister
  <2> HIDE DEF t
  <2> QED  BY <2>3, <2>4, <2>5, MovesOn
<1>4. ASSUME NEW s \in Session, Lock(s) PROVE Inv'
  <2>1. \A q \in Session : txn'[q] = IF q = s THEN [txn[s] EXCEPT !.at = "apply"] ELSE txn[q]
    BY <1>4 DEF Lock, Inv, TypeOK
  <2>2. [txn[s] EXCEPT !.at = "apply"] \in Txn
    <3>1. txn[s] \in Txn  BY DEF Inv, TypeOK
    <3> QED  BY <3>1 DEF Txn
  <2>3. txn' \in [Session -> Txn]  BY <1>4, <2>2 DEF Lock, Inv, TypeOK
  <2>4. \A q \in Session :
          /\ txn[q].at # "idle" => txn[q].owner \in Owner
          /\ txn'[q].owner = txn[q].owner /\ txn'[q].ops = txn[q].ops
          /\ txn'[q].door = txn[q].door /\ txn'[q].rows = txn[q].rows
          /\ txn'[q].change = txn[q].change
    BY <2>1 DEF Inv, TypeOK, Txn
  <2>5. txn'[s].at = "apply" /\ txn[s].at = "lock"  BY <1>4, <2>1 DEF Lock, Inv, TypeOK, Txn
  <2>6. met' \in [Session -> SUBSET Wallet] /\ \A q \in Session : met'[q] \subseteq DOMAIN txn[q].ops
    <3>1. \A q \in Session : DOMAIN txn[q].ops \subseteq Wallet
      BY SomeWallets DEF Inv, TypeOK, Txn, Batch
    <3>2. \A q \in Session : met'[q] \subseteq DOMAIN txn[q].ops
      BY <1>4 DEF Lock, Inv, TypeOK
    <3>3. met' = [q \in Session |-> met'[q]]  BY <1>4 DEF Lock
    <3> QED  BY <3>1, <3>2, <3>3
  <2>7. TypeOK'
    BY <1>4, <2>1, <2>3, <2>4, <2>5, <2>6 DEF Lock, Inv, TypeOK
  <2>8. LockExclusive'
    BY <1>4, <2>1, <2>4, <2>5 DEF Lock, Held, Inv, LockExclusive, InTxn
  <2>9. IdleIsIdle' /\ SelfOnly'
    BY <2>1, <2>4, <2>5 DEF Inv, IdleIsIdle, SelfOnly
  <2>10. ChangeFits' /\ CapHolds'
    BY <1>4, <2>1, <2>4, <2>5, SMTT(30) DEF Lock, Inv, ChangeFits, CapHolds, Watches, Over
  <2> QED  BY <2>7, <2>8, <2>9, <2>10 DEF Inv
<1>5. ASSUME NEW s \in Session, Apply(s) PROVE Inv'
  <2> DEFINE o == txn[s].owner
  <2> DEFINE change == Applied(txn[s].ops, subs[o])
  <2> DEFINE t == [txn[s] EXCEPT !.at = "count", !.change = change, !.todo = Touched(txn[s].ops)]
  <2>1. txn' = [txn EXCEPT ![s] = t] /\ UNCHANGED <<subs, registry, met>>
        /\ txn[s].at = "apply"
    BY <1>5 DEF Apply, Inv, TypeOK
  <2>2. txn[s] \in Txn /\ o \in Owner /\ subs[o] \in [Wallet -> Ranks]
    BY <2>1 DEF Inv, TypeOK
  <2>3. txn[s].ops \in Batch /\ Touched(txn[s].ops) \subseteq Wallet
    BY <2>2, SomeWallets DEF Txn, Batch, Touched
  <2>4. change \in UNION {[ws -> Ranks] : ws \in SUBSET Wallet}
    BY <2>2, <2>3, AppliedTyped
  <2>5. Cardinality(Watches(Over(change, o))) <= WatchlistMax
    BY <1>5, <2>1, FitsMeansFits DEF Apply, Inv
  <2> HIDE DEF change
  <2>6. t \in Txn /\ t.at = "count" /\ t.owner = o /\ t.ops = txn[s].ops
        /\ t.door = txn[s].door /\ t.rows = txn[s].rows /\ t.change = change
    BY <2>2, <2>3, <2>4 DEF Txn
  <2> HIDE DEF t
  <2> QED  BY <2>1, <2>2, <2>5, <2>6, MovesOn DEF Inv, SelfOnly, InTxn
<1>6. ASSUME NEW s \in Session, Refuse(s) \/ Abort(s) PROVE Inv'
  <2>1. txn' = [txn EXCEPT ![s] = Idle] /\ met' = [met EXCEPT ![s] = {}]
        /\ UNCHANGED <<subs, registry>>
    BY <1>6 DEF Refuse, Abort
  <2>2. TypeOK' /\ IdleIsIdle' /\ LockExclusive' /\ SelfOnly'
    BY <2>1, GoesIdle DEF Inv, TypeOK
  <2>3. ChangeFits' /\ CapHolds'
    <3>1. \A q \in Session : txn'[q] = IF q = s THEN Idle ELSE txn[q]
      BY <2>1 DEF Inv, TypeOK
    <3> QED  BY <2>1, <3>1 DEF Inv, ChangeFits, CapHolds, Idle, Watches, Over
  <2> QED  BY <2>2, <2>3 DEF Inv
<1>7. ASSUME NEW s \in Session, NEW w \in Wallet, Count(s, w) PROVE Inv'
  <2>1. PICK r \in Ranks :
          txn' = [txn EXCEPT ![s].at = "write", ![s].wallet = {w}, ![s].todo = @ \ {w},
                             ![s].seen = r]
    BY <1>7 DEF Count
  <2> DEFINE t == [txn[s] EXCEPT !.at = "write", !.wallet = {w}, !.todo = @ \ {w}, !.seen = r]
  <2>2. txn' = [txn EXCEPT ![s] = t] /\ UNCHANGED <<subs, registry, met>>
        /\ txn[s].at = "count" /\ txn[s].owner \in Owner /\ txn[s] \in Txn
    BY <1>7, <2>1 DEF Count, Inv, TypeOK
  <2>3. t \in Txn /\ t.at = "write" /\ t.owner = txn[s].owner /\ t.ops = txn[s].ops
        /\ t.door = txn[s].door /\ t.rows = txn[s].rows /\ t.change = txn[s].change
    BY <2>2 DEF Txn
  <2>4. Cardinality(Watches(Over(txn[s].change, txn[s].owner))) <= WatchlistMax
    BY <2>2 DEF Inv, ChangeFits
  <2> HIDE DEF t
  <2> QED  BY <2>2, <2>3, <2>4, MovesOn DEF Inv, SelfOnly, InTxn
<1>8. ASSUME NEW s \in Session, NEW rows \in UNION {[ws -> Row] : ws \in SUBSET Wallet},
             txn[s].at = "write", Wrote(s, rows), UNCHANGED <<subs, registry, met>>,
             \A w \in DOMAIN rows : RowFree(w)
      PROVE Inv'
  <2> DEFINE merged == [w \in DOMAIN txn[s].rows \union DOMAIN rows |->
                          IF w \in DOMAIN rows THEN rows[w] ELSE txn[s].rows[w]]
  <2> DEFINE t == [txn[s] EXCEPT !.at = "count", !.wallet = {}, !.seen = Unwatched, !.rows = merged]
  <2>1. txn' = [txn EXCEPT ![s] = t] /\ txn[s].owner \in Owner /\ txn[s] \in Txn
    BY <1>8 DEF Wrote, Inv, TypeOK
  <2>2. merged \in UNION {[ws -> Row] : ws \in SUBSET Wallet}
    <3>1. txn[s].rows \in UNION {[ws -> Row] : ws \in SUBSET Wallet}  BY <2>1 DEF Txn
    <3>2. DOMAIN rows \subseteq Wallet /\ rows \in [DOMAIN rows -> Row]  BY SomeWallets
    <3>3. DOMAIN txn[s].rows \subseteq Wallet /\ txn[s].rows \in [DOMAIN txn[s].rows -> Row]
      BY <3>1, SomeWallets
    <3>4. merged \in [DOMAIN txn[s].rows \union DOMAIN rows -> Row]  BY <3>2, <3>3
    <3>5. DOMAIN txn[s].rows \union DOMAIN rows \in SUBSET Wallet  BY <3>2, <3>3
    <3> QED  BY <3>4, <3>5
  <2>3. DOMAIN merged \ DOMAIN txn[s].rows \subseteq DOMAIN rows  OBVIOUS
  <2> HIDE DEF merged
  <2>4. t \in Txn /\ t.at = "count" /\ t.owner = txn[s].owner /\ t.ops = txn[s].ops
        /\ t.door = txn[s].door /\ t.rows = merged /\ t.change = txn[s].change
    BY <2>1, <2>2 DEF Txn, Ranks
  <2>5. Cardinality(Watches(Over(txn[s].change, txn[s].owner))) <= WatchlistMax
    BY <1>8 DEF Inv, ChangeFits
  <2> HIDE DEF t
  <2> QED  BY <1>8, <2>1, <2>3, <2>4, <2>5, MovesOn DEF Inv, SelfOnly, InTxn
<1>9. ASSUME NEW s \in Session, Deactivate(s) PROVE Inv'
  <2> DEFINE rows == [w \in {w \in txn[s].wallet : registry[w] # Absent} |->
                        [registry[w] EXCEPT !.active = FALSE]]
  <2>1. txn[s].wallet \subseteq Wallet  BY DEF Inv, TypeOK, Txn
  <2>2. rows \in [{w \in txn[s].wallet : registry[w] # Absent} -> Row]
    BY <2>1 DEF Inv, TypeOK, Row
  <2>3. rows \in UNION {[ws -> Row] : ws \in SUBSET Wallet}  BY <2>1, <2>2
  <2>4. \A w \in DOMAIN rows : RowFree(w)  BY <1>9 DEF Deactivate
  <2> QED  BY <1>8, <1>9, <2>3, <2>4 DEF Deactivate
<1>10. ASSUME NEW s \in Session, Activate(s) PROVE Inv'
  <2> DEFINE rows == [w \in txn[s].wallet |-> [active |-> TRUE, rank |-> txn[s].seen]]
  <2>1. txn[s].wallet \subseteq Wallet /\ txn[s].seen \in Ranks  BY DEF Inv, TypeOK, Txn
  <2>2. rows \in [txn[s].wallet -> Row]  BY <2>1 DEF Row
  <2>3. rows \in UNION {[ws -> Row] : ws \in SUBSET Wallet}  BY <2>1, <2>2
  <2>4. \A w \in DOMAIN rows : RowFree(w)  BY <1>10 DEF Activate
  <2> QED  BY <1>8, <1>10, <2>3, <2>4 DEF Activate
<1>11. ASSUME NEW s \in Session, Commit(s) PROVE Inv'
  <2> DEFINE o == txn[s].owner
  <2> DEFINE list == Over(txn[s].change, o)
  <2>1. txn' = [txn EXCEPT ![s] = Idle] /\ met' = [met EXCEPT ![s] = {}]
        /\ subs' = [subs EXCEPT ![o] = list] /\ txn[s].at = "count"
    BY <1>11 DEF Commit
  <2>2. o \in Owner /\ txn[s] \in Txn /\ subs \in [Owner -> [Wallet -> Ranks]]
    BY <2>1 DEF Inv, TypeOK
  <2>3. list \in [Wallet -> Ranks]  BY <2>2, OverTyped DEF Txn
  <2>4. subs' \in [Owner -> [Wallet -> Ranks]]  BY <2>1, <2>2, <2>3
  <2>5. registry' \in [Wallet -> Row]
    <3>1. DOMAIN txn[s].rows \subseteq Wallet /\ txn[s].rows \in [DOMAIN txn[s].rows -> Row]
      BY <2>2, SomeWallets DEF Txn
    <3> QED  BY <1>11, <3>1 DEF Commit, Inv, TypeOK
  <2>6. TypeOK' /\ IdleIsIdle' /\ LockExclusive' /\ SelfOnly'
    BY <2>1, <2>4, <2>5, GoesIdle DEF Inv, TypeOK
  <2>7. Cardinality(Watches(list)) <= WatchlistMax  BY <2>1 DEF Inv, ChangeFits
  <2>8. \A p \in Owner : subs'[p] = IF p = o THEN list ELSE subs[p]  BY <2>1, <2>2
  <2>9. CapHolds'
    <3>1. \A p \in Owner : Watches(subs'[p]) = IF p = o THEN Watches(list) ELSE Watches(subs[p])
      BY <2>8
    <3> QED  BY <2>7, <3>1 DEF CapHolds, Inv, Watches
  <2>10. ChangeFits'
    <3>1. \A q \in Session : txn'[q] = IF q = s THEN Idle ELSE txn[q]
      BY <2>1 DEF Inv, TypeOK
    <3>2. ASSUME NEW q \in Session, txn'[q].at \in {"count", "write"}
          PROVE Cardinality(Watches(Over(txn[q].change, txn[q].owner)))' <= WatchlistMax
      <4>1. q # s /\ txn'[q] = txn[q]  BY <3>1, <3>2 DEF Idle
      <4>2. txn[q].owner # o /\ txn[q].owner \in Owner
        BY <2>1, <3>2, <4>1 DEF Inv, LockExclusive, InTxn, TypeOK
      <4>3. subs'[txn[q].owner] = subs[txn[q].owner]  BY <2>8, <4>2
      <4>4. Watches(Over(txn[q].change, txn[q].owner))' = Watches(Over(txn[q].change, txn[q].owner))
        BY <4>1, <4>3 DEF Watches, Over
      <4> QED  BY <3>2, <4>1, <4>4 DEF Inv, ChangeFits
    <3> QED  BY <3>2 DEF ChangeFits
  <2> QED  BY <2>6, <2>9, <2>10 DEF Inv
<1> QED
  BY <1>1, <1>2, <1>3, <1>4, <1>5, <1>6, <1>7, <1>9, <1>10, <1>11 DEF Next
-----------------------------------------------------------------------------

LEMMA Invariance == Spec => []Inv
BY InitInv, NextInv, PTL DEF Spec

(* Types, and: no registry row is locked by two open transactions.         *)
THEOREM WatchlistTyped == Spec => []TypeOK
<1>1. Inv => TypeOK  BY DEF Inv
<1> QED  BY <1>1, Invariance, PTL

(* No owner ever holds more wallets than the cap, for any number of        *)
(* owners, wallets and concurrent requests at both doors.                  *)
THEOREM CapNeverBroken == Spec => []CapHolds
<1>1. Inv => CapHolds  BY DEF Inv
<1> QED  BY <1>1, Invariance, PTL

-----------------------------------------------------------------------------
(* The registry is healed.                                                 *)

InSync(s) == txn[s].at \in {"count", "write"}

(* What a transaction has done to which of its wallets.                    *)
Progress(s) ==
  LET t == txn[s] IN
  /\ t.todo \subseteq DOMAIN t.ops /\ t.wallet \subseteq DOMAIN t.ops \ t.todo
  /\ DOMAIN t.rows \subseteq DOMAIN t.ops \ (t.todo \union t.wallet)
  /\ t.at # "write" => t.wallet = {}
  /\ InSync(s) => DOMAIN t.change = DOMAIN t.ops
  /\ ~InSync(s) => DOMAIN t.rows = {}

(* The row of a wallet as its transaction sees it.                         *)
RowSeen(s, w) == IF w \in DOMAIN txn[s].rows THEN txn[s].rows[w] ELSE registry[w]

Says(entry, asked) ==
  /\ entry.active <=> asked # {}
  /\ asked # {} => Strictest(entry.rank, asked)

(* Of the wallets that no other open transaction touches, those that are   *)
(* synchronised have a right row, and the one at hand was counted right.   *)
Mine(s) == DOMAIN txn[s].ops \ met[s]

RightSoFar(s) ==
  InSync(s) =>
    /\ \A w \in Mine(s) \ (txn[s].todo \union txn[s].wallet) : Says(RowSeen(s, w), Asked(s, w))
    /\ \A w \in Mine(s) \intersect txn[s].wallet : Strictest(txn[s].seen, Asked(s, w))

(* What two open transactions both touch, each knows to be disturbed.      *)
Overlaps ==
  \A s, q \in Session :
    s # q /\ InTxn(s) /\ InTxn(q) => DOMAIN txn[s].ops \intersect DOMAIN txn[q].ops \subseteq met[s]

HealInv ==
  /\ \A s \in Session : Progress(s) /\ RightSoFar(s)
  /\ Overlaps

(* The strictest of what is asked is the mark of no subscription only when *)
(* nothing is asked.                                                       *)
LEMMA StrictestOfSome ==
  ASSUME NEW asked, Unwatched \notin asked, NEW k, Strictest(k, asked)
  PROVE  k = Unwatched <=> asked = {}
BY DEF Strictest

(* No subscriber asks for the mark of no subscription.                     *)
LEMMA UnwatchedNotAsked ==
  ASSUME NEW s, NEW w PROVE Unwatched \notin Asked(s, w)
BY DEF Asked

(* What a session reads of a wallet is what it was, unless its own change  *)
(* or somebody's commit is about that wallet.                              *)
LEMMA SameAsked ==
  ASSUME NEW s \in Session, NEW w \in Wallet,
         txn'[s].owner = txn[s].owner, txn'[s].change = txn[s].change,
         \A o \in Owner : subs'[o][w] = subs[o][w]
  PROVE  Asked(s, w)' = Asked(s, w)
<1>1. Asked(s, w) = {IF o = txn[s].owner
                     THEN IF w \in DOMAIN txn[s].change THEN txn[s].change[w] ELSE subs[o][w]
                     ELSE subs[o][w] : o \in Owner} \ {Unwatched}
  BY DEF Asked, Over
<1>2. Asked(s, w)' = {IF o = txn'[s].owner
                      THEN IF w \in DOMAIN txn'[s].change THEN txn'[s].change[w] ELSE subs'[o][w]
                      ELSE subs'[o][w] : o \in Owner} \ {Unwatched}
  BY DEF Asked, Over
<1> QED
  BY <1>1, <1>2

(* A step of one session leaves the others as right as they were, if it    *)
(* changes nothing of theirs.                                              *)
LEMMA OthersStayRight ==
  ASSUME Inv, HealInv, NEW q \in Session,
         txn'[q] = txn[q], InTxn(q) => met[q] \subseteq met'[q],
         \A w \in Mine(q) : InTxn(q) => registry'[w] = registry[w]
                                        /\ \A o \in Owner : subs'[o][w] = subs[o][w]
  PROVE  Progress(q)' /\ RightSoFar(q)'
<1>1. Progress(q)'
  BY DEF HealInv, Progress, InSync
<1>2. RightSoFar(q)'
  <2> SUFFICES ASSUME InSync(q) PROVE RightSoFar(q)'
    BY DEF RightSoFar, InSync
  <2>1. InTxn(q) /\ Mine(q)' \subseteq Mine(q) /\ DOMAIN txn[q].ops \subseteq Wallet
    BY SomeWallets DEF InSync, InTxn, Mine, Inv, TypeOK, Txn, Batch
  <2>2. ASSUME NEW w \in Mine(q)
        PROVE  Asked(q, w)' = Asked(q, w) /\ RowSeen(q, w)' = RowSeen(q, w)
    <3>1. w \in Wallet /\ registry'[w] = registry[w] /\ \A o \in Owner : subs'[o][w] = subs[o][w]
      BY <2>1 DEF Mine
    <3> QED
      BY <3>1, SameAsked DEF RowSeen
  <2>3. /\ \A w \in Mine(q) \ (txn[q].todo \union txn[q].wallet) : Says(RowSeen(q, w), Asked(q, w))
        /\ \A w \in Mine(q) \intersect txn[q].wallet : Strictest(txn[q].seen, Asked(q, w))
    BY DEF HealInv, RightSoFar
  <2>4. \A w \in Mine(q)' \ (txn'[q].todo \union txn'[q].wallet) :
           Says(RowSeen(q, w)', Asked(q, w)')
    BY <2>1, <2>2, <2>3
  <2>5. \A w \in Mine(q)' \intersect txn'[q].wallet : Strictest(txn'[q].seen, Asked(q, w)')
    BY <2>1, <2>2, <2>3
  <2> QED
    BY <2>4, <2>5 DEF RightSoFar, Says, Strictest
<1> QED
  BY <1>1, <1>2
(* A session moves on with the same batch: who overlaps does not change.   *)
LEMMA SameOverlaps ==
  ASSUME Overlaps,
         \A q \in Session : InTxn(q)' => InTxn(q) /\ txn'[q].ops = txn[q].ops /\ met'[q] = met[q]
  PROVE  Overlaps'
<1> SUFFICES ASSUME NEW p \in Session, NEW q \in Session, p # q, InTxn(p)', InTxn(q)'
             PROVE  DOMAIN txn'[p].ops \intersect DOMAIN txn'[q].ops \subseteq met'[p]
  BY DEF Overlaps
<1> QED
  BY DEF Overlaps

(* A step that leaves the tables alone leaves the other sessions right.    *)
LEMMA LocalStep ==
  ASSUME Inv, HealInv, NEW s \in Session, NEW t, UNCHANGED <<subs, registry, met>>,
         txn' = [txn EXCEPT ![s] = t], t.ops = txn[s].ops \/ t.at = "lock",
         t.at \in {"apply", "count", "write"} => InTxn(s),
         Progress(s)', RightSoFar(s)'
  PROVE  HealInv'
<1>1. \A q \in Session : txn'[q] = IF q = s THEN t ELSE txn[q]
  BY DEF Inv, TypeOK
<1>2. \A q \in Session \ {s} : Progress(q)' /\ RightSoFar(q)'
  BY <1>1, OthersStayRight
<1>3. Overlaps'
  BY <1>1, SameOverlaps DEF HealInv, InTxn
<1> QED
  BY <1>2, <1>3 DEF HealInv

(* A write that says what the subscribers ask keeps the session right so   *)
(* far.                                                                    *)
LEMMA WroteRight ==
  ASSUME Inv, HealInv, NEW s \in Session, NEW rows \in UNION {[ws -> Row] : ws \in SUBSET Wallet},
         txn[s].at = "write", Wrote(s, rows), UNCHANGED <<subs, registry, met>>,
         DOMAIN rows \subseteq txn[s].wallet,
         \A w \in Mine(s) \intersect txn[s].wallet :
           Says(IF w \in DOMAIN rows THEN rows[w] ELSE registry[w], Asked(s, w))
  PROVE  HealInv'
<1>1. PICK merged : merged = [w \in DOMAIN txn[s].rows \union DOMAIN rows |->
                               IF w \in DOMAIN rows THEN rows[w] ELSE txn[s].rows[w]]
  OBVIOUS
<1>2. PICK t : t = [txn[s] EXCEPT !.at = "count", !.wallet = {}, !.seen = Unwatched, !.rows = merged]
  OBVIOUS
<1>3. txn[s] \in Txn
  BY DEF Inv, TypeOK
<1>4. txn' = [txn EXCEPT ![s] = t] /\ txn'[s] = t
  BY <1>1, <1>2 DEF Wrote, Inv, TypeOK
<1>5. /\ t.at = "count" /\ t.ops = txn[s].ops /\ t.wallet = {} /\ t.rows = merged
      /\ t.todo = txn[s].todo /\ t.change = txn[s].change /\ t.owner = txn[s].owner
  BY <1>2, <1>3 DEF Txn
<1>6. Progress(s) /\ RightSoFar(s) /\ InTxn(s) /\ InSync(s)
  BY DEF HealInv, InTxn, InSync
<1>7. DOMAIN merged = DOMAIN txn[s].rows \union DOMAIN rows
  BY <1>1
<1>8. Progress(s)'
  BY <1>4, <1>5, <1>6, <1>7 DEF Progress, InSync
<1>9. RightSoFar(s)'
  <2>1. Mine(s)' = Mine(s) /\ Mine(s) \subseteq Wallet
    BY <1>3, <1>4, <1>5, SomeWallets DEF Mine, Txn, Batch
  <2>2. ASSUME NEW w \in Mine(s) \ txn[s].todo
        PROVE  Says(RowSeen(s, w)', Asked(s, w)')
    <3>1. Asked(s, w)' = Asked(s, w)
      BY <1>4, <1>5, <2>1, SameAsked
    <3>2. RowSeen(s, w)' = IF w \in DOMAIN merged THEN merged[w] ELSE registry[w]
      BY <1>4, <1>5 DEF RowSeen
    <3>3. CASE w \in txn[s].wallet
      <4>1. w \notin DOMAIN txn[s].rows
        BY <1>6, <3>3 DEF Progress
      <4>2. RowSeen(s, w)' = IF w \in DOMAIN rows THEN rows[w] ELSE registry[w]
        BY <1>1, <1>7, <3>2, <4>1
      <4> QED
        BY <3>1, <3>3, <4>2
    <3>4. CASE w \notin txn[s].wallet
      <4>1. RowSeen(s, w)' = RowSeen(s, w)
        BY <1>1, <1>7, <3>2, <3>4 DEF RowSeen
      <4> QED
        BY <1>6, <3>1, <3>4, <4>1 DEF RightSoFar
    <3> QED
      BY <3>3, <3>4
  <2>3. \A w \in Mine(s)' \ (txn'[s].todo \union txn'[s].wallet) : Says(RowSeen(s, w)', Asked(s, w)')
    BY <1>4, <1>5, <2>1, <2>2
  <2>4. txn'[s].wallet = {}
    BY <1>4, <1>5
  <2> QED
    BY <2>3, <2>4 DEF RightSoFar, Says, Strictest
<1> QED
  BY <1>4, <1>5, <1>6, <1>8, <1>9, LocalStep

(* No transaction is open at the start.                                    *)
LEMMA HealInit == Init => HealInv
<1> SUFFICES ASSUME Init PROVE HealInv
  OBVIOUS
<1>1. \A s \in Session : txn[s] = Idle
  BY DEF Init
<1>2. Idle.at = "idle" /\ Idle.todo = {} /\ Idle.wallet = {} /\ DOMAIN Idle.rows = {}
  BY DEF Idle, Nothing
<1> QED
  BY <1>1, <1>2 DEF HealInv, Progress, RightSoFar, InSync, Overlaps, InTxn

(* A session that ends leaves the others right, if it changed nothing of   *)
(* what they have for themselves.                                          *)
LEMMA GoesIdleRight ==
  ASSUME Inv, HealInv, NEW s \in Session,
         txn' = [txn EXCEPT ![s] = Idle], met' = [met EXCEPT ![s] = {}],
         \A q \in Session \ {s} : \A w \in Mine(q) :
            InTxn(q) => registry'[w] = registry[w] /\ \A o \in Owner : subs'[o][w] = subs[o][w]
  PROVE  HealInv'
<1>1. \A q \in Session : txn'[q] = IF q = s THEN Idle ELSE txn[q]
  BY DEF Inv, TypeOK
<1>2. \A q \in Session \ {s} : met'[q] = met[q]
  BY DEF Inv, TypeOK
<1>3. Idle.at = "idle" /\ Idle.todo = {} /\ Idle.wallet = {} /\ DOMAIN Idle.rows = {}
  BY DEF Idle, Nothing
<1>4. \A q \in Session \ {s} : Progress(q)' /\ RightSoFar(q)'
  BY <1>1, <1>2, OthersStayRight
<1>5. Progress(s)' /\ RightSoFar(s)'
  BY <1>1, <1>3 DEF Progress, RightSoFar, InSync
<1>6. Overlaps'
  BY <1>1, <1>2, <1>3, SameOverlaps DEF HealInv, InTxn
<1> QED
  BY <1>4, <1>5, <1>6 DEF HealInv

(* A commit touches no wallet that another open transaction believes to    *)
(* have for itself.                                                        *)
LEMMA CommitElsewhere ==
  ASSUME Inv, HealInv, NEW s \in Session, Commit(s), NEW q \in Session \ {s}, InTxn(q),
         NEW w \in Mine(q)
  PROVE  registry'[w] = registry[w] /\ \A o \in Owner : subs'[o][w] = subs[o][w]
<1>1. InTxn(s) /\ InSync(s) /\ txn[s].owner \in Owner /\ txn[q] \in Txn
  BY DEF Commit, InTxn, InSync, Inv, TypeOK
<1>2. w \in Wallet
  BY <1>1, SomeWallets DEF Mine, Txn, Batch
<1>3. w \notin DOMAIN txn[s].ops
  BY <1>1 DEF HealInv, Overlaps, Mine
<1>4. w \notin DOMAIN txn[s].rows /\ w \notin DOMAIN txn[s].change
  BY <1>1, <1>3 DEF HealInv, Progress
<1>5. registry'[w] = registry[w]
  BY <1>2, <1>4 DEF Commit
<1>6. \A o \in Owner : subs'[o] = IF o = txn[s].owner THEN Over(txn[s].change, o) ELSE subs[o]
  BY <1>1 DEF Commit, Inv, TypeOK
<1> QED
  BY <1>2, <1>4, <1>5, <1>6 DEF Over

(* Every step keeps what each open transaction has synchronised right.     *)
LEMMA HealStep ==
  ASSUME Inv, HealInv, Next PROVE HealInv'
<1>1. ASSUME NEW s \in Session, NEW t, txn[s].at = "idle", t.at = "lock",
             t.todo = {}, t.wallet = {}, DOMAIN t.rows = {},
             txn' = [txn EXCEPT ![s] = t], UNCHANGED <<subs, registry, met>>
      PROVE  HealInv'
  <2>1. txn'[s] = t
    BY <1>1 DEF Inv, TypeOK
  <2>2. Progress(s)' /\ RightSoFar(s)'
    BY <1>1, <2>1 DEF Progress, RightSoFar, InSync
  <2> QED
    BY <1>1, <2>2, LocalStep
<1>2. ASSUME NEW s \in Session, NEW o \in Owner, SendBatch(s, o) PROVE HealInv'
  <2>1. PICK ops \in Request :
          txn' = [txn EXCEPT ![s] = [Idle EXCEPT !.at = "lock", !.owner = o, !.ops = ops]]
    BY <1>2 DEF SendBatch
  <2>2. PICK t : t = [Idle EXCEPT !.at = "lock", !.owner = o, !.ops = ops]
    OBVIOUS
  <2>3. t.at = "lock" /\ t.todo = {} /\ t.wallet = {} /\ DOMAIN t.rows = {}
    BY <2>2 DEF Idle, Nothing
  <2> QED
    BY <1>1, <1>2, <2>1, <2>2, <2>3 DEF SendBatch
<1>3. ASSUME NEW s \in Session, NEW o \in Owner, SendRegister(s, o) PROVE HealInv'
  <2>1. PICK k \in Rank :
          txn' = [txn EXCEPT ![s] = [Idle EXCEPT !.at = "lock", !.owner = o, !.door = "register",
                                       !.ops = [w \in {o} |-> [op |-> "add", rank |-> k]]]]
    BY <1>3 DEF SendRegister
  <2>2. PICK t : t = [Idle EXCEPT !.at = "lock", !.owner = o, !.door = "register",
                        !.ops = [w \in {o} |-> [op |-> "add", rank |-> k]]]
    OBVIOUS
  <2>3. t.at = "lock" /\ t.todo = {} /\ t.wallet = {} /\ DOMAIN t.rows = {}
    BY <2>2 DEF Idle, Nothing
  <2> QED
    BY <1>1, <1>3, <2>1, <2>2, <2>3 DEF SendRegister
<1>4. ASSUME NEW s \in Session, Lock(s) PROVE HealInv'
  <2>1. \A q \in Session : txn'[q] = IF q = s THEN [txn[s] EXCEPT !.at = "apply"] ELSE txn[q]
    BY <1>4 DEF Lock, Inv, TypeOK
  <2>2. txn[s] \in Txn /\ txn[s].at = "lock"
    BY <1>4 DEF Lock, Inv, TypeOK
  <2>3. /\ txn'[s].at = "apply" /\ txn'[s].ops = txn[s].ops /\ txn'[s].todo = txn[s].todo
        /\ txn'[s].wallet = txn[s].wallet /\ txn'[s].rows = txn[s].rows
    BY <2>1, <2>2 DEF Txn
  <2>4. /\ \A q \in Session \ {s} : InTxn(q) =>
             met'[q] = met[q] \union (DOMAIN txn[q].ops \intersect DOMAIN txn[s].ops)
        /\ met'[s] = DOMAIN txn[s].ops
                       \intersect UNION {DOMAIN txn[p].ops : p \in {p \in Session : InTxn(p)}}
    BY <1>4 DEF Lock
  <2>5. \A q \in Session \ {s} : Progress(q)' /\ RightSoFar(q)'
    BY <1>4, <2>1, <2>4, OthersStayRight DEF Lock
  <2>6. Progress(s)' /\ RightSoFar(s)'
    BY <2>2, <2>3 DEF HealInv, Progress, RightSoFar, InSync
  <2>7. Overlaps'
    <3> SUFFICES ASSUME NEW p \in Session, NEW q \in Session, p # q, InTxn(p)', InTxn(q)'
                 PROVE  DOMAIN txn[p].ops \intersect DOMAIN txn[q].ops \subseteq met'[p]
      BY <2>1, <2>3 DEF Overlaps
    <3>1. p # s => InTxn(p)
      BY <2>1 DEF InTxn
    <3>2. q # s => InTxn(q)
      BY <2>1 DEF InTxn
    <3> QED
      BY <2>4, <3>1, <3>2 DEF HealInv, Overlaps
  <2> QED
    BY <2>5, <2>6, <2>7 DEF HealInv
<1>5. ASSUME NEW s \in Session, Apply(s) PROVE HealInv'
  <2>1. PICK change : change = Applied(txn[s].ops, subs[txn[s].owner])
    OBVIOUS
  <2>2. PICK t : t = [txn[s] EXCEPT !.at = "count", !.change = change, !.todo = Touched(txn[s].ops)]
    OBVIOUS
  <2>3. /\ txn' = [txn EXCEPT ![s] = t] /\ txn'[s] = t /\ txn[s] \in Txn
        /\ UNCHANGED <<subs, registry, met>> /\ txn[s].at = "apply"
    BY <1>5, <2>1, <2>2 DEF Apply, Inv, TypeOK
  <2>4. /\ t.at = "count" /\ t.ops = txn[s].ops /\ t.todo = DOMAIN txn[s].ops
        /\ t.wallet = txn[s].wallet /\ t.rows = txn[s].rows /\ t.change = change
    BY <2>2, <2>3 DEF Txn, Touched
  <2>5. txn[s].wallet = {} /\ DOMAIN txn[s].rows = {} /\ DOMAIN change = DOMAIN txn[s].ops
    BY <2>1, <2>3 DEF HealInv, Progress, InSync, Applied
  <2>6. Progress(s)'
    BY <2>3, <2>4, <2>5 DEF Progress, InSync
  <2>7. RightSoFar(s)'
    BY <2>3, <2>4, <2>5 DEF RightSoFar, Mine
  <2> QED
    BY <2>3, <2>4, <2>6, <2>7, LocalStep DEF InTxn
<1>6. ASSUME NEW s \in Session, Refuse(s) \/ Abort(s) PROVE HealInv'
  <2>1. /\ txn' = [txn EXCEPT ![s] = Idle] /\ met' = [met EXCEPT ![s] = {}]
        /\ UNCHANGED <<subs, registry>>
    BY <1>6 DEF Refuse, Abort
  <2> QED
    BY <2>1, GoesIdleRight
<1>7. ASSUME NEW s \in Session, NEW w \in Wallet, Count(s, w) PROVE HealInv'
  <2>1. PICK k \in Ranks :
          /\ Strictest(k, Asked(s, w))
          /\ txn' = [txn EXCEPT ![s].at = "write", ![s].wallet = {w}, ![s].todo = @ \ {w},
                                ![s].seen = k]
    BY <1>7 DEF Count
  <2>2. PICK t : t = [txn[s] EXCEPT !.at = "write", !.wallet = {w}, !.todo = @ \ {w}, !.seen = k]
    OBVIOUS
  <2>3. /\ txn' = [txn EXCEPT ![s] = t] /\ txn'[s] = t /\ txn[s] \in Txn
        /\ UNCHANGED <<subs, registry, met>> /\ txn[s].at = "count" /\ w \in txn[s].todo
    BY <1>7, <2>1, <2>2 DEF Count, Inv, TypeOK
  <2>4. /\ t.at = "write" /\ t.ops = txn[s].ops /\ t.todo = txn[s].todo \ {w}
        /\ t.wallet = {w} /\ t.rows = txn[s].rows /\ t.change = txn[s].change
        /\ t.seen = k /\ t.owner = txn[s].owner
    BY <2>2, <2>3 DEF Txn
  <2>5. Progress(s) /\ RightSoFar(s) /\ InSync(s) /\ txn[s].wallet = {}
    BY <2>3 DEF HealInv, Progress, InSync
  <2>6. Progress(s)'
    BY <2>3, <2>4, <2>5 DEF Progress, InSync
  <2>7. RightSoFar(s)'
    <3>1. Mine(s)' = Mine(s) /\ Mine(s) \subseteq Wallet
      BY <2>3, <2>4, SomeWallets DEF Mine, Txn, Batch
    <3>2. ASSUME NEW v \in Wallet PROVE Asked(s, v)' = Asked(s, v) /\ RowSeen(s, v)' = RowSeen(s, v)
      BY <2>3, <2>4, SameAsked DEF RowSeen
    <3>3. ASSUME NEW v \in Mine(s)' \ (txn'[s].todo \union txn'[s].wallet)
          PROVE  Says(RowSeen(s, v)', Asked(s, v)')
      <4>1. v \in Mine(s) \ (txn[s].todo \union txn[s].wallet) /\ v \in Wallet
        BY <2>3, <2>4, <2>5, <3>1
      <4> QED
        BY <2>5, <3>2, <4>1 DEF RightSoFar
    <3>4. ASSUME NEW v \in Mine(s)' \intersect txn'[s].wallet
          PROVE  Strictest(txn'[s].seen, Asked(s, v)')
      <4>1. v = w
        BY <2>3, <2>4
      <4> QED
        BY <2>1, <2>3, <2>4, <3>2, <4>1
    <3> QED
      BY <3>3, <3>4 DEF RightSoFar, Says, Strictest
  <2> QED
    BY <2>3, <2>4, <2>5, <2>6, <2>7, LocalStep DEF InTxn
<1>8. ASSUME NEW s \in Session, Deactivate(s) PROVE HealInv'
  <2>1. PICK rows : rows = [w \in {w \in txn[s].wallet : registry[w] # Absent} |->
                             [registry[w] EXCEPT !.active = FALSE]]
    OBVIOUS
  <2>2. /\ txn[s].at = "write" /\ txn[s].seen = Unwatched /\ Wrote(s, rows)
        /\ UNCHANGED <<subs, registry, met>>
    BY <1>8, <2>1 DEF Deactivate
  <2>3. txn[s].wallet \subseteq Wallet
    BY DEF Inv, TypeOK, Txn
  <2>4. rows \in [{w \in txn[s].wallet : registry[w] # Absent} -> Row]
    BY <2>1, <2>3 DEF Inv, TypeOK, Row
  <2>5. rows \in UNION {[ws -> Row] : ws \in SUBSET Wallet} /\ DOMAIN rows \subseteq txn[s].wallet
    BY <2>3, <2>4
  <2>6. ASSUME NEW w \in Mine(s) \intersect txn[s].wallet
        PROVE  Says(IF w \in DOMAIN rows THEN rows[w] ELSE registry[w], Asked(s, w))
    <3>1. Strictest(txn[s].seen, Asked(s, w))
      BY <2>2 DEF HealInv, RightSoFar, InSync
    <3>2. Asked(s, w) = {}
      BY <2>2, <3>1, UnwatchedNotAsked, StrictestOfSome
    <3>3. registry[w] \in Row /\ Absent.active = FALSE
      BY <2>3 DEF Inv, TypeOK, Absent
    <3>4. ~(IF w \in DOMAIN rows THEN rows[w] ELSE registry[w]).active
      BY <2>1, <3>3 DEF Row
    <3> QED
      BY <3>2, <3>4 DEF Says
  <2> QED
    BY <2>2, <2>5, <2>6, WroteRight
<1>9. ASSUME NEW s \in Session, Activate(s) PROVE HealInv'
  <2>1. PICK rows : rows = [w \in txn[s].wallet |-> [active |-> TRUE, rank |-> txn[s].seen]]
    OBVIOUS
  <2>2. /\ txn[s].at = "write" /\ txn[s].seen # Unwatched /\ Wrote(s, rows)
        /\ UNCHANGED <<subs, registry, met>>
    BY <1>9, <2>1 DEF Activate
  <2>3. txn[s].wallet \subseteq Wallet /\ txn[s].seen \in Ranks
    BY DEF Inv, TypeOK, Txn
  <2>4. rows \in [txn[s].wallet -> Row]
    BY <2>1, <2>3 DEF Row
  <2>5. rows \in UNION {[ws -> Row] : ws \in SUBSET Wallet} /\ DOMAIN rows \subseteq txn[s].wallet
    BY <2>3, <2>4
  <2>6. ASSUME NEW w \in Mine(s) \intersect txn[s].wallet
        PROVE  Says(IF w \in DOMAIN rows THEN rows[w] ELSE registry[w], Asked(s, w))
    <3>1. Strictest(txn[s].seen, Asked(s, w))
      BY <2>2 DEF HealInv, RightSoFar, InSync
    <3>2. Asked(s, w) # {}
      BY <2>2, <3>1, UnwatchedNotAsked, StrictestOfSome
    <3>3. w \in DOMAIN rows /\ rows[w].active = TRUE /\ rows[w].rank = txn[s].seen
      BY <2>1
    <3> QED
      BY <3>1, <3>2, <3>3 DEF Says
  <2> QED
    BY <2>2, <2>5, <2>6, WroteRight
<1>10. ASSUME NEW s \in Session, Commit(s) PROVE HealInv'
  <2>1. txn' = [txn EXCEPT ![s] = Idle] /\ met' = [met EXCEPT ![s] = {}]
    BY <1>10 DEF Commit
  <2> QED
    BY <1>10, <2>1, CommitElsewhere, GoesIdleRight
<1> QED
  BY <1>2, <1>3, <1>4, <1>5, <1>6, <1>7, <1>8, <1>9, <1>10 DEF Next

(* What a transaction has made right and nobody else has touched is right  *)
(* when it commits.                                                        *)
LEMMA CommitHeals ==
  ASSUME Inv, HealInv, NEW s \in Session, Commit(s), NEW w \in Mine(s)
  PROVE  Agrees(w)'
<1>1. /\ InSync(s) /\ txn[s].owner \in Owner /\ txn[s] \in Txn /\ txn[s].todo = {}
      /\ txn[s].at = "count"
  BY DEF Commit, InSync, Inv, TypeOK
<1>2. w \in Wallet
  BY <1>1, SomeWallets DEF Mine, Txn, Batch
<1>3. Says(RowSeen(s, w), Asked(s, w))
  BY <1>1 DEF HealInv, Progress, RightSoFar
<1>4. registry'[w] = RowSeen(s, w)
  BY <1>2 DEF Commit, RowSeen
<1>5. \A o \in Owner : subs'[o] = IF o = txn[s].owner THEN Over(txn[s].change, o) ELSE subs[o]
  BY <1>1 DEF Commit, Inv, TypeOK
<1>6. {subs'[o][w] : o \in Owner} \ {Unwatched} = Asked(s, w)
  BY <1>5 DEF Asked
<1> QED
  BY <1>3, <1>4, <1>6 DEF Agrees, Says

(* Whatever the registry said before, a commit leaves right the row of     *)
(* every wallet that it touched and no other open transaction did, for any *)
(* number of sessions, owners and wallets (watchlist_sync_registry).       *)
THEOREM RegistryIsHealed == Spec => Heals
<1>1. Init => Inv /\ HealInv
  BY InitInv, HealInit
<1>2. Inv /\ HealInv /\ [Next]_vars => (Inv /\ HealInv)'
  <2> SUFFICES ASSUME Inv, HealInv, [Next]_vars PROVE Inv' /\ HealInv'
    OBVIOUS
  <2>1. Inv'
    BY NextInv
  <2>2. CASE Next
    BY <2>1, <2>2, HealStep
  <2>3. CASE UNCHANGED vars
    <3>1. UNCHANGED <<subs, registry, txn, met>>
      BY <2>3 DEF vars
    <3>2. \A q \in Session : Progress(q)' /\ RightSoFar(q)'
      BY <3>1, OthersStayRight
    <3>3. Overlaps'
      BY <3>1 DEF HealInv, Overlaps, InTxn
    <3> QED
      BY <2>1, <3>2, <3>3 DEF HealInv
  <2> QED
    BY <2>2, <2>3
<1>3. Inv /\ HealInv /\ [Next]_vars =>
        [\A s \in Session : Commit(s) => \A w \in DOMAIN txn[s].ops \ met[s] : Agrees(w)']_vars
  BY CommitHeals DEF Mine
<1> QED
  BY <1>1, <1>2, <1>3, PTL DEF Spec, Heals
=============================================================================
