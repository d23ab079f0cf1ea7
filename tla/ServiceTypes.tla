---------------------------- MODULE ServiceTypes ----------------------------
(***************************************************************************)
(* Type correctness of the services: clocks within their bounds, one link  *)
(* per chat, one membership per user, a limiter's map within its size.     *)
(***************************************************************************)
EXTENDS ContractProofs, ExitPermitsProofs

(* A step of the whole is a step of the service in focus.                  *)
LEMMA StepInFocus ==
  ASSUME [Next]_vars
  PROVE  /\ focus' = focus
         /\ focus = "permits" => [Permits!Next]_(Permits!vars)
         /\ focus = "funds" => [Funds!Next]_(Funds!vars)
         /\ focus = "drill" => [Drill!Next]_(Drill!vars)
         /\ focus = "limiter" => [Limiter!Next]_(Limiter!vars)
         /\ focus = "chats" => [Chats!Next]_(Chats!vars)
         /\ focus = "blind" => [Blind!Next]_(Blind!vars)
         /\ focus = "trials" => [Trials!Next]_(Trials!vars)
         /\ focus = "identity" => [Identity!Next]_(Identity!vars)
<1>1. focus' = focus
  BY DEF Next, Others, vars
<1>2. ASSUME focus = "permits" PROVE [Permits!Next]_(Permits!vars)
  BY <1>2 DEF Next, vars, permitVars, Permits!vars, Permits!chain, Permits!table, Permits!locals
<1>3. ASSUME focus = "funds" PROVE [Funds!Next]_(Funds!vars)
  BY <1>3 DEF Next, vars, fundVars, Funds!vars, Funds!roles
<1>4. ASSUME focus = "drill" PROVE [Drill!Next]_(Drill!vars)
  BY <1>4 DEF Next, vars, drillVars, Drill!vars, Drill!table, Drill!cache, Drill!reads, Drill!ops,
     Drill!pos
<1>5. ASSUME focus = "limiter" PROVE [Limiter!Next]_(Limiter!vars)
  BY <1>5 DEF Next, vars, limitVars, Limiter!vars
<1>6. ASSUME focus = "chats" PROVE [Chats!Next]_(Chats!vars)
  BY <1>6 DEF Next, vars, chatVars, Chats!vars
<1>7. ASSUME focus = "blind" PROVE [Blind!Next]_(Blind!vars)
  BY <1>7 DEF Next, vars, blindVars, Blind!vars
<1>8. ASSUME focus = "trials" PROVE [Trials!Next]_(Trials!vars)
  BY <1>8 DEF Next, vars, trialVars, Trials!vars, Trials!history
<1>9. ASSUME focus = "identity" PROVE [Identity!Next]_(Identity!vars)
  BY <1>9 DEF Next, vars, signInVars, Identity!vars
<1> QED
  BY <1>1, <1>2, <1>3, <1>4, <1>5, <1>6, <1>7, <1>8, <1>9

----------------------------------------------------------------------------
(* The escrow.                                                             *)

(* The escrow keeps its types: every step of it, one case each.            *)
LEMMA FundsTyped ==
  ASSUME FundTime \in Nat, MaxDonations \in Nat, Team \in Account
  PROVE  /\ Funds!Init => Funds!TypeOK
         /\ Funds!TypeOK /\ [Funds!Next]_(Funds!vars) => Funds!TypeOK'
<1>1. ASSUME Funds!Init PROVE Funds!TypeOK
  <2>1. timestamp \in 1 .. FundTime + 1 /\ balance \in Nat /\ swept \in Nat /\ donations \in 0 .. MaxDonations
    BY <1>1 DEF Funds!Init
  <2>2. /\ owner \in Account /\ treasury \in Account /\ shipped \in BOOLEAN
        /\ depositTime \in [Account -> Nat] /\ refunded \subseteq Account
    BY <1>1 DEF Funds!Init
  <2> QED
    BY <2>1, <2>2 DEF Funds!TypeOK
<1>2. ASSUME Funds!TypeOK, [Funds!Next]_(Funds!vars) PROVE Funds!TypeOK'
  <2> USE <1>2 DEF Funds!TypeOK, Funds!roles
  <2>1. ASSUME NEW a \in Account, Funds!Deposit(a) PROVE Funds!TypeOK'
    <3>1. depositTime' = [depositTime EXCEPT ![a] = timestamp] /\ balance' = balance + 1
          /\ UNCHANGED <<timestamp, owner, treasury, shipped, refunded, swept, donations>>
      BY <2>1 DEF Funds!Deposit
    <3>2. timestamp \in Nat
      OBVIOUS
    <3>3. depositTime' \in [Account -> Nat]
      BY <3>1, <3>2
    <3> QED
      BY <3>1, <3>3
  <2>4. ASSUME NEW a \in Account, Funds!Ship(a) PROVE Funds!TypeOK'
    <3>1. /\ shipped' \in BOOLEAN /\ swept' = balance /\ balance' = 0
          /\ UNCHANGED <<timestamp, owner, treasury, depositTime, refunded, donations>>
      BY <2>4 DEF Funds!Ship
    <3> QED
      BY <3>1
  <2>5. ASSUME NEW a \in Account, Funds!ClaimRefund(a) PROVE Funds!TypeOK'
    <3>1. /\ refunded' = refunded \union {a} /\ balance >= 1 /\ balance' = balance - 1
          /\ UNCHANGED <<timestamp, owner, treasury, shipped, depositTime, swept, donations>>
      BY <2>5 DEF Funds!ClaimRefund
    <3> QED
      BY <3>1
  <2>2. ASSUME NEW a \in Account, NEW b \in Account,
               Funds!TransferOwnership(a, b) \/ Funds!SetTreasury(a, b)
        PROVE  Funds!TypeOK'
    BY <2>2 DEF Funds!TransferOwnership, Funds!SetTreasury
  <2>3. CASE Funds!Donate \/ Funds!NextSecond \/ UNCHANGED Funds!vars
    BY <2>3 DEF Funds!Donate, Funds!NextSecond, Funds!vars
  <2> QED
    BY <1>2, <2>1, <2>2, <2>3, <2>4, <2>5 DEF Funds!Next
<1> QED
  BY <1>1, <1>2

----------------------------------------------------------------------------
(* The blind page.                                                         *)

(* The blind page keeps its types: the count stops at the threshold.       *)
LEMMA BlindTyped ==
  ASSUME Threshold \in Nat
  PROVE  /\ Blind!Init => Blind!TypeOK
         /\ Blind!TypeOK /\ [Blind!Next]_(Blind!vars) => Blind!TypeOK'
<1>1. ASSUME Blind!Init PROVE Blind!TypeOK
  <2>1. consecutive \in 0 .. Threshold
    BY <1>1 DEF Blind!Init
  <2>2. /\ tick \in [Tick -> {"off", "empty", "scored"}]
        /\ fresh \in BOOLEAN /\ watching \in BOOLEAN /\ raised \in BOOLEAN /\ barren \in BOOLEAN
    BY <1>1 DEF Blind!Init
  <2> QED
    BY <2>1, <2>2 DEF Blind!TypeOK
<1>2. ASSUME Blind!TypeOK, [Blind!Next]_(Blind!vars) PROVE Blind!TypeOK'
  <2> USE <1>2 DEF Blind!TypeOK
  <2>1. ASSUME NEW t \in Tick, Blind!EndTick(t) PROVE Blind!TypeOK'
    <3>1. /\ tick' = [tick EXCEPT ![t] = "off"] /\ fresh' = FALSE /\ watching' = watching
          /\ raised' \in BOOLEAN /\ barren' \in BOOLEAN
      BY <2>1 DEF Blind!EndTick
    <3>2. consecutive' \in 0 .. Threshold
      BY <2>1 DEF Blind!EndTick, Blind!Observed
    <3> QED
      BY <3>1, <3>2
  <2>2. ASSUME NEW t \in Tick, Blind!StartTick(t) \/ Blind!ScoreLegs(t) PROVE Blind!TypeOK'
    BY <2>2 DEF Blind!StartTick, Blind!ScoreLegs
  <2>3. CASE Blind!Reload \/ UNCHANGED Blind!vars
    BY <2>3 DEF Blind!Reload, Blind!vars
  <2> QED
    BY <2>1, <2>2, <2>3 DEF Blind!Next
<1> QED
  BY <1>1, <1>2

----------------------------------------------------------------------------
(* The permits.  Their proofs type the rows and the requests; what is left *)
(* is the bound on the chain's clock and what the table tells.             *)

PermitExtra ==
  /\ now \in 0 .. PermitTime
  /\ used \subseteq {PermitNonce[p] : p \in Permit}
  /\ told \subseteq Permit
  /\ task \in [Request -> Permits!Reader \union {"none", "submit", "evidence"}]

(* Only the chain moves the clock, and only to its bound.                  *)
LEMMA PermitExtraKept ==
  ASSUME PermitTime \in Nat, PermitInv, PermitExtra, [Permits!Next]_(Permits!vars)
  PROVE  PermitExtra'
<1>0. fetched \in [Request -> SUBSET Permit]
  BY DEF PermitInv, Shape
<1> DEFINE Tasks == Permits!Reader \union {"none", "submit", "evidence"}
<1>1. CASE Permits!Chain
  <2>4. now' = now \/ (now < PermitTime /\ now' = now + 1)
    BY <1>1 DEF Permits!Chain, Permits!RevokeAll, Permits!NextBlock, Permits!InvalidateUnorderedNonces,
       Permits!ConsumePermit
  <2>1. now' \in 0 .. PermitTime
    BY <2>4 DEF PermitExtra
  <2>2. used' \subseteq {PermitNonce[p] : p \in Permit}
    BY <1>1 DEF Permits!Chain, Permits!RevokeAll, Permits!NextBlock, Permits!InvalidateUnorderedNonces,
       Permits!ConsumePermit, PermitExtra
  <2>3. UNCHANGED <<told, task>>
    BY <1>1 DEF Permits!Chain, Permits!RevokeAll, Permits!NextBlock, Permits!InvalidateUnorderedNonces,
       Permits!ConsumePermit, Permits!table, Permits!locals
  <2> QED
    BY <2>1, <2>2, <2>3 DEF PermitExtra
<1>2. ASSUME NEW r \in Request, Permits!Backend(r) PROVE PermitExtra'
  <2>1. UNCHANGED <<now, used>>
    BY <1>2 DEF Permits!Backend, Permits!SubmitDelegation, Permits!ReadLiveness, Permits!InsertDelegation,
       Permits!BeginReconcile, Permits!ListActive, Permits!ReadEpoch, Permits!ReadNonce,
       Permits!SetStatus, Permits!AttachEvidence, Permits!Reply, Permits!Fail, Permits!chain
  <2>2. told' \subseteq Permit
    <3>1. CASE Permits!Reply(r)
      BY <1>0, <3>1 DEF Permits!Reply, PermitExtra
    <3>2. CASE ~Permits!Reply(r)
      BY <1>2, <3>2 DEF Permits!Backend, Permits!SubmitDelegation, Permits!ReadLiveness,
         Permits!InsertDelegation, Permits!BeginReconcile, Permits!ListActive, Permits!ReadEpoch,
         Permits!ReadNonce, Permits!SetStatus, Permits!AttachEvidence, Permits!Fail, Permits!table,
         PermitExtra
    <3> QED
      BY <3>1, <3>2
  <2>3. task' = task \/ \E x \in Tasks : task' = [task EXCEPT ![r] = x]
    BY <1>2 DEF Permits!Backend, Permits!SubmitDelegation, Permits!ReadLiveness, Permits!InsertDelegation,
       Permits!BeginReconcile, Permits!ListActive, Permits!ReadEpoch, Permits!ReadNonce,
       Permits!SetStatus, Permits!AttachEvidence, Permits!Reply, Permits!Fail, Permits!Idle
  <2>4. task' \in [Request -> Tasks]
    BY <2>3 DEF PermitExtra
  <2> QED
    BY <2>1, <2>2, <2>4 DEF PermitExtra
<1>3. CASE (\E p \in Permit : Permits!Prune(p)) \/ UNCHANGED Permits!vars
  <2>1. UNCHANGED <<now, used, told, task>>
    BY <1>3 DEF Permits!Prune, Permits!vars, Permits!chain, Permits!table, Permits!locals
  <2> QED
    BY <2>1 DEF PermitExtra
<1> QED
  BY <1>1, <1>2, <1>3 DEF Permits!Next

(* A request's readings are moments of the past.                           *)
LEMMA PermitsTyped ==
  ASSUME PermitTime \in Nat, PermitInv, PermitExtra PROVE Permits!TypeOK
<1>1. /\ now \in 0 .. PermitTime /\ epoch \in Nat /\ epoch <= now
      /\ started \in [Request -> Nat] /\ seenEpoch \in [Request -> Nat]
  BY DEF PermitInv, Shape, PermitExtra
<1>2. \A r \in Request : started[r] <= now /\ seenEpoch[r] <= epoch
  BY DEF PermitInv, Judged
<1>3. epoch \in 0 .. PermitTime
  BY <1>1
<1>4. \A r \in Request : started[r] \in 0 .. PermitTime /\ seenEpoch[r] \in 0 .. PermitTime
  BY <1>1, <1>2
<1>5. started \in [Request -> 0 .. PermitTime] /\ seenEpoch \in [Request -> 0 .. PermitTime]
  BY <1>1, <1>4
<1>6. /\ row \in [Permit -> Permits!Terminal \union {Permits!Active, "none"}]
      /\ at \in [Request -> Step] /\ arg \in [Request -> SUBSET Permit]
      /\ todo \in [Request -> SUBSET (Permit \union {"epoch", "nonce"})]
      /\ fetched \in [Request -> SUBSET Permit] /\ deadAtStart \in [Request -> SUBSET Permit]
      /\ verdict \in [Request -> [Permit -> Permits!Terminal \union {Permits!Active}]]
  BY DEF PermitInv, Shape
<1> QED
  BY <1>1, <1>3, <1>5, <1>6 DEF PermitExtra, Permits!TypeOK, Step

----------------------------------------------------------------------------
(* The market simulation.                                                  *)

(* The rows of the table and the operators that write them.                *)
LEMMA DrillRowsTyped ==
  ASSUME DrillTime \in Nat \ {0}, DrillWindow \in Nat, Drill!TypeOK, [Drill!Next]_(Drill!vars)
  PROVE  /\ instant' \in 1 .. DrillTime
         /\ cleared' \subseteq Scenario /\ expires' \in [Scenario -> 0 .. DrillTime + DrillWindow]
         /\ op' \in [Operator -> {"idle", "clear", "insert", "show"}]
         /\ wants' \in [Operator -> Drill!Shown]
<1> DEFINE Ops == {"idle", "clear", "insert", "show"}
<1>0. /\ instant \in 1 .. DrillTime /\ cleared \subseteq Scenario
      /\ expires \in [Scenario -> 0 .. DrillTime + DrillWindow]
      /\ op \in [Operator -> Ops] /\ wants \in [Operator -> Drill!Shown]
  BY DEF Drill!TypeOK
<1>1. instant' \in 1 .. DrillTime
  BY <1>0 DEF Drill!Next, Drill!Answer, Drill!Land, Drill!BeginArm, Drill!BeginClear,
     Drill!Clear, Drill!Insert, Drill!OperatorFails, Drill!Show,
     Drill!BeginQuery, Drill!Score, Drill!Keep, Drill!Respond, Drill!NextSecond, Drill!vars
<1>2. cleared' \subseteq Scenario
  <2>1. cleared' = cleared \/ cleared' = cleared \union Drill!Armed
    BY RowsLeft DEF Drill!Clear, Drill!Insert, Drill!table
  <2> QED
    BY <1>0, <2>1 DEF Drill!Armed
<1>3. expires' \in [Scenario -> 0 .. DrillTime + DrillWindow]
  <2>1. expires' = expires \/ \E o \in Operator, d \in 1 .. DrillWindow : expires' = [expires EXCEPT ![wants[o]] = instant + d]
    BY RowsLeft DEF Drill!Clear, Drill!Insert, Drill!table
  <2>2. ASSUME NEW d \in 1 .. DrillWindow PROVE instant + d \in 0 .. DrillTime + DrillWindow
    BY <1>0
  <2> QED
    BY <1>0, <2>1, <2>2
<1>4. /\ op' = op \/ \E o \in Operator, x \in Ops : op' = [op EXCEPT ![o] = x]
      /\ wants' = wants \/ \E o \in Operator, s \in Drill!Shown : wants' = [wants EXCEPT ![o] = s]
  BY DEF Drill!Next, Drill!Answer, Drill!Land, Drill!BeginArm, Drill!BeginClear,
     Drill!Clear, Drill!Insert, Drill!OperatorFails, Drill!Show, Drill!BeginQuery, Drill!Score,
     Drill!Keep, Drill!Respond, Drill!NextSecond, Drill!ops, Drill!vars, Drill!Shown
<1>5. op' \in [Operator -> Ops] /\ wants' \in [Operator -> Drill!Shown]
  BY <1>0, <1>4
<1> QED
  BY <1>1, <1>2, <1>3, <1>5

(* The cache and the reads behind it.                                      *)
LEMMA DrillReadsTyped ==
  ASSUME DrillTime \in Nat \ {0}, Drill!TypeOK, [Drill!Next]_(Drill!vars)
  PROVE  /\ cached' \in Drill!Shown /\ fetchedAt' \in 0 .. DrillTime /\ inFlight' \in BOOLEAN
         /\ flight' \in [Flight -> {"off", "asked", "answered"}] /\ answer' \in [Flight -> Drill!Shown]
         /\ past' \subseteq Scenario
<1> DEFINE Reads == {"off", "asked", "answered"}
<1>0. /\ instant \in 1 .. DrillTime /\ cached \in Drill!Shown /\ fetchedAt \in 0 .. DrillTime
      /\ inFlight \in BOOLEAN /\ flight \in [Flight -> Reads] /\ answer \in [Flight -> Drill!Shown]
      /\ past \subseteq Scenario
  BY DEF Drill!TypeOK
<1>1. \/ UNCHANGED <<cached, fetchedAt, past>>
      \/ \E f \in Flight : Drill!Land(f)
  BY DEF Drill!Next, Drill!Answer, Drill!BeginArm, Drill!BeginClear, Drill!Clear, Drill!Insert,
     Drill!OperatorFails, Drill!Show, Drill!BeginQuery, Drill!Score, Drill!Keep, Drill!Respond,
     Drill!NextSecond, Drill!cache, Drill!vars
<1>2. ASSUME NEW f \in Flight, Drill!Land(f)
      PROVE  cached' \in Drill!Shown /\ past' \subseteq Scenario /\ fetchedAt' \in 0 .. DrillTime
  <2>1. answer[f] \in Drill!Shown /\ instant \in 0 .. DrillTime
    BY <1>0
  <2> QED
    BY <1>0, <1>2, <2>1 DEF Drill!Land, Drill!Shown
<1>3. cached' \in Drill!Shown /\ past' \subseteq Scenario /\ fetchedAt' \in 0 .. DrillTime
  BY <1>0, <1>1, <1>2
<1>4. inFlight' \in BOOLEAN
  BY <1>0, ReadsLeft DEF Drill!Refresh, Drill!Answer, Drill!Land, Drill!cache
<1>5. flight' = flight \/ \E f \in Flight, x \in Reads : flight' = [flight EXCEPT ![f] = x]
  BY ReadsLeft DEF Drill!Refresh, Drill!Answer, Drill!Land, Drill!reads
<1>6. answer' = answer \/ \E f \in Flight, s \in Drill!Shown : answer' = [answer EXCEPT ![f] = s]
  BY ReadsLeft DEF Drill!Refresh, Drill!Answer, Drill!Land, Drill!reads, Drill!Armed, Drill!Shown
<1>7. flight' \in [Flight -> Reads] /\ answer' \in [Flight -> Drill!Shown]
  BY <1>0, <1>5, <1>6
<1> QED
  BY <1>3, <1>4, <1>7

(* The requests for positions.                                             *)
LEMMA DrillQueriesTyped ==
  ASSUME DrillTime \in Nat \ {0}, Drill!TypeOK, [Drill!Next]_(Drill!vars)
  PROVE  /\ query' \in [Query -> {"idle", "reading", "scoring", "reply"}]
         /\ marker' \in [Query -> Drill!Shown] /\ numbers' \in [Query -> Drill!Shown]
         /\ posCache' \in [at : -1 .. DrillTime, id : Drill!Shown, numbers : Drill!Shown]
<1> DEFINE Places == {"idle", "reading", "scoring", "reply"}
<1> DEFINE Kept == [at : -1 .. DrillTime, id : Drill!Shown, numbers : Drill!Shown]
<1>0. /\ instant \in 1 .. DrillTime /\ cached \in Drill!Shown
      /\ query \in [Query -> Places] /\ marker \in [Query -> Drill!Shown]
      /\ numbers \in [Query -> Drill!Shown] /\ posCache \in Kept
  BY DEF Drill!TypeOK
<1>1. /\ Drill!ActiveSimulation(cached) \in Drill!Shown /\ Drill!None \in Drill!Shown
      /\ posCache.numbers \in Drill!Shown
  BY <1>0 DEF Drill!ActiveSimulation, Drill!Shown
<1>2. CASE UNCHANGED Drill!pos
  BY <1>0, <1>2 DEF Drill!pos
<1>3. ASSUME NEW q \in Query, Drill!BeginQuery(q) \/ Drill!Score(q) \/ Drill!Respond(q)
      PROVE  /\ query' \in [Query -> Places] /\ marker' \in [Query -> Drill!Shown]
             /\ numbers' \in [Query -> Drill!Shown] /\ posCache' \in Kept
  <2>1. /\ \E x \in Places : query' = [query EXCEPT ![q] = x]
        /\ posCache' = posCache
    BY <1>3 DEF Drill!BeginQuery, Drill!Score, Drill!Respond
  <2>2. marker' = marker \/ \E s \in Drill!Shown : marker' = [marker EXCEPT ![q] = s]
    BY <1>1, <1>3 DEF Drill!BeginQuery, Drill!Score, Drill!Respond
  <2>3. numbers[q] \in Drill!Shown
    BY <1>0
  <2>4. \E s \in Drill!Shown : numbers' = [numbers EXCEPT ![q] = s]
    BY <1>1, <1>3, <2>3 DEF Drill!BeginQuery, Drill!Score, Drill!Respond
  <2> QED
    BY <1>0, <2>1, <2>2, <2>4
<1>4. ASSUME NEW q \in Query, Drill!Keep(q)
      PROVE  /\ query' \in [Query -> Places] /\ marker' \in [Query -> Drill!Shown]
             /\ numbers' \in [Query -> Drill!Shown] /\ posCache' \in Kept
  <2>1. marker[q] \in Drill!Shown /\ numbers[q] \in Drill!Shown /\ instant \in -1 .. DrillTime
    BY <1>0
  <2>2. /\ posCache' = [at |-> instant, id |-> marker[q], numbers |-> numbers[q]]
        /\ query' = [query EXCEPT ![q] = "reply"] /\ UNCHANGED <<marker, numbers>>
    BY <1>4 DEF Drill!Keep
  <2>3. posCache' \in Kept
    BY <2>1, <2>2
  <2> QED
    BY <1>0, <2>2, <2>3
<1> QED
  BY <1>2, <1>3, <1>4 DEF Drill!Next, Drill!Answer, Drill!Land, Drill!BeginArm, Drill!BeginClear,
     Drill!Clear, Drill!Insert, Drill!OperatorFails, Drill!Show, Drill!NextSecond, Drill!vars

(* The simulation keeps its types.                                         *)
LEMMA DrillTyped ==
  ASSUME DrillTime \in Nat \ {0}, DrillWindow \in Nat
  PROVE  /\ Drill!Init => Drill!TypeOK
         /\ Drill!TypeOK /\ [Drill!Next]_(Drill!vars) => Drill!TypeOK'
<1>1. ASSUME Drill!Init PROVE Drill!TypeOK
  <2>1. Drill!None \in Drill!Shown /\ 0 \in 0 .. DrillTime + DrillWindow /\ 0 \in 0 .. DrillTime
        /\ 1 \in 1 .. DrillTime /\ -1 \in -1 .. DrillTime
    BY DEF Drill!Shown
  <2>2. /\ instant \in 1 .. DrillTime /\ cleared \subseteq Scenario
        /\ expires \in [Scenario -> 0 .. DrillTime + DrillWindow]
        /\ fetchedAt \in 0 .. DrillTime /\ past \subseteq Scenario
    BY <1>1, <2>1 DEF Drill!Init
  <2>3. /\ cached \in Drill!Shown /\ inFlight \in BOOLEAN
        /\ flight \in [Flight -> {"off", "asked", "answered"}] /\ answer \in [Flight -> Drill!Shown]
        /\ op \in [Operator -> {"idle", "clear", "insert", "show"}] /\ wants \in [Operator -> Drill!Shown]
    BY <1>1, <2>1 DEF Drill!Init
  <2>4. /\ query \in [Query -> {"idle", "reading", "scoring", "reply"}]
        /\ marker \in [Query -> Drill!Shown] /\ numbers \in [Query -> Drill!Shown]
    BY <1>1, <2>1 DEF Drill!Init
  <2>5. posCache \in [at : -1 .. DrillTime, id : Drill!Shown, numbers : Drill!Shown]
    BY <1>1, <2>1 DEF Drill!Init, Drill!NoPositions
  <2> QED
    BY <2>2, <2>3, <2>4, <2>5 DEF Drill!TypeOK
<1>2. ASSUME Drill!TypeOK, [Drill!Next]_(Drill!vars) PROVE Drill!TypeOK'
  <2>1. /\ instant' \in 1 .. DrillTime
        /\ cleared' \subseteq Scenario /\ expires' \in [Scenario -> 0 .. DrillTime + DrillWindow]
        /\ op' \in [Operator -> {"idle", "clear", "insert", "show"}]
        /\ wants' \in [Operator -> Drill!Shown]
    BY <1>2, DrillRowsTyped
  <2>2. /\ cached' \in Drill!Shown /\ fetchedAt' \in 0 .. DrillTime /\ inFlight' \in BOOLEAN
        /\ flight' \in [Flight -> {"off", "asked", "answered"}] /\ answer' \in [Flight -> Drill!Shown]
        /\ past' \subseteq Scenario
    BY <1>2, DrillReadsTyped
  <2>3. /\ query' \in [Query -> {"idle", "reading", "scoring", "reply"}]
        /\ marker' \in [Query -> Drill!Shown] /\ numbers' \in [Query -> Drill!Shown]
        /\ posCache' \in [at : -1 .. DrillTime, id : Drill!Shown, numbers : Drill!Shown]
    BY <1>2, DrillQueriesTyped
  <2> QED
    BY <2>1, <2>2, <2>3 DEF Drill!TypeOK, Drill!Shown
<1> QED
  BY <1>1, <1>2

----------------------------------------------------------------------------
(* Rate limits.                                                            *)

(* The map of a limiter is finite and within its size, however many        *)
(* clients there are.                                                      *)
LimiterExtra ==
  /\ now \in 0 .. LimiterTime
  /\ \A k \in Key : \A i \in 1 .. Len(hits[k]) : hits[k][i] >= 0
  /\ sweepBlockedUntil >= 0
  /\ IsFiniteSet(Limiter!Entries) /\ Cardinality(Limiter!Entries) <= MaxKeys

(* A request of k adds no entry but k's, and no time but this one.         *)
LEMMA JudgedTimes ==
  ASSUME LimiterSizes, now \in Nat, NEW k \in Key, NEW record \in [Key -> Seq(Int)],
         \A j \in Key : \A i \in 1 .. Len(record[j]) : record[j][i] >= 0,
         Limiter!Judge(k, record)
  PROVE  /\ \A j \in Key : \A i \in 1 .. Len(hits'[j]) : hits'[j][i] >= 0
         /\ \A j \in Key \ {k} : hits'[j] = record[j]
<1>1. PICK times, t, left, f :
        /\ times = record[k] /\ t = now
        /\ left = Limiter!Shifted(times, t) /\ f = Limiter!First(times, t)
  OBVIOUS
<1>2. times \in Seq(Int) /\ t \in Nat /\ \A i \in 1 .. Len(times) : times[i] >= 0
  BY <1>1
<1>3. IsShift(left, f, times)
  BY <1>1, <1>2, ShiftedIsShift
<1>4. left \in Seq(Int) /\ \A i \in 1 .. Len(left) : left[i] >= 0
  <2>1. /\ left \in Seq(Int) /\ f \in Nat \ {0} /\ f <= Len(times) + 1 /\ Len(times) \in Nat
        /\ Len(left) = Len(times) - f + 1
        /\ \A i \in 1 .. Len(left) : left[i] = times[f + i - 1]
    BY <1>2, <1>3 DEF IsShift
  <2>2. ASSUME NEW i \in 1 .. Len(left) PROVE f + i - 1 \in 1 .. Len(times)
    BY <2>1
  <2> QED
    BY <1>2, <2>1, <2>2
<1>5. Append(left, t) \in Seq(Int) /\ \A i \in 1 .. Len(Append(left, t)) : Append(left, t)[i] >= 0
  BY <1>2, <1>4
<1>6. PICK more : /\ hits' = [record EXCEPT ![k] = more]
                  /\ \A i \in 1 .. Len(more) : more[i] >= 0
  BY <1>1, <1>4, <1>5 DEF Limiter!Judge
<1> QED
  BY <1>6

(* A key is added where there is room, or after a sweep that made some.    *)
LEMMA LimiterExtraKept ==
  ASSUME LimiterSizes, SweepSizes, LimiterTime \in Nat, BudgetInv, SweepInv, SweepInv',
         LimiterExtra, [Limiter!Next]_(Limiter!vars)
  PROVE  LimiterExtra'
<1>0. /\ now \in 0 .. LimiterTime /\ hits \in [Key -> Seq(Int)]
      /\ \A k \in Key : \A i \in 1 .. Len(hits[k]) : hits[k][i] >= 0
      /\ sweepBlockedUntil >= 0 /\ sweepBlockedUntil \in Int /\ sweepBlockedUntil' \in Int
      /\ MaxKeys \in Nat /\ MinSweep \in Nat
      /\ IsFiniteSet(Limiter!Entries) /\ Cardinality(Limiter!Entries) <= MaxKeys
  BY DEF LimiterExtra, BudgetInv, LimiterShape, SweepInv, SweepSizes
<1> DEFINE Times == \A k \in Key : \A i \in 1 .. Len(hits[k]) : hits[k][i] >= 0
           Small(S) == IsFiniteSet(S) /\ Cardinality(S) <= MaxKeys
<1>1. ASSUME NEW S, Small(S), NEW k, k \in S \/ Cardinality(S) < MaxKeys, NEW T,
             T \subseteq S \union {k}
      PROVE  Small(T)
  <2>1. IsFiniteSet(S \union {k}) /\ IsFiniteSet(T) /\ Cardinality(T) <= Cardinality(S \union {k})
    BY <1>1, FS_AddElement, FS_Subset
  <2>2. CASE k \in S
    <3>1. S \union {k} = S
      BY <2>2
    <3>2. Cardinality(S) \in Nat /\ Cardinality(T) \in Nat /\ Cardinality(T) <= Cardinality(S)
      BY <1>1, <2>1, <3>1, FS_CardinalityType
    <3> QED
      BY <1>0, <1>1, <2>1, <3>2
  <2>3. CASE k \notin S /\ Cardinality(S) < MaxKeys
    <3>1. Cardinality(S \union {k}) = Cardinality(S) + 1
      BY <1>1, <2>3, FS_AddElement
    <3>2. Cardinality(S) \in Nat /\ Cardinality(T) \in Nat
      BY <1>1, <2>1, FS_CardinalityType
    <3> QED
      BY <1>0, <2>1, <2>3, <3>1, <3>2
  <2> QED
    BY <1>1, <2>2, <2>3
<1>2. ASSUME NEW k \in Key, Limiter!Hit(k) PROVE LimiterExtra'
  <2>1. /\ k \in Limiter!Entries \/ Cardinality(Limiter!Entries) < MaxKeys
        /\ now' = now /\ sweepBlockedUntil' = sweepBlockedUntil
    BY <1>2, SameSize DEF Limiter!Hit
  <2>2. Times' /\ \A j \in Key \ {k} : hits'[j] = hits[j]
    <3>1. hits \in [Key -> Seq(Int)] /\ now \in Nat /\ Limiter!Judge(k, hits) /\ Times
      BY <1>0, <1>2 DEF Limiter!Hit
    <3> QED
      BY <3>1, JudgedTimes
  <2>3. Limiter!Entries' \subseteq Limiter!Entries \union {k}
    BY <2>2 DEF Limiter!Entries
  <2>4. Small(Limiter!Entries')
    BY <1>0, <1>1, <2>1, <2>3
  <2> QED
    BY <1>0, <2>1, <2>2, <2>4 DEF LimiterExtra
<1>3. PICK live : live = Limiter!Entries \ Limiter!Expired
  OBVIOUS
<1>4. /\ Limiter!Kept \in [Key -> Seq(Int)]
      /\ \A j \in Key : \A i \in 1 .. Len(Limiter!Kept[j]) : Limiter!Kept[j][i] >= 0
      /\ \A j \in Key : Limiter!Kept[j] # <<>> => j \in live
  BY <1>0, <1>3, EmptySeq, SweptRecord DEF Limiter!Kept, Limiter!Entries
<1>5. IsFiniteSet(live) /\ Cardinality(live) \in Nat /\ Cardinality(live) <= MaxKeys
  <2>1. live \subseteq Limiter!Entries
    BY <1>3
  <2> QED
    BY <1>0, <2>1, FS_Subset, FS_CardinalityType
<1>6. ASSUME NEW k \in Key, Limiter!HitAfterSweep(k) PROVE LimiterExtra'
  <2>1. now' = now /\ sweepBlockedUntil' = 0 /\ Cardinality(live) < MaxKeys
    BY <1>3, <1>6, SameSize DEF Limiter!HitAfterSweep, Limiter!Freed
  <2>2. PICK record : record = Limiter!Kept
    OBVIOUS
  <2>3. /\ record \in [Key -> Seq(Int)] /\ Limiter!Judge(k, record)
        /\ \A j \in Key : \A i \in 1 .. Len(record[j]) : record[j][i] >= 0
        /\ \A j \in Key : record[j] # <<>> => j \in live
    BY <1>4, <1>6, <2>2 DEF Limiter!HitAfterSweep
  <2>4. now \in Nat
    BY <1>0
  <2>5. Times' /\ \A j \in Key \ {k} : hits'[j] = record[j]
    BY <2>3, <2>4, JudgedTimes
  <2>6. Limiter!Entries' \subseteq live \union {k}
    BY <2>3, <2>5 DEF Limiter!Entries
  <2>7. Small(Limiter!Entries')
    BY <1>1, <1>5, <2>1, <2>6
  <2> QED
    BY <1>0, <2>1, <2>5, <2>7 DEF LimiterExtra
<1>7. ASSUME NEW k \in Key, Limiter!HitAtCapacity(k) PROVE LimiterExtra'
  <2>1. PICK soonest : soonest = Limiter!Soonest
    OBVIOUS
  <2>2. /\ now' = now /\ hits' = Limiter!Kept
        /\ sweepBlockedUntil' = IF soonest < now + MinSweep THEN now + MinSweep ELSE soonest
    BY <1>7, <2>1 DEF Limiter!HitAtCapacity, Limiter!BlockSweep, Limiter!Later
  <2>3. sweepBlockedUntil' >= 0
    <3>1. CASE soonest < now + MinSweep
      BY <1>0, <2>2, <3>1
    <3>2. CASE ~(soonest < now + MinSweep)
      BY <1>0, <2>2, <3>2
    <3> QED
      BY <3>1, <3>2
  <2>4. Limiter!Entries' \subseteq live
    BY <1>4, <2>2 DEF Limiter!Entries
  <2>5. Small(Limiter!Entries')
    <3>1. /\ IsFiniteSet(Limiter!Entries') /\ Cardinality(Limiter!Entries') <= Cardinality(live)
          /\ Cardinality(Limiter!Entries') \in Nat
      BY <1>5, <2>4, FS_Subset, FS_CardinalityType
    <3> QED
      BY <1>0, <1>5, <3>1
  <2>6. Times'
    BY <1>4, <2>2
  <2> QED
    BY <1>0, <2>2, <2>3, <2>5, <2>6 DEF LimiterExtra
<1>8. CASE Limiter!Advance
  <2>1. /\ now < LimiterTime /\ now' = now + 1 /\ hits' = hits
        /\ sweepBlockedUntil' = sweepBlockedUntil
    BY <1>8 DEF Limiter!Advance
  <2>2. now' \in 0 .. LimiterTime
    BY <1>0, <2>1
  <2> QED
    BY <1>0, <2>1, <2>2 DEF LimiterExtra, Limiter!Entries
<1>9. CASE UNCHANGED Limiter!vars
  BY <1>0, <1>9 DEF LimiterExtra, Limiter!vars, Limiter!Entries
<1> QED
  BY <1>2, <1>6, <1>7, <1>8, <1>9 DEF Limiter!Next

(* The limiter begins with an empty map.                                   *)
LEMMA LimiterBegins ==
  ASSUME LimiterTime \in Nat, MaxKeys \in Nat, Limiter!Init PROVE LimiterExtra
<1>1. /\ now = 0 /\ hits = [k \in Key |-> <<>>] /\ sweepBlockedUntil = 0
  BY DEF Limiter!Init
<1>2. Limiter!Entries = {}
  BY <1>1 DEF Limiter!Entries
<1>3. IsFiniteSet({}) /\ Cardinality({}) = 0
  BY FS_EmptySet
<1>4. \A k \in Key : \A i \in 1 .. Len(hits[k]) : hits[k][i] >= 0
  BY <1>1, EmptySeq
<1> QED
  BY <1>1, <1>2, <1>3, <1>4 DEF LimiterExtra

(* With the order of the hits, that is the limiter's type.                 *)
LEMMA LimiterTyped ==
  ASSUME LimiterTime \in Nat, BudgetInv, SweepInv, LimiterExtra PROVE Limiter!TypeOK
<1>1. now \in 0 .. LimiterTime /\ hits \in [Key -> Seq(Int)] /\ allowed \in [Key -> Seq(Int)]
  BY DEF LimiterExtra, BudgetInv, LimiterShape
<1>2. ASSUME NEW k \in Key, NEW i \in 1 .. Len(hits[k]) PROVE hits[k][i] \in 0 .. LimiterTime
  <2>1. hits[k][i] \in Int
    BY <1>1
  <2>2. hits[k][i] >= 0 /\ hits[k][i] <= now
    BY DEF LimiterExtra, BudgetInv, Ordered
  <2> QED
    BY <1>1, <2>1, <2>2
<1>3. sweepBlockedUntil \in Nat
  BY DEF SweepInv, LimiterExtra
<1>4. Limiter!Cardinality(Limiter!Entries) <= MaxKeys
  BY SameSize DEF LimiterExtra
<1> QED
  BY <1>1, <1>2, <1>3, <1>4 DEF Limiter!TypeOK

----------------------------------------------------------------------------
(* Telegram links.                                                         *)

(* A chat has at most one row.                                             *)
ChatExtra ==
  /\ blocks \subseteq Chat /\ quiet \subseteq Chat
  /\ \A v, w \in Linked : link[v].chat = link[w].chat /\ link[v].chat \in Chat => v = w

(* A chat is bound to a wallet only when no other row has it.              *)
LEMMA ChatExtraKept ==
  ASSUME Nothing \notin Chat, StopInv, ChatExtra, [Chats!Next]_(Chats!vars) PROVE ChatExtra'
<1>0. /\ link \in [Linked -> LinkRow] /\ hook \in [Hook -> HookRow] /\ stamp \in [Stamp -> AnswerRow]
      /\ blocks \subseteq Chat /\ quiet \subseteq Chat
      /\ \A v, w \in Linked : link[v].chat = link[w].chat /\ link[v].chat \in Chat => v = w
  BY DEF StopInv, ChatShape, Answers, ChatExtra
<1> DEFINE Single == \A v, w \in Linked : link[v].chat = link[w].chat /\ link[v].chat \in Chat => v = w
<1>1. blocks' \subseteq Chat /\ quiet' \subseteq Chat
  BY <1>0 DEF Chats!Next, Chats!LetLapse, Chats!CreateLinkCode, Chats!DropOld, Chats!Bind,
     Chats!ConsumeLinkCode, Chats!Start, Chats!Stop, Chats!Block, Chats!Record, Chats!Send, Chats!vars
<1>2. ASSUME \A w \in Linked : link'[w].chat \in {link[w].chat, Nothing} PROVE Single'
  BY <1>0, <1>2
<1>3. ASSUME NEW h \in Hook, Chats!DropOld(h) PROVE Single'
  <2>1. \A w \in Linked : link'[w] \in {link[w], Chats!NoLink}
    BY <1>0, <1>3 DEF Chats!DropOld
  <2> QED
    BY <1>2, <2>1 DEF Chats!NoLink
<1>4. ASSUME NEW h \in Hook, Chats!Bind(h) PROVE Single'
  <2>1. CASE link' = link
    BY <1>0, <2>1
  <2>2. PICK v, c : v = hook[h].wallet /\ c = hook[h].chat
    OBVIOUS
  <2>3. CASE /\ Chats!RowsOf(c) \subseteq {v}
             /\ link' = [link EXCEPT ![v] = [[link[v] EXCEPT !.chat = c] EXCEPT !.enabled = TRUE]]
    <3>1. \A w \in Linked : w # v => link'[w] = link[w] /\ link'[w].chat # c
      BY <1>0, <2>3 DEF Chats!RowsOf
    <3>2. v \in Linked => link'[v].chat = c
      BY <1>0, <2>3 DEF LinkRow
    <3> QED
      BY <1>0, <3>1, <3>2
  <2> QED
    BY <1>4, <2>1, <2>2, <2>3 DEF Chats!Bind
<1>5. ASSUME NEW c \in Chat, Chats!Stop(c) PROVE Single'
  <2>1. \A w \in Linked : link'[w] \in {link[w], [link[w] EXCEPT !.enabled = FALSE]}
    BY <1>0, <1>5 DEF Chats!Stop
  <2>2. \A w \in Linked : link'[w].chat = link[w].chat
    BY <1>0, <2>1 DEF LinkRow
  <2> QED
    BY <1>2, <2>2
<1>6. ASSUME NEW s \in Stamp, Chats!Record(s) PROVE Single'
  <2>1. \A w \in Linked : link'[w] \in {link[w], Chats!Stamped(link[w], stamp[s].ok)}
    BY <1>0, <1>6 DEF Chats!Record
  <2>2. stamp[s].ok \in BOOLEAN
    BY <1>0 DEF AnswerRow
  <2>3. \A w \in Linked : Chats!Stamped(link[w], stamp[s].ok).chat = link[w].chat
    BY <1>0, <2>2, ChatRows
  <2>4. \A w \in Linked : link'[w].chat = link[w].chat
    BY <2>1, <2>3
  <2> QED
    BY <1>2, <2>4
<1>7. ASSUME \/ UNCHANGED Chats!vars
             \/ \E c \in Chat : Chats!Block(c)
             \/ \E k \in Code : Chats!LetLapse(k) \/ \E w \in Linked : Chats!CreateLinkCode(k, w)
             \/ \E s \in Stamp, w \in Linked : Chats!Send(s, w)
             \/ \E h \in Hook : \/ Chats!ConsumeLinkCode(h)
                                \/ \E c \in Chat, k \in Code : Chats!Start(h, c, k)
      PROVE  Single'
  <2>1. link' = link
    BY <1>7 DEF Chats!vars, Chats!Block, Chats!Send, Chats!LetLapse, Chats!CreateLinkCode,
       Chats!ConsumeLinkCode, Chats!Start
  <2> QED
    BY <1>0, <2>1
<1>8. Single'
  BY <1>3, <1>4, <1>5, <1>6, <1>7 DEF Chats!Next
<1> QED
  BY <1>1, <1>8 DEF ChatExtra

(* A set in which all is one has at most one element.                      *)
LEMMA AtMostOne ==
  ASSUME NEW S, \A x, y \in S : x = y PROVE Cardinality(S) <= 1
<1>1. CASE S = {}
  BY <1>1, FS_EmptySet
<1>2. ASSUME NEW x \in S PROVE Cardinality(S) <= 1
  <2>1. S = {x}
    BY <1>2
  <2>2. Cardinality({x}) = 1
    BY FS_Singleton
  <2> QED
    BY <2>1, <2>2
<1> QED
  BY <1>1, <1>2

(* With the shape of the rows, that is the links' type.                    *)
LEMMA ChatsTyped ==
  ASSUME StopInv, ChatExtra PROVE Chats!TypeOK
<1>1. link \in [Linked -> LinkRow] /\ code \in [Code -> CodeRow] /\ hook \in [Hook -> HookRow]
      /\ stamp \in [Stamp -> AnswerRow]
  BY DEF StopInv, ChatShape, Answers
<1>2. ASSUME NEW c \in Chat PROVE Chats!Cardinality(Chats!RowsOf(c)) <= 1
  <2>1. \A v, w \in Chats!RowsOf(c) : v = w
    BY DEF ChatExtra, Chats!RowsOf
  <2>2. Cardinality(Chats!RowsOf(c)) <= 1
    BY <2>1, AtMostOne
  <2> QED
    BY <2>2 DEF Cardinality, Chats!Cardinality
<1>3. \A h \in Hook : hook[h].at \in {"idle", "found", "dropped", "bound"}
  BY <1>1 DEF HookRow
<1>4. \A s \in Stamp : stamp[s].chat \in Chat \union {Nothing}
  BY <1>1 DEF AnswerRow
<1> QED
  BY <1>1, <1>2, <1>3, <1>4 DEF Chats!TypeOK, ChatExtra, LinkRow, CodeRow

----------------------------------------------------------------------------
(* Sign-in.                                                                *)

NonceTime == {Nothing} \union (0 .. SignInTime + Ttl["proof"])

SignInExtra ==
  /\ now \in 0 .. SignInTime
  /\ nonce \in [Nonce -> NonceTime]

(* A nonce runs out at a time that was the clock's when it was issued.     *)
LEMMA SignInExtraKept ==
  ASSUME ProofKinds, SignInTime \in Nat, SignInInv, SignInExtra, [Identity!Next]_(Identity!vars)
  PROVE  SignInExtra'
<1>0. now \in 0 .. SignInTime /\ nonce \in [Nonce -> NonceTime] /\ Ttl["proof"] \in Nat
  BY DEF SignInExtra, ProofKinds
<1>1. now' = now \/ (now < SignInTime /\ now' = now + 1)
  BY DEF Identity!Next, Identity!Issue, Identity!Sign, Identity!MintLink, Identity!Verify, Identity!Exchange,
     Identity!Consume, Identity!Act, Identity!BurnLink, Identity!ReadCookie, Identity!Answer,
     Identity!SignOut, Identity!Elapse, Identity!vars
<1>2. \/ UNCHANGED nonce
      \/ \E n \in Nonce : nonce' = [nonce EXCEPT ![n] = now + Ttl["proof"]]
      \/ \E r \in Request : Identity!Consume(r)
  BY DEF Identity!Next, Identity!Issue, Identity!Sign, Identity!MintLink, Identity!Verify, Identity!Exchange,
     Identity!Act, Identity!BurnLink, Identity!ReadCookie, Identity!Answer,
     Identity!SignOut, Identity!Elapse, Identity!vars
<1>3. ASSUME NEW n PROVE now + Ttl["proof"] \in NonceTime /\ Nothing \in NonceTime
  BY <1>0 DEF NonceTime
<1>4. ASSUME NEW r \in Request, Identity!Consume(r)
      PROVE  nonce' = nonce \/ nonce' = [nonce EXCEPT ![call[r].proof] = Nothing]
  BY <1>4 DEF Identity!Consume, Identity!Burns
<1>5. nonce' \in [Nonce -> NonceTime]
  BY <1>0, <1>2, <1>3, <1>4
<1>6. now' \in 0 .. SignInTime
  BY <1>0, <1>1
<1> QED
  BY <1>5, <1>6 DEF SignInExtra

(* With the shape of the records, that is sign-in's type.                  *)
LEMMA SignInTyped ==
  ASSUME SignInInv, SignInExtra PROVE Identity!TypeOK
<1>1. /\ signed \subseteq Identity!Message /\ cookie \in [Browser -> Sid \union {Nothing}]
      /\ issued \subseteq Nonce /\ session \in [Sid -> SessionRow] /\ call \in [Request -> Req]
  BY DEF SignInInv, SignInShape
<1>2. \A s \in Sid : session[s].scope \in {"none", "full", "readonly"}
  BY <1>1 DEF SessionRow
<1>3. \A r \in Request : call[r].at \in {"idle", "consume", "act", "exchange"}
  BY <1>1 DEF Req
<1> QED
  BY <1>1, <1>2, <1>3 DEF Identity!TypeOK, SignInExtra, NonceTime

----------------------------------------------------------------------------
(* The contracts.                                                          *)

(* The invariant of the exit types its balances and positions.             *)
LEMMA ExitTyped ==
  ASSUME ExitNumbers, ExitInv PROVE Exits!TypeOK
<1>1. /\ stage \in {"called", "repay", "withdraw", "done"} /\ pos \in [Market -> Position]
      /\ wallet \in [Exits!Token -> Nat] /\ Stray \in Nat
  BY StrayIsAmount DEF ExitInv, ExitShape
<1>2. \A m \in Market : pos[m].variable >= 0 /\ pos[m].stable >= 0 /\ pos[m].collateral >= 0
  BY <1>1 DEF Position
<1>3. ASSUME NEW t \in Exits!Token PROVE wallet[t] >= 0 /\ held[t] >= Stray
  <2>1. wallet[t] >= 0
    BY <1>1
  <2>2. t = Usdc \/ t \in Exits!Token \ {Usdc}
    OBVIOUS
  <2>3. held[t] >= Stray
    BY <1>1, <2>2 DEF ExitInv, OwnerWhole
  <2> QED
    BY <2>1, <2>3
<1> QED
  BY <1>1, <1>2, <1>3 DEF Exits!TypeOK

(* So does the invariant of the deleverage.                                *)
LEMMA LoanTyped ==
  ASSUME LoanInv PROVE Levers!TypeOK
BY DEF LoanInv, LoanShape, Levers!TypeOK
----------------------------------------------------------------------------
(* Trials.                                                                 *)

GrantFits(g) == g.id <= MaxMints /\ g.opened \in Trials!Time /\ g.expires \in Trials!Time

TrialTimes ==
  /\ now \in 0 .. TrialTime
  /\ \A u \in User, c \in Card : GrantFits(grant[u][c])
  /\ \A r \in Request : req[r].expires \in Trials!Time
  /\ ending.time \in 0 .. TrialTime /\ ending.opened \in Trials!Time
  /\ \A u \in User : \A i \in 1 .. Len(rows[u]) : rows[u][i].expires \in Trials!Time

(* A user has at most one membership that holds the place.                 *)
OnePlace == \A u \in User : \A i, j \in Trials!Holding(u) : i = j

TrialBounds == TrialNumbers /\ TrialTime \in Nat /\ MaxMints \in Nat

(* The times a trial's clock can show.                                     *)
LEMMA TimesOfTrials ==
  ASSUME TrialBounds
  PROVE  /\ Nothing \in Trials!Time
         /\ \A t \in 0 .. TrialTime : t \in Trials!Time /\ t + Hours \in Trials!Time
<1>1. TrialTime \in Nat /\ Hours \in Nat
  BY DEF TrialBounds, TrialNumbers
<1>2. ASSUME NEW t \in 0 .. TrialTime PROVE t \in 0 .. TrialTime + Hours /\ t + Hours \in 0 .. TrialTime + Hours
  BY <1>1
<1> QED
  BY <1>2 DEF Trials!Time

(* The grants: minted, opened, closed and taken away.                      *)
LEMMA GrantsFit ==
  ASSUME TrialBounds, TrialInv, TrialTimes, [Trials!Next]_(Trials!vars)
  PROVE  \A u \in User, c \in Card : GrantFits(grant'[u][c])
<1>0. /\ grant \in [User -> [Card -> GrantRow]] /\ now \in 0 .. TrialTime
      /\ \A u \in User, c \in Card : GrantFits(grant[u][c]) /\ grant[u][c] \in GrantRow
      /\ ending.time \in 0 .. TrialTime /\ ending.opened \in Trials!Time
      /\ MaxMints \in Nat /\ Nothing \in Trials!Time
  BY TimesOfTrials DEF TrialInv, TrialShape, TrialTimes, TrialBounds
<1>1. /\ Trials!NoGrant \in GrantRow /\ GrantFits(Trials!NoGrant)
  BY <1>0, Blank DEF Trials!NoGrant, GrantFits
<1>2. ASSUME NEW u \in User, NEW c \in Card, NEW g \in GrantRow, GrantFits(g),
             grant' = [grant EXCEPT ![u][c] = g]
      PROVE  \A v \in User, d \in Card : GrantFits(grant'[v][d])
  <2>1. /\ grant'[u][c] = g
        /\ \A v \in User, d \in Card : v # u \/ d # c => grant'[v][d] = grant[v][d]
    BY <1>0, <1>2, TableEdit
  <2> QED
    BY <1>0, <1>2, <2>1
<1>3. ASSUME NEW r \in Request, Trials!Redeem(r), grant' # grant
      PROVE  \A v \in User, d \in Card : GrantFits(grant'[v][d])
  <2>1. TrialShape /\ req[r].at # "idle"
    BY <1>3 DEF TrialInv, Trials!Redeem
  <2>2. PICK u \in User, c \in Card : req[r].user = u /\ req[r].card = c
    BY <2>1, UnderWay
  <2>3. PICK n : n = minted[u][c] + 1
    OBVIOUS
  <2>4. n \in Nat
    BY <2>1, <2>3 DEF TrialShape, Counts
  <2>5. n <= MaxMints /\ grant' = [grant EXCEPT ![u][c] = [Trials!NoGrant EXCEPT !.id = n]]
    BY <1>3, <2>2, <2>3 DEF Trials!Redeem
  <2>6. PICK g : g = [Trials!NoGrant EXCEPT !.id = n]
    OBVIOUS
  <2>7. g \in GrantRow /\ g.id = n /\ g.expires = Nothing /\ g.opened = Nothing
    BY <1>1, <2>4, <2>6 DEF GrantRow, Trials!NoGrant
  <2>8. GrantFits(g)
    BY <1>0, <2>5, <2>7 DEF GrantFits
  <2> QED
    BY <1>2, <2>5, <2>6, <2>7, <2>8
<1>4. ASSUME NEW r \in Request, Trials!OpenTrial(r), grant' # grant
      PROVE  \A v \in User, d \in Card : GrantFits(grant'[v][d])
  <2>1. TrialShape /\ req[r].at # "idle"
    BY <1>4 DEF TrialInv, Trials!OpenTrial
  <2>2. PICK u \in User, c \in Card : req[r].user = u /\ req[r].card = c
    BY <2>1, UnderWay
  <2>3. PICK t : t = now + Hours
    OBVIOUS
  <2>4. t \in Trials!Time /\ now \in Trials!Time /\ t \in Clock /\ now \in Clock
    <3>1. t \in Trials!Time /\ now \in Trials!Time
      BY <1>0, <2>3, TimesOfTrials
    <3>2. t \in Int /\ now \in Int
      BY <1>0, <2>3 DEF TrialBounds, TrialNumbers
    <3> QED
      BY <3>1, <3>2 DEF Clock
  <2>5. PICK h \in GrantRow : h = grant[u][c] /\ GrantFits(h)
    BY <1>0
  <2>6. PICK g : g = [h EXCEPT !.opened = now, !.expires = t]
    OBVIOUS
  <2>7. grant' = [grant EXCEPT ![u][c] = g]
    BY <1>4, <2>2, <2>3, <2>5, <2>6 DEF Trials!OpenTrial
  <2>8. g \in GrantRow /\ g.id = h.id /\ g.opened = now /\ g.expires = t
    BY <2>4, <2>6 DEF GrantRow
  <2>9. GrantFits(g)
    BY <2>4, <2>5, <2>8 DEF GrantFits
  <2> QED
    BY <1>2, <2>7, <2>8, <2>9
<1>5. ASSUME NEW u \in User, NEW c \in Card, Trials!ClearUse(u, c)
      PROVE  \A v \in User, d \in Card : GrantFits(grant'[v][d])
  BY <1>1, <1>2, <1>5 DEF Trials!ClearUse
<1>6. ASSUME Trials!CloseGrant, grant' # grant
      PROVE  \A v \in User, d \in Card : GrantFits(grant'[v][d])
  <2>1. ending \in EndRequest /\ ending.user \in User /\ ending.card \in Card
    BY <1>6 DEF TrialInv, TrialShape, EndKnows, Trials!CloseGrant
  <2>2. PICK u \in User, c \in Card : ending.user = u /\ ending.card = c
    BY <2>1
  <2>3. PICK s : s = IF ending.opened = Nothing THEN ending.time ELSE ending.opened
    OBVIOUS
  <2>4. PICK t : t = ending.time
    OBVIOUS
  <2>5. s \in Trials!Time /\ t \in Trials!Time /\ s \in Clock /\ t \in Clock
    BY <1>0, <2>1, <2>3, <2>4, TimesOfTrials DEF EndRequest, Clock
  <2>6. PICK h \in GrantRow : h = grant[u][c] /\ GrantFits(h)
    BY <1>0
  <2>7. PICK g : g = [h EXCEPT !.expires = t, !.opened = s]
    OBVIOUS
  <2>8. grant' = [grant EXCEPT ![u][c] = g]
    BY <1>6, <2>2, <2>3, <2>4, <2>6, <2>7 DEF Trials!CloseGrant
  <2>9. g \in GrantRow /\ g.id = h.id /\ g.opened = s /\ g.expires = t
    BY <2>5, <2>7 DEF GrantRow
  <2>10. GrantFits(g)
    BY <2>5, <2>6, <2>9 DEF GrantFits
  <2> QED
    BY <1>2, <2>8, <2>9, <2>10
<1>7. ASSUME Trials!DropOldGrants
      PROVE  \A v \in User, d \in Card : GrantFits(grant'[v][d])
  <2>1. \A v \in User, d \in Card : grant'[v][d] \in {Trials!NoGrant, grant[v][d]}
    BY <1>7 DEF Trials!DropOldGrants
  <2> QED
    BY <1>0, <1>1, <2>1
<1>8. \/ grant' = grant
      \/ \E r \in Request : Trials!Redeem(r) \/ Trials!OpenTrial(r)
      \/ \E u \in User, c \in Card : Trials!ClearUse(u, c)
      \/ Trials!CloseGrant \/ Trials!DropOldGrants
  BY DEF Trials!Next, Trials!Submit, Trials!CreateMembership, Trials!SlotMembership,
     Trials!RenewMembership, Trials!Abandon, Trials!FindTrial, Trials!EndTrial, Trials!FindGrant,
     Trials!NextHour, Trials!ExpireCampaign, Trials!vars
<1> QED
  BY <1>0, <1>3, <1>4, <1>5, <1>6, <1>7, <1>8

(* The redemptions: what they carry was read from a clock.                 *)
LEMMA RequestsFit ==
  ASSUME TrialBounds, TrialInv, TrialTimes, [Trials!Next]_(Trials!vars)
  PROVE  \A r \in Request : req'[r].expires \in Trials!Time
<1>0. /\ req \in [Request -> Redemption] /\ now \in 0 .. TrialTime
      /\ \A r \in Request : req[r].expires \in Trials!Time
      /\ \A u \in User, c \in Card : grant[u][c].expires \in Trials!Time
      /\ Nothing \in Trials!Time /\ now + Hours \in Trials!Time
  BY TimesOfTrials DEF TrialInv, TrialShape, TrialTimes, GrantFits
<1>1. Trials!NoReq.expires = Nothing
  BY DEF Trials!NoReq
<1>2. ASSUME NEW r \in Request, NEW x, x.expires \in Trials!Time, req' = [req EXCEPT ![r] = x]
      PROVE  \A q \in Request : req'[q].expires \in Trials!Time
  BY <1>0, <1>2
<1>3. ASSUME NEW r \in Request, Trials!OpenTrial(r)
      PROVE  \A q \in Request : req'[q].expires \in Trials!Time
  <2>1. TrialShape /\ req[r].at # "idle"
    BY <1>3 DEF TrialInv, Trials!OpenTrial
  <2>2. PICK u \in User, c \in Card : req[r].user = u /\ req[r].card = c
    BY <2>1, UnderWay
  <2>3. PICK t : /\ req' = [req EXCEPT ![r] = [req[r] EXCEPT !.at = "create", !.token = 0, !.expires = t]]
                 /\ t \in {now + Hours, grant[u][c].expires, Nothing}
    BY <1>3, <2>2 DEF Trials!OpenTrial
  <2>4. t \in Trials!Time
    BY <1>0, <2>3
  <2>5. PICK x : x = [req[r] EXCEPT !.at = "create", !.token = 0, !.expires = t]
    OBVIOUS
  <2>6. x.expires = t
    BY <1>0, <2>5 DEF Redemption
  <2> QED
    BY <1>2, <2>3, <2>4, <2>5, <2>6
<1>4. ASSUME NEW r \in Request, NEW u \in User, NEW c \in Card, Trials!Submit(r, u, c)
      PROVE  \A q \in Request : req'[q].expires \in Trials!Time
  <2>1. PICK x : x = [Trials!NoReq EXCEPT !.at = "redeem", !.user = u, !.card = c]
    OBVIOUS
  <2>2. x.expires = Nothing /\ req' = [req EXCEPT ![r] = x]
    BY <1>4, <2>1 DEF Trials!Submit, Trials!NoReq
  <2> QED
    BY <1>0, <1>2, <2>2
<1>5. ASSUME NEW r \in Request, Trials!Redeem(r)
      PROVE  \A q \in Request : req'[q].expires \in Trials!Time
  <2>1. \/ req' = [req EXCEPT ![r] = Trials!NoReq]
        \/ \E n : req' = [req EXCEPT ![r] = [req[r] EXCEPT !.at = "open", !.token = n]]
    BY <1>0, <1>5 DEF Trials!Redeem
  <2>2. CASE req' = [req EXCEPT ![r] = Trials!NoReq]
    BY <1>0, <1>1, <1>2, <2>2
  <2>3. ASSUME NEW n, req' = [req EXCEPT ![r] = [req[r] EXCEPT !.at = "open", !.token = n]]
        PROVE  \A q \in Request : req'[q].expires \in Trials!Time
    <3>1. PICK x : x = [req[r] EXCEPT !.at = "open", !.token = n]
      OBVIOUS
    <3>2. x.expires = req[r].expires
      BY <1>0, <3>1 DEF Redemption
    <3> QED
      BY <1>0, <1>2, <2>3, <3>1, <3>2
  <2> QED
    BY <2>1, <2>2, <2>3
<1>6. ASSUME NEW r \in Request,
             Trials!CreateMembership(r) \/ Trials!RenewMembership(r) \/ Trials!Abandon(r)
      PROVE  \A q \in Request : req'[q].expires \in Trials!Time
  <2>1. \/ req' = [req EXCEPT ![r] = Trials!NoReq]
        \/ req' = [req EXCEPT ![r] = [req[r] EXCEPT !.at = "conflict"]]
    BY <1>0, <1>6 DEF Trials!CreateMembership, Trials!RenewMembership, Trials!Abandon
  <2>2. PICK x : x = [req[r] EXCEPT !.at = "conflict"]
    OBVIOUS
  <2>3. x.expires = req[r].expires
    BY <1>0, <2>2 DEF Redemption
  <2> QED
    BY <1>0, <1>1, <1>2, <2>1, <2>2, <2>3
<1>7. ASSUME NEW r \in Request, Trials!SlotMembership(r)
      PROVE  \A q \in Request : req'[q].expires \in Trials!Time
  <2>1. \/ req' = [req EXCEPT ![r] = Trials!NoReq]
        \/ \E i : req' = [req EXCEPT ![r] = [req[r] EXCEPT !.at = "renew", !.row = i]]
    BY <1>0, <1>7 DEF Trials!SlotMembership
  <2>2. ASSUME NEW i, req' = [req EXCEPT ![r] = [req[r] EXCEPT !.at = "renew", !.row = i]]
        PROVE  \A q \in Request : req'[q].expires \in Trials!Time
    <3>1. PICK x : x = [req[r] EXCEPT !.at = "renew", !.row = i]
      OBVIOUS
    <3>2. x.expires = req[r].expires
      BY <1>0, <3>1 DEF Redemption
    <3> QED
      BY <1>0, <1>2, <2>2, <3>1, <3>2
  <2> QED
    BY <1>0, <1>1, <1>2, <2>1, <2>2
<1>8. \/ req' = req
      \/ \E r \in Request : \/ \E u \in User, c \in Card : Trials!Submit(r, u, c)
                            \/ Trials!Redeem(r) \/ Trials!OpenTrial(r) \/ Trials!CreateMembership(r)
                            \/ Trials!SlotMembership(r) \/ Trials!RenewMembership(r) \/ Trials!Abandon(r)
  BY DEF Trials!Next, Trials!FindTrial, Trials!ClearUse, Trials!EndTrial, Trials!FindGrant,
     Trials!CloseGrant, Trials!DropOldGrants, Trials!NextHour, Trials!ExpireCampaign, Trials!vars
<1> QED
  BY <1>0, <1>3, <1>4, <1>5, <1>6, <1>7, <1>8

(* The operator's request: its time is the clock's, its reading a grant's. *)
LEMMA EndingFits ==
  ASSUME TrialBounds, TrialInv, TrialTimes, [Trials!Next]_(Trials!vars)
  PROVE  ending'.time \in 0 .. TrialTime /\ ending'.opened \in Trials!Time
<1>0. /\ ending \in EndRequest /\ ending.time \in 0 .. TrialTime /\ ending.opened \in Trials!Time
      /\ now \in 0 .. TrialTime /\ Nothing \in Trials!Time /\ TrialTime \in Nat
      /\ \A u \in User, c \in Card : grant[u][c].opened \in Trials!Time
  BY TimesOfTrials DEF TrialInv, TrialShape, TrialTimes, TrialBounds, GrantFits
<1>1. Trials!NoEnding.time \in 0 .. TrialTime /\ Trials!NoEnding.opened \in Trials!Time
  <2>1. Trials!NoEnding.time = 0 /\ Trials!NoEnding.opened = Nothing
    BY DEF Trials!NoEnding
  <2> QED
    BY <1>0, <2>1
<1>2. ASSUME NEW u \in User, Trials!FindTrial(u)
      PROVE  ending'.time \in 0 .. TrialTime /\ ending'.opened \in Trials!Time
  <2>1. ending'.time = now /\ ending'.opened = Nothing
    BY <1>2 DEF Trials!FindTrial, Trials!NoEnding
  <2> QED
    BY <1>0, <2>1
<1>3. CASE Trials!EndTrial
  <2>1. ending' = Trials!NoEnding \/ (ending'.time = ending.time /\ ending'.opened = ending.opened)
    BY <1>0, <1>3 DEF Trials!EndTrial, EndRequest
  <2> QED
    BY <1>0, <1>1, <2>1
<1>4. CASE Trials!FindGrant
  <2>1. PICK g : g = grant[ending.user][ending.card]
    OBVIOUS
  <2>2. ending.user \in User /\ ending.card \in Card
    BY <1>4 DEF TrialInv, TrialShape, EndKnows, Trials!FindGrant
  <2>3. ending' = Trials!NoEnding \/ (ending'.time = ending.time /\ ending'.opened = g.opened)
    BY <1>0, <1>4, <2>1 DEF Trials!FindGrant, EndRequest
  <2> QED
    BY <1>0, <1>1, <2>1, <2>2, <2>3
<1>5. CASE Trials!CloseGrant
  BY <1>1, <1>5 DEF Trials!CloseGrant
<1>6. \/ ending' = ending \/ \E u \in User : Trials!FindTrial(u)
      \/ Trials!EndTrial \/ Trials!FindGrant \/ Trials!CloseGrant
  BY DEF Trials!Next, Trials!Submit, Trials!Redeem, Trials!OpenTrial, Trials!CreateMembership,
     Trials!SlotMembership, Trials!RenewMembership, Trials!Abandon, Trials!ClearUse,
     Trials!DropOldGrants, Trials!NextHour, Trials!ExpireCampaign, Trials!vars
<1> QED
  BY <1>0, <1>2, <1>3, <1>4, <1>5, <1>6

(* The memberships: one is added where none holds the place, renewed where *)
(* no other does, and lapses.                                              *)
LEMMA RowsFit ==
  ASSUME TrialBounds, TrialInv, TrialTimes, OnePlace, [Trials!Next]_(Trials!vars)
  PROVE  /\ \A u \in User : \A i \in 1 .. Len(rows'[u]) : rows'[u][i].expires \in Trials!Time
         /\ OnePlace'
<1> DEFINE Fit == \A u \in User : \A i \in 1 .. Len(rows[u]) : rows[u][i].expires \in Trials!Time
<1>0. /\ rows \in [User -> Seq(MemberRow)] /\ req \in [Request -> Redemption]
      /\ \A r \in Request : req[r].expires \in Trials!Time
      /\ ending.time \in Trials!Time /\ Fit
      /\ \A u \in User : \A i, j \in 1 .. Len(rows[u]) :
           rows[u][i].status = "trial" /\ rows[u][j].status = "trial" => i = j
  BY TimesOfTrials DEF TrialInv, TrialShape, TrialTimes, OnePlace, Trials!Holding
<1>1. TrialShape
  BY DEF TrialInv
<1>2. ASSUME \A u \in User : \A i, j \in 1 .. Len(rows'[u]) :
               rows'[u][i].status = "trial" /\ rows'[u][j].status = "trial" => i = j
      PROVE  OnePlace'
  BY <1>2 DEF OnePlace, Trials!Holding
<1>3. ASSUME NEW r \in Request, Trials!CreateMembership(r), rows' # rows PROVE Fit' /\ OnePlace'
  <2>1. req[r].at # "idle"
    BY <1>3 DEF Trials!CreateMembership
  <2>2. PICK u \in User, c \in Card : req[r].user = u /\ req[r].card = c
    BY <1>1, <2>1, UnderWay
  <2>3. PICK m : m = Trials!Row(r)
    OBVIOUS
  <2>4. m \in MemberRow /\ m.expires = req[r].expires
    BY <1>1, <2>2, <2>3, ClocksTyped DEF MemberRow, Trials!Row
  <2>5. rows' = [rows EXCEPT ![u] = Append(@, m)]
        /\ \A i \in 1 .. Len(rows[u]) : rows[u][i].status # "trial"
    BY <1>3, <2>2, <2>3 DEF Trials!CreateMembership, Trials!RowAdmitted, Trials!Holding
  <2>6. \A v \in User : \A j \in 1 .. Len(rows'[v]) :
          (v = u /\ rows'[v][j] = m) \/ (j \in 1 .. Len(rows[v]) /\ rows'[v][j] = rows[v][j])
    BY <1>0, <2>4, <2>5, RowAdded
  <2>7. ASSUME NEW v \in User, NEW j \in 1 .. Len(rows'[v])
        PROVE  rows'[v][j].expires \in Trials!Time
    <3>1. CASE rows'[v][j] = m
      BY <1>0, <2>4, <3>1
    <3>2. CASE j \in 1 .. Len(rows[v]) /\ rows'[v][j] = rows[v][j]
      BY <1>0, <3>2
    <3> QED
      BY <2>6, <3>1, <3>2
  <2>8. ASSUME NEW v \in User, NEW i \in 1 .. Len(rows'[v]), NEW j \in 1 .. Len(rows'[v]),
               rows'[v][i].status = "trial", rows'[v][j].status = "trial"
        PROVE  i = j
    <3>1. CASE v # u
      <4>1. /\ i \in 1 .. Len(rows[v]) /\ rows'[v][i] = rows[v][i]
            /\ j \in 1 .. Len(rows[v]) /\ rows'[v][j] = rows[v][j]
        BY <2>6, <3>1
      <4> QED
        BY <1>0, <2>8, <4>1
    <3>2. CASE v = u
      <4>1. rows[u] \in Seq(MemberRow) /\ rows'[u] = Append(rows[u], m)
        BY <1>0, <2>5
      <4>2. /\ Len(rows'[u]) = Len(rows[u]) + 1 /\ Len(rows[u]) \in Nat
            /\ \A k \in 1 .. Len(rows[u]) : rows'[u][k] = rows[u][k]
        BY <4>1, <2>4, AppendProperties
      <4>3. ASSUME NEW k \in 1 .. Len(rows'[u]), rows'[u][k].status = "trial"
            PROVE  k = Len(rows[u]) + 1
        <5>1. k \notin 1 .. Len(rows[u])
          BY <2>5, <4>2, <4>3
        <5> QED
          BY <4>2, <5>1
      <4> QED
        BY <2>8, <3>2, <4>3
    <3> QED
      BY <3>1, <3>2
  <2> QED
    BY <1>2, <2>7, <2>8
<1>4. ASSUME NEW r \in Request, Trials!RenewMembership(r), rows' # rows PROVE Fit' /\ OnePlace'
  <2>1. req[r].at = "renew" /\ Knows(req[r])
    BY <1>1, <1>4 DEF Trials!RenewMembership, TrialShape
  <2>2. PICK u \in User, c \in Card : req[r].user = u /\ req[r].card = c
    BY <1>1, <2>1, UnderWay
  <2>3. PICK m : m = Trials!Row(r)
    OBVIOUS
  <2>4. m \in MemberRow /\ m.expires = req[r].expires
    BY <1>1, <2>2, <2>3, ClocksTyped DEF MemberRow, Trials!Row
  <2>5. PICK k : k = req[r].row /\ k \in 1 .. Len(rows[u])
    BY <2>1, <2>2 DEF Knows
  <2>6. rows' = [rows EXCEPT ![u][k] = m]
        /\ \A i \in 1 .. Len(rows[u]) : rows[u][i].status = "trial" => i = k
    BY <1>4, <2>2, <2>3, <2>5 DEF Trials!RenewMembership, Trials!Holding
  <2>7. /\ \A v \in User : Len(rows'[v]) = Len(rows[v])
        /\ rows'[u][k] = m
        /\ \A v \in User : \A j \in 1 .. Len(rows[v]) : v # u \/ j # k => rows'[v][j] = rows[v][j]
    BY <1>0, <2>4, <2>5, <2>6, RowEdit
  <2>8. Fit'
    BY <1>0, <2>4, <2>7
  <2>9. ASSUME NEW v \in User, NEW i \in 1 .. Len(rows'[v]), NEW j \in 1 .. Len(rows'[v]),
               rows'[v][i].status = "trial", rows'[v][j].status = "trial"
        PROVE  i = j
    <3>1. i \in 1 .. Len(rows[v]) /\ j \in 1 .. Len(rows[v])
      BY <2>7
    <3>2. CASE v # u
      BY <1>0, <2>7, <2>9, <3>1, <3>2
    <3>3. CASE v = u
      <4>1. ASSUME NEW n \in 1 .. Len(rows[u]), rows'[u][n].status = "trial" PROVE n = k
        BY <2>6, <2>7, <4>1
      <4> QED
        BY <2>9, <3>1, <3>3, <4>1
    <3> QED
      BY <3>2, <3>3
  <2> QED
    BY <1>2, <2>8, <2>9
<1>5. ASSUME Trials!EndTrial, rows' # rows PROVE Fit' /\ OnePlace'
  <2>1. ending \in EndRequest /\ EndKnows(ending) /\ ending.at = "end"
    BY <1>1, <1>5 DEF Trials!EndTrial, TrialShape
  <2>2. PICK u \in User : ending.user = u
    BY <2>1 DEF EndKnows
  <2>3. PICK k \in 1 .. Len(rows[u]) : ending.row = k
    BY <2>1, <2>2 DEF EndKnows
  <2>4. PICK h \in MemberRow : h = rows[u][k]
    BY <1>1, ClocksTyped
  <2>5. PICK m : m = [h EXCEPT !.status = "lapsed", !.expires = ending.time]
    OBVIOUS
  <2>6. ending.time \in Clock
    BY <2>1 DEF EndRequest, Clock
  <2>7. m \in MemberRow /\ m.status = "lapsed" /\ m.expires = ending.time
    BY <2>5, <2>6 DEF MemberRow
  <2>8. rows' = [rows EXCEPT ![u][k] = m]
    BY <1>5, <2>2, <2>3, <2>4, <2>5 DEF Trials!EndTrial
  <2>9. /\ \A v \in User : Len(rows'[v]) = Len(rows[v])
        /\ rows'[u][k] = m
        /\ \A v \in User : \A j \in 1 .. Len(rows[v]) : v # u \/ j # k => rows'[v][j] = rows[v][j]
    BY <1>0, <2>7, <2>8, RowEdit
  <2>10. Fit'
    BY <1>0, <2>7, <2>9
  <2>11. ASSUME NEW v \in User, NEW n \in 1 .. Len(rows'[v]), rows'[v][n].status = "trial"
         PROVE  n \in 1 .. Len(rows[v]) /\ rows[v][n].status = "trial"
    BY <2>7, <2>9, <2>11
  <2> QED
    BY <1>0, <1>2, <2>10, <2>11
<1>6. \/ rows' = rows \/ Trials!EndTrial
      \/ \E r \in Request : Trials!CreateMembership(r) \/ Trials!RenewMembership(r)
  BY DEF Trials!Next, Trials!Submit, Trials!Redeem, Trials!OpenTrial, Trials!SlotMembership,
     Trials!Abandon, Trials!FindTrial, Trials!FindGrant, Trials!CloseGrant, Trials!ClearUse,
     Trials!DropOldGrants, Trials!NextHour, Trials!ExpireCampaign, Trials!vars
<1>7. CASE rows' = rows
  BY <1>0, <1>7, <1>2
<1> QED
  BY <1>3, <1>4, <1>5, <1>6, <1>7

(* Every step of the trials keeps both.                                    *)
LEMMA TrialTimesKept ==
  ASSUME TrialBounds, TrialInv, TrialTimes, OnePlace, [Trials!Next]_(Trials!vars)
  PROVE  TrialTimes' /\ OnePlace'
<1>1. TrialTime \in Nat /\ now \in 0 .. TrialTime
  BY DEF TrialBounds, TrialTimes
<1>2. now' = now \/ (now < TrialTime /\ now' = now + 1)
  BY DEF Trials!Next, Trials!Submit, Trials!Redeem, Trials!OpenTrial, Trials!CreateMembership,
     Trials!SlotMembership, Trials!RenewMembership, Trials!Abandon, Trials!FindTrial, Trials!EndTrial,
     Trials!FindGrant, Trials!CloseGrant, Trials!ClearUse, Trials!DropOldGrants, Trials!NextHour,
     Trials!ExpireCampaign, Trials!vars
<1>3. now' \in 0 .. TrialTime
  BY <1>1, <1>2
<1> QED
  BY <1>3, GrantsFit, RequestsFit, EndingFits, RowsFit DEF TrialTimes, GrantFits

(* They hold when nothing has been redeemed.                               *)
LEMMA TrialTimesBegin ==
  ASSUME TrialBounds, Trials!Init PROVE TrialTimes /\ OnePlace
<1>1. /\ now = 0 /\ grant = [u \in User |-> [c \in Card |-> Trials!NoGrant]]
      /\ rows = [u \in User |-> <<>>] /\ req = [r \in Request |-> Trials!NoReq]
      /\ ending = Trials!NoEnding
  BY DEF Trials!Init
<1>2. Nothing \in Trials!Time /\ TrialTime \in Nat /\ MaxMints \in Nat
  BY TimesOfTrials DEF TrialBounds
<1>3. GrantFits(Trials!NoGrant)
  BY <1>2 DEF GrantFits, Trials!NoGrant
<1>4. Trials!NoReq.expires = Nothing /\ Trials!NoEnding.time = 0 /\ Trials!NoEnding.opened = Nothing
  BY DEF Trials!NoReq, Trials!NoEnding
<1>5. \A u \in User : 1 .. Len(rows[u]) = {}
  BY <1>1, EmptySeq
<1>6. TrialTimes
  BY <1>1, <1>2, <1>3, <1>4, <1>5 DEF TrialTimes
<1>7. OnePlace
  BY <1>5 DEF OnePlace, Trials!Holding
<1> QED
  BY <1>6, <1>7

(* With the shape of the tables, that is the trials' type.                 *)
LEMMA TrialsTyped ==
  ASSUME TrialBounds, TrialInv, TrialTimes, OnePlace PROVE Trials!TypeOK
<1>1. /\ now \in 0 .. TrialTime /\ card \in [Card -> [count : Nat, active : BOOLEAN]]
      /\ grant \in [User -> [Card -> GrantRow]] /\ MaxMints \in Nat
      /\ ending \in EndRequest /\ req \in [Request -> Redemption]
  BY DEF TrialTimes, TrialInv, TrialShape, TrialBounds
<1>2. ASSUME NEW u \in User, NEW c \in Card
      PROVE  grant[u][c] \in [id : 0 .. MaxMints, opened : Trials!Time, expires : Trials!Time]
  <2>1. PICK g \in GrantRow : g = grant[u][c] /\ GrantFits(g)
    BY <1>1 DEF TrialTimes
  <2>2. g.id \in 0 .. MaxMints
    BY <1>1, <2>1 DEF GrantFits, GrantRow
  <2> QED
    BY <2>1, <2>2 DEF GrantFits, GrantRow
<1>3. grant \in [User -> [Card -> [id : 0 .. MaxMints, opened : Trials!Time, expires : Trials!Time]]]
  BY <1>1, <1>2
<1>4. ASSUME NEW u \in User, NEW i \in 1 .. Len(rows[u])
      PROVE  rows[u][i] \in [status : {"trial", "lapsed"}, card : Card, expires : Trials!Time]
  <2>1. PICK m \in MemberRow : m = rows[u][i]
    BY ClocksTyped DEF TrialInv
  <2>2. m.expires \in Trials!Time
    BY <2>1 DEF TrialTimes
  <2> QED
    BY <2>1, <2>2 DEF MemberRow
<1>5. ASSUME NEW u \in User PROVE Trials!Cardinality(Trials!Holding(u)) <= 1
  <2>1. Cardinality(Trials!Holding(u)) <= 1
    BY AtMostOne DEF OnePlace
  <2> QED
    BY <2>1 DEF Cardinality, Trials!Cardinality
<1>6. \A r \in Request : req[r].at \in {"idle", "redeem", "open", "create", "conflict", "renew"}
  BY <1>1 DEF Redemption
<1>7. ending.at \in {"idle", "end", "find", "close"}
  BY <1>1 DEF EndRequest
<1> QED
  BY <1>1, <1>3, <1>4, <1>5, <1>6, <1>7 DEF Trials!TypeOK

----------------------------------------------------------------------------
(* All of them.                                                            *)

(* What the bounds on the clocks, the chats' rows and the trials need      *)
(* beside the invariants of the safety theorems.                           *)
Extras ==
  /\ focus = "permits" => PermitExtra
  /\ focus = "funds" => Funds!TypeOK
  /\ focus = "drill" => Drill!TypeOK
  /\ focus = "limiter" => LimiterExtra
  /\ focus = "chats" => ChatExtra
  /\ focus = "blind" => Blind!TypeOK
  /\ focus = "trials" => TrialTimes /\ OnePlace
  /\ focus = "identity" => SignInExtra

Known ==
  /\ focus = "permits" => PermitInv /\ SeenInv
  /\ focus = "limiter" => BudgetInv /\ SweepInv
  /\ focus = "chats" => StopInv
  /\ focus = "trials" => TrialInv
  /\ focus = "identity" => SignInInv
  /\ focus = "exits" => ExitInv
  /\ focus = "levers" => LoanInv

(* The assumptions on the constants, as the lemmas cite them.              *)
LEMMA TypeNumbers ==
  /\ FundTime \in Nat /\ MaxDonations \in Nat /\ Team \in Account
  /\ Threshold \in Nat /\ PermitTime \in Nat
  /\ DrillTime \in Nat \ {0} /\ DrillWindow \in Nat
  /\ LimiterSizes /\ SweepSizes /\ LimiterTime \in Nat /\ MaxKeys \in Nat
  /\ Nothing \notin Chat /\ ProofKinds /\ SignInTime \in Nat
  /\ TrialNumbers /\ TrialBounds /\ ExitNumbers
BY ServiceConstants DEF Bounds, SweepSizes, TrialBounds

(* What is added holds at the start,                                       *)
LEMMA ExtrasBegin == Init => Extras
<1> SUFFICES ASSUME Init PROVE Extras
  OBVIOUS
<1>1. /\ now = 0
      /\ focus = "permits" => Permits!Init
      /\ focus = "funds" => Funds!Init
      /\ focus = "drill" => Drill!Init
      /\ focus = "limiter" => Limiter!Init
      /\ focus = "chats" => Chats!Init
      /\ focus = "blind" => Blind!Init
      /\ focus = "trials" => Trials!Init
      /\ focus = "identity" => Identity!Init
  BY DEF Init
<1>2. ASSUME focus = "permits" PROVE PermitExtra
  <2>1. used = {} /\ told = {} /\ task = [r \in Request |-> "none"] /\ 0 \in 0 .. PermitTime
    BY <1>1, <1>2, TypeNumbers DEF Permits!Init
  <2> QED
    BY <1>1, <2>1 DEF PermitExtra
<1>3. ASSUME focus = "chats" PROVE ChatExtra
  <2>1. blocks = {} /\ quiet = {} /\ \A w \in Linked : link[w].chat = Nothing
    BY <1>1, <1>3 DEF Chats!Init, Chats!NoLink
  <2> QED
    BY <2>1, TypeNumbers DEF ChatExtra
<1>4. ASSUME focus = "identity" PROVE SignInExtra
  <2>1. nonce = [n \in Nonce |-> Nothing] /\ 0 \in 0 .. SignInTime
    BY <1>1, <1>4, TypeNumbers DEF Identity!Init
  <2> QED
    BY <1>1, <2>1 DEF SignInExtra, NonceTime
<1> QED
  BY <1>1, <1>2, <1>3, <1>4, TypeNumbers, FundsTyped, DrillTyped, LimiterBegins, BlindTyped,
     TrialTimesBegin DEF Extras

(* and every step keeps it, given the invariants before and after.         *)
LEMMA ExtrasKept == Known /\ Known' /\ Extras /\ [Next]_vars => Extras'
<1> SUFFICES ASSUME Known, Known', Extras, [Next]_vars PROVE Extras'
  OBVIOUS
<1>1. /\ focus' = focus
      /\ focus = "permits" => [Permits!Next]_(Permits!vars)
      /\ focus = "funds" => [Funds!Next]_(Funds!vars)
      /\ focus = "drill" => [Drill!Next]_(Drill!vars)
      /\ focus = "limiter" => [Limiter!Next]_(Limiter!vars)
      /\ focus = "chats" => [Chats!Next]_(Chats!vars)
      /\ focus = "blind" => [Blind!Next]_(Blind!vars)
      /\ focus = "trials" => [Trials!Next]_(Trials!vars)
      /\ focus = "identity" => [Identity!Next]_(Identity!vars)
  BY StepInFocus
<1>2. focus = "permits" => PermitExtra'
  BY <1>1, TypeNumbers, PermitExtraKept DEF Known, Extras
<1>3. focus = "funds" => Funds!TypeOK'
  BY <1>1, TypeNumbers, FundsTyped DEF Extras
<1>4. focus = "drill" => Drill!TypeOK'
  BY <1>1, TypeNumbers, DrillTyped DEF Extras
<1>5. focus = "limiter" => LimiterExtra'
  BY <1>1, TypeNumbers, LimiterExtraKept DEF Known, Extras
<1>6. focus = "chats" => ChatExtra'
  BY <1>1, TypeNumbers, ChatExtraKept DEF Known, Extras
<1>7. focus = "blind" => Blind!TypeOK'
  BY <1>1, TypeNumbers, BlindTyped DEF Extras
<1>8. focus = "trials" => TrialTimes' /\ OnePlace'
  BY <1>1, TypeNumbers, TrialTimesKept DEF Known, Extras
<1>9. focus = "identity" => SignInExtra'
  BY <1>1, TypeNumbers, SignInExtraKept DEF Known, Extras
<1> QED
  BY <1>1, <1>2, <1>3, <1>4, <1>5, <1>6, <1>7, <1>8, <1>9 DEF Extras

(* Every service keeps its variables in their types: clocks within their   *)
(* bounds, at most one row per chat, one membership in place per user,     *)
(* never more addresses in a limiter's map than its size, no negative      *)
(* balance (server/rateLimit.ts, server/telegram.ts, server/accounts.ts).  *)
THEOREM ServicesTyped == Spec => []TypeOK
<1>1. Spec => []Known
  <2>1. Spec => [](focus = "trials" => TrialInv)
    BY TypeNumbers, TrialsInvariant
  <2> QED
    BY <2>1, PermitsInvariant, LimiterInvariant, StopInvariant, SignInInvariant,
       TransactionsInvariant, PTL DEF Known
<1>2. Known /\ Extras => TypeOK
  <2> SUFFICES ASSUME Known, Extras PROVE TypeOK
    OBVIOUS
  <2>1. focus = "permits" => Permits!TypeOK
    BY TypeNumbers, PermitsTyped DEF Known, Extras
  <2>2. focus = "limiter" => Limiter!TypeOK
    BY TypeNumbers, LimiterTyped DEF Known, Extras
  <2>3. focus = "chats" => Chats!TypeOK
    BY ChatsTyped DEF Known, Extras
  <2>4. focus = "trials" => Trials!TypeOK
    BY TypeNumbers, TrialsTyped DEF Known, Extras
  <2>5. focus = "identity" => Identity!TypeOK
    BY SignInTyped DEF Known, Extras
  <2>6. focus = "exits" => Exits!TypeOK
    BY TypeNumbers, ExitTyped DEF Known
  <2>7. focus = "levers" => Levers!TypeOK
    BY LoanTyped DEF Known
  <2> QED
    BY <2>1, <2>2, <2>3, <2>4, <2>5, <2>6, <2>7 DEF Extras, TypeOK
<1> QED
  BY <1>1, <1>2, ExtrasBegin, ExtrasKept, PTL DEF Spec
=============================================================================
