------------------------- MODULE ExitPermitsProofs -------------------------
(***************************************************************************)
(* Proofs about the delegated permits: what the rows say of a permit, and  *)
(* what a request reports, is true of the chain, however requests overlap; *)
(* and the backend stores the scopes that the contract honours.            *)
(***************************************************************************)
EXTENDS Services, TLAPS

(* The invariant's typed part: what the steps below are computed from.     *)
Step == {"idle", "liveness", "insert", "rows", "epoch", "nonces", "persist"}

Shape ==
  /\ now \in Nat /\ epoch \in Nat /\ epoch <= now
  /\ row \in [Permit -> Permits!Terminal \union {Permits!Active, "none"}]
  /\ at \in [Request -> Step]
  /\ arg \in [Request -> SUBSET Permit]
  /\ started \in [Request -> Nat]
  /\ todo \in [Request -> SUBSET (Permit \union {"epoch", "nonce"})]
  /\ fetched \in [Request -> SUBSET Permit]
  /\ seenEpoch \in [Request -> Nat]
  /\ verdict \in [Request -> [Permit -> Permits!Terminal \union {Permits!Active}]]
  /\ deadAtStart \in [Request -> SUBSET Permit]

(* The rows: a permit gets one only after its epoch was the chain's.       *)
RowsSound ==
  \A p \in Permit :
    /\ row[p] # "none" => Epoch[p] <= epoch
    /\ row[p] \in Permits!Terminal => Permits!Dead(p)

(* A submission that has read the epoch found it to be the permit's.       *)
Vetted(r) ==
  /\ at[r] \in {"liveness", "insert"} => \E p \in Permit : arg[r] = {p}
  /\ at[r] = "insert" => todo[r] = {}
  /\ at[r] \in {"liveness", "insert"} /\ "epoch" \notin todo[r]
       => \A p \in arg[r] : Epoch[p] <= epoch

(* A reconciliation judges by moments of the past, and condemns only what  *)
(* the chain has condemned since.                                          *)
Judged(r) ==
  /\ started[r] <= now /\ seenEpoch[r] <= epoch
  /\ \A p \in Permit : verdict[r][p] # Permits!Active => Permits!Dead(p)
  /\ \A p \in fetched[r] : Epoch[p] <= epoch
  /\ at[r] = "nonces" => \A p \in fetched[r] : Epoch[p] <= seenEpoch[r]
  /\ at[r] = "nonces" => todo[r] \subseteq fetched[r]

PermitInv ==
  /\ Shape
  /\ RowsSound
  /\ \A r \in Request : Vetted(r) /\ Judged(r)

(* What the chain had killed when the request began is condemned by what   *)
(* the request has read, or will be by what it still has to read.          *)
Doomed(r, p, chainEpoch) ==
  Deadline[p] <= started[r] \/ Epoch[p] < chainEpoch \/ PermitNonce[p] \in used

Remembered(r) ==
  /\ at[r] \in {"rows", "epoch"} => \A p \in deadAtStart[r] : Doomed(r, p, epoch)
  /\ at[r] \in {"epoch", "nonces"} => deadAtStart[r] \subseteq fetched[r]
  /\ at[r] = "nonces" =>
       \A p \in deadAtStart[r] :
         IF p \in todo[r] THEN Doomed(r, p, seenEpoch[r]) ELSE verdict[r][p] # Permits!Active
  /\ at[r] = "persist" => \A p \in deadAtStart[r] : verdict[r][p] # Permits!Active

SeenInv == Shape /\ \A r \in Request : Remembered(r)

Local(r) == <<at[r], arg[r], started[r], todo[r], fetched[r], seenEpoch[r], verdict[r],
              deadAtStart[r]>>

(* resolveLiveStatus condemns a permit for each of its three reasons, and  *)
(* for no other.                                                           *)
LEMMA Verdict ==
  ASSUME NEW p \in Permit, NEW chainEpoch \in Int, NEW nonceUsed \in BOOLEAN, NEW nowSec \in Int,
         Numbers
  PROVE  LET v == Permits!resolveLiveStatus(p, chainEpoch, nonceUsed, nowSec)
         IN  /\ v \in Permits!Terminal \union {Permits!Active}
             /\ v # Permits!Active <=> (Deadline[p] <= nowSec \/ Epoch[p] # chainEpoch \/ nonceUsed)
<1>1. Epoch[p] \in Int /\ Deadline[p] \in Int
  BY DEF Numbers
<1>2. CASE Deadline[p] <= nowSec
  BY <1>1, <1>2 DEF Permits!resolveLiveStatus, Permits!Terminal, Permits!Active
<1>3. CASE Deadline[p] > nowSec /\ Epoch[p] # chainEpoch
  BY <1>1, <1>3 DEF Permits!resolveLiveStatus, Permits!Terminal, Permits!Active
<1>4. CASE Deadline[p] > nowSec /\ Epoch[p] = chainEpoch /\ nonceUsed
  BY <1>1, <1>4 DEF Permits!resolveLiveStatus, Permits!Terminal, Permits!Active
<1>5. CASE Deadline[p] > nowSec /\ Epoch[p] = chainEpoch /\ ~nonceUsed
  BY <1>1, <1>5 DEF Permits!resolveLiveStatus, Permits!Terminal, Permits!Active
<1> QED
  BY <1>1, <1>2, <1>3, <1>4, <1>5

(* The tables and the requests begin empty.                                *)
LEMMA ShapeInitially == Permits!Init => Shape
<1> SUFFICES ASSUME Permits!Init PROVE Shape
  OBVIOUS
<1>1. at \in [Request -> Step] /\ row \in [Permit -> Permits!Terminal \union {Permits!Active, "none"}]
  BY DEF Permits!Init, Step
<1>2. verdict \in [Request -> [Permit -> Permits!Terminal \union {Permits!Active}]]
  BY DEF Permits!Init
<1>3. /\ now \in Nat /\ epoch \in Nat /\ epoch <= now
      /\ started \in [Request -> Nat] /\ seenEpoch \in [Request -> Nat]
  BY DEF Permits!Init
<1>4. /\ arg \in [Request -> SUBSET Permit] /\ fetched \in [Request -> SUBSET Permit]
      /\ deadAtStart \in [Request -> SUBSET Permit]
      /\ todo \in [Request -> SUBSET (Permit \union {"epoch", "nonce"})]
  BY DEF Permits!Init
<1> QED
  BY <1>1, <1>2, <1>3, <1>4 DEF Shape

(* Block number, epoch and spent nonces only ever grow.                    *)
LEMMA ChainGrows ==
  ASSUME Shape, [Permits!Next]_(Permits!vars)
  PROVE  /\ now' \in Nat /\ epoch' \in Nat /\ epoch' <= now'
         /\ now <= now' /\ epoch <= epoch' /\ used \subseteq used'
<1>1. CASE Permits!RevokeAll \/ Permits!NextBlock
  BY <1>1 DEF Permits!RevokeAll, Permits!NextBlock, Shape
<1>2. CASE \E p \in Permit : Permits!InvalidateUnorderedNonces(PermitNonce[p]) \/ Permits!ConsumePermit(p)
  BY <1>2 DEF Permits!InvalidateUnorderedNonces, Permits!ConsumePermit, Shape
<1>3. CASE UNCHANGED Permits!chain
  BY <1>3 DEF Permits!chain, Shape
<1>4. ASSUME NEW r \in Request, Permits!Backend(r) PROVE UNCHANGED Permits!chain
  BY <1>4 DEF Permits!Backend, Permits!SubmitDelegation, Permits!ReadLiveness,
     Permits!InsertDelegation, Permits!BeginReconcile, Permits!ListActive,
     Permits!ReadEpoch, Permits!ReadNonce, Permits!SetStatus, Permits!AttachEvidence,
     Permits!Reply, Permits!Fail, Permits!Idle, Permits!chain, Permits!table, Permits!locals
<1>5. CASE UNCHANGED Permits!vars \/ \E p \in Permit : Permits!Prune(p)
  BY <1>3, <1>5 DEF Permits!vars, Permits!Prune, Permits!chain
<1> QED
  BY <1>1, <1>2, <1>3, <1>4, <1>5 DEF Permits!Next, Permits!Chain

(* One nonce read: a permit is judged by what the request has read.        *)
LEMMA ReadNonceEffect ==
  ASSUME Shape, Numbers, NEW r \in Request, Permits!ReadNonce(r),
         todo[r] \subseteq Permit
  PROVE  /\ at[r] = "nonces"
         /\ at' \in [Request -> Step]
         /\ started' \in [Request -> Nat] /\ seenEpoch' \in [Request -> Nat]
         /\ todo' \in [Request -> SUBSET (Permit \union {"epoch", "nonce"})]
         /\ verdict' \in [Request -> [Permit -> Permits!Terminal \union {Permits!Active}]]
         /\ UNCHANGED <<Permits!chain, row, arg, fetched, deadAtStart>>
         /\ \A q \in Request \ {r} :
              UNCHANGED <<at[q], started[q], seenEpoch[q], todo[q], verdict[q]>>
         /\ \E p \in todo[r] \intersect Permit :
              /\ \A o \in Permit \ {p} : verdict'[r][o] = verdict[r][o]
              /\ verdict'[r][p] # Permits!Active <=> (\/ Deadline[p] <= started[r]
                                              \/ Epoch[p] # seenEpoch[r]
                                              \/ PermitNonce[p] \in used)
              /\ \/ /\ at'[r] = "persist" /\ todo[r] = {p}
                    /\ started'[r] = 0 /\ seenEpoch'[r] = 0
                 \/ /\ at'[r] = "nonces" /\ todo'[r] = todo[r] \ {p}
                    /\ started'[r] = started[r] /\ seenEpoch'[r] = seenEpoch[r]
<1>1. PICK p \in todo[r] :
        LET status == Permits!resolveLiveStatus(p, seenEpoch[r], PermitNonce[p] \in used, started[r])
            judged == [verdict[r] EXCEPT ![p] = status]
        IN  /\ verdict' = [verdict EXCEPT ![r] = judged]
            /\ IF todo[r] = {p}
               THEN /\ at' = [at EXCEPT ![r] = "persist"]
                    /\ todo' = [todo EXCEPT ![r] = {q \in fetched[r] : judged[q] # Permits!Active}]
                    /\ started' = [started EXCEPT ![r] = 0]
                    /\ seenEpoch' = [seenEpoch EXCEPT ![r] = 0]
               ELSE /\ todo' = [todo EXCEPT ![r] = @ \ {p}]
                    /\ UNCHANGED <<at, started, seenEpoch>>
  BY DEF Permits!ReadNonce
<1> DEFINE status == Permits!resolveLiveStatus(p, seenEpoch[r], PermitNonce[p] \in used, started[r])
           judged == [verdict[r] EXCEPT ![p] = status]
<1>2. p \in Permit /\ at[r] = "nonces" /\ UNCHANGED <<Permits!chain, row, arg, fetched, deadAtStart>>
  BY DEF Permits!ReadNonce, Permits!table
<1>3. /\ status \in Permits!Terminal \union {Permits!Active}
      /\ status # Permits!Active <=> (\/ Deadline[p] <= started[r]
                              \/ Epoch[p] # seenEpoch[r]
                              \/ PermitNonce[p] \in used)
  <2>1. seenEpoch[r] \in Int /\ started[r] \in Int
    BY DEF Shape
  <2> DEFINE b == PermitNonce[p] \in used
  <2>2. b \in BOOLEAN
    OBVIOUS
  <2>3. status = Permits!resolveLiveStatus(p, seenEpoch[r], b, started[r])
    OBVIOUS
  <2> HIDE DEF b, status
  <2>4. /\ status \in Permits!Terminal \union {Permits!Active}
        /\ status # Permits!Active <=> (\/ Deadline[p] <= started[r]
                                \/ Epoch[p] # seenEpoch[r]
                                \/ b)
    BY <1>2, <2>1, <2>2, <2>3, Verdict
  <2> QED
    BY <2>4 DEF b
<1> HIDE DEF status
<1>4. /\ judged \in [Permit -> Permits!Terminal \union {Permits!Active}]
      /\ judged[p] = status
      /\ \A o \in Permit \ {p} : judged[o] = verdict[r][o]
  BY <1>2, <1>3 DEF Shape
<1>5. verdict' = [verdict EXCEPT ![r] = judged]
  BY <1>1 DEF status
<1>6. {q \in fetched[r] : judged[q] # Permits!Active} \in SUBSET Permit
  BY DEF Shape
<1>7. \/ /\ todo[r] = {p}
         /\ at' = [at EXCEPT ![r] = "persist"]
         /\ \E left \in SUBSET Permit : todo' = [todo EXCEPT ![r] = left]
         /\ started' = [started EXCEPT ![r] = 0]
         /\ seenEpoch' = [seenEpoch EXCEPT ![r] = 0]
      \/ /\ todo' = [todo EXCEPT ![r] = @ \ {p}]
         /\ UNCHANGED <<at, started, seenEpoch>>
  BY <1>1, <1>6 DEF status
<1> HIDE DEF judged
<1>8. /\ verdict' \in [Request -> [Permit -> Permits!Terminal \union {Permits!Active}]]
      /\ verdict'[r] = judged
      /\ \A q \in Request \ {r} : verdict'[q] = verdict[q]
  <2>1. verdict \in [Request -> [Permit -> Permits!Terminal \union {Permits!Active}]]
    BY DEF Shape
  <2>2. \A q \in Request : verdict'[q] = IF q = r THEN judged ELSE verdict[q]
    BY <1>5, <2>1
  <2>3. verdict' \in [Request -> [Permit -> Permits!Terminal \union {Permits!Active}]]
    BY <1>4, <1>5, <2>1
  <2> QED
    BY <2>2, <2>3
<1>9. /\ at' \in [Request -> Step]
      /\ started' \in [Request -> Nat] /\ seenEpoch' \in [Request -> Nat]
      /\ \A q \in Request \ {r} : UNCHANGED <<at[q], started[q], seenEpoch[q]>>
  <2>1. at \in [Request -> Step] /\ started \in [Request -> Nat] /\ seenEpoch \in [Request -> Nat]
    BY DEF Shape
  <2>2. at' = at \/ at' = [at EXCEPT ![r] = "persist"]
    BY <1>7
  <2>3. at' \in [Request -> Step] /\ \A q \in Request \ {r} : at'[q] = at[q]
    BY <2>1, <2>2 DEF Step
  <2>4. started' = started \/ started' = [started EXCEPT ![r] = 0]
    BY <1>7
  <2>5. started' \in [Request -> Nat] /\ \A q \in Request \ {r} : started'[q] = started[q]
    BY <2>1, <2>4
  <2>6. seenEpoch' = seenEpoch \/ seenEpoch' = [seenEpoch EXCEPT ![r] = 0]
    BY <1>7
  <2>7. seenEpoch' \in [Request -> Nat] /\ \A q \in Request \ {r} : seenEpoch'[q] = seenEpoch[q]
    BY <2>1, <2>6
  <2> QED
    BY <2>3, <2>5, <2>7
<1>10. /\ todo' \in [Request -> SUBSET (Permit \union {"epoch", "nonce"})]
       /\ \A q \in Request \ {r} : todo'[q] = todo[q]
  BY <1>7 DEF Shape
<1>11. \/ /\ at'[r] = "persist" /\ todo[r] = {p}
          /\ started'[r] = 0 /\ seenEpoch'[r] = 0
       \/ /\ at'[r] = "nonces" /\ todo'[r] = todo[r] \ {p}
          /\ started'[r] = started[r] /\ seenEpoch'[r] = seenEpoch[r]
  BY <1>2, <1>7 DEF Shape
<1>12. /\ \A o \in Permit \ {p} : verdict'[r][o] = verdict[r][o]
       /\ verdict'[r][p] # Permits!Active <=> (\/ Deadline[p] <= started[r]
                                       \/ Epoch[p] # seenEpoch[r]
                                       \/ PermitNonce[p] \in used)
  BY <1>3, <1>4, <1>8
<1> QED
  BY <1>2, <1>8, <1>9, <1>10, <1>11, <1>12

Locals ==
  /\ at \in [Request -> Step]
  /\ arg \in [Request -> SUBSET Permit]
  /\ started \in [Request -> Nat]
  /\ todo \in [Request -> SUBSET (Permit \union {"epoch", "nonce"})]
  /\ fetched \in [Request -> SUBSET Permit]
  /\ seenEpoch \in [Request -> Nat]
  /\ verdict \in [Request -> [Permit -> Permits!Terminal \union {Permits!Active}]]
  /\ deadAtStart \in [Request -> SUBSET Permit]

(* A request that ends is of the right type.                               *)
LEMMA IdleTyped ==
  ASSUME Locals, NEW r \in Request, Permits!Idle(r) PROVE Locals'
<1>1. /\ at' \in [Request -> Step] /\ arg' \in [Request -> SUBSET Permit]
      /\ started' \in [Request -> Nat] /\ seenEpoch' \in [Request -> Nat]
  BY DEF Permits!Idle, Locals, Step
<1>2. /\ todo' \in [Request -> SUBSET (Permit \union {"epoch", "nonce"})]
      /\ fetched' \in [Request -> SUBSET Permit] /\ deadAtStart' \in [Request -> SUBSET Permit]
  BY DEF Permits!Idle, Locals
<1>3. verdict' \in [Request -> [Permit -> Permits!Terminal \union {Permits!Active}]]
  BY DEF Permits!Idle, Locals
<1> QED
  BY <1>1, <1>2, <1>3 DEF Locals

(* So is one that submits a permit,                                        *)
LEMMA SubmitTyped ==
  ASSUME Shape, NEW r \in Request,
         \/ \E p \in Permit : Permits!SubmitDelegation(r, p)
         \/ Permits!ReadLiveness(r) \/ Permits!InsertDelegation(r)
  PROVE  Locals'
<1>0. Locals
  BY DEF Shape, Locals
<1>1. CASE Permits!Idle(r)
  BY <1>0, <1>1, IdleTyped
<1>2. ASSUME NEW p \in Permit, Permits!SubmitDelegation(r, p) PROVE Locals'
  BY <1>0, <1>2 DEF Permits!SubmitDelegation, Locals, Step
<1>3. CASE Permits!ReadLiveness(r) /\ ~Permits!Idle(r)
  <2>1. PICK what \in todo[r] :
           /\ todo' = [todo EXCEPT ![r] = @ \ {what}]
           /\ at' = [at EXCEPT ![r] = IF todo[r] = {what} THEN "insert" ELSE @]
           /\ UNCHANGED <<task, arg, started, fetched, seenEpoch, verdict, deadAtStart>>
    BY <1>3 DEF Permits!ReadLiveness
  <2>2. at' \in [Request -> Step]
    BY <1>0, <2>1 DEF Locals, Step
  <2>3. todo' \in [Request -> SUBSET (Permit \union {"epoch", "nonce"})]
    BY <1>0, <2>1 DEF Locals
  <2> QED
    BY <1>0, <2>1, <2>2, <2>3 DEF Locals
<1> QED
  BY <1>1, <1>2, <1>3 DEF Permits!InsertDelegation

(* one that reconciles the rows with the chain,                            *)
LEMMA ReconcileTyped ==
  ASSUME Shape, Numbers, NEW r \in Request, at[r] = "nonces" => todo[r] \subseteq Permit,
         \/ \E who \in Permits!Reader : Permits!BeginReconcile(r, who)
         \/ Permits!ListActive(r) \/ Permits!ReadEpoch(r) \/ Permits!ReadNonce(r)
  PROVE  Locals'
<1>0. Locals /\ now \in Nat /\ epoch \in Nat
  BY DEF Shape, Locals
<1>1. CASE Permits!Idle(r)
  BY <1>0, <1>1, IdleTyped
<1>2. ASSUME NEW who \in Permits!Reader, Permits!BeginReconcile(r, who) PROVE Locals'
  <2>1. at' \in [Request -> Step] /\ started' \in [Request -> Nat]
    BY <1>0, <1>2 DEF Permits!BeginReconcile, Locals, Step
  <2>2. deadAtStart' \in [Request -> SUBSET Permit]
    BY <1>0, <1>2 DEF Permits!BeginReconcile, Locals
  <2> QED
    BY <1>0, <1>2, <2>1, <2>2 DEF Permits!BeginReconcile, Locals
<1>3. CASE Permits!ListActive(r) /\ ~Permits!Idle(r)
  <2> DEFINE found == {p \in Permit : row[p] = Permits!Active}
  <2>1. /\ fetched' = [fetched EXCEPT ![r] = found]
        /\ at' = [at EXCEPT ![r] = "epoch"]
        /\ deadAtStart' = [deadAtStart EXCEPT ![r] = @ \intersect found]
        /\ UNCHANGED <<task, arg, started, todo, seenEpoch, verdict>>
    BY <1>3 DEF Permits!ListActive
  <2>2. at' \in [Request -> Step] /\ found \in SUBSET Permit
    BY <1>0, <2>1 DEF Locals, Step
  <2> HIDE DEF found
  <2>3. fetched' \in [Request -> SUBSET Permit] /\ deadAtStart' \in [Request -> SUBSET Permit]
    BY <1>0, <2>1, <2>2 DEF Locals
  <2> QED
    BY <1>0, <2>1, <2>2, <2>3 DEF Locals
<1>4. CASE Permits!ReadEpoch(r)
  <2>1. at' \in [Request -> Step] /\ seenEpoch' \in [Request -> Nat]
    BY <1>0, <1>4 DEF Permits!ReadEpoch, Locals, Step
  <2>2. todo' \in [Request -> SUBSET (Permit \union {"epoch", "nonce"})]
    BY <1>0, <1>4 DEF Permits!ReadEpoch, Locals
  <2> QED
    BY <1>0, <1>4, <2>1, <2>2 DEF Permits!ReadEpoch, Locals
<1>5. CASE Permits!ReadNonce(r)
  <2>1. at[r] = "nonces"
    BY <1>5 DEF Permits!ReadNonce
  <2> QED
    BY <1>0, <1>5, <2>1, ReadNonceEffect DEF Locals
<1> QED
  BY <1>1, <1>2, <1>3, <1>4, <1>5

(* and one that writes what it has found.                                  *)
LEMMA SettleTyped ==
  ASSUME Shape, NEW r \in Request,
         Permits!SetStatus(r) \/ Permits!AttachEvidence(r) \/ Permits!Reply(r) \/ Permits!Fail(r)
  PROVE  Locals'
<1>0. Locals
  BY DEF Shape, Locals
<1>1. CASE Permits!Reply(r) \/ Permits!Fail(r)
  BY <1>0, <1>1, IdleTyped DEF Permits!Reply, Permits!Fail
<1>2. CASE Permits!SetStatus(r) \/ Permits!AttachEvidence(r)
  <2>1. todo' \in [Request -> SUBSET (Permit \union {"epoch", "nonce"})]
    BY <1>0, <1>2 DEF Permits!SetStatus, Permits!AttachEvidence, Locals
  <2> QED
    BY <1>0, <1>2, <2>1 DEF Permits!SetStatus, Permits!AttachEvidence, Locals
<1> QED
  BY <1>1, <1>2

(* Death on the chain is for good.                                         *)
LEMMA DeathIsFinal ==
  ASSUME Shape, Numbers, [Permits!Next]_(Permits!vars), NEW p \in Permit
  PROVE  /\ Permits!Dead(p) => Permits!Dead(p)'
         /\ Epoch[p] <= epoch => Epoch[p] <= epoch'
<1>1. Epoch[p] \in Int /\ Deadline[p] \in Int /\ now \in Int /\ epoch \in Int
  BY DEF Numbers, Shape
<1> QED
  BY <1>1, ChainGrows DEF Permits!Dead

(* A request's step leaves the other requests alone, and the chain.        *)
LEMMA OthersKeep ==
  ASSUME Shape, Numbers, NEW r \in Request, Permits!Backend(r), NEW q \in Request \ {r},
         at[r] = "nonces" => todo[r] \subseteq Permit
  PROVE  UNCHANGED <<Permits!chain, at[q], arg[q], started[q], todo[q], fetched[q], seenEpoch[q], verdict[q],
                     deadAtStart[q]>>
<1>1. CASE Permits!Idle(r) /\ UNCHANGED Permits!chain
  BY <1>1 DEF Permits!Idle, Shape
<1>2. CASE \E p \in Permit : Permits!SubmitDelegation(r, p)
  BY <1>2 DEF Permits!SubmitDelegation, Shape
<1>3. CASE Permits!ReadLiveness(r) /\ ~Permits!Idle(r)
  <2>1. /\ \E what \in todo[r] :
             /\ todo' = [todo EXCEPT ![r] = @ \ {what}]
             /\ at' = [at EXCEPT ![r] = IF todo[r] = {what} THEN "insert" ELSE @]
        /\ UNCHANGED <<arg, started, fetched, seenEpoch, verdict, deadAtStart>>
        /\ UNCHANGED Permits!chain
    BY <1>3 DEF Permits!ReadLiveness
  <2> QED
    BY <2>1 DEF Shape
<1>4. CASE \E who \in Permits!Reader : Permits!BeginReconcile(r, who)
  BY <1>4 DEF Permits!BeginReconcile, Shape
<1>5. CASE Permits!ListActive(r) /\ ~Permits!Idle(r)
  <2>1. /\ \E found, dead : /\ fetched' = [fetched EXCEPT ![r] = found]
                            /\ deadAtStart' = [deadAtStart EXCEPT ![r] = dead]
        /\ at' = [at EXCEPT ![r] = "epoch"]
        /\ UNCHANGED <<arg, started, todo, seenEpoch, verdict>>
        /\ UNCHANGED Permits!chain
    BY <1>5 DEF Permits!ListActive
  <2> QED
    BY <2>1 DEF Shape
<1>6. CASE Permits!ReadEpoch(r)
  BY <1>6 DEF Permits!ReadEpoch, Shape
<1>7. CASE Permits!ReadNonce(r)
  <2>1. at[r] = "nonces"
    BY <1>7 DEF Permits!ReadNonce
  <2> QED
    BY <1>7, <2>1, ReadNonceEffect
<1>8. CASE Permits!SetStatus(r) \/ Permits!AttachEvidence(r)
  <2>1. /\ \E left : todo' = [todo EXCEPT ![r] = left]
        /\ UNCHANGED <<Permits!chain, at, arg, started, fetched, seenEpoch, verdict, deadAtStart>>
    BY <1>8 DEF Permits!SetStatus, Permits!AttachEvidence
  <2> QED
    BY <2>1 DEF Shape
<1>9. Permits!InsertDelegation(r) \/ Permits!Reply(r) \/ Permits!Fail(r) => Permits!Idle(r) /\ UNCHANGED Permits!chain
  BY DEF Permits!InsertDelegation, Permits!Reply, Permits!Fail
<1>10. Permits!ReadLiveness(r) \/ Permits!ListActive(r) => UNCHANGED Permits!chain
  BY DEF Permits!ReadLiveness, Permits!ListActive
<1> QED
  BY <1>1, <1>2, <1>3, <1>4, <1>5, <1>6, <1>7, <1>8, <1>9, <1>10 DEF Permits!Backend

(* A request at rest claims nothing.                                       *)
LEMMA IdleSound ==
  ASSUME Shape, NEW r \in Request, Permits!Idle(r), now' \in Nat, epoch' \in Nat
  PROVE  (Vetted(r) /\ Judged(r))' /\ Remembered(r)'
<1>1. /\ at'[r] = "idle" /\ started'[r] = 0 /\ seenEpoch'[r] = 0 /\ fetched'[r] = {}
      /\ \A p \in Permit : verdict'[r][p] = Permits!Active
  BY DEF Permits!Idle, Shape
<1> QED
  BY <1>1 DEF Vetted, Judged, Remembered

(* What a request that is not acting claims stays true: the chain only     *)
(* grows.                                                                  *)
LEMMA ClaimsStand ==
  ASSUME Shape, Numbers, [Permits!Next]_(Permits!vars), NEW q \in Request,
         UNCHANGED <<at[q], arg[q], started[q], todo[q], fetched[q], seenEpoch[q], verdict[q],
                     deadAtStart[q]>>
  PROVE  /\ Vetted(q) => Vetted(q)'
         /\ Judged(q) => Judged(q)'
         /\ Remembered(q) => Remembered(q)'
<1>1. \A p \in Permit : (Permits!Dead(p) => Permits!Dead(p)') /\ (Epoch[p] <= epoch => Epoch[p] <= epoch')
  BY DeathIsFinal
<1>2. Vetted(q) => Vetted(q)'
  BY <1>1 DEF Vetted, Shape
<1>3. /\ now' \in Int /\ epoch' \in Int /\ now <= now' /\ epoch <= epoch' /\ used \subseteq used'
      /\ now \in Int /\ epoch \in Int /\ started[q] \in Int /\ seenEpoch[q] \in Int
  BY ChainGrows DEF Shape
<1>4. fetched[q] \subseteq Permit /\ deadAtStart[q] \subseteq Permit
  BY DEF Shape
<1>5. Judged(q) => Judged(q)'
  <2> SUFFICES ASSUME Judged(q) PROVE Judged(q)'
    OBVIOUS
  <2>1. started'[q] <= now' /\ seenEpoch'[q] <= epoch'
    BY <1>3 DEF Judged
  <2>2. /\ \A p \in Permit : verdict'[q][p] # Permits!Active => Permits!Dead(p)'
        /\ \A p \in fetched'[q] : Epoch[p] <= epoch'
    BY <1>1, <1>4 DEF Judged
  <2> QED
    BY <2>1, <2>2 DEF Judged
<1>6. Remembered(q) => Remembered(q)'
  <2> SUFFICES ASSUME Remembered(q) PROVE Remembered(q)'
    OBVIOUS
  <2>1. \A p \in deadAtStart[q] : /\ Doomed(q, p, epoch) => Doomed(q, p, epoch)'
                                  /\ Doomed(q, p, seenEpoch[q]) => Doomed(q, p, seenEpoch[q])'
    BY <1>1, <1>3, <1>4 DEF Doomed, Numbers
  <2> QED
    BY <2>1 DEF Remembered
<1> QED
  BY <1>2, <1>5, <1>6

(* A submission gets past the epoch's read only with the chain's epoch.    *)
LEMMA SubmitSound ==
  ASSUME Shape, Numbers, NEW r \in Request, Vetted(r), Judged(r), Remembered(r), [Permits!Next]_(Permits!vars),
         \/ \E p \in Permit : Permits!SubmitDelegation(r, p)
         \/ Permits!ReadLiveness(r) /\ ~Permits!Idle(r)
  PROVE  (Vetted(r) /\ Judged(r))' /\ Remembered(r)'
<1>1. /\ at'[r] \in {"liveness", "insert"}
      /\ UNCHANGED <<Permits!chain, started[r], fetched[r], seenEpoch[r], verdict[r], deadAtStart[r]>>
  BY DEF Permits!SubmitDelegation, Permits!ReadLiveness, Shape
<1>2. Judged(r)'
  BY <1>1 DEF Judged, Permits!Dead, Permits!chain
<1>3. Remembered(r)'
  BY <1>1 DEF Remembered
<1>4. ASSUME NEW p \in Permit, Permits!SubmitDelegation(r, p) PROVE Vetted(r)'
  <2>1. at'[r] = "liveness" /\ todo'[r] = {"epoch", "nonce"} /\ arg'[r] = {p}
    BY <1>4 DEF Permits!SubmitDelegation, Shape
  <2> QED
    BY <2>1 DEF Vetted
<1>5. ASSUME Permits!ReadLiveness(r), ~Permits!Idle(r) PROVE Vetted(r)'
  <2>1. PICK what \in todo[r], p \in arg[r] :
          /\ IF what = "epoch" THEN Epoch[p] = epoch ELSE PermitNonce[p] \notin used
          /\ todo' = [todo EXCEPT ![r] = @ \ {what}]
          /\ at' = [at EXCEPT ![r] = IF todo[r] = {what} THEN "insert" ELSE @]
          /\ UNCHANGED <<arg, Permits!chain>> /\ at[r] = "liveness"
    BY <1>5 DEF Permits!ReadLiveness
  <2>2. /\ todo'[r] = todo[r] \ {what} /\ arg'[r] = arg[r] /\ epoch' = epoch
        /\ at'[r] = "insert" => todo'[r] = {}
    BY <2>1 DEF Shape, Permits!chain
  <2>3. CASE what # "epoch"
    BY <2>1, <2>2, <2>3 DEF Vetted
  <2>4. CASE what = "epoch"
    <3>1. arg[r] = {p}
      BY <2>1 DEF Vetted
    <3> QED
      BY <2>1, <2>2, <2>4, <3>1 DEF Vetted, Numbers, Shape
  <2> QED
    BY <2>3, <2>4
<1> QED
  BY <1>2, <1>3, <1>4, <1>5

(* A reconciliation takes note of what is dead, and condemns all of it.    *)
LEMMA ReadSound ==
  ASSUME Shape, Numbers, RowsSound, NEW r \in Request, Vetted(r), Judged(r), Remembered(r),
         [Permits!Next]_(Permits!vars),
         \/ \E who \in Permits!Reader : Permits!BeginReconcile(r, who)
         \/ Permits!ListActive(r) /\ ~Permits!Idle(r)
         \/ Permits!ReadEpoch(r)
  PROVE  (Vetted(r) /\ Judged(r))' /\ Remembered(r)'
<1>0. /\ at'[r] \in {"rows", "epoch", "nonces"}
      /\ UNCHANGED <<Permits!chain, row, arg[r], verdict[r]>>
  BY DEF Permits!BeginReconcile, Permits!ListActive, Permits!ReadEpoch, Shape, Permits!table
<1>1. Vetted(r)'
  BY <1>0 DEF Vetted
<1>2. \A p \in Permit : Epoch[p] \in Int /\ Deadline[p] \in Int /\ (Permits!Dead(p) <=> Permits!Dead(p)')
  BY <1>0 DEF Numbers, Permits!Dead, Permits!chain
<1>3. now \in Nat /\ epoch \in Nat /\ now' = now /\ epoch' = epoch /\ used' = used
  BY <1>0 DEF Shape, Permits!chain
<1>4. ASSUME NEW who \in Permits!Reader, Permits!BeginReconcile(r, who) PROVE Judged(r)' /\ Remembered(r)'
  <2>1. /\ at'[r] = "rows" /\ started'[r] = now /\ deadAtStart'[r] = {p \in Permit : Permits!Dead(p)}
        /\ seenEpoch'[r] = seenEpoch[r] /\ fetched'[r] = fetched[r]
    BY <1>4 DEF Permits!BeginReconcile, Shape
  <2>2. Judged(r)'
    BY <1>0, <1>2, <1>3, <2>1 DEF Judged
  <2>3. Remembered(r)'
    BY <1>2, <1>3, <2>1 DEF Remembered, Doomed, Permits!Dead
  <2> QED
    BY <2>2, <2>3
<1>5. ASSUME Permits!ListActive(r), ~Permits!Idle(r) PROVE Judged(r)' /\ Remembered(r)'
  <2> DEFINE found == {p \in Permit : row[p] = Permits!Active}
  <2>1. /\ at[r] = "rows" /\ at'[r] = "epoch" /\ fetched'[r] = found
        /\ deadAtStart'[r] = deadAtStart[r] \intersect found
        /\ started'[r] = started[r] /\ seenEpoch'[r] = seenEpoch[r]
    BY <1>5 DEF Permits!ListActive, Shape
  <2>2. \A p \in found : Epoch[p] <= epoch
    BY DEF RowsSound, Permits!Active
  <2> HIDE DEF found
  <2>3. Judged(r)'
    BY <1>0, <1>2, <1>3, <2>1, <2>2 DEF Judged
  <2>4. Remembered(r)'
    BY <1>3, <2>1 DEF Remembered, Doomed
  <2> QED
    BY <2>3, <2>4
<1>6. ASSUME Permits!ReadEpoch(r) PROVE Judged(r)' /\ Remembered(r)'
  <2>1. /\ at[r] = "epoch" /\ at'[r] = "nonces" /\ seenEpoch'[r] = epoch /\ todo'[r] = fetched[r]
        /\ fetched'[r] = fetched[r] /\ deadAtStart'[r] = deadAtStart[r] /\ started'[r] = started[r]
    BY <1>6 DEF Permits!ReadEpoch, Shape
  <2>2. Judged(r)'
    BY <1>0, <1>2, <1>3, <2>1 DEF Judged
  <2>3. Remembered(r)'
    BY <1>3, <2>1 DEF Remembered, Doomed
  <2> QED
    BY <2>2, <2>3
<1> QED
  BY <1>1, <1>4, <1>5, <1>6

(* Every nonce read condemns a permit the chain has condemned, and no      *)
(* other.                                                                  *)
LEMMA NonceSound ==
  ASSUME Shape, Numbers, NEW r \in Request, Vetted(r), Judged(r), Remembered(r), Permits!ReadNonce(r)
  PROVE  (Vetted(r) /\ Judged(r))' /\ Remembered(r)'
<1>0. at[r] = "nonces" /\ fetched[r] \subseteq Permit
  BY DEF Permits!ReadNonce, Shape
<1>1. todo[r] \subseteq Permit
  BY <1>0 DEF Judged
<1>2. /\ UNCHANGED <<Permits!chain, row, arg, fetched, deadAtStart>>
      /\ \E p \in todo[r] \intersect Permit :
              /\ \A o \in Permit \ {p} : verdict'[r][o] = verdict[r][o]
              /\ verdict'[r][p] # Permits!Active <=> (\/ Deadline[p] <= started[r]
                                              \/ Epoch[p] # seenEpoch[r]
                                              \/ PermitNonce[p] \in used)
              /\ \/ /\ at'[r] = "persist" /\ todo[r] = {p}
                    /\ started'[r] = 0 /\ seenEpoch'[r] = 0
                 \/ /\ at'[r] = "nonces" /\ todo'[r] = todo[r] \ {p}
                    /\ started'[r] = started[r] /\ seenEpoch'[r] = seenEpoch[r]
  BY <1>1, ReadNonceEffect
<1>3. PICK p \in todo[r] \intersect Permit :
              /\ \A o \in Permit \ {p} : verdict'[r][o] = verdict[r][o]
              /\ verdict'[r][p] # Permits!Active <=> (\/ Deadline[p] <= started[r]
                                              \/ Epoch[p] # seenEpoch[r]
                                              \/ PermitNonce[p] \in used)
              /\ \/ /\ at'[r] = "persist" /\ todo[r] = {p}
                    /\ started'[r] = 0 /\ seenEpoch'[r] = 0
                 \/ /\ at'[r] = "nonces" /\ todo'[r] = todo[r] \ {p}
                    /\ started'[r] = started[r] /\ seenEpoch'[r] = seenEpoch[r]
  BY <1>2
<1>4. /\ now' = now /\ epoch' = epoch /\ used' = used
      /\ arg' = arg /\ fetched' = fetched /\ deadAtStart' = deadAtStart
  BY <1>2 DEF Permits!chain
<1>5. /\ now \in Nat /\ epoch \in Nat /\ started[r] \in Nat /\ seenEpoch[r] \in Nat
      /\ \A o \in Permit : Epoch[o] \in Int /\ Deadline[o] \in Int
      /\ deadAtStart[r] \subseteq fetched[r]
  BY <1>0 DEF Shape, Numbers, Remembered
<1>6. Vetted(r)'
  BY <1>3 DEF Vetted
<1>7. \A o \in Permit : Permits!Dead(o)' = Permits!Dead(o)
  BY <1>4 DEF Permits!Dead
<1>8. verdict'[r][p] # Permits!Active => Permits!Dead(p)
  BY <1>0, <1>3, <1>5 DEF Judged, Permits!Dead
<1>9. Judged(r)'
  <2>1. \A o \in Permit : verdict'[r][o] # Permits!Active => Permits!Dead(o)
    BY <1>3, <1>8 DEF Judged
  <2>2. started'[r] <= now /\ seenEpoch'[r] <= epoch
    BY <1>3, <1>5 DEF Judged
  <2>3. at'[r] = "nonces" => /\ \A o \in fetched[r] : Epoch[o] <= seenEpoch'[r]
                             /\ todo'[r] \subseteq fetched[r]
    BY <1>0, <1>3 DEF Judged
  <2> QED
    BY <1>4, <1>7, <2>1, <2>2, <2>3 DEF Judged
<1>10. p \in deadAtStart[r] => verdict'[r][p] # Permits!Active
  BY <1>0, <1>3, <1>5 DEF Remembered, Doomed
<1>11. \A o \in deadAtStart[r] : o \notin todo[r] \ {p} => verdict'[r][o] # Permits!Active
  BY <1>0, <1>3, <1>5, <1>10 DEF Remembered
<1>12. CASE at'[r] = "persist"
  BY <1>3, <1>4, <1>6, <1>9, <1>11, <1>12 DEF Remembered
<1>13. CASE at'[r] = "nonces"
  <2>1. \A o \in deadAtStart[r] : o \in todo[r] \ {p} => Doomed(r, o, seenEpoch[r])
    BY <1>0 DEF Remembered
  <2> QED
    BY <1>3, <1>4, <1>5, <1>6, <1>9, <1>11, <1>13, <2>1 DEF Remembered, Doomed
<1> QED
  BY <1>3, <1>6, <1>9, <1>12, <1>13

(* Writing the statuses changes nothing of what was judged.                *)
LEMMA SettleSound ==
  ASSUME Shape, Numbers, NEW r \in Request, Vetted(r), Judged(r), Remembered(r),
         Permits!SetStatus(r) \/ Permits!AttachEvidence(r)
  PROVE  (Vetted(r) /\ Judged(r))' /\ Remembered(r)'
<1>1. /\ at[r] = "persist" /\ at' = at
      /\ UNCHANGED <<Permits!chain, arg, started, fetched, seenEpoch, verdict, deadAtStart>>
  BY DEF Permits!SetStatus, Permits!AttachEvidence
<1> QED
  BY <1>1 DEF Vetted, Judged, Remembered, Permits!Dead, Permits!chain

(* The rows: one is inserted for a vetted permit only, and takes the       *)
(* status of a sound judgement only.                                       *)
LEMMA RowsStaySound ==
  ASSUME PermitInv, Numbers, [Permits!Next]_(Permits!vars) PROVE RowsSound'
<1>1. \A p \in Permit : (Permits!Dead(p) => Permits!Dead(p)') /\ (Epoch[p] <= epoch => Epoch[p] <= epoch')
  BY DeathIsFinal DEF PermitInv
<1>2. CASE row' = row
  BY <1>1, <1>2 DEF PermitInv, RowsSound
<1>3. ASSUME NEW r \in Request, Permits!InsertDelegation(r), row' # row PROVE RowsSound'
  <2>1. PICK p \in arg[r] : row' = [row EXCEPT ![p] = Permits!Active]
    BY <1>3 DEF Permits!InsertDelegation
  <2>2. at[r] = "insert" /\ Vetted(r)
    BY <1>3 DEF Permits!InsertDelegation, PermitInv
  <2>3. p \in Permit /\ Epoch[p] <= epoch
    BY <2>1, <2>2 DEF Vetted
  <2>4. Permits!Active \notin Permits!Terminal /\ row \in [Permit -> Permits!Terminal \union {Permits!Active, "none"}]
    BY DEF Permits!Active, Permits!Terminal, PermitInv, Shape
  <2> QED
    BY <1>1, <2>1, <2>3, <2>4 DEF PermitInv, RowsSound
<1>4. ASSUME NEW r \in Request, Permits!SetStatus(r), row' # row PROVE RowsSound'
  <2>1. PICK p \in todo[r] : row' = [row EXCEPT ![p] = IF @ = "none" THEN @ ELSE verdict[r][p]]
    BY <1>4 DEF Permits!SetStatus
  <2>2. row \in [Permit -> Permits!Terminal \union {Permits!Active, "none"}] /\ "none" \notin Permits!Terminal
    BY DEF Permits!Terminal, PermitInv, Shape
  <2>3. CASE p \notin Permit
    BY <1>4, <2>1, <2>2, <2>3
  <2>4. CASE p \in Permit
    <3>1. /\ verdict[r][p] \in Permits!Terminal \union {Permits!Active}
          /\ verdict[r][p] # Permits!Active => Permits!Dead(p)
          /\ Permits!Active \notin Permits!Terminal
      BY <2>4 DEF PermitInv, Shape, Judged, Permits!Active, Permits!Terminal
    <3>2. /\ \A o \in Permit \ {p} : row'[o] = row[o]
          /\ row'[p] = IF row[p] = "none" THEN row[p] ELSE verdict[r][p]
      BY <2>1, <2>2, <2>4
    <3> QED
      BY <1>1, <2>2, <3>1, <3>2 DEF PermitInv, RowsSound
  <2> QED
    BY <2>3, <2>4
<1>5. ASSUME NEW p \in Permit, Permits!Prune(p) PROVE RowsSound'
  <2>1. row' = [row EXCEPT ![p] = "none"] /\ "none" \notin Permits!Terminal
    BY <1>5 DEF Permits!Prune, Permits!Terminal
  <2>2. row \in [Permit -> Permits!Terminal \union {Permits!Active, "none"}]
    BY DEF PermitInv, Shape
  <2> QED
    BY <1>1, <2>1, <2>2 DEF PermitInv, RowsSound
<1>6. ASSUME NEW r \in Request, Permits!Backend(r) PROVE row' = row \/ Permits!InsertDelegation(r) \/ Permits!SetStatus(r)
  BY <1>6 DEF Permits!Backend, Permits!SubmitDelegation, Permits!ReadLiveness,
     Permits!BeginReconcile, Permits!ListActive, Permits!ReadEpoch,
     Permits!ReadNonce, Permits!AttachEvidence, Permits!Reply, Permits!Fail, Permits!table
<1>7. Permits!Chain \/ UNCHANGED Permits!vars => row' = row
  BY DEF Permits!Chain, Permits!RevokeAll, Permits!NextBlock, Permits!InvalidateUnorderedNonces,
     Permits!ConsumePermit, Permits!table, Permits!vars
<1> QED
  BY <1>2, <1>3, <1>4, <1>5, <1>6, <1>7 DEF Permits!Next

(* The steps of a request, taken together.                                 *)
LEMMA ActorSound ==
  ASSUME PermitInv, SeenInv, Numbers, [Permits!Next]_(Permits!vars), NEW r \in Request, Permits!Backend(r)
  PROVE  (Vetted(r) /\ Judged(r))' /\ Remembered(r)'
<1>0. Shape /\ RowsSound /\ Vetted(r) /\ Judged(r) /\ Remembered(r)
  BY DEF PermitInv, SeenInv
<1>1. CASE Permits!Idle(r)
  BY <1>0, <1>1, IdleSound, ChainGrows
<1>2. CASE (\E p \in Permit : Permits!SubmitDelegation(r, p)) \/ (Permits!ReadLiveness(r) /\ ~Permits!Idle(r))
  BY <1>0, <1>2, SubmitSound
<1>3. CASE \/ \E who \in Permits!Reader : Permits!BeginReconcile(r, who)
           \/ Permits!ListActive(r) /\ ~Permits!Idle(r)
           \/ Permits!ReadEpoch(r)
  BY <1>0, <1>3, ReadSound
<1>4. CASE Permits!ReadNonce(r)
  BY <1>0, <1>4, NonceSound
<1>5. CASE Permits!SetStatus(r) \/ Permits!AttachEvidence(r)
  BY <1>0, <1>5, SettleSound
<1>6. Permits!InsertDelegation(r) \/ Permits!Reply(r) \/ Permits!Fail(r) => Permits!Idle(r)
  BY DEF Permits!InsertDelegation, Permits!Reply, Permits!Fail
<1> QED
  BY <1>1, <1>2, <1>3, <1>4, <1>5, <1>6 DEF Permits!Backend

(* Every step keeps the variables in their types.                          *)
LEMMA ShapeKept ==
  ASSUME PermitInv, Numbers, [Permits!Next]_(Permits!vars) PROVE Shape'
<1>0. Shape /\ Locals
  BY DEF PermitInv, Shape, Locals
<1>1. Locals'
  <2>1. CASE UNCHANGED <<at, Permits!locals>>
    BY <1>0, <2>1 DEF Locals, Permits!locals
  <2>2. ASSUME NEW r \in Request, Permits!Backend(r) PROVE Locals'
    <3>1. at[r] = "nonces" => todo[r] \subseteq Permit
      BY DEF PermitInv, Judged, Shape
    <3>2. CASE \/ \E p \in Permit : Permits!SubmitDelegation(r, p)
               \/ Permits!ReadLiveness(r) \/ Permits!InsertDelegation(r)
      BY <1>0, <3>2, SubmitTyped
    <3>3. CASE \/ \E who \in Permits!Reader : Permits!BeginReconcile(r, who)
               \/ Permits!ListActive(r) \/ Permits!ReadEpoch(r) \/ Permits!ReadNonce(r)
      BY <1>0, <3>1, <3>3, ReconcileTyped
    <3>4. CASE Permits!SetStatus(r) \/ Permits!AttachEvidence(r) \/ Permits!Reply(r) \/ Permits!Fail(r)
      BY <1>0, <3>4, SettleTyped
    <3> QED
      BY <2>2, <3>2, <3>3, <3>4 DEF Permits!Backend
  <2>3. Permits!Chain \/ (\E p \in Permit : Permits!Prune(p)) \/ UNCHANGED Permits!vars => UNCHANGED <<at, Permits!locals>>
    BY DEF Permits!Chain, Permits!RevokeAll, Permits!NextBlock, Permits!InvalidateUnorderedNonces,
       Permits!ConsumePermit, Permits!Prune, Permits!vars
  <2> QED
    BY <2>1, <2>2, <2>3 DEF Permits!Next
<1>2. row' \in [Permit -> Permits!Terminal \union {Permits!Active, "none"}]
  <2>1. row \in [Permit -> Permits!Terminal \union {Permits!Active, "none"}]
    BY <1>0 DEF Shape
  <2>2. ASSUME NEW r \in Request, Permits!SetStatus(r), row' # row
        PROVE  row' \in [Permit -> Permits!Terminal \union {Permits!Active, "none"}]
    <3>1. PICK p \in todo[r] : row' = [row EXCEPT ![p] = IF @ = "none" THEN @ ELSE verdict[r][p]]
      BY <2>2 DEF Permits!SetStatus
    <3>2. p \in Permit => verdict[r][p] \in Permits!Terminal \union {Permits!Active}
      BY <1>0 DEF Shape
    <3> QED
      BY <2>1, <3>1, <3>2
  <2>3. ASSUME NEW r \in Request, Permits!Backend(r), ~Permits!SetStatus(r)
        PROVE  row' = row \/ \E p \in Permit : row' = [row EXCEPT ![p] = Permits!Active]
    <3>1. arg[r] \subseteq Permit
      BY <1>0 DEF Shape
    <3> QED
      BY <2>3, <3>1 DEF Permits!Backend, Permits!SubmitDelegation, Permits!ReadLiveness,
         Permits!InsertDelegation, Permits!BeginReconcile,
         Permits!ListActive, Permits!ReadEpoch, Permits!ReadNonce, Permits!AttachEvidence,
         Permits!Reply, Permits!Fail, Permits!table
  <2>4. Permits!Chain \/ UNCHANGED Permits!vars => row' = row
    BY DEF Permits!Chain, Permits!RevokeAll, Permits!NextBlock, Permits!InvalidateUnorderedNonces,
       Permits!ConsumePermit, Permits!table, Permits!vars
  <2>5. ASSUME NEW p \in Permit, Permits!Prune(p) PROVE row' = [row EXCEPT ![p] = "none"]
    BY <2>5 DEF Permits!Prune
  <2> QED
    BY <2>1, <2>2, <2>3, <2>4, <2>5 DEF Permits!Next
<1> QED
  BY <1>0, <1>1, <1>2, ChainGrows DEF Shape, Locals

(* Rows and requests, taken together.                                      *)
LEMMA PermitInductive ==
  ASSUME Numbers PROVE PermitInv /\ SeenInv /\ [Permits!Next]_(Permits!vars) => PermitInv' /\ SeenInv'
<1> SUFFICES ASSUME PermitInv, SeenInv, [Permits!Next]_(Permits!vars) PROVE PermitInv' /\ SeenInv'
  OBVIOUS
<1>1. Shape /\ Shape' /\ RowsSound'
  BY ShapeKept, RowsStaySound DEF PermitInv
<1>2. ASSUME NEW q \in Request PROVE (Vetted(q) /\ Judged(q))' /\ Remembered(q)'
  <2>1. Vetted(q) /\ Judged(q) /\ Remembered(q)
    BY DEF PermitInv, SeenInv
  <2>2. CASE Permits!Backend(q)
    BY <2>2, ActorSound
  <2>3. CASE ~Permits!Backend(q)
    <3>1. CASE UNCHANGED <<at, Permits!locals>>
      BY <1>1, <2>1, <3>1, ClaimsStand DEF Permits!locals
    <3>2. ASSUME NEW r \in Request, Permits!Backend(r) PROVE (Vetted(q) /\ Judged(q))' /\ Remembered(q)'
      <4>1. q \in Request \ {r}
        BY <2>3, <3>2
      <4>2. at[r] = "nonces" => todo[r] \subseteq Permit
        BY DEF PermitInv, Judged, Shape
      <4>3. UNCHANGED <<at[q], arg[q], started[q], todo[q], fetched[q], seenEpoch[q], verdict[q],
                        deadAtStart[q]>>
        BY <1>1, <3>2, <4>1, <4>2, OthersKeep
      <4> QED
        BY <1>1, <2>1, <4>3, ClaimsStand
    <3>3. Permits!Chain \/ (\E p \in Permit : Permits!Prune(p)) \/ UNCHANGED Permits!vars => UNCHANGED <<at, Permits!locals>>
      BY DEF Permits!Chain, Permits!RevokeAll, Permits!NextBlock,
         Permits!InvalidateUnorderedNonces, Permits!ConsumePermit, Permits!Prune, Permits!vars
    <3> QED
      BY <3>1, <3>2, <3>3 DEF Permits!Next
  <2> QED
    BY <2>2, <2>3
<1> QED
  BY <1>1, <1>2 DEF PermitInv, SeenInv

(* The invariants hold at the start.                                       *)
LEMMA PermitInitially == Permits!Init => PermitInv /\ SeenInv
<1> SUFFICES ASSUME Permits!Init PROVE PermitInv /\ SeenInv
  OBVIOUS
<1>1. RowsSound
  BY DEF Permits!Init, RowsSound, Permits!Terminal
<1>2. ASSUME NEW r \in Request PROVE Vetted(r) /\ Judged(r) /\ Remembered(r)
  BY DEF Permits!Init, Vetted, Judged, Remembered
<1> QED
  BY <1>1, <1>2, ShapeInitially DEF PermitInv, SeenInv

(* The invariants hold of the permits, whatever the other services do.     *)
LEMMA PermitsInvariant == Spec => [](focus = "permits" => PermitInv /\ SeenInv)
<1> Numbers
  BY ServiceConstants
<1> DEFINE IInv == focus = "permits" => PermitInv /\ SeenInv
<1>1. Init => IInv
  BY PermitInitially DEF Init
<1>2. IInv /\ [Next]_vars => IInv'
  <2>1. ASSUME focus = "permits", [Next]_vars PROVE [Permits!Next]_(Permits!vars)
    BY <2>1 DEF Next, vars, permitVars, Permits!vars, Permits!chain, Permits!table, Permits!locals
  <2>2. ASSUME [Next]_vars PROVE focus' = focus
    BY <2>2 DEF Next, Others, vars
  <2> QED
    BY <2>1, <2>2, PermitInductive
<1> QED
  BY <1>1, <1>2, PTL DEF Spec

(* A row marked expired, revoked or consumed is of a permit past saving,   *)
(* whichever requests overlap and in whatever order they write what they   *)
(* computed: for any permits, on nonces they share or not, and any number  *)
(* of requests that fail anywhere (exitDelegations.ts reconcile).          *)
THEOREM DeadRowsAreDead == Spec => []DeadRowsStayDead
<1>1. (focus = "permits" => PermitInv /\ SeenInv) => DeadRowsStayDead
  BY DEF PermitInv, RowsSound, Permits!DeadRowsStayDead, DeadRowsStayDead
<1> QED
  BY <1>1, PermitsInvariant, PTL

(* No request reports as live a permit that the chain had killed before it *)
(* began: by deadline, by epoch or by nonce, which it reads one after the  *)
(* other.                                                                  *)
THEOREM RevocationIsSeen == Spec => []RevocationSeen
<1>1. (focus = "permits" => PermitInv /\ SeenInv) => RevocationSeen
  BY DEF SeenInv, Remembered, Permits!RevocationSeen, Permits!Reported, RevocationSeen
<1> QED
  BY <1>1, PermitsInvariant, PTL

----------------------------------------------------------------------------
(* The scope of a permit.                                                  *)

(* A mask with some bit among its lowest four has the bit of a protocol.   *)
LEMMA LowBits ==
  \A m \in Nat : m % 16 # 0 <=> \E i \in Scope!Protocol : Scope!HasBit(m, i)
<1> SUFFICES ASSUME NEW m \in Nat
             PROVE  m % 16 # 0 <=> \E i \in Scope!Protocol : Scope!HasBit(m, i)
  OBVIOUS
<1>1. \A i : i \in Scope!Protocol <=> i \in {0, 1, 2, 3}
  BY DEF Scope!Protocol, Scope!AaveV3, Scope!MorphoBlue
<1>2. 2 ^ 0 = 1 /\ 2 ^ 1 = 2 /\ 2 ^ 2 = 4 /\ 2 ^ 3 = 8
  OBVIOUS
<1>3. /\ Scope!HasBit(m, 0) <=> (m \div 1) % 2 = 1
      /\ Scope!HasBit(m, 1) <=> (m \div 2) % 2 = 1
      /\ Scope!HasBit(m, 2) <=> (m \div 4) % 2 = 1
      /\ Scope!HasBit(m, 3) <=> (m \div 8) % 2 = 1
  BY <1>2 DEF Scope!HasBit
<1>4. m % 16 # 0 <=> \/ (m \div 1) % 2 = 1 \/ (m \div 2) % 2 = 1
                     \/ (m \div 4) % 2 = 1 \/ (m \div 8) % 2 = 1
  OBVIOUS
<1> QED
  BY <1>1, <1>3, <1>4, Zenon

(* Every permit that the backend stores can pass the contract's check of   *)
(* its scope with some leg, and every other one fails it with all legs:    *)
(* for any mask, fractions and slippage, and any ceiling                   *)
(* (validatePermitScope of exitPermit.ts, _validatePermitScope of          *)
(* PanikExecutor.sol).                                                     *)
(* The backend stores a permit exactly when the contract honours an exit   *)
(* under it, for every mask, fraction, slippage and ceiling                *)
(* (exitPermit.ts validatePermitScope, PanikExecutor.sol                   *)
(* _validatePermitScope).                                                  *)
THEOREM ScopesAgree == Spec => []ScopeMirrors
<1> Drafts \subseteq DraftPermit
  BY ServiceConstants
<1> DEFINE IInv == focus = "scope" => draft \in Drafts
<1>1. Init => IInv
  BY DEF Init
<1>2. IInv /\ [Next]_vars => IInv'
  BY DEF Next, Others, vars
<1>3. ASSUME NEW p \in DraftPermit PROVE Scope!ScopeMirrors(p)
  <2>1. p.mask \in Nat
    BY DEF DraftPermit
  <2>2. ASSUME NEW leg \in Scope!Leg, Scope!contractScope(p, {leg}) PROVE Scope!validatePermitScope(p)
    <3>1. leg.protocol \in Scope!Protocol /\ Scope!HasBit(p.mask, leg.protocol)
      BY <2>2 DEF Scope!contractScope, Scope!LegPermitted, Scope!Leg
    <3>2. p.mask % 16 # 0
      BY <2>1, <3>1, LowBits
    <3> QED
      BY <2>2, <3>2 DEF Scope!contractScope, Scope!validatePermitScope
  <2>3. ASSUME Scope!validatePermitScope(p) PROVE \E leg \in Scope!Leg : Scope!contractScope(p, {leg})
    <3>1. p.mask % 16 # 0
      BY <2>3 DEF Scope!validatePermitScope
    <3>2. PICK i \in Scope!Protocol : Scope!HasBit(p.mask, i)
      BY <2>1, <3>1, LowBits
    <3> DEFINE leg == [protocol |-> i, repay |-> TRUE, withdraw |-> FALSE]
    <3>3. leg \in Scope!Leg
      BY DEF Scope!Leg
    <3>4. Scope!LegPermitted(p, leg)
      BY <3>2 DEF Scope!LegPermitted
    <3>5. Scope!contractScope(p, {leg})
      BY <2>3, <3>4 DEF Scope!contractScope, Scope!validatePermitScope
    <3> QED
      BY <3>3, <3>5
  <2> QED
    BY <2>2, <2>3 DEF Scope!ScopeMirrors, Scope!SomeLegPermitted
<1>4. IInv => ScopeMirrors
  BY <1>3 DEF ScopeMirrors
<1> QED
  BY <1>1, <1>2, <1>4, PTL DEF Spec

=============================================================================
