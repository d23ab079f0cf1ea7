------------------------ MODULE AlertDispatchProofs ------------------------
(***************************************************************************)
(* Theorems about the send decision (AlertPolicy) and the dispatcher       *)
(* (AlertDispatch).                                                        *)
(***************************************************************************)
EXTENDS AlertDispatch, FiniteSetTheorems, SequenceTheorems, TLAPS

(* "A critical alert is never muted, never held for quiet hours and never  *)
(* batched into a digest" (watch/alertSettings.ts): whatever its reader's  *)
(* settings, it is sent unless it is immaterial or within the cooldown.    *)
THEOREM CriticalBreaksThrough ==
  ASSUME NEW a, NEW f, NEW s, NEW prior, NEW time,
         a.to # "within", IsCritical(a)
  PROVE  DecideSend(a, f, s, prior, time)
           \in {"send", "suppressed_immaterial", "suppressed_cooldown"}
BY DEF DecideSend, DecideAlert

(* "Nobody can configure themselves into hearing about a liquidation later *)
(* than the default would have told them": a critical alert that is sent   *)
(* under the default cooldown is sent at any time under every setting s    *)
(* for which the debt is material.                                         *)
THEOREM NoLaterThanDefault ==
  ASSUME NEW a, NEW f, NEW s, NEW default, NEW prior, NEW time, NEW later,
         a.to # "within", IsCritical(a), Material(f, s),
         a.at \in Int, prior.at \in Int, s.cooldown \in Nat,
         default.cooldown = DefaultCooldown,
         DecideSend(a, f, default, prior, time) = "send"
  PROVE  DecideSend(a, f, s, prior, later) = "send"
<1> DEFINE own   == EffectiveCooldown(s, IsCritical(a))
           usual == EffectiveCooldown(default, IsCritical(a))
<1>1. own \in Int /\ usual \in Int /\ own <= usual
  BY PolicyConstants DEF EffectiveCooldown
<1>2. ~Cooling(a, default, prior)
  BY DEF DecideSend, DecideAlert
<1>3. prior = NoPrior \/ Escalates(a, prior) \/ ~(a.at - prior.at < usual)
  BY <1>2 DEF Cooling
<1> HIDE DEF own, usual
<1>4. prior = NoPrior \/ Escalates(a, prior) \/ ~(a.at - prior.at < own)
  BY <1>1, <1>3
<1>5. ~Cooling(a, s, prior)
  BY <1>4 DEF Cooling, own
<1> QED
  BY <1>5 DEF DecideSend, DecideAlert

-----------------------------------------------------------------------------
(* The inductive invariant of DigestNotCritical: what the passes work on   *)
(* are rows of the log.                                                    *)
LogTyped == log \in Seq([pos : Position, to : {"within", "approaching", "outside"},
                         band : Bands, at : Int])

BatchInLog == \A p \in Pass : \A d \in batch[p] : d[1] \in DOMAIN log

PassFunctions ==
  /\ batch = [p \in Pass |-> batch[p]] /\ held = [p \in Pass |-> held[p]]
  /\ current = [p \in Pass |-> current[p]] /\ channel = [p \in Pass |-> channel[p]]

DigestInv == LogTyped /\ now \in Int /\ PassFunctions /\ BatchInLog /\ DigestNotCritical

(* What is put aside for a digest is not critical.                         *)
LEMMA HeldIsNotCritical ==
  ASSUME NEW i, NEW f, NEW s, NEW prior, NEW time,
         DecideSend(log[i], f, s, prior, time) = "deferred_digest"
  PROVE  ~Critical(i)
BY CriticalBreaksThrough DEF Critical

(* No pass is running at first.                                            *)
LEMMA DigestInitially == Init => DigestInv
BY DEF Init, DigestInv, LogTyped, PassFunctions, BatchInLog, DigestNotCritical

(* Steps that leave the log and the passes alone.                          *)
LEMMA DigestUntouched ==
  DigestInv /\ UNCHANGED <<log, batch, held, current, channel>> /\ now' \in Int => DigestInv'
BY DEF DigestInv, LogTyped, PassFunctions, BatchInLog, DigestNotCritical, Critical

(* A transition appended to the log changes no row a pass works on.        *)
LEMMA DigestCross == ASSUME NEW q \in Position PROVE DigestInv /\ Cross(q) => DigestInv'
<1> SUFFICES ASSUME DigestInv, Cross(q) PROVE DigestInv'
  OBVIOUS
<1>1. PICK to \in {"within", "approaching", "outside"}, band \in Bands :
        log' = Append(log, [pos |-> q, to |-> to, band |-> band, at |-> now])
  BY DEF Cross
<1> DEFINE new == [pos |-> q, to |-> to, band |-> band, at |-> now]
<1>2. new \in [pos : Position, to : {"within", "approaching", "outside"}, band : Bands, at : Int]
  BY DEF DigestInv
<1>3. LogTyped'
  BY <1>1, <1>2 DEF DigestInv, LogTyped
<1>4. \A i \in DOMAIN log : i \in DOMAIN log' /\ log'[i] = log[i]
  BY <1>1, <1>2 DEF DigestInv, LogTyped
<1>5. UNCHANGED <<batch, held, current, channel, now>>
  BY DEF Cross, passes, world
<1>6. \A i \in DOMAIN log : ~Critical(i) => i \in DOMAIN log' /\ ~Critical(i)'
  BY <1>4 DEF Critical
<1> QED
  BY <1>3, <1>4, <1>5, <1>6 DEF DigestInv, PassFunctions, BatchInLog, DigestNotCritical

(* Every step of a pass, by what it does to batch, held, current, channel. *)
LEMMA DigestDrain == ASSUME NEW p \in Pass PROVE DigestInv /\ Drain(p) => DigestInv'
BY DEF DigestInv, LogTyped, PassFunctions, BatchInLog, DigestNotCritical, Critical,
       Drain, Pending, stored, world

(* What decideSend may answer.                                             *)
LEMMA VerdictRange ==
  ASSUME NEW a, NEW f, NEW s, NEW prior, NEW now_
  PROVE  DecideSend(a, f, s, prior, now_) \in Verdict
BY DEF DecideSend, DecideAlert, DecideRecovery, Preference, Verdict, Deferred

(* A decision takes a row from the batch; what it puts aside is not        *)
(* critical.                                                               *)
LEMMA DigestDecide == ASSUME NEW p \in Pass PROVE DigestInv /\ Decide(p) => DigestInv'
<1> SUFFICES ASSUME DigestInv, Decide(p) PROVE DigestInv'
  OBVIOUS
<1> USE DEF DigestInv, PassFunctions
<1>0. UNCHANGED <<log, now>>
  BY DEF Decide, stored, world
<1>1. PICK d \in batch[p] :
        /\ batch' = [batch EXCEPT ![p] = @ \ {d}]
        /\ \/ UNCHANGED <<at, held, current, channel>>
           \/ /\ DecideSend(log[d[1]], snap[p].facts[log[d[1]].pos], snap[p].settings[d[2]],
                            Prior(d), snap[p].time) = "deferred_digest"
              /\ held' = [held EXCEPT ![p] = @ \union {d}]
              /\ UNCHANGED <<current, channel>>
           \/ /\ current' = [current EXCEPT ![p] = {d}]
              /\ \E c \in {"telegram", "skipped", "suppressed_immaterial",
                           "suppressed_cooldown", "suppressed_muted"} :
                    channel' = [channel EXCEPT ![p] = c]
              /\ UNCHANGED held
  <2>1. PICK d \in batch[p] :
          LET v == DecideSend(log[d[1]], snap[p].facts[log[d[1]].pos], snap[p].settings[d[2]],
                              Prior(d), snap[p].time)
          IN  /\ batch' = [batch EXCEPT ![p] = @ \ {d}]
              /\ \/ UNCHANGED <<at, held, current, channel>>
                 \/ /\ v = "deferred_digest"
                    /\ held' = [held EXCEPT ![p] = @ \union {d}]
                    /\ UNCHANGED <<at, current, channel>>
                 \/ /\ v \notin Deferred
                    /\ current' = [current EXCEPT ![p] = {d}]
                    /\ channel' = [channel EXCEPT ![p] = IF v = "send" THEN "telegram" ELSE v]
                    /\ UNCHANGED held
    BY DEF Decide
  <2> DEFINE v == DecideSend(log[d[1]], snap[p].facts[log[d[1]].pos], snap[p].settings[d[2]],
                             Prior(d), snap[p].time)
  <2>2. v \in Verdict
    BY VerdictRange
  <2> HIDE DEF v
  <2>3. v \notin Deferred =>
          (IF v = "send" THEN "telegram" ELSE v) \in
            {"telegram", "skipped", "suppressed_immaterial",
             "suppressed_cooldown", "suppressed_muted"}
    BY <2>2 DEF Verdict, Deferred
  <2> QED
    BY <2>1, <2>3 DEF v
<1>2. d[1] \in DOMAIN log
  BY DEF BatchInLog
<1>3. LogTyped' /\ PassFunctions' /\ BatchInLog'
  BY <1>0, <1>1 DEF LogTyped, BatchInLog
<1>4. DigestNotCritical'
  <2>1. CASE UNCHANGED <<at, held, current, channel>>
    BY <1>0, <2>1 DEF DigestNotCritical, Critical
  <2>2. CASE held' = [held EXCEPT ![p] = @ \union {d}] /\ UNCHANGED <<current, channel>>
              /\ DecideSend(log[d[1]], snap[p].facts[log[d[1]].pos], snap[p].settings[d[2]],
                            Prior(d), snap[p].time) = "deferred_digest"
    <3>1. ~Critical(d[1])
      BY <2>2, HeldIsNotCritical
    <3> QED
      BY <1>0, <1>2, <2>2, <3>1 DEF DigestNotCritical, Critical
  <2>3. CASE /\ current' = [current EXCEPT ![p] = {d}]
             /\ \E c \in {"telegram", "skipped", "suppressed_immaterial",
                          "suppressed_cooldown", "suppressed_muted"} :
                   channel' = [channel EXCEPT ![p] = c]
             /\ UNCHANGED held
    BY <1>0, <2>3 DEF DigestNotCritical, Critical
  <2> QED
    BY <1>1, <2>1, <2>2, <2>3
<1> QED
  BY <1>0, <1>3, <1>4

(* A digest is made of what has been put aside.                            *)
LEMMA DigestBucket == ASSUME NEW p \in Pass PROVE DigestInv /\ TakeBucket(p) => DigestInv'
<1> SUFFICES ASSUME DigestInv, TakeBucket(p) PROVE DigestInv'
  OBVIOUS
<1>1. UNCHANGED <<log, now, batch>>
  BY DEF TakeBucket, stored, world
<1>2. PICK D \in SUBSET held[p] :
        /\ held' = [held EXCEPT ![p] = @ \ D]
        /\ \/ /\ current' = [current EXCEPT ![p] = D]
              /\ channel' = [channel EXCEPT ![p] = "digest"]
           \/ UNCHANGED <<current, channel>>
  <2>1. PICK s \in Sub :
          LET D == {d \in held[p] : d[2] = s}
          IN  /\ held' = [held EXCEPT ![p] = @ \ D]
              /\ \/ /\ current' = [current EXCEPT ![p] = D]
                    /\ channel' = [channel EXCEPT ![p] = "digest"]
                 \/ UNCHANGED <<current, channel>>
    BY DEF TakeBucket
  <2> WITNESS {d \in held[p] : d[2] = s} \in SUBSET held[p]
  <2> QED
    BY <2>1
<1>3. DigestNotCritical'
  BY <1>1, <1>2 DEF DigestInv, PassFunctions, DigestNotCritical, Critical
<1> QED
  BY <1>1, <1>2, <1>3 DEF DigestInv, LogTyped, PassFunctions, BatchInLog

(* A message goes out of what is in hand already.                          *)
LEMMA DigestSend == ASSUME NEW p \in Pass PROVE DigestInv /\ Send(p) => DigestInv'
BY DEF DigestInv, LogTyped, PassFunctions, BatchInLog, DigestNotCritical, Critical,
       Send, stored

(* What is left to stamp was there before.                                 *)
LEMMA DigestDone == ASSUME NEW p \in Pass, NEW d
  PROVE DigestInv /\ Done(p, d) /\ UNCHANGED <<log, batch, held, now>> => DigestInv'
<1> SUFFICES ASSUME DigestInv, Done(p, d), UNCHANGED <<log, batch, held, now>> PROVE DigestInv'
  OBVIOUS
<1>1. PICK left \in SUBSET current[p] : current' = [current EXCEPT ![p] = left]
  BY DEF Done
<1>2. PICK c \in {channel[p], Unresolved} : channel' = [channel EXCEPT ![p] = c]
  BY DEF Done
<1>3. DigestNotCritical'
  BY <1>1, <1>2 DEF DigestInv, PassFunctions, DigestNotCritical, Critical, Unresolved
<1> QED
  BY <1>1, <1>2, <1>3 DEF DigestInv, LogTyped, PassFunctions, BatchInLog

(* Marking the digest lets go of its last row.                             *)
LEMMA DigestMark == ASSUME NEW p \in Pass PROVE DigestInv /\ MarkDigest(p) => DigestInv'
BY DEF DigestInv, LogTyped, PassFunctions, BatchInLog, DigestNotCritical, Critical, MarkDigest

(* A pass that ends has nothing in hand.                                   *)
LEMMA DigestIdle == ASSUME NEW p \in Pass
  PROVE DigestInv /\ Idle(p) /\ UNCHANGED <<log, now>> => DigestInv'
BY DEF DigestInv, LogTyped, PassFunctions, BatchInLog, DigestNotCritical, Critical,
       Idle, Unresolved

(* Nor has any pass after the worker has died.                             *)
LEMMA DigestCrash == DigestInv /\ Crash => DigestInv'
BY DEF DigestInv, LogTyped, PassFunctions, BatchInLog, DigestNotCritical, Critical,
       Crash, Unresolved, stored

(* Every step of the dispatcher keeps the invariant.                       *)
LEMMA DigestInductive == DigestInv /\ [Next]_vars => DigestInv'
<1> SUFFICES ASSUME DigestInv, [Next]_vars PROVE DigestInv'
  OBVIOUS
<1>1. ASSUME NEW p \in Pass, Drain(p) \/ Advance(p) PROVE DigestInv'
  <2>1. CASE Drain(p)
    BY <2>1, DigestDrain
  <2>2. CASE Decide(p)
    BY <2>2, DigestDecide
  <2>3. CASE TakeBucket(p)
    BY <2>3, DigestBucket
  <2>4. CASE Send(p)
    BY <2>4, DigestSend
  <2>5. CASE Block(p)
    BY <2>5, DigestUntouched DEF Block, DigestInv
  <2>6. CASE Stamp(p)
    BY <2>6, DigestDone DEF Stamp, world
  <2>7. CASE CountFails(p)
    BY <2>7, DigestDone DEF CountFails, stored
  <2>8. CASE MarkDigest(p)
    BY <2>8, DigestMark
  <2>9. CASE EndPass(p) \/ PassThrows(p)
    BY <2>9, DigestIdle DEF EndPass, PassThrows, stored, world
  <2> QED
    BY <1>1, <2>1, <2>2, <2>3, <2>4, <2>5, <2>6, <2>7, <2>8, <2>9 DEF Advance
<1>2. ASSUME NEW q \in Position, Cross(q) PROVE DigestInv'
  BY <1>2, DigestCross
<1>3. ASSUME NEW q \in Position, NewSnapshot(q) PROVE DigestInv'
  BY <1>3, DigestUntouched DEF NewSnapshot, passes, world, DigestInv
<1>4. ASSUME NEW s \in Sub, SaveSettings(s) \/ Relink(s) PROVE DigestInv'
  BY <1>4, DigestUntouched DEF SaveSettings, Relink, passes, world, DigestInv
<1>5. CASE Elapse
  BY <1>5, DigestUntouched DEF Elapse, passes, stored, DigestInv
<1>6. CASE UNCHANGED vars
  BY <1>6, DigestUntouched DEF vars, passes, stored, world, DigestInv
<1> QED
  BY <1>1, <1>2, <1>3, <1>4, <1>5, <1>6, DigestCrash DEF Next

(* However passes overlap, settings change and the worker dies, no critical *)
(* alert waits for a digest or is sent in one.                             *)
THEOREM NoCriticalInDigest == Spec => []DigestNotCritical
<1>1. DigestInv => DigestNotCritical
  BY DEF DigestInv
<1> QED
  BY <1>1, DigestInitially, DigestInductive, PTL DEF Spec
-----------------------------------------------------------------------------
(* What every pass works on: rows of the log that belong to one reader at  *)
(* a time, never twice in one pass.                                        *)

(* What a row or a pass may say of a delivery that is decided.             *)
Written == {"telegram", "digest", "blocked", "undeliverable", "skipped",
            "suppressed_immaterial", "suppressed_cooldown", "suppressed_muted"}

RowsTyped ==
  /\ LogTyped /\ Len(log) <= MaxRows
  /\ row \in [Delivery -> [channel : Written \union {Unresolved}, attempts : Int]]
  /\ inbox \in [Sub -> Seq(SUBSET Nat)]
  /\ now \in Int /\ crashes \in Nat /\ failures \in Nat

PassesTyped ==
  /\ at \in [Pass -> {"off", "next", "send", "block", "stamp", "mark"}]
  /\ batch \in [Pass -> SUBSET Delivery] /\ held \in [Pass -> SUBSET Delivery]
  /\ current \in [Pass -> SUBSET Delivery]
  /\ channel \in [Pass -> Written \union {Unresolved, "attempt"}]
  /\ snap = [p \in Pass |-> snap[p]]
  /\ \A p \in Pass : at[p] # "off" => snap[p].attempts \in [Delivery -> Int]

Working ==
  \A p \in Pass :
    /\ at[p] = "off" => batch[p] = {} /\ held[p] = {}
    /\ at[p] \in {"off", "next"} <=> current[p] = {}
    /\ at[p] = "send" => channel[p] \in {"telegram", "digest"}
    /\ at[p] = "block" => channel[p] = "blocked"
    /\ at[p] = "stamp" => channel[p] # Unresolved

OneReader == \A p \in Pass : \A d, e \in current[p] : d[2] = e[2]

Apart ==
  \A p \in Pass :
    batch[p] \cap held[p] = {} /\ batch[p] \cap current[p] = {} /\ held[p] \cap current[p] = {}

Shape == RowsTyped /\ PassesTyped /\ Working /\ OneReader /\ Apart

(* A set of natural numbers that is not empty has a least one.             *)
LEMMA LeastOf ==
  ASSUME NEW U \in SUBSET Nat, U # {}
  PROVE  \E x \in U : \A y \in U : x <= y
<1> DEFINE R == StrictSubsetOrdering(Nat)
           T == {0 .. x : x \in U}
<1>1. \A x \in Nat : 0 .. x \in FiniteSubsetsOf(Nat)
  <2> TAKE x \in Nat
  <2>1. IsFiniteSet(0 .. x)
    BY FS_Interval
  <2>2. 0 .. x \in SUBSET Nat
    OBVIOUS
  <2> QED
    BY <2>1, <2>2 DEF FiniteSubsetsOf
<1>2. T \subseteq FiniteSubsetsOf(Nat)
  <2> SUFFICES ASSUME NEW x \in U PROVE 0 .. x \in FiniteSubsetsOf(Nat)
    OBVIOUS
  <2> QED
    BY <1>1
<1>3. T # {}
  <2> PICK x \in U : TRUE
    OBVIOUS
  <2> 0 .. x \in T
    OBVIOUS
  <2> QED
    OBVIOUS
<1>4. IsWellFoundedOn(R, FiniteSubsetsOf(Nat))
  BY FS_StrictSubsetOrderingWellFounded
<1> HIDE DEF R, T
<1>5. \E S \in T : \A Z \in T : ~(<<Z, S>> \in R)
  BY <1>2, <1>3, <1>4, WFMin
<1>6. PICK x \in U : \A y \in U : ~(<<0 .. y, 0 .. x>> \in R)
  BY <1>5 DEF T
<1>7. ASSUME NEW y \in U, y < x PROVE FALSE
  <2>1. 0 .. y \in SUBSET Nat /\ 0 .. x \in SUBSET Nat
    OBVIOUS
  <2>2. x \in 0 .. x /\ x \notin 0 .. y /\ 0 .. y \subseteq 0 .. x
    BY <1>7
  <2> DEFINE Y == 0 .. y
             X == 0 .. x
  <2> HIDE DEF X, Y
  <2>3. Y \in SUBSET Nat /\ X \in SUBSET Nat /\ Y \subseteq X /\ Y # X
    BY <2>1, <2>2 DEF X, Y
  <2>4. <<Y, X>> \in R
    BY <2>3 DEF R, StrictSubsetOrdering
  <2> QED
    BY <2>4, <1>6 DEF X, Y
<1> QED
  BY <1>7

(* The oldest of some deliveries is one of them.                           *)
LEMMA OldestIsOne ==
  ASSUME NEW D \in SUBSET Delivery, D # {}
  PROVE  Oldest(D) \in D /\ First(Oldest(D), D)
<1> DEFINE U == {d[1] : d \in D}
<1>1. U \in SUBSET Nat
  BY DispatchConstants DEF Delivery
<1>2. U # {}
  OBVIOUS
<1> HIDE DEF U
<1>3. PICK x \in U : \A y \in U : x <= y
  BY <1>1, <1>2, LeastOf
<1>4. PICK d \in D : d[1] = x
  BY DEF U
<1>5. First(d, D)
  BY <1>3, <1>4 DEF First, U
<1> QED
  BY <1>5 DEF Oldest

(* At first nothing is logged, sent or in hand.                            *)
LEMMA ShapeInitially == Init => Shape
<1> SUFFICES ASSUME Init PROVE Shape
  OBVIOUS
<1>1. RowsTyped
  BY DispatchConstants DEF Init, RowsTyped, LogTyped
<1>2. PassesTyped
  BY DEF Init, PassesTyped
<1> QED
  BY <1>1, <1>2 DEF Init, Shape, Working, OneReader, Apart

(* Steps of the world that leave the passes alone.                         *)
LEMMA ShapeWorld ==
  Shape /\ UNCHANGED <<log, row, inbox, passes, crashes, failures>> /\ now' \in Int => Shape'
BY DEF Shape, RowsTyped, LogTyped, PassesTyped, Working, OneReader, Apart, passes

(* A transition is appended within the bound of the log.                   *)
LEMMA ShapeCross == ASSUME NEW q \in Position PROVE Shape /\ Cross(q) => Shape'
<1> SUFFICES ASSUME Shape, Cross(q) PROVE Shape'
  OBVIOUS
<1>1. PICK to \in {"within", "approaching", "outside"}, band \in Bands :
        log' = Append(log, [pos |-> q, to |-> to, band |-> band, at |-> now])
  BY DEF Cross
<1>2. [pos |-> q, to |-> to, band |-> band, at |-> now] \in
        [pos : Position, to : {"within", "approaching", "outside"}, band : Bands, at : Int]
  BY DEF Shape, RowsTyped
<1>3. LogTyped' /\ Len(log') <= MaxRows
  BY <1>1, <1>2, DispatchConstants DEF Shape, RowsTyped, LogTyped, Cross
<1> QED
  BY <1>3 DEF Shape, RowsTyped, PassesTyped, Working, OneReader, Apart, Cross, passes, world

(* A drain takes rows of the log with the attempts they have had.          *)
LEMMA ShapeDrain == ASSUME NEW p \in Pass PROVE Shape /\ Drain(p) => Shape'
<1> SUFFICES ASSUME Shape, Drain(p) PROVE Shape'
  OBVIOUS
<1>1. Pending \subseteq Delivery
  BY DispatchConstants DEF Pending, Delivery, Shape, RowsTyped, LogTyped
<1>2. PICK B \in SUBSET Pending : batch' = [batch EXCEPT ![p] = B]
  BY DEF Drain
<1>3. Snapshot.attempts \in [Delivery -> Int]
  BY DEF Snapshot, Shape, RowsTyped
<1>4. RowsTyped'
  BY DEF Shape, RowsTyped, LogTyped, Drain, stored, world
<1>5. PassesTyped'
  BY <1>1, <1>2, <1>3 DEF Shape, PassesTyped, Drain
<1> QED
  BY <1>2, <1>4, <1>5 DEF Shape, PassesTyped, Working, OneReader, Apart, Drain

(* The answer of decideSend to d as pass p sees it.                        *)
VerdictOf(p, d) ==
  DecideSend(log[d[1]], snap[p].facts[log[d[1]].pos], snap[p].settings[d[2]],
             Prior(d), snap[p].time)

(* What decideSend answers is a row's outcome, a hold or a message.        *)
LEMMA DecideEffect ==
  ASSUME NEW p \in Pass, Shape, Decide(p)
  PROVE  /\ at[p] = "next" /\ UNCHANGED <<stored, snap, world>>
         /\ \E d \in batch[p] :
              /\ First(d, batch[p])
              /\ batch' = [batch EXCEPT ![p] = @ \ {d}]
              /\ \/ VerdictOf(p, d) \in Deferred /\ UNCHANGED <<at, held, current, channel>>
                 \/ /\ VerdictOf(p, d) \in Deferred
                    /\ held' = [held EXCEPT ![p] = @ \union {d}]
                    /\ UNCHANGED <<at, current, channel>>
                 \/ /\ current' = [current EXCEPT ![p] = {d}] /\ UNCHANGED held
                    /\ \/ /\ at' = [at EXCEPT ![p] = "send"]
                          /\ channel' = [channel EXCEPT ![p] = "telegram"]
                          /\ VerdictOf(p, d) = "send"
                       \/ /\ at' = [at EXCEPT ![p] = "stamp"]
                          /\ \E v \in Written \ {"telegram", "digest"} :
                               channel' = [channel EXCEPT ![p] = v]
<1>1. at[p] = "next" /\ UNCHANGED <<stored, snap, world>>
  BY DEF Decide
<1>2. PICK d \in batch[p] :
        LET v == VerdictOf(p, d)
        IN  /\ First(d, batch[p])
            /\ batch' = [batch EXCEPT ![p] = @ \ {d}]
            /\ \/ v = "deferred_quiet" /\ UNCHANGED <<at, held, current, channel>>
               \/ /\ v = "deferred_digest"
                  /\ held' = [held EXCEPT ![p] = @ \union {d}]
                  /\ UNCHANGED <<at, current, channel>>
               \/ /\ v \notin Deferred
                  /\ current' = [current EXCEPT ![p] = {d}]
                  /\ channel' = [channel EXCEPT ![p] = IF v = "send" THEN "telegram" ELSE v]
                  /\ at' = [at EXCEPT ![p] = IF v = "send" THEN "send" ELSE "stamp"]
                  /\ UNCHANGED held
  BY DEF Decide, VerdictOf
<1> DEFINE v == VerdictOf(p, d)
<1>3. v \in Verdict
  BY VerdictRange DEF VerdictOf
<1>4. v \notin Deferred /\ v # "send" => v \in Written \ {"telegram", "digest"}
  BY <1>3 DEF Verdict, Deferred, Written
<1>5. CASE v \in Deferred
  BY <1>1, <1>2, <1>5 DEF Deferred
<1>6. CASE v = "send"
  BY <1>1, <1>2, <1>6 DEF Deferred
<1>7. CASE v \notin Deferred /\ v # "send"
  <2>1. v \notin {"deferred_quiet", "deferred_digest"}
    BY <1>7 DEF Deferred
  <2> HIDE DEF v
  <2> QED
    BY <1>1, <1>2, <1>4, <1>7, <2>1 DEF v
<1> QED
  BY <1>5, <1>6, <1>7

(* A decided row leaves the batch for one place only.                      *)
LEMMA ShapeDecide == ASSUME NEW p \in Pass PROVE Shape /\ Decide(p) => Shape'
<1> SUFFICES ASSUME Shape, Decide(p) PROVE Shape'
  OBVIOUS
<1>1. at[p] = "next" /\ UNCHANGED <<stored, snap, world>>
  BY DecideEffect
<1>2. PICK d \in batch[p] :
        /\ batch' = [batch EXCEPT ![p] = @ \ {d}]
        /\ \/ UNCHANGED <<at, held, current, channel>>
           \/ held' = [held EXCEPT ![p] = @ \union {d}] /\ UNCHANGED <<at, current, channel>>
           \/ /\ current' = [current EXCEPT ![p] = {d}] /\ UNCHANGED held
              /\ \/ /\ at' = [at EXCEPT ![p] = "send"]
                    /\ channel' = [channel EXCEPT ![p] = "telegram"]
                 \/ /\ at' = [at EXCEPT ![p] = "stamp"]
                    /\ \E v \in Written \ {"telegram", "digest"} :
                         channel' = [channel EXCEPT ![p] = v]
  BY DecideEffect
<1>3. RowsTyped'
  BY <1>1 DEF Shape, RowsTyped, LogTyped, stored, world
<1>4. d \in Delivery
  BY DEF Shape, PassesTyped
<1>5. PassesTyped'
  <2>1. CASE UNCHANGED <<at, current, channel>>
    BY <1>1, <1>2, <1>4, <2>1 DEF Shape, PassesTyped
  <2>2. CASE /\ current' = [current EXCEPT ![p] = {d}] /\ UNCHANGED held
             /\ \/ /\ at' = [at EXCEPT ![p] = "send"]
                   /\ channel' = [channel EXCEPT ![p] = "telegram"]
                \/ /\ at' = [at EXCEPT ![p] = "stamp"]
                   /\ \E v \in Written \ {"telegram", "digest"} :
                        channel' = [channel EXCEPT ![p] = v]
    <3>1. channel' \in [Pass -> Written \union {Unresolved, "attempt"}]
      BY <2>2 DEF Shape, PassesTyped, Written
    <3> QED
      BY <1>1, <1>2, <1>4, <2>2, <3>1 DEF Shape, PassesTyped
  <2> QED
    BY <1>2, <2>1, <2>2
<1>6. Working' /\ OneReader' /\ Apart'
  <2>1. CASE UNCHANGED <<at, held, current, channel>>
    BY <1>1, <1>2, <2>1 DEF Shape, PassesTyped, Working, OneReader, Apart
  <2>2. CASE held' = [held EXCEPT ![p] = @ \union {d}] /\ UNCHANGED <<at, current, channel>>
    BY <1>1, <1>2, <2>2 DEF Shape, PassesTyped, Working, OneReader, Apart
  <2>3. CASE /\ current' = [current EXCEPT ![p] = {d}] /\ UNCHANGED held
             /\ \/ /\ at' = [at EXCEPT ![p] = "send"]
                   /\ channel' = [channel EXCEPT ![p] = "telegram"]
                \/ /\ at' = [at EXCEPT ![p] = "stamp"]
                   /\ \E v \in Written \ {"telegram", "digest"} :
                        channel' = [channel EXCEPT ![p] = v]
    BY <1>1, <1>2, <2>3 DEF Shape, PassesTyped, Working, OneReader, Apart, Written, Unresolved
  <2> QED
    BY <1>2, <2>1, <2>2, <2>3
<1> QED
  BY <1>3, <1>5, <1>6 DEF Shape

(* A bucket is the rows of one reader.                                     *)
LEMMA ShapeBucket == ASSUME NEW p \in Pass PROVE Shape /\ TakeBucket(p) => Shape'
<1> SUFFICES ASSUME Shape, TakeBucket(p) PROVE Shape'
  OBVIOUS
<1>1. PICK s \in Sub :
        LET D == {d \in held[p] : d[2] = s}
        IN  /\ D # {}
            /\ held' = [held EXCEPT ![p] = @ \ D]
            /\ \/ /\ current' = [current EXCEPT ![p] = D]
                  /\ channel' = [channel EXCEPT ![p] = "digest"]
                  /\ at' = [at EXCEPT ![p] = "send"]
               \/ UNCHANGED <<at, current, channel>>
  BY DEF TakeBucket
<1> DEFINE D == {d \in held[p] : d[2] = s}
<1>2. D \subseteq held[p] /\ D # {} /\ \A d, e \in D : d[2] = e[2]
  BY <1>1
<1>3. /\ held' = [held EXCEPT ![p] = @ \ D]
      /\ \/ /\ current' = [current EXCEPT ![p] = D]
            /\ channel' = [channel EXCEPT ![p] = "digest"]
            /\ at' = [at EXCEPT ![p] = "send"]
         \/ UNCHANGED <<at, current, channel>>
  BY <1>1
<1> HIDE DEF D
<1>4. at[p] = "next" /\ UNCHANGED <<stored, snap, batch, world>>
  BY DEF TakeBucket
<1>5. RowsTyped'
  BY <1>4 DEF Shape, RowsTyped, LogTyped, stored, world
<1>6. PassesTyped'
  BY <1>2, <1>3, <1>4 DEF Shape, PassesTyped, Written
<1>7. Working' /\ OneReader' /\ Apart'
  BY <1>2, <1>3, <1>4 DEF Shape, PassesTyped, Working, OneReader, Apart, Unresolved
<1> QED
  BY <1>5, <1>6, <1>7 DEF Shape

(* The reader of what is being sent is the one it is owed to.              *)
LEMMA ReaderOfAll ==
  ASSUME Shape, NEW p \in Pass, NEW d \in current[p]
  PROVE  Reader(p) = d[2] /\ d[2] \in Sub /\ d[1] \in Nat
<1>1. d \in Delivery
  BY DEF Shape, PassesTyped
<1>2. d[2] \in Sub /\ d[1] \in Nat
  BY <1>1, DispatchConstants DEF Delivery
<1>3. \E s \in Sub : \E e \in current[p] : e[2] = s
  BY <1>2
<1>4. Reader(p) \in Sub /\ \E e \in current[p] : e[2] = Reader(p)
  BY <1>3 DEF Reader
<1> QED
  BY <1>2, <1>4 DEF Shape, OneReader

(* A message adds a set of rows to the inbox of one reader.                *)
LEMMA ShapeSend == ASSUME NEW p \in Pass PROVE Shape /\ Send(p) => Shape'
<1> SUFFICES ASSUME Shape, Send(p) PROVE Shape'
  OBVIOUS
<1>1. inbox' \in [Sub -> Seq(SUBSET Nat)]
  <2>1. PICK took \in BOOLEAN :
          inbox' = IF took THEN [inbox EXCEPT ![Reader(p)] = Append(@, {d[1] : d \in current[p]})]
                   ELSE inbox
    BY DEF Send
  <2>2. {d[1] : d \in current[p]} \in SUBSET Nat
    BY ReaderOfAll
  <2>3. Reader(p) \in Sub
    BY ReaderOfAll DEF Send, Shape, Working
  <2> DEFINE rows == {d[1] : d \in current[p]}
  <2> HIDE DEF rows
  <2>4. inbox \in [Sub -> Seq(SUBSET Nat)] /\ rows \in SUBSET Nat
    BY <2>2 DEF Shape, RowsTyped, rows
  <2>5. inbox' = inbox \/ inbox' = [inbox EXCEPT ![Reader(p)] = Append(inbox[Reader(p)], rows)]
    BY <2>1 DEF rows
  <2>6. Append(inbox[Reader(p)], rows) \in Seq(SUBSET Nat)
    BY <2>3, <2>4
  <2> QED
    BY <2>3, <2>4, <2>5, <2>6
<1>2. RowsTyped'
  BY <1>1 DEF Shape, RowsTyped, LogTyped, Send, stored
<1>3. \/ at' = [at EXCEPT ![p] = "stamp"] /\ UNCHANGED channel
      \/ channel' = [channel EXCEPT ![p] = "attempt"] /\ at' = [at EXCEPT ![p] = "stamp"]
      \/ channel' = [channel EXCEPT ![p] = "blocked"] /\ at' = [at EXCEPT ![p] = "block"]
  BY DEF Send
<1>4. at[p] = "send" /\ UNCHANGED <<snap, batch, held, current>>
  BY DEF Send
<1>5. PassesTyped'
  BY <1>3, <1>4 DEF Shape, PassesTyped, Written
<1>6. Working' /\ OneReader' /\ Apart'
  BY <1>3, <1>4 DEF Shape, PassesTyped, Working, OneReader, Apart, Unresolved
<1> QED
  BY <1>2, <1>5, <1>6 DEF Shape

(* A blocked reader's row goes on to its stamp.                            *)
LEMMA ShapeBlock == ASSUME NEW p \in Pass PROVE Shape /\ Block(p) => Shape'
<1> SUFFICES ASSUME Shape, Block(p) PROVE Shape'
  OBVIOUS
<1>1. RowsTyped'
  BY DEF Shape, RowsTyped, LogTyped, Block, QueryFails
<1>2. PassesTyped'
  BY DEF Shape, PassesTyped, Block
<1>3. /\ at[p] = "block" /\ at' = [at EXCEPT ![p] = "stamp"]
      /\ UNCHANGED <<batch, held, current, channel>>
  BY DEF Block
<1>4. Working'
  BY <1>3 DEF Shape, PassesTyped, Working, Unresolved
<1> QED
  BY <1>1, <1>2, <1>3, <1>4 DEF Shape, OneReader, Apart

(* What has been dealt with leaves the pass; the last of a digest stays    *)
(* until the digest is marked.                                             *)
LEMMA ShapeDone ==
  ASSUME NEW p \in Pass, NEW d \in current[p]
  PROVE  Shape /\ at[p] = "stamp" /\ Done(p, d) /\ RowsTyped' /\ UNCHANGED <<snap, batch, held>>
           => Shape'
<1> SUFFICES ASSUME Shape, at[p] = "stamp", Done(p, d), RowsTyped', UNCHANGED <<snap, batch, held>>
             PROVE Shape'
  OBVIOUS
<1>1. \/ /\ current[p] # {d}
         /\ current' = [current EXCEPT ![p] = current[p] \ {d}]
         /\ at' = [at EXCEPT ![p] = "stamp"] /\ channel' = [channel EXCEPT ![p] = channel[p]]
      \/ /\ current[p] = {d}
         /\ channel' = [channel EXCEPT ![p] = Unresolved]
         /\ \/ current' = [current EXCEPT ![p] = {d}] /\ at' = [at EXCEPT ![p] = "mark"]
            \/ current' = [current EXCEPT ![p] = {}] /\ at' = [at EXCEPT ![p] = "next"]
  <2>1. /\ current' = [current EXCEPT ![p] = IF current[p] = {d} /\ channel[p] = "digest"
                                             THEN current[p] ELSE current[p] \ {d}]
        /\ at' = [at EXCEPT ![p] = IF current[p] # {d} THEN "stamp"
                                   ELSE IF channel[p] = "digest" THEN "mark" ELSE "next"]
        /\ channel' = [channel EXCEPT ![p] = IF current[p] = {d} THEN Unresolved ELSE channel[p]]
    BY DEF Done, Shape, PassesTyped
  <2>2. CASE current[p] # {d}
    BY <2>1, <2>2
  <2>3. CASE current[p] = {d} /\ channel[p] = "digest"
    BY <2>1, <2>3
  <2>4. CASE current[p] = {d} /\ channel[p] # "digest"
    <3>1. current[p] \ {d} = {}
      BY <2>4
    <3> QED
      BY <2>1, <2>4, <3>1
  <2> QED
    BY <2>2, <2>3, <2>4
<1>2. PassesTyped'
  BY <1>1 DEF Shape, PassesTyped
<1>3. Working' /\ OneReader' /\ Apart'
  <2>1. CASE /\ current[p] # {d}
             /\ current' = [current EXCEPT ![p] = current[p] \ {d}]
             /\ at' = [at EXCEPT ![p] = "stamp"]
             /\ channel' = [channel EXCEPT ![p] = channel[p]]
    BY <2>1 DEF Shape, PassesTyped, Working, OneReader, Apart
  <2>2. CASE /\ current[p] = {d}
             /\ channel' = [channel EXCEPT ![p] = Unresolved]
             /\ \/ current' = [current EXCEPT ![p] = {d}] /\ at' = [at EXCEPT ![p] = "mark"]
                \/ current' = [current EXCEPT ![p] = {}] /\ at' = [at EXCEPT ![p] = "next"]
    <3>1. CASE current' = [current EXCEPT ![p] = {d}] /\ at' = [at EXCEPT ![p] = "mark"]
      BY <2>2, <3>1 DEF Shape, PassesTyped, Working, OneReader, Apart
    <3>2. CASE current' = [current EXCEPT ![p] = {}] /\ at' = [at EXCEPT ![p] = "next"]
      BY <2>2, <3>2 DEF Shape, PassesTyped, Working, OneReader, Apart
    <3> QED
      BY <2>2, <3>1, <3>2
  <2> QED
    BY <1>1, <2>1, <2>2
<1> QED
  BY <1>2, <1>3 DEF Shape

(* A stamp writes one row, with an outcome.                                *)
LEMMA StampEffect ==
  ASSUME NEW p \in Pass, Shape, Stamp(p)
  PROVE  /\ at[p] = "stamp"
         /\ \E d \in current[p] :
              /\ d \in Delivery /\ Done(p, d)
              /\ row' = [row EXCEPT ![d] = Outcome(p, d)]
              /\ Outcome(p, d) \in [channel : Written \union {Unresolved}, attempts : Int]
              /\ \/ channel[p] = "attempt" /\ Outcome(p, d).channel = row[d].channel
                 \/ channel[p] = "attempt" /\ Outcome(p, d).channel = "undeliverable"
                 \/ channel[p] \in Written /\ Outcome(p, d).channel = channel[p]
         /\ UNCHANGED <<log, linked, settings, lastDigest, facts, snap, batch, held, world>>
<1> DEFINE d == Oldest(current[p])
<1>1. at[p] = "stamp" /\ current[p] # {} /\ channel[p] # Unresolved
  BY DEF Stamp, Shape, Working
<1>2. current[p] \in SUBSET Delivery
  BY DEF Shape, PassesTyped
<1>3. d \in current[p]
  BY <1>1, <1>2, OldestIsOne
<1>4. d \in Delivery
  BY <1>2, <1>3
<1>5. Done(p, d) /\ row' = [row EXCEPT ![d] = Outcome(p, d)]
  BY DEF Stamp
<1>6. UNCHANGED <<log, linked, settings, lastDigest, facts, snap, batch, held, world>>
  BY DEF Stamp
<1> HIDE DEF d
<1>7. row[d] \in [channel : Written \union {Unresolved}, attempts : Int]
  BY <1>4 DEF Shape, RowsTyped
<1>8. snap[p].attempts[d] \in Int
  BY <1>1, <1>4 DEF Shape, PassesTyped
<1>9. channel[p] \in Written \union {"attempt"}
  BY <1>1 DEF Shape, PassesTyped
<1>10. MaxAttempts \in Int
  BY DispatchConstants
<1>11. /\ Outcome(p, d) \in [channel : Written \union {Unresolved}, attempts : Int]
       /\ \/ channel[p] = "attempt" /\ Outcome(p, d).channel = row[d].channel
          \/ channel[p] = "attempt" /\ Outcome(p, d).channel = "undeliverable"
          \/ channel[p] \in Written /\ Outcome(p, d).channel = channel[p]
  <2> DEFINE n == snap[p].attempts[d]
  <2>1. CASE channel[p] = "attempt" /\ n + 1 < MaxAttempts
    <3>1. Outcome(p, d) = [row[d] EXCEPT !.attempts = n + 1]
      BY <1>8, <1>10, <2>1 DEF Outcome
    <3> QED
      BY <1>7, <1>8, <2>1, <3>1
  <2>2. CASE channel[p] = "attempt" /\ ~(n + 1 < MaxAttempts)
    <3>1. n + 1 >= MaxAttempts
      BY <1>8, <1>10, <2>2
    <3>2. Outcome(p, d) = [channel |-> "undeliverable", attempts |-> n + 1]
      BY <1>8, <1>10, <2>2, <3>1 DEF Outcome
    <3> QED
      BY <1>8, <2>2, <3>2 DEF Written
  <2>3. CASE channel[p] # "attempt"
    <3>1. \/ Outcome(p, d) = [channel |-> channel[p], attempts |-> n + 1]
          \/ Outcome(p, d) = [channel |-> channel[p], attempts |-> n]
      BY <2>3 DEF Outcome
    <3> QED
      BY <1>8, <1>9, <2>3, <3>1
  <2> QED
    BY <2>1, <2>2, <2>3
<1> QED
  BY <1>1, <1>3, <1>4, <1>5, <1>6, <1>11

(* A stamp keeps the rows typed.                                           *)
LEMMA ShapeStamp == ASSUME NEW p \in Pass PROVE Shape /\ Stamp(p) => Shape'
<1> SUFFICES ASSUME Shape, Stamp(p) PROVE Shape'
  OBVIOUS
<1>1. PICK d \in current[p] :
        /\ at[p] = "stamp" /\ d \in Delivery /\ Done(p, d)
        /\ row' = [row EXCEPT ![d] = Outcome(p, d)]
        /\ Outcome(p, d) \in [channel : Written \union {Unresolved}, attempts : Int]
        /\ UNCHANGED <<log, snap, batch, held, world>>
  BY StampEffect
<1>2. RowsTyped'
  BY <1>1 DEF Shape, RowsTyped, LogTyped, world
<1> QED
  BY <1>1, <1>2, ShapeDone

(* So does an attempt that could not be counted.                           *)
LEMMA ShapeCountFails == ASSUME NEW p \in Pass PROVE Shape /\ CountFails(p) => Shape'
<1> SUFFICES ASSUME Shape, CountFails(p) PROVE Shape'
  OBVIOUS
<1>1. at[p] = "stamp" /\ Done(p, Oldest(current[p])) /\ UNCHANGED <<snap, batch, held>>
  BY DEF CountFails
<1>2. current[p] \in SUBSET Delivery /\ current[p] # {}
  BY <1>1 DEF Shape, PassesTyped, Working
<1>3. Oldest(current[p]) \in current[p]
  BY <1>2, OldestIsOne
<1>4. RowsTyped'
  BY DEF Shape, RowsTyped, LogTyped, CountFails, QueryFails, stored
<1> QED
  BY <1>1, <1>3, <1>4, ShapeDone

(* Marking the digest ends the work on it.                                 *)
LEMMA ShapeMark == ASSUME NEW p \in Pass PROVE Shape /\ MarkDigest(p) => Shape'
<1> SUFFICES ASSUME Shape, MarkDigest(p) PROVE Shape'
  OBVIOUS
<1>1. RowsTyped'
  BY DEF Shape, RowsTyped, LogTyped, MarkDigest, QueryFails
<1>2. PassesTyped'
  BY DEF Shape, PassesTyped, MarkDigest
<1> QED
  BY <1>1, <1>2 DEF Shape, PassesTyped, Working, OneReader, Apart, MarkDigest

(* A pass that ends leaves nothing behind.                                 *)
LEMMA ShapeEnds == ASSUME NEW p \in Pass PROVE Shape /\ (EndPass(p) \/ PassThrows(p)) => Shape'
<1> SUFFICES ASSUME Shape, EndPass(p) \/ PassThrows(p) PROVE Shape'
  OBVIOUS
<1>1. Idle(p) /\ UNCHANGED <<stored, inbox, now, crashes>>
      /\ (failures' = failures \/ failures' = failures + 1)
  BY DEF EndPass, PassThrows, QueryFails, world
<1>2. RowsTyped'
  BY <1>1 DEF Shape, RowsTyped, LogTyped, stored
<1>3. PassesTyped'
  BY <1>1 DEF Shape, PassesTyped, Idle
<1> QED
  BY <1>1, <1>2, <1>3 DEF Shape, PassesTyped, Working, OneReader, Apart, Idle

(* Neither does the death of the worker.                                   *)
LEMMA ShapeCrash == Shape /\ Crash => Shape'
<1> SUFFICES ASSUME Shape, Crash PROVE Shape'
  OBVIOUS
<1>1. RowsTyped'
  BY DEF Shape, RowsTyped, LogTyped, Crash, stored
<1>2. PassesTyped'
  BY DEF Shape, PassesTyped, Crash
<1> QED
  BY <1>1, <1>2 DEF Shape, Working, OneReader, Apart, Crash

(* Every step of the dispatcher keeps the passes in shape.                 *)
LEMMA ShapeInductive == Shape /\ [Next]_vars => Shape'
<1> SUFFICES ASSUME Shape, [Next]_vars PROVE Shape'
  OBVIOUS
<1>1. ASSUME NEW p \in Pass, Drain(p) \/ Advance(p) PROVE Shape'
  BY <1>1, ShapeDrain, ShapeDecide, ShapeBucket, ShapeSend, ShapeBlock, ShapeStamp,
     ShapeCountFails, ShapeMark, ShapeEnds DEF Advance
<1>2. ASSUME NEW q \in Position, Cross(q) PROVE Shape'
  BY <1>2, ShapeCross
<1>3. now \in Int
  BY DEF Shape, RowsTyped
<1>4. ASSUME NEW q \in Position, NewSnapshot(q) PROVE Shape'
  BY <1>3, <1>4, ShapeWorld DEF NewSnapshot, world
<1>5. ASSUME NEW s \in Sub, SaveSettings(s) \/ Relink(s) PROVE Shape'
  BY <1>3, <1>5, ShapeWorld DEF SaveSettings, Relink, world
<1>6. CASE Elapse
  BY <1>3, <1>6, ShapeWorld DEF Elapse, stored
<1>7. CASE UNCHANGED vars
  BY <1>3, <1>7, ShapeWorld DEF vars, stored, world
<1> QED
  BY <1>1, <1>2, <1>4, <1>5, <1>6, <1>7, ShapeCrash DEF Next
-----------------------------------------------------------------------------
(* The copies of a transition that a reader has got, and what a message    *)
(* adds to them.                                                           *)
LEMMA CopiesCounted ==
  ASSUME Shape, NEW d \in Delivery
  PROVE  Copies(d) \in Nat
<1>1. d[2] \in Sub
  BY DEF Delivery
<1>2. inbox[d[2]] \in Seq(SUBSET Nat)
  BY <1>1 DEF Shape, RowsTyped
<1>3. IsFiniteSet(DOMAIN inbox[d[2]])
  BY <1>2, FS_Interval
<1>4. IsFiniteSet({m \in DOMAIN inbox[d[2]] : d[1] \in inbox[d[2]][m]})
  BY <1>3, FS_Subset
<1> QED
  BY <1>4, FS_CardinalityType DEF Copies

(* One message more, with or without the row.                              *)
LEMMA OneMore ==
  ASSUME NEW box \in Seq(SUBSET Nat), NEW rows \in SUBSET Nat, NEW i \in Nat
  PROVE  Cardinality({m \in DOMAIN Append(box, rows) : i \in Append(box, rows)[m]})
           = Cardinality({m \in DOMAIN box : i \in box[m]}) + (IF i \in rows THEN 1 ELSE 0)
<1> DEFINE more == Append(box, rows)
           old  == {m \in DOMAIN box : i \in box[m]}
           new  == {m \in DOMAIN more : i \in more[m]}
           n    == Len(box) + 1
<1>1. DOMAIN box = 1 .. Len(box) /\ DOMAIN more = 1 .. n /\ n \in Nat /\ n \notin DOMAIN box
  OBVIOUS
<1>2. more[n] = rows /\ \A m \in DOMAIN box : more[m] = box[m]
  OBVIOUS
<1>3. IsFiniteSet(old)
  <2>1. IsFiniteSet(DOMAIN box)
    BY <1>1, FS_Interval
  <2> QED
    BY <2>1, FS_Subset
<1>4. 1 .. n = DOMAIN box \union {n}
  BY <1>1
<1>5. n \notin old
  BY <1>1
<1> HIDE DEF more, n
<1>6. CASE i \in rows
  <2>1. new = old \union {n}
    BY <1>1, <1>2, <1>4, <1>6
  <2> HIDE DEF old, new
  <2>2. Cardinality(new) = Cardinality(old) + 1
    BY <1>3, <1>5, <2>1, FS_AddElement
  <2> QED
    BY <1>6, <2>2 DEF old, new, more
<1>7. CASE i \notin rows
  <2>1. new = old
    BY <1>1, <1>2, <1>4, <1>7
  <2>2. Cardinality(old) \in Nat
    BY <1>3, FS_CardinalityType
  <2> HIDE DEF old, new
  <2>3. Cardinality(new) = Cardinality(old) + 0
    BY <2>1, <2>2
  <2> QED
    BY <1>7, <2>3 DEF old, new, more
<1> QED
  BY <1>6, <1>7

(* A message gives a copy to each row it carries, to all or to none.       *)
LEMMA SendEffect ==
  ASSUME NEW p \in Pass, Shape, Send(p)
  PROVE  /\ at[p] = "send"
         /\ UNCHANGED <<stored, snap, batch, held, current, now, crashes, failures>>
         /\ \A d \in Delivery \ current[p] : Copies(d)' = Copies(d)
         /\ \/ /\ at' = [at EXCEPT ![p] = "stamp"] /\ UNCHANGED channel
               /\ \A d \in current[p] : Copies(d)' = Copies(d) + 1
            \/ /\ at' = [at EXCEPT ![p] = "stamp"]
               /\ channel' = [channel EXCEPT ![p] = "attempt"]
               /\ \/ /\ "ghost" \in Faults
                     /\ \A d \in current[p] : Copies(d)' = Copies(d) + 1
                  \/ \A d \in current[p] : Copies(d)' = Copies(d)
            \/ /\ at' = [at EXCEPT ![p] = "block"]
               /\ channel' = [channel EXCEPT ![p] = "blocked"]
               /\ \A d \in current[p] : Copies(d)' = Copies(d)
<1> DEFINE rows == {d[1] : d \in current[p]}
<1>1. at[p] = "send" /\ UNCHANGED <<stored, snap, batch, held, current, now, crashes, failures>>
  BY DEF Send
<1>2. current[p] # {} /\ current[p] \in SUBSET Delivery
  BY <1>1 DEF Shape, Working, PassesTyped
<1>3. Reader(p) \in Sub /\ rows \in SUBSET Nat
  BY <1>2, ReaderOfAll
<1>4. ASSUME inbox' = [inbox EXCEPT ![Reader(p)] = Append(inbox[Reader(p)], rows)],
             NEW d \in Delivery
      PROVE  Copies(d)' = IF d \in current[p] THEN Copies(d) + 1 ELSE Copies(d)
  <2>1. d[1] \in Nat /\ d[2] \in Sub /\ d = <<d[1], d[2]>>
    BY DispatchConstants DEF Delivery
  <2>2. inbox \in [Sub -> Seq(SUBSET Nat)]
    BY DEF Shape, RowsTyped
  <2>3. CASE d[2] # Reader(p)
    <3>1. d \notin current[p]
      BY <2>3, ReaderOfAll
    <3>2. inbox'[d[2]] = inbox[d[2]]
      BY <1>4, <2>1, <2>2, <2>3
    <3> QED
      BY <3>1, <3>2 DEF Copies
  <2>4. CASE d[2] = Reader(p)
    <3>1. d[1] \in rows <=> d \in current[p]
      <4>1. ASSUME NEW e \in current[p], e[1] = d[1] PROVE d = e
        <5>1. e \in Delivery /\ e[2] = d[2]
          BY <1>2, <2>4, ReaderOfAll
        <5> QED
          BY <2>1, <4>1, <5>1 DEF Delivery
      <4> QED
        BY <4>1
    <3>2. inbox'[d[2]] = Append(inbox[d[2]], rows)
      BY <1>3, <1>4, <2>2, <2>4
    <3> HIDE DEF rows
    <3>3. inbox[d[2]] \in Seq(SUBSET Nat)
      BY <2>1, <2>2
    <3>4. Copies(d)' = Copies(d) + IF d[1] \in rows THEN 1 ELSE 0
      <4> DEFINE box == inbox[d[2]]
                 i   == d[1]
      <4> HIDE DEF box, i
      <4>1. box \in Seq(SUBSET Nat) /\ rows \in SUBSET Nat /\ i \in Nat
        BY <1>3, <2>1, <3>3 DEF box, i
      <4>2. Cardinality({m \in DOMAIN Append(box, rows) : i \in Append(box, rows)[m]})
              = Cardinality({m \in DOMAIN box : i \in box[m]}) + (IF i \in rows THEN 1 ELSE 0)
        BY <4>1, OneMore
      <4>3. Copies(d)' = Cardinality({m \in DOMAIN Append(box, rows) : i \in Append(box, rows)[m]})
        BY <3>2 DEF Copies, box, i
      <4> QED
        BY <4>2, <4>3 DEF Copies, box, i
    <3>5. Copies(d) \in Nat
      BY CopiesCounted
    <3> QED
      BY <3>1, <3>4, <3>5
  <2> QED
    BY <2>3, <2>4
<1>5. ASSUME inbox' = inbox, NEW d \in Delivery PROVE Copies(d)' = Copies(d)
  BY <1>5 DEF Copies
<1>6. PICK took \in BOOLEAN :
        /\ inbox' = IF took THEN [inbox EXCEPT ![Reader(p)] = Append(inbox[Reader(p)], rows)]
                    ELSE inbox
        /\ \/ took /\ at' = [at EXCEPT ![p] = "stamp"] /\ UNCHANGED channel
           \/ /\ took => "ghost" \in Faults
              /\ channel' = [channel EXCEPT ![p] = "attempt"]
              /\ at' = [at EXCEPT ![p] = "stamp"]
           \/ /\ ~took
              /\ channel' = [channel EXCEPT ![p] = "blocked"]
              /\ at' = [at EXCEPT ![p] = "block"]
  <2>1. inbox \in [Sub -> Seq(SUBSET Nat)]
    BY DEF Shape, RowsTyped
  <2> QED
    BY <1>3, <2>1 DEF Send
<1> HIDE DEF rows
<1>7. CASE took
  <2>1. \A d \in Delivery : Copies(d)' = IF d \in current[p] THEN Copies(d) + 1 ELSE Copies(d)
    BY <1>4, <1>6, <1>7
  <2> QED
    BY <1>1, <1>2, <1>6, <1>7, <2>1
<1>8. CASE ~took
  <2>1. \A d \in Delivery : Copies(d)' = Copies(d)
    BY <1>5, <1>6, <1>8
  <2> QED
    BY <1>1, <1>2, <1>6, <1>8, <2>1
<1> QED
  BY <1>7, <1>8

-----------------------------------------------------------------------------
(* The inductive invariant of LedgerTruthful: what a pass is about to      *)
(* stamp as sent has reached its reader.                                   *)
Delivered ==
  \A p \in Pass :
    at[p] = "stamp" /\ channel[p] \in {"telegram", "digest"} =>
      \A d \in current[p] : Copies(d) > 0

LedgerInv == Shape /\ Delivered /\ LedgerTruthful

(* At first nothing is stamped.                                            *)
LEMMA LedgerInitially == Init => LedgerInv
BY ShapeInitially DEF Init, LedgerInv, Delivered, LedgerTruthful, Unresolved

(* Steps that write no row, send nothing and bring no pass to a stamp of   *)
(* something as sent.                                                      *)
LEMMA LedgerUntouched ==
  ASSUME LedgerInv, UNCHANGED <<row, inbox>>, Shape',
         \A p \in Pass :
           at'[p] = "stamp" /\ channel'[p] \in {"telegram", "digest"} =>
             /\ at[p] = "stamp" /\ channel'[p] = channel[p]
             /\ current'[p] \subseteq current[p]
  PROVE  LedgerInv'
<1>1. \A d : Copies(d)' = Copies(d)
  BY DEF Copies
<1> QED
  BY <1>1 DEF LedgerInv, Delivered, LedgerTruthful

(* What Done leaves to be stamped was there before.                        *)
LEMMA DoneLeaves ==
  ASSUME NEW p \in Pass, NEW d, Shape, Done(p, d), NEW q \in Pass,
         at'[q] = "stamp", channel'[q] \in {"telegram", "digest"}, at[p] = "stamp"
  PROVE  at[q] = "stamp" /\ channel'[q] = channel[q] /\ current'[q] \subseteq current[q]
BY DEF Done, Shape, PassesTyped, Unresolved

(* Every step keeps the ledger truthful.                                   *)
LEMMA LedgerInductive == LedgerInv /\ [Next]_vars => LedgerInv'
<1> SUFFICES ASSUME LedgerInv, [Next]_vars PROVE LedgerInv'
  OBVIOUS
<1>0. Shape /\ Shape'
  BY ShapeInductive DEF LedgerInv
<1>1. ASSUME NEW p \in Pass, Drain(p) \/ Advance(p) PROVE LedgerInv'
  <2>1. CASE Drain(p)
    BY <1>0, <2>1, LedgerUntouched DEF Drain, stored, world, Shape, PassesTyped
  <2>2. CASE Decide(p)
    <3>1. at[p] = "next" /\ UNCHANGED <<row, inbox>>
      BY <1>0, <2>2, DecideEffect DEF stored, world
    <3>2. \/ UNCHANGED <<at, current, channel>>
          \/ at' = [at EXCEPT ![p] = "send"] /\ UNCHANGED held
             /\ \E d, v : current' = [current EXCEPT ![p] = d] /\ channel' = [channel EXCEPT ![p] = v]
          \/ at' = [at EXCEPT ![p] = "stamp"] /\ UNCHANGED held
             /\ \E d, v : /\ current' = [current EXCEPT ![p] = d]
                          /\ channel' = [channel EXCEPT ![p] = v]
                          /\ v \notin {"telegram", "digest"}
      BY SMTT(30), <1>0, <2>2, DecideEffect
    <3> QED
      BY <1>0, <3>1, <3>2, LedgerUntouched DEF Shape, PassesTyped
  <2>3. CASE TakeBucket(p)
    BY <1>0, <2>3, LedgerUntouched DEF TakeBucket, stored, world, Shape, PassesTyped
  <2>4. CASE Send(p)
    <3>1. \A d \in Delivery : Copies(d)' >= Copies(d) /\ Copies(d) \in Nat
      BY <1>0, <2>4, SendEffect, CopiesCounted
    <3>2. LedgerTruthful'
      BY <1>0, <2>4, <3>1, SendEffect DEF LedgerInv, LedgerTruthful, stored
    <3>3. \A q \in Pass : current[q] \subseteq Delivery
      BY <1>0 DEF Shape, PassesTyped
    <3>4. UNCHANGED current
      BY <1>0, <2>4, SendEffect
    <3>5. ASSUME NEW q \in Pass, q # p, at'[q] = "stamp", channel'[q] \in {"telegram", "digest"},
                 NEW d \in current'[q]
          PROVE  Copies(d)' > 0
      <4>1. at[q] = "stamp" /\ channel[q] = channel'[q]
        BY <1>0, <2>4, <3>5, SendEffect DEF Shape, PassesTyped
      <4>2. d \in current[q] /\ d \in Delivery
        BY <3>3, <3>4, <3>5
      <4>3. Copies(d) > 0
        BY <3>5, <4>1, <4>2 DEF LedgerInv, Delivered
      <4>4. Copies(d)' >= Copies(d) /\ Copies(d) \in Nat /\ Copies(d)' \in Nat
        <5>1. Copies(d)' = Copies(d) \/ Copies(d)' = Copies(d) + 1
          BY <1>0, <2>4, <4>2, SendEffect
        <5> QED
          BY <3>1, <4>2, <5>1
      <4> QED
        BY <4>3, <4>4
    <3>6. ASSUME at'[p] = "stamp", channel'[p] \in {"telegram", "digest"}, NEW d \in current'[p]
          PROVE  Copies(d)' > 0
      <4>1. Copies(d)' = Copies(d) + 1
        BY <1>0, <2>4, <3>4, <3>6, SendEffect DEF Shape, PassesTyped
      <4> QED
        BY <3>1, <3>3, <3>4, <4>1
    <3> QED
      BY <1>0, <3>2, <3>5, <3>6 DEF LedgerInv, Delivered
  <2>5. CASE Block(p)
    <3>1. at[p] = "block" /\ channel[p] = "blocked" /\ at' = [at EXCEPT ![p] = "stamp"]
          /\ UNCHANGED <<row, inbox, channel, current>>
      BY <1>0, <2>5 DEF Block, Shape, Working
    <3> QED
      BY <1>0, <3>1, LedgerUntouched DEF Shape, PassesTyped
  <2>6. CASE Stamp(p)
    <3>1. PICK d \in current[p] :
            /\ at[p] = "stamp" /\ d \in Delivery /\ Done(p, d)
            /\ row' = [row EXCEPT ![d] = Outcome(p, d)]
            /\ Outcome(p, d).channel \in {row[d].channel, "undeliverable", channel[p]}
            /\ UNCHANGED world
      BY <1>0, <2>6, StampEffect
    <3>2. \A e : Copies(e)' = Copies(e)
      BY <3>1 DEF Copies, world
    <3>3. Delivered'
      BY <1>0, <3>1, <3>2, DoneLeaves DEF LedgerInv, Delivered
    <3>4. channel[p] \in {"telegram", "digest"} => Copies(d) > 0
      BY <3>1 DEF LedgerInv, Delivered
    <3>5. LedgerTruthful'
      <4> SUFFICES ASSUME NEW e \in Delivery, row'[e].channel \in {"telegram", "digest"}
                   PROVE  Copies(e) > 0
        BY <3>2 DEF LedgerTruthful
      <4>1. CASE e = d
        <5>1. row'[e].channel \in {row[d].channel, "undeliverable", channel[p]}
          BY <1>0, <3>1, <4>1 DEF Shape, RowsTyped
        <5> QED
          BY <3>1, <3>4, <4>1, <5>1 DEF LedgerInv, LedgerTruthful
      <4>2. CASE e # d
        BY <1>0, <3>1, <4>2 DEF Shape, RowsTyped, LedgerInv, LedgerTruthful
      <4> QED
        BY <4>1, <4>2
    <3> QED
      BY <1>0, <3>3, <3>5 DEF LedgerInv
  <2>7. CASE CountFails(p)
    <3>1. at[p] = "stamp" /\ Done(p, Oldest(current[p])) /\ UNCHANGED <<row, inbox>>
      BY <2>7 DEF CountFails, stored
    <3> QED
      BY <1>0, <3>1, LedgerUntouched, DoneLeaves
  <2>8. CASE MarkDigest(p)
    BY <1>0, <2>8, LedgerUntouched DEF MarkDigest, Shape, PassesTyped
  <2>9. CASE EndPass(p) \/ PassThrows(p)
    BY <1>0, <2>9, LedgerUntouched DEF EndPass, PassThrows, Idle, stored, world, Shape, PassesTyped
  <2> QED
    BY <1>1, <2>1, <2>2, <2>3, <2>4, <2>5, <2>6, <2>7, <2>8, <2>9 DEF Advance
<1>2. ASSUME UNCHANGED <<row, inbox, passes>> PROVE LedgerInv'
  BY <1>0, <1>2, LedgerUntouched DEF passes
<1>3. CASE Crash
  BY <1>0, <1>3, LedgerUntouched DEF Crash, stored
<1>4. ASSUME NEW q \in Position, Cross(q) \/ NewSnapshot(q) PROVE LedgerInv'
  BY <1>2, <1>4 DEF Cross, NewSnapshot, world
<1>5. ASSUME NEW s \in Sub, SaveSettings(s) \/ Relink(s) PROVE LedgerInv'
  BY <1>2, <1>5 DEF SaveSettings, Relink, world
<1>6. CASE Elapse \/ UNCHANGED vars
  BY <1>2, <1>6 DEF Elapse, vars, stored, world
<1> QED
  BY <1>1, <1>3, <1>4, <1>5, <1>6 DEF Next

(* The ledger never counts as told what the reader was not told: whatever  *)
(* Telegram answers, however passes overlap and whenever the worker dies,  *)
(* a row stamped telegram or digest has been in a message to its reader.   *)
THEOREM LedgerIsTruthful == Spec => []LedgerTruthful
<1>1. LedgerInv => LedgerTruthful
  BY DEF LedgerInv
<1> QED
  BY <1>1, LedgerInitially, LedgerInductive, PTL DEF Spec

-----------------------------------------------------------------------------
(* The inductive invariant of OutcomeFinal: what a pass has drained, and   *)
(* not stamped yet, nobody has decided.                                    *)
InHand(p) == batch[p] \union held[p] \union (IF at[p] = "mark" THEN {} ELSE current[p])

Open == \A p \in Pass : \A d \in InHand(p) : row[d].channel = Unresolved

OutcomeInv == Shape /\ Open

(* At first nothing is in hand.                                            *)
LEMMA OutcomeInitially == Init => OutcomeInv
BY ShapeInitially DEF Init, OutcomeInv, Open, InHand

(* Steps that write no row and drain nothing.                              *)
LEMMA OutcomeUntouched ==
  ASSUME OutcomeInv, UNCHANGED row, Shape', \A p \in Pass : InHand(p)' \subseteq InHand(p)
  PROVE  OutcomeInv'
BY DEF OutcomeInv, Open

(* The row that is stamped is out of the pass's hands.                     *)
LEMMA DoneLetsGo ==
  ASSUME NEW p \in Pass, NEW d \in current[p], Shape, Done(p, d), at[p] = "stamp",
         UNCHANGED <<batch, held>>
  PROVE  /\ InHand(p)' \subseteq InHand(p) \ {d}
         /\ \A q \in Pass : q # p => InHand(q)' = InHand(q)
<1>1. \A q \in Pass : q # p => at'[q] = at[q] /\ current'[q] = current[q]
  BY DEF Done, Shape, PassesTyped
<1>2. \/ current'[p] = current[p] \ {d}
      \/ at'[p] = "mark"
  BY DEF Done, Shape, PassesTyped
<1>3. d \notin batch[p] /\ d \notin held[p]
  BY DEF Shape, Apart
<1>4. InHand(p) = batch[p] \union held[p] \union current[p]
  BY DEF InHand
<1>5. InHand(p)' \subseteq batch[p] \union held[p] \union (current[p] \ {d})
  BY <1>2 DEF InHand
<1> QED
  BY <1>1, <1>3, <1>4, <1>5 DEF InHand

(* Every step keeps the invariant when no two passes overlap.              *)
LEMMA OutcomeInductive ==
  ASSUME \A p, q \in Pass : p = q
  PROVE  OutcomeInv /\ [Next]_vars => OutcomeInv'
<1> SUFFICES ASSUME OutcomeInv, [Next]_vars PROVE OutcomeInv'
  OBVIOUS
<1>0. Shape /\ Shape'
  BY ShapeInductive DEF OutcomeInv
<1>1. ASSUME NEW p \in Pass, Drain(p) \/ Advance(p) PROVE OutcomeInv'
  <2>1. CASE Drain(p)
    <3>1. PICK B \in SUBSET Pending : batch' = [batch EXCEPT ![p] = B]
      BY <2>1 DEF Drain
    <3>2. \A d \in B : row[d].channel = Unresolved
      BY DEF Pending
    <3>3. UNCHANGED <<row, held, current>> /\ current[p] = {} /\ held[p] = {}
      BY <1>0, <2>1 DEF Drain, stored, Shape, Working
    <3>4. InHand(p)' = B
      BY <1>0, <3>1, <3>3 DEF InHand, Shape, PassesTyped
    <3> QED
      BY <1>0, <3>2, <3>3, <3>4 DEF OutcomeInv, Open
  <2>2. CASE Decide(p)
    <3>1. UNCHANGED row /\ at[p] = "next"
      BY <1>0, <2>2, DecideEffect DEF stored
    <3>2. InHand(p)' \subseteq batch[p] \union held[p]
      BY <1>0, <2>2, DecideEffect DEF InHand, Shape, PassesTyped, Working
    <3> QED
      BY <1>0, <3>1, <3>2, OutcomeUntouched DEF InHand
  <2>3. CASE TakeBucket(p)
    <3>1. PICK D \in SUBSET held[p] :
            /\ held' = [held EXCEPT ![p] = @ \ D]
            /\ \/ current' = [current EXCEPT ![p] = D]
               \/ UNCHANGED <<at, current>>
      <4>1. PICK s \in Sub :
              LET D == {d \in held[p] : d[2] = s}
              IN  /\ held' = [held EXCEPT ![p] = @ \ D]
                  /\ \/ current' = [current EXCEPT ![p] = D]
                     \/ UNCHANGED <<at, current>>
        BY <2>3 DEF TakeBucket
      <4> WITNESS {d \in held[p] : d[2] = s} \in SUBSET held[p]
      <4> QED
        BY <4>1
    <3>2. UNCHANGED <<row, batch>> /\ current[p] = {} /\ at[p] = "next"
      BY <1>0, <2>3 DEF TakeBucket, stored, Shape, Working
    <3>3. InHand(p)' \subseteq batch[p] \union held[p]
      BY <1>0, <3>1, <3>2 DEF InHand, Shape, PassesTyped
    <3> QED
      BY <1>0, <3>2, <3>3, OutcomeUntouched DEF InHand
  <2>4. CASE Send(p) \/ Block(p)
    <3>1. at[p] \in {"send", "block"} /\ UNCHANGED <<row, batch, held, current>>
      BY <2>4 DEF Send, Block, stored
    <3> QED
      BY <1>0, <3>1, OutcomeUntouched DEF InHand
  <2>5. CASE Stamp(p)
    <3>1. PICK d \in current[p] :
            /\ at[p] = "stamp" /\ Done(p, d) /\ UNCHANGED <<batch, held>>
            /\ row' = [row EXCEPT ![d] = Outcome(p, d)]
      BY <1>0, <2>5, StampEffect
    <3>2. InHand(p)' \subseteq InHand(p) \ {d}
      BY <1>0, <3>1, DoneLetsGo
    <3>3. \A e \in InHand(p) : e \in Delivery
      BY <1>0 DEF InHand, Shape, PassesTyped
    <3> QED
      BY <1>0, <3>1, <3>2, <3>3 DEF OutcomeInv, Open, Shape, RowsTyped
  <2>6. CASE CountFails(p)
    <3>1. at[p] = "stamp" /\ Done(p, Oldest(current[p])) /\ UNCHANGED <<row, batch, held>>
      BY <2>6 DEF CountFails, stored
    <3>2. current[p] \in SUBSET Delivery /\ current[p] # {}
      BY <1>0, <3>1 DEF Shape, PassesTyped, Working
    <3> QED
      BY <1>0, <3>1, <3>2, OldestIsOne, DoneLetsGo, OutcomeUntouched
  <2>7. CASE MarkDigest(p) \/ EndPass(p) \/ PassThrows(p)
    <3>1. UNCHANGED row /\ InHand(p)' \subseteq InHand(p)
      BY <1>0, <2>7 DEF MarkDigest, EndPass, PassThrows, Idle, stored, InHand, Shape, PassesTyped
    <3> QED
      BY <1>0, <3>1, OutcomeUntouched
  <2> QED
    BY <1>1, <2>1, <2>2, <2>3, <2>4, <2>5, <2>6, <2>7 DEF Advance
<1>2. ASSUME UNCHANGED <<row, passes>> PROVE OutcomeInv'
  BY <1>0, <1>2, OutcomeUntouched DEF passes, InHand
<1>3. CASE Crash
  BY <1>0, <1>3, OutcomeUntouched DEF Crash, stored, InHand
<1>4. ASSUME NEW q \in Position, Cross(q) \/ NewSnapshot(q) PROVE OutcomeInv'
  BY <1>2, <1>4 DEF Cross, NewSnapshot
<1>5. ASSUME NEW s \in Sub, SaveSettings(s) \/ Relink(s) PROVE OutcomeInv'
  BY <1>2, <1>5 DEF SaveSettings, Relink
<1>6. CASE Elapse \/ UNCHANGED vars
  BY <1>2, <1>6 DEF Elapse, vars, stored
<1> QED
  BY <1>1, <1>3, <1>4, <1>5, <1>6 DEF Next

(* Only a stamp writes a row, and it writes one that the pass has in hand. *)
LEMMA StampsAreFirst ==
  ASSUME OutcomeInv, [Next]_vars, NEW d \in Delivery, row[d].channel # Unresolved
  PROVE  row'[d].channel = row[d].channel
<1>0. Shape
  BY DEF OutcomeInv
<1>1. ASSUME NEW p \in Pass, Stamp(p) PROVE row'[d].channel = row[d].channel
  <2>1. PICK e \in current[p] : at[p] = "stamp" /\ row' = [row EXCEPT ![e] = Outcome(p, e)]
    BY <1>0, <1>1, StampEffect
  <2>2. row[e].channel = Unresolved
    BY <2>1 DEF OutcomeInv, Open, InHand
  <2> QED
    BY <1>0, <2>1, <2>2 DEF Shape, RowsTyped
<1>2. ASSUME UNCHANGED row PROVE row'[d].channel = row[d].channel
  BY <1>2
<1>3. ASSUME NEW p \in Pass, Drain(p) \/ Advance(p), ~Stamp(p) PROVE UNCHANGED row
  BY <1>3 DEF Advance, Drain, Decide, TakeBucket, Send, Block, CountFails, MarkDigest,
     EndPass, PassThrows, stored
<1>4. ASSUME NEW q \in Position, Cross(q) \/ NewSnapshot(q) PROVE UNCHANGED row
  BY <1>4 DEF Cross, NewSnapshot
<1>5. ASSUME NEW s \in Sub, SaveSettings(s) \/ Relink(s) PROVE UNCHANGED row
  BY <1>5 DEF SaveSettings, Relink
<1>6. CASE Crash \/ Elapse \/ UNCHANGED vars
  BY <1>6 DEF Crash, Elapse, vars, stored
<1> QED
  BY <1>1, <1>2, <1>3, <1>4, <1>5, <1>6 DEF Next

(* While passes do not overlap, an outcome that is written stays: no later *)
(* pass rewrites it, whatever fails and whenever the worker dies.          *)
THEOREM OutcomeIsFinal ==
  ASSUME \A p, q \in Pass : p = q
  PROVE  Spec => OutcomeFinal
<1>1. OutcomeInv /\ [Next]_vars =>
        [\A d \in Delivery : row[d].channel # Unresolved => row'[d].channel = row[d].channel]_vars
  BY StampsAreFirst
<1> QED
  BY <1>1, OutcomeInitially, OutcomeInductive, PTL DEF Spec, OutcomeFinal

-----------------------------------------------------------------------------
(* The inductive invariant of SendsBounded.  A message for d costs one of  *)
(* the passes that may still send d, or is paid for by a crash or a failed *)
(* query that kept d from being stamped.                                   *)
MaySend(d) ==
  {p \in Pass : d \in batch[p] \/ d \in held[p] \/ (at[p] = "send" /\ d \in current[p])}

HasSent(d) ==
  {p \in Pass : at[p] = "stamp" /\ channel[p] \in {"telegram", "digest"} /\ d \in current[p]}

Lost == Cardinality(Pass) * crashes + failures

WithinBudget(d) ==
  IF row[d].channel = Unresolved
  THEN Copies(d) <= Lost + Cardinality(HasSent(d))
  ELSE Copies(d) + Cardinality(MaySend(d)) <= Lost + Cardinality(Pass)

BudgetInv == Shape /\ \A d \in Delivery : WithinBudget(d)

(* Some of the passes are at most all of them.                             *)
LEMMA SomePasses ==
  ASSUME IsFiniteSet(Pass), NEW M \in SUBSET Pass
  PROVE  IsFiniteSet(M) /\ Cardinality(M) \in Nat /\ Cardinality(M) <= Cardinality(Pass)
BY FS_Subset, FS_CardinalityType

(* Two kinds of passes together are at most all of them.                   *)
LEMMA DisjointPasses ==
  ASSUME IsFiniteSet(Pass), NEW M \in SUBSET Pass, NEW H \in SUBSET Pass, M \cap H = {}
  PROVE  Cardinality(M) + Cardinality(H) <= Cardinality(Pass)
<1>1. IsFiniteSet(M) /\ IsFiniteSet(H) /\ Cardinality(M) \in Nat /\ Cardinality(H) \in Nat
  BY SomePasses
<1>2. Cardinality(M \cup H) = Cardinality(M) + Cardinality(H) - Cardinality(M \cap H)
  BY <1>1, FS_Union
<1>3. Cardinality(M \cap H) = 0
  BY FS_EmptySet
<1>4. Cardinality(M \cup H) <= Cardinality(Pass)
  BY SomePasses
<1> QED
  BY <1>1, <1>2, <1>3, <1>4

(* A set that loses one member at most.                                    *)
LEMMA OneFewer ==
  ASSUME IsFiniteSet(Pass), NEW H \in SUBSET Pass, NEW I \in SUBSET Pass, NEW p \in Pass,
         H \subseteq I \union {p}
  PROVE  Cardinality(H) <= Cardinality(I) + 1
<1>1. IsFiniteSet(I) /\ Cardinality(I) \in Nat /\ Cardinality(H) \in Nat
  BY SomePasses
<1> DEFINE J == I \cup {p}
<1>2. IsFiniteSet(J) /\ Cardinality(J) = IF p \in I THEN Cardinality(I) ELSE Cardinality(I) + 1
  BY <1>1, FS_AddElement
<1> HIDE DEF J
<1>3. Cardinality(H) <= Cardinality(J)
  BY <1>2, FS_Subset DEF J
<1> QED
  BY <1>1, <1>2, <1>3

(* What crashes and failures may cost, and one more of either.             *)
LEMMA LostIsNat ==
  ASSUME IsFiniteSet(Pass), NEW c \in Nat, NEW f \in Nat
  PROVE  /\ Cardinality(Pass) * c + f \in Nat
         /\ Cardinality(Pass) * c + (f + 1) = Cardinality(Pass) * c + f + 1
         /\ Cardinality(Pass) * (c + 1) + f = Cardinality(Pass) * c + f + Cardinality(Pass)
<1> DEFINE n == Cardinality(Pass)
<1>1. n \in Nat
  BY FS_CardinalityType
<1> HIDE DEF n
<1>2. n * c \in Nat /\ n * (c + 1) = n * c + n
  BY <1>1
<1> QED
  BY <1>1, <1>2 DEF n

(* A pass that may still send d has not sent it.                           *)
LEMMA PassesCounted ==
  ASSUME IsFiniteSet(Pass), Shape, NEW d
  PROVE  /\ Cardinality(Pass) \in Nat /\ Lost \in Nat
         /\ IsFiniteSet(MaySend(d)) /\ IsFiniteSet(HasSent(d))
         /\ Cardinality(MaySend(d)) \in Nat /\ Cardinality(HasSent(d)) \in Nat
         /\ Cardinality(MaySend(d)) + Cardinality(HasSent(d)) <= Cardinality(Pass)
         /\ MaySend(d) \cap HasSent(d) = {}
<1>1. Cardinality(Pass) \in Nat
  BY FS_CardinalityType
<1>2. Lost \in Nat
  BY LostIsNat DEF Lost, Shape, RowsTyped
<1>3. MaySend(d) \subseteq Pass /\ HasSent(d) \subseteq Pass
  BY DEF MaySend, HasSent
<1>4. IsFiniteSet(MaySend(d)) /\ IsFiniteSet(HasSent(d))
  BY <1>3, SomePasses
<1>5. Cardinality(MaySend(d)) \in Nat /\ Cardinality(HasSent(d)) \in Nat
  BY <1>3, SomePasses
<1>6. MaySend(d) \cap HasSent(d) = {}
  BY DEF MaySend, HasSent, Shape, Apart
<1>7. Cardinality(MaySend(d)) + Cardinality(HasSent(d)) <= Cardinality(Pass)
  BY <1>3, <1>6, DisjointPasses
<1> QED
  BY <1>1, <1>2, <1>4, <1>5, <1>6, <1>7

(* At first nobody has got anything.                                       *)
LEMMA BudgetInitially == ASSUME IsFiniteSet(Pass) PROVE Init => BudgetInv
<1> SUFFICES ASSUME Init PROVE BudgetInv
  OBVIOUS
<1>1. Shape
  BY ShapeInitially
<1> SUFFICES ASSUME NEW d \in Delivery PROVE WithinBudget(d)
  BY <1>1 DEF BudgetInv
<1>2. row[d].channel = Unresolved
  BY DEF Init
<1>3. d[2] \in Sub
  BY DEF Delivery
<1>4. inbox[d[2]] = <<>>
  BY <1>3 DEF Init
<1>5. {m \in DOMAIN inbox[d[2]] : d[1] \in inbox[d[2]][m]} = {}
  BY <1>4
<1>6. Copies(d) = 0
  BY <1>5, FS_EmptySet DEF Copies
<1> QED
  BY <1>1, <1>2, <1>6, PassesCounted DEF WithinBudget

(* A step that sends nothing and leaves the outcome of d alone keeps d     *)
(* within its budget if no pass comes to have it in hand that had not, and *)
(* every pass that forgets that it has sent it is paid for.                *)
LEMMA BudgetKept ==
  ASSUME IsFiniteSet(Pass), BudgetInv, Shape', NEW d \in Delivery,
         Copies(d)' = Copies(d), row'[d].channel = row[d].channel, Lost' >= Lost,
         row[d].channel = Unresolved \/ MaySend(d)' \subseteq MaySend(d),
         \/ row[d].channel # Unresolved
         \/ HasSent(d) \subseteq HasSent(d)'
         \/ Lost' > Lost /\ \E p \in Pass : HasSent(d) \subseteq HasSent(d)' \union {p}
  PROVE  WithinBudget(d)'
<1>0. /\ Lost' \in Nat
      /\ MaySend(d)' \in SUBSET Pass /\ HasSent(d)' \in SUBSET Pass
  <2>1. crashes' \in Nat /\ failures' \in Nat
    BY DEF Shape, RowsTyped
  <2> QED
    BY <2>1, LostIsNat DEF Lost, MaySend, HasSent
<1>1. CASE row[d].channel # Unresolved
  <2>1. Cardinality(MaySend(d)') <= Cardinality(MaySend(d))
    BY <1>1, PassesCounted, FS_Subset DEF BudgetInv
  <2>2. Cardinality(MaySend(d)') \in Nat
    BY <1>0, SomePasses
  <2>3. Cardinality(Pass) \in Nat /\ Lost \in Nat /\ Cardinality(MaySend(d)) \in Nat
        /\ Copies(d) \in Nat
    BY PassesCounted, CopiesCounted DEF BudgetInv
  <2> QED
    BY <1>0, <1>1, <2>1, <2>2, <2>3 DEF BudgetInv, WithinBudget
<1>2. CASE row[d].channel = Unresolved
  <2>0. IsFiniteSet(HasSent(d)') /\ Cardinality(HasSent(d)') \in Nat /\ Lost' \in Nat
    BY <1>0, SomePasses
  <2>1. Cardinality(HasSent(d)) \in Nat /\ Lost \in Nat /\ Copies(d) \in Nat
    BY PassesCounted, CopiesCounted DEF BudgetInv
  <2>2. CASE HasSent(d) \subseteq HasSent(d)'
    <3>1. Cardinality(HasSent(d)) <= Cardinality(HasSent(d)')
      BY <2>0, <2>2, FS_Subset
    <3> QED
      BY <1>2, <2>0, <2>1, <3>1 DEF BudgetInv, WithinBudget
  <2>3. CASE Lost' > Lost /\ \E p \in Pass : HasSent(d) \subseteq HasSent(d)' \union {p}
    <3>1. HasSent(d) \in SUBSET Pass
      BY DEF HasSent
    <3>2. Cardinality(HasSent(d)) <= Cardinality(HasSent(d)') + 1
      BY <1>0, <2>3, <3>1, OneFewer
    <3> QED
      BY <1>0, <1>2, <2>0, <2>1, <2>3, <3>2 DEF BudgetInv, WithinBudget
  <2> QED
    BY <1>2, <2>2, <2>3
<1> QED
  BY <1>1, <1>2

(* A step that writes the outcome of d: what could still be sent adds to   *)
(* what has been, at most once per pass.                                   *)
LEMMA BudgetDecided ==
  ASSUME IsFiniteSet(Pass), BudgetInv, NEW d \in Delivery,
         Copies(d)' = Copies(d), row'[d].channel # Unresolved, Lost' = Lost,
         MaySend(d)' \subseteq MaySend(d)
  PROVE  WithinBudget(d)'
<1>1. /\ Lost \in Nat /\ Cardinality(Pass) \in Nat /\ Copies(d) \in Nat
      /\ Cardinality(MaySend(d)) \in Nat /\ Cardinality(HasSent(d)) \in Nat
      /\ Cardinality(MaySend(d)) + Cardinality(HasSent(d)) <= Cardinality(Pass)
  BY PassesCounted, CopiesCounted DEF BudgetInv
<1>2. MaySend(d)' \in SUBSET Pass
  BY DEF MaySend
<1>3. Cardinality(MaySend(d)') \in Nat
  BY <1>2, SomePasses
<1>4. Cardinality(MaySend(d)') <= Cardinality(MaySend(d))
  BY PassesCounted, FS_Subset DEF BudgetInv
<1>5. Copies(d) + Cardinality(MaySend(d)') <= Lost + Cardinality(Pass)
  BY <1>1, <1>3, <1>4 DEF BudgetInv, WithinBudget
<1> QED
  BY <1>5 DEF WithinBudget

(* A message moves its pass from those that may send to those that have.   *)
LEMMA BudgetSend ==
  ASSUME IsFiniteSet(Pass), "ghost" \notin Faults, BudgetInv, Shape',
         NEW p \in Pass, Send(p)
  PROVE  BudgetInv'
<1> SUFFICES ASSUME NEW d \in Delivery PROVE WithinBudget(d)'
  BY DEF BudgetInv
<1>0. Shape
  BY DEF BudgetInv
<1>1. at[p] = "send" /\ UNCHANGED <<row, batch, held, current, crashes, failures>>
  BY <1>0, SendEffect DEF stored
<1>2. \A q \in Pass \ {p} : at'[q] = at[q] /\ channel'[q] = channel[q]
  BY <1>0, SendEffect DEF Shape, PassesTyped
<1>3. at'[p] # "send" /\ Lost' = Lost
  BY <1>0, <1>1, SendEffect DEF Shape, PassesTyped, Lost
<1>4. MaySend(d)' \subseteq MaySend(d) /\ HasSent(d) \subseteq HasSent(d)'
  BY <1>1, <1>2, <1>3 DEF MaySend, HasSent
<1>5. CASE Copies(d)' = Copies(d)
  BY <1>0, <1>1, <1>3, <1>4, <1>5, BudgetKept, PassesCounted
<1>6. CASE Copies(d)' # Copies(d)
  <2>1. d \in current[p] /\ Copies(d)' = Copies(d) + 1 /\ UNCHANGED channel
        /\ at' = [at EXCEPT ![p] = "stamp"]
    BY <1>0, <1>6, SendEffect
  <2>2. /\ Lost \in Nat /\ Cardinality(Pass) \in Nat /\ Copies(d) \in Nat
        /\ IsFiniteSet(MaySend(d)) /\ IsFiniteSet(HasSent(d))
        /\ Cardinality(MaySend(d)) \in Nat /\ Cardinality(HasSent(d)) \in Nat
    BY <1>0, PassesCounted, CopiesCounted
  <2>3. channel[p] \in {"telegram", "digest"} /\ at'[p] = "stamp"
    BY <1>0, <1>1, <2>1 DEF Shape, Working, PassesTyped
  <2>4. HasSent(d)' = HasSent(d) \cup {p} /\ p \notin HasSent(d)
    BY <1>1, <1>2, <2>1, <2>3 DEF HasSent
  <2>5. MaySend(d)' = MaySend(d) \ {p} /\ p \in MaySend(d)
    <3>1. d \notin batch[p] /\ d \notin held[p]
      BY <1>0, <2>1 DEF Shape, Apart
    <3> QED
      BY <1>1, <1>2, <1>3, <2>1, <3>1 DEF MaySend
  <2>6. Cardinality(HasSent(d)') = Cardinality(HasSent(d)) + 1
    <3> DEFINE H == HasSent(d)
    <3>1. IsFiniteSet(H) /\ p \notin H
      BY <2>2, <2>4
    <3> HIDE DEF H
    <3>2. Cardinality(H \cup {p}) = Cardinality(H) + 1
      BY <3>1, FS_AddElement
    <3> QED
      BY <2>4, <3>2 DEF H
  <2>7. Cardinality(MaySend(d)') = Cardinality(MaySend(d)) - 1
    <3> DEFINE M == MaySend(d)
    <3>1. IsFiniteSet(M) /\ p \in M
      BY <2>2, <2>5
    <3> HIDE DEF M
    <3>2. Cardinality(M \ {p}) = Cardinality(M) - 1
      BY <3>1, FS_RemoveElement
    <3> QED
      BY <2>5, <3>2 DEF M
  <2>8. row'[d] = row[d]
    BY <1>1
  <2> QED
    BY <1>3, <2>1, <2>2, <2>6, <2>7, <2>8 DEF BudgetInv, WithinBudget
<1> QED
  BY <1>5, <1>6

(* What Done leaves in the passes' hands.                                  *)
LEMMA DoneCounts ==
  ASSUME NEW p \in Pass, NEW d \in current[p], Shape, Done(p, d), at[p] = "stamp",
         UNCHANGED <<batch, held>>, NEW e \in Delivery
  PROVE  /\ MaySend(e)' \subseteq MaySend(e)
         /\ e # d \/ channel[p] = "attempt" => HasSent(e) \subseteq HasSent(e)'
<1>1. \A q \in Pass : q # p =>
        at'[q] = at[q] /\ current'[q] = current[q] /\ channel'[q] = channel[q]
  BY DEF Done, Shape, PassesTyped
<1>2. at'[p] # "send"
  BY DEF Done, Shape, PassesTyped
<1>3. MaySend(e)' \subseteq MaySend(e)
  BY <1>1, <1>2 DEF MaySend
<1>4. ASSUME e # d, p \in HasSent(e) PROVE p \in HasSent(e)'
  <2>1. e \in current[p] /\ current[p] # {d}
    BY <1>4 DEF HasSent
  <2>2. at'[p] = "stamp" /\ channel'[p] = channel[p] /\ current'[p] = current[p] \ {d}
    BY <2>1 DEF Done, Shape, PassesTyped
  <2> QED
    BY <1>4, <2>1, <2>2 DEF HasSent
<1>5. channel[p] = "attempt" => p \notin HasSent(e)
  BY DEF HasSent
<1>6. \A q \in Pass : q # p /\ q \in HasSent(e) => q \in HasSent(e)'
  BY <1>1 DEF HasSent
<1>7. HasSent(e) \subseteq Pass
  BY DEF HasSent
<1> QED
  BY <1>3, <1>4, <1>5, <1>6, <1>7

(* A stamp writes one outcome and leaves the other rows of a digest.       *)
LEMMA BudgetStamp ==
  ASSUME IsFiniteSet(Pass), BudgetInv, Shape', NEW p \in Pass, Stamp(p)
  PROVE  BudgetInv'
<1>0. Shape
  BY DEF BudgetInv
<1>1. PICK d \in current[p] :
        /\ at[p] = "stamp" /\ d \in Delivery /\ Done(p, d)
        /\ row' = [row EXCEPT ![d] = Outcome(p, d)]
        /\ \/ channel[p] = "attempt" /\ Outcome(p, d).channel = row[d].channel
           \/ Outcome(p, d).channel \in Written
        /\ UNCHANGED <<batch, held, world>>
  <2>1. "undeliverable" \in Written
    BY DEF Written
  <2> QED
    BY <1>0, <2>1, StampEffect
<1>2. Lost' = Lost /\ \A e : Copies(e)' = Copies(e)
  BY <1>1 DEF Lost, Copies, world
<1>3. Lost' >= Lost
  BY <1>0, <1>2, PassesCounted
<1> SUFFICES ASSUME NEW e \in Delivery PROVE WithinBudget(e)'
  BY DEF BudgetInv
<1>4. CASE e # d
  <2>1. row'[e] = row[e]
    BY <1>0, <1>1, <1>4 DEF Shape, RowsTyped
  <2> QED
    BY <1>0, <1>1, <1>2, <1>3, <1>4, <2>1, DoneCounts, BudgetKept
<1>5. CASE e = d
  <2>1. row'[e] = Outcome(p, d)
    BY <1>0, <1>1, <1>5 DEF Shape, RowsTyped
  <2>2. CASE Outcome(p, d).channel \in Written
    <3>1. row'[e].channel # Unresolved
      BY <2>1, <2>2 DEF Written, Unresolved
    <3> QED
      BY <1>0, <1>1, <1>2, <3>1, DoneCounts, BudgetDecided
  <2>3. CASE channel[p] = "attempt" /\ Outcome(p, d).channel = row[d].channel
    BY <1>0, <1>1, <1>2, <1>3, <1>5, <2>1, <2>3, DoneCounts, BudgetKept
  <2> QED
    BY <1>1, <2>2, <2>3
<1> QED
  BY <1>4, <1>5

(* A crash may cost one message per pass.                                  *)
LEMMA BudgetCrash ==
  ASSUME IsFiniteSet(Pass), BudgetInv, Crash
  PROVE  BudgetInv'
<1>1. Shape /\ Shape'
  BY ShapeCrash DEF BudgetInv
<1> SUFFICES ASSUME NEW d \in Delivery PROVE WithinBudget(d)'
  BY <1>1 DEF BudgetInv
<1>2. Copies(d)' = Copies(d) /\ row'[d] = row[d]
  BY DEF Crash, stored, Copies
<1>3. Lost' = Lost + Cardinality(Pass)
  <2>1. crashes \in Nat /\ failures \in Nat
    BY <1>1 DEF Shape, RowsTyped
  <2>2. crashes' = crashes + 1 /\ failures' = failures
    BY DEF Crash
  <2> QED
    BY <2>1, <2>2, LostIsNat DEF Lost
<1>4. MaySend(d)' = {} /\ HasSent(d)' = {}
  BY DEF MaySend, HasSent, Crash
<1>5. Cardinality(MaySend(d)') = 0 /\ Cardinality(HasSent(d)') = 0
  BY <1>4, FS_EmptySet
<1>6. /\ Lost \in Nat /\ Cardinality(Pass) \in Nat /\ Copies(d) \in Nat
      /\ Cardinality(MaySend(d)) \in Nat /\ Cardinality(HasSent(d)) \in Nat
      /\ Cardinality(MaySend(d)) + Cardinality(HasSent(d)) <= Cardinality(Pass)
  BY <1>1, PassesCounted, CopiesCounted
<1> QED
  BY <1>2, <1>3, <1>5, <1>6 DEF BudgetInv, WithinBudget

(* The other steps send nothing and write no outcome.                      *)
LEMMA BudgetInductive ==
  ASSUME IsFiniteSet(Pass), "ghost" \notin Faults
  PROVE  BudgetInv /\ [Next]_vars => BudgetInv'
<1> SUFFICES ASSUME BudgetInv, [Next]_vars PROVE BudgetInv'
  OBVIOUS
<1>0. Shape /\ Shape'
  BY ShapeInductive DEF BudgetInv
<1>1. Lost \in Nat /\ crashes \in Nat /\ failures \in Nat
  BY <1>0, PassesCounted DEF Shape, RowsTyped
<1>2. ASSUME UNCHANGED <<row, inbox>>, Lost' >= Lost,
             \A d \in Delivery :
               /\ row[d].channel = Unresolved \/ MaySend(d)' \subseteq MaySend(d)
               /\ \/ HasSent(d) \subseteq HasSent(d)'
                  \/ Lost' > Lost /\ \E p \in Pass : HasSent(d) \subseteq HasSent(d)' \union {p}
      PROVE  BudgetInv'
  <2>1. \A d : Copies(d)' = Copies(d) /\ row'[d] = row[d]
    BY <1>2 DEF Copies
  <2>2. \A d \in Delivery : WithinBudget(d)'
    BY <1>0, <1>2, <2>1, BudgetKept
  <2> QED
    BY <1>0, <2>2 DEF BudgetInv
<1>3. UNCHANGED <<crashes, failures>> => Lost' >= Lost
  BY <1>1 DEF Lost
<1>4. UNCHANGED crashes /\ failures' = failures + 1 => Lost' > Lost /\ Lost' >= Lost
  <2>1. Cardinality(Pass) * crashes + (failures + 1) = Lost + 1
    BY <1>1, LostIsNat DEF Lost
  <2>2. UNCHANGED crashes /\ failures' = failures + 1 => Lost' = Lost + 1
    BY <2>1 DEF Lost
  <2> QED
    BY <1>1, <2>2
<1>5. ASSUME NEW p \in Pass, Drain(p) \/ Advance(p) PROVE BudgetInv'
  <2>1. CASE Drain(p)
    <3>1. PICK B \in SUBSET Pending : batch' = [batch EXCEPT ![p] = B]
      BY <2>1 DEF Drain
    <3>2. at[p] = "off" /\ at' = [at EXCEPT ![p] = "next"]
          /\ UNCHANGED <<row, inbox, held, current, channel, crashes, failures>>
      BY <2>1 DEF Drain, stored, world
    <3>3. \A d \in Delivery : row[d].channel # Unresolved => d \notin B
      BY DEF Pending
    <3>4. \A d \in Delivery : row[d].channel # Unresolved => MaySend(d)' \subseteq MaySend(d)
      BY <1>0, <3>1, <3>2, <3>3 DEF MaySend, Shape, PassesTyped
    <3>5. \A d \in Delivery : HasSent(d) \subseteq HasSent(d)'
      BY <1>0, <3>2 DEF HasSent, Shape, PassesTyped
    <3> QED
      BY <1>2, <1>3, <3>2, <3>4, <3>5
  <2>2. CASE Decide(p)
    <3>1. at[p] = "next" /\ UNCHANGED <<row, inbox, crashes, failures>>
      BY <1>0, <2>2, DecideEffect DEF stored, world
    <3>2. \A q \in Pass : q # p =>
            /\ at'[q] = at[q] /\ batch'[q] = batch[q] /\ held'[q] = held[q]
            /\ current'[q] = current[q] /\ channel'[q] = channel[q]
      BY <1>0, <2>2, DecideEffect DEF Shape, PassesTyped
    <3>3. /\ batch'[p] \subseteq batch[p]
          /\ held'[p] \subseteq held[p] \union batch[p]
          /\ at'[p] = "send" => current'[p] \subseteq batch[p]
      BY <1>0, <2>2, DecideEffect DEF Shape, PassesTyped
    <3>4. \A d \in Delivery : MaySend(d)' \subseteq MaySend(d) /\ HasSent(d) \subseteq HasSent(d)'
      BY <3>1, <3>2, <3>3 DEF MaySend, HasSent
    <3> QED
      BY <1>2, <1>3, <3>1, <3>4
  <2>3. CASE TakeBucket(p)
    <3>1. PICK D \in SUBSET held[p] :
            /\ held' = [held EXCEPT ![p] = @ \ D]
            /\ \/ /\ current' = [current EXCEPT ![p] = D]
                  /\ channel' = [channel EXCEPT ![p] = "digest"]
                  /\ at' = [at EXCEPT ![p] = "send"]
               \/ UNCHANGED <<at, current, channel>>
      <4>1. PICK s \in Sub :
              LET D == {d \in held[p] : d[2] = s}
              IN  /\ held' = [held EXCEPT ![p] = @ \ D]
                  /\ \/ /\ current' = [current EXCEPT ![p] = D]
                        /\ channel' = [channel EXCEPT ![p] = "digest"]
                        /\ at' = [at EXCEPT ![p] = "send"]
                     \/ UNCHANGED <<at, current, channel>>
        BY <2>3 DEF TakeBucket
      <4> WITNESS {d \in held[p] : d[2] = s} \in SUBSET held[p]
      <4> QED
        BY <4>1
    <3>2. at[p] = "next" /\ UNCHANGED <<row, inbox, batch, crashes, failures>>
      BY <2>3 DEF TakeBucket, stored, world
    <3>3. \A q \in Pass : q # p =>
            /\ at'[q] = at[q] /\ held'[q] = held[q]
            /\ current'[q] = current[q] /\ channel'[q] = channel[q]
      BY <1>0, <3>1 DEF Shape, PassesTyped
    <3>4. /\ held'[p] \subseteq held[p]
          /\ at'[p] = "send" => current'[p] \subseteq held[p]
      BY <1>0, <3>1, <3>2 DEF Shape, PassesTyped
    <3>5. \A d \in Delivery : MaySend(d)' \subseteq MaySend(d) /\ HasSent(d) \subseteq HasSent(d)'
      BY <3>2, <3>3, <3>4 DEF MaySend, HasSent
    <3> QED
      BY <1>2, <1>3, <3>2, <3>5
  <2>4. CASE Send(p)
    BY <1>0, <2>4, BudgetSend
  <2>5. CASE Block(p)
    <3>1. /\ at[p] = "block" /\ at' = [at EXCEPT ![p] = "stamp"]
          /\ UNCHANGED <<row, inbox, batch, held, current, channel, crashes>>
          /\ failures' = failures \/ failures' = failures + 1
      BY <2>5 DEF Block, QueryFails
    <3>2. \A d \in Delivery : MaySend(d)' \subseteq MaySend(d) /\ HasSent(d) \subseteq HasSent(d)'
      BY <1>0, <3>1 DEF MaySend, HasSent, Shape, PassesTyped
    <3> QED
      BY <1>2, <1>3, <1>4, <3>1, <3>2
  <2>6. CASE Stamp(p)
    BY <1>0, <2>6, BudgetStamp
  <2>7. CASE CountFails(p)
    <3>1. /\ at[p] = "stamp" /\ channel[p] = "attempt" /\ Done(p, Oldest(current[p]))
          /\ UNCHANGED <<row, inbox, batch, held, crashes>> /\ failures' = failures + 1
      BY <2>7 DEF CountFails, QueryFails, stored
    <3>2. current[p] \in SUBSET Delivery /\ current[p] # {}
      BY <1>0, <3>1 DEF Shape, PassesTyped, Working
    <3>3. \A d \in Delivery : MaySend(d)' \subseteq MaySend(d) /\ HasSent(d) \subseteq HasSent(d)'
      BY <1>0, <3>1, <3>2, OldestIsOne, DoneCounts
    <3> QED
      BY <1>2, <1>4, <3>1, <3>3
  <2>8. CASE MarkDigest(p)
    <3>1. /\ at[p] = "mark" /\ at' = [at EXCEPT ![p] = "next"]
          /\ current' = [current EXCEPT ![p] = {}]
          /\ UNCHANGED <<row, inbox, batch, held, channel, crashes>>
          /\ failures' = failures \/ failures' = failures + 1
      BY <2>8 DEF MarkDigest, QueryFails
    <3>2. \A d \in Delivery : MaySend(d)' \subseteq MaySend(d) /\ HasSent(d) \subseteq HasSent(d)'
      BY <1>0, <3>1 DEF MaySend, HasSent, Shape, PassesTyped
    <3> QED
      BY <1>2, <1>3, <1>4, <3>1, <3>2
  <2>9. CASE EndPass(p) \/ PassThrows(p)
    <3>1. /\ Idle(p) /\ UNCHANGED <<row, inbox, crashes>>
          /\ \/ failures' = failures /\ at[p] = "next"
             \/ failures' = failures + 1
      BY <2>9 DEF EndPass, PassThrows, QueryFails, stored, world
    <3>2. \A q \in Pass : q # p =>
            /\ at'[q] = at[q] /\ batch'[q] = batch[q] /\ held'[q] = held[q]
            /\ current'[q] = current[q] /\ channel'[q] = channel[q]
      BY <1>0, <3>1 DEF Idle, Shape, PassesTyped
    <3>3. batch'[p] = {} /\ held'[p] = {} /\ current'[p] = {}
      BY <1>0, <3>1 DEF Idle, Shape, PassesTyped
    <3>4. \A d \in Delivery :
            /\ MaySend(d)' \subseteq MaySend(d) /\ HasSent(d) \subseteq HasSent(d)' \union {p}
            /\ at[p] = "next" => HasSent(d) \subseteq HasSent(d)'
      BY <3>2, <3>3 DEF MaySend, HasSent
    <3> QED
      BY <1>2, <1>3, <1>4, <3>1, <3>4
  <2> QED
    BY <1>5, <2>1, <2>2, <2>3, <2>4, <2>5, <2>6, <2>7, <2>8, <2>9 DEF Advance
<1>6. ASSUME UNCHANGED <<row, inbox, passes, crashes, failures>> PROVE BudgetInv'
  <2>1. \A d : MaySend(d)' = MaySend(d) /\ HasSent(d)' = HasSent(d)
    BY <1>6 DEF MaySend, HasSent, passes
  <2> QED
    BY <1>2, <1>3, <1>6, <2>1
<1>7. ASSUME NEW q \in Position, Cross(q) \/ NewSnapshot(q) PROVE BudgetInv'
  BY <1>6, <1>7 DEF Cross, NewSnapshot, world
<1>8. ASSUME NEW s \in Sub, SaveSettings(s) \/ Relink(s) PROVE BudgetInv'
  BY <1>6, <1>8 DEF SaveSettings, Relink, world
<1>9. CASE Elapse \/ UNCHANGED vars
  BY <1>6, <1>9 DEF Elapse, vars, stored, world
<1> QED
  BY <1>5, <1>7, <1>8, <1>9, BudgetCrash DEF Next

(* Unless Telegram takes a message and the call fails all the same, a      *)
(* transition reaches a reader at most once per pass that may overlap and  *)
(* per life of the worker, and once more per query that fails; how often   *)
(* Telegram refuses it, and what settings do meanwhile, does not matter.   *)
THEOREM SendsAreBounded ==
  ASSUME IsFiniteSet(Pass), "ghost" \notin Faults
  PROVE  Spec => []SendsBounded
<1>1. BudgetInv => SendsBounded
  <2> SUFFICES ASSUME BudgetInv, NEW d \in Delivery
               PROVE  Copies(d) <= Cardinality(Pass) * (crashes + 1) + failures
    BY DEF SendsBounded
  <2>1. Shape /\ WithinBudget(d)
    BY DEF BudgetInv
  <2>2. crashes \in Nat /\ failures \in Nat
    BY <2>1 DEF Shape, RowsTyped
  <2>3. Cardinality(Pass) * (crashes + 1) + failures = Lost + Cardinality(Pass)
    BY <2>2, LostIsNat DEF Lost
  <2>4. /\ Lost \in Nat /\ Cardinality(Pass) \in Nat /\ Copies(d) \in Nat
        /\ Cardinality(MaySend(d)) \in Nat /\ Cardinality(HasSent(d)) \in Nat
        /\ Cardinality(MaySend(d)) + Cardinality(HasSent(d)) <= Cardinality(Pass)
    BY <2>1, PassesCounted, CopiesCounted
  <2> QED
    BY <2>1, <2>3, <2>4 DEF WithinBudget
<1>2. Init => BudgetInv
  BY BudgetInitially
<1>3. BudgetInv /\ [Next]_vars => BudgetInv'
  BY BudgetInductive
<1> QED
  BY <1>1, <1>2, <1>3, PTL DEF Spec

-----------------------------------------------------------------------------
(* The inductive invariant of SameSeverityOnce.  Within a pass, and from   *)
(* one pass to the next, nothing is decided before an older critical alert *)
(* of the same reader: so an escalation is one of what was sent before it, *)
(* and what is out of turn is held back by the cooldown.                   *)

(* What a pass works on are rows of the log; the others are undecided.     *)
InLog ==
  /\ \A p \in Pass : \A d \in batch[p] \union held[p] \union current[p] : d[1] \in DOMAIN log
  /\ \A d \in Delivery : d[1] \notin DOMAIN log => row[d].channel = Unresolved

(* Nothing is refused, so that no attempt is counted before the last one.  *)
NotRefused ==
  /\ \A p \in Pass : channel[p] # "attempt"
  /\ \A d \in Delivery : row[d].channel = Unresolved => row[d].attempts < MaxAttempts

InOrder ==
  /\ \A i \in DOMAIN log : log[i].at <= now
  /\ \A i, j \in DOMAIN log : i < j => log[i].at <= log[j].at

SettingsKnown ==
  /\ settings \in [Sub -> Setting]
  /\ \A p \in Pass : at[p] # "off" => snap[p].settings \in [Sub -> Setting]

Live(i, s)  == row[<<i, s>>].channel = "telegram"
Owed(i, s)  == row[<<i, s>>].channel = Unresolved
Escal(i, j) == log[i].to = "approaching" /\ log[j].to = "outside"

(* i is far enough before j.                                               *)
Gap(i, j) == \E w \in Setting : log[j].at - log[i].at >= EffectiveCooldown(w, IsCritical(log[j]))

(* i and j may both be sent live.                                          *)
Compatible(i, j) == i < j /\ ~Escal(i, j) => Gap(i, j)

(* Two alerts about one position.                                          *)
Rivals(i, j) == log[i].pos = log[j].pos /\ log[i].to # "within" /\ log[j].to # "within"

SentInTurn ==
  \A s \in Sub : \A i, j \in DOMAIN log : j < i /\ Critical(j) /\ Owed(j, s) => ~Live(i, s)

DrainedInTurn ==
  \A p \in Pass : \A d \in batch[p] : \A j \in DOMAIN log :
    j < d[1] /\ Critical(j) /\ Owed(j, d[2]) => <<j, d[2]>> \in batch[p] \union current[p]

(* What is being sent live goes together with what has been sent.          *)
Cleared ==
  \A p \in Pass : \A d \in current[p] :
    /\ at[p] = "mark" => row[d].channel # Unresolved
    /\ at[p] \in {"send", "stamp"} /\ channel[p] = "telegram" =>
         /\ current[p] = {d}
         /\ \A j \in DOMAIN log : j < d[1] /\ Critical(j) => ~Owed(j, d[2])
         /\ \A i \in DOMAIN log :
              Live(i, d[2]) /\ Rivals(i, d[1]) => Compatible(i, d[1]) /\ Compatible(d[1], i)

Spaced ==
  \A s \in Sub : \A i, j \in DOMAIN log :
    Live(i, s) /\ Live(j, s) /\ Rivals(i, j) => Compatible(i, j)

TurnInv == OutcomeInv /\ InLog /\ NotRefused /\ InOrder /\ SettingsKnown
             /\ SentInTurn /\ DrainedInTurn /\ Cleared

SpacedInv == TurnInv /\ Spaced

(* When nothing is sent out of turn: passes do not overlap, Telegram       *)
(* refuses no message and no call for one that it takes fails.             *)
Undisturbed ==
  /\ \A p, q \in Pass : p = q
  /\ "refuse" \notin Faults /\ "ghost" \notin Faults
  /\ \A w \in Setting : w.cooldown \in Nat

(* Some of the first n numbers have a greatest one.                        *)
LEMMA LatestOf ==
  ASSUME NEW n \in Nat, NEW U \in SUBSET (1 .. n), U # {}
  PROVE  \E x \in U : \A y \in U : y <= x
<1> DEFINE V == {n - x : x \in U}
<1>1. V \in SUBSET Nat
  OBVIOUS
<1>2. V # {}
  <2> PICK x \in U : TRUE
    OBVIOUS
  <2> n - x \in V
    OBVIOUS
  <2> QED
    OBVIOUS
<1> HIDE DEF V
<1>3. PICK v \in V : \A y \in V : v <= y
  BY <1>1, <1>2, LeastOf
<1>4. PICK x \in U : v = n - x
  BY DEF V
<1>5. \A y \in U : n - x <= n - y
  BY <1>3, <1>4 DEF V
<1> QED
  BY <1>5

(* The cooldown of a critical alert is the shorter one.                    *)
LEMMA Cooldowns ==
  ASSUME NEW w, w.cooldown \in Nat, NEW c \in BOOLEAN
  PROVE  /\ EffectiveCooldown(w, c) \in Nat
         /\ EffectiveCooldown(w, TRUE) <= EffectiveCooldown(w, c)
         /\ EffectiveCooldown(w, FALSE) = 0 => EffectiveCooldown(w, c) = 0
BY PolicyConstants DEF EffectiveCooldown

(* The rows of the log are typed and owed to every subscriber.             *)
LEMMA RowsOfLog ==
  ASSUME Shape, NEW i \in DOMAIN log
  PROVE  /\ i \in Nat /\ i <= Len(log) /\ log[i].at \in Int
         /\ log[i].to \in {"within", "approaching", "outside"}
         /\ \A s \in Sub : <<i, s>> \in Delivery
<1>1. i \in 1 .. MaxRows /\ i <= Len(log)
  <2>1. i \in 1 .. Len(log) /\ Len(log) \in Nat /\ Len(log) <= MaxRows
    BY DEF Shape, RowsTyped, LogTyped
  <2> QED
    BY <2>1, DispatchConstants
<1>2. \A s \in Sub : <<i, s>> \in Delivery
  BY <1>1 DEF Delivery
<1>3. i \in Nat
  BY <1>1, DispatchConstants
<1>4. log[i].at \in Int /\ log[i].to \in {"within", "approaching", "outside"}
  <2> DEFINE R == [pos : Position, to : {"within", "approaching", "outside"},
                   band : Bands, at : Int]
  <2>1. log \in Seq(R)
    BY DEF Shape, RowsTyped, LogTyped
  <2> HIDE DEF R
  <2>2. log[i] \in R
    BY <2>1
  <2> QED
    BY <2>2 DEF R
<1> QED
  BY <1>1, <1>2, <1>3, <1>4

(* Prior is the newest alert about the position that was sent live.        *)
LEMMA PriorIsNewest ==
  ASSUME Shape, NEW d \in Delivery, log[d[1]].to # "within",
         NEW i \in DOMAIN log, Live(i, d[2]), Rivals(i, d[1])
  PROVE  \E k \in DOMAIN log :
           /\ Live(k, d[2]) /\ Rivals(k, d[1])
           /\ \A m \in DOMAIN log : Live(m, d[2]) /\ Rivals(m, d[1]) => m <= k
           /\ Prior(d) = [to |-> log[k].to, at |-> log[k].at]
<1> DEFINE S == {k \in DOMAIN log : /\ row[<<k, d[2]>>].channel = "telegram"
                                    /\ log[k].pos = log[d[1]].pos
                                    /\ log[k].to = "within" => log[d[1]].to = "within"}
<1>1. \A k \in DOMAIN log : k \in S <=> Live(k, d[2]) /\ Rivals(k, d[1])
  BY DEF Live, Rivals
<1>2. i \in S
  BY <1>1
<1>3. S \in SUBSET (1 .. Len(log)) /\ Len(log) \in Nat
  BY DEF Shape, RowsTyped, LogTyped
<1>4. Prior(d) = LET k == CHOOSE j \in S : \A m \in S : m <= j
                 IN  [to |-> log[k].to, at |-> log[k].at]
  BY <1>2 DEF Prior
<1> HIDE DEF S
<1>5. \E k \in S : \A m \in S : m <= k
  BY <1>2, <1>3, LatestOf
<1> DEFINE k == CHOOSE j \in S : \A m \in S : m <= j
<1>6. k \in S /\ \A m \in S : m <= k
  BY <1>5
<1>7. Prior(d) = [to |-> log[k].to, at |-> log[k].at]
  BY <1>4
<1> HIDE DEF k
<1>8. k \in DOMAIN log
  BY <1>6 DEF S
<1> QED
  BY <1>1, <1>6, <1>7, <1>8

(* An alert that decideSend sends goes together with what has been sent.   *)
LEMMA SendsAreSpaced ==
  ASSUME Undisturbed, SpacedInv, NEW p \in Pass, at[p] # "off", NEW d \in batch[p],
         VerdictOf(p, d) = "send",
         NEW i \in DOMAIN log, Live(i, d[2]), Rivals(i, d[1])
  PROVE  Compatible(i, d[1]) /\ Compatible(d[1], i)
<1> DEFINE j == d[1]
           s == d[2]
           w == snap[p].settings[s]
           c == IsCritical(log[j])
<1>0. Shape
  BY DEF SpacedInv, TurnInv, OutcomeInv
<1>1. d \in Delivery /\ s \in Sub /\ j \in DOMAIN log /\ d = <<j, s>>
  BY <1>0 DEF SpacedInv, TurnInv, InLog, Shape, PassesTyped, Delivery
<1>2. w \in Setting /\ w.cooldown \in Nat /\ c \in BOOLEAN
  BY <1>1 DEF SpacedInv, TurnInv, SettingsKnown, Undisturbed, IsCritical
<1>3. Owed(j, s) /\ i # j
  BY <1>1 DEF SpacedInv, TurnInv, OutcomeInv, Open, InHand, Owed, Live, Unresolved
<1>4. log[j].to = "approaching" \/ log[j].to = "outside"
  BY <1>0, <1>1, RowsOfLog DEF Rivals
<1>5. PICK k \in DOMAIN log :
        /\ Live(k, s) /\ Rivals(k, j)
        /\ \A m \in DOMAIN log : Live(m, s) /\ Rivals(m, j) => m <= k
        /\ Prior(d) = [to |-> log[k].to, at |-> log[k].at]
  BY <1>0, <1>1, <1>4, PriorIsNewest
<1>6. /\ log[i].at \in Int /\ log[j].at \in Int /\ log[k].at \in Int
      /\ i \in Nat /\ j \in Nat /\ k \in Nat /\ k # j
      /\ \A m, n \in DOMAIN log : m <= n => log[m].at <= log[n].at
  BY <1>0, <1>1, <1>3, <1>5, RowsOfLog
     DEF SpacedInv, TurnInv, InOrder, Live, Owed, Unresolved
<1>7. /\ log[i].to \in {"approaching", "outside"} /\ log[k].to \in {"approaching", "outside"}
  BY <1>0, <1>5, RowsOfLog DEF Rivals
<1>8. i <= k
  BY <1>5
<1>9. DecideAlert(log[j], snap[p].facts[log[j].pos], w, Prior(d), snap[p].time) = "send"
  BY <1>4 DEF VerdictOf, DecideSend
<1>10. ~Cooling(log[j], w, Prior(d))
  BY <1>9 DEF DecideAlert
<1>11. Prior(d) # NoPrior /\ Prior(d).to = log[k].to /\ Prior(d).at = log[k].at
  BY <1>5, <1>7 DEF NoPrior
<1>12. \/ log[j].to = "outside" /\ log[k].to = "approaching"
       \/ ~(log[j].at - log[k].at < EffectiveCooldown(w, c))
  BY <1>10, <1>11 DEF Cooling, Escalates
<1>13. Critical(j) => i < j /\ k < j
  <2>1. ASSUME NEW m \in {i, k}, Critical(j) PROVE m < j
    BY <1>1, <1>3, <1>5, <1>6, <2>1 DEF SpacedInv, TurnInv, SentInTurn
  <2> QED
    BY <2>1
<1> HIDE DEF j, s, w, c
<1>14. CASE ~(log[j].at - log[k].at < EffectiveCooldown(w, c))
  <2>1. EffectiveCooldown(w, c) \in Nat
    BY <1>2, Cooldowns
  <2>2. log[j].at - log[i].at >= EffectiveCooldown(w, c)
    BY <1>1, <1>6, <1>8, <1>14, <2>1
  <2>3. Gap(i, j)
    BY <1>2, <2>2 DEF Gap, c
  <2>4. ASSUME j < i PROVE Gap(j, i)
    <3>1. ~Critical(j)
      BY <1>6, <1>13, <2>4
    <3>2. c = FALSE
      BY <1>2, <1>4, <3>1 DEF Critical, c
    <3>3. log[j].at <= log[k].at
      BY <1>1, <1>5, <1>6, <1>8, <2>4
    <3>4. EffectiveCooldown(w, FALSE) = 0
      <4> DEFINE e == EffectiveCooldown(w, c)
      <4>1. e \in Nat /\ ~(log[j].at - log[k].at < e) /\ log[j].at - log[k].at <= 0
        BY <1>6, <1>14, <2>1, <3>3
      <4> HIDE DEF e
      <4>2. e = 0
        BY <1>6, <4>1
      <4> QED
        BY <3>2, <4>2 DEF e
    <3>5. IsCritical(log[i]) \in BOOLEAN
      BY DEF IsCritical
    <3>6. EffectiveCooldown(w, IsCritical(log[i])) = 0
      BY <1>2, <3>4, <3>5, Cooldowns
    <3>7. log[i].at - log[j].at >= 0
      BY <1>1, <1>6, <2>4
    <3> QED
      BY <1>2, <3>6, <3>7 DEF Gap
  <2> QED
    BY <2>3, <2>4 DEF Compatible, j
<1>15. CASE log[j].to = "outside" /\ log[k].to = "approaching"
  <2>1. Critical(j) /\ c
    BY <1>15 DEF Critical, IsCritical, c
  <2>2. i < j /\ k < j
    BY <1>13, <2>1
  <2>3. ASSUME ~Escal(i, j) PROVE Gap(i, j)
    <3>1. log[i].to = "outside"
      BY <1>7, <1>15, <2>3 DEF Escal
    <3>2. i < k
      <4>1. i # k
        BY <1>15, <3>1
      <4> QED
        BY <1>6, <1>8, <4>1
    <3>3. Rivals(i, k) /\ ~Escal(i, k)
      BY <1>5, <1>15, <3>1 DEF Rivals, Escal, j
    <3>4. Gap(i, k)
      BY <1>1, <1>5, <3>2, <3>3 DEF SpacedInv, Spaced, Compatible, s
    <3>5. PICK v \in Setting : log[k].at - log[i].at >= EffectiveCooldown(v, IsCritical(log[k]))
      BY <3>4 DEF Gap
    <3>6. v.cooldown \in Nat /\ IsCritical(log[k]) \in BOOLEAN
      BY DEF Undisturbed, IsCritical
    <3>7. /\ EffectiveCooldown(v, IsCritical(log[k])) \in Nat /\ EffectiveCooldown(v, TRUE) \in Nat
          /\ EffectiveCooldown(v, TRUE) <= EffectiveCooldown(v, IsCritical(log[k]))
      BY <3>6, Cooldowns
    <3>8. log[k].at <= log[j].at
      BY <1>1, <1>6, <2>2
    <3>9. log[j].at - log[i].at >= EffectiveCooldown(v, TRUE)
      <4> DEFINE e == EffectiveCooldown(v, IsCritical(log[k]))
                 f == EffectiveCooldown(v, TRUE)
      <4>1. e \in Nat /\ f \in Nat /\ f <= e /\ log[k].at - log[i].at >= e
        BY <3>5, <3>7
      <4> HIDE DEF e, f
      <4>2. log[j].at - log[i].at >= f
        BY <1>6, <3>8, <4>1
      <4> QED
        BY <4>2 DEF f
    <3>10. IsCritical(log[j]) = TRUE
      BY <2>1 DEF c, IsCritical
    <3> QED
      BY <3>9, <3>10 DEF Gap
  <2>4. ~(j < i)
    BY <1>6, <2>2
  <2> QED
    BY <2>3, <2>4 DEF Compatible, j
<1> QED
  BY <1>12, <1>14, <1>15

(* At first nothing is sent.                                               *)
LEMMA SpacedInitially == Init => SpacedInv
<1> SUFFICES ASSUME Init PROVE SpacedInv
  OBVIOUS
<1>1. MaxAttempts \in Nat /\ 0 < MaxAttempts
  BY DispatchConstants
<1>2. DOMAIN log = {}
  BY DEF Init
<1>3. NotRefused
  BY <1>1 DEF Init, NotRefused, Unresolved
<1>4. InLog /\ InOrder /\ SettingsKnown
  BY <1>2 DEF Init, InLog, InOrder, SettingsKnown
<1>5. SentInTurn /\ DrainedInTurn /\ Cleared /\ Spaced
  BY <1>2 DEF Init, SentInTurn, DrainedInTurn, Cleared, Spaced
<1> QED
  BY <1>3, <1>4, <1>5, OutcomeInitially DEF SpacedInv, TurnInv

(* Steps that write neither the log nor a row.                             *)
LEMMA SpacedKept ==
  ASSUME SpacedInv, OutcomeInv', UNCHANGED <<log, row>>, now' = now \/ now' = now + 1,
         SettingsKnown', \A p \in Pass : channel'[p] # "attempt",
         \A p \in Pass : \A d \in batch'[p] \union held'[p] \union current'[p] :
           d[1] \in DOMAIN log,
         \A p \in Pass : \A d \in batch'[p] : \A j \in DOMAIN log :
           j < d[1] /\ Critical(j) /\ Owed(j, d[2]) => <<j, d[2]>> \in batch'[p] \union current'[p],
         \A p \in Pass : \A d \in current'[p] :
           /\ at'[p] = "mark" => row[d].channel # Unresolved
           /\ at'[p] \in {"send", "stamp"} /\ channel'[p] = "telegram" =>
                /\ current'[p] = {d}
                /\ \A j \in DOMAIN log : j < d[1] /\ Critical(j) => ~Owed(j, d[2])
                /\ \A i \in DOMAIN log :
                     Live(i, d[2]) /\ Rivals(i, d[1]) => Compatible(i, d[1]) /\ Compatible(d[1], i)
  PROVE  SpacedInv'
<1>0. Shape
  BY DEF SpacedInv, TurnInv, OutcomeInv
<1>1. /\ \A i : Critical(i)' <=> Critical(i)
      /\ \A i, s : (Live(i, s)' <=> Live(i, s)) /\ (Owed(i, s)' <=> Owed(i, s))
      /\ \A i, j : (Rivals(i, j)' <=> Rivals(i, j)) /\ (Compatible(i, j)' <=> Compatible(i, j))
  BY DEF Critical, Live, Owed, Rivals, Compatible, Escal, Gap
<1>2. InLog' /\ NotRefused'
  BY DEF SpacedInv, TurnInv, InLog, NotRefused
<1>3. InOrder'
  <2>1. now \in Int /\ \A i \in DOMAIN log : log[i].at \in Int
    BY <1>0, RowsOfLog DEF Shape, RowsTyped
  <2> QED
    BY <2>1 DEF SpacedInv, TurnInv, InOrder
<1>4. SentInTurn' /\ Spaced'
  BY <1>1 DEF SpacedInv, TurnInv, SentInTurn, Spaced
<1>5. DrainedInTurn'
  BY <1>1 DEF DrainedInTurn
<1>6. Cleared'
  BY <1>1 DEF Cleared
<1> QED
  BY <1>2, <1>3, <1>4, <1>5, <1>6 DEF SpacedInv, TurnInv

(* Steps that leave the log, the rows and the passes alone.                *)
LEMMA SpacedUntouched ==
  ASSUME SpacedInv, OutcomeInv', UNCHANGED <<log, row, passes>>, now' = now \/ now' = now + 1,
         settings' \in [Sub -> Setting]
  PROVE  SpacedInv'
<1>1. SettingsKnown'
  BY DEF SpacedInv, TurnInv, SettingsKnown, passes
<1> QED
  BY <1>1, SpacedKept DEF SpacedInv, TurnInv, InLog, NotRefused, DrainedInTurn, Cleared, passes

(* A pass that ends, or all of them when the worker dies.                  *)
LEMMA SpacedEnds ==
  ASSUME SpacedInv, OutcomeInv', UNCHANGED <<log, row, settings, now>>,
         \A p \in Pass :
           \/ /\ at'[p] = at[p] /\ batch'[p] = batch[p] /\ held'[p] = held[p]
              /\ current'[p] = current[p] /\ channel'[p] = channel[p] /\ snap'[p] = snap[p]
           \/ /\ at'[p] = "off" /\ batch'[p] = {} /\ held'[p] = {} /\ current'[p] = {}
              /\ channel'[p] = Unresolved
  PROVE  SpacedInv'
<1>1. SettingsKnown'
  BY DEF SpacedInv, TurnInv, SettingsKnown
<1>2. \A p \in Pass : channel'[p] # "attempt"
  BY DEF SpacedInv, TurnInv, NotRefused, Unresolved
<1> QED
  BY <1>1, <1>2, SpacedKept DEF SpacedInv, TurnInv, InLog, DrainedInTurn, Cleared

(* A new transition is the newest, and nobody has decided it.              *)
LEMMA SpacedCross ==
  ASSUME SpacedInv, OutcomeInv', NEW q \in Position, Cross(q)
  PROVE  SpacedInv'
<1>0. Shape
  BY DEF SpacedInv, TurnInv, OutcomeInv
<1>1. UNCHANGED <<row, settings, at, snap, batch, held, current, channel, now>>
  BY DEF Cross, passes, world
<1>2. PICK new : log' = Append(log, new) /\ new.at = now
  BY DEF Cross
<1>3. /\ Len(log) \in Nat /\ DOMAIN log = 1 .. Len(log) /\ now \in Int
      /\ DOMAIN log' = 1 .. Len(log) + 1 /\ Len(log) + 1 <= MaxRows
      /\ \A i \in DOMAIN log : log'[i] = log[i]
      /\ log'[Len(log) + 1].at = now
  <2>1. Len(log) \in Nat /\ Len(log) < MaxRows /\ MaxRows \in Nat /\ now \in Int
    BY <1>0, DispatchConstants DEF Cross, Shape, RowsTyped, LogTyped
  <2> DEFINE R == [pos : Position, to : {"within", "approaching", "outside"},
                   band : Bands, at : Int]
  <2>2. log \in Seq(R)
    BY <1>0 DEF Shape, RowsTyped, LogTyped
  <2> HIDE DEF R
  <2> QED
    BY <1>2, <2>1, <2>2
<1> DEFINE n == Len(log) + 1
<1>4. DOMAIN log' = DOMAIN log \union {n} /\ n \notin DOMAIN log
      /\ \A i \in DOMAIN log : i < n
  BY <1>3
<1>5. \A s \in Sub : <<n, s>> \in Delivery
  BY <1>3, DispatchConstants DEF Delivery
<1> HIDE DEF n
<1>6. \A s \in Sub : row[<<n, s>>].channel = Unresolved
  <2> SUFFICES ASSUME NEW s \in Sub PROVE row[<<n, s>>].channel = Unresolved
    OBVIOUS
  <2>1. <<n, s>> \in Delivery /\ <<n, s>>[1] = n
    BY <1>5
  <2> DEFINE d == <<n, s>>
  <2> HIDE DEF d
  <2>2. d \in Delivery /\ d[1] \notin DOMAIN log
    BY <1>4, <2>1 DEF d
  <2>3. row[d].channel = Unresolved
    BY <2>2 DEF SpacedInv, TurnInv, InLog
  <2> QED
    BY <2>3 DEF d
<1>7. \A s \in Sub : \A i \in DOMAIN log' : Live(i, s)' => i \in DOMAIN log
  BY <1>1, <1>4, <1>6 DEF Live, Unresolved
<1>8. /\ \A i \in DOMAIN log : Critical(i)' <=> Critical(i)
      /\ \A i, s : (Live(i, s)' <=> Live(i, s)) /\ (Owed(i, s)' <=> Owed(i, s))
      /\ \A i, j \in DOMAIN log :
           (Rivals(i, j)' <=> Rivals(i, j)) /\ (Compatible(i, j)' <=> Compatible(i, j))
  BY <1>1, <1>3 DEF Critical, Live, Owed, Rivals, Compatible, Escal, Gap
<1>9. InLog' /\ NotRefused' /\ SettingsKnown'
  BY <1>1, <1>4 DEF SpacedInv, TurnInv, InLog, NotRefused, SettingsKnown
<1>10. InOrder'
  <2>1. \A i \in DOMAIN log' : (i = n /\ log'[i].at = now) \/ (i \in DOMAIN log /\ log'[i].at = log[i].at)
    BY <1>3, <1>4 DEF n
  <2>2. \A i \in DOMAIN log : ~(n < i)
    BY <1>3 DEF n
  <2>3. ~(n < n)
    BY <1>3 DEF n
  <2>4. now <= now
    BY <1>3
  <2> QED
    BY <1>1, <2>1, <2>2, <2>3, <2>4 DEF SpacedInv, TurnInv, InOrder
<1>11. SentInTurn'
  <2> SUFFICES ASSUME NEW s \in Sub, NEW i \in DOMAIN log', NEW j \in DOMAIN log',
                      j < i, Critical(j)', Owed(j, s)', Live(i, s)'
               PROVE  FALSE
    BY DEF SentInTurn
  <2>1. i \in DOMAIN log
    BY <1>7
  <2>2. j \in DOMAIN log
    BY <1>3, <1>4, <2>1 DEF n
  <2> QED
    BY <1>8, <2>1, <2>2 DEF SpacedInv, TurnInv, SentInTurn
<1>12. DrainedInTurn'
  <2> SUFFICES ASSUME NEW p \in Pass, NEW d \in batch'[p], NEW j \in DOMAIN log',
                      j < d[1], Critical(j)', Owed(j, d[2])'
               PROVE  <<j, d[2]>> \in batch'[p] \union current'[p]
    BY DEF DrainedInTurn
  <2>1. d \in batch[p] /\ d[1] \in DOMAIN log
    BY <1>1 DEF SpacedInv, TurnInv, InLog
  <2>2. j \in DOMAIN log
    BY <1>3, <1>4, <2>1 DEF n
  <2> QED
    BY <1>1, <1>8, <2>1, <2>2 DEF SpacedInv, TurnInv, DrainedInTurn
<1>13. Cleared'
  <2> SUFFICES ASSUME NEW p \in Pass, NEW d \in current'[p]
               PROVE  /\ at'[p] = "mark" => row'[d].channel # Unresolved
                      /\ at'[p] \in {"send", "stamp"} /\ channel'[p] = "telegram" =>
                           /\ current'[p] = {d}
                           /\ \A j \in DOMAIN log' : j < d[1] /\ Critical(j)' => ~Owed(j, d[2])'
                           /\ \A i \in DOMAIN log' :
                                Live(i, d[2])' /\ Rivals(i, d[1])' =>
                                  Compatible(i, d[1])' /\ Compatible(d[1], i)'
    BY DEF Cleared
  <2>1. d \in current[p] /\ d[1] \in DOMAIN log /\ d[2] \in Sub
    BY <1>0, <1>1 DEF SpacedInv, TurnInv, InLog, Shape, PassesTyped, Delivery
  <2>2. \A j \in DOMAIN log' : j < d[1] => j \in DOMAIN log
    BY <1>3, <1>4, <2>1 DEF n
  <2>3. \A i \in DOMAIN log' : Live(i, d[2])' => i \in DOMAIN log
    BY <1>7, <2>1
  <2> QED
    BY <1>1, <1>8, <2>1, <2>2, <2>3 DEF SpacedInv, TurnInv, Cleared
<1>14. Spaced'
  BY <1>4, <1>7, <1>8 DEF SpacedInv, Spaced
<1> QED
  BY <1>9, <1>10, <1>11, <1>12, <1>13, <1>14 DEF SpacedInv, TurnInv

(* The drain takes the oldest.                                             *)
LEMMA SpacedDrain ==
  ASSUME Undisturbed, SpacedInv, OutcomeInv', NEW p \in Pass, Drain(p)
  PROVE  SpacedInv'
<1>0. Shape
  BY DEF SpacedInv, TurnInv, OutcomeInv
<1>1. UNCHANGED <<log, row, settings, now, held, current, channel>>
      /\ at' = [at EXCEPT ![p] = "next"] /\ snap' = [snap EXCEPT ![p] = Snapshot]
      /\ at[p] = "off"
  BY DEF Drain, stored, world
<1>2. PICK B \in SUBSET Pending :
        batch' = [batch EXCEPT ![p] = B] /\ \A d \in B : First(d, Pending \ B)
  BY DEF Drain
<1>3. \A q \in Pass : q = p
  BY DEF Undisturbed
<1>4. batch'[p] = B /\ at'[p] = "next" /\ snap'[p].settings = settings
      /\ held[p] = {} /\ current[p] = {}
  BY <1>0, <1>1, <1>2 DEF Snapshot, Shape, PassesTyped, Working
<1>5. SettingsKnown'
  BY <1>1, <1>3, <1>4 DEF SpacedInv, TurnInv, SettingsKnown
<1>6. \A d \in B : d \in Delivery /\ d[1] \in DOMAIN log /\ d[2] \in Sub /\ d[2] \in linked
  BY <1>0, RowsOfLog DEF Pending
<1>7. ASSUME NEW d \in B, NEW j \in DOMAIN log, j < d[1], Owed(j, d[2])
      PROVE  <<j, d[2]>> \in B
  <2>1. <<j, d[2]>> \in Pending
    BY <1>0, <1>6, <1>7, RowsOfLog DEF Pending, Owed, SpacedInv, TurnInv, NotRefused
  <2>2. <<j, d[2]>> \notin Pending \ B
    <3>1. j \in Nat /\ d[1] \in Nat
      BY <1>0, <1>6, RowsOfLog
    <3>2. ~(d[1] <= j)
      BY <1>7, <3>1
    <3> QED
      BY <1>2, <3>2 DEF First
  <2> QED
    BY <2>1, <2>2
<1>8. \A q \in Pass : channel'[q] # "attempt"
  BY <1>1 DEF SpacedInv, TurnInv, NotRefused
<1> QED
  BY <1>1, <1>3, <1>4, <1>5, <1>6, <1>7, <1>8, SpacedKept

(* A critical alert, once looked at, is decided.                           *)
LEMMA CriticalDecided ==
  ASSUME NEW p, NEW d, Critical(d[1])
  PROVE  VerdictOf(p, d) \notin Deferred
BY CriticalBreaksThrough DEF VerdictOf, Critical, Deferred

(* A critical alert that is looked at is decided at once, and what is sent *)
(* goes together with what has been.                                       *)
LEMMA SpacedDecide ==
  ASSUME Undisturbed, SpacedInv, OutcomeInv', NEW p \in Pass, Decide(p)
  PROVE  SpacedInv'
<1>0. Shape
  BY DEF SpacedInv, TurnInv, OutcomeInv
<1>1. UNCHANGED <<log, row, settings, now, snap>> /\ at[p] = "next" /\ current[p] = {}
  BY <1>0, DecideEffect DEF stored, world, Shape, Working
<1>2. PICK d \in batch[p] :
        /\ First(d, batch[p])
        /\ batch' = [batch EXCEPT ![p] = @ \ {d}]
        /\ \/ VerdictOf(p, d) \in Deferred /\ UNCHANGED <<at, held, current, channel>>
           \/ /\ VerdictOf(p, d) \in Deferred
              /\ held' = [held EXCEPT ![p] = @ \union {d}]
              /\ UNCHANGED <<at, current, channel>>
           \/ /\ current' = [current EXCEPT ![p] = {d}] /\ UNCHANGED held
              /\ \/ /\ at' = [at EXCEPT ![p] = "send"]
                    /\ channel' = [channel EXCEPT ![p] = "telegram"]
                    /\ VerdictOf(p, d) = "send"
                 \/ /\ at' = [at EXCEPT ![p] = "stamp"]
                    /\ \E v \in Written \ {"telegram", "digest"} :
                         channel' = [channel EXCEPT ![p] = v]
  BY <1>0, DecideEffect
<1>3. \A q \in Pass : q = p
  BY DEF Undisturbed
<1>4. /\ batch'[p] = batch[p] \ {d}
      /\ \/ at'[p] = "next" /\ current'[p] = {} /\ VerdictOf(p, d) \in Deferred
            /\ channel'[p] = channel[p] /\ held'[p] \subseteq held[p] \union {d}
         \/ /\ current'[p] = {d} /\ held'[p] = held[p]
            /\ \/ at'[p] = "send" /\ channel'[p] = "telegram" /\ VerdictOf(p, d) = "send"
               \/ at'[p] = "stamp" /\ channel'[p] \in Written \ {"telegram", "digest"}
  <2> USE <1>0 DEF Shape, PassesTyped
  <2>1. CASE VerdictOf(p, d) \in Deferred /\ UNCHANGED <<at, current, channel>>
             /\ (held' = held \/ held' = [held EXCEPT ![p] = @ \union {d}])
    BY <1>1, <1>2, <2>1
  <2>2. CASE /\ current' = [current EXCEPT ![p] = {d}] /\ UNCHANGED held
             /\ at' = [at EXCEPT ![p] = "send"]
             /\ channel' = [channel EXCEPT ![p] = "telegram"]
             /\ VerdictOf(p, d) = "send"
    BY <1>1, <1>2, <2>2
  <2>3. CASE /\ current' = [current EXCEPT ![p] = {d}] /\ UNCHANGED held
             /\ at' = [at EXCEPT ![p] = "stamp"]
             /\ \E v \in Written \ {"telegram", "digest"} : channel' = [channel EXCEPT ![p] = v]
    BY <1>1, <1>2, <2>3
  <2> QED
    BY <1>2, <2>1, <2>2, <2>3
<1>5. SettingsKnown'
  BY <1>1, <1>3 DEF SpacedInv, TurnInv, SettingsKnown
<1>6. channel'[p] # "attempt"
  BY <1>4 DEF SpacedInv, TurnInv, NotRefused, Written
<1>7. \A e \in batch[p] \union held[p] : e[1] \in DOMAIN log /\ e \in Delivery
  BY <1>0 DEF SpacedInv, TurnInv, InLog, Shape, PassesTyped
<1>8. ASSUME NEW e \in batch'[p], NEW j \in DOMAIN log, j < e[1], Critical(j), Owed(j, e[2])
      PROVE  <<j, e[2]>> \in batch'[p] \union current'[p]
  <2>1. <<j, e[2]>> \in batch[p]
    BY <1>1, <1>4, <1>8 DEF SpacedInv, TurnInv, DrainedInTurn
  <2>2. CASE <<j, e[2]>> = d
    <3>1. VerdictOf(p, d) \notin Deferred
      BY <1>8, <2>2, CriticalDecided
    <3> QED
      BY <1>4, <2>2, <3>1
  <2> QED
    BY <1>4, <2>1, <2>2
<1>9. ASSUME NEW j \in DOMAIN log, j < d[1], Critical(j) PROVE ~Owed(j, d[2])
  <2>1. Owed(j, d[2]) => <<j, d[2]>> \in batch[p]
    BY <1>1, <1>9 DEF SpacedInv, TurnInv, DrainedInTurn
  <2>2. j \in Nat /\ d[1] \in Nat
    BY <1>0, <1>7, RowsOfLog
  <2>3. ~(d[1] <= j)
    BY <1>9, <2>2
  <2> QED
    BY <1>2, <2>1, <2>3 DEF First
<1>10. ASSUME VerdictOf(p, d) = "send", NEW i \in DOMAIN log, Live(i, d[2]), Rivals(i, d[1])
       PROVE  Compatible(i, d[1]) /\ Compatible(d[1], i)
  BY <1>1, <1>10, SendsAreSpaced
<1>11. \A e \in current'[p] :
         /\ at'[p] # "mark"
         /\ at'[p] \in {"send", "stamp"} /\ channel'[p] = "telegram" =>
              /\ current'[p] = {e}
              /\ \A j \in DOMAIN log : j < e[1] /\ Critical(j) => ~Owed(j, e[2])
              /\ \A i \in DOMAIN log :
                   Live(i, e[2]) /\ Rivals(i, e[1]) => Compatible(i, e[1]) /\ Compatible(e[1], i)
  BY <1>4, <1>9, <1>10
<1>12. \A e \in batch'[p] \union held'[p] \union current'[p] : e[1] \in DOMAIN log
  BY <1>4, <1>7
<1> QED
  BY <1>1, <1>3, <1>5, <1>6, <1>8, <1>11, <1>12, SpacedKept

(* A digest holds no live alert.                                           *)
LEMMA SpacedBucket ==
  ASSUME Undisturbed, SpacedInv, OutcomeInv', NEW p \in Pass, TakeBucket(p)
  PROVE  SpacedInv'
<1>0. Shape
  BY DEF SpacedInv, TurnInv, OutcomeInv
<1>1. /\ UNCHANGED <<log, row, settings, now, snap, batch>>
      /\ at[p] = "next" /\ batch[p] = {} /\ current[p] = {}
  BY <1>0 DEF TakeBucket, stored, world, Shape, Working
<1>2. \A q \in Pass : q = p
  BY DEF Undisturbed
<1>3. PICK D \in SUBSET held[p] :
        /\ held' = [held EXCEPT ![p] = @ \ D]
        /\ \/ /\ current' = [current EXCEPT ![p] = D]
              /\ channel' = [channel EXCEPT ![p] = "digest"]
              /\ at' = [at EXCEPT ![p] = "send"]
           \/ UNCHANGED <<at, current, channel>>
  <2>1. PICK s \in Sub :
          LET D == {d \in held[p] : d[2] = s}
          IN  /\ held' = [held EXCEPT ![p] = @ \ D]
              /\ \/ /\ current' = [current EXCEPT ![p] = D]
                    /\ channel' = [channel EXCEPT ![p] = "digest"]
                    /\ at' = [at EXCEPT ![p] = "send"]
                 \/ UNCHANGED <<at, current, channel>>
    BY DEF TakeBucket
  <2> WITNESS {d \in held[p] : d[2] = s} \in SUBSET held[p]
  <2> QED
    BY <2>1
<1>4. /\ held'[p] \subseteq held[p] /\ current'[p] \subseteq held[p] /\ batch'[p] = {}
      /\ \/ at'[p] = "send" /\ channel'[p] = "digest"
         \/ at'[p] = "next" /\ channel'[p] = channel[p]
  BY <1>0, <1>1, <1>3 DEF Shape, PassesTyped
<1>5. SettingsKnown'
  BY <1>1, <1>2 DEF SpacedInv, TurnInv, SettingsKnown
<1>6. channel'[p] # "attempt"
  BY <1>4 DEF SpacedInv, TurnInv, NotRefused
<1>7. \A e \in batch'[p] \union held'[p] \union current'[p] : e[1] \in DOMAIN log
  BY <1>4 DEF SpacedInv, TurnInv, InLog
<1> QED
  BY <1>1, <1>2, <1>4, <1>5, <1>6, <1>7, SpacedKept

(* A message on its way to a stamp.                                        *)
LEMMA SpacedSend ==
  ASSUME Undisturbed, SpacedInv, OutcomeInv', NEW p \in Pass, Send(p) \/ Block(p)
  PROVE  SpacedInv'
<1>0. Shape
  BY DEF SpacedInv, TurnInv, OutcomeInv
<1>1. UNCHANGED <<log, row, settings, now, snap, batch, held, current>>
  BY DEF Send, Block, stored
<1>2. \A q \in Pass : q = p
  BY DEF Undisturbed
<1>3. /\ at[p] \in {"send", "block"} /\ at'[p] \in {"stamp", "block"}
      /\ \/ channel'[p] = channel[p] /\ at[p] = "send"
         \/ channel'[p] = "blocked"
  BY <1>0 DEF Send, Block, Undisturbed, Shape, PassesTyped, Working
<1>4. SettingsKnown'
  BY <1>1, <1>2, <1>3 DEF SpacedInv, TurnInv, SettingsKnown
<1>5. channel'[p] # "attempt"
  BY <1>3 DEF SpacedInv, TurnInv, NotRefused
<1>6. \A e \in batch'[p] \union held'[p] \union current'[p] : e[1] \in DOMAIN log
  BY <1>1 DEF SpacedInv, TurnInv, InLog
<1> QED
  BY <1>1, <1>2, <1>3, <1>4, <1>5, <1>6, SpacedKept
     DEF SpacedInv, TurnInv, DrainedInTurn, Cleared

(* The last row of a digest is stamped when it is let go of.               *)
LEMMA SpacedMark ==
  ASSUME Undisturbed, SpacedInv, OutcomeInv', NEW p \in Pass, MarkDigest(p)
  PROVE  SpacedInv'
<1>0. Shape
  BY DEF SpacedInv, TurnInv, OutcomeInv
<1>1. UNCHANGED <<log, row, settings, now, snap, batch, held, channel>>
  BY DEF MarkDigest
<1>2. \A q \in Pass : q = p
  BY DEF Undisturbed
<1>3. at[p] = "mark" /\ at'[p] = "next" /\ current'[p] = {}
  BY <1>0 DEF MarkDigest, Shape, PassesTyped
<1>4. SettingsKnown' /\ channel'[p] # "attempt"
  BY <1>1, <1>2, <1>3 DEF SpacedInv, TurnInv, SettingsKnown, NotRefused
<1>5. ASSUME NEW e \in batch[p], NEW j \in DOMAIN log, j < e[1], Critical(j), Owed(j, e[2])
      PROVE  <<j, e[2]>> \in batch[p]
  <2>1. <<j, e[2]>> \in batch[p] \union current[p]
    BY <1>5 DEF SpacedInv, TurnInv, DrainedInTurn
  <2>2. <<j, e[2]>> \notin current[p]
    BY <1>3, <1>5 DEF SpacedInv, TurnInv, Cleared, Owed
  <2> QED
    BY <2>1, <2>2
<1>6. \A e \in batch'[p] \union held'[p] \union current'[p] : e[1] \in DOMAIN log
  BY <1>1, <1>3 DEF SpacedInv, TurnInv, InLog
<1> QED
  BY <1>1, <1>2, <1>3, <1>4, <1>5, <1>6, SpacedKept

(* The row that is stamped goes together with what has been sent.          *)
LEMMA SpacedStamp ==
  ASSUME Undisturbed, SpacedInv, OutcomeInv', NEW p \in Pass, Stamp(p)
  PROVE  SpacedInv'
<1>0. Shape /\ Shape'
  BY DEF SpacedInv, TurnInv, OutcomeInv
<1>1. PICK d \in current[p] :
        /\ at[p] = "stamp" /\ d \in Delivery /\ Done(p, d)
        /\ row' = [row EXCEPT ![d] = Outcome(p, d)]
        /\ channel[p] \in Written /\ Outcome(p, d).channel = channel[p]
        /\ UNCHANGED <<log, settings, snap, batch, held, now>>
  <2>1. channel[p] # "attempt"
    BY DEF SpacedInv, TurnInv, NotRefused
  <2> QED
    BY <1>0, <2>1, StampEffect DEF world
<1>2. \A q \in Pass : q = p
  BY DEF Undisturbed
<1>3. row'[d].channel = channel[p] /\ \A e \in Delivery : e # d => row'[e] = row[e]
  BY <1>0, <1>1 DEF Shape, RowsTyped
<1>4. Unresolved \notin Written
  BY DEF Written, Unresolved
<1>5. /\ current[p] \ {d} \subseteq current'[p] /\ current'[p] \subseteq current[p]
      /\ \/ current[p] # {d} /\ at'[p] = "stamp" /\ channel'[p] = channel[p]
         \/ at'[p] = "mark" /\ current'[p] = {d} /\ channel'[p] = Unresolved
         \/ at'[p] = "next" /\ current'[p] = {} /\ channel'[p] = Unresolved
  <2>1. /\ current'[p] = IF current[p] = {d} /\ channel[p] = "digest"
                         THEN current[p] ELSE current[p] \ {d}
        /\ at'[p] = IF current[p] # {d} THEN "stamp"
                    ELSE IF channel[p] = "digest" THEN "mark" ELSE "next"
        /\ channel'[p] = IF current[p] = {d} THEN Unresolved ELSE channel[p]
    BY <1>0, <1>1 DEF Done, Shape, PassesTyped
  <2>2. CASE current[p] # {d}
    BY <2>1, <2>2
  <2>3. CASE current[p] = {d} /\ channel[p] = "digest"
    BY <2>1, <2>3
  <2>4. CASE current[p] = {d} /\ channel[p] # "digest"
    <3>1. current[p] \ {d} = {}
      BY <2>4
    <3> QED
      BY <2>1, <2>4, <3>1
  <2> QED
    BY <2>2, <2>3, <2>4
<1>6. d[1] \in DOMAIN log /\ d[2] \in Sub /\ d = <<d[1], d[2]>>
  BY <1>1 DEF SpacedInv, TurnInv, InLog, Delivery
<1>7. \A i \in DOMAIN log : \A s \in Sub :
        /\ <<i, s>> = d => (Live(i, s)' => channel[p] = "telegram") /\ ~Owed(i, s)'
        /\ <<i, s>> # d => (Live(i, s)' <=> Live(i, s)) /\ (Owed(i, s)' <=> Owed(i, s))
  BY <1>0, <1>1, <1>3, <1>4, RowsOfLog DEF Live, Owed
<1>8. /\ \A i : Critical(i)' <=> Critical(i)
      /\ \A i, j : (Rivals(i, j)' <=> Rivals(i, j)) /\ (Compatible(i, j)' <=> Compatible(i, j))
  BY <1>1 DEF Critical, Rivals, Compatible, Escal, Gap
<1>9. channel[p] = "telegram" =>
        /\ current[p] = {d}
        /\ \A j \in DOMAIN log : j < d[1] /\ Critical(j) => ~Owed(j, d[2])
        /\ \A i \in DOMAIN log :
             Live(i, d[2]) /\ Rivals(i, d[1]) => Compatible(i, d[1]) /\ Compatible(d[1], i)
  BY <1>1 DEF SpacedInv, TurnInv, Cleared
<1>10. InLog'
  BY <1>1, <1>2, <1>3, <1>5, <1>6 DEF SpacedInv, TurnInv, InLog
<1>11. NotRefused'
  BY <1>1, <1>2, <1>3, <1>4, <1>5 DEF SpacedInv, TurnInv, NotRefused, Unresolved
<1>12. InOrder' /\ SettingsKnown'
  <2>1. at[p] # "off"
    BY <1>1
  <2> QED
    BY <1>1, <1>2, <2>1 DEF SpacedInv, TurnInv, InOrder, SettingsKnown
<1>13. SentInTurn'
  <2> SUFFICES ASSUME NEW s \in Sub, NEW i \in DOMAIN log, NEW j \in DOMAIN log,
                      j < i, Critical(j), Owed(j, s)', Live(i, s)'
               PROVE  FALSE
    BY <1>1, <1>8 DEF SentInTurn
  <2>1. <<j, s>> # d /\ Owed(j, s)
    BY <1>7
  <2>2. CASE <<i, s>> = d
    <3>1. channel[p] = "telegram" /\ d[1] = i /\ d[2] = s
      BY <1>7, <2>2
    <3> QED
      BY <1>9, <2>1, <3>1
  <2>3. CASE <<i, s>> # d
    BY <1>7, <2>1, <2>3 DEF SpacedInv, TurnInv, SentInTurn
  <2> QED
    BY <2>2, <2>3
<1>14. DrainedInTurn'
  <2> SUFFICES ASSUME NEW e \in batch[p], NEW j \in DOMAIN log, j < e[1], Critical(j), Owed(j, e[2])'
               PROVE  <<j, e[2]>> \in batch[p] \union current'[p]
    BY <1>1, <1>2, <1>8 DEF DrainedInTurn
  <2>1. e[2] \in Sub
    BY <1>0 DEF Shape, PassesTyped, Delivery
  <2>2. <<j, e[2]>> # d /\ Owed(j, e[2])
    BY <1>7, <2>1
  <2> QED
    BY <1>5, <2>2 DEF SpacedInv, TurnInv, DrainedInTurn
<1>15. Cleared'
  <2> SUFFICES ASSUME NEW e \in current'[p]
               PROVE  /\ at'[p] = "mark" => row'[e].channel # Unresolved
                      /\ ~(at'[p] \in {"send", "stamp"} /\ channel'[p] = "telegram")
    BY <1>2 DEF Cleared
  <2>1. at'[p] = "mark" => row'[e].channel # Unresolved
    BY <1>1, <1>3, <1>4, <1>5
  <2> QED
    BY <1>5, <1>9, <2>1
<1>16. Spaced'
  <2> SUFFICES ASSUME NEW s \in Sub, NEW i \in DOMAIN log, NEW j \in DOMAIN log,
                      Live(i, s)', Live(j, s)', Rivals(i, j)
               PROVE  Compatible(i, j)
    BY <1>1, <1>8 DEF Spaced
  <2>1. CASE <<i, s>> # d /\ <<j, s>> # d
    BY <1>7, <2>1 DEF SpacedInv, Spaced
  <2>2. CASE <<i, s>> = d /\ <<j, s>> # d
    <3>1. channel[p] = "telegram" /\ d[1] = i /\ d[2] = s /\ Live(j, s)
      BY <1>7, <2>2
    <3>2. Rivals(j, i)
      BY DEF Rivals
    <3> QED
      BY <1>9, <3>1, <3>2
  <2>3. CASE <<i, s>> # d /\ <<j, s>> = d
    <3>1. channel[p] = "telegram" /\ d[1] = j /\ d[2] = s /\ Live(i, s)
      BY <1>7, <2>3
    <3> QED
      BY <1>9, <3>1
  <2>4. CASE <<i, s>> = d /\ <<j, s>> = d
    <3>1. i = j /\ i \in Nat
      BY <1>0, <2>4, RowsOfLog
    <3>2. ~(i < j)
      BY <3>1
    <3> QED
      BY <3>2 DEF Compatible
  <2> QED
    BY <2>1, <2>2, <2>3, <2>4
<1> QED
  BY <1>10, <1>11, <1>12, <1>13, <1>14, <1>15, <1>16 DEF SpacedInv, TurnInv

(* Every step keeps the live alerts spaced.                                *)
LEMMA SpacedInductive ==
  ASSUME Undisturbed
  PROVE  SpacedInv /\ [Next]_vars => SpacedInv'
<1> SUFFICES ASSUME SpacedInv, [Next]_vars PROVE SpacedInv'
  OBVIOUS
<1>0. OutcomeInv' /\ Shape
  BY OutcomeInductive DEF SpacedInv, TurnInv, OutcomeInv, Undisturbed
<1>1. settings \in [Sub -> Setting]
  BY DEF SpacedInv, TurnInv, SettingsKnown
<1>2. ASSUME NEW p \in Pass, Drain(p) \/ Advance(p) PROVE SpacedInv'
  <2>1. CASE CountFails(p)
    BY <2>1 DEF CountFails, SpacedInv, TurnInv, NotRefused
  <2>2. CASE EndPass(p) \/ PassThrows(p)
    <3>1. Idle(p) /\ UNCHANGED <<log, row, settings, now>>
      BY <2>2 DEF EndPass, PassThrows, stored, world
    <3> QED
      BY <1>0, <3>1, SpacedEnds DEF Idle, Shape, PassesTyped
  <2> QED
    BY <1>0, <1>2, <2>1, <2>2, SpacedDrain, SpacedDecide, SpacedBucket, SpacedSend,
       SpacedStamp, SpacedMark DEF Advance
<1>3. CASE Crash
  <2>1. UNCHANGED <<log, row, settings, now>>
    BY <1>3 DEF Crash, stored
  <2>2. \A p \in Pass : /\ at'[p] = "off" /\ batch'[p] = {} /\ held'[p] = {} /\ current'[p] = {}
                        /\ channel'[p] = Unresolved
    BY <1>3 DEF Crash
  <2> QED
    BY <1>0, <2>1, <2>2, SpacedEnds
<1>4. ASSUME NEW q \in Position, Cross(q) PROVE SpacedInv'
  BY <1>0, <1>4, SpacedCross
<1>5. ASSUME NEW q \in Position, NewSnapshot(q) PROVE SpacedInv'
  BY <1>0, <1>1, <1>5, SpacedUntouched DEF NewSnapshot, world
<1>6. ASSUME NEW s \in Sub, SaveSettings(s) \/ Relink(s) PROVE SpacedInv'
  BY <1>0, <1>1, <1>6, SpacedUntouched DEF SaveSettings, Relink, world
<1>7. CASE Elapse
  BY <1>0, <1>1, <1>7, SpacedUntouched DEF Elapse, stored
<1>8. CASE UNCHANGED vars
  BY <1>0, <1>1, <1>8, SpacedUntouched DEF vars, stored, world
<1> QED
  BY <1>2, <1>3, <1>4, <1>5, <1>6, <1>7, <1>8 DEF Next

(* "Same-severity re-crossings are suppressed": while nothing that is sent *)
(* is refused and passes do not overlap, two live alerts of one severity   *)
(* about a position are a cooldown apart, wherever the batches are cut,    *)
(* whatever is held back meanwhile, and whenever the worker dies.          *)
THEOREM SameSeveritySentOnce ==
  ASSUME Undisturbed
  PROVE  Spec => []SameSeverityOnce
<1>1. SpacedInv => SameSeverityOnce
  <2> SUFFICES ASSUME SpacedInv, NEW s \in Sub, NEW i \in DOMAIN log, NEW j \in DOMAIN log,
                      i < j, SentLive(i, s), SentLive(j, s),
                      log[i].pos = log[j].pos, log[i].to = log[j].to, log[i].to # "within"
               PROVE  Gap(i, j)
    BY DEF SameSeverityOnce, Gap
  <2>1. Live(i, s) /\ Live(j, s) /\ Rivals(i, j) /\ ~Escal(i, j)
    BY DEF SentLive, Live, Rivals, Escal
  <2> QED
    BY <2>1 DEF SpacedInv, Spaced, Compatible
<1>2. SpacedInv /\ [Next]_vars => SpacedInv'
  BY SpacedInductive
<1> QED
  BY <1>1, <1>2, SpacedInitially, PTL DEF Spec

-----------------------------------------------------------------------------
(* The inductive invariant of NoDanglingAlarm: nothing is decided before   *)
(* an older row of the same reader, so that a recovery answers what was    *)
(* sent before it, and nothing is sent in between.                         *)

(* When nothing is lost or withheld: one pass at a time, no message is     *)
(* refused, no reader blocks the bot, no query fails and the worker lives; *)
(* readers mute nothing, hold nothing for a digest or for the morning.     *)
Calm ==
  /\ Undisturbed /\ "block" \notin Faults
  /\ MaxCrashes = 0 /\ MaxFailures = 0
  /\ \A w \in Setting : ~w.muted /\ w.digest = "off" /\ (w.quietFrom = Never \/ w.quietTo = Never)

(* Who is linked stays linked, and nothing is held back or given up: every *)
(* decision is sent live or written down at once.                          *)
Plain ==
  /\ linked = Sub /\ failures = 0 /\ crashes = 0
  /\ \A p \in Pass :
       /\ held[p] = {} /\ at[p] \notin {"block", "mark"}
       /\ channel[p] \in {Unresolved, "telegram", "skipped", "suppressed_immaterial",
                          "suppressed_cooldown"}
       /\ \A d, e \in current[p] : d = e

(* A reader's rows are decided in the order of the log.                    *)
DecidedInTurn ==
  \A s \in Sub : \A i, j \in DOMAIN log : j < i /\ Owed(j, s) => Owed(i, s)

TakenInTurn ==
  \A p \in Pass :
    /\ \A d \in batch[p] : \A j \in DOMAIN log :
         j < d[1] /\ Owed(j, d[2]) => <<j, d[2]>> \in batch[p] \union current[p]
    /\ \A d \in current[p] : \A j \in DOMAIN log : j < d[1] => ~Owed(j, d[2])

(* A message is one row, sent live or about to be stamped so, and messages *)
(* arrive in the order of their rows.                                      *)
Stamping(i, s) ==
  \E p \in Pass : at[p] = "stamp" /\ channel[p] = "telegram" /\ <<i, s>> \in current[p]

ReceivedInTurn ==
  \A s \in Sub :
    /\ \A m \in DOMAIN inbox[s] :
         \E i \in DOMAIN log : inbox[s][m] = {i} /\ (Live(i, s) \/ Stamping(i, s))
    /\ \A m, n \in DOMAIN inbox[s] : \A i \in inbox[s][m], j \in inbox[s][n] : m < n => i < j

(* k is the last that was sent about the position of i, as far as i.       *)
Latest(k, i, s) ==
  /\ k \in DOMAIN log /\ k <= i /\ Live(k, s) /\ log[k].pos = log[i].pos
  /\ \A m \in DOMAIN log : m <= i /\ Live(m, s) /\ log[m].pos = log[i].pos => m <= k

(* After a recovery is decided, the last that was sent is an all-clear.    *)
Answered(i, s) == \A k : Latest(k, i, s) => log[k].to = "within"

AllAnswered ==
  /\ \A s \in Sub : \A i \in DOMAIN log : log[i].to = "within" /\ ~Owed(i, s) => Answered(i, s)
  /\ \A p \in Pass : \A d \in current[p] :
       log[d[1]].to = "within" /\ channel[p] # "telegram" => Answered(d[1], d[2])

CalmInv ==
  SpacedInv /\ LedgerInv /\ Plain /\ DecidedInTurn /\ TakenInTurn /\ ReceivedInTurn /\ AllAnswered

(* Such readers are sent an alert or all-clear, or it is dropped.          *)
LEMMA CalmVerdict ==
  ASSUME Calm, NEW a, NEW f, NEW w \in Setting, NEW prior, NEW time
  PROVE  DecideSend(a, f, w, prior, time) \in
           {"send", "skipped", "suppressed_immaterial", "suppressed_cooldown"}
BY DEF Calm, DecideSend, DecideRecovery, DecideAlert, Preference, InQuietHours

(* A recovery is dropped when nothing was sent, or an all-clear last.      *)
LEMMA CalmRecovery ==
  ASSUME Calm, NEW a, a.to = "within", NEW f, NEW w \in Setting, NEW prior, NEW time,
         DecideSend(a, f, w, prior, time) # "send"
  PROVE  prior = NoPrior \/ prior.to = "within"
BY DEF Calm, DecideSend, DecideRecovery, Preference, InQuietHours

(* To a recovery, Prior is the newest message about the position.          *)
LEMMA PriorOfRecovery ==
  ASSUME Shape, NEW d \in Delivery, d[1] \in DOMAIN log, log[d[1]].to = "within",
         NEW k \in DOMAIN log, Live(k, d[2]), log[k].pos = log[d[1]].pos,
         \A m \in DOMAIN log : Live(m, d[2]) /\ log[m].pos = log[d[1]].pos => m <= k
  PROVE  Prior(d) = [to |-> log[k].to, at |-> log[k].at]
<1> DEFINE S == {i \in DOMAIN log : /\ row[<<i, d[2]>>].channel = "telegram"
                                    /\ log[i].pos = log[d[1]].pos
                                    /\ log[i].to = "within" => log[d[1]].to = "within"}
           top == CHOOSE j \in S : \A m \in S : m <= j
<1>1. k \in S /\ \A m \in S : m <= k /\ m \in DOMAIN log
  BY DEF Live
<1>2. Prior(d) = [to |-> log[top].to, at |-> log[top].at]
  BY <1>1 DEF Prior
<1> HIDE DEF S
<1>3. top \in S /\ \A m \in S : m <= top
  BY <1>1
<1> HIDE DEF top
<1>4. top <= k /\ k <= top /\ top \in Nat /\ k \in Nat
  BY <1>1, <1>3, RowsOfLog
<1>5. top = k
  BY <1>4
<1> QED
  BY <1>2, <1>5

(* At first nothing is decided and nothing received.                       *)
LEMMA CalmInitially == Init => CalmInv
<1> SUFFICES ASSUME Init PROVE CalmInv
  OBVIOUS
<1>1. DOMAIN log = {} /\ \A s \in Sub : DOMAIN inbox[s] = {}
  BY DEF Init
<1>2. Plain
  BY DEF Init, Plain
<1>3. DecidedInTurn /\ ReceivedInTurn
  BY <1>1 DEF DecidedInTurn, ReceivedInTurn
<1>4. TakenInTurn /\ AllAnswered
  BY <1>1 DEF Init, TakenInTurn, AllAnswered
<1> QED
  BY <1>2, <1>3, <1>4, SpacedInitially, LedgerInitially DEF CalmInv

(* Steps that write neither the log, nor a row, nor an inbox.              *)
LEMMA CalmKept ==
  ASSUME CalmInv, SpacedInv', LedgerInv', Plain', UNCHANGED <<log, row, inbox>>,
         \A i \in DOMAIN log, s \in Sub : Stamping(i, s) => Stamping(i, s)',
         \A p \in Pass :
           /\ \A d \in batch'[p] : \A j \in DOMAIN log :
                j < d[1] /\ Owed(j, d[2]) => <<j, d[2]>> \in batch'[p] \union current'[p]
           /\ \A d \in current'[p] : \A j \in DOMAIN log : j < d[1] => ~Owed(j, d[2]),
         \A p \in Pass : \A d \in current'[p] :
           log[d[1]].to = "within" /\ channel'[p] # "telegram" => Answered(d[1], d[2])
  PROVE  CalmInv'
<1>1. /\ \A i, s : (Live(i, s)' <=> Live(i, s)) /\ (Owed(i, s)' <=> Owed(i, s))
      /\ \A i, s : Answered(i, s)' <=> Answered(i, s)
  BY DEF Live, Owed, Answered, Latest
<1>2. DecidedInTurn' /\ TakenInTurn'
  BY <1>1 DEF CalmInv, DecidedInTurn, TakenInTurn
<1>3. ReceivedInTurn'
  BY <1>1 DEF CalmInv, ReceivedInTurn
<1>4. AllAnswered'
  BY <1>1 DEF CalmInv, AllAnswered
<1> QED
  BY <1>2, <1>3, <1>4 DEF CalmInv

(* The drain takes what is owed, the oldest first.                         *)
LEMMA CalmDrain ==
  ASSUME Calm, CalmInv, SpacedInv', LedgerInv', NEW p \in Pass, Drain(p)
  PROVE  CalmInv'
<1>0. Shape
  BY DEF CalmInv, LedgerInv
<1>1. UNCHANGED <<log, row, linked, inbox, crashes, failures, held, current, channel>>
      /\ at' = [at EXCEPT ![p] = "next"] /\ at[p] = "off"
  BY DEF Drain, stored, world
<1>2. PICK B \in SUBSET Pending :
        batch' = [batch EXCEPT ![p] = B] /\ \A d \in B : First(d, Pending \ B)
  BY DEF Drain
<1>3. \A q \in Pass : q = p
  BY DEF Calm, Undisturbed
<1>4. batch'[p] = B /\ at'[p] = "next" /\ current[p] = {}
  BY <1>0, <1>1, <1>2 DEF Shape, PassesTyped, Working
<1>5. Plain'
  BY <1>1, <1>3, <1>4 DEF CalmInv, Plain
<1>6. ASSUME NEW d \in B, NEW j \in DOMAIN log, j < d[1], Owed(j, d[2])
      PROVE  <<j, d[2]>> \in B
  <2>1. d \in Delivery /\ d[1] \in DOMAIN log /\ d[2] \in Sub /\ d[2] \in linked
    BY <1>0, RowsOfLog DEF Pending
  <2>2. <<j, d[2]>> \in Pending
    BY <1>0, <1>6, <2>1, RowsOfLog DEF Pending, Owed, CalmInv, SpacedInv, TurnInv, NotRefused
  <2>3. j \in Nat /\ d[1] \in Nat /\ ~(d[1] <= j)
    BY <1>0, <1>6, <2>1, RowsOfLog
  <2> QED
    BY <1>2, <2>2, <2>3 DEF First
<1>7. \A i \in DOMAIN log, s \in Sub : ~Stamping(i, s)
  BY <1>1, <1>3, <1>4 DEF Stamping
<1> QED
  BY <1>1, <1>3, <1>4, <1>5, <1>6, <1>7, CalmKept

(* What is decided is the oldest that is owed, and a recovery that is      *)
(* dropped has nothing to answer.                                          *)
LEMMA CalmDecide ==
  ASSUME Calm, CalmInv, SpacedInv', LedgerInv', NEW p \in Pass, Decide(p)
  PROVE  CalmInv'
<1>0. Shape
  BY DEF CalmInv, LedgerInv
<1>1. UNCHANGED <<log, row, linked, inbox, crashes, failures>>
      /\ at[p] = "next" /\ current[p] = {}
  BY <1>0, DecideEffect DEF stored, world, Shape, Working
<1>2. \A q \in Pass : q = p
  BY DEF Calm, Undisturbed
<1>3. PICK d \in batch[p] :
        LET v == VerdictOf(p, d)
        IN  /\ First(d, batch[p])
            /\ batch' = [batch EXCEPT ![p] = @ \ {d}]
            /\ \/ v = "deferred_quiet"
               \/ v = "deferred_digest"
               \/ /\ current' = [current EXCEPT ![p] = {d}]
                  /\ channel' = [channel EXCEPT ![p] = IF v = "send" THEN "telegram" ELSE v]
                  /\ at' = [at EXCEPT ![p] = IF v = "send" THEN "send" ELSE "stamp"]
                  /\ UNCHANGED held
  BY DEF Decide, VerdictOf
<1>4. d \in Delivery /\ d[1] \in DOMAIN log /\ d[2] \in Sub
  BY <1>0 DEF CalmInv, SpacedInv, TurnInv, InLog, Shape, PassesTyped, Delivery
<1>5. PICK w \in Setting : w = snap[p].settings[d[2]]
  BY <1>1, <1>4 DEF CalmInv, SpacedInv, TurnInv, SettingsKnown
<1>6. PICK v \in {"send", "skipped", "suppressed_immaterial", "suppressed_cooldown"} :
        v = VerdictOf(p, d)
  BY <1>5, CalmVerdict DEF VerdictOf
<1>7. /\ current'[p] = {d} /\ held' = held /\ batch'[p] = batch[p] \ {d}
      /\ channel'[p] = IF v = "send" THEN "telegram" ELSE v
      /\ at'[p] = IF v = "send" THEN "send" ELSE "stamp"
  <2>1. /\ current' = [current EXCEPT ![p] = {d}] /\ held' = held
        /\ batch' = [batch EXCEPT ![p] = @ \ {d}]
        /\ channel' = [channel EXCEPT ![p] = IF v = "send" THEN "telegram" ELSE v]
        /\ at' = [at EXCEPT ![p] = IF v = "send" THEN "send" ELSE "stamp"]
    BY <1>3, <1>6
  <2> QED
    BY <1>0, <2>1 DEF Shape, PassesTyped
<1>8. Plain'
  BY <1>1, <1>2, <1>7 DEF CalmInv, Plain
<1>9. ASSUME NEW e \in batch'[p], NEW j \in DOMAIN log, j < e[1], Owed(j, e[2])
      PROVE  <<j, e[2]>> \in batch'[p] \union current'[p]
  <2>1. <<j, e[2]>> \in batch[p] \union current[p]
    BY <1>7, <1>9 DEF CalmInv, TakenInTurn
  <2> QED
    BY <1>1, <1>7, <2>1
<1>10. ASSUME NEW j \in DOMAIN log, j < d[1] PROVE ~Owed(j, d[2])
  <2>1. Owed(j, d[2]) => <<j, d[2]>> \in batch[p]
    BY <1>1, <1>10 DEF CalmInv, TakenInTurn
  <2>2. j \in Nat /\ d[1] \in Nat /\ ~(d[1] <= j)
    BY <1>0, <1>4, <1>10, RowsOfLog
  <2> QED
    BY <1>3, <2>1, <2>2 DEF First
<1>11. ASSUME log[d[1]].to = "within", v # "send" PROVE Answered(d[1], d[2])
  <2> SUFFICES ASSUME NEW k, Latest(k, d[1], d[2]) PROVE log[k].to = "within"
    BY DEF Answered
  <2>1. Prior(d) = NoPrior \/ Prior(d).to = "within"
    BY <1>5, <1>6, <1>11, CalmRecovery DEF VerdictOf
  <2>2. Owed(d[1], d[2])
    BY <1>4 DEF CalmInv, SpacedInv, TurnInv, OutcomeInv, Open, InHand, Owed, Delivery
  <2>3. ASSUME NEW m \in DOMAIN log, Live(m, d[2]) PROVE m <= d[1]
    <3>1. ~Owed(m, d[2])
      BY <2>3 DEF Live, Owed, Unresolved
    <3>2. ~(d[1] < m)
      BY <1>4, <2>2, <3>1 DEF CalmInv, DecidedInTurn
    <3>3. m \in Nat /\ d[1] \in Nat
      BY <1>0, <1>4, RowsOfLog
    <3> QED
      BY <3>2, <3>3
  <2>4. Prior(d) = [to |-> log[k].to, at |-> log[k].at]
    BY <1>0, <1>4, <1>11, <2>3, PriorOfRecovery DEF Latest
  <2>5. k \in DOMAIN log /\ log[k].to # "none"
    BY <1>0, RowsOfLog DEF Latest
  <2> QED
    BY <2>1, <2>4, <2>5 DEF NoPrior
<1>12. \A i \in DOMAIN log, s \in Sub : ~Stamping(i, s)
  BY <1>1, <1>2 DEF Stamping
<1>13. \A e \in current'[p] : \A j \in DOMAIN log : j < e[1] => ~Owed(j, e[2])
  BY <1>7, <1>10
<1>14. \A e \in current'[p] :
         log[e[1]].to = "within" /\ channel'[p] # "telegram" => Answered(e[1], e[2])
  BY <1>7, <1>11
<1> QED
  BY <1>1, <1>2, <1>8, <1>9, <1>12, <1>13, <1>14, CalmKept

(* A message is about the row that is to be stamped, the newest so far.    *)
LEMMA CalmSend ==
  ASSUME Calm, CalmInv, SpacedInv', LedgerInv', NEW p \in Pass, Send(p)
  PROVE  CalmInv'
<1>0. Shape
  BY DEF CalmInv, LedgerInv
<1>1. /\ UNCHANGED <<log, row, linked, crashes, failures, batch, held, current>>
      /\ at[p] = "send"
  BY DEF Send, stored
<1>2. \A q \in Pass : q = p
  BY DEF Calm, Undisturbed
<1>3. PICK d \in Delivery : current[p] = {d}
  <2>1. current[p] # {} /\ current[p] \in SUBSET Delivery
    BY <1>0, <1>1 DEF Shape, Working, PassesTyped
  <2> QED
    BY <2>1 DEF CalmInv, Plain
<1>4. d[1] \in DOMAIN log /\ d[2] \in Sub /\ d = <<d[1], d[2]>> /\ Reader(p) = d[2]
  BY <1>0, <1>3, ReaderOfAll DEF CalmInv, SpacedInv, TurnInv, InLog, Delivery
<1>5. channel[p] = "telegram"
  BY <1>0, <1>1 DEF Shape, Working, CalmInv, Plain, Unresolved
<1>6. /\ inbox' = [inbox EXCEPT ![d[2]] = Append(@, {d[1]})]
      /\ at' = [at EXCEPT ![p] = "stamp"] /\ channel' = channel
  <2>1. {e[1] : e \in current[p]} = {d[1]}
    BY <1>3
  <2> QED
    BY <1>4, <2>1 DEF Send, Calm, Undisturbed
<1>7. at'[p] = "stamp" /\ inbox \in [Sub -> Seq(SUBSET Nat)]
  BY <1>0, <1>6 DEF Shape, PassesTyped, RowsTyped
<1> DEFINE s == d[2]
           i == d[1]
           n == Len(inbox[s]) + 1
<1>8. /\ \A r \in Sub : r # s => inbox'[r] = inbox[r]
      /\ DOMAIN inbox'[s] = DOMAIN inbox[s] \union {n}
      /\ inbox'[s][n] = {i} /\ \A m \in DOMAIN inbox[s] : inbox'[s][m] = inbox[s][m] /\ m < n
      /\ n \in Nat
  <2>1. inbox[s] \in Seq(SUBSET Nat) /\ inbox'[s] = Append(inbox[s], {i})
    BY <1>4, <1>6, <1>7
  <2> HIDE DEF s, i
  <2>2. Len(inbox[s]) \in Nat /\ DOMAIN inbox[s] = 1 .. Len(inbox[s])
    BY <2>1
  <2>3. /\ DOMAIN Append(inbox[s], {i}) = 1 .. n /\ Append(inbox[s], {i})[n] = {i}
        /\ \A m \in DOMAIN inbox[s] : Append(inbox[s], {i})[m] = inbox[s][m]
    BY <2>1
  <2> QED
    BY <1>4, <1>6, <1>7, <2>1, <2>2, <2>3 DEF s
<1>9. /\ \A j, r : (Live(j, r)' <=> Live(j, r)) /\ (Owed(j, r)' <=> Owed(j, r))
      /\ \A j, r : Answered(j, r)' <=> Answered(j, r)
  BY <1>1 DEF Live, Owed, Answered, Latest
<1>10. Plain'
  BY <1>1, <1>2, <1>6, <1>7 DEF CalmInv, Plain
<1>11. DecidedInTurn' /\ TakenInTurn' /\ AllAnswered'
  BY <1>1, <1>6, <1>9 DEF CalmInv, DecidedInTurn, TakenInTurn, AllAnswered
<1>12. \A j, r : ~Stamping(j, r)
  BY <1>1, <1>2 DEF Stamping
<1>13. Stamping(i, s)'
  BY <1>1, <1>3, <1>4, <1>5, <1>6, <1>7 DEF Stamping
<1>14. Owed(i, s)
  BY <1>1, <1>3, <1>4 DEF CalmInv, SpacedInv, TurnInv, OutcomeInv, Open, InHand, Owed
<1>15. ASSUME NEW j \in DOMAIN log, Live(j, s) PROVE j < i
  <2>1. ~Owed(j, s)
    BY <1>15 DEF Live, Owed, Unresolved
  <2>2. ~(i < j) /\ i # j
    BY <1>4, <1>14, <2>1 DEF CalmInv, DecidedInTurn
  <2>3. i \in Nat /\ j \in Nat
    BY <1>0, <1>4, RowsOfLog
  <2> QED
    BY <2>2, <2>3
<1> HIDE DEF s, i, n
<1>16. ReceivedInTurn'
  <2>1. ASSUME NEW r \in Sub, r # s
        PROVE  /\ \A m \in DOMAIN inbox'[r] :
                    \E j \in DOMAIN log : inbox'[r][m] = {j} /\ Live(j, r)
               /\ \A m, k \in DOMAIN inbox'[r] : \A x \in inbox'[r][m], y \in inbox'[r][k] :
                    m < k => x < y
    BY <1>8, <1>12, <2>1 DEF CalmInv, ReceivedInTurn
  <2>2. \A m \in DOMAIN inbox[s] : \E j \in DOMAIN log : inbox[s][m] = {j} /\ Live(j, s)
    BY <1>4, <1>12 DEF CalmInv, ReceivedInTurn, s
  <2>3. \A m \in DOMAIN inbox'[s] :
          \/ m = n /\ inbox'[s][m] = {i}
          \/ m \in DOMAIN inbox[s] /\ inbox'[s][m] = inbox[s][m] /\ m < n
    BY <1>8
  <2>4. \A m \in DOMAIN inbox'[s] :
          \E j \in DOMAIN log : inbox'[s][m] = {j} /\ (Live(j, s) \/ Stamping(j, s)')
    BY <1>4, <1>13, <2>2, <2>3 DEF i
  <2>5. ASSUME NEW m \in DOMAIN inbox'[s], NEW k \in DOMAIN inbox'[s], m < k,
               NEW x \in inbox'[s][m], NEW y \in inbox'[s][k]
        PROVE  x < y
    <3>1. m \in DOMAIN inbox[s]
      <4>1. CASE m = n
        <5>1. k = n \/ k < n
          BY <2>3
        <5>2. k \in Nat
          BY <1>4, <1>7, <1>8, <2>3 DEF s
        <5> QED
          BY <1>8, <2>5, <4>1, <5>1, <5>2
      <4> QED
        BY <2>3, <4>1
    <3>2. inbox'[s][m] = inbox[s][m]
      BY <1>8, <3>1
    <3>3. CASE k = n
      <4>1. y = i
        BY <1>8, <2>5, <3>3
      <4>2. PICK j \in DOMAIN log : inbox[s][m] = {j} /\ Live(j, s)
        BY <2>2, <3>1
      <4> QED
        BY <1>15, <2>5, <3>2, <4>1, <4>2
    <3>4. CASE k \in DOMAIN inbox[s]
      BY <1>4, <1>8, <2>5, <3>1, <3>2, <3>4 DEF CalmInv, ReceivedInTurn, s
    <3> QED
      BY <2>3, <3>3, <3>4
  <2> QED
    BY <1>1, <1>4, <1>9, <2>1, <2>4, <2>5 DEF ReceivedInTurn
<1> QED
  BY <1>10, <1>11, <1>16 DEF CalmInv

(* The row that is stamped is decided in turn, and so is what it answers.  *)
LEMMA CalmStamp ==
  ASSUME Calm, CalmInv, SpacedInv', LedgerInv', NEW p \in Pass, Stamp(p)
  PROVE  CalmInv'
<1>0. Shape
  BY DEF CalmInv, LedgerInv
<1>1. PICK d \in current[p] :
        /\ at[p] = "stamp" /\ d \in Delivery /\ Done(p, d)
        /\ row' = [row EXCEPT ![d] = Outcome(p, d)]
        /\ channel[p] \in Written /\ Outcome(p, d).channel = channel[p]
        /\ UNCHANGED <<log, linked, batch, held, inbox, crashes, failures>>
  <2>1. channel[p] # "attempt"
    BY DEF CalmInv, Plain, Unresolved
  <2> QED
    BY <1>0, <2>1, StampEffect DEF world
<1>2. \A q \in Pass : q = p
  BY DEF Calm, Undisturbed
<1>3. current[p] = {d} /\ channel[p] # "digest"
  BY <1>1 DEF CalmInv, Plain, Unresolved
<1>4. current'[p] = {} /\ at'[p] = "next" /\ channel'[p] = Unresolved
  <2>1. /\ current'[p] = current[p] \ {d} /\ channel'[p] = Unresolved
        /\ at'[p] = IF current[p] # {d} THEN "stamp"
                    ELSE IF channel[p] = "digest" THEN "mark" ELSE "next"
    BY <1>0, <1>1, <1>3 DEF Done, Shape, PassesTyped
  <2> QED
    BY <1>3, <2>1
<1>5. row'[d].channel = channel[p] /\ \A e \in Delivery : e # d => row'[e] = row[e]
  BY <1>0, <1>1 DEF Shape, RowsTyped
<1>6. d[1] \in DOMAIN log /\ d[2] \in Sub /\ d = <<d[1], d[2]>>
  BY <1>1 DEF CalmInv, SpacedInv, TurnInv, InLog, Delivery
<1>7. \A j \in DOMAIN log : \A s \in Sub :
        /\ <<j, s>> = d => (Live(j, s)' <=> channel[p] = "telegram") /\ ~Owed(j, s)'
        /\ <<j, s>> # d => (Live(j, s)' <=> Live(j, s)) /\ (Owed(j, s)' <=> Owed(j, s))
  <2>1. Unresolved \notin Written
    BY DEF Written, Unresolved
  <2> QED
    BY <1>0, <1>1, <1>5, <2>1, RowsOfLog DEF Live, Owed
<1>8. Owed(d[1], d[2])
  BY <1>1, <1>6 DEF CalmInv, SpacedInv, TurnInv, OutcomeInv, Open, InHand, Owed
<1>9. Plain'
  BY <1>1, <1>2, <1>4 DEF CalmInv, Plain
<1>10. DecidedInTurn'
  <2> SUFFICES ASSUME NEW s \in Sub, NEW i \in DOMAIN log, NEW j \in DOMAIN log,
                      j < i, Owed(j, s)'
               PROVE  Owed(i, s)'
    BY <1>1 DEF DecidedInTurn
  <2>1. <<j, s>> # d /\ Owed(j, s)
    BY <1>7
  <2>2. <<i, s>> # d
    <3>1. \A k \in DOMAIN log : k < d[1] => ~Owed(k, d[2])
      BY <1>3 DEF CalmInv, TakenInTurn
    <3> QED
      BY <2>1, <3>1
  <2>3. Owed(i, s)
    BY <2>1 DEF CalmInv, DecidedInTurn
  <2> QED
    BY <1>7, <2>2, <2>3
<1>11. TakenInTurn'
  <2> SUFFICES ASSUME NEW e \in batch[p], NEW j \in DOMAIN log, j < e[1], Owed(j, e[2])'
               PROVE  <<j, e[2]>> \in batch[p]
    BY <1>1, <1>2, <1>4 DEF TakenInTurn
  <2>1. e[2] \in Sub
    BY <1>0 DEF Shape, PassesTyped, Delivery
  <2>2. <<j, e[2]>> # d /\ Owed(j, e[2])
    BY <1>7, <2>1
  <2> QED
    BY <1>3, <2>2 DEF CalmInv, TakenInTurn
<1>12. ReceivedInTurn'
  <2>1. ASSUME NEW s \in Sub, NEW i \in DOMAIN log, Live(i, s) \/ Stamping(i, s)
        PROVE  Live(i, s)'
    <3>1. CASE Stamping(i, s)
      BY <1>2, <1>3, <1>7, <3>1 DEF Stamping
    <3>2. CASE Live(i, s)
      <4>1. <<i, s>> # d
        BY <1>8, <3>2 DEF Live, Owed, Unresolved
      <4> QED
        BY <1>7, <3>2, <4>1
    <3> QED
      BY <2>1, <3>1, <3>2
  <2> QED
    BY <1>1, <2>1 DEF CalmInv, ReceivedInTurn
<1>13. AllAnswered'
  <2> SUFFICES ASSUME NEW s \in Sub, NEW i \in DOMAIN log, log[i].to = "within", ~Owed(i, s)',
                      NEW k, Latest(k, i, s)'
               PROVE  log[k].to = "within"
    BY <1>1, <1>2, <1>4 DEF AllAnswered, Answered
  <2>1. /\ k \in DOMAIN log /\ k <= i /\ Live(k, s)' /\ log[k].pos = log[i].pos
        /\ \A m \in DOMAIN log : m <= i /\ Live(m, s)' /\ log[m].pos = log[i].pos => m <= k
    BY <1>1 DEF Latest
  <2>2. i \in Nat /\ k \in Nat
    BY <1>0, <2>1, RowsOfLog
  <2>3. CASE <<i, s>> = d /\ channel[p] = "telegram"
    <3>1. Live(i, s)'
      BY <1>7, <2>3
    <3>2. i <= k
      BY <2>1, <2>2, <3>1
    <3> QED
      BY <2>1, <2>2, <3>2
  <2>4. CASE <<i, s>> = d /\ channel[p] # "telegram"
    <3>1. d[1] = i /\ d[2] = s
      BY <2>4
    <3>2. Answered(i, s)
      BY <2>4, <3>1 DEF CalmInv, AllAnswered
    <3>3. \A m \in DOMAIN log : Live(m, s)' <=> Live(m, s)
      BY <1>7, <1>8, <2>4, <3>1 DEF Live, Owed, Unresolved
    <3>4. Latest(k, i, s)
      BY <2>1, <3>3 DEF Latest
    <3> QED
      BY <3>2, <3>4 DEF Answered
  <2>5. CASE <<i, s>> # d
    <3>1. ~Owed(i, s)
      BY <1>7, <2>5
    <3>2. Answered(i, s)
      BY <3>1 DEF CalmInv, AllAnswered
    <3>3. ASSUME NEW m \in DOMAIN log, m <= i PROVE Live(m, s)' <=> Live(m, s)
      <4>1. CASE <<m, s>> = d
        <5>1. m = d[1] /\ s = d[2]
          BY <4>1
        <5>2. m # i /\ m \in Nat
          BY <1>0, <2>5, <4>1, RowsOfLog
        <5>3. m < i
          BY <2>2, <3>3, <5>2
        <5> QED
          BY <1>8, <3>1, <5>1, <5>3 DEF CalmInv, DecidedInTurn
      <4> QED
        BY <1>7, <4>1
    <3>4. Latest(k, i, s)
      BY <2>1, <3>3 DEF Latest
    <3> QED
      BY <3>2, <3>4 DEF Answered
  <2> QED
    BY <2>3, <2>4, <2>5
<1> QED
  BY <1>9, <1>10, <1>11, <1>12, <1>13 DEF CalmInv

(* A new transition is the newest, owed to everybody.                      *)
LEMMA CalmCross ==
  ASSUME Calm, CalmInv, SpacedInv', LedgerInv', NEW q \in Position, Cross(q)
  PROVE  CalmInv'
<1>0. Shape
  BY DEF CalmInv, LedgerInv
<1>1. UNCHANGED <<row, linked, inbox, crashes, failures, at, batch, held, current, channel>>
  BY DEF Cross, passes, world
<1>2. PICK new : log' = Append(log, new)
  BY DEF Cross
<1> DEFINE n == Len(log) + 1
<1>3. /\ DOMAIN log = 1 .. Len(log) /\ Len(log) \in Nat /\ DOMAIN log' = DOMAIN log \union {n}
      /\ n \in 1 .. MaxRows /\ \A i \in DOMAIN log : log'[i] = log[i] /\ i < n /\ i \in Nat
  <2>1. Len(log) \in Nat /\ Len(log) < MaxRows /\ MaxRows \in Nat
    BY <1>0, DispatchConstants DEF Cross, Shape, RowsTyped, LogTyped
  <2> DEFINE R == [pos : Position, to : {"within", "approaching", "outside"},
                   band : Bands, at : Int]
  <2>2. log \in Seq(R)
    BY <1>0 DEF Shape, RowsTyped, LogTyped
  <2> HIDE DEF R
  <2> QED
    BY <1>2, <2>1, <2>2
<1> HIDE DEF n
<1>4. \A s \in Sub : row[<<n, s>>].channel = Unresolved
  <2> SUFFICES ASSUME NEW d \in Delivery, d[1] = n PROVE row[d].channel = Unresolved
    BY <1>3 DEF Delivery
  <2>1. n \notin DOMAIN log
    BY <1>3
  <2> QED
    BY <2>1 DEF CalmInv, SpacedInv, TurnInv, InLog
<1>5. /\ \A j, s : (Live(j, s)' <=> Live(j, s)) /\ (Owed(j, s)' <=> Owed(j, s))
      /\ \A j, s : Stamping(j, s)' <=> Stamping(j, s)
      /\ \A s \in Sub : Owed(n, s) /\ ~Live(n, s)
  BY <1>1, <1>4 DEF Live, Owed, Stamping, Unresolved
<1>6. \A p \in Pass : \A d \in batch[p] \union current[p] : d[1] \in DOMAIN log /\ d[2] \in Sub
  BY <1>0 DEF CalmInv, SpacedInv, TurnInv, InLog, Shape, PassesTyped, Delivery
<1>7. \A i \in DOMAIN log : \A j \in DOMAIN log' : j < i => j \in DOMAIN log
  BY <1>3
<1>8. \A j \in DOMAIN log' : ~(n < j)
  BY <1>3
<1>9. Plain'
  BY <1>1 DEF CalmInv, Plain
<1>10. DecidedInTurn'
  <2> SUFFICES ASSUME NEW s \in Sub, NEW i \in DOMAIN log', NEW j \in DOMAIN log',
                      j < i, Owed(j, s)
               PROVE  Owed(i, s)
    BY <1>5 DEF DecidedInTurn
  <2>1. CASE i = n
    BY <1>5, <2>1
  <2>2. CASE i \in DOMAIN log
    BY <1>7, <2>2 DEF CalmInv, DecidedInTurn
  <2> QED
    BY <1>3, <2>1, <2>2
<1>11. TakenInTurn'
  BY <1>1, <1>5, <1>6, <1>7 DEF CalmInv, TakenInTurn
<1>12. ReceivedInTurn'
  BY <1>1, <1>3, <1>5 DEF CalmInv, ReceivedInTurn
<1>13. ASSUME NEW i \in DOMAIN log, NEW s \in Sub, Answered(i, s) PROVE Answered(i, s)'
  <2> SUFFICES ASSUME NEW k, Latest(k, i, s)' PROVE log'[k].to = "within"
    BY DEF Answered
  <2>1. k \in DOMAIN log' /\ k <= i /\ Live(k, s) /\ log'[k].pos = log'[i].pos
    BY <1>5 DEF Latest
  <2>2. k \in DOMAIN log
    BY <1>3, <1>5, <2>1
  <2>3. Latest(k, i, s)
    BY <1>3, <1>5, <2>1, <2>2 DEF Latest
  <2> QED
    BY <1>3, <1>13, <2>2, <2>3 DEF Answered
<1>14. AllAnswered'
  <2>1. ASSUME NEW s \in Sub, NEW i \in DOMAIN log', log'[i].to = "within", ~Owed(i, s)
        PROVE  Answered(i, s)'
    <3>1. i \in DOMAIN log
      BY <1>3, <1>5, <2>1
    <3> QED
      BY <1>3, <1>13, <2>1, <3>1 DEF CalmInv, AllAnswered
  <2>2. ASSUME NEW p \in Pass, NEW d \in current[p], log'[d[1]].to = "within",
               channel[p] # "telegram"
        PROVE  Answered(d[1], d[2])'
    <3>1. Answered(d[1], d[2])
      BY <1>3, <1>6, <2>2 DEF CalmInv, AllAnswered
    <3> QED
      BY <1>6, <1>13, <3>1
  <2> QED
    BY <1>1, <1>5, <2>1, <2>2 DEF AllAnswered
<1> QED
  BY <1>9, <1>10, <1>11, <1>12, <1>14 DEF CalmInv

(* Every step keeps the order in which a calm pass works.                  *)
LEMMA CalmInductive ==
  ASSUME Calm
  PROVE  CalmInv /\ [Next]_vars => CalmInv'
<1> SUFFICES ASSUME CalmInv, [Next]_vars PROVE CalmInv'
  OBVIOUS
<1>0. SpacedInv' /\ LedgerInv' /\ Shape
  BY SpacedInductive, LedgerInductive DEF Calm, CalmInv, LedgerInv
<1>1. ~QueryFails /\ ~Crash
  BY DEF QueryFails, Crash, Calm, CalmInv, Plain
<1>2. ASSUME UNCHANGED <<log, row, linked, inbox, crashes, failures, at, batch, held, current, channel>>
      PROVE  CalmInv'
  BY <1>0, <1>2, CalmKept DEF CalmInv, Plain, TakenInTurn, AllAnswered, Stamping
<1>3. ASSUME NEW p \in Pass, Drain(p) \/ Advance(p) PROVE CalmInv'
  <2>1. CASE TakeBucket(p)
    BY <2>1 DEF TakeBucket, CalmInv, Plain
  <2>2. CASE Block(p) \/ MarkDigest(p)
    BY <2>2 DEF Block, MarkDigest, CalmInv, Plain
  <2>3. CASE CountFails(p) \/ PassThrows(p)
    BY <1>1, <2>3 DEF CountFails, PassThrows
  <2>4. CASE EndPass(p)
    <3>1. /\ UNCHANGED <<log, row, linked, inbox, crashes, failures>>
          /\ at[p] = "next" /\ current[p] = {} /\ held[p] = {}
      BY <1>0, <2>4 DEF EndPass, stored, world, Shape, Working
    <3>2. /\ at'[p] = "off" /\ batch'[p] = {} /\ held'[p] = {} /\ current'[p] = {}
          /\ channel'[p] = Unresolved
      BY <1>0, <2>4 DEF EndPass, Idle, Shape, PassesTyped
    <3>3. \A q \in Pass : q = p
      BY DEF Calm, Undisturbed
    <3>4. \A i \in DOMAIN log, s \in Sub : ~Stamping(i, s)
      BY <3>1, <3>3 DEF Stamping
    <3>5. Plain'
      BY <3>1, <3>2, <3>3 DEF CalmInv, Plain
    <3> QED
      BY <1>0, <3>1, <3>2, <3>3, <3>4, <3>5, CalmKept
  <2> QED
    BY <1>0, <1>3, <2>1, <2>2, <2>3, <2>4, CalmDrain, CalmDecide, CalmSend, CalmStamp DEF Advance
<1>4. ASSUME NEW q \in Position, Cross(q) PROVE CalmInv'
  BY <1>0, <1>4, CalmCross
<1>5. ASSUME NEW q \in Position, NewSnapshot(q) PROVE CalmInv'
  BY <1>2, <1>5 DEF NewSnapshot, passes, world
<1>6. ASSUME NEW s \in Sub, SaveSettings(s) \/ Relink(s) PROVE CalmInv'
  <2>1. ~Relink(s)
    BY DEF Relink, CalmInv, Plain
  <2> QED
    BY <1>2, <1>6, <2>1 DEF SaveSettings, passes, world
<1>7. CASE Elapse \/ UNCHANGED vars
  BY <1>2, <1>7 DEF Elapse, vars, stored, passes, world
<1> QED
  BY <1>1, <1>3, <1>4, <1>5, <1>6, <1>7 DEF Next

(* "A recovery sends an all-clear": while nothing is lost or withheld, and *)
(* whatever is immaterial or suppressed by a cooldown, the last message    *)
(* about a position that has recovered is its all-clear as soon as all its *)
(* deliveries are resolved.                                                *)
THEOREM RecoveryIsTold ==
  ASSUME Calm
  PROVE  Spec => []NoDanglingAlarm
<1>1. CalmInv => NoDanglingAlarm
  <2> SUFFICES ASSUME CalmInv, NEW s \in Sub, NEW q \in Position,
                      \A p \in Pass : at[p] = "off",
                      \A i \in DOMAIN log : log[i].pos = q => row[<<i, s>>].channel # Unresolved,
                      LastStatus(q) = "within", About(q, s) # {}
               PROVE  Told(q, s) = "within"
    BY DEF NoDanglingAlarm
  <2>0. Shape
    BY DEF CalmInv, LedgerInv
  <2>1. \A i, r : ~Stamping(i, r)
    BY DEF Stamping
  <2>2. PICK l \in DOMAIN log : /\ log[l].pos = q /\ log[l].to = "within"
                                /\ \A j \in DOMAIN log : log[j].pos = q => j <= l
    <3> DEFINE S == {i \in DOMAIN log : log[i].pos = q}
               l == CHOOSE i \in S : \A j \in S : j <= i
    <3>1. S # {}
      BY DEF LastStatus
    <3>2. S \in SUBSET (1 .. Len(log)) /\ Len(log) \in Nat
      BY <2>0 DEF Shape, RowsTyped, LogTyped
    <3>3. LastStatus(q) = log[l].to
      BY <3>1 DEF LastStatus
    <3>4. \E i \in S : \A j \in S : j <= i
      <4> HIDE DEF S
      <4> QED
        BY <3>1, <3>2, LatestOf
    <3>5. l \in S /\ \A j \in S : j <= l
      BY <3>4
    <3> QED
      BY <3>3, <3>5
  <2>3. PICK m \in About(q, s) : \A n \in About(q, s) : n <= m
    <3>1. inbox[s] \in Seq(SUBSET Nat)
      BY <2>0 DEF Shape, RowsTyped
    <3>2. About(q, s) \in SUBSET (1 .. Len(inbox[s])) /\ Len(inbox[s]) \in Nat
      BY <3>1 DEF About
    <3> QED
      BY <3>2, LatestOf
  <2>4. m \in DOMAIN inbox[s] /\ \A n \in About(q, s) : n \in DOMAIN inbox[s] /\ n \in Nat
    <3>1. inbox[s] \in Seq(SUBSET Nat)
      BY <2>0 DEF Shape, RowsTyped
    <3> QED
      BY <3>1 DEF About
  <2>5. PICK i \in DOMAIN log : inbox[s][m] = {i} /\ Live(i, s) /\ log[i].pos = q
    <3>1. PICK i \in DOMAIN log : inbox[s][m] = {i} /\ Live(i, s)
      BY <2>1, <2>4 DEF CalmInv, ReceivedInTurn
    <3> QED
      BY <3>1 DEF About
  <2>6. Told(q, s) = log[i].to
    <3> DEFINE top  == CHOOSE k \in About(q, s) : \A n \in About(q, s) : n <= k
               rows == {x \in inbox[s][top] : log[x].pos = q}
    <3>1. top \in About(q, s) /\ \A n \in About(q, s) : n <= top
      BY <2>3
    <3> HIDE DEF top
    <3>2. top = m
      <4>1. top <= m /\ m <= top /\ top \in Nat /\ m \in Nat
        BY <2>3, <2>4, <3>1
      <4> QED
        BY <4>1
    <3>3. rows = {i}
      BY <2>5, <3>2
    <3>4. i <= i
      BY <2>0, RowsOfLog
    <3> HIDE DEF rows
    <3>5. (CHOOSE x \in rows : \A j \in rows : j <= x) = i
      BY <3>3, <3>4
    <3> QED
      BY <3>5 DEF Told, rows, top
  <2>7. ASSUME NEW x \in DOMAIN log, Live(x, s), log[x].pos = q PROVE x <= i
    <3>1. <<x, s>> \in Delivery
      BY <2>0, RowsOfLog
    <3>2. Copies(<<x, s>>) > 0
      BY <2>7, <3>1 DEF CalmInv, LedgerInv, LedgerTruthful, Live
    <3>3. PICK n \in DOMAIN inbox[s] : x \in inbox[s][n]
      <4>1. CASE {n \in DOMAIN inbox[s] : x \in inbox[s][n]} = {}
        <5>1. Copies(<<x, s>>) = 0
          BY <4>1, FS_EmptySet DEF Copies
        <5> QED
          BY <3>2, <5>1
      <4> QED
        BY <4>1
    <3>4. n \in About(q, s)
      BY <2>7, <3>3 DEF About
    <3>5. n = m \/ n < m
      BY <2>3, <2>4, <3>4
    <3>6. x \in Nat /\ i \in Nat
      BY <2>0, RowsOfLog
    <3>7. CASE n = m
      BY <2>5, <3>3, <3>6, <3>7
    <3>8. CASE n < m
      <4>1. x < i
        BY <2>4, <2>5, <3>3, <3>8 DEF CalmInv, ReceivedInTurn
      <4> QED
        BY <3>6, <4>1
    <3> QED
      BY <3>5, <3>7, <3>8
  <2>8. Latest(i, l, s)
    BY <2>2, <2>5, <2>7 DEF Latest
  <2>9. Answered(l, s)
    BY <2>2 DEF CalmInv, AllAnswered, Owed
  <2> QED
    BY <2>6, <2>8, <2>9 DEF Answered
<1>2. CalmInv /\ [Next]_vars => CalmInv'
  BY CalmInductive
<1> QED
  BY <1>1, <1>2, CalmInitially, PTL DEF Spec

-----------------------------------------------------------------------------
(* Type correctness: what Shape leaves open is that attempts stay within   *)
(* NOTIFY_MAX_ATTEMPTS, and times and messages within the log's.           *)

(* A pass has in hand what it found below the limit of attempts.           *)
Retryable ==
  \A p \in Pass : \A d \in batch[p] \union held[p] \union current[p] :
    snap[p].attempts[d] \in 0 .. MaxAttempts - 1

Counted ==
  /\ \A d \in Delivery : row[d].attempts \in 0 .. MaxAttempts
  /\ Retryable

Dated ==
  /\ now \in 0 .. MaxTime
  /\ \A i \in 1 .. Len(log) : log[i].at \in 0 .. MaxTime
  /\ lastDigest \in [Sub -> 0 .. MaxTime \union {Never}]

Readers ==
  /\ linked \subseteq Sub /\ settings \in [Sub -> Setting] /\ facts \in [Position -> Facts]
  /\ inbox \in [Sub -> Seq(SUBSET (1 .. MaxRows))]

TypeInv == Shape /\ Counted /\ Dated /\ Readers

(* A pass that takes up nothing it did not have stays below the limit.     *)
LEMMA NothingNew ==
  ASSUME TypeInv, NEW p \in Pass,
         \A q \in Pass \ {p} :
           /\ batch'[q] = batch[q] /\ held'[q] = held[q] /\ current'[q] = current[q]
           /\ snap'[q] = snap[q],
         \/ batch'[p] \union held'[p] \union current'[p] = {}
         \/ /\ batch'[p] \union held'[p] \union current'[p]
                 \subseteq batch[p] \union held[p] \union current[p]
            /\ snap'[p] = snap[p]
  PROVE  Retryable'
BY DEF TypeInv, Counted, Retryable

(* The steps of a pass that write no row take up nothing new, or what the  *)
(* drain found below the limit.                                            *)
LEMMA RetryableKept ==
  ASSUME TypeInv, [Next]_vars
  PROVE  Retryable'
<1>0. Shape
  BY DEF TypeInv
<1>1. ASSUME NEW p \in Pass, Drain(p) PROVE Retryable'
  <2>1. PICK B \in SUBSET Pending : batch' = [batch EXCEPT ![p] = B]
    BY <1>1 DEF Drain
  <2>2. /\ snap' = [snap EXCEPT ![p] = Snapshot] /\ UNCHANGED <<held, current>>
        /\ held[p] = {} /\ current[p] = {}
    BY <1>0, <1>1 DEF Drain, Shape, Working
  <2>3. batch'[p] = B /\ snap'[p] = Snapshot
    BY <1>0, <2>1, <2>2 DEF Shape, PassesTyped
  <2>4. ASSUME NEW d \in B PROVE Snapshot.attempts[d] \in 0 .. MaxAttempts - 1
    <3>1. d \in Delivery /\ row[d].attempts < MaxAttempts
      BY <1>0, DispatchConstants DEF Pending, Delivery, Shape, RowsTyped, LogTyped
    <3>2. row[d].attempts \in 0 .. MaxAttempts
      BY <3>1 DEF TypeInv, Counted
    <3>3. Snapshot.attempts[d] = row[d].attempts
      BY <3>1 DEF Snapshot
    <3> QED
      BY <3>1, <3>2, <3>3, DispatchConstants
  <2>5. \A q \in Pass \ {p} : /\ batch'[q] = batch[q] /\ held'[q] = held[q]
                              /\ current'[q] = current[q] /\ snap'[q] = snap[q]
    BY <1>0, <2>1, <2>2 DEF Shape, PassesTyped
  <2>6. ASSUME NEW q \in Pass, NEW d \in batch'[q] \union held'[q] \union current'[q]
        PROVE  snap'[q].attempts[d] \in 0 .. MaxAttempts - 1
    <3>1. CASE q = p
      BY <2>2, <2>3, <2>4, <3>1
    <3>2. CASE q # p
      BY <2>5, <3>2 DEF TypeInv, Counted, Retryable
    <3> QED
      BY <3>1, <3>2
  <2> QED
    BY <2>6 DEF Retryable
<1>2. ASSUME NEW p \in Pass, Decide(p) PROVE Retryable'
  <2>1. /\ UNCHANGED snap
        /\ \E d \in batch[p] :
             /\ batch' = [batch EXCEPT ![p] = @ \ {d}]
             /\ \/ UNCHANGED <<held, current>>
                \/ held' = [held EXCEPT ![p] = @ \union {d}] /\ UNCHANGED current
                \/ current' = [current EXCEPT ![p] = {d}] /\ UNCHANGED held
    BY <1>0, <1>2, DecideEffect
  <2>2. batch'[p] \union held'[p] \union current'[p] \subseteq batch[p] \union held[p] \union current[p]
    BY <1>0, <2>1 DEF Shape, PassesTyped
  <2>3. \A q \in Pass \ {p} : /\ batch'[q] = batch[q] /\ held'[q] = held[q]
                              /\ current'[q] = current[q] /\ snap'[q] = snap[q]
    BY <1>0, <2>1 DEF Shape, PassesTyped
  <2> QED
    BY <2>1, <2>2, <2>3, NothingNew
<1>3. ASSUME NEW p \in Pass, TakeBucket(p) PROVE Retryable'
  <2>1. PICK D \in SUBSET held[p] :
          /\ held' = [held EXCEPT ![p] = @ \ D]
          /\ current' = [current EXCEPT ![p] = D] \/ UNCHANGED current
    <3>1. PICK s \in Sub :
            LET D == {d \in held[p] : d[2] = s}
            IN  /\ held' = [held EXCEPT ![p] = @ \ D]
                /\ current' = [current EXCEPT ![p] = D] \/ UNCHANGED current
      BY <1>3 DEF TakeBucket
    <3> WITNESS {d \in held[p] : d[2] = s} \in SUBSET held[p]
    <3> QED
      BY <3>1
  <2>2. UNCHANGED <<snap, batch>>
    BY <1>3 DEF TakeBucket
  <2>3. batch'[p] \union held'[p] \union current'[p] \subseteq batch[p] \union held[p] \union current[p]
    BY <1>0, <2>1, <2>2 DEF Shape, PassesTyped
  <2>4. \A q \in Pass \ {p} : /\ batch'[q] = batch[q] /\ held'[q] = held[q]
                              /\ current'[q] = current[q] /\ snap'[q] = snap[q]
    BY <1>0, <2>1, <2>2 DEF Shape, PassesTyped
  <2> QED
    BY <2>2, <2>3, <2>4, NothingNew
<1>4. ASSUME NEW p \in Pass, Stamp(p) \/ CountFails(p) PROVE Retryable'
  <2>1. UNCHANGED <<snap, batch, held>> /\ \E d : Done(p, d)
    BY <1>4 DEF Stamp, CountFails
  <2>2. /\ current'[p] \subseteq current[p]
        /\ \A q \in Pass \ {p} : current'[q] = current[q]
    BY <1>0, <2>1 DEF Done, Shape, PassesTyped
  <2> QED
    BY <2>1, <2>2, NothingNew
<1>5. ASSUME NEW p \in Pass, MarkDigest(p) \/ EndPass(p) \/ PassThrows(p) PROVE Retryable'
  <2>1. \/ /\ current' = [current EXCEPT ![p] = {}] /\ UNCHANGED <<snap, batch, held>>
        \/ Idle(p)
    BY <1>5 DEF MarkDigest, EndPass, PassThrows
  <2>2. CASE current' = [current EXCEPT ![p] = {}] /\ UNCHANGED <<snap, batch, held>>
    <3>1. current'[p] = {} /\ \A q \in Pass \ {p} : current'[q] = current[q]
      BY <1>0, <2>2 DEF Shape, PassesTyped
    <3> QED
      BY <2>2, <3>1, NothingNew
  <2>3. CASE Idle(p)
    <3>1. /\ batch'[p] = {} /\ held'[p] = {} /\ current'[p] = {}
          /\ \A q \in Pass \ {p} : /\ batch'[q] = batch[q] /\ held'[q] = held[q]
                                   /\ current'[q] = current[q] /\ snap'[q] = snap[q]
      BY <1>0, <2>3 DEF Idle, Shape, PassesTyped
    <3> QED
      BY <3>1, NothingNew
  <2> QED
    BY <2>1, <2>2, <2>3
<1>6. ASSUME UNCHANGED <<snap, batch, held, current>> PROVE Retryable'
  BY <1>6 DEF TypeInv, Counted, Retryable
<1>7. CASE Crash
  BY <1>7 DEF Crash, Retryable
<1>8. ASSUME NEW p \in Pass, Send(p) \/ Block(p) PROVE Retryable'
  BY <1>6, <1>8 DEF Send, Block
<1>9. ASSUME NEW q \in Position, Cross(q) \/ NewSnapshot(q) PROVE Retryable'
  BY <1>6, <1>9 DEF Cross, NewSnapshot, passes
<1>10. ASSUME NEW s \in Sub, SaveSettings(s) \/ Relink(s) PROVE Retryable'
  BY <1>6, <1>10 DEF SaveSettings, Relink, passes
<1>11. CASE Elapse \/ UNCHANGED vars
  BY <1>6, <1>11 DEF Elapse, vars, passes
<1> QED
  BY <1>1, <1>2, <1>3, <1>4, <1>5, <1>7, <1>8, <1>9, <1>10, <1>11 DEF Next, Advance

(* Only a stamp writes a row, and it counts at most one attempt more than  *)
(* the drain found.                                                        *)
LEMMA AttemptsKept ==
  ASSUME TypeInv, [Next]_vars
  PROVE  \A d \in Delivery : row'[d].attempts \in 0 .. MaxAttempts
<1>0. Shape /\ MaxAttempts \in Nat /\ \A d \in Delivery : row[d].attempts \in 0 .. MaxAttempts
  BY DispatchConstants DEF TypeInv, Counted
<1>1. ASSUME NEW p \in Pass, Stamp(p) PROVE \A d \in Delivery : row'[d].attempts \in 0 .. MaxAttempts
  <2>1. PICK e \in current[p] : e \in Delivery /\ row' = [row EXCEPT ![e] = Outcome(p, e)]
    BY <1>0, <1>1, StampEffect
  <2>2. PICK n : n = snap[p].attempts[e]
    OBVIOUS
  <2>3. n \in 0 .. MaxAttempts - 1
    BY <2>2 DEF TypeInv, Counted, Retryable
  <2>4. n \in 0 .. MaxAttempts /\ n + 1 \in 0 .. MaxAttempts
    BY <1>0, <2>3
  <2>5. PICK x : x = row[e] /\ x \in [channel : Written \union {Unresolved}, attempts : Int]
    BY <1>0, <2>1 DEF Shape, RowsTyped
  <2>6. \/ Outcome(p, e) = [x EXCEPT !.attempts = n + 1]
        \/ \E c : Outcome(p, e) = [channel |-> c, attempts |-> n + 1]
        \/ \E c : Outcome(p, e) = [channel |-> c, attempts |-> n]
    <3>1. CASE channel[p] = "attempt"
      <4>1. n + 1 < MaxAttempts \/ n + 1 >= MaxAttempts
        BY <1>0, <2>3
      <4>2. CASE n + 1 < MaxAttempts
        BY <2>2, <2>5, <3>1, <4>2 DEF Outcome
      <4>3. CASE n + 1 >= MaxAttempts
        <5>1. ~(n + 1 < MaxAttempts)
          BY <1>0, <2>3, <4>3
        <5> QED
          BY <2>2, <3>1, <4>3, <5>1 DEF Outcome
      <4> QED
        BY <4>1, <4>2, <4>3
    <3>2. CASE channel[p] # "attempt"
      BY <2>2, <3>2 DEF Outcome
    <3> QED
      BY <3>1, <3>2
  <2>7. Outcome(p, e).attempts \in {n, n + 1}
    BY <2>5, <2>6
  <2>8. PICK y : y = Outcome(p, e)
    OBVIOUS
  <2>9. row' = [row EXCEPT ![e] = y] /\ y.attempts \in 0 .. MaxAttempts
    BY <2>1, <2>4, <2>7, <2>8
  <2> QED
    BY <1>0, <2>1, <2>9 DEF Shape, RowsTyped
<1>2. ASSUME NEW p \in Pass, Drain(p) \/ Advance(p), ~Stamp(p) PROVE UNCHANGED row
  BY <1>2 DEF Advance, Drain, Decide, TakeBucket, Send, Block, CountFails, MarkDigest,
     EndPass, PassThrows, stored
<1>3. ASSUME NEW q \in Position, Cross(q) \/ NewSnapshot(q) PROVE UNCHANGED row
  BY <1>3 DEF Cross, NewSnapshot
<1>4. ASSUME NEW s \in Sub, SaveSettings(s) \/ Relink(s) PROVE UNCHANGED row
  BY <1>4 DEF SaveSettings, Relink
<1>5. ASSUME Crash \/ Elapse \/ UNCHANGED vars PROVE UNCHANGED row
  BY <1>5 DEF Crash, Elapse, vars, stored
<1>6. CASE UNCHANGED row
  <2>1. \A d \in Delivery : row'[d] = row[d]
    BY <1>6
  <2> QED
    BY <1>0, <2>1
<1>7. (row' = row) \/ \E p \in Pass : Stamp(p)
  <2>1. \/ \E p \in Pass : Drain(p) \/ Advance(p)
        \/ \E q \in Position : Cross(q) \/ NewSnapshot(q)
        \/ \E s \in Sub : SaveSettings(s) \/ Relink(s)
        \/ Crash \/ Elapse \/ UNCHANGED vars
    BY DEF Next
  <2> QED
    BY <1>2, <1>3, <1>4, <1>5, <2>1
<1> QED
  BY <1>1, <1>6, <1>7

(* Transitions and digests are dated by the clock.                         *)
LEMMA DatesKept ==
  ASSUME TypeInv, [Next]_vars
  PROVE  Dated'
<1>0. /\ Shape /\ MaxTime \in Nat /\ now \in 0 .. MaxTime
      /\ \A i \in 1 .. Len(log) : log[i].at \in 0 .. MaxTime
      /\ lastDigest \in [Sub -> 0 .. MaxTime \union {Never}]
  BY DispatchConstants DEF TypeInv, Dated
<1>1. now' \in 0 .. MaxTime
  <2>1. now' = now \/ (now < MaxTime /\ now' = now + 1)
    BY DEF Next, Advance, Drain, Decide, TakeBucket, Send, Block, Stamp, CountFails, MarkDigest,
       EndPass, PassThrows, Crash, Cross, NewSnapshot, SaveSettings, Relink, Elapse, world, vars
  <2> QED
    BY <1>0, <2>1
<1>2. \A i \in 1 .. Len(log') : log'[i].at \in 0 .. MaxTime
  <2>1. ASSUME NEW q \in Position, Cross(q), NEW i \in 1 .. Len(log') PROVE log'[i].at \in 0 .. MaxTime
    <3>1. PICK x : log' = Append(log, x) /\ x.at = now
      BY <2>1 DEF Cross
    <3>2. PICK S : log \in Seq(S)
      BY <1>0 DEF Shape, RowsTyped, LogTyped
    <3>3. /\ Len(log) \in Nat /\ Len(log') = Len(log) + 1 /\ log'[Len(log) + 1] = x
          /\ \A j \in 1 .. Len(log) : log'[j] = log[j]
      BY <3>1, <3>2
    <3>4. i \in 1 .. Len(log) \/ i = Len(log) + 1
      BY <3>3
    <3> QED
      BY <1>0, <3>1, <3>3, <3>4
  <2>2. log' = log \/ \E q \in Position : Cross(q)
    BY DEF Next, Advance, Drain, Decide, TakeBucket, Send, Block, Stamp, CountFails, MarkDigest,
       EndPass, PassThrows, Crash, NewSnapshot, SaveSettings, Relink, Elapse, stored, vars
  <2> QED
    BY <1>0, <2>1, <2>2
<1>3. lastDigest' \in [Sub -> 0 .. MaxTime \union {Never}]
  <2>1. lastDigest' = lastDigest \/ \E s : lastDigest' = [lastDigest EXCEPT ![s] = now]
    BY DEF Next, Advance, Drain, Decide, TakeBucket, Send, Block, Stamp, CountFails, MarkDigest,
       EndPass, PassThrows, Crash, Cross, NewSnapshot, SaveSettings, Relink, Elapse, stored, vars
  <2> QED
    BY <1>0, <2>1
<1> QED
  BY <1>1, <1>2, <1>3 DEF Dated

(* A message carries rows of the log to a reader.                          *)
LEMMA ReadersKept ==
  ASSUME TypeInv, [Next]_vars
  PROVE  Readers'
<1>0. Shape /\ Readers
  BY DEF TypeInv
<1>1. inbox' \in [Sub -> Seq(SUBSET (1 .. MaxRows))]
  <2>1. ASSUME NEW p \in Pass, Send(p) PROVE inbox' \in [Sub -> Seq(SUBSET (1 .. MaxRows))]
    <3>1. PICK rows : rows = {d[1] : d \in current[p]}
      OBVIOUS
    <3>2. rows \in SUBSET (1 .. MaxRows)
      BY <1>0, <3>1 DEF Shape, PassesTyped, Delivery
    <3>3. PICK s : s = Reader(p)
      OBVIOUS
    <3>4. inbox' = inbox \/ inbox' = [inbox EXCEPT ![s] = Append(@, rows)]
      BY <2>1, <3>1, <3>3 DEF Send
    <3>5. \A v \in Sub : Append(inbox[v], rows) \in Seq(SUBSET (1 .. MaxRows))
      BY <1>0, <3>2 DEF Readers
    <3> QED
      BY <1>0, <3>4, <3>5 DEF Readers
  <2>2. inbox' = inbox \/ \E p \in Pass : Send(p)
    BY DEF Next, Advance, Drain, Decide, TakeBucket, Block, Stamp, CountFails, MarkDigest,
       EndPass, PassThrows, Crash, Cross, NewSnapshot, SaveSettings, Relink, Elapse, world, vars
  <2> QED
    BY <1>0, <2>1, <2>2 DEF Readers
<1>2. linked' \subseteq Sub
  BY <1>0 DEF Readers, Next, Advance, Drain, Decide, TakeBucket, Send, Block, Stamp, CountFails,
     MarkDigest, EndPass, PassThrows, Crash, Cross, NewSnapshot, SaveSettings, Relink, Elapse,
     stored, vars
<1>3. settings' \in [Sub -> Setting]
  <2>1. settings' = settings \/ \E s \in Sub, x \in Setting : settings' = [settings EXCEPT ![s] = x]
    BY DEF Next, Advance, Drain, Decide, TakeBucket, Send, Block, Stamp, CountFails, MarkDigest,
       EndPass, PassThrows, Crash, Cross, NewSnapshot, SaveSettings, Relink, Elapse, stored, vars
  <2> QED
    BY <1>0, <2>1 DEF Readers
<1>4. facts' \in [Position -> Facts]
  <2>1. facts' = facts \/ \E q \in Position, x \in Facts : facts' = [facts EXCEPT ![q] = x]
    BY DEF Next, Advance, Drain, Decide, TakeBucket, Send, Block, Stamp, CountFails, MarkDigest,
       EndPass, PassThrows, Crash, Cross, NewSnapshot, SaveSettings, Relink, Elapse, stored, vars
  <2> QED
    BY <1>0, <2>1 DEF Readers
<1> QED
  BY <1>1, <1>2, <1>3, <1>4 DEF Readers

(* At first nothing has been tried.                                        *)
LEMMA TypeInitially == Init => TypeInv
<1> SUFFICES ASSUME Init PROVE TypeInv
  OBVIOUS
<1>1. Counted
  BY DispatchConstants DEF Init, Counted, Retryable
<1>2. Dated
  <2>1. 0 \in 0 .. MaxTime /\ 1 .. Len(log) = {}
    BY DispatchConstants DEF Init
  <2> QED
    BY <2>1 DEF Init, Dated
<1>3. Readers
  BY DEF Init, Readers
<1> QED
  BY <1>1, <1>2, <1>3, ShapeInitially DEF TypeInv

(* The dispatcher keeps its types: however passes overlap, refusals repeat *)
(* and the worker dies, no delivery is counted past NOTIFY_MAX_ATTEMPTS,   *)
(* and a message carries only rows of the log (recordSendFailure,          *)
(* STAMP_SQL and ATTEMPT_SQL in server/watchDispatch.ts).                  *)
THEOREM DispatchTyped == Spec => []TypeOK
<1>1. TypeInv /\ [Next]_vars => TypeInv'
  BY ShapeInductive, RetryableKept, AttemptsKept, DatesKept, ReadersKept DEF TypeInv, Counted
<1>2. TypeInv => TypeOK
  <2> SUFFICES ASSUME TypeInv PROVE TypeOK
    OBVIOUS
  <2>0. Shape /\ Counted /\ Dated /\ Readers
    BY DEF TypeInv
  <2>1. log \in Seq(Row)
    <3>1. LogTyped
      BY <2>0 DEF Shape, RowsTyped
    <3>2. ASSUME NEW i \in 1 .. Len(log) PROVE log[i] \in Row
      <4>1. PICK x : x = log[i]
        OBVIOUS
      <4>2. x \in [pos : Position, to : {"within", "approaching", "outside"}, band : Bands, at : Int]
        BY <3>1, <4>1, ElementOfSeq DEF LogTyped
      <4>3. x.at \in 0 .. MaxTime
        BY <2>0, <4>1 DEF Dated
      <4> QED
        BY <4>1, <4>2, <4>3 DEF Row
    <3>3. log = [i \in 1 .. Len(log) |-> log[i]] /\ Len(log) \in Nat
      BY <3>1 DEF LogTyped
    <3> QED
      BY <3>2, <3>3
  <2>2. Written = Channel \ {"send"}
    BY DEF Written, Channel, Verdict, Deferred
  <2>3. row \in [Delivery -> [channel : (Channel \ {"send"}) \union {Unresolved},
                              attempts : 0 .. MaxAttempts]]
    <3>1. row \in [Delivery -> [channel : Written \union {Unresolved}, attempts : Int]]
      BY <2>0 DEF Shape, RowsTyped
    <3>2. \A d \in Delivery : row[d] \in [channel : Written \union {Unresolved}, attempts : 0 .. MaxAttempts]
      BY <2>0, <3>1 DEF Counted
    <3> QED
      BY <2>2, <3>1, <3>2
  <2>4. channel \in [Pass -> Channel \union {Unresolved, "attempt"}]
    BY <2>0, <2>2 DEF Shape, PassesTyped
  <2> QED
    BY <2>0, <2>1, <2>3, <2>4 DEF TypeOK, Shape, RowsTyped, PassesTyped, Dated, Readers
<1> QED
  BY <1>1, <1>2, TypeInitially, PTL DEF Spec
=============================================================================
