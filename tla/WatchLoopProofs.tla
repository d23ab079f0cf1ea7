--------------------------- MODULE WatchLoopProofs ---------------------------
(***************************************************************************)
(* Theorems about the scoring loop: the debounce for every number of       *)
(* confirmations, and the log of transitions for every interleaving of     *)
(* passes, subscriptions, reboots and inserts that fail or are overtaken.  *)
(***************************************************************************)
EXTENDS WatchLoop, TLAPS

(* statusFor yields a status.                                              *)
LEMMA StatusTyped ==
  ASSUME NEW k \in Key, NEW l \in Level
  PROVE  StatusOf[k[2]][l] \in Status /\ StatusOf[k[2]][l] # Unset
BY WatchConstants DEF Key

LEMMA InitTyped == Init => TypeOK
<1> SUFFICES ASSUME Init PROVE TypeOK
  OBVIOUS
<1>1. NoCandidate \in [status : Status \union {Unset}, count : 0 .. ConfirmTicks - 1]
  BY WatchConstants DEF NoCandidate
<1>2. NoCandidate \in [status : Status \union {Unset}, count : 0 .. ConfirmTicks]
  BY WatchConstants DEF NoCandidate
<1>3. registry \in [Wallet -> SUBSET Profile]
  BY DEF Init
<1> QED
  BY <1>1, <1>2, <1>3 DEF Init, TypeOK

(* The one step that writes candidates, streaks and statuses.              *)
LEMMA ApplyTyped ==
  ASSUME TypeOK, NEW p \in Pass, NEW w \in Wallet, Apply(p, w) PROVE TypeOK'
<1>1. reading[p].level \in Level /\ at[p] = "scoring"
  BY DEF Apply, TypeOK, Reading
<1> DEFINE S(k) == StatusOf[k[2]][reading[p].level]
           seen == {w} \X ProfilesOf(w)
<1>2. \A k \in Key : S(k) \in Status
  BY <1>1, StatusTyped
<1>3. /\ committed' = [k \in Key |->
            IF k \in seen /\ Confirmed(k, S(k)) THEN S(k) ELSE committed[k]]
      /\ pending' = [k \in Key |-> IF k \in seen THEN NextPending(k, S(k)) ELSE pending[k]]
      /\ inserts' = [k \in Key |->
            IF k \in seen /\ Confirmed(k, S(k))
            THEN Append(inserts[k], [from |-> committed[k], to |-> S(k)]) ELSE inserts[k]]
      /\ streak' = [k \in Key |-> IF k \in seen THEN NextStreak(k, S(k)) ELSE streak[k]]
  BY DEF Apply
<1>4. at' = [at EXCEPT ![p] = "loop"] /\ reading' = [reading EXCEPT ![p] = NoReading]
      /\ UNCHANGED <<level, registry, log, watched, visited, spoiled>>
  BY DEF Apply, world
<1> HIDE DEF S, seen
<1>5. committed' \in [Key -> Status \union {Unset}]
  BY <1>2, <1>3 DEF TypeOK
<1>6. \A k \in Key : NextPending(k, S(k)) \in
        [status : Status \union {Unset}, count : 0 .. ConfirmTicks - 1]
  BY <1>2, WatchConstants DEF TypeOK, NextPending, Confirmed, Count, NoCandidate
<1>7. pending' \in [Key -> [status : Status \union {Unset}, count : 0 .. ConfirmTicks - 1]]
  BY <1>3, <1>6 DEF TypeOK
<1>8. \A k \in Key : NextStreak(k, S(k)) \in
        [status : Status \union {Unset}, count : 0 .. ConfirmTicks]
  <2> SUFFICES ASSUME NEW k \in Key
               PROVE NextStreak(k, S(k)) \in [status : Status \union {Unset}, count : 0 .. ConfirmTicks]
    OBVIOUS
  <2>1. streak[k] \in [status : Status \union {Unset}, count : 0 .. ConfirmTicks]
    BY DEF TypeOK
  <2>2. [status |-> S(k), count |-> 1] \in [status : Status \union {Unset}, count : 0 .. ConfirmTicks]
    BY <1>2, WatchConstants
  <2>3. streak[k].count < ConfirmTicks =>
          [streak[k] EXCEPT !.count = @ + 1] \in [status : Status \union {Unset}, count : 0 .. ConfirmTicks]
    BY <2>1, WatchConstants
  <2> QED
    BY <2>1, <2>2, <2>3 DEF NextStreak
<1>9. streak' \in [Key -> [status : Status \union {Unset}, count : 0 .. ConfirmTicks]]
  BY <1>3, <1>8 DEF TypeOK
<1>10. inserts' \in [Key -> Seq(Row)]
  <2> SUFFICES ASSUME NEW k \in Key PROVE inserts'[k] \in Seq(Row)
    BY <1>3
  <2>1. [from |-> committed[k], to |-> S(k)] \in Row
    BY <1>2 DEF TypeOK, Row
  <2> QED
    BY <1>3, <2>1 DEF TypeOK
<1> QED
  BY <1>4, <1>5, <1>7, <1>9, <1>10 DEF TypeOK

LEMMA WithoutTyped ==
  ASSUME NEW T, NEW seq \in Seq(T), NEW i \in DOMAIN seq PROVE Without(seq, i) \in Seq(T)
<1>1. SubSeq(seq, 1, i - 1) \in Seq(T) /\ SubSeq(seq, i + 1, Len(seq)) \in Seq(T)
  OBVIOUS
<1> QED
  BY <1>1 DEF Without

LEMMA StepTyped == TypeOK /\ [Next]_vars => TypeOK'
<1> SUFFICES ASSUME TypeOK, [Next]_vars PROVE TypeOK'
  OBVIOUS
<1> USE DEF world, memory, passes, past, bounds
<1>1. ASSUME NEW p \in Pass, StartPass(p) \/ EndPass(p) PROVE TypeOK'
  BY <1>1 DEF StartPass, EndPass, TypeOK
<1>2. ASSUME NEW p \in Pass, BeginScore(p) PROVE TypeOK'
  <2>1. PICK w \in Wallet :
          /\ visited' = [visited EXCEPT ![p] = @ \union {w}]
          /\ reading' = [reading EXCEPT ![p] = [wallet |-> w, level |-> level[w]]]
    BY <1>2 DEF BeginScore
  <2>2. at' = [at EXCEPT ![p] = "scoring"]
    BY <1>2 DEF BeginScore
  <2>3. [wallet |-> w, level |-> level[w]] \in Reading
    BY DEF TypeOK, Reading
  <2> QED
    BY <1>2, <2>1, <2>2, <2>3 DEF BeginScore, TypeOK
<1>3. ASSUME NEW p \in Pass, ScoreFails(p) PROVE TypeOK'
  BY <1>3 DEF ScoreFails, TypeOK
<1>4. ASSUME NEW p \in Pass, NEW w \in Wallet, Apply(p, w) PROVE TypeOK'
  BY <1>4, ApplyTyped
<1>5. ASSUME NEW k \in Key, Persist(k) PROVE TypeOK'
  <2>1. PICK i \in DOMAIN inserts[k] :
          /\ log' = [log EXCEPT ![k] = Append(@, inserts[k][i])]
          /\ inserts' = [inserts EXCEPT ![k] = Without(@, i)]
    BY <1>5 DEF Persist
  <2>2. inserts[k] \in Seq(Row) /\ inserts[k][i] \in Row
    BY DEF TypeOK
  <2>3. Without(inserts[k], i) \in Seq(Row)
    BY <2>2, WithoutTyped
  <2>4. log' \in [Key -> Seq(Row)] /\ inserts' \in [Key -> Seq(Row)]
    BY <2>1, <2>2, <2>3 DEF TypeOK
  <2>5. spoiled' \subseteq Key
    BY <1>5 DEF Persist, TypeOK
  <2> QED
    BY <1>5, <2>4, <2>5 DEF Persist, TypeOK
<1>6. ASSUME NEW k \in Key, LoseInsert(k) PROVE TypeOK'
  <2>1. PICK i \in DOMAIN inserts[k] : inserts' = [inserts EXCEPT ![k] = Without(@, i)]
    BY <1>6 DEF LoseInsert
  <2>2. Without(inserts[k], i) \in Seq(Row)
    BY WithoutTyped DEF TypeOK
  <2> QED
    BY <1>6, <2>1, <2>2 DEF LoseInsert, TypeOK
<1>7. CASE SyncWatched
  BY <1>7 DEF SyncWatched, TypeOK
<1>8. CASE Reboot
  <2>1. NoCandidate \in [status : Status \union {Unset}, count : 0 .. ConfirmTicks - 1]
        /\ NoCandidate \in [status : Status \union {Unset}, count : 0 .. ConfirmTicks]
    BY WatchConstants DEF NoCandidate
  <2>2. \A k \in Key : LastTo(k) \in Status \union {Unset}
    <3> SUFFICES ASSUME NEW k \in Key, log[k] # <<>> PROVE LastTo(k) \in Status
      BY DEF LastTo
    <3>1. log[k] \in Seq(Row)
      BY DEF TypeOK
    <3>2. log[k][Len(log[k])] \in Row
      BY <3>1
    <3> QED
      BY <3>2 DEF LastTo, Row
  <2> QED
    BY <1>8, <2>1, <2>2 DEF Reboot, Seed, TypeOK
<1>9. ASSUME NEW w \in Wallet, ScoreMoves(w) PROVE TypeOK'
  BY <1>9 DEF ScoreMoves, TypeOK
<1>11. ASSUME NEW w \in Wallet, Subscribe(w) PROVE TypeOK'
  <2>1. PICK fs \in SUBSET Profile : registry' = [registry EXCEPT ![w] = fs]
    BY <1>11 DEF Subscribe
  <2>2. registry' \in [Wallet -> SUBSET Profile]
    BY <2>1 DEF TypeOK
  <2> QED
    BY <1>11, <2>2 DEF Subscribe, TypeOK
<1>10. CASE UNCHANGED vars
  BY <1>10 DEF vars, TypeOK
<1> QED
  BY <1>1, <1>2, <1>3, <1>4, <1>5, <1>6, <1>7, <1>8, <1>9, <1>10, <1>11 DEF Next

(* Every variable keeps its type.                                          *)
THEOREM LoopTyped == Spec => []TypeOK
BY InitTyped, StepTyped, PTL DEF Spec

-----------------------------------------------------------------------------
(* The debounce.  A candidate's counter never exceeds the number of times  *)
(* its status has been seen in a row.                                      *)
Streaked == \A k \in Key : pending[k].status # Unset =>
              pending[k].status = streak[k].status /\ pending[k].count <= streak[k].count

CountRecord == [status : Status \union {Unset}, count : Nat]

(* What one observation s of key k does to the counters.                   *)
LEMMA ObservationStreaked ==
  ASSUME TypeOK, Streaked, NEW k \in Key, NEW s \in Status, s # Unset
  PROVE  /\ NextStreak(k, s).status = s
         /\ NextStreak(k, s) \in CountRecord
         /\ NextPending(k, s).status # Unset =>
              NextPending(k, s).status = s /\ NextPending(k, s).count <= NextStreak(k, s).count
         /\ Confirmed(k, s) => NextStreak(k, s).count = ConfirmTicks
<1>1. ConfirmTicks \in Nat /\ ConfirmTicks > 0
  BY WatchConstants
<1>2. /\ pending[k].count \in 0 .. ConfirmTicks - 1
      /\ streak[k].count \in 0 .. ConfirmTicks
      /\ streak[k] \in [status : Status \union {Unset}, count : 0 .. ConfirmTicks]
  BY DEF TypeOK
<1>3. pending[k].status = s => streak[k].status = s /\ pending[k].count <= streak[k].count
  BY DEF Streaked
<1> DEFINE c == NextStreak(k, s).count
<1>4. NextStreak(k, s).status = s /\ NextStreak(k, s) \in CountRecord
  <2>1. CASE streak[k].status # s
    BY <1>1, <2>1 DEF NextStreak, CountRecord
  <2>2. CASE streak[k].status = s /\ streak[k].count < ConfirmTicks
    BY <1>1, <1>2, <2>2 DEF NextStreak, CountRecord
  <2>3. CASE streak[k].status = s /\ ~(streak[k].count < ConfirmTicks)
    BY <1>1, <1>2, <2>3 DEF NextStreak, CountRecord
  <2> QED
    BY <2>1, <2>2, <2>3
<1>5. /\ streak[k].status # s => c = 1
      /\ streak[k].status = s /\ streak[k].count < ConfirmTicks => c = streak[k].count + 1
      /\ streak[k].status = s /\ ~(streak[k].count < ConfirmTicks) => c = streak[k].count
  BY <1>1, <1>2 DEF NextStreak
<1> HIDE DEF c
<1>6. Count(k, s) \in Nat /\ Count(k, s) <= ConfirmTicks
  BY <1>1, <1>2 DEF Count
<1>7. Count(k, s) <= c /\ c <= ConfirmTicks
  BY <1>1, <1>2, <1>3, <1>5 DEF Count
<1>8. c \in Nat
  BY <1>1, <1>2, <1>5
<1>9. Confirmed(k, s) => c = ConfirmTicks
  BY <1>1, <1>6, <1>7, <1>8 DEF Confirmed
<1>10. NextPending(k, s).status # Unset =>
         NextPending(k, s).status = s /\ NextPending(k, s).count <= c
  BY <1>7 DEF NextPending, NoCandidate
<1> QED
  BY <1>4, <1>9, <1>10 DEF c

LEMMA ApplyStreaked ==
  ASSUME TypeOK, Streaked, NEW p \in Pass, NEW w \in Wallet, Apply(p, w)
  PROVE  /\ Streaked'
         /\ \A k \in Key : committed'[k] # committed[k] =>
              streak'[k] = [status |-> committed'[k], count |-> ConfirmTicks]
<1> DEFINE S(k) == StatusOf[k[2]][reading[p].level]
           seen == {w} \X ProfilesOf(w)
<1>1. \A k \in Key : S(k) \in Status /\ S(k) # Unset
  BY StatusTyped DEF Apply, TypeOK, Reading
<1>2. /\ committed' = [k \in Key |->
            IF k \in seen /\ Confirmed(k, S(k)) THEN S(k) ELSE committed[k]]
      /\ pending' = [k \in Key |-> IF k \in seen THEN NextPending(k, S(k)) ELSE pending[k]]
      /\ streak' = [k \in Key |-> IF k \in seen THEN NextStreak(k, S(k)) ELSE streak[k]]
  BY DEF Apply
<1> HIDE DEF S, seen
<1>3. ASSUME NEW k \in Key
      PROVE  /\ pending'[k].status # Unset =>
                  pending'[k].status = streak'[k].status /\ pending'[k].count <= streak'[k].count
             /\ committed'[k] # committed[k] =>
                  streak'[k] = [status |-> committed'[k], count |-> ConfirmTicks]
  <2>1. CASE k \notin seen
    BY <1>2, <2>1 DEF Streaked
  <2>2. CASE k \in seen
    <3>1. streak'[k] = NextStreak(k, S(k)) /\ pending'[k] = NextPending(k, S(k))
      BY <1>2, <2>2
    <3>2. committed'[k] # committed[k] => Confirmed(k, S(k)) /\ committed'[k] = S(k)
      BY <1>2, <2>2
    <3>3. /\ NextStreak(k, S(k)).status = S(k)
          /\ NextStreak(k, S(k)) \in CountRecord
          /\ NextPending(k, S(k)).status # Unset =>
               NextPending(k, S(k)).status = S(k)
               /\ NextPending(k, S(k)).count <= NextStreak(k, S(k)).count
          /\ Confirmed(k, S(k)) => NextStreak(k, S(k)).count = ConfirmTicks
      BY <1>1, ObservationStreaked
    <3> QED
      BY <3>1, <3>2, <3>3 DEF CountRecord
  <2> QED
    BY <2>1, <2>2
<1> QED
  BY <1>3 DEF Streaked

LEMMA StreakedInductive == TypeOK /\ Streaked /\ [Next]_vars => Streaked'
<1> SUFFICES ASSUME TypeOK, Streaked, [Next]_vars PROVE Streaked'
  OBVIOUS
<1>1. CASE UNCHANGED <<pending, streak>>
  BY <1>1 DEF Streaked
<1>2. CASE Reboot
  BY <1>2 DEF Reboot, Streaked, NoCandidate
<1>3. CASE \E p \in Pass, w \in Wallet : Apply(p, w)
  BY <1>3, ApplyStreaked
<1> QED
  BY <1>1, <1>2, <1>3 DEF Next, StartPass, BeginScore, ScoreFails, EndPass, Persist,
     LoseInsert, SyncWatched, ScoreMoves, Subscribe, vars, memory, past

(* Every committed change was observed ConfirmTicks times in a row: for    *)
(* every number of confirmations, profiles and overlapping passes.         *)
THEOREM DebounceHolds == Spec => Debounced
<1> DEFINE Step == crashes' = crashes =>
              \A k \in Key : committed'[k] # committed[k] =>
                streak'[k] = [status |-> committed'[k], count |-> ConfirmTicks]
<1>1. Init => Streaked
  BY DEF Init, Streaked, NoCandidate
<1>2. TypeOK /\ Streaked /\ [Next]_vars => Step
  <2> SUFFICES ASSUME TypeOK, Streaked, [Next]_vars, crashes' = crashes
               PROVE \A k \in Key : committed'[k] # committed[k] =>
                       streak'[k] = [status |-> committed'[k], count |-> ConfirmTicks]
    OBVIOUS
  <2>1. CASE UNCHANGED committed
    BY <2>1
  <2>2. CASE \E p \in Pass, w \in Wallet : Apply(p, w)
    BY <2>2, ApplyStreaked
  <2>3. CASE Reboot
    BY <2>3 DEF Reboot, TypeOK
  <2> QED
    BY <2>1, <2>2, <2>3 DEF Next, StartPass, BeginScore, ScoreFails, EndPass, Persist,
       LoseInsert, SyncWatched, ScoreMoves, Subscribe, vars, memory, past
<1> QED
  BY <1>1, <1>2, InitTyped, StepTyped, StreakedInductive, PTL DEF Spec, Debounced

-----------------------------------------------------------------------------
(* The log of a key none of whose inserts has failed or been overtaken,    *)
(* followed by its inserts under way, is one path to what is committed.    *)
KeyOK(k) ==
  /\ inserts[k] = <<>> => LastTo(k) = committed[k]
  /\ inserts[k] # <<>> =>
       inserts[k][1].from = LastTo(k) /\ inserts[k][Len(inserts[k])].to = committed[k]
  /\ \A i \in DOMAIN inserts[k] : i # 1 => inserts[k][i].from = inserts[k][i - 1].to

LogInv == \A k \in Key \ spoiled : KeyOK(k)

LEMMA LogInitially == Init => LogInv
BY DEF Init, LogInv, KeyOK, LastTo

(* Taking the first element leaves the others, in order.                   *)
LEMMA FirstTaken ==
  ASSUME NEW T, NEW seq \in Seq(T), seq # <<>>
  PROVE  /\ Without(seq, 1) \in Seq(T) /\ Len(Without(seq, 1)) = Len(seq) - 1
         /\ \A j \in 1 .. Len(seq) - 1 : Without(seq, 1)[j] = seq[j + 1]
<1>1. SubSeq(seq, 1, 0) = <<>>
  OBVIOUS
<1>2. Without(seq, 1) = <<>> \o SubSeq(seq, 2, Len(seq))
  <2>1. 1 - 1 = 0 /\ 1 + 1 = 2
    OBVIOUS
  <2> QED
    BY <1>1, <2>1, Zenon DEF Without
<1>3. /\ SubSeq(seq, 2, Len(seq)) \in Seq(T) /\ Len(SubSeq(seq, 2, Len(seq))) = Len(seq) - 1
      /\ \A j \in 1 .. Len(seq) - 1 : SubSeq(seq, 2, Len(seq))[j] = seq[j + 1]
  <2>1. PICK n \in Nat : n = Len(seq) /\ n > 0
    OBVIOUS
  <2>2. SubSeq(seq, 2, n) \in Seq(T)
    BY <2>1
  <2>3. Len(SubSeq(seq, 2, n)) = n - 1
    BY <2>1
  <2>4. \A j \in 1 .. n - 1 : SubSeq(seq, 2, n)[j] = seq[j + 1]
    BY <2>1
  <2> QED
    BY <2>1, <2>2, <2>3, <2>4
<1>4. Without(seq, 1) = SubSeq(seq, 2, Len(seq))
  BY <1>2, <1>3
<1> QED
  BY <1>3, <1>4

(* An insert that ends in its order extends the log by the next step of    *)
(* the path.                                                               *)
LEMMA PersistConnected ==
  ASSUME TypeOK, LogInv, NEW k \in Key, Persist(k)
  PROVE  /\ LogInv'
         /\ k \notin spoiled' =>
              log'[k] # <<>> /\ log'[k][Len(log'[k])].from = LastTo(k)
<1>1. PICK i \in DOMAIN inserts[k] :
        /\ log' = [log EXCEPT ![k] = Append(@, inserts[k][i])]
        /\ inserts' = [inserts EXCEPT ![k] = Without(@, i)]
        /\ spoiled' = IF i = 1 THEN spoiled ELSE spoiled \union {k}
        /\ committed' = committed
  BY DEF Persist
<1>2. inserts[k] \in Seq(Row) /\ log[k] \in Seq(Row)
  BY DEF TypeOK
<1>3. ASSUME k \notin spoiled'
      PROVE  KeyOK(k)' /\ log'[k] # <<>> /\ log'[k][Len(log'[k])].from = LastTo(k)
  <2>1. i = 1 /\ KeyOK(k)
    BY <1>1, <1>3 DEF LogInv
  <2>2. PICK n \in Nat : n = Len(inserts[k]) /\ n > 0
    BY <1>1, <1>2, <2>1
  <2>3. inserts[k] # <<>>
    BY <1>2, <2>2
  <2>4. PICK q : q = inserts'[k] /\ q = Without(inserts[k], 1)
    BY <1>1, <2>1 DEF TypeOK
  <2>5. q \in Seq(Row) /\ Len(q) = n - 1 /\ \A j \in 1 .. n - 1 : q[j] = inserts[k][j + 1]
    BY <1>2, <2>2, <2>3, <2>4, FirstTaken
  <2>6. /\ log'[k] = Append(log[k], inserts[k][1]) /\ log'[k] # <<>>
        /\ log'[k][Len(log'[k])] = inserts[k][1]
    <3>1. inserts[k][1] \in Row
      BY <1>2, <2>2
    <3>2. log'[k] = Append(log[k], inserts[k][1])
      BY <1>1, <2>1 DEF TypeOK
    <3> QED
      BY <1>2, <3>1, <3>2
  <2>7. LastTo(k)' = inserts[k][1].to
    BY <2>6 DEF LastTo
  <2>8. /\ inserts[k][1].from = LastTo(k) /\ inserts[k][n].to = committed[k]
        /\ \A j \in 1 .. n : j # 1 => inserts[k][j].from = inserts[k][j - 1].to
    <3>1. DOMAIN inserts[k] = 1 .. n
      BY <1>2, <2>2
    <3> QED
      BY <2>1, <2>2, <2>3, <3>1 DEF KeyOK
  <2>9. q = <<>> => LastTo(k)' = committed'[k]
    <3> SUFFICES ASSUME q = <<>> PROVE LastTo(k)' = committed'[k]
      OBVIOUS
    <3>1. n = 1
      BY <2>2, <2>5
    <3> QED
      BY <1>1, <2>7, <2>8, <3>1
  <2>10. q # <<>> => q[1].from = LastTo(k)' /\ q[Len(q)].to = committed'[k]
    <3> SUFFICES ASSUME q # <<>> PROVE q[1].from = LastTo(k)' /\ q[Len(q)].to = committed'[k]
      OBVIOUS
    <3>1. n > 1
      BY <2>2, <2>5
    <3>2. q[1] = inserts[k][2] /\ q[Len(q)] = inserts[k][n]
      BY <2>2, <2>5, <3>1
    <3>3. inserts[k][2].from = inserts[k][1].to
      BY <2>2, <2>8, <3>1
    <3> QED
      BY <1>1, <2>7, <2>8, <3>2, <3>3
  <2>11. ASSUME NEW j \in DOMAIN q, j # 1 PROVE q[j].from = q[j - 1].to
    <3>1. j \in 2 .. n - 1
      BY <2>2, <2>5, <2>11
    <3>2. q[j] = inserts[k][j + 1] /\ q[j - 1] = inserts[k][j]
      BY <2>2, <2>5, <3>1
    <3>3. inserts[k][j + 1].from = inserts[k][j].to
      BY <2>2, <2>8, <3>1
    <3> QED
      BY <3>2, <3>3
  <2>12. KeyOK(k)'
    BY <2>4, <2>9, <2>10, <2>11 DEF KeyOK
  <2> QED
    BY <2>6, <2>8, <2>12
<1>4. ASSUME NEW l \in Key \ spoiled', l # k PROVE KeyOK(l)'
  <2>1. KeyOK(l)
    BY <1>1, <1>4 DEF LogInv
  <2>2. log'[l] = log[l] /\ inserts'[l] = inserts[l] /\ committed' = committed
    BY <1>1, <1>4 DEF TypeOK
  <2> QED
    BY <2>1, <2>2 DEF KeyOK, LastTo
<1> QED
  BY <1>3, <1>4 DEF LogInv

(* A commit extends the path by one step.                                  *)
LEMMA ApplyConnected ==
  ASSUME TypeOK, LogInv, NEW p \in Pass, NEW w \in Wallet, Apply(p, w)
  PROVE  LogInv'
<1> DEFINE S(k) == StatusOf[k[2]][reading[p].level]
           seen == {w} \X ProfilesOf(w)
<1>1. /\ committed' = [k \in Key |->
            IF k \in seen /\ Confirmed(k, S(k)) THEN S(k) ELSE committed[k]]
      /\ inserts' = [k \in Key |->
            IF k \in seen /\ Confirmed(k, S(k))
            THEN Append(inserts[k], [from |-> committed[k], to |-> S(k)]) ELSE inserts[k]]
      /\ UNCHANGED <<log, spoiled>>
  BY DEF Apply
<1>2. reading[p].level \in Level
  BY DEF Apply, TypeOK, Reading
<1>3. \A k \in Key : S(k) \in Status
  BY <1>2, StatusTyped
<1> HIDE DEF S, seen
<1>4. ASSUME NEW k \in Key \ spoiled PROVE KeyOK(k)'
  <2>1. KeyOK(k) /\ LastTo(k)' = LastTo(k)
    BY <1>1 DEF LogInv, LastTo
  <2>2. CASE k \in seen /\ Confirmed(k, S(k))
    <3>1. PICK r \in Row : r = [from |-> committed[k], to |-> S(k)]
      BY <1>3 DEF TypeOK, Row
    <3>2. r.from = committed[k] /\ r.to = S(k)
      BY <3>1
    <3>3. PICK q \in Seq(Row) : q = inserts[k]
      BY DEF TypeOK
    <3>4. PICK n \in Nat : n = Len(q)
      BY <3>3
    <3>5. inserts'[k] = Append(q, r) /\ committed'[k] = S(k)
      BY <1>1, <2>2, <3>1, <3>3
    <3>6. PICK qq \in Seq(Row) : qq = inserts'[k] /\ qq = Append(q, r)
      <4>1. Append(q, r) \in Seq(Row)
        BY <3>1, <3>3
      <4> QED
        BY <3>5, <4>1
    <3>7. /\ Len(qq) = n + 1 /\ qq[n + 1] = r /\ \A j \in 1 .. n : qq[j] = q[j]
      BY <3>3, <3>4, <3>6
    <3>8. qq # <<>> /\ DOMAIN qq = 1 .. n + 1
      BY <3>4, <3>7
    <3>9. q = <<>> <=> n = 0
      BY <3>3, <3>4
    <3>10. /\ n = 0 => LastTo(k) = committed[k]
           /\ n # 0 => q[1].from = LastTo(k) /\ q[n].to = committed[k]
           /\ \A j \in 1 .. n : j # 1 => q[j].from = q[j - 1].to
      <4>1. DOMAIN q = 1 .. n
        BY <3>3, <3>4
      <4> QED
        BY <2>1, <3>3, <3>4, <3>9, <4>1 DEF KeyOK
    <3>11. qq[1].from = LastTo(k)
      <4>1. CASE n = 0
        BY <3>2, <3>7, <3>10, <4>1
      <4>2. CASE n # 0
        <5>1. 1 \in 1 .. n
          BY <3>4, <4>2
        <5> QED
          BY <3>7, <3>10, <4>2, <5>1
      <4> QED
        BY <4>1, <4>2
    <3>12. ASSUME NEW j \in 1 .. n + 1, j # 1 PROVE qq[j].from = qq[j - 1].to
      <4>1. CASE j \in 1 .. n
        <5>1. j - 1 \in 1 .. n
          BY <3>4, <3>12, <4>1
        <5> QED
          BY <3>7, <3>10, <3>12, <4>1, <5>1
      <4>2. CASE j = n + 1
        <5>1. n # 0 /\ n \in 1 .. n /\ j - 1 = n
          BY <3>4, <3>12, <4>2
        <5> QED
          BY <3>2, <3>7, <3>10, <4>2, <5>1
      <4> QED
        BY <3>4, <4>1, <4>2
    <3>13. qq[Len(qq)].to = committed'[k]
      BY <3>2, <3>5, <3>7
    <3> QED
      BY <2>1, <3>6, <3>8, <3>11, <3>12, <3>13 DEF KeyOK
  <2>3. CASE ~(k \in seen /\ Confirmed(k, S(k)))
    <3>1. inserts'[k] = inserts[k] /\ committed'[k] = committed[k]
      BY <1>1, <2>3
    <3> QED
      BY <2>1, <3>1 DEF KeyOK
  <2> QED
    BY <2>2, <2>3
<1> QED
  BY <1>1, <1>4 DEF LogInv

(* An insert that fails spoils its key, and no other.                      *)
LEMMA LossConnected ==
  ASSUME TypeOK, LogInv, NEW k \in Key, LoseInsert(k) PROVE LogInv' /\ log' = log
<1>1. /\ spoiled' = spoiled \union {k} /\ log' = log /\ committed' = committed
      /\ \A l \in Key : l # k => inserts'[l] = inserts[l]
  BY DEF LoseInsert, TypeOK
<1>2. ASSUME NEW l \in Key \ spoiled' PROVE KeyOK(l)'
  <2>1. KeyOK(l) /\ inserts'[l] = inserts[l]
    BY <1>1 DEF LogInv
  <2> QED
    BY <1>1, <2>1 DEF KeyOK, LastTo
<1> QED
  BY <1>1, <1>2 DEF LogInv

(* A boot starts the paths anew at the newest row of each key.             *)
LEMMA RebootConnected == TypeOK /\ Reboot => LogInv' /\ log' = log
<1> SUFFICES ASSUME TypeOK, Reboot PROVE LogInv' /\ log' = log
  OBVIOUS
<1>1. log' = log /\ \A k \in Key : inserts'[k] = <<>> /\ committed'[k] = LastTo(k)
  BY DEF Reboot, Seed
<1>2. ASSUME NEW k \in Key PROVE KeyOK(k)'
  BY <1>1 DEF KeyOK, LastTo
<1> QED
  BY <1>1, <1>2 DEF LogInv

LEMMA LogInductive ==
  ASSUME TypeOK, LogInv, [Next]_vars
  PROVE  /\ LogInv'
         /\ \A k \in Key \ spoiled' :
              log'[k] # log[k] => log'[k][Len(log'[k])].from = LastTo(k)
<1>1. CASE UNCHANGED <<log, inserts, committed, spoiled>>
  BY <1>1 DEF LogInv, KeyOK, LastTo
<1>2. ASSUME NEW p \in Pass, NEW w \in Wallet, Apply(p, w)
      PROVE  LogInv' /\ log' = log
  BY <1>2, ApplyConnected DEF Apply
<1>3. ASSUME NEW k \in Key, Persist(k)
      PROVE  /\ LogInv'
             /\ \A l \in Key \ spoiled' :
                  log'[l] # log[l] => log'[l][Len(log'[l])].from = LastTo(l)
  <2>1. \A l \in Key : l # k => log'[l] = log[l]
    BY <1>3 DEF Persist, TypeOK
  <2> QED
    BY <1>3, <2>1, PersistConnected
<1>4. CASE Reboot
  BY <1>4, RebootConnected
<1>5. ASSUME NEW k \in Key, LoseInsert(k) PROVE LogInv' /\ log' = log
  BY <1>5, LossConnected
<1> QED
  BY <1>1, <1>2, <1>3, <1>4, <1>5 DEF Next, StartPass, BeginScore, ScoreFails, EndPass,
     SyncWatched, ScoreMoves, Subscribe, vars, memory, world, past, bounds

LEMMA LogKept == Spec => [](TypeOK /\ LogInv)
<1>1. TypeOK /\ LogInv /\ [Next]_vars => LogInv'
  BY LogInductive
<1> QED
  BY <1>1, LogInitially, InitTyped, StepTyped, PTL DEF Spec

(* The rows of a key form one path, whatever fails or is overtaken of the  *)
(* inserts of other keys, however passes overlap, subscribers come and go, *)
(* and the worker dies between commit and insert.                          *)
THEOREM LogHolds == Spec => LogConnected
<1>1. TypeOK /\ LogInv /\ [Next]_vars =>
        \A k \in Key \ spoiled' :
          log'[k] # log[k] => log'[k][Len(log'[k])].from = LastTo(k)
  BY LogInductive
<1> QED
  BY <1>1, LogKept, PTL DEF Spec, LogConnected

(* A reboot is transparent: with no insert of a key under way, what it     *)
(* will read from the log is what the worker had committed in memory.      *)
THEOREM RebootIsTransparent == Spec => []RebootTransparent
<1>1. LogInv => RebootTransparent
  BY DEF LogInv, KeyOK, RebootTransparent
<1> QED
  BY <1>1, LogKept, PTL
=============================================================================
