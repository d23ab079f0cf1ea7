--------------------------- MODULE AlertDispatch ---------------------------
(***************************************************************************)
(* The alert dispatcher: dispatchPending (server/watchDispatch.ts), which  *)
(* drains the transitions owed to each subscriber into Telegram, and the   *)
(* timer that starts it (scripts/watch-worker.ts).                         *)
(*                                                                         *)
(* setInterval starts a pass whether or not the last one has ended: Pass   *)
(* is the set of passes that may overlap.  A delivery is a transition with *)
(* a subscriber; a message is sent first and stamped in watch_deliveries   *)
(* afterwards, with awaits between the read, the decision, the send and    *)
(* the stamp.  Every subscriber watches every position and has one chat.   *)
(***************************************************************************)
EXTENDS AlertPolicy, Sequences, FiniteSets

CONSTANTS
  Sub,          \* subscribers
  Position,     \* watched (wallet, protocol) pairs
  Pass,         \* passes of the dispatcher that may overlap
  Setting,      \* settings a subscriber may save
  Facts,        \* what a snapshot may say of a position
  Bands,        \* bands of the scores
  Batch,        \* batchSize
  MaxAttempts,  \* NOTIFY_MAX_ATTEMPTS
  Faults,       \* what may go wrong, a subset of Fault
  MaxRows,      \* bound: transitions written
  MaxTime,      \* bound: the last instant
  MaxCrashes,   \* bound: how often the worker dies
  MaxFailures   \* bound: how many queries of the passes fail

(* "refuse": Telegram refuses a message (429, 5xx, 400).  "ghost": it      *)
(* takes the message and the call fails.  "block": 403, the reader has     *)
(* blocked the bot.                                                        *)
Fault == {"refuse", "ghost", "block"}

ASSUME DispatchConstants ==
  /\ {Batch, MaxAttempts} \subseteq Nat \ {0}
  /\ Faults \subseteq Fault
  /\ {MaxRows, MaxTime, MaxCrashes, MaxFailures} \subseteq Nat

Unresolved == "null"
Nobody     == "nobody"
Delivery   == (1 .. MaxRows) \X Sub

VARIABLES
  \* the database
  log,         \* watch_transitions in the order they were written
  row,         \* row[d]: channel and attempts of delivery d
  linked,      \* subscribers with an enabled Telegram link
  settings,    \* settings[s]
  lastDigest,  \* lastDigest[s]: last_digest_at
  facts,       \* facts[q]: the newest snapshot of q
  \* the passes
  at,          \* at[p]: "off", "next", "send", "block", "stamp", "mark"
  snap,        \* snap[p]: what the drain of p has read
  batch,       \* batch[p]: drained deliveries not looked at yet
  held,        \* held[p]: deliveries put aside for a digest
  current,     \* current[p]: deliveries being sent or stamped
  channel,     \* channel[p]: what will be written for them
  \* the world
  inbox,       \* inbox[s]: the messages s has got, each a set of rows
  now, crashes, failures

stored == <<log, row, linked, settings, lastDigest, facts>>
passes == <<at, snap, batch, held, current, channel>>
world  == <<inbox, now, crashes, failures>>
vars   == <<stored, passes, world>>

----------------------------------------------------------------------------
(* What the queries read.                                                  *)

(* Mutant of Pending: resolved deliveries are drained again.               *)
PendingAll ==
  {d \in (DOMAIN log) \X Sub : d[2] \in linked /\ row[d].attempts < MaxAttempts}

(* DRAIN_SQL before order and limit.                                       *)
Pending ==
  {d \in (DOMAIN log) \X Sub :
     d[2] \in linked /\ row[d].channel = Unresolved /\ row[d].attempts < MaxAttempts}

Snapshot == [settings |-> settings, lastDigest |-> lastDigest, facts |-> facts,
             attempts |-> [d \in Delivery |-> row[d].attempts], time |-> now]
NoSnapshot == [time |-> Never]

(* Mutant of Prior: sorted the other way round.                            *)
PriorOldest(d) ==
  LET S == {i \in DOMAIN log : /\ row[<<i, d[2]>>].channel = "telegram"
                               /\ log[i].pos = log[d[1]].pos
                               /\ log[i].to = "within" => log[d[1]].to = "within"}
  IN  IF S = {} THEN NoPrior
      ELSE LET i == CHOOSE j \in S : \A k \in S : j <= k
           IN  [to |-> log[i].to, at |-> log[i].at]

(* PRIOR_SQL: the newest row of d's position that was sent live to d's     *)
(* chat; an alert looks for the newest alert only.                         *)
Prior(d) ==
  LET S == {i \in DOMAIN log :
              /\ row[<<i, d[2]>>].channel = "telegram"
              /\ log[i].pos = log[d[1]].pos
              /\ log[i].to = "within" => log[d[1]].to = "within"}
  IN  IF S = {} THEN NoPrior
      ELSE LET i == CHOOSE j \in S : \A k \in S : k <= j
           IN  [to |-> log[i].to, at |-> log[i].at]

(* Mutant of First: the drain is sorted the other way round.               *)
Last(d, D) == \A e \in D : d[1] >= e[1]

(* order by t.created_at                                                   *)
First(d, D) == \A e \in D : d[1] <= e[1]
Oldest(D)   == CHOOSE d \in D : First(d, D)

----------------------------------------------------------------------------
(* A pass.                                                                 *)

Drain(p) ==
  /\ at[p] = "off"
  /\ \E B \in SUBSET Pending :
       /\ Cardinality(B) <= Batch
       /\ Cardinality(B) < Batch => B = Pending
       /\ \A d \in B : First(d, Pending \ B)
       /\ batch' = [batch EXCEPT ![p] = B]
  /\ snap' = [snap EXCEPT ![p] = Snapshot]
  /\ at' = [at EXCEPT ![p] = "next"]
  /\ UNCHANGED <<stored, held, current, channel, world>>

QueryFails == failures < MaxFailures /\ failures' = failures + 1

(* The next delivery, oldest first: its prior messages are read, and the   *)
(* decision follows from them and from what the drain has read.  A held    *)
(* delivery is neither stamped nor counted.                                *)
Decide(p) ==
  /\ at[p] = "next"
  /\ \E d \in batch[p] :
       /\ First(d, batch[p])
       /\ batch' = [batch EXCEPT ![p] = @ \ {d}]
       /\ LET a == log[d[1]]
              v == DecideSend(a, snap[p].facts[a.pos], snap[p].settings[d[2]],
                              Prior(d), snap[p].time)
          IN  \/ /\ v = "deferred_quiet"
                 /\ UNCHANGED <<at, held, current, channel>>
              \/ /\ v = "deferred_digest"
                 /\ held' = [held EXCEPT ![p] = @ \union {d}]
                 /\ UNCHANGED <<at, current, channel>>
              \/ /\ v \notin Deferred
                 /\ current' = [current EXCEPT ![p] = {d}]
                 /\ channel' = [channel EXCEPT ![p] = IF v = "send" THEN "telegram" ELSE v]
                 /\ at' = [at EXCEPT ![p] = IF v = "send" THEN "send" ELSE "stamp"]
                 /\ UNCHANGED held
  /\ UNCHANGED <<stored, snap, world>>

(* flushDigests, once the batch is through: the bucket of one subscriber   *)
(* is sent when it is due and let go of otherwise.                         *)
TakeBucket(p) ==
  /\ at[p] = "next" /\ batch[p] = {}
  /\ \E s \in Sub :
       LET D   == {d \in held[p] : d[2] = s}
           due == DigestDueAt(snap[p].settings[s], snap[p].lastDigest[s],
                              log[Oldest(D)[1]].at)
       IN  /\ D # {}
           /\ held' = [held EXCEPT ![p] = @ \ D]
           /\ \/ /\ snap[p].time >= due
                 /\ current' = [current EXCEPT ![p] = D]
                 /\ channel' = [channel EXCEPT ![p] = "digest"]
                 /\ at' = [at EXCEPT ![p] = "send"]
              \/ /\ snap[p].time < due
                 /\ UNCHANGED <<at, current, channel>>
  /\ UNCHANGED <<stored, snap, batch, world>>

Reader(p) == CHOOSE s \in Sub : \E d \in current[p] : d[2] = s

(* One message: a live alert or a digest.                                  *)
Send(p) ==
  /\ at[p] = "send"
  /\ \E took \in BOOLEAN :
       /\ inbox' = IF took THEN [inbox EXCEPT ![Reader(p)] = Append(@, {d[1] : d \in current[p]})]
                   ELSE inbox
       /\ \/ took /\ at' = [at EXCEPT ![p] = "stamp"] /\ UNCHANGED channel
          \/ /\ IF took THEN "ghost" \in Faults ELSE "refuse" \in Faults
             /\ channel' = [channel EXCEPT ![p] = "attempt"]
             /\ at' = [at EXCEPT ![p] = "stamp"]
          \/ /\ ~took /\ "block" \in Faults
             /\ channel' = [channel EXCEPT ![p] = "blocked"]
             /\ at' = [at EXCEPT ![p] = "block"]
  /\ UNCHANGED <<stored, snap, batch, held, current, now, crashes, failures>>

(* onBlocked: the link is disabled; a failure to do so is only logged.     *)
Block(p) ==
  /\ at[p] = "block"
  /\ \/ linked' = linked \ {Reader(p)} /\ UNCHANGED failures
     \/ QueryFails /\ UNCHANGED linked
  /\ at' = [at EXCEPT ![p] = "stamp"]
  /\ UNCHANGED <<log, row, settings, lastDigest, facts, snap, batch, held, current, channel,
                 inbox, now, crashes>>

(* Mutant of Outcome: the last attempt counts as sent.                     *)
OutcomeGivenUp(p, d) ==
  LET n == snap[p].attempts[d] + 1
  IN  [channel |-> IF channel[p] # "attempt" THEN channel[p]
                   ELSE IF n < MaxAttempts THEN row[d].channel ELSE "telegram",
       attempts |-> n]

(* The row that STAMP_SQL or ATTEMPT_SQL writes.  recordSendFailure        *)
(* retires the delivery with its last attempt.                             *)
Outcome(p, d) ==
  LET n == snap[p].attempts[d]
  IN  CASE channel[p] = "attempt" /\ n + 1 < MaxAttempts -> [row[d] EXCEPT !.attempts = n + 1]
        [] channel[p] = "attempt" /\ n + 1 >= MaxAttempts ->
             [channel |-> "undeliverable", attempts |-> n + 1]
        [] channel[p] \in {"telegram", "digest", "blocked"} ->
             [channel |-> channel[p], attempts |-> n + 1]
        [] OTHER -> [channel |-> channel[p], attempts |-> n]

(* d is dealt with: the next delivery of a digest is, or the pass goes on. *)
Done(p, d) ==
  /\ current' = [current EXCEPT ![p] = IF @ = {d} /\ channel[p] = "digest" THEN @ ELSE @ \ {d}]
  /\ at' = [at EXCEPT ![p] = IF current[p] # {d} THEN "stamp"
                             ELSE IF channel[p] = "digest" THEN "mark" ELSE "next"]
  /\ channel' = [channel EXCEPT ![p] = IF current[p] = {d} THEN Unresolved ELSE @]

Stamp(p) ==
  /\ at[p] = "stamp"
  /\ LET d == Oldest(current[p])
     IN  /\ row' = [row EXCEPT ![d] = Outcome(p, d)]
         /\ Done(p, d)
  /\ UNCHANGED <<log, linked, settings, lastDigest, facts, snap, batch, held, world>>

(* A failure to count an attempt is only logged.                           *)
CountFails(p) ==
  /\ at[p] = "stamp" /\ channel[p] = "attempt"
  /\ QueryFails
  /\ Done(p, Oldest(current[p]))
  /\ UNCHANGED <<stored, snap, batch, held, inbox, now, crashes>>

(* markDigestSent; a failure is only logged.                               *)
MarkDigest(p) ==
  /\ at[p] = "mark"
  /\ \/ lastDigest' = [lastDigest EXCEPT ![Reader(p)] = now] /\ UNCHANGED failures
     \/ QueryFails /\ UNCHANGED lastDigest
  /\ current' = [current EXCEPT ![p] = {}]
  /\ at' = [at EXCEPT ![p] = "next"]
  /\ UNCHANGED <<log, row, linked, settings, facts, snap, batch, held, channel,
                 inbox, now, crashes>>

Idle(p) ==
  /\ at' = [at EXCEPT ![p] = "off"]
  /\ snap' = [snap EXCEPT ![p] = NoSnapshot]
  /\ batch' = [batch EXCEPT ![p] = {}]
  /\ held' = [held EXCEPT ![p] = {}]
  /\ current' = [current EXCEPT ![p] = {}]
  /\ channel' = [channel EXCEPT ![p] = Unresolved]

EndPass(p) ==
  /\ at[p] = "next" /\ batch[p] = {} /\ held[p] = {}
  /\ Idle(p)
  /\ UNCHANGED <<stored, world>>

(* Any other query that fails ends the pass, a stamp after a send too.     *)
PassThrows(p) ==
  /\ at[p] = "next" \/ (at[p] = "stamp" /\ channel[p] # "attempt")
  /\ QueryFails
  /\ Idle(p)
  /\ UNCHANGED <<stored, inbox, now, crashes>>

----------------------------------------------------------------------------
(* The world.                                                              *)

Crash ==
  /\ crashes < MaxCrashes
  /\ crashes' = crashes + 1
  /\ at' = [p \in Pass |-> "off"]
  /\ snap' = [p \in Pass |-> NoSnapshot]
  /\ batch' = [p \in Pass |-> {}] /\ held' = [p \in Pass |-> {}]
  /\ current' = [p \in Pass |-> {}] /\ channel' = [p \in Pass |-> Unresolved]
  /\ UNCHANGED <<stored, inbox, now, failures>>

LastStatus(q) ==
  LET S == {i \in DOMAIN log : log[i].pos = q}
  IN  IF S = {} THEN "none" ELSE log[CHOOSE i \in S : \A j \in S : j <= i].to

(* The scoring loop writes a transition.                                   *)
Cross(q) ==
  /\ Len(log) < MaxRows
  /\ \E to \in {"within", "approaching", "outside"} \ {LastStatus(q)}, band \in Bands :
       log' = Append(log, [pos |-> q, to |-> to, band |-> band, at |-> now])
  /\ UNCHANGED <<row, linked, settings, lastDigest, facts, passes, world>>

NewSnapshot(q) ==
  /\ \E f \in Facts \ {facts[q]} : facts' = [facts EXCEPT ![q] = f]
  /\ UNCHANGED <<log, row, linked, settings, lastDigest, passes, world>>

SaveSettings(s) ==
  /\ \E new \in Setting \ {settings[s]} : settings' = [settings EXCEPT ![s] = new]
  /\ UNCHANGED <<log, row, linked, lastDigest, facts, passes, world>>

Relink(s) ==
  /\ s \notin linked
  /\ linked' = linked \union {s}
  /\ UNCHANGED <<log, row, settings, lastDigest, facts, passes, world>>

Elapse ==
  /\ now < MaxTime
  /\ now' = now + 1
  /\ UNCHANGED <<stored, passes, inbox, crashes, failures>>

----------------------------------------------------------------------------
Init ==
  /\ log = <<>>
  /\ row = [d \in Delivery |-> [channel |-> Unresolved, attempts |-> 0]]
  /\ linked = Sub
  /\ settings \in [Sub -> Setting]
  /\ lastDigest = [s \in Sub |-> Never]
  /\ facts \in [Position -> Facts]
  /\ at = [p \in Pass |-> "off"]
  /\ snap = [p \in Pass |-> NoSnapshot]
  /\ batch = [p \in Pass |-> {}] /\ held = [p \in Pass |-> {}]
  /\ current = [p \in Pass |-> {}] /\ channel = [p \in Pass |-> Unresolved]
  /\ inbox = [s \in Sub |-> <<>>]
  /\ now = 0 /\ crashes = 0 /\ failures = 0

Advance(p) ==
  \/ Decide(p) \/ TakeBucket(p) \/ Send(p) \/ Block(p) \/ Stamp(p)
  \/ CountFails(p) \/ MarkDigest(p) \/ EndPass(p) \/ PassThrows(p)

Next ==
  \/ \E p \in Pass : Drain(p) \/ Advance(p)
  \/ \E q \in Position : Cross(q) \/ NewSnapshot(q)
  \/ \E s \in Sub : SaveSettings(s) \/ Relink(s)
  \/ Crash \/ Elapse

Spec == Init /\ [][Next]_vars

(* The timer keeps firing, and every await of a pass ends.                 *)
FairSpec == Spec /\ \A p \in Pass : WF_vars(Drain(p)) /\ WF_vars(Advance(p))

----------------------------------------------------------------------------
(* Properties.                                                             *)

Channel == {"telegram", "digest", "blocked", "undeliverable"} \union (Verdict \ Deferred)

Row == [pos : Position, to : {"within", "approaching", "outside"}, band : Bands,
        at : 0 .. MaxTime]

TypeOK ==
  /\ log \in Seq(Row) /\ Len(log) <= MaxRows
  /\ row \in [Delivery -> [channel : (Channel \ {"send"}) \union {Unresolved},
                          attempts : 0 .. MaxAttempts]]
  /\ linked \subseteq Sub
  /\ settings \in [Sub -> Setting] /\ facts \in [Position -> Facts]
  /\ lastDigest \in [Sub -> 0 .. MaxTime \union {Never}]
  /\ at \in [Pass -> {"off", "next", "send", "block", "stamp", "mark"}]
  /\ batch \in [Pass -> SUBSET Delivery] /\ held \in [Pass -> SUBSET Delivery]
  /\ current \in [Pass -> SUBSET Delivery]
  /\ channel \in [Pass -> Channel \union {Unresolved, "attempt"}]
  /\ inbox \in [Sub -> Seq(SUBSET (1 .. MaxRows))]

Copies(d) == Cardinality({m \in DOMAIN inbox[d[2]] : d[1] \in inbox[d[2]][m]})

(* A transition reaches a reader at most once per pass that may overlap    *)
(* and per life of the worker, and once more per query that fails, however *)
(* often Telegram refuses it.                                              *)
SendsBounded ==
  \A d \in Delivery : Copies(d) <= Cardinality(Pass) * (crashes + 1) + failures

(* The ledger never counts as told what the reader was not told.           *)
LedgerTruthful ==
  \A d \in Delivery : row[d].channel \in {"telegram", "digest"} => Copies(d) > 0

(* An outcome, once written, is not rewritten by a later pass: the         *)
(* messages a cooldown is measured from do not disappear.                  *)
OutcomeFinal ==
  [][\A d \in Delivery : row[d].channel # Unresolved =>
       row'[d].channel = row[d].channel]_vars

Critical(i) == log[i].to # "within" /\ IsCritical(log[i])

(* "Nothing critical can be in here": however settings change while a pass *)
(* runs, what it puts aside for a digest is not critical, and no digest    *)
(* carries a critical alert.                                               *)
DigestNotCritical ==
  \A p \in Pass :
    /\ \A d \in held[p] : d[1] \in DOMAIN log /\ ~Critical(d[1])
    /\ channel[p] = "digest" => \A d \in current[p] : d[1] \in DOMAIN log /\ ~Critical(d[1])

SentLive(i, s) == row[<<i, s>>].channel = "telegram"

(* "Same-severity re-crossings are suppressed": two live alerts of one     *)
(* severity about a position are a cooldown apart.                         *)
SameSeverityOnce ==
  \A s \in Sub : \A i, j \in DOMAIN log :
    /\ i < j /\ SentLive(i, s) /\ SentLive(j, s)
    /\ log[i].pos = log[j].pos /\ log[i].to = log[j].to /\ log[i].to # "within"
    => \E w \in Setting : log[j].at - log[i].at >= EffectiveCooldown(w, IsCritical(log[j]))

(* The status that the last message about q has told s.                    *)
About(q, s) == {m \in DOMAIN inbox[s] : \E i \in inbox[s][m] : log[i].pos = q}
Told(q, s) ==
  LET m    == CHOOSE k \in About(q, s) : \A n \in About(q, s) : n <= k
      rows == {i \in inbox[s][m] : log[i].pos = q}
  IN  log[CHOOSE i \in rows : \A j \in rows : j <= i].to

(* Nobody is left with an alarm about a position that has recovered: when  *)
(* every delivery about it is resolved, the last message is the all-clear. *)
NoDanglingAlarm ==
  \A s \in Sub, q \in Position :
    /\ \A p \in Pass : at[p] = "off"
    /\ \A i \in DOMAIN log : log[i].pos = q => row[<<i, s>>].channel # Unresolved
    /\ LastStatus(q) = "within" /\ About(q, s) # {}
    => Told(q, s) = "within"

CriticalPending(d) ==
  /\ d[1] <= Len(log) /\ d[2] \in linked
  /\ row[d].channel = Unresolved
  /\ Critical(d[1])

(* A critical alert is decided in the end, whatever its reader prefers,    *)
(* and however often sends of it fail or the worker dies.                  *)
CriticalResolved ==
  \A d \in Delivery : CriticalPending(d) ~> ~CriticalPending(d)
=============================================================================
