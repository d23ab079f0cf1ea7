------------------------------ MODULE Relayer ------------------------------
(***************************************************************************)
(* The exit relayer: server/exitRelayer.ts with its attempt ledger         *)
(* (server/relayerAttemptStore.ts, table relayer_attempts), its signer     *)
(* pool (server/relayerSigner.ts), its submission limits                   *)
(* (server/relayerPolicy.ts) and the timer that starts it                  *)
(* (scripts/watch-worker.ts).                                              *)
(*                                                                         *)
(* A pass (runRelayerTick) is started by setInterval without asking        *)
(* whether the previous pass has ended, so several passes run at once in   *)
(* one process; Tick is the set of passes that may overlap.  JavaScript    *)
(* runs a pass without interruption from one await to the next: an action  *)
(* below is such a stretch, and the control state at[t] names the await    *)
(* the pass is suspended in.                                               *)
(*                                                                         *)
(* The mempool, the chain and the executor contract are the environment.   *)
(* A permit is executed by PanikExecutor.atomicExitFor, which checks that  *)
(* the permit is still valid and that the owner's position is in distress. *)
(***************************************************************************)
EXTENDS Integers, FiniteSets

CONSTANTS
  Wallet,       \* position owners
  Permit,       \* signed ExitPermits
  Owner,        \* Owner[p]: the wallet that signed permit p
  Age,          \* Age[p]: rank of p's delegation row by created_at
  Tick,         \* relayer passes that may overlap
  NSigners,     \* size of the signer pool
  Hash,         \* hashes of the transactions that may be broadcast
  MaxAttempts,  \* limits.maxAttemptsPerPermit
  MaxPerTick,   \* limits.maxSubmissionsPerTick
  MaxPerHour,   \* limits.maxSubmissionsPerHour
  MaxCrashes,   \* bound: how often the process dies
  Faults        \* what the environment may do wrong, a subset of Fault

None == "none"

(* "store": the ledger refuses a request.  "reply": the ledger applies a   *)
(* write and the reply is lost.  "send": a broadcast reaches the mempool   *)
(* and the call fails.  "evict": a node drops a pending transaction.       *)
Fault == {"store", "reply", "send", "evict"}

ASSUME ConstantsOK ==
  /\ Owner \in [Permit -> Wallet]
  /\ Age \in [Permit -> Nat]
  /\ \A p, q \in Permit : Owner[p] = Owner[q] /\ Age[p] = Age[q] => p = q
  /\ NSigners \in Nat \ {0}
  /\ MaxAttempts \in Nat
  /\ MaxPerTick \in Nat
  /\ MaxPerHour \in Nat
  /\ MaxCrashes \in Nat
  /\ Faults \subseteq Fault

ASSUME SomePasses == IsFiniteSet(Tick) /\ Tick # {}

ASSUME NoneIsNoPermit == None \notin Permit \union Hash

Signer == 0 .. NSigners - 1

VARIABLES
  \* durable: the table relayer_attempts
  status,    \* status[p]: the row's status, None while there is no row
  attempts,  \* attempts[p]: the row's attempt counter
  \* the process: RelayerSignerPool and SubmissionRateWindow
  busy,      \* signers in the pool's busy set
  next,      \* next[s]: the cached nonce of s, -1 while there is none
  cursor,    \* where the round robin resumes
  hourly,    \* submissions recorded in the trailing hour
  crashes,   \* how often the process has died
  \* the process: the passes
  at,        \* at[t]: the await pass t is suspended in
  todo,      \* todo[t]: the candidates (with a fired trigger) left to visit
  permit,    \* permit[t]: the permit the pass has chosen
  lease,     \* lease[t]: the signer it has leased, -1 for none
  nonce,     \* nonce[t]: the nonce of that lease
  seen,      \* seen[t]: the attempt counter a re-claim has read
  hash,      \* hash[t]: the broadcast it waits for
  done,      \* done[t]: submittedThisTick
  \* the environment: mempool, chain, executor contract, lending pools
  tx,        \* tx[h]: the transaction broadcast under hash h
  mined,     \* mined[s]: the number of transactions of s in the chain
  dead,      \* permits the executor refuses for good: nonce bit set,
             \* deadline passed, or signed for a past revocation epoch
  distress   \* wallets whose health factor is under their triggers

ledger  == <<status, attempts>>
pool    == <<busy, next, cursor>>
process == <<busy, next, cursor, hourly, crashes>>
locals  == <<todo, permit, lease, nonce, seen, hash, done>>
chain   == <<tx, mined, dead, distress>>
vars    == <<ledger, process, at, locals, chain>>

----------------------------------------------------------------------------
(* The environment's view of the transactions.                             *)

Unsent == [permit |-> None, signer |-> -1, nonce |-> -1, state |-> "unsent"]

Fresh     == {h \in Hash : tx[h].state = "unsent"}
Pending   == {h \in Hash : tx[h].state = "pending"}
Landed(h) == tx[h].state \in {"success", "reverted"}

Slot(h) == <<tx[h].signer, tx[h].nonce>>

(* Slots ever given to a broadcast of p: a fee bump re-uses the slot.      *)
SlotsOf(p) == {Slot(h) : h \in {g \in Hash : tx[g].permit = p}}

(* n is what eth_getTransactionCount(s, "pending") returns: the first      *)
(* nonce of s with nothing mined and nothing waiting under it.             *)
IsPendingNonce(s, n) ==
  LET waiting == {tx[h].nonce : h \in {g \in Pending : tx[g].signer = s}}
  IN  /\ n >= mined[s] /\ n \notin waiting
      /\ \A m \in mined[s] .. n - 1 : m \in waiting

(* PanikExecutor accepts p: nonce bit unset, deadline and epoch current,   *)
(* health factor under the signed trigger.                                 *)
Executable(p) == p \notin dead /\ Owner[p] \in distress

(* The permits of w that liveDelegationsFor still returns.                 *)
Live(w) == {p \in Permit : Owner[p] = w /\ p \notin dead}

----------------------------------------------------------------------------
(* A pass, up to the choice of a permit.                                   *)

(* setInterval fires: the pass takes the latest scores of some wallets;    *)
(* those whose health factor was above every trigger would be skipped.     *)
StartTick(t) ==
  /\ at[t] = "off"
  /\ \E seenDistressed \in SUBSET distress \ {{}} :
       todo' = [todo EXCEPT ![t] = seenDistressed]
  /\ at' = [at EXCEPT ![t] = "loop"]
  /\ done' = [done EXCEPT ![t] = 0]
  /\ UNCHANGED <<ledger, process, permit, lease, nonce, seen, hash, chain>>

EndTick(t) ==
  /\ at[t] = "loop" /\ todo[t] = {}
  /\ at' = [at EXCEPT ![t] = "off"]
  /\ done' = [done EXCEPT ![t] = 0]
  /\ UNCHANGED <<ledger, process, todo, permit, lease, nonce, seen, hash, chain>>

(* selectDelegation: the newest live permit whose trigger has fired, and   *)
(* no other one, however often that permit has failed.  Without a live     *)
(* permit, or when a read fails, the candidate is skipped.                 *)
Select(t) ==
  /\ at[t] = "loop"
  /\ \E w \in todo[t] :
       /\ todo' = [todo EXCEPT ![t] = @ \ {w}]
       /\ \/ UNCHANGED <<at, permit>>
          \/ \E p \in Live(w) :
               /\ \A q \in Live(w) : Age[q] <= Age[p]
               /\ permit' = [permit EXCEPT ![t] = p]
               /\ at' = [at EXCEPT ![t] = "vet"]
  /\ UNCHANGED <<ledger, process, lease, nonce, seen, hash, done, chain>>

(* continue: the pass drops this candidate and everything it holds for it. *)
Drop(t) ==
  /\ at' = [at EXCEPT ![t] = "loop"]
  /\ permit' = [permit EXCEPT ![t] = None]
  /\ lease' = [lease EXCEPT ![t] = -1]
  /\ nonce' = [nonce EXCEPT ![t] = -1]
  /\ seen' = [seen EXCEPT ![t] = 0]
  /\ hash' = [hash EXCEPT ![t] = None]
  /\ UNCHANGED todo

(* Mutant of UnderCaps: a cap is refused only once it is exceeded.         *)
UnderCapsOrAt(t) == done[t] <= MaxPerTick /\ hourly <= MaxPerHour

(* The submissions counted so far leave room for one more.                 *)
UnderCaps(t) == done[t] < MaxPerTick /\ hourly < MaxPerHour

(* Nonce check, legs, submission caps.  Any of the reads may fail, so      *)
(* skipping is always possible.                                            *)
CheckCaps(t) ==
  /\ at[t] = "vet"
  /\ \/ Drop(t)
     \/ /\ UnderCaps(t)
        /\ at' = [at EXCEPT ![t] = "simulate"]
        /\ UNCHANGED <<todo, permit, lease, nonce, seen, hash>>
  /\ UNCHANGED <<ledger, process, done, chain>>

(* The simulation is an await of its own: the caps are not looked at again *)
(* after it.  It may fail for reasons outside the model (slippage, gas).   *)
Simulate(t) ==
  /\ at[t] = "simulate"
  /\ \/ Drop(t)
     \/ /\ Executable(permit[t])
        /\ at' = [at EXCEPT ![t] = "acquire"]
        /\ UNCHANGED <<todo, permit, lease, nonce, seen, hash>>
  /\ UNCHANGED <<ledger, process, done, chain>>

----------------------------------------------------------------------------
(* submitOnce: the lease.                                                  *)

(* Mutant of FirstFree: the round robin does not look at the busy set.     *)
NextInTurn(s) == s = cursor

(* RelayerSignerPool.acquire picks s: the first free signer from cursor.   *)
FirstFree(s) ==
  \E i \in 0 .. NSigners - 1 :
    /\ s = (cursor + i) % NSigners
    /\ s \notin busy
    /\ \A j \in 0 .. i - 1 : (cursor + j) % NSigners \in busy

(* Mutant of Acquire: the round robin runs past the end of the pool.       *)
AcquireNoWrap(t) ==
  /\ at[t] = "acquire"
  /\ \E s \in Signer :
       /\ FirstFree(s)
       /\ busy' = busy \union {s} /\ cursor' = s + 1
       /\ lease' = [lease EXCEPT ![t] = s]
  /\ at' = [at EXCEPT ![t] = "pin"]
  /\ UNCHANGED <<ledger, next, hourly, crashes, todo, permit, nonce, seen, hash, done, chain>>

(* acquire returned null: no_free_signer, the candidate is skipped.        *)
NoFreeSigner(t) ==
  /\ at[t] = "acquire"
  /\ Signer \subseteq busy
  /\ Drop(t)
  /\ UNCHANGED <<ledger, process, done, chain>>

Acquire(t) ==
  /\ at[t] = "acquire"
  /\ \E s \in Signer :
       /\ FirstFree(s)
       /\ busy' = busy \union {s}
       /\ cursor' = (s + 1) % NSigners
       /\ lease' = [lease EXCEPT ![t] = s]
  /\ at' = [at EXCEPT ![t] = "pin"]
  /\ UNCHANGED <<ledger, next, hourly, crashes, todo, permit, nonce, seen, hash, done, chain>>

(* beginOperation and claimNonce: the cached nonce, or the node's; when    *)
(* no endpoint answers, acquire throws and the signer is free again.       *)
PinNonce(t) ==
  /\ at[t] = "pin"
  /\ LET s == lease[t]
     IN  \/ \E n \in 0 .. Cardinality(Hash) + 1 :
             /\ n = next[s] \/ (next[s] = -1 /\ IsPendingNonce(s, n))
             /\ nonce' = [nonce EXCEPT ![t] = n]
             /\ next' = [next EXCEPT ![s] = n]
             /\ at' = [at EXCEPT ![t] = "leased"]
             /\ UNCHANGED <<busy, todo, permit, lease, seen, hash>>
         \/ /\ busy' = busy \ {s}
            /\ Drop(t)
            /\ UNCHANGED next
  /\ UNCHANGED <<ledger, cursor, hourly, crashes, done, chain>>

(* Mutant of Release: every release rewinds to the lease's nonce.          *)
ReleaseRewinding(t, landed) ==
  /\ busy' = busy \ {lease[t]}
  /\ next' = [next EXCEPT ![lease[t]] = nonce[t]]
  /\ UNCHANGED <<cursor, hourly, crashes>>

(* lease.release(landed) of the lease that t holds.                        *)
Release(t, landed) ==
  /\ busy' = busy \ {lease[t]}
  /\ next' = [next EXCEPT ![lease[t]] = IF landed THEN nonce[t] + 1 ELSE nonce[t]]
  /\ UNCHANGED <<cursor, hourly, crashes>>

(* The two early returns of submitOnce: they leave the signer in the busy  *)
(* set, and nobody holds its lease any more.                               *)
BalanceLow(t) ==
  /\ at[t] = "leased"
  /\ Drop(t)
  /\ UNCHANGED <<ledger, process, done, chain>>

ClaimRefused(t) ==
  /\ at[t] = "leased"
  /\ \/ status[permit[t]] \in {"in_flight", "succeeded"}
     \/ status[permit[t]] = "failed" /\ attempts[permit[t]] >= MaxAttempts
  /\ Drop(t)
  /\ UNCHANGED <<ledger, process, done, chain>>

(* The insert of a new row; the unique index admits one.                   *)
InsertRow(p) ==
  /\ status[p] = None
  /\ status' = [status EXCEPT ![p] = "in_flight"]
  /\ attempts' = [attempts EXCEPT ![p] = 1]

(* Mutants of ReopenRow: the update also takes rows in flight; it allows   *)
(* one attempt too many.                                                   *)
ReopenAnyRow(p) ==
  /\ status[p] \in {"failed", "in_flight"} /\ attempts[p] < MaxAttempts
  /\ status' = [status EXCEPT ![p] = "in_flight"]
  /\ UNCHANGED attempts

ReopenRowOnceMore(p) ==
  /\ status[p] = "failed" /\ attempts[p] <= MaxAttempts
  /\ status' = [status EXCEPT ![p] = "in_flight"]
  /\ UNCHANGED attempts

(* The conditional update of a failed row with attempts left.              *)
ReopenRow(p) ==
  /\ status[p] = "failed"
  /\ attempts[p] < MaxAttempts
  /\ status' = [status EXCEPT ![p] = "in_flight"]
  /\ UNCHANGED attempts

ClaimInsert(t) ==
  /\ at[t] = "leased"
  /\ InsertRow(permit[t])
  /\ at' = [at EXCEPT ![t] = "send"]
  /\ UNCHANGED <<process, locals, chain>>

ClaimReopen(t) ==
  /\ at[t] = "leased"
  /\ ReopenRow(permit[t])
  /\ seen' = [seen EXCEPT ![t] = attempts[permit[t]]]
  /\ at' = [at EXCEPT ![t] = "bump"]
  /\ UNCHANGED <<process, todo, permit, lease, nonce, hash, done, chain>>

(* claim, or the balance read before it, throws: nothing is claimed, so    *)
(* the catch only rewinds the lease.  The row may be written all the same. *)
ClaimThrows(t) ==
  /\ at[t] = "leased"
  /\ \/ UNCHANGED ledger
     \/ "reply" \in Faults /\ (InsertRow(permit[t]) \/ ReopenRow(permit[t]))
  /\ Release(t, FALSE)
  /\ Drop(t)
  /\ UNCHANGED <<done, chain>>

(* The second update of a re-claim counts the attempt.  A refusal of it is *)
(* not looked at; a network failure makes claim throw, and the row stays   *)
(* in flight because the caller does not know that it claimed it.          *)
CountAttempt(t) ==
  /\ at[t] = "bump"
  /\ \/ attempts' = [attempts EXCEPT ![permit[t]] = seen[t] + 1]
     \/ "store" \in Faults /\ UNCHANGED attempts
  /\ seen' = [seen EXCEPT ![t] = 0]
  /\ at' = [at EXCEPT ![t] = "send"]
  /\ UNCHANGED <<status, process, todo, permit, lease, nonce, hash, done, chain>>

CountThrows(t) ==
  /\ at[t] = "bump" /\ "store" \in Faults
  /\ Release(t, FALSE)
  /\ Drop(t)
  /\ UNCHANGED <<ledger, done, chain>>

----------------------------------------------------------------------------
(* submitOnce: broadcast, receipt, replacement.                            *)

(* A node takes h with signer s, nonce n for permit p: what waited in that *)
(* slot is replaced.                                                       *)
Broadcast(h, p, s, n) ==
  /\ h \in Fresh
  /\ n >= mined[s]
  /\ tx' = [g \in Hash |->
       IF g = h THEN [permit |-> p, signer |-> s, nonce |-> n, state |-> "pending"]
       ELSE IF tx[g].state = "pending" /\ Slot(g) = <<s, n>>
            THEN [tx[g] EXCEPT !.state = "replaced"]
            ELSE tx[g]]
  /\ UNCHANGED <<mined, dead, distress>>

Send(t) ==
  /\ at[t] = "send"
  /\ \E h \in Hash :
       /\ Broadcast(h, permit[t], lease[t], nonce[t])
       /\ hash' = [hash EXCEPT ![t] = h]
  /\ at' = [at EXCEPT ![t] = "wait"]
  /\ UNCHANGED <<ledger, process, todo, permit, lease, nonce, seen, done>>

(* The catch of submitOnce after a successful claim: the lease is rewound  *)
(* (unless released before), then the row is marked failed.                *)
Rewind(t) ==
  /\ Release(t, FALSE)
  /\ lease' = [lease EXCEPT ![t] = -1]
  /\ nonce' = [nonce EXCEPT ![t] = -1]
  /\ at' = [at EXCEPT ![t] = "abort"]

(* The fee read or the broadcast throws; a broadcast that timed out may    *)
(* have reached the mempool.                                               *)
SendThrows(t) ==
  /\ at[t] = "send"
  /\ \/ UNCHANGED chain
     \/ "send" \in Faults /\ \E h \in Hash : Broadcast(h, permit[t], lease[t], nonce[t])
  /\ Rewind(t)
  /\ UNCHANGED <<ledger, todo, permit, seen, hash, done>>

(* The receipt is there: the lease is released as landed.                  *)
Receipt(t) ==
  /\ Landed(hash[t])
  /\ Release(t, TRUE)
  /\ lease' = [lease EXCEPT ![t] = -1]
  /\ nonce' = [nonce EXCEPT ![t] = -1]
  /\ at' = [at EXCEPT ![t] = "settle"]
  /\ UNCHANGED <<todo, permit, seen, hash>>

Mined(t) ==
  /\ at[t] \in {"wait", "rewait"}
  /\ Receipt(t)
  /\ UNCHANGED <<ledger, done, chain>>

(* No receipt for stuckAfterMs; a failing receipt read counts as none.     *)
Timeout(t) ==
  /\ at[t] \in {"wait", "rewait"}
  /\ at' = [at EXCEPT ![t] = IF @ = "wait" THEN "replace" ELSE "unmined"]
  /\ UNCHANGED <<ledger, process, locals, chain>>

Replace(t) ==
  /\ at[t] = "replace"
  /\ \E h \in Hash :
       /\ Broadcast(h, permit[t], lease[t], nonce[t])
       /\ hash' = [hash EXCEPT ![t] = h]
  /\ at' = [at EXCEPT ![t] = "rewait"]
  /\ UNCHANGED <<ledger, process, todo, permit, lease, nonce, seen, done>>

(* A stale sequencer, or a refused replacement and no receipt of the       *)
(* original: the submission is unmined.  With a receipt it is settled.     *)
NoReplacement(t) ==
  /\ at[t] = "replace"
  /\ \/ /\ \/ UNCHANGED chain
           \/ "send" \in Faults /\ \E h \in Hash : Broadcast(h, permit[t], lease[t], nonce[t])
        /\ at' = [at EXCEPT ![t] = "unmined"]
        /\ UNCHANGED <<process, todo, permit, lease, nonce, seen, hash>>
     \/ Receipt(t) /\ UNCHANGED chain
  /\ UNCHANGED <<ledger, done>>

----------------------------------------------------------------------------
(* submitOnce: the outcome.                                                *)

(* SupabaseRelayerAttemptStore.finish: an unconditional update of the row. *)
FinishRow(p, s) ==
  /\ status' = [status EXCEPT ![p] = s]
  /\ UNCHANGED attempts

(* finish throws: refused, or applied with the reply lost.                 *)
FinishThrows(p, s) ==
  \/ "store" \in Faults /\ UNCHANGED ledger
  \/ "reply" \in Faults /\ FinishRow(p, s)

(* Mutant of Unmined: without a receipt the row is left as it is.          *)
UnminedUnmarked(t) ==
  /\ at[t] = "unmined"
  /\ Release(t, TRUE) /\ Drop(t)
  /\ UNCHANGED <<ledger, done, chain>>

(* No receipt: the row is marked failed, and only then is the lease        *)
(* released as landed; when the mark throws, the catch rewinds it.         *)
Unmined(t) ==
  /\ at[t] = "unmined"
  /\ \/ FinishRow(permit[t], "failed") /\ Release(t, TRUE) /\ Drop(t)
     \/ /\ FinishThrows(permit[t], "failed")
        /\ Rewind(t)
        /\ UNCHANGED <<todo, permit, seen, hash>>
  /\ UNCHANGED <<done, chain>>

(* Mutant of Outcome: a receipt counts as a success, reverted or not.      *)
AnyReceiptSucceeds(h) == "succeeded"

Outcome(h) == IF tx[h].state = "success" THEN "succeeded" ELSE "failed"

(* A receipt: the row takes its outcome, and a success is counted against  *)
(* the caps of the pass and of the hour.                                   *)
Settle(t) ==
  /\ at[t] = "settle"
  /\ FinishRow(permit[t], Outcome(hash[t]))
  /\ LET won == IF Outcome(hash[t]) = "succeeded" THEN 1 ELSE 0
     IN  /\ done' = [done EXCEPT ![t] = @ + won]
         /\ hourly' = hourly + won
  /\ Drop(t)
  /\ UNCHANGED <<pool, crashes, chain>>

SettleThrows(t) ==
  /\ at[t] = "settle"
  /\ FinishThrows(permit[t], Outcome(hash[t]))
  /\ at' = [at EXCEPT ![t] = "abort"]
  /\ UNCHANGED <<process, locals, chain>>

Abort(t) ==
  /\ at[t] = "abort"
  /\ \/ FinishRow(permit[t], "failed")
     \/ "store" \in Faults /\ UNCHANGED ledger
  /\ Drop(t)
  /\ UNCHANGED <<process, done, chain>>

(* The process dies and starts again: every pass and all its memory go.    *)
Crash ==
  /\ crashes < MaxCrashes
  /\ crashes' = crashes + 1
  /\ busy' = {} /\ next' = [s \in Signer |-> -1] /\ cursor' = 0 /\ hourly' = 0
  /\ at' = [t \in Tick |-> "off"]
  /\ todo' = [t \in Tick |-> {}]
  /\ permit' = [t \in Tick |-> None]
  /\ lease' = [t \in Tick |-> -1]
  /\ nonce' = [t \in Tick |-> -1]
  /\ seen' = [t \in Tick |-> 0]
  /\ hash' = [t \in Tick |-> None]
  /\ done' = [t \in Tick |-> 0]
  /\ UNCHANGED <<ledger, chain>>

----------------------------------------------------------------------------
(* The environment.                                                        *)

(* SubmissionRateWindow.prune: the oldest recorded submission is an hour   *)
(* old.                                                                    *)
HourPasses ==
  /\ hourly > 0
  /\ hourly' = hourly - 1
  /\ UNCHANGED <<ledger, pool, crashes, at, locals, chain>>

(* A signer's transactions are included in the order of their nonces.  The *)
(* contract spends the nonce bit in the call that exits, so a revert       *)
(* leaves it unset.                                                        *)
Mine(h) ==
  /\ tx[h].state = "pending"
  /\ tx[h].nonce = mined[tx[h].signer]
  /\ mined' = [mined EXCEPT ![tx[h].signer] = @ + 1]
  /\ \/ /\ Executable(tx[h].permit)
        /\ tx' = [tx EXCEPT ![h].state = "success"]
        /\ dead' = dead \union {tx[h].permit}
     \/ /\ tx' = [tx EXCEPT ![h].state = "reverted"]
        /\ UNCHANGED dead
  /\ UNCHANGED <<ledger, process, at, locals, distress>>

Evict(h) ==
  /\ "evict" \in Faults
  /\ tx[h].state = "pending"
  /\ tx' = [tx EXCEPT ![h].state = "evicted"]
  /\ UNCHANGED <<ledger, process, at, locals, mined, dead, distress>>

(* invalidateUnorderedNonces, or the deadline of p passes.                 *)
Lapse(p) ==
  /\ dead' = dead \union {p}
  /\ UNCHANGED <<ledger, process, at, locals, tx, mined, distress>>

(* revokeAll moves w's epoch on, past every permit signed so far.          *)
RevokeAll(w) ==
  /\ dead' = dead \union {p \in Permit : Owner[p] = w}
  /\ UNCHANGED <<ledger, process, at, locals, tx, mined, distress>>

(* The health factor of w crosses its triggers, down or up.                *)
MarketMoves(w) ==
  /\ distress' = IF w \in distress THEN distress \ {w} ELSE distress \union {w}
  /\ UNCHANGED <<ledger, process, at, locals, tx, mined, dead>>

----------------------------------------------------------------------------
Init ==
  /\ status = [p \in Permit |-> None]
  /\ attempts = [p \in Permit |-> 0]
  /\ busy = {} /\ next = [s \in Signer |-> -1] /\ cursor = 0
  /\ hourly = 0 /\ crashes = 0
  /\ at = [t \in Tick |-> "off"]
  /\ todo = [t \in Tick |-> {}]
  /\ permit = [t \in Tick |-> None]
  /\ lease = [t \in Tick |-> -1]
  /\ nonce = [t \in Tick |-> -1]
  /\ seen = [t \in Tick |-> 0]
  /\ hash = [t \in Tick |-> None]
  /\ done = [t \in Tick |-> 0]
  /\ tx = [h \in Hash |-> Unsent]
  /\ mined = [s \in Signer |-> 0]
  /\ dead = {} /\ distress = {}

(* Everything pass t does once it has been started.                        *)
Advance(t) ==
  \/ EndTick(t) \/ Select(t) \/ CheckCaps(t) \/ Simulate(t)
  \/ NoFreeSigner(t) \/ Acquire(t) \/ PinNonce(t)
  \/ BalanceLow(t) \/ ClaimRefused(t) \/ ClaimInsert(t) \/ ClaimReopen(t)
  \/ ClaimThrows(t) \/ CountAttempt(t) \/ CountThrows(t)
  \/ Send(t) \/ SendThrows(t) \/ Mined(t) \/ Timeout(t)
  \/ Replace(t) \/ NoReplacement(t)
  \/ Unmined(t) \/ Settle(t) \/ SettleThrows(t) \/ Abort(t)

Environment ==
  \/ HourPasses
  \/ \E h \in Hash : Mine(h) \/ Evict(h)
  \/ \E p \in Permit : Lapse(p)
  \/ \E w \in Wallet : RevokeAll(w) \/ MarketMoves(w)

Next ==
  \/ \E t \in Tick : StartTick(t) \/ Advance(t)
  \/ Crash
  \/ Environment

Spec == Init /\ [][Next]_vars

(* Every await of a pass ends: reads, writes and receipt polls have        *)
(* timeouts, and the event loop resumes what is ready.  Nothing is assumed *)
(* of the timer that starts passes, of the chain or of the market.         *)
FairSpec == Spec /\ \A t \in Tick : WF_vars(Advance(t))

----------------------------------------------------------------------------
(* Properties.                                                             *)

(* States in which t has opened the row of permit[t] and not yet written   *)
(* its outcome: claim has returned true, or is about to.                   *)
Claiming == {"bump", "send", "wait", "replace", "rewait", "unmined", "settle", "abort"}

(* States in which t holds its lease.                                      *)
Leasing == {"pin", "leased", "bump", "send", "wait", "replace", "rewait", "unmined"}

Claims(t, p) == at[t] \in Claiming /\ permit[t] = p
Claimed(p)   == \E t \in Tick : Claims(t, p)

AtState == {"off", "loop", "vet", "simulate", "acquire"} \union Leasing \union Claiming

TxState == {"unsent", "pending", "replaced", "evicted", "success", "reverted"}

TxRecord == [permit : Permit \union {None}, signer : Signer \union {-1},
             nonce : Nat \union {-1}, state : TxState]

TypeOK ==
  /\ status \in [Permit -> {None, "in_flight", "succeeded", "failed"}]
  /\ attempts \in [Permit -> Nat]
  /\ busy \subseteq Signer
  /\ next \in [Signer -> Nat \union {-1}]
  /\ cursor \in Signer
  /\ hourly \in Nat
  /\ crashes \in 0 .. MaxCrashes
  /\ at \in [Tick -> AtState]
  /\ todo \in [Tick -> SUBSET Wallet]
  /\ permit \in [Tick -> Permit \union {None}]
  /\ lease \in [Tick -> Signer \union {-1}]
  /\ nonce \in [Tick -> Nat \union {-1}]
  /\ seen \in [Tick -> Nat]
  /\ hash \in [Tick -> Hash \union {None}]
  /\ done \in [Tick -> Nat]
  /\ tx \in [Hash -> TxRecord]
  /\ mined \in [Signer -> Nat]
  /\ dead \subseteq Permit /\ distress \subseteq Wallet

(* Passes between the check of the caps and the count of their outcome.    *)
UnderWay == {t \in Tick : at[t] \notin {"off", "loop", "vet"}}

(* Overlapping passes may exceed the cap of the hour, which is checked     *)
(* before the awaits of a submission and counted after them, but by no     *)
(* more than one submission for every pass that runs beside another: what  *)
(* is counted and what is under way stay within that.                      *)
CapOvershoot == hourly + Cardinality(UnderWay) <= MaxPerHour + Cardinality(Tick) - 1

(* The ledger row is a mutex over overlapping passes: at most one of them  *)
(* is between claim and outcome for a permit, and its row says in_flight.  *)
ClaimExclusive ==
  /\ \A t \in Tick : at[t] \in Claiming => status[permit[t]] = "in_flight"
  /\ \A t, u \in Tick : \A p \in Permit : Claims(t, p) /\ Claims(u, p) => t = u

(* An in_flight row that no running pass claims (its pass died or could    *)
(* not write the outcome) is never re-fired: no pass claims it again.      *)
AbandonedNeverRefired ==
  [][\A p \in Permit :
       status[p] = "in_flight" /\ ~Claimed(p) =>
         status'[p] = "in_flight" /\ ~Claimed(p)']_vars

(* A signer serves one submission at a time, across overlapping passes.    *)
LeaseExclusive ==
  /\ \A t \in Tick : at[t] \in Leasing => lease[t] \in busy
  /\ \A t, u \in Tick :
       at[t] \in Leasing /\ at[u] \in Leasing /\ lease[t] = lease[u] => t = u

(* However passes overlap, crash and retry, a permit is broadcast in at    *)
(* most as many nonce slots as its row counts attempts, and the row counts *)
(* at most maxAttemptsPerPermit (one when that is 0).                      *)
AttemptsBound ==
  \A p \in Permit :
    /\ Cardinality(SlotsOf(p)) <= attempts[p]
    /\ attempts[p] <= IF MaxAttempts = 0 THEN 1 ELSE MaxAttempts

(* Two permits never meet in a nonce slot: what knocks a transaction out   *)
(* of the mempool is a fee bump of the same permit's exit, so no owner's   *)
(* exit is displaced by another owner's.  It needs a ledger that answers:  *)
(* a failed finish after a timeout rewinds a nonce that is still in use.   *)
NoExitKnockedOut ==
  \A g, h \in Hash :
    tx[h].state = "replaced" /\ tx[g].state # "unsent" /\ Slot(g) = Slot(h) =>
      tx[g].permit = tx[h].permit

(* In a process that does not die, with a ledger that answers, no row      *)
(* stays in flight: every claim reaches an outcome.                        *)
ClaimResolved ==
  \A p \in Permit : status[p] = "in_flight" ~> status[p] # "in_flight"

(* acquire returns null "when all are in flight": a signer is busy only    *)
(* while a pass holds its lease.                                           *)
BusyOnlyInFlight ==
  \A s \in busy : \E t \in Tick : at[t] \in Leasing /\ lease[t] = s
============================================================================
