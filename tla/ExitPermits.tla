---------------------------- MODULE ExitPermits ----------------------------
(***************************************************************************)
(* Delegated exit permits of one wallet: the rows of exit_delegations      *)
(* (server/exitDelegations.ts, server/exitDelegationStore.ts), the permit  *)
(* state of the executor contract (PanikExecutor.sol: revocationEpoch and  *)
(* nonceBitmap) and the coverage sweep of the watch worker                 *)
(* (server/coverageSweep.ts).                                              *)
(*                                                                         *)
(* Two processes read the rows through the one function reconcile: the API *)
(* server (list, revoke) and the watch worker (the relayer's pass and the  *)
(* sweep).  Each await is a step; the user, other submitters and the clock *)
(* move the chain in between.  The block number is the clock: revokeAll    *)
(* makes it the wallet's epoch.                                            *)
(***************************************************************************)
EXTENDS Integers, FiniteSets

CONSTANTS
  Permit,     \* permits the wallet signs
  Nonce,      \* Nonce[p], an unordered nonce
  Epoch,      \* Epoch[p], the epoch p commits to
  Deadline,   \* Deadline[p], the last block p may run in
  Request,    \* requests and passes that may overlap
  MaxTime,    \* bound: the last block
  Grace       \* how long a row is kept after its deadline

VARIABLES
  \* the chain
  now, epoch, used,
  \* the table exit_delegations, and the expiries the sweep has reported
  row, told,
  \* a request: what it is, the await it is in, and its locals
  at, task, arg, started, todo, fetched, seenEpoch, verdict,
  \* history: permits the chain had killed when the request began
  deadAtStart

chain  == <<now, epoch, used>>
table  == <<row, told>>
locals == <<task, arg, started, todo, fetched, seenEpoch, verdict, deadAtStart>>
vars   == <<chain, table, at, locals>>

Active   == "active"
Terminal == {"expired", "revoked", "consumed"}
(* "read" is the list of the API and the relayer's liveDelegationsFor.     *)
Reader   == {"read", "revoke", "sweep"}

(* Spent, revoked or at its deadline.  The executor accepts a permit at    *)
(* the deadline itself still; the backend does not count on that.          *)
Dead(p) == Deadline[p] <= now \/ Epoch[p] < epoch \/ Nonce[p] \in used

----------------------------------------------------------------------------
(* The chain: PanikExecutor.                                               *)

RevokeAll ==
  /\ epoch' = now
  /\ UNCHANGED <<now, used, table, at, locals>>

InvalidateUnorderedNonces(n) ==
  /\ used' = used \union {n}
  /\ UNCHANGED <<now, epoch, table, at, locals>>

(* _consumePermit, in an atomicExitFor that anyone may submit.             *)
ConsumePermit(p) ==
  /\ now <= Deadline[p]
  /\ Epoch[p] = epoch
  /\ Nonce[p] \notin used
  /\ used' = used \union {Nonce[p]}
  /\ UNCHANGED <<now, epoch, table, at, locals>>

NextBlock ==
  /\ now < MaxTime
  /\ now' = now + 1
  /\ UNCHANGED <<epoch, used, table, at, locals>>

----------------------------------------------------------------------------
(* Submitting a permit.                                                    *)

Idle(r) ==
  /\ at' = [at EXCEPT ![r] = "idle"]
  /\ task' = [task EXCEPT ![r] = "none"]
  /\ arg' = [arg EXCEPT ![r] = {}]
  /\ started' = [started EXCEPT ![r] = 0]
  /\ todo' = [todo EXCEPT ![r] = {}]
  /\ fetched' = [fetched EXCEPT ![r] = {}]
  /\ seenEpoch' = [seenEpoch EXCEPT ![r] = 0]
  /\ verdict' = [verdict EXCEPT ![r] = [p \in Permit |-> Active]]
  /\ deadAtStart' = [deadAtStart EXCEPT ![r] = {}]

(* The signature, the signer's code and the scope are accepted, the latter *)
(* with a deadline that lies ahead.                                        *)
SubmitDelegation(r, p) ==
  /\ at[r] = "idle"
  /\ Deadline[p] > now
  /\ at' = [at EXCEPT ![r] = "liveness"]
  /\ task' = [task EXCEPT ![r] = "submit"]
  /\ arg' = [arg EXCEPT ![r] = {p}]
  /\ todo' = [todo EXCEPT ![r] = {"epoch", "nonce"}]
  /\ UNCHANGED <<chain, table, started, fetched, seenEpoch, verdict, deadAtStart>>

(* The two liveness reads run at once; either may refuse the permit (409). *)
ReadLiveness(r) ==
  /\ at[r] = "liveness"
  /\ \E what \in todo[r], p \in arg[r] :
       IF IF what = "epoch" THEN Epoch[p] = epoch ELSE Nonce[p] \notin used
       THEN /\ todo' = [todo EXCEPT ![r] = @ \ {what}]
            /\ at' = [at EXCEPT ![r] = IF todo[r] = {what} THEN "insert" ELSE @]
            /\ UNCHANGED <<task, arg, started, fetched, seenEpoch, verdict, deadAtStart>>
       ELSE Idle(r)
  /\ UNCHANGED <<chain, table>>

(* The insert; a row with the same nonce makes it a no-op.                 *)
InsertDelegation(r) ==
  /\ at[r] = "insert"
  /\ \E p \in arg[r] :
       row' = IF \E q \in Permit : Nonce[q] = Nonce[p] /\ row[q] # "none"
              THEN row ELSE [row EXCEPT ![p] = Active]
  /\ Idle(r)
  /\ UNCHANGED <<chain, told>>

----------------------------------------------------------------------------
(* reconcile, and the four callers of it.                                  *)

BeginReconcile(r, who) ==
  /\ at[r] = "idle"
  /\ at' = [at EXCEPT ![r] = "rows"]
  /\ task' = [task EXCEPT ![r] = who]
  /\ started' = [started EXCEPT ![r] = now]
  /\ deadAtStart' = [deadAtStart EXCEPT ![r] = {p \in Permit : Dead(p)}]
  /\ UNCHANGED <<chain, table, arg, todo, fetched, seenEpoch, verdict>>

ListActive(r) ==
  /\ at[r] = "rows"
  /\ LET found == {p \in Permit : row[p] = Active}
     IN  IF found = {} THEN Idle(r)
         ELSE /\ fetched' = [fetched EXCEPT ![r] = found]
              /\ at' = [at EXCEPT ![r] = "epoch"]
              /\ deadAtStart' = [deadAtStart EXCEPT ![r] = @ \intersect found]
              /\ UNCHANGED <<task, arg, started, todo, seenEpoch, verdict>>
  /\ UNCHANGED <<chain, table>>

ReadEpoch(r) ==
  /\ at[r] = "epoch"
  /\ seenEpoch' = [seenEpoch EXCEPT ![r] = epoch]
  /\ todo' = [todo EXCEPT ![r] = fetched[r]]
  /\ at' = [at EXCEPT ![r] = "nonces"]
  /\ UNCHANGED <<chain, table, task, arg, started, fetched, verdict, deadAtStart>>

(* Mutants of resolveLiveStatus: a stale epoch is not noticed; a permit is *)
(* expired when it would expire soon.                                      *)
resolveAnyEpoch(p, chainEpoch, nonceUsed, nowSec) ==
  IF Deadline[p] <= nowSec THEN "expired"
  ELSE IF nonceUsed THEN "consumed" ELSE Active

resolveEarly(p, chainEpoch, nonceUsed, nowSec) ==
  IF Deadline[p] <= nowSec + 1 THEN "expired"
  ELSE IF Epoch[p] # chainEpoch THEN "revoked"
  ELSE IF nonceUsed THEN "consumed" ELSE Active

resolveLiveStatus(p, chainEpoch, nonceUsed, nowSec) ==
  CASE Deadline[p] <= nowSec -> "expired"
    [] Deadline[p] > nowSec /\ Epoch[p] # chainEpoch -> "revoked"
    [] Deadline[p] > nowSec /\ Epoch[p] = chainEpoch /\ nonceUsed -> "consumed"
    [] OTHER -> Active

(* The nonce reads run at once and end in any order.                       *)
ReadNonce(r) ==
  /\ at[r] = "nonces"
  /\ \E p \in todo[r] :
       LET status == resolveLiveStatus(p, seenEpoch[r], Nonce[p] \in used, started[r])
           judged == [verdict[r] EXCEPT ![p] = status]
       IN  /\ verdict' = [verdict EXCEPT ![r] = judged]
           /\ IF todo[r] = {p}
              THEN /\ at' = [at EXCEPT ![r] = "persist"]
                   /\ todo' = [todo EXCEPT ![r] = {q \in fetched[r] : judged[q] # Active}]
                   /\ started' = [started EXCEPT ![r] = 0]
                   /\ seenEpoch' = [seenEpoch EXCEPT ![r] = 0]
              ELSE /\ todo' = [todo EXCEPT ![r] = @ \ {p}]
                   /\ UNCHANGED <<at, started, seenEpoch>>
  /\ UNCHANGED <<chain, table, task, arg, fetched, deadAtStart>>

(* setStatus is an unconditional update by id, and its failure is ignored. *)
(* revokeDelegation writes the statuses again, with its evidence.          *)
SetStatus(r) ==
  /\ at[r] = "persist"
  /\ \E p \in todo[r] :
       /\ \/ row' = [row EXCEPT ![p] = IF @ = "none" THEN @ ELSE verdict[r][p]]
          \/ UNCHANGED row
       /\ todo' = [todo EXCEPT ![r] = @ \ {p}]
  /\ UNCHANGED <<chain, told, at, task, arg, started, fetched, seenEpoch, verdict, deadAtStart>>

AttachEvidence(r) ==
  /\ at[r] = "persist" /\ todo[r] = {} /\ task[r] = "revoke"
  /\ task' = [task EXCEPT ![r] = "evidence"]
  /\ todo' = [todo EXCEPT ![r] = {p \in fetched[r] : verdict[r][p] # Active}]
  /\ UNCHANGED <<chain, table, at, arg, started, fetched, seenEpoch, verdict, deadAtStart>>

(* The permits a request reports as live coverage.                         *)
Reported(r) ==
  IF at[r] = "persist" /\ todo[r] = {}
  THEN {p \in fetched[r] : verdict[r][p] = Active} ELSE {}

(* The reply.  sweepWallet alerts on the rows it has just seen expire, and *)
(* on no others: revoked and consumed ones were the user's own doing.      *)
Reply(r) ==
  /\ at[r] = "persist" /\ todo[r] = {}
  /\ told' = IF task[r] = "sweep"
             THEN told \union {p \in fetched[r] : verdict[r][p] = "expired"} ELSE told
  /\ Idle(r)
  /\ UNCHANGED <<chain, row>>

(* A read fails, or the process dies: the request ends where it is.        *)
Fail(r) ==
  /\ at[r] # "idle"
  /\ Idle(r)
  /\ UNCHANGED <<chain, table>>

(* The nightly retention job.                                              *)
Prune(p) ==
  /\ row[p] # "none"
  /\ Deadline[p] + Grace < now
  /\ row' = [row EXCEPT ![p] = "none"]
  /\ UNCHANGED <<chain, told, at, locals>>

----------------------------------------------------------------------------
Init ==
  /\ now = 0 /\ epoch = 0 /\ used = {}
  /\ row = [p \in Permit |-> "none"] /\ told = {}
  /\ at = [r \in Request |-> "idle"]
  /\ task = [r \in Request |-> "none"]
  /\ arg = [r \in Request |-> {}]
  /\ started = [r \in Request |-> 0]
  /\ todo = [r \in Request |-> {}]
  /\ fetched = [r \in Request |-> {}]
  /\ seenEpoch = [r \in Request |-> 0]
  /\ verdict = [r \in Request |-> [p \in Permit |-> Active]]
  /\ deadAtStart = [r \in Request |-> {}]

Chain ==
  \/ RevokeAll \/ NextBlock
  \/ \E p \in Permit : InvalidateUnorderedNonces(Nonce[p]) \/ ConsumePermit(p)

Backend(r) ==
  \/ \E p \in Permit : SubmitDelegation(r, p)
  \/ ReadLiveness(r) \/ InsertDelegation(r)
  \/ \E who \in Reader : BeginReconcile(r, who)
  \/ ListActive(r) \/ ReadEpoch(r) \/ ReadNonce(r)
  \/ SetStatus(r) \/ AttachEvidence(r) \/ Reply(r) \/ Fail(r)

Next ==
  \/ Chain
  \/ \E r \in Request : Backend(r)
  \/ \E p \in Permit : Prune(p)

----------------------------------------------------------------------------
TypeOK ==
  /\ now \in 0 .. MaxTime /\ epoch \in 0 .. MaxTime
  /\ used \subseteq {Nonce[p] : p \in Permit}
  /\ row \in [Permit -> Terminal \union {Active, "none"}]
  /\ told \subseteq Permit
  /\ at \in [Request -> {"idle", "liveness", "insert", "rows", "epoch", "nonces", "persist"}]
  /\ task \in [Request -> Reader \union {"none", "submit", "evidence"}]
  /\ arg \in [Request -> SUBSET Permit]
  /\ started \in [Request -> 0 .. MaxTime]
  /\ todo \in [Request -> SUBSET (Permit \union {"epoch", "nonce"})]
  /\ fetched \in [Request -> SUBSET Permit]
  /\ seenEpoch \in [Request -> 0 .. MaxTime]
  /\ verdict \in [Request -> [Permit -> Terminal \union {Active}]]
  /\ deadAtStart \in [Request -> SUBSET Permit]

(* A row is only ever taken out of the live coverage for good reason:      *)
(* whatever the order in which overlapping requests write the statuses     *)
(* they computed, a row marked expired, revoked or consumed is of a permit *)
(* that is past saving on the chain.                                       *)
DeadRowsStayDead == \A p \in Permit : row[p] \in Terminal => Dead(p)

(* No request reports as live a permit that the chain had killed before    *)
(* the request began: a confirmed revocation is never missed, although     *)
(* deadline, epoch and nonce are judged at three different moments         *)
(* (exitDelegations.ts reconcile, used by the list, the relayer and the    *)
(* sweep).                                                                 *)
RevocationSeen == \A r \in Request : Reported(r) \intersect deadAtStart[r] = {}
============================================================================
