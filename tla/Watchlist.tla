----------------------------- MODULE Watchlist -----------------------------
(* Who watches which wallet (watch_subscriptions) and the registry the     *)
(* worker polls (watched_wallets), which is derived from it.  A request of *)
(* an owner is one READ COMMITTED transaction of several statements: take  *)
(* the owner's advisory lock, apply the operations, check the cap, then    *)
(* for each wallet touched count its subscriptions (all owners') and write *)
(* its registry row.  A statement reads what is committed when it starts,  *)
(* with the changes of its own transaction; the row it writes stays locked *)
(* until the transaction ends.  Two doors run this: applyWatchlistOps and  *)
(* the function register_watched_wallet, which checks the cap first.       *)
EXTENDS Naturals, FiniteSets

CONSTANTS Wallet,   \* addresses
          Owner,    \* those that may sign a request
          Session,  \* database sessions: requests being served at once
          Rank,     \* risk profiles by strictness, 1 the strictest
          Request,  \* the batches clients send
          WatchlistMax, \* how many wallets an owner may watch
          Nobody

(* Rank of a wallet nobody asked about, and of an update that leaves the   *)
(* profile alone.                                                          *)
Unwatched == 0
Ranks     == Rank \union {Unwatched}

(* An operation on a wallet; a batch has at most one for each.             *)
Op     == [op : {"add"}, rank : Rank] \union [op : {"update"}, rank : Ranks]
          \union [op : {"remove"}, rank : {Unwatched}]
Batch  == UNION {[ws -> Op] : ws \in SUBSET Wallet}

ASSUME WatchlistAssumption ==
  /\ IsFiniteSet(Wallet)
  /\ Owner \subseteq Wallet
  /\ Rank \subseteq Nat \ {0}
  /\ Request \subseteq Batch
  /\ WatchlistMax \in Nat
  /\ Nobody \notin Owner

(* A registry row; a wallet never registered has the row Absent.           *)
Row    == [active : BOOLEAN, rank : Ranks]
Absent == [active |-> FALSE, rank |-> Unwatched]

(* What a session is doing: at the lock, applying the batch, between two   *)
(* wallets of the sync ("count"), or between the count of a wallet, seen,  *)
(* and the write of its row.  change and rows are not committed yet.       *)
Txn ==
  [at : {"idle", "lock", "apply", "count", "write"}, owner : Owner \union {Nobody},
   door : {"batch", "register"}, ops : Batch,
   change : UNION {[ws -> Ranks] : ws \in SUBSET Wallet},
   todo : SUBSET Wallet, wallet : SUBSET Wallet, seen : Ranks,
   rows : UNION {[ws -> Row] : ws \in SUBSET Wallet}]

VARIABLES
  subs,      \* subs[o][w]: the rank at which o watches w, committed
  registry,  \* the committed watched_wallets
  txn,       \* what each session is doing
  met        \* history: the wallets of a transaction that another one
             \* touched while it was open

vars == <<subs, registry, txn, met>>

Nothing == [w \in {} |-> Unwatched]

Idle == [at |-> "idle", owner |-> Nobody, door |-> "batch", ops |-> Nothing,
         change |-> Nothing, todo |-> {}, wallet |-> {}, seen |-> Unwatched,
         rows |-> Nothing]

InTxn(s) == txn[s].at \in {"apply", "count", "write"}

(* The wallets of the registry a batch re-derives.                         *)
Touched(ops) == DOMAIN ops

-----------------------------------------------------------------------------
(* What a statement of session s reads.                                    *)

Watches(list) == {w \in Wallet : list[w] # Unwatched}

(* The list of owner o with a change on top.                               *)
Over(change, o) ==
  [w \in Wallet |-> IF w \in DOMAIN change THEN change[w] ELSE subs[o][w]]

(* Mutant of Asked: the sync runs outside the transaction.                 *)
AskedOutside(s, w) == {subs[o][w] : o \in Owner} \ {Unwatched}

(* Each owner's rank for w as session s sees it.                           *)
Asked(s, w) ==
  {IF o = txn[s].owner THEN Over(txn[s].change, o)[w] ELSE subs[o][w] : o \in Owner}
    \ {Unwatched}

(* The rank the registry is to have when these are asked for.              *)
Strictest(r, ranks) ==
  IF ranks = {} THEN r = Unwatched ELSE r \in ranks /\ \A q \in ranks : r <= q

(* Mutant of Held: no advisory lock.                                       *)
HeldNever(o) == FALSE

Held(o) == \E s \in Session : InTxn(s) /\ txn[s].owner = o

(* Mutant of RowFree: the upsert does not wait for the row.                *)
RowFreeAlways(w) == TRUE

RowFree(w) == \A s \in Session : w \notin DOMAIN txn[s].rows

-----------------------------------------------------------------------------
(* The request.                                                            *)

Init ==
  /\ subs = [o \in Owner |-> [w \in Wallet |-> Unwatched]]
  /\ registry = [w \in Wallet |-> Absent]
  /\ txn = [s \in Session |-> Idle]
  /\ met = [s \in Session |-> {}]

SendBatch(s, o) ==
  /\ txn[s].at = "idle"
  /\ \E ops \in Request :
       txn' = [txn EXCEPT ![s] = [Idle EXCEPT !.at = "lock", !.owner = o, !.ops = ops]]
  /\ UNCHANGED <<subs, registry, met>>

SendRegister(s, o) ==
  /\ txn[s].at = "idle"
  /\ \E r \in Rank :
       txn' = [txn EXCEPT ![s] = [Idle EXCEPT !.at = "lock", !.owner = o, !.door = "register",
                                    !.ops = [w \in {o} |-> [op |-> "add", rank |-> r]]]]
  /\ UNCHANGED <<subs, registry, met>>

(* The advisory lock of the owner, waited for until it is free.            *)
Lock(s) ==
  /\ txn[s].at = "lock"
  /\ ~ Held(txn[s].owner)
  /\ txn' = [txn EXCEPT ![s].at = "apply"]
  /\ met' = [q \in Session |->
               LET mine == DOMAIN txn[q].ops IN
               IF q = s
               THEN mine \intersect UNION {DOMAIN txn[p].ops : p \in {p \in Session : InTxn(p)}}
               ELSE IF InTxn(q) THEN met[q] \union (mine \intersect DOMAIN txn[s].ops)
               ELSE met[q]]
  /\ UNCHANGED <<subs, registry>>

(* The value each operation leaves in the owner's list.                    *)
Applied(ops, list) ==
  [w \in DOMAIN ops |->
     IF ops[w].op = "update" /\ ops[w].rank = Unwatched THEN list[w] ELSE ops[w].rank]

NotWatching(ops, list) ==
  \E w \in DOMAIN ops : ops[w].op = "update" /\ list[w] = Unwatched

(* The cap, after the batch; in register_watched_wallet before it.         *)
Fits(s, change) ==
  LET o == txn[s].owner IN
  IF txn[s].door = "batch"
  THEN Cardinality(Watches(Over(change, o))) <= WatchlistMax
  ELSE Cardinality(Watches(subs[o])) < WatchlistMax \/ subs[o][o] # Unwatched

Apply(s) ==
  LET change == Applied(txn[s].ops, subs[txn[s].owner]) IN
  /\ txn[s].at = "apply"
  /\ ~ NotWatching(txn[s].ops, subs[txn[s].owner])
  /\ Fits(s, change)
  /\ txn' = [txn EXCEPT ![s].at = "count", ![s].change = change,
                        ![s].todo = Touched(txn[s].ops)]
  /\ UNCHANGED <<subs, registry, met>>

(* 404 or 409 (or the exception of the SQL function): rolled back.         *)
Refuse(s) ==
  /\ txn[s].at = "apply"
  /\ \/ NotWatching(txn[s].ops, subs[txn[s].owner])
     \/ ~ Fits(s, Applied(txn[s].ops, subs[txn[s].owner]))
  /\ txn' = [txn EXCEPT ![s] = Idle]
  /\ met' = [met EXCEPT ![s] = {}]
  /\ UNCHANGED <<subs, registry>>

-----------------------------------------------------------------------------
(* watchlist_sync_registry, once for each wallet of the batch, in the      *)
(* order the client listed them.                                           *)

Count(s, w) ==
  /\ txn[s].at = "count"
  /\ w \in txn[s].todo
  /\ \E r \in Ranks :
       /\ Strictest(r, Asked(s, w))
       /\ txn' = [txn EXCEPT ![s].at = "write", ![s].wallet = {w}, ![s].todo = @ \ {w},
                             ![s].seen = r]
  /\ UNCHANGED <<subs, registry, met>>

Wrote(s, rows) ==
  txn' = [txn EXCEPT ![s].at = "count", ![s].wallet = {}, ![s].seen = Unwatched,
                     ![s].rows = [w \in DOMAIN @ \union DOMAIN rows |->
                                    IF w \in DOMAIN rows THEN rows[w] ELSE @[w]]]

(* Nobody watches it: an UPDATE, which finds no row if none is committed.  *)
Deactivate(s) ==
  /\ txn[s].at = "write"
  /\ txn[s].seen = Unwatched
  /\ \A w \in txn[s].wallet : registry[w] = Absent \/ RowFree(w)
  /\ Wrote(s, [w \in {w \in txn[s].wallet : registry[w] # Absent} |->
                 [registry[w] EXCEPT !.active = FALSE]])
  /\ UNCHANGED <<subs, registry, met>>

(* An upsert, which waits for an insert of the row not yet committed too.  *)
Activate(s) ==
  /\ txn[s].at = "write"
  /\ txn[s].seen # Unwatched
  /\ \A w \in txn[s].wallet : RowFree(w)
  /\ Wrote(s, [w \in txn[s].wallet |-> [active |-> TRUE, rank |-> txn[s].seen]])
  /\ UNCHANGED <<subs, registry, met>>

Commit(s) ==
  /\ txn[s].at = "count"
  /\ txn[s].todo = {}
  /\ subs' = [subs EXCEPT ![txn[s].owner] = Over(txn[s].change, txn[s].owner)]
  /\ registry' = [w \in Wallet |->
                    IF w \in DOMAIN txn[s].rows THEN txn[s].rows[w] ELSE registry[w]]
  /\ txn' = [txn EXCEPT ![s] = Idle]
  /\ met' = [met EXCEPT ![s] = {}]

(* A statement fails: the victim of a deadlock of row locks, a connection  *)
(* or a process lost.                                                      *)
Abort(s) ==
  /\ txn[s].at # "idle"
  /\ txn' = [txn EXCEPT ![s] = Idle]
  /\ met' = [met EXCEPT ![s] = {}]
  /\ UNCHANGED <<subs, registry>>

Next ==
  \E s \in Session :
    \/ \E o \in Owner : SendBatch(s, o) \/ SendRegister(s, o)
    \/ \E w \in Wallet : Count(s, w)
    \/ Lock(s) \/ Apply(s) \/ Refuse(s)
    \/ Deactivate(s) \/ Activate(s) \/ Commit(s) \/ Abort(s)

Spec == Init /\ [][Next]_vars

-----------------------------------------------------------------------------
(* Properties.                                                             *)

(* Types, and: no two open transactions hold one registry row.             *)
TypeOK ==
  /\ subs \in [Owner -> [Wallet -> Ranks]]
  /\ registry \in [Wallet -> Row]
  /\ txn \in [Session -> Txn]
  /\ met \in [Session -> SUBSET Wallet]
  /\ \A s \in Session :
       /\ txn[s].at # "idle" => txn[s].owner \in Owner
       /\ met[s] \subseteq DOMAIN txn[s].ops
       /\ \A q \in Session \ {s} : DOMAIN txn[s].rows \intersect DOMAIN txn[q].rows = {}

(* No owner ever holds more than WatchlistMax wallets, whichever door and  *)
(* however many requests of theirs run at once (applyWatchlistOps,         *)
(* register_watched_wallet).                                               *)
CapHolds == \A o \in Owner : Cardinality(Watches(subs[o])) <= WatchlistMax

(* A wallet's registry row says what its subscriptions say: active exactly *)
(* when somebody watches it, at the strictest profile asked for.           *)
Agrees(w) ==
  LET asked == {subs[o][w] : o \in Owner} \ {Unwatched} IN
  /\ registry[w].active <=> asked # {}
  /\ asked # {} => Strictest(registry[w].rank, asked)

(* The registry never disagrees with the subscriptions                     *)
(* (watchlist_sync_registry).                                              *)
RegistryAgrees == \A w \in Wallet : Agrees(w)

(* Whatever the registry said before, a transaction leaves right the row   *)
(* of every wallet it touched and no other open transaction did: an older  *)
(* disagreement is healed by the next change of that wallet.               *)
Heals ==
  [][\A s \in Session :
       Commit(s) => \A w \in DOMAIN txn[s].ops \ met[s] : Agrees(w)']_vars

============================================================================
