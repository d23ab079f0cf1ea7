----------------------------- MODULE WatchLoop -----------------------------
(***************************************************************************)
(* The scoring loop: WatchService (packages/scoring/src/watch/loop.ts) as  *)
(* the worker runs it (scripts/watch-worker.ts), with the log of committed *)
(* transitions it writes (table watch_transitions) and reads back when it  *)
(* boots.                                                                  *)
(*                                                                         *)
(* setInterval starts a pass whether or not the last one has ended: Pass   *)
(* is the set of passes that may overlap.  A wallet has one position here; *)
(* its score is abstracted to a level, and StatusOf[f] maps levels to the  *)
(* status that risk profile f gives them (statusFor).                      *)
(***************************************************************************)
EXTENDS Naturals, Sequences, FiniteSets

CONSTANTS
  Wallet,        \* watched wallets
  Profile,       \* risk profiles of subscribers
  Level,         \* classes of scores
  Status,        \* within, approaching, outside
  StatusOf,      \* StatusOf[f][l]: the status of level l under profile f
  Moderate,      \* the profile of a wallet the worker knows no profile of
  Pass,          \* passes of the loop that may overlap
  ConfirmTicks,  \* ALERT_POLICY.confirmTicks
  MaxMoves,      \* bound: how often scores and subscriptions change
  MaxLost,       \* bound: how many inserts fail
  MaxCrashes     \* bound: how often the worker dies

Unset == "unset"

ASSUME WatchConstants ==
  /\ StatusOf \in [Profile -> [Level -> Status]]
  /\ Moderate \in Profile
  /\ Unset \notin Status
  /\ ConfirmTicks \in Nat \ {0}
  /\ {MaxMoves, MaxLost, MaxCrashes} \subseteq Nat

Key == Wallet \X Profile

VARIABLES
  \* the world and the database
  level,      \* level[w]: the level of w's score right now
  registry,   \* registry[w]: profiles of w's subscribers, {} when not active
  log,        \* log[k]: rows of watch_transitions for key k, oldest first
  \* the worker's memory
  watched,    \* watched[w]: profilesByWallet, {} for a wallet not watched
  committed,  \* committed[k]: lastStatus
  pending,    \* pending[k]: candidate status and its count
  inserts,    \* inserts[k]: transitions of k emitted, their inserts under way
  at,         \* at[p]: "off", "loop" or "scoring"
  visited,    \* visited[p]: wallets pass p has turned to
  reading,    \* reading[p]: the wallet p is scoring and the level it read
  \* history and bounds
  streak,     \* streak[k]: last status observed for k, and how often in a row
  spoiled,    \* keys with an insert that failed or was overtaken since boot
  moves, lost, crashes

world  == <<level, registry>>
memory == <<watched, committed, pending, inserts>>
passes == <<at, visited, reading>>
past   == <<streak, spoiled>>
bounds == <<moves, lost, crashes>>
vars   == <<world, log, memory, passes, past, bounds>>

NoCandidate == [status |-> Unset, count |-> 0]
NoReading   == [wallet |-> Unset, level |-> Unset]

LastTo(k) == IF log[k] = <<>> THEN Unset ELSE log[k][Len(log[k])].to

----------------------------------------------------------------------------
(* A pass.                                                                 *)

StartPass(p) ==
  /\ at[p] = "off"
  /\ at' = [at EXCEPT ![p] = "loop"]
  /\ visited' = [visited EXCEPT ![p] = {}]
  /\ UNCHANGED <<world, log, memory, reading, past, bounds>>

(* The iteration over this.wallets sees wallets added and dropped while it *)
(* runs.  The score is the one at the time of the read.                    *)
BeginScore(p) ==
  /\ at[p] = "loop"
  /\ \E w \in Wallet \ visited[p] :
       /\ watched[w] # {}
       /\ visited' = [visited EXCEPT ![p] = @ \union {w}]
       /\ reading' = [reading EXCEPT ![p] = [wallet |-> w, level |-> level[w]]]
  /\ at' = [at EXCEPT ![p] = "scoring"]
  /\ UNCHANGED <<world, log, memory, past, bounds>>

(* scoreWallet throws: onError logs, and no candidate is touched.          *)
ScoreFails(p) ==
  /\ at[p] = "scoring"
  /\ at' = [at EXCEPT ![p] = "loop"]
  /\ reading' = [reading EXCEPT ![p] = NoReading]
  /\ UNCHANGED <<world, log, memory, visited, past, bounds>>

(* Mutant of Count: a flap does not reset the counter.                     *)
CountFlaps(k, s) == pending[k].count + 1

(* How often in a row the candidate has been seen, s included.             *)
Count(k, s) == IF pending[k].status = s THEN pending[k].count + 1 ELSE 1

Confirmed(k, s) == s # committed[k] /\ Count(k, s) >= ConfirmTicks

(* Mutant of NextPending: a confirmed candidate is not cleared.            *)
NextPendingKept(k, s) ==
  IF s = committed[k] THEN NoCandidate ELSE [status |-> s, count |-> Count(k, s)]

NextPending(k, s) ==
  IF s = committed[k] \/ Confirmed(k, s)
  THEN NoCandidate
  ELSE [status |-> s, count |-> Count(k, s)]

NextStreak(k, s) ==
  IF streak[k].status # s THEN [status |-> s, count |-> 1]
  ELSE IF streak[k].count < ConfirmTicks THEN [streak[k] EXCEPT !.count = @ + 1]
  ELSE streak[k]

(* Mutant of ProfilesOf: only the wallet's own profile is evaluated.       *)
OwnProfile(w) == {Moderate}

(* profilesOf(w); a wallet dropped while it was being scored has none.     *)
ProfilesOf(w) == IF watched[w] = {} THEN {Moderate} ELSE watched[w]

(* The body of tick() for one wallet: every profile of its subscribers is  *)
(* evaluated against the one score; confirmed changes are committed in     *)
(* memory and handed to persistTransition, which nobody awaits.            *)
Apply(p, w) ==
  /\ at[p] = "scoring" /\ reading[p].wallet = w
  /\ LET seen == {w} \X ProfilesOf(w)
         S(k) == StatusOf[k[2]][reading[p].level]
     IN  /\ committed' = [k \in Key |->
              IF k \in seen /\ Confirmed(k, S(k)) THEN S(k) ELSE committed[k]]
         /\ pending' = [k \in Key |->
              IF k \in seen THEN NextPending(k, S(k)) ELSE pending[k]]
         /\ inserts' = [k \in Key |->
              IF k \in seen /\ Confirmed(k, S(k))
              THEN Append(inserts[k], [from |-> committed[k], to |-> S(k)])
              ELSE inserts[k]]
         /\ streak' = [k \in Key |->
              IF k \in seen THEN NextStreak(k, S(k)) ELSE streak[k]]
  /\ at' = [at EXCEPT ![p] = "loop"]
  /\ reading' = [reading EXCEPT ![p] = NoReading]
  /\ UNCHANGED <<world, log, watched, visited, spoiled, bounds>>

EndPass(p) ==
  /\ at[p] = "loop"
  /\ \A w \in Wallet : watched[w] # {} => w \in visited[p]
  /\ at' = [at EXCEPT ![p] = "off"]
  /\ visited' = [visited EXCEPT ![p] = {}]
  /\ UNCHANGED <<world, log, memory, reading, past, bounds>>

----------------------------------------------------------------------------
(* The rest of the worker.                                                 *)

Without(seq, i) == SubSeq(seq, 1, i - 1) \o SubSeq(seq, i + 1, Len(seq))

(* persistTransition: inserts run on a pool of connections, so those under *)
(* way may end in any order; a failed one is logged and forgotten.         *)
Persist(k) ==
  /\ \E i \in DOMAIN inserts[k] :
       /\ log' = [log EXCEPT ![k] = Append(@, inserts[k][i])]
       /\ inserts' = [inserts EXCEPT ![k] = Without(@, i)]
       /\ spoiled' = IF i = 1 THEN spoiled ELSE spoiled \union {k}
  /\ UNCHANGED <<world, watched, committed, pending, passes, streak, bounds>>

LoseInsert(k) ==
  /\ lost < MaxLost
  /\ lost' = lost + 1
  /\ \E i \in DOMAIN inserts[k] : inserts' = [inserts EXCEPT ![k] = Without(@, i)]
  /\ spoiled' = spoiled \union {k}
  /\ UNCHANGED <<world, log, watched, committed, pending, passes, streak, moves, crashes>>

(* syncWatched: wallets and profiles follow the registry; what is committed *)
(* or pending for a wallet that left stays.                                *)
SyncWatched ==
  /\ watched # registry
  /\ watched' = registry
  /\ UNCHANGED <<world, log, committed, pending, inserts, passes, past, bounds>>

(* Mutants of Seed: the boot does not read the log, or reads its oldest row. *)
SeedNothing == [k \in Key |-> Unset]
SeedOldest  == [k \in Key |-> IF log[k] = <<>> THEN Unset ELSE log[k][1].to]

(* seedLastStatus: the latest row of each key.                             *)
Seed == [k \in Key |-> LastTo(k)]

(* The worker dies and boots: seedLastStatus, then syncWatched.            *)
Reboot ==
  /\ crashes < MaxCrashes
  /\ crashes' = crashes + 1
  /\ committed' = Seed
  /\ watched' = registry
  /\ pending' = [k \in Key |-> NoCandidate]
  /\ inserts' = [k \in Key |-> <<>>]
  /\ at' = [p \in Pass |-> "off"]
  /\ visited' = [p \in Pass |-> {}]
  /\ reading' = [p \in Pass |-> NoReading]
  /\ streak' = [k \in Key |-> NoCandidate]
  /\ spoiled' = {}
  /\ UNCHANGED <<world, log, moves, lost>>

(* A position moves; subscribers come, go and change their profile.        *)
ScoreMoves(w) ==
  /\ moves < MaxMoves
  /\ moves' = moves + 1
  /\ \E l \in Level \ {level[w]} : level' = [level EXCEPT ![w] = l]
  /\ UNCHANGED <<registry, log, memory, passes, past, lost, crashes>>

Subscribe(w) ==
  /\ moves < MaxMoves
  /\ moves' = moves + 1
  /\ \E fs \in SUBSET Profile \ {registry[w]} : registry' = [registry EXCEPT ![w] = fs]
  /\ UNCHANGED <<level, log, memory, passes, past, lost, crashes>>

----------------------------------------------------------------------------
Init ==
  /\ level \in [Wallet -> Level]
  /\ registry = [w \in Wallet |-> Profile]
  /\ log = [k \in Key |-> <<>>]
  /\ watched = registry
  /\ committed = [k \in Key |-> Unset]
  /\ pending = [k \in Key |-> NoCandidate]
  /\ inserts = [k \in Key |-> <<>>]
  /\ at = [p \in Pass |-> "off"]
  /\ visited = [p \in Pass |-> {}]
  /\ reading = [p \in Pass |-> NoReading]
  /\ streak = [k \in Key |-> NoCandidate]
  /\ spoiled = {}
  /\ moves = 0 /\ lost = 0 /\ crashes = 0

Next ==
  \/ \E p \in Pass : StartPass(p) \/ BeginScore(p) \/ ScoreFails(p) \/ EndPass(p)
  \/ \E p \in Pass, w \in Wallet : Apply(p, w)
  \/ \E k \in Key : Persist(k) \/ LoseInsert(k)
  \/ SyncWatched \/ Reboot
  \/ \E w \in Wallet : ScoreMoves(w) \/ Subscribe(w)

Spec == Init /\ [][Next]_vars

(* The timer starts passes, an await ends, the registry is reloaded every  *)
(* few passes; and a wallet whose scoring keeps failing succeeds now and   *)
(* then.                                                                   *)
FairSpec ==
  /\ Spec
  /\ \A p \in Pass :
       WF_vars(StartPass(p)) /\ WF_vars(BeginScore(p)) /\ WF_vars(EndPass(p))
  /\ \A p \in Pass, w \in Wallet : SF_vars(Apply(p, w))
  /\ \A k \in Key : WF_vars(Persist(k))
  /\ WF_vars(SyncWatched)

----------------------------------------------------------------------------
(* Properties.                                                             *)

Reading == [wallet : Wallet, level : Level]

Row == [from : Status \union {Unset}, to : Status]

TypeOK ==
  /\ level \in [Wallet -> Level]
  /\ registry \in [Wallet -> SUBSET Profile] /\ watched \in [Wallet -> SUBSET Profile]
  /\ log \in [Key -> Seq(Row)] /\ inserts \in [Key -> Seq(Row)]
  /\ committed \in [Key -> Status \union {Unset}]
  /\ pending \in [Key -> [status : Status \union {Unset}, count : 0 .. ConfirmTicks - 1]]
  /\ at \in [Pass -> {"off", "loop", "scoring"}]
  /\ visited \in [Pass -> SUBSET Wallet]
  /\ reading \in [Pass -> Reading \union {NoReading}]
  /\ \A p \in Pass : at[p] = "scoring" => reading[p] \in Reading
  /\ streak \in [Key -> [status : Status \union {Unset}, count : 0 .. ConfirmTicks]]
  /\ spoiled \subseteq Key

(* The rows of a key form one path: each starts where the one before       *)
(* ended, so nothing a subscriber was told is contradicted by the next     *)
(* row, whatever dies between the commit in memory and the insert.  Only a *)
(* key with an insert of its own that failed or was overtaken is excepted, *)
(* and only until the worker boots again.                                  *)
LogConnected ==
  [][\A k \in Key \ spoiled' :
       log'[k] # log[k] => log'[k][Len(log'[k])].from = LastTo(k)]_vars

(* With the same exception, memory and log agree once the inserts are      *)
(* done, so a reboot neither repeats nor forgets a transition.             *)
RebootTransparent ==
  \A k \in Key \ spoiled : inserts[k] = <<>> => LastTo(k) = committed[k]

(* Every change committed was observed ConfirmTicks times in a row since   *)
(* the worker booted, with no other status of that key seen in between.    *)
Debounced ==
  [][crashes' = crashes =>
       \A k \in Key : committed'[k] # committed[k] =>
         streak'[k] = [status |-> committed'[k], count |-> ConfirmTicks]]_vars

(* Once a score has settled, the last row of every subscribed profile says *)
(* what that profile makes of it, unless an insert of that very key failed *)
(* or was overtaken: overlapping passes, stale readings, reboots and the   *)
(* other keys' lost inserts and thresholds cannot lose an alert.           *)
Settled(k) == k[2] \in registry[k[1]] => LastTo(k) = StatusOf[k[2]][level[k[1]]]

AlertsLogged == \A k \in Key : <>[](k \in spoiled \/ Settled(k))
============================================================================
