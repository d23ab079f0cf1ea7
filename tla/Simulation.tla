----------------------------- MODULE Simulation -----------------------------
(***************************************************************************)
(* Market simulation: the table market_simulations and the operator's      *)
(* routes (server/simulationStore.ts SimulationStore, scripts/api-server.ts *)
(* adminSimulation), the cache in front of it (SimulationCache) and a      *)
(* request that is scored under the armed scenario (GET /api/positions,    *)
(* packages/scoring/src/adapters/active.ts scoreWallet).  One process: the *)
(* watch worker has a cache of its own, which behaves the same.            *)
(***************************************************************************)
EXTENDS Integers

CONSTANTS
  Scenario,   \* rows that may be armed, each once
  Operator,   \* requests of the operators' console that may overlap
  Flight,     \* reads of the row that may be under way
  Query,      \* requests for positions that may overlap
  Window,     \* the longest window a scenario may be armed for
  Ttl,        \* SIMULATION_CACHE_TTL_MS
  PosTtl,     \* how long scored positions are kept: 60 s
  MaxTime     \* bound

None == "none"

VARIABLES
  instant,
  cleared, expires,  \* the rows: expires[s] = 0 while s was never armed
  cached, fetchedAt, inFlight,  \* SimulationCache
  flight, answer,    \* a read: off, asked or answered; and what it has seen
  op, wants,         \* the operators' await, and the row they are arming
  query, marker, numbers,  \* a response: its marker, and what scored it
  posCache,          \* ownPosCache for the wallet
  past               \* history: rows the cache has stopped showing

table == <<cleared, expires>>
cache == <<cached, fetchedAt, inFlight>>
reads == <<flight, answer>>
ops   == <<op, wants>>
pos   == <<query, marker, numbers, posCache>>
vars  == <<instant, table, cache, reads, ops, pos, past>>

Armed == {s \in Scenario : expires[s] # 0 /\ s \notin cleared}

(* activeSimulation: a scenario counts until its window closes.            *)
ActiveSimulation(s) == IF s # None /\ instant < expires[s] THEN s ELSE None

NoPositions == [at |-> -1, id |-> None, numbers |-> None]

----------------------------------------------------------------------------
(* SimulationCache.                                                        *)

(* Mutant of Refresh: a read may start while another is under way.         *)
RefreshAgain ==
  IF \A f \in Flight : flight[f] # "off" THEN UNCHANGED <<inFlight, reads>>
  ELSE /\ inFlight' = TRUE
       /\ \E f \in Flight :
            /\ flight[f] = "off"
            /\ flight' = [flight EXCEPT ![f] = "asked"]
       /\ UNCHANGED answer

(* refresh, up to its await: nothing while a read is under way.            *)
Refresh ==
  IF inFlight THEN UNCHANGED <<inFlight, reads>>
  ELSE /\ inFlight' = TRUE
       /\ \E f \in Flight :
            /\ flight[f] = "off"
            /\ flight' = [flight EXCEPT ![f] = "asked"]
       /\ UNCHANGED answer

(* current(): fires a refresh when the value is old, and does not wait.    *)
Current ==
  IF instant - fetchedAt >= Ttl THEN Refresh ELSE UNCHANGED <<inFlight, reads>>

(* The database answers with the uncleared row of the newest start; there  *)
(* is at most one.                                                         *)
Answer(f) ==
  /\ flight[f] = "asked"
  /\ flight' = [flight EXCEPT ![f] = "answered"]
  /\ answer' = [answer EXCEPT ![f] =
       IF Armed = {} THEN None ELSE CHOOSE s \in Armed : TRUE]
  /\ UNCHANGED <<instant, table, cache, ops, pos, past>>

(* The rest of refresh.  A failed read keeps the value.                    *)
Land(f) ==
  /\ \/ /\ flight[f] = "answered"
        /\ cached' = answer[f]
        /\ past' = IF cached \in {None, answer[f]} THEN past ELSE past \union {cached}
     \/ flight[f] = "asked" /\ UNCHANGED <<cached, past>>
  /\ fetchedAt' = instant
  /\ inFlight' = FALSE
  /\ flight' = [flight EXCEPT ![f] = "off"]
  /\ answer' = [answer EXCEPT ![f] = None]
  /\ UNCHANGED <<instant, table, ops, pos>>

----------------------------------------------------------------------------
(* The operators: adminSimulation.                                         *)

BeginArm(o) ==
  /\ op[o] = "idle"
  /\ op' = [op EXCEPT ![o] = "clear"]
  /\ \E s \in Scenario :
       /\ expires[s] = 0 /\ \A p \in Operator : wants[p] # s
       /\ wants' = [wants EXCEPT ![o] = s]
  /\ UNCHANGED <<instant, table, cache, reads, pos, past>>

BeginClear(o) ==
  /\ op[o] = "idle"
  /\ op' = [op EXCEPT ![o] = "clear"]
  /\ UNCHANGED <<instant, table, cache, reads, wants, pos, past>>

(* The PATCH that clears every uncleared row.                              *)
Clear(o) ==
  /\ op[o] = "clear"
  /\ cleared' = cleared \union Armed
  /\ op' = [op EXCEPT ![o] = IF wants[o] = None THEN "show" ELSE "insert"]
  /\ UNCHANGED <<instant, expires, cache, reads, wants, pos, past>>

(* The insert; the partial unique index admits one uncleared row.  A       *)
(* refused insert is answered with an error.                               *)
Insert(o) ==
  /\ op[o] = "insert"
  /\ IF Armed = {}
     THEN /\ \E d \in 1 .. Window : expires' = [expires EXCEPT ![wants[o]] = instant + d]
          /\ op' = [op EXCEPT ![o] = "show"]
     ELSE /\ op' = [op EXCEPT ![o] = "idle"]
          /\ UNCHANGED expires
  /\ wants' = [wants EXCEPT ![o] = None]
  /\ UNCHANGED <<instant, cleared, cache, reads, pos, past>>

(* A request to the store fails: the operator gets an error.               *)
OperatorFails(o) ==
  /\ op[o] \in {"clear", "insert"}
  /\ op' = [op EXCEPT ![o] = "idle"]
  /\ wants' = [wants EXCEPT ![o] = None]
  /\ UNCHANGED <<instant, table, cache, reads, pos, past>>

(* The refresh of the route, after which it replies.                       *)
Show(o) ==
  /\ op[o] = "show"
  /\ Refresh
  /\ op' = [op EXCEPT ![o] = "idle"]
  /\ UNCHANGED <<instant, table, cached, fetchedAt, wants, pos, past>>

----------------------------------------------------------------------------
(* GET /api/positions.                                                     *)

(* The marker is read once, and the cached positions serve a request with  *)
(* the same one.                                                           *)
BeginQuery(q) ==
  /\ query[q] = "idle"
  /\ LET armed == ActiveSimulation(cached)
         hit == posCache.at # -1 /\ instant - posCache.at < PosTtl /\ posCache.id = armed
     IN  /\ marker' = [marker EXCEPT ![q] = armed]
         /\ numbers' = [numbers EXCEPT ![q] = IF hit THEN posCache.numbers ELSE @]
         /\ query' = [query EXCEPT ![q] = IF hit THEN "reply" ELSE "reading"]
  /\ Current
  /\ UNCHANGED <<instant, table, cached, fetchedAt, ops, posCache, past>>

(* scoreWallet asks for the scenario again once the readers have answered. *)
Score(q) ==
  /\ query[q] = "reading"
  /\ numbers' = [numbers EXCEPT ![q] = ActiveSimulation(cached)]
  /\ query' = [query EXCEPT ![q] = "scoring"]
  /\ Current
  /\ UNCHANGED <<instant, table, cached, fetchedAt, ops, marker, posCache, past>>

(* The context of each leg is there: the positions are kept and sent.      *)
Keep(q) ==
  /\ query[q] = "scoring"
  /\ posCache' = [at |-> instant, id |-> marker[q], numbers |-> numbers[q]]
  /\ query' = [query EXCEPT ![q] = "reply"]
  /\ UNCHANGED <<instant, table, cache, reads, ops, marker, numbers, past>>

Respond(q) ==
  /\ query[q] = "reply"
  /\ query' = [query EXCEPT ![q] = "idle"]
  /\ marker' = [marker EXCEPT ![q] = None]
  /\ numbers' = [numbers EXCEPT ![q] = None]
  /\ UNCHANGED <<instant, table, cache, reads, ops, posCache, past>>

NextSecond ==
  /\ instant < MaxTime
  /\ instant' = instant + 1
  /\ UNCHANGED <<table, cache, reads, ops, pos, past>>

----------------------------------------------------------------------------
Init ==
  /\ instant = 1
  /\ cleared = {} /\ expires = [s \in Scenario |-> 0]
  /\ cached = None /\ fetchedAt = 0 /\ inFlight = FALSE
  /\ flight = [f \in Flight |-> "off"] /\ answer = [f \in Flight |-> None]
  /\ op = [o \in Operator |-> "idle"] /\ wants = [o \in Operator |-> None]
  /\ query = [q \in Query |-> "idle"]
  /\ marker = [q \in Query |-> None] /\ numbers = [q \in Query |-> None]
  /\ posCache = NoPositions
  /\ past = {}

Next ==
  \/ \E f \in Flight : Answer(f) \/ Land(f)
  \/ \E o \in Operator :
       BeginArm(o) \/ BeginClear(o) \/ Clear(o) \/ Insert(o) \/ OperatorFails(o) \/ Show(o)
  \/ \E q \in Query : BeginQuery(q) \/ Score(q) \/ Keep(q) \/ Respond(q)
  \/ NextSecond

----------------------------------------------------------------------------
Shown == Scenario \union {None}

TypeOK ==
  /\ instant \in 1 .. MaxTime
  /\ cleared \subseteq Scenario
  /\ expires \in [Scenario -> 0 .. MaxTime + Window]
  /\ cached \in Shown /\ fetchedAt \in 0 .. MaxTime /\ inFlight \in BOOLEAN
  /\ flight \in [Flight -> {"off", "asked", "answered"}]
  /\ answer \in [Flight -> Shown]
  /\ op \in [Operator -> {"idle", "clear", "insert", "show"}]
  /\ wants \in [Operator -> Shown]
  /\ query \in [Query -> {"idle", "reading", "scoring", "reply"}]
  /\ marker \in [Query -> Shown] /\ numbers \in [Query -> Shown]
  /\ posCache \in [at : -1 .. MaxTime, id : Shown, numbers : Shown]
  /\ past \subseteq Scenario

(* A scenario that the process has stopped showing never comes back: no    *)
(* read that was overtaken by a newer one is adopted.                      *)
NoComeback == cached \notin past
============================================================================
