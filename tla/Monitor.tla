------------------------------ MODULE Monitor ------------------------------
(***************************************************************************)
(* The dead man's switch.  Every loop of the worker writes a heartbeat     *)
(* when a pass completes (server/workerHeartbeat.ts); the worker's own     *)
(* monitor pass and the API's watchdog read the heartbeats, and page for a *)
(* silent loop through one ledger that keeps a page from being repeated    *)
(* (server/monitorAlerts.ts).                                              *)
(*                                                                         *)
(* Time passes in ticks and is kept as ages, which stop growing once they  *)
(* no longer matter, so runs are not cut off by a last moment.             *)
(***************************************************************************)
EXTENDS Integers, Sequences, FiniteSets

CONSTANTS
  Expected,   \* EXPECTED_LOOPS, in order, "monitor" among them
  Late,       \* ticks after which a heartbeat is overdue
  Repeat,     \* ALERT_REPEAT_MS.critical, in ticks
  MaxCrashes, \* bound: deaths of the worker and of the API, together
  MaxLost     \* bound: pages that no sink takes

Checker == {"worker", "api"}
Loop    == {Expected[i] : i \in 1 .. Len(Expected)}
None    == -1   \* no row

VARIABLES
  up,       \* the worker lives
  boot,     \* ticks since it booted
  running,  \* running[l]: some pass of l is in flight
  beat,     \* beat[l]: age of l's heartbeat, None for no row
  sent,     \* sent[l]: age of last_sent_at of l's row in monitor_alerts
  chk,      \* chk[c]: the alerts c is dispatching, and the request it is in
  done,     \* history: ticks since a pass of l completed
  crashes, lost

worker == <<up, boot, running>>
bounds == <<crashes, lost>>
vars   == <<worker, beat, sent, chk, done, bounds>>

Idle == [at |-> "idle", todo |-> <<>>]

Older(age, cap) == IF age = None \/ age > cap THEN age ELSE age + 1

----------------------------------------------------------------------------
(* The worker's loops.                                                     *)

(* Mutant of StartPass: the heartbeat says that a pass started.            *)
StartPassBeating(l) ==
  /\ up
  /\ running' = [running EXCEPT ![l] = TRUE]
  /\ beat' = [beat EXCEPT ![l] = 0]
  /\ UNCHANGED <<up, boot, sent, chk, done, bounds>>

(* setInterval fires, whether or not the last pass is over.                *)
StartPass(l) ==
  /\ up
  /\ running' = [running EXCEPT ![l] = TRUE]
  /\ UNCHANGED <<up, boot, beat, sent, chk, done, bounds>>

(* The pass completes, and beats; the ping may fail, and so may a dispatch *)
(* pass, which then does not beat.  Another pass of the loop may still be  *)
(* in flight, and a pass may also never end.                               *)
EndPass(l) ==
  /\ up /\ running[l]
  /\ \E others \in BOOLEAN : running' = [running EXCEPT ![l] = others]
  /\ \/ beat' = [beat EXCEPT ![l] = 0] /\ done' = [done EXCEPT ![l] = 0]
     \/ UNCHANGED <<beat, done>>
  /\ UNCHANGED <<up, boot, sent, chk, bounds>>

----------------------------------------------------------------------------
(* The two checkers.                                                       *)

(* Mutant of Overdue: a loop without a row has nothing to be late for.     *)
OverdueRowsOnly(c) == SelectSeq(Expected, LAMBDA l : beat[l] # None /\ beat[l] > Late)

(* heartbeatAlerts: the worker, and only it, excuses a loop that has never *)
(* reported for one grace period after its own boot.                       *)
Overdue(c) ==
  SelectSeq(Expected, LAMBDA l :
    IF beat[l] = None THEN c = "worker" => boot > Late ELSE beat[l] > Late)

MayAct(c) == c = "worker" => up

(* heartbeats.list(), as the last check of a monitor pass or on the        *)
(* watchdog's interval; a failed read is logged and changes nothing.       *)
Check(c) ==
  /\ MayAct(c) /\ chk[c].at = "idle"
  /\ c = "worker" => running["monitor"]
  /\ Overdue(c) # <<>>
  /\ chk' = [chk EXCEPT ![c] = [at |-> "claim", todo |-> Overdue(c)]]
  /\ UNCHANGED <<worker, beat, sent, done, bounds>>

(* dispatch goes through its alerts one by one.                            *)
After(c) ==
  LET todo == Tail(chk[c].todo)
  IN  IF todo = <<>> THEN Idle ELSE [at |-> "claim", todo |-> todo]

(* claim, first request: insert the key's row unless there is one.         *)
Insert(c) ==
  /\ MayAct(c) /\ chk[c].at = "claim"
  /\ LET l == Head(chk[c].todo)
     IN  /\ sent' = [sent EXCEPT ![l] = IF @ = None THEN 0 ELSE @]
         /\ chk' = [chk EXCEPT ![c].at = IF sent[l] = None THEN "sink" ELSE "patch"]
  /\ UNCHANGED <<worker, beat, done, bounds>>

(* claim, second request: touch the row if its last page is old enough.    *)
(* The severity is critical throughout, so nothing ever escalates.         *)
Patch(c) ==
  /\ MayAct(c) /\ chk[c].at = "patch"
  /\ LET l == Head(chk[c].todo)
     IN  IF sent[l] > Repeat
         THEN /\ sent' = [sent EXCEPT ![l] = 0]
              /\ chk' = [chk EXCEPT ![c] = [@ EXCEPT !.at = "sink"]]
         ELSE /\ chk' = [chk EXCEPT ![c] = After(c)]
              /\ UNCHANGED sent
  /\ UNCHANGED <<worker, beat, done, bounds>>

(* Mutant of LedgerFails: an outage of the ledger drops the page.          *)
LedgerFailsClosed(c) ==
  /\ MayAct(c) /\ chk[c].at \in {"claim", "patch"}
  /\ chk' = [chk EXCEPT ![c] = After(c)]
  /\ UNCHANGED <<worker, beat, sent, done, bounds>>

(* Either request fails: the page goes out ungated.                        *)
LedgerFails(c) ==
  /\ MayAct(c) /\ chk[c].at \in {"claim", "patch"}
  /\ chk' = [chk EXCEPT ![c].at = "sink"]
  /\ UNCHANGED <<worker, beat, sent, done, bounds>>

(* The sinks.  A failed one is logged, and the claim stands all the same.  *)
Deliver(c) ==
  /\ MayAct(c) /\ chk[c].at = "sink"
  /\ chk' = [chk EXCEPT ![c] = After(c)]
  /\ UNCHANGED <<worker, beat, sent, done, bounds>>

SinkFails(c) ==
  /\ MayAct(c) /\ chk[c].at = "sink"
  /\ lost < MaxLost
  /\ lost' = lost + 1
  /\ chk' = [chk EXCEPT ![c] = After(c)]
  /\ UNCHANGED <<worker, beat, sent, done, crashes>>

----------------------------------------------------------------------------
(* The world.                                                              *)

WorkerDies ==
  /\ up /\ crashes < MaxCrashes
  /\ up' = FALSE
  /\ running' = [l \in Loop |-> FALSE]
  /\ chk' = [chk EXCEPT !["worker"] = Idle]
  /\ crashes' = crashes + 1
  /\ UNCHANGED <<boot, beat, sent, done, lost>>

WorkerBoots ==
  /\ ~up
  /\ up' = TRUE /\ boot' = 0
  /\ UNCHANGED <<running, beat, sent, chk, done, bounds>>

ApiRestarts ==
  /\ crashes < MaxCrashes
  /\ chk["api"] # Idle
  /\ chk' = [chk EXCEPT !["api"] = Idle]
  /\ crashes' = crashes + 1
  /\ UNCHANGED <<worker, beat, sent, done, lost>>

Tick ==
  /\ boot' = Older(boot, Late)
  /\ beat' = [l \in Loop |-> Older(beat[l], Late)]
  /\ sent' = [l \in Loop |-> Older(sent[l], Repeat)]
  /\ done' = [l \in Loop |-> Older(done[l], Late)]
  /\ UNCHANGED <<up, running, chk, bounds>>

Init ==
  /\ up = TRUE /\ boot = 0
  /\ running = [l \in Loop |-> FALSE]
  /\ beat = [l \in Loop |-> None]
  /\ sent = [l \in Loop |-> None]
  /\ chk = [c \in Checker |-> Idle]
  /\ done = [l \in Loop |-> 0]
  /\ crashes = 0 /\ lost = 0

Next ==
  \/ \E l \in Loop : StartPass(l) \/ EndPass(l)
  \/ \E c \in Checker :
       Check(c) \/ Insert(c) \/ Patch(c) \/ LedgerFails(c) \/ Deliver(c) \/ SinkFails(c)
  \/ WorkerDies \/ WorkerBoots \/ ApiRestarts \/ Tick

(* Time passes; the API stays up but for MaxCrashes restarts, its timer    *)
(* fires, and its requests end, as does a request of a worker that lives.  *)
(* Nothing makes a pass of the worker end, or a dead worker boot.          *)
Fairness ==
  /\ WF_vars(Tick)
  /\ WF_vars(Check("api"))
  /\ \A c \in Checker :
       /\ WF_vars(Insert(c) \/ LedgerFails(c))
       /\ WF_vars(Patch(c) \/ LedgerFails(c))
       /\ WF_vars(Deliver(c) \/ SinkFails(c))

Spec     == Init /\ [][Next]_vars
FairSpec == Spec /\ Fairness

----------------------------------------------------------------------------
Age(cap) == {None} \union (0 .. cap + 1)

TypeOK ==
  /\ up \in BOOLEAN
  /\ boot \in Age(Late)
  /\ running \in [Loop -> BOOLEAN]
  /\ beat \in [Loop -> Age(Late)]
  /\ sent \in [Loop -> Age(Repeat)]
  /\ \A c \in Checker :
       /\ chk[c].at \in {"idle", "claim", "patch", "sink"}
       /\ chk[c].todo = <<>> <=> chk[c].at = "idle"
       /\ \A i \in 1 .. Len(chk[c].todo) : chk[c].todo[i] \in Loop
  /\ done \in [Loop -> Age(Late)]
  /\ crashes \in 0 .. MaxCrashes /\ lost \in 0 .. MaxLost

(* A sink takes a page for l.                                              *)
Paged(l) == \E c \in Checker : Deliver(c) /\ Head(chk[c].todo) = l

(* A loop that completes no pass any more is paged for, again and again:   *)
(* whether it hangs, never started, or died with its process, whoever of   *)
(* the two checkers holds the ledger's row, and whatever claims were lost  *)
(* with a crash or a failed sink on the way.                               *)
SilenceIsPaged ==
  \A l \in Loop : <>[](done[l] > Late) => []<><<Paged(l)>>_vars
============================================================================
