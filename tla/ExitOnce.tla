------------------------------ MODULE ExitOnce ------------------------------
(***************************************************************************)
(* What the relayer, its ledger and the executor contract promise together *)
(* to an owner who has signed permits: a permit closes the position once,  *)
(* and not after it was voided (revoked, cancelled or run out), and what   *)
(* the ledger reports as an exit has happened.  Module RelayerExits shows  *)
(* that Relayer implements this specification.                             *)
(***************************************************************************)
EXTENDS Naturals

CONSTANT Permit

VARIABLES
  exits,     \* exits[p]: how often p has closed the position
  voided,    \* permits that were voided before they were used
  reported   \* permits whose exit the ledger reports

vars == <<exits, voided, reported>>

Init ==
  /\ exits = [p \in Permit |-> 0]
  /\ voided = {}
  /\ reported = {}

Exit(p) ==
  /\ exits[p] = 0 /\ p \notin voided
  /\ exits' = [exits EXCEPT ![p] = 1]
  /\ UNCHANGED <<voided, reported>>

(* Any permits that are not used yet, at once: revokeAll.                  *)
Void(ps) ==
  /\ voided' = voided \union {p \in ps : exits[p] = 0}
  /\ UNCHANGED <<exits, reported>>

Report(p) ==
  /\ exits[p] = 1
  /\ reported' = reported \union {p}
  /\ UNCHANGED <<exits, voided>>

(* A report may be taken back: the error path of a write whose answer was  *)
(* lost marks the row failed.                                              *)
Withdraw(p) ==
  /\ reported' = reported \ {p}
  /\ UNCHANGED <<exits, voided>>

Next ==
  \/ \E p \in Permit : Exit(p) \/ Report(p) \/ Withdraw(p)
  \/ \E ps \in SUBSET Permit : Void(ps)

Spec == Init /\ [][Next]_vars
=============================================================================
