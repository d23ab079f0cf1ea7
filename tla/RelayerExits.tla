---------------------------- MODULE RelayerExits ----------------------------
(***************************************************************************)
(* The relayer implements ExitOnce: the exits of a permit are its          *)
(* successful transactions, a permit is voided when the contract refuses   *)
(* it though it was not used, and the report is the status of its row.     *)
(***************************************************************************)
EXTENDS Relayer

Successes(p) == {h \in Hash : tx[h].permit = p /\ tx[h].state = "success"}

Promise == INSTANCE ExitOnce WITH
  exits    <- [p \in Permit |-> Cardinality(Successes(p))],
  voided   <- {p \in dead : Successes(p) = {}},
  reported <- {p \in Permit : status[p] = "succeeded"}

(* Whatever the faults, every behaviour of the relayer is one of ExitOnce: *)
(* retries, replacements, crashes and evictions exit a permit once and     *)
(* never after its owner voided it, and no reverted or unmined transaction *)
(* is reported as an exit.                                                 *)
ImplementsExitOnce == Promise!Spec
=============================================================================
