----------------------------- MODULE MCRelayer -----------------------------
(* Relayer with small values for TLC. *)
EXTENDS RelayerExits, TLC

CONSTANTS w1, p1, p2, t1, t2, h1, h2, h3

(* One permit.                                                             *)
Solo    == p1 :> w1
OnlyAge == p1 :> 1

(* One owner, who has signed a second permit later.                        *)
Both    == p1 :> w1 @@ p2 :> w1
Renewed == p1 :> 1 @@ p2 :> 2

(* Passes and hashes are interchangeable.                                  *)
Interchangeable == Permutations({t1, t2}) \union Permutations({h1, h2, h3})
============================================================================
