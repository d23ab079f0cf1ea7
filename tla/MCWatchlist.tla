---------------------------- MODULE MCWatchlist ----------------------------
(* Watchlist with small values for TLC. *)
EXTENDS Watchlist, TLC, FiniteSetsExt

CONSTANTS a, b, s1, s2

Add(r) == [op |-> "add", rank |-> r]
Remove == [op |-> "remove", rank |-> Unwatched]

(* Every batch on one wallet; on two, a swap, or two adds or two removes.  *)
Single   == UNION {[{w} -> Op] : w \in Wallet}
Together == UNION {[ws -> {Add(1)}] \union [ws -> {Remove}] : ws \in kSubset(2, Wallet)}
Swap     == UNION {{[w \in ws |-> IF w = v THEN Add(1) ELSE Remove] : v \in ws} : ws \in kSubset(2, Wallet)}

Batches     == Single \union Together \union Swap
FewerWishes == {ops \in Single \union Swap : \A w \in DOMAIN ops : ops[w].op = "update" => ops[w].rank = 2}

Sessions == Permutations({s1, s2})
Mirror   == Sessions \union Permutations({a, b})
============================================================================
