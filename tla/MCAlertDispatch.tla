-------------------------- MODULE MCAlertDispatch --------------------------
(* AlertDispatch with small values for TLC: days of four instants, a       *)
(* default cooldown of two.                                                *)
EXTENDS AlertDispatch, TLC

CONSTANTS p1, p2, s1, q1, q2

Default == [minBorrow |-> 1, cooldown |-> DefaultCooldown, quietFrom |-> Never,
            quietTo |-> Never, muted |-> FALSE, digest |-> "off"]
Nights  == [Default EXCEPT !.quietFrom = 3, !.quietTo = 1]
Hourly  == [Default EXCEPT !.digest = "hourly"]
Muting  == [Default EXCEPT !.muted = TRUE, !.cooldown = 4]

OnlyDefault == {Default}
OnlyNights  == {Nights}
OnlyHourly  == {Hourly}
AllTunings  == {Nights, Hourly, Muting}

Digests == [hourly |-> 1, daily |-> 4]

Priced   == [debt |-> TRUE, borrow |-> 2, unpriced |-> FALSE]
Repaid   == [debt |-> FALSE, borrow |-> 0, unpriced |-> FALSE]

OnlyPriced == {Priced}
AnyFacts   == {Priced, Repaid}

Interchangeable == Permutations({p1, p2}) \union Permutations({q1, q2})
=============================================================================
