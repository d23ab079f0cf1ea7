---------------------------- MODULE AlertPolicy ----------------------------
(***************************************************************************)
(* What becomes of one pending alert: decideSend                           *)
(* (packages/scoring/src/watch/alertPolicy.ts) with the predicates on a    *)
(* subscriber's settings it uses (watch/alertSettings.ts).                 *)
(*                                                                         *)
(* An alert a is a record with the fields                                  *)
(*   to        the status crossed into: within, approaching, outside       *)
(*   band      the engine's band of that score                             *)
(*   at        when the transition was written                             *)
(* the facts f about its position, from the newest snapshot, are           *)
(*   debt      does it have a (finite) health factor?                      *)
(*   borrow    its debt in USD, and unpriced: is that value unavailable?   *)
(* and the settings s of its reader are                                    *)
(*   minBorrow, cooldown, quietFrom, quietTo, muted, digest                *)
(* where muted says whether the alert's protocol or position is muted and  *)
(* quietFrom = Never stands for no quiet hours.                            *)
(***************************************************************************)
EXTENDS Integers

CONSTANTS
  Day,              \* units of time in a day
  Interval,         \* Interval[d]: time between digests of frequency d
  DefaultCooldown   \* ALERT_POLICY.cooldownMs

ASSUME PolicyConstants ==
  /\ Day \in Nat \ {0}
  /\ DefaultCooldown \in Nat

Never   == -1
NoPrior == [to |-> "none", at |-> Never]

(* A liquidation may be next: exempt from every preference.                *)
IsCritical(a) == a.to = "outside" \/ a.band = "CRITICAL"

(* Quiet hours may wrap past midnight.                                     *)
InQuietHours(now, s) ==
  LET t == now % Day
  IN  /\ s.quietFrom # Never /\ s.quietTo # Never
      /\ \/ s.quietFrom < s.quietTo /\ s.quietFrom <= t /\ t < s.quietTo
         \/ s.quietFrom > s.quietTo /\ (s.quietFrom <= t \/ t < s.quietTo)

(* When the digest with an alert of time oldest is due.                    *)
DigestDueAt(s, lastDigest, oldest) ==
  (IF lastDigest = Never THEN oldest ELSE lastDigest) + Interval[s.digest]

(* A reader may shorten the cooldown of a critical alert, not lengthen it. *)
EffectiveCooldown(s, critical) ==
  IF critical /\ s.cooldown > DefaultCooldown THEN DefaultCooldown ELSE s.cooldown

(* Enough debt to be liquidated; without a price that cannot be told.      *)
Material(f, s) == f.debt /\ (f.unpriced \/ f.borrow >= s.minBorrow)

(* approaching, then outside: worse news, which no cooldown holds back.    *)
Escalates(a, prior) == a.to = "outside" /\ prior.to = "approaching"

Cooling(a, s, prior) ==
  /\ prior # NoPrior /\ ~Escalates(a, prior)
  /\ a.at - prior.at < EffectiveCooldown(s, IsCritical(a))

(* applyPreferences: live, or held for later.                              *)
Preference(s, now) ==
  IF InQuietHours(now, s) THEN "deferred_quiet"
  ELSE IF s.digest # "off" THEN "deferred_digest" ELSE "send"

(* An all-clear answers the last message sent, of either kind.             *)
DecideRecovery(s, prior, now) ==
  IF prior = NoPrior THEN "skipped"
  ELSE IF prior.to = "within" THEN "suppressed_cooldown"
  ELSE IF s.muted THEN "suppressed_muted" ELSE Preference(s, now)

(* Mutant of DecideAlert: preferences come before severity.                *)
DecideAlertQuietly(a, f, s, prior, now) ==
  IF ~Material(f, s) THEN "suppressed_immaterial"
  ELSE IF Cooling(a, s, prior) THEN "suppressed_cooldown"
  ELSE Preference(s, now)

(* Materiality, mute, cooldown, preferences: in this order.                *)
DecideAlert(a, f, s, prior, now) ==
  IF ~Material(f, s) THEN "suppressed_immaterial"
  ELSE IF s.muted /\ ~IsCritical(a) THEN "suppressed_muted"
  ELSE IF Cooling(a, s, prior) THEN "suppressed_cooldown"
  ELSE IF IsCritical(a) THEN "send" ELSE Preference(s, now)

DecideSend(a, f, s, prior, now) ==
  IF a.to = "within" THEN DecideRecovery(s, prior, now)
  ELSE DecideAlert(a, f, s, prior, now)

Deferred == {"deferred_quiet", "deferred_digest"}
Verdict  == Deferred \union
  {"send", "skipped", "suppressed_immaterial", "suppressed_cooldown", "suppressed_muted"}
=============================================================================
