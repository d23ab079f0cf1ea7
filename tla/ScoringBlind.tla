---------------------------- MODULE ScoringBlind ----------------------------
(***************************************************************************)
(* "The scoring pass is producing nothing" (server/scoringBlind.ts): the   *)
(* watch loop pages after Threshold ticks in a row that scored no leg.     *)
(* runTick (scripts/watch-worker.ts) judges a tick when it ends, by the    *)
(* legs counted since any tick last ended, so ticks that overlap are       *)
(* credited with each other's legs.                                        *)
(***************************************************************************)
EXTENDS Integers, FiniteSets

CONSTANTS
  Tick,      \* ticks under way at once
  Threshold  \* SCORING_BLIND_TICKS

VARIABLES
  tick,         \* tick[t]: "off", "empty" or "scored" so far
  fresh,        \* legsScoredTotal > legsScoredAtLastTick
  watching,     \* profileByWallet is not empty
  consecutive,  \* as far as Threshold
  raised,       \* the last tick to end raised the page
  barren        \* history: a tick of the present run really scored nothing

vars == <<tick, fresh, watching, consecutive, raised, barren>>

StartTick(t) ==
  /\ tick[t] = "off"
  /\ tick' = [tick EXCEPT ![t] = "empty"]
  /\ UNCHANGED <<fresh, watching, consecutive, raised, barren>>

(* scoreWallet returned some legs for one of the wallets.                  *)
ScoreLegs(t) ==
  /\ tick[t] # "off"
  /\ tick' = [tick EXCEPT ![t] = "scored"]
  /\ fresh' = TRUE
  /\ UNCHANGED <<watching, consecutive, raised, barren>>

(* Mutant of Observed: a tick that scored leaves the run as it is.         *)
ObservedOnly(seen) ==
  IF ~watching \/ seen THEN consecutive
  ELSE IF consecutive < Threshold THEN consecutive + 1 ELSE consecutive

(* observe: nothing to score, or something scored, resets the run.         *)
Observed(seen) ==
  IF ~watching \/ seen THEN 0
  ELSE IF consecutive < Threshold THEN consecutive + 1 ELSE consecutive

EndTick(t) ==
  /\ tick[t] # "off"
  /\ tick' = [tick EXCEPT ![t] = "off"]
  /\ consecutive' = Observed(fresh)
  /\ raised' = (~fresh /\ watching /\ consecutive' = Threshold)
  /\ barren' = (watching /\ ~fresh /\ (tick[t] = "empty" \/ (consecutive # 0 /\ barren)))
  /\ fresh' = FALSE
  /\ UNCHANGED watching

(* The registry empties or fills between two ticks.                        *)
Reload ==
  /\ watching' = ~watching
  /\ UNCHANGED <<tick, fresh, consecutive, raised, barren>>

Init ==
  /\ tick = [t \in Tick |-> "off"]
  /\ fresh = FALSE /\ watching = TRUE
  /\ consecutive = 0 /\ raised = FALSE /\ barren = FALSE

Next == Reload \/ \E t \in Tick : StartTick(t) \/ ScoreLegs(t) \/ EndTick(t)

----------------------------------------------------------------------------
TypeOK ==
  /\ tick \in [Tick -> {"off", "empty", "scored"}]
  /\ fresh \in BOOLEAN /\ watching \in BOOLEAN
  /\ raised \in BOOLEAN /\ barren \in BOOLEAN
  /\ consecutive \in 0 .. Threshold

(* The page "scored 0 positions on N consecutive ticks" is never raised    *)
(* while every tick scores: at least one tick of the run produced nothing, *)
(* as long as no more than Threshold ticks overlap.                        *)
BlindIsReal == raised => barren
============================================================================
