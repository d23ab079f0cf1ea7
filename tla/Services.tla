------------------------------ MODULE Services ------------------------------
(***************************************************************************)
(* The services beside the worker's loops.  They share no state, so one    *)
(* behaviour runs one of them: focus, chosen at the start.  The variables  *)
(* of the others are Nothing.                                              *)
(***************************************************************************)
EXTENDS Integers, Sequences, FiniteSets

CONSTANTS
  Nothing,
  Request,      \* requests and passes that overlap
  Ceiling,      \* the cap on slippage of both contracts
  MTokens,      \* mTokens to one unit of the underlying
  Drafts,                                                      \* PermitScope
  Permit, PermitNonce, Epoch, Deadline, Grace, PermitTime,     \* ExitPermits
  Account, Team, RefundDeadline, MaxDonations, FundTime,       \* Escrow
  Scenario, Operator, Flight, Query, DrillWindow, DrillTtl, PosTtl,
  DrillTime,                                                   \* Simulation
  Key, Limit, WindowMs, MaxKeys, MinSweep, LimiterTime,        \* RateLimit
  Linked, Chat, Code, Hook, Stamp,                             \* TelegramLinks
  Tick, Threshold,                                             \* ScoringBlind
  User, Card, Slots, ClaimWindow, Hours, RetainGrants, MaxRows, MaxMints,
  TrialTime,                                                   \* Membership
  Wallet, Nonce, Link, Browser, Sid, Ttl, SignInTime,          \* SignIn
  Market, ProtocolOf, DebtToken, CollateralToken, Owes, Asset, NoAsset, Usdc,
  DeployBps, Stray, Calls, Worlds,                             \* Executor
  Orders, Premium, LeverWorlds                                 \* Deleverager

VARIABLES
  focus,
  draft,                                                       \* PermitScope
  now,                          \* the clock of those that begin at zero
  epoch, used, row, told, at, task, arg, started, todo, fetched, seenEpoch,
  verdict, deadAtStart,                                        \* ExitPermits
  timestamp, owner, treasury, shipped, depositTime, refunded, balance, swept,
  donations,                                                   \* Escrow
  instant, cleared, expires, cached, fetchedAt, inFlight, flight, answer, op, wants,
  query, marker, numbers, posCache, past,                      \* Simulation
  hits, sweepBlockedUntil, allowed, futile,                   \* RateLimit
  code, link, blocks, hook, stamp, quiet,                      \* TelegramLinks
  tick, fresh, watching, consecutive, raised, barren,          \* ScoringBlind
  card, grant, rows, req, ending, minted, usesCleared, retired, bought,  \* Membership
  nonce, alertLink, signed, session, cookie, call, issued, honoured,  \* SignIn
  stage, permit, legs, halted, pos, wallet, held, due, rest, before,  \* Executor
  step, order, debt, coll, extra, bal, approved, paid, lender, flashActive,
  start                                                        \* Deleverager

permitVars == <<epoch, used, row, told, at, task, arg, started, todo, fetched, seenEpoch,
                verdict, deadAtStart>>
fundVars   == <<timestamp, owner, treasury, shipped, depositTime, refunded, balance, swept,
                donations>>
drillVars  == <<instant, cleared, expires, cached, fetchedAt, inFlight, flight, answer, op,
                wants, query, marker, numbers, posCache, past>>
limitVars  == <<hits, sweepBlockedUntil, allowed, futile>>
chatVars   == <<code, link, blocks, hook, stamp, quiet>>
blindVars  == <<tick, fresh, watching, consecutive, raised, barren>>
trialVars  == <<card, grant, rows, req, ending, minted, usesCleared, retired, bought>>
signInVars == <<nonce, alertLink, signed, session, cookie, call, issued, honoured>>
exitVars   == <<stage, permit, legs, halted, pos, wallet, held, due, rest, before>>
leverVars  == <<step, order, debt, coll, extra, bal, approved, paid, lender, flashActive, start>>
vars == <<focus, draft, now, permitVars, fundVars, drillVars, limitVars, chatVars,
          blindVars, trialVars, signInVars, exitVars, leverVars>>

Scope == INSTANCE PermitScope

Permits == INSTANCE ExitPermits WITH Nonce <- PermitNonce, MaxTime <- PermitTime

Funds == INSTANCE Escrow WITH MaxNow <- FundTime

Drill == INSTANCE Simulation WITH Window <- DrillWindow, Ttl <- DrillTtl, MaxTime <- DrillTime

Limiter == INSTANCE RateLimit WITH MaxTime <- LimiterTime

Chats == INSTANCE TelegramLinks WITH Wallet <- Linked, Nobody <- Nothing

Blind == INSTANCE ScoringBlind

Trials == INSTANCE Membership WITH Window <- ClaimWindow, MaxTime <- TrialTime

Identity == INSTANCE SignIn WITH MaxTime <- SignInTime

Exits == INSTANCE Executor WITH None <- Nothing

Levers == INSTANCE Deleverager WITH owner <- paid, before <- start, Worlds <- LeverWorlds

----------------------------------------------------------------------------
(* What is assumed of the constants: amounts and instants are numbers.     *)

DraftPermit == [kind : Nat, repay : Nat, slip : Nat, mask : Nat, trigger : Nat]

Numbers == \A p \in Permit : Epoch[p] \in Int /\ Deadline[p] \in Int

LimiterSizes ==
  /\ Limit \in Nat /\ WindowMs \in Nat \ {0} /\ LimiterTime \in Int
SweepSizes == MinSweep \in Nat /\ MaxKeys \in Nat \ {0}

TrialNumbers == Slots \in [Card -> Nat] /\ Hours \in Nat

(* A proof is a nonce or a link.                                           *)
ProofKinds ==
  /\ Nonce \intersect Link = {} /\ Nothing \notin Wallet
  /\ Ttl \in [{"proof", "full", "readonly"} -> Nat]

(* An exit's calls and the worlds they meet.  On Aave and Moonwell a leg's *)
(* asset is its market; on Compound its asset selects the collateral, and  *)
(* only Compound keeps the debt of a market elsewhere; only Aave lends at  *)
(* a stable rate.                                                          *)
ExitLeg  == [market : Market, asset : Asset, repay : Nat, withdraw : Nat]
LegFits(l) ==
  /\ ProtocolOf[l.market] \in {Exits!AaveV3, Exits!Moonwell} => l.asset = l.market
  /\ ProtocolOf[l.market] = Exits!CompoundV3 /\ l.asset = NoAsset => Owes[l.market] = l.market
MarketsFit ==
  /\ Owes \in [Market -> Market]
  /\ \A m \in Market :
       /\ ProtocolOf[Owes[m]] = ProtocolOf[m] /\ DebtToken[Owes[m]] = DebtToken[m]
       /\ ProtocolOf[m] # Exits!CompoundV3 => Owes[m] = m
Position == [variable : Nat, stable : Nat, collateral : Nat]
Scoped   == [kind : Nat, mask : Nat, trigger : Nat, repay : Nat, slip : Nat]
ExitScale ==
  /\ DeployBps \in 0 .. 10000 /\ Ceiling \in 0 .. 10000
  /\ MTokens \in Nat \ {0} /\ Stray \in Nat
ExitNumbers ==
  /\ IsFiniteSet(Market) /\ ExitScale /\ MarketsFit
  /\ \A c \in Calls :
       /\ c.legs \in Seq(ExitLeg) /\ c.permit \in Scoped \union {Nothing}
       /\ \A i \in 1 .. Len(c.legs) : LegFits(c.legs[i])
  /\ \A w \in Worlds :
       /\ w.pos \in [Market -> Position] /\ w.wallet \in [Exits!Token -> Nat]
       /\ \A m \in Market :
            /\ ProtocolOf[m] # Exits!AaveV3 => w.pos[m].stable = 0
            /\ Owes[m] # m => w.pos[m].variable = 0

(* A deleverage's orders and worlds.                                       *)
LoanNumbers ==
  /\ Orders \subseteq [protocol : {"aave", "moonwell", "comet", "morpho"},
                       source : {"balancer", "morpho", "aave"},
                       repay : Nat, withdraw : Nat, slip : Nat]
  /\ LeverWorlds \subseteq [debt : Nat, coll : Nat, lender : Nat, bal : [debt : Nat, coll : Nat]]
  /\ Premium \in [{"balancer", "morpho", "aave"} -> Nat]
  /\ MTokens \in Nat \ {0}
  /\ Ceiling \in 0 .. 10000

(* The bounds of the models.                                               *)
Bounds ==
  /\ {PermitTime, FundTime, LimiterTime, TrialTime, SignInTime} \subseteq Nat
  /\ DrillTime \in Nat \ {0}
  /\ {MaxDonations, MaxMints} \subseteq Nat

ASSUME ServiceConstants ==
  /\ Drafts \subseteq DraftPermit
  /\ Numbers
  /\ IsFiniteSet(Account) /\ Team \in Account /\ RefundDeadline \in Int
  /\ DrillWindow \in Nat
  /\ LimiterSizes /\ SweepSizes
  /\ Nothing \notin Chat
  /\ Threshold \in Nat
  /\ TrialNumbers
  /\ ProofKinds
  /\ ExitNumbers /\ LoanNumbers
  /\ Bounds

----------------------------------------------------------------------------
Focus == {"scope", "permits", "funds", "drill", "limiter", "chats", "blind",
          "trials", "identity", "exits", "levers"}

(* The variables of a service that is out of focus.                        *)
NoPermit ==
  /\ epoch = Nothing /\ used = Nothing /\ row = Nothing /\ told = Nothing /\ at = Nothing
  /\ task = Nothing /\ arg = Nothing /\ started = Nothing /\ todo = Nothing
  /\ fetched = Nothing /\ seenEpoch = Nothing /\ verdict = Nothing /\ deadAtStart = Nothing
NoFund ==
  /\ timestamp = Nothing /\ owner = Nothing /\ treasury = Nothing /\ shipped = Nothing
  /\ depositTime = Nothing /\ refunded = Nothing /\ balance = Nothing /\ swept = Nothing
  /\ donations = Nothing
NoDrill ==
  /\ instant = Nothing /\ cleared = Nothing /\ expires = Nothing /\ cached = Nothing
  /\ fetchedAt = Nothing /\ inFlight = Nothing /\ flight = Nothing /\ answer = Nothing
  /\ op = Nothing /\ wants = Nothing /\ query = Nothing /\ marker = Nothing
  /\ numbers = Nothing /\ posCache = Nothing /\ past = Nothing
NoLimit ==
  /\ hits = Nothing /\ sweepBlockedUntil = Nothing /\ allowed = Nothing /\ futile = Nothing
NoChat ==
  /\ code = Nothing /\ link = Nothing /\ blocks = Nothing /\ hook = Nothing
  /\ stamp = Nothing /\ quiet = Nothing
NoTick ==
  /\ tick = Nothing /\ fresh = Nothing /\ watching = Nothing /\ consecutive = Nothing
  /\ raised = Nothing /\ barren = Nothing
NoTrial ==
  /\ card = Nothing /\ grant = Nothing /\ rows = Nothing /\ req = Nothing
  /\ ending = Nothing /\ minted = Nothing /\ usesCleared = Nothing /\ retired = Nothing
  /\ bought = Nothing
NoSignIn ==
  /\ nonce = Nothing /\ alertLink = Nothing /\ signed = Nothing /\ session = Nothing
  /\ cookie = Nothing /\ call = Nothing /\ issued = Nothing /\ honoured = Nothing
NoExit ==
  /\ stage = Nothing /\ permit = Nothing /\ legs = Nothing /\ halted = Nothing
  /\ pos = Nothing /\ wallet = Nothing /\ held = Nothing /\ due = Nothing /\ rest = Nothing
  /\ before = Nothing
NoLever ==
  /\ step = Nothing /\ order = Nothing /\ debt = Nothing /\ coll = Nothing
  /\ extra = Nothing /\ bal = Nothing /\ approved = Nothing /\ paid = Nothing
  /\ lender = Nothing /\ flashActive = Nothing /\ start = Nothing

Init ==
  /\ focus \in Focus
  /\ draft \in IF focus = "scope" THEN Drafts ELSE {Nothing}
  /\ now = 0
  /\ IF focus = "permits" THEN Permits!Init ELSE NoPermit
  /\ IF focus = "funds" THEN Funds!Init ELSE NoFund
  /\ IF focus = "drill" THEN Drill!Init ELSE NoDrill
  /\ IF focus = "limiter" THEN Limiter!Init ELSE NoLimit
  /\ IF focus = "chats" THEN Chats!Init ELSE NoChat
  /\ IF focus = "blind" THEN Blind!Init ELSE NoTick
  /\ IF focus = "trials" THEN Trials!Init ELSE NoTrial
  /\ IF focus = "identity" THEN Identity!Init ELSE NoSignIn
  /\ IF focus = "exits" THEN Exits!Init ELSE NoExit
  /\ IF focus = "levers" THEN Levers!Init ELSE NoLever

Clocks == {"permits", "limiter", "trials", "identity"}

(* What is out of focus stays as it is.                                    *)
Others ==
  /\ UNCHANGED <<focus, draft>>
  /\ IF focus \in Clocks THEN TRUE ELSE UNCHANGED now
  /\ IF focus = "permits" THEN TRUE ELSE UNCHANGED permitVars
  /\ IF focus = "funds" THEN TRUE ELSE UNCHANGED fundVars
  /\ IF focus = "drill" THEN TRUE ELSE UNCHANGED drillVars
  /\ IF focus = "limiter" THEN TRUE ELSE UNCHANGED limitVars
  /\ IF focus = "chats" THEN TRUE ELSE UNCHANGED chatVars
  /\ IF focus = "blind" THEN TRUE ELSE UNCHANGED blindVars
  /\ IF focus = "trials" THEN TRUE ELSE UNCHANGED trialVars
  /\ IF focus = "identity" THEN TRUE ELSE UNCHANGED signInVars
  /\ IF focus = "exits" THEN TRUE ELSE UNCHANGED exitVars
  /\ IF focus = "levers" THEN TRUE ELSE UNCHANGED leverVars

Next ==
  \/ focus = "permits"  /\ Permits!Next  /\ Others
  \/ focus = "funds"    /\ Funds!Next    /\ Others
  \/ focus = "drill"    /\ Drill!Next    /\ Others
  \/ focus = "limiter"  /\ Limiter!Next  /\ Others
  \/ focus = "chats"    /\ Chats!Next    /\ Others
  \/ focus = "blind"    /\ Blind!Next    /\ Others
  \/ focus = "trials"   /\ Trials!Next   /\ Others
  \/ focus = "identity" /\ Identity!Next /\ Others
  \/ focus = "exits"    /\ Exits!Next    /\ Others
  \/ focus = "levers"   /\ Levers!Next   /\ Others

Spec == Init /\ [][Next]_vars

----------------------------------------------------------------------------
(* The properties of the services, each stated in its module.              *)

TypeOK ==
  /\ focus = "permits" => Permits!TypeOK
  /\ focus = "funds" => Funds!TypeOK
  /\ focus = "drill" => Drill!TypeOK
  /\ focus = "limiter" => Limiter!TypeOK
  /\ focus = "chats" => Chats!TypeOK
  /\ focus = "blind" => Blind!TypeOK
  /\ focus = "trials" => Trials!TypeOK
  /\ focus = "identity" => Identity!TypeOK
  /\ focus = "exits" => Exits!TypeOK
  /\ focus = "levers" => Levers!TypeOK

ScopeMirrors     == focus = "scope" => Scope!ScopeMirrors(draft)
DeadRowsStayDead == focus = "permits" => Permits!DeadRowsStayDead
RevocationSeen   == focus = "permits" => Permits!RevocationSeen
RefundsFunded    == focus = "funds" => Funds!RefundsFunded
NoComeback       == focus = "drill" => Drill!NoComeback
BudgetHolds      == focus = "limiter" => Limiter!BudgetHolds
CapacityRecovers == focus = "limiter" => Limiter!CapacityRecovers
StopSticks       == focus = "chats" => Chats!StopSticks
BlindIsReal      == focus = "blind" => Blind!BlindIsReal
SlotsCounted     == focus = "trials" => Trials!SlotsCounted
OneTrialPerGrant == focus = "trials" => Trials!OneTrialPerGrant
OneProofOneUse   == focus = "identity" => Identity!OneProofOneUse

(* The two contracts that move an owner's positions in one transaction: an *)
(* exit does what was signed and leaves the owner whole, a deleverage      *)
(* settles its loan (PanikExecutor.sol, PanikDeleverager.sol).             *)
TransactionsSettle ==
  /\ focus = "exits" => Exits!ExitSettles
  /\ focus = "levers" => Levers!LoanSettled
=============================================================================
