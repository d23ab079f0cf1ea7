----------------------------- MODULE Membership -----------------------------
(***************************************************************************)
(* Vouchers: a printed code buys an account one trial.  Redeeming it takes *)
(* a slot of the campaign and mints a grant in one database function       *)
(* (redeem_campaign_code), then starts the grant's clock (open_trial), and *)
(* then writes the membership, in separate requests                        *)
(* (server/accounts.ts, server/accountStore.ts).  Operators end trials and *)
(* clear uses (server/adminTrials.ts, server/adminCampaigns.ts), and a     *)
(* retention job deletes old grants.                                       *)
(***************************************************************************)
EXTENDS Integers, Sequences, FiniteSets

CONSTANTS
  User, Card,
  Slots,     \* max_redemptions of each card
  Window,    \* claim_window_expires_at of each card
  Hours,     \* trial_duration_hours
  RetainGrants, \* retention of expired grants
  Request,   \* redemptions under way at once
  Nothing,   \* SQL null
  MaxTime, MaxRows, MaxMints  \* bounds

VARIABLES
  now,
  card,    \* product_campaigns: card[c] = [count, active]
  grant,   \* trial_grants: grant[u][c] = [id, opened, expires], id 0 for no row
  rows,    \* memberships: rows[u], in order of creation
  req,     \* req[r]: the redemption r is making
  ending,  \* the operator's end-trial request
  minted,  \* history: grants minted for u on c
  usesCleared, \* history: uses of c cleared for u
  retired, \* history: grants of u on c that the retention job deleted
  bought   \* history: latest expiry that a first open has given u on c

history == <<minted, usesCleared, retired, bought>>
vars    == <<now, card, grant, rows, req, ending, history>>

NoGrant  == [id |-> 0, opened |-> Nothing, expires |-> Nothing]
NoReq    == [at |-> "idle", user |-> Nothing, card |-> Nothing, token |-> 0,
             expires |-> Nothing, row |-> 0]
NoEnding == [at |-> "idle", user |-> Nothing, card |-> Nothing, row |-> 0,
             id |-> 0, time |-> 0, opened |-> Nothing]

Over(g) == g.opened # Nothing /\ g.expires # Nothing /\ now >= g.expires

(* The row that holds uq_memberships_live_per_user, which looks at the     *)
(* status alone; and whether it still grants anything (isLiveMembership).  *)
Holding(u) == {i \in 1 .. Len(rows[u]) : rows[u][i].status = "trial"}
Live(m)    == m.status = "trial" /\ (m.expires = Nothing \/ m.expires > now)
LiveRows(u) == {i \in Holding(u) : Live(rows[u][i])}

----------------------------------------------------------------------------
(* redeemVoucher.                                                          *)

(* A member is told so, and nothing is redeemed.                           *)
Submit(r, u, c) ==
  /\ req[r].at = "idle"
  /\ LiveRows(u) = {}
  /\ req' = [req EXCEPT ![r] = [NoReq EXCEPT !.at = "redeem", !.user = u, !.card = c]]
  /\ UNCHANGED <<now, card, grant, rows, ending, history>>

(* The branches of redeem_campaign_code, which holds a lock on (card,      *)
(* address), and on the card's row where it counts.                        *)
AlreadyUsed(u, c) == grant[u][c].id # 0 /\ Over(grant[u][c])
HandBack(u, c)    == grant[u][c].id # 0 /\ ~Over(grant[u][c])

(* Mutant of Mints: the grant that exists is not looked for.               *)
MintsAnew(u, c) == card[c].active /\ now < Window[c] /\ card[c].count < Slots[c]

Mints(u, c) ==
  /\ grant[u][c].id = 0
  /\ card[c].active /\ now < Window[c] /\ card[c].count < Slots[c]

Redeem(r) ==
  /\ req[r].at = "redeem"
  /\ LET u == req[r].user
         c == req[r].card
         id == minted[u][c] + 1
     IN  \/ /\ Mints(u, c) /\ id <= MaxMints
            /\ card' = [card EXCEPT ![c].count = @ + 1]
            /\ grant' = [grant EXCEPT ![u][c] = [NoGrant EXCEPT !.id = id]]
            /\ minted' = [minted EXCEPT ![u][c] = id]
            /\ req' = [req EXCEPT ![r] = [@ EXCEPT !.at = "open", !.token = id]]
         \/ /\ HandBack(u, c)
            /\ req' = [req EXCEPT ![r] = [@ EXCEPT !.at = "open", !.token = grant[u][c].id]]
            /\ UNCHANGED <<card, grant, minted>>
         \/ /\ ~HandBack(u, c) /\ ~Mints(u, c)
            /\ req' = [req EXCEPT ![r] = NoReq]
            /\ UNCHANGED <<card, grant, minted>>
  /\ UNCHANGED <<now, rows, ending, usesCleared, retired, bought>>

(* Mutant of Opens: every open starts the clock.                           *)
OpensAlways(g) == TRUE

(* open_trial: only the first open starts the clock.                       *)
Opens(g) == g.opened = Nothing

Later(t, u) == IF t < u THEN u ELSE t

(* The clock is started, or read.  A failed call, or a grant that is gone, *)
(* costs the expiry and not the membership.                                *)
OpenTrial(r) ==
  /\ req[r].at = "open"
  /\ LET u == req[r].user
         c == req[r].card
         g == grant[u][c]
         Then(t) == req' = [req EXCEPT ![r] =
                      [@ EXCEPT !.at = "create", !.token = 0, !.expires = t]]
     IN  \/ /\ g.id = req[r].token /\ Opens(g)
            /\ grant' = [grant EXCEPT ![u][c] = [@ EXCEPT !.opened = now, !.expires = now + Hours]]
            /\ bought' = IF g.opened = Nothing
                         THEN [bought EXCEPT ![u][c] = Later(@, now + Hours)] ELSE bought
            /\ Then(now + Hours)
         \/ /\ g.id = req[r].token /\ ~Opens(g)
            /\ Then(g.expires)
            /\ UNCHANGED <<grant, bought>>
         \/ /\ Then(Nothing)
            /\ UNCHANGED <<grant, bought>>
  /\ UNCHANGED <<now, card, rows, ending, minted, usesCleared, retired>>

Row(r) == [status |-> "trial", card |-> req[r].card, expires |-> req[r].expires]

(* Mutant of RowAdmitted: a row that has run out does not count.           *)
NoLiveRow(u) == LiveRows(u) = {}

(* uq_memberships_live_per_user admits one row, live or run out.           *)
RowAdmitted(u) == Holding(u) = {}

CreateMembership(r) ==
  /\ req[r].at = "create"
  /\ LET u == req[r].user
     IN  \/ /\ RowAdmitted(u) /\ Len(rows[u]) < MaxRows
            /\ rows' = [rows EXCEPT ![u] = Append(@, Row(r))]
            /\ req' = [req EXCEPT ![r] = NoReq]
         \/ /\ ~RowAdmitted(u)
            /\ req' = [req EXCEPT ![r].at = "conflict"]
            /\ UNCHANGED rows
  /\ UNCHANGED <<now, card, grant, ending, history>>

(* resolveMembershipConflict: the row that is in the way, if it has ended, *)
(* is the one to renew.                                                    *)
SlotMembership(r) ==
  /\ req[r].at = "conflict"
  /\ LET u == req[r].user
     IN  \/ \E i \in Holding(u) \ LiveRows(u) :
              req' = [req EXCEPT ![r] = [@ EXCEPT !.at = "renew", !.row = i]]
         \/ /\ Holding(u) \ LiveRows(u) = {}
            /\ req' = [req EXCEPT ![r] = NoReq]
  /\ UNCHANGED <<now, card, grant, rows, ending, history>>

(* renewMembership rewrites the row by its id, whatever it has become; a   *)
(* conflict with a newer row is an error.                                  *)
RenewMembership(r) ==
  /\ req[r].at = "renew"
  /\ LET u == req[r].user
     IN  \/ /\ Holding(u) \subseteq {req[r].row}
            /\ rows' = [rows EXCEPT ![u][req[r].row] = Row(r)]
         \/ /\ ~(Holding(u) \subseteq {req[r].row})
            /\ UNCHANGED rows
  /\ req' = [req EXCEPT ![r] = NoReq]
  /\ UNCHANGED <<now, card, grant, ending, history>>

(* A request fails, or its process dies: the user sees an error.           *)
Abandon(r) ==
  /\ req[r].at # "idle"
  /\ req' = [req EXCEPT ![r] = NoReq]
  /\ UNCHANGED <<now, card, grant, rows, ending, history>>

----------------------------------------------------------------------------
(* The operator.                                                           *)

(* endTrialForEmail: find the live row, end it unless somebody did, find   *)
(* the grant behind it, and run out its clock.                             *)
FindTrial(u) ==
  /\ ending.at = "idle"
  /\ \E i \in LiveRows(u) :
       ending' = [NoEnding EXCEPT !.at = "end", !.user = u, !.row = i, !.time = now]
  /\ UNCHANGED <<now, card, grant, rows, req, history>>

EndTrial ==
  /\ ending.at = "end"
  /\ LET u == ending.user
         i == ending.row
     IN  IF i \in Holding(u)
         THEN /\ rows' = [rows EXCEPT ![u][i] =
                   [@ EXCEPT !.status = "lapsed", !.expires = ending.time]]
              /\ ending' = [ending EXCEPT !.at = "find", !.card = rows[u][i].card,
                                        !.row = 0]
         ELSE /\ ending' = NoEnding
              /\ UNCHANGED rows
  /\ UNCHANGED <<now, card, grant, req, history>>

FindGrant ==
  /\ ending.at = "find"
  /\ LET g == grant[ending.user][ending.card]
     IN  ending' = IF g.id = 0 THEN NoEnding
                   ELSE [ending EXCEPT !.at = "close", !.id = g.id, !.opened = g.opened]
  /\ UNCHANGED <<now, card, grant, rows, req, history>>

(* closeGrant, by id; first_opened_at is the one that was read.            *)
CloseGrant ==
  /\ ending.at = "close"
  /\ LET u == ending.user
         c == ending.card
     IN  \/ /\ grant[u][c].id = ending.id
            /\ grant' = [grant EXCEPT ![u][c] = [@ EXCEPT !.expires = ending.time,
                 !.opened = IF ending.opened = Nothing THEN ending.time ELSE ending.opened]]
         \/ UNCHANGED grant
  /\ ending' = NoEnding
  /\ UNCHANGED <<now, card, rows, req, history>>

(* clearRedemptionUse: the grant is deleted, and no slot given back.       *)
ClearUse(u, c) ==
  /\ grant[u][c].id # 0
  /\ grant' = [grant EXCEPT ![u][c] = NoGrant]
  /\ usesCleared' = [usesCleared EXCEPT ![u][c] = @ + 1]
  /\ UNCHANGED <<now, card, rows, req, ending, minted, retired, bought>>

ExpireCampaign(c) ==
  /\ card[c].active
  /\ card' = [card EXCEPT ![c].active = FALSE]
  /\ UNCHANGED <<now, grant, rows, req, ending, history>>

(* The hourly retention job.                                               *)
DropOldGrants ==
  /\ LET old(g) == g.expires # Nothing /\ g.expires + RetainGrants < now
     IN  /\ \E u \in User, c \in Card : old(grant[u][c])
         /\ grant' = [u \in User |-> [c \in Card |->
              IF old(grant[u][c]) THEN NoGrant ELSE grant[u][c]]]
         /\ retired' = [u \in User |-> [c \in Card |->
              retired[u][c] + IF old(grant[u][c]) THEN 1 ELSE 0]]
  /\ UNCHANGED <<now, card, rows, req, ending, minted, usesCleared, bought>>

NextHour ==
  /\ now < MaxTime
  /\ now' = now + 1
  /\ UNCHANGED <<card, grant, rows, req, ending, history>>

Init ==
  /\ now = 0
  /\ card = [c \in Card |-> [count |-> 0, active |-> TRUE]]
  /\ grant = [u \in User |-> [c \in Card |-> NoGrant]]
  /\ rows = [u \in User |-> <<>>]
  /\ req = [r \in Request |-> NoReq]
  /\ ending = NoEnding
  /\ minted = [u \in User |-> [c \in Card |-> 0]]
  /\ usesCleared = [u \in User |-> [c \in Card |-> 0]]
  /\ retired = [u \in User |-> [c \in Card |-> 0]]
  /\ bought = [u \in User |-> [c \in Card |-> 0]]

Next ==
  \/ \E r \in Request : \/ \E u \in User, c \in Card : Submit(r, u, c)
                        \/ Redeem(r) \/ OpenTrial(r) \/ CreateMembership(r)
                        \/ SlotMembership(r) \/ RenewMembership(r) \/ Abandon(r)
  \/ \E u \in User : FindTrial(u) \/ \E c \in Card : ClearUse(u, c)
  \/ EndTrial \/ FindGrant \/ CloseGrant \/ DropOldGrants
  \/ NextHour \/ \E c \in Card : ExpireCampaign(c)

----------------------------------------------------------------------------
Time == {Nothing} \union (0 .. MaxTime + Hours)

TypeOK ==
  /\ now \in 0 .. MaxTime
  /\ card \in [Card -> [count : Nat, active : BOOLEAN]]
  /\ grant \in [User -> [Card -> [id : 0 .. MaxMints, opened : Time, expires : Time]]]
  /\ \A u \in User : \A i \in 1 .. Len(rows[u]) :
       rows[u][i] \in [status : {"trial", "lapsed"}, card : Card, expires : Time]
  /\ \A u \in User : Cardinality(Holding(u)) <= 1
  /\ \A r \in Request : req[r].at \in {"idle", "redeem", "open", "create", "conflict", "renew"}
  /\ ending.at \in {"idle", "end", "find", "close"}

(* A card is redeemed within its slots, and an account takes a second slot *)
(* of it only once its grant is gone, cleared by the operator or retired   *)
(* by the retention job: however the redemptions of an account overlap,    *)
(* fail half way and are tried again, one grant costs one slot.            *)
SlotsCounted ==
  \A c \in Card :
    /\ card[c].count <= Slots[c]
    /\ \A u \in User : minted[u][c] <= 1 + usesCleared[u][c] + retired[u][c]

(* Each grant pays for one trial: a membership with an expiry is never     *)
(* live past what the first open of a grant gave its card, however often   *)
(* the card is redeemed again while the grant lives, by retries, by        *)
(* overlapping requests, or after an operator ended the trial.             *)
OneTrialPerGrant ==
  \A u \in User : \A i \in LiveRows(u) :
    LET m == rows[u][i]
    IN  m.expires # Nothing => m.expires <= bought[u][m.card]
============================================================================
