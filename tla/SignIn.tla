------------------------------- MODULE SignIn -------------------------------
(***************************************************************************)
(* Proofs and sessions.  A signed message carries a nonce and names the    *)
(* one action it authorizes (server/walletAuth.ts, server/nonceStore.ts);  *)
(* an alert carries a link token.  A message signed for session-start buys *)
(* a full session, a link buys a read-only one, any other message one      *)
(* execution of its action (server/sessionStore.ts, /api/session in        *)
(* scripts/api-server.ts).  Requests are repeated, overlap and fail.       *)
(***************************************************************************)
EXTENDS Integers, FiniteSets

CONSTANTS
  Wallet, Nonce, Link, Browser, Request,
  Sid,       \* sessions that may be created: a bound
  Nothing,
  Ttl,       \* Ttl.proof, Ttl.full, Ttl.readonly
  MaxTime    \* bound

VARIABLES
  now,
  nonce,     \* auth_nonces: nonce[n], the expiry of the row, Nothing for no row
  alertLink,      \* deep_link_tokens: alertLink[l] = [wallet, used, expires]
  signed,    \* messages that wallets have signed
  session,   \* auth_sessions: session[s] = [wallet, scope, revoked, expires]
  cookie,    \* cookie[b]: the session that browser b presents
  call,       \* call[r]: the request r is serving
  issued,    \* history: nonces issued
  honoured   \* history: how often each nonce or link has been honoured

vars == <<now, nonce, alertLink, signed, session, cookie, call, issued, honoured>>

Action  == {"session-start", "watchlist"}
Message == [nonce : Nonce, wallet : Wallet, action : Action]

NoLink    == [wallet |-> Nothing, used |-> FALSE, expires |-> Nothing]
NoSession == [wallet |-> Nothing, scope |-> "none", revoked |-> FALSE, expires |-> Nothing]
NoReq     == [at |-> "idle", browser |-> Nothing, token |-> Nothing, proof |-> Nothing,
              action |-> Nothing, wallet |-> Nothing, burnt |-> FALSE, read |-> FALSE,
              existing |-> NoSession]

(* READ_SESSION_SQL: expiry and revocation are part of the query.          *)
ReadSession(s) ==
  IF s = Nothing THEN NoSession
  ELSE IF session[s].scope # "none" /\ ~session[s].revoked /\ now < session[s].expires
       THEN session[s] ELSE NoSession

----------------------------------------------------------------------------
(* GET /api/auth/nonce, the wallet's signature, the alert's link.          *)

Issue(n) ==
  /\ n \notin issued
  /\ nonce' = [nonce EXCEPT ![n] = now + Ttl.proof]
  /\ issued' = issued \union {n}
  /\ UNCHANGED <<now, alertLink, signed, session, cookie, call, honoured>>

Sign(m) ==
  /\ m.nonce \in issued
  /\ \A other \in signed : other.nonce # m.nonce
  /\ signed' = signed \union {m}
  /\ UNCHANGED <<now, nonce, alertLink, session, cookie, call, issued, honoured>>

MintLink(l, w) ==
  /\ alertLink[l] = NoLink
  /\ alertLink' = [alertLink EXCEPT ![l] = [wallet |-> w, used |-> FALSE, expires |-> now + Ttl.proof]]
  /\ UNCHANGED <<now, nonce, signed, session, cookie, call, issued, honoured>>

----------------------------------------------------------------------------
(* verifyWalletOwnership at a route that does action a: signature, site    *)
(* and action are checked first, so a message for another action costs no  *)
(* nonce.                                                                  *)
Verify(r, b, m, a) ==
  /\ call[r].at = "idle" /\ m \in signed
  /\ m.action = a
  /\ call' = [call EXCEPT ![r] = [NoReq EXCEPT !.at = "consume", !.browser = b,
               !.proof = m.nonce, !.action = a, !.wallet = m.wallet]]
  /\ UNCHANGED <<now, nonce, alertLink, signed, session, cookie, issued, honoured>>

(* Mutant of Burns: the row is found, and deleted by a later request.      *)
BurnsLater(n) == UNCHANGED nonce

(* The delete, which returns the row to one caller.                        *)
Burns(n) == nonce' = [nonce EXCEPT ![n] = Nothing]

Unspent(n) == nonce[n] # Nothing /\ now < nonce[n]

(* consume; a failing request may have deleted the row.                    *)
Consume(r) ==
  /\ call[r].at = "consume"
  /\ LET n == call[r].proof
     IN  \/ /\ Unspent(n) /\ Burns(n)
            /\ call' = [call EXCEPT ![r].at = "act"]
            /\ honoured' = [honoured EXCEPT ![n] = @ + 1]
         \/ /\ IF Unspent(n) THEN Burns(n) \/ UNCHANGED nonce ELSE UNCHANGED nonce
            /\ call' = [call EXCEPT ![r] = NoReq]
            /\ UNCHANGED honoured
  /\ UNCHANGED <<now, alertLink, signed, session, cookie, issued>>

(* createSession and the cookie of the answer; the insert may fail.        *)
Create(r, w, scope) ==
  \/ \E s \in Sid :
       /\ session[s] = NoSession
       /\ session' = [session EXCEPT ![s] =
            [wallet |-> w, scope |-> scope, revoked |-> FALSE, expires |-> now + Ttl[scope]]]
       /\ cookie' = [cookie EXCEPT ![call[r].browser] = s]
  \/ UNCHANGED <<session, cookie>>

(* What the proof was for: a session, or the route's own work.             *)
Act(r) ==
  /\ call[r].at = "act"
  /\ IF call[r].action = "session-start"
     THEN Create(r, call[r].wallet, "full")
     ELSE UNCHANGED <<session, cookie>>
  /\ call' = [call EXCEPT ![r] = NoReq]
  /\ UNCHANGED <<now, nonce, alertLink, signed, issued, honoured>>

----------------------------------------------------------------------------
(* POST /api/session/exchange: the burn and the read go out together.      *)
Exchange(r, b, l) ==
  /\ call[r].at = "idle" /\ alertLink[l] # NoLink
  /\ call' = [call EXCEPT ![r] = [NoReq EXCEPT !.at = "exchange", !.browser = b,
               !.proof = l, !.token = cookie[b]]]
  /\ UNCHANGED <<now, nonce, alertLink, signed, session, cookie, issued, honoured>>

BurnLink(r) ==
  /\ call[r].at = "exchange" /\ ~call[r].burnt
  /\ LET l == call[r].proof
         good == ~alertLink[l].used /\ now < alertLink[l].expires
     IN  /\ alertLink' = IF good THEN [alertLink EXCEPT ![l].used = TRUE] ELSE alertLink
         /\ honoured' = IF good THEN [honoured EXCEPT ![l] = @ + 1] ELSE honoured
         /\ call' = [call EXCEPT ![r] = [@ EXCEPT !.burnt = TRUE,
                      !.wallet = IF good THEN alertLink[l].wallet ELSE Nothing]]
  /\ UNCHANGED <<now, nonce, signed, session, cookie, issued>>

ReadCookie(r) ==
  /\ call[r].at = "exchange" /\ ~call[r].read
  /\ call' = [call EXCEPT ![r] = [@ EXCEPT !.read = TRUE, !.existing = ReadSession(call[r].token)]]
  /\ UNCHANGED <<now, nonce, alertLink, signed, session, cookie, issued, honoured>>

(* A full session of the same wallet is kept.                              *)
Answer(r) ==
  /\ call[r].at = "exchange" /\ call[r].burnt /\ call[r].read
  /\ LET w == call[r].wallet
         keeps == call[r].existing.scope = "full" /\ call[r].existing.wallet = w
     IN  IF w = Nothing \/ keeps
         THEN UNCHANGED <<session, cookie>>
         ELSE Create(r, w, "readonly")
  /\ call' = [call EXCEPT ![r] = NoReq]
  /\ UNCHANGED <<now, nonce, alertLink, signed, issued, honoured>>

(* DELETE /api/session: the cookie is cleared though the revocation fails. *)
SignOut(b) ==
  /\ cookie[b] # Nothing
  /\ \/ session' = [session EXCEPT ![cookie[b]].revoked = TRUE]
     \/ UNCHANGED session
  /\ cookie' = [cookie EXCEPT ![b] = Nothing]
  /\ UNCHANGED <<now, nonce, alertLink, signed, call, issued, honoured>>

Elapse ==
  /\ now < MaxTime
  /\ now' = now + 1
  /\ UNCHANGED <<nonce, alertLink, signed, session, cookie, call, issued, honoured>>

Init ==
  /\ now = 0
  /\ nonce = [n \in Nonce |-> Nothing]
  /\ alertLink = [l \in Link |-> NoLink]
  /\ signed = {}
  /\ session = [s \in Sid |-> NoSession]
  /\ cookie = [b \in Browser |-> Nothing]
  /\ call = [r \in Request |-> NoReq]
  /\ issued = {}
  /\ honoured = [p \in Nonce \union Link |-> 0]

Next ==
  \/ \E n \in Nonce : Issue(n)
  \/ \E m \in Message : Sign(m)
  \/ \E l \in Link, w \in Wallet : MintLink(l, w)
  \/ \E r \in Request :
       \/ \E b \in Browser : \/ \E m \in signed, a \in Action : Verify(r, b, m, a)
                             \/ \E l \in Link : Exchange(r, b, l)
       \/ Consume(r) \/ Act(r) \/ BurnLink(r) \/ ReadCookie(r) \/ Answer(r)
  \/ \E b \in Browser : SignOut(b)
  \/ Elapse

----------------------------------------------------------------------------
TypeOK ==
  /\ now \in 0 .. MaxTime
  /\ nonce \in [Nonce -> {Nothing} \union (0 .. MaxTime + Ttl.proof)]
  /\ signed \subseteq Message
  /\ \A s \in Sid : session[s].scope \in {"none", "full", "readonly"}
  /\ cookie \in [Browser -> Sid \union {Nothing}]
  /\ \A r \in Request : call[r].at \in {"idle", "consume", "act", "exchange"}
  /\ issued \subseteq Nonce

(* One proof, one use: however requests are repeated and overlap, a nonce  *)
(* or a link is honoured once; there is a full session only for a wallet   *)
(* that has signed one of its own messages in to it, and no more full      *)
(* sessions than such messages, nor more read-only ones than used links.   *)
SessionsOf(w, scope) == {s \in Sid : session[s].wallet = w /\ session[s].scope = scope}

OneProofOneUse ==
  /\ \A p \in Nonce \union Link : honoured[p] <= 1
  /\ \A w \in Wallet :
       /\ Cardinality(SessionsOf(w, "full")) <=
            Cardinality({m \in signed : m.wallet = w /\ m.action = "session-start"})
       /\ Cardinality(SessionsOf(w, "readonly")) <=
            Cardinality({l \in Link : alertLink[l].wallet = w /\ alertLink[l].used})
=============================================================================
