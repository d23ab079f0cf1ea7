--------------------------- MODULE ServiceProofs ---------------------------
(***************************************************************************)
(* Proofs about the services that keep accounts: sign-in, telegram         *)
(* linking, trials; about the page that says the loop is blind; about the  *)
(* rate limiter; and about the market simulation: one scenario is armed,   *)
(* and one that the process has stopped showing never comes back.          *)
(***************************************************************************)
EXTENDS Services, FiniteSetTheorems, SequenceTheorems, TLAPS

----------------------------------------------------------------------------
(* Sign-in and sessions.                                                   *)

SessionRow == [wallet : Wallet \union {Nothing}, scope : {"none", "full", "readonly"},
               revoked : BOOLEAN, expires : Int \union {Nothing}]
LinkToken  == [wallet : Wallet \union {Nothing}, used : BOOLEAN, expires : Int \union {Nothing}]
Req == [at : {"idle", "consume", "act", "exchange"}, browser : Browser \union {Nothing},
        token : Sid \union {Nothing}, proof : Nonce \union Link \union {Nothing},
        action : Identity!Action \union {Nothing}, wallet : Wallet \union {Nothing},
        burnt : BOOLEAN, read : BOOLEAN, existing : SessionRow]

SignInShape ==
  /\ now \in Int
  /\ nonce \in [Nonce -> Int \union {Nothing}]
  /\ alertLink \in [Link -> LinkToken]
  /\ signed \subseteq Identity!Message
  /\ session \in [Sid -> SessionRow]
  /\ cookie \in [Browser -> Sid \union {Nothing}]
  /\ call \in [Request -> Req]
  /\ issued \subseteq Nonce
  /\ honoured \in [Nonce \union Link -> Nat]

(* A nonce is honoured by deleting its row, and a link by marking it used. *)
Spent ==
  /\ \A n \in Nonce : honoured[n] \in {0, 1}
                      /\ ((n \notin issued \/ nonce[n] # Nothing) => honoured[n] = 0)
  /\ \A n \in Nonce \ issued : nonce[n] = Nothing
  /\ \A l \in Link : honoured[l] = IF alertLink[l].used THEN 1 ELSE 0

(* A request holds a message that was signed, or a link that was minted.   *)
Backed ==
  \A r \in Request :
    /\ call[r].at \in {"consume", "act"} =>
         [nonce |-> call[r].proof, wallet |-> call[r].wallet, action |-> call[r].action] \in signed
    /\ call[r].at = "exchange" => call[r].proof \in Link /\ alertLink[call[r].proof] # Identity!NoLink

(* A wallet's sessions, the requests about to open one, and what was       *)
(* honoured for it: messages for the full ones, links for the others.      *)
Full(w)     == Identity!SessionsOf(w, "full")
Opening(w)  == {r \in Request : call[r].at = "act" /\ call[r].action = "session-start" /\ call[r].wallet = w}
Accepted(w) == {m \in signed : m.wallet = w /\ m.action = "session-start" /\ honoured[m.nonce] = 1}

ReadOnly(w)  == Identity!SessionsOf(w, "readonly")
Linking(w)   == {r \in Request : call[r].at = "exchange" /\ call[r].burnt /\ call[r].wallet = w}
UsedLinks(w) == {l \in Link : alertLink[l].wallet = w /\ alertLink[l].used}

(* What is there, or about to be, has been paid for.                       *)
Within(there, coming, payments) ==
  /\ IsFiniteSet(there) /\ IsFiniteSet(coming) /\ IsFiniteSet(payments)
  /\ Cardinality(there) + Cardinality(coming) <= Cardinality(payments)

PaidFor ==
  /\ IsFiniteSet(signed)
  /\ \A w \in Wallet : /\ Within(Full(w), Opening(w), Accepted(w))
                       /\ Within(ReadOnly(w), Linking(w), UsedLinks(w))

SignInInv == SignInShape /\ Spent /\ Backed /\ PaidFor

(* An element more is at most one more.                                    *)
LEMMA AtMostOneMore ==
  ASSUME NEW T, NEW x, IsFiniteSet(T)
  PROVE  IsFiniteSet(T \union {x}) /\ Cardinality(T \union {x}) <= Cardinality(T) + 1
<1>1. Cardinality(T) \in Nat
  BY FS_CardinalityType
<1>2. CASE x \in T
  <2>1. T \union {x} = T
    BY <1>2
  <2> QED
    BY <1>1, <2>1
<1>3. CASE x \notin T
  BY <1>1, <1>3, FS_AddElement
<1> QED
  BY <1>2, <1>3

(* One more is about to be there, and one more is paid for.                *)
LEMMA OneMorePaid ==
  ASSUME NEW S, NEW O, NEW P, NEW O2, NEW P2, NEW r, NEW m, Within(S, O, P),
         O2 = O \union {r}, P \union {m} \subseteq P2, m \notin P, IsFiniteSet(P2)
  PROVE  Within(S, O2, P2)
<1>1. IsFiniteSet(O2) /\ Cardinality(O2) <= Cardinality(O) + 1
  BY AtMostOneMore DEF Within
<1>2. Cardinality(P \union {m}) = Cardinality(P) + 1
  BY FS_AddElement DEF Within
<1>3. Cardinality(P \union {m}) <= Cardinality(P2)
  BY FS_Subset
<1>4. /\ Cardinality(S) \in Nat /\ Cardinality(O) \in Nat /\ Cardinality(P) \in Nat
      /\ Cardinality(O2) \in Nat /\ Cardinality(P2) \in Nat
  BY <1>1, FS_CardinalityType DEF Within
<1> QED
  BY <1>1, <1>2, <1>3, <1>4 DEF Within

(* What was about to be there is there, or is given up.                    *)
LEMMA OneCame ==
  ASSUME NEW S, NEW O, NEW P, NEW S2, NEW O2, NEW r \in O, NEW s, Within(S, O, P),
         O2 = O \ {r}, S2 = S \/ S2 = S \union {s}
  PROVE  Within(S2, O2, P)
<1>1. IsFiniteSet(O2) /\ Cardinality(O2) = Cardinality(O) - 1
  BY FS_RemoveElement DEF Within
<1>2. IsFiniteSet(S2) /\ Cardinality(S2) <= Cardinality(S) + 1
  <2>1. CASE S2 = S
    BY <2>1, FS_CardinalityType DEF Within
  <2>2. CASE S2 = S \union {s}
    BY <2>2, AtMostOneMore DEF Within
  <2> QED
    BY <2>1, <2>2
<1>3. /\ Cardinality(S) \in Nat /\ Cardinality(O) \in Nat /\ Cardinality(P) \in Nat
      /\ Cardinality(S2) \in Nat /\ Cardinality(O2) \in Nat
  BY <1>1, <1>2, FS_CardinalityType DEF Within
<1> QED
  BY <1>1, <1>2, <1>3 DEF Within

(* More is paid for.                                                       *)
LEMMA MorePaid ==
  ASSUME NEW S, NEW O, NEW P, NEW P2, Within(S, O, P), P \subseteq P2, IsFiniteSet(P2)
  PROVE  Within(S, O, P2)
<1>1. Cardinality(P) <= Cardinality(P2)
  BY FS_Subset
<1>2. /\ Cardinality(S) \in Nat /\ Cardinality(O) \in Nat /\ Cardinality(P) \in Nat
      /\ Cardinality(P2) \in Nat
  BY FS_CardinalityType DEF Within
<1> QED
  BY <1>1, <1>2 DEF Within

(* The ways in which the handlers write a request.                         *)
LEMMA ReqEdits ==
         /\ Identity!NoReq \in Req /\ Identity!NoReq.at = "idle" /\ Identity!NoReq.burnt = FALSE
         /\ \A x \in Req :
              LET y == [x EXCEPT !.at = "act"]
              IN  y \in Req /\ y.at = "act" /\ y.proof = x.proof /\ y.action = x.action /\ y.wallet = x.wallet
         /\ \A x \in Req, w \in Wallet \union {Nothing} :
              LET y == [x EXCEPT !.burnt = TRUE, !.wallet = w]
              IN  y \in Req /\ y.at = x.at /\ y.proof = x.proof /\ y.burnt = TRUE /\ y.wallet = w
         /\ \A x \in Req, e \in SessionRow :
              LET y == [x EXCEPT !.read = TRUE, !.existing = e]
              IN  /\ y \in Req /\ y.at = x.at /\ y.proof = x.proof /\ y.burnt = x.burnt
                  /\ y.wallet = x.wallet /\ y.action = x.action
<1>1. Identity!NoSession \in SessionRow
  BY DEF Identity!NoSession, SessionRow
<1>2. Identity!NoReq \in Req /\ Identity!NoReq.at = "idle" /\ Identity!NoReq.burnt = FALSE
  BY <1>1 DEF Identity!NoReq, Req
<1>5. ASSUME NEW x \in Req
      PROVE  LET y == [x EXCEPT !.at = "act"]
             IN  y \in Req /\ y.at = "act" /\ y.proof = x.proof /\ y.action = x.action /\ y.wallet = x.wallet
  BY DEF Req
<1>6. ASSUME NEW x \in Req, NEW w \in Wallet \union {Nothing}
      PROVE  LET y == [x EXCEPT !.burnt = TRUE, !.wallet = w]
             IN  y \in Req /\ y.at = x.at /\ y.proof = x.proof /\ y.burnt = TRUE /\ y.wallet = w
  BY DEF Req
<1>7. ASSUME NEW x \in Req, NEW e \in SessionRow
      PROVE  LET y == [x EXCEPT !.read = TRUE, !.existing = e]
             IN  /\ y \in Req /\ y.at = x.at /\ y.proof = x.proof /\ y.burnt = x.burnt
                 /\ y.wallet = x.wallet /\ y.action = x.action
  BY DEF Req
<1> QED
  BY <1>2, <1>5, <1>6, <1>7

(* What a request may write over its record: one field for each handler.   *)
LEMMA VerifyEffect ==
  ASSUME SignInShape, NEW r \in Request, NEW b \in Browser, NEW m \in signed,
         NEW a \in Identity!Action, Identity!Verify(r, b, m, a)
  PROVE  /\ call' \in [Request -> Req]
         /\ call'[r].at = "consume" /\ call'[r].proof = m.nonce /\ call'[r].action = m.action
         /\ call'[r].wallet = m.wallet /\ call[r].at = "idle"
         /\ \A q \in Request \ {r} : call'[q] = call[q]
         /\ UNCHANGED <<now, nonce, alertLink, signed, session, cookie, issued, honoured>>
<1>1. call \in [Request -> Req] /\ m \in Identity!Message
  BY DEF SignInShape
<1> DEFINE x == [Identity!NoReq EXCEPT !.at = "consume", !.browser = b, !.proof = m.nonce,
                                       !.action = a, !.wallet = m.wallet]
<1>2. x \in Req /\ x.at = "consume" /\ x.proof = m.nonce /\ x.action = a /\ x.wallet = m.wallet
  <2>1. Identity!NoReq \in Req
    BY ReqEdits
  <2> QED
    BY <1>1, <2>1 DEF Req, Identity!Message
<1>3. call' = [call EXCEPT ![r] = x] /\ m.action = a /\ call[r].at = "idle"
  BY DEF Identity!Verify
<1> HIDE DEF x
<1> QED
  BY <1>1, <1>2, <1>3 DEF Identity!Verify

(* A request that presents a link holds it, with nothing burnt yet.        *)
LEMMA ExchangeEffect ==
  ASSUME SignInShape, NEW r \in Request, NEW b \in Browser, NEW l \in Link, Identity!Exchange(r, b, l)
  PROVE  /\ call' \in [Request -> Req]
         /\ call'[r].at = "exchange" /\ call'[r].proof = l /\ call'[r].burnt = FALSE
         /\ alertLink[l] # Identity!NoLink /\ call[r].at = "idle"
         /\ \A q \in Request \ {r} : call'[q] = call[q]
         /\ UNCHANGED <<now, nonce, alertLink, signed, session, cookie, issued, honoured>>
<1>1. call \in [Request -> Req]
  BY DEF SignInShape
<1> DEFINE x == [Identity!NoReq EXCEPT !.at = "exchange", !.browser = b, !.proof = l,
                                       !.token = cookie[b]]
<1>2. x \in Req /\ x.at = "exchange" /\ x.proof = l /\ x.burnt = FALSE
  <2>1. Identity!NoReq \in Req /\ Identity!NoReq.burnt = FALSE /\ cookie[b] \in Sid \union {Nothing}
    BY ReqEdits DEF SignInShape
  <2> QED
    BY <1>1, <2>1 DEF Req
<1>3. call' = [call EXCEPT ![r] = x] /\ call[r].at = "idle"
  BY DEF Identity!Exchange
<1> HIDE DEF x
<1> QED
  BY <1>1, <1>2, <1>3 DEF Identity!Exchange

(* A nonce in the store is honoured and the request goes on, or it is      *)
(* turned away; either way only its own row is deleted.                    *)
LEMMA ConsumeEffect ==
  ASSUME SignInShape, NEW r \in Request, Identity!Consume(r)
  PROVE  LET n == call[r].proof
         IN  /\ call[r].at = "consume"
             /\ UNCHANGED <<now, alertLink, signed, session, cookie, issued>>
             /\ call' \in [Request -> Req]
             /\ \A q \in Request \ {r} : call'[q] = call[q]
             /\ \/ /\ nonce[n] # Nothing
                   /\ nonce' = [nonce EXCEPT ![n] = Nothing]
                   /\ honoured' = [honoured EXCEPT ![n] = @ + 1]
                   /\ call'[r].at = "act" /\ call'[r].proof = n
                   /\ call'[r].action = call[r].action /\ call'[r].wallet = call[r].wallet
                \/ /\ nonce' = nonce \/ nonce' = [nonce EXCEPT ![n] = Nothing]
                   /\ honoured' = honoured
                   /\ call'[r].at = "idle" /\ call'[r].burnt = FALSE
<1>0. call \in [Request -> Req]
  BY DEF SignInShape
<1>1. /\ call[r].at = "consume"
      /\ UNCHANGED <<now, alertLink, signed, session, cookie, issued>>
  BY DEF Identity!Consume
<1> DEFINE n == call[r].proof
           y == [call[r] EXCEPT !.at = "act"]
<1>2. y \in Req /\ y.at = "act" /\ y.proof = n /\ y.action = call[r].action /\ y.wallet = call[r].wallet
  BY <1>0, ReqEdits
<1>3. \/ /\ nonce[n] # Nothing /\ nonce' = [nonce EXCEPT ![n] = Nothing]
         /\ honoured' = [honoured EXCEPT ![n] = @ + 1]
         /\ call' = [call EXCEPT ![r] = y]
      \/ /\ nonce' = nonce \/ nonce' = [nonce EXCEPT ![n] = Nothing]
         /\ honoured' = honoured
         /\ call' = [call EXCEPT ![r] = Identity!NoReq]
  BY DEF Identity!Consume, Identity!Unspent, Identity!Burns
<1>4. Identity!NoReq \in Req /\ Identity!NoReq.at = "idle" /\ Identity!NoReq.burnt = FALSE
  BY ReqEdits
<1> HIDE DEF y
<1> QED
  BY <1>0, <1>1, <1>2, <1>3, <1>4

(* createSession: a row that did not exist is of the wallet, or the insert *)
(* has failed.                                                             *)
LEMMA CreateEffect ==
  ASSUME SignInShape, ProofKinds, NEW r \in Request, NEW w \in Wallet \union {Nothing},
         NEW scope \in {"full", "readonly"}, Identity!Create(r, w, scope)
  PROVE  /\ session' \in [Sid -> SessionRow] /\ cookie' \in [Browser -> Sid \union {Nothing}]
         /\ \/ session' = session
            \/ \E s \in Sid : /\ session[s].scope = "none"
                              /\ session'[s].wallet = w /\ session'[s].scope = scope
                              /\ \A t \in Sid \ {s} : session'[t] = session[t]
<1>0. /\ session \in [Sid -> SessionRow] /\ cookie \in [Browser -> Sid \union {Nothing}]
      /\ now + Ttl[scope] \in Int
  BY DEF SignInShape, ProofKinds
<1>1. CASE UNCHANGED <<session, cookie>>
  BY <1>0, <1>1
<1>2. ASSUME NEW s \in Sid, session[s] = Identity!NoSession,
             session' = [session EXCEPT ![s] =
               [wallet |-> w, scope |-> scope, revoked |-> FALSE, expires |-> now + Ttl[scope]]],
             cookie' = [cookie EXCEPT ![call[r].browser] = s]
      PROVE  /\ session' \in [Sid -> SessionRow] /\ cookie' \in [Browser -> Sid \union {Nothing}]
             /\ session[s].scope = "none"
             /\ session'[s].wallet = w /\ session'[s].scope = scope
             /\ \A t \in Sid \ {s} : session'[t] = session[t]
  <2> DEFINE opened == [wallet |-> w, scope |-> scope, revoked |-> FALSE, expires |-> now + Ttl[scope]]
  <2>1. opened \in SessionRow /\ opened.wallet = w /\ opened.scope = scope
    BY <1>0 DEF SessionRow
  <2>2. session[s].scope = "none"
    BY <1>2 DEF Identity!NoSession
  <2>3. cookie' \in [Browser -> Sid \union {Nothing}]
    BY <1>0, <1>2
  <2>4. session' = [session EXCEPT ![s] = opened]
    BY <1>2
  <2> HIDE DEF opened
  <2> QED
    BY <1>0, <2>1, <2>2, <2>3, <2>4
<1> QED
  BY <1>0, <1>1, <1>2 DEF Identity!Create

(* What a message bought: a session of its wallet in a free row, or none.  *)
LEMMA ActEffect ==
  ASSUME SignInShape, ProofKinds, NEW r \in Request, Identity!Act(r)
  PROVE  /\ call[r].at = "act"
         /\ call' \in [Request -> Req] /\ call'[r].at = "idle" /\ call'[r].burnt = FALSE
         /\ \A q \in Request \ {r} : call'[q] = call[q]
         /\ UNCHANGED <<now, nonce, alertLink, signed, issued, honoured>>
         /\ session' \in [Sid -> SessionRow] /\ cookie' \in [Browser -> Sid \union {Nothing}]
         /\ \/ session' = session
            \/ /\ call[r].action = "session-start"
               /\ \E s \in Sid : /\ session[s].scope = "none"
                                 /\ session'[s].wallet = call[r].wallet /\ session'[s].scope = "full"
                                 /\ \A t \in Sid \ {s} : session'[t] = session[t]
<1>0. /\ call \in [Request -> Req] /\ call[r].wallet \in Wallet \union {Nothing}
      /\ session \in [Sid -> SessionRow] /\ cookie \in [Browser -> Sid \union {Nothing}]
  BY DEF SignInShape, Req
<1>1. call[r].at = "act" /\ call' = [call EXCEPT ![r] = Identity!NoReq]
      /\ UNCHANGED <<now, nonce, alertLink, signed, issued, honoured>>
  BY DEF Identity!Act
<1>2. Identity!NoReq \in Req /\ Identity!NoReq.at = "idle" /\ Identity!NoReq.burnt = FALSE
  BY ReqEdits
<1>3. call' \in [Request -> Req] /\ call'[r].at = "idle" /\ call'[r].burnt = FALSE
      /\ \A q \in Request \ {r} : call'[q] = call[q]
  BY <1>0, <1>1, <1>2
<1>4. CASE call[r].action = "session-start"
  <2>1. Identity!Create(r, call[r].wallet, "full")
    BY <1>4 DEF Identity!Act
  <2> QED
    BY <1>0, <1>1, <1>3, <1>4, <2>1, CreateEffect
<1>5. CASE call[r].action # "session-start"
  <2>1. UNCHANGED <<session, cookie>>
    BY <1>5 DEF Identity!Act
  <2> QED
    BY <1>0, <1>1, <1>3, <2>1
<1> QED
  BY <1>4, <1>5

(* What a link bought, likewise.                                           *)
LEMMA AnswerEffect ==
  ASSUME SignInShape, ProofKinds, NEW r \in Request, Identity!Answer(r)
  PROVE  /\ call[r].at = "exchange" /\ call[r].burnt
         /\ call' \in [Request -> Req] /\ call'[r].at = "idle" /\ call'[r].burnt = FALSE
         /\ \A q \in Request \ {r} : call'[q] = call[q]
         /\ UNCHANGED <<now, nonce, alertLink, signed, issued, honoured>>
         /\ session' \in [Sid -> SessionRow] /\ cookie' \in [Browser -> Sid \union {Nothing}]
         /\ \/ session' = session
            \/ \E s \in Sid : /\ session[s].scope = "none"
                              /\ session'[s].wallet = call[r].wallet /\ session'[s].scope = "readonly"
                              /\ \A t \in Sid \ {s} : session'[t] = session[t]
<1>0. /\ call \in [Request -> Req] /\ call[r].wallet \in Wallet \union {Nothing}
      /\ session \in [Sid -> SessionRow] /\ cookie \in [Browser -> Sid \union {Nothing}]
  BY DEF SignInShape, Req
<1>1. call[r].at = "exchange" /\ call[r].burnt /\ call' = [call EXCEPT ![r] = Identity!NoReq]
      /\ UNCHANGED <<now, nonce, alertLink, signed, issued, honoured>>
  BY DEF Identity!Answer
<1>2. Identity!NoReq \in Req /\ Identity!NoReq.at = "idle" /\ Identity!NoReq.burnt = FALSE
  BY ReqEdits
<1>3. call' \in [Request -> Req] /\ call'[r].at = "idle" /\ call'[r].burnt = FALSE
      /\ \A q \in Request \ {r} : call'[q] = call[q]
  BY <1>0, <1>1, <1>2
<1>4. UNCHANGED <<session, cookie>> \/ Identity!Create(r, call[r].wallet, "readonly")
  BY DEF Identity!Answer
<1>5. CASE Identity!Create(r, call[r].wallet, "readonly")
  BY <1>0, <1>1, <1>3, <1>5, CreateEffect
<1>6. CASE UNCHANGED <<session, cookie>>
  BY <1>0, <1>1, <1>3, <1>6
<1> QED
  BY <1>4, <1>5, <1>6

(* A link not used is marked and its wallet found, or nothing happens to   *)
(* it.                                                                     *)
LEMMA BurnLinkEffect ==
  ASSUME SignInShape, NEW r \in Request, Identity!BurnLink(r), call[r].proof \in Link, ProofKinds
  PROVE  LET l == call[r].proof
         IN  /\ call[r].at = "exchange" /\ call[r].burnt = FALSE
             /\ call' \in [Request -> Req] /\ call'[r].at = "exchange" /\ call'[r].proof = l
             /\ call'[r].burnt = TRUE
             /\ \A q \in Request \ {r} : call'[q] = call[q]
             /\ UNCHANGED <<now, nonce, signed, session, cookie, issued>>
             /\ \/ /\ UNCHANGED <<alertLink, honoured>> /\ call'[r].wallet = Nothing
                \/ /\ alertLink[l].used = FALSE /\ call'[r].wallet = alertLink[l].wallet
                   /\ alertLink' \in [Link -> LinkToken] /\ alertLink'[l].used = TRUE
                   /\ alertLink'[l].wallet = alertLink[l].wallet
                   /\ \A k \in Link \ {l} : alertLink'[k] = alertLink[k]
                   /\ honoured' = [honoured EXCEPT ![l] = @ + 1]
<1> DEFINE l == call[r].proof
           good == ~alertLink[l].used /\ now < alertLink[l].expires
           w == IF good THEN alertLink[l].wallet ELSE Nothing
           y == [call[r] EXCEPT !.burnt = TRUE, !.wallet = w]
<1>0. /\ call \in [Request -> Req] /\ call[r].burnt \in BOOLEAN
      /\ alertLink \in [Link -> LinkToken] /\ alertLink[l].wallet \in Wallet \union {Nothing}
      /\ alertLink[l].used \in BOOLEAN
  BY DEF SignInShape, Req, LinkToken
<1>1. /\ call[r].at = "exchange" /\ ~call[r].burnt /\ call' = [call EXCEPT ![r] = y]
      /\ alertLink' = IF good THEN [alertLink EXCEPT ![l].used = TRUE] ELSE alertLink
      /\ honoured' = IF good THEN [honoured EXCEPT ![l] = @ + 1] ELSE honoured
      /\ UNCHANGED <<now, nonce, signed, session, cookie, issued>>
  BY DEF Identity!BurnLink
<1>2. w \in Wallet \union {Nothing}
  BY <1>0
<1>3. y \in Req /\ y.at = call[r].at /\ y.proof = l /\ y.burnt = TRUE /\ y.wallet = w
  <2>1. call[r] \in Req
    BY <1>0
  <2> HIDE DEF w
  <2> QED
    BY <1>2, <2>1 DEF Req
<1>4. /\ call' \in [Request -> Req] /\ call'[r] = y
      /\ \A q \in Request \ {r} : call'[q] = call[q]
  <2> HIDE DEF y
  <2> QED
    BY <1>0, <1>1, <1>3
<1>5. CASE good
  <2>1. [alertLink[l] EXCEPT !.used = TRUE] \in LinkToken
        /\ [alertLink[l] EXCEPT !.used = TRUE].used = TRUE
        /\ [alertLink[l] EXCEPT !.used = TRUE].wallet = alertLink[l].wallet
    BY <1>0 DEF LinkToken
  <2>2. alertLink' = [alertLink EXCEPT ![l] = [alertLink[l] EXCEPT !.used = TRUE]]
    BY <1>1, <1>5
  <2>3. /\ alertLink' \in [Link -> LinkToken] /\ alertLink'[l].used = TRUE
        /\ alertLink'[l].wallet = alertLink[l].wallet
        /\ \A k \in Link \ {l} : alertLink'[k] = alertLink[k]
    BY <1>0, <2>1, <2>2
  <2>4. y.wallet = alertLink[l].wallet /\ alertLink[l].used = FALSE
    BY <1>0, <1>3, <1>5
  <2> HIDE DEF y
  <2> QED
    BY <1>0, <1>1, <1>3, <1>4, <1>5, <2>3, <2>4
<1>6. CASE ~good
  <2>1. y.wallet = Nothing
    BY <1>3, <1>6
  <2> HIDE DEF y
  <2> QED
    BY <1>0, <1>1, <1>3, <1>4, <1>6, <2>1
<1> QED
  BY <1>5, <1>6

(* Reading the cookie writes only to the request's own record.             *)
LEMMA ReadCookieEffect ==
  ASSUME SignInShape, NEW r \in Request, Identity!ReadCookie(r)
  PROVE  /\ call' \in [Request -> Req]
         /\ \A q \in Request : /\ call'[q].at = call[q].at /\ call'[q].proof = call[q].proof
                               /\ call'[q].action = call[q].action /\ call'[q].wallet = call[q].wallet
                               /\ call'[q].burnt = call[q].burnt
         /\ UNCHANGED <<now, nonce, alertLink, signed, session, cookie, issued, honoured>>
<1> DEFINE e == Identity!ReadSession(call[r].token)
           y == [call[r] EXCEPT !.read = TRUE, !.existing = e]
<1>0. /\ call \in [Request -> Req] /\ call[r].token \in Sid \union {Nothing}
      /\ session \in [Sid -> SessionRow]
  BY DEF SignInShape, Req
<1>1. e \in SessionRow
  <2>1. Identity!NoSession \in SessionRow
    BY DEF Identity!NoSession, SessionRow
  <2> QED
    BY <1>0, <2>1 DEF Identity!ReadSession
<1> HIDE DEF e
<1>2. /\ y \in Req /\ y.at = call[r].at /\ y.proof = call[r].proof /\ y.burnt = call[r].burnt
      /\ y.wallet = call[r].wallet /\ y.action = call[r].action
  BY <1>0, <1>1, ReqEdits
<1>3. call' = [call EXCEPT ![r] = y]
      /\ UNCHANGED <<now, nonce, alertLink, signed, session, cookie, issued, honoured>>
  BY DEF Identity!ReadCookie, e
<1> HIDE DEF y
<1> QED
  BY <1>0, <1>2, <1>3

(* Signing out keeps whose a session is, and of which kind.                *)
LEMMA SignOutEffect ==
  ASSUME SignInShape, NEW b \in Browser, Identity!SignOut(b)
  PROVE  /\ session' \in [Sid -> SessionRow] /\ cookie' \in [Browser -> Sid \union {Nothing}]
         /\ \A s \in Sid : session'[s].wallet = session[s].wallet /\ session'[s].scope = session[s].scope
         /\ UNCHANGED <<now, nonce, alertLink, signed, call, issued, honoured>>
<1>0. session \in [Sid -> SessionRow] /\ cookie \in [Browser -> Sid \union {Nothing}]
  BY DEF SignInShape
<1>1. cookie' \in [Browser -> Sid \union {Nothing}]
      /\ UNCHANGED <<now, nonce, alertLink, signed, call, issued, honoured>>
  BY <1>0 DEF Identity!SignOut
<1>2. CASE session' = session
  BY <1>0, <1>1, <1>2
<1>3. CASE session' = [session EXCEPT ![cookie[b]] = [session[cookie[b]] EXCEPT !.revoked = TRUE]]
  <2>1. \A s \in Sid : LET x == [session[s] EXCEPT !.revoked = TRUE]
                       IN  x \in SessionRow /\ x.wallet = session[s].wallet /\ x.scope = session[s].scope
    BY <1>0 DEF SessionRow
  <2> QED
    BY <1>0, <1>1, <1>3, <2>1
<1> QED
  BY <1>2, <1>3 DEF Identity!SignOut

(* The steps that issue, sign and mint, and the clock.                     *)
LEMMA DeskEffect ==
  ASSUME SignInShape, ProofKinds,
         \/ \E n \in Nonce : Identity!Issue(n)
         \/ \E m \in Identity!Message : Identity!Sign(m)
         \/ \E l \in Link, w \in Wallet : Identity!MintLink(l, w)
         \/ Identity!Elapse
  PROVE  SignInShape' /\ UNCHANGED <<session, cookie, call, honoured>>
<1>0. /\ now \in Int /\ nonce \in [Nonce -> Int \union {Nothing}] /\ alertLink \in [Link -> LinkToken]
      /\ Ttl["proof"] \in Int
  BY DEF SignInShape, ProofKinds
<1>1. CASE \E n \in Nonce : Identity!Issue(n)
  BY <1>0, <1>1 DEF SignInShape, Identity!Issue
<1>2. CASE \E m \in Identity!Message : Identity!Sign(m)
  BY <1>2 DEF SignInShape, Identity!Sign
<1>3. ASSUME NEW l \in Link, NEW w \in Wallet, Identity!MintLink(l, w)
      PROVE  SignInShape' /\ UNCHANGED <<session, cookie, call, honoured>>
  <2>1. [wallet |-> w, used |-> FALSE, expires |-> now + Ttl["proof"]] \in LinkToken
    BY <1>0 DEF LinkToken
  <2>2. alertLink' = [alertLink EXCEPT ![l] = [wallet |-> w, used |-> FALSE, expires |-> now + Ttl["proof"]]]
        /\ UNCHANGED <<now, nonce, signed, session, cookie, call, issued, honoured>>
    BY <1>3 DEF Identity!MintLink
  <2>3. alertLink' \in [Link -> LinkToken]
    BY <1>0, <2>1, <2>2
  <2> QED
    BY <2>2, <2>3 DEF SignInShape
<1>4. CASE Identity!Elapse
  BY <1>0, <1>4 DEF SignInShape, Identity!Elapse
<1> QED
  BY <1>1, <1>2, <1>3, <1>4

(* Every step keeps the tables well formed.                                *)
LEMMA SignInShapeKept ==
  ASSUME SignInShape, Backed, ProofKinds, [Identity!Next]_(Identity!vars) PROVE SignInShape'
<1>1. CASE \/ \E n \in Nonce : Identity!Issue(n)
           \/ \E m \in Identity!Message : Identity!Sign(m)
           \/ \E l \in Link, w \in Wallet : Identity!MintLink(l, w)
           \/ Identity!Elapse
  BY <1>1, DeskEffect
<1>2. ASSUME NEW r \in Request, NEW b \in Browser,
             \/ \E m \in signed, a \in Identity!Action : Identity!Verify(r, b, m, a)
             \/ \E l \in Link : Identity!Exchange(r, b, l)
      PROVE  SignInShape'
  BY <1>2, VerifyEffect, ExchangeEffect DEF SignInShape
<1>3. ASSUME NEW r \in Request, Identity!Consume(r) PROVE SignInShape'
  <2>1. call[r].at = "consume" /\ call' \in [Request -> Req]
        /\ UNCHANGED <<now, alertLink, signed, session, cookie, issued>>
    BY <1>3, ConsumeEffect
  <2>2. /\ nonce' = nonce \/ nonce' = [nonce EXCEPT ![call[r].proof] = Nothing]
        /\ honoured' = honoured \/ honoured' = [honoured EXCEPT ![call[r].proof] = @ + 1]
    BY <1>3, ConsumeEffect
  <2>3. nonce' \in [Nonce -> Int \union {Nothing}]
    BY <2>2 DEF SignInShape
  <2>4. honoured' \in [Nonce \union Link -> Nat]
    BY <2>2 DEF SignInShape
  <2> QED
    BY <2>1, <2>3, <2>4 DEF SignInShape
<1>4. ASSUME NEW r \in Request, Identity!Act(r) \/ Identity!Answer(r) PROVE SignInShape'
  BY <1>4, ActEffect, AnswerEffect DEF SignInShape
<1>5. ASSUME NEW r \in Request, Identity!BurnLink(r) PROVE SignInShape'
  <2>1. call[r].proof \in Link
    BY <1>5 DEF Identity!BurnLink, Backed
  <2>2. /\ call' \in [Request -> Req] /\ UNCHANGED <<now, nonce, signed, session, cookie, issued>>
        /\ alertLink' = alertLink \/ alertLink' \in [Link -> LinkToken]
        /\ honoured' = honoured \/ honoured' = [honoured EXCEPT ![call[r].proof] = @ + 1]
    BY <1>5, <2>1, BurnLinkEffect
  <2>3. honoured' \in [Nonce \union Link -> Nat]
    BY <2>2 DEF SignInShape
  <2> QED
    BY <2>2, <2>3 DEF SignInShape
<1>6. ASSUME NEW r \in Request, Identity!ReadCookie(r) PROVE SignInShape'
  BY <1>6, ReadCookieEffect DEF SignInShape
<1>7. ASSUME NEW b \in Browser, Identity!SignOut(b) PROVE SignInShape'
  BY <1>7, SignOutEffect DEF SignInShape
<1>8. CASE UNCHANGED Identity!vars
  BY <1>8 DEF SignInShape, Identity!vars
<1> QED
  BY <1>1, <1>2, <1>3, <1>4, <1>5, <1>6, <1>7, <1>8 DEF Identity!Next

(* What a nonce is in the hands of a request: issued, and of a message.    *)
LEMMA HeldIsNonce ==
  ASSUME SignInShape, Backed, NEW r \in Request, call[r].at \in {"consume", "act"}
  PROVE  /\ call[r].proof \in Nonce /\ call[r].wallet \in Wallet
         /\ \E m \in signed : /\ m.nonce = call[r].proof /\ m.wallet = call[r].wallet
                              /\ m.action = call[r].action
<1> DEFINE m == [nonce |-> call[r].proof, wallet |-> call[r].wallet, action |-> call[r].action]
<1>1. m \in signed
  BY DEF Backed
<1>2. m \in Identity!Message
  BY <1>1 DEF SignInShape
<1>3. m.nonce = call[r].proof /\ m.wallet = call[r].wallet /\ m.action = call[r].action
  OBVIOUS
<1>4. m.nonce \in Nonce /\ m.wallet \in Wallet
  BY <1>2 DEF Identity!Message
<1> QED
  BY <1>1, <1>3, <1>4

(* What is honoured is spent, and stays so: every step keeps the ledger of *)
(* nonces and links.                                                       *)
LEMMA SpentKept ==
  ASSUME SignInShape, Backed, Spent, ProofKinds, [Identity!Next]_(Identity!vars) PROVE Spent'
<1>0. /\ nonce \in [Nonce -> Int \union {Nothing}] /\ honoured \in [Nonce \union Link -> Nat]
      /\ alertLink \in [Link -> LinkToken] /\ Nonce \intersect Link = {}
  BY DEF SignInShape, ProofKinds
<1>1. ASSUME NEW n \in Nonce, Identity!Issue(n) PROVE Spent'
  <2>1. /\ n \notin issued /\ issued' = issued \union {n} /\ nonce' = [nonce EXCEPT ![n] = now + Ttl["proof"]]
        /\ UNCHANGED <<alertLink, honoured>>
    BY <1>1 DEF Identity!Issue
  <2> QED
    BY <1>0, <2>1 DEF Spent
<1>2. ASSUME NEW l \in Link, NEW w \in Wallet, Identity!MintLink(l, w) PROVE Spent'
  <2>1. /\ alertLink[l].used = FALSE /\ alertLink'[l].used = FALSE
        /\ \A k \in Link \ {l} : alertLink'[k] = alertLink[k]
        /\ UNCHANGED <<nonce, issued, honoured>>
    BY <1>0, <1>2 DEF Identity!MintLink, Identity!NoLink
  <2> QED
    BY <1>0, <2>1 DEF Spent
<1>3. ASSUME NEW r \in Request, Identity!Consume(r) PROVE Spent'
  <2> DEFINE n == call[r].proof
  <2>1. call[r].at = "consume" /\ UNCHANGED <<alertLink, issued>>
    BY <1>3, ConsumeEffect
  <2>2. n \in Nonce
    BY <2>1, HeldIsNonce
  <2> HIDE DEF n
  <2>3. \/ /\ nonce[n] # Nothing /\ nonce' = [nonce EXCEPT ![n] = Nothing]
           /\ honoured' = [honoured EXCEPT ![n] = @ + 1]
        \/ (nonce' = nonce \/ nonce' = [nonce EXCEPT ![n] = Nothing]) /\ honoured' = honoured
    BY <1>3, ConsumeEffect DEF n
  <2>4. CASE /\ nonce[n] # Nothing /\ nonce' = [nonce EXCEPT ![n] = Nothing]
             /\ honoured' = [honoured EXCEPT ![n] = @ + 1]
    <3>1. honoured[n] = 0 /\ n \in issued
      BY <2>2, <2>4 DEF Spent
    <3>2. /\ honoured'[n] = 1 /\ nonce'[n] = Nothing
          /\ \A k \in Nonce \ {n} : honoured'[k] = honoured[k] /\ nonce'[k] = nonce[k]
          /\ \A l \in Link : honoured'[l] = honoured[l]
      BY <1>0, <2>2, <2>4, <3>1
    <3> QED
      BY <2>1, <3>1, <3>2 DEF Spent
  <2>5. CASE (nonce' = nonce \/ nonce' = [nonce EXCEPT ![n] = Nothing]) /\ honoured' = honoured
    BY <1>0, <2>1, <2>2, <2>5 DEF Spent
  <2> QED
    BY <2>3, <2>4, <2>5
<1>4. ASSUME NEW r \in Request, Identity!BurnLink(r) PROVE Spent'
  <2> DEFINE l == call[r].proof
  <2>1. l \in Link
    BY <1>4 DEF Identity!BurnLink, Backed
  <2>2. /\ UNCHANGED <<nonce, issued>>
        /\ \/ UNCHANGED <<alertLink, honoured>>
           \/ /\ alertLink[l].used = FALSE /\ alertLink'[l].used = TRUE
              /\ \A k \in Link \ {l} : alertLink'[k] = alertLink[k]
              /\ honoured' = [honoured EXCEPT ![l] = @ + 1]
    BY <1>4, <2>1, BurnLinkEffect
  <2> HIDE DEF l
  <2>3. CASE UNCHANGED <<alertLink, honoured>>
    BY <2>2, <2>3 DEF Spent
  <2>4. CASE /\ alertLink[l].used = FALSE /\ alertLink'[l].used = TRUE
             /\ \A k \in Link \ {l} : alertLink'[k] = alertLink[k]
             /\ honoured' = [honoured EXCEPT ![l] = @ + 1]
    <3>1. honoured[l] = 0
      BY <2>1, <2>4 DEF Spent
    <3>2. /\ honoured'[l] = 1
          /\ \A k \in Link \ {l} : honoured'[k] = honoured[k]
          /\ \A n \in Nonce : honoured'[n] = honoured[n]
      BY <1>0, <2>1, <2>4, <3>1
    <3> QED
      BY <2>1, <2>2, <2>4, <3>2 DEF Spent
  <2> QED
    BY <2>2, <2>3, <2>4
<1>5. CASE UNCHANGED <<nonce, issued, alertLink, honoured>>
  BY <1>5 DEF Spent
<1>6. ASSUME \/ \E m \in Identity!Message : Identity!Sign(m)
             \/ Identity!Elapse \/ UNCHANGED Identity!vars
             \/ \E r \in Request : Identity!Act(r) \/ Identity!Answer(r) \/ Identity!ReadCookie(r)
             \/ \E b \in Browser : Identity!SignOut(b)
             \/ \E r \in Request, b \in Browser :
                  \/ \E m \in signed, a \in Identity!Action : Identity!Verify(r, b, m, a)
                  \/ \E l \in Link : Identity!Exchange(r, b, l)
      PROVE  UNCHANGED <<nonce, issued, alertLink, honoured>>
  BY <1>6 DEF Identity!Sign, Identity!Elapse, Identity!vars, Identity!Act, Identity!Answer,
     Identity!ReadCookie, Identity!SignOut, Identity!Verify, Identity!Exchange
<1> QED
  BY <1>1, <1>2, <1>3, <1>4, <1>5, <1>6 DEF Identity!Next

(* No step makes a request hold what was not signed or not minted.         *)
LEMMA BackedKept ==
  ASSUME SignInShape, Backed, ProofKinds, [Identity!Next]_(Identity!vars) PROVE Backed'
<1>1. signed \subseteq signed'
  BY DEF Identity!Next, Identity!Issue, Identity!Sign, Identity!MintLink, Identity!Verify, Identity!Exchange,
     Identity!Consume, Identity!Act, Identity!BurnLink, Identity!ReadCookie, Identity!Answer,
     Identity!SignOut, Identity!Elapse, Identity!vars
<1>2. \A l \in Link : alertLink[l] # Identity!NoLink => alertLink'[l] # Identity!NoLink
  <2>0. alertLink \in [Link -> LinkToken]
    BY DEF SignInShape
  <2>1. CASE alertLink' = alertLink
    BY <2>1
  <2>2. ASSUME NEW k \in Link, NEW w \in Wallet, Identity!MintLink(k, w)
        PROVE  \A l \in Link : alertLink[l] # Identity!NoLink => alertLink'[l] # Identity!NoLink
    BY <2>0, <2>2 DEF Identity!MintLink
  <2>3. ASSUME NEW r \in Request, Identity!BurnLink(r), alertLink' # alertLink
        PROVE  \A l \in Link : alertLink[l] # Identity!NoLink => alertLink'[l] # Identity!NoLink
    <3>1. call[r].proof \in Link
      BY <2>3 DEF Identity!BurnLink, Backed
    <3>2. /\ alertLink'[call[r].proof].used = TRUE
          /\ \A k \in Link \ {call[r].proof} : alertLink'[k] = alertLink[k]
      BY <2>3, <3>1, BurnLinkEffect
    <3>3. Identity!NoLink.used = FALSE
      BY DEF Identity!NoLink
    <3> QED
      BY <3>1, <3>2, <3>3
  <2> QED
    BY <2>1, <2>2, <2>3 DEF Identity!Next, Identity!Issue, Identity!Sign, Identity!Verify,
       Identity!Exchange, Identity!Consume, Identity!Act, Identity!ReadCookie, Identity!Answer,
       Identity!SignOut, Identity!Elapse, Identity!vars
<1> DEFINE BackedBy(x) ==
      /\ x.at \in {"consume", "act"} =>
           [nonce |-> x.proof, wallet |-> x.wallet, action |-> x.action] \in signed
      /\ x.at = "exchange" => x.proof \in Link /\ alertLink[x.proof] # Identity!NoLink
<1>3. \A r \in Request : BackedBy(call[r])
  BY DEF Backed
<1>4. SUFFICES \A r \in Request :
        /\ call'[r].at \in {"consume", "act"} =>
             [nonce |-> call'[r].proof, wallet |-> call'[r].wallet, action |-> call'[r].action] \in signed
        /\ call'[r].at = "exchange" =>
             call'[r].proof \in Link /\ alertLink[call'[r].proof] # Identity!NoLink
  BY <1>1, <1>2, <1>4 DEF Backed
<1> SUFFICES \A r \in Request : BackedBy(call'[r])
  OBVIOUS
<1>5. CASE call' = call
  BY <1>3, <1>5
<1>6. ASSUME NEW r \in Request, NEW b \in Browser, NEW m \in signed, NEW a \in Identity!Action,
             Identity!Verify(r, b, m, a)
      PROVE  \A q \in Request : BackedBy(call'[q])
  <2>1. m \in Identity!Message
    BY DEF SignInShape
  <2>2. m = [nonce |-> m.nonce, wallet |-> m.wallet, action |-> m.action]
    BY <2>1 DEF Identity!Message
  <2> QED
    BY <1>3, <1>6, <2>2, VerifyEffect
<1>7. ASSUME NEW r \in Request, NEW b \in Browser, NEW l \in Link, Identity!Exchange(r, b, l)
      PROVE  \A q \in Request : BackedBy(call'[q])
  <2>1. /\ call'[r].at = "exchange" /\ call'[r].proof = l /\ alertLink[l] # Identity!NoLink
        /\ \A q \in Request \ {r} : call'[q] = call[q]
    BY <1>7, ExchangeEffect
  <2> QED
    BY <1>3, <2>1
<1>8. ASSUME NEW r \in Request, Identity!Consume(r) PROVE \A q \in Request : BackedBy(call'[q])
  <2>1. /\ \A q \in Request \ {r} : call'[q] = call[q]
        /\ call[r].at = "consume"
        /\ \/ /\ call'[r].at = "act" /\ call'[r].proof = call[r].proof
              /\ call'[r].action = call[r].action /\ call'[r].wallet = call[r].wallet
           \/ call'[r].at = "idle"
    BY <1>8, ConsumeEffect
  <2> QED
    BY <1>3, <2>1
<1>9. ASSUME NEW r \in Request, Identity!Act(r) \/ Identity!Answer(r)
      PROVE  \A q \in Request : BackedBy(call'[q])
  <2>1. (\A q \in Request \ {r} : call'[q] = call[q]) /\ call'[r].at = "idle"
    BY <1>9, ActEffect, AnswerEffect
  <2> QED
    BY <1>3, <2>1
<1>10. ASSUME NEW r \in Request, Identity!BurnLink(r) PROVE \A q \in Request : BackedBy(call'[q])
  <2>1. call[r].at = "exchange" /\ call[r].proof \in Link
    BY <1>10 DEF Identity!BurnLink, Backed
  <2>2. /\ call'[r].at = "exchange" /\ call'[r].proof = call[r].proof
        /\ \A q \in Request \ {r} : call'[q] = call[q]
    BY <1>10, <2>1, BurnLinkEffect
  <2> QED
    BY <1>3, <2>1, <2>2
<1>11. ASSUME NEW r \in Request, Identity!ReadCookie(r) PROVE \A q \in Request : BackedBy(call'[q])
  <2>1. \A q \in Request : /\ call'[q].at = call[q].at /\ call'[q].proof = call[q].proof
                           /\ call'[q].action = call[q].action /\ call'[q].wallet = call[q].wallet
    BY <1>11, ReadCookieEffect
  <2> QED
    BY <1>3, <2>1
<1>12. ASSUME \/ \E n \in Nonce : Identity!Issue(n)
              \/ \E m \in Identity!Message : Identity!Sign(m)
              \/ \E l \in Link, w \in Wallet : Identity!MintLink(l, w)
              \/ Identity!Elapse \/ UNCHANGED Identity!vars
              \/ \E b \in Browser : Identity!SignOut(b)
       PROVE  call' = call
  BY <1>12 DEF Identity!Issue, Identity!Sign, Identity!MintLink, Identity!Elapse, Identity!vars, Identity!SignOut
<1> QED
  BY <1>5, <1>6, <1>7, <1>8, <1>9, <1>10, <1>11, <1>12 DEF Identity!Next

(* The six sets depend on these fields, and on nothing else.               *)
LEMMA SameBooks ==
  ASSUME NEW w \in Wallet, Within(Full(w), Opening(w), Accepted(w)),
         Within(ReadOnly(w), Linking(w), UsedLinks(w)),
         UNCHANGED <<signed, honoured>>,
         \A l \in Link : alertLink'[l].wallet = alertLink[l].wallet /\ alertLink'[l].used = alertLink[l].used,
         \A s \in Sid : session'[s].wallet = session[s].wallet /\ session'[s].scope = session[s].scope,
         \A q \in Request :
           /\ (call'[q].at = "act") = (call[q].at = "act")
           /\ call'[q].at = "act" => call'[q].action = call[q].action /\ call'[q].wallet = call[q].wallet
           /\ (call'[q].at = "exchange" /\ call'[q].burnt) = (call[q].at = "exchange" /\ call[q].burnt)
           /\ call'[q].at = "exchange" /\ call'[q].burnt => call'[q].wallet = call[q].wallet
  PROVE  /\ Within(Full(w)', Opening(w)', Accepted(w)')
         /\ Within(ReadOnly(w)', Linking(w)', UsedLinks(w)')
<1>1. Full(w)' = Full(w) /\ ReadOnly(w)' = ReadOnly(w)
  BY DEF Full, ReadOnly, Identity!SessionsOf
<1>2. Opening(w)' = Opening(w) /\ Linking(w)' = Linking(w)
  BY DEF Opening, Linking
<1>3. Accepted(w)' = Accepted(w) /\ UsedLinks(w)' = UsedLinks(w)
  BY DEF Accepted, UsedLinks
<1> QED
  BY <1>1, <1>2, <1>3

(* A nonce that is consumed pays for one session about to open.            *)
LEMMA ConsumePays ==
  ASSUME SignInInv, ProofKinds, NEW r \in Request, Identity!Consume(r), NEW w \in Wallet, SignInShape'
  PROVE  /\ Within(Full(w)', Opening(w)', Accepted(w)')
         /\ Within(ReadOnly(w)', Linking(w)', UsedLinks(w)')
<1>0. /\ SignInShape /\ Spent /\ Backed
      /\ Within(Full(w), Opening(w), Accepted(w)) /\ Within(ReadOnly(w), Linking(w), UsedLinks(w))
      /\ IsFiniteSet(signed)
  BY DEF SignInInv, PaidFor
<1> DEFINE n == call[r].proof
<1>1. /\ call[r].at = "consume" /\ UNCHANGED <<alertLink, signed, session>>
      /\ \A q \in Request \ {r} : call'[q] = call[q]
  BY <1>0, ConsumeEffect
<1>2. \/ /\ nonce[n] # Nothing
         /\ honoured' = [honoured EXCEPT ![n] = @ + 1]
         /\ call'[r].at = "act"
         /\ call'[r].action = call[r].action /\ call'[r].wallet = call[r].wallet
      \/ honoured' = honoured /\ call'[r].at = "idle"
  BY <1>0, ConsumeEffect
<1>3. CASE honoured' = honoured /\ call'[r].at = "idle"
  BY <1>0, <1>1, <1>3, SameBooks
<1>4. CASE /\ nonce[n] # Nothing
           /\ honoured' = [honoured EXCEPT ![n] = @ + 1]
           /\ call'[r].at = "act"
           /\ call'[r].action = call[r].action /\ call'[r].wallet = call[r].wallet
  <2>1. PICK m \in signed : n \in Nonce /\ m.nonce = n /\ m.wallet = call[r].wallet /\ m.action = call[r].action
    BY <1>0, <1>1, HeldIsNonce
  <2>2. honoured \in [Nonce \union Link -> Nat] /\ honoured[n] = 0
    BY <1>0, <1>4, <2>1 DEF SignInShape, Spent
  <2>3. honoured'[n] = 1 /\ \A k \in Nonce \ {n} : honoured'[k] = honoured[k]
    BY <1>4, <2>1, <2>2
  <2> HIDE DEF n
  <2>4. Full(w)' = Full(w) /\ ReadOnly(w)' = ReadOnly(w) /\ UsedLinks(w)' = UsedLinks(w)
    BY <1>1 DEF Full, ReadOnly, UsedLinks, Identity!SessionsOf
  <2>5. Linking(w)' = Linking(w)
    BY <1>1, <1>4 DEF Linking
  <2>6. \A x \in signed : x.nonce \in Nonce
    BY <1>0 DEF SignInShape, Identity!Message
  <2>7. Accepted(w) \subseteq Accepted(w)'
    BY <1>1, <2>2, <2>3, <2>6 DEF Accepted
  <2>8. IsFiniteSet(Accepted(w)')
    <3>1. Accepted(w)' \subseteq signed
      BY <1>1 DEF Accepted
    <3> QED
      BY <1>0, <3>1, FS_Subset
  <2>9. CASE call[r].wallet = w /\ call[r].action = "session-start"
    <3>1. Opening(w)' = Opening(w) \union {r}
      BY <1>1, <1>4, <2>9 DEF Opening
    <3>2. m \in Accepted(w)' /\ m \notin Accepted(w)
      BY <1>1, <2>1, <2>2, <2>3, <2>9 DEF Accepted
    <3>3. Within(Full(w), Opening(w)', Accepted(w)')
      <4>1. Accepted(w) \union {m} \subseteq Accepted(w)'
        BY <2>7, <3>2
      <4>2. PICK A : A = Accepted(w)'
        OBVIOUS
      <4>3. Within(Full(w), Opening(w) \union {r}, A)
        BY <1>0, <2>8, <3>2, <4>1, <4>2, OneMorePaid
      <4> QED
        BY <3>1, <4>2, <4>3
    <3> QED
      BY <1>0, <2>4, <2>5, <3>3
  <2>10. CASE ~(call[r].wallet = w /\ call[r].action = "session-start")
    <3>1. Opening(w)' = Opening(w)
      BY <1>1, <1>4, <2>10 DEF Opening
    <3>2. Within(Full(w), Opening(w), Accepted(w)')
      BY <1>0, <2>7, <2>8, MorePaid
    <3> QED
      BY <1>0, <2>4, <2>5, <3>1, <3>2
  <2> QED
    BY <2>9, <2>10
<1> QED
  BY <1>2, <1>3, <1>4

(* A link that is burnt pays for one read-only session about to open.      *)
LEMMA BurnPays ==
  ASSUME SignInInv, ProofKinds, NEW r \in Request, Identity!BurnLink(r), NEW w \in Wallet
  PROVE  /\ Within(Full(w)', Opening(w)', Accepted(w)')
         /\ Within(ReadOnly(w)', Linking(w)', UsedLinks(w)')
<1>0. /\ SignInShape /\ Spent /\ Backed /\ Nothing \notin Wallet /\ Nonce \intersect Link = {}
      /\ Within(Full(w), Opening(w), Accepted(w)) /\ Within(ReadOnly(w), Linking(w), UsedLinks(w))
  BY DEF SignInInv, PaidFor, ProofKinds
<1> DEFINE l == call[r].proof
<1>1. l \in Link
  BY <1>0 DEF Identity!BurnLink, Backed
<1>2. /\ call[r].at = "exchange" /\ call[r].burnt = FALSE
      /\ call'[r].at = "exchange" /\ call'[r].burnt = TRUE
      /\ \A q \in Request \ {r} : call'[q] = call[q]
      /\ UNCHANGED <<signed, session>>
      /\ \/ UNCHANGED <<alertLink, honoured>> /\ call'[r].wallet = Nothing
         \/ /\ alertLink[l].used = FALSE /\ call'[r].wallet = alertLink[l].wallet
            /\ alertLink'[l].used = TRUE
            /\ alertLink'[l].wallet = alertLink[l].wallet
            /\ \A k \in Link \ {l} : alertLink'[k] = alertLink[k]
            /\ honoured' = [honoured EXCEPT ![l] = @ + 1]
  BY <1>0, <1>1, BurnLinkEffect
<1> HIDE DEF l
<1>3. Full(w)' = Full(w) /\ ReadOnly(w)' = ReadOnly(w)
  BY <1>2 DEF Full, ReadOnly, Identity!SessionsOf
<1>4. Opening(w)' = Opening(w)
  BY <1>2 DEF Opening
<1>5. Accepted(w)' = Accepted(w)
  <2>1. \A m \in signed : m.nonce \in Nonce
    BY <1>0 DEF SignInShape, Identity!Message
  <2>2. honoured \in [Nonce \union Link -> Nat]
    BY <1>0 DEF SignInShape
  <2>3. \A n \in Nonce : honoured'[n] = honoured[n]
    BY <1>0, <1>1, <1>2, <2>2
  <2> QED
    BY <1>2, <2>1, <2>3 DEF Accepted
<1>6. CASE call'[r].wallet # w
  <2>1. Linking(w)' = Linking(w)
    BY <1>2, <1>6 DEF Linking
  <2>2. UsedLinks(w)' = UsedLinks(w)
    <3>1. CASE alertLink' = alertLink
      BY <3>1 DEF UsedLinks
    <3>2. CASE /\ call'[r].wallet = alertLink[l].wallet /\ alertLink'[l].wallet = alertLink[l].wallet
               /\ \A k \in Link \ {l} : alertLink'[k] = alertLink[k]
      BY <1>6, <3>2 DEF UsedLinks
    <3> QED
      BY <1>2, <3>1, <3>2
  <2> QED
    BY <1>0, <1>3, <1>4, <1>5, <2>1, <2>2
<1>7. CASE call'[r].wallet = w
  <2>1. /\ alertLink[l].used = FALSE /\ alertLink[l].wallet = w
        /\ alertLink'[l].used = TRUE /\ alertLink'[l].wallet = w
        /\ \A k \in Link \ {l} : alertLink'[k] = alertLink[k]
    BY <1>0, <1>2, <1>7
  <2>2. Linking(w)' = Linking(w) \union {r}
    BY <1>2, <1>7 DEF Linking
  <2>3. UsedLinks(w)' = UsedLinks(w) \union {l} /\ l \notin UsedLinks(w)
    BY <1>1, <2>1 DEF UsedLinks
  <2>4. IsFiniteSet(UsedLinks(w)')
    BY <1>0, <2>3, FS_AddElement DEF Within
  <2>5. Within(ReadOnly(w), Linking(w)', UsedLinks(w)')
    BY <1>0, <2>2, <2>3, <2>4, OneMorePaid
  <2> QED
    BY <1>0, <1>3, <1>4, <1>5, <2>5
<1> QED
  BY <1>6, <1>7

(* The session that opens is the one that was about to: a message is not   *)
(* spent twice.                                                            *)
LEMMA ActSpends ==
  ASSUME SignInInv, ProofKinds, NEW r \in Request, Identity!Act(r), NEW w \in Wallet
  PROVE  /\ Within(Full(w)', Opening(w)', Accepted(w)')
         /\ Within(ReadOnly(w)', Linking(w)', UsedLinks(w)')
<1>0. /\ SignInShape /\ Within(Full(w), Opening(w), Accepted(w)) /\ Within(ReadOnly(w), Linking(w), UsedLinks(w))
  BY DEF SignInInv, PaidFor
<1>1. /\ call[r].at = "act" /\ call'[r].at = "idle"
      /\ \A q \in Request \ {r} : call'[q] = call[q]
      /\ UNCHANGED <<alertLink, signed, honoured>>
      /\ \/ session' = session
         \/ /\ call[r].action = "session-start"
            /\ \E s \in Sid : /\ session[s].scope = "none"
                              /\ session'[s].wallet = call[r].wallet /\ session'[s].scope = "full"
                              /\ \A t \in Sid \ {s} : session'[t] = session[t]
  BY <1>0, ActEffect
<1>2. Linking(w)' = Linking(w) /\ UsedLinks(w)' = UsedLinks(w) /\ Accepted(w)' = Accepted(w)
  BY <1>1 DEF Linking, UsedLinks, Accepted
<1>3. ReadOnly(w)' = ReadOnly(w)
  BY <1>1 DEF ReadOnly, Identity!SessionsOf
<1>4. CASE r \in Opening(w)
  <2>1. Opening(w)' = Opening(w) \ {r}
    BY <1>1, <1>4 DEF Opening
  <2>2. Full(w)' = Full(w) \/ \E s \in Sid : Full(w)' = Full(w) \union {s}
    BY <1>1, <1>4 DEF Full, Opening, Identity!SessionsOf
  <2>3. Within(Full(w)', Opening(w)', Accepted(w))
    BY <1>0, <1>4, <2>1, <2>2, OneCame
  <2> QED
    BY <1>0, <1>2, <1>3, <2>3
<1>5. CASE r \notin Opening(w)
  <2>1. Opening(w)' = Opening(w)
    BY <1>1, <1>5 DEF Opening
  <2>2. Full(w)' = Full(w)
    BY <1>1, <1>5 DEF Full, Opening, Identity!SessionsOf
  <2> QED
    BY <1>0, <1>2, <1>3, <2>1, <2>2
<1> QED
  BY <1>4, <1>5

(* Likewise the read-only session of a link.                               *)
LEMMA AnswerSpends ==
  ASSUME SignInInv, ProofKinds, NEW r \in Request, Identity!Answer(r), NEW w \in Wallet
  PROVE  /\ Within(Full(w)', Opening(w)', Accepted(w)')
         /\ Within(ReadOnly(w)', Linking(w)', UsedLinks(w)')
<1>0. /\ SignInShape /\ Within(Full(w), Opening(w), Accepted(w)) /\ Within(ReadOnly(w), Linking(w), UsedLinks(w))
  BY DEF SignInInv, PaidFor
<1>1. /\ call[r].at = "exchange" /\ call[r].burnt /\ call'[r].at = "idle"
      /\ \A q \in Request \ {r} : call'[q] = call[q]
      /\ UNCHANGED <<alertLink, signed, honoured>>
      /\ \/ session' = session
         \/ \E s \in Sid : /\ session[s].scope = "none"
                           /\ session'[s].wallet = call[r].wallet /\ session'[s].scope = "readonly"
                           /\ \A t \in Sid \ {s} : session'[t] = session[t]
  BY <1>0, AnswerEffect
<1>2. Opening(w)' = Opening(w) /\ UsedLinks(w)' = UsedLinks(w) /\ Accepted(w)' = Accepted(w)
  BY <1>1 DEF Opening, UsedLinks, Accepted
<1>3. Full(w)' = Full(w)
  BY <1>1 DEF Full, Identity!SessionsOf
<1>4. CASE r \in Linking(w)
  <2>1. Linking(w)' = Linking(w) \ {r}
    BY <1>1, <1>4 DEF Linking
  <2>2. ReadOnly(w)' = ReadOnly(w) \/ \E s \in Sid : ReadOnly(w)' = ReadOnly(w) \union {s}
    BY <1>1, <1>4 DEF ReadOnly, Linking, Identity!SessionsOf
  <2>3. Within(ReadOnly(w)', Linking(w)', UsedLinks(w))
    BY <1>0, <1>4, <2>1, <2>2, OneCame
  <2> QED
    BY <1>0, <1>2, <1>3, <2>3
<1>5. CASE r \notin Linking(w)
  <2>1. Linking(w)' = Linking(w)
    BY <1>1, <1>5 DEF Linking
  <2>2. ReadOnly(w)' = ReadOnly(w)
    BY <1>1, <1>5 DEF ReadOnly, Linking, Identity!SessionsOf
  <2> QED
    BY <1>0, <1>2, <1>3, <2>1, <2>2
<1> QED
  BY <1>4, <1>5

(* Every step keeps what is there, or about to be, within what was paid    *)
(* for.                                                                    *)
LEMMA PaidForKept ==
  ASSUME SignInInv, ProofKinds, [Identity!Next]_(Identity!vars), SignInShape' PROVE PaidFor'
<1>0. SignInShape /\ IsFiniteSet(signed) /\ Nothing \notin Wallet
  BY DEF SignInInv, PaidFor, ProofKinds
<1>1. IsFiniteSet(signed')
  <2>1. signed' = signed \/ \E m \in Identity!Message : signed' = signed \union {m}
    BY DEF Identity!Next, Identity!Issue, Identity!Sign, Identity!MintLink, Identity!Verify, Identity!Exchange,
       Identity!Consume, Identity!Act, Identity!BurnLink, Identity!ReadCookie, Identity!Answer,
       Identity!SignOut, Identity!Elapse, Identity!vars
  <2> QED
    BY <1>0, <2>1, AtMostOneMore
<1>2. SUFFICES ASSUME NEW w \in Wallet
               PROVE  /\ Within(Full(w)', Opening(w)', Accepted(w)')
                      /\ Within(ReadOnly(w)', Linking(w)', UsedLinks(w)')
  BY <1>1 DEF PaidFor
<1>3. Within(Full(w), Opening(w), Accepted(w)) /\ Within(ReadOnly(w), Linking(w), UsedLinks(w))
  BY DEF SignInInv, PaidFor
<1>4. ASSUME NEW n \in Nonce, Identity!Issue(n)
      PROVE  Within(Full(w)', Opening(w)', Accepted(w)') /\ Within(ReadOnly(w)', Linking(w)', UsedLinks(w)')
  BY <1>3, <1>4, SameBooks DEF Identity!Issue
<1>5. ASSUME NEW m \in Identity!Message, Identity!Sign(m)
      PROVE  Within(Full(w)', Opening(w)', Accepted(w)') /\ Within(ReadOnly(w)', Linking(w)', UsedLinks(w)')
  <2>1. signed' = signed \union {m} /\ UNCHANGED <<alertLink, session, call, honoured>>
    BY <1>5 DEF Identity!Sign
  <2>2. /\ Full(w)' = Full(w) /\ ReadOnly(w)' = ReadOnly(w) /\ UsedLinks(w)' = UsedLinks(w)
        /\ Opening(w)' = Opening(w) /\ Linking(w)' = Linking(w)
    BY <2>1 DEF Full, ReadOnly, UsedLinks, Opening, Linking, Identity!SessionsOf
  <2>3. PICK A : A = Accepted(w)'
    OBVIOUS
  <2>4. Accepted(w) \subseteq A /\ A \subseteq signed'
    BY <2>1, <2>3 DEF Accepted
  <2>5. IsFiniteSet(A)
    BY <1>1, <2>4, FS_Subset
  <2>6. Within(Full(w), Opening(w), A)
    BY <1>3, <2>4, <2>5, MorePaid
  <2> QED
    BY <1>3, <2>2, <2>3, <2>6
<1>6. ASSUME NEW l \in Link, NEW v \in Wallet, Identity!MintLink(l, v)
      PROVE  Within(Full(w)', Opening(w)', Accepted(w)') /\ Within(ReadOnly(w)', Linking(w)', UsedLinks(w)')
  <2> DEFINE minting == [wallet |-> v, used |-> FALSE, expires |-> now + Ttl.proof]
  <2>1. /\ alertLink[l].used = FALSE /\ alertLink' = [alertLink EXCEPT ![l] = minting]
        /\ UNCHANGED <<signed, session, call, honoured>>
    BY <1>6 DEF Identity!MintLink, Identity!NoLink
  <2>2. minting.used = FALSE
    OBVIOUS
  <2> HIDE DEF minting
  <2>3. alertLink'[l].used = FALSE /\ \A k \in Link \ {l} : alertLink'[k] = alertLink[k]
    BY <1>0, <2>1, <2>2 DEF SignInShape
  <2>4. UsedLinks(w)' = UsedLinks(w)
    BY <2>1, <2>3 DEF UsedLinks
  <2>5. /\ Full(w)' = Full(w) /\ ReadOnly(w)' = ReadOnly(w) /\ Accepted(w)' = Accepted(w)
        /\ Opening(w)' = Opening(w) /\ Linking(w)' = Linking(w)
    BY <2>1 DEF Full, ReadOnly, Accepted, Opening, Linking, Identity!SessionsOf
  <2> QED
    BY <1>3, <2>4, <2>5
<1>7. ASSUME NEW r \in Request, NEW b \in Browser, NEW m \in signed, NEW a \in Identity!Action,
             Identity!Verify(r, b, m, a)
      PROVE  Within(Full(w)', Opening(w)', Accepted(w)') /\ Within(ReadOnly(w)', Linking(w)', UsedLinks(w)')
  <2>1. /\ call[r].at = "idle" /\ call'[r].at = "consume"
        /\ \A q \in Request \ {r} : call'[q] = call[q]
        /\ UNCHANGED <<alertLink, signed, session, honoured>>
    BY <1>0, <1>7, VerifyEffect
  <2> QED
    BY <1>3, <2>1, SameBooks
<1>8. ASSUME NEW r \in Request, NEW b \in Browser, NEW l \in Link, Identity!Exchange(r, b, l)
      PROVE  Within(Full(w)', Opening(w)', Accepted(w)') /\ Within(ReadOnly(w)', Linking(w)', UsedLinks(w)')
  <2>1. /\ call[r].at = "idle" /\ call'[r].at = "exchange" /\ call'[r].burnt = FALSE
        /\ \A q \in Request \ {r} : call'[q] = call[q]
        /\ UNCHANGED <<alertLink, signed, session, honoured>>
    BY <1>0, <1>8, ExchangeEffect
  <2> QED
    BY <1>3, <2>1, SameBooks
<1>9. ASSUME NEW r \in Request, Identity!ReadCookie(r)
      PROVE  Within(Full(w)', Opening(w)', Accepted(w)') /\ Within(ReadOnly(w)', Linking(w)', UsedLinks(w)')
  <2>1. /\ \A q \in Request : /\ call'[q].at = call[q].at /\ call'[q].action = call[q].action
                              /\ call'[q].wallet = call[q].wallet /\ call'[q].burnt = call[q].burnt
        /\ UNCHANGED <<alertLink, signed, session, honoured>>
    BY <1>0, <1>9, ReadCookieEffect
  <2> QED
    BY <1>3, <2>1, SameBooks
<1>10. ASSUME NEW b \in Browser, Identity!SignOut(b)
       PROVE  Within(Full(w)', Opening(w)', Accepted(w)') /\ Within(ReadOnly(w)', Linking(w)', UsedLinks(w)')
  <2>1. /\ \A s \in Sid : session'[s].wallet = session[s].wallet /\ session'[s].scope = session[s].scope
        /\ UNCHANGED <<alertLink, signed, call, honoured>>
    BY <1>0, <1>10, SignOutEffect
  <2> QED
    BY <1>3, <2>1, SameBooks
<1>11. CASE Identity!Elapse \/ UNCHANGED Identity!vars
  <2>1. UNCHANGED <<alertLink, signed, session, call, honoured>>
    BY <1>11 DEF Identity!Elapse, Identity!vars
  <2> QED
    BY <1>3, <2>1, SameBooks
<1> QED
  BY <1>4, <1>5, <1>6, <1>7, <1>8, <1>9, <1>10, <1>11, ConsumePays, BurnPays, ActSpends, AnswerSpends
     DEF Identity!Next

(* It holds when nothing has been signed.                                  *)
LEMMA NothingSignedYet ==
  ASSUME ProofKinds, Identity!Init PROVE SignInInv
<1>1. SignInShape
  <2>1. Identity!NoReq \in Req
    BY ReqEdits
  <2>2. Identity!NoSession \in SessionRow /\ Identity!NoLink \in LinkToken
    BY DEF Identity!NoSession, SessionRow, Identity!NoLink, LinkToken
  <2> QED
    BY <2>1, <2>2 DEF Identity!Init, SignInShape
<1>2. Spent
  BY DEF ProofKinds, Identity!Init, Spent, Identity!NoLink
<1>3. Backed
  BY DEF Identity!Init, Backed, Identity!NoReq
<1>4. PaidFor
  <2>1. signed = {}
    BY DEF Identity!Init
  <2>2. ASSUME NEW w \in Wallet
        PROVE  /\ Full(w) = {} /\ Opening(w) = {} /\ Accepted(w) = {}
               /\ ReadOnly(w) = {} /\ Linking(w) = {} /\ UsedLinks(w) = {}
    BY DEF Identity!Init, Full, Opening, Accepted, ReadOnly, Linking, UsedLinks, Identity!SessionsOf,
       Identity!NoSession, Identity!NoReq, Identity!NoLink
  <2>3. Within({}, {}, {})
    BY FS_EmptySet DEF Within
  <2> QED
    BY <2>1, <2>2, <2>3, FS_EmptySet DEF PaidFor
<1> QED
  BY <1>1, <1>2, <1>3, <1>4 DEF SignInInv

(* The instance counts sets as this module does.                           *)
LEMMA SameCount ==
  ASSUME NEW S PROVE Identity!Cardinality(S) = Cardinality(S)
BY DEF Cardinality, Identity!Cardinality

(* What is paid for once is used once.                                     *)
LEMMA PaidForIsOnce ==
  ASSUME SignInInv PROVE Identity!OneProofOneUse
<1>1. \A p \in Nonce \union Link : honoured[p] <= 1
  BY DEF SignInInv, Spent
<1>2. ASSUME NEW w \in Wallet
      PROVE  /\ Cardinality(Identity!SessionsOf(w, "full")) <=
                  Cardinality({m \in signed : m.wallet = w /\ m.action = "session-start"})
             /\ Cardinality(Identity!SessionsOf(w, "readonly")) <=
                  Cardinality({l \in Link : alertLink[l].wallet = w /\ alertLink[l].used})
  <2> DEFINE M == {m \in signed : m.wallet = w /\ m.action = "session-start"}
  <2>1. /\ IsFiniteSet(signed)
        /\ Within(Full(w), Opening(w), Accepted(w)) /\ Within(ReadOnly(w), Linking(w), UsedLinks(w))
    BY DEF SignInInv, PaidFor
  <2>2. IsFiniteSet(M)
    BY <2>1, FS_Subset
  <2>3. Accepted(w) \subseteq M
    BY DEF Accepted
  <2>4. Cardinality(Accepted(w)) <= Cardinality(M)
    BY <2>2, <2>3, FS_Subset
  <2>5. /\ Cardinality(Full(w)) \in Nat /\ Cardinality(Opening(w)) \in Nat /\ Cardinality(Accepted(w)) \in Nat
        /\ Cardinality(ReadOnly(w)) \in Nat /\ Cardinality(Linking(w)) \in Nat
        /\ Cardinality(UsedLinks(w)) \in Nat /\ Cardinality(M) \in Nat
    BY <2>1, <2>2, FS_CardinalityType DEF Within
  <2> HIDE DEF M
  <2>6. Cardinality(Full(w)) <= Cardinality(M) /\ Cardinality(ReadOnly(w)) <= Cardinality(UsedLinks(w))
    BY <2>1, <2>4, <2>5 DEF Within
  <2> QED
    BY <2>6 DEF M, Full, ReadOnly, UsedLinks
<1> QED
  BY <1>1, <1>2, SameCount DEF Identity!OneProofOneUse

(* The invariant of sign-in holds.                                         *)
LEMMA SignInInvariant == Spec => [](focus = "identity" => SignInInv)
<1> ProofKinds
  BY ServiceConstants
<1> DEFINE IInv == focus = "identity" => SignInInv
<1>1. Init => IInv
  BY NothingSignedYet DEF Init
<1>2. IInv /\ [Next]_vars => IInv'
  <2>1. ASSUME SignInInv, [Identity!Next]_(Identity!vars) PROVE SignInInv'
    BY <2>1, SignInShapeKept, SpentKept, BackedKept, PaidForKept DEF SignInInv
  <2>2. ASSUME focus = "identity", [Next]_vars PROVE [Identity!Next]_(Identity!vars)
    BY <2>2 DEF Next, vars, signInVars, Identity!vars
  <2>3. ASSUME [Next]_vars PROVE focus' = focus
    BY <2>3 DEF Next, Others, vars
  <2> QED
    BY <2>1, <2>2, <2>3
<1> QED
  BY <1>1, <1>2, PTL DEF Spec

(* However requests are repeated, overlap and fail, and whatever wallets,  *)
(* nonces, links and browsers there are, a proof is honoured once and buys *)
(* at most one session.                                                    *)
THEOREM ProofsAreUsedOnce == Spec => []OneProofOneUse
<1>1. (focus = "identity" => SignInInv) => OneProofOneUse
  BY PaidForIsOnce DEF OneProofOneUse
<1> QED
  BY <1>1, SignInInvariant, PTL

----------------------------------------------------------------------------
(* Telegram links.                                                         *)

LinkRow == [chat : Chat \union {Nothing}, enabled : BOOLEAN, blocked : BOOLEAN]
CodeRow == [wallet : Linked \union {Nothing}, state : {"none", "live", "lapsed", "used"}]
HookRow == [at : {"idle", "found", "dropped", "bound"}, chat : Chat \union {Nothing},
            code : Code \union {Nothing}, wallet : Linked \union {Nothing}]

ChatShape ==
  /\ link \in [Linked -> LinkRow]
  /\ code \in [Code -> CodeRow]
  /\ hook \in [Hook -> HookRow]

AnswerRow == [chat : Chat \union {Nothing}, ok : BOOLEAN]

Answers == stamp \in [Stamp -> AnswerRow]

(* A /start that is still under way is of a chat that has spoken since its *)
(* last /stop, so what it will bind is not the doing of an old one.        *)
StopInv ==
  /\ ChatShape /\ Answers
  /\ Chats!StopSticks
  /\ \A h \in Hook : hook[h].at # "idle" => hook[h].chat \notin quiet

(* Rows that are written in place keep their type.                         *)
LEMMA ChatRows ==
  /\ \A m \in LinkRow :
       /\ [m EXCEPT !.enabled = FALSE] \in LinkRow
       /\ \A ok \in BOOLEAN : /\ Chats!Stamped(m, ok) \in LinkRow
                              /\ Chats!Stamped(m, ok).chat = m.chat
                              /\ ~m.enabled => ~Chats!Stamped(m, ok).enabled
       /\ \A c \in Chat \union {Nothing} : [[m EXCEPT !.chat = c] EXCEPT !.enabled = TRUE] \in LinkRow
  /\ \A m \in HookRow : \A a \in {"idle", "found", "dropped", "bound"} :
       [m EXCEPT !.at = a] \in HookRow
  /\ \A m \in CodeRow : [m EXCEPT !.state = "lapsed"] \in CodeRow
  /\ Chats!NoLink \in LinkRow /\ Chats!NoHook \in HookRow
BY DEF LinkRow, HookRow, CodeRow, Chats!Stamped, Chats!NoLink, Chats!NoHook

(* Every step of telegram linking keeps the rows well formed.              *)
LEMMA ChatShapeKept == ChatShape /\ Answers /\ [Chats!Next]_(Chats!vars) => ChatShape'
<1> SUFFICES ASSUME ChatShape, Answers, [Chats!Next]_(Chats!vars) PROVE ChatShape'
  OBVIOUS
<1>0. /\ link \in [Linked -> LinkRow] /\ code \in [Code -> CodeRow] /\ hook \in [Hook -> HookRow]
  BY DEF ChatShape
<1>1. ASSUME NEW k \in Code, Chats!LetLapse(k) PROVE ChatShape'
  <2>1. /\ code' = [code EXCEPT ![k] = [code[k] EXCEPT !.state = "lapsed"]]
        /\ UNCHANGED <<link, hook>>
    BY <1>1 DEF Chats!LetLapse
  <2> QED
    BY <1>0, <2>1, ChatRows DEF ChatShape
<1>2. ASSUME NEW h \in Hook, Chats!DropOld(h) PROVE ChatShape'
  <2>1. /\ hook' = [hook EXCEPT ![h] = [hook[h] EXCEPT !.at = "dropped"]]
        /\ code' = code
        /\ link' \in [Linked -> LinkRow]
    BY <1>0, <1>2, ChatRows DEF Chats!DropOld
  <2>2. [hook[h] EXCEPT !.at = "dropped"] \in HookRow
    BY <1>0, ChatRows
  <2> QED
    BY <1>0, <2>1, <2>2 DEF ChatShape
<1>3. ASSUME NEW h \in Hook, Chats!Bind(h) PROVE ChatShape'
  <2>1. CASE UNCHANGED link /\ hook' = [hook EXCEPT ![h] = Chats!NoHook]
    BY <1>0, <1>3, <2>1, ChatRows DEF Chats!Bind, ChatShape
  <2>2. CASE /\ hook' = [hook EXCEPT ![h] = [hook[h] EXCEPT !.at = "bound"]]
             /\ link' = [link EXCEPT ![hook[h].wallet] =
                  [[link[hook[h].wallet] EXCEPT !.chat = hook[h].chat] EXCEPT !.enabled = TRUE]]
    <3>1. hook[h].chat \in Chat \union {Nothing} /\ [hook[h] EXCEPT !.at = "bound"] \in HookRow
      BY <1>0, ChatRows DEF HookRow
    <3>2. \A w \in Linked :
            [[link[w] EXCEPT !.chat = hook[h].chat] EXCEPT !.enabled = TRUE] \in LinkRow
      BY <1>0, <3>1, ChatRows
    <3>3. hook' \in [Hook -> HookRow]
      BY <1>0, <2>2, <3>1
    <3>4. link' \in [Linked -> LinkRow]
      BY <1>0, <2>2, <3>2
    <3> QED
      BY <1>0, <1>3, <3>3, <3>4 DEF Chats!Bind, ChatShape
  <2> QED
    BY <1>3, <2>1, <2>2 DEF Chats!Bind
<1>4. ASSUME NEW h \in Hook, Chats!ConsumeLinkCode(h) PROVE ChatShape'
  <2>1. hook' \in [Hook -> HookRow]
    BY <1>0, <1>4, ChatRows DEF Chats!ConsumeLinkCode
  <2>2. code' \in [Code -> CodeRow]
    BY <1>0, <1>4 DEF Chats!ConsumeLinkCode, Chats!Gone, CodeRow
  <2> QED
    BY <1>0, <1>4, <2>1, <2>2 DEF Chats!ConsumeLinkCode, ChatShape
<1>5. ASSUME NEW h \in Hook, NEW c \in Chat, NEW k \in Code, Chats!Start(h, c, k) PROVE ChatShape'
  <2>1. hook' \in [Hook -> HookRow]
    <3>1. [at |-> "found", chat |-> c, code |-> k, wallet |-> code[k].wallet] \in HookRow
      BY <1>0 DEF HookRow, CodeRow
    <3> QED
      BY <1>0, <1>5, <3>1 DEF Chats!Start
  <2>2. code' \in [Code -> CodeRow]
    BY <1>0, <1>5 DEF Chats!Start, Chats!Gone, CodeRow
  <2> QED
    BY <1>0, <1>5, <2>1, <2>2 DEF Chats!Start, ChatShape
<1>6. ASSUME NEW c \in Chat, Chats!Stop(c) PROVE ChatShape'
  BY <1>0, <1>6, ChatRows DEF Chats!Stop, ChatShape
<1>7. ASSUME NEW s \in Stamp, Chats!Record(s), Answers PROVE ChatShape'
  <2>1. stamp[s].ok \in BOOLEAN
    BY <1>7 DEF Answers, AnswerRow
  <2> QED
    <3>1. \A w \in Linked : Chats!Stamped(link[w], stamp[s].ok) \in LinkRow
      BY <1>0, <2>1, ChatRows
    <3>2. link' \in [Linked -> LinkRow]
      BY <1>0, <1>7, <3>1 DEF Chats!Record
    <3> QED
      BY <1>0, <1>7, <3>2 DEF Chats!Record, ChatShape
<1>8. ASSUME NEW k \in Code, NEW w \in Linked, Chats!CreateLinkCode(k, w) PROVE ChatShape'
  BY <1>0, <1>8 DEF Chats!CreateLinkCode, ChatShape, CodeRow
<1>9. CASE UNCHANGED <<code, link, hook>>
  BY <1>0, <1>9 DEF ChatShape
<1>10. ASSUME \/ UNCHANGED Chats!vars
              \/ \E c \in Chat : Chats!Block(c)
              \/ \E s \in Stamp, w \in Linked : Chats!Send(s, w)
       PROVE  UNCHANGED <<code, link, hook>>
  BY <1>10 DEF Chats!vars, Chats!Block, Chats!Send
<1> QED
  BY <1>1, <1>2, <1>3, <1>4, <1>5, <1>6, <1>7, <1>8, <1>9, <1>10 DEF Chats!Next

(* Telegram's answers are yes or no.                                       *)
LEMMA AnswersKept == ChatShape /\ Answers /\ [Chats!Next]_(Chats!vars) => Answers'
<1> SUFFICES ASSUME ChatShape, Answers, [Chats!Next]_(Chats!vars) PROVE Answers'
  OBVIOUS
<1>1. ASSUME NEW s \in Stamp, NEW w \in Linked, Chats!Send(s, w) PROVE Answers'
  <2>1. [chat |-> link[w].chat, ok |-> link[w].chat \notin blocks] \in AnswerRow
    BY DEF ChatShape, LinkRow, AnswerRow
  <2>2. stamp' = [stamp EXCEPT ![s] = [chat |-> link[w].chat, ok |-> link[w].chat \notin blocks]]
    BY <1>1 DEF Chats!Send
  <2> QED
    BY <2>1, <2>2 DEF Answers
<1>2. ASSUME NEW s \in Stamp, Chats!Record(s) PROVE Answers'
  <2>1. Chats!NoStamp \in AnswerRow
    BY DEF Chats!NoStamp, AnswerRow
  <2> QED
    BY <1>2, <2>1 DEF Answers, Chats!Record
<1>3. CASE UNCHANGED stamp
  BY <1>3 DEF Answers
<1> QED
  BY <1>1, <1>2, <1>3 DEF Chats!Next, Chats!vars, Chats!LetLapse, Chats!CreateLinkCode, Chats!DropOld,
     Chats!Bind, Chats!ConsumeLinkCode, Chats!Start, Chats!Stop, Chats!Block

(* What is switched on is switched on for a chat that has spoken.          *)
LEMMA StopKept == StopInv /\ [Chats!Next]_(Chats!vars) => StopInv'
<1> SUFFICES ASSUME StopInv, [Chats!Next]_(Chats!vars) PROVE StopInv'
  OBVIOUS
<1> DEFINE Quiet == \A w \in Linked : link[w].chat \in quiet => ~link[w].enabled
           Spoken == \A h \in Hook : hook[h].at # "idle" => hook[h].chat \notin quiet
<1>a. Chats!StopSticks <=> Quiet
  BY DEF Chats!StopSticks, Chats!RowsOf
<1>b. Chats!StopSticks' <=> Quiet'
  BY DEF Chats!StopSticks, Chats!RowsOf
<1>c. ChatShape' /\ Answers'
  BY ChatShapeKept, AnswersKept DEF StopInv
<1>0. /\ link \in [Linked -> LinkRow] /\ hook \in [Hook -> HookRow] /\ stamp \in [Stamp -> AnswerRow]
      /\ Quiet /\ Spoken
  BY <1>a DEF StopInv, ChatShape, Answers
<1> SUFFICES Quiet' /\ Spoken'
  BY <1>b, <1>c DEF StopInv
<1>1. CASE UNCHANGED <<link, hook, quiet>>
  BY <1>0, <1>1
<1>2. ASSUME NEW h \in Hook, Chats!DropOld(h) PROVE Quiet' /\ Spoken'
  <2>1. quiet' = quiet /\ \A w \in Linked : link'[w] \in {link[w], Chats!NoLink}
    BY <1>0, <1>2 DEF Chats!DropOld
  <2>2. Quiet'
    BY <1>0, <2>1 DEF Chats!NoLink
  <2>3. hook' = [hook EXCEPT ![h] = [hook[h] EXCEPT !.at = "dropped"]] /\ hook[h].at # "idle"
    BY <1>2 DEF Chats!DropOld
  <2>4. \A g \in Hook : hook'[g].chat = hook[g].chat /\ (hook'[g].at # "idle" => hook[g].at # "idle")
    BY <1>0, <2>3 DEF HookRow
  <2> QED
    BY <1>0, <2>1, <2>2, <2>4
<1>3. ASSUME NEW h \in Hook, Chats!Bind(h) PROVE Quiet' /\ Spoken'
  <2>1. hook[h].at # "idle" /\ quiet' = quiet /\ hook[h].chat \notin quiet
    BY <1>0, <1>3 DEF Chats!Bind
  <2>2. Spoken'
    <3>1. CASE hook' = [hook EXCEPT ![h] = Chats!NoHook]
      BY <1>0, <2>1, <3>1 DEF Chats!NoHook
    <3>2. CASE hook' = [hook EXCEPT ![h] = [hook[h] EXCEPT !.at = "bound"]]
      <4>1. \A g \in Hook : hook'[g].chat = hook[g].chat
        BY <1>0, <3>2 DEF HookRow
      <4>2. \A g \in Hook : hook'[g].at # "idle" => hook[g].at # "idle"
        BY <1>0, <2>1, <3>2
      <4> QED
        BY <1>0, <2>1, <4>1, <4>2
    <3> QED
      BY <1>3, <3>1, <3>2 DEF Chats!Bind
  <2>3. Quiet'
    <3>1. CASE link' = link
      BY <1>0, <2>1, <3>1
    <3>2. CASE link' = [link EXCEPT ![hook[h].wallet] =
                 [[link[hook[h].wallet] EXCEPT !.chat = hook[h].chat] EXCEPT !.enabled = TRUE]]
      <4>1. \A w \in Linked : w # hook[h].wallet => link'[w] = link[w]
        BY <1>0, <3>2
      <4>2. hook[h].wallet \in Linked => link'[hook[h].wallet].chat = hook[h].chat
        BY <1>0, <3>2 DEF LinkRow
      <4> QED
        BY <1>0, <2>1, <4>1, <4>2
    <3> QED
      BY <1>3, <3>1, <3>2 DEF Chats!Bind
  <2> QED
    BY <2>2, <2>3
<1>4. ASSUME NEW h \in Hook, Chats!ConsumeLinkCode(h) PROVE Quiet' /\ Spoken'
  BY <1>0, <1>4 DEF Chats!ConsumeLinkCode, Chats!NoHook
<1>5. ASSUME NEW h \in Hook, NEW c \in Chat, NEW k \in Code, Chats!Start(h, c, k)
      PROVE  Quiet' /\ Spoken'
  <2>1. /\ quiet' = quiet \ {c} /\ link' = link
        /\ \/ hook' = hook
           \/ hook' = [hook EXCEPT ![h] =
                [at |-> "found", chat |-> c, code |-> k, wallet |-> code[k].wallet]]
    BY <1>5 DEF Chats!Start
  <2> QED
    BY <1>0, <2>1
<1>6. ASSUME NEW c \in Chat, Chats!Stop(c) PROVE Quiet' /\ Spoken'
  <2>1. /\ hook' = hook
        /\ \A w \in Linked : link'[w] = IF link[w].chat = c THEN [link[w] EXCEPT !.enabled = FALSE]
                                         ELSE link[w]
        /\ quiet' = IF \E h \in Hook : hook[h].chat = c THEN quiet ELSE quiet \union {c}
    BY <1>6 DEF Chats!Stop, Chats!RowsOf
  <2>2. \A w \in Linked : /\ link'[w].chat = link[w].chat
                          /\ link'[w].enabled => link[w].enabled /\ link[w].chat # c
    BY <1>0, <2>1 DEF LinkRow
  <2> QED
    BY <1>0, <2>1, <2>2
<1>7. ASSUME NEW s \in Stamp, Chats!Record(s) PROVE Quiet' /\ Spoken'
  <2>1. /\ UNCHANGED <<hook, quiet>>
        /\ \A w \in Linked : link'[w] \in {link[w], Chats!Stamped(link[w], stamp[s].ok)}
    BY <1>0, <1>7 DEF Chats!Record
  <2>2. stamp[s].ok \in BOOLEAN
    BY <1>0 DEF AnswerRow
  <2>3. \A w \in Linked : LET m == Chats!Stamped(link[w], stamp[s].ok)
                          IN  m.chat = link[w].chat /\ (~link[w].enabled => ~m.enabled)
    BY <1>0, <2>2, ChatRows
  <2>4. \A w \in Linked : link'[w].chat = link[w].chat /\ (~link[w].enabled => ~link'[w].enabled)
    BY <2>1, <2>3
  <2> QED
    BY <1>0, <2>1, <2>4
<1>8. ASSUME \/ UNCHANGED Chats!vars
             \/ \E c \in Chat : Chats!Block(c)
             \/ \E k \in Code : Chats!LetLapse(k) \/ \E w \in Linked : Chats!CreateLinkCode(k, w)
             \/ \E s \in Stamp, w \in Linked : Chats!Send(s, w)
      PROVE  UNCHANGED <<link, hook, quiet>>
  BY <1>8 DEF Chats!vars, Chats!Block, Chats!Send, Chats!LetLapse, Chats!CreateLinkCode
<1> QED
  BY <1>1, <1>2, <1>3, <1>4, <1>5, <1>6, <1>7, <1>8 DEF Chats!Next

(* The invariant of linking holds.                                         *)
LEMMA StopInvariant == Spec => [](focus = "chats" => StopInv)
<1> DEFINE IInv == focus = "chats" => StopInv
<1>1. Init => IInv
  <2>1. Chats!Init => StopInv
    BY DEF Chats!Init, StopInv, ChatShape, Answers, LinkRow, CodeRow, HookRow, AnswerRow, Chats!NoCode,
       Chats!NoLink, Chats!NoHook, Chats!NoStamp, Chats!StopSticks
  <2> QED
    BY <2>1 DEF Init
<1>2. IInv /\ [Next]_vars => IInv'
  <2>1. ASSUME focus = "chats", [Next]_vars PROVE [Chats!Next]_(Chats!vars)
    BY <2>1 DEF Next, vars, chatVars, Chats!vars
  <2>2. ASSUME [Next]_vars PROVE focus' = focus
    BY <2>2 DEF Next, Others, vars
  <2> QED
    BY <2>1, <2>2, StopKept
<1> QED
  BY <1>1, <1>2, PTL DEF Spec

(* A /stop that was written is final until the chat speaks again, whatever *)
(* is under way for its row: for any number of chats, codes, webhook calls *)
(* and messages (telegramStore.ts disableLink, recordDelivery).            *)
THEOREM StopIsFinal == Spec => []StopSticks
<1>1. (focus = "chats" => StopInv) => StopSticks
  BY DEF StopInv, StopSticks
<1> QED
  BY <1>1, StopInvariant, PTL

----------------------------------------------------------------------------
(* Scoring blind.                                                          *)

(* The ticks under way that have scored something: those whose legs, once  *)
(* another tick has been credited with them, will be missed when they end. *)
Scorers == {t \in Tick : tick[t] = "scored"}

(* As long as no tick of the run was really barren, each tick that added   *)
(* to the run had scored before the run began: what the run has counted    *)
(* and may still count is less than the ticks that can overlap.            *)
Credited ==
  \/ consecutive + Cardinality(Scorers) < Cardinality(Tick)
  \/ consecutive = 0 /\ Scorers = {}

BlindInv ==
  /\ tick \in [Tick -> {"off", "empty", "scored"}]
  /\ fresh \in BOOLEAN /\ watching \in BOOLEAN /\ raised \in BOOLEAN /\ barren \in BOOLEAN
  /\ consecutive \in Nat
  /\ barren => consecutive # 0
  /\ ~fresh /\ ~barren => Credited
  /\ raised => barren

(* A tick that ends leaves the ticks that have scored.                     *)
LEMMA EndsScoring ==
  ASSUME IsFiniteSet(Tick), BlindInv, NEW t \in Tick, Blind!EndTick(t)
  PROVE  /\ Scorers' = Scorers \ {t}
         /\ IsFiniteSet(Scorers) /\ Cardinality(Scorers) \in Nat /\ Cardinality(Scorers') \in Nat
         /\ Cardinality(Tick) \in Nat
         /\ Cardinality(Scorers') < Cardinality(Tick)
         /\ t \in Scorers => Cardinality(Scorers') = Cardinality(Scorers) - 1
<1>1. tick' = [tick EXCEPT ![t] = "off"] /\ tick \in [Tick -> {"off", "empty", "scored"}]
  BY DEF Blind!EndTick, BlindInv
<1>2. Scorers' = Scorers \ {t}
  BY <1>1 DEF Scorers
<1>3. Scorers \subseteq Tick /\ Scorers \ {t} \subseteq Tick \ {t}
  BY DEF Scorers
<1>4. IsFiniteSet(Scorers) /\ IsFiniteSet(Tick \ {t}) /\ Cardinality(Tick \ {t}) = Cardinality(Tick) - 1
  BY <1>3, FS_Subset, FS_RemoveElement
<1>5. IsFiniteSet(Scorers \ {t}) /\ Cardinality(Scorers \ {t}) <= Cardinality(Tick \ {t})
  BY <1>3, <1>4, FS_Subset
<1>6. t \in Scorers => Cardinality(Scorers \ {t}) = Cardinality(Scorers) - 1
  BY <1>4, FS_RemoveElement
<1>7. /\ Cardinality(Scorers) \in Nat /\ Cardinality(Scorers \ {t}) \in Nat
      /\ Cardinality(Tick) \in Nat
  BY <1>4, <1>5, FS_CardinalityType
<1> QED
  BY <1>2, <1>4, <1>5, <1>6, <1>7

(* Every step keeps it: a tick that ends either leaves the scorers, and    *)
(* the run may count it, or resets the run.                                *)
LEMMA BlindKept ==
  ASSUME IsFiniteSet(Tick), Threshold \in Nat, Cardinality(Tick) <= Threshold,
         BlindInv, [Blind!Next]_(Blind!vars)
  PROVE  BlindInv'
<1>1. ASSUME NEW t \in Tick, Blind!EndTick(t) PROVE BlindInv'
  <2> DEFINE K == Cardinality(Scorers)
             N == Cardinality(Tick)
             J == Cardinality(Scorers')
  <2>1. /\ Scorers' = Scorers \ {t} /\ K \in Nat /\ J \in Nat /\ N \in Nat /\ J < N
        /\ t \in Scorers => J = K - 1
    BY <1>1, EndsScoring
  <2>2. /\ tick' \in [Tick -> {"off", "empty", "scored"}]
        /\ fresh' = FALSE /\ watching' = watching
        /\ consecutive' = IF ~watching \/ fresh THEN 0
                          ELSE IF consecutive < Threshold THEN consecutive + 1 ELSE consecutive
        /\ raised' = (~fresh /\ watching /\ consecutive' = Threshold)
        /\ barren' = (watching /\ ~fresh /\ (tick[t] = "empty" \/ (consecutive # 0 /\ barren)))
        /\ tick[t] # "off"
    BY <1>1 DEF BlindInv, Blind!EndTick, Blind!Observed
  <2>3. /\ fresh \in BOOLEAN /\ watching \in BOOLEAN /\ barren \in BOOLEAN /\ consecutive \in Nat
        /\ barren => consecutive # 0
        /\ tick \in [Tick -> {"off", "empty", "scored"}]
    BY DEF BlindInv
  <2>0. /\ tick' \in [Tick -> {"off", "empty", "scored"}]
        /\ fresh' \in BOOLEAN /\ watching' \in BOOLEAN /\ raised' \in BOOLEAN /\ barren' \in BOOLEAN
    BY <2>2, <2>3, Zenon
  <2>4. CASE ~watching \/ fresh
    <3>1. consecutive' = 0 /\ barren' = FALSE /\ raised' = FALSE
      BY <2>2, <2>3, <2>4
    <3>2. Credited'
      BY <2>1, <3>1 DEF Credited
    <3>3. consecutive' \in Nat
      BY <3>1
    <3> QED
      BY <2>0, <3>1, <3>2, <3>3, Zenon DEF BlindInv
  <2>5. CASE watching /\ ~fresh /\ barren'
    <3>1. consecutive' \in Nat /\ consecutive' # 0
      BY <2>1, <2>2, <2>3, <2>5
    <3> QED
      BY <2>0, <2>5, <3>1, Zenon DEF BlindInv
  <2>6. CASE watching /\ ~fresh /\ ~barren'
    <3>1. tick[t] = "scored" /\ ~barren
      BY <2>2, <2>3, <2>6
    <3>2. t \in Scorers
      BY <3>1 DEF Scorers
    <3>3. consecutive + K < N
      BY <2>6, <3>1, <3>2 DEF BlindInv, Credited
    <3>4. consecutive' = consecutive + 1 /\ consecutive' < N
      BY <2>1, <2>2, <2>3, <2>6, <3>2, <3>3
    <3>5. Credited'
      BY <2>1, <2>3, <3>2, <3>3, <3>4 DEF Credited
    <3>6. raised' = FALSE
      BY <2>1, <2>2, <2>3, <3>4
    <3>7. consecutive' \in Nat
      BY <2>3, <3>4
    <3> QED
      BY <2>0, <2>6, <3>5, <3>6, <3>7, Zenon DEF BlindInv
  <2> QED
    BY <2>2, <2>3, <2>4, <2>5, <2>6
<1>2. ASSUME NEW t \in Tick, Blind!StartTick(t) PROVE BlindInv'
  <2>1. Scorers' = Scorers
    BY <1>2 DEF Scorers, Blind!StartTick, BlindInv
  <2>2. Credited' = Credited
    BY <1>2, <2>1 DEF Credited, Blind!StartTick
  <2> QED
    BY <1>2, <2>2 DEF BlindInv, Blind!StartTick
<1>3. ASSUME NEW t \in Tick, Blind!ScoreLegs(t) PROVE BlindInv'
  BY <1>3 DEF BlindInv, Blind!ScoreLegs
<1>4. CASE Blind!Reload \/ UNCHANGED Blind!vars
  <2>1. Scorers' = Scorers
    BY <1>4 DEF Scorers, Blind!Reload, Blind!vars
  <2>2. Credited' = Credited
    BY <1>4, <2>1 DEF Credited, Blind!Reload, Blind!vars
  <2>3. /\ UNCHANGED <<tick, fresh, consecutive, raised, barren>>
        /\ watching \in BOOLEAN => watching' \in BOOLEAN
    BY <1>4, Zenon DEF Blind!Reload, Blind!vars
  <2> QED
    BY <2>2, <2>3, Zenon DEF BlindInv
<1> QED
  BY <1>1, <1>2, <1>3, <1>4 DEF Blind!Next

(* The page that the loop is blind is raised only when some tick of the    *)
(* run scored nothing, whatever ticks overlap and credit each other with   *)
(* their legs, as long as no more than SCORING_BLIND_TICKS of them do      *)
(* (runTick in scripts/watch-worker.ts, server/scoringBlind.ts).           *)
THEOREM BlindPagesAreReal ==
  ASSUME IsFiniteSet(Tick), Cardinality(Tick) <= Threshold
  PROVE  Spec => []BlindIsReal
<1> Threshold \in Nat
  BY ServiceConstants
<1> DEFINE IInv == focus = "blind" => BlindInv
<1>1. Init => IInv
  <2>1. ASSUME Blind!Init PROVE BlindInv
    <3>1. Scorers = {}
      BY <2>1 DEF Scorers, Blind!Init
    <3> QED
      BY <2>1, <3>1 DEF BlindInv, Credited, Blind!Init
  <2> QED
    BY <2>1 DEF Init
<1>2. IInv /\ [Next]_vars => IInv'
  <2>1. ASSUME focus = "blind", [Next]_vars PROVE [Blind!Next]_(Blind!vars)
    BY <2>1 DEF Next, vars, blindVars, Blind!vars
  <2>2. ASSUME [Next]_vars PROVE focus' = focus
    BY <2>2 DEF Next, Others, vars
  <2> QED
    BY <2>1, <2>2, BlindKept
<1>3. IInv => BlindIsReal
  BY DEF BlindInv, Blind!BlindIsReal, BlindIsReal
<1> QED
  BY <1>1, <1>2, <1>3, PTL DEF Spec

----------------------------------------------------------------------------
(* Trials.                                                                 *)

Clock       == Int \union {Nothing}
GrantRow    == [id : Nat, opened : Clock, expires : Clock]
MemberRow   == [status : {"trial", "lapsed"}, card : Card, expires : Clock]
Redemption  == [at : {"idle", "redeem", "open", "create", "conflict", "renew"},
                user : User \union {Nothing}, card : Card \union {Nothing},
                token : Nat, expires : Clock, row : Nat]
EndRequest  == [at : {"idle", "end", "find", "close"}, user : User \union {Nothing},
                card : Card \union {Nothing}, row : Nat, id : Nat, time : Int, opened : Clock]
Counts      == [User -> [Card -> Nat]]

(* What a request under way has already learnt.                            *)
Knows(x) ==
  /\ x.at # "idle" => x.user \in User /\ x.card \in Card
  /\ x.at = "open" => x.token # 0
  /\ x.at = "renew" => x.row \in 1 .. Len(rows[x.user])

EndKnows(x) ==
  /\ x.at # "idle" => x.user \in User /\ x.time <= now
  /\ x.at = "end" => x.row \in 1 .. Len(rows[x.user])
  /\ x.at \in {"find", "close"} => x.card \in Card
  /\ x.at = "close" => x.id # 0

TrialShape ==
  /\ now \in Int
  /\ card \in [Card -> [count : Nat, active : BOOLEAN]]
  /\ grant \in [User -> [Card -> GrantRow]]
  /\ rows \in [User -> Seq(MemberRow)]
  /\ req \in [Request -> Redemption] /\ \A r \in Request : Knows(req[r])
  /\ ending \in EndRequest /\ EndKnows(ending)
  /\ minted \in Counts /\ usesCleared \in Counts /\ retired \in Counts
  /\ bought \in [User -> [Card -> Int]]

(* A grant that was minted is there, was cleared or was retired.           *)
Minted(u, c) ==
  /\ grant[u][c].id = 0 => grant[u][c].expires = Nothing
  /\ minted[u][c] = usesCleared[u][c] + retired[u][c] + IF grant[u][c].id = 0 THEN 0 ELSE 1

CountInv ==
  /\ \A c \in Card : card[c].count <= Slots[c]
  /\ \A u \in User, c \in Card : Minted(u, c)

(* An expiry that is written down is no later than what was bought, or has *)
(* passed: the operator ends a trial as of now, which buys nothing.        *)
Fair(u, c, t) == t # Nothing => t <= bought[u][c] \/ t <= now

FairInv ==
  /\ \A u \in User, c \in Card : Fair(u, c, grant[u][c].expires)
  /\ \A r \in Request : req[r].at \in {"create", "conflict", "renew"} =>
       Fair(req[r].user, req[r].card, req[r].expires)
  /\ \A u \in User : \A i \in 1 .. Len(rows[u]) : Fair(u, rows[u][i].card, rows[u][i].expires)

TrialInv == TrialShape /\ CountInv /\ FairInv

(* A table with one entry rewritten.                                       *)
LEMMA TableEdit ==
  ASSUME NEW S, NEW T \in [User -> [Card -> S]], NEW u \in User, NEW c \in Card, NEW x \in S
  PROVE  /\ [T EXCEPT ![u][c] = x] \in [User -> [Card -> S]]
         /\ [T EXCEPT ![u][c] = x][u][c] = x
         /\ \A v \in User, d \in Card : v # u \/ d # c => [T EXCEPT ![u][c] = x][v][d] = T[v][d]
OBVIOUS

(* A list with one row rewritten.                                          *)
LEMMA RowEdit ==
  ASSUME NEW u \in User, NEW i \in 1 .. Len(rows[u]), NEW x \in MemberRow,
         rows \in [User -> Seq(MemberRow)], rows' = [rows EXCEPT ![u][i] = x]
  PROVE  /\ rows' \in [User -> Seq(MemberRow)]
         /\ \A v \in User : Len(rows'[v]) = Len(rows[v])
         /\ rows'[u][i] = x
         /\ \A v \in User : \A j \in 1 .. Len(rows[v]) : v # u \/ j # i => rows'[v][j] = rows[v][j]
<1>1. rows[u] \in Seq(MemberRow) /\ rows'[u] = [rows[u] EXCEPT ![i] = x]
  OBVIOUS
<1>2. /\ rows'[u] \in Seq(MemberRow) /\ Len(rows'[u]) = Len(rows[u])
      /\ \A j \in 1 .. Len(rows[u]) : rows'[u][j] = IF j = i THEN x ELSE rows[u][j]
  BY <1>1, ExceptSeq
<1> QED
  BY <1>2

(* A list with one row more.                                               *)
LEMMA RowAdded ==
  ASSUME NEW u \in User, NEW x \in MemberRow,
         rows \in [User -> Seq(MemberRow)], rows' = [rows EXCEPT ![u] = Append(@, x)]
  PROVE  /\ rows' \in [User -> Seq(MemberRow)]
         /\ \A v \in User : Len(rows[v]) <= Len(rows'[v])
         /\ \A v \in User : \A j \in 1 .. Len(rows'[v]) :
              (v = u /\ rows'[v][j] = x) \/ (j \in 1 .. Len(rows[v]) /\ rows'[v][j] = rows[v][j])
<1>1. rows[u] \in Seq(MemberRow) /\ rows'[u] = Append(rows[u], x)
  OBVIOUS
<1>2. /\ rows'[u] \in Seq(MemberRow) /\ Len(rows'[u]) = Len(rows[u]) + 1 /\ Len(rows[u]) \in Nat
      /\ rows'[u][Len(rows[u]) + 1] = x
      /\ \A j \in 1 .. Len(rows[u]) : rows'[u][j] = rows[u][j]
  BY <1>1, AppendProperties
<1>3. \A j \in 1 .. Len(rows'[u]) : j \in 1 .. Len(rows[u]) \/ j = Len(rows[u]) + 1
  BY <1>2
<1>4. \A v \in User : v # u => rows'[v] = rows[v]
  OBVIOUS
<1>5. \A v \in User : Len(rows[v]) \in Nat
  OBVIOUS
<1> QED
  BY <1>2, <1>3, <1>4, <1>5

(* The empty records.                                                      *)
LEMMA Blank ==
  /\ Trials!NoReq \in Redemption /\ Trials!NoReq.at = "idle"
  /\ Trials!NoGrant \in GrantRow /\ Trials!NoGrant.id = 0 /\ Trials!NoGrant.expires = Nothing
  /\ Trials!NoEnding \in EndRequest /\ Trials!NoEnding.at = "idle"
<1>1. Nothing \in Clock
  BY DEF Clock
<1>2. Trials!NoReq \in Redemption /\ Trials!NoReq.at = "idle"
  BY <1>1 DEF Redemption, Trials!NoReq
<1>3. Trials!NoGrant \in GrantRow /\ Trials!NoGrant.id = 0 /\ Trials!NoGrant.expires = Nothing
  BY <1>1 DEF GrantRow, Trials!NoGrant
<1>4. Trials!NoEnding \in EndRequest /\ Trials!NoEnding.at = "idle"
  BY <1>1 DEF EndRequest, Trials!NoEnding
<1> QED
  BY <1>2, <1>3, <1>4

(* The ways in which a redemption's record is written.                     *)
LEMMA RedemptionEdits ==
  /\ \A u \in User, c \in Card :
       LET y == [Trials!NoReq EXCEPT !.at = "redeem", !.user = u, !.card = c]
       IN  y \in Redemption /\ y.at = "redeem" /\ y.user = u /\ y.card = c
  /\ \A x \in Redemption, n \in Nat :
       LET y == [x EXCEPT !.at = "open", !.token = n]
       IN  y \in Redemption /\ y.at = "open" /\ y.user = x.user /\ y.card = x.card /\ y.token = n
  /\ \A x \in Redemption, t \in Clock :
       LET y == [x EXCEPT !.at = "create", !.token = 0, !.expires = t]
       IN  y \in Redemption /\ y.at = "create" /\ y.user = x.user /\ y.card = x.card /\ y.expires = t
  /\ \A x \in Redemption :
       LET y == [x EXCEPT !.at = "conflict"]
       IN  y \in Redemption /\ y.at = "conflict" /\ y.user = x.user /\ y.card = x.card /\ y.expires = x.expires
  /\ \A x \in Redemption, i \in Nat :
       LET y == [x EXCEPT !.at = "renew", !.row = i]
       IN  /\ y \in Redemption /\ y.at = "renew" /\ y.user = x.user /\ y.card = x.card
           /\ y.expires = x.expires /\ y.row = i
<1>2. ASSUME NEW u \in User, NEW c \in Card
      PROVE  LET y == [Trials!NoReq EXCEPT !.at = "redeem", !.user = u, !.card = c]
             IN  y \in Redemption /\ y.at = "redeem" /\ y.user = u /\ y.card = c
  BY Blank DEF Redemption
<1>3. ASSUME NEW x \in Redemption, NEW n \in Nat
      PROVE  LET y == [x EXCEPT !.at = "open", !.token = n]
             IN  y \in Redemption /\ y.at = "open" /\ y.user = x.user /\ y.card = x.card /\ y.token = n
  BY DEF Redemption
<1>4. ASSUME NEW x \in Redemption, NEW t \in Clock
      PROVE  LET y == [x EXCEPT !.at = "create", !.token = 0, !.expires = t]
             IN  y \in Redemption /\ y.at = "create" /\ y.user = x.user /\ y.card = x.card /\ y.expires = t
  BY DEF Redemption
<1>5. ASSUME NEW x \in Redemption
      PROVE  LET y == [x EXCEPT !.at = "conflict"]
             IN  y \in Redemption /\ y.at = "conflict" /\ y.user = x.user /\ y.card = x.card /\ y.expires = x.expires
  BY DEF Redemption
<1>6. ASSUME NEW x \in Redemption, NEW i \in Nat
      PROVE  LET y == [x EXCEPT !.at = "renew", !.row = i]
             IN  /\ y \in Redemption /\ y.at = "renew" /\ y.user = x.user /\ y.card = x.card
                 /\ y.expires = x.expires /\ y.row = i
  BY DEF Redemption
<1> QED
  BY <1>2, <1>3, <1>4, <1>5, <1>6

(* The ways in which a grant and the operator's request are written.       *)
LEMMA GrantEdits ==
  /\ \A n \in Nat : LET y == [Trials!NoGrant EXCEPT !.id = n]
                    IN  y \in GrantRow /\ y.id = n /\ y.expires = Nothing
  /\ \A g \in GrantRow, s, t \in Clock :
       LET y == [g EXCEPT !.opened = s, !.expires = t]
       IN  y \in GrantRow /\ y.id = g.id /\ y.expires = t
  /\ \A g \in GrantRow, s, t \in Clock :
       LET y == [g EXCEPT !.expires = t, !.opened = s]
       IN  y \in GrantRow /\ y.id = g.id /\ y.expires = t
  /\ \A m \in MemberRow, t \in Clock :
       LET y == [m EXCEPT !.status = "lapsed", !.expires = t]
       IN  y \in MemberRow /\ y.card = m.card /\ y.expires = t
  /\ \A u \in User, i \in Nat, t \in Int :
       LET y == [Trials!NoEnding EXCEPT !.at = "end", !.user = u, !.row = i, !.time = t]
       IN  y \in EndRequest /\ y.at = "end" /\ y.user = u /\ y.row = i /\ y.time = t
  /\ \A x \in EndRequest, c \in Card :
       LET y == [x EXCEPT !.at = "find", !.card = c, !.row = 0]
       IN  y \in EndRequest /\ y.at = "find" /\ y.user = x.user /\ y.card = c /\ y.time = x.time
  /\ \A x \in EndRequest, n \in Nat, t \in Clock :
       LET y == [x EXCEPT !.at = "close", !.id = n, !.opened = t]
       IN  /\ y \in EndRequest /\ y.at = "close" /\ y.user = x.user /\ y.card = x.card
           /\ y.time = x.time /\ y.id = n
<1>1. Trials!NoGrant \in GrantRow /\ Trials!NoGrant.expires = Nothing /\ Trials!NoEnding \in EndRequest
  BY Blank
<1>2. \A n \in Nat : LET y == [Trials!NoGrant EXCEPT !.id = n]
                     IN  y \in GrantRow /\ y.id = n /\ y.expires = Nothing
  BY <1>1 DEF GrantRow
<1>3. ASSUME NEW g \in GrantRow, NEW s \in Clock, NEW t \in Clock
      PROVE  LET y == [g EXCEPT !.opened = s, !.expires = t]
             IN  y \in GrantRow /\ y.id = g.id /\ y.expires = t
  BY DEF GrantRow
<1>8. ASSUME NEW g \in GrantRow, NEW s \in Clock, NEW t \in Clock
      PROVE  LET y == [g EXCEPT !.expires = t, !.opened = s]
             IN  y \in GrantRow /\ y.id = g.id /\ y.expires = t
  BY DEF GrantRow
<1>4. ASSUME NEW m \in MemberRow, NEW t \in Clock
      PROVE  LET y == [m EXCEPT !.status = "lapsed", !.expires = t]
             IN  y \in MemberRow /\ y.card = m.card /\ y.expires = t
  BY DEF MemberRow
<1>5. ASSUME NEW u \in User, NEW i \in Nat, NEW t \in Int
      PROVE  LET y == [Trials!NoEnding EXCEPT !.at = "end", !.user = u, !.row = i, !.time = t]
             IN  y \in EndRequest /\ y.at = "end" /\ y.user = u /\ y.row = i /\ y.time = t
  BY <1>1 DEF EndRequest
<1>6. ASSUME NEW x \in EndRequest, NEW c \in Card
      PROVE  LET y == [x EXCEPT !.at = "find", !.card = c, !.row = 0]
             IN  y \in EndRequest /\ y.at = "find" /\ y.user = x.user /\ y.card = c /\ y.time = x.time
  BY DEF EndRequest
<1>7. ASSUME NEW x \in EndRequest, NEW n \in Nat, NEW t \in Clock
      PROVE  LET y == [x EXCEPT !.at = "close", !.id = n, !.opened = t]
             IN  /\ y \in EndRequest /\ y.at = "close" /\ y.user = x.user /\ y.card = x.card
                 /\ y.time = x.time /\ y.id = n
  BY DEF EndRequest
<1> QED
  BY <1>2, <1>3, <1>4, <1>5, <1>6, <1>7, <1>8

(* What a request knows stays true while time and the lists grow.          *)
LEMMA StillKnows ==
  ASSUME rows \in [User -> Seq(MemberRow)], rows' \in [User -> Seq(MemberRow)],
         \A v \in User : Len(rows[v]) <= Len(rows'[v]), now \in Int, now' \in Int, now <= now'
  PROVE  /\ \A x \in Redemption : Knows(x) => Knows(x)'
         /\ \A x \in EndRequest : EndKnows(x) => EndKnows(x)'
<1>1. \A v \in User : Len(rows[v]) \in Nat /\ Len(rows'[v]) \in Nat
  OBVIOUS
<1>2. ASSUME NEW x \in Redemption, Knows(x) PROVE Knows(x)'
  <2>1. x.at = "renew" => x.row \in 1 .. Len(rows'[x.user])
    BY <1>1, <1>2 DEF Knows, Redemption
  <2> QED
    BY <1>2, <2>1 DEF Knows
<1>3. ASSUME NEW x \in EndRequest, EndKnows(x) PROVE EndKnows(x)'
  <2>1. x.at = "end" => x.row \in 1 .. Len(rows'[x.user])
    BY <1>1, <1>3 DEF EndKnows, EndRequest
  <2>2. x.at # "idle" => x.time <= now'
    BY <1>3 DEF EndKnows, EndRequest
  <2> QED
    BY <1>3, <2>1, <2>2 DEF EndKnows
<1> QED
  BY <1>2, <1>3

(* One request is written: the others know what they knew.                 *)
LEMMA RequestWritten ==
  ASSUME TrialShape, NEW r \in Request, NEW x \in Redemption, req' = [req EXCEPT ![r] = x], Knows(x)',
         rows' \in [User -> Seq(MemberRow)], \A v \in User : Len(rows[v]) <= Len(rows'[v]),
         UNCHANGED <<now, ending>>
  PROVE  /\ req' \in [Request -> Redemption] /\ \A q \in Request : Knows(req[q])'
         /\ ending' \in EndRequest /\ EndKnows(ending)'
         /\ req'[r] = x /\ \A q \in Request \ {r} : req'[q] = req[q]
<1>1. req \in [Request -> Redemption] /\ ending \in EndRequest /\ EndKnows(ending)
      /\ \A q \in Request : Knows(req[q])
  BY DEF TrialShape
<1>2. req' \in [Request -> Redemption] /\ req'[r] = x /\ \A q \in Request \ {r} : req'[q] = req[q]
  BY <1>1
<1>3. /\ \A y \in Redemption : Knows(y) => Knows(y)'
      /\ \A y \in EndRequest : EndKnows(y) => EndKnows(y)'
  BY StillKnows DEF TrialShape
<1>4. ASSUME NEW q \in Request PROVE Knows(req[q])'
  <2>1. CASE q = r
    BY <1>2, <2>1 DEF Knows
  <2>2. CASE q # r
    <3>1. PICK y \in Redemption : y = req[q] /\ Knows(y)
      BY <1>1
    <3>2. Knows(y)' /\ req'[q] = y
      BY <1>2, <1>3, <2>2, <3>1
    <3> QED
      BY <3>2 DEF Knows
  <2> QED
    BY <2>1, <2>2
<1>5. EndKnows(ending)'
  <2>1. PICK y \in EndRequest : y = ending /\ EndKnows(y)
    BY <1>1
  <2>2. EndKnows(y)' /\ ending' = y
    BY <1>3, <2>1
  <2> QED
    BY <2>2 DEF EndKnows
<1> QED
  BY <1>1, <1>2, <1>4, <1>5

(* A request under way is of an account and a card.                        *)
LEMMA UnderWay ==
  ASSUME TrialShape, NEW r \in Request, req[r].at # "idle"
  PROVE  \E u \in User, c \in Card : req[r].user = u /\ req[r].card = c
BY DEF TrialShape, Knows

(* One more redemption is counted against one card.                        *)
LEMMA CountUp ==
  ASSUME card \in [Card -> [count : Nat, active : BOOLEAN]], NEW c \in Card,
         card' = [card EXCEPT ![c].count = @ + 1]
  PROVE  /\ card' \in [Card -> [count : Nat, active : BOOLEAN]]
         /\ card'[c].count = card[c].count + 1 /\ \A d \in Card \ {c} : card'[d] = card[d]
<1> DEFINE y == [card[c] EXCEPT !.count = @ + 1]
<1>1. y \in [count : Nat, active : BOOLEAN] /\ y.count = card[c].count + 1
  OBVIOUS
<1>2. card' = [card EXCEPT ![c] = y]
  OBVIOUS
<1> HIDE DEF y
<1> QED
  BY <1>1, <1>2

(* What redeem_campaign_code does: a slot is counted and a grant minted    *)
(* together, or neither; the request goes on with a token or is told no.   *)
LEMMA RedeemEffect ==
  ASSUME TrialShape, NEW r \in Request, Trials!Redeem(r), NEW u \in User, NEW c \in Card,
         req[r].user = u, req[r].card = c
  PROVE  /\ TrialShape'
         /\ UNCHANGED <<now, rows, ending, usesCleared, retired, bought>>
         /\ req'[r].at \in {"open", "idle"} /\ \A q \in Request \ {r} : req'[q] = req[q]
         /\ \/ UNCHANGED <<card, grant, minted>>
            \/ /\ grant[u][c].id = 0 /\ card[c].count < Slots[c]
               /\ card'[c].count = card[c].count + 1 /\ \A d \in Card \ {c} : card'[d] = card[d]
               /\ grant'[u][c].id # 0 /\ grant'[u][c].expires = Nothing
               /\ minted'[u][c] = minted[u][c] + 1
               /\ \A v \in User, d \in Card : v # u \/ d # c =>
                    grant'[v][d] = grant[v][d] /\ minted'[v][d] = minted[v][d]
<1> DEFINE id == minted[u][c] + 1
<1>0. req \in [Request -> Redemption] /\ req[r] \in Redemption /\ req[r].at = "redeem"
  BY DEF TrialShape, Trials!Redeem
<1>1. /\ card \in [Card -> [count : Nat, active : BOOLEAN]] /\ grant \in [User -> [Card -> GrantRow]]
      /\ minted \in [User -> [Card -> Nat]] /\ rows \in [User -> Seq(MemberRow)]
  BY DEF TrialShape, Counts
<1>2. grant[u][c].id \in Nat /\ minted[u][c] \in Nat /\ id \in Nat /\ id # 0
  <2>1. minted[u][c] \in Nat /\ grant[u][c] \in GrantRow
    BY <1>1
  <2> QED
    BY <2>1 DEF GrantRow
<1>3. UNCHANGED <<now, rows, ending, usesCleared, retired, bought>>
  BY DEF Trials!Redeem
<1>4. \/ /\ grant[u][c].id = 0 /\ card[c].count < Slots[c]
         /\ card' = [card EXCEPT ![c].count = @ + 1]
         /\ grant' = [grant EXCEPT ![u][c] = [Trials!NoGrant EXCEPT !.id = id]]
         /\ minted' = [minted EXCEPT ![u][c] = id]
         /\ req' = [req EXCEPT ![r] = [req[r] EXCEPT !.at = "open", !.token = id]]
      \/ /\ grant[u][c].id # 0
         /\ req' = [req EXCEPT ![r] = [req[r] EXCEPT !.at = "open", !.token = grant[u][c].id]]
         /\ UNCHANGED <<card, grant, minted>>
      \/ /\ req' = [req EXCEPT ![r] = Trials!NoReq]
         /\ UNCHANGED <<card, grant, minted>>
  BY <1>0 DEF Trials!Redeem, Trials!Mints, Trials!HandBack
<1> HIDE DEF id
<1>5. PICK x \in Redemption : /\ req' = [req EXCEPT ![r] = x] /\ x.at \in {"open", "idle"}
                              /\ x.at = "open" => x.user = u /\ x.card = c /\ x.token # 0
  <2>1. ASSUME NEW n \in Nat, n # 0, req' = [req EXCEPT ![r] = [req[r] EXCEPT !.at = "open", !.token = n]]
        PROVE  \E x \in Redemption : /\ req' = [req EXCEPT ![r] = x] /\ x.at \in {"open", "idle"}
                                     /\ x.at = "open" => x.user = u /\ x.card = c /\ x.token # 0
    <3> DEFINE y == [req[r] EXCEPT !.at = "open", !.token = n]
    <3>0. req[r].user = u /\ req[r].card = c
      OBVIOUS
    <3>1. y \in Redemption /\ y.at = "open" /\ y.user = u /\ y.card = c /\ y.token = n
      BY <1>0, <3>0 DEF Redemption
    <3>2. req' = [req EXCEPT ![r] = y]
      BY <2>1
    <3> HIDE DEF y
    <3> QED
      BY <2>1, <3>1, <3>2
  <2>2. CASE req' = [req EXCEPT ![r] = Trials!NoReq]
    BY <2>2, Blank
  <2> QED
    BY <1>2, <1>4, <2>1, <2>2
<1>6. Knows(x)'
  BY <1>5 DEF Knows
<1>7. rows' \in [User -> Seq(MemberRow)] /\ \A v \in User : Len(rows[v]) <= Len(rows'[v])
  BY <1>1, <1>3
<1>8. /\ req' \in [Request -> Redemption] /\ \A q \in Request : Knows(req[q])'
      /\ ending' \in EndRequest /\ EndKnows(ending)'
      /\ req'[r] = x /\ \A q \in Request \ {r} : req'[q] = req[q]
  BY <1>3, <1>5, <1>6, <1>7, RequestWritten
<1>9. CASE UNCHANGED <<card, grant, minted>>
  BY <1>3, <1>5, <1>8, <1>9 DEF TrialShape
<1>10. CASE /\ grant[u][c].id = 0 /\ card[c].count < Slots[c]
            /\ card' = [card EXCEPT ![c].count = @ + 1]
            /\ grant' = [grant EXCEPT ![u][c] = [Trials!NoGrant EXCEPT !.id = id]]
            /\ minted' = [minted EXCEPT ![u][c] = id]
  <2> DEFINE g == [Trials!NoGrant EXCEPT !.id = id]
  <2>1. g \in GrantRow /\ g.id = id /\ g.expires = Nothing
    BY <1>2, GrantEdits
  <2>2. grant' = [grant EXCEPT ![u][c] = g] /\ minted' = [minted EXCEPT ![u][c] = id]
    BY <1>10
  <2> HIDE DEF g
  <2>3. /\ grant' \in [User -> [Card -> GrantRow]] /\ grant'[u][c] = g
        /\ \A v \in User, d \in Card : v # u \/ d # c => grant'[v][d] = grant[v][d]
    BY <1>1, <2>1, <2>2, TableEdit
  <2>4. /\ minted' \in [User -> [Card -> Nat]] /\ minted'[u][c] = id
        /\ \A v \in User, d \in Card : v # u \/ d # c => minted'[v][d] = minted[v][d]
    BY <1>1, <1>2, <2>2, TableEdit
  <2>5. /\ card' \in [Card -> [count : Nat, active : BOOLEAN]]
        /\ card'[c].count = card[c].count + 1 /\ \A d \in Card \ {c} : card'[d] = card[d]
    BY <1>1, <1>10, CountUp
  <2>6. TrialShape'
    BY <1>3, <1>8, <2>3, <2>4, <2>5 DEF TrialShape, Counts
  <2>7. minted'[u][c] = minted[u][c] + 1 /\ grant'[u][c].id # 0 /\ grant'[u][c].expires = Nothing
    BY <1>2, <2>1, <2>3, <2>4 DEF id
  <2> QED
    BY <1>3, <1>5, <1>8, <1>10, <2>3, <2>4, <2>5, <2>6, <2>7
<1> QED
  BY <1>4, <1>9, <1>10

(* Fairness stays while time passes and more is bought.                    *)
LEMMA FairStill ==
  ASSUME now \in Int, now' \in Int, now <= now',
         bought \in [User -> [Card -> Int]], bought' \in [User -> [Card -> Int]],
         \A v \in User, d \in Card : bought[v][d] <= bought'[v][d]
  PROVE  \A u \in User, c \in Card, t \in Clock : Fair(u, c, t) => Fair(u, c, t)'
<1>1. \A v \in User, d \in Card : bought[v][d] \in Int /\ bought'[v][d] \in Int
  OBVIOUS
<1> SUFFICES ASSUME NEW u \in User, NEW c \in Card, NEW t \in Clock, Fair(u, c, t)
             PROVE  Fair(u, c, t)'
  OBVIOUS
<1>2. bought[u][c] \in Int /\ bought'[u][c] \in Int /\ bought[u][c] <= bought'[u][c]
  BY <1>1
<1>3. t # Nothing => t \in Int
  BY DEF Clock
<1> QED
  BY <1>2, <1>3 DEF Fair

(* The parts of the record that fairness reads.                            *)
LEMMA ClocksTyped ==
  ASSUME TrialShape
  PROVE  /\ \A u \in User, c \in Card : grant[u][c].expires \in Clock
         /\ \A r \in Request : req[r].expires \in Clock
         /\ \A r \in Request : req[r].at # "idle" => req[r].user \in User /\ req[r].card \in Card
         /\ \A u \in User : \A i \in 1 .. Len(rows[u]) :
              rows[u][i] \in MemberRow /\ rows[u][i].card \in Card /\ rows[u][i].expires \in Clock
<1>1. \A u \in User, c \in Card : grant[u][c] \in GrantRow
  BY DEF TrialShape
<1>2. \A r \in Request : req[r] \in Redemption /\ Knows(req[r])
  BY DEF TrialShape
<1>3. ASSUME NEW u \in User, NEW i \in 1 .. Len(rows[u]) PROVE rows[u][i] \in MemberRow
  <2>1. rows[u] \in Seq(MemberRow)
    BY DEF TrialShape
  <2> QED
    BY <2>1, ElementOfSeq
<1> QED
  BY <1>1, <1>2, <1>3 DEF GrantRow, Redemption, MemberRow, Knows

(* A step that writes one request and nothing else.                        *)
LEMMA RequestStep ==
  ASSUME TrialInv, NEW r \in Request, NEW x \in Redemption, req' = [req EXCEPT ![r] = x], Knows(x),
         x.at \in {"create", "conflict", "renew"} => Fair(x.user, x.card, x.expires),
         UNCHANGED <<now, card, grant, rows, ending, Trials!history>>
  PROVE  TrialInv'
<1>0. TrialShape /\ CountInv /\ FairInv
  BY DEF TrialInv
<1>1. UNCHANGED <<now, card, grant, rows, ending, minted, usesCleared, retired, bought>>
  BY DEF Trials!history
<1>2. Knows(x)'
  BY <1>1 DEF Knows
<1>3. rows' \in [User -> Seq(MemberRow)] /\ \A v \in User : Len(rows[v]) <= Len(rows'[v])
  BY <1>0, <1>1 DEF TrialShape
<1>4. /\ req' \in [Request -> Redemption] /\ \A q \in Request : Knows(req[q])'
      /\ ending' \in EndRequest /\ EndKnows(ending)'
      /\ req'[r] = x /\ \A q \in Request \ {r} : req'[q] = req[q]
  BY <1>0, <1>1, <1>2, <1>3, RequestWritten
<1>5. TrialShape'
  BY <1>0, <1>1, <1>4 DEF TrialShape
<1>6. CountInv'
  BY <1>0, <1>1 DEF CountInv, Minted
<1>7. ASSUME NEW q \in Request, req'[q].at \in {"create", "conflict", "renew"}
      PROVE  Fair(req'[q].user, req'[q].card, req'[q].expires)
  BY <1>0, <1>4, <1>7 DEF FairInv
<1>8. FairInv'
  BY <1>0, <1>1, <1>7 DEF FairInv, Fair
<1> QED
  BY <1>5, <1>6, <1>8 DEF TrialInv

(* The steps of a redemption, one lemma for each: submitted,               *)
LEMMA SubmitKeeps ==
  ASSUME TrialInv, NEW r \in Request, NEW u \in User, NEW c \in Card, Trials!Submit(r, u, c)
  PROVE  TrialInv'
<1> DEFINE x == [Trials!NoReq EXCEPT !.at = "redeem", !.user = u, !.card = c]
<1>1. x \in Redemption /\ x.at = "redeem" /\ x.user = u /\ x.card = c
  BY RedemptionEdits
<1>2. req' = [req EXCEPT ![r] = x] /\ UNCHANGED <<now, card, grant, rows, ending, Trials!history>>
  BY DEF Trials!Submit
<1> HIDE DEF x
<1>3. Knows(x)
  BY <1>1 DEF Knows
<1> QED
  BY <1>1, <1>2, <1>3, RequestStep

(* given up,                                                               *)
LEMMA AbandonKeeps ==
  ASSUME TrialInv, NEW r \in Request, Trials!Abandon(r)
  PROVE  TrialInv'
<1>1. Trials!NoReq \in Redemption /\ Trials!NoReq.at = "idle"
  BY Blank
<1>2. req' = [req EXCEPT ![r] = Trials!NoReq]
      /\ UNCHANGED <<now, card, grant, rows, ending, Trials!history>>
  BY DEF Trials!Abandon
<1>3. Knows(Trials!NoReq)
  BY <1>1 DEF Knows
<1> QED
  BY <1>1, <1>2, <1>3, RequestStep

(* in conflict with a membership that has run out,                         *)
LEMMA SlotKeeps ==
  ASSUME TrialInv, NEW r \in Request, Trials!SlotMembership(r)
  PROVE  TrialInv'
<1>1. TrialShape /\ FairInv /\ req[r].at = "conflict" /\ req[r] \in Redemption
  BY DEF TrialInv, TrialShape, Trials!SlotMembership
<1>2. PICK u \in User, c \in Card : req[r].user = u /\ req[r].card = c
  BY <1>1, UnderWay
<1>3. Fair(u, c, req[r].expires)
  BY <1>1, <1>2 DEF FairInv
<1>4. CASE req' = [req EXCEPT ![r] = Trials!NoReq]
  <2>1. Trials!NoReq \in Redemption /\ Trials!NoReq.at = "idle"
    BY Blank
  <2>2. Knows(Trials!NoReq)
    BY <2>1 DEF Knows
  <2> QED
    BY <1>4, <2>1, <2>2, RequestStep DEF Trials!SlotMembership
<1>5. ASSUME NEW i \in Trials!Holding(u) \ Trials!LiveRows(u),
             req' = [req EXCEPT ![r] = [req[r] EXCEPT !.at = "renew", !.row = i]]
      PROVE  TrialInv'
  <2> DEFINE x == [req[r] EXCEPT !.at = "renew", !.row = i]
  <2>1. i \in 1 .. Len(rows[u]) /\ Len(rows[u]) \in Nat
    BY <1>1 DEF Trials!Holding, TrialShape
  <2>2. i \in Nat
    BY <2>1
  <2>3. x \in Redemption /\ x.at = "renew" /\ x.user = u /\ x.card = c
        /\ x.expires = req[r].expires /\ x.row = i
    BY <1>1, <1>2, <2>2 DEF Redemption
  <2>4. req' = [req EXCEPT ![r] = x]
    BY <1>5
  <2> HIDE DEF x
  <2>5. Knows(x) /\ Fair(x.user, x.card, x.expires)
    BY <1>3, <2>1, <2>3 DEF Knows
  <2> QED
    BY <2>3, <2>4, <2>5, RequestStep DEF Trials!SlotMembership
<1>6. \/ \E i \in Trials!Holding(u) \ Trials!LiveRows(u) :
           req' = [req EXCEPT ![r] = [req[r] EXCEPT !.at = "renew", !.row = i]]
      \/ req' = [req EXCEPT ![r] = Trials!NoReq]
  BY <1>1, <1>2 DEF Trials!SlotMembership, TrialShape
<1> QED
  BY <1>4, <1>5, <1>6

(* A step on the lists of memberships.                                     *)
LEMMA RowsStep ==
  ASSUME TrialInv, rows' \in [User -> Seq(MemberRow)],
         \A v \in User : \A j \in 1 .. Len(rows'[v]) : Fair(v, rows'[v][j].card, rows'[v][j].expires),
         UNCHANGED <<now, card, grant, Trials!history>>,
         req' \in [Request -> Redemption], \A q \in Request : Knows(req[q])',
         \A q \in Request : req'[q] = req[q] \/ req'[q].at = "idle",
         ending' \in EndRequest, EndKnows(ending)'
  PROVE  TrialInv'
<1>0. TrialShape /\ CountInv /\ FairInv
  BY DEF TrialInv
<1>1. UNCHANGED <<now, card, grant, minted, usesCleared, retired, bought>>
  BY DEF Trials!history
<1>2. TrialShape'
  BY <1>0, <1>1 DEF TrialShape
<1>3. CountInv'
  BY <1>0, <1>1 DEF CountInv, Minted
<1>4. \A q \in Request : req'[q].at \in {"create", "conflict", "renew"} =>
        Fair(req'[q].user, req'[q].card, req'[q].expires)
  BY <1>0 DEF FairInv
<1>5. FairInv'
  BY <1>0, <1>1, <1>4 DEF FairInv, Fair
<1> QED
  BY <1>2, <1>3, <1>5 DEF TrialInv

(* its membership created, or refused for the row in the way,              *)
LEMMA CreateKeeps ==
  ASSUME TrialInv, NEW r \in Request, Trials!CreateMembership(r)
  PROVE  TrialInv'
<1>1. TrialShape /\ FairInv /\ req[r].at = "create" /\ req[r] \in Redemption /\ req \in [Request -> Redemption]
  BY DEF TrialInv, TrialShape, Trials!CreateMembership
<1>2. PICK u \in User, c \in Card : req[r].user = u /\ req[r].card = c
  BY <1>1, UnderWay
<1>3. Fair(u, c, req[r].expires) /\ req[r].expires \in Clock
  BY <1>1, <1>2 DEF FairInv, Redemption
<1>4. UNCHANGED <<now, card, grant, ending, Trials!history>>
  BY DEF Trials!CreateMembership
<1>5. CASE rows' = [rows EXCEPT ![u] = Append(@, Trials!Row(r))] /\ req' = [req EXCEPT ![r] = Trials!NoReq]
  <2>1. PICK m : m = Trials!Row(r)
    OBVIOUS
  <2>2. m \in MemberRow /\ m.card = c /\ m.expires = req[r].expires
    BY <1>2, <1>3, <2>1 DEF MemberRow, Trials!Row
  <2>3. /\ rows' \in [User -> Seq(MemberRow)]
        /\ \A v \in User : Len(rows[v]) <= Len(rows'[v])
        /\ \A v \in User : \A j \in 1 .. Len(rows'[v]) :
             (v = u /\ rows'[v][j] = m) \/ (j \in 1 .. Len(rows[v]) /\ rows'[v][j] = rows[v][j])
    BY <1>1, <1>5, <2>1, <2>2, RowAdded DEF TrialShape
  <2>4. ASSUME NEW v \in User, NEW j \in 1 .. Len(rows'[v])
        PROVE  Fair(v, rows'[v][j].card, rows'[v][j].expires)
    <3>1. CASE v = u /\ rows'[v][j] = m
      BY <1>3, <2>2, <3>1
    <3>2. CASE j \in 1 .. Len(rows[v]) /\ rows'[v][j] = rows[v][j]
      BY <1>1, <3>2 DEF FairInv
    <3> QED
      BY <2>3, <3>1, <3>2
  <2>5. Trials!NoReq \in Redemption /\ Trials!NoReq.at = "idle"
    BY Blank
  <2>6. Knows(Trials!NoReq)'
    BY <2>5 DEF Knows
  <2>7. /\ req' \in [Request -> Redemption] /\ \A q \in Request : Knows(req[q])'
        /\ ending' \in EndRequest /\ EndKnows(ending)'
        /\ req'[r] = Trials!NoReq /\ \A q \in Request \ {r} : req'[q] = req[q]
    BY <1>1, <1>4, <1>5, <2>3, <2>5, <2>6, RequestWritten
  <2>8. \A q \in Request : req'[q] = req[q] \/ req'[q].at = "idle"
    BY <2>5, <2>7
  <2> QED
    BY <1>4, <2>3, <2>4, <2>7, <2>8, RowsStep
<1>6. CASE req' = [req EXCEPT ![r].at = "conflict"] /\ UNCHANGED rows
  <2> DEFINE x == [req[r] EXCEPT !.at = "conflict"]
  <2>1. x \in Redemption /\ x.at = "conflict" /\ x.user = u /\ x.card = c /\ x.expires = req[r].expires
    BY <1>1, <1>2 DEF Redemption
  <2>2. req' = [req EXCEPT ![r] = x]
    BY <1>6
  <2> HIDE DEF x
  <2>3. Knows(x) /\ Fair(x.user, x.card, x.expires)
    BY <1>3, <2>1 DEF Knows
  <2> QED
    BY <1>4, <1>6, <2>1, <2>2, <2>3, RequestStep
<1> QED
  BY <1>1, <1>2, <1>5, <1>6 DEF Trials!CreateMembership

(* or that row rewritten.                                                  *)
LEMMA RenewKeeps ==
  ASSUME TrialInv, NEW r \in Request, Trials!RenewMembership(r)
  PROVE  TrialInv'
<1>1. TrialShape /\ FairInv /\ req[r].at = "renew" /\ req[r] \in Redemption /\ Knows(req[r])
  BY DEF TrialInv, TrialShape, Trials!RenewMembership
<1>2. PICK u \in User, c \in Card : req[r].user = u /\ req[r].card = c
  BY <1>1, UnderWay
<1>3. Fair(u, c, req[r].expires) /\ req[r].expires \in Clock
  BY <1>1, <1>2 DEF FairInv, Redemption
<1>4. UNCHANGED <<now, card, grant, ending, Trials!history>> /\ req' = [req EXCEPT ![r] = Trials!NoReq]
  BY DEF Trials!RenewMembership
<1>5. Trials!NoReq \in Redemption /\ Trials!NoReq.at = "idle"
  BY Blank
<1>6. Knows(Trials!NoReq) /\ Knows(Trials!NoReq)'
  BY <1>5 DEF Knows
<1>7. PICK i : i = req[r].row /\ i \in 1 .. Len(rows[u])
  BY <1>1, <1>2 DEF Knows
<1>8. CASE rows' = [rows EXCEPT ![u][i] = Trials!Row(r)]
  <2>1. PICK m : m = Trials!Row(r)
    OBVIOUS
  <2>2. m \in MemberRow /\ m.card = c /\ m.expires = req[r].expires
    BY <1>2, <1>3, <2>1 DEF MemberRow, Trials!Row
  <2>3. /\ rows' \in [User -> Seq(MemberRow)]
        /\ \A v \in User : Len(rows'[v]) = Len(rows[v])
        /\ rows'[u][i] = m
        /\ \A v \in User : \A j \in 1 .. Len(rows[v]) : v # u \/ j # i => rows'[v][j] = rows[v][j]
    BY <1>1, <1>7, <1>8, <2>1, <2>2, RowEdit DEF TrialShape
  <2>4. ASSUME NEW v \in User, NEW j \in 1 .. Len(rows'[v])
        PROVE  Fair(v, rows'[v][j].card, rows'[v][j].expires)
    <3>1. CASE v = u /\ j = i
      BY <1>3, <2>2, <2>3, <3>1
    <3>2. CASE v # u \/ j # i
      BY <1>1, <2>3, <3>2 DEF FairInv
    <3> QED
      BY <3>1, <3>2
  <2>5. \A v \in User : Len(rows[v]) <= Len(rows'[v])
    <3>1. \A v \in User : Len(rows[v]) \in Nat
      BY <1>1 DEF TrialShape
    <3> QED
      BY <2>3, <3>1
  <2>7. /\ req' \in [Request -> Redemption] /\ \A q \in Request : Knows(req[q])'
        /\ ending' \in EndRequest /\ EndKnows(ending)'
        /\ req'[r] = Trials!NoReq /\ \A q \in Request \ {r} : req'[q] = req[q]
    BY <1>1, <1>4, <1>5, <1>6, <2>3, <2>5, RequestWritten
  <2>8. \A q \in Request : req'[q] = req[q] \/ req'[q].at = "idle"
    BY <1>5, <2>7
  <2> QED
    BY <1>4, <2>3, <2>4, <2>7, <2>8, RowsStep
<1>9. CASE UNCHANGED rows
  BY <1>4, <1>5, <1>6, <1>9, RequestStep
<1> QED
  BY <1>2, <1>7, <1>8, <1>9 DEF Trials!RenewMembership

(* The operator ends a trial: the row's expiry is the time of the request, *)
(* which has passed.                                                       *)
LEMMA EndKeeps ==
  ASSUME TrialInv, Trials!EndTrial
  PROVE  TrialInv'
<1>1. TrialShape /\ FairInv /\ ending.at = "end" /\ ending \in EndRequest /\ EndKnows(ending)
  BY DEF TrialInv, TrialShape, Trials!EndTrial
<1>0. PICK u \in User : ending.user = u
  BY <1>1 DEF EndKnows
<1>2. PICK i \in 1 .. Len(rows[u]) : ending.user = u /\ ending.row = i
  BY <1>0, <1>1 DEF EndKnows
<1>3. ending.time \in Int /\ ending.time <= now /\ now \in Int
  BY <1>1 DEF EndKnows, EndRequest, TrialShape
<1>4. UNCHANGED <<now, card, grant, req, Trials!history>>
  BY DEF Trials!EndTrial
<1>5. rows \in [User -> Seq(MemberRow)] /\ rows[u][i] \in MemberRow /\ \A v \in User : Len(rows[v]) \in Nat
  BY <1>1, ClocksTyped DEF TrialShape
<1>6. req' \in [Request -> Redemption] /\ \A q \in Request : req'[q] = req[q]
  BY <1>1, <1>4 DEF TrialShape
<1>7. CASE /\ rows' = [rows EXCEPT ![u][i] = [@ EXCEPT !.status = "lapsed", !.expires = ending.time]]
           /\ ending' = [ending EXCEPT !.at = "find", !.card = rows[u][i].card, !.row = 0]
  <2> DEFINE m == [rows[u][i] EXCEPT !.status = "lapsed", !.expires = ending.time]
             x == [ending EXCEPT !.at = "find", !.card = rows[u][i].card, !.row = 0]
  <2>1. ending.time \in Clock /\ rows[u][i].card \in Card
    BY <1>3, <1>5 DEF Clock, MemberRow
  <2>2. m \in MemberRow /\ m.card = rows[u][i].card /\ m.expires = ending.time
    BY <1>5, <2>1 DEF MemberRow
  <2>3. x \in EndRequest /\ x.at = "find" /\ x.user = u /\ x.card \in Card /\ x.time = ending.time
    BY <1>1, <1>2, <2>1 DEF EndRequest
  <2>4. rows' = [rows EXCEPT ![u][i] = m] /\ ending' = x
    BY <1>7
  <2> HIDE DEF m, x
  <2>5. /\ rows' \in [User -> Seq(MemberRow)]
        /\ \A v \in User : Len(rows'[v]) = Len(rows[v])
        /\ rows'[u][i] = m
        /\ \A v \in User : \A j \in 1 .. Len(rows[v]) : v # u \/ j # i => rows'[v][j] = rows[v][j]
    BY <1>5, <2>2, <2>4, RowEdit
  <2>6. ASSUME NEW v \in User, NEW j \in 1 .. Len(rows'[v])
        PROVE  Fair(v, rows'[v][j].card, rows'[v][j].expires)
    <3>1. CASE v = u /\ j = i
      BY <1>3, <2>2, <2>5, <3>1 DEF Fair
    <3>2. CASE v # u \/ j # i
      BY <1>1, <2>5, <3>2 DEF FairInv
    <3> QED
      BY <3>1, <3>2
  <2>7. \A v \in User : Len(rows[v]) <= Len(rows'[v])
    BY <1>5, <2>5
  <2>8. \A y \in Redemption : Knows(y) => Knows(y)'
    BY <1>3, <1>4, <1>5, <2>5, <2>7, StillKnows
  <2>9. ASSUME NEW q \in Request PROVE Knows(req[q])'
    <3>1. PICK y \in Redemption : y = req[q] /\ Knows(y)
      BY <1>1 DEF TrialShape
    <3>2. Knows(y)' /\ req'[q] = y
      BY <1>6, <2>8, <3>1
    <3> QED
      BY <3>2 DEF Knows
  <2>10. EndKnows(ending)'
    BY <1>3, <1>4, <2>3, <2>4 DEF EndKnows
  <2> QED
    BY <1>4, <1>6, <2>3, <2>4, <2>5, <2>6, <2>9, <2>10, RowsStep
<1>8. CASE ending' = Trials!NoEnding /\ UNCHANGED rows
  <2>1. ending' \in EndRequest /\ ending'.at = "idle"
    BY <1>8, Blank
  <2>2. EndKnows(ending)'
    BY <2>1 DEF EndKnows
  <2>3. \A q \in Request : Knows(req[q])'
    BY <1>1, <1>4, <1>8 DEF TrialShape, Knows
  <2>4. \A v \in User : \A j \in 1 .. Len(rows'[v]) : Fair(v, rows'[v][j].card, rows'[v][j].expires)
    BY <1>1, <1>8 DEF FairInv
  <2> QED
    BY <1>4, <1>5, <1>6, <1>8, <2>1, <2>2, <2>3, <2>4, RowsStep
<1> QED
  BY <1>2, <1>7, <1>8 DEF Trials!EndTrial

(* A step that writes the operator's request and nothing else.             *)
LEMMA EndingStep ==
  ASSUME TrialInv, ending' \in EndRequest, EndKnows(ending)',
         UNCHANGED <<now, card, grant, rows, req, Trials!history>>
  PROVE  TrialInv'
<1>0. TrialShape /\ CountInv /\ FairInv
  BY DEF TrialInv
<1>1. UNCHANGED <<now, card, grant, rows, req, minted, usesCleared, retired, bought>>
  BY DEF Trials!history
<1>2. \A q \in Request : Knows(req[q])'
  BY <1>0, <1>1 DEF TrialShape, Knows
<1>3. TrialShape'
  BY <1>0, <1>1, <1>2 DEF TrialShape
<1>4. CountInv'
  BY <1>0, <1>1 DEF CountInv, Minted
<1>5. FairInv'
  BY <1>0, <1>1 DEF FairInv, Fair
<1> QED
  BY <1>3, <1>4, <1>5 DEF TrialInv

(* The operator's request finds a live row: the row is there, and so is    *)
(* its time.                                                               *)
LEMMA FindTrialKeeps ==
  ASSUME TrialInv, NEW u \in User, Trials!FindTrial(u)
  PROVE  TrialInv'
<1>1. PICK i \in Trials!LiveRows(u) :
        ending' = [Trials!NoEnding EXCEPT !.at = "end", !.user = u, !.row = i, !.time = now]
  BY DEF Trials!FindTrial
<1>2. UNCHANGED <<now, card, grant, rows, req, Trials!history>>
  BY DEF Trials!FindTrial
<1>3. i \in 1 .. Len(rows[u]) /\ Len(rows[u]) \in Nat /\ now \in Int
  BY DEF TrialInv, TrialShape, Trials!LiveRows, Trials!Holding
<1>4. i \in Nat
  BY <1>3
<1>5. ending' \in EndRequest /\ ending'.at = "end" /\ ending'.user = u /\ ending'.row = i
      /\ ending'.time = now
  BY <1>1, <1>3, <1>4, Blank DEF EndRequest
<1>6. EndKnows(ending)'
  BY <1>2, <1>3, <1>5 DEF EndKnows
<1> QED
  BY <1>2, <1>5, <1>6, EndingStep

(* It finds the grant behind the row: there is one, or it is over.         *)
LEMMA FindGrantKeeps ==
  ASSUME TrialInv, Trials!FindGrant
  PROVE  TrialInv'
<1>1. /\ ending.at = "find" /\ ending \in EndRequest /\ EndKnows(ending) /\ now \in Int
      /\ grant \in [User -> [Card -> GrantRow]]
  BY DEF TrialInv, TrialShape, Trials!FindGrant
<1>2. UNCHANGED <<now, card, grant, rows, req, Trials!history>>
  BY DEF Trials!FindGrant
<1>3. PICK u \in User, c \in Card : ending.user = u /\ ending.card = c
  BY <1>1 DEF EndKnows
<1>4. PICK g \in GrantRow : g = grant[u][c]
  BY <1>1
<1>5. CASE ending' = Trials!NoEnding
  <2>1. ending' \in EndRequest /\ ending'.at = "idle"
    BY <1>5, Blank
  <2>2. EndKnows(ending)'
    BY <2>1 DEF EndKnows
  <2> QED
    BY <1>2, <2>1, <2>2, EndingStep
<1>6. CASE g.id # 0 /\ ending' = [ending EXCEPT !.at = "close", !.id = g.id, !.opened = g.opened]
  <2> DEFINE x == [ending EXCEPT !.at = "close", !.id = g.id, !.opened = g.opened]
  <2>1. g.id \in Nat /\ g.opened \in Clock
    BY DEF GrantRow
  <2>2. x \in EndRequest /\ x.at = "close" /\ x.user = u /\ x.card = c /\ x.time = ending.time /\ x.id = g.id
    BY <1>1, <1>3, <2>1 DEF EndRequest
  <2>3. ending' = x
    BY <1>6
  <2> HIDE DEF x
  <2>4. EndKnows(ending)'
    BY <1>1, <1>2, <1>6, <2>2, <2>3 DEF EndKnows
  <2> QED
    BY <1>2, <2>2, <2>3, <2>4, EndingStep
<1> QED
  BY <1>3, <1>4, <1>5, <1>6 DEF Trials!FindGrant

(* Time, or a step on the grants: what was fair stays so.                  *)
LEMMA FairKept ==
  ASSUME TrialShape, FairInv, UNCHANGED rows, now' \in Int, now <= now',
         bought' \in [User -> [Card -> Int]],
         \A v \in User, d \in Card : bought[v][d] <= bought'[v][d],
         \A v \in User, d \in Card :
           grant'[v][d].expires = grant[v][d].expires \/ Fair(v, d, grant[v][d].expires)',
         \A q \in Request : \/ req'[q] = req[q]
                            \/ req'[q].at \in {"create", "conflict", "renew"} =>
                                 Fair(req[q].user, req[q].card, req[q].expires)'
  PROVE  FairInv'
<1>2. \A u \in User, c \in Card, t \in Clock : Fair(u, c, t) => Fair(u, c, t)'
  <2>1. now \in Int /\ bought \in [User -> [Card -> Int]]
    BY DEF TrialShape
  <2> QED
    BY <2>1, FairStill
<1>3. ASSUME NEW u \in User, NEW c \in Card PROVE Fair(u, c, grant[u][c].expires)'
  <2>1. PICK t \in Clock : t = grant[u][c].expires /\ Fair(u, c, t)
    BY ClocksTyped DEF FairInv
  <2>2. Fair(u, c, t)'
    BY <1>2, <2>1
  <2>3. CASE grant'[u][c].expires = grant[u][c].expires
    BY <2>1, <2>2, <2>3 DEF Fair
  <2> QED
    BY <2>3
<1>4. ASSUME NEW q \in Request, req'[q].at \in {"create", "conflict", "renew"}
      PROVE  Fair(req[q].user, req[q].card, req[q].expires)'
  <2>1. CASE req'[q] = req[q]
    <3>1. PICK u \in User, c \in Card, t \in Clock :
            req[q].user = u /\ req[q].card = c /\ req[q].expires = t
      BY <1>4, <2>1, ClocksTyped
    <3>2. Fair(u, c, t)'
      BY <1>2, <1>4, <2>1, <3>1 DEF FairInv
    <3> QED
      BY <2>1, <3>1, <3>2 DEF Fair
  <2> QED
    BY <1>4, <2>1
<1>5. ASSUME NEW u \in User, NEW i \in 1 .. Len(rows'[u])
      PROVE  Fair(u, rows[u][i].card, rows[u][i].expires)'
  <2>1. i \in 1 .. Len(rows[u]) /\ rows'[u][i] = rows[u][i]
    OBVIOUS
  <2>2. PICK c \in Card, t \in Clock : rows[u][i].card = c /\ rows[u][i].expires = t
    BY <2>1, ClocksTyped
  <2>3. Fair(u, c, t)'
    BY <1>2, <2>1, <2>2 DEF FairInv
  <2> QED
    BY <2>1, <2>2, <2>3 DEF Fair
<1> QED
  BY <1>3, <1>4, <1>5 DEF FairInv

(* A step on the grants, the cards and what is counted of them.            *)
LEMMA GrantStep ==
  ASSUME TrialInv, CountInv', UNCHANGED <<now, rows>>,
         card' \in [Card -> [count : Nat, active : BOOLEAN]],
         grant' \in [User -> [Card -> GrantRow]],
         minted' \in Counts, usesCleared' \in Counts, retired' \in Counts,
         bought' \in [User -> [Card -> Int]],
         \A v \in User, d \in Card : bought[v][d] <= bought'[v][d],
         req' \in [Request -> Redemption], \A q \in Request : Knows(req[q])',
         ending' \in EndRequest, EndKnows(ending)',
         \A v \in User, d \in Card :
           grant'[v][d].expires = grant[v][d].expires \/ Fair(v, d, grant[v][d].expires)',
         \A q \in Request : \/ req'[q] = req[q]
                            \/ req'[q].at \in {"create", "conflict", "renew"} =>
                                 Fair(req[q].user, req[q].card, req[q].expires)'
  PROVE  TrialInv'
<1>0. TrialShape /\ FairInv
  BY DEF TrialInv
<1>1. TrialShape'
  BY <1>0 DEF TrialShape
<1>2. FairInv'
  <2>1. now' \in Int /\ now <= now'
    BY <1>0 DEF TrialShape
  <2> QED
    BY <1>0, <2>1, FairKept
<1> QED
  BY <1>1, <1>2 DEF TrialInv

(* What a step that leaves the requests and the lists alone keeps of them. *)
LEMMA RequestsKept ==
  ASSUME TrialShape, UNCHANGED <<now, rows>>
  PROVE  /\ \A x \in Redemption : Knows(x) => Knows(x)'
         /\ \A x \in EndRequest : EndKnows(x) => EndKnows(x)'
         /\ UNCHANGED req => req' \in [Request -> Redemption] /\ \A q \in Request : Knows(req[q])'
         /\ UNCHANGED ending => ending' \in EndRequest /\ EndKnows(ending)'
<1>1. /\ req \in [Request -> Redemption] /\ \A q \in Request : Knows(req[q])
      /\ ending \in EndRequest /\ EndKnows(ending)
  BY DEF TrialShape
<1>2. /\ \A x \in Redemption : Knows(x) => Knows(x)'
      /\ \A x \in EndRequest : EndKnows(x) => EndKnows(x)'
  <2>1. ASSUME NEW x \in Redemption, Knows(x) PROVE Knows(x)'
    BY <2>1 DEF Knows
  <2>2. ASSUME NEW x \in EndRequest, EndKnows(x) PROVE EndKnows(x)'
    BY <2>2 DEF EndKnows
  <2> QED
    BY <2>1, <2>2
<1>3. ASSUME UNCHANGED req PROVE req' \in [Request -> Redemption] /\ \A q \in Request : Knows(req[q])'
  <2>1. ASSUME NEW q \in Request PROVE Knows(req[q])'
    BY <1>1, <1>3 DEF Knows
  <2> QED
    BY <1>1, <1>3, <2>1
<1>4. ASSUME UNCHANGED ending PROVE ending' \in EndRequest /\ EndKnows(ending)'
  <2>1. PICK y \in EndRequest : y = ending /\ EndKnows(y)
    BY <1>1
  <2>2. ending' = y /\ EndKnows(y)'
    BY <1>2, <1>4, <2>1
  <2> QED
    BY <2>2 DEF EndKnows
<1> QED
  BY <1>2, <1>3, <1>4

(* It closes that grant by its id, unless a new one is there.              *)
LEMMA CloseKeeps ==
  ASSUME TrialInv, Trials!CloseGrant
  PROVE  TrialInv'
<1>1. TrialShape /\ CountInv /\ ending.at = "close" /\ ending \in EndRequest /\ EndKnows(ending)
  BY DEF TrialInv, TrialShape, Trials!CloseGrant
<1>2. UNCHANGED <<now, card, rows, req, minted, usesCleared, retired, bought>> /\ UNCHANGED Trials!history
  BY DEF Trials!CloseGrant, Trials!history
<1>3. PICK u \in User, c \in Card : ending.user = u /\ ending.card = c
  BY <1>1 DEF EndKnows
<1>4. grant \in [User -> [Card -> GrantRow]] /\ grant[u][c] \in GrantRow /\ now \in Int
  BY <1>1 DEF TrialShape
<1>5. ending' \in EndRequest /\ ending'.at = "idle"
  BY Blank DEF Trials!CloseGrant
<1>6. EndKnows(ending)'
  BY <1>5 DEF EndKnows
<1>7. CASE UNCHANGED grant
  BY <1>2, <1>5, <1>6, <1>7, EndingStep
<1>8. ASSUME NEW s \in Clock, NEW t \in Clock, t \in Int, t <= now, grant[u][c].id # 0,
             grant' = [grant EXCEPT ![u][c] = [grant[u][c] EXCEPT !.expires = t, !.opened = s]]
      PROVE  TrialInv'
  <2> DEFINE g == [grant[u][c] EXCEPT !.expires = t, !.opened = s]
  <2>1. g \in GrantRow /\ g.id = grant[u][c].id /\ g.expires = t
    BY <1>4 DEF GrantRow
  <2>2. grant' = [grant EXCEPT ![u][c] = g]
    BY <1>8
  <2> HIDE DEF g
  <2>3. /\ grant' \in [User -> [Card -> GrantRow]] /\ grant'[u][c] = g
        /\ \A v \in User, d \in Card : v # u \/ d # c => grant'[v][d] = grant[v][d]
    BY <1>4, <2>1, <2>2, TableEdit
  <2>4. ASSUME NEW v \in User, NEW d \in Card PROVE Minted(v, d)'
    <3>1. Minted(v, d)
      BY <1>1 DEF CountInv
    <3>2. grant'[v][d].id = grant[v][d].id /\ (grant[v][d].id = 0 => grant'[v][d].expires = grant[v][d].expires)
      BY <1>8, <2>1, <2>3
    <3> QED
      BY <1>2, <3>1, <3>2 DEF Minted
  <2>5. CountInv'
    BY <1>1, <1>2, <2>4 DEF CountInv
  <2>6. ASSUME NEW v \in User, NEW d \in Card
        PROVE  grant'[v][d].expires = grant[v][d].expires \/ Fair(v, d, grant[v][d].expires)'
    BY <1>2, <1>8, <2>1, <2>3 DEF Fair
  <2>7. /\ req' \in [Request -> Redemption] /\ \A q \in Request : Knows(req[q])'
        /\ \A q \in Request : req'[q] = req[q]
    BY <1>1, <1>2, RequestsKept
  <2>8. /\ card' \in [Card -> [count : Nat, active : BOOLEAN]] /\ minted' \in Counts
        /\ usesCleared' \in Counts /\ retired' \in Counts /\ bought' \in [User -> [Card -> Int]]
        /\ \A v \in User, d \in Card : bought[v][d] <= bought'[v][d]
    <3>1. \A v \in User, d \in Card : bought[v][d] \in Int
      BY <1>1 DEF TrialShape
    <3> QED
      BY <1>1, <1>2, <3>1 DEF TrialShape
  <2> QED
    BY <1>2, <1>5, <1>6, <2>3, <2>5, <2>6, <2>7, <2>8, GrantStep
<1>9. ending.time \in Int /\ ending.time <= now /\ ending.time \in Clock /\ ending.opened \in Clock /\ ending.id # 0
  BY <1>1 DEF EndKnows, EndRequest, Clock
<1>10. \/ UNCHANGED grant
       \/ /\ grant[u][c].id = ending.id
          /\ grant' = [grant EXCEPT ![u][c] = [grant[u][c] EXCEPT !.expires = ending.time,
               !.opened = IF ending.opened = Nothing THEN ending.time ELSE ending.opened]]
  BY <1>3 DEF Trials!CloseGrant
<1>11. (IF ending.opened = Nothing THEN ending.time ELSE ending.opened) \in Clock
  BY <1>9
<1> QED
  BY <1>7, <1>8, <1>9, <1>10, <1>11

(* A use is cleared: the grant that was there is counted as cleared.       *)
LEMMA ClearKeeps ==
  ASSUME TrialInv, NEW u \in User, NEW c \in Card, Trials!ClearUse(u, c)
  PROVE  TrialInv'
<1>1. TrialShape /\ CountInv
  BY DEF TrialInv
<1>2. /\ UNCHANGED <<now, card, rows, req, ending, minted, retired, bought>> /\ grant[u][c].id # 0
      /\ grant' = [grant EXCEPT ![u][c] = Trials!NoGrant]
      /\ usesCleared' = [usesCleared EXCEPT ![u][c] = @ + 1]
  BY DEF Trials!ClearUse
<1>3. /\ grant \in [User -> [Card -> GrantRow]] /\ usesCleared \in [User -> [Card -> Nat]]
      /\ \A v \in User, d \in Card :
           minted[v][d] \in Nat /\ usesCleared[v][d] \in Nat /\ retired[v][d] \in Nat /\ bought[v][d] \in Int
  BY <1>1 DEF TrialShape, Counts
<1>4. PICK n : n = usesCleared[u][c] + 1
  OBVIOUS
<1>5. n \in Nat /\ usesCleared' = [usesCleared EXCEPT ![u][c] = n]
  BY <1>2, <1>3, <1>4
<1>6. /\ grant' \in [User -> [Card -> GrantRow]] /\ grant'[u][c] = Trials!NoGrant
      /\ \A v \in User, d \in Card : v # u \/ d # c => grant'[v][d] = grant[v][d]
  <2>1. Trials!NoGrant \in GrantRow
    BY Blank
  <2> QED
    BY <1>2, <1>3, <2>1, TableEdit
<1>7. /\ usesCleared' \in [User -> [Card -> Nat]] /\ usesCleared'[u][c] = n
      /\ \A v \in User, d \in Card : v # u \/ d # c => usesCleared'[v][d] = usesCleared[v][d]
  BY <1>3, <1>5, TableEdit
<1>8. ASSUME NEW v \in User, NEW d \in Card PROVE Minted(v, d)'
  <2>1. Minted(v, d) /\ minted'[v][d] = minted[v][d] /\ retired'[v][d] = retired[v][d]
    BY <1>1, <1>2 DEF CountInv
  <2>2. CASE v = u /\ d = c
    <3>1. grant'[v][d].id = 0 /\ grant'[v][d].expires = Nothing
      BY <1>6, <2>2, Blank
    <3>2. minted[v][d] = usesCleared[v][d] + retired[v][d] + 1
      BY <1>2, <2>1, <2>2 DEF Minted
    <3>3. usesCleared'[v][d] = usesCleared[v][d] + 1
      BY <1>4, <1>7, <2>2
    <3>4. minted[v][d] \in Nat /\ usesCleared[v][d] \in Nat /\ retired[v][d] \in Nat
      BY <1>3
    <3>5. minted'[v][d] = usesCleared'[v][d] + retired'[v][d]
      BY <2>1, <3>2, <3>3, <3>4
    <3>6. usesCleared'[v][d] + retired'[v][d] + 0 = usesCleared'[v][d] + retired'[v][d]
      BY <2>1, <3>3, <3>4
    <3> QED
      BY <3>1, <3>5, <3>6 DEF Minted
  <2>3. CASE v # u \/ d # c
    BY <1>6, <1>7, <2>1, <2>3 DEF Minted
  <2> QED
    BY <2>2, <2>3
<1>9. CountInv'
  BY <1>1, <1>2, <1>8 DEF CountInv
<1>10. ASSUME NEW v \in User, NEW d \in Card
       PROVE  grant'[v][d].expires = grant[v][d].expires \/ Fair(v, d, grant[v][d].expires)'
  BY <1>6, Blank DEF Fair
<1>11. /\ req' \in [Request -> Redemption] /\ \A q \in Request : Knows(req[q])'
       /\ \A q \in Request : req'[q] = req[q]
       /\ ending' \in EndRequest /\ EndKnows(ending)'
  BY <1>1, <1>2, RequestsKept
<1>12. /\ card' \in [Card -> [count : Nat, active : BOOLEAN]] /\ minted' \in Counts
       /\ usesCleared' \in Counts /\ retired' \in Counts /\ bought' \in [User -> [Card -> Int]]
       /\ \A v \in User, d \in Card : bought[v][d] <= bought'[v][d]
  BY <1>1, <1>2, <1>3, <1>7 DEF TrialShape, Counts
<1> QED
  BY <1>2, <1>6, <1>9, <1>10, <1>11, <1>12, GrantStep

(* A campaign is switched off; the slots stay as they were counted.        *)
LEMMA ExpireKeeps ==
  ASSUME TrialInv, NEW c \in Card, Trials!ExpireCampaign(c)
  PROVE  TrialInv'
<1>1. TrialShape /\ CountInv
  BY DEF TrialInv
<1>2. UNCHANGED <<now, grant, rows, req, ending, minted, usesCleared, retired, bought>>
      /\ card' = [card EXCEPT ![c].active = FALSE]
  BY DEF Trials!ExpireCampaign, Trials!history
<1>3. /\ card' \in [Card -> [count : Nat, active : BOOLEAN]]
      /\ \A d \in Card : card'[d].count = card[d].count
  BY <1>1, <1>2 DEF TrialShape
<1>4. CountInv'
  BY <1>1, <1>2, <1>3 DEF CountInv, Minted
<1>5. /\ req' \in [Request -> Redemption] /\ \A q \in Request : Knows(req[q])'
      /\ \A q \in Request : req'[q] = req[q]
      /\ ending' \in EndRequest /\ EndKnows(ending)'
  BY <1>1, <1>2, RequestsKept
<1>6. \A v \in User, d \in Card : bought[v][d] \in Int
  BY <1>1 DEF TrialShape
<1>7. /\ grant' \in [User -> [Card -> GrantRow]] /\ minted' \in Counts
      /\ usesCleared' \in Counts /\ retired' \in Counts /\ bought' \in [User -> [Card -> Int]]
      /\ \A v \in User, d \in Card : bought[v][d] <= bought'[v][d]
      /\ \A v \in User, d \in Card : grant'[v][d].expires = grant[v][d].expires
  BY <1>1, <1>2, <1>6 DEF TrialShape
<1> QED
  BY <1>2, <1>3, <1>4, <1>5, <1>7, GrantStep

(* The retention job deletes grants that had been opened, so each was      *)
(* there, and counts them as retired.                                      *)
LEMMA DropKeeps ==
  ASSUME TrialInv, Trials!DropOldGrants
  PROVE  TrialInv'
<1>1. TrialShape /\ CountInv
  BY DEF TrialInv
<1>2. UNCHANGED <<now, card, rows, req, ending, minted, usesCleared, bought>>
  BY DEF Trials!DropOldGrants
<1>3. /\ grant \in [User -> [Card -> GrantRow]]
      /\ \A v \in User, d \in Card :
           minted[v][d] \in Nat /\ usesCleared[v][d] \in Nat /\ retired[v][d] \in Nat /\ bought[v][d] \in Int
  BY <1>1 DEF TrialShape, Counts
<1> DEFINE Old(g) == g.expires # Nothing /\ g.expires + RetainGrants < now
<1>4. /\ grant' = [u \in User |-> [c \in Card |->
           IF Old(grant[u][c]) THEN Trials!NoGrant ELSE grant[u][c]]]
      /\ retired' = [u \in User |-> [c \in Card |->
           retired[u][c] + IF Old(grant[u][c]) THEN 1 ELSE 0]]
  BY DEF Trials!DropOldGrants
<1>5. \A v \in User, d \in Card : Old(grant[v][d]) => grant[v][d].id # 0
  BY <1>1 DEF CountInv, Minted
<1> HIDE DEF Old
<1>6. ASSUME NEW v \in User, NEW d \in Card
      PROVE  /\ grant'[v][d] = IF Old(grant[v][d]) THEN Trials!NoGrant ELSE grant[v][d]
             /\ retired'[v][d] = IF Old(grant[v][d]) THEN retired[v][d] + 1 ELSE retired[v][d]
  BY <1>3, <1>4
<1>7. grant' \in [User -> [Card -> GrantRow]] /\ retired' \in Counts
  <2>1. \A v \in User, d \in Card : grant'[v][d] \in GrantRow /\ retired'[v][d] \in Nat
    BY <1>3, <1>6, Blank
  <2> QED
    BY <1>4, <2>1 DEF Counts
<1>8. ASSUME NEW v \in User, NEW d \in Card PROVE Minted(v, d)'
  <2>1. Minted(v, d) /\ minted'[v][d] = minted[v][d] /\ usesCleared'[v][d] = usesCleared[v][d]
    BY <1>1, <1>2 DEF CountInv
  <2>2. CASE Old(grant[v][d])
    <3>1. grant'[v][d].id = 0 /\ grant'[v][d].expires = Nothing /\ retired'[v][d] = retired[v][d] + 1
      BY <1>6, <2>2, Blank
    <3>2. minted[v][d] = usesCleared[v][d] + retired[v][d] + 1
      BY <1>5, <2>1, <2>2 DEF Minted
    <3> QED
      BY <1>3, <2>1, <3>1, <3>2 DEF Minted
  <2>3. CASE ~Old(grant[v][d])
    BY <1>6, <2>1, <2>3 DEF Minted
  <2> QED
    BY <2>2, <2>3
<1>9. CountInv'
  BY <1>1, <1>2, <1>8 DEF CountInv
<1>10. ASSUME NEW v \in User, NEW d \in Card
       PROVE  grant'[v][d].expires = grant[v][d].expires \/ Fair(v, d, grant[v][d].expires)'
  BY <1>6, Blank DEF Fair
<1>11. /\ req' \in [Request -> Redemption] /\ \A q \in Request : Knows(req[q])'
       /\ \A q \in Request : req'[q] = req[q]
       /\ ending' \in EndRequest /\ EndKnows(ending)'
  BY <1>1, <1>2, RequestsKept
<1>12. /\ card' \in [Card -> [count : Nat, active : BOOLEAN]] /\ minted' \in Counts
       /\ usesCleared' \in Counts /\ bought' \in [User -> [Card -> Int]]
       /\ \A v \in User, d \in Card : bought[v][d] <= bought'[v][d]
  BY <1>1, <1>2, <1>3 DEF TrialShape
<1> QED
  BY <1>2, <1>7, <1>9, <1>10, <1>11, <1>12, GrantStep

(* Time passes: what was no later than now still is.                       *)
LEMMA HourKeeps ==
  ASSUME TrialInv, Trials!NextHour
  PROVE  TrialInv'
<1>1. TrialShape /\ CountInv /\ FairInv
  BY DEF TrialInv
<1>2. now' = now + 1 /\ UNCHANGED <<card, grant, rows, req, ending, minted, usesCleared, retired, bought>>
  BY DEF Trials!NextHour, Trials!history
<1>3. now \in Int /\ now' \in Int /\ now <= now'
  BY <1>1, <1>2 DEF TrialShape
<1>4. /\ rows' \in [User -> Seq(MemberRow)] /\ rows \in [User -> Seq(MemberRow)]
      /\ \A v \in User : Len(rows[v]) <= Len(rows'[v])
  <2>1. \A v \in User : Len(rows[v]) \in Nat
    BY <1>1 DEF TrialShape
  <2> QED
    BY <1>1, <1>2, <2>1 DEF TrialShape
<1>5. /\ \A x \in Redemption : Knows(x) => Knows(x)'
      /\ \A x \in EndRequest : EndKnows(x) => EndKnows(x)'
  BY <1>3, <1>4, StillKnows
<1>6. ASSUME NEW q \in Request PROVE Knows(req[q])'
  <2>1. PICK x \in Redemption : x = req[q] /\ Knows(x)
    BY <1>1 DEF TrialShape
  <2>2. Knows(x)' /\ req'[q] = x
    BY <1>2, <1>5, <2>1
  <2> QED
    BY <2>2 DEF Knows
<1>7. EndKnows(ending)'
  <2>1. PICK x \in EndRequest : x = ending /\ EndKnows(x)
    BY <1>1 DEF TrialShape
  <2>2. EndKnows(x)' /\ ending' = x
    BY <1>2, <1>5, <2>1
  <2> QED
    BY <2>2 DEF EndKnows
<1>8. TrialShape'
  BY <1>1, <1>2, <1>3, <1>4, <1>6, <1>7 DEF TrialShape
<1>9. CountInv'
  BY <1>1, <1>2 DEF CountInv, Minted
<1>10. /\ bought' \in [User -> [Card -> Int]]
       /\ \A v \in User, d \in Card : bought[v][d] <= bought'[v][d]
       /\ \A v \in User, d \in Card : grant'[v][d].expires = grant[v][d].expires
       /\ \A q \in Request : req'[q] = req[q]
  <2>1. \A v \in User, d \in Card : bought[v][d] \in Int
    BY <1>1 DEF TrialShape
  <2> QED
    BY <1>1, <1>2, <2>1 DEF TrialShape
<1>11. FairInv'
  BY <1>1, <1>2, <1>3, <1>10, FairKept
<1> QED
  BY <1>8, <1>9, <1>11 DEF TrialInv

(* A grant is minted only where none is, so the count of its account and   *)
(* card stays one ahead of what was taken away.                            *)
LEMMA RedeemKeeps ==
  ASSUME TrialInv, TrialNumbers, NEW r \in Request, Trials!Redeem(r)
  PROVE  TrialInv'
<1>1. TrialShape /\ CountInv /\ FairInv /\ req[r].at = "redeem"
  BY DEF TrialInv, Trials!Redeem
<1>2. PICK u \in User, c \in Card : req[r].user = u /\ req[r].card = c
  BY <1>1, UnderWay
<1>3. /\ TrialShape'
      /\ UNCHANGED <<now, rows, ending, usesCleared, retired, bought>>
      /\ req'[r].at \in {"open", "idle"} /\ \A q \in Request \ {r} : req'[q] = req[q]
      /\ \/ UNCHANGED <<card, grant, minted>>
         \/ /\ grant[u][c].id = 0 /\ card[c].count < Slots[c]
            /\ card'[c].count = card[c].count + 1 /\ \A d \in Card \ {c} : card'[d] = card[d]
            /\ grant'[u][c].id # 0 /\ grant'[u][c].expires = Nothing
            /\ minted'[u][c] = minted[u][c] + 1
            /\ \A v \in User, d \in Card : v # u \/ d # c =>
                 grant'[v][d] = grant[v][d] /\ minted'[v][d] = minted[v][d]
  BY <1>1, <1>2, RedeemEffect
<1>4. CountInv'
  <2>1. CASE UNCHANGED <<card, grant, minted>>
    BY <1>1, <1>3, <2>1 DEF CountInv, Minted
  <2>2. CASE /\ grant[u][c].id = 0 /\ card[c].count < Slots[c]
             /\ card'[c].count = card[c].count + 1 /\ \A d \in Card \ {c} : card'[d] = card[d]
             /\ grant'[u][c].id # 0 /\ grant'[u][c].expires = Nothing
             /\ minted'[u][c] = minted[u][c] + 1
             /\ \A v \in User, d \in Card : v # u \/ d # c =>
                  grant'[v][d] = grant[v][d] /\ minted'[v][d] = minted[v][d]
    <3>1. ASSUME NEW d \in Card PROVE card'[d].count <= Slots[d]
      <4>1. card[c].count \in Nat /\ Slots[c] \in Nat
        BY <1>1 DEF TrialShape, TrialNumbers
      <4>2. card[d].count <= Slots[d]
        BY <1>1 DEF CountInv
      <4> QED
        BY <2>2, <4>1, <4>2
    <3>2. ASSUME NEW v \in User, NEW d \in Card PROVE Minted(v, d)'
      <4>1. /\ Minted(v, d) /\ usesCleared'[v][d] = usesCleared[v][d] /\ retired'[v][d] = retired[v][d]
            /\ minted[v][d] \in Nat /\ usesCleared[v][d] \in Nat /\ retired[v][d] \in Nat
        BY <1>1, <1>3 DEF CountInv, TrialShape, Counts
      <4>2. CASE v = u /\ d = c
        <5>1. minted[v][d] = usesCleared[v][d] + retired[v][d]
          BY <2>2, <4>1, <4>2 DEF Minted
        <5>2. minted'[v][d] = usesCleared'[v][d] + retired'[v][d] + 1
          BY <2>2, <4>1, <4>2, <5>1
        <5> QED
          BY <2>2, <4>2, <5>2 DEF Minted
      <4>3. CASE v # u \/ d # c
        BY <2>2, <4>1, <4>3 DEF Minted
      <4> QED
        BY <4>2, <4>3
    <3> QED
      BY <3>1, <3>2 DEF CountInv
  <2> QED
    BY <1>3, <2>1, <2>2
<1>5. now' \in Int /\ now <= now' /\ bought' \in [User -> [Card -> Int]]
      /\ \A v \in User, d \in Card : bought[v][d] <= bought'[v][d]
  <2>1. \A v \in User, d \in Card : bought[v][d] \in Int
    BY <1>1 DEF TrialShape
  <2> QED
    BY <1>1, <1>3, <2>1 DEF TrialShape
<1>6. ASSUME NEW v \in User, NEW d \in Card
      PROVE  grant'[v][d].expires = grant[v][d].expires \/ Fair(v, d, grant[v][d].expires)'
  <2>1. CASE UNCHANGED grant
    BY <2>1
  <2>2. CASE grant'[u][c].expires = Nothing /\ (v # u \/ d # c => grant'[v][d] = grant[v][d])
    BY <2>2 DEF Fair
  <2> QED
    BY <1>3, <2>1, <2>2
<1>7. FairInv'
  BY <1>1, <1>3, <1>5, <1>6, FairKept
<1> QED
  BY <1>3, <1>4, <1>7 DEF TrialInv

(* Only the first open of a grant starts its clock, and what it writes is  *)
(* what it buys.                                                           *)
LEMMA OpenKeeps ==
  ASSUME TrialInv, TrialNumbers, NEW r \in Request, Trials!OpenTrial(r)
  PROVE  TrialInv'
<1>1. TrialShape /\ CountInv /\ FairInv /\ req[r].at = "open"
  BY DEF TrialInv, Trials!OpenTrial
<1>2. PICK u \in User, c \in Card : req[r].user = u /\ req[r].card = c
  BY <1>1, UnderWay
<1>3. /\ req[r] \in Redemption /\ req \in [Request -> Redemption] /\ req[r].token # 0
      /\ grant \in [User -> [Card -> GrantRow]] /\ grant[u][c] \in GrantRow
      /\ now \in Int /\ Hours \in Int /\ bought \in [User -> [Card -> Int]]
      /\ \A v \in User, d \in Card : bought[v][d] \in Int
  BY <1>1 DEF TrialShape, Knows, TrialNumbers
<1>4. PICK t : t = now + Hours
  OBVIOUS
<1>5. t \in Int /\ t \in Clock /\ now \in Clock /\ Nothing \in Clock /\ grant[u][c].expires \in Clock
  BY <1>3, <1>4 DEF Clock, GrantRow
<1>6. UNCHANGED <<now, card, rows, ending, minted, usesCleared, retired>>
  BY DEF Trials!OpenTrial
<1>7. ASSUME NEW s \in Clock
      PROVE  \E x \in Redemption :
               /\ x = [req[r] EXCEPT !.at = "create", !.token = 0, !.expires = s]
               /\ x.at = "create" /\ x.user = u /\ x.card = c /\ x.expires = s
  <2> DEFINE x == [req[r] EXCEPT !.at = "create", !.token = 0, !.expires = s]
  <2>1. x \in Redemption /\ x.at = "create" /\ x.user = u /\ x.card = c /\ x.expires = s
    BY <1>2, <1>3 DEF Redemption
  <2> QED
    BY <2>1
<1>8. CASE /\ grant[u][c].id = req[r].token
           /\ grant' = [grant EXCEPT ![u][c] = [grant[u][c] EXCEPT !.opened = now, !.expires = t]]
           /\ bought' = [bought EXCEPT ![u][c] = Trials!Later(bought[u][c], t)]
           /\ req' = [req EXCEPT ![r] = [req[r] EXCEPT !.at = "create", !.token = 0, !.expires = t]]
  <2> DEFINE g == [grant[u][c] EXCEPT !.opened = now, !.expires = t]
  <2>1. g \in GrantRow /\ g.id = grant[u][c].id /\ g.expires = t
    BY <1>3, <1>5 DEF GrantRow
  <2>2. grant' = [grant EXCEPT ![u][c] = g]
    BY <1>8
  <2> HIDE DEF g
  <2>3. /\ grant' \in [User -> [Card -> GrantRow]] /\ grant'[u][c] = g
        /\ \A v \in User, d \in Card : v # u \/ d # c => grant'[v][d] = grant[v][d]
    BY <1>3, <2>1, <2>2, TableEdit
  <2>4. PICK b : b = Trials!Later(bought[u][c], t)
    OBVIOUS
  <2>5. b \in Int /\ bought[u][c] <= b /\ t <= b
    BY <1>3, <1>5, <2>4 DEF Trials!Later
  <2>6. /\ bought' \in [User -> [Card -> Int]] /\ bought'[u][c] = b
        /\ \A v \in User, d \in Card : v # u \/ d # c => bought'[v][d] = bought[v][d]
    BY <1>3, <1>8, <2>4, <2>5, TableEdit
  <2>7. \A v \in User, d \in Card : bought[v][d] <= bought'[v][d]
    BY <1>3, <2>5, <2>6
  <2>8. ASSUME NEW v \in User, NEW d \in Card PROVE Minted(v, d)'
    <3>1. Minted(v, d) /\ grant'[v][d].id = grant[v][d].id
      BY <1>1, <2>1, <2>3 DEF CountInv
    <3>2. grant'[v][d].id = 0 => grant'[v][d].expires = grant[v][d].expires
      BY <1>3, <1>8, <2>1, <2>3
    <3> QED
      BY <1>6, <3>1, <3>2 DEF Minted
  <2>9. CountInv'
    BY <1>1, <1>6, <2>8 DEF CountInv
  <2>10. Fair(u, c, t)'
    BY <2>5, <2>6 DEF Fair
  <2>11. ASSUME NEW v \in User, NEW d \in Card
         PROVE  grant'[v][d].expires = grant[v][d].expires \/ Fair(v, d, grant[v][d].expires)'
    BY <2>1, <2>3, <2>10 DEF Fair
  <2>12. PICK x \in Redemption :
           /\ x = [req[r] EXCEPT !.at = "create", !.token = 0, !.expires = t]
           /\ x.at = "create" /\ x.user = u /\ x.card = c /\ x.expires = t
    BY <1>5, <1>7
  <2>19. Knows(x)'
    BY <2>12 DEF Knows
  <2>13. req' = [req EXCEPT ![r] = x]
    BY <1>8, <2>12
  <2>14. /\ rows' \in [User -> Seq(MemberRow)]
         /\ \A v \in User : Len(rows[v]) <= Len(rows'[v])
    <3>1. \A v \in User : Len(rows[v]) \in Nat
      BY <1>1 DEF TrialShape
    <3> QED
      BY <1>1, <1>6, <3>1 DEF TrialShape
  <2>15. /\ req' \in [Request -> Redemption] /\ \A q \in Request : Knows(req[q])'
         /\ ending' \in EndRequest /\ EndKnows(ending)'
         /\ req'[r] = x /\ \A q \in Request \ {r} : req'[q] = req[q]
    BY <1>1, <1>6, <2>12, <2>13, <2>14, <2>19, RequestWritten
  <2>16. Fair(req[r].user, req[r].card, req[r].expires)'
    BY <2>10, <2>12, <2>15 DEF Fair
  <2>17. \A q \in Request : \/ req'[q] = req[q]
                            \/ req'[q].at \in {"create", "conflict", "renew"} =>
                                 Fair(req[q].user, req[q].card, req[q].expires)'
    BY <2>15, <2>16
  <2>18. /\ card' \in [Card -> [count : Nat, active : BOOLEAN]] /\ minted' \in Counts
         /\ usesCleared' \in Counts /\ retired' \in Counts
    BY <1>1, <1>6 DEF TrialShape
  <2> QED
    BY <1>6, <2>3, <2>6, <2>7, <2>9, <2>11, <2>15, <2>17, <2>18, GrantStep
<1>9. ASSUME NEW s \in Clock, Fair(u, c, s), UNCHANGED <<grant, bought>>,
             req' = [req EXCEPT ![r] = [req[r] EXCEPT !.at = "create", !.token = 0, !.expires = s]]
      PROVE  TrialInv'
  <2>1. PICK x \in Redemption :
           /\ x = [req[r] EXCEPT !.at = "create", !.token = 0, !.expires = s]
           /\ x.at = "create" /\ x.user = u /\ x.card = c /\ x.expires = s
    BY <1>7
  <2>4. Knows(x)
    BY <2>1 DEF Knows
  <2>2. req' = [req EXCEPT ![r] = x]
    BY <1>9, <2>1
  <2>3. Fair(x.user, x.card, x.expires)
    BY <1>9, <2>1
  <2> QED
    BY <1>6, <1>9, <2>1, <2>2, <2>3, <2>4, RequestStep DEF Trials!history
<1>10. Fair(u, c, grant[u][c].expires) /\ Fair(u, c, Nothing)
  BY <1>1 DEF FairInv, Fair
<1>11. \/ /\ grant[u][c].id = req[r].token
          /\ grant' = [grant EXCEPT ![u][c] = [grant[u][c] EXCEPT !.opened = now, !.expires = t]]
          /\ bought' = [bought EXCEPT ![u][c] = Trials!Later(bought[u][c], t)]
          /\ req' = [req EXCEPT ![r] = [req[r] EXCEPT !.at = "create", !.token = 0, !.expires = t]]
       \/ /\ UNCHANGED <<grant, bought>>
          /\ req' = [req EXCEPT ![r] = [req[r] EXCEPT !.at = "create", !.token = 0, !.expires = grant[u][c].expires]]
       \/ /\ UNCHANGED <<grant, bought>>
          /\ req' = [req EXCEPT ![r] = [req[r] EXCEPT !.at = "create", !.token = 0, !.expires = Nothing]]
  BY <1>2, <1>3, <1>4 DEF Trials!OpenTrial, Trials!Opens
<1> QED
  BY <1>5, <1>8, <1>9, <1>10, <1>11

(* Every step of the trials keeps the invariant.                           *)
LEMMA TrialsKept ==
  ASSUME TrialNumbers, TrialInv, [Trials!Next]_(Trials!vars)
  PROVE  TrialInv'
<1>1. ASSUME NEW r \in Request, NEW u \in User, NEW c \in Card, Trials!Submit(r, u, c) PROVE TrialInv'
  BY <1>1, SubmitKeeps
<1>2. ASSUME NEW r \in Request, Trials!Redeem(r) PROVE TrialInv'
  BY <1>2, RedeemKeeps
<1>3. ASSUME NEW r \in Request, Trials!OpenTrial(r) PROVE TrialInv'
  BY <1>3, OpenKeeps
<1>4. ASSUME NEW r \in Request, Trials!CreateMembership(r) PROVE TrialInv'
  BY <1>4, CreateKeeps
<1>5. ASSUME NEW r \in Request, Trials!SlotMembership(r) PROVE TrialInv'
  BY <1>5, SlotKeeps
<1>6. ASSUME NEW r \in Request, Trials!RenewMembership(r) PROVE TrialInv'
  BY <1>6, RenewKeeps
<1>7. ASSUME NEW r \in Request, Trials!Abandon(r) PROVE TrialInv'
  BY <1>7, AbandonKeeps
<1>8. ASSUME NEW u \in User, Trials!FindTrial(u) PROVE TrialInv'
  BY <1>8, FindTrialKeeps
<1>9. ASSUME NEW u \in User, NEW c \in Card, Trials!ClearUse(u, c) PROVE TrialInv'
  BY <1>9, ClearKeeps
<1>10. CASE Trials!EndTrial
  BY <1>10, EndKeeps
<1>11. CASE Trials!FindGrant
  BY <1>11, FindGrantKeeps
<1>12. CASE Trials!CloseGrant
  BY <1>12, CloseKeeps
<1>13. CASE Trials!DropOldGrants
  BY <1>13, DropKeeps
<1>14. CASE Trials!NextHour
  BY <1>14, HourKeeps
<1>15. ASSUME NEW c \in Card, Trials!ExpireCampaign(c) PROVE TrialInv'
  BY <1>15, ExpireKeeps
<1>16. CASE UNCHANGED Trials!vars
  <2>1. UNCHANGED <<now, card, grant, rows, req, ending, minted, usesCleared, retired, bought>>
    BY <1>16 DEF Trials!vars, Trials!history
  <2>2. ending' \in EndRequest /\ EndKnows(ending)'
    BY <2>1, RequestsKept DEF TrialInv, TrialShape
  <2> QED
    BY <2>1, <2>2, EndingStep DEF Trials!history
<1> QED
  BY <1>1, <1>2, <1>3, <1>4, <1>5, <1>6, <1>7, <1>8, <1>9, <1>10, <1>11, <1>12, <1>13, <1>14,
     <1>15, <1>16 DEF Trials!Next

(* It holds when nothing has been redeemed.                                *)
LEMMA TrialsBegin ==
  ASSUME TrialNumbers, Trials!Init
  PROVE  TrialInv
<1>1. /\ now = 0 /\ card = [c \in Card |-> [count |-> 0, active |-> TRUE]]
      /\ grant = [u \in User |-> [c \in Card |-> Trials!NoGrant]]
      /\ rows = [u \in User |-> <<>>] /\ req = [r \in Request |-> Trials!NoReq]
      /\ ending = Trials!NoEnding
      /\ minted = [u \in User |-> [c \in Card |-> 0]]
      /\ usesCleared = [u \in User |-> [c \in Card |-> 0]]
      /\ retired = [u \in User |-> [c \in Card |-> 0]]
      /\ bought = [u \in User |-> [c \in Card |-> 0]]
  BY DEF Trials!Init
<1>2. /\ card \in [Card -> [count : Nat, active : BOOLEAN]]
      /\ minted \in Counts /\ usesCleared \in Counts /\ retired \in Counts
      /\ bought \in [User -> [Card -> Int]] /\ rows \in [User -> Seq(MemberRow)]
  BY <1>1 DEF Counts
<1>3. grant \in [User -> [Card -> GrantRow]] /\ req \in [Request -> Redemption] /\ ending \in EndRequest
  BY <1>1, Blank
<1>4. ASSUME NEW r \in Request PROVE Knows(req[r]) /\ req[r].at = "idle"
  BY <1>1, Blank DEF Knows
<1>5. EndKnows(ending)
  BY <1>1, Blank DEF EndKnows
<1>6. TrialShape
  BY <1>1, <1>2, <1>3, <1>4, <1>5 DEF TrialShape
<1>7. ASSUME NEW u \in User, NEW c \in Card PROVE Minted(u, c) /\ Fair(u, c, grant[u][c].expires)
  <2>1. grant[u][c].id = 0 /\ grant[u][c].expires = Nothing
    BY <1>1, Blank
  <2>2. minted[u][c] = 0 /\ usesCleared[u][c] = 0 /\ retired[u][c] = 0
    BY <1>1
  <2> QED
    BY <2>1, <2>2 DEF Minted, Fair
<1>8. CountInv
  <2>1. ASSUME NEW c \in Card PROVE card[c].count <= Slots[c]
    BY <1>1 DEF TrialNumbers
  <2> QED
    BY <1>7, <2>1 DEF CountInv
<1>9. FairInv
  BY <1>1, <1>4, <1>7 DEF FairInv
<1> QED
  BY <1>6, <1>8, <1>9 DEF TrialInv

(* The trials of the composition keep their invariant, whatever the other  *)
(* services do.                                                            *)
LEMMA TrialsInvariant ==
  ASSUME TrialNumbers
  PROVE  Spec => [](focus = "trials" => TrialInv)
<1> DEFINE IInv == focus = "trials" => TrialInv
<1>1. Init => IInv
  BY TrialsBegin DEF Init
<1>2. IInv /\ [Next]_vars => IInv'
  <2>1. ASSUME focus = "trials", [Next]_vars PROVE [Trials!Next]_(Trials!vars)
    BY <2>1 DEF Next, vars, trialVars, Trials!vars, Trials!history
  <2>2. ASSUME [Next]_vars PROVE focus' = focus
    BY <2>2 DEF Next, Others, vars
  <2> QED
    BY <2>1, <2>2, TrialsKept
<1> QED
  BY <1>1, <1>2, PTL DEF Spec

(* However redemptions overlap, fail half way and are tried again,         *)
(* whatever the operator clears and the retention job deletes, a card is   *)
(* redeemed within its slots and a second slot of an account needs its     *)
(* first grant gone (redeem_campaign_code; server/adminCampaigns.ts        *)
(* clearRedemptionUse).                                                    *)
THEOREM SlotsAreCounted == Spec => []SlotsCounted
<1> TrialNumbers
  BY ServiceConstants
<1>1. ASSUME TrialInv PROVE Trials!SlotsCounted
  <2>1. ASSUME NEW u \in User, NEW c \in Card
        PROVE  minted[u][c] <= 1 + usesCleared[u][c] + retired[u][c]
    <3>1. minted[u][c] \in Nat /\ usesCleared[u][c] \in Nat /\ retired[u][c] \in Nat
      BY <1>1 DEF TrialInv, TrialShape, Counts
    <3>2. \/ minted[u][c] = usesCleared[u][c] + retired[u][c] + 0
          \/ minted[u][c] = usesCleared[u][c] + retired[u][c] + 1
      BY <1>1 DEF TrialInv, CountInv, Minted
    <3> QED
      BY <3>1, <3>2
  <2> QED
    BY <1>1, <2>1 DEF TrialInv, CountInv, Trials!SlotsCounted
<1>2. (focus = "trials" => TrialInv) => SlotsCounted
  BY <1>1 DEF SlotsCounted
<1> QED
  BY <1>2, TrialsInvariant, PTL

(* A membership is never live past what a first open bought for its        *)
(* account and card, whichever of the requests for it wrote it last        *)
(* (open_trial; server/accounts.ts redeemVoucher, renewMembership;         *)
(* server/adminTrials.ts endTrialForEmail).                                *)
THEOREM OneTrialEach == Spec => []OneTrialPerGrant
<1> TrialNumbers
  BY ServiceConstants
<1>1. ASSUME TrialInv PROVE Trials!OneTrialPerGrant
  <2>1. ASSUME NEW u \in User, NEW i \in Trials!LiveRows(u), rows[u][i].expires # Nothing
        PROVE  rows[u][i].expires <= bought[u][rows[u][i].card]
    <3>1. i \in 1 .. Len(rows[u]) /\ rows[u][i].expires > now
      BY <2>1 DEF Trials!LiveRows, Trials!Holding, Trials!Live
    <3>2. Fair(u, rows[u][i].card, rows[u][i].expires)
      BY <1>1, <3>1 DEF TrialInv, FairInv
    <3>3. rows[u][i].expires \in Int /\ now \in Int
      BY <1>1, <2>1, <3>1, ClocksTyped DEF TrialInv, TrialShape, Clock
    <3> QED
      BY <2>1, <3>1, <3>2, <3>3 DEF Fair
  <2> QED
    BY <2>1 DEF Trials!OneTrialPerGrant
<1>2. (focus = "trials" => TrialInv) => OneTrialPerGrant
  BY <1>1 DEF OneTrialPerGrant
<1> QED
  BY <1>2, TrialsInvariant, PTL

----------------------------------------------------------------------------
(* The rate limiter.                                                       *)

(* A set of numbers that is not empty has a least one.                     *)
LEMMA LeastNumber ==
  ASSUME NEW U \in SUBSET Nat, U # {}
  PROVE  \E x \in U : \A y \in U : x <= y
<1> DEFINE R == StrictSubsetOrdering(Nat)
           T == {0 .. x : x \in U}
<1>1. \A x \in Nat : 0 .. x \in FiniteSubsetsOf(Nat)
  <2> TAKE x \in Nat
  <2>1. IsFiniteSet(0 .. x)
    BY FS_Interval
  <2>2. 0 .. x \in SUBSET Nat
    OBVIOUS
  <2> QED
    BY <2>1, <2>2 DEF FiniteSubsetsOf
<1>2. T \subseteq FiniteSubsetsOf(Nat) /\ T # {}
  <2>1. T \subseteq FiniteSubsetsOf(Nat)
    <3> SUFFICES ASSUME NEW x \in U PROVE 0 .. x \in FiniteSubsetsOf(Nat)
      OBVIOUS
    <3> QED
      BY <1>1
  <2>2. T # {}
    <3> PICK x \in U : TRUE
      OBVIOUS
    <3> 0 .. x \in T
      OBVIOUS
    <3> QED
      OBVIOUS
  <2> QED
    BY <2>1, <2>2
<1>3. IsWellFoundedOn(R, FiniteSubsetsOf(Nat))
  BY FS_StrictSubsetOrderingWellFounded
<1> HIDE DEF R, T
<1>4. \E S \in T : \A Z \in T : ~(<<Z, S>> \in R)
  BY <1>2, <1>3, WFMin
<1>5. PICK x \in U : \A y \in U : ~(<<0 .. y, 0 .. x>> \in R)
  BY <1>4 DEF T
<1>6. ASSUME NEW y \in U, y < x PROVE FALSE
  <2>0. x \in Nat /\ y \in Nat
    OBVIOUS
  <2>1. 0 .. y \in SUBSET Nat /\ 0 .. x \in SUBSET Nat
    OBVIOUS
  <2>2. x \in 0 .. x /\ x \notin 0 .. y
    BY <1>6, <2>0
  <2>3. 0 .. y \subseteq 0 .. x
    BY <1>6, <2>0
  <2> DEFINE Y == 0 .. y
             X == 0 .. x
  <2> HIDE DEF X, Y
  <2>4. Y \in SUBSET Nat /\ X \in SUBSET Nat /\ Y \subseteq X /\ Y # X
    BY <2>1, <2>2, <2>3 DEF X, Y
  <2>5. <<Y, X>> \in R
    BY <2>4 DEF R, StrictSubsetOrdering
  <2> QED
    BY <2>5, <1>5 DEF X, Y
<1> QED BY <1>6

(* i is the first of the times in the window of t, or the place after them.*)
IsFirst(i, times, t) ==
  /\ i \in 1 .. Len(times) + 1
  /\ \A j \in 1 .. i - 1 : t - times[j] >= WindowMs
  /\ i <= Len(times) => t - times[i] < WindowMs

(* What the code's while loop stops at exists for any times, in any order, *)
(* and is what First says.                                                 *)
LEMMA FirstIsFirst ==
  ASSUME LimiterSizes, NEW times \in Seq(Int), NEW t \in Int
  PROVE  IsFirst(Limiter!First(times, t), times, t)
<1> DEFINE U == {i \in 1 .. Len(times) + 1 : i <= Len(times) => t - times[i] < WindowMs}
<1>0. Len(times) \in Nat
  OBVIOUS
<1>1. Len(times) + 1 \in U /\ U \in SUBSET Nat
  BY <1>0
<1>2. PICK i \in U : \A y \in U : i <= y
  BY <1>1, LeastNumber, Zenon
<1>3. i \in 1 .. Len(times) + 1 /\ (i <= Len(times) => t - times[i] < WindowMs)
  BY <1>2
<1>4. ASSUME NEW j \in 1 .. i - 1 PROVE t - times[j] >= WindowMs
  <2>1. j \in 1 .. Len(times) /\ j < i /\ times[j] \in Int
    BY <1>3, <1>0
  <2>2. j \notin U
    BY <1>2, <1>3, <2>1
  <2> QED
    BY <2>1, <2>2, <1>0 DEF LimiterSizes
<1>5. IsFirst(i, times, t)
  BY <1>3, <1>4 DEF IsFirst
<1> QED
  BY <1>5 DEF IsFirst, Limiter!First

(* There is only one such place.                                           *)
LEMMA OnlyFirst ==
  ASSUME LimiterSizes, NEW times \in Seq(Int), NEW t \in Int, NEW i, IsFirst(i, times, t)
  PROVE  Limiter!First(times, t) = i
<1>1. PICK f : f = Limiter!First(times, t)
  OBVIOUS
<1>2. IsFirst(f, times, t)
  BY <1>1, FirstIsFirst
<1>3. f \in 1 .. Len(times) + 1 /\ i \in 1 .. Len(times) + 1 /\ Len(times) \in Nat
  BY <1>2 DEF IsFirst
<1>4. ~(f < i)
  <2> SUFFICES ASSUME f < i PROVE FALSE
    OBVIOUS
  <2>1. f \in 1 .. i - 1 /\ f <= Len(times) /\ times[f] \in Int
    BY <1>3
  <2> QED
    BY <2>1, <1>2 DEF IsFirst, LimiterSizes
<1>5. ~(i < f)
  <2> SUFFICES ASSUME i < f PROVE FALSE
    OBVIOUS
  <2>1. i \in 1 .. f - 1 /\ i <= Len(times) /\ times[i] \in Int
    BY <1>3
  <2> QED
    BY <2>1, <1>2 DEF IsFirst, LimiterSizes
<1> QED
  BY <1>1, <1>3, <1>4, <1>5

(* What is left of the times when those before the f-th have gone.         *)
IsShift(left, f, times) ==
  /\ left \in Seq(Int) /\ f \in 1 .. Len(times) + 1
  /\ Len(left) = Len(times) - f + 1
  /\ \A i \in 1 .. Len(left) : left[i] = times[f + i - 1]

(* What shifting leaves is the end of the times.                           *)
LEMMA ShiftedIsShift ==
  ASSUME LimiterSizes, NEW times \in Seq(Int), NEW t \in Int
  PROVE  IsShift(Limiter!Shifted(times, t), Limiter!First(times, t), times)
<1>0. PICK f, left : f = Limiter!First(times, t) /\ left = Limiter!Shifted(times, t)
  OBVIOUS
<1>1. IsFirst(f, times, t)
  BY <1>0, FirstIsFirst
<1>2. f \in 1 .. Len(times) + 1 /\ Len(times) \in Nat
  BY <1>1 DEF IsFirst
<1>3. left = SubSeq(times, f, Len(times))
  BY <1>0 DEF Limiter!Shifted
<1>4. /\ left \in Seq(Int)
      /\ Len(left) = IF f <= Len(times) THEN Len(times) - f + 1 ELSE 0
      /\ \A i \in 1 .. Len(times) - f + 1 : left[i] = times[f + i - 1]
  <2>1. CASE f <= Len(times)
    BY SMTT(30), <1>2, <1>3, <2>1, SubSeqProperties
  <2>2. CASE f = Len(times) + 1
    BY SMTT(30), <1>2, <1>3, <2>2, SubSeqProperties
  <2> QED
    BY <1>2, <2>1, <2>2
<1>5. IsShift(left, f, times)
  BY <1>2, <1>4 DEF IsShift
<1> QED
  BY <1>0, <1>5

(* Shifting at a later time what an earlier request shifted gives what     *)
(* shifting everything at once does.                                       *)
LEMMA ShiftedAgain ==
  ASSUME LimiterSizes, NEW times \in Seq(Int), NEW t \in Int, NEW u \in Int, t <= u
  PROVE  Limiter!Shifted(Limiter!Shifted(times, t), u) = Limiter!Shifted(times, u)
<1>1. PICK f, g, left : /\ f = Limiter!First(times, t) /\ g = Limiter!First(times, u)
                        /\ left = Limiter!Shifted(times, t)
  OBVIOUS
<1>a. IsShift(left, f, times)
  BY <1>1, ShiftedIsShift
<1>2. /\ left \in Seq(Int) /\ f \in 1 .. Len(times) + 1
      /\ Len(left) = Len(times) - f + 1
      /\ \A i \in 1 .. Len(left) : left[i] = times[f + i - 1]
  BY <1>a DEF IsShift
<1>3. IsFirst(f, times, t) /\ IsFirst(g, times, u)
  BY <1>1, FirstIsFirst
<1>4. f \in Nat /\ g \in 1 .. Len(times) + 1 /\ Len(times) \in Nat
  BY <1>2, <1>3 DEF IsFirst
<1>5. f <= g
  <2> SUFFICES ASSUME g < f PROVE FALSE
    BY <1>4
  <2>1. g \in 1 .. f - 1 /\ g <= Len(times) /\ times[g] \in Int
    BY <1>2, <1>4
  <2>2. t - times[g] >= WindowMs /\ u - times[g] < WindowMs
    BY <1>3, <2>1 DEF IsFirst
  <2> QED
    BY <2>1, <2>2 DEF LimiterSizes
<1>6. IsFirst(g - f + 1, left, u)
  <2>1. g - f + 1 \in 1 .. Len(left) + 1
    BY <1>2, <1>4, <1>5
  <2>2. ASSUME NEW j \in 1 .. (g - f + 1) - 1 PROVE u - left[j] >= WindowMs
    <3>1. f \in Nat /\ g \in Nat /\ j \in Nat /\ j >= 1 /\ j <= g - f /\ Len(left) = Len(times) - f + 1
      BY <1>2, <1>4, <1>5
    <3>2. j <= Len(left) /\ f + j - 1 >= 1 /\ f + j - 1 <= g - 1
      BY <1>2, <1>4, <3>1
    <3>3. j \in 1 .. Len(left) /\ f + j - 1 \in 1 .. g - 1
      BY <1>4, <3>1, <3>2
    <3> QED
      BY <1>2, <1>3, <3>3 DEF IsFirst
  <2>3. ASSUME g - f + 1 <= Len(left) PROVE u - left[g - f + 1] < WindowMs
    <3>1. g - f + 1 \in 1 .. Len(left) /\ f + (g - f + 1) - 1 = g /\ g <= Len(times)
      BY SMTT(30), <1>2, <1>4, <1>5, <2>3
    <3>2. left[g - f + 1] = times[g]
      BY <1>2, <3>1
    <3> QED
      BY <1>3, <3>1, <3>2 DEF IsFirst
  <2> QED
    BY <2>1, <2>2, <2>3 DEF IsFirst
<1>7. Limiter!First(left, u) = g - f + 1
  BY <1>2, <1>6, OnlyFirst
<1>8. PICK a, b : a = Limiter!Shifted(left, u) /\ b = Limiter!Shifted(times, u)
  OBVIOUS
<1>9. /\ a \in Seq(Int) /\ Len(a) = Len(left) - (g - f + 1) + 1
      /\ \A i \in 1 .. Len(a) : a[i] = left[(g - f + 1) + i - 1]
  <2>1. IsShift(a, g - f + 1, left)
    BY <1>2, <1>7, <1>8, ShiftedIsShift
  <2> QED
    BY <2>1 DEF IsShift
<1>10. /\ b \in Seq(Int) /\ Len(b) = Len(times) - g + 1
       /\ \A i \in 1 .. Len(b) : b[i] = times[g + i - 1]
  <2>1. IsShift(b, g, times)
    BY <1>1, <1>8, ShiftedIsShift
  <2> QED
    BY <2>1 DEF IsShift
<1>11. Len(a) = Len(b)
  BY <1>2, <1>4, <1>9, <1>10
<1>12. ASSUME NEW i \in 1 .. Len(a) PROVE a[i] = b[i]
  <2>1. /\ (g - f + 1) + i - 1 \in 1 .. Len(left)
        /\ f + ((g - f + 1) + i - 1) - 1 = g + i - 1
    BY <1>2, <1>4, <1>5, <1>9
  <2>2. a[i] = left[(g - f + 1) + i - 1] /\ b[i] = times[g + i - 1]
    BY <1>9, <1>10, <1>11
  <2>3. left[(g - f + 1) + i - 1] = times[f + ((g - f + 1) + i - 1) - 1]
    BY <1>2, <2>1
  <2> QED
    BY <2>1, <2>2, <2>3
<1>13. a = b
  BY <1>9, <1>10, <1>11, <1>12, SeqEqual
<1> QED
  BY <1>1, <1>8, <1>13

(* A request let through now is not shifted out by itself.                 *)
LEMMA ShiftedAndServed ==
  ASSUME LimiterSizes, NEW times \in Seq(Int), NEW t \in Int
  PROVE  LET left == Limiter!Shifted(times, t)
         IN  Limiter!Shifted(Append(left, t), t) = Append(left, t)
<1>1. PICK f, left : f = Limiter!First(times, t) /\ left = Limiter!Shifted(times, t)
  OBVIOUS
<1>a. IsShift(left, f, times)
  BY <1>1, ShiftedIsShift
<1>2. /\ left \in Seq(Int) /\ f \in 1 .. Len(times) + 1
      /\ Len(left) = Len(times) - f + 1
      /\ \A i \in 1 .. Len(left) : left[i] = times[f + i - 1]
  BY <1>a DEF IsShift
<1>3. IsFirst(f, times, t)
  BY <1>1, FirstIsFirst
<1>4. PICK more : more = Append(left, t)
  OBVIOUS
<1>5. /\ more \in Seq(Int) /\ Len(more) = Len(left) + 1 /\ more[Len(left) + 1] = t
      /\ \A i \in 1 .. Len(left) : more[i] = left[i]
  <2>1. left \in Seq(Int)
    BY <1>2
  <2> QED
    BY <1>4, <2>1
<1>6. t - more[1] < WindowMs
  <2>1. CASE Len(left) = 0
    BY <1>5, <2>1 DEF LimiterSizes
  <2>2. CASE Len(left) # 0
    <3>1. 1 \in 1 .. Len(left) /\ f <= Len(times) /\ f + 1 - 1 = f
      BY <1>2, <2>2
    <3>2. more[1] = times[f]
      BY <1>2, <1>5, <3>1
    <3> QED
      BY <1>3, <3>1, <3>2 DEF IsFirst
  <2> QED
    BY <2>1, <2>2
<1>7. IsFirst(1, more, t)
  BY <1>2, <1>5, <1>6 DEF IsFirst
<1>8. Limiter!First(more, t) = 1
  BY <1>5, <1>7, OnlyFirst
<1>9. PICK a : a = Limiter!Shifted(more, t)
  OBVIOUS
<1>10. /\ a \in Seq(Int) /\ Len(a) = Len(more) - 1 + 1
       /\ \A i \in 1 .. Len(a) : a[i] = more[1 + i - 1]
  <2>1. IsShift(a, 1, more)
    BY <1>5, <1>8, <1>9, ShiftedIsShift
  <2> QED
    BY <2>1 DEF IsShift
<1>11. Len(a) = Len(more)
  BY <1>5, <1>10
<1>12. \A i \in 1 .. Len(a) : a[i] = more[i]
  <2> TAKE i \in 1 .. Len(a)
  <2>1. 1 + i - 1 = i
    BY <1>10
  <2> QED
    BY <1>10, <2>1
<1>13. a = more
  BY <1>5, <1>10, <1>11, <1>12, SeqEqual
<1> QED
  BY <1>1, <1>4, <1>9, <1>13

(* Times that have all left the window are all shifted out.                *)
LEMMA ShiftedOut ==
  ASSUME LimiterSizes, NEW times \in Seq(Int), NEW t \in Int,
         \A i \in 1 .. Len(times) : t - times[i] >= WindowMs
  PROVE  Limiter!Shifted(times, t) = <<>>
<1>1. IsFirst(Len(times) + 1, times, t)
  <2>1. Len(times) \in Nat /\ (Len(times) + 1) - 1 = Len(times)
    OBVIOUS
  <2> QED
    BY <2>1 DEF IsFirst
<1>2. Limiter!First(times, t) = Len(times) + 1
  BY <1>1, OnlyFirst
<1>3. PICK a : a = Limiter!Shifted(times, t)
  OBVIOUS
<1>4. a \in Seq(Int) /\ Len(a) = Len(times) - (Len(times) + 1) + 1
  <2>1. IsShift(a, Len(times) + 1, times)
    BY <1>2, <1>3, ShiftedIsShift
  <2> QED
    BY <2>1 DEF IsShift
<1>5. Len(a) = 0
  BY <1>4
<1> QED
  BY <1>3, <1>4, <1>5, EmptySeq
(* The last time of an entry is its latest, and none is in the future.     *)
Ordered(record, t) ==
  \A k \in Key : \A i \in 1 .. Len(record[k]) :
    record[k][i] <= record[k][Len(record[k])] /\ record[k][i] <= t

(* The requests let through in the window are the hits on record in it.    *)
Counted(record, t) ==
  \A k \in Key : allowed[k] = Limiter!Shifted(record[k], t)

LimiterShape ==
  /\ now \in Int
  /\ hits \in [Key -> Seq(Int)] /\ allowed \in [Key -> Seq(Int)]

BudgetInv ==
  /\ LimiterShape
  /\ Ordered(hits, now) /\ Counted(hits, now)
  /\ Limiter!BudgetHolds

(* What shifting leaves is in order and in the past, if the times were.    *)
LEMMA ShiftedOrdered ==
  ASSUME LimiterSizes, NEW times \in Seq(Int), NEW t \in Int, NEW u \in Int,
         \A i \in 1 .. Len(times) : times[i] <= times[Len(times)] /\ times[i] <= u,
         NEW left, left = Limiter!Shifted(times, t)
  PROVE  /\ left \in Seq(Int)
         /\ \A i \in 1 .. Len(left) : left[i] <= left[Len(left)] /\ left[i] <= u
<1>1. PICK f : f = Limiter!First(times, t)
  OBVIOUS
<1>2. IsShift(left, f, times)
  BY <1>1, ShiftedIsShift
<1> QED
  <2> SUFFICES ASSUME NEW i \in 1 .. Len(left)
               PROVE  left[i] <= left[Len(left)] /\ left[i] <= u
    BY <1>2 DEF IsShift
  <2>1. /\ f + i - 1 \in 1 .. Len(times) /\ f + Len(left) - 1 = Len(times)
        /\ Len(left) \in 1 .. Len(left)
    BY <1>2 DEF IsShift
  <2>2. left[i] = times[f + i - 1] /\ left[Len(left)] = times[f + Len(left) - 1]
    BY <1>2, <2>1 DEF IsShift
  <2> QED
    BY <2>1, <2>2

(* A request is judged on a record that counts right: so does what it      *)
(* leaves, and the budget holds.                                           *)
LEMMA JudgedRight ==
  ASSUME LimiterSizes, BudgetInv, NEW k \in Key, NEW record \in [Key -> Seq(Int)],
         Ordered(record, now), Counted(record, now),
         Limiter!Judge(k, record), now' = now
  PROVE  BudgetInv'
<1>1. PICK left, t : left = Limiter!Shifted(record[k], now) /\ t = now
  OBVIOUS
<1>2. t \in Int /\ record[k] \in Seq(Int)
  BY <1>1 DEF BudgetInv, LimiterShape
<1>3. /\ left \in Seq(Int) /\ allowed[k] = left
      /\ \A i \in 1 .. Len(left) : left[i] <= left[Len(left)] /\ left[i] <= t
  <2>1. \A i \in 1 .. Len(record[k]) :
           record[k][i] <= record[k][Len(record[k])] /\ record[k][i] <= t
    BY <1>1 DEF Ordered
  <2> QED
    BY <1>1, <1>2, <2>1, ShiftedOrdered DEF Counted
<1>4. CASE Len(left) >= Limit
  <2>1. hits' = [record EXCEPT ![k] = left] /\ allowed' = allowed
    BY <1>1, <1>4 DEF Limiter!Judge
  <2>2. LimiterShape'
    BY <1>3, <2>1 DEF BudgetInv, LimiterShape
  <2>3. Ordered(hits', t)
    BY <1>1, <1>3, <2>1 DEF Ordered
  <2>4. Limiter!Shifted(left, t) = left
    BY <1>1, <1>2, ShiftedAgain
  <2>5. \A j \in Key : allowed'[j] = Limiter!Shifted(hits'[j], t)
    BY <1>1, <1>3, <2>1, <2>4 DEF Counted
  <2> QED
    BY <1>1, <2>1, <2>2, <2>3, <2>5 DEF BudgetInv, Counted, Limiter!BudgetHolds
<1>5. CASE ~(Len(left) >= Limit)
  <2>1. PICK more : more = Append(left, t)
    OBVIOUS
  <2>2. hits' = [record EXCEPT ![k] = more] /\ allowed' = [allowed EXCEPT ![k] = more]
    BY <1>1, <1>3, <1>5, <2>1 DEF Limiter!Judge
  <2>3. /\ more \in Seq(Int) /\ Len(more) = Len(left) + 1 /\ more[Len(more)] = t
        /\ \A i \in 1 .. Len(left) : more[i] = left[i]
    BY <1>2, <1>3, <2>1
  <2>4. LimiterShape'
    BY <2>2, <2>3 DEF BudgetInv, LimiterShape
  <2>5. \A i \in 1 .. Len(more) : more[i] <= more[Len(more)] /\ more[i] <= t
    <3> TAKE i \in 1 .. Len(more)
    <3>1. CASE i \in 1 .. Len(left)
      BY <1>2, <1>3, <2>3, <3>1
    <3>2. CASE i = Len(more)
      BY <1>2, <2>3, <3>2
    <3> QED
      BY <1>3, <2>3, <3>1, <3>2
  <2>6. Ordered(hits', t)
    BY <1>1, <2>2, <2>5 DEF Ordered
  <2>7. Limiter!Shifted(more, t) = more
    BY <1>1, <1>2, <2>1, ShiftedAndServed
  <2>8. \A j \in Key : allowed'[j] = Limiter!Shifted(hits'[j], t)
    BY <1>1, <2>2, <2>7 DEF Counted, BudgetInv, LimiterShape
  <2>9. Len(more) <= Limit
    BY <1>3, <1>5, <2>3 DEF LimiterSizes
  <2>10. \A j \in Key : Len(allowed'[j]) <= Limit
    BY <2>2, <2>9 DEF BudgetInv, LimiterShape, Limiter!BudgetHolds
  <2> QED
    BY <1>1, <2>4, <2>6, <2>8, <2>10 DEF BudgetInv, Counted, Limiter!BudgetHolds
<1> QED
  BY <1>4, <1>5

(* A sweep changes no count: what it drops has left the window.            *)
LEMMA SweptRecord ==
  ASSUME LimiterSizes, BudgetInv
  PROVE  /\ Limiter!Kept \in [Key -> Seq(Int)]
         /\ Ordered(Limiter!Kept, now) /\ Counted(Limiter!Kept, now)
<1>1. PICK kept : kept = Limiter!Kept
  OBVIOUS
<1>2. kept = [k \in Key |-> IF k \in Limiter!Expired THEN <<>> ELSE hits[k]]
  BY <1>1 DEF Limiter!Kept
<1>3. \A k \in Key : <<>> \in Seq(Int) /\ hits[k] \in Seq(Int)
  BY DEF BudgetInv, LimiterShape
<1>4. kept \in [Key -> Seq(Int)]
  BY <1>2, <1>3
<1>5. Ordered(kept, now)
  BY <1>2 DEF Ordered, BudgetInv
<1>6. ASSUME NEW k \in Key PROVE allowed[k] = Limiter!Shifted(kept[k], now)
  <2>1. CASE k \notin Limiter!Expired
    BY <1>2, <2>1 DEF BudgetInv, Counted
  <2>2. CASE k \in Limiter!Expired
    <3>1. PICK times : times = hits[k]
      OBVIOUS
    <3>2. /\ times \in Seq(Int) /\ now \in Int /\ times # <<>>
          /\ times[Len(times)] + WindowMs <= now
      BY <1>3, <2>2, <3>1
      DEF Limiter!Expired, Limiter!Entries, Limiter!ExpiresAt, BudgetInv, LimiterShape
    <3>3. Len(times) \in 1 .. Len(times)
      BY <3>2, EmptySeq
    <3>4. \A i \in 1 .. Len(times) : times[i] <= times[Len(times)]
      BY <3>1 DEF BudgetInv, Ordered
    <3>5. \A i \in 1 .. Len(times) : now - times[i] >= WindowMs
      BY <3>2, <3>3, <3>4 DEF LimiterSizes
    <3>6. Limiter!Shifted(times, now) = <<>>
      BY <3>2, <3>5, ShiftedOut
    <3>7. Limiter!Shifted(<<>>, now) = <<>>
      <4>1. <<>> \in Seq(Int) /\ \A i \in 1 .. Len(<<>>) : now - (<<>>)[i] >= WindowMs
        OBVIOUS
      <4> QED
        BY <3>2, <4>1, ShiftedOut
    <3> QED
      BY <1>2, <2>2, <3>1, <3>6, <3>7 DEF BudgetInv, Counted
  <2> QED
    BY <2>1, <2>2
<1> QED
  BY <1>1, <1>4, <1>5, <1>6 DEF Counted

(* Every operation of the limiter keeps the count right and within Limit.  *)
LEMMA BudgetStep ==
  ASSUME LimiterSizes, BudgetInv, Limiter!Next
  PROVE  BudgetInv'
<1>1. ASSUME NEW k \in Key, Limiter!Hit(k) PROVE BudgetInv'
  <2>1. PICK record : record = hits
    OBVIOUS
  <2>2. /\ record \in [Key -> Seq(Int)] /\ Ordered(record, now) /\ Counted(record, now)
        /\ Limiter!Judge(k, record) /\ now' = now
    BY <1>1, <2>1 DEF BudgetInv, LimiterShape, Limiter!Hit
  <2> QED
    BY <2>2, JudgedRight
<1>2. ASSUME NEW k \in Key, Limiter!HitAfterSweep(k) PROVE BudgetInv'
  <2>1. PICK record : record = Limiter!Kept
    OBVIOUS
  <2>2. record \in [Key -> Seq(Int)] /\ Ordered(record, now) /\ Counted(record, now)
    BY <2>1, SweptRecord
  <2>3. Limiter!Judge(k, record) /\ now' = now
    BY <1>2, <2>1 DEF Limiter!HitAfterSweep
  <2> QED
    BY <2>2, <2>3, JudgedRight
<1>3. ASSUME NEW k \in Key, Limiter!HitAtCapacity(k) PROVE BudgetInv'
  <2>1. hits' = Limiter!Kept /\ now' = now /\ allowed' = allowed
    BY <1>3 DEF Limiter!HitAtCapacity
  <2>2. PICK record : record = Limiter!Kept
    OBVIOUS
  <2>3. record \in [Key -> Seq(Int)] /\ Ordered(record, now) /\ Counted(record, now)
    BY <2>2, SweptRecord
  <2> QED
    BY <2>1, <2>2, <2>3 DEF BudgetInv, LimiterShape, Ordered, Counted, Limiter!BudgetHolds
<1>4. CASE Limiter!Advance
  <2>1. PICK t : t = now
    OBVIOUS
  <2>2. /\ t \in Int /\ now' = t + 1 /\ hits' = hits
        /\ allowed' = [k \in Key |-> Limiter!Shifted(allowed[k], t + 1)]
    BY <1>4, <2>1 DEF Limiter!Advance, BudgetInv, LimiterShape
  <2>3. ASSUME NEW k \in Key
        PROVE  /\ allowed'[k] \in Seq(Int) /\ Len(allowed'[k]) <= Limit
               /\ allowed'[k] = Limiter!Shifted(hits[k], t + 1)
    <3>1. PICK times, old, left : times = hits[k] /\ old = allowed[k] /\ left = allowed'[k]
      OBVIOUS
    <3>2. /\ times \in Seq(Int) /\ old \in Seq(Int) /\ old = Limiter!Shifted(times, t)
          /\ left = Limiter!Shifted(old, t + 1) /\ Len(old) <= Limit
      BY <2>1, <2>2, <3>1 DEF BudgetInv, LimiterShape, Counted, Limiter!BudgetHolds
    <3>3. left = Limiter!Shifted(times, t + 1)
      BY <2>2, <3>2, ShiftedAgain
    <3>4. PICK f : f = Limiter!First(old, t + 1)
      OBVIOUS
    <3>5. IsShift(left, f, old)
      BY <2>2, <3>2, <3>4, ShiftedIsShift
    <3>6. left \in Seq(Int) /\ Len(left) <= Len(old)
      BY <3>2, <3>5 DEF IsShift
    <3> QED
      BY <3>1, <3>2, <3>3, <3>6 DEF LimiterSizes
  <2>4. LimiterShape'
    BY <2>2, <2>3 DEF BudgetInv, LimiterShape
  <2>5. Ordered(hits', t + 1)
    <3>1. Ordered(hits, t)
      BY <2>1 DEF BudgetInv
    <3> SUFFICES ASSUME NEW k \in Key, NEW i \in 1 .. Len(hits[k])
                 PROVE  hits[k][i] <= hits[k][Len(hits[k])] /\ hits[k][i] <= t + 1
      BY <2>2 DEF Ordered
    <3>2. hits[k][i] <= hits[k][Len(hits[k])] /\ hits[k][i] <= t
      BY <3>1 DEF Ordered
    <3>3. hits[k] \in Seq(Int)
      BY DEF BudgetInv, LimiterShape
    <3>4. hits[k][i] \in Int
      BY <3>3
    <3> QED
      BY <2>2, <3>2, <3>4
  <2> QED
    BY <2>2, <2>3, <2>4, <2>5 DEF BudgetInv, Counted, Limiter!BudgetHolds
<1> QED
  BY <1>1, <1>2, <1>3, <1>4 DEF Limiter!Next

(* The limiter starts with no record and no request counted.               *)
LEMMA BudgetInit ==
  ASSUME LimiterSizes, Init, focus = "limiter"
  PROVE  BudgetInv
<1>1. Limiter!Init
  BY DEF Init
<1>2. /\ now = 0 /\ hits = [k \in Key |-> <<>>] /\ allowed = [k \in Key |-> <<>>]
  BY <1>1 DEF Limiter!Init
<1>3. Limiter!Shifted(<<>>, 0) = <<>>
  <2>1. <<>> \in Seq(Int) /\ 0 \in Int /\ \A i \in 1 .. Len(<<>>) : 0 - (<<>>)[i] >= WindowMs
    OBVIOUS
  <2> QED
    BY <2>1, ShiftedOut
<1>4. \A k \in Key : hits[k] = <<>> /\ allowed[k] = <<>> /\ <<>> \in Seq(Int) /\ Len(<<>>) = 0
  BY <1>2
<1>5. LimiterShape
  BY <1>2, <1>4 DEF LimiterShape
<1>6. Ordered(hits, now)
  BY <1>4 DEF Ordered
<1>7. Counted(hits, now)
  BY <1>2, <1>3, <1>4 DEF Counted
<1>8. Limiter!BudgetHolds
  BY <1>4 DEF Limiter!BudgetHolds, LimiterSizes
<1> QED
  BY <1>5, <1>6, <1>7, <1>8 DEF BudgetInv

(* No window of a client holds more than Limit requests, however others    *)
(* fill the map and whatever a sweep forgets (keyedRateLimit of            *)
(* server/rateLimit.ts).                                                   *)
THEOREM BudgetIsKept == Spec => []BudgetHolds
<1> LimiterSizes
  BY ServiceConstants
<1> DEFINE IInv == focus = "limiter" => BudgetInv
<1>1. Init => IInv
  BY BudgetInit
<1>2. IInv /\ [Next]_vars => IInv'
  <2> SUFFICES ASSUME IInv, [Next]_vars, focus' = "limiter" PROVE BudgetInv'
    OBVIOUS
  <2>1. focus = "limiter"
    BY DEF Next, Others, vars
  <2>2. CASE Limiter!Next
    BY <2>1, <2>2, BudgetStep
  <2>3. CASE UNCHANGED vars
    BY <2>1, <2>3 DEF BudgetInv, LimiterShape, Ordered, Counted, Limiter!BudgetHolds, vars, limitVars
  <2> QED
    BY <2>1, <2>2, <2>3 DEF Next
<1>3. IInv => BudgetHolds
  BY DEF BudgetHolds, BudgetInv
<1> QED
  BY <1>1, <1>2, <1>3, PTL DEF Spec

(* Sweeps are blocked for no more than the throttle, or until the soonest  *)
(* entry expires, which is within a window of the sweep that freed nothing.*)
SweepInv ==
  /\ now \in Nat /\ sweepBlockedUntil \in Int /\ futile \in Int
  /\ -MinSweep <= futile /\ futile <= now
  /\ \/ sweepBlockedUntil <= futile + MinSweep
     \/ /\ sweepBlockedUntil <= futile + WindowMs
        /\ \A k \in Key :
             hits[k] # <<>> => sweepBlockedUntil <= hits[k][Len(hits[k])] + WindowMs

(* The cardinality the limiter's module counts with is the library's.      *)
LEMMA SameSize ==
  ASSUME NEW S PROVE Limiter!Cardinality(S) = Cardinality(S)
BY DEF Cardinality, Limiter!Cardinality

(* Every operation of the limiter keeps the bound on how long sweeps are   *)
(* blocked.                                                                *)
LEMMA SweepStep ==
  ASSUME LimiterSizes, SweepSizes, BudgetInv, SweepInv, Limiter!Next
  PROVE  SweepInv'
<1>1. ASSUME NEW k \in Key, Limiter!Hit(k) PROVE SweepInv'
  <2>1. PICK times, t, left : times = hits[k] /\ t = now /\ left = Limiter!Shifted(times, t)
    OBVIOUS
  <2>2. /\ times \in Seq(Int) /\ t \in Nat
        /\ \A i \in 1 .. Len(times) : times[i] <= times[Len(times)] /\ times[i] <= t
    BY <2>1 DEF BudgetInv, LimiterShape, Ordered, SweepInv
  <2>3. PICK f : f = Limiter!First(times, t)
    OBVIOUS
  <2>4. IsShift(left, f, times)
    BY <2>1, <2>2, <2>3, ShiftedIsShift
  <2>5. left \in Seq(Int) /\ (left # <<>> => times # <<>> /\ left[Len(left)] = times[Len(times)])
    <3> SUFFICES ASSUME left # <<>> PROVE times # <<>> /\ left[Len(left)] = times[Len(times)]
      BY <2>4 DEF IsShift
    <3>1. left \in Seq(Int) /\ Len(left) \in Nat /\ Len(left) # 0 /\ Len(times) \in Nat
      BY <2>4, EmptySeq DEF IsShift
    <3>2. Len(left) \in 1 .. Len(left) /\ f + Len(left) - 1 = Len(times) /\ f \in Nat \ {0}
      BY <2>4, <3>1 DEF IsShift
    <3>3. left[Len(left)] = times[f + Len(left) - 1] /\ Len(times) # 0
      BY <2>4, <3>1, <3>2 DEF IsShift
    <3> QED
      BY <3>2, <3>3
  <2>6. PICK more : more = hits'[k]
    OBVIOUS
  <2>7. /\ now' = t /\ sweepBlockedUntil' = sweepBlockedUntil /\ futile' = futile
        /\ \A j \in Key \ {k} : hits'[j] = hits[j]
        /\ more = left \/ more = Append(left, t)
    BY <1>1, <2>1, <2>6 DEF Limiter!Hit, Limiter!Judge, BudgetInv, LimiterShape
  <2>8. \/ more # <<>> => times # <<>> /\ more[Len(more)] = times[Len(times)]
        \/ more[Len(more)] = t
    <3>1. CASE more = left
      BY <2>5, <3>1
    <3>2. CASE more = Append(left, t)
      <4>1. Len(more) = Len(left) + 1 /\ more[Len(left) + 1] = t
        BY <2>2, <2>5, <3>2
      <4> QED
        BY <4>1
    <3> QED
      BY <2>7, <3>1, <3>2
  <2>9. CASE sweepBlockedUntil <= futile + MinSweep
    BY <2>1, <2>7, <2>9 DEF SweepInv
  <2>10. CASE /\ sweepBlockedUntil <= futile + WindowMs
              /\ \A j \in Key :
                   hits[j] # <<>> => sweepBlockedUntil <= hits[j][Len(hits[j])] + WindowMs
    <3>1. t + WindowMs >= sweepBlockedUntil
      BY <2>1, <2>2, <2>10 DEF SweepInv, LimiterSizes
    <3>2. more # <<>> => sweepBlockedUntil <= more[Len(more)] + WindowMs
      BY <2>1, <2>8, <2>10, <3>1
    <3>3. \A j \in Key :
            hits'[j] # <<>> => sweepBlockedUntil <= hits'[j][Len(hits'[j])] + WindowMs
      BY <2>6, <2>7, <2>10, <3>2
    <3> QED
      BY <2>1, <2>7, <2>10, <3>3 DEF SweepInv
  <2> QED
    BY <2>9, <2>10 DEF SweepInv
<1>2. ASSUME NEW k \in Key, Limiter!HitAfterSweep(k) PROVE SweepInv'
  <2>1. now' = now /\ futile' = futile /\ sweepBlockedUntil' = 0
    BY <1>2 DEF Limiter!HitAfterSweep
  <2> QED
    BY <2>1 DEF SweepInv, SweepSizes
<1>3. ASSUME NEW k \in Key, Limiter!HitAtCapacity(k) PROVE SweepInv'
  <2>1. PICK t, live, soonest :
          /\ t = now /\ live = Limiter!Entries \ Limiter!Expired /\ soonest = Limiter!Soonest
    OBVIOUS
  <2>2. /\ now' = t /\ futile' = t /\ hits' = Limiter!Kept
        /\ sweepBlockedUntil' = IF soonest < t + MinSweep THEN t + MinSweep ELSE soonest
        /\ ~(Limiter!Cardinality(live) < MaxKeys)
    BY <1>3, <2>1 DEF Limiter!HitAtCapacity, Limiter!BlockSweep, Limiter!Later, Limiter!Freed
  <2>3. live # {}
    BY <2>2, SameSize, FS_EmptySet DEF SweepSizes
  <2>4. ASSUME NEW j \in live
        PROVE  /\ j \in Key /\ hits[j] # <<>> /\ Limiter!ExpiresAt(j) \in Nat
               /\ Limiter!ExpiresAt(j) <= t + WindowMs
               /\ Limiter!ExpiresAt(j) = hits[j][Len(hits[j])] + WindowMs
    <3>1. PICK times : times = hits[j]
      OBVIOUS
    <3>2. /\ j \in Key /\ times # <<>> /\ times \in Seq(Int)
          /\ Limiter!ExpiresAt(j) = times[Len(times)] + WindowMs
          /\ ~(Limiter!ExpiresAt(j) <= t)
      BY <2>1, <3>1
      DEF Limiter!Expired, Limiter!Entries, Limiter!ExpiresAt, BudgetInv, LimiterShape
    <3>3. Len(times) \in 1 .. Len(times)
      BY <3>2, EmptySeq
    <3>4. times[Len(times)] \in Int /\ times[Len(times)] <= t /\ t \in Nat
      BY <2>1, <3>1, <3>2, <3>3 DEF BudgetInv, Ordered, SweepInv
    <3> QED
      BY <3>1, <3>2, <3>4 DEF LimiterSizes
  <2>5. soonest \in {Limiter!ExpiresAt(j) : j \in live} /\ \A j \in live : soonest <= Limiter!ExpiresAt(j)
    <3> DEFINE U == {Limiter!ExpiresAt(j) : j \in live}
    <3>1. U # {} /\ U \in SUBSET Nat
      BY <2>3, <2>4
    <3>2. \E u \in U : \A v \in U : u <= v
      BY <3>1, LeastNumber, Zenon
    <3>3. \E u \in U : \A j \in live : u <= Limiter!ExpiresAt(j)
      BY <3>2
    <3>4. soonest = CHOOSE u \in U : \A j \in live : u <= Limiter!ExpiresAt(j)
      BY <2>1 DEF Limiter!Soonest
    <3> HIDE DEF U
    <3>5. soonest \in U /\ \A j \in live : soonest <= Limiter!ExpiresAt(j)
      BY <3>3, <3>4
    <3> QED
      BY <3>5 DEF U
  <2>6. soonest \in Nat /\ soonest <= t + WindowMs
    BY <2>4, <2>5
  <2>7. ASSUME NEW j \in Key, hits'[j] # <<>>
        PROVE  soonest <= hits'[j][Len(hits'[j])] + WindowMs
    <3>1. j \in live /\ hits'[j] = hits[j]
      BY <2>1, <2>2, <2>7 DEF Limiter!Kept, Limiter!Entries
    <3> QED
      BY <2>4, <2>5, <3>1
  <2>8. t \in Nat /\ -MinSweep <= t
    BY <2>1 DEF SweepInv, SweepSizes
  <2>9. CASE soonest < t + MinSweep
    BY <2>2, <2>8, <2>9 DEF SweepInv, SweepSizes
  <2>10. CASE ~(soonest < t + MinSweep)
    BY <2>2, <2>6, <2>7, <2>8, <2>10 DEF SweepInv
  <2> QED
    BY <2>9, <2>10
<1>4. CASE Limiter!Advance
  <2>1. /\ now' = now + 1 /\ hits' = hits /\ futile' = futile
        /\ sweepBlockedUntil' = sweepBlockedUntil
    BY <1>4 DEF Limiter!Advance
  <2> QED
    BY <2>1 DEF SweepInv
<1> QED
  BY <1>1, <1>2, <1>3, <1>4 DEF Limiter!Next

(* The invariant of the limiter holds.                                     *)
LEMMA LimiterInvariant == Spec => [](focus = "limiter" => BudgetInv /\ SweepInv)
<1> LimiterSizes /\ SweepSizes
  BY ServiceConstants
<1> DEFINE IInv == focus = "limiter" => BudgetInv /\ SweepInv
<1>1. Init => IInv
  <2> SUFFICES ASSUME Init, focus = "limiter" PROVE BudgetInv /\ SweepInv
    OBVIOUS
  <2>1. BudgetInv
    BY BudgetInit
  <2>2. Limiter!Init
    BY DEF Init
  <2> QED
    BY <2>1, <2>2 DEF Limiter!Init, SweepInv, SweepSizes
<1>2. IInv /\ [Next]_vars => IInv'
  <2> SUFFICES ASSUME IInv, [Next]_vars, focus' = "limiter" PROVE BudgetInv' /\ SweepInv'
    OBVIOUS
  <2>1. focus = "limiter"
    BY DEF Next, Others, vars
  <2>2. CASE Limiter!Next
    BY <2>1, <2>2, BudgetStep, SweepStep
  <2>3. CASE UNCHANGED vars
    BY <2>1, <2>3 DEF BudgetInv, SweepInv, LimiterShape, Ordered, Counted, Limiter!BudgetHolds, vars, limitVars
  <2> QED
    BY <2>1, <2>2, <2>3 DEF Next
<1> QED
  BY <1>1, <1>2, PTL DEF Spec

(* A full map takes new clients again as soon as an entry has expired and  *)
(* the throttle allows a sweep: sweeps are never blocked past the first    *)
(* moment at which they can free room (sweep of server/rateLimit.ts).      *)
THEOREM RoomIsMade == Spec => []CapacityRecovers
<1> LimiterSizes /\ SweepSizes
  BY ServiceConstants
<1>1. (focus = "limiter" => BudgetInv /\ SweepInv) => CapacityRecovers
  <2> SUFFICES ASSUME BudgetInv, SweepInv, NEW k \in Limiter!Expired,
                      now >= futile + MinSweep
               PROVE  now >= sweepBlockedUntil
    BY DEF CapacityRecovers, Limiter!CapacityRecovers
  <2>1. PICK times : times = hits[k]
    OBVIOUS
  <2>2. /\ k \in Key /\ times # <<>> /\ times \in Seq(Int)
        /\ times[Len(times)] + WindowMs <= now
    BY <2>1 DEF Limiter!Expired, Limiter!Entries, Limiter!ExpiresAt, BudgetInv, LimiterShape
  <2>3. times[Len(times)] \in Int
    BY <2>2, EmptySeq
  <2> QED
    BY <2>1, <2>2, <2>3 DEF SweepInv, SweepSizes, LimiterSizes
<1> QED
  BY <1>1, LimiterInvariant, PTL

----------------------------------------------------------------------------
(* The market simulation.                                                  *)

(* The rows: at most one is armed, and what was armed once stays expired   *)
(* or cleared, never fresh.                                                *)
RowsInv ==
  /\ instant \in Nat
  /\ expires \in [Scenario -> Nat]
  /\ \A s, t \in Drill!Armed : s = t

(* The reads: at most one is under way, and the cache knows of it.         *)
OneRead ==
  /\ flight \in [Flight -> {"off", "asked", "answered"}]
  /\ answer \in [Flight -> Drill!Shown]
  /\ ~inFlight => \A f \in Flight : flight[f] = "off"
  /\ \A f, g \in Flight : flight[f] # "off" /\ flight[g] # "off" => f = g

(* What is shown, or about to be, was armed; what a read is about to       *)
(* replace is cleared; and what was replaced is cleared, so that no read   *)
(* that begins later can see it.                                           *)
WasArmed(s) == s # Drill!None => s \in Scenario /\ expires[s] # 0

Overtaken ==
  /\ WasArmed(cached)
  /\ past \subseteq cleared /\ cached \notin past /\ Drill!None \notin past
  /\ \A f \in Flight : flight[f] = "answered" =>
       /\ WasArmed(answer[f])
       /\ answer[f] \notin past
       /\ cached \notin {Drill!None, answer[f]} => cached \in cleared

SimInv == RowsInv /\ OneRead /\ Overtaken

(* The rows and the reads begin empty.                                     *)
LEMMA SimInitially == Drill!Init => SimInv
<1> SUFFICES ASSUME Drill!Init PROVE SimInv
  OBVIOUS
<1>1. Drill!Armed = {}
  BY DEF Drill!Init, Drill!Armed
<1>2. RowsInv
  BY <1>1 DEF Drill!Init, RowsInv
<1>3. OneRead
  BY DEF Drill!Init, OneRead, Drill!Shown
<1>4. Overtaken
  BY DEF Drill!Init, Overtaken, WasArmed
<1> QED
  BY <1>2, <1>3, <1>4 DEF SimInv

(* The steps that leave the rows alone.                                    *)
LEMMA RowsLeft ==
  ASSUME [Drill!Next]_(Drill!vars)
  PROVE  \/ UNCHANGED Drill!table
         \/ \E o \in Operator : Drill!Clear(o) \/ Drill!Insert(o)
BY DEF Drill!Next, Drill!Answer, Drill!Land, Drill!BeginArm, Drill!BeginClear, Drill!OperatorFails,
   Drill!Show, Drill!BeginQuery, Drill!Score, Drill!Keep,
   Drill!Respond, Drill!NextSecond, Drill!vars

(* The steps that leave the reads alone, and those that start one.         *)
LEMMA ReadsLeft ==
  ASSUME [Drill!Next]_(Drill!vars)
  PROVE  \/ UNCHANGED <<inFlight, Drill!reads>>
         \/ Drill!Refresh
         \/ \E f \in Flight : Drill!Answer(f) \/ Drill!Land(f)
BY DEF Drill!Next, Drill!Clear, Drill!Insert, Drill!BeginArm, Drill!BeginClear,
   Drill!OperatorFails, Drill!Show, Drill!BeginQuery, Drill!Score, Drill!Keep,
   Drill!Respond, Drill!NextSecond, Drill!Current, Drill!cache, Drill!vars

(* Arming is an insert that the partial index refuses while a row is       *)
(* armed, so a second row is never armed beside the first.                 *)
LEMMA RowsKept ==
  ASSUME DrillWindow \in Int, RowsInv, [Drill!Next]_(Drill!vars)
  PROVE  /\ RowsInv'
         /\ cleared \subseteq cleared'
         /\ \A s \in Scenario : expires[s] # 0 => expires'[s] # 0
<1>1. instant' \in Nat
  BY DEF RowsInv, Drill!Next, Drill!Answer, Drill!Land, Drill!BeginArm, Drill!BeginClear,
     Drill!Clear, Drill!Insert, Drill!OperatorFails, Drill!Show,
     Drill!BeginQuery, Drill!Score, Drill!Keep, Drill!Respond, Drill!NextSecond, Drill!vars
<1>2. CASE UNCHANGED Drill!table
  BY <1>1, <1>2 DEF RowsInv, Drill!Armed, Drill!table
<1>3. ASSUME NEW o \in Operator, Drill!Clear(o)
      PROVE  RowsInv' /\ cleared \subseteq cleared' /\ expires' = expires
  BY <1>1, <1>3 DEF Drill!Clear, RowsInv, Drill!Armed
<1>4. ASSUME NEW o \in Operator, Drill!Insert(o), Drill!Armed = {}
      PROVE  /\ RowsInv' /\ cleared' = cleared
             /\ \A s \in Scenario : expires[s] # 0 => expires'[s] # 0
  <2>1. PICK d \in 1 .. DrillWindow : expires' = [expires EXCEPT ![wants[o]] = instant + d]
    BY <1>4 DEF Drill!Insert
  <2>2. cleared' = cleared /\ instant + d \in Nat /\ instant + d # 0
    BY <1>4 DEF Drill!Insert, RowsInv
  <2>3. /\ expires' \in [Scenario -> Nat]
        /\ \A s \in Scenario : s # wants[o] => expires'[s] = expires[s]
        /\ \A s \in Scenario : expires[s] # 0 => expires'[s] # 0
    BY <2>1, <2>2 DEF RowsInv
  <2>4. Drill!Armed' \subseteq {wants[o]}
    BY <1>4, <2>2, <2>3 DEF Drill!Armed
  <2> QED
    BY <1>1, <2>2, <2>3, <2>4 DEF RowsInv
<1>5. ASSUME NEW o \in Operator, Drill!Insert(o), Drill!Armed # {} PROVE UNCHANGED Drill!table
  BY <1>5 DEF Drill!Insert, Drill!table
<1> QED
  BY <1>2, <1>3, <1>4, <1>5, RowsLeft DEF Drill!table

(* A read begins only when none is under way.                              *)
LEMMA ReadsKept ==
  ASSUME RowsInv, OneRead, [Drill!Next]_(Drill!vars) PROVE OneRead'
<1>1. CASE UNCHANGED <<inFlight, Drill!reads>>
  BY <1>1 DEF OneRead, Drill!reads
<1>2. CASE Drill!Refresh
  <2>1. CASE inFlight
    BY <1>1, <1>2, <2>1 DEF Drill!Refresh
  <2>2. CASE ~inFlight
    <3>1. PICK f \in Flight : /\ inFlight' = TRUE
                              /\ flight' = [flight EXCEPT ![f] = "asked"]
                              /\ answer' = answer
      BY <1>2, <2>2 DEF Drill!Refresh
    <3> QED
      BY <2>2, <3>1 DEF OneRead
  <2> QED
    BY <2>1, <2>2
<1>3. ASSUME NEW f \in Flight, Drill!Answer(f) PROVE OneRead'
  <2>1. /\ flight[f] = "asked" /\ flight' = [flight EXCEPT ![f] = "answered"] /\ inFlight' = inFlight
        /\ \E s \in Drill!Shown : answer' = [answer EXCEPT ![f] = s]
    BY <1>3 DEF Drill!Answer, Drill!cache, Drill!Armed, Drill!Shown
  <2> QED
    BY <2>1 DEF OneRead
<1>4. ASSUME NEW f \in Flight, Drill!Land(f) PROVE OneRead'
  <2>1. /\ flight[f] # "off" /\ inFlight' = FALSE
        /\ flight' = [flight EXCEPT ![f] = "off"] /\ answer' = [answer EXCEPT ![f] = Drill!None]
    BY <1>4 DEF Drill!Land
  <2> QED
    BY <2>1 DEF OneRead, Drill!Shown
<1> QED
  BY <1>1, <1>2, <1>3, <1>4, ReadsLeft

(* A read answers with the armed row; if that is not the row shown, the    *)
(* row shown is cleared, and stays so until the read lands.                *)
LEMMA OvertakenKept ==
  ASSUME DrillWindow \in Int, SimInv, [Drill!Next]_(Drill!vars) PROVE Overtaken'
<1>0. RowsInv /\ OneRead /\ Overtaken
  BY DEF SimInv
<1>1. /\ cleared \subseteq cleared'
      /\ \A s : WasArmed(s) => WasArmed(s)'
  BY <1>0, RowsKept DEF WasArmed
<1>2. CASE /\ UNCHANGED <<cached, past, answer>>
           /\ \A f \in Flight : flight'[f] = "answered" => flight[f] = "answered"
  BY <1>0, <1>1, <1>2 DEF Overtaken, WasArmed
<1>3. ASSUME NEW f \in Flight, Drill!Answer(f) PROVE Overtaken'
  <2>1. PICK seen : /\ answer' = [answer EXCEPT ![f] = seen]
                    /\ (seen = Drill!None /\ Drill!Armed = {}) \/ seen \in Drill!Armed
    BY <1>3 DEF Drill!Answer
  <2>2. /\ flight' = [flight EXCEPT ![f] = "answered"]
        /\ UNCHANGED <<cached, past, Drill!table>>
    BY <1>3 DEF Drill!Answer, Drill!cache
  <2>3. WasArmed(seen) /\ seen \notin past
    BY <1>0, <2>1 DEF WasArmed, Drill!Armed, Overtaken
  <2>4. cached \notin {Drill!None, seen} => cached \in cleared
    BY <1>0, <2>1 DEF Overtaken, WasArmed, Drill!Armed, RowsInv
  <2>5. flight'[f] = "answered" /\ answer'[f] = seen
    BY <1>0, <2>1, <2>2 DEF OneRead
  <2>6. \A g \in Flight \ {f} : flight'[g] = flight[g] /\ answer'[g] = answer[g]
    BY <1>0, <2>1, <2>2 DEF OneRead
  <2> QED
    BY <1>0, <1>1, <2>2, <2>3, <2>4, <2>5, <2>6 DEF Overtaken, WasArmed, Drill!table
<1>4. ASSUME NEW f \in Flight, Drill!Land(f) PROVE Overtaken'
  <2>1. \A g \in Flight : flight'[g] # "answered"
    BY <1>0, <1>4 DEF Drill!Land, OneRead
  <2>2. CASE UNCHANGED <<cached, past>>
    BY <1>0, <1>1, <2>1, <2>2 DEF Overtaken, WasArmed
  <2>3. CASE /\ flight[f] = "answered"
             /\ cached' = answer[f]
             /\ past' = IF cached \in {Drill!None, answer[f]} THEN past ELSE past \union {cached}
    BY <1>0, <1>1, <2>1, <2>3 DEF Overtaken, WasArmed
  <2> QED
    BY <1>4, <2>2, <2>3 DEF Drill!Land
<1>5. UNCHANGED <<cached, past>> \/ \E f \in Flight : Drill!Land(f)
  BY DEF Drill!Next, Drill!Answer, Drill!Clear, Drill!Insert, Drill!BeginArm, Drill!BeginClear,
     Drill!OperatorFails, Drill!Show, Drill!BeginQuery, Drill!Score,
     Drill!Keep, Drill!Respond, Drill!NextSecond, Drill!Current, Drill!cache, Drill!vars
<1>6. Drill!Refresh \/ UNCHANGED <<inFlight, Drill!reads>> =>
        /\ UNCHANGED answer
        /\ \A f \in Flight : flight'[f] = "answered" => flight[f] = "answered"
  BY <1>0 DEF Drill!Refresh, Drill!reads, OneRead
<1> QED
  BY <1>2, <1>3, <1>4, <1>5, <1>6, ReadsLeft

(* The rows, the reads and what they have seen, taken together.            *)
LEMMA SimInductive ==
  ASSUME DrillWindow \in Int PROVE SimInv /\ [Drill!Next]_(Drill!vars) => SimInv'
BY RowsKept, ReadsKept, OvertakenKept DEF SimInv

(* A scenario that the process has stopped showing never comes back,       *)
(* however old the answer is that lands: for any number of reads,          *)
(* operators and requests for positions.                                   *)
THEOREM GoneIsGone == Spec => []NoComeback
<1> DrillWindow \in Int
  BY ServiceConstants
<1> DEFINE IInv == focus = "drill" => SimInv
<1>1. Init => IInv
  BY SimInitially DEF Init
<1>2. IInv /\ [Next]_vars => IInv'
  <2>1. ASSUME focus = "drill", [Next]_vars PROVE [Drill!Next]_(Drill!vars)
    BY <2>1 DEF Next, vars, drillVars, Drill!vars, Drill!table, Drill!cache, Drill!reads, Drill!ops, Drill!pos
  <2>2. ASSUME [Next]_vars PROVE focus' = focus
    BY <2>2 DEF Next, Others, vars
  <2> QED
    BY <2>1, <2>2, SimInductive
<1>3. IInv => NoComeback
  BY DEF SimInv, Overtaken, Drill!NoComeback, NoComeback
<1> QED
  BY <1>1, <1>2, <1>3, PTL DEF Spec
=============================================================================
