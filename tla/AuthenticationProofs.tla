------------------------ MODULE AuthenticationProofs ------------------------
(***************************************************************************)
(* What holds of sessions, tokens and challenges for any number of them    *)
(* and of requests.  The inductive invariant says which rows each request  *)
(* holds or waits for at each statement, and what it knows of the token it *)
(* gives up and of the one it mints because it holds them.                 *)
(***************************************************************************)
EXTENDS Authentication, FiniteSetTheorems, TLAPS

(* What p holds, or will hold before it goes on. *)
Claims(p, r) == lock[r] = p \/ r \in request[p].want

(* A session is opened once, and has no token before. *)
Opened(s) == session[s].status # "none"

NoTokensBefore ==
  \A s \in Session : ~ Opened(s) => \A g \in Generation : token[s][g] = "none"

(* The steps at which a request has to do with tokens of its own session.  *)
AtItsTokens == {"rotate_token", "insert", "write_session", "switch_token",
                "reuse_session", "reuse_tokens", "replace_tokens"}

WithASession == AtItsTokens \cup {"switch_session", "replace_session",
                                  "revoke_one", "revoke_all"}

Rotating == {"rotate_token", "switch_token", "insert", "write_session"}

KnowsItsSession(p) ==
  /\ request[p].step \in WithASession \/ request[p].answer = "rotated" =>
       /\ request[p].session \in Session
       /\ Opened(request[p].session)
  /\ request[p].answer # "none" => request[p].step = "done" /\ request[p].want = {}
  /\ \A t \in request[p].targets : Opened(t)
  /\ request[p].step \in {"revoke_one", "revoke_all"} =>
       \A t \in request[p].targets : Claims(p, SessionRow(t))
  /\ request[p].step \in {"revoked", "revoke_tokens"} =>
       \A t \in request[p].targets : ~ Active(t)

(* It locks tokens of its own session only, or of sessions it has revoked. *)
TokensInReach(p) ==
  \A s \in Session, g \in Generation : Claims(p, TokenRow(s, g)) =>
    \/ request[p].step \in AtItsTokens /\ request[p].session = s
    \/ request[p].step = "revoke_tokens" /\ s \in request[p].targets

(* The token it gives up, the one it mints, and that they are neighbours;  *)
(* a request that found a spent token has its session's row.               *)
KnowsItsTokens(p) ==
  LET s == request[p].session
      g == request[p].generation
      n == request[p].next
  IN  /\ request[p].step \in Rotating =>
          /\ Claims(p, TokenRow(s, g))
          /\ token[s][g] # "none"
          /\ request[p].step \in {"insert", "write_session"} =>
               /\ lock[TokenRow(s, g)] = p
               /\ token[s][g] = "active"
               /\ Claims(p, TokenRow(s, n))
          /\ request[p].step = "write_session" =>
               token[s][n] = "none" /\ lock[TokenRow(s, n)] = p
          /\ Active(s) /\ token[s][g] = "active" => n = g + 1
      /\ request[p].step \in {"reuse_session", "reuse_tokens"} =>
          Claims(p, SessionRow(s))

(* The exchange it made stays made. *)
ExchangeStands(p) ==
  request[p].answer = "rotated" =>
    /\ token[request[p].session][request[p].generation] \notin {"none", "active"}
    /\ token[request[p].session][request[p].next] # "none"

Knows(p) == /\ KnowsItsSession(p) /\ TokensInReach(p)
            /\ KnowsItsTokens(p) /\ ExchangeStands(p)

AuthInv == /\ AuthTypeOK
           /\ NoTokensBefore
           /\ \A p \in Request : Knows(p)
           /\ OneLiveToken
           /\ ReuseEndsTheSession
           /\ ExchangedOnce

-----------------------------------------------------------------------------
LEMMA Rows ==
  /\ \A s \in Session : SessionRow(s) \in Row
  /\ \A s \in Session, g \in Generation : TokenRow(s, g) \in Row
  /\ \A s, t, g : SessionRow(s) # TokenRow(t, g)
  /\ \A s, t, g, h : TokenRow(s, g) = TokenRow(t, h) => s = t /\ g = h
  /\ \A s, t : SessionRow(s) = SessionRow(t) => s = t
<1>1. \A x, y, a, b, c, d : <<x, a, b>> = <<y, c, d>> => x = y /\ a = c /\ b = d
  OBVIOUS
<1> QED
  BY <1>1 DEF SessionRow, TokenRow, Row

(* Sessions are opened and closed once; tokens are given once and ended    *)
(* once.                                                                   *)
Forward ==
  /\ \A s \in Session : Opened(s) => Opened(s)' /\ (Active(s)' => Active(s))
  /\ \A s \in Session, g \in Generation : token[s][g] # "none" =>
       /\ token'[s][g] # "none"
       /\ token'[s][g] = "active" => token[s][g] = "active"

(* What a request knows survives a step of another one that leaves the     *)
(* tokens alone that this one holds.                                       *)
LEMMA OthersKnow ==
  ASSUME AuthTypeOK, NEW q \in Request, Knows(q), Forward,
         request'[q] = request[q],
         \A r \in Row : lock'[r] = q <=> lock[r] = q,
         \A s \in Session, g \in Generation :
           lock[TokenRow(s, g)] = q /\ Opened(s) => token'[s][g] = token[s][g]
  PROVE  Knows(q)'
<1>1. /\ request[q] \in RequestState
      /\ request[q].generation \in Generation /\ request[q].next \in Generation
      /\ request[q].targets \subseteq Session
  BY DEF AuthTypeOK, RequestState
<1>2. \A r \in Row : Claims(q, r)' <=> Claims(q, r)
  BY DEF Claims
<1>3. KnowsItsSession(q)'
  BY <1>1, <1>2, Rows DEF Knows, KnowsItsSession, Forward
<1>4. TokensInReach(q)'
  BY <1>2, Rows DEF Knows, TokensInReach
<1>5. KnowsItsTokens(q)'
  <2>0. request[q].step \in {"reuse_session", "reuse_tokens"} =>
          Claims(q, SessionRow(request[q].session))'
    BY <1>2, Rows DEF Knows, KnowsItsSession, KnowsItsTokens, WithASession, AtItsTokens
  <2> SUFFICES ASSUME request[q].step \in Rotating
               PROVE  KnowsItsTokens(q)'
    BY <2>0 DEF KnowsItsTokens
  <2>1. request[q].session \in Session /\ Opened(request[q].session)
    BY DEF Knows, KnowsItsSession, Rotating, WithASession, AtItsTokens
  <2>2. PICK s \in Session, g \in Generation, n \in Generation :
          request[q].session = s /\ request[q].generation = g /\ request[q].next = n
    BY <1>1, <2>1
  <2>3. /\ Claims(q, TokenRow(s, g))
        /\ token[s][g] # "none"
        /\ request[q].step \in {"insert", "write_session"} =>
             /\ lock[TokenRow(s, g)] = q
             /\ token[s][g] = "active"
             /\ Claims(q, TokenRow(s, n))
        /\ request[q].step = "write_session" =>
             token[s][n] = "none" /\ lock[TokenRow(s, n)] = q
        /\ Active(s) /\ token[s][g] = "active" => n = g + 1
    BY <2>2 DEF Knows, KnowsItsTokens
  <2>4. /\ token'[s][g] # "none"
        /\ Active(s)' /\ token'[s][g] = "active" => n = g + 1
        /\ lock[TokenRow(s, g)] = q => token'[s][g] = token[s][g]
        /\ lock[TokenRow(s, n)] = q => token'[s][n] = token[s][n]
    BY <2>1, <2>2, <2>3 DEF Forward
  <2>5. /\ Claims(q, TokenRow(s, g))'
        /\ request[q].step \in {"insert", "write_session"} =>
             /\ lock'[TokenRow(s, g)] = q
             /\ token'[s][g] = "active"
             /\ Claims(q, TokenRow(s, n))'
        /\ request[q].step = "write_session" =>
             token'[s][n] = "none" /\ lock'[TokenRow(s, n)] = q
    BY <1>2, <2>3, <2>4, Rows
  <2> QED
    BY <2>0, <2>2, <2>4, <2>5 DEF KnowsItsTokens
<1>6. ExchangeStands(q)'
  BY <1>1 DEF Knows, KnowsItsSession, ExchangeStands, Forward
<1> QED
  BY <1>3, <1>4, <1>5, <1>6 DEF Knows

(* A step of one request that writes nothing and exchanges nothing is      *)
(* judged by what this one knows afterwards.                               *)
LEMMA QuietStep ==
  ASSUME AuthInv, NEW p \in Request, AuthTypeOK', session' = session, token' = token,
         \A q \in Request \ {p} : request'[q] = request[q],
         \A r \in Row : \/ lock'[r] = lock[r]
                        \/ lock[r] \in {Nobody, p} /\ lock'[r] \in {Nobody, p},
         Knows(p)', request'[p].answer # "rotated"
  PROVE  AuthInv'
<1>1. Forward
  BY DEF Forward, Opened, Active
<1>2. ASSUME NEW q \in Request, q # p
      PROVE  Knows(q)'
  <2>1. \A r \in Row : lock'[r] = q <=> lock[r] = q
    BY <1>2, AuthAssumption
  <2> QED
    BY <1>1, <1>2, <2>1, OthersKnow DEF AuthInv
<1>3. NoTokensBefore' /\ OneLiveToken' /\ ReuseEndsTheSession'
  BY DEF AuthInv, NoTokensBefore, OneLiveToken, ReuseEndsTheSession, Opened, Active
<1>4. ExchangedOnce'
  <2>1. ExchangedOnce
    BY DEF AuthInv
  <2>2. \A q \in Request : request'[q].answer = "rotated" => request'[q] = request[q]
    OBVIOUS
  <2> QED
    BY <2>1, <2>2 DEF ExchangedOnce
<1> QED
  BY <1>2, <1>3, <1>4 DEF AuthInv

LEMMA NotSentIsARequest == NotSent \in RequestState
<1>1. 0 \in Generation
  BY AuthAssumption DEF Generation
<1> QED
  BY <1>1 DEF NotSent, RequestState, Step, Answer

(* A request that is over holds nothing.                                   *)
LEMMA OverIs ==
  ASSUME AuthTypeOK, NEW p \in Request, NEW answer \in Answer \ {"rotated"},
         End(p, answer)
  PROVE  /\ request' \in [Request -> RequestState]
         /\ lock' \in [Row -> Request \cup {Nobody}]
         /\ \A q \in Request \ {p} : request'[q] = request[q]
         /\ \A r \in Row : \/ lock'[r] = lock[r] /\ lock[r] # p
                           \/ lock[r] = p /\ lock'[r] = Nobody
         /\ \A r \in Row : \/ lock'[r] = lock[r]
                           \/ lock[r] \in {Nobody, p} /\ lock'[r] \in {Nobody, p}
         /\ request'[p].answer = answer
         /\ Knows(p)'
<1> DEFINE over == [NotSent EXCEPT !.step = "done", !.answer = answer]
<1>1. /\ over \in RequestState
      /\ over.step = "done" /\ over.answer = answer
      /\ over.want = {} /\ over.targets = {}
  <2>1. over \in RequestState
    BY NotSentIsARequest DEF RequestState, Step
  <2> QED
    BY <2>1 DEF NotSent
<1>2. request' = [request EXCEPT ![p] = over]
  BY DEF End
<1> HIDE DEF over
<1>3. /\ request' \in [Request -> RequestState]
      /\ \A q \in Request \ {p} : request'[q] = request[q]
      /\ request'[p] = over
  BY <1>1, <1>2 DEF AuthTypeOK
<1>4. /\ lock' \in [Row -> Request \cup {Nobody}]
      /\ \A r \in Row : \/ lock'[r] = lock[r] /\ lock[r] # p
                        \/ lock[r] = p /\ lock'[r] = Nobody
  BY DEF End, Release, AuthTypeOK
<1>5. \A r \in Row : ~ Claims(p, r)'
  BY <1>1, <1>3, <1>4, AuthAssumption DEF Claims
<1>6. Knows(p)'
  BY <1>1, <1>3, <1>5, Rows DEF Knows, KnowsItsSession, TokensInReach,
     KnowsItsTokens, ExchangeStands, WithASession, AtItsTokens, Rotating
<1> QED
  BY <1>1, <1>3, <1>4, <1>6

LEMMA RollBackPreserves ==
  ASSUME AuthInv, NEW p \in Request, NEW answer \in Answer \ {"rotated"},
         RollBack(p, answer)
  PROVE  AuthInv'
<1>1. End(p, answer) /\ session' = session /\ token' = token
  BY DEF RollBack
<1>2. AuthTypeOK'
  BY <1>1, OverIs DEF AuthInv, AuthTypeOK
<1> QED
  BY <1>1, <1>2, OverIs, QuietStep DEF AuthInv

LEMMA AcquirePreserves ==
  ASSUME AuthInv, NEW p \in Request, NEW r \in request[p].want, Acquire(p, r)
  PROVE  AuthInv'
<1> DEFINE then == [request[p] EXCEPT !.want = @ \ {r}]
<1>1. /\ request \in [Request -> RequestState] /\ request[p] \in RequestState
      /\ lock \in [Row -> Request \cup {Nobody}] /\ r \in Row
  BY DEF AuthInv, AuthTypeOK, RequestState
<1>2. request' = [request EXCEPT ![p] = then]
  BY <1>1 DEF Acquire
<1>3. /\ then \in RequestState /\ then.step = request[p].step
      /\ then.session = request[p].session /\ then.next = request[p].next
      /\ then.generation = request[p].generation
      /\ then.targets = request[p].targets /\ then.answer = request[p].answer
      /\ then.want = request[p].want \ {r}
  BY <1>1 DEF RequestState
<1> HIDE DEF then
<1>4. /\ request' \in [Request -> RequestState] /\ request'[p] = then
      /\ \A q \in Request \ {p} : request'[q] = request[q]
  BY <1>1, <1>2, <1>3
<1>5. /\ lock' \in [Row -> Request \cup {Nobody}]
      /\ lock[r] = Nobody /\ lock'[r] = p
      /\ \A q \in Row \ {r} : lock'[q] = lock[q]
      /\ session' = session /\ token' = token
  BY <1>1 DEF Acquire
<1>6. \A q \in Row : /\ Claims(p, q)' <=> Claims(p, q)
                     /\ lock[q] = p => lock'[q] = p
  BY <1>1, <1>3, <1>4, <1>5 DEF Claims
<1>7. AuthTypeOK'
  BY <1>4, <1>5 DEF AuthInv, AuthTypeOK
<1>8. Knows(p)'
  <2>1. Knows(p) /\ request[p].targets \subseteq Session
    BY <1>1 DEF AuthInv, RequestState
  <2>2. KnowsItsSession(p)' /\ ExchangeStands(p)'
    BY <1>3, <1>4, <1>5, <1>6, <2>1, Rows
       DEF Knows, KnowsItsSession, ExchangeStands, Opened, Active
  <2>3. TokensInReach(p)'
    BY <1>3, <1>4, <1>6, <2>1, Rows DEF Knows, TokensInReach
  <2>4. KnowsItsTokens(p)'
    <3>0. request[p].step \in {"reuse_session", "reuse_tokens"} =>
            Claims(p, SessionRow(request[p].session))'
      <4> SUFFICES ASSUME request[p].step \in {"reuse_session", "reuse_tokens"}
                   PROVE  Claims(p, SessionRow(request[p].session))'
        OBVIOUS
      <4>1. PICK s \in Session : request[p].session = s
        BY <2>1 DEF Knows, KnowsItsSession, WithASession, AtItsTokens
      <4>2. Claims(p, SessionRow(s))' /\ request'[p].session = s
        BY <1>3, <1>4, <1>6, <2>1, <4>1, Rows DEF Knows, KnowsItsTokens
      <4> QED
        BY <4>2
    <3> SUFFICES ASSUME request[p].step \in Rotating
                 PROVE  KnowsItsTokens(p)'
      BY <1>3, <1>4, <3>0 DEF KnowsItsTokens
    <3>1. request[p].session \in Session
      BY <2>1 DEF Knows, KnowsItsSession, Rotating, WithASession, AtItsTokens
    <3>2. /\ TokenRow(request[p].session, request[p].generation) \in Row
          /\ TokenRow(request[p].session, request[p].next) \in Row
      BY <1>1, <3>1, Rows DEF RequestState
    <3> QED
      BY <1>3, <1>4, <1>5, <1>6, <2>1, <3>0, <3>2 DEF Knows, KnowsItsTokens, Active
  <2> QED
    BY <2>2, <2>3, <2>4 DEF Knows
<1>9. request[p].answer # "rotated"
  BY DEF AuthInv, Knows, KnowsItsSession
<1>10. \A q \in Row : \/ lock'[q] = lock[q]
                      \/ lock[q] \in {Nobody, p} /\ lock'[q] \in {Nobody, p}
  BY <1>5
<1> QED
  BY <1>3, <1>4, <1>5, <1>7, <1>8, <1>9, <1>10, QuietStep

-----------------------------------------------------------------------------
(* A request that is sent holds nothing yet.                               *)
LEMMA BeginIs ==
  ASSUME AuthInv, NEW p \in Request, NEW r \in RequestState, Begin(p, r),
         r.answer = "none"
  PROVE  /\ request'[p] = r /\ session' = session /\ token' = token
         /\ \A s \in Session, g \in Generation :
              Claims(p, TokenRow(s, g))' <=> TokenRow(s, g) \in r.want
         /\ \A s \in Session : SessionRow(s) \in r.want => Claims(p, SessionRow(s))'
         /\ Knows(p)' => AuthInv'
<1>1. /\ request' \in [Request -> RequestState] /\ request'[p] = r
      /\ \A q \in Request \ {p} : request'[q] = request[q]
      /\ session' = session /\ token' = token /\ lock' = lock
  BY DEF Begin, AuthInv, AuthTypeOK
<1>2. request[p].step = "idle"
  BY DEF Begin
<1>3. \A s \in Session, g \in Generation : lock[TokenRow(s, g)] # p
  BY <1>2 DEF AuthInv, Knows, TokensInReach, AtItsTokens, Claims
<1>4. AuthTypeOK'
  BY <1>1 DEF AuthInv, AuthTypeOK
<1> QED
  BY <1>1, <1>3, <1>4, QuietStep DEF Claims

LEMMA RefreshBegins ==
  ASSUME AuthInv, NEW p \in Request, NEW s \in Session, NEW g \in Generation,
         BeginRefresh(p, s, g)
  PROVE  AuthInv'
<1>1. Opened(s) /\ token[s][g] # "none" /\ (Found(s, g) => g < MaxGeneration)
  BY DEF BeginRefresh, AuthInv, NoTokensBefore
<1>2. PICK n \in Generation : n = IF Found(s, g) THEN g + 1 ELSE g
  BY <1>1, AuthAssumption DEF Generation
<1> DEFINE r == [NotSent EXCEPT !.step = "rotate_token", !.session = s,
                                !.generation = g, !.next = n,
                                !.want = {TokenRow(s, g)}]
<1>3. Begin(p, r)
  BY <1>2 DEF BeginRefresh
<1>4. /\ r \in RequestState /\ r.answer = "none" /\ r.step = "rotate_token"
      /\ r.session = s /\ r.generation = g /\ r.next = n /\ r.targets = {}
      /\ r.want = {TokenRow(s, g)}
  <2>1. {TokenRow(s, g)} \in SUBSET Row
    BY Rows
  <2>2. r \in RequestState
    BY <2>1, NotSentIsARequest DEF RequestState, Step
  <2> QED
    BY <2>2 DEF NotSent
<1> HIDE DEF r
<1>5. /\ request'[p] = r /\ session' = session /\ token' = token
      /\ \A t \in Session, h \in Generation :
           Claims(p, TokenRow(t, h))' <=> t = s /\ h = g
      /\ Knows(p)' => AuthInv'
  BY <1>3, <1>4, BeginIs, Rows
<1>6. KnowsItsTokens(p)'
  BY <1>1, <1>2, <1>4, <1>5 DEF KnowsItsTokens, Rotating, Found, Active
<1>7. KnowsItsSession(p)' /\ TokensInReach(p)' /\ ExchangeStands(p)'
  BY <1>1, <1>4, <1>5 DEF KnowsItsSession, TokensInReach, ExchangeStands, Opened,
     AtItsTokens
<1> QED
  BY <1>5, <1>6, <1>7 DEF Knows

(* Other requests begin by asking for sessions.                            *)
LEMMA OthersBegin ==
  ASSUME AuthInv, NEW p \in Request, NEW r \in RequestState, Begin(p, r),
         r.step \in {"switch_session", "replace_session", "revoke_one", "revoke_all"},
         r.answer = "none", r.session \in Session, Opened(r.session),
         \A t \in r.targets : Opened(t) /\ SessionRow(t) \in r.want,
         \A t \in Session, g \in Generation : TokenRow(t, g) \notin r.want
  PROVE  AuthInv'
<1>1. /\ request'[p] = r /\ session' = session /\ token' = token
      /\ \A t \in Session, h \in Generation : ~ Claims(p, TokenRow(t, h))'
      /\ \A t \in r.targets : Claims(p, SessionRow(t))'
      /\ Knows(p)' => AuthInv'
  BY BeginIs DEF RequestState
<1>2. KnowsItsSession(p)'
  BY <1>1 DEF KnowsItsSession, Opened
<1>3. TokensInReach(p)' /\ KnowsItsTokens(p)' /\ ExchangeStands(p)'
  BY <1>1 DEF TokensInReach, KnowsItsTokens, ExchangeStands, Rotating
<1> QED
  BY <1>1, <1>2, <1>3 DEF Knows

LEMMA SendPreserves ==
  ASSUME AuthInv, NEW p \in Request, Send(p)
  PROVE  AuthInv'
<1>1. ASSUME NEW s \in Session
      PROVE  {s} \in SUBSET Session
  OBVIOUS
<1>2. ASSUME NEW s \in Session
      PROVE  /\ {SessionRow(s)} \in SUBSET Row
             /\ \A t \in Session, g \in Generation : TokenRow(t, g) \notin {SessionRow(s)}
  BY Rows
<1>3. ASSUME NEW s \in Session, NEW g \in Generation, BeginRefresh(p, s, g)
      PROVE  AuthInv'
  BY <1>3, RefreshBegins
<1>4. ASSUME NEW s \in Session, NEW g \in Generation, RefreshOutOfContext(p, s, g)
      PROVE  AuthInv'
  <2> DEFINE r == [NotSent EXCEPT !.step = "revoke_one", !.session = s,
                                !.generation = g, !.targets = {s},
                                !.want = {SessionRow(s)}]
  <2>1. Begin(p, r) /\ Opened(s)
    BY <1>4 DEF RefreshOutOfContext, Found, Active, Opened
  <2>3. r \in RequestState
    BY <1>1, <1>2, NotSentIsARequest DEF RequestState, Step
  <2>4. /\ r.step = "revoke_one" /\ r.answer = "none" /\ r.session = s
        /\ r.targets = {s} /\ r.want = {SessionRow(s)}
    BY <2>3 DEF NotSent
  <2> HIDE DEF r
  <2> QED
    BY <1>2, <2>1, <2>3, <2>4, OthersBegin
<1>5. ASSUME NEW s \in Session, BeginSwitchBranch(p, s)
      PROVE  AuthInv'
  <2> DEFINE r == [NotSent EXCEPT !.step = "switch_session", !.session = s,
                                !.generation = session[s].generation,
                                !.next = session[s].generation + 1,
                                !.want = {SessionRow(s)}]
  <2>1. Begin(p, r) /\ Opened(s)
    BY <1>5 DEF BeginSwitchBranch, Found, Active, Opened
  <2>2. /\ session[s].generation \in Generation
        /\ session[s].generation + 1 \in Generation
    BY <1>5, AuthAssumption
       DEF BeginSwitchBranch, AuthInv, AuthTypeOK, SessionState, Generation
  <2>3. r \in RequestState
    BY <1>1, <1>2, <2>2, NotSentIsARequest DEF RequestState, Step
  <2>4. /\ r.step = "switch_session" /\ r.answer = "none" /\ r.session = s
        /\ r.targets = {} /\ r.want = {SessionRow(s)}
    BY <2>3 DEF NotSent
  <2> HIDE DEF r
  <2> QED
    BY <1>2, <2>1, <2>3, <2>4, OthersBegin
<1>6. ASSUME NEW s \in Session, BeginSwitchCompany(p, s)
      PROVE  AuthInv'
  <2> DEFINE r == [NotSent EXCEPT !.step = "replace_session", !.session = s,
                                !.want = {SessionRow(s)}]
  <2>1. Begin(p, r) /\ Opened(s)
    BY <1>6 DEF BeginSwitchCompany, Found, Active, Opened
  <2>3. r \in RequestState
    BY <1>1, <1>2, NotSentIsARequest DEF RequestState, Step
  <2>4. /\ r.step = "replace_session" /\ r.answer = "none" /\ r.session = s
        /\ r.targets = {} /\ r.want = {SessionRow(s)}
    BY <2>3 DEF NotSent
  <2> HIDE DEF r
  <2> QED
    BY <1>2, <2>1, <2>3, <2>4, OthersBegin
<1>7. ASSUME NEW s \in Session, BeginLogout(p, s)
      PROVE  AuthInv'
  <2> DEFINE r == [NotSent EXCEPT !.step = "revoke_one", !.session = s,
                                !.targets = {s}, !.want = {SessionRow(s)}]
  <2>1. Begin(p, r) /\ Opened(s)
    BY <1>7 DEF BeginLogout, Found, Active, Opened
  <2>3. r \in RequestState
    BY <1>1, <1>2, NotSentIsARequest DEF RequestState, Step
  <2>4. /\ r.step = "revoke_one" /\ r.answer = "none" /\ r.session = s
        /\ r.targets = {s} /\ r.want = {SessionRow(s)}
    BY <2>3 DEF NotSent
  <2> HIDE DEF r
  <2> QED
    BY <1>2, <2>1, <2>3, <2>4, OthersBegin
<1>8. ASSUME NEW s \in Session, NEW kept \in SUBSET {s}, BeginLogoutAll(p, s, kept)
      PROVE  AuthInv'
  <2>1. PICK targets \in SUBSET Session :
          targets = {t \in Session \ kept :
                       Active(t) /\ session[t].owner = session[s].owner}
    OBVIOUS
  <2>2. PICK want : want = {SessionRow(t) : t \in targets}
    OBVIOUS
  <2> DEFINE r == [NotSent EXCEPT !.step = "revoke_all", !.session = s,
                                  !.targets = targets, !.want = want]
  <2>3. Begin(p, r) /\ Opened(s)
    BY <1>8, <2>1, <2>2 DEF BeginLogoutAll, Active, Opened
  <2>4. /\ want \in SUBSET Row
        /\ \A t \in Session, g \in Generation : TokenRow(t, g) \notin want
        /\ \A t \in targets : Opened(t) /\ SessionRow(t) \in want
    BY <2>1, <2>2, Rows DEF Opened, Active
  <2>5. r \in RequestState
    BY <2>4, NotSentIsARequest DEF RequestState, Step
  <2>6. /\ r.step = "revoke_all" /\ r.answer = "none" /\ r.session = s
        /\ r.targets = targets /\ r.want = want
    BY <2>5 DEF NotSent
  <2> HIDE DEF r
  <2> QED
    BY <2>3, <2>4, <2>5, <2>6, OthersBegin
<1> QED
  BY <1>3, <1>4, <1>5, <1>6, <1>7, <1>8 DEF Send

-----------------------------------------------------------------------------
(* The next statement of a transaction.                                    *)
LEMMA ContinueIs ==
  ASSUME AuthInv, NEW p \in Request, NEW step \in Step, NEW rows \in SUBSET Row,
         request[p].want = {}, Continue(p, step, rows)
  PROVE  /\ session' = session /\ token' = token /\ lock' = lock
         /\ request'[p].step = step
         /\ request'[p].session = request[p].session
         /\ request'[p].generation = request[p].generation
         /\ request'[p].next = request[p].next
         /\ request'[p].targets = request[p].targets
         /\ request'[p].answer = request[p].answer
         /\ \A r \in Row : Claims(p, r)' <=> lock[r] = p \/ r \in rows
         /\ \A r \in Row : Claims(p, r) <=> lock[r] = p
         /\ Knows(p)' /\ request[p].answer = "none" => AuthInv'
<1> DEFINE then == [request[p] EXCEPT !.step = step, !.want = rows \ Held(p)]
<1>1. /\ request \in [Request -> RequestState] /\ request[p] \in RequestState
  BY DEF AuthInv, AuthTypeOK
<1>2. request' = [request EXCEPT ![p] = then]
  BY <1>1 DEF Continue
<1>3. /\ then \in RequestState /\ then.step = step
      /\ then.session = request[p].session /\ then.next = request[p].next
      /\ then.generation = request[p].generation
      /\ then.targets = request[p].targets /\ then.answer = request[p].answer
      /\ then.want = rows \ Held(p)
  BY <1>1 DEF RequestState
<1> HIDE DEF then
<1>4. /\ request' \in [Request -> RequestState] /\ request'[p] = then
      /\ \A q \in Request \ {p} : request'[q] = request[q]
      /\ session' = session /\ token' = token /\ lock' = lock
  BY <1>1, <1>2, <1>3 DEF Continue
<1>5. /\ \A r \in Row : Claims(p, r)' <=> lock[r] = p \/ r \in rows
      /\ \A r \in Row : Claims(p, r) <=> lock[r] = p
  BY <1>3, <1>4 DEF Claims, Held
<1>6. AuthTypeOK'
  BY <1>4 DEF AuthInv, AuthTypeOK
<1> QED
  BY <1>3, <1>4, <1>5, <1>6, QuietStep

(* What a request at a statement over its own session knows by then.       *)
LEMMA AtItsSession ==
  ASSUME AuthInv, NEW p \in Request, NEW step \in WithASession, Ready(p, step)
  PROVE  /\ request[p].session \in Session /\ Opened(request[p].session)
         /\ request[p].generation \in Generation /\ request[p].next \in Generation
         /\ request[p].targets \in SUBSET Session
         /\ request[p].answer = "none" /\ Knows(p)
         /\ \A r \in Row : Claims(p, r) <=> lock[r] = p
         /\ \A t \in Session, h \in Generation : lock[TokenRow(t, h)] = p =>
              t = request[p].session
<1>1. /\ request[p] \in RequestState /\ Knows(p)
      /\ request[p].step = step /\ request[p].want = {}
  BY DEF AuthInv, AuthTypeOK, Ready
<1>2. \A r \in Row : Claims(p, r) <=> lock[r] = p
  BY <1>1 DEF Claims
<1>3. /\ request[p].session \in Session /\ Opened(request[p].session)
      /\ request[p].answer = "none"
  BY <1>1 DEF Knows, KnowsItsSession, WithASession, AtItsTokens
<1>4. ASSUME NEW t \in Session, NEW h \in Generation, lock[TokenRow(t, h)] = p
      PROVE  t = request[p].session
  <2>1. Claims(p, TokenRow(t, h))
    BY <1>4 DEF Claims
  <2> QED
    BY <1>1, <2>1 DEF Knows, TokensInReach, WithASession, AtItsTokens
<1> QED
  BY <1>1, <1>2, <1>3, <1>4 DEF RequestState

LEMMA ContinuePreserves ==
  ASSUME AuthInv, NEW p \in Request, NEW step \in WithASession, Ready(p, step),
         NEW then \in AtItsTokens, NEW rows \in SUBSET Row,
         Continue(p, then, rows),
         \A t \in Session, h \in Generation : TokenRow(t, h) \in rows =>
           t = request[p].session,
         KnowsItsTokens(p)'
  PROVE  AuthInv'
<1>1. then \in Step /\ request[p].want = {}
  BY DEF AtItsTokens, Step, Ready
<1>2. /\ session' = session /\ token' = token
      /\ request'[p].step = then
      /\ request'[p].session = request[p].session
      /\ request'[p].targets = request[p].targets
      /\ request'[p].answer = request[p].answer
      /\ \A r \in Row : Claims(p, r)' <=> lock[r] = p \/ r \in rows
      /\ Knows(p)' /\ request[p].answer = "none" => AuthInv'
  BY <1>1, ContinueIs
<1>3. KnowsItsSession(p)' /\ ExchangeStands(p)'
  BY <1>2, AtItsSession DEF Knows, KnowsItsSession, ExchangeStands, Opened, AtItsTokens
<1>4. TokensInReach(p)'
  BY <1>2, AtItsSession, Rows DEF TokensInReach
<1> QED
  BY <1>2, <1>3, <1>4, AtItsSession DEF Knows

LEMMA RotateTokenPreserves ==
  ASSUME AuthInv, NEW p \in Request, RotateToken(p)
  PROVE  AuthInv'
<1>1. Ready(p, "rotate_token") /\ request[p].want = {}
  BY DEF RotateToken, Ready
<1>2. "rotate_token" \in WithASession
  BY DEF WithASession, AtItsTokens
<1>3. PICK s \in Session, g \in Generation, n \in Generation :
        request[p].session = s /\ request[p].generation = g /\ request[p].next = n
  BY <1>1, <1>2, AtItsSession
<1>4. /\ lock[TokenRow(s, g)] = p
      /\ token[s][g] # "none"
      /\ Active(s) /\ token[s][g] = "active" => n = g + 1
  BY <1>1, <1>2, <1>3, AtItsSession, Rows
     DEF Knows, KnowsItsTokens, Rotating, Ready
<1>5. CASE token[s][g] = "active"
  <2>1. Continue(p, "insert", {TokenRow(s, n)})
    BY <1>3, <1>5 DEF RotateToken, StillActive
  <2>2. {TokenRow(s, n)} \in SUBSET Row /\ "insert" \in Step
    BY Rows DEF Step
  <2>3. KnowsItsTokens(p)'
    <3>1. /\ session' = session /\ token' = token /\ lock' = lock
          /\ request'[p].step = "insert"
          /\ request'[p].session = s /\ request'[p].generation = g
          /\ request'[p].next = n
          /\ \A r \in Row : Claims(p, r)' <=> lock[r] = p \/ r = TokenRow(s, n)
      BY <1>1, <1>3, <2>1, <2>2, ContinueIs
    <3> QED
      BY <1>4, <1>5, <3>1, Rows DEF KnowsItsTokens, Active
  <2> QED
    BY <1>1, <1>2, <1>3, <2>1, <2>2, <2>3, ContinuePreserves, Rows DEF AtItsTokens
<1>6. CASE token[s][g] # "active"
  <2>1. Continue(p, "reuse_session", {SessionRow(s)})
    BY <1>3, <1>6 DEF RotateToken, StillActive
  <2>2. {SessionRow(s)} \in SUBSET Row /\ "reuse_session" \in Step
    BY Rows DEF Step
  <2>3. KnowsItsTokens(p)'
    <3>1. /\ request'[p].step = "reuse_session" /\ request'[p].session = s
          /\ Claims(p, SessionRow(s))'
      BY <1>1, <1>3, <2>1, <2>2, ContinueIs, Rows
    <3> QED
      BY <3>1 DEF KnowsItsTokens, Rotating
  <2> QED
    BY <1>1, <1>2, <2>1, <2>2, <2>3, ContinuePreserves, Rows DEF AtItsTokens
<1> QED
  BY <1>5, <1>6

LEMMA InsertPreserves ==
  ASSUME AuthInv, NEW p \in Request, Insert(p)
  PROVE  AuthInv'
<1>1. Ready(p, "insert") /\ request[p].want = {}
  BY DEF Insert, Ready
<1>2. "insert" \in WithASession
  BY DEF WithASession, AtItsTokens
<1>3. PICK s \in Session, g \in Generation, n \in Generation :
        request[p].session = s /\ request[p].generation = g /\ request[p].next = n
  BY <1>1, <1>2, AtItsSession
<1>4. /\ lock[TokenRow(s, g)] = p /\ lock[TokenRow(s, n)] = p
      /\ token[s][g] = "active"
      /\ Active(s) => n = g + 1
  BY <1>1, <1>2, <1>3, AtItsSession, Rows
     DEF Knows, KnowsItsTokens, Rotating, Ready
<1>5. CASE token[s][n] = "none"
  <2>1. PICK rows \in SUBSET Row : /\ Continue(p, "write_session", rows)
                                   /\ rows \subseteq {SessionRow(s)}
    BY <1>3, <1>5, Rows DEF Insert
  <2>2. /\ "write_session" \in Step
        /\ \A t \in Session, h \in Generation : TokenRow(t, h) \notin rows
    BY <2>1, Rows DEF Step
  <2>3. KnowsItsTokens(p)'
    <3>1. /\ session' = session /\ token' = token /\ lock' = lock
          /\ request'[p].step = "write_session"
          /\ request'[p].session = s /\ request'[p].generation = g
          /\ request'[p].next = n
          /\ \A r \in Row : Claims(p, r)' <=> lock[r] = p \/ r \in rows
      BY <1>1, <1>3, <2>1, <2>2, ContinueIs
    <3> QED
      BY <1>4, <1>5, <3>1, Rows DEF KnowsItsTokens, Active
  <2> QED
    BY <1>1, <1>2, <1>3, <2>1, <2>2, <2>3, ContinuePreserves DEF AtItsTokens
<1>6. CASE token[s][n] # "none"
  BY <1>3, <1>6, RollBackPreserves DEF Insert, Answer
<1> QED
  BY <1>5, <1>6

LEMMA TokensOfARow ==
  ASSUME NEW s \in Session, NEW statuses
  PROVE  /\ TokensOf(s, statuses) \in SUBSET Row
         /\ \A t \in Session, h \in Generation :
              TokenRow(t, h) \in TokensOf(s, statuses) => t = s
BY Rows DEF TokensOf

LEMMA ReuseSessionPreserves ==
  ASSUME AuthInv, NEW p \in Request, ReuseSession(p)
  PROVE  AuthInv'
<1>1. Ready(p, "reuse_session") /\ request[p].want = {}
  BY DEF ReuseSession, Ready
<1>2. "reuse_session" \in WithASession /\ "reuse_tokens" \in Step
  BY DEF WithASession, AtItsTokens, Step
<1>3. PICK rows \in SUBSET Row :
        /\ Continue(p, "reuse_tokens", rows)
        /\ \A t \in Session, h \in Generation : TokenRow(t, h) \in rows =>
             t = request[p].session
  BY <1>1, <1>2, AtItsSession, TokensOfARow DEF ReuseSession
<1>0. PICK s \in Session : request[p].session = s
  BY <1>1, <1>2, AtItsSession
<1>4. /\ request'[p].step = "reuse_tokens" /\ request'[p].session = s
      /\ Claims(p, SessionRow(s)) => Claims(p, SessionRow(s))'
  BY <1>0, <1>1, <1>2, <1>3, ContinueIs, Rows
<1>6. Claims(p, SessionRow(s))
  BY <1>0, <1>1, <1>2, AtItsSession DEF Knows, KnowsItsTokens, Ready
<1>5. KnowsItsTokens(p)'
  BY <1>4, <1>6 DEF KnowsItsTokens, Rotating
<1> QED
  BY <1>1, <1>2, <1>3, <1>5, ContinuePreserves DEF AtItsTokens

LEMMA ReplaceSessionPreserves ==
  ASSUME AuthInv, NEW p \in Request, ReplaceSession(p)
  PROVE  AuthInv'
<1>1. Ready(p, "replace_session") /\ request[p].want = {}
  BY DEF ReplaceSession, Ready
<1>2. "replace_session" \in WithASession /\ "replace_tokens" \in Step
  BY DEF WithASession, Step
<1>3. CASE Continue(p, "replace_tokens", TokensOf(request[p].session, {"active"}))
  <2>1. PICK rows \in SUBSET Row :
          /\ Continue(p, "replace_tokens", rows)
          /\ \A t \in Session, h \in Generation : TokenRow(t, h) \in rows =>
               t = request[p].session
    BY <1>1, <1>2, <1>3, AtItsSession, TokensOfARow
  <2>2. request'[p].step = "replace_tokens"
    BY <1>1, <1>2, <2>1, ContinueIs
  <2>3. KnowsItsTokens(p)'
    BY <2>2 DEF KnowsItsTokens, Rotating
  <2> QED
    BY <1>1, <1>2, <2>1, <2>3, ContinuePreserves DEF AtItsTokens
<1>4. CASE RollBack(p, "failed")
  BY <1>4, RollBackPreserves DEF Answer
<1> QED
  BY <1>3, <1>4 DEF ReplaceSession

LEMMA SwitchTokenPreserves ==
  ASSUME AuthInv, NEW p \in Request, SwitchToken(p)
  PROVE  AuthInv'
<1>1. Ready(p, "switch_token") /\ request[p].want = {}
  BY DEF SwitchToken, Ready
<1>2. "switch_token" \in WithASession
  BY DEF WithASession, AtItsTokens
<1>3. PICK s \in Session, g \in Generation, n \in Generation :
        request[p].session = s /\ request[p].generation = g /\ request[p].next = n
  BY <1>1, <1>2, AtItsSession
<1>4. /\ lock[TokenRow(s, g)] = p
      /\ Active(s) /\ token[s][g] = "active" => n = g + 1
  BY <1>1, <1>2, <1>3, AtItsSession, Rows
     DEF Knows, KnowsItsTokens, Rotating, Ready
<1>5. CASE token[s][g] = "active"
  <2>1. Continue(p, "insert", {TokenRow(s, n)})
    BY <1>3, <1>5 DEF SwitchToken
  <2>2. {TokenRow(s, n)} \in SUBSET Row /\ "insert" \in Step
    BY Rows DEF Step
  <2>3. KnowsItsTokens(p)'
    <3>1. /\ session' = session /\ token' = token /\ lock' = lock
          /\ request'[p].step = "insert"
          /\ request'[p].session = s /\ request'[p].generation = g
          /\ request'[p].next = n
          /\ \A r \in Row : Claims(p, r)' <=> lock[r] = p \/ r = TokenRow(s, n)
      BY <1>1, <1>3, <2>1, <2>2, ContinueIs
    <3> QED
      BY <1>4, <1>5, <3>1, Rows DEF KnowsItsTokens, Active
  <2> QED
    BY <1>1, <1>2, <1>3, <2>1, <2>2, <2>3, ContinuePreserves, Rows DEF AtItsTokens
<1>6. CASE token[s][g] # "active"
  BY <1>3, <1>6, RollBackPreserves DEF SwitchToken, Answer
<1> QED
  BY <1>5, <1>6

LEMMA SwitchSessionPreserves ==
  ASSUME AuthInv, NEW p \in Request, SwitchSession(p)
  PROVE  AuthInv'
<1>1. Ready(p, "switch_session") /\ request[p].want = {}
  BY DEF SwitchSession, Ready
<1>2. "switch_session" \in WithASession
  BY DEF WithASession
<1>3. PICK s \in Session, n \in Generation :
        request[p].session = s /\ request[p].next = n
  BY <1>1, <1>2, AtItsSession
<1>4. CASE RollBack(p, "refused")
  BY <1>4, RollBackPreserves DEF Answer
<1>5. ASSUME NEW g \in Generation, Active(s), session[s].generation + 1 = n,
             IsLatestActive(s, g),
             request' = [request EXCEPT ![p].step = "switch_token",
                                        ![p].generation = g,
                                        ![p].want = {TokenRow(s, g)}],
             UNCHANGED <<session, token, lock>>
      PROVE  AuthInv'
  <2> DEFINE then == [request[p] EXCEPT !.step = "switch_token", !.generation = g,
                                        !.want = {TokenRow(s, g)}]
  <2>1. request \in [Request -> RequestState] /\ request[p] \in RequestState
    BY DEF AuthInv, AuthTypeOK
  <2>2. request' = [request EXCEPT ![p] = then]
    BY <1>5, <2>1
  <2>3. {TokenRow(s, g)} \in SUBSET Row /\ "switch_token" \in Step
    BY Rows DEF Step
  <2>4. /\ then \in RequestState /\ then.step = "switch_token"
        /\ then.session = s /\ then.next = n /\ then.generation = g
        /\ then.targets = request[p].targets /\ then.answer = request[p].answer
        /\ then.want = {TokenRow(s, g)}
    BY <1>3, <2>1, <2>3 DEF RequestState
  <2> HIDE DEF then
  <2>5. /\ request' \in [Request -> RequestState] /\ request'[p] = then
        /\ \A q \in Request \ {p} : request'[q] = request[q]
        /\ session' = session /\ token' = token /\ lock' = lock
    BY <1>5, <2>1, <2>2, <2>4
  <2>6. AuthTypeOK'
    BY <2>5 DEF AuthInv, AuthTypeOK
  <2>7. token[s][g] = "active" /\ g = session[s].generation
    BY <1>5 DEF IsLatestActive, AuthInv, OneLiveToken
  <2>0. /\ request[p].answer = "none" /\ Opened(s) /\ Knows(p)
        /\ \A t \in request[p].targets : Opened(t)
    BY <1>1, <1>2, <1>3, AtItsSession DEF Knows, KnowsItsSession
  <2>8. KnowsItsSession(p)' /\ ExchangeStands(p)'
    BY <2>0, <2>4, <2>5 DEF KnowsItsSession, ExchangeStands, Opened, Active
  <2>9. TokensInReach(p)'
    BY <1>1, <1>2, <1>3, <2>4, <2>5, AtItsSession, Rows
       DEF TokensInReach, Claims, AtItsTokens
  <2>10. KnowsItsTokens(p)'
    BY <1>5, <2>4, <2>5, <2>7 DEF KnowsItsTokens, Claims, Rotating
  <2>11. request'[p].answer # "rotated"
    BY <1>1, <1>2, <2>4, <2>5, AtItsSession
  <2> QED
    BY <2>5, <2>6, <2>8, <2>9, <2>10, <2>11, QuietStep DEF Knows
<1> QED
  BY <1>3, <1>4, <1>5 DEF SwitchSession

LEMMA StartRevokeTokensPreserves ==
  ASSUME AuthInv, NEW p \in Request, StartRevokeTokens(p)
  PROVE  AuthInv'
<1> DEFINE rows == UNION {TokensOf(t, {"active"}) : t \in request[p].targets}
<1>1. /\ request[p].step = "revoked" /\ request[p].want = {} /\ Knows(p)
      /\ request[p].targets \in SUBSET Session
      /\ Continue(p, "revoke_tokens", rows) /\ "revoke_tokens" \in Step
  BY DEF StartRevokeTokens, Ready, AuthInv, AuthTypeOK, RequestState, Step
<1>2. /\ rows \in SUBSET Row
      /\ \A t \in Session, h \in Generation : TokenRow(t, h) \in rows =>
           t \in request[p].targets
  BY <1>1, TokensOfARow
<1> HIDE DEF rows
<1>3. /\ session' = session /\ token' = token
      /\ request'[p].step = "revoke_tokens"
      /\ request'[p].targets = request[p].targets
      /\ request'[p].answer = request[p].answer
      /\ \A r \in Row : Claims(p, r)' <=> lock[r] = p \/ r \in rows
      /\ Knows(p)' /\ request[p].answer = "none" => AuthInv'
  BY <1>1, <1>2, ContinueIs
<1>4. request[p].answer = "none" /\ \A t \in request[p].targets : Opened(t) /\ ~ Active(t)
  BY <1>1 DEF Knows, KnowsItsSession
<1>5. KnowsItsSession(p)' /\ ExchangeStands(p)' /\ KnowsItsTokens(p)'
  BY <1>3, <1>4 DEF KnowsItsSession, ExchangeStands, KnowsItsTokens, Opened, Active,
     WithASession, AtItsTokens, Rotating
<1>6. TokensInReach(p)'
  <2>1. \A t \in Session, h \in Generation : lock[TokenRow(t, h)] # p
    BY <1>1 DEF Knows, TokensInReach, Claims, AtItsTokens
  <2> QED
    BY <1>2, <1>3, <2>1, Rows DEF TokensInReach
<1> QED
  BY <1>3, <1>4, <1>5, <1>6 DEF Knows

-----------------------------------------------------------------------------
(* A step that writes, judged by what becomes of sessions and tokens: the  *)
(* tokens it changes are those of new sessions and those it had locked.    *)
LEMMA WriterPreserves ==
  ASSUME AuthInv, NEW p \in Request, AuthTypeOK', Forward,
         \A q \in Request \ {p} : request'[q] = request[q],
         \A r \in Row : \/ lock'[r] = lock[r] /\ lock[r] # p
                        \/ lock[r] = p /\ lock'[r] = Nobody,
         \A s \in Session, g \in Generation :
           \/ token'[s][g] = token[s][g]
           \/ lock[TokenRow(s, g)] = p
           \/ ~ Opened(s),
         NoTokensBefore', OneLiveToken', ReuseEndsTheSession',
         Knows(p)', ExchangedOnce'
  PROVE  AuthInv'
<1>1. ASSUME NEW q \in Request, q # p
      PROVE  Knows(q)'
  <2>1. \A r \in Row : lock'[r] = q <=> lock[r] = q
    BY <1>1, AuthAssumption
  <2> QED
    BY <1>1, <2>1, OthersKnow DEF AuthInv
<1> QED
  BY <1>1 DEF AuthInv

(* Ending otherwise than by an exchange adds no exchange.                  *)
LEMMA NoNewExchange ==
  ASSUME ExchangedOnce, NEW p \in Request, request'[p].answer # "rotated",
         \A q \in Request \ {p} : request'[q] = request[q]
  PROVE  ExchangedOnce'
<1>1. \A q \in Request : request'[q].answer = "rotated" => request'[q] = request[q]
  OBVIOUS
<1> QED
  BY <1>1 DEF ExchangedOnce

LEMMA WriteSessionPreserves ==
  ASSUME AuthInv, NEW p \in Request, WriteSession(p)
  PROVE  AuthInv'
<1>1. Ready(p, "write_session") /\ request[p].want = {} /\ End(p, "rotated")
  BY DEF WriteSession, Ready
<1>2. "write_session" \in WithASession
  BY DEF WithASession, AtItsTokens
<1>3. PICK s \in Session, g \in Generation, n \in Generation :
        request[p].session = s /\ request[p].generation = g /\ request[p].next = n
  BY <1>1, <1>2, AtItsSession
<1>4. /\ lock[TokenRow(s, g)] = p /\ lock[TokenRow(s, n)] = p
      /\ token[s][g] = "active" /\ token[s][n] = "none" /\ Opened(s)
  BY <1>1, <1>2, <1>3, AtItsSession, Rows
     DEF Knows, KnowsItsTokens, Rotating, Ready
<1> DEFINE then == [request[p] EXCEPT !.step = "done", !.want = {},
                                      !.answer = "rotated"]
<1>5. /\ request \in [Request -> RequestState] /\ request[p] \in RequestState
      /\ session \in [Session -> SessionState]
      /\ token \in [Session -> [Generation -> TokenStatus]]
      /\ lock \in [Row -> Request \cup {Nobody}]
  BY DEF AuthInv, AuthTypeOK
<1>6. request' = [request EXCEPT ![p] = then]
  BY <1>1, <1>5 DEF End
<1>7. /\ then \in RequestState /\ then.step = "done" /\ then.want = {}
      /\ then.answer = "rotated"
      /\ then.session = s /\ then.generation = g /\ then.next = n
      /\ then.targets = request[p].targets
  <2>1. "done" \in Step /\ "rotated" \in Answer
    BY DEF Step, Answer
  <2> QED
    BY <1>3, <1>5, <2>1 DEF RequestState
<1> HIDE DEF then
<1>8. /\ request' \in [Request -> RequestState] /\ request'[p] = then
      /\ \A q \in Request \ {p} : request'[q] = request[q]
  BY <1>5, <1>6, <1>7
<1>9. /\ lock' \in [Row -> Request \cup {Nobody}]
      /\ \A r \in Row : \/ lock'[r] = lock[r] /\ lock[r] # p
                        \/ lock[r] = p /\ lock'[r] = Nobody
  BY <1>1, <1>5 DEF End, Release
<1>10. /\ token' \in [Session -> [Generation -> TokenStatus]]
       /\ token'[s][g] = "rotated" /\ token'[s][n] = "active"
       /\ \A t \in Session, h \in Generation :
            t # s \/ h \notin {g, n} => token'[t][h] = token[t][h]
  <2>1. token' = [token EXCEPT ![s][g] = "rotated", ![s][n] = "active"]
    BY <1>3 DEF WriteSession
  <2>2. "rotated" \in TokenStatus /\ "active" \in TokenStatus
    BY DEF TokenStatus
  <2> QED
    BY <1>4, <1>5, <2>1, <2>2
<1>11. /\ session' \in [Session -> SessionState]
       /\ \A t \in Session : session'[t].status = session[t].status
       /\ \A t \in Session \ {s} : session'[t] = session[t]
       /\ Active(s) => session'[s].generation = n
  <2>1. session' = IF Active(s) THEN [session EXCEPT ![s].generation = n] ELSE session
    BY <1>3 DEF WriteSession
  <2> QED
    BY <1>5, <2>1 DEF SessionState
<1>12. AuthTypeOK'
  BY <1>8, <1>9, <1>10, <1>11 DEF AuthTypeOK
<1>13. Forward
  BY <1>4, <1>10, <1>11 DEF Forward, Opened, Active
<1>14. NoTokensBefore' /\ ReuseEndsTheSession'
  <2>1. \A t \in Session, h \in Generation :
          token'[t][h] = "reused" => token[t][h] = "reused"
    BY <1>10
  <2>2. \A t \in Session : ~ Opened(t) => t # s
    BY <1>4
  <2>3. NoTokensBefore'
    BY <1>10, <1>11, <2>2 DEF AuthInv, NoTokensBefore, Opened
  <2> QED
    BY <1>11, <2>1, <2>3 DEF AuthInv, ReuseEndsTheSession, Active
<1>15. OneLiveToken'
  <2> SUFFICES ASSUME NEW t \in Session, Active(t)', NEW h \in Generation
               PROVE  token'[t][h] = "active" <=> h = session'[t].generation
    BY DEF OneLiveToken
  <2>1. /\ Active(t)
        /\ \A k \in Generation : token[t][k] = "active" <=> k = session[t].generation
    BY <1>11 DEF AuthInv, OneLiveToken, Active
  <2>2. CASE t # s
    BY <1>10, <1>11, <2>1, <2>2
  <2>3. CASE t = s
    BY <1>4, <1>10, <1>11, <2>1, <2>3
  <2> QED
    BY <2>2, <2>3
<1>16. Knows(p)'
  <2>1. \A r \in Row : ~ Claims(p, r)'
    BY <1>7, <1>8, <1>9, AuthAssumption DEF Claims
  <2>2. \A t \in request[p].targets : t \in Session /\ Opened(t) /\ Opened(t)'
    BY <1>1, <1>2, <1>13, AtItsSession DEF Knows, KnowsItsSession, Forward
  <2>3. KnowsItsSession(p)'
    BY <1>4, <1>7, <1>8, <1>13, <2>2 DEF KnowsItsSession, Forward
  <2>4. TokensInReach(p)'
    BY <2>1, Rows DEF TokensInReach
  <2>5. KnowsItsTokens(p)' /\ ExchangeStands(p)'
    BY <1>7, <1>8, <1>10 DEF KnowsItsTokens, Rotating, ExchangeStands
  <2> QED
    BY <2>3, <2>4, <2>5 DEF Knows
<1>17. ExchangedOnce'
  <2>1. ASSUME NEW q \in Request \ {p}, request[q].answer = "rotated",
               request[q].session = s
        PROVE  request[q].next # n /\ request[q].generation # g
    BY <1>4, <2>1 DEF AuthInv, Knows, ExchangeStands
  <2>2. ExchangedOnce
    BY DEF AuthInv
  <2> QED
    BY <1>7, <1>8, <2>1, <2>2 DEF ExchangedOnce
<1>18. \A t \in Session, h \in Generation :
         token'[t][h] = token[t][h] \/ lock[TokenRow(t, h)] = p
  BY <1>4, <1>10
<1> QED
  BY <1>8, <1>9, <1>12, <1>13, <1>14, <1>15, <1>16, <1>17, <1>18, WriterPreserves

(* What SessionsEnd does: a session is revoked whose row p holds.          *)
LEMMA SessionsEndIs ==
  ASSUME session \in [Session -> SessionState], NEW p \in Request, SessionsEnd(p)
  PROVE  /\ session' \in [Session -> SessionState]
         /\ \A s \in Session : /\ Opened(s)' <=> Opened(s)
                               /\ Active(s)' => Active(s) /\ session'[s] = session[s]
                               /\ lock[SessionRow(s)] = p => ~ Active(s)'
BY DEF SessionsEnd, SessionState, Opened, Active, Holds

LEMMA WriteReusePreserves ==
  ASSUME AuthInv, NEW p \in Request, WriteReuse(p)
  PROVE  AuthInv'
<1>1. /\ Ready(p, "reuse_tokens") /\ request[p].want = {} /\ End(p, "reused")
      /\ request[p].step = "reuse_tokens" /\ SessionsEnd(p)
  BY DEF WriteReuse, Ready
<1>2. "reuse_tokens" \in WithASession /\ "reused" \in Answer
  BY DEF WithASession, AtItsTokens, Answer
<1>3. PICK s \in Session, g \in Generation :
        request[p].session = s /\ request[p].generation = g
  BY <1>1, <1>2, AtItsSession
<1>4. /\ lock[SessionRow(s)] = p /\ Opened(s)
      /\ \A t \in Session, h \in Generation : lock[TokenRow(t, h)] = p => t = s
  BY <1>1, <1>2, <1>3, AtItsSession, Rows DEF Knows, KnowsItsTokens
<1>5. /\ session \in [Session -> SessionState]
      /\ token \in [Session -> [Generation -> TokenStatus]]
  BY DEF AuthInv, AuthTypeOK
<1>6. token' = [t \in Session |-> [h \in Generation |->
        IF lock[TokenRow(t, h)] = p
          THEN IF token[t][h] = "reused" THEN "reused"
               ELSE IF h = g THEN "reused" ELSE "revoked"
          ELSE token[t][h]]]
  BY <1>3 DEF WriteReuse, TokensEnd, Holds
<1>7. /\ token' \in [Session -> [Generation -> TokenStatus]]
      /\ \A t \in Session, h \in Generation :
           IF lock[TokenRow(t, h)] = p THEN token'[t][h] \in {"reused", "revoked"}
                                       ELSE token'[t][h] = token[t][h]
  BY <1>5, <1>6 DEF TokenStatus
<1>8. /\ session' \in [Session -> SessionState]
      /\ \A t \in Session : /\ Opened(t)' <=> Opened(t)
                            /\ Active(t)' => Active(t) /\ session'[t] = session[t]
      /\ ~ Active(s)'
  BY <1>1, <1>4, <1>5, SessionsEndIs
<1>9. AuthTypeOK'
  BY <1>1, <1>2, <1>7, <1>8, OverIs DEF AuthInv, AuthTypeOK
<1>10. Forward
  <2>1. \A t \in Session, h \in Generation :
          /\ token[t][h] # "none" => token'[t][h] # "none"
          /\ token'[t][h] = "active" => token[t][h] = "active"
    BY <1>7
  <2> QED
    BY <1>8, <2>1 DEF Forward
<1>11. \A t \in Session \ {s}, h \in Generation : token'[t][h] = token[t][h]
  BY <1>4, <1>7
<1>12. NoTokensBefore'
  BY <1>4, <1>8, <1>11 DEF AuthInv, NoTokensBefore
<1>13. OneLiveToken' /\ ReuseEndsTheSession'
  <2>1. \A t \in Session : Active(t)' => t # s /\ Active(t) /\ session'[t] = session[t]
    BY <1>8
  <2>2. OneLiveToken'
    BY <1>11, <2>1 DEF AuthInv, OneLiveToken
  <2> QED
    BY <1>11, <2>1, <2>2 DEF AuthInv, ReuseEndsTheSession
<1>14. \A t \in Session, h \in Generation :
         token'[t][h] = token[t][h] \/ lock[TokenRow(t, h)] = p
  BY <1>7
<1>15. /\ \A q \in Request \ {p} : request'[q] = request[q]
       /\ \A r \in Row : \/ lock'[r] = lock[r] /\ lock[r] # p
                         \/ lock[r] = p /\ lock'[r] = Nobody
       /\ Knows(p)' /\ request'[p].answer # "rotated"
  BY <1>1, <1>2, OverIs DEF AuthInv
<1>16. ExchangedOnce'
  BY <1>15, NoNewExchange DEF AuthInv
<1> QED
  BY <1>9, <1>10, <1>12, <1>13, <1>14, <1>15, <1>16, WriterPreserves

LEMMA RevokeTokensPreserves ==
  ASSUME AuthInv, NEW p \in Request, RevokeTokens(p)
  PROVE  AuthInv'
<1>1. /\ request[p].step = "revoke_tokens" /\ request[p].want = {}
      /\ End(p, "revoked") /\ session' = session /\ Knows(p)
  BY DEF RevokeTokens, Ready, AuthInv
<1>2. \A t \in Session, h \in Generation : lock[TokenRow(t, h)] = p => ~ Active(t) /\ Opened(t)
  BY <1>1 DEF Knows, TokensInReach, KnowsItsSession, Claims, AtItsTokens
<1>3. /\ token \in [Session -> [Generation -> TokenStatus]]
      /\ token' = [t \in Session |-> [h \in Generation |->
           IF lock[TokenRow(t, h)] = p
             THEN IF token[t][h] = "active" THEN "revoked" ELSE token[t][h]
             ELSE token[t][h]]]
  BY DEF RevokeTokens, TokensEnd, Holds, AuthInv, AuthTypeOK
<1>4. /\ token' \in [Session -> [Generation -> TokenStatus]]
      /\ \A t \in Session, h \in Generation :
           \/ token'[t][h] = token[t][h]
           \/ /\ lock[TokenRow(t, h)] = p
              /\ token[t][h] = "active" /\ token'[t][h] = "revoked"
  BY <1>3 DEF TokenStatus
<1>5. "revoked" \in Answer
  BY DEF Answer
<1>6. AuthTypeOK'
  BY <1>1, <1>4, <1>5, OverIs DEF AuthInv, AuthTypeOK
<1>7. Forward
  BY <1>1, <1>4 DEF Forward, Opened, Active
<1>8. NoTokensBefore' /\ OneLiveToken' /\ ReuseEndsTheSession'
  BY <1>1, <1>2, <1>4
     DEF AuthInv, NoTokensBefore, OneLiveToken, ReuseEndsTheSession, Opened, Active
<1>9. /\ \A q \in Request \ {p} : request'[q] = request[q]
      /\ \A r \in Row : \/ lock'[r] = lock[r] /\ lock[r] # p
                        \/ lock[r] = p /\ lock'[r] = Nobody
      /\ Knows(p)' /\ request'[p].answer # "rotated"
  BY <1>1, <1>5, OverIs DEF AuthInv
<1>10. ExchangedOnce'
  BY <1>9, NoNewExchange DEF AuthInv
<1> QED
  BY <1>4, <1>6, <1>7, <1>8, <1>9, <1>10, WriterPreserves

LEMMA RevokeSessionsPreserves ==
  ASSUME AuthInv, NEW p \in Request, RevokeSessions(p)
  PROVE  AuthInv'
<1>1. /\ request[p].step \in {"revoke_one", "revoke_all"} /\ request[p].want = {}
      /\ SessionsEnd(p) /\ Release(p) /\ token' = token /\ Knows(p)
  BY DEF RevokeSessions, Ready, AuthInv
<1>2. /\ request \in [Request -> RequestState] /\ request[p] \in RequestState
      /\ session \in [Session -> SessionState]
      /\ lock \in [Row -> Request \cup {Nobody}]
  BY DEF AuthInv, AuthTypeOK
<1>3. PICK targets \in SUBSET request[p].targets :
        targets = IF request[p].step = "revoke_one" THEN request[p].targets
                  ELSE {t \in request[p].targets : Active(t)}
  OBVIOUS
<1> DEFINE then == [request[p] EXCEPT !.step = "revoked", !.targets = targets]
<1>4. request' = [request EXCEPT ![p] = then]
  BY <1>2, <1>3 DEF RevokeSessions
<1>5. /\ then \in RequestState /\ then.step = "revoked" /\ then.want = {}
      /\ then.answer = request[p].answer /\ then.session = request[p].session
      /\ then.targets = targets /\ targets \subseteq Session
  <2>1. "revoked" \in Step /\ request[p].targets \subseteq Session
    BY <1>2 DEF Step, RequestState
  <2> QED
    BY <1>1, <1>2, <2>1 DEF RequestState
<1> HIDE DEF then
<1>6. /\ request' \in [Request -> RequestState] /\ request'[p] = then
      /\ \A q \in Request \ {p} : request'[q] = request[q]
  BY <1>2, <1>4, <1>5
<1>7. /\ lock' \in [Row -> Request \cup {Nobody}]
      /\ \A r \in Row : \/ lock'[r] = lock[r] /\ lock[r] # p
                        \/ lock[r] = p /\ lock'[r] = Nobody
  BY <1>1, <1>2 DEF Release
<1>8. /\ session' \in [Session -> SessionState]
      /\ \A s \in Session : /\ Opened(s)' <=> Opened(s)
                            /\ Active(s)' => Active(s) /\ session'[s] = session[s]
                            /\ lock[SessionRow(s)] = p => ~ Active(s)'
  BY <1>1, <1>2, SessionsEndIs
<1>9. AuthTypeOK'
  BY <1>1, <1>6, <1>7, <1>8 DEF AuthInv, AuthTypeOK
<1>10. Forward
  BY <1>1, <1>8 DEF Forward
<1>11. NoTokensBefore' /\ OneLiveToken' /\ ReuseEndsTheSession'
  BY <1>1, <1>8 DEF AuthInv, NoTokensBefore, OneLiveToken, ReuseEndsTheSession
<1>12. request[p].answer = "none"
  BY <1>1 DEF Knows, KnowsItsSession
<1>13. \A t \in targets : Opened(t)' /\ ~ Active(t)'
  <2> TAKE t \in targets
  <2>1. t \in Session /\ Opened(t) /\ Claims(p, SessionRow(t))
    BY <1>1, <1>5 DEF Knows, KnowsItsSession
  <2>2. lock[SessionRow(t)] = p
    BY <1>1, <2>1 DEF Claims
  <2> QED
    BY <1>8, <2>1, <2>2
<1>14. \A r \in Row : ~ Claims(p, r)'
  BY <1>5, <1>6, <1>7, AuthAssumption DEF Claims
<1>15. Knows(p)'
  BY <1>5, <1>6, <1>12, <1>13, <1>14, Rows DEF Knows, KnowsItsSession,
     TokensInReach, KnowsItsTokens, ExchangeStands, WithASession, AtItsTokens, Rotating
<1>16. ExchangedOnce'
  BY <1>5, <1>6, <1>12, NoNewExchange DEF AuthInv
<1> QED
  BY <1>1, <1>6, <1>7, <1>9, <1>10, <1>11, <1>15, <1>16, WriterPreserves

(* A company switched to: the session it came from ends, with the active   *)
(* token that was locked, and a new one has its first token.               *)
LEMMA WriteReplacementPreserves ==
  ASSUME AuthInv, NEW p \in Request, NEW n \in Session, NEW o \in Owner,
         WriteReplacement(p, n, o)
  PROVE  AuthInv'
<1>1. /\ Ready(p, "replace_tokens") /\ request[p].step = "replace_tokens"
      /\ End(p, "replaced") /\ ~ Opened(n)
  BY DEF WriteReplacement, Ready, Fresh, Opened
<1>2. "replace_tokens" \in WithASession /\ "replaced" \in Answer
  BY DEF WithASession, AtItsTokens, Answer
<1>3. PICK s \in Session : request[p].session = s
  BY <1>1, <1>2, AtItsSession
<1>4. /\ Opened(s) /\ s # n
      /\ \A t \in Session, h \in Generation : lock[TokenRow(t, h)] = p => t = s
  BY <1>1, <1>2, <1>3, AtItsSession
<1>5. /\ session \in [Session -> SessionState]
      /\ token \in [Session -> [Generation -> TokenStatus]]
      /\ 0 \in Generation
  BY AuthAssumption DEF AuthInv, AuthTypeOK, Generation
<1> DEFINE opened == [status |-> "active", owner |-> o, generation |-> 0]
<1>6. /\ session' = [session EXCEPT ![s].status = "revoked", ![n] = opened]
      /\ token' = [t \in Session |-> [h \in Generation |->
           IF t = n /\ h = 0 THEN "active"
           ELSE IF lock[TokenRow(t, h)] = p /\ token[t][h] = "active"
           THEN "revoked" ELSE token[t][h]]]
  BY <1>3 DEF WriteReplacement, Holds
<1>7. /\ session' \in [Session -> SessionState]
      /\ session'[s].status = "revoked" /\ session'[n].status = "active"
      /\ session'[n].generation = 0
      /\ \A t \in Session \ {s, n} : session'[t] = session[t]
  <2>1. opened \in SessionState /\ opened.status = "active" /\ opened.generation = 0
    BY <1>5 DEF SessionState
  <2> HIDE DEF opened
  <2> QED
    BY <1>4, <1>5, <1>6, <2>1 DEF SessionState
<1>8. /\ token' \in [Session -> [Generation -> TokenStatus]]
      /\ \A t \in Session, h \in Generation :
           \/ token'[t][h] = token[t][h] /\ ~ (t = n /\ h = 0)
           \/ t = n /\ h = 0 /\ token'[t][h] = "active"
           \/ t = s /\ lock[TokenRow(t, h)] = p
                    /\ token[t][h] = "active" /\ token'[t][h] = "revoked"
  BY <1>4, <1>5, <1>6 DEF TokenStatus
<1>9. AuthTypeOK'
  BY <1>1, <1>2, <1>7, <1>8, OverIs DEF AuthInv, AuthTypeOK
<1>10. \A h \in Generation : token[n][h] = "none"
  BY <1>1 DEF AuthInv, NoTokensBefore
<1>11. Forward
  <2>1. \A t \in Session : Opened(t) => Opened(t)' /\ (Active(t)' => Active(t))
    BY <1>1, <1>7 DEF Opened, Active
  <2>2. \A t \in Session, h \in Generation : token[t][h] # "none" =>
          token'[t][h] # "none" /\ (token'[t][h] = "active" => token[t][h] = "active")
    BY <1>8, <1>10
  <2> QED
    BY <2>1, <2>2 DEF Forward
<1>12. NoTokensBefore'
  <2>1. \A t \in Session : ~ Opened(t)' => t \notin {s, n} /\ ~ Opened(t)
    BY <1>7 DEF Opened
  <2> QED
    BY <1>8, <2>1 DEF AuthInv, NoTokensBefore
<1>13. OneLiveToken'
  <2> SUFFICES ASSUME NEW t \in Session, Active(t)', NEW h \in Generation
               PROVE  token'[t][h] = "active" <=> h = session'[t].generation
    BY DEF OneLiveToken
  <2>1. CASE t = n
    BY <1>4, <1>7, <1>8, <1>10, <2>1
  <2>2. CASE t # n
    <3>1. t # s /\ session'[t] = session[t]
      BY <1>7, <2>2 DEF Active
    <3>2. Active(t) /\ token'[t][h] = token[t][h]
      BY <1>8, <2>2, <3>1 DEF Active
    <3> QED
      BY <3>1, <3>2 DEF AuthInv, OneLiveToken
  <2> QED
    BY <2>1, <2>2
<1>14. ReuseEndsTheSession'
  <2>1. \A t \in Session, h \in Generation :
          token'[t][h] = "reused" => token[t][h] = "reused" /\ t # n
    BY <1>8, <1>10
  <2>2. \A t \in Session \ {n} : Active(t)' => Active(t)
    BY <1>7 DEF Active
  <2> QED
    BY <2>1, <2>2 DEF AuthInv, ReuseEndsTheSession
<1>15. \A t \in Session, h \in Generation :
         \/ token'[t][h] = token[t][h]
         \/ lock[TokenRow(t, h)] = p
         \/ ~ Opened(t)
  BY <1>1, <1>8
<1>16. /\ \A q \in Request \ {p} : request'[q] = request[q]
       /\ \A r \in Row : \/ lock'[r] = lock[r] /\ lock[r] # p
                         \/ lock[r] = p /\ lock'[r] = Nobody
       /\ Knows(p)' /\ request'[p].answer # "rotated"
  BY <1>1, <1>2, OverIs DEF AuthInv
<1>17. ExchangedOnce'
  BY <1>16, NoNewExchange DEF AuthInv
<1> QED
  BY <1>9, <1>11, <1>12, <1>13, <1>14, <1>15, <1>16, <1>17, WriterPreserves

(* A session opened beside the others.                                     *)
LEMMA SignedInIs ==
  ASSUME AuthInv, NEW s \in Session, NEW o \in Owner, SignedIn(s, o)
  PROVE  /\ session' \in [Session -> SessionState]
         /\ token' \in [Session -> [Generation -> TokenStatus]]
         /\ Forward /\ NoTokensBefore' /\ OneLiveToken' /\ ReuseEndsTheSession'
         /\ \A t \in Session, h \in Generation :
              token'[t][h] = token[t][h] \/ ~ Opened(t)
<1>1. /\ session \in [Session -> SessionState]
      /\ token \in [Session -> [Generation -> TokenStatus]]
      /\ 0 \in Generation
  BY AuthAssumption DEF AuthInv, AuthTypeOK, Generation
<1> DEFINE opened == [status |-> "active", owner |-> o, generation |-> 0]
<1>2. /\ session' = [session EXCEPT ![s] = opened]
      /\ token' = [token EXCEPT ![s][0] = "active"]
      /\ ~ Opened(s)
  BY DEF SignedIn, Fresh, Opened
<1>3. /\ session' \in [Session -> SessionState]
      /\ session'[s].status = "active" /\ session'[s].generation = 0
      /\ \A t \in Session \ {s} : session'[t] = session[t]
  <2>1. opened \in SessionState /\ opened.status = "active" /\ opened.generation = 0
    BY <1>1 DEF SessionState
  <2> HIDE DEF opened
  <2> QED
    BY <1>1, <1>2, <2>1
<1>4. /\ token' \in [Session -> [Generation -> TokenStatus]]
      /\ token'[s][0] = "active"
      /\ \A t \in Session, h \in Generation :
           t # s \/ h # 0 => token'[t][h] = token[t][h]
  BY <1>1, <1>2 DEF TokenStatus
<1>5. \A h \in Generation : token[s][h] = "none"
  BY <1>2 DEF AuthInv, NoTokensBefore
<1>6. Forward
  BY <1>2, <1>3, <1>4, <1>5 DEF Forward, Opened, Active
<1>7. NoTokensBefore'
  BY <1>3, <1>4 DEF AuthInv, NoTokensBefore, Opened
<1>8. OneLiveToken'
  <2> SUFFICES ASSUME NEW t \in Session, Active(t)', NEW h \in Generation
               PROVE  token'[t][h] = "active" <=> h = session'[t].generation
    BY DEF OneLiveToken
  <2>1. CASE t = s
    BY <1>3, <1>4, <1>5, <2>1
  <2>2. CASE t # s
    BY <1>3, <1>4, <2>2 DEF AuthInv, OneLiveToken, Active
  <2> QED
    BY <2>1, <2>2
<1>9. ReuseEndsTheSession'
  <2>1. \A t \in Session, h \in Generation :
          token'[t][h] = "reused" => token[t][h] = "reused" /\ t # s
    BY <1>4, <1>5
  <2> QED
    BY <1>3, <2>1 DEF AuthInv, ReuseEndsTheSession, Active
<1> QED
  BY <1>2, <1>3, <1>4, <1>6, <1>7, <1>8, <1>9

LEMMA SignInPreserves ==
  ASSUME AuthInv, NEW s \in Session, NEW o \in Owner, SignIn(s, o)
  PROVE  AuthInv'
<1>1. SignedIn(s, o) /\ request' = request /\ lock' = lock
  BY DEF SignIn
<1>2. AuthTypeOK'
  BY <1>1, SignedInIs DEF AuthInv, AuthTypeOK
<1>3. ASSUME NEW q \in Request
      PROVE  Knows(q)'
  BY <1>1, <1>3, SignedInIs, OthersKnow DEF AuthInv
<1>4. ExchangedOnce'
  BY <1>1 DEF AuthInv, ExchangedOnce
<1> QED
  BY <1>1, <1>2, <1>3, <1>4, SignedInIs DEF AuthInv

-----------------------------------------------------------------------------
LEMMA AuthInitHolds ==
  ASSUME AuthInit
  PROVE  AuthInv
<1>1. (CHOOSE o \in Owner : TRUE) \in Owner /\ 0 \in Generation
  BY AuthAssumption DEF Generation
<1>2. /\ \A s \in Session : session[s].status = "none"
      /\ \A s \in Session, g \in Generation : token[s][g] = "none"
      /\ \A p \in Request : request[p] = NotSent
      /\ \A r \in Row : lock[r] = Nobody
  BY DEF AuthInit
<1>3. AuthTypeOK
  <2>1. session \in [Session -> SessionState]
    BY <1>1 DEF AuthInit, SessionState
  <2>2. token \in [Session -> [Generation -> TokenStatus]]
    BY DEF AuthInit, TokenStatus
  <2>3. request \in [Request -> RequestState] /\ lock \in [Row -> Request \cup {Nobody}]
    BY NotSentIsARequest DEF AuthInit
  <2> QED
    BY <2>1, <2>2, <2>3 DEF AuthTypeOK
<1>4. NoTokensBefore /\ OneLiveToken /\ ReuseEndsTheSession
  BY <1>2 DEF NoTokensBefore, OneLiveToken, ReuseEndsTheSession, Active
<1>5. ExchangedOnce
  BY <1>2 DEF ExchangedOnce, NotSent
<1>6. ASSUME NEW p \in Request
      PROVE  Knows(p)
  <2>1. /\ request[p].step = "idle" /\ request[p].want = {}
        /\ request[p].targets = {} /\ request[p].answer = "none"
    BY <1>2 DEF NotSent
  <2>2. \A r \in Row : ~ Claims(p, r)
    BY <1>2, <2>1, AuthAssumption DEF Claims
  <2> QED
    BY <2>1, <2>2, Rows DEF Knows, KnowsItsSession, TokensInReach,
       KnowsItsTokens, ExchangeStands, WithASession, AtItsTokens, Rotating
<1> QED
  BY <1>3, <1>4, <1>5, <1>6 DEF AuthInv

LEMMA AuthNextPreserves ==
  ASSUME AuthInv, AuthNext
  PROVE  AuthInv'
<1>1. ASSUME NEW s \in Session, NEW o \in Owner, SignIn(s, o)
      PROVE  AuthInv'
  BY <1>1, SignInPreserves
<1>2. ASSUME NEW p \in Request, Send(p)
      PROVE  AuthInv'
  BY <1>2, SendPreserves
<1>3. ASSUME NEW p \in Request, Proceed(p)
      PROVE  AuthInv'
  BY <1>3, AcquirePreserves, RotateTokenPreserves, InsertPreserves,
     WriteSessionPreserves, ReuseSessionPreserves, WriteReusePreserves,
     SwitchSessionPreserves, SwitchTokenPreserves, ReplaceSessionPreserves,
     WriteReplacementPreserves, RevokeSessionsPreserves,
     StartRevokeTokensPreserves, RevokeTokensPreserves DEF Proceed
<1>4. ASSUME NEW p \in Request, DeadlockVictim(p) \/ Fail(p)
      PROVE  AuthInv'
  BY <1>4, RollBackPreserves DEF DeadlockVictim, Fail, Answer
<1> QED
  BY <1>1, <1>2, <1>3, <1>4 DEF AuthNext

-----------------------------------------------------------------------------
(***************************************************************************)
(* Challenges.  A selection under way has read a challenge, and what it    *)
(* read of the count is not more than what the count is now: so the one    *)
(* that invalidates brings it to the limit.                                *)
(***************************************************************************)
KnowsItsChallenge(p) ==
  request[p].step = "selecting" =>
    /\ seen[p].challenge \in Challenge
    /\ seen[p].attempts <= challenge[seen[p].challenge].attempts

SpentOnce(c) ==
  /\ issued[c] = {} \/ \E s \in Session : issued[c] = {s}
  /\ challenge[c].status = "consumed" <=> issued[c] # {}
  /\ challenge[c].status = "consumed" => challenge[c].attempts < MaxAttempts
  /\ challenge[c].status = "invalidated" => challenge[c].attempts = MaxAttempts

Seen == [challenge : Challenge \cup {NoChallenge}, attempts : 0..MaxAttempts]

ChallengeTypeOK == /\ challenge \in [Challenge -> ChallengeState]
                   /\ seen \in [Request -> Seen]
                   /\ issued \in [Challenge -> SUBSET Session]

ChallengeInv == /\ ChallengeTypeOK
                /\ \A p \in Request : KnowsItsChallenge(p)
                /\ \A c \in Challenge : SpentOnce(c)

(* Only BeginSelection makes a request select.                             *)
NobodySelects == \A q \in Request :
  request'[q].step = "selecting" => request[q].step = "selecting"

LEMMA EndsSelecting ==
  ASSUME AuthTypeOK, NEW p \in Request, NEW answer, End(p, answer)
  PROVE  /\ request'[p].step = "done"
         /\ \A q \in Request \ {p} : request'[q] = request[q]
<1>1. /\ request \in [Request -> RequestState] /\ request[p] \in RequestState
      /\ NotSent \in RequestState
  BY NotSentIsARequest DEF AuthTypeOK
<1> DEFINE exchanged == [request[p] EXCEPT !.step = "done", !.want = {},
                                           !.answer = answer]
           over == [NotSent EXCEPT !.step = "done", !.answer = answer]
<1>2. request' = [request EXCEPT ![p] = IF answer = "rotated" THEN exchanged ELSE over]
  BY <1>1 DEF End
<1>3. exchanged.step = "done" /\ over.step = "done"
  BY <1>1 DEF RequestState
<1> HIDE DEF exchanged, over
<1> QED
  BY <1>1, <1>2, <1>3

LEMMA ContinueSelecting ==
  ASSUME AuthTypeOK, NEW p \in Request, NEW step, NEW rows, Continue(p, step, rows)
  PROVE  /\ request'[p].step = step
         /\ \A q \in Request \ {p} : request'[q] = request[q]
BY DEF Continue, AuthTypeOK, RequestState

LEMMA BeginSelecting ==
  ASSUME AuthTypeOK, NEW p \in Request, NEW r, Begin(p, r)
  PROVE  /\ request'[p] = r
         /\ \A q \in Request \ {p} : request'[q] = request[q]
BY DEF Begin, AuthTypeOK

LEMMA NobodyStartsToSelect ==
  ASSUME AuthInv, AuthNext
  PROVE  NobodySelects
<1>0. AuthTypeOK /\ request \in [Request -> RequestState] /\ NotSent \in RequestState
  BY NotSentIsARequest DEF AuthInv, AuthTypeOK
<1>1. ASSUME NEW s \in Session, NEW o \in Owner, SignIn(s, o)
      PROVE  NobodySelects
  BY <1>1 DEF SignIn, NobodySelects
<1>2. ASSUME NEW p \in Request, NEW r, Begin(p, r), r.step # "selecting"
      PROVE  NobodySelects
  BY <1>0, <1>2, BeginSelecting DEF NobodySelects
<1>3. ASSUME NEW p \in Request, Send(p)
      PROVE  NobodySelects
  <2>1. ASSUME NEW s \in Session, NEW g \in Generation, BeginRefresh(p, s, g)
        PROVE  NobodySelects
    BY <1>2, <2>1 DEF BeginRefresh, NotSent
  <2>2. ASSUME NEW s \in Session, NEW g \in Generation, RefreshOutOfContext(p, s, g)
        PROVE  NobodySelects
    BY <1>2, <2>2 DEF RefreshOutOfContext, NotSent
  <2>3. ASSUME NEW s \in Session, BeginSwitchBranch(p, s)
        PROVE  NobodySelects
    BY <1>2, <2>3 DEF BeginSwitchBranch, NotSent
  <2>4. ASSUME NEW s \in Session, BeginSwitchCompany(p, s)
        PROVE  NobodySelects
    BY <1>2, <2>4 DEF BeginSwitchCompany, NotSent
  <2>5. ASSUME NEW s \in Session, BeginLogout(p, s)
        PROVE  NobodySelects
    BY <1>2, <2>5 DEF BeginLogout, NotSent
  <2>6. ASSUME NEW s \in Session, NEW kept, BeginLogoutAll(p, s, kept)
        PROVE  NobodySelects
    BY <1>2, <2>6 DEF BeginLogoutAll, NotSent
  <2> QED
    BY <1>3, <2>1, <2>2, <2>3, <2>4, <2>5, <2>6 DEF Send
<1>4. ASSUME NEW p \in Request, NEW answer, End(p, answer)
      PROVE  NobodySelects
  BY <1>0, <1>4, EndsSelecting DEF NobodySelects
<1>5. ASSUME NEW p \in Request, NEW step, NEW rows, Continue(p, step, rows),
             step # "selecting"
      PROVE  NobodySelects
  BY <1>0, <1>5, ContinueSelecting DEF NobodySelects
<1>6. ASSUME NEW p \in Request, NEW r, Acquire(p, r)
      PROVE  NobodySelects
  BY <1>0, <1>6 DEF NobodySelects, Acquire, RequestState
<1>7. ASSUME NEW p \in Request, SwitchSession(p)
      PROVE  NobodySelects
  <2>1. ASSUME NEW g, NEW rows,
               request' = [request EXCEPT ![p].step = "switch_token",
                                          ![p].generation = g, ![p].want = rows]
        PROVE  NobodySelects
    BY <1>0, <2>1 DEF NobodySelects, RequestState
  <2> QED
    BY <1>4, <1>7, <2>1 DEF SwitchSession, RollBack
<1>8. ASSUME NEW p \in Request, RevokeSessions(p)
      PROVE  NobodySelects
  <2>1. PICK targets : request' = [request EXCEPT ![p].step = "revoked",
                                                  ![p].targets = targets]
    BY <1>8 DEF RevokeSessions
  <2> QED
    BY <1>0, <2>1 DEF NobodySelects, RequestState
<1>9. ASSUME NEW p \in Request, Proceed(p)
      PROVE  NobodySelects
  <2>1. ASSUME RotateToken(p) \/ Insert(p) \/ ReuseSession(p)
        PROVE  NobodySelects
    BY <1>4, <1>5, <2>1 DEF RotateToken, Insert, ReuseSession, RollBack
  <2>2. ASSUME SwitchToken(p) \/ ReplaceSession(p) \/ StartRevokeTokens(p)
        PROVE  NobodySelects
    BY <1>4, <1>5, <2>2 DEF SwitchToken, ReplaceSession, StartRevokeTokens, RollBack
  <2>3. ASSUME \/ WriteSession(p) \/ WriteReuse(p) \/ RevokeTokens(p)
               \/ \E n \in Session, o \in Owner : WriteReplacement(p, n, o)
        PROVE  NobodySelects
    BY <1>4, <2>3 DEF WriteSession, WriteReuse, RevokeTokens, WriteReplacement
  <2> QED
    BY <1>6, <1>7, <1>8, <1>9, <2>1, <2>2, <2>3 DEF Proceed
<1>10. ASSUME NEW p \in Request, DeadlockVictim(p) \/ Fail(p)
       PROVE  NobodySelects
  BY <1>4, <1>10 DEF DeadlockVictim, Fail, RollBack
<1> QED
  BY <1>1, <1>3, <1>9, <1>10 DEF AuthNext

Inv == AuthInv /\ ChallengeInv

(* What a request knows of its challenge survives what others do to it.    *)
LEMMA ChallengesStand ==
  ASSUME ChallengeInv, NEW p \in Request, ChallengeTypeOK',
         \A q \in Request \ {p} : request'[q] = request[q] /\ seen'[q] = seen[q],
         KnowsItsChallenge(p)',
         \A c \in Challenge : challenge[c].attempts <= challenge'[c].attempts,
         \A c \in Challenge : SpentOnce(c)'
  PROVE  ChallengeInv'
<1>1. ASSUME NEW q \in Request, q # p, request[q].step = "selecting"
      PROVE  /\ seen[q].challenge \in Challenge
             /\ seen[q].attempts <= challenge'[seen[q].challenge].attempts
  <2>1. PICK c \in Challenge : seen[q].challenge = c
    BY <1>1 DEF ChallengeInv, KnowsItsChallenge
  <2>2. seen[q].attempts <= challenge[c].attempts
    BY <1>1, <2>1 DEF ChallengeInv, KnowsItsChallenge
  <2>3. /\ seen[q].attempts \in Nat /\ challenge[c].attempts \in Nat
        /\ challenge'[c].attempts \in Nat
    BY ChallengeAssumption
       DEF ChallengeInv, ChallengeTypeOK, Seen, ChallengeState
  <2> QED
    BY <2>1, <2>2, <2>3
<1>2. \A q \in Request : KnowsItsChallenge(q)'
  BY <1>1 DEF KnowsItsChallenge
<1> QED
  BY <1>2 DEF ChallengeInv

LEMMA AuthStepKeepsChallenges ==
  ASSUME Inv, NobodySelects, UNCHANGED <<challenge, seen, issued>>
  PROVE  ChallengeInv'
BY DEF Inv, ChallengeInv, ChallengeTypeOK, KnowsItsChallenge, SpentOnce, NobodySelects

LEMMA CreateChallengePreserves ==
  ASSUME Inv, NEW c \in Challenge, CreateChallenge(c)
  PROVE  Inv'
<1>1. /\ session' = session /\ token' = token /\ request' = request /\ lock' = lock
      /\ seen' = seen /\ issued' = issued
  BY DEF CreateChallenge, authVars
<1>2. AuthInv'
  <2>1. AuthTypeOK' /\ NoTokensBefore' /\ OneLiveToken'
    BY <1>1 DEF Inv, AuthInv, AuthTypeOK, NoTokensBefore, OneLiveToken, Opened, Active
  <2>2. ReuseEndsTheSession' /\ ExchangedOnce'
    BY <1>1 DEF Inv, AuthInv, ReuseEndsTheSession, ExchangedOnce, Active
  <2>3. Forward
    BY <1>1 DEF Forward, Opened, Active
  <2>4. ASSUME NEW q \in Request
        PROVE  Knows(q)'
    BY <1>1, <2>3, OthersKnow DEF Inv, AuthInv
  <2> QED
    BY <2>1, <2>2, <2>4 DEF AuthInv
<1>3. /\ challenge \in [Challenge -> ChallengeState]
      /\ challenge[c].status = "none"
      /\ challenge' = [challenge EXCEPT ![c].status = "pending"]
  BY DEF CreateChallenge, Inv, ChallengeInv, ChallengeTypeOK
<1>4. /\ challenge' \in [Challenge -> ChallengeState]
      /\ challenge'[c].status = "pending"
      /\ \A d \in Challenge : challenge'[d].attempts = challenge[d].attempts
      /\ \A d \in Challenge \ {c} : challenge'[d] = challenge[d]
  BY <1>3 DEF ChallengeState
<1>5. \A d \in Challenge : SpentOnce(d)'
  BY <1>1, <1>3, <1>4 DEF Inv, ChallengeInv, SpentOnce
<1>6. ChallengeTypeOK' /\ \A p \in Request : KnowsItsChallenge(p)'
  BY <1>1, <1>4 DEF Inv, ChallengeInv, ChallengeTypeOK, KnowsItsChallenge
<1> QED
  BY <1>2, <1>5, <1>6 DEF Inv, ChallengeInv

LEMMA BeginSelectionPreserves ==
  ASSUME Inv, NEW p \in Request, NEW c \in Challenge, BeginSelection(p, c)
  PROVE  Inv'
<1> DEFINE r == [NotSent EXCEPT !.step = "selecting"]
<1>1. /\ r \in RequestState /\ r.step = "selecting" /\ r.answer = "none"
      /\ r.want = {} /\ r.targets = {}
  BY NotSentIsARequest DEF NotSent, RequestState, Step
<1>2. Begin(p, r)
  BY DEF BeginSelection
<1> HIDE DEF r
<1>3. /\ request'[p] = r /\ session' = session /\ token' = token
      /\ \A s \in Session, g \in Generation : ~ Claims(p, TokenRow(s, g))'
      /\ Knows(p)' => AuthInv'
  BY <1>1, <1>2, BeginIs DEF Inv
<1>4. Knows(p)'
  BY <1>1, <1>3 DEF Knows, KnowsItsSession, TokensInReach, KnowsItsTokens,
     ExchangeStands, WithASession, AtItsTokens, Rotating
<1>5. \A q \in Request \ {p} : request'[q] = request[q]
  BY <1>2 DEF Begin, Inv, AuthInv, AuthTypeOK
<1> DEFINE read == [challenge |-> c, attempts |-> challenge[c].attempts]
<1>6. /\ seen' = [seen EXCEPT ![p] = read]
      /\ challenge' = challenge /\ issued' = issued
  BY DEF BeginSelection
<1>7. /\ challenge[c].attempts \in 0..MaxAttempts /\ challenge[c].attempts \in Int
      /\ seen \in [Request -> Seen]
  BY ChallengeAssumption DEF Inv, ChallengeInv, ChallengeTypeOK, ChallengeState
<1>8. /\ read \in Seen /\ read.challenge = c
      /\ read.attempts = challenge[c].attempts
  BY <1>7 DEF Seen
<1> HIDE DEF read
<1>9. /\ seen' \in [Request -> Seen] /\ seen'[p] = read
      /\ \A q \in Request \ {p} : seen'[q] = seen[q]
  BY <1>6, <1>7, <1>8
<1>10. ChallengeTypeOK' /\ \A d \in Challenge : SpentOnce(d)'
  BY <1>6, <1>9 DEF Inv, ChallengeInv, ChallengeTypeOK, SpentOnce
<1>11. \A q \in Request : KnowsItsChallenge(q)'
  BY <1>5, <1>6, <1>7, <1>8, <1>9 DEF Inv, ChallengeInv, KnowsItsChallenge
<1> QED
  BY <1>3, <1>4, <1>10, <1>11 DEF Inv, ChallengeInv

(* A selection that ends has forgotten what it read.                       *)
LEMMA ForgetIs ==
  ASSUME Inv, NEW p \in Request, NEW answer \in Answer \ {"rotated"},
         End(p, answer), Forget(p)
  PROVE  /\ seen' \in [Request -> Seen]
         /\ \A q \in Request \ {p} : request'[q] = request[q] /\ seen'[q] = seen[q]
         /\ KnowsItsChallenge(p)'
<1>1. NothingSeen \in Seen
  BY ChallengeAssumption DEF NothingSeen, Seen
<1>2. seen \in [Request -> Seen] /\ AuthTypeOK
  BY DEF Inv, AuthInv, ChallengeInv, ChallengeTypeOK
<1>3. /\ request'[p].step = "done"
      /\ \A q \in Request \ {p} : request'[q] = request[q]
  BY <1>2, EndsSelecting
<1> QED
  BY <1>1, <1>2, <1>3 DEF Forget, KnowsItsChallenge

LEMMA RefuseSelectionPreserves ==
  ASSUME Inv, NEW p \in Request, RefuseSelection(p)
  PROVE  Inv'
<1>1. /\ request[p].step = "selecting" /\ RollBack(p, "refused") /\ End(p, "refused")
      /\ Forget(p) /\ issued' = issued /\ "refused" \in Answer \ {"rotated"}
  BY DEF RefuseSelection, Ready, RollBack, Answer
<1>2. AuthInv'
  BY <1>1, RollBackPreserves DEF Inv
<1>3. /\ seen' \in [Request -> Seen]
      /\ \A q \in Request \ {p} : request'[q] = request[q] /\ seen'[q] = seen[q]
      /\ KnowsItsChallenge(p)'
  BY <1>1, ForgetIs
<1>4. PICK c \in Challenge : seen[p].challenge = c
  BY <1>1 DEF Inv, ChallengeInv, KnowsItsChallenge
<1>5. PICK n \in 0..MaxAttempts : seen[p].attempts = n
  BY DEF Inv, ChallengeInv, ChallengeTypeOK, Seen
<1>6. /\ challenge \in [Challenge -> ChallengeState]
      /\ challenge[c].attempts \in 0..MaxAttempts
      /\ n <= challenge[c].attempts /\ MaxAttempts \in Nat \ {0}
  BY <1>1, <1>4, <1>5, ChallengeAssumption
     DEF Inv, ChallengeInv, ChallengeTypeOK, ChallengeState, KnowsItsChallenge
<1>7. CASE challenge[c].status # "pending"
  <2>1. challenge' = challenge
    BY <1>4, <1>7 DEF RefuseSelection
  <2>2. ChallengeTypeOK' /\ \A d \in Challenge : SpentOnce(d)'
    BY <1>1, <1>3, <2>1 DEF Inv, ChallengeInv, ChallengeTypeOK, SpentOnce
  <2>3. \A d \in Challenge : challenge[d].attempts <= challenge'[d].attempts
    BY <2>1, ChallengeAssumption
       DEF Inv, ChallengeInv, ChallengeTypeOK, ChallengeState
  <2> QED
    BY <1>2, <1>3, <2>2, <2>3, ChallengesStand DEF Inv
<1>8. CASE challenge[c].status = "pending"
  <2>1. challenge' = [challenge EXCEPT
                        ![c].attempts = CountedUp(@),
                        ![c].status = IF n + 1 >= MaxAttempts
                                        THEN "invalidated" ELSE @]
    BY <1>4, <1>5, <1>8 DEF RefuseSelection
  <2>2. CountedUp(challenge[c].attempts) \in 0..MaxAttempts
    BY <1>6 DEF CountedUp
  <2>3. /\ challenge' \in [Challenge -> ChallengeState]
        /\ challenge'[c].attempts = CountedUp(challenge[c].attempts)
        /\ challenge'[c].status = IF n + 1 >= MaxAttempts THEN "invalidated" ELSE "pending"
        /\ \A d \in Challenge \ {c} : challenge'[d] = challenge[d]
    BY <1>6, <1>8, <2>1, <2>2 DEF ChallengeState
  <2>4. n + 1 >= MaxAttempts => challenge'[c].attempts = MaxAttempts
    BY <1>6, <2>3 DEF CountedUp
  <2>5. ChallengeTypeOK'
    BY <1>1, <1>3, <2>3 DEF Inv, ChallengeInv, ChallengeTypeOK
  <2>6. \A d \in Challenge : SpentOnce(d)'
    BY <1>1, <1>8, <2>3, <2>4 DEF Inv, ChallengeInv, SpentOnce
  <2>7. \A d \in Challenge : challenge[d].attempts <= challenge'[d].attempts
    <3>1. \A d \in Challenge : challenge[d].attempts \in Int
      BY <1>6, ChallengeAssumption DEF ChallengeState
    <3>2. challenge[c].attempts <= CountedUp(challenge[c].attempts)
      BY <1>6 DEF CountedUp
    <3> QED
      BY <2>3, <3>1, <3>2
  <2> QED
    BY <1>2, <1>3, <2>5, <2>6, <2>7, ChallengesStand DEF Inv
<1> QED
  BY <1>7, <1>8

LEMMA AlreadyUsedPreserves ==
  ASSUME Inv, NEW p \in Request, AlreadyUsed(p)
  PROVE  Inv'
<1>1. /\ RollBack(p, "refused") /\ End(p, "refused") /\ Forget(p)
      /\ issued' = issued /\ challenge' = challenge
      /\ "refused" \in Answer \ {"rotated"}
  BY DEF AlreadyUsed, RollBack, Answer
<1>2. AuthInv'
  BY <1>1, RollBackPreserves DEF Inv
<1>3. /\ seen' \in [Request -> Seen]
      /\ \A q \in Request \ {p} : request'[q] = request[q] /\ seen'[q] = seen[q]
      /\ KnowsItsChallenge(p)'
  BY <1>1, ForgetIs
<1>4. ChallengeTypeOK' /\ \A d \in Challenge : SpentOnce(d)'
  BY <1>1, <1>3 DEF Inv, ChallengeInv, ChallengeTypeOK, SpentOnce
<1>5. \A d \in Challenge : challenge[d].attempts <= challenge'[d].attempts
  BY <1>1, ChallengeAssumption
     DEF Inv, ChallengeInv, ChallengeTypeOK, ChallengeState
<1> QED
  BY <1>2, <1>3, <1>4, <1>5, ChallengesStand DEF Inv

LEMMA ConsumeChallengePreserves ==
  ASSUME Inv, NEW p \in Request, NEW s \in Session, NEW o \in Owner,
         ConsumeChallenge(p, s, o)
  PROVE  Inv'
<1>1. /\ request[p].step = "selecting" /\ End(p, "signed_in") /\ SignedIn(s, o)
      /\ Forget(p) /\ "signed_in" \in Answer \ {"rotated"}
  BY DEF ConsumeChallenge, Ready, Answer
<1>2. AuthInv'
  <2>1. /\ AuthTypeOK'
        /\ \A q \in Request \ {p} : request'[q] = request[q]
        /\ \A r \in Row : \/ lock'[r] = lock[r] /\ lock[r] # p
                          \/ lock[r] = p /\ lock'[r] = Nobody
        /\ Knows(p)' /\ request'[p].answer # "rotated"
    BY <1>1, OverIs, SignedInIs DEF Inv, AuthInv, AuthTypeOK
  <2>2. ExchangedOnce'
    BY <2>1, NoNewExchange DEF Inv, AuthInv
  <2> QED
    BY <1>1, <2>1, <2>2, SignedInIs, WriterPreserves DEF Inv
<1>3. /\ seen' \in [Request -> Seen]
      /\ \A q \in Request \ {p} : request'[q] = request[q] /\ seen'[q] = seen[q]
      /\ KnowsItsChallenge(p)'
  BY <1>1, ForgetIs
<1>4. PICK c \in Challenge : seen[p].challenge = c
  BY <1>1 DEF Inv, ChallengeInv, KnowsItsChallenge
<1>5. /\ challenge[c].status = "pending" /\ challenge[c].attempts < MaxAttempts
      /\ challenge' = [challenge EXCEPT ![c].status = "consumed"]
      /\ issued' = [issued EXCEPT ![c] = @ \cup {s}]
  BY <1>4 DEF ConsumeChallenge, StillConsumable, Consumable
<1>6. /\ challenge \in [Challenge -> ChallengeState]
      /\ issued \in [Challenge -> SUBSET Session] /\ issued[c] = {}
  BY <1>5 DEF Inv, ChallengeInv, ChallengeTypeOK, SpentOnce
<1>7. /\ challenge' \in [Challenge -> ChallengeState]
      /\ challenge'[c].status = "consumed"
      /\ \A d \in Challenge : challenge'[d].attempts = challenge[d].attempts
      /\ \A d \in Challenge \ {c} : challenge'[d] = challenge[d]
  BY <1>5, <1>6 DEF ChallengeState
<1>8. /\ issued' \in [Challenge -> SUBSET Session] /\ issued'[c] = {s}
      /\ \A d \in Challenge \ {c} : issued'[d] = issued[d]
  BY <1>5, <1>6
<1>9. \A d \in Challenge : SpentOnce(d)'
  BY <1>5, <1>7, <1>8 DEF Inv, ChallengeInv, SpentOnce
<1>10. \A d \in Challenge : challenge[d].attempts <= challenge'[d].attempts
  BY <1>6, <1>7, ChallengeAssumption DEF ChallengeState
<1>11. ChallengeTypeOK'
  BY <1>3, <1>7, <1>8 DEF ChallengeTypeOK
<1> QED
  BY <1>2, <1>3, <1>9, <1>10, <1>11, ChallengesStand DEF Inv, ChallengeInv

-----------------------------------------------------------------------------
LEMMA InitHolds ==
  ASSUME Init
  PROVE  Inv
<1>1. AuthInv
  BY AuthInitHolds DEF Init
<1>2. 0 \in 0..MaxAttempts /\ NothingSeen \in Seen
  BY ChallengeAssumption DEF NothingSeen, Seen
<1>3. ChallengeTypeOK
  BY <1>2 DEF Init, ChallengeTypeOK, ChallengeState
<1>4. \A p \in Request : KnowsItsChallenge(p)
  BY DEF Init, AuthInit, NotSent, KnowsItsChallenge
<1>5. \A c \in Challenge : SpentOnce(c)
  BY DEF Init, SpentOnce
<1> QED
  BY <1>1, <1>3, <1>4, <1>5 DEF Inv, ChallengeInv

LEMMA NextPreserves ==
  ASSUME Inv, [Next]_vars
  PROVE  Inv'
<1>1. ASSUME AuthNext, UNCHANGED <<challenge, seen, issued>>
      PROVE  Inv'
  BY <1>1, AuthNextPreserves, NobodyStartsToSelect, AuthStepKeepsChallenges DEF Inv
<1>2. ASSUME NEW c \in Challenge, CreateChallenge(c)
      PROVE  Inv'
  BY <1>2, CreateChallengePreserves
<1>3. ASSUME NEW p \in Request,
             Select(p) \/ \E c \in Challenge : BeginSelection(p, c)
      PROVE  Inv'
  BY <1>3, RefuseSelectionPreserves, AlreadyUsedPreserves,
     ConsumeChallengePreserves, BeginSelectionPreserves DEF Select
<1>4. CASE UNCHANGED vars
  <2>1. /\ session' = session /\ token' = token /\ request' = request /\ lock' = lock
        /\ challenge' = challenge /\ seen' = seen /\ issued' = issued
    BY <1>4 DEF vars, authVars
  <2>2. AuthTypeOK' /\ NoTokensBefore' /\ OneLiveToken'
    BY <2>1 DEF Inv, AuthInv, AuthTypeOK, NoTokensBefore, OneLiveToken, Opened, Active
  <2>3. ReuseEndsTheSession' /\ ExchangedOnce'
    BY <2>1 DEF Inv, AuthInv, ReuseEndsTheSession, ExchangedOnce, Active
  <2>4. Forward
    BY <2>1 DEF Forward, Opened, Active
  <2>5. ASSUME NEW q \in Request
        PROVE  Knows(q)'
    BY <2>1, <2>4, OthersKnow DEF Inv, AuthInv
  <2>6. ChallengeInv'
    BY <2>1 DEF Inv, ChallengeInv, ChallengeTypeOK, KnowsItsChallenge, SpentOnce
  <2> QED
    BY <2>2, <2>3, <2>5, <2>6 DEF Inv, AuthInv
<1> QED
  BY <1>1, <1>2, <1>3, <1>4 DEF Next

LEMMA InvHolds == Spec => []Inv
<1>1. Init => Inv
  BY InitHolds
<1>2. Inv /\ [Next]_vars => Inv'
  BY NextPreserves
<1> QED
  BY <1>1, <1>2, PTL DEF Spec

(* Sessions, tokens, requests and locks have their types, and so have      *)
(* challenges and what requests read of them.                              *)
THEOREM AuthenticationIsTyped == Spec => []AuthenticationTypeOK
<1>1. Inv => AuthenticationTypeOK
  BY DEF Inv, AuthInv, ChallengeInv, ChallengeTypeOK, Seen, AuthenticationTypeOK
<1> QED
  BY <1>1, InvHolds, PTL

(* At every commit an active session has the one active token its row      *)
(* names, however many refreshes, switches and logouts overlap.            *)
THEOREM ActiveSessionsHaveOneToken == Spec => []OneLiveToken
<1>1. Inv => OneLiveToken
  BY DEF Inv, AuthInv
<1> QED
  BY <1>1, InvHolds, PTL

(* Where a spent token was presented and found out, the session has ended. *)
THEOREM ReuseIsFatal == Spec => []ReuseEndsTheSession
<1>1. Inv => ReuseEndsTheSession
  BY DEF Inv, AuthInv
<1> QED
  BY <1>1, InvHolds, PTL

(* Of two requests that exchange tokens of one session, neither gives up   *)
(* nor gets the token the other does.                                      *)
THEOREM TokensAreExchangedOnce == Spec => []ExchangedOnce
<1>1. Inv => ExchangedOnce
  BY DEF Inv, AuthInv
<1> QED
  BY <1>1, InvHolds, PTL

(* A challenge opens one session, before its last attempt.                 *)
THEOREM ChallengesAreSpentOnce == Spec => []ChallengeSpentOnce
<1>1. Inv => ChallengeSpentOnce
  <2> SUFFICES ASSUME Inv, NEW c \in Challenge
               PROVE  SpentOnce(c) => Cardinality(issued[c]) <= 1
    BY DEF ChallengeSpentOnce, Inv, ChallengeInv, SpentOnce
  <2>1. CASE issued[c] = {}
    BY <2>1, FS_EmptySet
  <2>2. ASSUME NEW s \in Session, issued[c] = {s}
        PROVE  Cardinality(issued[c]) <= 1
    <3>1. Cardinality({s}) = 1
      BY FS_Singleton
    <3> QED
      BY <2>2, <3>1
  <2> QED
    BY <2>1, <2>2 DEF SpentOnce
<1> QED
  BY <1>1, InvHolds, PTL

-----------------------------------------------------------------------------
(***************************************************************************)
(* The tables implement the chain of tokens: with one active token for     *)
(* each active session, what becomes of the rows of sessions tells what    *)
(* becomes of the chain.                                                   *)
(***************************************************************************)
OpensNow(s) == ~ Opened(s) /\ Active(s)' /\ session'[s].generation = 0

RotatesNow(s) == /\ Active(s) /\ Active(s)'
                 /\ session'[s].generation = session[s].generation + 1

ClosesNow(s) == Opened(s) /\ Opened(s)' /\ ~ Active(s)'

StaysNow(s) == session'[s] = session[s]

SessionStep == \A s \in Session :
  OpensNow(s) \/ RotatesNow(s) \/ ClosesNow(s) \/ StaysNow(s)

LEMMA SignedInSteps ==
  ASSUME AuthInv, NEW s \in Session, NEW o \in Owner, SignedIn(s, o)
  PROVE  SessionStep
<1>1. /\ session \in [Session -> SessionState] /\ ~ Opened(s)
      /\ session' = [session EXCEPT ![s] = [status |-> "active", owner |-> o,
                                            generation |-> 0]]
  BY DEF SignedIn, Fresh, Opened, AuthInv, AuthTypeOK
<1> QED
  BY <1>1 DEF SessionStep, OpensNow, StaysNow, Active

LEMMA SessionsEndSteps ==
  ASSUME AuthInv, NEW p \in Request, SessionsEnd(p)
  PROVE  SessionStep
<1>2. \A s \in Session : /\ Opened(s)' <=> Opened(s)
                         /\ Active(s)' => session'[s] = session[s]
  BY SessionsEndIs DEF AuthInv, AuthTypeOK
<1>1. \A s \in Session : session'[s] = session[s] \/ (Active(s) /\ ~ Active(s)')
  <2> TAKE s \in Session
  <2>1. session'[s] = IF Holds(p, SessionRow(s)) /\ Active(s)
                        THEN [session[s] EXCEPT !.status = "revoked"]
                        ELSE session[s]
    BY DEF SessionsEnd
  <2>2. ~ Active(s) => session'[s] = session[s]
    BY <2>1
  <2> QED
    BY <1>2, <2>2 DEF Active
<1>3. \A s \in Session : Active(s) => Opened(s)
  BY DEF Active, Opened
<1> QED
  BY <1>1, <1>2, <1>3 DEF SessionStep, ClosesNow, StaysNow, Opened, Active

LEMMA WriteSessionSteps ==
  ASSUME AuthInv, NEW p \in Request, WriteSession(p)
  PROVE  SessionStep
<1>1. Ready(p, "write_session") /\ "write_session" \in WithASession
  BY DEF WriteSession, WithASession, AtItsTokens
<1>2. PICK s \in Session, g \in Generation, n \in Generation :
        request[p].session = s /\ request[p].generation = g /\ request[p].next = n
  BY <1>1, AtItsSession
<1>3. token[s][g] = "active" /\ (Active(s) => n = g + 1)
  BY <1>1, <1>2, AtItsSession DEF Knows, KnowsItsTokens, Rotating, Ready
<1>4. Active(s) => n = session[s].generation + 1
  BY <1>3 DEF AuthInv, OneLiveToken
<1>5. /\ session \in [Session -> SessionState]
      /\ session' = IF Active(s) THEN [session EXCEPT ![s].generation = n]
                                 ELSE session
  BY <1>2 DEF AuthInv, AuthTypeOK, WriteSession
<1> QED
  BY <1>4, <1>5 DEF SessionStep, RotatesNow, StaysNow, Active, SessionState

LEMMA WriteReplacementSteps ==
  ASSUME AuthInv, NEW p \in Request, NEW n \in Session, NEW o \in Owner,
         WriteReplacement(p, n, o)
  PROVE  SessionStep
<1>1. Ready(p, "replace_tokens") /\ "replace_tokens" \in WithASession
  BY DEF WriteReplacement, WithASession, AtItsTokens
<1>2. PICK s \in Session : request[p].session = s /\ Opened(s)
  BY <1>1, AtItsSession
<1>3. /\ session \in [Session -> SessionState] /\ ~ Opened(n) /\ n # s
      /\ session' = [session EXCEPT ![s].status = "revoked",
           ![n] = [status |-> "active", owner |-> o, generation |-> 0]]
  BY <1>2 DEF WriteReplacement, Fresh, Opened, AuthInv, AuthTypeOK
<1>4. OpensNow(n) /\ ClosesNow(s) /\ \A t \in Session \ {s, n} : StaysNow(t)
  BY <1>2, <1>3 DEF OpensNow, ClosesNow, StaysNow, Opened, Active, SessionState
<1> QED
  BY <1>4 DEF SessionStep

LEMMA NextSteps ==
  ASSUME Inv, [Next]_vars
  PROVE  SessionStep
<1>1. ASSUME session' = session
      PROVE  SessionStep
  BY <1>1 DEF SessionStep, StaysNow
<1>2. ASSUME NEW s \in Session, NEW o \in Owner, SignIn(s, o)
      PROVE  SessionStep
  BY <1>2, SignedInSteps DEF SignIn, Inv
<1>3. ASSUME NEW p \in Request, Send(p)
      PROVE  SessionStep
  BY <1>1, <1>3 DEF Send, Begin, BeginRefresh, RefreshOutOfContext,
     BeginSwitchBranch, BeginSwitchCompany, BeginLogout, BeginLogoutAll
<1>4. ASSUME NEW p \in Request, Proceed(p)
      PROVE  SessionStep
  <2>1. CASE \/ RotateToken(p) \/ Insert(p) \/ ReuseSession(p) \/ SwitchSession(p)
             \/ SwitchToken(p) \/ ReplaceSession(p) \/ StartRevokeTokens(p)
    BY <1>1, <2>1 DEF RotateToken, Insert, ReuseSession, SwitchSession,
       SwitchToken, ReplaceSession, StartRevokeTokens, Continue, RollBack
  <2>2. CASE (\E r \in request[p].want : Acquire(p, r)) \/ RevokeTokens(p)
    BY <1>1, <2>2 DEF Acquire, RevokeTokens
  <2>3. CASE WriteReuse(p) \/ RevokeSessions(p)
    BY <2>3, SessionsEndSteps DEF WriteReuse, RevokeSessions, Inv
  <2> QED
    BY <1>4, <2>1, <2>2, <2>3, WriteSessionSteps, WriteReplacementSteps
       DEF Proceed, Inv
<1>5. ASSUME NEW p \in Request, DeadlockVictim(p) \/ Fail(p)
      PROVE  SessionStep
  BY <1>1, <1>5 DEF DeadlockVictim, Fail, RollBack
<1>6. ASSUME NEW p \in Request, Select(p)
      PROVE  SessionStep
  BY <1>1, <1>6, SignedInSteps DEF Select, RefuseSelection, AlreadyUsed,
     RollBack, ConsumeChallenge, Inv
<1>7. ASSUME NEW p \in Request, NEW c \in Challenge, BeginSelection(p, c)
      PROVE  SessionStep
  BY <1>1, <1>7 DEF BeginSelection, Begin
<1>8. ASSUME NEW c \in Challenge, CreateChallenge(c)
      PROVE  SessionStep
  BY <1>1, <1>8 DEF CreateChallenge, authVars
<1>9. CASE UNCHANGED vars
  BY <1>1, <1>9 DEF vars, authVars
<1> QED
  BY <1>2, <1>3, <1>4, <1>5, <1>6, <1>7, <1>8, <1>9 DEF Next, AuthNext

(* The refinement mapping: what the chain sees of the tables.              *)
OpenedSessions == {s \in Session : session[s].status # "none"}
UsableTokens == [s \in Session |->
  IF Active(s) THEN {g \in Generation : token[s][g] = "active"} ELSE {}]

LEMMA UsableIs ==
  ASSUME AuthInv, NEW s \in Session
  PROVE  /\ Active(s) => UsableTokens[s] = {session[s].generation}
         /\ ~ Active(s) => UsableTokens[s] = {}
<1>1. Active(s) => {g \in Generation : token[s][g] = "active"} = {session[s].generation}
  BY DEF AuthInv, OneLiveToken, AuthTypeOK, SessionState
<1> QED
  BY <1>1 DEF UsableTokens

LEMMA ChainSteps ==
  ASSUME Inv, [Next]_vars
  PROVE  Chain!Next
<1>1. Inv' /\ SessionStep
  BY NextPreserves, NextSteps
<1> SUFFICES ASSUME NEW s \in Session
             PROVE  Chain!Opens(s) \/ Chain!Exchanges(s) \/ Chain!Closes(s) \/ Chain!Rests(s)
  BY DEF Chain!Next
<1>2. /\ Active(s) => UsableTokens[s] = {session[s].generation}
      /\ ~ Active(s) => UsableTokens[s] = {}
  BY UsableIs DEF Inv
<1>3. /\ Active(s)' => UsableTokens'[s] = {session'[s].generation}
      /\ ~ Active(s)' => UsableTokens'[s] = {}
  <2>1. /\ AuthInv' /\ session' \in [Session -> SessionState]
    BY <1>1 DEF Inv, AuthInv, AuthTypeOK
  <2>2. Active(s)' => {g \in Generation : token'[s][g] = "active"} = {session'[s].generation}
    BY <2>1 DEF AuthInv, OneLiveToken, SessionState
  <2> QED
    BY <2>2 DEF UsableTokens
<1>4. /\ s \in OpenedSessions <=> Opened(s)
      /\ s \in OpenedSessions' <=> Opened(s)'
      /\ Active(s) => Opened(s)
      /\ Active(s)' => Opened(s)'
  BY DEF OpenedSessions, Opened, Active
<1>5. CASE OpensNow(s)
  <2>1. s \notin OpenedSessions /\ s \in OpenedSessions' /\ UsableTokens'[s] = {0}
    BY <1>3, <1>4, <1>5 DEF OpensNow
  <2> QED
    BY <2>1 DEF Chain!Opens, OpenedSessions, UsableTokens
<1>6. CASE RotatesNow(s)
  <2>1. /\ s \in OpenedSessions /\ s \in OpenedSessions'
        /\ session[s].generation \in UsableTokens[s]
        /\ UsableTokens[s] = {session[s].generation}
        /\ UsableTokens'[s] = {session[s].generation + 1}
    BY <1>2, <1>3, <1>4, <1>6 DEF RotatesNow
  <2>2. /\ s \in OpenedSessions /\ s \in OpenedSessions'
        /\ \E g \in UsableTokens[s] : UsableTokens[s] = {g} /\ UsableTokens'[s] = {g + 1}
    BY <2>1
  <2> QED
    BY <2>2 DEF Chain!Exchanges, OpenedSessions, UsableTokens
<1>7. CASE ClosesNow(s)
  <2>1. s \in OpenedSessions /\ s \in OpenedSessions' /\ UsableTokens'[s] = {}
    BY <1>3, <1>4, <1>7 DEF ClosesNow
  <2> QED
    BY <2>1 DEF Chain!Closes, OpenedSessions, UsableTokens
<1>8. CASE StaysNow(s)
  <2>1. (Active(s)' <=> Active(s)) /\ (Opened(s)' <=> Opened(s))
    BY <1>8 DEF StaysNow, Active, Opened
  <2>2. /\ s \in OpenedSessions' <=> s \in OpenedSessions
        /\ UsableTokens'[s] = UsableTokens[s]
    BY <1>2, <1>3, <1>4, <1>8, <2>1 DEF StaysNow
  <2> QED
    BY <2>2 DEF Chain!Rests, OpenedSessions, UsableTokens
<1> QED
  BY <1>1, <1>5, <1>6, <1>7, <1>8 DEF SessionStep

LEMMA ChainStarts ==
  ASSUME Init
  PROVE  Chain!Init
<1>1. \A s \in Session : session[s].status = "none"
  BY DEF Init, AuthInit
<1> QED
  BY <1>1 DEF Chain!Init, Active

(* Whatever overlaps, each session's tokens form a chain: opened once with *)
(* the first, each usable one exchanged for the next, closed for good.     *)
THEOREM SessionsAreChains == Spec => ImplementsChain
<1>1. Init => Chain!Init
  BY ChainStarts
<1>2. Inv /\ [Next]_vars => Chain!Next
  BY ChainSteps
<1> QED
  BY <1>1, <1>2, InvHolds, PTL DEF Spec, ImplementsChain, Chain!Spec
=============================================================================
