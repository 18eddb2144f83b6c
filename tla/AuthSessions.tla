---------------------------- MODULE AuthSessions ----------------------------
(***************************************************************************)
(* Sessions and their refresh tokens, statement by statement under READ    *)
(* COMMITTED.  A statement finds its rows in what is committed when it     *)
(* starts, waits for the lock of each, and looks at each again once it has *)
(* the lock; what a transaction wrote shows when it commits.               *)
(*                                                                         *)
(* A token is the pair of its session and its generation: both it and its  *)
(* hash are unique.  Expiry, transport and CSRF checks refuse a request    *)
(* before it changes anything; they are not modelled.                      *)
(***************************************************************************)
EXTENDS Naturals, FiniteSets

CONSTANTS
  Session,         \* numbered in the order in which they are opened
  Owner,           \* a user as member of one company
  Request,         \* numbered in the order in which they are sent, once
  MaxGeneration,   \* bound: the last token a session can have
  Nobody, NoSession

ASSUME AuthAssumption == /\ MaxGeneration \in Nat
                         /\ Session \subseteq Nat
                         /\ Request \subseteq Nat
                         /\ Nobody \notin Request
                         /\ NoSession \notin Session
                         /\ Owner # {}

VARIABLES
  session, token,  \* the committed rows
  request,         \* what each request is doing
  lock             \* who holds, or is inserting, each row

authVars == <<session, token, request, lock>>

Generation == 0..MaxGeneration

SessionRow(s) == <<"session", s, 0>>
TokenRow(s, g) == <<"token", s, g>>
Row == {SessionRow(s) : s \in Session}
         \cup {TokenRow(s, g) : s \in Session, g \in Generation}

SessionState == [status : {"none", "active", "revoked"}, owner : Owner,
                 generation : Generation]

TokenStatus == {"none", "active", "rotated", "revoked", "reused"}

(* What a request does next, once it has the rows it wants.                *)
Step == {"idle", "rotate_token", "insert", "write_session",
         "reuse_session", "reuse_tokens", "switch_session", "switch_token",
         "revoke_one", "revoke_all", "revoked", "revoke_tokens",
         "replace_session", "replace_tokens", "selecting", "done"}

Answer == {"none", "rotated", "reused", "revoked", "replaced", "signed_in",
           "refused", "failed"}

RequestState == [step : Step, session : Session \cup {NoSession},
                 generation : Generation,    \* of the token it gives up
                 next : Generation,          \* of the token it would get
                 targets : SUBSET Session,   \* the sessions it revokes
                 want : SUBSET Row, answer : Answer]

AuthTypeOK == /\ session \in [Session -> SessionState]
              /\ token \in [Session -> [Generation -> TokenStatus]]
              /\ request \in [Request -> RequestState]
              /\ lock \in [Row -> Request \cup {Nobody}]

NotSent == [step |-> "idle", session |-> NoSession, generation |-> 0,
            next |-> 0, targets |-> {}, want |-> {}, answer |-> "none"]

AuthInit ==
  /\ session = [s \in Session |-> [status |-> "none",
                                   owner |-> CHOOSE o \in Owner : TRUE,
                                   generation |-> 0]]
  /\ token = [s \in Session |-> [g \in Generation |-> "none"]]
  /\ request = [p \in Request |-> NotSent]
  /\ lock = [r \in Row |-> Nobody]

-----------------------------------------------------------------------------
(* Statements and transactions                                             *)

Active(s) == session[s].status = "active"

TokensOf(s, statuses) ==
  {TokenRow(s, g) : g \in {h \in Generation : token[s][h] \in statuses}}

Holds(p, r) == lock[r] = p
Held(p) == {r \in Row : lock[r] = p}

Begin(p, r) == /\ request[p].step = "idle"
               /\ \A q \in Request : q < p => request[q].step # "idle"
               /\ request' = [request EXCEPT ![p] = r]
               /\ UNCHANGED <<session, token, lock>>

Ready(p, step) == request[p].step = step /\ request[p].want = {}

(* The next statement of p's transaction, over these rows. *)
Continue(p, step, rows) ==
  /\ request' = [request EXCEPT ![p].step = step,
                                ![p].want = rows \ Held(p)]
  /\ UNCHANGED <<session, token, lock>>

KeepLocks(p) == UNCHANGED lock
Release(p) == lock' = [r \in Row |-> IF lock[r] = p THEN Nobody ELSE lock[r]]

(* Of a request that is over, only the exchange it made is remembered.     *)
End(p, answer) ==
  /\ request' = [request EXCEPT ![p] =
       IF answer = "rotated"
         THEN [@ EXCEPT !.step = "done", !.want = {}, !.answer = answer]
         ELSE [NotSent EXCEPT !.step = "done", !.answer = answer]]
  /\ Release(p)

RollBack(p, answer) == End(p, answer) /\ UNCHANGED <<session, token>>

AcquireAtOnce(p, r) ==
  /\ lock' = [lock EXCEPT ![r] = p]
  /\ request' = [request EXCEPT ![p].want = @ \ {r}]
  /\ UNCHANGED <<session, token>>

Acquire(p, r) ==
  /\ lock[r] = Nobody
  /\ lock' = [lock EXCEPT ![r] = p]
  /\ request' = [request EXCEPT ![p].want = @ \ {r}]
  /\ UNCHANGED <<session, token>>

WaitsFor(p, q) == \E r \in request[p].want : lock[r] = q /\ q # p

InCycle(p) == /\ \E q \in Request : WaitsFor(p, q)
              /\ \E S \in SUBSET Request :
                   /\ p \in S
                   /\ \A q \in S : /\ \E r \in S : WaitsFor(q, r)
                                   /\ \E r \in S : WaitsFor(r, q)

(* PostgreSQL aborts a transaction of a cycle; the request answers 500.    *)
DeadlockVictim(p) == InCycle(p) /\ RollBack(p, "failed")

(* The connection or the process is lost: what was not committed is undone *)
(* and the statements that were to follow are not run.                     *)
Fail(p) == /\ request[p].step \notin {"idle", "done"}
           /\ RollBack(p, "failed")

-----------------------------------------------------------------------------
(* Signing in: createSession, of a session and its first token.            *)
Fresh(s) == /\ session[s].status = "none"
            /\ \A t \in Session : t < s => session[t].status # "none"

(* Bound: a session is left for every replacement under way.               *)
SessionsLeft ==
  Cardinality({p \in Request :
                 request[p].step \in {"replace_session", "replace_tokens"}})
    < Cardinality({s \in Session : session[s].status = "none"})

SignedIn(s, o) ==
  /\ Fresh(s) /\ SessionsLeft
  /\ session' = [session EXCEPT ![s] =
       [status |-> "active", owner |-> o, generation |-> 0]]
  /\ token' = [token EXCEPT ![s][0] = "active"]

(* Bound: the first session; others come of challenges and of switches.    *)
SignIn(s, o) == /\ \A t \in Session : session[t].status = "none"
                /\ SignedIn(s, o)
                /\ UNCHANGED <<request, lock>>

(***************************************************************************)
(* Refresh                                                                 *)
(***************************************************************************)
(* findRefreshToken, without a lock.  A token that is spent, or whose      *)
(* session is, is presented for a rotation to itself.                      *)
Found(s, g) == token[s][g] = "active" /\ Active(s)

BeginRefresh(p, s, g) ==
  /\ token[s][g] # "none"
  /\ Found(s, g) => g < MaxGeneration
  /\ Begin(p, [NotSent EXCEPT !.step = "rotate_token", !.session = s,
                              !.generation = g,
                              !.next = IF Found(s, g) THEN g + 1 ELSE g,
                              !.want = {TokenRow(s, g)}])

(* The membership, the branch or the device is no longer what it was.      *)
RefreshOutOfContext(p, s, g) ==
  /\ Found(s, g)
  /\ Begin(p, [NotSent EXCEPT !.step = "revoke_one", !.session = s,
                              !.generation = g, !.targets = {s},
                              !.want = {SessionRow(s)}])

(* rotateRefreshToken: the status is read again under the token's lock.    *)
StillActive(s, g) == token[s][g] = "active"

RotateToken(p) ==
  LET s == request[p].session
      g == request[p].generation
  IN  /\ Ready(p, "rotate_token")
      /\ IF StillActive(s, g)
           THEN Continue(p, "insert", {TokenRow(s, request[p].next)})
           ELSE Continue(p, "reuse_session", {SessionRow(s)})

(* The next token is inserted; then the session, if it is active, is given *)
(* its hash and generation.                                                *)
Insert(p) ==
  LET s == request[p].session
  IN  /\ Ready(p, "insert")
      /\ IF token[s][request[p].next] = "none"
           THEN Continue(p, "write_session",
                         IF Active(s) THEN {SessionRow(s)} ELSE {})
           ELSE RollBack(p, "failed")

WriteSession(p) ==
  LET s == request[p].session
  IN  /\ Ready(p, "write_session")
      /\ token' = [token EXCEPT ![s][request[p].generation] = "rotated",
                                ![s][request[p].next] = "active"]
      /\ session' = IF Active(s)
           THEN [session EXCEPT ![s].generation = request[p].next]
           ELSE session
      /\ End(p, "rotated")

(* A spent token was presented: the session and all its tokens end.        *)
ReuseSession(p) ==
  LET s == request[p].session
  IN  /\ Ready(p, "reuse_session")
      /\ Continue(p, "reuse_tokens",
                  TokensOf(s, {"active", "rotated", "revoked"}))

(* What an update does to the tokens it has locked, if they still qualify. *)
TokensEnd(p, ending(_, _)) ==
  token' = [s \in Session |-> [g \in Generation |->
    IF Holds(p, TokenRow(s, g)) THEN ending(s, g) ELSE token[s][g]]]

SessionsEnd(p) ==
  session' = [s \in Session |->
    IF Holds(p, SessionRow(s)) /\ Active(s)
      THEN [session[s] EXCEPT !.status = "revoked"] ELSE session[s]]

WriteReuse(p) ==
  /\ Ready(p, "reuse_tokens")
  /\ SessionsEnd(p)
  /\ TokensEnd(p, LAMBDA s, g :
       IF token[s][g] = "reused" THEN "reused"
       ELSE IF g = request[p].generation THEN "reused" ELSE "revoked")
  /\ End(p, "reused")

(***************************************************************************)
(* Switching the branch: the session's row first, then its token.          *)
(***************************************************************************)
BeginSwitchBranch(p, s) ==
  /\ Active(s)
  /\ session[s].generation < MaxGeneration
  /\ Begin(p, [NotSent EXCEPT !.step = "switch_session", !.session = s,
                              !.generation = session[s].generation,
                              !.next = session[s].generation + 1,
                              !.want = {SessionRow(s)}])

IsLatestActive(s, g) ==
  /\ token[s][g] = "active"
  /\ \A h \in Generation : token[s][h] = "active" => h <= g

SwitchSession(p) ==
  LET s == request[p].session
  IN  /\ Ready(p, "switch_session")
      /\ \/ /\ Active(s) /\ session[s].generation + 1 = request[p].next
            /\ \E g \in Generation :
                 /\ IsLatestActive(s, g)
                 /\ request' = [request EXCEPT ![p].step = "switch_token",
                                               ![p].generation = g,
                                               ![p].want = {TokenRow(s, g)}]
            /\ UNCHANGED <<session, token, lock>>
         \/ /\ \/ ~Active(s)
               \/ session[s].generation + 1 # request[p].next
               \/ \A g \in Generation : token[s][g] # "active"
            /\ RollBack(p, "refused")

SwitchToken(p) ==
  LET s == request[p].session
  IN  /\ Ready(p, "switch_token")
      /\ IF token[s][request[p].generation] = "active"
           THEN Continue(p, "insert", {TokenRow(s, request[p].next)})
           ELSE RollBack(p, "refused")

(***************************************************************************)
(* Switching the company: another session replaces this one.               *)
(***************************************************************************)
BeginSwitchCompany(p, s) ==
  /\ Active(s) /\ SessionsLeft
  /\ Begin(p, [NotSent EXCEPT !.step = "replace_session", !.session = s,
                              !.want = {SessionRow(s)}])

ReplaceSession(p) ==
  LET s == request[p].session
  IN  /\ Ready(p, "replace_session")
      /\ IF Active(s)
           THEN Continue(p, "replace_tokens", TokensOf(s, {"active"}))
           ELSE RollBack(p, "failed")

WriteReplacement(p, n, o) ==
  /\ Ready(p, "replace_tokens")
  /\ Fresh(n)
  /\ session' = [session EXCEPT
       ![request[p].session].status = "revoked",
       ![n] = [status |-> "active", owner |-> o, generation |-> 0]]
  /\ token' = [s \in Session |-> [g \in Generation |->
       IF s = n /\ g = 0 THEN "active"
       ELSE IF Holds(p, TokenRow(s, g)) /\ token[s][g] = "active"
       THEN "revoked" ELSE token[s][g]]]
  /\ End(p, "replaced")

(***************************************************************************)
(* Logout, of one session and of all: sessions first, and then, in another *)
(* transaction, their tokens.                                              *)
(***************************************************************************)
BeginLogout(p, s) ==
  /\ Active(s)
  /\ Begin(p, [NotSent EXCEPT !.step = "revoke_one", !.session = s,
                              !.targets = {s}, !.want = {SessionRow(s)}])

(* exceptCurrent, or not. *)
BeginLogoutAll(p, s, kept) ==
  /\ Active(s)
  /\ kept \subseteq {s}
  /\ LET targets == {t \in Session \ kept :
                       Active(t) /\ session[t].owner = session[s].owner}
     IN  Begin(p, [NotSent EXCEPT !.step = "revoke_all", !.session = s,
                                  !.targets = targets,
                                  !.want = {SessionRow(t) : t \in targets}])

(* logoutAll goes on with the sessions it has revoked itself.              *)
RevokeSessions(p) ==
  /\ \E step \in {"revoke_one", "revoke_all"} : Ready(p, step)
  /\ SessionsEnd(p)
  /\ request' = [request EXCEPT
       ![p].step = "revoked",
       ![p].targets = IF request[p].step = "revoke_one" THEN @
                                           ELSE {t \in @ : Active(t)}]
  /\ Release(p)
  /\ UNCHANGED token

StartRevokeTokens(p) ==
  /\ Ready(p, "revoked")
  /\ Continue(p, "revoke_tokens",
              UNION {TokensOf(t, {"active"}) : t \in request[p].targets})

RevokeTokens(p) ==
  /\ Ready(p, "revoke_tokens")
  /\ TokensEnd(p, LAMBDA s, g : IF token[s][g] = "active" THEN "revoked"
                                                       ELSE token[s][g])
  /\ UNCHANGED session
  /\ End(p, "revoked")

-----------------------------------------------------------------------------
Send(p) ==
  /\ request[p].step = "idle"
  /\ \E s \in Session :
    \/ \E g \in Generation : BeginRefresh(p, s, g) \/ RefreshOutOfContext(p, s, g)
    \/ BeginSwitchBranch(p, s) \/ BeginSwitchCompany(p, s)
    \/ BeginLogout(p, s)
    \/ \E kept \in SUBSET {s} : BeginLogoutAll(p, s, kept)

Proceed(p) ==
  \/ \E r \in request[p].want : Acquire(p, r)
  \/ RotateToken(p) \/ Insert(p) \/ WriteSession(p)
  \/ ReuseSession(p) \/ WriteReuse(p)
  \/ SwitchSession(p) \/ SwitchToken(p)
  \/ ReplaceSession(p)
  \/ \E n \in Session, o \in Owner : WriteReplacement(p, n, o)
  \/ RevokeSessions(p) \/ StartRevokeTokens(p) \/ RevokeTokens(p)

AuthNext ==
  \/ \E s \in Session, o \in Owner : SignIn(s, o)
  \/ \E p \in Request : Send(p) \/ Proceed(p) \/ DeadlockVictim(p) \/ Fail(p)

-----------------------------------------------------------------------------
(***************************************************************************)
(* What is claimed                                                         *)
(***************************************************************************)
(* An active session has exactly one active token, the one its row names,  *)
(* at every commit and whatever refreshes, switches and logouts overlap.   *)
OneLiveToken ==
  \A s \in Session : Active(s) =>
    \A g \in Generation :
      token[s][g] = "active" <=> g = session[s].generation

(* Once a spent token was presented and found out, its session has ended:  *)
(* none of its tokens can be exchanged any more, not even one that another *)
(* request was minting.  Such a token may stay active all the same, if its *)
(* request began before a logout ended the session.                        *)
ReuseEndsTheSession ==
  \A s \in Session :
    (\E g \in Generation : token[s][g] = "reused") => ~Active(s)

(* No two requests are given tokens of one session and generation: a token *)
(* is exchanged once, by a refresh or by a switch.                         *)
ExchangedOnce ==
  \A p, q \in Request :
    /\ request[p].answer = "rotated" /\ request[q].answer = "rotated"
    /\ request[p].session = request[q].session
    /\ \/ request[p].next = request[q].next
       \/ request[p].generation = request[q].generation
    => p = q

(* The tables implement a chain of tokens for each session.                *)
Chain == INSTANCE TokenChain WITH
  opened <- {s \in Session : session[s].status # "none"},
  usable <- [s \in Session |->
               IF Active(s) THEN {g \in Generation : token[s][g] = "active"}
                            ELSE {}]

ImplementsChain == Chain!Spec
=============================================================================
