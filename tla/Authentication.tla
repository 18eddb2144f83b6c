--------------------------- MODULE Authentication ---------------------------
(***************************************************************************)
(* Sessions, and the login challenge by which a member of several          *)
(* companies selects the one to sign in to.  The challenge is read without *)
(* a lock; a selection that is refused counts up in one statement, and one *)
(* that is accepted consumes the challenge under its lock.                 *)
(***************************************************************************)
EXTENDS AuthSessions

CONSTANTS Challenge, MaxAttempts, NoChallenge

ASSUME ChallengeAssumption == /\ MaxAttempts \in Nat \ {0}
                              /\ NoChallenge \notin Challenge

VARIABLES
  challenge,
  seen,            \* what each request read of its challenge
  issued           \* history: the sessions each challenge was consumed for

vars == <<authVars, challenge, seen, issued>>

ChallengeState ==
  [status : {"none", "pending", "consumed", "invalidated"},
   attempts : 0..MaxAttempts]

AuthenticationTypeOK ==
  /\ AuthTypeOK
  /\ challenge \in [Challenge -> ChallengeState]
  /\ seen \in [Request -> [challenge : Challenge \cup {NoChallenge},
                           attempts : 0..MaxAttempts]]
  /\ issued \in [Challenge -> SUBSET Session]

NothingSeen == [challenge |-> NoChallenge, attempts |-> 0]

Init ==
  /\ AuthInit
  /\ challenge = [c \in Challenge |->
       [status |-> "none", attempts |-> 0]]
  /\ seen = [p \in Request |-> NothingSeen]
  /\ issued = [c \in Challenge |-> {}]

(* beginLogin, for a member of several companies.  Bound: of challenges,   *)
(* those are of interest that are there before the first request is sent.  *)
CreateChallenge(c) ==
  /\ \A p \in Request : request[p].step = "idle"
  /\ challenge[c].status = "none"
  /\ challenge' = [challenge EXCEPT ![c].status = "pending"]
  /\ UNCHANGED <<authVars, seen, issued>>

Consumable(c) == /\ challenge[c].status = "pending"
                 /\ challenge[c].attempts < MaxAttempts

BeginSelection(p, c) ==
  /\ Consumable(c)
  /\ Begin(p, [NotSent EXCEPT !.step = "selecting"])
  /\ seen' = [seen EXCEPT ![p] = [challenge |-> c,
                                  attempts |-> challenge[c].attempts]]
  /\ UNCHANGED <<challenge, issued>>

Forget(p) == seen' = [seen EXCEPT ![p] = NothingSeen]

CountedWithoutLimit(n) == n + 1
CountedUp(n) == IF n < MaxAttempts THEN n + 1 ELSE n

(* The company is not eligible or the branch is denied:                    *)
(* incrementChallengeAttempt, which invalidates by the count that was read.*)
RefuseSelection(p) ==
  LET c == seen[p].challenge
  IN  /\ Ready(p, "selecting")
      /\ challenge' =
           IF challenge[c].status # "pending" THEN challenge
           ELSE [challenge EXCEPT
                   ![c].attempts = CountedUp(@),
                   ![c].status = IF seen[p].attempts + 1 >= MaxAttempts
                                   THEN "invalidated" ELSE @]
      /\ RollBack(p, "refused")
      /\ Forget(p)
      /\ UNCHANGED issued

(* consumeLoginChallenge: the row is looked at again under its lock.       *)
AsItWasRead(p) == challenge[seen[p].challenge].status # "none"
StillConsumable(p) == Consumable(seen[p].challenge)

ConsumeChallenge(p, s, o) ==
  LET c == seen[p].challenge
  IN  /\ Ready(p, "selecting")
      /\ StillConsumable(p)
      /\ challenge' = [challenge EXCEPT ![c].status = "consumed"]
      /\ issued' = [issued EXCEPT ![c] = @ \cup {s}]
      /\ SignedIn(s, o)
      /\ End(p, "signed_in")
      /\ Forget(p)

(* It is used up, or it has expired meanwhile. *)
AlreadyUsed(p) == /\ Ready(p, "selecting")
                  /\ RollBack(p, "refused")
                  /\ Forget(p)
                  /\ UNCHANGED <<challenge, issued>>

Select(p) == \/ RefuseSelection(p) \/ AlreadyUsed(p)
             \/ \E s \in Session, o \in Owner : ConsumeChallenge(p, s, o)

Next ==
  \/ AuthNext /\ UNCHANGED <<challenge, seen, issued>>
  \/ \E c \in Challenge : CreateChallenge(c)
  \/ \E p \in Request :
       Select(p) \/ \E c \in Challenge : BeginSelection(p, c)

Works(p) == \/ Select(p)
            \/ Proceed(p) /\ UNCHANGED <<challenge, seen, issued>>

Aborted(p) == DeadlockVictim(p) /\ UNCHANGED <<challenge, seen, issued>>

(* As long as some request can go on, one does; and the deadlock detector  *)
(* runs after deadlock_timeout.                                            *)
Spec == /\ Init /\ [][Next]_vars
        /\ WF_vars(\E p \in Request : Works(p) \/ Aborted(p))

-----------------------------------------------------------------------------
(* A challenge is good for one session, and only before its last attempt:  *)
(* neither two selections at once nor one beside a refused one get more.   *)
ChallengeSpentOnce ==
  \A c \in Challenge :
    /\ Cardinality(issued[c]) <= 1
    /\ challenge[c].status = "consumed" <=> issued[c] # {}
    /\ challenge[c].status = "consumed" => challenge[c].attempts < MaxAttempts
    /\ challenge[c].status = "invalidated" => challenge[c].attempts = MaxAttempts

(* Whatever waits for whatever, every request that was sent is answered:   *)
(* requests being finite in number, in the end none is under way.          *)
EveryRequestEnds ==
  <>[](\A p \in Request : request[p].step \in {"idle", "done"})
=============================================================================
