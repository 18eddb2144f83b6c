----------------------------- MODULE TokenChain -----------------------------
(***************************************************************************)
(* What a client may rely on about the refresh tokens of a session: from   *)
(* the moment it is opened exactly one of them is of use, each is          *)
(* exchanged for the next, and a session that was closed stays closed.     *)
(***************************************************************************)
EXTENDS Naturals

CONSTANT Session

VARIABLES
  opened,        \* the sessions there have been
  usable         \* the generations of the tokens that can be exchanged

chainVars == <<opened, usable>>

Init == /\ opened = {}
        /\ usable = [s \in Session |-> {}]

Opens(s) == s \notin opened /\ s \in opened' /\ usable'[s] = {0}

Exchanges(s) == /\ s \in opened /\ s \in opened'
                /\ \E g \in usable[s] : usable[s] = {g} /\ usable'[s] = {g + 1}

Closes(s) == s \in opened /\ s \in opened' /\ usable'[s] = {}

Rests(s) == (s \in opened' <=> s \in opened) /\ usable'[s] = usable[s]

(* One command may close several sessions, or close one and open another.  *)
Next == \A s \in Session : Opens(s) \/ Exchanges(s) \/ Closes(s) \/ Rests(s)

Spec == Init /\ [][Next]_chainVars
=============================================================================
