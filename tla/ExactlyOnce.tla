---------------------------- MODULE ExactlyOnce ----------------------------
(***************************************************************************)
(* What the Idempotency-Key header promises of commands on one versioned   *)
(* document: however often a request is sent, it takes effect at most      *)
(* once; whoever is answered learns the effect of his own request; and     *)
(* nobody is refused whose request has taken effect.                       *)
(***************************************************************************)
EXTENDS Naturals

CONSTANTS
  Attempt,       \* transmissions of requests, retries included
  Key,           \* idempotency keys, within company, operation and actor
  Version,       \* bound: the document versions a request may expect
  NoRequest, NoRow, Pending, Refused

VARIABLES
  request,       \* what each attempt asks
  outcome,       \* what the sender of each attempt has heard
  version,       \* the document
  stored         \* the request and the answer recorded under each key

promiseVars == <<request, outcome, version, stored>>

Request == [key : Key, expected : Version]

Recorded(req, answer) == [expected |-> req.expected, answer |-> answer]

Init == /\ request = [a \in Attempt |-> NoRequest]
        /\ outcome = [a \in Attempt |-> Pending]
        /\ version = 0
        /\ stored = [k \in Key |-> NoRow]

Submit(a, req) == /\ request[a] = NoRequest
                  /\ request' = [request EXCEPT ![a] = req]
                  /\ UNCHANGED <<outcome, version, stored>>

(* The request takes effect and is recorded, in one step. *)
Apply(a) ==
  /\ request[a] # NoRequest
  /\ outcome[a] = Pending
  /\ stored[request[a].key] = NoRow
  /\ version = request[a].expected
  /\ version' = version + 1
  /\ stored' = [stored EXCEPT ![request[a].key] =
                  Recorded(request[a], version + 1)]
  /\ UNCHANGED <<request, outcome>>

(* An answer repeats what is recorded for the same request. *)
Answer(a) ==
  /\ request[a] # NoRequest
  /\ outcome[a] = Pending
  /\ stored[request[a].key] # NoRow
  /\ stored[request[a].key].expected = request[a].expected
  /\ outcome' = [outcome EXCEPT ![a] = stored[request[a].key].answer]
  /\ UNCHANGED <<request, version, stored>>

(* Version conflict, or a key that stands for another request. *)
Refuse(a) ==
  /\ request[a] # NoRequest
  /\ outcome[a] = Pending
  /\ IF stored[request[a].key] = NoRow
       THEN version # request[a].expected
       ELSE stored[request[a].key].expected # request[a].expected
  /\ outcome' = [outcome EXCEPT ![a] = Refused]
  /\ UNCHANGED <<request, version, stored>>

Next == \E a \in Attempt :
          \/ \E req \in Request : Submit(a, req)
          \/ Apply(a)
          \/ Answer(a)
          \/ Refuse(a)

Spec == Init /\ [][Next]_promiseVars
=============================================================================
