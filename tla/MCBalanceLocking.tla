-------------------------- MODULE MCBalanceLocking --------------------------
(***************************************************************************)
(* Two variants at one shelf (keys 1 and 2) and in transit towards it      *)
(* (keys 3 and 4): a posting that adds both to the shelf, the receipt of   *)
(* both from transit, an issue of reserved stock, and a posting that takes *)
(* one from the shelf.                                                     *)
(***************************************************************************)
EXTENDS BalanceLocking, TLC

CONSTANTS post, receive, confirm, adjust

MCTxn == {post, receive, confirm, adjust}
MCKey == 1..4
MCEffect == (post :> (1 :> 1 @@ 2 :> 1))
              @@ (receive :> (1 :> 1 @@ 2 :> 1 @@ 3 :> -1 @@ 4 :> -1))
              @@ (confirm :> (2 :> -1))
              @@ (adjust :> (1 :> -1 @@ 2 :> -1))
MCKind == (post :> "lockFirst") @@ (receive :> "insertFirst")
            @@ (confirm :> "lockOnly") @@ (adjust :> "lockFirst")

MCInitialRows == {r \in [MCKey -> {0, 1, Absent}] : r[3] = 1 /\ r[4] = 1}
=============================================================================
