---------------------------- MODULE MCInventory ----------------------------
(***************************************************************************)
(* Instances of Inventory with one variant.  "shop" is in one branch; the  *)
(* transit location and the store it leads to are in another.              *)
(***************************************************************************)
EXTENDS Inventory, TLC

CONSTANTS shop, transit, store, north, south

MCBranchOf == [l \in Location |-> IF l = shop THEN north ELSE south]

Symmetry == Permutations(MovementId) \cup Permutations(ReservationId)
              \cup Permutations(TransferId)

(* Bound of the runs that are about workflows: movements are drafted one   *)
(* after the other, and none is cancelled.                                 *)
OneDraftAtATime ==
  /\ Cardinality({m \in MovementId :
                    movement[m].status \in {"draft", "pending"}}) <= 1
  /\ \A m \in MovementId : movement[m].status # "cancelled"

(* Bound of the run about transfers: drafts only bring stock to the shop.  *)
StockArrivesAtTheShop ==
  /\ OneDraftAtATime
  /\ \A m \in MovementId : movement[m].status = "draft" =>
       /\ movement[m].type = "opening_balance"
       /\ movement[m].branch = north
       /\ \A l \in movement[m].lines : l.destination = shop
=============================================================================
