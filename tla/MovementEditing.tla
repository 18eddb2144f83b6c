-------------------------- MODULE MovementEditing --------------------------
(***************************************************************************)
(* Callers of the movement commands: each reads a movement, then issues a  *)
(* command carrying the version it read (the ETag and If-Match headers of  *)
(* the movement routes), while others do the same.                         *)
(***************************************************************************)
EXTENDS InventoryMovements

CONSTANTS Caller, Nothing

VARIABLE seen    \* what each caller read last, and of which movement

editingVars == <<balance, movement, seen>>

EditingInit == /\ BalanceInit
               /\ MovementInit
               /\ seen = [c \in Caller |-> Nothing]

(* GET of a movement: its current state, with its version as the ETag. *)
Read(c, m) == /\ movement[m].status # "none"
              /\ seen' = [seen EXCEPT ![c] = [id |-> m, value |-> movement[m]]]
              /\ UNCHANGED <<balance, movement>>

(* A command on the movement the caller read, with the version it read. *)
Command(c) == /\ seen[c] # Nothing
              /\ MovementCommand(seen[c].id, seen[c].value.version)
              /\ UNCHANGED seen

EditingNext ==
  \/ (\E m \in MovementId : Create(m)) /\ UNCHANGED seen
  \/ \E c \in Caller, m \in MovementId : Read(c, m)
  \/ \E c \in Caller : Command(c)

EditingSpec == EditingInit /\ [][EditingNext]_editingVars

-----------------------------------------------------------------------------
(* Every state of a movement has a version of its own, so a command never  *)
(* acts on a state its caller has not seen: nobody posts, cancels or edits *)
(* lines that another caller rewrote after they were read (checkVersion in *)
(* the draft, posting and reversal services, and the version increments of *)
(* their repositories).                                                    *)
ActsOnWhatWasSeen ==
  [][\A m \in MovementId :
       movement'[m] # movement[m] /\ movement[m].status # "none" =>
         \E c \in Caller : seen[c] = [id |-> m, value |-> movement[m]]]_editingVars
=============================================================================
