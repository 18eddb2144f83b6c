------------------------ MODULE MCIdempotentCommand ------------------------
(* Three attempts, which may be retries of one request, two requests that  *)
(* compete for one version, or two requests under one key.  No symmetry:   *)
(* a liveness property is checked.                                         *)
EXTENDS IdempotentCommand, TLC
=============================================================================
