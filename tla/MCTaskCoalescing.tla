-------------------------- MODULE MCTaskCoalescing --------------------------
(***************************************************************************)
(* Three calls of _run_task_coalesced: two for the same paper of the same  *)
(* batch, sharing cache key and run directory, and one for another paper.  *)
(***************************************************************************)
EXTENDS TaskCoalescing, TLC

CONSTANTS r1, r2, r3, k1, k2, d1, d2

MCKeyOf == r1 :> k1 @@ r2 :> k1 @@ r3 :> k2
MCDirOf == r1 :> d1 @@ r2 :> d1 @@ r3 :> d2
=============================================================================
