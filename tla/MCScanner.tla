----------------------------- MODULE MCScanner -----------------------------
(***************************************************************************)
(* A venue that logs an undecodable event in one block, a pool without a   *)
(* reference token and a launch in the next.                               *)
(***************************************************************************)
EXTENDS Scanner, TLC

CONSTANTS p, u, x

MCBlock == x :> 1 @@ u :> 2 @@ p :> 2
============================================================================
