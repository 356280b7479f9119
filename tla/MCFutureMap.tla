----------------------------- MODULE MCFutureMap -----------------------------
(***************************************************************************)
(* Four requests on a running batch of three: a request can wait while the *)
(* two others are prefilled in three passes each, which is what the ring   *)
(* has to outlast.                                                         *)
(***************************************************************************)
EXTENDS FutureMap, TLC

CONSTANTS r1, r2, r3, r4
MCReqs == {r1, r2, r3, r4}
Symm == Permutations(MCReqs)
==============================================================================
