------------------------- MODULE MCForkParentCache -------------------------
(***************************************************************************)
(* ForkParentCache on small instances.  The budget, the retry interval and *)
(* the give-up window are scaled down in the code's order,                 *)
(* Budget < Retry < GiveUp, with at least one tick between each two.       *)
(***************************************************************************)
EXTENDS ForkParentCache
=============================================================================
