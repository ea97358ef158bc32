----------------------------- MODULE MCSpecCache -----------------------------
(* A finite instance of SpecCache.                                          *)
EXTENDS SpecCache, TLC

Symmetry == Permutations(Processes)

VARIABLE part   \* what a behaviour is about

MCInit == Init /\ part \in {"race", "clock"} /\ (part = "race" => clock = 0)

\* Processes race by a clock that nobody sets, or it is set under one at a time.
MCNext ==
  /\ Next /\ UNCHANGED part
  /\ IF part = "race" THEN UNCHANGED clock
     ELSE \A p, q \in Processes : phase'[p] # "idle" /\ phase'[q] # "idle" => p = q

MCSpec == MCInit /\ [][MCNext]_<<vars, part>>
=============================================================================
