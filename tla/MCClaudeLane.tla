---------------------------- MODULE MCClaudeLane ----------------------------
(* A finite instance of ClaudeLane.                                        *)
EXTENDS ClaudeLane, TLC

\* Two sessions of one process are interchangeable.
Interchangeable == Permutations(Sessions)
=============================================================================
