--------------------------- MODULE MCCodexSelect ---------------------------
(* A session (with a rotated rollout) and its sub-thread in one process, and *)
(* another session in another.                                               *)
EXTENDS CodexSelect, TLC

CONSTANTS p1, p2, m1, m2, main, sub, other, roll1, roll2, roll3, roll4
Family == main :> main @@ sub :> main @@ other :> other
Direct == main :> Nobody @@ sub :> main @@ other :> Nobody
Rollouts == roll1 :> main @@ roll2 :> main @@ roll3 :> sub @@ roll4 :> other
RunBy == main :> p1 @@ sub :> p1 @@ other :> p2
Markers == p1 :> m1 @@ p2 :> m2
=============================================================================
