------------------------------- MODULE MCParts -------------------------------
(* Six parts that share no state: a behaviour follows one of them.          *)
EXTENDS CodexAnchors, CodexConfig, PagedCall, Envelope, CursorStream, CassetteSurface

CONSTANTS list, get, post, body, param, lower, upper

Spoken == {list, get, post, body, param}
Listings == {<<list>>, <<list, get>>, <<list, 2>>}
\* Two of them become one flag, and another becomes what a second one of those is given.
Parameters ==
  {[words |-> <<body>>, spelling |-> lower], [words |-> <<body>>, spelling |-> upper],
   [words |-> <<param, body>>, spelling |-> lower], [words |-> <<body, 2>>, spelling |-> lower]}
Occupied == {<<body>>, <<param, body>>, <<param, body, 2>>}

VARIABLE part

\* What the parts but one keep.
Besides(own) ==
  /\ own # "anchors"  => UNCHANGED vars
  /\ own # "config"   => UNCHANGED cfgVars
  /\ own # "walk"     => UNCHANGED walkVars
  /\ own # "envelope" => UNCHANGED envVars
  /\ own # "cursor"   => UNCHANGED cursorVars
  /\ own # "surface"  => UNCHANGED surfaceVars
partsVars ==
  <<part, vars, cfgVars, walkVars, envVars, cursorVars, surfaceVars>>

PartsInit ==
  /\ part \in {"anchors", "config", "walk", "envelope", "cursor", "surface"}
  /\ Init /\ CfgInit /\ WalkInit /\ EnvInit /\ CursorInit /\ SurfaceInit

PartsNext ==
  /\ UNCHANGED part
  /\ \/ part = "anchors"  /\ Next
     \/ part = "config"   /\ CfgNext
     \/ part = "walk"     /\ WalkNext
     \/ part = "envelope" /\ EnvNext
     \/ part = "cursor"   /\ CursorNext
     \/ part = "surface"  /\ SurfaceNext
  /\ Besides(part)

\* The anchor lane's Fairness, where it runs.
Anchoring(A) == part = "anchors" /\ A
AnchorFairness ==
  /\ \A p \in Paths : /\ WF_vars(Anchoring(RetainLive({p} \cup live)))
                      /\ SF_vars(Anchoring(Stat(p)))
  /\ SF_vars(Anchoring(Read))
  /\ SF_vars(Anchoring(\E i \in 1 .. MaxLines : PostAccepted(i)))
  /\ WF_vars(Anchoring(EndScan))

\* And the hook answers (WalkFairSpec).
PartsSpec ==
  /\ PartsInit /\ [][PartsNext]_partsVars
  /\ AnchorFairness /\ WF_walkVars(OnUnauthorized)
=============================================================================
