---------------------------- MODULE AnchorLedger ----------------------------
(***************************************************************************)
(* What the Codex anchor lane promises (transcript/codex_anchors.rs): the  *)
(* ingest server holds, of every rollout, only anchors the rollout offers, *)
(* each at most once however often it was pushed, and a rollout offers one *)
(* line per event.                                                         *)
(***************************************************************************)
CONSTANTS
  Paths,      \* rollout files
  Line,       \* what can be a line of one
  Same(_, _)  \* do two lines tell of one event?

VARIABLES
  offered,    \* the lines of each rollout that are its anchors
  rows        \* the rows the server stores

Init ==
  /\ offered = [p \in Paths |-> {}]
  /\ rows = [p \in Paths |-> {}]

\* The harness writes the first line that tells of an event.
Offer(p, line) ==
  /\ \A other \in offered[p] : ~Same(other, line)
  /\ offered' = [offered EXCEPT ![p] = @ \cup {line}]
  /\ UNCHANGED rows

\* The server comes to hold an anchor, for good.
Bank(p, line) ==
  /\ line \in offered[p]
  /\ rows' = [rows EXCEPT ![p] = @ \cup {line}]
  /\ UNCHANGED offered

Next == \E p \in Paths, line \in Line : Offer(p, line) \/ Bank(p, line)

Spec == Init /\ [][Next]_<<offered, rows>>
=============================================================================
