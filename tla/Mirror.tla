-------------------------------- MODULE Mirror --------------------------------
(***************************************************************************)
(* What the transcript lane promises (transcript/trigger.rs, sweep.rs): a  *)
(* copy of a session's growing files that only comes closer to them, and   *)
(* that a client which has had word of the session lets go of only when it *)
(* is complete, with nothing more to come until the client is told.        *)
(***************************************************************************)
EXTENDS Integers

CONSTANT Files

VARIABLES
  whole,     \* the whole records of each file
  copy,      \* those of the server's version of it
  care       \* the client: "down", "unaware", "minded" the session, "settled" with it

Init ==
  /\ whole = [f \in Files |-> 0]
  /\ copy = whole
  /\ care \in {"down", "unaware"}

\* A file gets another record, but not behind the back of a client that is done.
Grow(f) ==
  /\ care # "settled"
  /\ whole' = [whole EXCEPT ![f] = @ + 1]
  /\ UNCHANGED <<copy, care>>

\* The copy of a file is brought forward: to a state the file has been in.
Advance(f, n) ==
  /\ copy[f] < n /\ n <= whole[f]
  /\ copy' = [copy EXCEPT ![f] = n]
  /\ UNCHANGED <<whole, care>>

\* A client that starts may find the session.
Start  == care = "down" /\ care' \in {"unaware", "minded"}
Hear   == care = "unaware" /\ care' = "minded"
Settle == care = "minded" /\ copy = whole /\ care' = "settled"
Resume == care = "settled" /\ care' = "unaware"
Crash  == care # "down" /\ care' = "down"

Next ==
  \/ \E f \in Files : Grow(f) \/ \E n \in copy[f] .. whole[f] : Advance(f, n)
  \/ (Start \/ Hear \/ Settle \/ Resume \/ Crash) /\ UNCHANGED <<whole, copy>>

Spec == Init /\ [][Next]_<<whole, copy, care>>
=============================================================================
