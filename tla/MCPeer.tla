------------------------------- MODULE MCPeer -------------------------------
(* Who is at the other end of a connection, and is it the harness's?  The  *)
(* two parts share no state: a behaviour follows one of them.               *)
EXTENDS PeerPidCache, PeerTrust, TLC

\* Lookups are interchangeable, and so are the processes they look for.
Interchangeable == Permutations(Requests) \cup Permutations(Pids)

VARIABLE part

PeerInit ==
  /\ part \in {"lookup", "trust"} /\ Init /\ TrustInit
  /\ part = "trust" => \A p \in Peers, r \in Requests : holder[p] = lookup[r].truth

PeerNext ==
  /\ UNCHANGED part
  /\ \/ part = "lookup" /\ Next /\ UNCHANGED trustVars
     \/ part = "trust" /\ TrustNext /\ UNCHANGED vars

PeerSpec == PeerInit /\ [][PeerNext]_<<part, vars, trustVars>>
=============================================================================
