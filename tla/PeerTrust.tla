------------------------------- MODULE PeerTrust -------------------------------
(***************************************************************************)
(* Whether a connection comes from the launched harness (peer_trust.rs): a *)
(* walk from the process of the peer up to the harness, one parent at a    *)
(* time, while processes fork and exit.                                    *)
(*                                                                         *)
(* Processes are known by their numbers, 1 the one that adopts orphans.    *)
(* The kernel hands a number out again, but not one that became free while *)
(* the walk is under way; and the harness's own number stays taken until   *)
(* the client that started it reaps it, which it does last.                *)
(***************************************************************************)
EXTENDS Integers, FiniteSets

CONSTANTS
  MaxNumber,   \* of a process
  MaxHops,     \* MAX_ANCESTRY_HOPS
  NoProcess

ASSUME TrustAssumption == MaxNumber \in Nat \ {0} /\ MaxHops \in Nat /\ NoProcess \notin Int

VARIABLES
  parent,      \* per number: its process's parent (0 for none), or NoProcess
  launched,    \* what the client takes for the harness's number, 0 before it has one
  line,        \* truth: the numbers from a process up to the harness, if all of them live
  ours,        \* truth: the processes that the harness or one of its descendants started
  freed,       \* the numbers that became free during the walk
  climb        \* the walk

trustVars == <<parent, launched, line, ours, freed, climb>>

Numbers == 1 .. MaxNumber
Live == {n \in Numbers : parent[n] # NoProcess}

NoClimb == [on |-> FALSE, current |-> 1, hops |-> 0, mine |-> FALSE, whole |-> FALSE, verdict |-> "none"]

TrustInit ==
  /\ parent = [n \in Numbers |-> IF n = 1 THEN 0 ELSE NoProcess]
  /\ launched = 0 /\ line = [n \in Numbers |-> {}] /\ ours = {} /\ freed = {}
  /\ climb = NoClimb

---------------------------------------------------------------------------
(* The process table.                                                      *)

Vacancies == (Numbers \ Live) \ (freed \cup {launched})

\* The client starts the harness; one in a namespace of its own presents as 1.
Spawn ==
  /\ launched = 0
  /\ \E n \in Vacancies, p \in Live :
       /\ parent' = [parent EXCEPT ![n] = p] /\ ours' = {n} /\ line' = [line EXCEPT ![n] = {n}]
       /\ launched' \in {n, 1}
  /\ UNCHANGED <<freed, climb>>

Fork ==
  /\ \E n \in Vacancies, p \in Live :
       /\ parent' = [parent EXCEPT ![n] = p]
       /\ line' = [line EXCEPT ![n] = IF line[p] = {} THEN {} ELSE {n} \cup line[p]]
       /\ ours' = IF p \in ours THEN ours \cup {n} ELSE ours
  /\ UNCHANGED <<launched, freed, climb>>

\* Its children go to 1.
Exit ==
  /\ \E n \in Live \ {1} :
       /\ parent' = [m \in Numbers |-> IF m = n THEN NoProcess ELSE IF parent[m] = n THEN 1 ELSE parent[m]]
       /\ line' = [m \in Numbers |-> IF n \in line[m] THEN {} ELSE line[m]]
       /\ ours' = ours \ {n}
       /\ freed' = IF climb.on THEN freed \cup {n} ELSE freed
       /\ climb' = [climb EXCEPT !.whole = @ /\ (climb.on => line'[climb.current] # {})]
  /\ UNCHANGED launched

---------------------------------------------------------------------------
(* The walk.                                                               *)

\* Mutant: any number that there is vouches.
AnyVouches(number) == number > 0

\* Every process descends from 1, which therefore vouches for none.
Vouches(number) == number > 1

\* The peer's process is looked up, the second question after that for the harness.
Resolve ==
  /\ ~climb.on
  /\ \E n \in Live :
       climb' = [on |-> Vouches(launched), current |-> n, hops |-> 0, mine |-> n \in ours,
                 whole |-> Vouches(launched) /\ line[n] # {} /\ Cardinality(line[n]) <= MaxHops,
                 verdict |-> IF Vouches(launched) THEN "none" ELSE "denied"]
  /\ UNCHANGED <<parent, launched, line, ours, freed>>

Ends(verdict, whole) ==
  /\ climb' = [on |-> FALSE, current |-> climb.current, hops |-> climb.hops,
               mine |-> climb.mine, whole |-> whole, verdict |-> verdict]
  /\ freed' = {}
  /\ UNCHANGED <<parent, launched, line, ours>>

Recognize ==
  /\ climb.on /\ climb.hops < MaxHops /\ climb.current = launched
  /\ Ends("trusted", climb.whole)

\* parent_of, and one hop up.
Ascend ==
  /\ climb.on /\ climb.hops < MaxHops /\ climb.current # launched
  /\ climb.current \in Live /\ parent[climb.current] \notin {0, climb.current}
  /\ climb' = [on |-> TRUE, current |-> parent[climb.current], hops |-> climb.hops + 1,
               mine |-> climb.mine, whole |-> climb.whole, verdict |-> climb.verdict]
  /\ UNCHANGED <<parent, launched, line, ours, freed>>

\* The root, a process that is gone, or the end of the bound.
Concede ==
  /\ climb.on
  /\ \/ climb.hops = MaxHops
     \/ /\ climb.current # launched
        /\ climb.current \notin Live \/ parent[climb.current] \in {0, climb.current}
  /\ Ends("denied", climb.whole)

\* The lookup finds nobody, or the process table cannot be read.
Unreadable ==
  /\ climb.on /\ climb.hops < MaxHops /\ (climb.current # launched \/ climb.hops = 0)
  /\ Ends("denied", FALSE)

TrustNext == Spawn \/ Fork \/ Exit \/ Resolve \/ Recognize \/ Ascend \/ Concede \/ Unreadable

TrustSpec == TrustInit /\ [][TrustNext]_trustVars

TrustTypeOK ==
  /\ parent \in [Numbers -> (0 .. MaxNumber) \cup {NoProcess}]
  /\ launched \in 0 .. MaxNumber /\ line \in [Numbers -> SUBSET Numbers]
  /\ ours \subseteq Numbers /\ freed \subseteq Numbers
  /\ climb \in [on : BOOLEAN, current : Numbers, hops : 0 .. MaxHops, mine : BOOLEAN,
                whole : BOOLEAN, verdict : {"none", "trusted", "denied"}]

---------------------------------------------------------------------------
(* Properties.                                                             *)

\* Forks, exits and adoptions while the walk is under way make it believe nobody
\* but a process that the harness or one of its own had started, whichever numbers
\* were used before; and it denies one whose every ancestor up to the harness stayed
\* and could be read only where there are more of them than it looks at.
VerdictIsTrue ==
  /\ climb.verdict = "trusted" => climb.mine
  /\ climb.verdict = "denied" => ~climb.whole
=============================================================================
