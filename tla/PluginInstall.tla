--------------------------- MODULE PluginInstall ---------------------------
(***************************************************************************)
(* Installing a harness's capture artifacts: PluginArtifact::install of    *)
(* plugin.rs, for an artifact set in its order.                            *)
(*                                                                         *)
(* The harness loads what it finds in the directory whenever a session     *)
(* starts.  An install stages its bytes under a name of its process that   *)
(* the harness does not load, removes the files the artifact supersedes,   *)
(* and renames.  Installs of several processes, and of one, may overlap;   *)
(* every call can fail and a process can die between any two.              *)
(*                                                                         *)
(* A file that is open for writing is named by the install that opened it  *)
(* last, wherever it is moved: the writes of an earlier one are undone, or *)
(* repeated.                                                               *)
(***************************************************************************)
EXTENDS Integers, FiniteSets

CONSTANTS
  Last,        \* artifacts are 1 .. Last, in the order of their set
  Superseded,  \* the files the first of them supersedes
  Processes,   \* process ids
  Installs,    \* installs of the whole set
  Absent, Whole,
  Cut          \* a file whose writing was broken off

ASSUME ConstantsAssumption ==
  /\ Last \in Nat \ {0} /\ IsFiniteSet(Superseded)
  /\ {Absent, Whole, Cut} \cap Installs = {}
  /\ Absent # Whole /\ Whole # Cut /\ Absent # Cut

Artifacts == 1 .. Last

VARIABLES
  target,      \* what each artifact's final name holds
  old,         \* the superseded files that are there
  staged,      \* what each process's staging name of each artifact holds
  install,     \* the installs
  overlap      \* history: the processes that had two installs at a time

vars == <<target, old, staged, install, overlap>>

File   == {Absent, Whole, Cut} \cup Installs
Phase  == {"idle", "staging", "writing", "removing", "renaming", "done", "failed"}
Active == {"staging", "writing", "removing", "renaming"}
Install == [phase : Phase, process : Processes, artifact : Artifacts, todo : SUBSET Superseded]

At(phase, process, artifact, todo) ==
  [phase |-> phase, process |-> process, artifact |-> artifact, todo |-> todo]

Supersedes(artifact) == IF artifact = 1 THEN Superseded ELSE {}

TypeOK ==
  /\ target \in [Artifacts -> File]
  /\ old \in SUBSET Superseded
  /\ staged \in [Artifacts -> [Processes -> File]]
  /\ install \in [Installs -> Install]
  /\ overlap \in SUBSET Processes

\* An earlier release is installed, or part of one, or another client's, or both.
Init ==
  /\ \E n \in 0 .. Last : target = [a \in Artifacts |-> IF a <= n THEN Whole ELSE Absent]
  /\ old \in SUBSET Superseded
  /\ staged = [a \in Artifacts |-> [p \in Processes |-> Absent]]
  /\ \E p \in Processes : install = [i \in Installs |-> At("idle", p, 1, {})]
  /\ overlap = {}

---------------------------------------------------------------------------
\* Install i goes on with phase and todo.
Move(i, phase, todo) ==
  install' = [install EXCEPT ![i] = At(phase, @.process, @.artifact, todo)]

\* i has written this file for the last time.
Closed(file, i, as) == IF file = i THEN as ELSE file

Close(i, as) ==
  /\ target' = [a \in Artifacts |-> Closed(target[a], i, as)]
  /\ staged' = [a \in Artifacts |-> [p \in Processes |-> Closed(staged[a][p], i, as)]]

\* What i staged, or anyone of its process did.
Stage(i, file) ==
  staged' = [staged EXCEPT ![install[i].artifact][install[i].process] = file]

\* A process sets out to install the artifacts.
Begin(i, p) ==
  /\ install[i].phase \notin Active
  /\ install' = [install EXCEPT ![i] = At("staging", p, 1, {})]
  /\ overlap' = IF \E j \in Installs \ {i} : install[j].phase \in Active /\ install[j].process = p
                  THEN overlap \cup {p} ELSE overlap
  /\ UNCHANGED <<target, old, staged>>

\* Mutant: the artifact is written to where the harness finds it.
OpenInPlace(i) ==
  /\ install[i].phase = "staging"
  /\ target' = [target EXCEPT ![install[i].artifact] = i]
  /\ Stage(i, i)
  /\ Move(i, "writing", {})
  /\ UNCHANGED <<old, overlap>>

\* fs::write creates or truncates the staging file.
Open(i) ==
  /\ install[i].phase = "staging"
  /\ Stage(i, i)
  /\ Move(i, "writing", {})
  /\ UNCHANGED <<target, old, overlap>>

\* The directory cannot be made, or the file not opened.
OpenFails(i) ==
  /\ install[i].phase = "staging"
  /\ Move(i, "failed", {})
  /\ UNCHANGED <<target, old, staged, overlap>>

\* fs::write is done.
Written(i) ==
  LET todo == Supersedes(install[i].artifact)
  IN  /\ install[i].phase = "writing"
      /\ Close(i, Whole)
      /\ Move(i, IF todo = {} THEN "renaming" ELSE "removing", todo)
      /\ UNCHANGED <<old, overlap>>

\* fs::write fails half way, and install returns its error.
WriteFails(i) ==
  /\ install[i].phase = "writing"
  /\ Close(i, Cut)
  /\ Move(i, "failed", {})
  /\ UNCHANGED <<old, overlap>>

\* A superseded file is removed, or was not there.
Remove(i, file) ==
  LET todo == install[i].todo \ {file}
  IN  /\ install[i].phase = "removing" /\ file \in install[i].todo
      /\ old' = old \ {file}
      /\ Move(i, IF todo = {} THEN "renaming" ELSE "removing", todo)
      /\ UNCHANGED <<target, staged, overlap>>

\* What was staged is removed again; a failure to do that is ignored.
Discard(i) == UNCHANGED staged \/ Stage(i, Absent)

\* Mutant: a superseded file that cannot be removed is left alone.
RemovalIgnored(i) ==
  /\ install[i].phase = "removing" /\ install[i].todo \cap old # {}
  /\ Move(i, "renaming", {})
  /\ UNCHANGED <<target, old, staged, overlap>>

\* It is there and cannot be removed.
RemoveFails(i) ==
  /\ install[i].phase = "removing" /\ install[i].todo \cap old # {}
  /\ Discard(i)
  /\ Move(i, "failed", {})
  /\ UNCHANGED <<target, old, overlap>>

\* i goes on with the artifact after this one, if there is one.
GoOn(i) ==
  install' = [install EXCEPT ![i] =
    IF @.artifact < Last THEN At("staging", @.process, @.artifact + 1, {})
    ELSE At("done", @.process, @.artifact, {})]

\* What was staged is renamed.
Rename(i) ==
  LET a == install[i].artifact
      file == staged[a][install[i].process]
  IN  /\ install[i].phase = "renaming" /\ file # Absent
      /\ target' = [target EXCEPT ![a] = file]
      /\ Stage(i, Absent)
      /\ GoOn(i)
      /\ UNCHANGED <<old, overlap>>

\* Mutant: the artifacts that can be installed are.
FailureSkips(i) ==
  /\ install[i].phase = "renaming"
  /\ Discard(i)
  /\ GoOn(i)
  /\ UNCHANGED <<target, old, overlap>>

\* It cannot be, or another install of the process has renamed it.
RenameFails(i) ==
  /\ install[i].phase = "renaming"
  /\ Discard(i)
  /\ Move(i, "failed", {})
  /\ UNCHANGED <<target, old, overlap>>

\* The process of i dies, and its installs with it.
Dies(i) == {j \in Installs : install[j].phase \in Active /\ install[j].process = install[i].process}
Broken(file, dead) == IF file \in dead THEN Cut ELSE file

Crash(i) ==
  /\ install[i].phase \in Active
  /\ install' = [j \in Installs |->
       IF j \in Dies(i) THEN At("idle", install[j].process, 1, {}) ELSE install[j]]
  /\ target' = [a \in Artifacts |-> Broken(target[a], Dies(i))]
  /\ staged' = [a \in Artifacts |-> [p \in Processes |-> Broken(staged[a][p], Dies(i))]]
  /\ UNCHANGED <<old, overlap>>

Next ==
  \E i \in Installs :
    \/ \E p \in Processes : Begin(i, p)
    \/ \E file \in Superseded : Remove(i, file)
    \/ Open(i) \/ OpenFails(i) \/ Written(i) \/ WriteFails(i)
    \/ RemoveFails(i) \/ Rename(i) \/ RenameFails(i) \/ Crash(i)

Spec == Init /\ [][Next]_vars

---------------------------------------------------------------------------
(* Properties.                                                             *)

\* How many capture extensions a session that starts now loads.
Readers == Cardinality(old) + (IF target[1] = Absent THEN 0 ELSE 1)

\* No step of any install brings the harness a second extension, whatever fails
\* and whoever else installs ("the state that must never be reached is both
\* files present").
NoSecondReader == [][Readers' > Readers => Readers' = 1]_vars

\* A session never loads a half-written file, unless one process ran two
\* installs at a time: they share their staging name.
LoadedIsWhole ==
  overlap = {} => \A a \in Artifacts : target[a] \in {Absent, Whole}

\* The artifacts appear in their order: a harness that finds the last of them
\* (hermes's manifest) finds all (its module), through failures and crashes.
LastMeansAll ==
  target[Last] # Absent => \A a \in Artifacts : target[a] # Absent

\* An install that reports success left its artifacts, and nothing they replace.
DoneIsSole ==
  \A i \in Installs : install[i].phase = "done" => old = {} /\ target[Last] # Absent
=============================================================================
