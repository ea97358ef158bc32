------------------------ MODULE PluginInstall_proofs ------------------------
(***************************************************************************)
(* PluginInstall keeps its properties for every artifact set, any number   *)
(* of superseded files, of installs and of processes.                      *)
(***************************************************************************)
EXTENDS PluginInstall, FiniteSetTheorems, TLAPS

\* How far i has come, and what it has made sure of by then.
Progress(i) ==
  /\ install[i].phase = "removing" => install[i].artifact = 1 /\ old \subseteq install[i].todo
  /\ install[i].phase = "renaming" => old = {}
  /\ install[i].phase \in Active /\ install[i].artifact # 1 => old = {}
  /\ install[i].phase = "done" => old = {} /\ target[Last] # Absent
  /\ install[i].phase \in Active =>
       \A a \in Artifacts : a < install[i].artifact => target[a] # Absent

\* The staging name that i writes to.
Slot(i) == staged[install[i].artifact][install[i].process]

\* As long as no process runs two installs, a staging name is of one install.
Apart ==
  \A i, j \in Installs :
    i # j /\ install[i].phase \in Active /\ install[j].phase \in Active
      => install[i].process # install[j].process

Own ==
  \A i \in Installs :
    /\ install[i].phase = "writing" => Slot(i) = i
    /\ install[i].phase \in {"removing", "renaming"} => Slot(i) = Whole

Written_by ==
  \A a \in Artifacts, p \in Processes, i \in Installs :
    staged[a][p] = i => install[i].phase = "writing"

Clean == /\ \A a \in Artifacts : target[a] \in {Absent, Whole}
         /\ Apart /\ Own /\ Written_by

IInv ==
  /\ TypeOK
  /\ \A i \in Installs : Progress(i)
  /\ LastMeansAll
  /\ overlap = {} => Clean

---------------------------------------------------------------------------
\* What every step leaves alone: superseded files only go, and what has
\* appeared where the harness looks does not disappear.
Keeps ==
  /\ old' \subseteq old
  /\ \A a \in Artifacts : target[a] # Absent => target'[a] # Absent

\* An install that does not move keeps its progress.
LEMMA Unmoved ==
  ASSUME TypeOK, Keeps, NEW i \in Installs, Progress(i), install'[i] = install[i]
  PROVE  Progress(i)'
<1>1. Last \in Artifacts
  BY ConstantsAssumption DEF Artifacts
<1>2. /\ install[i].phase = "removing" => install[i].artifact = 1 /\ old' \subseteq install[i].todo
      /\ install[i].phase = "renaming" => old' = {}
      /\ install[i].phase \in Active /\ install[i].artifact # 1 => old' = {}
      /\ install[i].phase = "done" => old' = {} /\ target'[Last] # Absent
  BY <1>1 DEF Progress, Keeps
<1>3. install[i].phase \in Active =>
        \A a \in Artifacts : a < install[i].artifact => target'[a] # Absent
  BY DEF Progress, Keeps
<1> QED BY <1>2, <1>3 DEF Progress

\* A step that moves i alone moves no other install.
LEMMA Others ==
  ASSUME TypeOK, NEW i \in Installs, NEW r \in Install,
         install' = [install EXCEPT ![i] = r]
  PROVE  /\ install' \in [Installs -> Install]
         /\ install'[i] = r
         /\ \A j \in Installs : j # i => install'[j] = install[j]
BY DEF TypeOK

\* The record that Move stores.
LEMMA Moves ==
  ASSUME TypeOK, NEW i \in Installs, NEW phase \in Phase, NEW todo \in SUBSET Superseded,
         Move(i, phase, todo)
  PROVE  /\ install' \in [Installs -> Install]
         /\ install'[i].phase = phase /\ install'[i].todo = todo
         /\ install'[i].process = install[i].process
         /\ install'[i].artifact = install[i].artifact
         /\ \A j \in Installs : j # i => install'[j] = install[j]
<1> DEFINE r == [phase |-> phase, process |-> install[i].process,
                 artifact |-> install[i].artifact, todo |-> todo]
<1>1. r \in Install
  BY DEF TypeOK, Install
<1>2. install' = [install EXCEPT ![i] = r]
  BY DEF Move, At
<1> HIDE DEF r
<1>3. install' \in [Installs -> Install] /\ install'[i] = r
      /\ \A j \in Installs : j # i => install'[j] = install[j]
  BY <1>1, <1>2, Others
<1> QED BY <1>3 DEF r

\* Closing a file changes no name that holds nothing, or another's file.
LEMMA Closes ==
  ASSUME TypeOK, NEW i \in Installs, NEW as \in {Whole, Cut}, Close(i, as)
  PROVE  /\ target' \in [Artifacts -> File]
         /\ staged' \in [Artifacts -> [Processes -> File]]
         /\ \A a \in Artifacts : /\ target'[a] = Absent <=> target[a] = Absent
                                 /\ target[a] # i => target'[a] = target[a]
         /\ \A a \in Artifacts, p \in Processes :
              /\ staged'[a][p] # i
              /\ staged[a][p] # i => staged'[a][p] = staged[a][p]
              /\ staged[a][p] = i => staged'[a][p] = as
<1>1. \A a \in Artifacts :
        target[a] \in File /\ target'[a] = IF target[a] = i THEN as ELSE target[a]
  BY DEF TypeOK, Close, Closed
<1>2. \A a \in Artifacts, p \in Processes :
        /\ staged[a][p] \in File
        /\ staged'[a][p] = IF staged[a][p] = i THEN as ELSE staged[a][p]
  BY DEF TypeOK, Close, Closed
<1>3. as \in File /\ as # Absent /\ as # i /\ i # Absent
  BY ConstantsAssumption DEF File
<1>4. target' \in [Artifacts -> File]
  BY <1>1, <1>3 DEF Close
<1>5. staged' \in [Artifacts -> [Processes -> File]]
  BY <1>2, <1>3 DEF Close
<1>6. \A a \in Artifacts : /\ target'[a] = Absent <=> target[a] = Absent
                           /\ target[a] # i => target'[a] = target[a]
  BY <1>1, <1>3
<1>7. \A a \in Artifacts, p \in Processes :
        /\ staged'[a][p] # i
        /\ staged[a][p] # i => staged'[a][p] = staged[a][p]
        /\ staged[a][p] = i => staged'[a][p] = as
  BY <1>2, <1>3
<1> QED BY <1>4, <1>5, <1>6, <1>7

\* Stage writes one name.
LEMMA Stages ==
  ASSUME TypeOK, NEW i \in Installs, NEW file \in File, Stage(i, file)
  PROVE  /\ staged' \in [Artifacts -> [Processes -> File]]
         /\ staged'[install[i].artifact][install[i].process] = file
         /\ \A a \in Artifacts, p \in Processes :
              a # install[i].artifact \/ p # install[i].process
                => staged'[a][p] = staged[a][p]
<1>1. install[i].artifact \in Artifacts /\ install[i].process \in Processes
  BY DEF TypeOK, Install
<1> QED BY <1>1 DEF TypeOK, Stage

\* Steps of i keep the names apart: it joins no process that has an install
\* under way, and writes names of its own process only.
LEMMA CleanStep ==
  ASSUME TypeOK, Clean, NEW i \in Installs,
         \A a \in Artifacts : target'[a] \in {Absent, Whole},
         \A j \in Installs : j # i => install'[j] = install[j],
         install'[i].phase \in Active =>
           \A j \in Installs : j # i /\ install[j].phase \in Active
                                 => install[j].process # install'[i].process,
         install'[i].phase = "writing" => Slot(i)' = i,
         install'[i].phase \in {"removing", "renaming"} => Slot(i)' = Whole,
         \A a \in Artifacts, p \in Processes :
           staged'[a][p] = i => install'[i].phase = "writing",
         \A a \in Artifacts, p \in Processes :
           \/ staged'[a][p] = staged[a][p]
           \/ /\ install[i].phase \in Active /\ p = install[i].process
              /\ staged'[a][p] = i \/ staged'[a][p] \notin Installs
           \/ staged[a][p] = i /\ staged'[a][p] \notin Installs
  PROVE  Clean'
<1>1. Apart'
  <2> SUFFICES ASSUME NEW j \in Installs, NEW k \in Installs, j # k,
                      install'[j].phase \in Active, install'[k].phase \in Active
               PROVE  install'[j].process # install'[k].process
    BY DEF Apart
  <2>1. CASE j = i
    BY <2>1
  <2>2. CASE k = i
    BY <2>2
  <2>3. CASE j # i /\ k # i
    BY <2>3 DEF Clean, Apart
  <2> QED BY <2>1, <2>2, <2>3
<1>2. Own'
  <2>1. ASSUME NEW j \in Installs, j # i, install[j].phase \in {"writing", "removing", "renaming"}
        PROVE  staged'[install[j].artifact][install[j].process] = Slot(j)
    <3>1. install[j].artifact \in Artifacts /\ install[j].process \in Processes
      BY DEF TypeOK, Install
    <3>2. install[j].phase \in Active
      BY <2>1 DEF Active
    <3>3. install[i].phase \in Active => install[j].process # install[i].process
      BY <2>1, <3>2 DEF Clean, Apart
    <3>4. Slot(j) \in {j, Whole} /\ Slot(j) # i
      BY <2>1, ConstantsAssumption DEF Clean, Own
    <3> QED BY <3>1, <3>3, <3>4 DEF Slot
  <2>2. ASSUME NEW j \in Installs
        PROVE  /\ install'[j].phase = "writing" => Slot(j)' = j
               /\ install'[j].phase \in {"removing", "renaming"} => Slot(j)' = Whole
    <3>1. CASE j = i
      BY <3>1
    <3>2. CASE j # i
      <4>1. install'[j] = install[j]
        BY <3>2
      <4>2. /\ install[j].phase = "writing" => Slot(j) = j
            /\ install[j].phase \in {"removing", "renaming"} => Slot(j) = Whole
        BY DEF Clean, Own
      <4> QED BY <2>1, <3>2, <4>1, <4>2 DEF Slot
    <3> QED BY <3>1, <3>2
  <2> QED BY <2>2 DEF Own
<1>3. Written_by'
  <2> SUFFICES ASSUME NEW a \in Artifacts, NEW p \in Processes, NEW j \in Installs,
                      staged'[a][p] = j, j # i
               PROVE  install'[j].phase = "writing"
    BY DEF Written_by
  <2>1. staged[a][p] = j
    OBVIOUS
  <2> QED BY <2>1 DEF Clean, Written_by
<1> QED BY <1>1, <1>2, <1>3 DEF Clean

\* What is left to show of a step that only i takes.
LEMMA StepOf ==
  ASSUME IInv, TypeOK', Keeps, NEW i \in Installs, Progress(i)',
         \A j \in Installs : j # i => install'[j] = install[j],
         LastMeansAll', overlap' = {} => Clean'
  PROVE  IInv'
<1>1. ASSUME NEW j \in Installs PROVE Progress(j)'
  <2>1. CASE j = i
    BY <2>1
  <2>2. CASE j # i
    BY <2>2, Unmoved DEF IInv
  <2> QED BY <2>1, <2>2
<1> QED BY <1>1 DEF IInv

\* Steps that add nothing where the harness looks.
LEMMA SameNames ==
  ASSUME IInv, \A a \in Artifacts : target'[a] = Absent <=> target[a] = Absent
  PROVE  LastMeansAll'
<1>1. Last \in Artifacts
  BY ConstantsAssumption DEF Artifacts
<1> QED BY <1>1 DEF IInv, LastMeansAll

---------------------------------------------------------------------------
(* One lemma for every action.                                             *)

LEMMA InitHolds == Init => IInv
<1> SUFFICES ASSUME Init PROVE IInv
  OBVIOUS
<1>1. Last \in Artifacts /\ 1 \in Artifacts
  BY ConstantsAssumption DEF Artifacts
<1>2. PICK n \in 0 .. Last : target = [a \in Artifacts |-> IF a <= n THEN Whole ELSE Absent]
  BY DEF Init
<1>3. PICK p \in Processes : install = [i \in Installs |-> At("idle", p, 1, {})]
  BY DEF Init
<1>4. \A i \in Installs : install[i] = [phase |-> "idle", process |-> p, artifact |-> 1, todo |-> {}]
  BY <1>3 DEF At
<1>5. TypeOK
  <2>1. target \in [Artifacts -> File]
    BY <1>2 DEF File
  <2>2. install \in [Installs -> Install]
    BY <1>1, <1>3 DEF At, Install, Phase
  <2> QED BY <2>1, <2>2 DEF Init, TypeOK, File
<1>6. ASSUME NEW i \in Installs PROVE Progress(i)
  BY <1>4 DEF Progress, Active
<1>7. LastMeansAll
  BY <1>1, <1>2, ConstantsAssumption DEF LastMeansAll, Artifacts
<1>8. Clean
  <2>1. \A a \in Artifacts : target[a] \in {Absent, Whole}
    BY <1>2
  <2>2. Apart /\ Own
    BY <1>4 DEF Apart, Own, Active
  <2>3. Written_by
    BY ConstantsAssumption DEF Init, Written_by
  <2> QED BY <2>1, <2>2, <2>3 DEF Clean
<1> QED BY <1>5, <1>6, <1>7, <1>8 DEF IInv

LEMMA BeginStep ==
  ASSUME IInv, NEW i \in Installs, NEW p \in Processes, Begin(i, p)
  PROVE  IInv'
<1> DEFINE r == [phase |-> "staging", process |-> p, artifact |-> 1, todo |-> {}]
<1>1. r \in Install /\ 1 \in Artifacts
  BY ConstantsAssumption DEF Install, Phase, Artifacts
<1>2. install' = [install EXCEPT ![i] = r]
  BY DEF Begin, At
<1>3. r.phase = "staging" /\ r.artifact = 1 /\ r.process = p
  OBVIOUS
<1> HIDE DEF r
<1>4. /\ install' \in [Installs -> Install] /\ install'[i] = r
      /\ \A j \in Installs : j # i => install'[j] = install[j]
  BY <1>1, <1>2, Others DEF IInv
<1>5. target' = target /\ old' = old /\ staged' = staged /\ overlap' \in SUBSET Processes
  BY DEF Begin, IInv, TypeOK
<1>6. TypeOK'
  BY <1>4, <1>5 DEF IInv, TypeOK
<1>7. Keeps
  BY <1>5 DEF Keeps
<1>8. Progress(i)'
  BY <1>3, <1>4, <1>5 DEF Progress, Active, Artifacts
<1>9. LastMeansAll'
  BY <1>5, SameNames
<1>10. ASSUME overlap' = {} PROVE Clean'
  <2>1. /\ overlap = {}
        /\ \A j \in Installs : j # i /\ install[j].phase \in Active => install[j].process # p
    BY <1>10 DEF Begin
  <2>2. Clean
    BY <2>1 DEF IInv
  <2>3. \A a \in Artifacts : target'[a] \in {Absent, Whole}
    BY <2>2, <1>5 DEF Clean
  <2>4. \A a \in Artifacts, q \in Processes : staged'[a][q] # i
    <3>1. install[i].phase # "writing"
      BY DEF Begin, Active
    <3> QED BY <3>1, <2>2, <1>5 DEF Clean, Written_by
  <2> QED BY <1>3, <1>4, <1>5, <2>1, <2>2, <2>3, <2>4, CleanStep DEF IInv
<1> QED BY <1>4, <1>6, <1>7, <1>8, <1>9, <1>10, StepOf

\* An install that stays with its process stays apart from the others.
LEMMA StaysApart ==
  ASSUME Clean, NEW i \in Installs, install[i].phase \in Active,
         install'[i].process = install[i].process
  PROVE  \A j \in Installs : j # i /\ install[j].phase \in Active
                               => install[j].process # install'[i].process
BY DEF Clean, Apart

LEMMA OpenStep ==
  ASSUME IInv, NEW i \in Installs, Open(i)
  PROVE  IInv'
<1>1. "writing" \in Phase /\ {} \in SUBSET Superseded /\ i \in File /\ TypeOK
  BY DEF Phase, File, IInv
<1>2. /\ install' \in [Installs -> Install]
      /\ install'[i].phase = "writing"
      /\ install'[i].process = install[i].process
      /\ install'[i].artifact = install[i].artifact
      /\ \A j \in Installs : j # i => install'[j] = install[j]
  BY <1>1, Moves DEF Open
<1>3. /\ staged' \in [Artifacts -> [Processes -> File]]
      /\ staged'[install[i].artifact][install[i].process] = i
      /\ \A a \in Artifacts, p \in Processes :
           a # install[i].artifact \/ p # install[i].process
             => staged'[a][p] = staged[a][p]
  BY <1>1, Stages DEF Open
<1>4. target' = target /\ old' = old /\ overlap' = overlap /\ install[i].phase = "staging"
  BY DEF Open
<1>5. TypeOK'
  BY <1>2, <1>3, <1>4 DEF IInv, TypeOK
<1>6. Keeps
  BY <1>4 DEF Keeps
<1>7. Progress(i)'
  BY <1>2, <1>4 DEF IInv, Progress, Active
<1>8. LastMeansAll'
  BY <1>4, SameNames
<1>9. ASSUME overlap' = {} PROVE Clean'
  <2>1. Clean
    BY <1>4, <1>9 DEF IInv
  <2>2. \A a \in Artifacts : target'[a] \in {Absent, Whole}
    BY <2>1, <1>4 DEF Clean
  <2>3. install[i].phase \in Active
    BY <1>4 DEF Active
  <2>4. Slot(i)' = i
    BY <1>2, <1>3 DEF Slot
  <2>5. \A a \in Artifacts, p \in Processes :
          staged'[a][p] = staged[a][p] \/ (p = install[i].process /\ staged'[a][p] = i)
    BY <1>3
  <2>6. \A j \in Installs : j # i /\ install[j].phase \in Active
                              => install[j].process # install'[i].process
    BY <1>2, <2>1, <2>3, StaysApart
  <2> QED BY <1>1, <1>2, <2>1, <2>2, <2>3, <2>4, <2>5, <2>6, CleanStep
<1> QED BY <1>2, <1>5, <1>6, <1>7, <1>8, <1>9, StepOf

\* OpenFails, RemoveFails and RenameFails.
LEMMA FailStep ==
  ASSUME IInv, NEW i \in Installs, install[i].phase \in {"staging", "removing", "renaming"},
         Discard(i), Move(i, "failed", {}), UNCHANGED <<target, old, overlap>>
  PROVE  IInv'
<1>1. "failed" \in Phase /\ {} \in SUBSET Superseded /\ Absent \in File /\ TypeOK
  BY DEF Phase, File, IInv
<1>2. /\ install' \in [Installs -> Install]
      /\ install'[i].phase = "failed"
      /\ \A j \in Installs : j # i => install'[j] = install[j]
  BY <1>1, Moves
<1>3. staged' \in [Artifacts -> [Processes -> File]]
  <2>1. CASE UNCHANGED staged
    BY <2>1, <1>1 DEF TypeOK
  <2>2. CASE Stage(i, Absent)
    BY <2>2, <1>1, Stages
  <2> QED BY <2>1, <2>2 DEF Discard
<1>4. \A a \in Artifacts, p \in Processes :
        staged'[a][p] = staged[a][p] \/ (p = install[i].process /\ staged'[a][p] = Absent)
  <2>1. CASE UNCHANGED staged
    BY <2>1
  <2>2. CASE Stage(i, Absent)
    BY <2>2, <1>1, Stages
  <2> QED BY <2>1, <2>2 DEF Discard
<1>5. TypeOK'
  BY <1>1, <1>2, <1>3 DEF TypeOK
<1>6. Keeps
  BY DEF Keeps
<1>7. Progress(i)'
  BY <1>2 DEF Progress, Active
<1>8. LastMeansAll'
  BY SameNames
<1>9. ASSUME overlap' = {} PROVE Clean'
  <2>1. Clean
    BY <1>9 DEF IInv
  <2>2. \A a \in Artifacts : target'[a] \in {Absent, Whole}
    BY <2>1 DEF Clean
  <2>3. install[i].phase \in Active /\ install'[i].phase \notin Active
    BY <1>2 DEF Active
  <2>4. \A a \in Artifacts, p \in Processes : staged'[a][p] # i /\ Absent \notin Installs
    BY <1>4, <2>1, ConstantsAssumption DEF Clean, Written_by
  <2> QED BY <1>1, <1>2, <1>4, <2>1, <2>2, <2>3, <2>4, CleanStep
<1> QED BY <1>2, <1>5, <1>6, <1>7, <1>8, <1>9, StepOf

\* The steps in which the file that i writes is closed.
LEMMA CloseKeeps ==
  ASSUME IInv, NEW i \in Installs, NEW as \in {Whole, Cut}, install[i].phase = "writing",
         Close(i, as), UNCHANGED <<old, overlap>>, overlap' = {}
  PROVE  /\ \A a \in Artifacts : target'[a] \in {Absent, Whole}
         /\ Slot(i) = i
         /\ \A a \in Artifacts, p \in Processes :
              /\ staged'[a][p] # i
              /\ \/ staged'[a][p] = staged[a][p]
                 \/ staged[a][p] = i /\ staged'[a][p] \notin Installs
<1>1. Clean /\ TypeOK
  BY DEF IInv
<1>2. \A a \in Artifacts : target[a] # i
  BY <1>1, ConstantsAssumption DEF Clean
<1>3. as \notin Installs
  BY ConstantsAssumption
<1>4. \A a \in Artifacts : target'[a] = target[a]
  BY <1>1, <1>2, Closes
<1>5. ASSUME NEW a \in Artifacts, NEW p \in Processes
      PROVE  /\ staged'[a][p] # i
             /\ staged[a][p] # i => staged'[a][p] = staged[a][p]
             /\ staged[a][p] = i => staged'[a][p] = as
  <2>1. staged'[a][p] = IF staged[a][p] = i THEN as ELSE staged[a][p]
    BY DEF Close, Closed
  <2> QED BY <2>1, <1>3
<1> QED BY <1>1, <1>3, <1>4, <1>5 DEF Clean, Own

LEMMA WrittenStep ==
  ASSUME IInv, NEW i \in Installs, Written(i)
  PROVE  IInv'
<1> DEFINE todo == Supersedes(install[i].artifact)
           phase == IF todo = {} THEN "renaming" ELSE "removing"
<1>1. /\ TypeOK /\ install[i].phase = "writing" /\ Close(i, Whole)
      /\ Move(i, phase, todo) /\ UNCHANGED <<old, overlap>>
  BY DEF Written, IInv
<1>2. phase \in Phase /\ todo \in SUBSET Superseded
  BY DEF Phase, Supersedes
<1>3. /\ install' \in [Installs -> Install]
      /\ install'[i].phase = phase /\ install'[i].todo = todo
      /\ install'[i].process = install[i].process
      /\ install'[i].artifact = install[i].artifact
      /\ \A j \in Installs : j # i => install'[j] = install[j]
  <2> HIDE DEF phase, todo
  <2> QED BY <1>1, <1>2, Moves
<1>4. /\ target' \in [Artifacts -> File]
      /\ staged' \in [Artifacts -> [Processes -> File]]
      /\ \A a \in Artifacts : target'[a] = Absent <=> target[a] = Absent
      /\ \A a \in Artifacts, p \in Processes : staged[a][p] = i => staged'[a][p] = Whole
  BY <1>1, Closes
<1>5. TypeOK'
  BY <1>1, <1>3, <1>4 DEF TypeOK
<1>6. Keeps
  BY <1>1, <1>4 DEF Keeps
<1>7. install[i].artifact \in Artifacts /\ install[i].process \in Processes
  BY <1>1 DEF TypeOK, Install
<1>8. Progress(i)'
  <2>1. install[i].phase \in Active
    BY <1>1 DEF Active
  <2>2. /\ install[i].artifact # 1 => old = {}
        /\ \A a \in Artifacts : a < install[i].artifact => target[a] # Absent
    BY <2>1 DEF IInv, Progress
  <2>3. /\ todo # {} => install[i].artifact = 1 /\ todo = Superseded
        /\ todo = {} /\ install[i].artifact = 1 => Superseded = {}
    BY DEF Supersedes
  <2>4. old \subseteq Superseded /\ old' = old
    BY <1>1 DEF TypeOK
  <2>5. (phase = "renaming" /\ todo = {}) \/ (phase = "removing" /\ todo # {})
    OBVIOUS
  <2> HIDE DEF phase, todo
  <2>6. /\ phase = "removing" => install[i].artifact = 1 /\ old' \subseteq todo
        /\ phase = "renaming" => old' = {}
        /\ install[i].artifact # 1 => old' = {}
        /\ phase # "done"
    BY <2>2, <2>3, <2>4, <2>5
  <2> QED BY <1>3, <1>4, <2>2, <2>6 DEF Progress
<1>9. LastMeansAll'
  BY <1>4, SameNames
<1>10. ASSUME overlap' = {} PROVE Clean'
  <2>1. Clean
    BY <1>1, <1>10 DEF IInv
  <2>2. /\ \A a \in Artifacts : target'[a] \in {Absent, Whole}
        /\ Slot(i) = i
        /\ \A a \in Artifacts, p \in Processes :
             /\ staged'[a][p] # i
             /\ \/ staged'[a][p] = staged[a][p]
                \/ staged[a][p] = i /\ staged'[a][p] \notin Installs
    BY <1>1, <1>10, CloseKeeps
  <2>3. Slot(i)' = Whole
    BY <1>3, <1>4, <1>7, <2>2 DEF Slot
  <2>4. phase # "writing" /\ install[i].phase \in Active
    BY <1>1 DEF Active
  <2>5. \A j \in Installs : j # i /\ install[j].phase \in Active
                              => install[j].process # install'[i].process
    BY <1>3, <2>1, <2>4, StaysApart
  <2> HIDE DEF phase, todo
  <2> QED BY <1>1, <1>3, <2>1, <2>2, <2>3, <2>4, <2>5, CleanStep
<1> QED BY <1>3, <1>5, <1>6, <1>8, <1>9, <1>10, StepOf

LEMMA WriteFailsStep ==
  ASSUME IInv, NEW i \in Installs, WriteFails(i)
  PROVE  IInv'
<1>1. /\ TypeOK /\ install[i].phase = "writing" /\ Close(i, Cut)
      /\ Move(i, "failed", {}) /\ UNCHANGED <<old, overlap>>
  BY DEF WriteFails, IInv
<1>2. "failed" \in Phase /\ {} \in SUBSET Superseded
  BY DEF Phase
<1>3. /\ install' \in [Installs -> Install]
      /\ install'[i].phase = "failed"
      /\ \A j \in Installs : j # i => install'[j] = install[j]
  BY <1>1, <1>2, Moves
<1>4. /\ target' \in [Artifacts -> File]
      /\ staged' \in [Artifacts -> [Processes -> File]]
      /\ \A a \in Artifacts : target'[a] = Absent <=> target[a] = Absent
  BY <1>1, Closes
<1>5. TypeOK'
  BY <1>1, <1>3, <1>4 DEF TypeOK
<1>6. Keeps
  BY <1>1, <1>4 DEF Keeps
<1>7. Progress(i)'
  BY <1>3 DEF Progress, Active
<1>8. LastMeansAll'
  BY <1>4, SameNames
<1>9. ASSUME overlap' = {} PROVE Clean'
  <2>1. Clean
    BY <1>1, <1>9 DEF IInv
  <2>2. /\ \A a \in Artifacts : target'[a] \in {Absent, Whole}
        /\ \A a \in Artifacts, p \in Processes :
             /\ staged'[a][p] # i
             /\ \/ staged'[a][p] = staged[a][p]
                \/ staged[a][p] = i /\ staged'[a][p] \notin Installs
    BY <1>1, <1>9, CloseKeeps
  <2>3. install'[i].phase \notin Active
    BY <1>3 DEF Active
  <2> QED BY <1>1, <1>3, <2>1, <2>2, <2>3, CleanStep
<1> QED BY <1>3, <1>5, <1>6, <1>7, <1>8, <1>9, StepOf

LEMMA RemoveStep ==
  ASSUME IInv, NEW i \in Installs, NEW file \in Superseded, Remove(i, file)
  PROVE  IInv'
<1> DEFINE todo == install[i].todo \ {file}
           phase == IF todo = {} THEN "renaming" ELSE "removing"
<1>1. /\ TypeOK /\ install[i].phase = "removing" /\ old' = old \ {file}
      /\ Move(i, phase, todo) /\ UNCHANGED <<target, staged, overlap>>
  BY DEF Remove, IInv
<1>2. phase \in Phase /\ todo \in SUBSET Superseded
  BY <1>1 DEF Phase, TypeOK, Install
<1>3. /\ install' \in [Installs -> Install]
      /\ install'[i].phase = phase /\ install'[i].todo = todo
      /\ install'[i].process = install[i].process
      /\ install'[i].artifact = install[i].artifact
      /\ \A j \in Installs : j # i => install'[j] = install[j]
  <2> HIDE DEF phase, todo
  <2> QED BY <1>1, <1>2, Moves
<1>4. TypeOK'
  BY <1>1, <1>3 DEF TypeOK
<1>5. Keeps
  BY <1>1 DEF Keeps
<1>6. Progress(i)'
  <2>1. install[i].phase \in Active
    BY <1>1 DEF Active
  <2>2. /\ install[i].artifact = 1 /\ old \subseteq install[i].todo
        /\ \A a \in Artifacts : a < install[i].artifact => target[a] # Absent
    BY <1>1, <2>1 DEF IInv, Progress
  <2>3. old' \subseteq todo
    BY <1>1, <2>2
  <2>4. (phase = "renaming" /\ todo = {}) \/ (phase = "removing" /\ todo # {})
    OBVIOUS
  <2> HIDE DEF phase, todo
  <2> QED BY <1>1, <1>3, <2>2, <2>3, <2>4 DEF Progress
<1>7. LastMeansAll'
  BY <1>1, SameNames
<1>8. ASSUME overlap' = {} PROVE Clean'
  <2>1. Clean
    BY <1>1, <1>8 DEF IInv
  <2>2. \A a \in Artifacts : target'[a] \in {Absent, Whole}
    BY <1>1, <2>1 DEF Clean
  <2>3. Slot(i)' = Whole
    BY <1>1, <1>3, <2>1 DEF Clean, Own, Slot
  <2>4. phase # "writing" /\ install[i].phase \in Active
    BY <1>1 DEF Active
  <2>5. \A j \in Installs : j # i /\ install[j].phase \in Active
                              => install[j].process # install'[i].process
    BY <1>3, <2>1, <2>4, StaysApart
  <2>6. \A a \in Artifacts, p \in Processes : staged'[a][p] = staged[a][p] /\ staged'[a][p] # i
    BY <1>1, <2>1 DEF Clean, Written_by
  <2> HIDE DEF phase, todo
  <2> QED BY <1>1, <1>3, <2>1, <2>2, <2>3, <2>4, <2>5, <2>6, CleanStep
<1> QED BY <1>3, <1>4, <1>5, <1>6, <1>7, <1>8, StepOf

\* Where GoOn takes an install.
LEMMA GoesOn ==
  ASSUME TypeOK, NEW i \in Installs, GoOn(i)
  PROVE  /\ install' \in [Installs -> Install]
         /\ install'[i].process = install[i].process
         /\ \/ /\ install[i].artifact < Last /\ install'[i].phase = "staging"
               /\ install'[i].artifact = install[i].artifact + 1
            \/ install[i].artifact = Last /\ install'[i].phase = "done"
         /\ \A j \in Installs : j # i => install'[j] = install[j]
<1>1. install[i] \in Install /\ install[i].artifact \in 1 .. Last /\ Last \in Nat
  BY ConstantsAssumption DEF TypeOK, Install, Artifacts
<1>2. CASE install[i].artifact < Last
  <2> DEFINE r == [phase |-> "staging", process |-> install[i].process,
                   artifact |-> install[i].artifact + 1, todo |-> {}]
  <2>1. r \in Install
    BY <1>1, <1>2 DEF Install, Phase, Artifacts
  <2>2. install' = [install EXCEPT ![i] = r]
    BY <1>2 DEF GoOn, At
  <2> HIDE DEF r
  <2>3. /\ install' \in [Installs -> Install] /\ install'[i] = r
        /\ \A j \in Installs : j # i => install'[j] = install[j]
    BY <2>1, <2>2, Others
  <2> QED BY <1>2, <2>3 DEF r
<1>3. CASE ~(install[i].artifact < Last)
  <2> DEFINE r == [phase |-> "done", process |-> install[i].process,
                   artifact |-> install[i].artifact, todo |-> {}]
  <2>1. r \in Install
    BY <1>1 DEF Install, Phase, Artifacts
  <2>2. install' = [install EXCEPT ![i] = r]
    BY <1>3 DEF GoOn, At
  <2>3. install[i].artifact = Last
    BY <1>1, <1>3
  <2> HIDE DEF r
  <2>4. /\ install' \in [Installs -> Install] /\ install'[i] = r
        /\ \A j \in Installs : j # i => install'[j] = install[j]
    BY <2>1, <2>2, Others
  <2> QED BY <2>3, <2>4 DEF r
<1> QED BY <1>2, <1>3

LEMMA RenameStep ==
  ASSUME IInv, NEW i \in Installs, Rename(i)
  PROVE  IInv'
<1> DEFINE a == install[i].artifact
           p == install[i].process
           file == staged[a][p]
<1>1. /\ TypeOK /\ install[i].phase = "renaming" /\ file # Absent
      /\ target' = [target EXCEPT ![a] = file]
      /\ Stage(i, Absent) /\ GoOn(i) /\ UNCHANGED <<old, overlap>>
  BY DEF Rename, IInv
<1>2. a \in Artifacts /\ p \in Processes /\ file \in File
  BY <1>1 DEF TypeOK, Install
<1>3. /\ install' \in [Installs -> Install]
      /\ install'[i].process = p
      /\ \/ a < Last /\ install'[i].phase = "staging" /\ install'[i].artifact = a + 1
         \/ a = Last /\ install'[i].phase = "done"
      /\ \A j \in Installs : j # i => install'[j] = install[j]
  BY <1>1, GoesOn
<1>4. /\ staged' \in [Artifacts -> [Processes -> File]]
      /\ staged'[a][p] = Absent
      /\ \A b \in Artifacts, q \in Processes : b # a \/ q # p => staged'[b][q] = staged[b][q]
  <2>1. Absent \in File
    BY DEF File
  <2> QED BY <1>1, <2>1, Stages
<1>5. /\ target' \in [Artifacts -> File]
      /\ target'[a] = file
      /\ \A b \in Artifacts : b # a => target'[b] = target[b]
  BY <1>1, <1>2 DEF TypeOK
<1>6. TypeOK'
  BY <1>1, <1>3, <1>4, <1>5 DEF TypeOK
<1>7. Keeps
  BY <1>1, <1>5 DEF Keeps
<1>8. /\ old = {}
      /\ \A b \in Artifacts : b < a => target[b] # Absent
  <2>1. install[i].phase \in Active
    BY <1>1 DEF Active
  <2> QED BY <1>1, <2>1 DEF IInv, Progress
<1> HIDE DEF a, p, file
<1>9. Progress(i)'
  <2>1. \A b \in Artifacts : b < a + 1 => target'[b] # Absent
    <3>1. ASSUME NEW b \in Artifacts, b < a + 1 PROVE b = a \/ b < a
      BY <1>2, <3>1, ConstantsAssumption DEF Artifacts
    <3>2. ASSUME NEW b \in Artifacts, b < a + 1 PROVE target'[b] # Absent
      BY <3>1, <3>2, <1>1, <1>2, <1>5, <1>8
    <3> QED BY <3>2
  <2>2. CASE install'[i].phase = "staging" /\ install'[i].artifact = a + 1
    BY <1>1, <1>8, <2>1, <2>2 DEF Progress
  <2>3. CASE install'[i].phase = "done" /\ a = Last
    BY <1>1, <1>2, <1>5, <1>8, <2>3 DEF Progress, Active
  <2> QED BY <1>3, <2>2, <2>3
<1>10. LastMeansAll'
  <2>1. Last \in Artifacts /\ \A b \in Artifacts : b = Last \/ b < Last
    BY ConstantsAssumption DEF Artifacts
  <2>2. CASE a = Last
    BY <1>1, <1>2, <1>5, <1>8, <2>1, <2>2 DEF LastMeansAll
  <2>3. CASE a # Last
    BY <1>1, <1>2, <1>5, <2>1, <2>3 DEF LastMeansAll, IInv
  <2> QED BY <2>2, <2>3
<1>11. ASSUME overlap' = {} PROVE Clean'
  <2>1. Clean
    BY <1>1, <1>11 DEF IInv
  <2>2. file = Whole
    BY <1>1, <2>1 DEF Clean, Own, Slot, file, a, p
  <2>3. \A b \in Artifacts : target'[b] \in {Absent, Whole}
    BY <1>5, <2>1, <2>2 DEF Clean
  <2>4. install[i].phase \in Active
    BY <1>1 DEF Active
  <2>5. \A j \in Installs : j # i /\ install[j].phase \in Active
                              => install[j].process # install'[i].process
    BY <1>3, <2>1, <2>4, StaysApart DEF p
  <2>6. \A b \in Artifacts, q \in Processes :
          /\ staged'[b][q] # i
          /\ \/ staged'[b][q] = staged[b][q]
             \/ q = install[i].process /\ staged'[b][q] \notin Installs
    <3>1. \A b \in Artifacts, q \in Processes : staged[b][q] # i
      BY <1>1, <2>1 DEF Clean, Written_by
    <3>2. Absent \notin Installs
      BY ConstantsAssumption
    <3> QED BY <1>4, <3>1, <3>2 DEF p
  <2>7. install'[i].phase \notin {"writing", "removing", "renaming"}
    BY <1>3
  <2> QED BY <1>1, <1>3, <2>1, <2>3, <2>4, <2>5, <2>6, <2>7, CleanStep
<1> QED BY <1>3, <1>6, <1>7, <1>9, <1>10, <1>11, StepOf

LEMMA CrashStep ==
  ASSUME IInv, NEW i \in Installs, Crash(i)
  PROVE  IInv'
<1> DEFINE dead == Dies(i)
<1>1. 1 \in Artifacts /\ TypeOK /\ Last \in Artifacts
  BY ConstantsAssumption DEF Artifacts, IInv
<1>2. old' = old /\ overlap' = overlap
  BY DEF Crash
<1>3. \A b \in Artifacts :
        target[b] \in File /\ target'[b] = IF target[b] \in dead THEN Cut ELSE target[b]
  BY <1>1 DEF Crash, Broken, TypeOK
<1>4. \A b \in Artifacts, p \in Processes :
        /\ staged[b][p] \in File
        /\ staged'[b][p] = IF staged[b][p] \in dead THEN Cut ELSE staged[b][p]
  BY <1>1 DEF Crash, Broken, TypeOK
<1>5. Cut \in File /\ Cut # Absent /\ Absent \notin dead /\ Whole \notin dead /\ Cut \notin Installs
  BY ConstantsAssumption DEF File, Dies
<1>6. ASSUME NEW j \in Installs
      PROVE  /\ install'[j] \in Install
             /\ j \in dead => install'[j].phase = "idle"
             /\ j \notin dead => install'[j] = install[j]
  <2> DEFINE r == [phase |-> "idle", process |-> install[j].process, artifact |-> 1, todo |-> {}]
  <2>1. install'[j] = IF j \in dead THEN r ELSE install[j]
    BY DEF Crash, At
  <2>2. install[j] \in Install
    BY <1>1 DEF TypeOK
  <2>3. r \in Install /\ r.phase = "idle"
    BY <1>1, <2>2 DEF Install, Phase
  <2> HIDE DEF r, dead
  <2> QED BY <2>1, <2>2, <2>3
<1>7. TypeOK'
  <2>1. target' \in [Artifacts -> File]
    BY <1>3, <1>5 DEF Crash, Broken
  <2>2. staged' \in [Artifacts -> [Processes -> File]]
    BY <1>4, <1>5 DEF Crash, Broken
  <2>3. install' \in [Installs -> Install]
    BY <1>6 DEF Crash
  <2> QED BY <1>1, <1>2, <2>1, <2>2, <2>3 DEF TypeOK
<1>8. Keeps
  BY <1>2, <1>3, <1>5 DEF Keeps
<1> HIDE DEF dead
<1>9. ASSUME NEW j \in Installs PROVE Progress(j)'
  <2>1. CASE j \in dead
    BY <1>6, <2>1 DEF Progress, Active
  <2>2. CASE j \notin dead
    BY <1>1, <1>6, <1>8, <2>2, Unmoved DEF IInv
  <2> QED BY <2>1, <2>2
<1>10. LastMeansAll'
  <2>1. \A b \in Artifacts : target'[b] = Absent <=> target[b] = Absent
    BY <1>3, <1>5
  <2> QED BY <2>1, SameNames
<1>11. ASSUME overlap' = {} PROVE Clean'
  <2>1. Clean
    BY <1>2, <1>11 DEF IInv
  <2>2. \A b \in Artifacts : target'[b] \in {Absent, Whole}
    BY <1>3, <1>5, <2>1 DEF Clean
  <2>3. Apart'
    BY <1>6, <2>1 DEF Clean, Apart, Active
  <2>4. Own'
    <3>1. ASSUME NEW j \in Installs, install'[j].phase \in {"writing", "removing", "renaming"}
          PROVE  /\ j \notin dead /\ install'[j] = install[j]
                 /\ install'[j].phase = "writing" => Slot(j)' = j
                 /\ install'[j].phase \in {"removing", "renaming"} => Slot(j)' = Whole
      <4>1. j \notin dead /\ install'[j] = install[j]
        BY <1>6, <3>1
      <4>2. install[j].artifact \in Artifacts /\ install[j].process \in Processes
        BY <1>1 DEF TypeOK, Install
      <4>3. /\ install[j].phase = "writing" => Slot(j) = j
            /\ install[j].phase \in {"removing", "renaming"} => Slot(j) = Whole
        BY <2>1 DEF Clean, Own
      <4>4. Slot(j)' = IF Slot(j) \in dead THEN Cut ELSE Slot(j)
        BY <1>4, <4>1, <4>2 DEF Slot
      <4> QED BY <1>5, <3>1, <4>1, <4>3, <4>4
    <3> QED BY <3>1 DEF Own
  <2>5. Written_by'
    <3> SUFFICES ASSUME NEW b \in Artifacts, NEW p \in Processes, NEW j \in Installs,
                        staged'[b][p] = j
                 PROVE  install'[j].phase = "writing"
      BY DEF Written_by
    <3>1. staged[b][p] = j /\ j \notin dead
      BY <1>4, <1>5
    <3> QED BY <1>6, <2>1, <3>1 DEF Clean, Written_by
  <2> QED BY <2>2, <2>3, <2>4, <2>5 DEF Clean
<1> QED BY <1>7, <1>9, <1>10, <1>11 DEF IInv

---------------------------------------------------------------------------
LEMMA Inductive == IInv /\ [Next]_vars => IInv'
<1> SUFFICES ASSUME IInv, [Next]_vars PROVE IInv'
  OBVIOUS
<1>1. CASE UNCHANGED vars
  BY <1>1 DEF IInv, TypeOK, Progress, LastMeansAll, Clean, Apart, Own, Written_by, Slot, vars
<1>2. ASSUME NEW i \in Installs, NEW p \in Processes, Begin(i, p) PROVE IInv'
  BY <1>2, BeginStep
<1>3. ASSUME NEW i \in Installs, NEW file \in Superseded, Remove(i, file) PROVE IInv'
  BY <1>3, RemoveStep
<1>4. ASSUME NEW i \in Installs, Open(i) PROVE IInv'
  BY <1>4, OpenStep
<1>5. ASSUME NEW i \in Installs, OpenFails(i) PROVE IInv'
  BY <1>5, FailStep DEF OpenFails, Discard
<1>6. ASSUME NEW i \in Installs, Written(i) PROVE IInv'
  BY <1>6, WrittenStep
<1>7. ASSUME NEW i \in Installs, WriteFails(i) PROVE IInv'
  BY <1>7, WriteFailsStep
<1>8. ASSUME NEW i \in Installs, RemoveFails(i) PROVE IInv'
  BY <1>8, FailStep DEF RemoveFails
<1>9. ASSUME NEW i \in Installs, Rename(i) PROVE IInv'
  BY <1>9, RenameStep
<1>10. ASSUME NEW i \in Installs, RenameFails(i) PROVE IInv'
  BY <1>10, FailStep DEF RenameFails
<1>11. ASSUME NEW i \in Installs, Crash(i) PROVE IInv'
  BY <1>11, CrashStep
<1> QED
  BY <1>1, <1>2, <1>3, <1>4, <1>5, <1>6, <1>7, <1>8, <1>9, <1>10, <1>11 DEF Next

\* What the installs have made sure of holds in every reachable state.
THEOREM Invariance == Spec => []IInv
BY InitHolds, Inductive, PTL DEF Spec

\* The variables keep their types.
THEOREM TypeCorrect == Spec => []TypeOK
<1>1. IInv => TypeOK
  BY DEF IInv
<1> QED BY <1>1, Invariance, PTL

\* A session loads no half-written file, unless one process had two installs at
\* a time.
THEOREM LoadedAreWhole == Spec => []LoadedIsWhole
<1>1. IInv => LoadedIsWhole
  BY DEF IInv, Clean, LoadedIsWhole
<1> QED BY <1>1, Invariance, PTL

\* Where the last artifact is, all are: through failures, crashes and installs
\* that overlap.
THEOREM LastMeansEverything == Spec => []LastMeansAll
<1>1. IInv => LastMeansAll
  BY DEF IInv
<1> QED BY <1>1, Invariance, PTL

\* An install that reports success left its artifacts and nothing they replace.
THEOREM DoneAreSole == Spec => []DoneIsSole
<1>1. IInv => DoneIsSole
  BY DEF IInv, Progress, DoneIsSole
<1> QED BY <1>1, Invariance, PTL

---------------------------------------------------------------------------
\* Where superseded files only go and the first artifact's name stays as it is,
\* no session loads more than before.
LEMMA NoGain ==
  ASSUME TypeOK, old' \subseteq old, target'[1] = Absent <=> target[1] = Absent
  PROVE  ~(Readers' > Readers)
<1>1. IsFiniteSet(old)
  BY ConstantsAssumption, FS_Subset DEF TypeOK
<1>2. /\ Cardinality(old) \in Nat /\ Cardinality(old') \in Nat
      /\ Cardinality(old') <= Cardinality(old)
  BY <1>1, FS_Subset, FS_CardinalityType
<1> QED BY <1>2 DEF Readers

\* The first artifact gets its name where nothing is left that it supersedes.
LEMMA SoleReader ==
  ASSUME old' = {}, target'[1] # Absent
  PROVE  Readers' = 1
<1>1. Cardinality({}) = 0
  BY FS_EmptySet
<1> QED BY <1>1 DEF Readers

LEMMA ReadersStep ==
  IInv /\ [Next]_vars => (Readers' > Readers => Readers' = 1)
<1> SUFFICES ASSUME IInv, [Next]_vars PROVE Readers' > Readers => Readers' = 1
  OBVIOUS
<1>1. TypeOK /\ 1 \in Artifacts
  BY ConstantsAssumption DEF IInv, Artifacts
<1>2. CASE UNCHANGED <<target, old>>
  BY <1>1, <1>2, NoGain
<1>3. ASSUME NEW i \in Installs, NEW file \in Superseded, Remove(i, file)
      PROVE  old' \subseteq old /\ target' = target
  BY <1>3 DEF Remove
<1>4. ASSUME NEW i \in Installs, Written(i) \/ WriteFails(i)
      PROVE  old' = old /\ (target'[1] = Absent <=> target[1] = Absent)
  BY <1>1, <1>4, Closes DEF Written, WriteFails
<1>5. ASSUME NEW i \in Installs, Crash(i)
      PROVE  old' = old /\ (target'[1] = Absent <=> target[1] = Absent)
  <2>1. target'[1] = IF target[1] \in Dies(i) THEN Cut ELSE target[1]
    BY <1>1, <1>5 DEF Crash, Broken
  <2>2. Cut # Absent /\ Absent \notin Dies(i)
    BY ConstantsAssumption DEF Dies
  <2> QED BY <1>5, <2>1, <2>2 DEF Crash
<1>6. ASSUME NEW i \in Installs, Rename(i)
      PROVE  old' = old /\ (target'[1] = target[1] \/ (old' = {} /\ target'[1] # Absent))
  <2>1. install[i].artifact \in Artifacts
    BY <1>1 DEF TypeOK, Install
  <2>2. old' = old /\ old = {}
    BY <1>6 DEF Rename, IInv, Progress
  <2>3. CASE install[i].artifact = 1
    BY <1>1, <1>6, <2>2, <2>3 DEF Rename, TypeOK
  <2>4. CASE install[i].artifact # 1
    BY <1>1, <1>6, <2>2, <2>4 DEF Rename, TypeOK
  <2> QED BY <2>3, <2>4
<1>7. ASSUME NEW i \in Installs,
             (\E p \in Processes : Begin(i, p)) \/ Open(i) \/ OpenFails(i)
               \/ RemoveFails(i) \/ RenameFails(i)
      PROVE  UNCHANGED <<target, old>>
  BY <1>7 DEF Begin, Open, OpenFails, RemoveFails, RenameFails
<1>8. \/ UNCHANGED <<target, old>>
      \/ old' \subseteq old /\ (target'[1] = Absent <=> target[1] = Absent)
      \/ old' = {} /\ target'[1] # Absent
  <2>1. CASE UNCHANGED vars
    BY <2>1 DEF vars
  <2>2. CASE Next
    BY <2>2, <1>3, <1>4, <1>5, <1>6, <1>7 DEF Next
  <2> QED BY <2>1, <2>2
<1> QED BY <1>1, <1>2, <1>8, NoGain, SoleReader

\* No step of any install brings a session a second extension, for any number
\* of superseded files, of processes and of installs that overlap.
THEOREM NoSecondReaderEver == Spec => NoSecondReader
<1>1. IInv /\ [Next]_vars => [Readers' > Readers => Readers' = 1]_vars
  BY ReadersStep
<1> QED BY <1>1, Invariance, PTL DEF Spec, NoSecondReader
=============================================================================
