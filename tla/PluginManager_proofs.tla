------------------------- MODULE PluginManager_proofs -------------------------
(***************************************************************************)
(* Proofs about the two parts that deal with Codex itself: what the plugin *)
(* manager does to it (PluginManager), and the rollout that a request of   *)
(* its is filed under (CodexSelect).                                       *)
(*                                                                         *)
(* A run of the manager that nobody interferes with knows more than the    *)
(* answers it gets say: from the moment it goes on to install, the name    *)
(* points at its own root, what was installed when it began is installed   *)
(* still, and once it has uninstalled there is nothing left to be taken    *)
(* for its own.                                                            *)
(*                                                                         *)
(* Whatever a request holds on to, over all its polls, suits it by itself  *)
(* (Suits): it is the named rollout's, and unless it is by recency alone   *)
(* it is of the request's process.  A rung may weaken the evidence, but    *)
(* not this; and a request waits only if it says whose it is (Waits).      *)
(***************************************************************************)
EXTENDS PluginManager, CodexSelect, TLAPS

---------------------------------------------------------------------------
(* The plugin manager (PluginManager).                                     *)

\* The name points at the client's root before a plugin is added from it.
Points == alone /\ step \in {"install", "uninstall", "reinstall"} => source = Ours

\* What was installed stays until the client itself takes it away.
Keeps ==
  /\ alone /\ step \in {"register", "remove", "readd", "install", "uninstall"} =>
       installed = before
  /\ alone /\ step = "reinstall" => installed = None

IInv == TypeOK /\ Points /\ Keeps /\ ConfirmedIsDelivered /\ FailedKeepsInstalled

---------------------------------------------------------------------------
(* What a command does, and what its answer tells.                         *)

CodexTypes ==
  /\ recopies \in BOOLEAN /\ source \in Roots \cup {None} /\ installed \in Copies \cup {None}
  /\ disabled \in BOOLEAN /\ present \in BOOLEAN /\ calm \in BOOLEAN

LEMMA CopyIs ==
  ASSUME TypeOK, NEW root \in Roots
  PROVE  Copy(root) \in Copies /\ Copy(root) # None
<1>1. (IF root = Ours THEN tree ELSE 1) \in 1 .. Releases
  BY ConstantsAssumption DEF TypeOK
<1>2. Copy(root) \in Copies
  BY <1>1 DEF Copy, Copies
<1> QED BY <1>2, ConstantsAssumption DEF Copies, Roots

LEMMA MarketplaceAddIs ==
  ASSUME TypeOK, NEW root \in Roots, NEW said \in Answers, MarketplaceAdd(root, said)
  PROVE  /\ CodexTypes' /\ installed' = installed
         /\ said \in {"ok", "already"} => source' = root
BY DEF MarketplaceAdd, Unrun, codex, TypeOK, CodexTypes

LEMMA MarketplaceRemoveIs ==
  ASSUME TypeOK, NEW said \in Answers, MarketplaceRemove(said)
  PROVE  CodexTypes' /\ installed' = installed
BY DEF MarketplaceRemove, Unrun, codex, TypeOK, CodexTypes

LEMMA PluginAddIs ==
  ASSUME TypeOK, NEW said \in Answers, PluginAdd(said)
  PROVE  /\ CodexTypes' /\ source' = source
         /\ said = "ok" => source \in Roots /\ installed' = Copy(source) /\ installed' # None
         /\ said = "already" => installed # None
         /\ said # "ok" => installed' = installed
         /\ said # "different"
<1>1. CASE Unrun(said)
  BY <1>1 DEF Unrun, codex, TypeOK, CodexTypes
<1>2. CASE present /\ source = None /\ said = "other" /\ UNCHANGED codex
  BY <1>2 DEF codex, TypeOK, CodexTypes
<1>3. CASE /\ present /\ source # None /\ (installed = None \/ recopies)
           /\ said = "ok"
           /\ installed' = Copy(source) /\ disabled' = FALSE
           /\ UNCHANGED <<recopies, source, present, calm>>
  <2>1. source \in Roots
    BY <1>3 DEF TypeOK
  <2>2. Copy(source) \in Copies /\ Copy(source) # None
    BY <2>1, CopyIs
  <2> QED BY <1>3, <2>1, <2>2 DEF TypeOK, CodexTypes
<1>4. CASE present /\ source # None /\ installed # None /\ ~recopies /\ said = "already"
           /\ UNCHANGED codex
  BY <1>4 DEF codex, TypeOK, CodexTypes
<1> QED BY <1>1, <1>2, <1>3, <1>4 DEF PluginAdd

LEMMA PluginRemoveIs ==
  ASSUME TypeOK, NEW said \in Answers, PluginRemove(said)
  PROVE  /\ CodexTypes' /\ source' = source
         /\ said \in {"ok", "nothing"} => installed' = None
         /\ said \notin {"ok", "nothing"} => installed' = installed
BY DEF PluginRemove, Unrun, codex, TypeOK, CodexTypes

---------------------------------------------------------------------------
(* How a run goes on, and how it ends.                                     *)

LEMMA GoStep ==
  ASSUME IInv, NEW next \in Steps \ {"idle"}, NEW m \in Markets \ {"Failed"},
         Go(next, m), CodexTypes',
         alone /\ next \in {"install", "uninstall", "reinstall"} => source' = Ours,
         alone /\ next # "reinstall" => installed' = before,
         alone /\ next = "reinstall" => installed' = None
  PROVE  IInv'
<1>1. TypeOK'
  BY DEF IInv, TypeOK, CodexTypes, Go
<1>2. Points' /\ Keeps'
  BY DEF Points, Keeps, Go
<1>3. ConfirmedIsDelivered' /\ FailedKeepsInstalled'
  BY DEF ConfirmedIsDelivered, FailedKeepsInstalled, Go
<1> QED BY <1>1, <1>2, <1>3 DEF IInv

LEMMA EndStep ==
  ASSUME IInv, NEW m \in Markets, NEW o \in Outcomes, End(m, o), CodexTypes',
         alone /\ o \in {"Installed", "Refreshed"} => installed' = Copy(Ours),
         alone /\ o \in {"Failed", "Skipped", "CliAbsent"} => installed' = before,
         alone /\ o = "RemovedNotReinstalled" => installed' = None
  PROVE  IInv'
<1>1. tree' = tree /\ step' = "idle" /\ outcome' = o /\ alone' = alone /\ before' = before
      /\ Copy(Ours)' = Copy(Ours)
  BY DEF End, Copy
<1>2. delivered' \in 0 .. Releases /\ delivered' <= tree
  BY ConstantsAssumption DEF End, IInv, TypeOK
<1>3. TypeOK'
  BY <1>1, <1>2 DEF IInv, TypeOK, CodexTypes, End, Steps
<1>4. Points' /\ Keeps'
  BY <1>1 DEF Points, Keeps
<1>5. ConfirmedIsDelivered' /\ FailedKeepsInstalled'
  BY <1>1 DEF ConfirmedIsDelivered, ConfirmedDelivery, FailedKeepsInstalled
<1> QED BY <1>3, <1>4, <1>5 DEF IInv

\* What is not the client's doing ends its being alone.
LEMMA Interfered ==
  ASSUME IInv, TypeOK', alone' = FALSE
  PROVE  IInv'
BY DEF IInv, Points, Keeps, ConfirmedIsDelivered, FailedKeepsInstalled

---------------------------------------------------------------------------
(* The steps of a run.                                                     *)

LEMMA StartStep == ASSUME IInv, Start PROVE IInv'
<1>1. CASE disabled /\ outcome' = "SkippedDisabled" /\ alone' = FALSE
           /\ UNCHANGED <<step, goal, market, before>>
  <2>1. TypeOK'
    BY <1>1 DEF Start, codex, IInv, TypeOK, Outcomes
  <2> QED BY <1>1, <2>1, Interfered
<1>2. CASE ~disabled /\ step' = "register" /\ goal' = Goal /\ market' = "none"
           /\ outcome' = "none" /\ alone' = TRUE /\ before' = installed
  <2>1. TypeOK'
    BY <1>2 DEF Start, codex, IInv, TypeOK, Outcomes, Steps, Goals, Goal, Markets
  <2>2. UNCHANGED <<installed, source>>
    BY DEF Start, codex
  <2> QED BY <1>2, <2>1, <2>2
      DEF IInv, Points, Keeps, ConfirmedIsDelivered, FailedKeepsInstalled
<1> QED BY <1>1, <1>2 DEF Start

LEMMA RegisterStep == ASSUME IInv, Register PROVE IInv'
<1> USE DEF Meaning, SaysAlready, Answers, Steps, Markets, Outcomes, Roots
<1>1. PICK said \in Answers :
        /\ MarketplaceAdd(Ours, said)
        /\ \/ Meaning(said) = "missing" /\ End("none", "CliAbsent")
           \/ Meaning(said) = "ok" /\ Go("install", "Added")
           \/ Meaning(said) = "collision" /\ Go("remove", "none")
           \/ Meaning(said) = "already" /\ Go("install", "AlreadyAdded")
           \/ Meaning(said) \in {"nothing", "other"} /\ End("Failed", "Skipped")
  BY DEF Register
<1>2. TypeOK /\ step = "register"
  BY DEF IInv, Register
<1>3. /\ CodexTypes' /\ installed' = installed
      /\ said \in {"ok", "already"} => source' = Ours
  BY <1>1, <1>2, MarketplaceAddIs
<1>4. alone => installed' = before
  BY <1>2, <1>3 DEF IInv, Keeps
<1>5. CASE End("none", "CliAbsent")
  BY <1>3, <1>4, <1>5, EndStep
<1>6. CASE Meaning(said) = "ok" /\ Go("install", "Added")
  BY <1>3, <1>4, <1>6, GoStep
<1>7. CASE Go("remove", "none")
  BY <1>3, <1>4, <1>7, GoStep
<1>8. CASE Meaning(said) = "already" /\ Go("install", "AlreadyAdded")
  BY <1>3, <1>4, <1>8, GoStep
<1>9. CASE End("Failed", "Skipped")
  BY <1>3, <1>4, <1>9, EndStep
<1> QED BY <1>1, <1>5, <1>6, <1>7, <1>8, <1>9

LEMMA ReplaceStep == ASSUME IInv, Remove \/ ReAdd PROVE IInv'
<1> USE DEF Steps, Markets, Outcomes, Roots
<1>1. TypeOK /\ step \in {"remove", "readd"}
  BY DEF IInv, Remove, ReAdd
<1>2. CASE Remove
  <2>1. PICK said \in Answers :
          /\ MarketplaceRemove(said)
          /\ IF said = "ok" THEN Go("readd", "none") ELSE End("Failed", "Skipped")
    BY <1>2 DEF Remove
  <2>2. CodexTypes' /\ (alone => installed' = before)
    BY <1>1, <2>1, MarketplaceRemoveIs DEF IInv, Keeps
  <2>3. CASE Go("readd", "none")
    BY <2>2, <2>3, GoStep
  <2>4. CASE End("Failed", "Skipped")
    BY <2>2, <2>4, EndStep
  <2> QED BY <2>1, <2>3, <2>4
<1>3. CASE ReAdd
  <2>1. PICK said \in Answers :
          /\ MarketplaceAdd(Ours, said)
          /\ IF said = "ok" THEN Go("install", "Replaced") ELSE End("Failed", "Skipped")
    BY <1>3 DEF ReAdd
  <2>2. /\ CodexTypes' /\ (alone => installed' = before)
        /\ said = "ok" => source' = Ours
    BY <1>1, <2>1, MarketplaceAddIs DEF IInv, Keeps
  <2>3. CASE said = "ok" /\ Go("install", "Replaced")
    BY <2>2, <2>3, GoStep
  <2>4. CASE End("Failed", "Skipped")
    BY <2>2, <2>4, EndStep
  <2> QED BY <2>1, <2>3, <2>4
<1> QED BY <1>2, <1>3

LEMMA InstallStep == ASSUME IInv, Install PROVE IInv'
<1> USE DEF Steps, Markets, Outcomes
<1>1. PICK said \in Answers :
        /\ PluginAdd(said)
        /\ \/ said = "ok" /\ End(market, IF goal = "Refresh" THEN "Refreshed" ELSE "Installed")
           \/ SaysAlready(said) /\ Trusted /\ End(market, "AlreadyInstalled")
           \/ SaysAlready(said) /\ ~Trusted /\ Go("uninstall", market)
           \/ said \in {"missing", "nothing", "other"} /\ End(market, "Failed")
  BY DEF Install
<1>2. /\ TypeOK /\ step = "install" /\ market \in Markets \ {"Failed"}
      /\ alone => source = Ours /\ installed = before
  BY DEF IInv, Install, TypeOK, Points, Keeps
<1>3. /\ CodexTypes' /\ source' = source
      /\ said = "ok" => installed' = Copy(source)
      /\ said # "ok" => installed' = installed
  BY <1>1, <1>2, PluginAddIs
<1>4. CASE said = "ok" /\ End(market, IF goal = "Refresh" THEN "Refreshed" ELSE "Installed")
  <2>1. alone => installed' = Copy(Ours)
    BY <1>2, <1>3, <1>4
  <2>2. CASE goal = "Refresh"
    BY <1>2, <1>3, <1>4, <2>1, <2>2, EndStep
  <2>3. CASE goal # "Refresh"
    BY <1>2, <1>3, <1>4, <2>1, <2>3, EndStep
  <2> QED BY <2>2, <2>3
<1>5. CASE End(market, "AlreadyInstalled")
  BY <1>2, <1>3, <1>5, EndStep
<1>6. CASE SaysAlready(said) /\ Go("uninstall", market)
  <2>1. alone => source' = Ours /\ installed' = before
    BY <1>2, <1>3, <1>6 DEF SaysAlready
  <2> QED BY <1>2, <1>3, <1>6, <2>1, GoStep
<1>7. CASE said \in {"missing", "nothing", "other"} /\ End(market, "Failed")
  <2>1. alone => installed' = before
    BY <1>2, <1>3, <1>7
  <2> QED BY <1>2, <1>3, <1>7, <2>1, EndStep
<1> QED BY <1>1, <1>4, <1>5, <1>6, <1>7

LEMMA RefreshStep == ASSUME IInv, Uninstall \/ Reinstall PROVE IInv'
<1> USE DEF Steps, Markets, Outcomes
<1>1. /\ TypeOK /\ step \in {"uninstall", "reinstall"} /\ market \in Markets \ {"Failed"}
      /\ alone => source = Ours
      /\ alone /\ step = "uninstall" => installed = before
      /\ alone /\ step = "reinstall" => installed = None
  BY DEF IInv, Uninstall, Reinstall, TypeOK, Points, Keeps
<1>2. CASE Uninstall
  <2>1. PICK said \in Answers :
          /\ PluginRemove(said)
          /\ IF said \in {"ok", "nothing"} THEN Go("reinstall", market) ELSE End(market, "Failed")
    BY <1>2 DEF Uninstall
  <2>2. /\ CodexTypes' /\ source' = source
        /\ said \in {"ok", "nothing"} => installed' = None
        /\ said \notin {"ok", "nothing"} /\ alone => installed' = before
    BY <1>1, <1>2, <2>1, PluginRemoveIs DEF Uninstall
  <2>3. CASE said \in {"ok", "nothing"} /\ Go("reinstall", market)
    BY <1>1, <2>2, <2>3, GoStep
  <2>4. CASE said \notin {"ok", "nothing"} /\ End(market, "Failed")
    BY <1>1, <2>2, <2>4, EndStep
  <2> QED BY <2>1, <2>3, <2>4
<1>3. CASE Reinstall
  <2>1. PICK said \in Answers : PluginAdd(said) /\ End(market, Reinstalled(said))
    BY <1>3 DEF Reinstall
  <2>2. /\ CodexTypes'
        /\ said = "ok" => installed' = Copy(source)
        /\ said = "already" => installed # None
        /\ said # "ok" => installed' = installed
        /\ said # "different"
    BY <1>1, <2>1, PluginAddIs
  <2>3. CASE said = "ok"
    <3>1. Reinstalled(said) = "Refreshed"
      BY <2>3 DEF Reinstalled
    <3> QED BY <1>1, <2>1, <2>2, <2>3, <3>1, EndStep
  <2>4. CASE said = "already"
    <3>1. Reinstalled(said) = "Failed" /\ ~alone
      BY <1>1, <1>3, <2>2, <2>4 DEF Reinstalled, SaysAlready, Reinstall
    <3> QED BY <1>1, <2>1, <2>2, <3>1, EndStep
  <2>5. CASE said \notin {"ok", "already"}
    <3>1. Reinstalled(said) = "RemovedNotReinstalled" /\ (alone => installed' = None)
      BY <1>1, <1>3, <2>2, <2>5 DEF Reinstalled, SaysAlready, Reinstall
    <3> QED BY <1>1, <2>1, <2>2, <3>1, EndStep
  <2> QED BY <2>3, <2>4, <2>5
<1> QED BY <1>2, <1>3

---------------------------------------------------------------------------
(* Everything else.                                                        *)

LEMMA OthersStep == ASSUME IInv, Others PROVE IInv'
<1>1. alone' = FALSE /\ UNCHANGED <<tree, delivered, step, goal, market, outcome, before>>
  BY DEF Others
<1>2. CodexTypes'
  <2>1. ASSUME NEW said \in Answers,
               \/ MarketplaceAdd(Theirs, said) \/ MarketplaceRemove(said)
               \/ PluginAdd(said) \/ PluginRemove(said)
        PROVE  CodexTypes'
    <3>1. TypeOK /\ Theirs \in Roots
      BY DEF IInv, Roots
    <3> QED BY <2>1, <3>1, MarketplaceAddIs, MarketplaceRemoveIs, PluginAddIs, PluginRemoveIs
  <2>2. CASE disabled' = ~disabled /\ UNCHANGED <<recopies, source, installed, present, calm>>
    BY <2>2 DEF IInv, TypeOK, CodexTypes
  <2>3. CASE present' = ~present /\ UNCHANGED <<recopies, source, installed, disabled, calm>>
    BY <2>3 DEF IInv, TypeOK, CodexTypes
  <2> QED BY <2>1, <2>2, <2>3 DEF Others
<1>3. TypeOK'
  BY <1>1, <1>2 DEF IInv, TypeOK, CodexTypes
<1> QED BY <1>1, <1>3, Interfered

LEMMA UpgradeStep == ASSUME IInv, Upgrade PROVE IInv'
<1>1. tree' \in 1 .. Releases /\ delivered <= tree'
  BY ConstantsAssumption DEF Upgrade, IInv, TypeOK
<1>2. TypeOK'
  BY <1>1 DEF Upgrade, codex, IInv, TypeOK
<1> QED BY <1>2, Interfered DEF Upgrade

LEMMA KilledStep == ASSUME IInv, Killed PROVE IInv'
<1>1. TypeOK'
  BY DEF Killed, codex, IInv, TypeOK, Steps, Outcomes
<1> QED BY <1>1, Interfered DEF Killed

LEMMA SettleStep == ASSUME IInv, Settle PROVE IInv'
<1>1. UNCHANGED <<source, installed, tree, step, outcome, alone, before>>
  BY DEF Settle, client
<1>2. TypeOK'
  BY DEF Settle, client, IInv, TypeOK
<1> QED BY <1>1, <1>2
    DEF IInv, Points, Keeps, ConfirmedIsDelivered, FailedKeepsInstalled, Copy

---------------------------------------------------------------------------
\* The invariant holds at first: nothing is registered and no run has begun.
LEMMA InitInv == Init => IInv
<1> SUFFICES ASSUME Init PROVE IInv
  OBVIOUS
<1>1. tree \in 1 .. Releases /\ delivered \in 0 .. Releases /\ delivered <= tree
  BY ConstantsAssumption DEF Init
<1>2. TypeOK
  BY <1>1 DEF Init, TypeOK, Steps, Goals, Markets, Outcomes
<1> QED BY <1>2 DEF Init, IInv, Points, Keeps, ConfirmedIsDelivered, FailedKeepsInstalled

\* Every step keeps it.
LEMMA NextInv == IInv /\ [Next]_vars => IInv'
<1> SUFFICES ASSUME IInv, [Next]_vars PROVE IInv'
  OBVIOUS
<1>1. CASE Start
  BY <1>1, StartStep
<1>2. CASE Run
  BY <1>2, RegisterStep, ReplaceStep, InstallStep, RefreshStep DEF Run
<1>3. CASE Upgrade \/ Killed \/ Others \/ Settle
  BY <1>3, UpgradeStep, KilledStep, OthersStep, SettleStep
<1>4. CASE UNCHANGED vars
  BY <1>4 DEF vars, codex, client, IInv, TypeOK, Points, Keeps, ConfirmedIsDelivered,
     FailedKeepsInstalled, Copy
<1> QED BY <1>1, <1>2, <1>3, <1>4 DEF Next

\* The inductive invariant of the manager.
THEOREM Invariance == Spec => []IInv
BY InitInv, NextInv, PTL DEF Spec

\* Every variable keeps its type.
THEOREM TypeCorrect == Spec => []TypeOK
<1>1. IInv => TypeOK
  BY DEF IInv
<1> QED BY <1>1, Invariance, PTL

\* A delivery that a run reports, and nobody interfered with, is a copy of the
\* client's own release (confirmed_delivery), however `codex` handles a second add.
THEOREM ConfirmedAreDelivered == Spec => []ConfirmedIsDelivered
<1>1. IInv => ConfirmedIsDelivered
  BY DEF IInv
<1> QED BY <1>1, Invariance, PTL

\* A plain failure leaves what was installed, and only RemovedNotReinstalled leaves
\* nothing (PluginOutcome, force_refresh).
THEOREM FailuresKeepInstalled == Spec => []FailedKeepsInstalled
<1>1. IInv => FailedKeepsInstalled
  BY DEF IInv
<1> QED BY <1>1, Invariance, PTL

\* What ends a forced refresh with another outcome has found or left a plugin there.
LEMMA EndsOfRefresh ==
  ASSUME IInv, [Next]_vars, step = "reinstall", step' = "idle",
         outcome' \notin {"none", "RemovedNotReinstalled"}
  PROVE  installed' # None
<1>1. Reinstall
  BY DEF Next, Run, Start, Register, Remove, ReAdd, Install, Uninstall, Upgrade, Killed, Others,
     Settle, vars, client
<1>2. PICK said \in Answers : PluginAdd(said) /\ End(market, Reinstalled(said))
  BY <1>1 DEF Reinstall
<1>3. outcome' = Reinstalled(said)
  BY <1>2 DEF End
<1>4. said \in {"ok", "already", "different"}
  BY <1>3 DEF Reinstalled, SaysAlready
<1>5. TypeOK
  BY DEF IInv
<1> QED BY <1>2, <1>4, <1>5, PluginAddIs

\* Whoever interferes, the run that takes the plugin away reports that it is gone, or
\* it is there when the run ends (force_refresh).
THEOREM LossesAreReported == Spec => LossIsReported
<1>1. IInv /\ [Next]_vars =>
        [step = "reinstall" /\ step' = "idle" /\ outcome' \notin {"none", "RemovedNotReinstalled"}
           => installed' # None]_vars
  BY EndsOfRefresh
<1> QED BY <1>1, Invariance, PTL DEF Spec, LossIsReported

---------------------------------------------------------------------------
(* The selection of a rollout (CodexSelect).                               *)

\* A file that may be filed for this request under this rung.
Suits(found) ==
  /\ found.file = Nobody => found.rung = "none"
  /\ found.file # Nobody =>
       /\ request.rollout # Nobody => Id[found.file] = request.rollout
       /\ found.rung \notin {"recent", "none"} =>
            Process[Id[found.file]] = Process[request.thread]

\* What the request holds on to suits it, and so does the fallback of its poll.
Suitable == Suits(retained) /\ Suits(answer) /\ Suits(Fallback(recent))

\* A request waits only if it names its thread, and while it waits it keeps what
\* it has found.
Waits ==
  /\ phase = "coming" => ~usable
  /\ wait => ~request.identity.conflicting /\ request.identity.thread # Nobody
  /\ usable /\ phase # "done" => wait /\ retained.file # Nobody
  /\ usable /\ phase = "done" => answer.file # Nobody

\* There is no answer before it is given, and its session goes with its file.
Given ==
  /\ phase # "asking" => recent = Nobody
  /\ phase # "done" => answer = NoTurn
  /\ phase = "done" => answer.session = EnvelopeSession(request.identity, answer.file)

SelectInv == SelectTypeOK /\ request \in Requests /\ Suitable /\ Waits /\ Given

LEMMA SaysIs ==
  ASSUME NEW t \in Threads, NEW fields \in Stated
  PROVE  /\ Says(t, fields).session \in {Nobody, Root[t]}
         /\ Says(t, fields).thread \in {Nobody, t}
         /\ Says(t, fields).parent \in {Nobody, Parent[t]}
         /\ Says(t, fields).thread # Nobody => Says(t, fields).session = Root[t]
         /\ Says(t, fields).thread = Nobody =>
              Says(t, fields).session = Nobody /\ Says(t, fields).parent = Nobody
         /\ Root[t] \in Threads /\ Parent[t] \in Threads \cup {Nobody} /\ Root[t] # Nobody
         /\ t # Nobody
<1>1. /\ Root[t] \in Threads /\ Parent[t] \in Threads \cup {Nobody} /\ Root[t] # Nobody
      /\ t # Nobody
  BY SelectAssumption
<1>2. "thread" \in fields <=> "session" \in fields
  BY DEF Stated
<1>3. "thread" \notin fields => "parent" \notin fields
  BY DEF Stated
<1> QED BY <1>1, <1>2, <1>3 DEF Says

LEMMA SentIs ==
  ASSUME NEW a \in Account
  PROVE  LET r == Sent(a)
         IN  /\ r \in Request /\ r.thread = a.thread
             /\ r.marker \in {Nobody, Provider[Process[a.thread]]}
             /\ a.supplied => r.identity = FromHeaders(Heard(a), Told(a))
             /\ ~a.supplied => r.identity = NoIdentity
             /\ r.rollout = RolloutEvidence(a.supplied, r.identity, Heard(a))
<1> DEFINE h == Heard(a)
           m == Told(a)
           r == Sent(a)
           identity == IF a.supplied THEN FromHeaders(h, m) ELSE NoIdentity
           Ids == Threads \cup {Nobody}
<1>1. /\ h.session \in Ids /\ h.thread \in Ids /\ h.parent \in Ids
      /\ m.session \in Ids /\ m.thread \in Ids /\ m.parent \in Ids
  BY SaysIs DEF Heard, Told, Account
<1>3. Disagree(h, m) \in BOOLEAN
  BY DEF Disagree
<1> HIDE DEF h, m
<1>4. FromHeaders(h, m) \in Identity
  BY <1>1, <1>3 DEF FromHeaders, FirstOf, Identity
<1>5. identity \in Identity
  BY <1>4 DEF NoIdentity, Identity
<1>6. RolloutEvidence(a.supplied, identity, h) \in Ids
  BY <1>1, <1>5 DEF RolloutEvidence, IdentityRollout, FirstOf, Identity
<1>7. Provider[Process[a.thread]] \in Providers /\ a.thread \in Threads
  BY SelectAssumption DEF Account
<1>8. r = [thread |-> a.thread, identity |-> identity,
           rollout |-> RolloutEvidence(a.supplied, identity, h),
           marker |-> IF a.marked THEN Provider[Process[a.thread]] ELSE Nobody]
  BY Zenon DEF Sent, h, m
<1> HIDE DEF r, identity
<1>9. r \in Request
  BY <1>5, <1>6, <1>7, <1>8 DEF Request
<1>10. /\ r.thread = a.thread /\ r.marker \in {Nobody, Provider[Process[a.thread]]}
       /\ r.identity = identity
       /\ r.rollout = RolloutEvidence(a.supplied, r.identity, h)
  BY <1>8
<1>11. /\ a.supplied => r.identity = FromHeaders(h, m)
       /\ ~a.supplied => r.identity = NoIdentity
  BY <1>10 DEF identity
<1> QED BY <1>9, <1>10, <1>11 DEF r, h, m

\* A request that does not contradict itself says who it is of, and who that is.
LEMMA RequestIs ==
  ASSUME NEW r \in Requests
  PROVE  /\ r \in Request
         /\ r.marker \in {Nobody, Provider[Process[r.thread]]}
         /\ ~r.identity.conflicting /\ r.identity.thread # Nobody =>
              /\ r.identity.thread = r.thread /\ r.rollout = r.thread
              /\ r.identity.session = Root[r.thread]
              /\ r.identity.parent \in {Nobody, Parent[r.thread]}
<1>1. PICK a \in Accounts : r = Sent(a)
  BY DEF Requests
<1> DEFINE h == Heard(a)
           m == Told(a)
<1>2. /\ r \in Request /\ r.thread = a.thread
      /\ r.marker \in {Nobody, Provider[Process[a.thread]]}
      /\ a.supplied => r.identity = FromHeaders(h, m)
      /\ ~a.supplied => r.identity = NoIdentity
      /\ r.rollout = RolloutEvidence(a.supplied, r.identity, h)
  BY <1>1, SentIs, Zenon DEF Accounts
<1>3. SUFFICES ASSUME ~r.identity.conflicting, r.identity.thread # Nobody
               PROVE  /\ r.identity.thread = r.thread /\ r.rollout = r.thread
                      /\ r.identity.session = Root[r.thread]
                      /\ r.identity.parent \in {Nobody, Parent[r.thread]}
  BY <1>2
<1>4. a.supplied /\ r.identity = FromHeaders(h, m)
  BY <1>2, <1>3 DEF NoIdentity
<1>5. ~Disagree(h, m)
  BY <1>3, <1>4 DEF FromHeaders
<1>6. a.first = a.thread /\ a.second = a.thread
  BY <1>5 DEF Accounts
<1>7. /\ h.session \in {Nobody, Root[a.thread]} /\ h.thread \in {Nobody, a.thread}
      /\ h.parent \in {Nobody, Parent[a.thread]}
      /\ h.thread # Nobody => h.session = Root[a.thread]
      /\ h.thread = Nobody => h.session = Nobody /\ h.parent = Nobody
  BY <1>6, SaysIs DEF Heard, Accounts, Account
<1>8. /\ m.session \in {Nobody, Root[a.thread]} /\ m.thread \in {Nobody, a.thread}
      /\ m.parent \in {Nobody, Parent[a.thread]}
      /\ m.thread # Nobody => m.session = Root[a.thread]
      /\ m.thread = Nobody => m.session = Nobody /\ m.parent = Nobody
  BY <1>6, SaysIs DEF Told, Accounts, Account
<1> HIDE DEF h, m
<1>9. Root[a.thread] # Nobody
  BY SelectAssumption DEF Accounts, Account
<1>10. /\ r.identity.thread = a.thread /\ r.identity.session = Root[a.thread]
       /\ r.identity.parent \in {Nobody, Parent[a.thread]}
  BY <1>3, <1>4, <1>7, <1>8, <1>9 DEF FromHeaders, FirstOf
<1>11. r.rollout = a.thread
  BY <1>2, <1>3, <1>4, <1>10 DEF RolloutEvidence, IdentityRollout, FirstOf
<1> QED BY <1>2, <1>10, <1>11

---------------------------------------------------------------------------
(* The rungs and what is made of them.                                     *)

\* A rung resolves to one of its files, of the rollout that is named if one is.
LEMMA ResolveIs ==
  ASSUME NEW rollout \in Threads \cup {Nobody}, NEW files \in SUBSET Files,
         NEW f \in Resolve(rollout, files)
  PROVE  /\ f \in files
         /\ rollout # Nobody => Id[f] = rollout
BY DEF Resolve, OneLiveSession, NarrowByRolloutId

LEMMA FallbackSuits ==
  ASSUME SelectTypeOK, NEW fallback \in OneOf(Resolve(request.rollout, snapshot))
  PROVE  fallback \in Files \cup {Nobody} /\ Suits(Fallback(fallback))
<1>1. request.rollout \in Threads \cup {Nobody} /\ snapshot \in SUBSET Files
  BY DEF SelectTypeOK, Request
<1>2. CASE fallback = Nobody
  BY <1>2 DEF Suits, Fallback, NoAnswer
<1>3. CASE fallback \in Resolve(request.rollout, snapshot)
  <2>1. fallback \in snapshot /\ (request.rollout # Nobody => Id[fallback] = request.rollout)
    BY <1>1, <1>3, ResolveIs
  <2>2. fallback \in Files /\ fallback # Nobody
    BY <1>1, <2>1, SelectAssumption
  <2> QED BY <2>1, <2>2 DEF Suits, Fallback, Found
<1> QED BY <1>2, <1>3 DEF OneOf

LEMMA ReturnKeeps ==
  ASSUME SelectInv, NEW found \in Answer, Suits(found), Return(found),
         usable' \in BOOLEAN, usable' => found.file # Nobody
  PROVE  SelectInv'
<1>1. SelectTypeOK /\ request \in Requests
  BY DEF SelectInv
<1>2. /\ request' = request /\ fresh' = fresh /\ snapshot' = snapshot /\ hooks' = hooks
      /\ phase' = "done" /\ wait' = FALSE /\ left' = 0 /\ recent' = Nobody
      /\ retained' = NoAnswer
  BY DEF Return, world
<1>3. answer' = [rung |-> found.rung, file |-> found.file,
                 session |-> EnvelopeSession(request.identity, found.file)]
  BY DEF Return
<1>4. EnvelopeSession(request.identity, found.file) \in Threads \cup {Nobody}
  <2>1. request.identity.session \in Threads \cup {Nobody} /\ found.file \in Files \cup {Nobody}
    BY <1>1 DEF SelectTypeOK, Request, Identity, Answer
  <2> QED BY <2>1, SelectAssumption DEF EnvelopeSession
<1>5. SelectTypeOK'
  <2>1. 0 \in 0 .. Polls
    BY SelectAssumption
  <2>2. NoAnswer \in Answer
    BY DEF NoAnswer, Answer, Rungs
  <2>3. answer' \in [rung : Rungs, file : Files \cup {Nobody}, session : Threads \cup {Nobody}]
    BY <1>3, <1>4 DEF Answer
  <2> QED BY <1>1, <1>2, <2>1, <2>2, <2>3 DEF SelectTypeOK
<1>6. Suitable'
  <2>1. Suits(answer)'
    BY <1>2, <1>3 DEF Suits
  <2>2. Suits(retained)' /\ Suits(Fallback(recent))'
    BY <1>2 DEF Suits, Fallback, NoAnswer
  <2> QED BY <2>1, <2>2 DEF Suitable
<1>7. Waits' /\ Given'
  BY <1>2, <1>3 DEF Waits, Given
<1> QED BY <1>1, <1>2, <1>5, <1>6, <1>7 DEF SelectInv

LEMMA UsableIs ==
  ASSUME NEW found \in Answer, NEW fallback \in Files \cup {Nobody},
         Suits(found), Suits(Fallback(fallback))
  PROVE  Usable(found, fallback) \in Answer /\ Suits(Usable(found, fallback))
<1>1. NoAnswer \in Answer /\ Suits(NoAnswer)
  BY DEF NoAnswer, Answer, Rungs, Suits
<1>2. Fallback(fallback) \in Answer
  BY <1>1 DEF Fallback, Found, Answer, Rungs
<1> QED BY <1>1, <1>2 DEF Usable

LEMMA DecideKeeps ==
  ASSUME SelectInv, phase # "done", NEW found \in Answer, NEW fallback \in Files \cup {Nobody},
         Suits(found), Suits(Fallback(fallback)), Decide(found, fallback)
  PROVE  SelectInv'
<1> DEFINE new == Usable(found, fallback)
<1>1. SelectTypeOK /\ request \in Requests /\ Suitable /\ Waits /\ Given
  BY DEF SelectInv
<1>2. new \in Answer /\ Suits(new)
  BY UsableIs
<1>3. Retain(new) \in Answer /\ Suits(Retain(new))
  BY <1>1, <1>2 DEF Retain, Suitable, SelectTypeOK
<1>4. usable' = (usable \/ (wait /\ new.file # Nobody))
  BY DEF Decide
<1> HIDE DEF new
<1>5. usable' \in BOOLEAN /\ wait \in BOOLEAN /\ usable \in BOOLEAN
  BY <1>1, <1>4 DEF SelectTypeOK
<1>6. usable' => wait /\ Retain(new).file # Nobody
  BY <1>1, <1>4 DEF Waits, Retain
<1>7. CASE ~wait /\ found.file # Nobody /\ Return(found)
  BY <1>5, <1>7, ReturnKeeps
<1>8. CASE wait /\ Return(Retain(new))
  BY <1>3, <1>5, <1>6, <1>8, ReturnKeeps
<1>9. CASE ~wait /\ Return(new)
  BY <1>2, <1>5, <1>6, <1>9, ReturnKeeps
<1>10. CASE /\ left > 0 /\ Sleep
            /\ retained' = IF wait THEN Retain(new) ELSE retained
            /\ phase' = "looking" /\ recent' = Nobody
            /\ UNCHANGED <<world, request, wait, answer>>
  <2>1. left' \in 0 .. Polls
    BY <1>1, <1>10, SelectAssumption DEF Sleep, SelectTypeOK
  <2>2. retained' \in Answer
    BY <1>1, <1>3, <1>10 DEF SelectTypeOK
  <2>3. SelectTypeOK'
    BY <1>1, <1>5, <1>10, <2>1, <2>2 DEF SelectTypeOK, world
  <2>4. Suits(retained') /\ Suits(answer)
    BY <1>1, <1>3, <1>10 DEF Suitable
  <2>5. Suits(Fallback(Nobody))
    BY DEF Suits, Fallback, NoAnswer
  <2>6. Suitable'
    BY <1>10, <2>4, <2>5 DEF Suitable, Suits, Fallback
  <2>7. Waits'
    BY <1>1, <1>6, <1>10 DEF Waits
  <2>8. Given'
    BY <1>1, <1>10 DEF Given
  <2> QED BY <1>1, <1>10, <2>3, <2>6, <2>7, <2>8 DEF SelectInv
<1> QED BY <1>7, <1>8, <1>9, <1>10 DEF Decide, new

---------------------------------------------------------------------------
(* The steps.                                                              *)

LEMMA SelectInitInv == SelectInit => SelectInv
<1> SUFFICES ASSUME SelectInit PROVE SelectInv
  OBVIOUS
<1>1. request \in Request
  BY RequestIs DEF SelectInit
<1>2. SelectTypeOK
  <2>1. 0 \in 0 .. Polls
    BY SelectAssumption
  <2>2. /\ NoAnswer \in Answer
        /\ NoTurn \in [rung : Rungs, file : Files \cup {Nobody}, session : Threads \cup {Nobody}]
    BY DEF Answer, NoAnswer, NoTurn, Rungs
  <2> QED BY <1>1, <2>1, <2>2 DEF SelectInit, SelectTypeOK
<1>3. Suitable
  BY DEF SelectInit, Suitable, Suits, Fallback, NoAnswer, NoTurn
<1> QED BY <1>2, <1>3 DEF SelectInit, SelectInv, Waits, Given

LEMMA WorldKeeps ==
  ASSUME SelectInv, World
  PROVE  SelectInv'
<1>1. UNCHANGED call
  BY DEF World, Write, Age, Scan, Hook
<1>2. fresh' \in SUBSET Files /\ snapshot' \in SUBSET Files /\ hooks' \in SUBSET Threads
  BY DEF SelectInv, SelectTypeOK, World, Write, Age, Scan, Hook
<1>3. SelectTypeOK'
  BY <1>1, <1>2 DEF SelectInv, SelectTypeOK, call
<1>4. Suitable' /\ Waits' /\ Given'
  BY <1>1 DEF SelectInv, Suitable, Suits, Waits, Given, call
<1> QED BY <1>1, <1>3, <1>4 DEF SelectInv, call

LEMMA BeginKeeps ==
  ASSUME SelectInv, Begin
  PROVE  SelectInv'
<1>1. SelectTypeOK'
  <2>1. wait' \in BOOLEAN
    BY DEF Begin
  <2>2. Polls \in 0 .. Polls
    BY SelectAssumption
  <2> QED BY <2>1, <2>2 DEF SelectInv, SelectTypeOK, Begin, world
<1>2. Suitable' /\ Given'
  BY DEF SelectInv, Suitable, Suits, Given, Begin, world
<1>3. Waits'
  BY DEF SelectInv, Waits, Begin
<1> QED BY <1>1, <1>2, <1>3 DEF SelectInv, Begin

\* What the exact rungs find is the request's own thread's.
LEMMA ExactSuits ==
  ASSUME SelectInv,
         NEW f \in HookExact(request.identity, snapshot) \cup ChildMatches(request.identity, snapshot)
  PROVE  /\ f \in Files
         /\ Id[f] = request.thread /\ (request.rollout # Nobody => Id[f] = request.rollout)
<1>1. f \in Files /\ hooks \subseteq Threads /\ request \in Requests
  BY DEF SelectInv, SelectTypeOK, HookExact, ChildMatches
<1>2. /\ ~request.identity.conflicting /\ Id[f] = request.identity.thread
      /\ request.identity.thread # Nobody
  BY <1>1, SelectAssumption DEF HookExact, ChildMatches, IsChildShaped
<1> QED BY <1>1, <1>2, RequestIs

LEMMA LookKeeps ==
  ASSUME SelectInv, Look
  PROVE  SelectInv'
<1>1. SelectTypeOK /\ request \in Requests /\ Suitable /\ Waits /\ Given
  BY DEF SelectInv
<1>2. PICK fallback \in OneOf(Resolve(request.rollout, snapshot)) :
        \/ \E f \in HookExact(request.identity, snapshot) : Return(Found("hook", f)) /\ UNCHANGED usable
        \/ \E f \in ChildMatches(request.identity, snapshot) : Return(Found("child", f)) /\ UNCHANGED usable
        \/ \E f \in Resolve(request.rollout, ByMarker) : Decide(Found("marker", f), fallback)
        \/ /\ phase' = "asking" /\ recent' = fallback
           /\ UNCHANGED <<world, request, wait, left, retained, usable, answer>>
  BY Zenon DEF Look
<1>3. fallback \in Files \cup {Nobody} /\ Suits(Fallback(fallback))
  BY <1>1, <1>2, FallbackSuits
<1>4. phase = "looking"
  BY DEF Look
<1>5. ASSUME NEW f \in HookExact(request.identity, snapshot)
                      \cup ChildMatches(request.identity, snapshot),
             NEW rung \in Exact, Return(Found(rung, f)), UNCHANGED usable
      PROVE  SelectInv'
  <2>1. f \in Files /\ f # Nobody /\ Id[f] = request.thread
        /\ (request.rollout # Nobody => Id[f] = request.rollout)
    BY <1>5, ExactSuits, SelectAssumption
  <2>2. Found(rung, f) \in Answer /\ Suits(Found(rung, f)) /\ Found(rung, f).file # Nobody
    BY <2>1 DEF Found, Answer, Exact, Rungs, Suits
  <2>3. usable' \in BOOLEAN
    BY <1>1, <1>5 DEF SelectTypeOK
  <2> QED BY <1>5, <2>2, <2>3, ReturnKeeps
<1>6. ASSUME NEW f \in Resolve(request.rollout, ByMarker), Decide(Found("marker", f), fallback)
      PROVE  SelectInv'
  <2>1. request.rollout \in Threads \cup {Nobody} /\ ByMarker \in SUBSET Files
    BY <1>1 DEF SelectTypeOK, Request, ByMarker
  <2>2. f \in ByMarker /\ (request.rollout # Nobody => Id[f] = request.rollout)
    BY <1>6, <2>1, ResolveIs
  <2>3. /\ f \in Files /\ f # Nobody /\ Provider[Process[Id[f]]] = request.marker
    BY <2>1, <2>2, SelectAssumption DEF ByMarker
  <2>4. /\ Process[Id[f]] \in Processes /\ request.thread \in Threads
        /\ Process[request.thread] \in Processes /\ Provider[Process[Id[f]]] # Nobody
    BY <1>1, <2>3, SelectAssumption DEF SelectTypeOK, Request
  <2>5. request.marker = Provider[Process[request.thread]]
    BY <1>1, <2>3, <2>4, RequestIs
  <2>6. Process[Id[f]] = Process[request.thread]
    BY <2>3, <2>4, <2>5, MarkersAssumption
  <2>7. Found("marker", f) \in Answer /\ Suits(Found("marker", f))
    BY <2>2, <2>3, <2>6 DEF Found, Answer, Rungs, Suits
  <2> QED BY <1>3, <1>4, <1>6, <2>7, DecideKeeps
<1>7. CASE /\ phase' = "asking" /\ recent' = fallback
           /\ UNCHANGED <<world, request, wait, left, retained, usable, answer>>
  <2>1. SelectTypeOK'
    BY <1>1, <1>3, <1>7 DEF SelectTypeOK, world
  <2>2. Suitable'
    BY <1>1, <1>3, <1>7 DEF Suitable, Suits, Fallback
  <2> QED BY <1>1, <1>4, <1>7, <2>1, <2>2 DEF SelectInv, Waits, Given
<1> QED BY <1>2, <1>5, <1>6, <1>7 DEF Exact

LEMMA AskKeeps ==
  ASSUME SelectInv, Ask
  PROVE  SelectInv'
<1>1. SelectTypeOK /\ Suitable
  BY DEF SelectInv
<1>0. PICK seen \in SUBSET OpenBy(Process[request.thread]) :
        \E f \in OneOf(Resolve(request.rollout, seen)) :
          Decide(IF f = Nobody THEN NoAnswer ELSE Found("peer", f), recent)
  BY DEF Ask
<1>2. PICK f \in OneOf(Resolve(request.rollout, seen)) :
        Decide(IF f = Nobody THEN NoAnswer ELSE Found("peer", f), recent)
  BY <1>0
<1> DEFINE found == IF f = Nobody THEN NoAnswer ELSE Found("peer", f)
<1>3. recent \in Files \cup {Nobody} /\ Suits(Fallback(recent)) /\ phase # "done"
  BY <1>1 DEF SelectTypeOK, Suitable, Ask
<1>4. found \in Answer /\ Suits(found)
  <2>1. CASE f = Nobody
    BY <2>1 DEF NoAnswer, Answer, Rungs, Suits
  <2>2. CASE f # Nobody
    <3>1. request.rollout \in Threads \cup {Nobody} /\ seen \in SUBSET Files
      BY <1>1 DEF SelectTypeOK, Request, OpenBy
    <3>2. f \in Resolve(request.rollout, seen)
      BY <2>2 DEF OneOf
    <3>3. f \in seen /\ (request.rollout # Nobody => Id[f] = request.rollout)
      BY <3>1, <3>2, ResolveIs
    <3>4. f \in Files /\ Process[Id[f]] = Process[request.thread]
      BY <3>1, <3>3 DEF OpenBy
    <3> QED BY <2>2, <3>3, <3>4 DEF Found, Answer, Rungs, Suits
  <2> QED BY <2>1, <2>2
<1> HIDE DEF found
<1>5. Decide(found, recent)
  BY <1>2 DEF found
<1> QED BY <1>3, <1>4, <1>5, DecideKeeps

LEMMA SelectNextInv == SelectInv /\ [SelectNext]_selectVars => SelectInv'
<1> SUFFICES ASSUME SelectInv, [SelectNext]_selectVars PROVE SelectInv'
  OBVIOUS
<1>1. CASE World
  BY <1>1, WorldKeeps
<1>2. CASE Begin
  BY <1>2, BeginKeeps
<1>3. CASE Look
  BY <1>3, LookKeeps
<1>4. CASE Ask
  BY <1>4, AskKeeps
<1>5. CASE UNCHANGED selectVars
  BY <1>5 DEF selectVars, world, call, SelectInv, SelectTypeOK, Suitable, Suits, Waits, Given
<1> QED BY <1>1, <1>2, <1>3, <1>4, <1>5 DEF SelectNext

---------------------------------------------------------------------------
(* The theorems.                                                           *)

\* The invariant holds for every family of threads, every request and budget.
THEOREM SelectInvariance == SelectSpec => []SelectInv
BY SelectInitInv, SelectNextInv, PTL DEF SelectSpec

\* Every variable keeps its type.
THEOREM SelectTypeCorrect == SelectSpec => []SelectTypeOK
<1>1. SelectInv => SelectTypeOK
  BY DEF SelectInv
<1> QED BY <1>1, SelectInvariance, PTL

LEMMA NamedIs ==
  ASSUME SelectInv
  PROVE  NamedIsOwn
<1>1. Suits(answer)
  BY DEF SelectInv, Suitable
<1> QED BY <1>1 DEF NamedIsOwn, Suits

\* A request that names a rollout is attributed to that one or to none
\* (narrow_by_rollout_id on every rung of select_once, and what select retains).
THEOREM NamedAreOwn == SelectSpec => []NamedIsOwn
<1>1. SelectInv => NamedIsOwn
  BY NamedIs
<1> QED BY <1>1, SelectInvariance, PTL

\* No turn goes to another process's session, unless by recency alone.
THEOREM AnswersAreOfProcess == SelectSpec => []AnswerIsOfProcess
<1>1. SelectInv => AnswerIsOfProcess
  <2>1. SUFFICES ASSUME SelectInv, phase = "done", answer.rung \notin {"recent", "none"}
                 PROVE  Process[Id[answer.file]] = Process[request.thread]
    BY DEF AnswerIsOfProcess
  <2>2. Suits(answer)
    BY <2>1 DEF SelectInv, Suitable
  <2>3. answer.file # Nobody
    BY <2>1, <2>2 DEF Suits
  <2> QED BY <2>1, <2>2, <2>3 DEF Suits
<1> QED BY <1>1, SelectInvariance, PTL

\* A request held up for exact evidence has an answer if any poll found one.
THEOREM WhatIsFoundIsKept == SelectSpec => []FoundIsKept
<1>1. SelectInv => FoundIsKept
  BY DEF SelectInv, Waits, FoundIsKept
<1> QED BY <1>1, SelectInvariance, PTL

\* The turns of a family land on one session (is_child_shaped, rollout_id and
\* envelope_session_id agree on it).
THEOREM FamiliesAreOne == SelectSpec => []FamilyIsOne
<1>1. SelectInv => FamilyIsOne
  <2> DEFINE t == request.thread
             i == request.identity
  <2>1. SUFFICES ASSUME SelectInv, phase = "done", ~i.conflicting, i.thread # Nobody,
                        Parent[t] # Nobody => i.parent # Nobody
                 PROVE  answer.session = Root[t] \/ (Parent[t] = Nobody /\ answer.session = Nobody)
    BY DEF FamilyIsOne
  <2>2. /\ request \in Requests /\ request \in Request
        /\ answer.session = EnvelopeSession(i, answer.file)
        /\ answer.file # Nobody /\ request.rollout # Nobody => Id[answer.file] = request.rollout
    BY <2>1, RequestIs, NamedIs DEF SelectInv, Given, NamedIsOwn
  <2>3. /\ t \in Threads /\ t # Nobody /\ Root[t] \in Threads /\ Root[t] # Nobody
    BY <2>2, SelectAssumption DEF Request
  <2>4. /\ i.thread = t /\ request.rollout = t /\ i.session = Root[t] /\ i.parent \in {Nobody, Parent[t]}
    BY <2>1, <2>2, RequestIs
  <2> HIDE DEF t, i
  <2>5. CASE Parent[t] = Nobody
    <3>1. ~IsChildShaped(i) /\ Root[t] = t
      BY <2>3, <2>4, <2>5, FamiliesAssumption DEF IsChildShaped
    <3> QED BY <2>2, <2>3, <2>4, <2>5, <3>1 DEF EnvelopeSession
  <2>6. CASE Parent[t] # Nobody
    <3>1. i.parent = Parent[t] /\ Root[t] # t /\ Parent[t] # t
      BY <2>1, <2>3, <2>4, <2>6, FamiliesAssumption
    <3>2. IsChildShaped(i)
      BY <2>1, <2>3, <2>4, <2>6, <3>1 DEF IsChildShaped
    <3> QED BY <2>2, <2>4, <3>2 DEF EnvelopeSession
  <2> QED BY <2>5, <2>6
<1> QED BY <1>1, SelectInvariance, PTL
=============================================================================
