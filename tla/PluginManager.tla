--------------------------- MODULE PluginManager ---------------------------
(***************************************************************************)
(* One capture client that installs its hook plugin through Codex's own    *)
(* command line: manager.rs, with the `codex` program, the user and every  *)
(* other client of the same marketplace name around it.                    *)
(*                                                                         *)
(* register runs up to five commands, one after the other, and has only    *)
(* their exit status and the phrases of their output to go by.  Between    *)
(* any two of them others run commands of their own, and the program may   *)
(* vanish or fail.  A command that fails changes nothing.                  *)
(***************************************************************************)
EXTENDS Integers

CONSTANTS
  Releases,    \* the last release of the client
  Ours, Theirs,
  None

ASSUME ConstantsAssumption ==
  /\ Releases \in Nat \ {0}
  /\ Ours # Theirs /\ None \notin {Ours, Theirs}
  /\ None \notin [root : {Ours, Theirs}, release : 1 .. Releases]

VARIABLES
  recopies,    \* whether this `codex` copies an installed plugin anew on add
  source,      \* the root that the marketplace name points at
  installed,   \* the copy of the plugin that Codex holds
  disabled,    \* whether config.toml says enabled = false
  present,     \* whether there is a `codex` program
  calm,        \* nothing of the above changes any more but by the client
  tree,        \* the release under the client's root
  delivered,   \* the release its bookkeeping knows to be delivered
  step,        \* the command that the client is about to run
  goal, market,
  outcome,     \* what its last run reported of the install
  alone,       \* history: since the run began nobody else changed anything
  before       \* history: what was installed when it began

codex  == <<recopies, source, installed, disabled, present, calm>>
client == <<tree, delivered, step, goal, market, outcome, alone, before>>
vars   == <<codex, client>>

Roots == {Ours, Theirs}
Copy(root) == [root |-> root, release |-> IF root = Ours THEN tree ELSE 1]
Copies == [root : Roots, release : 1 .. Releases]

Goals == {"Install", "Refresh", "Verify"}
Markets == {"none", "Added", "AlreadyAdded", "Replaced", "Failed"}
Outcomes == {"none", "CliAbsent", "SkippedDisabled", "Skipped", "Installed",
             "AlreadyInstalled", "Refreshed", "Failed", "RemovedNotReinstalled"}
Steps == {"idle", "register", "remove", "readd", "install", "uninstall", "reinstall"}

TypeOK ==
  /\ recopies \in BOOLEAN
  /\ source \in Roots \cup {None}
  /\ installed \in Copies \cup {None}
  /\ disabled \in BOOLEAN /\ present \in BOOLEAN /\ calm \in BOOLEAN
  /\ tree \in 1 .. Releases /\ delivered \in 0 .. Releases
  /\ step \in Steps /\ goal \in Goals /\ market \in Markets /\ outcome \in Outcomes
  /\ alone \in BOOLEAN /\ before \in Copies \cup {None}
  /\ delivered <= tree
  /\ market = "Failed" => step = "idle"

Init ==
  /\ recopies \in BOOLEAN
  /\ source = None /\ installed = None
  /\ disabled = FALSE /\ present \in BOOLEAN /\ calm = FALSE
  /\ tree = 1 /\ delivered = 0
  /\ step = "idle" /\ goal = "Install" /\ market = "none" /\ outcome = "none"
  /\ alone = FALSE /\ before = None

---------------------------------------------------------------------------
(* The `codex` program: one command, and what it answers.                  *)

\* The command is not run, or fails.
Unrun(answer) ==
  /\ \/ ~present /\ answer = "missing"
     \/ present /\ ~calm /\ answer = "other"
  /\ UNCHANGED codex

MarketplaceAdd(root, answer) ==
  \/ Unrun(answer)
  \/ /\ present /\ source \in {None, root}
     /\ answer \in {"ok"} \cup {a \in {"already"} : source = root}
     /\ source' = root
     /\ UNCHANGED <<recopies, installed, disabled, present, calm>>
  \/ /\ present /\ source \notin {None, root} /\ answer = "different"
     /\ UNCHANGED codex

\* It does not uninstall what was installed from there.
MarketplaceRemove(answer) ==
  \/ Unrun(answer)
  \/ /\ present /\ answer = IF source = None THEN "nothing" ELSE "ok"
     /\ source' = None
     /\ UNCHANGED <<recopies, installed, disabled, present, calm>>

\* It copies from wherever the name points, and enables what it has installed.
PluginAdd(answer) ==
  \/ Unrun(answer)
  \/ /\ present /\ source = None /\ answer = "other"
     /\ UNCHANGED codex
  \/ /\ present /\ source # None /\ (installed = None \/ recopies)
     /\ answer = "ok"
     /\ installed' = Copy(source) /\ disabled' = FALSE
     /\ UNCHANGED <<recopies, source, present, calm>>
  \/ /\ present /\ source # None /\ installed # None /\ ~recopies
     /\ answer = "already"
     /\ UNCHANGED codex

PluginRemove(answer) ==
  \/ Unrun(answer)
  \/ /\ present /\ answer = IF installed = None THEN "nothing" ELSE "ok"
     /\ installed' = None
     /\ UNCHANGED <<recopies, source, disabled, present, calm>>

Answers == {"missing", "ok", "already", "different", "nothing", "other"}

\* The collision answer says "already added" as well.
SaysAlready(answer) == answer \in {"already", "different"}

---------------------------------------------------------------------------
(* register.                                                               *)

\* What the bookkeeping of the client calls for.
Goal == IF delivered = 0 THEN "Install" ELSE IF delivered # tree THEN "Refresh" ELSE "Verify"

Start ==
  /\ step = "idle"
  /\ \/ /\ disabled
        /\ outcome' = "SkippedDisabled" /\ alone' = FALSE
        /\ UNCHANGED <<step, goal, market, before>>
     \/ /\ ~disabled
        /\ step' = "register" /\ goal' = Goal /\ market' = "none" /\ outcome' = "none"
        /\ alone' = TRUE /\ before' = installed
  /\ UNCHANGED <<codex, tree, delivered>>

Go(next, m) ==
  /\ step' = next /\ market' = m
  /\ UNCHANGED <<tree, delivered, goal, outcome, alone, before>>

\* The outcomes that a client may record as delivered.
ConfirmedDelivery(o) == o \in {"Installed", "Refreshed"}

End(m, o) ==
  /\ step' = "idle" /\ market' = m /\ outcome' = o
  /\ delivered' = IF ConfirmedDelivery(o) THEN tree ELSE delivered
  /\ UNCHANGED <<tree, goal, alone, before>>

\* Mutant: the generic check runs before that for a collision.
AlreadyFirst(answer) ==
  IF SaysAlready(answer) THEN "already" ELSE IF answer = "different" THEN "collision" ELSE answer

\* What a failed `marketplace add` means.
Meaning(answer) ==
  IF answer = "different" THEN "collision" ELSE IF SaysAlready(answer) THEN "already" ELSE answer

Register ==
  /\ step = "register"
  /\ \E answer \in Answers :
       /\ MarketplaceAdd(Ours, answer)
       /\ LET meaning == Meaning(answer)
          IN  \/ meaning = "missing" /\ End("none", "CliAbsent")
              \/ meaning = "ok" /\ Go("install", "Added")
              \/ meaning = "collision" /\ Go("remove", "none")
              \/ meaning = "already" /\ Go("install", "AlreadyAdded")
              \/ meaning \in {"nothing", "other"} /\ End("Failed", "Skipped")

\* replace_marketplace
Remove ==
  /\ step = "remove"
  /\ \E answer \in Answers :
       /\ MarketplaceRemove(answer)
       /\ IF answer = "ok" THEN Go("readd", "none") ELSE End("Failed", "Skipped")

ReAdd ==
  /\ step = "readd"
  /\ \E answer \in Answers :
       /\ MarketplaceAdd(Ours, answer)
       /\ IF answer = "ok" THEN Go("install", "Replaced") ELSE End("Failed", "Skipped")

\* Mutant: an existing install is believed to be ours.
TrustsAnything == TRUE

\* Whether "already installed" can be believed.
Trusted == goal = "Verify"

Install ==
  /\ step = "install"
  /\ \E answer \in Answers :
       /\ PluginAdd(answer)
       /\ \/ answer = "ok" /\ End(market, IF goal = "Refresh" THEN "Refreshed" ELSE "Installed")
          \/ SaysAlready(answer) /\ Trusted /\ End(market, "AlreadyInstalled")
          \/ SaysAlready(answer) /\ ~Trusted /\ Go("uninstall", market)
          \/ answer \in {"missing", "nothing", "other"} /\ End(market, "Failed")

\* force_refresh
Uninstall ==
  /\ step = "uninstall"
  /\ \E answer \in Answers :
       /\ PluginRemove(answer)
       /\ IF answer \in {"ok", "nothing"} THEN Go("reinstall", market) ELSE End(market, "Failed")

\* Mutant: a program that has vanished is a plain failure here, as elsewhere.
VanishedIsFailed(answer) ==
  IF answer = "ok" THEN "Refreshed"
  ELSE IF SaysAlready(answer) \/ answer = "missing" THEN "Failed" ELSE "RemovedNotReinstalled"

\* Mutant: whatever fails here is a plain failure.
AllIsFailed(answer) == IF answer = "ok" THEN "Refreshed" ELSE "Failed"

Reinstalled(answer) ==
  IF answer = "ok" THEN "Refreshed"
  ELSE IF SaysAlready(answer) THEN "Failed" ELSE "RemovedNotReinstalled"

Reinstall ==
  /\ step = "reinstall"
  /\ \E answer \in Answers : PluginAdd(answer) /\ End(market, Reinstalled(answer))

Run == Register \/ Remove \/ ReAdd \/ Install \/ Uninstall \/ Reinstall

---------------------------------------------------------------------------
(* Everything else.                                                        *)

\* The client ships a new release; its tree is written before it registers.
Upgrade ==
  /\ step = "idle" /\ tree < Releases
  /\ tree' = tree + 1 /\ alone' = FALSE
  /\ UNCHANGED <<codex, delivered, step, goal, market, outcome, before>>

\* It is killed between two commands.
Killed ==
  /\ step # "idle" /\ ~calm
  /\ step' = "idle" /\ outcome' = "none" /\ alone' = FALSE
  /\ UNCHANGED <<codex, tree, delivered, goal, market, before>>

\* The user, or another client of the same name, in the app or by command.
Others ==
  /\ ~calm
  /\ \/ \E answer \in Answers : \/ MarketplaceAdd(Theirs, answer) \/ MarketplaceRemove(answer)
                                \/ PluginAdd(answer) \/ PluginRemove(answer)
     \/ disabled' = ~disabled /\ UNCHANGED <<recopies, source, installed, present, calm>>
     \/ present' = ~present /\ UNCHANGED <<recopies, source, installed, disabled, calm>>
  /\ codex' # codex /\ alone' = FALSE
  /\ UNCHANGED <<tree, delivered, step, goal, market, outcome, before>>

\* From here on there is a working `codex`, and only the client uses it.
Settle ==
  /\ ~calm /\ present /\ ~disabled /\ calm' = TRUE
  /\ UNCHANGED <<recopies, source, installed, disabled, present, client>>

Next == Start \/ Run \/ Upgrade \/ Killed \/ Others \/ Settle

Spec == Init /\ [][Next]_vars
\* A client registers at its every start, and a command ends.
FairSpec == Spec /\ WF_vars(Start) /\ WF_vars(Run)

---------------------------------------------------------------------------
(* Properties.                                                             *)

\* confirmed_delivery: when a run reports a delivery that nobody interfered
\* with, what Codex holds is the client's own release and no copy of others'.
ConfirmedIsDelivered ==
  step = "idle" /\ alone /\ ConfirmedDelivery(outcome) => installed = Copy(Ours)

\* "whatever was installed before is still installed" of a plain failure, and
\* RemovedNotReinstalled is the only outcome that leaves it uninstalled.
FailedKeepsInstalled ==
  step = "idle" /\ alone =>
    /\ outcome \in {"Failed", "Skipped", "CliAbsent"} => installed = before
    /\ outcome = "RemovedNotReinstalled" => installed = None

\* Whoever interferes: the run that takes the plugin away either reports that
\* or there is one again when it ends.
LossIsReported ==
  [][step = "reinstall" /\ step' = "idle" /\ outcome' \notin {"none", "RemovedNotReinstalled"}
       => installed' # None]_vars

\* Whatever state others have left behind, once they are done the client's
\* release is installed in the end: except where `codex` does not copy again
\* and the bookkeeping has that release as delivered before.
Delivers ==
  calm ~> /\ calm
          /\ \/ installed = Copy(Ours)
             \/ installed # None /\ ~recopies /\ delivered = tree

\* Documented on MarketplaceOutcome: where the client replaces a marketplace,
\* the following add copies the plugin from the new root.
ReplacedIsRecopied ==
  step = "idle" /\ alone /\ market = "Replaced" /\ outcome \in {"Installed", "AlreadyInstalled", "Refreshed"}
    => installed = Copy(Ours)
=============================================================================
