----------------------------- MODULE CodexConfig -----------------------------
(***************************************************************************)
(* The Codex provider patch in a user's config.toml (config/codex.rs): a   *)
(* consumer installs, re-installs under another header or auth mode and    *)
(* removes it, and the user edits the file in between.  The document is    *)
(* its keys; layout and comments are left out.                             *)
(***************************************************************************)
EXTENDS FiniteSets

CONSTANTS
  Headers,     \* names of request headers
  Routes,      \* what a patch declares: the display name and base_url
  Absent       \* no such key

ASSUME ConfigAssumption ==
  /\ Absent \notin Headers \cup Routes
  /\ Absent \notin {"ours", "theirs", "table", "inline", "on", "off"}

Ours == "ours"           \* the provider's id, also as a header's value
Theirs == "theirs"

VARIABLES
  config,      \* the document
  last         \* the patch that it was last written for, Absent once it was removed
               \* or the user has edited what it owns

cfgVars == <<config, last>>

Auths == {"ChatGpt", "ApiKey"}
Patch == [route : Routes, header : Headers \cup {Absent}, auth : Auths, instructions : BOOLEAN, retires : BOOLEAN]

NoHeaders == [h \in Headers |-> Absent]
Provider == [shape : {"table", "inline"}, route : Routes \cup {Absent},
             keys : SUBSET {"requires_openai_auth", "env_key", "env_key_instructions"},
             box : {Absent, "table", "inline"},           \* http_headers
             sent : [Headers -> {Ours, Theirs, Absent}]]  \* its entries
Fresh == [shape |-> "table", route |-> Absent, keys |-> {}, box |-> Absent, sent |-> NoHeaders]

\* No provider and no patch is taken for the lack of one.
ASSUME ProviderAssumption == Absent \notin Provider
ASSUME PatchAssumption == Absent \notin Patch

Config == [selected : {Ours, Theirs, Absent},             \* model_provider
           providers : {Absent, "table", "inline"},       \* model_providers
           others : BOOLEAN,                              \* another provider in it
           provider : Provider \cup {Absent},
           compression : {Absent, "on", "off"},
           overrides : SUBSET {"retired", Theirs}]        \* shell_environment_policy.set
Empty == [selected |-> Absent, providers |-> Absent, others |-> FALSE, provider |-> Absent,
          compression |-> Absent, overrides |-> {}]

CfgTypeOK == config \in Config /\ last \in Patch \cup {Absent}

CfgInit == config = Empty /\ last = Absent

---------------------------------------------------------------------------
(* The grammar.                                                            *)

\* Mutant: nothing is stale.
KeepsAll(p, header) == p

\* Entries of the shape that only a patch writes, but for the current header, go;
\* and the box, if that emptied it and no entry is to follow.
ScrubStaleAttributionHeaders(p, header) ==
  LET stale == {h \in Headers : p.sent[h] = Ours /\ h # header}
      sent == [h \in Headers |-> IF h \in stale THEN Absent ELSE p.sent[h]]
      emptied == stale # {} /\ header = Absent /\ sent = NoHeaders
  IN  [p EXCEPT !.sent = sent, !.box = IF emptied THEN Absent ELSE @]

WithHeader(p, header) ==
  IF header = Absent THEN p
  ELSE [p EXCEPT !.box = "table", !.sent = [@ EXCEPT ![header] = Ours]]

\* One mode's keys are set and the other's removed.
AuthKeys(keys, patch) ==
  IF patch.auth = "ChatGpt" THEN {"requires_openai_auth"}
  ELSE {"env_key"} \cup {k \in {"env_key_instructions"} : patch.instructions}

\* A key to write through is there and no standard table (features as well: left
\* out); nothing is written then.
NotATable(c, patch) ==
  \/ c.providers = "inline"
  \/ c.provider # Absent /\ c.provider.shape = "inline"
  \/ c.provider # Absent /\ c.provider.box = "inline" /\ patch.header # Absent

ApplyProvider(c, patch) ==
  LET old == IF c.provider = Absent THEN Fresh ELSE c.provider
      p == WithHeader(ScrubStaleAttributionHeaders(old, patch.header), patch.header)
  IN  [selected |-> Ours, providers |-> "table", others |-> c.others,
       provider |-> [p EXCEPT !.route = patch.route, !.keys = AuthKeys(@, patch)],
       compression |-> "off",
       overrides |-> c.overrides \ {o \in {"retired"} : patch.retires}]

\* The text that a patch gives.
IsProviderApplied(c, patch) == ~NotATable(c, patch) /\ ApplyProvider(c, patch) = c

\* Mutant: the container stays.
RemoveEntry(c) == [c EXCEPT !.selected = IF @ = Ours THEN Absent ELSE @, !.provider = Absent]

\* The selection if it is ours, the declaration, and its container if that is
\* empty now.
RemoveProvider(c) ==
  [c EXCEPT !.selected = IF @ = Ours THEN Absent ELSE @, !.provider = Absent,
            !.providers = IF c.provider # Absent /\ ~c.others THEN Absent ELSE @]

---------------------------------------------------------------------------
(* The consumer.                                                           *)

Install(patch) ==
  /\ ~NotATable(config, patch)
  /\ config' = ApplyProvider(config, patch) /\ last' = patch

Uninstall == config' = RemoveProvider(config) /\ last' = Absent

---------------------------------------------------------------------------
(* The user.                                                               *)

\* What is not the patch's: another selection, another provider, headers of his
\* own, his overrides and those an earlier installer has left.
Edit ==
  \/ /\ config.selected # Theirs /\ config' = [config EXCEPT !.selected = Theirs]
     /\ last' = Absent
  \/ /\ config' = [config EXCEPT !.others = TRUE, !.providers = IF @ = Absent THEN "table" ELSE @]
     /\ UNCHANGED last
  \/ \E h \in Headers :
       /\ config.provider # Absent /\ config.provider.sent[h] = Absent
       /\ config' = [config EXCEPT !.provider.sent[h] = Theirs,
                                   !.provider.box = IF @ = Absent THEN "table" ELSE @]
       /\ UNCHANGED last
  \/ /\ config.overrides = {} /\ config' = [config EXCEPT !.overrides = {"retired", Theirs}]
     /\ last' = Absent
  \/ /\ config.compression # "on" /\ config' = [config EXCEPT !.compression = "on"]
     /\ last' = Absent

\* He writes tables in line (a container with another provider in it).
Inline ==
  \/ /\ config.providers = Absent
     /\ config' = [config EXCEPT !.providers = "inline", !.others = TRUE] /\ UNCHANGED last
  \/ /\ config.provider # Absent /\ config.provider.box = "table"
     /\ config' = [config EXCEPT !.provider.box = "inline"] /\ last' = Absent
  \/ /\ config.provider # Absent
     /\ config' = [config EXCEPT !.provider.shape = "inline",
                                 !.provider.box = IF @ = Absent THEN Absent ELSE "inline"]
     /\ last' = Absent

CfgNext == (\E patch \in Patch : Install(patch)) \/ Uninstall \/ Edit \/ Inline

CfgSpec == CfgInit /\ [][CfgNext]_cfgVars

---------------------------------------------------------------------------
(* Properties.                                                             *)

\* What the patch owns of a document.
Managed(c) ==
  <<c.selected, c.provider.route, c.provider.keys, {h \in Headers : c.provider.sent[h] = Ours},
    c.compression>>

\* However a document got there, after an installation it says what a first
\* installation of that patch says, with nothing of an earlier one, and an
\* installer finds nothing to do.
InstalledIsCanonical ==
  last # Absent => /\ Managed(config) = Managed(ApplyProvider(Empty, last))
                   /\ IsProviderApplied(config, last)

\* From any document without the provider, an installation and a removal come back
\* to it, but for what they document: the selection, the switch for compression and
\* the overrides that the patch retires.
RoundTrip ==
  config.provider = Absent => \A patch \in Patch : ~NotATable(config, patch) =>
    RemoveProvider(ApplyProvider(config, patch)) =
      [config EXCEPT !.selected = Absent, !.compression = "off",
                     !.overrides = @ \ {o \in {"retired"} : patch.retires}]
=============================================================================
