------------------------------- MODULE Envelope -------------------------------
(***************************************************************************)
(* The X-Tapes-* envelope of one request (tapes-capture: envelope.rs) as   *)
(* the pipeline stamps it (pipeline.rs: stamp), on a request that may have *)
(* brought headers of its own and may pass a second capture client.  A     *)
(* value is its size and whether it can be carried in a header.            *)
(***************************************************************************)
EXTENDS Naturals

CONSTANTS
  Sizes,       \* of encoded values
  Budget,      \* X_TAPES_TOTAL_BUDGET, less what the names take
  NameCap,     \* X_TAPES_SESSION_NAME_CAP
  MetadataCap, \* X_TAPES_METADATA_RAW_CAP
  None

\* The version is treated as the session id is, and left out.
Optional == {"session", "cwd", "name", "parent", "parent-harness", "metadata"}
Header == {"harness"} \cup Optional
Bare == [n \in Header |-> None]

VARIABLES
  headers,     \* each "blank", "unknown", "own" (as it arrived), "ours", or None
  given,       \* the attribution stamped: its values, None while there is none
  stamp        \* how the last client stamped it: "none", "known", "unknown", "undecided"

envVars == <<headers, given, stamp>>

Value == {[size |-> n, sound |-> TRUE] : n \in Sizes} \cup {[size |-> 1, sound |-> FALSE]}
Attribution == [Optional -> Value \cup {None}]
Envelopes == [Header -> {"blank", "unknown", "own", "ours", None}]

ASSUME EnvelopeAssumption ==
  /\ Sizes \subseteq Nat /\ Budget \in Nat /\ NameCap \in Nat /\ MetadataCap \in Nat
  /\ None \notin {"blank", "unknown", "own", "ours"}
  /\ None \notin Value /\ None \notin [Optional -> Value \cup {None}]

EnvTypeOK ==
  /\ headers \in Envelopes
  /\ given = None \/ given \in Attribution
  /\ stamp \in {"none", "known", "unknown", "undecided"}

EnvInit == headers = Bare /\ given = None /\ stamp = "none"

---------------------------------------------------------------------------

\* What a request brings: nothing, an envelope of the harness's own, or a part of one.
Inbound ==
  {[n \in Header |-> IF n \in own THEN "own" ELSE None] :
     own \in {{}, {"harness", "session"}, {"harness", "session", "parent", "parent-harness"},
              {"harness"}, {"session", "cwd"}, {"metadata"}}}
  \cup {[Bare EXCEPT !["harness"] = "unknown", !["session"] = "own"],
        [Bare EXCEPT !["harness"] = "own", !["session"] = "blank"]}

Smaller(a, b) == IF a < b THEN a ELSE b

Fits(s, v) == v # None /\ v.sound /\ v.size <= s.left

\* try_insert_string: dropped if it does not fit or cannot be carried.
TryInsert(s, n, v) ==
  IF Fits(s, v) THEN [headers |-> [s.headers EXCEPT ![n] = "ours"], left |-> s.left - v.size]
  ELSE s

\* Mutant: each half for itself.
TryInsertHalves(s, v, w) == TryInsert(TryInsert(s, "parent", v), "parent-harness", w)

\* try_insert_pair: both or neither.
TryInsertPair(s, v, w) ==
  IF v.sound /\ w.sound /\ v.size + w.size <= s.left
  THEN [headers |-> [s.headers EXCEPT !["parent"] = "ours", !["parent-harness"] = "ours"],
        left |-> s.left - (v.size + w.size)]
  ELSE s

TryInsertParent(s, v, w) ==
  CASE v = None -> s
    [] v # None /\ w = None -> TryInsert(s, "parent", v)
    [] v # None /\ w # None -> TryInsertPair(s, v, w)

\* A name that is too long is cut; metadata that is too large is left out.
Capped(n, v) ==
  CASE v # None /\ n = "name" -> [v EXCEPT !.size = Smaller(@, NameCap)]
    [] v # None /\ n = "metadata" /\ v.size > MetadataCap -> None
    [] OTHER -> v

InjectTapesAttribution(h, a) ==
  LET put(s, n) == TryInsert(s, n, Capped(n, a[n]))
      start == [headers |-> [h EXCEPT !["harness"] = "ours"], left |-> Budget]
      plain == put(put(put(start, "session"), "cwd"), "name")
  IN  put(TryInsertParent(plain, a["parent"], a["parent-harness"]), "metadata").headers

HasCompleteInboundEnvelope(h) ==
  h["harness"] \notin {None, "blank", "unknown"} /\ h["session"] \notin {None, "blank"}

\* The sentinel alone, unless what arrived is complete.
InjectUnattributed(h) ==
  IF HasCompleteInboundEnvelope(h) THEN h ELSE [Bare EXCEPT !["harness"] = "unknown"]

---------------------------------------------------------------------------

\* A capture client stamps a request: it has attributed it, or it has not
\* (UnknownHarness), or it asserts nothing (Undecided).
Stamp(h) ==
  \/ headers' = InjectUnattributed(h) /\ stamp' = "unknown" /\ given' = None
  \/ headers' = h /\ stamp' = "undecided" /\ given' = None
  \/ \E a \in Attribution :
       /\ a["parent"] = None => a["parent-harness"] = None
       /\ headers' = InjectTapesAttribution(h, a) /\ stamp' = "known" /\ given' = a

Arrive == stamp = "none" /\ \E h \in Inbound : Stamp(h)

\* On its way it passes another client, that knows nothing of the connection.
PassOn ==
  /\ stamp = "known"
  /\ headers' = InjectUnattributed(headers) /\ stamp' = "unknown" /\ UNCHANGED given

EnvNext == Arrive \/ PassOn

EnvSpec == EnvInit /\ [][EnvNext]_envVars

---------------------------------------------------------------------------
(* Properties.                                                             *)

\* What was stamped, and what is left of it further on, keeps to its budget, and of
\* a parent in another harness both halves are there or neither: one alone would
\* name another session.
FitsWhole ==
  given # None =>
    LET takes(n) == IF headers[n] = "ours" THEN Capped(n, given[n]).size ELSE 0
    IN  /\ takes("session") + takes("cwd") + takes("name") + takes("parent")
             + takes("parent-harness") + takes("metadata") <= Budget
        /\ given["parent-harness"] # None =>
             (headers["parent"] = "ours" <=> headers["parent-harness"] = "ours")
=============================================================================
