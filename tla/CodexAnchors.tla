---------------------------- MODULE CodexAnchors ----------------------------
(***************************************************************************)
(* The Codex anchor lane: CodexAnchorScanner of                            *)
(* transcript/codex_anchors.rs between a rollout file that its harness is  *)
(* still appending to and an ingest server that may be out of reach.       *)
(*                                                                         *)
(* The scanner answers which rollouts are worth reading and which anchors  *)
(* are still owed.  Everything around it is a client's: the client here    *)
(* follows the contract the scanner documents (fingerprint, read, post in  *)
(* file order, record what was accepted, record a clean scan only if every *)
(* post was), and the server stores rows under a content hash.             *)
(***************************************************************************)
EXTENDS Integers, Sequences, FiniteSets

CONSTANTS
  Paths,        \* rollout files
  Threads,      \* agent_thread_id
  Calls,        \* event_id
  MaxLines,     \* bound on the lines of a rollout, chosen by the model
  MaxRestarts   \* bound on the client's restarts, chosen by the model

ASSUME ConstantsAssumption == MaxLines \in Nat /\ MaxRestarts \in Nat

VARIABLES
  file,         \* the complete lines of each rollout
  torn,         \* is a further line half written?
  scanner,      \* CodexAnchorScanner.states
  client,       \* the scan under way
  rows,         \* the rows the server stores of each rollout
  live,         \* history: the snapshot of the client's latest tick
  restarts

vars == <<file, torn, scanner, client, rows, live, restarts>>

---------------------------------------------------------------------------
(* Rollout lines.  "other" stands for everything that is not evidence.     *)

Line     == [kind : {"started", "interacted", "other"}, thread : Threads, call : Calls]
IsAnchor(line) == line.kind # "other"

\* Mutant: every spawn call is an anchor of its own.
KeyByCall(line) == <<line.kind, line.thread, line.call>>

\* SubAgentAnchor::dedup_key.
Key(line) ==
  IF line.kind = "started" THEN <<"started", line.thread>>
  ELSE <<"interacted", line.call, line.thread>>

\* parse_subagent_anchors: the lines of f that are the first of their identity.
Anchors(f) ==
  {i \in DOMAIN f :
    /\ IsAnchor(f[i])
    /\ \A j \in 1 .. (i - 1) : IsAnchor(f[j]) => Key(f[j]) # Key(f[i])}

\* fingerprint: length and mtime, which move with every write.
Fingerprint(p) == [lines |-> Len(file[p]), torn |-> torn[p]]
Fingerprints   == [lines : 0 .. MaxLines, torn : BOOLEAN]

---------------------------------------------------------------------------
(* The scanner.  scanned is an Option, delivered a set of dedup keys.      *)

Unscanned == [scanned |-> {}, delivered |-> {}]
Keys      == {Key(line) : line \in Line}
Scan      == [scanned : SUBSET Fingerprints, delivered : SUBSET Keys]

\* Mutant: a rollout once scanned clean is never read again.
NeedsReadOnce(state, fp) == state.scanned = {}

NeedsRead(state, fp) == fp \notin state.scanned

Undelivered(state, f) == {i \in Anchors(f) : Key(f[i]) \notin state.delivered}

\* Mutant: delivering a row of a rollout counts as scanning it.
DeliveredCountsAsScan(state, line) ==
  [scanned |-> {client.fp}, delivered |-> state.delivered \cup {Key(line)}]

RecordDelivered(state, line) ==
  [scanned |-> state.scanned, delivered |-> state.delivered \cup {Key(line)}]

RecordCleanScan(state, fp) ==
  [scanned |-> {fp}, delivered |-> state.delivered]

---------------------------------------------------------------------------
(* The client's scan.  "stat": fingerprinted, about to read.  "posting":   *)
(* owed are the lines still to post in this scan.                          *)

Client == [phase : {"idle", "stat", "posting"}, path : Paths, fp : Fingerprints,
           owed : SUBSET (1 .. MaxLines), failed : BOOLEAN]

Step(phase, owed, failed) ==
  [phase |-> phase, path |-> client.path, fp |-> client.fp, owed |-> owed, failed |-> failed]

TypeOK ==
  /\ file \in [Paths -> Seq(Line)] /\ \A p \in Paths : Len(file[p]) <= MaxLines
  /\ torn \in [Paths -> BOOLEAN]
  /\ scanner \in [Paths -> Scan]
  /\ client \in Client
  /\ rows \in [Paths -> SUBSET Line]
  /\ live \in SUBSET Paths
  /\ restarts \in 0 .. MaxRestarts

Init ==
  /\ file = [p \in Paths |-> <<>>]
  /\ torn = [p \in Paths |-> FALSE]
  /\ scanner = [p \in Paths |-> Unscanned]
  /\ \E p \in Paths :
       client = [phase |-> "idle", path |-> p, fp |-> [lines |-> 0, torn |-> FALSE],
                 owed |-> {}, failed |-> FALSE]
  /\ rows = [p \in Paths |-> {}]
  /\ live = {}
  /\ restarts = 0

---------------------------------------------------------------------------
(* The harness.                                                            *)

StartLine(p) ==
  /\ ~torn[p] /\ Len(file[p]) < MaxLines
  /\ torn' = [torn EXCEPT ![p] = TRUE]
  /\ UNCHANGED <<file, scanner, client, rows, live, restarts>>

FinishLine(p, line) ==
  /\ torn[p]
  /\ torn' = [torn EXCEPT ![p] = FALSE]
  /\ file' = [file EXCEPT ![p] = Append(@, line)]
  /\ UNCHANGED <<scanner, client, rows, live, restarts>>

---------------------------------------------------------------------------
(* The client.                                                             *)

\* A tick begins: retain_live forgets the rollouts the snapshot does not list.
RetainLive(snapshot) ==
  /\ client.phase = "idle" /\ snapshot # live
  /\ live' = snapshot
  /\ scanner' = [p \in Paths |-> IF p \in snapshot THEN scanner[p] ELSE Unscanned]
  /\ UNCHANGED <<file, torn, client, rows, restarts>>

\* A rollout of the snapshot is fingerprinted and found worth reading.
Stat(p) ==
  /\ client.phase = "idle" /\ p \in live
  /\ NeedsRead(scanner[p], Fingerprint(p))
  /\ client' = [phase |-> "stat", path |-> p, fp |-> Fingerprint(p),
                owed |-> {}, failed |-> FALSE]
  /\ UNCHANGED <<file, torn, scanner, rows, live, restarts>>

\* It is read, as it is by then; a line that is half written does not parse.
Read ==
  /\ client.phase = "stat"
  /\ client' = Step("posting", Undelivered(scanner[client.path], file[client.path]), FALSE)
  /\ UNCHANGED <<file, torn, scanner, rows, live, restarts>>

\* It is gone, or cannot be read.
ReadFails ==
  /\ client.phase = "stat"
  /\ client' = Step("idle", {}, FALSE)
  /\ UNCHANGED <<file, torn, scanner, rows, live, restarts>>

\* The next line to post.
IsNext(i) ==
  client.phase = "posting" /\ i \in client.owed /\ \A j \in client.owed : i <= j

\* The server stores the row, or has it already, and says so.
PostAccepted(i) ==
  LET p == client.path
  IN  /\ IsNext(i)
      /\ rows' = [rows EXCEPT ![p] = @ \cup {file[p][i]}]
      /\ scanner' = [scanner EXCEPT ![p] = RecordDelivered(@, file[p][i])]
      /\ client' = Step("posting", client.owed \ {i}, client.failed)
      /\ UNCHANGED <<file, torn, live, restarts>>

\* The post fails, before or after the server stored the row; the client goes
\* on with the next line, or gives up on the rollout for this tick.
PostFails(i, stored, rest) ==
  LET p == client.path
  IN  /\ IsNext(i) /\ rest \in {{}, client.owed \ {i}}
      /\ rows' = IF stored THEN [rows EXCEPT ![p] = @ \cup {file[p][i]}] ELSE rows
      /\ client' = Step("posting", rest, TRUE)
      /\ UNCHANGED <<file, torn, scanner, live, restarts>>

\* The scan ends: if nothing failed, it left nothing owed.
EndScan ==
  /\ client.phase = "posting" /\ client.owed = {}
  /\ scanner' = IF client.failed THEN scanner
                ELSE [scanner EXCEPT ![client.path] = RecordCleanScan(@, client.fp)]
  /\ client' = Step("idle", {}, FALSE)
  /\ UNCHANGED <<file, torn, rows, live, restarts>>

\* The client dies and starts anew: the scanner was memory only.
Restart ==
  /\ restarts < MaxRestarts
  /\ restarts' = restarts + 1
  /\ scanner' = [p \in Paths |-> Unscanned]
  /\ client' = Step("idle", {}, FALSE)
  /\ live' = {}
  /\ UNCHANGED <<file, torn, rows>>

Next ==
  \/ \E p \in Paths : StartLine(p) \/ Stat(p)
  \/ \E p \in Paths, line \in Line : FinishLine(p, line)
  \/ \E snapshot \in SUBSET Paths : RetainLive(snapshot)
  \/ Read \/ ReadFails \/ EndScan \/ Restart
  \/ \E i \in 1 .. MaxLines : PostAccepted(i)
  \/ \E i \in 1 .. MaxLines, stored \in BOOLEAN, rest \in SUBSET (1 .. MaxLines) :
       PostFails(i, stored, rest)

Spec == Init /\ [][Next]_vars

\* The client keeps ticking with a rollout in its snapshot, and neither disk
\* nor server fail for ever.
Fairness ==
  /\ \A p \in Paths : /\ WF_vars(RetainLive({p} \cup live))
                      /\ SF_vars(Stat(p))
  /\ SF_vars(Read)
  /\ SF_vars(\E i \in 1 .. MaxLines : PostAccepted(i))
  /\ WF_vars(EndScan)

FairSpec == Spec /\ Fairness

---------------------------------------------------------------------------
(* Properties.                                                             *)

\* Do two lines tell of one event?  A thread starts once; it is interacted with
\* once per call.
SameEvent(a, b) ==
  a.kind = b.kind /\ a.thread = b.thread /\ (a.kind = "interacted" => a.call = b.call)

\* Is the event that line tells of in the set stored?
Stored(stored, line) == \E row \in stored : SameEvent(row, line)

\* The lane implements the ledger: whatever the order of writes, reads, lost
\* answers, snapshots and restarts, the server only ever gains lines that the
\* rollout offers, and the first line of each event.
Offered == [p \in Paths |-> {file[p][i] : i \in Anchors(file[p])}]
Ledger  == INSTANCE AnchorLedger WITH offered <- Offered, Same <- SameEvent
LedgerSpec == Ledger!Spec

\* Does line i of p tell of an event, and is the event stored?
Tells(p, i) == i \in DOMAIN file[p] /\ IsAnchor(file[p][i])
Known(p, i) == Tells(p, i) /\ Stored(rows[p], file[p][i])

\* A rollout that is not read again hides nothing: when its fingerprint is that
\* of the last clean scan, the server knows every spawn and re-entry in it.
SkippedIsStored ==
  \A p \in Paths :
    ~NeedsRead(scanner[p], Fingerprint(p)) =>
      \A i \in 1 .. MaxLines : Tells(p, i) => Known(p, i)

\* Every spawn and re-entry in a rollout that stays in the snapshots is stored
\* in the end, through failures, forgotten bookkeeping and restarts.
AnchorsArrive ==
  \A p \in Paths, i \in 1 .. MaxLines :
    (Tells(p, i) /\ <>[](p \in live)) ~> Known(p, i)
=============================================================================
