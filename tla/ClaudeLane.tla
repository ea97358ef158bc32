----------------------------- MODULE ClaudeLane -----------------------------
(***************************************************************************)
(* The Claude lane: attribution/claude/watcher.rs and attribute_claude of  *)
(* attribution/pipeline.rs.                                                *)
(*                                                                         *)
(* Every Claude process keeps a file <pid>.json that names its session.    *)
(* Once a period the watcher scans the directory, file by file, and swaps  *)
(* the whole snapshot.  A request from a process looks in the snapshot,    *)
(* and polls until the process has a session in it or a timeout passes.    *)
(*                                                                         *)
(* Instants are kept as ages, which stop growing where no bound of the     *)
(* properties tells two of them apart.                                     *)
(***************************************************************************)
EXTENDS Integers

CONSTANTS
  Pids,       \* processes
  Sessions,   \* sessions their files can name
  NoFile,     \* there is no <pid>.json
  Torn,       \* it does not parse, say because it is being rewritten
  Requests,   \* requests under way
  Period,     \* the watcher's interval (1 s)
  ScanTime,   \* bound on how long a scan takes, longer than Period or not
  Lag,        \* bound on how late a task that is due runs, chosen by the model
  Backlog,    \* bound on how overdue a tick is remembered to be
  Failures,   \* bound on the scans in a row that fail
  Timeout,    \* claude_timeout
  Poll        \* claude_poll

ASSUME ConstantsAssumption ==
  /\ NoFile \notin Sessions /\ Torn \notin Sessions /\ NoFile # Torn
  /\ Period \in Nat \ {0} /\ ScanTime \in Nat /\ Lag \in Nat
  /\ Backlog \in Nat /\ Period <= Backlog /\ Failures \in Nat
  /\ Timeout \in Nat /\ Poll \in Nat \ {0}

VARIABLES
  file,       \* what <pid>.json holds
  ready,      \* history: for how long it has named a session without a break
  said,       \* history: how long ago it last named each session
  snapshot,   \* WatcherSnapshot
  scan,       \* the scan under way, or the last one
  since,      \* time since the interval tick that was served last was due
  failed,     \* how many scans have failed since the one the snapshot is from
  cleared,    \* was the snapshot emptied by one of them?
  request

files   == <<file, ready, said>>
watcher == <<snapshot, scan, since, failed, cleared>>
vars    == <<files, watcher, request>>

\* From the start of a scan to that of the next: a tick that falls due during a scan
\* is served after it.
Cycle   == (IF Period < ScanTime THEN ScanTime ELSE Period) + Lag
\* From a change of a file to the last moment a snapshot shows the old state, after n
\* scans that failed.
Refresh(n) == Cycle + ScanTime + n * Cycle
MaxAge  == Refresh(Failures) + Lag + 1

Older(age, cap) == IF age < cap THEN age + 1 ELSE age

\* What a scan knows of each process: NoFile if it is no candidate, Torn if it
\* is one without metadata.
Content  == Sessions \cup {NoFile, Torn}
Nothing  == [p \in Pids |-> NoFile]
Listed(known) == {p \in Pids : known[p] # NoFile}

(* age is the time since it began, late for how long the next has been due.  *)
ScanRec == [running : BOOLEAN, age : 0 .. Cycle, late : 0 .. Lag, unread : SUBSET Pids,
            known : [Pids -> Content]]

Running(age, unread, known) ==
  [running |-> TRUE, age |-> age, late |-> 0, unread |-> unread, known |-> known]
Ended(age, late) ==
  [running |-> FALSE, age |-> age, late |-> late, unread |-> {}, known |-> Nothing]

(* "asleep": looks again once left is over.  "missed": has looked in vain    *)
(* and is about to ask whether its time is up.  late is for how long it has  *)
(* been due; blind and failed tell of the snapshot that it looked at: whether *)
(* nothing could be found in it, and how many scans had failed since.        *)
RequestRec == [phase : {"idle", "asleep", "missed"}, pid : Pids, waited : 0 .. Timeout,
               left : 0 .. Poll, late : 0 .. Lag, blind : BOOLEAN, failed : 0 .. Failures]

Asleep(pid, waited, left) ==
  [phase |-> "asleep", pid |-> pid, waited |-> waited, left |-> left,
   late |-> 0, blind |-> FALSE, failed |-> 0]
Missed(pid, waited, blind, n) ==
  [phase |-> "missed", pid |-> pid, waited |-> waited, left |-> 0,
   late |-> 0, blind |-> blind, failed |-> n]
Idle(pid) ==
  [phase |-> "idle", pid |-> pid, waited |-> 0, left |-> 0,
   late |-> 0, blind |-> FALSE, failed |-> 0]

TypeOK ==
  /\ file \in [Pids -> Content]
  /\ ready \in [Pids -> 0 .. MaxAge]
  /\ said \in [Pids -> [Sessions -> 0 .. MaxAge]]
  /\ snapshot \in [Pids -> Content]
  /\ scan \in ScanRec
  /\ since \in 0 .. Backlog
  /\ failed \in 0 .. Failures /\ cleared \in BOOLEAN
  /\ request \in [Requests -> RequestRec]

\* spawn scans before anything else can run, and its interval starts there.
Init ==
  /\ file \in [Pids -> Sessions \cup {NoFile}]
  /\ ready = [p \in Pids |-> 0]
  /\ said = [p \in Pids |-> [s \in Sessions |-> IF file[p] = s THEN 0 ELSE MaxAge]]
  /\ snapshot = file
  /\ scan = Ended(0, 0)
  /\ since = 0
  /\ failed = 0 /\ cleared = FALSE
  /\ \E p \in Pids : request = [r \in Requests |-> Idle(p)]

---------------------------------------------------------------------------
\* A process writes, rewrites or removes its file.  A rewrite is seen torn; a
\* session's name may outlive its process, and its number be used again.
Write(p, content) ==
  /\ content # file[p]
  /\ content \in Sessions => file[p] = Torn
  /\ file' = [file EXCEPT ![p] = content]
  /\ ready' = [ready EXCEPT ![p] = 0]
  /\ said' = [said EXCEPT ![p] =
       [s \in Sessions |-> IF content = s THEN 0 ELSE @[s]]]
  /\ UNCHANGED <<watcher, request>>

\* A tick is due: of several that fell due while a scan ran long, each is served
\* as soon as the last one has been.
StartScan ==
  /\ ~scan.running /\ since >= Period
  /\ since' = since - Period
  /\ scan' = Running(0, Pids, Nothing)
  /\ UNCHANGED <<files, snapshot, failed, cleared, request>>

\* The scan comes to the file of p, or to where it is not.
ReadFile(p) ==
  /\ scan.running /\ p \in scan.unread
  /\ scan' = Running(scan.age, scan.unread \ {p}, [scan.known EXCEPT ![p] = file[p]])
  /\ UNCHANGED <<files, snapshot, since, failed, cleared, request>>

Ends == scan.running /\ scan' = Ended(scan.age, 0) /\ UNCHANGED <<files, since, request>>

\* Mutant: what a scan does not find stays in the snapshot.
StoreMerged ==
  /\ Ends /\ scan.unread = {}
  /\ snapshot' = [p \in Pids |-> IF scan.known[p] \in Sessions THEN scan.known[p] ELSE snapshot[p]]
  /\ failed' = 0 /\ cleared' = FALSE

\* The watcher swaps the snapshot for what the scan found.
Store ==
  /\ Ends /\ scan.unread = {}
  /\ snapshot' = scan.known
  /\ failed' = 0 /\ cleared' = FALSE

Fails == Ends /\ failed < Failures /\ failed' = failed + 1

\* The directory cannot be read: the snapshot is swapped for an empty one.
ListingFails ==
  /\ Fails /\ scan.unread = Pids
  /\ snapshot' = Nothing /\ cleared' = TRUE

\* The scan's task panics: the snapshot stays.
TaskFails == Fails /\ UNCHANGED <<snapshot, cleared>>

---------------------------------------------------------------------------
\* A request that names Claude comes in from p.
Begin(r, p) ==
  /\ request[r].phase = "idle"
  /\ request' = [request EXCEPT ![r] = Asleep(p, 0, 0)]
  /\ UNCHANGED <<files, watcher>>

Due(r) == request[r].phase = "asleep" /\ request[r].left = 0

\* attribute_claude_once on one snapshot: the process is a candidate, owns the
\* peer socket, and has metadata.
Attribute(r, session) ==
  /\ Due(r) /\ session \in Sessions /\ snapshot[request[r].pid] = session
  /\ request' = [request EXCEPT ![r] = Idle(@.pid)]
  /\ UNCHANGED <<files, watcher>>

\* It comes up empty.  A peer lookup can fail to find the owner of a socket.
Miss(r, unowned) ==
  /\ Due(r)
  /\ unowned \/ snapshot[request[r].pid] \notin Sessions
  /\ unowned => Listed(snapshot) # {}
  /\ request' = [request EXCEPT ![r] = Missed(@.pid, @.waited, unowned \/ cleared, failed)]
  /\ UNCHANGED <<files, watcher>>

Least(a, b) == IF a < b THEN a ELSE b

\* There is time left: sleep, but not past the deadline.
Sleep(r) ==
  LET remaining == Timeout - request[r].waited
  IN  /\ request[r].phase = "missed" /\ remaining > 0
      /\ request' = [request EXCEPT ![r] = Asleep(@.pid, @.waited, Least(Poll, remaining))]
      /\ UNCHANGED <<files, watcher>>

\* Mutant: the deadline is looked at first, and a request past it looks no more.
GiveUpUnseen(r) ==
  /\ Due(r) /\ request[r].waited = Timeout
  /\ request' = [request EXCEPT ![r] = Idle(@.pid)]
  /\ UNCHANGED <<files, watcher>>

\* There is none: the request goes out unattributed.
GiveUp(r) ==
  /\ request[r].phase = "missed" /\ request[r].waited = Timeout
  /\ request' = [request EXCEPT ![r] = Idle(@.pid)]
  /\ UNCHANGED <<files, watcher>>

\* The client disconnects during a sleep, the lane's only await.
Disconnect(r) ==
  /\ request[r].phase = "asleep"
  /\ request' = [request EXCEPT ![r] = Idle(@.pid)]
  /\ UNCHANGED <<files, watcher>>

Waiting(r) == Due(r) \/ request[r].phase = "missed"
Overdue == ~scan.running /\ since >= Period

\* Time passes; what is due is at most Lag late, and a scan takes ScanTime.
Tick ==
  /\ scan.running => scan.age < ScanTime
  /\ Overdue => scan.late < Lag
  /\ \A r \in Requests : Waiting(r) => request[r].late < Lag
  /\ ready' = [p \in Pids |-> IF file[p] \in Sessions THEN Older(ready[p], MaxAge) ELSE 0]
  /\ said' = [p \in Pids |-> [s \in Sessions |->
       IF file[p] = s THEN 0 ELSE Older(said[p][s], MaxAge)]]
  /\ scan' = IF scan.running THEN Running(scan.age + 1, scan.unread, scan.known)
             ELSE Ended(scan.age + 1, IF Overdue THEN scan.late + 1 ELSE 0)
  /\ since' = Older(since, Backlog)
  /\ request' = [r \in Requests |->
       LET q == request[r]
       IN  [phase |-> q.phase, pid |-> q.pid, blind |-> q.blind, failed |-> q.failed,
            waited |-> IF q.phase = "idle" THEN 0 ELSE Older(q.waited, Timeout),
            left |-> IF q.left > 0 THEN q.left - 1 ELSE 0,
            late |-> IF Waiting(r) THEN q.late + 1 ELSE 0]]
  /\ UNCHANGED <<file, snapshot, failed, cleared>>

Next ==
  \/ \E p \in Pids, content \in Content : Write(p, content)
  \/ StartScan \/ Store \/ ListingFails \/ TaskFails \/ Tick
  \/ \E p \in Pids : ReadFile(p)
  \/ \E r \in Requests, p \in Pids : Begin(r, p)
  \/ \E r \in Requests, session \in Sessions : Attribute(r, session)
  \/ \E r \in Requests, unowned \in BOOLEAN : Miss(r, unowned)
  \/ \E r \in Requests : Sleep(r) \/ GiveUp(r) \/ Disconnect(r)

Spec == Init /\ [][Next]_vars

---------------------------------------------------------------------------
(* Properties.                                                             *)

\* r goes out unattributed in this step, and neither the peer lookup nor a listing
\* that failed had hidden its process from it.
Concedes(r) == GiveUp(r) /\ ~request[r].blind

\* A request goes out unattributed only if its process had not named a session
\* for as long as the watcher takes to refresh, and a cycle more for every scan that
\* failed: the file being rewritten under a scan, scans that run late or longer than
\* the interval and sleeps cut at the deadline lose nothing.
ReadyIsAttributed ==
  [][\A r \in Requests : Concedes(r) =>
       ready[request[r].pid] <= Refresh(request[r].failed) + Lag]_vars

\* A request is attributed to a session that its process's file still named within
\* the last refresh, and a cycle more for every scan that failed: restarts, removals
\* and reused process numbers do not leave older sessions behind, nor do ticks that
\* come in a burst after a scan that ran long.
AnswerIsCurrent ==
  [][\A r \in Requests, s \in Sessions :
       Attribute(r, s) => said[request[r].pid][s] <= Refresh(failed)]_vars
=============================================================================
