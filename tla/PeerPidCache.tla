---------------------------- MODULE PeerPidCache ----------------------------
(***************************************************************************)
(* tapes-capture's peer_pid.rs: which process owns the loopback socket on  *)
(* the other end of an accepted connection, with the process-global memo   *)
(* of peer address to PID in front of the socket-table scan.               *)
(*                                                                         *)
(* lookup asks once, among the PIDs the caller names (the Claude lane);    *)
(* lookup_owner asks among the PIDs of the socket's user, and asks again   *)
(* when a scan misses (the Codex lane).  Both lanes share the memo, which  *)
(* is locked for the check and for the insert and never across the scan.   *)
(*                                                                         *)
(* The kernel side (who holds an address, and for how long a closed one    *)
(* stays out of use) is the environment's.                                 *)
(***************************************************************************)
EXTENDS Integers

CONSTANTS
  Peers,      \* peer socket addresses (the whole SocketAddr is the key)
  Pids,       \* processes that can hold one
  NoPid,      \* no process
  Requests,   \* lookups in flight
  Attempts,   \* OWNER_SCAN_ATTEMPTS (3)
  Ttl,        \* CACHE_TTL (60 s)
  TimeWait,   \* how long a closed address is not given out again
  Lag         \* bound on how long a lookup takes, chosen by the model

ASSUME ConstantsAssumption ==
  /\ NoPid \notin Pids
  /\ Attempts \in Nat \ {0} /\ Ttl \in Nat \ {0}
  /\ TimeWait \in Nat /\ Lag \in Nat /\ Lag < TimeWait

VARIABLES
  holder,     \* the process that holds each address, or held it last
  closed,     \* is the address out of use?
  quiet,      \* if so, for how long
  cache,      \* the memo: the PID, the entry's age, and whether the connection
              \* it describes had closed before it was written (history)
  lookup      \* the lookups in flight

vars == <<holder, closed, quiet, cache, lookup>>

Older(age, cap) == IF age < cap THEN age + 1 ELSE age

CacheEntry == [pid : Pids \cup {NoPid}, age : 0 .. Ttl, late : BOOLEAN]
EntryOf(pid, age, late) == [pid |-> pid, age |-> age, late |-> late]
NoEntry == EntryOf(NoPid, 0, FALSE)

\* An entry whose clock was started after the connection closed, in the last Lag
\* of the address's rest: the entry is still fresh, the address may be in use.
Doubtful(entry) == entry.late /\ entry.age + Lag >= TimeWait

(* "check": about to name its candidates and look in the memo.  "scan": to *)
(* scan for them.  "found": to memoize pid.  "done": answered with pid.    *)
(* left is the number of scans it may still make, truth the process that   *)
(* sent the request, age how long ago it came, and doubt whether a         *)
(* doubtful entry answered (history).                                      *)
Phase  == {"idle", "check", "scan", "found", "done"}
Lookup == [phase : Phase, peer : Peers, truth : Pids, left : 0 .. Attempts,
           among : SUBSET Pids, pid : Pids \cup {NoPid}, age : 0 .. Lag,
           doubt : BOOLEAN]
Active(r) == lookup[r].phase \in {"check", "scan", "found"}

\* The lookup l, moved on.
With(l, phase, left, among, pid, doubt) ==
  [phase |-> phase, peer |-> l.peer, truth |-> l.truth, left |-> left,
   among |-> among, pid |-> pid, age |-> l.age, doubt |-> doubt]

TypeOK ==
  /\ holder \in [Peers -> Pids]
  /\ closed \in [Peers -> BOOLEAN]
  /\ quiet \in [Peers -> 0 .. TimeWait]
  /\ cache \in [Peers -> CacheEntry]
  /\ lookup \in [Requests -> Lookup]

Init ==
  /\ holder \in [Peers -> Pids]
  /\ closed = [p \in Peers |-> TRUE]
  /\ quiet = [p \in Peers |-> TimeWait]
  /\ cache = [p \in Peers |-> NoEntry]
  /\ \E p \in Peers, pid \in Pids :
       lookup = [r \in Requests |->
         [phase |-> "idle", peer |-> p, truth |-> pid, left |-> 0,
          among |-> {}, pid |-> NoPid, age |-> 0, doubt |-> FALSE]]

---------------------------------------------------------------------------
(* The environment.                                                        *)

\* A process connects from an address that has been out of use long enough.
Connect(p, pid) ==
  /\ closed[p] /\ quiet[p] >= TimeWait
  /\ holder' = [holder EXCEPT ![p] = pid]
  /\ closed' = [closed EXCEPT ![p] = FALSE]
  /\ quiet' = [quiet EXCEPT ![p] = 0]
  /\ UNCHANGED <<cache, lookup>>

Close(p) ==
  /\ ~closed[p]
  /\ closed' = [closed EXCEPT ![p] = TRUE]
  /\ UNCHANGED <<holder, quiet, cache, lookup>>

\* Time passes.
Tick ==
  /\ \A r \in Requests : Active(r) => lookup[r].age < Lag
  /\ quiet' = [p \in Peers |-> IF closed[p] THEN Older(quiet[p], TimeWait) ELSE 0]
  /\ cache' = [p \in Peers |->
       IF cache[p] = NoEntry THEN NoEntry
       ELSE EntryOf(cache[p].pid, Older(cache[p].age, Ttl), cache[p].late)]
  /\ lookup' = [r \in Requests |->
       IF Active(r) THEN [lookup[r] EXCEPT !.age = @ + 1] ELSE lookup[r]]
  /\ UNCHANGED <<holder, closed>>

---------------------------------------------------------------------------
(* The lookups.                                                            *)

\* A request over p asks for its process: once, or with lookup_owner's retries.
Begin(r, p, attempts) ==
  /\ lookup[r].phase = "idle" /\ ~closed[p]
  /\ lookup' = [lookup EXCEPT ![r] =
       [phase |-> "check", peer |-> p, truth |-> holder[p], left |-> attempts,
        among |-> {}, pid |-> NoPid, age |-> 0, doubt |-> FALSE]]
  /\ UNCHANGED <<holder, closed, quiet, cache>>

\* An attempt found nobody: the next one follows, or none is the answer.
Miss(r) ==
  lookup' = [lookup EXCEPT ![r] =
    With(@, IF @.left > 1 THEN "check" ELSE "done", @.left - 1, {}, NoPid, FALSE)]

\* The owner lane learns whose processes to ask from the socket table, and the
\* table does not show the socket: a miss that never reaches the memo.
SocketNotListed(r) ==
  /\ lookup[r].phase = "check" /\ Miss(r)
  /\ UNCHANGED <<holder, closed, quiet, cache>>

\* Mutant: the entry is trusted whoever the caller asks about.
HitUnlisted(entry, among) == entry # NoEntry /\ entry.age < Ttl

\* Mutant: an entry answers for as long as its process is a candidate.
HitForever(entry, among) == entry # NoEntry /\ entry.pid \in among

\* cached_lookup: the entry is fresh and names a candidate.
Hit(entry, among) == entry # NoEntry /\ entry.age < Ttl /\ entry.pid \in among

\* cached_lookup under its first lock: a hit answers, anything else is evicted.
Check(r, among) ==
  LET peer == lookup[r].peer
      hit  == Hit(cache[peer], among)
  IN  /\ lookup[r].phase = "check"
      /\ lookup' = [lookup EXCEPT ![r] =
           With(@, IF hit THEN "done" ELSE "scan", @.left, among,
                IF hit THEN cache[peer].pid ELSE NoPid, hit /\ Doubtful(cache[peer]))]
      /\ cache' = IF hit THEN cache ELSE [cache EXCEPT ![peer] = NoEntry]
      /\ UNCHANGED <<holder, closed, quiet>>

\* The scan finds the candidate that holds the socket.
ScanFinds(r) ==
  LET l == lookup[r]
  IN  /\ l.phase = "scan" /\ ~closed[l.peer] /\ holder[l.peer] \in l.among
      /\ lookup' = [lookup EXCEPT ![r] =
           With(@, "found", @.left - 1, @.among, holder[l.peer], FALSE)]
      /\ UNCHANGED <<holder, closed, quiet, cache>>

\* The scan finds nobody: the socket is gone, its owner is no candidate, or the
\* enumeration, which is no consistent snapshot, missed either.
ScanMisses(r) ==
  /\ lookup[r].phase = "scan" /\ Miss(r)
  /\ UNCHANGED <<holder, closed, quiet, cache>>

\* cached_lookup under its second lock: what was found is memoized, as of now.
Memoize(r) ==
  /\ lookup[r].phase = "found"
  /\ cache' = [cache EXCEPT ![lookup[r].peer] =
       EntryOf(lookup[r].pid, 0, closed[lookup[r].peer])]
  /\ lookup' = [lookup EXCEPT ![r] = With(@, "done", @.left, @.among, @.pid, FALSE)]
  /\ UNCHANGED <<holder, closed, quiet>>

\* The caller takes the answer, or is dropped at lookup_owner_async's await.
Leave(r) ==
  /\ lookup[r].phase \in {"done", "check"}
  /\ lookup' = [lookup EXCEPT ![r] = With(@, "idle", 0, {}, NoPid, FALSE)]
  /\ UNCHANGED <<holder, closed, quiet, cache>>

Next ==
  \/ \E p \in Peers, pid \in Pids : Connect(p, pid)
  \/ \E p \in Peers : Close(p)
  \/ Tick
  \/ \E r \in Requests, p \in Peers, attempts \in {1, Attempts} :
       Begin(r, p, attempts)
  \/ \E r \in Requests, among \in SUBSET Pids : Check(r, among)
  \/ \E r \in Requests : \/ SocketNotListed(r) \/ ScanFinds(r) \/ ScanMisses(r)
                         \/ Memoize(r) \/ Leave(r)

Spec == Init /\ [][Next]_vars

---------------------------------------------------------------------------
(* Properties.                                                             *)

\* "An entry that survives TIME_WAIT cannot out-live the connection it described"
\* (CACHE_TTL, peer_pid.rs:53-56): no request is attributed to a process that did
\* not send it, whichever connections used the address before.
AnswerIsOwner ==
  \A r \in Requests :
    lookup[r].phase = "done" => lookup[r].pid \in {lookup[r].truth, NoPid}

\* What an address's rest of TIME_WAIT does give: the only answer that can be wrong
\* is that of an entry whose clock started after its connection had closed, a scan
\* too late (cached_lookup's insert), used in the last of its life.
PromptIsOwner ==
  \A r \in Requests :
    lookup[r].phase = "done" /\ ~lookup[r].doubt =>
      lookup[r].pid \in {lookup[r].truth, NoPid}

\* The lanes share the memo and name different candidates: no lane is answered
\* with a process that only the other one asked about.
AnswerIsCandidate ==
  \A r \in Requests :
    lookup[r].phase = "done" => lookup[r].pid \in lookup[r].among \cup {NoPid}
=============================================================================
