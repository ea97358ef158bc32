-------------------------- MODULE ForkParentCache --------------------------
(***************************************************************************)
(* Fork-parent discovery of the attribution pipeline: the memo in          *)
(* attribution/pipeline.rs (ForkParentCache, discover_parent_cached) over  *)
(* the bounded transcript scan of attribution/claude/fork_parent.rs        *)
(* (discover_parent).                                                      *)
(*                                                                         *)
(* Every request of a Claude session asks for the session's fork parent.   *)
(* The cache answers, or the request scans the transcript tree: it waits   *)
(* for a permit of the discovery semaphore, then a blocking task scans     *)
(* under a wall-clock budget.  The handler stops waiting at the budget and *)
(* the task, which holds the permit, may outlive it.                       *)
(*                                                                         *)
(* An Instant is kept as its age, which stops growing where the code no    *)
(* longer tells two ages apart.                                            *)
(***************************************************************************)
EXTENDS Integers, FiniteSets

CONSTANTS
  Sids,       \* Claude sessions whose requests are attributed
  NoSid,      \* the session of a handler that is not at work
  Located,    \* those whose session file names a cwd, so a transcript path
  Parents,    \* sessions one of Sids may have been forked from
  NoParent,   \* no lineage: an answer, and the outcome of a scan
  TimedOut,   \* the outcome of a scan that ran out of budget
  Requests,   \* a request handler together with the task it spawned
  Permits,    \* size of the discovery semaphore (64)
  Budget,     \* FORK_PARENT_BUDGET (25 ms)
  Lag,        \* bound on how late a due handler runs, chosen by the model
  Retry,      \* NEGATIVE_RETRY_INTERVAL (1 s)
  GiveUp      \* NEGATIVE_GIVE_UP (30 s)

ASSUME ConstantsAssumption ==
  /\ NoSid \notin Sids /\ Located \subseteq Sids
  /\ NoParent \notin Parents /\ TimedOut \notin Parents /\ TimedOut # NoParent
  /\ IsFiniteSet(Requests)
  /\ Permits \in Nat /\ Budget \in Nat /\ Lag \in Nat
  /\ Retry \in Nat /\ GiveUp \in Nat \ {0}

VARIABLES
  lineage,    \* the true parent of each session; never changes
  onDisk,     \* 0 before the evidence of the fork is readable, then its age
  entries,    \* ForkParentCache.entries
  permits,    \* free permits of the discovery semaphore
  request,    \* the handlers and their scans
  announced   \* history: the answers requests of a session have been given

vars == <<lineage, onDisk, entries, permits, request, announced>>

Answer  == Parents \cup {NoParent}
Outcome == Answer \cup {TimedOut}

\* The longest a probe can take from the start of its deadline to the cache.
ProbeTime == Budget + Lag

\* Ages of the evidence: 1 when it appears, and one more for every tick.
DiskAge == 0 .. ProbeTime + 2

Older(age, cap) == IF age < cap THEN age + 1 ELSE age

---------------------------------------------------------------------------
(* The cache entry of one session.                                         *)

Kind  == {"absent", "parent", "negative", "permanentlyNone"}
Entry == [kind : Kind, parent : Answer, first : 0 .. GiveUp, last : 0 .. Retry]

EntryOf(kind, parent, first) ==
  [kind |-> kind, parent |-> parent, first |-> first, last |-> 0]

Absent          == EntryOf("absent", NoParent, 0)
PermanentlyNone == EntryOf("permanentlyNone", NoParent, 0)
Parent(p)       == EntryOf("parent", p, 0)
Negative(first) == EntryOf("negative", NoParent, first)

\* A negative a tick later.
OlderEntry(entry) ==
  [kind |-> entry.kind, parent |-> entry.parent,
   first |-> Older(entry.first, GiveUp), last |-> Older(entry.last, Retry)]

\* Mutant: a cached negative is never probed again.
AnswersWithoutRetry(entry) == entry.kind # "absent"

\* ForkParentCache::get answers; otherwise the caller is to (re-)discover.
Answers(entry) ==
  \/ entry.kind \in {"parent", "permanentlyNone"}
  \/ entry.kind = "negative" /\ entry.last < Retry

\* Mutant: a slower probe that missed erases a found parent.
InsertErasesParent(entry, outcome) ==
  LET first == IF entry.kind = "negative" THEN entry.first ELSE 0
  IN  IF outcome \in Parents THEN Parent(outcome)
      ELSE IF outcome = NoParent /\ first >= GiveUp THEN PermanentlyNone
      ELSE Negative(first)

\* Mutant: a scan that ran out of budget hardens like one that missed.
InsertHardensTimeouts(entry, outcome) ==
  LET first == IF entry.kind = "negative" THEN entry.first ELSE 0
  IN  IF outcome \in Parents THEN Parent(outcome)
      ELSE IF entry.kind = "parent" THEN entry
      ELSE IF first >= GiveUp THEN PermanentlyNone
      ELSE Negative(first)

\* ForkParentCache::insert, its clock read being age 0.
Insert(entry, outcome) ==
  LET first == IF entry.kind = "negative" THEN entry.first ELSE 0
  IN  IF outcome \in Parents THEN Parent(outcome)
      ELSE IF entry.kind = "parent" THEN entry
      ELSE IF outcome = NoParent /\ first >= GiveUp THEN PermanentlyNone
      ELSE Negative(first)

---------------------------------------------------------------------------
(* A handler and its scan.  "queued": awaiting a permit.  "scanning": the  *)
(* deadline runs, the blocking task holds the permit.  "joined": the task  *)
(* is done and the handler has yet to see it.  "abandoned": the handler is *)
(* gone and the task still runs.                                           *)

Phase       == {"idle", "queued", "scanning", "joined", "abandoned"}
RequestRec  == [phase : Phase, sid : Sids \cup {NoSid}, age : 0 .. ProbeTime + 1, outcome : Outcome]

At(phase, sid) == [phase |-> phase, sid |-> sid, age |-> 0, outcome |-> NoParent]
Idle           == At("idle", NoSid)

InPhase(phase) == {r \in Requests : request[r].phase = phase}
HoldsPermit    == InPhase("scanning") \cup InPhase("abandoned")

\* discover_parent_cached returns: the outcome goes to the cache, and the
\* handler's own outcome (not what the cache then holds) is the answer.
Settle(s, outcome) ==
  /\ entries' = [entries EXCEPT ![s] = Insert(@, outcome)]
  /\ announced' = [announced EXCEPT ![s] =
       @ \cup {IF outcome \in Parents THEN outcome ELSE NoParent}]

TypeOK ==
  /\ lineage \in [Sids -> Answer]
  /\ onDisk \in [Sids -> DiskAge]
  /\ entries \in [Sids -> Entry]
  /\ permits \in 0 .. Permits
  /\ request \in [Requests -> RequestRec]
  /\ announced \in [Sids -> SUBSET Answer]

Init ==
  /\ lineage \in [Sids -> Answer]
  /\ onDisk = [s \in Sids |-> 0]
  /\ entries = [s \in Sids |-> Absent]
  /\ permits = Permits
  /\ request = [r \in Requests |-> Idle]
  /\ announced = [s \in Sids |-> {}]

---------------------------------------------------------------------------
\* The harness writes the child's first user record, its parent's being there
\* (of a session that cannot be located, nobody would see it).
Appear(s) ==
  /\ s \in Located /\ lineage[s] \in Parents /\ onDisk[s] = 0
  /\ onDisk' = [onDisk EXCEPT ![s] = 1]
  /\ UNCHANGED <<lineage, entries, permits, request, announced>>

\* The cache answers a request without a scan.
AnswerFromCache(s) ==
  /\ Answers(entries[s])
  /\ announced' = [announced EXCEPT ![s] = @ \cup {entries[s].parent}]
  /\ UNCHANGED <<lineage, onDisk, entries, permits, request>>

\* No cwd (or no home directory): the miss is cached without a scan.
SettleUnlocated(s) ==
  /\ ~Answers(entries[s]) /\ s \notin Located
  /\ Settle(s, NoParent)
  /\ UNCHANGED <<lineage, onDisk, permits, request>>

\* The cache does not answer: the request calls discover_parent.
Discover(r, s) ==
  /\ request[r].phase = "idle"
  /\ ~Answers(entries[s]) /\ s \in Located
  /\ request' = [request EXCEPT ![r] = At("queued", s)]
  /\ UNCHANGED <<lineage, onDisk, entries, permits, announced>>

\* acquire_owned: only now does the deadline start.
Acquire(r) ==
  /\ request[r].phase = "queued" /\ permits > 0
  /\ permits' = permits - 1
  /\ request' = [request EXCEPT ![r] = At("scanning", @.sid)]
  /\ UNCHANGED <<lineage, onDisk, entries, announced>>

\* What the transcript tree says of s at this moment.
Look(s) == IF onDisk[s] > 0 THEN lineage[s] ELSE NoParent

\* The blocking task ends and drops the permit.  Past the budget it may have
\* noticed the deadline between two reads, or answered from its last read.
Scan(r) ==
  /\ request[r].phase = "scanning"
  /\ permits' = permits + 1
  /\ \E outcome \in {Look(request[r].sid)} \cup
                    (IF request[r].age >= Budget THEN {TimedOut} ELSE {}) :
       request' = [request EXCEPT ![r] =
         [phase |-> "joined", sid |-> @.sid, age |-> @.age, outcome |-> outcome]]
  /\ UNCHANGED <<lineage, onDisk, entries, announced>>

\* The handler sees the task's result, however late it is polled.
Deliver(r) ==
  /\ request[r].phase = "joined"
  /\ Settle(request[r].sid, request[r].outcome)
  /\ request' = [request EXCEPT ![r] = Idle]
  /\ UNCHANGED <<lineage, onDisk, permits>>

\* Mutant: the permit stays with the handler, and is dropped with its wait.
TimeoutDropsPermit(r) ==
  /\ request[r].phase = "scanning" /\ request[r].age >= Budget
  /\ Settle(request[r].sid, TimedOut)
  /\ request' = [request EXCEPT ![r] = At("abandoned", NoSid)]
  /\ permits' = permits + 1
  /\ UNCHANGED <<lineage, onDisk>>

\* The outer timeout: the handler goes on, the task keeps the permit.
Timeout(r) ==
  /\ request[r].phase = "scanning" /\ request[r].age >= Budget
  /\ Settle(request[r].sid, TimedOut)
  /\ request' = [request EXCEPT ![r] = At("abandoned", NoSid)]
  /\ UNCHANGED <<lineage, onDisk, permits>>

\* The client disconnects and the handler's future is dropped.
Disconnect(r) ==
  /\ request[r].phase \in {"queued", "scanning", "joined"}
  /\ request' = [request EXCEPT ![r] =
       IF @.phase = "scanning" THEN At("abandoned", NoSid) ELSE Idle]
  /\ UNCHANGED <<lineage, onDisk, entries, permits, announced>>

\* The task of a handler that is gone ends; nobody sees its result.
FinishAbandoned(r) ==
  /\ request[r].phase = "abandoned"
  /\ permits' = permits + 1
  /\ request' = [request EXCEPT ![r] = Idle]
  /\ UNCHANGED <<lineage, onDisk, entries, announced>>

\* Time passes, but a handler that is due is at most Lag late: one whose
\* deadline runs, and one that a free permit is waiting for.
Tick ==
  /\ \A r \in InPhase("queued") : permits > 0 => request[r].age < Lag
  /\ \A r \in InPhase("scanning") \cup InPhase("joined") : request[r].age < ProbeTime
  /\ entries' = [s \in Sids |->
       IF entries[s].kind = "negative"
         THEN OlderEntry(entries[s])
         ELSE entries[s]]
  /\ request' = [r \in Requests |->
       IF request[r].phase \in {"queued", "scanning", "joined"}
         THEN [request[r] EXCEPT !.age = Older(@, ProbeTime + 1)]
         ELSE request[r]]
  /\ onDisk' = [s \in Sids |->
       IF onDisk[s] > 0 THEN Older(onDisk[s], ProbeTime + 2) ELSE 0]
  /\ UNCHANGED <<lineage, permits, announced>>

Next ==
  \/ \E s \in Sids : Appear(s) \/ AnswerFromCache(s) \/ SettleUnlocated(s)
  \/ \E r \in Requests, s \in Sids : Discover(r, s)
  \/ \E r \in Requests : \/ Acquire(r) \/ Scan(r) \/ Deliver(r) \/ Timeout(r)
                         \/ Disconnect(r) \/ FinishAbandoned(r)
  \/ Tick

Spec == Init /\ [][Next]_vars

\* Requests of every session keep coming, the clock runs, no handler is
\* starved, tasks end, and every so often a scan is fast and its client stays.
Fairness ==
  /\ WF_vars(Tick)
  /\ \A s \in Sids : SF_vars(\E r \in Requests : Discover(r, s))
  /\ \A r \in Requests : /\ SF_vars(Acquire(r))
                         /\ SF_vars(Scan(r) /\ request[r].age < Budget)
                         /\ SF_vars(Deliver(r) /\ request[r].outcome # TimedOut)
                         /\ WF_vars(Deliver(r))
                         /\ WF_vars(Timeout(r))
                         /\ WF_vars(FinishAbandoned(r))

FairSpec == Spec /\ Fairness

---------------------------------------------------------------------------
(* Properties.                                                             *)

\* Discovery work is bounded by the semaphore at all times, across timeouts
\* and disconnects: every permit is free or held by one running blocking task.
PermitsAccounted == permits + Cardinality(HoldsPermit) = Permits

\* A lineage announced to one request is what the cache answers from then on:
\* no slower probe, timeout or late insert makes a later request lose it.
AnnouncedIsCached ==
  \A s \in Sids, p \in Parents :
    p \in announced[s] => p = lineage[s] /\ entries[s] = Parent(p)

\* This step settles s on having no parent.
Hardens(s) ==
  entries[s].kind # "permanentlyNone" /\ entries'[s].kind = "permanentlyNone"

\* The give-up window of s is over, and its evidence is not older than a probe.
WasLooked(s) ==
  /\ entries[s].kind = "negative" /\ entries[s].first >= GiveUp
  /\ onDisk[s] <= ProbeTime + 1

\* A fork is given up on only after its window closed and by a probe that
\* looked: evidence that was readable before that probe could have begun is
\* never hardened away (NEGATIVE_GIVE_UP, "the guaranteed final look").
HardensOnlyAfterFinalLook == [][\A s \in Located : Hardens(s) => WasLooked(s)]_vars

\* A fork whose evidence has been readable for longer than a probe lasts, and
\* that is not given up on, is found: timeouts delay it but never settle it.
LineageFound ==
  \A s \in Located :
    (onDisk[s] > ProbeTime + 1 /\ entries[s].kind # "permanentlyNone")
      ~> entries[s].kind = "parent"

\* Documented on discover_parent ("returns control to the request handler at
\* the budget regardless of what the blocking task is doing"): no handler is
\* kept past the budget by tasks that only the semaphore still waits for.
ControlReturnsAtBudget ==
  InPhase("scanning") = {} => \A r \in Requests : request[r].age <= ProbeTime
=============================================================================
