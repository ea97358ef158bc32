---------------------------- MODULE CodexSelect ----------------------------
(***************************************************************************)
(* Which rollout a Codex request belongs to, and the session its turn is   *)
(* filed under: select.rs, the watcher and the readers it rests on, what   *)
(* request.rs makes of the request's own account, and the Codex half of    *)
(* attribute_with_evidence.                                                *)
(*                                                                         *)
(* A rollout file exists for a selection only while it is fresh (ours, and *)
(* written within the recency window).  The watcher replaces its snapshot  *)
(* by what a scan could read.  A request looks again and again until its   *)
(* budget is spent; hook evidence and rollouts arrive meanwhile, in any    *)
(* order.  Requests share nothing but this world: a behaviour follows one. *)
(***************************************************************************)
EXTENDS Integers, FiniteSets

CONSTANTS
  Files,       \* rollout files of sessions configured for this client
  Threads,     \* their ids: root threads (sessions) and sub-threads
  Processes,
  Providers,   \* launch markers
  Id,          \* the thread of each file; a thread's file may be rotated
  Root,        \* the root of each thread
  Parent,      \* its direct parent, Nobody for a root
  Process,     \* the codex process that runs it
  Provider,    \* the provider each process was launched with
  Declares,    \* files that declare themselves a sub-thread's, and its lineage
  Polls,       \* codex_timeout, in polls
  Nobody

ASSUME SelectAssumption ==
  /\ Id \in [Files -> Threads] /\ Root \in [Threads -> Threads]
  /\ Parent \in [Threads -> Threads \cup {Nobody}]
  /\ Process \in [Threads -> Processes] /\ Provider \in [Processes -> Providers]
  /\ Nobody \notin Threads \cup Files \cup Processes \cup Providers
  /\ Declares \subseteq Files /\ Polls \in Nat /\ IsFiniteSet(Files)

\* What is documented of Codex: a sub-thread differs from its root and its
\* parent, and runs in its root's process.
ASSUME FamiliesAssumption ==
  \A t \in Threads :
    /\ Process[Root[t]] = Process[t]
    /\ Parent[t] = Nobody => Root[t] = t
    /\ Parent[t] # Nobody => Root[t] # t /\ Parent[t] # t

\* By contract a marker is fresh for every launch.
ASSUME MarkersAssumption ==
  \A p, q \in Processes : Provider[p] = Provider[q] => p = q

VARIABLES
  fresh,       \* the files written within the window
  snapshot,    \* those of them in the watcher's snapshot
  hooks,       \* the threads that lifecycle hooks have reported
  phase,       \* of the request: "coming", "looking", "asking", "done"
  request,     \* what it states
  wait,        \* whether it waits for exact evidence
  left,        \* what is left of its budget
  recent,      \* the recency fallback of this poll
  retained,    \* the heuristic answer it holds on to
  usable,      \* history: a poll of this request found a usable answer
  answer       \* the outcome

world == <<fresh, snapshot, hooks>>
call  == <<phase, request, wait, left, recent, retained, usable, answer>>
selectVars  == <<world, call>>

---------------------------------------------------------------------------
(* What a request says about itself.                                       *)

Stated == {{}, {"session", "thread"}, {"session", "thread", "parent"}}

Says(t, fields) ==
  [session |-> IF "session" \in fields THEN Root[t] ELSE Nobody,
   thread  |-> IF "thread" \in fields THEN t ELSE Nobody,
   parent  |-> IF "parent" \in fields THEN Parent[t] ELSE Nobody]

Fields == {"session", "thread", "parent"}
Disagree(h, m) == \E k \in Fields : h[k] # Nobody /\ m[k] # Nobody /\ h[k] # m[k]
FirstOf(a, b) == IF a # Nobody THEN a ELSE b

\* Mutant: a request that contradicts itself is believed.
NeverConflicting(h, m) ==
  [session |-> FirstOf(h.session, m.session), thread |-> FirstOf(h.thread, m.thread),
   parent |-> FirstOf(h.parent, m.parent), conflicting |-> FALSE]

\* The headers and the turn-metadata blob, merged and compared.
FromHeaders(h, m) ==
  [session |-> FirstOf(h.session, m.session), thread |-> FirstOf(h.thread, m.thread),
   parent |-> FirstOf(h.parent, m.parent), conflicting |-> Disagree(h, m)]

NoIdentity == [session |-> Nobody, thread |-> Nobody, parent |-> Nobody, conflicting |-> FALSE]

IsChildShaped(identity) ==
  /\ ~identity.conflicting
  /\ identity.session # Nobody /\ identity.thread # Nobody /\ identity.parent # Nobody
  /\ identity.thread # identity.session /\ identity.thread # identity.parent

IdentityRollout(identity) ==
  IF identity.conflicting THEN Nobody ELSE FirstOf(identity.thread, identity.session)

\* A supplied identity supersedes the raw headers.
RolloutEvidence(supplied, identity, headers) ==
  IF supplied THEN IdentityRollout(identity) ELSE FirstOf(headers.thread, headers.session)

Identity == [session : Threads \cup {Nobody}, thread : Threads \cup {Nobody},
             parent : Threads \cup {Nobody}, conflicting : BOOLEAN]
Request == [thread : Threads, identity : Identity, rollout : Threads \cup {Nobody},
            marker : Providers \cup {Nobody}]

\* What a request of a thread says: its headers are those of one thread, its
\* metadata of another; its client compares them, and passes on the marker, or not.
Account == [thread : Threads, first : Threads, headers : Stated, second : Threads,
            metadata : Stated, supplied : BOOLEAN, marked : BOOLEAN]

Heard(a) == Says(a.first, a.headers)
Told(a) == Says(a.second, a.metadata)

Sent(a) ==
  LET identity == IF a.supplied THEN FromHeaders(Heard(a), Told(a)) ELSE NoIdentity
  IN  [thread |-> a.thread, identity |-> identity,
       rollout |-> RolloutEvidence(a.supplied, identity, Heard(a)),
       marker |-> IF a.marked THEN Provider[Process[a.thread]] ELSE Nobody]

\* A request is true, or contradicts itself and its client compares.
Accounts ==
  {a \in Account : \/ a.first = a.thread /\ a.second = a.thread
                   \/ a.supplied /\ Disagree(Heard(a), Told(a))}
Requests == {Sent(a) : a \in Accounts}

---------------------------------------------------------------------------
(* The rungs.                                                              *)

Rungs == {"hook", "child", "marker", "peer", "recent", "none"}
Exact == {"hook", "child"}
NoAnswer == [rung |-> "none", file |-> Nobody]
Found(rung, file) == [rung |-> rung, file |-> file]
Answer == [rung : Rungs, file : Files \cup {Nobody}]
NoTurn == [rung |-> "none", file |-> Nobody, session |-> Nobody]

\* Mutant: when none of them is named, any may be meant.
NarrowOrAll(rollout, files) ==
  LET named == {f \in files : Id[f] = rollout}
  IN  IF rollout = Nobody \/ named = {} THEN files ELSE named

\* The files of the rollout that the request names; none of them is to refuse.
NarrowByRolloutId(rollout, files) ==
  IF rollout = Nobody THEN files ELSE {f \in files : Id[f] = rollout}

\* Of several files of one session, the newest (any may be); several sessions
\* are refused.
OneLiveSession(files) == {f \in files : \A g \in files : Id[g] = Id[f]}

Resolve(rollout, files) == OneLiveSession(NarrowByRolloutId(rollout, files))

\* transcript_matches_child, for the files that could be read.
ChildMatches(identity, files) ==
  IF IsChildShaped(identity)
    THEN {f \in files \cap Declares :
            /\ Id[f] = identity.thread
            /\ Root[Id[f]] = identity.session /\ Parent[Id[f]] = identity.parent}
    ELSE {}

HookExact(identity, files) ==
  {f \in files : ~identity.conflicting /\ identity.thread \in hooks /\ Id[f] = identity.thread}

\* The files that process p holds open, as far as they can be listed and read.
OpenBy(p) == {f \in fresh : Process[Id[f]] = p}

---------------------------------------------------------------------------
SelectTypeOK ==
  /\ fresh \in SUBSET Files /\ snapshot \in SUBSET Files
  /\ hooks \in SUBSET Threads
  /\ phase \in {"coming", "looking", "asking", "done"}
  /\ request \in Request
  /\ wait \in BOOLEAN /\ left \in 0 .. Polls
  /\ recent \in Files \cup {Nobody}
  /\ retained \in Answer /\ usable \in BOOLEAN
  /\ answer \in [rung : Rungs, file : Files \cup {Nobody}, session : Threads \cup {Nobody}]

SelectInit ==
  /\ fresh \in SUBSET Files /\ snapshot = {} /\ hooks = {}
  /\ phase = "coming"
  /\ request \in Requests
  /\ wait = FALSE /\ left = 0 /\ recent = Nobody
  /\ retained = NoAnswer /\ usable = FALSE
  /\ answer = NoTurn

\* codex writes to a rollout.
Write(f) ==
  /\ f \notin fresh /\ fresh' = fresh \cup {f}
  /\ UNCHANGED <<snapshot, hooks, call>>

\* It has not for the length of the window; a poll counts from its start.
Age(f) ==
  /\ f \in fresh /\ phase # "asking"
  /\ fresh' = fresh \ {f} /\ snapshot' = snapshot \ {f}
  /\ UNCHANGED <<hooks, call>>

\* The watcher stores what its scan could read: not a file whose first row is
\* half written, nor what is in a directory that does not open.
Scan ==
  /\ snapshot' \in SUBSET fresh
  /\ UNCHANGED <<fresh, hooks, call>>

\* A lifecycle hook reports a thread.
Hook(t) ==
  /\ hooks' = hooks \cup {t}
  /\ UNCHANGED <<fresh, snapshot, call>>

---------------------------------------------------------------------------
(* select.                                                                 *)

\* The request arrives.
Begin ==
  /\ phase = "coming" /\ phase' = "looking"
  /\ wait' = (~request.identity.conflicting /\ request.identity.thread # Nobody
              /\ (request.identity.thread \in hooks \/ IsChildShaped(request.identity)))
  /\ left' = Polls
  /\ UNCHANGED <<world, request, recent, retained, usable, answer>>

\* Mutant: the envelope is keyed on the rollout that was selected.
SelectedSession(identity, file) == IF file = Nobody THEN Nobody ELSE Id[file]

\* A sub-thread's turn is filed under the root that the request names.
EnvelopeSession(identity, file) ==
  IF IsChildShaped(identity) THEN identity.session
  ELSE IF file = Nobody THEN Nobody ELSE Id[file]

\* The request is answered.
Return(found) ==
  /\ phase' = "done"
  /\ answer' = [rung |-> found.rung, file |-> found.file,
                session |-> EnvelopeSession(request.identity, found.file)]
  /\ wait' = FALSE /\ left' = 0 /\ recent' = Nobody /\ retained' = NoAnswer
  /\ UNCHANGED <<world, request>>

Fallback(file) == IF file = Nobody THEN NoAnswer ELSE Found("recent", file)

\* What a poll without an exact match makes of its answer and its fallback.
Usable(found, fallback) ==
  IF found.file # Nobody THEN found
  ELSE IF request.marker = Nobody THEN Fallback(fallback) ELSE NoAnswer

\* Mutant: a later poll that finds nothing replaces what is retained.
RetainLast(new) == new

\* Of two polls the later one that found something.
Retain(new) == IF new.file # Nobody THEN new ELSE retained

\* Mutant: each poll starts the budget anew.
SleepAgain == left' = left

\* A sleep of one poll, or longer.
Sleep == left' \in 0 .. left - 1

\* A poll has found this (not exact) answer and this fallback.
Decide(found, fallback) ==
  /\ usable' = (usable \/ (wait /\ Usable(found, fallback).file # Nobody))
  /\ \/ /\ ~wait /\ found.file # Nobody
        /\ Return(found)
     \/ /\ wait \/ found.file = Nobody
        /\ left = 0
        /\ Return(IF wait THEN Retain(Usable(found, fallback)) ELSE Usable(found, fallback))
     \/ /\ wait \/ found.file = Nobody
        /\ left > 0 /\ Sleep
        /\ retained' = IF wait THEN Retain(Usable(found, fallback)) ELSE retained
        /\ phase' = "looking" /\ recent' = Nobody
        /\ UNCHANGED <<world, request, wait, answer>>

\* One of the files that a rung has resolved to, or Nobody if it refused.
OneOf(files) == IF files = {} THEN {Nobody} ELSE files

ByMarker == {f \in snapshot : Provider[Process[Id[f]]] = request.marker}

\* The rungs that read the snapshot.
Look ==
  /\ phase = "looking"
  /\ \E fallback \in OneOf(Resolve(request.rollout, snapshot)) :
       LET hook   == HookExact(request.identity, snapshot)
           child  == ChildMatches(request.identity, snapshot)
           marker == Resolve(request.rollout, ByMarker)
       IN  \/ \E f \in hook : Return(Found("hook", f)) /\ UNCHANGED usable
           \/ /\ hook = {} /\ Cardinality(child) = 1
              /\ \E f \in child : Return(Found("child", f))
              /\ UNCHANGED usable
           \/ /\ hook = {} /\ Cardinality(child) # 1
              /\ \E f \in marker : Decide(Found("marker", f), fallback)
           \/ /\ hook = {} /\ Cardinality(child) # 1 /\ marker = {}
              /\ phase' = "asking" /\ recent' = fallback
              /\ UNCHANGED <<world, request, wait, left, retained, usable, answer>>

\* The rung that asks who sent the request and which rollouts it holds open.
Ask ==
  /\ phase = "asking"
  /\ \E seen \in SUBSET OpenBy(Process[request.thread]) :
       \E f \in OneOf(Resolve(request.rollout, seen)) :
         Decide(IF f = Nobody THEN NoAnswer ELSE Found("peer", f), recent)

\* What happens after the answer is another request's.
World ==
  /\ phase # "done"
  /\ \/ \E f \in Files : Write(f) \/ Age(f)
     \/ Scan
     \/ \E t \in Threads : Hook(t)

SelectNext ==
  \/ World
  \/ Begin \/ Look \/ Ask

SelectSpec == SelectInit /\ [][SelectNext]_selectVars
SelectFairSpec == SelectSpec /\ WF_selectVars(Look) /\ WF_selectVars(Ask)

---------------------------------------------------------------------------
(* Properties.                                                             *)

\* A request that names a rollout is attributed to that one or to none: on every
\* rung, over every poll, whatever arrives or ages meanwhile, retained or not.
NamedIsOwn ==
  phase = "done" /\ answer.file # Nobody /\ request.rollout # Nobody
    => Id[answer.file] = request.rollout

\* Whether the accounts that a request gives of itself agree or contradict one
\* another (that they agree on another's is not modelled), its turn goes to no other
\* process's session, unless by recency alone.
AnswerIsOfProcess ==
  phase = "done" /\ answer.rung \notin {"recent", "none"}
    => Process[Id[answer.file]] = Process[request.thread]

\* The turns of a family land on one session: a sub-thread's on its root, even
\* where no rollout was found, and the root's on itself or nowhere.
FamilyIsOne ==
  LET t == request.thread
      full == /\ ~request.identity.conflicting /\ request.identity.thread # Nobody
              /\ Parent[t] # Nobody => request.identity.parent # Nobody
  IN  phase = "done" /\ full
        => answer.session = Root[t] \/ (Parent[t] = Nobody /\ answer.session = Nobody)

\* A request that was held up for exact evidence is not worse off: if any of its
\* polls found an answer, it has one (a snapshot may go transiently empty).
FoundIsKept == phase = "done" /\ usable => answer.file # Nobody

\* Capture never blocks for good: every request is answered.
Answered == phase = "looking" ~> phase = "done"
=============================================================================
