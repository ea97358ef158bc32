---------------------------- MODULE TranscriptLane ----------------------------
(***************************************************************************)
(* How the transcript of one session gets to the server: discovery of its  *)
(* files (files.rs), the trigger (trigger.rs) and the sweep at start       *)
(* (sweep.rs), in a daemon that crashes and restarts and whose pushes      *)
(* fail.  The client around them is not in the repository: its registry,   *)
(* its timer, its backoff and the push are external, modelled as the       *)
(* modules' documentation describes them.  Sessions share nothing: a       *)
(* behaviour follows one.                                                  *)
(*                                                                         *)
(* A file grows by half records: an odd length ends in a torn line.        *)
(***************************************************************************)
EXTENDS Integers, FiniteSets

CONSTANTS
  Main,        \* the main transcript
  Subs,        \* the transcripts of its subagents
  Length,      \* how long a file gets, in half records
  Crashes, Failures,
  None

ASSUME ConstantsAssumption ==
  /\ Main \notin Subs /\ IsFiniteSet(Subs)
  /\ {Length, Crashes, Failures} \subseteq Nat
  /\ None \notin Nat

Files == {Main} \cup Subs

VARIABLES
  len,         \* of each file; 0 while it does not exist
  age,         \* of each file: "new", "quiet" (a quiescence), "old" (the sweep's window)
  alive,       \* whether the harness runs the session
  up,          \* whether the daemon runs
  tracked,     \* whether the session is in its registry
  pushed,      \* the fingerprint of the last successful push of each file
  backoff, due,
  push,        \* the push that is under way: what is left and the fingerprints
  stored,      \* on the server: the records in each file's newest version
  crashes, failures,
  known        \* history: this daemon has had word of the session

disk   == <<len, age, alive>>
memory == <<tracked, pushed, backoff, due, push>>
vars   == <<disk, up, memory, stored, crashes, failures, known>>

---------------------------------------------------------------------------
(* The files.                                                              *)

\* What is complete of a file.
Whole(f) == len[f] \div 2

\* The records that a push of the file carries: a line that is not whole is skipped.
JsonlToRecords(f) == Whole(f)

\* Size and time of the last write: a file only grows.
Fingerprint(f) == len[f]

\* The upload set: empty until the main transcript exists.
SessionFiles == IF len[Main] = 0 THEN {} ELSE {f \in Files : len[f] > 0}

\* Mutant: the main transcript decides for the session.
MainTouched(files) == Main \in files /\ age[Main] # "old"

\* Whether any of the files was written within the sweep's window.
TouchedSince(files) == \E f \in files : age[f] # "old"

---------------------------------------------------------------------------
(* The trigger.                                                            *)

DirtyFiles == {f \in SessionFiles : pushed[f] # Fingerprint(f)}
Dirty == DirtyFiles # {}
Idle == SessionFiles # {} /\ \A f \in SessionFiles : age[f] # "new"

\* Mutant: no safety net.
QuietOnly == ~backoff /\ Dirty /\ (~alive \/ Idle)

\* decide: on exit, after a quiescence, or by the periodic net.
Decides == ~backoff /\ Dirty /\ (~alive \/ Idle \/ due)

---------------------------------------------------------------------------
NoPush == [left |-> {}, prints |-> [f \in Files |-> None], file |-> None, records |-> 0]

TypeOK ==
  /\ len \in [Files -> 0 .. Length]
  /\ age \in [Files -> {"new", "quiet", "old"}]
  /\ alive \in BOOLEAN /\ up \in BOOLEAN /\ tracked \in BOOLEAN
  /\ pushed \in [Files -> (0 .. Length) \cup {None}]
  /\ backoff \in BOOLEAN /\ due \in BOOLEAN
  /\ push \in [left : SUBSET Files, prints : [Files -> (0 .. Length) \cup {None}],
               file : Files \cup {None}, records : 0 .. Length]
  /\ stored \in [Files -> 0 .. Length]
  /\ crashes \in 0 .. Crashes /\ failures \in 0 .. Failures
  /\ known \in BOOLEAN

Init ==
  /\ len = [f \in Files |-> 0] /\ age = [f \in Files |-> "new"]
  /\ alive = TRUE /\ up \in BOOLEAN
  /\ tracked = FALSE /\ pushed = [f \in Files |-> None]
  /\ backoff = FALSE /\ due = FALSE /\ push = NoPush
  /\ stored = [f \in Files |-> 0]
  /\ crashes = 0 /\ failures = 0 /\ known = FALSE

---------------------------------------------------------------------------
(* The harness.                                                            *)

Write(f) ==
  /\ alive /\ len[f] < Length /\ (f # Main => len[Main] > 0)
  /\ len' = [len EXCEPT ![f] = @ + 1] /\ age' = [age EXCEPT ![f] = "new"]
  /\ UNCHANGED <<alive, up, memory, stored, crashes, failures, known>>

Age(f) ==
  /\ len[f] > 0
  /\ \/ age[f] = "new" /\ age' = [age EXCEPT ![f] = "quiet"]
     \/ age[f] = "quiet" /\ age' = [age EXCEPT ![f] = "old"]
  /\ UNCHANGED <<len, alive, up, memory, stored, crashes, failures, known>>

Exit ==
  /\ alive /\ alive' = FALSE
  /\ UNCHANGED <<len, age, up, memory, stored, crashes, failures, known>>

\* The user resumes it: until its first request the daemon has no word of that.
Resume ==
  /\ ~alive /\ alive' = TRUE /\ known' = tracked
  /\ UNCHANGED <<len, age, up, memory, stored, crashes, failures>>

\* A forwarded request is attributed to the session, which enters the registry.
Request ==
  /\ alive /\ up /\ ~tracked /\ tracked' = TRUE /\ known' = TRUE
  /\ UNCHANGED <<disk, up, pushed, backoff, due, push, stored, crashes, failures>>

---------------------------------------------------------------------------
(* The daemon.                                                             *)

\* It starts, and tracks what the sweep finds: best effort, so it may not read
\* the session's directory.
Start ==
  /\ ~up /\ up' = TRUE
  /\ \E readable \in BOOLEAN :
       /\ tracked' = (readable /\ SessionFiles # {} /\ TouchedSince(SessionFiles))
       /\ known' = (readable /\ len[Main] > 0 /\ \E f \in Files : len[f] > 0 /\ age[f] # "old")
  /\ UNCHANGED <<disk, pushed, backoff, due, push, stored, crashes, failures>>

\* What it knew is in memory only.
Crash ==
  /\ up /\ crashes < Crashes
  /\ up' = FALSE /\ crashes' = crashes + 1 /\ known' = FALSE
  /\ tracked' = FALSE /\ pushed' = [f \in Files |-> None]
  /\ backoff' = FALSE /\ due' = FALSE /\ push' = NoPush
  /\ UNCHANGED <<disk, stored, failures>>

\* The periodic interval has passed since the last push.
PeriodPasses ==
  /\ up /\ tracked /\ ~due /\ due' = TRUE
  /\ UNCHANGED <<disk, up, tracked, pushed, backoff, push, stored, crashes, failures, known>>

\* A tick at which the session is to be pushed.
Tick ==
  /\ up /\ tracked /\ push = NoPush /\ Decides
  /\ push' = [left |-> DirtyFiles, prints |-> [f \in Files |-> Fingerprint(f)],
              file |-> None, records |-> 0]
  /\ UNCHANGED <<disk, up, tracked, pushed, backoff, due, stored, crashes, failures, known>>

\* Mutant: the fingerprint is taken again after the push.
PrintAfter(f) == Fingerprint(f)

\* The fingerprint that a successful push of the file stands for.
PrintOf(f) == push.prints[f]

\* It reads the next file, the main transcript first.
Read ==
  /\ push.file = None
  /\ \E f \in push.left :
       /\ Main \in push.left => f = Main
       /\ push' = [left |-> push.left, prints |-> push.prints, file |-> f, records |-> JsonlToRecords(f)]
  /\ UNCHANGED <<disk, up, tracked, pushed, backoff, due, stored, crashes, failures, known>>

Sent ==
  /\ pushed' = [pushed EXCEPT ![push.file] = PrintOf(push.file)]
  /\ push' = IF push.left = {push.file} THEN NoPush
             ELSE [left |-> push.left \ {push.file}, prints |-> push.prints,
                   file |-> None, records |-> 0]
  /\ due' = (push.left # {push.file} /\ due)
  /\ UNCHANGED <<backoff, failures>>

NotSent ==
  /\ failures < Failures /\ failures' = failures + 1
  /\ backoff' = TRUE /\ push' = NoPush
  /\ UNCHANGED <<pushed, due>>

\* It posts what it has read.  The server keys a version by its content; the
\* answer may get lost.
Post ==
  /\ push.file # None
  /\ \/ stored' = [stored EXCEPT ![push.file] = push.records] /\ (Sent \/ NotSent)
     \/ UNCHANGED stored /\ NotSent
  /\ UNCHANGED <<disk, up, tracked, crashes, known>>

BackoffEnds ==
  /\ backoff /\ backoff' = FALSE
  /\ UNCHANGED <<disk, up, tracked, pushed, due, push, stored, crashes, failures, known>>

MayRetire == ~alive /\ ~Dirty

\* The final push is done.
Retire ==
  /\ up /\ tracked /\ push = NoPush /\ MayRetire
  /\ tracked' = FALSE /\ pushed' = [f \in Files |-> None] /\ backoff' = FALSE /\ due' = FALSE
  /\ UNCHANGED <<disk, up, push, stored, crashes, failures, known>>

Harness == (\E f \in Files : Write(f) \/ Age(f)) \/ Exit \/ Resume \/ Request
Daemon == PeriodPasses \/ Tick \/ Read \/ Post \/ BackoffEnds

Next == Harness \/ Start \/ Crash \/ Daemon \/ Retire

Spec == Init /\ [][Next]_vars
\* The daemon is restarted, its timer runs, a post ends and a backoff ends.  Not
\* that a file is ever left alone for a quiescence.
FairSpec ==
  /\ Spec /\ WF_vars(Start)
  /\ WF_vars(PeriodPasses) /\ WF_vars(Tick) /\ WF_vars(Read) /\ WF_vars(Post) /\ WF_vars(BackoffEnds)

---------------------------------------------------------------------------
(* Properties.                                                             *)

AllStored == \A f \in SessionFiles : stored[f] = Whole(f)

\* A file that the trigger takes for clean is on the server to its last whole
\* record, whatever was written while it was pushed.
CleanIsStored == \A f \in SessionFiles : pushed[f] = Fingerprint(f) => stored[f] = Whole(f)

\* The lane implements the mirror: through lost answers, retries and restarts the
\* server's version of a file never falls back and never runs ahead of the file, and
\* the daemon lets go only of a session that is over and complete.
Wholes == [f \in Files |-> Whole(f)]
Care ==
  CASE ~up -> "down"
    [] up /\ tracked -> "minded"
    [] up /\ ~tracked /\ known -> "settled"
    [] up /\ ~tracked /\ ~known -> "unaware"
Copy == INSTANCE Mirror WITH whole <- Wholes, copy <- stored, care <- Care
MirrorSpec == Copy!Spec

\* Through crashes, failed pushes, an exit during a backoff, and with a file that
\* never goes quiet, the transcript arrives in the end.
Lands == <>[](known => AllStored)
=============================================================================
