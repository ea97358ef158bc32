------------------------ MODULE TranscriptLane_proofs ------------------------
(***************************************************************************)
(* Proofs about what goes to the server (TranscriptLane) and what is read  *)
(* from it (PagedCall).                                                    *)
(*                                                                         *)
(* Files only grow and a push takes its fingerprints before it reads, so   *)
(* what it reads is at least what its fingerprint stands for.  A server    *)
(* version therefore lies between the fingerprint that was last pushed and *)
(* the file; where the two agree it is the file.  A session is forgotten   *)
(* only then, and a session that has ended does not grow.  What a push has *)
(* read is no less than the server has, so the lane implements Mirror.     *)
(*                                                                         *)
(* A walk has collected the first page and those whose cursors it followed *)
(* but for the one it asks for (Course); where it stops there is no other. *)
(***************************************************************************)
EXTENDS TranscriptLane, PagedCall, FiniteSetTheorems, TLAPS

---------------------------------------------------------------------------
(* The lane (TranscriptLane).                                              *)

\* The server's version of a file is between what was pushed of it and the file.
Between ==
  \A f \in Files :
    /\ stored[f] <= Whole(f)
    /\ pushed[f] # None => pushed[f] <= len[f] /\ pushed[f] \div 2 <= stored[f]

\* A push that is under way holds a fingerprint of each file that is left, no
\* older than the last that was pushed and no younger than the file.
Promises ==
  \A f \in push.left :
    /\ push.prints[f] # None /\ push.prints[f] <= len[f]
    /\ pushed[f] # None => pushed[f] <= push.prints[f]

\* What it has read of a file is between the file's fingerprint and the file, and no
\* less than the server has.
Carries ==
  push.file # None =>
    /\ push.file \in push.left
    /\ push.prints[push.file] \div 2 <= push.records /\ push.records <= Whole(push.file)
    /\ stored[push.file] <= push.records

\* A subagent writes once there is a main transcript.
Rooted == \A f \in Files : len[f] > 0 => len[Main] > 0

\* Only a session in the registry of a daemon that runs is pushed, and that daemon
\* has had word of it.
Idles == (~up => ~tracked) /\ (~tracked => push = NoPush) /\ (tracked => known)

\* A session that was forgotten has ended, with all of it on the server.
Ended == up /\ known /\ ~tracked => ~alive /\ AllStored

IInv == TypeOK /\ Between /\ Promises /\ Carries /\ Rooted /\ Idles /\ Ended

---------------------------------------------------------------------------
LEMMA Halves ==
  ASSUME NEW a \in Nat, NEW b \in Nat, a <= b
  PROVE  a \div 2 \in Nat /\ a \div 2 <= b \div 2 /\ a \div 2 <= a
OBVIOUS

LEMMA Types ==
  ASSUME TypeOK
  PROVE  /\ \A f \in Files : /\ len[f] \in Nat /\ Whole(f) \in Nat /\ Whole(f) \in 0 .. Length
                             /\ len[f] \in 0 .. Length
                             /\ stored[f] \in Nat /\ (pushed[f] # None => pushed[f] \in Nat)
                             /\ (push.prints[f] # None => push.prints[f] \in Nat)
         /\ push.left \subseteq Files /\ (push.file # None => push.file \in Files)
         /\ push.records \in Nat /\ push.records \in 0 .. Length
         /\ push.prints \in [Files -> (0 .. Length) \cup {None}]
<1>1. Length \in Nat
  BY ConstantsAssumption
<1>2. ASSUME NEW f \in Files
      PROVE  /\ len[f] \in 0 .. Length /\ stored[f] \in 0 .. Length
             /\ pushed[f] \in (0 .. Length) \cup {None}
             /\ push.prints[f] \in (0 .. Length) \cup {None}
  BY DEF TypeOK
<1>3. ASSUME NEW f \in Files PROVE Whole(f) \in 0 .. Length
  <2>1. len[f] \in Nat /\ len[f] <= Length
    BY <1>1, <1>2
  <2>2. len[f] \div 2 \in Nat /\ len[f] \div 2 <= len[f]
    BY <2>1, Halves
  <2> QED BY <1>1, <2>1, <2>2 DEF Whole
<1> QED BY <1>1, <1>2, <1>3 DEF TypeOK

LEMMA NoPushIs ==
  /\ NoPush \in [left : SUBSET Files, prints : [Files -> (0 .. Length) \cup {None}],
                 file : Files \cup {None}, records : 0 .. Length]
  /\ NoPush.left = {} /\ NoPush.file = None
BY ConstantsAssumption DEF NoPush

\* With no push under way there is nothing to promise.
LEMMA NoPushStep ==
  ASSUME push' = NoPush PROVE Promises' /\ Carries' /\ (~tracked' => push' = NoPush)
BY NoPushIs DEF Promises, Carries

\* A step that leaves files, pushes and the server alone.
LEMMA Unmoved ==
  ASSUME IInv, UNCHANGED <<len, pushed, push, stored>>
  PROVE  Between' /\ Promises' /\ Carries' /\ Rooted' /\ (AllStored => AllStored')
BY DEF IInv, Between, Promises, Carries, Rooted, AllStored, SessionFiles, Whole

\* A file that the trigger takes for clean is stored.
LEMMA Clean == IInv => CleanIsStored
<1> SUFFICES ASSUME IInv, NEW f \in SessionFiles, pushed[f] = Fingerprint(f)
             PROVE  stored[f] = Whole(f)
  BY DEF CleanIsStored
<1>1. f \in Files
  BY DEF SessionFiles
<1>2. len[f] \in Nat /\ stored[f] \in Nat /\ Whole(f) \in Nat /\ Whole(f) = len[f] \div 2
  BY <1>1, Types DEF IInv, Whole
<1>3. pushed[f] # None /\ pushed[f] = len[f]
  BY <1>2, ConstantsAssumption DEF Fingerprint
<1>4. stored[f] <= Whole(f) /\ Whole(f) <= stored[f]
  BY <1>1, <1>2, <1>3 DEF IInv, Between
<1> QED BY <1>2, <1>4

---------------------------------------------------------------------------
(* The steps.                                                              *)

LEMMA WriteStep == ASSUME IInv, NEW f \in Files, Write(f) PROVE IInv'
<1> USE DEF Write, disk, memory
<1>1. /\ len \in [Files -> 0 .. Length] /\ Length \in Nat /\ len[f] < Length /\ len[f] \in Nat
      /\ UNCHANGED <<alive, up, tracked, pushed, backoff, due, push, stored, crashes, failures, known>>
  BY Types, ConstantsAssumption DEF IInv, TypeOK
<1>2. TypeOK'
  BY <1>1 DEF IInv, TypeOK
<1>3. ASSUME NEW g \in Files
      PROVE  len'[g] \in Nat /\ len[g] \in Nat /\ len[g] <= len'[g] /\ Whole(g) <= Whole(g)'
             /\ Whole(g)' \in Nat /\ Whole(g) \in Nat
  <2>1. len'[g] = IF g = f THEN len[f] + 1 ELSE len[g]
    BY <1>1
  <2>2. len'[g] \in Nat /\ len[g] \in Nat /\ len[g] <= len'[g]
    BY <1>1, <2>1, Types DEF IInv
  <2> QED BY <2>2, Halves DEF Whole
<1>4. Between'
  <2> SUFFICES ASSUME NEW g \in Files
               PROVE  /\ stored[g] <= Whole(g)'
                      /\ pushed[g] # None => pushed[g] <= len'[g] /\ pushed[g] \div 2 <= stored[g]
    BY <1>1 DEF Between, Whole
  <2>1. stored[g] \in Nat /\ (pushed[g] # None => pushed[g] \in Nat)
    BY Types DEF IInv
  <2> QED BY <1>3, <2>1 DEF IInv, Between
<1>5. Promises'
  <2> SUFFICES ASSUME NEW g \in push.left
               PROVE  push.prints[g] # None /\ push.prints[g] <= len'[g]
                      /\ (pushed[g] # None => pushed[g] <= push.prints[g])
    BY <1>1 DEF Promises
  <2>1. g \in Files /\ push.prints[g] # None /\ push.prints[g] \in Nat
    BY Types DEF IInv, Promises
  <2> QED BY <1>3, <2>1 DEF IInv, Promises
<1>6. Carries'
  <2> SUFFICES ASSUME push.file # None
               PROVE  push.file \in push.left /\ push.prints[push.file] \div 2 <= push.records
                      /\ push.records <= Whole(push.file)'
                      /\ stored[push.file] <= push.records
    BY <1>1 DEF Carries, Whole
  <2>1. push.file \in Files /\ push.records \in Nat
    BY Types DEF IInv
  <2> QED BY <1>3, <2>1 DEF IInv, Carries
<1>7. Idles' /\ Ended'
  BY <1>1 DEF IInv, Idles, Ended
<1>8. Rooted'
  <2>1. Main \in Files /\ (f # Main => len[Main] > 0) /\ len' = [len EXCEPT ![f] = len[f] + 1]
    BY DEF Files
  <2>2. len'[Main] > 0
    BY <1>1, <1>3, <2>1
  <2> QED BY <2>2 DEF Rooted
<1> QED BY <1>2, <1>4, <1>5, <1>6, <1>7, <1>8 DEF IInv

LEMMA HarnessStep ==
  ASSUME IInv, (\E f \in Files : Age(f)) \/ Exit \/ Resume \/ Request
  PROVE  IInv'
<1>1. UNCHANGED <<len, pushed, push, stored, up>>
  BY DEF Age, Exit, Resume, Request, memory, disk
<1>2. TypeOK'
  <2>1. ASSUME NEW f \in Files, Age(f) PROVE TypeOK'
    BY <2>1 DEF IInv, TypeOK, Age, memory
  <2>2. CASE Exit \/ Resume
    BY <2>2 DEF IInv, TypeOK, Exit, Resume, memory
  <2>3. CASE Request
    BY <2>3 DEF IInv, TypeOK, Request, disk
  <2> QED BY <2>1, <2>2, <2>3
<1>3. Idles' /\ Ended'
  <2>1. CASE \E f \in Files : Age(f)
    BY <1>1, <2>1, Unmoved DEF IInv, Idles, Ended, Age, memory
  <2>2. CASE Exit
    BY <1>1, <2>2, Unmoved DEF IInv, Idles, Ended, Exit, memory
  <2>3. CASE Resume
    BY <1>1, <2>3 DEF IInv, Idles, Ended, Resume, memory
  <2>4. CASE Request
    BY <1>1, <2>4 DEF IInv, Idles, Ended, Request, disk
  <2> QED BY <2>1, <2>2, <2>3, <2>4
<1> QED BY <1>1, <1>2, <1>3, Unmoved DEF IInv

\* A daemon that starts has word of the session exactly when it has it in its registry.
LEMMA StartFinds == ASSUME IInv, Start PROVE known' <=> tracked'
<1>1. PICK readable \in BOOLEAN :
        /\ tracked' = (readable /\ SessionFiles # {} /\ TouchedSince(SessionFiles))
        /\ known' = (readable /\ len[Main] > 0 /\ \E f \in Files : len[f] > 0 /\ age[f] # "old")
  BY DEF Start
<1>2. ASSUME NEW f \in SessionFiles PROVE f \in Files /\ len[f] > 0 /\ len[Main] > 0
  BY DEF SessionFiles, IInv, Rooted
<1>3. ASSUME NEW f \in Files, len[f] > 0, len[Main] > 0 PROVE f \in SessionFiles
  BY <1>3 DEF SessionFiles
<1> QED BY <1>1, <1>2, <1>3 DEF TouchedSince

LEMMA StartStep == ASSUME IInv, Start PROVE IInv'
<1>1. UNCHANGED <<len, age, pushed, push, stored>> /\ push = NoPush
  BY DEF Start, disk, IInv, Idles
<1>2. tracked' \in BOOLEAN /\ known' \in BOOLEAN
  BY DEF Start
<1>3. TypeOK'
  BY <1>2 DEF IInv, TypeOK, Start, disk
<1>4. Idles' /\ Ended'
  BY <1>1, <1>2, StartFinds DEF Idles, Ended, Start
<1> QED BY <1>1, <1>3, <1>4, Unmoved DEF IInv

LEMMA CrashStep == ASSUME IInv, Crash PROVE IInv'
<1> USE DEF Crash, disk
<1>1. TypeOK'
  <2>1. Crashes \in Nat /\ crashes \in 0 .. Crashes
    BY ConstantsAssumption DEF IInv, TypeOK
  <2>2. crashes' \in 0 .. Crashes
    BY <2>1
  <2>3. pushed' \in [Files -> (0 .. Length) \cup {None}]
    OBVIOUS
  <2>4. push' \in [left : SUBSET Files, prints : [Files -> (0 .. Length) \cup {None}],
                   file : Files \cup {None}, records : 0 .. Length]
    BY NoPushIs
  <2> QED BY <2>2, <2>3, <2>4 DEF IInv, TypeOK
<1>2. Between' /\ Rooted'
  BY DEF IInv, Between, Rooted, Whole
<1> QED BY <1>1, <1>2, NoPushStep DEF IInv, Idles, Ended

LEMMA TimerStep == ASSUME IInv, PeriodPasses \/ BackoffEnds PROVE IInv'
<1> USE DEF PeriodPasses, BackoffEnds, disk
<1>1. TypeOK'
  BY DEF IInv, TypeOK
<1>2. UNCHANGED <<len, alive, up, tracked, known, pushed, push, stored>>
  OBVIOUS
<1> QED BY <1>1, <1>2, Unmoved DEF IInv, Idles, Ended

LEMMA TickStep == ASSUME IInv, Tick PROVE IInv'
<1> DEFINE prints == [f \in Files |-> Fingerprint(f)]
           p == [left |-> DirtyFiles, prints |-> prints, file |-> None, records |-> 0]
<1>1. /\ push' = p /\ tracked /\ up
      /\ UNCHANGED <<len, age, alive, up, tracked, pushed, backoff, due, stored, crashes, failures, known>>
  BY DEF Tick, disk
<1>2. /\ DirtyFiles \subseteq Files /\ prints \in [Files -> (0 .. Length) \cup {None}]
      /\ \A f \in Files : prints[f] = len[f]
  BY Types DEF IInv, DirtyFiles, SessionFiles, Fingerprint
<1>3. p.left = DirtyFiles /\ p.prints = prints /\ p.file = None
      /\ p \in [left : SUBSET Files, prints : [Files -> (0 .. Length) \cup {None}],
                file : Files \cup {None}, records : 0 .. Length]
  <2> HIDE DEF prints
  <2> QED BY <1>2, ConstantsAssumption
<1> HIDE DEF p, prints
<1>4. TypeOK'
  BY <1>1, <1>3 DEF IInv, TypeOK
<1>5. Between' /\ Rooted'
  BY <1>1 DEF IInv, Between, Rooted, Whole
<1>6. Promises'
  <2> SUFFICES ASSUME NEW f \in DirtyFiles
               PROVE  prints[f] # None /\ prints[f] <= len[f]
                      /\ (pushed[f] # None => pushed[f] <= prints[f])
    BY <1>1, <1>3 DEF Promises
  <2>1. f \in Files /\ len[f] \in Nat /\ prints[f] = len[f]
    BY <1>2, Types DEF IInv
  <2> QED BY <2>1, ConstantsAssumption DEF IInv, Between
<1>7. Carries' /\ Idles' /\ Ended'
  BY <1>1, <1>3 DEF Carries, IInv, Idles, Ended
<1> QED BY <1>4, <1>5, <1>6, <1>7 DEF IInv

LEMMA ReadStep == ASSUME IInv, Read PROVE IInv'
<1>1. PICK f \in push.left :
        push' = [left |-> push.left, prints |-> push.prints, file |-> f, records |-> JsonlToRecords(f)]
  BY DEF Read
<1>2. UNCHANGED <<len, age, alive, up, tracked, pushed, backoff, due, stored, crashes, failures, known>>
  BY DEF Read, disk
<1>3. /\ f \in Files /\ len[f] \in Nat /\ Whole(f) \in 0 .. Length /\ Whole(f) = len[f] \div 2
      /\ push.prints[f] # None /\ push.prints[f] \in Nat /\ push.prints[f] <= len[f]
      /\ push.left \in SUBSET Files /\ push.prints \in [Files -> (0 .. Length) \cup {None}]
  BY Types DEF IInv, Promises, Whole
<1>4. /\ push'.left = push.left /\ push'.prints = push.prints /\ push'.file = f
      /\ push'.records = Whole(f)
      /\ push' \in [left : SUBSET Files, prints : [Files -> (0 .. Length) \cup {None}],
                    file : Files \cup {None}, records : 0 .. Length]
  BY <1>1, <1>3 DEF JsonlToRecords
<1>5. TypeOK'
  BY <1>2, <1>4 DEF IInv, TypeOK
<1>6. Between' /\ Promises' /\ Rooted'
  BY <1>2, <1>4 DEF IInv, Between, Promises, Rooted, Whole
<1>7. Carries'
  <2>1. push.prints[f] \div 2 <= len[f] \div 2 /\ len[f] \div 2 \in Nat
    BY <1>3, Halves
  <2>2. Whole(f)' = Whole(f)
    BY <1>2 DEF Whole
  <2>3. stored'[f] <= Whole(f)
    BY <1>2, <1>3 DEF IInv, Between
  <2> QED BY <1>1, <1>3, <1>4, <2>1, <2>2, <2>3 DEF Carries
<1>8. tracked
  BY <1>1, NoPushIs DEF IInv, Idles
<1>9. Idles' /\ Ended'
  BY <1>2, <1>8 DEF IInv, Idles, Ended
<1> QED BY <1>5, <1>6, <1>7, <1>9 DEF IInv

\* What the push under way says of its file.
LEMMA InHand ==
  ASSUME IInv, push.file # None
  PROVE  /\ push.file \in push.left /\ push.file \in Files /\ tracked
         /\ push.prints[push.file] \in 0 .. Length /\ push.prints[push.file] # None
         /\ push.prints[push.file] <= len[push.file]
         /\ push.prints[push.file] \div 2 <= push.records /\ push.records <= Whole(push.file)
         /\ pushed[push.file] # None =>
              pushed[push.file] \in Nat /\ pushed[push.file] <= push.prints[push.file]
<1>1. push.file \in push.left /\ push.file \in Files
  BY Types DEF IInv, Carries
<1>2. tracked
  BY <1>1, NoPushIs DEF IInv, Idles
<1>3. push.prints[push.file] \in (0 .. Length) \cup {None}
  BY <1>1, Types DEF IInv
<1> QED BY <1>1, <1>2, <1>3, Types DEF IInv, Carries, Promises

LEMMA PostStep == ASSUME IInv, Post PROVE IInv'
<1> DEFINE f == push.file  n == push.prints[push.file]
<1>1. /\ f # None
      /\ UNCHANGED <<len, age, alive, up, tracked, crashes, known>>
      /\ stored' = [stored EXCEPT ![f] = push.records] \/ (UNCHANGED stored /\ NotSent)
      /\ Sent \/ NotSent
  BY DEF Post, disk
<1>2. /\ f \in push.left /\ f \in Files /\ tracked /\ n \in 0 .. Length /\ n \in Nat /\ n # None
      /\ n <= len[f] /\ n \div 2 <= push.records /\ push.records <= Whole(f)
      /\ push.records \in Nat /\ push.records \in 0 .. Length
      /\ pushed[f] # None => pushed[f] \in Nat /\ pushed[f] <= n
  BY <1>1, InHand, Types, ConstantsAssumption DEF IInv
<1>3. /\ push.left \subseteq Files /\ push.prints \in [Files -> (0 .. Length) \cup {None}]
      /\ stored \in [Files -> 0 .. Length] /\ pushed \in [Files -> (0 .. Length) \cup {None}]
  BY Types DEF IInv, TypeOK
<1>4. /\ stored' \in [Files -> 0 .. Length]
      /\ \A g \in Files : g # f => stored'[g] = stored[g]
      /\ stored'[f] \in {stored[f], push.records}
      /\ Sent /\ ~NotSent => stored'[f] = push.records
  BY <1>1, <1>2, <1>3
<1>5. /\ pushed' \in [Files -> (0 .. Length) \cup {None}]
      /\ \A g \in Files : g # f => pushed'[g] = pushed[g]
      /\ pushed'[f] = pushed[f] \/ (~NotSent /\ pushed'[f] = n)
      /\ NotSent => pushed' = pushed
  <2>1. CASE NotSent
    BY <1>3, <2>1 DEF NotSent
  <2>2. CASE ~NotSent
    <3>1. pushed' = [pushed EXCEPT ![f] = n]
      BY <1>1, <2>2 DEF Sent, PrintOf
    <3> HIDE DEF f, n
    <3> QED BY <1>2, <1>3, <2>2, <3>1
  <2> QED BY <2>1, <2>2
<1>6. Between'
  <2> SUFFICES ASSUME NEW g \in Files
               PROVE  /\ stored'[g] <= Whole(g)
                      /\ pushed'[g] # None => pushed'[g] <= len[g] /\ pushed'[g] \div 2 <= stored'[g]
    BY <1>1 DEF Between, Whole
  <2>1. CASE g # f
    BY <1>4, <1>5, <2>1 DEF IInv, Between
  <2>2. CASE g = f
    <3>1. /\ stored[f] <= Whole(f) /\ stored[f] \in Nat
          /\ pushed[f] # None => pushed[f] <= len[f] /\ pushed[f] \div 2 <= stored[f]
      BY <1>2, Types DEF IInv, Between
    <3>2. pushed[f] # None => pushed[f] \div 2 <= n \div 2 /\ pushed[f] \div 2 \in Nat
      BY <1>2, Halves
    <3>3. n \div 2 \in Nat
      BY <1>2, Halves
    <3>4. pushed[f] # None => pushed[f] \div 2 <= push.records
      <4> HIDE DEF f, n
      <4> QED BY <1>2, <3>2, <3>3
    <3> HIDE DEF f, n
    <3>5. CASE pushed'[f] = pushed[f]
      BY <1>2, <1>4, <2>2, <3>1, <3>4, <3>5
    <3>6. CASE pushed'[f] = n /\ ~NotSent
      BY <1>1, <1>2, <1>4, <2>2, <3>6
    <3> QED BY <1>5, <3>5, <3>6
  <2> QED BY <2>1, <2>2
<1>7. \/ push' = NoPush
      \/ push' = [left |-> push.left \ {f}, prints |-> push.prints, file |-> None, records |-> 0]
  BY <1>1 DEF Sent, NotSent
<1>8. Promises' /\ Carries'
      /\ push' \in [left : SUBSET Files, prints : [Files -> (0 .. Length) \cup {None}],
                    file : Files \cup {None}, records : 0 .. Length]
  <2>1. CASE push' = NoPush
    BY <2>1, NoPushStep, NoPushIs
  <2>2. CASE push' = [left |-> push.left \ {f}, prints |-> push.prints, file |-> None, records |-> 0]
    <3>1. /\ push'.left = push.left \ {f} /\ push'.prints = push.prints /\ push'.file = None
          /\ push' \in [left : SUBSET Files, prints : [Files -> (0 .. Length) \cup {None}],
                        file : Files \cup {None}, records : 0 .. Length]
      BY <1>3, <2>2, ConstantsAssumption
    <3>2. Promises'
      <4> SUFFICES ASSUME NEW g \in push.left, g # f
                   PROVE  push.prints[g] # None /\ push.prints[g] <= len[g]
                          /\ (pushed'[g] # None => pushed'[g] <= push.prints[g])
        BY <1>1, <3>1 DEF Promises
      <4>1. g \in Files /\ pushed'[g] = pushed[g]
        BY <1>3, <1>5
      <4> QED BY <4>1 DEF IInv, Promises
    <3> QED BY <3>1, <3>2 DEF Carries
  <2> QED BY <1>7, <2>1, <2>2
<1>9. TypeOK'
  <2>1. Failures \in Nat /\ failures \in 0 .. Failures /\ due \in BOOLEAN /\ backoff \in BOOLEAN
    BY ConstantsAssumption DEF IInv, TypeOK
  <2>2. CASE Sent
    <3>1. failures' = failures /\ backoff' = backoff /\ due' = (push.left # {f} /\ due)
      BY <2>2 DEF Sent
    <3>2. failures' \in 0 .. Failures /\ backoff' \in BOOLEAN /\ due' \in BOOLEAN
      BY <2>1, <3>1
    <3> QED BY <1>1, <1>4, <1>5, <1>8, <3>2 DEF IInv, TypeOK
  <2>3. CASE NotSent
    <3>1. failures' \in 0 .. Failures /\ backoff' = TRUE /\ due' = due
      BY <2>1, <2>3 DEF NotSent
    <3> QED BY <1>1, <1>4, <1>5, <1>8, <2>1, <3>1 DEF IInv, TypeOK
  <2> QED BY <1>1, <2>2, <2>3
<1>10. Idles' /\ Ended' /\ Rooted'
  BY <1>1, <1>2 DEF IInv, Idles, Ended, Rooted
<1> QED BY <1>6, <1>8, <1>9, <1>10 DEF IInv

LEMMA RetireStep == ASSUME IInv, Retire PROVE IInv'
<1>1. /\ push = NoPush /\ ~alive /\ up /\ tracked' = FALSE /\ DirtyFiles = {}
      /\ UNCHANGED <<len, age, alive, up, push, stored, crashes, failures, known>>
      /\ pushed' = [f \in Files |-> None] /\ backoff' = FALSE /\ due' = FALSE
  BY DEF Retire, disk, MayRetire, Dirty
<1>2. AllStored
  BY <1>1, Clean DEF CleanIsStored, AllStored, DirtyFiles
<1>3. AllStored'
  BY <1>1, <1>2 DEF AllStored, SessionFiles, Whole
<1>4. TypeOK'
  BY <1>1 DEF IInv, TypeOK
<1>5. Between' /\ Rooted'
  BY <1>1 DEF IInv, Between, Rooted, Whole
<1> QED BY <1>1, <1>3, <1>4, <1>5, NoPushStep DEF IInv, Idles, Ended

---------------------------------------------------------------------------
\* The invariant holds at first, with nothing written.
LEMMA InitInv == Init => IInv
<1> SUFFICES ASSUME Init PROVE IInv
  OBVIOUS
<1>1. TypeOK
  <2>1. Length \in Nat /\ Crashes \in Nat /\ Failures \in Nat
    BY ConstantsAssumption
  <2>2. push \in [left : SUBSET Files, prints : [Files -> (0 .. Length) \cup {None}],
                  file : Files \cup {None}, records : 0 .. Length]
    BY NoPushIs DEF Init
  <2>3. len \in [Files -> 0 .. Length] /\ stored \in [Files -> 0 .. Length]
        /\ pushed \in [Files -> (0 .. Length) \cup {None}]
    BY <2>1 DEF Init
  <2>4. age \in [Files -> {"new", "quiet", "old"}]
    BY DEF Init
  <2>5. crashes \in 0 .. Crashes /\ failures \in 0 .. Failures
    BY <2>1 DEF Init
  <2> QED BY <2>2, <2>3, <2>4, <2>5 DEF Init, TypeOK
<1>2. Between
  <2>1. \A f \in Files : Whole(f) \in Nat /\ stored[f] = 0 /\ pushed[f] = None
    BY <1>1, Types DEF Init
  <2> QED BY <2>1 DEF Between
<1>3. Promises /\ Carries /\ Rooted /\ Idles /\ Ended
  BY NoPushIs DEF Init, Promises, Carries, Rooted, Idles, Ended
<1> QED BY <1>1, <1>2, <1>3 DEF IInv

\* Every step keeps it.
LEMMA NextInv == IInv /\ [Next]_vars => IInv'
<1> SUFFICES ASSUME IInv, [Next]_vars PROVE IInv'
  OBVIOUS
<1>1. ASSUME NEW f \in Files, Write(f) PROVE IInv'
  BY <1>1, WriteStep
<1>2. CASE (\E f \in Files : Age(f)) \/ Exit \/ Resume \/ Request
  BY <1>2, HarnessStep
<1>3. CASE Start \/ Crash \/ Retire
  BY <1>3, StartStep, CrashStep, RetireStep
<1>4. CASE PeriodPasses \/ BackoffEnds \/ Tick
  BY <1>4, TimerStep, TickStep
<1>5. CASE Read \/ Post
  BY <1>5, ReadStep, PostStep
<1>6. CASE UNCHANGED vars
  <2>1. UNCHANGED <<len, age, alive, up, tracked, pushed, backoff, due, push, stored, crashes,
                    failures, known>>
    BY <1>6 DEF vars, disk, memory
  <2> QED BY <2>1, Unmoved DEF IInv, TypeOK, Idles, Ended
<1> QED BY <1>1, <1>2, <1>3, <1>4, <1>5, <1>6 DEF Next, Harness, Daemon

\* The inductive invariant of the lane.
THEOREM Invariance == Spec => []IInv
BY InitInv, NextInv, PTL DEF Spec

\* Every variable keeps its type.
THEOREM TypeCorrect == Spec => []TypeOK
<1>1. IInv => TypeOK
  BY DEF IInv
<1> QED BY <1>1, Invariance, PTL

\* A file whose fingerprint is that of its last successful push is on the server to
\* its last whole record, however it grew while it was pushed (decide, fingerprint).
THEOREM CleanFilesAreStored == Spec => []CleanIsStored
BY Invariance, Clean, PTL

\* What a daemon has had word of it does not forget before it is on the server:
\* not in a failed final push, nor in a restart within the sweep's window.
NothingForgotten == up /\ known /\ ~tracked => AllStored

\* A session that a daemon has had word of leaves its registry only with all of it
\* on the server, and a restart within the sweep's window finds it (sweep).
THEOREM NothingIsForgotten == Spec => []NothingForgotten
<1>1. IInv => NothingForgotten
  BY DEF IInv, Ended, NothingForgotten
<1> QED BY <1>1, Invariance, PTL

---------------------------------------------------------------------------
(* The lane implements the mirror.                                         *)

\* What the mirror sees of the lane.
Seen == <<Wholes, stored, Care>>

LEMMA CareIs ==
  ASSUME TypeOK
  PROVE  /\ Care = "down" <=> ~up
         /\ Care = "minded" <=> up /\ tracked
         /\ Care = "settled" <=> up /\ ~tracked /\ known
         /\ Care = "unaware" <=> up /\ ~tracked /\ ~known
         /\ Care \in {"down", "minded", "settled", "unaware"}
BY DEF TypeOK, Care

\* Where all the session has is stored, so is all of every file.
LEMMA StoredIsWhole ==
  ASSUME IInv, AllStored PROVE Wholes = stored
<1>1. ASSUME NEW f \in Files PROVE stored[f] = Whole(f)
  <2>1. /\ len[f] \in Nat /\ Whole(f) = len[f] \div 2 /\ stored[f] \in Nat /\ stored[f] <= Whole(f)
        /\ len[f] > 0 => len[Main] > 0
    BY Types DEF IInv, Between, Rooted, Whole
  <2>2. CASE len[f] > 0
    BY <2>1, <2>2 DEF AllStored, SessionFiles
  <2>3. CASE len[f] = 0
    BY <2>1, <2>3
  <2> QED BY <2>1, <2>2, <2>3
<1>2. stored = [f \in Files |-> stored[f]]
  BY DEF IInv, TypeOK
<1> QED BY <1>1, <1>2 DEF Wholes

LEMMA WriteGrows ==
  ASSUME IInv, IInv', NEW f \in Files, Write(f)
  PROVE  [Copy!Next]_Seen
<1>1. /\ len \in [Files -> 0 .. Length] /\ len[f] \in Nat /\ len' = [len EXCEPT ![f] = len[f] + 1]
      /\ alive /\ UNCHANGED <<up, tracked, known, stored>>
  BY Types DEF Write, memory, IInv, TypeOK
<1>2. Care' = Care /\ Care # "settled"
  <2>1. ~(up /\ ~tracked /\ known)
    BY <1>1 DEF IInv, Ended
  <2> QED BY <1>1, <2>1, CareIs DEF Care, IInv
<1>3. /\ \A g \in Files : g # f => Whole(g)' = Whole(g)
      /\ Whole(f)' = (len[f] + 1) \div 2
  BY <1>1 DEF Whole
<1>4. (len[f] + 1) \div 2 = Whole(f) \/ (len[f] + 1) \div 2 = Whole(f) + 1
  BY <1>1 DEF Whole
<1>5. CASE Whole(f)' = Whole(f)
  BY <1>1, <1>2, <1>3, <1>5 DEF Seen, Wholes
<1>6. CASE Whole(f)' = Whole(f) + 1
  <2>1. Wholes' = [Wholes EXCEPT ![f] = @ + 1]
    BY <1>3, <1>6 DEF Wholes
  <2>2. Copy!Grow(f)
    BY <1>1, <1>2, <2>1 DEF Copy!Grow
  <2> QED BY <2>2 DEF Copy!Next
<1> QED BY <1>3, <1>4, <1>5, <1>6

LEMMA PostAdvances ==
  ASSUME IInv, Post PROVE [Copy!Next]_Seen
<1> DEFINE f == push.file  n == push.records
<1>1. /\ f # None /\ f \in Files /\ Care' = Care /\ Wholes' = Wholes
      /\ stored' = [stored EXCEPT ![f] = n] \/ UNCHANGED stored
  BY InHand DEF Post, disk, Care, Wholes, Whole
<1>2. /\ stored \in [Files -> 0 .. Length] /\ stored[f] \in Nat /\ n \in Nat
      /\ stored[f] <= n /\ n <= Whole(f) /\ Wholes[f] = Whole(f) /\ Whole(f) \in Nat
  BY <1>1, Types DEF IInv, TypeOK, Carries, Wholes
<1> HIDE DEF f, n
<1>3. CASE stored' = [stored EXCEPT ![f] = n] /\ stored[f] < n
  <2>1. Copy!Advance(f, n) /\ n \in stored[f] .. Wholes[f]
    BY <1>1, <1>2, <1>3 DEF Copy!Advance
  <2> QED BY <1>1, <2>1 DEF Copy!Next
<1>4. CASE stored' = [stored EXCEPT ![f] = n] /\ stored[f] = n
  <2>1. stored' = stored
    BY <1>1, <1>2, <1>4
  <2> QED BY <1>1, <2>1 DEF Seen
<1>5. CASE UNCHANGED stored
  BY <1>1, <1>5 DEF Seen
<1> QED BY <1>1, <1>2, <1>3, <1>4, <1>5

\* The steps by which the daemon takes up a session and lets go of it.
LEMMA CareSteps ==
  ASSUME IInv, IInv', Start \/ Crash \/ Request \/ Resume \/ Retire
  PROVE  [Copy!Next]_Seen
<1>1. Wholes' = Wholes /\ stored' = stored
  BY DEF Start, Crash, Request, Resume, Retire, disk, Wholes, Whole
<1>2. TypeOK /\ TypeOK'
  BY DEF IInv
<1>3. /\ Care' = "down" <=> ~up'
      /\ Care' = "minded" <=> up' /\ tracked'
      /\ Care' = "settled" <=> up' /\ ~tracked' /\ known'
      /\ Care' = "unaware" <=> up' /\ ~tracked' /\ ~known'
      /\ Care' \in {"down", "minded", "settled", "unaware"}
  BY <1>2, CareIs DEF TypeOK, Care
<1>4. CASE Start
  <2>1. Care = "down"
    BY <1>2, <1>4, CareIs DEF Start
  <2>2. ~(up' /\ ~tracked' /\ known')
    BY <1>4, StartFinds
  <2>3. Care' \in {"unaware", "minded"}
    BY <1>3, <1>4, <2>2 DEF Start
  <2> QED BY <1>1, <2>1, <2>3 DEF Copy!Next, Copy!Start
<1>5. CASE Crash
  <2>1. Care # "down" /\ Care' = "down"
    BY <1>2, <1>3, <1>5, CareIs DEF Crash
  <2> QED BY <1>1, <2>1 DEF Copy!Next, Copy!Crash
<1>6. CASE Request
  <2>1. ~known
    BY <1>6 DEF Request, IInv, Ended
  <2>2. Care = "unaware" /\ Care' = "minded"
    BY <1>2, <1>3, <1>6, <2>1, CareIs DEF Request
  <2> QED BY <1>1, <2>2 DEF Copy!Next, Copy!Hear
<1>7. CASE Resume
  <2>1. up' = up /\ tracked' = tracked /\ known' = tracked
    BY <1>7 DEF Resume, memory
  <2>2. \/ Care' = Care
        \/ Care = "settled" /\ Care' = "unaware"
    BY <1>2, <1>3, <2>1, CareIs
  <2> QED BY <1>1, <2>2 DEF Copy!Next, Copy!Resume, Seen
<1>8. CASE Retire
  <2>1. DirtyFiles = {} /\ up /\ tracked /\ up' = up /\ ~tracked' /\ known' = known
    BY <1>8 DEF Retire, MayRetire, Dirty
  <2>2. AllStored
    BY <2>1, Clean DEF CleanIsStored, AllStored, DirtyFiles
  <2>3. known
    BY <2>1 DEF IInv, Idles
  <2>4. Care = "minded" /\ Care' = "settled" /\ Wholes = stored
    BY <1>2, <1>3, <2>1, <2>2, <2>3, CareIs, StoredIsWhole
  <2> QED BY <1>1, <2>4 DEF Copy!Next, Copy!Settle
<1> QED BY <1>4, <1>5, <1>6, <1>7, <1>8

\* Every step of the lane is a step of the mirror or leaves it alone.
LEMMA MirrorStep == IInv /\ IInv' /\ [Next]_vars => [Copy!Next]_Seen
<1> SUFFICES ASSUME IInv, IInv', [Next]_vars PROVE [Copy!Next]_Seen
  OBVIOUS
<1>1. ASSUME NEW f \in Files, Write(f) PROVE [Copy!Next]_Seen
  BY <1>1, WriteGrows
<1>2. CASE Post
  BY <1>2, PostAdvances
<1>3. CASE Start \/ Crash \/ Request \/ Resume \/ Retire
  BY <1>3, CareSteps
<1>4. ASSUME UNCHANGED <<len, stored, up, tracked, known>> PROVE [Copy!Next]_Seen
  BY <1>4 DEF Seen, Wholes, Whole, Care
<1>5. CASE (\E f \in Files : Age(f)) \/ Exit
  BY <1>4, <1>5 DEF Age, Exit, memory
<1>6. CASE PeriodPasses \/ Tick \/ Read \/ BackoffEnds \/ UNCHANGED vars
  BY <1>4, <1>6 DEF PeriodPasses, Tick, Read, BackoffEnds, vars, disk, memory
<1> QED BY <1>1, <1>2, <1>3, <1>5, <1>6 DEF Next, Harness, Daemon

\* The lane implements Mirror (MirrorSpec): whatever is lost, repeated or restarted,
\* the server's version of a file never falls back and never runs ahead of it, and
\* the daemon lets go only of a session that is over and complete (decide, sweep).
THEOREM ImplementsMirror == Spec => MirrorSpec
<1>1. Init => Copy!Init
  <2> SUFFICES ASSUME Init PROVE Wholes = [f \in Files |-> 0] /\ stored = Wholes
                                 /\ Care \in {"down", "unaware"}
    BY DEF Copy!Init
  <2>1. TypeOK /\ ~tracked /\ ~known
    BY InitInv DEF Init, IInv
  <2>2. \A f \in Files : Whole(f) = 0
    BY DEF Init, Whole
  <2> QED BY <2>1, <2>2, CareIs DEF Init, Wholes
<1> QED BY <1>1, MirrorStep, Invariance, PTL DEF Spec, MirrorSpec, Copy!Spec, Seen

---------------------------------------------------------------------------
(* The walk over a listing (PagedCall).                                    *)

Got == {pages[i] : i \in 1 .. Len(pages)}

\* The pages collected and the one asked for are the first and those whose
\* cursors were followed, each once; what a page of a listing that held still
\* names is among them.
Course ==
  /\ IsFiniteSet(Got) /\ Cardinality(Got) = Len(pages)
  /\ doing # "done" =>
       /\ outcome = Null /\ carriedOut = 0
       /\ cursor \notin Got /\ Got \cup {cursor} = {First} \cup seen
       /\ steady => \A p \in Got : listing[p] \in Got \cup {cursor, Null, Blank}
  /\ doing = "start" => pages = <<>>

WalkInv == WalkTypeOK /\ Course /\ WalkIsWhole /\ CarriedOutOnce

LEMMA WalkInitInv == WalkInit => WalkInv
<1> SUFFICES ASSUME WalkInit PROVE WalkInv
  OBVIOUS
<1>1. WalkTypeOK
  BY WalkAssumption DEF WalkInit, WalkTypeOK, Listing, Unknown, Pages
<1>2. Got = {} /\ IsFiniteSet({}) /\ Cardinality({}) = 0 /\ Len(pages) = 0
  BY FS_EmptySet DEF WalkInit, Got
<1> QED BY <1>1, <1>2, WalkAssumption DEF WalkInit, WalkInv, Course, WalkIsWhole, CarriedOutOnce

\* A page is added to those collected.
LEMMA CollectsOne ==
  ASSUME WalkInv, pages' = Append(pages, cursor), cursor \notin Got
  PROVE  /\ pages' \in Seq(Pages)
         /\ Got' = Got \cup {cursor}
         /\ IsFiniteSet(Got') /\ Cardinality(Got') = Len(pages')
<1>1. pages \in Seq(Pages) /\ cursor \in Pages /\ Len(pages) \in Nat
  BY DEF WalkInv, WalkTypeOK
<1>2. /\ Len(pages') = Len(pages) + 1
      /\ \A i \in 1 .. Len(pages) : pages'[i] = pages[i]
      /\ pages'[Len(pages) + 1] = cursor
  BY <1>1
<1>3. 1 .. Len(pages') = 1 .. Len(pages) \cup {Len(pages) + 1}
  BY <1>1, <1>2
<1>4. Got' = Got \cup {cursor}
  BY <1>2, <1>3 DEF Got
<1> HIDE DEF Got
<1>5. IsFiniteSet(Got) /\ Cardinality(Got) = Len(pages)
  BY DEF WalkInv, Course
<1>6. IsFiniteSet(Got \cup {cursor}) /\ Cardinality(Got \cup {cursor}) = Cardinality(Got) + 1
  BY <1>5, FS_AddElement
<1> QED BY <1>1, <1>2, <1>4, <1>5, <1>6

LEMMA CollectKeeps ==
  ASSUME WalkInv, doing = "send", Collect, UNCHANGED <<listing, steady>>
  PROVE  WalkInv'
<1>1. /\ WalkTypeOK /\ Course /\ outcome = Null /\ carriedOut = 0
      /\ cursor \notin Got /\ Got \cup {cursor} = {First} \cup seen
      /\ steady => \A p \in Got : listing[p] \in Got \cup {cursor, Null, Blank}
  BY DEF WalkInv, Course
<1>2. /\ pages' \in Seq(Pages) /\ Got' = Got \cup {cursor}
      /\ IsFiniteSet(Got') /\ Cardinality(Got') = Len(pages')
  BY <1>1, CollectsOne DEF Collect
<1>3. listing[cursor] \in Cursors \cup {Null, Blank} /\ cursor \in Pages
  BY <1>1 DEF WalkTypeOK, Listing
<1> HIDE DEF Got
<1>4. CASE Unseen(listing[cursor]) = {}
  <2>1. /\ doing' = "done" /\ outcome' = "ok" /\ carriedOut' = CarriedOut
        /\ UNCHANGED <<cursor, seen, attempt>>
    BY <1>4 DEF Collect
  <2>2. carriedOut' = 1
    BY <1>1, <2>1, WalkAssumption DEF CarriedOut
  <2>3. listing[cursor] \in {Null, Blank} \cup seen
    BY <1>3, <1>4 DEF Unseen, NextOf
  <2>4. WalkTypeOK'
    BY <1>1, <1>2, <2>1, <2>2, WalkAssumption DEF WalkTypeOK
  <2>5. First \in Got' /\ (steady => \A p \in Got' : listing[p] \in Got' \cup {Null, Blank})
    BY <1>1, <1>2, <2>3
  <2>6. WalkIsWhole'
    BY <1>2, <2>5 DEF WalkIsWhole, Got
  <2>7. Course' /\ CarriedOutOnce'
    BY <1>2, <2>1, <2>2 DEF Course, CarriedOutOnce
  <2> QED BY <2>4, <2>6, <2>7 DEF WalkInv
<1>5. CASE Unseen(listing[cursor]) # {}
  <2> DEFINE next == listing[cursor]
  <2>1. /\ cursor' = next /\ seen' = seen \cup Unseen(next)
        /\ attempt' = 1 /\ carriedOut' = 0 /\ doing' = "send" /\ outcome' = outcome
    BY <1>5 DEF Collect
  <2>2. next \in Cursors /\ next \notin seen /\ Unseen(next) = {next}
    BY <1>3, <1>5 DEF Unseen, NextOf
  <2>3. WalkTypeOK'
    BY <1>1, <1>2, <2>1, <2>2, WalkAssumption DEF WalkTypeOK, Pages
  <2>4. next \notin Got'
    BY <1>1, <1>2, <2>2, WalkAssumption
  <2>5. Got' \cup {next} = {First} \cup seen'
    BY <1>1, <1>2, <2>1, <2>2
  <2>6. steady => \A p \in Got' : listing[p] \in Got' \cup {next, Null, Blank}
    BY <1>1, <1>2
  <2>7. Course'
    BY <1>1, <1>2, <2>1, <2>4, <2>5, <2>6 DEF Course
  <2>8. WalkIsWhole' /\ CarriedOutOnce'
    BY <1>1, <2>1, WalkAssumption DEF WalkIsWhole, CarriedOutOnce
  <2> QED BY <2>3, <2>7, <2>8 DEF WalkInv
<1> QED BY <1>4, <1>5

LEMMA WalkNextInv == WalkInv /\ [WalkNext]_walkVars => WalkInv'
<1> SUFFICES ASSUME WalkInv, [WalkNext]_walkVars PROVE WalkInv'
  OBVIOUS
<1>1. WalkTypeOK /\ Course /\ WalkIsWhole /\ CarriedOutOnce
  BY DEF WalkInv
<1>2. CASE Walk
  <2>1. WalkTypeOK'
    BY <1>1, <1>2 DEF Walk, WalkTypeOK
  <2>2. Got' = Got /\ Got = {} /\ pages' = pages
    BY <1>1, <1>2 DEF Walk, Course, Got
  <2>3. Course'
    BY <1>1, <1>2, <2>2 DEF Walk, Course
  <2>4. WalkIsWhole' /\ CarriedOutOnce'
    BY <1>1, <1>2, WalkAssumption DEF Walk, Course, WalkIsWhole, CarriedOutOnce
  <2> QED BY <2>1, <2>3, <2>4 DEF WalkInv
<1>3. CASE Change
  <2>1. WalkTypeOK'
    BY <1>1, <1>3 DEF Change, WalkTypeOK
  <2>2. Got' = Got /\ pages' = pages
    BY <1>3 DEF Change, Got
  <2>3. Course'
    BY <1>1, <1>3, <2>2 DEF Change, Course
  <2>4. WalkIsWhole' /\ CarriedOutOnce'
    BY <1>1, <1>3, WalkAssumption DEF Change, Course, WalkIsWhole, CarriedOutOnce
  <2> QED BY <2>1, <2>3, <2>4 DEF WalkInv
<1>4. ASSUME doing # "done", UNCHANGED <<listing, steady, cursor, seen, pages>>,
             attempt' \in 1 .. MaxAttempts,
             \/ doing' = "done" /\ outcome' = "failed" /\ carriedOut' \in {0, 1}
             \/ doing' \in {"send", "judge"} /\ outcome' = outcome /\ carriedOut' = carriedOut
      PROVE  WalkInv'
  <2>1. Got' = Got
    BY <1>4 DEF Got
  <2>2. carriedOut = 0 /\ outcome = Null
    BY <1>1, <1>4 DEF Course
  <2>3. WalkTypeOK'
    BY <1>1, <1>4, <2>2, WalkAssumption DEF WalkTypeOK
  <2>4. Course'
    BY <1>1, <1>4, <2>1, <2>2 DEF Course
  <2>5. WalkIsWhole' /\ CarriedOutOnce'
    BY <1>4, <2>2, WalkAssumption DEF WalkIsWhole, CarriedOutOnce
  <2> QED BY <2>3, <2>4, <2>5 DEF WalkInv
<1>5. CASE Attempt
  <2>1. doing = "send" /\ attempt \in 1 .. MaxAttempts /\ carriedOut = 0
    BY <1>1, <1>5 DEF Attempt, Course, WalkTypeOK
  <2>2. CASE Collect /\ UNCHANGED <<listing, steady>>
    BY <2>1, <2>2, CollectKeeps
  <2>3. CASE Errs /\ UNCHANGED <<listing, steady>>
    <3>1. carriedOut' \in {0, 1}
      BY <2>1, <2>3, WalkAssumption DEF Errs, CarriedOut
    <3> QED BY <1>4, <2>1, <2>3, <3>1 DEF Errs
  <2>4. CASE Return("failed") /\ UNCHANGED <<listing, steady>>
    BY <1>4, <2>1, <2>4 DEF Return
  <2>5. CASE Judged /\ UNCHANGED carriedOut /\ UNCHANGED <<listing, steady>>
    BY <1>4, <2>1, <2>5 DEF Judged
  <2> QED BY <1>5, <2>2, <2>3, <2>4, <2>5 DEF Attempt
<1>6. CASE OnUnauthorized
  <2>1. doing = "judge" /\ attempt \in 1 .. MaxAttempts /\ carriedOut = 0
    BY <1>1, <1>6 DEF OnUnauthorized, Course, WalkTypeOK
  <2>2. CASE /\ MayRetry /\ doing' = "send"
             /\ attempt' = IF attempt < MaxAttempts THEN attempt + 1 ELSE attempt
             /\ UNCHANGED <<cursor, seen, pages, carriedOut, outcome>>
             /\ UNCHANGED <<listing, steady>>
    <3>1. attempt' \in 1 .. MaxAttempts
      BY <2>1, <2>2, WalkAssumption
    <3> QED BY <1>4, <2>1, <2>2, <3>1
  <2>3. CASE Return("failed") /\ UNCHANGED <<listing, steady>>
    BY <1>4, <2>1, <2>3 DEF Return
  <2> QED BY <1>6, <2>2, <2>3 DEF OnUnauthorized
<1>7. CASE UNCHANGED walkVars
  BY <1>1, <1>7 DEF walkVars, WalkInv, WalkTypeOK, Course, Got, WalkIsWhole, CarriedOutOnce
<1> QED BY <1>2, <1>3, <1>5, <1>6, <1>7 DEF WalkNext

\* The invariant holds for every set of cursors, whatever the server does.
THEOREM WalkInvariance == WalkSpec => []WalkInv
BY WalkInitInv, WalkNextInv, PTL DEF WalkSpec

\* A walk that ends well has every page of a listing that held still, once each
\* (page.rs: walk).
THEOREM WalksAreWhole == WalkSpec => []WalkIsWhole
<1>1. WalkInv => WalkIsWhole
  BY DEF WalkInv
<1> QED BY <1>1, WalkInvariance, PTL

\* The server carries a call out once at most (http.rs: send_call).
THEOREM CarriedOutOnceEver == WalkSpec => []CarriedOutOnce
<1>1. WalkInv => CarriedOutOnce
  BY DEF WalkInv
<1> QED BY <1>1, WalkInvariance, PTL
=============================================================================
