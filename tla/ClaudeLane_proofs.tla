------------------------- MODULE ClaudeLane_proofs -------------------------
(***************************************************************************)
(* Proofs about the Claude session lane (ClaudeLane) and the headers that  *)
(* carry an attribution upstream (Envelope).                               *)
(*                                                                         *)
(* The argument about the lane is about one clock.  The scan a snapshot    *)
(* comes from began at most Behind ago: since the last scan began, while   *)
(* the watcher waits for the next, and a cycle more while a scan runs and  *)
(* for every scan that has failed in between.  What a file has said for    *)
(* longer than that is in the snapshot, unless it was emptied, and what    *)
(* the snapshot says the file has said within it.  The next scan begins    *)
(* within a cycle (Paced), however many ticks a long one has left overdue, *)
(* so Behind never exceeds Refresh.                                        *)
(*                                                                         *)
(* An injection accounts for its budget (Accounts): what the headers it    *)
(* has put there take and what is left are the Budget, header by header.   *)
(***************************************************************************)
EXTENDS ClaudeLane, Envelope, TLAPS

---------------------------------------------------------------------------
(* The session lane (ClaudeLane).                                          *)

Longest == IF Period < ScanTime THEN ScanTime ELSE Period
Extra(n) == n * Cycle
Behind == scan.age + Extra(IF scan.running THEN failed + 1 ELSE failed)

\* A scan takes ScanTime; while none runs, the tick that comes next is not due yet, or
\* it is and has been for no longer than late.
Paced ==
  /\ scan.age <= since \/ since = Backlog
  /\ scan.running => scan.age <= ScanTime
  /\ Overdue => scan.age <= Longest + scan.late

\* known tells of what the file of p has said until age ago.
Told(p, known, age) == \A s \in Sessions : known = s => said[p][s] <= age
Tells(p, known, age) == (ready[p] > age => known \in Sessions) /\ Told(p, known, age)

\* The ages tell of the files as they are.
AgesInv ==
  \A p \in Pids : /\ ready[p] > 0 => file[p] \in Sessions
                  /\ \A s \in Sessions : file[p] = s => said[p][s] = 0

ScanInv ==
  scan.running => \A p \in Pids \ scan.unread : Tells(p, scan.known[p], scan.age)

SnapshotInv ==
  \A p \in Pids : Told(p, snapshot[p], Behind) /\ (~cleared => Tells(p, snapshot[p], Behind))

\* What a request that looked in vain knows of its process.
LookedInVain(q) ==
  q.phase = "missed" /\ ~q.blind => ready[q.pid] <= Refresh(q.failed) + q.late

RequestInv == \A r \in Requests : LookedInVain(request[r])

IInv == TypeOK /\ Paced /\ AgesInv /\ ScanInv /\ SnapshotInv /\ RequestInv

---------------------------------------------------------------------------
\* A cycle for each of n scans is so much more than for none.
LEMMA ExtraIs ==
  ASSUME NEW n \in Nat
  PROVE  /\ Cycle \in Nat /\ Extra(n) \in Nat /\ Extra(n + 1) = Extra(n) + Cycle
         /\ Extra(0) = 0 /\ Refresh(n) = Cycle + ScanTime + Extra(n) /\ Refresh(n) \in Nat
<1>1. Cycle \in Nat
  BY ConstantsAssumption DEF Cycle
<1> HIDE DEF Cycle
<1>2. n * Cycle \in Nat /\ (n + 1) * Cycle = n * Cycle + Cycle /\ 0 * Cycle = 0
  BY <1>1
<1> QED BY <1>1, <1>2, ConstantsAssumption DEF Extra, Refresh

\* The bounds on ages are numbers.
LEMMA BoundsType ==
  /\ MaxAge \in Nat
  /\ Period \in Nat \ {0} /\ ScanTime \in Nat /\ Longest \in Nat /\ Cycle \in Nat
  /\ Period <= Longest /\ ScanTime <= Longest /\ Cycle = Longest + Lag
  /\ Lag \in Nat /\ Backlog \in Nat /\ Period <= Backlog /\ Failures \in Nat
  /\ Timeout \in Nat /\ Poll \in Nat \ {0}
BY ConstantsAssumption, ExtraIs DEF MaxAge, Longest, Cycle

\* An age grows by at most one, and stays in its range (Older).
LEMMA OlderGrows ==
  ASSUME NEW cap \in Nat, NEW age \in 0 .. cap
  PROVE  /\ Older(age, cap) \in 0 .. cap
         /\ Older(age, cap) <= age + 1
         /\ age <= Older(age, cap)
         /\ Older(age, cap) = age + 1 \/ Older(age, cap) = cap
BY DEF Older

\* A scan that has ended is a record of one.
LEMMA EndedIs ==
  ASSUME NEW age \in 0 .. Cycle, NEW late \in 0 .. Lag
  PROVE  /\ Ended(age, late) \in ScanRec
         /\ Ended(age, late).running = FALSE
         /\ Ended(age, late).age = age
         /\ Ended(age, late).late = late
<1>1. Nothing \in [Pids -> Content]
  BY DEF Nothing, Content
<1> QED BY <1>1 DEF Ended, ScanRec

LEMMA NothingIs == Nothing \in [Pids -> Content] /\ \A p \in Pids : Nothing[p] \notin Sessions
BY ConstantsAssumption DEF Nothing, Content

\* No snapshot is further behind than a refresh.
LEMMA BehindBound == IInv => Behind \in Nat /\ Behind <= Refresh(failed)
<1> SUFFICES ASSUME IInv PROVE Behind \in Nat /\ Behind <= Refresh(failed)
  OBVIOUS
<1>1. failed \in Nat /\ scan.age \in 0 .. Cycle /\ scan.running \in BOOLEAN
  BY BoundsType DEF IInv, TypeOK, ScanRec
<1> DEFINE extra == Extra(failed)
<1>0. /\ extra \in Nat /\ Extra(failed + 1) = extra + Cycle /\ Cycle \in Nat /\ ScanTime \in Nat
      /\ Refresh(failed) = Cycle + ScanTime + extra
  BY <1>1, ExtraIs, BoundsType
<1> HIDE DEF extra
<1>2. CASE scan.running
  <2>1. scan.age <= ScanTime
    BY <1>2 DEF IInv, Paced
  <2>2. Behind = scan.age + (extra + Cycle)
    BY <1>0, <1>2 DEF Behind
  <2> QED BY <1>0, <1>1, <2>1, <2>2
<1>3. CASE ~scan.running
  <2>1. Behind = scan.age + extra
    BY <1>3 DEF Behind, extra
  <2> QED BY <1>0, <1>1, <2>1
<1> QED BY <1>2, <1>3

\* A step that only moves request r on to a good q keeps the invariant.
LEMMA RequestStep ==
  ASSUME IInv, NEW r \in Requests, NEW q \in RequestRec,
         request' = [request EXCEPT ![r] = q], LookedInVain(q),
         UNCHANGED <<files, watcher>>
  PROVE  IInv'
<1>1. request' \in [Requests -> RequestRec] /\ \A o \in Requests :
        request'[o] = IF o = r THEN q ELSE request[o]
  BY DEF IInv, TypeOK
<1>2. TypeOK'
  BY <1>1 DEF IInv, TypeOK, files, watcher
<1>3. RequestInv'
  BY <1>1 DEF IInv, RequestInv, LookedInVain, files
<1>4. Paced' /\ AgesInv' /\ ScanInv' /\ SnapshotInv'
  BY DEF IInv, Paced, AgesInv, ScanInv, SnapshotInv, Tells, Told, Behind, Overdue, files, watcher
<1> QED BY <1>2, <1>3, <1>4 DEF IInv

\* Initially the snapshot is what the files say.
LEMMA InitIInv == Init => IInv
<1> SUFFICES ASSUME Init PROVE IInv
  OBVIOUS
<1> USE BoundsType
<1>0. scan \in ScanRec /\ ~scan.running /\ scan.age = 0 /\ scan.late = 0
  <2>1. scan = Ended(0, 0) /\ 0 \in 0 .. Cycle /\ 0 \in 0 .. Lag
    BY DEF Init
  <2> QED BY <2>1, EndedIs
<1>1. TypeOK
  <2>1. file \in [Pids -> Content] /\ snapshot \in [Pids -> Content]
    BY DEF Init, Content
  <2>2. ready \in [Pids -> 0 .. MaxAge] /\ said \in [Pids -> [Sessions -> 0 .. MaxAge]]
    BY DEF Init
  <2>4. request \in [Requests -> RequestRec]
    BY DEF Init, Idle, RequestRec
  <2>5. since \in 0 .. Backlog /\ failed \in 0 .. Failures
    BY DEF Init
  <2>6. cleared \in BOOLEAN
    BY Zenon DEF Init
  <2> QED BY <1>0, <2>1, <2>2, <2>4, <2>5, <2>6, Zenon DEF TypeOK
<1>2. \A r \in Requests : request[r].phase = "idle"
  BY DEF Init, Idle
<1>3. /\ \A p \in Pids : ready[p] = 0
      /\ \A p \in Pids, s \in Sessions : file[p] = s => said[p][s] = 0
  BY DEF Init
<1>4. Behind = 0 /\ snapshot = file
  BY <1>0, ExtraIs DEF Init, Behind
<1>5. SnapshotInv
  <2>1. ASSUME NEW p \in Pids PROVE Tells(p, file[p], 0) /\ Told(p, file[p], 0)
    <3>1. ~(ready[p] > 0)
      BY <1>3
    <3>2. \A s \in Sessions : file[p] = s => said[p][s] <= 0
      BY <1>3
    <3> QED BY <3>1, <3>2 DEF Tells, Told
  <2> QED BY <1>4, <2>1 DEF SnapshotInv
<1>6. AgesInv
  <2>1. ASSUME NEW p \in Pids PROVE ~(ready[p] > 0)
    BY <1>3
  <2>2. ASSUME NEW p \in Pids, NEW s \in Sessions, file[p] = s PROVE said[p][s] = 0
    BY <1>3, <2>2
  <2> QED BY <2>1, <2>2 DEF AgesInv
<1>7. Paced
  BY <1>0 DEF Init, Paced, Overdue
<1>8. ScanInv /\ RequestInv
  BY <1>0, <1>2 DEF ScanInv, RequestInv, LookedInVain
<1> QED BY <1>1, <1>5, <1>6, <1>7, <1>8 DEF IInv

---------------------------------------------------------------------------
\* A process writes its file: what it said is no longer new, what it says is.
LEMMA WriteStep ==
  ASSUME IInv, NEW p \in Pids, NEW content \in Content, Write(p, content)
  PROVE  IInv'
<1> USE BoundsType
<1>0. UNCHANGED <<snapshot, scan, since, failed, cleared, request>>
  BY DEF Write, watcher
<1>1. /\ file' \in [Pids -> Content] /\ file' = [file EXCEPT ![p] = content]
      /\ ready' \in [Pids -> 0 .. MaxAge] /\ ready' = [ready EXCEPT ![p] = 0]
  BY DEF Write, IInv, TypeOK
<1>2. /\ said' \in [Pids -> [Sessions -> 0 .. MaxAge]]
      /\ \A o \in Pids, s \in Sessions :
           said'[o][s] = IF o = p /\ content = s THEN 0 ELSE said[o][s]
  BY DEF Write, IInv, TypeOK
<1>3. TypeOK'
  BY <1>0, <1>1, <1>2 DEF IInv, TypeOK
<1>4. AgesInv'
  BY <1>1, <1>2 DEF IInv, TypeOK, AgesInv
<1>5. ASSUME NEW o \in Pids, NEW known, NEW age \in Nat
      PROVE  /\ Told(o, known, age) => \A s \in Sessions : known = s => said'[o][s] <= age
             /\ Tells(o, known, age) => (ready'[o] > age => known \in Sessions)
  <2>1. ready'[o] > age => ready[o] > age
    BY <1>1 DEF IInv, TypeOK
  <2>2. \A s \in Sessions : said[o][s] <= age => said'[o][s] <= age
    BY <1>2
  <2> QED BY <2>1, <2>2 DEF Tells, Told
<1>6. scan.age \in Nat /\ Behind \in Nat
  BY BehindBound DEF IInv, TypeOK, ScanRec
<1>7. ScanInv'
  BY <1>0, <1>5, <1>6 DEF IInv, ScanInv, Tells, Told
<1>8. SnapshotInv'
  <2>1. Behind' = Behind /\ snapshot' = snapshot /\ cleared' = cleared
    BY <1>0 DEF Behind
  <2>2. SnapshotInv
    BY DEF IInv
  <2> HIDE DEF Behind
  <2> QED BY <1>5, <1>6, <2>1, <2>2 DEF SnapshotInv, Tells, Told
<1>9. RequestInv'
  <2>1. ASSUME NEW r \in Requests PROVE LookedInVain(request[r])'
    <3>1. request[r] \in RequestRec /\ request'[r] = request[r] /\ LookedInVain(request[r])
      BY <1>0 DEF IInv, TypeOK, RequestInv
    <3>2. ready'[request[r].pid] <= ready[request[r].pid] /\ ready[request[r].pid] \in Nat
          /\ ready'[request[r].pid] \in Nat
      BY <1>1, <3>1 DEF IInv, TypeOK, RequestRec
    <3>3. Refresh(request[r].failed) \in Nat /\ request[r].late \in Nat
      BY <3>1, ExtraIs DEF RequestRec
    <3> QED BY <3>1, <3>2, <3>3 DEF LookedInVain
  <2> QED BY <2>1 DEF RequestInv
<1> QED BY <1>0, <1>3, <1>4, <1>7, <1>8, <1>9 DEF IInv, Paced, Overdue

\* The scan reads one more file.
LEMMA ReadFileStep ==
  ASSUME IInv, NEW p \in Pids, ReadFile(p)
  PROVE  IInv'
<1> DEFINE known == [scan.known EXCEPT ![p] = file[p]]
<1>1. /\ known \in [Pids -> Content] /\ known[p] = file[p]
      /\ \A o \in Pids \ {p} : known[o] = scan.known[o]
  BY DEF IInv, TypeOK, ScanRec
<1>2. /\ scan' = Running(scan.age, scan.unread \ {p}, known) /\ scan.running
      /\ UNCHANGED <<file, ready, said, snapshot, since, failed, cleared, request>>
  BY DEF ReadFile, files
<1> HIDE DEF known
<1>3. scan.age \in 0 .. Cycle /\ scan.unread \ {p} \in SUBSET Pids
  BY DEF IInv, TypeOK, ScanRec
<1>4. /\ scan' \in ScanRec /\ scan'.running /\ scan'.age = scan.age /\ scan'.known = known
      /\ scan'.unread = scan.unread \ {p}
  <2>1. 0 \in 0 .. Lag
    BY BoundsType
  <2> QED BY <1>1, <1>2, <1>3, <2>1 DEF Running, ScanRec
<1>5. TypeOK'
  BY <1>2, <1>4 DEF IInv, TypeOK
<1>6. Tells(p, file[p], scan.age)
  BY BoundsType DEF IInv, TypeOK, ScanRec, AgesInv, Tells, Told
<1>7. \A o \in Pids \ (scan.unread \ {p}) : Tells(o, known[o], scan.age)
  BY <1>1, <1>2, <1>6 DEF IInv, ScanInv
<1>8. ScanInv'
  BY <1>2, <1>4, <1>7 DEF ScanInv, Tells, Told
<1>9. Paced' /\ Behind' = Behind
  BY <1>2, <1>4 DEF IInv, Paced, Overdue, Behind
<1>10. AgesInv' /\ SnapshotInv' /\ RequestInv'
  BY <1>2, <1>9 DEF IInv, AgesInv, SnapshotInv, Tells, Told, RequestInv, LookedInVain
<1> QED BY <1>5, <1>8, <1>9, <1>10 DEF IInv

\* The watcher starts a scan, or ends one.
LEMMA WatcherStep ==
  ASSUME IInv, StartScan \/ Store \/ ListingFails \/ TaskFails
  PROVE  IInv'
<1> USE BoundsType
<1>0. /\ UNCHANGED <<file, ready, said, request>>
      /\ scan \in ScanRec /\ since \in 0 .. Backlog /\ failed \in 0 .. Failures
      /\ snapshot \in [Pids -> Content] /\ cleared \in BOOLEAN
  BY DEF StartScan, Store, ListingFails, TaskFails, Fails, Ends, files, IInv, TypeOK
<1>1. AgesInv' /\ RequestInv'
  BY <1>0 DEF IInv, AgesInv, RequestInv, LookedInVain
<1>2. ASSUME scan' \in ScanRec, since' \in 0 .. Backlog, failed' \in 0 .. Failures,
             snapshot' \in [Pids -> Content], cleared' \in BOOLEAN
      PROVE  TypeOK'
  BY <1>0, <1>2 DEF IInv, TypeOK
<1>3. CASE StartScan
  <2>1. /\ scan' = Running(0, Pids, Nothing) /\ since' = since - Period
        /\ since >= Period /\ ~scan.running
        /\ UNCHANGED <<snapshot, failed, cleared>>
    BY <1>3 DEF StartScan
  <2>2. scan'.running /\ scan'.age = 0 /\ scan'.unread = Pids /\ scan' \in ScanRec
    <3>1. 0 \in 0 .. Cycle /\ 0 \in 0 .. Lag
      OBVIOUS
    <3> QED BY <2>1, <3>1, NothingIs DEF Running, ScanRec
  <2>3. TypeOK'
    BY <1>0, <1>2, <2>1, <2>2
  <2>4. Paced'
    BY <1>0, <2>1, <2>2 DEF Paced, Overdue
  <2>5. /\ Behind \in Nat /\ Behind' \in Nat /\ Behind <= Behind'
    <3>1. Behind = scan.age + Extra(failed) /\ Behind' = 0 + Extra(failed + 1)
      BY <2>1, <2>2 DEF Behind
    <3>2. scan.age \in 0 .. Cycle
      BY <1>0 DEF ScanRec
    <3> DEFINE extra == Extra(failed)
    <3>3. extra \in Nat /\ Extra(failed + 1) = extra + Cycle
      BY <1>0, ExtraIs
    <3> HIDE DEF extra
    <3>4. Behind = scan.age + extra /\ Behind' = 0 + (extra + Cycle)
      BY <3>1, <3>3 DEF extra
    <3> QED BY <3>2, <3>3, <3>4
  <2>6. ASSUME NEW p \in Pids PROVE said[p] \in [Sessions -> Nat] /\ ready[p] \in Nat
    BY DEF IInv, TypeOK
  <2>7. SnapshotInv
    BY DEF IInv
  <2>8. SnapshotInv'
    <3> HIDE DEF Behind
    <3>1. ASSUME NEW p \in Pids PROVE Told(p, snapshot[p], Behind')
      BY <2>5, <2>6, <2>7 DEF SnapshotInv, Told
    <3>2. ASSUME NEW p \in Pids, ~cleared PROVE ready[p] > Behind' => snapshot[p] \in Sessions
      BY <2>5, <2>6, <2>7, <3>2 DEF SnapshotInv, Tells
    <3> QED BY <1>0, <2>1, <3>1, <3>2 DEF SnapshotInv, Tells, Told
  <2>9. ScanInv'
    BY <2>2 DEF ScanInv
  <2> QED BY <1>1, <2>3, <2>4, <2>8, <2>9 DEF IInv
<1>4. ASSUME Ends PROVE /\ scan.running /\ ~scan'.running /\ scan'.age = scan.age /\ since' = since
                        /\ scan' \in ScanRec /\ Paced' /\ ScanInv'
  <2>1. /\ scan.running /\ scan' = Ended(scan.age, 0) /\ since' = since
    BY <1>4 DEF Ends
  <2>2. scan.age \in 0 .. Cycle
    BY <1>0 DEF ScanRec
  <2>3. /\ ~scan'.running /\ scan'.age = scan.age /\ scan'.late = 0 /\ scan' \in ScanRec
    <3>1. 0 \in 0 .. Lag
      OBVIOUS
    <3> QED BY <2>1, <2>2, <3>1, EndedIs
  <2>4. Paced'
    BY <2>1, <2>2, <2>3 DEF IInv, Paced, Overdue
  <2> QED BY <2>1, <2>3, <2>4 DEF ScanInv
<1>5. CASE Store
  <2>1. /\ Ends /\ scan.unread = {} /\ snapshot' = scan.known /\ failed' = 0 /\ cleared' = FALSE
    BY <1>5 DEF Store
  <2>2. TypeOK'
    <3>1. scan.known \in [Pids -> Content]
      BY <1>0 DEF ScanRec
    <3>2. /\ since' \in 0 .. Backlog /\ failed' \in 0 .. Failures
          /\ snapshot' \in [Pids -> Content]
      BY <1>0, <1>4, <2>1, <3>1
    <3>3. cleared' \in BOOLEAN /\ scan' \in ScanRec
      BY <1>4, <2>1, Zenon
    <3> QED BY <1>2, <3>2, <3>3
  <2>3. Behind' = scan.age
    <3>1. scan.age \in 0 .. Cycle
      BY <1>0 DEF ScanRec
    <3> QED BY <1>4, <2>1, <3>1, ExtraIs DEF Behind
  <2>4. SnapshotInv'
    BY <1>0, <1>4, <2>1, <2>3 DEF IInv, ScanInv, SnapshotInv, Tells, Told
  <2> QED BY <1>1, <1>4, <2>1, <2>2, <2>4 DEF IInv
<1>6. CASE ListingFails \/ TaskFails
  <2>1. Ends /\ failed < Failures /\ failed' = failed + 1
    BY <1>6 DEF ListingFails, TaskFails, Fails
  <2>2. \/ snapshot' = snapshot /\ cleared' = cleared
        \/ snapshot' = Nothing /\ cleared' = TRUE
    BY <1>6 DEF ListingFails, TaskFails
  <2>3. TypeOK'
    <3>1. failed' \in 0 .. Failures /\ since' \in 0 .. Backlog
      BY <1>0, <1>4, <2>1
    <3>2. snapshot' \in [Pids -> Content] /\ cleared' \in BOOLEAN
      BY <1>0, <2>2, NothingIs
    <3> QED BY <1>2, <1>4, <2>1, <3>1, <3>2
  <2>4. Behind' = Behind
    BY <1>4, <2>1 DEF Behind
  <2>5. SnapshotInv
    BY DEF IInv
  <2>6. SnapshotInv'
    <3> HIDE DEF Behind
    <3>1. CASE snapshot' = snapshot /\ cleared' = cleared
      BY <1>0, <2>4, <2>5, <3>1 DEF SnapshotInv, Tells, Told
    <3>2. CASE snapshot' = Nothing /\ cleared' = TRUE
      BY <3>2, NothingIs DEF SnapshotInv, Told
    <3> QED BY <2>2, <3>1, <3>2
  <2> QED BY <1>1, <1>4, <2>1, <2>3, <2>6 DEF IInv
<1> QED BY <1>3, <1>5, <1>6

\* Time passes: everything is a tick older, and so is every bound on it.
LEMMA TickStep ==
  ASSUME IInv, Tick
  PROVE  IInv'
<1> USE BoundsType
<1>1. /\ ready' \in [Pids -> 0 .. MaxAge]
      /\ \A p \in Pids : /\ ready'[p] <= ready[p] + 1
                         /\ ready'[p] > 0 => file[p] \in Sessions
  <2>1. \A p \in Pids :
          ready'[p] = IF file[p] \in Sessions THEN Older(ready[p], MaxAge) ELSE 0
    BY DEF Tick
  <2>2. \A p \in Pids :
          /\ Older(ready[p], MaxAge) \in 0 .. MaxAge
          /\ Older(ready[p], MaxAge) <= ready[p] + 1
          /\ ready[p] \in 0 .. MaxAge
    BY OlderGrows DEF IInv, TypeOK
  <2>3. \A p \in Pids : ready'[p] \in 0 .. MaxAge /\ ready'[p] <= ready[p] + 1
    BY <2>1, <2>2
  <2>4. ready' \in [Pids -> 0 .. MaxAge]
    BY <2>1, <2>3 DEF Tick
  <2> QED BY <2>1, <2>3, <2>4
<1>2. /\ said' \in [Pids -> [Sessions -> 0 .. MaxAge]]
      /\ \A p \in Pids, s \in Sessions : /\ said'[p][s] <= said[p][s] + 1
                                         /\ file[p] = s => said'[p][s] = 0
  <2>1. \A p \in Pids, s \in Sessions :
          said'[p][s] = IF file[p] = s THEN 0 ELSE Older(said[p][s], MaxAge)
    BY DEF Tick
  <2>2. \A p \in Pids, s \in Sessions :
          /\ Older(said[p][s], MaxAge) \in 0 .. MaxAge
          /\ Older(said[p][s], MaxAge) <= said[p][s] + 1
          /\ said[p][s] \in 0 .. MaxAge
    BY OlderGrows DEF IInv, TypeOK
  <2>3. \A p \in Pids, s \in Sessions :
          said'[p][s] \in 0 .. MaxAge /\ said'[p][s] <= said[p][s] + 1
    BY <2>1, <2>2
  <2>4. said' \in [Pids -> [Sessions -> 0 .. MaxAge]]
    BY <2>1, <2>3 DEF Tick
  <2> QED BY <2>1, <2>3, <2>4
<1>3. scan \in ScanRec /\ since \in 0 .. Backlog /\ failed \in 0 .. Failures /\ Paced
  BY DEF IInv, TypeOK
<1>4. /\ scan' \in ScanRec /\ scan'.running = scan.running /\ scan'.age = scan.age + 1
      /\ scan.running => scan'.unread = scan.unread /\ scan'.known = scan.known
      /\ Paced'
  <2>1. since' = Older(since, Backlog) /\ (since' = since + 1 \/ since' = Backlog)
        /\ since <= since' /\ since' \in 0 .. Backlog
    BY <1>3, OlderGrows DEF Tick
  <2>2. CASE scan.running
    <3>1. scan' = Running(scan.age + 1, scan.unread, scan.known) /\ scan.age < ScanTime
      BY <2>2 DEF Tick
    <3>2. scan.age + 1 \in 0 .. Cycle /\ scan.unread \in SUBSET Pids /\ scan.known \in [Pids -> Content]
      BY <1>3, <3>1 DEF ScanRec
    <3>3. /\ scan' \in ScanRec /\ scan'.running /\ scan'.age = scan.age + 1
          /\ scan'.unread = scan.unread /\ scan'.known = scan.known
      <4>1. 0 \in 0 .. Lag
        OBVIOUS
      <4> QED BY <3>1, <3>2, <4>1 DEF Running, ScanRec
    <3>4. scan'.running = scan.running
      BY <1>3, <2>2, <3>1 DEF ScanRec, Running
    <3>5. Paced'
      <4>1. scan'.age <= ScanTime
        BY <1>3, <3>1, <3>3 DEF ScanRec
      <4>2. scan'.age <= since' \/ since' = Backlog
        BY <1>3, <2>1, <3>3 DEF Paced, ScanRec
      <4> QED BY <3>3, <4>1, <4>2 DEF Paced, Overdue
    <3> QED BY <3>3, <3>4, <3>5
  <2>3. CASE ~scan.running
    <3> DEFINE late == IF Overdue THEN scan.late + 1 ELSE 0
    <3>1. scan' = Ended(scan.age + 1, late) /\ (Overdue => scan.late < Lag)
      BY <2>3 DEF Tick
    <3>2. scan.age \in Nat /\ scan.late \in Nat /\ late \in 0 .. Lag
      BY <1>3, <3>1 DEF ScanRec
    <3>3. /\ Overdue => scan.age <= Longest + scan.late
          /\ ~Overdue => scan.age <= since /\ since < Period
      BY <1>3, <2>3, <3>2 DEF Paced, Overdue
    <3>4. scan.age + 1 \in 0 .. Cycle
      BY <1>3, <3>1, <3>2, <3>3
    <3>5. scan.age + 1 <= Longest + late
      BY <1>3, <3>2, <3>3
    <3> HIDE DEF late
    <3>6. /\ scan' \in ScanRec /\ ~scan'.running /\ scan'.age = scan.age + 1
          /\ scan'.late = late
      BY <3>1, <3>2, <3>4, EndedIs
    <3>7. scan'.running = scan.running
      BY <1>3, <2>3, <3>1 DEF ScanRec, Ended
    <3>8. Paced'
      <4>1. scan'.age <= Longest + scan'.late
        BY <3>5, <3>6
      <4>2. scan'.age <= since' \/ since' = Backlog
        BY <1>3, <2>1, <3>2, <3>6 DEF Paced
      <4> QED BY <3>6, <4>1, <4>2 DEF Paced, Overdue
    <3> QED BY <2>3, <3>6, <3>7, <3>8
  <2> QED BY <2>2, <2>3
<1>5. since' \in 0 .. Backlog
  BY <1>3, OlderGrows DEF Tick
<1>6. /\ request' \in [Requests -> RequestRec]
      /\ \A r \in Requests : /\ request'[r].phase = request[r].phase
                             /\ request'[r].pid = request[r].pid
                             /\ request'[r].blind = request[r].blind
                             /\ request'[r].failed = request[r].failed
                             /\ request[r].phase = "missed" =>
                                  request'[r].late = request[r].late + 1
  <2>1. ASSUME NEW r \in Requests
        PROVE  /\ request'[r] \in RequestRec
               /\ request'[r].phase = request[r].phase
               /\ request'[r].pid = request[r].pid
               /\ request'[r].blind = request[r].blind
               /\ request'[r].failed = request[r].failed
               /\ request[r].phase = "missed" => request'[r].late = request[r].late + 1
    <3> DEFINE q == request[r]
               waited == IF q.phase = "idle" THEN 0 ELSE Older(q.waited, Timeout)
               left == IF q.left > 0 THEN q.left - 1 ELSE 0
               late == IF Waiting(r) THEN q.late + 1 ELSE 0
    <3>1. request'[r] = [phase |-> q.phase, pid |-> q.pid, blind |-> q.blind, failed |-> q.failed,
                         waited |-> waited, left |-> left, late |-> late]
      BY DEF Tick
    <3>2. q \in RequestRec
      BY DEF IInv, TypeOK
    <3>3. waited \in 0 .. Timeout
      BY <3>2 DEF RequestRec, Older
    <3>4. left \in 0 .. Poll
      BY <3>2 DEF RequestRec
    <3>5. late \in 0 .. Lag /\ (q.phase = "missed" => late = q.late + 1)
      BY <3>2 DEF RequestRec, Tick, Waiting
    <3> HIDE DEF q, waited, left, late
    <3>6. request'[r] \in RequestRec
      BY <3>1, <3>2, <3>3, <3>4, <3>5 DEF RequestRec
    <3> QED BY <3>1, <3>5, <3>6 DEF q
  <2>2. request' = [r \in Requests |-> request'[r]]
    BY DEF Tick
  <2> QED BY <2>1, <2>2
<1>7. TypeOK'
  BY <1>1, <1>2, <1>4, <1>5, <1>6 DEF Tick, IInv, TypeOK
<1>8. AgesInv'
  BY <1>1, <1>2 DEF Tick, AgesInv
<1>9. ASSUME NEW p \in Pids, NEW known, NEW age \in Nat
      PROVE  /\ Told(p, known, age) => \A s \in Sessions : known = s => said'[p][s] <= age + 1
             /\ Tells(p, known, age) => (ready'[p] > age + 1 => known \in Sessions)
  <2>1. ready'[p] > age + 1 => ready[p] > age
    BY <1>1 DEF IInv, TypeOK
  <2>2. \A s \in Sessions : said[p][s] <= age => said'[p][s] <= age + 1
    BY <1>2 DEF IInv, TypeOK
  <2> QED BY <2>1, <2>2 DEF Tells, Told
<1>10. scan.age \in Nat /\ Behind \in Nat /\ Behind' = Behind + 1
  <2>1. scan.age \in Nat /\ Behind \in Nat
    BY <1>3, BehindBound DEF ScanRec
  <2>2. failed' = failed
    BY DEF Tick
  <2>3. \A n \in Nat : Extra(n) \in Nat
    BY ExtraIs
  <2>4. (IF scan.running THEN failed + 1 ELSE failed) \in Nat
    BY <1>3
  <2> QED BY <1>4, <2>1, <2>2, <2>3, <2>4 DEF Behind
<1>11. ScanInv'
  <2>1. ASSUME scan'.running PROVE \A p \in Pids \ scan'.unread : Tells(p, scan.known[p], scan.age)
    BY <1>4, <2>1 DEF IInv, ScanInv
  <2>2. ASSUME scan'.running PROVE scan.known = scan'.known /\ scan'.age = scan.age + 1
    BY <1>4, <2>2
  <2>3. ASSUME scan'.running, NEW p \in Pids \ scan'.unread
        PROVE  /\ ready'[p] > scan'.age => scan'.known[p] \in Sessions
               /\ \A s \in Sessions : scan'.known[p] = s => said'[p][s] <= scan'.age
    <3> DEFINE known == scan.known[p]
               age == scan.age
    <3>1. Tells(p, known, age) /\ scan'.known[p] = known /\ scan'.age = age + 1 /\ age \in Nat
      BY <1>10, <2>1, <2>2, <2>3
    <3> HIDE DEF known, age
    <3>2. /\ \A s \in Sessions : known = s => said'[p][s] <= age + 1
          /\ ready'[p] > age + 1 => known \in Sessions
      BY <1>9, <3>1 DEF Tells
    <3> QED BY <3>1, <3>2
  <2> QED BY <2>3 DEF ScanInv, Tells, Told
<1>12. SnapshotInv'
  <2>1. SnapshotInv /\ snapshot' = snapshot /\ cleared' = cleared
    BY DEF Tick, IInv
  <2> HIDE DEF Behind
  <2> QED BY <1>9, <1>10, <2>1 DEF SnapshotInv, Tells, Told
<1>13. RequestInv'
  <2>1. ASSUME NEW r \in Requests PROVE LookedInVain(request[r])'
    <3>1. request[r] \in RequestRec /\ LookedInVain(request[r])
      BY DEF IInv, TypeOK, RequestInv
    <3>2. ready'[request[r].pid] <= ready[request[r].pid] + 1 /\ ready[request[r].pid] \in Nat
          /\ ready'[request[r].pid] \in Nat
      BY <1>1, <3>1 DEF IInv, TypeOK, RequestRec
    <3>3. Refresh(request[r].failed) \in Nat /\ request[r].late \in Nat
      <4>1. request[r].failed \in Nat /\ request[r].late \in Nat
        BY <3>1 DEF RequestRec
      <4> QED BY <4>1, ExtraIs
    <3> DEFINE q == request[r]
               n == Refresh(q.failed)
    <3>4. /\ request'[r].phase = q.phase /\ request'[r].blind = q.blind
          /\ request'[r].pid = q.pid /\ request'[r].failed = q.failed
          /\ q.phase = "missed" => request'[r].late = q.late + 1
      BY <1>6
    <3>5. q.phase = "missed" /\ ~q.blind => ready[q.pid] <= n + q.late
      BY <3>1 DEF LookedInVain
    <3>6. Refresh(request'[r].failed) = n
      BY <3>4
    <3>7. q.phase = "missed" /\ ~q.blind => ready'[q.pid] <= n + (q.late + 1)
      <4> HIDE DEF n
      <4> QED BY <3>2, <3>3, <3>5 DEF n
    <3> HIDE DEF n
    <3> SUFFICES ASSUME q.phase = "missed", ~q.blind
                 PROVE  ready'[q.pid] <= n + (q.late + 1)
      BY <3>4, <3>6 DEF LookedInVain, n
    <3> QED BY <3>7
  <2> QED BY <2>1 DEF RequestInv
<1> QED BY <1>4, <1>7, <1>8, <1>11, <1>12, <1>13 DEF IInv

---------------------------------------------------------------------------
\* Every step keeps the invariant.
LEMMA NextIInv == IInv /\ [Next]_vars => IInv'
<1> SUFFICES ASSUME IInv, [Next]_vars PROVE IInv'
  OBVIOUS
<1> USE BoundsType
<1>0. \A r \in Requests : request[r] \in RequestRec
  BY DEF IInv, TypeOK
<1>1. ASSUME NEW r \in Requests, NEW p \in Pids, Begin(r, p) PROVE IInv'
  <2>1. Asleep(p, 0, 0) \in RequestRec /\ LookedInVain(Asleep(p, 0, 0))
    BY DEF Asleep, RequestRec, LookedInVain
  <2> QED BY <1>1, <2>1, RequestStep DEF Begin
<1>2. ASSUME NEW r \in Requests,
             (\E s \in Sessions : Attribute(r, s)) \/ GiveUp(r) \/ Disconnect(r)
      PROVE  IInv'
  <2>1. /\ Idle(request[r].pid) \in RequestRec /\ LookedInVain(Idle(request[r].pid))
    BY <1>0 DEF Idle, RequestRec, LookedInVain
  <2>2. /\ request' = [request EXCEPT ![r] = Idle(request[r].pid)]
        /\ UNCHANGED <<files, watcher>>
    BY <1>2 DEF Attribute, GiveUp, Disconnect
  <2> QED BY <2>1, <2>2, RequestStep
<1>3. ASSUME NEW r \in Requests, NEW unowned \in BOOLEAN, Miss(r, unowned) PROVE IInv'
  <2> DEFINE q == Missed(request[r].pid, request[r].waited, unowned \/ cleared, failed)
  <2>1. q \in RequestRec
    BY <1>0 DEF Missed, RequestRec, IInv, TypeOK
  <2>2. /\ q.pid = request[r].pid /\ q.late = 0 /\ (~q.blind => ~unowned /\ ~cleared)
        /\ q.failed = failed /\ request[r].pid \in Pids
    BY <1>0 DEF Missed, RequestRec
  <2>3. /\ request' = [request EXCEPT ![r] = q]
        /\ unowned \/ snapshot[request[r].pid] \notin Sessions
        /\ UNCHANGED <<files, watcher>>
    BY <1>3 DEF Miss
  <2>4. LookedInVain(q)
    <3> SUFFICES ASSUME ~q.blind PROVE ready[q.pid] <= Refresh(failed) + 0
      BY <2>2 DEF LookedInVain
    <3>1. Tells(request[r].pid, snapshot[request[r].pid], Behind)
      BY <2>2 DEF IInv, SnapshotInv
    <3>2. ~(ready[request[r].pid] > Behind)
      BY <2>2, <2>3, <3>1 DEF Tells
    <3>3. Refresh(failed) \in Nat
      BY ExtraIs DEF IInv, TypeOK
    <3> QED BY <2>2, <3>2, <3>3, BehindBound DEF IInv, TypeOK
  <2> HIDE DEF q
  <2> QED BY <2>1, <2>3, <2>4, RequestStep
<1>4. ASSUME NEW r \in Requests, Sleep(r) PROVE IInv'
  <2> DEFINE left == Least(Poll, Timeout - request[r].waited)
             q == Asleep(request[r].pid, request[r].waited, left)
  <2>1. left \in 0 .. Poll
    BY <1>0, <1>4 DEF Sleep, Least, RequestRec
  <2>2. q \in RequestRec /\ LookedInVain(q)
    <3> HIDE DEF left
    <3> QED BY <1>0, <2>1 DEF Asleep, RequestRec, LookedInVain
  <2>3. /\ request' = [request EXCEPT ![r] = q]
        /\ UNCHANGED <<files, watcher>>
    BY <1>4 DEF Sleep
  <2> HIDE DEF q
  <2> QED BY <2>2, <2>3, RequestStep
<1>5. CASE UNCHANGED vars
  <2>1. UNCHANGED <<file, ready, said, snapshot, scan, since, failed, cleared, request>>
    BY <1>5 DEF vars, files, watcher
  <2> QED BY <2>1 DEF IInv, TypeOK, Paced, Overdue, AgesInv, ScanInv, SnapshotInv, Tells, Told,
                      Behind, RequestInv, LookedInVain
<1> QED
  BY <1>1, <1>2, <1>3, <1>4, <1>5, WriteStep, ReadFileStep, WatcherStep, TickStep DEF Next

\* The invariant holds throughout.
THEOREM Invariance == Spec => []IInv
<1>1. IInv /\ [Next]_vars => IInv'
  BY NextIInv
<1> QED BY <1>1, InitIInv, PTL DEF Spec

\* Every variable keeps its type (TypeOK): the watcher begins its next scan within a
\* cycle of the last, however many ticks a scan that ran long has left overdue.
THEOREM TypeCorrect == Spec => []TypeOK
<1>1. IInv => TypeOK
  BY DEF IInv
<1> QED BY <1>1, Invariance, PTL

\* A request goes out unattributed only if its process had not named a session
\* for a whole refresh (ReadyIsAttributed), for any interval, scan time, lag,
\* timeout and poll, and any number of processes, requests and failed scans.
THEOREM ReadyAreAttributed == Spec => ReadyIsAttributed
<1>1. ASSUME IInv, NEW r \in Requests, Concedes(r)
      PROVE  ready[request[r].pid] <= Refresh(request[r].failed) + Lag
  <2>1. request[r] \in RequestRec
    BY <1>1 DEF IInv, TypeOK
  <2>2. ready[request[r].pid] <= Refresh(request[r].failed) + request[r].late
    BY <1>1 DEF Concedes, GiveUp, IInv, RequestInv, LookedInVain
  <2>3. /\ request[r].late \in 0 .. Lag /\ ready[request[r].pid] \in 0 .. MaxAge
        /\ Refresh(request[r].failed) \in Nat
    BY <1>1, <2>1, ExtraIs DEF IInv, TypeOK, RequestRec
  <2> QED BY <2>2, <2>3, BoundsType
<1>2. IInv => [\A r \in Requests : Concedes(r) =>
                 ready[request[r].pid] <= Refresh(request[r].failed) + Lag]_vars
  BY <1>1
<1> QED BY <1>2, Invariance, PTL DEF ReadyIsAttributed

\* A request is attributed to a session its process named within the last
\* refresh (AnswerIsCurrent), for all the same values.
THEOREM AnswersAreCurrent == Spec => AnswerIsCurrent
<1>1. ASSUME IInv, NEW r \in Requests, NEW s \in Sessions, Attribute(r, s)
      PROVE  said[request[r].pid][s] <= Refresh(failed)
  <2>1. request[r].pid \in Pids /\ snapshot[request[r].pid] = s
    BY <1>1 DEF Attribute, IInv, TypeOK, RequestRec
  <2>2. said[request[r].pid][s] <= Behind
    BY <1>1, <2>1 DEF IInv, SnapshotInv, Told
  <2>3. said[request[r].pid][s] \in Nat
    BY <1>1, <2>1, BoundsType DEF IInv, TypeOK
  <2>4. Refresh(failed) \in Nat
    BY <1>1, ExtraIs DEF IInv, TypeOK
  <2> QED BY <1>1, <2>2, <2>3, <2>4, BehindBound
<1>2. IInv => [\A r \in Requests, s \in Sessions :
                 Attribute(r, s) => said[request[r].pid][s] <= Refresh(failed)]_vars
  BY <1>1
<1> QED BY <1>2, Invariance, PTL DEF AnswerIsCurrent

---------------------------------------------------------------------------
(* The envelope (Envelope).                                                *)

\* What a header of ours takes of the budget.
Takes(h, a, n) == IF h[n] = "ours" THEN Capped(n, a[n]).size ELSE 0
Spent(h, a) ==
  Takes(h, a, "session") + Takes(h, a, "cwd") + Takes(h, a, "name") + Takes(h, a, "parent")
    + Takes(h, a, "parent-harness") + Takes(h, a, "metadata")

\* An injection under way accounts for its budget.
Accounts(s, a) ==
  /\ s = [headers |-> s.headers, left |-> s.left]
  /\ s.headers \in Envelopes /\ s.left \in Nat
  /\ \A n \in Optional : s.headers[n] = "ours" => Capped(n, a[n]) # None
  /\ Spent(s.headers, a) + s.left = Budget

\* Both halves of the parent, or neither.
Whole(h, a) ==
  a["parent-harness"] # None => (h["parent"] = "ours" <=> h["parent-harness"] = "ours")

EnvInv == EnvTypeOK /\ FitsWhole

LEMMA CappedIs ==
  ASSUME NEW a \in Attribution, NEW n \in Optional
  PROVE  /\ Capped(n, a[n]) # None => a[n] # None /\ Capped(n, a[n]).size \in Nat
         /\ n \in {"parent", "parent-harness"} => Capped(n, a[n]) = a[n]
<1>1. a[n] \in Value \cup {None}
  BY DEF Attribution
<1>2. CASE a[n] = None
  BY <1>2 DEF Capped
<1>3. CASE a[n] # None
  <2>1. PICK size \in Nat, sound \in BOOLEAN : a[n] = [size |-> size, sound |-> sound]
    BY <1>1, <1>3, EnvelopeAssumption DEF Value
  <2>2. [a[n] EXCEPT !.size = Smaller(@, NameCap)].size \in Nat
    BY <2>1, EnvelopeAssumption DEF Smaller
  <2> QED BY <1>3, <2>1, <2>2 DEF Capped
<1> QED BY <1>2, <1>3

\* A header that is put there takes what is taken from the budget.
LEMMA Inserts ==
  ASSUME NEW a \in Attribution, NEW s, Accounts(s, a), NEW n \in Optional, s.headers[n] # "ours",
         NEW r, r = TryInsert(s, n, Capped(n, a[n]))
  PROVE  /\ Accounts(r, a)
         /\ \A m \in Header \ {n} : r.headers[m] = s.headers[m]
<1> DEFINE v == Capped(n, a[n])
<1>1. CASE ~Fits(s, v)
  BY <1>1 DEF TryInsert
<1>2. CASE Fits(s, v)
  <2>1. v # None /\ v.size \in Nat /\ v.size <= s.left
    BY <1>2, CappedIs DEF Fits
  <2>2. r = [headers |-> [s.headers EXCEPT ![n] = "ours"], left |-> s.left - v.size]
    BY <1>2 DEF TryInsert
  <2>3. /\ r.headers \in Envelopes /\ r.headers[n] = "ours"
        /\ \A m \in Header \ {n} : r.headers[m] = s.headers[m]
    BY <2>2 DEF Accounts, Envelopes, Header
  <2>4. \A m \in Optional : Takes(s.headers, a, m) \in Nat
    BY CappedIs DEF Takes, Accounts
  <2>5. Takes(r.headers, a, n) = v.size /\ Takes(s.headers, a, n) = 0
    BY <2>3 DEF Takes
  <2>6. \A m \in Optional \ {n} : Takes(r.headers, a, m) = Takes(s.headers, a, m)
    BY <2>3 DEF Takes, Header
  <2> HIDE DEF v
  <2>7. Spent(r.headers, a) = Spent(s.headers, a) + v.size
    BY <2>1, <2>4, <2>5, <2>6 DEF Spent, Optional
  <2>8. Spent(s.headers, a) \in Nat
    BY <2>4 DEF Spent, Optional
  <2>9. \A m \in Optional : r.headers[m] = "ours" => Capped(m, a[m]) # None
    BY <2>1, <2>3 DEF Accounts, Header, v
  <2> QED BY <2>1, <2>2, <2>3, <2>7, <2>8, <2>9 DEF Accounts
<1> QED BY <1>1, <1>2

LEMMA InsertsPair ==
  ASSUME NEW a \in Attribution, NEW s, Accounts(s, a), a["parent"] # None, a["parent-harness"] # None,
         s.headers["parent"] # "ours", s.headers["parent-harness"] # "ours",
         NEW r, r = TryInsertPair(s, a["parent"], a["parent-harness"])
  PROVE  /\ Accounts(r, a)
         /\ r.headers["parent"] = "ours" <=> r.headers["parent-harness"] = "ours"
         /\ \A m \in Header \ {"parent", "parent-harness"} : r.headers[m] = s.headers[m]
<1> DEFINE v == a["parent"]
           w == a["parent-harness"]
<1>1. CASE r = s
  BY <1>1
<1>2. CASE r # s
  <2>1. /\ Capped("parent", v) = v /\ Capped("parent-harness", w) = w
        /\ v.size \in Nat /\ w.size \in Nat
    BY CappedIs DEF Optional
  <2>2. /\ v.size + w.size <= s.left
        /\ r = [headers |-> [s.headers EXCEPT !["parent"] = "ours", !["parent-harness"] = "ours"],
                left |-> s.left - (v.size + w.size)]
    BY <1>2 DEF TryInsertPair
  <2>3. /\ r.headers \in Envelopes
        /\ r.headers["parent"] = "ours" /\ r.headers["parent-harness"] = "ours"
        /\ \A m \in Header \ {"parent", "parent-harness"} : r.headers[m] = s.headers[m]
    BY <2>2 DEF Accounts, Envelopes, Header, Optional
  <2>4. \A m \in Optional : Takes(s.headers, a, m) \in Nat
    BY CappedIs DEF Takes, Accounts
  <2>5. /\ Takes(r.headers, a, "parent") = v.size /\ Takes(s.headers, a, "parent") = 0
        /\ Takes(r.headers, a, "parent-harness") = w.size /\ Takes(s.headers, a, "parent-harness") = 0
    BY <2>1, <2>3 DEF Takes
  <2>6. \A m \in Optional \ {"parent", "parent-harness"} : Takes(r.headers, a, m) = Takes(s.headers, a, m)
    BY <2>3 DEF Takes, Header
  <2>7. \A m \in Optional : r.headers[m] = "ours" => Capped(m, a[m]) # None
    BY <2>1, <2>3 DEF Accounts, Header
  <2> HIDE DEF v, w
  <2>8. Spent(r.headers, a) = Spent(s.headers, a) + v.size + w.size
    BY <2>1, <2>4, <2>5, <2>6 DEF Spent, Optional
  <2>9. Spent(s.headers, a) \in Nat
    BY <2>4 DEF Spent, Optional
  <2> QED BY <2>1, <2>2, <2>3, <2>7, <2>8, <2>9 DEF Accounts
<1> QED BY <1>1, <1>2

\* The parent is stamped whole.
LEMMA InsertsParent ==
  ASSUME NEW a \in Attribution, NEW s, Accounts(s, a), a["parent"] = None => a["parent-harness"] = None,
         s.headers["parent"] # "ours", s.headers["parent-harness"] # "ours",
         NEW r, r = TryInsertParent(s, a["parent"], a["parent-harness"])
  PROVE  /\ Accounts(r, a) /\ Whole(r.headers, a)
         /\ \A m \in Header \ {"parent", "parent-harness"} : r.headers[m] = s.headers[m]
<1>1. CASE a["parent"] = None
  BY <1>1 DEF TryInsertParent, Whole
<1>2. CASE a["parent"] # None /\ a["parent-harness"] = None
  <2>1. r = TryInsert(s, "parent", Capped("parent", a["parent"]))
    BY <1>2, CappedIs DEF TryInsertParent, Optional
  <2> QED BY <1>2, <2>1, Inserts DEF Whole, Optional
<1>3. CASE a["parent"] # None /\ a["parent-harness"] # None
  <2>1. r = TryInsertPair(s, a["parent"], a["parent-harness"])
    BY <1>3 DEF TryInsertParent
  <2> QED BY <1>3, <2>1, InsertsPair DEF Whole
<1> QED BY <1>1, <1>2, <1>3

\* What is stamped keeps to its budget and is whole, on whatever the request brought.
LEMMA InjectionFits ==
  ASSUME NEW a \in Attribution, a["parent"] = None => a["parent-harness"] = None,
         NEW h \in Envelopes, \A n \in Header : h[n] # "ours",
         NEW r, r = InjectTapesAttribution(h, a)
  PROVE  r \in Envelopes /\ Whole(r, a) /\ Spent(r, a) <= Budget
<1> DEFINE put(s, n) == TryInsert(s, n, Capped(n, a[n]))
           s0 == [headers |-> [h EXCEPT !["harness"] = "ours"], left |-> Budget]
           s1 == put(s0, "session")
           s2 == put(s1, "cwd")
           s3 == put(s2, "name")
           s4 == TryInsertParent(s3, a["parent"], a["parent-harness"])
           s5 == put(s4, "metadata")
<1>1. r = s5.headers
  BY DEF InjectTapesAttribution
<1>2. /\ Accounts(s0, a) /\ \A n \in Optional : s0.headers[n] # "ours"
  <2>1. /\ s0.headers \in Envelopes /\ \A n \in Optional : s0.headers[n] # "ours"
    BY DEF Envelopes, Header, Optional
  <2>2. Spent(s0.headers, a) = 0
    BY <2>1 DEF Spent, Takes, Optional
  <2> QED BY <2>1, <2>2, EnvelopeAssumption DEF Accounts
<1>3. Accounts(s1, a) /\ \A n \in Optional \ {"session"} : s1.headers[n] # "ours"
  <2> HIDE DEF s0
  <2> QED BY <1>2, Inserts DEF Optional, Header
<1>4. Accounts(s2, a) /\ \A n \in Optional \ {"session", "cwd"} : s2.headers[n] # "ours"
  <2> HIDE DEF s1
  <2> QED BY <1>3, Inserts DEF Optional, Header
<1>5. Accounts(s3, a) /\ \A n \in {"parent", "parent-harness", "metadata"} : s3.headers[n] # "ours"
  <2> HIDE DEF s2
  <2> QED BY <1>4, Inserts DEF Optional, Header
<1>6. Accounts(s4, a) /\ Whole(s4.headers, a) /\ s4.headers["metadata"] # "ours"
  <2> HIDE DEF s3
  <2> QED BY <1>5, InsertsParent DEF Header, Optional
<1>7. Accounts(s5, a) /\ Whole(s5.headers, a)
  <2> HIDE DEF s4
  <2> QED BY <1>6, Inserts DEF Header, Optional, Whole
<1> HIDE DEF s5
<1>8. \A n \in Optional : Takes(s5.headers, a, n) \in Nat
  BY <1>7, CappedIs DEF Takes, Accounts
<1>9. Spent(s5.headers, a) \in Nat
  BY <1>8 DEF Spent, Optional
<1> QED BY <1>1, <1>7, <1>9, EnvelopeAssumption DEF Accounts

\* What is passed on is what arrived, or the sentinel alone.
LEMMA UnattributedIs ==
  ASSUME NEW h \in Envelopes
  PROVE  InjectUnattributed(h) \in Envelopes /\ (InjectUnattributed(h) = h \/ \A n \in Optional : InjectUnattributed(h)[n] = None)
<1>1. Bare \in Envelopes /\ \A n \in Optional : [Bare EXCEPT !["harness"] = "unknown"][n] = None
  BY DEF Bare, Envelopes, Header, Optional
<1>2. [Bare EXCEPT !["harness"] = "unknown"] \in Envelopes
  BY <1>1 DEF Envelopes
<1> QED BY <1>1, <1>2 DEF InjectUnattributed

LEMMA InboundIs == \A h \in Inbound : h \in Envelopes /\ \A n \in Header : h[n] # "ours"
BY EnvelopeAssumption DEF Inbound, Envelopes, Bare, Header, Optional

LEMMA FitsIs == FitsWhole <=> (given # None => Spent(headers, given) <= Budget /\ Whole(headers, given))
BY DEF FitsWhole, Spent, Takes, Whole

THEOREM EnvInvariance == EnvSpec => []EnvInv
<1>1. EnvInit => EnvInv
  BY EnvelopeAssumption DEF EnvInit, EnvInv, EnvTypeOK, FitsWhole, Bare, Envelopes
<1>2. EnvInv /\ [EnvNext]_envVars => EnvInv'
  <2> SUFFICES ASSUME EnvInv, [EnvNext]_envVars PROVE EnvInv'
    OBVIOUS
  <2>1. ASSUME NEW h \in Inbound, Stamp(h) PROVE EnvInv'
    <3>1. h \in Envelopes /\ \A n \in Header : h[n] # "ours"
      BY <2>1, InboundIs
    <3>2. CASE headers' = InjectUnattributed(h) /\ stamp' = "unknown" /\ given' = None
      BY <3>1, <3>2, UnattributedIs DEF EnvInv, EnvTypeOK, FitsWhole
    <3>3. CASE headers' = h /\ stamp' = "undecided" /\ given' = None
      BY <3>1, <3>3 DEF EnvInv, EnvTypeOK, FitsWhole
    <3>4. ASSUME NEW a \in Attribution, a["parent"] = None => a["parent-harness"] = None,
                 headers' = InjectTapesAttribution(h, a), stamp' = "known", given' = a
          PROVE  EnvInv'
      <4>1. headers' \in Envelopes /\ Whole(headers', a) /\ Spent(headers', a) <= Budget
        BY <3>1, <3>4, InjectionFits
      <4>2. FitsWhole' <=> (given' # None => Spent(headers', given') <= Budget /\ Whole(headers', given'))
        BY DEF FitsWhole, Spent, Takes, Whole
      <4> QED BY <3>4, <4>1, <4>2 DEF EnvInv, EnvTypeOK
    <3> QED BY <2>1, <3>2, <3>3, <3>4 DEF Stamp
  <2>2. CASE PassOn
    <3>1. headers' \in Envelopes /\ (headers' = headers \/ \A n \in Optional : headers'[n] = None)
      BY <2>2, UnattributedIs DEF PassOn, EnvInv, EnvTypeOK
    <3>2. CASE headers' = headers
      BY <2>2, <3>2 DEF PassOn, EnvInv, EnvTypeOK, FitsWhole
    <3>3. CASE \A n \in Optional : headers'[n] = None
      <4>1. \A n \in Optional : headers'[n] # "ours"
        BY <3>3, EnvelopeAssumption
      <4>2. FitsWhole'
        BY <4>1, EnvelopeAssumption DEF FitsWhole, Optional
      <4> QED BY <2>2, <3>1, <4>2 DEF PassOn, EnvInv, EnvTypeOK
    <3> QED BY <3>1, <3>2, <3>3
  <2>3. CASE UNCHANGED envVars
    BY <2>3 DEF envVars, EnvInv, EnvTypeOK, FitsWhole
  <2> QED BY <2>1, <2>2, <2>3 DEF EnvNext, Arrive
<1> QED BY <1>1, <1>2, PTL DEF EnvSpec

\* Whatever an attribution holds and a request brings, the headers stamped keep to
\* their budget and a parent in another harness is named by both halves or by
\* neither (inject_tapes_attribution, try_insert_pair).
THEOREM StampsFitWhole == EnvSpec => []FitsWhole
BY EnvInvariance, PTL DEF EnvInv
=============================================================================
