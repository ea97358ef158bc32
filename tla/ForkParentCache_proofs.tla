----------------------- MODULE ForkParentCache_proofs -----------------------
(***************************************************************************)
(* Proofs about ForkParentCache, for every set of sessions, parents and    *)
(* handlers and every value of the time constants.                         *)
(***************************************************************************)
EXTENDS ForkParentCache, FiniteSetTheorems, TLAPS

\* A handler at work names a session, and one whose deadline runs is on time.
WorkInv ==
  \A r \in Requests :
    /\ request[r].phase \in {"queued", "scanning", "joined"} => request[r].sid \in Sids
    /\ request[r].phase \in {"scanning", "joined"} => request[r].age <= ProbeTime

\* A parent in the cache or on its way to it is the true one.
TruthInv ==
  /\ \A s \in Sids : IF entries[s].kind = "parent"
                       THEN lineage[s] \in Parents /\ entries[s] = Parent(lineage[s])
                       ELSE entries[s].parent = NoParent
  /\ \A r \in Requests :
       request[r].phase = "joined" /\ request[r].outcome \in Parents
         => request[r].outcome = lineage[request[r].sid]

\* A miss on its way to the cache is no older than its probe.
LookInv ==
  /\ \A s \in Sids : lineage[s] = NoParent => onDisk[s] = 0
  /\ \A r \in Requests :
       request[r].phase = "joined" /\ request[r].outcome = NoParent
         => onDisk[request[r].sid] <= request[r].age + 1

IInv ==
  TypeOK /\ WorkInv /\ TruthInv /\ LookInv /\ AnnouncedIsCached /\ PermitsAccounted

---------------------------------------------------------------------------
\* An age grows by a tick up to its cap.
LEMMA OlderBounds ==
  ASSUME NEW cap \in Nat, NEW age \in 0 .. cap
  PROVE  Older(age, cap) \in 0 .. cap
BY DEF Older

\* A negative entry a tick later is still the same negative entry.
LEMMA OlderEntryType ==
  ASSUME NEW e \in Entry
  PROVE  /\ OlderEntry(e) \in Entry
         /\ OlderEntry(e).kind = e.kind /\ OlderEntry(e).parent = e.parent
<1>1. e.kind \in Kind /\ e.parent \in Answer /\ e.first \in 0 .. GiveUp /\ e.last \in 0 .. Retry
  BY DEF Entry
<1>2. Older(e.first, GiveUp) \in 0 .. GiveUp /\ Older(e.last, Retry) \in 0 .. Retry
  BY <1>1, OlderBounds, ConstantsAssumption
<1> QED BY <1>1, <1>2 DEF OlderEntry, Entry

\* Insert yields an entry, whatever the entry and the outcome.
LEMMA InsertType ==
  ASSUME NEW e \in Entry, NEW o \in Outcome
  PROVE  Insert(e, o) \in Entry
BY ConstantsAssumption
   DEF Insert, Entry, Outcome, Answer, Parent, Negative, PermanentlyNone, EntryOf, Kind

\* ForkParentCache::insert never takes a found parent away, records a parent
\* only when given it, and hardens only a miss whose window has closed.
LEMMA InsertEffect ==
  ASSUME NEW e \in Entry, NEW o \in Outcome
  PROVE  /\ o \in Parents => Insert(e, o) = Parent(o)
         /\ o \notin Parents /\ e.kind = "parent" => Insert(e, o) = e
         /\ o \notin Parents /\ e.kind # "parent"
              => Insert(e, o).kind # "parent" /\ Insert(e, o).parent = NoParent
         /\ Insert(e, o).kind = "permanentlyNone"
              => o = NoParent /\ e.kind = "negative" /\ e.first >= GiveUp
BY ConstantsAssumption
   DEF Insert, Entry, Outcome, Answer, Parent, Negative, PermanentlyNone, EntryOf, Kind

\* What a settled outcome does to the part of the invariant it disturbs.
LEMMA SettleStep ==
  ASSUME IInv, NEW s \in Sids, NEW o \in Outcome, Settle(s, o),
         o \in Parents => o = lineage[s], lineage' = lineage
  PROVE  /\ entries' \in [Sids -> Entry]
         /\ announced' \in [Sids -> SUBSET Answer]
         /\ \A t \in Sids : IF entries'[t].kind = "parent"
              THEN lineage[t] \in Parents /\ entries'[t] = Parent(lineage[t])
              ELSE entries'[t].parent = NoParent
         /\ \A t \in Sids, p \in Parents :
              p \in announced'[t] => p = lineage[t] /\ entries'[t] = Parent(p)
<1> USE DEF IInv, TypeOK
<1>1. entries' = [entries EXCEPT ![s] = Insert(entries[s], o)]
  BY DEF Settle
<1>2. announced' = [announced EXCEPT ![s] =
        announced[s] \cup {IF o \in Parents THEN o ELSE NoParent}]
  BY DEF Settle
<1>3. Insert(entries[s], o) \in Entry
  BY InsertType
<1>4. entries' \in [Sids -> Entry]
  BY <1>1, <1>3
<1>5. announced' \in [Sids -> SUBSET Answer]
  BY <1>2 DEF Answer
<1>6. /\ o \in Parents => Insert(entries[s], o) = Parent(o)
      /\ o \notin Parents /\ entries[s].kind = "parent" => Insert(entries[s], o) = entries[s]
      /\ o \notin Parents /\ entries[s].kind # "parent"
           => Insert(entries[s], o).kind # "parent" /\ Insert(entries[s], o).parent = NoParent
  BY InsertEffect
<1>7. \A p \in Parents : Parent(p).kind = "parent"
  BY DEF Parent, EntryOf
<1>8. ASSUME NEW t \in Sids
      PROVE  IF entries'[t].kind = "parent"
               THEN lineage[t] \in Parents /\ entries'[t] = Parent(lineage[t])
               ELSE entries'[t].parent = NoParent
  <2>1. CASE t # s
    BY <1>1, <2>1 DEF TruthInv
  <2>2. CASE t = s /\ o \in Parents
    BY <1>1, <1>6, <1>7, <2>2
  <2>3. CASE t = s /\ o \notin Parents
    BY <1>1, <1>6, <2>3 DEF TruthInv
  <2> QED BY <2>1, <2>2, <2>3
<1>9. ASSUME NEW t \in Sids, NEW p \in Parents, p \in announced'[t]
      PROVE  p = lineage[t] /\ entries'[t] = Parent(p)
  <2>1. CASE p \in announced[t]
    <3>1. p = lineage[t] /\ entries[t] = Parent(p)
      BY <2>1 DEF AnnouncedIsCached
    <3> QED BY <1>1, <1>6, <1>7, <3>1
  <2>2. CASE p \notin announced[t]
    <3>1. t = s /\ p = IF o \in Parents THEN o ELSE NoParent
      BY <1>2, <1>9, <2>2
    <3>2. o \in Parents /\ p = o
      BY <3>1, ConstantsAssumption
    <3> QED BY <1>1, <1>6, <3>1, <3>2
  <2> QED BY <2>1, <2>2
<1> QED BY <1>4, <1>5, <1>8, <1>9

\* The handlers that hold a permit are finitely many.
LEMMA HoldersFinite ==
  /\ IsFiniteSet(HoldsPermit)
  /\ Cardinality(HoldsPermit) \in Nat
BY ConstantsAssumption, FS_Subset, FS_CardinalityType DEF HoldsPermit, InPhase

\* A handler that moves to a phase without a permit, and did not hold one,
\* leaves the account as it is.
LEMMA SameHolders ==
  ASSUME TypeOK, PermitsAccounted, permits' = permits, HoldsPermit' = HoldsPermit
  PROVE  PermitsAccounted' /\ permits' \in 0 .. Permits
BY DEF PermitsAccounted, TypeOK

\* A handler that stops holding a permit gives it back.
LEMMA OneHolderLess ==
  ASSUME TypeOK, PermitsAccounted, NEW r \in HoldsPermit,
         permits' = permits + 1, HoldsPermit' = HoldsPermit \ {r}
  PROVE  PermitsAccounted' /\ permits' \in 0 .. Permits
<1>1. Cardinality(HoldsPermit \ {r}) = Cardinality(HoldsPermit) - 1
  BY HoldersFinite, FS_RemoveElement
<1>2. IsFiniteSet(HoldsPermit \ {r}) /\ Cardinality(HoldsPermit \ {r}) \in Nat
  BY HoldersFinite, FS_RemoveElement, FS_CardinalityType
<1> QED BY <1>1, <1>2, HoldersFinite, ConstantsAssumption DEF PermitsAccounted, TypeOK

\* A handler that starts holding a permit took a free one.
LEMMA OneHolderMore ==
  ASSUME TypeOK, PermitsAccounted, NEW r, r \notin HoldsPermit,
         permits > 0, permits' = permits - 1, HoldsPermit' = HoldsPermit \cup {r}
  PROVE  PermitsAccounted' /\ permits' \in 0 .. Permits
<1>1. Cardinality(HoldsPermit \cup {r}) = Cardinality(HoldsPermit) + 1
  BY HoldersFinite, FS_AddElement
<1> QED BY <1>1, HoldersFinite, ConstantsAssumption DEF PermitsAccounted, TypeOK

---------------------------------------------------------------------------
\* The invariant holds initially.
LEMMA InitIInv == Init => IInv
<1> SUFFICES ASSUME Init PROVE IInv
  OBVIOUS
<1> USE ConstantsAssumption DEF Init
<1>1. TypeOK
  BY DEF TypeOK, Entry, Kind, Absent, EntryOf, Answer, DiskAge, ProbeTime,
         Idle, At, RequestRec, Phase, Outcome
<1>2. WorkInv
  BY DEF WorkInv, Idle, At
<1>3. TruthInv
  BY DEF TruthInv, Absent, EntryOf, Idle, At
<1>4. LookInv
  BY DEF LookInv, Idle, At
<1>5. AnnouncedIsCached
  BY DEF AnnouncedIsCached
<1>6. PermitsAccounted
  <2>1. HoldsPermit = {}
    BY DEF HoldsPermit, InPhase, Idle, At
  <2> QED BY <2>1, FS_EmptySet DEF PermitsAccounted
<1> QED BY <1>1, <1>2, <1>3, <1>4, <1>5, <1>6 DEF IInv

\* Every step preserves it.
LEMMA NextIInv == IInv /\ [Next]_vars => IInv'
<1> SUFFICES ASSUME IInv, [Next]_vars PROVE IInv'
  OBVIOUS
<1> USE ConstantsAssumption DEF IInv
<1>1. ASSUME NEW s \in Sids, Appear(s)
      PROVE  IInv'
  <2> USE <1>1 DEF Appear
  <2>1. TypeOK'
    BY DEF TypeOK, DiskAge, ProbeTime
  <2>2. WorkInv' /\ TruthInv' /\ AnnouncedIsCached'
    BY DEF WorkInv, TruthInv, AnnouncedIsCached, TypeOK
  <2>3. LookInv'
    BY DEF LookInv, WorkInv, TypeOK, RequestRec
  <2>4. PermitsAccounted'
    BY SameHolders DEF HoldsPermit, InPhase
  <2> QED BY <2>1, <2>2, <2>3, <2>4
<1>2. ASSUME NEW s \in Sids, AnswerFromCache(s)
      PROVE  IInv'
  <2> USE <1>2 DEF AnswerFromCache
  <2>1. entries[s].parent \in Answer
    BY DEF TypeOK, Entry
  <2>2. TypeOK'
    BY <2>1 DEF TypeOK
  <2>3. WorkInv' /\ TruthInv' /\ LookInv'
    BY DEF WorkInv, TruthInv, LookInv
  <2>4. AnnouncedIsCached'
    <3> SUFFICES ASSUME NEW t \in Sids, NEW p \in Parents, p \in announced'[t]
                 PROVE  p = lineage[t] /\ entries[t] = Parent(p)
      BY DEF AnnouncedIsCached
    <3>1. CASE p \in announced[t]
      BY <3>1 DEF AnnouncedIsCached
    <3>2. CASE p \notin announced[t]
      <4>1. t = s /\ p = entries[s].parent
        BY <3>2 DEF TypeOK
      <4>2. entries[s].kind = "parent"
        BY <4>1 DEF TruthInv
      <4>3. lineage[s] \in Parents /\ entries[s] = Parent(lineage[s])
        BY <4>2 DEF TruthInv
      <4>4. Parent(lineage[s]).parent = lineage[s]
        BY DEF Parent, EntryOf
      <4> QED BY <4>1, <4>3, <4>4
    <3> QED BY <3>1, <3>2
  <2>5. PermitsAccounted'
    BY SameHolders DEF HoldsPermit, InPhase
  <2> QED BY <2>2, <2>3, <2>4, <2>5
<1>3. ASSUME NEW s \in Sids, SettleUnlocated(s)
      PROVE  IInv'
  <2> USE <1>3 DEF SettleUnlocated
  <2>1. NoParent \in Outcome /\ NoParent \notin Parents
    BY DEF Outcome, Answer
  <2>2. /\ entries' \in [Sids -> Entry]
        /\ announced' \in [Sids -> SUBSET Answer]
        /\ \A t \in Sids : IF entries'[t].kind = "parent"
             THEN lineage[t] \in Parents /\ entries'[t] = Parent(lineage[t])
             ELSE entries'[t].parent = NoParent
        /\ \A t \in Sids, p \in Parents :
             p \in announced'[t] => p = lineage[t] /\ entries'[t] = Parent(p)
    BY <2>1, SettleStep
  <2>3. PermitsAccounted'
    BY SameHolders DEF HoldsPermit, InPhase
  <2> QED BY <2>2, <2>3 DEF TypeOK, WorkInv, TruthInv, LookInv, AnnouncedIsCached
<1>4. ASSUME NEW r \in Requests, NEW s \in Sids, Discover(r, s)
      PROVE  IInv'
  <2> USE <1>4 DEF Discover
  <2>1. At("queued", s) \in RequestRec
    BY DEF At, RequestRec, Phase, Outcome, Answer, ProbeTime
  <2>2. TypeOK'
    BY <2>1 DEF TypeOK
  <2>3. WorkInv' /\ TruthInv' /\ LookInv' /\ AnnouncedIsCached'
    BY DEF WorkInv, TruthInv, LookInv, AnnouncedIsCached, TypeOK, At
  <2>4. HoldsPermit' = HoldsPermit
    BY DEF HoldsPermit, InPhase, TypeOK, At
  <2> QED BY <2>2, <2>3, <2>4, SameHolders
<1>5. ASSUME NEW r \in Requests, Acquire(r)
      PROVE  IInv'
  <2> USE <1>5 DEF Acquire
  <2>1. At("scanning", request[r].sid) \in RequestRec
    BY DEF At, RequestRec, Phase, Outcome, Answer, ProbeTime, TypeOK
  <2>2. r \notin HoldsPermit /\ HoldsPermit' = HoldsPermit \cup {r}
    BY DEF HoldsPermit, InPhase, TypeOK, At
  <2>3. PermitsAccounted' /\ permits' \in 0 .. Permits
    BY <2>2, OneHolderMore
  <2>4. TypeOK'
    BY <2>1, <2>3 DEF TypeOK
  <2>5. WorkInv' /\ TruthInv' /\ LookInv' /\ AnnouncedIsCached'
    BY DEF WorkInv, TruthInv, LookInv, AnnouncedIsCached, TypeOK, At, ProbeTime
  <2> QED BY <2>3, <2>4, <2>5
<1>6. ASSUME NEW r \in Requests, Scan(r)
      PROVE  IInv'
  <2>1. PICK o \in {Look(request[r].sid)} \cup
                   (IF request[r].age >= Budget THEN {TimedOut} ELSE {}) :
          request' = [request EXCEPT ![r] =
            [phase |-> "joined", sid |-> request[r].sid, age |-> request[r].age,
             outcome |-> o]]
    BY <1>6 DEF Scan
  <2>2. request[r].phase = "scanning" /\ request[r].sid \in Sids
    BY <1>6 DEF Scan, WorkInv
  <2>3. o = TimedOut \/ o = Look(request[r].sid)
    BY <2>1
  <2>4. o \in Outcome
    BY <2>2, <2>3 DEF Look, Outcome, Answer, TypeOK
  <2>5. o \in Parents => o = lineage[request[r].sid]
    BY <2>3 DEF Look
  <2>6. o = NoParent => onDisk[request[r].sid] = 0
    BY <2>2, <2>3 DEF Look, LookInv, TypeOK, DiskAge
  <2>7. [phase |-> "joined", sid |-> request[r].sid, age |-> request[r].age,
         outcome |-> o] \in RequestRec
    BY <2>2, <2>4 DEF RequestRec, Phase, TypeOK
  <2>8. r \in HoldsPermit /\ HoldsPermit' = HoldsPermit \ {r}
    BY <2>1, <2>2 DEF HoldsPermit, InPhase, TypeOK
  <2>9. PermitsAccounted' /\ permits' \in 0 .. Permits
    BY <1>6, <2>8, OneHolderLess DEF Scan
  <2>10. TypeOK'
    BY <1>6, <2>1, <2>7, <2>9 DEF TypeOK, Scan
  <2>11. WorkInv'
    BY <1>6, <2>1, <2>2 DEF WorkInv, Scan, TypeOK
  <2>12. TruthInv'
    BY <1>6, <2>1, <2>5 DEF TruthInv, Scan, TypeOK
  <2>13. LookInv'
    <3>1. request[r].age + 1 >= 0
      BY DEF TypeOK, RequestRec, ProbeTime
    <3> QED BY <1>6, <2>1, <2>6, <3>1 DEF LookInv, Scan, TypeOK
  <2>14. AnnouncedIsCached'
    BY <1>6 DEF AnnouncedIsCached, Scan
  <2> QED BY <2>9, <2>10, <2>11, <2>12, <2>13, <2>14
<1>7. ASSUME NEW r \in Requests, Deliver(r)
      PROVE  IInv'
  <2> USE <1>7 DEF Deliver
  <2> DEFINE s == request[r].sid
             o == request[r].outcome
  <2>1. s \in Sids /\ o \in Outcome /\ (o \in Parents => o = lineage[s])
    BY DEF WorkInv, TruthInv, TypeOK, RequestRec
  <2>2. /\ entries' \in [Sids -> Entry]
        /\ announced' \in [Sids -> SUBSET Answer]
        /\ \A t \in Sids : IF entries'[t].kind = "parent"
             THEN lineage[t] \in Parents /\ entries'[t] = Parent(lineage[t])
             ELSE entries'[t].parent = NoParent
        /\ \A t \in Sids, p \in Parents :
             p \in announced'[t] => p = lineage[t] /\ entries'[t] = Parent(p)
    BY <2>1, SettleStep
  <2>3. Idle \in RequestRec
    BY DEF Idle, At, RequestRec, Phase, Outcome, Answer, ProbeTime
  <2>4. HoldsPermit' = HoldsPermit
    BY DEF HoldsPermit, InPhase, TypeOK, Idle, At
  <2>5. TypeOK'
    BY <2>2, <2>3 DEF TypeOK
  <2>6. WorkInv' /\ TruthInv' /\ LookInv' /\ AnnouncedIsCached'
    BY <2>2 DEF WorkInv, TruthInv, LookInv, AnnouncedIsCached, TypeOK, Idle, At
  <2> QED BY <2>4, <2>5, <2>6, SameHolders
<1>8. ASSUME NEW r \in Requests, Timeout(r)
      PROVE  IInv'
  <2> USE <1>8 DEF Timeout
  <2> DEFINE s == request[r].sid
  <2>1. s \in Sids /\ TimedOut \in Outcome /\ TimedOut \notin Parents
    BY DEF WorkInv, Outcome
  <2>2. /\ entries' \in [Sids -> Entry]
        /\ announced' \in [Sids -> SUBSET Answer]
        /\ \A t \in Sids : IF entries'[t].kind = "parent"
             THEN lineage[t] \in Parents /\ entries'[t] = Parent(lineage[t])
             ELSE entries'[t].parent = NoParent
        /\ \A t \in Sids, p \in Parents :
             p \in announced'[t] => p = lineage[t] /\ entries'[t] = Parent(p)
    BY <2>1, SettleStep
  <2>3. At("abandoned", NoSid) \in RequestRec
    BY DEF At, RequestRec, Phase, Outcome, Answer, ProbeTime
  <2>4. HoldsPermit' = HoldsPermit
    BY DEF HoldsPermit, InPhase, TypeOK, At
  <2>5. TypeOK'
    BY <2>2, <2>3 DEF TypeOK
  <2>6. WorkInv' /\ TruthInv' /\ LookInv' /\ AnnouncedIsCached'
    BY <2>2 DEF WorkInv, TruthInv, LookInv, AnnouncedIsCached, TypeOK, At
  <2> QED BY <2>4, <2>5, <2>6, SameHolders
<1>9. ASSUME NEW r \in Requests, Disconnect(r)
      PROVE  IInv'
  <2> USE <1>9 DEF Disconnect
  <2>1. Idle \in RequestRec /\ At("abandoned", NoSid) \in RequestRec
    BY DEF Idle, At, RequestRec, Phase, Outcome, Answer, ProbeTime
  <2>2. TypeOK'
    BY <2>1 DEF TypeOK
  <2>3. HoldsPermit' = HoldsPermit
    BY DEF HoldsPermit, InPhase, TypeOK, Idle, At
  <2>4. WorkInv' /\ TruthInv' /\ LookInv' /\ AnnouncedIsCached'
    BY DEF WorkInv, TruthInv, LookInv, AnnouncedIsCached, TypeOK, Idle, At
  <2> QED BY <2>2, <2>3, <2>4, SameHolders
<1>10. ASSUME NEW r \in Requests, FinishAbandoned(r)
       PROVE  IInv'
  <2> USE <1>10 DEF FinishAbandoned
  <2>1. Idle \in RequestRec
    BY DEF Idle, At, RequestRec, Phase, Outcome, Answer, ProbeTime
  <2>2. r \in HoldsPermit /\ HoldsPermit' = HoldsPermit \ {r}
    BY DEF HoldsPermit, InPhase, TypeOK, Idle, At
  <2>3. PermitsAccounted' /\ permits' \in 0 .. Permits
    BY <2>2, OneHolderLess
  <2>4. TypeOK'
    BY <2>1, <2>3 DEF TypeOK
  <2>5. WorkInv' /\ TruthInv' /\ LookInv' /\ AnnouncedIsCached'
    BY DEF WorkInv, TruthInv, LookInv, AnnouncedIsCached, TypeOK, Idle, At
  <2> QED BY <2>3, <2>4, <2>5
<1>11. ASSUME Tick
       PROVE  IInv'
  <2>1. \A s \in Sids : /\ entries'[s] \in Entry
                        /\ entries'[s].kind = entries[s].kind
                        /\ entries'[s].parent = entries[s].parent
                        /\ entries[s].kind = "parent" => entries'[s] = entries[s]
    <3> SUFFICES ASSUME NEW s \in Sids
                 PROVE  /\ entries'[s] \in Entry
                        /\ entries'[s].kind = entries[s].kind
                        /\ entries'[s].parent = entries[s].parent
                        /\ entries[s].kind = "parent" => entries'[s] = entries[s]
      OBVIOUS
    <3>1. entries[s] \in Entry
      BY DEF TypeOK
    <3>2. entries'[s] = IF entries[s].kind = "negative"
                          THEN OlderEntry(entries[s]) ELSE entries[s]
      BY <1>11 DEF Tick
    <3> QED BY <3>1, <3>2, OlderEntryType
  <2>2. ASSUME NEW r \in Requests
        PROVE  /\ request'[r] \in RequestRec
               /\ request'[r].phase = request[r].phase
               /\ request'[r].sid = request[r].sid
               /\ request'[r].outcome = request[r].outcome
               /\ request[r].phase \in {"scanning", "joined"}
                    => /\ request'[r].age = request[r].age + 1
                       /\ request'[r].age <= ProbeTime
    <3>1. request[r] \in RequestRec /\ request[r].age \in 0 .. ProbeTime + 1
      BY DEF TypeOK, RequestRec
    <3>2. ProbeTime \in Nat
      BY DEF ProbeTime
    <3>3. /\ Older(request[r].age, ProbeTime + 1) \in 0 .. ProbeTime + 1
          /\ request[r].age < ProbeTime
               => Older(request[r].age, ProbeTime + 1) = request[r].age + 1
      BY <3>1, <3>2 DEF Older
    <3>4. request'[r] = IF request[r].phase \in {"queued", "scanning", "joined"}
                          THEN [request[r] EXCEPT !.age = Older(request[r].age, ProbeTime + 1)]
                          ELSE request[r]
      BY <1>11 DEF Tick
    <3>5. request[r].phase \in {"scanning", "joined"} => request[r].age < ProbeTime
      BY <1>11 DEF Tick, InPhase
    <3>6. CASE request[r].phase \in {"queued", "scanning", "joined"}
      <4>1. /\ request'[r].age = Older(request[r].age, ProbeTime + 1)
            /\ request'[r].phase = request[r].phase
            /\ request'[r].sid = request[r].sid
            /\ request'[r].outcome = request[r].outcome
            /\ request'[r] \in RequestRec
        BY <3>1, <3>3, <3>4, <3>6 DEF RequestRec
      <4> QED BY <3>1, <3>2, <3>3, <3>5, <4>1
    <3>7. CASE request[r].phase \notin {"queued", "scanning", "joined"}
      BY <3>1, <3>4, <3>7
    <3> QED BY <3>6, <3>7
  <2>3. ASSUME NEW s \in Sids
        PROVE  /\ onDisk'[s] \in DiskAge
               /\ onDisk'[s] <= onDisk[s] + 1
               /\ onDisk[s] = 0 => onDisk'[s] = 0
    <3>1. onDisk[s] \in 0 .. ProbeTime + 2 /\ ProbeTime + 2 \in Nat
      BY DEF TypeOK, DiskAge, ProbeTime
    <3>2. onDisk'[s] = IF onDisk[s] > 0 THEN Older(onDisk[s], ProbeTime + 2) ELSE 0
      BY <1>11 DEF Tick
    <3> QED BY <3>1, <3>2 DEF Older, DiskAge
  <2> USE <1>11 DEF Tick
  <2>4. TypeOK'
    BY <2>1, <2>2, <2>3 DEF TypeOK
  <2>5. WorkInv'
    BY <2>2 DEF WorkInv
  <2>6. TruthInv'
    BY <2>1, <2>2 DEF TruthInv
  <2>7. LookInv'
    <3>1. \A s \in Sids : lineage'[s] = NoParent => onDisk'[s] = 0
      BY <2>3 DEF LookInv
    <3>2. ASSUME NEW r \in Requests, request'[r].phase = "joined",
                 request'[r].outcome = NoParent
          PROVE  onDisk'[request'[r].sid] <= request'[r].age + 1
      <4>1. /\ request[r].sid \in Sids /\ request'[r].sid = request[r].sid
            /\ request'[r].age = request[r].age + 1
            /\ onDisk[request[r].sid] <= request[r].age + 1
        BY <2>2, <3>2 DEF LookInv, WorkInv
      <4>2. onDisk'[request[r].sid] <= onDisk[request[r].sid] + 1
        BY <2>3, <4>1
      <4>3. /\ request[r].age \in Int /\ onDisk[request[r].sid] \in Int
            /\ onDisk'[request[r].sid] \in Int
        BY <2>3, <4>1 DEF TypeOK, RequestRec, DiskAge
      <4> QED BY <4>1, <4>2, <4>3
    <3> QED BY <3>1, <3>2 DEF LookInv
  <2>8. AnnouncedIsCached'
    BY <2>1 DEF AnnouncedIsCached, Parent, EntryOf
  <2>9. HoldsPermit' = HoldsPermit
    BY <2>2 DEF HoldsPermit, InPhase
  <2> QED BY <2>4, <2>5, <2>6, <2>7, <2>8, <2>9, SameHolders
<1>12. CASE UNCHANGED vars
  BY <1>12 DEF vars, TypeOK, WorkInv, TruthInv, LookInv, AnnouncedIsCached,
               PermitsAccounted, HoldsPermit, InPhase
<1> QED
  BY <1>1, <1>2, <1>3, <1>4, <1>5, <1>6, <1>7, <1>8, <1>9, <1>10, <1>11, <1>12 DEF Next

---------------------------------------------------------------------------
\* The inductive invariant holds in every reachable state.
THEOREM Invariance == Spec => []IInv
BY InitIInv, NextIInv, PTL DEF Spec

\* Every state is well typed: in particular the semaphore never hands out more
\* permits than it has, nor gets back more than it gave.
THEOREM TypeCorrect == Spec => []TypeOK
<1>1. IInv => TypeOK
  BY DEF IInv
<1> QED BY <1>1, Invariance, PTL

\* Running scans and free permits add up to the size of the semaphore, whatever
\* times out or disconnects.
THEOREM PermitsAreAccounted == Spec => []PermitsAccounted
<1>1. IInv => PermitsAccounted
  BY DEF IInv
<1> QED BY <1>1, Invariance, PTL

\* A parent announced to one request is the true one and stays in the cache.
THEOREM AnnouncedStaysCached == Spec => []AnnouncedIsCached
<1>1. IInv => AnnouncedIsCached
  BY DEF IInv
<1> QED BY <1>1, Invariance, PTL

\* A lineage is given up on only by a probe that looked after its evidence
\* could have been read and after the give-up window closed.
THEOREM HardensAfterFinalLook == Spec => HardensOnlyAfterFinalLook
<1>1. IInv /\ [Next]_vars => [\A s \in Located : Hardens(s) => WasLooked(s)]_vars
  <2> SUFFICES ASSUME IInv, [Next]_vars, NEW s \in Located, Hardens(s)
               PROVE  WasLooked(s)
    OBVIOUS
  <2> USE ConstantsAssumption DEF IInv, Hardens, WasLooked
  <2>0. s \in Sids /\ entries[s] \in Entry
    BY DEF TypeOK
  <2>1. ASSUME NEW t \in Sids, Appear(t) \/ AnswerFromCache(t) PROVE FALSE
    BY <2>1 DEF Appear, AnswerFromCache
  <2>2. ASSUME NEW t \in Sids, SettleUnlocated(t) PROVE FALSE
    <3>1. t # s /\ entries'[s] = entries[s]
      BY <2>0, <2>2 DEF SettleUnlocated, Settle, TypeOK
    <3> QED BY <3>1
  <2>3. ASSUME NEW r \in Requests, NEW t \in Sids, Discover(r, t) PROVE FALSE
    BY <2>3 DEF Discover
  <2>4. ASSUME NEW r \in Requests,
               Acquire(r) \/ Scan(r) \/ Disconnect(r) \/ FinishAbandoned(r)
        PROVE  FALSE
    BY <2>4 DEF Acquire, Scan, Disconnect, FinishAbandoned
  <2>5. ASSUME NEW r \in Requests, Deliver(r) PROVE WasLooked(s)
    <3>1. /\ request[r].phase = "joined"
          /\ request[r].sid \in Sids /\ request[r].outcome \in Outcome
          /\ request[r].age \in 0 .. ProbeTime
      BY <2>5 DEF Deliver, WorkInv, TypeOK, RequestRec, ProbeTime
    <3>2. entries' = [entries EXCEPT ![request[r].sid] =
                        Insert(entries[request[r].sid], request[r].outcome)]
      BY <2>5 DEF Deliver, Settle
    <3>3. s = request[r].sid
      BY <2>0, <3>1, <3>2 DEF TypeOK
    <3>4. entries'[s] = Insert(entries[s], request[r].outcome)
      BY <2>0, <3>2, <3>3 DEF TypeOK
    <3>5. request[r].outcome = NoParent /\ entries[s].kind = "negative"
          /\ entries[s].first >= GiveUp
      BY <2>0, <3>1, <3>4, InsertEffect
    <3>6. onDisk[s] <= request[r].age + 1
      BY <3>1, <3>3, <3>5 DEF LookInv
    <3>7. onDisk[s] <= ProbeTime + 1
      BY <2>0, <3>1, <3>6 DEF TypeOK, DiskAge, ProbeTime
    <3> QED BY <3>5, <3>7
  <2>6. ASSUME NEW r \in Requests, Timeout(r) PROVE FALSE
    <3>1. request[r].sid \in Sids /\ TimedOut \in Outcome
      BY <2>6 DEF Timeout, WorkInv, Outcome
    <3>2. entries' = [entries EXCEPT ![request[r].sid] =
                        Insert(entries[request[r].sid], TimedOut)]
      BY <2>6 DEF Timeout, Settle
    <3>3. CASE s = request[r].sid
      <4>1. entries'[s] = Insert(entries[s], TimedOut)
        BY <2>0, <3>2, <3>3 DEF TypeOK
      <4> QED BY <2>0, <3>1, <4>1, InsertEffect
    <3>4. CASE s # request[r].sid
      BY <2>0, <3>2, <3>4 DEF TypeOK
    <3> QED BY <3>3, <3>4
  <2>7. ASSUME Tick PROVE FALSE
    <3>1. entries'[s] = IF entries[s].kind = "negative"
                          THEN OlderEntry(entries[s]) ELSE entries[s]
      BY <2>0, <2>7 DEF Tick
    <3> QED BY <2>0, <3>1, OlderEntryType
  <2>8. CASE UNCHANGED vars
    BY <2>8 DEF vars
  <2> QED BY <2>1, <2>2, <2>3, <2>4, <2>5, <2>6, <2>7, <2>8 DEF Next
<1>2. QED
  BY <1>1, Invariance, PTL DEF Spec, HardensOnlyAfterFinalLook
=============================================================================
