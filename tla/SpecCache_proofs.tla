--------------------------- MODULE SpecCache_proofs ---------------------------
(***************************************************************************)
(* Proofs about a client's two parts that deal with cassettes, the cache   *)
(* of their documents (SpecCache) and the commands made of one             *)
(* (CassetteSurface), and about a Cursor run (CursorStream).               *)
(*                                                                         *)
(* Between the answer of the server and the entry that is used without     *)
(* asking, a document is carried by one process: while it still fetches,   *)
(* the document has been superseded for no longer than the process has     *)
(* waited, and once it is to be written for no longer than its stamp is    *)
(* old and it has waited.  The entry on disk inherits that from whichever  *)
(* process wrote it, so it does not matter which rename comes last.  All   *)
(* this is in real time; what the wall clock shows enters only where an    *)
(* entry is fresh by it, and so has an age of less than a window and what  *)
(* the clock has been set back by.                                         *)
(*                                                                         *)
(* What the other two compute is defined by recursion over a sequence.  It *)
(* is shown to exist, and to be what it should, by induction over the      *)
(* length of the sequence: well-founded induction on Nat, stated for sets. *)
(***************************************************************************)
EXTENDS SpecCache, CassetteSurface, CursorStream, SequenceTheorems, FiniteSetTheorems, WellFoundedInduction, TLAPS

---------------------------------------------------------------------------
(* The cache of the documents (SpecCache).                                 *)

\* What the server serves now has not been superseded.
CurrentIsNew ==
  \A c \in Cassettes : \A v \in 1 .. Versions : v >= version[c] => since[c][v] = 0

TagOK(d) == d # None => d.etag \in {None, d.version}

\* The document d of c was superseded at most a ago.
Recent(c, d, a) == d # None => since[c][d.version] <= a

\* What a process has been told stays with the right validators.
Tags(p) == \A c \in Cassettes : TagOK(had[p][c]) /\ TagOK(docs[p][c])

\* What it has fetched, and what it is about to write, is recent.
Carries(p) ==
  /\ phase[p] \in {"idle", "discover"} => docs[p] = NoDocs
  /\ phase[p] = "specs" /\ waited[p] < Slow =>
       \A c \in Cassettes : c \notin kept[p] => Recent(c, docs[p][c], waited[p])
  /\ phase[p] = "write" /\ waited[p] < Slow /\ stamp[p].age < Expired =>
       \A c \in Cassettes : c \notin kept[p] => Recent(c, docs[p][c], stamp[p].age + waited[p])

\* It still has, or is still to fetch, what it had and the server lists.
Holds(p) ==
  phase[p] = "specs" =>
    /\ listing[p] # None
    /\ \A c \in Cassettes : had[p][c] # None /\ c \in listing[p] =>
         c \in todo[p] \/ docs[p][c] # None

ProcessInv(p) == Tags(p) /\ Carries(p) /\ Holds(p)

\* And so is what is on disk.
Recorded ==
  disk # None /\ disk.took < Slow /\ disk.stamp.age < Expired =>
    \A c \in Cassettes : c \notin disk.kept => Recent(c, disk.docs[c], disk.stamp.age + disk.took)

DiskInv == TagsMatch /\ Recorded

IInv == TypeOK /\ CurrentIsNew /\ DiskInv /\ \A p \in Processes : ProcessInv(p)

---------------------------------------------------------------------------
\* Every document has an age.
LEMMA SinceType ==
  ASSUME IInv, NEW c \in Cassettes
  PROVE  /\ \A v \in 1 .. Versions : since[c][v] \in 0 .. Forever
         /\ \A d \in Doc : d.version \in 1 .. Versions /\ since[c][d.version] \in Int
<1>1. since[c] \in [1 .. Versions -> 0 .. Forever] /\ Forever \in Int
  BY ConstantsAssumption DEF IInv, TypeOK, Forever
<1>2. \A v \in 1 .. Versions : since[c][v] \in 0 .. Forever
  BY <1>1
<1>3. \A d \in Doc : d.version \in 1 .. Versions
  BY DEF Doc
<1> QED BY <1>1, <1>2, <1>3

\* A step of p leaves what is about another process alone.
Others(p) ==
  \A q \in Processes \ {p} :
    /\ phase'[q] = phase[q] /\ had'[q] = had[q] /\ docs'[q] = docs[q] /\ listing'[q] = listing[q]
    /\ todo'[q] = todo[q] /\ kept'[q] = kept[q] /\ waited'[q] = waited[q] /\ stamp'[q] = stamp[q]

LEMMA ProcessStep ==
  ASSUME IInv, NEW p \in Processes, TypeOK', UNCHANGED server, DiskInv',
         Others(p), ProcessInv(p)'
  PROVE  IInv'
<1>1. CurrentIsNew'
  BY DEF IInv, CurrentIsNew, server
<1>2. ASSUME NEW q \in Processes, q # p PROVE ProcessInv(q)'
  <2>1. ProcessInv(q) /\ q \in Processes \ {p}
    BY <1>2 DEF IInv
  <2>2. /\ phase'[q] = phase[q] /\ had'[q] = had[q] /\ docs'[q] = docs[q]
        /\ listing'[q] = listing[q] /\ todo'[q] = todo[q] /\ kept'[q] = kept[q]
        /\ waited'[q] = waited[q] /\ stamp'[q] = stamp[q] /\ since' = since
    BY <2>1 DEF Others, server
  <2>3. Tags(q)' /\ Holds(q)'
    BY <2>1, <2>2 DEF ProcessInv, Tags, TagOK, Holds
  <2>4. Carries(q)'
    BY <2>1, <2>2 DEF ProcessInv, Carries, Recent
  <2> QED BY <2>3, <2>4 DEF ProcessInv
<1> QED BY <1>1, <1>2 DEF IInv

\* The disk keeps its invariant when it is left alone.
LEMMA DiskKept ==
  ASSUME IInv, UNCHANGED server, UNCHANGED disk
  PROVE  DiskInv'
BY DEF IInv, DiskInv, TagsMatch, Recorded, Recent, server, Cached

LEMMA NoDocsType == NoDocs \in Docs /\ \A c \in Cassettes : NoDocs[c] = None
BY DEF NoDocs, Docs

LEMMA CachedType ==
  ASSUME IInv
  PROVE  Cached(disk) \in Docs /\ Cached(None) = NoDocs
         /\ \A c \in Cassettes : TagOK(Cached(disk)[c]) /\ TagOK(NoDocs[c])
<1>1. Cached(disk) \in Docs /\ Cached(None) = NoDocs
  BY NoDocsType DEF IInv, TypeOK, Entry, Cached
<1>2. \A c \in Cassettes : TagOK(Cached(disk)[c])
  BY DEF IInv, DiskInv, TagsMatch, TagOK
<1> QED BY <1>1, <1>2, NoDocsType DEF TagOK

\* A process that moves on with sound documents.
LEMMA EnterStep ==
  ASSUME IInv, NEW p \in Processes, NEW d \in Docs, NEW ph \in {"idle", "done"},
         ph = "idle" => d = NoDocs,
         \A c \in Cassettes : TagOK(d[c]),
         Enter(p, ph, d), disk' \in Entry \cup {None}, DiskInv'
  PROVE  IInv'
<1> USE DEF Enter
<1>1. TypeOK'
  <2>1. served' \in SUBSET Cassettes /\ version' \in [Cassettes -> 1 .. Versions]
        /\ since' \in [Cassettes -> [1 .. Versions -> 0 .. Forever]]
    BY DEF IInv, TypeOK, server
  <2>2. /\ phase' \in [Processes -> {"idle", "discover", "specs", "write", "done"}]
        /\ live' \in [Processes -> BOOLEAN]
    BY DEF IInv, TypeOK
  <2>3. had' \in [Processes -> Docs] /\ docs' \in [Processes -> Docs]
    BY NoDocsType DEF IInv, TypeOK
  <2>4. /\ listing' \in [Processes -> (SUBSET Cassettes) \cup {None}]
        /\ todo' \in [Processes -> SUBSET Cassettes] /\ kept' \in [Processes -> SUBSET Cassettes]
    BY DEF IInv, TypeOK
  <2>5. waited' \in [Processes -> 0 .. Slow] /\ stamp' \in [Processes -> Stamp]
    <3>1. Unstamped \in Stamp /\ 0 \in 0 .. Slow
      BY ConstantsAssumption DEF Unstamped, Stamp, Expired
    <3> QED BY <3>1 DEF IInv, TypeOK
  <2>6. clock' \in 0 .. Drift
    BY DEF IInv, TypeOK
  <2> QED BY <2>1, <2>2, <2>3, <2>4, <2>5, <2>6 DEF TypeOK
<1>2. Others(p)
  BY DEF IInv, TypeOK, Others
<1>3. /\ phase'[p] = ph /\ docs'[p] = d /\ had'[p] = NoDocs
  BY DEF IInv, TypeOK
<1>4. ProcessInv(p)'
  BY <1>3, NoDocsType DEF ProcessInv, Tags, TagOK, Carries, Holds
<1> QED BY <1>1, <1>2, <1>4, ProcessStep

---------------------------------------------------------------------------
(* One invocation, action by action.                                       *)

LEMMA UseStep == ASSUME IInv, NEW p \in Processes, Use(p) PROVE IInv'
<1>1. disk \in Entry /\ disk.docs \in Docs /\ disk # None
  BY DEF IInv, TypeOK, Use, IsFresh, Entry
<1>2. \A c \in Cassettes : TagOK(disk.docs[c])
  BY <1>1, CachedType DEF Cached
<1>3. DiskInv'
  BY DiskKept DEF Use, Enter
<1> QED BY <1>1, <1>2, <1>3, EnterStep DEF Use, IInv, TypeOK

LEMMA BeginStep == ASSUME IInv, NEW p \in Processes, Begin(p) PROVE IInv'
<1>1. PICK inLive \in BOOLEAN, entry \in {disk, None} :
        had' = [had EXCEPT ![p] = Cached(entry)] /\ live' = [live EXCEPT ![p] = inLive]
  BY DEF Begin
<1>2. Cached(entry) \in Docs /\ \A c \in Cassettes : TagOK(Cached(entry)[c])
  BY CachedType, NoDocsType
<1>3. TypeOK'
  BY <1>1, <1>2 DEF IInv, TypeOK, Begin, server
<1>4. DiskInv'
  BY DiskKept DEF Begin
<1>5. Others(p)
  BY <1>1 DEF IInv, TypeOK, Others, Begin
<1>6. /\ phase'[p] = "discover" /\ phase[p] = "idle" /\ docs'[p] = docs[p]
      /\ had'[p] = Cached(entry)
  BY <1>1 DEF IInv, TypeOK, Begin
<1>7. ProcessInv(p)'
  BY <1>2, <1>6 DEF IInv, ProcessInv, Tags, Carries, Holds, TagOK
<1> QED BY <1>3, <1>4, <1>5, <1>7, ProcessStep DEF Begin

LEMMA FallBackStep == ASSUME IInv, NEW p \in Processes, FallBack(p) PROVE IInv'
<1>1. had[p] \in Docs /\ \A c \in Cassettes : TagOK(had[p][c])
  BY DEF IInv, TypeOK, ProcessInv, Tags
<1>2. DiskInv'
  BY DiskKept DEF FallBack, Enter
<1> QED BY <1>1, <1>2, EnterStep DEF FallBack, IInv, TypeOK

LEMMA DiscoverStep == ASSUME IInv, NEW p \in Processes, Discover(p) PROVE IInv'
<1>1. TypeOK'
  BY DEF IInv, TypeOK, Discover, server
<1>2. DiskInv'
  BY DiskKept DEF Discover
<1>3. Others(p)
  BY DEF IInv, TypeOK, Others, Discover
<1>4. /\ phase'[p] = "specs" /\ phase[p] = "discover" /\ docs'[p] = docs[p]
      /\ had'[p] = had[p] /\ listing'[p] = served /\ todo'[p] = served
  BY DEF IInv, TypeOK, Discover
<1>5. docs'[p] = NoDocs /\ served # None /\ Tags(p)
  BY <1>4, ConstantsAssumption DEF IInv, ProcessInv, Carries, TypeOK
<1>6. ProcessInv(p)'
  BY <1>4, <1>5, NoDocsType DEF ProcessInv, Tags, Carries, Holds, TagOK, Recent
<1> QED BY <1>1, <1>2, <1>3, <1>6, ProcessStep DEF Discover

\* What the server answers with is a document, current, under its own tag.
LEMMA FetchedSound ==
  ASSUME IInv, NEW p \in Processes, NEW c \in Cassettes
  PROVE  LET d == Fetched(had[p][c], c)
         IN  d \in Doc /\ d # None /\ TagOK(d) /\ since[c][d.version] = 0
<1> DEFINE h == had[p][c]  d == Fetched(h, c)
<1>1. h \in Doc \cup {None} /\ TagOK(h) /\ version[c] \in 1 .. Versions
  BY DEF IInv, TypeOK, ProcessInv, Tags, Docs
<1>2. None \notin Doc /\ None \notin Int /\ Versions \in Nat
  BY ConstantsAssumption DEF Doc
<1>3. d \in Doc /\ d.etag \in {None, d.version} /\ d.version = version[c]
  <2>1. CASE Matches(h, c)
    <3>1. d = h /\ h # None /\ h.etag = version[c]
      BY <2>1 DEF Fetched, Matches
    <3>2. h.etag # None
      BY <3>1, <1>1, <1>2
    <3> QED BY <3>1, <3>2, <1>1 DEF TagOK
  <2>2. CASE ~Matches(h, c)
    <3> HIDE DEF h
    <3> QED BY <2>2, <1>1 DEF Fetched, Doc
  <2> QED BY <2>1, <2>2
<1>4. since[c][version[c]] = 0
  BY <1>1, <1>2 DEF IInv, CurrentIsNew
<1> HIDE DEF d
<1>5. d # None /\ TagOK(d) /\ since[c][d.version] = 0
  BY <1>2, <1>3, <1>4 DEF TagOK
<1> QED BY <1>3, <1>5 DEF d

LEMMA FetchSpecStep == ASSUME IInv, NEW p \in Processes, FetchSpec(p) PROVE IInv'
<1>1. PICK c \in todo[p] :
        /\ docs' = [docs EXCEPT ![p] = [docs[p] EXCEPT ![c] = Fetched(had[p][c], c)]]
        /\ todo' = [todo EXCEPT ![p] = todo[p] \ {c}]
  BY DEF FetchSpec
<1> DEFINE d == Fetched(had[p][c], c)
<1>2. c \in Cassettes
  BY DEF IInv, TypeOK
<1>3. d \in Doc /\ d # None /\ TagOK(d) /\ since[c][d.version] = 0
  BY <1>2, FetchedSound
<1> HIDE DEF d
<1>4. docs[p] \in Docs /\ [docs[p] EXCEPT ![c] = d] \in Docs
  BY <1>2, <1>3 DEF IInv, TypeOK, Docs
<1>5. TypeOK'
  BY <1>1, <1>4 DEF IInv, TypeOK, FetchSpec, server, d
<1>6. DiskInv'
  BY DiskKept DEF FetchSpec
<1>7. Others(p)
  BY <1>1 DEF IInv, TypeOK, Others, FetchSpec
<1>8. /\ phase'[p] = "specs" /\ phase[p] = "specs" /\ had' = had /\ stamp' = stamp
      /\ listing' = listing /\ kept' = kept /\ waited' = waited /\ since' = since
      /\ todo'[p] = todo[p] \ {c}
  BY <1>1 DEF IInv, TypeOK, FetchSpec, server
<1>9. \A e \in Cassettes : docs'[p][e] = IF e = c THEN d ELSE docs[p][e]
  BY <1>1, <1>4 DEF IInv, TypeOK, Docs, d
<1>10. Tags(p)' /\ Holds(p)'
  BY <1>3, <1>8, <1>9 DEF IInv, ProcessInv, Tags, Holds
<1>11. Carries(p)'
  <2>1. waited[p] >= 0
    BY DEF IInv, TypeOK
  <2> QED BY <2>1, <1>3, <1>8, <1>9 DEF IInv, ProcessInv, Carries, Recent
<1> QED BY <1>5, <1>6, <1>7, <1>10, <1>11, ProcessStep DEF FetchSpec, ProcessInv

LEMMA NotFetchedStep == ASSUME IInv, NEW p \in Processes, NotFetched(p) PROVE IInv'
<1>1. PICK c \in todo[p] :
        /\ docs' = [docs EXCEPT ![p] = [docs[p] EXCEPT ![c] = had[p][c]]]
        /\ kept' = [kept EXCEPT ![p] = kept[p] \cup {c}]
        /\ todo' = [todo EXCEPT ![p] = todo[p] \ {c}]
  BY DEF NotFetched, KeptOf
<1>2. c \in Cassettes /\ docs[p] \in Docs /\ [docs[p] EXCEPT ![c] = had[p][c]] \in Docs
  BY DEF IInv, TypeOK, Docs
<1>3. TypeOK'
  <2> DEFINE d == [docs[p] EXCEPT ![c] = had[p][c]]
  <2>1. d \in Docs /\ docs' = [docs EXCEPT ![p] = d]
    BY <1>1, <1>2
  <2> HIDE DEF d
  <2>2. docs' \in [Processes -> Docs]
    BY <2>1 DEF IInv, TypeOK
  <2> QED BY <1>1, <1>2, <2>2 DEF IInv, TypeOK, NotFetched, server
<1>4. DiskInv'
  BY DiskKept DEF NotFetched
<1>5. Others(p)
  BY <1>1 DEF IInv, TypeOK, Others, NotFetched
<1>6. /\ phase'[p] = "specs" /\ phase[p] = "specs" /\ had' = had /\ stamp' = stamp
      /\ listing' = listing /\ kept'[p] = kept[p] \cup {c} /\ waited' = waited /\ since' = since
      /\ todo'[p] = todo[p] \ {c}
  BY <1>1 DEF IInv, TypeOK, NotFetched, server
<1>7. \A e \in Cassettes : docs'[p][e] = IF e = c THEN had[p][c] ELSE docs[p][e]
  BY <1>1, <1>2 DEF IInv, TypeOK, Docs
<1>8. Tags(p)' /\ Holds(p)'
  BY <1>2, <1>6, <1>7 DEF IInv, ProcessInv, Tags, Holds
<1>9. Carries(p)'
  BY <1>6, <1>7 DEF IInv, ProcessInv, Carries, Recent
<1> QED BY <1>3, <1>4, <1>5, <1>8, <1>9, ProcessStep DEF NotFetched, ProcessInv

LEMMA FinishStep == ASSUME IInv, NEW p \in Processes, Finish(p) PROVE IInv'
<1> DEFINE st == [age |-> 0, clock |-> clock]
<1>0. st \in Stamp /\ st.age = 0
  BY ConstantsAssumption DEF IInv, TypeOK, Stamp, Expired
<1>1. TypeOK'
  <2>1. stamp' = [stamp EXCEPT ![p] = st]
    BY DEF Finish
  <2> HIDE DEF st
  <2> QED BY <1>0, <2>1, NoDocsType DEF IInv, TypeOK, Finish, server
<1>2. DiskInv'
  BY DiskKept DEF Finish
<1>3. Others(p)
  BY DEF IInv, TypeOK, Others, Finish
<1>4. /\ phase'[p] = "write" /\ phase[p] = "specs" /\ had'[p] = NoDocs
      /\ docs' = docs /\ stamp'[p] = st /\ kept' = kept /\ waited' = waited /\ since' = since
  BY DEF IInv, TypeOK, Finish, server
<1> HIDE DEF st
<1>5. Tags(p)' /\ Holds(p)'
  BY <1>4, NoDocsType DEF IInv, ProcessInv, Tags, TagOK, Holds
<1>6. Carries(p)'
  <2>1. stamp'[p].age = 0 /\ waited[p] \in Nat
    BY <1>0, <1>4, ConstantsAssumption DEF IInv, TypeOK
  <2>2. stamp'[p].age + waited'[p] = waited[p]
    BY <1>4, <2>1
  <2> QED BY <1>4, <2>2 DEF IInv, ProcessInv, Carries, Recent
<1> QED BY <1>1, <1>2, <1>3, <1>5, <1>6, ProcessStep DEF Finish, ProcessInv

LEMMA WriteStep == ASSUME IInv, NEW p \in Processes, Write(p) PROVE IInv'
<1>1. docs[p] \in Docs /\ \A c \in Cassettes : TagOK(docs[p][c])
  BY DEF IInv, TypeOK, ProcessInv, Tags
<1> DEFINE e == [stamp |-> stamp[p], took |-> waited[p], docs |-> docs[p], kept |-> kept[p]]
<1>2. /\ e \in Entry /\ e.stamp = stamp[p] /\ e.took = waited[p] /\ e.docs = docs[p] /\ e.kept = kept[p]
  BY DEF IInv, TypeOK, Entry
<1>3. CASE disk' = e
  <2> HIDE DEF e
  <2>1. TagsMatch'
    BY <1>1, <1>2, <1>3, NoDocsType DEF TagsMatch, TagOK, Cached
  <2>2. Recorded'
    <3>1. since' = since /\ phase[p] = "write"
      BY DEF Write, Enter, server
    <3> QED BY <3>1, <1>2, <1>3 DEF IInv, ProcessInv, Carries, Recorded, Recent
  <2> QED BY <1>1, <1>2, <1>3, <2>1, <2>2, EnterStep DEF Write, DiskInv
<1>4. CASE disk' = disk
  <2>1. DiskInv'
    BY <1>4, DiskKept DEF Write, Enter
  <2>2. disk' \in Entry \cup {None}
    BY <1>4 DEF IInv, TypeOK
  <2> QED BY <1>1, <2>1, <2>2, EnterStep DEF Write
<1> QED BY <1>3, <1>4 DEF Write

LEMMA EndStep == ASSUME IInv, NEW p \in Processes, End(p) PROVE IInv'
<1>1. DiskInv'
  BY DiskKept DEF End, Enter
<1> QED BY <1>1, NoDocsType, EnterStep DEF End, IInv, TypeOK, TagOK

---------------------------------------------------------------------------
(* The server and the clock.                                               *)

LEMMA PublishStep == ASSUME IInv, NEW c \in Cassettes, Publish(c) PROVE IInv'
<1>1. TypeOK'
  BY ConstantsAssumption DEF IInv, TypeOK, Publish, process
<1>2. CurrentIsNew'
  <2>1. \A e \in Cassettes : version'[e] >= version[e] /\ version[e] \in Nat /\ version'[e] \in Nat
    BY DEF IInv, TypeOK, Publish
  <2>2. ASSUME NEW e \in Cassettes, NEW v \in 1 .. Versions, v >= version'[e]
        PROVE  since'[e][v] = 0
    <3>1. v >= version[e]
      BY <2>1, <2>2
    <3> QED BY <3>1 DEF IInv, CurrentIsNew, Publish
  <2> QED BY <2>2 DEF CurrentIsNew
<1>3. DiskInv'
  BY DEF IInv, DiskInv, TagsMatch, Recorded, Recent, Cached, Publish
<1>4. ASSUME NEW p \in Processes PROVE ProcessInv(p)'
  BY DEF IInv, ProcessInv, Tags, TagOK, Carries, Recent, Holds, Publish, process
<1> QED BY <1>1, <1>2, <1>3, <1>4 DEF IInv

LEMMA ListStep == ASSUME IInv, NEW c \in Cassettes, List(c) PROVE IInv'
<1>1. TypeOK'
  BY DEF IInv, TypeOK, List, process
<1>2. CurrentIsNew' /\ DiskInv'
  BY DEF IInv, CurrentIsNew, DiskInv, TagsMatch, Recorded, Recent, Cached, List
<1>3. ASSUME NEW p \in Processes PROVE ProcessInv(p)'
  BY DEF IInv, ProcessInv, Tags, TagOK, Carries, Recent, Holds, List, process
<1> QED BY <1>1, <1>2, <1>3 DEF IInv

\* The wall clock may be set: nothing is kept by it.
LEMMA SetClockStep == ASSUME IInv, SetClock PROVE IInv'
<1>1. UNCHANGED <<server, disk, process>> /\ clock' \in 0 .. Drift
  BY DEF SetClock
<1> QED BY <1>1 DEF server, process, IInv, TypeOK, CurrentIsNew, DiskInv, TagsMatch,
   Recorded, Cached, ProcessInv, Tags, TagOK, Carries, Recent, Holds

\* An age grows by one, as long as it matters.
LEMMA OlderIs ==
  ASSUME NEW st \in Stamp
  PROVE  /\ Older(st) \in Stamp
         /\ Older(st).age < Expired =>
              st.age < Expired /\ Older(st).age = st.age + 1 /\ st.age \in Nat
<1>1. st.age \in 0 .. Expired /\ st.clock \in 0 .. Drift /\ Expired \in Nat
  BY ConstantsAssumption DEF Stamp, Expired
<1>2. Older(st).age = Least(st.age + 1, Expired) /\ Older(st).clock = st.clock
      /\ Older(st) = [age |-> Older(st).age, clock |-> st.clock]
  BY DEF Older
<1> HIDE DEF Expired
<1>3. Least(st.age + 1, Expired) \in 0 .. Expired
  BY <1>1 DEF Least
<1> QED BY <1>1, <1>2, <1>3 DEF Least, Stamp

\* An entry that has grown older keeps its documents, and with them their tags.
LEMMA OlderDisk ==
  ASSUME IInv, Tick
  PROVE  /\ disk' \in Entry \cup {None} /\ TagsMatch'
         /\ disk' # None =>
              /\ disk # None /\ disk \in Entry
              /\ disk'.stamp = Older(disk.stamp) /\ disk'.took = disk.took
              /\ disk'.docs = disk.docs /\ disk'.kept = disk.kept
<1>1. CASE disk = None
  <2>1. disk' = None
    BY <1>1 DEF Tick
  <2> QED BY <2>1, NoDocsType DEF TagsMatch, Cached
<1>2. CASE disk # None
  <2>1. disk \in Entry /\ disk' = [disk EXCEPT !.stamp = Older(disk.stamp)]
    BY <1>2 DEF IInv, TypeOK, Tick
  <2>2. Older(disk.stamp) \in Stamp
    BY <2>1, OlderIs DEF Entry
  <2>3. /\ disk' \in Entry /\ disk'.stamp = Older(disk.stamp) /\ disk'.took = disk.took
        /\ disk'.docs = disk.docs /\ disk'.kept = disk.kept
    BY <2>1, <2>2 DEF Entry
  <2>4. \A c \in Cassettes : TagOK(disk.docs[c])
    BY <1>2, CachedType DEF Cached
  <2>5. TagsMatch'
    BY <2>3, <2>4, NoDocsType DEF TagsMatch, Cached, TagOK
  <2> QED BY <1>2, <2>1, <2>3, <2>5
<1> QED BY <1>1, <1>2

\* The clock ticks: nothing is superseded by more than one tick longer.
LEMMA TickSince ==
  ASSUME IInv, Tick
  PROVE  /\ since' \in [Cassettes -> [1 .. Versions -> 0 .. Forever]]
         /\ \A c \in Cassettes : \A v \in 1 .. Versions :
              /\ since'[c][v] <= since[c][v] + 1
              /\ v >= version[c] => since'[c][v] = 0
<1>1. ASSUME NEW c \in Cassettes, NEW v \in 1 .. Versions
      PROVE  /\ since'[c][v] = IF v < version[c] THEN Least(since[c][v] + 1, Forever) ELSE 0
             /\ since[c][v] \in 0 .. Forever /\ version[c] \in 1 .. Versions
  <2>1. since[c][v] \in 0 .. Forever /\ version[c] \in 1 .. Versions
    BY SinceType DEF IInv, TypeOK
  <2>2. since'[c] = [w \in 1 .. Versions |->
                       IF w < version[c] THEN Least(since[c][w] + 1, Forever) ELSE 0]
    BY DEF Tick
  <2> QED BY <2>1, <2>2
<1>2. Forever \in Nat /\ Versions \in Nat
  BY ConstantsAssumption DEF Forever
<1>3. ASSUME NEW c \in Cassettes, NEW v \in 1 .. Versions
      PROVE  /\ since'[c][v] \in 0 .. Forever /\ since'[c][v] <= since[c][v] + 1
             /\ v >= version[c] => since'[c][v] = 0
  <2> HIDE DEF Forever
  <2> QED BY <1>1, <1>2, <1>3 DEF Least
<1>4. since' = [c \in Cassettes |-> [v \in 1 .. Versions |->
                 IF v < version[c] THEN Least(since[c][v] + 1, Forever) ELSE 0]]
  BY DEF Tick
<1>5. \A c \in Cassettes : \A v \in 1 .. Versions :
        (IF v < version[c] THEN Least(since[c][v] + 1, Forever) ELSE 0) \in 0 .. Forever
  BY <1>1, <1>3
<1> QED BY <1>3, <1>4, <1>5

\* What was recent is, when the clock has ticked, recent by one tick more.
LEMMA TickRecent ==
  ASSUME IInv, Tick, NEW c \in Cassettes, NEW d \in Doc \cup {None}, NEW a \in Nat,
         Recent(c, d, a)
  PROVE  d # None => since'[c][d.version] <= a + 1
<1>1. d # None => /\ d.version \in 1 .. Versions /\ since[c][d.version] <= a
  BY DEF Recent, Doc
<1>2. d # None => /\ since'[c][d.version] \in 0 .. Forever /\ since[c][d.version] \in 0 .. Forever
                  /\ since'[c][d.version] <= since[c][d.version] + 1
  <2>1. since'[c] \in [1 .. Versions -> 0 .. Forever]
    BY TickSince
  <2> QED BY <1>1, <2>1, TickSince, SinceType
<1>3. Forever \in Int
  BY ConstantsAssumption DEF Forever
<1> QED BY <1>1, <1>2, <1>3

LEMMA TickStep == ASSUME IInv, Tick PROVE IInv'
<1>1. /\ since' \in [Cassettes -> [1 .. Versions -> 0 .. Forever]] /\ CurrentIsNew'
  BY TickSince DEF CurrentIsNew, Tick
<1>2. ASSUME NEW p \in Processes
      PROVE  /\ waited'[p] = IF Fetching(p) THEN Least(waited[p] + 1, Slow) ELSE waited[p]
             /\ stamp'[p] = IF phase[p] = "write" THEN Older(stamp[p]) ELSE stamp[p]
             /\ waited'[p] \in 0 .. Slow /\ stamp'[p] \in Stamp
             /\ waited[p] \in 0 .. Slow /\ stamp[p] \in Stamp
             /\ Fetching(p) /\ waited'[p] < Slow => waited[p] < Slow /\ waited'[p] = waited[p] + 1
  <2>1. waited[p] \in 0 .. Slow /\ stamp[p] \in Stamp
    BY DEF IInv, TypeOK
  <2>2. /\ waited'[p] = IF Fetching(p) THEN Least(waited[p] + 1, Slow) ELSE waited[p]
        /\ stamp'[p] = IF phase[p] = "write" THEN Older(stamp[p]) ELSE stamp[p]
    BY DEF Tick
  <2>3. stamp'[p] \in Stamp
    BY <2>1, <2>2, OlderIs
  <2>4. /\ waited'[p] \in 0 .. Slow
        /\ Fetching(p) /\ waited'[p] < Slow => waited[p] < Slow /\ waited'[p] = waited[p] + 1
    BY <2>1, <2>2, ConstantsAssumption DEF Least
  <2> QED BY <2>1, <2>2, <2>3, <2>4
<1>3. waited' \in [Processes -> 0 .. Slow] /\ stamp' \in [Processes -> Stamp]
  <2>1. waited' = [p \in Processes |-> waited'[p]] /\ stamp' = [p \in Processes |-> stamp'[p]]
    BY DEF Tick
  <2> QED BY <1>2, <2>1
<1>4. disk' \in Entry \cup {None} /\ TagsMatch'
  BY OlderDisk
<1>5. Recorded'
  <2>1. SUFFICES ASSUME disk' # None, disk'.took < Slow, disk'.stamp.age < Expired,
                        NEW c \in Cassettes, c \notin disk'.kept, disk'.docs[c] # None
                 PROVE  since'[c][disk'.docs[c].version] <= disk'.stamp.age + disk'.took
    BY DEF Recorded, Recent
  <2>2. /\ disk # None /\ disk \in Entry
        /\ disk'.stamp = Older(disk.stamp) /\ disk'.took = disk.took
        /\ disk'.docs = disk.docs /\ disk'.kept = disk.kept
    BY <2>1, OlderDisk
  <2>3. disk.stamp.age < Expired /\ disk'.stamp.age = disk.stamp.age + 1 /\ disk.stamp.age \in Nat
    BY <2>1, <2>2, OlderIs DEF Entry
  <2>4. Recent(c, disk.docs[c], disk.stamp.age + disk.took)
    BY <2>1, <2>2, <2>3 DEF IInv, DiskInv, Recorded
  <2>5. /\ disk.docs[c] \in Doc \cup {None} /\ disk.took \in Nat
        /\ disk.stamp.age + disk.took \in Nat
    BY <2>2, <2>3, ConstantsAssumption DEF Entry, Docs
  <2>6. since'[c][disk.docs[c].version] <= (disk.stamp.age + disk.took) + 1
    BY <2>1, <2>2, <2>4, <2>5, TickRecent
  <2>7. since'[c][disk.docs[c].version] \in 0 .. Forever
    BY <1>1, <2>1, <2>2, <2>5 DEF Doc
  <2>8. disk'.stamp.age + disk'.took = (disk.stamp.age + disk.took) + 1
    BY <2>2, <2>3, <2>5
  <2> QED BY <2>2, <2>6, <2>8
<1>6. TypeOK'
  BY <1>1, <1>3, <1>4 DEF IInv, TypeOK, Tick
<1>7. ASSUME NEW p \in Processes PROVE ProcessInv(p)'
  <2>1. Tags(p)' /\ Holds(p)'
    BY DEF IInv, ProcessInv, Tags, TagOK, Holds, Tick
  <2>2. /\ phase' = phase /\ docs' = docs /\ kept' = kept /\ Carries(p)
    BY DEF Tick, IInv, ProcessInv
  <2>3. \A c \in Cassettes : docs[p][c] \in Doc \cup {None}
    BY DEF IInv, TypeOK, Docs
  <2>4. ASSUME phase[p] = "specs", waited'[p] < Slow, NEW c \in Cassettes, c \notin kept[p]
        PROVE  docs[p][c] # None => since'[c][docs[p][c].version] <= waited'[p]
    <3>1. waited[p] < Slow /\ waited'[p] = waited[p] + 1 /\ waited[p] \in Nat
      BY <1>2, <2>4, ConstantsAssumption DEF Fetching
    <3>2. Recent(c, docs[p][c], waited[p])
      BY <2>2, <2>4, <3>1 DEF Carries
    <3> QED BY <2>3, <3>1, <3>2, TickRecent
  <2>5. ASSUME phase[p] = "write", waited'[p] < Slow, stamp'[p].age < Expired,
               NEW c \in Cassettes, c \notin kept[p]
        PROVE  docs[p][c] # None => since'[c][docs[p][c].version] <= stamp'[p].age + waited'[p]
    <3>1. /\ stamp[p].age < Expired /\ stamp'[p].age = stamp[p].age + 1 /\ stamp[p].age \in Nat
          /\ waited'[p] = waited[p] /\ waited[p] \in Nat
      BY <1>2, <2>5, OlderIs, ConstantsAssumption DEF Fetching
    <3>2. Recent(c, docs[p][c], stamp[p].age + waited[p]) /\ stamp[p].age + waited[p] \in Nat
      BY <2>2, <2>5, <3>1 DEF Carries
    <3>3. docs[p][c] # None => since'[c][docs[p][c].version] <= (stamp[p].age + waited[p]) + 1
      BY <2>3, <3>2, TickRecent
    <3>4. stamp'[p].age + waited'[p] = (stamp[p].age + waited[p]) + 1
      BY <3>1
    <3> QED BY <3>3, <3>4
  <2>6. phase[p] \in {"idle", "discover"} => docs[p] = NoDocs
    BY <2>2 DEF Carries
  <2>7. Carries(p)'
    BY <2>2, <2>4, <2>5, <2>6 DEF Carries, Recent
  <2> QED BY <2>1, <2>7 DEF ProcessInv
<1> QED BY <1>1, <1>4, <1>5, <1>6, <1>7 DEF IInv, DiskInv

---------------------------------------------------------------------------
\* The invariant holds at first: nothing is cached and nobody has begun.
LEMMA InitInv == Init => IInv
<1> SUFFICES ASSUME Init PROVE IInv
  OBVIOUS
<1>1. TypeOK
  <2>1. 0 \in 0 .. Forever /\ Unstamped \in Stamp /\ 1 \in 1 .. Versions /\ 0 \in 0 .. Slow
    BY ConstantsAssumption DEF Forever, Unstamped, Stamp, Expired
  <2> QED BY <2>1, NoDocsType DEF Init, TypeOK
<1>2. CurrentIsNew
  BY DEF Init, CurrentIsNew
<1>3. DiskInv
  BY NoDocsType DEF Init, DiskInv, TagsMatch, Recorded, Cached
<1>4. ASSUME NEW p \in Processes PROVE ProcessInv(p)
  BY NoDocsType DEF Init, ProcessInv, Tags, TagOK, Carries, Holds
<1> QED BY <1>1, <1>2, <1>3, <1>4 DEF IInv

\* Every step keeps it.
LEMMA NextInv == IInv /\ [Next]_vars => IInv'
<1> SUFFICES ASSUME IInv, [Next]_vars PROVE IInv'
  OBVIOUS
<1>1. ASSUME NEW c \in Cassettes, Publish(c) \/ List(c) PROVE IInv'
  BY <1>1, PublishStep, ListStep
<1>2. CASE Tick
  BY <1>2, TickStep
<1>3. CASE SetClock
  BY <1>3, SetClockStep
<1>4. ASSUME NEW p \in Processes, Invocation(p) PROVE IInv'
  <2>1. CASE Use(p) \/ Begin(p) \/ Discover(p)
    BY <2>1, UseStep, BeginStep, DiscoverStep
  <2>2. CASE NotDiscovered(p) \/ Timeout(p)
    BY <2>2, FallBackStep DEF NotDiscovered, Timeout
  <2>3. CASE FetchSpec(p) \/ NotFetched(p) \/ Finish(p)
    BY <2>3, FetchSpecStep, NotFetchedStep, FinishStep
  <2>4. CASE Write(p) \/ End(p)
    BY <2>4, WriteStep, EndStep
  <2> QED BY <1>4, <2>1, <2>2, <2>3, <2>4 DEF Invocation
<1>5. CASE UNCHANGED vars
  BY <1>5 DEF vars, server, process, IInv, TypeOK, CurrentIsNew, DiskInv, TagsMatch,
     Recorded, Cached, ProcessInv, Tags, TagOK, Carries, Recent, Holds
<1> QED BY <1>1, <1>2, <1>3, <1>4, <1>5 DEF Next

\* The inductive invariant of the cache.
THEOREM Invariance == Spec => []IInv
BY InitInv, NextInv, PTL DEF Spec

\* Every variable keeps its type.
THEOREM TypeCorrect == Spec => []TypeOK
<1>1. IInv => TypeOK
  BY DEF IInv
<1> QED BY <1>1, Invariance, PTL

\* A cached document is kept with its own validator, whichever process wrote it and
\* whatever it was told before (fetch_spec, revalidate).
THEOREM TagsStay == Spec => []TagsMatch
<1>1. IInv => TagsMatch
  BY DEF IInv, DiskInv
<1> QED BY <1>1, Invariance, PTL

\* However many processes rename their entries over each other's, what an entry that
\* is used without asking offers was superseded less than a window ago, but for the
\* time its revalidation took and as much as the clock has been set back (load).
THEOREM FreshEntriesAreRecent == Spec => []FreshIsRecent
<1>1. IInv => FreshIsRecent
  <2> SUFFICES ASSUME IInv, IsFresh(disk), disk.took < Slow,
                      NEW c \in Cassettes \ disk.kept, disk.docs[c] # None
               PROVE  since[c][disk.docs[c].version] < Window + disk.took + (disk.stamp.clock - clock)
    BY DEF FreshIsRecent
  <2>1. disk \in Entry /\ disk # None
    BY DEF IInv, TypeOK, IsFresh
  <2>2. /\ disk.stamp.age \in Nat /\ disk.stamp.clock \in 0 .. Drift /\ disk.took \in Nat
        /\ clock \in 0 .. Drift
    BY <2>1, ConstantsAssumption DEF IInv, TypeOK, Entry, Stamp, Expired
  <2>3. disk.stamp.age < Window + (disk.stamp.clock - clock)
    BY <2>2, ConstantsAssumption DEF IsFresh, Shown
  <2>4. disk.stamp.age < Expired
    BY <2>2, <2>3, ConstantsAssumption DEF Expired
  <2>5. since[c][disk.docs[c].version] <= disk.stamp.age + disk.took
    BY <2>1, <2>4 DEF IInv, DiskInv, Recorded, Recent
  <2>6. since[c][disk.docs[c].version] \in Int
    BY <2>1, SinceType DEF Entry, Docs
  <2> QED BY <2>2, <2>3, <2>5, <2>6, ConstantsAssumption
<1> QED BY <1>1, Invariance, PTL

\* A step that ends a revalidation has all that the process had, but for what the
\* server no longer lists.
LEMMA EndsWithAll ==
  ASSUME IInv, [Next]_vars, NEW p \in Processes, Fetching(p),
         phase'[p] \in {"write", "done"}, NEW c \in Cassettes, had[p][c] # None
  PROVE  docs'[p][c] # None \/ (listing[p] # None /\ c \notin listing[p])
<1>1. phase'[p] # phase[p]
  BY DEF Fetching
<1>2. PICK q \in Processes : Invocation(q)
  BY <1>1 DEF Next, Publish, List, Tick, SetClock, vars, process
<1>3. phase \in [Processes -> {"idle", "discover", "specs", "write", "done"}]
      /\ docs \in [Processes -> Docs]
  BY DEF IInv, TypeOK
<1>4. q = p
  <2>1. \E ph : phase' = [phase EXCEPT ![q] = ph]
    <3>1. CASE Use(q) \/ Write(q) \/ End(q)
      BY <3>1 DEF Use, Write, End, Enter
    <3>2. CASE NotDiscovered(q) \/ Timeout(q)
      BY <3>2 DEF NotDiscovered, Timeout, FallBack, Enter
    <3>3. CASE Begin(q) \/ Discover(q) \/ Finish(q)
      BY <3>3 DEF Begin, Discover, Finish
    <3>4. CASE FetchSpec(q) \/ NotFetched(q)
      <4>1. phase' = [phase EXCEPT ![q] = phase[q]]
        BY <3>4, <1>3 DEF FetchSpec, NotFetched
      <4> QED BY <4>1
    <3> QED BY <1>2, <3>1, <3>2, <3>3, <3>4 DEF Invocation
  <2> QED BY <1>1, <1>3, <2>1
<1>5. CASE NotDiscovered(p) \/ Timeout(p)
  BY <1>3, <1>5 DEF NotDiscovered, Timeout, FallBack, Enter
<1>6. CASE Finish(p)
  <2>1. docs'[p] = docs[p] /\ phase[p] = "specs" /\ todo[p] = {}
    BY <1>6 DEF Finish
  <2> QED BY <2>1 DEF IInv, ProcessInv, Holds
<1>7. ~(Use(p) \/ Begin(p) \/ End(p) \/ Discover(p) \/ Write(p) \/ FetchSpec(p) \/ NotFetched(p))
  BY <1>3 DEF Fetching, Use, Begin, End, Enter, Discover, Write, FetchSpec, NotFetched
<1> QED BY <1>2, <1>4, <1>5, <1>6, <1>7 DEF Invocation

\* No failure costs a user a cassette that the cache had: a dead server, a deadline
\* or a document that cannot be fetched (load, load_live, revalidate).
THEOREM CachedSurvives == Spec => Survives
<1>1. IInv /\ [Next]_vars =>
        [\A p \in Processes : Fetching(p) /\ phase'[p] \in {"write", "done"} =>
           \A c \in Cassettes : had[p][c] # None =>
             docs'[p][c] # None \/ (listing[p] # None /\ c \notin listing[p])]_vars
  BY EndsWithAll
<1> QED BY <1>1, Invariance, PTL DEF Spec, Survives

---------------------------------------------------------------------------
(* Sequences: induction over their length, and functions defined by it.    *)

\* Natural induction, for the elements of a set.
LEMMA InductionOverNat ==
  ASSUME NEW Z, 0 \in Z, \A n \in Nat : n \in Z => n + 1 \in Z
  PROVE  Nat \subseteq Z
<1> DEFINE T == Nat \ Z
<1>1. SUFFICES ASSUME T # {} PROVE FALSE
  OBVIOUS
<1>2. T \subseteq Nat
  OBVIOUS
<1>3. PICK m \in T : \A k \in T : ~(<<k, m>> \in OpToRel(<, Nat))
  <2> HIDE DEF T
  <2> QED BY <1>1, <1>2, NatLessThanWellFounded, WFMin
<1>4. m \in Nat /\ m \notin Z /\ \A k \in T : ~(k < m)
  BY <1>3 DEF OpToRel
<1>5. m - 1 \in Nat /\ m - 1 < m /\ m - 1 + 1 = m
  <2>1. m # 0
    BY <1>4
  <2> QED BY <1>4, <2>1
<1>6. m - 1 \in Z
  BY <1>4, <1>5
<1> QED BY <1>4, <1>5, <1>6

\* What holds of a sequence whenever it holds of all the shorter ones holds of all.
LEMMA InductionOverSeq ==
  ASSUME NEW S, NEW Z,
         \A s \in Seq(S) : (\A t \in Seq(S) : Len(t) < Len(s) => t \in Z) => s \in Z
  PROVE  Seq(S) \subseteq Z
<1> DEFINE N == {n \in Nat : \A s \in Seq(S) : Len(s) < n => s \in Z}
<1>1. 0 \in N
  BY LenProperties
<1>2. ASSUME NEW n \in Nat, n \in N PROVE n + 1 \in N
  <2>1. ASSUME NEW s \in Seq(S), Len(s) < n + 1 PROVE s \in Z
    <3>1. \A t \in Seq(S) : Len(t) < Len(s) => Len(t) < n
      BY <2>1, LenProperties
    <3>2. \A t \in Seq(S) : Len(t) < Len(s) => t \in Z
      BY <3>1, <1>2
    <3> QED BY <3>2
  <2> QED BY <1>2, <2>1
<1>3. Nat \subseteq N
  <2> HIDE DEF N
  <2> QED BY <1>1, <1>2, InductionOverNat
<1> QED BY <1>3, LenProperties

\* What holds of the empty sequence and of every sequence with one element more.
LEMMA InductionOverAppend ==
  ASSUME NEW S, NEW Z, <<>> \in Z, \A s \in Seq(S), e \in S : s \in Z => Append(s, e) \in Z
  PROVE  Seq(S) \subseteq Z
<1>1. ASSUME NEW s \in Seq(S), \A t \in Seq(S) : Len(t) < Len(s) => t \in Z
      PROVE  s \in Z
  <2>1. CASE s = <<>>
    BY <2>1
  <2>2. CASE s # <<>>
    <3>1. PICK t \in Seq(S), e \in S : s = Append(t, e)
      BY <2>2, SequenceEmptyOrAppend
    <3>2. Len(t) < Len(s)
      BY <3>1, AppendProperties, LenProperties
    <3> QED BY <1>1, <3>1, <3>2
  <2> QED BY <2>1, <2>2
<1> QED BY <1>1, InductionOverSeq

\* A value in V for each sequence, by the values of the shorter ones.
ByShorter(S, V, G) ==
  /\ V # {} /\ G \in [Seq(S) \X [Seq(S) -> V] -> V]
  /\ \A s \in Seq(S), g \in [Seq(S) -> V], h \in [Seq(S) -> V] :
       (\A t \in Seq(S) : Len(t) < Len(s) => g[t] = h[t]) => G[<<s, g>>] = G[<<s, h>>]

IsDefined(S, V, G) == \E f \in [Seq(S) -> V] : \A s \in Seq(S) : f[s] = G[<<s, f>>]

LEMMA RecursionOverSeq ==
  ASSUME NEW S, NEW V, NEW G, ByShorter(S, V, G)
  PROVE  IsDefined(S, V, G)
<1> USE DEF ByShorter, IsDefined
<1> DEFINE F == [Seq(S) -> V]
           Upto(h, n) == \A s \in Seq(S) : Len(s) < n => h[s] = G[<<s, h>>]
           N == {n \in Nat : \E h \in F : Upto(h, n)}
<1>1. 0 \in N
  <2>1. PICK v \in V : TRUE
    OBVIOUS
  <2>2. [s \in Seq(S) |-> v] \in F
    OBVIOUS
  <2>3. \A s \in Seq(S) : ~(Len(s) < 0)
    BY LenProperties
  <2> DEFINE h == [s \in Seq(S) |-> v]
  <2>4. Upto(h, 0)
    BY <2>3
  <2> HIDE DEF h
  <2> QED BY <2>2, <2>4 DEF h
<1>2. ASSUME NEW n \in Nat, n \in N PROVE n + 1 \in N
  <2>1. PICK h \in F : Upto(h, n)
    BY <1>2
  <2> DEFINE g == [s \in Seq(S) |-> G[<<s, h>>]]
  <2>2. g \in F
    OBVIOUS
  <2>3. ASSUME NEW s \in Seq(S), Len(s) < n + 1 PROVE g[s] = G[<<s, g>>]
    <3>1. \A t \in Seq(S) : Len(t) < Len(s) => Len(t) < n
      BY <2>3, LenProperties
    <3>2. \A t \in Seq(S) : Len(t) < Len(s) => g[t] = h[t]
      BY <3>1, <2>1
    <3>3. G[<<s, g>>] = G[<<s, h>>]
      <4> HIDE DEF g
      <4> QED BY <2>2, <3>2
    <3> QED BY <3>3
  <2>4. Upto(g, n + 1)
    BY <2>3
  <2> HIDE DEF g
  <2> QED BY <2>2, <2>4
<1>3. \A n \in Nat : \E h \in F : Upto(h, n)
  <2>1. Nat \subseteq N
    <3> HIDE DEF N
    <3> QED BY <1>1, <1>2, InductionOverNat
  <2> QED BY <2>1
<1>4. ASSUME NEW g \in F, NEW h \in F, NEW n \in Nat, Upto(g, n), Upto(h, n)
      PROVE  \A s \in Seq(S) : Len(s) < n => g[s] = h[s]
  <2> DEFINE Z == {s \in Seq(S) : Len(s) < n => g[s] = h[s]}
  <2>1. ASSUME NEW s \in Seq(S), \A t \in Seq(S) : Len(t) < Len(s) => t \in Z
        PROVE  s \in Z
    <3>1. SUFFICES ASSUME Len(s) < n PROVE g[s] = h[s]
      OBVIOUS
    <3>2. \A t \in Seq(S) : Len(t) < Len(s) => g[t] = h[t]
      BY <2>1, <3>1, LenProperties
    <3>3. G[<<s, g>>] = G[<<s, h>>]
      BY <3>2
    <3> QED BY <1>4, <3>1, <3>3
  <2>2. Seq(S) \subseteq Z
    <3> HIDE DEF Z
    <3> QED BY <2>1, InductionOverSeq
  <2> QED BY <2>2
<1> DEFINE H(n) == CHOOSE h \in F : Upto(h, n)
           f == [s \in Seq(S) |-> H(Len(s) + 1)[s]]
<1>5. \A n \in Nat : H(n) \in F /\ Upto(H(n), n)
  BY <1>3
<1> HIDE DEF H
<1>6. f \in F
  BY <1>5, LenProperties
<1>7. ASSUME NEW s \in Seq(S) PROVE f[s] = G[<<s, f>>]
  <2> DEFINE n == Len(s) + 1
             h == H(n)
  <2>1. n \in Nat /\ h \in F /\ Upto(h, n)
    <3>1. n \in Nat
      BY LenProperties
    <3> HIDE DEF n, Upto, F
    <3> QED BY <1>5, <3>1
  <2>2. ASSUME NEW t \in Seq(S), Len(t) < Len(s) PROVE f[t] = h[t]
    <3>1. Len(t) \in Nat /\ Len(s) \in Nat /\ Len(t) + 1 \in Nat /\ Len(t) < Len(t) + 1
      BY LenProperties
    <3>2. H(Len(t) + 1) \in F /\ Upto(H(Len(t) + 1), Len(t) + 1)
      BY <1>5, <3>1
    <3>3. Upto(h, Len(t) + 1)
      <4>1. \A u \in Seq(S) : Len(u) < Len(t) + 1 => Len(u) < n
        BY <2>2, <3>1, LenProperties
      <4> HIDE DEF h, n
      <4> QED BY <2>1, <4>1
    <3>4. H(Len(t) + 1)[t] = h[t]
      <4> DEFINE g == H(Len(t) + 1)
                 k == Len(t) + 1
      <4>1. g \in F /\ h \in F /\ k \in Nat /\ Upto(g, k) /\ Upto(h, k) /\ Len(t) < k
        BY <2>1, <3>1, <3>2, <3>3
      <4> HIDE DEF h, g, k, Upto, F
      <4>2. g[t] = h[t]
        BY <1>4, <4>1
      <4> QED BY <4>2 DEF g, k
    <3> QED BY <3>4
  <2>3. G[<<s, f>>] = G[<<s, h>>]
    <3> HIDE DEF f, h
    <3> QED BY <1>6, <2>1, <2>2
  <2>4. h[s] = G[<<s, h>>]
    <3>1. Len(s) < n
      BY LenProperties
    <3> HIDE DEF n, h
    <3> QED BY <2>1, <3>1
  <2> QED BY <2>3, <2>4
<1> HIDE DEF f
<1> QED BY <1>6, <1>7

LEMMA FrontAndLast ==
  ASSUME NEW S, NEW s \in Seq(S), s # <<>>
  PROVE  /\ Front(s) \in Seq(S) /\ Last(s) \in S
         /\ Len(Front(s)) = Len(s) - 1 /\ Len(Front(s)) < Len(s)
         /\ s = Append(Front(s), Last(s))
<1>1. PICK t \in Seq(S), e \in S : s = Append(t, e)
  BY SequenceEmptyOrAppend
<1>2. Len(s) = Len(t) + 1 /\ Len(t) \in Nat /\ s[Len(s)] = e /\ \A i \in 1 .. Len(t) : s[i] = t[i]
  BY <1>1, AppendProperties, LenProperties
<1>3. Front(s) = t
  <2>1. /\ SubSeq(s, 1, Len(s) - 1) \in Seq(S) /\ Len(SubSeq(s, 1, Len(s) - 1)) = Len(t)
        /\ \A i \in 1 .. Len(t) : SubSeq(s, 1, Len(s) - 1)[i] = t[i]
    BY <1>2, SubSeqProperties
  <2> QED BY <2>1, SeqEqual DEF Front
<1> QED BY <1>1, <1>2, <1>3 DEF Last

LEMMA FrontOfAppend ==
  ASSUME NEW S, NEW s \in Seq(S), NEW e \in S
  PROVE  /\ Append(s, e) \in Seq(S) /\ Append(s, e) # <<>>
         /\ Front(Append(s, e)) = s /\ Last(Append(s, e)) = e
<1>1. Append(s, e) \in Seq(S) /\ Append(s, e) # <<>>
  BY AppendProperties
<1>2. Append(s, e) = Append(Front(Append(s, e)), Last(Append(s, e)))
      /\ Front(Append(s, e)) \in Seq(S) /\ Last(Append(s, e)) \in S
  BY <1>1, FrontAndLast
<1> QED BY <1>1, <1>2, AppendInjective

\* The first of the numbers from a bound on.
LEMMA LeastFrom ==
  ASSUME NEW from \in Nat, NEW T, NEW k \in Nat, k \in T, from <= k
  PROVE  \E n \in from .. k : n \in T /\ \A m \in from .. n - 1 : m \notin T
<1> DEFINE R == {n \in from .. k : n \in T}
<1>1. R \subseteq Nat /\ k \in R
  OBVIOUS
<1>2. PICK n \in R : \A m \in R : ~(<<m, n>> \in OpToRel(<, Nat))
  <2> HIDE DEF R
  <2> QED BY <1>1, NatLessThanWellFounded, WFMin
<1>3. n \in from .. k /\ n \in T /\ n \in Nat /\ \A m \in R : ~(m < n)
  BY <1>1, <1>2 DEF OpToRel
<1>4. \A m \in from .. n - 1 : m \notin T
  BY <1>3
<1> QED BY <1>3, <1>4

\* One of more candidates than there are names taken is free.
LEMMA OneIsFree ==
  ASSUME NEW taken, IsFiniteSet(taken), NEW from \in Nat, NEW f,
         \A m, n \in from .. from + Cardinality(taken) : f[m] = f[n] => m = n
  PROVE  \E n \in from .. from + Cardinality(taken) :
           f[n] \notin taken /\ \A m \in from .. n - 1 : f[m] \in taken
<1> DEFINE c == Cardinality(taken)
           D == from .. from + c
<1>1. c \in Nat
  BY FS_CardinalityType
<1>2. PICK k \in D : f[k] \notin taken
  <2>1. SUFFICES ASSUME \A n \in D : f[n] \in taken PROVE FALSE
    OBVIOUS
  <2>2. IsFiniteSet(D) /\ Cardinality(D) = c + 1
    <3> DEFINE upto == from + c
    <3>1. upto \in Int /\ from \in Int /\ ~(from > upto) /\ upto - from + 1 = c + 1
      BY <1>1
    <3>2. \A a \in Int, b \in Int : IsFiniteSet(a .. b) /\ (~(a > b) => Cardinality(a .. b) = b - a + 1)
      BY FS_Interval
    <3>3. D = from .. upto
      OBVIOUS
    <3> HIDE DEF upto, D, c
    <3> QED BY <3>1, <3>2, <3>3
  <2> DEFINE g == [n \in D |-> f[n]]
  <2>3. g \in [D -> taken]
    BY <2>1
  <2>4. Cardinality(taken) < Cardinality(D)
    BY <1>1, <2>2
  <2>5. \E x, y \in D : x # y /\ g[x] = g[y]
    <3> HIDE DEF g, D, c
    <3> QED BY <2>2, <2>3, <2>4, FS_PigeonHole
  <2> QED BY <2>5
<1> DEFINE T == {n \in D : f[n] \notin taken}
<1>3. k \in Nat /\ from <= k /\ k \in T
  BY <1>1, <1>2
<1>4. PICK n \in from .. k : n \in T /\ \A m \in from .. n - 1 : m \notin T
  <2> HIDE DEF T
  <2> QED BY <1>3, LeastFrom
<1>5. n \in D /\ f[n] \notin taken /\ \A m \in from .. n - 1 : m \in D
  BY <1>1, <1>4
<1> QED BY <1>4, <1>5

\* A function defined by a sequence's last element and its value on the rest.
FoldIsDefined(S, V, base, step) ==
  \E f \in [Seq(S) -> V] :
    \A s \in Seq(S) : f[s] = IF s = <<>> THEN base ELSE step[<<f[Front(s)], Last(s)>>]

LEMMA FoldOverSeq ==
  ASSUME NEW S, NEW V, NEW base \in V, NEW step \in [V \X S -> V]
  PROVE  FoldIsDefined(S, V, base, step)
<1> DEFINE F == [Seq(S) -> V]
           E(s, f) == IF s = <<>> THEN base ELSE step[<<f[Front(s)], Last(s)>>]
           G == [x \in Seq(S) \X F |-> E(x[1], x[2])]
<1>1. \A s \in Seq(S), f \in F : E(s, f) \in V
  BY FrontAndLast
<1>2. \A s \in Seq(S), g \in F, h \in F :
        (\A t \in Seq(S) : Len(t) < Len(s) => g[t] = h[t]) => E(s, g) = E(s, h)
  BY FrontAndLast
<1> HIDE DEF E
<1>3. G \in [Seq(S) \X F -> V] /\ \A s \in Seq(S), f \in F : G[<<s, f>>] = E(s, f)
  BY <1>1
<1> HIDE DEF G
<1>4. \A s \in Seq(S), g \in F, h \in F :
        (\A t \in Seq(S) : Len(t) < Len(s) => g[t] = h[t]) => G[<<s, g>>] = G[<<s, h>>]
  <2> SUFFICES ASSUME NEW s \in Seq(S), NEW g \in F, NEW h \in F,
                      \A t \in Seq(S) : Len(t) < Len(s) => g[t] = h[t]
               PROVE  G[<<s, g>>] = G[<<s, h>>]
    OBVIOUS
  <2>1. E(s, g) = E(s, h)
    BY <1>2
  <2> QED BY <1>3, <2>1
<1>5. ByShorter(S, V, G)
  BY <1>3, <1>4 DEF ByShorter
<1>6. PICK f \in F : \A s \in Seq(S) : f[s] = G[<<s, f>>]
  BY <1>5, RecursionOverSeq DEF IsDefined
<1>7. \A s \in Seq(S) : f[s] = E(s, f)
  BY <1>3, <1>6
<1> QED BY <1>7 DEF E, FoldIsDefined

---------------------------------------------------------------------------
(* A saved stream.                                                         *)

\* What has been made of a stream so far.
Facts == [refused : BOOLEAN, id : SessionIds \cup {NoId}]

LEMMA LineIs ==
  ASSUME NEW l \in StreamLine
  PROVE  /\ l.kind \in {"init", "event", "other", "malformed", "blank"} /\ l.id \in SessionIds \cup {NoId}
         /\ l.kind \in {"other", "malformed", "blank"} => l.id = NoId
         /\ l = [kind |-> l.kind, id |-> l.id]
BY DEF StreamLine

LEMMA ApplyEventIs ==
  ASSUME NEW s \in Facts, NEW l \in StreamLine
  PROVE  ApplyEvent(s, l) \in Facts
BY LineIs DEF ApplyEvent, Facts, Refuse

\* The lines are taken one after the other.
LEMMA InspectedIs ==
  Inspected = [text \in Seq(StreamLine) |->
                 IF text = <<>> THEN Opening ELSE ApplyEvent(Inspected[Front(text)], Last(text))]
<1> DEFINE F == [Seq(StreamLine) -> Facts]
           E(text, f) == IF text = <<>> THEN Opening ELSE ApplyEvent(f[Front(text)], Last(text))
           G == [x \in Seq(StreamLine) \X F |-> E(x[1], x[2])]
<1>1. \A text \in Seq(StreamLine), f \in F : E(text, f) \in Facts
  BY FrontAndLast, ApplyEventIs DEF Opening, Facts
<1>2. \A s \in Seq(StreamLine), g \in F, h \in F :
        (\A t \in Seq(StreamLine) : Len(t) < Len(s) => g[t] = h[t]) => E(s, g) = E(s, h)
  BY FrontAndLast
<1> HIDE DEF E
<1>3. G \in [Seq(StreamLine) \X F -> Facts] /\ \A s \in Seq(StreamLine), f \in F : G[<<s, f>>] = E(s, f)
  BY <1>1
<1> HIDE DEF G
<1>4. \E f \in F : \A s \in Seq(StreamLine) : f[s] = G[<<s, f>>]
  <2>1. Facts # {}
    <3>1. Opening \in Facts
      BY DEF Facts, Opening
    <3> QED BY <3>1
  <2>2. \A s \in Seq(StreamLine), g \in F, h \in F :
          (\A t \in Seq(StreamLine) : Len(t) < Len(s) => g[t] = h[t]) => G[<<s, g>>] = G[<<s, h>>]
    <3> SUFFICES ASSUME NEW s \in Seq(StreamLine), NEW g \in F, NEW h \in F,
                        \A t \in Seq(StreamLine) : Len(t) < Len(s) => g[t] = h[t]
                 PROVE  G[<<s, g>>] = G[<<s, h>>]
      OBVIOUS
    <3>1. E(s, g) = E(s, h)
      BY <1>2
    <3> QED BY <1>3, <3>1
  <2> HIDE DEF E
  <2>3. ByShorter(StreamLine, Facts, G)
    BY <1>3, <2>1, <2>2 DEF ByShorter
  <2>4. IsDefined(StreamLine, Facts, G)
    BY <2>3, RecursionOverSeq
  <2> QED BY <2>4 DEF IsDefined
<1>5. \E f \in F : f = [text \in Seq(StreamLine) |-> E(text, f)]
  <2>1. PICK f \in F : \A s \in Seq(StreamLine) : f[s] = E(s, f)
    BY <1>3, <1>4
  <2> QED BY <2>1
<1> QED BY <1>5 DEF Inspected, E

LEMMA InspectedStep ==
  /\ Inspected[<<>>] = Opening
  /\ \A s \in Seq(StreamLine), l \in StreamLine : Inspected[Append(s, l)] = ApplyEvent(Inspected[s], l)
<1>1. <<>> \in Seq(StreamLine)
  BY EmptySeq
<1> QED BY <1>1, InspectedIs, FrontOfAppend

\* What is kept of a stream is kept line by line.
LEMMA WithoutStep ==
  ASSUME NEW kinds
  PROVE  /\ Without(kinds, <<>>) = <<>>
         /\ \A s \in Seq(StreamLine), l \in StreamLine :
              Without(kinds, Append(s, l)) =
                IF l.kind \in kinds THEN Without(kinds, s) ELSE Append(Without(kinds, s), l)
<1> DEFINE F == [Seq(StreamLine) -> Seq(StreamLine)]
           E(text, f) == IF text = <<>> THEN <<>>
                         ELSE IF Last(text).kind \in kinds THEN f[Front(text)]
                              ELSE Append(f[Front(text)], Last(text))
           G == [x \in Seq(StreamLine) \X F |-> E(x[1], x[2])]
           remaining == CHOOSE f : f = [text \in Seq(StreamLine) |-> E(text, f)]
<1>1. \A text \in Seq(StreamLine), f \in F : E(text, f) \in Seq(StreamLine)
  <2> SUFFICES ASSUME NEW text \in Seq(StreamLine), NEW f \in F, text # <<>>
               PROVE  f[Front(text)] \in Seq(StreamLine) /\ Append(f[Front(text)], Last(text)) \in Seq(StreamLine)
    BY EmptySeq
  <2>1. f[Front(text)] \in Seq(StreamLine) /\ Last(text) \in StreamLine
    BY FrontAndLast
  <2> QED BY <2>1, AppendProperties
<1>2. \A s \in Seq(StreamLine), g \in F, h \in F :
        (\A t \in Seq(StreamLine) : Len(t) < Len(s) => g[t] = h[t]) => E(s, g) = E(s, h)
  BY FrontAndLast
<1> HIDE DEF E
<1>3. G \in [Seq(StreamLine) \X F -> Seq(StreamLine)] /\ \A s \in Seq(StreamLine), f \in F : G[<<s, f>>] = E(s, f)
  BY <1>1
<1> HIDE DEF G
<1>4. \E f \in F : \A s \in Seq(StreamLine) : f[s] = G[<<s, f>>]
  <2>1. Seq(StreamLine) # {}
    BY EmptySeq
  <2>2. \A s \in Seq(StreamLine), g \in F, h \in F :
          (\A t \in Seq(StreamLine) : Len(t) < Len(s) => g[t] = h[t]) => G[<<s, g>>] = G[<<s, h>>]
    <3> SUFFICES ASSUME NEW s \in Seq(StreamLine), NEW g \in F, NEW h \in F,
                        \A t \in Seq(StreamLine) : Len(t) < Len(s) => g[t] = h[t]
                 PROVE  G[<<s, g>>] = G[<<s, h>>]
      OBVIOUS
    <3>1. E(s, g) = E(s, h)
      BY <1>2
    <3> QED BY <1>3, <3>1
  <2> HIDE DEF E
  <2>3. ByShorter(StreamLine, Seq(StreamLine), G)
    BY <1>3, <2>1, <2>2 DEF ByShorter
  <2>4. IsDefined(StreamLine, Seq(StreamLine), G)
    BY <2>3, RecursionOverSeq
  <2> QED BY <2>4 DEF IsDefined
<1>5. \E f \in F : f = [text \in Seq(StreamLine) |-> E(text, f)]
  <2>1. PICK f \in F : \A s \in Seq(StreamLine) : f[s] = E(s, f)
    BY <1>3, <1>4
  <2> QED BY <2>1
<1>6. remaining = [text \in Seq(StreamLine) |-> E(text, remaining)]
  BY <1>5
<1>7. \A text \in Seq(StreamLine) : Without(kinds, text) = remaining[text]
  BY DEF Without, E
<1> HIDE DEF remaining
<1>8. <<>> \in Seq(StreamLine) /\ remaining[<<>>] = <<>>
  BY <1>6, EmptySeq DEF E
<1>9. ASSUME NEW s \in Seq(StreamLine), NEW l \in StreamLine
      PROVE  remaining[Append(s, l)] = IF l.kind \in kinds THEN remaining[s] ELSE Append(remaining[s], l)
  <2> DEFINE a == Append(s, l)
  <2>1. a \in Seq(StreamLine) /\ a # <<>> /\ Front(a) = s /\ Last(a) = l
    BY FrontOfAppend
  <2> HIDE DEF a
  <2>2. remaining[a] = E(a, remaining)
    BY <1>6, <2>1
  <2>3. E(a, remaining) = IF l.kind \in kinds THEN remaining[s] ELSE Append(remaining[s], l)
    BY <2>1 DEF E
  <2> QED BY <2>2, <2>3 DEF a
<1>10. Without(kinds, <<>>) = <<>>
  BY <1>7, <1>8
<1>11. ASSUME NEW s \in Seq(StreamLine), NEW l \in StreamLine
       PROVE  Without(kinds, Append(s, l)) =
                IF l.kind \in kinds THEN Without(kinds, s) ELSE Append(Without(kinds, s), l)
  <2> DEFINE a == Append(s, l)
  <2>1. a \in Seq(StreamLine)
    BY FrontOfAppend
  <2> HIDE DEF a
  <2>2. Without(kinds, a) = remaining[a] /\ Without(kinds, s) = remaining[s]
    BY <1>7, <2>1
  <2> QED BY <1>9, <2>2 DEF a
<1> QED BY <1>10, <1>11

LEMMA WithoutIs ==
  ASSUME NEW kinds, NEW s \in Seq(StreamLine)
  PROVE  Without(kinds, s) \in Seq(StreamLine)
<1> DEFINE Z == {t \in Seq(StreamLine) : Without(kinds, t) \in Seq(StreamLine)}
<1>0. /\ Without(kinds, <<>>) = <<>>
      /\ \A t \in Seq(StreamLine), l \in StreamLine :
           Without(kinds, Append(t, l)) =
             IF l.kind \in kinds THEN Without(kinds, t) ELSE Append(Without(kinds, t), l)
  BY WithoutStep
<1>1. <<>> \in Z
  BY <1>0, EmptySeq
<1>2. ASSUME NEW t \in Seq(StreamLine), NEW l \in StreamLine, t \in Z PROVE Append(t, l) \in Z
  <2>1. Append(t, l) \in Seq(StreamLine) /\ Append(Without(kinds, t), l) \in Seq(StreamLine)
    BY <1>2, AppendProperties
  <2>2. Without(kinds, Append(t, l)) =
          IF l.kind \in kinds THEN Without(kinds, t) ELSE Append(Without(kinds, t), l)
    BY <1>0
  <2> QED BY <1>2, <2>1, <2>2
<1> HIDE DEF Z
<1>3. Seq(StreamLine) \subseteq Z
  BY <1>1, <1>2, InductionOverAppend
<1> QED BY <1>3 DEF Z

\* One session's stream, and what has been made of it.
OneSession(seen) ==
  /\ seen # <<>> /\ seen[1].kind = "init" /\ seen[1].id # NoId
  /\ \A i \in 2 .. Len(seen) : seen[i].kind = "event" /\ seen[i].id \in {NoId, seen[1].id}

Made(seen) ==
  IF seen = <<>> THEN Opening
  ELSE IF OneSession(seen) THEN [refused |-> FALSE, id |-> seen[1].id] ELSE Refuse

LEMMA OneSessionStep ==
  ASSUME NEW seen \in Seq(StreamLine), NEW l \in StreamLine
  PROVE  /\ seen = <<>> => (OneSession(Append(seen, l)) <=> l.kind = "init" /\ l.id # NoId)
         /\ seen # <<>> => (OneSession(Append(seen, l)) <=>
              OneSession(seen) /\ l.kind = "event" /\ l.id \in {NoId, seen[1].id})
         /\ seen # <<>> => Append(seen, l)[1] = seen[1]
         /\ seen = <<>> => Append(seen, l)[1] = l
         /\ Append(seen, l) # <<>>
<1>1. /\ Len(seen) \in Nat /\ Append(seen, l) \in Seq(StreamLine) /\ Append(seen, l) # <<>>
      /\ Len(Append(seen, l)) = Len(seen) + 1 /\ Append(seen, l)[Len(seen) + 1] = l
      /\ \A i \in 1 .. Len(seen) : Append(seen, l)[i] = seen[i]
  BY AppendProperties, LenProperties
<1>2. seen = <<>> <=> Len(seen) = 0
  BY EmptySeq
<1> DEFINE a == Append(seen, l)
<1> HIDE DEF a
<1>3. CASE seen = <<>>
  <2>1. Len(a) = 1 /\ a[1] = l
    BY <1>1, <1>2, <1>3 DEF a
  <2> QED BY <1>1, <1>3, <2>1 DEF OneSession, a
<1>4. CASE seen # <<>>
  <2>1. Len(seen) >= 1 /\ a[1] = seen[1]
    BY <1>1, <1>2, <1>4 DEF a
  <2>2. \A i \in 2 .. Len(a) : i \in 2 .. Len(seen) \/ i = Len(seen) + 1
    BY <1>1 DEF a
  <2>3. \A i \in 2 .. Len(seen) : a[i] = seen[i] /\ i \in 2 .. Len(a)
    BY <1>1 DEF a
  <2>4. a[Len(seen) + 1] = l /\ Len(seen) + 1 \in 2 .. Len(a) /\ a # <<>>
    BY <1>1, <2>1 DEF a
  <2>5. OneSession(a) <=> OneSession(seen) /\ l.kind = "event" /\ l.id \in {NoId, seen[1].id}
    BY <1>4, <2>1, <2>2, <2>3, <2>4 DEF OneSession
  <2> QED BY <1>4, <2>1, <2>4, <2>5 DEF a
<1> QED BY <1>3, <1>4

LEMMA MadeStep ==
  ASSUME NEW seen \in Seq(StreamLine), NEW l \in StreamLine, l.kind # "blank"
  PROVE  ApplyEvent(Made(seen), l) = Made(Append(seen, l))
<1>1. CASE seen = <<>>
  <2>1. Made(seen) = Opening
    BY <1>1 DEF Made
  <2>2. /\ OneSession(Append(seen, l)) <=> l.kind = "init" /\ l.id # NoId
        /\ Append(seen, l) # <<>> /\ Append(seen, l)[1] = l
    BY <1>1, OneSessionStep
  <2>3. ApplyEvent(Opening, l) =
          IF l.kind = "init" /\ l.id # NoId THEN [refused |-> FALSE, id |-> l.id] ELSE Refuse
    BY DEF ApplyEvent, Opening
  <2> QED BY <2>1, <2>2, <2>3 DEF Made
<1>2. CASE seen # <<>> /\ OneSession(seen)
  <2>1. Made(seen) = [refused |-> FALSE, id |-> seen[1].id] /\ seen[1].id # NoId
    BY <1>2 DEF Made, OneSession
  <2>2. OneSession(Append(seen, l)) <=> l.kind = "event" /\ l.id \in {NoId, seen[1].id}
    BY <1>2, OneSessionStep
  <2>3. Append(seen, l) # <<>> /\ Append(seen, l)[1] = seen[1]
    BY <1>2, OneSessionStep
  <2> QED BY <2>1, <2>2, <2>3 DEF Made, ApplyEvent, Refuse
<1>3. CASE seen # <<>> /\ ~OneSession(seen)
  <2>1. ~OneSession(Append(seen, l)) /\ Append(seen, l) # <<>>
    BY <1>3, OneSessionStep
  <2>2. Made(seen) = Refuse /\ Made(Append(seen, l)) = Refuse
    BY <1>3, <2>1 DEF Made
  <2>3. ApplyEvent(Refuse, l) = Refuse
    BY DEF ApplyEvent, Refuse
  <2> QED BY <2>2, <2>3
<1> QED BY <1>1, <1>2, <1>3

\* What the inspection makes of a stream, and what is remaining of one that it accepts.
LEMMA InspectionIs ==
  ASSUME NEW s \in Seq(StreamLine), NEW seen, seen = Without({"blank"}, s)
  PROVE  /\ seen \in Seq(StreamLine) /\ Inspected[s] = Made(seen)
         /\ seen = <<>> \/ OneSession(seen) => Without({"malformed", "blank"}, s) = seen
<1> DEFINE B(t) == Without({"blank"}, t)
           M(t) == Without({"malformed", "blank"}, t)
           Good(t) == /\ B(t) \in Seq(StreamLine) /\ Inspected[t] = Made(B(t))
                      /\ B(t) = <<>> \/ OneSession(B(t)) => M(t) = B(t)
           Z == {t \in Seq(StreamLine) : Good(t)}
<1>1. /\ B(<<>>) = <<>>
      /\ \A t \in Seq(StreamLine), l \in StreamLine :
           B(Append(t, l)) = IF l.kind \in {"blank"} THEN B(t) ELSE Append(B(t), l)
  BY WithoutStep
<1>2. /\ M(<<>>) = <<>>
      /\ \A t \in Seq(StreamLine), l \in StreamLine :
           M(Append(t, l)) = IF l.kind \in {"malformed", "blank"} THEN M(t) ELSE Append(M(t), l)
  BY WithoutStep
<1> HIDE DEF B, M
<1>3. <<>> \in Z
  BY <1>1, <1>2, EmptySeq, InspectedStep DEF Made
<1>4. ASSUME NEW t \in Seq(StreamLine), NEW l \in StreamLine, t \in Z PROVE Append(t, l) \in Z
  <2> DEFINE a == Append(t, l)
  <2>1. a \in Seq(StreamLine) /\ Inspected[a] = ApplyEvent(Made(B(t)), l)
    BY <1>4, AppendProperties, InspectedStep
  <2>2. /\ B(a) = IF l.kind \in {"blank"} THEN B(t) ELSE Append(B(t), l)
        /\ M(a) = IF l.kind \in {"malformed", "blank"} THEN M(t) ELSE Append(M(t), l)
    BY <1>1, <1>2
  <2> HIDE DEF a
  <2>3. CASE l.kind = "blank"
    <3>1. ApplyEvent(Made(B(t)), l) = Made(B(t))
      BY <2>3 DEF ApplyEvent
    <3> QED BY <1>4, <2>1, <2>2, <2>3, <3>1 DEF a
  <2>4. CASE l.kind # "blank"
    <3>1. B(a) = Append(B(t), l) /\ B(t) \in Seq(StreamLine)
      BY <1>4, <2>2, <2>4
    <3>2. B(a) \in Seq(StreamLine) /\ Inspected[a] = Made(B(a))
      BY <2>1, <2>4, <3>1, MadeStep, AppendProperties
    <3>3. ASSUME B(a) = <<>> \/ OneSession(B(a)) PROVE M(a) = B(a)
      <4>1. B(a) # <<>> /\ OneSession(B(a))
        BY <3>1, <3>3, OneSessionStep
      <4>2. (B(t) = <<>> \/ OneSession(B(t))) /\ l.kind \in {"init", "event"}
        BY <3>1, <4>1, OneSessionStep
      <4> QED BY <1>4, <2>2, <2>4, <3>1, <4>2
    <3> QED BY <2>1, <3>2, <3>3 DEF a
  <2> QED BY <2>3, <2>4
<1> HIDE DEF Z
<1>5. Seq(StreamLine) \subseteq Z
  BY <1>3, <1>4, InductionOverAppend
<1> QED BY <1>5 DEF Z, B, M

LEMMA LoadIs ==
  CursorTypeOK => LoadsIffOneSession
<1> SUFFICES ASSUME CursorTypeOK PROVE LoadsIffOneSession
  OBVIOUS
<1> DEFINE N == Without({"blank"}, lines)
           t == ReadLine(tail)
           shown == ~(tail = NoTail \/ t.kind = "malformed")
           seen == N \o (IF tail = NoTail \/ t.kind = "malformed" THEN <<>> ELSE <<tail.line>>)
           s == Inspected[lines]
           end == IF t.kind = "malformed" /\ s.id # NoId THEN s ELSE ApplyEvent(s, t)
           remaining == Without({"malformed", "blank"}, lines)
           records == JsonlToRecords(lines, tail)
<1>1. lines \in Seq(StreamLine) /\ tail \in [cut : BOOLEAN, line : StreamLine]
  BY DEF CursorTypeOK
<1>2. /\ N \in Seq(StreamLine) /\ s = Made(N)
      /\ N = <<>> \/ OneSession(N) => remaining = N
  BY <1>1, InspectionIs
<1>3. t \in StreamLine
  BY <1>1 DEF ReadLine, StreamLine
<1>4. records = IF t.kind \in {"malformed", "blank"} THEN remaining ELSE Append(remaining, t)
  <2>1. \A a \in Seq(StreamLine), l \in StreamLine :
          Without({"malformed", "blank"}, Append(a, l)) =
            IF l.kind \in {"malformed", "blank"} THEN Without({"malformed", "blank"}, a)
            ELSE Append(Without({"malformed", "blank"}, a), l)
    BY WithoutStep
  <2> HIDE DEF t
  <2> QED BY <1>1, <1>3, <2>1 DEF JsonlToRecords, t
<1>5. LoadsIffOneSession <=>
        Load(lines, tail) = IF OneSession(seen) THEN [id |-> seen[1].id, records |-> seen] ELSE NotLoaded
  BY DEF LoadsIffOneSession, OneSession
<1>6. Load(lines, tail) = IF (IF end.id = NoId THEN Refuse ELSE end).refused THEN NotLoaded
                          ELSE [id |-> (IF end.id = NoId THEN Refuse ELSE end).id, records |-> records]
  BY DEF Load, Inspect
<1>7. OneSession(N) => N[1].id # NoId /\ N # <<>>
  BY DEF OneSession
<1>8. CASE ~shown
  <2>1. seen = N
    BY <1>2, <1>8, ConcatEmptySeq
  <2>2. t.kind \in {"malformed", "blank"} /\ records = remaining
    BY <1>4, <1>8 DEF ReadLine, NoTail
  <2>3. end = IF OneSession(N) THEN [refused |-> FALSE, id |-> N[1].id]
              ELSE IF t.kind = "blank" THEN s ELSE Refuse
    <3> HIDE DEF N, t
    <3> QED BY <1>2, <1>7, <2>2 DEF Made, Opening, Refuse, ApplyEvent
  <2>4. OneSession(N) => end = [refused |-> FALSE, id |-> N[1].id]
    BY <2>3
  <2>5. ~OneSession(N) => end.id = NoId
    <3> HIDE DEF N, t
    <3> QED BY <1>2, <2>3 DEF Made, Opening, Refuse
  <2> HIDE DEF N, t, end, seen, records
  <2> QED BY <1>2, <1>5, <1>6, <1>7, <2>1, <2>2, <2>4, <2>5 DEF Refuse
<1>9. CASE shown
  <2>1. t = tail.line /\ tail.cut = FALSE /\ t.kind # "malformed"
    BY <1>1, <1>9 DEF ReadLine
  <2>2. t.kind # "blank"
    <3>1. ASSUME t.kind = "blank" PROVE tail = NoTail
      <4>1. t = [kind |-> "blank", id |-> NoId]
        BY <1>3, <3>1, LineIs
      <4> HIDE DEF t
      <4> QED BY <1>1, <2>1, <4>1 DEF NoTail
    <3> QED BY <1>9, <3>1
  <2>3. seen = Append(N, t) /\ seen \in Seq(StreamLine) /\ seen # <<>>
    <3>1. seen = N \o <<t>>
      BY <1>9, <2>1
    <3> HIDE DEF N, t, seen
    <3>2. N \o <<t>> = Append(N, t)
      BY <1>2, <1>3, AppendIsConcat
    <3> QED BY <1>2, <1>3, <3>1, <3>2, AppendProperties
  <2>4. end = Made(seen)
    <3>1. end = ApplyEvent(Made(N), t)
      BY <1>2, <2>1
    <3> HIDE DEF N, t, end, seen
    <3> QED BY <1>2, <1>3, <2>2, <2>3, <3>1, MadeStep
  <2>5. OneSession(seen) => records = seen
    <3> HIDE DEF N, t, end, seen, remaining
    <3>1. OneSession(seen) => N = <<>> \/ OneSession(N)
      BY <1>2, <1>3, <2>3, OneSessionStep
    <3>2. records = Append(remaining, t)
      BY <1>4, <2>1, <2>2
    <3> QED BY <1>2, <2>3, <3>1, <3>2
  <2>6. OneSession(seen) => end = [refused |-> FALSE, id |-> seen[1].id] /\ seen[1].id # NoId
    <3> HIDE DEF seen, end
    <3> QED BY <2>3, <2>4 DEF Made, OneSession
  <2>7. ~OneSession(seen) => end = Refuse
    <3> HIDE DEF seen, end
    <3> QED BY <2>3, <2>4 DEF Made
  <2> HIDE DEF N, t, end, seen, records
  <2> QED BY <1>5, <1>6, <2>5, <2>6, <2>7 DEF Refuse
<1> QED BY <1>8, <1>9

THEOREM CursorTypes == CursorSpec => []CursorTypeOK
<1>1. CursorInit => CursorTypeOK
  BY StreamAssumption, EmptySeq DEF CursorInit, CursorTypeOK, NoTail, StreamLine
<1>2. CursorTypeOK /\ [CursorNext]_cursorVars => CursorTypeOK'
  <2> SUFFICES ASSUME CursorTypeOK, [CursorNext]_cursorVars PROVE CursorTypeOK'
    OBVIOUS
  <2> USE StreamAssumption
  <2>1. CASE Pass
    <3>1. PICK t \in Token : args' = Append(args, t)
      BY <2>1 DEF Pass
    <3>2. args' \in Seq(Token) /\ Len(args') = Len(args) + 1 /\ Len(args) \in Nat
      BY <3>1, AppendProperties, LenProperties DEF CursorTypeOK
    <3> QED BY <2>1, <3>2 DEF Pass, CursorTypeOK
  <2>2. CASE BeginLine
    BY <2>2 DEF BeginLine, CursorTypeOK
  <2>3. CASE Complete
    BY <2>3 DEF Complete, CursorTypeOK
  <2>4. CASE Newline
    <3>1. lines' = Append(lines, tail.line) /\ tail.line \in StreamLine
      BY <2>4 DEF Newline, CursorTypeOK
    <3>2. lines' \in Seq(StreamLine) /\ Len(lines') = Len(lines) + 1 /\ Len(lines) \in Nat
      BY <3>1, AppendProperties, LenProperties DEF CursorTypeOK
    <3>3. NoTail \in [cut : BOOLEAN, line : StreamLine]
      BY DEF NoTail, StreamLine
    <3> QED BY <2>4, <3>2, <3>3 DEF Newline, CursorTypeOK
  <2>5. CASE UNCHANGED cursorVars
    BY <2>5 DEF cursorVars, CursorTypeOK
  <2> QED BY <2>1, <2>2, <2>3, <2>4, <2>5 DEF CursorNext
<1> QED BY <1>1, <1>2, PTL DEF CursorSpec

\* Whenever it is loaded and however much of its last line is there, a stream gives
\* one session and its whole events exactly where it is one session's (Inspector,
\* inspect_jsonl, jsonl_to_records).
THEOREM LoadsOneSession == CursorSpec => []LoadsIffOneSession
BY CursorTypes, LoadIs, PTL

---------------------------------------------------------------------------
(* A command line.                                                         *)

LEMMA ConsIs ==
  ASSUME NEW S, NEW t \in S, NEW s \in Seq(S)
  PROVE  /\ Cons(t, s) \in Seq(S) /\ Cons(t, s) # <<>> /\ Len(Cons(t, s)) = Len(s) + 1
         /\ Head(Cons(t, s)) = t /\ Tail(Cons(t, s)) = s
<1> DEFINE c == Cons(t, s)
<1>1. <<t>> \in Seq(S) /\ Len(<<t>>) = 1 /\ <<t>>[1] = t
  OBVIOUS
<1>2. /\ c \in Seq(S) /\ Len(c) = Len(s) + 1 /\ Len(s) \in Nat
      /\ \A i \in 1 .. Len(s) + 1 : c[i] = IF i <= 1 THEN t ELSE s[i - 1]
  BY <1>1, ConcatProperties, LenProperties DEF Cons
<1> HIDE DEF c
<1>3. c # <<>> /\ c[1] = t
  BY <1>2, EmptySeq
<1>4. /\ Tail(c) \in Seq(S) /\ Len(Tail(c)) = Len(s)
      /\ \A i \in 1 .. Len(s) : Tail(c)[i] = s[i]
  BY <1>2, <1>3, HeadTailProperties
<1>5. Tail(c) = s
  BY <1>4, SeqEqual
<1> QED BY <1>2, <1>3, <1>5 DEF c

LEMMA ConsOf ==
  ASSUME NEW S, NEW s \in Seq(S), s # <<>>
  PROVE  /\ Head(s) \in S /\ Tail(s) \in Seq(S) /\ Len(Tail(s)) < Len(s)
         /\ s = Cons(Head(s), Tail(s))
<1>1. /\ Head(s) \in S /\ Tail(s) \in Seq(S) /\ Len(Tail(s)) = Len(s) - 1
      /\ Len(s) \in Nat \ {0} /\ \A i \in 1 .. Len(Tail(s)) : Tail(s)[i] = s[i + 1]
  BY HeadTailProperties, EmptySeq
<1> DEFINE c == Cons(Head(s), Tail(s))
<1>2. c \in Seq(S) /\ Len(c) = Len(s) /\ Head(c) = Head(s) /\ Tail(c) = Tail(s) /\ c # <<>>
  <2>1. ASSUME NEW h \in S, NEW u \in Seq(S)
        PROVE  /\ Cons(h, u) \in Seq(S) /\ Len(Cons(h, u)) = Len(u) + 1 /\ Head(Cons(h, u)) = h
               /\ Tail(Cons(h, u)) = u /\ Cons(h, u) # <<>>
    BY ConsIs
  <2> DEFINE h == Head(s)
             u == Tail(s)
  <2>2. h \in S /\ u \in Seq(S) /\ Len(u) + 1 = Len(s)
    BY <1>1
  <2> HIDE DEF h, u
  <2>3. /\ Cons(h, u) \in Seq(S) /\ Len(Cons(h, u)) = Len(u) + 1 /\ Head(Cons(h, u)) = h
        /\ Tail(Cons(h, u)) = u /\ Cons(h, u) # <<>>
    BY <2>1, <2>2
  <2> QED BY <2>2, <2>3 DEF h, u
<1> HIDE DEF c
<1>3. \A i \in 1 .. Len(c) - 1 : Tail(c)[i] = c[i + 1]
  BY <1>2, HeadTailProperties
<1>4. ASSUME NEW i \in 1 .. Len(s) PROVE s[i] = c[i]
  <2>1. CASE i = 1
    BY <1>2, <2>1
  <2>2. CASE i # 1
    <3>1. i - 1 \in 1 .. Len(s) - 1 /\ i - 1 + 1 = i
      BY <2>2, <1>1
    <3>2. Tail(c)[i - 1] = c[i] /\ Tail(s)[i - 1] = s[i]
      BY <1>1, <1>2, <1>3, <3>1
    <3> QED BY <1>2, <3>2
  <2> QED BY <2>1, <2>2
<1>5. s = c
  BY <1>2, <1>4, SeqEqual
<1> QED BY <1>1, <1>5 DEF c

LEMMA ConsConcat ==
  ASSUME NEW S, NEW t \in S, NEW s \in Seq(S), NEW u \in Seq(S)
  PROVE  Cons(t, s) \o u = Cons(t, s \o u)
<1>1. <<t>> \in Seq(S)
  OBVIOUS
<1> QED BY <1>1, ConcatAssociative DEF Cons

\* What the planner makes of a command line, and Cursor.
Plans == [refused : BOOLEAN, options : Seq(Token), prompt : Seq(Token)]
Readings == [options : Seq(Token \X (Token \cup {NoValue})), operands : Seq(Token)]

LEMMA AfterIs ==
  ASSUME NEW tokens \in Seq(Token), NEW plan \in Plans
  PROVE  /\ After(tokens, plan) \in Plans
         /\ After(tokens, plan) = [refused |-> plan.refused, options |-> tokens \o plan.options, prompt |-> plan.prompt]
<1>1. PICK refused \in BOOLEAN, options \in Seq(Token), prompt \in Seq(Token) :
        plan = [refused |-> refused, options |-> options, prompt |-> prompt]
  BY DEF Plans
<1>2. tokens \o options \in Seq(Token)
  BY ConcatProperties
<1>3. After(tokens, plan) = [refused |-> refused, options |-> tokens \o options, prompt |-> prompt]
  BY <1>1 DEF After
<1>4. After(tokens, plan) \in Plans
  BY <1>2, <1>3 DEF Plans
<1> QED BY <1>4 DEF After

LEMMA WithIs ==
  ASSUME NEW t \in Token, NEW v \in Token \cup {NoValue}, NEW r \in Readings
  PROVE  /\ With(t, v, r) \in Readings
         /\ With(t, v, r) = [options |-> Cons(<<t, v>>, r.options), operands |-> r.operands]
<1>1. <<t, v>> \in Token \X (Token \cup {NoValue})
  OBVIOUS
<1>2. PICK a \in Seq(Token \X (Token \cup {NoValue})), b \in Seq(Token) :
        r = [options |-> a, operands |-> b]
  BY DEF Readings
<1>3. Cons(<<t, v>>, a) \in Seq(Token \X (Token \cup {NoValue}))
  BY <1>1, ConsIs
<1>4. With(t, v, r) = [options |-> Cons(<<t, v>>, a), operands |-> b]
  BY <1>2 DEF With, Reading, Cons
<1>5. With(t, v, r) \in Readings
  BY <1>3, <1>4 DEF Readings
<1>6. With(t, v, r) = [options |-> Cons(<<t, v>>, r.options), operands |-> r.operands]
  BY DEF With, Reading, Cons
<1> QED BY <1>5, <1>6

LEMMA TokenIs ==
  /\ Option \subseteq Token /\ Words \cup {"-", "--"} \subseteq Token
  /\ Option \cap (Words \cup {"-", "--"}) = {} /\ Words \cap {"-", "--"} = {}
  /\ \A t \in Token : WholeOption(t) => t \in Option \ (OptionalOptions \cup ValueOptions \cup {"--output-format"})
  /\ OptionalOptions \cup ValueOptions \subseteq Option
  /\ OptionalOptions \cap (ValueOptions \cup {"--output-format"}) = {}
BY DEF Token, Option, Words, GlobalOptions, Switches, ValueOptions, OptionalOptions, Filled, Vacant, Attached,
       Reserved, EarlyExit, Unlisted, WholeOption

PlanBy(argv, f) ==
  IF argv = <<>> THEN Prompt(<<>>)
  ELSE LET t == Head(argv)
           rest == Tail(argv)
           flag == After(<<t>>, f[rest])
           pair == After(<<t, Head(rest)>>, f[Tail(rest)])
       IN
    CASE t = "--" -> Prompt(rest)
      [] t \in Words \cup {"-"} -> Prompt(argv)
      [] WholeOption(t) -> flag
      [] t \in OptionalOptions -> IF IsName(rest) THEN pair ELSE flag
      [] t \in ValueOptions -> IF IsValue(rest) THEN pair ELSE Refused
      [] OTHER -> Refused

ReadBy(argv, f) ==
  IF argv = <<>> THEN Reading(<<>>, <<>>)
  ELSE LET t == Head(argv)
           rest == Tail(argv)
       IN
    CASE t = "--" -> Reading(<<>>, rest)
      [] t \notin Option \cup {"--"} -> Reading(<<>>, argv)
      [] t \in Option /\ TakesNext(t, rest) -> With(t, Head(rest), f[Tail(rest)])
      [] OTHER -> With(t, NoValue, f[rest])

\* Either takes a command line by its first token, or its first two.
PlannedFrom(t, rest, f, r) ==
  /\ t = "--" => r = Prompt(rest)
  /\ t \in Words \cup {"-"} => r = Prompt(Cons(t, rest))
  /\ WholeOption(t) \/ (t \in OptionalOptions /\ ~IsName(rest)) => r = After(<<t>>, f[rest])
  /\ (t \in OptionalOptions /\ IsName(rest)) \/ (t \in ValueOptions /\ IsValue(rest))
       => r = After(<<t, Head(rest)>>, f[Tail(rest)])
  /\ \/ t = "--" \/ t \in Words \cup {"-"} \/ WholeOption(t) \/ t \in OptionalOptions
     \/ t \in ValueOptions /\ IsValue(rest)
     \/ r = Refused

ReadFrom(t, rest, f, r) ==
  /\ t = "--" => r = Reading(<<>>, rest)
  /\ t \in Words \cup {"-"} => r = Reading(<<>>, Cons(t, rest))
  /\ t \in Option /\ TakesNext(t, rest) => r = With(t, Head(rest), f[Tail(rest)])
  /\ t \in Option /\ ~TakesNext(t, rest) => r = With(t, NoValue, f[rest])
  /\ t = "--" \/ t \in Words \cup {"-"} \/ t \in Option

LEMMA PlanByIs ==
  ASSUME NEW f, NEW t \in Token, NEW rest \in Seq(Token)
  PROVE  PlannedFrom(t, rest, f, PlanBy(Cons(t, rest), f))
<1> DEFINE r == PlanBy(Cons(t, rest), f)
<1>1. Cons(t, rest) # <<>> /\ Head(Cons(t, rest)) = t /\ Tail(Cons(t, rest)) = rest
  BY ConsIs
<1>2. r = CASE t = "--" -> Prompt(rest)
            [] t \in Words \cup {"-"} -> Prompt(Cons(t, rest))
            [] WholeOption(t) -> After(<<t>>, f[rest])
            [] t \in OptionalOptions -> IF IsName(rest) THEN After(<<t, Head(rest)>>, f[Tail(rest)])
                                        ELSE After(<<t>>, f[rest])
            [] t \in ValueOptions -> IF IsValue(rest) THEN After(<<t, Head(rest)>>, f[Tail(rest)]) ELSE Refused
            [] OTHER -> Refused
  BY <1>1 DEF PlanBy
<1>3. \E i \in 1 .. 6 :
        /\ i = 1 <=> t = "--"
        /\ i = 2 <=> t \in Words \cup {"-"}
        /\ i = 3 <=> WholeOption(t)
        /\ i = 4 <=> t \in OptionalOptions
        /\ i = 5 <=> t \in ValueOptions
  BY DEF Words, Switches, ValueOptions, OptionalOptions, WholeOption
<1> HIDE DEF r
<1>4. PlannedFrom(t, rest, f, r)
  BY <1>2, <1>3 DEF PlannedFrom
<1> QED BY <1>4 DEF r

LEMMA ReadByIs ==
  ASSUME NEW f, NEW t \in Token, NEW rest \in Seq(Token)
  PROVE  ReadFrom(t, rest, f, ReadBy(Cons(t, rest), f))
<1> DEFINE r == ReadBy(Cons(t, rest), f)
<1>1. Cons(t, rest) # <<>> /\ Head(Cons(t, rest)) = t /\ Tail(Cons(t, rest)) = rest
  BY ConsIs
<1>2. r = CASE t = "--" -> Reading(<<>>, rest)
            [] t \notin Option \cup {"--"} -> Reading(<<>>, Cons(t, rest))
            [] t \in Option /\ TakesNext(t, rest) -> With(t, Head(rest), f[Tail(rest)])
            [] OTHER -> With(t, NoValue, f[rest])
  BY <1>1 DEF ReadBy
<1>3. t \in Option \/ t \in Words \cup {"-"} \/ t = "--"
  BY DEF Token
<1>4. (t \in Option => t # "--") /\ (t \in Words \cup {"-"} => t \notin Option \cup {"--"})
  BY TokenIs
<1> HIDE DEF r
<1>5. ReadFrom(t, rest, f, r)
  BY <1>2, <1>3, <1>4 DEF ReadFrom
<1> QED BY <1>5 DEF r

LEMMA PlanByTyped ==
  ASSUME NEW argv \in Seq(Token), NEW f \in [Seq(Token) -> Plans]
  PROVE  PlanBy(argv, f) \in Plans
<1>1. \A tokens \in Seq(Token) : Prompt(tokens) \in Plans
  BY EmptySeq DEF Prompt, Plans
<1>2. Refused \in Plans
  BY EmptySeq DEF Refused, Plans
<1>3. CASE argv = <<>>
  BY <1>1, <1>3, EmptySeq DEF PlanBy
<1>4. CASE argv # <<>>
  <2> DEFINE t == Head(argv)
             rest == Tail(argv)
             r == PlanBy(argv, f)
  <2>1. t \in Token /\ rest \in Seq(Token) /\ argv = Cons(t, rest)
    BY <1>4, ConsOf
  <2> HIDE DEF t, rest
  <2>2. <<t>> \in Seq(Token) /\ f[rest] \in Plans
    BY <2>1
  <2>3. IsName(rest) \/ IsValue(rest) => <<t, Head(rest)>> \in Seq(Token) /\ f[Tail(rest)] \in Plans
    <3> SUFFICES ASSUME rest # <<>>
                 PROVE  <<t, Head(rest)>> \in Seq(Token) /\ f[Tail(rest)] \in Plans
      BY DEF IsName, IsValue
    <3>1. Head(rest) \in Token /\ Tail(rest) \in Seq(Token)
      BY <2>1, ConsOf
    <3>2. <<t, Head(rest)>> \in Seq(Token)
      <4> DEFINE h == Head(rest)
      <4>1. h \in Token
        BY <3>1
      <4> HIDE DEF h
      <4>2. <<t, h>> \in Seq(Token)
        BY <2>1, <4>1
      <4> QED BY <4>2 DEF h
    <3> QED BY <3>1, <3>2
  <2>4. /\ After(<<t>>, f[rest]) \in Plans
        /\ IsName(rest) \/ IsValue(rest) => After(<<t, Head(rest)>>, f[Tail(rest)]) \in Plans
    BY <2>2, <2>3, AfterIs
  <2>5. Prompt(rest) \in Plans /\ Prompt(Cons(t, rest)) \in Plans
    BY <1>1, <2>1, ConsIs
  <2>6. r = PlanBy(Cons(t, rest), f)
    BY <2>1
  <2> HIDE DEF r
  <2>7. PlannedFrom(t, rest, f, r)
    BY <2>1, <2>6, PlanByIs
  <2>8. r \in Plans
    <3>1. CASE t = "--" \/ t \in Words \cup {"-"}
      <4> HIDE DEF Words
      <4> QED BY <2>5, <2>7, <3>1 DEF PlannedFrom
    <3>2. ASSUME WholeOption(t) \/ (t \in OptionalOptions /\ ~IsName(rest)) PROVE r \in Plans
      BY <2>4, <2>7, <3>2 DEF PlannedFrom
    <3>3. ASSUME (t \in OptionalOptions /\ IsName(rest)) \/ (t \in ValueOptions /\ IsValue(rest)) PROVE r \in Plans
      BY <2>4, <2>7, <3>3 DEF PlannedFrom
    <3>6. CASE t \in OptionalOptions
      BY <3>2, <3>3, <3>6
    <3>4. CASE r = Refused
      BY <1>2, <3>4
    <3>5. \/ t = "--" \/ t \in Words \cup {"-"} \/ WholeOption(t) \/ t \in OptionalOptions
          \/ (t \in ValueOptions /\ IsValue(rest)) \/ r = Refused
      BY <2>7 DEF PlannedFrom
    <3> HIDE DEF r
    <3> QED BY <3>1, <3>2, <3>3, <3>4, <3>5, <3>6
  <2> QED BY <2>8 DEF r
<1> QED BY <1>3, <1>4

LEMMA ReadByTyped ==
  ASSUME NEW argv \in Seq(Token), NEW f \in [Seq(Token) -> Readings]
  PROVE  ReadBy(argv, f) \in Readings
<1>1. \A tokens \in Seq(Token) : Reading(<<>>, tokens) \in Readings
  BY EmptySeq DEF Reading, Readings
<1>2. CASE argv = <<>>
  BY <1>1, <1>2, EmptySeq DEF ReadBy
<1>3. CASE argv # <<>>
  <2> DEFINE t == Head(argv)
             rest == Tail(argv)
             r == ReadBy(argv, f)
  <2>1. t \in Token /\ rest \in Seq(Token) /\ argv = Cons(t, rest)
    BY <1>3, ConsOf
  <2>2. f[rest] \in Readings
    BY <2>1
  <2>3. TakesNext(t, rest) => Head(rest) \in Token /\ f[Tail(rest)] \in Readings
    BY <2>1, ConsOf DEF TakesNext
  <2> HIDE DEF t, rest
  <2>4. With(t, NoValue, f[rest]) \in Readings /\ (TakesNext(t, rest) => With(t, Head(rest), f[Tail(rest)]) \in Readings)
    BY <2>1, <2>2, <2>3, WithIs
  <2>5. Reading(<<>>, rest) \in Readings /\ Reading(<<>>, Cons(t, rest)) \in Readings
    BY <1>1, <2>1, ConsIs
  <2>6. r = ReadBy(Cons(t, rest), f)
    BY <2>1
  <2> HIDE DEF r
  <2>7. ReadFrom(t, rest, f, r)
    BY <2>1, <2>6, ReadByIs
  <2>8. r \in Readings
    BY <2>4, <2>5, <2>7 DEF ReadFrom
  <2> QED BY <2>8 DEF r
<1> QED BY <1>2, <1>3

\* Neither looks at more than what is left.
LEMMA PlanByShorter ==
  ASSUME NEW s \in Seq(Token), NEW g, NEW h,
         \A t \in Seq(Token) : Len(t) < Len(s) => g[t] = h[t]
  PROVE  PlanBy(s, g) = PlanBy(s, h)
<1>1. CASE s = <<>>
  BY <1>1 DEF PlanBy
<1>2. CASE s # <<>>
  <2> DEFINE rest == Tail(s)
  <2>1. rest \in Seq(Token) /\ Len(rest) < Len(s) /\ g[rest] = h[rest]
    BY <1>2, ConsOf
  <2>2. rest # <<>> => g[Tail(rest)] = h[Tail(rest)]
    <3> SUFFICES ASSUME rest # <<>> PROVE g[Tail(rest)] = h[Tail(rest)]
      OBVIOUS
    <3>1. Tail(rest) \in Seq(Token) /\ Len(Tail(rest)) < Len(rest)
      BY <2>1, ConsOf
    <3>2. Len(Tail(rest)) < Len(s)
      BY <2>1, <3>1, LenProperties
    <3> QED BY <3>1, <3>2
  <2> QED BY <1>2, <2>1, <2>2 DEF PlanBy, IsName, IsValue
<1> QED BY <1>1, <1>2

LEMMA ReadByShorter ==
  ASSUME NEW s \in Seq(Token), NEW g, NEW h,
         \A t \in Seq(Token) : Len(t) < Len(s) => g[t] = h[t]
  PROVE  ReadBy(s, g) = ReadBy(s, h)
<1>1. CASE s = <<>>
  BY <1>1 DEF ReadBy
<1>2. CASE s # <<>>
  <2> DEFINE rest == Tail(s)
  <2>1. rest \in Seq(Token) /\ Len(rest) < Len(s) /\ g[rest] = h[rest]
    BY <1>2, ConsOf
  <2>2. rest # <<>> => g[Tail(rest)] = h[Tail(rest)]
    <3> SUFFICES ASSUME rest # <<>> PROVE g[Tail(rest)] = h[Tail(rest)]
      OBVIOUS
    <3>1. Tail(rest) \in Seq(Token) /\ Len(Tail(rest)) < Len(rest)
      BY <2>1, ConsOf
    <3>2. Len(Tail(rest)) < Len(s)
      BY <2>1, <3>1, LenProperties
    <3> QED BY <3>1, <3>2
  <2>3. TakesNext(Head(s), rest) => rest # <<>>
    BY DEF TakesNext
  <2> QED BY <1>2, <2>1, <2>2, <2>3 DEF ReadBy
<1> QED BY <1>1, <1>2

LEMMA OptionsThenPromptIs ==
  /\ OptionsThenPrompt \in [Seq(Token) -> Plans]
  /\ \A argv \in Seq(Token) : OptionsThenPrompt[argv] = PlanBy(argv, OptionsThenPrompt)
<1> DEFINE F == [Seq(Token) -> Plans]
           G == [x \in Seq(Token) \X F |-> PlanBy(x[1], x[2])]
<1>1. G \in [Seq(Token) \X F -> Plans] /\ \A s \in Seq(Token), f \in F : G[<<s, f>>] = PlanBy(s, f)
  BY PlanByTyped
<1> HIDE DEF G
<1>2. \A s \in Seq(Token), g \in F, h \in F :
        (\A t \in Seq(Token) : Len(t) < Len(s) => g[t] = h[t]) => G[<<s, g>>] = G[<<s, h>>]
  <2> SUFFICES ASSUME NEW s \in Seq(Token), NEW g \in F, NEW h \in F,
                      \A t \in Seq(Token) : Len(t) < Len(s) => g[t] = h[t]
               PROVE  G[<<s, g>>] = G[<<s, h>>]
    OBVIOUS
  <2>1. PlanBy(s, g) = PlanBy(s, h)
    BY PlanByShorter
  <2> QED BY <1>1, <2>1
<1>3. Plans # {}
  <2>1. Refused \in Plans
    BY EmptySeq DEF Refused, Plans
  <2> QED BY <2>1
<1>4. ByShorter(Token, Plans, G)
  BY <1>1, <1>2, <1>3 DEF ByShorter
<1>5. IsDefined(Token, Plans, G)
  BY <1>4, RecursionOverSeq
<1>6. PICK f \in F : \A s \in Seq(Token) : f[s] = PlanBy(s, f)
  BY <1>1, <1>5 DEF IsDefined
<1>7. f = [argv \in Seq(Token) |-> PlanBy(argv, f)]
  BY <1>6
<1>8. OptionsThenPrompt = CHOOSE p : p = [argv \in Seq(Token) |-> PlanBy(argv, p)]
  BY DEF OptionsThenPrompt, PlanBy
<1>9. OptionsThenPrompt = [argv \in Seq(Token) |-> PlanBy(argv, OptionsThenPrompt)]
  BY <1>7, <1>8
<1>10. \A s \in Seq(Token) : OptionsThenPrompt[s] = PlanBy(s, OptionsThenPrompt)
  BY <1>9
<1> DEFINE Z == {s \in Seq(Token) : OptionsThenPrompt[s] = f[s]}
<1>11. ASSUME NEW s \in Seq(Token), \A t \in Seq(Token) : Len(t) < Len(s) => t \in Z
       PROVE  s \in Z
  <2>1. \A t \in Seq(Token) : Len(t) < Len(s) => OptionsThenPrompt[t] = f[t]
    BY <1>11
  <2>2. PlanBy(s, OptionsThenPrompt) = PlanBy(s, f)
    BY <2>1, PlanByShorter
  <2> QED BY <1>6, <1>10, <2>2
<1>12. Seq(Token) \subseteq Z
  <2> HIDE DEF Z
  <2> QED BY <1>11, InductionOverSeq
<1>13. \A s \in Seq(Token) : OptionsThenPrompt[s] = f[s]
  BY <1>12
<1>14. OptionsThenPrompt = f
  BY <1>9, <1>13
<1> QED BY <1>10, <1>14

LEMMA ReadsIs ==
  /\ Reads \in [Seq(Token) -> Readings]
  /\ \A argv \in Seq(Token) : Reads[argv] = ReadBy(argv, Reads)
<1> DEFINE F == [Seq(Token) -> Readings]
           G == [x \in Seq(Token) \X F |-> ReadBy(x[1], x[2])]
<1>1. G \in [Seq(Token) \X F -> Readings] /\ \A s \in Seq(Token), f \in F : G[<<s, f>>] = ReadBy(s, f)
  BY ReadByTyped
<1> HIDE DEF G
<1>2. \A s \in Seq(Token), g \in F, h \in F :
        (\A t \in Seq(Token) : Len(t) < Len(s) => g[t] = h[t]) => G[<<s, g>>] = G[<<s, h>>]
  <2> SUFFICES ASSUME NEW s \in Seq(Token), NEW g \in F, NEW h \in F,
                      \A t \in Seq(Token) : Len(t) < Len(s) => g[t] = h[t]
               PROVE  G[<<s, g>>] = G[<<s, h>>]
    OBVIOUS
  <2>1. ReadBy(s, g) = ReadBy(s, h)
    BY ReadByShorter
  <2> QED BY <1>1, <2>1
<1>3. Readings # {}
  <2>1. Reading(<<>>, <<>>) \in Readings
    BY EmptySeq DEF Reading, Readings
  <2> QED BY <2>1
<1>4. ByShorter(Token, Readings, G)
  BY <1>1, <1>2, <1>3 DEF ByShorter
<1>5. IsDefined(Token, Readings, G)
  BY <1>4, RecursionOverSeq
<1>6. PICK f \in F : \A s \in Seq(Token) : f[s] = ReadBy(s, f)
  BY <1>1, <1>5 DEF IsDefined
<1>7. f = [argv \in Seq(Token) |-> ReadBy(argv, f)]
  BY <1>6
<1>8. Reads = CHOOSE p : p = [argv \in Seq(Token) |-> ReadBy(argv, p)]
  BY DEF Reads, ReadBy
<1>9. Reads = [argv \in Seq(Token) |-> ReadBy(argv, Reads)]
  BY <1>7, <1>8
<1>10. \A s \in Seq(Token) : Reads[s] = ReadBy(s, Reads)
  BY <1>9
<1> DEFINE Z == {s \in Seq(Token) : Reads[s] = f[s]}
<1>11. ASSUME NEW s \in Seq(Token), \A t \in Seq(Token) : Len(t) < Len(s) => t \in Z
       PROVE  s \in Z
  <2>1. \A t \in Seq(Token) : Len(t) < Len(s) => Reads[t] = f[t]
    BY <1>11
  <2>2. ReadBy(s, Reads) = ReadBy(s, f)
    BY <2>1, ReadByShorter
  <2> QED BY <1>6, <1>10, <2>2
<1>12. Seq(Token) \subseteq Z
  <2> HIDE DEF Z
  <2> QED BY <1>11, InductionOverSeq
<1>13. \A s \in Seq(Token) : Reads[s] = f[s]
  BY <1>12
<1>14. Reads = f
  BY <1>9, <1>13
<1> QED BY <1>10, <1>14

\* What Cursor reads, token by token.
LEMMA ReadsStep ==
  /\ Reads[<<>>] = Reading(<<>>, <<>>)
  /\ \A t \in Token, s \in Seq(Token) : Cons(t, s) \in Seq(Token) /\ ReadFrom(t, s, Reads, Reads[Cons(t, s)])
  /\ \A s \in Seq(Token) : Reads[s] \in Readings
<1>1. Reads[<<>>] = Reading(<<>>, <<>>)
  BY ReadsIs, EmptySeq DEF ReadBy
<1>2. ASSUME NEW t \in Token, NEW s \in Seq(Token)
      PROVE  Cons(t, s) \in Seq(Token) /\ ReadFrom(t, s, Reads, Reads[Cons(t, s)])
  <2>1. Cons(t, s) \in Seq(Token)
    BY ConsIs
  <2>2. Reads[Cons(t, s)] = ReadBy(Cons(t, s), Reads)
    BY <2>1, ReadsIs
  <2> QED BY <2>1, <2>2, ReadByIs
<1> QED BY <1>1, <1>2, ReadsIs

LEMMA PlanStep ==
  /\ OptionsThenPrompt[<<>>] = Prompt(<<>>)
  /\ \A t \in Token, s \in Seq(Token) :
       PlannedFrom(t, s, OptionsThenPrompt, OptionsThenPrompt[Cons(t, s)])
  /\ \A s \in Seq(Token) : OptionsThenPrompt[s] \in Plans
<1>1. OptionsThenPrompt[<<>>] = Prompt(<<>>)
  BY OptionsThenPromptIs, EmptySeq DEF PlanBy
<1>2. ASSUME NEW t \in Token, NEW s \in Seq(Token)
      PROVE  PlannedFrom(t, s, OptionsThenPrompt, OptionsThenPrompt[Cons(t, s)])
  <2>1. Cons(t, s) \in Seq(Token)
    BY ConsIs
  <2>2. OptionsThenPrompt[Cons(t, s)] = PlanBy(Cons(t, s), OptionsThenPrompt)
    BY <2>1, OptionsThenPromptIs
  <2> QED BY <2>2, PlanByIs
<1> QED BY <1>1, <1>2, OptionsThenPromptIs

LEMMA ReadingIs ==
  ASSUME NEW a, NEW b
  PROVE  Reading(a, b).options = a /\ Reading(a, b).operands = b
BY DEF Reading

\* How Cursor reads what is no option.
LEMMA ReadsPlain ==
  ASSUME NEW t \in Token, NEW s \in Seq(Token)
  PROVE  /\ t = "--" => Reads[Cons(t, s)].options = <<>> /\ Reads[Cons(t, s)].operands = s
         /\ t \in Words \cup {"-"} =>
              Reads[Cons(t, s)].options = <<>> /\ Reads[Cons(t, s)].operands = Cons(t, s)
<1>1. ReadFrom(t, s, Reads, Reads[Cons(t, s)])
  BY ReadsStep
<1> QED BY <1>1 DEF ReadFrom, Reading

\* How Cursor reads an option, with the token behind it and without.
LEMMA ReadsOption ==
  ASSUME NEW t \in Option, NEW s \in Seq(Token)
  PROVE  /\ TakesNext(t, s) => /\ Head(s) \in Token /\ Tail(s) \in Seq(Token)
                               /\ Reads[Cons(t, s)].options = Cons(<<t, Head(s)>>, Reads[Tail(s)].options)
                               /\ Reads[Cons(t, s)].operands = Reads[Tail(s)].operands
         /\ ~TakesNext(t, s) => /\ Reads[Cons(t, s)].options = Cons(<<t, NoValue>>, Reads[s].options)
                                /\ Reads[Cons(t, s)].operands = Reads[s].operands
<1>1. t \in Token
  BY TokenIs
<1>2. ReadFrom(t, s, Reads, Reads[Cons(t, s)])
  BY <1>1, ReadsStep
<1>3. CASE TakesNext(t, s)
  <2>1. Head(s) \in Token /\ Tail(s) \in Seq(Token)
    BY <1>3, ConsOf DEF TakesNext
  <2>2. Reads[Cons(t, s)] = With(t, Head(s), Reads[Tail(s)])
    BY <1>2, <1>3 DEF ReadFrom
  <2> QED BY <1>3, <2>1, <2>2 DEF With, Reading, Cons
<1>4. CASE ~TakesNext(t, s)
  <2>1. Reads[Cons(t, s)] = With(t, NoValue, Reads[s])
    BY <1>2, <1>4 DEF ReadFrom
  <2> QED BY <1>4, <2>1 DEF With, Reading, Cons
<1> QED BY <1>3, <1>4

LEMMA TokensConcat ==
  \A t \in Token, s \in Seq(Token), u \in Seq(Token) : Cons(t, s) \o u = Cons(t, s \o u)
BY ConsConcat

\* What the planner adds, as Cursor reads it.
Printing == <<<<"--print", NoValue>>, <<"--output-format", "stream-json">>>>
OptionSeq == Seq(Token \X (Token \cup {NoValue}))

LEMMA PlannerTokens ==
  /\ "--print" \in Option /\ "--output-format" \in Option
  /\ "--print" \in Token /\ "--output-format" \in Token /\ "stream-json" \in Token
  /\ "agent" \in Token /\ "--" \in Token
  /\ "agent" \in Words
  /\ "--print" \notin OptionalOptions \cup ValueOptions \cup {"--output-format"}
  /\ \A t \in Option : StartsWithDash(t)
BY DEF Token, Option, Words, GlobalOptions, Switches, ValueOptions, OptionalOptions, Filled, Vacant, Attached,
       Reserved, EarlyExit, Unlisted, StartsWithDash

Four(a, b, c, d) == <<a, b, c, d>>

LEMMA TuplesAre ==
  ASSUME NEW a, NEW b
  PROVE  <<a>> = Cons(a, <<>>) /\ <<a, b>> = Cons(a, <<b>>)
<1> DEFINE S == {a, b}
<1>0. a \in S /\ b \in S
  OBVIOUS
<1> HIDE DEF S
<1>1. <<a>> \in Seq(S) /\ <<b>> \in Seq(S)
  BY <1>0
<1>2. <<a>> = Cons(a, <<>>)
  BY <1>1, ConcatEmptySeq DEF Cons
<1>3. ASSUME NEW x \in S, NEW y \in S PROVE <<x, y>> = Cons(x, <<y>>)
  <2> DEFINE l == <<x, y>>
             r == <<x>> \o <<y>>
  <2>1. <<x>> \in Seq(S) /\ Len(<<x>>) = 1 /\ <<y>> \in Seq(S) /\ Len(<<y>>) = 1 /\ <<x>>[1] = x /\ <<y>>[1] = y
    OBVIOUS
  <2>2. r \in Seq(S) /\ Len(r) = 2 /\ r[1] = x /\ r[2] = y
    BY <2>1, ConcatProperties
  <2>3. l \in Seq(S) /\ Len(l) = 2 /\ l[1] = x /\ l[2] = y
    OBVIOUS
  <2> HIDE DEF l, r
  <2>4. l = r
    BY <2>2, <2>3, SeqEqual
  <2> QED BY <2>4 DEF l, r, Cons
<1> QED BY <1>0, <1>2, <1>3

LEMMA FourIs ==
  ASSUME NEW a, NEW b, NEW c, NEW d
  PROVE  Four(a, b, c, d) = Cons(a, Cons(b, Cons(c, Cons(d, <<>>))))
<1> DEFINE S == {a, b, c, d}
<1>0. a \in S /\ b \in S /\ c \in S /\ d \in S
  OBVIOUS
<1> HIDE DEF S
<1>1. <<a>> \in Seq(S) /\ <<b>> \in Seq(S) /\ <<c>> \in Seq(S) /\ <<d>> \in Seq(S)
  BY <1>0
<1>4. Four(a, b, c, d) = Cons(a, Cons(b, Cons(c, Cons(d, <<>>))))
  <2> DEFINE l == <<a, b, c, d>>
             m == <<b>> \o <<c, d>>
             r == <<a>> \o m
  <2>1. <<c, d>> \in Seq(S) /\ Len(<<c, d>>) = 2 /\ <<c, d>>[1] = c /\ <<c, d>>[2] = d
    BY <1>0
  <2>2. Len(<<a>>) = 1 /\ <<a>>[1] = a /\ Len(<<b>>) = 1 /\ <<b>>[1] = b
    OBVIOUS
  <2>3. m \in Seq(S) /\ Len(m) = 3 /\ m[1] = b /\ m[2] = c /\ m[3] = d
    BY <1>1, <2>1, <2>2, ConcatProperties
  <2> HIDE DEF m
  <2>4. r \in Seq(S) /\ Len(r) = 4 /\ r[1] = a /\ r[2] = b /\ r[3] = c /\ r[4] = d
    <3> DEFINE k == <<a>>
    <3>0. k \in Seq(S) /\ Len(k) = 1 /\ m \in Seq(S) /\ Len(m) = 3
      BY <1>1, <2>2, <2>3
    <3> HIDE DEF k
    <3>3. /\ k \o m \in Seq(S) /\ Len(k \o m) = Len(k) + Len(m)
          /\ \A i \in 1 .. Len(k) + Len(m) : (k \o m)[i] = IF i <= Len(k) THEN k[i] ELSE m[i - Len(k)]
      BY <3>0, ConcatProperties
    <3>1. /\ r \in Seq(S) /\ Len(r) = 4
          /\ \A i \in 1 .. 4 : r[i] = IF i <= 1 THEN <<a>>[i] ELSE m[i - 1]
      BY <3>0, <3>3 DEF k
    <3> HIDE DEF r
    <3>2. r[1] = <<a>>[1] /\ r[2] = m[1] /\ r[3] = m[2] /\ r[4] = m[3]
      BY <3>1
    <3> QED BY <2>2, <2>3, <3>1, <3>2
  <2>5. l \in Seq(S) /\ Len(l) = 4 /\ l[1] = a /\ l[2] = b /\ l[3] = c /\ l[4] = d
    BY <1>0
  <2> HIDE DEF l, r
  <2>6. l = r
    BY <2>4, <2>5, SeqEqual
  <2>7. <<c, d>> = Cons(c, <<d>>)
    BY TuplesAre
  <2>8. <<d>> = Cons(d, <<>>)
    BY TuplesAre
  <2> QED BY <2>6, <2>7, <2>8 DEF l, r, m, Cons, Four
<1> QED BY <1>4

LEMMA StructuredIs ==
  ASSUME NEW x \in Seq(Token)
  PROVE  StructuredStdout \o x = Cons("--print", Cons("--output-format", Cons("stream-json", Cons("agent", x))))
<1> DEFINE d1 == Cons("agent", <<>>)
           d2 == Cons("stream-json", d1)
           d3 == Cons("--output-format", d2)
<1>1. StructuredStdout = Cons("--print", d3)
  <2>1. Four("--print", "--output-format", "stream-json", "agent") =
          Cons("--print", Cons("--output-format", Cons("stream-json", d1)))
    BY FourIs
  <2>2. StructuredStdout = Four("--print", "--output-format", "stream-json", "agent")
    BY DEF StructuredStdout, Four
  <2> HIDE DEF d1
  <2> QED BY <2>1, <2>2
<1>2. d1 \in Seq(Token) /\ d1 \o x = Cons("agent", x)
  <2>1. <<>> \in Seq(Token) /\ <<>> \o x = x
    BY ConcatEmptySeq, EmptySeq
  <2>2. "agent" \in Token
    BY PlannerTokens
  <2>3. d1 \o x = Cons("agent", <<>> \o x)
    BY <2>1, <2>2, TokensConcat
  <2> QED BY <2>1, <2>2, <2>3, ConsIs
<1> HIDE DEF d1
<1>3. d2 \in Seq(Token) /\ d2 \o x = Cons("stream-json", d1 \o x)
  <2>1. "stream-json" \in Token
    BY PlannerTokens
  <2>2. d2 \o x = Cons("stream-json", d1 \o x)
    BY <1>2, <2>1, TokensConcat
  <2> QED BY <1>2, <2>1, <2>2, ConsIs
<1> HIDE DEF d2
<1>4. d3 \in Seq(Token) /\ d3 \o x = Cons("--output-format", d2 \o x)
  <2>1. "--output-format" \in Token
    BY PlannerTokens
  <2>2. d3 \o x = Cons("--output-format", d2 \o x)
    BY <1>3, <2>1, TokensConcat
  <2> QED BY <1>3, <2>1, <2>2, ConsIs
<1> HIDE DEF d3
<1>5. Cons("--print", d3) \o x = Cons("--print", d3 \o x)
  <2>1. "--print" \in Token
    BY PlannerTokens
  <2> QED BY <1>4, <2>1, TokensConcat
<1> QED BY <1>1, <1>2, <1>3, <1>4, <1>5

LEMMA ReadsStructured ==
  ASSUME NEW x \in Seq(Token)
  PROVE  /\ StructuredStdout \o x \in Seq(Token) /\ StructuredStdout \o x # <<>>
         /\ Head(StructuredStdout \o x) = "--print"
         /\ Reads[StructuredStdout \o x].options = Printing
         /\ Reads[StructuredStdout \o x].operands = Cons("agent", x)
<1> DEFINE c1 == Cons("agent", x)
           c2 == Cons("stream-json", c1)
           c3 == Cons("--output-format", c2)
           c4 == Cons("--print", c3)
<1>1. c1 \in Seq(Token) /\ Reads[c1].options = <<>> /\ Reads[c1].operands = c1
  BY PlannerTokens, ReadsPlain, ConsIs
<1> HIDE DEF c1
<1>2. c2 \in Seq(Token) /\ c2 # <<>> /\ Head(c2) = "stream-json" /\ Tail(c2) = c1
  BY <1>1, PlannerTokens, ConsIs
<1> HIDE DEF c2
<1>3. /\ c3 \in Seq(Token) /\ Reads[c3].options = Cons(<<"--output-format", "stream-json">>, <<>>)
      /\ Reads[c3].operands = c1
  <2>1. TakesNext("--output-format", c2)
    BY <1>2 DEF TakesNext
  <2>2. /\ Reads[c3].options = Cons(<<"--output-format", Head(c2)>>, Reads[Tail(c2)].options)
        /\ Reads[c3].operands = Reads[Tail(c2)].operands
    BY <1>2, <2>1, PlannerTokens, ReadsOption
  <2>3. c3 \in Seq(Token)
    BY <1>2, PlannerTokens, ConsIs
  <2> HIDE DEF c3
  <2> QED BY <1>1, <1>2, <2>2, <2>3
<1> HIDE DEF c3
<1>4. /\ c4 \in Seq(Token) /\ c4 # <<>> /\ Head(c4) = "--print" /\ Reads[c4].operands = c1
      /\ Reads[c4].options = Cons(<<"--print", NoValue>>, Cons(<<"--output-format", "stream-json">>, <<>>))
  <2>1. ~TakesNext("--print", c3)
    BY PlannerTokens DEF TakesNext
  <2>2. Reads[c4].options = Cons(<<"--print", NoValue>>, Reads[c3].options) /\ Reads[c4].operands = Reads[c3].operands
    BY <1>3, <2>1, PlannerTokens, ReadsOption
  <2>3. c4 \in Seq(Token) /\ c4 # <<>> /\ Head(c4) = "--print"
    BY <1>3, PlannerTokens, ConsIs
  <2> HIDE DEF c4
  <2> QED BY <1>3, <2>2, <2>3
<1>5. c4 = StructuredStdout \o x
  BY StructuredIs DEF c1, c2, c3
<1>6. Cons(<<"--print", NoValue>>, Cons(<<"--output-format", "stream-json">>, <<>>)) = Printing
  <2> DEFINE p == <<"--print", NoValue>>
             q == <<"--output-format", "stream-json">>
  <2>1. Printing = <<p, q>>
    BY DEF Printing
  <2> HIDE DEF p, q
  <2>2. <<p, q>> = Cons(p, <<q>>) /\ <<q>> = Cons(q, <<>>)
    BY TuplesAre
  <2> QED BY <2>1, <2>2 DEF p, q
<1> HIDE DEF c4
<1> QED BY <1>4, <1>5, <1>6 DEF c1

\* The planner and Cursor take a command line the same way, and what the planner adds
\* behind the options Cursor reads behind them.
Agrees(argv, plan) ==
  /\ plan.options \in Seq(Token) /\ plan.prompt \in Seq(Token)
  /\ plan.prompt = Reads[argv].operands
  /\ plan.options # <<>> => StartsWithDash(Head(plan.options))
  /\ \A x \in Seq(Token) :
       /\ Reads[plan.options \o (StructuredStdout \o x)].options = Reads[argv].options \o Printing
       /\ Reads[plan.options \o (StructuredStdout \o x)].operands = Cons("agent", x)

LEMMA NoOptionAgrees ==
  ASSUME NEW argv \in Seq(Token), NEW prompt \in Seq(Token),
         Reads[argv].options = <<>>, Reads[argv].operands = prompt
  PROVE  Agrees(argv, Prompt(prompt))
<1>1. ASSUME NEW x \in Seq(Token)
      PROVE  /\ Reads[<<>> \o (StructuredStdout \o x)].options = <<>> \o Printing
             /\ Reads[<<>> \o (StructuredStdout \o x)].operands = Cons("agent", x)
  <2>1. /\ StructuredStdout \o x \in Seq(Token)
        /\ Reads[StructuredStdout \o x].options = Printing
        /\ Reads[StructuredStdout \o x].operands = Cons("agent", x)
    BY ReadsStructured
  <2>2. <<>> \o (StructuredStdout \o x) = StructuredStdout \o x
    BY <2>1, ConcatEmptySeq
  <2>3. <<>> \o Printing = Printing
    BY DEF Printing
  <2> QED BY <2>1, <2>2, <2>3
<1> QED BY <1>1, EmptySeq DEF Agrees, Prompt

LEMMA PrintingIs == Printing \in OptionSeq
<1> DEFINE p == <<"--print", NoValue>>
           q == <<"--output-format", "stream-json">>
<1>1. p \in Token \X (Token \cup {NoValue}) /\ q \in Token \X (Token \cup {NoValue}) /\ Printing = <<p, q>>
  BY PlannerTokens DEF Printing
<1> HIDE DEF p, q
<1> QED BY <1>1 DEF OptionSeq

LEMMA OptionsConcat ==
  ASSUME NEW p \in Token \X (Token \cup {NoValue}), NEW options \in OptionSeq
  PROVE  Cons(p, options) \o Printing = Cons(p, options \o Printing)
<1> DEFINE V == Token \X (Token \cup {NoValue})
<1>1. p \in V /\ options \in Seq(V) /\ Printing \in Seq(V)
  BY PrintingIs DEF OptionSeq
<1> HIDE DEF V
<1> QED BY <1>1, ConsConcat

\* An option, its value in it or none, is an option to both.
LEMMA FlagAgrees ==
  ASSUME NEW t \in Option, NEW rest \in Seq(Token), NEW plan \in Plans, Agrees(rest, plan),
         t \notin ValueOptions \cup {"--output-format"}, t \in OptionalOptions => ~IsName(rest)
  PROVE  Agrees(Cons(t, rest), After(<<t>>, plan))
<1> DEFINE o == plan.options
           p == After(<<t>>, plan)
           R == Reads[rest].options
           C == Reads[Cons(t, rest)]
<1>1. t \in Token /\ o \in Seq(Token) /\ plan.prompt \in Seq(Token) /\ R \in OptionSeq
  BY TokenIs, ReadsStep DEF Plans, Readings, OptionSeq
<1>2. p.options = Cons(t, o) /\ p.prompt = plan.prompt
  BY DEF After, Cons
<1>3. C.options = Cons(<<t, NoValue>>, R) /\ C.operands = Reads[rest].operands
  <2>1. ~TakesNext(t, rest)
    BY DEF TakesNext, IsName
  <2> QED BY <2>1, ReadsOption
<1>4. Cons(t, o) \in Seq(Token) /\ Cons(t, o) # <<>> /\ Head(Cons(t, o)) = t /\ StartsWithDash(t)
  BY <1>1, ConsIs, PlannerTokens
<1>5. ASSUME NEW x \in Seq(Token)
      PROVE  /\ Reads[Cons(t, o) \o (StructuredStdout \o x)].options = Cons(<<t, NoValue>>, R) \o Printing
             /\ Reads[Cons(t, o) \o (StructuredStdout \o x)].operands = Cons("agent", x)
  <2> DEFINE y == StructuredStdout \o x
  <2>1. y \in Seq(Token) /\ y # <<>> /\ Head(y) = "--print"
    BY ReadsStructured
  <2>2. Reads[o \o y].options = R \o Printing /\ Reads[o \o y].operands = Cons("agent", x)
    BY DEF Agrees
  <2> HIDE DEF y, o, R
  <2>3. o \o y \in Seq(Token) /\ Cons(t, o) \o y = Cons(t, o \o y)
    <3>1. o \in Seq(Token) /\ t \in Token /\ y \in Seq(Token)
      BY <1>1, <2>1
    <3>2. o \o y \in Seq(Token)
      BY <3>1, ConcatProperties
    <3> QED BY <3>1, <3>2, TokensConcat
  <2>4. StartsWithDash(Head(o \o y))
    <3>1. CASE o = <<>>
      <4>1. o \o y = y
        BY <2>1, <3>1, ConcatEmptySeq
      <4> QED BY <2>1, <4>1, PlannerTokens
    <3>2. CASE o # <<>>
      <4>1. Head(o) \in Token /\ Tail(o) \in Seq(Token) /\ o = Cons(Head(o), Tail(o))
        BY <1>1, <3>2, ConsOf
      <4> DEFINE h == Head(o)
                 u == Tail(o)
      <4>2. h \in Token /\ u \in Seq(Token) /\ o = Cons(h, u)
        BY <4>1
      <4> HIDE DEF h, u
      <4>3. o \o y = Cons(h, u \o y) /\ u \o y \in Seq(Token)
        <5>1. y \in Seq(Token)
          BY <2>1
        <5>2. u \o y \in Seq(Token)
          BY <4>2, <5>1, ConcatProperties
        <5> QED BY <4>2, <5>1, <5>2, TokensConcat
      <4>4. Head(o \o y) = h
        BY <4>2, <4>3, ConsIs
      <4> QED BY <3>2, <4>4 DEF Agrees, h, o
    <3> QED BY <3>1, <3>2
  <2>5. ~TakesNext(t, o \o y)
    BY <2>4 DEF TakesNext
  <2>6. /\ Reads[Cons(t, o \o y)].options = Cons(<<t, NoValue>>, Reads[o \o y].options)
        /\ Reads[Cons(t, o \o y)].operands = Reads[o \o y].operands
    BY <2>3, <2>5, ReadsOption
  <2>7. Cons(<<t, NoValue>>, R) \o Printing = Cons(<<t, NoValue>>, R \o Printing)
    BY <1>1, OptionsConcat
  <2> QED BY <2>2, <2>3, <2>6, <2>7 DEF y
<1>6. p.prompt = C.operands /\ p.prompt \in Seq(Token)
  BY <1>1, <1>2, <1>3 DEF Agrees
<1> HIDE DEF o, p, R
<1> QED BY <1>2, <1>3, <1>4, <1>5, <1>6 DEF Agrees, p

\* So are an option and the value behind it.
LEMMA PairAgrees ==
  ASSUME NEW t \in Option, NEW h \in Token, NEW rest \in Seq(Token), NEW plan \in Plans, Agrees(rest, plan),
         t \in ValueOptions \/ (t \in OptionalOptions /\ ~StartsWithDash(h))
  PROVE  Agrees(Cons(t, Cons(h, rest)), After(<<t, h>>, plan))
<1> DEFINE o == plan.options
           p == After(<<t, h>>, plan)
           R == Reads[rest].options
           C == Reads[Cons(t, Cons(h, rest))]
<1>1. t \in Token /\ o \in Seq(Token) /\ plan.prompt \in Seq(Token) /\ R \in OptionSeq
  BY TokenIs, ReadsStep DEF Plans, Readings, OptionSeq
<1>2. p.options = Cons(t, Cons(h, o)) /\ p.prompt = plan.prompt
  <2>1. p.options = <<t, h>> \o o /\ p.prompt = plan.prompt
    BY DEF After
  <2>2. <<t, h>> = Cons(t, <<h>>)
    BY TuplesAre
  <2>3. <<h>> \in Seq(Token) /\ <<h>> \o o = Cons(h, o)
    BY DEF Cons
  <2> HIDE DEF o, p
  <2>4. Cons(t, <<h>>) \o o = Cons(t, <<h>> \o o)
    BY <1>1, <2>3, TokensConcat
  <2> QED BY <2>1, <2>2, <2>3, <2>4
<1>3. ASSUME NEW s \in Seq(Token)
      PROVE  /\ Cons(t, Cons(h, s)) \in Seq(Token)
             /\ Reads[Cons(t, Cons(h, s))].options = Cons(<<t, h>>, Reads[s].options)
             /\ Reads[Cons(t, Cons(h, s))].operands = Reads[s].operands
  <2> DEFINE c == Cons(h, s)
  <2>1. c \in Seq(Token) /\ c # <<>> /\ Head(c) = h /\ Tail(c) = s
    BY ConsIs
  <2> HIDE DEF c
  <2>2. TakesNext(t, c) /\ Cons(t, c) \in Seq(Token)
    BY <1>1, <2>1, ConsIs DEF TakesNext
  <2>3. /\ Reads[Cons(t, c)].options = Cons(<<t, Head(c)>>, Reads[Tail(c)].options)
        /\ Reads[Cons(t, c)].operands = Reads[Tail(c)].operands
    BY <2>1, <2>2, ReadsOption
  <2> QED BY <2>1, <2>2, <2>3 DEF c
<1>4. C.options = Cons(<<t, h>>, R) /\ C.operands = Reads[rest].operands
  BY <1>3
<1>5. /\ Cons(t, Cons(h, o)) \in Seq(Token) /\ Cons(t, Cons(h, o)) # <<>>
      /\ Head(Cons(t, Cons(h, o))) = t /\ StartsWithDash(t) /\ Cons(h, o) \in Seq(Token)
  <2> DEFINE c == Cons(h, o)
  <2>1. c \in Seq(Token)
    BY <1>1, ConsIs
  <2> HIDE DEF c
  <2>2. Cons(t, c) \in Seq(Token) /\ Cons(t, c) # <<>> /\ Head(Cons(t, c)) = t
    BY <1>1, <2>1, ConsIs
  <2> QED BY <2>1, <2>2, PlannerTokens DEF c
<1>6. ASSUME NEW x \in Seq(Token)
      PROVE  /\ Reads[Cons(t, Cons(h, o)) \o (StructuredStdout \o x)].options = Cons(<<t, h>>, R) \o Printing
             /\ Reads[Cons(t, Cons(h, o)) \o (StructuredStdout \o x)].operands = Cons("agent", x)
  <2> DEFINE y == StructuredStdout \o x
  <2>1. y \in Seq(Token)
    BY ReadsStructured
  <2>2. Reads[o \o y].options = R \o Printing /\ Reads[o \o y].operands = Cons("agent", x)
    BY DEF Agrees
  <2> HIDE DEF y, o, R
  <2>3. o \o y \in Seq(Token) /\ Cons(t, Cons(h, o)) \o y = Cons(t, Cons(h, o \o y))
    <3>1. o \in Seq(Token) /\ t \in Token /\ Cons(h, o) \in Seq(Token)
      BY <1>1, <1>5
    <3>2. o \o y \in Seq(Token)
      BY <2>1, <3>1, ConcatProperties
    <3>3. Cons(h, o) \o y = Cons(h, o \o y)
      BY <2>1, <3>1, TokensConcat
    <3>4. Cons(t, Cons(h, o)) \o y = Cons(t, Cons(h, o) \o y)
      BY <2>1, <3>1, TokensConcat
    <3> QED BY <3>2, <3>3, <3>4
  <2>4. Cons(<<t, h>>, R) \o Printing = Cons(<<t, h>>, R \o Printing)
    BY <1>1, OptionsConcat
  <2> QED BY <1>3, <2>2, <2>3, <2>4 DEF y
<1>7. p.prompt = C.operands /\ p.prompt \in Seq(Token)
  BY <1>1, <1>2, <1>4 DEF Agrees
<1> HIDE DEF o, p, R
<1> QED BY <1>2, <1>4, <1>5, <1>6, <1>7 DEF Agrees, p

\* Where the planner accepts a command line, it agrees with Cursor about it.
LEMMA PlansAgree ==
  ASSUME NEW argv \in Seq(Token), ~OptionsThenPrompt[argv].refused
  PROVE  Agrees(argv, OptionsThenPrompt[argv])
<1> DEFINE P == OptionsThenPrompt
           Good(s) == ~P[s].refused => Agrees(s, P[s])
           Z == {s \in Seq(Token) : Good(s)}
<1>1. ASSUME NEW s \in Seq(Token), \A u \in Seq(Token) : Len(u) < Len(s) => u \in Z
      PROVE  s \in Z
  <2>1. SUFFICES ASSUME ~P[s].refused PROVE Agrees(s, P[s])
    OBVIOUS
  <2>2. CASE s = <<>>
    <3>1. Reads[s].options = <<>> /\ Reads[s].operands = <<>>
      BY <2>2, ReadsStep, ReadingIs
    <3>2. <<>> \in Seq(Token) /\ P[s] = Prompt(<<>>)
      BY <2>2, EmptySeq, PlanStep
    <3> QED BY <3>1, <3>2, NoOptionAgrees
  <2>3. CASE s # <<>>
    <3> DEFINE t == Head(s)
               rest == Tail(s)
    <3>1. t \in Token /\ rest \in Seq(Token) /\ Len(rest) < Len(s) /\ s = Cons(t, rest)
      BY <2>3, ConsOf
    <3> HIDE DEF t, rest
    <3>2. PlannedFrom(t, rest, P, P[s])
      BY <3>1, PlanStep
    <3>3. Good(rest) /\ P[rest] \in Plans
      BY <1>1, <3>1, PlanStep
    <3> HIDE DEF P
    <3>4. CASE t = "--"
      <4>1. P[s] = Prompt(rest)
        BY <3>2, <3>4 DEF PlannedFrom
      <4>2. Reads[s].options = <<>> /\ Reads[s].operands = rest
        BY <3>1, <3>4, ReadsPlain
      <4> QED BY <3>1, <4>1, <4>2, NoOptionAgrees
    <3>5. CASE t \in Words \cup {"-"}
      <4>1. P[s] = Prompt(s)
        BY <3>1, <3>2, <3>5 DEF PlannedFrom
      <4>2. Reads[s].options = <<>> /\ Reads[s].operands = s
        BY <3>1, <3>5, ReadsPlain
      <4> QED BY <3>1, <4>1, <4>2, NoOptionAgrees
    <3>6. CASE WholeOption(t) \/ (t \in OptionalOptions /\ ~IsName(rest))
      <4>1. P[s] = After(<<t>>, P[rest])
        BY <3>2, <3>6 DEF PlannedFrom
      <4>2. P[s].refused = P[rest].refused
        BY <4>1 DEF After
      <4>3. Agrees(rest, P[rest])
        BY <2>1, <3>3, <4>2
      <4>4. t \in Option /\ t \notin ValueOptions \cup {"--output-format"} /\ (t \in OptionalOptions => ~IsName(rest))
        BY <3>1, <3>6, TokenIs
      <4>5. Agrees(Cons(t, rest), After(<<t>>, P[rest]))
        BY <3>1, <3>3, <4>3, <4>4, FlagAgrees
      <4> QED BY <3>1, <4>1, <4>5
    <3>7. CASE (t \in OptionalOptions /\ IsName(rest)) \/ (t \in ValueOptions /\ IsValue(rest))
      <4> DEFINE h == Head(rest)
                 more == Tail(rest)
      <4>1. h \in Token /\ more \in Seq(Token) /\ Len(more) < Len(rest) /\ rest = Cons(h, more)
        BY <3>1, <3>7, ConsOf DEF IsName, IsValue
      <4>2. P[s] = After(<<t, h>>, P[more])
        BY <3>2, <3>7 DEF PlannedFrom
      <4>3. t \in Option /\ (t \in ValueOptions \/ (t \in OptionalOptions /\ ~StartsWithDash(h)))
        BY <3>7, TokenIs DEF IsName
      <4> HIDE DEF h, more
      <4>4. Len(more) < Len(s)
        BY <3>1, <4>1, LenProperties
      <4>5. Good(more) /\ P[more] \in Plans
        BY <1>1, <4>1, <4>4, PlanStep DEF P
      <4>6. P[s].refused = P[more].refused
        BY <4>2 DEF After
      <4>7. Agrees(more, P[more])
        BY <2>1, <4>5, <4>6
      <4>8. Agrees(Cons(t, Cons(h, more)), After(<<t, h>>, P[more]))
        BY <4>1, <4>3, <4>5, <4>7, PairAgrees
      <4> QED BY <3>1, <4>1, <4>2, <4>8
    <3>8. CASE P[s] = Refused
      BY <2>1, <3>8 DEF Refused
    <3>9. \/ t = "--" \/ t \in Words \cup {"-"} \/ WholeOption(t) \/ t \in OptionalOptions
          \/ (t \in ValueOptions /\ IsValue(rest)) \/ P[s] = Refused
      BY <3>2 DEF PlannedFrom
    <3> QED BY <3>4, <3>5, <3>6, <3>7, <3>8, <3>9
  <2> QED BY <2>2, <2>3
<1>2. Seq(Token) \subseteq Z
  <2> HIDE DEF Z
  <2> QED BY <1>1, InductionOverSeq
<1> QED BY <1>2

\* Behind the end of the options, everything is an operand.
LEMMA GuardedIs ==
  ASSUME NEW prompt \in Seq(Token)
  PROVE  /\ Guarded(prompt) \in Seq(Token)
         /\ Reads[Guarded(prompt)].options = <<>> /\ Reads[Guarded(prompt)].operands = prompt
<1>1. CASE prompt = <<>>
  BY <1>1, ReadsStep, ReadingIs, EmptySeq DEF Guarded
<1>2. CASE prompt # <<>>
  <2>1. Guarded(prompt) = Cons("--", prompt)
    BY <1>2 DEF Guarded, Cons
  <2>2. "--" \in Token
    BY PlannerTokens
  <2>3. Cons("--", prompt) \in Seq(Token)
    BY <2>2, ConsIs
  <2> QED BY <2>1, <2>2, <2>3, ReadsPlain
<1> QED BY <1>1, <1>2

LEMMA CommandIs ==
  ASSUME NEW argv \in Seq(Token), ~OptionsThenPrompt[argv].refused
  PROVE  Runs(PlanArgs(argv)) =
           [command |-> "agent", options |-> Reads[argv].options \o Printing, prompt |-> Reads[argv].operands]
<1> DEFINE plan == OptionsThenPrompt[argv]
           x == Guarded(plan.prompt)
           full == plan.options \o (StructuredStdout \o x)
           R == Reads[argv].options \o Printing
<1>1. Agrees(argv, plan)
  BY PlansAgree
<1>2. plan.prompt \in Seq(Token) /\ plan.options \in Seq(Token) /\ plan.prompt = Reads[argv].operands
  BY <1>1 DEF Agrees
<1>3. x \in Seq(Token) /\ Reads[x].options = <<>> /\ Reads[x].operands = plan.prompt
  BY <1>2, GuardedIs
<1>4. Reads[full].options = R /\ Reads[full].operands = Cons("agent", x)
  BY <1>1, <1>3 DEF Agrees
<1>5. PlanArgs(argv) = full
  <2>1. StructuredStdout \in Seq(Token)
    BY PlannerTokens DEF StructuredStdout
  <2> DEFINE a == plan.options
             b == StructuredStdout
  <2>2. a \in Seq(Token) /\ b \in Seq(Token) /\ x \in Seq(Token)
    BY <1>2, <1>3, <2>1
  <2>3. PlanArgs(argv) = (a \o b) \o x /\ full = a \o (b \o x)
    BY DEF PlanArgs
  <2> HIDE DEF a, b, x, full
  <2>4. (a \o b) \o x = a \o (b \o x)
    BY <2>2, ConcatAssociative
  <2> QED BY <2>3, <2>4
<1>6. Cons("agent", x) # <<>> /\ Head(Cons("agent", x)) = "agent" /\ Tail(Cons("agent", x)) = x /\ "agent" \in Commands
  <2>1. "agent" \in Token
    BY PlannerTokens
  <2> QED BY <1>3, <2>1, ConsIs DEF Commands
<1>7. R \in OptionSeq
  <2>1. Reads[argv].options \in OptionSeq
    BY ReadsStep DEF Readings, OptionSeq
  <2>2. Printing \in OptionSeq
    BY PrintingIs
  <2> QED BY <2>1, <2>2, ConcatProperties DEF OptionSeq
<1>8. R \o <<>> = R
  <2> HIDE DEF R
  <2> QED BY <1>7, ConcatEmptySeq DEF OptionSeq
<1> HIDE DEF x, full, R
<1>9. Runs(full) = [command |-> "agent", options |-> R \o <<>>, prompt |-> plan.prompt]
  BY <1>3, <1>4, <1>6 DEF Runs
<1> QED BY <1>2, <1>5, <1>8, <1>9 DEF R

\* Whatever a caller passes, where the planner accepts it Cursor runs an agent that
\* prints its stream, with the caller's options and the caller's prompt (plan_args,
\* split_prompt).
THEOREM PromptRuns == CursorSpec => []RunsThePrompt
<1>1. CursorTypeOK => RunsThePrompt
  BY CommandIs DEF CursorTypeOK, RunsThePrompt, Printing
<1> QED BY <1>1, CursorTypes, PTL

---------------------------------------------------------------------------
(* The names of a cassette's methods.                                      *)

Word == NameWords \cup Nat

LEMMA NumberedIs ==
  ASSUME NEW name \in Name
  PROVE  /\ \A n \in Nat : Numbered(name, n) \in Name
         /\ \A m, n \in Nat : Numbered(name, m) = Numbered(name, n) => m = n
<1>1. \A n \in Nat : n \in Word
  BY DEF Word
<1>2. name \in Seq(Word) /\ Name = Seq(Word)
  BY DEF Name, Word
<1>3. \A n \in Nat : /\ Append(name, n) \in Seq(Word) /\ Last(Append(name, n)) = n
                     /\ Len(Append(name, n)) = Len(name) + 1
  BY <1>1, <1>2, FrontOfAppend, AppendProperties
<1>4. Len(name) \in Nat
  BY <1>2, LenProperties
<1>5. \A n \in Nat : Append(name, n) # name
  BY <1>3, <1>4
<1> QED BY <1>2, <1>3, <1>5 DEF Numbered

\* A free name is found, and it is one of the numbered ones.
LEMMA FirstFreeIs ==
  ASSUME NEW name \in Name, NEW taken, IsFiniteSet(taken), NEW from \in Nat
  PROVE  FirstFree(name, taken, from) \in Name /\ FirstFree(name, taken, from) \notin taken
<1> DEFINE c == Cardinality(taken)
           D == from .. from + c
           f == [n \in Nat |-> Numbered(name, n)]
           Free(n) == Numbered(name, n) \notin taken /\ \A m \in from .. n - 1 : Numbered(name, m) \in taken
<1>1. c \in Nat
  BY FS_CardinalityType
<1>2. D \subseteq Nat /\ \A n \in D : from .. n - 1 \subseteq Nat
  BY <1>1
<1>3. \A m, n \in D : f[m] = f[n] => m = n
  BY <1>2, NumberedIs
<1>4. \E n \in D : f[n] \notin taken /\ \A m \in from .. n - 1 : f[m] \in taken
  <2> HIDE DEF f
  <2> QED BY <1>3, OneIsFree
<1>5. \E n \in D : Free(n)
  BY <1>2, <1>4
<1>6. PICK n \in D : Free(n) /\ FirstFree(name, taken, from) = Numbered(name, n)
  BY <1>5 DEF FirstFree
<1> QED BY <1>2, <1>6, NumberedIs

LEMMA UniqueIs ==
  ASSUME NEW name \in Name, NEW verb \in Verbs, NEW taken, IsFiniteSet(taken)
  PROVE  Unique(name, verb, taken) \in Name /\ Unique(name, verb, taken) \notin taken
<1>1. CASE name \notin taken
  BY <1>1 DEF Unique
<1>2. CASE name \in taken /\ Append(name, verb) \notin taken
  <2>1. verb \in NameWords \cup Nat
    BY SurfaceAssumption
  <2>2. Append(name, verb) \in Name
    BY <2>1, AppendProperties DEF Name
  <2> QED BY <1>2, <2>2 DEF Unique
<1>3. CASE name \in taken /\ Append(name, verb) \in taken
  <2>1. Unique(name, verb, taken) = FirstFree(name, taken, 2)
    BY <1>3 DEF Unique
  <2> QED BY <2>1, FirstFreeIs
<1> QED BY <1>1, <1>2, <1>3

\* What a sequence holds is finite.
LEMMA ToSetIs ==
  ASSUME NEW S, NEW s \in Seq(S)
  PROVE  IsFiniteSet(ToSet(s)) /\ \A x : x \in ToSet(s) <=> \E i \in 1 .. Len(s) : s[i] = x
<1>1. Len(s) \in Nat /\ DOMAIN s = 1 .. Len(s)
  BY LenProperties
<1>2. IsFiniteSet(1 .. Len(s))
  BY <1>1, FS_Interval
<1> DEFINE f == [i \in 1 .. Len(s) |-> s[i]]
           T == ToSet(s)
<1>3. T = {f[i] : i \in 1 .. Len(s)} /\ \A x : x \in T <=> \E i \in 1 .. Len(s) : s[i] = x
  BY <1>1 DEF ToSet
<1>4. f \in Surjection(1 .. Len(s), T)
  <2> QED BY <1>3 DEF Surjection
<1>5. IsFiniteSet(T)
  BY <1>2, <1>4, FS_Surjection
<1> QED BY <1>3, <1>5

LEMMA AppendIsDistinct ==
  ASSUME NEW S, NEW s \in Seq(S), NEW e \in S, Distinct(s), e \notin ToSet(s)
  PROVE  Distinct(Append(s, e))
<1>1. /\ Len(s) \in Nat /\ DOMAIN s = 1 .. Len(s) /\ DOMAIN Append(s, e) = 1 .. Len(s) + 1
      /\ Append(s, e)[Len(s) + 1] = e /\ \A i \in 1 .. Len(s) : Append(s, e)[i] = s[i]
  BY AppendProperties, LenProperties
<1>2. \A i \in 1 .. Len(s) : s[i] # e
  BY ToSetIs
<1>3. \A i \in 1 .. Len(s) + 1 : i \in 1 .. Len(s) \/ i = Len(s) + 1
  BY <1>1
<1> DEFINE a == Append(s, e)
<1> HIDE DEF a
<1>4. \A i, j \in 1 .. Len(s) + 1 : a[i] = a[j] => i = j
  BY <1>1, <1>2, <1>3 DEF Distinct, a
<1> QED BY <1>1, <1>4 DEF Distinct, a
LEMMA OperationIs == \A op \in Operation : op.verb \in Verbs /\ op.id \in Name
  BY SurfaceAssumption DEF Operation

LEMMA ReduceMethodsIs ==
  /\ ReduceMethods \in [Seq(Operation) -> Seq(Name)]
  /\ ReduceMethods[<<>>] = <<>>
  /\ \A document \in Seq(Operation), op \in Operation :
       ReduceMethods[Append(document, op)] =
         Append(ReduceMethods[document], Unique(op.id, op.verb, ToSet(ReduceMethods[document])))
<1> DEFINE V == Seq(Name)
           E(names, op) == Append(names, Unique(op.id, op.verb, ToSet(names)))
           step == [x \in V \X Operation |-> E(x[1], x[2])]
<1>1. \A names \in V, op \in Operation : E(names, op) \in V
  <2> SUFFICES ASSUME NEW names \in V, NEW op \in Operation PROVE E(names, op) \in V
    OBVIOUS
  <2>1. IsFiniteSet(ToSet(names))
    BY ToSetIs
  <2>2. Unique(op.id, op.verb, ToSet(names)) \in Name
    BY <2>1, OperationIs, UniqueIs
  <2> QED BY <2>2, AppendProperties
<1> HIDE DEF E
<1>2. step \in [V \X Operation -> V] /\ \A names \in V, op \in Operation : step[<<names, op>>] = E(names, op)
  BY <1>1
<1>3. <<>> \in V /\ <<>> \in Seq(Operation)
  BY EmptySeq
<1> HIDE DEF V, step
<1>4. PICK f \in [Seq(Operation) -> V] :
        \A s \in Seq(Operation) : f[s] = IF s = <<>> THEN <<>> ELSE step[<<f[Front(s)], Last(s)>>]
  <2>1. FoldIsDefined(Operation, V, <<>>, step)
    BY <1>2, <1>3, FoldOverSeq
  <2> QED BY <2>1 DEF FoldIsDefined
<1>5. f = [s \in Seq(Operation) |-> IF s = <<>> THEN <<>> ELSE E(f[Front(s)], Last(s))]
  <2>1. \A s \in Seq(Operation) : s # <<>> => Front(s) \in Seq(Operation) /\ Last(s) \in Operation
    BY FrontAndLast
  <2> QED BY <1>2, <1>4, <2>1
<1>6. ReduceMethods = [s \in Seq(Operation) |-> IF s = <<>> THEN <<>> ELSE E(ReduceMethods[Front(s)], Last(s))]
  BY <1>5 DEF ReduceMethods, E
<1>7. ASSUME NEW s \in Seq(Operation), NEW op \in Operation
      PROVE  /\ Append(s, op) \in Seq(Operation)
             /\ ReduceMethods[Append(s, op)] = E(ReduceMethods[s], op)
  <2> DEFINE a == Append(s, op)
  <2>1. a \in Seq(Operation) /\ a # <<>> /\ Front(a) = s /\ Last(a) = op
    BY FrontOfAppend
  <2> HIDE DEF a
  <2>2. ReduceMethods[a] = E(ReduceMethods[s], op)
    BY <1>6, <2>1
  <2> QED BY <2>1, <2>2 DEF a
<1>8. ReduceMethods \in [Seq(Operation) -> V]
  <2> DEFINE Z == {s \in Seq(Operation) : ReduceMethods[s] \in V}
  <2>1. <<>> \in Z
    BY <1>3, <1>6
  <2>2. ASSUME NEW s \in Seq(Operation), NEW op \in Operation, s \in Z PROVE Append(s, op) \in Z
    <3>1. E(ReduceMethods[s], op) \in V
      BY <1>1, <2>2
    <3> QED BY <1>7, <3>1
  <2>3. Seq(Operation) \subseteq Z
    <3> HIDE DEF Z
    <3> QED BY <2>1, <2>2, InductionOverAppend
  <2> QED BY <1>6, <2>3
<1>9. ReduceMethods[<<>>] = <<>>
  BY <1>3, <1>6
<1> QED BY <1>7, <1>8, <1>9 DEF E, V

\* Every operation has a name, and no two have the same.
LEMMA NamesAreDistinct ==
  ASSUME NEW document \in Seq(Operation)
  PROVE  Len(ReduceMethods[document]) = Len(document) /\ Distinct(ReduceMethods[document])
<1> DEFINE Z == {s \in Seq(Operation) : Len(ReduceMethods[s]) = Len(s) /\ Distinct(ReduceMethods[s])}
<1>1. <<>> \in Z
  BY EmptySeq, ReduceMethodsIs DEF Distinct
<1>2. ASSUME NEW s \in Seq(Operation), NEW op \in Operation, s \in Z PROVE Append(s, op) \in Z
  <2> DEFINE names == ReduceMethods[s]
             new == Unique(op.id, op.verb, ToSet(names))
  <2>1. names \in Seq(Name) /\ IsFiniteSet(ToSet(names))
    BY ReduceMethodsIs, ToSetIs
  <2>2. new \in Name /\ new \notin ToSet(names)
    BY <2>1, OperationIs, UniqueIs
  <2>3. ReduceMethods[Append(s, op)] = Append(names, new)
    BY ReduceMethodsIs
  <2> HIDE DEF new, names
  <2>4. Len(Append(names, new)) = Len(names) + 1 /\ Len(Append(s, op)) = Len(s) + 1 /\ Append(s, op) \in Seq(Operation)
    BY <2>1, <2>2, AppendProperties
  <2>5. Distinct(names) /\ Len(names) = Len(s)
    BY <1>2 DEF names
  <2>6. Distinct(Append(names, new))
    BY <2>1, <2>2, <2>5, AppendIsDistinct
  <2> QED BY <2>3, <2>4, <2>5, <2>6
<1>3. Seq(Operation) \subseteq Z
  <2> HIDE DEF Z
  <2> QED BY <1>1, <1>2, InductionOverAppend
<1> QED BY <1>3

---------------------------------------------------------------------------
(* The parameters of one operation.                                        *)

\* None of a list's parameters shares its name and location with another.
NoTwice(params) == \A i, j \in 1 .. Len(params) : SameParam(params[i], params[j]) => i = j

LEMMA PositionIs ==
  ASSUME NEW params \in Seq(Param), NEW wire, NEW location, NEW at, at = Position(params, wire, location)
  PROVE  \/ /\ at = 0
            /\ \A i \in 1 .. Len(params) : ~(params[i].wire = wire /\ params[i].location = location)
         \/ /\ at \in 1 .. Len(params) /\ params[at] \in Param
            /\ params[at].wire = wire /\ params[at].location = location
<1> DEFINE Found == {i \in DOMAIN params : params[i].wire = wire /\ params[i].location = location}
<1>1. DOMAIN params = 1 .. Len(params) /\ Len(params) \in Nat /\ params \in [1 .. Len(params) -> Param]
  BY LenProperties
<1>2. CASE Found = {}
  BY <1>1, <1>2 DEF Position
<1>3. CASE Found # {}
  <2>1. PICK k \in Found : TRUE
    BY <1>3
  <2>2. k \in Nat /\ 1 <= k
    BY <1>1, <2>1
  <2>3. PICK n \in 1 .. k : n \in Found /\ \A m \in 1 .. n - 1 : m \notin Found
    <3> HIDE DEF Found
    <3> QED BY <2>1, <2>2, LeastFrom
  <2>4. \A j \in Found : n <= j
    BY <1>1, <2>3
  <2>5. at = CHOOSE i \in Found : \A j \in Found : i <= j
    BY <1>3 DEF Position
  <2>6. at \in Found
    <3> HIDE DEF Found
    <3> QED BY <2>3, <2>4, <2>5
  <2> QED BY <1>1, <2>6
<1> QED BY <1>2, <1>3

Retains(r, params, p) ==
  /\ \E i \in 1 .. Len(r) : r[i] = p
  /\ \A k \in 1 .. Len(params) :
       \E i \in 1 .. Len(r) : /\ SameParam(r[i], params[k])
                              /\ r[i] = params[k] \/ SameParam(params[k], p)

LEMMA LayOverIs ==
  ASSUME NEW params \in Seq(Param), NEW p \in Param, NoTwice(params), NEW r, r = LayOver(params, p)
  PROVE  r \in Seq(Param) /\ NoTwice(r) /\ Retains(r, params, p)
<1> DEFINE at == Position(params, p.wire, p.location)
           n == Len(params)
<1>1. n \in Nat /\ \A k \in 1 .. n : params[k] \in Param
  BY LenProperties, ElementOfSeq
<1>2. CASE at = 0
  <2>1. r = Append(params, p)
    BY <1>2 DEF LayOver
  <2>2. \A i \in 1 .. n : ~SameParam(params[i], p) /\ ~SameParam(p, params[i])
    BY <1>2, PositionIs DEF SameParam
  <2>3. /\ r \in Seq(Param) /\ Len(r) = n + 1 /\ r[n + 1] = p
        /\ \A i \in 1 .. n : r[i] = params[i]
    BY <2>1, AppendProperties
  <2>4. \A i \in 1 .. n + 1 : i \in 1 .. n \/ i = n + 1
    BY <1>1
  <2>5. n + 1 \in 1 .. n + 1 /\ \A i \in 1 .. n : i \in 1 .. n + 1
    BY <1>1
  <2> HIDE DEF n
  <2>6. NoTwice(r)
    <3>1. ASSUME NEW i \in 1 .. n + 1, NEW j \in 1 .. n + 1, SameParam(r[i], r[j]) PROVE i = j
      <4>1. CASE i \in 1 .. n /\ j \in 1 .. n
        BY <2>3, <3>1, <4>1 DEF NoTwice, n
      <4>2. CASE i \in 1 .. n /\ j = n + 1
        BY <2>2, <2>3, <3>1, <4>2
      <4>3. CASE i = n + 1 /\ j \in 1 .. n
        BY <2>2, <2>3, <3>1, <4>3
      <4> QED BY <2>4, <4>1, <4>2, <4>3
    <3> QED BY <2>3, <3>1 DEF NoTwice
  <2>7. \A k \in 1 .. n : k \in 1 .. Len(r) /\ SameParam(r[k], params[k]) /\ r[k] = params[k]
    BY <2>3, <2>5 DEF SameParam
  <2> QED BY <2>3, <2>5, <2>6, <2>7 DEF n, Retains
<1>3. CASE at \in 1 .. n /\ params[at].wire = p.wire /\ params[at].location = p.location
  <2>1. r = [params EXCEPT ![at] = p]
    BY <1>1, <1>3 DEF LayOver
  <2> HIDE DEF at
  <2>2. /\ r \in Seq(Param) /\ Len(r) = n
        /\ \A i \in 1 .. n : r[i] = IF i = at THEN p ELSE params[i]
    BY <1>3, <2>1, ExceptSeq
  <2> HIDE DEF n
  <2>3. \A i \in 1 .. n : r[i].wire = params[i].wire /\ r[i].location = params[i].location
    BY <1>3, <2>2
  <2>4. NoTwice(r)
    BY <2>2, <2>3 DEF NoTwice, SameParam, n
  <2>5. \A k \in 1 .. n : SameParam(r[k], params[k]) /\ (r[k] = params[k] \/ SameParam(params[k], p))
    BY <1>3, <2>2, <2>3 DEF SameParam
  <2> QED BY <1>3, <2>2, <2>4, <2>5 DEF n, Retains
<1> QED BY <1>2, <1>3, PositionIs
Told == {params \in Seq(Param) : NoTwice(params)}

LEMMA OverrideStep ==
  ASSUME NEW shared \in Told
  PROVE  /\ OverrideParams(shared, <<>>) = shared
         /\ \A s \in Seq(Param) : OverrideParams(shared, s) \in Told
         /\ \A s \in Seq(Param), p \in Param :
              OverrideParams(shared, Append(s, p)) = LayOver(OverrideParams(shared, s), p)
<1> DEFINE step == [x \in Told \X Param |-> LayOver(x[1], x[2])]
           laid == CHOOSE f : f = [params \in Seq(Param) |->
                                     IF params = <<>> THEN shared ELSE LayOver(f[Front(params)], Last(params))]
<1>1. \A params \in Told, p \in Param : LayOver(params, p) \in Told
  BY LayOverIs DEF Told
<1>2. step \in [Told \X Param -> Told] /\ \A params \in Told, p \in Param : step[<<params, p>>] = LayOver(params, p)
  BY <1>1
<1> HIDE DEF step
<1>3. PICK f \in [Seq(Param) -> Told] :
        \A s \in Seq(Param) : f[s] = IF s = <<>> THEN shared ELSE step[<<f[Front(s)], Last(s)>>]
  <2>1. FoldIsDefined(Param, Told, shared, step)
    BY <1>2, FoldOverSeq
  <2> QED BY <2>1 DEF FoldIsDefined
<1>4. f = [s \in Seq(Param) |-> IF s = <<>> THEN shared ELSE LayOver(f[Front(s)], Last(s))]
  <2>1. \A s \in Seq(Param) : s # <<>> => Front(s) \in Seq(Param) /\ Last(s) \in Param
    BY FrontAndLast
  <2> QED BY <1>2, <1>3, <2>1
<1>5. laid = [s \in Seq(Param) |-> IF s = <<>> THEN shared ELSE LayOver(laid[Front(s)], Last(s))]
  BY <1>4
<1>6. \A s : OverrideParams(shared, s) = laid[s]
  BY DEF OverrideParams
<1> HIDE DEF laid
<1>7. <<>> \in Seq(Param) /\ laid[<<>>] = shared
  BY <1>5, EmptySeq
<1>8. ASSUME NEW s \in Seq(Param), NEW p \in Param
      PROVE  Append(s, p) \in Seq(Param) /\ laid[Append(s, p)] = LayOver(laid[s], p)
  <2> DEFINE a == Append(s, p)
  <2>1. a \in Seq(Param) /\ a # <<>> /\ Front(a) = s /\ Last(a) = p
    BY FrontOfAppend
  <2> HIDE DEF a
  <2>2. laid[a] = LayOver(laid[s], p)
    BY <1>5, <2>1
  <2> QED BY <2>1, <2>2 DEF a
<1> DEFINE Z == {s \in Seq(Param) : laid[s] \in Told}
<1>9. <<>> \in Z
  BY <1>7
<1>10. ASSUME NEW s \in Seq(Param), NEW p \in Param, s \in Z PROVE Append(s, p) \in Z
  <2>1. LayOver(laid[s], p) \in Told
    BY <1>1, <1>10
  <2> QED BY <1>8, <2>1
<1>11. Seq(Param) \subseteq Z
  <2> HIDE DEF Z
  <2> QED BY <1>9, <1>10, InductionOverAppend
<1> QED BY <1>6, <1>7, <1>8, <1>11

\* Both lists are there, once each, and where they differ the operation's counts.
LEMMA OverrideIs ==
  ASSUME NEW shared \in Told, NEW own \in Told, NEW r, r = OverrideParams(shared, own)
  PROVE  /\ r \in Told
         /\ \A k \in 1 .. Len(own) : \E i \in 1 .. Len(r) : r[i] = own[k]
         /\ \A k \in 1 .. Len(shared) : \E i \in 1 .. Len(r) : SameParam(r[i], shared[k])
<1> DEFINE O(s) == OverrideParams(shared, s)
           Has(s) == /\ \A k \in 1 .. Len(s) : \E i \in 1 .. Len(O(s)) : O(s)[i] = s[k]
                     /\ \A k \in 1 .. Len(shared) : \E i \in 1 .. Len(O(s)) : SameParam(O(s)[i], shared[k])
           Z == {s \in Seq(Param) : NoTwice(s) => Has(s)}
<1>1. /\ O(<<>>) = shared
      /\ \A s \in Seq(Param) : O(s) \in Told
      /\ \A s \in Seq(Param), p \in Param : O(Append(s, p)) = LayOver(O(s), p)
  BY OverrideStep
<1> HIDE DEF O
<1>2. <<>> \in Z
  <2>1. \A k \in 1 .. Len(shared) : SameParam(shared[k], shared[k])
    BY DEF SameParam
  <2> QED BY <1>1, <2>1, EmptySeq
<1>3. ASSUME NEW s \in Seq(Param), NEW p \in Param, s \in Z PROVE Append(s, p) \in Z
  <2> DEFINE a == Append(s, p)
             n == Len(s)
             q == O(s)
             t == O(Append(s, p))
  <2>1. /\ a \in Seq(Param) /\ Len(a) = n + 1 /\ a[n + 1] = p
        /\ \A i \in 1 .. n : a[i] = s[i] /\ i \in 1 .. n + 1
        /\ n \in Nat /\ \A i \in 1 .. n + 1 : i \in 1 .. n \/ i = n + 1
    <3>1. n \in Nat
      BY LenProperties
    <3> QED BY <3>1, AppendProperties
  <2>2. q \in Seq(Param) /\ NoTwice(q) /\ t = LayOver(q, p)
    BY <1>1 DEF Told
  <2> HIDE DEF q, t
  <2>3. /\ \E i \in 1 .. Len(t) : t[i] = p
        /\ \A k \in 1 .. Len(q) :
             \E i \in 1 .. Len(t) : /\ SameParam(t[i], q[k])
                                    /\ t[i] = q[k] \/ SameParam(q[k], p)
    <3>1. Retains(t, q, p)
      BY <2>2, LayOverIs
    <3> QED BY <3>1 DEF Retains
  <2> HIDE DEF a, n
  <2>4. SUFFICES ASSUME NoTwice(a) PROVE Has(a)
    BY <2>1 DEF a
  <2>5. NoTwice(s) /\ \A k \in 1 .. n : ~SameParam(s[k], p)
    <3>1. NoTwice(s)
      BY <2>1, <2>4 DEF NoTwice, n
    <3>2. n + 1 \in 1 .. n + 1 /\ \A k \in 1 .. n : k # n + 1
      BY <2>1
    <3> QED BY <2>1, <2>4, <3>1, <3>2 DEF NoTwice
  <2>6. /\ \A k \in 1 .. n : \E i \in 1 .. Len(q) : q[i] = s[k]
        /\ \A k \in 1 .. Len(shared) : \E i \in 1 .. Len(q) : SameParam(q[i], shared[k])
    BY <1>3, <2>5 DEF n, q
  <2>7. \A k \in 1 .. n + 1 : \E i \in 1 .. Len(t) : t[i] = a[k]
    <3>1. ASSUME NEW k \in 1 .. n PROVE \E i \in 1 .. Len(t) : t[i] = s[k]
      BY <2>3, <2>5, <2>6
    <3> QED BY <2>1, <2>3, <3>1
  <2>8. \A k \in 1 .. Len(shared) : \E i \in 1 .. Len(t) : SameParam(t[i], shared[k])
    <3>1. ASSUME NEW k \in 1 .. Len(shared) PROVE \E i \in 1 .. Len(t) : SameParam(t[i], shared[k])
      <4>1. PICK i \in 1 .. Len(q) : SameParam(q[i], shared[k])
        BY <2>6
      <4>2. PICK j \in 1 .. Len(t) : SameParam(t[j], q[i])
        BY <2>3
      <4>3. SameParam(t[j], shared[k])
        BY <4>1, <4>2 DEF SameParam
      <4> QED BY <4>3
    <3> QED BY <3>1
  <2>9. O(a) = t
    BY DEF a, t
  <2> QED BY <2>1, <2>7, <2>8, <2>9
<1>4. Seq(Param) \subseteq Z
  <2> HIDE DEF Z
  <2> QED BY <1>2, <1>3, InductionOverAppend
<1>5. r = O(own) /\ own \in Seq(Param) /\ NoTwice(own)
  BY DEF Told, O
<1> QED BY <1>1, <1>4, <1>5
LEMMA OptionsStep ==
  /\ Options \in [Seq(Param) -> Seq(Param)]
  /\ Options[<<>>] = <<>>
  /\ \A s \in Seq(Param), p \in Param :
       Options[Append(s, p)] = IF p.location = "path" THEN Options[s] ELSE Append(Options[s], p)
<1> DEFINE V == Seq(Param)
           E(options, p) == IF p.location = "path" THEN options ELSE Append(options, p)
           step == [x \in V \X Param |-> E(x[1], x[2])]
<1>1. \A options \in V, p \in Param : E(options, p) \in V
  BY AppendProperties
<1> HIDE DEF E
<1>2. step \in [V \X Param -> V] /\ \A options \in V, p \in Param : step[<<options, p>>] = E(options, p)
  BY <1>1
<1>3. <<>> \in V /\ <<>> \in Seq(Param)
  BY EmptySeq
<1> HIDE DEF V, step
<1>4. PICK f \in [Seq(Param) -> V] :
        \A s \in Seq(Param) : f[s] = IF s = <<>> THEN <<>> ELSE step[<<f[Front(s)], Last(s)>>]
  <2>1. FoldIsDefined(Param, V, <<>>, step)
    BY <1>2, <1>3, FoldOverSeq
  <2> QED BY <2>1 DEF FoldIsDefined
<1>5. f = [s \in Seq(Param) |-> IF s = <<>> THEN <<>> ELSE E(f[Front(s)], Last(s))]
  <2>1. \A s \in Seq(Param) : s # <<>> => Front(s) \in Seq(Param) /\ Last(s) \in Param
    BY FrontAndLast
  <2> QED BY <1>2, <1>4, <2>1
<1>6. Options = [s \in Seq(Param) |-> IF s = <<>> THEN <<>> ELSE E(Options[Front(s)], Last(s))]
  BY <1>5 DEF Options, E
<1>7. ASSUME NEW s \in Seq(Param), NEW p \in Param
      PROVE  Append(s, p) \in Seq(Param) /\ Options[Append(s, p)] = E(Options[s], p)
  <2> DEFINE a == Append(s, p)
  <2>1. a \in Seq(Param) /\ a # <<>> /\ Front(a) = s /\ Last(a) = p
    BY FrontOfAppend
  <2> HIDE DEF a
  <2>2. Options[a] = E(Options[s], p)
    BY <1>6, <2>1
  <2> QED BY <2>1, <2>2 DEF a
<1>8. Options \in [Seq(Param) -> V]
  <2> DEFINE Z == {s \in Seq(Param) : Options[s] \in V}
  <2>1. <<>> \in Z
    BY <1>3, <1>6
  <2>2. ASSUME NEW s \in Seq(Param), NEW p \in Param, s \in Z PROVE Append(s, p) \in Z
    <3>1. E(Options[s], p) \in V
      BY <1>1, <2>2
    <3> QED BY <1>7, <3>1
  <2>3. Seq(Param) \subseteq Z
    <3> HIDE DEF Z
    <3> QED BY <2>1, <2>2, InductionOverAppend
  <2> QED BY <1>6, <2>3
<1>9. Options[<<>>] = <<>>
  BY <1>3, <1>6
<1> QED BY <1>7, <1>8, <1>9 DEF E, V

\* The options are the parameters that are no positionals.
LEMMA OptionsIs ==
  ASSUME NEW params \in Told, NEW r, r = Options[params]
  PROVE  /\ r \in Told
         /\ \A i \in 1 .. Len(r) : r[i].location # "path"
         /\ \A k \in 1 .. Len(params) : params[k].location # "path" => \E i \in 1 .. Len(r) : r[i] = params[k]
<1> DEFINE Among(s) == \A i \in 1 .. Len(Options[s]) :
                         /\ Options[s][i].location # "path"
                         /\ \E k \in 1 .. Len(s) : Options[s][i] = s[k]
           Has(s) == \A k \in 1 .. Len(s) :
                       s[k].location # "path" => \E i \in 1 .. Len(Options[s]) : Options[s][i] = s[k]
           Good(s) == NoTwice(s) => NoTwice(Options[s]) /\ Among(s) /\ Has(s)
           Z == {s \in Seq(Param) : Good(s)}
<1>1. <<>> \in Z
  BY EmptySeq, OptionsStep DEF NoTwice
<1>2. ASSUME NEW s \in Seq(Param), NEW p \in Param, s \in Z PROVE Append(s, p) \in Z
  <2> DEFINE a == Append(s, p)
             n == Len(s)
             q == Options[s]
             m == Len(q)
             t == Options[a]
  <2>1. /\ a \in Seq(Param) /\ Len(a) = n + 1 /\ a[n + 1] = p
        /\ \A i \in 1 .. n : a[i] = s[i] /\ i \in 1 .. n + 1
        /\ n \in Nat /\ \A i \in 1 .. n + 1 : i \in 1 .. n \/ i = n + 1
    <3>1. n \in Nat
      BY LenProperties
    <3> QED BY <3>1, AppendProperties
  <2>2. q \in Seq(Param) /\ m \in Nat /\ t = IF p.location = "path" THEN q ELSE Append(q, p)
    <3>1. q \in Seq(Param) /\ t = IF p.location = "path" THEN q ELSE Append(q, p)
      BY OptionsStep
    <3> HIDE DEF q
    <3> QED BY <3>1, LenProperties
  <2> HIDE DEF a, n
  <2>3. SUFFICES ASSUME NoTwice(a) PROVE NoTwice(t) /\ Among(a) /\ Has(a)
    BY <2>1 DEF a
  <2>4. NoTwice(s) /\ \A k \in 1 .. n : ~SameParam(s[k], p) /\ ~SameParam(p, s[k])
    <3>1. NoTwice(s)
      BY <2>1, <2>3 DEF NoTwice, n
    <3>2. n + 1 \in 1 .. n + 1 /\ \A k \in 1 .. n : k # n + 1
      BY <2>1
    <3> QED BY <2>1, <2>3, <3>1, <3>2 DEF NoTwice
  <2>5. /\ NoTwice(q)
        /\ \A i \in 1 .. m : q[i].location # "path" /\ \E k \in 1 .. n : q[i] = s[k]
        /\ \A k \in 1 .. n : s[k].location # "path" => \E i \in 1 .. m : q[i] = s[k]
    BY <1>2, <2>4 DEF n
  <2>6. CASE p.location = "path"
    <3>1. t = q
      BY <2>2, <2>6
    <3> HIDE DEF q, t
    <3>2. \A i \in 1 .. m : \E k \in 1 .. n + 1 : q[i] = a[k]
      BY <2>1, <2>5
    <3>3. \A k \in 1 .. n + 1 : a[k].location # "path" => \E i \in 1 .. m : q[i] = a[k]
      BY <2>1, <2>5, <2>6
    <3> QED BY <2>1, <2>5, <3>1, <3>2, <3>3 DEF t
  <2>7. CASE p.location # "path"
    <3> HIDE DEF q, t
    <3>1. /\ Len(t) = m + 1 /\ t[m + 1] = p /\ m + 1 \in 1 .. m + 1
          /\ \A i \in 1 .. m : t[i] = q[i] /\ i \in 1 .. m + 1
          /\ \A i \in 1 .. m + 1 : i \in 1 .. m \/ i = m + 1
      BY <2>2, <2>7, AppendProperties
    <3>2. \A i \in 1 .. m : ~SameParam(q[i], p) /\ ~SameParam(p, q[i])
      BY <2>4, <2>5
    <3> HIDE DEF m
    <3>3. NoTwice(t)
      <4>1. ASSUME NEW i \in 1 .. m + 1, NEW j \in 1 .. m + 1, SameParam(t[i], t[j]) PROVE i = j
        <5>1. CASE i \in 1 .. m /\ j \in 1 .. m
          BY <2>5, <3>1, <4>1, <5>1 DEF NoTwice, m
        <5>2. CASE i \in 1 .. m /\ j = m + 1
          BY <3>1, <3>2, <4>1, <5>2
        <5>3. CASE i = m + 1 /\ j \in 1 .. m
          BY <3>1, <3>2, <4>1, <5>3
        <5> QED BY <3>1, <5>1, <5>2, <5>3
      <4> QED BY <3>1, <4>1 DEF NoTwice
    <3>4. n + 1 \in 1 .. n + 1
      BY <2>1
    <3>5. \A i \in 1 .. m + 1 : t[i].location # "path" /\ \E k \in 1 .. n + 1 : t[i] = a[k]
      BY <2>1, <2>5, <2>7, <3>1, <3>4
    <3>6. \A k \in 1 .. n + 1 : a[k].location # "path" => \E i \in 1 .. m + 1 : t[i] = a[k]
      BY <2>1, <2>5, <3>1
    <3> QED BY <2>1, <3>1, <3>3, <3>5, <3>6 DEF t
  <2> QED BY <2>6, <2>7
<1>3. Seq(Param) \subseteq Z
  <2> HIDE DEF Z
  <2> QED BY <1>1, <1>2, InductionOverAppend
<1>4. params \in Seq(Param) /\ NoTwice(params) /\ r \in Seq(Param)
  BY OptionsStep DEF Told
<1> QED BY <1>3, <1>4 DEF Told
LEMMA TabulatedIs ==
  ASSUME NEW S, NEW n \in Nat, NEW f \in [1 .. n -> S]
  PROVE  f \in Seq(S) /\ Len(f) = n
<1>1. f \in Seq(S)
  BY SeqDef
<1>2. 1 .. Len(f) = 1 .. n /\ Len(f) \in Nat
  BY <1>1, LenProperties
<1> QED BY <1>1, <1>2

\* Each placeholder has its positional, and each option is there once.
LEMMA OrderedIs ==
  ASSUME NEW template \in Seq(Wires), NEW params \in Told, NEW r, r = Ordered(template, params)
  PROVE  /\ r \in Seq(Param)
         /\ \A i \in 1 .. Len(template) : r[i].location = "path" /\ r[i].wire = template[i]
         /\ \A k \in 1 .. Len(params) :
              params[k].location # "path" =>
                \E i \in 1 .. Len(r) : /\ r[i] = params[k]
                                       /\ \A j \in 1 .. Len(r) : SameParam(r[j], params[k]) => j = i
<1> DEFINE n == Len(template)
           At(i) == Position(params, template[i], "path")
           first == [i \in 1 .. n |-> IF At(i) = 0 THEN Synthesized(template[i]) ELSE params[At(i)]]
           rest == Options[params]
           m == Len(rest)
<1>1. n \in Nat /\ \A i \in 1 .. n : template[i] \in Wires
  BY LenProperties, ElementOfSeq
<1>2. r = first \o rest
  BY DEF Ordered
<1>3. params \in Seq(Param)
  BY DEF Told
<1>4. /\ rest \in Seq(Param) /\ NoTwice(rest) /\ \A i \in 1 .. m : rest[i].location # "path"
      /\ \A k \in 1 .. Len(params) : params[k].location # "path" => \E i \in 1 .. m : rest[i] = params[k]
  <2>1. rest = Options[params]
    OBVIOUS
  <2> HIDE DEF rest
  <2>2. /\ rest \in Told /\ \A i \in 1 .. m : rest[i].location # "path"
        /\ \A k \in 1 .. Len(params) : params[k].location # "path" => \E i \in 1 .. m : rest[i] = params[k]
    BY <2>1, OptionsIs
  <2> QED BY <2>2 DEF Told
<1>5. ASSUME NEW i \in 1 .. n
      PROVE  first[i] \in Param /\ first[i].location = "path" /\ first[i].wire = template[i]
  <2> DEFINE w == template[i]
             at == At(i)
  <2>1. w \in Wires
    BY <1>1
  <2>2. \/ at = 0
        \/ at \in 1 .. Len(params) /\ params[at] \in Param /\ params[at].wire = w /\ params[at].location = "path"
    BY <1>3, PositionIs
  <2>3. first[i] = IF at = 0 THEN Synthesized(w) ELSE params[at]
    OBVIOUS
  <2> HIDE DEF w, at, first
  <2>4. CASE at = 0
    BY <2>1, <2>3, <2>4 DEF Synthesized, Param, w
  <2>5. CASE at \in 1 .. Len(params) /\ params[at] \in Param /\ params[at].wire = w /\ params[at].location = "path"
    <3>1. at # 0
      BY <2>5
    <3> QED BY <2>3, <2>5, <3>1 DEF w
  <2> QED BY <2>2, <2>4, <2>5
<1>6. m \in Nat
  <2> HIDE DEF rest
  <2> QED BY <1>4, LenProperties
<1>7. first \in Seq(Param) /\ Len(first) = n
  <2>1. first \in [1 .. n -> Param]
    <3>1. first = [i \in 1 .. n |-> first[i]]
      OBVIOUS
    <3> HIDE DEF first
    <3> QED BY <1>5, <3>1
  <2> HIDE DEF first
  <2> QED BY <1>1, <2>1, TabulatedIs
<1> HIDE DEF first, rest
<1>8. /\ r \in Seq(Param) /\ Len(r) = n + m
      /\ \A i \in 1 .. n + m : r[i] = IF i <= n THEN first[i] ELSE rest[i - n]
  <2>1. \A a \in Seq(Param), b \in Seq(Param) :
          /\ a \o b \in Seq(Param) /\ Len(a \o b) = Len(a) + Len(b)
          /\ \A i \in 1 .. Len(a) + Len(b) : (a \o b)[i] = IF i <= Len(a) THEN a[i] ELSE b[i - Len(a)]
    BY ConcatProperties
  <2>2. /\ r \in Seq(Param) /\ Len(r) = Len(first) + Len(rest)
        /\ \A i \in 1 .. Len(first) + Len(rest) : r[i] = IF i <= Len(first) THEN first[i] ELSE rest[i - Len(first)]
    <3>1. first \in Seq(Param) /\ rest \in Seq(Param)
      BY <1>4, <1>7
    <3> DEFINE both == first \o rest
    <3>2. /\ both \in Seq(Param) /\ Len(both) = Len(first) + Len(rest)
          /\ \A i \in 1 .. Len(first) + Len(rest) : both[i] = IF i <= Len(first) THEN first[i] ELSE rest[i - Len(first)]
      BY <2>1, <3>1
    <3>3. r = both
      BY <1>2
    <3> HIDE DEF both
    <3> QED BY <3>2, <3>3
  <2> QED BY <1>7, <2>2
<1> HIDE DEF n, m
<1>9. /\ \A i \in 1 .. n : i \in 1 .. n + m /\ i <= n
      /\ \A i \in 1 .. m : n + i \in 1 .. n + m /\ ~(n + i <= n) /\ n + i - n = i
      /\ \A i \in 1 .. n + m : i \in 1 .. n \/ (~(i <= n) /\ i - n \in 1 .. m /\ i = n + (i - n))
  BY <1>1, <1>6
<1>10. \A i \in 1 .. n : r[i] = first[i]
  BY <1>8, <1>9
<1>11. \A i \in 1 .. m : r[n + i] = rest[i]
  <2> SUFFICES ASSUME NEW i \in 1 .. m PROVE r[n + i] = rest[i]
    OBVIOUS
  <2> DEFINE j == n + i
  <2>1. j \in 1 .. n + m /\ ~(j <= n) /\ j - n = i
    BY <1>1, <1>6
  <2> HIDE DEF j
  <2>2. r[j] = rest[i]
    BY <1>8, <2>1
  <2> QED BY <2>2 DEF j
<1>12. ASSUME NEW k \in 1 .. Len(params), params[k].location # "path"
       PROVE  \E i \in 1 .. Len(r) : /\ r[i] = params[k]
                                     /\ \A j \in 1 .. Len(r) : SameParam(r[j], params[k]) => j = i
  <2>1. PICK i \in 1 .. m : rest[i] = params[k]
    BY <1>4, <1>12
  <2>2. n + i \in 1 .. Len(r) /\ r[n + i] = params[k]
    BY <1>8, <1>9, <1>11, <2>1
  <2>3. ASSUME NEW j \in 1 .. n + m, SameParam(r[j], params[k]) PROVE j = n + i
    <3>1. CASE j \in 1 .. n
      BY <1>5, <1>10, <1>12, <2>3, <3>1 DEF SameParam
    <3>2. CASE j - n \in 1 .. m /\ j = n + (j - n)
      <4>1. SameParam(rest[j - n], rest[i])
        BY <1>11, <2>1, <2>3, <3>2
      <4>2. j - n = i
        BY <1>4, <2>1, <3>2, <4>1 DEF NoTwice, m
      <4> QED BY <3>2, <4>2
    <3> QED BY <1>9, <3>1, <3>2
  <2> QED BY <1>8, <2>2, <2>3
<1> QED BY <1>5, <1>8, <1>10, <1>12 DEF n

---------------------------------------------------------------------------
(* The flags of one operation's inputs.                                    *)

LEMMA PrefixedIs ==
  ASSUME NEW flag \in Name
  PROVE  /\ \A n \in Nat : Prefixed(flag, n) \in Name
         /\ \A m, n \in Nat : Prefixed(flag, m) = Prefixed(flag, n) => m = n
<1>1. ASSUME NEW n \in Nat PROVE Prefixed(flag, n) \in Name /\ Len(Prefixed(flag, n)) = n + Len(flag)
  <2> DEFINE p == [i \in 1 .. n |-> Prefix]
  <2>1. Prefix \in NameWords \cup Nat
    BY SurfaceAssumption
  <2>2. p \in [1 .. n -> NameWords \cup Nat]
    BY <2>1
  <2>3. p \in Name /\ Len(p) = n
    <3> HIDE DEF p
    <3> QED BY <2>2, TabulatedIs DEF Name
  <2>4. p \o flag \in Name /\ Len(p \o flag) = n + Len(flag)
    <3> HIDE DEF p
    <3> QED BY <2>3, ConcatProperties DEF Name
  <2> QED BY <2>4 DEF Prefixed
<1>2. Len(flag) \in Nat
  BY LenProperties DEF Name
<1>3. ASSUME NEW m \in Nat, NEW n \in Nat, Prefixed(flag, m) = Prefixed(flag, n) PROVE m = n
  <2>1. m + Len(flag) = n + Len(flag)
    BY <1>1, <1>3
  <2> QED BY <1>2, <2>1
<1> QED BY <1>1, <1>3

\* Some number of prefixes makes a flag that is not reserved.
LEMMA ClearedIs ==
  ASSUME NEW flag \in Name, NEW reserved, IsFiniteSet(reserved)
  PROVE  Cleared(flag, reserved) \in Name /\ Cleared(flag, reserved) \notin reserved
<1> DEFINE c == Cardinality(reserved)
           D == 0 .. c
           f == [n \in Nat |-> Prefixed(flag, n)]
           Free(n) == Prefixed(flag, n) \notin reserved /\ \A m \in 0 .. n - 1 : Prefixed(flag, m) \in reserved
<1>1. c \in Nat /\ 0 + c = c
  BY FS_CardinalityType
<1>2. D \subseteq Nat /\ \A n \in D : 0 .. n - 1 \subseteq Nat
  BY <1>1
<1>3. \A m, n \in 0 .. 0 + c : f[m] = f[n] => m = n
  BY <1>1, <1>2, PrefixedIs
<1>4. \E n \in 0 .. 0 + c : f[n] \notin reserved /\ \A m \in 0 .. n - 1 : f[m] \in reserved
  <2> HIDE DEF f
  <2> QED BY <1>3, OneIsFree
<1>5. \E n \in D : Free(n)
  BY <1>1, <1>2, <1>4
<1>6. PICK n \in D : Free(n) /\ Cleared(flag, reserved) = Prefixed(flag, n)
  BY <1>5 DEF Cleared
<1> QED BY <1>2, <1>6, PrefixedIs
LEMMA FlagsIs ==
  ASSUME NEW params \in Seq(Param), NEW reserved, IsFiniteSet(reserved),
         NEW flags, flags = Flags(params, reserved)
  PROVE  /\ Len(flags) = Len(params) /\ Distinct(flags)
         /\ \A i \in DOMAIN flags : flags[i] \notin reserved
<1> DEFINE V == {s \in Seq(Name) : Distinct(s) /\ \A i \in DOMAIN s : s[i] \notin reserved}
           New(s, p) == FirstFree(Cleared(Kebab(p.wire), reserved), ToSet(s) \cup reserved, 1)
           E(s, p) == Append(s, New(s, p))
           step == [x \in V \X Param |-> E(x[1], x[2])]
           named == CHOOSE f : f = [ps \in Seq(Param) |->
                                       IF ps = <<>> THEN <<>> ELSE E(f[Front(ps)], Last(ps))]
<1>1. ASSUME NEW s \in V, NEW p \in Param PROVE E(s, p) \in V /\ Len(E(s, p)) = Len(s) + 1
  <2> DEFINE taken == ToSet(s) \cup reserved
             flag == New(s, p)
  <2>1. s \in Seq(Name) /\ Distinct(s) /\ \A i \in DOMAIN s : s[i] \notin reserved
    OBVIOUS
  <2>2. IsFiniteSet(taken)
    BY <2>1, ToSetIs, FS_Union
  <2>3. Kebab(p.wire) \in Name
    BY SurfaceAssumption DEF Kebab, Param
  <2>4. Cleared(Kebab(p.wire), reserved) \in Name
    BY <2>3, ClearedIs
  <2>5. flag \in Name /\ flag \notin taken
    <3> HIDE DEF taken
    <3>1. flag = FirstFree(Cleared(Kebab(p.wire), reserved), taken, 1)
      BY DEF taken
    <3> HIDE DEF flag
    <3> QED BY <2>2, <2>4, <3>1, FirstFreeIs
  <2> DEFINE a == Append(s, flag)
  <2> HIDE DEF flag
  <2>6. a \in Seq(Name) /\ Len(a) = Len(s) + 1 /\ Distinct(a)
    BY <2>1, <2>5, AppendProperties, AppendIsDistinct
  <2>7. \A i \in DOMAIN a : a[i] \notin reserved
    <3>1. /\ Len(s) \in Nat /\ DOMAIN s = 1 .. Len(s) /\ DOMAIN a = 1 .. Len(s) + 1
          /\ a[Len(s) + 1] = flag /\ \A i \in 1 .. Len(s) : a[i] = s[i]
      BY <2>1, <2>5, AppendProperties, LenProperties
    <3>2. \A i \in 1 .. Len(s) + 1 : i \in 1 .. Len(s) \/ i = Len(s) + 1
      BY <3>1
    <3> HIDE DEF a
    <3> QED BY <2>1, <2>5, <3>1, <3>2
  <2> HIDE DEF a
  <2>8. a \in V /\ E(s, p) = a
    BY <2>6, <2>7 DEF a, flag
  <2> HIDE DEF V, E
  <2> QED BY <2>6, <2>8
<1>2. <<>> \in V
  BY EmptySeq DEF Distinct
<1>3. \A s \in V : s \in Seq(Name) /\ Distinct(s) /\ \A i \in DOMAIN s : s[i] \notin reserved
  OBVIOUS
<1>4. \A s : Flags(s, reserved) = named[s]
  BY DEF Flags
<1> HIDE DEF V, E
<1>5. step \in [V \X Param -> V] /\ \A s \in V, p \in Param : step[<<s, p>>] = E(s, p)
  BY <1>1
<1> HIDE DEF step
<1>6. PICK f \in [Seq(Param) -> V] :
        \A s \in Seq(Param) : f[s] = IF s = <<>> THEN <<>> ELSE step[<<f[Front(s)], Last(s)>>]
  <2>1. FoldIsDefined(Param, V, <<>>, step)
    BY <1>2, <1>5, FoldOverSeq
  <2> QED BY <2>1 DEF FoldIsDefined
<1>7. f = [s \in Seq(Param) |-> IF s = <<>> THEN <<>> ELSE E(f[Front(s)], Last(s))]
  <2>1. \A s \in Seq(Param) : s # <<>> => Front(s) \in Seq(Param) /\ Last(s) \in Param
    BY FrontAndLast
  <2> QED BY <1>5, <1>6, <2>1
<1>8. named = [s \in Seq(Param) |-> IF s = <<>> THEN <<>> ELSE E(named[Front(s)], Last(s))]
  BY <1>7
<1> HIDE DEF named
<1> DEFINE Z == {s \in Seq(Param) : named[s] \in V /\ Len(named[s]) = Len(s)}
<1>9. <<>> \in Z
  <2>1. <<>> \in Seq(Param)
    BY EmptySeq
  <2> QED BY <1>2, <1>8, <2>1
<1>10. ASSUME NEW s \in Seq(Param), NEW p \in Param, s \in Z PROVE Append(s, p) \in Z
  <2> DEFINE a == Append(s, p)
  <2>1. a \in Seq(Param) /\ a # <<>> /\ Front(a) = s /\ Last(a) = p /\ Len(a) = Len(s) + 1
    BY FrontOfAppend, AppendProperties
  <2> HIDE DEF a
  <2>2. named[a] = E(named[s], p)
    BY <1>8, <2>1
  <2>3. E(named[s], p) \in V /\ Len(E(named[s], p)) = Len(named[s]) + 1
    BY <1>1, <1>10
  <2>4. a \in Z
    BY <1>10, <2>1, <2>2, <2>3
  <2> QED BY <2>4 DEF a
<1>11. Seq(Param) \subseteq Z
  <2> HIDE DEF Z
  <2> QED BY <1>9, <1>10, InductionOverAppend
<1> QED BY <1>3, <1>4, <1>11
---------------------------------------------------------------------------
(* The surface.                                                            *)

SurfaceInv ==
  /\ SurfaceTypeOK
  /\ IsFiniteSet(item.reserved) /\ NoTwice(item.shared) /\ NoTwice(item.own)

LEMMA OneMoreIsTold ==
  ASSUME NEW s \in Seq(Param), NoTwice(s), NEW p \in Param, IsNew(p, s)
  PROVE  Append(s, p) \in Seq(Param) /\ NoTwice(Append(s, p))
<1> DEFINE a == Append(s, p)
           n == Len(s)
<1>1. /\ a \in Seq(Param) /\ Len(a) = n + 1 /\ a[n + 1] = p /\ n \in Nat /\ DOMAIN s = 1 .. n
      /\ \A i \in 1 .. n : a[i] = s[i]
  BY AppendProperties, LenProperties
<1>2. \A i \in 1 .. n : ~SameParam(s[i], p) /\ ~SameParam(p, s[i])
  BY <1>1 DEF IsNew, SameParam
<1>3. \A i \in 1 .. n + 1 : i \in 1 .. n \/ i = n + 1
  BY <1>1
<1> HIDE DEF a, n
<1>4. ASSUME NEW i \in 1 .. n + 1, NEW j \in 1 .. n + 1, SameParam(a[i], a[j]) PROVE i = j
  <2>1. CASE i \in 1 .. n /\ j \in 1 .. n
    BY <1>1, <1>4, <2>1 DEF NoTwice, n
  <2>2. CASE i \in 1 .. n /\ j = n + 1
    BY <1>1, <1>2, <1>4, <2>2
  <2>3. CASE i = n + 1 /\ j \in 1 .. n
    BY <1>1, <1>2, <1>4, <2>3
  <2> QED BY <1>3, <2>1, <2>2, <2>3
<1>5. NoTwice(a)
  BY <1>1, <1>4 DEF NoTwice
<1> QED BY <1>1, <1>5 DEF a

\* What a document declares stays told apart, and what a consumer reserves finite
\* (methods_of, ReducerConfig).
THEOREM SurfaceInvariance == SurfaceSpec => []SurfaceInv
<1>1. SurfaceInit => SurfaceInv
  <2> SUFFICES ASSUME SurfaceInit PROVE SurfaceInv
    OBVIOUS
  <2>1. operations = <<>> /\ item.shared = <<>> /\ item.own = <<>> /\ item.template = <<>> /\ item.reserved = {}
    BY DEF SurfaceInit, NoItem
  <2>2. item = [shared |-> item.shared, own |-> item.own, template |-> item.template, reserved |-> item.reserved]
    BY DEF SurfaceInit, NoItem
  <2>3. <<>> \in Seq(Operation) /\ <<>> \in Seq(Param) /\ <<>> \in Seq(Wires) /\ Len(<<>>) = 0
    BY EmptySeq
  <2>4. NoTwice(<<>>)
    BY <2>3 DEF NoTwice
  <2>5. IsFiniteSet({})
    BY FS_EmptySet
  <2> QED BY <2>1, <2>2, <2>3, <2>4, <2>5, SurfaceAssumption DEF SurfaceInv, SurfaceTypeOK
<1>2. SurfaceInv /\ [SurfaceNext]_surfaceVars => SurfaceInv'
  <2> SUFFICES ASSUME SurfaceInv, [SurfaceNext]_surfaceVars PROVE SurfaceInv'
    OBVIOUS
  <2>0. /\ operations \in Seq(Operation) /\ Len(operations) <= MaxOperations
        /\ item = [shared |-> item.shared, own |-> item.own, template |-> item.template, reserved |-> item.reserved]
        /\ item.shared \in Seq(Param) /\ item.own \in Seq(Param) /\ item.template \in Seq(Wires)
        /\ \A f \in item.reserved : f \in Reservable
        /\ IsFiniteSet(item.reserved) /\ NoTwice(item.shared) /\ NoTwice(item.own)
    BY DEF SurfaceInv, SurfaceTypeOK
  <2>1. CASE Describe
    <3>1. PICK op \in Operation : operations' = Append(operations, op)
      BY <2>1 DEF Describe
    <3>2. item' = item /\ Len(operations) < MaxOperations /\ Len(operations) \in Nat
      BY <2>0, <2>1, LenProperties DEF Describe
    <3>3. operations' \in Seq(Operation) /\ Len(operations') = Len(operations) + 1
      BY <2>0, <3>1, AppendProperties
    <3>4. Len(operations') <= MaxOperations
      BY <3>2, <3>3, SurfaceAssumption
    <3> QED BY <2>0, <3>2, <3>3, <3>4 DEF SurfaceInv, SurfaceTypeOK
  <2>2. ASSUME NEW p \in Param, DeclareShared(p), operations' = operations PROVE SurfaceInv'
    <3>1. item' = [shared |-> Append(item.shared, p), own |-> item.own, template |-> item.template, reserved |-> item.reserved]
      BY <2>0, <2>2 DEF DeclareShared
    <3>2. Append(item.shared, p) \in Seq(Param) /\ NoTwice(Append(item.shared, p))
      BY <2>0, <2>2, OneMoreIsTold DEF DeclareShared
    <3> QED BY <2>0, <2>2, <3>1, <3>2 DEF SurfaceInv, SurfaceTypeOK
  <2>3. ASSUME NEW p \in Param, DeclareOwn(p), operations' = operations PROVE SurfaceInv'
    <3>1. item' = [shared |-> item.shared, own |-> Append(item.own, p), template |-> item.template, reserved |-> item.reserved]
      BY <2>0, <2>3 DEF DeclareOwn
    <3>2. Append(item.own, p) \in Seq(Param) /\ NoTwice(Append(item.own, p))
      BY <2>0, <2>3, OneMoreIsTold DEF DeclareOwn
    <3> QED BY <2>0, <2>3, <3>1, <3>2 DEF SurfaceInv, SurfaceTypeOK
  <2>4. ASSUME NEW w \in Wires, item' = [item EXCEPT !.template = Append(@, w)], operations' = operations
        PROVE  SurfaceInv'
    <3>1. item' = [shared |-> item.shared, own |-> item.own, template |-> Append(item.template, w), reserved |-> item.reserved]
      BY <2>0, <2>4
    <3>2. Append(item.template, w) \in Seq(Wires)
      BY <2>0, AppendProperties
    <3> QED BY <2>0, <2>4, <3>1, <3>2 DEF SurfaceInv, SurfaceTypeOK
  <2>5. ASSUME NEW f \in Reservable, item' = [item EXCEPT !.reserved = @ \cup {f}], operations' = operations
        PROVE  SurfaceInv'
    <3>1. item' = [shared |-> item.shared, own |-> item.own, template |-> item.template, reserved |-> item.reserved \cup {f}]
      BY <2>0, <2>5
    <3>2. IsFiniteSet(item.reserved \cup {f})
      BY <2>0, FS_AddElement
    <3> QED BY <2>0, <2>5, <3>1, <3>2 DEF SurfaceInv, SurfaceTypeOK
  <2>6. CASE Extend
    BY <2>2, <2>3, <2>4, <2>5, <2>6 DEF Extend
  <2>7. CASE UNCHANGED surfaceVars
    <3>1. operations' = operations /\ item' = item
      BY <2>7 DEF surfaceVars
    <3> QED BY <2>0, <3>1 DEF SurfaceInv, SurfaceTypeOK
  <2> QED BY <2>1, <2>6, <2>7 DEF SurfaceNext
<1> QED BY <1>1, <1>2, PTL DEF SurfaceSpec

\* Whatever a document declares and a consumer reserves, every operation has a
\* command of its own and every input a flag of its own that is not reserved; every
\* placeholder has its positional, and every option is there once, in the operation's
\* own declaration where it has one (reduce_methods, override_params, finish_params).
THEOREM CallableSurface == SurfaceSpec => []SurfaceIsCallable
<1>1. SurfaceInv => SurfaceIsCallable
  <2> SUFFICES ASSUME SurfaceInv PROVE SurfaceIsCallable
    OBVIOUS
  <2> DEFINE own == item.own
             shared == item.shared
             laid == OverrideParams(shared, own)
             params == Ordered(item.template, laid)
             flags == Flags(params, item.reserved)
             m == FinishParams(item.template, laid, item.reserved)
  <2>1. m.params = params /\ m.flags = flags
    BY DEF FinishParams
  <2>2. Len(ReduceMethods[operations]) = Len(operations) /\ Distinct(ReduceMethods[operations])
    BY NamesAreDistinct DEF SurfaceInv, SurfaceTypeOK
  <2>3. /\ shared \in Told /\ own \in Told /\ item.template \in Seq(Wires) /\ IsFiniteSet(item.reserved)
        /\ own \in Seq(Param) /\ shared \in Seq(Param)
    BY DEF SurfaceInv, SurfaceTypeOK, Told
  <2>4. /\ laid \in Told
        /\ \A k \in 1 .. Len(own) : \E i \in 1 .. Len(laid) : laid[i] = own[k]
        /\ \A k \in 1 .. Len(shared) : \E i \in 1 .. Len(laid) : SameParam(laid[i], shared[k])
    <3> HIDE DEF own, shared
    <3> QED BY <2>3, OverrideIs
  <2> HIDE DEF laid
  <2>5. /\ params \in Seq(Param)
        /\ \A i \in 1 .. Len(item.template) : params[i].location = "path" /\ params[i].wire = item.template[i]
        /\ \A k \in 1 .. Len(laid) :
             laid[k].location # "path" =>
               \E i \in 1 .. Len(params) : /\ params[i] = laid[k]
                                           /\ \A j \in 1 .. Len(params) : SameParam(params[j], laid[k]) => j = i
    <3>1. params = Ordered(item.template, laid) /\ item.template \in Seq(Wires) /\ laid \in Told
      BY <2>3, <2>4
    <3> HIDE DEF params
    <3> QED BY <3>1, OrderedIs
  <2> HIDE DEF params
  <2>6. /\ Len(flags) = Len(params) /\ Distinct(flags)
        /\ \A i \in DOMAIN flags : flags[i] \notin item.reserved
    BY <2>3, <2>5, FlagsIs
  <2> HIDE DEF flags
  <2>7. DOMAIN params = 1 .. Len(params) /\ DOMAIN item.template = 1 .. Len(item.template)
    BY <2>3, <2>5, LenProperties
  <2>8. ASSUME NEW p, p \in ToSet(own) \/ p \in ToSet(shared), p.location # "path"
        PROVE  \E i \in DOMAIN params : /\ SameParam(params[i], p)
                                        /\ p \in ToSet(own) => params[i] = p
                                        /\ \A j \in DOMAIN params : SameParam(params[j], p) => j = i
    <3>1. PICK k \in 1 .. Len(laid) : SameParam(laid[k], p) /\ (p \in ToSet(own) => laid[k] = p)
      <4>1. CASE p \in ToSet(own)
        <5>1. PICK l \in 1 .. Len(own) : own[l] = p
          BY <2>3, <4>1, ToSetIs
        <5> QED BY <2>4, <5>1 DEF SameParam
      <4>2. CASE p \notin ToSet(own)
        <5>1. PICK l \in 1 .. Len(shared) : shared[l] = p
          BY <2>3, <2>8, <4>2, ToSetIs
        <5> QED BY <2>4, <4>2, <5>1
      <4> QED BY <4>1, <4>2
    <3>2. PICK i \in 1 .. Len(params) : /\ params[i] = laid[k]
                                        /\ \A j \in 1 .. Len(params) : SameParam(params[j], laid[k]) => j = i
      BY <2>5, <2>8, <3>1 DEF SameParam
    <3>3. \A j \in 1 .. Len(params) : SameParam(params[j], p) => SameParam(params[j], laid[k])
      BY <3>1 DEF SameParam
    <3> QED BY <2>7, <3>1, <3>2, <3>3
  <2> HIDE DEF m, own, shared
  <2>9. SurfaceIsCallable <=>
          /\ Len(ReduceMethods[operations]) = Len(operations) /\ Distinct(ReduceMethods[operations])
          /\ Len(m.flags) = Len(m.params) /\ Distinct(m.flags)
          /\ \A i \in DOMAIN m.flags : m.flags[i] \notin item.reserved
          /\ \A i \in DOMAIN item.template :
               m.params[i].location = "path" /\ m.params[i].wire = item.template[i]
          /\ \A p \in ToSet(own) \cup ToSet(shared) :
               p.location # "path" =>
                 \E i \in DOMAIN m.params :
                   /\ SameParam(m.params[i], p)
                   /\ p \in ToSet(own) => m.params[i] = p
                   /\ \A j \in DOMAIN m.params : SameParam(m.params[j], p) => j = i
    BY DEF SurfaceIsCallable, m, own, shared, laid
  <2> QED BY <2>1, <2>2, <2>5, <2>6, <2>7, <2>8, <2>9
<1> QED BY <1>1, SurfaceInvariance, PTL
=============================================================================
