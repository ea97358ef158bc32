------------------------------ MODULE SpecCache ------------------------------
(***************************************************************************)
(* The cached cassette surface of one server: cache.rs, over the server    *)
(* and the transport (external) and a file that several CLI processes read *)
(* and replace without a lock.                                             *)
(*                                                                         *)
(* Times are ages: how long ago an entry was stamped, how long ago a       *)
(* version ceased to be the one served.  They saturate where nothing       *)
(* compares them any more.  What the code computes with is the wall clock, *)
(* which may be set: an entry keeps what it was ahead by when it was       *)
(* stamped, and shows its age by the clock as it is now.                   *)
(***************************************************************************)
EXTENDS Integers

CONSTANTS
  Processes,
  Cassettes,
  Tagged,      \* those whose documents come with an ETag
  Versions,    \* the last version of a document
  Window,      \* revalidate_after
  Deadline,    \* load_live's; load has none, and neither has the transport
  Slow,        \* a revalidation that has taken this long may take any time
  Drift,       \* how far apart the wall clock is ever set
  None

ASSUME ConstantsAssumption ==
  /\ Tagged \subseteq Cassettes
  /\ Versions \in Nat \ {0} /\ Window \in Nat \ {0}
  /\ Deadline \in Nat /\ Slow \in Nat /\ Deadline < Slow /\ Drift \in Nat
  /\ None \notin Int /\ \A listed \in SUBSET Cassettes : None # listed
  /\ None \notin [version : 1 .. Versions, etag : (1 .. Versions) \cup {None}]

VARIABLES
  served,      \* the cassettes the server lists with a document
  version,     \* the version it serves of each
  since,       \* how long ago each version ceased to be served
  clock,       \* how far the wall clock is ahead
  disk,        \* the cache file: None or an entry
  phase,       \* of each process
  live,        \* whether it is in load_live
  had,         \* the documents it has read from the cache
  listing,     \* what discovery has told it, None while it has not answered
  todo, docs,  \* the documents to fetch, and those it has; once done, its answer
  kept,        \* those of them that could not be fetched
  waited,      \* how long it has been, or was, revalidating
  stamp        \* that of the entry that it is about to write

server  == <<served, version, since>>
process == <<phase, live, had, listing, todo, docs, kept, waited, stamp>>
vars    == <<server, clock, disk, process>>

Expired == Window + Drift             \* no longer fresh by any clock
Forever == Window + Drift + Slow
Least(a, b) == IF a < b THEN a ELSE b

Doc == [version : 1 .. Versions, etag : (1 .. Versions) \cup {None}]
Docs == [Cassettes -> Doc \cup {None}]
NoDocs == [c \in Cassettes |-> None]

\* How long ago an entry was stamped, and by which clock (revalidated_at); what the
\* revalidation that made it took, and what it could not fetch (history).
Stamp == [age : 0 .. Expired, clock : 0 .. Drift]
Unstamped == [age |-> 0, clock |-> 0]
Entry == [stamp : Stamp, took : 0 .. Slow, docs : Docs, kept : SUBSET Cassettes]

TypeOK ==
  /\ served \in SUBSET Cassettes
  /\ version \in [Cassettes -> 1 .. Versions]
  /\ since \in [Cassettes -> [1 .. Versions -> 0 .. Forever]]
  /\ clock \in 0 .. Drift
  /\ disk \in Entry \cup {None}
  /\ phase \in [Processes -> {"idle", "discover", "specs", "write", "done"}]
  /\ live \in [Processes -> BOOLEAN]
  /\ had \in [Processes -> Docs] /\ docs \in [Processes -> Docs]
  /\ listing \in [Processes -> (SUBSET Cassettes) \cup {None}]
  /\ todo \in [Processes -> SUBSET Cassettes] /\ kept \in [Processes -> SUBSET Cassettes]
  /\ waited \in [Processes -> 0 .. Slow]
  /\ stamp \in [Processes -> Stamp]

Init ==
  /\ served \in SUBSET Cassettes
  /\ version = [c \in Cassettes |-> 1]
  /\ since = [c \in Cassettes |-> [v \in 1 .. Versions |-> 0]]
  /\ clock \in 0 .. Drift
  /\ disk = None
  /\ phase = [p \in Processes |-> "idle"] /\ live = [p \in Processes |-> FALSE]
  /\ had = [p \in Processes |-> NoDocs] /\ docs = [p \in Processes |-> NoDocs]
  /\ listing = [p \in Processes |-> None]
  /\ todo = [p \in Processes |-> {}] /\ kept = [p \in Processes |-> {}]
  /\ waited = [p \in Processes |-> 0] /\ stamp = [p \in Processes |-> Unstamped]

---------------------------------------------------------------------------
(* The server and the clock.                                               *)

Publish(c) ==
  /\ version[c] < Versions
  /\ version' = [version EXCEPT ![c] = @ + 1]
  /\ UNCHANGED <<served, since, clock, disk, process>>

List(c) ==
  /\ served' = (IF c \in served THEN served \ {c} ELSE served \cup {c})
  /\ UNCHANGED <<version, since, clock, disk, process>>

Fetching(p) == phase[p] \in {"discover", "specs"}
Older(st) == [age |-> Least(st.age + 1, Expired), clock |-> st.clock]

\* Only load_live's revalidations are cut off (Timeout).
Tick ==
  /\ \A p \in Processes : Fetching(p) /\ live[p] => waited[p] < Deadline
  /\ since' = [c \in Cassettes |-> [v \in 1 .. Versions |->
                 IF v < version[c] THEN Least(since[c][v] + 1, Forever) ELSE 0]]
  /\ waited' = [p \in Processes |-> IF Fetching(p) THEN Least(waited[p] + 1, Slow) ELSE waited[p]]
  /\ stamp' = [p \in Processes |-> IF phase[p] = "write" THEN Older(stamp[p]) ELSE stamp[p]]
  /\ disk' = IF disk = None THEN None ELSE [disk EXCEPT !.stamp = Older(@)]
  /\ UNCHANGED <<served, version, clock, phase, live, had, listing, todo, docs, kept>>

\* The wall clock is set, forward or back.
SetClock ==
  /\ \E t \in 0 .. Drift : t # clock /\ clock' = t
  /\ UNCHANGED <<server, disk, process>>

---------------------------------------------------------------------------
(* One invocation.                                                         *)

\* The age that the wall clock shows, negative for a stamp in the future.
Shown(st) == st.age + clock - st.clock

IsFresh(entry) == entry # None /\ Shown(entry.stamp) >= 0 /\ Shown(entry.stamp) < Window

Cached(entry) == IF entry = None THEN NoDocs ELSE entry.docs

\* The process moves on, and what it needs no more is gone.
Enter(p, ph, d) ==
  /\ phase' = [phase EXCEPT ![p] = ph] /\ docs' = [docs EXCEPT ![p] = d]
  /\ live' = [live EXCEPT ![p] = FALSE] /\ had' = [had EXCEPT ![p] = NoDocs]
  /\ listing' = [listing EXCEPT ![p] = None]
  /\ todo' = [todo EXCEPT ![p] = {}] /\ kept' = [kept EXCEPT ![p] = {}]
  /\ waited' = [waited EXCEPT ![p] = 0] /\ stamp' = [stamp EXCEPT ![p] = Unstamped]
  /\ UNCHANGED <<server, clock>>

\* load answers with an entry that is fresh.
Use(p) ==
  /\ phase[p] = "idle" /\ IsFresh(disk)
  /\ Enter(p, "done", disk.docs) /\ UNCHANGED disk

\* load_live always asks, and load when there is no such entry; an entry that
\* cannot be read or parsed is a miss.
Begin(p) ==
  /\ phase[p] = "idle"
  /\ \E inLive \in BOOLEAN, entry \in {disk, None} :
       /\ inLive \/ ~IsFresh(entry)
       /\ had' = [had EXCEPT ![p] = Cached(entry)] /\ live' = [live EXCEPT ![p] = inLive]
  /\ phase' = [phase EXCEPT ![p] = "discover"]
  /\ UNCHANGED <<server, clock, disk, listing, todo, docs, kept, waited, stamp>>

\* Mutant: what was cached is stamped anew, to be left alone for a window.
Restamped(p) ==
  /\ disk' = [stamp |-> [age |-> 0, clock |-> clock], took |-> 0, docs |-> had[p], kept |-> {}]
  /\ Enter(p, "done", had[p])

\* Whatever was cached stands in, however old, and nothing is written.
FallBack(p) == Enter(p, "done", had[p]) /\ UNCHANGED disk

NotDiscovered(p) == phase[p] = "discover" /\ FallBack(p)

\* Discovery answers.  A cassette that is listed without a document, or with an
\* empty path (has_spec), is passed over like one that is not listed.
Discover(p) ==
  /\ phase[p] = "discover" /\ phase' = [phase EXCEPT ![p] = "specs"]
  /\ listing' = [listing EXCEPT ![p] = served] /\ todo' = [todo EXCEPT ![p] = served]
  /\ UNCHANGED <<server, clock, disk, live, had, docs, kept, waited, stamp>>

Matches(previous, c) == previous # None /\ previous.etag = version[c]

\* Mutant: the validator of the previous document is kept with the new one.
OldTag(previous, c) ==
  IF Matches(previous, c) THEN previous
  ELSE [version |-> version[c],
        etag |-> IF previous # None THEN previous.etag ELSE IF c \in Tagged THEN version[c] ELSE None]

\* A 304 keeps the previous document; a document comes with its own ETag, if any.
Fetched(previous, c) ==
  IF Matches(previous, c) THEN previous
  ELSE [version |-> version[c], etag |-> IF c \in Tagged THEN version[c] ELSE None]

FetchSpec(p) ==
  /\ phase[p] = "specs"
  /\ \E c \in todo[p] :
       /\ docs' = [docs EXCEPT ![p] = [docs[p] EXCEPT ![c] = Fetched(had[p][c], c)]]
       /\ todo' = [todo EXCEPT ![p] = todo[p] \ {c}]
  /\ UNCHANGED <<server, clock, disk, phase, live, had, listing, kept, waited, stamp>>

\* Mutant: a cassette that is down is left out.
LeftOut(previous) == None

\* What was cached of a cassette whose document cannot be fetched is kept.
KeptOf(previous) == previous

NotFetched(p) ==
  /\ phase[p] = "specs"
  /\ \E c \in todo[p] :
       /\ docs' = [docs EXCEPT ![p] = [docs[p] EXCEPT ![c] = KeptOf(had[p][c])]]
       /\ kept' = [kept EXCEPT ![p] = kept[p] \cup {c}]
       /\ todo' = [todo EXCEPT ![p] = todo[p] \ {c}]
  /\ UNCHANGED <<server, clock, disk, phase, live, had, listing, waited, stamp>>

\* Revalidated: the entry is stamped by the clock as it is, and what was cached
\* before is of no more use.
Finish(p) ==
  /\ phase[p] = "specs" /\ todo[p] = {}
  /\ phase' = [phase EXCEPT ![p] = "write"]
  /\ live' = [live EXCEPT ![p] = FALSE]
  /\ stamp' = [stamp EXCEPT ![p] = [age |-> 0, clock |-> clock]]
  /\ had' = [had EXCEPT ![p] = NoDocs] /\ listing' = [listing EXCEPT ![p] = None]
  /\ UNCHANGED <<server, clock, disk, todo, docs, kept, waited>>

\* A file of its own, renamed over the entry; it may not be possible.
Write(p) ==
  /\ phase[p] = "write"
  /\ \/ disk' = [stamp |-> stamp[p], took |-> waited[p], docs |-> docs[p], kept |-> kept[p]]
     \/ UNCHANGED disk
  /\ Enter(p, "done", docs[p])

\* load_live's deadline: what was fetched is dropped with the call.
Timeout(p) == Fetching(p) /\ live[p] /\ waited[p] = Deadline /\ FallBack(p)

\* The process ends, of itself or killed at any time before.
End(p) == phase[p] # "idle" /\ Enter(p, "idle", NoDocs) /\ UNCHANGED disk

Invocation(p) ==
  \/ Use(p) \/ Begin(p) \/ NotDiscovered(p) \/ Discover(p) \/ FetchSpec(p) \/ NotFetched(p)
  \/ Finish(p) \/ Write(p) \/ Timeout(p) \/ End(p)

Next ==
  \/ \E c \in Cassettes : Publish(c) \/ List(c)
  \/ Tick \/ SetClock
  \/ \E p \in Processes : Invocation(p)

Spec == Init /\ [][Next]_vars

---------------------------------------------------------------------------
(* Properties.                                                             *)

\* An ETag in the cache is that of the document it is kept with: with another's,
\* every revalidation would be told that the wrong document is unchanged.
TagsMatch == \A c \in Cassettes : Cached(disk)[c] # None =>
  Cached(disk)[c].etag \in {None, Cached(disk)[c].version}

\* A surface that is used without asking was superseded less than a window ago, but
\* for the time that its revalidation took and as much as the clock has been set back
\* since: whichever process renamed its entry over whose and whatever failed.  Not so
\* the cassettes whose document could not be fetched, and nothing is said of a
\* revalidation that took Slow: without a deadline, it may have taken for ever.
FreshIsRecent ==
  IsFresh(disk) /\ disk.took < Slow =>
    \A c \in Cassettes \ disk.kept : disk.docs[c] # None =>
      since[c][disk.docs[c].version] < Window + disk.took + (disk.stamp.clock - clock)

\* A user loses a cassette that the cache had only to a listing that offers no document
\* of it: not to a dead server, nor to a slow one, nor to the cassette being down.
Survives ==
  [][\A p \in Processes : Fetching(p) /\ phase'[p] \in {"write", "done"} =>
       \A c \in Cassettes : had[p][c] # None =>
         docs'[p][c] # None \/ (listing[p] # None /\ c \notin listing[p])]_vars
=============================================================================
