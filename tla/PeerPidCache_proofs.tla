------------------------ MODULE PeerPidCache_proofs ------------------------
(***************************************************************************)
(* Proofs about the peer of a connection: which process it is              *)
(* (PeerPidCache), and whether that is the harness's (PeerTrust).          *)
(*                                                                         *)
(* Types and candidates are kept whatever the times are.  That no request  *)
(* is answered with another connection's process, but by a doubtful entry, *)
(* has a reason in two halves.  A lookup in flight keeps its address busy: *)
(* the address was in use when the lookup began, so it has rested for no   *)
(* longer than the lookup has run, and that is less than TimeWait.  An     *)
(* entry of the memo does the same for its own age, which is less than Ttl *)
(* and so than TimeWait, if it was written before the connection closed;   *)
(* one written later has the lookup that wrote it added to its age, and is *)
(* doubtful where the sum reaches TimeWait.                                *)
(*                                                                         *)
(* A walk up the process tree stays where it began: no process that is     *)
(* none of the harness's is the child of one, so a walk from a stranger    *)
(* meets strangers only; and a walk up a whole line always has at least as *)
(* many hops left as the line has processes.                               *)
(***************************************************************************)
EXTENDS PeerPidCache, PeerTrust, FiniteSetTheorems, TLAPS

\* Every attempt that is under way was granted.
Granted(l) == l.phase \in {"check", "scan"} => l.left > 0

\* The address of a lookup in flight still belongs to the request's process.
KeepsAddress(l) ==
  l.phase \in {"check", "scan", "found"} =>
    /\ l.truth = holder[l.peer]
    /\ closed[l.peer] => quiet[l.peer] <= l.age

\* What a lookup found is its request's process, and what it answered, if it
\* does not doubt it.
Sound(l) ==
  /\ l.phase = "found" => l.pid = l.truth
  /\ l.phase = "done" /\ ~l.doubt => l.pid = NoPid \/ l.pid = l.truth

\* It is one that the caller asked about.
Listed(l) ==
  /\ l.phase = "found" => l.pid \in l.among
  /\ l.phase = "done" => l.pid \in l.among \cup {NoPid}

\* The address of an entry that can still answer, and is not doubtful, still
\* belongs to the entry's process.
Describes(p) ==
  cache[p] # NoEntry /\ cache[p].age < Ttl /\ ~Doubtful(cache[p]) =>
    /\ cache[p].pid = holder[p]
    /\ closed[p] /\ ~cache[p].late => quiet[p] <= cache[p].age
    /\ closed[p] => quiet[p] <= cache[p].age + Lag

\* Types, the retry count and the candidates: what every step keeps, whatever the
\* times are.
TypeInv ==
  /\ TypeOK
  /\ \A r \in Requests : Granted(lookup[r]) /\ Listed(lookup[r])

IInv ==
  /\ TypeInv
  /\ \A p \in Peers : ~closed[p] => quiet[p] = 0
  /\ \A r \in Requests : KeepsAddress(lookup[r]) /\ Sound(lookup[r])
  /\ \A p \in Peers : Describes(p)

---------------------------------------------------------------------------
\* A lookup that is moved on keeps what is about its request (With).
LEMMA WithType ==
  ASSUME NEW l \in Lookup, NEW phase \in Phase, NEW left \in 0 .. Attempts,
         NEW among \in SUBSET Pids, NEW pid \in Pids \cup {NoPid}, NEW doubt \in BOOLEAN
  PROVE  /\ With(l, phase, left, among, pid, doubt) \in Lookup
         /\ With(l, phase, left, among, pid, doubt).phase = phase
         /\ With(l, phase, left, among, pid, doubt).peer = l.peer
         /\ With(l, phase, left, among, pid, doubt).truth = l.truth
         /\ With(l, phase, left, among, pid, doubt).left = left
         /\ With(l, phase, left, among, pid, doubt).among = among
         /\ With(l, phase, left, among, pid, doubt).pid = pid
         /\ With(l, phase, left, among, pid, doubt).age = l.age
         /\ With(l, phase, left, among, pid, doubt).doubt = doubt
BY DEF With, Lookup

\* What a step of the lookup r makes of it, and of the memo.
Moves(r, l) ==
  /\ lookup' = [lookup EXCEPT ![r] = l]
  /\ UNCHANGED <<holder, closed, quiet>>

\* A step that moves only the lookup r on to l.
LEMMA LookupTypes ==
  ASSUME TypeInv, NEW r \in Requests, NEW l \in Lookup, Moves(r, l), cache' \in [Peers -> CacheEntry],
         Granted(l), Listed(l)
  PROVE  /\ TypeInv'
         /\ \A q \in Requests : lookup'[q] = IF q = r THEN l ELSE lookup[q]
<1>1. lookup' \in [Requests -> Lookup] /\ \A q \in Requests :
        lookup'[q] = IF q = r THEN l ELSE lookup[q]
  BY DEF Moves, TypeInv, TypeOK
<1>2. \A q \in Requests : Granted(lookup[q])' /\ Listed(lookup[q])'
  BY <1>1 DEF TypeInv, Granted, Listed
<1>3. TypeOK'
  BY <1>1 DEF Moves, TypeInv, TypeOK
<1> QED BY <1>1, <1>2, <1>3 DEF TypeInv

\* What each lookup's step moves it on to.
LEMMA MissMoves ==
  ASSUME TypeInv, NEW r \in Requests, lookup[r].phase \in {"check", "scan"}, Miss(r),
         UNCHANGED <<holder, closed, quiet, cache>>
  PROVE  \E l \in Lookup :
           /\ Moves(r, l) /\ cache' = cache /\ Granted(l) /\ Listed(l)
           /\ l.phase \in {"check", "done"} /\ l.pid = NoPid
           /\ l.peer = lookup[r].peer /\ l.truth = lookup[r].truth /\ l.age = lookup[r].age
<1> DEFINE phase == IF lookup[r].left > 1 THEN "check" ELSE "done"
           no    == FALSE
           l     == With(lookup[r], phase, lookup[r].left - 1, {}, NoPid, no)
<1>1. lookup \in [Requests -> Lookup] /\ lookup[r] \in Lookup /\ lookup[r].left > 0
  BY DEF TypeInv, TypeOK, Granted
<1>2. lookup[r].left - 1 \in 0 .. Attempts /\ phase \in Phase /\ no \in BOOLEAN
  BY <1>1, ConstantsAssumption DEF Lookup, Phase
<1>3. /\ l \in Lookup /\ l.phase = phase /\ l.peer = lookup[r].peer
      /\ l.truth = lookup[r].truth /\ l.left = lookup[r].left - 1
      /\ l.pid = NoPid /\ l.age = lookup[r].age
  <2> HIDE DEF phase, no
  <2> QED BY <1>1, <1>2, WithType
<1>4. Moves(r, l)
  BY DEF Miss, Moves
<1>5. Granted(l) /\ Listed(l)
  <2> HIDE DEF l
  <2> QED BY <1>1, <1>3, ConstantsAssumption DEF Granted, Listed, Lookup
<1>6. l.phase \in {"check", "done"}
  BY <1>3
<1> HIDE DEF l, phase
<1> QED BY <1>3, <1>4, <1>5, <1>6

LEMMA BeginMoves ==
  ASSUME NEW r \in Requests, NEW p \in Peers, NEW n \in {1, Attempts},
         holder \in [Peers -> Pids], Begin(r, p, n)
  PROVE  \E l \in Lookup :
           /\ Moves(r, l) /\ cache' = cache /\ Granted(l) /\ Listed(l)
           /\ l.phase = "check" /\ l.peer = p /\ l.truth = holder[p] /\ l.age = 0
<1> DEFINE l == [phase |-> "check", peer |-> p, truth |-> holder[p], left |-> n,
                 among |-> {}, pid |-> NoPid, age |-> 0, doubt |-> FALSE]
<1>1. l \in Lookup
  BY ConstantsAssumption DEF Lookup, Phase
<1>2. Moves(r, l) /\ cache' = cache
  BY DEF Begin, Moves
<1>3. Granted(l) /\ Listed(l)
  BY ConstantsAssumption DEF Granted, Listed
<1>4. l.phase = "check" /\ l.peer = p /\ l.truth = holder[p] /\ l.age = 0
  OBVIOUS
<1> HIDE DEF l
<1> QED BY <1>1, <1>2, <1>3, <1>4

LEMMA CheckMoves ==
  ASSUME TypeInv, NEW r \in Requests, NEW among \in SUBSET Pids, Check(r, among)
  PROVE  \E l \in Lookup :
           /\ Moves(r, l) /\ Granted(l) /\ Listed(l) /\ lookup[r].phase = "check"
           /\ l.peer = lookup[r].peer /\ l.truth = lookup[r].truth /\ l.age = lookup[r].age
           /\ \/ l.phase = "scan"
              \/ /\ l.phase = "done" /\ Hit(cache[l.peer], among)
                 /\ l.pid = cache[l.peer].pid /\ l.doubt = Doubtful(cache[l.peer])
           /\ cache' = cache \/ cache' = [cache EXCEPT ![l.peer] = NoEntry]
<1> DEFINE p     == lookup[r].peer
           hit   == Hit(cache[p], among)
           phase == IF hit THEN "done" ELSE "scan"
           pid   == IF hit THEN cache[p].pid ELSE NoPid
           doubt == hit /\ Doubtful(cache[p])
           l     == With(lookup[r], phase, lookup[r].left, among, pid, doubt)
<1>1. /\ lookup[r] \in Lookup /\ p \in Peers /\ lookup[r].left \in 0 .. Attempts
      /\ phase \in Phase /\ pid \in Pids \cup {NoPid}
  BY DEF TypeInv, TypeOK, Lookup, Phase, CacheEntry
<1>2. cache[p] \in CacheEntry /\ doubt \in BOOLEAN
  BY <1>1 DEF TypeInv, TypeOK, CacheEntry, Doubtful, Hit
<1>3. /\ l \in Lookup /\ l.phase = phase /\ l.peer = p
      /\ l.truth = lookup[r].truth /\ l.left = lookup[r].left
      /\ l.among = among /\ l.pid = pid /\ l.age = lookup[r].age /\ l.doubt = doubt
  <2> HIDE DEF phase, pid, doubt
  <2> QED BY <1>1, <1>2, WithType
<1>4. lookup[r].phase = "check" /\ lookup[r].left > 0 /\ (hit => pid \in among)
  BY <1>2 DEF Check, TypeInv, Granted, Hit
<1>5. Granted(l) /\ Listed(l)
  <2> HIDE DEF l, hit
  <2> QED BY <1>3, <1>4 DEF Granted, Listed
<1>6. /\ Moves(r, l)
      /\ cache' = cache \/ cache' = [cache EXCEPT ![p] = NoEntry]
  BY DEF Check, Moves
<1>7. l.phase = "scan" \/ (l.phase = "done" /\ hit /\ l.pid = cache[p].pid /\ l.doubt = Doubtful(cache[p]))
  <2>1. CASE hit
    <3>1. pid = cache[p].pid /\ phase = "done" /\ doubt = Doubtful(cache[p])
      BY <1>2, <2>1 DEF Doubtful
    <3> HIDE DEF l, phase, pid, doubt
    <3> QED BY <1>3, <2>1, <3>1
  <2>2. CASE ~hit
    <3> HIDE DEF l, hit
    <3> QED BY <1>3, <2>2
  <2> QED BY <2>1, <2>2
<1> HIDE DEF l, phase, pid, doubt
<1> QED BY <1>3, <1>4, <1>5, <1>6, <1>7

LEMMA ScanFindsMoves ==
  ASSUME TypeInv, NEW r \in Requests, ScanFinds(r)
  PROVE  \E l \in Lookup :
           /\ Moves(r, l) /\ cache' = cache /\ Granted(l) /\ Listed(l)
           /\ lookup[r].phase = "scan" /\ l.phase = "found" /\ l.pid = holder[l.peer]
           /\ l.peer = lookup[r].peer /\ l.truth = lookup[r].truth /\ l.age = lookup[r].age
<1> DEFINE pid == holder[lookup[r].peer]
           no  == FALSE
           l   == With(lookup[r], "found", lookup[r].left - 1, lookup[r].among, pid, no)
<1>1. /\ lookup[r] \in Lookup /\ lookup[r].peer \in Peers
      /\ lookup[r].left - 1 \in 0 .. Attempts /\ lookup[r].among \in SUBSET Pids
      /\ pid \in Pids /\ "found" \in Phase /\ no \in BOOLEAN
  BY ConstantsAssumption DEF TypeInv, TypeOK, ScanFinds, Lookup, Granted, Phase
<1>2. /\ l \in Lookup /\ l.phase = "found" /\ l.peer = lookup[r].peer
      /\ l.truth = lookup[r].truth /\ l.among = lookup[r].among
      /\ l.pid = pid /\ l.age = lookup[r].age
  <2> HIDE DEF pid, no
  <2> QED BY <1>1, WithType
<1>3. lookup[r].phase = "scan" /\ pid \in lookup[r].among /\ Moves(r, l) /\ cache' = cache
  BY DEF ScanFinds, Moves
<1>4. Granted(l) /\ Listed(l) /\ l.pid = holder[l.peer]
  <2> HIDE DEF l
  <2> QED BY <1>2, <1>3 DEF Granted, Listed
<1> HIDE DEF l
<1> QED BY <1>2, <1>3, <1>4

LEMMA MemoizeMoves ==
  ASSUME TypeInv, NEW r \in Requests, Memoize(r)
  PROVE  \E l \in Lookup :
           /\ Moves(r, l) /\ Granted(l) /\ Listed(l)
           /\ lookup[r].phase = "found" /\ l.phase = "done" /\ l.pid = lookup[r].pid
           /\ l.peer = lookup[r].peer /\ l.truth = lookup[r].truth
           /\ cache' = [cache EXCEPT ![l.peer] = EntryOf(lookup[r].pid, 0, closed[l.peer])]
           /\ EntryOf(lookup[r].pid, 0, closed[l.peer]) \in CacheEntry
<1> DEFINE no == FALSE
           l  == With(lookup[r], "done", lookup[r].left, lookup[r].among, lookup[r].pid, no)
<1>1. /\ lookup[r] \in Lookup /\ lookup[r].pid \in Pids \cup {NoPid}
      /\ lookup[r].left \in 0 .. Attempts /\ lookup[r].among \in SUBSET Pids
      /\ lookup[r].peer \in Peers /\ "done" \in Phase /\ no \in BOOLEAN
      /\ closed[lookup[r].peer] \in BOOLEAN
  BY DEF TypeInv, TypeOK, Lookup, Phase
<1>2. /\ l \in Lookup /\ l.phase = "done" /\ l.peer = lookup[r].peer
      /\ l.truth = lookup[r].truth /\ l.among = lookup[r].among /\ l.pid = lookup[r].pid
  <2> HIDE DEF no
  <2> QED BY <1>1, WithType
<1>3. lookup[r].phase = "found" /\ lookup[r].pid \in lookup[r].among /\ Moves(r, l)
  BY DEF Memoize, Moves, TypeInv, Listed
<1>4. /\ cache' = [cache EXCEPT ![lookup[r].peer] =
                     EntryOf(lookup[r].pid, 0, closed[lookup[r].peer])]
      /\ EntryOf(lookup[r].pid, 0, closed[lookup[r].peer]) \in CacheEntry
  BY <1>1, ConstantsAssumption DEF Memoize, EntryOf, CacheEntry
<1>5. Granted(l) /\ Listed(l)
  <2> HIDE DEF l
  <2> QED BY <1>2, <1>3 DEF Granted, Listed
<1> HIDE DEF l
<1> QED BY <1>2, <1>3, <1>4, <1>5

LEMMA LeaveMoves ==
  ASSUME TypeInv, NEW r \in Requests, Leave(r)
  PROVE  \E l \in Lookup :
           Moves(r, l) /\ cache' = cache /\ Granted(l) /\ Listed(l) /\ l.phase = "idle"
<1> DEFINE no == FALSE
           l  == With(lookup[r], "idle", 0, {}, NoPid, no)
<1>1. lookup[r] \in Lookup /\ 0 \in 0 .. Attempts /\ "idle" \in Phase /\ no \in BOOLEAN
  BY ConstantsAssumption DEF TypeInv, TypeOK, Phase
<1>2. l \in Lookup /\ l.phase = "idle"
  <2> HIDE DEF no
  <2> QED BY <1>1, WithType
<1>3. Granted(l) /\ Listed(l)
  <2> HIDE DEF l
  <2> QED BY <1>2 DEF Granted, Listed
<1>4. Moves(r, l) /\ cache' = cache
  BY DEF Leave, Moves
<1> HIDE DEF l
<1> QED BY <1>2, <1>3, <1>4

\* What time does to every variable.
LEMMA TickIs ==
  ASSUME TypeInv, Tick
  PROVE  /\ \A p \in Peers : quiet'[p] = IF closed[p] THEN Older(quiet[p], TimeWait) ELSE 0
         /\ \A p \in Peers : cache'[p] =
              IF cache[p] = NoEntry THEN NoEntry
              ELSE EntryOf(cache[p].pid, Older(cache[p].age, Ttl), cache[p].late)
         /\ \A r \in Requests :
              /\ lookup'[r] \in Lookup
              /\ lookup'[r].phase = lookup[r].phase /\ lookup'[r].peer = lookup[r].peer
              /\ lookup'[r].truth = lookup[r].truth /\ lookup'[r].left = lookup[r].left
              /\ lookup'[r].among = lookup[r].among /\ lookup'[r].pid = lookup[r].pid
              /\ lookup'[r].doubt = lookup[r].doubt
              /\ Active(r) => lookup'[r].age = lookup[r].age + 1
         /\ TypeInv'
<1>0. /\ holder \in [Peers -> Pids] /\ closed \in [Peers -> BOOLEAN]
      /\ quiet \in [Peers -> 0 .. TimeWait] /\ cache \in [Peers -> CacheEntry]
      /\ lookup \in [Requests -> Lookup]
  BY DEF TypeInv, TypeOK
<1>1. \A p \in Peers : quiet'[p] = IF closed[p] THEN Older(quiet[p], TimeWait) ELSE 0
  BY DEF Tick
<1>2. \A p \in Peers : cache'[p] =
        IF cache[p] = NoEntry THEN NoEntry
        ELSE EntryOf(cache[p].pid, Older(cache[p].age, Ttl), cache[p].late)
  BY DEF Tick
<1>3. ASSUME NEW r \in Requests
      PROVE  /\ lookup'[r] \in Lookup
             /\ lookup'[r].phase = lookup[r].phase /\ lookup'[r].peer = lookup[r].peer
             /\ lookup'[r].truth = lookup[r].truth /\ lookup'[r].left = lookup[r].left
             /\ lookup'[r].among = lookup[r].among /\ lookup'[r].pid = lookup[r].pid
             /\ lookup'[r].doubt = lookup[r].doubt
             /\ Active(r) => lookup'[r].age = lookup[r].age + 1
  <2>1. CASE Active(r)
    <3>1. lookup'[r] = [lookup[r] EXCEPT !.age = @ + 1] /\ lookup[r].age < Lag
      BY <2>1 DEF Tick
    <3> QED BY <1>0, <2>1, <3>1, ConstantsAssumption DEF Lookup
  <2>2. CASE ~Active(r)
    BY <1>0, <2>2 DEF Tick
  <2> QED BY <2>1, <2>2
<1>4. quiet' \in [Peers -> 0 .. TimeWait]
  BY <1>0, ConstantsAssumption DEF Tick, Older
<1>5. cache' \in [Peers -> CacheEntry]
  BY <1>0, ConstantsAssumption DEF Tick, Older, CacheEntry, EntryOf, NoEntry
<1>6. lookup' \in [Requests -> Lookup]
  BY <1>3 DEF Tick
<1>7. TypeOK'
  BY <1>0, <1>4, <1>5, <1>6 DEF Tick, TypeOK
<1>8. \A r \in Requests : Granted(lookup[r])' /\ Listed(lookup[r])'
  BY <1>3 DEF TypeInv, Granted, Listed
<1> QED BY <1>1, <1>2, <1>3, <1>7, <1>8 DEF TypeInv

\* Initially nothing is memoized and nobody asks.
LEMMA InitTypes == Init => TypeInv
<1> SUFFICES ASSUME Init PROVE TypeInv
  OBVIOUS
<1>1. TypeOK
  BY ConstantsAssumption
     DEF Init, TypeOK, CacheEntry, NoEntry, EntryOf, Lookup, Phase
<1>2. \A r \in Requests : lookup[r].phase = "idle"
  BY DEF Init
<1> QED BY <1>1, <1>2 DEF TypeInv, Granted, Listed

\* Every step keeps the types, the retry count and the candidates.
LEMMA NextTypes ==
  ASSUME TypeInv, [Next]_vars
  PROVE  TypeInv'
<1>0. /\ holder \in [Peers -> Pids] /\ closed \in [Peers -> BOOLEAN]
      /\ quiet \in [Peers -> 0 .. TimeWait] /\ cache \in [Peers -> CacheEntry]
      /\ lookup \in [Requests -> Lookup]
  BY DEF TypeInv, TypeOK
<1>1. ASSUME NEW p \in Peers, NEW pid \in Pids, Connect(p, pid) PROVE TypeInv'
  <2>1. TypeOK'
    BY <1>0, <1>1, ConstantsAssumption DEF Connect, TypeOK
  <2> QED BY <1>1, <2>1 DEF Connect, TypeInv
<1>2. ASSUME NEW p \in Peers, Close(p) PROVE TypeInv'
  <2>1. TypeOK'
    BY <1>0, <1>2 DEF Close, TypeOK
  <2> QED BY <1>2, <2>1 DEF Close, TypeInv
<1>3. ASSUME Tick PROVE TypeInv'
  BY <1>3, TickIs
<1>4. ASSUME NEW r \in Requests, NEW p \in Peers, NEW n \in {1, Attempts}, Begin(r, p, n)
      PROVE  TypeInv'
  BY <1>0, <1>4, BeginMoves, LookupTypes
<1>5. ASSUME NEW r \in Requests, NEW among \in SUBSET Pids, Check(r, among) PROVE TypeInv'
  <2>1. cache' \in [Peers -> CacheEntry]
    <3>1. NoEntry \in CacheEntry
      BY ConstantsAssumption DEF NoEntry, EntryOf, CacheEntry
    <3>2. cache' = cache \/ cache' = [cache EXCEPT ![lookup[r].peer] = NoEntry]
      BY <1>5 DEF Check
    <3> QED BY <1>0, <3>1, <3>2
  <2> QED BY <1>5, <2>1, CheckMoves, LookupTypes
<1>6. ASSUME NEW r \in Requests, SocketNotListed(r) \/ ScanMisses(r) PROVE TypeInv'
  <2>1. lookup[r].phase \in {"check", "scan"} /\ Miss(r) /\ UNCHANGED <<holder, closed, quiet, cache>>
    BY <1>6 DEF SocketNotListed, ScanMisses
  <2> QED BY <1>0, <2>1, MissMoves, LookupTypes
<1>7. ASSUME NEW r \in Requests, ScanFinds(r) PROVE TypeInv'
  BY <1>0, <1>7, ScanFindsMoves, LookupTypes
<1>8. ASSUME NEW r \in Requests, Memoize(r) PROVE TypeInv'
  <2>1. PICK l \in Lookup :
          /\ Moves(r, l) /\ Granted(l) /\ Listed(l)
          /\ cache' = [cache EXCEPT ![l.peer] = EntryOf(lookup[r].pid, 0, closed[l.peer])]
          /\ EntryOf(lookup[r].pid, 0, closed[l.peer]) \in CacheEntry
    BY <1>8, MemoizeMoves
  <2>2. cache' \in [Peers -> CacheEntry]
    BY <1>0, <2>1
  <2> QED BY <2>1, <2>2, LookupTypes
<1>9. ASSUME NEW r \in Requests, Leave(r) PROVE TypeInv'
  BY <1>0, <1>9, LeaveMoves, LookupTypes
<1>10. CASE UNCHANGED vars
  BY <1>10 DEF vars, TypeInv, TypeOK, Granted, Listed
<1> QED
  BY <1>1, <1>2, <1>3, <1>4, <1>5, <1>6, <1>7, <1>8, <1>9, <1>10 DEF Next

\* A step that moves the lookup r on to a good l, and leaves the memo alone or
\* evicts an entry, keeps the invariant.
LEMMA LookupKeeps ==
  ASSUME IInv, TypeInv', NEW r \in Requests, NEW l \in Lookup, Moves(r, l),
         cache' = cache \/ \E p \in Peers : cache' = [cache EXCEPT ![p] = NoEntry],
         KeepsAddress(l), Sound(l)
  PROVE  IInv'
<1>1. \A q \in Requests : lookup'[q] = IF q = r THEN l ELSE lookup[q]
  BY DEF Moves, IInv, TypeInv, TypeOK
<1>2. \A q \in Requests : KeepsAddress(lookup[q])' /\ Sound(lookup[q])'
  BY <1>1 DEF IInv, Moves, KeepsAddress, Sound
<1>3. \A p \in Peers : cache'[p] = cache[p] \/ cache'[p] = NoEntry
  BY DEF IInv, TypeInv, TypeOK
<1>4. \A p \in Peers : Describes(p)'
  BY <1>3 DEF IInv, Moves, Describes, Doubtful
<1> QED BY <1>2, <1>4 DEF IInv, Moves

\* Every step keeps the invariant, where an entry lives no longer than an address
\* rests.
LEMMA NextIInv ==
  ASSUME Ttl <= TimeWait, IInv, [Next]_vars
  PROVE  IInv'
<1>a. TypeInv'
  BY NextTypes DEF IInv
<1>0. /\ holder \in [Peers -> Pids] /\ closed \in [Peers -> BOOLEAN]
      /\ quiet \in [Peers -> 0 .. TimeWait] /\ cache \in [Peers -> CacheEntry]
      /\ lookup \in [Requests -> Lookup] /\ TypeInv
  BY DEF IInv, TypeInv, TypeOK
<1>b. /\ \A p \in Peers : cache[p].age \in 0 .. Ttl /\ cache[p].late \in BOOLEAN /\ cache[p] \in CacheEntry
      /\ \A r \in Requests : lookup[r].peer \in Peers /\ lookup[r].age \in 0 .. Lag
      /\ TimeWait \in Nat /\ Lag \in Nat /\ Lag < TimeWait /\ Ttl \in Nat
  BY <1>0, ConstantsAssumption DEF CacheEntry, Lookup
<1>c. \A r \in Requests : lookup[r] \in Lookup
  BY <1>0
<1>1. ASSUME NEW p \in Peers, NEW pid \in Pids, Connect(p, pid) PROVE IInv'
  <2>0. /\ closed[p] /\ quiet[p] >= TimeWait /\ UNCHANGED <<cache, lookup>>
        /\ \A q \in Peers : /\ holder'[q] = IF q = p THEN pid ELSE holder[q]
                            /\ closed'[q] = IF q = p THEN FALSE ELSE closed[q]
                            /\ quiet'[q] = IF q = p THEN 0 ELSE quiet[q]
    BY <1>0, <1>1 DEF Connect
  <2>1. \A q \in Peers : ~closed'[q] => quiet'[q] = 0
    BY <2>0 DEF IInv
  <2>2. ASSUME NEW r \in Requests PROVE KeepsAddress(lookup[r])'
    <3>1. lookup[r].phase \in {"check", "scan", "found"} => lookup[r].peer # p
      BY <1>0, <1>b, <2>0 DEF IInv, KeepsAddress
    <3> QED BY <1>b, <2>0, <3>1 DEF IInv, KeepsAddress
  <2>3. ASSUME NEW q \in Peers PROVE Describes(q)'
    <3>1. ~(cache[p] # NoEntry /\ cache[p].age < Ttl /\ ~Doubtful(cache[p]))
      BY <1>0, <1>b, <2>0 DEF IInv, Describes, Doubtful
    <3> QED BY <2>0, <3>1 DEF IInv, Describes, Doubtful
  <2>4. \A r \in Requests : Sound(lookup[r])'
    BY <2>0 DEF IInv, Sound
  <2> QED BY <1>a, <2>1, <2>2, <2>3, <2>4 DEF IInv
<1>2. ASSUME NEW p \in Peers, Close(p) PROVE IInv'
  <2>0. /\ ~closed[p] /\ UNCHANGED <<holder, quiet, cache, lookup>>
        /\ \A q \in Peers : closed'[q] = IF q = p THEN TRUE ELSE closed[q]
    BY <1>0, <1>2 DEF Close
  <2>1. \A q \in Peers : ~closed'[q] => quiet'[q] = 0
    BY <2>0 DEF IInv
  <2>2. quiet[p] = 0
    BY <2>0 DEF IInv
  <2>3. ASSUME NEW r \in Requests PROVE KeepsAddress(lookup[r])'
    BY <1>b, <2>0, <2>2 DEF IInv, KeepsAddress
  <2>4. ASSUME NEW q \in Peers PROVE Describes(q)'
    BY <1>b, <2>0, <2>2 DEF IInv, Describes, Doubtful
  <2>5. \A r \in Requests : Sound(lookup[r])'
    BY <2>0 DEF IInv, Sound
  <2> QED BY <1>a, <2>1, <2>3, <2>4, <2>5 DEF IInv
<1>3. ASSUME Tick PROVE IInv'
  <2>0. UNCHANGED <<holder, closed>>
    BY <1>3 DEF Tick
  <2>1. \A p \in Peers : quiet'[p] = IF closed[p] THEN Older(quiet[p], TimeWait) ELSE 0
    BY <1>0, <1>3, TickIs
  <2>2. \A p \in Peers : cache'[p] =
          IF cache[p] = NoEntry THEN NoEntry
          ELSE EntryOf(cache[p].pid, Older(cache[p].age, Ttl), cache[p].late)
    BY <1>0, <1>3, TickIs
  <2>3. \A r \in Requests :
          /\ lookup'[r].phase = lookup[r].phase /\ lookup'[r].peer = lookup[r].peer
          /\ lookup'[r].truth = lookup[r].truth /\ lookup'[r].pid = lookup[r].pid
          /\ lookup'[r].doubt = lookup[r].doubt
          /\ Active(r) => lookup'[r].age = lookup[r].age + 1
    BY <1>0, <1>3, TickIs
  <2>4. \A p \in Peers : quiet[p] \in 0 .. TimeWait
    BY <1>0
  <2>5. ASSUME NEW r \in Requests PROVE KeepsAddress(lookup[r])'
    BY <1>b, <2>0, <2>1, <2>3, <2>4 DEF IInv, KeepsAddress, Older, Active
  <2>6. ASSUME NEW p \in Peers PROVE Describes(p)'
    <3> SUFFICES ASSUME cache'[p] # NoEntry, cache'[p].age < Ttl, ~Doubtful(cache'[p])
                 PROVE  /\ cache'[p].pid = holder[p]
                        /\ closed[p] /\ ~cache'[p].late => quiet'[p] <= cache'[p].age
                        /\ closed[p] => quiet'[p] <= cache'[p].age + Lag
      BY <2>0 DEF Describes
    <3>0. cache[p] # NoEntry /\ cache'[p] = EntryOf(cache[p].pid, Older(cache[p].age, Ttl), cache[p].late)
      BY <2>2
    <3>1. /\ cache[p] # NoEntry /\ cache'[p].pid = cache[p].pid /\ cache'[p].late = cache[p].late
          /\ cache'[p].age = Older(cache[p].age, Ttl)
      BY <3>0 DEF EntryOf
    <3>2. cache[p].age < Ttl /\ cache'[p].age = cache[p].age + 1 /\ ~Doubtful(cache[p])
      BY <1>b, <3>1 DEF Older, Doubtful
    <3>3. /\ cache[p].pid = holder[p]
          /\ closed[p] /\ ~cache[p].late => quiet[p] <= cache[p].age
          /\ closed[p] => quiet[p] <= cache[p].age + Lag
      BY <3>1, <3>2 DEF IInv, Describes
    <3> QED BY <1>b, <2>1, <2>4, <3>1, <3>2, <3>3 DEF Older
  <2>7. \A r \in Requests : Sound(lookup[r])'
    BY <2>3 DEF IInv, Sound
  <2>8. \A p \in Peers : ~closed'[p] => quiet'[p] = 0
    BY <2>0, <2>1
  <2> QED BY <1>a, <2>5, <2>6, <2>7, <2>8 DEF IInv
<1>4. ASSUME NEW r \in Requests, NEW p \in Peers, NEW n \in {1, Attempts}, Begin(r, p, n)
      PROVE  IInv'
  <2>1. PICK l \in Lookup : /\ Moves(r, l) /\ cache' = cache
                            /\ l.phase = "check" /\ l.peer = p /\ l.truth = holder[p] /\ l.age = 0
    BY <1>0, <1>4, BeginMoves
  <2>2. KeepsAddress(l) /\ Sound(l)
    BY <1>4, <2>1 DEF Begin, KeepsAddress, Sound
  <2> QED BY <1>a, <2>1, <2>2, LookupKeeps
<1>5. ASSUME NEW r \in Requests, NEW among \in SUBSET Pids, Check(r, among) PROVE IInv'
  <2>1. PICK l \in Lookup :
           /\ Moves(r, l) /\ lookup[r].phase = "check"
           /\ l.peer = lookup[r].peer /\ l.truth = lookup[r].truth /\ l.age = lookup[r].age
           /\ \/ l.phase = "scan"
              \/ /\ l.phase = "done" /\ Hit(cache[l.peer], among)
                 /\ l.pid = cache[l.peer].pid /\ l.doubt = Doubtful(cache[l.peer])
           /\ cache' = cache \/ cache' = [cache EXCEPT ![l.peer] = NoEntry]
    BY <1>0, <1>5, CheckMoves
  <2>2. KeepsAddress(lookup[r]) /\ l.peer \in Peers
    BY <1>b, <2>1 DEF IInv
  <2>3. KeepsAddress(l)
    BY <2>1, <2>2 DEF KeepsAddress
  <2>4. Sound(l)
    BY <2>1, <2>2 DEF Sound, IInv, Describes, Hit, KeepsAddress
  <2> QED BY <1>a, <2>1, <2>2, <2>3, <2>4, LookupKeeps
<1>6. ASSUME NEW r \in Requests, SocketNotListed(r) \/ ScanMisses(r) PROVE IInv'
  <2>1. lookup[r].phase \in {"check", "scan"} /\ Miss(r) /\ UNCHANGED <<holder, closed, quiet, cache>>
    BY <1>6 DEF SocketNotListed, ScanMisses
  <2>2. PICK l \in Lookup :
           /\ Moves(r, l) /\ cache' = cache /\ l.phase \in {"check", "done"} /\ l.pid = NoPid
           /\ l.peer = lookup[r].peer /\ l.truth = lookup[r].truth /\ l.age = lookup[r].age
    BY <1>0, <2>1, MissMoves
  <2>3. KeepsAddress(l) /\ Sound(l)
    BY <2>1, <2>2 DEF KeepsAddress, Sound, IInv
  <2> QED BY <1>a, <2>2, <2>3, LookupKeeps
<1>7. ASSUME NEW r \in Requests, ScanFinds(r) PROVE IInv'
  <2>1. PICK l \in Lookup :
           /\ Moves(r, l) /\ cache' = cache
           /\ lookup[r].phase = "scan" /\ l.phase = "found" /\ l.pid = holder[l.peer]
           /\ l.peer = lookup[r].peer /\ l.truth = lookup[r].truth /\ l.age = lookup[r].age
    BY <1>0, <1>7, ScanFindsMoves
  <2>2. KeepsAddress(l) /\ Sound(l)
    BY <2>1 DEF KeepsAddress, Sound, IInv
  <2> QED BY <1>a, <2>1, <2>2, LookupKeeps
<1>8. ASSUME NEW r \in Requests, Memoize(r) PROVE IInv'
  <2>1. PICK l \in Lookup :
           /\ Moves(r, l)
           /\ lookup[r].phase = "found" /\ l.phase = "done" /\ l.pid = lookup[r].pid
           /\ l.peer = lookup[r].peer /\ l.truth = lookup[r].truth
           /\ cache' = [cache EXCEPT ![l.peer] = EntryOf(lookup[r].pid, 0, closed[l.peer])]
    BY <1>0, <1>8, MemoizeMoves
  <2>2. /\ l.pid = l.truth /\ l.truth = holder[l.peer] /\ l.peer \in Peers
        /\ closed[l.peer] => quiet[l.peer] <= lookup[r].age
    BY <1>b, <2>1 DEF IInv, KeepsAddress, Sound
  <2>3. \A q \in Requests : lookup'[q] = IF q = r THEN l ELSE lookup[q]
    BY <1>0, <2>1 DEF Moves
  <2>4. \A q \in Requests : KeepsAddress(lookup[q])' /\ Sound(lookup[q])'
    BY <2>1, <2>2, <2>3 DEF IInv, Moves, KeepsAddress, Sound
  <2>5. ASSUME NEW q \in Peers PROVE Describes(q)'
    <3>1. CASE q = l.peer
      <4>1. cache'[q].pid = holder[q] /\ cache'[q].age = 0 /\ cache'[q].late = closed[q]
        BY <1>0, <2>1, <2>2, <3>1 DEF EntryOf
      <4>2. closed[q] => quiet[q] <= 0 + Lag
        <5>1. quiet[q] \in 0 .. TimeWait
          BY <1>0
        <5> QED BY <1>b, <2>2, <3>1, <5>1
      <4> QED BY <2>1, <4>1, <4>2 DEF Describes, Moves
    <3>2. CASE q # l.peer
      <4>1. cache'[q] = cache[q] /\ Describes(q)
        BY <1>0, <2>1, <3>2 DEF IInv
      <4> QED BY <2>1, <4>1 DEF Describes, Doubtful, Moves
    <3> QED BY <3>1, <3>2
  <2>6. \A p \in Peers : ~closed'[p] => quiet'[p] = 0
    BY <2>1 DEF IInv, Moves
  <2> QED BY <1>a, <2>4, <2>5, <2>6 DEF IInv
<1>9. ASSUME NEW r \in Requests, Leave(r) PROVE IInv'
  <2>1. PICK l \in Lookup : Moves(r, l) /\ cache' = cache /\ l.phase = "idle"
    BY <1>0, <1>9, LeaveMoves
  <2>2. KeepsAddress(l) /\ Sound(l)
    BY <2>1 DEF KeepsAddress, Sound
  <2> QED BY <1>a, <2>1, <2>2, LookupKeeps
<1>10. CASE UNCHANGED vars
  BY <1>10, <1>a DEF vars, IInv, KeepsAddress, Sound, Describes, Doubtful
<1> QED
  BY <1>1, <1>2, <1>3, <1>4, <1>5, <1>6, <1>7, <1>8, <1>9, <1>10 DEF Next

\* Types, retry count and candidates, whatever the times are.
THEOREM TypeInvariance == Spec => []TypeInv
<1>1. TypeInv /\ [Next]_vars => TypeInv'
  BY NextTypes
<1> QED BY <1>1, InitTypes, PTL DEF Spec

\* Every variable keeps its type (TypeOK): the retry loop of resolve_with_retry
\* never grants more scans than it has, the memo and its clock stay in range.
THEOREM TypeCorrect == Spec => []TypeOK
<1>1. TypeInv => TypeOK
  BY DEF TypeInv
<1> QED BY <1>1, TypeInvariance, PTL

\* No lane is answered with a process only another asked about
\* (AnswerIsCandidate), although cached_lookup serves them from one memo.
THEOREM AnswersAreCandidates == Spec => []AnswerIsCandidate
<1>1. TypeInv => AnswerIsCandidate
  BY DEF TypeInv, Listed, AnswerIsCandidate
<1> QED BY <1>1, TypeInvariance, PTL

\* The invariant holds throughout, where CACHE_TTL is aligned with TIME_WAIT as
\* its comment has it.
THEOREM Invariance ==
  ASSUME Ttl <= TimeWait
  PROVE  Spec => []IInv
<1>1. Init => IInv
  <2> SUFFICES ASSUME Init PROVE IInv
    OBVIOUS
  <2>1. TypeInv
    BY InitTypes
  <2>2. /\ \A r \in Requests : lookup[r].phase = "idle"
        /\ \A p \in Peers : closed[p] /\ cache[p] = NoEntry
    BY DEF Init
  <2> QED BY <2>1, <2>2 DEF IInv, KeepsAddress, Sound, Describes
<1>2. IInv /\ [Next]_vars => IInv'
  BY NextIInv
<1> QED BY <1>1, <1>2, PTL DEF Spec

\* With CACHE_TTL at TIME_WAIT, no request is attributed to a process that did not
\* send it but by an entry memoized after its connection had closed, in the last of
\* its life (PromptIsOwner), for any number of lookups, addresses and processes.
THEOREM PromptAnswersAreOwners ==
  ASSUME Ttl <= TimeWait
  PROVE  Spec => []PromptIsOwner
<1>1. IInv => PromptIsOwner
  BY DEF IInv, Sound, PromptIsOwner
<1> QED BY <1>1, Invariance, PTL

\* An address that rests longer than an entry lives, by as long as a lookup takes,
\* leaves no such entry: what CACHE_TTL would have to be for its comment to hold
\* (AnswerIsOwner).
THEOREM ShorterTtlSuffices ==
  ASSUME Ttl + Lag <= TimeWait
  PROVE  Spec => []AnswerIsOwner
<1> DEFINE Certain == \A r \in Requests : lookup[r].phase = "done" => ~lookup[r].doubt
<1>1. Init => Certain
  BY DEF Init
<1>2. TypeInv /\ TypeInv' /\ Certain /\ [Next]_vars => Certain'
  <2> SUFFICES ASSUME TypeInv, TypeInv', Certain, [Next]_vars PROVE Certain'
    OBVIOUS
  <2>0. lookup \in [Requests -> Lookup] /\ cache \in [Peers -> CacheEntry]
    BY DEF TypeInv, TypeOK
  <2>1. ASSUME NEW r \in Requests, NEW among \in SUBSET Pids, Check(r, among) PROVE Certain'
    <3>1. PICK l \in Lookup :
             /\ Moves(r, l)
             /\ \/ l.phase = "scan"
                \/ /\ l.phase = "done" /\ Hit(cache[l.peer], among)
                   /\ l.doubt = Doubtful(cache[l.peer])
      BY <2>1, CheckMoves
    <3>2. l.peer \in Peers /\ cache[l.peer].age \in Nat
      BY <2>0, ConstantsAssumption DEF Lookup, CacheEntry
    <3>3. l.phase = "done" => cache[l.peer].age < Ttl /\ l.doubt = Doubtful(cache[l.peer])
      BY <3>1 DEF Hit
    <3>4. cache[l.peer].age < Ttl => ~(cache[l.peer].age + Lag >= TimeWait)
      BY <3>2, ConstantsAssumption
    <3>5. l.phase = "done" => ~l.doubt
      BY <3>3, <3>4 DEF Doubtful
    <3> QED BY <2>0, <3>1, <3>5 DEF Moves
  <2>2. ASSUME Tick PROVE Certain'
    BY <2>2, TickIs
  <2>3. ASSUME NEW r \in Requests,
               \/ SocketNotListed(r) \/ ScanFinds(r) \/ ScanMisses(r) \/ Memoize(r) \/ Leave(r)
               \/ \E p \in Peers, n \in {1, Attempts} : Begin(r, p, n)
        PROVE  Certain'
    <3>1. /\ \A q \in Requests \ {r} : lookup'[q] = lookup[q]
          /\ ~lookup'[r].doubt
      BY <2>0, <2>3 DEF SocketNotListed, ScanFinds, ScanMisses, Memoize, Leave, Begin, Miss, With
    <3> QED BY <3>1
  <2>4. CASE UNCHANGED lookup
    BY <2>4
  <2> QED BY <2>1, <2>2, <2>3, <2>4 DEF Next, Connect, Close, vars
<1>3. PromptIsOwner /\ Certain => AnswerIsOwner
  BY DEF PromptIsOwner, AnswerIsOwner
<1>4. Ttl <= TimeWait
  BY ConstantsAssumption
<1>5. Spec => []PromptIsOwner
  BY <1>4, PromptAnswersAreOwners
<1> HIDE DEF Certain
<1> QED BY <1>1, <1>2, <1>3, <1>5, TypeInvariance, PTL DEF Spec

---------------------------------------------------------------------------
(* The walk up the process tree (PeerTrust).                               *)

\* A process's line is of the harness's, begins with it and goes on as its parent's: up to the
\* harness, where the client knows its number.
Linked(n) ==
  line[n] # {} =>
    /\ n \in line[n] /\ line[n] \subseteq ours
    /\ launched > 1 /\ n # launched =>
         parent[n] \in line[n] \ {n} /\ line[parent[n]] = line[n] \ {n}

\* A process that is none of the harness's is not the child of one, and the
\* harness's number is not handed out.
Apart ==
  /\ parent[1] = 0 /\ ours \subseteq Live \ {1}
  /\ \A n \in Live : parent[n] \in Live \cup {0}
  /\ \A n \in Live \ ours : parent[n] \notin ours
  /\ launched = 0 => ours = {}
  /\ launched > 1 /\ launched \in Live => launched \in ours

\* A walk from a stranger stays among strangers, whichever of them exit; a walk up
\* a whole line has as many hops left as there are processes in it.
OnLine ==
  climb.on =>
    /\ launched > 1
    /\ ~climb.mine =>
         climb.current \notin ours /\ climb.current # launched /\ climb.current \in Live \cup freed
    /\ climb.whole =>
         line[climb.current] # {} /\ Cardinality(line[climb.current]) + climb.hops <= MaxHops

TreeInv == (\A n \in Numbers : Linked(n)) /\ Apart

TrustInv == TrustTypeOK /\ TreeInv /\ OnLine /\ VerdictIsTrue

\* One process fewer.
LEMMA OneLess ==
  ASSUME NEW S \in SUBSET Numbers, NEW n \in S
  PROVE  /\ IsFiniteSet(S) /\ Cardinality(S) \in Nat /\ Cardinality(S) >= 1
         /\ Cardinality(S \ {n}) = Cardinality(S) - 1
<1>1. IsFiniteSet(Numbers)
  BY FS_Interval, TrustAssumption DEF Numbers
<1>2. IsFiniteSet(S)
  BY <1>1, FS_Subset
<1>3. Cardinality(S) \in Nat /\ Cardinality(S \ {n}) = Cardinality(S) - 1 /\ IsFiniteSet(S \ {n})
  BY <1>2, FS_CardinalityType, FS_RemoveElement
<1>4. Cardinality(S \ {n}) \in Nat
  BY <1>3, FS_CardinalityType
<1> QED BY <1>2, <1>3, <1>4

LEMMA NumbersAre ==
  /\ 1 \in Numbers /\ Numbers \subseteq Int /\ 0 \notin Numbers /\ NoProcess \notin Numbers \cup {0}
  /\ \A n \in Numbers : n \in 0 .. MaxNumber /\ n >= 1
BY TrustAssumption DEF Numbers

LEMMA TrustInitially == TrustInit => TrustInv
<1> SUFFICES ASSUME TrustInit PROVE TrustInv
  OBVIOUS
<1>1. Live = {1}
  BY NumbersAre DEF TrustInit, Live
<1>2. TrustTypeOK
  BY NumbersAre, TrustAssumption DEF TrustInit, TrustTypeOK, NoClimb
<1>3. TreeInv
  BY <1>1, NumbersAre DEF TrustInit, TreeInv, Linked, Apart
<1>4. OnLine /\ VerdictIsTrue
  BY DEF TrustInit, OnLine, VerdictIsTrue, NoClimb
<1> QED BY <1>2, <1>3, <1>4 DEF TrustInv

\* The process n is started by p, with the line and the truth of its parent.
LEMMA Started ==
  ASSUME TrustInv, NEW n \in Vacancies, NEW p \in Live,
         parent' = [parent EXCEPT ![n] = p]
  PROVE  /\ n \in Numbers /\ n # 1 /\ n \notin Live /\ n # launched /\ n \notin freed
         /\ Live' = Live \cup {n}
         /\ parent'[n] = p /\ \A m \in Numbers \ {n} : parent'[m] = parent[m]
         /\ \A m \in Live : m # n /\ parent[m] # n
         /\ \A m \in Numbers : n \notin line[m]
         /\ parent' \in [Numbers -> (0 .. MaxNumber) \cup {NoProcess}]
<1>1. n \in Numbers /\ n \notin Live /\ n # launched /\ n \notin freed /\ p \in Numbers
  BY DEF Vacancies, Live
<1>2. parent \in [Numbers -> (0 .. MaxNumber) \cup {NoProcess}]
  BY DEF TrustInv, TrustTypeOK
<1>3. parent'[n] = p /\ \A m \in Numbers \ {n} : parent'[m] = parent[m]
  BY <1>1, <1>2
<1>4. n # 1
  BY <1>1, NumbersAre DEF TrustInv, TreeInv, Apart, Live
<1>5. Live' = Live \cup {n}
  BY <1>1, <1>3, NumbersAre DEF Live
<1>6. \A m \in Live : m # n /\ parent[m] # n
  BY <1>1, NumbersAre DEF TrustInv, TreeInv, Apart
<1>7. \A m \in Numbers : n \notin line[m]
  BY <1>1 DEF TrustInv, TreeInv, Linked, Apart
<1>8. parent' \in [Numbers -> (0 .. MaxNumber) \cup {NoProcess}]
  BY <1>1, <1>2, NumbersAre
<1> QED BY <1>1, <1>3, <1>4, <1>5, <1>6, <1>7, <1>8

LEMMA SpawnKeeps == TrustInv /\ Spawn => TrustInv'
<1> SUFFICES ASSUME TrustInv, Spawn PROVE TrustInv'
  OBVIOUS
<1>1. PICK n \in Vacancies, p \in Live :
        /\ parent' = [parent EXCEPT ![n] = p] /\ ours' = {n} /\ line' = [line EXCEPT ![n] = {n}]
        /\ launched' \in {n, 1}
  BY DEF Spawn
<1>2. launched = 0 /\ UNCHANGED <<freed, climb>>
  BY DEF Spawn
<1>3. /\ n \in Numbers /\ n # 1 /\ n \notin Live /\ n \notin freed /\ Live' = Live \cup {n}
      /\ parent'[n] = p /\ \A m \in Numbers \ {n} : parent'[m] = parent[m]
      /\ \A m \in Live : m # n /\ parent[m] # n
      /\ \A m \in Numbers : n \notin line[m]
      /\ parent' \in [Numbers -> (0 .. MaxNumber) \cup {NoProcess}]
  BY <1>1, Started
<1>4. line \in [Numbers -> SUBSET Numbers] /\ ours = {}
  BY <1>2 DEF TrustInv, TrustTypeOK, TreeInv, Apart
<1>5. line'[n] = {n} /\ \A m \in Numbers \ {n} : line'[m] = line[m]
  BY <1>1, <1>3, <1>4
<1>6. TrustTypeOK'
  BY <1>1, <1>2, <1>3, <1>4, NumbersAre DEF TrustInv, TrustTypeOK
<1>7. \A m \in Numbers : line[m] = {}
  BY <1>4 DEF TrustInv, TreeInv, Linked
<1>8. \A m \in Numbers : Linked(m)'
  BY <1>1, <1>3, <1>5, <1>7 DEF Linked
<1>9. Apart'
  BY <1>1, <1>2, <1>3, <1>4, NumbersAre DEF TrustInv, TreeInv, Apart, Live
<1>10. OnLine' /\ VerdictIsTrue'
  BY <1>2 DEF TrustInv, OnLine, VerdictIsTrue
<1> QED BY <1>6, <1>8, <1>9, <1>10 DEF TrustInv, TreeInv

LEMMA ForkKeeps == TrustInv /\ Fork => TrustInv'
<1> SUFFICES ASSUME TrustInv, Fork PROVE TrustInv'
  OBVIOUS
<1>1. PICK n \in Vacancies, p \in Live :
        /\ parent' = [parent EXCEPT ![n] = p]
        /\ line' = [line EXCEPT ![n] = IF line[p] = {} THEN {} ELSE {n} \cup line[p]]
        /\ ours' = IF p \in ours THEN ours \cup {n} ELSE ours
  BY DEF Fork
<1>2. UNCHANGED <<launched, freed, climb>>
  BY DEF Fork
<1>3. /\ n \in Numbers /\ n # 1 /\ n \notin Live /\ n # launched /\ n \notin freed
      /\ Live' = Live \cup {n}
      /\ parent'[n] = p /\ \A m \in Numbers \ {n} : parent'[m] = parent[m]
      /\ \A m \in Live : m # n /\ parent[m] # n
      /\ \A m \in Numbers : n \notin line[m]
      /\ parent' \in [Numbers -> (0 .. MaxNumber) \cup {NoProcess}]
  BY <1>1, Started
<1>4. line \in [Numbers -> SUBSET Numbers] /\ p \in Numbers /\ ours \subseteq Live
  BY DEF TrustInv, TrustTypeOK, TreeInv, Apart, Live
<1>5. /\ line'[n] = IF line[p] = {} THEN {} ELSE {n} \cup line[p]
      /\ \A m \in Numbers \ {n} : line'[m] = line[m]
  BY <1>1, <1>3, <1>4
<1>6. TrustTypeOK'
  <2>1. line' \in [Numbers -> SUBSET Numbers]
    BY <1>1, <1>3, <1>4
  <2>2. ours' \subseteq Numbers
    BY <1>1, <1>3, <1>4 DEF Live
  <2> QED BY <1>2, <1>3, <2>1, <2>2 DEF TrustInv, TrustTypeOK
<1>7. ASSUME NEW m \in Numbers PROVE Linked(m)'
  <2>1. CASE m = n
    <3>1. line[p] # {} => p \in line[p] /\ line[p] \subseteq ours
      BY <1>4 DEF TrustInv, TreeInv, Linked
    <3> QED BY <2>1, <1>1, <1>2, <1>3, <1>4, <1>5, <3>1 DEF Linked
  <2>2. CASE m # n
    <3>1. Linked(m) /\ line'[m] = line[m] /\ parent'[m] = parent[m] /\ ours \subseteq ours'
      BY <1>1, <1>3, <1>5, <2>2 DEF TrustInv, TreeInv
    <3>2. line[m] # {} => \A q \in line[m] : q \in Numbers \ {n} /\ line'[q] = line[q]
      BY <1>3, <1>4, <1>5
    <3> QED BY <1>2, <3>1, <3>2 DEF Linked
  <2> QED BY <2>1, <2>2
<1>8. Apart'
  <2>1. \A m \in Live' : parent'[m] \in Live' \cup {0}
    BY <1>3 DEF TrustInv, TreeInv, Apart, Live
  <2>2. \A m \in Live' \ ours' : parent'[m] \notin ours'
    BY <1>1, <1>3, <1>4 DEF TrustInv, TreeInv, Apart, Live
  <2>3. launched' = 0 => ours' = {}
    BY <1>1, <1>2 DEF TrustInv, TreeInv, Apart
  <2>4. parent'[1] = 0 /\ ours' \subseteq Live' \ {1}
    BY <1>1, <1>3, NumbersAre DEF TrustInv, TreeInv, Apart
  <2>5. launched' > 1 /\ launched' \in Live' => launched' \in ours'
    BY <1>1, <1>2, <1>3 DEF TrustInv, TreeInv, Apart
  <2> QED BY <2>1, <2>2, <2>3, <2>4, <2>5 DEF Apart
<1>9. OnLine'
  <2> SUFFICES ASSUME climb.on PROVE OnLine'
    BY <1>2 DEF OnLine
  <2>1. launched > 1 /\ climb.current \in Numbers
    BY DEF TrustInv, OnLine, TrustTypeOK
  <2>2. ~climb.mine => climb.current \notin ours' /\ climb.current \in Live' \cup freed
    BY <1>1, <1>3 DEF TrustInv, OnLine
  <2>3. climb.whole => climb.current # n
    BY <1>3, <2>1 DEF TrustInv, OnLine, TreeInv, Linked
  <2> QED BY <1>2, <1>5, <2>1, <2>2, <2>3 DEF TrustInv, OnLine
<1>10. VerdictIsTrue'
  BY <1>2 DEF TrustInv, VerdictIsTrue
<1> QED BY <1>6, <1>7, <1>8, <1>9, <1>10 DEF TrustInv, TreeInv

LEMMA ExitKeeps == TrustInv /\ Exit => TrustInv'
<1> SUFFICES ASSUME TrustInv, Exit PROVE TrustInv'
  OBVIOUS
<1>1. PICK n \in Live \ {1} :
        /\ parent' = [m \in Numbers |-> IF m = n THEN NoProcess
                                        ELSE IF parent[m] = n THEN 1 ELSE parent[m]]
        /\ line' = [m \in Numbers |-> IF n \in line[m] THEN {} ELSE line[m]]
        /\ ours' = ours \ {n}
        /\ freed' = IF climb.on THEN freed \cup {n} ELSE freed
        /\ climb' = [climb EXCEPT !.whole = @ /\ (climb.on => line'[climb.current] # {})]
  BY DEF Exit
<1>2. launched' = launched /\ n \in Numbers
  BY <1>1 DEF Exit, Live
<1>3. /\ climb \in [on : BOOLEAN, current : Numbers, hops : 0 .. MaxHops, mine : BOOLEAN,
                    whole : BOOLEAN, verdict : {"none", "trusted", "denied"}]
      /\ parent \in [Numbers -> (0 .. MaxNumber) \cup {NoProcess}]
      /\ line \in [Numbers -> SUBSET Numbers] /\ ours \subseteq Numbers /\ freed \subseteq Numbers
  BY DEF TrustInv, TrustTypeOK
<1>4. /\ climb'.on = climb.on /\ climb'.current = climb.current /\ climb'.hops = climb.hops
      /\ climb'.mine = climb.mine /\ climb'.verdict = climb.verdict
      /\ climb'.whole = (climb.whole /\ (climb.on => line'[climb.current] # {}))
  BY <1>1, <1>3
<1>5. Live' = Live \ {n}
  BY <1>1, <1>2, NumbersAre DEF Live
<1>6. TrustTypeOK'
  <2>1. parent' \in [Numbers -> (0 .. MaxNumber) \cup {NoProcess}]
    BY <1>1, <1>3, NumbersAre
  <2>2. line' \in [Numbers -> SUBSET Numbers]
    BY <1>1, <1>3
  <2>3. climb'.whole \in BOOLEAN
    BY <1>3, <1>4
  <2>4. climb' \in [on : BOOLEAN, current : Numbers, hops : 0 .. MaxHops, mine : BOOLEAN,
                    whole : BOOLEAN, verdict : {"none", "trusted", "denied"}]
    BY <1>1, <1>3, <1>4, <2>3
  <2> QED BY <1>1, <1>2, <1>3, <2>1, <2>2, <2>4 DEF TrustInv, TrustTypeOK
<1>7. ASSUME NEW m \in Numbers PROVE Linked(m)'
  <2> SUFFICES ASSUME line'[m] # {} PROVE Linked(m)'
    BY DEF Linked
  <2>1. n \notin line[m] /\ line'[m] = line[m] /\ line[m] # {}
    BY <1>1
  <2>2. m \in line[m] /\ line[m] \subseteq ours'
    BY <1>1, <2>1 DEF TrustInv, TreeInv, Linked
  <2>3. ASSUME launched > 1, m # launched
        PROVE  parent'[m] \in line[m] \ {m} /\ line'[parent'[m]] = line[m] \ {m}
    <3>1. parent[m] \in line[m] \ {m} /\ line[parent[m]] = line[m] \ {m}
      BY <2>1, <2>3 DEF TrustInv, TreeInv, Linked
    <3>2. parent'[m] = parent[m]
      BY <1>1, <2>1, <2>2, <3>1
    <3>3. parent[m] \in Numbers
      BY <1>3, <3>1
    <3> QED BY <1>1, <2>1, <3>1, <3>2, <3>3
  <2> QED BY <1>2, <2>1, <2>2, <2>3 DEF Linked
<1>8. Apart'
  <2>1. parent'[1] = 0 /\ ours' \subseteq Live' \ {1} /\ 1 \in Live'
    BY <1>1, <1>2, <1>5, NumbersAre DEF TrustInv, TreeInv, Apart, Live
  <2>2. \A m \in Live' : parent'[m] \in Live' \cup {0}
    BY <1>1, <1>5, <2>1 DEF TrustInv, TreeInv, Apart, Live
  <2>3. \A m \in Live' \ ours' : parent'[m] \notin ours'
    BY <1>1, <1>5, <2>1 DEF TrustInv, TreeInv, Apart, Live
  <2> QED BY <1>1, <1>2, <1>5, <2>1, <2>2, <2>3 DEF TrustInv, TreeInv, Apart
<1>9. OnLine'
  <2> SUFFICES ASSUME climb.on PROVE OnLine'
    BY <1>4 DEF OnLine
  <2>1. launched > 1 /\ climb.current \in Numbers
    BY <1>3 DEF TrustInv, OnLine
  <2>2. ~climb.mine =>
          climb.current \notin ours' /\ climb.current # launched /\ climb.current \in Live' \cup freed'
    BY <1>1, <1>5 DEF TrustInv, OnLine
  <2>3. climb'.whole => line'[climb.current] # {} /\ line'[climb.current] = line[climb.current] /\ climb.whole
    BY <1>1, <1>4, <2>1
  <2>4. climb'.whole => Cardinality(line'[climb.current]) + climb.hops <= MaxHops
    BY <2>3 DEF TrustInv, OnLine
  <2> QED BY <1>2, <1>4, <2>1, <2>2, <2>3, <2>4 DEF OnLine
<1>10. VerdictIsTrue'
  BY <1>3, <1>4 DEF TrustInv, VerdictIsTrue
<1> QED BY <1>6, <1>7, <1>8, <1>9, <1>10 DEF TrustInv, TreeInv

\* The steps of the walk leave the tree alone.
LEMMA TreeStays ==
  ASSUME TrustInv, UNCHANGED <<parent, launched, line, ours>>
  PROVE  TreeInv' /\ Live' = Live
<1>1. Live' = Live
  BY DEF Live
<1>2. \A n \in Numbers : Linked(n)'
  BY DEF TrustInv, TreeInv, Linked
<1>3. Apart'
  BY <1>1 DEF TrustInv, TreeInv, Apart
<1> QED BY <1>1, <1>2, <1>3 DEF TreeInv

LEMMA ResolveKeeps == TrustInv /\ Resolve => TrustInv'
<1> SUFFICES ASSUME TrustInv, Resolve PROVE TrustInv'
  OBVIOUS
<1>1. PICK n \in Live :
        climb' = [on |-> Vouches(launched), current |-> n, hops |-> 0, mine |-> n \in ours,
                  whole |-> Vouches(launched) /\ line[n] # {} /\ Cardinality(line[n]) <= MaxHops,
                  verdict |-> IF Vouches(launched) THEN "none" ELSE "denied"]
  BY DEF Resolve
<1>2. UNCHANGED <<parent, launched, line, ours, freed>>
  BY DEF Resolve
<1>3. TreeInv' /\ Live' = Live
  BY <1>2, TreeStays
<1>4. n \in Numbers /\ launched \in Int
  BY NumbersAre DEF Live, TrustInv, TrustTypeOK
<1>5. /\ climb'.on = Vouches(launched) /\ climb'.current = n /\ climb'.hops = 0
      /\ climb'.mine = (n \in ours)
      /\ climb'.whole = (Vouches(launched) /\ line[n] # {} /\ Cardinality(line[n]) <= MaxHops)
      /\ climb'.verdict = IF Vouches(launched) THEN "none" ELSE "denied"
  BY <1>1
<1>6. TrustTypeOK'
  <2>1. Vouches(launched) \in BOOLEAN /\ 0 \in 0 .. MaxHops
    BY TrustAssumption DEF Vouches
  <2>2. climb' \in [on : BOOLEAN, current : Numbers, hops : 0 .. MaxHops, mine : BOOLEAN,
                    whole : BOOLEAN, verdict : {"none", "trusted", "denied"}]
    BY <1>1, <1>4, <2>1
  <2> QED BY <1>2, <2>2 DEF TrustInv, TrustTypeOK
<1>7. OnLine'
  <2> SUFFICES ASSUME Vouches(launched) PROVE OnLine'
    BY <1>5 DEF OnLine
  <2>1. launched > 1
    BY DEF Vouches
  <2>2. n \notin ours => n # launched
    BY <2>1 DEF TrustInv, TreeInv, Apart
  <2>3. climb'.whole => line[n] # {} /\ Cardinality(line[n]) <= MaxHops
    BY <1>5
  <2>4. line[n] # {} => Cardinality(line[n]) \in Nat
    <3>1. line[n] \in SUBSET Numbers
      BY <1>4 DEF TrustInv, TrustTypeOK
    <3>2. line[n] # {} => n \in line[n]
      BY <1>4 DEF TrustInv, TreeInv, Linked
    <3> QED BY <3>1, <3>2, OneLess
  <2>5. climb'.whole => Cardinality(line[n]) + 0 <= MaxHops
    BY <2>3, <2>4, TrustAssumption
  <2> QED BY <1>2, <1>3, <1>5, <2>1, <2>2, <2>3, <2>5 DEF OnLine
<1>8. VerdictIsTrue'
  BY <1>5 DEF VerdictIsTrue
<1> QED BY <1>3, <1>6, <1>7, <1>8 DEF TrustInv

\* A walk that ends keeps the invariant where its verdict is true.
LEMMA EndsKeeps ==
  ASSUME TrustInv, NEW verdict \in {"trusted", "denied"}, NEW whole \in BOOLEAN, Ends(verdict, whole),
         verdict = "trusted" => climb.mine, verdict = "denied" => ~whole
  PROVE  TrustInv'
<1>1. UNCHANGED <<parent, launched, line, ours>> /\ freed' = {}
  BY DEF Ends
<1>2. climb' = [on |-> FALSE, current |-> climb.current, hops |-> climb.hops,
                mine |-> climb.mine, whole |-> whole, verdict |-> verdict]
  BY DEF Ends
<1>3. TrustTypeOK'
  BY <1>1, <1>2 DEF TrustInv, TrustTypeOK
<1>4. OnLine' /\ VerdictIsTrue'
  BY <1>2 DEF OnLine, VerdictIsTrue
<1> QED BY <1>1, <1>3, <1>4, TreeStays DEF TrustInv

LEMMA RecognizeKeeps == TrustInv /\ Recognize => TrustInv'
<1> SUFFICES ASSUME TrustInv, Recognize PROVE TrustInv'
  OBVIOUS
<1>1. climb.on /\ climb.current = launched /\ Ends("trusted", climb.whole)
  BY DEF Recognize
<1>2. climb.mine /\ climb.whole \in BOOLEAN
  BY <1>1 DEF TrustInv, OnLine, TrustTypeOK
<1> QED BY <1>1, <1>2, EndsKeeps

\* Where the walk stands, on a whole line.
LEMMA Stands ==
  ASSUME TrustInv, climb.on, climb.whole
  PROVE  /\ climb.current \in Live /\ climb.hops < MaxHops
         /\ climb.current # launched =>
              /\ parent[climb.current] \in Numbers /\ parent[climb.current] # climb.current
              /\ line[parent[climb.current]] # {}
              /\ Cardinality(line[parent[climb.current]]) + (climb.hops + 1) <= MaxHops
<1>1. climb.current \in Numbers /\ climb.hops \in 0 .. MaxHops /\ line \in [Numbers -> SUBSET Numbers]
  BY DEF TrustInv, TrustTypeOK
<1>2. /\ launched > 1 /\ line[climb.current] # {}
      /\ Cardinality(line[climb.current]) + climb.hops <= MaxHops
  BY DEF TrustInv, OnLine
<1>3. /\ climb.current \in line[climb.current] /\ climb.current \in Live
      /\ climb.current # launched =>
           /\ parent[climb.current] \in line[climb.current] \ {climb.current}
           /\ line[parent[climb.current]] = line[climb.current] \ {climb.current}
  BY <1>1, <1>2 DEF TrustInv, TreeInv, Linked, Apart
<1>4. /\ Cardinality(line[climb.current]) \in Nat /\ Cardinality(line[climb.current]) >= 1
      /\ Cardinality(line[climb.current] \ {climb.current}) = Cardinality(line[climb.current]) - 1
  BY <1>1, <1>3, OneLess
<1>5. climb.hops < MaxHops
  BY <1>1, <1>2, <1>4, TrustAssumption
<1>6. climb.current # launched =>
        /\ parent[climb.current] \in Numbers /\ parent[climb.current] # climb.current
        /\ line[parent[climb.current]] # {}
  BY <1>1, <1>3
<1>7. ASSUME climb.current # launched
      PROVE  Cardinality(line[parent[climb.current]]) + (climb.hops + 1) <= MaxHops
  <2>1. Cardinality(line[parent[climb.current]]) = Cardinality(line[climb.current]) - 1
    BY <1>3, <1>4, <1>7
  <2> QED BY <1>1, <1>2, <1>4, <2>1, TrustAssumption
<1> QED BY <1>3, <1>5, <1>6, <1>7

LEMMA AscendKeeps == TrustInv /\ Ascend => TrustInv'
<1> SUFFICES ASSUME TrustInv, Ascend PROVE TrustInv'
  OBVIOUS
<1> DEFINE up == parent[climb.current]
<1>1. /\ climb.on /\ climb.hops < MaxHops /\ climb.current # launched
      /\ climb.current \in Live /\ up \notin {0, climb.current}
      /\ climb' = [on |-> TRUE, current |-> up, hops |-> climb.hops + 1,
                   mine |-> climb.mine, whole |-> climb.whole, verdict |-> climb.verdict]
      /\ UNCHANGED <<parent, launched, line, ours, freed>>
  BY DEF Ascend
<1>2. TreeInv' /\ Live' = Live
  BY <1>1, TreeStays
<1>3. up \in Live
  BY <1>1 DEF TrustInv, TreeInv, Apart
<1>4. TrustTypeOK'
  <2>1. up \in Numbers /\ climb.hops + 1 \in 0 .. MaxHops
    BY <1>1, <1>3, TrustAssumption DEF TrustInv, TrustTypeOK, Live
  <2> QED BY <1>1, <2>1 DEF TrustInv, TrustTypeOK
<1>5. OnLine'
  <2>1. launched > 1
    BY <1>1 DEF TrustInv, OnLine
  <2>2. ~climb.mine => up \notin ours /\ up # launched
    <3>1. ~climb.mine => climb.current \in Live \ ours
      BY <1>1 DEF TrustInv, OnLine
    <3> QED BY <1>3, <2>1, <3>1 DEF TrustInv, TreeInv, Apart
  <2>3. climb.whole => line[up] # {} /\ Cardinality(line[up]) + (climb.hops + 1) <= MaxHops
    BY <1>1, Stands
  <2> HIDE DEF up
  <2> QED BY <1>1, <1>2, <1>3, <2>1, <2>2, <2>3 DEF OnLine
<1>6. VerdictIsTrue'
  BY <1>1 DEF TrustInv, VerdictIsTrue
<1> QED BY <1>2, <1>4, <1>5, <1>6 DEF TrustInv

LEMMA ConcedeKeeps == TrustInv /\ Concede => TrustInv'
<1> SUFFICES ASSUME TrustInv, Concede PROVE TrustInv'
  OBVIOUS
<1>1. /\ climb.on /\ Ends("denied", climb.whole)
      /\ \/ climb.hops = MaxHops
         \/ /\ climb.current # launched
            /\ climb.current \notin Live \/ parent[climb.current] \in {0, climb.current}
  BY DEF Concede
<1>2. climb.whole \in BOOLEAN /\ climb.hops \in 0 .. MaxHops
  BY DEF TrustInv, TrustTypeOK
<1>3. ~climb.whole
  <2> SUFFICES ASSUME climb.whole PROVE FALSE
    OBVIOUS
  <2>1. climb.current \in Live /\ climb.hops < MaxHops
    BY <1>1, Stands
  <2>2. climb.current # launched =>
          parent[climb.current] # 0 /\ parent[climb.current] # climb.current
    BY <1>1, Stands, NumbersAre
  <2> QED BY <1>1, <1>2, <2>1, <2>2, TrustAssumption
<1> QED BY <1>1, <1>2, <1>3, EndsKeeps

LEMMA UnreadableKeeps == TrustInv /\ Unreadable => TrustInv'
<1> SUFFICES ASSUME TrustInv, Unreadable PROVE TrustInv'
  OBVIOUS
<1>1. Ends("denied", FALSE)
  BY DEF Unreadable
<1> QED BY <1>1, EndsKeeps

\* The invariant of the walk and of the tree it climbs.
THEOREM TrustInvariance == TrustSpec => []TrustInv
<1>1. TrustInit => TrustInv
  BY TrustInitially
<1>2. TrustInv /\ [TrustNext]_trustVars => TrustInv'
  <2> SUFFICES ASSUME TrustInv, [TrustNext]_trustVars PROVE TrustInv'
    OBVIOUS
  <2>1. CASE UNCHANGED trustVars
    <3>1. UNCHANGED <<parent, launched, line, ours, freed, climb>>
      BY <2>1 DEF trustVars
    <3>2. TreeInv' /\ Live' = Live
      BY <3>1, TreeStays
    <3> QED BY <3>1, <3>2 DEF TrustInv, TrustTypeOK, OnLine, VerdictIsTrue
  <2> QED BY <2>1, SpawnKeeps, ForkKeeps, ExitKeeps, ResolveKeeps, RecognizeKeeps, AscendKeeps,
             ConcedeKeeps, UnreadableKeeps DEF TrustNext
<1> QED BY <1>1, <1>2, PTL DEF TrustSpec

\* A walk trusts nobody but the harness and its own, and denies none of them whose
\* line stays whole and within the bound (VerdictIsTrue), for any number of
\* processes and hops.
THEOREM VerdictsAreTrue == TrustSpec => []VerdictIsTrue
<1>1. TrustInv => VerdictIsTrue
  BY DEF TrustInv
<1> QED BY <1>1, TrustInvariance, PTL
=============================================================================
