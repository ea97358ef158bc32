------------------------ MODULE CodexAnchors_proofs ------------------------
(***************************************************************************)
(* Proofs about CodexAnchors: a rollout that is skipped hides nothing, and *)
(* the lane implements AnchorLedger.                                       *)
(*                                                                         *)
(* The argument: a rollout only grows, so a line that is the first of its  *)
(* key stays so, and what was true of a prefix stays true.  Delivered keys *)
(* are keys of stored lines.  A scan owes every anchor of the prefix its   *)
(* fingerprint measured that is not stored, or has failed.                 *)
(*                                                                         *)
(* And proofs about CodexConfig, what else is done to Codex's files: while *)
(* the user leaves alone what the patch owns, the document says all of the *)
(* last patch and nothing of another (Holds); what says that is a fixpoint *)
(* of an installation (WrittenIs).                                         *)
(***************************************************************************)
EXTENDS CodexAnchors, CodexConfig, SequenceTheorems, WellFoundedInduction, TLAPS

---------------------------------------------------------------------------
(* The anchor lane (CodexAnchors).                                         *)

\* Of the first n lines of f, every anchor is stored or owed.
Owes(f, stored, n, owed) ==
  n <= Len(f) /\ \A i \in Anchors(f) : i <= n => i \in owed \/ f[i] \in stored

\* Delivered keys are keys of stored anchors.
Delivers(f, stored, keys) ==
  \A k \in keys : \E i \in Anchors(f) : Key(f[i]) = k /\ f[i] \in stored

ScannerInv ==
  \A p \in Paths :
    /\ \A fp \in scanner[p].scanned : Owes(file[p], rows[p], fp.lines, {})
    /\ Delivers(file[p], rows[p], scanner[p].delivered)

\* The scan under way.
Posts(c, f, stored) ==
  /\ c.phase # "idle" => c.fp.lines <= Len(f)
  /\ c.phase = "posting" =>
       /\ c.owed \subseteq Anchors(f)
       /\ ~c.failed => Owes(f, stored, c.fp.lines, c.owed)

ClientInv == Posts(client, file[client.path], rows[client.path])

\* A line under way fits into its rollout.
Room == \A p \in Paths : torn[p] => Len(file[p]) < MaxLines

IInv == TypeOK /\ Room /\ ScannerInv /\ ClientInv

---------------------------------------------------------------------------
\* dedup_key tells two anchors apart exactly when they tell of two events.
LEMMA KeyIsEvent ==
  ASSUME NEW a \in Line, NEW b \in Line, IsAnchor(a), IsAnchor(b)
  PROVE  Key(a) = Key(b) <=> SameEvent(a, b)
<1>1. CASE a.kind = "started" /\ b.kind = "started"
  BY <1>1 DEF Key, SameEvent
<1>2. CASE a.kind = "interacted" /\ b.kind = "interacted"
  BY <1>2 DEF Key, SameEvent
<1>3. CASE a.kind # b.kind
  <2>1. Key(a)[1] = a.kind /\ Key(b)[1] = b.kind
    BY DEF Key, Line, IsAnchor
  <2> QED BY <1>3, <2>1 DEF SameEvent
<1> QED BY <1>1, <1>2, <1>3 DEF Line, IsAnchor

\* The anchors parse_subagent_anchors keeps are among the lines it reads.
LEMMA AnchorsAreLines ==
  ASSUME NEW f \in Seq(Line), NEW i \in Anchors(f)
  PROVE  i \in 1 .. Len(f) /\ f[i] \in Line /\ IsAnchor(f[i])
BY DEF Anchors

\* No two of them tell of one event: the first line wins.
LEMMA AnchorsDiffer ==
  ASSUME NEW f \in Seq(Line), NEW i \in Anchors(f), NEW j \in Anchors(f),
         Key(f[i]) = Key(f[j])
  PROVE  i = j
<1>1. i \in 1 .. Len(f) /\ j \in 1 .. Len(f)
  BY AnchorsAreLines
<1>2. ~(i < j) /\ ~(j < i)
  BY <1>1 DEF Anchors
<1> QED BY <1>1, <1>2

\* Every event has one of them, no later than any line that tells of it.
LEMMA AnchorsAreFirst ==
  ASSUME NEW f \in Seq(Line), NEW i \in DOMAIN f, IsAnchor(f[i])
  PROVE  \E j \in Anchors(f) : j <= i /\ Key(f[j]) = Key(f[i])
<1> DEFINE T == {j \in DOMAIN f : IsAnchor(f[j]) /\ Key(f[j]) = Key(f[i])}
<1>1. T \subseteq Nat /\ T # {} /\ i \in T
  OBVIOUS
<1>2. PICK j \in T : \A k \in T : ~(<<k, j>> \in OpToRel(<, Nat))
  <2> HIDE DEF T
  <2> QED BY <1>1, NatLessThanWellFounded, WFMin
<1>3. \A k \in T : ~(k < j)
  BY <1>1, <1>2 DEF OpToRel
<1>4. j <= i
  BY <1>1, <1>3
<1>5. j \in Anchors(f)
  BY <1>3 DEF Anchors
<1> QED BY <1>4, <1>5

\* A rollout is append-only: its anchors stay, and at most the new line joins.
LEMMA AnchorsGrow ==
  ASSUME NEW f \in Seq(Line), NEW line \in Line
  PROVE  LET g == Append(f, line)
         IN  /\ g \in Seq(Line) /\ Len(g) = Len(f) + 1 /\ g[Len(g)] = line
             /\ \A i \in 1 .. Len(f) : g[i] = f[i]
             /\ \A i \in Anchors(f) : i \in Anchors(g) /\ g[i] = f[i]
             /\ \A i \in Anchors(g) : i \in Anchors(f) \/ i = Len(f) + 1
<1> DEFINE g == Append(f, line)
<1>1. /\ g \in Seq(Line) /\ Len(g) = Len(f) + 1 /\ g[Len(g)] = line
      /\ \A i \in 1 .. Len(f) : g[i] = f[i]
  BY AppendProperties
<1>2. DOMAIN g = 1 .. (Len(f) + 1) /\ DOMAIN f = 1 .. Len(f) /\ Len(f) \in Nat
  BY <1>1, LenProperties
<1> HIDE DEF g
<1>3. \A i \in Anchors(f) : i \in Anchors(g) /\ g[i] = f[i]
  BY <1>1, <1>2 DEF Anchors
<1>4. \A i \in Anchors(g) : i \in Anchors(f) \/ i = Len(f) + 1
  BY <1>1, <1>2 DEF Anchors
<1> QED BY <1>1, <1>3, <1>4 DEF g

\* What holds of a rollout and its rows holds when either grows.
LEMMA Grow ==
  ASSUME NEW f \in Seq(Line), NEW g \in Seq(Line), NEW stored, NEW more,
         stored \subseteq more,
         g = f \/ \E line \in Line : g = Append(f, line),
         NEW n \in Nat, NEW owed, NEW keys
  PROVE  /\ Len(f) <= Len(g) /\ Anchors(f) \subseteq Anchors(g)
         /\ Owes(f, stored, n, owed) => Owes(g, more, n, owed)
         /\ Delivers(f, stored, keys) => Delivers(g, more, keys)
<1>1. CASE g = f
  BY <1>1 DEF Owes, Delivers
<1>2. CASE \E line \in Line : g = Append(f, line)
  <2>1. /\ Len(f) \in Nat /\ Len(g) = Len(f) + 1
        /\ \A i \in Anchors(f) : i \in Anchors(g) /\ g[i] = f[i]
        /\ \A i \in Anchors(g) : i \in Anchors(f) \/ i = Len(f) + 1
    <3>1. PICK line \in Line : g = Append(f, line)
      BY <1>2
    <3> QED BY <3>1, AnchorsGrow, LenProperties
  <2>2. Owes(f, stored, n, owed) => Owes(g, more, n, owed)
    <3> SUFFICES ASSUME Owes(f, stored, n, owed) PROVE Owes(g, more, n, owed)
      OBVIOUS
    <3>1. n <= Len(f)
      BY DEF Owes
    <3>2. ASSUME NEW i \in Anchors(g), i <= n PROVE i \in owed \/ g[i] \in more
      <4>1. i \in Anchors(f)
        BY <2>1, <3>1, <3>2
      <4> QED BY <2>1, <3>2, <4>1 DEF Owes
    <3> QED BY <2>1, <3>1, <3>2 DEF Owes
  <2>3. Delivers(f, stored, keys) => Delivers(g, more, keys)
    BY <2>1 DEF Delivers
  <2>4. Len(f) <= Len(g) /\ Anchors(f) \subseteq Anchors(g)
    BY <2>1
  <2> QED BY <2>2, <2>3, <2>4
<1> QED BY <1>1, <1>2

\* Where rollouts and rows only grow and the scanner forgets at most, all that
\* is known of the scanner, and of a scan c that goes on, stays true.
LEMMA Monotone ==
  ASSUME TypeOK, TypeOK', ScannerInv,
         \A p \in Paths : file'[p] = file[p] \/ \E line \in Line : file'[p] = Append(file[p], line),
         \A p \in Paths : rows[p] \subseteq rows'[p],
         \A p \in Paths : scanner'[p] = scanner[p] \/ scanner'[p] = Unscanned
  PROVE  /\ ScannerInv'
         /\ \A c \in Client : Posts(c, file[c.path], rows[c.path])
                            => Posts(c, file'[c.path], rows'[c.path])
<1>1. \A p \in Paths : file[p] \in Seq(Line) /\ file'[p] \in Seq(Line)
  BY DEF TypeOK
<1>2. ASSUME NEW p \in Paths
      PROVE  /\ \A fp \in scanner'[p].scanned : Owes(file'[p], rows'[p], fp.lines, {})
             /\ Delivers(file'[p], rows'[p], scanner'[p].delivered)
  <2>1. CASE scanner'[p] = scanner[p]
    <3>1. \A fp \in scanner[p].scanned : fp.lines \in Nat
      BY ConstantsAssumption DEF TypeOK, Scan, Fingerprints
    <3>2. \A fp \in scanner[p].scanned : Owes(file'[p], rows'[p], fp.lines, {})
      BY <1>1, <3>1, Grow DEF ScannerInv
    <3>3. Delivers(file'[p], rows'[p], scanner[p].delivered)
      BY <1>1, Grow, 0 \in Nat DEF ScannerInv
    <3> QED BY <2>1, <3>2, <3>3
  <2>2. CASE scanner'[p] = Unscanned
    BY <2>2 DEF Unscanned, Delivers
  <2> QED BY <2>1, <2>2
<1>3. ASSUME NEW c \in Client, Posts(c, file[c.path], rows[c.path])
      PROVE  Posts(c, file'[c.path], rows'[c.path])
  <2>1. c.path \in Paths /\ c.fp.lines \in Nat
    BY ConstantsAssumption DEF Client, Fingerprints
  <2> DEFINE f == file[c.path]
             g == file'[c.path]
  <2>2. f \in Seq(Line) /\ g \in Seq(Line) /\ Len(f) \in Nat /\ Len(g) \in Nat
    BY <1>1, <2>1, LenProperties
  <2>3. /\ Len(f) <= Len(g) /\ Anchors(f) \subseteq Anchors(g)
        /\ Owes(f, rows[c.path], c.fp.lines, c.owed) => Owes(g, rows'[c.path], c.fp.lines, c.owed)
    <3>1. /\ rows[c.path] \subseteq rows'[c.path]
          /\ g = f \/ \E line \in Line : g = Append(f, line)
      BY <2>1
    <3>2. Len(f) <= Len(g) /\ Anchors(f) \subseteq Anchors(g)
      <4> HIDE DEF f, g
      <4> QED BY <2>2, <3>1, Grow, 0 \in Nat
    <3>3. Owes(f, rows[c.path], c.fp.lines, c.owed)
            => Owes(g, rows'[c.path], c.fp.lines, c.owed)
      <4> DEFINE stored == rows[c.path]
                 more   == rows'[c.path]
                 n      == c.fp.lines
                 owed   == c.owed
      <4>1. n \in Nat /\ stored \subseteq more
        BY <2>1, <3>1
      <4> HIDE DEF f, g, stored, more, n, owed
      <4>2. Owes(f, stored, n, owed) => Owes(g, more, n, owed)
        BY <2>2, <3>1, <4>1, Grow
      <4> QED BY <4>2 DEF stored, more, n, owed
    <3> QED BY <3>2, <3>3
  <2>4. c.phase # "idle" => c.fp.lines <= Len(g)
    <3>1. c.phase # "idle" => c.fp.lines <= Len(f)
      BY <1>3 DEF Posts
    <3> HIDE DEF f, g
    <3> QED BY <2>1, <2>2, <2>3, <3>1
  <2>5. c.phase = "posting" =>
          /\ c.owed \subseteq Anchors(g)
          /\ ~c.failed => Owes(g, rows'[c.path], c.fp.lines, c.owed)
    <3>1. c.phase = "posting" =>
            /\ c.owed \subseteq Anchors(f)
            /\ ~c.failed => Owes(f, rows[c.path], c.fp.lines, c.owed)
      BY <1>3 DEF Posts
    <3> HIDE DEF f, g
    <3> QED BY <2>3, <3>1
  <2> QED BY <2>4, <2>5 DEF Posts
<1>4. ScannerInv'
  BY <1>2 DEF ScannerInv
<1> QED BY <1>3, <1>4

\* Initially there is nothing to read.
LEMMA InitIInv == Init => IInv
<1> SUFFICES ASSUME Init PROVE IInv
  OBVIOUS
<1>0. <<>> \in Seq(Line) /\ Len(<<>>) = 0 /\ 0 \in 0 .. MaxLines /\ 0 \in 0 .. MaxRestarts
  BY ConstantsAssumption
<1>1. TypeOK
  BY <1>0 DEF Init, TypeOK, Scan, Unscanned, Client, Fingerprints
<1>2. \A p \in Paths : scanner[p] = Unscanned
  BY DEF Init
<1>3. ScannerInv
  BY <1>2 DEF ScannerInv, Unscanned, Delivers
<1>4. ClientInv
  BY DEF Init, ClientInv, Posts
<1> QED BY <1>1, <1>3, <1>4 DEF IInv, Room, Init

\* Every variable keeps its type, and every line its room.
LEMMA NextType ==
  ASSUME TypeOK, Room, ClientInv, [Next]_vars
  PROVE  TypeOK' /\ Room'
<1> USE DEF TypeOK, Room
<1>0. /\ client.path \in Paths /\ client.fp \in Fingerprints
      /\ client.owed \in SUBSET (1 .. MaxLines) /\ client.failed \in BOOLEAN
  BY DEF Client
<1>1. \A phase \in {"idle", "stat", "posting"}, owed \in SUBSET (1 .. MaxLines), failed \in BOOLEAN :
        Step(phase, owed, failed) \in Client
  BY <1>0 DEF Client, Step
<1>2. \A p \in Paths : Len(file[p]) \in Nat /\ Fingerprint(p) \in Fingerprints
  BY LenProperties, ConstantsAssumption DEF Fingerprint, Fingerprints
<1>3. Unscanned \in Scan /\ {} \in SUBSET (1 .. MaxLines)
  BY DEF Unscanned, Scan
<1>4. ASSUME NEW i, IsNext(i)
      PROVE  file[client.path][i] \in Line /\ Key(file[client.path][i]) \in Keys
  <2>1. i \in Anchors(file[client.path])
    BY <1>4 DEF IsNext, ClientInv, Posts
  <2>2. file[client.path][i] \in Line
    BY <1>0, <2>1, AnchorsAreLines
  <2> QED BY <2>2 DEF Keys
<1>5. ASSUME NEW p \in Paths, StartLine(p) PROVE TypeOK' /\ Room'
  BY <1>5 DEF StartLine
<1>6. ASSUME NEW p \in Paths, NEW line \in Line, FinishLine(p, line) PROVE TypeOK' /\ Room'
  <2>1. Append(file[p], line) \in Seq(Line) /\ Len(Append(file[p], line)) <= MaxLines
    BY <1>2, <1>6, AppendProperties, ConstantsAssumption DEF FinishLine
  <2> QED BY <1>6, <2>1 DEF FinishLine
<1>7. ASSUME NEW snapshot \in SUBSET Paths, RetainLive(snapshot) PROVE TypeOK' /\ Room'
  BY <1>3, <1>7 DEF RetainLive
<1>8. ASSUME NEW p \in Paths, Stat(p) PROVE TypeOK' /\ Room'
  BY <1>2, <1>3, <1>8 DEF Stat, Client
<1>9. CASE Read
  <2>1. Undelivered(scanner[client.path], file[client.path]) \in SUBSET (1 .. MaxLines)
    BY <1>0, <1>2, ConstantsAssumption DEF Undelivered, Anchors
  <2> QED BY <1>1, <1>9, <2>1 DEF Read
<1>10. CASE ReadFails
  BY <1>1, <1>3, <1>10 DEF ReadFails
<1>11. ASSUME NEW i \in 1 .. MaxLines, PostAccepted(i) PROVE TypeOK' /\ Room'
  <2> DEFINE p    == client.path
             line == file[p][i]
  <2>1. line \in Line /\ Key(line) \in Keys
    BY <1>4, <1>11 DEF PostAccepted
  <2>2. Step("posting", client.owed \ {i}, client.failed) \in Client
    BY <1>0, <1>1
  <2> HIDE DEF line
  <2>3. RecordDelivered(scanner[p], line) \in Scan
    BY <1>0, <2>1 DEF RecordDelivered, Scan
  <2>4. rows' = [rows EXCEPT ![p] = @ \cup {line}]
    BY <1>11 DEF PostAccepted, line
  <2>5. scanner' = [scanner EXCEPT ![p] = RecordDelivered(scanner[p], line)]
    BY <1>0, <1>11 DEF PostAccepted, line
  <2>6. rows' \in [Paths -> SUBSET Line] /\ scanner' \in [Paths -> Scan]
    BY <1>0, <2>1, <2>3, <2>4, <2>5
  <2> QED BY <1>11, <2>2, <2>6 DEF PostAccepted
<1>12. ASSUME NEW i \in 1 .. MaxLines, NEW stored \in BOOLEAN,
              NEW rest \in SUBSET (1 .. MaxLines), PostFails(i, stored, rest)
       PROVE  TypeOK' /\ Room'
  <2>1. file[client.path][i] \in Line
    BY <1>4, <1>12 DEF PostFails
  <2>2. rows' \in [Paths -> SUBSET Line]
    BY <1>0, <1>12, <2>1 DEF PostFails
  <2>3. Step("posting", rest, TRUE) \in Client
    BY <1>1
  <2> QED BY <1>12, <2>2, <2>3 DEF PostFails
<1>13. CASE EndScan
  <2>1. RecordCleanScan(scanner[client.path], client.fp) \in Scan
    BY <1>0 DEF RecordCleanScan, Scan
  <2>2. scanner' \in [Paths -> Scan]
    BY <1>0, <1>13, <2>1 DEF EndScan
  <2> QED BY <1>1, <1>3, <1>13, <2>2 DEF EndScan
<1>14. CASE Restart
  <2>1. restarts' \in 0 .. MaxRestarts
    BY <1>14, ConstantsAssumption DEF Restart
  <2> QED BY <1>1, <1>3, <1>14, <2>1 DEF Restart
<1>15. CASE UNCHANGED vars
  BY <1>15 DEF vars
<1> QED
  BY <1>5, <1>6, <1>7, <1>8, <1>9, <1>10, <1>11, <1>12, <1>13, <1>14, <1>15 DEF Next

\* What a read finds owed and what is stored make up all the rollout offers.
LEMMA ReadOwesAll ==
  ASSUME NEW f \in Seq(Line), NEW state, NEW stored, NEW n \in Nat, n <= Len(f),
         Delivers(f, stored, state.delivered)
  PROVE  Owes(f, stored, n, Undelivered(state, f))
<1> SUFFICES ASSUME NEW i \in Anchors(f), i \notin Undelivered(state, f)
             PROVE  f[i] \in stored
  BY DEF Owes
<1>1. Key(f[i]) \in state.delivered
  BY DEF Undelivered
<1>2. PICK j \in Anchors(f) : Key(f[j]) = Key(f[i]) /\ f[j] \in stored
  BY <1>1 DEF Delivers
<1>3. i = j
  BY <1>2, AnchorsDiffer
<1> QED BY <1>2, <1>3

\* Every step keeps the invariant.
LEMMA NextIInv ==
  ASSUME IInv, [Next]_vars
  PROVE  IInv'
<1>1. TypeOK /\ Room /\ ScannerInv /\ ClientInv /\ TypeOK' /\ Room'
  BY NextType DEF IInv
<1> DEFINE path == client.path
<1>2. /\ client \in Client /\ client' \in Client /\ path \in Paths
      /\ client.fp.lines \in Nat
      /\ \A p \in Paths : file[p] \in Seq(Line) /\ file'[p] \in Seq(Line)
      /\ \A p \in Paths : Len(file[p]) \in Nat /\ Len(file'[p]) \in Nat
  BY <1>1, LenProperties, ConstantsAssumption DEF TypeOK, Client, Fingerprints
<1>3. SUFFICES ScannerInv' /\ ClientInv'
  BY <1>1 DEF IInv
<1>4. ASSUME UNCHANGED <<rows, client>>,
             scanner' = scanner,
             \A p \in Paths : file'[p] = file[p] \/ \E line \in Line : file'[p] = Append(file[p], line)
      PROVE  ScannerInv' /\ ClientInv'
  <2>1. \A p \in Paths : rows[p] \subseteq rows'[p]
    BY <1>4
  <2>2. \A p \in Paths : scanner'[p] = scanner[p] \/ scanner'[p] = Unscanned
    BY <1>4
  <2>3. /\ ScannerInv'
        /\ Posts(client, file[path], rows[path]) => Posts(client, file'[path], rows'[path])
    BY <1>1, <1>2, <1>4, <2>1, <2>2, Monotone
  <2> QED BY <1>1, <1>4, <2>3 DEF ClientInv
<1>5. ASSUME UNCHANGED <<file, rows>>, client'.phase = "idle",
             \A p \in Paths : scanner'[p] = scanner[p] \/ scanner'[p] = Unscanned
      PROVE  ScannerInv' /\ ClientInv'
  <2>1. ScannerInv'
    BY <1>1, <1>5, Monotone
  <2> QED BY <1>5, <2>1 DEF ClientInv, Posts
<1>6. ASSUME NEW p \in Paths, StartLine(p) PROVE ScannerInv' /\ ClientInv'
  BY <1>4, <1>6 DEF StartLine
<1>7. ASSUME NEW p \in Paths, NEW line \in Line, FinishLine(p, line)
      PROVE  ScannerInv' /\ ClientInv'
  <2>1. \A q \in Paths : file'[q] = file[q] \/ file'[q] = Append(file[q], line)
    BY <1>1, <1>7 DEF FinishLine, TypeOK
  <2> QED BY <1>4, <1>7, <2>1 DEF FinishLine
<1>8. ASSUME NEW snapshot \in SUBSET Paths, RetainLive(snapshot)
      PROVE  ScannerInv' /\ ClientInv'
  BY <1>5, <1>8 DEF RetainLive
<1>9. ASSUME NEW p \in Paths, Stat(p) PROVE ScannerInv' /\ ClientInv'
  <2>1. ScannerInv'
    BY <1>1, <1>9 DEF Stat, ScannerInv
  <2>2. client'.phase = "stat" /\ client'.path = p /\ client'.fp.lines = Len(file'[p])
    BY <1>9 DEF Stat, Fingerprint
  <2> QED BY <1>2, <2>1, <2>2 DEF ClientInv, Posts
<1>10. CASE Read
  <2> DEFINE owed == Undelivered(scanner[path], file[path])
  <2>1. ScannerInv'
    BY <1>1, <1>10 DEF Read, ScannerInv
  <2>2. /\ client'.phase = "posting" /\ client'.path = path /\ client'.fp = client.fp
        /\ client'.owed = owed /\ file' = file /\ rows' = rows
    BY <1>10 DEF Read, Step
  <2>3. client.fp.lines <= Len(file[path])
    BY <1>1, <1>10 DEF ClientInv, Posts, Read
  <2>4. Owes(file[path], rows[path], client.fp.lines, owed)
    BY <1>1, <1>2, <2>3, ReadOwesAll DEF ScannerInv
  <2>5. owed \subseteq Anchors(file[path])
    BY DEF Undelivered
  <2> HIDE DEF owed
  <2> QED BY <2>1, <2>2, <2>3, <2>4, <2>5 DEF ClientInv, Posts
<1>11. CASE ReadFails
  <2>1. client'.phase = "idle"
    BY <1>11 DEF ReadFails, Step
  <2> QED BY <1>5, <1>11, <2>1 DEF ReadFails
<1>12. ASSUME NEW i \in 1 .. MaxLines, PostAccepted(i) PROVE ScannerInv' /\ ClientInv'
  <2> DEFINE f      == file[path]
             stored == rows[path]
             more   == rows'[path]
  <2>1. /\ i \in Anchors(f) /\ client.phase = "posting"
        /\ ~client.failed => Owes(f, stored, client.fp.lines, client.owed)
    BY <1>1, <1>12 DEF PostAccepted, IsNext, ClientInv, Posts
  <2>2. more = stored \cup {f[i]} /\ \A q \in Paths : q # path => rows'[q] = rows[q]
    BY <1>1, <1>2, <1>12 DEF PostAccepted, TypeOK
  <2>3. /\ scanner'[path] = RecordDelivered(scanner[path], f[i])
        /\ \A q \in Paths : q # path => scanner'[q] = scanner[q]
    BY <1>1, <1>2, <1>12 DEF PostAccepted, TypeOK
  <2>4. file' = file /\ client' = Step("posting", client.owed \ {i}, client.failed)
    BY <1>12 DEF PostAccepted
  <2>5. \A fp \in scanner'[path].scanned : Owes(f, more, fp.lines, {})
    BY <1>1, <1>2, <2>2, <2>3 DEF ScannerInv, RecordDelivered, Owes
  <2>6. Delivers(f, more, scanner'[path].delivered)
    <3>1. scanner'[path].delivered = scanner[path].delivered \cup {Key(f[i])}
      BY <2>3 DEF RecordDelivered
    <3>2. Delivers(f, stored, scanner[path].delivered)
      BY <1>1, <1>2 DEF ScannerInv
    <3> HIDE DEF f, stored, more
    <3> QED BY <2>1, <2>2, <3>1, <3>2 DEF Delivers
  <2>7. ASSUME NEW q \in Paths
        PROVE  /\ \A fp \in scanner'[q].scanned : Owes(file'[q], rows'[q], fp.lines, {})
               /\ Delivers(file'[q], rows'[q], scanner'[q].delivered)
    <3>1. CASE q = path
      BY <2>4, <2>5, <2>6, <3>1
    <3>2. CASE q # path
      BY <1>1, <2>2, <2>3, <2>4, <3>2 DEF ScannerInv
    <3> QED BY <3>1, <3>2
  <2>8. ~client.failed => Owes(f, more, client.fp.lines, client.owed \ {i})
    <3> HIDE DEF f, stored, more
    <3> QED BY <2>1, <2>2 DEF Owes
  <2>9. client.owed \subseteq Anchors(f) /\ client.fp.lines <= Len(f)
    BY <1>1, <2>1 DEF ClientInv, Posts
  <2>10. Posts(client', f, more)
    <3> HIDE DEF f, more
    <3> QED BY <2>4, <2>8, <2>9 DEF Posts, Step
  <2>11. ClientInv'
    BY <2>4, <2>10 DEF ClientInv, Step
  <2>12. ScannerInv'
    BY <2>7 DEF ScannerInv
  <2> QED BY <2>11, <2>12
<1>13. ASSUME NEW i \in 1 .. MaxLines, NEW stored \in BOOLEAN,
              NEW rest \in SUBSET (1 .. MaxLines), PostFails(i, stored, rest)
       PROVE  ScannerInv' /\ ClientInv'
  <2>1. client.owed \subseteq Anchors(file[path]) /\ client.fp.lines <= Len(file[path])
    BY <1>1, <1>13 DEF PostFails, IsNext, ClientInv, Posts
  <2>2. \A p \in Paths : rows[p] \subseteq rows'[p]
    BY <1>1, <1>2, <1>13 DEF PostFails, TypeOK
  <2>3. scanner' = scanner /\ file' = file
    BY <1>13 DEF PostFails
  <2>4. ScannerInv'
    BY <1>1, <2>2, <2>3, Monotone
  <2>5. /\ client'.path = path /\ client'.fp = client.fp /\ client'.failed
        /\ client'.owed \subseteq client.owed
    BY <1>13 DEF PostFails, Step
  <2> QED BY <2>1, <2>3, <2>4, <2>5 DEF ClientInv, Posts
<1>14. CASE EndScan
  <2>1. file' = file /\ rows' = rows /\ client'.phase = "idle"
    BY <1>14 DEF EndScan, Step
  <2>2. ~client.failed => Owes(file[path], rows[path], client.fp.lines, {})
    BY <1>1, <1>14 DEF EndScan, ClientInv, Posts
  <2>3. ASSUME NEW p \in Paths
        PROVE  /\ \A fp \in scanner'[p].scanned : Owes(file[p], rows[p], fp.lines, {})
               /\ Delivers(file[p], rows[p], scanner'[p].delivered)
    <3>1. CASE p = path /\ ~client.failed
      <4>1. scanner'[p] = RecordCleanScan(scanner[p], client.fp)
        BY <1>1, <1>14, <3>1 DEF EndScan, TypeOK
      <4> QED BY <1>1, <2>2, <3>1, <4>1 DEF RecordCleanScan, ScannerInv
    <3>2. CASE ~(p = path /\ ~client.failed)
      <4>1. scanner'[p] = scanner[p]
        BY <1>1, <1>14, <3>2 DEF EndScan, TypeOK
      <4> QED BY <1>1, <4>1 DEF ScannerInv
    <3> QED BY <3>1, <3>2
  <2> QED BY <2>1, <2>3 DEF ScannerInv, ClientInv, Posts
<1>15. CASE Restart
  <2>1. client'.phase = "idle" /\ \A p \in Paths : scanner'[p] = Unscanned
    BY <1>15 DEF Restart, Step
  <2> QED BY <1>5, <1>15, <2>1 DEF Restart
<1>16. CASE UNCHANGED vars
  BY <1>4, <1>16 DEF vars
<1> QED
  BY <1>6, <1>7, <1>8, <1>9, <1>10, <1>11, <1>12, <1>13, <1>14, <1>15, <1>16 DEF Next

\* The invariant holds throughout.
THEOREM Invariance == Spec => []IInv
<1>1. IInv /\ [Next]_vars => IInv'
  BY NextIInv
<1> QED BY <1>1, InitIInv, PTL DEF Spec

\* Every variable keeps its type (TypeOK), the client's scan among them: it
\* only ever owes lines the rollout has.
THEOREM TypeCorrect == Spec => []TypeOK
<1>1. IInv => TypeOK
  BY DEF IInv
<1> QED BY <1>1, Invariance, PTL

\* A rollout needs_read refuses hides no event the server does not know
\* (SkippedIsStored), however the file grew under the scans.
THEOREM SkippedRolloutsAreStored == Spec => []SkippedIsStored
<1>1. ASSUME IInv PROVE SkippedIsStored
  <2> SUFFICES ASSUME NEW p \in Paths, ~NeedsRead(scanner[p], Fingerprint(p)),
                      NEW i \in 1 .. MaxLines, Tells(p, i)
               PROVE  Known(p, i)
    BY DEF SkippedIsStored
  <2> DEFINE f == file[p]
  <2>1. f \in Seq(Line) /\ i \in DOMAIN f /\ IsAnchor(f[i]) /\ i <= Len(f)
    BY <1>1 DEF IInv, TypeOK, Tells
  <2>2. Owes(f, rows[p], Len(f), {})
    BY <1>1 DEF IInv, ScannerInv, NeedsRead, Fingerprint
  <2> HIDE DEF f
  <2>3. PICK j \in Anchors(f) : j <= i /\ Key(f[j]) = Key(f[i])
    BY <2>1, AnchorsAreFirst
  <2>4. j \in 1 .. Len(f) /\ f[j] \in Line /\ IsAnchor(f[j]) /\ f[i] \in Line
    BY <2>1, <2>3, AnchorsAreLines
  <2>5. SameEvent(f[j], f[i])
    BY <2>1, <2>3, <2>4, KeyIsEvent
  <2>6. f[j] \in rows[p]
    BY <2>2, <2>4 DEF Owes
  <2> QED BY <2>5, <2>6 DEF Known, Stored, f
<1> QED BY <1>1, Invariance, PTL

\* Every step of the lane is a step of the ledger or leaves it alone.
LEMMA LedgerStep ==
  ASSUME IInv, [Next]_vars
  PROVE  [Ledger!Next]_<<Offered, rows>>
<1>1. \A p \in Paths : file[p] \in Seq(Line)
  BY DEF IInv, TypeOK
<1>2. ASSUME NEW p \in Paths, NEW line \in Line, FinishLine(p, line)
      PROVE  [Ledger!Next]_<<Offered, rows>>
  <2> DEFINE f == file[p]
             g == Append(f, line)
             n == Len(f) + 1
  <2>1. file' = [file EXCEPT ![p] = g] /\ rows' = rows
    BY <1>2 DEF FinishLine
  <2>2. /\ f \in Seq(Line) /\ g \in Seq(Line) /\ g[n] = line
        /\ \A i \in Anchors(f) : i \in Anchors(g) /\ g[i] = f[i]
        /\ \A i \in Anchors(g) : i \in Anchors(f) \/ i = n
    <3>1. f \in Seq(Line) /\ Len(f) \in Nat
      BY <1>1, LenProperties
    <3> HIDE DEF f
    <3> QED BY <3>1, AnchorsGrow
  <2>3. Offered' = [Offered EXCEPT ![p] = {g[i] : i \in Anchors(g)}]
    BY <2>1 DEF Offered, IInv, TypeOK
  <2>4. CASE n \in Anchors(g)
    <3>1. {g[i] : i \in Anchors(g)} = {f[i] : i \in Anchors(f)} \cup {line}
      BY <2>2, <2>4
    <3>2. ASSUME NEW i \in Anchors(f) PROVE ~SameEvent(f[i], line)
      <4>1. i \in Anchors(g) /\ g[i] = f[i] /\ i # n
        BY <2>2, AnchorsAreLines
      <4>2. Key(g[i]) # Key(g[n])
        BY <2>2, <2>4, <4>1, AnchorsDiffer
      <4> HIDE DEF f, g, n
      <4> QED BY <2>2, <2>4, <4>1, <4>2, KeyIsEvent, AnchorsAreLines
    <3>3. Offered[p] = {f[i] : i \in Anchors(f)}
      BY DEF Offered
    <3>4. Ledger!Offer(p, line)
      BY <2>1, <2>3, <3>1, <3>2, <3>3 DEF Ledger!Offer
    <3> QED BY <3>4 DEF Ledger!Next
  <2>5. CASE n \notin Anchors(g)
    <3>1. {g[i] : i \in Anchors(g)} = {f[i] : i \in Anchors(f)}
      BY <2>2, <2>5
    <3>2. Offered' = [Offered EXCEPT ![p] = Offered[p]]
      BY <2>3, <3>1 DEF Offered
    <3>3. Offered' = Offered
      <4>1. Offered = [q \in Paths |-> Offered[q]]
        BY DEF Offered
      <4> QED BY <3>2, <4>1
    <3> QED BY <2>1, <3>3
  <2> QED BY <2>4, <2>5
<1>3. ASSUME NEW i, IsNext(i)
      PROVE  /\ client.path \in Paths /\ file[client.path][i] \in Line
             /\ file[client.path][i] \in Offered[client.path]
  <2>1. client.path \in Paths /\ i \in Anchors(file[client.path])
    BY <1>3 DEF IInv, TypeOK, Client, ClientInv, Posts, IsNext
  <2> QED BY <1>1, <2>1, AnchorsAreLines DEF Offered
<1>4. ASSUME NEW i \in 1 .. MaxLines, PostAccepted(i) PROVE [Ledger!Next]_<<Offered, rows>>
  <2>1. Ledger!Bank(client.path, file[client.path][i])
    BY <1>3, <1>4 DEF PostAccepted, Ledger!Bank, Offered
  <2> QED BY <1>3, <1>4, <2>1 DEF PostAccepted, Ledger!Next
<1>5. ASSUME NEW i \in 1 .. MaxLines, NEW stored \in BOOLEAN,
             NEW rest \in SUBSET (1 .. MaxLines), PostFails(i, stored, rest)
      PROVE  [Ledger!Next]_<<Offered, rows>>
  <2>1. Offered' = Offered
    BY <1>5 DEF PostFails, Offered
  <2>2. CASE stored
    <3>1. Ledger!Bank(client.path, file[client.path][i])
      BY <1>3, <1>5, <2>1, <2>2 DEF PostFails, Ledger!Bank
    <3> QED BY <1>3, <1>5, <3>1 DEF PostFails, Ledger!Next
  <2>3. CASE ~stored
    BY <1>5, <2>1, <2>3 DEF PostFails
  <2> QED BY <2>2, <2>3
<1>6. ASSUME UNCHANGED <<file, rows>> PROVE [Ledger!Next]_<<Offered, rows>>
  BY <1>6 DEF Offered
<1> QED
  BY <1>2, <1>4, <1>5, <1>6
     DEF Next, vars, StartLine, RetainLive, Stat, Read, ReadFails, EndScan, Restart

\* The anchor lane implements AnchorLedger (LedgerSpec): retries, forgotten
\* bookkeeping, restarts and lost answers never store a line that is not the
\* rollout's first of an event, and never lose one.
THEOREM ImplementsLedger == Spec => LedgerSpec
<1>1. Init => Ledger!Init
  <2> SUFFICES ASSUME Init PROVE Offered = [p \in Paths |-> {}] /\ rows = [p \in Paths |-> {}]
    BY DEF Ledger!Init
  <2>1. Anchors(<<>>) = {}
    BY DEF Anchors
  <2> QED BY <2>1 DEF Init, Offered
<1>2. IInv /\ [Next]_vars => [Ledger!Next]_<<Offered, rows>>
  BY LedgerStep
<1> QED BY <1>1, <1>2, Invariance, PTL DEF Spec, LedgerSpec, Ledger!Spec

---------------------------------------------------------------------------
(* The provider config (CodexConfig).                                      *)

\* A container is there exactly while it holds something.
Contained ==
  /\ config.others \/ config.provider # Absent => config.providers # Absent
  /\ ~config.others /\ config.provider = Absent => config.providers = Absent

\* While nothing that the patch owns has been edited, the document says it.
Holds(patch) ==
  /\ config.selected = Ours /\ config.providers = "table" /\ config.compression = "off"
  /\ config.provider \in Provider /\ config.provider # Absent
  /\ config.provider.shape = "table" /\ config.provider.route = patch.route
  /\ config.provider.keys = AuthKeys({}, patch)
  /\ \A h \in Headers : config.provider.sent[h] = Ours <=> h = patch.header
  /\ patch.header # Absent => config.provider.box = "table"
  /\ patch.retires => "retired" \notin config.overrides

CfgInv == CfgTypeOK /\ Contained /\ (last # Absent => Holds(last))

\* Of the old entries only those of the patch under another header go.
LEMMA ScrubIs ==
  ASSUME NEW p \in Provider, NEW header \in Headers \cup {Absent}
  PROVE  LET q == ScrubStaleAttributionHeaders(p, header)
         IN  /\ q \in Provider /\ q.shape = p.shape
             /\ \A h \in Headers : q.sent[h] = IF p.sent[h] = Ours /\ h # header THEN Absent ELSE p.sent[h]
             /\ header # Absent => q.box = p.box
             /\ (\A h \in Headers : p.sent[h] = Ours => h = header) => q = p
<1> DEFINE stale == {h \in Headers : p.sent[h] = Ours /\ h # header}
           sent == [h \in Headers |-> IF h \in stale THEN Absent ELSE p.sent[h]]
           emptied == stale # {} /\ header = Absent /\ sent = NoHeaders
           q == ScrubStaleAttributionHeaders(p, header)
<1>1. q = [p EXCEPT !.sent = sent, !.box = IF emptied THEN Absent ELSE @]
  BY DEF ScrubStaleAttributionHeaders
<1>2. sent \in [Headers -> {Ours, Theirs, Absent}]
  BY DEF Provider
<1>3. stale = {} => sent = p.sent /\ ~emptied
  BY DEF Provider
<1>4. \A h \in Headers : sent[h] = IF p.sent[h] = Ours /\ h # header THEN Absent ELSE p.sent[h]
  OBVIOUS
<1>5. header # Absent => ~emptied
  OBVIOUS
<1>6. (\A h \in Headers : p.sent[h] = Ours => h = header) => stale = {}
  OBVIOUS
<1> HIDE DEF sent, emptied, stale, q
<1>7. q \in Provider /\ q.shape = p.shape /\ q.sent = sent /\ (~emptied => q.box = p.box)
  BY <1>1, <1>2 DEF Provider
<1>8. sent = p.sent /\ ~emptied => q = p
  BY <1>1 DEF Provider
<1> QED BY <1>3, <1>4, <1>5, <1>6, <1>7, <1>8 DEF q

\* The header is the one entry that is added.
LEMMA WithHeaderIs ==
  ASSUME NEW p \in Provider, NEW header \in Headers \cup {Absent}
  PROVE  LET q == WithHeader(p, header)
         IN  /\ q \in Provider /\ q.shape = p.shape
             /\ \A h \in Headers : q.sent[h] = IF h = header THEN Ours ELSE p.sent[h]
             /\ header # Absent => q.box = "table"
             /\ (header = Absent \/ (p.box = "table" /\ p.sent[header] = Ours)) => q = p
<1>1. CASE header = Absent
  BY <1>1, ConfigAssumption DEF WithHeader
<1>2. CASE header # Absent
  <2> DEFINE q == WithHeader(p, header)
             sent == [p.sent EXCEPT ![header] = Ours]
  <2>1. q = [p EXCEPT !.box = "table", !.sent = sent]
    BY <1>2 DEF WithHeader
  <2>2. /\ sent \in [Headers -> {Ours, Theirs, Absent}]
        /\ \A h \in Headers : sent[h] = IF h = header THEN Ours ELSE p.sent[h]
        /\ p.sent[header] = Ours => sent = p.sent
    BY <1>2 DEF Provider
  <2> HIDE DEF q, sent
  <2>3. q \in Provider /\ q.shape = p.shape /\ q.sent = sent /\ q.box = "table"
    BY <2>1, <2>2 DEF Provider
  <2>4. p.box = "table" /\ sent = p.sent => q = p
    BY <2>1 DEF Provider
  <2> QED BY <1>2, <2>2, <2>3, <2>4 DEF q
<1> QED BY <1>1, <1>2

\* What an installation writes for the provider.
Written(old, patch) ==
  [WithHeader(ScrubStaleAttributionHeaders(old, patch.header), patch.header)
     EXCEPT !.route = patch.route, !.keys = AuthKeys({}, patch)]

\* An installation, field by field.
LEMMA ApplyIs ==
  ASSUME NEW c, NEW patch
  PROVE  ApplyProvider(c, patch) =
           [selected |-> Ours, providers |-> "table", others |-> c.others,
            provider |-> Written(IF c.provider = Absent THEN Fresh ELSE c.provider, patch),
            compression |-> "off",
            overrides |-> c.overrides \ {o \in {"retired"} : patch.retires}]
BY DEF ApplyProvider, Written, AuthKeys

\* What is written says all of the patch; what says so already is written as it is.
LEMMA WrittenIs ==
  ASSUME NEW old \in Provider, NEW patch \in Patch
  PROVE  LET w == Written(old, patch)
         IN  /\ w \in Provider /\ w # Absent
             /\ w.shape = old.shape /\ w.route = patch.route /\ w.keys = AuthKeys({}, patch)
             /\ \A h \in Headers : w.sent[h] = Ours <=> h = patch.header
             /\ patch.header # Absent => w.box = "table"
             /\ /\ old.route = patch.route /\ old.keys = AuthKeys({}, patch)
                /\ \A h \in Headers : old.sent[h] = Ours <=> h = patch.header
                /\ patch.header # Absent => old.box = "table"
                => w = old
<1> DEFINE header == patch.header
           p == ScrubStaleAttributionHeaders(old, header)
           q == WithHeader(p, header)
           w == Written(old, patch)
<1>1. /\ header \in Headers \cup {Absent} /\ patch.route \in Routes
      /\ AuthKeys({}, patch) \subseteq {"requires_openai_auth", "env_key", "env_key_instructions"}
  BY DEF Patch, AuthKeys
<1>2. /\ p \in Provider /\ p.shape = old.shape
      /\ \A h \in Headers : p.sent[h] = IF old.sent[h] = Ours /\ h # header THEN Absent ELSE old.sent[h]
      /\ header # Absent => p.box = old.box
      /\ (\A h \in Headers : old.sent[h] = Ours => h = header) => p = old
  BY <1>1, ScrubIs
<1> HIDE DEF p
<1>3. /\ q \in Provider /\ q.shape = p.shape
      /\ \A h \in Headers : q.sent[h] = IF h = header THEN Ours ELSE p.sent[h]
      /\ header # Absent => q.box = "table"
      /\ (header = Absent \/ (p.box = "table" /\ p.sent[header] = Ours)) => q = p
  BY <1>1, <1>2, WithHeaderIs
<1> HIDE DEF q
<1>4. w = [q EXCEPT !.route = patch.route, !.keys = AuthKeys({}, patch)]
  BY DEF Written, q, p
<1> HIDE DEF w
<1>5. /\ w \in Provider /\ w.shape = q.shape /\ w.route = patch.route /\ w.keys = AuthKeys({}, patch)
      /\ w.sent = q.sent /\ w.box = q.box
      /\ q.route = patch.route /\ q.keys = AuthKeys({}, patch) => w = q
  BY <1>1, <1>3, <1>4 DEF Provider
<1>6. \A h \in Headers : w.sent[h] = Ours <=> h = header
  BY <1>2, <1>3, <1>5, ConfigAssumption DEF Ours
<1>7. ASSUME old.route = patch.route, old.keys = AuthKeys({}, patch),
             \A h \in Headers : old.sent[h] = Ours <=> h = header,
             header # Absent => old.box = "table"
      PROVE  w = old
  <2>1. p = old
    BY <1>2, <1>7
  <2>2. q = p
    BY <1>1, <1>3, <1>7, <2>1
  <2> QED BY <1>5, <1>7, <2>1, <2>2
<1>8. w # Absent
  BY <1>5, ProviderAssumption
<1> QED BY <1>2, <1>3, <1>5, <1>6, <1>7, <1>8 DEF w

LEMMA FreshIs == Fresh \in Provider
BY DEF Fresh, Provider, NoHeaders

LEMMA OldIs ==
  ASSUME NEW c \in Config
  PROVE  (IF c.provider = Absent THEN Fresh ELSE c.provider) \in Provider
BY FreshIs DEF Config

\* A document that says what the patch says is left as it is.
LEMMA HoldsMeansApplied ==
  ASSUME CfgTypeOK, NEW patch \in Patch, Holds(patch)
  PROVE  IsProviderApplied(config, patch)
<1>1. config \in Config /\ config.provider \in Provider /\ config.provider # Absent
  BY DEF CfgTypeOK, Holds
<1>2. ~NotATable(config, patch)
  BY ConfigAssumption DEF Holds, NotATable
<1>3. Written(config.provider, patch) = config.provider
  BY <1>1, WrittenIs DEF Holds
<1>4. config.overrides \ {o \in {"retired"} : patch.retires} = config.overrides
  BY DEF Holds
<1>5. ApplyProvider(config, patch) =
        [selected |-> config.selected, providers |-> config.providers, others |-> config.others,
         provider |-> config.provider, compression |-> config.compression,
         overrides |-> config.overrides]
  BY <1>1, <1>3, <1>4, ApplyIs DEF Holds
<1>6. ApplyProvider(config, patch) = config
  BY <1>1, <1>5 DEF Config
<1> QED BY <1>2, <1>6 DEF IsProviderApplied

\* A document that says what the patch says is, for what the patch owns, the one
\* that a first installation gives.
LEMMA HoldsMeansCanonical ==
  ASSUME CfgTypeOK, NEW patch \in Patch, Holds(patch)
  PROVE  Managed(config) = Managed(ApplyProvider(Empty, patch))
<1> DEFINE w == Written(Fresh, patch)
           first == ApplyProvider(Empty, patch)
           ours == {h \in Headers : h = patch.header}
<1>1. /\ w.route = patch.route /\ w.keys = AuthKeys({}, patch)
      /\ \A h \in Headers : w.sent[h] = Ours <=> h = patch.header
  BY FreshIs, WrittenIs
<1>2. first.selected = Ours /\ first.provider = w /\ first.compression = "off"
  <2>1. first = [selected |-> Ours, providers |-> "table", others |-> Empty.others,
                 provider |-> Written(IF Empty.provider = Absent THEN Fresh ELSE Empty.provider, patch),
                 compression |-> "off",
                 overrides |-> Empty.overrides \ {o \in {"retired"} : patch.retires}]
    BY ApplyIs
  <2>2. Empty.provider = Absent
    BY DEF Empty
  <2> QED BY <2>1, <2>2
<1> HIDE DEF w, first
<1>3. Managed(first) = <<Ours, patch.route, AuthKeys({}, patch), ours, "off">>
  <2>1. {h \in Headers : w.sent[h] = Ours} = ours
    BY <1>1
  <2> QED BY <1>1, <1>2, <2>1 DEF Managed
<1>4. Managed(config) = <<Ours, patch.route, AuthKeys({}, patch), ours, "off">>
  <2>1. {h \in Headers : config.provider.sent[h] = Ours} = ours
    BY DEF Holds
  <2> QED BY <2>1 DEF Managed, Holds
<1> QED BY <1>3, <1>4 DEF first

LEMMA InstallKeeps ==
  ASSUME CfgInv, NEW patch \in Patch, Install(patch)
  PROVE  CfgInv'
<1> DEFINE old == IF config.provider = Absent THEN Fresh ELSE config.provider
           w == Written(old, patch)
<1>1. config \in Config /\ old \in Provider
  BY OldIs DEF CfgInv, CfgTypeOK
<1>2. old.shape = "table"
  BY <1>1 DEF Install, NotATable, Fresh, Config, Provider
<1>3. /\ w \in Provider /\ w # Absent
      /\ w.shape = "table" /\ w.route = patch.route /\ w.keys = AuthKeys({}, patch)
      /\ \A h \in Headers : w.sent[h] = Ours <=> h = patch.header
      /\ patch.header # Absent => w.box = "table"
  BY <1>1, <1>2, WrittenIs
<1>4. config' = [selected |-> Ours, providers |-> "table", others |-> config.others,
                 provider |-> w, compression |-> "off",
                 overrides |-> config.overrides \ {o \in {"retired"} : patch.retires}]
  BY ApplyIs DEF Install
<1>5. last' = patch /\ patch # Absent
  <2>1. last' = patch
    BY DEF Install
  <2>2. patch # Absent
    BY PatchAssumption
  <2> QED BY <2>1, <2>2
<1> HIDE DEF w, old
<1>6. config' \in Config
  BY <1>1, <1>3, <1>4 DEF Config
<1>7. Holds(patch)'
  BY <1>3, <1>4 DEF Holds
<1>8. Contained'
  BY <1>3, <1>4, ConfigAssumption DEF Contained
<1> QED BY <1>5, <1>6, <1>7, <1>8 DEF CfgInv, CfgTypeOK, Holds

LEMMA UninstallKeeps ==
  ASSUME CfgInv, Uninstall
  PROVE  CfgInv'
<1>1. config \in Config /\ Contained
  BY DEF CfgInv, CfgTypeOK
<1>2. /\ config' = [config EXCEPT
          !.selected = IF config.selected = Ours THEN Absent ELSE config.selected,
          !.provider = Absent,
          !.providers = IF config.provider # Absent /\ ~config.others THEN Absent
                        ELSE config.providers]
      /\ last' = Absent
  BY DEF Uninstall, RemoveProvider
<1>3. config' \in Config
  BY <1>1, <1>2 DEF Config
<1>4. Contained'
  BY <1>1, <1>2 DEF Contained, Config
<1> QED BY <1>2, <1>3, <1>4 DEF CfgInv, CfgTypeOK

LEMMA EditKeeps ==
  ASSUME CfgInv, Edit
  PROVE  CfgInv'
<1>1. config \in Config /\ Contained /\ last \in Patch \cup {Absent} /\ (last # Absent => Holds(last))
  BY DEF CfgInv, CfgTypeOK
<1>2. CASE config' = [config EXCEPT !.selected = Theirs] /\ last' = Absent
  <2>1. config' \in Config /\ Contained'
    BY <1>1, <1>2 DEF Config, Contained
  <2> QED BY <1>2, <2>1 DEF CfgInv, CfgTypeOK
<1>3. CASE /\ config' = [config EXCEPT !.others = TRUE,
                                      !.providers = IF @ = Absent THEN "table" ELSE @]
           /\ UNCHANGED last
  <2>1. config' \in Config /\ Contained'
    BY <1>1, <1>3, ConfigAssumption DEF Config, Contained
  <2>2. last # Absent => Holds(last)'
    BY <1>1, <1>3 DEF Config, Holds
  <2> QED BY <1>1, <1>3, <2>1, <2>2 DEF CfgInv, CfgTypeOK, Holds
<1>4. CASE \E h \in Headers :
             /\ config.provider # Absent /\ config.provider.sent[h] = Absent
             /\ config' = [config EXCEPT !.provider.sent[h] = Theirs,
                                         !.provider.box = IF @ = Absent THEN "table" ELSE @]
             /\ UNCHANGED last
  <2>1. PICK h \in Headers :
          /\ config.provider # Absent /\ config.provider.sent[h] = Absent
          /\ config' = [config EXCEPT !.provider.sent[h] = Theirs,
                                      !.provider.box = IF @ = Absent THEN "table" ELSE @]
          /\ UNCHANGED last
    BY <1>4
  <2> DEFINE sent == [config.provider.sent EXCEPT ![h] = Theirs]
             box == IF config.provider.box = Absent THEN "table" ELSE config.provider.box
             p == [config.provider EXCEPT !.sent = sent, !.box = box]
  <2>2. config.provider \in Provider
    BY <1>1, <2>1 DEF Config
  <2>3. /\ sent \in [Headers -> {Ours, Theirs, Absent}]
        /\ \A g \in Headers : sent[g] = IF g = h THEN Theirs ELSE config.provider.sent[g]
    BY <2>2 DEF Provider
  <2>4. box \in {Absent, "table", "inline"} /\ (config.provider.box = "table" => box = "table")
    BY <2>2 DEF Provider
  <2>5. config' = [config EXCEPT !.provider = p]
    BY <1>1, <2>1, <2>2 DEF Config, Provider
  <2> HIDE DEF sent, box
  <2>6. /\ p \in Provider /\ p.sent = sent /\ p.box = box
        /\ p.shape = config.provider.shape /\ p.route = config.provider.route
        /\ p.keys = config.provider.keys
    BY <2>2, <2>3, <2>4 DEF Provider
  <2> HIDE DEF p
  <2>7. config' \in Config /\ config'.provider = p /\ p # Absent
    BY <1>1, <2>5, <2>6, ProviderAssumption DEF Config
  <2>8. Contained'
    BY <1>1, <2>1, <2>5, <2>7 DEF Config, Contained
  <2>9. \A g \in Headers : sent[g] = Ours <=> config.provider.sent[g] = Ours
    BY <2>1, <2>3, ConfigAssumption DEF Ours, Theirs
  <2>10. last # Absent => Holds(last)'
    BY <1>1, <2>1, <2>4, <2>5, <2>6, <2>7, <2>9 DEF Config, Holds
  <2> QED BY <1>1, <2>1, <2>7, <2>8, <2>10 DEF CfgInv, CfgTypeOK, Holds
<1>5. CASE config' = [config EXCEPT !.overrides = {"retired", Theirs}] /\ last' = Absent
  <2>1. config' \in Config /\ Contained'
    BY <1>1, <1>5 DEF Config, Contained
  <2> QED BY <1>5, <2>1 DEF CfgInv, CfgTypeOK
<1>6. CASE config' = [config EXCEPT !.compression = "on"] /\ last' = Absent
  <2>1. config' \in Config /\ Contained'
    BY <1>1, <1>6 DEF Config, Contained
  <2> QED BY <1>6, <2>1 DEF CfgInv, CfgTypeOK
<1> QED BY <1>2, <1>3, <1>4, <1>5, <1>6 DEF Edit

LEMMA InlineKeeps ==
  ASSUME CfgInv, Inline
  PROVE  CfgInv'
<1>1. config \in Config /\ Contained /\ last \in Patch \cup {Absent} /\ (last # Absent => Holds(last))
  BY DEF CfgInv, CfgTypeOK
<1>2. CASE /\ config.providers = Absent
           /\ config' = [config EXCEPT !.providers = "inline", !.others = TRUE] /\ UNCHANGED last
  <2>1. config' \in Config /\ Contained'
    BY <1>1, <1>2, ConfigAssumption DEF Config, Contained
  <2>2. last = Absent
    BY <1>1, <1>2, ConfigAssumption DEF Holds
  <2> QED BY <1>2, <2>1, <2>2 DEF CfgInv, CfgTypeOK
<1>3. ASSUME config.provider # Absent, last' = Absent,
             NEW p \in Provider, config' = [config EXCEPT !.provider = p]
      PROVE  CfgInv'
  <2>1. config' \in Config /\ Contained'
    BY <1>1, <1>3, ProviderAssumption DEF Config, Contained
  <2> QED BY <1>3, <2>1 DEF CfgInv, CfgTypeOK
<1>4. CASE config.provider # Absent /\ config' = [config EXCEPT !.provider.box = "inline"] /\ last' = Absent
  <2> DEFINE p == [config.provider EXCEPT !.box = "inline"]
  <2>1. config.provider \in Provider
    BY <1>1, <1>4 DEF Config
  <2>2. p \in Provider /\ config' = [config EXCEPT !.provider = p]
    BY <1>4, <2>1 DEF Provider
  <2> QED BY <1>3, <1>4, <2>2
<1>5. CASE /\ config.provider # Absent
           /\ config' = [config EXCEPT !.provider.shape = "inline",
                                       !.provider.box = IF @ = Absent THEN Absent ELSE "inline"]
           /\ last' = Absent
  <2> DEFINE p == [config.provider EXCEPT !.shape = "inline",
                                          !.box = IF @ = Absent THEN Absent ELSE "inline"]
  <2>1. config.provider \in Provider
    BY <1>1, <1>5 DEF Config
  <2>2. p \in Provider
    BY <2>1 DEF Provider
  <2>3. config' = [config EXCEPT !.provider = p]
    BY <1>1, <1>5, <2>1 DEF Config, Provider
  <2> QED BY <1>3, <1>5, <2>2, <2>3
<1> QED BY <1>2, <1>4, <1>5 DEF Inline

LEMMA CfgInitInv == CfgInit => CfgInv
BY DEF CfgInit, Empty, CfgInv, CfgTypeOK, Config, Contained

LEMMA CfgNextInv == CfgInv /\ [CfgNext]_cfgVars => CfgInv'
<1> SUFFICES ASSUME CfgInv, [CfgNext]_cfgVars PROVE CfgInv'
  OBVIOUS
<1>1. CASE UNCHANGED cfgVars
  BY <1>1 DEF cfgVars, CfgInv, CfgTypeOK, Contained, Holds
<1> QED BY <1>1, InstallKeeps, UninstallKeeps, EditKeeps, InlineKeeps DEF CfgNext

\* The invariant holds for every set of headers and routes.
THEOREM CfgInvariance == CfgSpec => []CfgInv
BY CfgInitInv, CfgNextInv, PTL DEF CfgSpec

\* However a document got there, after an installation it is the canonical one for
\* that patch, and applying it again changes nothing (apply_provider,
\* is_provider_applied).
THEOREM InstalledAreCanonical == CfgSpec => []InstalledIsCanonical
<1>1. CfgInv => InstalledIsCanonical
  <2>1. SUFFICES ASSUME CfgInv, last # Absent
                 PROVE  /\ Managed(config) = Managed(ApplyProvider(Empty, last))
                        /\ IsProviderApplied(config, last)
    BY DEF InstalledIsCanonical
  <2>2. CfgTypeOK /\ last \in Patch /\ Holds(last)
    BY <2>1 DEF CfgInv, CfgTypeOK
  <2> QED BY <2>2, HoldsMeansApplied, HoldsMeansCanonical
<1> QED BY <1>1, CfgInvariance, PTL

\* Documents with the same keys are the same.
LEMMA SameDocument ==
  ASSUME NEW c \in Config, NEW d \in Config,
         c.selected = d.selected, c.providers = d.providers, c.others = d.others,
         c.provider = d.provider, c.compression = d.compression, c.overrides = d.overrides
  PROVE  c = d
BY DEF Config

\* An installation and a removal come back to where they began, but for what they
\* document (remove_provider).
THEOREM RoundTrips == CfgSpec => []RoundTrip
<1>1. CfgInv => RoundTrip
  <2>1. SUFFICES ASSUME CfgInv, config.provider = Absent, NEW patch \in Patch,
                        ~NotATable(config, patch)
                 PROVE  RemoveProvider(ApplyProvider(config, patch)) =
                          [config EXCEPT !.selected = Absent, !.compression = "off",
                                         !.overrides = @ \ {o \in {"retired"} : patch.retires}]
    BY DEF RoundTrip
  <2> DEFINE w == Written(Fresh, patch)
             kept == config.overrides \ {o \in {"retired"} : patch.retires}
             a == ApplyProvider(config, patch)
             container == IF w # Absent /\ ~config.others THEN Absent ELSE "table"
             r == [a EXCEPT !.selected = Absent, !.provider = Absent, !.providers = container]
             c == [config EXCEPT !.selected = Absent, !.compression = "off", !.overrides = kept]
  <2>2. config \in Config /\ Contained /\ config.providers # "inline"
    BY <2>1 DEF CfgInv, CfgTypeOK, NotATable
  <2>3. w \in Provider /\ w # Absent /\ kept \in SUBSET {"retired", Theirs}
    BY <2>2, FreshIs, WrittenIs DEF Config
  <2>4. a = [selected |-> Ours, providers |-> "table", others |-> config.others,
             provider |-> w, compression |-> "off", overrides |-> kept]
    BY <2>1, ApplyIs
  <2> HIDE DEF w, kept, a
  <2>5. /\ a \in Config /\ a.selected = Ours /\ a.providers = "table" /\ a.provider = w
        /\ a.others = config.others /\ a.compression = "off" /\ a.overrides = kept
    BY <2>2, <2>3, <2>4 DEF Config
  <2>6. RemoveProvider(a) = r
    BY <2>5 DEF RemoveProvider
  <2>7. container \in {Absent, "table"} /\ container = config.providers
    <3>1. config.providers \in {Absent, "table"}
      BY <2>2 DEF Config
    <3>2. CASE config.others
      BY <2>2, <3>1, <3>2 DEF Contained
    <3>3. CASE ~config.others
      BY <2>1, <2>2, <2>3, <3>3 DEF Contained
    <3> QED BY <3>1, <3>2, <3>3
  <2> HIDE DEF container
  <2>8. /\ r \in Config /\ r.selected = Absent /\ r.providers = container /\ r.provider = Absent
        /\ r.others = config.others /\ r.compression = "off" /\ r.overrides = kept
    BY <2>5, <2>7 DEF Config
  <2>9. /\ c \in Config /\ c.selected = Absent /\ c.providers = config.providers
        /\ c.provider = config.provider /\ c.others = config.others /\ c.compression = "off"
        /\ c.overrides = kept
    BY <2>2, <2>3 DEF Config
  <2> HIDE DEF r, c
  <2>10. r = c
    BY <2>1, <2>7, <2>8, <2>9, SameDocument
  <2> QED BY <2>6, <2>10 DEF a, c, kept
<1> QED BY <1>1, CfgInvariance, PTL
=============================================================================
