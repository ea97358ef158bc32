# Specifications of tapes-crates

TLA+ models of the parts of this repository that run concurrently, fail half
way or race with programs they do not control: the attribution of captured
requests to harness sessions, the transcript lane, the installation of capture
artifacts and plugins, and the API client's cache. Each component is a module,
checked by TLC on small instances; every safety property that holds is also
proved for all values of the constants with TLAPS (in the `*_proofs` modules).

Contents: [the system](#the-system), [the modules](#the-modules),
[the runs](#the-runs), [the proofs](#the-proofs),
[what is not modelled](#what-is-not-modelled), [the plan](#the-plan).

## The system

Four crates. `tapes-capture` is what every capture client shares (the header
envelope, peer lookup, gateway and launch contracts). `tapes-harnesses` knows
the agent harnesses (Claude, Codex, Cursor, OpenCode, pi, hermes): how to launch
and configure them, which session a captured request belongs to, and how their
transcripts are uploaded. `tapes-client` is the API client and CLI surface.
`tapes-mock-upstream` is test tooling.

A capture client runs a proxy. For every request the proxy asks the attribution
pipeline for a session; the pipeline reads snapshots that watchers swap, asks
the operating system who owns the peer socket, and scans transcripts for a fork
parent. Next to the proxy, the transcript lane reads the harnesses' files and
posts them to an idempotent ingest endpoint. Installers put extensions where the
harnesses load them.

| Component | State it keeps | Operations | Talks to | What is hard | What makes it correct |
|---|---|---|---|---|---|
| Fork-parent discovery (`attribution/pipeline.rs`, `attribution/claude/fork_parent.rs`) | a cache of answers per session; a semaphore | get, insert, budgeted scan | handlers, transcript files | concurrent scans, late inserts, abandoned tasks, a window that closes | a found parent is never lost, a miss is final only after a last look, permits never leak, a readable fork is found |
| Peer-PID lookup (`peer_pid.rs`) | a process-global memo of address to PID | lookup, lookup_owner, retry | kernel socket table; Claude and Codex lanes | address reuse, two lanes on one memo, unlocked scan | an answer is the process that sent the request (but for entries made too late), and one the caller asked about |
| Claude session lane (`claude/watcher.rs`, `pipeline.rs`) | a swapped snapshot | scan, poll until deadline | session files, peer lookup | torn files, overrunning scans, PID reuse, deadlines | a session that was ready is found, a stale one is not used |
| Codex selection ladder (`codex/select.rs`, `session.rs`, `watcher.rs`, `process.rs`) | a swapped snapshot; evidence retained in a call | select under a deadline | hook evidence, markers, peer lookup | ambiguity, evidence that arrives late or ages out | never another session's turn; an exact match beats a weaker one |
| Codex request identity (`codex/request.rs`) | none | read headers, body, metadata | the ladder | conflicting metadata | conflicts make no exact claim |
| Codex app hooks (`codex_app/mod.rs`, `plugin/codex_app.rs`) | none (a client keeps what it parses) | parse observation | the ladder | unknown events | nothing beyond identity is kept |
| Codex app plugin manager (`plugin/codex_app/manager.rs`) | the codex CLI's registry | register, replace, install, refresh | `codex` | every command can fail, two clients share a name | what is reported is what is installed |
| Codex anchor lane (`transcript/codex_anchors.rs`) | fingerprints and delivered keys per rollout | needs_read, undelivered, record_* | rollout files, ingest | a growing file, lost answers, restarts | one row per event, nothing skipped, everything arrives |
| Transcript trigger, sweep, files, payload (`transcript/`) | none (a client keeps fingerprints and backoff) | decide, sweep, session_files | transcript files, ingest | sessions that never go quiet, daemon restarts | every change is pushed in the end |
| Cursor stream (`transcript/cursor_stream.rs`) | none | plan arguments, inspect a stream | `agent` | reserved flags, truncated streams | only a complete stream yields a session |
| Plugin artifact install (`plugin.rs`) | the harness's extension directory | install | harnesses that load at any time | failing calls, crashes, two installers | never two extensions, never half of one |
| Codex provider config (`config/codex.rs`) | a TOML table | apply, remove, probe | user edits | re-installs with other settings | user settings survive, nothing managed is left |
| Launch recipes (`launch/`, `harness.rs`) | none | build arguments and environment | harness binaries | reserved variables | one recipe per harness |
| Envelope (`envelope.rs`, `session.rs`, `gateway.rs`, `launch.rs`) | request headers | inject, read back, strip | proxies | a header budget | required fields ship, pairs ship whole |
| Peer trust (`peer_trust.rs`) | none | walk up the process tree | kernel | processes that exit during the walk | only descendants are trusted |
| Spec cache (`cassettes/cache.rs`) | one JSON file | load, revalidate, write | API server, other CLI processes | overlapping writers, partial fetches, a wall clock that is set | a surface the server offered within the window |
| Cassette surface, search (`cassettes/spec.rs`, ...) | none | reduce, search, invoke | spec cache | names and flags that collide | every operation and input can be called |
| API client (`core/`, `http.rs`, `page.rs`, ...) | none | one request; a page walk | API server | refused credentials, lost answers, cursors that repeat | nothing is carried out twice, the walk ends and is whole |
| Mock upstream | recorded exchanges | serve, record | harness tests | none that ships | - |

## The modules

| Module | Models | Constants that stand for the code's |
|---|---|---|
| `ForkParentCache` | `ForkParentCache`, `discover_parent_cached`, `discover_parent` | `Permits` 64, `Budget` 25 ms, `Retry` 1 s, `GiveUp` 30 s |
| `PeerPidCache` | `peer_pid.rs` | `Attempts` 3, `Ttl` 60 s, as is the kernel's `TimeWait` |
| `AnchorLedger` | what the anchor lane promises (abstract) | |
| `CodexAnchors` | `CodexAnchorScanner` and a client that follows its contract | |
| `ClaudeLane` | `watcher::spawn`, `watcher::scan`, `attribute_claude` | `Period` 1 s, `Timeout` 2 s, `Poll` 25 ms |
| `PluginInstall` | `PluginArtifact::install` over an artifact set | |
| `CodexSelect` | `select`, `from_headers`, the Codex half of `attribute_with_evidence` | `Polls` 2 s in 25 ms polls |
| `PluginManager` | `register` over the `codex` program | |
| `Mirror` | what the transcript lane promises (abstract) | |
| `TranscriptLane` | `files.rs`, `trigger.rs`, `sweep.rs` in a daemon that follows their docs | |
| `SpecCache` | `cache.rs` over a server and a file other processes replace | `Window` the revalidation window, `Deadline` that of `load_live` (`load` has none) |
| `CodexConfig` | `config/codex.rs` | |
| `PagedCall` | `page.rs` over `http.rs` | `MaxAttempts` 4 |
| `Envelope` | injection of the `X-Tapes-*` headers | `Budget`, `NameCap`, `MetadataCap` |
| `CursorStream` | `cursor_stream.rs` | |
| `CassetteSurface` | `spec.rs`: names of methods, flags of inputs | |
| `PeerTrust` | `peer_trust.rs` | `MaxHops` 32 |
| `MC...` | the symmetry sets and constants of the instances; parts without common state stand side by side in one, where a behaviour follows one of them: in `MCPeer` `PeerPidCache` and `PeerTrust`, in `MCParts` `CodexAnchors` and the five from `CodexConfig` to `CassetteSurface`; `MCSpecCache` holds two instances of its module | |

**Time.** The code compares `Instant`s with durations. The models keep, for each
instant, its age in ticks, capped where no guard and no property tells two ages
apart. `Tick` lets time pass and refuses to while something that is due has
waited `Lag` ticks: `Lag` is how late the scheduler may run a task, a parameter
of the model and not of the code. A theorem holds for every `Lag`.

### ForkParentCache

A request handler is a `request[r]` record with a phase. The cache answers
(`AnswerFromCache`), or the handler queues for a permit (`Discover`, `Acquire`);
the blocking task ends with what the transcript tree says (`Scan`), the handler
takes it (`Deliver`) or stops waiting at the budget (`Timeout`), or its client is
gone (`Disconnect`), after which the task runs on with its permit
(`FinishAbandoned`). `Answers` and `Insert` are `get` and `insert`. `lineage` is
the truth and `onDisk` the age of its evidence; `announced` records what
requests were answered. A scan reads the tree at its last read: a tree that
grows under a scan is either seen or not. A task that panics, and the closed
semaphore (nothing closes it), are left out.

### PeerPidCache

`Connect`, `Close` and `Tick` are the kernel: an address is handed out again only
after `TimeWait` ticks out of use. A lookup checks the memo under the lock
(`Check`, which evicts what does not answer), scans without it (`ScanFinds`,
`ScanMisses`) and memoizes under it (`Memoize`). `attempts = 1` is `lookup` and
`lookup_owner_once`, `Attempts` the retrying forms; the set of candidates is
arbitrary in every attempt, which covers the Claude lane's PIDs and the Codex
lane's processes of one user. `truth` remembers who sent the request, an entry's
`late` that its connection had closed by the time it was memoized, and `doubt`
that the answer came from such an entry in the last `Lag` of the address's rest.

### CodexAnchors and AnchorLedger

`file` grows line by line, and a line can be `torn`. The scanner's operations are
operators on one rollout's state (`NeedsRead`, `Undelivered`, `RecordDelivered`,
`RecordCleanScan`) and `RetainLive`; the client around them follows the contract
their documentation states: fingerprint, read, post in file order, record what
was accepted, record a clean scan only when every post was. A post can fail
before or after the server stored the row. `AnchorLedger` only knows rows being
offered and banked; `Offered` maps a rollout's lines to it through the
first-of-its-identity rule. The event identity of the properties (`SameEvent`)
is stated on its own and not through `Key`, so a wrong `dedup_key` shows.

### ClaudeLane

`file` is what `<pid>.json` holds; rewriting it passes through `Torn`. A scan
reads file by file (`ReadFile`) and swaps the snapshot at the end (`Store`). A
failed listing swaps it for an empty one (`ListingFails`), a failed task leaves it
as it was (`TaskFails`). A scan may outlast the interval (`ScanTime`, `Period`);
tokio's interval bursts to catch up, and `since` counts the ticks that are owed, up
to `Backlog`. A request looks (`Attribute` or `Miss`) and then sleeps, or gives up
at its deadline, in the code's order.

`ready` and `said` record for how long a file has named a session and how long
ago it last did. `failed` counts the scans that failed since the one that the
snapshot is from, at most `Failures` in a row, and every one of them costs the
properties a `Cycle`. Nothing is promised to a request whose last look was
`blind`: the peer lookup did not find the socket's owner, or the snapshot was the
empty one of a failed listing (`cleared`).

### PluginInstall

An install goes through the artifacts of its set: open the staging file, write
it, remove what is superseded, rename. Every call can fail, and a process can
die between any two. `target`, `old` and `staged` are the directory. A file that
is being written carries the name of the install that writes it, wherever it is
renamed to; two installs of one process share the staging name (it is made of
the artifact and the process id), which `overlap` records.

### CodexSelect

`fresh` and `snapshot` are the rollout files of the recency window and the watcher's
last scan of them; `Write`, `Age`, `Scan` and `Hook` let them change between any two
steps of a request. A poll is `Look` (hook evidence, a child's lineage, the marker and the
recency fallback, in the code's order, over one snapshot) and, when those find nothing, `Ask`
(the peer lookup and the files its process holds open); `Decide` returns or
sleeps, keeping by `Retain` the best answer so far. `Sent` makes the request of the two
accounts it gives of itself, headers and metadata, which may contradict each
other (`FromHeaders`); `EnvelopeSession` is the session of the envelope. Assumed of the
environment, as named assumptions: launch markers are fresh for every launch, and
a sub-thread runs in its root's process. A session's several files are told
apart, but which of them is the newest is left open.

### PluginManager

`step` is the command that `register` runs next; `Register`, `Remove`, `ReAdd`,
`Install`, `Uninstall` and `Reinstall` are those commands, each followed by what the code
reads from its exit status and output (`Meaning`). The `codex` program is
external: `MarketplaceAdd`, `MarketplaceRemove`, `PluginAdd` and `PluginRemove` say what
it keeps and what it answers, `recopies` whether it copies an installed plugin
again (both kinds exist according to the source). `Others` is the user and other
clients between any two commands. `alone` marks runs nobody interfered with.

### TranscriptLane and Mirror

One session: its files grow by half records, so an odd length is a torn line.
`PrintOf`, `SessionFiles`, `JsonlToRecords`, `Decides` and `TouchedSince` are the
repository's functions; the registry, the timer, the backoff and the push
around them belong to a client outside of it and follow the modules'
documentation: sessions that the sweep finds enter the registry, a push takes
its fingerprints before it reads, and a session is retired only when it has
exited and is clean. `Crash` and `Start` lose and rebuild everything but the disk.
A post that fails has reached the server by then or never does.

`Mirror` knows the whole records of each file, those of the server's copy, and what the
daemon cares: it is down, unaware of the session, minds it or is settled with it
(`Care` reads that off `up`, `tracked` and the history `known`). The copy only advances,
up to what the file holds; the daemon settles only with a complete copy; and no file
grows behind the back of a daemon that is settled.

### SpecCache

A process uses an entry that is fresh (`Use`) or revalidates it (`Begin`): it lists
the cassettes (`Discover`), fetches each document (`FetchSpec`, `NotFetched`), stamps
what it has (`Finish`) and renames its entry over the others' (`Write`). A server
that does not answer (`NotDiscovered`) or a crash ends it anywhere. `load_live` is
cut off at its `Deadline` (`Timeout`); `load` is not, and the client it uses has no
timeout either (`http.rs` sets a redirect policy only), so a revalidation may take
any time, of which the model tells apart less and not less than `Slow`.

The server, the transport and the wall clock are external. The clock is set forward
and back, `Drift` apart at most (`SetClock`): a stamp keeps its real age and the clock
it was made by, and `Shown` is its age by the clock as it is now, so an entry from
the future expires and is fresh again once the clock has caught up. `since` records
for how long a version has not been the one served, an entry's `took` and `kept` what
its revalidation took and what it could not fetch. A cassette that is listed without
a document is passed over by `Discover` like one that is not listed.

### CodexConfig, PagedCall, Envelope, CursorStream, CassetteSurface, PeerTrust

Six parts that keep no state in common; the algorithms are operators and the
actions are what happens around them.

- `CodexConfig`: the provider patch over a document as its keys; `Install`,
  `Uninstall`, and the user's `Edit` and `Inline` between any two.
- `PagedCall`: `Walk` and `Collect` follow cursors, `Attempt` and `OnUnauthorized` are one call
  under the credential hook; the listing may change under the walk.
- `Envelope`: `Stamp` writes the headers under the budget, `PassOn` takes the request to a
  second capture client, `Arrive` starts with headers the request brought.
- `CursorStream`: `PlanArgs` builds the command line, one option standing for each
  kind that the planner tells apart, and `Reads` is how Cursor takes one apart
  (external, from the source's own remarks on it). `Load` may run between any two
  writes of `agent`; a line that is cut is no JSON.
- `CassetteSurface`: `ReduceMethods` and `FinishParams` over documents that grow by one
  operation, one parameter or one reserved flag at a time. A name is the sequence
  of the words between its dashes, a number being a word of its own; what a document
  calls a parameter is its words in some spelling, and `Kebab` drops the spelling.
- `PeerTrust`: the walk of `is_launched_or_descendant` (`Ascend`, `Recognize`, `Concede`) over
  a process table that forks and exits under it. Assumed of the kernel: a number
  that becomes free during a walk is not handed out before its end (a TLC run
  without that finds a walk that leaves its line), and the harness's number stays
  taken until the client reaps it.

## The runs

| Run | Asks | Instance | States |
|---|---|---|---|
| `fork_parent` | `PermitsAccounted`, `AnnouncedIsCached`, `HardensOnlyAfterFinalLook`, `LineageFound` | 2 handlers, 1 permit, a session with and one without a transcript path, window 3, retry 2, budget 1, lag 1, `FairSpec` | 68 k |
| `budget` | refutes `ControlReturnsAtBudget` | 2 handlers, 1 permit | |
| `peer_pid` | `PromptIsOwner`, `AnswerIsCandidate`, `VerdictIsTrue` | 1 address, 2 processes, 2 lookups, 3 attempts, `Ttl = TimeWait = 3`, lag 2; 5 processes, 3 hops | 314 k |
| `reused_address` | refutes `AnswerIsOwner` | as above | |
| `claude_lane` | `ReadyIsAttributed`, `AnswerIsCurrent` | 1 process, 2 sessions, period 1, scan 2, lag 1, backlog 3, 1 failure, timeout 2, poll 1 | 995 k |
| `plugin_install` | `LoadedIsWhole`, `LastMeansAll`, `NoSecondReader` | 2 installs, 2 processes, 2 artifacts, 2 superseded files | 132 k |
| `codex_select` | `NamedIsOwn`, `AnswerIsOfProcess`, `FamilyIsOne`, `FoundIsKept`, `Answered` | a root with a rotated rollout, its sub-thread, a second session in a second process, 2 looks, `SelectFairSpec` | 447 k |
| `plugin_manager` | `ConfirmedIsDelivered`, `FailedKeepsInstalled`, `LossIsReported`, `Delivers` | 2 releases, 2 roots, `FairSpec` | 53 k |
| `replaced` | refutes `ReplacedIsRecopied` | as above | |
| `transcript` | `CleanIsStored`, `MirrorSpec`, `Lands` | a transcript and one subagent's, 4 half records, 1 crash, 1 failed push, `FairSpec` | 691 k |
| `spec_cache` | `TagsMatch`, `FreshIsRecent`, `Survives` | 1 cassette with an ETag, 2 versions, window 1, deadline 1, slow 2, drift 1; two processes at once by a clock nobody sets, or one at a time and the clock set | 2.1 M |
| `small_parts` | `SkippedIsStored`, `LedgerSpec`, `AnchorsArrive`, `InstalledIsCanonical`, `RoundTrip`, `WalkIsWhole`, `CarriedOutOnce`, `FitsWhole`, `RunsThePrompt`, `LoadsIffOneSession`, `SurfaceIsCallable`, `WalkEnds` | 1 rollout, 2 lines, 2 calls, 1 restart; 2 headers, 2 routes; 2 cursors, 4 attempts; sizes 1 and 3 under a budget of 6; 3 arguments, 3 lines, 2 ids; 4 operations, 2 parameters, 1 placeholder; `PartsSpec` | 85 k |

The bounds keep the code's order of durations (budget < retry < window; poll <=
period < timeout; TTL = TIME_WAIT) with room for one more thing to happen between any
two: a late handler, a second scan, a tick. Two of each actor are enough for a
race between them; where a third party matters (the server of a cache, the user
of a config) it is an action of its own. `MaxLines = 2` is enough for a repeated line, a
line that arrives after the fingerprint and a post that fails between two;
`MaxRestarts = 1` and `Crashes = 1` for bookkeeping that is lost; `Length = 4` for a
whole record, a torn one and one that was torn and is whole, with a version of the
file on the server between them. Four operations are
enough for a name, its verb, its first number and one that is taken; three
arguments for an option, its value and a prompt. Three hops in a table of five
make the limit bind. A scan twice as long as the period leaves ticks to catch up
on, and a backlog of three periods holds all that such scans owe within a refresh; one
failed scan in a row is enough for a snapshot that outlives its cycle. `Slow` one past
the deadline is the first revalidation that only `load` can make, and a drift of the
window moves a stamp from fresh to expired and back. The proofs have none of these
bounds: they hold for every value of them.

What the instances leave to the proofs: with one placeholder `SurfaceIsCallable` says
nothing of the order of positionals, and in `spec_cache` the clock stays put while two
processes race. What the models leave out: a user's own empty
`[model_providers]` table in `CodexConfig`; and `PagedCall` takes it that a server
which refuses a call with 401 has not carried it out.

**Fairness.** What is assumed beyond the system being scheduled:

- `ForkParentCache!FairSpec`: requests of a session keep coming and, every so often, a
  scan finishes within its budget and its client stays. Without these nothing
  would ever be found, in the model or in the code: a directory too large to
  scan in 25 ms is retried for ever by design.
- `CodexAnchors!FairSpec`: the client's tick keeps running with the rollout in its
  snapshot, and neither the disk nor the server fails for ever; `AnchorsArrive`
  asks only about rollouts that stay in the snapshots.
- `CodexSelect!SelectFairSpec`: a poll that was begun goes on (`Look`, `Ask`). Nothing is assumed of
  the watcher or of evidence: `Answered` holds without either.
- `PluginManager!FairSpec`: the client registers at every start, and a command ends.
- `TranscriptLane!FairSpec`: the daemon is restarted, its timer runs, a post and a
  backoff end. Not that a file ever goes quiet.
- `MCParts!PartsSpec`: the fairness of `CodexAnchors`, and the credential hook answers, which is the client's own code. Not that a
  server does: the transport has no timeout, so one that accepts a call and never
  answers holds the walk for as long as it likes. `WalkEnds` is about the walk's own
  loops: it never goes round for ever over a listing with finitely many cursors (a
  server that invents new ones without end is beyond it, and so is one that is silent).

**What the refuted statements show.** Three sentences of the code's documentation
claim more than it does. `budget`: the wait for a permit is outside of the
timeout, so scans stuck in the file system make later requests wait. `reused_address`: an
entry's clock starts after the scan and its life is TIME_WAIT itself, so an entry
memoized after its connection closed outlives the address's rest by up to the length
of a lookup, and answers the next owner's first requests; `PromptIsOwner` says that
only those answers can be wrong. `replaced`:
with a `codex` that does not copy an installed plugin again, replacing a foreign
marketplace leaves the foreign copy installed and is reported as
`AlreadyInstalled`.

Smaller things met on the way, none of them asserted by a run: a probe that is
under way when a session's miss hardens re-opens it (another window of probes); an install that fails while writing leaves its
staging file under a name no harness loads; an attributed request keeps inbound
`X-Tapes-*` headers that its own envelope does not replace, where only the
unattributed path clears them; a user's header of the attribution header's name
is overwritten in the Codex config; a clock that is set back keeps a cache entry in
use for longer than the window, by as much as it was set back (`FreshIsRecent` says so);
a hook that reports a session after its first turn was filed moves its
later turns from the harness `codex` to `codex-app` (`pipeline.rs` looks at the
hooks of the moment, for every turn anew).

## The proofs

`tlapm` checks eight modules of proofs. Five of them hold the proofs of other
components besides those of the one in their name:

| Proofs in | About |
|---|---|
| `ForkParentCache_proofs` | `ForkParentCache` |
| `PeerPidCache_proofs` | `PeerPidCache`, `PeerTrust` |
| `CodexAnchors_proofs` | `CodexAnchors` (and that it implements `AnchorLedger`), `CodexConfig` |
| `ClaudeLane_proofs` | `ClaudeLane`, `Envelope` |
| `PluginInstall_proofs` | `PluginInstall` |
| `PluginManager_proofs` | `PluginManager`, `CodexSelect` |
| `SpecCache_proofs` | `SpecCache`, `CassetteSurface`, `CursorStream` |
| `TranscriptLane_proofs` | `TranscriptLane` (and that it implements `Mirror`), `PagedCall` |

For each component an inductive invariant is stated and proved to hold always (`Invariance`,
or `TrustInvariance`, `CfgInvariance`, `SelectInvariance`, `WalkInvariance`, `EnvInvariance`,
`CursorTypes`, `SurfaceInvariance`), and the safety properties of the run are derived
from it; type correctness is part of all fifteen and not repeated by the runs. The assumptions are the named ones of the modules,
which TLC evaluates on every instance.

- **ForkParentCache.** `PermitsAccounted` is inductive once one knows that the
  set of holders is finite. `AnnouncedIsCached` needs that every outcome in
  flight is the true parent or a miss, and that the cache's parent is the true
  one: then `Insert` can only replace a parent by itself. For
  `HardensOnlyAfterFinalLook` the invariant bounds the age of the evidence by the
  age of each scan that missed it, which is at most `ProbeTime`.
- **PeerPidCache.** Typing, and with it `AnswerIsCandidate`, holds for all constants
  (`TypeInvariance`). `PromptIsOwner` assumes `Ttl <= TimeWait`, which the code meets with
  equality. The invariant says that a fresh entry that is not doubtful names the address's
  last holder, and that an address out of use has rested no longer than such an entry is old,
  or by `Lag` longer if the entry was late (`Describes`); so once the address can be handed
  out, its entry has expired or is doubtful. `ShorterTtlSuffices` shows what would make the
  comment on `CACHE_TTL` true: a life that is shorter than TIME_WAIT by a lookup.
- **PeerTrust** (in the same module). Assumes that a number freed during a walk is not
  handed out before its end. A process that is none of the harness's is never the
  child of one that is (`Apart`), so a walk from a stranger meets strangers only;
  a walk up a whole line has at least as many hops left as the line has
  processes (`Linked`, `OnLine`), so only the bound can end it early.
- **CodexAnchors.** The invariant says that delivered keys belong to stored
  events, that a scan that has not failed leaves the lines up to its fingerprint
  stored or owed, and that every row is the first line of its event.
  `ImplementsLedger` maps each action to `Offer`, `Bank` or a stutter.
- **ClaudeLane.** One scan follows another within a `Cycle`, however many ticks a long one
  has left overdue (`Paced`). The invariant bounds how old the content of the scan, of the
  snapshot and of a request's last look can be: the snapshot's by `Behind`, the age of the last
  scan and a cycle for each one that failed, which is at most `Refresh` of their number.
- **PluginInstall.** `Progress` says how far an install has come and what it has made
  sure of by then: nothing superseded is left when it renames, and all earlier
  artifacts are there; `DoneIsSole`, which no run repeats, is read off it. It survives the other installs because no step brings a
  superseded file back or takes an artifact away (`Keeps`). `LoadedIsWhole` needs,
  while no process has run two installs at a time, that each staging name is of one
  install (`Apart`, `Own`, `Written_by`): what it renames is then what it has written.
  `NoSecondReader` follows from the invariant before each step.

- **SpecCache.** A document is carried by one process from the server's answer to the
  entry. The invariant bounds, at each stage, for how long it has been superseded: by what
  the process has waited while it fetches, by that and the real age of its stamp once it is
  to be written, and so in the entry, whoever renamed last. The clock comes in only at
  the end, where an entry's shown age and its real one differ by what the clock was set.
  No bound on a revalidation is assumed: past `Slow` nothing is said.
- **TranscriptLane.** Files only grow and fingerprints are taken before the read, so what
  the server has lies between the fingerprint last pushed and the file
  (`Between`, `Promises`, `Carries`); where those two agree it is the file. A session is
  forgotten only then, and one that has ended does not grow (`Ended`): hence
  `NothingIsForgotten`, which no run repeats. `ImplementsMirror` maps each action to one of
  `Mirror` or a stutter; it needs in addition that a push carries no less than the server
  has, through crashes and lost answers (`Carries`), and that a file which the
  upload set leaves out is empty (`Rooted`).
- **CodexSelect.** Assumes fresh markers and that a family shares its process. Whatever a
  request holds at any moment (what it retains, the fallback of its poll, its answer) is a
  file that may be filed for it (`Suits`): of the rollout it names, and of its own process unless
  found by recency. It waits only if it names its thread without contradiction, and a wait that
  has found something retains it (`Waits`); hence `FoundIsKept`. `FamilyIsOne` needs
  in addition that a request which does not contradict itself speaks of its own thread (`RequestIs`).
- **CodexConfig.** While nothing that the patch owns has been edited, the document says
  what the last patch says (`Holds`), and the table of providers is there exactly when it has an
  entry (`Contained`); `RoundTrip` follows entry by entry.
- **PagedCall.** The pages collected and the one asked for are the first and those whose
  cursors were followed, each once (`Course`); so a cursor that was seen is a
  repetition, and a walk over a listing that held still has them all.
- **PluginManager.** A run that nobody interferes with knows more than its answers say:
  from the moment it installs, the name points at its own root (`Points`), and what was
  installed when it began stays until it takes it away itself (`Keeps`).

- **Envelope.** An injection under way accounts for its budget: what the headers that it
  has put there take and what is left add up to it (`Accounts`), one header after the
  other, the parent's two as one. A second capture client keeps an envelope or clears it.
- **CursorStream.** The module computes on sequences of any length by recursive functions:
  over the lines of a stream from the end, over the tokens of a command line from the
  front. Each is first shown to exist (`RecursionOverSeq`, `FoldOverSeq`: a
  function defined by its values on shorter sequences), then followed by
  induction over the length, which `InductionOverSeq` reduces to well-founded
  induction on `Nat`. `LoadsIffOneSession`: what the inspection has made of the lines so
  far is determined by what they are (`InspectionIs`). `RunsThePrompt`: token by token the
  planner and Cursor's own reading agree on what is an option, what is its value
  and where the prompt begins (`PlansAgree`, with `FlagAgrees` and `PairAgrees` for the two
  ways in which an option is passed on), and the guards that the planner puts in keep
  the prompt from being read as a command or an option (`CommandIs`).
- **CassetteSurface.** Among more numbered candidates than there are names taken one is free
  (`OneIsFree`, by the pigeonhole principle), so `Unique`, `Cleared` and `FirstFree` find a name
  and find a free one; names and flags are then distinct by induction over the operations
  and the inputs (`NamesAreDistinct`, `FlagsIs`). Parameters are told apart within each list
  (the invariant), and so they are after the one is laid over the other (`OverrideIs`) and
  the positionals are put first (`OptionsIs`, `OrderedIs`).

Only model-checked: liveness (`LineageFound`, `AnchorsArrive`, `Answered`, `Delivers`, `Lands`,
`WalkEnds`) and the refuted statements.

## What is not modelled

- **Launch recipes, Codex app hooks, the command-line surface, search, request
  construction and response decoding, the payload's layout**: pure functions over
  one input, without state between calls and without a second actor, covered by the
  repository's own tests. What the hooks tell is an input of `CodexSelect`.
- **Test tooling** (`tapes-mock-upstream`).
- **Capture clients**: the proxies, the registry and the timers around the
  transcript lane are not in the repository; they are modelled as far as
  the documentation of what they call prescribes them, and marked external.
- Within modelled components: panics inside blocking tasks of the fork-parent
  scan, the contents of transcripts, artifacts and manifests, socket-table and
  `/proc` parsing, the percent-encoding of envelope values, the file name of a
  cache entry, the body fields of a cassette's methods, logging.
- The fork evidence counts as readable once the scan can extract it; that
  `extract_first_user_parent_uuid` refuses a head that ends within a multi-byte
  character is part of when that is, and is not modelled apart.
- Liveness under fairness and `ENABLED` are beyond the prover and stay with TLC. The
  library's induction theorems, whose parameter is an operator, are too; induction over
  numbers and sequences is done for sets instead.

About half of the repository's implementation lines are the tests that stand in
the same files; most of the rest that no module maps is request construction,
document layout and parsing.

## The plan

What is left, in the order of what a wrong step would cost:

1. The rest of `request.rs` (sub-thread kinds, correlation ids), as part of `CodexSelect`,
   with a second turn of the session, so that the harness a session is filed under
   can be compared between turns.
2. The merge of a base config in the OpenCode recipe and the provider routes of
   the pi recipe, against a reference reading of the merged document.
3. The body fields of a cassette's methods, as part of `CassetteSurface`.
