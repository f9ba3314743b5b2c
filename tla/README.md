# Nixis: TLA+ models, model checking and proofs

Nixis is a governance daemon for AI coding agents.  A short-lived hook binary
sends every tool call to the daemon over a Unix socket; the daemon evaluates it
against policies and the security label of the session, answers, writes an
audit record and streams the decision to a dashboard.  This directory models
that program in TLA+, checks the models with TLC on small instances and proves
the most important results with TLAPS.

## 1. Inventory

| Component | State | Operations | Interacts with | What is hard | What makes it correct |
|---|---|---|---|---|---|
| Session labels `internal/ifc/session.go` | per session: packed label (atomic), ceiling, state ordinal, approval state (atomic), standing rules (RWMutex) | Elevate, TaintWithSecret, InitWithCeiling, markDeclassified, AddStandingRule, PruneExpiredRules, SetApprovalState, Snapshot | evaluation pipeline, connection handler, approval API, maintenance loop | CAS loops, three separately updated words, snapshots of three reads, pruning racing granting | a label never goes down, no elevation is lost, the lifecycle state follows the label, a grant survives |
| Lattice `internal/ifc/lattice.go` | none | Join, Dominates, elevateLabel, packLabel | session labels, pipeline | two orders in one record | elevation is the least upper bound of the dominance order |
| Evaluation pipeline `internal/policy/engine.go` | snapshot pointer, spawn tokens | Evaluate, Reload, spawn tokens | session labels, sink, CEL, scanner | concurrent evaluations of a session, taint before sink check, one-time tokens | no allow from stale taint, tokens used once, a child starts with its parent's taint |
| Policy selection `engine.go`, `bundle/parse.go`, `cel/cache.go` | binding index of a snapshot | parse, compile, matchBindings, the loop over results | pipeline, reload, bundles | two lookup paths, layers, several validations in a policy | every policy whose scope names the call is asked, a DENY that holds is never overridden |
| Classifier and schemas `internal/classify` | verdict table | BuildVerdictMap, Classify, ValidateArgs | pipeline | open addressing, fallbacks by name | a search ends at the first definition of the tool |
| Labelers `internal/label`, `internal/resource` | rule tables | extraction of paths, URLs, resources; Label | pipeline, sink | many ways to name a file or a host in a command | a secret that is read taints, a visible egress is recognised |
| Audit writer `internal/audit/audit.go` | bounded channel, batch, chain hash, checkpoint counter, SQLite | WriteRecord, WriteSessionLabel, Start loop, flush, writeBatch, restart | handler, stream (checkpoints) | full channel, failing transactions, crash and restart | hash chain verifies, FIFO, nothing lost uncounted |
| Policy reload `internal/reload/watcher.go`, `cmd/nixis-daemon/main.go`, `engine.Reload` | directory, watcher, debounce timer, snapshot | file event, timer, POST /reload | engine | overlapping reloads, edits during a parse | a DENY policy is never silently dropped by the compiler, the last edit becomes active |
| Stream server `internal/stream/server.go` | sequence counter, event queue, clients | Emit, fanOut, heartbeat, checkpoints, connect, disconnect | handler, audit | several publishers, slow clients, limits checked before they are taken | no client misses an event that was not counted as dropped; slots are given back |
| Daemon `internal/daemon/daemon.go`, `handler.go` | socket path, listener, semaphore, in-flight group, mode | Run, acceptLoop, handleConnection, shutdown | everything | drain order at shutdown, stale socket files, a full semaphore | every evaluated request is audited before Run returns; shutdown ends; the path leads to the daemon that serves |
| PID lock `internal/daemon/pidlock.go` | pid file, flock | AcquirePIDLock, Unlock | main | flock is on the inode, removal on the path | one daemon at a time |
| Bundles `internal/bundle` | activation state machine, last tag, current and previous bundle, store | poll, fetch, verify, stage, compile, health check, activate, roll back, collect | engine, CLI, a publisher | two files that are replaced apart, I/O faults in each stage, restart | only verified bundles run, the store is sound, the last publication becomes live |
| MCP proxy `internal/mcp` | pending calls, circuit breaker, tool baselines | HandleRequest, Call, readLoop, CheckDrift | pipeline, upstream process | late, repeated or missing answers, a dead upstream, drift during a call | an answer reaches its own call, a drifted tool is not called |
| Delegation `internal/delegation`, `daemon/delegation_api.go` | active and revoked chains | ValidateChain, ceilings, register, sweep, revoke, list | API, stream | partial expiry, binding of a token to its parent | a chain permits no more than its tokens and ends with the first of them |
| Hook `cmd/nixis-hook` | deadline, fail-open log | one check per call; three adapters | IDE, daemon | timeout racing the answer, input forms | an answer or a logged fail-open; a refusal is told as one |
| Installation `cmd/nixis/setup*.go`, `uninstall.go`, `daemon_cmd.go` | ~/.nixis, service unit, settings.json, shell files | setup, uninstall, daemon start, stop, restart | service manager, IDE | interruption between any two steps, failing or hanging service manager | what is the user's stays, the hook in settings.json can run |

PROJECT.json lists these and the parts without a module (secret scanner,
self-protection, taint history, rate limiter, operating mode, gRPC, telemetry,
public types, dashboard) with the reason.

## 2. Modules and how they correspond to the code

One variable stands for one piece of state of the code and one action for one
atomic step of a goroutine; what has no concurrency is an operator.  The names
are those of the source, and PROJECT.json "map" gives the lines of every
definition.

| Module | Models | Composition |
|---|---|---|
| `SecurityLabel` | the lattice: Join, Dominates, elevateLabel on records [c, i, k] (confidentiality, integrity, categories) | used by SessionLabels, HighWaterMark, Pipeline, RequestLabeler |
| `LabelWord` | packLabel and unpackLabel, on fields of any size | extended by SessionLabels |
| `HighWaterMark` | abstract: a label per session that one atomic step raises | refined by SessionLabels (`ElevateIsAtomic`) |
| `SessionLabels` | getOrCreate, Elevate, InitWithCeiling, advanceState and markDeclassified, one action per load, store or compare-and-swap | extends SecurityLabel and LabelWord |
| `SinkEnforcer` | the sink decision over a snapshot | used by StandingRules, Pipeline |
| `StandingRules` | AddStandingRule, PruneExpiredRules, Snapshot, the approval API, a clock | extends SinkEnforcer |
| `Pipeline` | Evaluate layer by layer, spawn tokens, the handler's elevation | extends SecurityLabel and SinkEnforcer; Elevate is one step, which SessionLabels shows it to be |
| `Classifier` | BuildVerdictMap, Classify, the fallbacks, the argument schemas | operators |
| `RequestLabeler` | extraction from arguments, rule tables, Label, the resources and the network test of the engine | extends Classifier and SecurityLabel |
| `HookAdapter` | the three adapters of the hook and its main | operators |
| `Delegation` | capability sets, signatures and parent hashes, buildChain, ceilings, the tracked chains and the API | operators; `MCDelegation` enumerates chains |
| `PipelineInputs` | a call from an IDE to what the IDE is told, and what is said of table, labels, chains and adapters | composes Pipeline, RequestLabeler, HookAdapter and Delegation |
| `MCPipeline` | | instantiates PipelineInputs with words, commands, calls, catalogues and (`MCDelegation`) chains; the requests of the pipeline are what the labeler makes of real calls |
| `PolicyIndex` | parsing to bindings and programs, layer order, the index, matchBindings, filterByScope, the loop over the matching bindings | operators; extended by BundleLoader |
| `BundleLoader` | the source, tryActivate stage by stage, ActivationFSM, store and collection, rollback, restart, the publisher | extends PolicyIndex, whose lists of policies are what a bundle holds |
| `AuditWriter` | channel, batches, transactions, hash chain, checkpoints, cancel and drain, crash, restart, audit verify | standalone |
| `PolicyReload` | watcher, debounce timer, POST /reload, parse file by file, compile, swap | standalone |
| `StreamHub` | Emit, fan-out, heartbeat, checkpoints, bundle event, clients | composed in `MCStream` |
| `StreamAdmission` | the limits of handleWebSocket and the client registry | composed in `MCStream` |
| `MCPProxy` | HandleRequest, StdioUpstream.Call, readLoop, circuit breaker, IntegrityTracker, the server, restart | standalone |
| `PidLock` | AcquirePIDLock and Unlock; flock on inodes, removal by path, inode reuse | standalone |
| `Daemon` | Run, listen, acceptLoop, handleConnection, shutdown, crash; the hook's dial, send, receive, fail open | extends PidLock; `DaemonImplementsPidLock` proves that it implements it |
| `Installation` | the steps of setup, uninstall and daemon start, stop, restart on a machine, one at a time; `Begin` starts the next command after any of them | explored beside Daemon in `MCDaemon` |

Abstractions that matter:

- A label is a record, and the packed word it is stored in is a word of its own
  only in LabelWord, which has the sizes of the fields as constants; that no two
  labels share a word is `PackingFaithful`.
- The verdict table has the hash as a parameter.  nextPow2 is the least power of
  two up to 2^30, so catalogues are bounded by 2^26 definitions
  (`LargestCatalog`), far below where the arithmetic of the code would overflow.
- The join of the labels of several resources is taken of the set at once: Join
  is a maximum, a minimum and a union, so the order of the code does not matter.
- The empty string is a constant of its own (`NoText`, `NoName`), different from
  every name that occurs.
- A hash is what it was computed from (in AuditWriter the sequence of record
  ids, in Delegation the token); a signature is the key and what was signed.
- A policy file of PolicyReload and a bundle of BundleLoader are what becomes
  of them (the stage that refuses them); PolicyIndex has the manifests.
- A word of a command is the set of features the code tests it for (which list
  of binaries has it, which separators and names it contains, which rules match
  it); the regular expressions and lists that decide the features are not
  modelled.
- What the secret scanner and self-protection find, and the value of a CEL
  expression, are choices.
- In Daemon the decision of the engine is a choice and the audit writer a set
  of items, because Pipeline and AuditWriter have the details.  Dropping an item
  on a full channel (counted) is therefore not visible in `AuditedAtExit`.
- Time is a bounded clock in StandingRules, a parameter in Delegation and a free
  choice elsewhere: a deadline or a timer may expire in any state in which it is
  armed.
- A shell file of Installation is its lines; a line is one that setup writes, a
  line of the user, or one of the user that names the directory.

## 3. Runs

| Run | Instance | Checks |
|---|---|---|
| `daemon` | 2 daemon processes, 1 inode, 2 hooks, 1 slot; and 4 machines of 2 systems, any number of installation commands, each interrupted anywhere | `OwnerPidIntact`; `AuditedAtExit`; `SocketReachable`; `ShutdownCompletes`; `InstallSettles` |
| `session_labels` | 2 goroutines, 1 session, 2 levels, incomparable inputs; words of 2 x 2 x 4 | `NoLostElevation`, `LifecycleFollowsLabel`, `PackingFaithful`, the refinement `ElevateIsAtomic`, `EveryCallReturns` |
| `standing_rules` | a granter, the pruner, a checker, clock to 2 | `NoLostGrant`, `NoUnapprovedEgress`, `SessionGrantSticks`, `StateEventuallyCleared` |
| `audit_writer` | channel 2, batch 2, checkpoint every 2, 4 items, 1 restart | `ChainVerifies`, `Conserved`, `CheckpointDurable`, `EventuallyWritten` |
| `policy_reload` | 2 files, 4 kinds, 2 edits, 1 POST, 2 reloading goroutines beside main | `DenyNeverSkipped`, `ConvergesAlone`, `EveryChangeReloaded` |
| `pipeline` | 2 requests at a time, any number after each other, a session and its child, 1 token; all catalogues of 3 definitions of 3 tools and the deployed one, under the hashes 0, 1, 14, 15, 31 of each (collisions, and probes that wrap around 16 buckets); all commands of 3 words and of 5 core words; chains of 3 tokens at 4 moments | `EgressAfterSecretDenied`, `ChildEgressDenied`, `LabelsZeroOrTaint`, `LookupExact`, `SecretsLabelled`, `TaintedEgressStopped`, `DelegationBounded` |
| `bundle` | 5 bundles (2 good, one refused by each of three stages), 3 publications in either order of the two files, file or URL, 1 fault, 1 restart, 2 kept; up to 3 policies of any scope, 2 of any layer and content | `VerifiedOnly`, `StoreSound`, `SelectionExact`, `DenyHonoured`, `LastPublicationLive` |
| `mcp` | 2 requests at a time, up to 3 calls, 2 definitions that change twice, threshold 2, one repeated answer or one restart | `OwnAnswer`, `DriftBlocksCalls`, `AnswerOnItsWay` |
| `stream` | 4 publishers, 1 client, queue 1, channel 2; and 5 upgrades, 2 addresses, limits 2 and 3 | `NothingMissed`, `EventsInOrder`, `SlotsExact`, `FanOutNeverBlocked` |
| `pidlock_two` (violation) | 2 processes, 2 inodes | two daemons hold a PID lock at once, against pidlock.go:14 |
| `standing_rules_next` (violation) | as standing_rules | a granted rule is ignored after a prune that overlapped the grant, against session.go:58 |
| `audit_gap` (violation) | as audit_writer | a batch whose transaction fails disappears uncounted, against audit.go:215 |

What the properties of the newer runs say, in short:

- `VerifiedOnly`, `StoreSound`, `LastPublicationLive`: the engine runs the
  default or a bundle that a trusted key signed and that passed every stage,
  however publication, polling and faults interleave; the store keeps the newest
  bundles and the live one, and at rest the loader knows which is live; a good
  bundle published last, signature before bundle, is live in the end unless a
  fault spoilt the attempt.
- `SelectionExact`, `DenyHonoured`: the index with its fast path asks exactly the
  bindings it should, in layer order, and no lower layer takes a DENY back.
- `TaintedEgressStopped`: from the bytes of three IDE formats through adapter,
  schema gate, labeler and sink check to what the IDE is told: a visible egress
  of a tainted session without approval is stopped.  `SecretsLabelled` is its
  other half: the read that should have tainted the session did.
- `AnswerOnItsWay`: nothing but the end of the read loop can lose the answer to
  a call that waits.
- `InstallSettles`: wherever setup and uninstall are interrupted, the hook named
  in settings.json exists, the user's lines and other hooks are kept and no file
  has two PATH entries; a complete setup leaves the hook and a running daemon, a
  complete uninstall nothing in the files it cleans, and a file that ended with a
  newline as it was before the first setup.

Properties of operators alone (`PackingFaithful`, `LookupExact`,
`SecretsLabelled`, `TaintedEgressStopped`, `DelegationBounded`, `SelectionExact`,
`DenyHonoured`) have the form Init => P: TLC evaluates P once, in the first
state, for all inputs of the sets that the cfg gives.  These sets are constants
of the module that is checked, so that the theorems of section 4 speak of any
inputs.

Why the bounds are enough.  The races of this code are between two actors on
one object: two goroutines on a session, a grant and a prune, a reload and an
edit, a starting and a stopping daemon, a publisher and a poll, a call that
gives up and its answer.  Each run has two of the actors that race and one of
the object they race for, and capacities one below what the actors can produce,
so that full channels, full batches, refused slots, an open circuit breaker and
expired rules all occur; every action fires in some passing run.  One inode in
`daemon` and two in `pidlock_two` separate the cases: with one, a PID file can
only be recreated after its last descriptor is closed, and the invariants that
depend on mutual exclusion are exercised through stop, crash and restart; with
two the overlap of the finding appears.  `SocketReachable` is stated under
`~twice` for that reason, and proved for any number of inodes.  The operators
are checked on all inputs of the given length: three words are a binary, a flag
or redirection and a file, five allow a pipeline of two commands; three
definitions allow two of one tool beside a colliding one; three tokens are the
first length at which the deep ceiling applies.  The number of installation
commands is not bounded: what they leave repeats itself, and the run ends when no
command leaves a new machine.

CHECK_DEADLOCK is off where the system may stop: all daemons down and all hooks
done, an audit writer that has drained, edits, publications and requests used
up.

Symmetry is used in `mcp` only, which has no liveness property.

Every property has a mutant in PROJECT.json: an alternative of a mapped
definition, in the module beside the original and marked as a mutant, under
which TLC finds the property violated.

### Fairness

Weak fairness is assumed of goroutines that can run, and nothing else: of the
steps of a call (SessionLabels), of the granter and the pruner and of time
(StandingRules; the pruner runs on a ticker), of the writer and its timer
(AuditWriter), of the watcher, its timer and a reload (PolicyReload), of the
fan-out and the publishers (StreamHub), of the steps of tryActivate
(BundleLoader; the loop of Start calls it at every tick, and each fetch has a
timeout), and of the shutdown sequence, the accept loop's wait for a slot and
the handlers (Daemon; their reads and writes have deadlines, so they end).
Strong fairness is assumed once: of taking reloadMu, because sync.Mutex hands
the lock over to a waiter that has starved.  Users, hooks, clients, edits,
publications, servers, signals and crashes are never forced.  Nothing is assumed
in MCPProxy: a call without a deadline may wait for ever (upstream.go:112), so
only that its answer is not lost is stated.  Note that `EveryCallReturns` holds
because labels and ordinals only rise: a lost compare-and-swap means that
someone else has moved up, which can happen only finitely often.

## 4. Proofs

All theorems hold for every value of the constants, under the ASSUMEs of the
modules (finite sets, positive capacities, distinguished values outside their
sets, inputs of the right type).  Three of the assumptions say more than a type,
and the code or the shipped data justifies each: no rule of the labeler uses the
taint bit as a category and its secret categories are among those that taint
(`LabelerAssumption`); a word that is a | does not look like a path
(`CallsAssumption`); the deployed catalogue gives WebFetch a network effect and
SendMessage a message effect (`CatalogAssumption`).  There is one proof module
per part of the system; the inductive invariants were checked by TLC on the
runs' instances before they were proved.

Where a definition is recursive (the table that grows by one definition, the
list that keeps the matching policies, the sorted layers, the lines that an
uninstall keeps) the proof is an
induction over Nat.  It is done with a set instead of a predicate
(`SetInduction`: a set of numbers that has 0 and with each number the next is
all of Nat), because the library's induction theorems, which take an operator,
cannot be instantiated; that lemma follows from well-foundedness of < .

- **DaemonProofs.** Four invariants.  For the PID lock: `PidLockInv` adds to
  `OwnerPidIntact` that whoever has won the Flock is the holder of the inode it
  has open; without it the step that writes the PID proves nothing about the
  lock.  For the socket: the socket path is only touched by a process that holds
  the PID lock (`RunUnderLock`), two lock holders at once are remembered
  (`TwiceSeen`), hence `SocketReachable`.  For the audit: a connection in flight
  has a live owner (`Connected`), everything evaluated and closed is queued or
  written (`Handed`), and past each wait of the shutdown sequence what it waited
  for is gone (`Waited`); `AuditedAtExit` follows at "returned".
  `DaemonImplementsPidLock` shows that every step of the daemon is a step of the
  PID lock or leaves it alone, and carries `OwnerPidIntact` over.  For the
  installation: `InstallInv` says that a shell file is the user's, perhaps with an
  empty line more if it did not end with a newline (`Plain`), or such a file with
  the three lines of a setup behind it (`Shape`), that settings.json names the
  hook only if it is there, and what the command under way has brought about
  after its first k steps (`SetupDone`, `SetupUninstallDone`, `UninstallDone`).
  That removeNixisLines makes a `Plain` file of every `Shape` (`Cleaned`) is an
  induction over the lines; the steps on the service leave all files alone
  (`OnlyService`), so that interruptions between them need no argument of their
  own.  Assumed of the machines is only that Nixis was never there
  (`MachinesAssumption`), of the commands that only setup has a dry run.
- **SessionLabelsProofs.** `ElevationIsLeastUpperBound`: dominance is a partial
  order and elevateLabel its least upper bound.  `IInv`: the registry's types,
  entries that were not stored are fresh, what each goroutine holds between load
  and swap is below the entry, and the ordinal of a session agrees with its
  label.  From it `NoLostElevation`, `LifecycleFollowsLabel`, `TypeOK` and the
  action property `NothingRetreats`, for any number of goroutines and sessions.
  `ElevateIsAtomicHolds` is the refinement of HighWaterMark: the abstract label
  of a session is the current entry's, a goroutine is pending from its call until
  the compare-and-swap that succeeds (`AbsPend`), and holds a result from then on
  (`AbsRets`).  The winning swap is the abstract step, and so is the load that
  finds nothing to raise; the call and the return map to themselves; a getOrCreate that loses, a failed swap and all of
  advanceState stutter.  `IInv` is what makes the swap abstract: the value it
  compares with is the value it computed from.  `PackingFaithfulHolds`: by the
  uniqueness of quotient and remainder, packing is a bijection for fields of any
  size, and so for 16, 16 and 32 bits; this is what lets the model swap labels
  where the code swaps words.
- **AuditWriterProofs.** `ChainInv`: the stored log and the view of the open
  transaction are chained, and the hash the writer holds is that of the last row
  it builds on, unless a start could not read it (`blind`, see 6).  From it
  `ChainVerifies` and `LogAppendOnly`.  `ConserveInv` adds that ids rise along
  log, batch and channel (`Ordered`: otherwise a commit could write an id twice),
  that an open transaction holds the rows of the items before its position and no
  others (`InTransaction`: what commit persists and what a failure loses), that
  the places of an item are disjoint and cover what was accepted (`OnePlace`) and
  that whatever is in the channel after the drain came after the cancellation
  (`WayOut`); hence `Conserved`.  `CheckpointInv`: the hash that the next
  checkpoint would carry is in the log or in what the open transaction will
  commit (`Held`), and the log only grows; hence `CheckpointDurable`.
- **StandingRulesProofs.** `Inv`: the session holds granted rules only, and all
  of them that have not expired, while the pruner compares with a time that has
  passed (`RulesExact`); the loop of AddStandingRule only swaps upwards
  (`SwapsUp`); a snapshot may be old, but what it holds was granted, and a
  session-wide grant it saw still stands (`SnapSound`).  From it `NoLostGrant`,
  `NoUnapprovedEgress` and the action property `SessionGrantSticks`, for any
  number of granters and checkers and any requests.
- **PolicySourcesProofs.** For the watched directory, `ReloadInv`.  The
  convergence of a reload that ran alone is not inductive, since it speaks of a
  moment when everything is at rest; `CaughtUp` says in addition that once the
  watcher has seen the last edit and its timer has fired, whatever a reload in
  progress has read so far is what is on disk.  From it `DenyNeverSkipped` and
  `ConvergesAlone`, for any number of files and goroutines.  For bundles,
  `LoaderInv`: a signature of a trusted key was published, wherever it is
  (`Published`); each state of ActivationFSM knows what the stages before it have
  established (`Gates`); what is live is good, signed and stored, and the newest
  stored unless a bundle after it was not activated (`Live`); stored bundles are
  signed, distinct, and at most KeepCount beyond those that were stored without
  being activated (`Shelf`).  From it `VerifiedOnly` and `StoreSound`; the lemmas
  `OthersProperties`, `SaveProperties` and `GcProperties` are about the sequence
  of stored bundles.  For the selection of policies: the list that keeps what
  satisfies a test has those elements, in their order, and no other
  (`KeepProperties`); sorting by layer keeps the elements and orders the layers
  (`SortProperties`); so the two lookup paths of matchBindings agree with the
  scopes (`SelectionExactHolds`), and the first binding that refuses is of a
  layer no lower than any whose denial holds (`DenyHonouredHolds`), for any
  number of policies.
- **PipelineProofs.** `PipeInv`: types; labels and ceilings are zero or the bare
  taint bit (`LabelPart`); a request whose answer will oblige its session has
  left the taint on it by the time it is answered (`TaintPart`); a request past
  the sink check that began after that was refused or approved (`SinkPart`).
  The rest is about what the pipeline decides from.  Delegation:
  `PermitsWithin`, `EndsAtCeiling` and `SweepExact` for chains of any tokens,
  keys and times (the earliest expiry exists because < is well founded on Nat),
  and with them `DelegationBounded`; no induction along the chain is needed,
  since buildChain looks at the intersection of at most two tokens and gives
  longer chains a fixed ceiling.  Classifier: the table after i definitions has
  at most i buckets taken (`TableOf`), and for every tool either no bucket has
  its name or its first definition lies on the probe path behind buckets of
  other tools (`Found`); an insertion keeps both (`FoundStep`), a free bucket
  remains by counting (`FreeBucket`) and a probe reaches it (`ProbeReaches`), so
  `LookupExact`.  Labeler: a word that a reader in any part of a pipeline reads
  is in the segment of a head that extractPathsFromCommand looks at, because no
  | lies between the last head and the word (`ReadIsExtracted`); the first of
  the rules that match a secret path is a rule for secrets (`SecretMatched`);
  so `SecretsLabelled`, whose second half is what Pipeline assumes of requests.
  Hook to answer: every form is parsed to the same call (`FormParsed`), a call
  that sends becomes a request that is restricted and goes to an external or an
  unknown place (`SendingRefused`, with `LookupExact` for the effects of the
  tool), and every adapter passes a refusal on (`RefusalTold`); so
  `TaintedEgressStopped`.
- **MCPProxyProofs.** `MCPInv`: ids suffice and belong to one call each
  (`IdsSuffice`, `IdsDistinct`); a message about an id was made for the call that
  has it (`MessagesFit`); a call is registered until it ends and its answer is in
  one of four places (`Registered`, `Awaited`); while the server answers once it
  is in one only (`Single`); the stored baseline is the one compared with, and
  the flag is up before a drift is told (`DriftKept`).  `StepKinds` reduces the
  eighteen actions to what they do to calls and messages.  From it `OwnAnswer`,
  `AnswerOnItsWay` and `DriftBlocksCalls`.
- **StreamProofs.** `DeliveryInv`: a broadcast under way has reached the clients
  it has visited and is bound to visit those that registered before it and whose
  snapshot is older (`Reaching`), and no published number is above the counter
  (`Registry`); hence `NothingMissed`.  `OrderInv`: the queue is in the order of
  Emit and ahead of the event in the fan-out (`Queued`), everything a client was
  sent is behind both (`Trailing`), its channel continues its wire (`Lined`) and
  only the snapshot is written before the pump starts (`SnapshotFirst`); hence
  `EventsInOrder`, with any number of clients and any capacities.  For admission,
  `SlotsExact` is inductive with the types; the proof is one of cardinalities,
  and shows that the guard of dec against a negative counter is never needed.

Only model-checked: the liveness properties (fairness and ENABLED are out of
the prover's reach).  Every invariant and every action property that a run checks
is a theorem.

## 5. What is not modelled

- The lists and regular expressions that decide a feature of a word, the secret
  scanner, self-protection, globs and the CEL language: they are data and
  libraries; what they answer is a choice or a feature in the models.
- SQLite and the file system below the calls the code makes, TLS, wire formats.
- Parts that no binary calls: rate limiter, taint history, SetMode,
  RuleBasedLabeler.Label and IsSink, Meet.  (Bundle loader and MCP proxy have no
  caller either, but are complete state machines and are modelled; delegation is
  wired with an accept-all validator.)
- `nixis import` and the other commands that convert or print; the dashboard,
  telemetry and the gRPC translation, which keep no state that a decision reads.
- Directories of policies that are created after the start (not watched), the
  HTTP endpoints without state.

## 6. Observations

Things met while modelling where code and documentation differ, or that a
maintainer may want to know, beyond the three findings.

Labels, pipeline and approvals

- lattice.go:99: Meet is not the greatest lower bound of Dominates (the two
  orders of integrity); it has no caller.
- engine.go:922, 947: the spawn token of a child is deleted before the child is
  tainted; a second request of the child that arrives in between runs untainted
  (`ChildEgressDenied` is stated for children that have been answered).  A token
  that nobody claims is never removed.
- engine.go:336: the label that the labeler derives takes part in the dominance
  check.  The Escalated state is not reachable through the pipeline.
  session_labels rows are written and never read.
- scanner.go:136 says that a panic or a timeout returns DENY; engine.go:479 looks
  at the findings only.
- enforcer.go:115 says unknown destinations are denied; a command whose
  extracted resources are all local is allowed although it also reaches out by a
  name that was not extracted, and a restricted effect without resources and
  without a network binary is allowed.

Policies

- engine.go:705: bindings without tools are not consulted for a tool that any
  binding names; when the first binding has no scope, filterByScope returns all
  of them, those of other tools and sessions included.
- parse.go: REQUIRE_APPROVAL validations are dropped when a DENY one exists;
  an AUDIT-only policy whose expression holds refuses, although parse.go:261 says
  the engine skips AUDIT;
  of templates with one name the last program wins; one bad document drops its
  whole file.  The daemon's path does not sort layers, the bundle loader's does.

Bundles

- A bundle that is published before its signature can be lost for good: its tag
  is remembered at the fetch that then fails verification (loader.go:307).
- DenyAll is left silently at the next successful poll.  A server without ETags
  has its bundle activated again at every poll, and the status of the signature's
  response is not looked at.
- Extraction fails for archives with directories and cuts files at 4 MB.
  Manifests on disk carry version 0, which `bundle list` shows.  The rollback
  command may choose a bundle that never was active, or the live one, when
  failed bundles are newer.

Classifier, labelers and hook

- Edit's file_path is not labelled (extract.go:18).  WebSearch's argument is
  "search_term" for the labeler and "query" for schema and engine.  A quoted URL
  is found only when the labeler extracted nothing.
- The Cursor adapter exits 0 for an action it does not know although it says
  deny, and reads "input" only; the Claude Code and Cursor adapters accept an
  empty tool name.
- failopen.go: a slow daemon leads to fail-open like an absent one, and an error
  of the log itself is ignored.  daemon.go:412: every start reports all entries
  of the log again.

MCP and delegation

- The drift flag is lost at a restart until the next tools/list.  A server that
  answers an id twice can block the read loop for good once the call has gone
  (upstream.go:124).  Methods other than tools/call are forwarded unchecked.
- Chains of more than two tokens get ReadOnlyCeiling, which may grant "read" that
  no token grants (chain.go:192).  MaxDepth is never checked, ValidateChain does
  not look at the declassification gate, and the capabilities that ApplyCeiling
  would check are never filled.  engine.go:193 of delegation says a chain is
  removed when all its tokens have expired; one is enough.

Audit, reload, stream

- audit.go:57, 106: the link of a checkpoint to its predecessor is lost at a
  restart.  audit.go:373: loadLastChainHash answers the zero hash on any error,
  so a start that cannot read the log begins a second chain (`blind`).
  cmd/nixis/audit.go:157: verification of a range starts from the zero hash and
  reports its first row as broken.
- handler.go:166: the answer precedes the record, and denials of oversized or
  malformed requests and POST /v1/check leave no record
  (docs/guide/security-model.md:215).
- main.go:292: of two overlapping reloads the one that parsed first may swap
  last; `ConvergesAlone` is therefore stated for reloads that ran alone.
  parse.go:357: a file that does not parse is skipped, its policies vanish from
  the snapshot (docs/guide/policy-authoring.md:204 says they are retained).
  watcher.go:91: a rename does not reload (docs/guide/getting-started.md:60).
- server.go:404: sequence numbers do not arrive in order at a client (four
  publishers); only decisions do.  server.go:381: filters are stored and never
  applied.  server.go:627, 637: the limits are checked before they are taken and
  can be exceeded by concurrent upgrades.  A full client loses the newest
  message, docs/guide/architecture.md:205 says the oldest.

Installation

- uninstall.go:28 calls itself the inverse of setup; PreToolUse hooks of the user
  are lost, .bash_profile is not cleaned, and a line of the user that is
  "# Nixis" loses the line after it.  `setup --uninstall` leaves PATH and socket.
- setup.go:40 says --dry-run makes no changes; the directories ~/.nixis and
  ~/.claude are created.  `uninstall --force` still calls the service manager,
  without a timeout, and can leave a restarted daemon when the unit file is gone.
  --skip-binaries can leave a hook without a binary.  Several PIDs of pgrep parse
  to 0.

## 7. Plan

Done, most important behaviour first: session labels and lattice; approvals and
sink; pipeline; audit writer; reload; stream; PID lock; daemon and hook; policy
selection; bundles; MCP proxy; classifier, labelers and adapters; delegation;
installation.

Proved, in the same order: every safety invariant and action property about the
state of a component, both refinements, and every property of operators
(section 4).  Modules that could follow: the audit writer's channel
inside Daemon, so that counted drops appear in `AuditedAtExit`, and an HTTP
source with caches between publisher and BundleLoader.
