# docker-helper: a TLA+ verification project

docker-helper is a root daemon that runs `docker run`, `docker build` and
`docker pull` on behalf of less trusted callers. Principals own Launchers,
Launchers own Sessions, and a Session token starts Operations. The daemon
confines every workload by a MAC backend (AppArmor or SELinux), pins mount
sources, bounds concurrency, and cleans up after crashes. This project models
the parts of it whose correctness depends on interleavings, failures and
restarts.

## Components

| Component | State | Operations | What is hard | Correct when |
|---|---|---|---|---|
| Operation supervisor (`operation.go`) | registry of operations, three capacity counters, shutdown flag, quiesce set; per operation its state, reason, process, force-cleanup owner | reserve, admitReserved, start, complete, prune, cancel, shutdown | handlers, completion goroutines, cancels and shutdown interleave; a slot's release closure changes owner | counters exact, ceilings hold, no process escapes shutdown, cancel answers are true |
| Operation output (`operation.go`, `build.go`, `agent_cli.go`, `client.go`) | rolling buffer, the reader's offset | write, page, poll, drain, interrupt | the buffer evicts between two pages; the record may be pruned under the reader | nothing retained is skipped or repeated, loss is announced, the wait ends |
| Run resources (`run.go`, `run_cleanup.go`, `workload_mac.go`, `mount_pin_*.go`) | slot, session-use lease, pins, workload MAC state, ownership record, container | prepare, roll back, clean up in a frozen order, reconcile at startup | every step may fail; the daemon may die between any two; dockerd acts on its own | a running container keeps its confinement, the record is removed last, cleanup ends |
| Workload MAC backends (`workload_apparmor.go`, `workload_selinux.go`) | profile source and loaded profile; projections, lower binds, bindfs workers | prepare, roll back, clean up, reconcile | workers mount late or die; commands time out with an unknown result; handles are lost at a restart | no removal reaches a user's files, kernel state always has its record, retained state is recovered where no mount is in the way |
| Ownership lifecycle (`launcher_lifecycle.go`, `principal.go`, `launcher.go`) | enabled columns, rows, quiesce set, `lifecycleMu` | enable, disable, checked delete | check-then-act across docker and database; unreported commits; restart | owners outlive their operations, nothing is admitted for a disabled owner |
| Credentials and control plane (`*_handler.go`, `principal_control_auth.go`, `credential*.go`, `session_control.go`) | rows of owners, credentials and sessions | authenticate, resolve, read, issue, revoke, rotate, create and delete sessions | a handler is several reads and a write; owners are deleted and recreated in between; commits are unknown and answers lost | a request acts within its own scope, one rotation wins, its holder is never left without a bearer |
| Session MAC coordinator (`mac_lifecycle.go`) | bindings, leases, consumer counts per boundary, deferred removals | bind, release, lease, reconcile | reference counting with failing removals | a boundary stays while anyone needs it, and no longer |
| Allowed-root policy (`allowed_root*.go`, `lifecycle_owner.go`) | global, Principal and Launcher roots with access modes, scope modes, issued snapshots | add, remove, set-access, replace scope, reload, issue a snapshot | most-specific lookup against meets and normalisation; cascades; a crash inside a reload | no scope grants more than the one above it, stored roots stay inside their ceiling |
| Database, migrations, session snapshots (`database.go`, `ownership.go`, `session_snapshot_store.go`) | tables of every released format | classify, create, migrate, backfill, verify | each step commits by itself, so a crash leaves a mixed schema | no owned row is lost, a lost snapshot is never made up |
| Daemon startup, config, admin token (`main.go`, `listener.go`, `reload.go`, `config*.go`, `app.go`) | configuration file and running configuration, token file and hash, socket, instance lock | start, reload, config transaction, rotation, offline cleanup, shutdown | crashes, racing commands, lost answers, residue of earlier starts | only proven state is served, reports are true, a start is refused only for cause |
| Trusted CA, build staging, path validation, logging, CLI rendering, completion, packaging | none that outlives a call | | | |

Handlers call the supervisor, the MAC coordinators and the database directly;
the lifecycle mutators steer the supervisor through its quiesce set; startup
migrates the database, reconciles stored roots, then workload state, then
session MAC state, before it serves. `PROJECT.json` lists every component with
its status, and the hazards at their lines.

## Modules

- `OperationSupervisor` - requests (run, build, synchronous pull/login) and
  their operations. `pc` is the progress of the request handler and of the
  completion goroutine, `tpc`/`tst` that of each terminating thread (cancel
  calls and shutdown). One action is one critical section of `s.mu` or `op.mu`.
  The release closure of a slot is the three variables `reservation`,
  `capacityRelease` and `released`, exactly as the code passes it around.
  Times are abstracted: `completedAt` orders completions, timers fire at any
  moment after they are armed.
- `LogStream` - the output of one process. A byte is its position in the
  stream, so the printed log is a sequence of positions; `first` and `total`
  are the two ends of the rolling buffer. A request and its response are two
  steps, the process writes in between. The reader is the command line's drain
  and status loop, or the one response of a pull. Invalid UTF-8 is modelled by
  the length of the text before and after the JSON round trip, which the client
  must not use as an offset.
- `RunCleanup` - the resources of a run. `pc` walks through `handleRun`,
  `mode`/`stage` through the cleanup sequence shared by rollback, post-start
  cleanup and startup reconciliation. Every step that can fail in the code has
  a failing alternative. `Crash` drops what lives in the process, `Reboot`
  what lives in the kernel and under /run as well. dockerd is external: a
  create request may be executed after its CLI died, a start request needs the
  CLI, `--rm` removal may fail or hang.
- `WorkloadBackend` - what `RunCleanup` keeps as the single value `mac`, for
  one operation on either backend. A cleanup pass works from the last projection
  to the first; `pass` says who runs it (the rollback of one failed entry, of
  the earlier ones, the reconciliation of an owned record, post-start cleanup).
  A bindfs worker is a process of its own. `handles` are the workers this
  daemon started; after a restart there are none, and cleanup goes by path. A
  mount whose worker is gone is `Disconnected`: unmounting it works, inspecting
  it does not, so the proof of shape that begins every cleanup by path fails.
- `OwnershipLifecycle` - the mutators under `lifecycleMu` as a sequence of
  steps (`mut`), with data-plane requests, session deletion, containers and
  restarts in between. A transaction commits, fails, or commits while its
  error is reported.
- `ControlPlane` - the handlers of the control plane. A request is a record
  whose `stage` marks the gaps between its reads and writes: `looked`, `authed`,
  `resolved`, then `prepared`, `replaced`, `delivered` of a rotation, `creating`
  and `removing` of a session. Rows are identified by what the database never
  uses twice, so a username that is deleted and created again is another
  element. `lifecycle` is `lifecycleMu`, `writer` the rotation mutex together
  with SQLite's single writer. A crash of the daemon is every open request
  failing where it is.
- `CredentialBearer` - what the credential store promises the holder of a
  bearer, without requests, locks or transactions: a credential switches only
  to a replacement that was delivered for exactly the bearer it accepts.
  `ControlPlane` implements it with `accepts <- Accepts`, the hash an active row
  holds; `offers` is a history variable of the delivered rotations.
- `SessionMAC` - the session MAC coordinator. `t` is the transition that holds
  `c.mu`: session creation (ensure each issued tree, record ownership, insert
  the row, bind, or roll back), the release of a binding or a lease followed by
  the retry of deferred boundaries, and the passes of `ReconcileLiveSessions`.
  Row deletion, expiry and workload state happen outside the lock and
  interleave with it. `host` is chosen at the start and fixed: the operator's
  rules, the trees that need none, whether the backend discovers its own
  boundaries, the trees the sessions are issued and how many crashes happen.
  Every command and every read may fail; `excused` remembers the boundaries
  whose removal met such a failure, which only the next startup repairs.
  Workload state is reduced to what `PendingWorkloadSessions` sees of
  `RunCleanup`: nothing, a directory, a record.
- `AllowedRoots` - the policy language of `allowed_root_policy.go` as operators
  over an abstract tree of paths. A policy is a partial function from paths to
  access modes; the order of the entries survives as `Rank`, the byte order of
  the paths, because the single pass of `normalizeAllowedRootEntries` depends
  on it: `Open` is its stack of ancestors when an entry is reached, `Retained`
  the set the pass keeps.
- `RootPolicy` - the stored roots of a Principal and its Launchers as a state
  machine over those operators. Each mutation is one transaction under
  `lifecycleMu` and one action; a reload is two steps, the commit of the
  reconciliation and the publication, with a crash possible in between; a
  restart may load any global policy.
- `StateDatabase` - a database as a record: its tables, the columns that tell
  the released formats apart, owners, sessions, roots and snapshots. One
  operator per schema classification and one per committed migration step. A
  root row has an owner, a path and an access; of the two paths `inner` lies
  below `outer`. `PruneRoots` cuts a principal's rows to the global ceiling and
  the rows of its launchers to what the principal keeps.
- `DaemonLifecycle` - one daemon from `serve` to exit over such a database, the
  configuration file and the admin-token file. `phase` is the position in
  `runDaemon`; every migration step is an action, so a crash falls between any
  two. Around it run the config transactions of the command line (lock, read,
  write, reload, rollback), admin-token rotations (authorise, stage, rename,
  publish) and the offline session cleanup. A configuration is a digest: the
  access of two global roots, a CA source and a setting only a restart applies.
- `MC*` - the small instances. `*Proofs` - theorems.

`OperationSupervisor.SetQuiesced` is the interface that `OwnershipLifecycle`
drives; `OwnershipLifecycle` keeps the supervisor's admission check and
replaces slots and processes by "running". `ControlPlane` in turn takes a
disable or delete as one step and asks who may order it. `RunCleanup` refines
what `OperationSupervisor` calls preparation, rollback and the work between the
end of the docker CLI and the terminal transition; that its cleanup always ends
(`CleanupEnds`) is what the fairness of `OperationSupervisor` takes for granted.
`WorkloadBackend` opens up one stage of `RunCleanup`: there the stage succeeds
or fails, here it is shown what a failure leaves, and when a retry can release it. The
order that `RunCleanup` shows (`LeaseReleasedLast`) is the order in which
`SessionMAC` lets an operation clean its workload state and release its lease.
`DaemonLifecycle` calls the reconciliations of `SessionMAC` and `RunCleanup` one
step each.

## Runs

| Run | Instance | Shows |
|---|---|---|
| `supervisor` | a pull and a run of one session, ceilings 1/2/1, one completed operation retained, a cancel, shutdown, a poller, under `FairSpec` | counters equal slot holders, ceilings bound real processes, shutdown signals every process, cancel answers are true, the first termination reason stands, one owner of the force cleanup; cancel is answered and shutdown returns |
| `run_cleanup` | two operations, two mounts, up to two crashes or reboots, under `FairSpec` | confinement outlives containers; the lease goes last; reconciliation leaves nothing; cleanup and startup end although dockerd may hang |
| `run_record` | one operation | counterexample: pins precede the ownership record |
| `workload_backend` | a directory, a file and a directory, both backends, six faults, under `FairSpec` | cleanup never deletes through a projection, a container never loses its confinement, kernel state has its record, retained state is recovered by a later start unless a mount has lost its worker or a foreign entry appeared |
| `log_stream` | retentions 1, 2, 3 and 5, pages of 2, writes of up to 3, 7 bytes, under `StreamSpec` | the printed log is ordered and complete up to announced loss; the wait ends |
| `ownership_lifecycle` | a principal, two launchers, two sessions, two requests | owners are never lost, admission follows the durable state |
| `ownership_disable` | one of each | counterexample: disable, enable, then the old request is admitted |
| `control_plane` | two requests, a username deleted and recreated, a launcher below each row, three credentials, three live tokens | a request reaches only what its credential owns, one rotation wins, sessions come from live authorities; the store implements `CredentialBearer` |
| `session_mac` | three hosts: AppArmor with overlapping trees, AppArmor with disjoint ones, SELinux with an operator rule and a tree below /home; two sessions, an operation, up to two crashes | counts are exact, coverage outlives deletion and crashes, no boundary is stranded |
| `root_policy` | r > {a > c, b}, one Launcher, at most two roots per scope, requests of one root, two global policies | stored roots stay inside their ceilings, effective roots are the pointwise meet of the scopes, snapshots are what was asked for and never more, pruning never broadens |
| `root_policy_siblings` | the same with three roots, and b sorting between a and c | counterexample: normalisation changes a lookup |
| `daemon_lifecycle` | databases of four released formats, one with a mixed schema and one with damaged snapshots among them; two principals, one of which has stored `outer` only while its launcher has `inner`; two config commands of six kinds, two token rotations, two faults | migrations preserve rows, only proven state is served, snapshots are not invented, the token on disk is the one in memory, reports are true, a start fails only for cause |

The bounds are small but each brings the cases that matter: a ceiling that one
request exhausts, two terminators against one operation, a second crash inside
the reconciliation of the first, a launcher created after its sibling was
disabled, a boundary below and one above what another session already holds, a
read-only root between two read-write ones, a launcher's root that loses its
principal's but not the global one, a buffer smaller than a page and one
larger, a third projection that fails after two are up, a crash in the start
that repairs an earlier crash. A first start without a database is left to
the proofs, which admit it. `supervisor` is small because its safety
invariants are proved for any number of requests. A Launcher's roots are
reconciled independently of its siblings', so `root_policy` has one. Requests,
operations, sessions and rows have identifiers that are never reused, as in the
code, which keeps the state spaces finite; tokens are reused once nothing refers
to them. Symmetry is declared for requests, commands and rotations, in runs
without liveness. Deadlock is not checked where the system may rightly come to
rest: all requests served, nothing left to crash.

Fairness. `OperationSupervisor.FairSpec` assumes that an admitted handler and
its completion goroutine continue (their docker calls carry timeouts), that the
graceful timers fire, and that a SIGKILLed docker CLI exits; it never assumes
that a process honours SIGTERM, or that clients come. `RunCleanup.FairSpec`
assumes only that the daemon takes its own next cleanup or startup step; every
wait in it has a timeout alternative, and dockerd owes nothing.
`WorkloadBackend.FairSpec` assumes that the daemon goes on and that a service
that stopped is started again sooner or later; the end of the service takes the
workers with it, which is systemd's default for the unit's control group.
`LogStream.StreamSpec` assumes that the daemon answers, that the command line goes
on and that a request for a pruned record fails; the process need not end.

Type invariants. All of them are proved, as theorems of their own or as
conjuncts of the inductive invariants.

## Proofs

Every theorem holds for every value of the constants: any number of requests,
sessions, operations, commands and crashes, any hierarchy of owners, any tree of
paths, any plan of exposures, any buffer size. `OperationProofs`,
`RunCleanupProofs` and `RootPolicyProofs` state the types first; the other
modules put them into the inductive invariant. `OperationProofs` is about an
operation and its output, `OperationSupervisor` and `LogStream`.

| Module | Inductive invariant | Shows |
|---|---|---|
| `OperationProofs` | `CapacityInv`, `TerminationInv`, `ForceInv`; `StreamInv` | `CapacityExact`, `DockerWithinCeilings`, `ShutdownSignalsAll`, `CancelAnswersTruthfully`, `SingleForceOwner`; `LogDelivered` |
| `RunCleanupProofs` | `CleanupInv` | `ContainerConfined`, `LeaseReleasedLast`, `ReconciledIsClean`, `RecordRemovedLast` |
| `OwnershipProofs` | `OwnershipInv` | `OwnerNeverLost`, `SessionsBelowEnabledOwners`, `AdmissionMirrorsAuthorities`, `NoAdmissionWhileDisabled`, `DeleteOnlyQuiescent` |
| `WorkloadBackendProofs` | `BackendInv` | `SourcesIntact`, `ConfinedWhileRunning`, `KernelStateOwned` |
| `ControlPlaneProofs` | `ControlInv` | `OwnScopeOnly`, `OneWinnerPerBearer`, `SessionFromLiveAuthority`, `BearerKept` (the refinement of `CredentialBearer`) |
| `SessionMACProofs` | `MACInv` | `CountsTruthful`, `CoverageKept`, `PendingCovered`, `NothingStranded` |
| `RootPolicyProofs` | `TypeOK` with `StoredWithinCeilings` | `StoredWithinCeilings`, `PruneNeverBroadens`, and where subtrees are contiguous `EffectiveIsMeet` and `IssuedAsAsked` |
| `DaemonLifecycleProofs` | `DaemonInv` | `MigrationsPreserve`, `ServesProvenState`, `SnapshotsNeverInvented`, `AdminTokenCustody`, `ConfigReportsTruthful`, `RefusedOnlyForCause` |

What the invariants add to the properties, and why they need it:

- Supervisor. `CapacityExact` is not inductive: that a release decrements the
  counters once rests on the captured flag. `SlotInv` adds that a holder's flag
  is unset, that at most one of reservation and operation holds the closure, and
  at which control points a slot is held. `TerminationInv` relates the control
  points to the registry (`LifeOK`), says that prune decisions contain only
  completed operations however stale they are (`PruneOK`), that a cancel call
  deals with one operation (`CancelOK`), that reasons are stable (`ReasonOK`),
  and that after the shutdown snapshot whatever may still start is on its list
  or already marked (`ShutdownOK`). `ForceInv`: an operation in force cleanup
  has an owner or its channel is closed. `CancelAnswersTruthfully` has an
  invariant and an action property in it, `FirstReasonDecides`: no step replaces
  a reason, and `cancelled` is reported only from a reason that was read as such. `LiveIsRegistered`,
  `CancelledWasRequested` and `NoSlotLeak` follow as well.
- Run cleanup. Only a live CLI starts a container, only a running handler has a
  live CLI, and that handler has built everything (`DockerOK`, `HostOK`).
  `StageInv` says what a cleanup has achieved when it reaches a stage,
  `LeaseInv` that the lease outlasts it, `BootOK` that a starting daemon meets
  only dead operations.
- Ownership. A delete decides on inspections that are over when it acts. They
  stay true because the quiesce flags are set first: `GateOK` says that a
  request in flight below a disabled owner meets a closed gate, `InspectionOK`
  what each inspection established and that no container came after it,
  `ScopeOK` that the rows the mutator looked up cannot multiply under its lock,
  `ProgressOK` which of them it has dealt with. `MirrorOK` is the mirror
  property for the launchers the mutator has settled already.
- Workload backend. `PassOK` says that a pass leaves everything above its
  position settled - nothing mounted and no worker that could mount again - so
  the recursive removal at its end finds no projection. `HandlesOK` is why
  settled stays settled: a live worker has a handle in this daemon, and none
  outlives the service. `DurableOK` says what record and pins are kept for,
  `PrepareOK` what is built so far, `ContainerOK` where a container can be.
- Log stream. `PageOK` describes a response in flight by the buffer of the
  moment it was taken: where it starts and, on a finished process, that a page
  which ends the drain reaches the end of the stream. `ShownOK` accounts for
  every position below the offset, `AnswerOK` for what a terminal status implies.
- Control plane. `StageOK` says whom a request may be about at each stage;
  `CreatingOK` and `ReplacedOK` that under `lifecycleMu`, or inside the
  transaction, what was read still stands; `PreparedOK` that a self-rotation
  replaces the bearer that its own authentication presented. The types include
  that the locks are held by the requests whose stage says so, which is what
  keeps the others out. For the refinement every step either leaves what is
  accepted and offered alone or is one step of `CredentialBearer`.
- Session MAC. The counts are proved equal to the cardinalities; `DistinctOK`
  (a set contains a boundary once) makes one increment one consumer. Coverage
  is about `Firm`, the boundaries not about to be taken back: `BackedOK` (a
  coverage in use names a firm boundary and knows whether the helper owns it),
  `HeldOK` (every tree visited so far is under one), `GoneOK` (what was just
  removed is used by nobody), `PendingOK` and `LinkOK` (a pass decides with
  pending state no weaker than the present one). That ensuring a tree never
  finds a boundary about to be rolled back is `PrepOK`: what a transition
  created is the topmost boundary over its tree. The lemma `StepFirmSafe` shows
  that a firm boundary goes only when no binding, lease or lost workload uses
  it. `normalizeCoverageSet` drops boundaries below others; `NormalizedHolds`
  shows that what they covered stays covered by taking the topmost one of the
  set, which exists because a path has finitely many ancestors
  (well-foundedness). `StrandOK` adds to `NothingStranded` the boundaries the
  transition is still to visit.
- Allowed roots. `Retained`, what the stack of `normalizeAllowedRootEntries`
  keeps, is a CHOOSE over the fixed points of one condition per entry. The
  lemmas `KeptUnique`, `KeptExtends` and `KeptExists` show that there is exactly
  one, by the first entry in byte order where two candidates would differ or
  where no candidate reaches; `RetainedIs` then gives the condition entry by
  entry. A topmost entry meets no ancestor on the stack and is kept, so whatever
  the byte order normalisation keeps which paths are reachable
  (`NormalizeReach`). Which mode they have is another matter: it is kept
  (`NormalizeLookup`), and a second pass changes nothing
  (`NormalizeIdempotent`), when a subtree is contiguous in byte order
  (`ContiguousOn`), for then the stack still holds every kept ancestor.
  Contiguity is a hypothesis of the theorems that need it, never an ASSUME,
  since the code does not establish it: `root_policy_siblings` is the
  counterexample without it. Unconditional are `StoredRootsValid`,
  `EffectiveReach` (a path is reachable exactly where all scopes grant it),
  `PruningNarrows` (an entry survives whenever one above it does, so no path
  falls back to a wider entry) and `SnapshotViewsAgree` (a source that may be
  mounted writable is writable throughout, and the MAC boundaries are disjoint
  trees that cover exactly what the snapshot authorises).
  `EffectiveRootsAreMeet` and `SnapshotAsAsked` ask for contiguity of the roots
  in use only, and `SessionsNeverRefused` shows for those that neither the
  revalidation of stored roots nor the canonical-form check of a fresh snapshot
  ever turns a session down.
- Daemon. `StepsOK` lists what each finished startup step established;
  `OriginOK` relates the database to the one the first start found. Every
  migration is shown once to keep what the earlier steps established and to
  change rows only as `RowsKept` and `Grown` allow; the lemma `Advance` combines
  these, so a crash between two steps needs no case of its own. Which roots
  survive follows the cascade: `Lasting` are the rows whose path stays in every
  configuration and, for a launcher, in its principal's own rows, for
  otherwise a reload that removes the principal's wider root takes the
  launcher's with it. `RootsPreserved` is transitive because a principal's
  lasting row is itself preserved; `Covered` holds after the reconciliation
  because containment is transitive (`WithinTransitive`). `TokenOK` orders
  the rotations (a token never comes back), `LockOK` and `ConfigOK` say that what
  was reported is in the file or in the bytes a rollback will restore, `HostOK`
  accounts for instance lock, socket and CA directory.

The lemmas that an invariant is preserved have one step per action. For
`SessionMAC` and `WorkloadBackend` there is one such lemma per conjunct; the
others first reduce the actions to the few forms in which they change a record
(`ControlPlaneProofs`, `OwnershipProofs`, `DaemonLifecycleProofs`).

Assumptions, each evaluated by TLC on every run:

- attribution functions have their types, identifiers of different kinds differ
  and no placeholder is one of them (`TypeAssumption`, `OwnershipAssumption`,
  `IdentityAssumption`, `OwnerAssumption`, `NameAssumption`): database keys.
  The requests of the supervisor, the sessions and the
  operations are finite sets (`FiniteAssumption`, `SessionAssumption`);
- ceilings, retention, page and write sizes and crash counts are numbers,
  positive where the code refuses zero (`CeilingAssumption`,
  `BoundsAssumption`, `BoundAssumption`); a plan is a sequence of directories
  and files (`PlanAssumption`), the empty one included;
- containment of canonical paths is a partial order in which a path has finitely
  many ancestors (`PathAssumption`). Home trees are closed downwards, as
  `isUnderHome` is (`selinux_fcontext.go:25`), and the trees issued to a session
  do not contain each other, which `sessionMACBoundaries` sees to
  (`allowed_root_policy.go:407`) (`HostAssumption`);
- for the allowed roots the ancestors of a path form a chain (`TreeAssumption`),
  and byte order is total and puts an ancestor, a prefix of its descendants,
  before them (`RankAssumption`). A global policy has a root, and the default
  Launcher and the home directory exist (`PolicyAssumption`);
- the first start finds a database some release left, or none, and a
  configuration with a root (`DiskAssumption`). `inner` stands for the global
  roots that no command removes, so no mutation does (`MutationAssumption`);
  what a removal does is shown on `outer`.

Only model-checked: the liveness properties (`CancelIsAnswered`,
`ShutdownReturns`, `CleanupEnds`, `RetainedIsRecovered`, `ReaderReturns`), since
fairness and ENABLED are outside the prover. The three counterexamples are runs
as well.

## Findings

- A request in flight when its principal is disabled can still be admitted
  once the principal is enabled again (`ownership_disable`), against the
  comment of `disablePrincipalLaunchers`.
- Inode pins are mounted before the ownership record is committed
  (`run_record`), against the architecture document; a crash there leaves pins
  that startup reconciliation does not visit.
- `normalizeAllowedRootEntries` can drop an entry that matters
  (`root_policy_siblings`), against its comment. Byte order puts a sibling such
  as `/r/a-b` between `/r/a` and `/r/a/c`; the sibling takes `/r/a` off the
  stack, and `/r/a/c` is compared with `/r`. When `/r` and `/r/a/c` have one mode
  and `/r/a` the other, `/r/a/c` falls back to the mode of `/r/a`. Where
  the roots in use have contiguous subtrees the pass is proved exact, and which
  paths are reachable never changes.
- Startup reconciliation cannot release an SELinux projection whose bindfs
  worker is gone, although state is retained "so startup reconciliation can still
  release the full ownership state" (`workload_mac.go:157`). `proveProjectionEntryShape` inspects the mountpoint
  before anything is unmounted (`workload_selinux.go:702`), and on a FUSE mount
  without its server that fails with ENOTCONN. The end of the service, which
  takes the workers with it, leaves exactly such mounts. The safety properties
  hold: record, pins and mount are kept until the mount is removed by hand or the
  host reboots. This is why `RetainedIsRecovered` exempts disconnected mounts;
  without the exemption `workload_backend` reports a behaviour in which every
  later start refuses the pass.

Observations that no run records as a violation, because nothing in the
repository says otherwise or because they lie outside the models:

- Startup deletes expired rows (`main.go:382`) after the coordinator has bound
  the live sessions, while the comment at `database.go:1748` expects the pass
  before it exists. A session that expires in between keeps a binding that
  nothing releases before the next restart; `CoverageKept` holds regardless.
- A record pruned between the terminal status and the last drain makes the
  command line report an error for an operation that succeeded.
- A config command that finds nothing to change reports `unchanged` and does
  not reload, even when an earlier command was killed between its write and its
  reload and the daemon still runs the older configuration.
- A rolled-back narrowing whose first reload was applied has already pruned the
  stored roots, the roots of launchers below them included; the rollback does
  not bring them back.
- A workload directory that is being created makes the rollback of an unrelated
  session defer its boundaries until a lease is released; `NothingStranded`
  allows for it.
- A multi-byte character that straddles a page or the eviction boundary is
  rendered as replacement characters (`build.go:467`); offsets are unaffected.
- A crash between the write of an AppArmor fragment and the profile reload
  (`mac_lifecycle.go:1164`) leaves a listed boundary that is loaded only with
  the next reload.
- `serve` reads its configuration before it takes the instance lock
  (`main.go:256`), so a command that finds no daemon may write in between; the
  daemon then starts on the older file.
- `init` writes `admin.token` and relabels it afterwards (`config.go:892`); a
  kill in between leaves a file that the next `init` refuses to overwrite.

## Not modelled

Request decoding, error texts, argv, profile and rule rendering, the CLI's
parsing and rendering, completion, audit and log output, HTTP draining,
packaging: they hold no state the properties depend on. Build staging, the
parsing of CA certificates and the writing of the bundle are sequential file
work inside one call.

The cidfile (best effort) and empty directories left by failed pins are left out
of `RunCleanup`; its absence proof assumes that a docker create under way when
the daemon died has taken effect or failed by the time a start reconciles.
`SessionMAC` leaves out the shape of a boundary (a file or a directory) with the
convergence of ownership rows that predate it: proving a shape either succeeds
or fails the removal; below it, the matching of fcontext rules and the text of
the AppArmor fragment are left out. `RootPolicy` works on canonical paths:
symbolic links are resolved before the policy is consulted, and a link that
changes afterwards is not represented. The workspace-only rule of user mode is
left out as well. `StateDatabase` keeps only the columns a migration looks at.

## Plan

What would come next: the session MAC backends (the managed AppArmor fragment
with its rollback, the SELinux rule and relabel commands), then build staging.
