-------------------------- MODULE DaemonLifecycle --------------------------
(***************************************************************************)
(* One docker-helper daemon from serve to exit, and the three durable      *)
(* things it shares with the operator's commands and with its own next     *)
(* start: the database, the configuration file and the admin-token file.   *)
(*                                                                         *)
(* - runDaemon: load the configuration, take the instance lock, load the   *)
(*   admin token, create tables, migrate them one committed step at a      *)
(*   time, prove the snapshots, reconcile, expire, listen, serve.          *)
(* - executeConfigTransaction: the command line's read-modify-write of     *)
(*   config.json under its own file lock, with reload and rollback.        *)
(* - rotateAdminToken: staged replacement of the token file.               *)
(* - session cleanup: the offline command that takes the instance lock.    *)
(*                                                                         *)
(* The daemon may crash between any two steps, a command may be killed, a  *)
(* response may be lost; faults bounds how often.                          *)
(***************************************************************************)
EXTENDS StateDatabase

CONSTANTS InitialDisks,      \* the databases and config.json of the first start
          Commands,          \* config set, unset and allowed-root processes
          Mutations,         \* the changes they ask for, [op, field, value]
          Rotations,         \* admin token rotation requests; each names its token
          FirstToken,        \* the token init wrote
          None,
          MaxFaults          \* bound: crashes, kills, failures, lost responses

\* The settings of config.json that are told apart, see below.
Fields == {"inner", "outer", "ca", "http"}
Settings == {"legacy", "rich", "absent", "read_only", "read_write",
             "unset", "auto", "unreadable", "moved"}
Docs == [Fields \cup {"schema"} -> Settings]

\* The first start finds what some release, or nobody, left behind.
ASSUME DiskAssumption ==
    \A disk \in InitialDisks :
        Released(disk.db) /\ disk.doc \in Docs /\ disk.doc["inner"] # "absent"

\* "inner" stands for the roots that no command takes out of the configuration.
ASSUME MutationAssumption ==
    /\ Mutations \subseteq [op : {"set", "unset", "add", "set-access", "remove"},
                           field : Fields, value : Settings]
    /\ \A m \in Mutations : m.field = "inner" =>
          m.op \notin {"unset", "remove"} /\ m.value # "absent"

ASSUME NameAssumption ==
    /\ None \notin Commands \cup Rotations /\ FirstToken \notin Rotations
    /\ MaxFaults \in Nat

VARIABLES db,          \* the durable database
          doc,         \* config.json
          tokenFile,   \* admin.token
          staging,     \* .admin-token.new, or None
          material,    \* the prepared trusted-CA directory
          socket,      \* the Unix socket: "none", "stale" or "live"
          phase,       \* where runDaemon is
          cfg,         \* the running configuration, or None
          hash,        \* AdminTokenHash in memory, or None
          offline,     \* session cleanup holds the instance lock
          configLock,  \* the command holding config.json.lock, or None
          cmd,         \* the commands: [pc, change, raw, original, report]
          lastReport,  \* the outcome the last finished command printed
          accepted,    \* history: the changes reported as made, by field
          mu,          \* the rotation holding App.mu, or None
          rot,         \* the rotations: [pc, auth]
          origin,      \* history: the database of the first start
          faults

vars == <<db, doc, tokenFile, staging, material, socket, phase, cfg, hash,
          offline, configLock, cmd, lastReport, accepted, mu, rot, origin, faults>>

-----------------------------------------------------------------------------
(* Configuration documents: the access of each global allowed root, the     *)
(* trusted-CA setting, the startup-only listen address, and whether the     *)
(* roots are still the scalar allowed_root of the old schema.               *)

Paths == {"inner", "outer"}

\* resolveAllowedRoots: the paths the global allowed roots name.
Ceiling(d) == {p \in Paths : d[p] # "absent"}

\* loadAndPrepareRuntimeConfig accepts a document with a root and a CA source
\* the confined daemon can read; the command's preflight sees no confinement.
Loadable(d) == Ceiling(d) # {} /\ d.ca # "unreadable"

\* What reload may change: handleReload keeps the startup-only listen address.
Runtime(d) == <<d.inner, d.outer, d.ca>>

\* The five mutations: what a command makes of the document, or Refused.
Refused == [refused |-> TRUE]

configSet(d, m) == [d EXCEPT ![m.field] = m.value]

configUnset(d, m) == [d EXCEPT ![m.field] = "unset"]

\* An add never changes the access of a stored root.
addAllowedRootToConfig(d, m) == IF d[m.field] = "absent" THEN configSet(d, m) ELSE d

configAllowedRootSetAccess(d, m) == IF d[m.field] = "absent" THEN Refused ELSE configSet(d, m)

\* Removing what is not stored changes nothing; the last root stays.
configAllowedRootRemove(d, m) ==
    LET new == [d EXCEPT ![m.field] = "absent"]
    IN  IF Ceiling(new) = {} THEN Refused ELSE new

Mutated(d, m) ==
    CASE m.op = "set"        -> configSet(d, m)
      [] m.op = "unset"      -> configUnset(d, m)
      [] m.op = "add"        -> addAllowedRootToConfig(d, m)
      [] m.op = "set-access" -> configAllowedRootSetAccess(d, m)
      [] m.op = "remove"     -> configAllowedRootRemove(d, m)

\* prepareCAInjection leaves a complete content-addressed directory behind.
PrepareCA(d) == IF d.ca = "auto" THEN "complete" ELSE material

-----------------------------------------------------------------------------
(* runDaemon. Steps in order; a failing step exits and releases the lock.   *)

StepAfter ==
    [config                  |-> "lock",
     lock                    |-> "token",
     token                   |-> "tables",
     tables                  |-> "sessions",
     sessions                |-> "credentials",
     credentials             |-> "principal_allowed_roots",
     principal_allowed_roots |-> "launcher_allowed_roots",
     launcher_allowed_roots  |-> "mac_table",
     mac_table               |-> "mac_key",
     mac_key                 |-> "mac_kind",
     mac_kind                |-> "ownership",
     ownership               |-> "defaults",
     defaults                |-> "snapshots",
     snapshots               |-> "reconcile",
     reconcile               |-> "mac",
     mac                     |-> "expire",
     expire                  |-> "listen",
     listen                  |-> "serving"]

HoldsLock == phase \notin {"down", "config", "lock"}

Idle == [pc |-> "idle", change |-> None, raw |-> None, original |-> None]

Fault == faults < MaxFaults /\ faults' = faults + 1

Init ==
    /\ \E disk \in InitialDisks : db = disk.db /\ doc = disk.doc
    /\ origin = db
    /\ tokenFile = FirstToken
    /\ staging = None
    /\ material = "none"
    /\ socket = "none"
    /\ phase = "down"
    /\ cfg = None
    /\ hash = None
    /\ offline = FALSE
    /\ configLock = None
    /\ cmd = [c \in Commands |-> Idle]
    /\ lastReport = "none"
    /\ accepted = [f \in {m.field : m \in Mutations} |-> None]
    /\ mu = None
    /\ rot = [r \in Rotations |-> [pc |-> "idle", auth |-> None]]
    /\ faults = 0

\* The process is gone: flocks are released, requests in flight die with it.
Exit ==
    /\ phase' = "down"
    /\ cfg' = None
    /\ hash' = None
    /\ mu' = None
    /\ rot' = [r \in Rotations |-> IF rot[r].pc \in {"idle", "ok", "refused"} THEN rot[r]
                                    ELSE [rot[r] EXCEPT !.pc = "lost"]]

\* A step of the startup: on failure the callback returns the error.
Proceed == phase' = StepAfter[phase] /\ UNCHANGED <<cfg, hash, mu, rot>>

StartupStep(p, ok, next) ==
    /\ phase = p
    /\ IF ok THEN Proceed /\ db' = next ELSE Exit /\ UNCHANGED db
    /\ UNCHANGED <<doc, tokenFile, staging, material, socket, offline,
                   configLock, cmd, lastReport, accepted, origin, faults>>

\* systemd starts (or, after a failure, restarts) the service.
Start ==
    /\ phase = "down"
    /\ phase' = "config"
    /\ UNCHANGED <<db, doc, tokenFile, staging, material, socket, cfg, hash,
                   offline, configLock, cmd, lastReport, accepted, mu, rot, origin, faults>>

\* loadAndPrepareRuntimeConfig, before the lock: the document is validated and
\* the CA material prepared before anything else exists.
LoadConfig ==
    /\ phase = "config"
    /\ IF Loadable(doc)
       THEN /\ phase' = StepAfter[phase]
            /\ cfg' = doc
            /\ material' = PrepareCA(doc)
            /\ UNCHANGED <<hash, mu, rot>>
       ELSE Exit /\ UNCHANGED material
    /\ UNCHANGED <<db, doc, tokenFile, staging, socket, offline, configLock,
                   cmd, lastReport, accepted, origin, faults>>

\* withDaemonInstanceLock: a non-blocking flock; a held lock ends the start.
AcquireInstanceLock ==
    /\ phase = "lock"
    /\ IF offline THEN Exit ELSE Proceed
    /\ UNCHANGED <<db, doc, tokenFile, staging, material, socket, offline,
                   configLock, cmd, lastReport, accepted, origin, faults>>

LoadAdminToken ==
    /\ phase = "token"
    /\ phase' = StepAfter[phase]
    /\ hash' = tokenFile
    /\ UNCHANGED <<db, doc, tokenFile, staging, material, socket, cfg, offline,
                   configLock, cmd, lastReport, accepted, mu, rot, origin, faults>>

\* initializeDatabase, its first statement: one CREATE TABLE at a time, since
\* the statements are not in a transaction.
CreateTables ==
    /\ phase = "tables"
    /\ IF MissingTables(db) = {}
       THEN Proceed /\ UNCHANGED db
       ELSE /\ \E i \in MissingTables(db) :
                  /\ \A j \in MissingTables(db) : i <= j
                  /\ db' = CreateTable(db, CreatedTables[i])
            /\ UNCHANGED <<phase, cfg, hash, mu, rot>>
    /\ UNCHANGED <<doc, tokenFile, staging, material, socket, offline,
                   configLock, cmd, lastReport, accepted, origin, faults>>

InitializeSessions ==
    StartupStep("sessions",
        /\ verifyLaunchersNameInvariant(db)
        /\ classifySessionsSchema(db) # "unsupported",
        IF classifySessionsSchema(db) = "legacyBare" THEN AddPrincipalColumn(db) ELSE db)

MigrateCredentials ==
    StartupStep("credentials",
        classifyCredentialsSchema(db) # "unsupported",
        IF classifyCredentialsSchema(db) = "pre21" THEN RebuildCredentials(db) ELSE db)

MigrateAllowedRoots(t) ==
    StartupStep(t,
        classifyAllowedRootsTable(db, t) # "unsupported",
        IF classifyAllowedRootsTable(db, t) = "legacyPathOnly"
        THEN RebuildAllowedRoots(db, t) ELSE db)

MigrateMACBoundaries ==
    \/ StartupStep("mac_table", TRUE, CreateTable(db, "mac_boundaries"))
    \/ StartupStep("mac_key", TRUE,
           IF "backend key" \in db.columns["mac_boundaries"] THEN db ELSE RebuildMACKey(db))
    \/ StartupStep("mac_kind", TRUE,
           IF "kind" \in db.columns["mac_boundaries"] THEN db ELSE AddMACKind(db))

migrateSessionOwnership ==
    StartupStep("ownership",
        \/ classifySessionsSchema(db) = "final"
        \/ classifySessionsSchema(db) = "legacyPrincipal" /\ OwnershipMigratable(db),
        IF classifySessionsSchema(db) = "final" THEN db ELSE MigrateOwnership(db))

\* migrateDefaultLaunchers: one independent insert per principal.
migrateDefaultLaunchers ==
    /\ phase = "defaults"
    /\ IF db.principals \subseteq db.defaults
       THEN Proceed /\ UNCHANGED db
       ELSE /\ \E p \in db.principals \ db.defaults : db' = EnsureDefaultLauncher(db, p)
            /\ UNCHANGED <<phase, cfg, hash, mu, rot>>
    /\ UNCHANGED <<doc, tokenFile, staging, material, socket, offline,
                   configLock, cmd, lastReport, accepted, origin, faults>>

\* Mutant: a damaged snapshot is backfilled like an absent one.
MutMigrateSnapshots ==
    StartupStep("snapshots", "snapshots" \notin db.malformed,
        IF SnapshotsIntact(db) /\ "snapshots" \in db.tables THEN db ELSE BackfillSnapshots(db))

\* The table's presence alone decides: absent is backfilled, present is proven.
migrateSessionFilesystemSnapshots ==
    LET class == classifySessionFilesystemSnapshotSchema(db)
    IN  StartupStep("snapshots",
            class = "absent" \/ (class = "canonical" /\ SnapshotsIntact(db)),
            IF class = "absent" THEN BackfillSnapshots(db) ELSE db)

ReconcileStoredRoots == StartupStep("reconcile", TRUE, PruneRoots(db, Ceiling(cfg)))

\* Workload MAC, then session MAC reconciliation (SessionMAC models the latter).
ReconcileMAC == StartupStep("mac", TRUE, db)

ExpireSessions == StartupStep("expire", TRUE, DeleteExpired(db))

\* Mutant: a stale socket is taken for a live one.
MutPrepareListeners ==
    /\ phase = "listen"
    /\ IF socket # "none" THEN Exit /\ UNCHANGED socket
                          ELSE Proceed /\ socket' = "live"
    /\ UNCHANGED <<db, doc, tokenFile, staging, material, offline, configLock,
                   cmd, lastReport, accepted, origin, faults>>

\* prepareListeners: a stale socket is removed and replaced; the TCP listener
\* is optional and its failure changes nothing here.
PrepareListeners ==
    /\ phase = "listen"
    /\ IF socket = "live" THEN Exit /\ UNCHANGED socket
                          ELSE Proceed /\ socket' = "live"
    /\ UNCHANGED <<db, doc, tokenFile, staging, material, offline, configLock,
                   cmd, lastReport, accepted, origin, faults>>

\* A step that reports an error of its environment ends the start.
StartupFails ==
    /\ HoldsLock /\ phase \notin {"serving", "draining"}
    /\ Fault /\ Exit
    /\ UNCHANGED <<db, doc, tokenFile, staging, material, socket, offline,
                   configLock, cmd, lastReport, accepted, origin>>

\* SIGTERM (systemctl restart), or an error of a listener: the listeners are
\* closed, which removes the socket, and the requests in flight drain.
BeginShutdown ==
    /\ phase = "serving" /\ Fault
    /\ phase' = "draining"
    /\ socket' = "none"
    /\ UNCHANGED <<db, doc, tokenFile, staging, material, cfg, hash,
                   offline, configLock, cmd, lastReport, accepted, mu, rot, origin>>

FinishShutdown ==
    /\ phase = "draining"
    /\ mu = None
    /\ Exit
    /\ UNCHANGED <<db, doc, tokenFile, staging, material, socket, offline, configLock,
                   cmd, lastReport, accepted, origin, faults>>

\* A crash anywhere; a CA preparation under way leaves a partial directory.
Crash ==
    /\ phase # "down" /\ Fault /\ Exit
    /\ socket' = IF socket = "live" THEN "stale" ELSE socket
    /\ material' \in IF phase \in {"config", "serving"} /\ doc.ca = "auto" /\ material # "complete"
                     THEN {material, "partial"} ELSE {material}
    /\ UNCHANGED <<db, doc, tokenFile, staging, offline, configLock, cmd,
                   lastReport, accepted, origin>>

-----------------------------------------------------------------------------
(* handleReload, as every caller sees it                                    *)

\* The document is loaded, the stored roots pruned and the configuration
\* published in one critical section; an invalid document changes nothing.
Reload ==
    IF Loadable(doc)
    THEN /\ cfg' = [doc EXCEPT !.http = cfg.http]
         /\ db' = PruneRoots(db, Ceiling(doc))
         /\ material' = PrepareCA(doc)
    ELSE UNCHANGED <<cfg, db, material>>

\* docker-helper reload, or systemctl reload, outside any config command.
OperatorReload ==
    /\ phase = "serving"
    /\ Reload
    /\ UNCHANGED <<doc, tokenFile, staging, socket, phase, hash, offline,
                   configLock, cmd, lastReport, accepted, mu, rot, origin, faults>>

-----------------------------------------------------------------------------
(* executeConfigTransaction *)

Success == {"applied", "restart required", "next start"}

Finish(c, report) ==
    /\ cmd' = [cmd EXCEPT ![c] = [Idle EXCEPT !.pc = "done"]]
    /\ configLock' = None
    /\ lastReport' = report
    /\ accepted' = IF report \in Success \cup {"failed"}
                   THEN [accepted EXCEPT ![cmd[c].change.field] =
                            IF report = "failed" THEN None ELSE cmd[c].raw[cmd[c].change.field]]
                   ELSE accepted

Continue(c, pc) ==
    /\ cmd' = [cmd EXCEPT ![c].pc = pc]
    /\ UNCHANGED <<configLock, lastReport, accepted>>

commandFrame == <<tokenFile, staging, socket, phase, hash, offline, mu, rot, origin>>

\* acquireConfigChangeLock: a blocking flock, before the file is read.
LockConfig(c) ==
    /\ cmd[c].pc = "idle"
    /\ configLock = None
    /\ configLock' = c
    /\ \E m \in Mutations :
          cmd' = [cmd EXCEPT ![c].pc = "locked", ![c].change = m]
    /\ UNCHANGED <<db, doc, material, cfg, lastReport, accepted, faults>>
    /\ UNCHANGED commandFrame

\* loadRawConfigFile, the migration of the scalar allowed_root, the mutation
\* and its validation. What neither changed nor migrated is not written.
ReadConfig(c) ==
    /\ cmd[c].pc = "locked"
    /\ LET new == Mutated([doc EXCEPT !.schema = "rich"], cmd[c].change)
       IN  IF new \in {doc, Refused}
           THEN Finish(c, IF new = doc THEN "unchanged" ELSE "refused")
           ELSE /\ cmd' = [cmd EXCEPT ![c].pc = "write", ![c].raw = new]
                /\ UNCHANGED <<configLock, lastReport, accepted>>
    /\ UNCHANGED <<db, doc, material, cfg, faults>>
    /\ UNCHANGED commandFrame

\* The original bytes are saved and the new file renamed over them. A
\* startup-only field ends here, without a reload.
WriteConfig(c) ==
    /\ cmd[c].pc = "write"
    /\ doc' = cmd[c].raw
    /\ IF cmd[c].change.field = "http"
       THEN Finish(c, "restart required")
       ELSE /\ cmd' = [cmd EXCEPT ![c].pc = "reload", ![c].original = doc]
            /\ UNCHANGED <<configLock, lastReport, accepted>>
    /\ UNCHANGED <<db, material, cfg, faults>>
    /\ UNCHANGED commandFrame

\* attemptReload against a serving daemon whose answer arrives.
ReloadAnswered(c) ==
    /\ cmd[c].pc = "reload"
    /\ phase = "serving"
    /\ Reload
    /\ IF Loadable(doc) THEN Finish(c, "applied") ELSE Continue(c, "rollback")
    /\ UNCHANGED <<doc, faults>>
    /\ UNCHANGED commandFrame

\* The transport fails while a daemon serves: it may or may not have reloaded.
ReloadLost(c) ==
    /\ cmd[c].pc \in {"reload", "resync"}
    /\ phase \in {"serving", "draining"}
    /\ Fault
    /\ Reload \/ UNCHANGED <<cfg, db, material>>
    /\ IF cmd[c].pc = "reload" THEN Continue(c, "rollback")
                               ELSE Finish(c, "rolled back, not reloaded")
    /\ UNCHANGED doc
    /\ UNCHANGED commandFrame

\* Connection refused or no socket: the daemon is not running.
ReloadNoDaemon(c) ==
    /\ cmd[c].pc \in {"reload", "resync"}
    /\ socket # "live"
    /\ Finish(c, IF cmd[c].pc = "reload" THEN "next start" ELSE "rolled back, not reloaded")
    /\ UNCHANGED <<db, doc, material, cfg, faults>>
    /\ UNCHANGED commandFrame

\* Mutant: the daemon is not told of the restored file.
MutRollbackConfig(c) ==
    /\ cmd[c].pc = "rollback"
    /\ doc' = cmd[c].original
    /\ Finish(c, "rolled back")
    /\ UNCHANGED <<db, material, cfg, faults>>
    /\ UNCHANGED commandFrame

\* The original bytes are written back.
RollbackConfig(c) ==
    /\ cmd[c].pc = "rollback"
    /\ doc' = cmd[c].original
    /\ Continue(c, "resync")
    /\ UNCHANGED <<db, material, cfg, faults>>
    /\ UNCHANGED commandFrame

\* The reload after the rollback brings the daemon back to the restored file.
ResyncAnswered(c) ==
    /\ cmd[c].pc = "resync"
    /\ phase = "serving"
    /\ Reload
    /\ Finish(c, IF Loadable(doc) THEN "rolled back" ELSE "rolled back, not reloaded")
    /\ UNCHANGED <<doc, faults>>
    /\ UNCHANGED commandFrame

\* The command is killed, or one of its two writes fails: the lock is released
\* with the file as it is.
CommandFails(c) ==
    /\ cmd[c].pc \notin {"idle", "done"}
    /\ Fault
    /\ Finish(c, "failed")
    /\ UNCHANGED <<db, doc, material, cfg>>
    /\ UNCHANGED commandFrame

-----------------------------------------------------------------------------
(* rotateAdminToken *)

rotationFrame == <<db, doc, material, socket, phase, cfg, offline, configLock,
                   cmd, lastReport, accepted, origin>>

\* requireAdminWithHash: the caller presented the current token.
AuthorizeRotation(r) ==
    /\ phase = "serving"
    /\ rot[r].pc = "idle"
    /\ mu = None
    /\ rot' = [rot EXCEPT ![r] = [pc |-> "authorized", auth |-> hash]]
    /\ UNCHANGED <<tokenFile, staging, hash, mu, faults>>
    /\ UNCHANGED rotationFrame

\* Mutant: the rotation does not look again at the token that authorised it.
MutStageToken(r) ==
    /\ phase \in {"serving", "draining"}
    /\ rot[r].pc = "authorized"
    /\ mu = None
    /\ rot' = [rot EXCEPT ![r].pc = "staged"]
    /\ staging' = r
    /\ mu' = r
    /\ UNCHANGED <<tokenFile, hash, faults>>
    /\ UNCHANGED rotationFrame

\* Under App.mu: a stale authorization is refused before the staging name is
\* touched; residue is removed and the new token staged and synced.
StageToken(r) ==
    /\ phase \in {"serving", "draining"}
    /\ rot[r].pc = "authorized"
    /\ mu = None
    /\ IF hash # rot[r].auth
       THEN /\ rot' = [rot EXCEPT ![r].pc = "refused"]
            /\ UNCHANGED <<staging, mu>>
       ELSE /\ rot' = [rot EXCEPT ![r].pc = "staged"]
            /\ staging' = r
            /\ mu' = r
    /\ UNCHANGED <<tokenFile, hash, faults>>
    /\ UNCHANGED rotationFrame

RenameToken(r) ==
    /\ rot[r].pc = "staged"
    /\ tokenFile' = staging
    /\ staging' = None
    /\ rot' = [rot EXCEPT ![r].pc = "renamed"]
    /\ UNCHANGED <<hash, mu, faults>>
    /\ UNCHANGED rotationFrame

PublishToken(r) ==
    /\ rot[r].pc = "renamed"
    /\ hash' = r
    /\ mu' = None
    /\ rot' = [rot EXCEPT ![r].pc = "ok"]
    /\ UNCHANGED <<tokenFile, staging, faults>>
    /\ UNCHANGED rotationFrame

\* Staging or renaming fails: the staging file is removed, nothing replaced.
RotationFails(r) ==
    /\ rot[r].pc = "staged"
    /\ Fault
    /\ staging' = None
    /\ mu' = None
    /\ rot' = [rot EXCEPT ![r].pc = "refused"]
    /\ UNCHANGED <<tokenFile, hash>>
    /\ UNCHANGED rotationFrame

-----------------------------------------------------------------------------
(* The offline command, and what may happen to the files in between         *)

otherThanOffline == <<doc, tokenFile, staging, material, socket, phase, cfg,
                      hash, configLock, cmd, lastReport, accepted, mu, rot, origin>>

\* docker-helper session cleanup: refused while a daemon holds the lock.
BeginOfflineCleanup ==
    /\ ~HoldsLock /\ ~offline /\ Fault
    /\ offline' = TRUE
    /\ UNCHANGED db
    /\ UNCHANGED otherThanOffline

FinishOfflineCleanup ==
    /\ offline
    /\ offline' = FALSE
    /\ db' = IF "sessions" \in db.tables THEN DeleteExpired(db) ELSE db
    /\ UNCHANGED faults
    /\ UNCHANGED otherThanOffline

\* External: entries of an issued snapshot are lost or altered on disk while
\* no daemon runs.
DamageSnapshot ==
    /\ phase = "down" /\ ~offline /\ Fault
    /\ \E s \in Sessions :
          /\ db.snapshot[s] = "issued"
          /\ db' = [db EXCEPT !.snapshot[s] = "damaged"]
    /\ UNCHANGED offline
    /\ UNCHANGED otherThanOffline

-----------------------------------------------------------------------------
Startup ==
    \/ Start \/ LoadConfig \/ AcquireInstanceLock \/ LoadAdminToken
    \/ CreateTables \/ InitializeSessions \/ MigrateCredentials
    \/ (\E t \in RootTables : MigrateAllowedRoots(t))
    \/ MigrateMACBoundaries \/ migrateSessionOwnership \/ migrateDefaultLaunchers
    \/ migrateSessionFilesystemSnapshots \/ ReconcileStoredRoots \/ ReconcileMAC
    \/ ExpireSessions \/ PrepareListeners

ConfigCommand(c) ==
    \/ LockConfig(c) \/ ReadConfig(c) \/ WriteConfig(c) \/ ReloadAnswered(c)
    \/ ReloadLost(c) \/ ReloadNoDaemon(c) \/ RollbackConfig(c)
    \/ ResyncAnswered(c) \/ CommandFails(c)

Rotation(r) ==
    \/ AuthorizeRotation(r) \/ StageToken(r) \/ RenameToken(r)
    \/ PublishToken(r) \/ RotationFails(r)

Next ==
    \/ Startup \/ StartupFails \/ BeginShutdown \/ FinishShutdown \/ Crash
    \/ OperatorReload
    \/ (\E c \in Commands : ConfigCommand(c))
    \/ (\E r \in Rotations : Rotation(r))
    \/ BeginOfflineCleanup \/ FinishOfflineCleanup \/ DamageSnapshot

Spec == Init /\ [][Next]_vars

-----------------------------------------------------------------------------
(* Properties *)

\* A stored root no command can take the ceiling from: "inner", which stays in
\* the configuration, and for a launcher only where its principal has stored
\* that root as well.
Lasting(d, t, r) ==
    /\ r.path = "inner"
    /\ t = "launcher_allowed_roots" =>
          "inner" \in RootsOf(PrincipalOf(r.owner), d.roots["principal_allowed_roots"])

\* Of the roots of a table in d the lasting ones are still there in e, and no
\* root of e has another owner or path, or an access it was not given.
RootsPreserved(d, e, t) ==
    /\ \A r \in d.roots[t] : Lasting(d, t, r) =>
          \E q \in e.roots[t] : q.owner = r.owner /\ q.path = r.path
    /\ \A q \in e.roots[t] : \E r \in d.roots[t] :
          /\ r.owner = q.owner /\ r.path = q.path
          /\ q.access = r.access \/ (r.access = "none" /\ q.access = "read_write")

\* Whatever the order of migrations, crashes and restarts (database.go,
\* ownership.go): a live session of a principal stays that principal's, a
\* launcher-owned one keeps its launcher, an ownerless one never gains an
\* owner; a stored root that every ceiling above it keeps covering is kept
\* (allowed_root_cascade.go), and no stored root changes its owner or gains an
\* access it was not given.
MigrationsPreserve ==
    /\ \A s \in Sessions \ Expired :
          LET was == origin.sessions[s]
              now == db.sessions[s]
          IN  CASE was \in Principals        -> PrincipalOf(now) = was
                [] was \in {NoOwner, Gone}   -> now \in {was, Gone}
                [] OTHER                     -> now = was
    /\ \A t \in RootTables : RootsPreserved(origin, db, t)

\* No stored root lies outside the ceiling, and no launcher's outside its
\* principal's stored roots.
Covered(d, ceiling) ==
    /\ \A t \in RootTables : \A r \in d.roots[t] : WithinAny(r.path, ceiling)
    /\ \A r \in d.roots["launcher_allowed_roots"] :
          WithinAny(r.path, RootsOf(PrincipalOf(r.owner), d.roots["principal_allowed_roots"]))

\* A daemon that answers requests runs on proven state (runDaemon): every
\* table final, every principal with its default launcher, every session with
\* an intact snapshot, no stored root outside the running ceiling and no
\* launcher's outside its principal's (effectiveLauncherAllowedRoots would
\* refuse that launcher), and its trusted-CA material complete.
ServesProvenState ==
    phase \in {"serving", "draining"} =>
        /\ db.tables = Tables /\ db.malformed = {}
        /\ classifySessionsSchema(db) = "final"
        /\ classifyCredentialsSchema(db) = "final"
        /\ db.columns["mac_boundaries"] = {"backend key", "kind"}
        /\ db.principals \subseteq db.defaults
        /\ SnapshotsIntact(db)
        /\ \A t \in RootTables : \A r \in db.roots[t] : r.access # "none"
        /\ Covered(db, Ceiling(cfg))
        /\ cfg.ca = "auto" => material = "complete"

\* After the cutover a lost snapshot is never made up again
\* (session_snapshot_store.go: "it is never backfilled or repaired").
SnapshotsNeverInvented ==
    \A s \in Sessions :
        db.snapshot[s] = "workspace" => "snapshots" \notin origin.tables

\* The admin token in memory is the one on disk whenever no rotation is under
\* way, and two rotations authorized by the same token never both succeed
\* (app.go rotateAdminToken).
AdminTokenCustody ==
    /\ phase \in {"serving", "draining"} /\ mu = None => hash = tokenFile
    /\ \A r, q \in Rotations :
          rot[r].pc = "ok" /\ rot[q].pc = "ok" /\ rot[r].auth = rot[q].auth => r = q

\* What a config command printed is true: a change it reported as made is in
\* the file until a later command changes that field, and after "applied" or
\* "config rolled back" the serving daemon runs the file's configuration
\* (config_cli.go executeConfigTransaction).
ConfigReportsTruthful ==
    configLock = None =>
        /\ \A f \in DOMAIN accepted : accepted[f] # None => doc[f] = accepted[f]
        /\ lastReport \in {"applied", "rolled back"} /\ phase = "serving" =>
              Runtime(cfg) = Runtime(doc)

\* Nothing that stands in the way of a start for good.
Servable ==
    /\ Loadable(doc)
    /\ db.malformed = {}
    /\ db.columns["sessions"] # {"principal_id", "launcher_id"}
    /\ OwnershipMigratable(db)
    /\ \A s \in Sessions : db.snapshot[s] # "damaged"

\* From any database a release or an interrupted start left behind (runDaemon):
\* a start ends without serving only for a fault of that moment, because the
\* offline command holds the lock, or for a reason that is still there. No
\* half-done migration, stale socket, staging residue or abandoned lock blocks
\* the starts that follow.
RefusedOnlyForCause ==
    [][phase \notin {"down", "serving", "draining"} /\ phase' = "down" /\ faults' = faults
         => offline \/ ~Servable]_vars
=============================================================================
