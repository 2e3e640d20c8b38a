----------------------- MODULE DaemonLifecycleProofs -----------------------
(***************************************************************************)
(* Custody of the admin token, truth of the config reports, preservation   *)
(* of rows by the migrations and the proof a daemon has of what it serves: *)
(* for every database a release left behind, every set of commands and     *)
(* rotations, and every number of crashes.                                 *)
(***************************************************************************)
EXTENDS DaemonLifecycle, TLAPS

Answering == {"serving", "draining"}

(* The steps after a migration, for each of them.                          *)
PastReconcile == {"mac", "expire", "listen"} \cup Answering
PastSnapshots == {"reconcile"} \cup PastReconcile
PastDefaults == {"snapshots"} \cup PastSnapshots
PastOwnership == {"defaults"} \cup PastDefaults
PastKind == {"ownership"} \cup PastOwnership
PastKey == {"mac_kind"} \cup PastKind
PastMACTable == {"mac_key"} \cup PastKey
PastLauncherRoots == {"mac_table"} \cup PastMACTable
PastPrincipalRoots == {"launcher_allowed_roots"} \cup PastLauncherRoots
PastCredentials == {"principal_allowed_roots"} \cup PastPrincipalRoots
PastSessions == {"credentials"} \cup PastCredentials
PastTables == {"sessions"} \cup PastSessions
PastToken == {"tables"} \cup PastTables
PastLock == {"token"} \cup PastToken
PastConfig == {"lock"} \cup PastLock
Phases == {"down", "config"} \cup PastConfig

-----------------------------------------------------------------------------
(* The inductive invariant *)

ProcessType ==
    /\ phase \in Phases
    /\ socket \in {"none", "stale", "live"}
    /\ offline \in BOOLEAN
    /\ faults \in Nat
    /\ doc \in Docs
    /\ phase \in PastConfig => cfg \in Docs

CommandType ==
    /\ configLock \in Commands \cup {None}
    /\ cmd \in [Commands -> [pc : {"idle", "locked", "write", "reload", "rollback",
                                   "resync", "done"},
                             change : Mutations \cup {None},
                             raw : Docs \cup {None}, original : Docs \cup {None}]]
    /\ DOMAIN accepted \subseteq Fields
    /\ accepted = [f \in DOMAIN accepted |-> accepted[f]]

RotationType ==
    /\ mu \in Rotations \cup {None}
    /\ rot \in [Rotations -> [pc : {"idle", "authorized", "staged", "renamed", "ok",
                                    "refused", "lost"},
                              auth : Rotations \cup {FirstToken, None}]]

TypeOK == ProcessType /\ CommandType /\ RotationType /\ WellFormed(db)

(* Replaced(r): the rename of r has been tried.                            *)
Replaced(r) == rot[r].pc \in {"renamed", "ok", "lost"}

(* One rotation at a time, and a token never comes back.                   *)
TokenOK ==
    /\ tokenFile \in Rotations \cup {FirstToken}
    /\ mu # None => phase \in Answering
    /\ \A r \in Rotations :
          /\ rot[r].pc \in {"staged", "renamed"} <=> mu = r
          /\ rot[r].pc = "authorized" => phase \in Answering
          /\ rot[r].pc = "staged" => staging = r /\ hash = rot[r].auth /\ tokenFile = hash
          /\ rot[r].pc = "renamed" => tokenFile = r /\ hash = rot[r].auth
          /\ r \in {tokenFile, hash} => Replaced(r)
          /\ rot[r].auth # r
    /\ phase \in PastToken /\ mu = None => hash = tokenFile
    /\ \A r, q \in Rotations :
          /\ rot[q].auth = r => Replaced(r)
          /\ rot[q].pc = "ok" => rot[q].auth \notin {tokenFile} \cup
                (IF phase \in PastToken THEN {hash} ELSE {})
          /\ rot[r].pc = "ok" /\ rot[q].pc = "ok" /\ rot[r].auth = rot[q].auth => r = q

(* The holder of config.json.lock is the only one under way.               *)
LockOK ==
    \A c \in Commands :
        /\ cmd[c].pc \notin {"idle", "done"} <=> configLock = c
        /\ configLock = c => cmd[c].change \in Mutations

SameBut(d, e, f) == \A g \in Fields \ {f} : d[g] = e[g]
Kept(d, acc) == \A f \in DOMAIN acc : acc[f] # None => d[f] = acc[f]

(* What was reported as made is in the file, or in the bytes to restore.   *)
ConfigOK ==
    /\ configLock = None => Kept(doc, accepted)
    /\ \A c \in Commands : LET x == cmd[c] IN
          /\ x.pc \in {"locked", "write", "resync"} => Kept(doc, accepted)
          /\ x.pc = "write" => x.raw \in Docs /\ SameBut(x.raw, doc, x.change.field)
          /\ x.pc \in {"reload", "rollback"} =>
                /\ x.raw = doc /\ x.original \in Docs
                /\ SameBut(doc, x.original, x.change.field) /\ Kept(x.original, accepted)
    /\ configLock = None /\ lastReport \in {"applied", "rolled back"} /\ phase \in PastConfig =>
          Runtime(cfg) = Runtime(doc)

(* The roots no command takes away stay in every copy of the document.     *)
InnerOK ==
    /\ doc["inner"] # "absent"
    /\ phase \in PastConfig => cfg["inner"] # "absent"
    /\ \A c \in Commands :
          /\ cmd[c].pc = "write" => cmd[c].raw["inner"] # "absent"
          /\ cmd[c].pc \in {"reload", "rollback"} => cmd[c].original["inner"] # "absent"

(* The instance lock, the socket and the trusted-CA directory.             *)
HostOK ==
    /\ offline => phase \notin PastLock
    /\ socket = "live" => phase = "serving"
    /\ phase \in PastConfig /\ cfg.ca = "auto" => material = "complete"

(* What each finished step of the startup established.                     *)
StepsOK ==
    /\ phase \in PastTables => InitialTables \subseteq db.tables
    /\ phase \in PastSessions =>
          /\ {"sessions", "launchers"} \cap db.malformed = {}
          /\ db.columns["sessions"] \in {{"principal_id"}, {"launcher_id"}}
    /\ phase \in PastCredentials =>
          "credentials" \notin db.malformed /\ db.columns["credentials"] = {"launcher_id"}
    /\ phase \in PastPrincipalRoots =>
          /\ "principal_allowed_roots" \notin db.malformed
          /\ db.columns["principal_allowed_roots"] = {"access"}
    /\ phase \in PastLauncherRoots =>
          /\ "launcher_allowed_roots" \notin db.malformed
          /\ db.columns["launcher_allowed_roots"] = {"access"}
    /\ phase \in PastMACTable => "mac_boundaries" \in db.tables
    /\ phase \in PastKey => "backend key" \in db.columns["mac_boundaries"]
    /\ phase \in PastKind => db.columns["mac_boundaries"] = {"backend key", "kind"}
    /\ phase \in PastOwnership => db.columns["sessions"] = {"launcher_id"}
    /\ phase \in PastDefaults => db.principals \subseteq db.defaults
    /\ phase \in PastSnapshots =>
          "snapshots" \in db.tables /\ "snapshots" \notin db.malformed /\ SnapshotsIntact(db)
    /\ phase \in PastReconcile => Covered(db, Ceiling(cfg))

(* What became of the database of the first start.                         *)
OriginOK ==
    /\ WellFormed(origin)
    /\ "snapshots" \in origin.tables => "snapshots" \in db.tables
    /\ SnapshotsNeverInvented
    /\ MigrationsPreserve

DaemonInv ==
    /\ TypeOK /\ TokenOK /\ LockOK /\ ConfigOK /\ InnerOK /\ HostOK /\ StepsOK /\ OriginOK

-----------------------------------------------------------------------------
(* What every step does to the phase, the token, the commands, the database *)

(* The order of the steps of runDaemon.                                    *)
LEMMA StepOrder ==
    /\ StepAfter["config"] = "lock" /\ StepAfter["lock"] = "token"
    /\ StepAfter["token"] = "tables" /\ StepAfter["tables"] = "sessions"
    /\ StepAfter["sessions"] = "credentials"
    /\ StepAfter["credentials"] = "principal_allowed_roots"
    /\ StepAfter["principal_allowed_roots"] = "launcher_allowed_roots"
    /\ StepAfter["launcher_allowed_roots"] = "mac_table"
    /\ StepAfter["mac_table"] = "mac_key" /\ StepAfter["mac_key"] = "mac_kind"
    /\ StepAfter["mac_kind"] = "ownership" /\ StepAfter["ownership"] = "defaults"
    /\ StepAfter["defaults"] = "snapshots" /\ StepAfter["snapshots"] = "reconcile"
    /\ StepAfter["reconcile"] = "mac" /\ StepAfter["mac"] = "expire"
    /\ StepAfter["expire"] = "listen" /\ StepAfter["listen"] = "serving"
  BY DEF StepAfter

(* Where each phase is, in the order of the startup.                       *)
LEMMA Places ==
    \A p :
        /\ p \in Answering <=> p \in {"serving", "draining"}
        /\ p \in PastReconcile <=> p \in {"mac", "expire", "listen"} \/ p \in Answering
        /\ p \in PastSnapshots <=> p = "reconcile" \/ p \in PastReconcile
        /\ p \in PastDefaults <=> p = "snapshots" \/ p \in PastSnapshots
        /\ p \in PastOwnership <=> p = "defaults" \/ p \in PastDefaults
        /\ p \in PastKind <=> p = "ownership" \/ p \in PastOwnership
        /\ p \in PastKey <=> p = "mac_kind" \/ p \in PastKind
        /\ p \in PastMACTable <=> p = "mac_key" \/ p \in PastKey
        /\ p \in PastLauncherRoots <=> p = "mac_table" \/ p \in PastMACTable
        /\ p \in PastPrincipalRoots <=> p = "launcher_allowed_roots" \/ p \in PastLauncherRoots
        /\ p \in PastCredentials <=> p = "principal_allowed_roots" \/ p \in PastPrincipalRoots
        /\ p \in PastSessions <=> p = "credentials" \/ p \in PastCredentials
        /\ p \in PastTables <=> p = "sessions" \/ p \in PastSessions
        /\ p \in PastToken <=> p = "tables" \/ p \in PastTables
        /\ p \in PastLock <=> p = "token" \/ p \in PastToken
        /\ p \in PastConfig <=> p = "lock" \/ p \in PastLock
        /\ p \in Phases <=> p \in {"down", "config"} \/ p \in PastConfig
  BY DEF Answering, PastReconcile, PastSnapshots, PastDefaults, PastOwnership, PastKind,
     PastKey,
     PastMACTable, PastLauncherRoots, PastPrincipalRoots, PastCredentials, PastSessions,
     PastTables, PastToken, PastLock, PastConfig, Phases

(* The token, its staging file and the requests about it stay as they are. *)
Quiet == UNCHANGED <<tokenFile, staging, hash, mu, rot>>

Onward ==
    /\ phase' \in PastToken => phase \in PastToken
    /\ phase \in Answering => phase' \in Answering

(* A step concerns the token by ending the daemon, loading the token or    *)
(* rotating it, or not at all.                                             *)
LEMMA TokenFrame ==
    ASSUME TypeOK, [Next]_vars
    PROVE  \/ Quiet /\ Onward
           \/ Exit /\ UNCHANGED <<tokenFile, staging>>
           \/ LoadAdminToken
           \/ \E r \in Rotations : Rotation(r)
<1> DEFINE Goal == \/ Quiet /\ Onward
                   \/ Exit /\ UNCHANGED <<tokenFile, staging>>
                   \/ LoadAdminToken
                   \/ \E r \in Rotations : Rotation(r)
<1> SUFFICES Goal
  OBVIOUS
<1>1. CASE Start
  BY <1>1, StepOrder, Places DEF Start, Quiet, Onward
<1>2. CASE LoadConfig
  BY <1>2, StepOrder, Places DEF LoadConfig, Exit, PrepareCA, Quiet, Onward
<1>3. CASE AcquireInstanceLock
  BY <1>3, StepOrder, Places DEF AcquireInstanceLock, Exit, Proceed, Quiet, Onward
<1>4. CASE LoadAdminToken
  BY <1>4
<1>5. CASE CreateTables
  BY <1>5, StepOrder, Places DEF CreateTables, Proceed, Quiet, Onward
<1>6. CASE InitializeSessions
  BY <1>6, StepOrder, Places
  DEF InitializeSessions, StartupStep, Proceed, Exit, Quiet, Onward
<1>7. CASE MigrateCredentials
  BY <1>7, StepOrder, Places
  DEF MigrateCredentials, StartupStep, Proceed, Exit, Quiet, Onward
<1>8. ASSUME NEW t \in RootTables, MigrateAllowedRoots(t) PROVE Goal
  BY <1>8, StepOrder, Places
  DEF MigrateAllowedRoots, StartupStep, Proceed, Exit, RootTables, Quiet, Onward
<1>9. CASE MigrateMACBoundaries
  BY <1>9, StepOrder, Places
  DEF MigrateMACBoundaries, StartupStep, Proceed, Exit, Quiet, Onward
<1>10. CASE migrateSessionOwnership
  BY <1>10, StepOrder, Places
  DEF migrateSessionOwnership, StartupStep, Proceed, Exit, Quiet, Onward
<1>11. CASE migrateDefaultLaunchers
  BY <1>11, StepOrder, Places DEF migrateDefaultLaunchers, Proceed, Quiet, Onward
<1>12. CASE migrateSessionFilesystemSnapshots
  BY <1>12, StepOrder, Places
  DEF migrateSessionFilesystemSnapshots, StartupStep, Proceed, Exit, Quiet, Onward
<1>13. CASE ReconcileStoredRoots
  BY <1>13, StepOrder, Places
  DEF ReconcileStoredRoots, StartupStep, Proceed, Exit, Quiet, Onward
<1>14. CASE ReconcileMAC
  BY <1>14, StepOrder, Places DEF ReconcileMAC, StartupStep, Proceed, Exit, Quiet, Onward
<1>15. CASE ExpireSessions
  BY <1>15, StepOrder, Places
  DEF ExpireSessions, StartupStep, Proceed, Exit, Quiet, Onward
<1>16. CASE PrepareListeners
  BY <1>16, StepOrder, Places DEF PrepareListeners, Proceed, Exit, Quiet, Onward
<1>17. CASE StartupFails
  BY <1>17 DEF StartupFails
<1>18. CASE BeginShutdown
  BY <1>18, StepOrder, Places DEF BeginShutdown, Quiet, Onward
<1>19. CASE FinishShutdown
  BY <1>19 DEF FinishShutdown
<1>20. CASE Crash
  BY <1>20 DEF Crash
<1>21. CASE OperatorReload
  BY <1>21, StepOrder, Places DEF OperatorReload, Reload, Quiet, Onward
<1>22. ASSUME NEW c \in Commands, ConfigCommand(c) PROVE Goal
  BY <1>22
  DEF ConfigCommand, LockConfig, ReadConfig, WriteConfig, ReloadAnswered, ReloadLost,
      ReloadNoDaemon, RollbackConfig, ResyncAnswered, CommandFails, commandFrame, Quiet,
      Onward
<1>23. ASSUME NEW r \in Rotations, Rotation(r) PROVE Goal
  BY <1>23
<1>24. CASE BeginOfflineCleanup
  BY <1>24, StepOrder, Places DEF BeginOfflineCleanup, otherThanOffline, Quiet, Onward
<1>25. CASE FinishOfflineCleanup
  BY <1>25, StepOrder, Places DEF FinishOfflineCleanup, otherThanOffline, Quiet, Onward
<1>26. CASE DamageSnapshot
  BY <1>26, StepOrder, Places DEF DamageSnapshot, otherThanOffline, Quiet, Onward
<1>27. CASE UNCHANGED vars
  BY <1>27, StepOrder, Places DEF vars, Quiet, Onward
<1>28. QED
  BY <1>1, <1>2, <1>3, <1>4, <1>5, <1>6, <1>7, <1>8, <1>9, <1>10, <1>11, <1>12, <1>13,
     <1>14, <1>15, <1>16, <1>17, <1>18, <1>19, <1>20, <1>21, <1>22, <1>23, <1>24, <1>25,
     <1>26, <1>27
  DEF Next, Startup

(* The requests under way end with the process; the token file stays.      *)
LEMMA StepTokenOK ==
    ASSUME DaemonInv, [Next]_vars
    PROVE  TokenOK'
<1>1. RotationType /\ ProcessType /\ TokenOK
  BY DEF DaemonInv, TypeOK
<1>2. CASE Quiet /\ Onward
  BY <1>1, <1>2 DEF TokenOK, Quiet, Onward, Replaced, Answering, RotationType
<1>3. CASE Exit /\ UNCHANGED <<tokenFile, staging>>
  <2>1. /\ phase' = "down" /\ mu' = None /\ hash' = None /\ tokenFile' = tokenFile
        /\ \A r \in Rotations :
              /\ rot'[r].auth = rot[r].auth
              /\ rot[r].pc \in {"idle", "ok", "refused"} => rot'[r].pc = rot[r].pc
              /\ rot[r].pc \notin {"idle", "ok", "refused"} => rot'[r].pc = "lost"
    BY <1>1, <1>3 DEF Exit, RotationType
  <2>2. "down" \notin PastToken
    BY Places
  <2>3. \A r \in Rotations : Replaced(r) => Replaced(r)'
    BY <2>1 DEF Replaced
  <2>4. QED
    BY <1>1, <2>1, <2>2, <2>3, NameAssumption DEF TokenOK
<1>4. CASE LoadAdminToken
  <2>1. /\ phase' = "tables" /\ hash' = tokenFile /\ mu = None
        /\ UNCHANGED <<tokenFile, staging, mu, rot>>
    BY <1>1, <1>4, StepOrder DEF LoadAdminToken, TokenOK, Answering
  <2>2. \A r \in Rotations : Replaced(r)' <=> Replaced(r)
    BY <2>1 DEF Replaced
  <2>3. \A r \in Rotations : rot[r].pc \notin {"authorized", "staged", "renamed"}
    BY <1>1, <1>4, <2>1, NameAssumption DEF TokenOK, Answering, LoadAdminToken
  <2>4. QED
    BY <1>1, <2>1, <2>2, <2>3, NameAssumption DEF TokenOK
<1>5. ASSUME NEW q \in Rotations, AuthorizeRotation(q) PROVE TokenOK'
  <2>1. /\ phase = "serving" /\ mu = None /\ hash = tokenFile
        /\ UNCHANGED <<tokenFile, staging, hash, mu, phase>>
    BY <1>1, <1>5, Places DEF AuthorizeRotation, rotationFrame, TokenOK
  <2>2. /\ rot[q].pc = "idle" /\ rot'[q].pc = "authorized" /\ rot'[q].auth = hash
        /\ \A r \in Rotations \ {q} : rot'[r] = rot[r]
    BY <1>1, <1>5 DEF AuthorizeRotation, RotationType
  <2>3. \A r \in Rotations : Replaced(r)' <=> Replaced(r)
    BY <2>2 DEF Replaced
  <2>4. hash # q
    BY <1>1, <2>2 DEF TokenOK, Replaced
  <2>5. QED
    BY <1>1, <2>1, <2>2, <2>3, <2>4, NameAssumption DEF TokenOK, Answering
<1>6. ASSUME NEW q \in Rotations, StageToken(q) PROVE TokenOK'
  <2>1. /\ phase \in Answering /\ mu = None /\ hash = tokenFile
        /\ UNCHANGED <<tokenFile, hash, phase>>
    BY <1>1, <1>6, Places DEF StageToken, rotationFrame, TokenOK
  <2>2. /\ rot[q].pc = "authorized" /\ rot'[q].auth = rot[q].auth
        /\ \A r \in Rotations \ {q} : rot'[r] = rot[r]
        /\ \/ rot'[q].pc = "refused" /\ mu' = None
           \/ rot'[q].pc = "staged" /\ staging' = q /\ mu' = q /\ hash = rot[q].auth
    BY <1>1, <1>6, <2>1 DEF StageToken, RotationType
  <2>3. \A r \in Rotations : Replaced(r)' <=> Replaced(r)
    BY <2>2 DEF Replaced
  <2>4. QED
    BY <1>1, <2>1, <2>2, <2>3, NameAssumption DEF TokenOK
<1>7. ASSUME NEW q \in Rotations, RenameToken(q) PROVE TokenOK'
  <2>1. /\ mu = q /\ staging = q /\ tokenFile' = q /\ hash = rot[q].auth
        /\ UNCHANGED <<hash, mu, phase>>
    BY <1>1, <1>7 DEF RenameToken, rotationFrame, TokenOK
  <2>2. /\ rot[q].pc = "staged" /\ rot'[q].auth = rot[q].auth /\ rot'[q].pc = "renamed"
        /\ \A r \in Rotations \ {q} : rot'[r] = rot[r]
    BY <1>1, <1>7 DEF RenameToken, RotationType
  <2>3. \A r \in Rotations : Replaced(r)' <=> (Replaced(r) \/ r = q)
    BY <2>2 DEF Replaced
  <2>4. \A r \in Rotations : rot[r].auth # q
    BY <1>1, <2>2 DEF TokenOK, Replaced
  <2>5. QED
    BY <1>1, <2>1, <2>2, <2>3, <2>4, NameAssumption DEF TokenOK
<1>8. ASSUME NEW q \in Rotations, PublishToken(q) PROVE TokenOK'
  <2>1. /\ mu = q /\ tokenFile = q /\ hash = rot[q].auth /\ hash' = q /\ mu' = None
        /\ UNCHANGED <<tokenFile, staging, phase>>
    BY <1>1, <1>8 DEF PublishToken, rotationFrame, TokenOK
  <2>2. /\ rot[q].pc = "renamed" /\ rot'[q].auth = rot[q].auth /\ rot'[q].pc = "ok"
        /\ \A r \in Rotations \ {q} : rot'[r] = rot[r]
    BY <1>1, <1>8 DEF PublishToken, RotationType
  <2>3. \A r \in Rotations : Replaced(r)' <=> Replaced(r)
    BY <2>2 DEF Replaced
  <2>4. phase \in PastToken /\ rot[q].auth # q
    BY <1>1, <2>1, NameAssumption, Places DEF TokenOK
  <2>5. QED
    BY <1>1, <2>1, <2>2, <2>3, <2>4, NameAssumption DEF TokenOK
<1>9. ASSUME NEW q \in Rotations, RotationFails(q) PROVE TokenOK'
  <2>1. /\ mu = q /\ tokenFile = hash /\ mu' = None
        /\ UNCHANGED <<tokenFile, hash, phase>>
    BY <1>1, <1>9 DEF RotationFails, rotationFrame, TokenOK
  <2>2. /\ rot[q].pc = "staged" /\ rot'[q].auth = rot[q].auth /\ rot'[q].pc = "refused"
        /\ \A r \in Rotations \ {q} : rot'[r] = rot[r]
    BY <1>1, <1>9 DEF RotationFails, RotationType
  <2>3. \A r \in Rotations : Replaced(r)' <=> Replaced(r)
    BY <2>2 DEF Replaced
  <2>4. QED
    BY <1>1, <2>1, <2>2, <2>3, NameAssumption DEF TokenOK
<1>10. QED
  BY <1>2, <1>3, <1>4, <1>5, <1>6, <1>7, <1>8, <1>9, TokenFrame DEF Rotation, DaemonInv

-----------------------------------------------------------------------------
(* A reload publishes the document, prunes the stored roots and prepares   *)
(* the trusted CA, or does none of these.                                  *)
Published ==
    /\ cfg' \in Docs /\ Runtime(cfg') = Runtime(doc)
    /\ cfg'["inner"] = doc["inner"] /\ cfg'.ca = doc.ca /\ Ceiling(cfg') = Ceiling(doc)
    /\ doc.ca = "auto" => material' = "complete"

(* A reload is refused and changes nothing, or publishes the file and      *)
(* prunes the stored roots.                                                *)
LEMMA ReloadKinds ==
    ASSUME doc \in Docs, cfg \in Docs, Reload
    PROVE  \/ UNCHANGED <<cfg, db, material>> /\ ~Loadable(doc)
           \/ Published /\ db' = PruneRoots(db, Ceiling(doc)) /\ Loadable(doc)
<1>1. CASE Loadable(doc)
  <2>1. cfg' = [doc EXCEPT !.http = cfg.http] /\ db' = PruneRoots(db, Ceiling(doc))
    BY <1>1 DEF Reload
  <2>2. cfg["http"] \in Settings
    BY DEF Docs, Fields
  <2>3. cfg' \in Docs
    BY <2>1, <2>2 DEF Docs, Fields
  <2>4. /\ cfg'["inner"] = doc["inner"] /\ cfg'["outer"] = doc["outer"] /\ cfg'.ca = doc.ca
        /\ cfg'.inner = doc.inner /\ cfg'.outer = doc.outer
    BY <2>1 DEF Docs, Fields
  <2>5. Ceiling(cfg') = Ceiling(doc)
    BY <2>4 DEF Ceiling, Paths
  <2>6. QED
    BY <1>1, <2>1, <2>3, <2>4, <2>5 DEF Reload, Published, Runtime, PrepareCA
<1>2. CASE ~Loadable(doc)
  BY <1>2 DEF Reload
<1>3. QED
  BY <1>1, <1>2

(* Whatever is not a command leaves the file and the commands alone.       *)
Calm == UNCHANGED <<doc, configLock, cmd, lastReport, accepted>>

Current ==
    phase' \in PastConfig =>
        \/ phase \in PastConfig /\ UNCHANGED cfg
        \/ cfg' \in Docs /\ Runtime(cfg') = Runtime(doc) /\ cfg'["inner"] = doc["inner"]

(* A step either is one of a config command or leaves the commands and the *)
(* file alone.                                                             *)
LEMMA ConfigFrame ==
    ASSUME TypeOK, [Next]_vars
    PROVE  (Calm /\ Current) \/ \E c \in Commands : ConfigCommand(c)
<1> DEFINE Goal == (Calm /\ Current) \/ \E c \in Commands : ConfigCommand(c)
<1> SUFFICES Goal
  OBVIOUS
<1>1. CASE Start
  BY <1>1, Places DEF Start, Calm, Current
<1>2. CASE LoadConfig
  BY <1>2, Places DEF LoadConfig, Exit, Calm, Current, TypeOK, ProcessType
<1>3. CASE AcquireInstanceLock
  BY <1>3, Places DEF AcquireInstanceLock, Exit, Proceed, Calm, Current
<1>4. CASE LoadAdminToken
  BY <1>4, Places DEF LoadAdminToken, Calm, Current
<1>5. CASE CreateTables
  BY <1>5, Places DEF CreateTables, Proceed, Calm, Current
<1>6. CASE InitializeSessions
  BY <1>6, Places DEF InitializeSessions, StartupStep, Proceed, Exit, Calm, Current
<1>7. CASE MigrateCredentials
  BY <1>7, Places DEF MigrateCredentials, StartupStep, Proceed, Exit, Calm, Current
<1>8. ASSUME NEW t \in RootTables, MigrateAllowedRoots(t) PROVE Goal
  BY <1>8, Places
  DEF MigrateAllowedRoots, StartupStep, Proceed, Exit, RootTables, Calm, Current
<1>9. CASE MigrateMACBoundaries
  BY <1>9, Places DEF MigrateMACBoundaries, StartupStep, Proceed, Exit, Calm, Current
<1>10. CASE migrateSessionOwnership
  BY <1>10, Places DEF migrateSessionOwnership, StartupStep, Proceed, Exit, Calm, Current
<1>11. CASE migrateDefaultLaunchers
  BY <1>11, Places DEF migrateDefaultLaunchers, Proceed, Calm, Current
<1>12. CASE migrateSessionFilesystemSnapshots
  BY <1>12, Places
  DEF migrateSessionFilesystemSnapshots, StartupStep, Proceed, Exit, Calm, Current
<1>13. CASE ReconcileStoredRoots
  BY <1>13, Places DEF ReconcileStoredRoots, StartupStep, Proceed, Exit, Calm, Current
<1>14. CASE ReconcileMAC
  BY <1>14, Places DEF ReconcileMAC, StartupStep, Proceed, Exit, Calm, Current
<1>15. CASE ExpireSessions
  BY <1>15, Places DEF ExpireSessions, StartupStep, Proceed, Exit, Calm, Current
<1>16. CASE PrepareListeners
  BY <1>16, Places DEF PrepareListeners, Proceed, Exit, Calm, Current
<1>17. CASE StartupFails
  BY <1>17, Places DEF StartupFails, Exit, Calm, Current
<1>18. CASE BeginShutdown
  BY <1>18, Places DEF BeginShutdown, Calm, Current
<1>19. CASE FinishShutdown
  BY <1>19, Places DEF FinishShutdown, Exit, Calm, Current
<1>20. CASE Crash
  BY <1>20, Places DEF Crash, Exit, Calm, Current
<1>21. CASE OperatorReload
  <2>1. phase \in PastConfig
    BY <1>21, Places DEF OperatorReload
  <2>2. Published \/ UNCHANGED cfg
    BY <1>21, <2>1, ReloadKinds DEF OperatorReload, TypeOK, ProcessType
  <2>3. QED
    BY <1>21, <2>1, <2>2 DEF OperatorReload, Published, Calm, Current
<1>22. ASSUME NEW c \in Commands, ConfigCommand(c) PROVE Goal
  BY <1>22
<1>23. ASSUME NEW r \in Rotations, Rotation(r) PROVE Goal
  BY <1>23
  DEF Rotation, AuthorizeRotation, StageToken, RenameToken, PublishToken, RotationFails,
      rotationFrame, Calm, Current
<1>24. CASE BeginOfflineCleanup
  BY <1>24, Places DEF BeginOfflineCleanup, otherThanOffline, Calm, Current
<1>25. CASE FinishOfflineCleanup
  BY <1>25, Places DEF FinishOfflineCleanup, otherThanOffline, Calm, Current
<1>26. CASE DamageSnapshot
  BY <1>26, Places DEF DamageSnapshot, otherThanOffline, Calm, Current
<1>27. CASE UNCHANGED vars
  BY <1>27, Places DEF vars, Calm, Current
<1>28. QED
  BY <1>1, <1>2, <1>3, <1>4, <1>5, <1>6, <1>7, <1>8, <1>9, <1>10, <1>11, <1>12, <1>13,
     <1>14, <1>15, <1>16, <1>17, <1>18, <1>19, <1>20, <1>21, <1>22, <1>23, <1>24, <1>25,
     <1>26, <1>27
  DEF Next, Startup

(* A mutation yields a document that differs in its own field only.        *)
LEMMA MutatedDoc ==
    ASSUME NEW d \in Docs, NEW m \in Mutations,
           Mutated([d EXCEPT !.schema = "rich"], m) # Refused
    PROVE  LET new == Mutated([d EXCEPT !.schema = "rich"], m)
           IN  /\ new \in Docs /\ SameBut(new, d, m.field)
               /\ d["inner"] # "absent" => new["inner"] # "absent"
<1> DEFINE rich == [d EXCEPT !.schema = "rich"]
<1>1. m.field \in Fields /\ m.value \in Settings
  BY MutationAssumption
<1>2. /\ rich \in Docs /\ \A g \in Fields : rich[g] = d[g]
  BY DEF Docs, Fields, Settings
<1>3. ASSUME NEW v \in Settings, m.field = "inner" => v # "absent"
      PROVE  LET new == [rich EXCEPT ![m.field] = v]
             IN  /\ new \in Docs /\ SameBut(new, d, m.field)
                 /\ d["inner"] # "absent" => new["inner"] # "absent"
  <2>1. [rich EXCEPT ![m.field] = v] \in Docs
    BY <1>2, <1>1 DEF Docs
  <2>2. \A g \in Fields : [rich EXCEPT ![m.field] = v][g] = IF g = m.field THEN v ELSE d[g]
    BY <1>1, <1>2 DEF Docs
  <2>3. QED
    BY <1>3, <2>1, <2>2 DEF SameBut, Fields
<1>4. SameBut(rich, d, m.field) /\ (d["inner"] # "absent" => rich["inner"] # "absent")
  BY <1>2 DEF SameBut, Fields
<1>5. m.op \in {"set", "unset", "add", "set-access", "remove"}
  BY MutationAssumption
<1>6. CASE m.op = "set"
  <2>1. Mutated(rich, m) = [rich EXCEPT ![m.field] = m.value]
    BY <1>6 DEF Mutated, configSet
  <2>2. QED
    BY <2>1, <1>1, <1>3, MutationAssumption
<1>7. CASE m.op = "unset"
  <2>1. Mutated(rich, m) = [rich EXCEPT ![m.field] = "unset"]
    BY <1>7 DEF Mutated, configUnset
  <2>2. m.field # "inner" /\ "unset" \in Settings
    BY <1>7, MutationAssumption DEF Settings
  <2>3. QED
    BY <2>1, <2>2, <1>3
<1>8. CASE m.op = "add"
  <2>1. Mutated(rich, m) \in {rich, [rich EXCEPT ![m.field] = m.value]}
    BY <1>8 DEF Mutated, addAllowedRootToConfig, configSet
  <2>2. QED
    BY <2>1, <1>1, <1>2, <1>3, <1>4, MutationAssumption
<1>9. CASE m.op = "set-access"
  <2>1. Mutated(rich, m) \in {Refused, [rich EXCEPT ![m.field] = m.value]}
    BY <1>9 DEF Mutated, configAllowedRootSetAccess, configSet
  <2>2. QED
    BY <2>1, <1>1, <1>3, MutationAssumption
<1>10. CASE m.op = "remove"
  <2>1. Mutated(rich, m) \in {Refused, [rich EXCEPT ![m.field] = "absent"]}
    BY <1>10 DEF Mutated, configAllowedRootRemove
  <2>2. m.field # "inner" /\ "absent" \in Settings
    BY <1>10, MutationAssumption DEF Settings
  <2>3. QED
    BY <2>1, <2>2, <1>3
<1>11. QED
  BY <1>5, <1>6, <1>7, <1>8, <1>9, <1>10

(* The holder of the lock is alone; when it finishes, what it reports as   *)
(* made enters the history, and what may have been made half leaves it.    *)
LEMMA Finished ==
    ASSUME CommandType, LockOK, NEW c \in Commands, configLock = c, NEW report, Finish(c, report)
    PROVE  /\ CommandType' /\ LockOK' /\ configLock' = None /\ lastReport' = report
           /\ \A e \in Commands : cmd'[e].pc \in {"idle", "done"}
           /\ report \notin Success \cup {"failed"} => accepted' = accepted
           /\ report \in Success \cup {"failed"} =>
                 \A d, e :
                    (/\ Kept(e, accepted) /\ SameBut(d, e, cmd[c].change.field)
                     /\ \/ d[cmd[c].change.field] = cmd[c].raw[cmd[c].change.field]
                        \/ report = "failed") => Kept(d, accepted')
<1> DEFINE f == cmd[c].change.field
<1>1. cmd[c].change \in Mutations /\ f \in Fields
  BY MutationAssumption DEF LockOK
<1>2. /\ cmd'[c] = [Idle EXCEPT !.pc = "done"]
      /\ \A e \in Commands \ {c} : cmd'[e] = cmd[e]
  BY DEF Finish, CommandType
<1>3. \A e \in Commands \ {c} : cmd[e].pc \in {"idle", "done"}
  BY DEF LockOK
<1>4. DOMAIN accepted' = DOMAIN accepted /\ accepted' = [g \in DOMAIN accepted' |-> accepted'[g]]
  BY DEF Finish, CommandType
<1>5. CommandType'
  <2>1. [Idle EXCEPT !.pc = "done"] \in
          [pc : {"idle", "locked", "write", "reload", "rollback", "resync", "done"},
           change : Mutations \cup {None},
           raw : Docs \cup {None}, original : Docs \cup {None}]
    BY DEF Idle
  <2>2. QED
    BY <1>4, <2>1 DEF CommandType, Finish
<1>6. cmd'[c].pc = "done" /\ configLock' = None
  BY <1>2 DEF Idle, Finish
<1>7. LockOK'
  BY <1>2, <1>3, <1>6, NameAssumption DEF LockOK
<1>8. ASSUME NEW d, NEW e, Kept(e, accepted), SameBut(d, e, f), report \in Success \cup {"failed"},
             d[f] = cmd[c].raw[f] \/ report = "failed"
      PROVE  Kept(d, accepted')
  <2>1. \A g \in DOMAIN accepted \ {f} : accepted'[g] = accepted[g]
    BY <1>8 DEF Finish, CommandType
  <2>2. f \in DOMAIN accepted =>
          accepted'[f] = IF report = "failed" THEN None ELSE cmd[c].raw[f]
    BY <1>8 DEF Finish, CommandType
  <2>3. QED
    BY <1>4, <1>8, <2>1, <2>2 DEF Kept, SameBut, CommandType
<1>9. QED
  BY <1>2, <1>3, <1>5, <1>6, <1>7, <1>8 DEF Finish

Midway == {"locked", "write", "reload", "rollback", "resync"}

(* A config command that goes on keeps its lock and what it has read.      *)
LEMMA Continued ==
    ASSUME CommandType, LockOK, NEW c \in Commands, configLock = c, NEW p \in Midway, Continue(c, p)
    PROVE  /\ CommandType' /\ LockOK' /\ configLock' = c /\ accepted' = accepted
           /\ cmd'[c].pc = p /\ cmd'[c].change = cmd[c].change
           /\ cmd'[c].raw = cmd[c].raw /\ cmd'[c].original = cmd[c].original
           /\ \A e \in Commands \ {c} : cmd'[e].pc \in {"idle", "done"}
<1>1. /\ cmd'[c] = [cmd[c] EXCEPT !.pc = p]
      /\ \A e \in Commands \ {c} : cmd'[e] = cmd[e]
  BY DEF Continue, CommandType
<1>2. CommandType'
  BY DEF Continue, CommandType, Midway
<1>3. \A e \in Commands \ {c} : cmd[e].pc \in {"idle", "done"}
  BY DEF LockOK
<1>4. /\ cmd'[c].pc = p /\ cmd'[c].change = cmd[c].change
      /\ cmd'[c].raw = cmd[c].raw /\ cmd'[c].original = cmd[c].original
  BY <1>1 DEF CommandType
<1>5. QED
  BY <1>1, <1>2, <1>3, <1>4 DEF LockOK, Continue, Midway

(* Once a command is done nothing is owed but the last report.             *)
LEMMA Settles ==
    ASSUME configLock' = None, Kept(doc, accepted)', doc'["inner"] # "absent",
           phase' \in PastConfig => cfg'["inner"] # "absent",
           \A e \in Commands : cmd'[e].pc \in {"idle", "done"},
           lastReport' \in {"applied", "rolled back"} /\ phase' \in PastConfig =>
               Runtime(cfg') = Runtime(doc')
    PROVE  ConfigOK' /\ InnerOK'
<1>1. ConfigOK'
  BY DEF ConfigOK
<1>2. InnerOK'
  BY DEF InnerOK
<1>3. QED
  BY <1>1, <1>2

(* Every step of a config command keeps what was reported in the file or   *)
(* in the bytes to restore.                                                *)
LEMMA StepCommand ==
    ASSUME DaemonInv, NEW c \in Commands, ConfigCommand(c)
    PROVE  CommandType' /\ LockOK' /\ ConfigOK' /\ InnerOK'
<1>1. CommandType /\ ProcessType /\ LockOK /\ ConfigOK /\ InnerOK
  BY DEF DaemonInv, TypeOK
<1>2. UNCHANGED phase
  BY DEF ConfigCommand, LockConfig, ReadConfig, WriteConfig, ReloadAnswered, ReloadLost,
     ReloadNoDaemon, RollbackConfig, ResyncAnswered, CommandFails, commandFrame
<1>3. CASE LockConfig(c)
  <2>1. PICK m \in Mutations : cmd' = [cmd EXCEPT ![c].pc = "locked", ![c].change = m]
    BY <1>3 DEF LockConfig
  <2>2. /\ configLock = None /\ configLock' = c /\ UNCHANGED <<doc, accepted, cfg>>
    BY <1>3 DEF LockConfig
  <2>3. cmd'[c].pc = "locked" /\ cmd'[c].change = m
    BY <1>1, <2>1 DEF CommandType
  <2>4. \A e \in Commands \ {c} : cmd'[e] = cmd[e]
    BY <1>1, <2>1 DEF CommandType
  <2>5. \A e \in Commands : cmd[e].pc \in {"idle", "done"}
    BY <1>1, <2>2, NameAssumption DEF LockOK
  <2>6. CommandType'
    BY <1>1, <2>1, <2>2 DEF CommandType
  <2>7. LockOK'
    BY <2>2, <2>3, <2>4, <2>5 DEF LockOK
  <2>8. ConfigOK' /\ InnerOK'
    BY <1>1, <1>2, <2>2, <2>3, <2>4, <2>5, NameAssumption DEF ConfigOK, InnerOK
  <2>9. QED
    BY <2>6, <2>7, <2>8
<1>4. CASE ReadConfig(c)
  <2>1. configLock = c /\ Kept(doc, accepted) /\ UNCHANGED <<doc, cfg>>
    BY <1>1, <1>4 DEF ReadConfig, LockOK, ConfigOK
  <2>2. ASSUME NEW report \in {"unchanged", "refused"}, Finish(c, report)
        PROVE  CommandType' /\ LockOK' /\ ConfigOK' /\ InnerOK'
    BY <1>1, <1>2, <2>1, <2>2, Finished, Settles DEF Success, InnerOK
  <2>3. ASSUME NEW new \in Docs, SameBut(new, doc, cmd[c].change.field), new["inner"] # "absent",
               cmd' = [cmd EXCEPT ![c].pc = "write", ![c].raw = new],
               UNCHANGED <<configLock, lastReport, accepted>>
        PROVE  CommandType' /\ LockOK' /\ ConfigOK' /\ InnerOK'
    <3>1. /\ cmd'[c].pc = "write" /\ cmd'[c].raw = new /\ cmd'[c].change = cmd[c].change
          /\ \A e \in Commands \ {c} : cmd'[e] = cmd[e]
      BY <1>1, <2>3 DEF CommandType
    <3>2. CommandType'
      BY <1>1, <2>3 DEF CommandType
    <3>3. \A e \in Commands \ {c} : cmd[e].pc \in {"idle", "done"}
      BY <1>1, <2>1 DEF LockOK
    <3>4. LockOK'
      BY <1>1, <2>1, <2>3, <3>1 DEF LockOK
    <3>5. ConfigOK' /\ InnerOK'
      BY <1>1, <1>2, <2>1, <2>3, <3>1, <3>3, NameAssumption DEF ConfigOK, InnerOK
    <3>6. QED
      BY <3>2, <3>4, <3>5
  <2>4. cmd[c].change \in Mutations /\ doc \in Docs /\ doc["inner"] # "absent"
    BY <1>1, <2>1 DEF LockOK, ProcessType, InnerOK
  <2>5. QED
    BY <1>4, <2>2, <2>3, <2>4, MutatedDoc DEF ReadConfig
<1>5. CASE WriteConfig(c)
  <2>1. configLock = c /\ Kept(doc, accepted) /\ doc' = cmd[c].raw /\ cfg' = cfg
    BY <1>1, <1>5 DEF WriteConfig, LockOK, ConfigOK
  <2>2. /\ cmd[c].raw \in Docs /\ SameBut(cmd[c].raw, doc, cmd[c].change.field)
        /\ cmd[c].raw["inner"] # "absent"
    BY <1>1, <1>5 DEF WriteConfig, ConfigOK, InnerOK
  <2>3. CASE Finish(c, "restart required")
    <3>1. Kept(doc', accepted')
      BY <1>1, <2>1, <2>2, <2>3, Finished DEF Success
    <3>2. /\ CommandType' /\ LockOK' /\ configLock' = None /\ lastReport' = "restart required"
          /\ \A e \in Commands : cmd'[e].pc \in {"idle", "done"}
      BY <1>1, <2>1, <2>3, Finished
    <3>3. QED
      BY <1>1, <1>2, <2>1, <2>2, <3>1, <3>2, Settles DEF InnerOK
  <2>4. CASE /\ cmd' = [cmd EXCEPT ![c].pc = "reload", ![c].original = doc]
             /\ UNCHANGED <<configLock, lastReport, accepted>>
    <3>1. /\ cmd'[c].pc = "reload" /\ cmd'[c].raw = cmd[c].raw /\ cmd'[c].change = cmd[c].change
          /\ cmd'[c].original = doc
          /\ \A e \in Commands \ {c} : cmd'[e] = cmd[e]
      BY <1>1, <2>4 DEF CommandType
    <3>2. CommandType'
      BY <1>1, <2>4 DEF CommandType, ProcessType
    <3>3. \A e \in Commands \ {c} : cmd[e].pc \in {"idle", "done"}
      BY <1>1, <2>1 DEF LockOK
    <3>4. LockOK'
      BY <1>1, <2>1, <2>4, <3>1 DEF LockOK
    <3>5. ConfigOK' /\ InnerOK'
      BY <1>1, <1>2, <2>1, <2>2, <2>4, <3>1, <3>3, NameAssumption
      DEF ConfigOK, InnerOK, ProcessType
    <3>6. QED
      BY <3>2, <3>4, <3>5
  <2>5. QED
    BY <1>5, <2>3, <2>4 DEF WriteConfig
<1>6. CASE ReloadAnswered(c) \/ ReloadLost(c) \/ ResyncAnswered(c)
  <2>1. /\ configLock = c /\ doc' = doc /\ cmd[c].pc \in {"reload", "resync"}
        /\ phase \in PastConfig
    BY <1>1, <1>6, Places DEF ReloadAnswered, ReloadLost, ResyncAnswered, LockOK
  <2>2. \/ UNCHANGED cfg
        \/ cfg' \in Docs /\ Runtime(cfg') = Runtime(doc) /\ cfg'["inner"] = doc["inner"]
    BY <1>1, <1>6, <2>1, ReloadKinds
    DEF ReloadAnswered, ReloadLost, ResyncAnswered, Published, ProcessType
  <2>3. cfg'["inner"] # "absent"
    BY <1>1, <2>1, <2>2 DEF InnerOK
  <2>4. CASE cmd[c].pc = "reload" /\ Continue(c, "rollback")
    <3>1. UNCHANGED <<doc, accepted>>
      BY <2>1, <2>4 DEF Continue
    <3>2. QED
      BY <1>1, <1>2, <2>1, <2>3, <2>4, <3>1, Continued, NameAssumption
      DEF ConfigOK, InnerOK, Midway
  <2>5. CASE cmd[c].pc = "reload" /\ Finish(c, "applied") /\ Reload /\ Loadable(doc)
    <3>1. Kept(doc', accepted')
      BY <1>1, <2>1, <2>5, Finished DEF Success, ConfigOK
    <3>2. Runtime(cfg') = Runtime(doc)
      BY <1>1, <2>1, <2>5, ReloadKinds DEF Published, ProcessType
    <3>3. QED
      BY <1>1, <1>2, <2>1, <2>3, <2>5, <3>1, <3>2, Finished, Settles DEF InnerOK
  <2>6. ASSUME NEW report \in {"rolled back", "rolled back, not reloaded"},
               cmd[c].pc = "resync", Finish(c, report),
               report = "rolled back" => Runtime(cfg') = Runtime(doc)
        PROVE  CommandType' /\ LockOK' /\ ConfigOK' /\ InnerOK'
    <3>1. Kept(doc', accepted')
      BY <1>1, <2>1, <2>6, Finished DEF Success, ConfigOK
    <3>2. QED
      BY <1>1, <1>2, <2>1, <2>3, <2>6, <3>1, Finished, Settles DEF InnerOK
  <2>7. ASSUME Reload, Loadable(doc) PROVE Runtime(cfg') = Runtime(doc)
    BY <1>1, <2>1, <2>7, ReloadKinds DEF Published, ProcessType
  <2>8. QED
    BY <1>6, <2>4, <2>5, <2>6, <2>7 DEF ReloadAnswered, ReloadLost, ResyncAnswered
<1>7. CASE ReloadNoDaemon(c)
  <2>1. configLock = c /\ UNCHANGED <<doc, cfg>> /\ cmd[c].pc \in {"reload", "resync"}
    BY <1>1, <1>7 DEF ReloadNoDaemon, LockOK
  <2>2. CASE cmd[c].pc = "reload"
    <3>1. Finish(c, "next start")
      BY <1>7, <2>2 DEF ReloadNoDaemon
    <3>2. Kept(doc', accepted')
      BY <1>1, <2>1, <2>2, <3>1, Finished DEF Success, ConfigOK
    <3>3. /\ CommandType' /\ LockOK' /\ configLock' = None /\ lastReport' = "next start"
          /\ \A e \in Commands : cmd'[e].pc \in {"idle", "done"}
      BY <1>1, <2>1, <3>1, Finished
    <3>4. QED
      BY <1>1, <1>2, <2>1, <3>2, <3>3, Settles DEF InnerOK
  <2>3. CASE cmd[c].pc = "resync"
    <3>1. Finish(c, "rolled back, not reloaded")
      BY <1>7, <2>3 DEF ReloadNoDaemon
    <3>2. Kept(doc', accepted')
      BY <1>1, <2>1, <2>3, <3>1, Finished DEF Success, ConfigOK
    <3>3. /\ CommandType' /\ LockOK' /\ configLock' = None
          /\ lastReport' = "rolled back, not reloaded"
          /\ \A e \in Commands : cmd'[e].pc \in {"idle", "done"}
      BY <1>1, <2>1, <3>1, Finished
    <3>4. QED
      BY <1>1, <1>2, <2>1, <3>2, <3>3, Settles DEF InnerOK
  <2>4. QED
    BY <2>1, <2>2, <2>3
<1>8. CASE RollbackConfig(c)
  <2>1. /\ configLock = c /\ doc' = cmd[c].original /\ cfg' = cfg /\ Continue(c, "resync")
        /\ Kept(cmd[c].original, accepted) /\ cmd[c].original["inner"] # "absent"
    BY <1>1, <1>8 DEF RollbackConfig, LockOK, ConfigOK, InnerOK
  <2>2. QED
    BY <1>1, <1>2, <2>1, Continued, NameAssumption DEF ConfigOK, InnerOK, Midway
<1>9. CASE CommandFails(c)
  <2>1. configLock = c /\ UNCHANGED <<doc, cfg>> /\ Finish(c, "failed")
    BY <1>1, <1>9 DEF CommandFails, LockOK
  <2>2. ASSUME cmd[c].pc \in {"locked", "write", "resync"} PROVE Kept(doc', accepted')
    <3>1. Kept(doc, accepted) /\ SameBut(doc, doc, cmd[c].change.field)
      BY <1>1, <2>2 DEF ConfigOK, SameBut
    <3>2. QED
      BY <1>1, <2>1, <3>1, Finished DEF Success
  <2>3. ASSUME cmd[c].pc \in {"reload", "rollback"} PROVE Kept(doc', accepted')
    <3>1. Kept(cmd[c].original, accepted) /\ SameBut(doc, cmd[c].original, cmd[c].change.field)
      BY <1>1, <2>3 DEF ConfigOK
    <3>2. QED
      BY <1>1, <2>1, <3>1, Finished DEF Success
  <2>4. Kept(doc', accepted')
    BY <1>1, <2>1, <2>2, <2>3 DEF LockOK, CommandType
  <2>5. /\ CommandType' /\ LockOK' /\ configLock' = None /\ lastReport' = "failed"
        /\ \A e \in Commands : cmd'[e].pc \in {"idle", "done"}
    BY <1>1, <2>1, Finished
  <2>6. QED
    BY <1>1, <1>2, <2>1, <2>4, <2>5, Settles DEF InnerOK
<1>10. QED
  BY <1>3, <1>4, <1>5, <1>6, <1>7, <1>8, <1>9 DEF ConfigCommand

-----------------------------------------------------------------------------
(* What one committed statement or transaction does to the rows. RowsKept   *)
(* is what it may do: tables are only added, snapshots are made up only     *)
(* before their table exists, a session keeps its owner or is moved to the  *)
(* default launcher of its principal, an ownerless one may go, and a stored *)
(* root keeps its owner and path and gets no other access than read_write   *)
(* for none. Only a lasting root is sure to stay.                           *)

RowsKept(d, e) ==
    /\ d.tables \subseteq e.tables
    /\ \A s \in Sessions :
          e.snapshot[s] = "workspace" => d.snapshot[s] = "workspace" \/ "snapshots" \notin d.tables
    /\ \A s \in Sessions \ Expired :
          \/ e.sessions[s] = d.sessions[s]
          \/ d.sessions[s] \in Principals /\ e.sessions[s] = DefaultLauncher(d.sessions[s])
          \/ d.sessions[s] = NoOwner /\ e.sessions[s] = Gone
    /\ \A t \in RootTables : RootsPreserved(d, e, t)

(* The same stored roots are preserved.                                    *)
LEMMA SameRootsPreserved ==
    ASSUME NEW d, NEW e, e.roots = d.roots, NEW t \in RootTables
    PROVE  RootsPreserved(d, e, t)
  BY DEF RootsPreserved

(* What two steps in a row do to the stored roots. A launcher's lasting     *)
(* root is lasting after the first because the root of its principal that   *)
(* contains it is.                                                          *)
LEMMA RootsPreservedTwice ==
    ASSUME NEW a, NEW b, NEW c,
           \A t \in RootTables : RootsPreserved(a, b, t),
           \A t \in RootTables : RootsPreserved(b, c, t)
    PROVE  \A t \in RootTables : RootsPreserved(a, c, t)
<1> SUFFICES ASSUME NEW t \in RootTables PROVE RootsPreserved(a, c, t)
  OBVIOUS
<1>1. ASSUME NEW r \in a.roots[t], Lasting(a, t, r)
      PROVE  \E q \in c.roots[t] : q.owner = r.owner /\ q.path = r.path
  <2>1. PICK o \in b.roots[t] : o.owner = r.owner /\ o.path = r.path
    BY <1>1 DEF RootsPreserved
  <2>2. ASSUME t = "launcher_allowed_roots"
        PROVE  "inner" \in RootsOf(PrincipalOf(o.owner), b.roots["principal_allowed_roots"])
    <3>1. "inner" \in RootsOf(PrincipalOf(r.owner), a.roots["principal_allowed_roots"])
      BY <1>1, <2>2 DEF Lasting
    <3>2. PICK p \in a.roots["principal_allowed_roots"] :
              p.owner = PrincipalOf(r.owner) /\ p.path = "inner"
      BY <3>1 DEF RootsOf
    <3>3. Lasting(a, "principal_allowed_roots", p)
      BY <3>2 DEF Lasting
    <3>4. "principal_allowed_roots" \in RootTables
      BY DEF RootTables
    <3>5. PICK q \in b.roots["principal_allowed_roots"] : q.owner = p.owner /\ q.path = p.path
      BY <3>3, <3>4 DEF RootsPreserved
    <3>6. q.owner = PrincipalOf(o.owner) /\ q.path = "inner"
      BY <2>1, <3>2, <3>5
    <3>7. QED
      BY <3>6 DEF RootsOf
  <2>3. Lasting(b, t, o)
    BY <1>1, <2>1, <2>2 DEF Lasting
  <2>4. PICK q \in c.roots[t] : q.owner = o.owner /\ q.path = o.path
    BY <2>3 DEF RootsPreserved
  <2>5. QED
    BY <2>1, <2>4
<1>2. ASSUME NEW q \in c.roots[t]
      PROVE  \E r \in a.roots[t] :
                 /\ r.owner = q.owner /\ r.path = q.path
                 /\ q.access = r.access \/ (r.access = "none" /\ q.access = "read_write")
  <2>1. PICK o \in b.roots[t] :
            /\ o.owner = q.owner /\ o.path = q.path
            /\ q.access = o.access \/ (o.access = "none" /\ q.access = "read_write")
    BY DEF RootsPreserved
  <2>2. PICK r \in a.roots[t] :
            /\ r.owner = o.owner /\ r.path = o.path
            /\ o.access = r.access \/ (r.access = "none" /\ o.access = "read_write")
    BY DEF RootsPreserved
  <2>3. QED
    BY <2>1, <2>2
<1>3. QED
  BY <1>1, <1>2 DEF RootsPreserved

(* Only the shape of the tables differs.                                   *)
SameRows(d, e) ==
    /\ e.malformed = d.malformed /\ e.principals = d.principals
    /\ e.sessions = d.sessions /\ e.roots = d.roots /\ e.snapshot = d.snapshot

(* A migration that changes no row keeps the rows.                         *)
LEMMA SameRowsKept ==
    ASSUME NEW d, NEW e, SameRows(d, e), d.tables \subseteq e.tables
    PROVE  RowsKept(d, e)
  BY SameRootsPreserved DEF SameRows, RowsKept

(* Since the first start nothing else has happened to the rows.            *)
LEMMA OriginKept ==
    ASSUME OriginOK, WellFormed(db), RowsKept(db, db'), origin' = origin
    PROVE  OriginOK'
<1>1. db.sessions \in [Sessions -> Principals \cup {NoOwner, Gone} \cup Launchers]
  BY DEF WellFormed, Databases
<1>2. origin.sessions \in [Sessions -> Principals \cup {NoOwner, Gone} \cup Launchers]
  BY DEF OriginOK, WellFormed, Databases
<1>3. WellFormed(origin)' /\ ("snapshots" \in origin'.tables => "snapshots" \in db'.tables)
  BY DEF OriginOK, RowsKept
<1>4. SnapshotsNeverInvented'
  BY DEF OriginOK, RowsKept, SnapshotsNeverInvented
<1>5. ASSUME NEW s \in Sessions \ Expired
      PROVE  LET was == origin.sessions[s]
                 now == db'.sessions[s]
             IN  CASE was \in Principals        -> PrincipalOf(now) = was
                   [] was \in {NoOwner, Gone}   -> now \in {was, Gone}
                   [] OTHER                     -> now = was
  <2>1. LET was == origin.sessions[s]
            old == db.sessions[s]
        IN  CASE was \in Principals        -> PrincipalOf(old) = was
              [] was \in {NoOwner, Gone}   -> old \in {was, Gone}
              [] OTHER                     -> old = was
    BY DEF OriginOK, MigrationsPreserve
  <2>2. CASE db'.sessions[s] = db.sessions[s]
    BY <2>1, <2>2
  <2>3. CASE db.sessions[s] \in Principals /\ db'.sessions[s] = DefaultLauncher(db.sessions[s])
    <3>1. DefaultLauncher(db.sessions[s]) \in Launchers
      BY <2>3, OwnerAssumption DEF DefaultLauncher, Launchers
    <3>2. PrincipalOf(db'.sessions[s]) = db.sessions[s]
      BY <2>3, <3>1, OwnerAssumption DEF PrincipalOf, DefaultLauncher
    <3>3. PrincipalOf(db.sessions[s]) = db.sessions[s]
      BY <2>3 DEF PrincipalOf
    <3>4. origin.sessions[s] \in Principals
      BY <1>2, <2>1, <2>3, OwnerAssumption
    <3>5. QED
      BY <2>1, <3>2, <3>3, <3>4, OwnerAssumption
  <2>4. CASE db.sessions[s] = NoOwner /\ db'.sessions[s] = Gone
    <3>1. PrincipalOf(NoOwner) = NoOwner
      BY DEF PrincipalOf
    <3>2. origin.sessions[s] \in {NoOwner, Gone}
      BY <1>2, <2>1, <2>4, <3>1, OwnerAssumption
    <3>3. QED
      BY <2>4, <3>2, OwnerAssumption
  <2>5. QED
    BY <2>2, <2>3, <2>4 DEF RowsKept
<1>6. \A t \in RootTables : RootsPreserved(origin, db', t)
  <2>1. \A t \in RootTables : RootsPreserved(origin, db, t)
    BY DEF OriginOK, MigrationsPreserve
  <2>2. \A t \in RootTables : RootsPreserved(db, db', t)
    BY DEF RowsKept
  <2>3. QED
    BY <2>1, <2>2, RootsPreservedTwice
<1>7. MigrationsPreserve'
  BY <1>5, <1>6 DEF MigrationsPreserve
<1>8. QED
  BY <1>3, <1>4, <1>7 DEF OriginOK

(* The tables by name.                                                     *)
LEMMA TableNames ==
    /\ InitialTables = {"sessions", "principals", "principal_allowed_roots", "launchers",
                        "launcher_allowed_roots", "credentials"}
    /\ Tables = InitialTables \cup {"mac_boundaries", "snapshots"}
    /\ RootTables \subseteq InitialTables
    /\ \A i \in DOMAIN CreatedTables : CreatedTables[i] \in InitialTables
<1>1. DOMAIN CreatedTables = 1..6
  BY DEF CreatedTables
<1>2. /\ CreatedTables[1] = "sessions" /\ CreatedTables[2] = "principals"
      /\ CreatedTables[3] = "principal_allowed_roots" /\ CreatedTables[4] = "launchers"
      /\ CreatedTables[5] = "launcher_allowed_roots" /\ CreatedTables[6] = "credentials"
  BY DEF CreatedTables
<1>3. QED
  BY <1>1, <1>2 DEF InitialTables, Tables, RootTables

(* CREATE TABLE IF NOT EXISTS, of a table other than the snapshots.        *)
LEMMA TableCreated ==
    ASSUME NEW d, WellFormed(d), NEW t \in Tables \ {"snapshots"}
    PROVE  LET e == CreateTable(d, t)
           IN  /\ WellFormed(e) /\ SameRows(d, e) /\ e.defaults = d.defaults
               /\ e.tables = d.tables \cup {t}
               /\ \A u \in Tables : u \in d.tables \/ u # t => e.columns[u] = d.columns[u]
<1> DEFINE e == CreateTable(d, t)
<1>1. CASE t \in d.tables
  BY <1>1 DEF CreateTable, SameRows
<1>2. CASE t \notin d.tables
  <2>1. d \in Databases
    BY DEF WellFormed
  <2>2. /\ SameRows(d, e) /\ e.defaults = d.defaults /\ e.tables = d.tables \cup {t}
        /\ \A u \in Tables : e.columns[u] = IF u = t THEN CreatedColumns[t] ELSE d.columns[u]
    BY <1>2, <2>1 DEF CreateTable, SameRows, Databases
  <2>3. CreatedColumns[t] \in SUBSET {"principal_id", "launcher_id", "access", "backend key", "kind"}
    BY DEF CreatedColumns
  <2>4. e \in Databases
    BY <1>2, <2>1, <2>3 DEF CreateTable, Databases
  <2>5. /\ t = "sessions" => CreatedColumns[t] = {"launcher_id"}
        /\ t = "credentials" => CreatedColumns[t] = {"launcher_id"}
        /\ t \in RootTables => CreatedColumns[t] = {"access"}
        /\ t = "mac_boundaries" => CreatedColumns[t] = {"backend key"}
    BY DEF CreatedColumns, RootTables
  <2>6. Live(e) = Live(d)
    BY <2>2 DEF Live, SameRows
  <2>7. /\ e.malformed \subseteq ClassifiedTables \cap e.tables
        /\ e.columns["sessions"] \subseteq {"principal_id", "launcher_id"}
        /\ e.columns["credentials"] \subseteq {"launcher_id"}
        /\ e.columns["mac_boundaries"] \in {{}, {"backend key"}, {"backend key", "kind"}}
    BY <2>2, <2>5, TableNames DEF WellFormed, SameRows
  <2>8. ASSUME NEW u \in RootTables
        PROVE  /\ e.columns[u] \subseteq {"access"}
               /\ \A r \in e.roots[u] : RootRow(e, u, r)
    <3>1. u \in Tables
      BY TableNames
    <3>2. QED
      BY <1>2, <2>2, <2>5, <3>1 DEF WellFormed, SameRows, RootRow
  <2>9. \A s \in Live(e) :
          /\ "sessions" \in e.tables
          /\ e.sessions[s] \in Launchers => "launcher_id" \in e.columns["sessions"]
    BY <1>2, <2>2, <2>6, TableNames DEF WellFormed, SameRows
  <2>10. /\ "snapshots" \in e.tables =>
              /\ "sessions" \in e.tables /\ "launcher_id" \in e.columns["sessions"]
              /\ \A s \in Sessions : e.snapshot[s] = Gone <=> e.sessions[s] = Gone
         /\ "snapshots" \notin e.tables => \A s \in Sessions : e.snapshot[s] = Gone
    BY <1>2, <2>2, TableNames DEF WellFormed, SameRows
  <2>11. WellFormed(e)
    BY <2>4, <2>7, <2>8, <2>9, <2>10 DEF WellFormed
  <2>12. QED
    BY <1>2, <2>2, <2>11
<1>3. QED
  BY <1>1, <1>2

(* A rebuild that gives a table the columns of a later generation.         *)
Reshape(d, t, cols) == [d EXCEPT !.columns[t] = cols]

Suits(d, t, cols) ==
    \/ t = "sessions" /\ "launcher_id" \notin d.columns[t] /\ cols = {"principal_id"}
    \/ t = "credentials" /\ cols = {"launcher_id"}
    \/ t = "mac_boundaries" /\ cols \in {{"backend key"}, {"backend key", "kind"}}

(* Rebuilding a table with other columns keeps the database well formed    *)
(* and its rows.                                                           *)
LEMMA Reshaped ==
    ASSUME NEW d, WellFormed(d), NEW t \in Tables, NEW cols, Suits(d, t, cols)
    PROVE  LET e == Reshape(d, t, cols)
           IN  /\ WellFormed(e) /\ SameRows(d, e)
               /\ e.defaults = d.defaults /\ e.tables = d.tables
               /\ \A u \in Tables \ {t} : e.columns[u] = d.columns[u]
               /\ e.columns[t] = cols
<1> DEFINE e == Reshape(d, t, cols)
<1>1. d \in Databases /\ t \notin RootTables
  BY DEF WellFormed, RootTables, Suits
<1>2. /\ SameRows(d, e) /\ e.defaults = d.defaults /\ e.tables = d.tables
      /\ \A u \in Tables \ {t} : e.columns[u] = d.columns[u]
      /\ e.columns[t] = cols
  BY <1>1 DEF Reshape, SameRows, Databases
<1>3. cols \in SUBSET {"principal_id", "launcher_id", "access", "backend key", "kind"}
  BY DEF Suits
<1>4. e \in Databases
  BY <1>1, <1>3 DEF Reshape, Databases
<1>5. Live(e) = Live(d)
  BY <1>2 DEF Live, SameRows
<1>6. /\ e.malformed \subseteq ClassifiedTables \cap e.tables
      /\ e.columns["sessions"] \subseteq {"principal_id", "launcher_id"}
      /\ e.columns["credentials"] \subseteq {"launcher_id"}
      /\ e.columns["mac_boundaries"] \in {{}, {"backend key"}, {"backend key", "kind"}}
  <2>1. /\ d.malformed \subseteq ClassifiedTables \cap d.tables
        /\ d.columns["sessions"] \subseteq {"principal_id", "launcher_id"}
        /\ d.columns["credentials"] \subseteq {"launcher_id"}
        /\ d.columns["mac_boundaries"] \in {{}, {"backend key"}, {"backend key", "kind"}}
    BY DEF WellFormed
  <2>2. {"sessions", "credentials", "mac_boundaries"} \subseteq Tables
    BY TableNames
  <2>3. QED
    BY <1>2, <2>1, <2>2 DEF SameRows, Suits
<1>7. \A u \in RootTables : u \in Tables /\ e.columns[u] = d.columns[u]
  BY <1>1, <1>2, TableNames
<1>8. \A u \in RootTables :
        /\ e.columns[u] \subseteq {"access"}
        /\ \A r \in e.roots[u] : RootRow(e, u, r)
  BY <1>2, <1>7 DEF WellFormed, SameRows, RootRow
<1>9. "launcher_id" \in d.columns["sessions"] => "launcher_id" \in e.columns["sessions"]
  BY <1>2, TableNames DEF Suits
<1>10. /\ \A s \in Live(e) :
            /\ "sessions" \in e.tables
            /\ e.sessions[s] \in Launchers => "launcher_id" \in e.columns["sessions"]
       /\ "snapshots" \in e.tables =>
            /\ "sessions" \in e.tables /\ "launcher_id" \in e.columns["sessions"]
            /\ \A s \in Sessions : e.snapshot[s] = Gone <=> e.sessions[s] = Gone
       /\ "snapshots" \notin e.tables => \A s \in Sessions : e.snapshot[s] = Gone
  BY <1>2, <1>5, <1>9 DEF WellFormed, SameRows
<1>11. WellFormed(e)
  BY <1>4, <1>6, <1>8, <1>10 DEF WellFormed
<1>12. QED
  BY <1>2, <1>11

(* migrateAllowedRootsTableToAccessSchema of a path-only table.            *)
LEMMA RootsRebuilt ==
    ASSUME NEW d, WellFormed(d), NEW t \in RootTables, d.columns[t] = {}
    PROVE  LET e == RebuildAllowedRoots(d, t)
           IN  /\ WellFormed(e) /\ RowsKept(d, e)
               /\ e.tables = d.tables /\ e.malformed = d.malformed
               /\ e.principals = d.principals /\ e.defaults = d.defaults
               /\ e.sessions = d.sessions /\ e.snapshot = d.snapshot
               /\ \A u \in Tables \ {t} : e.columns[u] = d.columns[u]
               /\ e.columns[t] = {"access"}
<1> DEFINE e == RebuildAllowedRoots(d, t)
<1>1. d \in Databases /\ t \in Tables
  BY TableNames DEF WellFormed
<1>2. /\ e.tables = d.tables /\ e.malformed = d.malformed /\ e.principals = d.principals
      /\ e.defaults = d.defaults /\ e.sessions = d.sessions /\ e.snapshot = d.snapshot
      /\ \A u \in Tables \ {t} : e.columns[u] = d.columns[u]
      /\ e.columns[t] = {"access"}
      /\ \A u \in RootTables : e.roots[u] = IF u = t
            THEN {[r EXCEPT !.access = "read_write"] : r \in d.roots[t]} ELSE d.roots[u]
  BY <1>1 DEF RebuildAllowedRoots, Databases
<1>3. \A r \in d.roots[t] :
        /\ r \in [owner : Principals \cup Launchers, path : STRING,
                  access : {"none", "read_only", "read_write"}]
        /\ r.access = "none"
        /\ [r EXCEPT !.access = "read_write"] \in
              [owner : Principals \cup Launchers, path : STRING,
               access : {"none", "read_only", "read_write"}]
        /\ [r EXCEPT !.access = "read_write"].owner = r.owner
        /\ [r EXCEPT !.access = "read_write"].path = r.path
        /\ [r EXCEPT !.access = "read_write"].access = "read_write"
  <2>1. d.roots[t] \subseteq [owner : Principals \cup Launchers, path : STRING,
                              access : {"none", "read_only", "read_write"}]
    BY <1>1 DEF Databases
  <2>2. \A r \in d.roots[t] : r.access = "none"
    BY DEF WellFormed, RootRow
  <2>3. QED
    BY <2>1, <2>2
<1>4. e \in Databases
  <2>1. {[r EXCEPT !.access = "read_write"] : r \in d.roots[t]} \in
          SUBSET [owner : Principals \cup Launchers, path : STRING,
                  access : {"none", "read_only", "read_write"}]
    BY <1>3
  <2>2. QED
    BY <1>1, <2>1 DEF RebuildAllowedRoots, Databases
<1>5. Live(e) = Live(d)
  BY <1>2 DEF Live
<1>6. ASSUME NEW u \in RootTables
      PROVE  /\ e.columns[u] \subseteq {"access"}
             /\ \A r \in e.roots[u] : RootRow(e, u, r)
  <2>1. u \in Tables /\ d.columns[u] \subseteq {"access"}
    BY TableNames DEF WellFormed
  <2>2. \A r \in d.roots[u] : RootRow(d, u, r)
    BY DEF WellFormed
  <2>3. CASE u = t
    <3>1. e.columns[u] = {"access"}
      BY <1>2, <2>1, <2>3
    <3>2. ASSUME NEW r \in e.roots[u] PROVE RootRow(e, u, r)
      <4>1. e.roots[u] = {[o EXCEPT !.access = "read_write"] : o \in d.roots[t]}
        BY <1>2, <2>3
      <4>2. PICK o \in d.roots[t] : r = [o EXCEPT !.access = "read_write"]
        BY <3>2, <4>1
      <4>3. r.owner = o.owner /\ r.access = "read_write"
        BY <1>3, <4>2
      <4>4. e.columns[u] # {} /\ r.access # "none"
        BY <3>1, <4>3
      <4>5. QED
        BY <1>2, <2>2, <2>3, <4>3, <4>4 DEF RootRow
    <3>3. QED
      BY <3>1, <3>2
  <2>4. CASE u # t
    BY <1>2, <2>1, <2>2, <2>4 DEF RootRow
  <2>5. QED
    BY <2>3, <2>4
<1>7. \A u \in {"sessions", "credentials", "mac_boundaries"} : e.columns[u] = d.columns[u]
  BY <1>2, TableNames DEF RootTables
<1>8. WellFormed(e)
  <2>1. /\ e.malformed \subseteq ClassifiedTables \cap e.tables
        /\ e.columns["sessions"] \subseteq {"principal_id", "launcher_id"}
        /\ e.columns["credentials"] \subseteq {"launcher_id"}
        /\ e.columns["mac_boundaries"] \in {{}, {"backend key"}, {"backend key", "kind"}}
    BY <1>2, <1>7 DEF WellFormed
  <2>2. /\ \A s \in Live(e) :
              /\ "sessions" \in e.tables
              /\ e.sessions[s] \in Launchers => "launcher_id" \in e.columns["sessions"]
        /\ "snapshots" \in e.tables =>
              /\ "sessions" \in e.tables /\ "launcher_id" \in e.columns["sessions"]
              /\ \A s \in Sessions : e.snapshot[s] = Gone <=> e.sessions[s] = Gone
        /\ "snapshots" \notin e.tables => \A s \in Sessions : e.snapshot[s] = Gone
    BY <1>2, <1>5, <1>7 DEF WellFormed
  <2>3. QED
    BY <1>4, <1>6, <2>1, <2>2 DEF WellFormed
<1>9. RowsKept(d, e)
  <2>1. ASSUME NEW u \in RootTables
        PROVE  RootsPreserved(d, e, u)
    <3>1. CASE u # t
      BY <1>2, <3>1 DEF RootsPreserved
    <3>2. CASE u = t
      <4>1. e.roots[u] = {[r EXCEPT !.access = "read_write"] : r \in d.roots[t]}
        BY <1>2, <3>2
      <4>2. ASSUME NEW r \in d.roots[u] PROVE \E q \in e.roots[u] : q.owner = r.owner /\ q.path = r.path
        BY <1>3, <3>2, <4>1
      <4>3. ASSUME NEW q \in e.roots[u]
            PROVE  \E r \in d.roots[u] : /\ r.owner = q.owner /\ r.path = q.path
                                         /\ r.access = "none" /\ q.access = "read_write"
        BY <1>3, <3>2, <4>1
      <4>4. QED
        BY <4>2, <4>3 DEF RootsPreserved
    <3>3. QED
      BY <3>1, <3>2
  <2>2. QED
    BY <1>2, <2>1 DEF RowsKept
<1>10. QED
  BY <1>2, <1>8, <1>9

(* migrateSessionOwnership of principal-owned sessions.                    *)
LEMMA OwnershipMigrated ==
    ASSUME NEW d, WellFormed(d), d.columns["sessions"] = {"principal_id"}
    PROVE  LET e == MigrateOwnership(d)
           IN  /\ WellFormed(e) /\ RowsKept(d, e)
               /\ e.tables = d.tables /\ e.malformed = d.malformed
               /\ \A u \in Tables \ {"sessions"} : e.columns[u] = d.columns[u]
               /\ e.columns["sessions"] = {"launcher_id"}
<1> DEFINE e == MigrateOwnership(d)
<1>1. d \in Databases /\ "sessions" \in Tables
  BY TableNames DEF WellFormed
<1>2. /\ e.tables = d.tables /\ e.malformed = d.malformed /\ e.principals = d.principals
      /\ e.roots = d.roots /\ e.snapshot = d.snapshot
      /\ e.defaults = d.defaults \cup SessionPrincipals(d)
      /\ \A u \in Tables \ {"sessions"} : e.columns[u] = d.columns[u]
      /\ e.columns["sessions"] = {"launcher_id"}
      /\ \A s \in Sessions : e.sessions[s] =
            IF d.sessions[s] \in Principals THEN DefaultLauncher(d.sessions[s]) ELSE Gone
  BY <1>1 DEF MigrateOwnership, Databases
<1>3. \A p \in Principals : DefaultLauncher(p) \in Launchers
  BY OwnerAssumption DEF DefaultLauncher, Launchers
<1>4. e \in Databases
  <2>1. SessionPrincipals(d) \subseteq Principals
    BY DEF SessionPrincipals
  <2>2. [s \in Sessions |->
            IF d.sessions[s] \in Principals THEN DefaultLauncher(d.sessions[s]) ELSE Gone] \in
          [Sessions -> Principals \cup {NoOwner, Gone} \cup Launchers]
    BY <1>3
  <2>3. QED
    BY <1>1, <2>1, <2>2 DEF MigrateOwnership, Databases
<1>5. \A s \in Sessions : d.sessions[s] \in Principals \cup {NoOwner, Gone}
  BY <1>1 DEF WellFormed, Databases, Live
<1>6. Live(e) \subseteq Live(d)
  BY <1>2, <1>5, OwnerAssumption DEF Live
<1>7. \A u \in RootTables \cup {"credentials", "mac_boundaries"} : e.columns[u] = d.columns[u]
  BY <1>2, TableNames DEF RootTables
<1>8. "snapshots" \notin d.tables /\ e.columns["sessions"] = {"launcher_id"}
  BY <1>1, <1>2 DEF WellFormed
<1>9. WellFormed(e)
  <2>1. /\ e.malformed \subseteq ClassifiedTables \cap e.tables
        /\ e.columns["sessions"] \subseteq {"principal_id", "launcher_id"}
        /\ e.columns["credentials"] \subseteq {"launcher_id"}
        /\ e.columns["mac_boundaries"] \in {{}, {"backend key"}, {"backend key", "kind"}}
    BY <1>2, <1>7, <1>8 DEF WellFormed
  <2>2. \A t \in RootTables :
          /\ e.columns[t] \subseteq {"access"}
          /\ \A r \in e.roots[t] : RootRow(e, t, r)
    BY <1>2, <1>7 DEF WellFormed, RootRow
  <2>3. \A s \in Live(e) :
          /\ "sessions" \in e.tables
          /\ e.sessions[s] \in Launchers => "launcher_id" \in e.columns["sessions"]
    BY <1>2, <1>6, <1>8 DEF WellFormed
  <2>4. \A s \in Sessions : e.snapshot[s] = Gone
    BY <1>2, <1>8 DEF WellFormed
  <2>5. QED
    BY <1>2, <1>4, <1>8, <2>1, <2>2, <2>3, <2>4 DEF WellFormed
<1>10. RowsKept(d, e)
  BY <1>2, <1>5, SameRootsPreserved DEF RowsKept
<1>11. QED
  BY <1>2, <1>9, <1>10

(* ensureDefaultLauncher, for a principal.                                 *)
LEMMA DefaultEnsured ==
    ASSUME NEW d, WellFormed(d), NEW p \in d.principals
    PROVE  LET e == EnsureDefaultLauncher(d, p)
           IN  /\ WellFormed(e) /\ SameRows(d, e) /\ e.tables = d.tables /\ e.columns = d.columns
<1> DEFINE e == EnsureDefaultLauncher(d, p)
<1>1. d \in Databases
  BY DEF WellFormed
<1>2. SameRows(d, e) /\ e.tables = d.tables /\ e.columns = d.columns
  BY <1>1 DEF EnsureDefaultLauncher, SameRows, Databases
<1>3. e \in Databases
  BY <1>1 DEF EnsureDefaultLauncher, Databases
<1>4. Live(e) = Live(d)
  BY <1>2 DEF Live, SameRows
<1>5. QED
  BY <1>2, <1>3, <1>4 DEF WellFormed, SameRows, RootRow

(* backfillSessionFilesystemSnapshots, in a database without snapshots.    *)
LEMMA Backfilled ==
    ASSUME NEW d, WellFormed(d), "snapshots" \notin d.tables, "sessions" \in d.tables,
           "launcher_id" \in d.columns["sessions"]
    PROVE  LET e == BackfillSnapshots(d)
           IN  /\ WellFormed(e) /\ RowsKept(d, e) /\ SnapshotsIntact(e)
               /\ e.tables = d.tables \cup {"snapshots"} /\ e.malformed = d.malformed
               /\ e.columns = d.columns /\ e.principals = d.principals /\ e.defaults = d.defaults
<1> DEFINE e == BackfillSnapshots(d)
<1>1. d \in Databases /\ "snapshots" \in Tables
  BY TableNames DEF WellFormed
<1>2. /\ e.tables = d.tables \cup {"snapshots"} /\ e.malformed = d.malformed
      /\ e.columns = d.columns /\ e.principals = d.principals /\ e.defaults = d.defaults
      /\ e.roots = d.roots /\ e.sessions = d.sessions
      /\ \A s \in Sessions : e.snapshot[s] = IF s \in Live(d) THEN "workspace" ELSE Gone
  BY <1>1 DEF BackfillSnapshots, Databases
<1>3. e \in Databases
  <2>1. [s \in Sessions |-> IF s \in Live(d) THEN "workspace" ELSE Gone] \in
          [Sessions -> {Gone, "workspace", "issued", "damaged"}]
    OBVIOUS
  <2>2. QED
    BY <1>1, <2>1 DEF BackfillSnapshots, Databases
<1>4. Live(e) = Live(d)
  BY <1>2 DEF Live
<1>5. \A s \in Sessions : e.snapshot[s] = Gone <=> e.sessions[s] = Gone
  BY <1>2, OwnerAssumption DEF Live
<1>6. WellFormed(e)
  BY <1>2, <1>3, <1>4, <1>5 DEF WellFormed, RootRow
<1>7. RowsKept(d, e) /\ SnapshotsIntact(e)
  BY <1>2, <1>4, SameRootsPreserved DEF RowsKept, SnapshotsIntact, Verified
<1>8. QED
  BY <1>2, <1>6, <1>7

(* A path below a path of a ceiling's subtree is below the ceiling.        *)
LEMMA WithinTransitive ==
    ASSUME NEW path, NEW roots, NEW ceiling, WithinAny(path, roots),
           \A r \in roots : WithinAny(r, ceiling)
    PROVE  WithinAny(path, ceiling)
  BY DEF WithinAny

(* reconcileStoredAllowedRootsToGlobalCeiling, of a ceiling with "inner".  *)
LEMMA RootsPruned ==
    ASSUME NEW d, WellFormed(d), NEW ceiling, "inner" \in ceiling
    PROVE  LET e == PruneRoots(d, ceiling)
           IN  /\ WellFormed(e) /\ RowsKept(d, e)
               /\ e.tables = d.tables /\ e.malformed = d.malformed /\ e.columns = d.columns
               /\ e.principals = d.principals /\ e.defaults = d.defaults
               /\ e.sessions = d.sessions /\ e.snapshot = d.snapshot
               /\ Covered(e, ceiling)
<1> DEFINE e == PruneRoots(d, ceiling)
           PT == "principal_allowed_roots"
           LT == "launcher_allowed_roots"
           Kept1 == {r \in d.roots[PT] : WithinAny(r.path, ceiling)}
           Kept2 == {r \in d.roots[LT] :
                        WithinAny(r.path, RootsOf(PrincipalOf(r.owner), Kept1))}
<1>1. d \in Databases /\ RootTables = {PT, LT} /\ PT # LT
  BY DEF WellFormed, RootTables
<1>2. /\ e.tables = d.tables /\ e.malformed = d.malformed /\ e.columns = d.columns
      /\ e.principals = d.principals /\ e.defaults = d.defaults
      /\ e.sessions = d.sessions /\ e.snapshot = d.snapshot
      /\ e.roots[PT] = Kept1 /\ e.roots[LT] = Kept2
  BY <1>1 DEF PruneRoots, Databases
<1>3. e \in Databases
  <2>1. e = [d EXCEPT !.roots = [d.roots EXCEPT ![PT] = Kept1, ![LT] = Kept2]]
    BY <1>1 DEF PruneRoots, Databases
  <2>2. [d.roots EXCEPT ![PT] = Kept1, ![LT] = Kept2] \in
          [RootTables -> SUBSET [owner : Principals \cup Launchers, path : STRING,
                                 access : {"none", "read_only", "read_write"}]]
    BY <1>1 DEF Databases
  <2>3. QED
    BY <1>1, <2>1, <2>2 DEF Databases
<1>4. Live(e) = Live(d)
  BY <1>2 DEF Live
<1>5. WellFormed(e)
  <2>1. \A t \in RootTables :
          /\ e.columns[t] \subseteq {"access"}
          /\ \A r \in e.roots[t] : RootRow(e, t, r)
    <3>1. \A t \in RootTables :
            /\ d.columns[t] \subseteq {"access"}
            /\ \A r \in d.roots[t] : RootRow(d, t, r)
      BY DEF WellFormed
    <3>2. \A t \in RootTables : e.roots[t] \subseteq d.roots[t]
      BY <1>1, <1>2
    <3>3. QED
      BY <1>2, <3>1, <3>2 DEF RootRow
  <2>2. /\ e.malformed \subseteq ClassifiedTables \cap e.tables
        /\ e.columns["sessions"] \subseteq {"principal_id", "launcher_id"}
        /\ e.columns["credentials"] \subseteq {"launcher_id"}
        /\ e.columns["mac_boundaries"] \in {{}, {"backend key"}, {"backend key", "kind"}}
    BY <1>2 DEF WellFormed
  <2>3. /\ \A z \in Live(e) :
              /\ "sessions" \in e.tables
              /\ e.sessions[z] \in Launchers => "launcher_id" \in e.columns["sessions"]
        /\ "snapshots" \in e.tables =>
              /\ "sessions" \in e.tables /\ "launcher_id" \in e.columns["sessions"]
              /\ \A z \in Sessions : e.snapshot[z] = Gone <=> e.sessions[z] = Gone
        /\ "snapshots" \notin e.tables => \A z \in Sessions : e.snapshot[z] = Gone
    BY <1>2, <1>4 DEF WellFormed
  <2>4. QED
    BY <1>3, <2>1, <2>2, <2>3 DEF WellFormed
<1>6. RowsKept(d, e)
  <2>1. \A t \in RootTables : e.roots[t] \subseteq d.roots[t]
    BY <1>1, <1>2
  <2>2. ASSUME NEW r \in d.roots[PT], r.path = "inner" PROVE r \in e.roots[PT]
    BY <1>2, <2>2 DEF WithinAny
  <2>3. ASSUME NEW r \in d.roots[LT], Lasting(d, LT, r) PROVE r \in e.roots[LT]
    <3>1. r.path = "inner" /\ "inner" \in RootsOf(PrincipalOf(r.owner), d.roots[PT])
      BY <2>3 DEF Lasting
    <3>2. PICK p \in d.roots[PT] : p.owner = PrincipalOf(r.owner) /\ p.path = "inner"
      BY <3>1 DEF RootsOf
    <3>3. p \in Kept1
      BY <1>2, <2>2, <3>2
    <3>4. "inner" \in RootsOf(PrincipalOf(r.owner), Kept1)
      BY <3>2, <3>3 DEF RootsOf
    <3>5. QED
      BY <1>2, <3>1, <3>4 DEF WithinAny
  <2>4. ASSUME NEW t \in RootTables PROVE RootsPreserved(d, e, t)
    <3>1. \A r \in d.roots[t] : Lasting(d, t, r) => r \in e.roots[t]
      BY <1>1, <2>2, <2>3 DEF Lasting
    <3>2. QED
      BY <2>1, <3>1 DEF RootsPreserved
  <2>5. QED
    BY <1>2, <2>4 DEF RowsKept
<1>7. Covered(e, ceiling)
  <2>1. \A r \in e.roots[PT] : WithinAny(r.path, ceiling)
    BY <1>2
  <2>2. \A r \in e.roots[LT] : WithinAny(r.path, RootsOf(PrincipalOf(r.owner), e.roots[PT]))
    BY <1>2
  <2>3. ASSUME NEW r \in e.roots[LT] PROVE WithinAny(r.path, ceiling)
    <3>1. \A x \in RootsOf(PrincipalOf(r.owner), e.roots[PT]) : WithinAny(x, ceiling)
      BY <2>1 DEF RootsOf
    <3>2. QED
      BY <2>2, <3>1, WithinTransitive
  <2>4. QED
    BY <1>1, <2>1, <2>2, <2>3 DEF Covered
<1>8. QED
  BY <1>2, <1>5, <1>6, <1>7

(* cleanupExpiredSessions.                                                 *)
LEMMA ExpiredDeleted ==
    ASSUME NEW d, WellFormed(d)
    PROVE  LET e == DeleteExpired(d)
           IN  /\ WellFormed(e) /\ RowsKept(d, e)
               /\ e.tables = d.tables /\ e.malformed = d.malformed /\ e.columns = d.columns
               /\ e.principals = d.principals /\ e.defaults = d.defaults /\ e.roots = d.roots
               /\ SnapshotsIntact(d) => SnapshotsIntact(e)
<1> DEFINE e == DeleteExpired(d)
<1>1. d \in Databases
  BY DEF WellFormed
<1>2. /\ e.tables = d.tables /\ e.malformed = d.malformed /\ e.columns = d.columns
      /\ e.principals = d.principals /\ e.defaults = d.defaults /\ e.roots = d.roots
      /\ \A s \in Sessions :
            /\ e.sessions[s] = IF s \in Expired THEN Gone ELSE d.sessions[s]
            /\ e.snapshot[s] = IF s \in Expired THEN Gone ELSE d.snapshot[s]
  BY <1>1 DEF DeleteExpired, Databases
<1>3. e \in Databases
  <2>1. /\ [s \in Sessions |-> IF s \in Expired THEN Gone ELSE d.sessions[s]] \in
             [Sessions -> Principals \cup {NoOwner, Gone} \cup Launchers]
        /\ [s \in Sessions |-> IF s \in Expired THEN Gone ELSE d.snapshot[s]] \in
             [Sessions -> {Gone, "workspace", "issued", "damaged"}]
    BY <1>1 DEF Databases
  <2>2. QED
    BY <1>1, <2>1 DEF DeleteExpired, Databases
<1>4. /\ Live(e) \subseteq Live(d)
      /\ \A s \in Live(e) : e.sessions[s] = d.sessions[s] /\ e.snapshot[s] = d.snapshot[s]
  BY <1>2 DEF Live
<1>5. /\ \A s \in Live(e) :
            /\ "sessions" \in e.tables
            /\ e.sessions[s] \in Launchers => "launcher_id" \in e.columns["sessions"]
      /\ "snapshots" \in e.tables =>
            /\ "sessions" \in e.tables /\ "launcher_id" \in e.columns["sessions"]
            /\ \A s \in Sessions : e.snapshot[s] = Gone <=> e.sessions[s] = Gone
      /\ "snapshots" \notin e.tables => \A s \in Sessions : e.snapshot[s] = Gone
  BY <1>2, <1>4 DEF WellFormed
<1>6. WellFormed(e)
  BY <1>2, <1>3, <1>5 DEF WellFormed, RootRow
<1>7. RowsKept(d, e)
  BY <1>2, OwnerAssumption, SameRootsPreserved DEF RowsKept
<1>8. ASSUME SnapshotsIntact(d) PROVE SnapshotsIntact(e)
  BY <1>2, <1>4, <1>8 DEF SnapshotsIntact, Verified, Live
<1>9. QED
  BY <1>2, <1>6, <1>7, <1>8

(* The entries of an issued snapshot are lost or altered.                  *)
LEMMA SnapshotDamaged ==
    ASSUME NEW d, WellFormed(d), NEW s \in Sessions, d.snapshot[s] = "issued"
    PROVE  LET e == [d EXCEPT !.snapshot[s] = "damaged"]
           IN  WellFormed(e) /\ RowsKept(d, e)
<1> DEFINE e == [d EXCEPT !.snapshot[s] = "damaged"]
<1>1. d \in Databases
  BY DEF WellFormed
<1>2. /\ e.tables = d.tables /\ e.malformed = d.malformed /\ e.columns = d.columns
      /\ e.principals = d.principals /\ e.defaults = d.defaults /\ e.roots = d.roots
      /\ e.sessions = d.sessions
      /\ \A z \in Sessions : e.snapshot[z] = IF z = s THEN "damaged" ELSE d.snapshot[z]
  BY <1>1 DEF Databases
<1>3. e \in Databases
  BY <1>1 DEF Databases
<1>4. Live(e) = Live(d)
  BY <1>2 DEF Live
<1>5. \A z \in Sessions : e.snapshot[z] = Gone <=> d.snapshot[z] = Gone
  BY <1>2, OwnerAssumption
<1>6. WellFormed(e)
  <2>1. /\ e.malformed \subseteq ClassifiedTables \cap e.tables
        /\ e.columns["sessions"] \subseteq {"principal_id", "launcher_id"}
        /\ e.columns["credentials"] \subseteq {"launcher_id"}
        /\ e.columns["mac_boundaries"] \in {{}, {"backend key"}, {"backend key", "kind"}}
    BY <1>2 DEF WellFormed
  <2>2. \A t \in RootTables :
          /\ e.columns[t] \subseteq {"access"}
          /\ \A r \in e.roots[t] : RootRow(e, t, r)
    BY <1>2 DEF WellFormed, RootRow
  <2>3. /\ \A z \in Live(e) :
              /\ "sessions" \in e.tables
              /\ e.sessions[z] \in Launchers => "launcher_id" \in e.columns["sessions"]
        /\ "snapshots" \in e.tables =>
              /\ "sessions" \in e.tables /\ "launcher_id" \in e.columns["sessions"]
              /\ \A z \in Sessions : e.snapshot[z] = Gone <=> e.sessions[z] = Gone
        /\ "snapshots" \notin e.tables => \A z \in Sessions : e.snapshot[z] = Gone
    BY <1>2, <1>4, <1>5 DEF WellFormed
  <2>4. QED
    BY <1>3, <2>1, <2>2, <2>3 DEF WellFormed
<1>7. RowsKept(d, e)
  <2>1. \A t \in RootTables : RootsPreserved(d, e, t)
    BY <1>2, SameRootsPreserved
  <2>2. QED
    BY <1>2, <2>1 DEF RowsKept
<1>8. QED
  BY <1>6, <1>7

(* What the classification of a table says of its columns.                 *)
LEMMA Generations ==
    ASSUME NEW d, WellFormed(d)
    PROVE  /\ classifySessionsSchema(d) # "unsupported" <=>
                 "sessions" \notin d.malformed /\ d.columns["sessions"] # {"principal_id", "launcher_id"}
           /\ classifySessionsSchema(d) = "legacyBare" => d.columns["sessions"] = {}
           /\ classifySessionsSchema(d) = "legacyPrincipal" => d.columns["sessions"] = {"principal_id"}
           /\ classifySessionsSchema(d) = "final" <=>
                 "sessions" \notin d.malformed /\ d.columns["sessions"] = {"launcher_id"}
           /\ classifySessionsSchema(d) \in {"unsupported", "legacyBare", "legacyPrincipal", "final"}
           /\ classifyCredentialsSchema(d) = "pre21" => d.columns["credentials"] = {}
           /\ \A t \in RootTables :
                 classifyAllowedRootsTable(d, t) = "legacyPathOnly" => d.columns[t] = {}
<1> DEFINE owner == d.columns["sessions"]
<1>1. owner \in {{}, {"principal_id"}, {"launcher_id"}, {"principal_id", "launcher_id"}}
  <2>1. owner \subseteq {"principal_id", "launcher_id"}
    BY DEF WellFormed
  <2>2. CASE "principal_id" \in owner /\ "launcher_id" \in owner
    BY <2>1, <2>2
  <2>3. CASE "principal_id" \in owner /\ "launcher_id" \notin owner
    BY <2>1, <2>3
  <2>4. CASE "principal_id" \notin owner /\ "launcher_id" \in owner
    BY <2>1, <2>4
  <2>5. CASE "principal_id" \notin owner /\ "launcher_id" \notin owner
    BY <2>1, <2>5
  <2>6. QED
    BY <2>2, <2>3, <2>4, <2>5
<1>2. /\ {"principal_id"} # {"launcher_id"} /\ {"principal_id"} # {"principal_id", "launcher_id"}
      /\ {"launcher_id"} # {"principal_id", "launcher_id"}
      /\ {} \notin {{"principal_id"}, {"launcher_id"}, {"principal_id", "launcher_id"}}
  OBVIOUS
<1>3. /\ owner = {} => classifySessionsSchema(d) =
            IF "sessions" \in d.malformed THEN "unsupported" ELSE "legacyBare"
      /\ owner = {"principal_id"} => classifySessionsSchema(d) =
            IF "sessions" \in d.malformed THEN "unsupported" ELSE "legacyPrincipal"
      /\ owner = {"launcher_id"} => classifySessionsSchema(d) =
            IF "sessions" \in d.malformed THEN "unsupported" ELSE "final"
      /\ owner = {"principal_id", "launcher_id"} => classifySessionsSchema(d) = "unsupported"
  BY <1>2 DEF classifySessionsSchema
<1>4. classifyCredentialsSchema(d) = "pre21" => d.columns["credentials"] = {}
  <2>1. d.columns["credentials"] \subseteq {"launcher_id"}
    BY DEF WellFormed
  <2>2. QED
    BY <2>1 DEF classifyCredentialsSchema
<1>5. ASSUME NEW t \in RootTables
      PROVE  classifyAllowedRootsTable(d, t) = "legacyPathOnly" => d.columns[t] = {}
  <2>1. d.columns[t] \subseteq {"access"}
    BY DEF WellFormed
  <2>2. QED
    BY <2>1 DEF classifyAllowedRootsTable
<1>6. QED
  BY <1>1, <1>2, <1>3, <1>4, <1>5

(* Every step preserves the shape of the database and keeps its rows.      *)
LEMMA StepRows ==
    ASSUME DaemonInv, [Next]_vars
    PROVE  WellFormed(db') /\ RowsKept(db, db') /\ origin' = origin
<1> DEFINE Goal == WellFormed(db') /\ RowsKept(db, db') /\ origin' = origin
<1> SUFFICES Goal
  OBVIOUS
<1>1. WellFormed(db) /\ ProcessType /\ StepsOK /\ InnerOK
  BY DEF DaemonInv, TypeOK
<1>2. ASSUME UNCHANGED <<db, origin>> PROVE Goal
  BY <1>1, <1>2, SameRowsKept DEF SameRows
<1>3. ASSUME Reload, phase \in Answering, origin' = origin PROVE Goal
  <2>1. doc \in Docs /\ cfg \in Docs /\ "inner" \in Ceiling(doc)
    BY <1>1, <1>3, Places DEF ProcessType, InnerOK, Ceiling, Paths
  <2>2. QED
    BY <1>1, <1>2, <1>3, <2>1, ReloadKinds, RootsPruned
<1>4. CASE Start
  BY <1>4, <1>2 DEF Start
<1>5. CASE LoadConfig
  BY <1>5, <1>2 DEF LoadConfig
<1>6. CASE AcquireInstanceLock
  BY <1>6, <1>2 DEF AcquireInstanceLock
<1>7. CASE LoadAdminToken
  BY <1>7, <1>2 DEF LoadAdminToken
<1>8. CASE CreateTables
  <2>1. CASE UNCHANGED db
    BY <1>8, <1>2, <2>1 DEF CreateTables
  <2>2. ASSUME NEW i \in MissingTables(db), db' = CreateTable(db, CreatedTables[i])
        PROVE  Goal
    <3>1. CreatedTables[i] \in Tables \ {"snapshots"}
      BY TableNames DEF MissingTables
    <3>2. QED
      BY <1>8, <1>1, <2>2, <3>1, TableCreated, SameRowsKept DEF CreateTables
  <2>3. QED
    BY <1>8, <2>1, <2>2 DEF CreateTables
<1>9. CASE InitializeSessions
  <2>1. origin' = origin /\ "sessions" \in Tables
    BY <1>9, TableNames DEF InitializeSessions, StartupStep
  <2>2. CASE UNCHANGED db
    BY <1>2, <2>1, <2>2
  <2>3. CASE db' = AddPrincipalColumn(db) /\ db.columns["sessions"] = {}
    <3>1. db' = Reshape(db, "sessions", {"principal_id"})
      BY <2>3 DEF AddPrincipalColumn, Reshape
    <3>2. Suits(db, "sessions", {"principal_id"})
      BY <2>3 DEF Suits
    <3>3. WellFormed(db') /\ SameRows(db, db') /\ db'.tables = db.tables
      BY <1>1, <2>1, <3>1, <3>2, Reshaped
    <3>4. QED
      BY <2>1, <3>3, SameRowsKept
  <2>4. classifySessionsSchema(db) = "legacyBare" => db.columns["sessions"] = {}
    BY <1>1, Generations
  <2>5. QED
    BY <1>9, <2>2, <2>3, <2>4 DEF InitializeSessions, StartupStep
<1>10. CASE MigrateCredentials
  <2>1. origin' = origin /\ "credentials" \in Tables
    BY <1>10, TableNames DEF MigrateCredentials, StartupStep
  <2>2. CASE UNCHANGED db
    BY <1>2, <2>1, <2>2
  <2>3. CASE db' = RebuildCredentials(db)
    <3>1. db' = Reshape(db, "credentials", {"launcher_id"})
      BY <2>3 DEF RebuildCredentials, Reshape
    <3>2. Suits(db, "credentials", {"launcher_id"})
      BY DEF Suits
    <3>3. QED
      BY <1>1, <2>1, <3>1, <3>2, Reshaped, SameRowsKept
  <2>4. QED
    BY <1>10, <2>2, <2>3 DEF MigrateCredentials, StartupStep
<1>11. ASSUME NEW t \in RootTables, MigrateAllowedRoots(t) PROVE Goal
  <2>1. origin' = origin
    BY <1>11 DEF MigrateAllowedRoots, StartupStep
  <2>2. CASE UNCHANGED db
    BY <1>2, <2>1, <2>2
  <2>3. CASE db' = RebuildAllowedRoots(db, t) /\ db.columns[t] = {}
    BY <1>11, <1>1, <2>1, <2>3, RootsRebuilt
  <2>4. classifyAllowedRootsTable(db, t) = "legacyPathOnly" => db.columns[t] = {}
    BY <1>11, <1>1, Generations
  <2>5. QED
    BY <1>11, <2>2, <2>3, <2>4 DEF MigrateAllowedRoots, StartupStep
<1>12. CASE MigrateMACBoundaries
  <2>1. origin' = origin /\ "mac_boundaries" \in Tables \ {"snapshots"}
    BY <1>12, TableNames DEF MigrateMACBoundaries, StartupStep
  <2>2. CASE UNCHANGED db
    BY <1>2, <2>1, <2>2
  <2>3. CASE db' = CreateTable(db, "mac_boundaries")
    BY <1>1, <2>1, <2>3, TableCreated, SameRowsKept
  <2>4. ASSUME NEW cols \in {{"backend key"}, {"backend key", "kind"}},
               db' = Reshape(db, "mac_boundaries", cols)
        PROVE  Goal
    <3>1. Suits(db, "mac_boundaries", cols)
      BY <2>4 DEF Suits
    <3>2. QED
      BY <1>1, <2>1, <2>4, <3>1, Reshaped, SameRowsKept
  <2>5. ASSUME phase = "mac_kind", "kind" \notin db.columns["mac_boundaries"]
        PROVE  db.columns["mac_boundaries"] \cup {"kind"} = {"backend key", "kind"}
    <3>1. "backend key" \in db.columns["mac_boundaries"]
      BY <1>1, <2>5 DEF StepsOK, PastKey
    <3>2. db.columns["mac_boundaries"] \in {{}, {"backend key"}, {"backend key", "kind"}}
      BY <1>1 DEF WellFormed
    <3>3. QED
      BY <3>1, <3>2
  <2>6. QED
    BY <1>12, <2>2, <2>3, <2>4, <2>5
    DEF MigrateMACBoundaries, StartupStep, RebuildMACKey, AddMACKind, Reshape
<1>13. CASE migrateSessionOwnership
  <2>1. origin' = origin
    BY <1>13 DEF migrateSessionOwnership, StartupStep
  <2>2. CASE UNCHANGED db
    BY <1>2, <2>1, <2>2
  <2>3. CASE db' = MigrateOwnership(db) /\ db.columns["sessions"] = {"principal_id"}
    BY <1>1, <2>1, <2>3, OwnershipMigrated
  <2>4. classifySessionsSchema(db) = "legacyPrincipal" => db.columns["sessions"] = {"principal_id"}
    BY <1>1, Generations
  <2>5. QED
    BY <1>13, <2>2, <2>3, <2>4 DEF migrateSessionOwnership, StartupStep
<1>14. CASE migrateDefaultLaunchers
  BY <1>14, <1>2, <1>1, DefaultEnsured, SameRowsKept DEF migrateDefaultLaunchers
<1>15. CASE migrateSessionFilesystemSnapshots
  <2>1. origin' = origin /\ phase = "snapshots"
    BY <1>15 DEF migrateSessionFilesystemSnapshots, StartupStep
  <2>2. CASE UNCHANGED db
    BY <1>2, <2>1, <2>2
  <2>3. CASE db' = BackfillSnapshots(db) /\ "snapshots" \notin db.tables
    <3>1. phase \in PastTables /\ phase \in PastOwnership
      BY <2>1, Places
    <3>2. "sessions" \in db.tables /\ "launcher_id" \in db.columns["sessions"]
      BY <1>1, <3>1, TableNames DEF StepsOK
    <3>3. QED
      BY <1>1, <2>1, <2>3, <3>2, Backfilled
  <2>4. QED
    BY <1>15, <2>2, <2>3
    DEF migrateSessionFilesystemSnapshots, StartupStep,
        classifySessionFilesystemSnapshotSchema
<1>16. CASE ReconcileStoredRoots
  <2>1. origin' = origin /\ phase \in PastConfig
    BY <1>16, Places DEF ReconcileStoredRoots, StartupStep
  <2>2. "inner" \in Ceiling(cfg)
    BY <1>1, <2>1 DEF InnerOK, Ceiling, Paths
  <2>3. QED
    BY <1>16, <1>2, <1>1, <2>1, <2>2, RootsPruned DEF ReconcileStoredRoots, StartupStep
<1>17. CASE ReconcileMAC
  BY <1>17, <1>2 DEF ReconcileMAC, StartupStep
<1>18. CASE ExpireSessions
  BY <1>18, <1>2, <1>1, ExpiredDeleted DEF ExpireSessions, StartupStep
<1>19. CASE PrepareListeners
  BY <1>19, <1>2 DEF PrepareListeners
<1>20. CASE StartupFails
  BY <1>20, <1>2 DEF StartupFails
<1>21. CASE BeginShutdown
  BY <1>21, <1>2 DEF BeginShutdown
<1>22. CASE FinishShutdown
  BY <1>22, <1>2 DEF FinishShutdown
<1>23. CASE Crash
  BY <1>23, <1>2 DEF Crash
<1>24. CASE OperatorReload
  BY <1>24, <1>3 DEF OperatorReload, Answering
<1>25. ASSUME NEW c \in Commands, ConfigCommand(c) PROVE Goal
  <2>1. UNCHANGED <<phase, origin>> /\ ((Reload /\ phase \in Answering) \/ UNCHANGED db)
    BY <1>25
    DEF ConfigCommand, LockConfig, ReadConfig, WriteConfig, ReloadAnswered, ReloadLost,
        ReloadNoDaemon, RollbackConfig, ResyncAnswered, CommandFails, commandFrame,
        Answering
  <2>2. QED
    BY <1>2, <1>3, <2>1
<1>26. ASSUME NEW r \in Rotations, Rotation(r) PROVE Goal
  BY <1>26, <1>2
  DEF Rotation, AuthorizeRotation, StageToken, RenameToken, PublishToken, RotationFails,
      rotationFrame
<1>27. CASE BeginOfflineCleanup
  BY <1>27, <1>2 DEF BeginOfflineCleanup, otherThanOffline
<1>28. CASE FinishOfflineCleanup
  BY <1>28, <1>2, <1>1, ExpiredDeleted DEF FinishOfflineCleanup, otherThanOffline
<1>29. CASE DamageSnapshot
  BY <1>29, <1>1, SnapshotDamaged DEF DamageSnapshot, otherThanOffline
<1>30. CASE UNCHANGED vars
  BY <1>30, <1>2 DEF vars
<1>31. QED
  BY <1>4, <1>5, <1>6, <1>7, <1>8, <1>9, <1>10, <1>11, <1>12, <1>13, <1>14, <1>15, <1>16,
     <1>17, <1>18, <1>19, <1>20, <1>21, <1>22, <1>23, <1>24, <1>25, <1>26, <1>27, <1>28,
     <1>29, <1>30
  DEF Next, Startup

-----------------------------------------------------------------------------
(* What a finished step of the startup established stays established: the   *)
(* columns of a table only move on to a later generation, and the snapshots *)
(* are only taken away.                                                     *)

Grown(d, e) ==
    /\ d.tables \subseteq e.tables /\ e.malformed = d.malformed
    /\ d.principals \subseteq d.defaults => e.principals \subseteq e.defaults
    /\ \A t \in d.tables :
          \/ e.columns[t] = d.columns[t]
          \/ /\ t = "sessions" /\ "launcher_id" \notin d.columns[t]
             /\ e.columns[t] \in {{"principal_id"}, {"launcher_id"}}
          \/ t \in RootTables \cup {"credentials"} /\ d.columns[t] = {}
          \/ t = "mac_boundaries" /\ "kind" \notin d.columns[t] /\ "backend key" \in e.columns[t]
    /\ "snapshots" \in d.tables /\ SnapshotsIntact(d) => SnapshotsIntact(e)

(* From the phase of one step to the phase of another, with what the step  *)
(* has to establish for each of the phases it enters.                      *)
Entered(S, fact) == phase' \in S => phase \in S \/ fact

(* The steps after a later migration are steps after every earlier one.    *)
LEMMA Nested ==
    /\ PastReconcile \subseteq PastSnapshots /\ PastSnapshots \subseteq PastDefaults
    /\ PastDefaults \subseteq PastOwnership /\ PastOwnership \subseteq PastKind
    /\ PastKind \subseteq PastKey /\ PastKey \subseteq PastMACTable
    /\ PastMACTable \subseteq PastLauncherRoots /\ PastLauncherRoots \subseteq PastPrincipalRoots
    /\ PastPrincipalRoots \subseteq PastCredentials /\ PastCredentials \subseteq PastSessions
    /\ PastSessions \subseteq PastTables /\ PastTables \subseteq PastToken
    /\ PastToken \subseteq PastLock /\ PastLock \subseteq PastConfig
  BY Places

(* A step keeps what the finished startup steps established when the       *)
(* database only grows and the step it enters has been established.        *)
LEMMA Advance ==
    ASSUME StepsOK, Grown(db, db'),
           Entered(PastTables, InitialTables \subseteq db'.tables),
           Entered(PastSessions, /\ {"sessions", "launchers"} \cap db'.malformed = {}
                                 /\ db'.columns["sessions"] \in {{"principal_id"}, {"launcher_id"}}),
           Entered(PastCredentials, /\ "credentials" \notin db'.malformed
                                    /\ db'.columns["credentials"] = {"launcher_id"}),
           Entered(PastPrincipalRoots, /\ "principal_allowed_roots" \notin db'.malformed
                                       /\ db'.columns["principal_allowed_roots"] = {"access"}),
           Entered(PastLauncherRoots, /\ "launcher_allowed_roots" \notin db'.malformed
                                      /\ db'.columns["launcher_allowed_roots"] = {"access"}),
           Entered(PastMACTable, "mac_boundaries" \in db'.tables),
           Entered(PastKey, "backend key" \in db'.columns["mac_boundaries"]),
           Entered(PastKind, db'.columns["mac_boundaries"] = {"backend key", "kind"}),
           Entered(PastOwnership, db'.columns["sessions"] = {"launcher_id"}),
           Entered(PastDefaults, db'.principals \subseteq db'.defaults),
           Entered(PastSnapshots, /\ "snapshots" \in db'.tables /\ "snapshots" \notin db'.malformed
                                  /\ SnapshotsIntact(db')),
           phase' \in PastReconcile =>
               \/ phase \in PastReconcile /\ cfg' = cfg /\ db'.roots = db.roots
               \/ Covered(db', Ceiling(cfg'))
    PROVE  StepsOK'
<1>1. phase' \in PastTables => InitialTables \subseteq db'.tables
  BY DEF StepsOK, Grown, Entered
<1>2. phase \in PastSessions => {"sessions", "credentials"} \cup RootTables \subseteq db.tables
  BY Nested, TableNames DEF StepsOK
<1>3. phase' \in PastSessions =>
        /\ {"sessions", "launchers"} \cap db'.malformed = {}
        /\ db'.columns["sessions"] \in {{"principal_id"}, {"launcher_id"}}
  <2>1. CASE phase \in PastSessions
    <3>1. /\ "sessions" \in db.tables /\ {"sessions", "launchers"} \cap db.malformed = {}
          /\ db.columns["sessions"] \in {{"principal_id"}, {"launcher_id"}}
      BY <1>2, <2>1 DEF StepsOK
    <3>2. db.columns["sessions"] # {} /\ "sessions" \notin RootTables \cup {"credentials"}
      BY <3>1 DEF RootTables
    <3>3. db'.columns["sessions"] \in {{"principal_id"}, {"launcher_id"}}
      BY <3>1, <3>2 DEF Grown
    <3>4. QED
      BY <3>1, <3>3 DEF Grown
  <2>2. QED
    BY <2>1 DEF Entered
<1>4. phase' \in PastCredentials =>
        "credentials" \notin db'.malformed /\ db'.columns["credentials"] = {"launcher_id"}
  <2>1. CASE phase \in PastCredentials
    <3>1. /\ "credentials" \in db.tables /\ "credentials" \notin db.malformed
          /\ db.columns["credentials"] = {"launcher_id"}
      BY <1>2, <2>1, Nested DEF StepsOK
    <3>2. db.columns["credentials"] # {}
      BY <3>1
    <3>3. QED
      BY <3>1, <3>2 DEF Grown
  <2>2. QED
    BY <2>1 DEF Entered
<1>5. ASSUME NEW t \in RootTables, t \notin db.malformed, db.columns[t] = {"access"}, t \in db.tables
      PROVE  t \notin db'.malformed /\ db'.columns[t] = {"access"}
  <2>1. db.columns[t] # {} /\ t \notin {"sessions", "mac_boundaries"}
    BY <1>5 DEF RootTables
  <2>2. QED
    BY <1>5, <2>1 DEF Grown
<1>6. phase' \in PastPrincipalRoots =>
        /\ "principal_allowed_roots" \notin db'.malformed
        /\ db'.columns["principal_allowed_roots"] = {"access"}
  BY <1>2, <1>5, Nested DEF StepsOK, Entered, RootTables
<1>7. phase' \in PastLauncherRoots =>
        /\ "launcher_allowed_roots" \notin db'.malformed
        /\ db'.columns["launcher_allowed_roots"] = {"access"}
  BY <1>2, <1>5, Nested DEF StepsOK, Entered, RootTables
<1>8. phase' \in PastMACTable => "mac_boundaries" \in db'.tables
  BY DEF StepsOK, Entered, Grown
<1>9. phase \in PastKey =>
        /\ "mac_boundaries" \in db.tables /\ "mac_boundaries" \notin RootTables \cup {"credentials"}
        /\ "backend key" \in db.columns["mac_boundaries"]
  BY Nested DEF StepsOK, RootTables
<1>10. phase' \in PastKey => "backend key" \in db'.columns["mac_boundaries"]
  BY <1>9 DEF Entered, Grown
<1>11. phase' \in PastKind => db'.columns["mac_boundaries"] = {"backend key", "kind"}
  <2>1. CASE phase \in PastKind
    <3>1. db.columns["mac_boundaries"] = {"backend key", "kind"} /\ phase \in PastKey
      BY <2>1, Nested DEF StepsOK
    <3>2. "kind" \in db.columns["mac_boundaries"]
      BY <3>1
    <3>3. QED
      BY <1>9, <3>1, <3>2 DEF Grown
  <2>2. QED
    BY <2>1 DEF Entered
<1>12. phase' \in PastOwnership => db'.columns["sessions"] = {"launcher_id"}
  <2>1. CASE phase \in PastOwnership
    <3>1. db.columns["sessions"] = {"launcher_id"} /\ phase \in PastSessions
      BY <2>1, Nested DEF StepsOK
    <3>2. "launcher_id" \in db.columns["sessions"] /\ "sessions" \notin RootTables \cup {"credentials"}
      BY <3>1 DEF RootTables
    <3>3. QED
      BY <1>2, <3>1, <3>2 DEF Grown
  <2>2. QED
    BY <2>1 DEF Entered
<1>13. phase' \in PastDefaults => db'.principals \subseteq db'.defaults
  BY DEF StepsOK, Entered, Grown
<1>14. phase' \in PastSnapshots =>
         "snapshots" \in db'.tables /\ "snapshots" \notin db'.malformed /\ SnapshotsIntact(db')
  BY DEF StepsOK, Entered, Grown
<1>15. phase' \in PastReconcile => Covered(db', Ceiling(cfg'))
  BY DEF StepsOK, Covered
<1>16. QED
  BY <1>1, <1>3, <1>4, <1>6, <1>7, <1>8, <1>10, <1>11, <1>12, <1>13, <1>14, <1>15
  DEF StepsOK

(* Before the tables exist nothing is established.                         *)
LEMMA NotYet ==
    ASSUME phase' \notin PastTables
    PROVE  StepsOK'
  BY Nested DEF StepsOK

(* An unchanged database has grown.                                        *)
LEMMA GrownSame == \A d : Grown(d, d)
  BY DEF Grown

(* The columns of one table, or a table, or a default launcher are added.  *)
LEMMA GrownShape ==
    ASSUME NEW d, NEW e, WellFormed(d), SameRows(d, e), d.tables \subseteq e.tables,
           d.defaults \subseteq e.defaults,
           \A t \in d.tables \cap Tables :
               \/ e.columns[t] = d.columns[t]
               \/ /\ t = "sessions" /\ "launcher_id" \notin d.columns[t]
                  /\ e.columns[t] \in {{"principal_id"}, {"launcher_id"}}
               \/ t \in RootTables \cup {"credentials"} /\ d.columns[t] = {}
               \/ t = "mac_boundaries" /\ "kind" \notin d.columns[t] /\ "backend key" \in e.columns[t]
    PROVE  Grown(d, e)
<1>1. d.tables \subseteq Tables
  BY DEF WellFormed, Databases
<1>2. SnapshotsIntact(d) => SnapshotsIntact(e)
  BY DEF SameRows, SnapshotsIntact, Verified, Live
<1>3. QED
  BY <1>1, <1>2 DEF Grown, SameRows

(* Rows are moved or taken away.                                           *)
LEMMA GrownRows ==
    ASSUME NEW d, NEW e, WellFormed(d), RowsKept(d, e), d.malformed = e.malformed,
           e.principals = d.principals, d.defaults \subseteq e.defaults,
           \A t \in d.tables \cap Tables :
               \/ e.columns[t] = d.columns[t]
               \/ /\ t = "sessions" /\ "launcher_id" \notin d.columns[t]
                  /\ e.columns[t] \in {{"principal_id"}, {"launcher_id"}}
               \/ t \in RootTables \cup {"credentials"} /\ d.columns[t] = {},
           "snapshots" \in d.tables /\ SnapshotsIntact(d) => SnapshotsIntact(e)
    PROVE  Grown(d, e)
<1>1. d.tables \subseteq Tables
  BY DEF WellFormed, Databases
<1>2. QED
  BY <1>1 DEF Grown, RowsKept

(* Pruning stored roots to a ceiling keeps the roots inside it, and what   *)
(* was established.                                                        *)
LEMMA GrownPruned ==
    ASSUME NEW d, WellFormed(d), NEW ceiling, "inner" \in ceiling
    PROVE  LET e == PruneRoots(d, ceiling)
           IN  Grown(d, e) /\ Covered(e, ceiling)
<1> DEFINE e == PruneRoots(d, ceiling)
<1>1. /\ RowsKept(d, e) /\ e.tables = d.tables /\ e.malformed = d.malformed
      /\ e.columns = d.columns /\ e.principals = d.principals /\ e.defaults = d.defaults
      /\ e.sessions = d.sessions /\ e.snapshot = d.snapshot
      /\ Covered(e, ceiling)
  BY RootsPruned
<1>2. SnapshotsIntact(d) => SnapshotsIntact(e)
  BY <1>1 DEF SnapshotsIntact, Verified, Live
<1>3. QED
  BY <1>1, <1>2, GrownRows


(* A step keeps what the earlier ones established and adds its own.        *)
LEMMA StepStepsOK ==
    ASSUME DaemonInv, [Next]_vars
    PROVE  StepsOK'
<1>1. WellFormed(db) /\ ProcessType /\ StepsOK /\ InnerOK /\ HostOK
  BY DEF DaemonInv, TypeOK
<1>2. ASSUME UNCHANGED <<phase, db, cfg>> PROVE StepsOK'
  BY <1>1, <1>2 DEF StepsOK
<1>3. ASSUME Reload, phase \in Answering, phase' = phase PROVE StepsOK'
  <2>1. doc \in Docs /\ cfg \in Docs /\ "inner" \in Ceiling(doc)
    BY <1>1, <1>3, Places DEF ProcessType, InnerOK, Ceiling, Paths
  <2>2. CASE UNCHANGED <<cfg, db>>
    BY <1>2, <1>3, <2>2
  <2>3. CASE Ceiling(cfg') = Ceiling(doc) /\ db' = PruneRoots(db, Ceiling(doc))
    <3>1. Grown(db, db') /\ Covered(db', Ceiling(doc))
      BY <1>1, <2>1, <2>3, GrownPruned
    <3>2. QED
      BY <1>1, <1>3, <2>3, <3>1, Advance DEF Entered
  <2>4. QED
    BY <1>3, <2>1, <2>2, <2>3, ReloadKinds DEF Published
<1>4. ASSUME Exit PROVE StepsOK'
  <2>1. phase' \notin PastTables
    BY <1>4, Places DEF Exit
  <2>2. QED
    BY <2>1, NotYet
<1>5. CASE Start
  <2>1. phase' \notin PastTables
    BY <1>5, StepOrder, Places DEF Start
  <2>2. QED
    BY <2>1, NotYet
<1>6. CASE LoadConfig
  <2>1. phase' \notin PastTables
    BY <1>6, StepOrder, Places DEF LoadConfig, Exit
  <2>2. QED
    BY <2>1, NotYet
<1>7. CASE AcquireInstanceLock
  <2>1. phase' \notin PastTables
    BY <1>7, StepOrder, Places DEF AcquireInstanceLock, Exit, Proceed
  <2>2. QED
    BY <2>1, NotYet
<1>8. CASE LoadAdminToken
  <2>1. phase' \notin PastTables
    BY <1>8, StepOrder, Places DEF LoadAdminToken
  <2>2. QED
    BY <2>1, NotYet
<1>9. CASE CreateTables
  <2>1. CASE phase' = phase
    BY <1>9, <2>1, NotYet, Places DEF CreateTables
  <2>2. CASE phase' # phase
    <3>1. /\ phase = "tables" /\ phase' = "sessions" /\ db' = db /\ cfg' = cfg
          /\ MissingTables(db) = {}
      BY <1>9, <2>2, StepOrder DEF CreateTables, Proceed
    <3>2. InitialTables \subseteq db'.tables
      BY <3>1 DEF MissingTables, InitialTables
    <3>3. phase \in PastToken /\ phase' \notin PastSessions
      BY <3>1, Places
    <3>4. QED
      BY <1>1, <3>1, <3>2, GrownSame, Advance, <3>3, Nested DEF Entered
  <2>3. QED
    BY <2>1, <2>2
<1>10. CASE InitializeSessions
  <2>1. CASE Exit
    BY <2>1, <1>4
  <2>2. CASE ~Exit
    <3>1. /\ phase = "sessions" /\ phase' = "credentials" /\ cfg' = cfg
          /\ "launchers" \notin db.malformed /\ classifySessionsSchema(db) # "unsupported"
          /\ db' = IF classifySessionsSchema(db) = "legacyBare" THEN AddPrincipalColumn(db) ELSE db
      BY <1>10, <2>2, StepOrder
      DEF InitializeSessions, StartupStep, Proceed, verifyLaunchersNameInvariant
    <3>2. CASE classifySessionsSchema(db) # "legacyBare"
      <4>1. /\ "sessions" \notin db.malformed
            /\ db.columns["sessions"] \in {{"principal_id"}, {"launcher_id"}}
        BY <1>1, <3>1, <3>2, Generations
      <4>2. db' = db
        BY <3>1, <3>2
      <4>3. phase \in PastTables /\ phase' \notin PastCredentials
        BY <3>1, Places
      <4>4. QED
        BY <1>1, <3>1, <4>1, <4>2, GrownSame, Advance, <4>3, Nested DEF Entered
    <3>3. CASE classifySessionsSchema(db) = "legacyBare"
      <4>1. /\ "sessions" \notin db.malformed /\ "launcher_id" \notin db.columns["sessions"]
            /\ "sessions" \in Tables
        BY <1>1, <3>1, <3>3, Generations, TableNames
      <4>2. Suits(db, "sessions", {"principal_id"}) /\ db' = Reshape(db, "sessions", {"principal_id"})
        BY <3>1, <3>3, <4>1 DEF AddPrincipalColumn, Reshape, Suits
      <4>3. /\ SameRows(db, db') /\ db'.tables = db.tables /\ db'.defaults = db.defaults
            /\ \A u \in Tables \ {"sessions"} : db'.columns[u] = db.columns[u]
            /\ db'.columns["sessions"] = {"principal_id"}
        BY <1>1, <4>1, <4>2, Reshaped
      <4>4. Grown(db, db') /\ db'.columns["sessions"] = {"principal_id"}
        BY <1>1, <4>1, <4>3, GrownShape
      <4>5. "sessions" \notin db'.malformed /\ "launchers" \notin db'.malformed
        BY <3>1, <4>1, <4>3 DEF SameRows
      <4>6. phase \in PastTables /\ phase' \notin PastCredentials
        BY <3>1, Places
      <4>7. QED
        BY <1>1, <3>1, <4>4, <4>5, Advance, <4>6, Nested DEF Entered
    <3>4. QED
      BY <3>2, <3>3
  <2>3. QED
    BY <2>1, <2>2
<1>11. CASE MigrateCredentials
  <2>1. CASE Exit
    BY <2>1, <1>4
  <2>2. CASE ~Exit
    <3>1. /\ phase = "credentials" /\ phase' = "principal_allowed_roots" /\ cfg' = cfg
          /\ classifyCredentialsSchema(db) # "unsupported"
          /\ db' = IF classifyCredentialsSchema(db) = "pre21" THEN RebuildCredentials(db) ELSE db
      BY <1>11, <2>2, StepOrder DEF MigrateCredentials, StartupStep, Proceed
    <3>2. "credentials" \notin db.malformed
      BY <3>1 DEF classifyCredentialsSchema
    <3>3. CASE classifyCredentialsSchema(db) # "pre21"
      <4>1. db' = db /\ db.columns["credentials"] = {"launcher_id"}
        BY <3>1, <3>2, <3>3 DEF classifyCredentialsSchema
      <4>2. phase \in PastSessions /\ phase' \notin PastPrincipalRoots
        BY <3>1, Places
      <4>3. QED
        BY <1>1, <3>1, <3>2, <4>1, GrownSame, Advance, <4>2, Nested DEF Entered
    <3>4. CASE classifyCredentialsSchema(db) = "pre21"
      <4>1. db.columns["credentials"] = {} /\ "credentials" \in Tables
        BY <1>1, <3>4, Generations, TableNames
      <4>2. Suits(db, "credentials", {"launcher_id"}) /\ db' = Reshape(db, "credentials", {"launcher_id"})
        BY <3>1, <3>4 DEF RebuildCredentials, Reshape, Suits
      <4>3. /\ SameRows(db, db') /\ db'.tables = db.tables /\ db'.defaults = db.defaults
            /\ \A u \in Tables \ {"credentials"} : db'.columns[u] = db.columns[u]
            /\ db'.columns["credentials"] = {"launcher_id"}
        BY <1>1, <4>1, <4>2, Reshaped
      <4>4. Grown(db, db') /\ db'.columns["credentials"] = {"launcher_id"}
        BY <1>1, <4>1, <4>3, GrownShape
      <4>5. "credentials" \notin db'.malformed
        BY <3>2, <4>3 DEF SameRows
      <4>6. phase \in PastSessions /\ phase' \notin PastPrincipalRoots
        BY <3>1, Places
      <4>7. QED
        BY <1>1, <3>1, <4>4, <4>5, Advance, <4>6, Nested DEF Entered
    <3>5. QED
      BY <3>3, <3>4
  <2>3. QED
    BY <2>1, <2>2
<1>12. ASSUME NEW t \in RootTables, MigrateAllowedRoots(t) PROVE StepsOK'
  <2>1. CASE Exit
    BY <2>1, <1>4
  <2>2. CASE ~Exit
    <3>1. /\ phase = t /\ phase' = StepAfter[t] /\ cfg' = cfg /\ t \notin db.malformed
          /\ db' = IF classifyAllowedRootsTable(db, t) = "legacyPathOnly"
                   THEN RebuildAllowedRoots(db, t) ELSE db
      BY <1>12, <2>2
      DEF MigrateAllowedRoots, StartupStep, Proceed, classifyAllowedRootsTable
    <3>2. \/ t = "principal_allowed_roots" /\ phase' = "launcher_allowed_roots"
          \/ t = "launcher_allowed_roots" /\ phase' = "mac_table"
      BY <1>12, <3>1, StepOrder DEF RootTables
    <3>3. Grown(db, db') /\ t \notin db'.malformed /\ db'.columns[t] = {"access"}
      <4>1. CASE classifyAllowedRootsTable(db, t) # "legacyPathOnly"
        BY <3>1, <4>1, GrownSame DEF classifyAllowedRootsTable
      <4>2. CASE classifyAllowedRootsTable(db, t) = "legacyPathOnly"
        <5>1. db.columns[t] = {} /\ db' = RebuildAllowedRoots(db, t)
          BY <1>12, <1>1, <3>1, <4>2, Generations
        <5>2. /\ RowsKept(db, db') /\ db'.tables = db.tables /\ db'.malformed = db.malformed
              /\ db'.principals = db.principals /\ db'.defaults = db.defaults
              /\ db'.sessions = db.sessions /\ db'.snapshot = db.snapshot
              /\ \A u \in Tables \ {t} : db'.columns[u] = db.columns[u]
              /\ db'.columns[t] = {"access"}
          BY <1>12, <1>1, <5>1, RootsRebuilt
        <5>3. SnapshotsIntact(db) => SnapshotsIntact(db')
          BY <5>2 DEF SnapshotsIntact, Verified, Live
        <5>4. Grown(db, db')
          BY <1>12, <1>1, <5>1, <5>2, <5>3, GrownRows
        <5>5. QED
          BY <3>1, <5>2, <5>4
      <4>3. QED
        BY <4>1, <4>2
    <3>4. QED
      BY <1>1, <3>1, <3>2, <3>3, Advance, Places DEF Entered
  <2>3. QED
    BY <2>1, <2>2
<1>13. CASE MigrateMACBoundaries
  <2>1. CASE StartupStep("mac_table", TRUE, CreateTable(db, "mac_boundaries"))
    <3>1. /\ phase = "mac_table" /\ phase' = "mac_key" /\ cfg' = cfg
          /\ db' = CreateTable(db, "mac_boundaries") /\ "mac_boundaries" \in Tables \ {"snapshots"}
      BY <2>1, StepOrder, TableNames DEF StartupStep, Proceed
    <3>2. /\ SameRows(db, db') /\ db'.defaults = db.defaults
          /\ db'.tables = db.tables \cup {"mac_boundaries"}
          /\ \A u \in Tables : u \in db.tables \/ u # "mac_boundaries" => db'.columns[u] = db.columns[u]
      BY <1>1, <3>1, TableCreated
    <3>3. Grown(db, db')
      BY <1>1, <3>2, GrownShape
    <3>4. phase \in PastLauncherRoots /\ phase' \notin PastKey
      BY <3>1, Places
    <3>5. QED
      BY <1>1, <3>1, <3>2, <3>3, Advance, <3>4, Nested DEF Entered
  <2>2. ASSUME NEW cols, cols \in {{"backend key"}, {"backend key", "kind"}},
               "kind" \notin db.columns["mac_boundaries"],
               db' = Reshape(db, "mac_boundaries", cols)
        PROVE  Grown(db, db') /\ db'.columns["mac_boundaries"] = cols
    <3>1. /\ "mac_boundaries" \in Tables /\ Suits(db, "mac_boundaries", cols)
          /\ db' = Reshape(db, "mac_boundaries", cols)
      BY <2>2, TableNames DEF Suits
    <3>2. /\ SameRows(db, db') /\ db'.tables = db.tables /\ db'.defaults = db.defaults
          /\ \A u \in Tables \ {"mac_boundaries"} : db'.columns[u] = db.columns[u]
          /\ db'.columns["mac_boundaries"] = cols
      BY <1>1, <3>1, Reshaped
    <3>3. "backend key" \in db'.columns["mac_boundaries"]
      BY <2>2, <3>2
    <3>4. QED
      BY <1>1, <2>2, <3>2, <3>3, GrownShape
  <2>3. db.columns["mac_boundaries"] \in {{}, {"backend key"}, {"backend key", "kind"}}
    BY <1>1 DEF WellFormed
  <2>4. CASE StartupStep("mac_key", TRUE,
               IF "backend key" \in db.columns["mac_boundaries"] THEN db ELSE RebuildMACKey(db))
    <3>1. phase = "mac_key" /\ phase' = "mac_kind" /\ cfg' = cfg
      BY <2>4, StepOrder DEF StartupStep, Proceed
    <3>2. Grown(db, db') /\ "backend key" \in db'.columns["mac_boundaries"]
      BY <2>2, <2>3, <2>4, GrownSame DEF StartupStep, RebuildMACKey, Reshape
    <3>3. phase \in PastMACTable /\ phase' \notin PastKind
      BY <3>1, Places
    <3>4. QED
      BY <1>1, <3>1, <3>2, Advance, <3>3, Nested DEF Entered
  <2>5. CASE StartupStep("mac_kind", TRUE,
               IF "kind" \in db.columns["mac_boundaries"] THEN db ELSE AddMACKind(db))
    <3>1. phase = "mac_kind" /\ phase' = "ownership" /\ cfg' = cfg
      BY <2>5, StepOrder DEF StartupStep, Proceed
    <3>2. "backend key" \in db.columns["mac_boundaries"]
      BY <1>1, <3>1 DEF StepsOK, PastKey
    <3>3. Grown(db, db') /\ db'.columns["mac_boundaries"] = {"backend key", "kind"}
      <4>1. CASE "kind" \in db.columns["mac_boundaries"]
        BY <2>3, <2>5, <4>1, GrownSame DEF StartupStep
      <4>2. CASE "kind" \notin db.columns["mac_boundaries"]
        <5>1. db.columns["mac_boundaries"] \cup {"kind"} = {"backend key", "kind"}
          BY <2>3, <3>2, <4>2
        <5>2. db' = Reshape(db, "mac_boundaries", {"backend key", "kind"})
          BY <2>5, <4>2, <5>1 DEF StartupStep, AddMACKind, Reshape
        <5>3. QED
          BY <2>2, <4>2, <5>2
      <4>3. QED
        BY <4>1, <4>2
    <3>4. phase \in PastKey /\ phase' \notin PastOwnership
      BY <3>1, Places
    <3>5. QED
      BY <1>1, <3>1, <3>3, Advance, <3>4, Nested DEF Entered
  <2>6. QED
    BY <1>13, <2>1, <2>4, <2>5 DEF MigrateMACBoundaries
<1>14. CASE migrateSessionOwnership
  <2>1. CASE Exit
    BY <2>1, <1>4
  <2>2. CASE ~Exit
    <3>1. /\ phase = "ownership" /\ phase' = "defaults" /\ cfg' = cfg
          /\ \/ classifySessionsSchema(db) = "final" /\ db' = db
             \/ classifySessionsSchema(db) = "legacyPrincipal" /\ db' = MigrateOwnership(db)
      BY <1>14, <2>2, StepOrder DEF migrateSessionOwnership, StartupStep, Proceed
    <3>2. CASE classifySessionsSchema(db) = "final" /\ db' = db
      <4>1. db.columns["sessions"] = {"launcher_id"}
        BY <1>1, <3>2, Generations
      <4>2. phase \in PastKind /\ phase' \notin PastDefaults
        BY <3>1, Places
      <4>3. QED
        BY <1>1, <3>1, <3>2, <4>1, GrownSame, Advance, <4>2, Nested DEF Entered
    <3>3. CASE classifySessionsSchema(db) = "legacyPrincipal" /\ db' = MigrateOwnership(db)
      <4>1. db.columns["sessions"] = {"principal_id"} /\ "sessions" \in Tables
        BY <1>1, <3>3, Generations, TableNames
      <4>2. /\ RowsKept(db, db') /\ db'.tables = db.tables /\ db'.malformed = db.malformed
            /\ \A u \in Tables \ {"sessions"} : db'.columns[u] = db.columns[u]
            /\ db'.columns["sessions"] = {"launcher_id"}
        BY <1>1, <3>3, <4>1, OwnershipMigrated
      <4>3. "launcher_id" \notin db.columns["sessions"]
        BY <4>1
      <4>4. "snapshots" \notin db.tables
        BY <1>1, <4>3 DEF WellFormed
      <4>5. db'.principals = db.principals /\ db.defaults \subseteq db'.defaults
        BY <1>1, <3>3 DEF MigrateOwnership, WellFormed, Databases
      <4>6. Grown(db, db') /\ db'.columns["sessions"] = {"launcher_id"}
        BY <1>1, <4>1, <4>2, <4>3, <4>4, <4>5, GrownRows
      <4>7. phase \in PastKind /\ phase' \notin PastDefaults
        BY <3>1, Places
      <4>8. QED
        BY <1>1, <3>1, <4>6, Advance, <4>7, Nested DEF Entered
    <3>4. QED
      BY <3>1, <3>2, <3>3
  <2>3. QED
    BY <2>1, <2>2
<1>15. CASE migrateDefaultLaunchers
  <2>1. CASE db.principals \subseteq db.defaults
    <3>1. phase = "defaults" /\ phase' = "snapshots" /\ UNCHANGED <<db, cfg>>
      BY <1>15, <2>1, StepOrder DEF migrateDefaultLaunchers, Proceed
    <3>2. phase \in PastOwnership /\ phase' \notin PastSnapshots
      BY <3>1, Places
    <3>3. QED
      BY <1>1, <2>1, <3>1, GrownSame, Advance, <3>2, Nested DEF Entered
  <2>2. CASE ~(db.principals \subseteq db.defaults)
    <3>1. PICK p \in db.principals : db' = EnsureDefaultLauncher(db, p)
      BY <1>15, <2>2 DEF migrateDefaultLaunchers
    <3>2. UNCHANGED <<phase, cfg>>
      BY <1>15, <2>2 DEF migrateDefaultLaunchers
    <3>3. SameRows(db, db') /\ db'.tables = db.tables /\ db'.columns = db.columns
      BY <1>1, <3>1, DefaultEnsured
    <3>4. db.defaults \subseteq db'.defaults
      BY <1>1, <3>1 DEF EnsureDefaultLauncher, WellFormed, Databases
    <3>5. Grown(db, db')
      BY <1>1, <3>3, <3>4, GrownShape
    <3>6. QED
      BY <1>1, <3>2, <3>3, <3>5, Advance DEF Entered, SameRows
  <2>3. QED
    BY <2>1, <2>2
<1>16. CASE migrateSessionFilesystemSnapshots
  <2>1. CASE Exit
    BY <2>1, <1>4
  <2>2. CASE ~Exit
    <3>1. /\ phase = "snapshots" /\ phase' = "reconcile" /\ cfg' = cfg
          /\ \/ "snapshots" \notin db.tables /\ db' = BackfillSnapshots(db)
             \/ /\ "snapshots" \in db.tables /\ "snapshots" \notin db.malformed
                /\ SnapshotsIntact(db) /\ db' = db
      BY <1>16, <2>2, StepOrder
      DEF migrateSessionFilesystemSnapshots, StartupStep, Proceed,
          classifySessionFilesystemSnapshotSchema
    <3>2. CASE db' = db /\ "snapshots" \in db.tables
      <4>1. phase \in PastDefaults /\ phase' \notin PastReconcile
        BY <3>1, Places
      <4>2. QED
        BY <1>1, <3>1, <3>2, GrownSame, Advance, <4>1, Nested DEF Entered
    <3>3. CASE "snapshots" \notin db.tables /\ db' = BackfillSnapshots(db)
      <4>1. phase \in PastTables /\ phase \in PastOwnership
        BY <3>1, Places
      <4>2. "sessions" \in db.tables /\ "launcher_id" \in db.columns["sessions"]
        BY <1>1, <4>1, TableNames DEF StepsOK
      <4>3. /\ RowsKept(db, db') /\ SnapshotsIntact(db')
            /\ db'.tables = db.tables \cup {"snapshots"} /\ db'.malformed = db.malformed
            /\ db'.columns = db.columns /\ db'.principals = db.principals /\ db'.defaults = db.defaults
        BY <1>1, <3>3, <4>2, Backfilled
      <4>4. Grown(db, db')
        BY <1>1, <3>3, <4>3, GrownRows
      <4>5. "snapshots" \notin db.malformed
        BY <1>1, <3>3 DEF WellFormed
      <4>6. phase \in PastDefaults /\ phase' \notin PastReconcile
        BY <3>1, Places
      <4>7. QED
        BY <1>1, <3>1, <4>3, <4>4, <4>5, Advance, <4>6, Nested DEF Entered
    <3>4. QED
      BY <3>1, <3>2, <3>3
  <2>3. QED
    BY <2>1, <2>2
<1>17. CASE ReconcileStoredRoots
  <2>1. /\ phase = "reconcile" /\ phase' = "mac" /\ cfg' = cfg
        /\ db' = PruneRoots(db, Ceiling(cfg))
    BY <1>17, StepOrder DEF ReconcileStoredRoots, StartupStep, Proceed
  <2>2. phase \in PastConfig
    BY <2>1, Places
  <2>3. "inner" \in Ceiling(cfg)
    BY <1>1, <2>2 DEF InnerOK, Ceiling, Paths
  <2>4. Grown(db, db') /\ Covered(db', Ceiling(cfg))
    BY <1>1, <2>1, <2>3, GrownPruned
  <2>5. QED
    BY <1>1, <2>1, <2>4, Advance, Places DEF Entered
<1>18. CASE ReconcileMAC
  <2>1. phase = "mac" /\ phase' = "expire" /\ UNCHANGED <<db, cfg>>
    BY <1>18, StepOrder DEF ReconcileMAC, StartupStep, Proceed
  <2>2. QED
    BY <1>1, <2>1, GrownSame, Advance, Places DEF Entered
<1>19. CASE ExpireSessions
  <2>1. phase = "expire" /\ phase' = "listen" /\ cfg' = cfg /\ db' = DeleteExpired(db)
    BY <1>19, StepOrder DEF ExpireSessions, StartupStep, Proceed
  <2>2. /\ RowsKept(db, db') /\ db'.tables = db.tables /\ db'.malformed = db.malformed
        /\ db'.columns = db.columns /\ db'.principals = db.principals /\ db'.defaults = db.defaults
        /\ db'.roots = db.roots
        /\ SnapshotsIntact(db) => SnapshotsIntact(db')
    BY <1>1, <2>1, ExpiredDeleted
  <2>3. Grown(db, db')
    BY <1>1, <2>2, GrownRows
  <2>4. QED
    BY <1>1, <2>1, <2>2, <2>3, Advance, Places DEF Entered
<1>20. CASE PrepareListeners
  <2>1. CASE Exit
    BY <2>1, <1>4
  <2>2. CASE phase = "listen" /\ phase' = "serving" /\ UNCHANGED <<db, cfg>>
    BY <1>1, <2>2, GrownSame, Advance, Places DEF Entered
  <2>3. QED
    BY <1>20, <2>1, <2>2, StepOrder DEF PrepareListeners, Proceed
<1>21. CASE StartupFails
  <2>1. phase' \notin PastTables
    BY <1>21, StepOrder, Places DEF StartupFails, Exit
  <2>2. QED
    BY <2>1, NotYet
<1>22. CASE BeginShutdown
  <2>1. /\ phase = "serving" /\ phase' = "draining" /\ UNCHANGED <<db, cfg>>
    BY <1>22 DEF BeginShutdown
  <2>2. QED
    BY <1>1, <2>1, GrownSame, Advance, Places DEF Entered
<1>23. CASE FinishShutdown
  <2>1. phase' \notin PastTables
    BY <1>23, StepOrder, Places DEF FinishShutdown, Exit
  <2>2. QED
    BY <2>1, NotYet
<1>24. CASE Crash
  <2>1. phase' \notin PastTables
    BY <1>24, StepOrder, Places DEF Crash, Exit
  <2>2. QED
    BY <2>1, NotYet
<1>25. CASE OperatorReload
  BY <1>25, <1>3 DEF OperatorReload, Answering
<1>26. ASSUME NEW c \in Commands, ConfigCommand(c) PROVE StepsOK'
  <2>1. UNCHANGED phase /\ ((Reload /\ phase \in Answering) \/ UNCHANGED <<db, cfg>>)
    BY <1>26
    DEF ConfigCommand, LockConfig, ReadConfig, WriteConfig, ReloadAnswered, ReloadLost,
        ReloadNoDaemon, RollbackConfig, ResyncAnswered, CommandFails, commandFrame,
        Answering
  <2>2. QED
    BY <1>2, <1>3, <2>1
<1>27. ASSUME NEW r \in Rotations, Rotation(r) PROVE StepsOK'
  BY <1>27, <1>2
  DEF Rotation, AuthorizeRotation, StageToken, RenameToken, PublishToken, RotationFails,
      rotationFrame
<1>28. CASE BeginOfflineCleanup
  BY <1>28, <1>2 DEF BeginOfflineCleanup, otherThanOffline
<1>29. CASE FinishOfflineCleanup
  <2>1. phase' = phase /\ phase \notin PastLock
    BY <1>29, <1>1 DEF FinishOfflineCleanup, otherThanOffline, HostOK
  <2>2. QED
    BY <2>1, Nested, NotYet
<1>30. CASE DamageSnapshot
  <2>1. phase' \notin PastTables
    BY <1>30, StepOrder, Places DEF DamageSnapshot, otherThanOffline
  <2>2. QED
    BY <2>1, NotYet
<1>31. CASE UNCHANGED vars
  BY <1>31, <1>2 DEF vars
<1>32. QED
  BY <1>5, <1>6, <1>7, <1>8, <1>9, <1>10, <1>11, <1>12, <1>13, <1>14, <1>15, <1>16,
     <1>17, <1>18, <1>19, <1>20, <1>21, <1>22, <1>23, <1>24, <1>25, <1>26, <1>27, <1>28,
     <1>29, <1>30, <1>31
  DEF Next, Startup

-----------------------------------------------------------------------------
(* The process, its lock, its socket and its trusted-CA directory.         *)
LEMMA StepProcess ==
    ASSUME DaemonInv, [Next]_vars
    PROVE  ProcessType' /\ HostOK'
<1>1. ProcessType /\ HostOK /\ ConfigOK /\ LockOK
  BY DEF DaemonInv, TypeOK
<1>2. ASSUME phase \in Phases \ ({"down", "config", "lock", "listen"} \cup Answering),
             Proceed \/ Exit, UNCHANGED <<doc, material, socket, offline, faults>>
      PROVE  ProcessType' /\ HostOK'
  BY <1>1, <1>2, StepOrder, Places DEF Proceed, Exit, ProcessType, HostOK
<1>3. ASSUME Reload, phase \in Answering
      PROVE  cfg' \in Docs /\ (cfg'.ca = "auto" => material' = "complete")
  <2>1. doc \in Docs /\ cfg \in Docs /\ (cfg.ca = "auto" => material = "complete")
    BY <1>1, <1>3, Places DEF ProcessType, HostOK
  <2>2. QED
    BY <1>3, <2>1, ReloadKinds DEF Published
<1>4. CASE Start
  BY <1>4, <1>1, StepOrder, Places
  DEF Start, ProcessType, HostOK, Fault, HoldsLock, PrepareCA
<1>5. CASE LoadConfig
  BY <1>5, <1>1, StepOrder, Places
  DEF LoadConfig, Exit, PrepareCA, ProcessType, HostOK, Fault, HoldsLock
<1>6. CASE AcquireInstanceLock
  BY <1>6, <1>1, StepOrder, Places
  DEF AcquireInstanceLock, Exit, Proceed, ProcessType, HostOK, Fault, HoldsLock,
      PrepareCA
<1>7. CASE LoadAdminToken
  BY <1>7, <1>1, StepOrder, Places
  DEF LoadAdminToken, ProcessType, HostOK, Fault, HoldsLock, PrepareCA
<1>8. CASE CreateTables
  BY <1>8, <1>1, StepOrder, Places
  DEF CreateTables, Proceed, ProcessType, HostOK, Fault, HoldsLock, PrepareCA
<1>9. CASE InitializeSessions
  BY <1>9, <1>2, Places DEF InitializeSessions, StartupStep
<1>10. CASE MigrateCredentials
  BY <1>10, <1>2, Places DEF MigrateCredentials, StartupStep
<1>11. ASSUME NEW t \in RootTables, MigrateAllowedRoots(t) PROVE ProcessType' /\ HostOK'
  BY <1>11, <1>2, Places DEF MigrateAllowedRoots, StartupStep, RootTables
<1>12. CASE MigrateMACBoundaries
  BY <1>12, <1>2, Places DEF MigrateMACBoundaries, StartupStep
<1>13. CASE migrateSessionOwnership
  BY <1>13, <1>2, Places DEF migrateSessionOwnership, StartupStep
<1>14. CASE migrateDefaultLaunchers
  BY <1>14, <1>1, StepOrder, Places
  DEF migrateDefaultLaunchers, Proceed, ProcessType, HostOK, Fault, HoldsLock, PrepareCA
<1>15. CASE migrateSessionFilesystemSnapshots
  BY <1>15, <1>2, Places DEF migrateSessionFilesystemSnapshots, StartupStep
<1>16. CASE ReconcileStoredRoots
  BY <1>16, <1>2, Places DEF ReconcileStoredRoots, StartupStep
<1>17. CASE ReconcileMAC
  BY <1>17, <1>2, Places DEF ReconcileMAC, StartupStep
<1>18. CASE ExpireSessions
  BY <1>18, <1>2, Places DEF ExpireSessions, StartupStep
<1>19. CASE PrepareListeners
  BY <1>19, <1>1, StepOrder, Places
  DEF PrepareListeners, Proceed, Exit, ProcessType, HostOK, Fault, HoldsLock, PrepareCA
<1>20. CASE StartupFails
  BY <1>20, <1>1, StepOrder, Places
  DEF StartupFails, Exit, ProcessType, HostOK, Fault, HoldsLock, PrepareCA
<1>21. CASE BeginShutdown
  BY <1>21, <1>1, StepOrder, Places
  DEF BeginShutdown, ProcessType, HostOK, Fault, HoldsLock, PrepareCA
<1>22. CASE FinishShutdown
  BY <1>22, <1>1, StepOrder, Places
  DEF FinishShutdown, Exit, ProcessType, HostOK, Fault, HoldsLock, PrepareCA
<1>23. CASE Crash
  <2>1. /\ phase' = "down" /\ faults' = faults + 1 /\ UNCHANGED <<doc, offline>>
        /\ socket' \in {"none", "stale"}
    BY <1>1, <1>23 DEF Crash, Exit, Fault, ProcessType
  <2>2. "down" \notin PastConfig
    BY Places
  <2>3. QED
    BY <1>1, <2>1, <2>2, Nested DEF ProcessType, HostOK, Phases
<1>24. CASE OperatorReload
  <2>1. UNCHANGED <<phase, socket, offline, doc, faults>> /\ Reload /\ phase \in Answering
    BY <1>24 DEF OperatorReload, Answering
  <2>2. QED
    BY <1>1, <1>3, <2>1 DEF ProcessType, HostOK
<1>25. ASSUME NEW c \in Commands, ConfigCommand(c) PROVE ProcessType' /\ HostOK'
  <2>1. /\ UNCHANGED <<phase, socket, offline>> /\ (faults' = faults \/ Fault)
        /\ (Reload /\ phase \in Answering) \/ UNCHANGED <<cfg, material>>
    BY <1>25
    DEF ConfigCommand, LockConfig, ReadConfig, WriteConfig, ReloadAnswered, ReloadLost,
        ReloadNoDaemon, RollbackConfig, ResyncAnswered, CommandFails, commandFrame,
        Answering
  <2>2. doc' \in Docs
    BY <1>25, <1>1
    DEF ConfigCommand, LockConfig, ReadConfig, WriteConfig, ReloadAnswered, ReloadLost,
        ReloadNoDaemon, RollbackConfig, ResyncAnswered, CommandFails, ProcessType,
        ConfigOK
  <2>3. QED
    BY <1>1, <1>3, <2>1, <2>2 DEF ProcessType, HostOK, Fault
<1>26. ASSUME NEW r \in Rotations, Rotation(r) PROVE ProcessType' /\ HostOK'
  BY <1>26, <1>1
  DEF Rotation, AuthorizeRotation, StageToken, RenameToken, PublishToken, RotationFails,
      rotationFrame, ProcessType, HostOK, Fault
<1>27. CASE BeginOfflineCleanup
  BY <1>27, <1>1, StepOrder, Places
  DEF BeginOfflineCleanup, otherThanOffline, ProcessType, HostOK, Fault, HoldsLock,
      PrepareCA
<1>28. CASE FinishOfflineCleanup
  BY <1>28, <1>1, StepOrder, Places
  DEF FinishOfflineCleanup, otherThanOffline, ProcessType, HostOK, Fault, HoldsLock,
      PrepareCA
<1>29. CASE DamageSnapshot
  BY <1>29, <1>1, StepOrder, Places
  DEF DamageSnapshot, otherThanOffline, ProcessType, HostOK, Fault, HoldsLock, PrepareCA
<1>30. CASE UNCHANGED vars
  BY <1>30, <1>1 DEF vars, ProcessType, HostOK
<1>31. QED
  BY <1>4, <1>5, <1>6, <1>7, <1>8, <1>9, <1>10, <1>11, <1>12, <1>13, <1>14, <1>15, <1>16,
     <1>17, <1>18, <1>19, <1>20, <1>21, <1>22, <1>23, <1>24, <1>25, <1>26, <1>27, <1>28,
     <1>29, <1>30
  DEF Next, Startup

(* A rotation keeps the kinds of its requests.                             *)
LEMMA StepRotationType ==
    ASSUME TypeOK, TokenOK, [Next]_vars
    PROVE  RotationType'
<1>1. RotationType /\ ProcessType
  BY DEF TypeOK
<1>2. CASE Quiet
  BY <1>1, <1>2 DEF Quiet, RotationType
<1>3. CASE Exit
  BY <1>1, <1>3 DEF Exit, RotationType
<1>4. CASE LoadAdminToken
  BY <1>1, <1>4 DEF LoadAdminToken, RotationType
<1>5. ASSUME NEW r \in Rotations, Rotation(r) PROVE RotationType'
  <2>1. phase = "serving" /\ mu = None => hash \in Rotations \cup {FirstToken}
    BY Places DEF TokenOK
  <2>2. QED
    BY <1>1, <1>5, <2>1
    DEF Rotation, AuthorizeRotation, StageToken, RenameToken, PublishToken,
        RotationFails, RotationType
<1>6. QED
  BY <1>2, <1>3, <1>4, <1>5, TokenFrame

(* Without a command the file and the reports about it stay as they are.   *)
LEMMA StepConfig ==
    ASSUME DaemonInv, [Next]_vars
    PROVE  CommandType' /\ LockOK' /\ ConfigOK' /\ InnerOK'
<1>1. CommandType /\ ProcessType /\ LockOK /\ ConfigOK /\ InnerOK /\ TypeOK
  BY DEF DaemonInv, TypeOK
<1>2. CASE Calm /\ Current
  <2>1. CommandType' /\ LockOK'
    BY <1>1, <1>2 DEF Calm, CommandType, LockOK
  <2>2. phase' \in PastConfig /\ configLock = None /\ lastReport \in {"applied", "rolled back"} =>
          Runtime(cfg') = Runtime(doc)
    BY <1>1, <1>2 DEF Current, ConfigOK
  <2>3. ConfigOK'
    BY <1>1, <1>2, <2>2 DEF Calm, ConfigOK
  <2>4. phase' \in PastConfig => cfg'["inner"] # "absent"
    BY <1>1, <1>2 DEF Current, InnerOK
  <2>5. InnerOK'
    BY <1>1, <1>2, <2>4 DEF Calm, InnerOK
  <2>6. QED
    BY <2>1, <2>3, <2>5
<1>3. QED
  BY <1>1, <1>2, StepCommand, ConfigFrame

(* The invariant is kept by every step.                                    *)
LEMMA StepDaemonInv ==
    ASSUME DaemonInv, [Next]_vars
    PROVE  DaemonInv'
<1>1. TypeOK /\ TokenOK /\ OriginOK /\ WellFormed(db)
  BY DEF DaemonInv, TypeOK
<1>2. WellFormed(db)' /\ OriginOK'
  BY <1>1, StepRows, OriginKept
<1>3. TypeOK'
  BY <1>1, <1>2, StepProcess, StepRotationType, StepConfig DEF TypeOK
<1>4. QED
  BY <1>2, <1>3, StepTokenOK, StepConfig, StepProcess, StepStepsOK DEF DaemonInv

(* The first start on a released database satisfies the invariant.         *)
LEMMA InitDaemonInv ==
    ASSUME Init
    PROVE  DaemonInv
<1>1. PICK disk \in InitialDisks : db = disk.db /\ doc = disk.doc
  BY DEF Init
<1>2. Released(db) /\ doc \in Docs /\ doc["inner"] # "absent" /\ origin = db
  BY <1>1, DiskAssumption DEF Init
<1>3. phase = "down" /\ "down" \notin PastConfig
  BY Places DEF Init
<1>4. ProcessType
  BY <1>2, <1>3 DEF Init, ProcessType, Phases
<1>5. CommandType
  <2>1. Idle \in [pc : {"idle", "locked", "write", "reload", "rollback", "resync", "done"},
                  change : Mutations \cup {None},
                  raw : Docs \cup {None}, original : Docs \cup {None}]
    BY DEF Idle
  <2>2. {m.field : m \in Mutations} \subseteq Fields
    BY MutationAssumption
  <2>3. QED
    BY <2>1, <2>2 DEF Init, CommandType
<1>6. RotationType
  BY DEF Init, RotationType
<1>7. TokenOK
  BY <1>3, Nested, NameAssumption DEF Init, TokenOK, Replaced
<1>8. LockOK /\ ConfigOK /\ InnerOK
  <2>1. \A c \in Commands : cmd[c].pc = "idle" /\ configLock = None
    BY DEF Init, Idle
  <2>2. Kept(doc, accepted)
    BY DEF Init, Kept
  <2>3. QED
    BY <1>2, <1>3, <2>1, <2>2, NameAssumption DEF Init, LockOK, ConfigOK, InnerOK
<1>9. HostOK
  BY <1>3, Nested DEF Init, HostOK
<1>10. StepsOK
  BY <1>3, Nested DEF StepsOK
<1>11. OriginOK
  <2>1. WellFormed(db) /\ SnapshotsNeverInvented
    BY <1>2 DEF Released, SnapshotsNeverInvented
  <2>2. db.sessions \in [Sessions -> Principals \cup {NoOwner, Gone} \cup Launchers]
    BY <2>1 DEF WellFormed, Databases
  <2>3. MigrationsPreserve
    BY <1>2, <2>2, OwnerAssumption DEF MigrationsPreserve, RootsPreserved, PrincipalOf
  <2>4. QED
    BY <1>2, <2>1, <2>3 DEF OriginOK
<1>12. QED
  BY <1>2, <1>4, <1>5, <1>6, <1>7, <1>8, <1>9, <1>10, <1>11
  DEF DaemonInv, TypeOK, Released

-----------------------------------------------------------------------------
(* A start ends without serving, and without a fault of that moment.       *)
Ended == phase \notin {"down", "serving", "draining"} /\ phase' = "down" /\ faults' = faults

(* A start that ends without a fault had a cause that is still there.      *)
LEMMA EndedForCause ==
    ASSUME DaemonInv, [Next]_vars, Ended
    PROVE  offline \/ ~Servable
<1>1. WellFormed(db) /\ ProcessType /\ StepsOK /\ HostOK
  BY DEF DaemonInv, TypeOK
<1>2. CASE Start
  BY <1>2, <1>1, StepOrder DEF Start, Ended
<1>3. CASE LoadConfig
  BY <1>3, StepOrder DEF LoadConfig, Ended, Servable
<1>4. CASE AcquireInstanceLock
  BY <1>4, StepOrder DEF AcquireInstanceLock, Proceed, Ended
<1>5. CASE LoadAdminToken
  BY <1>5, <1>1, StepOrder DEF LoadAdminToken, Ended
<1>6. CASE CreateTables
  BY <1>6, <1>1, StepOrder DEF CreateTables, Proceed, Ended
<1>7. CASE InitializeSessions
  <2>1. ~(verifyLaunchersNameInvariant(db) /\ classifySessionsSchema(db) # "unsupported")
    BY <1>7, StepOrder DEF InitializeSessions, StartupStep, Proceed, Ended
  <2>2. QED
    BY <1>1, <2>1, Generations DEF verifyLaunchersNameInvariant, Servable
<1>8. CASE MigrateCredentials
  <2>1. classifyCredentialsSchema(db) = "unsupported"
    BY <1>8, StepOrder DEF MigrateCredentials, StartupStep, Proceed, Ended
  <2>2. QED
    BY <2>1 DEF classifyCredentialsSchema, Servable
<1>9. ASSUME NEW t \in RootTables, MigrateAllowedRoots(t) PROVE offline \/ ~Servable
  <2>1. classifyAllowedRootsTable(db, t) = "unsupported"
    BY <1>9, StepOrder DEF MigrateAllowedRoots, StartupStep, Proceed, Ended, RootTables
  <2>2. QED
    BY <2>1 DEF classifyAllowedRootsTable, Servable
<1>10. CASE MigrateMACBoundaries
  BY <1>10, StepOrder DEF MigrateMACBoundaries, StartupStep, Proceed, Ended
<1>11. CASE migrateSessionOwnership
  <2>1. /\ phase = "ownership" /\ classifySessionsSchema(db) # "final"
        /\ ~(classifySessionsSchema(db) = "legacyPrincipal" /\ OwnershipMigratable(db))
    BY <1>11, StepOrder DEF migrateSessionOwnership, StartupStep, Proceed, Ended
  <2>2. phase \in PastSessions
    BY <2>1, Places
  <2>3. "sessions" \notin db.malformed /\ db.columns["sessions"] \in {{"principal_id"}, {"launcher_id"}}
    BY <1>1, <2>2 DEF StepsOK
  <2>4. db.columns["sessions"] # {} /\ db.columns["sessions"] # {"principal_id", "launcher_id"}
    BY <2>3
  <2>5. classifySessionsSchema(db) = "legacyPrincipal"
    BY <1>1, <2>1, <2>3, <2>4, Generations
  <2>6. QED
    BY <2>1, <2>5 DEF Servable
<1>12. CASE migrateDefaultLaunchers
  BY <1>12, <1>1, StepOrder DEF migrateDefaultLaunchers, Proceed, Ended
<1>13. CASE migrateSessionFilesystemSnapshots
  <2>1. /\ "snapshots" \in db.tables
        /\ "snapshots" \in db.malformed \/ ~SnapshotsIntact(db)
    BY <1>13, StepOrder
    DEF migrateSessionFilesystemSnapshots, StartupStep, Proceed, Ended,
        classifySessionFilesystemSnapshotSchema
  <2>2. /\ \A s \in Sessions : db.snapshot[s] = Gone <=> db.sessions[s] = Gone
        /\ \A s \in Sessions : db.snapshot[s] \in {Gone, "workspace", "issued", "damaged"}
    BY <1>1, <2>1 DEF WellFormed, Databases
  <2>3. ~SnapshotsIntact(db) => \E s \in Sessions : db.snapshot[s] = "damaged"
    BY <2>2 DEF SnapshotsIntact, Verified, Live
  <2>4. QED
    BY <2>1, <2>3 DEF Servable
<1>14. CASE ReconcileStoredRoots
  BY <1>14, StepOrder DEF ReconcileStoredRoots, StartupStep, Proceed, Ended
<1>15. CASE ReconcileMAC
  BY <1>15, StepOrder DEF ReconcileMAC, StartupStep, Proceed, Ended
<1>16. CASE ExpireSessions
  BY <1>16, StepOrder DEF ExpireSessions, StartupStep, Proceed, Ended
<1>17. CASE PrepareListeners
  BY <1>17, <1>1, StepOrder DEF PrepareListeners, Proceed, HostOK, Ended
<1>18. CASE StartupFails
  BY <1>18, <1>1 DEF StartupFails, Fault, Ended, ProcessType
<1>19. CASE BeginShutdown
  BY <1>19, <1>1, StepOrder DEF BeginShutdown, Ended
<1>20. CASE FinishShutdown
  BY <1>20, <1>1, StepOrder DEF FinishShutdown, Ended
<1>21. CASE Crash
  BY <1>21, <1>1 DEF Crash, Fault, Ended, ProcessType
<1>22. CASE OperatorReload
  BY <1>22, <1>1, StepOrder DEF OperatorReload, Ended
<1>23. ASSUME NEW c \in Commands, ConfigCommand(c) PROVE offline \/ ~Servable
  BY <1>23
  DEF ConfigCommand, LockConfig, ReadConfig, WriteConfig, ReloadAnswered, ReloadLost,
      ReloadNoDaemon, RollbackConfig, ResyncAnswered, CommandFails, commandFrame, Ended
<1>24. ASSUME NEW r \in Rotations, Rotation(r) PROVE offline \/ ~Servable
  BY <1>24
  DEF Rotation, AuthorizeRotation, StageToken, RenameToken, PublishToken, RotationFails,
      rotationFrame, Ended
<1>25. CASE BeginOfflineCleanup
  BY <1>25, <1>1, StepOrder DEF BeginOfflineCleanup, otherThanOffline, Ended
<1>26. CASE FinishOfflineCleanup
  BY <1>26, <1>1, StepOrder DEF FinishOfflineCleanup, otherThanOffline, Ended
<1>27. CASE DamageSnapshot
  BY <1>27, <1>1, StepOrder DEF DamageSnapshot, otherThanOffline, Ended
<1>28. CASE UNCHANGED vars
  BY <1>28 DEF vars, Ended
<1>29. QED
  BY <1>2, <1>3, <1>4, <1>5, <1>6, <1>7, <1>8, <1>9, <1>10, <1>11, <1>12, <1>13, <1>14,
     <1>15, <1>16, <1>17, <1>18, <1>19, <1>20, <1>21, <1>22, <1>23, <1>24, <1>25, <1>26,
     <1>27, <1>28
  DEF Next, Startup

-----------------------------------------------------------------------------
(* The theorems *)

(* From any database a release left behind, in every state the daemon, the *)
(* commands, the rotations and the offline cleanup can reach (runDaemon,   *)
(* executeConfigTransaction, rotateAdminToken): the inductive invariant.   *)
THEOREM DaemonInvariant == Spec => []DaemonInv
<1>1. Init => DaemonInv
  BY InitDaemonInv
<1>2. DaemonInv /\ [Next]_vars => DaemonInv'
  BY StepDaemonInv
<1>3. QED
  BY <1>1, <1>2, PTL DEF Spec

(* The token in memory is the one on disk whenever no rotation is under    *)
(* way, and of two rotations authorized by one token at most one succeeds, *)
(* with the daemon crashing at any point between staging, rename and       *)
(* publication (app.go rotateAdminToken).                                  *)
THEOREM AdminTokenIsKept == Spec => []AdminTokenCustody
<1>1. DaemonInv => AdminTokenCustody
  <2>1. {"serving", "draining"} \subseteq PastToken
    BY Places
  <2>2. QED
    BY <2>1 DEF DaemonInv, TokenOK, AdminTokenCustody
<1>2. QED
  BY <1>1, DaemonInvariant, PTL

(* A change a config command reported as made is in the file until a later *)
(* command changes that field, and after "applied" or "rolled back" the    *)
(* serving daemon runs the file's configuration, whichever commands were   *)
(* killed and whichever answers were lost (executeConfigTransaction).      *)
THEOREM ReportsAreTruthful == Spec => []ConfigReportsTruthful
<1>1. DaemonInv => ConfigReportsTruthful
  <2>1. "serving" \in PastConfig
    BY Places
  <2>2. QED
    BY <2>1 DEF DaemonInv, ConfigOK, Kept, ConfigReportsTruthful
<1>2. QED
  BY <1>1, DaemonInvariant, PTL

(* A snapshot is made up from the workspace only for a database that had   *)
(* no snapshots at all at the first start, never to repair a lost one      *)
(* (migrateSessionFilesystemSnapshots).                                    *)
THEOREM SnapshotsAreNeverInvented == Spec => []SnapshotsNeverInvented
<1>1. DaemonInv => SnapshotsNeverInvented
  BY DEF DaemonInv, OriginOK
<1>2. QED
  BY <1>1, DaemonInvariant, PTL

(* Through any order of migrations, crashes and restarts a session keeps   *)
(* its owner, a stored root its owner, path and access, and a stored root   *)
(* stays while every ceiling above it covers it (database.go, ownership.go, *)
(* allowed_root_store.go, allowed_root_cascade.go).                         *)
THEOREM MigrationsKeepRows == Spec => []MigrationsPreserve
<1>1. DaemonInv => MigrationsPreserve
  BY DEF DaemonInv, OriginOK
<1>2. QED
  BY <1>1, DaemonInvariant, PTL

(* A daemon that answers has final tables, a default launcher for every    *)
(* principal, an intact snapshot for every session, no stored root outside *)
(* its ceiling, no launcher's outside its principal's stored roots, and    *)
(* complete trusted-CA material (runDaemon).                               *)
THEOREM ServedStateIsProven == Spec => []ServesProvenState
<1>1. ASSUME DaemonInv, phase \in {"serving", "draining"}
      PROVE  /\ db.tables = Tables /\ db.malformed = {}
             /\ classifySessionsSchema(db) = "final"
             /\ classifyCredentialsSchema(db) = "final"
             /\ db.columns["mac_boundaries"] = {"backend key", "kind"}
             /\ db.principals \subseteq db.defaults
             /\ SnapshotsIntact(db)
             /\ \A t \in RootTables : \A r \in db.roots[t] : r.access # "none"
             /\ Covered(db, Ceiling(cfg))
             /\ cfg.ca = "auto" => material = "complete"
  <2>1. phase \in PastReconcile /\ WellFormed(db) /\ StepsOK /\ HostOK
    BY <1>1 DEF DaemonInv, TypeOK, PastReconcile, Answering
  <2>2. /\ InitialTables \cup {"mac_boundaries", "snapshots"} \subseteq db.tables
        /\ "credentials" \notin db.malformed /\ db.columns["credentials"] = {"launcher_id"}
        /\ db.columns["mac_boundaries"] = {"backend key", "kind"}
        /\ db.principals \subseteq db.defaults /\ SnapshotsIntact(db)
        /\ {"sessions", "launchers"} \cap db.malformed = {}
        /\ db.columns["sessions"] = {"launcher_id"}
        /\ "snapshots" \notin db.malformed
    BY <2>1, Nested DEF StepsOK
  <2>3. \A t \in RootTables : t \notin db.malformed /\ db.columns[t] = {"access"}
    BY <2>1, Nested DEF StepsOK, RootTables
  <2>4. db.tables \subseteq Tables /\ db.malformed \subseteq ClassifiedTables
    BY <2>1 DEF WellFormed, Databases
  <2>5. db.tables = Tables
    BY <2>2, <2>4, TableNames
  <2>6. db.malformed = {}
    BY <2>2, <2>3, <2>4 DEF ClassifiedTables
  <2>7. classifySessionsSchema(db) = "final" /\ classifyCredentialsSchema(db) = "final"
    BY <2>1, <2>2, Generations DEF classifyCredentialsSchema
  <2>8. ASSUME NEW t \in RootTables, NEW r \in db.roots[t]
        PROVE  r.access # "none"
    <3>1. db.columns[t] # {}
      BY <2>3
    <3>2. r.access = "none" <=> db.columns[t] = {}
      BY <2>1, <2>8 DEF WellFormed, RootRow
    <3>3. QED
      BY <3>1, <3>2
  <2>9. cfg.ca = "auto" => material = "complete"
    BY <2>1, Nested DEF HostOK
  <2>10. Covered(db, Ceiling(cfg))
    BY <2>1 DEF StepsOK
  <2>11. QED
    BY <2>2, <2>5, <2>6, <2>7, <2>8, <2>9, <2>10
<1>2. DaemonInv => ServesProvenState
  BY <1>1 DEF ServesProvenState
<1>3. QED
  BY <1>2, DaemonInvariant, PTL

(* A start that ends without serving ends by a fault of that moment, by    *)
(* the offline command's lock, or for a reason that is still there: no     *)
(* half-done migration, stale socket, staging residue or abandoned lock    *)
(* stands in the way of the next one (runDaemon).                          *)
THEOREM RefusalsHaveCause == Spec => RefusedOnlyForCause
<1>1. DaemonInv /\ [Next]_vars =>
        [phase \notin {"down", "serving", "draining"} /\ phase' = "down" /\ faults' = faults
           => offline \/ ~Servable]_vars
  BY EndedForCause DEF Ended
<1>2. QED
  BY <1>1, DaemonInvariant, PTL DEF Spec, RefusedOnlyForCause
=============================================================================
