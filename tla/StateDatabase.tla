--------------------------- MODULE StateDatabase ---------------------------
(***************************************************************************)
(* The durable SQLite state of docker-helper and the migrations that bring *)
(* every supported release's database to the current schema.               *)
(*                                                                         *)
(* A database is a record of what the migrations tell apart: which tables  *)
(* exist, which of the columns that name a schema generation each table    *)
(* has, which tables fail the positive classification for another reason   *)
(* (a wrong type, key, index, foreign key or CHECK), and the rows.         *)
(* Every operator here is one committed statement or one committed         *)
(* transaction; DaemonLifecycle runs them one at a time, with crashes in   *)
(* between.                                                                *)
(***************************************************************************)
EXTENDS Naturals, Sequences

CONSTANTS Principals,   \* principal ids sessions and roots may refer to
          Sessions,     \* session ids
          Expired,      \* the sessions whose expires_at has passed
          LauncherNames, \* the names of a principal's launchers
          NoOwner,      \* a legacy session row with a NULL principal_id
          Gone          \* no row

ASSUME ExpiredAssumption == Expired \subseteq Sessions

Launchers == Principals \X LauncherNames

\* An owner column holds a principal, a launcher or NULL, never two of them.
ASSUME OwnerAssumption ==
    /\ "default" \in LauncherNames
    /\ NoOwner # Gone /\ {NoOwner, Gone} \cap Principals = {}
    /\ (Principals \cup {NoOwner, Gone}) \cap Launchers = {}
    /\ Gone \notin {"workspace", "issued", "damaged"}

-----------------------------------------------------------------------------
(* Tables and columns *)

RootTables == {"principal_allowed_roots", "launcher_allowed_roots"}

\* The tables initializeDatabase creates first, in the order of its DDL.
CreatedTables == <<"sessions", "principals", "principal_allowed_roots",
                   "launchers", "launcher_allowed_roots", "credentials">>

InitialTables == {CreatedTables[i] : i \in DOMAIN CreatedTables}

Tables == InitialTables \cup {"mac_boundaries", "snapshots"}

\* The generation columns of the tables this build creates. mac_boundaries is
\* created with its composite key and gets its kind column afterwards.
CreatedColumns ==
    [t \in Tables |->
        CASE t = "sessions"       -> {"launcher_id"}
          [] t = "credentials"    -> {"launcher_id"}
          [] t \in RootTables     -> {"access"}
          [] t = "mac_boundaries" -> {"backend key"}
          [] OTHER                -> {}]

DefaultLauncher(p) == <<p, "default">>

\* Who a session row or a stored root belongs to, under any generation.
PrincipalOf(row) == IF row \in Principals \cup {NoOwner, Gone} THEN row ELSE row[1]

Live(db) == {s \in Sessions : db.sessions[s] # Gone}

-----------------------------------------------------------------------------
(* Classification: the shape of a table names its generation, and a shape   *)
(* that is not exactly one of the supported ones is unsupported.            *)

classifySessionsSchema(db) ==
    LET owner == db.columns["sessions"]
    IN  IF "sessions" \in db.malformed \/ owner = {"principal_id", "launcher_id"}
        THEN "unsupported"
        ELSE CASE owner = {}               -> "legacyBare"
               [] owner = {"principal_id"} -> "legacyPrincipal"
               [] owner = {"launcher_id"}  -> "final"

classifyCredentialsSchema(db) ==
    IF "credentials" \in db.malformed THEN "unsupported"
    ELSE IF db.columns["credentials"] = {"launcher_id"} THEN "final" ELSE "pre21"

classifyAllowedRootsTable(db, t) ==
    IF t \in db.malformed THEN "unsupported"
    ELSE IF db.columns[t] = {"access"} THEN "final" ELSE "legacyPathOnly"

classifySessionFilesystemSnapshotSchema(db) ==
    IF "snapshots" \notin db.tables THEN "absent"
    ELSE IF "snapshots" \in db.malformed THEN "unsupported" ELSE "canonical"

\* verifyLaunchersNameInvariant: the launchers DDL carries the name CHECK.
verifyLaunchersNameInvariant(db) == "launchers" \notin db.malformed

-----------------------------------------------------------------------------
(* Migrations *)

\* CREATE TABLE IF NOT EXISTS: an existing table keeps whatever shape it has.
CreateTable(db, t) ==
    IF t \in db.tables THEN db
    ELSE [db EXCEPT !.tables = @ \cup {t}, !.columns[t] = CreatedColumns[t]]

\* The places of the tables of the first statement that are still missing.
MissingTables(db) == {i \in DOMAIN CreatedTables : CreatedTables[i] \notin db.tables}

\* ALTER TABLE sessions ADD COLUMN principal_id: every existing row has NULL.
AddPrincipalColumn(db) == [db EXCEPT !.columns["sessions"] = {"principal_id"}]

\* migrateCredentialsToConcreteOwnerSchema: rows are copied with launcher_id NULL.
RebuildCredentials(db) == [db EXCEPT !.columns["credentials"] = {"launcher_id"}]

\* migrateAllowedRootsTableToAccessSchema: a path-only row becomes read_write.
RebuildAllowedRoots(db, t) ==
    [db EXCEPT !.columns[t] = {"access"},
               !.roots[t] = {[r EXCEPT !.access = "read_write"] : r \in @}]

\* The composite-key rebuild and the additive kind column of mac_boundaries.
RebuildMACKey(db) == [db EXCEPT !.columns["mac_boundaries"] = {"backend key"}]
AddMACKind(db) == [db EXCEPT !.columns["mac_boundaries"] = @ \cup {"kind"}]

SessionPrincipals(db) ==
    {db.sessions[s] : s \in Sessions} \cap Principals

\* A legacy row naming a principal that no longer exists fails the cutover.
OwnershipMigratable(db) == SessionPrincipals(db) \subseteq db.principals

\* Mutant: the rows of a principal without a default launcher are dropped.
MutMigrateOwnership(db) ==
    [db EXCEPT
        !.columns["sessions"] = {"launcher_id"},
        !.defaults = @ \cup SessionPrincipals(db),
        !.sessions = [s \in Sessions |->
            IF @[s] \in db.defaults THEN DefaultLauncher(@[s]) ELSE Gone]]

\* migrateSessionOwnership: one transaction rebuilds the table; the rows of a
\* principal go to its default launcher, rows without an owner are dropped.
MigrateOwnership(db) ==
    [db EXCEPT
        !.columns["sessions"] = {"launcher_id"},
        !.defaults = @ \cup SessionPrincipals(db),
        !.sessions = [s \in Sessions |->
            IF @[s] \in Principals THEN DefaultLauncher(@[s]) ELSE Gone]]

\* ensureDefaultLauncher: an insert-or-ignore of one principal's anchor.
EnsureDefaultLauncher(db, p) == [db EXCEPT !.defaults = @ \cup {p}]

\* backfillSessionFilesystemSnapshots: tables, entries and digests in one
\* transaction, from sessions.workspace alone.
BackfillSnapshots(db) ==
    [db EXCEPT !.tables = @ \cup {"snapshots"},
               !.snapshot = [s \in Sessions |->
                                IF s \in Live(db) THEN "workspace" ELSE Gone]]

\* loadSessionFilesystemSnapshot: the entries match their count and digest.
Verified(db, s) == db.snapshot[s] \in {"workspace", "issued"}

\* verifySessionFilesystemSnapshots: every session's snapshot, and no orphan.
SnapshotsIntact(db) ==
    \A s \in Sessions : IF s \in Live(db) THEN Verified(db, s)
                                          ELSE db.snapshot[s] = Gone

\* isWithinAnyAllowedRoot. "inner" is a directory below "outer"; every other
\* path lies below itself alone.
WithinAny(path, roots) == path \in roots \/ (path = "inner" /\ "outer" \in roots)

\* The paths of a principal's own stored roots, among the rows given.
RootsOf(p, rows) == {r.path : r \in {q \in rows : q.owner = p}}

\* Mutant: both levels are cut to the global ceiling, launchers not to their
\* principal's.
MutPruneRoots(db, ceiling) ==
    [db EXCEPT !.roots = [t \in RootTables |-> {r \in @[t] : WithinAny(r.path, ceiling)}]]

\* reconcileStoredAllowedRootsToGlobalCeiling: a principal's roots outside the
\* global ceiling go, and with them the roots of its launchers that no root it
\* keeps contains. What it keeps lies below the global roots, so those paths
\* are its effective ceiling; a launcher with stored roots is restricted.
PruneRoots(db, ceiling) ==
    LET kept == {r \in db.roots["principal_allowed_roots"] : WithinAny(r.path, ceiling)}
    IN  [db EXCEPT
            !.roots["principal_allowed_roots"] = kept,
            !.roots["launcher_allowed_roots"] =
                {r \in @ : WithinAny(r.path, RootsOf(PrincipalOf(r.owner), kept))}]

\* cleanupExpiredSessions: the rows go, their snapshots cascade.
DeleteExpired(db) ==
    [db EXCEPT !.sessions = [s \in Sessions |-> IF s \in Expired THEN Gone ELSE @[s]],
               !.snapshot = [s \in Sessions |-> IF s \in Expired THEN Gone ELSE @[s]]]

-----------------------------------------------------------------------------
(* The databases the releases left behind *)

\* What is stored, of whatever generation.
Databases ==
    [tables     : SUBSET Tables,
     columns    : [Tables -> SUBSET {"principal_id", "launcher_id", "access",
                                     "backend key", "kind"}],
     malformed  : SUBSET Tables,
     principals : SUBSET Principals,
     defaults   : SUBSET Principals,
     sessions   : [Sessions -> Principals \cup {NoOwner, Gone} \cup Launchers],
     roots      : [RootTables -> SUBSET [owner : Principals \cup Launchers,
                                         path : STRING,
                                         access : {"none", "read_only", "read_write"}]],
     snapshot   : [Sessions -> {Gone, "workspace", "issued", "damaged"}]]

ClassifiedTables == {"sessions", "launchers", "credentials", "snapshots"} \cup RootTables

\* A path-only row has no access, and a root belongs to a principal that exists
\* or to one of its launchers (the foreign keys).
RootRow(db, t, r) ==
    /\ t \in db.tables /\ (r.access = "none" <=> db.columns[t] = {})
    /\ r.owner \in IF t = "principal_allowed_roots" THEN Principals ELSE Launchers
    /\ PrincipalOf(r.owner) \in db.principals

\* The generations a table can be of. Launchers own sessions only where the
\* column says so, and a snapshot belongs to a launcher-owned session.
WellFormed(db) ==
    /\ db \in Databases
    /\ db.malformed \subseteq ClassifiedTables \cap db.tables
    /\ db.columns["sessions"] \subseteq {"principal_id", "launcher_id"}
    /\ db.columns["credentials"] \subseteq {"launcher_id"}
    /\ db.columns["mac_boundaries"] \in {{}, {"backend key"}, {"backend key", "kind"}}
    /\ \A t \in RootTables :
          /\ db.columns[t] \subseteq {"access"}
          /\ \A r \in db.roots[t] : RootRow(db, t, r)
    /\ \A s \in Live(db) :
          /\ "sessions" \in db.tables
          /\ db.sessions[s] \in Launchers => "launcher_id" \in db.columns["sessions"]
    /\ "snapshots" \in db.tables =>
          /\ "sessions" \in db.tables /\ "launcher_id" \in db.columns["sessions"]
          /\ \A s \in Sessions : db.snapshot[s] = Gone <=> db.sessions[s] = Gone
    /\ "snapshots" \notin db.tables => \A s \in Sessions : db.snapshot[s] = Gone

\* Only this build backfills; a released snapshot was issued.
Released(db) == WellFormed(db) /\ \A s \in Sessions : db.snapshot[s] # "workspace"

EmptyDatabase ==
    [tables     |-> {},
     columns    |-> [t \in Tables |-> {}],
     malformed  |-> {},
     principals |-> {},
     defaults   |-> {},
     sessions   |-> [s \in Sessions |-> Gone],
     roots      |-> [t \in RootTables |-> {}],
     snapshot   |-> [s \in Sessions |-> Gone]]

\* Release 1: ownerless sessions and nothing else.
Release1(rows) ==
    [EmptyDatabase EXCEPT !.tables = {"sessions"}, !.sessions = rows]

\* Release 2.0: principal-owned sessions, path-only roots, no launchers.
Release20(rows, principals, roots) ==
    [EmptyDatabase EXCEPT
        !.tables = {"sessions", "principals", "principal_allowed_roots",
                    "credentials", "mac_boundaries"},
        !.columns["sessions"] = {"principal_id"},
        !.principals = principals,
        !.sessions = rows,
        !.roots["principal_allowed_roots"] = roots]

\* Release 2.1: launcher-owned sessions, path-only roots, no snapshots.
Release21(rows, principals, defaults, roots, narrowed) ==
    [EmptyDatabase EXCEPT
        !.tables = Tables \ {"snapshots"},
        !.columns = [t \in Tables |-> IF t \in RootTables THEN {} ELSE CreatedColumns[t]],
        !.principals = principals,
        !.defaults = defaults,
        !.sessions = rows,
        !.roots["principal_allowed_roots"] = roots,
        !.roots["launcher_allowed_roots"] = narrowed]

\* Release 2.2, the current schema: access-bearing roots, issued snapshots.
Release22(rows, principals, roots, narrowed) ==
    [EmptyDatabase EXCEPT
        !.tables = Tables,
        !.columns = [CreatedColumns EXCEPT !["mac_boundaries"] = @ \cup {"kind"}],
        !.principals = principals,
        !.defaults = principals,
        !.sessions = rows,
        !.roots["principal_allowed_roots"] = roots,
        !.roots["launcher_allowed_roots"] = narrowed,
        !.snapshot = [s \in Sessions |-> IF rows[s] = Gone THEN Gone ELSE "issued"]]

=============================================================================
