----------------------------- MODULE RootPolicy -----------------------------
(***************************************************************************)
(* The stored allowed roots of one Principal and its Launchers, the global *)
(* policy above them and the Session snapshots issued from them:           *)
(* lifecycle_owner.go, allowed_root_cascade.go, principal.go, launcher.go, *)
(* reload.go and the policy part of Session creation in session.go.        *)
(*                                                                         *)
(* Every mutation holds lifecycleMu and commits one transaction, so it is  *)
(* one step; a request that is refused changes nothing and is no step.  A  *)
(* reload is two: the transaction that prunes the stored roots, and the    *)
(* publication of the new policy in memory.  Enablement and the stages of  *)
(* a deletion are in OwnershipLifecycle.                                   *)
(***************************************************************************)
EXTENDS AllowedRoots, FiniteSets

CONSTANTS
    Launchers,
    Default,      \* the Launcher that comes with the Principal
    Home,         \* the canonical home directory of the OS user
    Globals,      \* the global policies the config file may hold
    MaxRoots,     \* bound on the roots stored in one scope
    MaxRequest    \* bound on the filesystem_roots of a Session request

ASSUME PolicyAssumption ==
    /\ Default \in Launchers /\ Home \in Paths
    /\ Globals \subseteq Policies \ {NoRoots}
    /\ MaxRoots \in Nat /\ MaxRequest \in Nat

VARIABLES
    phase,      \* "down", "serving", or "pruned": reload has committed
    global,     \* the published policy (memory)
    next,       \* the policy a reload is about to publish (memory)
    principal,  \* whether the Principal exists (database, as all below)
    proots,     \* principal_allowed_roots
    scope,      \* launchers.scope_mode, "absent" without a row
    lroots,     \* launcher_allowed_roots
    session     \* the Session, its snapshot and what was requested

vars == <<phase, global, next, principal, proots, scope, lroots, session>>
memory == <<phase, global, next>>

NoSession == [launcher |-> "none"]
Small(n) == {pol \in Policies : Cardinality(DOMAIN pol) <= n}

Init ==
    /\ phase = "down" /\ global = NoRoots /\ next = NoRoots
    /\ principal = FALSE /\ proots = NoRoots /\ session = NoSession
    /\ scope = [l \in Launchers |-> "absent"]
    /\ lroots = [l \in Launchers |-> NoRoots]

Ceiling == EffectivePrincipal(global, proots)

Serving == phase = "serving" /\ principal

-----------------------------------------------------------------------------
(* Reconciliation of the stored roots with a ceiling.                      *)

(* prunePrincipalStoredRootsToCeiling, the Principal level.                *)
SurvivingPrincipalRoots(g) ==
    Restrict(proots, {p \in DOMAIN proots : WithinAny(p, g)})

(* Mutant: a root whose mode is not the mode of the ceiling goes too.      *)
MutSurvivingLauncherRoots(ceiling, l) ==
    Restrict(lroots[l],
             {p \in DOMAIN lroots[l] : Lookup(ceiling, p) = lroots[l][p]})

(* The Launcher level: restricted Launchers only.                          *)
SurvivingLauncherRoots(ceiling, l) ==
    IF scope[l] = "restricted"
    THEN Restrict(lroots[l], {p \in DOMAIN lroots[l] : WithinAny(p, ceiling)})
    ELSE lroots[l]

(* reconcileStoredAllowedRootsToGlobalCeiling.                             *)
Prune(g) ==
    LET surviving == SurvivingPrincipalRoots(g)
        ceiling   == EffectivePrincipal(g, surviving)
    IN  /\ proots' = surviving
        /\ lroots' = [l \in Launchers |-> SurvivingLauncherRoots(ceiling, l)]

Startup(g) ==
    /\ phase = "down"
    /\ Prune(g)
    /\ phase' = "serving" /\ global' = g
    /\ UNCHANGED <<next, principal, scope, session>>

(* handleReload up to the commit of the reconciliation ...                 *)
ReloadCommit(g) ==
    /\ phase = "serving"
    /\ Prune(g)
    /\ phase' = "pruned" /\ next' = g
    /\ UNCHANGED <<global, principal, scope, session>>

(* ... and setConfig.                                                      *)
Publish ==
    /\ phase = "pruned"
    /\ phase' = "serving" /\ global' = next /\ next' = NoRoots
    /\ UNCHANGED <<principal, proots, scope, lroots, session>>

Crash ==
    /\ phase # "down"
    /\ phase' = "down" /\ global' = NoRoots /\ next' = NoRoots
    /\ UNCHANGED <<principal, proots, scope, lroots, session>>

-----------------------------------------------------------------------------
(* The Principal and its roots.                                            *)

(* createPrincipalWithOptionalCredential: the home directory read-write    *)
(* and a default Launcher that inherits.                                   *)
CreatePrincipal ==
    /\ phase = "serving" /\ ~principal
    /\ WithinAny(Home, global)
    /\ principal' = TRUE
    /\ proots' = [p \in {Home} |-> "read_write"]
    /\ scope' = [scope EXCEPT ![Default] = "inherit"]
    /\ UNCHANGED <<memory, lroots, session>>

Stored(pol, p, access) ==
    [q \in DOMAIN pol \cup {p} |-> IF q = p THEN access ELSE pol[q]]

Without(pol, p) == Restrict(pol, DOMAIN pol \ {p})

(* addPrincipalAllowedRoot: INSERT OR IGNORE of a root below a global one. *)
AddPrincipalRoot(p, access) ==
    /\ Serving
    /\ WithinAny(p, global)
    /\ p \notin DOMAIN proots /\ Cardinality(DOMAIN proots) < MaxRoots
    /\ proots' = Stored(proots, p, access)
    /\ UNCHANGED <<memory, principal, scope, lroots, session>>

(* Mutant: the stored Launcher roots are left alone.                       *)
MutRemovePrincipalRoot(p) ==
    /\ Serving
    /\ p \in DOMAIN proots
    /\ proots' = Without(proots, p)
    /\ UNCHANGED <<memory, principal, scope, lroots, session>>

(* removePrincipalAllowedRootCascaded: the row and, in the same            *)
(* transaction, the Launcher roots that the new ceiling does not contain.  *)
RemovePrincipalRoot(p) ==
    /\ Serving
    /\ p \in DOMAIN proots
    /\ proots' = Without(proots, p)
    /\ LET ceiling == EffectivePrincipal(global, Without(proots, p))
       IN  lroots' = [l \in Launchers |-> SurvivingLauncherRoots(ceiling, l)]
    /\ UNCHANGED <<memory, principal, scope, session>>

(* setPrincipalAllowedRootAccess: no ceiling is looked at.                 *)
SetPrincipalAccess(p, access) ==
    /\ Serving
    /\ p \in DOMAIN proots /\ proots[p] # access
    /\ proots' = Stored(proots, p, access)
    /\ UNCHANGED <<memory, principal, scope, lroots, session>>

(* deletePrincipal: Launchers and roots follow by foreign key.             *)
DeletePrincipal ==
    /\ Serving
    /\ principal' = FALSE /\ proots' = NoRoots /\ session' = NoSession
    /\ scope' = [l \in Launchers |-> "absent"]
    /\ lroots' = [l \in Launchers |-> NoRoots]
    /\ UNCHANGED memory

-----------------------------------------------------------------------------
(* A Launcher and its roots.                                               *)

(* validateLauncherAllowedRootEntries: some roots, all below the ceiling.  *)
ValidRoots(ceiling) ==
    {pol \in Small(MaxRoots) : /\ pol # NoRoots
                               /\ \A p \in DOMAIN pol : WithinAny(p, ceiling)}

(* The scope mode and the complete root set of l.                          *)
Rescope(l, pol) ==
    /\ scope' = [scope EXCEPT ![l] = IF pol = NoRoots THEN "inherit"
                                                      ELSE "restricted"]
    /\ lroots' = [lroots EXCEPT ![l] = pol]
    /\ UNCHANGED <<memory, principal, proots, session>>

(* createLauncher: the roots of a new Launcher are read-write.             *)
CreateLauncher(l) ==
    /\ Serving /\ scope[l] = "absent"
    /\ \E pol \in {NoRoots} \cup ValidRoots(Ceiling) :
          /\ \A p \in DOMAIN pol : pol[p] = "read_write"
          /\ Rescope(l, pol)

(* replaceLauncherScope: any roots below the ceiling, or none to inherit.  *)
ReplaceScope(l) ==
    /\ Serving /\ scope[l] # "absent"
    /\ \E pol \in {NoRoots} \cup ValidRoots(Ceiling) : Rescope(l, pol)

(* addLauncherAllowedRoot: a new root narrows an inheriting Launcher.      *)
AddLauncherRoot(l, p, access) ==
    /\ Serving /\ scope[l] # "absent"
    /\ p \notin DOMAIN lroots[l] /\ Cardinality(DOMAIN lroots[l]) < MaxRoots
    /\ WithinAny(p, Ceiling)
    /\ scope' = [scope EXCEPT ![l] = "restricted"]
    /\ lroots' = [lroots EXCEPT ![l] = Stored(@, p, access)]
    /\ UNCHANGED <<memory, principal, proots, session>>

(* removeLauncherAllowedRoot: the scope mode stays.                        *)
RemoveLauncherRoot(l, p) ==
    /\ Serving /\ p \in DOMAIN lroots[l]
    /\ lroots' = [lroots EXCEPT ![l] = Without(@, p)]
    /\ UNCHANGED <<memory, principal, proots, scope, session>>

(* setLauncherAllowedRootAccess: no ceiling is looked at.                  *)
SetLauncherAccess(l, p, access) ==
    /\ Serving /\ p \in DOMAIN lroots[l] /\ lroots[l][p] # access
    /\ lroots' = [lroots EXCEPT ![l] = Stored(@, p, access)]
    /\ UNCHANGED <<memory, principal, proots, scope, session>>

(* deleteLauncherRow, after its Sessions are gone.                         *)
DeleteLauncher(l) ==
    /\ Serving /\ scope[l] # "absent"
    /\ scope' = [scope EXCEPT ![l] = "absent"]
    /\ lroots' = [lroots EXCEPT ![l] = NoRoots]
    /\ session' = IF session.launcher = l THEN NoSession ELSE session
    /\ UNCHANGED <<memory, principal, proots>>

-----------------------------------------------------------------------------
(* Sessions.                                                               *)

(* What createSessionWithPolicyLocked issues for a workspace and a request.*)
Snapshot(effective, ws, requested) ==
    IF requested = NoRoots THEN Derive(effective, ws)
                           ELSE NarrowScope(effective, ws, requested)

(* resolveCreatePolicy: the effective roots of a Launcher.                 *)
Effective(l) == EffectiveLauncher(Ceiling, scope[l], lroots[l])

(* The workspace is a proper subdirectory of an effective root.            *)
CreateSession(l) ==
    /\ Serving /\ scope[l] # "absent" /\ session = NoSession
    /\ scope[l] = "restricted" => Revalidated(Ceiling, lroots[l])
    /\ LET effective == Effective(l)
       IN  \E ws \in Paths, requested \in Small(MaxRequest) :
             LET entries == Snapshot(effective, ws, requested)
             IN  /\ \E root \in DOMAIN effective : StrictlyCovers(root, ws)
                 /\ Narrows(effective, requested)
                 /\ CanonicalSnapshot(ws, entries)
                 /\ session' = [launcher  |-> l, workspace |-> ws,
                                requested |-> requested, entries |-> entries]
    /\ UNCHANGED <<memory, principal, proots, scope, lroots>>

(* Deletion and expiry.                                                    *)
DeleteSession ==
    /\ phase # "down" /\ session # NoSession
    /\ session' = NoSession
    /\ UNCHANGED <<memory, principal, proots, scope, lroots>>

-----------------------------------------------------------------------------
Next ==
    \/ \E g \in Globals : Startup(g) \/ ReloadCommit(g)
    \/ Publish \/ Crash
    \/ CreatePrincipal \/ DeletePrincipal
    \/ \E p \in Paths : \/ RemovePrincipalRoot(p)
                        \/ \E access \in Access : \/ AddPrincipalRoot(p, access)
                                                  \/ SetPrincipalAccess(p, access)
    \/ \E l \in Launchers :
          \/ CreateLauncher(l) \/ ReplaceScope(l) \/ DeleteLauncher(l)
          \/ CreateSession(l)
          \/ \E p \in Paths :
                \/ RemoveLauncherRoot(l, p)
                \/ \E access \in Access : \/ AddLauncherRoot(l, p, access)
                                          \/ SetLauncherAccess(l, p, access)
    \/ DeleteSession

Spec == Init /\ [][Next]_vars

-----------------------------------------------------------------------------
(* Types, and the shape of the scope modes: only a restricted Launcher has *)
(* stored roots ("inherit => zero stored roots", addLauncherAllowedRoot),  *)
(* and only an existing Principal owns anything.                           *)
TypeOK ==
    /\ phase \in {"down", "serving", "pruned"} /\ principal \in BOOLEAN
    /\ global \in Globals \cup {NoRoots} /\ next \in Globals \cup {NoRoots}
    /\ proots \in Policies /\ lroots \in [Launchers -> Policies]
    /\ scope \in [Launchers -> {"absent", "inherit", "restricted"}]
    /\ \A l \in Launchers : scope[l] # "restricted" => lroots[l] = NoRoots
    /\ ~principal => proots = NoRoots /\ \A l \in Launchers : scope[l] = "absent"
    /\ session = NoSession \/ /\ session.launcher \in Launchers
                              /\ scope[session.launcher] # "absent"
                              /\ session.entries \in Policies

(* No mutation of a ceiling leaves stored roots outside it: while the      *)
(* daemon serves, every Principal root is below a global root and every    *)
(* stored Launcher root passes the revalidation of Session creation, so    *)
(* effectiveLauncherAllowedRoots never refuses state the daemon made       *)
(* itself.  After the commit of a reload the same holds of the policy that *)
(* is about to be published.                                               *)
StoredWithinCeilings ==
    LET g == IF phase = "pruned" THEN next ELSE global
    IN  phase # "down" =>
          /\ \A p \in DOMAIN proots : WithinAny(p, g)
          /\ \A l \in Launchers :
                Revalidated(EffectivePrincipal(g, proots), lroots[l])

(* The authority of a Launcher at a path, scope by scope and without the   *)
(* normalisations in between.                                              *)
Authority(g, pr, sc, lr, p) ==
    MeetAuthority(MeetAuthority(Lookup(g, p), Lookup(pr, p)),
                  IF sc = "inherit" THEN "read_write" ELSE Lookup(lr, p))

(* The roots that Session creation works with, composed and normalised     *)
(* scope by scope, grant at every path what all scopes together grant      *)
(* there.  This is what the comment of normalizeAllowedRootEntries         *)
(* promises: it drops entries that do not change any lookup.               *)
EffectiveIsMeet ==
    \A l \in Launchers : Serving /\ scope[l] # "absent" =>
        \A p \in Paths :
            Lookup(Effective(l), p)
               = Authority(global, proots, scope[l], lroots[l], p)

(* What a snapshot grants, against the authority at the moment it is       *)
(* issued: nowhere more.  Without requested roots it grants exactly that   *)
(* below the workspace and nothing elsewhere; with them, every requested   *)
(* root gets the mode that was asked for, never a narrower one in silence. *)
AsAsked(new) ==
    LET granted(p)   == Lookup(new.entries, p)
        authority(p) == Authority(global, proots, scope[new.launcher],
                                  lroots[new.launcher], p)
    IN  /\ \A p \in Paths : NoWider(granted(p), authority(p))
        /\ \A p \in DOMAIN new.requested : granted(p) = new.requested[p]
        /\ new.requested = NoRoots =>
              \A p \in Paths : granted(p) = IF Covers(new.workspace, p)
                                            THEN authority(p) ELSE "none"

(* A source that may be exposed writable (CanExposeWritable) has no        *)
(* read-only path in it.                                                   *)
WritableIsWritable(entries) ==
    \A src \in Paths : CanExposeWritable(entries, src) =>
        \A p \in Paths : Covers(src, p) => Lookup(entries, p) = "read_write"

(* The MAC boundaries (sessionMACBoundaries) are disjoint trees that cover *)
(* exactly what the snapshot authorises.                                   *)
BoundariesExact(entries) ==
    LET bs == SessionMACBoundaries(entries)
    IN  \A p \in Paths :
          /\ WithinAny(p, entries) <=> \E e \in bs : Covers(e, p)
          /\ \A e, f \in bs : Covers(e, p) /\ Covers(f, p) => e = f

(* Session creation (createSessionWithPolicyLocked) issues a snapshot that *)
(* grants what was asked and no scope withholds, and what is derived from  *)
(* it for the life of the Session, the sources a container may mount       *)
(* writable and the trees the MAC coordinator labels, agrees with it at    *)
(* every path, those inside nested exceptions included.                    *)
IssuedAsAsked ==
    [][session' \notin {session, NoSession} =>
          /\ AsAsked(session')
          /\ WritableIsWritable(session'.entries)
          /\ BoundariesExact(session'.entries)]_vars

(* The pruning of a reload or of startup narrows for good: whatever global *)
(* policy is loaded later, no Launcher has more authority anywhere than    *)
(* the unpruned rows would have given it.  Dropping a nested read-only     *)
(* root while its read-write parent survives would break this.             *)
PruneNeverBroadens ==
    [][phase' # phase =>
          \A g \in Globals, l \in Launchers, p \in Paths :
             NoWider(Authority(g, proots', scope[l], lroots'[l], p),
                     Authority(g, proots, scope[l], lroots[l], p))]_vars
=============================================================================
