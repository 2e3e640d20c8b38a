------------------------- MODULE OwnershipLifecycle -------------------------
(***************************************************************************)
(* Ownership lifecycle: Principals own Launchers, Launchers own Sessions,  *)
(* Sessions start Operations (launcher_lifecycle.go, principal.go, app.go, *)
(* session.go).  Every administrative mutator holds lifecycleMu over a     *)
(* sequence of steps (an in-memory quiesce, docker inspections, database   *)
(* transactions, a re-sync); data-plane requests, session deletion and     *)
(* containers take their own steps in between, and the daemon may restart  *)
(* at any point, which loses the quiesce set and the operations but not    *)
(* the database or the containers.                                         *)
(***************************************************************************)
EXTENDS Naturals, FiniteSets

CONSTANTS
    Principals, Launchers, Sessions, Requests,
    PrincipalOf,      \* [Launchers -> Principals]
    OwnerOf,          \* [Sessions -> Launchers]
    SessionOf,        \* [Requests -> Sessions]
    InitialLaunchers  \* launcher rows present at the start

ASSUME OwnershipAssumption ==
    /\ PrincipalOf \in [Launchers -> Principals]
    /\ OwnerOf \in [Sessions -> Launchers]
    /\ SessionOf \in [Requests -> Sessions]
    /\ InitialLaunchers \subseteq Launchers

VARIABLES
    \* the database: rows, and the rows whose enabled column is 1
    principals, pEnabled, launchers, lEnabled, sessions,
    born,        \* launcher and session IDs ever issued (never reused)
    quiesced,    \* operationSupervisor.quiesced
    req,         \* progress of each data-plane request and its operation
    container,   \* the docker container of each run, seen by docker ps -a
    mut,         \* the mutator holding lifecycleMu
    doubtful,    \* launchers whose last admission re-sync did not happen
    overtaken    \* requests in flight when their principal's disable committed

dbVars == <<principals, pEnabled, launchers, lEnabled, sessions, born>>
vars == <<dbVars, quiesced, req, container, mut, doubtful, overtaken>>

LauncherOf(r) == OwnerOf[SessionOf[r]]
Children(p) == {l \in launchers : PrincipalOf[l] = p}
SessionsOf(ls) == {s \in Sessions : OwnerOf[s] \in ls}
InFlight(ls) == {r \in Requests : /\ LauncherOf(r) \in ls
                                  /\ req[r] \in {"resolved", "reserved", "leased"}}

EffectiveEnabled(l) ==
    l \in launchers /\ l \in lEnabled /\ PrincipalOf[l] \in pEnabled

Kinds == {"none", "disableL", "enableL", "deleteL",
          "disableP", "enableP", "deleteP"}
Steps == {"idle", "quiesce", "persist", "inspect", "prune", "disable",
          "remove", "reopen", "resync"}
Idle == [kind |-> "none", step |-> "idle", principal |-> {}, scope |-> {},
         todo |-> {}, checked |-> {}, seen |-> {}, closed |-> {}]

Mutators ==
    [kind : Kinds, step : Steps, principal : SUBSET Principals,
     scope : SUBSET Launchers, todo : SUBSET Launchers,
     checked : SUBSET Launchers, seen : SUBSET Requests,
     closed : SUBSET Launchers]

TypeOK ==
    /\ principals \subseteq Principals /\ pEnabled \subseteq Principals
    /\ launchers \subseteq Launchers /\ lEnabled \subseteq Launchers
    /\ sessions \subseteq Sessions /\ born \subseteq Launchers \cup Sessions
    /\ quiesced \subseteq Launchers
    /\ req \in [Requests -> {"idle", "resolved", "reserved", "leased",
                             "refused", "running", "ended"}]
    /\ container \in [Requests -> {"none", "active", "stale"}]
    /\ mut \in Mutators
    /\ doubtful \subseteq Launchers /\ overtaken \subseteq Requests

Init ==
    /\ principals = Principals /\ pEnabled = Principals
    /\ launchers = InitialLaunchers /\ lEnabled = InitialLaunchers
    /\ sessions = {} /\ born = InitialLaunchers /\ quiesced = {}
    /\ req = [r \in Requests |-> "idle"]
    /\ container = [r \in Requests |-> "none"]
    /\ mut = Idle /\ doubtful = {} /\ overtaken = {}

-----------------------------------------------------------------------------
(* Data plane.                                                             *)

(* requireSessionCapability: a live session of an enabled owner.           *)
Resolve(r) ==
    /\ req[r] = "idle"
    /\ SessionOf[r] \in sessions /\ EffectiveEnabled(LauncherOf(r))
    /\ req' = [req EXCEPT ![r] = "resolved"]
    /\ UNCHANGED <<dbVars, quiesced, container, mut, doubtful, overtaken>>

(* reserve: refused while the launcher is quiesced.                        *)
Reserve(r) ==
    /\ req[r] = "resolved"
    /\ req' = [req EXCEPT ![r] =
          IF LauncherOf(r) \in quiesced THEN "refused" ELSE "reserved"]
    /\ UNCHANGED <<dbVars, quiesced, container, mut, doubtful, overtaken>>

(* AcquireSessionUse: the session row must still be live.                  *)
Lease(r) ==
    /\ req[r] = "reserved"
    /\ req' = [req EXCEPT ![r] =
          IF SessionOf[r] \in sessions THEN "leased" ELSE "refused"]
    /\ UNCHANGED <<dbVars, quiesced, container, mut, doubtful, overtaken>>

PrepareFail(r) ==
    /\ req[r] \in {"reserved", "leased"}
    /\ req' = [req EXCEPT ![r] = "refused"]
    /\ UNCHANGED <<dbVars, quiesced, container, mut, doubtful, overtaken>>

(* admitReserved: the operation is registered with State running.          *)
Admit(r) ==
    /\ req[r] = "leased"
    /\ req' = [req EXCEPT ![r] =
          IF LauncherOf(r) \in quiesced THEN "refused" ELSE "running"]
    /\ UNCHANGED <<dbVars, quiesced, container, mut, doubtful, overtaken>>

(* The docker CLI of a running operation creates its container ...         *)
ContainerStart(r) ==
    /\ req[r] = "running" /\ container[r] = "none"
    /\ container' = [container EXCEPT ![r] = "active"]
    /\ UNCHANGED <<dbVars, quiesced, req, mut, doubtful, overtaken>>

(* ... which ends on its own, and may leave an exited container behind.    *)
ContainerExit(r) ==
    /\ container[r] = "active"
    /\ \E c \in {"none", "stale"} : container' = [container EXCEPT ![r] = c]
    /\ UNCHANGED <<dbVars, quiesced, req, mut, doubtful, overtaken>>

(* The operation ends: its cleanup proves the container absent, or fails   *)
(* and leaves the container to later cleanup.                              *)
OperationEnds(r) ==
    /\ req[r] = "running"
    /\ req' = [req EXCEPT ![r] = "ended"]
    /\ \E c \in {"none", container[r]} :
          container' = [container EXCEPT ![r] = c]
    /\ UNCHANGED <<dbVars, quiesced, mut, doubtful, overtaken>>

(* Mutant: the insert does not re-check the enabled columns.               *)
MutCreateUnchecked(s) ==
    /\ mut = Idle
    /\ s \notin born /\ OwnerOf[s] \in launchers
    /\ sessions' = sessions \cup {s}
    /\ born' = born \cup {s}
    /\ UNCHANGED <<principals, pEnabled, launchers, lEnabled, quiesced, req,
                   container, mut, doubtful, overtaken>>

(* createSessionAuthorized: TryLock of lifecycleMu, refused when it is     *)
(* held; the insert re-checks both enabled columns in its transaction.     *)
CreateSession(s) ==
    /\ mut = Idle
    /\ s \notin born /\ EffectiveEnabled(OwnerOf[s])
    /\ sessions' = sessions \cup {s}
    /\ born' = born \cup {s}
    /\ UNCHANGED <<principals, pEnabled, launchers, lEnabled, quiesced, req,
                   container, mut, doubtful, overtaken>>

(* deleteSessionScoped and expiry: no lifecycleMu.                         *)
DeleteSession(s) ==
    /\ s \in sessions
    /\ sessions' = sessions \ {s}
    /\ UNCHANGED <<principals, pEnabled, launchers, lEnabled, born, quiesced,
                   req, container, mut, doubtful, overtaken>>

(* createLauncherWithLifecycle: a fresh, enabled launcher row.             *)
CreateLauncher(l) ==
    /\ mut = Idle
    /\ l \notin born /\ PrincipalOf[l] \in principals
    /\ launchers' = launchers \cup {l}
    /\ lEnabled' = lEnabled \cup {l}
    /\ born' = born \cup {l}
    /\ UNCHANGED <<principals, pEnabled, sessions, quiesced, req, container,
                   mut, doubtful, overtaken>>

-----------------------------------------------------------------------------
(* Mutators: acquire lifecycleMu and look the owner up.                    *)

Begin(kind, step, ps, ls) ==
    /\ mut = Idle
    /\ mut' = [Idle EXCEPT !.kind = kind, !.step = step, !.principal = ps,
                           !.scope = ls, !.todo = ls]
    /\ UNCHANGED <<dbVars, quiesced, req, container, doubtful, overtaken>>

BeginDisableLauncher(l) == l \in launchers /\ Begin("disableL", "quiesce", {}, {l})
BeginEnableLauncher(l) == l \in launchers /\ Begin("enableL", "persist", {}, {l})

(* The handler looks the launcher up before the lock: the row may be gone. *)
BeginDeleteLauncher(l) == l \in born /\ Begin("deleteL", "quiesce", {}, {l})

BeginDisablePrincipal(p) ==
    p \in principals /\ Begin("disableP", "quiesce", {p}, Children(p))
BeginEnablePrincipal(p) ==
    p \in principals /\ Begin("enableP", "persist", {p}, Children(p))
BeginDeletePrincipal(p) ==
    p \in principals /\ Begin("deleteP", "quiesce", {p}, Children(p))

Deleting == mut.kind \in {"deleteL", "deleteP"}

(* Release lifecycleMu, or enter the next step for a set of launchers.     *)
Finish == mut' = Idle
EnterStep(step, ls) == mut' = [mut EXCEPT !.step = step, !.todo = ls]
DoneWith(l) == mut' = [mut EXCEPT !.todo = @ \ {l}]
Doing(step, l) == mut.step = step /\ l \in mut.todo

(* The end of one loop over the launchers in scope.                        *)
Advance ==
    /\ mut.todo = {}
    /\ \/ mut.step = "quiesce" /\ Deleting /\ EnterStep("inspect", mut.scope)
       \/ mut.step = "quiesce" /\ ~Deleting /\ EnterStep("persist", mut.scope)
       \/ mut.step = "inspect" /\ EnterStep("prune", mut.scope)
       \/ mut.step = "prune" /\ EnterStep("disable", mut.scope)
       \/ mut.step = "disable" /\ EnterStep("remove", mut.scope)
       \/ mut.step \in {"reopen", "resync"} /\ Finish
    /\ UNCHANGED <<dbVars, quiesced, req, container, doubtful, overtaken>>

(* Mutant: the admission-closing prologue is skipped.                      *)
MutQuiesceSkipped(l) ==
    /\ Doing("quiesce", l)
    /\ DoneWith(l)
    /\ UNCHANGED <<dbVars, quiesced, req, container, doubtful, overtaken>>

(* quiesceLauncher, before anything durable or irreversible.               *)
Quiesce(l) ==
    /\ Doing("quiesce", l)
    /\ quiesced' = quiesced \cup {l}
    /\ DoneWith(l)
    /\ UNCHANGED <<dbVars, req, container, doubtful, overtaken>>

-----------------------------------------------------------------------------
(* Enable and disable transactions.  A transaction commits and says so,    *)
(* fails, or commits although its error is reported.                       *)

Outcomes == {"ok", "failed", "unreported"}

Owners == mut.principal # {}

(* persistLauncherChange / persistPrincipalEnabledChange(false): the rows  *)
(* and the sessions below them go in one transaction.  A principal that is *)
(* already disabled is left as it is.                                      *)
PersistDisable(o) ==
    /\ mut.step = "persist" /\ mut.kind \in {"disableL", "disableP"}
    /\ IF o = "failed" \/ (Owners /\ mut.principal \cap pEnabled = {})
       THEN UNCHANGED <<pEnabled, lEnabled, sessions, overtaken>>
       ELSE /\ pEnabled' = pEnabled \ mut.principal
            /\ lEnabled' = IF Owners THEN lEnabled ELSE lEnabled \ mut.scope
            /\ sessions' = sessions \ SessionsOf(mut.scope)
            /\ overtaken' = IF Owners THEN overtaken \cup InFlight(mut.scope)
                                     ELSE overtaken
    /\ IF o = "ok" THEN Finish ELSE EnterStep("resync", mut.scope)
    /\ UNCHANGED <<principals, launchers, born, quiesced, req, container,
                   doubtful>>

(* persistLauncherChange / persistPrincipalEnabledChange(true): commit     *)
(* first; the admission of every child is decided in the transaction.  A   *)
(* reported error leaves admission as it was.                              *)
PersistEnable(o) ==
    LET pOn == pEnabled \cup mut.principal
        lOn == IF Owners THEN lEnabled ELSE lEnabled \cup mut.scope
    IN
    /\ mut.step = "persist" /\ mut.kind \in {"enableL", "enableP"}
    /\ IF o = "failed" THEN UNCHANGED <<pEnabled, lEnabled>>
                       ELSE pEnabled' = pOn /\ lEnabled' = lOn
    /\ mut' = IF o = "ok"
              THEN [mut EXCEPT !.step = "reopen",
                      !.closed = {l \in mut.scope : ~(l \in lOn /\ PrincipalOf[l] \in pOn)}]
              ELSE Idle
    /\ doubtful' = IF o = "unreported" THEN doubtful \cup mut.scope ELSE doubtful
    /\ UNCHANGED <<principals, launchers, sessions, born, quiesced, req,
                   container, overtaken>>

(* setQuiesced with the admission decided in the transaction.              *)
Reopen(l) ==
    /\ Doing("reopen", l)
    /\ quiesced' = IF l \in mut.closed THEN quiesced \cup {l} ELSE quiesced \ {l}
    /\ doubtful' = doubtful \ {l}
    /\ DoneWith(l)
    /\ UNCHANGED <<dbVars, req, container, overtaken>>

(* Mutant: a failed re-read opens admission.                               *)
MutResyncOpens(l) ==
    /\ Doing("resync", l)
    /\ quiesced' = quiesced \ {l}
    /\ doubtful' = doubtful \ {l}
    /\ DoneWith(l)
    /\ UNCHANGED <<dbVars, req, container, overtaken>>

(* syncLauncherAdmission: mirror the authorities; a failed re-read leaves  *)
(* the launcher quiesced.                                                  *)
Resync(l) ==
    /\ Doing("resync", l)
    /\ \/ /\ quiesced' = IF EffectiveEnabled(l) THEN quiesced \ {l}
                                               ELSE quiesced \cup {l}
          /\ doubtful' = doubtful \ {l}
       \/ /\ UNCHANGED quiesced
          /\ doubtful' = doubtful \cup {l}
    /\ DoneWith(l)
    /\ UNCHANGED <<dbVars, req, container, overtaken>>

-----------------------------------------------------------------------------
(* Checked deletion.                                                       *)

(* Mutant: the refusal forgets to re-sync the launchers it quiesced.       *)
MutRefuseKeepsQuiesce == Finish

(* Every refusal of a checked delete re-syncs all launchers in scope.      *)
RefuseDelete == EnterStep("resync", mut.scope)

(* Mutant: operations that have no container yet are overlooked.           *)
MutHasRunning(l) ==
    \E r \in Requests :
        LauncherOf(r) = l /\ req[r] = "running" /\ container[r] # "none"

(* hasRunningForLauncher: an admitted operation refuses the delete.        *)
HasRunningForLauncher(l) ==
    \E r \in Requests : LauncherOf(r) = l /\ req[r] = "running"

InspectOperations(l) ==
    /\ Doing("inspect", l) /\ mut.checked = {}
    /\ IF HasRunningForLauncher(l) THEN RefuseDelete
       ELSE mut' = [mut EXCEPT !.checked = {l}]
    /\ UNCHANGED <<dbVars, quiesced, req, container, doubtful, overtaken>>

ContainersOf(l, c) == {r \in Requests : LauncherOf(r) = l /\ container[r] = c}

(* docker ps -a: an error, an unknown or an active container refuses.      *)
InspectContainers(l) ==
    /\ Doing("inspect", l) /\ l \in mut.checked
    /\ \/ RefuseDelete
       \/ /\ ContainersOf(l, "active") = {}
          /\ mut' = [mut EXCEPT !.todo = @ \ {l}, !.checked = {},
                                !.seen = @ \cup ContainersOf(l, "stale")]
    /\ UNCHANGED <<dbVars, quiesced, req, container, doubtful, overtaken>>

(* removeStaleHelperContainers: docker rm -f one by one, refusing at the   *)
(* first failure.                                                          *)
RemoveStale(l) ==
    LET stale == {r \in mut.seen : LauncherOf(r) = l} IN
    /\ Doing("prune", l)
    /\ \E gone \in SUBSET stale :
          /\ container' = [r \in Requests |->
                IF r \in gone THEN "none" ELSE container[r]]
          /\ IF gone = stale THEN DoneWith(l) ELSE RefuseDelete
    /\ UNCHANGED <<dbVars, quiesced, req, doubtful, overtaken>>

(* disableLauncherLocked: quiesce again, disable durably and drop the      *)
(* sessions.  On an error (a missing row included) the launchers not yet   *)
(* disabled are re-synced.                                                 *)
DisableChild(l, o) ==
    /\ Doing("disable", l)
    /\ l \notin launchers => o = "failed"
    /\ quiesced' = quiesced \cup {l}
    /\ IF o = "failed"
       THEN UNCHANGED <<lEnabled, sessions>>
       ELSE /\ lEnabled' = lEnabled \ {l}
            /\ sessions' = sessions \ SessionsOf({l})
    /\ IF o = "ok" THEN DoneWith(l) ELSE EnterStep("resync", mut.todo)
    /\ UNCHANGED <<principals, pEnabled, launchers, born, req, container,
                   doubtful, overtaken>>

(* deleteLauncherRow / deletePrincipal: the rows go in one transaction.    *)
RemoveRows(o) ==
    /\ mut.step = "remove"
    /\ IF o = "failed"
       THEN UNCHANGED <<principals, pEnabled, launchers, lEnabled, sessions>>
       ELSE LET ls == mut.scope \cup {l \in launchers : PrincipalOf[l] \in mut.principal}
            IN  /\ principals' = principals \ mut.principal
                /\ pEnabled' = pEnabled \ mut.principal
                /\ launchers' = launchers \ ls
                /\ lEnabled' = lEnabled \ ls
                /\ sessions' = IF Owners THEN sessions \ SessionsOf(ls) ELSE sessions
    /\ Finish
    /\ UNCHANGED <<born, quiesced, req, container, doubtful, overtaken>>

(* The daemon stops or crashes and starts again: the quiesce set, the lock *)
(* and every request and operation are gone (the unit's control group ends *)
(* the docker CLI processes); containers and database rows stay.           *)
Restart ==
    /\ quiesced' = {} /\ mut' = Idle /\ doubtful' = {}
    /\ req' = [r \in Requests |->
          IF req[r] \in {"resolved", "reserved", "leased", "running"} THEN "ended" ELSE req[r]]
    /\ UNCHANGED <<dbVars, container, overtaken>>

-----------------------------------------------------------------------------
Request(r) ==
    \/ Resolve(r) \/ Reserve(r) \/ Lease(r) \/ PrepareFail(r) \/ Admit(r)
    \/ ContainerStart(r) \/ ContainerExit(r) \/ OperationEnds(r)

MutatorStep ==
    \/ Advance
    \/ \E o \in Outcomes : PersistDisable(o) \/ PersistEnable(o) \/ RemoveRows(o)
    \/ \E l \in Launchers :
          \/ Quiesce(l) \/ Reopen(l) \/ Resync(l)
          \/ InspectOperations(l) \/ InspectContainers(l) \/ RemoveStale(l)
          \/ \E o \in Outcomes : DisableChild(l, o)

BeginMutator ==
    \/ \E l \in Launchers : \/ BeginDisableLauncher(l) \/ BeginEnableLauncher(l)
                            \/ BeginDeleteLauncher(l)
    \/ \E p \in Principals : \/ BeginDisablePrincipal(p) \/ BeginEnablePrincipal(p)
                             \/ BeginDeletePrincipal(p)

Next ==
    \/ \E r \in Requests : Request(r)
    \/ \E s \in Sessions : CreateSession(s) \/ DeleteSession(s)
    \/ \E l \in Launchers : CreateLauncher(l)
    \/ BeginMutator \/ MutatorStep \/ Restart

Spec == Init /\ [][Next]_vars

-----------------------------------------------------------------------------
Active(r) == req[r] = "running" \/ container[r] # "none"

(* "A running Operation can never lose its persisted Launcher owner": the  *)
(* row of a launcher outlives every operation and every container that is  *)
(* attributed to it, over concurrent deletes, restarts and failures.       *)
OwnerNeverLost ==
    \A r \in Requests : Active(r) => LauncherOf(r) \in launchers

(* Session rows only exist below an owner that is enabled at both levels,  *)
(* so a restart that forgets the quiesce set leaves nothing to resolve.    *)
SessionsBelowEnabledOwners ==
    \A s \in sessions : EffectiveEnabled(OwnerOf[s])

(* Operation admission mirrors the durable state once the mutator is gone: *)
(* a refused or failed transition does not leave an enabled launcher       *)
(* closed, unless its re-sync could not read the database.                 *)
AdmissionMirrorsAuthorities ==
    mut = Idle =>
        \A l \in launchers \ doubtful : EffectiveEnabled(l) => l \notin quiesced

(* No operation is admitted for an owner whose disable has committed, even *)
(* when the transaction's outcome was reported as an error or the re-read  *)
(* failed.                                                                 *)
NoAdmissionWhileDisabled ==
    [][\A r \in Requests :
          req[r] # "running" /\ req'[r] = "running" => EffectiveEnabled(LauncherOf(r))]_vars

(* A checked delete never disables or removes a launcher with a running    *)
(* operation or an active container: a refused delete is free of effects.  *)
DeleteOnlyQuiescent ==
    [][Deleting =>
          \A r \in Requests : req[r] = "running" \/ container[r] = "active" =>
              /\ LauncherOf(r) \in lEnabled => LauncherOf(r) \in lEnabled'
              /\ LauncherOf(r) \in launchers => LauncherOf(r) \in launchers']_vars

(* The claim of disablePrincipalLaunchers: an in-flight request whose      *)
(* session was resolved before a disable committed never becomes an        *)
(* operation afterwards.                                                   *)
OvertakenNeverAdmitted == \A r \in overtaken : req[r] # "running"
=============================================================================
