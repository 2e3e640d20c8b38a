-------------------------- MODULE WorkloadBackend --------------------------
(***************************************************************************)
(* What RunCleanup keeps as one value mac: the kernel-side MAC state of    *)
(* one run operation, made and released by the two backends of             *)
(* workload_apparmor.go and workload_selinux.go.                           *)
(*                                                                         *)
(* AppArmor: one generated profile, its source file and its loaded form.   *)
(* SELinux: per read-only exposure one projection, a bindfs worker mounted *)
(* over the pinned source; a regular file is first bound onto a lower      *)
(* item. Projection i owns a directory mount-<i> below the runtime         *)
(* directory. A worker is a process of its own: it mounts late, dies, and  *)
(* backs the tree it was given for as long as it lives.                    *)
(*                                                                         *)
(* A cleanup pass visits projections from the last to the first; it has    *)
(* the worker handles when the daemon that started the workers runs it,    *)
(* and none after a restart. faults bounds failing steps, timeouts and     *)
(* crashes.                                                                *)
(***************************************************************************)
EXTENDS Naturals, Sequences

CONSTANTS Plan,       \* the kinds of the read-only exposures, in plan order
          MaxFaults   \* bound on failures, timeouts, crashes and reboots

ASSUME PlanAssumption == Plan \in Seq({"directory", "file"}) /\ MaxFaults \in Nat

Mounts == 1..Len(Plan)

VARIABLES
    backend,    \* "apparmor" or "selinux", fixed for the host
    pc,         \* where the caller of the backend is
    at,         \* the projection prepare or a cleanup pass works on
    pass,       \* which cleanup pass runs, "none" outside one
    unproven,   \* the failed projection's own rollback was incomplete
    handles,    \* projections whose worker handle this daemon holds
    record,     \* the durable ownership record exists
    pins,       \* the pinned sources the projections are built from
    source,     \* the generated profile's source file exists
    loaded,     \* the profile is in the kernel inventory
    dir,        \* mount-<i> exists
    bind,       \* lower/item is bound to the pinned file
    mount,      \* the projection is mounted
    worker,     \* the bindfs process
    foreign,    \* an entry nobody of this layout made is in the directory
    damaged,    \* exposures whose content was deleted through a mount
    container,  \* a container runs with this MAC state
    faults

control == <<pc, at, pass, unproven, handles>>
durable == <<record, pins>>
profile == <<source, loaded>>
projection == <<dir, bind, mount, worker>>
outside == <<backend, foreign, damaged, container>>
vars == <<control, durable, profile, projection, outside, faults>>

Fault == faults < MaxFaults /\ faults' = faults + 1

Init ==
    /\ backend \in {"apparmor", "selinux"}
    /\ pc = "idle" /\ at = 0 /\ pass = "none" /\ unproven = FALSE /\ handles = {}
    /\ record = FALSE /\ pins = FALSE
    /\ source = FALSE /\ loaded = FALSE
    /\ dir = {} /\ bind = {} /\ mount = {}
    /\ worker = [i \in Mounts |-> "none"]
    /\ foreign = FALSE /\ damaged = {} /\ container = FALSE /\ faults = 0

Goto(p) == pc' = p /\ UNCHANGED <<at, pass, unproven, handles>>

\* Begin a cleanup pass at projection i; AppArmor has no projections.
Clean(p, i) ==
    /\ pass' = p /\ at' = i
    /\ pc' = IF backend = "apparmor" THEN "unload" ELSE IF i = 0 THEN "passed" ELSE "unmount"

\* The plain failure of prepare: the coordinator's handle-free pass over what
\* the runtime directory still shows (Prepare, cleanupOwnedState).
CleanOwned == pc' = "prove" /\ pass' = "owned" /\ UNCHANGED at

-----------------------------------------------------------------------------
(* Prepare. The record is committed before the first kernel-side resource.  *)

Prepare ==
    /\ pc = "idle"
    /\ record' = TRUE /\ pins' = TRUE
    /\ at' = 1
    /\ pc' = IF backend = "apparmor" THEN "write" ELSE "mkdir"
    /\ UNCHANGED <<pass, unproven, handles, profile, projection, outside, faults>>

\* Every step of prepare that returns a plain error.
PrepareFails ==
    /\ pc \in {"write", "mkdir"} /\ Fault
    /\ IF backend = "apparmor" \/ at = 1
       THEN CleanOwned
       ELSE Clean("earlier", at - 1)
    /\ UNCHANGED <<unproven, handles, durable, profile, projection, outside>>

\* atomicWriteFile of the generated profile.
WriteProfile ==
    /\ pc = "write"
    /\ source' = TRUE
    /\ Goto("load")
    /\ UNCHANGED <<durable, loaded, projection, outside, faults>>

\* apparmor_parser --replace. A parser killed by its budget may have loaded.
LoadProfile ==
    /\ pc = "load"
    /\ \/ loaded' = TRUE /\ Goto("verify") /\ UNCHANGED faults
       \/ /\ Fault /\ loaded' \in BOOLEAN
          /\ CleanOwned /\ UNCHANGED <<unproven, handles>>
    /\ UNCHANGED <<durable, source, projection, outside>>

\* requireProfileLoaded.
VerifyProfile ==
    /\ pc = "verify"
    /\ \/ loaded /\ Goto("prepared") /\ UNCHANGED faults
       \/ Fault /\ CleanOwned /\ UNCHANGED <<unproven, handles>>
    /\ UNCHANGED <<durable, profile, projection, outside>>

\* prepareProjection: the mountpoint layout; a regular file has its lower item.
\* A plan without read-only exposures is prepared as it is.
MakeProjection ==
    /\ pc = "mkdir"
    /\ IF at > Len(Plan)
       THEN Goto("prepared") /\ UNCHANGED dir
       ELSE dir' = dir \cup {at} /\ Goto(IF Plan[at] = "file" THEN "bind" ELSE "start")
    /\ UNCHANGED <<durable, profile, bind, mount, worker, outside, faults>>

\* mountBind; a failure removes the whole layout, nothing being mounted yet.
BindLower ==
    /\ pc = "bind"
    /\ \/ bind' = bind \cup {at} /\ Goto("start") /\ UNCHANGED <<dir, faults>>
       \/ /\ Fault /\ dir' = dir \ {at} /\ UNCHANGED bind
          /\ IF at = 1 THEN CleanOwned ELSE Clean("earlier", at - 1)
          /\ UNCHANGED <<unproven, handles>>
    /\ UNCHANGED <<durable, profile, mount, worker, outside>>

\* startBindfsWorker.
StartWorker ==
    /\ pc = "start"
    /\ \/ /\ worker' = [worker EXCEPT ![at] = "starting"]
          /\ handles' = handles \cup {at}
          /\ pc' = "await" /\ UNCHANGED <<at, pass, unproven, faults>>
       \/ /\ Fault /\ Clean("entry", at)
          /\ UNCHANGED <<worker, unproven, handles>>
    /\ UNCHANGED <<durable, profile, dir, bind, mount, outside>>

\* awaitProjectionReady: mounted, worker alive, right type; otherwise (also
\* for a deadline or a wrong type) the entry is rolled back.
AwaitProjectionReady ==
    /\ pc = "await"
    /\ \/ /\ at \in mount /\ worker[at] = "serving"
          /\ at' = at + 1
          /\ pc' = IF at = Len(Plan) THEN "prepared" ELSE "mkdir"
          /\ UNCHANGED <<pass, faults>>
       \/ /\ Fault \/ (worker[at] = "gone" /\ UNCHANGED faults)
          /\ Clean("entry", at)
    /\ UNCHANGED <<unproven, handles, durable, profile, projection, outside>>

-----------------------------------------------------------------------------
(* The bindfs workers *)

WorkerMounts(i) ==
    /\ worker[i] = "starting"
    /\ worker' = [worker EXCEPT ![i] = "serving"]
    /\ mount' = mount \cup {i}
    /\ UNCHANGED <<control, durable, profile, dir, bind, outside, faults>>

\* An unmounted worker ends; one whose mount is in use by the container lives.
WorkerExits(i) ==
    /\ worker[i] = "serving" /\ i \notin mount /\ ~container
    /\ worker' = [worker EXCEPT ![i] = "gone"]
    /\ UNCHANGED <<control, durable, profile, dir, bind, mount, outside, faults>>

\* A worker dies; killed, it leaves its mount behind, disconnected.
WorkerDies(i) ==
    /\ worker[i] \in {"starting", "serving"} /\ Fault
    /\ worker' = [worker EXCEPT ![i] = "gone"]
    /\ mount' \in {mount, mount \ {i}}
    /\ UNCHANGED <<control, durable, profile, dir, bind, outside>>

-----------------------------------------------------------------------------
(* The container *)

StartContainer ==
    /\ pc = "prepared"
    /\ container' = TRUE
    /\ Goto("running")
    /\ UNCHANGED <<durable, profile, projection, backend, foreign, damaged, faults>>

ContainerExits ==
    /\ container
    /\ container' = FALSE
    /\ UNCHANGED <<control, durable, profile, projection, backend, foreign, damaged, faults>>

\* Completion, shutdown or a failed start: the sequence proves the container
\* absent, then runs Cleanup once.
BeginCleanup ==
    /\ pc \in {"prepared", "running"}
    /\ ~container
    /\ Clean("post", Len(Plan))
    /\ UNCHANGED <<unproven, handles, durable, profile, projection, outside, faults>>

-----------------------------------------------------------------------------
(* Cleanup passes *)

\* A failed step ends the pass. The failed projection's own pass is followed
\* by the earlier ones all the same; every other pass retains.
PassFails ==
    IF pass = "entry"
    THEN /\ unproven' = TRUE /\ at' = at - 1
         /\ pass' = "earlier"
         /\ pc' = IF at = 1 THEN "passed" ELSE "unmount"
    ELSE /\ pc' = "retained" /\ pass' = "none" /\ UNCHANGED <<at, unproven>>

\* The mounts whose worker is gone: lstat of such a mountpoint is ENOTCONN.
Disconnected == {i \in mount : worker[i] = "gone"}

\* proveProjectionRuntimeShape: an unexpected entry refuses the whole pass, and
\* so does a mountpoint that cannot be inspected, before anything is unmounted.
ProveShape ==
    /\ pc = "prove"
    /\ IF backend = "selinux" /\ (foreign \/ Disconnected # {})
       THEN PassFails
       ELSE Clean(pass, Len(Plan)) /\ UNCHANGED unproven
    /\ UNCHANGED <<handles, durable, profile, projection, outside, faults>>

\* proveUnmountOwnedMount of the projection; an absent piece is passed over.
UnmountProjection ==
    /\ pc = "unmount"
    /\ \/ mount' = mount \ {at} /\ Goto("wait") /\ UNCHANGED faults
       \/ Fault /\ PassFails /\ UNCHANGED <<mount, handles>>
    /\ UNCHANGED <<durable, profile, dir, bind, worker, outside>>

\* Mutant: the exit of the worker is not waited for.
MutAwaitWorkerExit ==
    /\ pc = "wait"
    /\ Goto("lower")
    /\ UNCHANGED <<durable, profile, projection, outside, faults>>

\* waitExit: the one recorded exit of a worker this daemon started. A live
\* worker may still mount, or back the lower tree, so a timeout retains.
AwaitWorkerExit ==
    /\ pc = "wait"
    /\ IF pass # "owned" /\ at \in handles /\ worker[at] # "gone"
       THEN PassFails /\ UNCHANGED handles
       ELSE Goto("lower")
    /\ UNCHANGED <<durable, profile, projection, outside, faults>>

UnmountLower ==
    /\ pc = "lower"
    /\ \/ bind' = bind \ {at} /\ Goto("remove") /\ UNCHANGED faults
       \/ Fault /\ PassFails /\ UNCHANGED <<bind, handles>>
    /\ UNCHANGED <<durable, profile, dir, mount, worker, outside>>

\* What os.RemoveAll destroys below a live projection of a directory.
Through(tree) ==
    {i \in tree \cap mount : worker[i] = "serving" /\ Plan[i] = "directory"}

\* RemoveAll of mount-<i>: a mount point in it is busy, its content is not.
RemoveProjection ==
    /\ pc = "remove"
    /\ damaged' = damaged \cup Through({at})
    /\ \/ /\ at \notin mount \cup bind
          /\ dir' = dir \ {at} /\ at' = at - 1
          /\ pc' = IF at = 1 \/ pass = "entry" THEN "passed" ELSE "unmount"
          /\ UNCHANGED <<pass, unproven, handles, faults>>
       \/ /\ (at \in mount \cup bind /\ UNCHANGED faults) \/ Fault
          /\ PassFails /\ UNCHANGED <<dir, handles>>
    /\ UNCHANGED <<durable, profile, bind, mount, worker, backend, foreign, container>>

\* Mutant: a failed unload is taken for a successful one.
MutUnloadProfile ==
    /\ pc = "unload"
    /\ \/ loaded' = FALSE /\ source' = FALSE /\ Goto("passed") /\ UNCHANGED faults
       \/ Fault /\ source' = FALSE /\ Goto("passed") /\ UNCHANGED loaded
    /\ UNCHANGED <<durable, projection, outside>>

\* Mutant: the source file goes before the unload is known to have worked.
MutUnloadAfterRemoval ==
    /\ pc = "unload"
    /\ \/ /\ loaded => source
          /\ loaded' = FALSE /\ source' = FALSE
          /\ Goto("passed") /\ UNCHANGED faults
       \/ /\ (loaded /\ ~source /\ UNCHANGED faults) \/ Fault
          /\ loaded' \in {loaded, FALSE} /\ source' = FALSE
          /\ PassFails /\ UNCHANGED handles
    /\ UNCHANGED <<durable, projection, outside>>

\* unloadProfile with its verification, then the removal of the source file. A
\* loaded profile without its source cannot be unloaded; a parser killed by
\* its budget may have removed it.
UnloadProfile ==
    /\ pc = "unload"
    /\ \/ /\ loaded => source
          /\ loaded' = FALSE /\ source' = FALSE
          /\ Goto("passed") /\ UNCHANGED faults
       \/ /\ (loaded /\ ~source /\ UNCHANGED faults) \/ Fault
          /\ loaded' \in {loaded, FALSE} /\ UNCHANGED source
          /\ PassFails /\ UNCHANGED handles
    /\ UNCHANGED <<durable, projection, outside>>

\* What follows a completed pass.
EndPass ==
    /\ pc = "passed"
    /\ \/ pass = "entry" /\ Clean("earlier", at)
       \/ pass = "earlier" /\ unproven /\ pc' = "retained" /\ pass' = "none" /\ UNCHANGED at
       \/ pass = "earlier" /\ ~unproven /\ CleanOwned
       \/ pass \in {"owned", "post"} /\ pc' = "clean" /\ pass' = "none" /\ UNCHANGED at
    /\ UNCHANGED <<unproven, handles, durable, profile, projection, outside, faults>>

\* The caller of a backend that answered clean: pins, then RemoveAll of the
\* runtime directory, then the durable record, each stage retaining the rest.
ReleasePins ==
    /\ pc = "clean"
    /\ \/ pins' = FALSE /\ Goto("finalize") /\ UNCHANGED faults
       \/ Fault /\ Goto("retained") /\ UNCHANGED pins
    /\ UNCHANGED <<record, profile, projection, outside>>

removeWorkloadMACState ==
    /\ pc = "finalize"
    /\ damaged' = damaged \cup Through(dir)
    /\ \/ /\ record' = FALSE /\ source' = FALSE /\ dir' = {}
          /\ foreign' = FALSE
          /\ Goto("released") /\ UNCHANGED faults
       \/ /\ Fault /\ Goto("retained")
          /\ \/ dir' = {} /\ foreign' = FALSE
             \/ UNCHANGED <<dir, foreign>>
          /\ UNCHANGED <<record, source>>
    /\ UNCHANGED <<pins, loaded, bind, mount, worker, backend, container>>

-----------------------------------------------------------------------------
(* Crash, reboot and restart *)

\* The daemon ends. systemd ends the service's control group before it starts
\* a new one: the workers go, their mounts may stay; containers live on.
ServiceEnds ==
    /\ pc' = "down" /\ at' = 0 /\ pass' = "none" /\ unproven' = FALSE /\ handles' = {}
    /\ worker' = [i \in Mounts |-> IF worker[i] = "none" THEN "none" ELSE "gone"]
    /\ mount' \in SUBSET mount
    /\ UNCHANGED <<durable, profile, dir, bind, outside>>

Crash == pc \notin {"idle", "down"} /\ Fault /\ ServiceEnds

\* The service is restarted some time after an operation was retained.
Restart == pc = "retained" /\ ServiceEnds /\ UNCHANGED faults

\* The host reboots: mounts, kernel profiles and the runtime directory go.
Reboot ==
    /\ pc = "down" /\ Fault
    /\ mount' = {} /\ bind' = {} /\ dir' = {} /\ loaded' = FALSE
    /\ container' = FALSE /\ foreign' = FALSE /\ pins' = FALSE
    /\ UNCHANGED <<control, record, source, worker, backend, damaged>>

\* Something else leaves an entry in the runtime directory.
ForeignEntry ==
    /\ pc = "down" /\ record /\ Fault
    /\ foreign' = TRUE
    /\ UNCHANGED <<control, durable, profile, projection, backend, damaged, container>>

\* Mutant: owned state is cleaned without the container's absence.
MutReconcile ==
    /\ pc = "down" /\ record
    /\ CleanOwned
    /\ UNCHANGED <<unproven, handles, durable, profile, projection, outside, faults>>

\* ReconcileStartup, reconcileOne: the correlated container is removed and
\* proven absent before the owned state is touched.
Reconcile ==
    /\ pc = "down" /\ record
    /\ \/ /\ container' = FALSE /\ CleanOwned /\ UNCHANGED faults
       \/ /\ Fault /\ pc' = "retained" /\ UNCHANGED <<at, pass, container>>
    /\ UNCHANGED <<unproven, handles, durable, profile, projection, backend, foreign, damaged>>

\* Nothing is left to reconcile.
Rest ==
    /\ pc = "released" \/ (pc = "down" /\ ~record)
    /\ UNCHANGED vars

Daemon ==
    \/ Prepare \/ WriteProfile \/ LoadProfile \/ VerifyProfile
    \/ MakeProjection \/ BindLower \/ StartWorker \/ AwaitProjectionReady
    \/ StartContainer \/ BeginCleanup
    \/ ProveShape \/ UnmountProjection \/ AwaitWorkerExit \/ UnmountLower
    \/ RemoveProjection \/ UnloadProfile \/ EndPass
    \/ ReleasePins \/ removeWorkloadMACState \/ Reconcile

Environment ==
    \/ PrepareFails \/ ContainerExits
    \/ (\E i \in Mounts : WorkerMounts(i) \/ WorkerExits(i) \/ WorkerDies(i))
    \/ Crash \/ Reboot \/ ForeignEntry

Next == Daemon \/ Environment \/ Restart \/ Rest

Spec == Init /\ [][Next]_vars

\* The daemon keeps running its code, and a service that retained state is
\* started again sooner or later.
FairSpec == Spec /\ WF_vars(Daemon) /\ WF_vars(Restart)

-----------------------------------------------------------------------------
(* Properties *)

ControlType ==
    /\ backend \in {"apparmor", "selinux"}
    /\ pc \in {"idle", "write", "load", "verify", "mkdir", "bind", "start", "await",
              "prepared", "running", "prove", "unmount", "wait", "lower", "remove",
              "unload", "passed", "clean", "finalize", "released", "retained", "down"}
    /\ at \in 0..Len(Plan) + 1
    /\ pass \in {"none", "entry", "earlier", "owned", "post"}

FlagType ==
    /\ unproven \in BOOLEAN /\ record \in BOOLEAN /\ pins \in BOOLEAN
    /\ source \in BOOLEAN /\ loaded \in BOOLEAN
    /\ foreign \in BOOLEAN /\ container \in BOOLEAN

ResourceType ==
    /\ handles \subseteq Mounts /\ dir \subseteq Mounts /\ bind \subseteq Mounts
    /\ mount \subseteq Mounts /\ damaged \subseteq Mounts
    /\ worker \in [Mounts -> {"none", "starting", "serving", "gone"}]
    /\ faults \in 0..MaxFaults

TypeOK == ControlType /\ FlagType /\ ResourceType

\* Releasing the MAC state never deletes what the container was shown: no
\* recursive removal runs while a live projection of a workspace directory is
\* mounted beneath it (cleanupOwnedProjectionEntry, removeWorkloadMACState).
SourcesIntact == damaged = {}

\* A container only runs behind the confinement it was started with: the
\* profile stays loaded and no projection is unmounted beneath it, whatever
\* crashes, passes and restarts happen (run_cleanup.go, reconcileOne).
ConfinedWhileRunning ==
    container =>
        /\ backend = "apparmor" => loaded
        /\ backend = "selinux" => \A i \in Mounts : i \in mount \/ worker[i] = "gone"

\* No kernel-side resource is ever without its durable ownership record and
\* the pins it is built on, so every crash leaves reconciliation a complete
\* retry marker (workload_mac.go Prepare); what was answered clean stays clean.
KernelStateOwned ==
    /\ loaded \/ mount \cup bind # {} => record
    /\ mount \cup bind # {} \/ (\E i \in Mounts : worker[i] = "serving") => pins
    /\ pc \in {"clean", "finalize", "released"} => ~loaded /\ mount = {} /\ bind = {}

\* State that a failed cleanup or a crash left behind is released by
\* reconciliation at some later start, unless proveProjectionRuntimeShape
\* cannot pass what it finds: a foreign entry, or a disconnected mount, which
\* reconciliation never releases (see the findings). A profile whose source were removed while it is loaded,
\* say, could never be unloaded again.
RetainedIsRecovered ==
    (record /\ pc \in {"retained", "down"}) ~> (~record \/ foreign \/ Disconnected # {})

=============================================================================
