----------------------------- MODULE RunCleanup -----------------------------
(***************************************************************************)
(* The resources of one docker run: capacity slot, session-use lease,      *)
(* inode pins, workload MAC state and its durable ownership record, from   *)
(* their preparation in handleRun (run.go) through the ordered cleanup of  *)
(* run_cleanup.go to the startup reconciliation of workload_mac.go after a *)
(* crash of the daemon or a reboot of the host.  Pins, MAC state, state    *)
(* directories and containers outlive the daemon; slots and leases do not. *)
(***************************************************************************)
EXTENDS Naturals, FiniteSets

CONSTANTS
    Ops,          \* run operations (their identifiers are never reused)
    Mounts,       \* mount indices of every operation
    MaxCrashes    \* bound on daemon crashes and host reboots

ASSUME BoundAssumption == MaxCrashes \in Nat

VARIABLES
    phase,        \* "starting" until ReconcileStartup returned, then "serving"
    crashes,      \* crashes and reboots so far
    todo,         \* state-root entries ReconcileStartup has still to visit
    pc,           \* progress of handleRun and of the completion goroutine
    mode, stage,  \* the cleanup sequence being run and its current stage
    capacity,     \* op.capacityRelease # nil
    lease,        \* the session-use lease behind op.macLeaseRelease is held
    pins,         \* mounted inode pins
    mac,          \* kernel-side workload MAC state
    stateDir,     \* <StateDir>/workload-mac/<op>: none, dir, dir with record
    runtimeDir,   \* <RuntimeDir>/workload-mac/<op> exists
    cli,          \* the docker run CLI process
    container     \* the correlated container in dockerd

memVars == <<capacity, lease>>
hostVars == <<pins, mac, stateDir, runtimeDir>>
dockerVars == <<cli, container>>
ctlVars == <<pc, mode, stage>>
bootVars == <<phase, crashes, todo>>
vars == <<bootVars, ctlVars, memVars, hostVars, dockerVars>>

PCs == {"idle", "pinning", "mkruntime", "writing", "backend", "building",
        "prepared", "admitted", "running", "cleanup", "finishing", "ended",
        "dead", "reconciled"}
Modes == {"none", "rollback", "post", "startup"}
Stages == {"none", "capacity", "proof", "remove", "settle", "mac", "pins",
           "runtime", "record", "lease", "done"}

TypeOK ==
    /\ phase \in {"starting", "serving"} /\ crashes \in 0..MaxCrashes
    /\ todo \subseteq Ops
    /\ pc \in [Ops -> PCs] /\ mode \in [Ops -> Modes] /\ stage \in [Ops -> Stages]
    /\ capacity \in [Ops -> BOOLEAN] /\ lease \in [Ops -> BOOLEAN]
    /\ pins \in [Ops -> SUBSET Mounts]
    /\ mac \in [Ops -> {"none", "partial", "full"}]
    /\ stateDir \in [Ops -> {"none", "dir", "record"}]
    /\ runtimeDir \in [Ops -> BOOLEAN]
    /\ cli \in [Ops -> {"none", "alive", "sent", "gone"}]
    /\ container \in [Ops -> {"none", "creating", "created", "running",
                              "removing", "exited"}]

Init ==
    /\ phase = "serving" /\ crashes = 0 /\ todo = {}
    /\ pc = [o \in Ops |-> "idle"]
    /\ mode = [o \in Ops |-> "none"] /\ stage = [o \in Ops |-> "none"]
    /\ capacity = [o \in Ops |-> FALSE] /\ lease = [o \in Ops |-> FALSE]
    /\ pins = [o \in Ops |-> {}] /\ mac = [o \in Ops |-> "none"]
    /\ stateDir = [o \in Ops |-> "none"]
    /\ runtimeDir = [o \in Ops |-> FALSE]
    /\ cli = [o \in Ops |-> "none"] /\ container = [o \in Ops |-> "none"]

At(o, p) == pc[o] = p
Goto(o, p) == pc' = [pc EXCEPT ![o] = p] /\ UNCHANGED <<mode, stage>>

(* Enter the ordered cleanup.  rollbackRunPreparation starts with the      *)
(* capacity stage, the other two paths with the container-absence proof.   *)
Clean(o, m, s) ==
    /\ pc' = [pc EXCEPT ![o] = "cleanup"]
    /\ mode' = [mode EXCEPT ![o] = m]
    /\ stage' = [stage EXCEPT ![o] = s]

Rollback(o) == Clean(o, "rollback", "capacity")

-----------------------------------------------------------------------------
(* Preparation.                                                            *)

(* reserve, AcquireSessionUse, newRunOperation.                            *)
Accept(o) ==
    /\ phase = "serving" /\ At(o, "idle")
    /\ Goto(o, "pinning")
    /\ capacity' = [capacity EXCEPT ![o] = TRUE]
    /\ lease' = [lease EXCEPT ![o] = TRUE]
    /\ UNCHANGED <<bootVars, hostVars, dockerVars>>

(* pinMountSource, one mount at a time; a failing pin undoes itself.       *)
Pin(o) ==
    /\ At(o, "pinning")
    /\ \E i \in Mounts \ pins[o] :
          \/ /\ pins' = [pins EXCEPT ![o] = @ \cup {i}]
             /\ UNCHANGED ctlVars
          \/ Rollback(o) /\ UNCHANGED pins
    /\ UNCHANGED <<bootVars, memVars, mac, stateDir, runtimeDir, dockerVars>>

(* Prepare: the state directory ...                                        *)
MkState(o) ==
    /\ At(o, "pinning") /\ pins[o] = Mounts
    /\ \/ Goto(o, "mkruntime") /\ stateDir' = [stateDir EXCEPT ![o] = "dir"]
       \/ Rollback(o) /\ UNCHANGED stateDir
    /\ UNCHANGED <<bootVars, memVars, pins, mac, runtimeDir, dockerVars>>

(* ... the runtime directory ...                                           *)
MkRuntime(o) ==
    /\ At(o, "mkruntime")
    /\ \/ /\ Goto(o, "writing")
          /\ runtimeDir' = [runtimeDir EXCEPT ![o] = TRUE]
          /\ UNCHANGED stateDir
       \/ /\ Rollback(o) /\ UNCHANGED runtimeDir
          /\ \E d \in {"none", "dir"} : stateDir' = [stateDir EXCEPT ![o] = d]
    /\ UNCHANGED <<bootVars, memVars, pins, mac, dockerVars>>

(* ... and the ownership record, committed by a rename.  The directories   *)
(* of a failed commit are removed as far as possible.                      *)
WriteRecord(o) ==
    /\ At(o, "writing")
    /\ \/ /\ Goto(o, "backend")
          /\ stateDir' = [stateDir EXCEPT ![o] = "record"]
          /\ UNCHANGED runtimeDir
       \/ /\ Rollback(o)
          /\ \E d \in {"none", "dir"} : stateDir' = [stateDir EXCEPT ![o] = d]
          /\ \E b \in BOOLEAN : runtimeDir' = [runtimeDir EXCEPT ![o] = b]
    /\ UNCHANGED <<bootVars, memVars, pins, mac, dockerVars>>

(* backend.prepare creates its first kernel-side resource ...              *)
BackendBegin(o) ==
    /\ At(o, "backend")
    /\ Goto(o, "building")
    /\ mac' = [mac EXCEPT ![o] = "partial"]
    /\ UNCHANGED <<bootVars, memVars, pins, stateDir, runtimeDir, dockerVars>>

BackendDone(o) ==
    /\ At(o, "building")
    /\ Goto(o, "prepared")
    /\ mac' = [mac EXCEPT ![o] = "full"]
    /\ UNCHANGED <<bootVars, memVars, pins, stateDir, runtimeDir, dockerVars>>

(* ... or fails: its partial state is cleaned and the run rolled back.     *)
BackendFails(o) ==
    /\ pc[o] \in {"backend", "building"}
    /\ Rollback(o)
    /\ mac' = [mac EXCEPT ![o] = "none"]
    /\ UNCHANGED <<bootVars, memVars, pins, stateDir, runtimeDir, dockerVars>>

(* workloadMACRetainedError: partial state stays, with the pins and the    *)
(* lease it depends on; only the slot is released.                         *)
BackendRetained(o) ==
    /\ At(o, "building")
    /\ Goto(o, "ended")
    /\ capacity' = [capacity EXCEPT ![o] = FALSE]
    /\ UNCHANGED <<bootVars, lease, hostVars, dockerVars>>

(* failRunArgvPreparation, a refused admission, an operation terminated    *)
(* before its start, a failed cmd.Start.                                   *)
PreStartFails(o) ==
    /\ pc[o] \in {"prepared", "admitted"}
    /\ Rollback(o)
    /\ UNCHANGED <<bootVars, memVars, hostVars, dockerVars>>

Admit(o) ==
    /\ At(o, "prepared")
    /\ Goto(o, "admitted")
    /\ UNCHANGED <<bootVars, memVars, hostVars, dockerVars>>

Start(o) ==
    /\ At(o, "admitted")
    /\ Goto(o, "running")
    /\ cli' = [cli EXCEPT ![o] = "alive"]
    /\ UNCHANGED <<bootVars, memVars, hostVars, container>>

(* Mutant: the end of the CLI process is taken for the container's end.    *)
MutWaitSkipsProof(o) ==
    /\ At(o, "running") /\ cli[o] = "gone"
    /\ Clean(o, "post", "mac")
    /\ UNCHANGED <<bootVars, memVars, hostVars, dockerVars>>

(* waitRunCompletion: cmd.Wait returns, cleanupAfterRunProcess begins.     *)
WaitReturns(o) ==
    /\ At(o, "running") /\ cli[o] = "gone"
    /\ Clean(o, "post", "proof")
    /\ UNCHANGED <<bootVars, memVars, hostVars, dockerVars>>

-----------------------------------------------------------------------------
(* dockerd and the docker run CLI, which sends one create request: it is   *)
(* carried out or dropped even if the CLI dies meanwhile, but only a live  *)
(* CLI goes on to start the container.                                     *)

CliAlive(o) == cli[o] \in {"alive", "sent"}

Docker(o, from, to) ==
    /\ container[o] = from
    /\ container' = [container EXCEPT ![o] = to]
    /\ UNCHANGED <<bootVars, ctlVars, memVars, hostVars, cli>>

CliCreates(o) ==
    /\ cli[o] = "alive"
    /\ cli' = [cli EXCEPT ![o] = "sent"]
    /\ container' = [container EXCEPT ![o] = "creating"]
    /\ UNCHANGED <<bootVars, ctlVars, memVars, hostVars>>

CliStarts(o) == cli[o] = "sent" /\ Docker(o, "created", "running")

CliExits(o) ==
    /\ CliAlive(o)
    /\ cli' = [cli EXCEPT ![o] = "gone"]
    /\ UNCHANGED <<bootVars, ctlVars, memVars, hostVars, container>>

DockerdStep(o) ==
    \/ Docker(o, "creating", "created") \/ Docker(o, "creating", "none")
    \/ Docker(o, "running", "removing") \/ Docker(o, "running", "exited")
    \/ Docker(o, "removing", "none") \/ Docker(o, "removing", "exited")

-----------------------------------------------------------------------------
(* The ordered cleanup: runCleanupSequence.run over the stages of a mode.  *)

Doing(o, s) == At(o, "cleanup") /\ stage[o] = s

(* Mutant: startup reconciliation forgets the stale pins.                  *)
MutSkipStalePins(m, s) ==
    CASE s \in {"capacity", "proof", "settle"} -> "mac"
      [] s = "mac" -> IF m = "startup" THEN "runtime" ELSE "pins"
      [] s = "pins" -> "runtime"
      [] s = "runtime" -> "record"
      [] s = "record" -> IF m = "startup" THEN "done" ELSE "lease"
      [] s = "lease" -> "done"

(* canonicalWorkloadCleanupOrder, restricted to the stages of the mode     *)
(* (removeWorkloadMACState is the two stages "runtime" and "record").      *)
Then(m, s) ==
    CASE s \in {"capacity", "proof", "settle"} -> "mac"
      [] s = "mac" -> "pins"
      [] s = "pins" -> "runtime"
      [] s = "runtime" -> "record"
      [] s = "record" -> IF m = "startup" THEN "done" ELSE "lease"
      [] s = "lease" -> "done"

StageOK(o) ==
    /\ stage' = [stage EXCEPT ![o] = Then(mode[o], stage[o])]
    /\ UNCHANGED <<pc, mode>>

To(o, s) == stage' = [stage EXCEPT ![o] = s] /\ UNCHANGED <<pc, mode>>

(* Mutant: a failed stage does not stop the sequence.                      *)
MutStageFailsGoesOn(o) ==
    To(o, IF mode[o] = "startup" THEN "done" ELSE "lease")

(* The first failure ends the sequence; everything later is retained.      *)
StageFails(o) ==
    /\ pc' = [pc EXCEPT ![o] = IF mode[o] = "startup" THEN "dead" ELSE "finishing"]
    /\ stage' = [stage EXCEPT ![o] = "none"]
    /\ UNCHANGED mode

ReleaseSlot(o) ==
    /\ Doing(o, "capacity") /\ StageOK(o)
    /\ capacity' = [capacity EXCEPT ![o] = FALSE]
    /\ UNCHANGED <<bootVars, lease, hostVars, dockerVars>>

(* What docker ps -a lists: a create request still in flight is not there. *)
Visible(o) == container[o] \notin {"none", "creating"}

(* proveOperationContainerAbsent: inspect (which may fail or report an     *)
(* unclassifiable state) ...                                               *)
Inspect(o) ==
    /\ Doing(o, "proof")
    /\ \/ ~Visible(o) /\ StageOK(o)
       \/ Visible(o) /\ To(o, "remove")
       \/ StageFails(o)
    /\ UNCHANGED <<bootVars, memVars, hostVars, dockerVars>>

(* ... docker rm -f, where a removal already in progress is no failure ... *)
ForceRemove(o) ==
    /\ Doing(o, "remove")
    /\ \/ /\ To(o, "settle")
          /\ \E c \in {"none", "removing"} :
                /\ c = "removing" => container[o] = "removing"
                /\ container' = [container EXCEPT ![o] = c]
       \/ StageFails(o) /\ UNCHANGED container
    /\ UNCHANGED <<bootVars, memVars, hostVars, cli>>

(* Mutant: the settle loop has no window of its own.                       *)
MutSettleForever(o) ==
    /\ Doing(o, "settle")
    /\ ~Visible(o) /\ StageOK(o)
    /\ UNCHANGED <<bootVars, memVars, hostVars, dockerVars>>

(* ... and polling until the container is gone or the window closes.       *)
Settle(o) ==
    /\ Doing(o, "settle")
    /\ \/ ~Visible(o) /\ StageOK(o)
       \/ StageFails(o)
    /\ UNCHANGED <<bootVars, memVars, hostVars, dockerVars>>

(* preparedWorkloadMAC.Cleanup / cleanupOwnedState.                        *)
CleanMAC(o) ==
    /\ Doing(o, "mac")
    /\ \/ StageOK(o) /\ mac' = [mac EXCEPT ![o] = "none"]
       \/ /\ mac[o] # "none" /\ StageFails(o)
          /\ \E m \in {"partial", mac[o]} : mac' = [mac EXCEPT ![o] = m]
       \/ mode[o] = "startup" /\ StageFails(o) /\ UNCHANGED mac
    /\ UNCHANGED <<bootVars, memVars, pins, stateDir, runtimeDir, dockerVars>>

(* cleanupPinnedMounts / cleanupStalePins: some pins may stay.             *)
CleanPins(o) ==
    /\ Doing(o, "pins")
    /\ \E left \in SUBSET pins[o] :
          /\ pins' = [pins EXCEPT ![o] = left]
          /\ \/ left = {} /\ StageOK(o)
             \/ (mode[o] = "startup" \/ pins[o] # {}) /\ StageFails(o)
    /\ UNCHANGED <<bootVars, memVars, mac, stateDir, runtimeDir, dockerVars>>

(* removeWorkloadMACState: the runtime directory first ...                 *)
RemoveRuntime(o) ==
    /\ Doing(o, "runtime")
    /\ \/ StageOK(o) /\ runtimeDir' = [runtimeDir EXCEPT ![o] = FALSE]
       \/ runtimeDir[o] /\ StageFails(o) /\ UNCHANGED runtimeDir
    /\ UNCHANGED <<bootVars, memVars, pins, mac, stateDir, dockerVars>>

(* ... the ownership record last.  A failing RemoveAll may have removed    *)
(* the record and left the directory.                                      *)
RemoveRecord(o) ==
    /\ Doing(o, "record")
    /\ \/ StageOK(o) /\ stateDir' = [stateDir EXCEPT ![o] = "none"]
       \/ /\ stateDir[o] # "none" /\ StageFails(o)
          /\ \E d \in {"dir", stateDir[o]} : stateDir' = [stateDir EXCEPT ![o] = d]
    /\ UNCHANGED <<bootVars, memVars, pins, mac, runtimeDir, dockerVars>>

ReleaseLease(o) ==
    /\ Doing(o, "lease") /\ StageOK(o)
    /\ lease' = [lease EXCEPT ![o] = FALSE]
    /\ UNCHANGED <<bootVars, capacity, hostVars, dockerVars>>

SequenceDone(o) ==
    /\ Doing(o, "done")
    /\ Goto(o, IF mode[o] = "startup" THEN "reconciled" ELSE "finishing")
    /\ UNCHANGED <<bootVars, memVars, hostVars, dockerVars>>

(* The terminal transition of the operation releases its slot.             *)
Finish(o) ==
    /\ At(o, "finishing")
    /\ Goto(o, "ended")
    /\ capacity' = [capacity EXCEPT ![o] = FALSE]
    /\ UNCHANGED <<bootVars, lease, hostVars, dockerVars>>

CleanupStep(o) ==
    \/ ReleaseSlot(o) \/ Inspect(o) \/ ForceRemove(o) \/ Settle(o)
    \/ CleanMAC(o) \/ CleanPins(o) \/ RemoveRuntime(o) \/ RemoveRecord(o)
    \/ ReleaseLease(o) \/ SequenceDone(o) \/ Finish(o)

-----------------------------------------------------------------------------
(* Crash, reboot and startup reconciliation.                               *)

(* The process is gone, with its slots and leases and (by the unit's       *)
(* control group) its docker CLIs; systemd starts the daemon again.        *)
Die ==
    /\ crashes < MaxCrashes
    /\ crashes' = crashes + 1
    /\ phase' = "starting"
    /\ pc' = [o \in Ops |-> IF pc[o] \in {"idle", "reconciled"} THEN pc[o]
                                                               ELSE "dead"]
    /\ mode' = [o \in Ops |-> "none"] /\ stage' = [o \in Ops |-> "none"]
    /\ capacity' = [o \in Ops |-> FALSE] /\ lease' = [o \in Ops |-> FALSE]
    /\ cli' = [o \in Ops |-> IF CliAlive(o) THEN "gone" ELSE cli[o]]

Crash ==
    /\ Die
    /\ todo' = {o \in Ops : stateDir[o] # "none"}
    /\ UNCHANGED <<hostVars, container>>

(* A reboot also loses every kernel resource and the runtime directory;    *)
(* a record that was never synced may be lost with its file.               *)
Reboot ==
    /\ Die
    /\ pins' = [o \in Ops |-> {}] /\ mac' = [o \in Ops |-> "none"]
    /\ runtimeDir' = [o \in Ops |-> FALSE]
    /\ container' = [o \in Ops |-> CASE container[o] = "creating" -> "none"
                                     [] container[o] = "running" -> "exited"
                                     [] OTHER -> container[o]]
    /\ \E lost \in SUBSET {o \in Ops : stateDir[o] = "record"} :
          stateDir' = [o \in Ops |-> IF o \in lost THEN "dir" ELSE stateDir[o]]
    /\ todo' = {o \in Ops : stateDir'[o] # "none"}

Reconciling == \E o \in Ops : At(o, "cleanup") /\ mode[o] = "startup"

(* ReconcileStartup takes the next entry: parseReconcileEntry and the      *)
(* validations of reconcileOne, then the ordered cleanup.                  *)
ReconcileEntry(o) ==
    /\ phase = "starting" /\ ~Reconciling /\ o \in todo
    /\ todo' = todo \ {o}
    /\ \/ stateDir[o] = "record" /\ Clean(o, "startup", "proof")
       \/ UNCHANGED ctlVars
    /\ UNCHANGED <<phase, crashes, memVars, hostVars, dockerVars>>

Serve ==
    /\ phase = "starting" /\ ~Reconciling /\ todo = {}
    /\ phase' = "serving"
    /\ UNCHANGED <<crashes, todo, ctlVars, memVars, hostVars, dockerVars>>

-----------------------------------------------------------------------------
HandlerStep(o) ==
    \/ Pin(o) \/ MkState(o) \/ MkRuntime(o) \/ WriteRecord(o)
    \/ BackendBegin(o) \/ BackendDone(o) \/ BackendFails(o)
    \/ BackendRetained(o) \/ PreStartFails(o) \/ Admit(o) \/ Start(o)
    \/ WaitReturns(o)

DockerStep(o) ==
    CliCreates(o) \/ CliStarts(o) \/ CliExits(o) \/ DockerdStep(o)

Next ==
    \/ \E o \in Ops : \/ Accept(o) \/ HandlerStep(o) \/ CleanupStep(o)
                      \/ DockerStep(o) \/ ReconcileEntry(o)
    \/ Crash \/ Reboot \/ Serve

Spec == Init /\ [][Next]_vars

(* Every cleanup stage is bounded by a timeout and startup takes its       *)
(* steps; dockerd and the docker CLI owe nothing.                          *)
Fairness ==
    /\ \A o \in Ops : WF_vars(CleanupStep(o)) /\ WF_vars(ReconcileEntry(o))
    /\ WF_vars(Serve)

FairSpec == Spec /\ Fairness

-----------------------------------------------------------------------------
(* "No workload MAC state, pin, or lease may be released while a           *)
(* correlated container may still run": a running container has its full   *)
(* MAC state, all its pins and its ownership record, over failed           *)
(* preparations, cleanups, crashes and late docker requests.               *)
ContainerConfined ==
    \A o \in Ops : container[o] = "running" =>
        mac[o] = "full" /\ pins[o] = Mounts /\ stateDir[o] = "record"

(* The session-use lease of an operation of this daemon is given up after  *)
(* everything that depends on the covered tree, retained state included.   *)
LeaseReleasedLast ==
    \A o \in Ops :
        pc[o] \notin {"idle", "dead", "reconciled"}
          /\ mode[o] # "startup" /\ ~lease[o] =>
            /\ mac[o] = "none" /\ pins[o] = {} /\ stateDir[o] = "none"
            /\ container[o] # "running"

(* The ownership record goes last: no step drops it while pins, MAC state  *)
(* or a running container still need it for reconciliation.                *)
RecordRemovedLast ==
    [][\A o \in Ops : stateDir[o] = "record" /\ stateDir'[o] # "record" =>
          pins'[o] = {} /\ mac'[o] = "none" /\ container'[o] # "running"]_vars

(* A reconciled operation has left nothing behind on the host.             *)
ReconciledIsClean ==
    \A o \in Ops : pc[o] = "reconciled" =>
        /\ pins[o] = {} /\ mac[o] = "none"
        /\ stateDir[o] = "none" /\ ~runtimeDir[o] /\ container[o] # "running"

(* An ended operation owns no slot, although its MAC state, its pins and   *)
(* its lease may have to be retained.                                      *)
RetainedFreesSlot == \A o \in Ops : pc[o] = "ended" => ~capacity[o]

(* Every cleanup ends, whatever dockerd does: the absence proof is bounded.*)
CleanupEnds == \A o \in Ops : At(o, "cleanup") ~> ~At(o, "cleanup")

(* The claim of the architecture document: the durable ownership record is *)
(* committed before any kernel-side resource of the operation.             *)
RecordBeforeKernelState ==
    \A o \in Ops : pins[o] # {} \/ mac[o] # "none" => stateDir[o] = "record"
=============================================================================
