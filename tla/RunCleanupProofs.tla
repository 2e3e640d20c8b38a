-------------------------- MODULE RunCleanupProofs --------------------------
(***************************************************************************)
(* Confinement outlives the container and the ownership record goes last,  *)
(* for every number of operations, mounts, crashes and reboots.            *)
(***************************************************************************)
EXTENDS RunCleanup, TLAPS

(* The control points of handleRun and the stages of a cleanup, grouped.    *)
Early == {"idle", "pinning", "mkruntime", "writing", "backend", "building",
          "prepared", "admitted"}
Recorded == {"backend", "building", "prepared", "admitted", "running"}
Handling == {"pinning", "mkruntime", "writing"} \cup Recorded
Proved == {"mac", "pins", "runtime", "record", "lease", "done"}

(* Only a running handler has a live docker CLI, and before that there is  *)
(* no container at all.                                                    *)
DockerOK(o) ==
    /\ CliAlive(o) => pc[o] = "running"
    /\ pc[o] \in Early \/ (pc[o] = "cleanup" /\ mode[o] = "rollback")
          => container[o] = "none"

(* What the preparation has built at each of its control points.           *)
HostOK(o) ==
    /\ pc[o] \in {"idle", "pinning"} => stateDir[o] = "none" /\ mac[o] = "none"
    /\ pc[o] \in {"mkruntime", "writing"} =>
          stateDir[o] = "dir" /\ mac[o] = "none" /\ pins[o] = Mounts
    /\ pc[o] \in Recorded => stateDir[o] = "record" /\ pins[o] = Mounts
    /\ pc[o] \in {"prepared", "admitted", "running"} => mac[o] = "full"

(* What a cleanup has achieved when it reaches a stage.                    *)
StageInv(o) ==
    pc[o] = "cleanup" =>
        /\ mode[o] # "none" /\ stage[o] # "none"
        /\ stage[o] = "capacity" => mode[o] = "rollback"
        /\ stage[o] \in Proved => container[o] # "running"
        /\ stage[o] \in Proved \ {"mac"} => mac[o] = "none"
        /\ stage[o] \in {"runtime", "record", "lease", "done"} => pins[o] = {}
        /\ stage[o] \in {"record", "lease", "done"} => ~runtimeDir[o]
        /\ stage[o] \in {"lease", "done"} => stateDir[o] = "none"

(* The lease is held until nothing depends on it.                          *)
LeaseInv(o) ==
    /\ pc[o] \in Handling => lease[o]
    /\ pc[o] = "cleanup" /\ mode[o] # "startup" /\ stage[o] # "done" => lease[o]
    /\ pc[o] \in {"finishing", "ended"} /\ ~lease[o] =>
          /\ mac[o] = "none" /\ pins[o] = {} /\ stateDir[o] = "none"
          /\ container[o] # "running"

(* While the daemon starts it has no operation of its own.                 *)
BootOK(o) ==
    phase = "starting" =>
        \/ pc[o] \in {"idle", "dead", "reconciled"}
        \/ pc[o] = "cleanup" /\ mode[o] = "startup"

(* What ContainerConfined and ReconciledIsClean say of one operation.      *)
Confined(o) ==
    container[o] = "running" =>
        mac[o] = "full" /\ pins[o] = Mounts /\ stateDir[o] = "record"

Reconciled(o) ==
    pc[o] = "reconciled" =>
        /\ pins[o] = {} /\ mac[o] = "none"
        /\ stateDir[o] = "none" /\ ~runtimeDir[o] /\ container[o] # "running"

OpInv(o) ==
    /\ DockerOK(o) /\ HostOK(o) /\ StageInv(o) /\ LeaseInv(o) /\ BootOK(o)
    /\ Confined(o) /\ Reconciled(o)

CleanupInv == TypeOK /\ \A o \in Ops : OpInv(o)

-----------------------------------------------------------------------------
(* Every stage the canonical order names leads to another stage.           *)
LEMMA ThenStage ==
    ASSUME NEW m \in Modes,
           NEW s \in {"capacity", "proof", "settle", "mac", "pins", "runtime",
                      "record", "lease"}
    PROVE  Then(m, s) \in Proved
  BY DEF Then, Proved

(* A Boolean flag of one operation may be set or cleared.                  *)
LEMMA SetFlag ==
    ASSUME NEW f \in [Ops -> BOOLEAN], NEW o \in Ops, NEW b \in BOOLEAN
    PROVE  [f EXCEPT ![o] = b] \in [Ops -> BOOLEAN]
  OBVIOUS

(* Preparation steps preserve the types.                                   *)
LEMMA HandlerType ==
    ASSUME TypeOK, NEW o \in Ops, Accept(o) \/ HandlerStep(o)
    PROVE  TypeOK'
<1> USE DEF TypeOK, PCs, Modes, Stages, Goto, Rollback, Clean, At, bootVars,
        ctlVars, memVars, hostVars, dockerVars
<1>1. CASE Accept(o)
  BY <1>1 DEF Accept
<1>2. CASE Pin(o)
  BY <1>2 DEF Pin
<1>3. CASE MkState(o)
  BY <1>3 DEF MkState
<1>4. CASE MkRuntime(o)
  <2>1. CASE Goto(o, "writing")
    <3>1. runtimeDir' \in [Ops -> BOOLEAN]
      BY <1>4, SetFlag DEF MkRuntime
    <3>2. QED
      BY <1>4, <2>1, <3>1 DEF MkRuntime
  <2>2. CASE Rollback(o)
    BY <1>4, <2>2 DEF MkRuntime
  <2>3. QED
    BY <1>4, <2>1, <2>2 DEF MkRuntime
<1>5. CASE WriteRecord(o)
  BY <1>5 DEF WriteRecord
<1>6. CASE BackendBegin(o) \/ BackendDone(o) \/ BackendFails(o)
  BY <1>6 DEF BackendBegin, BackendDone, BackendFails
<1>7. CASE BackendRetained(o)
  BY <1>7 DEF BackendRetained
<1>8. CASE PreStartFails(o)
  BY <1>8 DEF PreStartFails
<1>9. CASE Admit(o) \/ Start(o) \/ WaitReturns(o)
  BY <1>9 DEF Admit, Start, WaitReturns
<1>10. QED
  BY <1>1, <1>2, <1>3, <1>4, <1>5, <1>6, <1>7, <1>8, <1>9 DEF HandlerStep

(* Cleanup steps preserve the types.                                       *)
LEMMA CleanupType ==
    ASSUME TypeOK, NEW o \in Ops, CleanupStep(o)
    PROVE  TypeOK'
<1> USE ThenStage DEF TypeOK, PCs, Modes, Stages, Goto, At, Doing, StageOK,
        StageFails, To, Proved, bootVars, ctlVars, memVars, hostVars, dockerVars
<1>1. CASE ReleaseSlot(o)
  BY <1>1 DEF ReleaseSlot
<1>2. CASE Inspect(o)
  <2>1. CASE StageOK(o)
    BY <1>2, <2>1 DEF Inspect
  <2>2. CASE To(o, "remove") \/ StageFails(o)
    BY <1>2, <2>2 DEF Inspect
  <2>3. QED
    BY <1>2, <2>1, <2>2 DEF Inspect
<1>3. CASE ForceRemove(o) \/ Settle(o)
  BY <1>3 DEF ForceRemove, Settle
<1>4. CASE CleanMAC(o)
  BY <1>4 DEF CleanMAC
<1>5. CASE CleanPins(o)
  BY <1>5 DEF CleanPins
<1>6. CASE RemoveRuntime(o)
  <2>1. CASE StageOK(o)
    <3>1. runtimeDir' \in [Ops -> BOOLEAN]
      BY <1>6, SetFlag DEF RemoveRuntime
    <3>2. QED
      BY <1>6, <2>1, <3>1 DEF RemoveRuntime
  <2>2. CASE StageFails(o)
    BY <1>6, <2>2 DEF RemoveRuntime
  <2>3. QED
    BY <1>6, <2>1, <2>2 DEF RemoveRuntime
<1>7. CASE RemoveRecord(o)
  BY <1>7 DEF RemoveRecord
<1>8. CASE ReleaseLease(o)
  BY <1>8 DEF ReleaseLease
<1>9. CASE SequenceDone(o)
  BY <1>9 DEF SequenceDone
<1>10. CASE Finish(o)
  BY <1>10 DEF Finish
<1>11. QED
  BY <1>1, <1>2, <1>3, <1>4, <1>5, <1>6, <1>7, <1>8, <1>9, <1>10
     DEF CleanupStep

(* Everything else preserves the types.                                    *)
LEMMA OtherType ==
    ASSUME TypeOK,
           \/ \E o \in Ops : DockerStep(o) \/ ReconcileEntry(o)
           \/ Crash \/ Reboot \/ Serve
    PROVE  TypeOK'
<1> USE BoundAssumption DEF TypeOK, PCs, Modes, Stages, Clean, At, bootVars,
        ctlVars, memVars, hostVars, dockerVars
<1>1. CASE \E o \in Ops : DockerStep(o)
  BY <1>1 DEF DockerStep, CliCreates, CliStarts, CliExits, DockerdStep, Docker
<1>2. CASE \E o \in Ops : ReconcileEntry(o)
  BY <1>2 DEF ReconcileEntry
<1>3. CASE Crash
  BY <1>3 DEF Crash, Die
<1>4. CASE Reboot
  BY <1>4 DEF Reboot, Die
<1>5. CASE Serve
  BY <1>5 DEF Serve
<1>6. QED
  BY <1>1, <1>2, <1>3, <1>4, <1>5

(* The type invariant of the run resources holds in every behaviour.       *)
THEOREM RunTypeCorrect == Spec => []TypeOK
<1>1. Init => TypeOK
  BY BoundAssumption DEF Init, TypeOK, PCs, Modes, Stages
<1>2. TypeOK /\ [Next]_vars => TypeOK'
  <2>1. CASE UNCHANGED vars
    BY <2>1 DEF TypeOK, vars, bootVars, ctlVars, memVars, hostVars, dockerVars
  <2>2. CASE Next
    BY <2>2, HandlerType, CleanupType, OtherType DEF Next
  <2>3. QED
    BY <2>1, <2>2
<1>3. QED
  BY <1>1, <1>2, PTL DEF Spec

-----------------------------------------------------------------------------
(* A step that leaves the variables of p alone.                            *)
Same(p) ==
    /\ phase' = phase
    /\ pc'[p] = pc[p] /\ mode'[p] = mode[p] /\ stage'[p] = stage[p]
    /\ lease'[p] = lease[p] /\ pins'[p] = pins[p] /\ mac'[p] = mac[p]
    /\ stateDir'[p] = stateDir[p] /\ runtimeDir'[p] = runtimeDir[p]
    /\ cli'[p] = cli[p] /\ container'[p] = container[p]

(* Such a step preserves what the invariant says of p.                     *)
LEMMA SamePreserves ==
    ASSUME NEW p \in Ops, OpInv(p), Same(p)
    PROVE  OpInv(p)'
  BY DEF OpInv, Same, DockerOK, HostOK, StageInv, LeaseInv, BootOK, Confined,
         Reconciled, CliAlive

(* A preparation step of one operation leaves the others alone.            *)
LEMMA HandlerFrame ==
    ASSUME TypeOK, NEW o \in Ops, NEW p \in Ops, p # o,
           Accept(o) \/ HandlerStep(o)
    PROVE  Same(p)
<1> USE DEF TypeOK, Same, Goto, Rollback, Clean, bootVars, ctlVars, memVars,
        hostVars, dockerVars
<1>1. CASE Accept(o) \/ Pin(o)
  BY <1>1 DEF Accept, Pin
<1>2. CASE MkState(o) \/ MkRuntime(o)
  BY <1>2 DEF MkState, MkRuntime
<1>3. CASE WriteRecord(o)
  BY <1>3 DEF WriteRecord
<1>4. CASE BackendBegin(o) \/ BackendDone(o) \/ BackendFails(o)
  BY <1>4 DEF BackendBegin, BackendDone, BackendFails
<1>5. CASE BackendRetained(o) \/ PreStartFails(o) \/ Admit(o)
  BY <1>5 DEF BackendRetained, PreStartFails, Admit
<1>6. CASE Start(o) \/ WaitReturns(o)
  BY <1>6 DEF Start, WaitReturns
<1>7. QED
  BY <1>1, <1>2, <1>3, <1>4, <1>5, <1>6 DEF HandlerStep

(* So does a cleanup step ...                                              *)
LEMMA CleanupFrame ==
    ASSUME TypeOK, NEW o \in Ops, NEW p \in Ops, p # o, CleanupStep(o)
    PROVE  Same(p)
<1> USE DEF TypeOK, Same, Goto, StageOK, StageFails, To, bootVars, ctlVars,
        memVars, hostVars, dockerVars
<1>1. CASE ReleaseSlot(o) \/ Inspect(o)
  BY <1>1 DEF ReleaseSlot, Inspect
<1>2. CASE ForceRemove(o) \/ Settle(o)
  BY <1>2 DEF ForceRemove, Settle
<1>3. CASE CleanMAC(o) \/ CleanPins(o)
  BY <1>3 DEF CleanMAC, CleanPins
<1>4. CASE RemoveRuntime(o) \/ RemoveRecord(o)
  BY <1>4 DEF RemoveRuntime, RemoveRecord
<1>5. CASE ReleaseLease(o) \/ SequenceDone(o) \/ Finish(o)
  BY <1>5 DEF ReleaseLease, SequenceDone, Finish
<1>6. QED
  BY <1>1, <1>2, <1>3, <1>4, <1>5 DEF CleanupStep

(* ... and a step of its CLI, its container or its reconciliation.         *)
LEMMA DockerFrame ==
    ASSUME TypeOK, NEW o \in Ops, NEW p \in Ops, p # o,
           DockerStep(o) \/ ReconcileEntry(o)
    PROVE  Same(p)
<1> USE DEF TypeOK, Same, Clean, bootVars, ctlVars, memVars, hostVars, dockerVars
<1>1. CASE DockerStep(o)
  BY <1>1 DEF DockerStep, CliCreates, CliStarts, CliExits, DockerdStep, Docker
<1>2. CASE ReconcileEntry(o)
  BY <1>2 DEF ReconcileEntry
<1>3. QED
  BY <1>1, <1>2

-----------------------------------------------------------------------------
(* A preparation step preserves what the invariant says of its operation.  *)
LEMMA HandlerOwn ==
    ASSUME TypeOK, NEW o \in Ops, OpInv(o), Accept(o) \/ HandlerStep(o)
    PROVE  OpInv(o)'
<1> USE DEF TypeOK, OpInv, DockerOK, HostOK, StageInv, LeaseInv, BootOK,
        Confined, Reconciled, CliAlive, Early, Recorded, Handling, Proved,
        At, Goto, Rollback, Clean, bootVars, ctlVars, memVars, hostVars,
        dockerVars
<1>1. CASE Accept(o)
  BY <1>1 DEF Accept
<1>2. CASE Pin(o)
  BY <1>2 DEF Pin
<1>3. CASE MkState(o)
  BY <1>3 DEF MkState
<1>4. CASE MkRuntime(o)
  BY <1>4 DEF MkRuntime
<1>5. CASE WriteRecord(o)
  BY <1>5 DEF WriteRecord
<1>6. CASE BackendBegin(o) \/ BackendDone(o)
  BY <1>6 DEF BackendBegin, BackendDone
<1>7. CASE BackendFails(o)
  BY <1>7 DEF BackendFails
<1>8. CASE BackendRetained(o)
  BY <1>8 DEF BackendRetained
<1>9. CASE PreStartFails(o)
  BY <1>9 DEF PreStartFails
<1>10. CASE Admit(o) \/ Start(o)
  BY <1>10 DEF Admit, Start
<1>11. CASE WaitReturns(o)
  BY <1>11 DEF WaitReturns
<1>12. QED
  BY <1>1, <1>2, <1>3, <1>4, <1>5, <1>6, <1>7, <1>8, <1>9, <1>10, <1>11
     DEF HandlerStep

(* So does a cleanup step: each stage starts where the one before it ended *)
(* well, and a failed one retains everything that comes later.             *)
LEMMA CleanupOwn ==
    ASSUME TypeOK, NEW o \in Ops, OpInv(o), CleanupStep(o)
    PROVE  OpInv(o)'
<1> USE DEF TypeOK, OpInv, DockerOK, HostOK, StageInv, LeaseInv, BootOK,
        Confined, Reconciled, CliAlive, Early, Recorded, Handling, Proved,
        At, Goto, Doing, StageOK, StageFails, To, Then, Modes, bootVars,
        ctlVars, memVars, hostVars, dockerVars
<1>1. CASE ReleaseSlot(o)
  BY <1>1 DEF ReleaseSlot
<1>2. CASE Inspect(o)
  BY <1>2 DEF Inspect, Visible
<1>3. CASE ForceRemove(o)
  BY <1>3 DEF ForceRemove
<1>4. CASE Settle(o)
  BY <1>4 DEF Settle, Visible
<1>5. CASE CleanMAC(o)
  BY <1>5 DEF CleanMAC
<1>6. CASE CleanPins(o)
  BY <1>6 DEF CleanPins
<1>7. CASE RemoveRuntime(o)
  BY <1>7 DEF RemoveRuntime
<1>8. CASE RemoveRecord(o)
  BY <1>8 DEF RemoveRecord
<1>9. CASE ReleaseLease(o)
  BY <1>9 DEF ReleaseLease
<1>10. CASE SequenceDone(o)
  BY <1>10 DEF SequenceDone
<1>11. CASE Finish(o)
  BY <1>11 DEF Finish
<1>12. QED
  BY <1>1, <1>2, <1>3, <1>4, <1>5, <1>6, <1>7, <1>8, <1>9, <1>10, <1>11
     DEF CleanupStep

(* A container starts only for a live CLI, whose handler is still running  *)
(* and has built everything that confines it.                              *)
LEMMA DockerOwn ==
    ASSUME TypeOK, NEW o \in Ops, OpInv(o), DockerStep(o) \/ ReconcileEntry(o)
    PROVE  OpInv(o)'
<1> USE DEF TypeOK, OpInv, DockerOK, HostOK, StageInv, LeaseInv, BootOK,
        Confined, Reconciled, CliAlive, Early, Recorded, Handling, Proved,
        At, Clean, bootVars, ctlVars, memVars, hostVars, dockerVars
<1>1. CASE CliCreates(o)
  BY <1>1 DEF CliCreates
<1>2. CASE CliStarts(o)
  BY <1>2 DEF CliStarts, Docker
<1>3. CASE CliExits(o)
  BY <1>3 DEF CliExits
<1>4. CASE DockerdStep(o)
  BY <1>4 DEF DockerdStep, Docker
<1>5. CASE ReconcileEntry(o)
  BY <1>5 DEF ReconcileEntry, Reconciling
<1>6. QED
  BY <1>1, <1>2, <1>3, <1>4, <1>5 DEF DockerStep

(* A crash or a reboot turns every operation of the old daemon into a dead *)
(* one; a reboot leaves no container running.                              *)
LEMMA BootOwn ==
    ASSUME TypeOK, NEW o \in Ops, OpInv(o), Crash \/ Reboot \/ Serve
    PROVE  OpInv(o)'
<1> USE DEF TypeOK, OpInv, DockerOK, HostOK, StageInv, LeaseInv, BootOK,
        Confined, Reconciled, CliAlive, Early, Recorded, Handling, Proved,
        At, PCs, bootVars, ctlVars, memVars, hostVars, dockerVars
<1>1. CASE Crash
  BY <1>1 DEF Crash, Die
<1>2. CASE Reboot
  <2>1. container'[o] # "running"
    BY <1>2 DEF Reboot
  <2>2. stateDir[o] = "none" => stateDir'[o] = "none"
    BY <1>2 DEF Reboot
  <2>3. QED
    BY <1>2, <2>1, <2>2 DEF Reboot, Die
<1>3. CASE Serve
  BY <1>3 DEF Serve
<1>4. QED
  BY <1>1, <1>2, <1>3

-----------------------------------------------------------------------------
(* The invariant of the run resources is inductive.                        *)
THEOREM RunInvariant == Spec => []CleanupInv
<1>1. Init => CleanupInv
  <2>1. Init => TypeOK
    BY BoundAssumption DEF Init, TypeOK, PCs, Modes, Stages
  <2>2. ASSUME Init, NEW o \in Ops PROVE OpInv(o)
    BY <2>2 DEF Init, OpInv, DockerOK, HostOK, StageInv, LeaseInv, BootOK,
       Confined, Reconciled, CliAlive, Early, Recorded, Handling, Proved
  <2>3. QED
    BY <2>1, <2>2 DEF CleanupInv
<1>2. CleanupInv /\ [Next]_vars => CleanupInv'
  <2> SUFFICES ASSUME CleanupInv, [Next]_vars PROVE CleanupInv'
    OBVIOUS
  <2>1. TypeOK /\ \A p \in Ops : OpInv(p)
    BY DEF CleanupInv
  <2>2. CASE UNCHANGED vars
    <3>1. TypeOK'
      BY <2>1, <2>2 DEF TypeOK, vars, bootVars, ctlVars, memVars, hostVars,
         dockerVars
    <3>2. \A p \in Ops : Same(p)
      BY <2>2 DEF Same, vars, bootVars, ctlVars, memVars, hostVars, dockerVars
    <3>3. QED
      BY <2>1, <3>1, <3>2, SamePreserves DEF CleanupInv
  <2>3. ASSUME NEW o \in Ops, Accept(o) \/ HandlerStep(o) PROVE CleanupInv'
    BY <2>1, <2>3, HandlerType, HandlerFrame, HandlerOwn, SamePreserves
       DEF CleanupInv
  <2>4. ASSUME NEW o \in Ops, CleanupStep(o) PROVE CleanupInv'
    BY <2>1, <2>4, CleanupType, CleanupFrame, CleanupOwn, SamePreserves
       DEF CleanupInv
  <2>5. ASSUME NEW o \in Ops, DockerStep(o) \/ ReconcileEntry(o)
        PROVE CleanupInv'
    BY <2>1, <2>5, OtherType, DockerFrame, DockerOwn, SamePreserves
       DEF CleanupInv
  <2>6. CASE Crash \/ Reboot \/ Serve
    BY <2>1, <2>6, OtherType, BootOwn DEF CleanupInv
  <2>7. QED
    BY <2>2, <2>3, <2>4, <2>5, <2>6 DEF Next
<1>3. QED
  BY <1>1, <1>2, PTL DEF Spec

(* A running container always has its full MAC state, all its pins and its *)
(* ownership record.                                                       *)
THEOREM ContainersConfined == Spec => []ContainerConfined
<1>1. CleanupInv => ContainerConfined
  BY DEF CleanupInv, OpInv, Confined, ContainerConfined
<1>2. QED
  BY <1>1, RunInvariant, PTL

(* The session-use lease is released after all that depends on it.         *)
THEOREM LeasesReleasedLast == Spec => []LeaseReleasedLast
<1>1. CleanupInv => LeaseReleasedLast
  BY DEF CleanupInv, TypeOK, PCs, Stages, Modes, OpInv, StageInv, LeaseInv,
     Handling, Recorded, Proved, LeaseReleasedLast
<1>2. QED
  BY <1>1, RunInvariant, PTL

(* Reconciliation of a record ends with a clean host.                      *)
THEOREM ReconciledClean == Spec => []ReconciledIsClean
<1>1. CleanupInv => ReconciledIsClean
  BY DEF CleanupInv, OpInv, Reconciled, ReconciledIsClean
<1>2. QED
  BY <1>1, RunInvariant, PTL

(* An ended operation gave its slot back.                                  *)
THEOREM SlotsFreed == Spec => []RetainedFreesSlot
<1>1. Init => RetainedFreesSlot
  BY DEF Init, RetainedFreesSlot
<1>2. TypeOK /\ RetainedFreesSlot /\ [Next]_vars => RetainedFreesSlot'
  <2> SUFFICES ASSUME TypeOK, RetainedFreesSlot, [Next]_vars,
                      NEW p \in Ops, pc'[p] = "ended"
               PROVE  ~capacity'[p]
    BY DEF RetainedFreesSlot
  <2> USE DEF TypeOK, RetainedFreesSlot, At, Goto, Rollback, Clean, bootVars,
          ctlVars, memVars, hostVars, dockerVars
  <2>1. CASE UNCHANGED vars
    BY <2>1 DEF vars
  <2>2. ASSUME NEW o \in Ops, Accept(o) PROVE ~capacity'[p]
    BY <2>2 DEF Accept
  <2>3. ASSUME NEW o \in Ops, HandlerStep(o) PROVE ~capacity'[p]
    <3>1. CASE BackendRetained(o)
      BY <2>3, <3>1 DEF BackendRetained
    <3>2. CASE Pin(o) \/ MkState(o) \/ MkRuntime(o)
      BY <3>2 DEF Pin, MkState, MkRuntime
    <3>3. CASE WriteRecord(o) \/ BackendBegin(o) \/ BackendDone(o)
      BY <3>3 DEF WriteRecord, BackendBegin, BackendDone
    <3>4. CASE BackendFails(o) \/ PreStartFails(o) \/ Admit(o)
      BY <3>4 DEF BackendFails, PreStartFails, Admit
    <3>5. CASE Start(o) \/ WaitReturns(o)
      BY <3>5 DEF Start, WaitReturns
    <3>6. QED
      BY <2>3, <3>1, <3>2, <3>3, <3>4, <3>5 DEF HandlerStep
  <2>4. ASSUME NEW o \in Ops, CleanupStep(o) PROVE ~capacity'[p]
    <3> USE DEF Doing, StageOK, StageFails, To
    <3>1. CASE Finish(o)
      BY <3>1 DEF Finish
    <3>2. CASE ReleaseSlot(o) \/ ReleaseLease(o)
      BY <3>2 DEF ReleaseSlot, ReleaseLease
    <3>3. CASE Inspect(o) \/ ForceRemove(o) \/ Settle(o)
      BY <3>3 DEF Inspect, ForceRemove, Settle
    <3>4. CASE CleanMAC(o) \/ CleanPins(o)
      BY <3>4 DEF CleanMAC, CleanPins
    <3>5. CASE RemoveRuntime(o) \/ RemoveRecord(o) \/ SequenceDone(o)
      BY <3>5 DEF RemoveRuntime, RemoveRecord, SequenceDone
    <3>6. QED
      BY <2>4, <3>1, <3>2, <3>3, <3>4, <3>5 DEF CleanupStep
  <2>5. ASSUME NEW o \in Ops, DockerStep(o) \/ ReconcileEntry(o)
        PROVE ~capacity'[p]
    BY <2>5 DEF DockerStep, CliCreates, CliStarts, CliExits, DockerdStep,
       Docker, ReconcileEntry
  <2>6. CASE Crash \/ Reboot \/ Serve
    BY <2>6 DEF Crash, Reboot, Die, Serve
  <2>7. QED
    BY <2>1, <2>2, <2>3, <2>4, <2>5, <2>6 DEF Next
<1>3. QED
  BY <1>1, <1>2, RunTypeCorrect, PTL DEF Spec

(* No step drops an ownership record that pins, MAC state or a running     *)
(* container still need.                                                   *)
THEOREM RecordsRemovedLast == Spec => RecordRemovedLast
<1> DEFINE Kept(p) ==
      stateDir[p] = "record" /\ stateDir'[p] # "record" =>
          pins'[p] = {} /\ mac'[p] = "none" /\ container'[p] # "running"
<1>1. ASSUME CleanupInv, Next, NEW p \in Ops PROVE Kept(p)
  <2>1. TypeOK /\ OpInv(p)
    BY <1>1 DEF CleanupInv
  <2>2. CASE Same(p)
    BY <2>2 DEF Same
  <2>3. CASE Accept(p) \/ HandlerStep(p)
    <3> USE <2>1 DEF TypeOK, OpInv, HostOK, At, hostVars
    <3>1. CASE MkState(p)
      BY <3>1 DEF MkState
    <3>2. CASE MkRuntime(p) \/ WriteRecord(p)
      BY <3>2 DEF MkRuntime, WriteRecord
    <3>3. CASE Accept(p) \/ Pin(p)
      BY <3>3 DEF Accept, Pin
    <3>4. CASE BackendBegin(p) \/ BackendDone(p) \/ BackendFails(p)
      BY <3>4 DEF BackendBegin, BackendDone, BackendFails
    <3>5. CASE BackendRetained(p) \/ PreStartFails(p)
      BY <3>5 DEF BackendRetained, PreStartFails
    <3>6. CASE Admit(p) \/ Start(p) \/ WaitReturns(p)
      BY <3>6 DEF Admit, Start, WaitReturns
    <3>7. QED
      BY <2>3, <3>1, <3>2, <3>3, <3>4, <3>5, <3>6 DEF HandlerStep
  <2>4. CASE CleanupStep(p)
    <3>1. CASE RemoveRecord(p)
      <4>1. pins[p] = {} /\ mac[p] = "none" /\ container[p] # "running"
        BY <2>1, <3>1 DEF OpInv, StageInv, RemoveRecord, Doing, At, Proved
      <4>2. QED
        BY <3>1, <4>1 DEF RemoveRecord, dockerVars
    <3>2. CASE ~RemoveRecord(p)
      BY <2>4, <3>2 DEF CleanupStep, ReleaseSlot, Inspect, ForceRemove, Settle,
         CleanMAC, CleanPins, RemoveRuntime, ReleaseLease, SequenceDone,
         Finish, hostVars
    <3>3. QED
      BY <3>1, <3>2
  <2>5. CASE DockerStep(p) \/ ReconcileEntry(p)
    BY <2>5 DEF DockerStep, CliCreates, CliStarts, CliExits, DockerdStep,
       Docker, ReconcileEntry, hostVars
  <2>6. CASE Crash \/ Serve
    BY <2>6 DEF Crash, Serve, hostVars
  <2>7. CASE Reboot
    BY <2>7 DEF Reboot
  <2>8. QED
    BY <1>1, <2>1, <2>2, <2>3, <2>4, <2>5, <2>6, <2>7, HandlerFrame,
       CleanupFrame, DockerFrame DEF Next
<1>2. CleanupInv /\ [Next]_vars =>
        [\A o \in Ops : stateDir[o] = "record" /\ stateDir'[o] # "record" =>
           pins'[o] = {} /\ mac'[o] = "none" /\ container'[o] # "running"]_vars
  BY <1>1
<1> HIDE DEF Kept
<1>3. QED
  BY <1>2, RunInvariant, PTL DEF Spec, RecordRemovedLast

=============================================================================
