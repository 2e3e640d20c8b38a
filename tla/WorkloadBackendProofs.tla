----------------------- MODULE WorkloadBackendProofs -----------------------
(***************************************************************************)
(* Cleanup never deletes through a projection, kernel-side state has its   *)
(* record and a container its confinement, for every plan of read-only     *)
(* exposures and every number of failures, crashes and reboots.            *)
(***************************************************************************)
EXTENDS WorkloadBackend, TLAPS

Alive(i) == worker[i] \in {"starting", "serving"}

(* Projection i is out of the way for good: nothing is mounted, and no     *)
(* worker is left that could mount it again.                               *)
Settled(i) == ~Alive(i) /\ i \notin mount /\ i \notin bind

Passing == {"prove", "unmount", "wait", "lower", "remove", "unload", "passed"}
AppArmorSteps == {"write", "load", "verify", "unload"}
SELinuxSteps == {"mkdir", "bind", "start", "await", "unmount", "wait", "lower", "remove"}

(* A host has the resources of one backend only.                           *)
BackendOK ==
    /\ backend = "apparmor" =>
          /\ mount = {} /\ bind = {} /\ pc \notin SELinuxSteps
          /\ \A i \in Mounts : worker[i] = "none"
          /\ pass \in {"none", "owned", "post"}
    /\ backend = "selinux" => ~loaded /\ pc \notin AppArmorSteps

(* What the record and the pins are kept for.                              *)
DurableOK ==
    /\ pc \notin {"idle", "released", "down"} => record
    /\ ~record => ~loaded
    /\ ~record \/ ~pins => \A i \in Mounts : Settled(i)
    /\ pc \in {"write", "load", "verify", "mkdir", "bind", "start", "await",
               "prepared", "running"} => pins

(* Prepare builds one projection after the other.                          *)
PrepareOK ==
    /\ pc \in {"bind", "start", "await", "unmount", "wait", "lower", "remove"} =>
          at \in Mounts
    /\ pc = "mkdir" => at > 0
    /\ pc = "idle" => \A i \in Mounts : Settled(i)
    /\ pc \in {"mkdir", "bind", "start", "await"} =>
          \A i \in Mounts :
             /\ i > at => Settled(i)
             /\ i < at => worker[i] \in {"serving", "gone"} /\ (i \in mount \/ worker[i] = "gone")
    /\ pc \in {"mkdir", "bind"} /\ at \in Mounts => Settled(at)
    /\ pc = "start" => ~Alive(at) /\ at \notin mount
    /\ pc = "prepared" =>
          /\ backend = "apparmor" => loaded
          /\ \A i \in Mounts : backend = "selinux" =>
                worker[i] \in {"serving", "gone"} /\ (i \in mount \/ worker[i] = "gone")

(* A live worker has a handle; none outlives the service.                  *)
HandlesOK ==
    /\ \A i \in Mounts : Alive(i) => i \in handles
    /\ pc = "down" \/ pass = "owned" => \A i \in Mounts : ~Alive(i)

(* A pass leaves everything above its position settled.                    *)
PassOK ==
    /\ pass # "none" <=> pc \in Passing
    /\ pass \in {"entry", "owned", "post"} => ~unproven
    /\ pc \in {"idle", "write", "load", "verify", "mkdir", "bind", "start", "await",
               "prepared", "running", "down"} => ~unproven
    /\ pc = "prove" => pass = "owned"
    /\ pass # "none" /\ pc # "prove" /\ ~unproven =>
          \A i \in Mounts : i > at => Settled(i)
    /\ pc \in {"lower", "remove"} => ~Alive(at)
    /\ pc = "passed" /\ pass # "entry" /\ backend = "selinux" => at = 0
    /\ pc = "passed" /\ pass = "entry" => at < Len(Plan)
    /\ pc = "passed" => ~loaded
    /\ pc \in {"clean", "finalize", "released"} => ~loaded /\ \A i \in Mounts : Settled(i)

(* Where a container can be, and what it then runs behind.                 *)
ContainerOK ==
    container =>
        /\ pc \in {"running", "down", "retained"}
        /\ backend = "apparmor" => loaded
        /\ backend = "selinux" => \A i \in Mounts :
              worker[i] # "none" /\ (i \in mount \/ worker[i] = "gone")

BackendInv ==
    /\ TypeOK /\ BackendOK /\ DurableOK /\ PrepareOK /\ HandlesOK /\ PassOK
    /\ ContainerOK /\ SourcesIntact

-----------------------------------------------------------------------------
(* One step, conjunct by conjunct of the invariant.                        *)

(* A fault stays within the bound.                                         *)
LEMMA FaultCounted ==
    ASSUME faults \in 0..MaxFaults, Fault
    PROVE  faults' \in 0..MaxFaults
  BY PlanAssumption DEF Fault

(* The control state keeps its type in every step.                         *)
LEMMA StepControlType ==
    ASSUME BackendInv, [Next]_vars
    PROVE  ControlType'
<1> USE PlanAssumption DEF Mounts, vars, control, durable, profile, projection, outside
<1>0. TypeOK /\ BackendOK /\ PrepareOK /\ PassOK
  BY DEF BackendInv
<1>1. CASE Prepare
  BY <1>0, <1>1 DEF TypeOK, ControlType, Prepare
<1>2. CASE PrepareFails
  BY <1>0, <1>2
  DEF TypeOK, ControlType, BackendOK, PrepareOK, AppArmorSteps, PrepareFails, CleanOwned,
      Clean
<1>3. CASE WriteProfile
  BY <1>0, <1>3 DEF TypeOK, ControlType, WriteProfile, Goto
<1>4. CASE LoadProfile
  BY <1>0, <1>4 DEF TypeOK, ControlType, LoadProfile, Goto, CleanOwned
<1>5. CASE VerifyProfile
  BY <1>0, <1>5 DEF TypeOK, ControlType, VerifyProfile, Goto, CleanOwned
<1>6. CASE MakeProjection
  BY <1>0, <1>6 DEF TypeOK, ControlType, MakeProjection, Goto
<1>7. CASE BindLower
  BY <1>0, <1>7 DEF TypeOK, ControlType, PrepareOK, BindLower, Goto, CleanOwned, Clean
<1>8. CASE StartWorker
  BY <1>0, <1>8 DEF TypeOK, ControlType, StartWorker, Clean
<1>9. CASE AwaitProjectionReady
  BY <1>0, <1>9 DEF TypeOK, ControlType, PrepareOK, AwaitProjectionReady, Clean
<1>10. CASE StartContainer
  BY <1>0, <1>10 DEF TypeOK, ControlType, StartContainer, Goto
<1>11. CASE BeginCleanup
  BY <1>0, <1>11 DEF TypeOK, ControlType, BeginCleanup, Clean
<1>12. CASE ProveShape
  BY <1>0, <1>12 DEF TypeOK, ControlType, PassOK, ProveShape, PassFails, Clean
<1>13. CASE UnmountProjection
  BY <1>0, <1>13 DEF TypeOK, ControlType, PrepareOK, UnmountProjection, Goto, PassFails
<1>14. CASE AwaitWorkerExit
  BY <1>0, <1>14 DEF TypeOK, ControlType, PrepareOK, AwaitWorkerExit, Goto, PassFails
<1>15. CASE UnmountLower
  BY <1>0, <1>15 DEF TypeOK, ControlType, PrepareOK, UnmountLower, Goto, PassFails
<1>16. CASE RemoveProjection
  BY <1>0, <1>16 DEF TypeOK, ControlType, PrepareOK, RemoveProjection, PassFails
<1>17. CASE UnloadProfile
  BY <1>0, <1>17
  DEF TypeOK, ControlType, BackendOK, AppArmorSteps, UnloadProfile, Goto, PassFails
<1>18. CASE EndPass
  BY <1>0, <1>18 DEF TypeOK, ControlType, EndPass, Clean, CleanOwned
<1>19. CASE ReleasePins
  BY <1>0, <1>19 DEF TypeOK, ControlType, ReleasePins, Goto
<1>20. CASE removeWorkloadMACState
  BY <1>0, <1>20 DEF TypeOK, ControlType, removeWorkloadMACState, Goto
<1>21. CASE Reconcile
  BY <1>0, <1>21 DEF TypeOK, ControlType, Reconcile, CleanOwned
<1>22. CASE ContainerExits
  BY <1>0, <1>22 DEF TypeOK, ControlType, ContainerExits
<1>23. ASSUME NEW i \in Mounts, WorkerMounts(i) \/ WorkerExits(i) \/ WorkerDies(i)
      PROVE  ControlType'
  BY <1>0, <1>23 DEF TypeOK, ControlType, WorkerMounts, WorkerExits, WorkerDies
<1>24. CASE Crash
  BY <1>0, <1>24 DEF TypeOK, ControlType, Crash, ServiceEnds
<1>25. CASE Restart
  BY <1>0, <1>25 DEF TypeOK, ControlType, Restart, ServiceEnds
<1>26. CASE Reboot
  BY <1>0, <1>26 DEF TypeOK, ControlType, Reboot
<1>27. CASE ForeignEntry
  BY <1>0, <1>27 DEF TypeOK, ControlType, ForeignEntry
<1>28. CASE UNCHANGED vars
  BY <1>0, <1>28 DEF TypeOK, ControlType
<1>29. QED
  BY <1>1, <1>2, <1>3, <1>4, <1>5, <1>6, <1>7, <1>8, <1>9, <1>10, <1>11, <1>12, <1>13,
     <1>14, <1>15, <1>16, <1>17, <1>18, <1>19, <1>20, <1>21, <1>22, <1>23, <1>24, <1>25,
     <1>26, <1>27, <1>28
  DEF Next, Daemon, Environment, Rest

(* So do the flags.                                                        *)
LEMMA StepFlagType ==
    ASSUME BackendInv, [Next]_vars
    PROVE  FlagType'
<1> USE PlanAssumption DEF Mounts, vars, control, durable, profile, projection, outside
<1>0. FlagType
  BY DEF BackendInv, TypeOK
<1>1. CASE Prepare
  BY <1>0, <1>1 DEF FlagType, Prepare
<1>2. CASE PrepareFails
  BY <1>0, <1>2 DEF FlagType, PrepareFails
<1>3. CASE WriteProfile
  BY <1>0, <1>3 DEF FlagType, WriteProfile, Goto
<1>4. CASE LoadProfile
  BY <1>0, <1>4 DEF FlagType, LoadProfile, Goto
<1>5. CASE VerifyProfile
  BY <1>0, <1>5 DEF FlagType, VerifyProfile, Goto
<1>6. CASE MakeProjection
  BY <1>0, <1>6 DEF FlagType, MakeProjection, Goto
<1>7. CASE BindLower
  BY <1>0, <1>7 DEF FlagType, BindLower, Goto
<1>8. CASE StartWorker
  BY <1>0, <1>8 DEF FlagType, StartWorker
<1>9. CASE AwaitProjectionReady
  BY <1>0, <1>9 DEF FlagType, AwaitProjectionReady
<1>10. CASE StartContainer
  BY <1>0, <1>10 DEF FlagType, StartContainer, Goto
<1>11. CASE BeginCleanup
  BY <1>0, <1>11 DEF FlagType, BeginCleanup
<1>12. CASE ProveShape
  BY <1>0, <1>12 DEF FlagType, ProveShape, PassFails
<1>13. CASE UnmountProjection
  BY <1>0, <1>13 DEF FlagType, UnmountProjection, Goto, PassFails
<1>14. CASE AwaitWorkerExit
  BY <1>0, <1>14 DEF FlagType, AwaitWorkerExit, Goto, PassFails
<1>15. CASE UnmountLower
  BY <1>0, <1>15 DEF FlagType, UnmountLower, Goto, PassFails
<1>16. CASE RemoveProjection
  BY <1>0, <1>16 DEF FlagType, RemoveProjection, PassFails
<1>17. CASE UnloadProfile
  BY <1>0, <1>17 DEF FlagType, UnloadProfile, Goto, PassFails
<1>18. CASE EndPass
  BY <1>0, <1>18 DEF FlagType, EndPass
<1>19. CASE ReleasePins
  BY <1>0, <1>19 DEF FlagType, ReleasePins, Goto
<1>20. CASE removeWorkloadMACState
  BY <1>0, <1>20 DEF FlagType, removeWorkloadMACState, Goto
<1>21. CASE Reconcile
  BY <1>0, <1>21 DEF FlagType, Reconcile
<1>22. CASE ContainerExits
  BY <1>0, <1>22 DEF FlagType, ContainerExits
<1>23. ASSUME NEW i \in Mounts, WorkerMounts(i) \/ WorkerExits(i) \/ WorkerDies(i)
      PROVE  FlagType'
  BY <1>0, <1>23 DEF FlagType, WorkerMounts, WorkerExits, WorkerDies
<1>24. CASE Crash
  BY <1>0, <1>24 DEF FlagType, Crash, ServiceEnds
<1>25. CASE Restart
  BY <1>0, <1>25 DEF FlagType, Restart, ServiceEnds
<1>26. CASE Reboot
  BY <1>0, <1>26 DEF FlagType, Reboot
<1>27. CASE ForeignEntry
  BY <1>0, <1>27 DEF FlagType, ForeignEntry
<1>28. CASE UNCHANGED vars
  BY <1>0, <1>28 DEF FlagType
<1>29. QED
  BY <1>1, <1>2, <1>3, <1>4, <1>5, <1>6, <1>7, <1>8, <1>9, <1>10, <1>11, <1>12, <1>13,
     <1>14, <1>15, <1>16, <1>17, <1>18, <1>19, <1>20, <1>21, <1>22, <1>23, <1>24, <1>25,
     <1>26, <1>27, <1>28
  DEF Next, Daemon, Environment, Rest

(* And the resources of the host.                                          *)
LEMMA StepResourceType ==
    ASSUME BackendInv, [Next]_vars
    PROVE  ResourceType'
<1> USE DEF Mounts, vars, control, durable, profile, projection, outside
<1>0. ResourceType /\ ControlType /\ PrepareOK
  BY DEF BackendInv, TypeOK
<1>1. CASE Prepare
  BY <1>0, FaultCounted, <1>1 DEF ResourceType, Prepare
<1>2. CASE PrepareFails
  BY <1>0, FaultCounted, <1>2 DEF ResourceType, PrepareFails
<1>3. CASE WriteProfile
  BY <1>0, FaultCounted, <1>3 DEF ResourceType, WriteProfile, Goto
<1>4. CASE LoadProfile
  BY <1>0, FaultCounted, <1>4 DEF ResourceType, LoadProfile, Goto
<1>5. CASE VerifyProfile
  BY <1>0, FaultCounted, <1>5 DEF ResourceType, VerifyProfile, Goto
<1>6. CASE MakeProjection
  <2>1. at \in Mounts \/ at > Len(Plan)
    BY <1>0, <1>6, PlanAssumption DEF ControlType, PrepareOK, MakeProjection
  <2>2. dir' \in {dir, dir \cup {at}} /\ (dir' = dir \/ at \in Mounts)
    BY <1>6, <2>1, PlanAssumption DEF MakeProjection
  <2>3. QED
    BY <1>0, <1>6, <2>2 DEF ResourceType, MakeProjection, Goto
<1>7. CASE BindLower
  BY <1>0, FaultCounted, <1>7 DEF ResourceType, PrepareOK, BindLower, Goto
<1>8. CASE StartWorker
  BY <1>0, FaultCounted, <1>8 DEF ResourceType, PrepareOK, StartWorker
<1>9. CASE AwaitProjectionReady
  BY <1>0, FaultCounted, <1>9 DEF ResourceType, AwaitProjectionReady
<1>10. CASE StartContainer
  BY <1>0, FaultCounted, <1>10 DEF ResourceType, StartContainer, Goto
<1>11. CASE BeginCleanup
  BY <1>0, FaultCounted, <1>11 DEF ResourceType, BeginCleanup
<1>12. CASE ProveShape
  BY <1>0, FaultCounted, <1>12 DEF ResourceType, ProveShape
<1>13. CASE UnmountProjection
  BY <1>0, FaultCounted, <1>13 DEF ResourceType, UnmountProjection, Goto
<1>14. CASE AwaitWorkerExit
  BY <1>0, FaultCounted, <1>14 DEF ResourceType, AwaitWorkerExit, Goto
<1>15. CASE UnmountLower
  BY <1>0, FaultCounted, <1>15 DEF ResourceType, UnmountLower, Goto
<1>16. CASE RemoveProjection
  BY <1>0, FaultCounted, <1>16 DEF ResourceType, RemoveProjection, Through
<1>17. CASE UnloadProfile
  BY <1>0, FaultCounted, <1>17 DEF ResourceType, UnloadProfile, Goto
<1>18. CASE EndPass
  BY <1>0, FaultCounted, <1>18 DEF ResourceType, EndPass
<1>19. CASE ReleasePins
  BY <1>0, FaultCounted, <1>19 DEF ResourceType, ReleasePins, Goto
<1>20. CASE removeWorkloadMACState
  BY <1>0, FaultCounted, <1>20 DEF ResourceType, removeWorkloadMACState, Goto, Through
<1>21. CASE Reconcile
  BY <1>0, FaultCounted, <1>21 DEF ResourceType, Reconcile
<1>22. CASE ContainerExits
  BY <1>0, FaultCounted, <1>22 DEF ResourceType, ContainerExits
<1>23. ASSUME NEW i \in Mounts, WorkerMounts(i) \/ WorkerExits(i) \/ WorkerDies(i)
      PROVE  ResourceType'
  BY <1>0, FaultCounted, <1>23 DEF ResourceType, WorkerMounts, WorkerExits, WorkerDies
<1>24. CASE Crash
  BY <1>0, FaultCounted, <1>24 DEF ResourceType, Crash, ServiceEnds
<1>25. CASE Restart
  BY <1>0, FaultCounted, <1>25 DEF ResourceType, Restart, ServiceEnds
<1>26. CASE Reboot
  BY <1>0, FaultCounted, <1>26 DEF ResourceType, Reboot
<1>27. CASE ForeignEntry
  BY <1>0, FaultCounted, <1>27 DEF ResourceType, ForeignEntry
<1>28. CASE UNCHANGED vars
  BY <1>0, FaultCounted, <1>28 DEF ResourceType
<1>29. QED
  BY <1>1, <1>2, <1>3, <1>4, <1>5, <1>6, <1>7, <1>8, <1>9, <1>10, <1>11, <1>12, <1>13,
     <1>14, <1>15, <1>16, <1>17, <1>18, <1>19, <1>20, <1>21, <1>22, <1>23, <1>24, <1>25,
     <1>26, <1>27, <1>28
  DEF Next, Daemon, Environment, Rest

(* A host keeps to the resources of its backend.                           *)
LEMMA StepBackendOK ==
    ASSUME BackendInv, [Next]_vars
    PROVE  BackendOK'
<1> USE PlanAssumption DEF Mounts, vars, control, durable, profile, projection, outside
<1>0. TypeOK /\ BackendOK /\ PrepareOK /\ PassOK
  BY DEF BackendInv
<1>1. CASE Prepare
  BY <1>0, <1>1 DEF BackendOK, SELinuxSteps, AppArmorSteps, Prepare
<1>2. CASE PrepareFails
  BY <1>0, <1>2
  DEF BackendOK, SELinuxSteps, AppArmorSteps, PrepareFails, CleanOwned, Clean
<1>3. CASE WriteProfile
  BY <1>0, <1>3 DEF BackendOK, SELinuxSteps, AppArmorSteps, WriteProfile, Goto
<1>4. CASE LoadProfile
  BY <1>0, <1>4 DEF BackendOK, SELinuxSteps, AppArmorSteps, LoadProfile, Goto, CleanOwned
<1>5. CASE VerifyProfile
  BY <1>0, <1>5
  DEF BackendOK, SELinuxSteps, AppArmorSteps, VerifyProfile, Goto, CleanOwned
<1>6. CASE MakeProjection
  BY <1>0, <1>6 DEF BackendOK, SELinuxSteps, AppArmorSteps, MakeProjection, Goto
<1>7. CASE BindLower
  BY <1>0, <1>7
  DEF BackendOK, SELinuxSteps, AppArmorSteps, BindLower, Goto, CleanOwned, Clean
<1>8. CASE StartWorker
  BY <1>0, <1>8 DEF BackendOK, SELinuxSteps, AppArmorSteps, StartWorker, Clean
<1>9. CASE AwaitProjectionReady
  BY <1>0, <1>9 DEF BackendOK, SELinuxSteps, AppArmorSteps, AwaitProjectionReady, Clean
<1>10. CASE StartContainer
  BY <1>0, <1>10 DEF BackendOK, SELinuxSteps, AppArmorSteps, StartContainer, Goto
<1>11. CASE BeginCleanup
  BY <1>0, <1>11 DEF BackendOK, SELinuxSteps, AppArmorSteps, BeginCleanup, Clean
<1>12. CASE ProveShape
  BY <1>0, <1>12 DEF BackendOK, SELinuxSteps, AppArmorSteps, ProveShape, PassFails, Clean
<1>13. CASE UnmountProjection
  BY <1>0, <1>13
  DEF BackendOK, SELinuxSteps, AppArmorSteps, UnmountProjection, Goto, PassFails
<1>14. CASE AwaitWorkerExit
  BY <1>0, <1>14
  DEF BackendOK, SELinuxSteps, AppArmorSteps, AwaitWorkerExit, Goto, PassFails
<1>15. CASE UnmountLower
  BY <1>0, <1>15 DEF BackendOK, SELinuxSteps, AppArmorSteps, UnmountLower, Goto, PassFails
<1>16. CASE RemoveProjection
  BY <1>0, <1>16 DEF BackendOK, SELinuxSteps, AppArmorSteps, RemoveProjection, PassFails
<1>17. CASE UnloadProfile
  BY <1>0, <1>17
  DEF BackendOK, SELinuxSteps, AppArmorSteps, UnloadProfile, Goto, PassFails
<1>18. CASE EndPass
  BY <1>0, <1>18 DEF BackendOK, SELinuxSteps, AppArmorSteps, EndPass, Clean, CleanOwned
<1>19. CASE ReleasePins
  BY <1>0, <1>19 DEF BackendOK, SELinuxSteps, AppArmorSteps, ReleasePins, Goto
<1>20. CASE removeWorkloadMACState
  BY <1>0, <1>20 DEF BackendOK, SELinuxSteps, AppArmorSteps, removeWorkloadMACState, Goto
<1>21. CASE Reconcile
  BY <1>0, <1>21 DEF BackendOK, SELinuxSteps, AppArmorSteps, Reconcile, CleanOwned
<1>22. CASE ContainerExits
  BY <1>0, <1>22 DEF BackendOK, ContainerExits
<1>23. ASSUME NEW i \in Mounts, WorkerMounts(i) \/ WorkerExits(i) \/ WorkerDies(i)
      PROVE  BackendOK'
  BY <1>0, <1>23 DEF BackendOK, WorkerMounts, WorkerExits, WorkerDies
<1>24. CASE Crash
  BY <1>0, <1>24 DEF BackendOK, SELinuxSteps, AppArmorSteps, Crash, ServiceEnds
<1>25. CASE Restart
  BY <1>0, <1>25 DEF BackendOK, SELinuxSteps, AppArmorSteps, Restart, ServiceEnds
<1>26. CASE Reboot
  BY <1>0, <1>26 DEF BackendOK, Reboot
<1>27. CASE ForeignEntry
  BY <1>0, <1>27 DEF BackendOK, ForeignEntry
<1>28. CASE UNCHANGED vars
  BY <1>0, <1>28 DEF BackendOK
<1>29. QED
  BY <1>1, <1>2, <1>3, <1>4, <1>5, <1>6, <1>7, <1>8, <1>9, <1>10, <1>11, <1>12, <1>13,
     <1>14, <1>15, <1>16, <1>17, <1>18, <1>19, <1>20, <1>21, <1>22, <1>23, <1>24, <1>25,
     <1>26, <1>27, <1>28
  DEF Next, Daemon, Environment, Rest

(* The record and the pins outlive what was built on them.                 *)
LEMMA StepDurableOK ==
    ASSUME BackendInv, [Next]_vars
    PROVE  DurableOK'
<1> USE PlanAssumption DEF Mounts, vars, control, durable, profile, projection, outside
<1>0. TypeOK /\ BackendOK /\ DurableOK /\ PrepareOK /\ HandlesOK /\ PassOK
  BY DEF BackendInv
<1>1. CASE Prepare
  BY <1>0, <1>1 DEF DurableOK, Prepare
<1>2. CASE PrepareFails
  BY <1>0, <1>2 DEF DurableOK, PrepareFails
<1>3. CASE WriteProfile
  BY <1>0, <1>3 DEF DurableOK, WriteProfile
<1>4. CASE LoadProfile
  BY <1>0, <1>4 DEF DurableOK, LoadProfile
<1>5. CASE VerifyProfile
  BY <1>0, <1>5 DEF DurableOK, VerifyProfile
<1>6. CASE MakeProjection
  BY <1>0, <1>6 DEF DurableOK, MakeProjection
<1>7. CASE BindLower
  BY <1>0, <1>7 DEF DurableOK, BindLower
<1>8. CASE StartWorker
  BY <1>0, <1>8 DEF DurableOK, StartWorker
<1>9. CASE AwaitProjectionReady
  BY <1>0, <1>9 DEF DurableOK, AwaitProjectionReady
<1>10. CASE StartContainer
  BY <1>0, <1>10 DEF DurableOK, StartContainer
<1>11. CASE BeginCleanup
  BY <1>0, <1>11 DEF DurableOK, BeginCleanup
<1>12. CASE ProveShape
  BY <1>0, <1>12 DEF DurableOK, Settled, Alive, ProveShape, PassFails, Clean
<1>13. CASE UnmountProjection
  BY <1>0, <1>13 DEF DurableOK, Settled, Alive, UnmountProjection, Goto, PassFails
<1>14. CASE AwaitWorkerExit
  BY <1>0, <1>14 DEF DurableOK, Settled, Alive, AwaitWorkerExit, Goto, PassFails
<1>15. CASE UnmountLower
  BY <1>0, <1>15 DEF DurableOK, Settled, Alive, UnmountLower, Goto, PassFails
<1>16. CASE RemoveProjection
  BY <1>0, <1>16 DEF DurableOK, Settled, Alive, RemoveProjection, PassFails
<1>17. CASE UnloadProfile
  BY <1>0, <1>17 DEF DurableOK, Settled, Alive, UnloadProfile, Goto, PassFails
<1>18. CASE EndPass
  BY <1>0, <1>18 DEF DurableOK, Settled, Alive, EndPass, Clean, CleanOwned
<1>19. CASE ReleasePins
  BY <1>0, <1>19 DEF DurableOK, PassOK, Settled, Alive, ReleasePins, Goto
<1>20. CASE removeWorkloadMACState
  BY <1>0, <1>20 DEF DurableOK, PassOK, Settled, Alive, removeWorkloadMACState, Goto
<1>21. CASE Reconcile
  BY <1>0, <1>21 DEF DurableOK, Settled, Alive, Reconcile, CleanOwned
<1>22. CASE ContainerExits
  BY <1>0, <1>22 DEF DurableOK, Settled, Alive, ContainerExits
<1>23. ASSUME NEW i \in Mounts, WorkerMounts(i) \/ WorkerExits(i) \/ WorkerDies(i)
      PROVE  DurableOK'
  BY <1>0, <1>23 DEF DurableOK, Settled, Alive, WorkerMounts, WorkerExits, WorkerDies
<1>24. CASE Crash
  BY <1>0, <1>24 DEF DurableOK, Settled, Alive, Crash, ServiceEnds
<1>25. CASE Restart
  BY <1>0, <1>25 DEF DurableOK, Settled, Alive, Restart, ServiceEnds
<1>26. CASE Reboot
  BY <1>0, <1>26 DEF DurableOK, HandlesOK, Settled, Alive, Reboot
<1>27. CASE ForeignEntry
  BY <1>0, <1>27 DEF DurableOK, Settled, Alive, ForeignEntry
<1>28. CASE UNCHANGED vars
  BY <1>0, <1>28 DEF DurableOK, Settled, Alive
<1>29. QED
  BY <1>1, <1>2, <1>3, <1>4, <1>5, <1>6, <1>7, <1>8, <1>9, <1>10, <1>11, <1>12, <1>13,
     <1>14, <1>15, <1>16, <1>17, <1>18, <1>19, <1>20, <1>21, <1>22, <1>23, <1>24, <1>25,
     <1>26, <1>27, <1>28
  DEF Next, Daemon, Environment, Rest

(* Prepare builds the projections in order.                                *)
LEMMA StepPrepareOK ==
    ASSUME BackendInv, [Next]_vars
    PROVE  PrepareOK'
<1> USE PlanAssumption DEF Mounts, vars, control, durable, profile, projection, outside
<1>0. TypeOK /\ BackendOK /\ PrepareOK /\ PassOK
  BY DEF BackendInv
<1>1. CASE Prepare
  BY <1>0, <1>1 DEF PrepareOK, Settled, Alive, Prepare
<1>2. CASE PrepareFails
  BY <1>0, <1>2
  DEF TypeOK, ControlType, BackendOK, PrepareOK, AppArmorSteps, PrepareFails, CleanOwned,
      Clean
<1>3. CASE WriteProfile
  BY <1>0, <1>3 DEF PrepareOK, WriteProfile, Goto
<1>4. CASE LoadProfile
  BY <1>0, <1>4 DEF PrepareOK, LoadProfile, Goto, CleanOwned
<1>5. CASE VerifyProfile
  BY <1>0, <1>5 DEF BackendOK, PrepareOK, VerifyProfile, Goto, CleanOwned
<1>6. CASE MakeProjection
  BY <1>0, <1>6
  DEF TypeOK, ControlType, BackendOK, PrepareOK, SELinuxSteps, Settled, Alive,
      MakeProjection, Goto
<1>7. CASE BindLower
  BY <1>0, <1>7 DEF PrepareOK, Settled, Alive, BindLower, Goto, CleanOwned, Clean
<1>8. CASE StartWorker
  BY <1>0, <1>8 DEF TypeOK, ResourceType, PrepareOK, Settled, Alive, StartWorker, Clean
<1>9. CASE AwaitProjectionReady
  BY <1>0, <1>9 DEF BackendOK, PrepareOK, Settled, Alive, AwaitProjectionReady, Clean
<1>10. CASE StartContainer
  BY <1>0, <1>10 DEF PrepareOK, StartContainer, Goto
<1>11. CASE BeginCleanup
  BY <1>0, <1>11 DEF PrepareOK, BeginCleanup, Clean
<1>12. CASE ProveShape
  BY <1>0, <1>12 DEF PrepareOK, PassOK, ProveShape, PassFails, Clean
<1>13. CASE UnmountProjection
  BY <1>0, <1>13 DEF PrepareOK, UnmountProjection, Goto, PassFails
<1>14. CASE AwaitWorkerExit
  BY <1>0, <1>14 DEF PrepareOK, AwaitWorkerExit, Goto, PassFails
<1>15. CASE UnmountLower
  BY <1>0, <1>15 DEF PrepareOK, UnmountLower, Goto, PassFails
<1>16. CASE RemoveProjection
  BY <1>0, <1>16 DEF PrepareOK, RemoveProjection, PassFails
<1>17. CASE UnloadProfile
  BY <1>0, <1>17
  DEF TypeOK, ControlType, BackendOK, PrepareOK, AppArmorSteps, UnloadProfile, Goto,
      PassFails
<1>18. CASE EndPass
  BY <1>0, <1>18 DEF TypeOK, ControlType, PrepareOK, PassOK, EndPass, Clean, CleanOwned
<1>19. CASE ReleasePins
  BY <1>0, <1>19 DEF PrepareOK, ReleasePins, Goto
<1>20. CASE removeWorkloadMACState
  BY <1>0, <1>20 DEF PrepareOK, removeWorkloadMACState, Goto
<1>21. CASE Reconcile
  BY <1>0, <1>21 DEF PrepareOK, Reconcile, CleanOwned
<1>22. CASE ContainerExits
  BY <1>0, <1>22 DEF PrepareOK, Settled, Alive, ContainerExits
<1>23. ASSUME NEW i \in Mounts, WorkerMounts(i) \/ WorkerExits(i) \/ WorkerDies(i)
      PROVE  PrepareOK'
  BY <1>0, <1>23
  DEF TypeOK, ResourceType, PrepareOK, Settled, Alive, WorkerMounts, WorkerExits,
      WorkerDies
<1>24. CASE Crash
  BY <1>0, <1>24 DEF PrepareOK, Crash, ServiceEnds
<1>25. CASE Restart
  BY <1>0, <1>25 DEF PrepareOK, Restart, ServiceEnds
<1>26. CASE Reboot
  BY <1>0, <1>26 DEF PrepareOK, Reboot
<1>27. CASE ForeignEntry
  BY <1>0, <1>27 DEF PrepareOK, ForeignEntry
<1>28. CASE UNCHANGED vars
  BY <1>0, <1>28 DEF PrepareOK, Settled, Alive
<1>29. QED
  BY <1>1, <1>2, <1>3, <1>4, <1>5, <1>6, <1>7, <1>8, <1>9, <1>10, <1>11, <1>12, <1>13,
     <1>14, <1>15, <1>16, <1>17, <1>18, <1>19, <1>20, <1>21, <1>22, <1>23, <1>24, <1>25,
     <1>26, <1>27, <1>28
  DEF Next, Daemon, Environment, Rest

(* No worker is alive without a handle.                                    *)
LEMMA StepHandlesOK ==
    ASSUME BackendInv, [Next]_vars
    PROVE  HandlesOK'
<1> USE PlanAssumption DEF Mounts, vars, control, durable, profile, projection, outside
<1>0. TypeOK /\ BackendOK /\ HandlesOK /\ PrepareOK /\ PassOK
  BY DEF BackendInv
<1>1. CASE Prepare
  BY <1>0, <1>1 DEF HandlesOK, Alive, Prepare
<1>2. CASE PrepareFails
  BY <1>0, <1>2
  DEF TypeOK, ControlType, BackendOK, HandlesOK, PrepareOK, AppArmorSteps, Settled,
      Alive, PrepareFails, Clean
<1>3. CASE WriteProfile
  BY <1>0, <1>3 DEF HandlesOK, Alive, WriteProfile, Goto
<1>4. CASE LoadProfile
  BY <1>0, <1>4
  DEF TypeOK, ControlType, BackendOK, HandlesOK, AppArmorSteps, Alive, LoadProfile
<1>5. CASE VerifyProfile
  BY <1>0, <1>5
  DEF TypeOK, ControlType, BackendOK, HandlesOK, AppArmorSteps, Alive, VerifyProfile
<1>6. CASE MakeProjection
  BY <1>0, <1>6 DEF HandlesOK, Alive, MakeProjection, Goto
<1>7. CASE BindLower
  BY <1>0, <1>7 DEF HandlesOK, PrepareOK, Settled, Alive, BindLower, Goto, Clean
<1>8. CASE StartWorker
  BY <1>0, <1>8
  DEF TypeOK, ResourceType, HandlesOK, PassOK, Passing, Alive, StartWorker, Clean
<1>9. CASE AwaitProjectionReady
  BY <1>0, <1>9 DEF HandlesOK, Alive, AwaitProjectionReady, Clean
<1>10. CASE StartContainer
  BY <1>0, <1>10 DEF HandlesOK, Alive, StartContainer, Goto
<1>11. CASE BeginCleanup
  BY <1>0, <1>11 DEF HandlesOK, Alive, BeginCleanup, Clean
<1>12. CASE ProveShape
  BY <1>0, <1>12 DEF HandlesOK, Alive, ProveShape, PassFails, Clean
<1>13. CASE UnmountProjection
  BY <1>0, <1>13 DEF HandlesOK, Alive, UnmountProjection, Goto, PassFails
<1>14. CASE AwaitWorkerExit
  BY <1>0, <1>14 DEF HandlesOK, Alive, AwaitWorkerExit, Goto, PassFails
<1>15. CASE UnmountLower
  BY <1>0, <1>15 DEF HandlesOK, Alive, UnmountLower, Goto, PassFails
<1>16. CASE RemoveProjection
  BY <1>0, <1>16 DEF HandlesOK, Alive, RemoveProjection, PassFails
<1>17. CASE UnloadProfile
  BY <1>0, <1>17 DEF HandlesOK, Alive, UnloadProfile, Goto, PassFails
<1>18. CASE EndPass
  BY <1>0, <1>18
  DEF TypeOK, ControlType, BackendOK, HandlesOK, PassOK, Settled, Alive, EndPass, Clean
<1>19. CASE ReleasePins
  BY <1>0, <1>19 DEF HandlesOK, Alive, ReleasePins, Goto
<1>20. CASE removeWorkloadMACState
  BY <1>0, <1>20 DEF HandlesOK, Alive, removeWorkloadMACState, Goto
<1>21. CASE Reconcile
  BY <1>0, <1>21 DEF HandlesOK, Alive, Reconcile
<1>22. CASE ContainerExits
  BY <1>0, <1>22 DEF HandlesOK, Alive, ContainerExits
<1>23. ASSUME NEW i \in Mounts, WorkerMounts(i) \/ WorkerExits(i) \/ WorkerDies(i)
      PROVE  HandlesOK'
  BY <1>0, <1>23
  DEF TypeOK, ResourceType, HandlesOK, Alive, WorkerMounts, WorkerExits, WorkerDies
<1>24. CASE Crash
  BY <1>0, <1>24 DEF HandlesOK, Alive, Crash, ServiceEnds
<1>25. CASE Restart
  BY <1>0, <1>25 DEF HandlesOK, Alive, Restart, ServiceEnds
<1>26. CASE Reboot
  BY <1>0, <1>26 DEF HandlesOK, Alive, Reboot
<1>27. CASE ForeignEntry
  BY <1>0, <1>27 DEF HandlesOK, Alive, ForeignEntry
<1>28. CASE UNCHANGED vars
  BY <1>0, <1>28 DEF HandlesOK, Alive
<1>29. QED
  BY <1>1, <1>2, <1>3, <1>4, <1>5, <1>6, <1>7, <1>8, <1>9, <1>10, <1>11, <1>12, <1>13,
     <1>14, <1>15, <1>16, <1>17, <1>18, <1>19, <1>20, <1>21, <1>22, <1>23, <1>24, <1>25,
     <1>26, <1>27, <1>28
  DEF Next, Daemon, Environment, Rest

(* A pass leaves nothing unsettled above its position.                     *)
LEMMA StepPassOK ==
    ASSUME BackendInv, [Next]_vars
    PROVE  PassOK'
<1> USE PlanAssumption DEF Mounts, vars, control, durable, profile, projection, outside
<1>0. TypeOK /\ BackendOK /\ HandlesOK /\ PrepareOK /\ PassOK
  BY DEF BackendInv
<1>1. CASE Prepare
  BY <1>0, <1>1 DEF PassOK, Passing, Prepare
<1>2. CASE PrepareFails
  BY <1>0, <1>2
  DEF TypeOK, ControlType, BackendOK, PrepareOK, PassOK, AppArmorSteps, Passing, Settled,
      Alive, PrepareFails, CleanOwned, Clean
<1>3. CASE WriteProfile
  BY <1>0, <1>3 DEF PassOK, Passing, WriteProfile, Goto
<1>4. CASE LoadProfile
  BY <1>0, <1>4 DEF PassOK, Passing, LoadProfile, Goto, CleanOwned
<1>5. CASE VerifyProfile
  BY <1>0, <1>5 DEF PassOK, Passing, VerifyProfile, Goto, CleanOwned
<1>6. CASE MakeProjection
  BY <1>0, <1>6 DEF PassOK, Passing, MakeProjection, Goto
<1>7. CASE BindLower
  BY <1>0, <1>7
  DEF PrepareOK, PassOK, Passing, Settled, Alive, BindLower, Goto, CleanOwned, Clean
<1>8. CASE StartWorker
  BY <1>0, <1>8 DEF PrepareOK, PassOK, Passing, Settled, Alive, StartWorker, Clean
<1>9. CASE AwaitProjectionReady
  BY <1>0, <1>9
  DEF PrepareOK, PassOK, Passing, Settled, Alive, AwaitProjectionReady, Clean
<1>10. CASE StartContainer
  BY <1>0, <1>10 DEF PassOK, Passing, StartContainer, Goto
<1>11. CASE BeginCleanup
  BY <1>0, <1>11 DEF TypeOK, ControlType, BackendOK, PassOK, Passing, BeginCleanup, Clean
<1>12. CASE ProveShape
  BY <1>0, <1>12
  DEF TypeOK, ControlType, BackendOK, PassOK, Passing, ProveShape, PassFails, Clean
<1>13. CASE UnmountProjection
  BY <1>0, <1>13
  DEF TypeOK, ControlType, BackendOK, PassOK, Passing, Settled, Alive, UnmountProjection,
      Goto, PassFails
<1>14. CASE AwaitWorkerExit
  BY <1>0, <1>14
  DEF TypeOK, ControlType, BackendOK, HandlesOK, PrepareOK, PassOK, Passing, Settled,
      Alive, AwaitWorkerExit, Goto, PassFails
<1>15. CASE UnmountLower
  BY <1>0, <1>15
  DEF TypeOK, ControlType, BackendOK, PassOK, Passing, Settled, Alive, UnmountLower,
      Goto, PassFails
<1>16. CASE RemoveProjection
  BY <1>0, <1>16
  DEF TypeOK, ControlType, BackendOK, PrepareOK, PassOK, SELinuxSteps, Passing, Settled,
      Alive, RemoveProjection, PassFails
<1>17. CASE UnloadProfile
  <2>1. /\ backend = "apparmor" /\ backend' = "apparmor" /\ pass \in {"owned", "post"}
        /\ \A i \in Mounts : Settled(i)'
        /\ unproven' = unproven /\ ~unproven
    BY <1>0, <1>17
    DEF TypeOK, ControlType, BackendOK, PassOK, AppArmorSteps, Passing, UnloadProfile,
        Goto, PassFails, Settled, Alive
  <2>2. \/ pc' = "passed" /\ pass' = pass /\ ~loaded'
        \/ pc' = "retained" /\ pass' = "none"
    BY <1>17, <2>1 DEF UnloadProfile, Goto, PassFails
  <2>3. QED
    BY <2>1, <2>2 DEF PassOK, Passing
<1>18. CASE EndPass
  BY <1>0, <1>18
  DEF TypeOK, ControlType, BackendOK, PassOK, Passing, Settled, Alive, EndPass, Clean,
      CleanOwned
<1>19. CASE ReleasePins
  BY <1>0, <1>19 DEF PassOK, Passing, Settled, Alive, ReleasePins, Goto
<1>20. CASE removeWorkloadMACState
  BY <1>0, <1>20 DEF PassOK, Passing, Settled, Alive, removeWorkloadMACState, Goto
<1>21. CASE Reconcile
  BY <1>0, <1>21 DEF PassOK, Passing, Reconcile, CleanOwned
<1>22. CASE ContainerExits
  BY <1>0, <1>22 DEF PassOK, Settled, Alive, ContainerExits
<1>23. ASSUME NEW i \in Mounts, WorkerMounts(i) \/ WorkerExits(i) \/ WorkerDies(i)
      PROVE  PassOK'
  BY <1>0, <1>23
  DEF TypeOK, ResourceType, PrepareOK, PassOK, Settled, Alive, WorkerMounts, WorkerExits,
      WorkerDies
<1>24. CASE Crash
  BY <1>0, <1>24 DEF PassOK, Passing, Crash, ServiceEnds
<1>25. CASE Restart
  BY <1>0, <1>25 DEF PassOK, Passing, Restart, ServiceEnds
<1>26. CASE Reboot
  BY <1>0, <1>26 DEF PassOK, Settled, Alive, Reboot
<1>27. CASE ForeignEntry
  BY <1>0, <1>27 DEF PassOK, Settled, Alive, ForeignEntry
<1>28. CASE UNCHANGED vars
  BY <1>0, <1>28 DEF PassOK, Settled, Alive
<1>29. QED
  BY <1>1, <1>2, <1>3, <1>4, <1>5, <1>6, <1>7, <1>8, <1>9, <1>10, <1>11, <1>12, <1>13,
     <1>14, <1>15, <1>16, <1>17, <1>18, <1>19, <1>20, <1>21, <1>22, <1>23, <1>24, <1>25,
     <1>26, <1>27, <1>28
  DEF Next, Daemon, Environment, Rest

(* Nothing is taken from under a container.                                *)
LEMMA StepContainerOK ==
    ASSUME BackendInv, [Next]_vars
    PROVE  ContainerOK'
<1> USE PlanAssumption DEF Mounts, vars, control, durable, profile, projection, outside
<1>0. TypeOK /\ BackendOK /\ ContainerOK /\ PrepareOK /\ PassOK
  BY DEF BackendInv
<1>1. CASE Prepare
  BY <1>0, <1>1 DEF ContainerOK, Prepare
<1>2. CASE PrepareFails
  BY <1>0, <1>2 DEF ContainerOK, PrepareFails
<1>3. CASE WriteProfile
  BY <1>0, <1>3 DEF ContainerOK, WriteProfile
<1>4. CASE LoadProfile
  BY <1>0, <1>4 DEF ContainerOK, LoadProfile
<1>5. CASE VerifyProfile
  BY <1>0, <1>5 DEF ContainerOK, VerifyProfile
<1>6. CASE MakeProjection
  BY <1>0, <1>6 DEF ContainerOK, MakeProjection
<1>7. CASE BindLower
  BY <1>0, <1>7 DEF ContainerOK, BindLower
<1>8. CASE StartWorker
  BY <1>0, <1>8 DEF ContainerOK, StartWorker
<1>9. CASE AwaitProjectionReady
  BY <1>0, <1>9 DEF ContainerOK, AwaitProjectionReady
<1>10. CASE StartContainer
  BY <1>0, <1>10 DEF ContainerOK, PrepareOK, StartContainer, Goto
<1>11. CASE BeginCleanup
  BY <1>0, <1>11 DEF ContainerOK, BeginCleanup
<1>12. CASE ProveShape
  BY <1>0, <1>12 DEF ContainerOK, ProveShape
<1>13. CASE UnmountProjection
  BY <1>0, <1>13 DEF ContainerOK, UnmountProjection
<1>14. CASE AwaitWorkerExit
  BY <1>0, <1>14 DEF ContainerOK, AwaitWorkerExit
<1>15. CASE UnmountLower
  BY <1>0, <1>15 DEF ContainerOK, UnmountLower
<1>16. CASE RemoveProjection
  BY <1>0, <1>16 DEF ContainerOK, RemoveProjection
<1>17. CASE UnloadProfile
  BY <1>0, <1>17 DEF ContainerOK, UnloadProfile
<1>18. CASE EndPass
  BY <1>0, <1>18 DEF ContainerOK, EndPass
<1>19. CASE ReleasePins
  BY <1>0, <1>19 DEF ContainerOK, ReleasePins
<1>20. CASE removeWorkloadMACState
  BY <1>0, <1>20 DEF ContainerOK, removeWorkloadMACState
<1>21. CASE Reconcile
  BY <1>0, <1>21 DEF ContainerOK, Reconcile
<1>22. CASE ContainerExits
  BY <1>0, <1>22 DEF ContainerOK, ContainerExits
<1>23. ASSUME NEW i \in Mounts, WorkerMounts(i) \/ WorkerExits(i) \/ WorkerDies(i)
      PROVE  ContainerOK'
  BY <1>0, <1>23
  DEF TypeOK, ResourceType, ContainerOK, WorkerMounts, WorkerExits, WorkerDies
<1>24. CASE Crash
  BY <1>0, <1>24 DEF ContainerOK, Crash, ServiceEnds
<1>25. CASE Restart
  BY <1>0, <1>25 DEF ContainerOK, Restart, ServiceEnds
<1>26. CASE Reboot
  BY <1>0, <1>26 DEF ContainerOK, Reboot
<1>27. CASE ForeignEntry
  BY <1>0, <1>27 DEF ContainerOK, ForeignEntry
<1>28. CASE UNCHANGED vars
  BY <1>0, <1>28 DEF ContainerOK
<1>29. QED
  BY <1>1, <1>2, <1>3, <1>4, <1>5, <1>6, <1>7, <1>8, <1>9, <1>10, <1>11, <1>12, <1>13,
     <1>14, <1>15, <1>16, <1>17, <1>18, <1>19, <1>20, <1>21, <1>22, <1>23, <1>24, <1>25,
     <1>26, <1>27, <1>28
  DEF Next, Daemon, Environment, Rest

(* A tree is removed only where nothing is mounted.                        *)
LEMMA StepSourcesIntact ==
    ASSUME BackendInv, [Next]_vars
    PROVE  SourcesIntact'
<1> USE PlanAssumption DEF Mounts, vars, control, durable, profile, projection, outside
<1>0. TypeOK /\ SourcesIntact /\ PrepareOK /\ PassOK
  BY DEF BackendInv
<1>1. CASE Prepare
  BY <1>0, <1>1 DEF SourcesIntact, Prepare
<1>2. CASE PrepareFails
  BY <1>0, <1>2 DEF SourcesIntact, PrepareFails
<1>3. CASE WriteProfile
  BY <1>0, <1>3 DEF SourcesIntact, WriteProfile
<1>4. CASE LoadProfile
  BY <1>0, <1>4 DEF SourcesIntact, LoadProfile
<1>5. CASE VerifyProfile
  BY <1>0, <1>5 DEF SourcesIntact, VerifyProfile
<1>6. CASE MakeProjection
  BY <1>0, <1>6 DEF SourcesIntact, MakeProjection
<1>7. CASE BindLower
  BY <1>0, <1>7 DEF SourcesIntact, BindLower
<1>8. CASE StartWorker
  BY <1>0, <1>8 DEF SourcesIntact, StartWorker
<1>9. CASE AwaitProjectionReady
  BY <1>0, <1>9 DEF SourcesIntact, AwaitProjectionReady
<1>10. CASE StartContainer
  BY <1>0, <1>10 DEF SourcesIntact, StartContainer
<1>11. CASE BeginCleanup
  BY <1>0, <1>11 DEF SourcesIntact, BeginCleanup
<1>12. CASE ProveShape
  BY <1>0, <1>12 DEF SourcesIntact, ProveShape
<1>13. CASE UnmountProjection
  BY <1>0, <1>13 DEF SourcesIntact, UnmountProjection
<1>14. CASE AwaitWorkerExit
  BY <1>0, <1>14 DEF SourcesIntact, AwaitWorkerExit
<1>15. CASE UnmountLower
  BY <1>0, <1>15 DEF SourcesIntact, UnmountLower
<1>16. CASE RemoveProjection
  BY <1>0, <1>16 DEF SourcesIntact, PassOK, Alive, RemoveProjection, Through
<1>17. CASE UnloadProfile
  BY <1>0, <1>17 DEF SourcesIntact, UnloadProfile
<1>18. CASE EndPass
  BY <1>0, <1>18 DEF SourcesIntact, EndPass
<1>19. CASE ReleasePins
  BY <1>0, <1>19 DEF SourcesIntact, ReleasePins
<1>20. CASE removeWorkloadMACState
  BY <1>0, <1>20
  DEF TypeOK, ResourceType, SourcesIntact, PassOK, Settled, removeWorkloadMACState,
      Through
<1>21. CASE Reconcile
  BY <1>0, <1>21 DEF SourcesIntact, Reconcile
<1>22. CASE ContainerExits
  BY <1>0, <1>22 DEF SourcesIntact, ContainerExits
<1>23. ASSUME NEW i \in Mounts, WorkerMounts(i) \/ WorkerExits(i) \/ WorkerDies(i)
      PROVE  SourcesIntact'
  BY <1>0, <1>23 DEF SourcesIntact, WorkerMounts, WorkerExits, WorkerDies
<1>24. CASE Crash
  BY <1>0, <1>24 DEF SourcesIntact, Crash, ServiceEnds
<1>25. CASE Restart
  BY <1>0, <1>25 DEF SourcesIntact, Restart, ServiceEnds
<1>26. CASE Reboot
  BY <1>0, <1>26 DEF SourcesIntact, Reboot
<1>27. CASE ForeignEntry
  BY <1>0, <1>27 DEF SourcesIntact, ForeignEntry
<1>28. CASE UNCHANGED vars
  BY <1>0, <1>28 DEF SourcesIntact
<1>29. QED
  BY <1>1, <1>2, <1>3, <1>4, <1>5, <1>6, <1>7, <1>8, <1>9, <1>10, <1>11, <1>12, <1>13,
     <1>14, <1>15, <1>16, <1>17, <1>18, <1>19, <1>20, <1>21, <1>22, <1>23, <1>24, <1>25,
     <1>26, <1>27, <1>28
  DEF Next, Daemon, Environment, Rest

-----------------------------------------------------------------------------
(* A host on which no operation was prepared satisfies the invariant.      *)
LEMMA InitBackend == Init => BackendInv
<1> SUFFICES ASSUME Init PROVE BackendInv
  OBVIOUS
<1>1. ControlType
  BY PlanAssumption DEF Init, ControlType
<1>2. FlagType
  BY DEF Init, FlagType
<1>3. ResourceType
  BY PlanAssumption DEF Init, ResourceType
<1>4. BackendOK /\ DurableOK /\ PrepareOK /\ HandlesOK /\ PassOK
  BY DEF Init, BackendOK, DurableOK, PrepareOK, HandlesOK, PassOK, Settled, Alive,
     Passing,
     SELinuxSteps, AppArmorSteps
<1>5. QED
  BY <1>1, <1>2, <1>3, <1>4 DEF Init, BackendInv, TypeOK, ContainerOK, SourcesIntact

(* Every step of a prepare, a cleanup pass, a worker, a crash or a restart *)
(* (workload_mac_apparmor.go, workload_mac_selinux.go, workload_mac.go)    *)
(* keeps the invariant: what lies above a pass's position is settled, what *)
(* the kernel holds has its record, what a container needs is left alone.  *)
THEOREM BackendInvariant == Spec => []BackendInv
<1>1. Init => BackendInv
  BY InitBackend
<1>2. BackendInv /\ [Next]_vars => BackendInv'
  BY StepControlType, StepFlagType, StepResourceType, StepBackendOK, StepDurableOK,
     StepPrepareOK, StepHandlesOK, StepPassOK, StepContainerOK, StepSourcesIntact
  DEF BackendInv, TypeOK
<1>3. QED
  BY <1>1, <1>2, PTL DEF Spec

(* The state of the backend keeps its type.                                *)
THEOREM BackendTypes == Spec => []TypeOK
<1>1. BackendInv => TypeOK
  BY DEF BackendInv
<1>2. QED
  BY <1>1, BackendInvariant, PTL

(* Cleanup never deletes the exposed source through its own projection:    *)
(* RemoveAll of a runtime directory only runs when neither the projection  *)
(* nor its lower bind is mounted and no worker is left to mount it again   *)
(* (the removal steps of workload_mac_selinux.go).                         *)
THEOREM SourcesStayIntact == Spec => []SourcesIntact
<1>1. BackendInv => SourcesIntact
  BY DEF BackendInv
<1>2. QED
  BY <1>1, BackendInvariant, PTL

(* A container only runs behind the profile that was loaded for it, or     *)
(* behind projections that are mounted or whose worker is gone.            *)
THEOREM ContainersStayConfined == Spec => []ConfinedWhileRunning
<1>1. BackendInv => ConfinedWhileRunning
  BY DEF BackendInv, ContainerOK, ConfinedWhileRunning
<1>2. QED
  BY <1>1, BackendInvariant, PTL

(* A loaded profile, a mount or a bind always has the durable record and   *)
(* the pins from which a later start can retry its cleanup, and what was   *)
(* answered clean holds nothing in the kernel.                             *)
THEOREM KernelStateIsOwned == Spec => []KernelStateOwned
<1>1. ASSUME BackendInv PROVE KernelStateOwned
  <2>1. mount \subseteq Mounts /\ bind \subseteq Mounts
    BY <1>1 DEF BackendInv, TypeOK, ResourceType
  <2>2. loaded \/ mount \cup bind # {} => record
    BY <1>1, <2>1 DEF BackendInv, DurableOK, Settled
  <2>3. mount \cup bind # {} \/ (\E i \in Mounts : worker[i] = "serving") => pins
    BY <1>1, <2>1 DEF BackendInv, DurableOK, Settled, Alive
  <2>4. pc \in {"clean", "finalize", "released"} => ~loaded /\ mount = {} /\ bind = {}
    BY <1>1, <2>1 DEF BackendInv, PassOK, Settled
  <2>5. QED
    BY <2>2, <2>3, <2>4 DEF KernelStateOwned
<1>2. QED
  BY <1>1, BackendInvariant, PTL
=============================================================================
