------------------------- MODULE OperationSupervisor -------------------------
(***************************************************************************)
(* The in-memory operation supervisor of the daemon (operation.go) driven  *)
(* by the request handlers of run, build, pull and registry login (run.go, *)
(* build.go, pull.go), by explicit cancellation and by daemon shutdown.    *)
(*                                                                         *)
(* One element of Requests is one HTTP request; once it creates an         *)
(* operation it also names that operation (operation IDs are random and    *)
(* never reused).  Every action is one critical section of the code (s.mu  *)
(* or op.mu), or one stretch of code that touches no shared state.         *)
(***************************************************************************)
EXTENDS Integers, FiniteSets

CONSTANTS
    Requests,         \* HTTP requests that reach the supervisor
    Sessions,         \* session identifiers
    Launchers,        \* launcher identifiers
    SessionOf,        \* [Requests -> Sessions]
    LauncherOf,       \* [Requests -> Launchers]
    KindOf,           \* [Requests -> Kinds]
    Cancellers,       \* threads serving POST .../cancel
    Shutdown,         \* the thread running terminateForShutdown
    Pollers,          \* threads serving GET .../operations/{id}
    MaxPerSession, MaxGlobal, MaxGlobalBuilds,   \* the fixed ceilings
    MaxCompleted      \* operation_max_completed

Kinds == {"run", "build", "sync"}
Terminators == Cancellers \cup {Shutdown}
Pruners == Requests \cup Pollers

ASSUME TypeAssumption ==
    /\ SessionOf \in [Requests -> Sessions]
    /\ LauncherOf \in [Requests -> Launchers]
    /\ KindOf \in [Requests -> Kinds]
    /\ Shutdown \notin Cancellers

ASSUME FiniteAssumption == IsFiniteSet(Requests)

ASSUME CeilingAssumption ==
    /\ MaxPerSession \in Nat /\ MaxGlobal \in Nat
    /\ MaxGlobalBuilds \in Nat /\ MaxCompleted \in Nat

VARIABLES
    \* operationSupervisor, guarded by s.mu
    ops, shutting, quiesced, globalRunning, sessionRunning, globalBuildCount,
    \* capacity lease: reservation.release # nil, op.capacityRelease # nil,
    \* and the once-flag captured by the release closure
    reservation, capacityRelease, released,
    \* operation, guarded by op.mu
    state, completedAt, resultCode, started, terminated, reason,
    forceOwned, forceDone, done,
    \* the docker CLI child process and the signals delivered to it
    proc, signals,
    \* control state: request handlers, the cancellation seen by the
    \* completion goroutine, prunes in progress, terminating threads
    pc, wasCancelled, toRemove, tpc, tst, response

capacityVars == <<globalRunning, sessionRunning, globalBuildCount,
                  reservation, capacityRelease, released>>
opVars == <<state, completedAt, resultCode, started, terminated, reason,
            forceOwned, forceDone, done>>
procVars == <<proc, signals>>
termVars == <<tpc, tst, response>>
vars == <<ops, shutting, quiesced, capacityVars, opVars, procVars,
          pc, wasCancelled, toRemove, termVars>>

PCs == {"idle", "refused", "sync", "reserved", "prepared", "admitted",
        "pruning", "starting", "prestart", "startfail", "rolledback",
        "running", "cleaned", "finishing", "completed", "terminal"}
TPCs == {"idle", "looked", "begun", "terminating", "opwait", "done"}
TSTs == {"out", "todo", "skipped", "grace", "completed", "force", "owner",
         "follower", "finished"}

SupervisorTypeOK ==
    /\ ops \subseteq Requests /\ shutting \in BOOLEAN
    /\ quiesced \subseteq Launchers
    /\ globalRunning \in Nat /\ globalBuildCount \in Nat
    /\ sessionRunning \in [Sessions -> Nat]
    /\ reservation \in [Requests -> BOOLEAN]
    /\ capacityRelease \in [Requests -> BOOLEAN]
    /\ released \in [Requests -> BOOLEAN]

OperationTypeOK ==
    /\ state \in [Requests -> {"running", "succeeded", "failed"}]
    /\ completedAt \in [Requests -> Nat]          \* 0 is the nil pointer
    /\ resultCode \in [Requests -> {"nil", "succeeded", "cancelled", "failed"}]
    /\ started \in [Requests -> BOOLEAN]
    /\ terminated \in [Requests -> BOOLEAN]
    /\ reason \in [Requests -> {"none", "shutdown", "cancelled"}]
    /\ forceOwned \in [Requests -> BOOLEAN]
    /\ forceDone \in [Requests -> BOOLEAN]
    /\ done \in [Requests -> BOOLEAN]
    /\ proc \in [Requests -> {"none", "alive", "ok", "err"}]
    /\ signals \in [Requests -> SUBSET {"TERM", "KILL"}]

ThreadTypeOK ==
    /\ pc \in [Requests -> PCs]
    /\ wasCancelled \in [Requests -> BOOLEAN]
    /\ toRemove \in [Pruners -> SUBSET Requests]
    /\ tpc \in [Terminators -> TPCs]
    /\ tst \in [Terminators -> [Requests -> TSTs]]
    /\ response \in [Terminators -> {"none", "not_found", "terminal", "waited"}]

(* Every variable keeps its type, under every interleaving of handlers,    *)
(* prunes, cancels and shutdown; the counters never go below zero.         *)
TypeOK == SupervisorTypeOK /\ OperationTypeOK /\ ThreadTypeOK

Init ==
    /\ ops = {} /\ shutting = FALSE /\ quiesced = {}
    /\ globalRunning = 0 /\ globalBuildCount = 0
    /\ sessionRunning = [s \in Sessions |-> 0]
    /\ reservation = [r \in Requests |-> FALSE]
    /\ capacityRelease = [r \in Requests |-> FALSE]
    /\ released = [r \in Requests |-> FALSE]
    /\ state = [r \in Requests |-> "running"]
    /\ completedAt = [r \in Requests |-> 0]
    /\ resultCode = [r \in Requests |-> "nil"]
    /\ started = [r \in Requests |-> FALSE]
    /\ terminated = [r \in Requests |-> FALSE]
    /\ reason = [r \in Requests |-> "none"]
    /\ forceOwned = [r \in Requests |-> FALSE]
    /\ forceDone = [r \in Requests |-> FALSE]
    /\ done = [r \in Requests |-> FALSE]
    /\ proc = [r \in Requests |-> "none"]
    /\ signals = [r \in Requests |-> {}]
    /\ pc = [r \in Requests |-> "idle"]
    /\ wasCancelled = [r \in Requests |-> FALSE]
    /\ toRemove = [p \in Pruners |-> {}]
    /\ tpc = [t \in Terminators |-> "idle"]
    /\ tst = [t \in Terminators |-> [r \in Requests |-> "out"]]
    /\ response = [t \in Terminators |-> "none"]

Goto(r, from, to) == pc[r] = from /\ pc' = [pc EXCEPT ![r] = to]

-----------------------------------------------------------------------------
(* Capacity accounting.                                                    *)

(* Mutant: the session ceiling is off by one.                              *)
MutSessionCeiling(s, build) ==
    /\ globalRunning < MaxGlobal
    /\ sessionRunning[s] <= MaxPerSession
    /\ build => globalBuildCount < MaxGlobalBuilds

CapacityFree(s, build) ==
    /\ globalRunning < MaxGlobal
    /\ sessionRunning[s] < MaxPerSession
    /\ build => globalBuildCount < MaxGlobalBuilds

(* reserveCapacityLocked: count the slot and hand out its release closure. *)
TakeSlot(r) ==
    /\ globalRunning' = globalRunning + 1
    /\ sessionRunning' = [sessionRunning EXCEPT ![SessionOf[r]] = @ + 1]
    /\ globalBuildCount' =
          globalBuildCount + (IF KindOf[r] = "build" THEN 1 ELSE 0)
    /\ reservation' = [reservation EXCEPT ![r] = TRUE]
    /\ UNCHANGED <<capacityRelease, released>>

Decrement(n) == IF n > 0 THEN n - 1 ELSE 0

(* The release closure: effective once, guarded by its captured flag.      *)
RunRelease(r) ==
    /\ released' = [released EXCEPT ![r] = TRUE]
    /\ IF released[r]
       THEN UNCHANGED <<globalRunning, sessionRunning, globalBuildCount>>
       ELSE /\ globalRunning' = Decrement(globalRunning)
            /\ sessionRunning' =
                  [sessionRunning EXCEPT ![SessionOf[r]] = Decrement(@)]
            /\ globalBuildCount' = IF KindOf[r] = "build"
                                   THEN Decrement(globalBuildCount)
                                   ELSE globalBuildCount

(* capacityReservation.Release: run the closure and forget it.             *)
ReservationRelease(r) ==
    /\ reservation' = [reservation EXCEPT ![r] = FALSE]
    /\ UNCHANGED capacityRelease
    /\ IF reservation[r]
       THEN RunRelease(r)
       ELSE UNCHANGED <<globalRunning, sessionRunning, globalBuildCount, released>>

(* operation.releaseCapacity: run the closure and forget it.               *)
OpReleaseCapacity(r) ==
    /\ capacityRelease' = [capacityRelease EXCEPT ![r] = FALSE]
    /\ UNCHANGED reservation
    /\ IF capacityRelease[r]
       THEN RunRelease(r)
       ELSE UNCHANGED <<globalRunning, sessionRunning, globalBuildCount, released>>

-----------------------------------------------------------------------------
(* Request handlers, up to the final admission.                            *)

AdmissionOpen(r) == ~shutting /\ LauncherOf[r] \notin quiesced

(* handleRun / handleBuild: reserve before any expensive preparation.      *)
Reserve(r) ==
    /\ KindOf[r] # "sync"
    /\ AdmissionOpen(r)
    /\ CapacityFree(SessionOf[r], KindOf[r] = "build")
    /\ Goto(r, "idle", "reserved")
    /\ TakeSlot(r)
    /\ UNCHANGED <<ops, shutting, quiesced, opVars, procVars, wasCancelled,
                   toRemove, termVars>>

(* handlePull / handleRegistryLogin: the same counters, no lifecycle gate. *)
ReserveSync(r) ==
    /\ KindOf[r] = "sync"
    /\ CapacityFree(SessionOf[r], FALSE)
    /\ Goto(r, "idle", "sync")
    /\ TakeSlot(r)
    /\ UNCHANGED <<ops, shutting, quiesced, opVars, procVars, wasCancelled,
                   toRemove, termVars>>

(* A refusal (shutdown, quiesced launcher, exhausted ceiling) ends the     *)
(* request at once: there is no queue.                                     *)
ReserveRefused(r) ==
    /\ \/ KindOf[r] # "sync" /\ ~AdmissionOpen(r)
       \/ ~CapacityFree(SessionOf[r], KindOf[r] = "build")
    /\ Goto(r, "idle", "refused")
    /\ UNCHANGED <<ops, shutting, quiesced, capacityVars, opVars, procVars,
                   wasCancelled, toRemove, termVars>>

(* The deferred Release of a synchronous handler.                          *)
SyncReturn(r) ==
    /\ Goto(r, "sync", "terminal")
    /\ ReservationRelease(r)
    /\ UNCHANGED <<ops, shutting, quiesced, opVars, procVars, wasCancelled,
                   toRemove, termVars>>

(* releasePreparation: the lease or a validation before the operation      *)
(* object exists fails.                                                    *)
PrepareFail(r) ==
    /\ Goto(r, "reserved", "refused")
    /\ ReservationRelease(r)
    /\ UNCHANGED <<ops, shutting, quiesced, opVars, procVars, wasCancelled,
                   toRemove, termVars>>

(* Mutant: the reservation keeps its closure after the transfer.           *)
MutTransferKeepsLease(r) ==
    /\ Goto(r, "reserved", "prepared")
    /\ capacityRelease' = [capacityRelease EXCEPT ![r] = reservation[r]]
    /\ UNCHANGED <<ops, shutting, quiesced, globalRunning, sessionRunning,
                   globalBuildCount, reservation, released, opVars, procVars,
                   wasCancelled, toRemove, termVars>>

(* newRunOperation / newBuildOperation: the slot moves to the operation.   *)
CreateOperation(r) ==
    /\ Goto(r, "reserved", "prepared")
    /\ capacityRelease' = [capacityRelease EXCEPT ![r] = reservation[r]]
    /\ reservation' = [reservation EXCEPT ![r] = FALSE]
    /\ UNCHANGED <<ops, shutting, quiesced, globalRunning, sessionRunning,
                   globalBuildCount, released, opVars, procVars, wasCancelled,
                   toRemove, termVars>>

(* A pin, MAC, argv or staging step fails before admission.                *)
MaterializeFail(r) ==
    /\ Goto(r, "prepared", "refused")
    /\ OpReleaseCapacity(r)
    /\ UNCHANGED <<ops, shutting, quiesced, opVars, procVars, wasCancelled,
                   toRemove, termVars>>

(* Mutant: final admission trusts the gates checked at reservation time.   *)
MutAdmitUnchecked(r) ==
    /\ Goto(r, "prepared", "admitted")
    /\ ops' = ops \cup {r}
    /\ UNCHANGED <<shutting, quiesced, capacityVars, opVars, procVars,
                   wasCancelled, toRemove, termVars>>

(* admitReserved: the lifecycle gates are checked again, capacity is not.  *)
AdmitReserved(r) ==
    /\ AdmissionOpen(r)
    /\ Goto(r, "prepared", "admitted")
    /\ ops' = ops \cup {r}
    /\ capacityRelease' =
          [capacityRelease EXCEPT ![r] = @ \/ reservation[r]]
    /\ reservation' = [reservation EXCEPT ![r] = FALSE]
    /\ UNCHANGED <<shutting, quiesced, globalRunning, sessionRunning,
                   globalBuildCount, released, opVars, procVars, wasCancelled,
                   toRemove, termVars>>

AdmitRefused(r) ==
    /\ ~AdmissionOpen(r)
    /\ Goto(r, "prepared", "refused")
    /\ OpReleaseCapacity(r)
    /\ UNCHANGED <<ops, shutting, quiesced, opVars, procVars, wasCancelled,
                   toRemove, termVars>>

-----------------------------------------------------------------------------
(* pruneCompleted: decide outside the locks, remove under one lock.        *)

Completed == {o \in Requests : completedAt[o] # 0}

(* Operations completed at or before "cutoff" are past the retention TTL;  *)
(* of the others the MaxCompleted newest are kept.                         *)
Prunable(cutoff) ==
    LET seen       == ops \cap Completed
        expired    == {o \in seen : completedAt[o] <= cutoff}
        nonExpired == seen \ expired
        newer(o)   == {q \in nonExpired : completedAt[q] > completedAt[o]}
    IN  expired \cup {o \in nonExpired : Cardinality(newer(o)) >= MaxCompleted}

Cutoffs == {0} \cup {completedAt[o] : o \in Requests}

(* The handler prunes right after its admission.                           *)
PruneDecide(r) ==
    /\ Goto(r, "admitted", "pruning")
    /\ \E c \in Cutoffs : toRemove' = [toRemove EXCEPT ![r] = Prunable(c)]
    /\ UNCHANGED <<ops, shutting, quiesced, capacityVars, opVars, procVars,
                   wasCancelled, termVars>>

PruneRemove(r) ==
    /\ Goto(r, "pruning", "starting")
    /\ ops' = ops \ toRemove[r]
    /\ toRemove' = [toRemove EXCEPT ![r] = {}]
    /\ UNCHANGED <<shutting, quiesced, capacityVars, opVars, procVars,
                   wasCancelled, termVars>>

(* handleOperationStatus prunes on behalf of any client.                   *)
PollDecide(p) ==
    /\ toRemove[p] = {}
    /\ \E c \in Cutoffs :
          /\ Prunable(c) # {}
          /\ toRemove' = [toRemove EXCEPT ![p] = Prunable(c)]
    /\ UNCHANGED <<ops, shutting, quiesced, capacityVars, opVars, procVars,
                   pc, wasCancelled, termVars>>

PollRemove(p) ==
    /\ toRemove[p] # {}
    /\ ops' = ops \ toRemove[p]
    /\ toRemove' = [toRemove EXCEPT ![p] = {}]
    /\ UNCHANGED <<shutting, quiesced, capacityVars, opVars, procVars,
                   pc, wasCancelled, termVars>>

-----------------------------------------------------------------------------
(* startOperationProcess and the process itself.                           *)

(* Under op.mu: a terminated operation is never started.                   *)
StartProcess(r) ==
    /\ ~terminated[r]
    /\ Goto(r, "starting", "running")
    /\ started' = [started EXCEPT ![r] = TRUE]
    /\ proc' = [proc EXCEPT ![r] = "alive"]
    /\ UNCHANGED <<ops, shutting, quiesced, capacityVars, state, completedAt,
                   resultCode, terminated, reason, forceOwned, forceDone, done,
                   signals, wasCancelled, toRemove, termVars>>

(* cmd.Start() itself fails: started stays false.                          *)
StartFails(r) ==
    /\ ~terminated[r]
    /\ Goto(r, "starting", "startfail")
    /\ UNCHANGED <<ops, shutting, quiesced, capacityVars, opVars, procVars,
                   wasCancelled, toRemove, termVars>>

StartRefused(r) ==
    /\ terminated[r]
    /\ Goto(r, "starting", "prestart")
    /\ wasCancelled' = [wasCancelled EXCEPT ![r] = reason[r] = "cancelled"]
    /\ UNCHANGED <<ops, shutting, quiesced, capacityVars, opVars, procVars,
                   toRemove, termVars>>

(* rollbackRunPreparation releases the slot before the operation fails; a  *)
(* build only cleans its staging here and releases the slot in fail().     *)
Rollback(r) ==
    /\ pc[r] \in {"prestart", "startfail"}
    /\ pc' = [pc EXCEPT ![r] = "rolledback"]
    /\ IF KindOf[r] = "run" THEN OpReleaseCapacity(r)
                            ELSE UNCHANGED capacityVars
    /\ UNCHANGED <<ops, shutting, quiesced, opVars, procVars, wasCancelled,
                   toRemove, termVars>>

(* The docker CLI exits; a killed process never reports success.           *)
ProcessExit(r) ==
    /\ proc[r] = "alive"
    /\ \E e \in {"ok", "err"} :
          /\ "KILL" \in signals[r] => e = "err"
          /\ proc' = [proc EXCEPT ![r] = e]
    /\ UNCHANGED <<ops, shutting, quiesced, capacityVars, opVars, signals,
                   pc, wasCancelled, toRemove, termVars>>

(* waitRunCompletion / waitBuildCompletion: Wait and clean up (module      *)
(* RunCleanup; no supervisor state is touched), then look at the reason    *)
(* under op.mu, then finish.                                               *)
WaitReturns(r) ==
    /\ proc[r] \in {"ok", "err"}
    /\ Goto(r, "running", "cleaned")
    /\ UNCHANGED <<ops, shutting, quiesced, capacityVars, opVars, procVars,
                   wasCancelled, toRemove, termVars>>

ReadReason(r) ==
    /\ Goto(r, "cleaned", "finishing")
    /\ wasCancelled' = [wasCancelled EXCEPT ![r] = reason[r] = "cancelled"]
    /\ UNCHANGED <<ops, shutting, quiesced, capacityVars, opVars, procVars,
                   toRemove, termVars>>

(* succeed / fail under op.mu: the first completion wins and ends the      *)
(* capacity lease in the same critical section.                            *)
Complete(r) ==
    LET ok == pc[r] = "finishing" /\ proc[r] = "ok" IN
    /\ pc[r] \in {"finishing", "rolledback"}
    /\ completedAt[r] = 0
    /\ pc' = [pc EXCEPT ![r] = "completed"]
    /\ completedAt' = [completedAt EXCEPT ![r] = Cardinality(Completed) + 1]
    /\ state' = [state EXCEPT ![r] = IF ok THEN "succeeded" ELSE "failed"]
    /\ resultCode' = [resultCode EXCEPT ![r] =
          IF ok THEN "succeeded"
          ELSE IF wasCancelled[r] THEN "cancelled" ELSE "failed"]
    /\ OpReleaseCapacity(r)
    /\ UNCHANGED <<ops, shutting, quiesced, started, terminated, reason,
                   forceOwned, forceDone, done, procVars, wasCancelled,
                   toRemove, termVars>>

(* The finish audit record, then close(op.done).                           *)
CloseDone(r) ==
    /\ Goto(r, "completed", "terminal")
    /\ done' = [done EXCEPT ![r] = TRUE]
    /\ UNCHANGED <<ops, shutting, quiesced, capacityVars, state, completedAt,
                   resultCode, started, terminated, reason, forceOwned,
                   forceDone, procVars, wasCancelled, toRemove, termVars>>

-----------------------------------------------------------------------------
(* Termination: explicit cancel and daemon shutdown.                       *)

(* handleOperationCancel up to its call of supervisor.cancel.              *)
CancelLookup(t, o) ==
    /\ tpc[t] = "idle" /\ o \in ops
    /\ IF completedAt[o] # 0
       THEN /\ tpc' = [tpc EXCEPT ![t] = "done"]
            /\ response' = [response EXCEPT ![t] = "terminal"]
       ELSE /\ tpc' = [tpc EXCEPT ![t] = "looked"]
            /\ UNCHANGED response
    /\ tst' = [tst EXCEPT ![t][o] = "todo"]
    /\ UNCHANGED <<ops, shutting, quiesced, capacityVars, opVars, procVars,
                   pc, wasCancelled, toRemove>>

(* supervisor.cancel: the operation may meanwhile be pruned or terminal.   *)
CancelBegin(t, o) ==
    /\ tpc[t] = "looked" /\ tst[t][o] = "todo"
    /\ tpc' = [tpc EXCEPT ![t] =
          IF o \in ops /\ completedAt[o] = 0 THEN "terminating" ELSE "done"]
    /\ response' = [response EXCEPT ![t] =
          IF o \notin ops THEN "not_found"
          ELSE IF completedAt[o] # 0 THEN "terminal" ELSE @]
    /\ UNCHANGED <<ops, shutting, quiesced, capacityVars, opVars, procVars,
                   pc, wasCancelled, toRemove, tst>>

(* onShutdown closes the admission gate ...                                *)
BeginShutdown ==
    /\ tpc[Shutdown] = "idle"
    /\ tpc' = [tpc EXCEPT ![Shutdown] = "begun"]
    /\ shutting' = TRUE
    /\ UNCHANGED <<ops, quiesced, capacityVars, opVars, procVars, pc,
                   wasCancelled, toRemove, tst, response>>

(* ... before terminateForShutdown takes its snapshot of s.ops.            *)
ShutdownSnapshot ==
    /\ tpc[Shutdown] = "begun"
    /\ tpc' = [tpc EXCEPT ![Shutdown] = "terminating"]
    /\ tst' = [tst EXCEPT ![Shutdown] =
          [o \in Requests |-> IF o \in ops THEN "todo" ELSE "out"]]
    /\ UNCHANGED <<ops, shutting, quiesced, capacityVars, opVars, procVars,
                   pc, wasCancelled, toRemove, response>>

ReasonOf(t) == IF t = Shutdown THEN "shutdown" ELSE "cancelled"

(* Mutant: a later terminator overwrites the reason.                       *)
MutMarkLast(t, o) ==
    /\ tpc[t] = "terminating" /\ tst[t][o] = "todo"
    /\ reason' = [reason EXCEPT ![o] = ReasonOf(t)]
    /\ terminated' = [terminated EXCEPT ![o] = @ \/ ~started[o]]
    /\ signals' = [signals EXCEPT ![o] =
          IF proc[o] = "alive" THEN @ \cup {"TERM"} ELSE @]
    /\ tst' = [tst EXCEPT ![t][o] = IF started[o] THEN "grace" ELSE "skipped"]
    /\ UNCHANGED <<ops, shutting, quiesced, capacityVars, state, completedAt,
                   resultCode, started, forceOwned, forceDone, done, proc,
                   pc, wasCancelled, toRemove, tpc, response>>

(* Phase 0+1, one operation under op.mu: either it has not started and is  *)
(* marked terminated, or it is sent SIGTERM.                               *)
Mark(t, o) ==
    /\ tpc[t] = "terminating" /\ tst[t][o] = "todo"
    /\ reason' = [reason EXCEPT ![o] = IF @ = "none" THEN ReasonOf(t) ELSE @]
    /\ terminated' = [terminated EXCEPT ![o] = @ \/ ~started[o]]
    /\ signals' = [signals EXCEPT ![o] =
          IF proc[o] = "alive" THEN @ \cup {"TERM"} ELSE @]
    /\ tst' = [tst EXCEPT ![t][o] = IF started[o] THEN "grace" ELSE "skipped"]
    /\ UNCHANGED <<ops, shutting, quiesced, capacityVars, state, completedAt,
                   resultCode, started, forceOwned, forceDone, done, proc,
                   pc, wasCancelled, toRemove, tpc, response>>

Marked(t) == tpc[t] = "terminating" /\ \A o \in Requests : tst[t][o] # "todo"

(* Phase 2: the operation completes within the graceful period.            *)
GraceDone(t, o) ==
    /\ Marked(t) /\ tst[t][o] = "grace" /\ done[o]
    /\ tst' = [tst EXCEPT ![t][o] = "completed"]
    /\ UNCHANGED <<ops, shutting, quiesced, capacityVars, opVars, procVars,
                   pc, wasCancelled, toRemove, tpc, response>>

(* Mutant: only cancel arms a graceful timer.                              *)
MutShutdownNoTimer(t) ==
    /\ t # Shutdown
    /\ Marked(t) /\ \E o \in Requests : tst[t][o] = "grace"
    /\ tst' = [tst EXCEPT ![t] = [o \in Requests |->
          IF tst[t][o] = "grace" THEN "force" ELSE tst[t][o]]]
    /\ UNCHANGED <<ops, shutting, quiesced, capacityVars, opVars, procVars,
                   pc, wasCancelled, toRemove, tpc, response>>

(* The graceful timer or deadline fires for everything still waited for.   *)
GraceExpires(t) ==
    /\ Marked(t) /\ \E o \in Requests : tst[t][o] = "grace"
    /\ tst' = [tst EXCEPT ![t] = [o \in Requests |->
          IF tst[t][o] = "grace" THEN "force" ELSE tst[t][o]]]
    /\ UNCHANGED <<ops, shutting, quiesced, capacityVars, opVars, procVars,
                   pc, wasCancelled, toRemove, tpc, response>>

(* Mutant: the claim does not look for an earlier owner.                   *)
MutClaimAlways(t, o) ==
    /\ tst[t][o] = "force"
    /\ tst' = [tst EXCEPT ![t][o] = IF completedAt[o] # 0 THEN "finished"
                                    ELSE "owner"]
    /\ forceOwned' = [forceOwned EXCEPT ![o] = @ \/ completedAt[o] = 0]
    /\ UNCHANGED <<ops, shutting, quiesced, capacityVars, state, completedAt,
                   resultCode, started, terminated, reason, forceDone, done,
                   procVars, pc, wasCancelled, toRemove, tpc, response>>

(* Phase 3, entry under op.mu: follow an owner, leave a completed          *)
(* operation alone, or become the single owner of the force cleanup.       *)
ForceClaim(t, o) ==
    /\ tst[t][o] = "force"
    /\ tst' = [tst EXCEPT ![t][o] = IF forceOwned[o] THEN "follower"
                                    ELSE IF completedAt[o] # 0 THEN "finished"
                                    ELSE "owner"]
    /\ forceOwned' = [forceOwned EXCEPT ![o] = @ \/ completedAt[o] = 0]
    /\ UNCHANGED <<ops, shutting, quiesced, capacityVars, state, completedAt,
                   resultCode, started, terminated, reason, forceDone, done,
                   procVars, pc, wasCancelled, toRemove, tpc, response>>

(* Mutant: the owner kills the container but not the docker CLI.           *)
MutKillContainerOnly(t, o) ==
    /\ tst[t][o] = "owner"
    /\ tst' = [tst EXCEPT ![t][o] = "finished"]
    /\ forceDone' = [forceDone EXCEPT ![o] = TRUE]
    /\ UNCHANGED <<ops, shutting, quiesced, capacityVars, state, completedAt,
                   resultCode, started, terminated, reason, forceOwned, done,
                   procVars, pc, wasCancelled, toRemove, tpc, response>>

(* The owner kills the container (bounded, best effort), then the CLI      *)
(* process, and wakes the followers.                                       *)
ForceKill(t, o) ==
    /\ tst[t][o] = "owner"
    /\ tst' = [tst EXCEPT ![t][o] = "finished"]
    /\ signals' = [signals EXCEPT ![o] =
          IF proc[o] = "alive" THEN @ \cup {"KILL"} ELSE @]
    /\ forceDone' = [forceDone EXCEPT ![o] = TRUE]
    /\ UNCHANGED <<ops, shutting, quiesced, capacityVars, state, completedAt,
                   resultCode, started, terminated, reason, forceOwned, done,
                   proc, pc, wasCancelled, toRemove, tpc, response>>

(* A follower returns when the owner is done or when its own remaining     *)
(* budget expires.                                                         *)
FollowerReturns(t, o) ==
    /\ tst[t][o] = "follower"
    /\ tst' = [tst EXCEPT ![t][o] = "finished"]
    /\ UNCHANGED <<ops, shutting, quiesced, capacityVars, opVars, procVars,
                   pc, wasCancelled, toRemove, tpc, response>>

(* terminateOperations returns; cancel then waits for op.done.             *)
TerminateReturns(t) ==
    /\ tpc[t] = "terminating"
    /\ \A o \in Requests : tst[t][o] \in {"out", "skipped", "completed", "finished"}
    /\ tpc' = [tpc EXCEPT ![t] = IF t = Shutdown THEN "done" ELSE "opwait"]
    /\ UNCHANGED <<ops, shutting, quiesced, capacityVars, opVars, procVars,
                   pc, wasCancelled, toRemove, tst, response>>

(* Mutant: the cancel handler answers without op.Wait().                   *)
MutRespondEarly(t, o) ==
    /\ tpc[t] = "opwait" /\ tst[t][o] # "out"
    /\ tpc' = [tpc EXCEPT ![t] = "done"]
    /\ response' = [response EXCEPT ![t] = "waited"]
    /\ UNCHANGED <<ops, shutting, quiesced, capacityVars, opVars, procVars,
                   pc, wasCancelled, toRemove, tst>>

CancelRespond(t, o) ==
    /\ tpc[t] = "opwait" /\ tst[t][o] # "out" /\ done[o]
    /\ tpc' = [tpc EXCEPT ![t] = "done"]
    /\ response' = [response EXCEPT ![t] = "waited"]
    /\ UNCHANGED <<ops, shutting, quiesced, capacityVars, opVars, procVars,
                   pc, wasCancelled, toRemove, tst>>

(* quiesceLauncher / setQuiesced, called by the ownership lifecycle.       *)
SetQuiesced(l, closed) ==
    /\ quiesced' = IF closed THEN quiesced \cup {l} ELSE quiesced \ {l}
    /\ UNCHANGED <<ops, shutting, capacityVars, opVars, procVars, pc,
                   wasCancelled, toRemove, termVars>>

-----------------------------------------------------------------------------
HandlerStep(r) ==
    \/ Reserve(r) \/ ReserveSync(r) \/ ReserveRefused(r) \/ SyncReturn(r)
    \/ PrepareFail(r) \/ CreateOperation(r) \/ MaterializeFail(r)
    \/ AdmitReserved(r) \/ AdmitRefused(r)
    \/ PruneDecide(r) \/ PruneRemove(r)
    \/ StartProcess(r) \/ StartFails(r) \/ StartRefused(r) \/ Rollback(r)
    \/ WaitReturns(r) \/ ReadReason(r)
    \/ Complete(r) \/ CloseDone(r)

TerminatorStep(t) ==
    \/ \E o \in Requests :
          \/ Mark(t, o) \/ GraceDone(t, o) \/ ForceClaim(t, o)
          \/ ForceKill(t, o) \/ FollowerReturns(t, o)
    \/ GraceExpires(t) \/ TerminateReturns(t)

CancellerStep(t) ==
    \E o \in Requests : CancelBegin(t, o) \/ CancelRespond(t, o)

Next ==
    \/ \E r \in Requests : HandlerStep(r) \/ ProcessExit(r)
    \/ \E p \in Pollers : PollDecide(p) \/ PollRemove(p)
    \/ \E t \in Cancellers, o \in Requests : CancelLookup(t, o)
    \/ \E t \in Cancellers : CancellerStep(t)
    \/ BeginShutdown \/ ShutdownSnapshot
    \/ \E t \in Terminators : TerminatorStep(t)
    \/ \E l \in Launchers, closed \in BOOLEAN : SetQuiesced(l, closed)

Spec == Init /\ [][Next]_vars

(* What keeps running: an admitted handler and its completion goroutine    *)
(* never block for ever (their docker cleanup calls carry timeouts), the   *)
(* timers of terminateOperations fire, and a SIGKILLed docker CLI exits.   *)
(* A new request, a cancel call, a poll or a shutdown need never come, and *)
(* a process that was not killed may run for ever.                         *)
KilledExit(r) == "KILL" \in signals[r] /\ ProcessExit(r)

Fairness ==
    /\ \A r \in Requests :
          /\ WF_vars(pc[r] # "idle" /\ HandlerStep(r))
          /\ WF_vars(KilledExit(r))
    /\ \A t \in Terminators : WF_vars(TerminatorStep(t))
    /\ \A t \in Cancellers : WF_vars(CancellerStep(t))
    /\ WF_vars(ShutdownSnapshot)

FairSpec == Spec /\ Fairness

-----------------------------------------------------------------------------
(* Safety.                                                                 *)

HoldsSlot(r) == reservation[r] \/ capacityRelease[r]
Holders == {r \in Requests : HoldsSlot(r)}
HoldersOf(s) == {r \in Holders : SessionOf[r] = s}
BuildHolders == {r \in Holders : KindOf[r] = "build"}

(* The three counters always equal the number of requests and operations   *)
(* that still own a slot, whatever path (refusal, failed preparation,      *)
(* rollback, start failure, completion, synchronous return) gave it back:  *)
(* the release closures fire exactly once per reserveCapacityLocked.       *)
CapacityExact ==
    /\ globalRunning = Cardinality(Holders)
    /\ \A s \in Sessions : sessionRunning[s] = Cardinality(HoldersOf(s))
    /\ globalBuildCount = Cardinality(BuildHolders)

Executing == {r \in Requests : proc[r] = "alive" \/ pc[r] = "sync"}

(* The documented ceilings bound the docker processes that really exist,   *)
(* not only the counters: a slot is never given back while the docker      *)
(* process it pays for is alive, across cancel, shutdown and start races.  *)
DockerWithinCeilings ==
    /\ Cardinality(Executing) <= MaxGlobal
    /\ \A s \in Sessions :
          Cardinality({r \in Executing : SessionOf[r] = s}) <= MaxPerSession
    /\ Cardinality({r \in Executing : KindOf[r] = "build"}) <= MaxGlobalBuilds

(* A request that was refused, or whose operation is terminal, owns no     *)
(* slot any more, however its handler got there.                           *)
NoSlotLeak ==
    \A r \in Requests :
        pc[r] \in {"idle", "refused", "completed", "terminal"} => ~HoldsSlot(r)

(* startOperationProcess against terminateOperations: when shutdown has    *)
(* returned, every docker process still alive was sent SIGTERM; none is    *)
(* started behind the back of the shutdown snapshot.                       *)
ShutdownSignalsAll ==
    tpc[Shutdown] = "done" =>
        \A r \in Requests : proc[r] = "alive" => "TERM" \in signals[r]

(* A live docker process stays reachable by cancel and by shutdown: the    *)
(* pruning of retained metadata (decided outside the locks) never drops    *)
(* its operation from s.ops.                                               *)
LiveIsRegistered ==
    \A r \in Requests : proc[r] = "alive" => r \in ops

(* Every answer of handleOperationCancel, "not found" because of a         *)
(* concurrent prune included, is given about an operation that is over.    *)
AnsweredIsOver ==
    \A t \in Cancellers, o \in Requests :
        tpc[t] = "done" /\ tst[t][o] # "out" =>
            /\ response[t] # "none"
            /\ completedAt[o] # 0
            /\ proc[o] # "alive"

(* The result "cancelled" is only reported for an operation that a client  *)
(* asked to cancel, never for one that daemon shutdown reached first.      *)
CancelledWasRequested ==
    \A o \in Requests :
        resultCode[o] = "cancelled" =>
            /\ reason[o] = "cancelled"
            /\ \E t \in Cancellers : tst[t][o] # "out"

(* When a cancel and daemon shutdown reach the same operation, the first   *)
(* reason stands (terminateOperations), and what shutdown reached first is *)
(* never reported as cancelled, however late the completion goroutine      *)
(* looks at the reason.                                                    *)
FirstReasonDecides ==
    [][\A o \in Requests :
          /\ reason[o] # "none" => reason'[o] = reason[o]
          /\ reason[o] = "shutdown" => resultCode'[o] # "cancelled"]_vars

(* What a client learns of its cancel is true (handleOperationCancel): the *)
(* answer is about an operation that is over, and whether that operation   *)
(* counts as cancelled is settled by the reason that came first, cancel or *)
(* daemon shutdown, whoever marks, completes or reads later.               *)
CancelAnswersTruthfully == []AnsweredIsOver /\ FirstReasonDecides

(* Force cleanup has one owner: close(forceDone) runs at most once per     *)
(* operation (a second close of the channel would panic the daemon), and   *)
(* no follower waits on a channel nobody is going to close.                *)
SingleForceOwner ==
    \A o \in Requests :
        LET owners == {t \in Terminators : tst[t][o] = "owner"} IN
        /\ Cardinality(owners) <= 1
        /\ forceDone[o] => owners = {}
        /\ (\E t \in Terminators : tst[t][o] = "follower")
              => forceDone[o] \/ owners # {}

-----------------------------------------------------------------------------
(* Liveness.                                                               *)

(* A cancel call that found its operation running is always answered.      *)
CancelIsAnswered ==
    \A t \in Cancellers : tpc[t] = "looked" ~> tpc[t] = "done"

(* Daemon shutdown always gets past terminateForShutdown.                  *)
ShutdownReturns == tpc[Shutdown] = "begun" ~> tpc[Shutdown] = "done"
=============================================================================
