----------------------------- MODULE SessionMAC -----------------------------
(***************************************************************************)
(* The session MAC coordinator (mac_lifecycle.go): which MAC boundaries    *)
(* exist, who consumes them and when one may be removed, over session      *)
(* creation and deletion, operation leases, pending workload records,      *)
(* failing backend commands, crashes and startup reconciliation.           *)
(* c.mu serialises the transitions; t is the one that holds it.  Session   *)
(* rows, ownership rows, boundaries and workload records outlive a crash.  *)
(***************************************************************************)
EXTENDS Naturals, FiniteSets

CONSTANTS
    Paths, Within,     \* canonical paths; <<a, p>> \in Within: pathWithin(a, p)
    Sessions,          \* the sessions
    Ops, SessionOf,    \* run operations and the session each runs for
    Hosts              \* the hosts to consider: each has the boundaries of
                       \* its operator (SELinux rules), the home trees that
                       \* need no boundary (SELinux: under /home), discovers
                       \* (AppArmor: the backend knows its own boundaries),
                       \* issued, the trees of each session's snapshot, and
                       \* a bound on crashes

(* Canonical paths form a tree: containment is a partial order, and a path *)
(* has finitely many ancestors.                                            *)
ASSUME PathAssumption ==
    /\ Within \subseteq Paths \X Paths
    /\ \A p \in Paths : <<p, p>> \in Within
    /\ \A p, q \in Paths : <<p, q>> \in Within /\ <<q, p>> \in Within => p = q
    /\ \A p, q, r \in Paths :
          <<p, q>> \in Within /\ <<q, r>> \in Within => <<p, r>> \in Within
    /\ \A p \in Paths : IsFiniteSet({q \in Paths : <<q, p>> \in Within})

ASSUME SessionAssumption ==
    /\ IsFiniteSet(Sessions) /\ IsFiniteSet(Ops)
    /\ SessionOf \in [Ops -> Sessions]
    /\ Hosts \subseteq [operator : SUBSET Paths, home : SUBSET Paths,
                        discovers : BOOLEAN, crashes : Nat,
                        issued : [Sessions -> SUBSET Paths]]

(* isUnderHome holds below a home tree, and sessionMACBoundaries keeps no  *)
(* tree that another one of the snapshot covers.                           *)
ASSUME HostAssumption ==
    \A h \in Hosts :
        /\ \A p \in h.home, q \in Paths : <<p, q>> \in Within => q \in h.home
        /\ \A s \in Sessions : \A p, q \in h.issued[s] :
              <<p, q>> \in Within => p = q

VARIABLES
    host,              \* the host the daemon runs on, fixed
    phase, crashes,    \* startup progress of the daemon; crashes so far
    row,               \* sessions table
    deleting,          \* rows deleted, ReleaseSessionBinding still to come
    queue,             \* live sessions ReconcileLiveSessions has still to bind
    bound, binding,    \* sessionBindings: present, and its coverage set
    count,             \* boundaryConsumerCounts
    deferred,          \* deferredBoundaries
    op, lease,         \* run operations and the coverage of their leases
    rec,               \* workload state directories: none, dir, record
    installed, owner,  \* boundaries of the helper; rows of mac_boundaries
    excused,           \* history: a removal or its decision met an error
    t                  \* the transition under c.mu

rowVars == <<row, deleting>>
memVars == <<bound, binding, count, deferred>>
opVars == <<op, lease, rec>>
hostVars == <<installed, owner>>
bootVars == <<phase, crashes, queue>>
vars == <<host, rowVars, memVars, opVars, hostVars, bootVars, excused, t>>

Coverages == [boundary : Paths, owned : BOOLEAN]
Pendings == [all : BOOLEAN, roots : SUBSET Paths]
NoPending == [all |-> FALSE, roots |-> {}]

(* A transition: its step, its session, the trees or boundaries it has     *)
(* still to visit, the coverage it resolved or releases, the boundaries it *)
(* prepared, the pending coverage it read, a boundary just created and one *)
(* just removed, whose ownership rows are still to be written or deleted.  *)
Idle == [pc |-> "idle", s |-> {}, todo |-> {}, cov |-> {}, prep |-> {},
         pend |-> NoPending, new |-> {}, gone |-> {}]
Steps == {"idle", "ensure", "record", "bind", "rollback", "release", "retry", "stale"}
Transitions ==
    [pc : Steps, s : SUBSET Sessions, todo : SUBSET Paths, cov : SUBSET Coverages,
     prep : SUBSET Paths, pend : Pendings, new : SUBSET Paths, gone : SUBSET Paths]

TypeOK ==
    /\ phase \in {"down", "import", "reconcile", "expire", "serving"}
    /\ host \in Hosts /\ crashes \in 0..host.crashes
    /\ row \in [Sessions -> {"none", "live", "expired", "gone"}]
    /\ deleting \subseteq Sessions /\ queue \subseteq Sessions
    /\ bound \subseteq Sessions /\ binding \in [Sessions -> SUBSET Coverages]
    /\ count \in [Paths -> Nat] /\ deferred \subseteq Paths
    /\ op \in [Ops -> {"idle", "held", "cleaned", "released", "lost"}]
    /\ lease \in [Ops -> SUBSET Coverages]
    /\ rec \in [Ops -> {"none", "dir", "record"}]
    /\ installed \subseteq Paths /\ owner \subseteq Paths
    /\ excused \subseteq Paths
    /\ t \in Transitions

Init ==
    /\ host \in Hosts
    /\ phase = "serving" /\ crashes = 0 /\ queue = {}
    /\ row = [s \in Sessions |-> "none"] /\ deleting = {}
    /\ bound = {} /\ binding = [s \in Sessions |-> {}]
    /\ count = [p \in Paths |-> 0] /\ deferred = {}
    /\ op = [o \in Ops |-> "idle"] /\ lease = [o \in Ops |-> {}]
    /\ rec = [o \in Ops |-> "none"]
    /\ installed = {} /\ owner = {} /\ excused = {}
    /\ t = Idle

-----------------------------------------------------------------------------
(* Paths and coverage.                                                     *)

Covers(b, p) == <<b, p>> \in Within

Overlap(a, b) == Covers(a, b) \/ Covers(b, a)

(* The rules the backend finds on the host.                                *)
Present == installed \cup host.operator

Coverage(b) == [boundary |-> b, owned |-> b \in owner]

Boundaries(cov) == {c.boundary : c \in cov}

(* Mutant: the ancestor is dropped instead of what lies below it.          *)
MutNormalized(cov) ==
    {c \in cov : \A d \in cov : Covers(c.boundary, d.boundary) => d = c}

(* normalizeCoverageSet: a boundary below another one of the set goes.     *)
Normalized(cov) ==
    {c \in cov : \A d \in cov : Covers(d.boundary, c.boundary) => d = c}

-----------------------------------------------------------------------------
(* The removal decision.                                                   *)

Leased(o) == op[o] \in {"held", "cleaned"}

(* isBoundaryStillNeeded.                                                  *)
StillNeeded(b) ==
    \/ \E s \in bound : \E c \in binding[s] : Overlap(b, c.boundary)
    \/ \E o \in Ops : Leased(o) /\ \E c \in lease[o] : Overlap(b, c.boundary)

HasRow(s) == row[s] \in {"live", "expired"}

(* pendingWorkloadCoverage over PendingWorkloadSessions: an entry without  *)
(* a record, or of a session without a row, defers every removal.          *)
Pending ==
    [all |-> \E o \in Ops : rec[o] = "dir"
                              \/ (rec[o] = "record" /\ ~HasRow(SessionOf[o])),
     roots |-> UNION {host.issued[SessionOf[o]] :
                        o \in {x \in Ops : rec[x] = "record"
                                             /\ HasRow(SessionOf[x])}}]

(* What one reading of it yields: an unreadable state root, session row or *)
(* snapshot also defers every removal.                                     *)
ReadPending == {Pending, [Pending EXCEPT !.all = TRUE]}

(* Mutant: a pending session without a row protects nothing.               *)
MutNoDeferAll(b, pend) ==
    ~StillNeeded(b) /\ ~\E r \in pend.roots : Covers(b, r)

(* Neither an overlapping binding or lease nor pending workload coverage   *)
(* needs the boundary.                                                     *)
Unneeded(b, pend) ==
    /\ ~StillNeeded(b) /\ ~pend.all
    /\ ~\E r \in pend.roots : Covers(b, r)

(* boundaryMayBeRemoved.                                                   *)
MayBeRemoved(b, pend) == count[b] = 0 /\ Unneeded(b, pend)

(* removeOwnedBoundary, after which the pass goes on as next: the driver   *)
(* removes the boundary and its ownership row is forgotten, or something   *)
(* fails (perhaps with the rule gone) and the ownership row is retained.   *)
RemoveOwned(b, next) ==
    \/ /\ installed' = installed \ {b}
       /\ t' = [next EXCEPT !.gone = {b}]
       /\ UNCHANGED excused
    \/ /\ installed' \in {installed, installed \ {b}}
       /\ t' = next
       /\ excused' = excused \cup {b}

(* forgetBoundaryOwnership may fail too; the deferred marker goes anyway.  *)
Forget ==
    /\ t.gone # {}
    /\ \/ owner' = owner \ t.gone /\ UNCHANGED excused
       \/ excused' = excused \cup t.gone /\ UNCHANGED owner
    /\ deferred' = deferred \ t.gone
    /\ t' = [t EXCEPT !.gone = {}]
    /\ UNCHANGED <<host, rowVars, bound, binding, count, opVars, installed, bootVars>>

At(pc) == t.pc = pc /\ t.gone = {}

-----------------------------------------------------------------------------
(* CreateSessionBinding, and the repair of ReconcileLiveSessions.          *)

CreateBegin(s) ==
    /\ phase = "serving" /\ At("idle") /\ row[s] = "none"
    /\ t' = [Idle EXCEPT !.pc = "ensure", !.s = {s}, !.todo = host.issued[s]]
    /\ UNCHANGED <<host, rowVars, memVars, opVars, hostVars, bootVars, excused>>

ReconcileSession(s) ==
    /\ phase = "reconcile" /\ At("idle") /\ s \in queue
    /\ queue' = queue \ {s}
    /\ t' = [Idle EXCEPT !.pc = "ensure", !.s = {s}, !.todo = host.issued[s]]
    /\ UNCHANGED <<host, rowVars, memVars, opVars, hostVars, phase, crashes, excused>>

(* rollbackPreparedBoundaries begins; without prepared boundaries the      *)
(* transition is over.  A failure may have left a rule.  A failing startup *)
(* is a crash.                                                             *)
BeginRollback(left) ==
    /\ phase = "serving"
    /\ \E pend \in ReadPending :
          /\ t' = IF t.prep = {} THEN Idle
                  ELSE [Idle EXCEPT !.pc = "rollback", !.todo = t.prep,
                                    !.pend = pend]
          /\ excused' = excused \cup left
                           \cup (IF pend = Pending THEN {} ELSE t.prep)

Resolve(p, c) ==
    t' = [t EXCEPT !.todo = @ \ {p}, !.cov = @ \cup {c}]

(* driver.ensureCoverage (or verifyCoverage) for one issued tree: nothing  *)
(* to do, an existing boundary, a new one, or a failure that may leave a   *)
(* rule behind.                                                            *)
EnsureTree(p) ==
    /\ At("ensure") /\ p \in t.todo
    /\ \/ p \in host.home /\ Resolve(p, Coverage(p)) /\ UNCHANGED <<installed, excused>>
       \/ /\ p \notin host.home
          /\ \E b \in Present : Covers(b, p) /\ Resolve(p, Coverage(b))
          /\ UNCHANGED <<installed, excused>>
       \/ /\ p \notin host.home /\ ~\E b \in Present : Covers(b, p)
          /\ installed' = installed \cup {p}
          /\ t' = [t EXCEPT !.pc = "record", !.new = {p}, !.todo = @ \ {p}]
          /\ UNCHANGED excused
       \/ BeginRollback({}) /\ UNCHANGED installed
       \/ /\ p \notin host.home /\ ~\E b \in Present : Covers(b, p)
          /\ BeginRollback({p}) /\ installed' = installed \cup {p}
    /\ UNCHANGED <<host, rowVars, memVars, opVars, owner, bootVars>>

(* recordBoundaryOwnership; if it fails the boundary is removed, at best.  *)
RecordOwnership ==
    /\ At("record")
    /\ \/ /\ owner' = owner \cup t.new
          /\ t' = [t EXCEPT !.pc = "ensure", !.new = {}, !.prep = @ \cup t.new,
                            !.cov = @ \cup [boundary : t.new, owned : {TRUE}]]
          /\ UNCHANGED <<installed, excused>>
       \/ /\ \/ BeginRollback({}) /\ installed' = installed \ t.new
             \/ BeginRollback(t.new) /\ UNCHANGED installed
          /\ UNCHANGED owner
    /\ UNCHANGED <<host, rowVars, memVars, opVars, bootVars>>

(* Mutant: a boundary gains a consumer per issued tree.                    *)
MutBindPerTree(s) ==
    /\ bound' = bound \cup {s}
    /\ binding' = [binding EXCEPT ![s] = Normalized(t.cov)]
    /\ count' = [b \in Paths |->
                   count[b] + Cardinality({p \in host.issued[s] :
                     b \in Boundaries(Normalized(t.cov)) /\ Covers(b, p)})]
    /\ t' = Idle
    /\ UNCHANGED deferred

(* The coverage set becomes the binding and its boundaries gain a consumer.*)
Bind(s) ==
    /\ bound' = bound \cup {s}
    /\ binding' = [binding EXCEPT ![s] = Normalized(t.cov)]
    /\ count' = [b \in Paths |-> IF b \in Boundaries(Normalized(t.cov))
                                 THEN count[b] + 1 ELSE count[b]]
    /\ t' = Idle
    /\ UNCHANGED deferred

Ensured(s) == At("ensure") /\ t.todo = {} /\ s \in t.s

(* insertFn commits the session and its snapshot, fails, or commits and    *)
(* reports an error.                                                       *)
Insert(s) ==
    /\ phase = "serving" /\ Ensured(s)
    /\ \/ /\ row' = [row EXCEPT ![s] = "live"]
          /\ t' = [t EXCEPT !.pc = "bind"]
          /\ UNCHANGED excused
       \/ /\ row' \in {row, [row EXCEPT ![s] = "live"]}
          /\ BeginRollback({})
    /\ UNCHANGED <<host, deleting, memVars, opVars, hostVars, bootVars>>

CreateDone(s) ==
    /\ At("bind") /\ s \in t.s /\ Bind(s)
    /\ UNCHANGED <<host, rowVars, opVars, hostVars, bootVars, excused>>

ReconcileDone(s) ==
    /\ phase = "reconcile" /\ Ensured(s) /\ Bind(s)
    /\ UNCHANGED <<host, rowVars, opVars, hostVars, bootVars, excused>>

Rollback(b) ==
    /\ At("rollback") /\ b \in t.todo
    /\ \/ /\ MayBeRemoved(b, t.pend)
          /\ RemoveOwned(b, [t EXCEPT !.todo = @ \ {b}])
          /\ UNCHANGED deferred
       \/ /\ ~MayBeRemoved(b, t.pend)
          /\ deferred' = deferred \cup {b}
          /\ t' = [t EXCEPT !.todo = @ \ {b}]
          /\ UNCHANGED <<installed, excused>>
    /\ UNCHANGED <<host, rowVars, bound, binding, count, opVars, owner, bootVars>>

-----------------------------------------------------------------------------
(* Session deletion and expiry.                                            *)

(* deleteSessionScoped and the lifecycle mutators: the row goes first.     *)
DeleteRow(s) ==
    /\ phase = "serving" /\ HasRow(s)
    /\ row' = [row EXCEPT ![s] = "gone"]
    /\ deleting' = deleting \cup {s}
    /\ UNCHANGED <<host, memVars, opVars, hostVars, bootVars, excused, t>>

Expire(s) ==
    /\ row[s] = "live"
    /\ row' = [row EXCEPT ![s] = "expired"]
    /\ UNCHANGED <<host, deleting, memVars, opVars, hostVars, bootVars, excused, t>>

(* ReleaseSessionBinding begins.                                           *)
ReleaseBinding(s) ==
    /\ At("idle") /\ s \in deleting
    /\ deleting' = deleting \ {s}
    /\ \/ /\ s \in bound
          /\ bound' = bound \ {s}
          /\ binding' = [binding EXCEPT ![s] = {}]
          /\ t' = [Idle EXCEPT !.pc = "release", !.cov = binding[s]]
       \/ s \notin bound /\ UNCHANGED <<bound, binding, t>>
    /\ UNCHANGED <<host, row, count, deferred, opVars, hostVars, bootVars, excused>>

(* Mutant: a boundary that may not go yet is not remembered.               *)
MutNotDeferred(c) ==
    LET b == c.boundary
        next == [t EXCEPT !.cov = @ \ {c}]
    IN  /\ At("release") /\ c \in t.cov
        /\ count' = [count EXCEPT ![b] = IF @ <= 1 THEN 0 ELSE @ - 1]
        /\ \/ /\ count[b] <= 1 /\ c.owned /\ Unneeded(b, Pending)
              /\ RemoveOwned(b, next)
           \/ /\ count[b] > 1 \/ ~c.owned \/ ~Unneeded(b, Pending)
              /\ t' = next /\ UNCHANGED <<installed, excused>>
        /\ UNCHANGED <<host, rowVars, bound, binding, deferred, opVars, owner, bootVars>>

(* conditionalReleaseBoundary for one boundary of the released set.        *)
ReleaseBoundary(c) ==
    LET b == c.boundary
        next == [t EXCEPT !.cov = @ \ {c}]
    IN  /\ At("release") /\ c \in t.cov
        /\ count' = [count EXCEPT ![b] = IF @ <= 1 THEN 0 ELSE @ - 1]
        /\ \/ /\ count[b] > 1
              /\ t' = next /\ UNCHANGED <<deferred, installed, excused>>
           \/ /\ count[b] <= 1
              /\ \E pend \in ReadPending :
                    \/ /\ ~Unneeded(b, pend)
                       /\ deferred' = IF c.owned THEN deferred \cup {b} ELSE deferred
                       /\ excused' = IF pend = Pending THEN excused
                                                       ELSE excused \cup {b}
                       /\ t' = next /\ UNCHANGED installed
                    \/ /\ Unneeded(b, pend) /\ c.owned
                       /\ RemoveOwned(b, next) /\ UNCHANGED deferred
                    \/ /\ Unneeded(b, pend) /\ ~c.owned
                       /\ t' = next /\ UNCHANGED <<deferred, installed, excused>>
        /\ UNCHANGED <<host, rowVars, bound, binding, opVars, owner, bootVars>>

(* retryDeferredBoundaries begins when the released set is done ...        *)
RetryBegin ==
    /\ At("release") /\ t.cov = {}
    /\ \E pend \in ReadPending :
          /\ t' = [Idle EXCEPT !.pc = "retry", !.todo = deferred, !.pend = pend]
          /\ excused' = IF pend = Pending THEN excused ELSE excused \cup deferred
    /\ UNCHANGED <<host, rowVars, memVars, opVars, hostVars, bootVars>>

(* ... and decides on each deferred boundary anew.                         *)
Retry(b) ==
    LET next == [t EXCEPT !.todo = @ \ {b}]
    IN  /\ At("retry") /\ b \in t.todo
        /\ \/ /\ ~MayBeRemoved(b, t.pend)
              /\ t' = next /\ UNCHANGED <<deferred, installed, excused>>
           \/ /\ MayBeRemoved(b, t.pend)   \* isBoundaryOwnedByHelper fails
              /\ t' = next /\ excused' = excused \cup {b}
              /\ UNCHANGED <<deferred, installed>>
           \/ /\ MayBeRemoved(b, t.pend) /\ b \notin owner
              /\ deferred' = deferred \ {b}
              /\ t' = next /\ UNCHANGED <<installed, excused>>
           \/ /\ MayBeRemoved(b, t.pend) /\ b \in owner
              /\ RemoveOwned(b, next) /\ UNCHANGED deferred
        /\ UNCHANGED <<host, rowVars, bound, binding, count, opVars, owner, bootVars>>

(* The end of a rollback or of a retry gives c.mu back.                    *)
PassEnd ==
    /\ At("rollback") \/ At("retry")
    /\ t.todo = {}
    /\ t' = Idle
    /\ UNCHANGED <<host, rowVars, memVars, opVars, hostVars, bootVars, excused>>

-----------------------------------------------------------------------------
(* Operations: AcquireSessionUse, the workload state (see RunCleanup) and  *)
(* the release of the lease after it.                                      *)

Acquire(o) ==
    LET s == SessionOf[o]
    IN  /\ phase = "serving" /\ At("idle") /\ op[o] = "idle"
        /\ s \in bound /\ row[s] = "live"
        /\ op' = [op EXCEPT ![o] = "held"]
        /\ lease' = [lease EXCEPT ![o] = binding[s]]
        /\ count' = [b \in Paths |-> IF b \in Boundaries(binding[s])
                                     THEN count[b] + 1 ELSE count[b]]
        /\ UNCHANGED <<host, rowVars, bound, binding, deferred, rec, hostVars,
                       bootVars, excused, t>>

(* Prepare: the state directory, then the record; removed by the cleanup.  *)
WorkloadState(o) ==
    /\ op[o] = "held"
    /\ \/ rec[o] = "none" /\ rec' = [rec EXCEPT ![o] = "dir"] /\ UNCHANGED op
       \/ rec[o] = "dir" /\ rec' = [rec EXCEPT ![o] = "record"] /\ UNCHANGED op
       \/ rec' = [rec EXCEPT ![o] = "none"] /\ op' = [op EXCEPT ![o] = "cleaned"]
    /\ UNCHANGED <<host, rowVars, memVars, lease, hostVars, bootVars, excused, t>>

ReleaseLease(o) ==
    /\ At("idle") /\ op[o] = "cleaned"
    /\ op' = [op EXCEPT ![o] = "released"]
    /\ lease' = [lease EXCEPT ![o] = {}]
    /\ t' = [Idle EXCEPT !.pc = "release", !.cov = lease[o]]
    /\ UNCHANGED <<host, rowVars, memVars, rec, hostVars, bootVars, excused>>

-----------------------------------------------------------------------------
(* Crash and startup.                                                      *)

(* The daemon dies, or gives up starting after an error.                   *)
Crash ==
    /\ phase # "down" /\ crashes < host.crashes
    /\ crashes' = crashes + 1 /\ phase' = "down" /\ queue' = {}
    /\ deleting' = {} /\ bound' = {} /\ binding' = [s \in Sessions |-> {}]
    /\ count' = [b \in Paths |-> 0] /\ deferred' = {} /\ excused' = {}
    /\ op' = [o \in Ops |-> IF Leased(o) THEN "lost" ELSE op[o]]
    /\ lease' = [o \in Ops |-> {}]
    /\ t' = Idle
    /\ UNCHANGED <<host, row, rec, hostVars>>

Gone(s) == IF row[s] = "expired" THEN "gone" ELSE row[s]

(* docker-helper session cleanup, while the daemon is down.                *)
OfflineCleanup ==
    /\ phase = "down" /\ \E s \in Sessions : row[s] = "expired"
    /\ row' = [s \in Sessions |-> Gone(s)]
    /\ UNCHANGED <<host, deleting, memVars, opVars, hostVars, bootVars, excused, t>>

(* ReconcileStartup removes what it can of the workload state.             *)
ReconcileWorkloads ==
    /\ phase = "down" /\ phase' = "import"
    /\ \E done \in SUBSET {o \in Ops : rec[o] = "record"} :
          rec' = [o \in Ops |-> IF o \in done THEN "none" ELSE rec[o]]
    /\ UNCHANGED <<host, rowVars, memVars, op, lease, hostVars, crashes, queue, excused, t>>

(* importHelperOwnedBoundaries (a row may fail to be written), then the    *)
(* list of live sessions.                                                  *)
Import ==
    /\ phase = "import" /\ phase' = "reconcile"
    /\ \E rows \in SUBSET (IF host.discovers THEN installed ELSE {}) :
          /\ owner' = owner \cup rows
          /\ excused' = IF host.discovers THEN installed \ rows ELSE {}
    /\ queue' = {s \in Sessions : row[s] = "live"}
    /\ UNCHANGED <<host, rowVars, memVars, opVars, installed, crashes, t>>

(* cleanupStaleBoundaries over the ownership rows, which may be unreadable.*)
StaleBegin ==
    /\ phase = "reconcile" /\ At("idle") /\ queue = {}
    /\ \E todo \in {owner, {}}, pend \in ReadPending :
          /\ t' = [Idle EXCEPT !.pc = "stale", !.todo = todo, !.pend = pend]
          /\ excused' = IF todo = owner /\ pend = Pending
                        THEN excused ELSE excused \cup owner
    /\ UNCHANGED <<host, rowVars, memVars, opVars, hostVars, bootVars>>

Stale(b) ==
    LET next == [t EXCEPT !.todo = @ \ {b}]
    IN  /\ At("stale") /\ b \in t.todo
        /\ \/ /\ count[b] > 0
              /\ t' = next /\ UNCHANGED <<deferred, installed, excused>>
           \/ /\ count[b] = 0 /\ ~MayBeRemoved(b, t.pend)
              /\ deferred' = deferred \cup {b}
              /\ t' = next /\ UNCHANGED <<installed, excused>>
           \/ /\ MayBeRemoved(b, t.pend)
              /\ RemoveOwned(b, next) /\ UNCHANGED deferred
        /\ UNCHANGED <<host, rowVars, bound, binding, count, opVars, owner, bootVars>>

StaleEnd ==
    /\ At("stale") /\ t.todo = {}
    /\ t' = Idle /\ phase' = "expire"
    /\ UNCHANGED <<host, rowVars, memVars, opVars, hostVars, crashes, queue, excused>>

(* cleanupExpiredSessions deletes rows and nothing else; then the daemon   *)
(* serves.                                                                 *)
Serve ==
    /\ phase = "expire" /\ phase' = "serving"
    /\ row' = [s \in Sessions |-> Gone(s)]
    /\ UNCHANGED <<host, deleting, memVars, opVars, hostVars, crashes, queue, excused, t>>

-----------------------------------------------------------------------------
Next ==
    \/ \E s \in Sessions : \/ CreateBegin(s) \/ Insert(s) \/ CreateDone(s)
                           \/ DeleteRow(s) \/ Expire(s) \/ ReleaseBinding(s)
                           \/ ReconcileSession(s) \/ ReconcileDone(s)
    \/ \E b \in Paths : EnsureTree(b) \/ Rollback(b) \/ Retry(b) \/ Stale(b)
    \/ \E c \in t.cov : ReleaseBoundary(c)
    \/ \E o \in Ops : Acquire(o) \/ WorkloadState(o) \/ ReleaseLease(o)
    \/ RecordOwnership \/ Forget \/ RetryBegin \/ PassEnd
    \/ Crash \/ OfflineCleanup \/ ReconcileWorkloads \/ Import
    \/ StaleBegin \/ StaleEnd \/ Serve

Spec == Init /\ [][Next]_vars

-----------------------------------------------------------------------------
Consumers(b) ==
    Cardinality({s \in bound : b \in Boundaries(binding[s])})
    + Cardinality({o \in Ops : b \in Boundaries(lease[o])})

(* The consumer counts stay truthful: the number of bindings and leases    *)
(* that contain the boundary, plus the one being released.                 *)
CountsTruthful ==
    \A b \in Paths :
        count[b] = Consumers(b) +
            (IF t.pc = "release" /\ b \in Boundaries(t.cov) THEN 1 ELSE 0)

Reachable(p, bs) == p \in host.home \/ \E b \in bs : b \in Present /\ Covers(b, p)

(* The coverage a binding or a lease relies on is there: every issued tree *)
(* lies under a boundary of the set, and that boundary is on the host, for *)
(* as long as anyone holds the set (a deleted session's lease included).   *)
CoverageKept ==
    /\ \A s \in bound : \A p \in host.issued[s] :
          Reachable(p, Boundaries(binding[s]))
    /\ \A o \in Ops : Leased(o) =>
          \A p \in host.issued[SessionOf[o]] : Reachable(p, Boundaries(lease[o]))

(* Pending workload state keeps the MAC world it needs, with or without    *)
(* its lease and its session row, over crashes and reconciliations.        *)
PendingCovered ==
    \A o \in Ops : rec[o] # "none" =>
        \A p \in host.issued[SessionOf[o]] : Reachable(p, Paths)

(* No boundary is stranded: once the daemon serves, an owned one without   *)
(* consumers is marked for retry, and a marked one is blocked by something *)
(* whose end triggers the retry - unless a command or a read failed.       *)
NothingStranded ==
    phase = "serving" /\ t = Idle =>
        \A b \in (installed \cap owner) \ excused : count[b] = 0 =>
            /\ b \in deferred
            /\ \/ ~MayBeRemoved(b, Pending)
               \/ \E o \in Ops : Leased(o)
=============================================================================
