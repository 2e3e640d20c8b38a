--------------------------- MODULE SessionMACProofs ---------------------------
(***************************************************************************)
(* The session MAC coordinator keeps truthful counts, keeps the coverage   *)
(* of every binding, lease and pending workload, and strands no boundary:  *)
(* for every tree of paths, every set of sessions and operations, every    *)
(* kind of host and every number of crashes.                               *)
(***************************************************************************)
EXTENDS SessionMAC, FiniteSetTheorems, WellFoundedInduction, TLAPS

Ensuring == {"ensure", "record", "bind"}
Passes == {"rollback", "retry", "stale"}

(* What is on the host and not about to be taken back.                     *)
Firm == (installed \ t.new) \cup host.operator

AnyLease == \E o \in Ops : Leased(o)

(* Which transitions run in which phase of the daemon.                     *)
PhaseOK ==
    /\ phase # "serving" => deleting = {} /\ ~AnyLease
    /\ phase # "reconcile" \/ t.pc = "stale" => queue = {}
    /\ phase \in {"down", "import"} => bound = {}
    /\ phase \in {"down", "import", "expire"} => t.pc = "idle"
    /\ t.pc \in {"ensure", "record"} => phase \in {"serving", "reconcile"}
    /\ t.pc \in {"bind", "rollback", "release", "retry"} => phase = "serving"
    /\ t.pc = "stale" => phase = "reconcile"

(* What a transition holds at each of its steps.                           *)
StageOK ==
    /\ t.pc = "idle" => t = Idle
    /\ t.gone # {} => t.pc \in Passes \cup {"release"}
    /\ t.new # {} <=> t.pc = "record"
    /\ \A p, q \in t.new : p = q
    /\ t.pc \in Ensuring => \E s \in Sessions : t.s = {s}
    /\ \A s \in t.s \cup queue : s \notin bound
    /\ \A s \in t.s : s \notin queue
    /\ t.pc \in {"bind", "release"} => t.todo = {}
    /\ t.pc \in Passes => t.cov = {}

(* Sessions, their operations and what is recorded of both.                *)
RowOK ==
    /\ \A s \in Sessions : s \notin bound => binding[s] = {}
    /\ \A o \in Ops : ~Leased(o) => lease[o] = {}
    /\ \A o \in Ops : rec[o] # "none" => op[o] \in {"held", "lost"}
    /\ \A s \in bound \cup queue : row[s] # "none"
    /\ \A o \in Ops : op[o] # "idle" => row[SessionOf[o]] # "none"
    /\ \A s \in t.s : t.pc \in {"ensure", "record"} /\ phase = "serving" =>
          row[s] = "none"
    /\ \A s \in t.s : t.pc = "bind" \/ phase = "reconcile" => row[s] # "none"

Distinct(cov) == \A c, d \in cov : c.boundary = d.boundary => c = d

DistinctOK ==
    /\ \A s \in Sessions : Distinct(binding[s])
    /\ \A o \in Ops : Distinct(lease[o])
    /\ t.pc \in Ensuring \cup {"release"} => Distinct(t.cov)

(* A coverage in use names a boundary that is there, or a home tree, and   *)
(* knows whether the helper owns it.                                       *)
Known(c) == c.owned <=> c.boundary \in owner
Backed(c) == Known(c) /\ c.boundary \in Firm \cup host.home

BackedOK ==
    /\ \A s \in Sessions : \A c \in binding[s] : Backed(c)
    /\ \A o \in Ops : \A c \in lease[o] : Backed(c)
    /\ t.pc \in Ensuring => \A c \in t.cov : Backed(c)
    /\ t.pc = "release" => \A c \in t.cov : Known(c)

(* A boundary that was just removed is used by nobody.                     *)
GoneOK ==
    \A b \in t.gone :
        /\ b \notin installed /\ ~StillNeeded(b)
        /\ b \notin Boundaries(t.cov) /\ b \notin t.todo

(* Every tree visited so far is covered, by something that stays.          *)
Held(p, cov) ==
    p \in host.home \/ \E c \in cov : c.boundary \in Firm /\ Covers(c.boundary, p)

HeldOK ==
    /\ \A s \in bound : \A p \in host.issued[s] : Held(p, binding[s])
    /\ \A o \in Ops : Leased(o) => \A p \in host.issued[SessionOf[o]] : Held(p, lease[o])
    /\ t.pc \in Ensuring => \A s \in t.s : \A p \in host.issued[s] :
          p \in t.todo \cup t.new \/ Held(p, t.cov)

(* The workload state a crash left behind is covered, and the pass that    *)
(* removes boundaries knows of it.                                         *)
Lost(o) == op[o] = "lost" /\ rec[o] # "none"

PendingOK ==
    /\ \A o \in Ops : Lost(o) => \A p \in host.issued[SessionOf[o]] :
          p \in host.home \/ \E b \in Firm : Covers(b, p)
    /\ t.pc \in Passes => \A o \in Ops : Lost(o) =>
          t.pend.all \/ host.issued[SessionOf[o]] \subseteq t.pend.roots

(* A boundary the transition created is an issued tree, and the topmost.   *)
PrepOK ==
    t.pc \in Ensuring =>
        /\ t.prep \subseteq Boundaries(t.cov)
        /\ \A s \in t.s : t.prep \cup t.new \cup t.todo \subseteq host.issued[s]
        /\ t.new \subseteq installed \ host.operator
        /\ \A b \in t.prep \cup t.new :
              b \notin host.home /\ \A d \in Present : Covers(d, b) => d = b

(* The pending state a pass decides with is not weaker than the present    *)
(* one, unless a lease is held or what it has to visit is excused.         *)
Linked ==
    \/ AnyLease
    \/ /\ t.pend.all => Pending.all
       /\ Pending.all \/ t.pend.roots \subseteq Pending.roots

LinkOK ==
    /\ t.pc \in Passes => t.todo \subseteq excused \/ Linked
    /\ t.pc = "retry" => t.todo \subseteq deferred

Blocked(b) == ~MayBeRemoved(b, Pending) \/ AnyLease

(* An owned boundary is consumed, being prepared, about to be visited, or  *)
(* marked and blocked; at a release the retry is still to come.            *)
Accounted(b) ==
    \/ count[b] > 0
    \/ t.pc \in Ensuring /\ b \in t.new \cup t.prep
    \/ t.pc \in Passes /\ b \in t.todo
    \/ b \in deferred /\ (t.pc = "release" \/ Blocked(b))

StrandOK ==
    phase \in {"serving", "expire"} \/ t.pc = "stale" =>
        \A b \in (installed \cap owner) \ excused : Accounted(b)

MACInv ==
    /\ TypeOK /\ PhaseOK /\ StageOK /\ RowOK /\ DistinctOK /\ CountsTruthful
    /\ BackedOK /\ GoneOK /\ HeldOK /\ PendingOK /\ PrepOK /\ LinkOK /\ StrandOK

-----------------------------------------------------------------------------
(* What the constants are, and what the helpers return.                    *)

(* The fields of a host have their types.                                  *)
LEMMA HostType ==
    ASSUME TypeOK
    PROVE  /\ host.operator \in SUBSET Paths /\ host.home \in SUBSET Paths
           /\ host.issued \in [Sessions -> SUBSET Paths]
           /\ host.crashes \in Nat /\ host.discovers \in BOOLEAN
  BY SessionAssumption DEF TypeOK

(* Pending workload state, read or failed to be read, has its type.        *)
LEMMA PendingType ==
    ASSUME TypeOK
    PROVE  Pending \in Pendings /\ ReadPending \subseteq Pendings
<1>1. Pending.roots \subseteq Paths
  BY HostType, SessionAssumption DEF Pending
<1>2. Pending \in Pendings
  BY <1>1 DEF Pending, Pendings
<1>3. QED
  BY <1>2 DEF ReadPending, Pendings

(* Coverages name paths, and normalising a set only drops some of them.    *)
LEMMA CoverageType ==
    /\ \A cov \in SUBSET Coverages :
          Boundaries(cov) \subseteq Paths /\ Normalized(cov) \subseteq cov
    /\ \A b \in Paths : Coverage(b) \in Coverages
    /\ \A b \in Paths : [boundary |-> b, owned |-> TRUE] \in Coverages
  BY DEF Boundaries, Coverages, Normalized, Coverage

(* Boundaries on the host are paths.                                       *)
LEMMA PresentPaths ==
    ASSUME TypeOK
    PROVE  Present \subseteq Paths
  BY HostType DEF Present, TypeOK

(* No transition is a transition record.                                   *)
LEMMA IdleType == Idle \in Transitions
  BY DEF Idle, Transitions, Steps, Pendings, NoPending

(* The start of a rollback, field by field: it is over at once, or visits  *)
(* what was prepared with a reading of the pending state.                  *)
RolledBack(left) ==
    /\ phase = "serving"
    /\ t'.pc \in {"idle", "rollback"} /\ (t'.pc = "idle" => t' = Idle)
    /\ t'.todo = t.prep /\ t'.s = {} /\ t'.cov = {} /\ t'.prep = {}
    /\ t'.new = {} /\ t'.gone = {}
    /\ t'.pc = "rollback" => t'.pend \in ReadPending
    /\ excused \cup left \subseteq excused'
    /\ t'.todo \subseteq excused' \/ t'.pend = Pending

(* BeginRollback visits what the transition prepared and what it left      *)
(* behind.                                                                 *)
LEMMA RollbackBegun ==
    ASSUME TypeOK, NEW left \in SUBSET Paths, BeginRollback(left)
    PROVE  RolledBack(left) /\ t' \in Transitions /\ excused' \in SUBSET Paths
<1>1. PICK pend \in ReadPending :
          /\ t' = IF t.prep = {} THEN Idle
                  ELSE [Idle EXCEPT !.pc = "rollback", !.todo = t.prep, !.pend = pend]
          /\ excused' = excused \cup left \cup (IF pend = Pending THEN {} ELSE t.prep)
  BY DEF BeginRollback
<1>2. pend \in Pendings /\ t.prep \in SUBSET Paths
  BY PendingType DEF TypeOK, Transitions
<1>3. [Idle EXCEPT !.pc = "rollback", !.todo = t.prep, !.pend = pend] \in Transitions
  BY <1>2 DEF Idle, Transitions, Steps, Pendings
<1>4. QED
  BY <1>1, <1>2, <1>3, IdleType DEF TypeOK, BeginRollback, Idle, RolledBack

(* The ways of ensureCoverage: the tree resolves to a boundary, or gets    *)
(* one of its own, or fails, perhaps with a rule left behind.              *)
Resolved(p, b) ==
    /\ t'.pc = "ensure" /\ t'.todo = t.todo \ {p}
    /\ t'.cov = t.cov \cup {Coverage(b)} /\ t'.s = t.s /\ t'.prep = t.prep
    /\ t'.new = t.new /\ t'.gone = {}
    /\ UNCHANGED <<installed, excused>>
    /\ \/ p \in host.home /\ b = p
       \/ b \in Present /\ Covers(b, p)

Created(p) ==
    /\ t'.pc = "record" /\ t'.todo = t.todo \ {p} /\ t'.new = {p}
    /\ t'.cov = t.cov /\ t'.s = t.s /\ t'.prep = t.prep /\ t'.gone = {}
    /\ p \notin host.home /\ ~\E b \in Present : Covers(b, p)
    /\ installed' = installed \cup {p} /\ UNCHANGED excused

(* Ensuring a tree finds a boundary over it, creates one, or begins the    *)
(* rollback.                                                               *)
LEMMA EnsureTried ==
    ASSUME TypeOK, NEW p \in Paths, EnsureTree(p)
    PROVE  /\ t.pc = "ensure" /\ t.gone = {} /\ p \in t.todo
           /\ UNCHANGED <<host, rowVars, memVars, opVars, owner, bootVars>>
           /\ \/ \E b \in Paths : Resolved(p, b)
              \/ Created(p)
              \/ \E left \in SUBSET {p} :
                    RolledBack(left) /\ installed' = installed \cup left
<1>1. \A b \in Paths : Resolve(p, Coverage(b)) /\ t.pc = "ensure" /\ t.gone = {} =>
          /\ t'.pc = "ensure" /\ t'.todo = t.todo \ {p}
          /\ t'.cov = t.cov \cup {Coverage(b)} /\ t'.s = t.s /\ t'.prep = t.prep
          /\ t'.new = t.new /\ t'.gone = {}
  BY DEF Resolve, TypeOK, Transitions
<1>2. \A left \in SUBSET {p} : BeginRollback(left) => RolledBack(left)
  BY RollbackBegun
<1>3. QED
  BY <1>1, <1>2, PresentPaths
  DEF EnsureTree, At, Resolved, Created, TypeOK, Transitions

(* The ways of recordBoundaryOwnership.                                    *)
Recorded ==
    /\ owner' = owner \cup t.new
    /\ t'.pc = "ensure" /\ t'.new = {} /\ t'.prep = t.prep \cup t.new
    /\ t'.cov = t.cov \cup [boundary : t.new, owned : {TRUE}]
    /\ t'.s = t.s /\ t'.todo = t.todo /\ t'.gone = {}
    /\ UNCHANGED <<installed, excused>>

(* Recording ownership succeeds, or the new boundary is removed or left to *)
(* the rollback.                                                           *)
LEMMA RecordTried ==
    ASSUME TypeOK, RecordOwnership
    PROVE  /\ t.pc = "record" /\ t.gone = {}
           /\ UNCHANGED <<host, rowVars, memVars, opVars, bootVars>>
           /\ \/ Recorded
              \/ UNCHANGED owner /\ RolledBack({}) /\ installed' = installed \ t.new
              \/ UNCHANGED owner /\ RolledBack(t.new) /\ UNCHANGED installed
<1>1. \A left \in SUBSET Paths : BeginRollback(left) => RolledBack(left)
  BY RollbackBegun
<1>2. t.new \in SUBSET Paths
  BY DEF TypeOK, Transitions
<1>3. QED
  BY <1>1, <1>2 DEF RecordOwnership, At, Recorded, TypeOK, Transitions

(* The ways of insertFn.                                                   *)
LEMMA InsertTried ==
    ASSUME TypeOK, NEW s \in Sessions, Insert(s)
    PROVE  /\ phase = "serving" /\ t.pc = "ensure" /\ t.gone = {}
           /\ t.todo = {} /\ s \in t.s
           /\ UNCHANGED <<host, deleting, memVars, opVars, hostVars, bootVars>>
           /\ \/ /\ row' = [row EXCEPT ![s] = "live"]
                 /\ t'.pc = "bind" /\ t'.s = t.s /\ t'.todo = {} /\ t'.cov = t.cov
                 /\ t'.prep = t.prep /\ t'.new = t.new /\ t'.gone = {}
                 /\ UNCHANGED excused
              \/ /\ row' \in {row, [row EXCEPT ![s] = "live"]}
                 /\ RolledBack({})
<1>1. BeginRollback({}) => RolledBack({})
  BY RollbackBegun
<1>2. QED
  BY <1>1 DEF Insert, Ensured, At, TypeOK, Transitions

(* A removal takes the boundary away and has its row forgotten next, or    *)
(* the boundary is excused.                                                *)
LEMMA RemovalTried ==
    ASSUME TypeOK, NEW b \in Paths, NEW next \in Transitions, RemoveOwned(b, next)
    PROVE  /\ installed' \in {installed, installed \ {b}}
           /\ t' \in Transitions /\ excused' \in SUBSET Paths
           /\ excused \subseteq excused'
           /\ b \notin installed' \/ b \in excused'
           /\ t'.pc = next.pc /\ t'.s = next.s /\ t'.todo = next.todo
           /\ t'.cov = next.cov /\ t'.prep = next.prep /\ t'.pend = next.pend
           /\ t'.new = next.new
           /\ t'.gone = next.gone \/ (t'.gone = {b} /\ b \notin installed')
  BY DEF RemoveOwned, TypeOK, Transitions

(* One visit of a rollback, a retry or the startup's pass over the stale   *)
(* boundaries: only a boundary that may be removed is touched, and one     *)
(* that stays without an excuse is consumed, or marked because something   *)
(* blocks its removal.                                                     *)
Visited(b) ==
    /\ t.pc \in Passes /\ t.gone = {} /\ b \in t.todo
    /\ t'.pc = t.pc /\ t'.todo = t.todo \ {b} /\ t'.pend = t.pend
    /\ t'.s = t.s /\ t'.cov = t.cov /\ t'.prep = t.prep /\ t'.new = t.new
    /\ installed' \in {installed, installed \ {b}}
    /\ t'.gone \in {{}, {b}} /\ (t'.gone # {} => b \notin installed')
    /\ installed' # installed \/ t'.gone # {} => MayBeRemoved(b, t.pend)
    /\ excused \subseteq excused'
    /\ \A d \in Paths \ {b} : d \in deferred' <=> d \in deferred
    /\ (t.pc = "retry" => b \in deferred) /\ b \in (installed' \cap owner) \ excused' =>
          count[b] > 0 \/ (b \in deferred' /\ ~MayBeRemoved(b, t.pend))

(* Rollback, retry and the startup pass treat a boundary alike.            *)
LEMMA PassVisits ==
    ASSUME TypeOK, NEW b \in Paths, Rollback(b) \/ Retry(b) \/ Stale(b)
    PROVE  /\ Visited(b)
           /\ UNCHANGED <<host, rowVars, bound, binding, count, opVars, owner, bootVars>>
<1> SUFFICES Visited(b)
  BY DEF Rollback, Retry, Stale
<1> DEFINE next == [t EXCEPT !.todo = @ \ {b}]
<1>1. /\ next \in Transitions
      /\ next.pc = t.pc /\ next.todo = t.todo \ {b} /\ next.pend = t.pend
      /\ next.s = t.s /\ next.cov = t.cov /\ next.prep = t.prep /\ next.new = t.new
      /\ next.gone = t.gone
  BY DEF TypeOK, Transitions
<1>2. count[b] \in Nat
  BY DEF TypeOK
<1> HIDE DEF next
<1>3. /\ t.pc \in Passes /\ t.gone = {} /\ b \in t.todo
      /\ \/ /\ t' = next /\ UNCHANGED <<deferred, installed, excused>>
            /\ count[b] > 0 \/ (t.pc = "retry" /\ ~MayBeRemoved(b, t.pend))
         \/ /\ t' = next /\ excused' = excused \cup {b} /\ UNCHANGED <<deferred, installed>>
         \/ /\ t' = next /\ b \notin owner /\ deferred' = deferred \ {b}
            /\ UNCHANGED <<installed, excused>>
         \/ /\ t' = next /\ ~MayBeRemoved(b, t.pend) /\ deferred' = deferred \cup {b}
            /\ UNCHANGED <<installed, excused>>
         \/ MayBeRemoved(b, t.pend) /\ RemoveOwned(b, next) /\ UNCHANGED deferred
  BY <1>2 DEF Rollback, Retry, Stale, At, Passes, next
<1>4. CASE t' = next /\ UNCHANGED installed
  BY <1>1, <1>2, <1>3, <1>4, RemovalTried DEF Visited
<1>5. CASE MayBeRemoved(b, t.pend) /\ RemoveOwned(b, next) /\ UNCHANGED deferred
  BY <1>1, <1>3, <1>5, RemovalTried DEF Visited
<1>6. QED
  BY <1>3, <1>4, <1>5

(* conditionalReleaseBoundary for one coverage of the released set.        *)
Dropped(c) ==
    LET b == c.boundary IN
    /\ t.pc = "release" /\ t.gone = {} /\ c \in t.cov
    /\ t'.pc = "release" /\ t'.cov = t.cov \ {c}
    /\ t'.s = t.s /\ t'.todo = t.todo /\ t'.prep = t.prep /\ t'.new = t.new
    /\ count' = [count EXCEPT ![b] = IF @ <= 1 THEN 0 ELSE @ - 1]
    /\ installed' \in {installed, installed \ {b}}
    /\ t'.gone \in {{}, {b}} /\ (t'.gone # {} => b \notin installed')
    /\ installed' # installed \/ t'.gone # {} => count[b] <= 1 /\ Unneeded(b, Pending)
    /\ excused \subseteq excused' /\ deferred \subseteq deferred'
    /\ c.owned /\ b \in installed' \ excused' => count[b] > 1 \/ b \in deferred'

(* Releasing one coverage lowers one count and removes, defers or leaves   *)
(* the boundary.                                                           *)
LEMMA ReleaseDrops ==
    ASSUME TypeOK, NEW c \in t.cov, ReleaseBoundary(c)
    PROVE  /\ Dropped(c) /\ c.boundary \in Paths
           /\ UNCHANGED <<host, rowVars, bound, binding, opVars, owner, bootVars>>
<1>0. c.boundary \in Paths
  BY DEF TypeOK, Transitions, Coverages
<1> SUFFICES Dropped(c)
  BY <1>0 DEF ReleaseBoundary
<1> DEFINE b == c.boundary
           next == [t EXCEPT !.cov = @ \ {c}]
<1>1. /\ next \in Transitions
      /\ next.pc = t.pc /\ next.cov = t.cov \ {c} /\ next.gone = t.gone
      /\ next.s = t.s /\ next.todo = t.todo /\ next.prep = t.prep /\ next.new = t.new
  BY DEF TypeOK, Transitions
<1>2. b \in Paths /\ count[b] \in Nat
  BY <1>0 DEF TypeOK
<1>3. \A pend \in ReadPending : Unneeded(b, pend) => pend = Pending
  BY DEF ReadPending, Unneeded, Pending
<1> HIDE DEF next
<1>4. /\ t.pc = "release" /\ t.gone = {}
      /\ \/ count[b] > 1 /\ t' = next /\ UNCHANGED <<deferred, installed, excused>>
         \/ /\ count[b] <= 1 /\ ~c.owned /\ t' = next
            /\ excused \subseteq excused' /\ UNCHANGED <<deferred, installed>>
         \/ /\ count[b] <= 1 /\ c.owned /\ t' = next /\ deferred' = deferred \cup {b}
            /\ excused \subseteq excused' /\ UNCHANGED installed
         \/ /\ count[b] <= 1 /\ c.owned /\ Unneeded(b, Pending)
            /\ RemoveOwned(b, next) /\ UNCHANGED deferred
  BY <1>3 DEF ReleaseBoundary, At, next
<1>5. count' = [count EXCEPT ![b] = IF @ <= 1 THEN 0 ELSE @ - 1]
  BY DEF ReleaseBoundary
<1>6. CASE t' = next /\ UNCHANGED installed
  BY <1>1, <1>2, <1>4, <1>5, <1>6, RemovalTried DEF Dropped
<1>7. CASE /\ count[b] <= 1 /\ c.owned /\ Unneeded(b, Pending)
           /\ RemoveOwned(b, next) /\ UNCHANGED deferred
  BY <1>1, <1>2, <1>4, <1>5, <1>7, RemovalTried DEF Dropped
<1>8. QED
  BY <1>2, <1>4, <1>6, <1>7 DEF ReleaseBoundary

(* The need for a boundary depends on the bindings and the leases alone.   *)
LEMMA NeedKept ==
    ASSUME UNCHANGED <<bound, binding, lease>>,
           \A o \in Ops : Leased(o)' <=> Leased(o)
    PROVE  \A b : StillNeeded(b)' <=> StillNeeded(b)
  BY DEF StillNeeded, Overlap, Covers

(* Leases are a matter of the operations' states only.                     *)
LEMMA LeasesKept ==
    ASSUME UNCHANGED op
    PROVE  (\A o \in Ops : Leased(o)' <=> Leased(o)) /\ (AnyLease' <=> AnyLease)
  BY DEF Leased, AnyLease

(* Nothing in use is a boundary that may be removed.                       *)
LEMMA UnusedBoundary ==
    ASSUME TypeOK, RowOK, NEW b \in Paths, ~StillNeeded(b)
    PROVE  /\ \A s \in Sessions : \A c \in binding[s] : c.boundary # b
           /\ \A o \in Ops : \A c \in lease[o] : c.boundary # b
  BY PathAssumption DEF StillNeeded, Overlap, Covers, RowOK, TypeOK, Coverages

(* What was just created is in no coverage set yet.                        *)
LEMMA NewUnused ==
    ASSUME MACInv
    PROVE  \A b \in t.new :
              /\ b \notin Firm \cup host.home
              /\ \A s \in Sessions : \A c \in binding[s] : c.boundary # b
              /\ \A o \in Ops : \A c \in lease[o] : c.boundary # b
              /\ \A c \in t.cov : c.boundary # b
  BY DEF MACInv, StageOK, PrepOK, Ensuring, BackedOK, Backed, Firm

(* A coverage stays backed while firm boundaries stay.                     *)
LEMMA BackedKept ==
    ASSUME UNCHANGED <<host, owner>>, Firm \subseteq Firm', NEW c, Backed(c)
    PROVE  Backed(c)'
  BY DEF Backed, Known

(* A reading of the pending state knows of all workload state.             *)
LEMMA PendingKnows ==
    ASSUME TypeOK
    PROVE  \A pend \in ReadPending, o \in Ops : rec[o] # "none" =>
              pend.all \/ host.issued[SessionOf[o]] \subseteq pend.roots
<1>1. \A o \in Ops : rec[o] # "none" =>
          Pending.all \/ host.issued[SessionOf[o]] \subseteq Pending.roots
  BY DEF Pending, TypeOK
<1>2. \A pend \in ReadPending : pend.roots = Pending.roots /\ (Pending.all => pend.all)
  BY DEF ReadPending, Pending
<1>3. QED
  BY <1>1, <1>2

(* normalizeCoverageSet keeps what the set covers: a topmost boundary of   *)
(* the set covers whatever lies below it.                                  *)
LEMMA NormalizedHolds ==
    ASSUME MACInv, t.pc \in Ensuring, NEW p \in Paths, Held(p, t.cov)
    PROVE  Held(p, Normalized(t.cov))
<1>1. CASE p \in host.home
  BY <1>1 DEF Held
<1>2. CASE p \notin host.home
  <2>1. PICK c \in t.cov : c.boundary \in Firm /\ Covers(c.boundary, p)
    BY <1>2 DEF Held
  <2> DEFINE Above(q) == {x \in Paths : Covers(x, q)}
             Chain == {d \in t.cov : Covers(d.boundary, c.boundary)}
             T == {Above(d.boundary) : d \in Chain}
  <2>2. \A d \in t.cov : d.boundary \in Paths
    BY DEF MACInv, TypeOK, Transitions, Coverages
  <2>3. c \in Chain
    BY <2>1, <2>2, PathAssumption DEF Covers
  <2>4. T \subseteq FiniteSubsetsOf(Paths)
    <3>1. ASSUME NEW q \in Paths PROVE Above(q) \in FiniteSubsetsOf(Paths)
      <4>1. IsFiniteSet(Above(q))
        BY PathAssumption, Zenon DEF Covers
      <4>2. QED
        BY <4>1 DEF FiniteSubsetsOf
    <3>2. QED
      BY <2>2, <3>1
  <2>5. PICK m \in T : \A y \in T : <<y, m>> \notin StrictSubsetOrdering(Paths)
    <3>1. T # {}
      BY <2>3
    <3>2. QED
      BY <2>4, <3>1, FS_StrictSubsetOrderingWellFounded, WFMin
  <2>6. PICK d \in Chain : m = Above(d.boundary)
    OBVIOUS
  <2>7. ASSUME NEW e \in t.cov, Covers(e.boundary, d.boundary) PROVE e = d
    <3>1. e \in Chain /\ Above(e.boundary) \subseteq Above(d.boundary)
      BY <2>1, <2>2, <2>7, PathAssumption DEF Covers
    <3>2. Above(e.boundary) = Above(d.boundary)
      <4>1. Above(e.boundary) \in T /\ Above(d.boundary) \in SUBSET Paths
        BY <3>1
      <4>2. <<Above(e.boundary), m>> \notin StrictSubsetOrdering(Paths)
        BY <2>5, <4>1
      <4> HIDE DEF Above
      <4>3. QED
        BY <2>6, <3>1, <4>1, <4>2 DEF StrictSubsetOrdering
    <3>3. d.boundary = e.boundary
      BY <2>2, <2>7, <3>2, PathAssumption DEF Covers
    <3>4. QED
      BY <3>3 DEF MACInv, DistinctOK, Distinct
  <2>8. d \in Normalized(t.cov)
    BY <2>7 DEF Normalized
  <2>9. Covers(d.boundary, p)
    BY <2>1, <2>2, PathAssumption DEF Covers
  <2>10. d.boundary \in Firm
    BY <1>2, <2>2, <2>9, HostAssumption DEF MACInv, TypeOK, BackedOK, Backed, Covers
  <2>11. QED
    BY <2>8, <2>9, <2>10 DEF Held
<1>3. QED
  BY <1>1, <1>2

(* A boundary that can go is used by nobody: no binding, no lease, no      *)
(* workload state that a crash left behind.                                *)
Removable(b) ==
    /\ ~StillNeeded(b)
    /\ \A o \in Ops : Lost(o) => \A p \in host.issued[SessionOf[o]] : ~Covers(b, p)
FirmSafe == UNCHANGED host /\ \A b \in Firm : b \in Firm' \/ Removable(b)

(* Only boundaries that nobody uses ever go.                                *)
LEMMA StepFirmSafe ==
    ASSUME MACInv, [Next]_vars
    PROVE  FirmSafe
<1>1. ASSUME NEW s \in Sessions, CreateBegin(s) PROVE FirmSafe
  BY <1>1 DEF FirmSafe, Firm, CreateBegin, Idle, hostVars
<1>2. ASSUME NEW s \in Sessions, Insert(s) PROVE FirmSafe
  BY <1>2, InsertTried DEF MACInv, FirmSafe, Firm, RolledBack, hostVars
<1>3. ASSUME NEW s \in Sessions, CreateDone(s) PROVE FirmSafe
  BY <1>3 DEF FirmSafe, Firm, CreateDone, Bind, Idle, hostVars
<1>4. ASSUME NEW s \in Sessions, DeleteRow(s) PROVE FirmSafe
  BY <1>4 DEF FirmSafe, Firm, DeleteRow, hostVars
<1>5. ASSUME NEW s \in Sessions, Expire(s) PROVE FirmSafe
  BY <1>5 DEF FirmSafe, Firm, Expire, hostVars
<1>6. ASSUME NEW s \in Sessions, ReleaseBinding(s) PROVE FirmSafe
  <2>1. t.new = {} /\ [Idle EXCEPT !.pc = "release", !.cov = binding[s]].new = {}
    BY <1>6 DEF ReleaseBinding, At, MACInv, StageOK
  <2>2. QED
    BY <1>6, <2>1 DEF ReleaseBinding, FirmSafe, Firm, hostVars
<1>7. ASSUME NEW s \in Sessions, ReconcileSession(s) PROVE FirmSafe
  BY <1>7 DEF FirmSafe, Firm, ReconcileSession, Idle, hostVars
<1>8. ASSUME NEW s \in Sessions, ReconcileDone(s) PROVE FirmSafe
  BY <1>8 DEF FirmSafe, Firm, ReconcileDone, Bind, Idle, hostVars
<1>9. ASSUME NEW b \in Paths, EnsureTree(b) PROVE FirmSafe
  <2>1. t.new = {} /\ UNCHANGED host
    BY <1>9, EnsureTried DEF MACInv, StageOK
  <2>2. Firm \subseteq Firm'
    <3>1. ASSUME NEW r \in Paths, Resolved(b, r) PROVE Firm \subseteq Firm'
      BY <2>1, <3>1 DEF Resolved, Firm
    <3>2. CASE Created(b)
      BY <2>1, <3>2, PathAssumption DEF Created, Firm, Present, Covers
    <3>3. ASSUME NEW left \in SUBSET {b}, RolledBack(left), installed' = installed \cup left
          PROVE  Firm \subseteq Firm'
      BY <2>1, <3>3 DEF RolledBack, Firm
    <3>4. QED
      BY <1>9, <3>1, <3>2, <3>3, EnsureTried DEF MACInv
  <2>3. QED
    BY <2>1, <2>2 DEF FirmSafe
<1>10. ASSUME NEW b \in Paths, Rollback(b) \/ Retry(b) \/ Stale(b) PROVE FirmSafe
  <2>1. Visited(b) /\ UNCHANGED <<host, owner>>
    BY <1>10, PassVisits DEF MACInv
  <2>2. MayBeRemoved(b, t.pend) => Removable(b)
    BY <2>1 DEF Visited, MayBeRemoved, Unneeded, Removable, MACInv, PendingOK
  <2>3. QED
    BY <2>1, <2>2 DEF Visited, FirmSafe, Firm
<1>11. ASSUME NEW c \in t.cov, ReleaseBoundary(c) PROVE FirmSafe
  <2>1. Dropped(c) /\ UNCHANGED host
    BY <1>11, ReleaseDrops DEF MACInv
  <2>2. Pending \in ReadPending
    BY DEF ReadPending
  <2>3. Unneeded(c.boundary, Pending) => Removable(c.boundary)
    BY <2>2, PendingKnows DEF Unneeded, Removable, Lost, MACInv
  <2>4. QED
    BY <2>1, <2>3 DEF Dropped, FirmSafe, Firm
<1>12. ASSUME NEW o \in Ops, Acquire(o) PROVE FirmSafe
  BY <1>12 DEF FirmSafe, Firm, Acquire, hostVars
<1>13. ASSUME NEW o \in Ops, WorkloadState(o) PROVE FirmSafe
  BY <1>13 DEF FirmSafe, Firm, WorkloadState, hostVars
<1>14. ASSUME NEW o \in Ops, ReleaseLease(o) PROVE FirmSafe
  BY <1>14 DEF FirmSafe, Firm, ReleaseLease, Idle, hostVars
<1>15. CASE RecordOwnership
  BY <1>15, RecordTried DEF MACInv, FirmSafe, Firm, Recorded, RolledBack
<1>16. CASE Forget
  BY <1>16 DEF FirmSafe, Firm, Forget
<1>17. CASE RetryBegin
  BY <1>17 DEF FirmSafe, Firm, RetryBegin, Idle, hostVars
<1>18. CASE PassEnd
  BY <1>18 DEF FirmSafe, Firm, PassEnd, Idle, hostVars
<1>19. CASE Crash
  BY <1>19 DEF FirmSafe, Firm, Crash, Idle, hostVars
<1>20. CASE OfflineCleanup
  BY <1>20 DEF FirmSafe, Firm, OfflineCleanup, hostVars
<1>21. CASE ReconcileWorkloads
  BY <1>21 DEF FirmSafe, Firm, ReconcileWorkloads, hostVars
<1>22. CASE Import
  BY <1>22 DEF FirmSafe, Firm, Import
<1>23. CASE StaleBegin
  BY <1>23 DEF FirmSafe, Firm, StaleBegin, Idle, hostVars
<1>24. CASE StaleEnd
  BY <1>24 DEF FirmSafe, Firm, StaleEnd, Idle, hostVars
<1>25. CASE Serve
  BY <1>25 DEF FirmSafe, Firm, Serve, hostVars
<1>26. CASE UNCHANGED vars
  BY <1>26 DEF FirmSafe, Firm, vars, hostVars
<1>27. QED
  BY <1>1, <1>2, <1>3, <1>4, <1>5, <1>6, <1>7, <1>8, <1>9, <1>10, <1>11, <1>12, <1>13,
     <1>14, <1>15, <1>16, <1>17, <1>18, <1>19, <1>20, <1>21, <1>22, <1>23, <1>24, <1>25,
     <1>26
  DEF Next

(* No step takes a boundary away beneath a binding or a lease.             *)
LEMMA HeldStays ==
    ASSUME MACInv, [Next]_vars
    PROVE  /\ UNCHANGED host
           /\ \A s \in bound : \A p \in host.issued[s] :
                 p \in host.home
                   \/ \E c \in binding[s] : c.boundary \in Firm' /\ Covers(c.boundary, p)
           /\ \A o \in Ops : Leased(o) => \A p \in host.issued[SessionOf[o]] :
                 p \in host.home
                   \/ \E c \in lease[o] : c.boundary \in Firm' /\ Covers(c.boundary, p)
<1>1. UNCHANGED host /\ \A b \in Firm : b \in Firm' \/ ~StillNeeded(b)
  BY StepFirmSafe DEF FirmSafe, Removable
<1>2. Firm \subseteq Paths
  BY HostType DEF MACInv, TypeOK, Firm
<1>3. QED
  BY <1>1, <1>2, UnusedBoundary DEF MACInv, TypeOK, HeldOK, Held

(* The consumers of a boundary, as the counts see them.                    *)
BoundTo(b) == {s \in bound : b \in Boundaries(binding[s])}
LeasedTo(b) == {o \in Ops : b \in Boundaries(lease[o])}
Dropping(b) == t.pc = "release" /\ b \in Boundaries(t.cov)

(* A boundary has finitely many consumers.                                 *)
LEMMA ConsumerSets ==
    ASSUME TypeOK, NEW b
    PROVE  /\ IsFiniteSet(BoundTo(b)) /\ Cardinality(BoundTo(b)) \in Nat
           /\ IsFiniteSet(LeasedTo(b)) /\ Cardinality(LeasedTo(b)) \in Nat
<1>1. BoundTo(b) \subseteq Sessions /\ LeasedTo(b) \subseteq Ops
  BY DEF BoundTo, LeasedTo, TypeOK
<1>2. QED
  BY <1>1, SessionAssumption, FS_Subset, FS_CardinalityType

CountIs(b) ==
    count[b] = Cardinality(BoundTo(b)) + Cardinality(LeasedTo(b))
                 + (IF Dropping(b) THEN 1 ELSE 0)

(* CountsTruthful, boundary by boundary, before and after a step.          *)
LEMMA CountForm ==
    /\ CountsTruthful <=> \A b \in Paths : CountIs(b)
    /\ CountsTruthful' <=> \A b \in Paths : CountIs(b)'
  BY DEF CountsTruthful, Consumers, CountIs, BoundTo, LeasedTo, Dropping

(* The counts stay truthful when consumers and release stay.               *)
LEMMA CountsKept ==
    ASSUME CountsTruthful, UNCHANGED <<bound, binding, lease, count>>,
           \A b \in Paths : Dropping(b)' <=> Dropping(b)
    PROVE  CountsTruthful'
<1>1. ASSUME NEW b \in Paths
      PROVE  BoundTo(b)' = BoundTo(b) /\ LeasedTo(b)' = LeasedTo(b)
  BY DEF BoundTo, LeasedTo, Boundaries
<1>2. QED
  BY <1>1 DEF CountsTruthful, Consumers, BoundTo, LeasedTo, Dropping

(* The pending state only gets stronger while no lease is held.            *)
Steady ==
    \/ AnyLease'
    \/ /\ ~AnyLease
       /\ Pending.all => Pending.all'
       /\ Pending.all' \/ Pending.roots \subseteq Pending.roots'

(* Deleting rows only adds to the pending state: its session is not known  *)
(* any more.                                                               *)
LEMMA RowsSteady ==
    ASSUME MACInv, UNCHANGED <<host, op, rec>>,
           \A o \in Ops : rec[o] # "none" /\ HasRow(SessionOf[o])' => HasRow(SessionOf[o])
    PROVE  Steady
<1>1. AnyLease' <=> AnyLease
  BY LeasesKept
<1>2. Pending.all => Pending.all'
  BY DEF Pending, HasRow
<1>3. Pending.all' \/ Pending.roots \subseteq Pending.roots'
  BY DEF Pending, HasRow, MACInv, TypeOK
<1>4. QED
  BY <1>1, <1>2, <1>3 DEF Steady

(* What blocks a removal goes on blocking it while its reason stays.       *)
LEMMA BlockedKept ==
    ASSUME Steady, NEW b, Blocked(b), StillNeeded(b) => StillNeeded(b)',
           count[b] # 0 => count'[b] # 0
    PROVE  Blocked(b)'
  BY DEF Steady, Blocked, MayBeRemoved, Unneeded, Covers

(* What a pass must not remove is blocked.                                 *)
LEMMA LinkBlocks ==
    ASSUME Linked, NEW b, ~MayBeRemoved(b, t.pend)
    PROVE  Blocked(b)
  BY DEF Linked, Blocked, MayBeRemoved, Unneeded

(* A pass goes on deciding with pending state that is not weaker than the  *)
(* present one.                                                            *)
LEMMA LinkKept ==
    ASSUME Linked \/ t'.pend = Pending, Steady, t'.pend = t.pend \/ t'.pend = Pending
    PROVE  Linked'
  BY DEF Linked, Steady

(* Nothing that was prepared is normalized away: what was created is the   *)
(* topmost boundary over its tree, and no home tree lies above it.         *)
LEMMA PreparedBound ==
    ASSUME MACInv, t.pc \in Ensuring, NEW b \in t.prep
    PROVE  b \in Boundaries(Normalized(t.cov))
<1>1. PICK c \in t.cov : c.boundary = b
  BY DEF MACInv, PrepOK, Boundaries
<1>2. b \in Paths /\ \A d \in t.cov : d.boundary \in Paths
  BY DEF MACInv, TypeOK, Transitions, Coverages
<1>3. ASSUME NEW d \in t.cov, Covers(d.boundary, c.boundary) PROVE d = c
  <2>1. d.boundary \in Present \cup host.home
    BY DEF MACInv, BackedOK, Backed, Firm, Present
  <2>2. d.boundary \notin host.home
    BY <1>1, <1>2, <1>3, HostAssumption DEF MACInv, TypeOK, PrepOK, Covers
  <2>3. d.boundary = c.boundary
    BY <1>1, <1>3, <2>1, <2>2 DEF MACInv, PrepOK
  <2>4. QED
    BY <2>3 DEF MACInv, DistinctOK, Distinct
<1>4. QED
  BY <1>1, <1>3 DEF Normalized, Boundaries

(* Every step keeps the types.                                             *)
LEMMA StepTypeOK ==
    ASSUME MACInv, [Next]_vars
    PROVE  TypeOK'
<1>1. ASSUME NEW s \in Sessions, CreateBegin(s) PROVE TypeOK'
  <2>1. t' \in Transitions
    BY <1>1, HostType
    DEF CreateBegin, MACInv, Transitions, Steps, Idle, Pendings, NoPending
  <2>2. QED
    BY <1>1, <2>1
    DEF CreateBegin, MACInv, TypeOK, rowVars, memVars, opVars, hostVars, bootVars
<1>2. ASSUME NEW s \in Sessions, Insert(s) PROVE TypeOK'
  <2>1. BeginRollback({}) => t' \in Transitions /\ excused' \in SUBSET Paths
    BY RollbackBegun DEF MACInv
  <2>2. t' \in Transitions /\ excused' \in SUBSET Paths
    BY <1>2, <2>1 DEF Insert, MACInv, TypeOK, Transitions, Steps
  <2>3. QED
    BY <1>2, <2>2 DEF Insert, MACInv, TypeOK, memVars, opVars, hostVars, bootVars
<1>3. ASSUME NEW s \in Sessions, CreateDone(s) PROVE TypeOK'
  <2>1. Normalized(t.cov) \in SUBSET Coverages
    BY CoverageType DEF MACInv, TypeOK, Transitions
  <2>2. QED
    BY <1>3, <2>1, IdleType
    DEF CreateDone, Bind, MACInv, TypeOK, rowVars, opVars, hostVars, bootVars
<1>4. ASSUME NEW s \in Sessions, DeleteRow(s) PROVE TypeOK'
  BY <1>4, SessionAssumption
  DEF MACInv, TypeOK, DeleteRow, memVars, opVars, hostVars, bootVars
<1>5. ASSUME NEW s \in Sessions, Expire(s) PROVE TypeOK'
  BY <1>5, SessionAssumption
  DEF MACInv, TypeOK, Expire, memVars, opVars, hostVars, bootVars
<1>6. ASSUME NEW s \in Sessions, ReleaseBinding(s) PROVE TypeOK'
  <2>1. t' \in Transitions
    <3>1. [Idle EXCEPT !.pc = "release", !.cov = binding[s]] \in Transitions
      BY DEF MACInv, TypeOK, Transitions, Steps, Idle, Pendings, NoPending
    <3>2. QED
      BY <1>6, <3>1 DEF ReleaseBinding, MACInv, TypeOK
  <2>2. QED
    BY <1>6, <2>1 DEF ReleaseBinding, MACInv, TypeOK, opVars, hostVars, bootVars
<1>7. ASSUME NEW s \in Sessions, ReconcileSession(s) PROVE TypeOK'
  <2>1. t' \in Transitions
    BY <1>7, HostType
    DEF ReconcileSession, MACInv, Transitions, Steps, Idle, Pendings, NoPending
  <2>2. QED
    BY <1>7, <2>1 DEF ReconcileSession, MACInv, TypeOK, rowVars, memVars, opVars, hostVars
<1>8. ASSUME NEW s \in Sessions, ReconcileDone(s) PROVE TypeOK'
  <2>1. Normalized(t.cov) \in SUBSET Coverages
    BY CoverageType DEF MACInv, TypeOK, Transitions
  <2>2. QED
    BY <1>8, <2>1, IdleType
    DEF ReconcileDone, Bind, MACInv, TypeOK, rowVars, opVars, hostVars, bootVars
<1>9. ASSUME NEW b \in Paths, EnsureTree(b) PROVE TypeOK'
  <2>1. \A left \in SUBSET Paths : BeginRollback(left) =>
            t' \in Transitions /\ excused' \in SUBSET Paths
    BY RollbackBegun DEF MACInv
  <2>2. \A c \in Coverages : Resolve(b, c) => t' \in Transitions
    <3>1. \A c \in Coverages : [t EXCEPT !.todo = @ \ {b}, !.cov = @ \cup {c}] \in Transitions
      BY DEF MACInv, TypeOK, Transitions
    <3>2. QED
      BY <3>1 DEF Resolve
  <2>3. [t EXCEPT !.pc = "record", !.new = {b}, !.todo = @ \ {b}] \in Transitions
    BY DEF MACInv, TypeOK, Transitions, Steps
  <2>4. t' \in Transitions /\ excused' \in SUBSET Paths /\ installed' \in SUBSET Paths
    BY <1>9, <2>1, <2>2, <2>3, CoverageType, PresentPaths DEF EnsureTree, MACInv, TypeOK
  <2>5. QED
    BY <1>9, <2>4 DEF EnsureTree, MACInv, TypeOK, rowVars, memVars, opVars, bootVars
<1>10. ASSUME NEW b \in Paths, Rollback(b) \/ Retry(b) \/ Stale(b) PROVE TypeOK'
  <2>1. [t EXCEPT !.todo = @ \ {b}] \in Transitions
    BY DEF MACInv, TypeOK, Transitions
  <2>2. /\ t' \in Transitions /\ excused' \in SUBSET Paths
        /\ installed' \in SUBSET Paths /\ deferred' \in SUBSET Paths
    BY <1>10, <2>1, RemovalTried DEF Rollback, Retry, Stale, MACInv, TypeOK
  <2>3. QED
    BY <1>10, <2>2 DEF Rollback, Retry, Stale, MACInv, TypeOK, rowVars, opVars, bootVars
<1>11. ASSUME NEW c \in t.cov, ReleaseBoundary(c) PROVE TypeOK'
  <2>1. [t EXCEPT !.cov = @ \ {c}] \in Transitions /\ c.boundary \in Paths
    BY DEF MACInv, TypeOK, Transitions, Coverages
  <2>2. /\ t' \in Transitions /\ excused' \in SUBSET Paths
        /\ installed' \in SUBSET Paths /\ deferred' \in SUBSET Paths
    <3>1. TypeOK
      BY DEF MACInv
    <3>2. CASE RemoveOwned(c.boundary, [t EXCEPT !.cov = @ \ {c}]) /\ UNCHANGED deferred
      BY <2>1, <3>1, <3>2, RemovalTried DEF TypeOK
    <3>3. CASE ~(RemoveOwned(c.boundary, [t EXCEPT !.cov = @ \ {c}]) /\ UNCHANGED deferred)
      BY <1>11, <2>1, <3>1, <3>3 DEF ReleaseBoundary, TypeOK
    <3>4. QED
      BY <3>2, <3>3
  <2>3. count' \in [Paths -> Nat]
    BY <1>11, <2>1 DEF ReleaseBoundary, MACInv, TypeOK
  <2>4. QED
    BY <1>11, <2>2, <2>3 DEF ReleaseBoundary, MACInv, TypeOK, rowVars, opVars, bootVars
<1>12. ASSUME NEW o \in Ops, Acquire(o) PROVE TypeOK'
  BY <1>12, CoverageType DEF Acquire, MACInv, TypeOK, rowVars, hostVars, bootVars
<1>13. ASSUME NEW o \in Ops, WorkloadState(o) PROVE TypeOK'
  BY <1>13, SessionAssumption
  DEF MACInv, TypeOK, WorkloadState, rowVars, memVars, hostVars, bootVars
<1>14. ASSUME NEW o \in Ops, ReleaseLease(o) PROVE TypeOK'
  <2>1. t' \in Transitions
    BY <1>14
    DEF ReleaseLease, MACInv, TypeOK, Transitions, Steps, Idle, Pendings, NoPending
  <2>2. QED
    BY <1>14, <2>1 DEF ReleaseLease, MACInv, TypeOK, rowVars, memVars, hostVars, bootVars
<1>15. CASE RecordOwnership
  <2>1. \A left \in SUBSET Paths : BeginRollback(left) =>
            t' \in Transitions /\ excused' \in SUBSET Paths
    BY RollbackBegun DEF MACInv
  <2>2. t.new \in SUBSET Paths /\ [boundary : t.new, owned : {TRUE}] \in SUBSET Coverages
    BY DEF MACInv, TypeOK, Transitions, Coverages
  <2>3. [t EXCEPT !.pc = "ensure", !.new = {}, !.prep = @ \cup t.new,
                  !.cov = @ \cup [boundary : t.new, owned : {TRUE}]] \in Transitions
    BY <2>2 DEF MACInv, TypeOK, Transitions, Steps
  <2>4. /\ t' \in Transitions /\ excused' \in SUBSET Paths
        /\ installed' \in SUBSET Paths /\ owner' \in SUBSET Paths
    BY <1>15, <2>1, <2>2, <2>3 DEF RecordOwnership, MACInv, TypeOK
  <2>5. QED
    BY <1>15, <2>4 DEF RecordOwnership, MACInv, TypeOK, rowVars, memVars, opVars, bootVars
<1>16. CASE Forget
  BY <1>16 DEF Forget, MACInv, TypeOK, Transitions, rowVars, opVars, bootVars
<1>17. CASE RetryBegin
  <2>1. t' \in Transitions /\ excused' \in SUBSET Paths
    BY <1>17, PendingType DEF RetryBegin, MACInv, TypeOK, Transitions, Steps, Idle
  <2>2. QED
    BY <1>17, <2>1
    DEF RetryBegin, MACInv, TypeOK, rowVars, memVars, opVars, hostVars, bootVars
<1>18. CASE PassEnd
  BY <1>18, IdleType
  DEF PassEnd, MACInv, TypeOK, rowVars, memVars, opVars, hostVars, bootVars
<1>19. CASE Crash
  BY <1>19, HostType, IdleType DEF Crash, MACInv, TypeOK, hostVars
<1>20. CASE OfflineCleanup
  BY <1>20 DEF OfflineCleanup, Gone, MACInv, TypeOK, memVars, opVars, hostVars, bootVars
<1>21. CASE ReconcileWorkloads
  BY <1>21, SessionAssumption
  DEF MACInv, TypeOK, ReconcileWorkloads, rowVars, memVars, hostVars
<1>22. CASE Import
  BY <1>22, SessionAssumption DEF MACInv, TypeOK, Import, rowVars, memVars, opVars
<1>23. CASE StaleBegin
  <2>1. t' \in Transitions /\ excused' \in SUBSET Paths
    <3>1. \A todo \in SUBSET Paths, pend \in Pendings :
              [Idle EXCEPT !.pc = "stale", !.todo = todo, !.pend = pend] \in Transitions
      BY DEF Transitions, Steps, Idle
    <3>2. PICK todo \in {owner, {}}, pend \in ReadPending :
              /\ t' = [Idle EXCEPT !.pc = "stale", !.todo = todo, !.pend = pend]
              /\ excused' = IF todo = owner /\ pend = Pending
                            THEN excused ELSE excused \cup owner
      BY <1>23 DEF StaleBegin
    <3>3. pend \in Pendings /\ todo \in SUBSET Paths
      BY PendingType DEF MACInv, TypeOK
    <3>4. QED
      BY <3>1, <3>2, <3>3 DEF MACInv, TypeOK
  <2>2. QED
    BY <1>23, <2>1
    DEF StaleBegin, MACInv, TypeOK, rowVars, memVars, opVars, hostVars, bootVars
<1>24. CASE StaleEnd
  BY <1>24, IdleType DEF StaleEnd, MACInv, TypeOK, rowVars, memVars, opVars, hostVars
<1>25. CASE Serve
  BY <1>25 DEF Serve, Gone, MACInv, TypeOK, memVars, opVars, hostVars
<1>26. CASE UNCHANGED vars
  BY <1>26, SessionAssumption
  DEF MACInv, TypeOK, vars, rowVars, memVars, opVars, hostVars, bootVars
<1>27. QED
  BY <1>1, <1>2, <1>3, <1>4, <1>5, <1>6, <1>7, <1>8, <1>9, <1>10, <1>11, <1>12, <1>13,
     <1>14, <1>15, <1>16, <1>17, <1>18, <1>19, <1>20, <1>21, <1>22, <1>23, <1>24, <1>25,
     <1>26
  DEF Next

(* Transitions run only in the phases of the daemon that allow them.       *)
LEMMA StepPhaseOK ==
    ASSUME MACInv, [Next]_vars
    PROVE  PhaseOK'
<1>1. ASSUME NEW s \in Sessions, CreateBegin(s) PROVE PhaseOK'
  BY <1>1 DEF MACInv, PhaseOK, CreateBegin, bootVars
<1>2. ASSUME NEW s \in Sessions, Insert(s) PROVE PhaseOK'
  BY <1>2, InsertTried DEF MACInv, PhaseOK, RolledBack, bootVars
<1>3. ASSUME NEW s \in Sessions, CreateDone(s) PROVE PhaseOK'
  BY <1>3 DEF MACInv, PhaseOK, CreateDone, Bind, At, Idle, bootVars
<1>4. ASSUME NEW s \in Sessions, DeleteRow(s) PROVE PhaseOK'
  BY <1>4 DEF MACInv, PhaseOK, DeleteRow, bootVars
<1>5. ASSUME NEW s \in Sessions, Expire(s) PROVE PhaseOK'
  BY <1>5 DEF MACInv, PhaseOK, AnyLease, Leased, Expire, memVars, opVars, bootVars
<1>6. ASSUME NEW s \in Sessions, ReleaseBinding(s) PROVE PhaseOK'
  BY <1>6 DEF MACInv, PhaseOK, ReleaseBinding, Idle, bootVars
<1>7. ASSUME NEW s \in Sessions, ReconcileSession(s) PROVE PhaseOK'
  BY <1>7 DEF MACInv, PhaseOK, AnyLease, Leased, ReconcileSession, rowVars, opVars
<1>8. ASSUME NEW s \in Sessions, ReconcileDone(s) PROVE PhaseOK'
  BY <1>8
  DEF MACInv, PhaseOK, AnyLease, Leased, ReconcileDone, Bind, Idle, rowVars, opVars,
      bootVars
<1>9. ASSUME NEW b \in Paths, EnsureTree(b) PROVE PhaseOK'
  BY <1>9, EnsureTried
  DEF MACInv, PhaseOK, AnyLease, Leased, Resolved, Created, RolledBack, rowVars, opVars,
      bootVars
<1>10. ASSUME NEW b \in Paths, Rollback(b) \/ Retry(b) \/ Stale(b) PROVE PhaseOK'
  BY <1>10, PassVisits
  DEF MACInv, PhaseOK, AnyLease, Leased, Visited, rowVars, opVars, bootVars
<1>11. ASSUME NEW c \in t.cov, ReleaseBoundary(c) PROVE PhaseOK'
  BY <1>11, ReleaseDrops DEF MACInv, PhaseOK, Dropped, bootVars
<1>12. ASSUME NEW o \in Ops, Acquire(o) PROVE PhaseOK'
  BY <1>12 DEF MACInv, PhaseOK, Acquire, bootVars
<1>13. ASSUME NEW o \in Ops, WorkloadState(o) PROVE PhaseOK'
  BY <1>13 DEF MACInv, PhaseOK, AnyLease, Leased, WorkloadState, bootVars
<1>14. ASSUME NEW o \in Ops, ReleaseLease(o) PROVE PhaseOK'
  BY <1>14 DEF MACInv, PhaseOK, AnyLease, Leased, ReleaseLease, bootVars
<1>15. CASE RecordOwnership
  BY <1>15, RecordTried
  DEF MACInv, PhaseOK, AnyLease, Leased, Recorded, RolledBack, rowVars, opVars, bootVars
<1>16. CASE Forget
  BY <1>16 DEF MACInv, PhaseOK, AnyLease, Leased, Forget, rowVars, opVars, bootVars
<1>17. CASE RetryBegin
  BY <1>17 DEF MACInv, PhaseOK, RetryBegin, At, bootVars
<1>18. CASE PassEnd
  BY <1>18 DEF MACInv, PhaseOK, PassEnd, At, Idle, bootVars
<1>19. CASE Crash
  BY <1>19 DEF PhaseOK, AnyLease, Leased, Crash, Idle
<1>20. CASE OfflineCleanup
  BY <1>20
  DEF MACInv, PhaseOK, AnyLease, Leased, OfflineCleanup, memVars, opVars, bootVars
<1>21. CASE ReconcileWorkloads
  BY <1>21 DEF MACInv, PhaseOK, AnyLease, Leased, ReconcileWorkloads, rowVars, memVars
<1>22. CASE Import
  BY <1>22 DEF MACInv, PhaseOK, AnyLease, Leased, Import, rowVars, opVars
<1>23. CASE StaleBegin
  BY <1>23 DEF MACInv, PhaseOK, AnyLease, Leased, StaleBegin, rowVars, opVars, bootVars
<1>24. CASE StaleEnd
  BY <1>24 DEF MACInv, PhaseOK, AnyLease, Leased, StaleEnd, At, Idle, rowVars, opVars
<1>25. CASE Serve
  BY <1>25 DEF MACInv, PhaseOK, Serve
<1>26. CASE UNCHANGED vars
  BY <1>26 DEF MACInv, PhaseOK, AnyLease, Leased, vars, rowVars, memVars, opVars, bootVars
<1>27. QED
  BY <1>1, <1>2, <1>3, <1>4, <1>5, <1>6, <1>7, <1>8, <1>9, <1>10, <1>11, <1>12, <1>13,
     <1>14, <1>15, <1>16, <1>17, <1>18, <1>19, <1>20, <1>21, <1>22, <1>23, <1>24, <1>25,
     <1>26
  DEF Next

(* Every step leaves a transition with what its new step holds.            *)
LEMMA StepStageOK ==
    ASSUME MACInv, [Next]_vars
    PROVE  StageOK'
<1>1. ASSUME NEW s \in Sessions, CreateBegin(s) PROVE StageOK'
  BY <1>1 DEF MACInv, StageOK, RowOK, CreateBegin, Idle, memVars, bootVars
<1>2. ASSUME NEW s \in Sessions, Insert(s) PROVE StageOK'
  BY <1>2, InsertTried
  DEF MACInv, StageOK, Ensuring, Passes, RolledBack, memVars, bootVars
<1>3. ASSUME NEW s \in Sessions, CreateDone(s) PROVE StageOK'
  BY <1>3 DEF MACInv, StageOK, Ensuring, CreateDone, Bind, Idle, bootVars
<1>4. ASSUME NEW s \in Sessions, DeleteRow(s) PROVE StageOK'
  BY <1>4 DEF MACInv, StageOK, DeleteRow, memVars, bootVars
<1>5. ASSUME NEW s \in Sessions, Expire(s) PROVE StageOK'
  BY <1>5 DEF MACInv, StageOK, Expire, memVars, bootVars
<1>6. ASSUME NEW s \in Sessions, ReleaseBinding(s) PROVE StageOK'
  BY <1>6
  DEF MACInv, TypeOK, Transitions, PhaseOK, StageOK, RowOK, Ensuring, Passes,
      ReleaseBinding, At, Idle, opVars, hostVars, bootVars
<1>7. ASSUME NEW s \in Sessions, ReconcileSession(s) PROVE StageOK'
  BY <1>7 DEF MACInv, StageOK, ReconcileSession, Idle, memVars
<1>8. ASSUME NEW s \in Sessions, ReconcileDone(s) PROVE StageOK'
  BY <1>8 DEF MACInv, StageOK, Ensuring, ReconcileDone, Bind, Ensured, Idle, bootVars
<1>9. ASSUME NEW b \in Paths, EnsureTree(b) PROVE StageOK'
  <2>1. ASSUME NEW r \in Paths, Resolved(b, r) PROVE StageOK'
    BY <1>9, <2>1, EnsureTried DEF MACInv, StageOK, Passes, Resolved, memVars, bootVars
  <2>2. CASE Created(b)
    BY <1>9, <2>2, EnsureTried
    DEF MACInv, StageOK, Ensuring, Passes, Created, memVars, bootVars
  <2>3. ASSUME NEW left \in SUBSET {b}, RolledBack(left), installed' = installed \cup left
        PROVE  StageOK'
    BY <1>9, <2>3, EnsureTried
    DEF MACInv, StageOK, Ensuring, RolledBack, memVars, bootVars
  <2>4. QED
    BY <1>9, <2>1, <2>2, <2>3, EnsureTried DEF MACInv
<1>10. ASSUME NEW b \in Paths, Rollback(b) \/ Retry(b) \/ Stale(b) PROVE StageOK'
  BY <1>10, PassVisits DEF MACInv, StageOK, Passes, Visited, bootVars
<1>11. ASSUME NEW c \in t.cov, ReleaseBoundary(c) PROVE StageOK'
  BY <1>11, ReleaseDrops DEF MACInv, StageOK, Dropped, bootVars
<1>12. ASSUME NEW o \in Ops, Acquire(o) PROVE StageOK'
  BY <1>12 DEF MACInv, StageOK, Acquire, bootVars
<1>13. ASSUME NEW o \in Ops, WorkloadState(o) PROVE StageOK'
  BY <1>13 DEF MACInv, StageOK, WorkloadState, memVars, bootVars
<1>14. ASSUME NEW o \in Ops, ReleaseLease(o) PROVE StageOK'
  BY <1>14 DEF MACInv, StageOK, Ensuring, Passes, ReleaseLease, Idle, memVars, bootVars
<1>15. CASE RecordOwnership
  BY <1>15, RecordTried
  DEF MACInv, TypeOK, Transitions, PhaseOK, StageOK, RowOK, Ensuring, Passes, Recorded,
      RolledBack, Idle, rowVars, memVars, opVars, bootVars
<1>16. CASE Forget
  BY <1>16 DEF MACInv, StageOK, Passes, Forget, bootVars
<1>17. CASE RetryBegin
  BY <1>17 DEF MACInv, StageOK, Ensuring, RetryBegin, Idle, memVars, bootVars
<1>18. CASE PassEnd
  BY <1>18 DEF MACInv, StageOK, Ensuring, PassEnd, Idle, memVars, bootVars
<1>19. CASE Crash
  BY <1>19 DEF StageOK, Ensuring, Crash, Idle
<1>20. CASE OfflineCleanup
  BY <1>20 DEF MACInv, StageOK, OfflineCleanup, memVars, bootVars
<1>21. CASE ReconcileWorkloads
  BY <1>21 DEF MACInv, StageOK, ReconcileWorkloads, memVars
<1>22. CASE Import
  BY <1>22 DEF MACInv, PhaseOK, StageOK, Import, Idle, memVars
<1>23. CASE StaleBegin
  BY <1>23 DEF StageOK, Ensuring, StaleBegin, Idle, bootVars
<1>24. CASE StaleEnd
  BY <1>24 DEF MACInv, StageOK, Ensuring, StaleEnd, Idle, memVars
<1>25. CASE Serve
  BY <1>25 DEF MACInv, StageOK, Serve, memVars
<1>26. CASE UNCHANGED vars
  BY <1>26 DEF MACInv, StageOK, vars, memVars, bootVars
<1>27. QED
  BY <1>1, <1>2, <1>3, <1>4, <1>5, <1>6, <1>7, <1>8, <1>9, <1>10, <1>11, <1>12, <1>13,
     <1>14, <1>15, <1>16, <1>17, <1>18, <1>19, <1>20, <1>21, <1>22, <1>23, <1>24, <1>25,
     <1>26
  DEF Next

(* Bindings, leases and workload state keep the rows they stand for.       *)
LEMMA StepRowOK ==
    ASSUME MACInv, [Next]_vars
    PROVE  RowOK'
<1>1. ASSUME NEW s \in Sessions, CreateBegin(s) PROVE RowOK'
  BY <1>1, SessionAssumption
  DEF MACInv, RowOK, Leased, CreateBegin, rowVars, memVars, opVars, bootVars
<1>2. ASSUME NEW s \in Sessions, Insert(s) PROVE RowOK'
  BY <1>2, InsertTried, SessionAssumption
  DEF MACInv, TypeOK, StageOK, RowOK, Ensuring, Leased, RolledBack, memVars, opVars,
      bootVars
<1>3. ASSUME NEW s \in Sessions, CreateDone(s) PROVE RowOK'
  BY <1>3, SessionAssumption
  DEF MACInv, RowOK, Leased, CreateDone, Bind, At, Idle, rowVars, opVars, bootVars
<1>4. ASSUME NEW s \in Sessions, DeleteRow(s) PROVE RowOK'
  BY <1>4, SessionAssumption
  DEF MACInv, RowOK, Leased, HasRow, DeleteRow, memVars, opVars, bootVars
<1>5. ASSUME NEW s \in Sessions, Expire(s) PROVE RowOK'
  BY <1>5, SessionAssumption DEF MACInv, RowOK, Leased, Expire, memVars, opVars, bootVars
<1>6. ASSUME NEW s \in Sessions, ReleaseBinding(s) PROVE RowOK'
  <2>1. t'.s = {}
    <3>1. t.s = {} /\ [Idle EXCEPT !.pc = "release", !.cov = binding[s]].s = {}
      BY <1>6 DEF ReleaseBinding, At, MACInv, StageOK, Idle
    <3>2. QED
      BY <1>6, <3>1 DEF ReleaseBinding
  <2>2. UNCHANGED <<row, opVars, bootVars>> /\ bound' \subseteq bound
    BY <1>6 DEF ReleaseBinding
  <2>3. \A r \in Sessions : r \notin bound' => binding'[r] = {}
    BY <1>6 DEF ReleaseBinding, MACInv, TypeOK, RowOK
  <2>4. QED
    BY <2>1, <2>2, <2>3 DEF MACInv, RowOK, Leased, opVars, bootVars
<1>7. ASSUME NEW s \in Sessions, ReconcileSession(s) PROVE RowOK'
  BY <1>7, SessionAssumption
  DEF MACInv, RowOK, Leased, ReconcileSession, rowVars, memVars, opVars
<1>8. ASSUME NEW s \in Sessions, ReconcileDone(s) PROVE RowOK'
  BY <1>8, SessionAssumption
  DEF MACInv, RowOK, Leased, ReconcileDone, Bind, Ensured, Idle, rowVars, opVars,
      bootVars
<1>9. ASSUME NEW b \in Paths, EnsureTree(b) PROVE RowOK'
  BY <1>9, EnsureTried, SessionAssumption
  DEF MACInv, RowOK, Leased, Resolved, Created, RolledBack, rowVars, memVars, opVars,
      bootVars
<1>10. ASSUME NEW b \in Paths, Rollback(b) \/ Retry(b) \/ Stale(b) PROVE RowOK'
  BY <1>10, PassVisits, SessionAssumption
  DEF MACInv, RowOK, Leased, Visited, rowVars, opVars, bootVars
<1>11. ASSUME NEW c \in t.cov, ReleaseBoundary(c) PROVE RowOK'
  BY <1>11, ReleaseDrops, SessionAssumption
  DEF MACInv, RowOK, Leased, Dropped, rowVars, opVars, bootVars
<1>12. ASSUME NEW o \in Ops, Acquire(o) PROVE RowOK'
  BY <1>12, SessionAssumption
  DEF MACInv, TypeOK, RowOK, Leased, Acquire, rowVars, bootVars
<1>13. ASSUME NEW o \in Ops, WorkloadState(o) PROVE RowOK'
  BY <1>13, SessionAssumption
  DEF MACInv, TypeOK, RowOK, Leased, WorkloadState, rowVars, memVars, bootVars
<1>14. ASSUME NEW o \in Ops, ReleaseLease(o) PROVE RowOK'
  BY <1>14, SessionAssumption
  DEF MACInv, TypeOK, RowOK, Leased, ReleaseLease, Idle, rowVars, memVars, bootVars
<1>15. CASE RecordOwnership
  <2>1. \A s \in t'.s : s \in t.s /\ t'.pc = "ensure"
    BY <1>15, RecordTried DEF MACInv, Recorded, RolledBack
  <2>2. t.pc = "record" /\ UNCHANGED <<rowVars, memVars, opVars, bootVars>>
    BY <1>15, RecordTried DEF MACInv
  <2>3. QED
    BY <2>1, <2>2 DEF MACInv, RowOK, Leased, rowVars, memVars, opVars, bootVars
<1>16. CASE Forget
  BY <1>16, SessionAssumption DEF MACInv, RowOK, Leased, Forget, rowVars, opVars, bootVars
<1>17. CASE RetryBegin
  BY <1>17, SessionAssumption
  DEF MACInv, RowOK, Leased, RetryBegin, Idle, rowVars, memVars, opVars, bootVars
<1>18. CASE PassEnd
  BY <1>18, SessionAssumption
  DEF MACInv, RowOK, Leased, PassEnd, Idle, rowVars, memVars, opVars, bootVars
<1>19. CASE Crash
  BY <1>19, SessionAssumption DEF MACInv, RowOK, Leased, Crash, Idle
<1>20. CASE OfflineCleanup
  BY <1>20, SessionAssumption
  DEF MACInv, PhaseOK, RowOK, AnyLease, OfflineCleanup, Gone, memVars, opVars, bootVars
<1>21. CASE ReconcileWorkloads
  BY <1>21, SessionAssumption
  DEF MACInv, RowOK, Leased, ReconcileWorkloads, rowVars, memVars
<1>22. CASE Import
  BY <1>22
  DEF MACInv, PhaseOK, StageOK, RowOK, Leased, Import, Idle, rowVars, memVars, opVars
<1>23. CASE StaleBegin
  BY <1>23, SessionAssumption
  DEF MACInv, RowOK, Leased, StaleBegin, Idle, rowVars, memVars, opVars, bootVars
<1>24. CASE StaleEnd
  BY <1>24, SessionAssumption
  DEF MACInv, RowOK, Leased, StaleEnd, Idle, rowVars, memVars, opVars
<1>25. CASE Serve
  BY <1>25, SessionAssumption
  DEF MACInv, TypeOK, PhaseOK, RowOK, AnyLease, Serve, Gone, memVars, opVars
<1>26. CASE UNCHANGED vars
  BY <1>26, SessionAssumption
  DEF MACInv, RowOK, Leased, vars, rowVars, memVars, opVars, bootVars
<1>27. QED
  BY <1>1, <1>2, <1>3, <1>4, <1>5, <1>6, <1>7, <1>8, <1>9, <1>10, <1>11, <1>12, <1>13,
     <1>14, <1>15, <1>16, <1>17, <1>18, <1>19, <1>20, <1>21, <1>22, <1>23, <1>24, <1>25,
     <1>26
  DEF Next

(* No set of coverages names a boundary twice.                             *)
LEMMA StepDistinctOK ==
    ASSUME MACInv, [Next]_vars
    PROVE  DistinctOK'
<1>1. ASSUME NEW s \in Sessions, CreateBegin(s) PROVE DistinctOK'
  BY <1>1, PathAssumption
  DEF MACInv, DistinctOK, Distinct, CreateBegin, Idle, memVars, opVars
<1>2. ASSUME NEW s \in Sessions, Insert(s) PROVE DistinctOK'
  BY <1>2, InsertTried, PathAssumption
  DEF MACInv, DistinctOK, Ensuring, RolledBack, memVars, opVars
<1>3. ASSUME NEW s \in Sessions, CreateDone(s) PROVE DistinctOK'
  <2>1. Distinct(Normalized(t.cov)) /\ t'.pc = "idle"
    BY <1>3, PathAssumption
    DEF CreateDone, Bind, Idle, MACInv, TypeOK, Transitions, Coverages, Normalized,
        Covers, Distinct
  <2>2. QED
    BY <1>3, <2>1 DEF CreateDone, Bind, MACInv, DistinctOK, Ensuring, opVars
<1>4. ASSUME NEW s \in Sessions, DeleteRow(s) PROVE DistinctOK'
  BY <1>4, PathAssumption DEF MACInv, DistinctOK, DeleteRow, memVars, opVars
<1>5. ASSUME NEW s \in Sessions, Expire(s) PROVE DistinctOK'
  BY <1>5, PathAssumption DEF MACInv, DistinctOK, Expire, memVars, opVars
<1>6. ASSUME NEW s \in Sessions, ReleaseBinding(s) PROVE DistinctOK'
  <2>1. CASE s \in bound
    BY <1>6, <2>1 DEF ReleaseBinding, Idle, MACInv, TypeOK, DistinctOK, Distinct, opVars
  <2>2. CASE s \notin bound
    BY <1>6, <2>2 DEF ReleaseBinding, MACInv, DistinctOK, opVars
  <2>3. QED
    BY <2>1, <2>2
<1>7. ASSUME NEW s \in Sessions, ReconcileSession(s) PROVE DistinctOK'
  BY <1>7, PathAssumption
  DEF MACInv, DistinctOK, Distinct, ReconcileSession, Idle, memVars, opVars
<1>8. ASSUME NEW s \in Sessions, ReconcileDone(s) PROVE DistinctOK'
  <2>1. Distinct(Normalized(t.cov)) /\ t'.pc = "idle"
    BY <1>8, PathAssumption
    DEF ReconcileDone, Bind, Idle, MACInv, TypeOK, Transitions, Coverages, Normalized,
        Covers, Distinct
  <2>2. QED
    BY <1>8, <2>1 DEF ReconcileDone, Bind, MACInv, DistinctOK, Ensuring, opVars
<1>9. ASSUME NEW b \in Paths, EnsureTree(b) PROVE DistinctOK'
  <2>1. ASSUME NEW r \in Paths, Resolved(b, r) PROVE DistinctOK'
    <3>1. \A c \in t.cov : c.boundary = r => c = Coverage(r)
      BY <1>9, EnsureTried
      DEF MACInv, TypeOK, Transitions, Coverages, BackedOK, Backed, Known, Coverage, Ensuring
    <3>2. Coverage(r).boundary = r
      BY DEF Coverage
    <3>3. QED
      BY <1>9, <2>1, <3>1, <3>2, EnsureTried
      DEF MACInv, DistinctOK, Distinct, Resolved, memVars, opVars
  <2>2. CASE Created(b)
    BY <1>9, <2>2, EnsureTried DEF MACInv, DistinctOK, Ensuring, Created, memVars, opVars
  <2>3. ASSUME NEW left \in SUBSET {b}, RolledBack(left), installed' = installed \cup left
        PROVE  DistinctOK'
    BY <1>9, <2>3, EnsureTried
    DEF MACInv, DistinctOK, Ensuring, RolledBack, memVars, opVars
  <2>4. QED
    BY <1>9, <2>1, <2>2, <2>3, EnsureTried DEF MACInv
<1>10. ASSUME NEW b \in Paths, Rollback(b) \/ Retry(b) \/ Stale(b) PROVE DistinctOK'
  BY <1>10, PassVisits, PathAssumption DEF MACInv, DistinctOK, Visited, opVars
<1>11. ASSUME NEW c \in t.cov, ReleaseBoundary(c) PROVE DistinctOK'
  BY <1>11, ReleaseDrops, PathAssumption DEF MACInv, DistinctOK, Distinct, Dropped, opVars
<1>12. ASSUME NEW o \in Ops, Acquire(o) PROVE DistinctOK'
  BY <1>12, PathAssumption DEF MACInv, TypeOK, DistinctOK, Acquire
<1>13. ASSUME NEW o \in Ops, WorkloadState(o) PROVE DistinctOK'
  BY <1>13, PathAssumption DEF MACInv, DistinctOK, WorkloadState, memVars
<1>14. ASSUME NEW o \in Ops, ReleaseLease(o) PROVE DistinctOK'
  BY <1>14, PathAssumption DEF MACInv, DistinctOK, Distinct, ReleaseLease, memVars
<1>15. CASE RecordOwnership
  <2>1. CASE Recorded
    <3>1. /\ \A c, d \in [boundary : t.new, owned : {TRUE}] :
                c.boundary = d.boundary => c = d
          /\ \A c \in [boundary : t.new, owned : {TRUE}] : c.boundary \in t.new
      <4>1. ASSUME NEW c \in [boundary : t.new, owned : {TRUE}]
            PROVE  c.boundary \in t.new /\ c = [boundary |-> c.boundary, owned |-> TRUE]
        OBVIOUS
      <4>2. QED
        BY <4>1
    <3>2. QED
      BY <1>15, <2>1, <3>1, RecordTried, NewUnused
      DEF MACInv, DistinctOK, Ensuring, Recorded, Distinct, memVars, opVars
  <2>2. ASSUME NEW left \in {{}, t.new}, UNCHANGED owner, RolledBack(left),
               installed' = installed \ (t.new \ left)
        PROVE  DistinctOK'
    BY <1>15, <2>2, RecordTried
    DEF MACInv, DistinctOK, Ensuring, RolledBack, memVars, opVars
  <2>3. QED
    BY <1>15, <2>1, <2>2, RecordTried DEF MACInv
<1>16. CASE Forget
  BY <1>16, PathAssumption DEF MACInv, DistinctOK, Forget, opVars
<1>17. CASE RetryBegin
  BY <1>17, PathAssumption DEF MACInv, DistinctOK, RetryBegin, At, Idle, memVars, opVars
<1>18. CASE PassEnd
  BY <1>18, PathAssumption
  DEF MACInv, DistinctOK, Ensuring, PassEnd, Idle, memVars, opVars
<1>19. CASE Crash
  BY <1>19, PathAssumption DEF DistinctOK, Distinct, Crash, Idle
<1>20. CASE OfflineCleanup
  BY <1>20, PathAssumption DEF MACInv, DistinctOK, OfflineCleanup, memVars, opVars
<1>21. CASE ReconcileWorkloads
  BY <1>21, PathAssumption DEF MACInv, DistinctOK, ReconcileWorkloads, memVars
<1>22. CASE Import
  BY <1>22, PathAssumption DEF MACInv, DistinctOK, Import, memVars, opVars
<1>23. CASE StaleBegin
  BY <1>23, PathAssumption DEF MACInv, DistinctOK, Ensuring, StaleBegin, memVars, opVars
<1>24. CASE StaleEnd
  BY <1>24, PathAssumption
  DEF MACInv, DistinctOK, Ensuring, StaleEnd, Idle, memVars, opVars
<1>25. CASE Serve
  BY <1>25, PathAssumption DEF MACInv, DistinctOK, Serve, memVars, opVars
<1>26. CASE UNCHANGED vars
  BY <1>26, PathAssumption DEF MACInv, DistinctOK, vars, memVars, opVars
<1>27. QED
  BY <1>1, <1>2, <1>3, <1>4, <1>5, <1>6, <1>7, <1>8, <1>9, <1>10, <1>11, <1>12, <1>13,
     <1>14, <1>15, <1>16, <1>17, <1>18, <1>19, <1>20, <1>21, <1>22, <1>23, <1>24, <1>25,
     <1>26
  DEF Next

(* Every step that changes bindings or leases changes the counts alike.    *)
LEMMA StepCountsTruthful ==
    ASSUME MACInv, [Next]_vars
    PROVE  CountsTruthful'
<1>1. ASSUME NEW s \in Sessions, CreateBegin(s) PROVE CountsTruthful'
  <2>1. UNCHANGED <<bound, binding, lease, count>> /\ t.pc # "release" /\ t'.pc # "release"
    BY <1>1 DEF CreateBegin, At, memVars, opVars
  <2>2. QED
    BY <2>1, CountsKept DEF MACInv, Dropping
<1>2. ASSUME NEW s \in Sessions, Insert(s) PROVE CountsTruthful'
  <2>1. UNCHANGED <<bound, binding, lease, count>> /\ t.pc # "release" /\ t'.pc # "release"
    BY <1>2, InsertTried DEF MACInv, RolledBack, memVars, opVars
  <2>2. QED
    BY <2>1, CountsKept DEF MACInv, Dropping
<1>3. ASSUME NEW s \in Sessions, CreateDone(s) PROVE CountsTruthful'
  <2> DEFINE new == Boundaries(Normalized(t.cov))
  <2>1. /\ t.pc # "release" /\ t'.pc = "idle" /\ s \notin bound /\ UNCHANGED lease
        /\ bound' = bound \cup {s} /\ \A b \in Paths : b \in Boundaries(binding'[s]) <=> b \in new
        /\ \A r \in bound : binding'[r] = binding[r]
        /\ count' = [b \in Paths |-> IF b \in new THEN count[b] + 1 ELSE count[b]]
    BY <1>3 DEF CreateDone, Bind, At, Idle, MACInv, StageOK, TypeOK, opVars
  <2> HIDE DEF new
  <2>2. ASSUME NEW b \in Paths
        PROVE  /\ BoundTo(b)' = IF b \in new THEN BoundTo(b) \cup {s} ELSE BoundTo(b)
               /\ LeasedTo(b)' = LeasedTo(b) /\ s \notin BoundTo(b)
               /\ ~Dropping(b) /\ ~Dropping(b)'
    BY <2>1 DEF BoundTo, LeasedTo, Dropping
  <2>3. ASSUME NEW b \in Paths
        PROVE  Cardinality(BoundTo(b)') = Cardinality(BoundTo(b)) + (IF b \in new THEN 1 ELSE 0)
    BY <2>2, ConsumerSets, FS_AddElement DEF MACInv
  <2>4. QED
    BY <2>1, <2>2, <2>3, ConsumerSets, CountForm DEF MACInv, CountIs
<1>4. ASSUME NEW s \in Sessions, DeleteRow(s) PROVE CountsTruthful'
  BY <1>4, CountsKept DEF MACInv, DeleteRow, Dropping, memVars, opVars
<1>5. ASSUME NEW s \in Sessions, Expire(s) PROVE CountsTruthful'
  BY <1>5, CountsKept DEF MACInv, Expire, Dropping, memVars, opVars
<1>6. ASSUME NEW s \in Sessions, ReleaseBinding(s) PROVE CountsTruthful'
  <2>1. CASE s \in bound
    <3>1. /\ t.pc = "idle" /\ t'.pc = "release" /\ t'.cov = binding[s]
          /\ bound' = bound \ {s} /\ \A r \in bound' : binding'[r] = binding[r]
          /\ UNCHANGED <<lease, count>>
      BY <1>6, <2>1 DEF ReleaseBinding, At, Idle, MACInv, TypeOK, opVars
    <3>2. ASSUME NEW b \in Paths
          PROVE  /\ BoundTo(b)' = BoundTo(b) \ {s} /\ LeasedTo(b)' = LeasedTo(b)
                 /\ ~Dropping(b) /\ (Dropping(b)' <=> s \in BoundTo(b))
      BY <2>1, <3>1 DEF BoundTo, LeasedTo, Dropping
    <3>3. ASSUME NEW b \in Paths
          PROVE  Cardinality(BoundTo(b)') =
                    Cardinality(BoundTo(b)) - (IF s \in BoundTo(b) THEN 1 ELSE 0)
      BY <3>2, ConsumerSets, FS_RemoveElement DEF MACInv
    <3>4. QED
      BY <3>1, <3>2, <3>3, ConsumerSets, CountForm DEF MACInv, CountIs
  <2>2. CASE s \notin bound
    BY <1>6, <2>2, CountsKept DEF ReleaseBinding, MACInv, Dropping, opVars
  <2>3. QED
    BY <2>1, <2>2
<1>7. ASSUME NEW s \in Sessions, ReconcileSession(s) PROVE CountsTruthful'
  <2>1. UNCHANGED <<bound, binding, lease, count>> /\ t.pc # "release" /\ t'.pc # "release"
    BY <1>7 DEF ReconcileSession, At, memVars, opVars
  <2>2. QED
    BY <2>1, CountsKept DEF MACInv, Dropping
<1>8. ASSUME NEW s \in Sessions, ReconcileDone(s) PROVE CountsTruthful'
  <2> DEFINE new == Boundaries(Normalized(t.cov))
  <2>1. /\ t.pc # "release" /\ t'.pc = "idle" /\ s \notin bound /\ UNCHANGED lease
        /\ bound' = bound \cup {s} /\ \A b \in Paths : b \in Boundaries(binding'[s]) <=> b \in new
        /\ \A r \in bound : binding'[r] = binding[r]
        /\ count' = [b \in Paths |-> IF b \in new THEN count[b] + 1 ELSE count[b]]
    BY <1>8 DEF ReconcileDone, Bind, Ensured, At, Idle, MACInv, StageOK, TypeOK, opVars
  <2> HIDE DEF new
  <2>2. ASSUME NEW b \in Paths
        PROVE  /\ BoundTo(b)' = IF b \in new THEN BoundTo(b) \cup {s} ELSE BoundTo(b)
               /\ LeasedTo(b)' = LeasedTo(b) /\ s \notin BoundTo(b)
               /\ ~Dropping(b) /\ ~Dropping(b)'
    BY <2>1 DEF BoundTo, LeasedTo, Dropping
  <2>3. ASSUME NEW b \in Paths
        PROVE  Cardinality(BoundTo(b)') = Cardinality(BoundTo(b)) + (IF b \in new THEN 1 ELSE 0)
    BY <2>2, ConsumerSets, FS_AddElement DEF MACInv
  <2>4. QED
    BY <2>1, <2>2, <2>3, ConsumerSets, CountForm DEF MACInv, CountIs
<1>9. ASSUME NEW b \in Paths, EnsureTree(b) PROVE CountsTruthful'
  <2>1. UNCHANGED <<bound, binding, lease, count>> /\ t.pc # "release" /\ t'.pc # "release"
    BY <1>9, EnsureTried DEF MACInv, Resolved, Created, RolledBack, memVars, opVars
  <2>2. QED
    BY <2>1, CountsKept DEF MACInv, Dropping
<1>10. ASSUME NEW b \in Paths, Rollback(b) \/ Retry(b) \/ Stale(b) PROVE CountsTruthful'
  <2>1. UNCHANGED <<bound, binding, lease, count>> /\ t.pc # "release" /\ t'.pc # "release"
    BY <1>10, PassVisits DEF MACInv, Visited, Passes, opVars
  <2>2. QED
    BY <2>1, CountsKept DEF MACInv, Dropping
<1>11. ASSUME NEW c \in t.cov, ReleaseBoundary(c) PROVE CountsTruthful'
  <2>1. Dropped(c) /\ c.boundary \in Paths /\ UNCHANGED <<bound, binding, lease>>
    BY <1>11, ReleaseDrops DEF MACInv, opVars
  <2>2. ASSUME NEW b \in Paths
        PROVE  /\ BoundTo(b)' = BoundTo(b) /\ LeasedTo(b)' = LeasedTo(b)
               /\ b # c.boundary => (Dropping(b)' <=> Dropping(b))
               /\ b = c.boundary => Dropping(b) /\ ~Dropping(b)'
    BY <2>1
    DEF BoundTo, LeasedTo, Dropping, Boundaries, Dropped, MACInv, DistinctOK, Distinct
  <2>3. ASSUME NEW b \in Paths
        PROVE  count'[b] = IF b = c.boundary THEN count[b] - 1 ELSE count[b]
    BY <2>1, <2>2, ConsumerSets, CountForm DEF Dropped, MACInv, TypeOK, CountIs
  <2>4. QED
    BY <2>2, <2>3, ConsumerSets, CountForm DEF MACInv, CountIs
<1>12. ASSUME NEW o \in Ops, Acquire(o) PROVE CountsTruthful'
  <2> DEFINE new == Boundaries(binding[SessionOf[o]])
  <2>1. /\ t.pc = "idle" /\ lease[o] = {} /\ UNCHANGED <<t, bound, binding>>
        /\ \A b \in Paths : b \in Boundaries(lease'[o]) <=> b \in new
        /\ \A x \in Ops \ {o} : lease'[x] = lease[x]
        /\ count' = [b \in Paths |-> IF b \in new THEN count[b] + 1 ELSE count[b]]
    BY <1>12 DEF Acquire, At, MACInv, TypeOK, RowOK, Leased
  <2> HIDE DEF new
  <2>2. ASSUME NEW b \in Paths
        PROVE  /\ LeasedTo(b)' = IF b \in new THEN LeasedTo(b) \cup {o} ELSE LeasedTo(b)
               /\ BoundTo(b)' = BoundTo(b) /\ o \notin LeasedTo(b)
               /\ ~Dropping(b) /\ ~Dropping(b)'
    BY <2>1 DEF BoundTo, LeasedTo, Dropping, Boundaries
  <2>3. ASSUME NEW b \in Paths
        PROVE  Cardinality(LeasedTo(b)') =
                  Cardinality(LeasedTo(b)) + (IF b \in new THEN 1 ELSE 0)
    BY <2>2, ConsumerSets, FS_AddElement DEF MACInv
  <2>4. QED
    BY <2>1, <2>2, <2>3, ConsumerSets, CountForm DEF MACInv, CountIs
<1>13. ASSUME NEW o \in Ops, WorkloadState(o) PROVE CountsTruthful'
  BY <1>13, CountsKept DEF MACInv, WorkloadState, Dropping, memVars
<1>14. ASSUME NEW o \in Ops, ReleaseLease(o) PROVE CountsTruthful'
  <2>1. /\ t.pc = "idle" /\ t'.pc = "release" /\ t'.cov = lease[o]
        /\ lease'[o] = {} /\ \A x \in Ops \ {o} : lease'[x] = lease[x]
        /\ UNCHANGED <<bound, binding, count>>
    BY <1>14 DEF ReleaseLease, At, MACInv, TypeOK, memVars
  <2>2. ASSUME NEW b \in Paths
        PROVE  /\ LeasedTo(b)' = LeasedTo(b) \ {o} /\ BoundTo(b)' = BoundTo(b)
               /\ ~Dropping(b) /\ (Dropping(b)' <=> o \in LeasedTo(b))
    BY <2>1 DEF BoundTo, LeasedTo, Dropping, Boundaries
  <2>3. ASSUME NEW b \in Paths
        PROVE  Cardinality(LeasedTo(b)') =
                  Cardinality(LeasedTo(b)) - (IF o \in LeasedTo(b) THEN 1 ELSE 0)
    BY <2>2, ConsumerSets, FS_RemoveElement DEF MACInv
  <2>4. QED
    BY <2>1, <2>2, <2>3, ConsumerSets, CountForm DEF MACInv, CountIs
<1>15. CASE RecordOwnership
  <2>1. UNCHANGED <<bound, binding, lease, count>> /\ t.pc # "release" /\ t'.pc # "release"
    BY <1>15, RecordTried DEF MACInv, Recorded, RolledBack, memVars, opVars
  <2>2. QED
    BY <2>1, CountsKept DEF MACInv, Dropping
<1>16. CASE Forget
  <2>1. t'.pc = t.pc /\ t'.cov = t.cov
    BY <1>16 DEF Forget
  <2>2. QED
    BY <1>16, <2>1, CountsKept DEF Forget, MACInv, Dropping, opVars
<1>17. CASE RetryBegin
  <2>1. t.cov = {} /\ t'.pc # "release" /\ UNCHANGED <<bound, binding, lease, count>>
    BY <1>17 DEF RetryBegin, memVars, opVars
  <2>2. QED
    BY <2>1, CountsKept DEF MACInv, Dropping, Boundaries
<1>18. CASE PassEnd
  <2>1. UNCHANGED <<bound, binding, lease, count>> /\ t.pc # "release" /\ t'.pc # "release"
    BY <1>18 DEF PassEnd, At, Idle, memVars, opVars
  <2>2. QED
    BY <2>1, CountsKept DEF MACInv, Dropping
<1>19. CASE Crash
  <2>1. \A b \in Paths : BoundTo(b)' = {} /\ LeasedTo(b)' = {} /\ ~Dropping(b)'
    BY <1>19 DEF Crash, BoundTo, LeasedTo, Dropping, Boundaries, Idle
  <2>2. QED
    BY <1>19, <2>1, FS_EmptySet
    DEF Crash, CountsTruthful, Consumers, BoundTo, LeasedTo, Dropping
<1>20. CASE OfflineCleanup
  BY <1>20, CountsKept DEF MACInv, OfflineCleanup, Dropping, memVars, opVars
<1>21. CASE ReconcileWorkloads
  BY <1>21, CountsKept DEF MACInv, ReconcileWorkloads, Dropping, memVars
<1>22. CASE Import
  BY <1>22, CountsKept DEF MACInv, Import, Dropping, memVars, opVars
<1>23. CASE StaleBegin
  <2>1. UNCHANGED <<bound, binding, lease, count>> /\ t.pc # "release" /\ t'.pc # "release"
    BY <1>23 DEF StaleBegin, At, memVars, opVars
  <2>2. QED
    BY <2>1, CountsKept DEF MACInv, Dropping
<1>24. CASE StaleEnd
  <2>1. UNCHANGED <<bound, binding, lease, count>> /\ t.pc # "release" /\ t'.pc # "release"
    BY <1>24 DEF StaleEnd, At, Idle, memVars, opVars
  <2>2. QED
    BY <2>1, CountsKept DEF MACInv, Dropping
<1>25. CASE Serve
  BY <1>25, CountsKept DEF MACInv, Serve, Dropping, memVars, opVars
<1>26. CASE UNCHANGED vars
  BY <1>26, CountsKept DEF MACInv, vars, Dropping, memVars, opVars
<1>27. QED
  BY <1>1, <1>2, <1>3, <1>4, <1>5, <1>6, <1>7, <1>8, <1>9, <1>10, <1>11, <1>12, <1>13,
     <1>14, <1>15, <1>16, <1>17, <1>18, <1>19, <1>20, <1>21, <1>22, <1>23, <1>24, <1>25,
     <1>26
  DEF Next

(* A coverage in use keeps its boundary and its ownership.                 *)
LEMMA StepBackedOK ==
    ASSUME MACInv, [Next]_vars
    PROVE  BackedOK'
<1>1. ASSUME NEW s \in Sessions, CreateBegin(s) PROVE BackedOK'
  BY <1>1
  DEF MACInv, BackedOK, Backed, Known, Firm, CreateBegin, Idle, memVars, opVars,
      hostVars
<1>2. ASSUME NEW s \in Sessions, Insert(s) PROVE BackedOK'
  BY <1>2, InsertTried
  DEF MACInv, BackedOK, Backed, Known, Firm, Ensuring, RolledBack, memVars, opVars,
      hostVars
<1>3. ASSUME NEW s \in Sessions, CreateDone(s) PROVE BackedOK'
  <2>1. Firm' = Firm /\ t'.pc = "idle" /\ Normalized(t.cov) \subseteq t.cov /\ t.pc \in Ensuring
    BY <1>3
    DEF CreateDone, Bind, Idle, At, Firm, MACInv, StageOK, Normalized, Ensuring,
        hostVars
  <2>2. \A c : Backed(c) => Backed(c)'
    BY <1>3, <2>1, BackedKept DEF CreateDone, hostVars
  <2>3. QED
    BY <1>3, <2>1, <2>2 DEF CreateDone, Bind, MACInv, BackedOK, Ensuring, opVars
<1>4. ASSUME NEW s \in Sessions, DeleteRow(s) PROVE BackedOK'
  BY <1>4 DEF MACInv, BackedOK, Backed, Known, Firm, DeleteRow, memVars, opVars, hostVars
<1>5. ASSUME NEW s \in Sessions, Expire(s) PROVE BackedOK'
  BY <1>5 DEF MACInv, BackedOK, Backed, Known, Firm, Expire, memVars, opVars, hostVars
<1>6. ASSUME NEW s \in Sessions, ReleaseBinding(s) PROVE BackedOK'
  <2>1. Firm' = Firm /\ t'.pc \notin Ensuring
    <3>1. t.new = {} /\ [Idle EXCEPT !.pc = "release", !.cov = binding[s]].new = {}
      BY <1>6 DEF ReleaseBinding, At, MACInv, StageOK
    <3>2. QED
      BY <1>6, <3>1 DEF ReleaseBinding, At, Idle, Firm, hostVars, Ensuring
  <2>2. \A c : Backed(c) => Backed(c)'
    BY <1>6, <2>1, BackedKept DEF ReleaseBinding, hostVars
  <2>3. \A c : Known(c)' <=> Known(c)
    BY <1>6 DEF ReleaseBinding, hostVars, Known
  <2>4. CASE s \in bound
    BY <1>6, <2>1, <2>2, <2>3, <2>4
    DEF ReleaseBinding, Idle, MACInv, TypeOK, BackedOK, Backed, opVars
  <2>5. CASE s \notin bound
    BY <1>6, <2>1, <2>2, <2>3, <2>5 DEF ReleaseBinding, MACInv, BackedOK, opVars
  <2>6. QED
    BY <2>4, <2>5
<1>7. ASSUME NEW s \in Sessions, ReconcileSession(s) PROVE BackedOK'
  BY <1>7
  DEF MACInv, BackedOK, Backed, Known, Firm, ReconcileSession, Idle, memVars, opVars,
      hostVars
<1>8. ASSUME NEW s \in Sessions, ReconcileDone(s) PROVE BackedOK'
  <2>1. Firm' = Firm /\ t'.pc = "idle" /\ Normalized(t.cov) \subseteq t.cov /\ t.pc \in Ensuring
    BY <1>8
    DEF ReconcileDone, Bind, Idle, Ensured, At, Firm, MACInv, StageOK, Normalized,
        Ensuring, hostVars
  <2>2. \A c : Backed(c) => Backed(c)'
    BY <1>8, <2>1, BackedKept DEF ReconcileDone, hostVars
  <2>3. QED
    BY <1>8, <2>1, <2>2 DEF ReconcileDone, Bind, MACInv, BackedOK, Ensuring, opVars
<1>9. ASSUME NEW b \in Paths, EnsureTree(b) PROVE BackedOK'
  <2>1. t.pc = "ensure" /\ t.new = {} /\ UNCHANGED <<host, owner, binding, lease>>
    BY <1>9, EnsureTried DEF MACInv, StageOK, memVars, opVars
  <2>2. ASSUME NEW r \in Paths, Resolved(b, r) PROVE BackedOK'
    <3>1. Firm' = Firm /\ t'.pc = "ensure" /\ t'.cov = t.cov \cup {Coverage(r)}
      BY <2>1, <2>2 DEF Resolved, Firm
    <3>2. Backed(Coverage(r))
      BY <2>1, <2>2 DEF Resolved, Backed, Known, Coverage, Firm, Present
    <3>3. QED
      BY <2>1, <3>1, <3>2, BackedKept DEF MACInv, BackedOK
  <2>3. CASE Created(b)
    <3>1. Firm' = Firm /\ t'.pc = "record" /\ t'.cov = t.cov
      BY <2>1, <2>3, PathAssumption DEF Created, Firm, Present, Covers
    <3>2. QED
      BY <2>1, <3>1, BackedKept DEF MACInv, BackedOK, Ensuring
  <2>4. ASSUME NEW left \in SUBSET {b}, RolledBack(left), installed' = installed \cup left
        PROVE  BackedOK'
    <3>1. Firm \subseteq Firm' /\ t'.pc \in {"idle", "rollback"}
      BY <2>1, <2>4 DEF RolledBack, Firm
    <3>2. QED
      BY <2>1, <3>1, BackedKept DEF MACInv, BackedOK, Ensuring
  <2>5. QED
    BY <1>9, <2>2, <2>3, <2>4, EnsureTried DEF MACInv
<1>10. ASSUME NEW b \in Paths, Rollback(b) \/ Retry(b) \/ Stale(b) PROVE BackedOK'
  <2>1. Visited(b) /\ UNCHANGED <<host, owner, bound, binding, op, lease>>
    BY <1>10, PassVisits DEF MACInv, opVars
  <2>2. t'.pc \notin Ensuring \cup {"release"}
    BY <2>1 DEF Visited, Passes, Ensuring
  <2>3. ASSUME NEW c, Backed(c), c.boundary # b \/ Firm' = Firm PROVE Backed(c)'
    BY <2>1, <2>3 DEF Visited, Backed, Known, Firm
  <2>4. ~StillNeeded(b) \/ Firm' = Firm
    BY <2>1 DEF Visited, Firm, MayBeRemoved, Unneeded
  <2>5. QED
    BY <2>1, <2>2, <2>3, <2>4, UnusedBoundary DEF MACInv, BackedOK
<1>11. ASSUME NEW c \in t.cov, ReleaseBoundary(c) PROVE BackedOK'
  <2>1. /\ Dropped(c) /\ c.boundary \in Paths
        /\ UNCHANGED <<host, owner, bound, binding, op, lease>>
    BY <1>11, ReleaseDrops DEF MACInv, opVars
  <2>2. t'.pc = "release" /\ t'.cov \subseteq t.cov /\ t.pc = "release"
    BY <2>1 DEF Dropped
  <2>3. ASSUME NEW d, Backed(d), d.boundary # c.boundary \/ Firm' = Firm PROVE Backed(d)'
    BY <2>1, <2>3 DEF Dropped, Backed, Known, Firm
  <2>4. ~StillNeeded(c.boundary) \/ Firm' = Firm
    BY <2>1 DEF Dropped, Firm, Unneeded
  <2>5. \A d : Known(d)' <=> Known(d)
    BY <2>1 DEF Known
  <2>6. QED
    BY <2>1, <2>2, <2>3, <2>4, <2>5, UnusedBoundary DEF MACInv, BackedOK, Ensuring
<1>12. ASSUME NEW o \in Ops, Acquire(o) PROVE BackedOK'
  BY <1>12 DEF MACInv, TypeOK, BackedOK, Backed, Known, Firm, Acquire, hostVars
<1>13. ASSUME NEW o \in Ops, WorkloadState(o) PROVE BackedOK'
  BY <1>13 DEF MACInv, BackedOK, Backed, Known, Firm, WorkloadState, memVars, hostVars
<1>14. ASSUME NEW o \in Ops, ReleaseLease(o) PROVE BackedOK'
  BY <1>14
  DEF MACInv, BackedOK, Backed, Known, Firm, ReleaseLease, Idle, memVars, hostVars
<1>15. CASE RecordOwnership
  <2>1. t.pc = "record" /\ UNCHANGED <<host, binding, lease>>
    BY <1>15, RecordTried DEF MACInv, memVars, opVars
  <2>2. CASE Recorded
    <3>1. Firm \cup t.new \subseteq Firm' /\ t'.pc = "ensure"
      BY <2>1, <2>2 DEF Recorded, Firm, MACInv, PrepOK, Ensuring
    <3>2. ASSUME NEW c, Backed(c), c.boundary \notin t.new PROVE Backed(c)'
      BY <2>1, <2>2, <3>1, <3>2 DEF Recorded, Backed, Known
    <3>3. \A c \in [boundary : t.new, owned : {TRUE}] : Backed(c)'
      BY <2>2, <3>1 DEF Recorded, Backed, Known
    <3>4. QED
      BY <2>1, <2>2, <3>1, <3>2, <3>3, NewUnused DEF Recorded, MACInv, BackedOK, Ensuring
  <2>3. ASSUME NEW left \in {{}, t.new}, UNCHANGED owner, RolledBack(left),
               installed' = installed \ (t.new \ left)
        PROVE  BackedOK'
    <3>1. Firm \subseteq Firm' /\ t'.pc \in {"idle", "rollback"}
      BY <2>1, <2>3 DEF RolledBack, Firm
    <3>2. QED
      BY <2>1, <2>3, <3>1, BackedKept DEF MACInv, BackedOK, Ensuring
  <2>4. QED
    BY <1>15, <2>2, <2>3, RecordTried DEF MACInv
<1>16. CASE Forget
  <2>1. /\ t'.pc = t.pc /\ t'.cov = t.cov /\ t'.new = t.new
        /\ UNCHANGED <<host, bound, binding, op, lease, installed>>
        /\ owner' \in {owner, owner \ t.gone}
    BY <1>16 DEF Forget, opVars
  <2>2. t.pc \notin Ensuring
    BY <1>16 DEF Forget, MACInv, StageOK, Passes, Ensuring
  <2>3. Firm' = Firm
    BY <2>1 DEF Firm
  <2>4. ASSUME NEW c, Known(c), c.boundary \notin t.gone PROVE Known(c)'
    BY <2>1, <2>4 DEF Known
  <2>5. t.gone \subseteq Paths
    BY DEF MACInv, TypeOK, Transitions
  <2>6. QED
    BY <2>1, <2>2, <2>3, <2>4, <2>5, UnusedBoundary
    DEF MACInv, BackedOK, Backed, GoneOK, Boundaries
<1>17. CASE RetryBegin
  BY <1>17
  DEF MACInv, BackedOK, Backed, Known, Firm, RetryBegin, Idle, memVars, opVars, hostVars
<1>18. CASE PassEnd
  BY <1>18
  DEF MACInv, BackedOK, Backed, Known, Firm, PassEnd, Idle, memVars, opVars, hostVars
<1>19. CASE Crash
  BY <1>19 DEF BackedOK, Crash, Idle
<1>20. CASE OfflineCleanup
  BY <1>20
  DEF MACInv, BackedOK, Backed, Known, Firm, OfflineCleanup, memVars, opVars, hostVars
<1>21. CASE ReconcileWorkloads
  BY <1>21
  DEF MACInv, BackedOK, Backed, Known, Firm, ReconcileWorkloads, memVars, hostVars
<1>22. CASE Import
  BY <1>22
  DEF Import, MACInv, PhaseOK, RowOK, BackedOK, AnyLease, Ensuring, memVars, opVars
<1>23. CASE StaleBegin
  BY <1>23
  DEF MACInv, BackedOK, Backed, Known, Firm, StaleBegin, Idle, memVars, opVars, hostVars
<1>24. CASE StaleEnd
  BY <1>24
  DEF MACInv, BackedOK, Backed, Known, Firm, StaleEnd, Idle, memVars, opVars, hostVars
<1>25. CASE Serve
  BY <1>25 DEF MACInv, BackedOK, Backed, Known, Firm, Serve, memVars, opVars, hostVars
<1>26. CASE UNCHANGED vars
  BY <1>26 DEF MACInv, BackedOK, Backed, Known, Firm, vars, memVars, opVars, hostVars
<1>27. QED
  BY <1>1, <1>2, <1>3, <1>4, <1>5, <1>6, <1>7, <1>8, <1>9, <1>10, <1>11, <1>12, <1>13,
     <1>14, <1>15, <1>16, <1>17, <1>18, <1>19, <1>20, <1>21, <1>22, <1>23, <1>24, <1>25,
     <1>26
  DEF Next

(* What was just removed is not taken into use before it is forgotten.     *)
LEMMA StepGoneOK ==
    ASSUME MACInv, [Next]_vars
    PROVE  GoneOK'
<1>1. ASSUME NEW s \in Sessions, CreateBegin(s) PROVE GoneOK'
  BY <1>1 DEF GoneOK, CreateBegin, Idle
<1>2. ASSUME NEW s \in Sessions, Insert(s) PROVE GoneOK'
  BY <1>2, InsertTried DEF MACInv, GoneOK, RolledBack
<1>3. ASSUME NEW s \in Sessions, CreateDone(s) PROVE GoneOK'
  BY <1>3 DEF GoneOK, CreateDone, Bind, Idle
<1>4. ASSUME NEW s \in Sessions, DeleteRow(s) PROVE GoneOK'
  <2>1. UNCHANGED <<t, installed, bound, binding, op, lease>>
    BY <1>4 DEF DeleteRow, memVars, opVars, hostVars
  <2>2. QED
    BY <2>1, NeedKept, LeasesKept DEF MACInv, GoneOK
<1>5. ASSUME NEW s \in Sessions, Expire(s) PROVE GoneOK'
  <2>1. UNCHANGED <<t, installed, bound, binding, op, lease>>
    BY <1>5 DEF Expire, memVars, opVars, hostVars
  <2>2. QED
    BY <2>1, NeedKept, LeasesKept DEF MACInv, GoneOK
<1>6. ASSUME NEW s \in Sessions, ReleaseBinding(s) PROVE GoneOK'
  BY <1>6 DEF GoneOK, ReleaseBinding, At, Idle
<1>7. ASSUME NEW s \in Sessions, ReconcileSession(s) PROVE GoneOK'
  BY <1>7 DEF GoneOK, ReconcileSession, Idle
<1>8. ASSUME NEW s \in Sessions, ReconcileDone(s) PROVE GoneOK'
  BY <1>8 DEF GoneOK, ReconcileDone, Bind, Idle
<1>9. ASSUME NEW b \in Paths, EnsureTree(b) PROVE GoneOK'
  BY <1>9, EnsureTried DEF MACInv, GoneOK, Resolved, Created, RolledBack
<1>10. ASSUME NEW b \in Paths, Rollback(b) \/ Retry(b) \/ Stale(b) PROVE GoneOK'
  <2>1. UNCHANGED <<bound, binding, op, lease>> /\ Visited(b)
    BY <1>10, PassVisits DEF MACInv, opVars
  <2>2. t'.gone # {} => ~StillNeeded(b)'
    BY <2>1, NeedKept, LeasesKept DEF Visited, MayBeRemoved, Unneeded
  <2>3. t.cov = {}
    BY <2>1 DEF Visited, MACInv, StageOK
  <2>4. QED
    BY <2>1, <2>2, <2>3 DEF Visited, GoneOK, Boundaries
<1>11. ASSUME NEW c \in t.cov, ReleaseBoundary(c) PROVE GoneOK'
  <2>1. UNCHANGED <<bound, binding, op, lease>> /\ Dropped(c)
    BY <1>11, ReleaseDrops DEF MACInv, opVars
  <2>2. t'.gone # {} => ~StillNeeded(c.boundary)'
    BY <2>1, NeedKept, LeasesKept DEF Dropped, Unneeded
  <2>3. c.boundary \notin Boundaries(t'.cov)
    BY <2>1 DEF MACInv, DistinctOK, Distinct, Dropped, Boundaries
  <2>4. t.todo = {}
    BY <2>1 DEF Dropped, MACInv, StageOK
  <2>5. QED
    BY <2>1, <2>2, <2>3, <2>4 DEF Dropped, GoneOK
<1>12. ASSUME NEW o \in Ops, Acquire(o) PROVE GoneOK'
  BY <1>12 DEF GoneOK, Acquire, At
<1>13. ASSUME NEW o \in Ops, WorkloadState(o) PROVE GoneOK'
  <2>1. UNCHANGED <<t, installed, bound, binding, lease>>
    BY <1>13 DEF WorkloadState, memVars, hostVars
  <2>2. \A x \in Ops : Leased(x)' <=> Leased(x)
    BY <1>13 DEF WorkloadState, Leased, MACInv, TypeOK
  <2>3. QED
    BY <2>1, <2>2, NeedKept DEF MACInv, GoneOK
<1>14. ASSUME NEW o \in Ops, ReleaseLease(o) PROVE GoneOK'
  BY <1>14 DEF GoneOK, ReleaseLease, Idle
<1>15. CASE RecordOwnership
  BY <1>15, RecordTried DEF MACInv, GoneOK, Recorded, RolledBack
<1>16. CASE Forget
  BY <1>16 DEF GoneOK, Forget
<1>17. CASE RetryBegin
  BY <1>17 DEF GoneOK, RetryBegin, Idle
<1>18. CASE PassEnd
  BY <1>18 DEF GoneOK, PassEnd, Idle
<1>19. CASE Crash
  BY <1>19 DEF GoneOK, Crash, Idle
<1>20. CASE OfflineCleanup
  <2>1. UNCHANGED <<t, installed, bound, binding, op, lease>>
    BY <1>20 DEF OfflineCleanup, memVars, opVars, hostVars
  <2>2. QED
    BY <2>1, NeedKept, LeasesKept DEF MACInv, GoneOK
<1>21. CASE ReconcileWorkloads
  BY <1>21 DEF ReconcileWorkloads, MACInv, PhaseOK, StageOK, GoneOK, Idle
<1>22. CASE Import
  BY <1>22 DEF Import, MACInv, PhaseOK, StageOK, GoneOK, Idle
<1>23. CASE StaleBegin
  BY <1>23 DEF GoneOK, StaleBegin, Idle
<1>24. CASE StaleEnd
  BY <1>24 DEF GoneOK, StaleEnd, Idle
<1>25. CASE Serve
  <2>1. UNCHANGED <<t, installed, bound, binding, op, lease>>
    BY <1>25 DEF Serve, memVars, opVars, hostVars
  <2>2. QED
    BY <2>1, NeedKept, LeasesKept DEF MACInv, GoneOK
<1>26. CASE UNCHANGED vars
  <2>1. UNCHANGED <<t, installed, bound, binding, op, lease>>
    BY <1>26 DEF vars, memVars, opVars, hostVars
  <2>2. QED
    BY <2>1, NeedKept, LeasesKept DEF MACInv, GoneOK
<1>27. QED
  BY <1>1, <1>2, <1>3, <1>4, <1>5, <1>6, <1>7, <1>8, <1>9, <1>10, <1>11, <1>12, <1>13,
     <1>14, <1>15, <1>16, <1>17, <1>18, <1>19, <1>20, <1>21, <1>22, <1>23, <1>24, <1>25,
     <1>26
  DEF Next

(* The trees of bindings, leases and the transition stay covered.          *)
LEMMA StepHeldOK ==
    ASSUME MACInv, [Next]_vars
    PROVE  HeldOK'
<1>1. ASSUME NEW s \in Sessions, CreateBegin(s) PROVE HeldOK'
  BY <1>1, HeldStays DEF HeldOK, Held, Leased, CreateBegin, memVars, opVars
<1>2. ASSUME NEW s \in Sessions, Insert(s) PROVE HeldOK'
  BY <1>2, InsertTried, HeldStays
  DEF MACInv, HeldOK, Held, Firm, Ensuring, Leased, RolledBack, memVars, opVars,
      hostVars
<1>3. ASSUME NEW s \in Sessions, CreateDone(s) PROVE HeldOK'
  <2>1. /\ t.pc \in Ensuring /\ t.new = {} /\ t.todo = {} /\ s \in t.s
        /\ t'.pc = "idle" /\ Firm' = Firm
    BY <1>3 DEF CreateDone, Bind, At, Ensuring, Idle, MACInv, StageOK, Firm, hostVars
  <2>2. \A p \in host.issued[s] : Held(p, Normalized(t.cov))
    BY <2>1, HostType, NormalizedHolds DEF MACInv, HeldOK
  <2>3. QED
    BY <1>3, <2>1, <2>2, HeldStays
    DEF CreateDone, Bind, MACInv, TypeOK, HeldOK, Held, Ensuring, Leased, opVars
<1>4. ASSUME NEW s \in Sessions, DeleteRow(s) PROVE HeldOK'
  BY <1>4, HeldStays
  DEF MACInv, HeldOK, Held, Firm, Leased, DeleteRow, memVars, opVars, hostVars
<1>5. ASSUME NEW s \in Sessions, Expire(s) PROVE HeldOK'
  BY <1>5, HeldStays
  DEF MACInv, HeldOK, Held, Firm, Leased, Expire, memVars, opVars, hostVars
<1>6. ASSUME NEW s \in Sessions, ReleaseBinding(s) PROVE HeldOK'
  <2>1. t'.pc \notin Ensuring
    BY <1>6 DEF ReleaseBinding, At, Idle, Ensuring
  <2>2. \A r \in bound' : r \in bound /\ binding'[r] = binding[r]
    BY <1>6 DEF ReleaseBinding, MACInv, TypeOK
  <2>3. QED
    BY <1>6, <2>1, <2>2, HeldStays DEF ReleaseBinding, HeldOK, Held, Leased, opVars
<1>7. ASSUME NEW s \in Sessions, ReconcileSession(s) PROVE HeldOK'
  BY <1>7, HeldStays DEF HeldOK, Held, Leased, ReconcileSession, memVars, opVars
<1>8. ASSUME NEW s \in Sessions, ReconcileDone(s) PROVE HeldOK'
  <2>1. /\ t.pc \in Ensuring /\ t.new = {} /\ t.todo = {} /\ s \in t.s
        /\ t'.pc = "idle" /\ Firm' = Firm
    BY <1>8
    DEF ReconcileDone, Bind, Ensured, At, Ensuring, Idle, MACInv, StageOK, Firm,
        hostVars
  <2>2. \A p \in host.issued[s] : Held(p, Normalized(t.cov))
    BY <2>1, HostType, NormalizedHolds DEF MACInv, HeldOK
  <2>3. QED
    BY <1>8, <2>1, <2>2, HeldStays
    DEF ReconcileDone, Bind, MACInv, TypeOK, HeldOK, Held, Ensuring, Leased, opVars
<1>9. ASSUME NEW b \in Paths, EnsureTree(b) PROVE HeldOK'
  <2>1. /\ t.pc = "ensure" /\ t.new = {} /\ b \in t.todo
        /\ UNCHANGED <<host, bound, binding, op, lease>>
    BY <1>9, EnsureTried DEF MACInv, StageOK, memVars, opVars
  <2>2. ASSUME NEW r \in Paths, Resolved(b, r) PROVE HeldOK'
    <3>1. /\ Firm' = Firm /\ t'.pc = "ensure" /\ t'.cov = t.cov \cup {Coverage(r)}
          /\ t'.s = t.s /\ t'.todo = t.todo \ {b} /\ t'.new = {}
      BY <2>1, <2>2 DEF Resolved, Firm
    <3>2. Held(b, {Coverage(r)})
      BY <2>1, <2>2 DEF Resolved, Held, Coverage, Firm, Present
    <3>3. QED
      BY <2>1, <3>1, <3>2, HeldStays DEF MACInv, HeldOK, Held, Leased
  <2>3. CASE Created(b)
    <3>1. /\ Firm' = Firm /\ t'.pc = "record" /\ t'.cov = t.cov
          /\ t'.s = t.s /\ t'.todo = t.todo \ {b} /\ t'.new = {b}
      BY <2>1, <2>3, PathAssumption DEF Created, Firm, Present, Covers
    <3>2. QED
      BY <2>1, <3>1, HeldStays DEF MACInv, HeldOK, Held, Ensuring, Leased
  <2>4. ASSUME NEW left \in SUBSET {b}, RolledBack(left) PROVE HeldOK'
    BY <2>1, <2>4, HeldStays DEF RolledBack, HeldOK, Held, Leased
  <2>5. QED
    BY <1>9, <2>2, <2>3, <2>4, EnsureTried DEF MACInv
<1>10. ASSUME NEW b \in Paths, Rollback(b) \/ Retry(b) \/ Stale(b) PROVE HeldOK'
  BY <1>10, PassVisits, HeldStays
  DEF MACInv, HeldOK, Held, Ensuring, Passes, Leased, Visited, opVars
<1>11. ASSUME NEW c \in t.cov, ReleaseBoundary(c) PROVE HeldOK'
  BY <1>11, ReleaseDrops, HeldStays
  DEF MACInv, HeldOK, Held, Ensuring, Leased, Dropped, opVars
<1>12. ASSUME NEW o \in Ops, Acquire(o) PROVE HeldOK'
  <2>1. UNCHANGED <<bound, binding, t>> /\ t.pc = "idle"
    BY <1>12 DEF Acquire, At
  <2>2. QED
    BY <1>12, <2>1, HeldStays DEF Acquire, MACInv, TypeOK, HeldOK, Held, Ensuring, Leased
<1>13. ASSUME NEW o \in Ops, WorkloadState(o) PROVE HeldOK'
  BY <1>13, HeldStays
  DEF MACInv, TypeOK, HeldOK, Held, Firm, Leased, WorkloadState, memVars, hostVars
<1>14. ASSUME NEW o \in Ops, ReleaseLease(o) PROVE HeldOK'
  BY <1>14, HeldStays
  DEF MACInv, TypeOK, HeldOK, Held, Leased, ReleaseLease, Idle, memVars
<1>15. CASE RecordOwnership
  <2>1. t.pc = "record" /\ UNCHANGED <<host, bound, binding, op, lease>>
    BY <1>15, RecordTried DEF MACInv, memVars, opVars
  <2>2. CASE Recorded
    <3>1. /\ Firm \cup t.new \subseteq Firm' /\ t'.pc = "ensure" /\ t'.s = t.s
          /\ t'.todo = t.todo /\ t'.new = {} /\ t.cov \subseteq t'.cov
      BY <2>1, <2>2 DEF Recorded, Firm, MACInv, PrepOK, Ensuring
    <3>2. \A p \in t.new : \E c \in t'.cov : c.boundary \in Firm' /\ Covers(c.boundary, p)
      <4>1. \A p \in t.new : [boundary |-> p, owned |-> TRUE] \in t'.cov
        BY <2>2 DEF Recorded
      <4>2. t.new \subseteq Paths
        BY DEF MACInv, TypeOK, Transitions
      <4>3. \A p \in t.new : Covers(p, p) /\ p \in Firm'
        BY <3>1, <4>2, PathAssumption DEF Covers
      <4>4. \A p : [boundary |-> p, owned |-> TRUE].boundary = p
        OBVIOUS
      <4>5. QED
        BY <4>1, <4>3, <4>4
    <3>3. QED
      BY <2>1, <3>1, <3>2, HeldStays DEF MACInv, HeldOK, Held, Ensuring, Leased
  <2>3. ASSUME NEW left \in SUBSET Paths, RolledBack(left) PROVE HeldOK'
    BY <2>1, <2>3, HeldStays DEF RolledBack, HeldOK, Held, Leased
  <2>4. QED
    BY <1>15, <2>2, <2>3, RecordTried DEF MACInv, TypeOK, Transitions
<1>16. CASE Forget
  BY <1>16, HeldStays DEF MACInv, HeldOK, Held, Firm, Leased, Forget, opVars
<1>17. CASE RetryBegin
  BY <1>17, HeldStays DEF HeldOK, Held, Leased, RetryBegin, Idle, memVars, opVars
<1>18. CASE PassEnd
  BY <1>18, HeldStays DEF HeldOK, Held, Leased, PassEnd, Idle, memVars, opVars
<1>19. CASE Crash
  BY <1>19, HeldStays DEF HeldOK, Leased, Crash, Idle
<1>20. CASE OfflineCleanup
  BY <1>20, HeldStays
  DEF MACInv, HeldOK, Held, Firm, Leased, OfflineCleanup, memVars, opVars, hostVars
<1>21. CASE ReconcileWorkloads
  BY <1>21, HeldStays
  DEF MACInv, HeldOK, Held, Firm, Leased, ReconcileWorkloads, memVars, hostVars
<1>22. CASE Import
  BY <1>22, HeldStays DEF MACInv, HeldOK, Held, Firm, Leased, Import, memVars, opVars
<1>23. CASE StaleBegin
  BY <1>23, HeldStays DEF HeldOK, Held, Leased, StaleBegin, Idle, memVars, opVars
<1>24. CASE StaleEnd
  BY <1>24, HeldStays DEF HeldOK, Held, Leased, StaleEnd, Idle, memVars, opVars
<1>25. CASE Serve
  BY <1>25, HeldStays
  DEF MACInv, HeldOK, Held, Firm, Leased, Serve, memVars, opVars, hostVars
<1>26. CASE UNCHANGED vars
  BY <1>26, HeldStays
  DEF MACInv, HeldOK, Held, Firm, Leased, vars, memVars, opVars, hostVars
<1>27. QED
  BY <1>1, <1>2, <1>3, <1>4, <1>5, <1>6, <1>7, <1>8, <1>9, <1>10, <1>11, <1>12, <1>13,
     <1>14, <1>15, <1>16, <1>17, <1>18, <1>19, <1>20, <1>21, <1>22, <1>23, <1>24, <1>25,
     <1>26
  DEF Next

(* The trees of workload state that lost its lease stay covered.           *)
LEMMA StepPendingOK ==
    ASSUME MACInv, [Next]_vars
    PROVE  PendingOK'
<1>1. ASSUME NEW s \in Sessions, CreateBegin(s) PROVE PendingOK'
  BY <1>1, StepFirmSafe
  DEF MACInv, PendingOK, Lost, FirmSafe, Removable, Passes, CreateBegin, opVars
<1>2. ASSUME NEW s \in Sessions, Insert(s) PROVE PendingOK'
  <2>1. t'.pc \in Passes => t'.pend \in ReadPending
    BY <1>2, InsertTried DEF MACInv, RolledBack, Passes
  <2>2. UNCHANGED <<op, rec>>
    BY <1>2, InsertTried DEF MACInv, opVars
  <2>3. QED
    BY <2>1, <2>2, PendingKnows, StepFirmSafe
    DEF MACInv, PendingOK, Lost, FirmSafe, Removable
<1>3. ASSUME NEW s \in Sessions, CreateDone(s) PROVE PendingOK'
  BY <1>3, StepFirmSafe
  DEF MACInv, PendingOK, Lost, FirmSafe, Removable, Passes, CreateDone, Bind, Idle,
      opVars
<1>4. ASSUME NEW s \in Sessions, DeleteRow(s) PROVE PendingOK'
  BY <1>4, StepFirmSafe
  DEF MACInv, PendingOK, Lost, FirmSafe, Removable, DeleteRow, opVars
<1>5. ASSUME NEW s \in Sessions, Expire(s) PROVE PendingOK'
  BY <1>5, StepFirmSafe DEF MACInv, PendingOK, Lost, FirmSafe, Removable, Expire, opVars
<1>6. ASSUME NEW s \in Sessions, ReleaseBinding(s) PROVE PendingOK'
  BY <1>6, StepFirmSafe
  DEF MACInv, TypeOK, Transitions, StageOK, PendingOK, Lost, FirmSafe, Removable, Passes,
      ReleaseBinding, At, Idle, opVars, hostVars, bootVars
<1>7. ASSUME NEW s \in Sessions, ReconcileSession(s) PROVE PendingOK'
  BY <1>7, StepFirmSafe
  DEF MACInv, PendingOK, Lost, FirmSafe, Removable, Passes, ReconcileSession, opVars
<1>8. ASSUME NEW s \in Sessions, ReconcileDone(s) PROVE PendingOK'
  BY <1>8, StepFirmSafe
  DEF MACInv, PendingOK, Lost, FirmSafe, Removable, Passes, ReconcileDone, Bind, Idle,
      opVars
<1>9. ASSUME NEW b \in Paths, EnsureTree(b) PROVE PendingOK'
  <2>1. t'.pc \in Passes => t'.pend \in ReadPending
    BY <1>9, EnsureTried DEF MACInv, RolledBack, Resolved, Created, Passes
  <2>2. UNCHANGED <<op, rec>>
    BY <1>9, EnsureTried DEF MACInv, opVars
  <2>3. QED
    BY <2>1, <2>2, PendingKnows, StepFirmSafe
    DEF MACInv, PendingOK, Lost, FirmSafe, Removable
<1>10. ASSUME NEW b \in Paths, Rollback(b) \/ Retry(b) \/ Stale(b) PROVE PendingOK'
  <2>1. /\ t'.pend = t.pend /\ t'.pc = t.pc
        /\ UNCHANGED <<op, rec>>
    BY <1>10, PassVisits DEF Visited, MACInv, opVars
  <2>2. QED
    BY <2>1, StepFirmSafe DEF MACInv, PendingOK, Lost, FirmSafe, Removable
<1>11. ASSUME NEW c \in t.cov, ReleaseBoundary(c) PROVE PendingOK'
  BY <1>11, ReleaseDrops, StepFirmSafe
  DEF MACInv, PendingOK, Lost, FirmSafe, Removable, Passes, Dropped, opVars
<1>12. ASSUME NEW o \in Ops, Acquire(o) PROVE PendingOK'
  BY <1>12, StepFirmSafe DEF MACInv, PendingOK, Lost, FirmSafe, Removable, Acquire
<1>13. ASSUME NEW o \in Ops, WorkloadState(o) PROVE PendingOK'
  <2>1. UNCHANGED t
    BY <1>13 DEF WorkloadState
  <2>2. \A x \in Ops : Lost(x)' => Lost(x)
    BY <1>13 DEF WorkloadState, Lost, MACInv, TypeOK
  <2>3. QED
    BY <2>1, <2>2, StepFirmSafe DEF MACInv, PendingOK, FirmSafe, Removable
<1>14. ASSUME NEW o \in Ops, ReleaseLease(o) PROVE PendingOK'
  BY <1>14, StepFirmSafe
  DEF MACInv, PendingOK, Lost, FirmSafe, Removable, Passes, ReleaseLease
<1>15. CASE RecordOwnership
  <2>1. t'.pc \in Passes => t'.pend \in ReadPending
    BY <1>15, RecordTried DEF MACInv, RolledBack, Recorded, Passes
  <2>2. UNCHANGED <<op, rec>>
    BY <1>15, RecordTried DEF MACInv, opVars
  <2>3. QED
    BY <2>1, <2>2, PendingKnows, StepFirmSafe
    DEF MACInv, PendingOK, Lost, FirmSafe, Removable
<1>16. CASE Forget
  BY <1>16, StepFirmSafe DEF MACInv, PendingOK, Lost, FirmSafe, Removable, Forget, opVars
<1>17. CASE RetryBegin
  <2>1. t'.pc = "retry" /\ t'.pend \in ReadPending
    BY <1>17 DEF RetryBegin
  <2>2. UNCHANGED <<op, rec>>
    BY <1>17 DEF RetryBegin, opVars
  <2>3. QED
    BY <2>1, <2>2, PendingKnows, StepFirmSafe
    DEF MACInv, PendingOK, Lost, FirmSafe, Removable
<1>18. CASE PassEnd
  BY <1>18, StepFirmSafe
  DEF MACInv, PendingOK, Lost, FirmSafe, Removable, Passes, PassEnd, Idle, opVars
<1>19. CASE Crash
  <2>1. t'.pc = "idle" /\ Firm \subseteq Firm' /\ UNCHANGED <<host, rec>>
    BY <1>19 DEF Crash, Idle, Firm, hostVars
  <2>2. ASSUME NEW o \in Ops, Lost(o)', NEW p \in host.issued[SessionOf[o]]
        PROVE  p \in host.home \/ \E b \in Firm : Covers(b, p)
    <3>1. rec[o] # "none" /\ op[o] \in {"held", "lost"}
      BY <2>1, <2>2 DEF Lost, MACInv, RowOK
    <3>2. QED
      BY <2>2, <3>1 DEF Lost, MACInv, PendingOK, HeldOK, Held, Leased
  <2>3. QED
    BY <2>1, <2>2 DEF PendingOK, Passes
<1>20. CASE OfflineCleanup
  BY <1>20, StepFirmSafe
  DEF MACInv, PendingOK, Lost, FirmSafe, Removable, OfflineCleanup, opVars
<1>21. CASE ReconcileWorkloads
  <2>1. t.pc = "idle" /\ UNCHANGED <<t, op>>
    BY <1>21 DEF ReconcileWorkloads, MACInv, PhaseOK
  <2>2. \A o \in Ops : Lost(o)' => Lost(o)
    BY <1>21, <2>1 DEF ReconcileWorkloads, Lost
  <2>3. QED
    BY <2>1, <2>2, StepFirmSafe DEF MACInv, PendingOK, FirmSafe, Removable
<1>22. CASE Import
  BY <1>22, StepFirmSafe DEF MACInv, PendingOK, Lost, FirmSafe, Removable, Import, opVars
<1>23. CASE StaleBegin
  <2>1. t'.pc = "stale" /\ t'.pend \in ReadPending
    BY <1>23 DEF StaleBegin
  <2>2. UNCHANGED <<op, rec>>
    BY <1>23 DEF StaleBegin, opVars
  <2>3. QED
    BY <2>1, <2>2, PendingKnows, StepFirmSafe
    DEF MACInv, PendingOK, Lost, FirmSafe, Removable
<1>24. CASE StaleEnd
  BY <1>24, StepFirmSafe
  DEF MACInv, PendingOK, Lost, FirmSafe, Removable, Passes, StaleEnd, Idle, opVars
<1>25. CASE Serve
  BY <1>25, StepFirmSafe DEF MACInv, PendingOK, Lost, FirmSafe, Removable, Serve, opVars
<1>26. CASE UNCHANGED vars
  BY <1>26, StepFirmSafe DEF MACInv, PendingOK, Lost, FirmSafe, Removable, vars, opVars
<1>27. QED
  BY <1>1, <1>2, <1>3, <1>4, <1>5, <1>6, <1>7, <1>8, <1>9, <1>10, <1>11, <1>12, <1>13,
     <1>14, <1>15, <1>16, <1>17, <1>18, <1>19, <1>20, <1>21, <1>22, <1>23, <1>24, <1>25,
     <1>26
  DEF Next

(* What a transition creates is an issued tree and the topmost boundary.   *)
LEMMA StepPrepOK ==
    ASSUME MACInv, [Next]_vars
    PROVE  PrepOK'
<1>1. ASSUME NEW s \in Sessions, CreateBegin(s) PROVE PrepOK'
  BY <1>1, HostType DEF PrepOK, CreateBegin, Idle
<1>2. ASSUME NEW s \in Sessions, Insert(s) PROVE PrepOK'
  BY <1>2, InsertTried, HostType
  DEF MACInv, PrepOK, Present, Ensuring, RolledBack, hostVars
<1>3. ASSUME NEW s \in Sessions, CreateDone(s) PROVE PrepOK'
  BY <1>3, HostType DEF PrepOK, CreateDone, Bind, Idle
<1>4. ASSUME NEW s \in Sessions, DeleteRow(s) PROVE PrepOK'
  BY <1>4, HostType DEF MACInv, PrepOK, Present, DeleteRow, hostVars
<1>5. ASSUME NEW s \in Sessions, Expire(s) PROVE PrepOK'
  BY <1>5, HostType DEF MACInv, PrepOK, Present, Expire, hostVars
<1>6. ASSUME NEW s \in Sessions, ReleaseBinding(s) PROVE PrepOK'
  BY <1>6, HostType
  DEF MACInv, TypeOK, Transitions, StageOK, PrepOK, Present, Boundaries, Ensuring,
      Passes, ReleaseBinding, At, Idle, opVars, hostVars, bootVars
<1>7. ASSUME NEW s \in Sessions, ReconcileSession(s) PROVE PrepOK'
  BY <1>7, HostType DEF PrepOK, ReconcileSession, Idle
<1>8. ASSUME NEW s \in Sessions, ReconcileDone(s) PROVE PrepOK'
  BY <1>8, HostType DEF PrepOK, ReconcileDone, Bind, Idle
<1>9. ASSUME NEW b \in Paths, EnsureTree(b) PROVE PrepOK'
  <2>1. ASSUME NEW r \in Paths, Resolved(b, r) PROVE PrepOK'
    BY <1>9, <2>1, EnsureTried DEF MACInv, PrepOK, Resolved, Boundaries, Present
  <2>2. CASE Created(b)
    BY <1>9, <2>2, EnsureTried, PathAssumption, HostType, HostAssumption
    DEF MACInv, PrepOK, Ensuring, Covers, Created, StageOK, Present, TypeOK, rowVars,
        memVars, opVars, bootVars
  <2>3. ASSUME NEW left \in SUBSET {b}, RolledBack(left), installed' = installed \cup left
        PROVE  PrepOK'
    BY <1>9, <2>3, EnsureTried DEF PrepOK, RolledBack
  <2>4. QED
    BY <1>9, <2>1, <2>2, <2>3, EnsureTried DEF MACInv
<1>10. ASSUME NEW b \in Paths, Rollback(b) \/ Retry(b) \/ Stale(b) PROVE PrepOK'
  BY <1>10, PassVisits, HostType DEF MACInv, PrepOK, Ensuring, Passes, Visited
<1>11. ASSUME NEW c \in t.cov, ReleaseBoundary(c) PROVE PrepOK'
  BY <1>11, ReleaseDrops, HostType DEF MACInv, PrepOK, Ensuring, Dropped
<1>12. ASSUME NEW o \in Ops, Acquire(o) PROVE PrepOK'
  BY <1>12, HostType DEF PrepOK, Ensuring, Acquire, At
<1>13. ASSUME NEW o \in Ops, WorkloadState(o) PROVE PrepOK'
  BY <1>13, HostType DEF MACInv, PrepOK, Present, WorkloadState, hostVars
<1>14. ASSUME NEW o \in Ops, ReleaseLease(o) PROVE PrepOK'
  BY <1>14, HostType DEF PrepOK, ReleaseLease, Idle
<1>15. CASE RecordOwnership
  <2>1. CASE Recorded
    <3>1. \A p \in t.new : [boundary |-> p, owned |-> TRUE] \in t'.cov
      BY <2>1 DEF Recorded
    <3>2. t'.prep \subseteq Boundaries(t'.cov)
      <4>1. \A p : [boundary |-> p, owned |-> TRUE].boundary = p
        OBVIOUS
      <4>2. t.new \subseteq Boundaries(t'.cov)
        BY <3>1, <4>1 DEF Boundaries
      <4>3. t.prep \subseteq Boundaries(t'.cov)
        BY <1>15, <2>1, RecordTried DEF Recorded, MACInv, PrepOK, Ensuring, Boundaries
      <4>4. QED
        BY <2>1, <4>2, <4>3 DEF Recorded
    <3>3. QED
      BY <1>15, <2>1, <3>2, RecordTried DEF MACInv, PrepOK, Ensuring, Recorded, Present
  <2>2. ASSUME NEW left \in {{}, t.new}, UNCHANGED owner, RolledBack(left),
               installed' = installed \ (t.new \ left)
        PROVE  PrepOK'
    BY <1>15, <2>2, RecordTried DEF PrepOK, RolledBack
  <2>3. QED
    BY <1>15, <2>1, <2>2, RecordTried DEF MACInv
<1>16. CASE Forget
  BY <1>16, HostType DEF MACInv, PrepOK, Present, Forget
<1>17. CASE RetryBegin
  BY <1>17, HostType DEF PrepOK, RetryBegin, Idle
<1>18. CASE PassEnd
  BY <1>18, HostType DEF PrepOK, PassEnd, Idle
<1>19. CASE Crash
  BY <1>19, HostType DEF PrepOK, Crash, Idle
<1>20. CASE OfflineCleanup
  BY <1>20, HostType DEF MACInv, PrepOK, Present, OfflineCleanup, hostVars
<1>21. CASE ReconcileWorkloads
  BY <1>21, HostType DEF MACInv, PrepOK, Present, ReconcileWorkloads, hostVars
<1>22. CASE Import
  BY <1>22, HostType DEF MACInv, PrepOK, Present, Import
<1>23. CASE StaleBegin
  BY <1>23, HostType DEF PrepOK, StaleBegin, Idle
<1>24. CASE StaleEnd
  BY <1>24, HostType DEF PrepOK, StaleEnd, Idle
<1>25. CASE Serve
  BY <1>25, HostType DEF MACInv, PrepOK, Present, Serve, hostVars
<1>26. CASE UNCHANGED vars
  BY <1>26, HostType DEF MACInv, PrepOK, Present, vars, hostVars
<1>27. QED
  BY <1>1, <1>2, <1>3, <1>4, <1>5, <1>6, <1>7, <1>8, <1>9, <1>10, <1>11, <1>12, <1>13,
     <1>14, <1>15, <1>16, <1>17, <1>18, <1>19, <1>20, <1>21, <1>22, <1>23, <1>24, <1>25,
     <1>26
  DEF Next

(* A pass keeps deciding with what is pending.                             *)
LEMMA StepLinkOK ==
    ASSUME MACInv, [Next]_vars
    PROVE  LinkOK'
<1>1. ASSUME NEW s \in Sessions, CreateBegin(s) PROVE LinkOK'
  BY <1>1 DEF CreateBegin, LinkOK, Passes
<1>2. ASSUME NEW s \in Sessions, Insert(s) PROVE LinkOK'
  <2>1. t'.pc \in Passes => t'.pc = "rollback" /\ (t'.todo \subseteq excused' \/ t'.pend = Pending)
    BY <1>2, InsertTried DEF MACInv, RolledBack, Passes
  <2>2. \A o \in Ops : rec[o] # "none" => SessionOf[o] # s
    BY <1>2, InsertTried DEF MACInv, RowOK
  <2>3. Steady
    BY <1>2, <2>2, InsertTried, RowsSteady, SessionAssumption
    DEF MACInv, TypeOK, HasRow, opVars
  <2>4. t'.pend = Pending => Linked'
    BY <2>3, LinkKept
  <2>5. "rollback" # "retry"
    OBVIOUS
  <2>6. QED
    BY <2>1, <2>4, <2>5 DEF LinkOK, Passes
<1>3. ASSUME NEW s \in Sessions, CreateDone(s) PROVE LinkOK'
  BY <1>3 DEF CreateDone, Bind, Idle, LinkOK
<1>4. ASSUME NEW s \in Sessions, DeleteRow(s) PROVE LinkOK'
  <2>1. UNCHANGED <<host, t, op, rec, excused, deferred>>
    BY <1>4 DEF DeleteRow, memVars, opVars
  <2>2. Steady
    BY <1>4, <2>1, RowsSteady, SessionAssumption DEF DeleteRow, HasRow
  <2>3. QED
    BY <2>1, <2>2, LinkKept DEF MACInv, LinkOK
<1>5. ASSUME NEW s \in Sessions, Expire(s) PROVE LinkOK'
  <2>1. UNCHANGED <<host, t, op, rec, excused, deferred>>
    BY <1>5 DEF Expire, memVars, opVars
  <2>2. Steady
    BY <1>5, <2>1, RowsSteady, SessionAssumption DEF Expire, HasRow
  <2>3. QED
    BY <2>1, <2>2, LinkKept DEF MACInv, LinkOK
<1>6. ASSUME NEW s \in Sessions, ReleaseBinding(s) PROVE LinkOK'
  BY <1>6 DEF ReleaseBinding, At, Idle, LinkOK, Passes
<1>7. ASSUME NEW s \in Sessions, ReconcileSession(s) PROVE LinkOK'
  BY <1>7 DEF ReconcileSession, LinkOK, Passes
<1>8. ASSUME NEW s \in Sessions, ReconcileDone(s) PROVE LinkOK'
  BY <1>8 DEF ReconcileDone, Bind, Idle, LinkOK
<1>9. ASSUME NEW b \in Paths, EnsureTree(b) PROVE LinkOK'
  <2>1. t'.pc \in Passes => t'.pc = "rollback" /\ (t'.todo \subseteq excused' \/ t'.pend = Pending)
    BY <1>9, EnsureTried DEF MACInv, Resolved, Created, RolledBack, Passes
  <2>2. Steady
    BY <1>9, EnsureTried, RowsSteady DEF MACInv, HasRow, rowVars, opVars
  <2>3. t'.pend = Pending => Linked'
    BY <2>2, LinkKept
  <2>4. "rollback" # "retry"
    OBVIOUS
  <2>5. QED
    BY <2>1, <2>3, <2>4 DEF LinkOK, Passes
<1>10. ASSUME NEW b \in Paths, Rollback(b) \/ Retry(b) \/ Stale(b) PROVE LinkOK'
  <2>1. Visited(b) /\ UNCHANGED <<host, row, op, rec>>
    BY <1>10, PassVisits DEF MACInv, rowVars, opVars
  <2>2. Steady
    BY <2>1, RowsSteady DEF HasRow
  <2>3. t.todo \subseteq Paths
    BY DEF MACInv, TypeOK, Transitions
  <2>4. QED
    BY <2>1, <2>2, <2>3, LinkKept DEF Visited, MACInv, LinkOK
<1>11. ASSUME NEW c \in t.cov, ReleaseBoundary(c) PROVE LinkOK'
  BY <1>11, ReleaseDrops DEF MACInv, Dropped, LinkOK, Passes
<1>12. ASSUME NEW o \in Ops, Acquire(o) PROVE LinkOK'
  BY <1>12 DEF Acquire, At, LinkOK, Passes
<1>13. ASSUME NEW o \in Ops, WorkloadState(o) PROVE LinkOK'
  <2>1. UNCHANGED <<host, t, excused, deferred>>
    BY <1>13 DEF WorkloadState, memVars
  <2>2. AnyLease'
    BY <1>13 DEF WorkloadState, AnyLease, Leased, MACInv, TypeOK
  <2>3. QED
    BY <2>1, <2>2 DEF MACInv, LinkOK, Linked
<1>14. ASSUME NEW o \in Ops, ReleaseLease(o) PROVE LinkOK'
  BY <1>14 DEF ReleaseLease, LinkOK, Passes
<1>15. CASE RecordOwnership
  <2>1. t'.pc \in Passes => t'.pc = "rollback" /\ (t'.todo \subseteq excused' \/ t'.pend = Pending)
    BY <1>15, RecordTried DEF MACInv, Recorded, RolledBack, Passes
  <2>2. Steady
    BY <1>15, RecordTried, RowsSteady DEF MACInv, HasRow, rowVars, opVars
  <2>3. t'.pend = Pending => Linked'
    BY <2>2, LinkKept
  <2>4. "rollback" # "retry"
    OBVIOUS
  <2>5. QED
    BY <2>1, <2>3, <2>4 DEF LinkOK, Passes
<1>16. CASE Forget
  <2>1. /\ t'.pc = t.pc /\ t'.todo = t.todo /\ t'.pend = t.pend
        /\ excused \subseteq excused' /\ deferred' = deferred \ t.gone
        /\ UNCHANGED <<host, row, op, rec>>
    BY <1>16 DEF Forget, rowVars, opVars
  <2>2. Steady
    BY <2>1, RowsSteady DEF HasRow
  <2>3. QED
    BY <2>1, <2>2, LinkKept DEF MACInv, LinkOK, GoneOK
<1>17. CASE RetryBegin
  <2>1. /\ t'.pc = "retry" /\ t'.todo = deferred /\ UNCHANGED deferred
        /\ t'.todo \subseteq excused' \/ t'.pend = Pending
    BY <1>17 DEF RetryBegin, memVars
  <2>2. Steady
    BY <1>17, RowsSteady DEF RetryBegin, HasRow, rowVars, opVars
  <2>3. QED
    BY <2>1, <2>2, LinkKept DEF LinkOK
<1>18. CASE PassEnd
  BY <1>18 DEF PassEnd, Idle, LinkOK
<1>19. CASE Crash
  BY <1>19 DEF Crash, Idle, LinkOK
<1>20. CASE OfflineCleanup
  <2>1. UNCHANGED <<host, t, op, rec, excused, deferred>>
    BY <1>20 DEF OfflineCleanup, memVars, opVars
  <2>2. Steady
    BY <1>20, <2>1, RowsSteady, SessionAssumption DEF OfflineCleanup, HasRow, Gone
  <2>3. QED
    BY <2>1, <2>2, LinkKept DEF MACInv, LinkOK
<1>21. CASE ReconcileWorkloads
  BY <1>21 DEF ReconcileWorkloads, MACInv, PhaseOK, LinkOK, Passes
<1>22. CASE Import
  BY <1>22 DEF Import, MACInv, PhaseOK, LinkOK, Passes
<1>23. CASE StaleBegin
  <2>1. t'.pc = "stale" /\ (t'.todo \subseteq excused' \/ t'.pend = Pending)
    BY <1>23 DEF StaleBegin
  <2>2. Steady
    BY <1>23, RowsSteady DEF StaleBegin, HasRow, rowVars, opVars
  <2>3. QED
    BY <2>1, <2>2, LinkKept DEF LinkOK
<1>24. CASE StaleEnd
  BY <1>24 DEF StaleEnd, Idle, LinkOK
<1>25. CASE Serve
  <2>1. UNCHANGED <<host, t, op, rec, excused, deferred>>
    BY <1>25 DEF Serve, memVars, opVars
  <2>2. Steady
    BY <1>25, <2>1, RowsSteady, SessionAssumption DEF Serve, HasRow, Gone
  <2>3. QED
    BY <2>1, <2>2, LinkKept DEF MACInv, LinkOK
<1>26. CASE UNCHANGED vars
  <2>1. UNCHANGED <<host, t, op, rec, excused, deferred>>
    BY <1>26 DEF vars, memVars, opVars
  <2>2. Steady
    BY <1>26, <2>1, RowsSteady, SessionAssumption DEF vars, HasRow, rowVars
  <2>3. QED
    BY <2>1, <2>2, LinkKept DEF MACInv, LinkOK
<1>27. QED
  BY <1>1, <1>2, <1>3, <1>4, <1>5, <1>6, <1>7, <1>8, <1>9, <1>10, <1>11, <1>12, <1>13,
     <1>14, <1>15, <1>16, <1>17, <1>18, <1>19, <1>20, <1>21, <1>22, <1>23, <1>24, <1>25,
     <1>26
  DEF Next

(* Every owned boundary stays accounted for.                               *)
LEMMA StepStrandOK ==
    ASSUME MACInv, [Next]_vars
    PROVE  StrandOK'
<1>1. ASSUME NEW s \in Sessions, CreateBegin(s) PROVE StrandOK'
  <2>1. /\ UNCHANGED <<host, row, phase, installed, owner, deferred, count, excused>>
        /\ UNCHANGED <<bound, binding, op, lease, rec>>
    BY <1>1 DEF CreateBegin, rowVars, memVars, opVars, hostVars, bootVars
  <2>2. \A b : Blocked(b) => Blocked(b)'
    BY <2>1, RowsSteady, BlockedKept, NeedKept, LeasesKept DEF HasRow
  <2>3. QED
    BY <1>1, <2>1, <2>2 DEF CreateBegin, At, MACInv, StrandOK, Accounted, Ensuring, Passes
<1>2. ASSUME NEW s \in Sessions, Insert(s) PROVE StrandOK'
  <2>1. /\ t.pc = "ensure" /\ t.new = {} /\ excused \subseteq excused'
        /\ UNCHANGED <<host, phase, installed, owner, deferred, count, bound, binding, op, lease, rec>>
    BY <1>2, InsertTried
    DEF MACInv, StageOK, RolledBack, memVars, opVars, hostVars, bootVars
  <2>2. \/ t'.pc = "bind" /\ t'.prep = t.prep
        \/ t'.pc \in {"idle", "rollback"} /\ t'.todo = t.prep /\ (t'.pc = "idle" => t'.todo = {})
    BY <1>2, InsertTried DEF MACInv, RolledBack, Idle
  <2>3. \A o \in Ops : rec[o] # "none" => SessionOf[o] # s
    BY <1>2, InsertTried DEF MACInv, RowOK
  <2>4. Steady
    BY <1>2, <2>3, InsertTried, RowsSteady, SessionAssumption
    DEF MACInv, TypeOK, HasRow, opVars
  <2>5. \A b : Blocked(b) => Blocked(b)'
    BY <2>1, <2>4, BlockedKept, NeedKept, LeasesKept
  <2>6. QED
    BY <2>1, <2>2, <2>5 DEF MACInv, StrandOK, Accounted, Passes, Ensuring
<1>3. ASSUME NEW s \in Sessions, CreateDone(s) PROVE StrandOK'
  <2>1. /\ UNCHANGED <<host, row, phase, installed, owner, deferred, excused, op, lease, rec>>
        /\ t.pc = "bind" /\ t'.pc = "idle" /\ t.new = {}
    BY <1>3
    DEF CreateDone, Bind, At, Idle, rowVars, opVars, hostVars, bootVars, MACInv, StageOK
  <2>2. \A b \in Paths : /\ count[b] \in Nat /\ count'[b] \in Nat
                         /\ count[b] > 0 => count'[b] > 0
                         /\ b \in Boundaries(Normalized(t.cov)) => count'[b] > 0
    BY <1>3 DEF CreateDone, Bind, MACInv, TypeOK
  <2>3. \A b \in t.prep : b \in Boundaries(Normalized(t.cov))
    BY <2>1, PreparedBound DEF Ensuring
  <2>4. \A b : StillNeeded(b) => StillNeeded(b)'
    BY <1>3, <2>1 DEF CreateDone, Bind, StillNeeded, Leased, MACInv, TypeOK, StageOK
  <2>5. Steady
    BY <2>1, RowsSteady DEF HasRow
  <2>6. \A b \in Paths : count[b] # 0 => count'[b] # 0
    BY <2>2
  <2>7. \A b \in Paths : Blocked(b) => Blocked(b)'
    BY <2>4, <2>5, <2>6, BlockedKept
  <2>8. ASSUME NEW b \in installed \cap owner, Accounted(b) PROVE Accounted(b)'
    <3>1. b \in Paths
      BY DEF MACInv, TypeOK
    <3>2. CASE b \in t.prep
      BY <2>2, <2>3, <3>1, <3>2 DEF Accounted
    <3>3. QED
      BY <2>1, <2>2, <2>7, <2>8, <3>1, <3>2 DEF Accounted, Passes
  <2>9. QED
    BY <2>1, <2>8 DEF MACInv, StrandOK
<1>4. ASSUME NEW s \in Sessions, DeleteRow(s) PROVE StrandOK'
  <2>1. /\ UNCHANGED <<host, t, installed, owner, excused, deferred, count>>
        /\ UNCHANGED <<bound, binding, op, lease, rec>>
    BY <1>4 DEF DeleteRow, memVars, opVars, hostVars
  <2>2. Steady
    BY <1>4, <2>1, RowsSteady, SessionAssumption DEF DeleteRow, HasRow
  <2>3. \A b : Blocked(b) => Blocked(b)'
    BY <2>1, <2>2, BlockedKept, NeedKept, LeasesKept
  <2>4. QED
    BY <1>4, <2>1, <2>3 DEF DeleteRow, MACInv, StrandOK, Accounted
<1>5. ASSUME NEW s \in Sessions, Expire(s) PROVE StrandOK'
  <2>1. /\ UNCHANGED <<host, t, installed, owner, excused, deferred, count>>
        /\ UNCHANGED <<bound, binding, op, lease, rec>>
    BY <1>5 DEF Expire, memVars, opVars, hostVars
  <2>2. Steady
    BY <1>5, <2>1, RowsSteady, SessionAssumption DEF Expire, HasRow
  <2>3. \A b : Blocked(b) => Blocked(b)'
    BY <2>1, <2>2, BlockedKept, NeedKept, LeasesKept
  <2>4. QED
    BY <1>5, <2>1, <2>3 DEF Expire, MACInv, StrandOK, Accounted, bootVars
<1>6. ASSUME NEW s \in Sessions, ReleaseBinding(s) PROVE StrandOK'
  <2>1. UNCHANGED <<host, row, phase, installed, owner, deferred, count, excused, op, lease, rec>>
    BY <1>6 DEF ReleaseBinding, opVars, hostVars, bootVars
  <2>2. CASE s \in bound
    <3>1. t.pc = "idle" /\ t'.pc = "release"
      BY <1>6, <2>2 DEF ReleaseBinding, At, Idle
    <3>2. QED
      BY <2>1, <3>1 DEF MACInv, StrandOK, Accounted, Ensuring, Passes
  <2>3. CASE s \notin bound
    <3>1. UNCHANGED <<t, bound, binding>>
      BY <1>6, <2>3 DEF ReleaseBinding
    <3>2. \A b : Blocked(b) => Blocked(b)'
      BY <2>1, <3>1, RowsSteady, BlockedKept, NeedKept, LeasesKept DEF HasRow
    <3>3. QED
      BY <2>1, <3>1, <3>2 DEF MACInv, StrandOK, Accounted
  <2>4. QED
    BY <2>2, <2>3
<1>7. ASSUME NEW s \in Sessions, ReconcileSession(s) PROVE StrandOK'
  BY <1>7 DEF ReconcileSession, StrandOK
<1>8. ASSUME NEW s \in Sessions, ReconcileDone(s) PROVE StrandOK'
  BY <1>8 DEF ReconcileDone, Bind, Idle, StrandOK, bootVars
<1>9. ASSUME NEW b \in Paths, EnsureTree(b) PROVE StrandOK'
  <2>1. /\ t.pc = "ensure" /\ t.new = {}
        /\ UNCHANGED <<host, row, phase, owner, deferred, count, bound, binding, op, lease, rec>>
    BY <1>9, EnsureTried DEF MACInv, StageOK, rowVars, memVars, opVars, bootVars
  <2>2. \A d : Blocked(d) => Blocked(d)'
    BY <2>1, RowsSteady, BlockedKept, NeedKept, LeasesKept DEF HasRow
  <2>3. ASSUME NEW r \in Paths, Resolved(b, r) PROVE StrandOK'
    BY <2>1, <2>2, <2>3 DEF Resolved, MACInv, StrandOK, Accounted, Passes
  <2>4. CASE Created(b)
    BY <2>1, <2>2, <2>4 DEF Created, MACInv, StrandOK, Accounted, Passes, Ensuring
  <2>5. ASSUME NEW left \in SUBSET {b}, RolledBack(left), installed' = installed \cup left
        PROVE  StrandOK'
    <3>1. t'.pc = "idle" => t.prep = {}
      BY <2>5 DEF RolledBack, Idle
    <3>2. QED
      BY <2>1, <2>2, <2>5, <3>1 DEF RolledBack, MACInv, StrandOK, Accounted, Passes
  <2>6. QED
    BY <1>9, <2>3, <2>4, <2>5, EnsureTried DEF MACInv
<1>10. ASSUME NEW b \in Paths, Rollback(b) \/ Retry(b) \/ Stale(b) PROVE StrandOK'
  <2>1. /\ Visited(b) /\ UNCHANGED <<host, row, phase, count, owner>>
        /\ UNCHANGED <<bound, binding, op, lease, rec>>
    BY <1>10, PassVisits DEF MACInv, rowVars, opVars, bootVars
  <2>2. \A d : Blocked(d) => Blocked(d)'
    BY <2>1, RowsSteady, BlockedKept, NeedKept, LeasesKept DEF HasRow
  <2>3. b \in (installed' \cap owner') \ excused' => Accounted(b)'
    <3>1. SUFFICES ASSUME b \in (installed' \cap owner') \ excused' PROVE Accounted(b)'
      OBVIOUS
    <3>2. CASE count[b] > 0
      BY <2>1, <3>2 DEF Accounted
    <3>3. CASE b \in deferred' /\ ~MayBeRemoved(b, t.pend)
      <4>1. Linked
        BY <2>1, <3>1 DEF Visited, MACInv, LinkOK
      <4>2. QED
        BY <2>2, <3>3, <4>1, LinkBlocks DEF Accounted
    <3>4. QED
      BY <2>1, <3>1, <3>2, <3>3 DEF Visited, MACInv, LinkOK
  <2>4. \A d \in Paths \ {b} : Accounted(d) => Accounted(d)'
    BY <2>1, <2>2 DEF Visited, Accounted
  <2>5. installed \subseteq Paths
    BY DEF MACInv, TypeOK
  <2>6. QED
    BY <2>1, <2>3, <2>4, <2>5 DEF Visited, MACInv, StrandOK
<1>11. ASSUME NEW c \in t.cov, ReleaseBoundary(c) PROVE StrandOK'
  <2>1. Dropped(c) /\ c.boundary \in Paths /\ UNCHANGED <<phase, owner>>
    BY <1>11, ReleaseDrops DEF MACInv, bootVars
  <2>2. c.boundary \in owner => c.owned
    BY <2>1 DEF Dropped, MACInv, BackedOK, Known
  <2>3. ASSUME NEW b \in (installed' \cap owner') \ excused', StrandOK PROVE Accounted(b)' \/ ~Accounted(b)
    BY <2>1, <2>2, <2>3 DEF Dropped, Accounted, MACInv, TypeOK
  <2>4. QED
    BY <2>1, <2>3 DEF Dropped, MACInv, StrandOK
<1>12. ASSUME NEW o \in Ops, Acquire(o) PROVE StrandOK'
  <2>1. UNCHANGED <<t, phase, installed, owner, excused, deferred>>
    BY <1>12 DEF Acquire, hostVars, bootVars
  <2>2. AnyLease' /\ \A b \in Paths : count[b] > 0 => count'[b] > 0
    BY <1>12 DEF Acquire, AnyLease, Leased, MACInv, TypeOK
  <2>3. QED
    BY <2>1, <2>2 DEF MACInv, TypeOK, StrandOK, Accounted, Blocked
<1>13. ASSUME NEW o \in Ops, WorkloadState(o) PROVE StrandOK'
  <2>1. UNCHANGED <<t, phase, installed, owner, excused, deferred, count>>
    BY <1>13 DEF WorkloadState, memVars, hostVars, bootVars
  <2>2. AnyLease'
    BY <1>13 DEF WorkloadState, AnyLease, Leased, MACInv, TypeOK
  <2>3. QED
    BY <2>1, <2>2 DEF MACInv, StrandOK, Accounted, Blocked
<1>14. ASSUME NEW o \in Ops, ReleaseLease(o) PROVE StrandOK'
  <2>1. UNCHANGED <<phase, installed, owner, deferred, count, excused>>
    BY <1>14 DEF ReleaseLease, memVars, hostVars, bootVars
  <2>2. t.pc = "idle" /\ t'.pc = "release"
    BY <1>14 DEF ReleaseLease, At
  <2>3. QED
    BY <2>1, <2>2 DEF MACInv, StrandOK, Accounted, Ensuring, Passes
<1>15. CASE RecordOwnership
  <2>1. /\ t.pc = "record"
        /\ UNCHANGED <<host, row, phase, deferred, count, bound, binding, op, lease, rec>>
    BY <1>15, RecordTried DEF MACInv, rowVars, memVars, opVars, bootVars
  <2>2. \A d : Blocked(d) => Blocked(d)'
    BY <2>1, RowsSteady, BlockedKept, NeedKept, LeasesKept DEF HasRow
  <2>3. CASE Recorded
    BY <2>1, <2>2, <2>3 DEF Recorded, MACInv, StrandOK, Accounted, Passes, Ensuring
  <2>4. ASSUME NEW left \in {{}, t.new}, UNCHANGED owner, RolledBack(left),
               installed' = installed \ (t.new \ left)
        PROVE  StrandOK'
    <3>1. t'.pc = "idle" => t.prep = {}
      BY <2>4 DEF RolledBack, Idle
    <3>2. QED
      BY <2>1, <2>2, <2>4, <3>1 DEF RolledBack, MACInv, StrandOK, Accounted, Passes
  <2>5. QED
    BY <1>15, <2>3, <2>4, RecordTried DEF MACInv
<1>16. CASE Forget
  <2>1. /\ t'.pc = t.pc /\ t'.todo = t.todo /\ t'.new = t.new /\ t'.prep = t.prep
        /\ excused \subseteq excused' /\ deferred' = deferred \ t.gone
        /\ owner' \subseteq owner /\ UNCHANGED <<host, row, phase, installed, count>>
        /\ UNCHANGED <<bound, binding, op, lease, rec>>
    BY <1>16 DEF Forget, rowVars, opVars, bootVars
  <2>2. \A b : Blocked(b) => Blocked(b)'
    BY <2>1, RowsSteady, BlockedKept, NeedKept, LeasesKept DEF HasRow
  <2>3. QED
    BY <2>1, <2>2 DEF MACInv, StrandOK, Accounted, GoneOK
<1>17. CASE RetryBegin
  <2>1. UNCHANGED <<phase, installed, owner, deferred, count>>
    BY <1>17 DEF RetryBegin, memVars, hostVars, bootVars
  <2>2. t.pc = "release" /\ t'.pc = "retry" /\ t'.todo = deferred /\ excused \subseteq excused'
    BY <1>17 DEF RetryBegin, At
  <2>3. QED
    BY <2>1, <2>2 DEF MACInv, StrandOK, Accounted, Ensuring, Passes
<1>18. CASE PassEnd
  <2>1. /\ UNCHANGED <<host, row, phase, installed, owner, deferred, count, excused>>
        /\ UNCHANGED <<bound, binding, op, lease, rec>>
    BY <1>18 DEF PassEnd, rowVars, memVars, opVars, hostVars, bootVars
  <2>2. \A b : Blocked(b) => Blocked(b)'
    BY <2>1, RowsSteady, BlockedKept, NeedKept, LeasesKept DEF HasRow
  <2>3. QED
    BY <1>18, <2>1, <2>2 DEF PassEnd, At, MACInv, StrandOK, Accounted, Ensuring, PhaseOK
<1>19. CASE Crash
  BY <1>19 DEF Crash, Idle, StrandOK
<1>20. CASE OfflineCleanup
  BY <1>20 DEF OfflineCleanup, MACInv, PhaseOK, StrandOK, bootVars
<1>21. CASE ReconcileWorkloads
  BY <1>21 DEF ReconcileWorkloads, MACInv, PhaseOK, StrandOK
<1>22. CASE Import
  BY <1>22 DEF Import, MACInv, PhaseOK, StrandOK
<1>23. CASE StaleBegin
  <2>1. UNCHANGED <<installed, owner>> /\ (t'.todo = owner \/ owner \subseteq excused')
    BY <1>23 DEF StaleBegin, hostVars
  <2>2. t'.pc = "stale"
    BY <1>23 DEF StaleBegin
  <2>3. QED
    BY <2>1, <2>2 DEF StrandOK, Accounted, Passes
<1>24. CASE StaleEnd
  <2>1. /\ UNCHANGED <<host, row, installed, owner, deferred, count, excused>>
        /\ UNCHANGED <<bound, binding, op, lease, rec>>
    BY <1>24 DEF StaleEnd, rowVars, memVars, opVars, hostVars
  <2>2. \A b : Blocked(b) => Blocked(b)'
    BY <2>1, RowsSteady, BlockedKept, NeedKept, LeasesKept DEF HasRow
  <2>3. QED
    BY <1>24, <2>1, <2>2 DEF StaleEnd, At, MACInv, StrandOK, Accounted, Ensuring
<1>25. CASE Serve
  <2>1. /\ UNCHANGED <<host, t, installed, owner, excused, deferred, count>>
        /\ UNCHANGED <<bound, binding, op, lease, rec>>
    BY <1>25 DEF Serve, memVars, opVars, hostVars
  <2>2. Steady
    BY <1>25, <2>1, RowsSteady, SessionAssumption DEF Serve, HasRow, Gone
  <2>3. \A b : Blocked(b) => Blocked(b)'
    BY <2>1, <2>2, BlockedKept, NeedKept, LeasesKept
  <2>4. QED
    BY <1>25, <2>1, <2>3 DEF Serve, MACInv, StrandOK, Accounted
<1>26. CASE UNCHANGED vars
  <2>1. /\ UNCHANGED <<host, t, installed, owner, excused, deferred, count>>
        /\ UNCHANGED <<bound, binding, op, lease, rec>>
    BY <1>26 DEF vars, memVars, opVars, hostVars
  <2>2. Steady
    BY <1>26, <2>1, RowsSteady, SessionAssumption DEF vars, HasRow, rowVars
  <2>3. \A b : Blocked(b) => Blocked(b)'
    BY <2>1, <2>2, BlockedKept, NeedKept, LeasesKept
  <2>4. QED
    BY <1>26, <2>1, <2>3 DEF vars, MACInv, StrandOK, Accounted, bootVars
<1>27. QED
  BY <1>1, <1>2, <1>3, <1>4, <1>5, <1>6, <1>7, <1>8, <1>9, <1>10, <1>11, <1>12, <1>13,
     <1>14, <1>15, <1>16, <1>17, <1>18, <1>19, <1>20, <1>21, <1>22, <1>23, <1>24, <1>25,
     <1>26
  DEF Next

-----------------------------------------------------------------------------
(* A coordinator that has never run satisfies the invariant.               *)
LEMMA InitMAC == Init => MACInv
<1> SUFFICES ASSUME Init PROVE MACInv
  OBVIOUS
<1>1. TypeOK
  <2>1. host.crashes \in Nat
    BY SessionAssumption DEF Init
  <2>2. QED
    BY <2>1, IdleType DEF Init, TypeOK
<1>2. PhaseOK /\ StageOK /\ RowOK /\ DistinctOK
  BY SessionAssumption
  DEF Init, Idle, PhaseOK, StageOK, RowOK, DistinctOK, Distinct, AnyLease, Leased,
      Ensuring, Passes
<1>3. CountsTruthful
  <2>1. ASSUME NEW b \in Paths PROVE CountIs(b)
    <3>1. BoundTo(b) = {} /\ LeasedTo(b) = {}
      BY DEF Init, BoundTo, LeasedTo, Boundaries
    <3>2. Cardinality(BoundTo(b)) = 0 /\ Cardinality(LeasedTo(b)) = 0
      BY <3>1, FS_EmptySet
    <3>3. count[b] = 0 /\ ~Dropping(b)
      BY DEF Init, Idle, Dropping
    <3>4. QED
      BY <3>2, <3>3 DEF CountIs
  <2>2. QED
    BY <2>1, CountForm
<1>4. BackedOK /\ GoneOK /\ HeldOK /\ PendingOK /\ PrepOK /\ LinkOK /\ StrandOK
  BY DEF Init, Idle, BackedOK, GoneOK, HeldOK, PendingOK, PrepOK, LinkOK, StrandOK, Lost,
         Leased, Ensuring, Passes
<1>5. QED
  BY <1>1, <1>2, <1>3, <1>4 DEF MACInv

(* Every transition of the coordinator, each of its steps and every crash  *)
(* (mac_lifecycle.go) keeps the inductive invariant.                       *)
THEOREM MACInvariant == Spec => []MACInv
<1>1. Init => MACInv
  BY InitMAC
<1>2. MACInv /\ [Next]_vars => MACInv'
  BY StepTypeOK, StepPhaseOK, StepStageOK, StepRowOK, StepDistinctOK, StepCountsTruthful,
     StepBackedOK,
     StepGoneOK, StepHeldOK, StepPendingOK, StepPrepOK, StepLinkOK, StepStrandOK
  DEF MACInv
<1>3. QED
  BY <1>1, <1>2, PTL DEF Spec

(* The reference count of every boundary is the number of bindings and     *)
(* leases that hold it, and one more while a release is dropping it        *)
(* (CreateSessionBinding, AcquireSessionUse, conditionalReleaseBoundary).  *)
THEOREM CountsAreTruthful == Spec => []CountsTruthful
<1>1. MACInv => CountsTruthful
  BY DEF MACInv
<1>2. QED
  BY <1>1, MACInvariant, PTL

(* Every tree of a bound session, and of an operation that holds a lease,  *)
(* lies below a boundary of its own set that is on the host - through      *)
(* other sessions' releases, rollbacks, retries, crashes and restarts.     *)
THEOREM CoverageIsKept == Spec => []CoverageKept
<1>1. ASSUME MACInv PROVE CoverageKept
  <2>1. Firm \subseteq Present
    BY DEF Firm, Present
  <2>2. ASSUME NEW p, NEW cov, Held(p, cov) PROVE Reachable(p, Boundaries(cov))
    BY <2>1, <2>2 DEF Held, Reachable, Boundaries
  <2>3. QED
    BY <1>1, <2>2 DEF MACInv, HeldOK, CoverageKept
<1>2. QED
  BY <1>1, MACInvariant, PTL

(* Durable workload state keeps a boundary over every tree it was built    *)
(* on, with its lease, and after a crash took lease and counts away.       *)
THEOREM PendingIsCovered == Spec => []PendingCovered
<1>1. ASSUME MACInv PROVE PendingCovered
  <2>1. Firm \subseteq Present /\ Firm \subseteq Paths
    BY <1>1, HostType DEF MACInv, TypeOK, Firm, Present
  <2>2. SUFFICES ASSUME NEW o \in Ops, rec[o] # "none", NEW p \in host.issued[SessionOf[o]]
                 PROVE  Reachable(p, Paths)
    BY DEF PendingCovered
  <2>3. CASE op[o] = "held"
    <3>1. Held(p, lease[o])
      BY <1>1, <2>2, <2>3 DEF MACInv, HeldOK, Leased
    <3>2. QED
      BY <2>1, <3>1 DEF Held, Reachable
  <2>4. CASE op[o] = "lost"
    <3>1. p \in host.home \/ \E b \in Firm : Covers(b, p)
      BY <1>1, <2>2, <2>4 DEF MACInv, PendingOK, Lost
    <3>2. QED
      BY <2>1, <3>1 DEF Reachable
  <2>5. QED
    BY <1>1, <2>2, <2>3, <2>4 DEF MACInv, RowOK
<1>2. QED
  BY <1>1, MACInvariant, PTL

(* While the daemon serves and no transition runs, an owned boundary that  *)
(* nobody holds is marked for retry and something whose end triggers the   *)
(* retry blocks it, unless a failed command excuses it.                    *)
THEOREM NothingIsStranded == Spec => []NothingStranded
<1>1. ASSUME MACInv PROVE NothingStranded
  <2>1. SUFFICES ASSUME phase = "serving", t = Idle,
                        NEW b \in (installed \cap owner) \ excused, count[b] = 0
                 PROVE  b \in deferred /\ (~MayBeRemoved(b, Pending) \/ AnyLease)
    BY DEF NothingStranded, AnyLease
  <2>2. Accounted(b)
    BY <1>1, <2>1 DEF MACInv, StrandOK
  <2>3. t.pc = "idle"
    BY <2>1 DEF Idle
  <2>4. QED
    BY <2>1, <2>2, <2>3 DEF Accounted, Blocked, Ensuring, Passes
<1>2. QED
  BY <1>1, MACInvariant, PTL
=============================================================================
