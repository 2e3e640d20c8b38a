--------------------------- MODULE OwnershipProofs ---------------------------
(***************************************************************************)
(* Owners outlive their operations, sessions live below enabled owners and *)
(* admission follows the database, for every hierarchy of Principals,      *)
(* Launchers and Sessions and any number of requests and restarts.         *)
(***************************************************************************)
EXTENDS OwnershipLifecycle, TLAPS

Running(l) == HasRunningForLauncher(l)
NoContainer(l) == \A r \in Requests : LauncherOf(r) = l => container[r] = "none"

(* What the database promises without regard to mutators.                  *)
RowsOK ==
    /\ lEnabled \subseteq launchers /\ launchers \subseteq born
    /\ quiesced \subseteq born

(* The mutator under lifecycleMu: whom it is about.  The rows it looked up *)
(* cannot multiply while it holds the lock.                                *)
ScopeOK ==
    /\ mut.scope \subseteq born /\ mut.todo \subseteq mut.scope
    /\ mut.kind \in {"disableP", "enableP", "deleteP"} =>
          mut.scope = {l \in launchers : PrincipalOf[l] \in mut.principal}
    /\ mut.kind \in {"disableL", "enableL", "deleteL"} => mut.principal = {}
    /\ mut.kind \in {"disableL", "enableL"} => mut.scope \subseteq launchers
    /\ mut.kind \in {"none", "disableL", "disableP", "deleteL", "deleteP"}
          => mut.step # "reopen"
    /\ mut.kind \in {"enableL", "enableP"} => mut.step \in {"persist", "reopen"}
    /\ mut.kind \in {"disableL", "disableP"} =>
          mut.step \in {"quiesce", "persist", "resync"}
    /\ Deleting => mut.step \in {"quiesce", "inspect", "prune", "disable", "remove", "resync"}
    /\ mut.kind = "none" => mut = Idle

(* How far it has come.                                                    *)
ProgressOK ==
    /\ mut.step = "quiesce" => mut.scope \ mut.todo \subseteq quiesced /\ mut.checked = {}
    /\ mut.step = "persist" => mut.todo = mut.scope
    /\ mut.step = "persist" /\ mut.kind \in {"disableL", "disableP"} => mut.scope \subseteq quiesced
    /\ mut.step \in {"inspect", "prune", "disable", "remove"} => mut.scope \subseteq quiesced
    /\ mut.step = "reopen" => mut.closed = {l \in mut.scope : ~EffectiveEnabled(l)}
    /\ mut.step = "disable" => (mut.scope \ mut.todo) \cap lEnabled = {}
    /\ mut.step = "remove" => mut.scope \cap lEnabled = {}

(* What the inspections of a checked delete have established, and what     *)
(* the closed admission keeps true afterwards.                             *)
Inspected(l) ==
    /\ ~Running(l)
    /\ \A r \in Requests : LauncherOf(r) = l =>
          container[r] = "none" \/ (container[r] = "stale" /\ r \in mut.seen)

InspectionOK ==
    /\ mut.step = "inspect" =>
          /\ \A l \in mut.checked : ~Running(l)
          /\ \A l \in mut.scope \ mut.todo : Inspected(l)
    /\ mut.step = "prune" =>
          \A l \in mut.scope : Inspected(l) /\ (l \notin mut.todo => NoContainer(l))
    /\ mut.step \in {"disable", "remove"} =>
          \A l \in mut.scope : ~Running(l) /\ NoContainer(l)
    /\ mut.step = "inspect" => mut.checked \subseteq mut.scope

(* A request in flight whose owner is disabled or gone meets a closed      *)
(* admission.                                                              *)
GateOK ==
    \A r \in Requests :
        req[r] \in {"resolved", "reserved", "leased"} =>
            EffectiveEnabled(LauncherOf(r)) \/ LauncherOf(r) \in quiesced

(* The launchers the mutator still has to settle.                          *)
Unsettled ==
    CASE mut.step \in {"reopen", "resync"} -> mut.todo
      [] mut.step = "persist" /\ mut.kind \in {"enableL", "enableP"} -> {}
      [] OTHER -> mut.scope

MirrorOK ==
    \A l \in launchers \ (doubtful \cup Unsettled) :
        EffectiveEnabled(l) => l \notin quiesced

OwnershipInv ==
    /\ TypeOK /\ RowsOK /\ ScopeOK /\ ProgressOK /\ InspectionOK /\ GateOK /\ MirrorOK
    /\ SessionsBelowEnabledOwners /\ OwnerNeverLost

-----------------------------------------------------------------------------
(* The forms in which a mutator changes its record.                        *)
LEMMA MutatorRecord ==
    ASSUME mut \in Mutators
    PROVE  /\ Idle \in Mutators
           /\ Finish => mut' \in Mutators
           /\ \A l : DoneWith(l) => mut' \in Mutators
           /\ \A st \in Steps, ls \in SUBSET Launchers : EnterStep(st, ls) => mut' \in Mutators
           /\ mut.scope \in SUBSET Launchers /\ mut.todo \in SUBSET Launchers
           /\ mut.seen \in SUBSET Requests /\ mut.principal \in SUBSET Principals
           /\ RefuseDelete => mut' \in Mutators
<1>1. Idle \in Mutators
  BY DEF Idle, Mutators, Kinds, Steps
<1>2. /\ mut.scope \in SUBSET Launchers /\ mut.todo \in SUBSET Launchers
      /\ mut.seen \in SUBSET Requests /\ mut.principal \in SUBSET Principals
  BY DEF Mutators
<1>3. \A st \in Steps, ls \in SUBSET Launchers : EnterStep(st, ls) => mut' \in Mutators
  BY DEF EnterStep, Mutators
<1>4. \A l : DoneWith(l) => mut' \in Mutators
  BY DEF DoneWith, Mutators
<1>5. QED
  BY <1>1, <1>2, <1>3, <1>4 DEF Finish, RefuseDelete, Steps

(* The same, field by field.                                               *)
LEMMA MutatorFields ==
    ASSUME mut \in Mutators
    PROVE  /\ \A l : DoneWith(l) =>
                 /\ mut'.kind = mut.kind /\ mut'.step = mut.step
                 /\ mut'.principal = mut.principal /\ mut'.scope = mut.scope
                 /\ mut'.todo = mut.todo \ {l} /\ mut'.checked = mut.checked
                 /\ mut'.seen = mut.seen /\ mut'.closed = mut.closed
           /\ \A st, ls : EnterStep(st, ls) =>
                 /\ mut'.kind = mut.kind /\ mut'.step = st
                 /\ mut'.principal = mut.principal /\ mut'.scope = mut.scope
                 /\ mut'.todo = ls /\ mut'.checked = mut.checked
                 /\ mut'.seen = mut.seen /\ mut'.closed = mut.closed
<1>1. ASSUME NEW l, DoneWith(l)
      PROVE  /\ mut'.kind = mut.kind /\ mut'.step = mut.step
             /\ mut'.principal = mut.principal /\ mut'.scope = mut.scope
             /\ mut'.todo = mut.todo \ {l} /\ mut'.checked = mut.checked
             /\ mut'.seen = mut.seen /\ mut'.closed = mut.closed
  BY <1>1 DEF DoneWith, Mutators
<1>2. ASSUME NEW st, NEW ls, EnterStep(st, ls)
      PROVE  /\ mut'.kind = mut.kind /\ mut'.step = st
             /\ mut'.principal = mut.principal /\ mut'.scope = mut.scope
             /\ mut'.todo = ls /\ mut'.checked = mut.checked
             /\ mut'.seen = mut.seen /\ mut'.closed = mut.closed
  BY <1>2 DEF EnterStep, Mutators
<1>3. QED
  BY <1>1, <1>2

(* An inspection step of a checked delete keeps its scope; a refusal has   *)
(* the whole scope to re-sync.                                             *)
LEMMA InspectFields ==
    ASSUME mut \in Mutators, NEW l \in Launchers, mut.todo \subseteq mut.scope,
           InspectOperations(l) \/ InspectContainers(l)
    PROVE  /\ mut'.kind = mut.kind /\ mut'.principal = mut.principal /\ mut'.scope = mut.scope
           /\ mut'.todo \subseteq mut.scope /\ mut'.step \in {"inspect", "resync"}
           /\ mut.step = "inspect"
           /\ mut'.step = "resync" => mut'.todo = mut.scope
<1>1. CASE EnterStep("resync", mut.scope)
  BY <1>1, MutatorFields DEF InspectOperations, InspectContainers, Doing
<1>2. CASE mut' = [mut EXCEPT !.checked = {l}]
  BY <1>2 DEF InspectOperations, InspectContainers, Doing, Mutators
<1>3. CASE mut' = [mut EXCEPT !.todo = @ \ {l}, !.checked = {},
                              !.seen = @ \cup ContainersOf(l, "stale")]
  BY <1>3 DEF InspectOperations, InspectContainers, Doing, Mutators
<1>4. QED
  BY <1>1, <1>2, <1>3 DEF InspectOperations, InspectContainers, RefuseDelete

(* The record of no mutator.                                               *)
LEMMA IdleFields ==
    /\ Idle.kind = "none" /\ Idle.step = "idle" /\ Idle.principal = {}
    /\ Idle.scope = {} /\ Idle.todo = {} /\ Idle.checked = {}
    /\ Idle.seen = {} /\ Idle.closed = {}
  BY DEF Idle

(* Requests, sessions, new launchers and restarts preserve the types.      *)
LEMMA DataType ==
    ASSUME TypeOK,
           \/ \E r \in Requests : Request(r)
           \/ \E s \in Sessions : CreateSession(s) \/ DeleteSession(s)
           \/ \E l \in Launchers : CreateLauncher(l)
           \/ Restart
    PROVE  TypeOK'
<1> USE DEF TypeOK, dbVars
<1>1. ASSUME NEW r \in Requests, Request(r) PROVE TypeOK'
  <2>1. CASE Resolve(r) \/ PrepareFail(r)
    BY <2>1 DEF Resolve, PrepareFail
  <2>2. CASE Reserve(r) \/ Lease(r) \/ Admit(r)
    BY <2>2 DEF Reserve, Lease, Admit
  <2>3. CASE ContainerStart(r) \/ ContainerExit(r) \/ OperationEnds(r)
    BY <2>3 DEF ContainerStart, ContainerExit, OperationEnds
  <2>4. QED
    BY <1>1, <2>1, <2>2, <2>3 DEF Request
<1>2. ASSUME NEW s \in Sessions, CreateSession(s) \/ DeleteSession(s) PROVE TypeOK'
  BY <1>2 DEF CreateSession, DeleteSession
<1>3. ASSUME NEW l \in Launchers, CreateLauncher(l) PROVE TypeOK'
  BY <1>3 DEF CreateLauncher
<1>4. CASE Restart
  BY <1>4, MutatorRecord DEF Restart
<1>5. QED
  BY <1>1, <1>2, <1>3, <1>4

(* What a mutator knows when it has taken lifecycleMu.                     *)
BeginForm(kind, ps, ls) ==
    /\ Begin(kind, IF kind \in {"enableL", "enableP"} THEN "persist" ELSE "quiesce", ps, ls)
    /\ kind \in {"disableP", "enableP", "deleteP"} =>
          ls = {l \in launchers : PrincipalOf[l] \in ps}
    /\ kind \in {"disableL", "enableL", "deleteL"} => ps = {} /\ ls \subseteq launchers \cup born
    /\ kind \in {"disableL", "enableL"} => ls \subseteq launchers

(* Every mutator starts with the rows it looked up and nothing done yet.   *)
LEMMA BeginForms ==
    ASSUME TypeOK, BeginMutator
    PROVE  \E kind \in Kinds \ {"none"}, ps \in SUBSET Principals, ls \in SUBSET Launchers :
              BeginForm(kind, ps, ls)
<1>1. ASSUME NEW l \in Launchers
      PROVE  /\ BeginDisableLauncher(l) => BeginForm("disableL", {}, {l})
             /\ BeginEnableLauncher(l) => BeginForm("enableL", {}, {l})
             /\ BeginDeleteLauncher(l) => BeginForm("deleteL", {}, {l})
  BY DEF BeginForm, BeginDisableLauncher, BeginEnableLauncher, BeginDeleteLauncher
<1>2. ASSUME NEW p \in Principals
      PROVE  /\ Children(p) = {l \in launchers : PrincipalOf[l] \in {p}}
             /\ Children(p) \in SUBSET Launchers
  BY DEF Children, TypeOK
<1>3. ASSUME NEW p \in Principals
      PROVE  /\ BeginDisablePrincipal(p) => BeginForm("disableP", {p}, Children(p))
             /\ BeginEnablePrincipal(p) => BeginForm("enableP", {p}, Children(p))
             /\ BeginDeletePrincipal(p) => BeginForm("deleteP", {p}, Children(p))
  BY <1>2 DEF BeginForm, BeginDisablePrincipal, BeginEnablePrincipal, BeginDeletePrincipal
<1>4. {"disableL", "enableL", "deleteL", "disableP", "enableP", "deleteP"} \subseteq Kinds \ {"none"}
  BY DEF Kinds
<1>5. CASE \E l \in Launchers :
             BeginDisableLauncher(l) \/ BeginEnableLauncher(l) \/ BeginDeleteLauncher(l)
  <2>1. PICK l \in Launchers :
             BeginDisableLauncher(l) \/ BeginEnableLauncher(l) \/ BeginDeleteLauncher(l)
    BY <1>5
  <2>2. \E kind \in Kinds \ {"none"} : BeginForm(kind, {}, {l})
    BY <1>1, <1>4, <2>1
  <2>3. QED
    BY <2>2
<1>6. CASE \E p \in Principals :
             BeginDisablePrincipal(p) \/ BeginEnablePrincipal(p) \/ BeginDeletePrincipal(p)
  <2>1. PICK p \in Principals :
             BeginDisablePrincipal(p) \/ BeginEnablePrincipal(p) \/ BeginDeletePrincipal(p)
    BY <1>6
  <2>2. \E kind \in Kinds \ {"none"} : BeginForm(kind, {p}, Children(p))
    BY <1>3, <1>4, <2>1
  <2>3. QED
    BY <1>2, <2>2
<1>7. QED
  BY <1>5, <1>6 DEF BeginMutator

(* Mutators preserve the types.                                            *)
LEMMA MutatorType ==
    ASSUME TypeOK, BeginMutator \/ MutatorStep
    PROVE  TypeOK'
<1> USE MutatorRecord DEF TypeOK, dbVars
<1>1. CASE BeginMutator
  <2>1. PICK kind \in Kinds, st \in Steps, ps \in SUBSET Principals, ls \in SUBSET Launchers :
               Begin(kind, st, ps, ls)
    BY <1>1, BeginForms DEF BeginForm, Kinds, Steps
  <2>2. mut' \in Mutators
    BY <2>1 DEF Begin, Mutators, Idle
  <2>3. QED
    BY <2>1, <2>2 DEF Begin
<1>2. CASE Advance
  BY <1>2 DEF Advance, Steps
<1>3. ASSUME NEW o \in Outcomes, PersistDisable(o) PROVE TypeOK'
  <2>1. mut' \in Mutators
    BY <1>3 DEF PersistDisable, Steps
  <2>2. QED
    BY <1>3, <2>1 DEF PersistDisable, SessionsOf, InFlight
<1>4. ASSUME NEW o \in Outcomes, PersistEnable(o) PROVE TypeOK'
  <2>1. mut' \in Mutators
    BY <1>4 DEF PersistEnable, Mutators, Steps
  <2>2. QED
    BY <1>4, <2>1 DEF PersistEnable
<1>5. ASSUME NEW o \in Outcomes, RemoveRows(o) PROVE TypeOK'
  BY <1>5 DEF RemoveRows, SessionsOf
<1>6. ASSUME NEW l \in Launchers, Quiesce(l) \/ Reopen(l) \/ Resync(l) PROVE TypeOK'
  BY <1>6 DEF Quiesce, Reopen, Resync, Doing
<1>7. ASSUME NEW l \in Launchers, InspectOperations(l) \/ InspectContainers(l) PROVE TypeOK'
  <2>1. mut' \in Mutators
    <3>1. [mut EXCEPT !.checked = {l}] \in Mutators
      BY DEF Mutators
    <3>2. [mut EXCEPT !.todo = @ \ {l}, !.checked = {},
                      !.seen = @ \cup ContainersOf(l, "stale")] \in Mutators
      BY DEF Mutators, ContainersOf
    <3>3. QED
      BY <1>7, <3>1, <3>2 DEF InspectOperations, InspectContainers
  <2>2. QED
    BY <1>7, <2>1 DEF InspectOperations, InspectContainers
<1>8. ASSUME NEW l \in Launchers, RemoveStale(l) PROVE TypeOK'
  BY <1>8 DEF RemoveStale, Doing
<1>9. ASSUME NEW l \in Launchers, NEW o \in Outcomes, DisableChild(l, o) PROVE TypeOK'
  BY <1>9 DEF DisableChild, Doing, SessionsOf, Steps
<1>10. QED
  BY <1>1, <1>2, <1>3, <1>4, <1>5, <1>6, <1>7, <1>8, <1>9 DEF MutatorStep

-----------------------------------------------------------------------------
(* A request neither sees nor changes the mutator, the rows or the gate.   *)
LEMMA RequestFrame ==
    ASSUME NEW r \in Requests, Request(r)
    PROVE  UNCHANGED <<dbVars, quiesced, mut, doubtful>>
  BY DEF Request, Resolve, Reserve, Lease, PrepareFail, Admit, ContainerStart,
     ContainerExit, OperationEnds, dbVars

(* Rows and the quiesce set only name identifiers that were issued.        *)
LEMMA RowsStep ==
    ASSUME OwnershipInv, Next
    PROVE  RowsOK'
<1> USE DEF OwnershipInv, RowsOK, dbVars
<1>1. CASE \E r \in Requests : Request(r)
  BY <1>1, RequestFrame
<1>2. CASE \E s \in Sessions : CreateSession(s) \/ DeleteSession(s)
  BY <1>2 DEF CreateSession, DeleteSession
<1>3. CASE \E l \in Launchers : CreateLauncher(l)
  BY <1>3 DEF CreateLauncher
<1>4. CASE BeginMutator
  BY <1>4, BeginForms DEF BeginForm, Begin
<1>5. CASE MutatorStep
  <2>1. ASSUME NEW o \in Outcomes, PersistDisable(o) \/ PersistEnable(o) \/ RemoveRows(o)
        PROVE  RowsOK'
    <3>1. CASE PersistDisable(o)
      BY <2>1, <3>1 DEF PersistDisable
    <3>2. CASE PersistEnable(o)
      BY <2>1, <3>2 DEF PersistEnable, ScopeOK, Owners
    <3>3. CASE RemoveRows(o)
      BY <2>1, <3>3 DEF RemoveRows
    <3>4. QED
      BY <2>1, <3>1, <3>2, <3>3
  <2>2. ASSUME NEW l \in Launchers,
               Quiesce(l) \/ Reopen(l) \/ Resync(l) \/ (\E o \in Outcomes : DisableChild(l, o))
        PROVE  RowsOK'
    BY <2>2 DEF Quiesce, Reopen, Resync, DisableChild, Doing, ScopeOK
  <2>3. CASE Advance
    BY <2>3 DEF Advance
  <2>4. ASSUME NEW l \in Launchers, InspectOperations(l) \/ InspectContainers(l) \/ RemoveStale(l)
        PROVE  RowsOK'
    BY <2>4 DEF InspectOperations, InspectContainers, RemoveStale
  <2>5. QED
    BY <1>5, <2>1, <2>2, <2>3, <2>4 DEF MutatorStep
<1>6. CASE Restart
  BY <1>6 DEF Restart
<1>7. QED
  BY <1>1, <1>2, <1>3, <1>4, <1>5, <1>6 DEF Next

(* A step of the mutator, by what it does to the record.                   *)
LEMMA ScopeStep ==
    ASSUME OwnershipInv, Next
    PROVE  ScopeOK'
<1> USE MutatorFields, IdleFields DEF OwnershipInv, TypeOK, ScopeOK, RowsOK, dbVars, Deleting
<1>1. CASE \E r \in Requests : Request(r)
  BY <1>1, RequestFrame
<1>2. CASE \E s \in Sessions : CreateSession(s) \/ DeleteSession(s)
  BY <1>2 DEF CreateSession, DeleteSession
<1>3. CASE \E l \in Launchers : CreateLauncher(l)
  BY <1>3 DEF CreateLauncher
<1>4. CASE BeginMutator
  <2>1. PICK kind \in Kinds \ {"none"}, ps \in SUBSET Principals, ls \in SUBSET Launchers :
               BeginForm(kind, ps, ls)
    BY <1>4, BeginForms
  <2>2. /\ mut'.kind = kind /\ mut'.principal = ps /\ mut'.scope = ls /\ mut'.todo = ls
        /\ mut'.step = IF kind \in {"enableL", "enableP"} THEN "persist" ELSE "quiesce"
    BY <2>1 DEF BeginForm, Begin, Idle
  <2>3. UNCHANGED dbVars
    BY <2>1 DEF BeginForm, Begin
  <2>4. QED
    BY <2>1, <2>2, <2>3 DEF BeginForm, Kinds
<1>5. CASE MutatorStep
  <2>1. ASSUME NEW o \in Outcomes, PersistDisable(o) PROVE ScopeOK'
    BY <2>1 DEF PersistDisable, Finish
  <2>2. ASSUME NEW o \in Outcomes, PersistEnable(o) PROVE ScopeOK'
    <3>1. CASE mut' = Idle
      BY <2>2, <3>1
    <3>2. CASE mut' # Idle
      <4>1. /\ mut'.kind = mut.kind /\ mut'.principal = mut.principal
            /\ mut'.scope = mut.scope /\ mut'.todo = mut.todo /\ mut'.step = "reopen"
        BY <2>2, <3>2 DEF PersistEnable, Mutators
      <4>2. QED
        BY <2>2, <4>1 DEF PersistEnable
    <3>3. QED
      BY <3>1, <3>2
  <2>3. ASSUME NEW o \in Outcomes, RemoveRows(o) PROVE ScopeOK'
    BY <2>3 DEF RemoveRows, Finish
  <2>4. ASSUME NEW l \in Launchers, Quiesce(l) \/ Reopen(l) \/ Resync(l)
        PROVE  ScopeOK'
    BY <2>4 DEF Quiesce, Reopen, Resync, Doing
  <2>5. ASSUME NEW l \in Launchers, NEW o \in Outcomes, DisableChild(l, o) PROVE ScopeOK'
    BY <2>5 DEF DisableChild, Doing
  <2>6. CASE Advance
    BY <2>6 DEF Advance, Finish
  <2>7. ASSUME NEW l \in Launchers, RemoveStale(l) PROVE ScopeOK'
    BY <2>7 DEF RemoveStale, RefuseDelete, Doing
  <2>8. ASSUME NEW l \in Launchers, InspectOperations(l) \/ InspectContainers(l) PROVE ScopeOK'
    <3>1. /\ mut'.kind = mut.kind /\ mut'.principal = mut.principal /\ mut'.scope = mut.scope
          /\ mut'.todo \subseteq mut.scope /\ mut'.step \in {"inspect", "resync"}
          /\ mut.step = "inspect"
      BY <2>8, InspectFields
    <3>2. QED
      BY <2>8, <3>1 DEF InspectOperations, InspectContainers
  <2>9. QED
    BY <1>5, <2>1, <2>2, <2>3, <2>4, <2>5, <2>6, <2>7, <2>8 DEF MutatorStep
<1>6. CASE Restart
  BY <1>6 DEF Restart
<1>7. QED
  BY <1>1, <1>2, <1>3, <1>4, <1>5, <1>6 DEF Next

(* Closing admission comes first, and nothing reopens it before the end.   *)
LEMMA ProgressStep ==
    ASSUME OwnershipInv, Next
    PROVE  ProgressOK'
<1> USE MutatorFields, IdleFields DEF OwnershipInv, TypeOK, ProgressOK, ScopeOK, dbVars
<1>1. CASE \E r \in Requests : Request(r)
  BY <1>1, RequestFrame DEF EffectiveEnabled
<1>2. CASE \E s \in Sessions : CreateSession(s) \/ DeleteSession(s)
  BY <1>2 DEF CreateSession, DeleteSession, EffectiveEnabled
<1>3. CASE \E l \in Launchers : CreateLauncher(l)
  BY <1>3 DEF CreateLauncher
<1>4. CASE BeginMutator
  <2>1. PICK kind \in Kinds \ {"none"}, ps \in SUBSET Principals, ls \in SUBSET Launchers :
               BeginForm(kind, ps, ls)
    BY <1>4, BeginForms
  <2>2. /\ mut'.kind = kind /\ mut'.scope = ls /\ mut'.todo = ls /\ mut'.checked = {}
        /\ mut'.step = IF kind \in {"enableL", "enableP"} THEN "persist" ELSE "quiesce"
    BY <2>1 DEF BeginForm, Begin, Idle
  <2>3. QED
    BY <2>2
<1>5. CASE MutatorStep
  <2>1. ASSUME NEW o \in Outcomes, PersistDisable(o) PROVE ProgressOK'
    BY <2>1 DEF PersistDisable, Finish
  <2>2. ASSUME NEW o \in Outcomes, PersistEnable(o) PROVE ProgressOK'
    <3>1. CASE mut' = Idle
      BY <3>1
    <3>2. CASE mut' # Idle
      <4>1. /\ mut'.kind = mut.kind /\ mut'.principal = mut.principal
            /\ mut'.scope = mut.scope /\ mut'.todo = mut.todo /\ mut'.step = "reopen"
            /\ mut'.closed = {l \in mut.scope : ~(l \in lEnabled' /\ PrincipalOf[l] \in pEnabled')}
        BY <2>2, <3>2 DEF PersistEnable, Mutators
      <4>2. mut.scope \subseteq launchers /\ launchers' = launchers
        BY <2>2 DEF PersistEnable
      <4>3. QED
        BY <4>1, <4>2 DEF EffectiveEnabled
    <3>3. QED
      BY <3>1, <3>2
  <2>3. ASSUME NEW o \in Outcomes, RemoveRows(o) PROVE ProgressOK'
    BY <2>3 DEF RemoveRows, Finish
  <2>4. ASSUME NEW l \in Launchers, Quiesce(l) PROVE ProgressOK'
    BY <2>4 DEF Quiesce, Doing
  <2>5. ASSUME NEW l \in Launchers, Reopen(l) \/ Resync(l) PROVE ProgressOK'
    BY <2>5 DEF Reopen, Resync, Doing, EffectiveEnabled
  <2>6. ASSUME NEW l \in Launchers, NEW o \in Outcomes, DisableChild(l, o) PROVE ProgressOK'
    BY <2>6 DEF DisableChild, Doing
  <2>7. CASE Advance
    BY <2>7 DEF Advance, Finish, Deleting
  <2>8. ASSUME NEW l \in Launchers, RemoveStale(l) PROVE ProgressOK'
    BY <2>8 DEF RemoveStale, RefuseDelete, Doing
  <2>9. ASSUME NEW l \in Launchers, InspectOperations(l) \/ InspectContainers(l)
        PROVE  ProgressOK'
    BY <2>9, InspectFields DEF InspectOperations, InspectContainers
  <2>10. QED
    BY <1>5, <2>1, <2>2, <2>3, <2>4, <2>5, <2>6, <2>7, <2>8, <2>9 DEF MutatorStep
<1>6. CASE Restart
  BY <1>6 DEF Restart
<1>7. QED
  BY <1>1, <1>2, <1>3, <1>4, <1>5, <1>6 DEF Next

(* Sessions live below enabled owners: what disables an owner takes its    *)
(* sessions along, and a deleted launcher was disabled first.              *)
LEMMA SessionsStep ==
    ASSUME OwnershipInv, Next
    PROVE  SessionsBelowEnabledOwners'
<1> USE OwnershipAssumption DEF OwnershipInv, TypeOK, SessionsBelowEnabledOwners,
        EffectiveEnabled, dbVars
<1>1. CASE \E r \in Requests : Request(r)
  BY <1>1, RequestFrame
<1>2. CASE \E s \in Sessions : CreateSession(s) \/ DeleteSession(s)
  BY <1>2 DEF CreateSession, DeleteSession
<1>3. CASE \E l \in Launchers : CreateLauncher(l)
  BY <1>3 DEF CreateLauncher
<1>4. CASE BeginMutator
  BY <1>4, BeginForms DEF BeginForm, Begin
<1>5. CASE MutatorStep
  <2>1. ASSUME NEW o \in Outcomes, PersistDisable(o)
        PROVE  SessionsBelowEnabledOwners'
    BY <2>1 DEF PersistDisable, SessionsOf, Owners, ScopeOK
  <2>2. ASSUME NEW o \in Outcomes, PersistEnable(o)
        PROVE  SessionsBelowEnabledOwners'
    BY <2>2 DEF PersistEnable
  <2>3. ASSUME NEW o \in Outcomes, RemoveRows(o)
        PROVE  SessionsBelowEnabledOwners'
    BY <2>3 DEF RemoveRows, SessionsOf, Owners, ScopeOK, ProgressOK
  <2>4. ASSUME NEW l \in Launchers, Quiesce(l) \/ Reopen(l) \/ Resync(l)
        PROVE  SessionsBelowEnabledOwners'
    BY <2>4 DEF Quiesce, Reopen, Resync
  <2>5. ASSUME NEW l \in Launchers, NEW o \in Outcomes, DisableChild(l, o)
        PROVE  SessionsBelowEnabledOwners'
    BY <2>5 DEF DisableChild, SessionsOf
  <2>6. CASE Advance
    BY <2>6 DEF Advance
  <2>7. ASSUME NEW l \in Launchers, InspectOperations(l) \/ InspectContainers(l) \/ RemoveStale(l)
        PROVE  SessionsBelowEnabledOwners'
    BY <2>7 DEF InspectOperations, InspectContainers, RemoveStale
  <2>8. QED
    BY <1>5, <2>1, <2>2, <2>3, <2>4, <2>5, <2>6, <2>7 DEF MutatorStep
<1>6. CASE Restart
  BY <1>6 DEF Restart
<1>7. QED
  BY <1>1, <1>2, <1>3, <1>4, <1>5, <1>6 DEF Next

(* A closed admission keeps the operations of a launcher at rest: a step   *)
(* of a request starts nothing for it and its containers can only go.      *)
LEMMA AtRest ==
    ASSUME OwnershipInv, NEW r \in Requests, Request(r), NEW l \in quiesced
    PROVE  /\ ~Running(l) => ~Running(l)'
           /\ ~Running(l) => \A q \in Requests : LauncherOf(q) = l =>
                 \/ container'[q] = container[q]
                 \/ container[q] = "active"
<1> USE DEF OwnershipInv, TypeOK, Running, HasRunningForLauncher
<1>1. CASE Resolve(r) \/ PrepareFail(r)
  BY <1>1 DEF Resolve, PrepareFail
<1>2. CASE Reserve(r) \/ Lease(r)
  BY <1>2 DEF Reserve, Lease
<1>3. CASE Admit(r)
  BY <1>3 DEF Admit
<1>4. CASE ContainerStart(r) \/ ContainerExit(r)
  BY <1>4 DEF ContainerStart, ContainerExit
<1>5. CASE OperationEnds(r)
  BY <1>5 DEF OperationEnds
<1>6. QED
  BY <1>1, <1>2, <1>3, <1>4, <1>5 DEF Request

(* What the inspections of a checked delete established stays true while   *)
(* admission is closed.                                                    *)
LEMMA InspectionStep ==
    ASSUME OwnershipInv, Next
    PROVE  InspectionOK'
<1> USE MutatorFields, IdleFields DEF OwnershipInv, TypeOK, InspectionOK, Inspected,
        NoContainer
<1>1. ASSUME NEW r \in Requests, Request(r) PROVE InspectionOK'
  <2>1. mut' = mut
    BY <1>1, RequestFrame
  <2>2. mut.step \in {"inspect", "prune", "disable", "remove"} => mut.scope \subseteq quiesced
    BY DEF ProgressOK
  <2>3. mut.step \in {"inspect", "prune", "disable", "remove"} =>
          \A l \in mut.scope :
             /\ ~Running(l) => ~Running(l)'
             /\ ~Running(l) => \A q \in Requests : LauncherOf(q) = l =>
                   \/ container'[q] = container[q]
                   \/ container[q] = "active"
    BY <1>1, <2>2, AtRest
  <2>4. \A q : LauncherOf(q)' = LauncherOf(q)
    BY DEF LauncherOf
  <2>5. ASSUME NEW l \in mut.scope,
               mut.step \in {"inspect", "prune", "disable", "remove"}
        PROVE  /\ ~Running(l) => ~Running(l)'
               /\ Inspected(l) => Inspected(l)'
               /\ ~Running(l) /\ NoContainer(l) => NoContainer(l)'
    BY <2>1, <2>3, <2>4, <2>5
  <2>6. QED
    BY <2>1, <2>5
<1>2. CASE \E s \in Sessions : CreateSession(s) \/ DeleteSession(s)
  BY <1>2 DEF CreateSession, DeleteSession, Running, HasRunningForLauncher
<1>3. CASE \E l \in Launchers : CreateLauncher(l)
  BY <1>3 DEF CreateLauncher
<1>4. CASE BeginMutator
  <2>1. PICK kind \in Kinds \ {"none"}, ps \in SUBSET Principals, ls \in SUBSET Launchers :
               BeginForm(kind, ps, ls)
    BY <1>4, BeginForms
  <2>2. mut'.step = IF kind \in {"enableL", "enableP"} THEN "persist" ELSE "quiesce"
    BY <2>1 DEF BeginForm, Begin, Idle
  <2>3. QED
    BY <2>2
<1>5. CASE MutatorStep
  <2>1. ASSUME NEW o \in Outcomes, PersistDisable(o) PROVE InspectionOK'
    BY <2>1 DEF PersistDisable, Finish
  <2>2. ASSUME NEW o \in Outcomes, PersistEnable(o) PROVE InspectionOK'
    <3>1. mut'.step \in {"idle", "reopen"}
      BY <2>2 DEF PersistEnable, Mutators
    <3>2. QED
      BY <3>1
  <2>3. ASSUME NEW o \in Outcomes, RemoveRows(o) PROVE InspectionOK'
    BY <2>3 DEF RemoveRows, Finish
  <2>4. ASSUME NEW l \in Launchers, Quiesce(l) \/ Reopen(l) \/ Resync(l)
        PROVE  InspectionOK'
    BY <2>4 DEF Quiesce, Reopen, Resync, Doing
  <2>5. ASSUME NEW l \in Launchers, NEW o \in Outcomes, DisableChild(l, o)
        PROVE  InspectionOK'
    BY <2>5 DEF DisableChild, Doing, Running, HasRunningForLauncher
  <2>6. CASE Advance
    <3>1. UNCHANGED <<req, container>> /\ mut.todo = {}
      BY <2>6 DEF Advance
    <3>2. \A l : ~Running(l) => ~Running(l)'
      BY <3>1 DEF Running, HasRunningForLauncher
    <3>3. CASE mut.step = "inspect" /\ EnterStep("prune", mut.scope)
      BY <3>1, <3>2, <3>3 DEF LauncherOf
    <3>4. CASE mut.step = "prune" /\ EnterStep("disable", mut.scope)
      BY <3>1, <3>2, <3>4 DEF LauncherOf
    <3>5. CASE mut.step = "disable" /\ EnterStep("remove", mut.scope)
      BY <3>1, <3>2, <3>5 DEF LauncherOf
    <3>6. CASE mut.step = "quiesce" /\ EnterStep("inspect", mut.scope)
      <4>1. mut'.checked = {}
        BY <3>6 DEF ProgressOK
      <4>2. QED
        BY <3>6, <4>1
    <3>7. CASE EnterStep("persist", mut.scope) \/ mut' = Idle
      BY <3>7
    <3>8. QED
      BY <2>6, <3>3, <3>4, <3>5, <3>6, <3>7 DEF Advance, Finish
  <2>7. ASSUME NEW l \in Launchers, RemoveStale(l) PROVE InspectionOK'
    BY <2>7 DEF RemoveStale, RefuseDelete, Doing, Running, HasRunningForLauncher
  <2>8. ASSUME NEW l \in Launchers, InspectOperations(l) PROVE InspectionOK'
    <3>1. CASE EnterStep("resync", mut.scope)
      BY <3>1
    <3>2. CASE mut' = [mut EXCEPT !.checked = {l}]
      BY <2>8, <3>2 DEF InspectOperations, Doing, Mutators, ScopeOK, Running,
         HasRunningForLauncher, RefuseDelete
    <3>3. QED
      BY <2>8, <3>1, <3>2 DEF InspectOperations, RefuseDelete
  <2>9. ASSUME NEW l \in Launchers, InspectContainers(l) PROVE InspectionOK'
    <3>1. CASE EnterStep("resync", mut.scope)
      BY <3>1
    <3>2. CASE /\ ContainersOf(l, "active") = {}
               /\ mut' = [mut EXCEPT !.todo = @ \ {l}, !.checked = {},
                                     !.seen = @ \cup ContainersOf(l, "stale")]
      <4>1. /\ mut'.step = "inspect" /\ mut'.scope = mut.scope /\ mut'.checked = {}
            /\ mut'.todo = mut.todo \ {l}
            /\ mut'.seen = mut.seen \cup ContainersOf(l, "stale")
            /\ mut.step = "inspect" /\ l \in mut.checked
        BY <2>9, <3>2 DEF InspectContainers, Doing, Mutators
      <4>2. UNCHANGED <<req, container>>
        BY <2>9 DEF InspectContainers
      <4>3. Inspected(l)'
        BY <4>1, <4>2, <3>2 DEF ContainersOf, Running, HasRunningForLauncher
      <4>4. \A m \in mut.scope \ mut.todo : Inspected(m)'
        BY <4>1, <4>2 DEF Running, HasRunningForLauncher
      <4>5. QED
        BY <4>1, <4>3, <4>4
    <3>3. QED
      BY <2>9, <3>1, <3>2 DEF InspectContainers, RefuseDelete
  <2>10. QED
    BY <1>5, <2>1, <2>2, <2>3, <2>4, <2>5, <2>6, <2>7, <2>8, <2>9 DEF MutatorStep
<1>6. CASE Restart
  BY <1>6 DEF Restart
<1>7. QED
  BY <1>1, <1>2, <1>3, <1>4, <1>5, <1>6 DEF Next

(* The rows a checked delete removes are those in its scope.               *)
LEMMA RemovedRows ==
    ASSUME OwnershipInv, NEW o \in Outcomes, RemoveRows(o)
    PROVE  /\ UNCHANGED <<quiesced, req, container>> /\ mut.step = "remove"
           /\ launchers \ mut.scope \subseteq launchers'
           /\ lEnabled \ mut.scope \subseteq lEnabled'
           /\ \A l \in launchers \ mut.scope :
                 PrincipalOf[l] \in pEnabled => PrincipalOf[l] \in pEnabled'
<1>1. mut.step = "remove"
  BY DEF RemoveRows
<1>2. mut.kind \in {"deleteL", "deleteP"}
  BY <1>1, IdleFields DEF OwnershipInv, TypeOK, Mutators, Kinds, ScopeOK
<1>3. {l \in launchers : PrincipalOf[l] \in mut.principal} \subseteq mut.scope
  BY <1>2 DEF OwnershipInv, ScopeOK
<1>4. QED
  BY <1>1, <1>3 DEF RemoveRows

(* The gate: every disable closes admission before it commits, and only a  *)
(* launcher whose owners are enabled is opened again.                      *)
LEMMA GateStep ==
    ASSUME OwnershipInv, Next
    PROVE  GateOK'
<1> USE OwnershipAssumption DEF OwnershipInv, TypeOK, GateOK, EffectiveEnabled, dbVars
<1>1. ASSUME NEW r \in Requests, Request(r) PROVE GateOK'
  <2>1. CASE Resolve(r) \/ PrepareFail(r)
    BY <2>1 DEF Resolve, PrepareFail, LauncherOf
  <2>2. CASE Reserve(r) \/ Lease(r) \/ Admit(r)
    BY <2>2 DEF Reserve, Lease, Admit, LauncherOf
  <2>3. CASE ContainerStart(r) \/ ContainerExit(r) \/ OperationEnds(r)
    BY <2>3 DEF ContainerStart, ContainerExit, OperationEnds, LauncherOf
  <2>4. QED
    BY <1>1, <2>1, <2>2, <2>3 DEF Request
<1>2. CASE \E s \in Sessions : CreateSession(s) \/ DeleteSession(s)
  BY <1>2 DEF CreateSession, DeleteSession, LauncherOf
<1>3. CASE \E l \in Launchers : CreateLauncher(l)
  BY <1>3 DEF CreateLauncher, LauncherOf
<1>4. CASE BeginMutator
  BY <1>4, BeginForms DEF BeginForm, Begin, LauncherOf
<1>5. CASE MutatorStep
  <2>1. ASSUME NEW o \in Outcomes, PersistDisable(o) PROVE GateOK'
    BY <2>1 DEF PersistDisable, Owners, ScopeOK, ProgressOK, LauncherOf
  <2>2. ASSUME NEW o \in Outcomes, PersistEnable(o) PROVE GateOK'
    BY <2>2 DEF PersistEnable, LauncherOf
  <2>3. ASSUME NEW o \in Outcomes, RemoveRows(o) PROVE GateOK'
    BY <2>3, RemovedRows DEF ProgressOK, LauncherOf
  <2>4. ASSUME NEW l \in Launchers, Quiesce(l) \/ Reopen(l) \/ Resync(l)
        PROVE  GateOK'
    BY <2>4 DEF Quiesce, Reopen, Resync, Doing, ScopeOK, ProgressOK, LauncherOf
  <2>5. ASSUME NEW l \in Launchers, NEW o \in Outcomes, DisableChild(l, o) PROVE GateOK'
    BY <2>5 DEF DisableChild, LauncherOf
  <2>6. CASE Advance
    BY <2>6 DEF Advance, LauncherOf
  <2>7. ASSUME NEW l \in Launchers, InspectOperations(l) \/ InspectContainers(l) \/ RemoveStale(l)
        PROVE  GateOK'
    BY <2>7 DEF InspectOperations, InspectContainers, RemoveStale, LauncherOf
  <2>8. QED
    BY <1>5, <2>1, <2>2, <2>3, <2>4, <2>5, <2>6, <2>7 DEF MutatorStep
<1>6. CASE Restart
  BY <1>6 DEF Restart
<1>7. QED
  BY <1>1, <1>2, <1>3, <1>4, <1>5, <1>6 DEF Next

(* Admission of an enabled launcher is open unless the mutator still has   *)
(* to settle it or its re-sync is in doubt.                                *)
LEMMA MirrorStep ==
    ASSUME OwnershipInv, Next
    PROVE  MirrorOK'
<1> USE MutatorFields, IdleFields DEF OwnershipInv, TypeOK, MirrorOK, Unsettled,
        EffectiveEnabled, ScopeOK, dbVars
<1>1. CASE \E r \in Requests : Request(r)
  BY <1>1, RequestFrame
<1>2. CASE \E s \in Sessions : CreateSession(s) \/ DeleteSession(s)
  BY <1>2 DEF CreateSession, DeleteSession
<1>3. CASE \E l \in Launchers : CreateLauncher(l)
  BY <1>3 DEF CreateLauncher, RowsOK
<1>4. CASE BeginMutator
  <2>1. PICK kind \in Kinds \ {"none"}, ps \in SUBSET Principals, ls \in SUBSET Launchers :
               BeginForm(kind, ps, ls)
    BY <1>4, BeginForms
  <2>2. mut = Idle /\ UNCHANGED <<dbVars, quiesced, doubtful>>
    BY <2>1 DEF BeginForm, Begin
  <2>3. QED
    BY <2>2
<1>5. CASE MutatorStep
  <2>1. ASSUME NEW o \in Outcomes, PersistDisable(o) PROVE MirrorOK'
    BY <2>1 DEF PersistDisable, Owners, Finish
  <2>2. ASSUME NEW o \in Outcomes, PersistEnable(o) PROVE MirrorOK'
    <3>1. CASE o = "ok"
      <4>1. /\ mut'.scope = mut.scope /\ mut'.todo = mut.scope /\ mut'.step = "reopen"
        BY <2>2, <3>1 DEF PersistEnable, Mutators, ProgressOK
      <4>2. QED
        BY <2>2, <4>1 DEF PersistEnable, Owners
    <3>2. CASE o # "ok"
      BY <2>2, <3>2 DEF PersistEnable, Owners, Outcomes
    <3>3. QED
      BY <3>1, <3>2
  <2>3. ASSUME NEW o \in Outcomes, RemoveRows(o) PROVE MirrorOK'
    BY <2>3 DEF RemoveRows, Finish, Owners, ProgressOK
  <2>4. ASSUME NEW l \in Launchers, Quiesce(l) PROVE MirrorOK'
    BY <2>4 DEF Quiesce, Doing
  <2>5. ASSUME NEW l \in Launchers, Reopen(l) \/ Resync(l) PROVE MirrorOK'
    BY <2>5 DEF Reopen, Resync, Doing, ProgressOK
  <2>6. ASSUME NEW l \in Launchers, NEW o \in Outcomes, DisableChild(l, o) PROVE MirrorOK'
    BY <2>6 DEF DisableChild, Doing, ProgressOK
  <2>7. CASE Advance
    BY <2>7 DEF Advance, Finish, Deleting
  <2>8. ASSUME NEW l \in Launchers, RemoveStale(l) PROVE MirrorOK'
    BY <2>8 DEF RemoveStale, RefuseDelete, Doing
  <2>9. ASSUME NEW l \in Launchers, InspectOperations(l) \/ InspectContainers(l)
        PROVE  MirrorOK'
    BY <2>9, InspectFields DEF InspectOperations, InspectContainers
  <2>10. QED
    BY <1>5, <2>1, <2>2, <2>3, <2>4, <2>5, <2>6, <2>7, <2>8, <2>9 DEF MutatorStep
<1>6. CASE Restart
  BY <1>6 DEF Restart
<1>7. QED
  BY <1>1, <1>2, <1>3, <1>4, <1>5, <1>6 DEF Next

(* A launcher row goes only when nothing runs below it any more.           *)
LEMMA OwnerStep ==
    ASSUME OwnershipInv, Next
    PROVE  OwnerNeverLost'
<1> USE DEF OwnershipInv, TypeOK, OwnerNeverLost, Active, dbVars
<1>1. ASSUME NEW r \in Requests, Request(r) PROVE OwnerNeverLost'
  <2>1. CASE Resolve(r) \/ PrepareFail(r)
    BY <2>1 DEF Resolve, PrepareFail, LauncherOf
  <2>2. CASE Reserve(r) \/ Lease(r)
    BY <2>2 DEF Reserve, Lease, LauncherOf
  <2>3. CASE Admit(r)
    BY <2>3 DEF Admit, LauncherOf, GateOK, EffectiveEnabled
  <2>4. CASE ContainerStart(r) \/ ContainerExit(r) \/ OperationEnds(r)
    BY <2>4 DEF ContainerStart, ContainerExit, OperationEnds, LauncherOf
  <2>5. QED
    BY <1>1, <2>1, <2>2, <2>3, <2>4 DEF Request
<1>2. CASE \E s \in Sessions : CreateSession(s) \/ DeleteSession(s)
  BY <1>2 DEF CreateSession, DeleteSession, LauncherOf
<1>3. CASE \E l \in Launchers : CreateLauncher(l)
  BY <1>3 DEF CreateLauncher, LauncherOf
<1>4. CASE BeginMutator
  BY <1>4, BeginForms DEF BeginForm, Begin, LauncherOf
<1>5. CASE MutatorStep
  <2>1. ASSUME NEW o \in Outcomes, RemoveRows(o) PROVE OwnerNeverLost'
    BY <2>1, RemovedRows DEF InspectionOK, NoContainer, Running,
       HasRunningForLauncher, LauncherOf
  <2>2. ASSUME NEW o \in Outcomes, PersistDisable(o) \/ PersistEnable(o)
        PROVE  OwnerNeverLost'
    BY <2>2 DEF PersistDisable, PersistEnable, LauncherOf
  <2>3. ASSUME NEW l \in Launchers, Quiesce(l) \/ Reopen(l) \/ Resync(l)
        PROVE  OwnerNeverLost'
    BY <2>3 DEF Quiesce, Reopen, Resync, LauncherOf
  <2>4. ASSUME NEW l \in Launchers, NEW o \in Outcomes, DisableChild(l, o)
        PROVE  OwnerNeverLost'
    BY <2>4 DEF DisableChild, LauncherOf
  <2>5. CASE Advance
    BY <2>5 DEF Advance, LauncherOf
  <2>6. ASSUME NEW l \in Launchers, InspectOperations(l) \/ InspectContainers(l) \/ RemoveStale(l)
        PROVE  OwnerNeverLost'
    BY <2>6 DEF InspectOperations, InspectContainers, RemoveStale, LauncherOf
  <2>7. QED
    BY <1>5, <2>1, <2>2, <2>3, <2>4, <2>5, <2>6 DEF MutatorStep
<1>6. CASE Restart
  BY <1>6 DEF Restart, LauncherOf
<1>7. QED
  BY <1>1, <1>2, <1>3, <1>4, <1>5, <1>6 DEF Next

-----------------------------------------------------------------------------
(* The inductive invariant: it holds in the initial state and every step   *)
(* of a request, a mutator or a restart preserves it.                      *)
THEOREM OwnershipInvariant == Spec => []OwnershipInv
<1>1. Init => OwnershipInv
  <2> SUFFICES ASSUME Init PROVE OwnershipInv
    OBVIOUS
  <2>1. TypeOK
    BY OwnershipAssumption, IdleFields DEF Init, TypeOK, Mutators, Idle, Kinds, Steps
  <2>2. RowsOK /\ ScopeOK /\ ProgressOK
    BY IdleFields DEF Init, RowsOK, ScopeOK, ProgressOK, Deleting
  <2>3. InspectionOK /\ GateOK /\ MirrorOK
    BY IdleFields DEF Init, InspectionOK, GateOK, MirrorOK, Unsettled
  <2>4. SessionsBelowEnabledOwners /\ OwnerNeverLost
    BY DEF Init, SessionsBelowEnabledOwners, OwnerNeverLost, Active
  <2>5. QED
    BY <2>1, <2>2, <2>3, <2>4 DEF OwnershipInv
<1>2. OwnershipInv /\ [Next]_vars => OwnershipInv'
  <2> SUFFICES ASSUME OwnershipInv, [Next]_vars PROVE OwnershipInv'
    OBVIOUS
  <2>1. CASE Next
    <3>1. TypeOK'
      BY <2>1, DataType, MutatorType DEF OwnershipInv, Next
    <3>2. QED
      BY <2>1, <3>1, RowsStep, ScopeStep, ProgressStep, InspectionStep, GateStep,
         MirrorStep, SessionsStep, OwnerStep DEF OwnershipInv
  <2>2. CASE UNCHANGED vars
    <3> USE <2>2 DEF vars, dbVars, OwnershipInv
    <3>1. TypeOK' /\ RowsOK' /\ ScopeOK'
      BY DEF TypeOK, RowsOK, ScopeOK, Deleting
    <3>2. ProgressOK' /\ GateOK' /\ MirrorOK'
      BY DEF ProgressOK, GateOK, MirrorOK, Unsettled, EffectiveEnabled, LauncherOf
    <3>3. InspectionOK'
      BY DEF InspectionOK, Inspected, NoContainer, Running, HasRunningForLauncher,
         LauncherOf
    <3>4. SessionsBelowEnabledOwners' /\ OwnerNeverLost'
      BY DEF SessionsBelowEnabledOwners, OwnerNeverLost, Active, EffectiveEnabled,
         LauncherOf
    <3>5. QED
      BY <3>1, <3>2, <3>3, <3>4
  <2>3. QED
    BY <2>1, <2>2
<1>3. QED
  BY <1>1, <1>2, PTL DEF Spec

(* The row of a launcher outlives every operation and every container that *)
(* is attributed to it.                                                    *)
THEOREM OwnersAreKept == Spec => []OwnerNeverLost
  BY OwnershipInvariant, PTL DEF OwnershipInv

(* No session row exists below a disabled or missing owner, so that a      *)
(* restart without the quiesce set admits nothing for it.                  *)
THEOREM SessionsHaveEnabledOwners == Spec => []SessionsBelowEnabledOwners
  BY OwnershipInvariant, PTL DEF OwnershipInv

(* Between two mutators the quiesce set holds no enabled launcher, unless  *)
(* the last re-sync of that launcher could not read the database.          *)
THEOREM AdmissionFollowsRows == Spec => []AdmissionMirrorsAuthorities
<1>1. OwnershipInv => AdmissionMirrorsAuthorities
  BY IdleFields DEF OwnershipInv, MirrorOK, Unsettled, AdmissionMirrorsAuthorities
<1>2. QED
  BY <1>1, OwnershipInvariant, PTL

(* admitReserved registers an operation only while both of its owners are  *)
(* enabled in the database, whatever was reported about their transactions.*)
THEOREM NothingAdmittedWhileDisabled == Spec => NoAdmissionWhileDisabled
<1> DEFINE Step == \A r \in Requests :
             req[r] # "running" /\ req'[r] = "running" => EffectiveEnabled(LauncherOf(r))
<1>1. ASSUME OwnershipInv, Next PROVE Step
  <2>1. ASSUME NEW q \in Requests, Request(q) PROVE Step
    <3> USE DEF OwnershipInv, TypeOK
    <3>1. CASE Admit(q)
      BY <1>1, <3>1 DEF Admit, GateOK
    <3>2. CASE Resolve(q) \/ PrepareFail(q) \/ OperationEnds(q)
      BY <1>1, <3>2 DEF Resolve, PrepareFail, OperationEnds
    <3>3. CASE Reserve(q) \/ Lease(q)
      BY <1>1, <3>3 DEF Reserve, Lease
    <3>4. CASE ContainerStart(q) \/ ContainerExit(q)
      BY <3>4 DEF ContainerStart, ContainerExit
    <3>5. QED
      BY <2>1, <3>1, <3>2, <3>3, <3>4 DEF Request
  <2>2. CASE \/ \E s \in Sessions : CreateSession(s) \/ DeleteSession(s)
             \/ \E l \in Launchers : CreateLauncher(l)
    BY <2>2 DEF CreateSession, DeleteSession, CreateLauncher
  <2>3. CASE BeginMutator
    BY <1>1, <2>3, BeginForms DEF OwnershipInv, BeginForm, Begin
  <2>4. CASE MutatorStep
    BY <2>4 DEF MutatorStep, Advance, PersistDisable, PersistEnable, RemoveRows,
       Quiesce, Reopen, Resync, InspectOperations, InspectContainers, RemoveStale,
       DisableChild
  <2>5. CASE Restart
    BY <1>1, <2>5 DEF Restart, OwnershipInv, TypeOK
  <2>6. QED
    BY <1>1, <2>1, <2>2, <2>3, <2>4, <2>5 DEF Next
<1>2. OwnershipInv /\ [Next]_vars => [Step]_vars
  BY <1>1
<1>3. QED
  BY <1>2, OwnershipInvariant, PTL DEF Spec, NoAdmissionWhileDisabled

(* A checked delete disables or removes only launchers without a running   *)
(* operation and without an active container.                              *)
THEOREM DeletesOnlyQuiescent == Spec => DeleteOnlyQuiescent
<1> DEFINE Step == Deleting =>
             \A r \in Requests : req[r] = "running" \/ container[r] = "active" =>
                 /\ LauncherOf(r) \in lEnabled => LauncherOf(r) \in lEnabled'
                 /\ LauncherOf(r) \in launchers => LauncherOf(r) \in launchers'
<1>1. ASSUME OwnershipInv, Next PROVE Step
  <2> USE <1>1 DEF dbVars
  <2>1. CASE \/ \E r \in Requests : Request(r)
             \/ Restart
    BY <2>1, RequestFrame DEF Restart
  <2>2. CASE \/ \E s \in Sessions : CreateSession(s) \/ DeleteSession(s)
             \/ \E l \in Launchers : CreateLauncher(l)
    BY <2>2 DEF CreateSession, DeleteSession, CreateLauncher
  <2>3. CASE BeginMutator
    BY <2>3, BeginForms DEF OwnershipInv, BeginForm, Begin
  <2>4. CASE MutatorStep
    <3>1. ASSUME NEW o \in Outcomes, RemoveRows(o) PROVE Step
      BY <3>1, RemovedRows DEF OwnershipInv, InspectionOK, NoContainer, Running,
         HasRunningForLauncher
    <3>2. ASSUME NEW l \in Launchers, NEW o \in Outcomes, DisableChild(l, o) PROVE Step
      BY <3>2 DEF OwnershipInv, ScopeOK, InspectionOK, NoContainer, Running,
         HasRunningForLauncher, DisableChild, Doing
    <3>3. ASSUME NEW o \in Outcomes, PersistDisable(o) \/ PersistEnable(o) PROVE Step
      BY <3>3 DEF PersistDisable, PersistEnable, Deleting
    <3>4. CASE \/ Advance
               \/ \E l \in Launchers :
                    \/ Quiesce(l) \/ Reopen(l) \/ Resync(l)
                    \/ InspectOperations(l) \/ InspectContainers(l) \/ RemoveStale(l)
      BY <3>4 DEF Advance, Quiesce, Reopen, Resync, InspectOperations,
         InspectContainers, RemoveStale
    <3>5. QED
      BY <2>4, <3>1, <3>2, <3>3, <3>4 DEF MutatorStep
  <2>5. QED
    BY <2>1, <2>2, <2>3, <2>4 DEF Next
<1>2. OwnershipInv /\ [Next]_vars => [Step]_vars
  BY <1>1
<1>3. QED
  BY <1>2, OwnershipInvariant, PTL DEF Spec, DeleteOnlyQuiescent
=============================================================================
