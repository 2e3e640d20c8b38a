------------------------- MODULE ControlPlaneProofs -------------------------
(***************************************************************************)
(* Requests stay within what their credential owns, sessions come from     *)
(* live authorities, and the store implements CredentialBearer, for any    *)
(* number of concurrent requests, owners, credentials and sessions.        *)
(***************************************************************************)
EXTENDS ControlPlane, TLAPS

(* What the stages of a request have established so far.                   *)
StageOK(q) ==
  /\ q.stage = "idle" => q = Idle
  /\ q.stage = "looked" => q.cred # None
  /\ q.stage \in {"looked", "authed"} => q.target = None
  /\ q.stage \in {"resolved", "removing"} => q.target \in Owners
  /\ q.stage = "creating" => q.target \in CreateScope(q)
  /\ q.target # None => q.target \in Scope(q)

(* A rotation replaces the bearer that its own authentication presented.   *)
PreparedOK(q) ==
  q.stage \in {"prepared", "replaced", "delivered"} =>
    /\ q.target \in Credentials /\ q.fresh \in Tokens
    /\ q.cred = q.target => q.expected = Hash(q.token)

(* Inside the transaction nothing has overtaken it.                        *)
ReplacedOK(q) ==
  /\ q.stage \in {"replaced", "delivered"} => Swappable(q)
  /\ q.stage = "delivered" => <<q.target, q.expected, Hash(q.fresh)>> \in offers

(* While lifecycleMu is held the policy a create resolved stands.          *)
CreatingOK(q) == q.stage = "creating" => OwnerEnabled(q.target) /\ Covered(q.target)

(* Only an active credential has a bearer, and offers for it.              *)
BearersOK ==
  /\ \A c \in Credentials : CredRow(c) => creds[c].hash \in {Hash(t) : t \in Tokens}
  /\ \A o \in offers : creds[o[1]].state = "active"

ControlInv ==
  /\ TypeOK /\ BearersOK
  /\ \A r \in Requests :
       StageOK(reqs[r]) /\ PreparedOK(reqs[r]) /\ ReplacedOK(reqs[r]) /\ CreatingOK(reqs[r])


-----------------------------------------------------------------------------
(* Requests: a handler moves its own request only, in one of these ways.   *)

Others(r) == \A x \in Requests \ {r} : reqs'[x] = reqs[x]

(* The record of no request.                                               *)
LEMMA IdleRecord == Idle \in RequestRecords /\ Idle.stage = "idle"
  BY DEF Idle, RequestRecords, Stages, Hashes

(* Changing one request leaves the others alone.                           *)
LEMMA Moves ==
  ASSUME TypeOK, NEW r \in Requests, NEW q \in RequestRecords, Becomes(r, q)
  PROVE  reqs' \in [Requests -> RequestRecords] /\ Others(r) /\ reqs'[r] = q
BY DEF TypeOK, Becomes, Others

(* A generated token is one of the tokens.                                 *)
LEMMA FreshToken == \A t \in FreshTokens : t \in Tokens
BY DEF FreshTokens

(* A request whose record fits its new stage.                              *)
Fits(r) ==
  /\ reqs' \in [Requests -> RequestRecords] /\ Others(r)
  /\ StageOK(reqs'[r]) /\ PreparedOK(reqs'[r])

(* A request that is answered knows nothing any more.                      *)
LEMMA FinishFits ==
  ASSUME ControlInv, NEW r \in Requests, Finish(r)
  PROVE  Fits(r) /\ reqs'[r] = Idle
<1>1. reqs' \in [Requests -> RequestRecords] /\ Others(r) /\ reqs'[r] = Idle
  BY IdleRecord, Moves DEF Finish, ControlInv
<1>2. StageOK(Idle) /\ PreparedOK(Idle)
  BY DEF StageOK, PreparedOK, Idle
<1>3. QED
  BY <1>1, <1>2 DEF Fits

(* A request that moves on keeps the invariant when its new record does.   *)
LEMMA BecomesFits ==
  ASSUME ControlInv, NEW r \in Requests, NEW q \in RequestRecords, Becomes(r, q),
         StageOK(q), PreparedOK(q)
  PROVE  Fits(r) /\ reqs'[r] = q
BY Moves DEF Fits, ControlInv

(* What the targets of a request are in relation to its credential.        *)
LEMMA TargetsInScope ==
  ASSUME NEW q \in RequestRecords
  PROVE  /\ \A u : \A p \in ControlTarget(q, u) :
              /\ p \in Principals /\ Row(p) /\ p \in Scope(q)
              /\ \A l \in Below(p) : l \in Scope(q)
         /\ \A l \in CreateScope(q) : l \in Launchers /\ l \in Scope(q)
         /\ \A l \in SessionScope(q) : l \in Launchers /\ l \in Scope(q)
<1>1. IsAdmin(q) => ~IsPrincipal(q) /\ ~IsLauncher(q)
  BY DEF IsAdmin, IsPrincipal, IsLauncher
<1>2. ASSUME NEW u, NEW p \in ControlTarget(q, u)
      PROVE  /\ p \in Principals /\ Row(p) /\ p \in Scope(q)
             /\ \A l \in Below(p) : l \in Scope(q)
  <2>1. CASE IsAdmin(q)
    BY <1>1, <1>2, <2>1 DEF ControlTarget, Scope, Below, Owners
  <2>2. CASE IsPrincipal(q)
    <3>1. ~IsAdmin(q) /\ HolderOf[q.cred] \in Principals
      BY <2>2 DEF IsAdmin, IsPrincipal
    <3>2. p = HolderOf[q.cred] /\ Row(p)
      BY <1>2, <2>2, <3>1 DEF ControlTarget
    <3>3. QED
      BY <3>1, <3>2 DEF Scope
  <2>3. CASE ~IsAdmin(q) /\ ~IsPrincipal(q)
    BY <1>2, <2>3 DEF ControlTarget
  <2>4. QED
    BY <2>1, <2>2, <2>3
<1>3. \A l \in CreateScope(q) : l \in Launchers /\ l \in Scope(q)
  <2>1. CASE IsAdmin(q)
    BY <1>1, <2>1 DEF CreateScope, Scope, Owners
  <2>2. CASE IsLauncher(q)
    <3>1. ~IsAdmin(q) /\ HolderOf[q.cred] \in Launchers
      BY <2>2 DEF IsAdmin, IsLauncher
    <3>2. QED
      BY <2>2, <3>1 DEF CreateScope, Scope
  <2>3. CASE ~IsAdmin(q) /\ ~IsLauncher(q)
    BY <2>3 DEF CreateScope, Scope, Below
  <2>4. QED
    BY <2>1, <2>2, <2>3
<1>4. SessionScope(q) = CreateScope(q)
  BY DEF SessionScope, CreateScope
<1>5. QED
  BY <1>2, <1>3, <1>4

(* A credential is in the scope of whoever its owner is in the scope of.   *)
LEMMA HeldInScope ==
  ASSUME NEW q \in RequestRecords, NEW o \in Owners, o \in Scope(q)
  PROVE  HeldBy({o}) \subseteq Scope(q)
BY IdentityAssumption DEF Scope, HeldBy, Owners


(* Every handler leaves its request fit for its stage.                     *)
LEMMA OwnRequest ==
  ASSUME ControlInv, NEW r \in Requests, Handler(r)
  PROVE  Fits(r)
<1> DEFINE q == reqs[r]
<1>1. /\ q \in RequestRecords /\ StageOK(q) /\ PreparedOK(q) /\ TypeOK
      /\ q.cred \in Credentials \cup {None} /\ q.target \in Owners \cup Credentials \cup {None}
      /\ q.token \in Tokens \cup {0} /\ q.expected \in Hashes /\ q.fresh \in Tokens \cup {0}
  BY DEF ControlInv, TypeOK, RequestRecords
<1>2. None \notin Credentials /\ None \notin Owners /\ Credentials \cap Owners = {}
  BY IdentityAssumption DEF Owners
<1> HIDE DEF q
<1>3. \A n : n.cred = q.cred => Scope(n) = Scope(q) /\ CreateScope(n) = CreateScope(q)
  BY DEF Scope, CreateScope, IsAdmin, IsLauncher
<1>4. \A st \in Stages : [q EXCEPT !.stage = st] = [q EXCEPT !.stage = st, !.target = q.target]
  BY <1>1 DEF RequestRecords
<1>5. CASE Finish(r)
  BY <1>5, FinishFits
<1>6. CASE AuthenticateAdmin(r) \/ AuthenticateOwner(r)
  <2>1. CASE Becomes(r, [q EXCEPT !.stage = "authed"])
    <3> DEFINE n == [q EXCEPT !.stage = "authed"]
    <3>1. q.stage \in {"idle", "looked"} /\ q.target = None
      BY <1>1, <1>6 DEF AuthenticateAdmin, AuthenticateOwner, At, StageOK, Idle, q
    <3>2. n \in RequestRecords /\ n.stage = "authed" /\ n.target = None
      BY <1>1, <3>1 DEF RequestRecords, Stages
    <3>3. StageOK(n) /\ PreparedOK(n)
      BY <3>2 DEF StageOK, PreparedOK
    <3>4. QED
      BY <2>1, <3>2, <3>3, BecomesFits
  <2>2. QED
    BY <1>5, <1>6, <2>1 DEF AuthenticateAdmin, AuthenticateOwner, q
<1>7. CASE AuthenticateCredential(r)
  <2>1. PICK t \in Tokens, c \in Credentials :
          Becomes(r, [q EXCEPT !.stage = "looked", !.token = t, !.cred = c])
    BY <1>7 DEF AuthenticateCredential, Named, q
  <2> DEFINE n == [q EXCEPT !.stage = "looked", !.token = t, !.cred = c]
  <2>2. q.target = None
    BY <1>1, <1>7 DEF AuthenticateCredential, At, StageOK, Idle, q
  <2>3. n \in RequestRecords /\ n.stage = "looked" /\ n.target = None /\ n.cred = c
    BY <1>1, <2>2 DEF RequestRecords, Stages
  <2>4. StageOK(n) /\ PreparedOK(n)
    BY <1>2, <2>3 DEF StageOK, PreparedOK
  <2>5. QED
    BY <2>1, <2>3, <2>4, BecomesFits
<1>8. CASE Resolve(r)
  <2>1. PICK x \in Owners : x \in Scope(q) /\ Becomes(r, [q EXCEPT !.stage = "resolved", !.target = x])
    BY <1>1, <1>8, TargetsInScope
    DEF Resolve, ResolvePrincipal, ResolveLauncher, Owners, Below, q
  <2> DEFINE n == [q EXCEPT !.stage = "resolved", !.target = x]
  <2>2. n \in RequestRecords /\ n.stage = "resolved" /\ n.target = x /\ n.cred = q.cred
    BY <1>1 DEF RequestRecords, Stages
  <2>3. StageOK(n) /\ PreparedOK(n)
    BY <1>3, <2>1, <2>2 DEF StageOK, PreparedOK
  <2>4. QED
    BY <2>1, <2>2, <2>3, BecomesFits
<1>9. CASE DeletePrincipal(r) \/ DeleteLauncher(r)
  <2>1. PICK x \in Owners : x \in Scope(q) /\ Becomes(r, [q EXCEPT !.stage = "removing", !.target = x])
    <3>1. CASE DeletePrincipal(r)
      BY <3>1 DEF DeletePrincipal, Scope, Owners, q
    <3>2. CASE DeleteLauncher(r)
      <4>1. q.target \in Owners /\ q.target \in Scope(q)
        BY <1>1, <1>2, <3>2 DEF DeleteLauncher, At, StageOK, q
      <4>2. Becomes(r, [q EXCEPT !.stage = "removing"])
        BY <3>2 DEF DeleteLauncher, q
      <4>3. [q EXCEPT !.stage = "removing"] = [q EXCEPT !.stage = "removing", !.target = q.target]
        BY <1>4 DEF Stages
      <4>4. QED
        BY <4>1, <4>2, <4>3
    <3>3. QED
      BY <1>9, <3>1, <3>2
  <2> DEFINE n == [q EXCEPT !.stage = "removing", !.target = x]
  <2>2. n \in RequestRecords /\ n.stage = "removing" /\ n.target = x /\ n.cred = q.cred
    BY <1>1 DEF RequestRecords, Stages
  <2>3. StageOK(n) /\ PreparedOK(n)
    BY <1>3, <2>1, <2>2 DEF StageOK, PreparedOK
  <2>4. QED
    BY <2>1, <2>2, <2>3, BecomesFits
<1>10. CASE PrepareResolved(r) \/ PrepareSelf(r)
  <2>1. PICK c \in Credentials : c \in Scope(q) /\ Prepare(r, c)
    <3>1. CASE PrepareResolved(r)
      <4>1. q.target \in Owners /\ q.target \in Scope(q)
        BY <1>1, <1>2, <3>1 DEF PrepareResolved, At, StageOK, q
      <4>2. PICK c \in HeldBy({q.target}) : Prepare(r, c)
        BY <3>1 DEF PrepareResolved, q
      <4>3. QED
        BY <1>1, <4>1, <4>2, HeldInScope DEF HeldBy
    <3>2. CASE PrepareSelf(r)
      BY <1>1, <3>2 DEF PrepareSelf, IsLauncher, Scope, HeldBy, IsAdmin, q
    <3>3. QED
      BY <1>10, <3>1, <3>2
  <2>2. PICK t \in Tokens :
          Becomes(r, [q EXCEPT !.stage = "prepared", !.target = c,
                               !.expected = creds[c].hash, !.fresh = t])
    BY <2>1, FreshToken DEF Prepare, q
  <2>3. creds[c].hash \in Hashes /\ (q.cred = c => creds[c].hash = Hash(q.token))
    BY <1>1, <2>1 DEF TypeOK, Prepare, BearerCurrent, q
  <2> DEFINE n == [q EXCEPT !.stage = "prepared", !.target = c,
                            !.expected = creds[c].hash, !.fresh = t]
  <2>4. /\ n \in RequestRecords /\ n.stage = "prepared" /\ n.target = c /\ n.fresh = t
        /\ n.expected = creds[c].hash /\ n.cred = q.cred /\ n.token = q.token
    BY <1>1, <2>3 DEF RequestRecords, Stages
  <2>5. Scope(n) = Scope(q)
    BY <1>3, <2>4
  <2>6. StageOK(n) /\ PreparedOK(n)
    BY <2>1, <2>3, <2>4, <2>5 DEF StageOK, PreparedOK
  <2>7. QED
    BY <2>2, <2>4, <2>6, BecomesFits
<1>11. CASE Replace(r) \/ Deliver(r)
  <2>1. ASSUME NEW st \in {"replaced", "delivered"}, Becomes(r, [q EXCEPT !.stage = st])
        PROVE  Fits(r)
    <3> DEFINE n == [q EXCEPT !.stage = st]
    <3>1. q.stage \in {"prepared", "replaced"}
      BY <1>11 DEF Replace, Deliver, At, q
    <3>2. /\ n \in RequestRecords /\ n.stage = st /\ n.target = q.target /\ n.cred = q.cred
          /\ n.token = q.token /\ n.expected = q.expected /\ n.fresh = q.fresh
      BY <1>1 DEF RequestRecords, Stages
    <3>3. StageOK(n) /\ PreparedOK(n)
      BY <1>1, <1>3, <3>1, <3>2 DEF StageOK, PreparedOK
    <3>4. QED
      BY <2>1, <3>2, <3>3, BecomesFits
  <2>2. QED
    BY <1>5, <1>11, <2>1 DEF Replace, Deliver, q
<1>12. CASE CreateSessionBegin(r)
  <2>1. PICK l \in CreateScope(q) : Becomes(r, [q EXCEPT !.stage = "creating", !.target = l])
    BY <1>12 DEF CreateSessionBegin, q
  <2> DEFINE n == [q EXCEPT !.stage = "creating", !.target = l]
  <2>2. l \in Launchers /\ l \in Scope(q) /\ l \in Owners
    BY <1>1, <2>1, TargetsInScope DEF Owners
  <2>3. n \in RequestRecords /\ n.stage = "creating" /\ n.target = l /\ n.cred = q.cred
    BY <1>1, <2>2 DEF RequestRecords, Stages
  <2>4. StageOK(n) /\ PreparedOK(n)
    BY <1>3, <2>1, <2>2, <2>3 DEF StageOK, PreparedOK
  <2>5. QED
    BY <2>1, <2>3, <2>4, BecomesFits
<1>13. QED
  <2>1. CASE ChangeOwners(r)
    BY <1>5, <1>9, <2>1
    DEF ChangeOwners, CreatePrincipal, SetPrincipal, RemoveRows, CreateLauncher, PatchLauncher
  <2>2. CASE ChangeRoots(r)
    BY <1>5, <2>2
    DEF ChangeRoots, ReplaceLauncherRoots, AddLauncherRoot, RemoveLauncherRoot,
        SetLauncherRootAccess, AddPrincipalRoot, RemovePrincipalRoot,
        SetPrincipalRootAccess, SetGrants
  <2>3. CASE ChangeCredentials(r)
    BY <1>5, <2>3
    DEF ChangeCredentials, CreatePrincipalCredential, RevokePrincipalCredential,
        IssueLauncherCredential, DeleteLauncherCredential
  <2>4. CASE Rotate(r)
    BY <1>5, <1>10, <1>11, <2>4 DEF Rotate, Commit
  <2>5. CASE ChangeSessions(r)
    BY <1>5, <1>12, <2>5 DEF ChangeSessions, CreateSessionInsert, DeleteSession
  <2>6. CASE Read(r)
    BY <1>5, <2>6
    DEF Read, ShowPrincipal, ShowLauncher, ShowLauncherCredential, ListLaunchers,
        ListPrincipalCredentials, ListSessions, Self, Answer
  <2>7. CASE Refuse(r)
    BY <1>5, <2>7 DEF Refuse
  <2>8. QED
    BY <1>6, <1>7, <1>8, <2>1, <2>2, <2>3, <2>4, <2>5, <2>6, <2>7
    DEF Handler, Authenticate

(* The locks are honoured: each is held exactly in the stages that need    *)
(* it, and what it protects is changed by nobody but its holder.           *)
Respects(r) ==
  /\ lifecycle' \in Requests \cup {None} /\ writer' \in Requests \cup {None}
  /\ lifecycle' = r <=> reqs'[r].stage \in {"creating", "removing"}
  /\ writer' = r <=> reqs'[r].stage \in {"replaced", "delivered"}
  /\ \A x \in Requests \ {r} : (lifecycle' = x <=> lifecycle = x) /\ (writer' = x <=> writer = x)
  /\ lifecycle \notin {None, r} => UNCHANGED <<enabled, grants>>
  /\ writer \notin {None, r} => UNCHANGED <<creds, offers>>
  /\ reqs'[r].stage \in {"replaced", "delivered"} => Replace(r) \/ Deliver(r)
  /\ reqs'[r].stage = "creating" => CreateSessionBegin(r)
  /\ reqs'[r].cred = reqs[r].cred \/ reqs'[r].target = None

(* A handler changes what a lock protects only while it holds that lock.   *)
LEMMA LocksRespected ==
  ASSUME ControlInv, NEW r \in Requests, Handler(r)
  PROVE  Respects(r)
<1> USE DEF Respects, At, Finish, Becomes, Idle, rowVars
<1>1. /\ reqs \in [Requests -> RequestRecords] /\ None \notin Requests
      /\ lifecycle \in Requests \cup {None} /\ writer \in Requests \cup {None}
      /\ \A x \in Requests :
           /\ lifecycle = x <=> reqs[x].stage \in {"creating", "removing"}
           /\ writer = x <=> reqs[x].stage \in {"replaced", "delivered"}
      /\ reqs[r].stage = "idle" => reqs[r].target = None
  BY IdentityAssumption DEF ControlInv, TypeOK, StageOK, Idle
<1>2. CASE AuthenticateAdmin(r)
  BY <1>1, <1>2 DEF AuthenticateAdmin, RequestRecords
<1>3. CASE AuthenticateCredential(r)
  BY <1>1, <1>3 DEF AuthenticateCredential, RequestRecords
<1>4. CASE AuthenticateOwner(r)
  BY <1>1, <1>4 DEF AuthenticateOwner, RequestRecords
<1>5. CASE ResolvePrincipal(r)
  BY <1>1, <1>5 DEF ResolvePrincipal, RequestRecords
<1>6. CASE ResolveLauncher(r)
  BY <1>1, <1>6 DEF ResolveLauncher, RequestRecords
<1>7. CASE CreatePrincipal(r)
  BY <1>1, <1>7 DEF CreatePrincipal, MayMutate, MayWrite, RequestRecords
<1>8. CASE SetPrincipal(r)
  BY <1>1, <1>8 DEF SetPrincipal, MayMutate, MayWrite, RequestRecords
<1>9. CASE DeletePrincipal(r)
  BY <1>1, <1>9 DEF DeletePrincipal, MayMutate, MayWrite, RequestRecords
<1>10. CASE DeleteLauncher(r)
  BY <1>1, <1>10 DEF DeleteLauncher, MayMutate, MayWrite, RequestRecords
<1>11. CASE RemoveRows(r)
  BY <1>1, <1>11 DEF RemoveRows, MayWrite, Drop, RequestRecords
<1>12. CASE CreateLauncher(r)
  BY <1>1, <1>12 DEF CreateLauncher, MayMutate, MayWrite, RequestRecords
<1>13. CASE PatchLauncher(r)
  BY <1>1, <1>13 DEF PatchLauncher, MayMutate, MayWrite, RequestRecords
<1>14. CASE ChangeRoots(r)
  BY <1>1, <1>14
  DEF ChangeRoots, ReplaceLauncherRoots, AddLauncherRoot, RemoveLauncherRoot,
      SetLauncherRootAccess, AddPrincipalRoot, RemovePrincipalRoot,
      SetPrincipalRootAccess, SetGrants, TargetsLauncher, MayMutate, MayWrite,
      RequestRecords
<1>15. CASE ChangeCredentials(r)
  BY <1>1, <1>15
  DEF ChangeCredentials, CreatePrincipalCredential, RevokePrincipalCredential,
      IssueLauncherCredential, DeleteLauncherCredential, MayWrite, RequestRecords
<1>16. CASE PrepareResolved(r)
  BY <1>1, <1>16 DEF PrepareResolved, Prepare, RequestRecords
<1>17. CASE PrepareSelf(r)
  BY <1>1, <1>17 DEF PrepareSelf, Prepare, RequestRecords
<1>18. CASE Replace(r)
  BY <1>1, <1>18 DEF Replace, MayWrite, RequestRecords
<1>19. CASE Deliver(r)
  BY <1>1, <1>19 DEF Deliver, RequestRecords
<1>20. CASE Commit(r)
  BY <1>1, <1>20 DEF Commit, RequestRecords
<1>21. CASE CreateSessionBegin(r)
  <2>1. /\ lifecycle = None /\ lifecycle' = r /\ UNCHANGED <<writer, rowVars, offers>>
        /\ reqs[r].stage = "authed" /\ reqs'[r].stage = "creating"
        /\ reqs'[r].cred = reqs[r].cred
    BY <1>1, <1>21 DEF CreateSessionBegin, RequestRecords
  <2>2. QED
    BY <1>1, <1>21, <2>1
<1>22. CASE CreateSessionInsert(r)
  BY <1>1, <1>22 DEF CreateSessionInsert, MayWrite, RequestRecords
<1>23. CASE DeleteSession(r)
  BY <1>1, <1>23 DEF DeleteSession, MayWrite, RequestRecords
<1>24. CASE Read(r)
  BY <1>1, <1>24
  DEF Read, ShowPrincipal, ShowLauncher, ShowLauncherCredential, ListScope,
      ListLaunchers, ListPrincipalCredentials, ListSessions, Self, Answer,
      TargetsLauncher, RequestRecords
<1>25. CASE Refuse(r)
  BY <1>1, <1>25 DEF Refuse, RequestRecords
<1>26. QED
  BY <1>2, <1>3, <1>4, <1>5, <1>6, <1>7, <1>8, <1>9, <1>10, <1>11, <1>12, <1>13, <1>14,
     <1>15, <1>16, <1>17, <1>18, <1>19, <1>20, <1>21, <1>22, <1>23, <1>24, <1>25
  DEF Handler, Authenticate, Resolve, ChangeOwners, Rotate, ChangeSessions

-----------------------------------------------------------------------------
(* Rows.                                                                   *)
LEMMA StepOwnerRows ==
  ASSUME ControlInv, NEW r \in Requests, Handler(r)
  PROVE  /\ enabled' \in [Owners -> {"new", "on", "off", "gone"}]
         /\ grants' \subseteq {o \in Owners : Row(o)}'
         /\ sessions' \in [Sessions -> Launchers \cup {None}]
<1> USE DEF At, Row, rowVars
<1>1. /\ enabled \in [Owners -> {"new", "on", "off", "gone"}]
      /\ grants \subseteq {o \in Owners : Row(o)}
      /\ sessions \in [Sessions -> Launchers \cup {None}]
      /\ Principals \subseteq Owners /\ Launchers \subseteq Owners
      /\ StageOK(reqs[r]) /\ reqs[r] \in RequestRecords
  BY DEF ControlInv, TypeOK, Owners
<1>2. CASE CreatePrincipal(r)
  BY <1>1, <1>2 DEF CreatePrincipal
<1>3. CASE SetPrincipal(r)
  BY <1>1, <1>3 DEF SetPrincipal, WithoutSessions
<1>4. CASE DeletePrincipal(r)
  BY <1>1, <1>4 DEF DeletePrincipal, WithoutSessions
<1>5. CASE DeleteLauncher(r)
  BY <1>1, <1>5 DEF DeleteLauncher, WithoutSessions
<1>6. CASE RemoveRows(r)
  BY <1>1, <1>6 DEF RemoveRows, Drop, WithoutSessions
<1>7. CASE CreateLauncher(r)
  BY <1>1, <1>7 DEF CreateLauncher, Below
<1>8. CASE PatchLauncher(r)
  BY <1>1, <1>8 DEF PatchLauncher, WithoutSessions
<1>9. CASE ChangeRoots(r)
  <2>1. grants' \subseteq {o \in Owners : Row(o)} /\ UNCHANGED <<enabled, sessions>>
    BY <1>1, <1>9
    DEF ChangeRoots, ReplaceLauncherRoots, AddLauncherRoot, RemoveLauncherRoot,
        SetLauncherRootAccess, AddPrincipalRoot, RemovePrincipalRoot,
        SetPrincipalRootAccess, SetGrants, TargetsLauncher
  <2>2. QED
    BY <1>1, <2>1
<1>10. CASE CreateSessionInsert(r)
  <2>1. reqs[r].target \in Launchers
    BY <1>1, <1>10, TargetsInScope DEF CreateSessionInsert, StageOK
  <2>2. QED
    BY <1>1, <1>10, <2>1 DEF CreateSessionInsert
<1>11. CASE DeleteSession(r)
  BY <1>1, <1>11 DEF DeleteSession
<1>12. CASE UNCHANGED <<enabled, grants, sessions>>
  BY <1>1, <1>12
<1>13. QED
  BY <1>2, <1>3, <1>4, <1>5, <1>6, <1>7, <1>8, <1>9, <1>10, <1>11, <1>12
  DEF Handler, Authenticate, AuthenticateAdmin, AuthenticateCredential, AuthenticateOwner,
      Resolve, ResolvePrincipal, ResolveLauncher, ChangeOwners, ChangeCredentials,
      CreatePrincipalCredential, RevokePrincipalCredential, IssueLauncherCredential,
      DeleteLauncherCredential, Rotate, PrepareResolved, PrepareSelf, Prepare, Replace,
      Deliver, Commit, ChangeSessions, CreateSessionBegin, Read, ShowPrincipal,
      ShowLauncher, ShowLauncherCredential, ListLaunchers, ListPrincipalCredentials,
      ListSessions, Self, Answer, Refuse

(* Credentials: what may happen to them, in the words of CredentialBearer. *)
Issued(c) ==
  /\ c \in Credentials /\ creds[c].state = "new"
  /\ \E t \in Tokens : creds' = [creds EXCEPT ![c] = [state |-> "active", hash |-> Hash(t)]]
  /\ UNCHANGED offers

Retired(C) ==
  /\ C \subseteq Credentials
  /\ creds' \in [Credentials -> [state : {"new", "active", "revoked", "gone"}, hash : Hashes]]
  /\ \A c \in Credentials :
       \/ creds'[c] = creds[c] /\ (c \in C => creds[c].state # "active")
       \/ c \in C /\ CredRow(c) /\ creds'[c].state = "gone"
       \/ c \in C /\ creds[c].state = "active" /\ creds'[c] = [creds[c] EXCEPT !.state = "revoked"]
  /\ offers' = Forget(C)

Offered(r) ==
  /\ reqs[r].stage = "replaced"
  /\ offers' = offers \cup {<<reqs[r].target, reqs[r].expected, Hash(reqs[r].fresh)>>}
  /\ UNCHANGED creds

Switched(r) ==
  /\ reqs[r].stage = "delivered"
  /\ creds' = [creds EXCEPT ![reqs[r].target].hash = Hash(reqs[r].fresh)]
  /\ offers' = Forget({reqs[r].target})

(* The ways in which a handler changes credentials and offers.             *)
LEMMA CredentialStep ==
  ASSUME ControlInv, NEW r \in Requests, Handler(r)
  PROVE  \/ UNCHANGED <<creds, offers>>
         \/ \E c \in Credentials : Issued(c)
         \/ \E C \in SUBSET Credentials : Retired(C)
         \/ Offered(r) \/ Switched(r)
<1> USE DEF At, rowVars
<1>1. /\ creds \in [Credentials -> [state : {"new", "active", "revoked", "gone"}, hash : Hashes]]
      /\ NoHash \in Hashes
  BY DEF ControlInv, TypeOK, Hashes
<1>2. ASSUME NEW c \in Credentials, InsertCredential(c), UNCHANGED offers
      PROVE  Issued(c)
  BY <1>2, FreshToken DEF InsertCredential, Issued
<1>3. CASE CreatePrincipal(r) \/ CreateLauncher(r)
  BY <1>2, <1>3 DEF CreatePrincipal, CreateLauncher, HeldBy
<1>4. CASE CreatePrincipalCredential(r) \/ IssueLauncherCredential(r)
  BY <1>2, <1>4 DEF CreatePrincipalCredential, IssueLauncherCredential, HeldBy
<1>5. CASE RemoveRows(r)
  <2>1. PICK os : Drop(os)
    BY <1>5 DEF RemoveRows
  <2>2. Retired(HeldBy(os))
    BY <1>1, <2>1 DEF Drop, Retired, HeldBy, CredRow
  <2>3. QED
    BY <2>2 DEF HeldBy
<1>6. CASE RevokePrincipalCredential(r)
  <2>1. PICK c \in Credentials :
          /\ creds[c].state = "active" /\ creds' = [creds EXCEPT ![c].state = "revoked"]
          /\ offers' = Forget({c})
    BY <1>6 DEF RevokePrincipalCredential, HeldBy
  <2>2. Retired({c})
    BY <1>1, <2>1 DEF Retired
  <2>3. QED
    BY <2>2
<1>7. CASE DeleteLauncherCredential(r)
  <2>1. PICK c \in Credentials :
          /\ CredRow(c) /\ creds' = [creds EXCEPT ![c] = [state |-> "gone", hash |-> NoHash]]
          /\ offers' = Forget({c})
    BY <1>7 DEF DeleteLauncherCredential, HeldBy
  <2>2. Retired({c})
    BY <1>1, <2>1 DEF Retired
  <2>3. QED
    BY <2>2
<1>8. CASE Deliver(r)
  BY <1>8 DEF Deliver, Offered
<1>9. CASE Commit(r)
  BY <1>9 DEF Commit, Switched
<1>10. QED
  BY <1>3, <1>4, <1>5, <1>6, <1>7, <1>8, <1>9
  DEF Handler, Authenticate, AuthenticateAdmin, AuthenticateCredential, AuthenticateOwner,
      Resolve, ResolvePrincipal, ResolveLauncher, ChangeOwners, SetPrincipal,
      DeletePrincipal, DeleteLauncher, PatchLauncher, ChangeRoots, ReplaceLauncherRoots,
      AddLauncherRoot, RemoveLauncherRoot, SetLauncherRootAccess, AddPrincipalRoot,
      RemovePrincipalRoot, SetPrincipalRootAccess, SetGrants, ChangeCredentials, Rotate,
      PrepareResolved, PrepareSelf, Prepare, Replace, ChangeSessions, CreateSessionBegin,
      CreateSessionInsert, DeleteSession, Read, ShowPrincipal, ShowLauncher,
      ShowLauncherCredential, ListLaunchers, ListPrincipalCredentials, ListSessions, Self,
      Answer, Refuse

(* What the transaction of a rotation holds on to.                         *)
LEMMA RotationFacts ==
  ASSUME ControlInv, NEW r \in Requests, reqs[r].stage \in {"replaced", "delivered"}
  PROVE  /\ reqs[r].target \in Credentials /\ reqs[r].fresh \in Tokens
         /\ creds[reqs[r].target].state = "active"
         /\ creds[reqs[r].target].hash = reqs[r].expected /\ reqs[r].expected \in Hashes
         /\ reqs[r].cred = reqs[r].target => reqs[r].expected = Hash(reqs[r].token)
BY DEF ControlInv, TypeOK, RequestRecords, PreparedOK, ReplacedOK, Swappable

(* Every handler keeps the bearers of active credentials and the offers    *)
(* for them.                                                               *)
LEMMA StepBearers ==
  ASSUME ControlInv, NEW r \in Requests, Handler(r)
  PROVE  /\ creds' \in [Credentials -> [state : {"new", "active", "revoked", "gone"},
                                        hash : Hashes]]
         /\ offers' \subseteq Credentials \X Hashes \X Hashes
         /\ BearersOK'
<1>1. /\ creds \in [Credentials -> [state : {"new", "active", "revoked", "gone"}, hash : Hashes]]
      /\ offers \subseteq Credentials \X Hashes \X Hashes
      /\ \A c \in Credentials : CredRow(c) => creds[c].hash \in {Hash(t) : t \in Tokens}
      /\ \A o \in offers : o[1] \in Credentials /\ creds[o[1]].state = "active"
      /\ \A t \in Tokens : Hash(t) \in Hashes
  BY DEF ControlInv, TypeOK, BearersOK, Hashes
<1>2. CASE UNCHANGED <<creds, offers>>
  BY <1>1, <1>2 DEF BearersOK, CredRow
<1>3. ASSUME NEW c \in Credentials, Issued(c)
      PROVE  /\ creds' \in [Credentials -> [state : {"new", "active", "revoked", "gone"},
                                            hash : Hashes]]
             /\ offers' \subseteq Credentials \X Hashes \X Hashes
             /\ BearersOK'
  BY <1>1, <1>3 DEF Issued, BearersOK, CredRow
<1>4. ASSUME NEW C \in SUBSET Credentials, Retired(C)
      PROVE  /\ creds' \in [Credentials -> [state : {"new", "active", "revoked", "gone"},
                                            hash : Hashes]]
             /\ offers' \subseteq Credentials \X Hashes \X Hashes
             /\ BearersOK'
  <2>1. \A c \in Credentials : CredRow(c)' => creds'[c].hash = creds[c].hash /\ CredRow(c)
    BY <1>1, <1>4 DEF Retired, CredRow
  <2>2. \A o \in offers' : o \in offers /\ creds'[o[1]] = creds[o[1]]
    BY <1>1, <1>4 DEF Retired, Forget
  <2>3. QED
    BY <1>1, <1>4, <2>1, <2>2 DEF Retired, BearersOK
<1>5. CASE Offered(r)
  <2> DEFINE o == <<reqs[r].target, reqs[r].expected, Hash(reqs[r].fresh)>>
  <2>1. /\ reqs[r].target \in Credentials /\ reqs[r].expected \in Hashes
        /\ Hash(reqs[r].fresh) \in Hashes /\ creds[reqs[r].target].state = "active"
    BY <1>1, <1>5, RotationFacts DEF Offered
  <2>2. o \in Credentials \X Hashes \X Hashes /\ o[1] = reqs[r].target
    BY <2>1
  <2>3. QED
    BY <1>1, <1>5, <2>1, <2>2 DEF Offered, BearersOK, CredRow
<1>6. CASE Switched(r)
  <2> DEFINE c == reqs[r].target
  <2>1. /\ c \in Credentials /\ creds[c].state = "active"
        /\ Hash(reqs[r].fresh) \in {Hash(t) : t \in Tokens}
        /\ creds' = [creds EXCEPT ![c].hash = Hash(reqs[r].fresh)]
        /\ offers' = Forget({c})
    BY <1>6, RotationFacts DEF Switched
  <2> HIDE DEF c
  <2>2. creds' \in [Credentials -> [state : {"new", "active", "revoked", "gone"},
                                    hash : Hashes]]
    BY <1>1, <2>1 DEF Hashes
  <2>3. \A k \in Credentials : /\ creds'[k].state = creds[k].state
                               /\ creds'[k].hash \in {creds[k].hash, Hash(reqs[r].fresh)}
    BY <1>1, <2>1
  <2>4. offers' \subseteq offers
    BY <2>1 DEF Forget
  <2>5. QED
    BY <1>1, <2>1, <2>2, <2>3, <2>4 DEF BearersOK, CredRow
<1>7. QED
  BY <1>2, <1>3, <1>4, <1>5, <1>6, CredentialStep

-----------------------------------------------------------------------------
(* What a request established under a lock stands as long as it holds it.  *)
LEMMA StepReplaced ==
  ASSUME ControlInv, NEW r \in Requests, Handler(r), Fits(r), Respects(r),
         NEW x \in Requests
  PROVE  ReplacedOK(reqs[x])'
<1>1. ReplacedOK(reqs[x]) /\ (writer = x <=> reqs[x].stage \in {"replaced", "delivered"})
  BY DEF ControlInv, TypeOK
<1>2. CASE x # r
  <2>1. reqs'[x] = reqs[x]
    BY <1>2 DEF Fits, Others
  <2>2. writer = x => UNCHANGED <<creds, offers>>
    BY <1>2, IdentityAssumption DEF Respects
  <2>3. QED
    BY <1>1, <2>1, <2>2 DEF ReplacedOK, Swappable
<1>3. CASE x = r /\ reqs'[r].stage \in {"replaced", "delivered"}
  <2>1. reqs[r] \in RequestRecords /\ reqs \in [Requests -> RequestRecords]
    BY DEF ControlInv, TypeOK
  <2>2. CASE Replace(r)
    BY <1>3, <2>1, <2>2
    DEF Replace, Becomes, Finish, Idle, At, ReplacedOK, Swappable, rowVars, RequestRecords
  <2>3. CASE Deliver(r)
    BY <1>1, <1>3, <2>1, <2>3
    DEF Deliver, Becomes, Finish, Idle, At, ReplacedOK, Swappable, rowVars, RequestRecords
  <2>4. QED
    BY <1>3, <2>2, <2>3 DEF Respects
<1>4. CASE x = r /\ reqs'[r].stage \notin {"replaced", "delivered"}
  BY <1>4 DEF ReplacedOK
<1>5. QED
  BY <1>2, <1>3, <1>4

(* The policy that a session creation resolved under lifecycleMu stands    *)
(* until its insert.                                                       *)
LEMMA StepCreating ==
  ASSUME ControlInv, NEW r \in Requests, Handler(r), Fits(r), Respects(r),
         NEW x \in Requests
  PROVE  CreatingOK(reqs[x])'
<1>1. CreatingOK(reqs[x]) /\ (lifecycle = x <=> reqs[x].stage \in {"creating", "removing"})
  BY DEF ControlInv, TypeOK
<1>2. CASE x # r
  <2>1. reqs'[x] = reqs[x]
    BY <1>2 DEF Fits, Others
  <2>2. lifecycle = x => UNCHANGED <<enabled, grants>>
    BY <1>2, IdentityAssumption DEF Respects
  <2>3. QED
    BY <1>1, <2>1, <2>2 DEF CreatingOK, OwnerEnabled, Covered
<1>3. CASE x = r /\ reqs'[r].stage = "creating"
  <2>1. CreateSessionBegin(r)
    BY <1>3 DEF Respects
  <2>2. reqs[r] \in RequestRecords /\ reqs \in [Requests -> RequestRecords]
    BY DEF ControlInv, TypeOK
  <2>3. QED
    BY <1>3, <2>1, <2>2
    DEF CreateSessionBegin, Becomes, CreatingOK, OwnerEnabled, Covered, rowVars, RequestRecords
<1>4. CASE x = r /\ reqs'[r].stage # "creating"
  BY <1>4 DEF CreatingOK
<1>5. QED
  BY <1>2, <1>3, <1>4

(* Every step keeps the invariant.                                         *)
LEMMA StepControl ==
  ASSUME ControlInv, [Next]_vars
  PROVE  ControlInv'
<1>1. CASE UNCHANGED vars
  <2>1. UNCHANGED <<lifecycle, writer, enabled, grants, creds, sessions, reqs, offers>>
    BY <1>1 DEF vars
  <2>2. TypeOK' /\ BearersOK'
    BY <2>1 DEF ControlInv, TypeOK, BearersOK, Row, CredRow
  <2>3. \A r \in Requests : ReplacedOK(reqs[r])' /\ CreatingOK(reqs[r])'
    BY <2>1 DEF ControlInv, ReplacedOK, CreatingOK, Swappable, OwnerEnabled, Covered
  <2>4. \A r \in Requests : StageOK(reqs'[r]) /\ PreparedOK(reqs'[r])
    BY <2>1 DEF ControlInv
  <2>5. QED
    BY <2>2, <2>3, <2>4 DEF ControlInv
<1>2. ASSUME NEW r \in Requests, Handler(r)
      PROVE  ControlInv'
  <2>1. Fits(r) /\ Respects(r)
    BY <1>2, OwnRequest, LocksRespected
  <2>2. reqs' \in [Requests -> RequestRecords] /\ \A x \in Requests \ {r} : reqs'[x] = reqs[x]
    BY <2>1 DEF Fits, Others
  <2>3. \A x \in Requests : StageOK(reqs'[x]) /\ PreparedOK(reqs'[x])
    BY <2>1, <2>2 DEF Fits, ControlInv
  <2>4. \A x \in Requests : ReplacedOK(reqs[x])' /\ CreatingOK(reqs[x])'
    BY <1>2, <2>1, StepReplaced, StepCreating
  <2>5. \A x \in Requests :
          /\ lifecycle' = x <=> reqs'[x].stage \in {"creating", "removing"}
          /\ writer' = x <=> reqs'[x].stage \in {"replaced", "delivered"}
    BY <2>1, <2>2 DEF ControlInv, TypeOK, Respects
  <2>6. TypeOK'
    BY <1>2, <2>1, <2>2, <2>5, StepOwnerRows, StepBearers DEF TypeOK, Respects
  <2>7. QED
    BY <1>2, <2>3, <2>4, <2>6, StepBearers DEF ControlInv
<1>3. QED
  BY <1>1, <1>2 DEF Next

-----------------------------------------------------------------------------
(* Sessions: only the conditional insert makes one, and the launcher of a  *)
(* create is the authority itself or below it.                             *)
LEMMA SessionOnlyFromInsert ==
  ASSUME ControlInv, NEW r \in Requests, Handler(r), NEW s \in Sessions,
         sessions[s] = None, sessions'[s] # None
  PROVE  CreateSessionInsert(r)
<1> USE DEF rowVars
<1>1. /\ sessions \in [Sessions -> Launchers \cup {None}]
      /\ \A ls : WithoutSessions(ls)[s] = None
  BY DEF ControlInv, TypeOK, WithoutSessions
<1>2. CASE ChangeOwners(r)
  <2>1. CASE SetPrincipal(r) \/ DeletePrincipal(r)
    <3>1. PICK p : sessions' \in {WithoutSessions(Below(p)), sessions}
      BY <2>1 DEF SetPrincipal, DeletePrincipal
    <3>2. QED
      BY <1>1, <3>1
  <2>2. CASE DeleteLauncher(r) \/ PatchLauncher(r)
    BY <1>1, <2>2 DEF DeleteLauncher, PatchLauncher
  <2>3. CASE RemoveRows(r)
    BY <1>1, <2>3 DEF RemoveRows, Drop
  <2>4. QED
    BY <1>2, <2>1, <2>2, <2>3 DEF ChangeOwners, CreatePrincipal, CreateLauncher
<1>3. CASE DeleteSession(r)
  BY <1>1, <1>3 DEF DeleteSession
<1>4. CASE UNCHANGED sessions
  BY <1>4
<1>5. QED
  BY <1>2, <1>3, <1>4
  DEF Handler, Authenticate, AuthenticateAdmin, AuthenticateCredential, AuthenticateOwner,
      Resolve, ResolvePrincipal, ResolveLauncher, ChangeRoots, ReplaceLauncherRoots,
      AddLauncherRoot, RemoveLauncherRoot, SetLauncherRootAccess, AddPrincipalRoot,
      RemovePrincipalRoot, SetPrincipalRootAccess, SetGrants, ChangeCredentials,
      CreatePrincipalCredential, RevokePrincipalCredential, IssueLauncherCredential,
      DeleteLauncherCredential, Rotate, PrepareResolved, PrepareSelf, Prepare, Replace,
      Deliver, Commit, ChangeSessions, CreateSessionBegin, Read, ShowPrincipal,
      ShowLauncher, ShowLauncherCredential, ListLaunchers, ListPrincipalCredentials,
      ListSessions, Self, Answer, Refuse

(* The holder of a creating credential is enabled with the launcher it     *)
(* creates for.                                                            *)
LEMMA CreatorEnabled ==
  ASSUME NEW q \in RequestRecords, q.cred # None, q.target \in CreateScope(q),
         OwnerEnabled(q.target)
  PROVE  OwnerEnabled(HolderOf[q.cred])
<1>1. q.cred \in Credentials /\ HolderOf[q.cred] \in Principals \cup Launchers
  BY IdentityAssumption DEF RequestRecords
<1>2. CASE HolderOf[q.cred] \in Launchers
  <2>1. q.target = HolderOf[q.cred]
    BY <1>2 DEF CreateScope, IsAdmin, IsLauncher
  <2>2. QED
    BY <2>1
<1>3. CASE HolderOf[q.cred] \notin Launchers
  <2>1. q.target \in Launchers /\ OwnerOf[q.target] = HolderOf[q.cred]
    BY <1>3 DEF CreateScope, IsAdmin, IsLauncher, Below
  <2>2. QED
    BY <1>3, <2>1 DEF OwnerEnabled
<1>4. QED
  BY <1>2, <1>3

(* Whatever the handlers interleave, a request in a stage has what the     *)
(* stage needs: its target is its own, its transaction is not overtaken,   *)
(* and the policy it resolved under lifecycleMu still stands.              *)
THEOREM ControlInvariant == Spec => []ControlInv
<1>1. Init => ControlInv
  <2> SUFFICES ASSUME Init PROVE ControlInv
    OBVIOUS
  <2> DEFINE first == InitialRows \cap Credentials
             token == CHOOSE f \in Injection(first, Tokens) : TRUE
  <2>1. token \in [first -> Tokens]
    <3>1. Injection(first, Tokens) # {}
      BY IdentityAssumption DEF ExistsInjection
    <3>2. token \in Injection(first, Tokens)
      BY <3>1
    <3>3. QED
      BY <3>2 DEF Injection
  <2>2. creds = [c \in Credentials |->
                   IF c \in first THEN [state |-> "active", hash |-> Hash(token[c])]
                                  ELSE [state |-> "new", hash |-> NoHash]]
    BY DEF Init
  <2> HIDE DEF first, token
  <2>3. ASSUME NEW c \in Credentials
        PROVE  /\ creds[c] \in [state : {"new", "active", "revoked", "gone"}, hash : Hashes]
               /\ CredRow(c) => creds[c].hash \in {Hash(t) : t \in Tokens}
    <3>1. CASE c \in first
      <4>1. creds[c] = [state |-> "active", hash |-> Hash(token[c])] /\ token[c] \in Tokens
        BY <2>1, <2>2, <3>1
      <4>2. QED
        BY <4>1 DEF Hashes
    <3>2. CASE c \notin first
      <4>1. creds[c] = [state |-> "new", hash |-> NoHash]
        BY <2>2, <3>2
      <4>2. QED
        BY <4>1 DEF Hashes, CredRow
    <3>3. QED
      BY <3>1, <3>2
  <2>4. creds \in [Credentials -> [state : {"new", "active", "revoked", "gone"}, hash : Hashes]]
    BY <2>2, <2>3
  <2>5. \A c \in Credentials : CredRow(c) => creds[c].hash \in {Hash(t) : t \in Tokens}
    BY <2>3
  <2>6. /\ reqs \in [Requests -> RequestRecords]
        /\ \A r \in Requests : reqs[r] = Idle /\ reqs[r].stage = "idle"
    BY IdleRecord DEF Init
  <2>7. TypeOK
    BY <2>4, <2>6, IdentityAssumption DEF Init, TypeOK, Owners, Row
  <2>8. StageOK(Idle) /\ PreparedOK(Idle) /\ ReplacedOK(Idle) /\ CreatingOK(Idle)
    BY DEF StageOK, PreparedOK, ReplacedOK, CreatingOK, Idle
  <2>9. QED
    BY <2>5, <2>6, <2>7, <2>8 DEF Init, ControlInv, BearersOK
<1>2. ControlInv /\ [Next]_vars => ControlInv'
  BY StepControl
<1>3. QED
  BY <1>1, <1>2, PTL DEF Spec

(* TypeOK: in particular no exit of a handler keeps lifecycleMu or an open *)
(* transaction, and none is held in a stage that does not need it.         *)
THEOREM LocksAccountedFor == Spec => []TypeOK
<1>1. ControlInv => TypeOK
  BY DEF ControlInv
<1>2. QED
  BY <1>1, ControlInvariant, PTL

(* OneWinnerPerBearer: a credential that rotates itself replaces the very  *)
(* bearer it presented, however many requests presented it                 *)
(* (commitCredentialRotationAfterDelivery).                                *)
THEOREM RotationHasOneWinner == Spec => OneWinnerPerBearer
<1> DEFINE Wins(r) ==
      LET c == reqs[r].cred IN
      (/\ reqs[r].stage = "delivered" /\ reqs[r].target = c /\ reqs'[r] # reqs[r]
       /\ creds'[c] # creds[c]) => creds[c].hash = Hash(reqs[r].token)
<1>1. ControlInv => \A r \in Requests : Wins(r)
  BY RotationFacts
<1>2. QED
  BY <1>1, ControlInvariant, PTL DEF OneWinnerPerBearer

(* SessionFromLiveAuthority: revocation and rotation take no lifecycleMu,  *)
(* disabling and the change of roots do; either way what precedes the      *)
(* conditional insert of createSessionAuthorized prevents it.              *)
THEOREM SessionsFromLiveAuthorities == Spec => SessionFromLiveAuthority
<1> DEFINE Live(s) ==
      sessions[s] = None /\ sessions'[s] # None =>
        /\ OwnerEnabled(sessions'[s]) /\ Covered(sessions'[s])
        /\ \E r \in Requests :
             /\ reqs[r].stage = "creating" /\ reqs'[r] # reqs[r]
             /\ reqs[r].cred # None =>
                  /\ creds[reqs[r].cred].state = "active"
                  /\ OwnerEnabled(HolderOf[reqs[r].cred])
<1>1. ASSUME ControlInv, Next, NEW s \in Sessions, sessions[s] = None, sessions'[s] # None
      PROVE  Live(s)
  <2>1. PICK r \in Requests : Handler(r)
    BY <1>1 DEF Next
  <2>2. CreateSessionInsert(r)
    BY <1>1, <2>1, SessionOnlyFromInsert
  <2> DEFINE q == reqs[r]
  <2>3. /\ q.stage = "creating" /\ q \in RequestRecords /\ q.target \in CreateScope(q)
        /\ OwnerEnabled(q.target) /\ Covered(q.target)
    BY <1>1, <2>2 DEF CreateSessionInsert, At, ControlInv, TypeOK, StageOK, CreatingOK
  <2>4. sessions'[s] = q.target /\ Insertable(q)
    BY <1>1, <2>2 DEF CreateSessionInsert, ControlInv, TypeOK
  <2>5. reqs'[r] # reqs[r]
    BY <1>1, <2>2, <2>3, FinishFits, IdleRecord DEF CreateSessionInsert
  <2>6. q.cred # None => creds[q.cred].state = "active"
    BY <2>4 DEF Insertable, IsAdmin
  <2>7. q.cred # None => OwnerEnabled(HolderOf[q.cred])
    BY <2>3, CreatorEnabled
  <2>8. QED
    BY <2>3, <2>4, <2>5, <2>6, <2>7
<1>2. ControlInv /\ [Next]_vars => [\A s \in Sessions : Live(s)]_vars
  BY <1>1
<1>3. QED
  BY <1>2, ControlInvariant, PTL DEF Spec, SessionFromLiveAuthority

-----------------------------------------------------------------------------
(* The refinement of CredentialBearer, one transition of it at a time.     *)
LEMMA AcceptsOf ==
  \A c \in Credentials :
     /\ creds[c].state = "active" => Accepts[c] = creds[c].hash
     /\ creds[c].state = "new" => Accepts[c] = Unborn
     /\ creds[c].state \in {"revoked", "gone"} => Accepts[c] = Dead
BY DEF Accepts

(* Issuing a credential is Issue of the abstract store.                    *)
LEMMA RefineIssue ==
  ASSUME ControlInv, NEW c \in Credentials, Issued(c)
  PROVE  Bearer!Issue(c)
<1>1. PICK t \in Tokens : creds' = [creds EXCEPT ![c] = [state |-> "active", hash |-> Hash(t)]]
  BY DEF Issued
<1>2. creds \in [Credentials -> [state : {"new", "active", "revoked", "gone"}, hash : Hashes]]
  BY DEF ControlInv, TypeOK
<1>3. Accepts[c] = Unborn
  BY AcceptsOf DEF Issued
<1>4. Accepts' = [Accepts EXCEPT ![c] = Hash(t)]
  <2>1. ASSUME NEW k \in Credentials, k # c PROVE Accepts'[k] = Accepts[k]
    BY <1>1, <1>2, <2>1 DEF Accepts
  <2>2. Accepts'[c] = Hash(t)
    BY <1>1, <1>2 DEF Accepts
  <2>3. QED
    BY <2>1, <2>2 DEF Accepts
<1>5. QED
  BY <1>3, <1>4 DEF Bearer!Issue, Issued

(* Revoking or deleting credentials is Retire of the abstract store.       *)
LEMMA RefineRetire ==
  ASSUME ControlInv, NEW C \in SUBSET Credentials, Retired(C)
  PROVE  \E D \in SUBSET Credentials : Bearer!Retire(D)
<1> DEFINE D == {c \in C : creds[c].state = "active"}
<1>1. /\ creds \in [Credentials -> [state : {"new", "active", "revoked", "gone"}, hash : Hashes]]
      /\ \A c \in Credentials : CredRow(c) => creds[c].hash \in {Hash(t) : t \in Tokens}
      /\ \A o \in offers : creds[o[1]].state = "active"
  BY DEF ControlInv, TypeOK, BearersOK
<1>2. \A c \in D : Accepts[c] \in {Hash(t) : t \in Tokens}
  BY <1>1, AcceptsOf DEF CredRow
<1>3. ASSUME NEW c \in Credentials
      PROVE  Accepts'[c] = IF c \in D THEN Dead ELSE Accepts[c]
  <2>1. CASE creds'[c] = creds[c]
    BY <2>1 DEF Retired, Accepts
  <2>2. CASE creds'[c] # creds[c]
    <3>1. c \in C /\ CredRow(c) /\ creds'[c].state \in {"gone", "revoked"}
      BY <1>1, <2>2 DEF Retired, CredRow
    <3>2. Accepts'[c] = Dead
      BY <3>1 DEF Accepts
    <3>3. c \notin D => Accepts[c] = Dead
      BY <3>1 DEF Accepts, CredRow
    <3>4. QED
      BY <3>2, <3>3
  <2>3. QED
    BY <2>1, <2>2
<1>4. Accepts' = [c \in Credentials |-> IF c \in D THEN Dead ELSE Accepts[c]]
  BY <1>3 DEF Accepts
<1>5. offers' = {o \in offers : o[1] \notin D}
  BY <1>1 DEF Retired, Forget
<1>6. Bearer!Retire(D)
  BY <1>2, <1>4, <1>5 DEF Bearer!Retire, Bearer!Forget
<1>7. QED
  BY <1>6

(* Delivering a replacement is Offer of the abstract store.                *)
LEMMA RefineOffer ==
  ASSUME ControlInv, NEW r \in Requests, Offered(r)
  PROVE  \E c \in Credentials : Bearer!Offer(c)
<1> DEFINE c == reqs[r].target
<1>1. /\ c \in Credentials /\ creds[c].state = "active" /\ creds[c].hash = reqs[r].expected
      /\ reqs[r].fresh \in Tokens
  BY RotationFacts DEF Offered
<1>2. Accepts[c] = reqs[r].expected /\ Accepts[c] \in {Hash(t) : t \in Tokens}
  BY <1>1, AcceptsOf DEF ControlInv, BearersOK, CredRow
<1>3. offers' = offers \cup {<<c, Accepts[c], Hash(reqs[r].fresh)>>} /\ Accepts' = Accepts
  BY <1>2 DEF Offered, Accepts
<1>4. Bearer!Offer(c)
  BY <1>1, <1>2, <1>3 DEF Bearer!Offer
<1>5. QED
  BY <1>1, <1>4

(* Committing a rotation is Switch of the abstract store.                  *)
LEMMA RefineSwitch ==
  ASSUME ControlInv, NEW r \in Requests, Switched(r)
  PROVE  \E c \in Credentials : Bearer!Switch(c)
<1> DEFINE c == reqs[r].target
           h == Hash(reqs[r].fresh)
<1>1. /\ c \in Credentials /\ creds[c].state = "active" /\ creds[c].hash = reqs[r].expected
      /\ reqs[r].fresh \in Tokens
      /\ <<c, reqs[r].expected, h>> \in offers
  BY RotationFacts DEF Switched, ControlInv, ReplacedOK
<1>2. /\ creds \in [Credentials -> [state : {"new", "active", "revoked", "gone"}, hash : Hashes]]
      /\ creds' = [creds EXCEPT ![c].hash = h] /\ offers' = Forget({c})
  BY DEF Switched, ControlInv, TypeOK
<1>3. Accepts[c] = reqs[r].expected /\ h \in {Hash(t) : t \in Tokens}
  BY <1>1, AcceptsOf
<1> HIDE DEF c, h
<1>4. Accepts' = [Accepts EXCEPT ![c] = h]
  <2>1. ASSUME NEW k \in Credentials, k # c PROVE Accepts'[k] = Accepts[k]
    BY <1>2, <2>1 DEF Accepts
  <2>2. creds'[c].state = "active" /\ creds'[c].hash = h
    BY <1>1, <1>2
  <2>3. Accepts'[c] = h
    BY <1>1, <2>2 DEF Accepts
  <2>4. QED
    BY <2>1, <2>3 DEF Accepts
<1>5. Bearer!Switch(c)
  BY <1>1, <1>2, <1>3, <1>4 DEF Bearer!Switch, Bearer!Forget, Forget
<1>6. QED
  BY <1>1, <1>5

(* BearerKept: the store implements CredentialBearer. A rotation is an     *)
(* offer when it is answered and a switch when it is committed; issuing,   *)
(* revoking and deleting are what they are; all else stutters.             *)
THEOREM BearersAreKept == Spec => BearerKept
<1>1. Init /\ ControlInv => Bearer!BearerInit
  <2> SUFFICES ASSUME Init, ControlInv PROVE Bearer!BearerInit
    OBVIOUS
  <2>1. ASSUME NEW c \in Credentials
        PROVE  Accepts[c] \in {Hash(t) : t \in Tokens} \cup {Unborn}
    <3>1. creds[c].state \in {"active", "new"}
      BY DEF Init
    <3>2. CredRow(c) => creds[c].hash \in {Hash(t) : t \in Tokens}
      BY DEF ControlInv, BearersOK
    <3>3. QED
      BY <3>1, <3>2, AcceptsOf DEF CredRow
  <2>2. Accepts \in [Credentials -> {Hash(t) : t \in Tokens} \cup {Unborn}]
    BY <2>1 DEF Accepts
  <2>3. QED
    BY <2>2 DEF Bearer!BearerInit, Init
<1>2. ControlInv /\ [Next]_vars => [Bearer!BearerNext]_(Bearer!bearerVars)
  <2> SUFFICES ASSUME ControlInv, [Next]_vars
               PROVE  [Bearer!BearerNext]_(Bearer!bearerVars)
    OBVIOUS
  <2>1. CASE UNCHANGED <<creds, offers>>
    BY <2>1 DEF Bearer!bearerVars, Accepts
  <2>2. CASE UNCHANGED vars
    BY <2>1, <2>2 DEF vars
  <2>3. ASSUME NEW r \in Requests, Handler(r)
        PROVE  [Bearer!BearerNext]_(Bearer!bearerVars)
    BY <2>1, <2>3, CredentialStep, RefineIssue, RefineRetire, RefineOffer, RefineSwitch
    DEF Bearer!BearerNext
  <2>4. QED
    BY <2>2, <2>3 DEF Next
<1>3. QED
  BY <1>1, <1>2, ControlInvariant, PTL DEF Spec, BearerKept, Bearer!BearerSpec

-----------------------------------------------------------------------------
(* Scope: what a step of a request changes is within reach of its          *)
(* credential.                                                             *)
Reach(r) == Scope(reqs[r])

(* Scopes are closed: with an owner come its launchers and its credentials. *)
LEMMA ScopeClosed ==
  ASSUME NEW q \in RequestRecords, NEW o \in Owners, o \in Scope(q)
  PROVE  /\ Below(o) \subseteq Scope(q)
         /\ HeldBy({o} \cup Below(o)) \subseteq Scope(q)
<1>1. /\ OwnerOf \in [Launchers -> Principals] /\ Principals \cap Launchers = {}
      /\ Credentials \cap Owners = {} /\ Launchers \subseteq Owners
  BY IdentityAssumption DEF Owners
<1> DEFINE owners == IF IsAdmin(q) THEN Owners ELSE {HolderOf[q.cred]} \cup Below(HolderOf[q.cred])
<1>2. Scope(q) = owners \cup HeldBy(owners)
  BY DEF Scope
<1>3. o \in owners
  BY <1>1, <1>2 DEF HeldBy
<1>4. Below(o) \subseteq owners
  <2>1. CASE IsAdmin(q)
    BY <1>1, <2>1 DEF Below
  <2>2. CASE ~IsAdmin(q) /\ o = HolderOf[q.cred]
    BY <2>2
  <2>3. CASE ~IsAdmin(q) /\ o \in Below(HolderOf[q.cred])
    BY <1>1, <2>3 DEF Below
  <2>4. QED
    BY <1>3, <2>1, <2>2, <2>3
<1> HIDE DEF owners
<1>5. HeldBy({o} \cup Below(o)) \subseteq HeldBy(owners)
  BY <1>3, <1>4 DEF HeldBy
<1>6. QED
  BY <1>2, <1>4, <1>5

(* The administrator's scope is everything.                                *)
LEMMA AdminReach ==
  ASSUME NEW q, IsAdmin(q)
  PROVE  Owners \subseteq Scope(q) /\ Credentials \subseteq Scope(q)
BY IdentityAssumption DEF Scope, HeldBy, Owners

(* The pieces of Touched.                                                  *)
OwnersTouched == {o \in Owners : enabled'[o] # enabled[o] \/ (o \in grants) # (o \in grants')}
CredsTouched == {c \in Credentials : creds'[c] # creds[c]}
SessionsWithin(S) ==
  \A s \in Sessions : sessions'[s] # sessions[s] => {sessions[s], sessions'[s]} \subseteq S \cup {None}

(* What a step touches lies where its owners, credentials and sessions     *)
(* lie.                                                                    *)
LEMMA TouchedParts ==
  ASSUME NEW S, OwnersTouched \subseteq S, CredsTouched \subseteq S, SessionsWithin(S)
  PROVE  Touched \subseteq S \cup {None}
BY DEF Touched, OwnersTouched, CredsTouched, SessionsWithin

(* The three pieces of a step of request r.                                *)
Within(S) == OwnersTouched \subseteq S /\ CredsTouched \subseteq S /\ SessionsWithin(S)

(* A handler touches nothing outside the reach of its request.             *)
LEMMA WithinReach ==
  ASSUME ControlInv, NEW r \in Requests, Handler(r)
  PROVE  Within(Reach(r))
<1> USE DEF At, rowVars
<1> DEFINE q == reqs[r]
           o == q.target
           S == Reach(r)
<1>1. /\ TypeOK /\ q \in RequestRecords /\ StageOK(q) /\ S = Scope(q)
      /\ None \notin Owners /\ Launchers \subseteq Owners /\ Principals \subseteq Owners
  BY IdentityAssumption DEF ControlInv, TypeOK, Reach, Owners
<1>2. /\ enabled' \in [Owners -> {"new", "on", "off", "gone"}] /\ grants' \subseteq Owners
      /\ sessions' \in [Sessions -> Launchers \cup {None}]
  BY StepOwnerRows
<1>3. CASE IsAdmin(q)
  <2>1. Owners \subseteq S /\ Credentials \subseteq S
    BY <1>1, <1>3, AdminReach
  <2>2. \A s \in Sessions : {sessions[s], sessions'[s]} \subseteq S \cup {None}
    BY <1>1, <1>2, <2>1 DEF TypeOK
  <2>3. QED
    BY <2>1, <2>2 DEF Within, OwnersTouched, CredsTouched, SessionsWithin
<1>4. q.stage \in {"resolved", "removing"} =>
        /\ o \in Owners /\ o \in S /\ Below(o) \subseteq S
        /\ HeldBy({o} \cup Below(o)) \subseteq S
  BY <1>1, ScopeClosed DEF StageOK
<1> HIDE DEF S
<1>5. ASSUME UNCHANGED enabled, UNCHANGED grants
      PROVE  OwnersTouched \subseteq S
  BY <1>5 DEF OwnersTouched
<1>6. ASSUME UNCHANGED creds PROVE CredsTouched \subseteq S
  BY <1>6 DEF CredsTouched
<1>7. ASSUME UNCHANGED sessions PROVE SessionsWithin(S)
  BY <1>7 DEF SessionsWithin
<1>8. ASSUME NEW ls, ls \subseteq S, sessions' \in {sessions, WithoutSessions(ls)}
      PROVE  SessionsWithin(S)
  BY <1>8 DEF SessionsWithin, WithoutSessions
<1>9. ASSUME NEW c \in S, \A k \in Credentials \ {c} : creds'[k] = creds[k]
      PROVE  CredsTouched \subseteq S
  BY <1>9 DEF CredsTouched
<1>10. ASSUME NEW c \in Credentials, InsertCredential(c)
       PROVE  \A k \in Credentials \ {c} : creds'[k] = creds[k]
  BY <1>1, <1>10 DEF InsertCredential, TypeOK
<1>11. CASE DeleteLauncher(r) \/ PatchLauncher(r)
  <2>1. /\ o \in S /\ {o} \subseteq S /\ \A x \in Owners \ {o} : enabled'[x] = enabled[x]
    BY <1>1, <1>4, <1>11 DEF DeleteLauncher, PatchLauncher, TypeOK
  <2>2. UNCHANGED <<grants, creds>> /\ sessions' \in {sessions, WithoutSessions({o})}
    BY <1>11 DEF DeleteLauncher, PatchLauncher
  <2>3. OwnersTouched \subseteq S
    BY <2>1, <2>2 DEF OwnersTouched
  <2>4. QED
    BY <1>6, <1>8, <2>1, <2>2, <2>3 DEF Within, S
<1>12. CASE RemoveRows(r)
  <2>1. PICK os \in SUBSET Owners : os \subseteq {o} \cup Below(o) /\ Drop(os)
    BY <1>1, <1>4, <1>12 DEF RemoveRows, Below
  <2>2. os \subseteq S /\ HeldBy(os) \subseteq S
    BY <1>4, <1>12, <2>1 DEF RemoveRows, HeldBy
  <2>3. OwnersTouched \subseteq S
    BY <1>1, <2>1, <2>2 DEF Drop, OwnersTouched, TypeOK
  <2>4. CredsTouched \subseteq S
    BY <2>1, <2>2 DEF Drop, CredsTouched
  <2>5. SessionsWithin(S)
    BY <1>8, <2>1, <2>2 DEF Drop
  <2>6. QED
    BY <2>3, <2>4, <2>5 DEF Within, S
<1>13. CASE CreateLauncher(r)
  <2>1. PICK l \in Below(o) :
          /\ enabled' = [enabled EXCEPT ![l] = "on"] /\ grants' \in {grants, grants \cup {l}}
          /\ (\E c \in HeldBy({l}) : InsertCredential(c)) \/ UNCHANGED creds
    BY <1>13 DEF CreateLauncher
  <2>2. l \in S /\ HeldBy({l}) \subseteq S
    BY <1>4, <1>13, <2>1 DEF CreateLauncher, HeldBy
  <2>3. OwnersTouched \subseteq S
    BY <1>1, <2>1, <2>2 DEF OwnersTouched, TypeOK
  <2>4. CredsTouched \subseteq S
    BY <1>6, <1>9, <1>10, <2>1, <2>2 DEF HeldBy
  <2>5. QED
    BY <1>7, <1>13, <2>3, <2>4 DEF CreateLauncher, Within, S
<1>14. CASE ReplaceLauncherRoots(r) \/ AddLauncherRoot(r) \/ RemoveLauncherRoot(r)
            \/ SetLauncherRootAccess(r)
  <2>1. /\ q.stage = "resolved" /\ UNCHANGED <<enabled, creds, sessions>>
        /\ grants' \in {grants, grants \cup {o}, grants \ {o}}
    BY <1>14 DEF ReplaceLauncherRoots, AddLauncherRoot, RemoveLauncherRoot,
                 SetLauncherRootAccess, SetGrants, TargetsLauncher
  <2>2. OwnersTouched \subseteq S
    BY <1>4, <2>1 DEF OwnersTouched
  <2>3. QED
    BY <1>6, <1>7, <2>1, <2>2 DEF Within, S
<1>15. CASE IssueLauncherCredential(r) \/ DeleteLauncherCredential(r)
  <2>1. PICK c \in HeldBy({o}) : \A k \in Credentials \ {c} : creds'[k] = creds[k]
    <3>1. CASE IssueLauncherCredential(r)
      BY <1>10, <3>1 DEF IssueLauncherCredential, HeldBy
    <3>2. CASE DeleteLauncherCredential(r)
      BY <1>1, <3>2 DEF DeleteLauncherCredential, HeldBy, TypeOK
    <3>3. QED
      BY <1>15, <3>1, <3>2
  <2>2. c \in S
    BY <1>4, <1>15, <2>1 DEF IssueLauncherCredential, DeleteLauncherCredential, HeldBy
  <2>3. UNCHANGED <<enabled, grants, sessions>>
    BY <1>15 DEF IssueLauncherCredential, DeleteLauncherCredential
  <2>4. QED
    BY <1>5, <1>7, <1>9, <2>1, <2>2, <2>3 DEF Within, S
<1>16. CASE Commit(r)
  <2>1. o \in Credentials /\ o \in S
    BY <1>1, <1>16, RotationFacts, IdentityAssumption DEF Commit, StageOK, S
  <2>2. \A k \in Credentials \ {o} : creds'[k] = creds[k]
    BY <1>1, <1>16 DEF Commit, TypeOK
  <2>3. QED
    BY <1>5, <1>7, <1>9, <1>16, <2>1, <2>2 DEF Commit, Within, S
<1>17. CASE CreateSessionInsert(r)
  <2>1. o \in S
    BY <1>1, <1>17, TargetsInScope DEF CreateSessionInsert, StageOK, S
  <2>2. \A s \in Sessions : sessions'[s] # sessions[s] => sessions[s] = None /\ sessions'[s] = o
    BY <1>1, <1>17 DEF CreateSessionInsert, TypeOK
  <2>3. SessionsWithin(S)
    BY <2>1, <2>2 DEF SessionsWithin, S
  <2>4. QED
    BY <1>5, <1>6, <1>17, <2>3 DEF CreateSessionInsert, Within, S
<1>18. CASE DeleteSession(r)
  <2>1. \A s \in Sessions : sessions'[s] # sessions[s] =>
          sessions[s] \in SessionScope(q) /\ sessions'[s] = None
    BY <1>1, <1>18 DEF DeleteSession, TypeOK
  <2>2. SessionsWithin(S)
    BY <1>1, <2>1, TargetsInScope DEF SessionsWithin, S
  <2>3. QED
    BY <1>5, <1>6, <1>18, <2>2 DEF DeleteSession, Within, S
<1>19. CASE UNCHANGED <<enabled, grants, creds, sessions>>
  BY <1>5, <1>6, <1>7, <1>19 DEF Within, S
<1>20. QED
  <2>1. CASE ChangeOwners(r) \/ ChangeRoots(r) \/ ChangeCredentials(r)
    BY <1>3, <1>11, <1>12, <1>13, <1>14, <1>15, <2>1
    DEF ChangeOwners, ChangeRoots, ChangeCredentials, CreatePrincipal, SetPrincipal,
        DeletePrincipal, AddPrincipalRoot, RemovePrincipalRoot, SetPrincipalRootAccess,
        CreatePrincipalCredential, RevokePrincipalCredential, S
  <2>2. CASE Rotate(r) \/ ChangeSessions(r)
    BY <1>16, <1>17, <1>18, <1>19, <2>2
    DEF Rotate, PrepareResolved, PrepareSelf, Prepare, Replace, Deliver, ChangeSessions,
        CreateSessionBegin, S
  <2>3. CASE Authenticate(r) \/ Resolve(r) \/ Read(r) \/ Refuse(r)
    BY <1>19, <2>3
    DEF Authenticate, AuthenticateAdmin, AuthenticateCredential, AuthenticateOwner, Resolve,
        ResolvePrincipal, ResolveLauncher, Read, ShowPrincipal, ShowLauncher,
        ShowLauncherCredential, ListLaunchers, ListPrincipalCredentials, ListSessions, Self,
        Answer, Refuse, S
  <2>4. QED
    BY <2>1, <2>2, <2>3 DEF Handler

(* OwnScopeOnly: a handler resolves, changes and shows only what belongs   *)
(* to the credential it authenticated, although the owner may have been    *)
(* disabled, deleted and recreated under the same name in between          *)
(* (resolvePrincipalControlTarget, requireScopedLauncher).                 *)
THEOREM OwnScopeRespected == Spec => OwnScopeOnly
<1> DEFINE Mine(r) ==
      reqs'[r] # reqs[r] =>
        Touched \cup {reqs'[r].target} \subseteq Scope(reqs[r]) \cup {None}
<1>1. ASSUME ControlInv, Next, NEW x \in Requests, reqs'[x] # reqs[x]
      PROVE  Mine(x)
  <2>1. PICK r \in Requests : Handler(r)
    BY <1>1 DEF Next
  <2>2. Fits(r) /\ Respects(r)
    BY <1>1, <2>1, OwnRequest, LocksRespected
  <2>3. x = r
    BY <1>1, <2>2 DEF Fits, Others
  <2>4. Touched \subseteq Scope(reqs[r]) \cup {None}
    BY <1>1, <2>1, WithinReach, TouchedParts DEF Within, Reach
  <2>5. reqs'[r].cred = reqs[r].cred => Scope(reqs'[r]) = Scope(reqs[r])
    BY DEF Scope, IsAdmin
  <2>6. reqs'[r].target \in Scope(reqs[r]) \cup {None}
    BY <2>2, <2>5 DEF Fits, Respects, StageOK
  <2>7. QED
    BY <2>3, <2>4, <2>6
<1>2. ControlInv /\ [Next]_vars => [\A r \in Requests : Mine(r)]_vars
  BY <1>1
<1>3. QED
  BY <1>2, ControlInvariant, PTL DEF Spec, OwnScopeOnly
=============================================================================
