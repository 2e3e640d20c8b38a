---------------------------- MODULE ControlPlane ----------------------------
(***************************************************************************)
(* The operator control plane: the HTTP handlers that authenticate an      *)
(* admin token, a Principal credential or a Launcher credential, resolve   *)
(* the resource a request names and then read or change the ownership      *)
(* rows, the credentials or the sessions.  (The rotation of the admin      *)
(* token itself is in DaemonLifecycle.)                                    *)
(*                                                                         *)
(* A handler is not one transaction.  It reads the token, then the owner   *)
(* of the credential, then the target, and only then mutates; another      *)
(* request may rotate, revoke, disable, delete and recreate in between.    *)
(* Every such gap is a stage of the request here.  Two locks order the     *)
(* rest: lifecycleMu (lifecycle), and credentialRotationMu together with   *)
(* SQLite's single writer (writer).  A crash of the daemon is every open   *)
(* request failing where it is: nothing but rows outlives it.              *)
(*                                                                         *)
(* Rows are identified by what the database never uses twice: a Principal  *)
(* recreated under the same username is another element of Principals.     *)
(* Policies (allowed roots) are in RootPolicy and the protocol of a        *)
(* disable or delete against running operations is in OwnershipLifecycle.  *)
(***************************************************************************)
EXTENDS Naturals, Functions

CONSTANTS Requests,     \* concurrent HTTP requests
          Principals,   \* ids of principal rows
          UserOf,       \* the username of each of them
          Launchers,    \* ids of launcher rows
          OwnerOf,      \* the principal of each of them
          Credentials,  \* ids of credential rows
          HolderOf,     \* the principal or launcher of each of them
          Sessions,     \* bound: session rows at a time
          InitialRows,  \* principals, launchers and credentials at the start
          MaxTokens,    \* bound: tokens that anything still refers to
          None

Tokens == 1 .. MaxTokens

ASSUME IdentityAssumption ==
  /\ UserOf \in [Principals -> {UserOf[p] : p \in Principals}]
  /\ OwnerOf \in [Launchers -> Principals]
  /\ HolderOf \in [Credentials -> Principals \cup Launchers]
  /\ Principals \cap Launchers = {} /\ Credentials \cap (Principals \cup Launchers) = {}
  /\ None \notin Requests \cup Principals \cup Launchers \cup Credentials
  /\ MaxTokens \in Nat
  /\ InitialRows \subseteq Principals \cup Launchers \cup Credentials
  /\ ExistsInjection(InitialRows \cap Credentials, Tokens)

VARIABLES
  lifecycle,   \* the request that holds lifecycleMu
  writer,      \* the request whose rotation transaction is open
  enabled,     \* the rows of principals and launchers and their enabled flag
  grants,      \* the owners whose allowed roots cover the workspace
  creds,       \* the rows of credentials: state and token hash
  sessions,    \* the launcher of each session row
  reqs,        \* the requests being handled
  offers       \* <<credential, hash replaced, hash>> of delivered rotations

vars == <<lifecycle, writer, enabled, grants, creds, sessions, reqs, offers>>

rowVars == <<enabled, grants, creds, sessions>>

-----------------------------------------------------------------------------
(* Rows and tokens *)

\* hashCredentialToken, sha256.Sum256: injective, and not the token itself.
Hash(t) == <<"sha256", t>>

NoHash == <<"sha256", 0>>

Owners == Principals \cup Launchers
Users == {UserOf[p] : p \in Principals}

\* A row exists in state "on" or "off" (enabled), "new" and "gone" are none.
Row(o) == enabled[o] \in {"on", "off"}

\* Launchers of a principal, and credentials of an owner.
Below(o) == {l \in Launchers : OwnerOf[l] = o}
HeldBy(os) == {c \in Credentials : HolderOf[c] \in os}

CredRow(c) == creds[c].state \in {"active", "revoked"}

\* The credential a token names, if any.
Named(t) == {c \in Credentials : CredRow(c) /\ creds[c].hash = Hash(t)}

Idle == [stage |-> "idle", token |-> 0, cred |-> None, target |-> None,
         expected |-> NoHash, fresh |-> 0]

\* The classes of operatorAuthority.
IsAdmin(q) == q.cred = None
IsPrincipal(q) == q.cred # None /\ HolderOf[q.cred] \in Principals
IsLauncher(q) == q.cred # None /\ HolderOf[q.cred] \in Launchers

UsedTokens ==
  {reqs[r].fresh : r \in Requests} \cup {reqs[r].token : r \in Requests}
         \cup {t \in Tokens : \E c \in Credentials : creds[c].hash = Hash(t)}
         \cup {t \in Tokens : \E o \in offers : o[3] = Hash(t)}

\* generateCredentialToken: a token nothing refers to.
FreshTokens ==
  LET free == Tokens \ UsedTokens IN IF free = {} THEN {} ELSE {CHOOSE t \in free : TRUE}

Init ==
  /\ lifecycle = None /\ writer = None
  /\ enabled = [o \in Owners |-> IF o \in InitialRows THEN "on" ELSE "new"]
  /\ LET first == InitialRows \cap Credentials
         token == CHOOSE f \in Injection(first, Tokens) : TRUE
     IN
     creds = [c \in Credentials |->
                IF c \in first THEN [state |-> "active", hash |-> Hash(token[c])]
                               ELSE [state |-> "new", hash |-> NoHash]]
  /\ grants = InitialRows \cap Owners
  /\ sessions = [s \in Sessions |-> None]
  /\ reqs = [r \in Requests |-> Idle]
  /\ offers = {}

-----------------------------------------------------------------------------
(* Authentication *)

At(r, stage) == reqs[r].stage = stage

\* What is known about a request is q from now on.
Becomes(r, q) == reqs' = [reqs EXCEPT ![r] = q]

\* The end of a handler: the answer is written and the request forgotten.
Finish(r) == Becomes(r, Idle)

\* matchAdminToken: an admin has no credential row and nothing to look up.
AuthenticateAdmin(r) ==
  /\ At(r, "idle")
  /\ Becomes(r, [reqs[r] EXCEPT !.stage = "authed"])
  /\ UNCHANGED <<rowVars, offers, lifecycle, writer>>

\* authenticateCredential: the row the token names, which must not be revoked.
AuthenticateCredential(r) ==
  /\ At(r, "idle")
  /\ \E t \in Tokens : \E c \in Named(t) :
       /\ creds[c].state = "active"
       /\ Becomes(r, [reqs[r] EXCEPT !.stage = "looked", !.token = t, !.cred = c])
  /\ UNCHANGED <<rowVars, offers, lifecycle, writer>>

\* The owner is read by a second query: it and its principal must be enabled.
OwnerEnabled(o) ==
  /\ enabled[o] = "on"
  /\ o \in Launchers => enabled[OwnerOf[o]] = "on"

AuthenticateOwner(r) ==
  /\ At(r, "looked")
  /\ IF OwnerEnabled(HolderOf[reqs[r].cred])
     THEN Becomes(r, [reqs[r] EXCEPT !.stage = "authed"])
     ELSE Finish(r)
  /\ UNCHANGED <<rowVars, offers, lifecycle, writer>>

-----------------------------------------------------------------------------
(* Targets *)

\* Mutant: a credential whose owner was deleted meanwhile resolves by name.
MutControlTarget(q, u) ==
  {p \in Principals : /\ Row(p) /\ UserOf[p] = u
                      /\ IsAdmin(q) \/ (IsPrincipal(q) /\ UserOf[HolderOf[q.cred]] = u)}

\* resolvePrincipalControlTarget: an admin names the current row, a Principal
\* credential may only name itself and gets the very row it authenticated as.
ControlTarget(q, u) ==
  CASE IsAdmin(q) -> {p \in Principals : Row(p) /\ UserOf[p] = u}
    [] IsPrincipal(q) -> {p \in {HolderOf[q.cred]} : UserOf[p] = u /\ Row(p)}
    [] OTHER -> {}

\* resolveControlPrincipal: the target of a nested /principals/{username} route.
ResolvePrincipal(r) ==
  /\ At(r, "authed")
  /\ \E u \in Users : \E p \in ControlTarget(reqs[r], u) :
       Becomes(r, [reqs[r] EXCEPT !.stage = "resolved", !.target = p])
  /\ UNCHANGED <<rowVars, offers, lifecycle, writer>>

\* requireScopedLauncher: a launcher, by id or name, below that principal.
ResolveLauncher(r) ==
  /\ At(r, "authed")
  /\ \E u \in Users : \E p \in ControlTarget(reqs[r], u) : \E l \in Below(p) :
       /\ Row(l)
       /\ Becomes(r, [reqs[r] EXCEPT !.stage = "resolved", !.target = l])
  /\ UNCHANGED <<rowVars, offers, lifecycle, writer>>

\* resolveSessionControlScope, sessionScopePredicate: the launchers whose
\* sessions an authority may list and delete.
SessionScope(q) ==
  CASE IsAdmin(q) -> Launchers
    [] IsLauncher(q) -> {HolderOf[q.cred]}
    [] OTHER -> Below(HolderOf[q.cred])

-----------------------------------------------------------------------------
(* Changes of rows.  Each is one transaction, or several under lifecycleMu. *)

\* Nobody else may write while a rotation's transaction is open.
MayWrite == writer = None
MayMutate == MayWrite /\ lifecycle = None

\* Sessions are deleted with the enabled flag or the row of their launcher.
WithoutSessions(ls) ==
  [s \in Sessions |-> IF sessions[s] \in ls THEN None ELSE sessions[s]]

\* Only a credential that exists has replacements to switch to.
Forget(cs) == {o \in offers : o[1] \notin cs}

\* ON DELETE CASCADE: owners os go, and every credential they hold.
Drop(os) ==
  /\ enabled' = [o \in Owners |-> IF o \in os THEN "gone" ELSE enabled[o]]
  /\ creds' = [c \in Credentials |->
                 IF c \in HeldBy(os) /\ CredRow(c)
                 THEN [state |-> "gone", hash |-> NoHash] ELSE creds[c]]
  /\ grants' = grants \ os
  /\ sessions' = WithoutSessions(os)
  /\ offers' = Forget(HeldBy(os))

\* A new credential row; its token is answered once, and the answer may be lost.
InsertCredential(c) ==
  \E t \in FreshTokens :
    /\ creds[c].state = "new"
    /\ creds' = [creds EXCEPT ![c] = [state |-> "active", hash |-> Hash(t)]]

\* handleCreatePrincipal: the row, its default launcher and, when asked for,
\* a credential.  The username is unique among the rows.
CreatePrincipal(r) ==
  /\ At(r, "authed") /\ IsAdmin(reqs[r]) /\ MayMutate
  /\ \E p \in Principals, l \in Launchers :
       /\ enabled[p] = "new" /\ enabled[l] = "new" /\ OwnerOf[l] = p
       /\ \A x \in Principals : UserOf[x] = UserOf[p] => ~Row(x)
       /\ enabled' = [enabled EXCEPT ![p] = "on", ![l] = "on"]
       /\ grants' \in {grants \cup {p, l}, grants \cup {l}}
       /\ \/ \E c \in HeldBy({p}) : InsertCredential(c)
          \/ UNCHANGED creds
  /\ Finish(r)
  /\ UNCHANGED <<sessions, offers, lifecycle, writer>>

\* handleSetPrincipal: by username, inside lifecycleMu.
SetPrincipal(r) ==
  /\ At(r, "authed") /\ IsAdmin(reqs[r]) /\ MayMutate
  /\ \E p \in Principals, on \in {"on", "off"} :
       /\ Row(p)
       /\ enabled' = [enabled EXCEPT ![p] = on]
       /\ sessions' = IF on = "off" THEN WithoutSessions(Below(p)) ELSE sessions
  /\ Finish(r)
  /\ UNCHANGED <<grants, creds, offers, lifecycle, writer>>

\* deletePrincipalChecked: the launchers are disabled first, under lifecycleMu.
DeletePrincipal(r) ==
  /\ At(r, "authed") /\ IsAdmin(reqs[r]) /\ MayMutate
  /\ \E p \in Principals :
       /\ Row(p)
       /\ enabled' = [o \in Owners |-> IF o \in Below(p) /\ Row(o) THEN "off" ELSE enabled[o]]
       /\ sessions' = WithoutSessions(Below(p))
       /\ Becomes(r, [reqs[r] EXCEPT !.stage = "removing", !.target = p])
  /\ lifecycle' = r
  /\ UNCHANGED <<grants, creds, offers, writer>>

\* handleDeleteLauncher: disabled, and then removed.
DeleteLauncher(r) ==
  /\ At(r, "resolved") /\ MayMutate
  /\ LET l == reqs[r].target IN
     /\ l \in Launchers /\ Row(l)
     /\ enabled' = [enabled EXCEPT ![l] = "off"]
     /\ sessions' = WithoutSessions({l})
  /\ Becomes(r, [reqs[r] EXCEPT !.stage = "removing"])
  /\ lifecycle' = r
  /\ UNCHANGED <<grants, creds, offers, writer>>

\* deleteLauncherRow, deletePrincipal: the rows go with their credentials.
RemoveRows(r) ==
  /\ At(r, "removing") /\ MayWrite
  /\ LET o == reqs[r].target IN Drop({o} \cup {l \in Below(o) : Row(l)})
  /\ lifecycle' = None
  /\ Finish(r)
  /\ UNCHANGED writer

\* createLauncherWithLifecycle: by the principal id that was resolved.
CreateLauncher(r) ==
  /\ At(r, "resolved") /\ MayMutate
  /\ LET p == reqs[r].target IN
     /\ p \in Principals /\ Row(p)
     /\ \E l \in Below(p) :
          /\ enabled[l] = "new"
          /\ enabled' = [enabled EXCEPT ![l] = "on"]
          /\ grants' \in {grants, grants \cup {l}}
          /\ \/ \E c \in HeldBy({l}) : InsertCredential(c)
             \/ UNCHANGED creds
  /\ Finish(r)
  /\ UNCHANGED <<sessions, offers, lifecycle, writer>>

\* handlePatchLauncher: the row is read again by id under lifecycleMu.
PatchLauncher(r) ==
  /\ At(r, "resolved") /\ MayMutate
  /\ LET l == reqs[r].target IN
     /\ l \in Launchers /\ Row(l)
     /\ \E on \in {"on", "off"} :
          /\ enabled' = [enabled EXCEPT ![l] = on]
          /\ sessions' = IF on = "off" THEN WithoutSessions({l}) ELSE sessions
  /\ Finish(r)
  /\ UNCHANGED <<grants, creds, offers, lifecycle, writer>>

\* A change of allowed roots.  RootPolicy has their algebra; what matters
\* here is whose roots change, and whether the workspace stays covered.
SetGrants(r, g) ==
  /\ MayMutate
  /\ grants' = g
  /\ Finish(r)
  /\ UNCHANGED <<enabled, creds, sessions, offers, lifecycle, writer>>

TargetsLauncher(r) == At(r, "resolved") /\ reqs[r].target \in Launchers /\ Row(reqs[r].target)

\* handleReplaceLauncherAllowedRoots: to inherit, or to roots of the principal.
ReplaceLauncherRoots(r) ==
  /\ TargetsLauncher(r)
  /\ \E g \in {{}, {reqs[r].target}} : SetGrants(r, (grants \ {reqs[r].target}) \cup g)

\* handleAddLauncherAllowedRoot: within the effective roots of the principal.
AddLauncherRoot(r) ==
  /\ TargetsLauncher(r) /\ OwnerOf[reqs[r].target] \in grants
  /\ SetGrants(r, grants \cup {reqs[r].target})

RemoveLauncherRoot(r) ==
  /\ TargetsLauncher(r)
  /\ SetGrants(r, grants \ {reqs[r].target})

\* handleSetLauncherAllowedRootAccess: a covered path stays covered.
SetLauncherRootAccess(r) ==
  /\ TargetsLauncher(r) /\ reqs[r].target \in grants
  /\ SetGrants(r, grants)

\* handleAddPrincipalAllowedRoot: only an admin may, by username.
AddPrincipalRoot(r) ==
  /\ At(r, "authed") /\ IsAdmin(reqs[r])
  /\ \E p \in Principals : Row(p) /\ SetGrants(r, grants \cup {p})

\* removePrincipalAllowedRootCascaded: a restricted launcher loses the root
\* with its principal, one that inherits does not.
RemovePrincipalRoot(r) ==
  /\ At(r, "authed") /\ IsAdmin(reqs[r])
  /\ \E p \in Principals : \E lost \in SUBSET Below(p) :
       Row(p) /\ SetGrants(r, grants \ ({p} \cup lost))

SetPrincipalRootAccess(r) ==
  /\ At(r, "authed") /\ IsAdmin(reqs[r])
  /\ \E p \in grants \cap Principals : SetGrants(r, grants)

\* createPrincipalCredential: the principal is looked up in the transaction.
CreatePrincipalCredential(r) ==
  /\ At(r, "authed") /\ IsAdmin(reqs[r]) /\ MayWrite
  /\ \E c \in HeldBy({p \in Principals : Row(p)}) : InsertCredential(c)
  /\ Finish(r)
  /\ UNCHANGED <<enabled, grants, sessions, offers, lifecycle, writer>>

\* revokePrincipalCredential: only an active credential of a principal.
RevokePrincipalCredential(r) ==
  /\ At(r, "authed") /\ IsAdmin(reqs[r]) /\ MayWrite
  /\ \E c \in HeldBy(Principals) :
       /\ creds[c].state = "active"
       /\ creds' = [creds EXCEPT ![c].state = "revoked"]
       /\ offers' = Forget({c})
  /\ Finish(r)
  /\ UNCHANGED <<enabled, grants, sessions, lifecycle, writer>>

\* issueLauncherCredential: a launcher has at most one credential.
IssueLauncherCredential(r) ==
  /\ At(r, "resolved") /\ MayWrite
  /\ LET l == reqs[r].target IN
     /\ l \in Launchers /\ Row(l)
     /\ ~\E c \in HeldBy({l}) : CredRow(c)
     /\ \E c \in HeldBy({l}) : InsertCredential(c)
  /\ Finish(r)
  /\ UNCHANGED <<enabled, grants, sessions, offers, lifecycle, writer>>

\* deleteLauncherCredential: a physical delete.
DeleteLauncherCredential(r) ==
  /\ At(r, "resolved") /\ MayWrite
  /\ LET l == reqs[r].target IN
     \E c \in HeldBy({l}) : /\ l \in Launchers /\ CredRow(c)
                            /\ creds' = [creds EXCEPT ![c] = [state |-> "gone", hash |-> NoHash]]
                            /\ offers' = Forget({c})
  /\ Finish(r)
  /\ UNCHANGED <<enabled, grants, sessions, lifecycle, writer>>

-----------------------------------------------------------------------------
(* Rotation of a credential: prepare, compare and swap, deliver, commit *)

\* Mutant: whatever bearer the row has now is replaced.
MutBearerCurrent(q, c) == TRUE

\* When a credential rotates itself, the bearer it presented must be current.
BearerCurrent(q, c) == q.cred = c => creds[c].hash = Hash(q.token)

\* preparePrincipalCredentialRotation, prepareLauncherCredentialRotation: reads
\* the current hash and generates the replacement.
Prepare(r, c) ==
  /\ BearerCurrent(reqs[r], c)
  /\ \E t \in FreshTokens :
       Becomes(r, [reqs[r] EXCEPT !.stage = "prepared", !.target = c,
                            !.expected = creds[c].hash, !.fresh = t])
  /\ UNCHANGED <<rowVars, offers, lifecycle, writer>>

\* handleRotatePrincipalCredential, handleRotateLauncherCredential: by the
\* owner that was resolved.
PrepareResolved(r) ==
  /\ At(r, "resolved")
  /\ \E c \in HeldBy({reqs[r].target}) :
       /\ IF HolderOf[c] \in Principals THEN creds[c].state = "active" ELSE CredRow(c)
       /\ Prepare(r, c)

\* tryLauncherCredentialSelfRotate: by the ids the authentication returned.
PrepareSelf(r) ==
  /\ At(r, "authed") /\ IsLauncher(reqs[r])
  /\ CredRow(reqs[r].cred)
  /\ Prepare(r, reqs[r].cred)

\* The bearer may have changed since the rotation was prepared.
\* The WHERE clause of the update: id, owner, active and the prepared hash.
Swappable(q) == creds[q.target].state = "active" /\ creds[q.target].hash = q.expected

\* commitCredentialRotationAfterDelivery: the update inside the transaction.
Replace(r) ==
  /\ At(r, "prepared") /\ MayWrite
  /\ IF Swappable(reqs[r])
     THEN /\ writer' = r
          /\ Becomes(r, [reqs[r] EXCEPT !.stage = "replaced"])
     ELSE Finish(r) /\ UNCHANGED writer
  /\ UNCHANGED <<rowVars, offers, lifecycle>>

\* Mutant: the commit precedes the answer, and the answer is lost.
MutDeliver(r) ==
  /\ At(r, "replaced")
  /\ Becomes(r, [reqs[r] EXCEPT !.stage = "delivered"])
  /\ UNCHANGED <<rowVars, offers, lifecycle, writer>>

\* The replacement is answered while the transaction is open.  A failed write
\* rolls back, though the client may have read the answer all the same.
Deliver(r) ==
  /\ At(r, "replaced")
  /\ LET q == reqs[r]
         offered == /\ offers' = offers \cup {<<q.target, q.expected, Hash(q.fresh)>>}
     IN \/ /\ offered
           /\ Becomes(r, [reqs[r] EXCEPT !.stage = "delivered"])
           /\ UNCHANGED writer
        \/ /\ offered \/ UNCHANGED offers
           /\ Finish(r) /\ writer' = None
  /\ UNCHANGED <<rowVars, lifecycle>>

\* A commit that reports an error may have happened (commit unknown).
Commit(r) ==
  /\ At(r, "delivered")
  /\ LET q == reqs[r] IN
     \/ /\ creds' = [creds EXCEPT ![q.target].hash = Hash(q.fresh)]
        /\ offers' = Forget({q.target})
     \/ UNCHANGED <<creds, offers>>
  /\ Finish(r) /\ writer' = None
  /\ UNCHANGED <<enabled, grants, sessions, lifecycle>>

-----------------------------------------------------------------------------
(* Sessions *)

\* resolveCreateLauncher: the launcher a session may be created for.
CreateScope(q) ==
  CASE IsAdmin(q) -> Launchers
    [] IsLauncher(q) -> {HolderOf[q.cred]}
    [] OTHER -> Below(HolderOf[q.cred])

\* effectiveLauncherAllowedRoots: the workspace is within every scope.
Covered(l) == {l, OwnerOf[l]} \subseteq grants

\* createSessionAuthorized: a held lifecycleMu refuses the request, and policy
\* is resolved inside it.
CreateSessionBegin(r) ==
  /\ At(r, "authed") /\ lifecycle = None
  /\ \E l \in CreateScope(reqs[r]) :
       /\ Row(l) /\ OwnerEnabled(l) /\ Covered(l)
       /\ Becomes(r, [reqs[r] EXCEPT !.stage = "creating", !.target = l])
  /\ lifecycle' = r
  /\ UNCHANGED <<rowVars, offers, writer>>

\* Mutant: the insert looks at the launcher and its principal only.
MutInsertable(q) == OwnerEnabled(q.target)

\* The SELECT of the conditional insert: revocation and rotation take no
\* lifecycleMu, so the credential is looked up once more.
Insertable(q) ==
  /\ OwnerEnabled(q.target)
  /\ ~IsAdmin(q) => creds[q.cred].state = "active"

CreateSessionInsert(r) ==
  /\ At(r, "creating") /\ MayWrite
  /\ LET q == reqs[r] IN
     IF Insertable(q)
     THEN \E s \in Sessions : sessions[s] = None /\ sessions' = [sessions EXCEPT ![s] = q.target]
     ELSE UNCHANGED sessions
  /\ Finish(r) /\ lifecycle' = None
  /\ UNCHANGED <<enabled, grants, creds, offers, writer>>

\* deleteSessionScoped: the scope is a predicate of the DELETE itself.
DeleteSession(r) ==
  /\ At(r, "authed") /\ MayWrite
  /\ \E s \in Sessions :
       /\ sessions[s] \in SessionScope(reqs[r])
       /\ sessions' = [sessions EXCEPT ![s] = None]
  /\ Finish(r)
  /\ UNCHANGED <<enabled, grants, creds, offers, lifecycle, writer>>

-----------------------------------------------------------------------------
(* Reads *)

Answer(r) ==
  /\ Finish(r)
  /\ UNCHANGED <<rowVars, offers, lifecycle, writer>>

ShowPrincipal(r) ==
  /\ At(r, "resolved") /\ reqs[r].target \in Principals /\ Row(reqs[r].target)
  /\ Answer(r)

ShowLauncher(r) == TargetsLauncher(r) /\ Answer(r)

\* handleGetLauncherCredential
ShowLauncherCredential(r) ==
  /\ TargetsLauncher(r)
  /\ \E c \in HeldBy({reqs[r].target}) : CredRow(c)
  /\ Answer(r)

\* resolveListScope: an admin may list everything, or one principal by name; a
\* principal lists the very row it authenticated as.
ListScope(r) ==
  \/ At(r, "authed") /\ IsAdmin(reqs[r])
  \/ At(r, "resolved") /\ reqs[r].target \in Principals

ListLaunchers(r) == ListScope(r) /\ Answer(r)

ListPrincipalCredentials(r) == ListScope(r) /\ Answer(r)

\* handleListSessions, handleGetSession: the scope is part of the query.
ListSessions(r) ==
  /\ At(r, "authed")
  /\ \E s \in Sessions : sessions[s] \in SessionScope(reqs[r])
  /\ Answer(r)

\* handleSelf: the owner the credential authenticated as, under lifecycleMu.
Self(r) ==
  /\ At(r, "authed") /\ ~IsAdmin(reqs[r]) /\ lifecycle = None
  /\ Row(HolderOf[reqs[r].cred])
  /\ Answer(r)

-----------------------------------------------------------------------------
(* Failures *)

\* Any handler may end early: an answer that was read, a conflict, a refusal,
\* a busy database or a client that went away.  An open transaction rolls back.
Refuse(r) ==
  /\ reqs[r].stage \in {"looked", "authed", "resolved", "prepared", "replaced",
                              "creating", "removing"}
  /\ lifecycle' = IF lifecycle = r THEN None ELSE lifecycle
  /\ writer' = IF writer = r THEN None ELSE writer
  /\ Finish(r)
  /\ UNCHANGED <<rowVars, offers>>

-----------------------------------------------------------------------------
(* The handlers *)

Authenticate(r) == AuthenticateAdmin(r) \/ AuthenticateCredential(r) \/ AuthenticateOwner(r)

Resolve(r) == ResolvePrincipal(r) \/ ResolveLauncher(r)

ChangeOwners(r) ==
  \/ CreatePrincipal(r) \/ SetPrincipal(r) \/ DeletePrincipal(r) \/ DeleteLauncher(r)
  \/ RemoveRows(r) \/ CreateLauncher(r) \/ PatchLauncher(r)

ChangeRoots(r) ==
  \/ ReplaceLauncherRoots(r) \/ AddLauncherRoot(r) \/ RemoveLauncherRoot(r)
  \/ SetLauncherRootAccess(r)
  \/ AddPrincipalRoot(r) \/ RemovePrincipalRoot(r) \/ SetPrincipalRootAccess(r)

ChangeCredentials(r) ==
  \/ CreatePrincipalCredential(r) \/ RevokePrincipalCredential(r)
  \/ IssueLauncherCredential(r) \/ DeleteLauncherCredential(r)

Rotate(r) == PrepareResolved(r) \/ PrepareSelf(r) \/ Replace(r) \/ Deliver(r) \/ Commit(r)

ChangeSessions(r) == CreateSessionBegin(r) \/ CreateSessionInsert(r) \/ DeleteSession(r)

Read(r) ==
  \/ ShowPrincipal(r) \/ ShowLauncher(r) \/ ShowLauncherCredential(r)
  \/ ListLaunchers(r) \/ ListPrincipalCredentials(r) \/ ListSessions(r) \/ Self(r)

Handler(r) ==
  \/ Authenticate(r) \/ Resolve(r) \/ ChangeOwners(r) \/ ChangeRoots(r)
  \/ ChangeCredentials(r) \/ Rotate(r) \/ ChangeSessions(r) \/ Read(r) \/ Refuse(r)

Next == \E r \in Requests : Handler(r)

Spec == Init /\ [][Next]_vars

-----------------------------------------------------------------------------
(* Properties *)

Stages == {"idle", "looked", "authed", "resolved", "prepared", "replaced",
           "delivered", "creating", "removing"}
Hashes == {NoHash} \cup {Hash(t) : t \in Tokens}
RequestRecords ==
  [stage : Stages, token : Tokens \cup {0}, cred : Credentials \cup {None},
   target : Owners \cup Credentials \cup {None}, expected : Hashes, fresh : Tokens \cup {0}]

\* Every variable has its type, and a lock is held by a request in a stage
\* that needs it: no exit of a handler keeps one.
TypeOK ==
  /\ enabled \in [Owners -> {"new", "on", "off", "gone"}]
  /\ grants \subseteq {o \in Owners : Row(o)}
  /\ creds \in [Credentials -> [state : {"new", "active", "revoked", "gone"}, hash : Hashes]]
  /\ sessions \in [Sessions -> Launchers \cup {None}]
  /\ reqs \in [Requests -> RequestRecords]
  /\ offers \subseteq Credentials \X Hashes \X Hashes
  /\ lifecycle \in Requests \cup {None} /\ writer \in Requests \cup {None}
  /\ \A r \in Requests :
       /\ lifecycle = r <=> reqs[r].stage \in {"creating", "removing"}
       /\ writer = r <=> reqs[r].stage \in {"replaced", "delivered"}

\* What an authority owns.
Scope(q) ==
  LET owners == IF IsAdmin(q) THEN Owners
                ELSE {HolderOf[q.cred]} \cup Below(HolderOf[q.cred])
  IN owners \cup HeldBy(owners)

\* The rows a step changes.
Touched ==
  LET moved == {s \in Sessions : sessions'[s] # sessions[s]}
  IN  {o \in Owners : enabled'[o] # enabled[o] \/ (o \in grants) # (o \in grants')}
        \cup {c \in Credentials : creds'[c] # creds[c]}
        \cup (UNION {{sessions[s], sessions'[s]} : s \in moved} \ {None})

\* A request changes and shows only what its credential owns: after its
\* principal was deleted and recreated under the same name it reaches nothing.
OwnScopeOnly ==
  [][\A r \in Requests :
       reqs'[r] # reqs[r] =>
         Touched \cup {reqs'[r].target} \subseteq Scope(reqs[r]) \cup {None}]_vars

\* Of the requests that authenticated with one bearer at most one replaces it:
\* it is replaced while it is still the current one.
OneWinnerPerBearer ==
  [][\A r \in Requests :
       LET c == reqs[r].cred IN
       (/\ reqs[r].stage = "delivered" /\ reqs[r].target = c /\ reqs'[r] # reqs[r]
        /\ creds'[c] # creds[c]) => creds[c].hash = Hash(reqs[r].token)]_vars

\* A session is created only by a request whose credential is still active, for
\* a launcher that is still enabled with its principal and whose roots still
\* cover the workspace: what linearises before the create prevents it.
SessionFromLiveAuthority ==
  [][\A s \in Sessions :
       sessions[s] = None /\ sessions'[s] # None =>
         /\ OwnerEnabled(sessions'[s]) /\ Covered(sessions'[s])
         /\ \E r \in Requests :
              /\ reqs[r].stage = "creating" /\ reqs'[r] # reqs[r]
              /\ reqs[r].cred # None =>
                   /\ creds[reqs[r].cred].state = "active"
                   /\ OwnerEnabled(HolderOf[reqs[r].cred])]_vars

Unborn == <<"unborn", 0>>
Dead == <<"dead", 0>>

Accepts ==
  [c \in Credentials |-> CASE creds[c].state = "active" -> creds[c].hash
                           [] creds[c].state = "new" -> Unborn
                           [] OTHER -> Dead]

Bearer == INSTANCE CredentialBearer
            WITH accepts <- Accepts, Bearers <- {Hash(t) : t \in Tokens}

\* The store implements CredentialBearer: through concurrent rotations, lost
\* answers, unknown commits and crashes a credential only ever switches to a
\* replacement its holder was given for the bearer it replaces.
BearerKept == Bearer!BearerSpec
=============================================================================
