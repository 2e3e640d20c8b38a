---------------------------- MODULE AllowedRoots ----------------------------
(***************************************************************************)
(* The allowed-root policy language (allowed_root_policy.go): lookup in    *)
(* one scope, normalisation, composition of scopes, the effective policy   *)
(* of a Principal and of a Launcher, and the filesystem snapshot of a      *)
(* Session.  A policy is a set of entries with distinct canonical paths,   *)
(* that is a partial function from paths to access modes.                  *)
(***************************************************************************)
EXTENDS Naturals, Functions

CONSTANTS
    Paths,    \* canonical absolute paths
    Within,   \* <<a, p>> \in Within: pathWithin(a, p)
    Rank      \* byte order of the path strings

ASSUME TreeAssumption ==
    /\ Within \subseteq Paths \X Paths
    /\ \A p \in Paths : <<p, p>> \in Within
    /\ \A p, q, r \in Paths :
          /\ <<p, q>> \in Within /\ <<q, r>> \in Within => <<p, r>> \in Within
          /\ <<p, r>> \in Within /\ <<q, r>> \in Within
                => <<p, q>> \in Within \/ <<q, p>> \in Within

(* An ancestor is a strict byte prefix of its descendants.                 *)
ASSUME RankAssumption ==
    /\ Rank \in [Paths -> Nat]
    /\ \A p, q \in Paths : p # q =>
          /\ Rank[p] # Rank[q]
          /\ <<p, q>> \in Within => Rank[p] < Rank[q]

Access == {"read_write", "read_only"}
Policies == UNION {[S -> Access] : S \in SUBSET Paths}
NoRoots == [p \in {} |-> "read_only"]

Covers(a, p) == <<a, p>> \in Within

StrictlyCovers(a, p) == a # p /\ Covers(a, p)

(* meetAllowedRootAccess: read_only dominates.                             *)
Meet(a, b) == IF "read_only" \in {a, b} THEN "read_only" ELSE "read_write"

Containing(pol, p) == {e \in DOMAIN pol : Covers(e, p)}

WithinAny(p, pol) == Containing(pol, p) # {}

Deepest(S) == CHOOSE e \in S : \A f \in S : Covers(f, e)

(* lookupAllowedRootAccess: the most specific entry decides.               *)
Lookup(pol, p) ==
    IF WithinAny(p, pol) THEN pol[Deepest(Containing(pol, p))] ELSE "none"

(* The retained ancestors on the stack of normalizeAllowedRootEntries when *)
(* the pass reaches e: an entry is popped by the first entry after it, in  *)
(* byte order, that it does not contain.                                   *)
Open(pol, kept, e) ==
    {f \in kept : /\ Rank[f] < Rank[e]
                  /\ \A g \in DOMAIN pol :
                        Rank[f] < Rank[g] /\ Rank[g] <= Rank[e] => Covers(f, g)}

(* Mutant: an entry is compared with its topmost retained ancestor.        *)
MutRetained(pol) ==
    CHOOSE kept \in SUBSET DOMAIN pol :
        \A e \in DOMAIN pol : e \in kept <=>
            \/ Open(pol, kept, e) = {}
            \/ \E f \in Open(pol, kept, e) :
                  /\ \A g \in Open(pol, kept, e) : Covers(f, g)
                  /\ pol[f] # pol[e]

(* What the pass keeps: whatever differs from the top of the stack.        *)
Retained(pol) ==
    CHOOSE kept \in SUBSET DOMAIN pol :
        \A e \in DOMAIN pol : e \in kept <=>
            \/ Open(pol, kept, e) = {}
            \/ pol[Deepest(Open(pol, kept, e))] # pol[e]

Normalize(pol) == Restrict(pol, Retained(pol))

(* composeAllowedRootScopes: the candidate paths that both scopes allow.   *)
Compose(ceiling, narrowing) ==
    Normalize([p \in {q \in DOMAIN ceiling \cup DOMAIN narrowing :
                         WithinAny(q, ceiling) /\ WithinAny(q, narrowing)} |->
                  Meet(Lookup(ceiling, p), Lookup(narrowing, p))])

EffectivePrincipal(global, stored) == Compose(global, stored)

(* effectiveLauncherAllowedRoots refuses stored roots out of the ceiling.  *)
Revalidated(ceiling, stored) == \A p \in DOMAIN stored : WithinAny(p, ceiling)

EffectiveLauncher(ceiling, scope, stored) ==
    IF scope = "inherit" THEN ceiling ELSE Compose(ceiling, stored)

-----------------------------------------------------------------------------
(* The Session filesystem snapshot.                                        *)

(* deriveSessionFilesystemSnapshot, for a request without roots.           *)
Derive(effective, ws) ==
    Normalize([p \in {ws} \cup {e \in DOMAIN effective : Covers(ws, e)} |->
                  Lookup(effective, p)])

(* narrowSessionFilesystemPolicy admits a request that only narrows ...    *)
Narrows(ceiling, requested) ==
    \A e \in DOMAIN requested :
        /\ WithinAny(e, ceiling)
        /\ ~(requested[e] = "read_write" /\ Lookup(ceiling, e) = "read_only")

(* ... and composes it with the implicit grant of the workspace.           *)
NarrowScope(ceiling, ws, requested) ==
    Compose(ceiling,
            [p \in DOMAIN requested \cup {ws} |->
                IF p \in DOMAIN requested THEN requested[p]
                                          ELSE Lookup(ceiling, ws)])

(* newSessionFilesystemSnapshot.                                           *)
CanonicalSnapshot(ws, entries) ==
    /\ WithinAny(ws, entries)
    /\ Normalize(entries) = entries

(* Mutant: only the source itself is looked at.                            *)
MutCanExposeWritable(snap, src) == Lookup(snap, src) = "read_write"

CanExposeWritable(snap, src) ==
    /\ Lookup(snap, src) = "read_write"
    /\ ~\E e \in DOMAIN snap :
            StrictlyCovers(src, e) /\ snap[e] = "read_only"

(* sessionMACBoundaries: an entry below an earlier boundary needs none.    *)
SessionMACBoundaries(snap) ==
    {e \in DOMAIN snap : ~\E f \in DOMAIN snap : StrictlyCovers(f, e)}

-----------------------------------------------------------------------------
(* The reference semantics: authority at a path, "none" below everything.  *)

NoWider(a, b) == a = "none" \/ a = b \/ b = "read_write"

MeetAuthority(a, b) == IF "none" \in {a, b} THEN "none" ELSE Meet(a, b)
=============================================================================
