-------------------------- MODULE RootPolicyProofs --------------------------
(***************************************************************************)
(* Proofs about the allowed roots (AllowedRoots, RootPolicy), for every    *)
(* tree of paths, every byte order of their names and every set of global  *)
(* policies: what the normalisation keeps and what a composition grants,   *)
(* that no stored root outlives its ceiling, and what a Session snapshot   *)
(* grants.  Where a result depends on how siblings sort, the theorem says  *)
(* so (ContiguousOn).                                                      *)
(***************************************************************************)
EXTENDS RootPolicy, WellFoundedInduction, TLAPS

-----------------------------------------------------------------------------
(* The tree of paths.                                                      *)

(* A set of natural numbers that is not empty has a least element: where a *)
(* proof would go by induction along the byte order, it takes the first    *)
(* counterexample.                                                         *)
LEMMA LeastNat ==
    ASSUME NEW S, S \subseteq Nat, S # {}
    PROVE  \E n \in S : \A m \in S : n <= m
<1> DEFINE R == OpToRel(<, Nat)
<1>1. IsWellFoundedOn(R, Nat)
  BY NatLessThanWellFounded
<1>2. \A m, n \in Nat : m < n => <<m, n>> \in R
  BY DEF OpToRel
<1> HIDE DEF R
<1>3. PICK n \in S : \A m \in S : ~(<<m, n>> \in R)
  BY <1>1, WFMin
<1>4. \A m \in S : ~(m < n)
  BY <1>2, <1>3
<1>5. QED
  BY <1>4

(* pathWithin is a partial order in which the ancestors of a path form a   *)
(* chain, and the byte order extends it.                                   *)
LEMMA TreeFacts ==
    /\ \A p \in Paths : Covers(p, p) /\ Rank[p] \in Nat
    /\ \A p, q \in Paths :
          /\ Covers(p, q) /\ p # q => Rank[p] < Rank[q]
          /\ Covers(p, q) /\ Covers(q, p) => p = q
          /\ Rank[p] = Rank[q] => p = q
    /\ \A p, q, r \in Paths :
          /\ Covers(p, q) /\ Covers(q, r) => Covers(p, r)
          /\ Covers(p, r) /\ Covers(q, r) => Covers(p, q) \/ Covers(q, p)
<1>1. \A p \in Paths : Covers(p, p) /\ Rank[p] \in Nat
  BY TreeAssumption, RankAssumption DEF Covers
<1>2. \A p, q \in Paths : /\ Covers(p, q) /\ p # q => Rank[p] < Rank[q]
                          /\ Rank[p] = Rank[q] => p = q
  BY RankAssumption DEF Covers
<1>3. \A p, q \in Paths : Covers(p, q) /\ Covers(q, p) => p = q
  BY <1>1, <1>2
<1>4. \A p, q, r \in Paths :
          /\ Covers(p, q) /\ Covers(q, r) => Covers(p, r)
          /\ Covers(p, r) /\ Covers(q, r) => Covers(p, q) \/ Covers(q, p)
  BY TreeAssumption DEF Covers
<1>5. QED
  BY <1>1, <1>2, <1>3, <1>4

(* Ancestors of one path: a topmost one ...                                *)
LEMMA Topmost ==
    ASSUME NEW p \in Paths, NEW S, S \subseteq Paths, S # {},
           \A e \in S : Covers(e, p)
    PROVE  \E t \in S : \A f \in S : Covers(t, f)
<1> DEFINE N == {Rank[e] : e \in S}
<1>1. N \subseteq Nat /\ N # {}
  BY TreeFacts
<1>2. PICK n \in N : \A m \in N : n <= m
  BY <1>1, LeastNat
<1>3. PICK t \in S : Rank[t] = n
  BY <1>2
<1>4. ASSUME NEW f \in S PROVE Covers(t, f)
  <2>1. Rank[t] <= Rank[f] /\ Rank[t] \in Nat /\ Rank[f] \in Nat
    BY <1>2, <1>3, TreeFacts
  <2>2. Covers(t, f) \/ Covers(f, t)
    BY TreeFacts
  <2>3. QED
    BY <2>1, <2>2, TreeFacts
<1>5. QED
  BY <1>4

(* ... and a most specific one.                                            *)
LEMMA MostSpecific ==
    ASSUME NEW p \in Paths, NEW S, S \subseteq Paths, S # {},
           \A e \in S : Covers(e, p)
    PROVE  \E d \in S : \A f \in S : Covers(f, d)
<1> DEFINE N == {Rank[p] - Rank[e] : e \in S}
<1>1. \A e \in S : Rank[e] \in Nat /\ Rank[p] \in Nat /\ Rank[e] <= Rank[p]
  BY TreeFacts
<1>2. N \subseteq Nat /\ N # {}
  BY <1>1
<1>3. PICK n \in N : \A m \in N : n <= m
  BY <1>2, LeastNat
<1>4. PICK d \in S : Rank[p] - Rank[d] = n
  BY <1>3
<1>5. ASSUME NEW f \in S PROVE Covers(f, d)
  <2>1. Rank[p] - Rank[d] <= Rank[p] - Rank[f]
    BY <1>3, <1>4
  <2>2. Rank[f] <= Rank[d] /\ Rank[f] \in Nat /\ Rank[d] \in Nat
    BY <2>1, <1>1
  <2>3. Covers(d, f) \/ Covers(f, d)
    BY TreeFacts
  <2>4. QED
    BY <2>2, <2>3, TreeFacts
<1>6. QED
  BY <1>5

(* Deepest picks the only entry that all others contain.                   *)
LEMMA DeepestIs ==
    ASSUME NEW S, S \subseteq Paths, NEW d \in S, \A f \in S : Covers(f, d)
    PROVE  Deepest(S) = d
<1>1. Deepest(S) \in S /\ \A f \in S : Covers(f, Deepest(S))
  BY DEF Deepest
<1>2. QED
  BY <1>1, TreeFacts

-----------------------------------------------------------------------------
(* Lookup in one scope.                                                    *)

(* e is the most specific entry that contains p.                           *)
Decides(pol, e, p) ==
    /\ e \in DOMAIN pol /\ Covers(e, p)
    /\ \A f \in DOMAIN pol : Covers(f, p) => Covers(f, e)

(* What it means to be a policy.                                           *)
LEMMA PolicyIs ==
    \A pol : pol \in Policies <=> /\ DOMAIN pol \subseteq Paths
                                  /\ pol \in [DOMAIN pol -> Access]
  BY DEF Policies

(* The deciding entry is the answer of a lookup.                           *)
LEMMA LookupIs ==
    ASSUME NEW pol \in Policies, NEW p \in Paths, NEW e, Decides(pol, e, p)
    PROVE  WithinAny(p, pol) /\ Lookup(pol, p) = pol[e] /\ pol[e] \in Access
<1>1. DOMAIN pol \subseteq Paths /\ pol \in [DOMAIN pol -> Access]
  BY PolicyIs
<1>2. Containing(pol, p) \subseteq Paths /\ e \in Containing(pol, p)
      /\ \A f \in Containing(pol, p) : Covers(f, e)
  BY <1>1 DEF Containing, Decides
<1>3. Deepest(Containing(pol, p)) = e
  BY <1>2, DeepestIs
<1>4. QED
  BY <1>1, <1>2, <1>3 DEF Lookup, WithinAny, Decides

(* A path inside some entry has a deciding entry.                          *)
LEMMA SomeDecides ==
    ASSUME NEW pol \in Policies, NEW p \in Paths, WithinAny(p, pol)
    PROVE  \E e \in Paths : Decides(pol, e, p)
<1>1. DOMAIN pol \subseteq Paths
  BY PolicyIs
<1>2. PICK d \in Containing(pol, p) : \A f \in Containing(pol, p) : Covers(f, d)
  BY <1>1, MostSpecific DEF Containing, WithinAny
<1>3. QED
  BY <1>1, <1>2 DEF Decides, Containing

(* A lookup answers with a mode inside the scope and "none" outside.       *)
LEMMA LookupType ==
    ASSUME NEW pol \in Policies, NEW p \in Paths
    PROVE  /\ WithinAny(p, pol) <=> Lookup(pol, p) # "none"
           /\ WithinAny(p, pol) <=> Lookup(pol, p) \in Access
<1>1. CASE WithinAny(p, pol)
  <2>1. Lookup(pol, p) \in Access
    BY <1>1, SomeDecides, LookupIs
  <2>2. QED
    BY <1>1, <2>1 DEF Access
<1>2. CASE ~WithinAny(p, pol)
  BY <1>2 DEF Lookup, Access
<1>3. QED
  BY <1>1, <1>2

(* Whatever is below a contained path is contained.                        *)
LEMMA WithinBelow ==
    ASSUME NEW pol \in Policies, NEW q \in Paths, NEW p \in Paths,
           WithinAny(q, pol), Covers(q, p)
    PROVE  WithinAny(p, pol)
<1>1. PICK e \in DOMAIN pol : Covers(e, q)
  BY DEF WithinAny, Containing
<1>2. Covers(e, p)
  BY <1>1, PolicyIs, TreeFacts
<1>3. QED
  BY <1>2 DEF WithinAny, Containing

(* Between the deciding entry and the path it decides, nothing changes.    *)
LEMMA DecidesBetween ==
    ASSUME NEW pol \in Policies, NEW d \in Paths, NEW q \in Paths, NEW p \in Paths,
           Decides(pol, d, p), Covers(d, q), Covers(q, p)
    PROVE  Decides(pol, d, q)
<1>1. ASSUME NEW f \in DOMAIN pol, Covers(f, q) PROVE Covers(f, d)
  <2>1. Covers(f, p)
    BY <1>1, PolicyIs, TreeFacts
  <2>2. QED
    BY <2>1 DEF Decides
<1>2. QED
  BY <1>1 DEF Decides

-----------------------------------------------------------------------------
(* The normalisation keeps a well-defined set of entries.                  *)

(* The test of the pass at entry e, with the entries kept so far.          *)
Keeps(pol, kept, e) ==
    \/ Open(pol, kept, e) = {}
    \/ pol[Deepest(Open(pol, kept, e))] # pol[e]

(* kept is what the pass keeps of the entries before position n.           *)
KeptBelow(pol, kept, n) ==
    \A e \in DOMAIN pol : Rank[e] < n => (e \in kept <=> Keeps(pol, kept, e))

(* The test looks at earlier entries only.                                 *)
LEMMA KeepsLocal ==
    ASSUME NEW pol \in Policies, NEW K \in SUBSET DOMAIN pol, NEW L \in SUBSET DOMAIN pol,
           NEW e \in DOMAIN pol,
           \A f \in DOMAIN pol : Rank[f] < Rank[e] => (f \in K <=> f \in L)
    PROVE  Keeps(pol, K, e) <=> Keeps(pol, L, e)
<1>1. Open(pol, K, e) = Open(pol, L, e)
  BY DEF Open
<1>2. QED
  BY <1>1 DEF Keeps

(* Two runs of the pass agree: look at the first entry where they differ.  *)
LEMMA KeptUnique ==
    ASSUME NEW pol \in Policies, NEW n \in Nat,
           NEW K \in SUBSET DOMAIN pol, KeptBelow(pol, K, n),
           NEW L \in SUBSET DOMAIN pol, KeptBelow(pol, L, n)
    PROVE  \A e \in DOMAIN pol : Rank[e] < n => (e \in K <=> e \in L)
<1> DEFINE D == {e \in DOMAIN pol : Rank[e] < n /\ ~(e \in K <=> e \in L)}
           N == {Rank[e] : e \in D}
<1>1. \A e \in DOMAIN pol : Rank[e] \in Nat
  BY PolicyIs, TreeFacts
<1>2. SUFFICES ASSUME D # {} PROVE FALSE
  OBVIOUS
<1>3. N \subseteq Nat /\ N # {}
  BY <1>1, <1>2
<1>4. PICK m \in N : \A k \in N : m <= k
  BY <1>3, LeastNat
<1>5. PICK e \in D : Rank[e] = m
  BY <1>4
<1>6. \A f \in DOMAIN pol : Rank[f] < Rank[e] => (f \in K <=> f \in L)
  <2> SUFFICES ASSUME NEW f \in DOMAIN pol, Rank[f] < Rank[e], ~(f \in K <=> f \in L)
               PROVE  FALSE
    OBVIOUS
  <2>1. Rank[f] < n
    BY <1>1, <1>5
  <2>2. Rank[f] \in N
    BY <2>1
  <2>3. QED
    BY <2>2, <1>1, <1>4, <1>5
<1>7. Keeps(pol, K, e) <=> Keeps(pol, L, e)
  BY <1>6, KeepsLocal
<1>8. QED
  BY <1>5, <1>7 DEF KeptBelow

(* The pass can always go one entry further.                               *)
LEMMA KeptExtends ==
    ASSUME NEW pol \in Policies, NEW n \in Nat,
           NEW K \in SUBSET DOMAIN pol, KeptBelow(pol, K, n)
    PROVE  \E L \in SUBSET DOMAIN pol : KeptBelow(pol, L, n + 1)
<1> DEFINE L == {e \in DOMAIN pol : IF Rank[e] < n THEN e \in K ELSE Keeps(pol, K, e)}
<1>1. \A e \in DOMAIN pol : Rank[e] \in Nat
  BY PolicyIs, TreeFacts
<1>2. ASSUME NEW e \in DOMAIN pol, Rank[e] < n + 1
      PROVE  e \in L <=> Keeps(pol, L, e)
  <2>1. \A f \in DOMAIN pol : Rank[f] < Rank[e] => (f \in K <=> f \in L)
    BY <1>1, <1>2
  <2>2. L \in SUBSET DOMAIN pol
    OBVIOUS
  <2> HIDE DEF L
  <2>3. Keeps(pol, K, e) <=> Keeps(pol, L, e)
    BY <2>1, <2>2, KeepsLocal
  <2>4. e \in L <=> Keeps(pol, K, e)
    BY <1>1, <1>2 DEF L, KeptBelow
  <2>5. QED
    BY <2>3, <2>4
<1>3. L \in SUBSET DOMAIN pol
  OBVIOUS
<1> HIDE DEF L
<1>4. KeptBelow(pol, L, n + 1)
  BY <1>2 DEF KeptBelow
<1>5. QED
  BY <1>3, <1>4

(* So every prefix of the pass has a result: otherwise look at the first   *)
(* that has none.                                                          *)
LEMMA KeptExists ==
    ASSUME NEW pol \in Policies
    PROVE  \A n \in Nat : \E K \in SUBSET DOMAIN pol : KeptBelow(pol, K, n)
<1> DEFINE Run(n) == \E K \in SUBSET DOMAIN pol : KeptBelow(pol, K, n)
           B == {n \in Nat : ~Run(n)}
<1>1. Run(0)
  <2>1. \A e \in DOMAIN pol : Rank[e] \in Nat
    BY PolicyIs, TreeFacts
  <2>2. KeptBelow(pol, {}, 0)
    BY <2>1 DEF KeptBelow
  <2>3. QED
    BY <2>2
<1>2. \A n \in Nat : Run(n) => Run(n + 1)
  BY KeptExtends
<1> HIDE DEF Run
<1>3. SUFFICES ASSUME B # {} PROVE FALSE
  BY DEF Run
<1>4. PICK n \in B : \A m \in B : n <= m
  <2>1. B \subseteq Nat
    OBVIOUS
  <2> HIDE DEF B
  <2>2. QED
    BY <1>3, <2>1, LeastNat
<1>5. n # 0 /\ n \in Nat
  BY <1>1, <1>4
<1>6. n - 1 \in Nat /\ ~(n <= n - 1)
  BY <1>5
<1>7. Run(n - 1)
  BY <1>4, <1>6
<1>8. Run((n - 1) + 1)
  BY <1>2, <1>6, <1>7
<1>9. QED
  BY <1>4, <1>5, <1>8

(* The results of the prefixes fit together, so Retained is not an         *)
(* arbitrary choice: normalizeAllowedRootEntries keeps exactly the entries *)
(* that pass the test against what it kept before.                         *)
LEMMA RetainedIs ==
    ASSUME NEW pol \in Policies
    PROVE  /\ Retained(pol) \subseteq DOMAIN pol
           /\ \A e \in DOMAIN pol : e \in Retained(pol) <=> Keeps(pol, Retained(pol), e)
<1> DEFINE U == {e \in DOMAIN pol : \E K \in SUBSET DOMAIN pol :
                                       KeptBelow(pol, K, Rank[e] + 1) /\ e \in K}
<1>1. \A e \in DOMAIN pol : Rank[e] \in Nat
  BY PolicyIs, TreeFacts
<1>2. ASSUME NEW e \in DOMAIN pol PROVE e \in U <=> Keeps(pol, U, e)
  <2>0. Rank[e] \in Nat /\ Rank[e] + 1 \in Nat
    BY <1>1
  <2>1. PICK K \in SUBSET DOMAIN pol : KeptBelow(pol, K, Rank[e] + 1)
    BY <2>0, KeptExists
  <2>2. ASSUME NEW f \in DOMAIN pol, Rank[f] <= Rank[e] PROVE f \in U <=> f \in K
    <3>0. Rank[f] \in Nat /\ Rank[f] + 1 \in Nat
      BY <1>1
    <3>1. KeptBelow(pol, K, Rank[f] + 1)
      BY <1>1, <2>1, <2>2 DEF KeptBelow
    <3>2. ASSUME NEW M \in SUBSET DOMAIN pol, KeptBelow(pol, M, Rank[f] + 1)
          PROVE  f \in M <=> f \in K
      BY <3>0, <3>1, <3>2, KeptUnique
    <3>3. QED
      BY <3>1, <3>2
  <2>3. U \in SUBSET DOMAIN pol
    OBVIOUS
  <2> HIDE DEF U
  <2>4. Keeps(pol, U, e) <=> Keeps(pol, K, e)
    BY <1>1, <2>2, <2>3, KeepsLocal
  <2>5. e \in K <=> Keeps(pol, K, e)
    BY <2>0, <2>1 DEF KeptBelow
  <2>6. e \in U <=> e \in K
    BY <2>0, <2>2
  <2>7. QED
    BY <2>4, <2>5, <2>6
<1>3. U \in SUBSET DOMAIN pol
  OBVIOUS
<1> HIDE DEF U
<1>4. \E K \in SUBSET DOMAIN pol : \A e \in DOMAIN pol : e \in K <=> Keeps(pol, K, e)
  BY <1>2, <1>3
<1>5. QED
  BY <1>4 DEF Retained, Keeps

-----------------------------------------------------------------------------
(* What the normalisation preserves.                                       *)

(* Its result is a policy, made of entries of its argument.                *)
LEMMA NormalizeType ==
    ASSUME NEW pol \in Policies
    PROVE  /\ Normalize(pol) \in Policies /\ DOMAIN Normalize(pol) = Retained(pol)
           /\ \A e \in Retained(pol) : e \in DOMAIN pol /\ Normalize(pol)[e] = pol[e]
<1>1. Retained(pol) \subseteq DOMAIN pol
  BY RetainedIs
<1>2. DOMAIN pol \subseteq Paths /\ pol \in [DOMAIN pol -> Access]
  BY PolicyIs
<1> HIDE DEF Retained
<1>3. /\ Normalize(pol) \in [Retained(pol) -> Access]
      /\ \A e \in Retained(pol) : Normalize(pol)[e] = pol[e]
  BY <1>1, <1>2 DEF Normalize, Restrict
<1>4. DOMAIN Normalize(pol) = Retained(pol)
  BY DEF Normalize, Restrict
<1>5. QED
  BY <1>1, <1>2, <1>3, <1>4, PolicyIs

(* The entry above all others finds the stack empty and is kept, so the    *)
(* paths that are authorised at all stay the same whatever the byte order. *)
LEMMA NormalizeReach ==
    ASSUME NEW pol \in Policies, NEW p \in Paths
    PROVE  WithinAny(p, Normalize(pol)) <=> WithinAny(p, pol)
<1>0. DOMAIN pol \subseteq Paths
  BY PolicyIs
<1>1. ASSUME WithinAny(p, Normalize(pol)) PROVE WithinAny(p, pol)
  BY <1>1, NormalizeType DEF WithinAny, Containing
<1>2. ASSUME WithinAny(p, pol) PROVE WithinAny(p, Normalize(pol))
  <2>1. PICK t \in Containing(pol, p) : \A f \in Containing(pol, p) : Covers(t, f)
    BY <1>0, <1>2, Topmost DEF WithinAny, Containing
  <2>2. t \in DOMAIN pol /\ t \in Paths /\ Covers(t, p) /\ Rank[t] \in Nat
    BY <1>0, <2>1, TreeFacts DEF Containing
  <2>3. \A f \in DOMAIN pol : Rank[f] < Rank[t] => ~Covers(f, t)
    <3> SUFFICES ASSUME NEW f \in DOMAIN pol, Rank[f] < Rank[t], Covers(f, t)
                 PROVE  FALSE
      OBVIOUS
    <3>1. f \in Containing(pol, p)
      BY <1>0, <2>2, TreeFacts DEF Containing
    <3>2. f = t
      BY <1>0, <2>1, <2>2, <3>1, TreeFacts
    <3>3. QED
      BY <2>2, <3>2
  <2>4. Open(pol, Retained(pol), t) = {}
    BY <2>2, <2>3, RetainedIs DEF Open
  <2>5. t \in Retained(pol)
    BY <2>2, <2>4, RetainedIs DEF Keeps
  <2>6. QED
    BY <2>2, <2>5, NormalizeType DEF WithinAny, Containing
<1>3. QED
  BY <1>1, <1>2

(* The byte order keeps the subtrees of S together.  It is a hypothesis    *)
(* where it is needed, never an assumption on the paths: of the siblings   *)
(* /r/a and /r/a-b the second sorts between the first and /r/a/c.          *)
ContiguousOn(S) ==
    \A p, q, r \in S :
        Covers(p, r) /\ Rank[p] < Rank[q] /\ Rank[q] < Rank[r] => Covers(p, q)

(* So are those of a smaller set.                                          *)
LEMMA ContiguousSubset ==
    ASSUME NEW T, ContiguousOn(T), NEW S, S \subseteq T
    PROVE  ContiguousOn(S)
  BY DEF ContiguousOn

(* When the entries are together, the stack of the pass holds all retained *)
(* ancestors, and an entry is dropped only for one that answers every      *)
(* lookup as it would have.                                                *)
LEMMA NormalizeLookup ==
    ASSUME NEW pol \in Policies, ContiguousOn(DOMAIN pol), NEW p \in Paths
    PROVE  Lookup(Normalize(pol), p) = Lookup(pol, p)
<1> DEFINE K == Retained(pol)
<1>0. DOMAIN pol \subseteq Paths /\ K \subseteq DOMAIN pol /\ DOMAIN Normalize(pol) = K
      /\ Normalize(pol) \in Policies
  BY PolicyIs, RetainedIs, NormalizeType
<1>1. CASE ~WithinAny(p, pol)
  BY <1>1, NormalizeReach DEF Lookup
<1>2. CASE WithinAny(p, pol)
  <2>1. PICK d \in Paths : Decides(pol, d, p)
    BY <1>2, SomeDecides
  <2>2. d \in DOMAIN pol /\ Lookup(pol, p) = pol[d]
    BY <2>1, LookupIs DEF Decides
  <2>3. CASE d \in K
    <3>1. Decides(Normalize(pol), d, p)
      BY <1>0, <2>1, <2>3 DEF Decides
    <3>2. Lookup(Normalize(pol), p) = Normalize(pol)[d]
      BY <1>0, <3>1, LookupIs
    <3>3. QED
      BY <2>2, <2>3, <3>2, NormalizeType
  <2>4. CASE d \notin K
    <3> DEFINE S == Open(pol, K, d)
               o == Deepest(S)
    <3>1. S # {} /\ pol[o] = pol[d]
      BY <2>2, <2>4, RetainedIs DEF Keeps
    <3>2. S \subseteq K /\ S \subseteq Paths /\ \A f \in S : Covers(f, d)
      BY <1>0, <2>2, TreeFacts DEF Open
    <3>3. o \in S /\ \A f \in S : Covers(f, o)
      <4>1. PICK e \in S : \A f \in S : Covers(f, e)
        BY <3>1, <3>2, MostSpecific
      <4>2. QED
        BY <4>1, <3>2, DeepestIs
    <3>4. ASSUME NEW f \in K, Covers(f, p) PROVE f \in S
      <4>1. f \in Paths /\ Covers(f, d) /\ f # d
        BY <1>0, <2>1, <2>4, <3>4 DEF Decides
      <4>2. Rank[f] < Rank[d]
        BY <4>1, TreeFacts
      <4>3. ASSUME NEW g \in DOMAIN pol, Rank[f] < Rank[g], Rank[g] <= Rank[d]
            PROVE  Covers(f, g)
        <5>1. g \in Paths /\ Rank[g] \in Nat /\ Rank[d] \in Nat
          BY <1>0, TreeFacts
        <5>2. g = d \/ Rank[g] < Rank[d]
          BY <4>3, <5>1, TreeFacts
        <5>3. QED
          BY <1>0, <2>2, <4>1, <4>3, <5>1, <5>2 DEF ContiguousOn
      <4>4. QED
        BY <4>2, <4>3 DEF Open
    <3>5. Decides(Normalize(pol), o, p)
      <4>1. Covers(o, p)
        BY <2>1, <3>2, <3>3, TreeFacts DEF Decides
      <4>2. QED
        BY <1>0, <3>2, <3>3, <3>4, <4>1 DEF Decides
    <3>6. Lookup(Normalize(pol), p) = Normalize(pol)[o]
      BY <1>0, <3>5, LookupIs
    <3>7. Normalize(pol)[o] = pol[o]
      BY <3>2, <3>3, NormalizeType
    <3>8. QED
      BY <2>2, <3>1, <3>6, <3>7
  <2>5. QED
    BY <2>3, <2>4
<1>3. QED
  BY <1>1, <1>2

(* Then a second pass keeps everything: what the first kept are the same   *)
(* ancestors with the same modes.                                          *)
LEMMA NormalizeIdempotent ==
    ASSUME NEW pol \in Policies, ContiguousOn(DOMAIN pol)
    PROVE  Normalize(Normalize(pol)) = Normalize(pol)
<1> DEFINE K == Retained(pol)
           nf == Normalize(pol)
           L == Retained(nf)
<1>0. /\ K \subseteq DOMAIN pol /\ K \subseteq Paths /\ DOMAIN pol \subseteq Paths
      /\ \A e \in DOMAIN pol : e \in K <=> Keeps(pol, K, e)
  BY RetainedIs, PolicyIs
<1>1. nf \in Policies /\ DOMAIN nf = K /\ \A e \in K : nf[e] = pol[e]
  BY NormalizeType
<1>2. L \subseteq K /\ \A e \in K : e \in L <=> Keeps(nf, L, e)
  BY <1>1, RetainedIs
<1> HIDE DEF K, nf, L
<1>3. ASSUME NEW e \in K PROVE Keeps(nf, K, e)
  <2>1. Open(nf, K, e) = {f \in K : f # e /\ Covers(f, e)}
    BY <1>0, <1>1, TreeFacts DEF Open, ContiguousOn
  <2>2. Open(pol, K, e) = {f \in K : f # e /\ Covers(f, e)}
    <3>1. ASSUME NEW f \in K, f # e, Covers(f, e) PROVE f \in Open(pol, K, e)
      <4>1. Rank[f] < Rank[e]
        BY <1>0, <3>1, TreeFacts
      <4>2. ASSUME NEW g \in DOMAIN pol, Rank[f] < Rank[g], Rank[g] <= Rank[e]
            PROVE  Covers(f, g)
        <5>1. g = e \/ Rank[g] < Rank[e]
          BY <1>0, <4>2, TreeFacts
        <5>2. QED
          BY <1>0, <3>1, <4>2, <5>1 DEF ContiguousOn
      <4>3. QED
        BY <4>1, <4>2 DEF Open
    <3>2. ASSUME NEW f \in Open(pol, K, e) PROVE f \in K /\ f # e /\ Covers(f, e)
      BY <1>0, TreeFacts DEF Open
    <3>3. QED
      BY <3>1, <3>2
  <2>3. Keeps(pol, K, e)
    BY <1>0
  <2>4. CASE Open(nf, K, e) = {}
    BY <2>4 DEF Keeps
  <2>5. CASE Open(nf, K, e) # {}
    <3>1. Deepest(Open(nf, K, e)) \in Open(nf, K, e)
      <4> DEFINE S == Open(nf, K, e)
      <4>1. S \subseteq Paths /\ \A f \in S : Covers(f, e)
        BY <1>0, <2>1
      <4> HIDE DEF S
      <4>2. PICK d \in S : \A f \in S : Covers(f, d)
        BY <1>0, <2>5, <4>1, MostSpecific DEF S
      <4>3. Deepest(S) = d
        BY <4>1, <4>2, DeepestIs
      <4>4. QED
        BY <4>2, <4>3 DEF S
    <3>2. Deepest(Open(nf, K, e)) \in K
      BY <2>1, <3>1
    <3>3. QED
      BY <1>1, <2>1, <2>2, <2>3, <2>5, <3>2 DEF Keeps
  <2>6. QED
    BY <2>4, <2>5
<1>4. ASSUME NEW e \in K PROVE e \in L
  <2>1. Rank[e] \in Nat /\ Rank[e] + 1 \in Nat /\ Rank[e] < Rank[e] + 1
    BY <1>0, TreeFacts
  <2>2. KeptBelow(nf, K, Rank[e] + 1) /\ KeptBelow(nf, L, Rank[e] + 1)
    BY <1>1, <1>2, <1>3 DEF KeptBelow
  <2>3. QED
    BY <1>1, <1>2, <2>1, <2>2, KeptUnique
<1>5. L = K
  BY <1>2, <1>4
<1>6. Normalize(nf) = [x \in K |-> nf[x]] /\ nf = [x \in K |-> pol[x]]
  BY <1>5 DEF Normalize, Restrict, L, K, nf
<1>7. QED
  BY <1>6 DEF nf

-----------------------------------------------------------------------------
(* Composition of two scopes.                                              *)

(* What composeAllowedRootScopes hands to the normalisation.               *)
Composed(ceiling, narrowing) ==
    [p \in {q \in DOMAIN ceiling \cup DOMAIN narrowing :
               WithinAny(q, ceiling) /\ WithinAny(q, narrowing)} |->
        Meet(Lookup(ceiling, p), Lookup(narrowing, p))]

(* The result of a composition is a policy.                                *)
LEMMA ComposedType ==
    ASSUME NEW c \in Policies, NEW n \in Policies
    PROVE  /\ Composed(c, n) \in Policies /\ Compose(c, n) \in Policies
           /\ Compose(c, n) = Normalize(Composed(c, n))
           /\ DOMAIN Composed(c, n) \subseteq Paths
           /\ DOMAIN Composed(c, n) \subseteq DOMAIN c \cup DOMAIN n
           /\ DOMAIN Compose(c, n) \subseteq DOMAIN c \cup DOMAIN n
<1>1. \A a, b : Meet(a, b) \in Access
  BY DEF Meet, Access
<1>2. DOMAIN c \subseteq Paths /\ DOMAIN n \subseteq Paths
  BY PolicyIs
<1>3. /\ DOMAIN Composed(c, n) \subseteq DOMAIN c \cup DOMAIN n
      /\ DOMAIN Composed(c, n) \subseteq Paths
  BY <1>2 DEF Composed
<1>4. Composed(c, n) \in [DOMAIN Composed(c, n) -> Access]
  BY <1>1 DEF Composed
<1>5. Composed(c, n) \in Policies
  BY <1>3, <1>4, PolicyIs
<1>6. Compose(c, n) = Normalize(Composed(c, n))
  BY DEF Compose, Composed
<1>7. QED
  BY <1>3, <1>5, <1>6, NormalizeType

(* Where one of two entries decides, with the other above it, the          *)
(* candidate at the deeper one decides in the composition.                 *)
LEMMA ComposedDecides ==
    ASSUME NEW c \in Policies, NEW n \in Policies, NEW p \in Paths,
           NEW dc \in Paths, Decides(c, dc, p), NEW dn \in Paths, Decides(n, dn, p),
           NEW d \in {dc, dn}, Covers(dc, d), Covers(dn, d)
    PROVE  Lookup(Composed(c, n), p) = Meet(Lookup(c, p), Lookup(n, p))
<1>1. d \in Paths /\ Covers(d, p) /\ d \in DOMAIN c \cup DOMAIN n
  BY DEF Decides
<1>2. Decides(c, dc, d) /\ Decides(n, dn, d)
  BY <1>1, DecidesBetween
<1>3. /\ WithinAny(d, c) /\ Lookup(c, d) = Lookup(c, p)
      /\ WithinAny(d, n) /\ Lookup(n, d) = Lookup(n, p)
  BY <1>1, <1>2, LookupIs
<1>4. d \in DOMAIN Composed(c, n) /\ Composed(c, n)[d] = Meet(Lookup(c, p), Lookup(n, p))
  BY <1>1, <1>3 DEF Composed
<1>5. ASSUME NEW f \in DOMAIN Composed(c, n), Covers(f, p) PROVE Covers(f, d)
  <2>1. f \in Paths /\ f \in DOMAIN c \cup DOMAIN n
    BY ComposedType
  <2>2. Covers(f, dc) \/ Covers(f, dn)
    BY <1>5, <2>1 DEF Decides
  <2>3. QED
    BY <1>1, <2>1, <2>2, TreeFacts
<1>6. Decides(Composed(c, n), d, p)
  BY <1>1, <1>4, <1>5 DEF Decides
<1>7. QED
  BY <1>4, <1>6, ComposedType, LookupIs

(* Before the normalisation, a composition answers with the meet.          *)
LEMMA ComposedLookup ==
    ASSUME NEW c \in Policies, NEW n \in Policies, NEW p \in Paths
    PROVE  /\ Lookup(Composed(c, n), p) = MeetAuthority(Lookup(c, p), Lookup(n, p))
           /\ WithinAny(p, Composed(c, n)) <=> WithinAny(p, c) /\ WithinAny(p, n)
<1>0. Composed(c, n) \in Policies
  BY ComposedType
<1>1. CASE WithinAny(p, c) /\ WithinAny(p, n)
  <2>1. PICK dc \in Paths : Decides(c, dc, p)
    BY <1>1, SomeDecides
  <2>2. PICK dn \in Paths : Decides(n, dn, p)
    BY <1>1, SomeDecides
  <2>3. \E d \in {dc, dn} : Covers(dc, d) /\ Covers(dn, d)
    BY <2>1, <2>2, TreeFacts DEF Decides
  <2>4. Lookup(Composed(c, n), p) = Meet(Lookup(c, p), Lookup(n, p))
    BY <2>1, <2>2, <2>3, ComposedDecides
  <2>5. Lookup(c, p) # "none" /\ Lookup(n, p) # "none"
    BY <1>1, LookupType
  <2>6. Lookup(Composed(c, n), p) # "none"
    BY <2>4 DEF Meet
  <2>7. QED
    BY <1>0, <1>1, <2>4, <2>5, <2>6, LookupType DEF MeetAuthority
<1>2. CASE ~(WithinAny(p, c) /\ WithinAny(p, n))
  <2>1. ASSUME WithinAny(p, Composed(c, n)) PROVE FALSE
    <3>1. PICK f \in DOMAIN Composed(c, n) : Covers(f, p)
      BY <2>1 DEF WithinAny, Containing
    <3>2. f \in Paths /\ WithinAny(f, c) /\ WithinAny(f, n)
      BY ComposedType DEF Composed
    <3>3. QED
      BY <1>2, <3>1, <3>2, WithinBelow
  <2>2. Lookup(Composed(c, n), p) = "none"
    BY <2>1 DEF Lookup
  <2>3. Lookup(c, p) = "none" \/ Lookup(n, p) = "none"
    BY <1>2, LookupType
  <2>4. QED
    BY <1>2, <2>1, <2>2, <2>3 DEF MeetAuthority
<1>3. QED
  BY <1>1, <1>2

(* A composition authorises the paths that both scopes authorise.          *)
LEMMA ComposeReach ==
    ASSUME NEW c \in Policies, NEW n \in Policies, NEW p \in Paths
    PROVE  WithinAny(p, Compose(c, n)) <=> WithinAny(p, c) /\ WithinAny(p, n)
<1>1. Composed(c, n) \in Policies /\ Compose(c, n) = Normalize(Composed(c, n))
  BY ComposedType
<1>2. WithinAny(p, Compose(c, n)) <=> WithinAny(p, Composed(c, n))
  BY <1>1, NormalizeReach
<1>3. QED
  BY <1>2, ComposedLookup

(* When their entries are together it grants there what both grant.        *)
LEMMA ComposeLookup ==
    ASSUME NEW c \in Policies, NEW n \in Policies, ContiguousOn(DOMAIN c \cup DOMAIN n),
           NEW p \in Paths
    PROVE  Lookup(Compose(c, n), p) = MeetAuthority(Lookup(c, p), Lookup(n, p))
<1>1. /\ Composed(c, n) \in Policies /\ Compose(c, n) = Normalize(Composed(c, n))
      /\ DOMAIN Composed(c, n) \subseteq DOMAIN c \cup DOMAIN n
  BY ComposedType
<1>2. ContiguousOn(DOMAIN Composed(c, n))
  BY <1>1, ContiguousSubset
<1>3. Lookup(Compose(c, n), p) = Lookup(Composed(c, n), p)
  BY <1>1, <1>2, NormalizeLookup
<1>4. QED
  BY <1>3, ComposedLookup

-----------------------------------------------------------------------------
(* The Session snapshot.                                                   *)

(* What deriveSessionFilesystemSnapshot hands to the normalisation.        *)
Derived(effective, ws) ==
    [p \in {ws} \cup {e \in DOMAIN effective : Covers(ws, e)} |-> Lookup(effective, p)]

(* A derived snapshot is a policy.                                         *)
LEMMA DerivedType ==
    ASSUME NEW E \in Policies, NEW ws \in Paths, WithinAny(ws, E)
    PROVE  /\ Derived(E, ws) \in Policies /\ Derive(E, ws) \in Policies
           /\ Derive(E, ws) = Normalize(Derived(E, ws))
           /\ DOMAIN Derived(E, ws) \subseteq Paths
           /\ DOMAIN Derived(E, ws) \subseteq DOMAIN E \cup {ws}
<1>1. DOMAIN E \subseteq Paths
  BY PolicyIs
<1>2. /\ DOMAIN Derived(E, ws) \subseteq Paths
      /\ DOMAIN Derived(E, ws) \subseteq DOMAIN E \cup {ws}
  BY <1>1 DEF Derived
<1>3. ASSUME NEW p \in DOMAIN Derived(E, ws) PROVE Lookup(E, p) \in Access
  <2>1. p \in Paths /\ Covers(ws, p)
    BY <1>1, TreeFacts DEF Derived
  <2>2. QED
    BY <2>1, WithinBelow, LookupType
<1>4. Derived(E, ws) \in [DOMAIN Derived(E, ws) -> Access]
  BY <1>3 DEF Derived
<1>5. Derived(E, ws) \in Policies
  BY <1>2, <1>4, PolicyIs
<1>6. Derive(E, ws) = Normalize(Derived(E, ws))
  BY DEF Derive, Derived
<1>7. QED
  BY <1>2, <1>5, <1>6, NormalizeType

(* Before the normalisation, it grants below the workspace what the        *)
(* effective roots grant and nothing elsewhere.                            *)
LEMMA DerivedLookup ==
    ASSUME NEW E \in Policies, NEW ws \in Paths, WithinAny(ws, E), NEW p \in Paths
    PROVE  Lookup(Derived(E, ws), p) = IF Covers(ws, p) THEN Lookup(E, p) ELSE "none"
<1>0. /\ Derived(E, ws) \in Policies /\ DOMAIN Derived(E, ws) \subseteq Paths
      /\ DOMAIN E \subseteq Paths
  BY DerivedType, PolicyIs
<1>1. \A f \in DOMAIN Derived(E, ws) :
          Covers(ws, f) /\ (f = ws \/ f \in DOMAIN E)
          /\ Derived(E, ws)[f] = Lookup(E, f)
  BY TreeFacts DEF Derived
<1>2. CASE ~Covers(ws, p)
  <2>1. ~WithinAny(p, Derived(E, ws))
    BY <1>0, <1>1, <1>2, TreeFacts DEF WithinAny, Containing
  <2>2. QED
    BY <1>2, <2>1 DEF Lookup
<1>3. CASE Covers(ws, p)
  <2>1. PICK d \in Paths : Decides(E, d, p)
    BY <1>3, WithinBelow, SomeDecides
  <2>2. Lookup(E, p) = E[d] /\ d \in DOMAIN E /\ Covers(d, p)
    BY <2>1, LookupIs DEF Decides
  <2>3. CASE Covers(ws, d)
    <3>1. d \in DOMAIN Derived(E, ws)
      BY <2>2, <2>3 DEF Derived
    <3>2. Decides(Derived(E, ws), d, p)
      BY <1>0, <1>1, <2>1, <2>2, <2>3, <3>1 DEF Decides
    <3>3. Decides(E, d, d)
      BY <2>1, <2>2, TreeFacts, DecidesBetween
    <3>4. Lookup(E, d) = E[d]
      BY <3>3, LookupIs
    <3>5. QED
      BY <1>0, <1>1, <1>3, <2>2, <3>1, <3>2, <3>4, LookupIs
  <2>4. CASE ~Covers(ws, d)
    <3>1. Covers(d, ws)
      BY <1>3, <2>2, <2>4, TreeFacts
    <3>2. ws \in DOMAIN Derived(E, ws) /\ Covers(ws, ws)
      BY TreeFacts DEF Derived
    <3>3. ASSUME NEW f \in DOMAIN Derived(E, ws), Covers(f, p) PROVE f = ws
      <4>1. f \in DOMAIN E => Covers(f, d)
        BY <2>1, <3>3 DEF Decides
      <4>2. QED
        BY <1>0, <1>1, <2>4, <4>1, TreeFacts
    <3>4. Decides(Derived(E, ws), ws, p)
      BY <1>3, <3>2, <3>3 DEF Decides
    <3>5. Decides(E, d, ws)
      BY <1>3, <2>1, <3>1, DecidesBetween
    <3>6. Lookup(E, ws) = E[d]
      BY <3>5, LookupIs
    <3>7. QED
      BY <1>0, <1>1, <1>3, <2>2, <3>2, <3>4, <3>6, LookupIs
  <2>5. QED
    BY <2>3, <2>4
<1>4. QED
  BY <1>2, <1>3

(* What a request adds to the workspace, as a scope of its own.            *)
Asked(E, ws, requested) ==
    [p \in DOMAIN requested \cup {ws} |->
        IF p \in DOMAIN requested THEN requested[p] ELSE Lookup(E, ws)]

(* It is a policy, and every requested root decides itself.                *)
LEMMA AskedIs ==
    ASSUME NEW E \in Policies, NEW ws \in Paths, WithinAny(ws, E), NEW q \in Policies
    PROVE  /\ Asked(E, ws, q) \in Policies
           /\ DOMAIN Asked(E, ws, q) = DOMAIN q \cup {ws}
           /\ NarrowScope(E, ws, q) = Compose(E, Asked(E, ws, q))
           /\ \A p \in DOMAIN q : Lookup(Asked(E, ws, q), p) = q[p] /\ p \in Paths
<1>1. DOMAIN q \subseteq Paths /\ q \in [DOMAIN q -> Access]
  BY PolicyIs
<1>2. Lookup(E, ws) \in Access
  BY LookupType
<1>3. DOMAIN Asked(E, ws, q) = DOMAIN q \cup {ws}
      /\ \A p \in DOMAIN q : Asked(E, ws, q)[p] = q[p]
  BY DEF Asked
<1>4. Asked(E, ws, q) \in [DOMAIN Asked(E, ws, q) -> Access]
  BY <1>1, <1>2 DEF Asked
<1>5. Asked(E, ws, q) \in Policies
  BY <1>1, <1>3, <1>4, PolicyIs
<1>6. ASSUME NEW p \in DOMAIN q PROVE Lookup(Asked(E, ws, q), p) = q[p]
  <2>1. p \in Paths /\ Decides(Asked(E, ws, q), p, p)
    BY <1>1, <1>3, TreeFacts DEF Decides
  <2>2. QED
    BY <1>3, <1>5, <2>1, LookupIs
<1>7. NarrowScope(E, ws, q) = Compose(E, Asked(E, ws, q))
  BY DEF NarrowScope, Asked
<1>8. QED
  BY <1>1, <1>3, <1>5, <1>6, <1>7

-----------------------------------------------------------------------------
(* What is derived from a snapshot for the life of the Session.            *)

(* A writable source has no read-only path in it: the entry that decides   *)
(* below it is the one that decides at it, or one inside it that is not    *)
(* read-only.                                                              *)
LEMMA WritableOK ==
    ASSUME NEW pol \in Policies
    PROVE  WritableIsWritable(pol)
<1> SUFFICES ASSUME NEW src \in Paths, CanExposeWritable(pol, src),
                    NEW p \in Paths, Covers(src, p)
             PROVE  Lookup(pol, p) = "read_write"
  BY DEF WritableIsWritable
<1>1. Lookup(pol, src) = "read_write"
      /\ \A e \in DOMAIN pol : src # e /\ Covers(src, e) => pol[e] # "read_only"
  BY DEF CanExposeWritable, StrictlyCovers
<1>2. WithinAny(src, pol) /\ WithinAny(p, pol)
  BY <1>1, LookupType, WithinBelow
<1>3. PICK d \in Paths : Decides(pol, d, p)
  BY <1>2, SomeDecides
<1>4. Lookup(pol, p) = pol[d] /\ pol[d] \in Access /\ d \in DOMAIN pol /\ Covers(d, p)
  BY <1>3, LookupIs DEF Decides
<1>5. CASE Covers(d, src)
  <2>1. Decides(pol, d, src)
    BY <1>3, <1>5, DecidesBetween
  <2>2. QED
    BY <1>1, <1>4, <2>1, LookupIs
<1>6. CASE ~Covers(d, src)
  <2>1. Covers(src, d) /\ src # d
    BY <1>4, <1>6, TreeFacts
  <2>2. QED
    BY <1>1, <1>4, <2>1 DEF Access
<1>7. QED
  BY <1>5, <1>6

(* The topmost entry over an authorised path is a boundary, and two        *)
(* boundaries never contain the same path.                                 *)
LEMMA BoundariesOK ==
    ASSUME NEW pol \in Policies
    PROVE  BoundariesExact(pol)
<1> DEFINE bs == SessionMACBoundaries(pol)
<1>0. DOMAIN pol \subseteq Paths
  BY PolicyIs
<1>1. bs = {e \in DOMAIN pol : \A f \in DOMAIN pol : ~(f # e /\ Covers(f, e))}
  BY DEF SessionMACBoundaries, StrictlyCovers
<1> HIDE DEF bs
<1>2. ASSUME NEW p \in Paths, WithinAny(p, pol) PROVE \E e \in bs : Covers(e, p)
  <2>1. PICK t \in Containing(pol, p) : \A f \in Containing(pol, p) : Covers(t, f)
    BY <1>0, <1>2, Topmost DEF WithinAny, Containing
  <2>2. t \in DOMAIN pol /\ t \in Paths /\ Covers(t, p)
    BY <1>0, <2>1 DEF Containing
  <2>3. ASSUME NEW f \in DOMAIN pol, Covers(f, t) PROVE f = t
    <3>1. f \in Containing(pol, p)
      BY <1>0, <2>2, <2>3, TreeFacts DEF Containing
    <3>2. QED
      BY <1>0, <2>1, <2>2, <2>3, <3>1, TreeFacts
  <2>4. QED
    BY <1>1, <2>2, <2>3
<1>3. ASSUME NEW p \in Paths, NEW e \in bs, Covers(e, p) PROVE WithinAny(p, pol)
  BY <1>1, <1>3 DEF WithinAny, Containing
<1>4. ASSUME NEW p \in Paths, NEW e \in bs, NEW f \in bs, Covers(e, p), Covers(f, p)
      PROVE  e = f
  <2>1. Covers(e, f) \/ Covers(f, e)
    BY <1>0, <1>1, <1>4, TreeFacts
  <2>2. QED
    BY <1>1, <2>1
<1>5. QED
  BY <1>2, <1>3, <1>4 DEF BoundariesExact, bs

-----------------------------------------------------------------------------
(* The stored roots and the daemon.                                        *)

(* The configured policies, and the empty one, are policies.               *)
LEMMA ConstantPolicies ==
    /\ NoRoots \in Policies /\ DOMAIN NoRoots = {}
    /\ \A g \in Globals : g \in Policies
<1>1. DOMAIN NoRoots = {} /\ NoRoots \in [{} -> Access]
  BY DEF NoRoots
<1>2. QED
  BY <1>1, PolicyIs, PolicyAssumption

(* Dropping, adding and changing an entry gives a policy again.            *)
LEMMA EntryChanges ==
    ASSUME NEW pol \in Policies
    PROVE  /\ \A S : S \subseteq DOMAIN pol => Restrict(pol, S) \in Policies
           /\ \A p \in Paths, a \in Access :
                 /\ Stored(pol, p, a) \in Policies
                 /\ DOMAIN Stored(pol, p, a) = DOMAIN pol \cup {p}
           /\ \A p : Without(pol, p) \in Policies
<1>0. DOMAIN pol \subseteq Paths /\ pol \in [DOMAIN pol -> Access]
  BY PolicyIs
<1>1. ASSUME NEW S, S \subseteq DOMAIN pol PROVE Restrict(pol, S) \in Policies
  <2>1. DOMAIN Restrict(pol, S) = S /\ Restrict(pol, S) \in [S -> Access]
    BY <1>0, <1>1 DEF Restrict
  <2>2. QED
    BY <1>0, <1>1, <2>1, PolicyIs
<1>2. ASSUME NEW p \in Paths, NEW a \in Access
      PROVE  /\ Stored(pol, p, a) \in Policies
             /\ DOMAIN Stored(pol, p, a) = DOMAIN pol \cup {p}
  <2>1. /\ DOMAIN Stored(pol, p, a) = DOMAIN pol \cup {p}
        /\ Stored(pol, p, a) \in [DOMAIN pol \cup {p} -> Access]
    BY <1>0, <1>2 DEF Stored
  <2>2. QED
    BY <1>0, <2>1, PolicyIs
<1>3. \A p : Without(pol, p) \in Policies
  BY <1>1 DEF Without
<1>4. QED
  BY <1>1, <1>2, <1>3

(* The effective roots of a Launcher that exists.                          *)
LEMMA EffectiveType ==
    ASSUME TypeOK, NEW l \in Launchers
    PROVE  /\ global \in Policies /\ proots \in Policies /\ lroots[l] \in Policies
           /\ Ceiling \in Policies /\ Ceiling = Compose(global, proots)
           /\ Effective(l) \in Policies
           /\ Effective(l) = IF scope[l] = "inherit" THEN Ceiling
                             ELSE Compose(Ceiling, lroots[l])
<1>1. global \in Policies /\ proots \in Policies /\ lroots[l] \in Policies
  BY ConstantPolicies DEF TypeOK
<1>2. Ceiling \in Policies /\ Ceiling = Compose(global, proots)
  BY <1>1, ComposedType DEF Ceiling, EffectivePrincipal
<1>3. Effective(l) = IF scope[l] = "inherit" THEN Ceiling ELSE Compose(Ceiling, lroots[l])
  BY DEF Effective, EffectiveLauncher
<1>4. QED
  BY <1>1, <1>2, <1>3, ComposedType

(* The snapshot that is issued is a policy.                                *)
LEMMA SnapshotType ==
    ASSUME NEW E \in Policies, NEW ws \in Paths, NEW q \in Policies,
           \E root \in DOMAIN E : StrictlyCovers(root, ws)
    PROVE  WithinAny(ws, E) /\ Snapshot(E, ws, q) \in Policies
<1>1. WithinAny(ws, E)
  BY DEF WithinAny, Containing, StrictlyCovers
<1>2. Derive(E, ws) \in Policies
  BY <1>1, DerivedType
<1>3. NarrowScope(E, ws, q) \in Policies
  <2>1. Asked(E, ws, q) \in Policies /\ NarrowScope(E, ws, q) = Compose(E, Asked(E, ws, q))
    BY <1>1, AskedIs
  <2>2. QED
    BY <2>1, ComposedType
<1>4. QED
  BY <1>1, <1>2, <1>3 DEF Snapshot

(* Initially nothing is stored.                                            *)
LEMMA PolicyInit == Init => TypeOK /\ StoredWithinCeilings
  BY ConstantPolicies DEF Init, TypeOK, StoredWithinCeilings

(* What reconcileStoredAllowedRootsToGlobalCeiling leaves: policies below  *)
(* the new ceiling, and nothing for a Launcher that is not restricted.     *)
LEMMA PruneOK ==
    ASSUME TypeOK, NEW g \in Globals, Prune(g)
    PROVE  /\ proots' \in Policies /\ lroots' \in [Launchers -> Policies]
           /\ DOMAIN proots' \subseteq DOMAIN proots
           /\ \A l \in Launchers : scope[l] # "restricted" => lroots'[l] = NoRoots
           /\ \A p \in DOMAIN proots' : WithinAny(p, g)
           /\ \A l \in Launchers : Revalidated(EffectivePrincipal(g, proots'), lroots'[l])
<1>0. /\ proots \in Policies /\ \A l \in Launchers : lroots[l] \in Policies
      /\ \A l \in Launchers : scope[l] # "restricted" => lroots[l] = NoRoots
  BY DEF TypeOK
<1>1. proots' = Restrict(proots, {p \in DOMAIN proots : WithinAny(p, g)})
  BY DEF Prune, SurvivingPrincipalRoots
<1>2. /\ proots' \in Policies /\ DOMAIN proots' \subseteq DOMAIN proots
      /\ \A p \in DOMAIN proots' : WithinAny(p, g)
  BY <1>0, <1>1, EntryChanges DEF Restrict
<1> DEFINE ceiling == EffectivePrincipal(g, proots')
<1>3. lroots' = [l \in Launchers |-> SurvivingLauncherRoots(ceiling, l)]
  BY DEF Prune
<1> HIDE DEF ceiling
<1>4. ASSUME NEW l \in Launchers
      PROVE  /\ lroots'[l] \in Policies
             /\ scope[l] # "restricted" => lroots'[l] = NoRoots
             /\ Revalidated(ceiling, lroots'[l])
  <2>1. lroots'[l] = SurvivingLauncherRoots(ceiling, l)
    BY <1>3
  <2>2. CASE scope[l] = "restricted"
    <3>1. lroots'[l] = Restrict(lroots[l], {p \in DOMAIN lroots[l] : WithinAny(p, ceiling)})
      BY <2>1, <2>2 DEF SurvivingLauncherRoots
    <3>2. QED
      BY <1>0, <2>2, <3>1, EntryChanges DEF Restrict, Revalidated
  <2>3. CASE scope[l] # "restricted"
    BY <1>0, <2>1, <2>3, ConstantPolicies DEF SurvivingLauncherRoots, Revalidated
  <2>4. QED
    BY <2>2, <2>3
<1>5. lroots' \in [Launchers -> Policies]
  BY <1>3, <1>4
<1>6. QED
  BY <1>2, <1>4, <1>5 DEF ceiling

(* The types of a reconciliation, of the publication and of a crash.       *)
LEMMA DaemonType ==
    ASSUME TypeOK,
           (\E g \in Globals : Startup(g) \/ ReloadCommit(g)) \/ Publish \/ Crash
    PROVE  TypeOK'
<1>1. ASSUME NEW g \in Globals, Startup(g) \/ ReloadCommit(g) PROVE TypeOK'
  <2>1. Prune(g) /\ UNCHANGED <<principal, scope, session>>
    BY <1>1 DEF Startup, ReloadCommit
  <2>2. /\ proots' \in Policies /\ lroots' \in [Launchers -> Policies]
        /\ DOMAIN proots' \subseteq DOMAIN proots
        /\ \A l \in Launchers : scope[l] # "restricted" => lroots'[l] = NoRoots
    BY <2>1, PruneOK
  <2>3. ~principal => proots' = NoRoots
    <3>1. ~principal => proots = NoRoots
      BY DEF TypeOK
    <3>2. proots' = [p \in {p \in DOMAIN proots : WithinAny(p, g)} |-> proots[p]]
      BY <2>1 DEF Prune, SurvivingPrincipalRoots, Restrict
    <3>3. QED
      BY <3>1, <3>2 DEF NoRoots
  <2>4. QED
    BY <1>1, <2>1, <2>2, <2>3 DEF Startup, ReloadCommit, TypeOK
<1>2. CASE Publish
  BY <1>2 DEF Publish, TypeOK
<1>3. CASE Crash
  BY <1>3 DEF Crash, TypeOK
<1>4. QED
  BY <1>1, <1>2, <1>3

(* The types of the Principal's operations.                                *)
LEMMA PrincipalType ==
    ASSUME TypeOK,
           \/ CreatePrincipal \/ DeletePrincipal
           \/ \E p \in Paths : \/ RemovePrincipalRoot(p)
                               \/ \E access \in Access : \/ AddPrincipalRoot(p, access)
                                                         \/ SetPrincipalAccess(p, access)
    PROVE  TypeOK'
<1> USE DEF memory
<1>1. CASE CreatePrincipal
  <2>1. proots' \in Policies
    <3>1. DOMAIN proots' = {Home} /\ proots' \in [{Home} -> Access]
      BY <1>1 DEF CreatePrincipal, Access
    <3>2. QED
      BY <3>1, PolicyIs, PolicyAssumption
  <2>2. Default \in Launchers
    BY PolicyAssumption
  <2>3. QED
    BY <1>1, <2>1, <2>2 DEF CreatePrincipal, TypeOK
<1>2. CASE DeletePrincipal
  BY <1>2, ConstantPolicies DEF DeletePrincipal, TypeOK
<1>3. ASSUME NEW p \in Paths, RemovePrincipalRoot(p) PROVE TypeOK'
  <2>1. proots' \in Policies
    BY <1>3, EntryChanges DEF RemovePrincipalRoot, TypeOK
  <2> DEFINE ceiling == EffectivePrincipal(global, Without(proots, p))
  <2>2. lroots' = [l \in Launchers |-> SurvivingLauncherRoots(ceiling, l)]
    BY <1>3 DEF RemovePrincipalRoot
  <2> HIDE DEF ceiling
  <2>3. ASSUME NEW l \in Launchers
        PROVE  /\ lroots'[l] \in Policies
               /\ scope[l] # "restricted" => lroots'[l] = NoRoots
    <3>1. lroots[l] \in Policies /\ (scope[l] # "restricted" => lroots[l] = NoRoots)
      BY DEF TypeOK
    <3>2. QED
      BY <2>2, <3>1, EntryChanges DEF SurvivingLauncherRoots
  <2>4. lroots' \in [Launchers -> Policies]
    BY <2>2, <2>3
  <2>5. QED
    BY <1>3, <2>1, <2>3, <2>4 DEF RemovePrincipalRoot, Serving, TypeOK
<1>4. ASSUME NEW p \in Paths, NEW access \in Access,
             AddPrincipalRoot(p, access) \/ SetPrincipalAccess(p, access)
      PROVE  TypeOK'
  <2>1. proots' \in Policies
    <3>1. proots \in Policies /\ proots' = Stored(proots, p, access)
      BY <1>4 DEF AddPrincipalRoot, SetPrincipalAccess, TypeOK
    <3>2. QED
      BY <3>1, EntryChanges
  <2>2. QED
    BY <1>4, <2>1 DEF AddPrincipalRoot, SetPrincipalAccess, Serving, TypeOK
<1>5. QED
  BY <1>1, <1>2, <1>3, <1>4

(* The types of the Launchers' operations.                                 *)
LEMMA LauncherType ==
    ASSUME TypeOK, NEW l \in Launchers,
           \/ CreateLauncher(l) \/ ReplaceScope(l) \/ DeleteLauncher(l)
           \/ \E p \in Paths :
                 \/ RemoveLauncherRoot(l, p)
                 \/ \E access \in Access : \/ AddLauncherRoot(l, p, access)
                                           \/ SetLauncherAccess(l, p, access)
    PROVE  TypeOK'
<1> USE DEF memory
<1>1. ASSUME NEW pol \in {NoRoots} \cup ValidRoots(Ceiling), Rescope(l, pol), Serving
      PROVE  TypeOK'
  <2>1. pol \in Policies
    BY ConstantPolicies DEF ValidRoots, Small
  <2>2. QED
    BY <1>1, <2>1 DEF Rescope, Serving, TypeOK
<1>2. CASE CreateLauncher(l) \/ ReplaceScope(l)
  BY <1>1, <1>2 DEF CreateLauncher, ReplaceScope
<1>3. CASE DeleteLauncher(l)
  BY <1>3, ConstantPolicies DEF DeleteLauncher, TypeOK
<1>4. ASSUME NEW p \in Paths, RemoveLauncherRoot(l, p) PROVE TypeOK'
  <2>1. lroots[l] \in Policies
    BY DEF TypeOK
  <2>2. Without(lroots[l], p) \in Policies
    BY <2>1, EntryChanges
  <2>3. scope[l] = "restricted"
    BY <1>4, ConstantPolicies DEF RemoveLauncherRoot, TypeOK
  <2>4. QED
    BY <1>4, <2>2, <2>3 DEF RemoveLauncherRoot, TypeOK
<1>5. ASSUME NEW p \in Paths, NEW access \in Access,
             AddLauncherRoot(l, p, access) \/ SetLauncherAccess(l, p, access)
      PROVE  TypeOK'
  <2>1. lroots[l] \in Policies
    BY DEF TypeOK
  <2>2. Stored(lroots[l], p, access) \in Policies
    BY <2>1, EntryChanges
  <2>3. CASE AddLauncherRoot(l, p, access)
    BY <2>2, <2>3 DEF AddLauncherRoot, TypeOK
  <2>4. CASE SetLauncherAccess(l, p, access)
    <3>1. scope[l] = "restricted"
      BY <2>4, ConstantPolicies DEF SetLauncherAccess, TypeOK
    <3>2. QED
      BY <2>2, <2>4, <3>1 DEF SetLauncherAccess, TypeOK
  <2>5. QED
    BY <1>5, <2>3, <2>4
<1>6. QED
  BY <1>2, <1>3, <1>4, <1>5

(* What Session creation decides and records.                              *)
LEMMA IssuedSession ==
    ASSUME TypeOK, NEW l \in Launchers, CreateSession(l)
    PROVE  /\ Serving /\ scope[l] # "absent" /\ Effective(l) \in Policies
           /\ \E ws \in Paths, q \in Policies :
                 /\ \E root \in DOMAIN Effective(l) : StrictlyCovers(root, ws)
                 /\ WithinAny(ws, Effective(l)) /\ Narrows(Effective(l), q)
                 /\ Snapshot(Effective(l), ws, q) \in Policies
                 /\ session' = [launcher  |-> l, workspace |-> ws, requested |-> q,
                                entries   |-> Snapshot(Effective(l), ws, q)]
           /\ UNCHANGED <<phase, global, next, principal, proots, scope, lroots>>
<1>1. Effective(l) \in Policies
  BY EffectiveType
<1>2. PICK ws \in Paths, q \in Small(MaxRequest) :
         /\ \E root \in DOMAIN Effective(l) : StrictlyCovers(root, ws)
         /\ Narrows(Effective(l), q)
         /\ session' = [launcher  |-> l, workspace |-> ws, requested |-> q,
                        entries   |-> Snapshot(Effective(l), ws, q)]
  BY DEF CreateSession
<1>3. q \in Policies
  BY DEF Small
<1>4. WithinAny(ws, Effective(l)) /\ Snapshot(Effective(l), ws, q) \in Policies
  BY <1>1, <1>2, <1>3, SnapshotType
<1>5. QED
  BY <1>1, <1>2, <1>3, <1>4 DEF CreateSession, memory

(* Every step keeps the types.                                             *)
LEMMA PolicyType == TypeOK /\ [Next]_vars => TypeOK'
<1> SUFFICES ASSUME TypeOK, [Next]_vars PROVE TypeOK'
  OBVIOUS
<1>1. ASSUME NEW l \in Launchers, CreateSession(l) PROVE TypeOK'
  <2>1. /\ scope[l] # "absent" /\ session'.launcher = l /\ session'.entries \in Policies
        /\ UNCHANGED <<phase, global, next, principal, proots, scope, lroots>>
    BY <1>1, IssuedSession
  <2>2. QED
    BY <2>1 DEF TypeOK
<1>2. CASE DeleteSession
  BY <1>2 DEF DeleteSession, memory, TypeOK
<1>3. CASE UNCHANGED vars
  BY <1>3 DEF vars, TypeOK
<1>4. QED
  BY <1>1, <1>2, <1>3, DaemonType, PrincipalType, LauncherType DEF Next

-----------------------------------------------------------------------------
(* No stored root outlives its ceiling.                                    *)

(* The invariant, path by path: a Launcher root is below a global root and *)
(* below a Principal root.                                                 *)
LEMMA CeilingReach ==
    ASSUME NEW g \in Policies, NEW pr \in Policies, NEW pol \in Policies
    PROVE  Revalidated(EffectivePrincipal(g, pr), pol)
             <=> \A p \in DOMAIN pol : WithinAny(p, g) /\ WithinAny(p, pr)
<1>1. \A p \in DOMAIN pol : p \in Paths
  BY PolicyIs
<1>2. QED
  BY <1>1, ComposeReach DEF Revalidated, EffectivePrincipal

(* More entries authorise more.                                            *)
LEMMA ReachGrows ==
    ASSUME NEW a, NEW b, DOMAIN a \subseteq DOMAIN b, NEW p, WithinAny(p, a)
    PROVE  WithinAny(p, b)
  BY DEF WithinAny, Containing

(* The stored roots pr and lr are below g.                                 *)
Below(g, pr, lr) ==
    /\ \A p \in DOMAIN pr : WithinAny(p, g)
    /\ \A l \in Launchers : Revalidated(EffectivePrincipal(g, pr), lr[l])

(* The invariant, phase by phase.                                          *)
LEMMA StoredIs ==
    StoredWithinCeilings <=> /\ phase = "pruned" => Below(next, proots, lroots)
                             /\ phase \notin {"down", "pruned"} => Below(global, proots, lroots)
  BY DEF StoredWithinCeilings, Below

(* A Principal root that is added widens the ceiling of the Launchers.     *)
LEMMA BelowGrows ==
    ASSUME NEW g \in Policies, NEW pr \in Policies, NEW wider \in Policies,
           NEW lr \in [Launchers -> Policies], Below(g, pr, lr),
           DOMAIN pr \subseteq DOMAIN wider, \A p \in DOMAIN wider : WithinAny(p, g)
    PROVE  Below(g, wider, lr)
<1>1. ASSUME NEW l \in Launchers PROVE Revalidated(EffectivePrincipal(g, wider), lr[l])
  <2>1. \A p \in DOMAIN lr[l] : WithinAny(p, g) /\ WithinAny(p, pr)
    BY CeilingReach DEF Below
  <2>2. \A p \in DOMAIN lr[l] : WithinAny(p, g) /\ WithinAny(p, wider)
    BY <2>1, ReachGrows
  <2>3. QED
    BY <2>2, CeilingReach
<1>2. QED
  BY <1>1 DEF Below

(* The invariant is inductive together with the types: every mutation of a *)
(* ceiling removes in the same step what it no longer contains.            *)
LEMMA StoredStep == TypeOK /\ StoredWithinCeilings /\ [Next]_vars => StoredWithinCeilings'
<1> SUFFICES ASSUME TypeOK, StoredWithinCeilings, [Next]_vars PROVE StoredWithinCeilings'
  OBVIOUS
<1> USE DEF memory
<1>1. /\ global \in Policies /\ proots \in Policies /\ lroots \in [Launchers -> Policies]
      /\ phase \in {"down", "serving", "pruned"}
      /\ \A l \in Launchers : scope[l] # "restricted" => lroots[l] = NoRoots
  BY ConstantPolicies DEF TypeOK
<1>2. phase = "serving" => Below(global, proots, lroots)
  BY StoredIs
<1>3. /\ phase' = "pruned" => Below(next', proots', lroots')
      /\ phase' \notin {"down", "pruned"} => Below(global', proots', lroots')
      => StoredWithinCeilings'
  BY DEF StoredWithinCeilings, Below
<1>4. ASSUME NEW g \in Globals, Startup(g) \/ ReloadCommit(g)
      PROVE  StoredWithinCeilings'
  <2>1. Prune(g)
    BY <1>4 DEF Startup, ReloadCommit
  <2>2. Below(g, proots', lroots')
    BY <2>1, PruneOK DEF Below
  <2>3. QED
    BY <1>4, <1>3, <2>2 DEF Startup, ReloadCommit
<1>5. CASE Publish
  BY <1>5, <1>3, StoredIs DEF Publish
<1>6. CASE Crash
  BY <1>6, <1>3 DEF Crash
<1>7. CASE CreatePrincipal
  <2>1. \A l \in Launchers : DOMAIN lroots[l] = {}
    BY <1>1, <1>7, ConstantPolicies DEF CreatePrincipal, TypeOK
  <2>2. Below(global, proots', lroots)
    BY <1>7, <2>1 DEF CreatePrincipal, Below, Revalidated
  <2>3. QED
    BY <1>7, <1>3, <2>2 DEF CreatePrincipal
<1>8. CASE DeletePrincipal
  <2>1. Below(global, NoRoots, lroots')
    BY <1>8, ConstantPolicies DEF DeletePrincipal, Below, Revalidated
  <2>2. QED
    BY <1>8, <1>3, <2>1 DEF DeletePrincipal, Serving
<1>9. ASSUME NEW p \in Paths, RemovePrincipalRoot(p) PROVE StoredWithinCeilings'
  <2> DEFINE ceiling == EffectivePrincipal(global, proots')
  <2>1. lroots' = [l \in Launchers |-> SurvivingLauncherRoots(ceiling, l)]
    BY <1>9 DEF RemovePrincipalRoot
  <2> HIDE DEF ceiling
  <2>2. ASSUME NEW l \in Launchers PROVE Revalidated(ceiling, lroots'[l])
    BY <1>1, <2>1, ConstantPolicies DEF Revalidated, SurvivingLauncherRoots, Restrict
  <2>3. DOMAIN proots' \subseteq DOMAIN proots
    BY <1>9 DEF RemovePrincipalRoot, Without, Restrict
  <2>4. Below(global, proots', lroots')
    BY <1>9, <1>2, <2>2, <2>3 DEF Below, ceiling, RemovePrincipalRoot, Serving
  <2>5. QED
    BY <1>9, <1>3, <2>4 DEF RemovePrincipalRoot, Serving
<1>10. ASSUME NEW p \in Paths, NEW access \in Access,
             AddPrincipalRoot(p, access) \/ SetPrincipalAccess(p, access)
      PROVE  StoredWithinCeilings'
  <2>1. /\ phase = "serving" /\ (WithinAny(p, global) \/ p \in DOMAIN proots)
        /\ proots' = Stored(proots, p, access)
        /\ UNCHANGED <<phase, global, next, lroots>>
    BY <1>10 DEF AddPrincipalRoot, SetPrincipalAccess, Serving
  <2>2. proots' \in Policies /\ DOMAIN proots' = DOMAIN proots \cup {p}
    BY <1>1, <2>1, EntryChanges
  <2>3. \A q \in DOMAIN proots' : WithinAny(q, global)
    BY <1>2, <2>1, <2>2 DEF Below
  <2>4. Below(global, proots', lroots)
    BY <1>1, <1>2, <2>1, <2>2, <2>3, BelowGrows
  <2>5. QED
    BY <1>3, <2>1, <2>4
<1>11. ASSUME NEW l \in Launchers, NEW pol, Revalidated(Ceiling, pol), Serving,
             lroots' = [lroots EXCEPT ![l] = pol],
             UNCHANGED <<phase, global, next, proots>>
      PROVE  StoredWithinCeilings'
  <2>1. Below(global, proots, lroots')
    BY <1>1, <1>11, <1>2 DEF Below, Serving, Ceiling
  <2>2. QED
    BY <1>11, <1>3, <2>1 DEF Serving
<1>12. ASSUME NEW l \in Launchers, CreateLauncher(l) \/ ReplaceScope(l)
      PROVE  StoredWithinCeilings'
  <2>1. PICK pol \in {NoRoots} \cup ValidRoots(Ceiling) : Rescope(l, pol)
    BY <1>12 DEF CreateLauncher, ReplaceScope
  <2>2. Revalidated(Ceiling, pol)
    BY <2>1, ConstantPolicies DEF ValidRoots, Revalidated
  <2>3. QED
    BY <1>11, <1>12, <2>1, <2>2 DEF CreateLauncher, ReplaceScope, Rescope
<1>13. ASSUME NEW l \in Launchers, DeleteLauncher(l) PROVE StoredWithinCeilings'
  <2>1. Revalidated(Ceiling, NoRoots)
    BY ConstantPolicies DEF Revalidated
  <2>2. QED
    BY <1>11, <1>13, <2>1 DEF DeleteLauncher
<1>14. ASSUME NEW l \in Launchers, NEW p \in Paths, RemoveLauncherRoot(l, p)
       PROVE  StoredWithinCeilings'
  <2>1. Revalidated(Ceiling, Without(lroots[l], p))
    BY <1>14, <1>2
    DEF RemoveLauncherRoot, Serving, Below, Ceiling, Revalidated, Without, Restrict
  <2>2. QED
    BY <1>11, <1>14, <2>1 DEF RemoveLauncherRoot
<1>15. ASSUME NEW l \in Launchers, NEW p \in Paths, NEW access \in Access,
              AddLauncherRoot(l, p, access) \/ SetLauncherAccess(l, p, access)
       PROVE  StoredWithinCeilings'
  <2>1. /\ Serving /\ (WithinAny(p, Ceiling) \/ p \in DOMAIN lroots[l])
        /\ lroots' = [lroots EXCEPT ![l] = Stored(lroots[l], p, access)]
        /\ UNCHANGED <<phase, global, next, proots>>
    BY <1>15 DEF AddLauncherRoot, SetLauncherAccess
  <2>2. DOMAIN Stored(lroots[l], p, access) = DOMAIN lroots[l] \cup {p}
    BY DEF Stored
  <2>3. Revalidated(Ceiling, Stored(lroots[l], p, access))
    BY <1>2, <2>1, <2>2 DEF Serving, Below, Ceiling, Revalidated
  <2>4. QED
    BY <1>11, <2>1, <2>3
<1>16. ASSUME UNCHANGED <<phase, global, next, proots, lroots>>
       PROVE  StoredWithinCeilings'
  BY <1>16 DEF StoredWithinCeilings
<1>17. QED
  <2>1. ASSUME NEW l \in Launchers, CreateSession(l) PROVE StoredWithinCeilings'
    BY <1>16, <2>1 DEF CreateSession
  <2>2. CASE DeleteSession
    BY <1>16, <2>2 DEF DeleteSession
  <2>3. CASE UNCHANGED vars
    BY <1>16, <2>3 DEF vars
  <2>4. QED
    BY <1>4, <1>5, <1>6, <1>7, <1>8, <1>9, <1>10, <1>12, <1>13, <1>14, <1>15,
       <2>1, <2>2, <2>3 DEF Next

-----------------------------------------------------------------------------
(* The theorems about the stored roots.                                    *)

(* Type correctness: only a restricted Launcher has stored roots, only an  *)
(* existing Principal owns anything, and a Session always belongs to a     *)
(* Launcher that exists; what compositions and normalisations compute are  *)
(* policies.                                                               *)
THEOREM PolicyTyped == Spec => []TypeOK
<1>1. Init => TypeOK
  BY PolicyInit
<1>2. QED
  BY <1>1, PolicyType, PTL DEF Spec

(* StoredWithinCeilings: removePrincipalAllowedRootCascaded, a reload and  *)
(* startup never leave a stored root outside its ceiling, so the           *)
(* revalidation in effectiveLauncherAllowedRoots never refuses rows the    *)
(* daemon wrote itself, for every tree of paths and every byte order.      *)
THEOREM StoredRootsValid == Spec => []StoredWithinCeilings
<1>1. Init => TypeOK /\ StoredWithinCeilings
  BY PolicyInit
<1>2. TypeOK /\ StoredWithinCeilings /\ [Next]_vars => (TypeOK /\ StoredWithinCeilings)'
  BY PolicyType, StoredStep
<1>3. QED
  BY <1>1, <1>2, PTL DEF Spec

-----------------------------------------------------------------------------
(* Effective authority.                                                    *)

(* The authority at a path is an access mode or "none".                    *)
LEMMA LookupValue ==
    ASSUME NEW pol \in Policies, NEW p \in Paths
    PROVE  Lookup(pol, p) \in {"none", "read_write", "read_only"}
  BY LookupType DEF Access

(* The entries from which the effective roots of a Launcher are composed.  *)
InUse(l) == DOMAIN global \cup DOMAIN proots \cup DOMAIN lroots[l]

(* EffectivePrincipal and EffectiveLauncher, scope by scope, are the meet. *)
LEMMA EffectiveLookup ==
    ASSUME TypeOK, NEW l \in Launchers, ContiguousOn(InUse(l))
    PROVE  /\ \A p \in Paths : Lookup(Effective(l), p)
                                 = Authority(global, proots, scope[l], lroots[l], p)
           /\ DOMAIN Effective(l) \subseteq InUse(l)
<1>0. /\ global \in Policies /\ proots \in Policies /\ lroots[l] \in Policies
      /\ Ceiling \in Policies /\ Ceiling = Compose(global, proots)
      /\ Effective(l) = IF scope[l] = "inherit" THEN Ceiling
                        ELSE Compose(Ceiling, lroots[l])
  BY EffectiveType
<1>1. /\ DOMAIN Ceiling \subseteq DOMAIN global \cup DOMAIN proots
      /\ DOMAIN Compose(Ceiling, lroots[l]) \subseteq DOMAIN Ceiling \cup DOMAIN lroots[l]
  BY <1>0, ComposedType
<1>2. /\ ContiguousOn(DOMAIN global \cup DOMAIN proots)
      /\ ContiguousOn(DOMAIN Ceiling \cup DOMAIN lroots[l])
  <2>1. /\ DOMAIN global \cup DOMAIN proots \subseteq InUse(l)
        /\ DOMAIN Ceiling \cup DOMAIN lroots[l] \subseteq InUse(l)
    BY <1>1 DEF InUse
  <2>2. QED
    BY <2>1, ContiguousSubset
<1>3. ASSUME NEW p \in Paths
      PROVE  Lookup(Effective(l), p) = Authority(global, proots, scope[l], lroots[l], p)
  <2>1. Lookup(Ceiling, p) = MeetAuthority(Lookup(global, p), Lookup(proots, p))
    BY <1>0, <1>2, ComposeLookup
  <2>2. CASE scope[l] = "inherit"
    <3>1. Lookup(Ceiling, p) \in {"none", "read_write", "read_only"}
      BY <1>0, LookupValue
    <3>2. MeetAuthority(Lookup(Ceiling, p), "read_write") = Lookup(Ceiling, p)
      BY <3>1 DEF MeetAuthority, Meet
    <3>3. QED
      BY <1>0, <2>1, <2>2, <3>2 DEF Authority
  <2>3. CASE scope[l] # "inherit"
    <3>1. Lookup(Effective(l), p) = MeetAuthority(Lookup(Ceiling, p), Lookup(lroots[l], p))
      BY <1>0, <1>2, <2>3, ComposeLookup
    <3>2. QED
      BY <2>1, <2>3, <3>1 DEF Authority
  <2>4. QED
    BY <2>2, <2>3
<1>4. DOMAIN Effective(l) \subseteq InUse(l)
  BY <1>0, <1>1 DEF InUse
<1>5. QED
  BY <1>3, <1>4

(* EffectiveIsMeet for the Launchers whose roots in use sort together.     *)
MeetWhereContiguous ==
    \A l \in Launchers : ContiguousOn(InUse(l)) =>
        \A p \in Paths :
            Lookup(Effective(l), p)
               = Authority(global, proots, scope[l], lroots[l], p)

(* Whenever the roots stored for a Launcher and above it sort together,    *)
(* the normalisations between the scopes drop only entries that change no  *)
(* lookup, as the comment of normalizeAllowedRootEntries says, and the     *)
(* roots of Session creation grant at every path what all scopes grant.    *)
(* Nothing is asked of paths that are no roots.                            *)
THEOREM EffectiveRootsAreMeet == Spec => []MeetWhereContiguous
<1>1. TypeOK => MeetWhereContiguous
  BY EffectiveLookup DEF MeetWhereContiguous
<1>2. QED
  BY <1>1, PolicyTyped, PTL

(* EffectiveIsMeet, then, where no two paths sort apart: in the byte order *)
(* of the run root_policy.  In the other order of the same tree the run    *)
(* root_policy_siblings refutes it, so the hypothesis cannot go.           *)
THEOREM EffectiveRootsContiguous == ContiguousOn(Paths) => (Spec => []EffectiveIsMeet)
<1>1. SUFFICES ASSUME ContiguousOn(Paths) PROVE Spec => []EffectiveIsMeet
  OBVIOUS
<1>2. ASSUME TypeOK, NEW l \in Launchers PROVE ContiguousOn(InUse(l))
  <2>1. InUse(l) \subseteq Paths
    BY <1>2, EffectiveType, PolicyIs DEF InUse
  <2>2. QED
    BY <1>1, <2>1, ContiguousSubset
<1>3. TypeOK => EffectiveIsMeet
  BY <1>2, EffectiveLookup DEF EffectiveIsMeet
<1>4. QED
  BY <1>3, PolicyTyped, PTL

(* Which paths a Launcher may use at all.                                  *)
ReachIsMeet ==
    \A l \in Launchers, p \in Paths :
        WithinAny(p, Effective(l))
           <=> Authority(global, proots, scope[l], lroots[l], p) # "none"

(* Whatever the byte order, the composed roots authorise exactly the paths *)
(* that every scope authorises: the sort order of siblings can cost a      *)
(* nested entry its mode, never put a path out of reach or within it.      *)
THEOREM EffectiveReach == Spec => []ReachIsMeet
<1>1. ASSUME TypeOK, NEW l \in Launchers, NEW p \in Paths
      PROVE  WithinAny(p, Effective(l))
                <=> Authority(global, proots, scope[l], lroots[l], p) # "none"
  <2>0. /\ global \in Policies /\ proots \in Policies /\ lroots[l] \in Policies
        /\ Ceiling \in Policies /\ Ceiling = Compose(global, proots)
        /\ Effective(l) = IF scope[l] = "inherit" THEN Ceiling
                          ELSE Compose(Ceiling, lroots[l])
    BY <1>1, EffectiveType
  <2>1. WithinAny(p, Ceiling) <=> WithinAny(p, global) /\ WithinAny(p, proots)
    BY <2>0, ComposeReach
  <2>2. scope[l] # "inherit" =>
           (WithinAny(p, Effective(l)) <=> WithinAny(p, Ceiling) /\ WithinAny(p, lroots[l]))
    BY <2>0, ComposeReach
  <2>3. /\ WithinAny(p, global) <=> Lookup(global, p) # "none"
        /\ WithinAny(p, proots) <=> Lookup(proots, p) # "none"
        /\ WithinAny(p, lroots[l]) <=> Lookup(lroots[l], p) # "none"
    BY <2>0, LookupType
  <2>4. \A a, b : MeetAuthority(a, b) # "none" <=> a # "none" /\ b # "none"
    BY DEF MeetAuthority, Meet
  <2>5. QED
    BY <2>0, <2>1, <2>2, <2>3, <2>4 DEF Authority
<1>2. TypeOK => ReachIsMeet
  BY <1>1 DEF ReachIsMeet
<1>3. QED
  BY <1>2, PolicyTyped, PTL

-----------------------------------------------------------------------------
(* Pruning.                                                                *)

(* Entries are dropped with everything above them that contains them: an   *)
(* entry survives whenever an entry above it does.                         *)
LEMMA SurvivorLookup ==
    ASSUME NEW pol \in Policies, NEW c \in Policies, NEW p \in Paths
    PROVE  Lookup(Restrict(pol, {q \in DOMAIN pol : WithinAny(q, c)}), p)
              \in {"none", Lookup(pol, p)}
<1> DEFINE S == {q \in DOMAIN pol : WithinAny(q, c)}
           sv == Restrict(pol, S)
<1>0. DOMAIN pol \subseteq Paths
  BY PolicyIs
<1>1. sv \in Policies /\ DOMAIN sv = S /\ \A q \in S : sv[q] = pol[q]
  BY EntryChanges DEF Restrict
<1> HIDE DEF sv
<1>2. CASE ~WithinAny(p, sv)
  BY <1>2 DEF Lookup, sv
<1>3. CASE WithinAny(p, sv)
  <2>1. PICK f \in S : Covers(f, p)
    BY <1>1, <1>3 DEF WithinAny, Containing
  <2>2. WithinAny(p, pol)
    BY <2>1 DEF WithinAny, Containing
  <2>3. PICK d \in Paths : Decides(pol, d, p)
    BY <2>2, SomeDecides
  <2>4. Covers(f, d) /\ d \in DOMAIN pol /\ f \in Paths
    BY <1>0, <2>1, <2>3 DEF Decides
  <2>5. d \in S
    BY <2>1, <2>4, WithinBelow
  <2>6. Decides(sv, d, p)
    BY <1>1, <2>3, <2>5 DEF Decides
  <2>7. Lookup(sv, p) = pol[d] /\ Lookup(pol, p) = pol[d]
    BY <1>1, <2>3, <2>5, <2>6, LookupIs
  <2>8. QED
    BY <2>7 DEF sv
<1>4. QED
  BY <1>2, <1>3

(* Authority is monotone in each scope.                                    *)
LEMMA AuthorityNarrows ==
    ASSUME NEW g \in Policies, NEW pr \in Policies, NEW lr \in Policies, NEW p \in Paths,
           NEW sc, NEW pr2, NEW lr2,
           Lookup(pr2, p) \in {"none", Lookup(pr, p)},
           Lookup(lr2, p) \in {"none", Lookup(lr, p)}
    PROVE  NoWider(Authority(g, pr2, sc, lr2, p), Authority(g, pr, sc, lr, p))
<1>1. /\ Lookup(g, p) \in {"none", "read_write", "read_only"}
      /\ Lookup(pr, p) \in {"none", "read_write", "read_only"}
      /\ Lookup(lr, p) \in {"none", "read_write", "read_only"}
  BY LookupValue
<1>2. QED
  BY <1>1 DEF Authority, NoWider, MeetAuthority

(* PruneNeverBroadens: reconcileStoredAllowedRootsToGlobalCeiling drops a  *)
(* nested root only with every root above it, so under no later policy     *)
(* does a Launcher have more than the unpruned rows would have given it;   *)
(* for every tree and every byte order.                                    *)
THEOREM PruningNarrows == Spec => PruneNeverBroadens
<1> DEFINE Narrower ==
        \A g \in Globals, l \in Launchers, p \in Paths :
            NoWider(Authority(g, proots', scope[l], lroots'[l], p),
                    Authority(g, proots, scope[l], lroots[l], p))
<1>1. ASSUME TypeOK, NEW h \in Globals, Prune(h) PROVE Narrower
  <2> SUFFICES ASSUME NEW g \in Globals, NEW l \in Launchers, NEW p \in Paths
               PROVE  NoWider(Authority(g, proots', scope[l], lroots'[l], p),
                              Authority(g, proots, scope[l], lroots[l], p))
    OBVIOUS
  <2>1. /\ g \in Policies /\ h \in Policies
        /\ proots \in Policies /\ lroots[l] \in Policies
    BY <1>1, ConstantPolicies DEF TypeOK
  <2>2. Lookup(proots', p) \in {"none", Lookup(proots, p)}
    BY <1>1, <2>1, SurvivorLookup DEF Prune, SurvivingPrincipalRoots
  <2>3. proots' \in Policies
    BY <1>1, PruneOK
  <2> DEFINE ceiling == EffectivePrincipal(h, proots')
  <2>4. lroots'[l] = SurvivingLauncherRoots(ceiling, l)
    BY <1>1 DEF Prune
  <2>5. ceiling \in Policies
    BY <2>1, <2>3, ComposedType DEF EffectivePrincipal
  <2> HIDE DEF ceiling
  <2>6. Lookup(lroots'[l], p) \in {"none", Lookup(lroots[l], p)}
    BY <2>1, <2>4, <2>5, SurvivorLookup DEF SurvivingLauncherRoots
  <2>7. QED
    BY <2>1, <2>2, <2>6, AuthorityNarrows
<1>2. ASSUME UNCHANGED <<proots, lroots>> PROVE Narrower
  BY <1>2 DEF NoWider
<1>3. TypeOK /\ [Next]_vars => [phase' # phase => Narrower]_vars
  <2> SUFFICES ASSUME TypeOK, Next, phase' # phase PROVE Narrower
    OBVIOUS
  <2>1. ASSUME NEW g \in Globals, Startup(g) \/ ReloadCommit(g) PROVE Narrower
    BY <1>1, <2>1 DEF Startup, ReloadCommit
  <2>2. CASE Publish \/ Crash
    BY <1>2, <2>2 DEF Publish, Crash
  <2>3. (\E g \in Globals : Startup(g) \/ ReloadCommit(g)) \/ Publish \/ Crash
    BY DEF Next, memory, CreatePrincipal, DeletePrincipal, RemovePrincipalRoot,
           AddPrincipalRoot, SetPrincipalAccess, CreateLauncher, ReplaceScope, Rescope,
           DeleteLauncher, CreateSession, RemoveLauncherRoot, AddLauncherRoot,
           SetLauncherAccess, DeleteSession
  <2>4. QED
    BY <2>1, <2>2, <2>3
<1>4. QED
  BY <1>3, PolicyTyped, PTL DEF Spec, PruneNeverBroadens

-----------------------------------------------------------------------------
(* The snapshot of a new Session.                                          *)

(* A Session appears by createSessionWithPolicyLocked only.                *)
LEMMA OnlyCreation ==
    ASSUME [Next]_vars, session' \notin {session, NoSession}
    PROVE  \E l \in Launchers : CreateSession(l)
  BY DEF Next, vars, memory, Startup, ReloadCommit, Publish, Crash, CreatePrincipal,
         DeletePrincipal, RemovePrincipalRoot, AddPrincipalRoot, SetPrincipalAccess,
         CreateLauncher, ReplaceScope, Rescope, DeleteLauncher, RemoveLauncherRoot,
         AddLauncherRoot, SetLauncherAccess, DeleteSession

(* A request without roots: what the effective roots grant, below the      *)
(* workspace.                                                              *)
LEMMA DeriveLookup ==
    ASSUME NEW E \in Policies, NEW ws \in Paths, WithinAny(ws, E),
           ContiguousOn(DOMAIN E \cup {ws}), NEW p \in Paths
    PROVE  Lookup(Derive(E, ws), p) = IF Covers(ws, p) THEN Lookup(E, p) ELSE "none"
<1>1. /\ Derived(E, ws) \in Policies /\ Derive(E, ws) = Normalize(Derived(E, ws))
      /\ DOMAIN Derived(E, ws) \subseteq DOMAIN E \cup {ws}
  BY DerivedType
<1>2. ContiguousOn(DOMAIN Derived(E, ws))
  BY <1>1, ContiguousSubset
<1>3. Lookup(Derive(E, ws), p) = Lookup(Derived(E, ws), p)
  BY <1>1, <1>2, NormalizeLookup
<1>4. QED
  BY <1>3, DerivedLookup

(* A request with roots: nowhere more than the effective roots, and the    *)
(* mode that was asked for at every root, because a request for more was   *)
(* refused.                                                                *)
LEMMA NarrowLookup ==
    ASSUME NEW E \in Policies, NEW ws \in Paths, WithinAny(ws, E),
           NEW q \in Policies, Narrows(E, q), ContiguousOn(DOMAIN E \cup (DOMAIN q \cup {ws}))
    PROVE  /\ \A p \in Paths : NoWider(Lookup(NarrowScope(E, ws, q), p), Lookup(E, p))
           /\ \A p \in DOMAIN q : Lookup(NarrowScope(E, ws, q), p) = q[p]
<1> DEFINE N == Asked(E, ws, q)
<1>1. /\ N \in Policies /\ NarrowScope(E, ws, q) = Compose(E, N)
      /\ DOMAIN N = DOMAIN q \cup {ws}
      /\ \A p \in DOMAIN q : Lookup(N, p) = q[p] /\ p \in Paths
  BY AskedIs
<1> HIDE DEF N
<1>2. \A p \in Paths : Lookup(Compose(E, N), p) = MeetAuthority(Lookup(E, p), Lookup(N, p))
  BY <1>1, ComposeLookup
<1>3. ASSUME NEW p \in Paths
      PROVE  NoWider(MeetAuthority(Lookup(E, p), Lookup(N, p)), Lookup(E, p))
  <2>1. /\ Lookup(E, p) \in {"none", "read_write", "read_only"}
        /\ Lookup(N, p) \in {"none", "read_write", "read_only"}
    BY <1>1, LookupValue
  <2>2. QED
    BY <2>1 DEF NoWider, MeetAuthority, Meet
<1>4. ASSUME NEW p \in DOMAIN q PROVE MeetAuthority(Lookup(E, p), Lookup(N, p)) = q[p]
  <2>1. WithinAny(p, E) /\ ~(q[p] = "read_write" /\ Lookup(E, p) = "read_only")
    BY DEF Narrows
  <2>2. Lookup(E, p) \in Access /\ q[p] \in Access
    BY <1>1, <2>1, LookupType, PolicyIs
  <2>3. QED
    BY <1>1, <2>1, <2>2 DEF MeetAuthority, Meet, Access
<1>5. QED
  BY <1>1, <1>2, <1>3, <1>4

(* The entries from which the snapshot of a new Session is computed.       *)
InUseFor(new) == InUse(new.launcher) \cup DOMAIN new.requested \cup {new.workspace}

(* Session creation records a snapshot that grants as asked.               *)
LEMMA CreationAsAsked ==
    ASSUME TypeOK, NEW l \in Launchers, CreateSession(l), ContiguousOn(InUseFor(session'))
    PROVE  AsAsked(session')
<1> DEFINE E == Effective(l)
<1>1. E \in Policies
  BY IssuedSession
<1>2. PICK ws \in Paths, q \in Policies :
         /\ WithinAny(ws, E) /\ Narrows(E, q)
         /\ session' = [launcher |-> l, workspace |-> ws, requested |-> q,
                        entries |-> Snapshot(E, ws, q)]
  BY IssuedSession
<1>3. session'.launcher = l /\ session'.workspace = ws /\ session'.requested = q
      /\ session'.entries = Snapshot(E, ws, q)
  BY <1>2
<1>4. /\ \A p \in Paths : Lookup(E, p) = Authority(global, proots, scope[l], lroots[l], p)
      /\ ContiguousOn(DOMAIN E \cup {ws})
      /\ ContiguousOn(DOMAIN E \cup (DOMAIN q \cup {ws}))
  <2>1. InUseFor(session') = InUse(l) \cup DOMAIN q \cup {ws}
    BY <1>3 DEF InUseFor
  <2> HIDE DEF E
  <2>2. ContiguousOn(InUse(l))
    <3>1. InUse(l) \subseteq InUseFor(session')
      BY <2>1
    <3>2. QED
      BY <3>1, ContiguousSubset
  <2>3. /\ \A p \in Paths : Lookup(E, p) = Authority(global, proots, scope[l], lroots[l], p)
        /\ DOMAIN E \subseteq InUse(l)
    BY <2>2, EffectiveLookup DEF E
  <2>4. /\ DOMAIN E \cup {ws} \subseteq InUseFor(session')
        /\ DOMAIN E \cup (DOMAIN q \cup {ws}) \subseteq InUseFor(session')
    BY <2>1, <2>3
  <2>5. QED
    BY <2>3, <2>4, ContiguousSubset
<1> HIDE DEF E
<1>5. CASE q = NoRoots
  <2>1. \A p \in Paths : Lookup(session'.entries, p)
                            = IF Covers(ws, p) THEN Lookup(E, p) ELSE "none"
    BY <1>1, <1>2, <1>3, <1>4, <1>5, DeriveLookup DEF Snapshot
  <2>2. \A p \in Paths : NoWider(Lookup(session'.entries, p), Lookup(E, p))
    BY <2>1 DEF NoWider
  <2>3. DOMAIN q = {}
    BY <1>5, ConstantPolicies
  <2>4. QED
    BY <1>3, <1>4, <2>1, <2>2, <2>3 DEF AsAsked
<1>6. CASE q # NoRoots
  <2>1. session'.entries = NarrowScope(E, ws, q)
    BY <1>3, <1>6 DEF Snapshot
  <2>2. /\ \A p \in Paths : NoWider(Lookup(session'.entries, p), Lookup(E, p))
        /\ \A p \in DOMAIN q : Lookup(session'.entries, p) = q[p]
    BY <1>1, <1>2, <1>4, <2>1, NarrowLookup
  <2>3. QED
    BY <1>3, <1>4, <1>6, <2>2 DEF AsAsked
<1>7. QED
  BY <1>5, <1>6

(* What the run-time checks and the MAC coordinator read out of a new      *)
(* Session's snapshot.                                                     *)
ViewsAgree ==
    [][session' \notin {session, NoSession} =>
          /\ WritableIsWritable(session'.entries)
          /\ BoundariesExact(session'.entries)]_vars

(* Whatever the byte order, CanExposeWritable and sessionMACBoundaries     *)
(* agree with the snapshot that was issued at every path.                  *)
THEOREM SnapshotViewsAgree == Spec => ViewsAgree
<1>1. ASSUME TypeOK, [Next]_vars, session' \notin {session, NoSession}
      PROVE  WritableIsWritable(session'.entries) /\ BoundariesExact(session'.entries)
  <2>1. session'.entries \in Policies
    BY <1>1, OnlyCreation, IssuedSession
  <2>2. QED
    BY <2>1, WritableOK, BoundariesOK
<1>2. TypeOK /\ [Next]_vars =>
         [session' \notin {session, NoSession} =>
             /\ WritableIsWritable(session'.entries)
             /\ BoundariesExact(session'.entries)]_vars
  BY <1>1
<1>3. QED
  BY <1>2, PolicyTyped, PTL DEF Spec, ViewsAgree

(* IssuedAsAsked, for the Sessions whose roots in use sort together.       *)
IssuedWhereContiguous ==
    [][session' \notin {session, NoSession} /\ ContiguousOn(InUseFor(session'))
          => AsAsked(session')]_vars

(* When the roots in use for a new Session sort together, with those it    *)
(* asks for and its workspace, createSessionWithPolicyLocked grants        *)
(* nowhere more than its Launcher's authority at that moment, every        *)
(* requested root the mode that was asked for, and without a request       *)
(* exactly the authority below the workspace.                              *)
THEOREM SnapshotAsAsked == Spec => IssuedWhereContiguous
<1>1. ASSUME TypeOK, [Next]_vars, session' \notin {session, NoSession},
             ContiguousOn(InUseFor(session'))
      PROVE  AsAsked(session')
  BY <1>1, OnlyCreation, CreationAsAsked
<1>2. TypeOK /\ [Next]_vars =>
         [session' \notin {session, NoSession} /\ ContiguousOn(InUseFor(session'))
             => AsAsked(session')]_vars
  BY <1>1
<1>3. QED
  BY <1>2, PolicyTyped, PTL DEF Spec, IssuedWhereContiguous

(* IssuedAsAsked, then, where no two paths sort apart: the snapshot grants *)
(* as asked, and the views that are derived from it agree with it.         *)
THEOREM SnapshotContiguous == ContiguousOn(Paths) => (Spec => IssuedAsAsked)
<1>1. SUFFICES ASSUME ContiguousOn(Paths) PROVE Spec => IssuedAsAsked
  OBVIOUS
<1>2. ASSUME TypeOK, [Next]_vars, session' \notin {session, NoSession}
      PROVE  /\ AsAsked(session')
             /\ WritableIsWritable(session'.entries) /\ BoundariesExact(session'.entries)
  <2>1. PICK l \in Launchers : CreateSession(l)
    BY <1>2, OnlyCreation
  <2>2. session'.entries \in Policies
    BY <1>2, <2>1, IssuedSession
  <2>3. InUseFor(session') \subseteq Paths
    <3>1. /\ session'.launcher = l /\ session'.workspace \in Paths
          /\ session'.requested \in Policies
      BY <1>2, <2>1, IssuedSession
    <3>2. InUse(l) \subseteq Paths
      BY <1>2, EffectiveType, PolicyIs DEF InUse
    <3>3. QED
      BY <3>1, <3>2, PolicyIs DEF InUseFor
  <2>4. ContiguousOn(InUseFor(session'))
    BY <1>1, <2>3, ContiguousSubset
  <2>5. QED
    BY <1>2, <2>1, <2>2, <2>4, CreationAsAsked, WritableOK, BoundariesOK
<1>3. TypeOK /\ [Next]_vars =>
         [session' \notin {session, NoSession} =>
             /\ AsAsked(session')
             /\ WritableIsWritable(session'.entries)
             /\ BoundariesExact(session'.entries)]_vars
  BY <1>2
<1>4. QED
  BY <1>3, PolicyTyped, PTL DEF Spec, IssuedAsAsked

-----------------------------------------------------------------------------
(* Session creation is refused for its own request only.                   *)

(* A snapshot computed from roots that sort together is in the canonical   *)
(* form that newSessionFilesystemSnapshot insists on.                      *)
LEMMA SnapshotCanonical ==
    ASSUME NEW E \in Policies, NEW ws \in Paths, NEW q \in Policies, WithinAny(ws, E),
           ContiguousOn(DOMAIN E \cup (DOMAIN q \cup {ws}))
    PROVE  CanonicalSnapshot(ws, Snapshot(E, ws, q))
<1>1. ASSUME NEW raw \in Policies, DOMAIN raw \subseteq DOMAIN E \cup (DOMAIN q \cup {ws}),
             WithinAny(ws, raw)
      PROVE  CanonicalSnapshot(ws, Normalize(raw))
  <2>1. ContiguousOn(DOMAIN raw)
    BY <1>1, ContiguousSubset
  <2>2. Normalize(Normalize(raw)) = Normalize(raw)
    BY <2>1, NormalizeIdempotent
  <2>3. WithinAny(ws, Normalize(raw))
    BY <1>1, NormalizeReach
  <2>4. QED
    BY <2>2, <2>3 DEF CanonicalSnapshot
<1>2. CanonicalSnapshot(ws, Derive(E, ws))
  <2>1. /\ Derived(E, ws) \in Policies /\ Derive(E, ws) = Normalize(Derived(E, ws))
        /\ DOMAIN Derived(E, ws) \subseteq DOMAIN E \cup {ws}
    BY DerivedType
  <2>2. WithinAny(ws, Derived(E, ws))
    <3>1. ws \in DOMAIN Derived(E, ws) /\ Covers(ws, ws)
      BY TreeFacts DEF Derived
    <3>2. QED
      BY <3>1 DEF WithinAny, Containing
  <2>3. QED
    BY <1>1, <2>1, <2>2
<1>3. CanonicalSnapshot(ws, NarrowScope(E, ws, q))
  <2> DEFINE N == Asked(E, ws, q)
  <2>1. /\ N \in Policies /\ NarrowScope(E, ws, q) = Compose(E, N)
        /\ DOMAIN N = DOMAIN q \cup {ws}
    BY AskedIs
  <2> HIDE DEF N
  <2>2. /\ Composed(E, N) \in Policies /\ Compose(E, N) = Normalize(Composed(E, N))
        /\ DOMAIN Composed(E, N) \subseteq DOMAIN E \cup DOMAIN N
    BY <2>1, ComposedType
  <2>3. WithinAny(ws, N)
    BY <2>1, TreeFacts DEF WithinAny, Containing
  <2>4. WithinAny(ws, Composed(E, N))
    BY <2>1, <2>3, ComposedLookup
  <2>5. QED
    BY <1>1, <2>1, <2>2, <2>4
<1>4. QED
  BY <1>2, <1>3 DEF Snapshot

(* The checks of CreateSession that the requester cannot influence pass.   *)
NeverRefused ==
    \A l \in Launchers, ws \in Paths, q \in Policies :
        /\ Serving
        /\ \E root \in DOMAIN Effective(l) : StrictlyCovers(root, ws)
        /\ ContiguousOn(InUse(l) \cup DOMAIN q \cup {ws})
        => /\ Revalidated(Ceiling, lroots[l])
           /\ CanonicalSnapshot(ws, Snapshot(Effective(l), ws, q))

(* While the daemon serves, the revalidation of the stored roots and the   *)
(* canonical form of the computed snapshot never stop a Session whose      *)
(* roots in use sort together: after every history of root changes,        *)
(* reloads and restarts, createSessionWithPolicyLocked refuses a request   *)
(* only for its workspace or for the roots it asks for.                    *)
THEOREM SessionsNeverRefused == Spec => []NeverRefused
<1>1. ASSUME TypeOK, StoredWithinCeilings, Serving, NEW l \in Launchers, NEW ws \in Paths,
             NEW q \in Policies, \E root \in DOMAIN Effective(l) : StrictlyCovers(root, ws),
             ContiguousOn(InUse(l) \cup DOMAIN q \cup {ws})
      PROVE  /\ Revalidated(Ceiling, lroots[l])
             /\ CanonicalSnapshot(ws, Snapshot(Effective(l), ws, q))
  <2>1. Revalidated(Ceiling, lroots[l])
    BY <1>1 DEF StoredWithinCeilings, Serving, Ceiling
  <2>2. Effective(l) \in Policies
    BY <1>1, EffectiveType
  <2>3. WithinAny(ws, Effective(l))
    BY <1>1, <2>2, SnapshotType
  <2>4. ContiguousOn(InUse(l))
    <3>1. InUse(l) \subseteq InUse(l) \cup DOMAIN q \cup {ws}
      OBVIOUS
    <3>2. QED
      BY <1>1, <3>1, ContiguousSubset
  <2>5. DOMAIN Effective(l) \subseteq InUse(l)
    BY <1>1, <2>4, EffectiveLookup
  <2>6. ContiguousOn(DOMAIN Effective(l) \cup (DOMAIN q \cup {ws}))
    <3>1. DOMAIN Effective(l) \cup (DOMAIN q \cup {ws}) \subseteq InUse(l) \cup DOMAIN q \cup {ws}
      BY <2>5
    <3>2. QED
      BY <1>1, <3>1, ContiguousSubset
  <2>7. QED
    BY <1>1, <2>1, <2>2, <2>3, <2>6, SnapshotCanonical
<1>2. TypeOK /\ StoredWithinCeilings => NeverRefused
  BY <1>1 DEF NeverRefused
<1>3. QED
  BY <1>2, PolicyTyped, StoredRootsValid, PTL
=============================================================================
