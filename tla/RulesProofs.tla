---------------------------- MODULE RulesProofs ----------------------------
(***************************************************************************)
(* Theorems about the rules of Bundles, for every bundles.yml, every       *)
(* FEATURES setting, every caller and every filter.                        *)
(***************************************************************************)
EXTENDS BundleRules, TLAPS, WellFoundedInduction

\* A set of positions of a list has a last one.
LEMMA Last ==
  ASSUME NEW n \in Nat, NEW S \in SUBSET (1..n), S # {}
  PROVE  \E i \in S : \A j \in S : j <= i
<1> DEFINE T == {n - i : i \in S}
<1>1. T \subseteq Nat /\ T # {}
  <2>1. \A i \in S : i \in 1..n /\ n - i \in Nat
    OBVIOUS
  <2> QED
    BY <2>1
<1>2. PICK k \in T : \A l \in T : ~(<<l, k>> \in OpToRel(<, Nat))
  BY <1>1, NatLessThanWellFounded, WFMin
<1>3. \A l \in T : k <= l
  <2> SUFFICES ASSUME NEW l \in T PROVE k <= l
    OBVIOUS
  <2>1. k \in Nat /\ l \in Nat
    BY <1>1
  <2>2. ~(l < k)
    BY <1>2, <2>1 DEF OpToRel
  <2> QED
    BY <2>1, <2>2
<1>4. PICK i \in S : k = n - i
  OBVIOUS
<1>5. ASSUME NEW j \in S PROVE j <= i
  <2>1. k <= n - j
    BY <1>3
  <2> QED
    BY <1>4, <2>1
<1> QED
  BY <1>5

\* The bundle that decides about a name has that name.
LEMMA NamedHasTheName ==
  ASSUME NEW n \in {b.name : b \in Listed(BundleInfo)}
  PROVE  Named(BundleInfo, n) \in Listed(BundleInfo) /\ Named(BundleInfo, n).name = n
<1> DEFINE S == {i \in DOMAIN BundleInfo : BundleInfo[i].name = n}
<1>1. Len(BundleInfo) \in Nat /\ DOMAIN BundleInfo = 1..Len(BundleInfo)
  BY RulesAssumption
<1>2. S \in SUBSET (1..Len(BundleInfo)) /\ S # {}
  BY <1>1 DEF Listed
<1>3. PICK i \in S : \A j \in S : j <= i
  BY <1>1, <1>2, Last
<1>4. \A j \in DOMAIN BundleInfo : j > i => BundleInfo[j].name # n
  <2> SUFFICES ASSUME NEW j \in DOMAIN BundleInfo, j > i, BundleInfo[j].name = n PROVE FALSE
    OBVIOUS
  <2>1. j \in S /\ i \in 1..Len(BundleInfo) /\ j \in 1..Len(BundleInfo)
    BY <1>1, <1>2
  <2> QED
    BY <1>3, <2>1
<1>5. \E p \in DOMAIN BundleInfo :
        /\ BundleInfo[p].name = n
        /\ \A j \in DOMAIN BundleInfo : j > p => BundleInfo[j].name # n
  BY <1>3, <1>4
<1> QED
  BY <1>5 DEF Named, Listed

----------------------------------------------------------------------------
Names == {b.name : b \in Listed(BundleInfo)}

\* The sections of two sets of features that agree on a bundle's own two.
LEMMA SameSection ==
  ASSUME NEW b, NEW known, NEW features,
         IsSkuBased(b) => (Base(b.name) \in known <=> Base(b.name) \in features),
         IsPaid(b) => (Suffixed(b.name, PaidFeatureSuffix) \in known
                         <=> Suffixed(b.name, PaidFeatureSuffix) \in features)
  PROVE  Section(b, known, PaidFeatureSuffix, id, validOrg)
           = Section(b, features, PaidFeatureSuffix, id, validOrg)
<1> DEFINE P(f) == IsSkuBased(b) => Base(b.name) \in f
           Q(f) == /\ IsSkuBased(b) /\ Base(b.name) \in f /\ IsPaid(b)
                   /\ Suffixed(b.name, PaidFeatureSuffix) \notin f
           C(f) == P(f) /\ (b.useValidAccNum => id.validAccNum) /\ (b.useValidOrgId => validOrg)
           E(f) == IF b.useIsInternal THEN id.validAccNum /\ IsInternalUser(id) ELSE C(f)
<1>1. P(known) = P(features)
  OBVIOUS
<1>2. Q(known) = Q(features)
  OBVIOUS
<1>3. C(known) = C(features)
  BY <1>1
<1>4. E(known) = E(features)
  BY <1>3
<1> HIDE DEF P, Q, C, E
<1>5. /\ Section(b, known, PaidFeatureSuffix, id, validOrg)
           = [isEntitled |-> E(known), isTrial |-> Q(known)]
      /\ Section(b, features, PaidFeatureSuffix, id, validOrg)
           = [isEntitled |-> E(features), isTrial |-> Q(features)]
  BY DEF Section, P, Q, C, E
<1> QED
  BY <1>2, <1>4, <1>5

(***************************************************************************)
(* The query asks for whatever the evaluation will look at, for any list   *)
(* of bundles, also one with several entries for a name.                   *)
(***************************************************************************)
THEOREM QueryIsEnoughAlways == Spec => []QueryIsEnough
<1>1. QueryIsEnough
  <2> DEFINE known == held \cap QueryFeatures(BundleInfo, Features, PaidFeatureSuffix)
  <2> SUFFICES ASSUME NEW n \in Features \cap DOMAIN Reply({}, {}, held)
               PROVE  Reply({}, {}, known)[n] = Reply({}, {}, held)[n]
    BY DEF QueryIsEnough
  <2> DEFINE b == Named(BundleInfo, n)
  <2>1. n \in Names /\ n \in DOMAIN Reply({}, {}, known)
    BY DEF Reply, Entitlements, Selected, Names
  <2>2. b \in Listed(BundleInfo) /\ b.name = n /\ n \in Features
    BY <2>1, NamedHasTheName DEF Names
  <2>3. IsSkuBased(b) =>
          FeaturesOf(b, PaidFeatureSuffix)
            \subseteq QueryFeatures(BundleInfo, Features, PaidFeatureSuffix)
    BY <2>2 DEF QueryFeatures
  <2>4. /\ Base(b.name) \in FeaturesOf(b, PaidFeatureSuffix)
        /\ IsPaid(b) => /\ IsSkuBased(b)
                        /\ Suffixed(b.name, PaidFeatureSuffix) \in FeaturesOf(b, PaidFeatureSuffix)
    BY DEF FeaturesOf, IsSkuBased
  <2>5. Section(b, known, PaidFeatureSuffix, id, validOrg)
          = Section(b, held, PaidFeatureSuffix, id, validOrg)
    BY <2>3, <2>4, SameSection
  <2> QED
    BY <2>1, <2>5 DEF Reply, Entitlements, Selected, Names
<1> QED
  BY <1>1, PTL

\* A filter only selects, and an include filter makes the exclude filter void.
THEOREM FiltersOnlySelectAlways == Spec => []FiltersOnlySelect
<1>1. FiltersOnlySelect
  <2> SUFFICES ASSUME include # {}
               PROVE  /\ DOMAIN Reply(include, {}, held) \cup DOMAIN Reply({}, include, held)
                           = DOMAIN Reply({}, {}, held)
                      /\ DOMAIN Reply(include, {}, held) \cap DOMAIN Reply({}, include, held) = {}
                      /\ \A n \in DOMAIN Reply(include, {}, held) :
                           Reply(include, {}, held)[n] = Reply({}, {}, held)[n]
                      /\ \A n \in DOMAIN Reply({}, include, held) :
                           Reply({}, include, held)[n] = Reply({}, {}, held)[n]
                      /\ Reply(include, exclude, held) = Reply(include, {}, held)
    BY DEF FiltersOnlySelect
  <2>1. /\ DOMAIN Reply(include, {}, held) = Names \cap include
        /\ DOMAIN Reply({}, include, held) = Names \ include
        /\ DOMAIN Reply({}, {}, held) = Names
    BY DEF Reply, Entitlements, Selected, Names
  <2>2. \A n \in Names \cap include : Reply(include, {}, held)[n] = Reply({}, {}, held)[n]
    BY <2>1 DEF Reply, Entitlements, Selected, Names
  <2>3. \A n \in Names \ include : Reply({}, include, held)[n] = Reply({}, {}, held)[n]
    BY <2>1 DEF Reply, Entitlements, Selected, Names
  <2>4. Selected(BundleInfo, include, exclude) = Selected(BundleInfo, include, {})
    BY DEF Selected
  <2>5. Reply(include, exclude, held) = Reply(include, {}, held)
    BY <2>4 DEF Reply, Entitlements
  <2> QED
    BY <2>1, <2>2, <2>3, <2>5
<1> QED
  BY <1>1, PTL

(***************************************************************************)
(* An organisation that gets one more feature loses no bundle by it, and   *)
(* none it is told it has paid for turns into a trial.                     *)
(***************************************************************************)
THEOREM MoreFeaturesNeverHurtAlways == Spec => MoreFeaturesNeverHurt
<1>1. ASSUME NEW b, NEW features, NEW more, features \subseteq more,
             ~(b.useIsInternal /\ IsPaid(b)),
             Section(b, features, PaidFeatureSuffix, id, validOrg).isEntitled
      PROVE  /\ Section(b, more, PaidFeatureSuffix, id, validOrg).isEntitled
             /\ Section(b, more, PaidFeatureSuffix, id, validOrg).isTrial =>
                  Section(b, features, PaidFeatureSuffix, id, validOrg).isTrial
  BY <1>1 DEF Section
<1>2. [held \subseteq held' /\ UNCHANGED <<id, validOrg>> =>
         \A n \in DOMAIN Reply({}, {}, held) :
           LET bundle == Named(BundleInfo, n)
               before == Reply({}, {}, held)[n]
               after  == Reply({}, {}, held')[n]
           IN  before.isEntitled /\ ~(bundle.useIsInternal /\ IsPaid(bundle)) =>
                 after.isEntitled /\ (after.isTrial => before.isTrial)]_vars
  <2> SUFFICES ASSUME held \subseteq held', UNCHANGED <<id, validOrg>>,
                      NEW n \in DOMAIN Reply({}, {}, held),
                      Reply({}, {}, held)[n].isEntitled,
                      ~(Named(BundleInfo, n).useIsInternal /\ IsPaid(Named(BundleInfo, n)))
               PROVE  /\ Reply({}, {}, held')[n].isEntitled
                      /\ Reply({}, {}, held')[n].isTrial => Reply({}, {}, held)[n].isTrial
    OBVIOUS
  <2>1. n \in DOMAIN Reply({}, {}, held')
    BY DEF Reply, Entitlements, Selected, Names
  <2> QED
    BY <1>1, <2>1 DEF Reply, Entitlements, Selected, Names
<1> QED
  BY <1>2, PTL DEF MoreFeaturesNeverHurt
=============================================================================
