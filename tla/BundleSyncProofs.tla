-------------------------- MODULE BundleSyncProofs --------------------------
(***************************************************************************)
(* Theorems about bundle-sync, for every bundles.yml and every sequence of *)
(* its versions, every FEATURES setting, every number of pods, and         *)
(* whatever the Feature Service starts with.                               *)
(***************************************************************************)
EXTENDS SyncRefinement, FiniteSetTheorems, WellFoundedInduction, TLAPS

----------------------------------------------------------------------------
\* SKU lists.

\* The SKUs of a list, sorted or made unique, are those of the list.
LEMMA ListDomain ==
  ASSUME NEW s
  PROVE  DOMAIN SortedList(s) = ToSet(s) /\ DOMAIN UniqueSkus(s) = ToSet(s)
  BY DEF SortedList, UniqueSkus, SetToBag

LEMMA ListsAreLists ==
  ASSUME NEW s \in Seq(Sku)
  PROVE  IsSkuList(SortedList(s)) /\ IsSkuList(UniqueSkus(s))
<1> DEFINE At(k) == {i \in DOMAIN s : s[i] = k}
<1>1. Len(s) \in Nat /\ DOMAIN s = 1..Len(s) /\ IsFiniteSet(1..Len(s))
  BY FS_Interval
<1>2. ASSUME NEW k \in ToSet(s) PROVE Cardinality(At(k)) \in {n \in Nat : n > 0}
  <2>1. At(k) \in SUBSET (1..Len(s)) /\ At(k) # {}
    BY <1>1, <1>2 DEF ToSet
  <2>2. IsFiniteSet(At(k))
    BY <1>1, <2>1, FS_Subset
  <2>3. Cardinality(At(k)) \in Nat /\ Cardinality(At(k)) # 0
    BY <2>1, <2>2, FS_CardinalityType, FS_EmptySet
  <2> QED
    BY <2>3
<1>3. ToSet(s) \subseteq Sku
  BY <1>1 DEF ToSet
<1>4. SortedList(s) \in [ToSet(s) -> {n \in Nat : n > 0}]
  BY <1>2 DEF SortedList
<1>5. UniqueSkus(s) \in [ToSet(s) -> {n \in Nat : n > 0}]
  BY DEF UniqueSkus, SetToBag
<1> QED
  BY <1>3, <1>4, <1>5 DEF IsSkuList, IsABag, BagToSet

LEMMA EmptyIsAList == IsSkuList(EmptyBag) /\ BagToSet(EmptyBag) = {}
  BY DEF IsSkuList, IsABag, BagToSet, EmptyBag, SetToBag

\* A set of positions of a list has a last one.
LEMMA LastPlace ==
  ASSUME NEW n \in Nat, NEW S \in SUBSET (1..n), S # {}
  PROVE  \E i \in S : \A j \in S : j <= i
<1> DEFINE T == {n - i : i \in S}
<1>1. T \subseteq Nat /\ T # {}
  <2>1. \A i \in S : i \in 1..n /\ n - i \in Nat
    OBVIOUS
  <2> QED
    BY <2>1
<1>2. PICK k \in T : \A l \in T : ~(<<l, k>> \in OpToRel(<, Nat))
  BY <1>1, NatLessThanWellFounded, WFMin
<1>3. \A l \in T : k <= l
  <2> SUFFICES ASSUME NEW l \in T PROVE k <= l
    OBVIOUS
  <2>1. k \in Nat /\ l \in Nat
    BY <1>1
  <2>2. ~(l < k)
    BY <1>2, <2>1 DEF OpToRel
  <2> QED
    BY <2>1, <2>2
<1>4. PICK i \in S : k = n - i
  OBVIOUS
<1>5. ASSUME NEW j \in S PROVE j <= i
  <2>1. k <= n - j
    BY <1>3
  <2> QED
    BY <1>4, <2>1
<1> QED
  BY <1>5

\* The bundle that decides about a feature is one that defines it.
LEMMA LatestDefines ==
  ASSUME NEW info \in Seq(Bundle(STRING, Sku)), NEW f \in Defined(info)
  PROVE  Latest(info, f) \in DOMAIN info /\ Defines(info[Latest(info, f)], f)
<1> DEFINE S == {i \in DOMAIN info : Defines(info[i], f)}
<1>1. Len(info) \in Nat /\ DOMAIN info = 1..Len(info)
  OBVIOUS
<1>2. S \in SUBSET (1..Len(info)) /\ S # {}
  BY <1>1 DEF Defined, Defines, Listed
<1>3. PICK i \in S : \A j \in S : j <= i
  BY <1>1, <1>2, LastPlace
<1>4. \A j \in DOMAIN info : j > i => ~Defines(info[j], f)
  <2> SUFFICES ASSUME NEW j \in DOMAIN info, j > i, Defines(info[j], f) PROVE FALSE
    OBVIOUS
  <2>1. j \in S /\ i \in 1..Len(info) /\ j \in 1..Len(info)
    BY <1>1, <1>2
  <2> QED
    BY <1>3, <2>1
<1>5. \E p \in DOMAIN info :
        Defines(info[p], f) /\ \A j \in DOMAIN info : j > p => ~Defines(info[j], f)
  BY <1>3, <1>4
<1> QED
  BY <1>5 DEF Latest

LEMMA WantedIsAList ==
  ASSUME NEW info \in Seq(Bundle(STRING, Sku)), NEW f
  PROVE  IsSkuList(Wanted(info, f))
<1>1. CASE f \notin Defined(info)
  BY <1>1, EmptyIsAList DEF Wanted
<1>2. CASE f \in Defined(info)
  <2> DEFINE b == info[Latest(info, f)]
  <2>1. b \in Bundle(STRING, Sku)
    BY <1>2, LatestDefines
  <2>2. b.skus \in Seq(Sku) /\ b.evalSkus \in Seq(Sku) /\ b.paidSkus \in Seq(Sku)
    BY <2>1 DEF Bundle
  <2>3. b.evalSkus \o b.paidSkus \in Seq(Sku)
    BY <2>2
  <2>4. IsSkuList(SkusFor(b, f))
    BY <2>2, <2>3, ListsAreLists DEF SkusFor
  <2> QED
    BY <1>2, <2>4 DEF Wanted, BundlesConfig
<1> QED
  BY <1>1, <1>2

(***************************************************************************)
(* The features of a bundle that is named once want the SKUs it lists.     *)
(***************************************************************************)
LEMMA WantedOfBundle ==
  ASSUME NEW info \in Seq(Bundle(STRING, Sku)), NEW b \in Listed(info), IsNamedOnce(b, info),
         NEW f \in FeaturesOf(b, PaidFeatureSuffix)
  PROVE  Wanted(info, f) = SkusFor(b, f)
<1>1. f \in Defined(info)
  BY DEF Defined
<1> DEFINE c == info[Latest(info, f)]
<1>2. c \in Listed(info) /\ Defines(c, f)
  BY <1>1, LatestDefines DEF Listed
<1>3. c.name = b.name
  BY <1>2 DEF Defines, FeaturesOf, Base, Suffixed
<1>4. c = b
  BY <1>2, <1>3 DEF IsNamedOnce
<1> QED
  BY <1>1, <1>4 DEF Wanted, BundlesConfig

LEMMA ConcatenatedSets ==
  ASSUME NEW d \in Seq(Sku), NEW e \in Seq(Sku)
  PROVE  ToSet(d \o e) = ToSet(d) \cup ToSet(e)
<1>1. /\ Len(d) \in Nat /\ DOMAIN d = 1..Len(d)
      /\ Len(e) \in Nat /\ DOMAIN e = 1..Len(e)
  OBVIOUS
<1>2. /\ DOMAIN (d \o e) = 1..(Len(d) + Len(e))
      /\ \A i \in 1..(Len(d) + Len(e)) :
           (d \o e)[i] = IF i <= Len(d) THEN d[i] ELSE e[i - Len(d)]
  OBVIOUS
<1>3. ToSet(d \o e) \subseteq ToSet(d) \cup ToSet(e)
  <2> SUFFICES ASSUME NEW i \in 1..(Len(d) + Len(e))
               PROVE  (d \o e)[i] \in ToSet(d) \cup ToSet(e)
    BY <1>2 DEF ToSet
  <2>1. CASE i <= Len(d)
    BY <1>1, <1>2, <2>1 DEF ToSet
  <2>2. CASE ~(i <= Len(d))
    <3>1. i - Len(d) \in 1..Len(e)
      BY <1>1, <2>2
    <3> QED
      BY <1>1, <1>2, <2>2, <3>1 DEF ToSet
  <2> QED
    BY <2>1, <2>2
<1>4. ToSet(d) \subseteq ToSet(d \o e)
  <2> SUFFICES ASSUME NEW i \in 1..Len(d) PROVE d[i] \in ToSet(d \o e)
    BY <1>1 DEF ToSet
  <2>1. i \in 1..(Len(d) + Len(e)) /\ (d \o e)[i] = d[i]
    BY <1>1, <1>2
  <2> QED
    BY <1>2, <2>1 DEF ToSet
<1>5. ToSet(e) \subseteq ToSet(d \o e)
  <2> SUFFICES ASSUME NEW i \in 1..Len(e) PROVE e[i] \in ToSet(d \o e)
    BY <1>1 DEF ToSet
  <2>1. Len(d) + i \in 1..(Len(d) + Len(e)) /\ ~(Len(d) + i <= Len(d)) /\ Len(d) + i - Len(d) = i
    BY <1>1
  <2>2. (d \o e)[Len(d) + i] = e[i]
    BY <1>2, <2>1
  <2> QED
    BY <1>2, <2>1, <2>2 DEF ToSet
<1> QED
  BY <1>3, <1>4, <1>5

LEMMA SkusOfBundle ==
  ASSUME NEW b \in Bundle(STRING, Sku)
  PROVE  /\ ~IsPaid(b) => BagToSet(SkusFor(b, Base(b.name))) = ToSet(b.skus)
         /\ IsPaid(b) => /\ BagToSet(SkusFor(b, Base(b.name)))
                              = ToSet(b.evalSkus) \cup ToSet(b.paidSkus)
                         /\ BagToSet(SkusFor(b, Suffixed(b.name, PaidFeatureSuffix)))
                              = ToSet(b.paidSkus)
<1>1. b.evalSkus \in Seq(Sku) /\ b.paidSkus \in Seq(Sku)
  BY DEF Bundle
<1>2. ToSet(b.evalSkus \o b.paidSkus) = ToSet(b.evalSkus) \cup ToSet(b.paidSkus)
  BY <1>1, ConcatenatedSets
<1>3. Base(b.name) # Suffixed(b.name, PaidFeatureSuffix)
  BY SyncAssumption DEF Base, Suffixed
<1> QED
  BY <1>2, <1>3, ListDomain DEF SkusFor, BagToSet
----------------------------------------------------------------------------
\* Places.

LEMMA PlacesAre ==
  /\ Len(Features) \in Nat /\ Len(Features) >= 1 /\ DOMAIN Features = 1..Len(Features)
  /\ Places \subseteq Nat
  /\ \A info : 1 \in Endpoints(info) /\ Endpoints(info) \subseteq Places
<1>1. Len(Features) \in Nat /\ DOMAIN Features = 1..Len(Features) /\ Len(Features) # 0
  BY SyncAssumption
<1>2. 1 \in Places /\ 1 <= Len(Features) /\ Places \subseteq Nat
  BY <1>1 DEF Places
<1> QED
  BY <1>1, <1>2 DEF Endpoints

LEMMA ConfigsAre ==
  ASSUME NEW n \in DOMAIN Configs
  PROVE  Configs[n] \in Seq(Bundle(STRING, Sku)) /\ n \in Nat /\ 1..n \subseteq DOMAIN Configs
<1>1. Configs \in Seq(Seq(Bundle(STRING, Sku)))
  BY SyncAssumption
<1>2. Len(Configs) \in Nat /\ DOMAIN Configs = 1..Len(Configs)
  BY <1>1
<1> QED
  BY <1>1, <1>2

----------------------------------------------------------------------------
\* Types and places.

TypedInv == TypeOK /\ PlaceInv

LEMMA InitTyped == Init => TypedInv
<1> SUFFICES ASSUME Init PROVE TypedInv
  OBVIOUS
<1>1. 1 \in DOMAIN Configs
  BY SyncAssumption
<1>2. \A p \in Pods : index[p] = 1 /\ 1 \in Endpoints(Config(p)) /\ 1 \in Places
  BY PlacesAre DEF Init
<1>3. IsRuleSet(rules)
  BY RegisteredAssumption DEF Init
<1>4. \A p \in Pods : IsSkuList(current[p])
  BY EmptyIsAList DEF Init
<1>5. PlaceInv
  BY DEF Init, PlaceInv, IsActive
<1> QED
  BY <1>1, <1>2, <1>3, <1>4, <1>5 DEF Init, TypedInv, TypeOK

\* A container that fails.
LEMMA FailTyped ==
  ASSUME TypedInv, NEW p \in Pods, Fail(p)
  PROVE  TypedInv'
<1> USE DEF TypedInv
<1>1. UNCHANGED <<deployed, rules, loaded>>
  BY DEF Fail
<1>2. pc' = [pc EXCEPT ![p] = "failed"]
  BY DEF Fail, Goto
<1>3. index' = [index EXCEPT ![p] = 1] /\ current' = [current EXCEPT ![p] = EmptyBag]
  BY DEF Fail
<1>4. 1 \in Places /\ 1 \in Endpoints(Config(p))
  BY PlacesAre
<1>5. \A q \in Pods : index'[q] \in Endpoints(Config(q))
  BY <1>3, <1>4 DEF TypeOK
<1>6. \A q \in Pods : IsSkuList(current'[q])
  BY <1>3, EmptyIsAList DEF TypeOK
<1>7. TypeOK'
  BY <1>1, <1>2, <1>3, <1>4, <1>5, <1>6 DEF TypeOK, Config
<1>8. PlaceInv'
  BY <1>2, <1>3 DEF PlaceInv, IsActive, TypeOK
<1> QED
  BY <1>7, <1>8

\* A container that goes on to the next feature.
LEMMA NextEndpointTyped ==
  ASSUME TypedInv, NEW p \in Pods, IsActive(p), NextEndpoint(p), UNCHANGED <<deployed, loaded>>,
         IsRuleSet(rules)'
  PROVE  TypedInv'
<1> USE DEF TypedInv
<1>1. current' = [current EXCEPT ![p] = EmptyBag]
  BY DEF NextEndpoint
<1>2. \A q \in Pods : IsSkuList(current'[q])
  BY <1>1, EmptyIsAList DEF TypeOK
<1>3. CASE pc' = [pc EXCEPT ![p] = "done"] /\ index' = [index EXCEPT ![p] = 1]
  <2>1. 1 \in Places /\ 1 \in Endpoints(Config(p))
    BY PlacesAre
  <2>2. \A q \in Pods : index'[q] \in Endpoints(Config(q))
    BY <1>3, <2>1 DEF TypeOK
  <2>3. TypeOK'
    BY <1>1, <1>2, <1>3, <2>1, <2>2 DEF TypeOK, Config
  <2>4. PlaceInv'
    BY <1>3 DEF PlaceInv, IsActive, TypeOK
  <2> QED
    BY <2>3, <2>4
<1>4. CASE /\ pc' = [pc EXCEPT ![p] = "get"]
           /\ \E i \in Later(p) : index' = [index EXCEPT ![p] = i]
  <2>1. PICK i \in Later(p) : index' = [index EXCEPT ![p] = i]
    BY <1>4
  <2>2. i \in Places /\ i \in Endpoints(Config(p))
    BY PlacesAre DEF Later
  <2>3. \A q \in Pods : index'[q] \in Endpoints(Config(q))
    BY <2>1, <2>2 DEF TypeOK
  <2>4. TypeOK'
    BY <1>1, <1>2, <1>4, <2>1, <2>2, <2>3 DEF TypeOK, Config
  <2>5. p \in SyncPods
    BY DEF PlaceInv
  <2>6. PlaceInv'
    BY <1>4, <2>1, <2>5 DEF PlaceInv, IsActive, TypeOK
  <2> QED
    BY <2>4, <2>6
<1> QED
  BY <1>3, <1>4 DEF NextEndpoint, Goto

\* Answers and updates are lists.
LEMMA UpsertTyped ==
  ASSUME TypedInv, NEW p \in Pods, Upsert(Endpoint(p), Wanted(Config(p), Endpoint(p)))
  PROVE  IsRuleSet(rules)'
<1>1. index[p] \in Places /\ loaded[p] \in DOMAIN Configs
  BY ConfigsAre DEF TypedInv, TypeOK
<1>2. IsSkuList(Wanted(Config(p), Endpoint(p)))
  BY <1>1, ConfigsAre, WantedIsAList DEF Config
<1> DEFINE f == Endpoint(p)
           w == Wanted(Config(p), Endpoint(p))
<1>3. rules' = [g \in DOMAIN rules \cup {f} |-> IF g = f THEN w ELSE rules[g]]
  BY DEF Upsert
<1>4. f \in {FeatureAt(i) : i \in Places}
  BY <1>1 DEF Endpoint
<1> HIDE DEF f, w
<1>5. DOMAIN rules' = DOMAIN rules \cup {f} /\ \A g \in DOMAIN rules' : rules'[g] = IF g = f THEN w ELSE rules[g]
  BY <1>3
<1>6. IsSkuList(w)
  BY <1>2 DEF w
<1>7. IsRuleSet(rules)
  BY DEF TypedInv, TypeOK
<1> QED
  BY <1>4, <1>5, <1>6, <1>7 DEF IsRuleSet

LEMMA ReadTyped ==
  ASSUME TypedInv, NEW p \in Pods, pc[p] = "get", GetCurrent(p) \/ GetErrorBody(p)
  PROVE  TypedInv'
<1> USE DEF TypedInv
<1>1. PICK list : /\ IsSkuList(list) /\ current' = [current EXCEPT ![p] = list]
                  /\ pc' = [pc EXCEPT ![p] = "compare"]
                  /\ UNCHANGED <<deployed, rules, loaded, index>>
  <2>1. CASE GetErrorBody(p)
    BY <2>1, EmptyIsAList DEF GetErrorBody, Goto
  <2>2. CASE GetCurrent(p) /\ Endpoint(p) \in DOMAIN rules
    BY <2>2 DEF GetCurrent, Goto, TypeOK, IsRuleSet
  <2>3. CASE GetCurrent(p) /\ Endpoint(p) \notin DOMAIN rules
    BY <2>3, EmptyIsAList DEF GetCurrent, Goto
  <2> QED
    BY <2>1, <2>2, <2>3
<1>2. \A q \in Pods : IsSkuList(current'[q])
  BY <1>1 DEF TypeOK
<1>3. TypeOK'
  BY <1>1, <1>2 DEF TypeOK, Config
<1>4. PlaceInv'
  BY <1>1 DEF PlaceInv, IsActive, TypeOK
<1> QED
  BY <1>3, <1>4

LEMMA NextTyped == TypedInv /\ [Next]_vars => TypedInv'
<1> SUFFICES ASSUME TypedInv, [Next]_vars PROVE TypedInv'
  OBVIOUS
<1> USE DEF TypedInv
<1>0. CASE UNCHANGED vars
  BY <1>0 DEF vars, TypeOK, PlaceInv, IsActive, Config
<1>1. CASE Deploy
  <2>1. deployed \in DOMAIN Configs /\ DOMAIN Configs = 1..Len(Configs) /\ Len(Configs) \in Nat
    BY SyncAssumption DEF TypeOK
  <2>2. deployed' = deployed + 1 /\ deployed' \in DOMAIN Configs /\ 1..deployed \subseteq 1..deployed'
    BY <1>1, <2>1 DEF Deploy
  <2>3. UNCHANGED <<rules, pc, loaded, index, current>>
    BY <1>1 DEF Deploy
  <2>4. loaded' \in [Pods -> 1..deployed']
    BY <2>2, <2>3 DEF TypeOK
  <2>5. TypeOK'
    BY <2>2, <2>3, <2>4 DEF TypeOK, Config
  <2>6. PlaceInv'
    BY <2>3 DEF PlaceInv, IsActive
  <2> QED
    BY <2>5, <2>6
<1>2. ASSUME NEW p \in Pods, LoadFails(p) \/ GetFails(p) \/ PostFails(p) PROVE TypedInv'
  BY <1>2, FailTyped DEF LoadFails, GetFails, PostFails
<1>3. ASSUME NEW p \in Pods, Skip(p) PROVE TypedInv'
  <2>1. UNCHANGED <<deployed, rules, loaded, index, current>> /\ pc' = [pc EXCEPT ![p] = "done"]
        /\ pc[p] = "start"
    BY <1>3 DEF Skip, Goto
  <2>2. TypeOK'
    BY <2>1 DEF TypeOK, Config
  <2>3. PlaceInv'
    BY <2>1 DEF PlaceInv, IsActive, TypeOK
  <2> QED
    BY <2>2, <2>3
<1>4. ASSUME NEW p \in Pods, Start(p) PROVE TypedInv'
  <2>1. /\ UNCHANGED <<deployed, rules, index, current>> /\ pc' = [pc EXCEPT ![p] = "get"]
        /\ pc[p] = "start" /\ loaded' = [loaded EXCEPT ![p] = deployed] /\ p \in SyncPods
    BY <1>4 DEF Start, Goto
  <2>2. deployed \in Nat /\ deployed \in 1..deployed
    BY ConfigsAre, SyncAssumption DEF TypeOK
  <2>3. loaded' \in [Pods -> 1..deployed]
    BY <2>1, <2>2 DEF TypeOK
  <2>4. \A q \in Pods : index[q] \in Endpoints(Configs[loaded'[q]])
    <3> SUFFICES ASSUME NEW q \in Pods PROVE index[q] \in Endpoints(Configs[loaded'[q]])
      OBVIOUS
    <3>1. CASE q = p
      BY <2>1, <3>1, PlacesAre DEF PlaceInv, IsActive
    <3>2. CASE q # p
      BY <2>1, <3>2 DEF TypeOK, Config
    <3> QED
      BY <3>1, <3>2
  <2>5. TypeOK'
    BY <2>1, <2>3, <2>4 DEF TypeOK, Config
  <2>6. PlaceInv'
    BY <2>1 DEF PlaceInv, IsActive, TypeOK
  <2> QED
    BY <2>5, <2>6
<1>5. ASSUME NEW p \in Pods, GetCurrent(p) \/ GetErrorBody(p) PROVE TypedInv'
  BY <1>5, ReadTyped DEF GetCurrent, GetErrorBody
<1>6. ASSUME NEW p \in Pods, NoUpdates(p) \/ PostDryRun(p) PROVE TypedInv'
  <2>1. IsRuleSet(rules)'
    BY <1>6 DEF NoUpdates, PostDryRun, TypeOK
  <2> QED
    BY <1>6, <2>1, NextEndpointTyped DEF NoUpdates, PostDryRun, IsActive
<1>7. ASSUME NEW p \in Pods, Differs(p) PROVE TypedInv'
  <2>1. UNCHANGED <<deployed, rules, loaded, index, current>> /\ pc' = [pc EXCEPT ![p] = "post"]
        /\ pc[p] = "compare"
    BY <1>7 DEF Differs, Goto
  <2>2. TypeOK'
    BY <2>1 DEF TypeOK, Config
  <2>3. PlaceInv'
    BY <2>1 DEF PlaceInv, IsActive, TypeOK
  <2> QED
    BY <2>2, <2>3
<1>8. ASSUME NEW p \in Pods, PostUpdate(p) PROVE TypedInv'
  <2>1. IsRuleSet(rules)'
    BY <1>8, UpsertTyped DEF PostUpdate
  <2> QED
    BY <1>8, <2>1, NextEndpointTyped DEF PostUpdate, IsActive
<1>9. ASSUME NEW p \in Pods, PostAnswerLost(p) PROVE TypedInv'
  <2>1. IsRuleSet(rules)'
    BY <1>9, UpsertTyped DEF PostAnswerLost
  <2>2. UNCHANGED <<deployed, loaded>> /\ pc' = [pc EXCEPT ![p] = "failed"]
        /\ index' = [index EXCEPT ![p] = 1] /\ current' = [current EXCEPT ![p] = EmptyBag]
    BY <1>9 DEF PostAnswerLost, Goto
  <2>3. 1 \in Places /\ 1 \in Endpoints(Config(p))
    BY PlacesAre
  <2>4. \A q \in Pods : index'[q] \in Endpoints(Config(q))
    BY <2>2, <2>3 DEF TypeOK
  <2>5. \A q \in Pods : IsSkuList(current'[q])
    BY <2>2, EmptyIsAList DEF TypeOK
  <2>6. TypeOK'
    BY <2>1, <2>2, <2>3, <2>4, <2>5 DEF TypeOK, Config
  <2>7. PlaceInv'
    BY <2>2 DEF PlaceInv, IsActive, TypeOK
  <2> QED
    BY <2>6, <2>7
<1>10. ASSUME NEW p \in Pods, Restart(p) \/ Replace(p) PROVE TypedInv'
  <2>1. UNCHANGED <<deployed, rules, loaded, index, current>> /\ pc' = [pc EXCEPT ![p] = "start"]
        /\ pc[p] \in {"failed", "done"}
    BY <1>10 DEF Restart, Replace, Goto
  <2>2. TypeOK'
    BY <2>1 DEF TypeOK, Config
  <2>3. PlaceInv'
    BY <2>1 DEF PlaceInv, IsActive, TypeOK
  <2> QED
    BY <2>2, <2>3
<1> QED
  BY <1>0, <1>1, <1>2, <1>3, <1>4, <1>5, <1>6, <1>7, <1>8, <1>9, <1>10
  DEF Next, Proceed, Get, Post

(***************************************************************************)
(* Whatever fails and restarts, a container never loses its place in a     *)
(* list of features that it has read from another version of bundles.yml.  *)
(***************************************************************************)
THEOREM SyncTypeCorrect == Spec => []TypeOK
<1>1. TypedInv => TypeOK
  BY DEF TypedInv
<1> QED
  BY <1>1, InitTyped, NextTyped, PTL DEF Spec
----------------------------------------------------------------------------
\* What has been checked.

\* An update leaves a feature in sync that wants the same of both bundles.yml.
LEMMA UpsertSyncs ==
  ASSUME NEW info, NEW f, NEW g, Upsert(f, Wanted(info, f)), g = f \/ IsSynced(g, info)
  PROVE  IsSynced(g, info)'
  BY DEF Upsert, IsSynced

\* A container that is not at work, or just begins, has checked nothing.
LEMMA UncheckedAtFirst ==
  ASSUME TypedInv', NEW p \in Pods, index'[p] = 1, pc'[p] \in {"start", "failed", "get"},
         NEW i \in Places
  PROVE  ~Checked(p, i)'
<1>1. i \in Nat /\ ~(i < 1)
  BY PlacesAre DEF Places
<1> QED
  BY <1>1 DEF Checked, Passed, IsActive

\* What the step of one container does to what it, and the others, have checked.
OthersStay(p) ==
  \A q \in Pods \ {p} : /\ loaded'[q] = loaded[q]
                       /\ \A i \in Places : Checked(q, i)' <=> Checked(q, i)

ChecksInTurn(p) ==
  p \in Syncing => \A i \in Endpoints(Config(p)) :
    Checked(p, i)' =>
      \/ Checked(p, i)
      \/ Wants(Config(p), i) => IsSynced(FeatureAt(i), Config(p))'

ChecksNothing(p) == \A i \in Places : ~Checked(p, i)'

UpdatesAsWanted(p) ==
  \/ rules' = rules
  \/ p \in Syncing /\ IsActive(p) /\ Upsert(Endpoint(p), Wanted(Config(p), Endpoint(p)))

LEMMA OthersStayThen ==
  ASSUME TypedInv, NEW p \in Pods,
         \A q \in Pods \ {p} : /\ pc'[q] = pc[q] /\ index'[q] = index[q]
                              /\ current'[q] = current[q] /\ loaded'[q] = loaded[q]
  PROVE  OthersStay(p)
  BY DEF OthersStay, Checked, Passed, IsActive, Config

\* Going on to the next feature adds the one it was at.
LEMMA NextEndpointChecks ==
  ASSUME TypedInv, NEW p \in Pods, IsActive(p), NextEndpoint(p), loaded' = loaded,
         NEW i \in Endpoints(Config(p)), Checked(p, i)'
  PROVE  i = index[p] \/ Passed(p, i)
<1>1. /\ i \in Nat /\ index[p] \in Nat /\ p \in DOMAIN pc /\ p \in DOMAIN index
  BY PlacesAre DEF TypedInv, TypeOK
<1>2. CASE i > index[p]
  <2>1. i \in Later(p)
    BY <1>2 DEF Later
  <2>2. /\ pc'[p] = "get"
        /\ \E j \in Later(p) : (\A k \in Later(p) : j <= k) /\ index'[p] = j
    BY <1>1, <2>1 DEF NextEndpoint, Goto
  <2>3. index'[p] <= i /\ index'[p] \in Nat
    BY <2>1, <2>2, PlacesAre DEF Later
  <2> QED
    BY <1>1, <2>2, <2>3 DEF Checked, Passed, IsActive
<1>3. CASE i < index[p]
  BY <1>3 DEF Passed
<1> QED
  BY <1>1, <1>2, <1>3

LEMMA CheckedStep ==
  ASSUME TypedInv, TypedInv', NEW p \in Pods, Proceed(p) \/ Replace(p)
  PROVE  /\ deployed' = deployed
         /\ OthersStay(p)
         /\ UpdatesAsWanted(p)
         /\ ChecksInTurn(p) \/ ChecksNothing(p)
         /\ loaded'[p] = loaded[p] \/ (ChecksNothing(p) /\ rules' = rules)
         /\ loaded'[p] \in {loaded[p], deployed}
<1> USE DEF TypedInv
<1>t. /\ p \in DOMAIN pc /\ p \in DOMAIN index /\ p \in DOMAIN current /\ p \in DOMAIN loaded
      /\ index[p] \in Nat
  BY PlacesAre DEF TypeOK
<1>1. ASSUME Fail(p) \/ Restart(p) \/ Replace(p)
      PROVE  /\ deployed' = deployed /\ rules' = rules /\ loaded' = loaded
             /\ OthersStay(p) /\ ChecksNothing(p)
  <2>1. /\ deployed' = deployed /\ rules' = rules /\ loaded' = loaded
        /\ pc'[p] \in {"start", "failed"}
        /\ \A q \in Pods \ {p} : /\ pc'[q] = pc[q] /\ index'[q] = index[q]
                                 /\ current'[q] = current[q] /\ loaded'[q] = loaded[q]
    BY <1>1, <1>t DEF Fail, Restart, Replace, Goto, TypeOK
  <2>2. index'[p] = 1
    BY <2>1 DEF PlaceInv, IsActive
  <2> QED
    BY <2>1, <2>2, OthersStayThen, UncheckedAtFirst DEF ChecksNothing
<1>2. CASE Skip(p)
  <2>1. /\ deployed' = deployed /\ rules' = rules /\ loaded' = loaded
        /\ \A q \in Pods \ {p} : /\ pc'[q] = pc[q] /\ index'[q] = index[q]
                                 /\ current'[q] = current[q] /\ loaded'[q] = loaded[q]
        /\ p \notin Syncing
    BY <1>2 DEF Skip, Goto, Syncing, TypeOK
  <2> QED
    BY <2>1, OthersStayThen DEF UpdatesAsWanted, ChecksInTurn
<1>3. CASE Start(p)
  <2>1. /\ deployed' = deployed /\ rules' = rules /\ loaded'[p] = deployed
        /\ pc[p] = "start" /\ pc'[p] = "get" /\ index' = index
        /\ \A q \in Pods \ {p} : /\ pc'[q] = pc[q] /\ index'[q] = index[q]
                                 /\ current'[q] = current[q] /\ loaded'[q] = loaded[q]
    BY <1>3, <1>t DEF Start, Goto, TypeOK
  <2>2. index'[p] = 1
    BY <2>1 DEF PlaceInv, IsActive
  <2> QED
    BY <2>1, <2>2, OthersStayThen, UncheckedAtFirst DEF ChecksNothing, UpdatesAsWanted
<1>4. CASE GetCurrent(p) \/ GetErrorBody(p)
  <2>1. /\ deployed' = deployed /\ rules' = rules /\ loaded' = loaded
        /\ pc[p] = "get" /\ pc'[p] = "compare" /\ index' = index
        /\ \A q \in Pods \ {p} : /\ pc'[q] = pc[q] /\ index'[q] = index[q]
                                 /\ current'[q] = current[q] /\ loaded'[q] = loaded[q]
    BY <1>4, <1>t DEF GetCurrent, GetErrorBody, Goto, TypeOK
  <2>2. \/ current'[p] = EmptyBag
        \/ Endpoint(p) \in DOMAIN rules /\ current'[p] = rules[Endpoint(p)]
    BY <1>4, <1>t DEF GetCurrent, GetErrorBody
  <2>3. ASSUME NEW i \in Endpoints(Config(p)), Checked(p, i)', ~Checked(p, i),
               Wants(Config(p), i)
        PROVE  IsSynced(FeatureAt(i), Config(p))'
    <3>1. index[p] = i /\ current'[p] = Wanted(Config(p), FeatureAt(i))
      BY <2>1, <2>3 DEF Checked, Passed, IsActive, Config
    <3>2. current'[p] # EmptyBag
      BY <2>3, <3>1, EmptyIsAList DEF Wants
    <3> QED
      BY <2>1, <2>2, <3>1, <3>2 DEF IsSynced, Endpoint, Config
  <2> QED
    BY <2>1, <2>3, OthersStayThen DEF UpdatesAsWanted, ChecksInTurn
<1>5. CASE NoUpdates(p)
  <2>1. /\ deployed' = deployed /\ rules' = rules /\ loaded' = loaded
        /\ pc[p] = "compare" /\ current[p] = Wanted(Config(p), Endpoint(p)) /\ NextEndpoint(p)
        /\ \A q \in Pods \ {p} : /\ pc'[q] = pc[q] /\ index'[q] = index[q]
                                 /\ current'[q] = current[q] /\ loaded'[q] = loaded[q]
    BY <1>5, <1>t DEF NoUpdates, NextEndpoint, Goto, TypeOK
  <2>2. ASSUME NEW i \in Endpoints(Config(p)), Checked(p, i)' PROVE Checked(p, i)
    <3>1. i = index[p] \/ Passed(p, i)
      BY <2>1, <2>2, NextEndpointChecks DEF IsActive
    <3> QED
      BY <2>1, <3>1 DEF Checked, Endpoint
  <2> QED
    BY <2>1, <2>2, OthersStayThen DEF UpdatesAsWanted, ChecksInTurn
<1>6. CASE Differs(p)
  <2>1. /\ deployed' = deployed /\ rules' = rules /\ loaded' = loaded
        /\ pc[p] = "compare" /\ pc'[p] = "post" /\ index' = index
        /\ \A q \in Pods \ {p} : /\ pc'[q] = pc[q] /\ index'[q] = index[q]
                                 /\ current'[q] = current[q] /\ loaded'[q] = loaded[q]
    BY <1>6, <1>t DEF Differs, Goto, TypeOK
  <2>2. \A i \in Endpoints(Config(p)) : Checked(p, i)' => Checked(p, i)
    BY <2>1 DEF Checked, Passed, IsActive
  <2> QED
    BY <2>1, <2>2, OthersStayThen DEF UpdatesAsWanted, ChecksInTurn
<1>7. CASE PostUpdate(p)
  <2>1. /\ deployed' = deployed /\ loaded' = loaded
        /\ pc[p] = "post" /\ NextEndpoint(p) /\ p \notin DryRunPods
        /\ Upsert(Endpoint(p), Wanted(Config(p), Endpoint(p)))
        /\ \A q \in Pods \ {p} : /\ pc'[q] = pc[q] /\ index'[q] = index[q]
                                 /\ current'[q] = current[q] /\ loaded'[q] = loaded[q]
    BY <1>7, <1>t DEF PostUpdate, NextEndpoint, Goto, TypeOK
  <2>2. ASSUME NEW i \in Endpoints(Config(p)), Checked(p, i)', ~Checked(p, i)
        PROVE  IsSynced(FeatureAt(i), Config(p))'
    <3>1. i = index[p]
      BY <2>1, <2>2, NextEndpointChecks DEF IsActive, Checked
    <3> QED
      BY <2>1, <3>1 DEF Endpoint, Config, Upsert, IsSynced
  <2>3. p \in Syncing
    BY <2>1 DEF Syncing, PlaceInv, IsActive
  <2>4. IsActive(p)
    BY <2>1 DEF IsActive
  <2> QED
    BY <2>1, <2>2, <2>3, <2>4, OthersStayThen DEF UpdatesAsWanted, ChecksInTurn
<1>8. CASE PostDryRun(p)
  <2>1. /\ deployed' = deployed /\ rules' = rules /\ loaded' = loaded
        /\ \A q \in Pods \ {p} : /\ pc'[q] = pc[q] /\ index'[q] = index[q]
                                 /\ current'[q] = current[q] /\ loaded'[q] = loaded[q]
        /\ p \notin Syncing
    BY <1>8, <1>t DEF PostDryRun, NextEndpoint, Goto, TypeOK, Syncing
  <2> QED
    BY <2>1, OthersStayThen DEF UpdatesAsWanted, ChecksInTurn
<1>9. CASE PostAnswerLost(p)
  <2>1. /\ deployed' = deployed /\ loaded' = loaded
        /\ pc[p] = "post" /\ pc'[p] = "failed" /\ index'[p] = 1 /\ p \notin DryRunPods
        /\ Upsert(Endpoint(p), Wanted(Config(p), Endpoint(p)))
        /\ \A q \in Pods \ {p} : /\ pc'[q] = pc[q] /\ index'[q] = index[q]
                                 /\ current'[q] = current[q] /\ loaded'[q] = loaded[q]
    BY <1>9, <1>t DEF PostAnswerLost, Goto, TypeOK
  <2>2. p \in Syncing
    BY <2>1 DEF Syncing, PlaceInv, IsActive
  <2>3. IsActive(p)
    BY <2>1 DEF IsActive
  <2> QED
    BY <2>1, <2>2, <2>3, OthersStayThen, UncheckedAtFirst DEF UpdatesAsWanted, ChecksNothing
<1> QED
  BY <1>1, <1>2, <1>3, <1>4, <1>5, <1>6, <1>7, <1>8, <1>9
  DEF Proceed, Get, Post, LoadFails, GetFails, PostFails, UpdatesAsWanted
----------------------------------------------------------------------------
\* The inductive invariant.

\* An update that wants of a feature what info wants leaves it in sync with info.
LEMMA UpsertKeeps ==
  ASSUME NEW info, NEW f, NEW g, IsSynced(g, info), Upsert(f, Wanted(info, f))
  PROVE  IsSynced(g, info)'
  BY DEF Upsert, IsSynced

LEMMA InitSynced == Init => FirstInv /\ LatestInv
<1> SUFFICES ASSUME Init PROVE FirstInv /\ LatestInv
  OBVIOUS
<1>1. \A p \in Syncing, i \in Places : ~Checked(p, i)
  BY SyncAssumption DEF Init, Checked, Passed, IsActive, Syncing
<1>2. FirstInv
  BY <1>1, PlacesAre DEF FirstInv
<1>3. LatestInv
  BY <1>1, PlacesAre DEF LatestInv
<1> QED
  BY <1>2, <1>3

LEMMA StepKeepsFirst ==
  ASSUME TypedInv, FirstInv, NEW p \in Pods, deployed' = deployed, OthersStay(p),
         UpdatesAsWanted(p), ChecksInTurn(p) \/ ChecksNothing(p),
         loaded'[p] \in {loaded[p], deployed}
  PROVE  FirstInv'
<1> SUFFICES ASSUME deployed = 1, NEW q \in Syncing, NEW i \in Endpoints(Configs[1]),
                    Checked(q, i)', Wants(Configs[1], i)
             PROVE  IsSynced(FeatureAt(i), Configs[1])'
  BY DEF FirstInv
<1>1. q \in Pods /\ i \in Places
  BY SyncAssumption, PlacesAre DEF Syncing
<1>2. /\ \A x \in Pods : Config(x) = Configs[1]
      /\ loaded'[p] = 1
  BY DEF TypedInv, TypeOK, Config
<1>3. rules' = rules \/ \E f : Upsert(f, Wanted(Configs[1], f))
  BY <1>2 DEF UpdatesAsWanted
<1>4. CASE Checked(q, i)
  <2>1. IsSynced(FeatureAt(i), Configs[1])
    BY <1>4 DEF FirstInv
  <2> QED
    BY <1>3, <2>1 DEF Upsert, IsSynced
<1>5. CASE ~Checked(q, i)
  <2>1. q = p
    BY <1>1, <1>5 DEF OthersStay
  <2>2. ChecksInTurn(p)
    BY <1>1, <2>1 DEF ChecksNothing
  <2> QED
    BY <1>2, <1>5, <2>1, <2>2 DEF ChecksInTurn, IsSynced, Config
<1> QED
  BY <1>4, <1>5

LEMMA StepKeepsLatest ==
  ASSUME TypedInv, LatestInv, NEW p \in Pods, deployed' = deployed, OthersStay(p),
         UpdatesAsWanted(p), ChecksInTurn(p) \/ ChecksNothing(p),
         loaded'[p] = loaded[p] \/ (ChecksNothing(p) /\ rules' = rules)
  PROVE  LatestInv'
<1> DEFINE D == Configs[deployed]
<1> SUFFICES ASSUME Syncing # {}, NEW i \in Endpoints(D), Wants(D, i),
                    \A x \in Syncing : ~(loaded'[x] < deployed) /\ Checked(x, i)'
             PROVE  IsSynced(FeatureAt(i), D)'
  BY DEF LatestInv
<1>1. i \in Places /\ Syncing \subseteq Pods
  BY SyncAssumption, PlacesAre DEF Syncing
<1>2. p \in Syncing => loaded'[p] = loaded[p] /\ ChecksInTurn(p)
  BY <1>1 DEF ChecksNothing
<1>3. \A x \in Syncing : loaded'[x] = loaded[x]
  BY <1>1, <1>2 DEF OthersStay
<1>4. deployed \in Nat /\ \A x \in Syncing : loaded[x] = deployed /\ Config(x) = D
  <2>1. deployed \in Nat /\ \A x \in Syncing : loaded[x] \in 1..deployed
    BY <1>1, ConfigsAre DEF TypedInv, TypeOK
  <2> QED
    BY <1>3, <2>1 DEF Config
<1>5. rules' = rules \/ \E f : Upsert(f, Wanted(D, f))
  BY <1>4 DEF UpdatesAsWanted
<1>6. CASE IsSynced(FeatureAt(i), D)
  BY <1>5, <1>6 DEF Upsert, IsSynced
<1>7. CASE ~IsSynced(FeatureAt(i), D)
  <2>1. PICK x \in Syncing : ~Checked(x, i)
    BY <1>4, <1>7 DEF LatestInv
  <2>2. x = p
    BY <1>1, <2>1 DEF OthersStay
  <2>3. Config(p) = D /\ Config(p)' = D
    BY <1>3, <1>4, <2>2 DEF Config
  <2> QED
    BY <1>2, <2>1, <2>2, <2>3 DEF ChecksInTurn, IsSynced
<1> QED
  BY <1>6, <1>7

LEMMA NextSynced == TypedInv /\ FirstInv /\ LatestInv /\ [Next]_vars => FirstInv' /\ LatestInv'
<1> SUFFICES ASSUME TypedInv, FirstInv, LatestInv, [Next]_vars PROVE FirstInv' /\ LatestInv'
  OBVIOUS
<1>t. TypedInv'
  BY NextTyped
<1>1. CASE UNCHANGED vars
  BY <1>1 DEF vars, FirstInv, LatestInv, Checked, Passed, IsActive, Config, IsSynced
<1>2. CASE Deploy
  <2>1. deployed' = deployed + 1 /\ loaded' = loaded
    BY <1>2 DEF Deploy
  <2>2. deployed \in Nat /\ deployed >= 1 /\ \A p \in Pods : loaded[p] \in 1..deployed
    BY ConfigsAre, SyncAssumption DEF TypedInv, TypeOK
  <2>3. FirstInv'
    BY <2>1, <2>2 DEF FirstInv
  <2>4. \A p \in Syncing : loaded'[p] < deployed'
    BY <2>1, <2>2, SyncAssumption DEF Syncing
  <2>5. LatestInv'
    BY <2>4 DEF LatestInv
  <2> QED
    BY <2>3, <2>5
<1>3. ASSUME NEW p \in Pods, Proceed(p) \/ Replace(p) PROVE FirstInv' /\ LatestInv'
  BY <1>t, <1>3, CheckedStep, StepKeepsFirst, StepKeepsLatest
<1> QED
  BY <1>1, <1>2, <1>3 DEF Next

LEMMA SyncInvariance == Spec => [](TypedInv /\ FirstInv /\ LatestInv)
  BY InitTyped, InitSynced, NextTyped, NextSynced, PTL DEF Spec

(***************************************************************************)
(* While there is one bundles.yml only, a container that has succeeded has *)
(* left every feature that wants SKUs with exactly these: error bodies,    *)
(* lost answers, restarts and other containers do not undo that.           *)
(***************************************************************************)
THEOREM DoneMeansInSyncAlways == Spec => []DoneMeansInSync
<1>1. TypedInv /\ FirstInv => DoneMeansInSync
  <2> SUFFICES ASSUME TypedInv, FirstInv, deployed = 1, NEW p \in Syncing, pc[p] = "done",
                      NEW i \in Endpoints(Config(p)),
                      BagToSet(Wanted(Config(p), FeatureAt(i))) # {}
               PROVE  IsSynced(FeatureAt(i), Config(p))
    BY DEF DoneMeansInSync
  <2>1. Config(p) = Configs[1]
    BY SyncAssumption DEF TypedInv, TypeOK, Config, Syncing
  <2> QED
    BY <2>1 DEF FirstInv, Checked, Passed, Wants
<1> QED
  BY <1>1, SyncInvariance, PTL
----------------------------------------------------------------------------
(***************************************************************************)
(* End to end: once the rollout is over, the SKUs of a bundle grant it, as *)
(* bundles.yml says, whatever old and new containers have done to each     *)
(* other's updates.                                                        *)
(***************************************************************************)
LEMMA ClearBundle ==
  ASSUME NEW b \in Bundle(STRING, Sku), IsClear(b)
  PROVE  LET base == BagToSet(SkusFor(b, Base(b.name)))
         IN  /\ IsSkuBased(b)
             /\ base = ToSet(b.skus) \cup ToSet(b.evalSkus) \cup ToSet(b.paidSkus)
             /\ base # {}
             /\ IsPaid(b) => ToSet(b.paidSkus) # {}
<1>1. /\ ToSet(<<>>) = {}
      /\ \A l \in Seq(Sku) : l # <<>> => ToSet(l) # {}
  <2>1. ToSet(<<>>) = {}
    BY DEF ToSet
  <2>2. ASSUME NEW l \in Seq(Sku), l # <<>> PROVE ToSet(l) # {}
    <3>1. Len(l) \in Nat /\ Len(l) # 0 /\ DOMAIN l = 1..Len(l)
      BY <2>2
    <3>2. 1 \in DOMAIN l
      BY <3>1
    <3> QED
      BY <3>2 DEF ToSet
  <2> QED
    BY <2>1, <2>2
<1>2. b.skus \in Seq(Sku) /\ b.paidSkus \in Seq(Sku)
  BY DEF Bundle
<1>3. CASE IsPaid(b)
  <2>1. b.skus = <<>> /\ b.paidSkus # <<>>
    BY <1>3 DEF IsClear
  <2>2. ToSet(b.skus) = {} /\ ToSet(b.paidSkus) # {}
    BY <1>1, <1>2, <2>1
  <2> QED
    BY <1>3, <2>2, SkusOfBundle DEF IsSkuBased
<1>4. CASE ~IsPaid(b)
  <2>1. b.skus # <<>> /\ b.evalSkus = <<>> /\ b.paidSkus = <<>>
    BY <1>4 DEF IsClear, IsPaid
  <2>2. ToSet(b.skus) # {} /\ ToSet(b.evalSkus) = {} /\ ToSet(b.paidSkus) = {}
    BY <1>1, <1>2, <2>1
  <2> QED
    BY <1>4, <2>1, <2>2, SkusOfBundle DEF IsSkuBased
<1> QED
  BY <1>3, <1>4

THEOREM SettledMeansEntitledAlways == Spec => []SettledMeansEntitled
<1>1. TypedInv /\ LatestInv => SettledMeansEntitled
  <2> SUFFICES ASSUME TypedInv, LatestInv, Settled, NEW b \in Listed(Configs[deployed]),
                      IsClear(b), IsNamedOnce(b, Configs[deployed]), b.name \in ToSet(Features),
                      ~b.useIsInternal,
                      NEW owned \in SUBSET Sku
               PROVE  GrantsExactly(b, owned, SectionFor(b, owned))
    BY DEF SettledMeansEntitled
  <2> DEFINE D == Configs[deployed]
             base == Base(b.name)
             paid == Suffixed(b.name, PaidFeatureSuffix)
             grants == ToSet(b.skus) \cup ToSet(b.evalSkus) \cup ToSet(b.paidSkus)
             held == HeldWith(owned, D)
  <2>1. D \in Seq(Bundle(STRING, Sku)) /\ deployed \in Nat
    BY ConfigsAre DEF TypedInv, TypeOK
  <2>2. b \in Bundle(STRING, Sku)
    BY <2>1 DEF Listed
  <2>3. PICK i \in 1..Len(Features) : Features[i] = b.name
    BY PlacesAre DEF ToSet
  <2>4. \A j \in Endpoints(D) : Wants(D, j) => IsSynced(FeatureAt(j), D)
    <3> SUFFICES ASSUME NEW j \in Endpoints(D), Wants(D, j) PROVE IsSynced(FeatureAt(j), D)
      OBVIOUS
    <3>1. \A p \in Syncing : ~(loaded[p] < deployed) /\ Checked(p, j)
      BY <2>1 DEF Settled, Checked, Passed
    <3> QED
      BY <3>1 DEF LatestInv, Settled
  <2>5. /\ base \in FeaturesOf(b, PaidFeatureSuffix)
        /\ IsPaid(b) => paid \in FeaturesOf(b, PaidFeatureSuffix)
    BY DEF FeaturesOf
  <2>6. Skus(base) = grants
    <3>1. i \in Endpoints(D) /\ FeatureAt(i) = base
      BY <2>3, PlacesAre DEF Endpoints, FeatureAt, Places
    <3>2. Wanted(D, base) = SkusFor(b, base)
      BY <2>1, <2>5, WantedOfBundle
    <3>3. BagToSet(Wanted(D, base)) = grants /\ grants # {}
      BY <2>2, <3>2, ClearBundle
    <3> QED
      BY <2>4, <3>1, <3>3 DEF Wants, IsSynced, Skus, SkusIn
  <2>7. IsPaid(b) => Skus(paid) = ToSet(b.paidSkus)
    <3> SUFFICES ASSUME IsPaid(b) PROVE Skus(paid) = ToSet(b.paidSkus)
      OBVIOUS
    <3> DEFINE j == Len(Features) + i
    <3>1. j \in Places /\ ~(j <= Len(Features)) /\ j - Len(Features) = i
      BY <2>3, PlacesAre DEF Places
    <3>2. FeatureAt(j) = paid
      BY <2>3, <3>1 DEF FeatureAt
    <3>3. j \in Endpoints(D)
      BY <2>5, <3>1, <3>2 DEF Endpoints, Defined
    <3>4. Wanted(D, paid) = SkusFor(b, paid)
      BY <2>1, <2>5, WantedOfBundle
    <3>5. BagToSet(Wanted(D, paid)) = ToSet(b.paidSkus) /\ ToSet(b.paidSkus) # {}
      BY <2>2, <3>4, ClearBundle, SkusOfBundle
    <3> HIDE DEF j
    <3> QED
      BY <2>4, <3>2, <3>3, <3>5 DEF Wants, IsSynced, Skus, SkusIn
  <2>8. IsSkuBased(b)
    BY <2>2, ClearBundle
  <2>9. FeaturesOf(b, PaidFeatureSuffix) \subseteq
          QueryFeatures(D, ToSet(Features), PaidFeatureSuffix)
    BY <2>8 DEF QueryFeatures
  <2>10. /\ base \in held <=> owned \cap grants # {}
         /\ IsPaid(b) => (paid \in held <=> owned \cap ToSet(b.paidSkus) # {})
    BY <2>5, <2>6, <2>7, <2>9 DEF HeldWith
  <2> HIDE DEF D, base, paid, grants, held
  <2>11. LET s == Section(b, held, PaidFeatureSuffix,
                          [validAccNum |-> TRUE, hasUser |-> FALSE,
                           internal |-> FALSE, redHatEmail |-> FALSE], TRUE)
         IN  /\ s.isEntitled <=> base \in held
             /\ s.isTrial <=> base \in held /\ IsPaid(b) /\ paid \notin held
    BY <2>8 DEF Section, base, paid
  <2> QED
    BY <2>10, <2>11 DEF GrantsExactly, SectionFor, D, grants, held
<1> QED
  BY <1>1, SyncInvariance, PTL

----------------------------------------------------------------------------
\* The order of the updates.

LEMMA PaidWantsPart ==
  ASSUME StartsClean, NEW k \in 1..Len(Features)
  PROVE  BagToSet(Wanted(Configs[1], Suffixed(Features[k], PaidFeatureSuffix)))
           \subseteq BagToSet(Wanted(Configs[1], Base(Features[k])))
<1> DEFINE D == Configs[1]
           base == Base(Features[k])
           paid == Suffixed(Features[k], PaidFeatureSuffix)
<1>1. D \in Seq(Bundle(STRING, Sku))
  BY ConfigsAre, SyncAssumption
<1>2. CASE paid \notin Defined(D)
  BY <1>2, EmptyIsAList DEF Wanted
<1>3. CASE paid \in Defined(D)
  <2>1. PICK b \in Listed(D) : paid \in FeaturesOf(b, PaidFeatureSuffix)
    BY <1>3 DEF Defined
  <2>2. b.name = Features[k] /\ IsPaid(b)
    BY <2>1, SyncAssumption DEF FeaturesOf, Base, Suffixed
  <2>3. base \in FeaturesOf(b, PaidFeatureSuffix)
    BY <2>2 DEF FeaturesOf
  <2>4. b \in Bundle(STRING, Sku) /\ IsNamedOnce(b, D)
    BY <1>1, <2>1 DEF Listed, StartsClean
  <2>5. Wanted(D, base) = SkusFor(b, base) /\ Wanted(D, paid) = SkusFor(b, paid)
    BY <1>1, <2>1, <2>3, <2>4, WantedOfBundle
  <2> QED
    BY <2>2, <2>4, <2>5, SkusOfBundle
<1> QED
  BY <1>2, <1>3

LEMMA StepKeepsPaid ==
  ASSUME StartsClean, TypedInv, FirstInv, PaidInv, NEW p \in Pods, deployed' = deployed,
         UpdatesAsWanted(p)
  PROVE  PaidInv'
<1> DEFINE W(f) == BagToSet(Wanted(Configs[1], f))
           base(k) == Base(Features[k])
           paid(k) == Suffixed(Features[k], PaidFeatureSuffix)
<1> SUFFICES ASSUME deployed = 1, NEW k \in 1..Len(Features)
             PROVE  SkusIn(rules', paid(k)) \subseteq W(paid(k)) \cap SkusIn(rules', base(k))
  BY PlacesAre DEF PaidInv, FitsFirst
<1>1. SkusIn(rules, paid(k)) \subseteq W(paid(k)) \cap SkusIn(rules, base(k))
  BY PlacesAre DEF PaidInv, FitsFirst
<1>2. CASE rules' = rules
  BY <1>1, <1>2
<1>3. CASE p \in Syncing /\ IsActive(p) /\ Upsert(Endpoint(p), Wanted(Config(p), Endpoint(p)))
  <2>1. Config(p) = Configs[1] /\ index[p] \in Places /\ index[p] \in Nat
    <3>1. loaded[p] \in 1..1
      BY DEF TypedInv, TypeOK
    <3>2. loaded[p] = 1
      BY <3>1
    <3>3. index[p] \in Places
      BY <1>3 DEF TypedInv, TypeOK
    <3> QED
      BY <3>2, <3>3, PlacesAre DEF Config, Places
  <2>2. \A f : SkusIn(rules', f) = IF f = Endpoint(p) THEN W(f) ELSE SkusIn(rules, f)
    BY <1>3, <2>1 DEF Upsert, SkusIn
  <2>3. W(paid(k)) \subseteq W(base(k))
    BY PaidWantsPart
  <2>4. \A n \in 1..Len(Features) : base(n) # paid(k) /\ base(k) # paid(n)
    BY SyncAssumption DEF Base, Suffixed
  <2>5. Len(Features) \in Nat
    BY PlacesAre
  <2>6. CASE index[p] <= Len(Features)
    <3>1. index[p] \in 1..Len(Features) /\ Endpoint(p) = base(index[p])
      BY <2>1, <2>5, <2>6 DEF Endpoint, FeatureAt, Places
    <3>2. SkusIn(rules', paid(k)) = SkusIn(rules, paid(k))
      BY <2>2, <2>4, <3>1
    <3>3. SkusIn(rules', base(k)) \in {W(base(k)), SkusIn(rules, base(k))}
      BY <2>2
    <3> HIDE DEF W, base, paid
    <3> QED
      BY <1>1, <2>3, <3>2, <3>3
  <2>7. CASE ~(index[p] <= Len(Features))
    <3>1. /\ index[p] - Len(Features) \in 1..Len(Features)
          /\ Endpoint(p) = paid(index[p] - Len(Features))
      BY <2>1, <2>5, <2>7 DEF Endpoint, FeatureAt, Places
    <3>2. SkusIn(rules', base(k)) = SkusIn(rules, base(k))
      BY <2>2, <2>4, <3>1
    <3>3. W(base(k)) \subseteq SkusIn(rules, base(k))
      <4>1. k \in Endpoints(Configs[1]) /\ FeatureAt(k) = base(k) /\ k < index[p]
        BY <2>1, <2>5, <2>7 DEF Endpoints, FeatureAt, Places
      <4>2. Checked(p, k)
        BY <1>3, <4>1 DEF Checked, Passed
      <4> QED
        BY <1>3, <4>1, <4>2 DEF FirstInv, Wants, IsSynced, SkusIn
    <3>4. SkusIn(rules', paid(k)) \in {W(paid(k)), SkusIn(rules, paid(k))}
      BY <2>2
    <3> HIDE DEF W, base, paid
    <3> QED
      BY <1>1, <2>3, <3>2, <3>3, <3>4
  <2> QED
    BY <2>6, <2>7
<1> QED
  BY <1>2, <1>3 DEF UpdatesAsWanted

(***************************************************************************)
(* If the Feature Service starts clean, no failure and no restart leaves a *)
(* customer with a paid feature whose bundle it is refused.                *)
(***************************************************************************)
THEOREM PaidIsPartOfBaseAlways == StartsClean => (Spec => []PaidIsPartOfBase)
<1> SUFFICES ASSUME StartsClean PROVE Spec => []PaidIsPartOfBase
  OBVIOUS
<1>1. Init => PaidInv
  BY DEF Init, PaidInv, StartsClean
<1>2. TypedInv /\ FirstInv /\ PaidInv /\ [Next]_vars => PaidInv'
  <2> SUFFICES ASSUME TypedInv, FirstInv, PaidInv, [Next]_vars PROVE PaidInv'
    OBVIOUS
  <2>t. TypedInv'
    BY NextTyped
  <2>1. CASE UNCHANGED vars
    BY <2>1 DEF vars, PaidInv
  <2>2. CASE Deploy
    BY <2>2, ConfigsAre DEF Deploy, PaidInv, TypedInv, TypeOK
  <2>3. ASSUME NEW p \in Pods, Proceed(p) \/ Replace(p) PROVE PaidInv'
    BY <2>t, <2>3, CheckedStep, StepKeepsPaid
  <2> QED
    BY <2>1, <2>2, <2>3 DEF Next
<1>3. PaidInv => PaidIsPartOfBase
  BY DEF PaidInv, FitsFirst, PaidIsPartOfBase, Skus
<1> QED
  BY <1>1, <1>2, <1>3, SyncInvariance, PTL DEF Spec
----------------------------------------------------------------------------
\* Once in sync.

(***************************************************************************)
(* From whatever the Feature Service started with and however many         *)
(* versions were deployed: nothing that containers of the latest version   *)
(* do takes the rules out of sync again.                                   *)
(***************************************************************************)
THEOREM StaysInSyncAlways == Spec => StaysInSync
<1>1. TypedInv /\ [Next]_vars => [InSync /\ deployed' = deployed => InSync']_vars
  <2> SUFFICES ASSUME TypedInv, Next, InSync, deployed' = deployed PROVE InSync'
    BY DEF vars
  <2> DEFINE D == Configs[deployed]
  <2>1. deployed \in Nat
    BY ConfigsAre DEF TypedInv, TypeOK
  <2>2. PICK p \in Pods : Proceed(p) \/ Replace(p)
    BY <2>1 DEF Next, Deploy
  <2>3. /\ OthersStay(p) /\ UpdatesAsWanted(p)
        /\ loaded'[p] \in {loaded[p], deployed}
    BY <2>2, NextTyped, CheckedStep
  <2>4. \A q \in Syncing : loaded[q] = deployed /\ loaded'[q] = deployed
    BY <2>3, SyncAssumption DEF OthersStay, InSync, Syncing
  <2>5. rules' = rules \/ \E f : Upsert(f, Wanted(D, f))
    BY <2>3, <2>4 DEF UpdatesAsWanted, Config
  <2>6. ASSUME NEW f \in Wanting[deployed] PROVE IsSynced(f, D)'
    <3>1. IsSynced(f, D)
      BY DEF InSync
    <3> QED
      BY <2>5, <3>1 DEF Upsert, IsSynced
  <2> QED
    BY <2>4, <2>6 DEF InSync
<1>2. Spec => []TypedInv
  BY InitTyped, NextTyped, PTL DEF Spec
<1> QED
  BY <1>1, <1>2, PTL DEF Spec, StaysInSync

(***************************************************************************)
(* And the end of a rollout is such a moment, whatever containers of older *)
(* versions have overwritten until then: after it the rules stay in sync   *)
(* until the next version is deployed.                                     *)
(***************************************************************************)
THEOREM SettledMeansInSync == Spec => [](Settled => InSync)
<1>1. TypedInv /\ LatestInv => (Settled => InSync)
  <2> SUFFICES ASSUME TypedInv, LatestInv, Settled PROVE InSync
    OBVIOUS
  <2>1. deployed \in Nat
    BY ConfigsAre DEF TypedInv, TypeOK
  <2>2. ASSUME NEW f \in Wanting[deployed] PROVE IsSynced(f, Configs[deployed])
    <3>1. PICK i \in Endpoints(Configs[deployed]) :
            Wants(Configs[deployed], i) /\ FeatureAt(i) = f
      BY DEF Wanting, TypedInv, TypeOK
    <3>2. \A p \in Syncing : ~(loaded[p] < deployed) /\ Checked(p, i)
      BY <2>1 DEF Settled, Checked, Passed
    <3> QED
      BY <3>1, <3>2 DEF LatestInv, Settled
  <2> QED
    BY <2>2 DEF InSync, Settled
<1> QED
  BY <1>1, SyncInvariance, PTL
----------------------------------------------------------------------------
\* The contract.

\* A place whose feature wants SKUs is one the containers come to.
LEMMA WantingPlace ==
  ASSUME NEW n \in DOMAIN Configs, NEW f \in Wanting[n]
  PROVE  /\ \E i \in Places : FeatureAt(i) = f
         /\ \A i \in Places : FeatureAt(i) = f =>
              i \in Endpoints(Configs[n]) /\ Wants(Configs[n], i)
<1>1. PICK j \in Endpoints(Configs[n]) : Wants(Configs[n], j) /\ FeatureAt(j) = f
  BY DEF Wanting
<1>2. f \in Defined(Configs[n])
  BY <1>1, EmptyIsAList DEF Wants, Wanted
<1> QED
  BY <1>1, <1>2 DEF Endpoints, Wants

\* What a container has seen changes with what it has checked.
LEMMA OthersSeeNothing ==
  ASSUME TypedInv, NEW p \in Pods, OthersStay(p), NEW q \in Pods \ {p}
  PROVE  Seen'[q] = Seen[q]
  BY DEF OthersStay, Seen

LEMMA NothingSeen ==
  ASSUME NEW p \in Pods
  PROVE  /\ p \notin Syncing => Seen[p] = {} /\ Seen'[p] = {}
         /\ (\A i \in Places : ~Checked(p, i)) => Seen[p] = {}
         /\ ChecksNothing(p) => Seen'[p] = {}
  BY DEF ChecksNothing, Seen

LEMMA SeenInTurn ==
  ASSUME TypedInv, NEW p \in Pods, ChecksInTurn(p), loaded'[p] = loaded[p],
         NEW f \in Seen'[p] \ Seen[p]
  PROVE  f \in DOMAIN rules' /\ rules'[f] = Wanted(Config(p), f)
<1>1. p \in Syncing /\ loaded[p] \in DOMAIN Configs
  BY NothingSeen, ConfigsAre DEF TypedInv, TypeOK
<1>2. PICK i \in Places : FeatureAt(i) = f /\ Checked(p, i)'
  BY <1>1 DEF Seen
<1>3. f \in Wanting[loaded[p]] /\ ~Checked(p, i)
  BY <1>1, <1>2 DEF Seen
<1>4. i \in Endpoints(Config(p)) /\ Wants(Config(p), i)
  BY <1>1, <1>2, <1>3, WantingPlace DEF Config
<1>5. IsSynced(FeatureAt(i), Config(p))'
  BY <1>1, <1>2, <1>3, <1>4 DEF ChecksInTurn
<1> QED
  BY <1>2, <1>5 DEF IsSynced, Config

\* A container that is through has checked every place.
LEMMA AllSeen ==
  ASSUME TypedInv', NEW p \in Syncing, pc'[p] = "done"
  PROVE  Seen'[p] = Wanting[loaded'[p]]
<1>1. p \in Pods /\ loaded'[p] \in DOMAIN Configs
  BY SyncAssumption, ConfigsAre DEF Syncing, TypedInv, TypeOK
<1>2. \A i \in Places : Checked(p, i)'
  BY DEF Checked, Passed
<1> QED
  BY <1>1, <1>2, WantingPlace DEF Seen

\* The contract speaks of the same bundles.yml.
LEMMA SameFeatures ==
  /\ Contract!Syncing = Syncing
  /\ Contract!Places = Places
  /\ \A b : Contract!FeaturesOf(b, PaidFeatureSuffix) = FeaturesOf(b, PaidFeatureSuffix)
  /\ \A i : Contract!FeatureAt(i) = FeatureAt(i)
  /\ \A info : Contract!Defined(info) = Defined(info)
  /\ \A info : Contract!Endpoints(info) = Endpoints(info)
<1>1. \A b : Contract!FeaturesOf(b, PaidFeatureSuffix) = FeaturesOf(b, PaidFeatureSuffix)
  BY DEF Contract!FeaturesOf, FeaturesOf, Contract!IsPaid, IsPaid, Contract!Base, Base,
         Contract!Suffixed, Suffixed, Contract!NoSuffix, NoSuffix
<1>2. \A i : Contract!FeatureAt(i) = FeatureAt(i)
  BY DEF Contract!FeatureAt, FeatureAt, Contract!Base, Base, Contract!Suffixed, Suffixed,
         Contract!NoSuffix, NoSuffix
<1>3. \A info : Contract!Defined(info) = Defined(info)
  BY <1>1 DEF Contract!Defined, Defined, Contract!Listed, Listed
<1>4. Contract!Places = Places /\ Contract!Syncing = Syncing
  BY DEF Contract!Places, Places, Contract!Syncing, Syncing
<1> QED
  BY <1>1, <1>2, <1>3, <1>4 DEF Contract!Endpoints, Endpoints

LEMMA SameLists ==
  /\ \A info, f : Contract!Wanted(info, f) = Wanted(info, f)
  /\ Contract!Wanting = Wanting
<1>1. \A S : Contract!Cardinality(S) = Cardinality(S)
  BY Zenon DEF Contract!Cardinality, Cardinality
<1>2. \A s : Contract!ToSet(s) = ToSet(s)
  BY DEF Contract!ToSet, ToSet
<1>3. \A S : Contract!SetToBag(S) = SetToBag(S)
  BY DEF Contract!SetToBag, SetToBag
<1>4. Contract!EmptyBag = EmptyBag /\ \A B : Contract!BagToSet(B) = BagToSet(B)
  BY <1>3 DEF Contract!EmptyBag, EmptyBag, Contract!BagToSet, BagToSet
<1>5. \A b, f : Contract!SkusFor(b, f) = SkusFor(b, f)
  BY <1>1, <1>2, <1>3 DEF Contract!SkusFor, SkusFor, Contract!IsPaid, IsPaid, Contract!Base, Base,
         Contract!Suffixed, Suffixed, Contract!NoSuffix, NoSuffix,
         Contract!SortedList, SortedList, Contract!UniqueSkus, UniqueSkus
<1>6. \A info, f : Contract!Latest(info, f) = Latest(info, f)
  BY SameFeatures DEF Contract!Latest, Latest, Contract!Defines, Defines
<1>7. ASSUME NEW info, NEW f PROVE Contract!Wanted(info, f) = Wanted(info, f)
  BY <1>4, <1>5, <1>6, SameFeatures DEF Contract!Wanted, Wanted, Contract!BundlesConfig, BundlesConfig
<1>8. \A info, i : Contract!Wants(info, i) <=> Wants(info, i)
  BY <1>4, <1>7, SameFeatures DEF Contract!Wants, Wants
<1>9. Contract!Wanting = Wanting
  BY <1>8, SameFeatures DEF Contract!Wanting, Wanting
<1> QED
  BY <1>7, <1>9

LEMMA UpdateIsUpdate ==
  ASSUME TypedInv, NEW p \in Syncing, Upsert(Endpoint(p), Wanted(Config(p), Endpoint(p)))
  PROVE  Contract!Update(p)
<1>1. p \in Pods /\ index[p] \in Endpoints(Config(p))
  BY SyncAssumption DEF Syncing, TypedInv, TypeOK
<1>2. Contract!Config(p) = Config(p)
  BY DEF Contract!Config, Config
<1> DEFINE f == FeatureAt(index[p])
           w == Wanted(Config(p), f)
<1>3. rules' = [g \in DOMAIN rules \cup {f} |-> IF g = f THEN w ELSE rules[g]]
  BY DEF Upsert, Endpoint
<1>4. rules' = [g \in DOMAIN rules \cup {f} |->
                  IF g = f THEN Wanted(Config(p), g) ELSE rules[g]]
  BY <1>3
<1> HIDE DEF f, w
<1>5. \E i \in Endpoints(Config(p)) :
        rules' = [g \in DOMAIN rules \cup {FeatureAt(i)} |->
                    IF g = FeatureAt(i) THEN Wanted(Config(p), g) ELSE rules[g]]
  BY <1>1, <1>4 DEF f
<1> QED
  BY <1>2, <1>5, SameFeatures, SameLists DEF Contract!Update

LEMMA InitKeepsSync == Init => Contract!Init
<1> SUFFICES ASSUME Init PROVE Contract!Init
  OBVIOUS
<1>1. \A p \in Pods : ~IsActive(p) /\ pc[p] = "start"
  BY DEF Init, IsActive
<1>2. \A p \in Pods, i \in Places : ~Checked(p, i)
  BY <1>1 DEF Checked, Passed
<1>3. Seen = [p \in Pods |-> {}]
  BY <1>2 DEF Seen
<1>4. Phase = [p \in Pods |-> "start"]
  BY <1>1 DEF Phase
<1> QED
  BY <1>3, <1>4 DEF Init, Contract!Init

\* A container that goes on.
LEMMA WorkIsWork ==
  ASSUME TypedInv, TypedInv', NEW p \in Pods, IsActive(p),
         UNCHANGED <<deployed, loaded>>, \A q \in Pods \ {p} : pc'[q] = pc[q],
         pc'[p] = "done" \/ IsActive(p)',
         OthersStay(p), UpdatesAsWanted(p), ChecksInTurn(p)
  PROVE  Contract!Work(p)
<1>1. Phase[p] = "running" /\ Phase'[p] \in {"running", "done"}
  BY DEF Phase, IsActive
<1>2. \A q \in Pods \ {p} : Phase'[q] = Phase[q] /\ Seen'[q] = Seen[q]
  BY OthersSeeNothing DEF Phase, IsActive
<1>3. rules' = rules \/ Contract!Update(p)
  BY UpdateIsUpdate DEF UpdatesAsWanted
<1>4. \A f \in Seen'[p] \ Seen[p] : f \in DOMAIN rules' /\ rules'[f] = Wanted(Config(p), f)
  BY SeenInTurn
<1>5. Config(p)' = Config(p)
  BY DEF Config
<1>6. \A f \in Seen'[p] \ Seen[p] : Contract!IsSynced(f, p)'
  BY <1>4, <1>5, SameLists DEF Contract!IsSynced, Contract!Config, Config
<1>7. p \in Syncing /\ Phase'[p] = "done" => Seen'[p] = Wanting[loaded[p]]
  BY AllSeen DEF Phase, IsActive
<1> QED
  BY <1>1, <1>2, <1>3, <1>6, <1>7, SameFeatures, SameLists DEF Contract!Work

\* A container that fails, perhaps after an update.
LEMMA FailIsFail ==
  ASSUME TypedInv, NEW p \in Pods, pc[p] = "start" \/ IsActive(p), pc'[p] = "failed",
         UNCHANGED <<deployed, loaded>>, \A q \in Pods \ {p} : pc'[q] = pc[q],
         OthersStay(p), ChecksNothing(p), UpdatesAsWanted(p)
  PROVE  Contract!Fail(p)
<1>1. Phase[p] \in {"start", "running"} /\ (Phase[p] = "running" <=> IsActive(p))
  BY DEF Phase, IsActive
<1>2. Phase' = [Phase EXCEPT ![p] = "failed"]
  BY DEF Phase, IsActive
<1>3. Seen' = [Seen EXCEPT ![p] = {}]
  <2>1. \A q \in Pods : Seen'[q] = IF q = p THEN {} ELSE Seen[q]
    BY OthersSeeNothing, NothingSeen
  <2>2. DOMAIN Seen' = Pods /\ DOMAIN Seen = Pods
    BY DEF Seen
  <2> QED
    BY <2>1, <2>2 DEF Seen
<1>4. rules' = rules \/ (Phase[p] = "running" /\ Contract!Update(p))
  BY <1>1, UpdateIsUpdate DEF UpdatesAsWanted
<1> QED
  BY <1>1, <1>2, <1>3, <1>4 DEF Contract!Fail, Contract!Goto

LEMMA ProceedKeepsSync ==
  ASSUME TypedInv, TypedInv', NEW p \in Pods, Proceed(p) \/ Replace(p)
  PROVE  Contract!Next
<1>t. p \in DOMAIN pc /\ p \in DOMAIN loaded
  BY DEF TypedInv, TypeOK
<1>1. OthersStay(p) /\ UpdatesAsWanted(p) /\ ChecksInTurn(p)
  BY CheckedStep, PlacesAre DEF ChecksInTurn, ChecksNothing
<1>2. \A q \in Pods \ {p} : Seen'[q] = Seen[q]
  BY <1>1, OthersSeeNothing
<1>3. CASE Skip(p)
  <2>1. /\ pc[p] = "start" /\ p \notin SyncPods /\ pc' = [pc EXCEPT ![p] = "done"]
        /\ UNCHANGED <<deployed, rules, loaded>>
    BY <1>3 DEF Skip, Goto
  <2>2. Phase[p] = "start" /\ Phase' = [Phase EXCEPT ![p] = "done"]
    <3>1. pc[p] = "start"
      BY <2>1
    <3>2. Phase[p] = "start"
      BY <3>1 DEF Phase, IsActive
    <3>3. pc'[p] = "done" /\ \A q \in Pods \ {p} : pc'[q] = pc[q]
      BY <2>1, <1>t DEF TypedInv, TypeOK
    <3>4. Phase' = [Phase EXCEPT ![p] = "done"]
      BY <3>3 DEF Phase, IsActive
    <3> QED
      BY <3>2, <3>4
  <2>3. Seen'[p] = Seen[p]
    BY <2>1, NothingSeen DEF Syncing
  <2>4. Seen' = Seen
    BY <1>2, <2>3 DEF Seen
  <2> QED
    BY <2>1, <2>2, <2>4 DEF Contract!Skip, Contract!Goto, Contract!Next
<1>4. CASE Start(p)
  <2>1. /\ pc[p] = "start" /\ p \in SyncPods /\ pc' = [pc EXCEPT ![p] = "get"]
        /\ loaded' = [loaded EXCEPT ![p] = deployed]
        /\ UNCHANGED <<deployed, rules, index>>
    BY <1>4 DEF Start, Goto
  <2>2. Phase[p] = "start" /\ Phase' = [Phase EXCEPT ![p] = "running"]
    <3>1. pc[p] = "start"
      BY <2>1
    <3>2. Phase[p] = "start"
      BY <3>1 DEF Phase, IsActive
    <3>3. pc'[p] = "get" /\ \A q \in Pods \ {p} : pc'[q] = pc[q]
      BY <2>1, <1>t DEF TypedInv, TypeOK
    <3>4. Phase' = [Phase EXCEPT ![p] = "running"]
      BY <3>3 DEF Phase, IsActive
    <3> QED
      BY <3>2, <3>4
  <2>3. \A i \in Places : ~Checked(p, i)
    BY <2>1 DEF Checked, Passed, IsActive
  <2>4. ChecksNothing(p)
    <3>1. index'[p] = 1 /\ pc'[p] = "get"
      BY <2>1, <1>t DEF TypedInv, PlaceInv, IsActive
    <3> QED
      BY <3>1, UncheckedAtFirst DEF ChecksNothing
  <2>5. Seen'[p] = Seen[p]
    BY <2>3, <2>4, NothingSeen
  <2>6. Seen' = Seen
    BY <1>2, <2>5 DEF Seen
  <2> QED
    BY <2>1, <2>2, <2>6 DEF Contract!Start, Contract!Goto, Contract!Next
<1>5. ASSUME Fail(p) \/ PostAnswerLost(p), pc[p] = "start" \/ IsActive(p) PROVE Contract!Next
  <2>1. /\ pc' = [pc EXCEPT ![p] = "failed"] /\ index'[p] = 1
        /\ UNCHANGED <<deployed, loaded>>
    BY <1>5 DEF Fail, PostAnswerLost, Goto, TypedInv, TypeOK
  <2>2. pc'[p] = "failed" /\ \A q \in Pods \ {p} : pc'[q] = pc[q]
    BY <2>1, <1>t DEF TypedInv, TypeOK
  <2>3. ChecksNothing(p)
    BY <2>1, <2>2, UncheckedAtFirst DEF ChecksNothing
  <2> QED
    BY <1>1, <1>5, <2>1, <2>2, <2>3, FailIsFail DEF Contract!Next
<1>6. ASSUME NextEndpoint(p), IsActive(p), UNCHANGED <<deployed, loaded>> PROVE Contract!Next
  <2>1. \A q \in Pods \ {p} : pc'[q] = pc[q]
    BY <1>6 DEF NextEndpoint, Goto, TypedInv, TypeOK
  <2>2. pc'[p] = "done" \/ IsActive(p)'
    BY <1>6, <1>t DEF NextEndpoint, Goto, IsActive
  <2> QED
    BY <1>1, <1>6, <2>1, <2>2, WorkIsWork DEF Contract!Next
<1>7. CASE GetCurrent(p) \/ GetErrorBody(p) \/ Differs(p)
  <2>1. /\ UNCHANGED <<deployed, loaded>>
        /\ \A q \in Pods \ {p} : pc'[q] = pc[q]
        /\ IsActive(p) /\ IsActive(p)'
    BY <1>7, <1>t DEF GetCurrent, GetErrorBody, Differs, Goto, IsActive, TypedInv, TypeOK
  <2> QED
    BY <1>1, <2>1, WorkIsWork DEF Contract!Next
<1>8. CASE Restart(p) \/ Replace(p)
  <2>1. /\ pc[p] \in {"failed", "done"} /\ pc' = [pc EXCEPT ![p] = "start"]
        /\ UNCHANGED <<deployed, rules, loaded>>
    BY <1>8 DEF Restart, Replace, Goto
  <2>2. Phase[p] \in {"failed", "done"} /\ Phase' = [Phase EXCEPT ![p] = "start"]
    <3>1. pc[p] \in {"failed", "done"}
      BY <2>1
    <3>2. Phase[p] \in {"failed", "done"}
      BY <3>1 DEF Phase, IsActive
    <3>3. pc'[p] = "start" /\ \A q \in Pods \ {p} : pc'[q] = pc[q]
      BY <2>1, <1>t DEF TypedInv, TypeOK
    <3>4. Phase' = [Phase EXCEPT ![p] = "start"]
      BY <3>3 DEF Phase, IsActive
    <3> QED
      BY <3>2, <3>4
  <2>3. pc'[p] = "start"
    BY <2>1, <1>t
  <2>4. ChecksNothing(p)
    BY <2>3 DEF ChecksNothing, Checked, Passed, IsActive
  <2>5. Seen' = [Seen EXCEPT ![p] = {}]
    BY <1>2, <2>4, NothingSeen DEF Seen
  <2> QED
    BY <2>1, <2>2, <2>5 DEF Contract!Again, Contract!Goto, Contract!Next
<1> QED
  BY <1>3, <1>4, <1>5, <1>6, <1>7, <1>8
  DEF Proceed, Get, Post, LoadFails, GetFails, NoUpdates, PostUpdate, PostDryRun, PostFails,
      PostAnswerLost, IsActive

(***************************************************************************)
(* bundle-sync keeps its promise, with any number of pods and versions.    *)
(***************************************************************************)
THEOREM KeepsSyncContractAlways == Spec => KeepsSyncContract
<1>1. TypedInv /\ TypedInv' /\ [Next]_vars => [Contract!Next]_Contract!vars
  <2> SUFFICES ASSUME TypedInv, TypedInv', [Next]_vars PROVE [Contract!Next]_Contract!vars
    OBVIOUS
  <2>1. CASE UNCHANGED vars
    <3>1. UNCHANGED <<deployed, rules, pc, loaded, index, current>>
      BY <2>1 DEF vars
    <3>2. Phase' = Phase
      BY <3>1 DEF Phase, IsActive
    <3>3. Seen' = Seen
      BY <3>1 DEF Seen, Checked, Passed, IsActive, Config
    <3> QED
      BY <3>1, <3>2, <3>3 DEF Contract!vars
  <2>2. CASE Deploy
    <3>1. UNCHANGED <<rules, pc, loaded, index, current>>
      BY <2>2 DEF Deploy
    <3>2. Phase' = Phase
      BY <3>1 DEF Phase, IsActive
    <3>3. Seen' = Seen
      BY <3>1 DEF Seen, Checked, Passed, IsActive, Config
    <3> QED
      BY <2>2, <3>1, <3>2, <3>3 DEF Deploy, Contract!Deploy, Contract!Next
  <2>3. ASSUME NEW p \in Pods, Proceed(p) \/ Replace(p) PROVE Contract!Next
    BY <2>3, ProceedKeepsSync
  <2> QED
    BY <2>1, <2>2, <2>3 DEF Next
<1> QED
  BY <1>1, InitKeepsSync, InitTyped, NextTyped, PTL DEF Spec, KeepsSyncContract, Contract!Spec
=============================================================================
