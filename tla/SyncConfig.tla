----------------------------- MODULE SyncConfig -----------------------------
(***************************************************************************)
(* What bundle-sync is configured with, and what bundles.yml wants of the  *)
(* IT Feature Service: shared by what bundle-sync promises (SyncContract)  *)
(* and by the program (BundleSync).                                        *)
(*                                                                         *)
(* SKU lists are compared after sorting, so a list is the bag of its SKUs. *)
(***************************************************************************)
EXTENDS Bundles, Integers, FiniteSets, Bags, SequencesExt

CONSTANTS
  Pods,               \* the pods whose init container runs
  SyncPods,           \* those with RUN_BUNDLE_SYNC set
  DryRunPods,         \* those (a developer's shell) that pass --dry-run
  Sku,                \* stock keeping units
  Configs,            \* the successive contents of bundles.yml in the ConfigMap
  Features,           \* the FEATURES setting, a sequence of bundle names
  PaidFeatureSuffix,  \* the suffix of the paid features
  Registered          \* the contents the Feature Service may start with

ASSUME SyncAssumption ==
  /\ SyncPods \subseteq Pods /\ DryRunPods \subseteq Pods
  /\ Configs \in Seq(Seq(Bundle(STRING, Sku))) /\ Configs # <<>>
  /\ Features \in Seq(STRING) /\ Features # <<>>
  /\ PaidFeatureSuffix \in STRING /\ PaidFeatureSuffix # NoSuffix

----------------------------------------------------------------------------
SortedList(s) == [k \in ToSet(s) |-> Cardinality({i \in DOMAIN s : s[i] = k})]

UniqueSkus(s) == SetToBag(ToSet(s))

\* Mutant of SkusFor: the paid SKUs are not added to the trial ones.
SkusForTrial(b, f) ==
  IF ~IsPaid(b) THEN SortedList(b.skus)
  ELSE UniqueSkus(IF f = Base(b.name) THEN b.evalSkus ELSE b.paidSkus)

(***************************************************************************)
(* bundles.yml as a map from features to SKU lists: a paid bundle becomes  *)
(* two, its name with all the SKUs and its paid name with the paid ones;   *)
(* of two entries for one feature the later one is kept.                   *)
(***************************************************************************)
SkusFor(b, f) ==
  IF ~IsPaid(b) THEN SortedList(b.skus)
  ELSE UniqueSkus(IF f = Base(b.name) THEN b.evalSkus \o b.paidSkus ELSE b.paidSkus)

Defines(b, f) == f \in FeaturesOf(b, PaidFeatureSuffix)

Latest(info, f) ==
  CHOOSE i \in DOMAIN info :
    Defines(info[i], f) /\ \A j \in DOMAIN info : j > i => ~Defines(info[j], f)

Defined(info) == UNION {FeaturesOf(b, PaidFeatureSuffix) : b \in Listed(info)}

BundlesConfig(info) == [f \in Defined(info) |-> SkusFor(info[Latest(info, f)], f)]

(***************************************************************************)
(* The features a container goes through: those of FEATURES first, then    *)
(* their paid ones, as far as bundles.yml defines them.  Their places are  *)
(* counted over both halves.                                               *)
(***************************************************************************)
Places == 1..(2 * Len(Features))

\* Mutant of FeatureAt: the paid features first.
FeatureAtPaidFirst(i) ==
  IF i <= Len(Features) THEN Suffixed(Features[i], PaidFeatureSuffix)
                        ELSE Base(Features[i - Len(Features)])

FeatureAt(i) ==
  IF i <= Len(Features) THEN Base(Features[i])
                        ELSE Suffixed(Features[i - Len(Features)], PaidFeatureSuffix)

Endpoints(info) == {i \in Places : i <= Len(Features) \/ FeatureAt(i) \in Defined(info)}

\* A feature of FEATURES that bundles.yml does not define wants no SKUs.
Wanted(info, f) ==
  IF f \in Defined(info) THEN BundlesConfig(info)[f] ELSE EmptyBag

Wants(info, i) == BagToSet(Wanted(info, FeatureAt(i))) # {}

\* The features that want SKUs of each version of bundles.yml.
Wanting == [v \in DOMAIN Configs |->
  {FeatureAt(i) : i \in {j \in Endpoints(Configs[v]) : Wants(Configs[v], j)}}]

\* The containers that do post what they find to differ.
Syncing == SyncPods \ DryRunPods
=============================================================================
