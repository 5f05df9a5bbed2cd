---------------------------- MODULE BundleRules ----------------------------
(***************************************************************************)
(* The rules of Bundles put to every caller: a state is one evaluation of  *)
(* bundles.yml, a step changes one of its inputs.  The properties relate   *)
(* evaluations to each other and the evaluation to the query that fetched  *)
(* its data; they are not another wording of Section.                      *)
(***************************************************************************)
EXTENDS Bundles

CONSTANTS
  BundleInfo,         \* bundles.yml
  Features,           \* the FEATURES setting
  PaidFeatureSuffix,  \* the suffix of the paid features
  EntitleAll,         \* whether the setting entitles everyone
  Callers,            \* the identities that call
  Filters             \* the sets of names a filter may list

ASSUME RulesAssumption == BundleInfo \in Seq(Bundle(STRING, STRING))

VARIABLES
  held,      \* the features the Feature Service reports
  include,   \* the filters of the request
  exclude,
  id,        \* the caller
  validOrg   \* whether its org_id is valid

vars == <<held, include, exclude, id, validOrg>>

AllFeatures ==
  UNION {FeaturesOf(b, PaidFeatureSuffix) : b \in {c \in Listed(BundleInfo) : IsSkuBased(c)}}

Init ==
  /\ held = {} /\ include = {} /\ exclude = {} /\ validOrg = TRUE
  /\ id \in Callers

OtherHoldings == held' \in SUBSET AllFeatures /\ UNCHANGED <<include, exclude, id, validOrg>>
OtherCaller   == id' \in Callers /\ validOrg' \in BOOLEAN /\ UNCHANGED <<held, include, exclude>>
OtherFilters  ==
  include' \in Filters /\ exclude' \in Filters /\ UNCHANGED <<held, id, validOrg>>

Next == OtherHoldings \/ OtherCaller \/ OtherFilters

Spec == Init /\ [][Next]_vars

----------------------------------------------------------------------------
Reply(inc, exc, features) ==
  Entitlements(BundleInfo, inc, exc, features, PaidFeatureSuffix, id, validOrg, EntitleAll)

(***************************************************************************)
(* The query asks for whatever the evaluation will look at: for the        *)
(* bundles of FEATURES, knowing only the features of the query gives the   *)
(* same sections as knowing all.  setFeaturesQuery and the handler's loop  *)
(* name features independently of each other.                              *)
(***************************************************************************)
QueryIsEnough ==
  LET known == held \cap QueryFeatures(BundleInfo, Features, PaidFeatureSuffix)
  IN  \A n \in Features \cap DOMAIN Reply({}, {}, held) :
        Reply({}, {}, known)[n] = Reply({}, {}, held)[n]

(***************************************************************************)
(* A filter only selects: including some bundles and excluding the same    *)
(* bundles split the unfiltered reply in two, and a request that gives     *)
(* both filters is answered as if it had given the first.                  *)
(***************************************************************************)
FiltersOnlySelect ==
  include # {} =>
    LET all     == Reply({}, {}, held)
        kept    == Reply(include, {}, held)
        dropped == Reply({}, include, held)
    IN  /\ DOMAIN kept \cup DOMAIN dropped = DOMAIN all
        /\ DOMAIN kept \cap DOMAIN dropped = {}
        /\ \A n \in DOMAIN kept : kept[n] = all[n]
        /\ \A n \in DOMAIN dropped : dropped[n] = all[n]
        /\ Reply(include, exclude, held) = kept

(***************************************************************************)
(* An organisation that gets one more feature never loses a bundle, and    *)
(* a bundle it is told it has paid for does not turn into a trial.  A      *)
(* bundle for internal users with paid SKUs is left out: use_is_internal   *)
(* decides on the access alone and leaves is_trial to the SKUs, so that    *)
(* the trial feature makes a trial of what needed none.                    *)
(***************************************************************************)
MoreFeaturesNeverHurt ==
  [][held \subseteq held' /\ UNCHANGED <<id, validOrg>> =>
       \A n \in DOMAIN Reply({}, {}, held) :
         LET bundle == Named(BundleInfo, n)
             before == Reply({}, {}, held)[n]
             after  == Reply({}, {}, held')[n]
         IN  before.isEntitled /\ ~(bundle.useIsInternal /\ IsPaid(bundle)) =>
               after.isEntitled /\ (after.isTrial => before.isTrial)]_vars
=============================================================================
