--------------------------- MODULE ServicesConfig ---------------------------
(***************************************************************************)
(* What GET /services is configured with and asked: shared by the contract *)
(* the endpoint offers (ServicesContract) and by the program (Services).   *)
(***************************************************************************)
EXTENDS Bundles, Integers

CONSTANTS
  Handlers,           \* goroutines serving /services
  Orgs,               \* organisations (org_id of the identity header)
  ValidOrgs,          \* those whose org_id is neither "" nor "-1"
  BundleInfo,         \* bundles.yml, as SetBundleInfo leaves it in bundleInfo
  Features,           \* the FEATURES setting
  PaidFeatureSuffix,  \* the suffix of the paid features
  EntitleAll,         \* the ENT_ENTITLE_ALL setting, a string
  Requests,           \* what a request may ask, a set of records
  Holdings,           \* the sets of features an organisation may come to hold
  FailureCodes,       \* the statuses other than 200 the Feature Service answers
  CacheDuration,      \* time to live of a cache entry, in ticks
  CacheMaxSize,       \* number of entries above which the cache prunes
  ClientTimeout       \* timeout of the HTTP client, in ticks

Request ==
  [org : Orgs, trialActivated : BOOLEAN, id : Identity,
   include : SUBSET {b.name : b \in Listed(BundleInfo)},
   exclude : SUBSET {b.name : b \in Listed(BundleInfo)}]

\* The URL's query; its content is the same whichever handler builds it.
Query == QueryFeatures(BundleInfo, Features, PaidFeatureSuffix)

ASSUME ConstantsAssumption ==
  /\ ValidOrgs \subseteq Orgs
  /\ PaidFeatureSuffix # NoSuffix
  /\ Requests # {} /\ Requests \subseteq Request
  /\ Holdings # {}
  /\ FailureCodes \subseteq Nat \ {0, 200}
  /\ CacheDuration \in Nat
  /\ CacheMaxSize \in Nat
  /\ ClientTimeout \in Nat

\* Mutant of SkipsUpstream: the early return is missing.
NeverSkips == FALSE

(***************************************************************************)
(* EntitleAll is compared with "true" before the call to the Feature       *)
(* Service and parsed as a Boolean when the response is built.             *)
(***************************************************************************)
SkipsUpstream     == EntitleAll = "true"
EntitlesEveryone  == EntitleAll \in {"true", "TRUE", "True", "t", "T", "1"}

\* How long ago the features of a reply may have been held: the life of a cache
\* entry that was filled by the slowest possible call.
Window == CacheDuration + ClientTimeout

\* What the rules of bundles.yml give the request q for the features held, by a
\* pod whose global holds the given suffix.
Sections(q, held, suffix) ==
  Entitlements(BundleInfo, q.include, q.exclude, held, suffix, q.id,
               q.org \in ValidOrgs, EntitlesEveryone)
=============================================================================
