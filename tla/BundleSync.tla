----------------------------- MODULE BundleSync -----------------------------
(***************************************************************************)
(* bundle-sync, the init container of every pod: it makes the SKU lists of *)
(* the IT Feature Service equal to those of bundles.yml, one feature after *)
(* the other, and exits at the first error; Kubernetes then starts it      *)
(* again.  The pods of a deployment run it at the same time, and pods of   *)
(* an older deployment may still be at it when the ConfigMap has changed.  *)
(***************************************************************************)
EXTENDS SyncConfig

VARIABLES
  deployed,  \* the version of bundles.yml in the ConfigMap
  rules,     \* the Feature Service: registered feature -> SKU list
  pc,        \* "start", "get", "compare", "post", "done" or "failed"
  loaded,    \* the version of bundles.yml a container has read
  index,     \* the place of the feature it is at
  current    \* the SKU list it has read from the Feature Service

vars == <<deployed, rules, pc, loaded, index, current>>

Init ==
  /\ deployed = 1
  /\ rules \in Registered
  /\ pc = [p \in Pods |-> "start"]
  /\ loaded = [p \in Pods |-> 1]
  /\ index = [p \in Pods |-> 1]
  /\ current = [p \in Pods |-> EmptyBag]

Config(p) == Configs[loaded[p]]

Endpoint(p) == FeatureAt(index[p])

Goto(p, step) == pc' = [pc EXCEPT ![p] = step]

Later(p) == {i \in Endpoints(Config(p)) : i > index[p]}

\* Mutant of NextEndpoint: the second half is counted, not looked up.
NextEndpointInOrder(p) ==
  /\ current' = [current EXCEPT ![p] = EmptyBag]
  /\ \/ /\ Later(p) = {}
        /\ Goto(p, "done")
        /\ index' = [index EXCEPT ![p] = 1]
     \/ /\ Later(p) # {}
        /\ Goto(p, "get")
        /\ index' = [index EXCEPT ![p] = @ + 1]

\* The feature is dealt with; after the last one the container has succeeded.
NextEndpoint(p) ==
  /\ current' = [current EXCEPT ![p] = EmptyBag]
  /\ \/ /\ Later(p) = {}
        /\ Goto(p, "done")
        /\ index' = [index EXCEPT ![p] = 1]
     \/ /\ Goto(p, "get")
        /\ \E i \in Later(p) : /\ \A j \in Later(p) : i <= j
                               /\ index' = [index EXCEPT ![p] = i]

\* Mutant of Fail: the error is logged and the container exits with success.
FailQuietly(p) ==
  /\ Goto(p, "done")
  /\ index' = [index EXCEPT ![p] = 1]
  /\ current' = [current EXCEPT ![p] = EmptyBag]
  /\ UNCHANGED <<deployed, rules, loaded>>

\* log.Fatalf, or a panic: the container exits with an error.
Fail(p) ==
  /\ Goto(p, "failed")
  /\ index' = [index EXCEPT ![p] = 1]
  /\ current' = [current EXCEPT ![p] = EmptyBag]
  /\ UNCHANGED <<deployed, rules, loaded>>

----------------------------------------------------------------------------
\* The certificates, or bundles.yml, cannot be read.
LoadFails(p) == pc[p] = "start" /\ Fail(p)

\* With RUN_BUNDLE_SYNC=false there is nothing to do.
Skip(p) ==
  /\ pc[p] = "start"
  /\ p \notin SyncPods
  /\ Goto(p, "done")
  /\ UNCHANGED <<deployed, rules, loaded, index, current>>

\* bundles.yml is read once, as the ConfigMap has it now.
Start(p) ==
  /\ pc[p] = "start"
  /\ p \in SyncPods
  /\ loaded' = [loaded EXCEPT ![p] = deployed]
  /\ Goto(p, "get")
  /\ UNCHANGED <<deployed, rules, index, current>>

\* Mutant of GetCurrent: 404 is an error like any other.
GetRegistered(p) ==
  /\ pc[p] = "get"
  /\ Endpoint(p) \in DOMAIN rules
  /\ current' = [current EXCEPT ![p] = rules[Endpoint(p)]]
  /\ Goto(p, "compare")
  /\ UNCHANGED <<deployed, rules, loaded, index>>

\* GET of the feature: its list, or 404, which counts as an empty one.
GetCurrent(p) ==
  /\ pc[p] = "get"
  /\ current' = [current EXCEPT ![p] =
                   IF Endpoint(p) \in DOMAIN rules THEN rules[Endpoint(p)] ELSE EmptyBag]
  /\ Goto(p, "compare")
  /\ UNCHANGED <<deployed, rules, loaded, index>>

\* No status but 404 is looked at: the JSON body of a 500 has no rules and
\* reads as an empty list.
GetErrorBody(p) ==
  /\ pc[p] = "get"
  /\ current' = [current EXCEPT ![p] = EmptyBag]
  /\ Goto(p, "compare")
  /\ UNCHANGED <<deployed, rules, loaded, index>>

\* A body that is no JSON, or no response: the latter is dereferenced before
\* err is checked and panics.
GetFails(p) == pc[p] = "get" /\ Fail(p)

\* Mutant of NoUpdates: the lists are compared by their lengths.
NoUpdatesSameLength(p) ==
  /\ pc[p] = "compare"
  /\ BagCardinality(current[p]) = BagCardinality(Wanted(Config(p), Endpoint(p)))
  /\ NextEndpoint(p)
  /\ UNCHANGED <<deployed, rules, loaded>>

NoUpdates(p) ==
  /\ pc[p] = "compare"
  /\ current[p] = Wanted(Config(p), Endpoint(p))
  /\ NextEndpoint(p)
  /\ UNCHANGED <<deployed, rules, loaded>>

Differs(p) ==
  /\ pc[p] = "compare"
  /\ current[p] # Wanted(Config(p), Endpoint(p))
  /\ Goto(p, "post")
  /\ UNCHANGED <<deployed, rules, loaded, index, current>>

\* The upsert as the Feature Service performs it.
Upsert(f, skus) ==
  rules' = [g \in DOMAIN rules \cup {f} |-> IF g = f THEN skus ELSE rules[g]]

\* Mutant of PostUpdate: under the name of the bundle, not of the feature.
PostUpdateOfBundle(p) ==
  /\ pc[p] = "post"
  /\ p \notin DryRunPods
  /\ Upsert(FeatureAt(IF index[p] <= Len(Features) THEN index[p] ELSE index[p] - Len(Features)),
            Wanted(Config(p), Endpoint(p)))
  /\ NextEndpoint(p)
  /\ UNCHANGED <<deployed, loaded>>

\* POST, answered with 204.
PostUpdate(p) ==
  /\ pc[p] = "post"
  /\ p \notin DryRunPods
  /\ Upsert(Endpoint(p), Wanted(Config(p), Endpoint(p)))
  /\ NextEndpoint(p)
  /\ UNCHANGED <<deployed, loaded>>

\* With --dry-run the update is printed and counts as done.
PostDryRun(p) ==
  /\ pc[p] = "post"
  /\ p \in DryRunPods
  /\ NextEndpoint(p)
  /\ UNCHANGED <<deployed, rules, loaded>>

\* The POST is refused, or never arrives.
PostFails(p) == pc[p] = "post" /\ p \notin DryRunPods /\ Fail(p)

\* The POST is performed but its answer is lost.
PostAnswerLost(p) ==
  /\ pc[p] = "post"
  /\ p \notin DryRunPods
  /\ Upsert(Endpoint(p), Wanted(Config(p), Endpoint(p)))
  /\ Goto(p, "failed")
  /\ index' = [index EXCEPT ![p] = 1]
  /\ current' = [current EXCEPT ![p] = EmptyBag]
  /\ UNCHANGED <<deployed, loaded>>

----------------------------------------------------------------------------
\* Kubernetes starts a failed init container again.
Restart(p) ==
  /\ pc[p] = "failed"
  /\ Goto(p, "start")
  /\ UNCHANGED <<deployed, rules, loaded, index, current>>

\* A pod whose container has run is replaced by a new one.
Replace(p) ==
  /\ pc[p] = "done"
  /\ Goto(p, "start")
  /\ UNCHANGED <<deployed, rules, loaded, index, current>>

\* The ConfigMap gets the next version of bundles.yml.
Deploy ==
  /\ deployed < Len(Configs)
  /\ deployed' = deployed + 1
  /\ UNCHANGED <<rules, pc, loaded, index, current>>

Get(p)  == GetCurrent(p) \/ GetErrorBody(p) \/ GetFails(p)
Post(p) == PostUpdate(p) \/ PostDryRun(p) \/ PostFails(p) \/ PostAnswerLost(p)

Proceed(p) ==
  \/ LoadFails(p) \/ Skip(p) \/ Start(p) \/ Get(p) \/ NoUpdates(p) \/ Differs(p) \/ Post(p)
  \/ Restart(p)

Next ==
  \/ \E p \in Pods : Proceed(p) \/ Replace(p)
  \/ Deploy

Spec == Init /\ [][Next]_vars

(***************************************************************************)
(* A container runs on and Kubernetes restarts it; files and requests that *)
(* are tried again and again can be read, or succeed, at some time.  Pods  *)
(* need not be replaced, nor the ConfigMap changed.                        *)
(***************************************************************************)
Fairness ==
  /\ \A p \in Pods : WF_vars(Proceed(p)) /\ SF_vars(Skip(p) \/ Start(p))
  /\ \A p \in SyncPods : \A i \in Places :
       /\ SF_vars(index[p] = i /\ GetCurrent(p))
       /\ SF_vars(index[p] = i /\ PostUpdate(p))

FairSpec == Spec /\ Fairness

----------------------------------------------------------------------------
(***************************************************************************)
(* Properties.                                                             *)
(***************************************************************************)
IsSkuList(b) == IsABag(b) /\ BagToSet(b) \subseteq Sku

IsRuleSet(r) ==
  DOMAIN r \subseteq {FeatureAt(i) : i \in Places} /\ \A f \in DOMAIN r : IsSkuList(r[f])

ASSUME RegisteredAssumption == \A r \in Registered : IsRuleSet(r)

\* Type invariant: in particular a container never loses its place.
TypeOK ==
  /\ deployed \in DOMAIN Configs
  /\ IsRuleSet(rules)
  /\ pc \in [Pods -> {"start", "get", "compare", "post", "done", "failed"}]
  /\ loaded \in [Pods -> 1..deployed]
  /\ index \in [Pods -> Places] /\ \A p \in Pods : index[p] \in Endpoints(Config(p))
  /\ DOMAIN current = Pods /\ \A p \in Pods : IsSkuList(current[p])

SkusIn(r, f) == IF f \in DOMAIN r THEN BagToSet(r[f]) ELSE {}

Skus(f) == SkusIn(rules, f)

(***************************************************************************)
(* While all containers work from one bundles.yml, whoever holds a paid    *)
(* feature holds the bundle's own feature too, wherever they fail and      *)
(* restart, so that no paying customer is refused: bundle-sync updates the *)
(* bundles' own features before it updates the paid ones.                  *)
(***************************************************************************)
PaidIsPartOfBase ==
  deployed = 1 => \A i \in DOMAIN Features :
    Skus(Suffixed(Features[i], PaidFeatureSuffix)) \subseteq Skus(Base(Features[i]))

IsSynced(f, info) == f \in DOMAIN rules /\ rules[f] = Wanted(info, f)

(***************************************************************************)
(* While all containers work from one bundles.yml, one that succeeds has   *)
(* left every feature that wants SKUs with exactly these, and the others,  *)
(* in whatever order they run, fail and restart, do not undo that.         *)
(***************************************************************************)
DoneMeansInSync ==
  deployed = 1 => \A p \in Syncing : pc[p] = "done" =>
    \A i \in Endpoints(Config(p)) :
      BagToSet(Wanted(Config(p), FeatureAt(i))) # {} => IsSynced(FeatureAt(i), Config(p))

\* Every container works from the bundles.yml deployed, and every feature that
\* wants SKUs has them.
InSync ==
  /\ \A p \in Syncing : loaded[p] = deployed
  /\ \A f \in Wanting[deployed] : IsSynced(f, Configs[deployed])

(***************************************************************************)
(* Once in sync the rules stay so until bundles.yml changes: pods that are *)
(* replaced and restarted, that take an error for an empty list or lose    *)
(* the answer to an update never take a SKU away, not even for a moment.   *)
(***************************************************************************)
StaysInSync == [][InSync /\ deployed' = deployed => InSync']_vars

\* The features an organisation with these SKUs holds, among those asked for.
HeldWith(skus, info) ==
  {f \in QueryFeatures(info, ToSet(Features), PaidFeatureSuffix) : Skus(f) \cap skus # {}}

\* The rollout is over: all containers have run with the bundles.yml deployed.
Settled == Syncing # {} /\ \A p \in Syncing : pc[p] = "done" /\ loaded[p] = deployed

\* A bundle lists either plain SKUs or paid ones, and perhaps trial ones.
IsClear(b) == IF IsPaid(b) THEN b.skus = <<>> /\ b.paidSkus # <<>> ELSE b.skus # <<>>

IsNamedOnce(b, info) == \A c \in Listed(info) : c.name = b.name => c = b

\* The section of the reply on bundle b for an organisation that owns the SKUs,
\* once the API runs with the deployed bundles.yml.
SectionFor(b, owned) ==
  Section(b, HeldWith(owned, Configs[deployed]), PaidFeatureSuffix,
          [validAccNum |-> TRUE, hasUser |-> FALSE,
           internal |-> FALSE, redHatEmail |-> FALSE], TRUE)

GrantsExactly(b, owned, s) ==
  /\ s.isEntitled <=> owned \cap (ToSet(b.skus) \cup ToSet(b.evalSkus) \cup ToSet(b.paidSkus)) # {}
  /\ s.isTrial <=> s.isEntitled /\ IsPaid(b) /\ owned \cap ToSet(b.paidSkus) = {}

(***************************************************************************)
(* End to end: whatever containers of old and new deployments did to each  *)
(* other's updates, once the rollout is over the API that runs with the    *)
(* deployed bundles.yml grants a bundle of FEATURES to exactly the         *)
(* organisations that own one of its SKUs, and calls it a trial exactly    *)
(* when they own none of its paid SKUs.                                    *)
(***************************************************************************)
SettledMeansEntitled ==
  Settled =>
    \A b \in Listed(Configs[deployed]) :
      ( /\ IsClear(b)
        /\ IsNamedOnce(b, Configs[deployed])
        /\ b.name \in ToSet(Features)
        /\ ~b.useIsInternal )
      => \A owned \in SUBSET Sku : GrantsExactly(b, owned, SectionFor(b, owned))

\* However often requests fail, every container finally succeeds and its pod
\* can start.
SyncEnds == \A p \in Pods : pc[p] = "start" ~> pc[p] = "done"

(***************************************************************************)
(* docs/ARCHITECTURE.md:216: the sync "ensures the Feature Service has     *)
(* correct SKU-to-feature mappings before the API starts".  Without the    *)
(* conditions of DoneMeansInSync the code does not: when no SKUs are       *)
(* wanted an error passes for an answer (see GetErrorBody).                *)
(***************************************************************************)
EnsuresMappings ==
  \A p \in Syncing : pc[p] = "done" =>
    \A i \in Endpoints(Config(p)) :
      Skus(FeatureAt(i)) = BagToSet(Wanted(Config(p), FeatureAt(i)))
----------------------------------------------------------------------------
(***************************************************************************)
(* The inductive invariant.  A container has checked a feature when it is  *)
(* past it, or has read the list it wants.  What no container needs to     *)
(* check again with the bundles.yml deployed, is in sync with it: whoever  *)
(* still works from an older one, or has failed, comes again.              *)
(***************************************************************************)
IsActive(p) == pc[p] \in {"get", "compare", "post"}

Passed(p, i) == pc[p] = "done" \/ (IsActive(p) /\ i < index[p])

Checked(p, i) ==
  \/ Passed(p, i)
  \/ pc[p] = "compare" /\ index[p] = i /\ current[p] = Wanted(Config(p), FeatureAt(i))

PlaceInv ==
  \A p \in Pods : /\ IsActive(p) => p \in SyncPods
                  /\ ~IsActive(p) => index[p] = 1

FirstInv ==
  deployed = 1 => \A p \in Syncing : \A i \in Endpoints(Configs[1]) :
    Checked(p, i) /\ Wants(Configs[1], i) => IsSynced(FeatureAt(i), Configs[1])

LatestInv ==
  Syncing # {} => \A i \in Endpoints(Configs[deployed]) : Wants(Configs[deployed], i) =>
    \/ IsSynced(FeatureAt(i), Configs[deployed])
    \/ \E p \in Syncing : loaded[p] < deployed \/ ~Checked(p, i)

SyncInv == TypeOK /\ PlaceInv /\ FirstInv /\ LatestInv

(***************************************************************************)
(* What the Feature Service starts with gives a paid feature no SKU that   *)
(* it will not have, nor one that the bundle's own feature lacks; and      *)
(* bundles.yml names every bundle once.                                    *)
(***************************************************************************)
FitsFirst(r) ==
  \A i \in DOMAIN Features :
    LET f == Suffixed(Features[i], PaidFeatureSuffix)
    IN  SkusIn(r, f) \subseteq BagToSet(Wanted(Configs[1], f)) \cap SkusIn(r, Base(Features[i]))

StartsClean ==
  /\ \A r \in Registered : FitsFirst(r)
  /\ \A b \in Listed(Configs[1]) : IsNamedOnce(b, Configs[1])

PaidInv == deployed = 1 => FitsFirst(rules)
=============================================================================
