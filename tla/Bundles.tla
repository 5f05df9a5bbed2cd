------------------------------ MODULE Bundles ------------------------------
(***************************************************************************)
(* The rules of bundles.yml: what kind of bundle an entry is, which        *)
(* features of the IT Feature Service the API asks for, and how the        *)
(* handler of GET /services turns the features an organisation holds into  *)
(* the map  bundle name -> {is_entitled, is_trial}.                        *)
(*                                                                         *)
(* The module declares no state and no constants: the list of bundles, the *)
(* FEATURES setting and the suffix are parameters, so that the API server  *)
(* and the bundle-sync container can each apply the rules to their own     *)
(* configuration.                                                          *)
(***************************************************************************)
EXTENDS Naturals, Sequences

(***************************************************************************)
(* A bundle as it is read from bundles.yml.  Of a list of SKUs the API     *)
(* only asks whether it is empty; bundle-sync posts its contents.          *)
(***************************************************************************)
Bundle(Name, Sku) ==
  [name : Name, skus : Seq(Sku), evalSkus : Seq(Sku), paidSkus : Seq(Sku),
   useValidAccNum : BOOLEAN, useValidOrgId : BOOLEAN, useIsInternal : BOOLEAN]

IsPaid(b) == b.paidSkus # <<>> \/ b.evalSkus # <<>>

IsSkuBased(b) == b.skus # <<>> \/ IsPaid(b)

(***************************************************************************)
(* The program names a feature by a string: the bundle's name, or the name *)
(* with the paid suffix appended.  Here a feature is the pair of the two,  *)
(* so that appending a suffix that is still "" yields the bundle's own     *)
(* feature, as it does in the program.  (No bundle is named like another   *)
(* one with the suffix appended.)                                          *)
(***************************************************************************)
NoSuffix == ""

Base(name) == <<name, NoSuffix>>

Suffixed(name, suffix) == <<name, suffix>>

FeaturesOf(b, suffix) ==
  {Base(b.name)} \cup (IF IsPaid(b) THEN {Suffixed(b.name, suffix)} ELSE {})

Listed(info) == {info[i] : i \in DOMAIN info}

\* Mutant of QueryFeatures: the paid features are not asked for.
QueryBaseFeatures(info, features, suffix) ==
  {Base(b.name) : b \in {c \in Listed(info) : c.name \in features /\ IsSkuBased(c)}}

(***************************************************************************)
(* The features the API asks the Feature Service about: those of the       *)
(* SKU-based bundles that the FEATURES setting names.                      *)
(***************************************************************************)
QueryFeatures(info, features, suffix) ==
  UNION {FeaturesOf(b, suffix) :
           b \in {c \in Listed(info) : c.name \in features /\ IsSkuBased(c)}}

----------------------------------------------------------------------------
(***************************************************************************)
(* The identity of the caller.  A service account has no user, so it is    *)
(* neither internal nor has it a redhat.com address.                       *)
(***************************************************************************)
Identity ==
  [validAccNum : BOOLEAN, hasUser : BOOLEAN, internal : BOOLEAN, redHatEmail : BOOLEAN]

IsInternalUser(id) == id.hasUser /\ id.internal /\ id.redHatEmail

EntitlementsSection == [isEntitled : BOOLEAN, isTrial : BOOLEAN]

\* Mutant of Section: the test for the paid feature is inverted.
SectionTrialIfPaid(b, held, suffix, id, validOrg) ==
  [isEntitled |-> IsSkuBased(b) => Base(b.name) \in held,
   isTrial    |-> IsPaid(b) /\ Suffixed(b.name, suffix) \in held]

(***************************************************************************)
(* One turn of the handler's loop: the section of bundle b for a caller    *)
(* whose organisation is known to hold the features held.  use_is_internal *)
(* replaces every other criterion; is_trial is left as the SKUs made it.   *)
(***************************************************************************)
Section(b, held, suffix, id, validOrg) ==
  LET held_b   == Base(b.name) \in held
      criteria == /\ IsSkuBased(b) => held_b
                  /\ b.useValidAccNum => id.validAccNum
                  /\ b.useValidOrgId => validOrg
  IN  [isEntitled |-> IF b.useIsInternal THEN id.validAccNum /\ IsInternalUser(id)
                                         ELSE criteria,
       isTrial    |-> /\ IsSkuBased(b) /\ held_b /\ IsPaid(b)
                      /\ Suffixed(b.name, suffix) \notin held]

\* Mutant of Selected: both filters are applied.
SelectedByBoth(info, include, exclude) ==
  {b.name : b \in {c \in Listed(info) :
                     /\ include # {} => c.name \in include
                     /\ c.name \notin exclude}}

(***************************************************************************)
(* The bundles a request asks for.  An empty filter is no filter, and an   *)
(* include filter makes the exclude filter void.                           *)
(***************************************************************************)
Selected(info, include, exclude) ==
  LET names == {b.name : b \in Listed(info)}
  IN  IF include # {} THEN names \cap include ELSE names \ exclude

(***************************************************************************)
(* Of two entries with one name the later one decides: the loop overwrites *)
(* the map's entry.                                                        *)
(***************************************************************************)
Named(info, name) ==
  info[CHOOSE i \in DOMAIN info :
         /\ info[i].name = name
         /\ \A j \in DOMAIN info : j > i => info[j].name # name]

Entitlements(info, include, exclude, held, suffix, id, validOrg, entitleAll) ==
  [n \in Selected(info, include, exclude) |->
     IF entitleAll THEN [isEntitled |-> TRUE, isTrial |-> FALSE]
                   ELSE Section(Named(info, n), held, suffix, id, validOrg)]
=============================================================================
