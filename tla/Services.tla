------------------------------ MODULE Services ------------------------------
(***************************************************************************)
(* GET /api/entitlements/v1/services: the request handlers of one API pod, *)
(* the feature cache and the lazily built query they share without a lock, *)
(* and the IT Feature Service they ask over the network.                   *)
(*                                                                         *)
(* net/http runs every request in a goroutine of its own; a member of      *)
(* Handlers is one such goroutine, reused when its request is finished.    *)
(* A handler's step is what it does between two accesses to something it   *)
(* shares: the cache, the two globals, the network.  Time passes (Tick)    *)
(* only while every busy handler waits for the network: a handler's own    *)
(* computation takes no time compared with the cache's time to live.       *)
(***************************************************************************)
EXTENDS ServicesConfig, FiniteSets

VARIABLES
  paidFeatureSuffix,  \* global: NoSuffix until a handler has built the query
  featuresQuery,      \* global: "unset", "torn" while it is being stored, "built"
  cache,              \* organisation -> entry, for the organisations in the cache
  pc,                 \* the step each handler is at
  request,            \* the request it serves
  result,             \* the FeatureResponse it works with
  reply,              \* what it has written to the client
  waited,             \* ticks since its request arrived
  answer,             \* the Feature Service's answer on its way to the handler
  owned,              \* the Feature Service's truth: what each organisation holds
  age                 \* history: ticks since it last held each of the Holdings

globals  == <<paidFeatureSuffix, featuresQuery>>
upstream == <<owned, age>>
vars     == <<globals, cache, pc, request, result, reply, waited, answer, upstream>>

----------------------------------------------------------------------------
(***************************************************************************)
(* Payloads.  origin is a history field, read by no guard: what made the   *)
(* feature set what it is.  "answer": a 200 read in full; "garbled": a 200 *)
(* whose body was cut off or not the expected JSON; "failure": an error or *)
(* another status; "none": nobody was asked.                               *)
(***************************************************************************)
Origins == {"none", "answer", "garbled", "failure"}

Steps == {"idle", "lookup", "query", "suffix", "store", "stored",
          "await", "answered", "evaluate", "replied"}

\* The steps at which a handler waits for the network.
InFlight == {"await", "answered"}

\* A FeatureResponse.
Result(code, error, hit, features, origin) ==
  [code |-> code, error |-> error, cacheHit |-> hit,
   features |-> features, origin |-> origin]

NoResult == Result(0, FALSE, FALSE, {}, "none")
NoSections == [n \in {} |-> [isEntitled |-> FALSE, isTrial |-> FALSE]]
NoReply  == [status |-> 0, degraded |-> FALSE, degradedStatus |-> 0, sections |-> NoSections]
NoAnswer == [code |-> 0, features |-> {}]
AnyRequest == CHOOSE q \in Requests : TRUE

\* Mutant of Entry: the entry lives longer by the time the call may take.
EntryLonger(features, origin) ==
  [features |-> features, origin |-> origin, ttl |-> CacheDuration + ClientTimeout]

Entry(features, origin) ==
  [features |-> features, origin |-> origin, ttl |-> CacheDuration]

EmptyCache == [o \in {} |-> Entry({}, "none")]

\* ccache: an entry is expired once its deadline lies in the past.
Expired(entry) == entry.ttl < 0

Set(o, entry) ==
  cache' = [x \in DOMAIN cache \cup {o} |-> IF x = o THEN entry ELSE cache[x]]

Org(r) == request[r].org

Goto(r, step) == pc' = [pc EXCEPT ![r] = step]

Init ==
  /\ paidFeatureSuffix = NoSuffix
  /\ featuresQuery = "unset"
  /\ cache = EmptyCache
  /\ pc = [r \in Handlers |-> "idle"]
  /\ request = [r \in Handlers |-> AnyRequest]
  /\ result = [r \in Handlers |-> NoResult]
  /\ reply = [r \in Handlers |-> NoReply]
  /\ waited = [r \in Handlers |-> 0]
  /\ answer = [r \in Handlers |-> NoAnswer]
  /\ owned \in [Orgs -> Holdings]
  /\ age = [o \in Orgs |->
              [f \in Holdings |-> IF f = owned[o] THEN 0 ELSE Window + 1]]

----------------------------------------------------------------------------
\* A request arrives: its identity and query parameters are known.
Arrive(r) ==
  /\ pc[r] = "idle"
  /\ \E q \in Requests : request' = [request EXCEPT ![r] = q]
  /\ Goto(r, "lookup")
  /\ UNCHANGED <<globals, cache, result, reply, waited, answer, upstream>>

\* Mutant of Usable: the deadline of the item is not looked at.
UsableForever(r) == Org(r) \in DOMAIN cache /\ ~request[r].trialActivated

\* Mutant of Usable: trial_activated is not passed on.
UsableUnlessExpired(r) == Org(r) \in DOMAIN cache /\ ~Expired(cache[Org(r)])

\* The cached item may be used: it is there, not expired, and a live answer
\* was not asked for.
Usable(r) ==
  /\ Org(r) \in DOMAIN cache
  /\ ~Expired(cache[Org(r)])
  /\ ~request[r].trialActivated

\* GetFeatureStatus answers from the cache.
CacheHit(r) ==
  /\ pc[r] = "lookup"
  /\ Usable(r)
  /\ LET e == cache[Org(r)]
     IN  result' = [result EXCEPT ![r] = Result(200, FALSE, TRUE, e.features, e.origin)]
  /\ Goto(r, "evaluate")
  /\ UNCHANGED <<globals, cache, request, reply, waited, answer, upstream>>

\* With ENT_ENTITLE_ALL = "true" it answers without features and without a call.
SkipUpstream(r) ==
  /\ pc[r] = "lookup"
  /\ ~Usable(r)
  /\ SkipsUpstream
  /\ result' = [result EXCEPT ![r] = Result(200, FALSE, FALSE, {}, "none")]
  /\ Goto(r, "evaluate")
  /\ UNCHANGED <<globals, cache, request, reply, waited, answer, upstream>>

CacheMiss(r) ==
  /\ pc[r] = "lookup"
  /\ ~Usable(r)
  /\ ~SkipsUpstream
  /\ Goto(r, "query")
  /\ UNCHANGED <<globals, cache, request, result, reply, waited, answer, upstream>>

(***************************************************************************)
(* featuresQuery == "" is read without a lock.  A Go string is a length    *)
(* and a pointer, stored one after the other: while another handler is     *)
(* between the two stores ("torn"), a reader may see no query, the whole   *)
(* query, or a length without its bytes, which panics.                     *)
(***************************************************************************)
FindQuery(r) ==
  /\ pc[r] = "query"
  /\ featuresQuery \in {"built", "torn"}
  /\ Goto(r, "await")
  /\ UNCHANGED <<globals, cache, request, result, reply, waited, answer, upstream>>

FindNoQuery(r) ==
  /\ pc[r] = "query"
  /\ featuresQuery \in {"unset", "torn"}
  /\ Goto(r, "suffix")
  /\ UNCHANGED <<globals, cache, request, result, reply, waited, answer, upstream>>

\* middleware.Recoverer turns the panic into a 500.
FindTornQuery(r) ==
  /\ pc[r] = "query"
  /\ featuresQuery = "torn"
  /\ reply' = [reply EXCEPT ![r] = [NoReply EXCEPT !.status = 500]]
  /\ Goto(r, "replied")
  /\ UNCHANGED <<globals, cache, request, result, waited, answer, upstream>>

\* Mutant of SetSuffix: the query is published before the suffix is set.
SetSuffixLate(r) ==
  \/ /\ pc[r] = "suffix"
     /\ featuresQuery' = "built"
     /\ Goto(r, "late")
     /\ UNCHANGED <<paidFeatureSuffix, cache, request, result, reply, waited, answer, upstream>>
  \/ /\ pc[r] = "late"
     /\ paidFeatureSuffix' = PaidFeatureSuffix
     /\ Goto(r, "await")
     /\ UNCHANGED <<featuresQuery, cache, request, result, reply, waited, answer, upstream>>

\* Mutant of SetSuffix: a local variable is set instead of the global.
SetSuffixLocally(r) ==
  /\ pc[r] = "suffix"
  /\ Goto(r, "store")
  /\ UNCHANGED <<globals, cache, request, result, reply, waited, answer, upstream>>

\* setFeaturesQuery sets the suffix first and the query last; then the
\* handler sends its request.
SetSuffix(r) ==
  /\ pc[r] = "suffix"
  /\ paidFeatureSuffix' = PaidFeatureSuffix
  /\ Goto(r, "store")
  /\ UNCHANGED <<featuresQuery, cache, request, result, reply, waited, answer, upstream>>

StoreQueryLength(r) ==
  /\ pc[r] = "store"
  /\ featuresQuery' = IF featuresQuery = "unset" THEN "torn" ELSE featuresQuery
  /\ Goto(r, "stored")
  /\ UNCHANGED <<paidFeatureSuffix, cache, request, result, reply, waited, answer, upstream>>

StoreQueryPointer(r) ==
  /\ pc[r] = "stored"
  /\ featuresQuery' = "built"
  /\ Goto(r, "await")
  /\ UNCHANGED <<paidFeatureSuffix, cache, request, result, reply, waited, answer, upstream>>

----------------------------------------------------------------------------
\* The Feature Service handles the request: from here on its answer is fixed.
Respond(r) ==
  /\ pc[r] = "await"
  /\ \E a \in {[code |-> 200, features |-> owned[Org(r)] \cap Query]}
               \cup {[code |-> c, features |-> {}] : c \in FailureCodes} :
       answer' = [answer EXCEPT ![r] = a]
  /\ Goto(r, "answered")
  /\ UNCHANGED <<globals, cache, request, result, reply, waited, upstream>>

\* Whatever came back is cached and returned; an answer in flight is consumed.
Conclude(r, res) ==
  /\ Set(Org(r), Entry(res.features, res.origin))
  /\ result' = [result EXCEPT ![r] = res]
  /\ answer' = [answer EXCEPT ![r] = NoAnswer]
  /\ Goto(r, "evaluate")
  /\ UNCHANGED <<globals, request, reply, waited, upstream>>

\* A 200 whose body arrives whole.
ReceiveFeatures(r) ==
  /\ pc[r] = "answered"
  /\ answer[r].code = 200
  /\ Conclude(r, Result(200, FALSE, FALSE, answer[r].features, "answer"))

(***************************************************************************)
(* A 200 whose body is cut off (by the network, or by the client's timeout,*)
(* which covers reading it) or is not what json.Unmarshal expects.  Both   *)
(* errors are dropped: nothing is decoded, or the part that fits.          *)
(***************************************************************************)
ReceiveGarbled(r) ==
  /\ pc[r] = "answered"
  /\ answer[r].code = 200
  /\ \E part \in {{}} \cup ((SUBSET answer[r].features) \ {answer[r].features}) :
       Conclude(r, Result(200, FALSE, FALSE, part, "garbled"))

\* Another status: the empty feature set is cached.
ReceiveFailure(r) ==
  /\ pc[r] = "answered"
  /\ answer[r].code # 200
  /\ Conclude(r, Result(answer[r].code, FALSE, FALSE, {}, "failure"))

\* The connection fails before the status line arrives: no status at all.
ConnectionError(r) ==
  /\ pc[r] \in InFlight
  /\ Conclude(r, Result(0, TRUE, FALSE, {}, "failure"))

\* Mutant of Timeout: the client waits one tick more than anybody else grants it.
TimeoutLate(r) ==
  /\ pc[r] \in InFlight
  /\ waited[r] > ClientTimeout
  /\ Conclude(r, Result(0, TRUE, FALSE, {}, "failure"))

\* The client gives up.
Timeout(r) ==
  /\ pc[r] \in InFlight
  /\ waited[r] = ClientTimeout
  /\ Conclude(r, Result(0, TRUE, FALSE, {}, "failure"))

----------------------------------------------------------------------------
\* Mutant of IsCachedFailClosed: a cache hit is never degraded.
NeverCachedFailClosed(res) == FALSE

IsCachedFailClosed(res) == res.cacheHit /\ res.features = {}

\* Mutant of IsDegraded: a status other than 200 is not an error.
IsDegradedByErrors(res) == res.error \/ IsCachedFailClosed(res)

IsDegraded(res) ==
  \/ res.error
  \/ ~res.error /\ res.code # 200
  \/ IsCachedFailClosed(res)

\* The handler builds the map and writes the response, headers first.
Evaluate(r) ==
  /\ pc[r] = "evaluate"
  /\ LET q   == request[r]
         res == result[r]
     IN  reply' = [reply EXCEPT ![r] =
           [status         |-> 200,
            degraded       |-> IsDegraded(res),
            degradedStatus |-> IF IsDegraded(res) /\ ~IsCachedFailClosed(res)
                               THEN res.code ELSE 0,
            sections       |-> Sections(q, res.features, paidFeatureSuffix)]]
  /\ Goto(r, "replied")
  /\ UNCHANGED <<globals, cache, request, result, waited, answer, upstream>>

\* The goroutine ends; its locals are gone.
Finish(r) ==
  /\ pc[r] = "replied"
  /\ Goto(r, "idle")
  /\ request' = [request EXCEPT ![r] = AnyRequest]
  /\ result' = [result EXCEPT ![r] = NoResult]
  /\ reply' = [reply EXCEPT ![r] = NoReply]
  /\ waited' = [waited EXCEPT ![r] = 0]
  /\ UNCHANGED <<globals, cache, answer, upstream>>

----------------------------------------------------------------------------
\* An organisation buys, activates a trial, or loses a subscription.
ChangeOwned(o) ==
  /\ \E f \in Holdings \ {owned[o]} :
       /\ owned' = [owned EXCEPT ![o] = f]
       /\ age' = [age EXCEPT ![o][f] = 0]
  /\ UNCHANGED <<globals, cache, pc, request, result, reply, waited, answer>>

\* ccache prunes entries once it holds more than its maximum.
Evict(o) ==
  /\ o \in DOMAIN cache
  /\ Cardinality(DOMAIN cache) > CacheMaxSize
  /\ cache' = [x \in DOMAIN cache \ {o} |-> cache[x]]
  /\ UNCHANGED <<globals, pc, request, result, reply, waited, answer, upstream>>

\* The pod crashes or is replaced: nothing it held survives.
Restart ==
  /\ paidFeatureSuffix' = NoSuffix
  /\ featuresQuery' = "unset"
  /\ cache' = EmptyCache
  /\ pc' = [r \in Handlers |-> "idle"]
  /\ request' = [r \in Handlers |-> AnyRequest]
  /\ result' = [r \in Handlers |-> NoResult]
  /\ reply' = [r \in Handlers |-> NoReply]
  /\ waited' = [r \in Handlers |-> 0]
  /\ answer' = [r \in Handlers |-> NoAnswer]
  /\ UNCHANGED upstream

\* Time passes; a handler that has waited for the client's timeout acts first.
Tick ==
  /\ \A r \in Handlers : \/ pc[r] = "idle"
                         \/ pc[r] \in InFlight /\ waited[r] < ClientTimeout
  /\ waited' = [r \in Handlers |-> IF pc[r] \in InFlight THEN waited[r] + 1 ELSE waited[r]]
  /\ cache' = [o \in DOMAIN cache |->
                 [cache[o] EXCEPT !.ttl = IF @ < 0 THEN @ ELSE @ - 1]]
  /\ age' = [o \in Orgs |-> [f \in Holdings |->
               IF f = owned[o] THEN 0
               ELSE IF age[o][f] > Window THEN age[o][f] ELSE age[o][f] + 1]]
  /\ UNCHANGED <<globals, pc, request, result, reply, answer, owned>>

----------------------------------------------------------------------------
Compute(r) ==
  \/ CacheHit(r) \/ SkipUpstream(r) \/ CacheMiss(r)
  \/ FindQuery(r) \/ FindNoQuery(r) \/ FindTornQuery(r)
  \/ SetSuffix(r) \/ StoreQueryLength(r) \/ StoreQueryPointer(r)
  \/ Evaluate(r) \/ Finish(r)

Receive(r) ==
  \/ ReceiveFeatures(r) \/ ReceiveGarbled(r) \/ ReceiveFailure(r)
  \/ ConnectionError(r) \/ Timeout(r)

Next ==
  \/ \E r \in Handlers : Arrive(r) \/ Compute(r) \/ Respond(r) \/ Receive(r)
  \/ \E o \in Orgs : ChangeOwned(o) \/ Evict(o)
  \/ Restart
  \/ Tick

Spec == Init /\ [][Next]_vars

(***************************************************************************)
(* The scheduler runs every goroutine, the client's timer fires, and time  *)
(* passes: not only if it could pass forever, since the steps of other     *)
(* requests, which take no time here, keep interrupting it.  Nothing is    *)
(* assumed of the Feature Service or the network.                          *)
(***************************************************************************)
Fairness ==
  /\ \A r \in Handlers : WF_vars(Compute(r)) /\ WF_vars(Timeout(r))
  /\ SF_vars(Tick)

FairSpec == Spec /\ Fairness

----------------------------------------------------------------------------
(***************************************************************************)
(* Properties.                                                             *)
(***************************************************************************)
Codes == {0, 200} \cup FailureCodes

SectionMaps ==
  UNION {[S -> EntitlementsSection] : S \in SUBSET {b.name : b \in Listed(BundleInfo)}}

\* Type invariant: the values the handlers' locals, the globals and the cache
\* may hold.
TypeOK ==
  /\ paidFeatureSuffix \in {NoSuffix, PaidFeatureSuffix}
  /\ featuresQuery \in {"unset", "torn", "built"}
  /\ DOMAIN cache \subseteq Orgs
  /\ \A o \in DOMAIN cache :
       cache[o] \in [features : SUBSET Query, origin : Origins, ttl : -1..CacheDuration]
  /\ pc \in [Handlers -> Steps]
  /\ request \in [Handlers -> Requests]
  /\ result \in [Handlers -> [code : Codes, error : BOOLEAN, cacheHit : BOOLEAN,
                              features : SUBSET Query, origin : Origins]]
  /\ reply \in [Handlers -> [status : {0, 200, 500}, degraded : BOOLEAN,
                             degradedStatus : Codes, sections : SectionMaps]]
  /\ waited \in [Handlers -> 0..ClientTimeout]
  /\ answer \in [Handlers -> [code : Codes, features : SUBSET Query]]
  /\ owned \in [Orgs -> Holdings]
  /\ age \in [Orgs -> [Holdings -> 0..(Window + 1)]]

Answered(r) == pc[r] = "replied" /\ reply[r].status = 200

HeldWithin(o, f, bound) == age[o][f] <= bound

(***************************************************************************)
(* Fail closed.  Whatever fails, and however stale the cache is, a bundle  *)
(* that depends on SKUs is granted only if the organisation held its       *)
(* feature within the time a cache entry plus one call may last, and it is *)
(* shown as paid only if the paid feature was held at the same moment.     *)
(***************************************************************************)
FailClosed ==
  \A r \in Handlers : Answered(r) /\ ~EntitlesEveryone =>
    \A n \in DOMAIN reply[r].sections :
      LET b == Named(BundleInfo, n)
          s == reply[r].sections[n]
      IN  IsSkuBased(b) /\ ~b.useIsInternal /\ s.isEntitled =>
            \E f \in Holdings :
              /\ HeldWithin(Org(r), f, Window)
              /\ Base(b.name) \in f
              /\ IsPaid(b) /\ ~s.isTrial => Suffixed(b.name, PaidFeatureSuffix) \in f

(***************************************************************************)
(* A reply without the degraded header whose data was read in full is      *)
(* exactly what the rules give for the organisation's holdings at one      *)
(* recent moment: nothing lost, nothing mixed from two moments, another    *)
(* organisation or a half-initialised suffix.                              *)
(***************************************************************************)
UndegradedIsASnapshot ==
  \A r \in Handlers :
    Answered(r) /\ ~reply[r].degraded /\ result[r].origin # "garbled" =>
      \E f \in Holdings :
        /\ HeldWithin(Org(r), f, Window)
        /\ reply[r].sections = Sections(request[r], f \cap Query, PaidFeatureSuffix)

(***************************************************************************)
(* trial_activated=true is served live: the features of the reply were     *)
(* held at a moment after the request arrived, never earlier.              *)
(***************************************************************************)
LiveWhenForced ==
  \A r \in Handlers :
    Answered(r) /\ request[r].trialActivated /\ ~SkipsUpstream =>
      \E f \in Holdings :
        /\ HeldWithin(Org(r), f, waited[r])
        /\ result[r].features \subseteq f
        /\ result[r].origin = "answer" => result[r].features = f \cap Query

(***************************************************************************)
(* A failed call is never silent: the reply of the request that met it and *)
(* every reply served from the entry it left in the cache carry the        *)
(* degraded header, and only the former the dependency's status.           *)
(***************************************************************************)
FailuresAreSignalled ==
  \A r \in Handlers :
    Answered(r) /\ result[r].origin = "failure" =>
      /\ reply[r].degraded
      /\ reply[r].degradedStatus \in FailureCodes => ~result[r].cacheHit

\* Every request is finished, or lost with its pod, though the Feature Service
\* may never answer.
EveryRequestEnds ==
  \A r \in Handlers : pc[r] = "lookup" ~> pc[r] = "idle"

(***************************************************************************)
(* ENT_ENTITLE_ALL = "true" mocks the calls to IT: no handler asks the     *)
(* Feature Service, and no caller is told of a degradation.  With that and *)
(* with every other text that reads as true nobody is refused a bundle;    *)
(* the other texts ask IT all the same.                                    *)
(***************************************************************************)
EntitleAllMocksIT ==
  /\ EntitleAll = "true" =>
       \A r \in Handlers : /\ pc[r] \notin InFlight
                           /\ Answered(r) => ~reply[r].degraded
  /\ EntitlesEveryone =>
       \A r \in Handlers : Answered(r) =>
         \A n \in DOMAIN reply[r].sections : reply[r].sections[n].isEntitled
=============================================================================
