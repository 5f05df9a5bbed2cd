----------------------- MODULE ServicesContractProofs -----------------------
(***************************************************************************)
(* What a client of GET /services is told of a failure, and that the       *)
(* program keeps the contract of the endpoint, for every value of the      *)
(* constants.                                                              *)
(***************************************************************************)
EXTENDS ServicesProofs, ServicesRefinement

\* What is known of one handler's result and reply.
SignalOK(r) ==
  /\ pc[r] = "evaluate" \/ Answered(r) => SignalsOf(result[r])
  /\ Answered(r) =>
       /\ reply[r].degraded <=> IsDegraded(result[r])
       /\ reply[r].degradedStatus # 0 => ~IsCachedFailClosed(result[r])

CacheSignals ==
  \A o \in DOMAIN cache : /\ cache[o].origin # "none"
                          /\ cache[o].origin = "failure" => cache[o].features = {}

LEMMA SignalParts == SignalInv <=> CacheSignals /\ \A r \in Handlers : SignalOK(r)
BY DEF SignalInv, CacheSignals, SignalOK

\* A step of one handler that leaves it well signalled, and the cache too.
LEMMA OthersSignal ==
  ASSUME SignalInv, NEW r \in Handlers, StepOf(r), CacheSignals', SignalOK(r)'
  PROVE  SignalInv'
<1>1. ASSUME NEW s \in Handlers, s # r PROVE SignalOK(s)'
  BY <1>1, SignalParts DEF StepOf, SignalOK, Answered
<1> QED
  BY <1>1 DEF SignalInv, CacheSignals, SignalOK

\* A step to a place where there is neither a result nor a reply.
LEMMA QuietSignal ==
  ASSUME SignalInv, NEW r \in Handlers, StepOf(r), UNCHANGED cache,
         pc'[r] \notin {"evaluate", "replied"}
  PROVE  SignalInv'
<1>1. CacheSignals'
  BY DEF SignalInv, CacheSignals
<1>2. SignalOK(r)'
  BY DEF SignalOK, Answered
<1> QED
  BY <1>1, <1>2, OthersSignal

\* What comes back from the network.
LEMMA ConcludeSignals ==
  ASSUME TypeOK, SignalInv, NEW r \in Handlers, NEW res,
         Conclude(r, res), res.origin # "none", SignalsOf(res)
  PROVE  SignalInv'
<1>1. pc'[r] = "evaluate" /\ result'[r] = res /\ StepOf(r)
  BY DEF Conclude, Goto, StepOf, TypeOK
<1>2. CacheSignals'
  <2>1. \A o \in DOMAIN cache' :
          \/ o \in DOMAIN cache /\ cache'[o] = cache[o]
          \/ cache'[o] = Entry(res.features, res.origin)
    BY DEF Conclude, Set
  <2> QED
    BY <2>1 DEF CacheSignals, SignalInv, Entry, SignalsOf
<1>3. SignalOK(r)'
  BY <1>1 DEF SignalOK, Answered
<1> QED
  BY <1>1, <1>2, <1>3, OthersSignal

LEMMA InitSignal == Init => SignalInv
  BY IdleTypes DEF Init, SignalInv, Answered

LEMMA NextSignal == TypeOK /\ SignalInv /\ [Next]_vars => SignalInv'
<1> SUFFICES ASSUME TypeOK, SignalInv, [Next]_vars PROVE SignalInv'
  OBVIOUS
<1>1. ASSUME NEW r \in Handlers,
             \/ Arrive(r) \/ CacheMiss(r) \/ FindQuery(r) \/ FindNoQuery(r) \/ SetSuffix(r)
             \/ StoreQueryLength(r) \/ StoreQueryPointer(r) \/ Respond(r) \/ Finish(r)
      PROVE  SignalInv'
  <2>1. StepOf(r) /\ UNCHANGED cache
    BY <1>1 DEF Arrive, CacheMiss, FindQuery, FindNoQuery, SetSuffix, StoreQueryLength,
                StoreQueryPointer, Respond, Finish, Goto, StepOf, TypeOK
  <2>2. pc'[r] \notin {"evaluate", "replied"}
    BY <1>1 DEF Arrive, CacheMiss, FindQuery, FindNoQuery, SetSuffix, StoreQueryLength,
                StoreQueryPointer, Respond, Finish, Goto, TypeOK
  <2> QED
    BY <2>1, <2>2, QuietSignal
<1>2. ASSUME NEW r \in Handlers, CacheHit(r) PROVE SignalInv'
  <2>1. StepOf(r) /\ UNCHANGED cache /\ pc'[r] = "evaluate" /\ Org(r) \in DOMAIN cache
    BY <1>2 DEF CacheHit, Usable, Goto, StepOf, TypeOK
  <2>2. result'[r] = Result(200, FALSE, TRUE, cache[Org(r)].features, cache[Org(r)].origin)
    BY <1>2 DEF CacheHit, TypeOK
  <2>3. SignalOK(r)'
    BY <2>1, <2>2 DEF SignalOK, SignalsOf, Answered, Result, SignalInv
  <2> QED
    BY <2>1, <2>3, OthersSignal DEF SignalInv, CacheSignals
<1>3. ASSUME NEW r \in Handlers, SkipUpstream(r) PROVE SignalInv'
  <2>1. StepOf(r) /\ UNCHANGED cache /\ pc'[r] = "evaluate" /\ SkipsUpstream
    BY <1>3 DEF SkipUpstream, Goto, StepOf, TypeOK
  <2>2. result'[r] = Result(200, FALSE, FALSE, {}, "none")
    BY <1>3 DEF SkipUpstream, TypeOK
  <2>3. SignalOK(r)'
    BY <2>1, <2>2 DEF SignalOK, SignalsOf, Answered, Result
  <2> QED
    BY <2>1, <2>3, OthersSignal DEF SignalInv, CacheSignals
<1>4. ASSUME NEW r \in Handlers, FindTornQuery(r) PROVE SignalInv'
  <2>1. StepOf(r) /\ UNCHANGED cache /\ pc'[r] = "replied" /\ reply'[r].status = 500
    BY <1>4 DEF FindTornQuery, Goto, StepOf, TypeOK, NoReply
  <2>2. SignalOK(r)'
    BY <2>1 DEF SignalOK, Answered
  <2> QED
    BY <2>1, <2>2, OthersSignal DEF SignalInv, CacheSignals
<1>5. ASSUME NEW r \in Handlers, Receive(r) PROVE SignalInv'
  <2> USE DEF Result, SignalsOf
  <2>1. CASE ReceiveFeatures(r)
    BY <2>1, ConcludeSignals DEF ReceiveFeatures
  <2>2. CASE ReceiveGarbled(r)
    <3>1. PICK part : Conclude(r, Result(200, FALSE, FALSE, part, "garbled"))
      BY <2>2 DEF ReceiveGarbled
    <3> QED
      BY <3>1, ConcludeSignals
  <2>3. CASE ReceiveFailure(r)
    BY <2>3, ConcludeSignals DEF ReceiveFailure
  <2>4. CASE ConnectionError(r) \/ Timeout(r)
    BY <2>4, ConcludeSignals DEF ConnectionError, Timeout
  <2> QED
    BY <1>5, <2>1, <2>2, <2>3, <2>4 DEF Receive
<1>6. ASSUME NEW r \in Handlers, Evaluate(r) PROVE SignalInv'
  <2>1. /\ StepOf(r) /\ UNCHANGED <<cache, result>>
        /\ pc[r] = "evaluate" /\ pc'[r] = "replied"
    BY <1>6 DEF Evaluate, Goto, StepOf, TypeOK
  <2>2. /\ reply'[r].degraded <=> IsDegraded(result[r])
        /\ reply'[r].degradedStatus # 0 => ~IsCachedFailClosed(result[r])
    BY <1>6 DEF Evaluate, TypeOK
  <2>3. SignalOK(r)'
    BY <2>1, <2>2 DEF SignalOK, SignalInv, IsDegraded, IsCachedFailClosed
  <2> QED
    BY <2>1, <2>3, OthersSignal DEF SignalInv, CacheSignals
<1>7. ASSUME NEW o \in Orgs, ChangeOwned(o) PROVE SignalInv'
  BY <1>7 DEF ChangeOwned, SignalInv, SignalsOf, Answered
<1>8. ASSUME NEW o \in Orgs, Evict(o) PROVE SignalInv'
  BY <1>8 DEF Evict, SignalInv, SignalsOf, Answered
<1>9. CASE Restart
  BY <1>9, IdleTypes DEF Restart, SignalInv, Answered
<1>10. CASE Tick
  <2>1. \A o \in DOMAIN cache' : /\ o \in DOMAIN cache
                                 /\ cache'[o].features = cache[o].features
                                 /\ cache'[o].origin = cache[o].origin
    BY <1>10 DEF Tick, TypeOK
  <2> QED
    BY <1>10, <2>1 DEF Tick, SignalInv, SignalsOf, Answered
<1>11. CASE UNCHANGED vars
  BY <1>11 DEF vars, SignalInv, SignalsOf, Answered
<1> QED
  BY <1>1, <1>2, <1>3, <1>4, <1>5, <1>6, <1>7, <1>8, <1>9, <1>10, <1>11
  DEF Next, Compute

LEMMA SignalInvariance == Spec => [](ServicesInv /\ SignalInv)
<1>1. ServicesInv => TypeOK
  BY DEF ServicesInv
<1> QED
  BY <1>1, Invariance, InitSignal, NextSignal, PTL DEF Spec

----------------------------------------------------------------------------
\* Without features no section depends on the suffix.
LEMMA SectionsOfNothing ==
  ASSUME NEW q, NEW s, NEW t
  PROVE  Sections(q, {}, s) = Sections(q, {}, t)
<1>1. \A b, id, v : Section(b, {}, s, id, v) = Section(b, {}, t, id, v)
  BY DEF Section
<1> QED
  BY <1>1 DEF Sections, Entitlements

\* Nor does one depend on the features if everyone is entitled.
LEMMA SectionsOfEveryone ==
  ASSUME EntitlesEveryone, NEW q, NEW held, NEW suffix, NEW g, NEW t
  PROVE  Sections(q, held, suffix) = Sections(q, g, t)
BY DEF Sections, Entitlements

LEMMA SkippingEntitles == SkipsUpstream => EntitlesEveryone
BY DEF SkipsUpstream, EntitlesEveryone

\* A reply's sections, as if the suffix had always been set.
LEMMA ReplySections ==
  ASSUME ServicesInv, NEW r \in Handlers, Answered(r)
  PROVE  reply[r].sections = Sections(request[r], result[r].features, PaidFeatureSuffix)
<1>1. PICK suffix \in {NoSuffix, PaidFeatureSuffix} :
        /\ result[r].features # {} => suffix = PaidFeatureSuffix
        /\ reply[r].sections = Sections(request[r], result[r].features, suffix)
  BY DEF ServicesInv, ReplyOK
<1> QED
  BY <1>1, SectionsOfNothing

\* What is recent enough for a request is recent.
LEMMA BoundInWindow ==
  ASSUME ServicesInv, NEW r \in Handlers, NEW f \in Holdings, age[Org(r)][f] <= Bound(r)
  PROVE  HeldWithin(Org(r), f, Window)
<1>1. waited[r] \in 0..ClientTimeout /\ age[Org(r)][f] \in Nat
  BY ConstantsAssumption DEF ServicesInv, TypeOK, Org, Request
<1> QED
  BY <1>1, ConstantsAssumption DEF Bound, Window, HeldWithin

(***************************************************************************)
(* A failed call is never silent: not for the request that met it, nor for *)
(* those that are served from the entry it left in the cache.              *)
(***************************************************************************)
THEOREM FailuresAreSignalledAlways == Spec => []FailuresAreSignalled
<1>1. ServicesInv /\ SignalInv => FailuresAreSignalled
  <2> SUFFICES ASSUME SignalInv, NEW r \in Handlers, Answered(r),
                      result[r].origin = "failure"
               PROVE  /\ reply[r].degraded
                      /\ reply[r].degradedStatus \in FailureCodes => ~result[r].cacheHit
    BY DEF FailuresAreSignalled
  <2>1. /\ result[r].features = {}
        /\ result[r].error \/ result[r].code # 200 \/ result[r].cacheHit
    BY DEF SignalInv, SignalsOf
  <2>2. reply[r].degraded
    BY <2>1 DEF SignalInv, IsDegraded, IsCachedFailClosed
  <2>3. reply[r].degradedStatus \in FailureCodes => ~result[r].cacheHit
    BY <2>1, ConstantsAssumption DEF SignalInv, IsCachedFailClosed
  <2> QED
    BY <2>2, <2>3
<1> QED
  BY <1>1, SignalInvariance, PTL

(***************************************************************************)
(* A reply without the degraded header, read in full, is what the rules    *)
(* give for the holdings of the caller's own organisation at one recent    *)
(* moment: for any number of organisations that share the cache and of     *)
(* handlers that race on the globals.                                      *)
(***************************************************************************)
THEOREM UndegradedIsASnapshotAlways == Spec => []UndegradedIsASnapshot
<1>1. ServicesInv /\ SignalInv => UndegradedIsASnapshot
  <2> SUFFICES ASSUME ServicesInv, SignalInv, NEW r \in Handlers, Answered(r),
                      ~reply[r].degraded, result[r].origin # "garbled"
               PROVE  \E f \in Holdings :
                        /\ HeldWithin(Org(r), f, Window)
                        /\ reply[r].sections = Sections(request[r], f \cap Query, PaidFeatureSuffix)
    BY DEF UndegradedIsASnapshot
  <2>1. PICK f \in Holdings : /\ age[Org(r)][f] <= Bound(r)
                              /\ result[r].origin = "answer" => result[r].features = f \cap Query
    BY DEF ServicesInv, ResultOK, Backed
  <2>2. HeldWithin(Org(r), f, Window)
    BY <2>1, BoundInWindow
  <2>3. reply[r].sections = Sections(request[r], result[r].features, PaidFeatureSuffix)
    BY ReplySections
  <2>4. result[r].origin # "failure"
    BY DEF SignalInv, SignalsOf, IsDegraded, IsCachedFailClosed
  <2>5. CASE result[r].origin = "answer"
    BY <2>1, <2>2, <2>3, <2>5
  <2>6. CASE result[r].origin = "none"
    <3>1. EntitlesEveryone
      BY <2>6, SkippingEntitles DEF SignalInv, SignalsOf
    <3>2. Sections(request[r], result[r].features, PaidFeatureSuffix)
            = Sections(request[r], f \cap Query, PaidFeatureSuffix)
      BY <3>1, SectionsOfEveryone
    <3> QED
      BY <2>2, <2>3, <3>2
  <2>7. result[r].origin \in {"none", "answer", "garbled", "failure"}
    BY DEF ServicesInv, TypeOK, Origins
  <2> QED
    BY <2>4, <2>5, <2>6, <2>7
<1> QED
  BY <1>1, SignalInvariance, PTL

----------------------------------------------------------------------------
\* What an organisation holds now is all it has held within the window.
Stable(o) == \A f \in Holdings : HeldWithin(o, f, Window) => f = owned[o]

(***************************************************************************)
(* A change arrives.  Once the holdings of an organisation have been the   *)
(* same for the life of a cache entry and one call, no reply grants a      *)
(* bundle for features that were lost, not even one that is degraded or    *)
(* was garbled; and a reply without either flaw says what is held now.     *)
(***************************************************************************)
ChangesArrive ==
  \A r \in Handlers : Answered(r) /\ Stable(Org(r)) =>
    /\ ~EntitlesEveryone =>
         \A n \in DOMAIN reply[r].sections :
           LET b == Named(BundleInfo, n)
           IN  IsSkuBased(b) /\ ~b.useIsInternal /\ reply[r].sections[n].isEntitled =>
                 Base(b.name) \in owned[Org(r)]
    /\ ~reply[r].degraded /\ result[r].origin # "garbled" =>
         reply[r].sections
           = Sections(request[r], owned[Org(r)] \cap Query, PaidFeatureSuffix)

\* Staleness ends after Window, whatever is in the cache by then.
THEOREM ChangesArriveAlways == Spec => []ChangesArrive
<1>1. FailClosed /\ UndegradedIsASnapshot => ChangesArrive
  <2> SUFFICES ASSUME FailClosed, UndegradedIsASnapshot,
                      NEW r \in Handlers, Answered(r), Stable(Org(r))
               PROVE  /\ ~EntitlesEveryone =>
                           \A n \in DOMAIN reply[r].sections :
                             IsSkuBased(Named(BundleInfo, n))
                               /\ ~Named(BundleInfo, n).useIsInternal
                               /\ reply[r].sections[n].isEntitled =>
                                 Base(Named(BundleInfo, n).name) \in owned[Org(r)]
                      /\ ~reply[r].degraded /\ result[r].origin # "garbled" =>
                           reply[r].sections
                             = Sections(request[r], owned[Org(r)] \cap Query, PaidFeatureSuffix)
    BY DEF ChangesArrive
  <2>1. ASSUME ~EntitlesEveryone, NEW n \in DOMAIN reply[r].sections,
               IsSkuBased(Named(BundleInfo, n)), ~Named(BundleInfo, n).useIsInternal,
               reply[r].sections[n].isEntitled
        PROVE  Base(Named(BundleInfo, n).name) \in owned[Org(r)]
    <3>1. PICK f \in Holdings : /\ HeldWithin(Org(r), f, Window)
                                /\ Base(Named(BundleInfo, n).name) \in f
      BY <2>1 DEF FailClosed
    <3> QED
      BY <3>1 DEF Stable
  <2>2. ASSUME ~reply[r].degraded, result[r].origin # "garbled"
        PROVE  reply[r].sections
                 = Sections(request[r], owned[Org(r)] \cap Query, PaidFeatureSuffix)
    <3>1. PICK f \in Holdings :
            /\ HeldWithin(Org(r), f, Window)
            /\ reply[r].sections = Sections(request[r], f \cap Query, PaidFeatureSuffix)
      BY <2>2 DEF UndegradedIsASnapshot
    <3> QED
      BY <3>1 DEF Stable
  <2> QED
    BY <2>1, <2>2
<1> QED
  BY <1>1, FailClosedAlways, UndegradedIsASnapshotAlways, PTL

----------------------------------------------------------------------------
\* Everybody means everybody, whatever the filters, the holdings and the caller.
LEMMA EveryoneIsEntitled ==
  ASSUME EntitlesEveryone, NEW q, NEW held, NEW suffix, NEW n \in DOMAIN Sections(q, held, suffix)
  PROVE  Sections(q, held, suffix)[n].isEntitled
BY DEF Sections, Entitlements

LEMMA InitMock == Init => MockInv
  BY IdleTypes DEF Init, MockInv, Answered, EmptyCache

LEMMA NextMock == TypeOK /\ MockInv /\ [Next]_vars => MockInv'
<1> SUFFICES ASSUME TypeOK, MockInv, [Next]_vars, SkipsUpstream PROVE MockInv'
  BY DEF MockInv
<1> DEFINE Quiet(r) == /\ pc[r] \in {"idle", "lookup", "evaluate", "replied"}
                       /\ pc[r] = "evaluate" => result[r] = Result(200, FALSE, FALSE, {}, "none")
                       /\ Answered(r) => ~reply[r].degraded
<1>q. DOMAIN cache = {} /\ \A r \in Handlers : Quiet(r)
  BY DEF MockInv
<1>1. ASSUME NEW r \in Handlers, StepOf(r), UNCHANGED cache, Quiet(r)' PROVE MockInv'
  <2>1. ASSUME NEW s \in Handlers, s # r PROVE Quiet(s)'
    <3>1. pc'[s] = pc[s] /\ result'[s] = result[s] /\ reply'[s] = reply[s]
      BY <1>1, <2>1 DEF StepOf
    <3>2. Quiet(s)
      BY <1>q
    <3> QED
      BY <3>1, <3>2 DEF Answered
  <2> QED
    BY <1>1, <1>q, <2>1 DEF MockInv
<1>2. ASSUME NEW r \in Handlers, Arrive(r) \/ Finish(r) PROVE MockInv'
  <2>1. StepOf(r) /\ UNCHANGED cache /\ pc'[r] \in {"idle", "lookup"}
    BY <1>2 DEF Arrive, Finish, Goto, StepOf, TypeOK
  <2> QED
    BY <1>1, <2>1 DEF Answered
<1>3. ASSUME NEW r \in Handlers, SkipUpstream(r) PROVE MockInv'
  <2>1. /\ StepOf(r) /\ UNCHANGED cache /\ pc'[r] = "evaluate"
        /\ result'[r] = Result(200, FALSE, FALSE, {}, "none")
    BY <1>3 DEF SkipUpstream, Goto, StepOf, TypeOK
  <2> QED
    BY <1>1, <2>1 DEF Answered
<1>4. ASSUME NEW r \in Handlers, Evaluate(r) PROVE MockInv'
  <2>1. /\ StepOf(r) /\ UNCHANGED cache
        /\ pc[r] = "evaluate" /\ pc'[r] = "replied"
        /\ reply'[r].degraded = IsDegraded(result[r])
    BY <1>4 DEF Evaluate, Goto, StepOf, TypeOK
  <2>2. ~IsDegraded(result[r])
    BY <1>q, <2>1 DEF IsDegraded, IsCachedFailClosed, Result
  <2> QED
    BY <1>1, <2>1, <2>2 DEF Answered
<1>5. ASSUME NEW r \in Handlers,
             \/ CacheHit(r) \/ CacheMiss(r) \/ FindQuery(r) \/ FindNoQuery(r) \/ FindTornQuery(r)
             \/ SetSuffix(r) \/ StoreQueryLength(r) \/ StoreQueryPointer(r)
             \/ Respond(r) \/ Receive(r)
      PROVE  FALSE
  <2>1. /\ pc[r] \notin {"query", "suffix", "store", "stored", "await", "answered"}
        /\ DOMAIN cache = {}
    BY <1>q
  <2>2. CASE CacheHit(r)
    BY <2>1, <2>2 DEF CacheHit, Usable
  <2>3. CASE CacheMiss(r)
    BY <2>3 DEF CacheMiss
  <2>4. CASE FindQuery(r) \/ FindNoQuery(r) \/ FindTornQuery(r)
    BY <2>1, <2>4 DEF FindQuery, FindNoQuery, FindTornQuery
  <2>5. CASE SetSuffix(r) \/ StoreQueryLength(r) \/ StoreQueryPointer(r)
    BY <2>1, <2>5 DEF SetSuffix, StoreQueryLength, StoreQueryPointer
  <2>6. CASE Respond(r)
    BY <2>1, <2>6 DEF Respond
  <2>7. CASE Receive(r)
    <3>1. CASE ReceiveFeatures(r) \/ ReceiveGarbled(r) \/ ReceiveFailure(r)
      BY <2>1, <3>1 DEF ReceiveFeatures, ReceiveGarbled, ReceiveFailure
    <3>2. CASE ConnectionError(r) \/ Timeout(r)
      BY <2>1, <3>2 DEF ConnectionError, Timeout, InFlight
    <3> QED
      BY <2>7, <3>1, <3>2 DEF Receive
  <2> QED
    BY <1>5, <2>2, <2>3, <2>4, <2>5, <2>6, <2>7
<1>6. ASSUME NEW o \in Orgs, ChangeOwned(o) \/ Evict(o) PROVE MockInv'
  <2>1. UNCHANGED <<cache, pc, result, reply>>
    BY <1>6, <1>q DEF ChangeOwned, Evict
  <2> QED
    BY <2>1, <1>q DEF MockInv, Answered
<1>7. CASE Restart
  BY <1>7, IdleTypes DEF Restart, MockInv, Answered, EmptyCache
<1>8. CASE Tick
  BY <1>8, <1>q DEF Tick, MockInv, Answered
<1>9. CASE UNCHANGED vars
  BY <1>9, <1>q DEF vars, MockInv, Answered
<1> QED
  BY <1>2, <1>3, <1>4, <1>5, <1>6, <1>7, <1>8, <1>9 DEF Next, Compute

(***************************************************************************)
(* ENT_ENTITLE_ALL: with "true" IT is never asked and nobody is told of a  *)
(* degradation; with whatever reads as true nobody is refused a bundle.    *)
(***************************************************************************)
THEOREM EntitleAllMocksITAlways == Spec => []EntitleAllMocksIT
<1>1. ServicesInv /\ MockInv => EntitleAllMocksIT
  <2> SUFFICES ASSUME ServicesInv, MockInv PROVE EntitleAllMocksIT
    OBVIOUS
  <2>1. ASSUME EntitleAll = "true", NEW r \in Handlers
        PROVE  pc[r] \notin InFlight /\ (Answered(r) => ~reply[r].degraded)
    BY <2>1 DEF MockInv, SkipsUpstream, InFlight
  <2>2. ASSUME EntitlesEveryone, NEW r \in Handlers, Answered(r),
               NEW n \in DOMAIN reply[r].sections
        PROVE  reply[r].sections[n].isEntitled
    BY <2>2, ReplySections, EveryoneIsEntitled
  <2> QED
    BY <2>1, <2>2 DEF EntitleAllMocksIT
<1>2. ServicesInv => TypeOK
  BY DEF ServicesInv
<1> QED
  BY <1>1, <1>2, Invariance, InitMock, NextMock, PTL DEF Spec

----------------------------------------------------------------------------
\* The contract's rules and bounds are the program's.
LEMMA SameRules ==
  /\ \A q, held, suffix : Contract!Sections(q, held, suffix) = Sections(q, held, suffix)
  /\ Contract!Query = Query
  /\ Contract!Window = Window
  /\ \A r \in Handlers : Contract!Bound(r) = Bound(r)
<1>1. Contract!Window = Window
  BY DEF Contract!Window, Window
<1>2. Contract!Query = Query
  BY DEF Contract!Query, Query, Contract!QueryFeatures, QueryFeatures, Contract!FeaturesOf,
         FeaturesOf, Contract!Listed, Listed, Contract!IsSkuBased, IsSkuBased,
         Contract!IsPaid, IsPaid, Contract!Base, Base, Contract!Suffixed, Suffixed,
         Contract!NoSuffix, NoSuffix
<1>3. ASSUME NEW q, NEW held, NEW suffix
      PROVE  Contract!Sections(q, held, suffix) = Sections(q, held, suffix)
  BY DEF Contract!Sections, Sections, Contract!Entitlements, Entitlements,
         Contract!Selected, Selected, Contract!Named, Named, Contract!Section, Section,
         Contract!EntitlesEveryone, EntitlesEveryone, Contract!Listed, Listed,
         Contract!IsSkuBased, IsSkuBased, Contract!IsPaid, IsPaid, Contract!Base, Base,
         Contract!Suffixed, Suffixed, Contract!NoSuffix, NoSuffix,
         Contract!IsInternalUser, IsInternalUser
<1>4. \A r \in Handlers : Contract!Bound(r) = Bound(r)
  BY <1>1 DEF Contract!Bound, Bound
<1> QED
  BY <1>1, <1>2, <1>3, <1>4

LEMMA InitKeeps == Init => Contract!Init
<1> SUFFICES ASSUME Init PROVE Contract!Init
  OBVIOUS
<1>1. Phase = [r \in Handlers |-> "idle"]
  BY DEF Init, Phase
<1>2. /\ request \in [Handlers -> Requests]
      /\ \A r \in Handlers : reply[r].status = 0
  BY IdleTypes DEF Init, NoReply
<1>3. age = [o \in Orgs |->
               [f \in Holdings |-> IF f = owned[o] THEN 0 ELSE Contract!Window + 1]]
  BY SameRules DEF Init
<1> QED
  BY <1>1, <1>2, <1>3 DEF Init, Contract!Init

\* How the phase of one handler, or of none, changes.
LEMMA PhaseGoes ==
  ASSUME TypeOK, NEW r \in Handlers, NEW step, NEW p, Goto(r, step),
         p = CASE step = "idle" -> "idle" [] step = "replied" -> "done" [] OTHER -> "pending"
  PROVE  Phase' = [Phase EXCEPT ![r] = p]
<1>1. pc' = [pc EXCEPT ![r] = step] /\ pc \in [Handlers -> Steps]
  BY DEF Goto, TypeOK
<1> QED
  BY <1>1 DEF Phase

\* A handler works on its request: the contract sees nothing of it.
LEMMA InternalKeeps ==
  ASSUME TypeOK, NEW r \in Handlers, NEW step \in Steps \ {"idle", "replied"},
         pc[r] \in Steps \ {"idle", "replied"}, Goto(r, step),
         UNCHANGED <<request, reply, waited, upstream>>
  PROVE  UNCHANGED Contract!vars
<1>1. Phase' = [Phase EXCEPT ![r] = "pending"]
  BY PhaseGoes
<1>2. Phase[r] = "pending"
  BY DEF Phase
<1>3. Phase' = Phase
  BY <1>1, <1>2 DEF Phase
<1> QED
  BY <1>3 DEF Contract!vars, upstream

\* The steps that are internal to the program.
LEMMA InternalSteps ==
  ASSUME TypeOK, NEW r \in Handlers,
         \/ CacheHit(r) \/ SkipUpstream(r) \/ CacheMiss(r) \/ FindQuery(r) \/ FindNoQuery(r)
         \/ SetSuffix(r) \/ StoreQueryLength(r) \/ StoreQueryPointer(r)
         \/ Respond(r) \/ Receive(r)
  PROVE  UNCHANGED Contract!vars
<1> USE DEF Steps
<1>1. CASE CacheHit(r) \/ SkipUpstream(r)
  BY <1>1, InternalKeeps DEF CacheHit, SkipUpstream
<1>2. CASE CacheMiss(r) \/ FindQuery(r) \/ FindNoQuery(r)
  BY <1>2, InternalKeeps DEF CacheMiss, FindQuery, FindNoQuery
<1>3. CASE SetSuffix(r) \/ StoreQueryLength(r) \/ StoreQueryPointer(r)
  BY <1>3, InternalKeeps DEF SetSuffix, StoreQueryLength, StoreQueryPointer
<1>4. CASE Respond(r)
  BY <1>4, InternalKeeps DEF Respond
<1>5. CASE Receive(r)
  <2>1. PICK res : Conclude(r, res)
    BY <1>5 DEF Receive, ReceiveFeatures, ReceiveGarbled, ReceiveFailure, ConnectionError,
                Timeout
  <2>2. pc[r] \in InFlight
    BY <1>5 DEF Receive, ReceiveFeatures, ReceiveGarbled, ReceiveFailure, ConnectionError,
                Timeout, InFlight
  <2> QED
    BY <2>1, <2>2, InternalKeeps DEF Conclude, InFlight
<1> QED
  BY <1>1, <1>2, <1>3, <1>4, <1>5

\* Of what a request was answered with, the contract knows.
LEMMA EvaluateKeeps ==
  ASSUME ServicesInv, ServicesInv', SignalInv, NEW r \in Handlers, Evaluate(r)
  PROVE  Contract!Reply(r)
<1>t. TypeOK
  BY DEF ServicesInv
<1>1. /\ pc[r] = "evaluate" /\ pc'[r] = "replied" /\ reply'[r].status = 200
      /\ UNCHANGED <<request, result, waited, owned, age>>
      /\ Org(r)' = Org(r) /\ Bound(r)' = Bound(r)
      /\ \A s \in Handlers \ {r} : reply'[s] = reply[s]
      /\ reply'[r].degraded <=> IsDegraded(result[r])
      /\ reply'[r].sections = Sections(request[r], result[r].features, paidFeatureSuffix)
  BY <1>t DEF Evaluate, Goto, TypeOK, upstream, Org, Bound
<1>2. Phase[r] = "pending" /\ Phase' = [Phase EXCEPT ![r] = "done"]
  <2>1. Goto(r, "replied")
    BY DEF Evaluate
  <2>2. Phase' = [Phase EXCEPT ![r] = "done"]
    BY <1>t, <2>1, PhaseGoes
  <2> QED
    BY <1>1, <2>2 DEF Phase
<1>3. PICK f \in Holdings : /\ age[Org(r)][f] <= Bound(r)
                            /\ result[r].features \subseteq f
  BY <1>1 DEF ServicesInv, ResultOK, Backed
<1>4. result[r].features \in SUBSET (f \cap Query)
  BY <1>3, <1>t DEF TypeOK
<1>5. reply'[r].degraded => result[r].features = {}
  BY <1>1 DEF SignalInv, SignalsOf, IsDegraded, IsCachedFailClosed
<1>6. reply'[r].sections = Sections(request[r], result[r].features, PaidFeatureSuffix)
  <2>1. CASE result[r].features = {}
    BY <1>1, <2>1, SectionsOfNothing
  <2>2. CASE result[r].features # {}
    BY <1>1, <2>2 DEF ServicesInv, SuffixInv
  <2> QED
    BY <2>1, <2>2
<1>7. /\ \A q, held, suffix : Contract!Sections(q, held, suffix) = Sections(q, held, suffix)
      /\ Contract!Query = Query /\ Contract!Bound(r) = Bound(r) /\ request[r].org = Org(r)
  BY SameRules DEF Org
<1>8. \E g \in Holdings : \E held \in SUBSET (g \cap Contract!Query) :
        /\ age[request[r].org][g] <= Contract!Bound(r)
        /\ reply'[r].degraded => held = {}
        /\ reply'[r].sections = Contract!Sections(request[r], held, PaidFeatureSuffix)
  BY <1>3, <1>4, <1>5, <1>6, <1>7
<1> QED
  BY <1>1, <1>2, <1>8 DEF Contract!Reply, Contract!Goto

LEMMA NextKeeps ==
  ServicesInv /\ ServicesInv' /\ SignalInv /\ [Next]_vars => [Contract!Next]_(Contract!vars)
<1> SUFFICES ASSUME ServicesInv, ServicesInv', SignalInv, [Next]_vars
             PROVE  Contract!Next \/ UNCHANGED Contract!vars
  OBVIOUS
<1>t. TypeOK
  BY DEF ServicesInv
<1>1. ASSUME NEW r \in Handlers, Arrive(r) PROVE Contract!Call(r)
  <2>1. Phase[r] = "idle" /\ Phase' = [Phase EXCEPT ![r] = "pending"]
    BY <1>1, <1>t, PhaseGoes DEF Arrive, Phase
  <2> QED
    BY <1>1, <2>1 DEF Arrive, Contract!Call, Contract!Goto, upstream
<1>2. ASSUME NEW r \in Handlers, FindTornQuery(r) PROVE Contract!Reply(r)
  <2>1. Phase[r] = "pending" /\ Phase' = [Phase EXCEPT ![r] = "done"]
    BY <1>2, <1>t, PhaseGoes DEF FindTornQuery, Phase
  <2>2. /\ reply'[r].status = 500
        /\ \A s \in Handlers \ {r} : reply'[s] = reply[s]
    BY <1>2, <1>t DEF FindTornQuery, TypeOK, NoReply
  <2> QED
    BY <1>2, <2>1, <2>2 DEF FindTornQuery, Contract!Reply, Contract!Goto, upstream
<1>3. ASSUME NEW r \in Handlers, Finish(r) PROVE Contract!Return(r)
  <2>1. Phase[r] = "done" /\ Phase' = [Phase EXCEPT ![r] = "idle"]
    BY <1>3, <1>t, PhaseGoes DEF Finish, Phase
  <2>2. /\ reply'[r].status = 0
        /\ \A s \in Handlers \ {r} : reply'[s] = reply[s] /\ request'[s] = request[s]
    BY <1>3, <1>t DEF Finish, TypeOK, NoReply
  <2> QED
    BY <1>3, <2>1, <2>2 DEF Finish, Contract!Return, Contract!Goto, upstream
<1>4. ASSUME NEW o \in Orgs, ChangeOwned(o) PROVE Contract!ChangeOwned(o)
  BY <1>4 DEF ChangeOwned, Contract!ChangeOwned, Phase
<1>5. ASSUME NEW o \in Orgs, Evict(o) PROVE UNCHANGED Contract!vars
  BY <1>5 DEF Evict, Contract!vars, Phase, upstream
<1>6. CASE Restart
  <2>1. Phase' = [r \in Handlers |-> "idle"]
    BY <1>6 DEF Restart, Phase
  <2>2. \A r \in Handlers : reply'[r].status = 0
    BY <1>6 DEF Restart, NoReply
  <2> QED
    BY <1>6, <2>1, <2>2 DEF Restart, Contract!Next, Contract!Crash, upstream
<1>7. CASE Tick
  <2>1. \A r \in Handlers : /\ pc[r] = "idle" <=> Phase[r] = "idle"
                            /\ pc[r] \in InFlight <=> Phase[r] = "pending"
    BY <1>7 DEF Tick, Phase, InFlight
  <2>2. /\ \A r \in Handlers : \/ Phase[r] = "idle"
                               \/ Phase[r] = "pending" /\ waited[r] < ClientTimeout
        /\ waited' = [r \in Handlers |->
                        IF Phase[r] = "pending" THEN waited[r] + 1 ELSE waited[r]]
    BY <1>7, <2>1 DEF Tick
  <2>3. age' = [o \in Orgs |-> [f \in Holdings |->
                  IF f = owned[o] THEN 0
                  ELSE IF age[o][f] > Contract!Window THEN age[o][f] ELSE age[o][f] + 1]]
    BY <1>7, SameRules DEF Tick
  <2>4. Phase' = Phase
    BY <1>7 DEF Tick, Phase
  <2> QED
    BY <1>7, <2>2, <2>3, <2>4 DEF Tick, Contract!Next, Contract!Tick
<1>8. CASE UNCHANGED vars
  BY <1>8 DEF vars, Contract!vars, Phase, upstream
<1> QED
  BY <1>t, <1>1, <1>2, <1>3, <1>4, <1>5, <1>6, <1>7, <1>8, InternalSteps, EvaluateKeeps
  DEF Next, Compute, Contract!Next

(***************************************************************************)
(* The program keeps the contract, whatever the cache holds, however the   *)
(* handlers race and whatever the Feature Service and the network do: the  *)
(* caller sees a request, and a reply the contract allows, and no more.    *)
(***************************************************************************)
THEOREM KeepsContractAlways == Spec => KeepsContract
<1>1. Spec => []([Contract!Next]_(Contract!vars))
  BY NextKeeps, SignalInvariance, PTL DEF Spec
<1> QED
  BY <1>1, InitKeeps, PTL DEF Spec, KeepsContract, Contract!Spec
=============================================================================
