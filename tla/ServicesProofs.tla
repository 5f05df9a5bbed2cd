--------------------------- MODULE ServicesProofs ---------------------------
(***************************************************************************)
(* Theorems about Services, for every set of handlers and organisations,   *)
(* every bundles.yml and every time to live and timeout.                   *)
(***************************************************************************)
EXTENDS ServicesInvariant, TLAPS

Responses == [code : Codes, error : BOOLEAN, cacheHit : BOOLEAN,
              features : SUBSET Query, origin : Origins]

Replies == [status : {0, 200, 500}, degraded : BOOLEAN,
            degradedStatus : Codes, sections : SectionMaps]

Answers == [code : Codes, features : SUBSET Query]

Entries == [features : SUBSET Query, origin : Origins, ttl : -1..CacheDuration]

(***************************************************************************)
(* Whatever the rules are given, they yield a map from names of bundles to *)
(* sections.                                                               *)
(***************************************************************************)
LEMMA SectionsType ==
  ASSUME NEW q \in Requests, NEW held, NEW suffix
  PROVE  Sections(q, held, suffix) \in SectionMaps
<1>1. Selected(BundleInfo, q.include, q.exclude) \in SUBSET {b.name : b \in Listed(BundleInfo)}
  BY DEF Selected
<1>2. \A b, id, v : Section(b, held, suffix, id, v) \in EntitlementsSection
  BY DEF Section, EntitlementsSection
<1> QED
  BY <1>1, <1>2 DEF Sections, SectionMaps, Entitlements, EntitlementsSection

\* The values of the locals of a handler that serves no request.
LEMMA IdleTypes ==
  /\ AnyRequest \in Requests
  /\ NoResult \in Responses
  /\ NoReply \in Replies
  /\ NoAnswer \in Answers
  /\ EmptyCache = [o \in {} |-> Entry({}, "none")]
<1>1. AnyRequest \in Requests
  BY ConstantsAssumption DEF AnyRequest
<1>2. NoSections \in SectionMaps
  BY DEF NoSections, SectionMaps
<1> QED
  BY <1>1, <1>2 DEF NoResult, Responses, Result, Codes, Origins, NoReply, Replies,
                    NoAnswer, Answers, EmptyCache

LEMMA InitTypeOK == Init => TypeOK
<1> SUFFICES ASSUME Init PROVE TypeOK
  OBVIOUS
<1> USE ConstantsAssumption
<1>1. age \in [Orgs -> [Holdings -> 0..(Window + 1)]]
  BY DEF Init, Window
<1>2. waited \in [Handlers -> 0..ClientTimeout]
  BY DEF Init
<1> QED
  BY <1>1, <1>2, IdleTypes DEF Init, TypeOK, Steps, Responses, Replies, Answers

(***************************************************************************)
(* Putting an entry into the cache keeps it a map of entries.              *)
(***************************************************************************)
LEMMA SetType ==
  ASSUME TypeOK, NEW r \in Handlers, NEW e \in Entries, Set(Org(r), e)
  PROVE  /\ DOMAIN cache' \subseteq Orgs
         /\ \A o \in DOMAIN cache' : cache'[o] \in Entries
<1>1. Org(r) \in Orgs
  BY ConstantsAssumption DEF Org, TypeOK, Request
<1> QED
  BY <1>1 DEF Set, TypeOK, Entries

LEMMA ConcludeTypeOK ==
  ASSUME TypeOK, NEW r \in Handlers, NEW res \in Responses, Conclude(r, res)
  PROVE  TypeOK'
<1>1. Entry(res.features, res.origin) \in Entries
  BY ConstantsAssumption DEF Entry, Entries, Responses
<1>2. /\ DOMAIN cache' \subseteq Orgs
      /\ \A o \in DOMAIN cache' : cache'[o] \in Entries
  BY <1>1, SetType DEF Conclude
<1>3. pc' \in [Handlers -> Steps]
  BY DEF Conclude, Goto, TypeOK, Steps
<1>4. result' \in [Handlers -> Responses]
  BY DEF Conclude, TypeOK, Responses
<1>5. answer' \in [Handlers -> Answers]
  BY IdleTypes DEF Conclude, TypeOK, Answers
<1> QED
  BY <1>2, <1>3, <1>4, <1>5
  DEF Conclude, TypeOK, Entries, Responses, Answers, globals, upstream

LEMMA NextTypeOK == TypeOK /\ [Next]_vars => TypeOK'
<1> SUFFICES ASSUME TypeOK, [Next]_vars PROVE TypeOK'
  OBVIOUS
<1> USE ConstantsAssumption
<1>1. ASSUME NEW r \in Handlers, Arrive(r) PROVE TypeOK'
  BY <1>1 DEF Arrive, Goto, TypeOK, Steps, globals, upstream
<1>2. ASSUME NEW r \in Handlers, CacheHit(r) PROVE TypeOK'
  <2>1. Result(200, FALSE, TRUE, cache[Org(r)].features, cache[Org(r)].origin) \in Responses
    BY <1>2 DEF CacheHit, Usable, TypeOK, Result, Responses, Codes
  <2> QED
    BY <1>2, <2>1 DEF CacheHit, Goto, TypeOK, Steps, globals, upstream, Responses
<1>3. ASSUME NEW r \in Handlers, SkipUpstream(r) PROVE TypeOK'
  <2>1. Result(200, FALSE, FALSE, {}, "none") \in Responses
    BY DEF Result, Responses, Codes, Origins
  <2> QED
    BY <1>3, <2>1 DEF SkipUpstream, Goto, TypeOK, Steps, globals, upstream, Responses
<1>4. ASSUME NEW r \in Handlers, CacheMiss(r) PROVE TypeOK'
  BY <1>4 DEF CacheMiss, Goto, TypeOK, Steps, globals, upstream
<1>5. ASSUME NEW r \in Handlers, FindQuery(r) PROVE TypeOK'
  BY <1>5 DEF FindQuery, Goto, TypeOK, Steps, globals, upstream
<1>6. ASSUME NEW r \in Handlers, FindNoQuery(r) PROVE TypeOK'
  BY <1>6 DEF FindNoQuery, Goto, TypeOK, Steps, globals, upstream
<1>7. ASSUME NEW r \in Handlers, FindTornQuery(r) PROVE TypeOK'
  <2>1. [NoReply EXCEPT !.status = 500] \in Replies
    BY IdleTypes DEF Replies
  <2> QED
    BY <1>7, <2>1 DEF FindTornQuery, Goto, TypeOK, Steps, globals, upstream, Replies
<1>8. ASSUME NEW r \in Handlers, SetSuffix(r) PROVE TypeOK'
  BY <1>8 DEF SetSuffix, Goto, TypeOK, Steps, upstream
<1>9. ASSUME NEW r \in Handlers, StoreQueryLength(r) PROVE TypeOK'
  BY <1>9 DEF StoreQueryLength, Goto, TypeOK, Steps, upstream
<1>10. ASSUME NEW r \in Handlers, StoreQueryPointer(r) PROVE TypeOK'
  BY <1>10 DEF StoreQueryPointer, Goto, TypeOK, Steps, upstream
<1>11. ASSUME NEW r \in Handlers, Respond(r) PROVE TypeOK'
  <2>1. answer' \in [Handlers -> Answers]
    BY <1>11 DEF Respond, TypeOK, Answers, Codes
  <2> QED
    BY <1>11, <2>1 DEF Respond, Goto, TypeOK, Steps, globals, upstream, Answers
<1>12. ASSUME NEW r \in Handlers, ReceiveFeatures(r) PROVE TypeOK'
  <2>1. Result(200, FALSE, FALSE, answer[r].features, "answer") \in Responses
    BY <1>12 DEF TypeOK, Result, Responses, Codes, Origins
  <2>2. Conclude(r, Result(200, FALSE, FALSE, answer[r].features, "answer"))
    BY <1>12 DEF ReceiveFeatures
  <2> QED
    BY <2>1, <2>2, ConcludeTypeOK
<1>13. ASSUME NEW r \in Handlers, ReceiveGarbled(r) PROVE TypeOK'
  <2>1. PICK part \in SUBSET answer[r].features :
          Conclude(r, Result(200, FALSE, FALSE, part, "garbled"))
    BY <1>13 DEF ReceiveGarbled
  <2>2. Result(200, FALSE, FALSE, part, "garbled") \in Responses
    BY <2>1 DEF TypeOK, Result, Responses, Codes, Origins
  <2> QED
    BY <2>1, <2>2, ConcludeTypeOK
<1>14. ASSUME NEW r \in Handlers, ReceiveFailure(r) PROVE TypeOK'
  <2>1. Result(answer[r].code, FALSE, FALSE, {}, "failure") \in Responses
    BY <1>14 DEF TypeOK, Result, Responses, Codes, Origins
  <2> QED
    BY <1>14, <2>1, ConcludeTypeOK DEF ReceiveFailure
<1>15. ASSUME NEW r \in Handlers, ConnectionError(r) \/ Timeout(r) PROVE TypeOK'
  <2>1. Result(0, TRUE, FALSE, {}, "failure") \in Responses
    BY DEF Result, Responses, Codes, Origins
  <2> QED
    BY <1>15, <2>1, ConcludeTypeOK DEF ConnectionError, Timeout
<1>16. ASSUME NEW r \in Handlers, Evaluate(r) PROVE TypeOK'
  <2>1. Sections(request[r], result[r].features, paidFeatureSuffix) \in SectionMaps
    BY SectionsType DEF TypeOK
  <2>2. reply' \in [Handlers -> Replies]
    BY <1>16, <2>1 DEF Evaluate, TypeOK, Replies, IsDegraded, IsCachedFailClosed, Codes
  <2> QED
    BY <1>16, <2>2 DEF Evaluate, Goto, TypeOK, Steps, globals, upstream, Replies
<1>17. ASSUME NEW r \in Handlers, Finish(r) PROVE TypeOK'
  BY <1>17, IdleTypes
  DEF Finish, Goto, TypeOK, Steps, globals, upstream, Responses, Replies
<1>18. ASSUME NEW o \in Orgs, ChangeOwned(o) PROVE TypeOK'
  <2>1. PICK f \in Holdings : /\ owned' = [owned EXCEPT ![o] = f]
                              /\ age' = [age EXCEPT ![o][f] = 0]
    BY <1>18 DEF ChangeOwned
  <2>2. age' \in [Orgs -> [Holdings -> 0..(Window + 1)]]
    BY <2>1 DEF TypeOK, Window
  <2> QED
    BY <1>18, <2>1, <2>2 DEF ChangeOwned, TypeOK, globals
<1>19. ASSUME NEW o \in Orgs, Evict(o) PROVE TypeOK'
  BY <1>19 DEF Evict, TypeOK, globals, upstream
<1>20. CASE Restart
  BY <1>20, IdleTypes
  DEF Restart, TypeOK, Steps, upstream, Responses, Replies, Answers
<1>21. CASE Tick
  <2>1. waited' \in [Handlers -> 0..ClientTimeout]
    <3>1. ASSUME NEW r \in Handlers
          PROVE  waited[r] \in 0..ClientTimeout
                 /\ (pc[r] \in InFlight => waited[r] + 1 \in 0..ClientTimeout)
      <4>1. waited[r] \in 0..ClientTimeout
        BY <3>1 DEF TypeOK
      <4>2. pc[r] \in InFlight => waited[r] < ClientTimeout
        BY <1>21, <3>1 DEF Tick, InFlight
      <4> QED
        BY <4>1, <4>2
    <3> QED
      BY <1>21, <3>1 DEF Tick
  <2>2. \A o \in DOMAIN cache' : cache'[o] \in Entries
    <3>1. ASSUME NEW o \in DOMAIN cache
          PROVE  [cache[o] EXCEPT !.ttl = IF @ < 0 THEN @ ELSE @ - 1] \in Entries
      <4>1. cache[o] \in Entries
        BY <3>1 DEF TypeOK, Entries
      <4>2. (IF cache[o].ttl < 0 THEN cache[o].ttl ELSE cache[o].ttl - 1) \in -1..CacheDuration
        BY <4>1 DEF Entries
      <4> QED
        BY <4>1, <4>2 DEF Entries
    <3> QED
      BY <1>21, <3>1 DEF Tick
  <2>3. age' \in [Orgs -> [Holdings -> 0..(Window + 1)]]
    BY <1>21 DEF Tick, TypeOK, Window
  <2> QED
    BY <1>21, <2>1, <2>2, <2>3 DEF Tick, TypeOK, globals, Entries
<1>22. CASE UNCHANGED vars
  BY <1>22 DEF vars, globals, upstream, TypeOK
<1> QED
  BY <1>1, <1>2, <1>3, <1>4, <1>5, <1>6, <1>7, <1>8, <1>9, <1>10, <1>11, <1>12, <1>13,
     <1>14, <1>15, <1>16, <1>17, <1>18, <1>19, <1>20, <1>21, <1>22
  DEF Next, Compute, Receive

----------------------------------------------------------------------------
(***************************************************************************)
(* What Backed allows: a looser bound, nothing at all, a part of an        *)
(* answer, a change of the holdings, and the passing of time.              *)
(***************************************************************************)
LEMMA BackedWeaken ==
  ASSUME NEW ages \in [Holdings -> Int], NEW features, NEW origin,
         NEW b \in Int, NEW c \in Int, b <= c, Backed(ages, features, origin, b)
  PROVE  Backed(ages, features, origin, c)
  BY DEF Backed

LEMMA BackedEmpty ==
  ASSUME NEW ages \in [Holdings -> Int], NEW f \in Holdings, ages[f] = 0,
         NEW origin, origin # "answer", NEW b \in Nat
  PROVE  Backed(ages, {}, origin, b)
  BY DEF Backed

LEMMA BackedPart ==
  ASSUME NEW ages, NEW features, NEW b, Backed(ages, features, "answer", b),
         NEW part \in SUBSET features
  PROVE  Backed(ages, part, "garbled", b)
  BY DEF Backed

LEMMA BackedAnswer ==
  ASSUME NEW ages \in [Holdings -> Int], NEW f \in Holdings, ages[f] = 0, NEW b \in Nat
  PROVE  Backed(ages, f \cap Query, "answer", b)
  BY DEF Backed

LEMMA BackedChange ==
  ASSUME NEW ages \in [Holdings -> Nat], NEW f \in Holdings, NEW features, NEW origin,
         NEW b \in Nat, Backed(ages, features, origin, b)
  PROVE  Backed([ages EXCEPT ![f] = 0], features, origin, b)
  BY DEF Backed

LEMMA BackedLater ==
  ASSUME NEW ages \in [Holdings -> Int], NEW later \in [Holdings -> Int],
         \A f \in Holdings : later[f] <= ages[f] + 1,
         NEW features, NEW origin, NEW b \in Int, Backed(ages, features, origin, b)
  PROVE  Backed(later, features, origin, b + 1)
<1>1. PICK f \in Holdings : /\ ages[f] <= b
                            /\ features \subseteq f
                            /\ origin = "answer" => features = f \cap Query
  BY DEF Backed
<1>2. later[f] <= b + 1
  BY <1>1
<1> QED
  BY <1>1, <1>2 DEF Backed

----------------------------------------------------------------------------
(***************************************************************************)
(* A step of one handler leaves what is known of the others alone.         *)
(***************************************************************************)
StepOf(r) ==
  /\ UNCHANGED upstream
  /\ \A s \in Handlers \ {r} :
       /\ pc'[s] = pc[s] /\ request'[s] = request[s] /\ result'[s] = result[s]
       /\ reply'[s] = reply[s] /\ waited'[s] = waited[s] /\ answer'[s] = answer[s]

LEMMA OthersKeep ==
  ASSUME ServicesInv, NEW r \in Handlers, StepOf(r), AnswerOK(r)', ResultOK(r)', ReplyOK(r)'
  PROVE  /\ AgeInv'
         /\ \A s \in Handlers : AnswerOK(s)' /\ ResultOK(s)' /\ ReplyOK(s)'
<1>1. AgeInv'
  BY DEF ServicesInv, AgeInv, StepOf, upstream
<1>2. ASSUME NEW s \in Handlers, s # r PROVE AnswerOK(s)' /\ ResultOK(s)' /\ ReplyOK(s)'
  <2>1. AnswerOK(s)'
    BY <1>2 DEF ServicesInv, AnswerOK, StepOf, upstream, Org
  <2>2. ResultOK(s)'
    BY <1>2 DEF ServicesInv, ResultOK, StepOf, upstream, Org, Answered, Bound
  <2>3. ReplyOK(s)'
    BY <1>2 DEF ServicesInv, ReplyOK, StepOf, Answered
  <2> QED
    BY <2>1, <2>2, <2>3
<1> QED
  BY <1>1, <1>2

\* A step to a place where no features are at hand.
LEMMA QuietStep ==
  ASSUME ServicesInv, NEW r \in Handlers, StepOf(r), UNCHANGED cache,
         NEW step \in {"idle", "lookup", "query", "suffix", "store", "stored", "await"},
         Goto(r, step)
  PROVE  /\ AgeInv' /\ CacheInv'
         /\ \A s \in Handlers : AnswerOK(s)' /\ ResultOK(s)' /\ ReplyOK(s)'
<1>1. pc'[r] \notin {"answered", "evaluate", "replied"}
  BY DEF Goto, ServicesInv, TypeOK
<1>2. AnswerOK(r)' /\ ResultOK(r)' /\ ReplyOK(r)'
  BY <1>1 DEF AnswerOK, ResultOK, ReplyOK, Answered
<1>3. CacheInv'
  BY DEF ServicesInv, CacheInv, StepOf, upstream, Expired
<1> QED
  BY <1>2, <1>3, OthersKeep

(***************************************************************************)
(* What comes back from the network reaches the cache and the handler.     *)
(***************************************************************************)
LEMMA ConcludeKeeps ==
  ASSUME ServicesInv, TypeOK', NEW r \in Handlers, NEW res \in Responses,
         pc[r] \in InFlight, Conclude(r, res),
         Backed(age[Org(r)], res.features, res.origin, waited[r])
  PROVE  ServicesInv'
<1> USE ConstantsAssumption
<1>1. Org(r) \in Orgs /\ waited[r] \in 0..ClientTimeout /\ age[Org(r)] \in [Holdings -> Int]
  BY DEF ServicesInv, TypeOK, Org, Request
<1>2. /\ pc'[r] = "evaluate" /\ result'[r] = res
      /\ Org(r)' = Org(r) /\ Bound(r)' = Bound(r) /\ age' = age
  BY DEF Conclude, Goto, ServicesInv, TypeOK, Org, Bound, upstream
<1>3. StepOf(r)
  BY DEF Conclude, Goto, StepOf, ServicesInv, TypeOK
<1>4. Backed(age[Org(r)], res.features, res.origin, Bound(r))
  BY <1>1, BackedWeaken DEF Bound, Window
<1>5. AnswerOK(r)' /\ ResultOK(r)' /\ ReplyOK(r)'
  BY <1>2, <1>4 DEF AnswerOK, ResultOK, ReplyOK, Answered
<1>6. paidFeatureSuffix' = PaidFeatureSuffix
  BY DEF Conclude, globals, ServicesInv, SuffixInv, InFlight
<1>7. SuffixInv'
  BY <1>6 DEF SuffixInv
<1>8. CacheInv'
  <2> SUFFICES ASSUME NEW o \in DOMAIN cache', ~Expired(cache'[o])
               PROVE  Backed(age[o], cache'[o].features, cache'[o].origin,
                             Window - cache'[o].ttl)
    BY <1>2 DEF CacheInv, Expired
  <2>1. CASE o = Org(r)
    <3>1. cache'[o] = Entry(res.features, res.origin)
      BY <2>1 DEF Conclude, Set
    <3>2. Window - cache'[o].ttl = ClientTimeout
      BY <3>1 DEF Entry, Window
    <3> QED
      BY <1>1, <2>1, <3>1, <3>2, BackedWeaken DEF Entry
  <2>2. CASE o # Org(r)
    BY <2>2 DEF Conclude, Set, ServicesInv, CacheInv, Expired
  <2> QED
    BY <2>1, <2>2
<1> QED
  BY <1>3, <1>5, <1>7, <1>8, OthersKeep DEF ServicesInv

LEMMA InitInv == Init => ServicesInv
<1> SUFFICES ASSUME Init PROVE ServicesInv
  OBVIOUS
<1>1. AgeInv
  BY DEF Init, AgeInv
<1>2. SuffixInv
  BY IdleTypes DEF Init, SuffixInv, NoResult, Result
<1>3. CacheInv
  BY IdleTypes DEF Init, CacheInv
<1>4. \A r \in Handlers : AnswerOK(r) /\ ResultOK(r) /\ ReplyOK(r)
  BY DEF Init, AnswerOK, ResultOK, ReplyOK, Answered
<1> QED
  BY <1>1, <1>2, <1>3, <1>4, InitTypeOK DEF ServicesInv

LEMMA NextInv == ServicesInv /\ [Next]_vars => ServicesInv'
<1> SUFFICES ASSUME ServicesInv, [Next]_vars PROVE ServicesInv'
  OBVIOUS
<1> USE ConstantsAssumption
<1>t. TypeOK /\ TypeOK'
  BY NextTypeOK DEF ServicesInv
<1>1. ASSUME NEW r \in Handlers, Arrive(r) PROVE ServicesInv'
  <2>1. StepOf(r) /\ UNCHANGED cache
    BY <1>1, <1>t DEF Arrive, Goto, StepOf, TypeOK
  <2>2. SuffixInv'
    BY <1>1, <1>t DEF Arrive, Goto, TypeOK, ServicesInv, SuffixInv, globals
  <2> QED
    BY <1>1, <1>t, <2>1, <2>2, QuietStep DEF Arrive, ServicesInv
<1>2. ASSUME NEW r \in Handlers, CacheHit(r) PROVE ServicesInv'
  <2>1. StepOf(r) /\ UNCHANGED <<cache, age>> /\ Org(r)' = Org(r)
    BY <1>2, <1>t DEF CacheHit, Goto, StepOf, TypeOK, upstream, Org
  <2>2. /\ Org(r) \in DOMAIN cache /\ Org(r) \in Orgs
        /\ ~Expired(cache[Org(r)]) /\ Bound(r)' = Window
        /\ cache[Org(r)] \in Entries /\ age[Org(r)] \in [Holdings -> Int]
    BY <1>2, <1>t DEF CacheHit, Usable, Org, Bound, TypeOK, Entries
  <2>3. Backed(age[Org(r)], cache[Org(r)].features, cache[Org(r)].origin, Window)
    <3>1. /\ Window \in Int /\ cache[Org(r)].ttl \in 0..CacheDuration
      BY <2>2 DEF Expired, Entries, Window
    <3> QED
      BY <2>2, <3>1, BackedWeaken DEF ServicesInv, CacheInv
  <2>4. /\ pc'[r] = "evaluate"
        /\ result'[r].features = cache[Org(r)].features
        /\ result'[r].origin = cache[Org(r)].origin
    BY <1>2, <1>t DEF CacheHit, Goto, TypeOK, Result
  <2>5. AnswerOK(r)' /\ ResultOK(r)' /\ ReplyOK(r)'
    BY <2>1, <2>2, <2>3, <2>4 DEF AnswerOK, ResultOK, ReplyOK, Answered
  <2>6. SuffixInv'
    <3>1. \A s \in Handlers : result'[s].features # {} => paidFeatureSuffix = PaidFeatureSuffix
      BY <2>1, <2>2, <2>4 DEF StepOf, ServicesInv, SuffixInv
    <3>2. /\ UNCHANGED <<globals, cache>>
          /\ \A s \in Handlers : pc'[s] = pc[s] \/ pc'[s] = "evaluate"
      BY <1>2, <2>1, <2>4 DEF CacheHit, StepOf
    <3> QED
      BY <3>1, <3>2 DEF ServicesInv, SuffixInv, globals
  <2>7. CacheInv'
    BY <2>1 DEF ServicesInv, CacheInv, Expired
  <2> QED
    BY <1>t, <2>1, <2>5, <2>6, <2>7, OthersKeep DEF ServicesInv
<1>3. ASSUME NEW r \in Handlers, SkipUpstream(r) PROVE ServicesInv'
  <2>1. StepOf(r) /\ UNCHANGED <<cache, age>> /\ Org(r)' = Org(r)
    BY <1>3, <1>t DEF SkipUpstream, Goto, StepOf, TypeOK, upstream, Org
  <2>2. /\ Org(r) \in Orgs /\ Bound(r)' \in Nat /\ owned[Org(r)] \in Holdings
        /\ age[Org(r)] \in [Holdings -> Int] /\ age[Org(r)][owned[Org(r)]] = 0
    BY <1>3, <1>t DEF SkipUpstream, Org, Bound, Window, TypeOK, Request, ServicesInv, AgeInv
  <2>3. pc'[r] = "evaluate" /\ result'[r].features = {} /\ result'[r].origin = "none"
    BY <1>3, <1>t DEF SkipUpstream, Goto, TypeOK, Result
  <2>4. AnswerOK(r)' /\ ResultOK(r)' /\ ReplyOK(r)'
    BY <2>1, <2>2, <2>3, BackedEmpty DEF AnswerOK, ResultOK, ReplyOK, Answered
  <2>5. SuffixInv'
    <3>1. \A s \in Handlers : result'[s].features # {} => paidFeatureSuffix = PaidFeatureSuffix
      BY <2>1, <2>3 DEF StepOf, ServicesInv, SuffixInv
    <3>2. /\ UNCHANGED <<globals, cache>>
          /\ \A s \in Handlers : pc'[s] = pc[s] \/ pc'[s] = "evaluate"
      BY <1>3, <2>1, <2>3 DEF SkipUpstream, StepOf
    <3> QED
      BY <3>1, <3>2 DEF ServicesInv, SuffixInv, globals
  <2>6. CacheInv'
    BY <2>1 DEF ServicesInv, CacheInv, Expired
  <2> QED
    BY <1>t, <2>1, <2>4, <2>5, <2>6, OthersKeep DEF ServicesInv
<1>4. ASSUME NEW r \in Handlers, CacheMiss(r) PROVE ServicesInv'
  <2>1. StepOf(r) /\ UNCHANGED cache
    BY <1>4, <1>t DEF CacheMiss, Goto, StepOf, TypeOK
  <2>2. SuffixInv'
    BY <1>4, <1>t DEF CacheMiss, Goto, TypeOK, ServicesInv, SuffixInv, globals
  <2> QED
    BY <1>4, <1>t, <2>1, <2>2, QuietStep DEF CacheMiss, ServicesInv
<1>5. ASSUME NEW r \in Handlers, FindQuery(r) PROVE ServicesInv'
  <2>1. StepOf(r) /\ UNCHANGED cache
    BY <1>5, <1>t DEF FindQuery, Goto, StepOf, TypeOK
  <2>2. SuffixInv'
    BY <1>5, <1>t DEF FindQuery, Goto, TypeOK, ServicesInv, SuffixInv, globals
  <2> QED
    BY <1>5, <1>t, <2>1, <2>2, QuietStep DEF FindQuery, ServicesInv
<1>6. ASSUME NEW r \in Handlers, FindNoQuery(r) PROVE ServicesInv'
  <2>1. StepOf(r) /\ UNCHANGED cache
    BY <1>6, <1>t DEF FindNoQuery, Goto, StepOf, TypeOK
  <2>2. SuffixInv'
    BY <1>6, <1>t DEF FindNoQuery, Goto, TypeOK, ServicesInv, SuffixInv, globals
  <2> QED
    BY <1>6, <1>t, <2>1, <2>2, QuietStep DEF FindNoQuery, ServicesInv
<1>7. ASSUME NEW r \in Handlers, FindTornQuery(r) PROVE ServicesInv'
  <2>1. StepOf(r) /\ UNCHANGED <<cache, age>>
    BY <1>7, <1>t DEF FindTornQuery, Goto, StepOf, TypeOK, upstream
  <2>2. pc'[r] = "replied" /\ reply'[r].status = 500
    BY <1>7, <1>t DEF FindTornQuery, Goto, TypeOK, NoReply
  <2>3. AnswerOK(r)' /\ ResultOK(r)' /\ ReplyOK(r)'
    BY <2>2 DEF AnswerOK, ResultOK, ReplyOK, Answered
  <2>4. SuffixInv'
    BY <1>7, <1>t DEF FindTornQuery, Goto, TypeOK, ServicesInv, SuffixInv, globals
  <2>5. CacheInv'
    BY <2>1 DEF ServicesInv, CacheInv, Expired
  <2> QED
    BY <1>t, <2>1, <2>3, <2>4, <2>5, OthersKeep DEF ServicesInv
<1>8. ASSUME NEW r \in Handlers, SetSuffix(r) PROVE ServicesInv'
  <2>1. StepOf(r) /\ UNCHANGED cache
    BY <1>8, <1>t DEF SetSuffix, Goto, StepOf, TypeOK
  <2>2. SuffixInv'
    BY <1>8 DEF SetSuffix, SuffixInv
  <2> QED
    BY <1>8, <1>t, <2>1, <2>2, QuietStep DEF SetSuffix, ServicesInv
<1>9. ASSUME NEW r \in Handlers, StoreQueryLength(r) PROVE ServicesInv'
  <2>1. StepOf(r) /\ UNCHANGED cache
    BY <1>9, <1>t DEF StoreQueryLength, Goto, StepOf, TypeOK
  <2>2. SuffixInv'
    BY <1>9, <1>t DEF StoreQueryLength, SuffixInv, ServicesInv
  <2> QED
    BY <1>9, <1>t, <2>1, <2>2, QuietStep DEF StoreQueryLength, ServicesInv
<1>10. ASSUME NEW r \in Handlers, StoreQueryPointer(r) PROVE ServicesInv'
  <2>1. StepOf(r) /\ UNCHANGED cache
    BY <1>10, <1>t DEF StoreQueryPointer, Goto, StepOf, TypeOK
  <2>2. SuffixInv'
    BY <1>10, <1>t DEF StoreQueryPointer, SuffixInv, ServicesInv
  <2> QED
    BY <1>10, <1>t, <2>1, <2>2, QuietStep DEF StoreQueryPointer, ServicesInv
<1>11. ASSUME NEW r \in Handlers, Respond(r) PROVE ServicesInv'
  <2>1. StepOf(r) /\ UNCHANGED <<cache, age, waited>> /\ Org(r)' = Org(r) /\ pc'[r] = "answered"
    BY <1>11, <1>t DEF Respond, Goto, StepOf, TypeOK, upstream, Org
  <2>2. /\ Org(r) \in Orgs /\ owned[Org(r)] \in Holdings /\ waited[r] \in Nat
        /\ age[Org(r)] \in [Holdings -> Int] /\ age[Org(r)][owned[Org(r)]] = 0
    BY <1>t DEF Org, TypeOK, Request, ServicesInv, AgeInv
  <2>3. answer'[r].code = 200 => answer'[r].features = owned[Org(r)] \cap Query
    BY <1>11, <1>t DEF Respond, TypeOK
  <2>4. AnswerOK(r)' /\ ResultOK(r)' /\ ReplyOK(r)'
    BY <2>1, <2>2, <2>3, BackedAnswer DEF AnswerOK, ResultOK, ReplyOK, Answered
  <2>5. SuffixInv'
    BY <1>11, <1>t DEF Respond, Goto, TypeOK, ServicesInv, SuffixInv, globals
  <2>6. CacheInv'
    BY <2>1 DEF ServicesInv, CacheInv, Expired
  <2> QED
    BY <1>t, <2>1, <2>4, <2>5, <2>6, OthersKeep DEF ServicesInv
<1>12. ASSUME NEW r \in Handlers, ReceiveFeatures(r) PROVE ServicesInv'
  <2>1. /\ pc[r] \in InFlight
        /\ Conclude(r, Result(200, FALSE, FALSE, answer[r].features, "answer"))
        /\ Backed(age[Org(r)], answer[r].features, "answer", waited[r])
    BY <1>12 DEF ReceiveFeatures, InFlight, ServicesInv, AnswerOK
  <2>2. Result(200, FALSE, FALSE, answer[r].features, "answer") \in Responses
    BY <1>t DEF TypeOK, Result, Responses, Codes, Origins
  <2> QED
    BY <1>t, <2>1, <2>2, ConcludeKeeps DEF Result
<1>13. ASSUME NEW r \in Handlers, ReceiveGarbled(r) PROVE ServicesInv'
  <2>1. PICK part \in SUBSET answer[r].features :
          Conclude(r, Result(200, FALSE, FALSE, part, "garbled"))
    BY <1>13 DEF ReceiveGarbled
  <2>2. /\ pc[r] \in InFlight
        /\ Backed(age[Org(r)], answer[r].features, "answer", waited[r])
    BY <1>13 DEF ReceiveGarbled, InFlight, ServicesInv, AnswerOK
  <2>3. Backed(age[Org(r)], part, "garbled", waited[r])
    BY <2>2, BackedPart
  <2>4. Result(200, FALSE, FALSE, part, "garbled") \in Responses
    BY <1>t DEF TypeOK, Result, Responses, Codes, Origins
  <2> QED
    BY <1>t, <2>1, <2>2, <2>3, <2>4, ConcludeKeeps DEF Result
<1>14. ASSUME NEW r \in Handlers, NEW code \in Codes, NEW error \in BOOLEAN,
              pc[r] \in InFlight, Conclude(r, Result(code, error, FALSE, {}, "failure"))
       PROVE  ServicesInv'
  <2>1. Result(code, error, FALSE, {}, "failure") \in Responses
    BY DEF Result, Responses, Origins
  <2>2. Backed(age[Org(r)], {}, "failure", waited[r])
    <3>1. /\ Org(r) \in Orgs /\ owned[Org(r)] \in Holdings /\ waited[r] \in Nat
          /\ age[Org(r)] \in [Holdings -> Int] /\ age[Org(r)][owned[Org(r)]] = 0
      BY <1>t DEF Org, TypeOK, Request, ServicesInv, AgeInv
    <3> QED
      BY <3>1, BackedEmpty
  <2> QED
    BY <1>t, <1>14, <2>1, <2>2, ConcludeKeeps DEF Result
<1>15. ASSUME NEW r \in Handlers, ReceiveFailure(r) PROVE ServicesInv'
  <2>1. pc[r] \in InFlight /\ answer[r].code \in Codes
    BY <1>15, <1>t DEF ReceiveFailure, InFlight, TypeOK
  <2> QED
    BY <1>14, <1>15, <2>1 DEF ReceiveFailure
<1>16. ASSUME NEW r \in Handlers, ConnectionError(r) \/ Timeout(r) PROVE ServicesInv'
  <2>1. 0 \in Codes
    BY DEF Codes
  <2> QED
    BY <1>14, <1>16, <2>1 DEF ConnectionError, Timeout
<1>17. ASSUME NEW r \in Handlers, Evaluate(r) PROVE ServicesInv'
  <2>1. /\ StepOf(r)
        /\ UNCHANGED <<cache, age, waited, result, request, paidFeatureSuffix>>
        /\ pc[r] = "evaluate" /\ pc'[r] = "replied"
        /\ reply'[r].sections = Sections(request[r], result[r].features, paidFeatureSuffix)
    BY <1>17, <1>t DEF Evaluate, Goto, StepOf, TypeOK, upstream, globals
  <2>2. ResultOK(r)'
    BY <2>1 DEF ServicesInv, ResultOK, Org, Bound
  <2>3. ReplyOK(r)'
    BY <1>t, <2>1 DEF ReplyOK, ServicesInv, SuffixInv, TypeOK
  <2>4. SuffixInv'
    BY <1>17, <1>t DEF Evaluate, Goto, TypeOK, ServicesInv, SuffixInv, globals
  <2>5. AnswerOK(r)' /\ CacheInv'
    BY <2>1 DEF AnswerOK, ServicesInv, CacheInv, Expired
  <2> QED
    BY <1>t, <2>1, <2>2, <2>3, <2>4, <2>5, OthersKeep DEF ServicesInv
<1>18. ASSUME NEW r \in Handlers, Finish(r) PROVE ServicesInv'
  <2>1. StepOf(r) /\ UNCHANGED cache
    BY <1>18, <1>t DEF Finish, Goto, StepOf, TypeOK
  <2>2. SuffixInv'
    BY <1>18, <1>t DEF Finish, Goto, TypeOK, ServicesInv, SuffixInv, globals, NoResult, Result
  <2> QED
    BY <1>18, <1>t, <2>1, <2>2, QuietStep DEF Finish, ServicesInv
<1>19. ASSUME NEW o \in Orgs, ChangeOwned(o) PROVE ServicesInv'
  <2>1. PICK f \in Holdings : /\ owned' = [owned EXCEPT ![o] = f]
                              /\ age' = [age EXCEPT ![o][f] = 0]
    BY <1>19 DEF ChangeOwned
  <2>2. ASSUME NEW p \in Orgs, NEW features, NEW origin, NEW b \in Nat,
               Backed(age[p], features, origin, b)
        PROVE  Backed(age'[p], features, origin, b)
    <3>1. age[p] \in [Holdings -> Nat]
      BY <1>t DEF TypeOK
    <3>2. CASE p = o
      BY <1>t, <2>1, <2>2, <3>1, <3>2, BackedChange DEF TypeOK
    <3>3. CASE p # o
      BY <1>t, <2>1, <2>2, <3>3 DEF TypeOK
    <3> QED
      BY <3>2, <3>3
  <2>3. /\ UNCHANGED <<globals, cache, pc, request, result, reply, waited, answer>>
        /\ \A r \in Handlers : Org(r)' = Org(r) /\ Bound(r)' = Bound(r)
        /\ \A r \in Handlers : Org(r) \in Orgs /\ Bound(r) \in Nat /\ waited[r] \in Nat
    BY <1>19, <1>t DEF ChangeOwned, Org, Bound, TypeOK, Request, Window
  <2>4. AgeInv'
    BY <1>t, <2>1 DEF AgeInv, ServicesInv, TypeOK
  <2>5. SuffixInv'
    BY <2>3 DEF SuffixInv, ServicesInv, globals
  <2>6. CacheInv'
    <3> SUFFICES ASSUME NEW p \in DOMAIN cache, ~Expired(cache[p])
                 PROVE  Backed(age'[p], cache[p].features, cache[p].origin, Window - cache[p].ttl)
      BY <2>3 DEF CacheInv, Expired
    <3>1. p \in Orgs /\ Window - cache[p].ttl \in Nat
      BY <1>t DEF TypeOK, Window, Expired
    <3> QED
      BY <2>2, <3>1 DEF ServicesInv, CacheInv
  <2>7. ASSUME NEW r \in Handlers PROVE AnswerOK(r)' /\ ResultOK(r)' /\ ReplyOK(r)'
    <3>1. AnswerOK(r)'
      BY <2>2, <2>3 DEF ServicesInv, AnswerOK
    <3>2. ResultOK(r)'
      BY <2>2, <2>3 DEF ServicesInv, ResultOK, Answered
    <3>3. ReplyOK(r)'
      BY <2>3 DEF ServicesInv, ReplyOK, Answered
    <3> QED
      BY <3>1, <3>2, <3>3
  <2> QED
    BY <1>t, <2>4, <2>5, <2>6, <2>7 DEF ServicesInv
<1>20. ASSUME NEW o \in Orgs, Evict(o) PROVE ServicesInv'
  <2>1. SuffixInv' /\ CacheInv'
    BY <1>20 DEF Evict, ServicesInv, SuffixInv, CacheInv, Expired, globals, upstream
  <2>2. AgeInv' /\ \A r \in Handlers : AnswerOK(r)' /\ ResultOK(r)' /\ ReplyOK(r)'
    BY <1>20 DEF Evict, ServicesInv, AgeInv, AnswerOK, ResultOK, ReplyOK, Answered, Org,
                 Bound, globals, upstream
  <2> QED
    BY <1>t, <2>1, <2>2 DEF ServicesInv
<1>21. CASE Restart
  <2>1. AgeInv'
    BY <1>21 DEF Restart, upstream, ServicesInv, AgeInv
  <2>2. SuffixInv'
    BY <1>21, IdleTypes DEF Restart, SuffixInv, NoResult, Result
  <2>3. CacheInv'
    BY <1>21, IdleTypes DEF Restart, CacheInv
  <2>4. \A r \in Handlers : AnswerOK(r)' /\ ResultOK(r)' /\ ReplyOK(r)'
    BY <1>21 DEF Restart, AnswerOK, ResultOK, ReplyOK, Answered
  <2> QED
    BY <1>t, <2>1, <2>2, <2>3, <2>4 DEF ServicesInv
<1>22. CASE Tick
  <2>1. /\ \A o \in Orgs : /\ age[o] \in [Holdings -> Int] /\ age'[o] \in [Holdings -> Int]
                           /\ \A f \in Holdings : age'[o][f] <= age[o][f] + 1
    BY <1>22, <1>t DEF Tick, TypeOK
  <2>2. ASSUME NEW p \in Orgs, NEW features, NEW origin, NEW b \in Int,
               Backed(age[p], features, origin, b)
        PROVE  Backed(age'[p], features, origin, b + 1)
    BY <2>1, <2>2, BackedLater
  <2>3. AgeInv'
    BY <1>22, <1>t DEF Tick, AgeInv, TypeOK
  <2>4. SuffixInv'
    <3>1. \A o \in DOMAIN cache : cache[o] \in Entries
      BY <1>t DEF TypeOK, Entries
    <3>2. \A o \in DOMAIN cache' : o \in DOMAIN cache /\ cache'[o].features = cache[o].features
      BY <1>22, <3>1 DEF Tick, Entries
    <3>3. UNCHANGED <<globals, pc, result>>
      BY <1>22 DEF Tick
    <3> QED
      BY <3>2, <3>3 DEF SuffixInv, ServicesInv, globals
  <2>5. CacheInv'
    <3> SUFFICES ASSUME NEW o \in DOMAIN cache', ~Expired(cache'[o])
                 PROVE  Backed(age'[o], cache'[o].features, cache'[o].origin,
                               Window - cache'[o].ttl)
      BY DEF CacheInv, Expired
    <3>1. o \in DOMAIN cache /\ o \in Orgs /\ cache[o] \in Entries
      BY <1>22, <1>t DEF Tick, TypeOK, Entries
    <3>2. /\ cache'[o].features = cache[o].features
          /\ cache'[o].origin = cache[o].origin
          /\ cache'[o].ttl = IF cache[o].ttl < 0 THEN cache[o].ttl ELSE cache[o].ttl - 1
      BY <1>22, <3>1 DEF Tick, Entries
    <3>3. ~Expired(cache[o]) /\ cache'[o].ttl = cache[o].ttl - 1
      BY <3>1, <3>2 DEF Expired, Entries
    <3>4. Backed(age[o], cache[o].features, cache[o].origin, Window - cache[o].ttl)
      BY <3>1, <3>3 DEF ServicesInv, CacheInv
    <3>5. /\ Window - cache[o].ttl \in Int
          /\ Window - cache[o].ttl + 1 = Window - cache'[o].ttl
      BY <3>1, <3>3 DEF Window, Entries
    <3> QED
      BY <2>2, <3>1, <3>2, <3>4, <3>5
  <2>6. ASSUME NEW r \in Handlers PROVE AnswerOK(r)' /\ ResultOK(r)' /\ ReplyOK(r)'
    <3>1. pc[r] \in {"idle", "await", "answered"} /\ pc' = pc
      BY <1>22 DEF Tick, InFlight
    <3>2. ResultOK(r)' /\ ReplyOK(r)'
      BY <3>1 DEF ResultOK, ReplyOK, Answered
    <3>3. AnswerOK(r)'
      <4> SUFFICES ASSUME pc[r] = "answered", answer[r].code = 200
                   PROVE  Backed(age'[Org(r)], answer[r].features, "answer", waited'[r])
        BY <1>22, <3>1 DEF Tick, AnswerOK, Org
      <4>1. Org(r) \in Orgs /\ waited[r] \in Int /\ waited'[r] = waited[r] + 1
        BY <1>22, <1>t DEF Tick, InFlight, TypeOK, Org, Request
      <4>2. Backed(age[Org(r)], answer[r].features, "answer", waited[r])
        BY DEF ServicesInv, AnswerOK
      <4> QED
        BY <2>2, <4>1, <4>2
    <3> QED
      BY <3>2, <3>3
  <2> QED
    BY <1>t, <2>3, <2>4, <2>5, <2>6 DEF ServicesInv
<1>23. CASE UNCHANGED vars
  BY <1>23, <1>t DEF vars, globals, upstream, ServicesInv, AgeInv, SuffixInv, CacheInv,
                     AnswerOK, ResultOK, ReplyOK, Answered, Org, Bound, Expired
<1> QED
  BY <1>1, <1>2, <1>3, <1>4, <1>5, <1>6, <1>7, <1>8, <1>9, <1>10, <1>11, <1>12, <1>13,
     <1>15, <1>16, <1>17, <1>18, <1>19, <1>20, <1>21, <1>22, <1>23
  DEF Next, Compute, Receive

(***************************************************************************)
(* The inductive invariant: wherever features pass through, they are no    *)
(* older than that place allows, and no place has features before the      *)
(* suffix of the paid ones is set.                                         *)
(***************************************************************************)
THEOREM Invariance == Spec => []ServicesInv
  BY InitInv, NextInv, PTL DEF Spec

----------------------------------------------------------------------------
(***************************************************************************)
(* The globals, the cache and every handler's locals keep their types.     *)
(***************************************************************************)
THEOREM TypeCorrect == Spec => []TypeOK
<1>1. ServicesInv => TypeOK
  BY DEF ServicesInv
<1> QED
  BY <1>1, Invariance, PTL

(***************************************************************************)
(* No reply grants a bundle that depends on SKUs, or shows it as paid,     *)
(* unless the organisation held the feature within CacheDuration plus      *)
(* ClientTimeout -- for any number of concurrent handlers, any bundles.yml *)
(* and whatever the Feature Service and the network do.                    *)
(***************************************************************************)
THEOREM FailClosedAlways == Spec => []FailClosed
<1>1. ServicesInv => FailClosed
  <2> SUFFICES ASSUME ServicesInv, NEW r \in Handlers, Answered(r), ~EntitlesEveryone,
                      NEW n \in DOMAIN reply[r].sections,
                      IsSkuBased(Named(BundleInfo, n)),
                      ~Named(BundleInfo, n).useIsInternal,
                      reply[r].sections[n].isEntitled
               PROVE  \E f \in Holdings :
                        /\ HeldWithin(Org(r), f, Window)
                        /\ Base(Named(BundleInfo, n).name) \in f
                        /\ IsPaid(Named(BundleInfo, n)) /\ ~reply[r].sections[n].isTrial =>
                             Suffixed(Named(BundleInfo, n).name, PaidFeatureSuffix) \in f
    BY DEF FailClosed
  <2> DEFINE b == Named(BundleInfo, n)
             features == result[r].features
  <2> USE ConstantsAssumption
  <2>1. PICK suffix \in {NoSuffix, PaidFeatureSuffix} :
          /\ features # {} => suffix = PaidFeatureSuffix
          /\ reply[r].sections = Sections(request[r], features, suffix)
    BY DEF ServicesInv, ReplyOK
  <2>2. reply[r].sections[n] =
          Section(b, features, suffix, request[r].id, Org(r) \in ValidOrgs)
    BY <2>1 DEF Sections, Entitlements, Org
  <2>3. Base(b.name) \in features
    BY <2>2 DEF Section
  <2>4. IsPaid(b) /\ ~reply[r].sections[n].isTrial =>
          Suffixed(b.name, PaidFeatureSuffix) \in features
    BY <2>1, <2>2, <2>3 DEF Section
  <2>5. PICK f \in Holdings : age[Org(r)][f] <= Bound(r) /\ features \subseteq f
    BY DEF ServicesInv, ResultOK, Backed
  <2>6. HeldWithin(Org(r), f, Window)
    <3>1. waited[r] \in 0..ClientTimeout /\ age[Org(r)][f] \in Nat
      BY DEF ServicesInv, TypeOK, Org, Request
    <3> QED
      BY <2>5, <3>1 DEF Bound, Window, HeldWithin
  <2> QED
    BY <2>3, <2>4, <2>5, <2>6
<1> QED
  BY <1>1, Invariance, PTL

(***************************************************************************)
(* A request with trial_activated=true is answered with features that were *)
(* held after it arrived, however the cache is filled meanwhile.           *)
(***************************************************************************)
THEOREM LiveWhenForcedAlways == Spec => []LiveWhenForced
<1>1. ServicesInv => LiveWhenForced
  BY DEF ServicesInv, LiveWhenForced, ResultOK, Backed, Bound, HeldWithin
<1> QED
  BY <1>1, Invariance, PTL
=============================================================================
