------------------------ MODULE SeatsContractProofs ------------------------
(***************************************************************************)
(* The program of the seats API keeps the contract of the API, for every   *)
(* value of the constants.                                                 *)
(***************************************************************************)
EXTENDS SeatsProofs, SeatsRefinement

\* The contract's rules are the program's.
LEMMA SameRules ==
  /\ Contract!Window = Window
  /\ \A q : Contract!MayCall(q) <=> MayCall(q)
  /\ \A held, i : Contract!Where(held, i) = Where(held, i)
  /\ \A o, a : Contract!Had(o, a) <=> Had(o, a)
  /\ \A r : Contract!Org(r) = Org(r)
<1>1. Contract!Window = Window
  BY DEF Contract!Window, Window
<1>2. \A o, a : Contract!Had(o, a) <=> Had(o, a)
  BY <1>1 DEF Contract!Had, Had
<1>3. \A held, i : Contract!Where(held, i) = Where(held, i)
  BY DEF Contract!Where, Where
<1> QED
  BY <1>1, <1>2, <1>3 DEF Contract!MayCall, MayCall, Contract!Org, Org

\* What the contract sees of a handler.
LEMMA Seen ==
  ASSUME NEW r \in Handlers
  PROVE  /\ pc[r] = "idle" => Phase[r] = "idle"
         /\ pc[r] = "replied" => Phase[r] = "done"
         /\ pc[r] \notin {"idle", "replied"} <=> Phase[r] = "pending"
         /\ Status[r] = IF written[r] = <<>> THEN 0 ELSE Sent(r)
         /\ Looked[r] <=> Kind(r) = "get" /\ at[r] > 3
         /\ Looked[r] \in BOOLEAN
BY DEF Phase, Status, Looked, Kind

\* A step of one handler shows nothing of the others.
LEMMA OthersSeen ==
  ASSUME NEW r \in Handlers, Others(r)
  PROVE  /\ Phase' = [Phase EXCEPT ![r] = Phase'[r]]
         /\ Status' = [Status EXCEPT ![r] = Status'[r]]
         /\ Looked' = [Looked EXCEPT ![r] = Looked'[r]]
         /\ \A s \in Handlers \ {r} : Status'[s] = Status[s]
<1>1. \A s \in Handlers \ {r} : /\ pc'[s] = pc[s] /\ at'[s] = at[s]
                                /\ request'[s] = request[s] /\ written'[s] = written[s]
  BY DEF Others
<1>2. Phase' = [Phase EXCEPT ![r] = Phase'[r]]
  BY <1>1 DEF Phase
<1>3. /\ Status' = [Status EXCEPT ![r] = Status'[r]]
      /\ \A s \in Handlers \ {r} : Status'[s] = Status[s]
  BY <1>1 DEF Status, Sent
<1>4. Looked' = [Looked EXCEPT ![r] = Looked'[r]]
  BY <1>1 DEF Looked
<1> QED
  BY <1>2, <1>3, <1>4

LEMMA InitKeeps == Init => Contract!Init
<1> SUFFICES ASSUME Init PROVE Contract!Init
  OBVIOUS
<1>1. Phase = [r \in Handlers |-> "idle"] /\ Status = [r \in Handlers |-> 0]
  BY DEF Init, Phase, Status
<1>2. Looked = [r \in Handlers |-> FALSE]
  <2>1. \A r \in Handlers : at[r] = 1
    BY DEF Init
  <2>2. ASSUME NEW r \in Handlers
        PROVE  (request[r].kind = "get" /\ at[r] > 3) = FALSE
    <3>1. ~(at[r] > 3)
      BY <2>1
    <3> QED
      BY <3>1
  <2> QED
    BY <2>2, Zenon DEF Looked
<1>3. request \in [Handlers -> Requests]
  BY SeatsAssumption DEF Init, AnyRequest
<1>4. age = [o \in Orgs |-> [a \in AmsOrgs |->
               IF a = amsOf[o] THEN 0 ELSE Contract!Window + 1]]
  BY SameRules DEF Init
<1> QED
  BY <1>1, <1>2, <1>3, <1>4 DEF Init, Contract!Init

\* A handler at the first step of a program has found no seats.
LEMMA IdleLooksUp ==
  ASSUME NEW r \in Handlers, Others(r), at[r] = 1, at'[r] = 1
  PROVE  Looked' = Looked
<1>1. \A s \in Handlers : (request'[s].kind = "get" /\ at'[s] > 3) <=>
                            (request[s].kind = "get" /\ at[s] > 3)
  BY DEF Others
<1> QED
  BY <1>1 DEF Looked

----------------------------------------------------------------------------
\* A handler works on its request: the contract sees nothing of it.
LEMMA Unseen ==
  ASSUME NEW r \in Handlers, Others(r), UNCHANGED <<request, written, upstream, age, member, heldBy>>,
         pc[r] \notin {"idle", "replied"}, pc'[r] \notin {"idle", "replied"},
         Kind(r) = "get" /\ at'[r] > 3 <=> Kind(r) = "get" /\ at[r] > 3
  PROVE  UNCHANGED Contract!vars
<1>1. \A s \in Handlers : /\ pc'[s] = pc[s] \/ s = r
                          /\ request'[s] = request[s] /\ written'[s] = written[s]
                          /\ (request[s].kind = "get" /\ at'[s] > 3) <=>
                               (request[s].kind = "get" /\ at[s] > 3)
  BY DEF Others, Kind
<1>2. Phase' = Phase
  BY <1>1 DEF Phase
<1>3. Status' = Status
  BY <1>1 DEF Status, Sent
<1>4. Looked' = Looked
  BY <1>1 DEF Looked
<1> QED
  BY <1>2, <1>3, <1>4 DEF Contract!vars, Contract!upstream, upstream

\* A handler that has replied shows the first status it wrote.
LEMMA ReplySeen ==
  ASSUME TypeOK, NEW r \in Handlers, pc[r] \notin {"idle", "replied"},
         NEW codes \in ReplyCodes, Reply(r, codes),
         NEW statuses, codes[1] \in statuses,
         \A s \in Handlers \ {r} : member'[s] = member[s],
         UNCHANGED <<amsOf, worksFor, age>>
  PROVE  Contract!Reply(r, statuses)
<1>1. /\ Others(r) /\ pc'[r] = "replied" /\ at'[r] = 1
      /\ written'[r] = codes /\ request' = request
  BY ReplyLocals
<1>2. codes # <<>>
  BY CodesAreSequences
<1>3. Phase[r] = "pending" /\ Phase'[r] = "done"
  BY <1>1 DEF Phase
<1>4. Status'[r] = codes[1]
  BY <1>1, <1>2 DEF Status, Sent
<1>5. Looked'[r] = FALSE
  <2>1. ~(request'[r].kind = "get" /\ at'[r] > 3)
    BY <1>1
  <2> QED
    BY <2>1, Zenon DEF Looked
<1> QED
  BY <1>1, <1>3, <1>4, <1>5, OthersSeen DEF Contract!Reply

\* A refusal tells what was wrong with the request before anything else.
LEMMA RefuseSeen ==
  ASSUME SeatsInv, NEW r \in Handlers, NEW status \in Refusals, Refuse(r, status),
         pc[r] \notin {"idle", "replied"},
         ~MayCall(request[r]) => status = 403,
         MayCall(request[r]) /\ ~request[r].valid => status = 400
  PROVE  Contract!Refuse(r)
<1>t. TypeOK
  BY DEF SeatsInv
<1>1. <<status>> \in ReplyCodes /\ << status >>[1] = status
  BY DEF ReplyCodes
<1>2. /\ Reply(r, <<status>>) /\ UNCHANGED <<amsOf, seats, worksFor, age>>
      /\ \A s \in Handlers \ {r} : member'[s] = member[s] /\ heldBy'[s] = heldBy[s]
  BY <1>t DEF Refuse, TypeOK, upstream
<1>3. status \in IF ~MayCall(request[r]) THEN {403}
                 ELSE IF ~request[r].valid THEN {400} ELSE 400..599
  BY RefusalRange
<1>4. Contract!Reply(r, IF ~MayCall(request[r]) THEN {403}
                        ELSE IF ~request[r].valid THEN {400} ELSE 400..599)
  BY <1>t, <1>1, <1>2, <1>3, ReplySeen
<1>5. Contract!MayCall(request[r]) <=> MayCall(request[r])
  BY SameRules
<1> QED
  BY <1>2, <1>4, <1>5 DEF Contract!Refuse

\* A handler past its checks serves someone who may ask for what he asks.
LEMMA RunningIsAllowed ==
  ASSUME SeatsInv, NEW r \in Handlers, Running(r)
  PROVE  /\ MayCall(request[r]) /\ request[r].valid /\ Contract!Allowed(request[r])
         /\ pc[r] \notin {"idle", "replied"} /\ Phase[r] = "pending"
<1>1. MayCall(request[r]) /\ request[r].valid
  BY DEF SeatsInv, HandlerInv, CallerInv, MayCall, Kind
<1>2. pc[r] \notin {"idle", "replied"}
  BY DEF Running
<1> QED
  BY <1>1, <1>2, SameRules, Seen DEF Contract!Allowed

LEMMA RefusalsSeen ==
  ASSUME SeatsInv, NEW r \in Handlers,
         \/ FindForeigner(r) \/ FindNobody(r) \/ UserFails(r) \/ ConvertMalformed(r)
         \/ ConvertedToNothing(r) \/ AmsFails(r) \/ SubscriptionGone(r)
         \/ SubscriptionWithoutOrg(r) \/ RefuseForeign(r) \/ RefuseStatus(r) \/ Deny(r)
  PROVE  Contract!Refuse(r)
<1>1. Running(r)
  BY CallsRun DEF FindForeigner, FindNobody, UserFails, ConvertMalformed, ConvertedToNothing,
     AmsFails, SubscriptionGone, SubscriptionWithoutOrg, RefuseForeign, RefuseStatus, Deny,
     Running
<1>2. \E status \in Refusals : Refuse(r, status)
  BY RefusalsRefuse
<1> QED
  BY <1>1, <1>2, RunningIsAllowed, RefuseSeen

----------------------------------------------------------------------------
\* A handler gets on with its program.
LEMMA AdvanceUnseen ==
  ASSUME SeatsInv, NEW r \in Handlers, NEW sub \in AmsOrgs \cup {NoOrg},
         NEW ams \in AmsOrgs \cup {NoOrg}, Running(r), Advance(r, sub, ams),
         ~(Kind(r) = "get" /\ at[r] = 3), UNCHANGED <<upstream, history>>
  PROVE  UNCHANGED Contract!vars
<1>1. /\ Others(r) /\ pc'[r] = "run" /\ at'[r] = at[r] + 1
      /\ request' = request /\ written' = written
  BY AdvanceLocals DEF SeatsInv, Running
<1>2. at[r] \in Nat
  BY DEF SeatsInv, TypeOK
<1>3. Kind(r) = "get" /\ at'[r] > 3 <=> Kind(r) = "get" /\ at[r] > 3
  BY <1>1, <1>2
<1> QED
  BY <1>1, <1>3, Unseen DEF Running, history
\* Converting the organisation's id.
LEMMA ConvertUnseen ==
  ASSUME SeatsInv, NEW r \in Handlers,
         ConvertFromCache(r) \/ ConvertByAms(r) \/ ListOrgs(r) \/ Converted(r)
  PROVE  UNCHANGED Contract!vars
<1>t. TypeOK /\ CallerInv(r) /\ subOrg[r] \in AmsOrgs \cup {NoOrg}
  BY DEF SeatsInv, HandlerInv, TypeOK
<1>1. CASE ConvertByAms(r) \/ ListOrgs(r)
  <2>1. /\ pc[r] \in {"run", "listing"}
        /\ \E step \in {"listing", "listed"} : pc' = [pc EXCEPT ![r] = step]
        /\ \A s \in Handlers \ {r} : amsOrg'[s] = amsOrg[s]
        /\ UNCHANGED <<at, request, subOrg, written, callTime, upstream, history>>
    BY <1>1, <1>t DEF ConvertByAms, ListOrgs, Doing, Goto, TypeOK
  <2>2. Others(r) /\ pc'[r] \in {"listing", "listed"}
    BY <1>t, <2>1 DEF Others, TypeOK
  <2> QED
    BY <2>1, <2>2, Unseen DEF history
<1>2. CASE ConvertFromCache(r) \/ Converted(r)
  <2>1. /\ Running(r) /\ Program(Kind(r))[at[r]] = "convert"
        /\ \E ams \in AmsOrgs \cup {NoOrg} : Advance(r, subOrg[r], ams)
        /\ UNCHANGED <<upstream, history>>
    <3>1. CASE ConvertFromCache(r)
      <4>1. idCache[Org(r)].id \in AmsOrgs
        BY <1>t, <3>1 DEF ConvertFromCache, Cached, TypeOK
      <4> QED
        BY <3>1, <4>1, CallsRun DEF ConvertFromCache, Doing, Kind
    <3>2. CASE Converted(r)
      <4>1. amsOrg[r] \in AmsOrgs \cup {NoOrg}
        BY <1>t DEF TypeOK
      <4> QED
        BY <1>t, <3>2, <4>1 DEF Converted, Running, CallerInv
    <3> QED
      BY <1>2, <3>1, <3>2
  <2>2. ~(Kind(r) = "get" /\ at[r] = 3)
    BY <1>t, <2>1, Steps
  <2> QED
    BY <1>t, <2>1, <2>2, AdvanceUnseen
<1> QED
  BY <1>1, <1>2

\* Making sure of the user, the subscription or the filter.
LEMMA FindingUnseen ==
  ASSUME SeatsInv, NEW r \in Handlers, FindMember(r) \/ FindSubscription(r) \/ Pass(r)
  PROVE  UNCHANGED Contract!vars
<1>t. /\ TypeOK /\ Running(r)
      /\ subOrg[r] \in AmsOrgs \cup {NoOrg} /\ amsOrg[r] \in AmsOrgs \cup {NoOrg}
  BY CallsRun DEF SeatsInv, TypeOK, FindMember, FindSubscription, Pass
<1>u. UNCHANGED <<upstream, history>>
  BY DEF FindMember, FindSubscription, Pass
<1>1. CASE FindSubscription(r)
  <2>1. Kind(r) = "delete"
    BY <1>1, <1>t, Steps DEF FindSubscription
  <2>2. PICK a \in Where(seats, request[r].id) : Advance(r, a, amsOrg[r])
    BY <1>1 DEF FindSubscription
  <2>3. a \in AmsOrgs
    BY <1>t, <2>2 DEF TypeOK, Where
  <2> QED
    BY <1>t, <1>u, <2>1, <2>2, <2>3, AdvanceUnseen
<1>2. CASE FindMember(r) \/ Pass(r)
  <2>1. /\ at[r] < Len(Program(Kind(r))) /\ ~(Kind(r) = "get" /\ at[r] = 3)
        /\ at[r] # Len(Program(Kind(r))) /\ Continue(r)
    BY <1>2, <1>t, Steps, Programs DEF FindMember, Pass
  <2>2. Advance(r, subOrg[r], amsOrg[r])
    BY <2>1 DEF Continue, Succeed, Kind
  <2> QED
    BY <1>t, <1>u, <2>1, <2>2, AdvanceUnseen
<1> QED
  BY <1>1, <1>2

\* A listing finds its seats, or it is done; the quota of a POST is internal.
LEMMA ReadSeen ==
  ASSUME SeatsInv, [Next]_vars, NEW r \in Handlers, Read(r)
  PROVE  Contract!Look(r) \/ Contract!List(r) \/ UNCHANGED Contract!vars
<1>t. /\ TypeOK /\ FoundInv(r) /\ Running(r)
      /\ subOrg[r] \in AmsOrgs \cup {NoOrg} /\ amsOrg[r] \in AmsOrgs \cup {NoOrg}
  BY CallsRun DEF SeatsInv, HandlerInv, TypeOK, Read
<1>u. Continue(r) /\ UNCHANGED <<idCache, amsOf, seats, worksFor, age, member, heldBy, changed>>
  BY DEF Read, upstream, history
<1>1. \/ Kind(r) = "post" /\ at[r] = 3
      \/ Doing(r, "subs") /\ Kind(r) = "get" /\ at[r] = 3
      \/ Kind(r) = "get" /\ at[r] = 5
  BY <1>t, Steps DEF Read
<1>2. ASSUME at[r] = 3 PROVE Advance(r, subOrg[r], amsOrg[r])
  <2>1. at[r] # Len(Program(request[r].kind))
    BY <1>1, <1>2, Programs DEF Kind
  <2> QED
    BY <1>u, <2>1 DEF Continue, Succeed
<1>3. CASE Kind(r) = "post" /\ at[r] = 3
  BY <1>t, <1>u, <1>2, <1>3, AdvanceUnseen DEF upstream, history
<1>4. CASE Doing(r, "subs") /\ Kind(r) = "get" /\ at[r] = 3
  <2>1. /\ Others(r) /\ pc'[r] = "run" /\ at'[r] = 4
        /\ request' = request /\ written' = written
    <3>1. Advance(r, subOrg[r], amsOrg[r]) /\ pc[r] \notin {"idle", "replied"}
      BY <1>t, <1>2, <1>4 DEF Running
    <3>2. at'[r] = at[r] + 1 /\ at[r] = 3
      BY <1>t, <1>4, <3>1, AdvanceLocals
    <3> QED
      BY <1>t, <3>1, <3>2, AdvanceLocals
  <2>2. Had(Org(r), amsOrg[r])
    BY <1>4, <2>1, StepOwnOrgOnly
  <2>3. \E a \in AmsOrgs : Contract!Had(Contract!Org(r), a)
    BY <2>2, SameRules DEF Had
  <2>4. Looked'[r] = TRUE
    <3>1. request'[r].kind = "get" /\ at'[r] > 3
      BY <1>4, <2>1 DEF Kind
    <3> QED
      BY <3>1, Zenon DEF Looked
  <2>5. Phase' = Phase
    <3>1. \A s \in Handlers : pc'[s] = pc[s]
      BY <1>4, <2>1 DEF Doing, Others
    <3> QED
      BY <3>1 DEF Phase
  <2>6. Looked' = [Looked EXCEPT ![r] = TRUE]
    BY <2>1, <2>4, OthersSeen
  <2>8. Status' = Status
    BY <2>1 DEF Status, Sent
  <2>7. request[r].statusOK
    BY <1>t, <1>4 DEF FoundInv
  <2> QED
    BY <1>t, <1>u, <1>4, <2>1, <2>3, <2>5, <2>6, <2>7, <2>8, RunningIsAllowed
    DEF Contract!Look, Contract!upstream, Kind
<1>5. CASE Kind(r) = "get" /\ at[r] = 5
  <2>1. Len(Program(request[r].kind)) = 5
    BY <1>5, Programs DEF Kind
  <2>2. Succeed(r)
    BY <1>u, <1>5, <2>1 DEF Continue, Advance
  <2>3. PICK codes \in Codes(r) : Reply(r, codes)
    BY <2>2 DEF Succeed, Codes, Kind
  <2>4. codes \in ReplyCodes /\ codes[1] \in {200}
    BY <1>5, <2>3, CodesAreReplies DEF Codes
  <2>5. Contract!Reply(r, {200})
    BY <1>t, <1>u, <2>3, <2>4, ReplySeen DEF Running
  <2>6. Looked[r]
    BY <1>5, Seen
  <2> QED
    BY <1>u, <2>5, <2>6 DEF Contract!List
<1> QED
  BY <1>1, <1>3, <1>4, <1>5

\* A seat is taken away, or assigned; the answer may be lost.
LEMMA PerformedSeen ==
  ASSUME SeatsInv, NEW r \in Handlers, pc[r] = "run", Kind(r) \in {"post", "delete"}, at[r] = 4,
         Performed(r)
  PROVE  /\ Contract!Reply(r, IF Kind(r) = "delete" THEN {204, 500} ELSE {200, 500})
         /\ Contract!Witness(Handlers \ {r})
<1>t. TypeOK
  BY DEF SeatsInv
<1>1. /\ Witness(Handlers \ {r}) /\ UNCHANGED <<idCache, amsOf, worksFor, age, member>>
  BY DEF Performed
<1>2. PICK codes \in Codes(r) \cup {<< 500 >>} : Reply(r, codes)
  BY PerformedReplies
<1>3. codes \in ReplyCodes
  BY CodesAreReplies
<1>4. codes[1] \in IF Kind(r) = "delete" THEN {204, 500} ELSE {200, 500}
  BY DEF Codes
<1>5. Contract!Reply(r, IF Kind(r) = "delete" THEN {204, 500} ELSE {200, 500})
  BY <1>t, <1>1, <1>2, <1>3, <1>4, ReplySeen
<1>6. \A s \in Handlers : Phase[s] = "pending" <=> pc[s] \notin {"idle", "replied"}
  BY Seen
<1>7. Contract!Witness(Handlers \ {r})
  BY <1>1, <1>6, SameRules DEF Witness, Contract!Witness
<1> QED
  BY <1>5, <1>7

LEMMA PerformSeen ==
  ASSUME SeatsInv, [Next]_vars, NEW r \in Handlers, PerformDelete(r) \/ Authorize(r)
  PROVE  Contract!Delete(r) \/ Contract!Assign(r)
<1>t. TypeOK /\ CallerInv(r) /\ FoundInv(r)
  BY DEF SeatsInv, HandlerInv
<1>1. CASE PerformDelete(r)
  <2>1. /\ pc[r] = "run" /\ Kind(r) = "delete" /\ at[r] = 4 /\ Performed(r)
        /\ request[r].id \in DOMAIN seats
        /\ seats' = [i \in DOMAIN seats \ {request[r].id} |-> seats[i]]
    BY <1>1, <1>t, Steps DEF PerformDelete, Where
  <2>2. Contract!Reply(r, {204, 500}) /\ Contract!Witness(Handlers \ {r})
    BY <2>1, PerformedSeen
  <2>3. changed'[r] /\ ~changed[r]
    BY <1>t, <2>1 DEF Performed, TypeOK, CallerInv
  <2>4. PICK a \in heldBy[r] : Had(Org(r), a)
    BY <2>1, <2>3, StepOwnOrgOnly DEF Kind
  <2>5. Contract!Had(Contract!Org(r), a)
    BY <2>4, SameRules
  <2>6. Contract!Allowed(request[r])
    BY <2>1, RunningIsAllowed DEF Running
  <2> QED
    BY <2>1, <2>2, <2>4, <2>5, <2>6 DEF Contract!Delete, Kind
<1>2. CASE Authorize(r)
  <2>1. /\ pc[r] = "run" /\ Kind(r) = "post" /\ at[r] = 4 /\ Performed(r)
        /\ \E i \in Ids \ DOMAIN seats : \E a \in AmsOrgs :
             seats' = [j \in DOMAIN seats \cup {i} |-> IF j = i THEN a ELSE seats[j]]
    BY <1>2, <1>t, Steps DEF Authorize
  <2>2. Contract!Reply(r, {200, 500}) /\ Contract!Witness(Handlers \ {r})
    BY <2>1, PerformedSeen
  <2>3. member[r] /\ Contract!Allowed(request[r])
    BY <1>t, <2>1, RunningIsAllowed DEF Running, FoundInv
  <2> QED
    BY <2>1, <2>2, <2>3 DEF Contract!Assign, Kind
<1> QED
  BY <1>1, <1>2

----------------------------------------------------------------------------
\* A request arrives, is checked, and ends.
LEMMA ArriveSeen ==
  ASSUME SeatsInv, NEW r \in Handlers, Arrive(r)
  PROVE  Contract!Arrive(r)
<1>t. TypeOK /\ CallerInv(r)
  BY DEF SeatsInv, HandlerInv
<1>1. /\ pc[r] = "idle" /\ pc' = [pc EXCEPT ![r] = "check"]
      /\ \E q \in Requests :
           /\ request' = [request EXCEPT ![r] = q]
           /\ member' = [member EXCEPT ![r] = q.kind = "post" /\ worksFor[q.user] = q.org]
           /\ heldBy' = [heldBy EXCEPT ![r] =
                           IF q.kind = "delete" THEN Where(seats, q.id) ELSE {}]
      /\ UNCHANGED <<idCache, at, subOrg, amsOrg, written, callTime, upstream, age, changed>>
  BY DEF Arrive, Goto
<1>2. Others(r) /\ pc'[r] = "check" /\ at[r] = 1 /\ at'[r] = 1
  BY <1>t, <1>1 DEF Others, TypeOK, CallerInv
<1>3. Phase[r] = "idle" /\ Phase'[r] = "pending" /\ Status' = Status
  BY <1>1, <1>2 DEF Phase, Status, Sent
<1>4. Phase' = [Phase EXCEPT ![r] = "pending"]
  BY <1>2, <1>3, OthersSeen
<1>5. Looked' = Looked
  BY <1>2, IdleLooksUp
<1> QED
  BY <1>1, <1>3, <1>4, <1>5, SameRules DEF Contract!Arrive, Contract!upstream, upstream

LEMMA FinishSeen ==
  ASSUME SeatsInv, NEW r \in Handlers, Finish(r)
  PROVE  Contract!Return(r)
<1>t. TypeOK /\ CallerInv(r)
  BY DEF SeatsInv, HandlerInv
<1>1. /\ pc[r] = "replied" /\ pc' = [pc EXCEPT ![r] = "idle"]
      /\ request' = [request EXCEPT ![r] = AnyRequest]
      /\ written' = [written EXCEPT ![r] = <<>>]
      /\ member' = [member EXCEPT ![r] = FALSE]
      /\ UNCHANGED <<heldBy, at, subOrg, amsOrg, callTime, upstream, age>>
  BY DEF Finish, Goto
<1>2. Others(r) /\ pc'[r] = "idle" /\ at[r] = 1 /\ at'[r] = 1 /\ written'[r] = <<>>
  BY <1>t, <1>1 DEF Others, TypeOK, CallerInv
<1>3. Phase[r] = "done" /\ Phase'[r] = "idle" /\ Status'[r] = 0
  BY <1>1, <1>2 DEF Phase, Status
<1>4. Phase' = [Phase EXCEPT ![r] = "idle"] /\ Status' = [Status EXCEPT ![r] = 0]
  BY <1>2, <1>3, OthersSeen
<1>5. Looked' = Looked
  BY <1>2, IdleLooksUp
<1>6. \A s \in Handlers \ {r} : request'[s] = request[s] /\ member'[s] = member[s]
  BY <1>t, <1>1 DEF TypeOK
<1> QED
  BY <1>1, <1>3, <1>4, <1>5, <1>6 DEF Contract!Return, Contract!upstream, upstream

LEMMA CheckSeen ==
  ASSUME SeatsInv, NEW r \in Handlers, Check(r)
  PROVE  Contract!Arrive(r) \/ Contract!Refuse(r) \/ UNCHANGED Contract!vars
<1>t. TypeOK
  BY DEF SeatsInv
<1>1. CASE RefuseCaller(r)
  <2>1. /\ Refuse(r, 403) /\ 403 \in Refusals /\ ~MayCall(request[r])
        /\ pc[r] \notin {"idle", "replied"}
    BY <1>1 DEF RefuseCaller, Refusals
  <2> QED
    BY <2>1, RefuseSeen
<1>2. CASE RefuseRequest(r)
  <2>1. /\ Refuse(r, 400) /\ 400 \in Refusals /\ MayCall(request[r])
        /\ pc[r] \notin {"idle", "replied"}
    BY <1>2 DEF RefuseRequest, Refusals
  <2> QED
    BY <2>1, RefuseSeen
<1>3. CASE Begin(r)
  <2>1. /\ pc[r] = "check" /\ pc' = [pc EXCEPT ![r] = "run"]
        /\ UNCHANGED <<idCache, at, request, subOrg, amsOrg, written, callTime, upstream, history>>
    BY <1>3 DEF Begin, Goto
  <2>2. Others(r) /\ pc'[r] = "run"
    BY <1>t, <2>1 DEF Others, TypeOK
  <2> QED
    BY <2>1, <2>2, Unseen DEF history
<1> QED
  BY <1>1, <1>2, <1>3, ArriveSeen DEF Check

\* The steps of a handler, and what the contract sees of them.
LEMMA HandlerSeen ==
  ASSUME SeatsInv, [Next]_vars, NEW r \in Handlers, HandlerStep(r)
  PROVE  Contract!Next \/ UNCHANGED Contract!vars
<1>1. \/ Contract!Arrive(r) \/ Contract!Refuse(r) \/ Contract!Delete(r) \/ Contract!Assign(r)
      \/ Contract!Look(r) \/ Contract!List(r) \/ Contract!Return(r) \/ UNCHANGED Contract!vars
  BY CheckSeen, FinishSeen, RefusalsSeen, ConvertUnseen, FindingUnseen, ReadSeen, PerformSeen
  DEF HandlerStep, GetUser, ConvertUserOrgId, Subscriptions
<1> QED
  BY <1>1 DEF Contract!Next

----------------------------------------------------------------------------
\* AMS and BOP change by themselves, and time passes.
LEMMA WorldSeen ==
  ASSUME SeatsInv,
         \/ \E o \in Orgs : Remap(o)
         \/ \E i \in Ids : Transfer(i)
         \/ \E u \in Users : Move(u)
         \/ Tick
  PROVE  Contract!Next \/ UNCHANGED Contract!vars
<1>t. TypeOK
  BY DEF SeatsInv
<1>v. UNCHANGED <<pc, at, request, written>>
  BY DEF Remap, Transfer, Move, Tick
<1>s. Phase' = Phase /\ Status' = Status /\ Looked' = Looked
  BY <1>v DEF Phase, Status, Sent, Looked
<1>p. \A s \in Handlers : Phase[s] = "pending" <=> pc[s] \notin {"idle", "replied"}
  BY Seen
<1>1. ASSUME NEW o \in Orgs, Remap(o) PROVE Contract!Remap(o)
  <2>1. PICK a \in (AmsOrgs \cup {NoOrg}) \ {amsOf[o]} :
          /\ amsOf' = [amsOf EXCEPT ![o] = a]
          /\ age' = [age EXCEPT ![o] = [b \in AmsOrgs |-> IF b = a THEN 0 ELSE @[b]]]
    BY <1>1 DEF Remap
  <2>2. amsOf'[o] # amsOf[o]
    BY <1>t, <2>1 DEF TypeOK
  <2>3. UNCHANGED <<seats, worksFor, member, heldBy, request>>
    BY <1>1 DEF Remap
  <2> QED
    BY <1>s, <2>1, <2>2, <2>3 DEF Contract!Remap
<1>2. ASSUME NEW i \in Ids, Transfer(i) PROVE Contract!Transfer(i)
  <2>1. /\ i \in DOMAIN seats
        /\ \E a \in AmsOrgs \ {seats[i]} : seats' = [seats EXCEPT ![i] = a]
        /\ Witness(Handlers) /\ UNCHANGED <<request, amsOf, worksFor, age, member>>
    BY <1>2 DEF Transfer
  <2>2. Contract!Witness(Handlers)
    BY <1>p, <2>1, SameRules DEF Witness, Contract!Witness
  <2> QED
    BY <1>s, <2>1, <2>2 DEF Contract!Transfer
<1>3. ASSUME NEW u \in Users, Move(u) PROVE Contract!Move(u)
  <2>1. PICK o \in (Orgs \cup {NoOrg}) \ {worksFor[u]} : worksFor' = [worksFor EXCEPT ![u] = o]
    BY <1>3 DEF Move
  <2>2. worksFor'[u] # worksFor[u]
    BY <1>t, <2>1 DEF TypeOK
  <2>3. UNCHANGED <<request, amsOf, seats, age, heldBy>>
    BY <1>3 DEF Move
  <2>4. member' = [r \in Handlers |-> \/ member[r]
                                      \/ /\ Phase[r] = "pending"
                                         /\ request[r].kind = "post"
                                         /\ worksFor'[request[r].user] = Contract!Org(r)]
    <3>1. \A r \in Handlers :
            (\/ member[r]
             \/ /\ Phase[r] = "pending"
                /\ request[r].kind = "post"
                /\ worksFor'[request[r].user] = Contract!Org(r))
            <=>
            (\/ member[r]
             \/ /\ pc[r] \notin {"idle", "replied"}
                /\ request[r].kind = "post"
                /\ worksFor'[request[r].user] = Org(r))
      BY <1>p, SameRules
    <3> QED
      BY <1>3, <3>1 DEF Move
  <2> QED
    BY <1>s, <2>1, <2>2, <2>3, <2>4 DEF Contract!Move
<1>4. CASE Tick
  <2>1. /\ age' = [o \in Orgs |-> [a \in AmsOrgs |->
                     IF a = amsOf[o] THEN 0
                     ELSE IF age[o][a] > Contract!Window THEN age[o][a] ELSE age[o][a] + 1]]
        /\ UNCHANGED <<request, amsOf, seats, worksFor, member, heldBy>>
    BY <1>4, SameRules DEF Tick, upstream
  <2>2. CASE age' = age
    BY <1>s, <2>1, <2>2 DEF Contract!vars, Contract!upstream
  <2>3. CASE age' # age
    BY <1>s, <2>1, <2>3 DEF Contract!Next, Contract!Tick, Contract!upstream
  <2> QED
    BY <2>2, <2>3
<1> QED
  BY <1>1, <1>2, <1>3, <1>4 DEF Contract!Next

LEMMA NextKeeps ==
  SeatsInv /\ [Next]_vars => [Contract!Next]_(Contract!vars)
<1> SUFFICES ASSUME SeatsInv, [Next]_vars
             PROVE  Contract!Next \/ UNCHANGED Contract!vars
  OBVIOUS
<1>1. CASE \E r \in Handlers : HandlerStep(r)
  BY <1>1, HandlerSeen
<1>2. CASE UNCHANGED vars
  <2>1. UNCHANGED <<pc, at, request, written, amsOf, seats, worksFor, age, member, heldBy>>
    BY <1>2 DEF vars, upstream, history
  <2>2. Phase' = Phase /\ Status' = Status /\ Looked' = Looked
    BY <2>1 DEF Phase, Status, Sent, Looked
  <2> QED
    BY <2>1, <2>2 DEF Contract!vars, Contract!upstream
<1> QED
  BY <1>1, <1>2, WorldSeen DEF Next, HandlerStep

(***************************************************************************)
(* The seats API keeps its contract, whichever ids are cached, however the *)
(* handlers race, whatever answers AMS and BOP give or lose, and whenever  *)
(* seats, users and ids move between two calls: a request touches AMS once *)
(* at most, only if it may, and its reply tells what has become of it.     *)
(***************************************************************************)
THEOREM KeepsSeatsContractAlways == Spec => KeepsSeatsContract
<1>1. Spec => []([Contract!Next]_(Contract!vars))
  BY NextKeeps, SeatsInvariance, PTL DEF Spec
<1> QED
  BY <1>1, InitKeeps, PTL DEF Spec, KeepsSeatsContract, Contract!Spec
=============================================================================
