--------------------------- MODULE SeatsContract ---------------------------
(***************************************************************************)
(* What the seats API promises its callers and the organisations whose     *)
(* seats AMS keeps, with no calls, no cache and no programs in sight: a    *)
(* request touches AMS at one moment and at most once, only if it may, and *)
(* the reply tells what has become of it.  Whoever is refused a request    *)
(* has changed nothing.  Seats change in no other way, as far as the API   *)
(* goes; AMS moves and renames by itself.                                  *)
(*                                                                         *)
(* A request may act on what was so at a moment since it arrived (member,  *)
(* heldBy), and on an AMS id its organisation had within Window.           *)
(***************************************************************************)
EXTENDS SeatsConfig

VARIABLES
  phase,     \* "idle", "pending" or "done"
  request,   \* the request being served
  status,    \* the status the caller is sent, 0 if none yet
  looked,    \* a listing has found the seats of the caller's organisation
  amsOf,     \* AMS: the id of each organisation
  seats,     \* AMS: subscription -> id of its organisation
  worksFor,  \* BOP: the organisation of each user
  age,       \* ticks since an organisation last had an AMS id
  member,    \* the user of a POST was in its organisation since it arrived
  heldBy     \* where the subscription of a DELETE was since then

upstream == <<amsOf, seats, worksFor>>
vars     == <<phase, request, status, looked, upstream, age, member, heldBy>>

Org(r)    == request[r].org
Had(o, a) == a \in AmsOrgs /\ age[o][a] <= Window

\* The request may touch AMS at all.
Allowed(q) == MayCall(q) /\ q.valid

Init ==
  /\ phase = [r \in Handlers |-> "idle"]
  /\ request \in [Handlers -> Requests]
  /\ status = [r \in Handlers |-> 0]
  /\ looked = [r \in Handlers |-> FALSE]
  /\ amsOf \in [Orgs -> AmsOrgs \cup {NoOrg}]
  /\ seats \in UNION {[S -> AmsOrgs] : S \in SUBSET Ids}
  /\ worksFor \in [Users -> Orgs \cup {NoOrg}]
  /\ age = [o \in Orgs |-> [a \in AmsOrgs |-> IF a = amsOf[o] THEN 0 ELSE Window + 1]]
  /\ member = [r \in Handlers |-> FALSE]
  /\ heldBy = [r \in Handlers |-> {}]

----------------------------------------------------------------------------
Arrive(r) ==
  /\ phase[r] = "idle"
  /\ phase' = [phase EXCEPT ![r] = "pending"]
  /\ \E q \in Requests :
       /\ request' = [request EXCEPT ![r] = q]
       /\ member' = [member EXCEPT ![r] = q.kind = "post" /\ worksFor[q.user] = q.org]
       /\ heldBy' = [heldBy EXCEPT ![r] = IF q.kind = "delete" THEN Where(seats, q.id) ELSE {}]
  /\ UNCHANGED <<status, looked, upstream, age>>

\* The caller is sent one of the statuses; what was known of the request is of no
\* more use.
Reply(r, statuses) ==
  /\ phase[r] = "pending"
  /\ phase' = [phase EXCEPT ![r] = "done"]
  /\ status'[r] \in statuses
  /\ \A s \in Handlers \ {r} : status'[s] = status[s]
  /\ looked' = [looked EXCEPT ![r] = FALSE]
  /\ \A s \in Handlers \ {r} : member'[s] = member[s]
  /\ UNCHANGED <<request, amsOf, worksFor, age>>

\* What is known of the subscriptions that the requests of others are about.
Witness(handlers) ==
  \A s \in handlers :
    heldBy'[s] = IF phase[s] = "pending" /\ request[s].kind = "delete"
                 THEN heldBy[s] \cup Where(seats', request[s].id) ELSE {}

\* An error, and nothing has happened; the caller learns what was wrong with the
\* request before anything else.
Refuse(r) ==
  /\ Reply(r, IF ~MayCall(request[r]) THEN {403}
              ELSE IF ~request[r].valid THEN {400} ELSE 400..599)
  /\ \A s \in Handlers \ {r} : heldBy'[s] = heldBy[s]
  /\ UNCHANGED seats

\* An administrator's DELETE takes away that one seat.  The answer may be lost.
Delete(r) ==
  /\ Allowed(request[r]) /\ request[r].kind = "delete"
  /\ Reply(r, {204, 500})
  /\ request[r].id \in DOMAIN seats
  /\ \E a \in heldBy[r] : Had(Org(r), a)
  /\ seats' = [i \in DOMAIN seats \ {request[r].id} |-> seats[i]]
  /\ Witness(Handlers \ {r})

\* An administrator's POST adds one seat, for a member of the organisation.
Assign(r) ==
  /\ Allowed(request[r]) /\ request[r].kind = "post"
  /\ Reply(r, {200, 500})
  /\ member[r]
  /\ \E i \in Ids \ DOMAIN seats : \E a \in AmsOrgs :
       seats' = [j \in DOMAIN seats \cup {i} |-> IF j = i THEN a ELSE seats[j]]
  /\ Witness(Handlers \ {r})

\* A GET reads the seats of an id the organisation had within the window.
Look(r) ==
  /\ phase[r] = "pending"
  /\ Allowed(request[r]) /\ request[r].kind = "get" /\ request[r].statusOK
  /\ \E a \in AmsOrgs : Had(Org(r), a)
  /\ looked' = [looked EXCEPT ![r] = TRUE]
  /\ UNCHANGED <<phase, request, status, upstream, age, member, heldBy>>

List(r) ==
  /\ looked[r]
  /\ Reply(r, {200})
  /\ \A s \in Handlers \ {r} : heldBy'[s] = heldBy[s]
  /\ UNCHANGED seats

Return(r) ==
  /\ phase[r] = "done"
  /\ phase' = [phase EXCEPT ![r] = "idle"]
  /\ status' = [status EXCEPT ![r] = 0]
  /\ \A s \in Handlers \ {r} : /\ request'[s] = request[s]
                               /\ member'[s] = member[s]
  /\ UNCHANGED <<looked, upstream, age, heldBy>>

----------------------------------------------------------------------------
Remap(o) ==
  /\ amsOf'[o] # amsOf[o]
  /\ \E a \in AmsOrgs \cup {NoOrg} :
       /\ amsOf' = [amsOf EXCEPT ![o] = a]
       /\ age' = [age EXCEPT ![o] = [b \in AmsOrgs |-> IF b = a THEN 0 ELSE @[b]]]
  /\ UNCHANGED <<phase, request, status, looked, seats, worksFor, member, heldBy>>

Transfer(i) ==
  /\ i \in DOMAIN seats
  /\ \E a \in AmsOrgs \ {seats[i]} : seats' = [seats EXCEPT ![i] = a]
  /\ Witness(Handlers)
  /\ UNCHANGED <<phase, request, status, looked, amsOf, worksFor, age, member>>

Move(u) ==
  /\ worksFor'[u] # worksFor[u]
  /\ \E o \in Orgs \cup {NoOrg} : worksFor' = [worksFor EXCEPT ![u] = o]
  /\ member' = [r \in Handlers |-> \/ member[r]
                                   \/ /\ phase[r] = "pending"
                                      /\ request[r].kind = "post"
                                      /\ worksFor'[request[r].user] = Org(r)]
  /\ UNCHANGED <<phase, request, status, looked, amsOf, seats, age, heldBy>>

Tick ==
  /\ age' # age
  /\ age' = [o \in Orgs |-> [a \in AmsOrgs |->
               IF a = amsOf[o] THEN 0
               ELSE IF age[o][a] > Window THEN age[o][a] ELSE age[o][a] + 1]]
  /\ UNCHANGED <<phase, request, status, looked, upstream, member, heldBy>>

Next ==
  \/ \E o \in Orgs : Remap(o)
  \/ \E i \in Ids : Transfer(i)
  \/ \E u \in Users : Move(u)
  \/ Tick
  \/ \E r \in Handlers : \/ Arrive(r) \/ Refuse(r) \/ Delete(r) \/ Assign(r)
                         \/ Look(r) \/ List(r) \/ Return(r)

Spec == Init /\ [][Next]_vars
=============================================================================
