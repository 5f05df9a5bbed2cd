-------------------------- MODULE ServicesContract --------------------------
(***************************************************************************)
(* What a client of GET /services may count on, with no cache, no globals  *)
(* and no network in sight: a request is answered within the client's      *)
(* timeout, by a 500 or by the sections that the rules give for features   *)
(* the organisation held recently -- for a request that asks to be served  *)
(* live, since it arrived -- or for a part of them.  A reply that carries  *)
(* the degraded header shows none of them.  A request may be lost with the *)
(* pod that served it.                                                     *)
(***************************************************************************)
EXTENDS ServicesConfig

VARIABLES
  phase,    \* "idle", "pending" or "done"
  request,  \* the request being served
  reply,    \* status, degraded header, sections
  waited,   \* ticks since the request arrived
  owned,    \* what each organisation holds
  age       \* ticks since it last held each of the Holdings

vars == <<phase, request, reply, waited, owned, age>>

Goto(r, p) == phase' = [phase EXCEPT ![r] = p]

Init ==
  /\ phase = [r \in Handlers |-> "idle"]
  /\ request \in [Handlers -> Requests]
  /\ \A r \in Handlers : reply[r].status = 0
  /\ waited = [r \in Handlers |-> 0]
  /\ owned \in [Orgs -> Holdings]
  /\ age = [o \in Orgs |->
              [f \in Holdings |-> IF f = owned[o] THEN 0 ELSE Window + 1]]

Call(r) ==
  /\ phase[r] = "idle"
  /\ Goto(r, "pending")
  /\ \E q \in Requests : request' = [request EXCEPT ![r] = q]
  /\ UNCHANGED <<reply, waited, owned, age>>

\* How old the truth behind a reply may be.
Bound(r) == IF request[r].trialActivated THEN waited[r] ELSE Window

Reply(r) ==
  /\ phase[r] = "pending"
  /\ Goto(r, "done")
  /\ \A s \in Handlers \ {r} : reply'[s] = reply[s]
  /\ \/ reply'[r].status = 500
     \/ /\ reply'[r].status = 200
        /\ \E f \in Holdings : \E held \in SUBSET (f \cap Query) :
             /\ age[request[r].org][f] <= Bound(r)
             /\ reply'[r].degraded => held = {}
             /\ reply'[r].sections = Sections(request[r], held, PaidFeatureSuffix)
  /\ UNCHANGED <<request, waited, owned, age>>

Return(r) ==
  /\ phase[r] = "done"
  /\ Goto(r, "idle")
  /\ \A s \in Handlers \ {r} : /\ reply'[s] = reply[s]
                               /\ request'[s] = request[s]
  /\ reply'[r].status = 0
  /\ waited' = [waited EXCEPT ![r] = 0]
  /\ UNCHANGED <<owned, age>>

Crash ==
  /\ phase' = [r \in Handlers |-> "idle"]
  /\ \A r \in Handlers : reply'[r].status = 0
  /\ waited' = [r \in Handlers |-> 0]
  /\ UNCHANGED <<owned, age>>

ChangeOwned(o) ==
  /\ \E f \in Holdings \ {owned[o]} :
       /\ owned' = [owned EXCEPT ![o] = f]
       /\ age' = [age EXCEPT ![o][f] = 0]
  /\ UNCHANGED <<phase, request, reply, waited>>

Tick ==
  /\ \A r \in Handlers : \/ phase[r] = "idle"
                         \/ phase[r] = "pending" /\ waited[r] < ClientTimeout
  /\ waited' = [r \in Handlers |-> IF phase[r] = "pending" THEN waited[r] + 1 ELSE waited[r]]
  /\ age' = [o \in Orgs |-> [f \in Holdings |->
               IF f = owned[o] THEN 0
               ELSE IF age[o][f] > Window THEN age[o][f] ELSE age[o][f] + 1]]
  /\ UNCHANGED <<phase, request, reply, owned>>

Next ==
  \/ \E r \in Handlers : Call(r) \/ Reply(r) \/ Return(r)
  \/ \E o \in Orgs : ChangeOwned(o)
  \/ Crash
  \/ Tick

Spec == Init /\ [][Next]_vars
=============================================================================
