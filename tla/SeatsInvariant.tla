--------------------------- MODULE SeatsInvariant ---------------------------
(***************************************************************************)
(* The inductive invariant behind the safety properties of Seats: what a   *)
(* handler has made sure of by the time it comes to a step of its program, *)
(* and how old the AMS id is that it works with.                           *)
(***************************************************************************)
EXTENDS Seats

Kind(r) == request[r].kind

\* The handler is between its checks and its reply.
Running(r) == pc[r] \in {"run", "listing", "listed"}

\* The history of an organisation ends with the id it has.
AgeInv == \A o \in Orgs : amsOf[o] \in AmsOrgs => age[o][amsOf[o]] = 0

\* The older a cached id, the less time it has left.
CacheInv ==
  \A o \in DOMAIN idCache :
    idCache[o].ttl >= 0 => age[o][idCache[o].id] <= MaxCall + CacheTTL - idCache[o].ttl

\* Nothing is changed before the reply; only administrators come to change anything.
CallerInv(r) ==
  /\ pc[r] \in {"idle", "check", "replied"} => at[r] = 1
  /\ pc[r] # "replied" => ~changed[r]
  /\ Running(r) => request[r].valid
  /\ Running(r) /\ Kind(r) # "get" => request[r].admin
  /\ pc[r] \in {"listing", "listed"} =>
       Program(Kind(r))[at[r]] = "convert" /\ Org(r) \in WellFormed

\* What the steps before have found out.
FoundInv(r) ==
  /\ Running(r) /\ Kind(r) = "post" /\ at[r] > 1 => member[r]
  /\ Running(r) /\ Kind(r) = "delete" /\ at[r] > 1 => subOrg[r] \in heldBy[r]
  /\ Running(r) /\ Kind(r) = "delete" /\ at[r] = 4 => amsOrg[r] = subOrg[r]
  /\ Running(r) /\ Kind(r) = "get" /\ at[r] > 2 => request[r].statusOK

\* Where the program has converted the organisation's id, it is not too old.
HasConverted(kind, n) ==
  \/ kind = "delete" /\ n \in {3, 4}
  \/ kind = "get" /\ n \in {2, 3, 5}

\* It compares without calling anybody.
Compares(kind, n) ==
  \/ kind = "delete" /\ n = 3
  \/ kind = "get" /\ n = 2

IdInv(r) ==
  /\ pc[r] = "listed" /\ amsOrg[r] \in AmsOrgs => age[Org(r)][amsOrg[r]] <= callTime[r]
  /\ pc[r] = "run" /\ HasConverted(Kind(r), at[r]) =>
       /\ amsOrg[r] \in AmsOrgs
       /\ age[Org(r)][amsOrg[r]] <= MaxCall + CacheTTL + callTime[r]
       /\ Compares(Kind(r), at[r]) => callTime[r] = 0

\* What the reply tells, and what it leaves behind.
ReplyInv(r) ==
  /\ changed[r] /\ Kind(r) = "post" => request[r].admin /\ member[r]
  /\ pc[r] = "replied" =>
       /\ Sent(r) \in 400..499 => ~changed[r]
       /\ Sent(r) \in 200..299 => (changed[r] <=> Kind(r) # "get")
       /\ Recorded(written[r]) # Sent(r) =>
            /\ Sent(r) = 200 /\ Recorded(written[r]) = 500
            /\ Kind(r) \in {"get", "post"}

HandlerInv(r) == CallerInv(r) /\ FoundInv(r) /\ IdInv(r) /\ ReplyInv(r)

\* The histories of a request include the present.
PresentInv ==
  \A r \in Handlers : pc[r] \notin {"idle", "replied"} =>
    /\ Kind(r) = "post" /\ worksFor[request[r].user] = Org(r) => member[r]
    /\ Kind(r) = "delete" => Where(seats, request[r].id) \subseteq heldBy[r]

SeatsInv == TypeOK /\ AgeInv /\ CacheInv /\ \A r \in Handlers : HandlerInv(r)
=============================================================================
