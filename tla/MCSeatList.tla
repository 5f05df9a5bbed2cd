----------------------------- MODULE MCSeatList -----------------------------
(***************************************************************************)
(* Three seats of the caller's organisation, a seat of another one and a    *)
(* subscription that is no seat.                                           *)
(***************************************************************************)
EXTENDS SeatList

CONSTANTS wisdom, otherPlan, a1, a2, u1, u2

MCSubs == 0..4

Seat(plan, org, status, user) ==
  [f \in Fields |-> CASE f = "plan.id" -> plan [] f = "organization_id" -> org
                      [] f = "status" -> status [] OTHER -> user]

MCAttr ==
  [s \in MCSubs |->
     CASE s = 1 -> Seat(wisdom, a2, "Active", u1)
       [] s = 3 -> Seat(otherPlan, a1, "Active", u1)
       [] s = 4 -> Seat(wisdom, a1, "Deprovisioned", u2)
       [] OTHER -> Seat(wisdom, a1, "Active", u1)]

NoAccount == NoFilter.account

ByUser(u) == [NoFilter EXCEPT !.account["creator.username"] = u]
ByStatus(statuses) == [NoFilter EXCEPT !.status = statuses]

\* Every kind of page and of filter.
MCRequests ==
  {Params(Absent, Absent, NoFilter), Params(1, 0, NoFilter),
   Params(2, 1, NoFilter), Params(2, 3, NoFilter),
   Params(0, 0, NoFilter), Params(2, -1, NoFilter),
   Params(1, 0, ByUser(u1)), Params(Absent, Absent, ByUser(Blank)),
   Params(1, 0, ByStatus({"Active"})), Params(2, 0, ByStatus({})),
   Params(1, 0, ByStatus({Blank})), Params(2, 0, ByStatus({"Reserved"}))}

MCStatuses == {"Active", "Deprovisioned"}
=============================================================================
