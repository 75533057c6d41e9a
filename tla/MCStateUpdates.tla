---------------------------- MODULE MCStateUpdates ----------------------------
(* Ticks of 100 ms, a period of three, and calls of every kind, some two by two. *)
EXTENDS StateUpdates

Requests ==
  {<<Status("setOperatingMode", 1)>>, <<Status("requestNewBase", 1)>>,
   <<Status("addError", 1)>>, <<Status("alterErrors", 2)>>, <<Status("addInfo", 1)>>,
   <<Status("alterInfos", 2)>>, <<Navigation("lastNode", 1)>>, <<Order("action", 1)>>,
   <<Interpreted("order", 1)>>, <<Order("paused", 1)>>}

Pairs ==
  {<<Status("addLoad", 1), Status("removeLoad", 1)>>,
   <<Status("removeLoad", 1), Status("alterLoads", 0)>>,
   <<Navigation("driving", 1), Navigation("driving", 0)>>,
   <<Navigation("distance", 1), Order("lastNode", 2)>>,
   <<Order("idle_paused", 1), Order("idle", 1)>>,
   <<Status("get", 0), Status("setBatteryState", 1), Navigation("position", 1)>>}

Plan(M, calls, n) == [modules |-> M, calls |-> calls, restarts |-> n]

MCPlans ==
  {Plan({"state"}, p, 0) : p \in Requests \cup Pairs}
  \cup {Plan({"state"}, <<Status("addLoad", 1)>>, 1),
        Plan({"state", "visual"}, <<Navigation("velocity", 1)>>, 0),
        Plan({"state", "visual"}, <<>>, 1)}

===============================================================================
