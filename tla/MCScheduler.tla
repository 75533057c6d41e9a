------------------------------ MODULE MCScheduler ------------------------------
(* Small instances of Scheduler.  Every order ends where the next one begins. *)
EXTENDS Scheduler, TLC

CONSTANTS a1, a2, i1, i2   \* two actions of orders, two instant actions

Actions(S)       == [kind |-> "group", actions |-> S, ceiling |-> Ceiling(S)]
DriveTo(g, stop) == [kind |-> "nav", goal |-> g, stop |-> stop]

MCRank == (a1 :> 1) @@ (a2 :> 2) @@ (i1 :> 3) @@ (i2 :> 4)

\* An order with a SOFT action to stop for, extended while it is executed, and a NONE
\* and a HARD instant action.
MissionBlocking == (a1 :> "NONE") @@ (a2 :> "SOFT") @@ (i1 :> "HARD") @@ (i2 :> "NONE")
MissionOrders ==
  <<<<Actions({a1}), DriveTo(2, FALSE), DriveTo(4, TRUE), Actions({a2}), DriveTo(6, FALSE)>>,
    <<DriveTo(8, FALSE)>>>>
MissionInstants == {{i1}, {i2}}

===============================================================================
