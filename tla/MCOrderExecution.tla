--------------------------- MODULE MCOrderExecution ---------------------------
(* Small instances of OrderExecution. *)
EXTENDS OrderExecution, TLC

CONSTANTS a1, i1   \* an action of an order, an instant action

Actions(S)       == [kind |-> "group", actions |-> S, ceiling |-> Ceiling(S)]
DriveTo(g, stop) == [kind |-> "nav", goal |-> g, stop |-> stop]

Rank     == (a1 :> 1) @@ (i1 :> 2)
OneOrder == <<1>>
Instant1 == {{i1}}

\* A stop, a step with an action that runs meanwhile, and a SOFT instant action.
ErrandBlocking == (a1 :> "NONE") @@ (i1 :> "SOFT")
ErrandOrders   == <<<<DriveTo(2, TRUE), Actions({a1}), DriveTo(4, FALSE)>>>>

\* An order, its update and the next order.
RelayBlocking == a1 :> "SOFT"
RelayOrders   == <<<<DriveTo(2, FALSE), DriveTo(4, TRUE)>>, <<Actions({a1}), DriveTo(6, FALSE)>>,
                   <<DriveTo(8, FALSE)>>>>
RelayIds      == <<1, 1, 2>>
RelayRank     == a1 :> 1

\* An order that loads before it drives off, beside a NONE instant action.
JoinBlocking == (a1 :> "SOFT") @@ (i1 :> "NONE")
LoadOrders   == <<<<Actions({a1}), DriveTo(2, FALSE)>>>>

\* The scheduler fetches a navigation step and tells the AGV to drive to its goal.
StepStarted == sch'.goal # sch.goal /\ sch'.nav = "FirstInProgress"

\* scheduler.cpp:628 "Only NONE Blocking allows driving": the AGV is never sent on
\* while a SOFT or HARD action is in progress.
NoDrivingWhileBlocked ==
  [][StepStarted => \A a \in sch'.active : BlockingOf[a] = "NONE"]_vars
===============================================================================
