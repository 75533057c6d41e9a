---------------------------- MODULE OrderExecution ----------------------------
(***************************************************************************)
(* The scheduler with everything around it: validation against the order   *)
(* manager's copy of the order status, the interpreter's event queue, the  *)
(* OrderStatus events on their way to the order manager, and an AGV whose  *)
(* commands and reports are in flight.                                     *)
(*                                                                         *)
(* Each event queue is served in order by one thread of its own, and a     *)
(* step handles one event.  What the AGV does for one action does not      *)
(* depend on another, so its queues are kept per action.  The interpreter  *)
(* event thread ends when a handler throws: of the handlers modelled here  *)
(* handleOrderControl and handleGraphExtensionEvent let exceptions         *)
(* through.                                                                *)
(***************************************************************************)
EXTENDS SchedulerOps

CONSTANTS
  Orders,       \* what the interpreter yields for each order and update, in turn
  OrderIdOf,    \* the order id of each of them
  Instants,     \* the groups of the instant actions messages, each sent once
  Controls,     \* the control instant actions the master control uses
  MaxControls,  \* how many of them it sends
  MaxHalts      \* how many times the AGV pauses something by itself

ControlAction == {"startPause", "stopPause", "cancelOrder"}

ASSUME ExecutionAssumption ==
  /\ Orders \in Seq(Seq(Yield))
  /\ OrderIdOf \in [DOMAIN Orders -> Nat \ {0}]
  /\ Instants \subseteq (SUBSET Action) \ {{}}
  /\ Controls \subseteq ControlAction
  /\ MaxControls \in Nat /\ MaxHalts \in Nat

\* No action is in two messages, of which one is an instant actions message.  Validation
\* turns an id away that the order manager knows; that messages still in the queue do
\* not share one is left to the master control, whose ids are unique.
ASSUME DistinctIdsAssumption ==
  \A G \in Instants :
    /\ \A H \in Instants : G = H \/ G \cap H = {}
    /\ \A n \in DOMAIN Orders : \A i \in DOMAIN Orders[n] :
         ~IsStep(Orders[n][i]) => G \cap Orders[n][i].actions = {}

\* Validation turns ids away that come twice.  That a message lists its nodes by their
\* sequence ids is left to its sender.  The goals of a new order are numbered on from
\* those of the order before it.
ASSUME NumberingAssumption ==
  \A n, m \in DOMAIN Orders : \A i \in DOMAIN Orders[n], j \in DOMAIN Orders[m] :
    n < m \/ (n = m /\ i < j) => Before(Orders[n][i], Orders[m][j])

VARIABLES
  sch,       \* the Scheduler object
  accepted,  \* the validated messages in the message event queue
  inbox,     \* the interpreter event queue
  alive,     \* the interpreter event thread has not ended
  statuses,  \* the OrderStatus events in the order event queue
  known,     \* OrderManager::order_status_
  order,     \* OrderManager's order id, and the order its graph ends with, 0 for none
  clearing,  \* a cancel control block waits for the idle status
  sent,      \* the orders and controls sent, counted, and the instant groups
  handled,   \* the orders interpreted, counted, and the groups given to the scheduler
  agv,       \* the AGV, with the commands on their way to it
  reports,   \* the reports on each action in the action status queue
  nreports   \* the reports on the navigation in the navigation status queue

vars == <<sch, accepted, inbox, alive, statuses, known, order, clearing, sent, handled,
          agv, reports, nreports>>

\* Events of the interpreter queue besides the yields.
Done        == [kind |-> "done"]
GraphOf(n)  == [kind |-> "graph", number |-> n]
Instant(G)  == [kind |-> "instants", group |-> G]
Control(c)  == [kind |-> "control", type |-> c]
OrderMsg(n) == [kind |-> "order", number |-> n]

Init ==
  /\ sch = NewScheduler
  /\ accepted = <<>> /\ inbox = <<>> /\ alive = TRUE
  /\ statuses = <<>> /\ known = "idle"
  /\ order = [id |-> 0, graph |-> 0]
  /\ clearing = FALSE
  /\ sent = [orders |-> 0, controls |-> 0, groups |-> {}]
  /\ handled = [orders |-> 0, groups |-> {}]
  /\ agv = [cmds  |-> [a \in Action |-> <<>>], work  |-> [a \in Action |-> "idle"],
            ncmds |-> <<>>, drive |-> "standing", goal |-> 0, halts |-> 0]
  /\ reports = [a \in Action |-> <<>>]
  /\ nreports = <<>>

-------------------------------------------------------------------------------
(* The message event thread: validation and interpretation *)

\* An update continues the order before it.
IsUpdate(n) == n > 1 /\ OrderIdOf[n] = OrderIdOf[n - 1]

\* checks::checkOrderAppend.  An update begins where the base of the graph ends.
Appendable(n) ==
  IF IsUpdate(n) THEN order = [id |-> OrderIdOf[n], graph |-> n - 1]
                 ELSE known \in {"idle", "idle_paused"}

\* checks::controlActionFeasible
Feasible(c) ==
  CASE c = "startPause"  -> known \in {"active", "idle"}
    [] c = "stopPause"   -> known \in {"idle_paused", "paused"}
    [] c = "cancelOrder" -> known \in {"idle_paused", "active", "idle", "paused"}

\* handleOrderMessage and handleInstantActionsMessage: a message that passes is put
\* at the end of the message queue again, behind the messages that came meanwhile.
Accept(m) ==
  /\ accepted' = Append(accepted, m)
  /\ UNCHANGED <<sch, inbox, alive, statuses, known, order, clearing, handled, agv, reports, nreports>>

ValidateOrder ==
  LET n == sent.orders + 1
  IN /\ n <= Len(Orders) /\ Appendable(n)
     /\ sent' = [sent EXCEPT !.orders = n]
     /\ Accept(OrderMsg(n))

ValidateInstants(G) ==
  /\ G \notin sent.groups
  /\ sent' = [sent EXCEPT !.groups = @ \cup {G}]
  /\ Accept(Instant(G))

ValidateControl(c) ==
  /\ sent.controls < MaxControls /\ Feasible(c)
  /\ sent' = [sent EXCEPT !.controls = @ + 1]
  /\ Accept(Control(c))

\* A slip: the end of the order overtakes its yields.
YieldsEndingEarly(n) == <<Done>> \o Orders[n] \o <<GraphOf(n)>>

\* What handleValidOrder dispatches: the whole order, its graph and the end.
Yields(n) == Orders[n] \o <<GraphOf(n), Done>>

\* handleValidOrder
InterpretOrder ==
  /\ accepted # <<>> /\ Head(accepted).kind = "order"
  /\ LET n == Head(accepted).number
     IN inbox' = inbox \o Yields(n)
  /\ accepted' = Tail(accepted)
  /\ handled' = [handled EXCEPT !.orders = @ + 1]
  /\ UNCHANGED <<sch, alive, statuses, known, order, clearing, sent, agv, reports, nreports>>

\* handleValidInstantActions; the control block of a cancel clears the order when
\* the scheduler has become idle.
InterpretInstantActions ==
  /\ accepted # <<>> /\ Head(accepted).kind # "order"
  /\ inbox' = Append(inbox, Head(accepted))
  /\ clearing' = (clearing \/ Head(accepted) = Control("cancelOrder"))
  /\ accepted' = Tail(accepted)
  /\ UNCHANGED <<sch, alive, statuses, known, order, sent, handled, agv, reports, nreports>>

-------------------------------------------------------------------------------
(* Calls of the scheduler *)

\* The commands dispatched by the effects of the states tasks enter.
ActionCommand ==
  [Initializing |-> "start", Pausing |-> "pause", Resuming |-> "resume", Canceling |-> "cancel"]
NavCommand ==
  [FirstInProgress |-> "navigate", Pausing |-> "pause", Resuming |-> "resume", Canceling |-> "cancel"]

\* The AGV after the scheduler went to state s.
Told(s) ==
  [agv EXCEPT
     !.cmds  = [a \in Action |->
                  IF s.task[a] # sch.task[a] /\ s.task[a] \in DOMAIN ActionCommand
                  THEN Append(@[a], ActionCommand[s.task[a]]) ELSE @[a]],
     !.ncmds = IF <<s.nav, s.goal>> # <<sch.nav, sch.goal>> /\ s.nav \in DOMAIN NavCommand
               THEN Append(@, [to |-> NavCommand[s.nav], goal |-> s.goal]) ELSE @]

Call(s) ==
  /\ sch' = s
  /\ statuses' = statuses \o s.notes
  /\ agv' = Told(s)
  /\ UNCHANGED <<accepted, known, order, clearing, sent>>

\* The interpreter event thread takes an event of the given kind.
Takes(kind) ==
  /\ alive /\ inbox # <<>> /\ Head(inbox).kind = kind
  /\ inbox' = Tail(inbox)

\* handleYieldNormal
EnqueueYield ==
  /\ Takes("group") \/ Takes("nav")
  /\ Call(Enqueue(Begin(sch), Head(inbox)))
  /\ UNCHANGED <<alive, handled, reports, nreports>>

\* StateEventHandler::handleGraphReplacementEvent and ...ExtensionEvent.  Only the
\* graph the update was made for can be extended by it.
SetGraph ==
  /\ Takes("graph")
  /\ LET n == Head(inbox).number
     IN IF IsUpdate(n) /\ order.graph # n - 1
        THEN alive' = FALSE /\ UNCHANGED order
        ELSE order' = [id |-> OrderIdOf[n], graph |-> n] /\ UNCHANGED alive
  /\ UNCHANGED <<sch, accepted, statuses, known, clearing, sent, handled, agv, reports, nreports>>

\* handleInterpreterDone
CommitOrder ==
  /\ Takes("done")
  /\ Call(CommitQueue(Begin(sch)))
  /\ UNCHANGED <<alive, handled, reports, nreports>>

\* handleYieldInstantActionGroup
InstantActions ==
  /\ Takes("instants")
  /\ handled' = [handled EXCEPT !.groups = @ \cup {Head(inbox).group}]
  /\ Call(Interrupt(Begin(sch), Head(inbox).group))
  /\ UNCHANGED <<alive, reports, nreports>>

\* handleOrderControl
OrderControl ==
  /\ Takes("control")
  /\ LET c == Head(inbox).type
         s == CASE c = "startPause"  -> Pause(Begin(sch))
                [] c = "stopPause"   -> Resume(Begin(sch))
                [] c = "cancelOrder" -> Cancel(Begin(sch))
     IN /\ Call(s)
        /\ alive' = ~s.thrown
  /\ UNCHANGED <<handled, reports, nreports>>

\* A pause or resume the AGV declines when it is asked.
DeclineControl ==
  /\ Takes("control") /\ Head(inbox).type # "cancelOrder"
  /\ UNCHANGED <<sch, accepted, alive, statuses, known, order, clearing, sent, handled, agv, reports, nreports>>

\* StateEventHandler::handleOrderStatus, and the latch of a cancel control block.
HandleStatus ==
  LET cleared == clearing /\ Head(statuses) = "idle"
  IN /\ statuses # <<>>
     /\ known' = Head(statuses)
     /\ statuses' = Tail(statuses)
     /\ clearing' = (clearing /\ ~cleared)
     /\ order' = IF cleared THEN [order EXCEPT !.graph = 0] ELSE order
     /\ UNCHANGED <<sch, accepted, inbox, alive, sent, handled, agv, reports, nreports>>

\* The scheduler refuses the call without looking at its state.
Refused == UNCHANGED <<sch, statuses, agv, accepted, known, order, clearing, sent>>

\* The action status thread.  A report on an action without a task is refused.
ActionStatus(a) ==
  /\ reports[a] # <<>>
  /\ reports' = [reports EXCEPT ![a] = Tail(@)]
  /\ IF a \in sch.active THEN Call(ReportAction(Begin(sch), a, Head(reports[a])))
                         ELSE Refused
  /\ UNCHANGED <<inbox, alive, handled, nreports>>

\* The graph of the order manager belongs to the order with goal g.
OwnsGoal(g) ==
  \E n \in 1..order.graph :
    /\ OrderIdOf[n] = OrderIdOf[order.graph]
    /\ \E i \in DOMAIN Orders[n] : Orders[n][i].kind = "nav" /\ Orders[n][i].goal = g

\* The navigation status thread.  A report without a task, or on another node than
\* the goal, is refused.  A node that is reached is recorded in the graph, unless the
\* graph is lost or is by now that of an order without such a node.
NavigationStatus ==
  /\ nreports # <<>>
  /\ nreports' = Tail(nreports)
  /\ LET r       == Head(nreports)
         reaches == r.type = "to_seq_id"
     IN \/ /\ sch.nav # NoTask /\ (reaches => r.goal = sch.goal /\ order.graph # 0)
           /\ Call(ReportNav(Begin(sch), r.type, r.goal))
        \/ /\ sch.nav # NoTask /\ reaches /\ r.goal = sch.goal /\ ~OwnsGoal(r.goal)
           /\ Call(ReachUnrecorded(Begin(sch), r.goal))
        \/ /\ sch.nav = NoTask \/ (reaches /\ r.goal # sch.goal)
           /\ Refused
  /\ UNCHANGED <<inbox, alive, handled, reports>>

-------------------------------------------------------------------------------
(* The AGV: handlers that do what they are told and report it *)

OnlyAgv == UNCHANGED <<sch, accepted, inbox, alive, statuses, known, order, clearing, sent, handled>>

\* Action a of the AGV g is now in state w and r is reported.
Works(g, a, w, r) ==
  /\ agv' = [g EXCEPT !.work[a] = w]
  /\ reports' = [reports EXCEPT ![a] = @ \o r]
  /\ OnlyAgv /\ UNCHANGED nreports

HandleActionCommand(a) ==
  /\ agv.cmds[a] # <<>>
  /\ LET c == Head(agv.cmds[a])
         w == agv.work[a]
         g == [agv EXCEPT !.cmds[a] = Tail(@)]
     IN CASE c = "start"                               -> Works(g, a, "started", <<>>)
          [] c = "pause" /\ w \in {"started", "running", "halted"} ->
                 Works(g, a, "resting", <<"is_paused">>)
          [] c = "resume" /\ w = "resting"             -> Works(g, a, "running", <<"is_running">>)
          [] c = "cancel" /\ w \notin {"idle", "over"} -> Works(g, a, "over", <<"is_failed">>)
          [] OTHER                                     -> Works(g, a, w, <<>>)

BeginWork(a) ==
  /\ agv.work[a] = "started"
  /\ Works(agv, a, "running", <<"is_running">>)

EndWork(a) ==
  /\ agv.work[a] \in {"started", "running"}
  /\ \E r \in {"is_finished", "is_failed"} : Works(agv, a, "over", <<r>>)

\* The handler pauses the action by itself, and goes on.
HaltWork(a) ==
  /\ agv.work[a] = "running" /\ agv.halts < MaxHalts
  /\ Works([agv EXCEPT !.halts = @ + 1], a, "halted", <<"is_paused">>)

ResumeWork(a) ==
  /\ agv.work[a] = "halted"
  /\ Works(agv, a, "running", <<"is_running">>)

\* The AGV g now drives, rests or stands, d, and r is reported.
Drives(g, d, r) ==
  /\ agv' = [g EXCEPT !.drive = d]
  /\ nreports' = nreports \o [i \in 1..Len(r) |-> [type |-> r[i], goal |-> g.goal]]
  /\ OnlyAgv /\ UNCHANGED reports

HandleNavigationCommand ==
  /\ agv.ncmds # <<>>
  /\ LET c == Head(agv.ncmds)
         g == [agv EXCEPT !.ncmds = Tail(@)]
         moving == agv.drive # "standing"
     IN CASE c.to = "navigate"         -> Drives([g EXCEPT !.goal = c.goal], "driving", <<>>)
          [] c.to = "pause" /\ moving  -> Drives(g, "resting", <<"is_paused">>)
          [] c.to = "resume" /\ moving -> Drives(g, "driving", <<"is_resumed">>)
          [] c.to = "cancel" /\ moving -> Drives(g, "standing", <<"is_failed">>)
          [] OTHER                     -> Drives(g, agv.drive, <<>>)

\* The AGV reaches the node it was sent to, or fails to.
EndDrive ==
  /\ agv.drive = "driving"
  /\ \E r \in {"to_seq_id", "is_failed"} : Drives(agv, "standing", <<r>>)

\* It stops for a reason of its own, and drives on.
HaltDrive ==
  /\ agv.drive = "driving" /\ agv.halts < MaxHalts
  /\ Drives([agv EXCEPT !.halts = @ + 1], "halted", <<"is_paused">>)

DriveOn ==
  /\ agv.drive = "halted"
  /\ Drives(agv, "driving", <<"is_resumed">>)

-------------------------------------------------------------------------------

InterpreterThread ==
  EnqueueYield \/ SetGraph \/ CommitOrder \/ InstantActions \/ OrderControl \/ DeclineControl

Next ==
  \/ ValidateOrder
  \/ \E G \in Instants : ValidateInstants(G)
  \/ \E c \in Controls : ValidateControl(c)
  \/ InterpretOrder \/ InterpretInstantActions
  \/ InterpreterThread
  \/ HandleStatus
  \/ \E a \in Action : ActionStatus(a)
  \/ NavigationStatus
  \/ \E a \in Action :
       HandleActionCommand(a) \/ BeginWork(a) \/ EndWork(a) \/ HaltWork(a) \/ ResumeWork(a)
  \/ HandleNavigationCommand \/ EndDrive \/ HaltDrive \/ DriveOn

Spec == Init /\ [][Next]_vars

\* A thread serves its queue.  Of all steps only those of its thread shorten a queue.
Serves(q) == q # <<>> /\ q' = Tail(q)

ServesReports ==
  \E a \in Action : reports[a] # <<>> /\ reports' = [reports EXCEPT ![a] = Tail(@)]

\* The AGV does what it was told and ends what it has started.
Carries ==
  \/ \E a \in Action : HandleActionCommand(a) \/ EndWork(a) \/ ResumeWork(a)
  \/ HandleNavigationCommand \/ EndDrive \/ DriveOn

\* Every thread that has not ended goes on serving its queue, and so does the AGV.
\* Nobody has to send a message or to halt.
Fairness ==
  /\ WF_accepted(Serves(accepted))
  /\ WF_inbox(alive /\ Serves(inbox))
  /\ WF_statuses(Serves(statuses))
  /\ WF_reports(ServesReports)
  /\ WF_nreports(Serves(nreports))
  /\ WF_vars(Carries)

FairSpec == Spec /\ Fairness

-------------------------------------------------------------------------------
(* Refinement: seen from the scheduler, all this is one of the callers of the  *)
(* class that Scheduler allows.                                                *)

IsPending(e) == e.kind \in {"group", "nav", "done"}
PendingOf(q) == Chosen(q, {i \in DOMAIN q : IsPending(q[i])})

\* The last status that was announced.
Published == IF statuses = <<>> THEN known ELSE statuses[Len(statuses)]

Class == INSTANCE Scheduler WITH
  published <- Published,
  pending   <- PendingOf(inbox),
  received  <- handled.orders,
  issued    <- handled.groups

ImplementsScheduler == Class!Spec

-------------------------------------------------------------------------------
(* Properties *)

\* The AGV never works on an action, and never drives or waits to drive on, that the
\* scheduler has ended or forgotten: what was canceled or failed is over on both sides,
\* whatever report and command cross.
NothingForgotten ==
  /\ \A a \in Action : agv.work[a] \notin {"idle", "over"} => a \in sch.active
  /\ agv.drive # "standing" => sch.nav # NoTask

\* A SOFT or HARD action is never worked on by an AGV that drives, although the
\* scheduler only knows what was reported to it (src/core/order/scheduler.cpp:628).
BlockingWorkStands ==
  agv.drive = "driving" =>
    \A a \in Action : agv.work[a] \in {"started", "running"} => BlockingOf[a] = "NONE"

\* The AGV is sent from node to node in the order of the orders and their updates and
\* never back, whatever is canceled, paused or reported meanwhile.
GoalsInOrder ==
  [][agv'.ncmds # agv.ncmds /\ agv'.ncmds # <<>> /\ sch'.goal # sch.goal
       => sch'.goal > agv.goal]_vars

\* The status that validation looks at catches up with the scheduler's state.
KnownCatchesUp == <>[](known = sch.state)

\* Unless an exception ends the thread or skips the update after a drive, every order
\* that was accepted is worked off, and so the next one can be accepted.
OrdersEnd ==
  [](alive /\ sch.nav # "Done") =>
    (handled.orders # 0 ~>
       accepted = <<>> /\ inbox = <<>> /\ sch.state = "idle" /\ sch.queue = <<>>)
===============================================================================
