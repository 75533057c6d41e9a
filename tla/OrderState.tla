------------------------------ MODULE OrderState ------------------------------
(***************************************************************************)
(* What the vehicle knows and tells about its order (core/state,           *)
(* core/checks/order, core/agv_handler/node_reached_handler): the checks   *)
(* of an order message, the order manager with its graph and its action    *)
(* states, the StateEventHandler that changes it, and the detection of     *)
(* nodes from positions.                                                   *)
(*                                                                         *)
(* Four threads share the order manager: the message event thread checks   *)
(* against it and adds instant actions, the interpreter event thread       *)
(* changes graph and actions, the order event thread records what the      *)
(* scheduler reports, the navigation status thread records nodes.  The     *)
(* scheduler appears by what it promises (module Scheduler): it works on   *)
(* committed orders one goal after the other, and says active and idle.    *)
(***************************************************************************)
EXTENDS Graph, Sequences, SequencesExt

CONSTANTS
  Action,
  Messages,    \* the order messages, by the name they have here
  Instants,    \* the actions of the instant actions messages, each sent once
  MaxOrders,   \* how many orders are sent
  MaxSends,    \* how often one and the same order is sent
  Patient,     \* whether an order is sent only when the one before has been handled
  MaxCancels   \* how many cancelOrder actions are sent

\* A message is built from nodes and edges with a sequence id and a released flag; an
\* order id is a number, and 0 is the id of no order.
Element == [seq : Nat, released : BOOLEAN]

ASSUME MessagesAssumption ==
  /\ \A n \in DOMAIN Messages :
       /\ Messages[n] \in [id : Nat \ {0}, update : Nat, nodes : SUBSET Element,
                            edges : SUBSET Element, actions : SUBSET Action]
       /\ IsFiniteSet(Messages[n].nodes) /\ IsFiniteSet(Messages[n].edges)
  /\ Instants \subseteq Action
  /\ MaxOrders \in Nat /\ MaxSends \in Nat /\ MaxCancels \in Nat
  /\ Patient \in BOOLEAN

VARIABLES
  om,        \* the OrderManager
  latches,   \* how many latches of cancelOrder actions wait for an idle order
  msgs,      \* the message event queue
  inbox,     \* the interpreter event queue
  events,    \* the order event queue
  navs,      \* the navigation status queue
  sched,     \* the scheduler: goals, tasks not begun, tasks begun, and what it said last
  alive,     \* the event threads that have not ended
  told,      \* what the AGV was told of the base of its order, in this order
  cleared,   \* the actions whose states were cleared
  agv,       \* the node the AGV stands on
  sent       \* what the master control has sent

vars == <<om, latches, msgs, inbox, events, navs, sched, alive, told, cleared, agv, sent>>

Thread == {"message", "interpreter", "order"}

NoGraph == [elem |-> <<>>, pos |-> Nowhere]
NoOrder == 0

Waiting == "WAITING"
Failed  == "FAILED"
Finished == "FINISHED"   \* or FAILED, which the vehicle reports as well
Status  == {Waiting, "RUNNING", Finished, Failed}

\* A node of an order is a place of its own.
Place(id, seq) == [order |-> id, seq |-> seq]

Init ==
  /\ om = [id |-> NoOrder, update |-> 0, graph |-> NoGraph, last |-> 0,
           states |-> <<>>, status |-> "idle"]
  /\ latches = 0
  /\ msgs = <<>> /\ inbox = <<>> /\ events = <<>> /\ navs = <<>>
  /\ sched = [goals |-> <<>>, tasks |-> {}, begun |-> {}, said |-> "idle"]
  /\ alive = Thread
  /\ told = <<>>
  /\ cleared = {}
  /\ agv = Place(NoOrder, 0)
  /\ sent = [orders |-> [n \in DOMAIN Messages |-> 0], instants |-> {}, cancels |-> 0]

HasGraph == om.graph # NoGraph

-------------------------------------------------------------------------------
(* checks::checkOrder... *)

Parts(m) == m.nodes \cup m.edges
SeqIds(m) == {e.seq : e \in Parts(m)}

\* A slip: ids may be missing in between.
SkipsAllowed(m) ==
  /\ m.nodes # {} /\ \A e \in m.nodes : e.seq % 2 = 0
  /\ \A p, q \in Parts(m) : p.seq < q.seq /\ q.released => p.released

checkOrderGraphConsistency(m) ==
  LET base == {e.seq : e \in {p \in Parts(m) : p.released}}
      horz == {e.seq : e \in {p \in Parts(m) : ~p.released}}
  IN /\ m.nodes # {}
     /\ \A e \in m.nodes : e.seq % 2 = 0
     /\ \A e \in m.edges : e.seq % 2 = 1
     /\ base \cap horz = {}
     /\ Max(SeqIds(m)) - Min(SeqIds(m)) + 1 = Cardinality(base) + Cardinality(horz)
     /\ base # {} /\ horz # {} => Max(base) < Min(horz)

checkOrderId(m) == m.id = om.id => m.update >= om.update

NotAppending(m) == m.id = om.id /\ m.update <= om.update

\* baseBounds throws when the AGV's graph has no base left.
AppendThrows(m) == ~NotAppending(m) /\ HasGraph /\ BaseIds(om.graph) = {}

\* An order may replace the one before when that is idle, begin at 0 then, or go on
\* where the base ends.
checkOrderAppend(m) ==
  LET replaces == om.status = "idle"
      baseLast == IF HasGraph THEN BaseLast(om.graph) ELSE 0
      first    == Min({e.seq : e \in m.nodes})
  IN \/ NotAppending(m)
     \/ /\ replaces \/ m.id = om.id
        /\ first = baseLast \/ (replaces /\ first = 0)

\* uniqueActionId
uniqueActionIds(A) == A \cap DOMAIN om.states = {}

-------------------------------------------------------------------------------
(* The message event thread *)

Order(n)        == [kind |-> "order", name |-> n]
Validating(n)   == [kind |-> "validating", name |-> n]
ValidOrder(n)   == [kind |-> "valid", name |-> n]
Instant(a)      == [kind |-> "instant", action |-> a]
ValidInstant(a) == [kind |-> "validInstant", action |-> a]
Cancel          == [kind |-> "cancel"]
ValidCancel     == [kind |-> "validCancel"]

Receive(e) ==
  /\ msgs' = Append(msgs, e)
  /\ UNCHANGED <<om, latches, inbox, events, navs, sched, alive, told, cleared, agv>>

ReceiveOrder(n) ==
  /\ sent.orders[n] < MaxSends
  /\ FoldFunction(+, 0, sent.orders) < MaxOrders
  /\ Patient => msgs = <<>> /\ inbox = <<>> /\ events = <<>>
  /\ sent' = [sent EXCEPT !.orders[n] = @ + 1]
  /\ Receive(Order(n))

ReceiveInstant(a) ==
  /\ a \notin sent.instants
  /\ sent' = [sent EXCEPT !.instants = @ \cup {a}]
  /\ Receive(Instant(a))

ReceiveCancel ==
  /\ sent.cancels < MaxCancels
  /\ sent' = [sent EXCEPT !.cancels = @ + 1]
  /\ Receive(Cancel)

TakesMessage(kind) ==
  /\ "message" \in alive /\ msgs # <<>> /\ Head(msgs).kind = kind
  /\ UNCHANGED <<events, navs, sched, told, cleared, agv, sent>>

ThenValid(e, valid) == msgs' = IF valid THEN Append(Tail(msgs), e) ELSE Tail(msgs)

\* handleOrderMessage: a duplicate is dropped, another order goes to the validation
\* thread, and the message event thread waits for it.
handleOrderMessage ==
  /\ TakesMessage("order")
  /\ LET m == Messages[Head(msgs).name]
     IN msgs' = IF m.id = om.id /\ m.update = om.update
                THEN Tail(msgs)
                ELSE <<Validating(Head(msgs).name)>> \o Tail(msgs)
  /\ UNCHANGED <<om, latches, inbox, alive>>

\* handleValidateOrder, here one step.  When a check throws, the validation event thread
\* ends and the wait of the message event thread times out, which ends it as well.
handleValidateOrder ==
  /\ TakesMessage("validating")
  /\ LET m == Messages[Head(msgs).name]
     IN IF AppendThrows(m)
        THEN alive' = alive \ {"message"} /\ msgs' = Tail(msgs)
        ELSE /\ ThenValid(ValidOrder(Head(msgs).name),
                          /\ checkOrderId(m) /\ checkOrderGraphConsistency(m)
                          /\ checkOrderAppend(m) /\ uniqueActionIds(m.actions))
             /\ UNCHANGED alive
  /\ UNCHANGED <<om, latches, inbox>>

Released(E) == {e.seq : e \in {p \in E : p.released}}
Elem(m) == [s \in SeqIds(m) |-> \E e \in Parts(m) : e.seq = s /\ e.released]

\* An order that ends in an edge, or whose base does, is interpreted up to there
\* (module Interpreter), then its interpretation throws.
EndsInEdge(m) ==
  \/ Max(SeqIds(m)) % 2 = 1
  \/ Released(Parts(m)) # {} /\ Max(Released(Parts(m))) % 2 = 1

\* What handleValidOrder dispatches to the interpreter event queue.
Events(n) ==
  (IF Messages[n].update = 0 THEN <<[kind |-> "clear"]>> ELSE <<>>)
    \o <<[kind |-> "new", name |-> n]>>
    \o IF EndsInEdge(Messages[n]) THEN <<>>
       ELSE <<[kind |-> "graph", name |-> n], [kind |-> "done", name |-> n]>>

handleValidOrder ==
  /\ TakesMessage("valid")
  /\ LET m == Messages[Head(msgs).name]
     IN /\ inbox' = inbox \o Events(Head(msgs).name)
        /\ alive' = IF EndsInEdge(m) THEN alive \ {"message"} ELSE alive
  /\ msgs' = Tail(msgs)
  /\ UNCHANGED <<om, latches>>

\* OrderManager::addNewAction throws when there is the action already.
Known(A)   == A \cap DOMAIN om.states # {}
WithNew(A) == [om EXCEPT !.states = [a \in DOMAIN @ \cup A |->
                                       IF a \in DOMAIN @ THEN @[a] ELSE Waiting]]

handleInstantActionsMessage ==
  /\ TakesMessage("instant")
  /\ ThenValid(ValidInstant(Head(msgs).action), uniqueActionIds({Head(msgs).action}))
  /\ UNCHANGED <<om, latches, inbox, alive>>

\* A slip: the action is not made known.
handleValidInstantActionsUnknown ==
  /\ TakesMessage("validInstant")
  /\ inbox' = Append(inbox, [kind |-> "group", action |-> Head(msgs).action])
  /\ msgs' = Tail(msgs)
  /\ UNCHANGED <<om, latches, alive>>

\* handleValidInstantActions adds the action in this thread at once, while the group
\* takes the interpreter event queue.
handleValidInstantActions ==
  /\ TakesMessage("validInstant")
  /\ LET a == Head(msgs).action
     IN IF Known({a})
        THEN alive' = alive \ {"message"} /\ UNCHANGED <<om, inbox>>
        ELSE /\ om' = WithNew({a})
             /\ inbox' = Append(inbox, [kind |-> "group", action |-> a])
             /\ UNCHANGED alive
  /\ msgs' = Tail(msgs)
  /\ UNCHANGED latches

\* controlActionFeasible
handleCancelMessage ==
  /\ TakesMessage("cancel")
  /\ ThenValid(ValidCancel, om.status # "canceling")
  /\ UNCHANGED <<om, latches, inbox, alive>>

\* The control block of a cancelOrder (module ControlBlocks): the control is on its way,
\* and a latch waits for the order to be idle.
handleValidCancel ==
  /\ TakesMessage("validCancel")
  /\ msgs' = Tail(msgs)
  /\ inbox' = Append(inbox, [kind |-> "cancel"])
  /\ latches' = latches + 1
  /\ UNCHANGED <<om, alive>>

-------------------------------------------------------------------------------
(* The interpreter event thread: StateEventHandler and OrderEventHandler *)

Takes(kind) ==
  /\ "interpreter" \in alive /\ inbox # <<>> /\ Head(inbox).kind = kind
  /\ inbox' = Tail(inbox)
  /\ UNCHANGED <<latches, msgs, navs, agv, sent>>

InterpreterThrows == alive' = alive \ {"interpreter"}

handleClearActions ==
  /\ Takes("clear")
  /\ om' = [om EXCEPT !.states = <<>>]
  /\ cleared' = cleared \cup DOMAIN om.states
  /\ UNCHANGED <<events, sched, alive, told>>

handleNewActionEvent ==
  /\ Takes("new")
  /\ LET A == Messages[Head(inbox).name].actions
     IN IF Known(A) THEN InterpreterThrows /\ UNCHANGED om
                    ELSE om' = WithNew(A) /\ UNCHANGED alive
  /\ UNCHANGED <<events, sched, told, cleared>>

\* The ids of S in their order, as the lists of a message and of the graph have them.
Ascending(S) ==
  CHOOSE q \in [1..Cardinality(S) -> S] : \A i, j \in DOMAIN q : i < j => q[i] < q[j]

\* Nothing comes of a replacement without a base; one without node 0 throws when the
\* order manager has it already.
handleGraphReplacementEvent ==
  /\ Takes("graph") /\ Messages[Head(inbox).name].update = 0
  /\ LET m == Messages[Head(inbox).name]
         g == NewGraph(Elem(m))
         new == [om EXCEPT !.id = m.id, !.update = 0, !.last = 0, !.graph = g]
     IN IF BaseIds(g) = {}
        THEN InterpreterThrows /\ UNCHANGED <<om, told>>
        ELSE IF ~CanStandOn(g, 0)
        THEN InterpreterThrows /\ om' = new /\ UNCHANGED told
        ELSE /\ om' = [new EXCEPT !.graph = StandOn(g, 0)]
             /\ told' = Ascending(BaseIds(g))
             /\ UNCHANGED alive
  /\ UNCHANGED <<events, sched, cleared>>

\* The update id is set before the graph is looked at, and the graph is extended before
\* the base of the extension is looked at.
handleGraphExtensionEvent ==
  /\ Takes("graph") /\ Messages[Head(inbox).name].update > 0
  /\ LET m == Messages[Head(inbox).name]
         g == NewGraph(Elem(m))
         extends == HasGraph /\ CanExtend(om.graph, g)
     IN /\ om' = [om EXCEPT !.update = m.update,
                            !.graph  = IF extends THEN Extend(@, g) ELSE @]
        /\ IF extends /\ BaseIds(g) # {}
           THEN /\ told' = told \o Ascending({s \in BaseIds(g) : s >= DeltaFirst(om.graph, g)})
                /\ UNCHANGED alive
           ELSE InterpreterThrows /\ UNCHANGED told
  /\ UNCHANGED <<events, sched, cleared>>

ActionChanged(a, st) == [kind |-> "action", action |-> a, status |-> st]
OrderStatus(st)      == [kind |-> "status", status |-> st]

\* The scheduler gets goals and actions, and says so when it was idle.
Work(goals, A) ==
  IF goals = <<>> /\ A = {}
  THEN UNCHANGED <<sched, events>>
  ELSE /\ sched' = [sched EXCEPT !.goals = @ \o goals, !.tasks = @ \cup A,
                                 !.said = IF @ = "idle" THEN "active" ELSE @]
       /\ events' = IF sched.said = "idle" THEN Append(events, OrderStatus("active")) ELSE events

\* handleInterpreterDone: the first node of an order is the one the AGV stands on.
handleInterpreterDone ==
  /\ Takes("done")
  /\ LET m == Messages[Head(inbox).name]
         goals == Ascending(Released(m.nodes) \ {Min(SeqIds(m))})
     IN Work([i \in DOMAIN goals |-> Place(m.id, goals[i])], m.actions)
  /\ UNCHANGED <<om, alive, told, cleared>>

\* A scheduler that cancels throws, which is logged: the group is lost.
handleYieldInstantActionGroup ==
  /\ Takes("group")
  /\ IF sched.said = "canceling" THEN UNCHANGED <<sched, events>>
                                 ELSE Work(<<>>, {Head(inbox).action})
  /\ UNCHANGED <<om, alive, told, cleared>>

\* handleOrderControl, k_cancel: what has not begun is dropped, what has begun has to
\* end, and the AGV has to end its drive.
handleOrderControl ==
  /\ Takes("cancel")
  /\ CASE sched.said = "idle" ->
            events' = Append(events, OrderStatus("idle")) /\ UNCHANGED <<sched, alive>>
       [] sched.said = "active" ->
            /\ sched' = [sched EXCEPT !.goals = IF @ = <<>> THEN @ ELSE <<Head(@)>>,
                                           !.tasks = {}, !.said = "canceling"]
            /\ events' = Append(events, OrderStatus("canceling"))
            /\ UNCHANGED alive
       [] OTHER -> InterpreterThrows /\ UNCHANGED <<sched, events>>
  /\ UNCHANGED <<om, told, cleared>>

-------------------------------------------------------------------------------
(* The scheduler's tasks, and the order event thread *)

Reports(e) ==
  /\ events' = Append(events, e)
  /\ UNCHANGED <<om, latches, msgs, inbox, navs, alive, told, cleared, agv, sent>>

BeginAction(a) ==
  /\ a \in sched.tasks
  /\ sched' = [sched EXCEPT !.tasks = @ \ {a}, !.begun = @ \cup {a}]
  /\ Reports(ActionChanged(a, "RUNNING"))

EndAction(a) ==
  /\ a \in sched.begun
  /\ sched' = [sched EXCEPT !.begun = @ \ {a}]
  /\ Reports(ActionChanged(a, Finished))

BecomeIdle ==
  /\ sched.said # "idle"
  /\ sched.goals = <<>> /\ sched.tasks = {} /\ sched.begun = {}
  /\ sched' = [sched EXCEPT !.said = "idle"]
  /\ Reports(OrderStatus("idle"))

TakesEvent(kind) ==
  /\ "order" \in alive /\ events # <<>> /\ Head(events).kind = kind
  /\ events' = Tail(events)
  /\ UNCHANGED <<msgs, inbox, navs, sched, told, cleared, agv, sent>>

\* getActionState throws when there is no such action.
handleOrderActionStatusChanged ==
  /\ TakesEvent("action")
  /\ LET e == Head(events)
     IN IF Known({e.action})
        THEN om' = [om EXCEPT !.states[e.action] = e.status] /\ UNCHANGED alive
        ELSE alive' = alive \ {"order"} /\ UNCHANGED om
  /\ UNCHANGED latches

\* A slip: actions that wait are left alone.
CancelWaitingNot(states) == states
\* cancelWaitingActions
CancelWaiting(states) == [a \in DOMAIN states |-> IF states[a] = Waiting THEN Failed ELSE states[a]]

\* handleOrderStatus, and by a latch handleOrderClearAfterCancel.
handleOrderStatus ==
  /\ TakesEvent("status")
  /\ LET st == Head(events).status
         clears == st = "idle" /\ latches > 0
     IN /\ om' = IF clears
                 THEN [om EXCEPT !.status = st, !.graph = NoGraph, !.states = CancelWaiting(@)]
                 ELSE [om EXCEPT !.status = st]
        /\ latches' = IF clears THEN 0 ELSE latches
  /\ UNCHANGED alive

-------------------------------------------------------------------------------
(* The AGV and the navigation status thread *)

Position == [kind |-> "position", at |-> agv]
NodeReached(s) == [kind |-> "reached", seq |-> s]
NavigationFailed == [kind |-> "failed"]

Drive ==
  /\ sched.goals # <<>> /\ agv # Head(sched.goals)
  /\ agv' = Head(sched.goals)
  /\ UNCHANGED <<om, latches, msgs, inbox, events, navs, sched, alive, told, cleared, sent>>

Reported(e) ==
  /\ navs' = Append(navs, e)
  /\ UNCHANGED <<om, latches, msgs, inbox, events, sched, alive, told, cleared, agv, sent>>

Asking == \E i \in DOMAIN navs : navs[i].kind = "position"

\* evalPosition waits for the answer to the position before.
evalPosition == ~Asking /\ Reported(Position)

\* The AGV has been told to end its drive, and has.
setFailed ==
  /\ sched.said = "canceling" /\ sched.goals # <<>> /\ navs = <<>>
  /\ Reported(NavigationFailed)

TakesStatus(kind) ==
  /\ navs # <<>> /\ Head(navs).kind = kind
  /\ UNCHANGED <<latches, msgs, inbox, events, alive, told, cleared, agv, sent>>

\* NodeReachedHandler: the position is compared with the goal of the current graph, and
\* a node that is reached is reported behind what is in the queue.
handleNavigationStatusPosition ==
  /\ TakesStatus("position")
  /\ LET goal == CurrentGoal(om.graph)
         reached == HasGraph /\ goal # NoNode /\ Head(navs).at = Place(om.id, goal)
     IN navs' = IF reached THEN Append(Tail(navs), NodeReached(goal)) ELSE Tail(navs)
  /\ UNCHANGED <<om, sched>>

\* OrderManager::setAGVLastNode
Recorded(s) == [om EXCEPT !.graph = Trim(StandOn(@, s)), !.last = s]

\* handleNavigationNode: the navigation task takes the node if it is its goal, and has
\* it recorded; a graph without the node makes the call throw, and the error is logged.
handleNavigationNode ==
  /\ TakesStatus("reached")
  /\ navs' = Tail(navs)
  /\ LET s == Head(navs).seq
     IN IF sched.goals = <<>> \/ Head(sched.goals).seq # s
        THEN UNCHANGED <<om, sched>>
        ELSE /\ sched' = [sched EXCEPT !.goals = Tail(@)]
             /\ om' = IF HasGraph /\ CanStandOn(om.graph, s) THEN Recorded(s) ELSE om

\* handleNavigationControl, k_failed: the queues are dropped with the drive.
handleNavigationControl ==
  /\ TakesStatus("failed")
  /\ navs' = Tail(navs)
  /\ sched' = IF sched.goals = <<>> THEN sched
              ELSE [sched EXCEPT !.goals = <<>>, !.tasks = {}]
  /\ UNCHANGED om

-------------------------------------------------------------------------------

MessageThread ==
  \/ handleOrderMessage \/ handleValidateOrder \/ handleValidOrder
  \/ handleInstantActionsMessage \/ handleValidInstantActions
  \/ handleCancelMessage \/ handleValidCancel

InterpreterThread ==
  \/ handleClearActions \/ handleNewActionEvent \/ handleGraphReplacementEvent
  \/ handleGraphExtensionEvent \/ handleInterpreterDone \/ handleYieldInstantActionGroup
  \/ handleOrderControl

OrderThread == handleOrderActionStatusChanged \/ handleOrderStatus

NavigationThread ==
  handleNavigationStatusPosition \/ handleNavigationNode \/ handleNavigationControl

Next ==
  \/ \E n \in DOMAIN Messages : ReceiveOrder(n)
  \/ \E a \in Instants : ReceiveInstant(a)
  \/ ReceiveCancel
  \/ MessageThread \/ InterpreterThread \/ OrderThread \/ NavigationThread
  \/ \E a \in Action : BeginAction(a) \/ EndAction(a)
  \/ BecomeIdle \/ Drive \/ evalPosition \/ setFailed

Spec == Init /\ [][Next]_vars

-------------------------------------------------------------------------------
(* Properties *)

\* What cleanHorizon, merge, trim and the checks of a message are there for: no id is
\* missing between the first and the last, the base comes first, and the AGV is on a
\* released node at the front.
GraphWellFormed ==
  HasGraph /\ "interpreter" \in alive =>
    /\ Ids(om.graph) = FirstId(om.graph)..LastId(om.graph)
    /\ Buildable(om.graph.elem)
    /\ CanStandOn(om.graph, om.graph.pos) /\ om.graph.pos = FirstId(om.graph)
    /\ IsNode(BaseLast(om.graph))

\* base_navigation_handler.h: baseIncreased does not name again the last node of the
\* base.  Over all updates of an order the AGV is told of its base without a gap and
\* without a repetition, up to where the base ends.
BaseAnnouncedOnce ==
  /\ \A i \in DOMAIN told : told[i] = i - 1
  /\ HasGraph /\ "interpreter" \in alive => told[Len(told)] = BaseLast(om.graph)

\* Nothing is on its way, and no cancel waits for the AGV.
Quiet ==
  /\ msgs = <<>> /\ inbox = <<>> /\ events = <<>> /\ navs = <<>>
  /\ alive = Thread /\ sched.said # "canceling"

\* state_event_handler.cpp:98: the order event thread ends only on a report of an action
\* whose state a later order cleared, never on one of an action not made known.
OnlyClearedActionsEndThread ==
  [][handleOrderActionStatusChanged /\ alive' # alive => Head(events).action \in cleared]_vars

\* When nothing is on its way, the state tells the master control what is left.  The
\* released node states are exactly the nodes the scheduler still has to reach, as long as
\* no latch has cleared the graph, and an action of an order that is WAITING is one the
\* scheduler has yet to begin: what a cancel drops is not left waiting.
StateIsWhatIsLeft ==
  Quiet =>
    /\ HasGraph => {s \in DOMAIN Dump(om.graph) : IsNode(s) /\ Dump(om.graph)[s]}
                     = {p.seq : p \in ToSet(sched.goals)}
    /\ {a \in DOMAIN om.states \ Instants : om.states[a] = Waiting} \subseteq sched.tasks
===============================================================================
