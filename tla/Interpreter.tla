------------------------------ MODULE Interpreter ------------------------------
(***************************************************************************)
(* How the interpreter turns the messages of an order into yields: the     *)
(* loop of handleValidOrder around the state machine of                    *)
(* core/interpreter/functional.cpp, one action per handler of nextEvent.   *)
(*                                                                         *)
(* The nodes and edges of a message are taken to be sorted and to begin    *)
(* with a node; the checks of a message make sure of the rest.  The base   *)
(* of a message may end in an edge: the checks let that pass, and only the *)
(* interpreter refuses it.                                                 *)
(***************************************************************************)
EXTENDS Naturals, Sequences, FiniteSets

CONSTANTS
  Action,      \* the actions of all messages
  BlockingOf,  \* Action::blockingType
  Deliveries   \* the ways an order may come: a message, and the updates after it

BlockingType == {"NONE", "SOFT", "HARD"}

Element == [seq : Nat, released : BOOLEAN, actions : Seq(Action)]
Message == [update : Nat, nodes : Seq(Element) \ {<<>>}, edges : Seq(Element)]

ASSUME BlockingAssumption == BlockingOf \in [Action -> BlockingType]
ASSUME DeliveriesAssumption == Deliveries \subseteq Seq(Message)

VARIABLES
  messages,  \* the messages that come, in their order
  at,        \* the one that is interpreted, or one more than there are
  it,        \* its EventIter
  yields,    \* the events yielded so far, of all messages
  alive      \* no exception has ended the thread

interpreterVars == <<messages, at, it, yields, alive>>

IterState ==
  {"initial", "preNodeAction", "nodeAction", "nodeActionQueue", "preEdgeAction", "edgeAction",
   "edgeActionQueue", "transition", "navigation", "actionYield", "preDone", "done"}

\* The interpreter's events.
ClearActions  == [kind |-> "clear"]
NewAction(a)  == [kind |-> "new", action |-> a]
Group(as, c)  == [kind |-> "group", actions |-> as, ceiling |-> c]
NavStep(g, s) == [kind |-> "nav", goal |-> g, stop |-> s]
GraphOf(u, E) == [kind |-> IF u > 0 THEN "extension" ELSE "replacement", elements |-> E]
InterpreterDone == [kind |-> "done"]

GroupEvent == [kind : {"group"}, actions : Seq(Action), ceiling : BlockingType]

InterpreterEvent ==
  {ClearActions, InterpreterDone}
    \cup [kind : {"new"}, action : Action]
    \cup GroupEvent
    \cup [kind : {"nav"}, goal : Nat, stop : BOOLEAN]
    \cup [kind : {"extension", "replacement"}, elements : SUBSET Element]

NoGoal == [seq |-> 0, set |-> FALSE]

EventIter ==
  [state   : IterState,
   node    : Nat \ {0},                   \* node_iter_, as a position
   edge    : Nat \ {0},                   \* edge_iter_, as a position
   rest    : Seq(Action),                 \* from action_iter_ to action_end_
   group   : Seq(Action),                 \* current_action_group_
   ceiling : BlockingType,                \* current_action_group_blocking_type_
   later   : Seq(GroupEvent),             \* action_events_after_navigation_
   goal    : [seq : Nat, set : BOOLEAN],  \* current_goal_node_, set with its via edge
   stop    : BOOLEAN,                     \* stop_at_goal_
   graph   : SUBSET Element]              \* collected_graph_

\* EventIter::fromOrder, which leaves the ceiling as the memory has it.  A value that is
\* no blocking type is treated as NONE.
FromOrder(c) ==
  [state |-> "initial", node |-> 1, edge |-> 1, rest |-> <<>>, group |-> <<>>,
   ceiling |-> c, later |-> <<>>, goal |-> NoGoal, stop |-> FALSE, graph |-> {}]

InterpreterInit ==
  /\ messages \in Deliveries
  /\ at = 1 /\ yields = <<>> /\ alive = TRUE
  /\ \E c \in BlockingType : it = FromOrder(c)

-------------------------------------------------------------------------------

Nodes == messages[at].nodes
Edges == messages[at].edges
Node  == Nodes[it.node]
Edge  == Edges[it.edge]
NoEdge == it.edge > Len(Edges)

In(state) == alive /\ at <= Len(messages) /\ it.state = state

\* A handler that calls nextEvent again, one that returns an event, one that throws.
Proceed(i)  == it' = i /\ UNCHANGED <<messages, at, yields, alive>>
Return(y, i) == it' = i /\ yields' = Append(yields, y) /\ UNCHANGED <<messages, at, alive>>
Throw       == alive' = FALSE /\ UNCHANGED <<messages, at, it, yields>>

\* The actions of the first node come first, unless an update goes on from there.
BeginsWithNode == NoEdge \/ (Node.seq < Edge.seq /\ messages[at].update = 0)

HandleInitial ==
  /\ In("initial")
  /\ LET i == [it EXCEPT !.state = IF BeginsWithNode THEN "preNodeAction" ELSE "transition"]
     IN IF messages[at].update = 0 THEN Return(ClearActions, i) ELSE Proceed(i)

HandlePreNodeAction ==
  /\ In("preNodeAction")
  /\ IF Node.released
     THEN Proceed([it EXCEPT !.rest = Node.actions, !.state = "nodeAction"])
     ELSE Proceed([it EXCEPT !.state = "transition"])

\* A slip: the type of the action that joins wins.
CeilLast(c, b) == b
\* EventIter::ceilCurrentActionGroupBlockingType
Ceil(c, b) ==
  CASE c = "HARD" -> "HARD"
    [] c = "SOFT" -> IF b = "HARD" THEN "HARD" ELSE "SOFT"
    [] c = "NONE" -> b

IsHard(a) == BlockingOf[a] = "HARD"

\* A slip: a HARD action does not wait until the group before it is queued.
HasToWaitNever(a) == FALSE
\* A HARD action does not join the group that is being collected.
HasToWait(a) == IsHard(a) /\ it.group # <<>>

\* What handleNodeAction and handleEdgeAction have in common.
TakeAction(queueing) ==
  IF it.rest = <<>> \/ HasToWait(Head(it.rest))
  THEN Proceed([it EXCEPT !.state = queueing])
  ELSE LET a == Head(it.rest)
       IN Return(NewAction(a),
                 [it EXCEPT !.state   = IF IsHard(a) THEN queueing ELSE @,
                            !.stop    = @ \/ BlockingOf[a] # "NONE",
                            !.ceiling = Ceil(@, BlockingOf[a]),
                            !.group   = Append(@, a),
                            !.rest    = Tail(@)])

HandleNodeAction == In("nodeAction") /\ TakeAction("nodeActionQueue")
HandleEdgeAction == In("edgeAction") /\ TakeAction("edgeActionQueue")

\* The group that is collected waits until the drive to the node is yielded.
QueueGroup(i) ==
  IF i.group = <<>> THEN i
  ELSE [i EXCEPT !.later = Append(@, Group(i.group, i.ceiling)),
                 !.group = <<>>, !.ceiling = "NONE"]

\* Where the actions of a node go on once a group of them is queued.
AfterNodeGroup(rest) == IF rest # <<>> THEN "nodeAction" ELSE "transition"

HandleNodeActionQueue ==
  /\ In("nodeActionQueue")
  /\ Proceed([QueueGroup(it) EXCEPT !.state = AfterNodeGroup(it.rest)])

HandlePreEdgeAction ==
  /\ In("preEdgeAction")
  /\ IF Edge.released
     THEN Proceed([it EXCEPT !.rest = Edge.actions, !.state = "edgeAction"])
     ELSE Proceed([it EXCEPT !.state = "navigation"])

HandleEdgeActionQueue ==
  /\ In("edgeActionQueue")
  /\ IF it.group # <<>>
     THEN Proceed(QueueGroup(it))
     ELSE Proceed([it EXCEPT !.state = IF it.rest # <<>> THEN "edgeAction" ELSE "navigation"])

HandleActionYield ==
  /\ In("actionYield")
  /\ IF it.later = <<>>
     THEN Proceed([it EXCEPT !.state = "preNodeAction"])
     ELSE Return(Head(it.later), [it EXCEPT !.later = Tail(@)])

\* As many pairs of an edge and a node as remain.
Pairs == {n \in 0..Len(Edges) : it.edge + n <= Len(Edges) /\ it.node + n <= Len(Nodes)}

\* The iterator behind the next step: behind the first node, behind the horizon, or
\* one edge and node further.
Stepped ==
  IF NoEdge \/ Node.seq < Edge.seq
  THEN [it EXCEPT !.graph = {Node}, !.node = @ + 1]
  ELSE IF ~Edge.released
  THEN [it EXCEPT !.graph = @ \cup {Edges[it.edge + n] : n \in Pairs}
                              \cup {Nodes[it.node + n] : n \in Pairs},
                  !.edge = @ + Cardinality(Pairs), !.node = @ + Cardinality(Pairs)]
  ELSE [it EXCEPT !.graph = @ \cup {Edge, Node}, !.edge = @ + 1, !.node = @ + 1,
                  !.goal = [seq |-> Node.seq, set |-> TRUE]]

\* "Released Edge leads to unreleased Node"
LeadsToHorizon == ~NoEdge /\ Node.seq > Edge.seq /\ Edge.released /\ ~Node.released

\* A slip: a message is over when both have come to an end, and goes on otherwise.
AfterStepUnchecked(i) ==
  IF i.node > Len(Nodes) /\ i.edge > Len(Edges) THEN "preDone" ELSE "preEdgeAction"
\* "No more Nodes, but Edges", and the reverse
AfterStep(i) ==
  CASE i.node > Len(Nodes) /\ i.edge > Len(Edges)   -> "preDone"
    [] i.node <= Len(Nodes) /\ i.edge <= Len(Edges) -> "preEdgeAction"
    [] OTHER                                        -> "invalid"

HandleTransition ==
  /\ In("transition")
  /\ IF LeadsToHorizon \/ AfterStep(Stepped) = "invalid"
     THEN Throw
     ELSE Proceed([Stepped EXCEPT !.state = AfterStep(Stepped)])

\* A slip: the stop hint outlives the drive it was given with.
DrivenKeepingStop(state) == [it EXCEPT !.state = state, !.goal = NoGoal]
\* The iterator without the goal.
Driven(state) == [it EXCEPT !.state = state, !.goal = NoGoal, !.stop = FALSE]

HandleNavigation ==
  /\ In("navigation")
  /\ IF it.goal.set
     THEN Return(NavStep(it.goal.seq, it.stop), Driven("actionYield"))
     ELSE Proceed(Driven("actionYield"))

HandlePreDone ==
  /\ In("preDone")
  /\ IF it.group # <<>>
     THEN Throw
     ELSE IF it.goal.set
     THEN Return(NavStep(it.goal.seq, it.stop), Driven("preDone"))
     ELSE IF it.later # <<>>
     THEN Return(Head(it.later), [it EXCEPT !.later = Tail(@)])
     ELSE Return(GraphOf(messages[at].update, it.graph), [it EXCEPT !.state = "done"])

\* handleValidOrder ends, and the next message is taken.
HandleDone ==
  /\ In("done")
  /\ yields' = Append(yields, InterpreterDone)
  /\ at' = at + 1
  /\ \E c \in BlockingType : it' = FromOrder(c)
  /\ UNCHANGED <<messages, alive>>

InterpreterNext ==
  \/ HandleInitial \/ HandlePreNodeAction \/ HandleNodeAction \/ HandleNodeActionQueue
  \/ HandlePreEdgeAction \/ HandleEdgeAction \/ HandleEdgeActionQueue \/ HandleActionYield
  \/ HandleTransition \/ HandleNavigation \/ HandlePreDone \/ HandleDone

\* The loop goes on until there is no event.
InterpreterSpec ==
  InterpreterInit /\ [][InterpreterNext]_interpreterVars /\ WF_interpreterVars(InterpreterNext)

-------------------------------------------------------------------------------
(* Properties *)

TypeOK ==
  /\ messages \in Seq(Message)
  /\ at \in 1..(Len(messages) + 1)
  /\ it \in EventIter
  /\ yields \in Seq(InterpreterEvent)
  /\ alive \in BOOLEAN

\* The iterators are dereferenced only where they point to something, in a message that
\* is refused in the middle too ("Invariant has nodes violated", functional.cpp:384).
InRange ==
  at <= Len(messages) =>
    /\ it.state \notin {"preDone", "done"} => it.node \in DOMAIN Nodes
    /\ it.state \in {"preEdgeAction", "edgeAction", "edgeActionQueue", "navigation"} =>
         it.edge \in DOMAIN Edges

\* The strongest blocking type in a group
Strongest(s) ==
  IF \E i \in DOMAIN s : IsHard(s[i]) THEN "HARD"
  ELSE IF \E i \in DOMAIN s : BlockingOf[s[i]] = "SOFT" THEN "SOFT"
  ELSE "NONE"

\* The ceiling c is as strong as the blocking type b.
Covers(c, b) == b = "NONE" \/ c = b \/ c = "HARD"

IsSound(y) ==
  y.kind = "group" =>
    /\ y.actions # <<>>
    /\ Covers(y.ceiling, Strongest(y.actions))
    /\ \A i \in DOMAIN y.actions : IsHard(y.actions[i]) => Len(y.actions) = 1

\* The scheduler runs a group all at once and decides by its ceiling alone whether the
\* AGV may drive (scheduler.cpp:628): no group is empty, its ceiling is no weaker than
\* any of its actions, and a HARD action has a group of its own.
GroupsAreSound == \A i \in DOMAIN yields : IsSound(yields[i])
===============================================================================
