------------------------------- MODULE Scheduler -------------------------------
(***************************************************************************)
(* The scheduler behind OrderEventHandler (core/order): what the           *)
(* interpreter, the control instant actions and the AGV's handlers can do  *)
(* to it, in every order.                                                  *)
(*                                                                         *)
(* Three threads call it: the interpreter event thread (yields, commits,   *)
(* instant action groups, order controls), the action status thread and    *)
(* the navigation status thread.  Each call is one step.  This is the      *)
(* class against its most general caller: only the yields of an order keep *)
(* their order; controls and instant actions come at any time, also between*)
(* two yields, and the AGV reports what it likes.  OrderExecution adds the *)
(* queues, threads and validations through which they really come.         *)
(***************************************************************************)
EXTENDS SchedulerOps

CONSTANTS
  Orders,    \* what the interpreter yields for each order and order update, in turn
  Instants   \* the groups of the instant actions messages, each sent once

ASSUME OrdersAssumption ==
  /\ Orders \in Seq(Seq(Yield))
  /\ Instants \subseteq (SUBSET Action) \ {{}}

\* The actions of the groups among the elements of q.
ActionsIn(q) == UNION {q[i].actions : i \in {j \in DOMAIN q : ~IsStep(q[j])}}

\* The actions of all orders.
OrderActions == UNION {ActionsIn(Orders[n]) : n \in DOMAIN Orders}

\* Validation turns an action id away that is known already, so an action is in
\* one instant actions message or in one order.
ASSUME UniqueIdsAssumption ==
  /\ \A G \in Instants : G \cap OrderActions = {}
  /\ \A G, H \in Instants : G = H \/ G \cap H = {}

\* Validation turns ids away that come twice.  That a message lists its nodes by their
\* sequence ids is left to its sender.  The goals of a new order are numbered on from
\* those of the order before it.
ASSUME NumberingAssumption ==
  \A n, m \in DOMAIN Orders : \A i \in DOMAIN Orders[n], j \in DOMAIN Orders[m] :
    n < m \/ (n = m /\ i < j) => Before(Orders[n][i], Orders[m][j])

\* The interpreter yields no group whose ceiling is weaker than its actions
\* (GroupsAreSound of Interpreter).
ASSUME CeilingAssumption ==
  \A n \in DOMAIN Orders : \A i \in DOMAIN Orders[n] :
    ~IsStep(Orders[n][i]) => Covered(Orders[n][i])

VARIABLES
  sch,        \* the Scheduler object
  published,  \* the status of the last OrderStatus event
  pending,    \* interpreter events not handled yet
  received,   \* how many of Orders have been interpreted
  issued      \* the instant groups handed to the scheduler

vars == <<sch, published, pending, received, issued>>

Done == [kind |-> "done"]   \* InterpreterDone

-------------------------------------------------------------------------------

Init ==
  /\ sch = NewScheduler
  /\ published = "idle"
  /\ pending = <<>>
  /\ received = 0
  /\ issued = {}

\* A call that leaves the scheduler in state s.
Call(s) ==
  /\ sch' = s
  /\ published' = IF s.notes = <<>> THEN published ELSE s.notes[Len(s.notes)]

\* handleValidOrder of the next order.  Whether it is accepted is decided before,
\* by a status that may be out of date, so it may come at any time.
ReceiveOrder ==
  /\ received < Len(Orders)
  /\ received' = received + 1
  /\ pending' = pending \o Append(Orders[received + 1], Done)
  /\ UNCHANGED <<sch, published, issued>>

\* handleYieldNormal
EnqueueYield ==
  /\ pending # <<>> /\ Head(pending) # Done
  /\ pending' = Tail(pending)
  /\ Call(Enqueue(Begin(sch), Head(pending)))
  /\ UNCHANGED <<received, issued>>

\* handleInterpreterDone
CommitOrder ==
  /\ pending # <<>> /\ Head(pending) = Done
  /\ pending' = Tail(pending)
  /\ Call(CommitQueue(Begin(sch)))
  /\ UNCHANGED <<received, issued>>

\* handleYieldInstantActionGroup
InstantActions(G) ==
  /\ G \notin issued
  /\ issued' = issued \cup {G}
  /\ Call(Interrupt(Begin(sch), G))
  /\ UNCHANGED <<pending, received>>

\* handleOrderControl
CancelOrder == Call(Cancel(Begin(sch))) /\ UNCHANGED <<pending, received, issued>>
PauseOrder  == Call(Pause(Begin(sch)))  /\ UNCHANGED <<pending, received, issued>>
ResumeOrder == Call(Resume(Begin(sch))) /\ UNCHANGED <<pending, received, issued>>

\* handleActionInitializing, ...Running, ...Paused, ...Failed and ...Finished.
\* A report on an action without a task is refused and changes nothing.
ActionStatus(a, t) ==
  /\ a \in sch.active
  /\ Call(ReportAction(Begin(sch), a, t))
  /\ UNCHANGED <<pending, received, issued>>

\* handleNavigationControl
NavigationControl(t) ==
  /\ sch.nav # NoTask
  /\ Call(ReportNav(Begin(sch), t, 0))
  /\ UNCHANGED <<pending, received, issued>>

\* handleNavigationNode.  Other nodes than the goal are refused by the task.
NodeReached ==
  /\ sch.nav # NoTask
  /\ Call(ReportNav(Begin(sch), "to_seq_id", sch.goal))
  /\ UNCHANGED <<pending, received, issued>>

\* The goal is reached when the order manager has lost the graph it belongs to.
NodeUnrecorded ==
  /\ sch.nav # NoTask
  /\ Call(ReachUnrecorded(Begin(sch), sch.goal))
  /\ UNCHANGED <<pending, received, issued>>

Next ==
  \/ ReceiveOrder
  \/ EnqueueYield
  \/ CommitOrder
  \/ \E G \in Instants : InstantActions(G)
  \/ CancelOrder
  \/ PauseOrder
  \/ ResumeOrder
  \/ \E a \in Action, t \in ActionReport : ActionStatus(a, t)
  \/ \E t \in NavReport \ {"to_seq_id"} : NavigationControl(t)
  \/ NodeReached
  \/ NodeUnrecorded

Spec == Init /\ [][Next]_vars

-------------------------------------------------------------------------------
(* Invariants *)

TypeOK ==
  /\ sch \in Schedulers
  /\ published \in SchedulerState
  /\ pending \in Seq(Yield \cup {Done})
  /\ received \in 0..Len(Orders)
  /\ issued \subseteq Instants

\* A task the AGV works on is in exactly one of the running and paused maps, and
\* no map keeps a task that ended: pause() and resume() walk these maps, and
\* transition() throws on a task that ended.
MapsPartition ==
  /\ sch.running \cup sch.paused = sch.active
  /\ sch.running \cap sch.paused = {}
  /\ \A a \in sch.active : sch.task[a] \notin ActionTerminal \cup {"Waiting"}

\* An idle scheduler left nothing of an order behind: no task, no navigation, no
\* segment the next order could be measured against and, unless it is paused, no
\* group and no step.  Groups of instant actions are the exception: one that is
\* refused stays in sch.intr, and the next one that is not refused starts it first.
IdleIsEmpty ==
  /\ sch.state \in {"idle", "idle_paused"} =>
       /\ sch.active = {} /\ sch.navint = {}
       /\ sch.nav = NoTask /\ sch.segment = NoSegment
  /\ sch.state = "idle" => sch.queue = <<>>

\* The status the last OrderStatus event carries is the state the scheduler is
\* in, although some states are entered without an event and some steps pass
\* through several.
StatusTracksState == published = sch.state

\* The AGV is never told to drive through a node it has to stop at.
SegmentEndsAtStop ==
  sch.segment # NoSegment =>
    \A i \in DOMAIN sch.queue :
      IsStep(sch.queue[i]) /\ sch.queue[i].stop => sch.segment <= sch.queue[i].goal

-------------------------------------------------------------------------------
(* Action properties *)

Started == sch'.active \ sch.active

\* A HARD action starts only when everything started before it has ended, and
\* while it is in progress nothing else starts.
HardExcludes ==
  [][(Started # {} /\ \E a \in Started \cup (sch.active \cap sch'.active) : BlockingOf[a] = "HARD")
        => sch.active \cap sch'.active = {}]_vars

\* A SOFT or HARD action starts only when the AGV has no navigation task, or one
\* it has reported as paused.
BlockingStartsStanding ==
  [][(\E a \in Started : BlockingOf[a] # "NONE") => sch'.nav \in NavPaused \cup {NoTask}]_vars

\* Between pausing and the resume that follows nothing new is started, whatever
\* the AGV reports and whatever orders are committed.
NothingStartsWhilePaused ==
  [][sch'.state \in {"pausing", "paused", "idle_paused"} =>
       Started = {} /\ (sch.nav = NoTask => sch'.nav = NoTask)]_vars
===============================================================================
