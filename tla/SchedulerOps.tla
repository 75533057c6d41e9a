----------------------------- MODULE SchedulerOps -----------------------------
(***************************************************************************)
(* The scheduler of core/order/scheduler.cpp as operators on its state.    *)
(*                                                                         *)
(* Every public operation of the class runs under access_mutex_, so it is  *)
(* one atomic step and is modelled by one operator from the state before   *)
(* to the state after it.  An exception is not rolled back: what was       *)
(* changed before the throw stays changed, the rest of the operation is    *)
(* skipped and s.thrown is set.                                            *)
(***************************************************************************)
EXTENDS Naturals, Sequences, FiniteSets, ActionTask, NavigationTask

CONSTANTS
  Action,      \* the actions of all orders and instant actions messages
  BlockingOf,  \* Action::blockingType
  IdRank       \* the order of the action ids, in which the maps are iterated

BlockingType == {"NONE", "SOFT", "HARD"}

ASSUME BlockingAssumption == BlockingOf \in [Action -> BlockingType]

ASSUME RankAssumption ==
  /\ IdRank \in [Action -> Nat]
  /\ \A a, b \in Action : IdRank[a] = IdRank[b] => a = b

\* SchedulerStateType; k_failed is declared but no code constructs it.
SchedulerState ==
  {"idle", "idle_paused", "active", "canceling", "resuming", "pausing",
   "paused", "interrupting"}

\* The interpreter's yield events; groups of an order are never empty.  The ceiling of
\* the first group of a message may be stronger than its actions (see Interpreter).
Group   == [kind : {"group"}, actions : (SUBSET Action) \ {{}}, ceiling : BlockingType]
NavStep == [kind : {"nav"}, goal : Nat \ {0}, stop : BOOLEAN]
Yield   == Group \cup NavStep

NoTask    == "NoTask"   \* navigation_task_ == nullptr
NoSegment == 0          \* current_segment_ == nullopt (goals are above 0)

\* The strongest blocking type among the actions of G, the ceiling of instant actions.
Ceiling(G) ==
  IF \E a \in G : BlockingOf[a] = "HARD" THEN "HARD"
  ELSE IF \E a \in G : BlockingOf[a] = "SOFT" THEN "SOFT"
  ELSE "NONE"

Schedulers ==
  [state   : SchedulerState,
   task    : [Action -> ActionState],       \* the state of each ActionTask
   active  : SUBSET Action,                 \* active_action_tasks_by_id_
   running : SUBSET Action,                 \* running_action_tasks_by_id_
   paused  : SUBSET Action,                 \* paused_action_tasks_by_id_
   navint  : SUBSET Action,                 \* nav_interrupting_action_tasks_by_id_
   nav     : NavState \cup {NoTask},        \* navigation_task_
   goal    : Nat,                           \* its goal's sequence id
   segment : Nat,                           \* current_segment_->second
   queue   : Seq(Yield),                    \* rcv_evt_queue_
   staging : Seq(Yield),                    \* rcv_evt_queue_staging_
   intr    : Seq((SUBSET Action) \ {{}}),     \* rcv_interrupt_queue_
   btype   : BlockingType,                  \* current_action_blocking_type_
   notes   : Seq(SchedulerState),           \* OrderStatus events of the operation
   thrown  : BOOLEAN]                       \* the operation ended in an exception

\* Scheduler::Scheduler()
NewScheduler ==
  [state |-> "idle", task |-> [a \in Action |-> "Waiting"],
   active |-> {}, running |-> {}, paused |-> {}, navint |-> {},
   nav |-> NoTask, goal |-> 0, segment |-> NoSegment,
   queue |-> <<>>, staging |-> <<>>, intr |-> <<>>, btype |-> "NONE",
   notes |-> <<>>, thrown |-> FALSE]

Begin(s) == [s EXCEPT !.notes = <<>>, !.thrown = FALSE]

\* A slip: an exception parks the scheduler in the failed state.
ThrowFailing(s) == [s EXCEPT !.thrown = TRUE, !.state = "failed"]
Throw(s)        == [s EXCEPT !.thrown = TRUE]

\* A slip: the segment outlives the order.
EnterKeepingSegment(s, st) == [s EXCEPT !.state = st]

\* Entering a state; the idle state's constructor drops the segment.
Enter(s, st) ==
  [s EXCEPT !.state = st,
            !.segment = IF st = "idle" THEN NoSegment ELSE @]

\* Entering a state whose constructor dispatches its OrderStatus.
Notify(s, st) == [Enter(s, st) EXCEPT !.notes = Append(@, st)]

-------------------------------------------------------------------------------
(* Transitions of the tasks *)

\* NavigationTask::transition
MoveNav(s, t, g) ==
  IF t \in NavAccepts[s.nav] /\ (t = "to_seq_id" => g = s.goal)
  THEN [s EXCEPT !.nav = NavTarget[t]]
  ELSE Throw(s)

\* ActionTask::transition on every task of S in the order of their ids: the
\* first task that refuses ends the loop, the ones before it have moved.
MoveActions(s, S, t) ==
  LET refusing == {a \in S : t \notin ActionAccepts[s.task[a]]}
      moved    == {a \in S : \A r \in refusing : IdRank[a] < IdRank[r]}
  IN [s EXCEPT
        !.task   = [a \in Action |-> IF a \in moved THEN ActionTarget[t] ELSE @[a]],
        !.thrown = @ \/ refusing # {}]

\* Creating the tasks of a group with the ceiling c and starting them.
StartGroup(s, G, c) ==
  [s EXCEPT !.btype   = c,
            !.active  = @ \cup G,
            !.running = @ \cup G,
            !.task    = [a \in Action |-> IF a \in G THEN ActionTarget["do_start"]
                                                     ELSE @[a]]]

-------------------------------------------------------------------------------
(* The queues *)

IsStep(e) == e.kind = "nav"

\* e may come before f: no action id and no sequence id comes twice, and sequence ids
\* ascend.
Before(e, f) ==
  /\ IsStep(e) /\ IsStep(f) => e.goal < f.goal
  /\ ~IsStep(e) /\ ~IsStep(f) => e.actions \cap f.actions = {}

\* No action is stronger than a ceiling NONE.
Covered(e) == e.ceiling = "NONE" => \A a \in e.actions : BlockingOf[a] = "NONE"

\* The elements of q whose index is in I, in their order.
Chosen(q, I) ==
  LET upto[i \in 0..Len(q)] ==
        IF i = 0 THEN <<>>
        ELSE IF i \in I THEN Append(upto[i - 1], q[i])
        ELSE upto[i - 1]
  IN upto[Len(q)]

\* A slip: the steps behind a stop belong to the segment as well.
FreeStepsIgnoringStops(q) == {i \in DOMAIN q : IsStep(q[i])}

\* The indices of the steps of q up to and with the first the AGV has to stop at.
FreeSteps(q) ==
  LET steps == {i \in DOMAIN q : IsStep(q[i])}
  IN {i \in steps : ~\E j \in steps : j < i /\ q[j].stop}

\* Scheduler::clearQueues
ClearQueues(s, keepNav) ==
  [s EXCEPT !.queue = IF keepNav THEN Chosen(@, FreeSteps(@)) ELSE <<>>,
            !.intr  = <<>>]

\* The last goal reachable from the queue without stopping, e if it has no step.
SegmentEnd(q, e) ==
  LET free == FreeSteps(q)
  IN IF free = {} THEN e
     ELSE q[CHOOSE i \in free : \A j \in free : j <= i].goal

-------------------------------------------------------------------------------
(* Scheduler::updateTasks and updateTasksInterruptMapping *)

\* A slip: ended tasks are dropped from the running and paused maps alone.
UpdateTasksKeepingEnded(s) ==
  LET live    == {a \in s.running \cup s.paused : s.task[a] \notin ActionTerminal}
      resting == {a \in live : s.task[a] \in ActionPaused}
      moved   == [s EXCEPT !.running = live \ resting, !.paused = resting]
  IN IF s.nav \in NavTerminal
     THEN [moved EXCEPT !.nav = NoTask, !.goal = 0]
     ELSE moved

UpdateTasks(s) ==
  LET live    == {a \in s.running \cup s.paused : s.task[a] \notin ActionTerminal}
      resting == {a \in live : s.task[a] \in ActionPaused}
      moved   == [s EXCEPT !.running = live \ resting,
                           !.paused  = resting,
                           !.active  = {a \in @ : s.task[a] \notin ActionTerminal}]
      cleared == IF s.nav = "Failed" THEN ClearQueues(moved, FALSE) ELSE moved
  IN IF s.nav \in NavTerminal
     THEN [cleared EXCEPT !.nav = NoTask, !.goal = 0]
     ELSE moved

UpdateInterruptMapping(s) ==
  LET rest == {a \in s.navint : s.task[a] \notin ActionTerminal}
      s1   == [s EXCEPT !.navint = rest]
  IN IF rest # s.navint /\ rest = {} /\ s.nav # NoTask
     THEN MoveNav(s1, "do_resume", 0)
     ELSE s1

-------------------------------------------------------------------------------
(* Scheduler::updateFetchNext: the front of the queue is activated when      *)
(* nothing forbids it.                                                       *)

MayFetchGroup(s) ==
  /\ s.active = {}
  /\ s.nav = NoTask \/ Head(s.queue).ceiling = "NONE"

FetchGroup(s) ==
  [StartGroup(s, Head(s.queue).actions, Head(s.queue).ceiling)
     EXCEPT !.segment = NoSegment, !.queue = Tail(@)]

MayFetchStep(s) ==
  /\ s.nav = NoTask
  /\ s.navint = {}
  /\ s.active = {} \/ s.btype = "NONE"

FetchStep(s) ==
  LET goal == Head(s.queue).goal
  IN [s EXCEPT
        !.nav     = NavTarget["do_start"],
        !.goal    = goal,
        !.segment = IF @ # NoSegment /\ @ >= goal THEN @ ELSE SegmentEnd(s.queue, goal),
        !.queue   = Tail(@)]

\* doPatchSegment: a navigation task is told of the steps appended behind it.
PatchSegment(s) ==
  [s EXCEPT !.segment = IF @ = NoSegment THEN @ ELSE SegmentEnd(s.queue, @)]

FetchOne(s) ==
  IF s.queue = <<>> THEN s
  ELSE IF ~IsStep(Head(s.queue))
       THEN IF MayFetchGroup(s) THEN FetchGroup(s) ELSE s
  ELSE IF s.nav # NoTask THEN PatchSegment(s)
  ELSE IF MayFetchStep(s) THEN FetchStep(s) ELSE s

\* The C++ function calls itself after each activation.  A group keeps the
\* next group out and a step the next step, so at most two calls activate
\* something, and the third finds the front blocked.
FetchNext(s) == FetchOne(FetchOne(FetchOne(s)))

-------------------------------------------------------------------------------
(* Scheduler::doInterrupt and updateFetchNextInterrupt *)

DoInterrupt(s) ==
  LET ceiling == Ceiling(Head(s.intr))
      s1 == IF ceiling # "NONE" /\ s.nav # NoTask
            THEN MoveNav(s, "do_pause", 0) ELSE s
      ousted == {a \in s.active : ceiling = "HARD" \/ BlockingOf[a] = "HARD"}
  IN IF s.intr = <<>> THEN s
     ELSE IF s1.thrown THEN s1
     ELSE MoveActions(s1, ousted, "do_cancel")

\* A slip: an AGV that was told to pause is taken for one that stands.
MayFetchInterruptPausing(s) ==
  LET ceiling == Ceiling(Head(s.intr))
  IN /\ s.intr # <<>>
     /\ ceiling # "NONE" => s.nav \in NavPaused \cup {NoTask, "Pausing"}
     /\ \A a \in s.active : ceiling # "HARD" /\ BlockingOf[a] # "HARD"

\* A slip: only the group's own blocking type is looked at.
MayFetchInterruptBesideHard(s) ==
  LET ceiling == Ceiling(Head(s.intr))
  IN /\ s.intr # <<>>
     /\ ceiling # "NONE" => s.nav \in NavPaused \cup {NoTask}
     /\ s.active # {} => ceiling # "HARD"

MayFetchInterrupt(s) ==
  LET ceiling == Ceiling(Head(s.intr))
  IN /\ s.intr # <<>>
     /\ ceiling # "NONE" => s.nav \in NavPaused \cup {NoTask}
     /\ \A a \in s.active : ceiling # "HARD" /\ BlockingOf[a] # "HARD"

FetchInterrupt(s) ==
  LET G == Head(s.intr)
  IN IF MayFetchInterrupt(s)
     THEN [StartGroup(s, G, Ceiling(G)) EXCEPT
             !.navint = @ \cup {a \in G : BlockingOf[a] # "NONE"},
             !.intr   = Tail(@)]
     ELSE s

-------------------------------------------------------------------------------
(* SchedulerState::update, one operator per state *)

Refresh(s) == UpdateInterruptMapping(UpdateTasks(s))

UpdateIdle(s) ==
  LET s1 == FetchNext(s)
  IN IF s1.nav # NoTask \/ s1.active # {} THEN Notify(s1, "active")
                                          ELSE Enter(s1, "idle")

\* A slip: an order that ends is not announced.
UpdateActiveSilent(s) ==
  LET s1 == Refresh(s)
      s2 == FetchNext(s1)
  IN IF s1.thrown THEN s1
     ELSE IF s2.active = {} /\ s2.nav \in NavTerminal \cup {NoTask}
          THEN Enter(s2, "idle")
     ELSE s2

UpdateActive(s) ==
  LET s1 == Refresh(s)
      s2 == FetchNext(s1)
  IN IF s1.thrown THEN s1
     ELSE IF s2.active = {} /\ s2.nav \in NavTerminal \cup {NoTask}
          THEN Notify(s2, "idle")
     ELSE s2

UpdateCanceling(s) ==
  LET s1 == Refresh(s)
      s2 == FetchNext(s1)
  IN IF s1.thrown THEN s1
     ELSE IF s2.active = {} /\ s2.nav = NoTask THEN Notify(s2, "idle")
     ELSE s2

UpdateResuming(s) ==
  LET s1 == Refresh(s)
  IN IF s1.thrown \/ s1.paused # {} \/ s1.nav \in NavPaused THEN s1
     ELSE UpdateActive(Notify(s1, "active"))

\* A slip: a pausing scheduler goes on with its queue.
UpdatePausingFetching(s) ==
  LET s1 == Refresh(s)
  IN IF s1.thrown \/ s1.running # {} \/ s1.nav \notin NavPaused \cup {NoTask} THEN s1
     ELSE FetchNext(Notify(s1, "paused"))

UpdatePausing(s) ==
  LET s1 == Refresh(s)
  IN IF s1.thrown \/ s1.running # {} \/ s1.nav \notin NavPaused \cup {NoTask} THEN s1
     ELSE Notify(s1, "paused")

UpdateInterrupting(s) ==
  LET s1 == FetchInterrupt(UpdateTasks(s))
  IN IF s1.intr = <<>> THEN Notify(s1, "active") ELSE s1

\* A slip: an order that arrives while the scheduler is idle and paused is begun.
UpdateThoughPaused(s) ==
  CASE s.state \in {"idle", "idle_paused"} -> UpdateIdle(s)
    [] s.state = "active"       -> UpdateActive(s)
    [] s.state = "canceling"    -> UpdateCanceling(s)
    [] s.state = "resuming"     -> UpdateResuming(s)
    [] s.state = "pausing"      -> UpdatePausing(s)
    [] s.state = "paused"       -> Refresh(s)
    [] s.state = "interrupting" -> UpdateInterrupting(s)

\* Scheduler::update
Update(s) ==
  CASE s.state = "idle"         -> UpdateIdle(s)
    [] s.state = "idle_paused"  -> s
    [] s.state = "active"       -> UpdateActive(s)
    [] s.state = "canceling"    -> UpdateCanceling(s)
    [] s.state = "resuming"     -> UpdateResuming(s)
    [] s.state = "pausing"      -> UpdatePausing(s)
    [] s.state = "paused"       -> Refresh(s)
    [] s.state = "interrupting" -> UpdateInterrupting(s)

-------------------------------------------------------------------------------
(* The control operations; a state without a case throws *)

\* SchedulerActive::cancel, which SchedulerPaused::cancel calls as well.
CancelActive(s) ==
  LET s1 == MoveActions(s, s.active, "do_cancel")
      s2 == IF s.nav \in NavPaused \cup NavTerminal \cup {NoTask} THEN s1
            ELSE MoveNav(s1, "do_cancel", 0)
  IN IF s1.thrown THEN s1
     ELSE IF s2.thrown THEN s2
     ELSE Notify(ClearQueues(s2, TRUE), "canceling")

\* A slip: canceling an idle scheduler waits for a report that never comes.
CancelWithoutUpdate(s) ==
  CASE s.state = "idle"               -> Enter(s, "canceling")
    [] s.state = "idle_paused"        -> ClearQueues(s, FALSE)
    [] s.state \in {"active", "paused"} -> CancelActive(s)
    [] OTHER                          -> Throw(s)

\* A slip: canceling forgets the tasks instead of waiting for their end.
CancelForgetting(s) ==
  IF s.state \in {"active", "paused"}
  THEN [CancelActive(s) EXCEPT !.active = {}, !.running = {}, !.paused = {}]
  ELSE CancelWithoutUpdate(s)

\* Scheduler::cancel
Cancel(s) ==
  CASE s.state = "idle"               -> Update(Enter(s, "canceling"))
    [] s.state = "idle_paused"        -> ClearQueues(s, FALSE)
    [] s.state \in {"active", "paused"} -> CancelActive(s)
    [] OTHER                          -> Throw(s)

PauseActive(s) ==
  LET s1 == MoveActions(s, s.running, "do_pause")
      s2 == IF s.nav = NoTask THEN s1 ELSE MoveNav(s1, "do_pause", 0)
  IN IF s1.thrown THEN s1
     ELSE IF s2.thrown THEN s2
     ELSE Notify(s2, "pausing")

\* Scheduler::pause
Pause(s) ==
  CASE s.state = "idle"   -> Notify(s, "idle_paused")
    [] s.state = "active" -> PauseActive(s)
    [] OTHER              -> Throw(s)

ResumePaused(s) ==
  LET s1 == MoveActions(s, s.paused, "do_resume")
      s2 == IF s.nav = NoTask THEN s1 ELSE MoveNav(s1, "do_resume", 0)
  IN IF s1.thrown THEN s1
     ELSE IF s2.thrown THEN s2
     ELSE Update(Notify(s2, "resuming"))

\* Scheduler::resume
Resume(s) ==
  CASE s.state = "idle_paused" -> Update(Notify(s, "idle"))
    [] s.state = "paused"      -> ResumePaused(s)
    [] OTHER                   -> Throw(s)

\* Scheduler::enqueueInterruptActions: the group is queued before the state is
\* asked, and stays queued when the state refuses.
Interrupt(s, G) ==
  LET s1 == [s EXCEPT !.intr = Append(@, G)]
      s2 == DoInterrupt(s1)
  IN IF s.state \notin {"idle", "active"} THEN Throw(s1)
     ELSE IF s2.thrown THEN s2
     ELSE Update(Notify(s2, "interrupting"))

-------------------------------------------------------------------------------
(* The reports of the AGV and the events of the interpreter *)

\* Scheduler::actionTransition
ReportAction(s, a, t) ==
  IF a \in s.active /\ t \in ActionAccepts[s.task[a]]
  THEN Update([s EXCEPT !.task[a] = ActionTarget[t]])
  ELSE Throw(s)

\* Scheduler::navigationTransition
ReportNav(s, t, g) ==
  LET s1 == MoveNav(s, t, g)
  IN IF s.nav = NoTask THEN Throw(s)
     ELSE IF s1.thrown THEN s1
     ELSE Update(s1)

\* The same with a node that the order manager's graph does not hold: the task has
\* ended when its effect throws, and the update is skipped.
ReachUnrecorded(s, g) == Throw(MoveNav(s, "to_seq_id", g))

\* Scheduler::enqueue
Enqueue(s, e) == [s EXCEPT !.staging = Append(@, e)]

\* A slip: an update is put before what is left of the order.
CommitQueueFirst(s) ==
  Update([s EXCEPT !.queue = s.staging \o @, !.staging = <<>>])

\* Scheduler::commitQueue
CommitQueue(s) ==
  Update([s EXCEPT !.queue = @ \o s.staging, !.staging = <<>>])
===============================================================================
