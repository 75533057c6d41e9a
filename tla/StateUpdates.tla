----------------------------- MODULE StateUpdates -----------------------------
(***************************************************************************)
(* When the master control hears of a change (core/state): the status      *)
(* manager, the handlers of the StateEventHandler that change what a State *)
(* message says, the StateUpdateTimer that sends it by request or when its *)
(* period is over, the VisualizationTimer, and their shutdown and restart. *)
(*                                                                         *)
(* The status, navigation status and order event threads run the handlers, *)
(* the state event thread takes the requests for an update, each timer has *)
(* a thread that sleeps on an InterruptableTimer, and the thread of the    *)
(* application initializes and deinitializes the two modules.              *)
(*                                                                         *)
(* Time passes in ticks and only while every thread waits: the threads are *)
(* quick against the 100 ms of the most urgent request.  Points in time    *)
(* are kept as the ticks until they come, 0 for what has passed.           *)
(***************************************************************************)
EXTENDS Integers, Sequences, FiniteSets, FiniteSetsExt

CONSTANTS
  Period,      \* max_update_period
  High,        \* the delay of StateUpdateUrgency::high()
  VisPeriod,   \* visualization_period
  Plans        \* which modules the configuration has, which calls of sinks and events of
               \* the scheduler come, and how often the instance is started anew

ASSUME UpdatesAssumption ==
  Period \in Nat /\ High \in 1..Period /\ VisPeriod \in Nat \ {0}

VARIABLES
  is,        \* what the status manager and the order manager hold
  queue,     \* for each event thread the calls it has not handled
  requests,  \* the state event queue
  timer,     \* the two InterruptableTimers
  thread,    \* the two threads that sleep on them
  request,   \* where the state event thread is in StateUpdateTimer::requestUpdate
  periodic,  \* last_sent_ + max_update_period
  next,      \* next_scheduled_update_
  control,   \* where the application is in deinitialize
  stop,      \* which threads have been asked to stop
  dump,      \* the State messages being put together
  shown,     \* what the State message dispatched last says
  age,       \* for how long a field has differed from it
  missed,    \* whether a request has met a thread that is awake
  plan       \* what is left of the plan

vars == <<is, queue, requests, timer, thread, request, periodic, next, control, stop,
          dump, shown, age, missed, plan>>
held    == <<is, queue>>
timers  == <<timer, thread>>
clock   == <<periodic, next>>
life    == <<control, stop>>
report  == <<dump, shown, age, missed>>

never == -1
unset == -1

\* What an order manager says and what a status manager says.
OrderFields   == {"order", "lastNode", "action", "status"}
Sampled       == {"battery", "position", "velocity", "distance"}
StatusFields  == {"driving", "loads", "mode", "newBase", "errors", "infos"} \cup Sampled
Field         == OrderFields \cup StatusFields
EventThread   == {"status", "navigation", "order", "interpreter"}
Timer         == {"state", "visual"}

\* The order status as a State message tells it (order_manager.cpp:219).
Told(f, value) ==
  IF f = "status" THEN IF value \in {"paused", "resuming"} THEN 1 ELSE 0 ELSE value

Said(content) == [f \in Field |-> Told(f, content[f])]

Least(x, y) == IF x = never THEN y ELSE IF y = never THEN x ELSE Min({x, y})

-----------------------------------------------------------------------------
(* A call has the thread that handles its event, a name and a value. *)

StatusEvents ==
  {"addLoad", "removeLoad", "alterLoads", "setOperatingMode", "setBatteryState", "get",
   "requestNewBase", "addError", "alterErrors", "addInfo", "alterInfos"}

OrderStatuses ==
  {"active", "idle", "idle_paused", "resuming", "canceling", "pausing", "paused", "failed",
   "interrupting"}

NavigationEvents == {"position", "velocity", "distance", "driving", "lastNode"}

Status(name, v)      == [thread |-> "status", name |-> name, value |-> v]
Navigation(name, v)  == [thread |-> "navigation", name |-> name, value |-> v]
Order(name, v)       == [thread |-> "order", name |-> name, value |-> v]
Interpreted(name, v) == [thread |-> "interpreter", name |-> name, value |-> v]

Calls ==
  [thread : {"status"}, name : StatusEvents, value : Nat]
    \cup [thread : {"navigation"}, name : NavigationEvents, value : Nat]
    \cup [thread : {"order"}, name : {"lastNode", "action"} \cup OrderStatuses, value : Nat]
    \cup [thread : {"interpreter"}, name : {"order"}, value : Nat]

ASSUME PlansAssumption ==
  Plans \subseteq [modules : {{"state"}, {"state", "visual"}}, calls : Seq(Calls), restarts : Nat]

\* idle_paused is entered from idle and left for idle alone (order/scheduler.cpp:34 and
\* 73), so none of the other pauses is announced next to it.
Apart(s, t) == {s, t} \cap {"paused", "resuming"} = {} \/ "idle_paused" \notin {s, t}

\* The order status, and the events of the scheduler that are still to be handled.
Announced == <<is.status>> \o [n \in DOMAIN queue.order |-> queue.order[n].name]
MayFollow(name) ==
  \A n \in DOMAIN Announced :
    Apart(Announced[n], name) \/ \E k \in DOMAIN Announced : n < k /\ Announced[k] = "idle"

\* The sinks and the scheduler dispatch an event; a getter of a sink waits for its answer,
\* and the second it waits does not pass.  The interpreter dispatches what it has
\* made of an order and then requests an update.  A plan that tells the statuses of the
\* scheduler in an order it does not have waits.
Call ==
  /\ control = "up" /\ plan.calls # <<>>
  /\ \A n \in DOMAIN queue.status : queue.status[n].name # "get"
  /\ MayFollow(Head(plan.calls).name)
  /\ plan' = [plan EXCEPT !.calls = Tail(@)]
  /\ queue' = [queue EXCEPT ![Head(plan.calls).thread] = Append(@, Head(plan.calls))]
  /\ requests' = IF Head(plan.calls).thread = "interpreter" THEN Append(requests, "high")
                                                             ELSE requests
  /\ UNCHANGED <<is, timers, request, clock, life, report>>

\* The handler of the event at the front of the queue of t is the one for name.
Takes(t, name) == queue[t] # <<>> /\ Head(queue[t]).name = name

\* It makes content of what is, and requests an update or does not.
Becomes(t, content, asks) ==
  /\ is' = content
  /\ requests' = IF asks THEN Append(requests, "high") ELSE requests
  /\ queue' = [queue EXCEPT ![t] = Tail(@)]
  /\ age' = [f \in Field |-> IF Said(content)[f] = shown[f] THEN 0 ELSE age[f]]
  /\ UNCHANGED <<timers, request, clock, life, dump, shown, missed, plan>>

\* The alter function runs under the lock and leaves the value.
Altered(f) == [is EXCEPT ![f] = Head(queue.status).value]

\* getLoads, getOperatingMode and getBatteryState.
HandleGet == Takes("status", "get") /\ Becomes("status", is, FALSE)

HandleLoadAdd ==
  /\ Takes("status", "addLoad")
  /\ Becomes("status", [is EXCEPT !.loads = IF @ = unset THEN 1 ELSE @ + 1], TRUE)

\* The value tells whether a load has the id.
HandleLoadRemove ==
  /\ Takes("status", "removeLoad")
  /\ LET found == is.loads > 0 /\ Head(queue.status).value = 1
     IN Becomes("status", [is EXCEPT !.loads = IF found THEN @ - 1 ELSE @], found)

HandleLoadsAlter ==
  /\ Takes("status", "alterLoads")
  /\ LET set == is.loads # unset
     IN Becomes("status", IF set THEN Altered("loads") ELSE is, set)

\* setOperatingMode, and alterOperatingMode with what its function returns.
HandleOperatingMode ==
  /\ Takes("status", "setOperatingMode")
  /\ LET mode == Head(queue.status).value
     IN Becomes("status", [is EXCEPT !.mode = mode], is.mode # mode)

HandleBatteryState ==
  /\ Takes("status", "setBatteryState")
  /\ Becomes("status", [is EXCEPT !.battery = Head(queue.status).value], FALSE)

HandleRequestNewBase ==
  /\ Takes("status", "requestNewBase")
  /\ Becomes("status", [is EXCEPT !.newBase = 1], TRUE)

HandleErrorsAlter ==
  /\ Takes("status", "alterErrors")
  /\ Becomes("status", Altered("errors"), TRUE)

HandleErrorAdd ==
  /\ Takes("status", "addError")
  /\ Becomes("status", [is EXCEPT !.errors = @ + 1], TRUE)

HandleInfoAdd ==
  /\ Takes("status", "addInfo")
  /\ Becomes("status", [is EXCEPT !.infos = @ + 1], TRUE)

HandleInfosAlter ==
  /\ Takes("status", "alterInfos")
  /\ Becomes("status", Altered("infos"), TRUE)

\* Position, velocity and distance are only kept for the next State message.
HandleNavigationSample ==
  \E f \in {"position", "velocity", "distance"} :
    /\ Takes("navigation", f)
    /\ Becomes("navigation", [is EXCEPT ![f] = Head(queue.navigation).value], FALSE)

HandleNavigationStatusDriving ==
  /\ Takes("navigation", "driving")
  /\ LET driving == Head(queue.navigation).value
     IN Becomes("navigation", [is EXCEPT !.driving = driving], is.driving # driving)

HandleNavigationStatusNodeReached ==
  /\ Takes("navigation", "lastNode")
  /\ LET node == Head(queue.navigation).value
     IN Becomes("navigation", [is EXCEPT !.lastNode = node], is.lastNode # node)

\* The handlers of a new graph and of new actions ask for nothing.
HandleYields ==
  /\ Takes("interpreter", "order")
  /\ Becomes("interpreter", [is EXCEPT !.order = Head(queue.interpreter).value], FALSE)

HandleOrderNewLastNodeId ==
  /\ Takes("order", "lastNode")
  /\ Becomes("order", [is EXCEPT !.lastNode = Head(queue.order).value, !.distance = unset], TRUE)

HandleOrderActionStatusChanged ==
  /\ Takes("order", "action")
  /\ Becomes("order", [is EXCEPT !.action = Head(queue.order).value], TRUE)

IsPause(status) == status \in {"paused", "idle_paused", "resuming"}

\* The event is named for the status.
HandleOrderStatus ==
  \E status \in OrderStatuses :
    /\ Takes("order", status)
    /\ Becomes("order", [is EXCEPT !.status = status], IsPause(is.status) # IsPause(status))

Handlers ==
  \/ HandleGet \/ HandleLoadAdd \/ HandleLoadRemove \/ HandleLoadsAlter \/ HandleOperatingMode
  \/ HandleBatteryState \/ HandleRequestNewBase \/ HandleErrorsAlter \/ HandleErrorAdd
  \/ HandleInfoAdd \/ HandleInfosAlter \/ HandleNavigationSample
  \/ HandleNavigationStatusDriving \/ HandleNavigationStatusNodeReached
  \/ HandleYields \/ HandleOrderNewLastNodeId \/ HandleOrderActionStatusChanged
  \/ HandleOrderStatus

-----------------------------------------------------------------------------
(* InterruptableTimer: sleepFor and sleepUntil of the thread that owns it, *)
(* and how others interrupt it.                                            *)

\* Thread t goes from one place of its routine to another.
Goes(t, from, to) == thread[t].pc = from /\ thread' = [thread EXCEPT ![t].pc = to]

StopRequested(t) == t \in stop

Awake == <<held, requests, request, clock, life, report, plan>>

\* A timer that is being interrupted lets nobody sleep: k_disabled, at which the
\* visualization ends and the state update tries again.
SleepChecks(t) ==
  /\ IF timer[t].terminate
       THEN Goes(t, "enter", IF t = "visual" THEN "ended" ELSE "loop")
       ELSE Goes(t, "enter", "count")
  /\ UNCHANGED <<timer, Awake>>

SleepCounts(t) ==
  /\ Goes(t, "count", "sleep")
  /\ timer' = [timer EXCEPT ![t].waiting = @ + 1]
  /\ UNCHANGED Awake

\* The predicate decides, after a timeout too: k_interrupted, or k_ok.
SleepEnds(t) ==
  /\ thread[t].wake = 0 \/ timer[t].terminate
  /\ Goes(t, "sleep", IF timer[t].terminate THEN "interrupted" ELSE "expired")
  /\ UNCHANGED <<timer, Awake>>

SleepLeaves(t) ==
  /\ \/ Goes(t, "interrupted", "loop")
     \/ Goes(t, "expired", "due")
  /\ timer' = [timer EXCEPT ![t].waiting = @ - 1]
  /\ UNCHANGED Awake

Disabled(t) == [timer EXCEPT ![t].terminate = TRUE]
Enabled(t)  == [timer EXCEPT ![t].terminate = FALSE]
Cleared(t)  == timer[t].waiting = 0

-----------------------------------------------------------------------------
(* StateUpdateTimer.  A State message is put together by the state thread, *)
(* or by the state event thread when the instance starts.                  *)

\* No message has been put together.
Nothing == [f \in Field |-> -2]

\* A slip: A field of the status manager is forgotten in dumpTo.
DumpFieldsForgotten(who, fields) ==
  dump' = [dump EXCEPT ![who] =
             [f \in Field |-> IF f \in fields \ {"battery"} THEN Said(is)[f] ELSE @[f]]]

\* OrderManager::dumpTo, StatusManager::dumpTo and the dispatch of the message, one after
\* the other for whoever puts the message together.
DumpFields(who, fields) ==
  dump' = [dump EXCEPT ![who] = [f \in Field |-> IF f \in fields THEN Said(is)[f] ELSE @[f]]]

\* No tick has passed since the dump: what differs from the message differs since now.
Dispatch(who) ==
  /\ shown' = dump[who]
  /\ age' = [f \in Field |-> IF dump[who][f] = Nothing[f] THEN age[f] ELSE 0]
  /\ dump' = [dump EXCEPT ![who] = Nothing]
  /\ missed' = IF who = "state" /\ missed = "dumping" THEN "no" ELSE missed

\* A slip: The routine does not look at its stop token.
TimerWakesUpAlways ==
  /\ thread["state"].pc = "loop"
  /\ thread' = [thread EXCEPT !["state"] = [pc |-> "peek", wake |-> periodic]]
  /\ UNCHANGED <<timer, Awake>>

TimerWakesUp ==
  /\ IF StopRequested("state")
       THEN Goes("state", "loop", "ended")
       ELSE thread' = [thread EXCEPT !["state"] = [pc |-> "peek", wake |-> periodic]]
  /\ thread["state"].pc = "loop"
  /\ UNCHANGED <<timer, Awake>>

\* A slip: The routine sleeps until the period is over, whatever has been requested.
TimerPeeksNot ==
  /\ Goes("state", "peek", "enter")
  /\ UNCHANGED <<timer, Awake>>

TimerPeeks ==
  /\ thread["state"].pc = "peek"
  /\ thread' = [thread EXCEPT !["state"] = [pc |-> "enter", wake |-> Least(next, @.wake)]]
  /\ UNCHANGED <<timer, Awake>>

TimerDumpsOrder ==
  /\ Goes("state", "due", "status")
  /\ DumpFields("state", OrderFields)
  /\ missed' = IF missed = "no" THEN "no" ELSE "dumping"
  /\ UNCHANGED <<held, requests, timer, request, clock, life, shown, age, plan>>

TimerDumpsStatus ==
  /\ Goes("state", "status", "dispatch")
  /\ DumpFields("state", StatusFields)
  /\ UNCHANGED <<held, requests, timer, request, clock, life, shown, age, missed, plan>>

TimerDispatches ==
  /\ Goes("state", "dispatch", "sent")
  /\ Dispatch("state")
  /\ UNCHANGED <<held, requests, timer, request, clock, life, plan>>

TimerSets ==
  /\ Goes("state", "sent", "clear")
  /\ periodic' = Period
  /\ UNCHANGED <<held, requests, timer, request, next, life, report, plan>>

TimerClears ==
  /\ Goes("state", "clear", "loop")
  /\ next' = never
  /\ UNCHANGED <<held, requests, timer, request, periodic, life, report, plan>>

StateTimer ==
  \/ TimerWakesUp \/ TimerPeeks \/ SleepChecks("state") \/ SleepCounts("state")
  \/ SleepEnds("state") \/ SleepLeaves("state") \/ TimerDumpsOrder \/ TimerDumpsStatus
  \/ TimerDispatches \/ TimerSets \/ TimerClears

-----------------------------------------------------------------------------
(* StateUpdateTimer::requestUpdate in the state event thread. *)

Requesting(from, to) == request.pc = from /\ request' = [request EXCEPT !.pc = to]

\* The scoped subscriber has been reset.
Deaf == control \notin {"up", "forgets", "unsubscribes"}

\* The point in time is computed from now and from the one that is scheduled.
RequestTaken ==
  /\ request.pc = "none" /\ requests # <<>> /\ ~Deaf
  /\ request' = [pc |-> IF Head(requests) = "high" THEN "write" ELSE "order",
                 point |-> IF Head(requests) = "high" THEN Least(next, High) ELSE 0]
  /\ requests' = Tail(requests)
  /\ UNCHANGED <<held, timers, clock, life, report, plan>>

\* The scoped subscriber is gone: nobody listens.
RequestUnheard ==
  /\ request.pc = "none" /\ requests # <<>> /\ Deaf
  /\ requests' = Tail(requests)
  /\ UNCHANGED <<held, timers, request, clock, life, report, plan>>

RequestSchedules ==
  /\ Requesting("write", "disable")
  /\ next' = request.point
  /\ missed' = IF thread["state"].pc = "sleep" THEN missed ELSE "yes"
  /\ UNCHANGED <<held, requests, timers, periodic, life, dump, shown, age, plan>>

\* An immediate request sends in the state event thread.
RequestDumpsOrder ==
  /\ Requesting("order", "status")
  /\ DumpFields("request", OrderFields)
  /\ UNCHANGED <<held, requests, timers, clock, life, shown, age, missed, plan>>

RequestDumpsStatus ==
  /\ Requesting("status", "dispatch")
  /\ DumpFields("request", StatusFields)
  /\ UNCHANGED <<held, requests, timers, clock, life, shown, age, missed, plan>>

RequestDispatches ==
  /\ Requesting("dispatch", "sent")
  /\ Dispatch("request")
  /\ UNCHANGED <<held, requests, timers, clock, life, plan>>

RequestSets ==
  /\ Requesting("sent", "clear")
  /\ periodic' = Period
  /\ UNCHANGED <<held, requests, timers, next, life, report, plan>>

RequestClears ==
  /\ Requesting("clear", "disable")
  /\ next' = never
  /\ UNCHANGED <<held, requests, timers, periodic, life, report, plan>>

\* interruptAll: disable, then enable once nobody sleeps.
RequestDisables ==
  /\ Requesting("disable", "clearance")
  /\ timer' = Disabled("state")
  /\ UNCHANGED <<held, requests, thread, clock, life, report, plan>>

RequestAwaits ==
  /\ Cleared("state") /\ Requesting("clearance", "enable")
  /\ UNCHANGED <<held, requests, timers, clock, life, report, plan>>

RequestEnables ==
  /\ Requesting("enable", "none")
  /\ timer' = Enabled("state")
  /\ UNCHANGED <<held, requests, thread, clock, life, report, plan>>

StateEvents ==
  \/ RequestTaken \/ RequestUnheard \/ RequestSchedules \/ RequestDumpsOrder
  \/ RequestDumpsStatus \/ RequestDispatches \/ RequestSets \/ RequestClears
  \/ RequestDisables \/ RequestAwaits \/ RequestEnables

-----------------------------------------------------------------------------
(* VisualizationTimer *)

VisualLoops ==
  /\ IF StopRequested("visual")
       THEN Goes("visual", "loop", "ended")
       ELSE thread' = [thread EXCEPT !["visual"] = [pc |-> "enter", wake |-> VisPeriod]]
  /\ thread["visual"].pc = "loop"
  /\ UNCHANGED <<timer, Awake>>

\* A velocity that is shown is shown once: it is reset after it has been read.
VisualReads ==
  /\ Goes("visual", "due", IF is.velocity = unset THEN "loop" ELSE "reset")
  /\ UNCHANGED <<timer, Awake>>

VisualResets ==
  /\ Goes("visual", "reset", "loop")
  /\ is' = [is EXCEPT !.velocity = unset]
  /\ UNCHANGED <<timer, queue, requests, request, clock, life, report, plan>>

Visualization ==
  \/ VisualLoops \/ SleepChecks("visual") \/ SleepCounts("visual") \/ SleepEnds("visual")
  \/ SleepLeaves("visual") \/ VisualReads \/ VisualResets

-----------------------------------------------------------------------------
(* The application deinitializes the modules, and initializes them anew. *)

Controls(from, to) == control = from /\ control' = to

ForgetsLastSent ==
  /\ Controls("up", "forgets")
  /\ periodic' = 0 /\ age' = [f \in Field |-> 0]
  /\ UNCHANGED <<held, requests, timers, request, next, stop, dump, shown, missed, plan>>

ForgetsNext ==
  /\ Controls("forgets", "unsubscribes")
  /\ next' = 0
  /\ UNCHANGED <<held, requests, timers, request, periodic, stop, report, plan>>

Unsubscribes ==
  /\ Controls("unsubscribes", "stops")
  /\ UNCHANGED <<held, requests, timers, request, clock, stop, report, plan>>

\* ScopedThread::stop sets the flag and calls the callback, which disables the timer.
Stops ==
  /\ Controls("stops", "disables")
  /\ stop' = stop \cup {"state"}
  /\ UNCHANGED <<held, requests, timers, request, clock, report, plan>>

Disables ==
  /\ Controls("disables", "joins")
  /\ timer' = Disabled("state")
  /\ UNCHANGED <<held, requests, thread, request, clock, stop, report, plan>>

Joins ==
  /\ thread["state"].pc = "ended" /\ Controls("joins", "disables visual")
  /\ UNCHANGED <<held, requests, timers, request, clock, stop, report, plan>>

\* The visualization timer is disabled first, and nobody enables it.
DisablesVisual ==
  /\ Controls("disables visual", "stops visual")
  /\ timer' = Disabled("visual")
  /\ UNCHANGED <<held, requests, thread, request, clock, stop, report, plan>>

StopsVisual ==
  /\ Controls("stops visual", "joins visual")
  /\ stop' = stop \cup {"visual"}
  /\ UNCHANGED <<held, requests, timers, request, clock, report, plan>>

JoinsVisual ==
  /\ thread["visual"].pc = "ended" /\ Controls("joins visual", "down")
  /\ UNCHANGED <<held, requests, timers, request, clock, stop, report, plan>>

Deinitialize ==
  \/ ForgetsNext \/ Unsubscribes \/ Stops \/ Disables \/ Joins \/ DisablesVisual
  \/ StopsVisual \/ JoinsVisual

Fresh ==
  [f \in Field |->
     IF f = "status" THEN "idle"
     ELSE IF f \in {"velocity", "distance", "loads", "newBase"} THEN unset ELSE 0]

\* A module that the configuration leaves out has no thread.
Starting(t) == [pc |-> IF t \in plan.modules THEN "loop" ELSE "ended", wake |-> 0]

\* A new instance has new managers and new event threads and asks for a State at once;
\* the modules are the old ones: the timer of the state update stays as it was disabled,
\* and the next update is still at the epoch.
Initialize ==
  /\ Controls("down", "up") /\ request.pc = "none" /\ plan.restarts > 0
  /\ plan' = [plan EXCEPT !.restarts = @ - 1]
  /\ is' = Fresh /\ shown' = Nothing /\ age' = [f \in Field |-> 0]
  /\ queue' = [t \in EventThread |-> <<>>] /\ requests' = <<"immediate">>
  /\ thread' = [t \in Timer |-> Starting(t)] /\ stop' = {}
  /\ timer' = Enabled("visual")
  /\ periodic' = Period /\ missed' = "no"
  /\ UNCHANGED <<request, next, dump>>

-----------------------------------------------------------------------------
Resting(t) ==
  \/ thread[t].pc = "ended"
  \/ thread[t].pc = "sleep" /\ thread[t].wake > 0 /\ ~timer[t].terminate

Quiet ==
  /\ \A t \in EventThread : queue[t] = <<>>
  /\ requests = <<>> /\ request.pc = "none"
  /\ \A t \in Timer : Resting(t)
  /\ \/ control \in {"up", "down"}
     \/ control = "joins" /\ thread["state"].pc # "ended"
     \/ control = "joins visual" /\ thread["visual"].pc # "ended"

Sooner(x) == IF x > 0 THEN x - 1 ELSE x

Tick ==
  /\ Quiet
  /\ periodic' = Sooner(periodic) /\ next' = Sooner(next)
  /\ thread' = [t \in Timer |-> [thread[t] EXCEPT !.wake = Sooner(@)]]
  /\ age' = [f \in Field |->
               IF control # "up" \/ Said(is)[f] = shown[f] THEN 0 ELSE Min({age[f] + 1, Period + 1})]
  /\ UNCHANGED <<held, requests, timer, request, life, dump, shown, missed, plan>>

Init ==
  /\ plan \in Plans
  /\ is = Fresh
  /\ queue = [t \in EventThread |-> <<>>] /\ requests = <<"immediate">>
  /\ timer = [t \in Timer |-> [terminate |-> FALSE, waiting |-> 0]]
  /\ thread = [t \in Timer |-> Starting(t)]
  /\ request = [pc |-> "none", point |-> 0]
  /\ periodic = Period /\ next = never
  /\ control = "up" /\ stop = {}
  /\ dump = [w \in {"state", "request"} |-> Nothing]
  /\ shown = Nothing /\ age = [f \in Field |-> 0] /\ missed = "no"

Next ==
  \/ Call
  \/ Handlers \/ StateTimer \/ StateEvents \/ Visualization
  \/ ForgetsLastSent \/ Deinitialize \/ Initialize \/ Tick

\* Each thread runs, and time passes; nobody has to call, deinitialize or initialize.
Spec ==
  /\ Init /\ [][Next]_vars
  /\ WF_vars(Handlers) /\ WF_vars(StateTimer) /\ WF_vars(StateEvents)
  /\ WF_vars(Visualization) /\ WF_vars(Deinitialize) /\ WF_vars(Tick)

-----------------------------------------------------------------------------
Urgent == Field \ (Sampled \cup {"order"})

\* docs/configuration.md:220 max_update_period_ms: whatever changes, the master control
\* has read it in a State message after that period at the latest.
ReportedInPeriod == control = "up" => \A f \in Field : age[f] <= Period

\* state_update_urgency.h:22 high: what requests an update is in a State message 100 ms
\* later, if every request since the last message has found the timer asleep.
UrgentInTime == control = "up" /\ missed = "no" => \A f \in Urgent : age[f] <= High

\* Deinitializing ends: the threads are joined, whatever they were doing.
ShutdownEnds == control # "up" ~> control = "down"
=============================================================================
