# libvda5050++ in TLA+

libvda5050++ is the AGV side of the VDA 5050 interface: a master control sends
orders and instant actions over MQTT, the library turns them into calls of the
user's action and navigation handlers and reports the progress as state
messages.  This directory holds TLA+ modules of its core, the TLC runs that
check them and the theorems proved about them with TLAPS.

## The system

| Component (source) | State it keeps | Operations | Interacts with |
|---|---|---|---|
| Action task, navigation task (`core/order/*_task.cpp`) | one of ten / nine states | `do*` transitions by the scheduler, `is*` transitions by reports | dispatch commands to the AGV handlers on entering a state |
| Scheduler (`core/order/scheduler.cpp`) | state object, queue and staging queue of yields, queue of instant groups, maps of active / running / paused / interrupting tasks, navigation task, segment | `enqueue`, `commitQueue`, `enqueueInterruptActions`, `cancel`, `pause`, `resume`, `actionTransition`, `navigationTransition` | publishes `OrderStatus` events |
| Order event handler (`core/order/order_event_handler.cpp`) | none | one handler per interpreter event and report | calls the scheduler from three threads |
| Interpreter (`core/interpreter`) | iterator over the order, active control blocks | turns an order into yields, an instant actions message into one group and control blocks | fills the interpreter event queue |
| Event control blocks (`core/events`) | enabled flags, subscriptions | chain, alternative, function, latch | wait for `OrderStatus` events to finish a cancel, pause or resume |
| Order manager, graph, status manager (`core/state`) | order id, graph, action states, order status | extend, replace, trim, clear, dump | fed by order events, read by validation and by state messages |
| State event handler, timers (`core/state`) | deadlines, urgency | request, reset, expire | builds and sends state messages |
| Checks and validation (`core/checks`, `core/validation`) | none | accept or refuse a message | read the order manager, ask the AGV through synchronized events |
| AGV handler bindings (`core/agv_handler`) | map of handled actions | validate, prepare, start, pause, resume, cancel, forget | call the user's code, return its reports |
| Event managers (`generic_event_manager.h`) | one queue and one thread each | dispatch, synchronous dispatch | every component |
| Messages and MQTT (`core/messages`) | header ids, connection | connect, disconnect, receive, send | an external MQTT client, from three threads |
| Instance (`core/instance.cpp`) | registered modules | initialize, start, stop, reset | initializes and deinitializes every module |
| Blocking queue, semaphore (`core/common`) | queue, counter | push, pop, with and without a time limit | used by tests only |
| Factsheet, configuration, logging, observers, sinks | plain values, counters | gather, wrap | - |

What is hard to test here: three threads drive one scheduler; a control or a
report can come in any of its nine states; an operation may throw after it has
moved half of the tasks; commands and reports cross; validation decides on a
status that lags behind the scheduler; a latch waits for an event that may have
passed; a request meets a timer that is just waking up; a connection is lost
while somebody sends; an action is stored, refused, sent again and forgotten by
different threads; and an event manager's thread ends at the first exception it
catches.  `PROJECT.json` lists each hazard at the line where it bites.

## Modules

| Module | Content |
|---|---|
| `ActionTask`, `NavigationTask` | the state machines of the two tasks as tables: accepted transitions per state, target per transition |
| `SchedulerOps` | every operation of the scheduler as an operator from the scheduler before the call to the scheduler after it |
| `Scheduler` | the scheduler and its callers as a specification, with its invariants and action properties |
| `OrderExecution` | the scheduler with validation, the event queues and their threads, the order manager's copy of the status, and an AGV; it implements `Scheduler` |
| `ControlBlocks` | the control instant actions: validation, chains of blocks, latches on status events, over `SchedulerOps` |
| `Interpreter` | the state machine that turns the messages of an order into yields, one action per handler |
| `OrderMeaning` | what an order means, said without an iterator, and the properties that compare the two |
| `Graph` | the graph of an order: build, extend, trim, bounds, goal, dump |
| `OrderState` | checks of an order, order manager, state event handler and node detection, shared by four threads |
| `StateUpdates` | status manager, both timers, the InterruptableTimer, shutdown and restart, in time |
| `ActionChecks` | how an action is checked against its declaration |
| `ActionHandling` | validation of messages and the store of handled actions, up to the callbacks of the AGV |
| `Connection` | MQTT module, message events, instance and a message observer |
| `BlockingQueue` | the queue and its semaphore, lock by lock |
| `MC...` | the small instances for TLC |
| `SchedulerLemmas`, `SchedulerProofs`, `OrderExecutionProofs`, `ControlBlocksProofs`, `OrderStateProofs`, `ActionHandlingProofs`, `StateUpdatesProofs`, `DeliveryProofs` | the proofs; `DeliveryProofs` has those of `Interpreter`, of `BlockingQueue` and of `Connection` |

The specifications overlap in the scheduler.  `Scheduler` has it with the most
general callers; `OrderExecution` has the callers the library has and implements
`Scheduler`; `ControlBlocks` uses the same `SchedulerOps` with orders of one
group; `OrderState`, `StateUpdates` and `ActionHandling`, which are about what is
on either side of it, have only what it promises.  One module of everything
would be out of TLC's reach and would not answer more questions: what crosses a
border is an event, and each module lets the other side send it at any time.

A definition named "a slip" in a comment is a variant of the definition that
follows it, a mistake a programmer could have made there; the property it
breaks is named in `PROJECT.json`.

### How SchedulerOps corresponds to the code

The fields of the record `sch` are the members of `Scheduler`, named in
comments.  The public operations hold `access_mutex_` from begin to end, so a
call is one step.  A task object is its state; the maps from ids to shared
pointers are sets of actions, and `IdRank` is the order in which `std::map`
iterates over them, which decides which tasks have moved when one refuses.

An exception in C++ unwinds the call and nothing restores what it changed.  So
`Throw` only sets `thrown`, and every operator that continues after a callee
first asks whether it threw.  A state object replaces itself by returning the
next one; `Enter` and `Notify` model the constructors without and with the
`OrderStatus` event.  `Update` is `SchedulerState::update` with the loop of
`Scheduler::update` unrolled into calls of the next state's operator.

`SchedulerFailed` is not modelled: nothing constructs it.

A group of an order carries the ceiling the interpreter gave it, which may be
stronger than its actions (see below).

### How Scheduler corresponds to the code

`Scheduler` gives the class its most general caller.  `received` and `pending`
are the orders the interpreter turned into yields and the events of them not
handled yet; only their order within an order is kept.  Controls, instant
actions and reports come in every state: validation, which would hold back some
controls, reads a status that can be out of date, and the AGV's handlers are the
user's code.  Every action of `Next` is one handler of `OrderEventHandler`.
What it relies on about the callers are four assumptions on the constants:
`OrdersAssumption` (types), `UniqueIdsAssumption` and `NumberingAssumption` (no
action id and no sequence id comes twice, which `checks/action.cpp` and
`checks/order.cpp` see to, and a message lists its nodes by sequence id, which no
check does and the protocol asks of the sender), and `CeilingAssumption` (a group
whose ceiling is NONE has only NONE actions, proved of the interpreter as
`YieldedGroupsAreSound`).  The goals of a later order are numbered on from those
of the order before, and no action id comes again in it: the code allows both
to start over once the scheduler is idle, when nothing of the order before is
left in it (`IdleIsEmpty`).  Groups of instant actions may be: one that is refused
(`scheduler.cpp:78` and its like in other states) has been queued already (`:801`)
and stays until a cancel clears the queues or the next instant actions message that
is not refused starts it.

### How OrderExecution corresponds to the code

`OrderExecution` puts the callers of the scheduler in place of the general one.
Every queue of events is a sequence, served from its head by one action per
handler, as `GenericEventManager::threadTask` does with its one thread:

| Queue | Thread of | Actions |
|---|---|---|
| (from MQTT) | message events | `ValidateOrder`, `ValidateInstants`, `ValidateControl` |
| `accepted` | message events | `InterpretOrder`, `InterpretInstantActions` |
| `inbox` | interpreter events | `EnqueueYield`, `SetGraph`, `CommitOrder`, `InstantActions`, `OrderControl`, `DeclineControl` |
| `statuses` | order events | `HandleStatus` |
| `reports[a]`, `nreports` | action status, navigation status events | `ActionStatus`, `NavigationStatus` |
| `agv.cmds[a]`, `agv.ncmds` | action and navigation events | the AGV's actions |

A message is validated in one step and interpreted in a later one, because a
message that passes is queued again (`message_event_handler.cpp:64`).  What
validation reads, `known` and `order`, is what the order manager was told, not
what the scheduler is.  `alive` becomes false when `handleOrderControl` or
`handleGraphExtensionEvent` throws: the event loop catches the exception outside
of the loop and ends (`generic_event_manager.h:53`).  The handlers of reports
and yields catch what the scheduler throws.

`order.graph` is the number of the order or update the graph ends with, so that
an update can be appended exactly when it is its predecessor.  When a goal is
reached, the node is recorded in the graph; if the graph was cleared the
recording throws and `Scheduler::update` is skipped (`ReachUnrecorded`), and if
it was replaced by another order's, either happens, as that order may or may not
have a node of the same number.

The AGV (`external` in `PROJECT.json`) does what `docs/api.md` asks of handlers:
it starts, pauses, resumes and cancels when told and reports it; it may end or
fail any work, and it may pause by itself.  It is a subscriber of the action and
navigation events; the store the library's own `ActionEventHandler` keeps
between validation and start is modelled by `ActionHandling`.

Left to other modules: the table of action states (`OrderState`), the chains of
the control blocks other than the latch that clears the order after a cancel,
which is taken to be enabled in the step that dispatches the cancel
(`ControlBlocks`), refused and repeated messages (`OrderState`,
`ActionHandling`).

`DistinctIdsAssumption` says that no instant actions message shares an action with
another message.  Validation turns away an id that the order manager knows; that two
messages which both wait to be handled do not share one is left to the master
control, as the protocol asks for unique ids.  `NumberingAssumption` is that of
`Scheduler`.

The refinement mapping of `ImplementsScheduler` takes as `published` the last
status sent, as `pending` the yields still in the interpreter queue, and as
`issued` the groups handled.  Every step of a thread is then one action of
`Scheduler` or a stutter, on the instance of `relay` and, proved, on every other.

### How Interpreter corresponds to the code

`it` is the `EventIter`: positions for its iterators, `rest` for the actions
between `action_iter_` and `action_end_`, the set of its elements for the graph
it collects.  `nextEvent` dispatches on the state and a handler either calls it
again (`Proceed`), returns an event (`Return`) or throws (`Throw`); each of the
twelve handlers is an action, and `HandleDone` is the end of the loop of
`handleValidOrder` with the iterator of the next message.  `yields` keeps what
was dispatched, so that the properties can compare it with `Program`, the
drives and groups an order stands for.

`current_action_group_blocking_type_` has no initial value (`functional.h:86`),
and the first action of a message is joined to a group with what the memory
holds.  `FromOrder` therefore takes any ceiling; a value that is none of the
three is treated as NONE by the switch.  So the ceiling of the first group of a
message can be too strong, never too weak: `GroupsAreSound` states that.

Taken for granted is what the checks of a message ensure (`checks/order.cpp`):
nodes and edges are sorted, alternate and begin with a node.  They let a base
or a whole that ends in an edge pass, so those messages are in the model, and
the interpreter throws in their middle, after it has announced and maybe
yielded actions.  An update of a single node is left out: its actions would be
announced a second time, which the order manager refuses
(`order_manager.cpp:29`).

An update repeats the node it goes on from.  If an edge behind it has a
blocking action, the stop hint of that node is set too late, as the drive to it
was yielded with the message before (`functional.cpp:444`); `CutsDoNotMatter`
therefore allows that one hint to differ.

### How ControlBlocks corresponds to the code

The message event thread validates a control against the order status
(`ValidateAction`), adds its action state and puts together the blocks of
`control_instant_actions.cpp` (`Steps`): a step of `enabling` is one call the
thread makes while it enables the first block of the chain, so the interpreter
event thread may handle the control between its dispatch and the subscription of
the latches.  `Blocks` are the latches themselves, alternatives of chains;
`Notice` is what an `OrderStatus` event does to all that are subscribed.
The interpreter event thread calls `SchedulerOps`, and a control the scheduler
refuses ends it (`order_event_handler.cpp:231`), while a pause the AGV declines
fails and keeps its latches (`:227`).

`Patient` makes the master control wait until its last message has been worked
off.  The library does not ask for that, but two controls, or an order and a
control, that are validated against the same status end the interpreter event
thread, so little could be said of the rest.  `excused` keeps what went wrong
with a control although it did wait; see `NothingHangs` below.

### How Graph and OrderState correspond to the code

A graph is a function from sequence ids to whether they are released, and the
node of the AGV; merging and trimming of maps become operations on its domain.
`OrderState` runs it with the threads that share the order manager.  The checks
are the code's, against the order manager as it is when the message event thread
comes to them; `handleGraphReplacementEvent`, `handleGraphExtensionEvent` and
`handleClearActions` are what the interpreter event thread does to graph and
action states, including the exceptions that end it; `handleOrderStatus` fails
what a cancel drops; `evalPosition` and `handleNavigationStatusPosition` are the
AGV's position and the node it stands on.  The scheduler appears by what
`Scheduler` promises: goals in order, tasks begun and ended, and the statuses
active, canceling and idle.

### How StateUpdates corresponds to the code

A field of a State message is a number; `shown` is what the last message
dispatched said of it and `age` the ticks for which it has been wrong.  The
`InterruptableTimer` is modelled lock by lock (`SleepChecks`, `SleepCounts`,
`SleepEnds`, `SleepLeaves` against `RequestDisables`, `RequestAwaits`,
`RequestEnables`), and so is the reading and sending of a message, because the
order manager and the status manager are dumped one after the other.  Time
passes only while every thread waits: the delays in question, 100 ms and more,
are long against what a thread does.  `missed` notes that a request met a timer
that was awake.

A plan says which calls come and in which order, of any kind and number
(`PlansAssumption`).  One thing the scheduler promises matters here: it enters
`idle_paused` from `idle` and leaves it for `idle` alone
(`order/scheduler.cpp:34`, `:73`), and announces each (`MayFollow`).

### How ActionChecks and ActionHandling correspond to the code

`ActionChecks` is `validateActionWithDeclaration` over texts that read as an
integer, a number or a truth value.  The code walks the parameters and takes the
range of each out of two maps; a parameter therefore extracts the range of its
key unless an earlier one has the same key (`Extracts`), and that is how it is
said, for all parameters at once.  In `ActionHandling`
a message is validated action by action (`ValidateAction`), for an order on the
validation event thread while the message event thread waits for it.  `store`
is `handled_actions_`; the interpreter and the scheduler then dispatch prepare,
start, pause, resume, cancel and forget in any order the `ActionTask` allows.
The AGV's code may throw or be slow `MaxFaults` times.

### How Connection corresponds to the code

The control event thread connects and disconnects, the thread of the MQTT client
calls back, the message event thread sends; each of their steps ends where
another thread may come between, at a publication, a dispatched event or a
change of `state_`.  The broker keeps a session and the retained connection
message and publishes the last will when it notices that the client is gone.
`dead` is the end of the process by an exception nothing catches.

### How BlockingQueue corresponds to the code

The mutex of the queue guards single steps; the mutex of the semaphore is
explicit, as `try_acquire` gives up when it is taken.  `asleep` is a wait on the
condition variable: a notification, a spurious wake-up or, in the calls with a
time limit, the end of the time lead back to the mutex.

## Runs

| Run | Instance | What it shows |
|---|---|---|
| `mission` | `Scheduler`: a NONE and a SOFT order action, four nodes with a stop, an order update, a NONE and a HARD instant action | the maps are consistent, idle leaves nothing of an order, the status is published, segments end at stops, blocking actions start at standstill, nothing starts while paused, HARD actions are alone |
| `errand` | `OrderExecution`: a stop, a step beside a NONE action, a SOFT instant action, two controls of any type | the AGV never works on anything the scheduler has ended or forgotten, and stands while it works on the SOFT action |
| `relay` | `OrderExecution`: an order, its update, the next order; one cancel; the AGV pauses once by itself | `known` catches up, goals come in order, every accepted order ends, the execution implements `Scheduler` |
| `interpreter` | four actions (HARD, SOFT, two NONE) in every order on three nodes and two edges; nine ways to release and send them in one to three messages, four of which end in an edge | the yields are what the order means, cut or not; iterators stay in range, groups are sound; only messages that end in an edge end the thread |
| `control_blocks` | `ControlBlocks`: three controls of any type, two orders of one action | what is reported FINISHED was done and stays so, a pause lasts, no control ends the interpreter event thread, and none hangs but in three named ways |
| `order_state` | `OrderState`: an order with a horizon, its update, the next order, and five messages that are refused or refused too late; an instant action, a cancel; two orders are sent | the graph stays one, the AGV is told of its base once and without gaps, waiting actions and node states are what the scheduler has left, and only a report of a cleared action ends the order event thread |
| `state_updates` | `StateUpdates`: a period of three ticks, every kind of call alone and some in pairs, up to one restart | a change is in a State message after the period, an urgent one after its delay if its request found the timer asleep, a shutdown ends |
| `actions` | `ActionHandling`: two of sixteen messages, two ids, two handlers, one fault | only declared actions with all required parameters run and are accepted, no message ends a thread while ids are used once and the AGV throws nothing, the AGV follows the scheduler |
| `connection` | `Connection`: two events (sent, received or gone wrong), two lives, with and without the MQTT module; the first shutdown comes in a quiet moment, the second at any | while shutdowns are quiet observers and broker know the truth; header ids of one topic, filled by two threads at once, go down only where `connected` and `disconnect` cross, and only so far; a lost connection comes back, a shutdown ends |
| `blocking_queue` | `BlockingQueue`: four threads, two elements | every element is counted once, nobody sleeps for ever beside an element |
| `claim_NoDrivingWhileBlocked` | `OrderExecution`: a SOFT action before a drive and a NONE instant action | finds the AGV sent on while the SOFT action runs |
| `claim_InstantActionsAreKept` | the instance of `actions` | finds a valid instant action whose handler is never called |

### Bounds

In `Scheduler` only the orders and instant groups are bounded: controls and
reports may occur any number of times.  Three actions are enough to have one
task that moved, one that refuses and one that is interrupted; two orders to
have something left over from the first.  In `OrderExecution` the queues make
two more bounds necessary: `MaxControls` (at most two: one to cross the reports,
one to cross the first) and `MaxHalts` (the AGV pauses once by itself).

In `interpreter` three nodes and two edges are the first node, one behind which
the order goes on, and the last, so every cut at a node, a horizon and a stitch
occurs; four actions make groups of any mixture, next to each other on one
element or on neighbouring ones.

`control_blocks`: three controls are a control, one that finds its blocks still
there and one after that; one order to interrupt and one to come after a cancel.
`order_state`: two of eight orders are an order and whatever may follow it; the
third that `MaxSends` = 1 rules out is a duplicate. `state_updates`: two calls are
one that requests and one that comes while that request is worked off; a longer
period only repeats ticks in which nothing happens. `actions`: the second message
finds what the first left behind, the fault meets either. `connection`: the second
life (`MaxRuns` = 2) finds what the first left at the broker and may be shut down in
the middle of any callback (`QuietRuns` = 1); two events are a loss and one thing
that meets it. `blocking_queue`: two pops can sleep while two pushes release, which
is where a notification can go astray.

All runs but `mission` and `blocking_queue` set `CHECK_DEADLOCK FALSE`: the
system stops when every message has been worked off and no other comes, or, in
`Connection`, when the last life or the process has ended.

### Fairness

`OrderExecution`: every thread that has not ended serves its queue, which the
loop of `threadTask` does as long as the instance runs, and the AGV does what it
was told, ends what it has begun and goes on after pausing by itself, which
`docs/api.md` asks of handlers.  There is one condition per queue: each queue
has a thread of its own, and serving one queue never disables the service of
another.  No message has to come and no pause of the AGV has to happen.

`Interpreter`: weak fairness of `InterpreterNext`, it is one loop of one thread.
`StateUpdates`: every thread runs and time passes; nobody has to call or to restart.
`Connection`: every thread runs, a broker that is tried again and again accepts, and
it notices a client that is gone; in the first `QuietRuns` lives (`Quiet`) the
application calls shutdown while no callback is due, and the network stays as it is
until the shutdown is over (below). `BlockingQueue`: a thread inside a call goes on;
no wait has to wake up by itself or to time out. `OrderState`, `ControlBlocks` and
`ActionHandling` check safety alone; `NothingHangs`, `StateIsWhatIsLeft` and
`AgvFollows` say instead what the system is like when nothing is left to do.

### What the properties excuse, and why

`OrdersEnd` is about the executions in which the interpreter event thread does
not end and no update is skipped.  Both happen in `relay`: a cancel clears the
graph of an update that was accepted (`order_manager.cpp:125` throws, and
nothing catches it), and an order that is accepted before the one ahead of it
ends replaces the graph its drive is recorded in.  It is not checked with a
pause, which nobody has to end, nor with an instant action that interrupts a
drive, where it fails: when the navigation fails while the scheduler interrupts
it, `SchedulerInterrupting::update` finds nothing to start and returns to active
without an update (`scheduler.cpp:351`).  No report is left to come, and the
order stays active for ever.

`BlockingWorkStands` is checked with an AGV that does not pause by itself.  One
that does is taken for an AGV that stands (`scheduler.cpp:649`), a SOFT action is
started, and nothing keeps the AGV from driving on.

`NothingHangs` excuses a control whose latches were subscribed after the status
they wait for (`control_instant_actions.cpp:124`), a cancel of an order that is
idle and paused, which is noticed only on a resume (`scheduler.cpp:65`), and a
cancel of a paused order whose actions have all failed, which nothing updates
again (`scheduler.cpp:269`).  It also presupposes that the message event thread
(`gather.cpp:68` ends it when the factsheet is gathered too slowly) and the order
event thread (`state_event_handler.cpp:98` ends it when a control reports for a
state an order has cleared) still run.

`UrgentInTime` excuses requests that met an awake timer.  One that comes between
the dump of a message and `next_scheduled_update_.reset()` is lost
(`state_update_timer.cpp:51`), one that comes before the thread is counted as
waiting does not wake it (`interruptable_timer.h:122`); the change is reported
when the period is over (`ReportedInPeriod`).

`ThreadsLive` and `AgvFollows` are about ids used once.  A refused message leaves
the stores of its valid actions behind (`action_event_handler.cpp:85`).  An
instant action with the same id then runs with the handler and the parameters of
the refused order, and a store that is replaced while its action runs has no
callbacks, so the next pause or cancel throws and ends the action event thread.

`Quiet` in `Connection`, which `ObserversKnow` and `RetainedIsTrue` are about: in a
life that is not quiet, a connection that is lost before `connection_lost` was
called makes whatever is sent throw a `mqtt::exception`, which nothing catches, so
that the process ends; and a shutdown that begins while `connected` runs may
disconnect first and announce ONLINE after that (`mqtt_module.cpp:129`, `:217`).
`HeadersIncrease`, `ComesBack` and `ShutdownEnds` are about every life. Header ids
may go down in one that is not quiet: `connected` fills k (`mqtt_module.cpp:136`),
`disconnect` fills k + 1 (`:221`) and publishes OFFLINE, and `connected` publishes
ONLINE with k. As `connection_seq_id_++` (`:25`) reads and writes a counter that
nothing guards, both may also bear the same id, or one undo the other's counting.
`HeadersIncrease` therefore excuses the connection topic from the moment
`disconnect` has read its id in a shutdown that is not quiet, and bounds what may be
sent then: nothing lower than one below that id. On the other topics, which one
thread fills, ids always count up.

## Disagreements with what is written

The two runs `claim_*` each break one sentence; `PROJECT.json` quotes it.  Met on
the way, without a run of their own:

- a report of the AGV that crosses a pause is refused and never repeated
  (`action_task.cpp:169`; `docs/api.md:129` has the handler just report);
- a cancel does not tell a paused drive to stop (`scheduler.cpp:101`;
  `docs/api.md:226`);
- a control that was validated against an older status throws in the interpreter
  event thread and ends it (`order_event_handler.cpp:231`), and two orders
  validated against the same idle status are both accepted
  (`checks/order.cpp:155`);
- the ceiling of the first group of a message is read uninitialised
  (`functional.h:86`);
- an order without a released node, or an extension whose first node is not
  released, passes the checks and ends the interpreter event thread
  (`graph.cpp:194`); so does an order that ends in an edge, and an update whose
  order was cleared by a cancel (`order_manager.cpp:125`);
- all instant actions of a message are started together, a HARD one beside the
  others (`interpreter_event_handler.cpp:43`);
- a running action that is paused by the AGV stays running for the scheduler
  (`action_task.cpp:145`), and an order whose drive the AGV paused cannot be
  paused (`scheduler.cpp:115`);
- the steps up to the next stop outlive a cancel, and an AGV that stands is sent
  to drive them (`scheduler.cpp:168`);
- an instant actions message that comes while the scheduler is paused, idle or not,
  is refused (`scheduler.cpp:78`, `:287`) but stays queued (`:801`); when the order
  goes on nothing starts it, until the next instant actions message that is not
  refused starts it first and its own group after it;
- a declined pause keeps its latches, so that a later pause makes the failed one
  RUNNING and FINISHED (`order_event_handler.cpp:227`);
- a State message says paused for `resuming` but not for `idle_paused`
  (`order_manager.cpp:219`, unlike `state_event_handler.cpp:115`);
- the first connection attempt is never repeated when it fails
  (`mqtt_module.cpp:110`), and the State requested by `start()` is usually dropped,
  as the connection is not there yet (`instance.cpp:309`);
- a shutdown leaves the retained connection message OFFLINE only when the module
  is online at that moment (`mqtt_module.cpp:217`);
- the message observer counts messages as sent that were dropped
  (`message_observer.cpp:40`);
- numbers with something behind them pass as a float but not as an integer
  (`action_parameter_view.cpp`);
- `BlockingQueue::try_pop` may return nothing although there is an element, when
  another thread is inside the semaphore (`semaphore.h:83`), and a queue that was
  moved from keeps its counter, so that a pop reads the front of an empty deque
  (`blocking_queue.h:60`).

## Proofs

Thirty-three theorems, each for every value of the constants; `PROJECT.json` lists
them with the property of a run they state.  Every inductive invariant was
checked by TLC on the instances above before it was proved.

### Scheduler

The theorems of `SchedulerProofs` hold for every set of actions, assignment of
blocking types, order of ids, list of orders and set of instant groups, under
`BlockingAssumption`, `RankAssumption`, `OrdersAssumption` and
`UniqueIdsAssumption`; those about what starts under `NumberingAssumption` and
`CeilingAssumption` too.  Between them they cover every property the run
`mission` checks.

`TypeOK` is not inductive together with the partition of the maps alone.  A
started group overwrites the state of its tasks, so it has to be known that no
action of a group that is still to start is active (`Sound`): actions of instant
groups because each is sent once, actions of orders because a group is started
only when no action is active.  Leaving for idle empties the maps only because
the update that precedes it has moved ended tasks out of all of them
(`Emptied`).  `Inv` is the conjunction of `TypeOK`, `Sound`, `Emptied`, of the
equality of `published` and the state, and of the shape of `pending`.
`SchedulerLemmas` proves of the operators what they keep: first of the helpers
(`Chosen`, `FreeSteps`, `MoveActions`, ...), then the soundness of the maps, then
the status and the emptiness of idle.  `SchedulerProofs` goes from the operators
to the actions and the theorems.

`SegmentsEndAtStops` and the three action properties (`HardExcludesOthers`,
`BlockingActionsStartStanding`, `PausedStartsNothing`) depend on what is still to
come: a segment ends at the first stop only if the steps come with rising goals,
and nothing that starts may be in progress already, or the step would not count
as a start.  So `SafetyInv` adds to `Inv` that the queue, the staging area, the
pending events and the orders not received are in line, one behind the other,
behind the segment and apart from the active actions (`Lined`,
`PendingOrdered`).  Most operators add nothing to any map or queue (`Leaves`) and
keep that; what the others start is described once, by `Starts`, between the
scheduler a call begins with and the one it leaves (`Fine`, one lemma per
operation).  The argument for a HARD action is that `FetchGroup` runs with no
active action and that an instant group starts only when neither its ceiling nor
an active action is HARD, or none is active; for a SOFT one, that the navigation
was paused or ended before; for pausing, that `Update` fetches nothing in the
three states that rest.

### OrderExecution implements Scheduler

`SchedulerIsUsedAsAllowed` is `Spec => ImplementsScheduler`, for any orders,
instant actions, controls, reports of the AGV and lengths of the queues: what is
proved of `Scheduler` from the assumptions both modules have is true of the
scheduler inside the library, whatever its threads do.  The general caller of
`Scheduler` takes an order only after the one before it and a group of instant
actions only once, and the proof is about why the queues see to that.  Its
invariant `LineInv` adds to the types that the orders accepted and not
interpreted wait in the order they were sent in, none missing (`OrdersInLine`),
and that a group of instant actions is in one place (`GroupsOnce`); validation,
which queues a message a second time, moves it and does not copy it.  The steps
that remain are about the mapping: what a thread appends to the queue of
interpreter events is appended to `pending` (`PendingAppend`, `PendingConcat`),
what it takes from its head is what `Scheduler` takes from the yields of that
order, and the calls behind it are the same operators (`SameEnqueue`,
`SameReportNav`, ...).  `TypesHold` types the queues, the copies and the AGV.

### OrderExecution forgets nothing

`NothingIsForgotten` is `Spec => []NothingForgotten` for the same constants, and
however often the AGV halts.  Two things could break it: a command to begin some
work that comes after the task of that work has been ended or forgotten, and a
report of the end of one piece of work that ends the next.  `ExecInv` carries what
`Scheduler` is sound by (`Sound`, `Emptied`) to the scheduler behind its queues,
where an action is handed over once because its group is (`GroupsOnce`) and no
other message holds it (`DistinctIdsAssumption`).  From that, `Keeps` bounds what a
call may do, with one lemma per operator of `SchedulerOps`: it ends no task, and it
begins only what has ended or was never there.  Tasks end by reports alone, so
`AgvInv` adds to `ExecInv` what is on its way between the scheduler and the AGV: of
the command to begin some work, the work itself and the report of its end there is
at most one at a time, and none without a task that goes on (`Linked`).  Actions
and navigation differ in their words only (`ForAction`, `ForNav`), so the lemmas
about a command given, obeyed, worked on, reported and heard are proved once
(`CallLinked`, `StartLinked`, `WorkLinked`, `EndLinked`, `HeardLinked`).

### OrderExecution tells goals in order

`GoalsAreInOrder` is `Spec => GoalsInOrder`: the AGV is told of a new goal only if it
lies behind the one it has, under `NumberingAssumption` too, which `OrderExecution`
states of its orders as `Scheduler` does of its own.  The difficulty is that a goal is
known in four places, the scheduler, the command queue, the AGV, and what is still
to come in three more, the scheduler's two queues, the interpreter event queue and
the orders not interpreted, and each of them moves in a thread of its own.
`GoalInv` puts all that is known before all that is still to come, and what is
still to come in line: the queue before the staging area (`Queues`), both before
the events that have arrived, and those before the orders that are coming
(`ArrivedInOrder`).  Of a call of the scheduler only one thing matters
(`Advances`): nothing new waits after it, and the goal is the old one, none, or
that of a step that waited and lies before all that waits now.  This is transitive,
so the lemmas `UpdateForward`, `CancelForward`, `PauseForward` and so on go through
each operation operator by operator, and `CallGoals` concludes from it what the
AGV is told.  Only `EnqueueYield` adds to what waits, and only the front of
the event queue (`EnqueueForward`, `InboxTaken`).

### Interpreter

`DeliveryProofs` proves of all orders, cut into messages in any way, that the
iterators stay in range (`IteratorsStayInRange`) and that the groups are sound
(`YieldedGroupsAreSound`), under `BlockingAssumption` and
`DeliveriesAssumption`.  `GroupsAreSound` is about what was yielded, so its
invariant follows a group back to where it is collected (`Collects`): the
ceiling covers the group so far, the groups that wait are sound, and once a HARD
action has joined, the state is one that queues the group before anything else
can join.  `Fits` says for each state which iterator points to something.

### ControlBlocks

`ControlBlocksProofs` proves all four properties of the run `control_blocks` for every
set of actions and blocking types, all orders and any number of controls, under
`ControlsAssumption` and a master control that is `Patient`; without that
two controls may be validated against one status, and none of the four holds.

`ControlInv` (`ControlsAreTracked`) follows the one message that is under way
through three threads: `OneAtATime` says in which queue it is and how far its
block is enabled, `Progress` what is known of its control by then.  The scheduler is
known by its state alone (`Orderly`): the lemmas of the first part of the module show
of each operation of `SchedulerOps` from which state it goes to which, with which
announcements, when all segments are groups of actions.  `Path` is
the status the order event thread has, followed by all it is still to hear, and ends
in the scheduler's state.  That a control which was found feasible in an old status
is still allowed when the interpreter event thread calls the scheduler is
`StaysFeasible`.  While a message waits for its validation only the AGV moves the
scheduler, so the path goes forward only, from pausing to paused, resuming to
active, active or canceling to idle (`Ripe`).  All of it is feasible if its first
status is (`FeasibleRipens`).

`PausesLast` is inductive beside `ControlInv`: after a pause nothing but the orders
and the AGV is left to call the scheduler.  For `FinishedMeansDone`, `LatchForm` and
`SeenForm` say what a latch may await and that a control has seen whatever is still to
be announced of it, and `Heard` is the invariant of one announcement: what the first
`i` latches in the order of their subscription have made of states and latches, while
some of them tear down others.

`NothingEverHangs` needs what no single state shows, that something still moves for each
control that has not ended.  `HangInv` says it of every control that was found
feasible and is not excused (`Attended`): the latches it needs are subscribed, or the
message event thread is going to subscribe them (`Awaiting`), and once the scheduler has
been told of it, what the first of them awaits is announced already, or the
scheduler is in a state which the reports of the AGV end with that announcement
(`Due`, `Coming`).  A latch that has turned a control RUNNING awaits the end of what
has begun; `Stepwise` says that this end is announced before anything else.  When
all queues are empty there is nothing announced, and `BusyIsAnswered` shows that the
AGV still has to answer to a scheduler that is not at rest, so that no control is left
(`HangInvSuffices`).  The three exceptions of the property are where the induction
fails without them: an announcement that passes between dispatch and subscription, a
cancel that announces nothing, and a cancel whose scheduler has nothing that reports.

### OrderState

`OrderStateProofs` proves `GraphIsWellFormed`, `BaseIsAnnouncedOnce` and
`OnlyAClearedActionEndsTheThread` for all finite messages, any number of orders,
repetitions and cancels, and a master control that waits or does not
(`MessagesAssumption`), and `WhatIsLeftIsTold` for one that waits (`Patient`).

What a message may be comes from the checks.  Message by message they count ids
(`Cardinality(base) + Cardinality(horz)` is the length of the interval), and
`WholeShape` concludes that the ids are an interval `a..l` with the base `a..b` at
its front: a set of naturals that has as many elements as the interval between its
bounds is the interval (`IntervalBounds`), and a base whose greatest id is below the
horizon's least is an interval itself.  A graph is then described by three numbers:
`Standing(g, a, b, l)` says that it is on `a..l`, released up to `b`, with the AGV on
`a` and a node at `b`.  Building, extending and trimming keep that shape
(`NewStands`, `ExtendStands`, `TrimStands`), and the five parts of `GraphWellFormed`
follow from it (`StandingFacts`).

The checks read the order manager before the interpreter thread has changed it, so
what they found does not say that an extension fits when it comes.  The proof does not
use it: `Extend` refuses what does not follow the graph, by an exception that ends the
thread, and `GraphWellFormed` is about the time before.  `BaseAnnouncedOnce`
follows from `Ascends`, that `told` is 0, 1, 2, ..., and from `Stands`, that it is as
long as the base: what an extension adds begins one behind its end.

`OnlyAClearedActionEndsTheThread` needs to know where an action comes from.  `Made`
says of everything an action can be in, the scheduler's sets, the reports in the
order event queue, the groups in the interpreter event queue and the `done` of an
order behind its `new`, that the order manager has it or had it (`AllMade`).

`WhatIsLeftIsTold` is about the moments in which nothing is on its way, and its
invariant `Left` says what is true in between, as long as no thread has ended.  An
order is alone: while one is among the messages the interpreter event queue is empty,
and what is in that queue is the rest of one order with instant actions and cancels
behind it (`OneOrder`, `Staged`).  So the goals of the scheduler are the nodes of the
base behind the AGV's, `a + 2`, `a + 4`, ..., up to its end, or up to where the `done` at
the head of the queue goes on (`Matches`, `Owed`).  That a new order replaces the graph
only when no goal of the old one is left is a chain through four copies of one status:
`checkOrderAppend` reads the order manager's, which says idle only if the scheduler
does and nothing else has been reported (`SaidLast`, `IdleLast`, `ReplacesAtRest`), and an
idle scheduler has no work (`IdleIsEmpty`).  A cancel is the other way in which goals
and graph part.  Either its latch waits and an idle is going to clear the graph and the
waiting actions (`Doomed`), or an idle that was on its way before the cancel has taken
the latch already; then the graph is gone, nothing waits but the actions of an update
that finds no graph, and the cancel has nothing to cancel (`CancelHasLatch`, `Hollow`).
Without `Patient` the statement is false: an order that is accepted before the one
ahead of it has reported its work replaces the graph.

### ActionHandling

`ActionHandlingProofs` covers all four properties of the run `actions`, for any
handlers, declarations, messages and texts, as `TextAssumption` and
`HandlingAssumption` type them.  `Inv` follows a message from its receipt
to the callbacks.  Only the last message is under way, and in one place
(`Line`); what its validation has found so far agrees with the message up to
where it is (`Checked`), so an accepted message is valid as a whole
(`AcceptedSound`) and finds its stores when it is handled (`KeptWaits`), because
validation alone removes a store of an id and only for the id it is validating.
`StoresSound` traces each store back to an item that was found valid, which gives
`OnlyDeclaredActionsRun`.  For `AgvFollows` and `ThreadsLive` the order of the
event queue matters: `Ready` says that a callback comes behind the prepare of its
id, `Follows` that the calls of an id in the queue and its store fit the state of
its task, and `Untouched` that an id nobody has handed over has no events, so
that a new action starts from nothing.

That `validateActionWithDeclaration` without errors means `Allowed`, which says
the same without walking parameters, is `ValidMeans`.  `HandlerOf` chooses the
first handler for an action; that there is one, when any does, is the
well-foundedness of < on the naturals (`LeastNumber`).

### Connection

`DeliveryProofs` proves both invariants and the action property of the run
`connection`, for any number of events and of lives, quiet or not. `Phases` says for
each phase of a run of the instance what the control thread and the client may still
do, because a shutdown is a sequence of steps that each take one listener or thread
away. In a quiet life `Links` are the cases in which module, client and broker
disagree for a while, by which of the threads is about to repair it. `Told`
generalises `ObserversKnow` to a queue that is not empty: the last status event in
it, or the observer if there is none, says what the module is or is about to be.
When an exception that nothing catches ends the process (`dead`), all but types and
queue fronts is given up. `QuietBefore` keeps this to the lives up to the first that
is not quiet.

`HeadersAlwaysIncrease` has an invariant of its own, `Counts`, that holds whenever the
application shuts down.  A header id that was filled but not sent is above all the
broker has got: that of the message thread always (`Sending`), that of `connected` as
long as `disconnect` has not read an id (`Connecting`).  After that the two may undo
each other's counting, but neither the counter nor what `connected` holds falls
below what was there when `disconnect` read (`Overtaken`).  That `disconnect` is the
last the control event thread does in a life is part of `Life`.  In a quiet moment
`connected` does not run then, and what `disconnect` sends is above all the broker has
got, too (`Parting`).

### StateUpdates

`StateUpdatesProofs` proves both invariants of the run `state_updates` for every
`Period`, every `High` up to it and every plan, over any number of restarts
(`UpdatesAssumption` and `PlansAssumption`).  `AllIsReported` rests on `InPeriod`: the
age of a field and the time to `last_sent_ + max_update_period` add up to no more
than a period, and the thread never sleeps past that point.  That a message is
complete when it is dispatched and leaves no field old (`Messages`), and that the
thread lives and is counted where it sleeps until the application wants it to end
(`Lives`), are part of the same induction: time only passes beside a thread that is
asleep.

`UrgentIsReported` needs to know for each urgent field how the news gets out
(`Cared`): it is in the message already, or the request for it is on its way, or an
update is scheduled in time that no one is about to clear.  `DumpsAreNew` covers a
change that falls between the dump and the dispatch of a message: there is a request
for it behind it.  `WakesInTime` says that a sleeping thread knows of what is
scheduled or is about to be interrupted, which is why `missed = "no"` is a
hypothesis of the property.

The induction fails at one place without the scheduler: a status is told as paused
by `order_manager.cpp:219` and requested as a pause by `state_event_handler.cpp:115`,
and the two disagree about `idle_paused`.  A step from `idle_paused` to `paused`
would change what is told and request nothing.  `Spaced` says it does not come: between
`idle_paused` and a pause of another kind an `idle` is announced.

### BlockingQueue

`DeliveryProofs` proves, for every number of threads and elements, that each
element is counted once (`CountedOnceAlways`), so that a pop that has acquired one
finds it (`FetchFinds`), under `ThreadAssumption`.  Its invariant adds to
`CountedOnce` which places are those of a push (`Sorted`); a step moves one
thread in or out of the sets that are counted (`Moved`, `ThreadsCounted`).

### Only model-checked

What the yields mean (`OrderMeaning`): `Program` and the graph are folds over an
order, and what a recursive definition yields for every order needs induction
over it, with a theorem that takes an operator as its parameter, which none of
the provers can instantiate.  (Where a least number is enough, as in
`LeastNumber`, the set form of well-founded induction does.)

`BlockingWorkStands` of `OrderExecution` is no theorem for every value of the
constants: a NONE instant action that is sent while a SOFT action runs sets the AGV
going again, as the run `claim_NoDrivingWhileBlocked` shows, and an AGV that pauses
by itself may go on while one runs.  `errand` checks it where neither happens.

Liveness (`OrdersEnd`, `KnownCatchesUp`, `ComesBack`, `ShutdownEnds` and
`SleepersWake`) is out of the prover's reach.

## Not modelled

- Configuration, logging, version, parameter views and event handles: nothing in
  them changes while the library runs.
- The header checks, the JSON of messages, what a factsheet says, positions,
  maps and zones as data: they are values no property here tells apart.
- The option `synchronous_event_dispatch`, by which every listener runs in the
  calling thread: another program, in which most of the interleavings above
  cannot happen and deadlocks of its own can.
- Data races in the sense of C++: `handled_actions_`, `active_control_blocks_`
  and the graph reference of `OrderManager::getCurrentGraph` are used by two
  threads without a lock.  The modules have the interleavings of whole operations
  on them and not what a broken map would do.  Of the header ids only those of the
  connection topic are counted by two threads; there reading and writing are
  steps of their own.
- The map of a control block that tears itself down while it is called, a null
  callback (`ActionCallbacks()`), a parameter range of the custom type: these end
  a thread, or more, whatever comes before, and are the caller's errors.
- Several waiters of one synchronized event, the order observer and the init
  position handler.
