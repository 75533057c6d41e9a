----------------------------- MODULE ControlBlocks -----------------------------
(***************************************************************************)
(* The control instant actions (core/interpreter, core/events): how a      *)
(* cancelOrder, startPause, stopPause, factsheetRequest or stateRequest    *)
(* becomes a call of the scheduler, and how its end is noticed.            *)
(*                                                                         *)
(* The message event thread validates the action against the order status, *)
(* adds its state and runs the first block of a chain, which dispatches an *)
(* InterpreterOrderControl to the interpreter event thread.  Only then are *)
(* the latches of the chain subscribed to the OrderStatus events, which    *)
(* the order event thread handles: a latch reports RUNNING or FINISHED     *)
(* when the status it waits for comes by.                                  *)
(*                                                                         *)
(* The scheduler is SchedulerOps.  Orders are one group of actions each;   *)
(* what they mean to the graph and the states of their own actions are in  *)
(* OrderState, duplicates and the other checks as well.                    *)
(***************************************************************************)
EXTENDS SchedulerOps, Functions

CONSTANTS
  Orders,       \* the group of actions of each order
  MaxControls,  \* how many control instant actions are sent
  Patient       \* TRUE: the master control waits until all events of its last message are handled

ASSUME ControlsAssumption ==
  /\ Orders \in Seq((SUBSET Action) \ {{}})
  /\ MaxControls \in Nat /\ Patient \in BOOLEAN

Control     == 1..MaxControls
ControlType == {"cancelOrder", "startPause", "stopPause", "factsheetRequest", "stateRequest"}
Unknown     == "unknown"     \* no ActionState with this id
Status      == {Unknown, "WAITING", "RUNNING", "FINISHED", "FAILED"}
Ended       == {"FINISHED", "FAILED"}

VARIABLES
  sent,      \* the types of the controls sent, how many orders were sent
  messages,  \* the message event queue
  enabling,  \* what the message event thread has still to do to enable a block
  yields,    \* the interpreter event queue
  sch,       \* the Scheduler object
  events,    \* the OrderStatus events in the order event queue
  status,    \* OrderManager::order_status_
  states,    \* the ActionStates of the controls
  latches,   \* the subscribed latches in the order of their subscription
  alive,     \* the event threads that have not ended
  seen,      \* the scheduler states since a control was found feasible
  excused    \* what went wrong with a control: declined, late, idle paused, nothing to cancel

vars == <<sent, messages, enabling, yields, sch, events, status, states, latches, alive, seen, excused>>

Nothing == [id |-> 0, steps |-> <<>>]

Init ==
  /\ sent = [types |-> <<>>, orders |-> 0]
  /\ messages = <<>> /\ enabling = Nothing /\ yields = <<>>
  /\ sch = NewScheduler
  /\ events = <<>> /\ status = "idle"
  /\ states = [c \in Control |-> Unknown]
  /\ latches = <<>>
  /\ alive = {"message", "interpreter", "order"}
  /\ seen = [c \in Control |-> {}]
  /\ excused = [c \in Control |-> {}]

Type(c)      == sent.types[c]
Excuse(c, why) == excused' = [excused EXCEPT ![c] = @ \cup {why}]
Ends(thread) == alive' = alive \ {thread}

\* A call of the scheduler that leaves it in state s.
Call(s) ==
  /\ sch' = s
  /\ events' = events \o s.notes
  /\ seen' = [c \in Control |-> IF seen[c] = {} THEN {} ELSE seen[c] \cup {s.state} \cup Range(s.notes)]

-----------------------------------------------------------------------------
(* Event control blocks *)

Latch(awaited, report) == [awaited |-> awaited, report |-> report]

CancelBlock == << <<Latch("idle", "FINISHED")>> >>

\* A slip: the pause is over once the scheduler begins to pause.
PauseBlockTooSoon == << <<Latch("idle_paused", "FINISHED")>>, <<Latch("pausing", "FINISHED")>> >>

\* A slip: no alternative for a scheduler without tasks.
PauseBlockActive == << <<Latch("pausing", "RUNNING"), Latch("paused", "FINISHED")>> >>

PauseBlock ==
  << <<Latch("idle_paused", "FINISHED")>>, <<Latch("pausing", "RUNNING"), Latch("paused", "FINISHED")>> >>

ResumeBlock ==
  << <<Latch("idle", "FINISHED")>>, <<Latch("resuming", "RUNNING"), Latch("active", "FINISHED")>> >>

\* The alternatives, each a chain of latches, that follow the function block of a control.
Blocks(type) ==
  CASE type = "cancelOrder" -> CancelBlock
    [] type = "startPause"  -> PauseBlock
    [] type = "stopPause"   -> ResumeBlock

\* The latches that enabling the alternatives of a control subscribes.
Enabled(c) == [i \in DOMAIN Blocks(Type(c)) |-> [id |-> c, chain |-> Blocks(Type(c))[i]]]

\* The end of a chain ends its alternative and with it the whole block of the control.
Teardown(live, x) == Chosen(live, {i \in DOMAIN live : live[i].id # x.id})

\* The latch at the head of chain x is done: the next one is subscribed.
ChainNext(live, x) ==
  IF Len(x.chain) = 1 THEN Teardown(live, x)
  ELSE Append(Chosen(live, {i \in DOMAIN live : live[i] # x}), [x EXCEPT !.chain = Tail(@)])

\* OrderClearAfterCancel
CancelWaiting(st) == [c \in Control |-> IF st[c] = "WAITING" THEN "FAILED" ELSE st[c]]

\* The done function of the latch at the head of x; setting the status of an unknown
\* action throws, out of the thread that handles the event.
Done(acc, x) ==
  LET cleared == IF Type(x.id) = "cancelOrder" THEN CancelWaiting(acc.states) ELSE acc.states
  IN IF cleared[x.id] = Unknown
     THEN [acc EXCEPT !.states = cleared, !.thrown = TRUE]
     ELSE [acc EXCEPT !.states = [cleared EXCEPT ![x.id] = Head(x.chain).report],
                      !.live = ChainNext(@, x)]

Awaits(x, event) == Head(x.chain).awaited = event

\* The latch at the head of x is given the event, unless it has been torn down.
Hear(acc, x, event) ==
  IF ~acc.thrown /\ x \in Range(acc.live) /\ Awaits(x, event) THEN Done(acc, x) ELSE acc

\* The latches take an event in the order they were subscribed; those torn down
\* or subscribed by it do not take it.
Notice(event) ==
  LET upto[i \in 0..Len(latches)] ==
        IF i = 0 THEN [states |-> states, live |-> latches, thrown |-> FALSE]
        ELSE Hear(upto[i - 1], latches[i], event)
  IN upto[Len(latches)]

-----------------------------------------------------------------------------
(* The master control *)

Message(kind, what) == [kind |-> kind, what |-> what]

\* No thread has anything left to do.
Settled == messages = <<>> /\ enabling = Nothing /\ yields = <<>> /\ events = <<>>

Receive(m) ==
  /\ Patient => Settled
  /\ messages' = Append(messages, m)
  /\ UNCHANGED <<enabling, yields, sch, events, status, states, latches, alive, seen, excused>>

ReceiveControl(type) ==
  /\ Len(sent.types) < MaxControls
  /\ sent' = [sent EXCEPT !.types = Append(@, type)]
  /\ Receive(Message("receivedAction", Len(sent.types) + 1))

ReceiveOrder ==
  /\ sent.orders < Len(Orders)
  /\ sent' = [sent EXCEPT !.orders = @ + 1]
  /\ Receive(Message("receivedOrder", sent.orders + 1))

-----------------------------------------------------------------------------
(* The message event thread *)

Takes(kind) ==
  /\ "message" \in alive /\ enabling = Nothing
  /\ messages # <<>> /\ Head(messages).kind = kind

\* isPauseable, isResumable, isCancelable
controlActionFeasible(type) ==
  CASE type = "startPause"  -> status \in {"active", "idle"}
    [] type = "stopPause"   -> status \in {"idle_paused", "paused"}
    [] type = "cancelOrder" -> status \in {"idle_paused", "active", "idle", "paused"}
    [] OTHER                -> TRUE

\* handleInstantActionsMessage: what is not feasible is refused with an error.
ValidateAction ==
  /\ Takes("receivedAction")
  /\ LET c == Head(messages).what
         feasible == controlActionFeasible(Type(c))
     IN /\ messages' = IF feasible THEN Append(Tail(messages), Message("validAction", c)) ELSE Tail(messages)
        /\ seen' = IF feasible THEN [seen EXCEPT ![c] = {sch.state}] ELSE seen
  /\ UNCHANGED <<sent, enabling, yields, sch, events, status, states, latches, alive, excused>>

\* A slip: the cancel is reported RUNNING when everything else is done.
CancelStepsLast == <<"dispatch", "subscribe", "run">>

CancelSteps       == <<"dispatch", "run", "subscribe">>
FactsheetSteps    == <<"factsheet", "finish">>
StateRequestSteps == <<"finish">>

\* The function blocks of a control, and the subscription that follows.
Steps(type) ==
  CASE type = "cancelOrder" -> CancelSteps
    [] type \in {"startPause", "stopPause"} -> <<"dispatch", "subscribe">>
    [] type = "factsheetRequest" -> FactsheetSteps
    [] type = "stateRequest" -> StateRequestSteps

\* handleValidInstantActions: a new action state, then the block is enabled.
handleValidInstantActions ==
  /\ Takes("validAction")
  /\ LET c == Head(messages).what
     IN /\ states' = [states EXCEPT ![c] = "WAITING"]
        /\ enabling' = [id |-> c, steps |-> Steps(Type(c))]
  /\ messages' = Tail(messages)
  /\ UNCHANGED <<sent, yields, sch, events, status, latches, alive, seen, excused>>

Enables(step) ==
  /\ "message" \in alive /\ enabling # Nothing /\ Head(enabling.steps) = step

EnabledStep ==
  enabling' = IF Len(enabling.steps) = 1 THEN Nothing ELSE [enabling EXCEPT !.steps = Tail(@)]

DispatchControl ==
  /\ Enables("dispatch")
  /\ yields' = Append(yields, Message("control", enabling.id))
  /\ EnabledStep
  /\ UNCHANGED <<sent, messages, sch, events, status, states, latches, alive, seen, excused>>

\* The cancel reports RUNNING, the requests FINISHED, from this thread.
ReportFrom(step, report) ==
  /\ Enables(step)
  /\ IF states[enabling.id] = Unknown
     THEN Ends("message") /\ UNCHANGED <<enabling, states>>
     ELSE /\ EnabledStep
          /\ states' = [states EXCEPT ![enabling.id] = report]
          /\ UNCHANGED alive
  /\ UNCHANGED <<sent, messages, yields, sch, events, status, latches, seen, excused>>

ReportRunning  == ReportFrom("run", "RUNNING")
ReportFinished == ReportFrom("finish", "FINISHED")

\* The factsheet is gathered here; the list of the AGV's actions comes from the action
\* event thread.
Gathered == EnabledStep /\ UNCHANGED alive

\* The list took more than a second: the exception passes through the future of the
\* gather event and leaves the handler of the control.
GatheredLate == Ends("message") /\ UNCHANGED enabling

SendFactsheet ==
  /\ Enables("factsheet")
  /\ Gathered \/ GatheredLate
  /\ UNCHANGED <<sent, messages, yields, sch, events, status, states, latches, seen, excused>>

Subscribe ==
  /\ Enables("subscribe")
  /\ latches' = latches \o Enabled(enabling.id)
  /\ EnabledStep
  /\ UNCHANGED <<sent, messages, yields, sch, events, status, states, alive, seen, excused>>

\* handleOrderMessage: only a master control that keeps to one order at a time is
\* modelled; what is refused by checkOrderAppend is dropped.
ValidateOrder ==
  /\ Takes("receivedOrder")
  /\ messages' = IF status \in {"idle", "idle_paused"}
                 THEN Append(Tail(messages), Message("validOrder", Head(messages).what))
                 ELSE Tail(messages)
  /\ UNCHANGED <<sent, enabling, yields, sch, events, status, states, latches, alive, seen, excused>>

handleValidOrder ==
  /\ Takes("validOrder")
  /\ yields' = yields \o <<Message("clear", 0), Message("group", Head(messages).what), Message("done", 0)>>
  /\ messages' = Tail(messages)
  /\ UNCHANGED <<sent, enabling, sch, events, status, states, latches, alive, seen, excused>>

-----------------------------------------------------------------------------
(* The interpreter event thread *)

TakesYield(kind) ==
  /\ "interpreter" \in alive /\ yields # <<>> /\ Head(yields).kind = kind
  /\ yields' = Tail(yields)

\* The AGV may decline to pause or to resume.
Declined(c) ==
  /\ Type(c) \in {"startPause", "stopPause"}
  /\ IF states[c] = Unknown THEN Ends("interpreter") /\ UNCHANGED states
     ELSE states' = [states EXCEPT ![c] = "FAILED"] /\ UNCHANGED alive
  /\ Excuse(c, "declined")
  /\ UNCHANGED <<sch, events, seen>>

Commanded(c) ==
  LET s == Begin(sch)
  IN CASE Type(c) = "cancelOrder" -> Cancel(s)
       [] Type(c) = "startPause"  -> Pause(s)
       [] Type(c) = "stopPause"   -> Resume(s)

Controlled(c) ==
  /\ Call(Commanded(c))
  /\ IF Commanded(c).thrown THEN Ends("interpreter") ELSE UNCHANGED alive
  /\ IF Type(c) = "cancelOrder" /\ sch.state = "idle_paused" THEN Excuse(c, "idle paused")
     ELSE IF Commanded(c).state = "canceling" /\ sch.active = {} THEN Excuse(c, "nothing to cancel")
     ELSE UNCHANGED excused
  /\ UNCHANGED states

handleOrderControl ==
  /\ TakesYield("control")
  /\ LET c == Head(yields).what IN Declined(c) \/ Controlled(c)
  /\ UNCHANGED <<sent, messages, enabling, status, latches>>

\* YieldClearActions: the order manager forgets all actions, the controls as well.
handleClearActions ==
  /\ TakesYield("clear")
  /\ states' = [c \in Control |-> Unknown]
  /\ UNCHANGED <<sent, messages, enabling, sch, events, status, latches, alive, seen, excused>>

handleYieldNormal ==
  /\ TakesYield("group")
  /\ LET G == Orders[Head(yields).what]
     IN Call(Enqueue(Begin(sch), [kind |-> "group", actions |-> G, ceiling |-> Ceiling(G)]))
  /\ UNCHANGED <<sent, messages, enabling, status, states, latches, alive, excused>>

handleInterpreterDone ==
  /\ TakesYield("done")
  /\ Call(CommitQueue(Begin(sch)))
  /\ UNCHANGED <<sent, messages, enabling, status, states, latches, alive, excused>>

-----------------------------------------------------------------------------
(* The order event thread and the AGV *)

\* A control whose latches are not subscribed yet misses the event.
Missed(event) ==
  /\ enabling # Nothing /\ Head(enabling.steps) # "dispatch"
  /\ Type(enabling.id) \in {"cancelOrder", "startPause", "stopPause"}
  /\ \E i \in DOMAIN Blocks(Type(enabling.id)) :
       \E j \in DOMAIN Blocks(Type(enabling.id))[i] : Blocks(Type(enabling.id))[i][j].awaited = event

\* handleOrderStatus, then the latches.
handleOrderStatus ==
  /\ "order" \in alive /\ events # <<>>
  /\ events' = Tail(events)
  /\ LET event   == Head(events)
         noticed == Notice(event)
     IN /\ status' = event
        /\ states' = noticed.states
        /\ latches' = noticed.live
        /\ IF noticed.thrown THEN Ends("order") ELSE UNCHANGED alive
        /\ IF Missed(event) THEN Excuse(enabling.id, "late") ELSE UNCHANGED excused
  /\ UNCHANGED <<sent, messages, enabling, yields, sch, seen>>

\* What the AGV answers to what it was told.
Answers ==
  [t \in ActionState |->
     CASE t = "Initializing" -> {"is_running", "is_finished", "is_failed"}
       [] t = "Running"      -> {"is_finished"}
       [] t = "Pausing"      -> {"is_paused", "is_failed"}
       [] t = "Resuming"     -> {"is_running"}
       [] t = "Canceling"    -> {"is_failed"}
       [] OTHER              -> {}]

ActionStatus ==
  /\ \E a \in sch.active : \E t \in Answers[sch.task[a]] : Call(ReportAction(Begin(sch), a, t))
  /\ UNCHANGED <<sent, messages, enabling, yields, status, states, latches, alive, excused>>

-----------------------------------------------------------------------------

MasterControl == ReceiveOrder \/ \E type \in ControlType : ReceiveControl(type)

MessageThread ==
  \/ ValidateAction \/ handleValidInstantActions
  \/ DispatchControl \/ ReportRunning \/ ReportFinished \/ SendFactsheet \/ Subscribe
  \/ ValidateOrder \/ handleValidOrder

InterpreterThread ==
  handleOrderControl \/ handleClearActions \/ handleYieldNormal \/ handleInterpreterDone

Next == MasterControl \/ MessageThread \/ InterpreterThread \/ handleOrderStatus \/ ActionStatus

Spec == Init /\ [][Next]_vars

-----------------------------------------------------------------------------
(* Properties *)

\* A control that is reported FINISHED has done something: since it was found
\* feasible the scheduler has been where the control leads to.
Leads(type) ==
  CASE type = "cancelOrder" -> {"idle"}
    [] type = "startPause"  -> {"paused", "idle_paused"}
    [] type = "stopPause"   -> {"active", "idle"}
    [] OTHER                -> SchedulerState

FinishedAsAsked ==
  \A c \in Control : states[c] = "FINISHED" => seen[c] \cap Leads(Type(c)) # {}

\* A pause lasts: once the scheduler has paused for it, it stays paused until a later
\* control is found feasible, whatever the AGV reports and whatever orders arrive.
PauseLasts ==
  \A c \in DOMAIN sent.types :
    /\ Type(c) = "startPause" /\ seen[c] \cap Leads("startPause") # {}
    /\ \A d \in c + 1..Len(sent.types) : seen[d] = {}
    => sch.state \in Leads("startPause")

\* What is reported FINISHED is not reported as anything else, until an order clears it,
\* whatever other controls are under way.  (A FAILED control may go on: a declined one
\* keeps its latches, and a cancel fails every action that waits, controls as well.)
FinishedIsFinal ==
  [][\A c \in Control : states[c] = "FINISHED" => states'[c] \in {"FINISHED", Unknown}]_vars

\* The AGV has answered to everything it was told.
Answered == \A a \in sch.active : Answers[sch.task[a]] = {}

\* When no thread and not the AGV has anything left to do and the other threads live, no
\* control has ended the interpreter event thread by an exception, every control that was
\* found feasible has ended, or a new order made the order manager forget it, and the
\* scheduler rests.  The exceptions: latches that were subscribed too late, a cancel of a
\* scheduler that is idle and paused, which is noticed only when it is resumed, and a
\* cancel of a paused scheduler whose actions have all failed, which nothing ever updates
\* again.
NothingHangs ==
  Settled /\ Answered /\ {"message", "order"} \subseteq alive =>
    /\ "interpreter" \in alive
    /\ \A c \in Control : seen[c] # {} =>
         \/ states[c] \in Ended \cup {Unknown}
         \/ excused[c] \cap {"late", "idle paused", "nothing to cancel"} # {}
    /\ sch.state \in {"idle", "idle_paused", "paused"} \/ \E c \in Control : "nothing to cancel" \in excused[c]
=============================================================================
