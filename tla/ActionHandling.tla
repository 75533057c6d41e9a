---------------------------- MODULE ActionHandling ----------------------------
(***************************************************************************)
(* How the actions of a message come to the callbacks of the AGV's action  *)
(* handlers (core/validation, core/agv_handler and the simple handlers):   *)
(* the message event thread, which waits for the validation of an order and*)
(* validates instant actions itself, the validation event thread, the      *)
(* query event thread, and the action event thread, which works off what   *)
(* the interpreter and the scheduler dispatch.                             *)
(*                                                                         *)
(* The ActionEventHandler keeps a store of each valid action of a base     *)
(* until it is forgotten.  The validating thread and the action event      *)
(* thread use the map of the stores without a lock; a map that breaks by   *)
(* that is not modelled.  The scheduler may do what an ActionTask accepts; *)
(* in which order it does it is in Scheduler.                              *)
(***************************************************************************)
EXTENDS ActionChecks, ActionTask, FiniteSets, Functions

CONSTANTS
  Id,           \* the action ids
  Handlers,     \* the declarations of each registered action handler
  Messages,     \* what the master control may send
  MaxMessages,  \* how often it does
  MaxFaults,    \* how often the AGV's code throws or takes too long
  ZoneSets,     \* the configured zone sets: a set of at most one set
  ZoneDefault   \* the configured default answer

Items == UNION {Range(m.items) : m \in Messages}

IsAction(a) ==
  /\ a.id \in Id
  /\ a.params \in Seq(Range(a.params))
  /\ \A i \in DOMAIN a.params : a.params[i].value \in Text

\* An order's actions stand at its nodes and edges, an instant action does not.
ASSUME HandlingAssumption ==
  /\ Handlers \in Seq(Range(Handlers))
  /\ \A h \in DOMAIN Handlers : \A d \in Handlers[h] : IsDeclaration(d)
  /\ \A item \in Items :
       /\ IsAction(item.action)
       /\ item.context \in ActionContext
       /\ item.released \in BOOLEAN
  /\ \A m \in Messages :
       /\ m.kind \in {"order", "instantActions"}
       /\ m.items \in Seq(Items)
       /\ \A i \in DOMAIN m.items : m.kind = "order" <=> m.items[i].context # "instant"
  /\ {MaxMessages, MaxFaults} \subseteq Nat
  /\ ZoneDefault \in BOOLEAN

VARIABLES
  sent,        \* the messages so far
  faults,      \* the faults so far
  messages,    \* the message event queue: messages received and found valid
  waiting,     \* the order the message event thread waits for
  validating,  \* the message under validation
  known,       \* OrderManager::action_by_id_
  store,       \* handled_actions_
  queue,       \* the action event queue
  task,        \* the state of the ActionTask of an id
  told,        \* what the callbacks last told the AGV about an id
  ran,         \* the stores whose on_start was called
  accepted,    \* the messages found valid
  alive        \* the event threads that have not ended

vars == <<sent, faults, messages, waiting, validating, known, store, queue, task, told, ran,
          accepted, alive>>

Thread   == {"message", "validation", "query", "action"}
NoTask   == "NoTask"
Callback == {"start", "pause", "resume", "cancel"}
Nothing  == [n |-> 0, at |-> "done", items |-> <<>>, errors |-> {}]

Init ==
  /\ sent = <<>> /\ faults = 0
  /\ messages = <<>> /\ waiting = 0 /\ validating = Nothing
  /\ known = {} /\ store = <<>> /\ queue = <<>>
  /\ task = [id \in Id |-> NoTask] /\ told = [id \in Id |-> "nothing"]
  /\ ran = {} /\ accepted = {}
  /\ alive = Thread

Ends(thread) == alive' = alive \ {thread}
Goes(thread) == thread \in alive

\* The code of the AGV throws, or takes more than a second.
Fault == faults < MaxFaults /\ faults' = faults + 1

Event(name, id) == [name |-> name, id |-> id]
Dispatched(name, id) == queue' = Append(queue, Event(name, id))

IdsOf(items) == {items[i].action.id : i \in DOMAIN items}

-----------------------------------------------------------------------------
(* Validation of one action *)

ControlDeclarations ==
  [type : {"cancelOrder", "startPause", "stopPause"},
   required : {{}}, optional : {{}}, blocking : {{"HARD"}}, contexts : {{"instant"}}]
  \cup
  [type : {"factsheetRequest", "stateRequest"},
   required : {{}}, optional : {{}}, blocking : {{"NONE"}}, contexts : {{"instant"}}]

matchActionType(decl, action) == decl.type = action.type
Matching(decls, action) == {d \in decls : matchActionType(d, action)}

NoHandler == 0

\* The first handler that matches, in the order of a set of pointers.
HandlerOf(action) ==
  LET matching == {h \in DOMAIN Handlers : Matching(Handlers[h], action) # {}}
  IN IF matching = {} THEN NoHandler ELSE CHOOSE h \in matching : \A g \in matching : h <= g

\* SimpleMultiActionHandler takes the first of its declarations that matches.
Validated(decls, item) ==
  validateActionWithDeclaration(item.action, item.context, CHOOSE d \in Matching(decls, item.action) : TRUE)

IsControl(action) == Matching(ControlDeclarations, action) # {}

\* The listeners of ActionValidate acquire the result token one after the other; one that
\* does not know the action releases it, and an action nobody answers for is unknown.
\* The order status, which a control action is checked against as well, is in ControlBlocks.
Answer(item) ==
  IF IsControl(item.action) THEN Validated(ControlDeclarations, item).errors
  ELSE IF HandlerOf(item.action) # NoHandler
  THEN Validated(Handlers[HandlerOf(item.action)], item).errors
  ELSE {"unknownActionType"}

\* A slip: the actions of the horizon are kept.
KeepHorizon(item) == item.context # "instant" /\ ~item.released

\* ActionValidate::keep, false for the horizon and for instant actions.
Keep(item) == item.context # "instant" /\ item.released

NewStore(item) ==
  [action |-> item.action, handler |-> HandlerOf(item.action),
   parsed |-> Validated(Handlers[HandlerOf(item.action)], item).parsed,
   state |-> FALSE, callbacks |-> FALSE]

\* insert_or_assign: a store of the same id is replaced, whatever its action is doing.
insert_or_assign(id, new) == [i \in DOMAIN store \cup {id} |-> IF i = id THEN new ELSE store[i]]

\* A slip: an action is kept whatever its validation found.
StoredAnyway(item) ==
  IF ~IsControl(item.action) /\ HandlerOf(item.action) # NoHandler /\ Keep(item)
  THEN insert_or_assign(item.action.id, NewStore(item))
  ELSE store

\* The stores once the item was validated.
Stored(item) ==
  IF ~IsControl(item.action) /\ HandlerOf(item.action) # NoHandler /\ Keep(item) /\ Answer(item) = {}
  THEN insert_or_assign(item.action.id, NewStore(item))
  ELSE store

\* uniqueActionId for the items in the order they are visited.
Duplicates(items) ==
  {"orderError" : x \in {i \in DOMAIN items :
      \/ items[i].action.id \in known
      \/ \E j \in 1..i-1 : items[j].action.id = items[i].action.id}}

\* handleQueryAcceptZoneSet: the errors of the query handler if there still is one that
\* overrides the query, else by the configured sets, else by the configured default.
ZoneAnswers(zone) ==
  {{}, {"zoneError"}} \cup
  (IF ZoneSets # {} THEN {IF \E Z \in ZoneSets : zone \in Z THEN {} ELSE {"orderError"}}
   ELSE {IF ZoneDefault THEN {} ELSE {"controlError"}})

-----------------------------------------------------------------------------
(* The master control, one message at a time *)

Received(n) == [kind |-> "received", n |-> n]
Valid(n)    == [kind |-> "valid", n |-> n]

Send(m) ==
  /\ Len(sent) < MaxMessages
  /\ messages = <<>> /\ waiting = 0 /\ validating = Nothing
  /\ sent' = Append(sent, m)
  /\ messages' = <<Received(Len(sent) + 1)>>
  /\ UNCHANGED <<faults, waiting, validating, known, store, queue, task, told, ran,
                 accepted, alive>>

-----------------------------------------------------------------------------
(* The message event thread *)

Takes(kind) ==
  /\ Goes("message") /\ waiting = 0 /\ validating = Nothing
  /\ messages # <<>> /\ Head(messages).kind = kind
  /\ messages' = Tail(messages)

\* handleOrderMessage dispatches ValidateOrder and waits for its result.
handleOrderMessage ==
  /\ Takes("received")
  /\ LET n == Head(messages).n
     IN /\ sent[n].kind = "order"
        /\ waiting' = n
        /\ validating' = [n |-> n, at |-> "checks", items |-> sent[n].items, errors |-> {}]
  /\ UNCHANGED <<sent, faults, known, store, queue, task, told, ran, accepted, alive>>

\* handleInstantActionsMessage validates in this thread.
handleInstantActionsMessage ==
  /\ Takes("received")
  /\ LET n == Head(messages).n
     IN /\ sent[n].kind = "instantActions"
        /\ validating' = [n |-> n, at |-> "actions", items |-> sent[n].items,
                          errors |-> Duplicates(sent[n].items)]
  /\ UNCHANGED <<sent, faults, waiting, known, store, queue, task, told, ran, accepted, alive>>

\* What the message event thread does with the result.
Verdict(n, errors) ==
  IF errors = {}
  THEN /\ messages' = Append(messages, Valid(n))
       /\ accepted' = accepted \cup {n}
  ELSE UNCHANGED <<messages, accepted>>

\* The result took more than a second, or never comes.
ValidationTimesOut ==
  /\ Goes("message") /\ waiting # 0
  /\ IF Goes("validation") THEN Fault ELSE UNCHANGED faults
  /\ Ends("message")
  /\ waiting' = 0
  /\ UNCHANGED <<sent, messages, validating, known, store, queue, task, told, ran, accepted>>

\* The members of a set of numbers in ascending order, the only member of this set.
Ascending(S) ==
  {s \in [1..Cardinality(S) -> S] : \A i, j \in 1..Cardinality(S) : i < j => s[i] < s[j]}

\* What the interpreter yields for a valid message: a new order clears the known actions,
\* and each action of the base is known, prepared and handed to the scheduler.
handleValid ==
  /\ Takes("valid")
  /\ LET m    == sent[Head(messages).n]
         base == {i \in DOMAIN m.items : m.items[i].released}
         ids  == {m.items[i].action.id : i \in base}
         new  == {m.items[i].action.id : i \in {i \in base : ~IsControl(m.items[i].action)}}
     IN /\ known' = ids \cup (IF m.kind = "order" THEN {} ELSE known)
        /\ \E order \in Ascending(base) :
             queue' = queue \o [i \in DOMAIN order |-> Event("prepare", m.items[order[i]].action.id)]
        /\ task' = [id \in Id |-> IF id \in new THEN "Waiting" ELSE task[id]]
  /\ UNCHANGED <<sent, faults, waiting, validating, store, told, ran, accepted, alive>>

-----------------------------------------------------------------------------
(* The validating thread: the validation event thread for an order *)

Validator == IF sent[validating.n].kind = "order" THEN "validation" ELSE "message"
Validates(at) == validating.n # 0 /\ validating.at = at /\ Goes(Validator)

Idle == \A id \in Id : task[id] \in ActionTerminal \cup {NoTask}

\* Of checkHeader to checkOrderActionIds, what depends on actions: an order is taken
\* only by an AGV that is idle, and its ids are new.
OrderChecks ==
  /\ Validates("checks")
  /\ validating' =
       [validating EXCEPT
          !.at = IF sent[validating.n].zones = {} THEN "actions" ELSE "zone",
          !.errors = Duplicates(validating.items) \cup (IF Idle THEN {} ELSE {"orderError"})]
  /\ UNCHANGED <<sent, faults, messages, waiting, known, store, queue, task, told, ran, accepted, alive>>

\* queryAcceptZoneSet waits for the query event thread.
ZoneAnswered ==
  /\ Validates("zone") /\ Goes("query")
  /\ \E zone \in sent[validating.n].zones : \E errors \in ZoneAnswers(zone) :
       validating' = [validating EXCEPT !.at = "actions", !.errors = @ \cup errors]
  /\ UNCHANGED <<sent, faults, messages, waiting, known, store, queue, task, told, ran, accepted, alive>>

\* The AGV's query handler throws and ends the query event thread.
QueryThrows ==
  /\ Validates("zone") /\ Goes("query")
  /\ Fault
  /\ Ends("query")
  /\ UNCHANGED <<sent, messages, waiting, validating, known, store, queue, task, told, ran, accepted>>

\* The answer does not come within a second: the validation event thread ends.
QueryTimesOut ==
  /\ Validates("zone")
  /\ IF Goes("query") THEN Fault ELSE UNCHANGED faults
  /\ Ends("validation")
  /\ validating' = Nothing
  /\ UNCHANGED <<sent, messages, waiting, known, store, queue, task, told, ran, accepted>>

\* handleValidateEvent, dispatched synchronously for the next action.
ValidateAction ==
  /\ Validates("actions") /\ validating.items # <<>>
  /\ LET item == Head(validating.items)
     IN /\ store' = Stored(item)
        /\ validating' = [validating EXCEPT !.items = Tail(@), !.errors = @ \cup Answer(item)]
  /\ UNCHANGED <<sent, faults, messages, waiting, known, queue, task, told, ran, accepted, alive>>

\* The validate function of a handler throws, through the thread that validates.
ValidateThrows ==
  /\ Validates("actions") /\ validating.items # <<>>
  /\ LET action == Head(validating.items).action
     IN ~IsControl(action) /\ HandlerOf(action) # NoHandler
  /\ Fault
  /\ Ends(Validator)
  /\ validating' = Nothing
  /\ UNCHANGED <<sent, messages, waiting, known, store, queue, task, told, ran, accepted>>

\* The results are gathered; a result nobody waits for any more is dropped.
Gather ==
  /\ Validates("actions") /\ validating.items = <<>>
  /\ IF Validator = "message" \/ waiting # 0
     THEN Verdict(validating.n, validating.errors)
     ELSE UNCHANGED <<messages, accepted>>
  /\ waiting' = 0 /\ validating' = Nothing
  /\ UNCHANGED <<sent, faults, known, store, queue, task, told, ran, alive>>

-----------------------------------------------------------------------------
(* The scheduler *)

\* What the effect of the state a task enters dispatches.
Effect ==
  [s \in ActionState |->
     CASE s = "Initializing" -> <<"start">>
       [] s = "Pausing"      -> <<"pause">>
       [] s = "Resuming"     -> <<"resume">>
       [] s = "Canceling"    -> <<"cancel">>
       [] s \in ActionTerminal -> <<"forget">>
       [] OTHER -> <<>>]

\* The task of id makes a transition it accepts.
Transition(id, t) ==
  /\ task[id] # NoTask /\ t \in ActionAccepts[task[id]]
  /\ task' = [task EXCEPT ![id] = ActionTarget[t]]
  /\ LET effect == Effect[ActionTarget[t]]
     IN queue' = queue \o [i \in DOMAIN effect |-> Event(effect[i], id)]
  /\ UNCHANGED <<sent, faults, messages, waiting, validating, known, store, told, ran, accepted, alive>>

Schedule(id) == Transition(id, "do_start")
Control(id)  == \E t \in {"do_pause", "do_resume", "do_cancel"} : task[id] # "Waiting" /\ Transition(id, t)

\* clearQueues: what has not been started is forgotten when the order is canceled or fails.
Dismiss(id) ==
  /\ task[id] = "Waiting"
  /\ task' = [task EXCEPT ![id] = NoTask]
  /\ Dispatched("forget", id)
  /\ UNCHANGED <<sent, faults, messages, waiting, validating, known, store, told, ran, accepted, alive>>

-----------------------------------------------------------------------------
(* The action event thread *)

Handles(names) ==
  /\ Goes("action") /\ queue # <<>> /\ Head(queue).name \in names
  /\ queue' = Tail(queue)
  /\ UNCHANGED <<sent, messages, waiting, validating, known, task, accepted>>

IsHandled(id) == id \in DOMAIN store

\* A slip: an action without a store is an error of the thread.
SkipThrows ==
  /\ Handles(Callback \cup {"prepare", "forget"})
  /\ ~IsHandled(Head(queue).id)
  /\ Ends("action")
  /\ UNCHANGED <<faults, store, told, ran>>

\* Not a handled action.
Skip ==
  /\ Handles(Callback \cup {"prepare", "forget"})
  /\ ~IsHandled(Head(queue).id)
  /\ UNCHANGED <<faults, store, told, ran, alive>>

handlePrepareEvent ==
  /\ Handles({"prepare"})
  /\ IsHandled(Head(queue).id)
  /\ store' = [store EXCEPT ![Head(queue).id].state = TRUE, ![Head(queue).id].callbacks = TRUE]
  /\ UNCHANGED <<faults, told, ran, alive>>

\* The prepare function of a handler throws: a state but no callbacks.
PrepareThrows ==
  /\ Handles({"prepare"})
  /\ IsHandled(Head(queue).id)
  /\ Fault
  /\ store' = [store EXCEPT ![Head(queue).id].state = TRUE]
  /\ Ends("action")
  /\ UNCHANGED <<told, ran>>

\* handleStartEvent, handlePauseEvent, handleResumeEvent, handleCancelEvent
handleCallbackEvent ==
  /\ Handles(Callback)
  /\ IsHandled(Head(queue).id)
  /\ LET id == Head(queue).id
     IN IF store[id].callbacks /\ store[id].state
        THEN /\ told' = [told EXCEPT ![id] = Head(queue).name]
             /\ ran' = IF Head(queue).name = "start" THEN ran \cup {store[id]} ELSE ran
             /\ UNCHANGED alive
        ELSE Ends("action") /\ UNCHANGED <<told, ran>>
  /\ UNCHANGED <<faults, store>>

handleForgetEvent ==
  /\ Handles({"forget"})
  /\ IsHandled(Head(queue).id)
  /\ store' = Restrict(store, DOMAIN store \ {Head(queue).id})
  /\ UNCHANGED <<faults, told, ran, alive>>

-----------------------------------------------------------------------------
(* The AGV *)

\* What the AGV reports after a callback.
Answers ==
  [nothing |-> {},
   start   |-> {"is_running", "is_finished", "is_failed"},
   pause   |-> {"is_paused", "is_failed"},
   resume  |-> {"is_running", "is_failed"},
   cancel  |-> {"is_failed", "is_finished"}]

\* ActionState::setRunning, setPaused, setFinished, setFailed
Report(id) == \E t \in Answers[told[id]] : Transition(id, t)

-----------------------------------------------------------------------------

MessageThread    == handleOrderMessage \/ handleInstantActionsMessage \/ ValidationTimesOut \/ handleValid
ValidationThread ==
  OrderChecks \/ ZoneAnswered \/ QueryThrows \/ QueryTimesOut \/ ValidateAction \/ ValidateThrows \/ Gather
ActionThread     ==
  Skip \/ handlePrepareEvent \/ PrepareThrows \/ handleCallbackEvent \/ handleForgetEvent

Next ==
  \/ \E m \in Messages : Send(m)
  \/ MessageThread \/ ValidationThread \/ ActionThread
  \/ \E id \in Id : Schedule(id) \/ Control(id) \/ Dismiss(id) \/ Report(id)

Spec == Init /\ [][Next]_vars

-----------------------------------------------------------------------------
(* Properties *)

\* The places in the sent messages where the id stands.
Places(id) ==
  UNION {{<<n, i>> : i \in {i \in DOMAIN sent[n].items : sent[n].items[i].action.id = id}} : n \in DOMAIN sent}

\* VDA5050 has an action id used for one action only.
UsedOnce(id) == \A p, q \in Places(id) : p = q

DeclaredFor(item) ==
  \E decls \in {ControlDeclarations} \cup {Handlers[h] : h \in DOMAIN Handlers} :
    \E d \in decls : Allowed(item.action, item.context, d)

\* A handler is started only for an action it declares, in a context of an order, and
\* finds each required parameter in the map it was prepared with, whatever ids other
\* messages use and whatever of them is refused.
OnlyDeclaredActionsRun ==
  \A s \in ran :
    \E d \in Handlers[s.handler] : \E context \in {"node", "edge"} :
      /\ Allowed(s.action, context, d)
      /\ \A r \in d.required : \E p \in s.parsed : p.key = r.key /\ p.type = r.type

\* A message is found valid only if all its actions, those of the horizon as well, are
\* declared for where they stand, with parameters in their ranges, and their ids differ.
AcceptedIsValid ==
  \A n \in accepted :
    /\ \A i \in DOMAIN sent[n].items : DeclaredFor(sent[n].items[i])
    /\ Cardinality(IdsOf(sent[n].items)) = Len(sent[n].items)

\* As long as ids are used once and the code of the AGV is quick and throws nothing, no
\* message ends a thread: a callback is never called before prepare set it.
ThreadsLive ==
  faults = 0 /\ (\A id \in Id : UsedOnce(id)) => alive = Thread

OrderedOf(id) ==
  \E n \in accepted : sent[n].kind = "order" /\ id \in IdsOf(sent[n].items)

\* Once the events are worked off, the AGV is where the scheduler is: an action of an
\* order that was started has been started at the AGV, and one that is over is forgotten.
AgvFollows ==
  queue = <<>> /\ Goes("action") =>
    \A id \in Id : OrderedOf(id) /\ UsedOnce(id) /\ id \in known =>
      /\ task[id] = "Initializing" => told[id] = "start"
      /\ task[id] \in ActionTerminal \cup {NoTask} => ~IsHandled(id)
===============================================================================
