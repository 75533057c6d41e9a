------------------------------ MODULE Connection ------------------------------
(***************************************************************************)
(* How the library is online (core/messages, core/instance, observer): the *)
(* MqttModule between the control event thread, which connects and         *)
(* disconnects, the thread of the MQTT client, which calls it back, and    *)
(* the message event thread, which sends; the life of the Instance; the    *)
(* MessageEventHandler and the MessageObserver on the message queue.       *)
(*                                                                         *)
(* The MQTT client and the broker are external.  The client takes what is  *)
(* published only while it is connected and throws a mqtt::exception       *)
(* otherwise; nothing in the library catches that, nor anything thrown     *)
(* in a callback, and the process ends: dead.  Messages are qos 0.         *)
(***************************************************************************)
EXTENDS Integers, Sequences, FiniteSets

CONSTANTS
  Configurations,  \* the sets of modules a black or white list leaves
  Sends,           \* what other components want sent
  Arrivals,        \* what the broker delivers
  MaxEvents,       \* how often something is sent, arrives or goes wrong
  MaxRuns,         \* how often the instance is initialized
  QuietRuns        \* how many runs, the first ones, the application ends in a quiet moment

ASSUME ConnectionAssumption ==
  /\ Configurations \subseteq SUBSET {"mqtt", "handler"}
  /\ Sends \subseteq {"state", "visualization", "factsheet"}
  /\ Arrivals \subseteq {"order", "instantActions", "malformed", "other"}
  /\ {MaxEvents, MaxRuns, QuietRuns} \subseteq Nat

VARIABLES
  app,       \* where the application is in Handle::initialize and shutdown
  module,    \* state_, the sequence ids and whether there is a mqtt_client_
  listeners, \* which modules listen on the event queues
  control,   \* the control event queue and its thread
  message,   \* the message event queue and its thread
  client,    \* the connection of the MQTT client, and its thread's callback
  broker,    \* what the broker has: the session, the retained message, the ids it got last
  observer,  \* a MessageObserver
  left,      \* how many events and runs are left
  dead       \* whether the process has ended

vars == <<app, module, listeners, control, message, client, broker, observer, left, dead>>

State      == {"constructed", "initialized", "offline", "online", "error"}
Topic      == {"connection", "state", "visualization", "factsheet"}
Connected  == {"ONLINE", "OFFLINE", "CONNECTIONBROKEN"}
None       == "none"

NoCounts == [t \in Topic |-> 0]
NoHeader == -1

NoInstance == [queue |-> <<>>, at |-> "idle", id |-> NoHeader]
NoClient   == [net |-> "none", at |-> "idle", id |-> NoHeader]
NoObserver ==
  [observes |-> FALSE, orders |-> 0, instantActions |-> 0, sent |-> NoCounts, errors |-> 0,
   status |-> None]

\* In a quiet run the application calls shutdown while no callback is running or due, and
\* the network stays as it is until the shutdown is over.
Quiet == MaxRuns - left.runs <= QuietRuns

Init ==
  /\ app = "down"
  /\ module = [state |-> "constructed", seq |-> NoCounts, client |-> FALSE]
  /\ listeners = {}
  /\ control = NoInstance /\ message = NoInstance /\ client = NoClient
  /\ broker = [session |-> FALSE, retained |-> None, got |-> [t \in Topic |-> NoHeader]]
  /\ observer = NoObserver
  /\ left = [events |-> MaxEvents, runs |-> MaxRuns]
  /\ dead = FALSE

-----------------------------------------------------------------------------
(* Helpers *)

\* An exception nothing catches.
Dies ==
  /\ dead' = TRUE
  /\ UNCHANGED <<app, module, listeners, control, message, client, broker, observer, left>>

\* What the queue is once event has been dispatched.
Dispatched(event) == [message EXCEPT !.queue = Append(@, event)]

Event(name, what) == [name |-> name, what |-> what]

\* ..._seq_id_++ gives the header the id that was read, and writes the next.
FillHeader(topic, id) == [module EXCEPT !.seq[topic] = id + 1]

\* The client sends, the broker receives.
Received(topic, id) == [broker EXCEPT !.got[topic] = id]

\* A slip: the connection message is sent without set_retained.
RetainedNot(connection, id) == Received("connection", id)

Retained(connection, id) ==
  [Received("connection", id) EXCEPT !.retained = connection]

CanPublish == module.client /\ client.net = "up"

\* The broker publishes the will of a client that went without a word.
WillPublished == [broker EXCEPT !.session = FALSE, !.retained = "CONNECTIONBROKEN"]

-----------------------------------------------------------------------------
(* The life of the instance *)

\* The module with its client, whose will takes the first connection id.
ModuleInitialized ==
  [state |-> "initialized", seq |-> [NoCounts EXCEPT !["connection"] = 1], client |-> TRUE]

\* start() dispatches k_connect and requests a state, which the timer dispatches.
Start ==
  /\ control' = [control EXCEPT !.queue = <<"connect">>]
  /\ message' = [message EXCEPT !.queue = <<Event("send", "state")>>]

\* Handle::initialize: the listed modules are initialized and the instance is started.
Initialize(listed) ==
  /\ app = "down" /\ left.runs > 0 /\ ~dead
  /\ app' = "up"
  /\ left' = [left EXCEPT !.runs = @ - 1]
  /\ listeners' = listed
  /\ module' = IF "mqtt" \in listed THEN ModuleInitialized ELSE module
  /\ Start
  /\ broker' = [broker EXCEPT !.got = [t \in Topic |-> NoHeader]]
  /\ UNCHANGED <<client, observer, dead>>

\* The module has asked for its connection, and no callback of the client is running or due.
Settled ==
  control.queue = <<>> /\ client.at = "idle" /\ client.net \in {"none", "up", "retrying"}

\* The network may change.
Changes == Quiet => app \in {"down", "up"}

\* Handle::shutdown: stop() dispatches k_disconnect and waits for its result.
Shutdown ==
  /\ app = "up" /\ ~dead
  /\ Quiet => Settled
  /\ app' = "stopping"
  /\ control' = [control EXCEPT !.queue = Append(@, "disconnect")]
  /\ UNCHANGED <<module, listeners, message, client, broker, observer, left, dead>>

\* A slip: stop() waits for the result, however long it takes.
StopWaits ==
  /\ app = "stopping" /\ ~dead
  /\ control.queue = <<>> /\ control.at = "idle" /\ "mqtt" \in listeners
  /\ app' = "handler"
  /\ UNCHANGED <<module, listeners, control, message, client, broker, observer, left, dead>>

\* The result is there, or a second has passed: no listener sets it, its thread has ended
\* or waits for the network.  In a second the thread of the client has done its callback.
StopReturns ==
  /\ app = "stopping" /\ ~dead
  /\ \/ control.queue = <<>> /\ control.at = "idle" /\ "mqtt" \in listeners
     \/ /\ \/ control.queue = <<>> /\ control.at = "idle"
           \/ control.at \in IF Quiet THEN {"ended"} ELSE {"ended", "sent"}
        /\ client.at = "idle" /\ client.net # "broken"
  /\ app' = "handler"
  /\ UNCHANGED <<module, listeners, control, message, client, broker, observer, left, dead>>

\* Instance::reset deinitializes the modules in the order of their keys.
DeinitializeHandler ==
  /\ app = "handler" /\ ~dead
  /\ app' = "mqtt"
  /\ listeners' = listeners \ {"handler"}
  /\ UNCHANGED <<module, control, message, client, broker, observer, left, dead>>

DeinitializeSubscribers ==
  /\ app = "mqtt" /\ ~dead
  /\ app' = "client"
  /\ listeners' = listeners \ {"mqtt"}
  /\ UNCHANGED <<module, control, message, client, broker, observer, left, dead>>

\* mqtt_client_.reset() closes the session with a DISCONNECT, which drops the will, ...
DeinitializeClient ==
  /\ app = "client" /\ ~dead
  /\ app' = "callback"
  /\ module' = [module EXCEPT !.client = FALSE]
  /\ client' = [client EXCEPT !.net = "none"]
  /\ broker' = IF client.net = "up" THEN [broker EXCEPT !.session = FALSE] ELSE broker
  /\ UNCHANGED <<listeners, control, message, observer, left, dead>>

\* ... and waits for the thread of the client.
DeinitializeState ==
  /\ app = "callback" /\ client.at = "idle" /\ ~dead
  /\ app' = "threads"
  /\ module' = [module EXCEPT !.state = "constructed"]
  /\ UNCHANGED <<listeners, control, message, client, broker, observer, left, dead>>

\* The event managers go with the instance: their threads stop after what they are doing,
\* and the events they have not come to are lost.  The application has let its observer go.
DestroyInstance ==
  /\ app = "threads" /\ ~dead
  /\ control.at \in {"idle", "ended"} /\ message.at \in {"idle", "ended"}
  /\ app' = "down"
  /\ control' = NoInstance /\ message' = NoInstance /\ observer' = NoObserver
  /\ UNCHANGED <<module, listeners, client, broker, left, dead>>

\* The application makes a MessageObserver, once in a run.
Observe ==
  /\ app = "up" /\ ~observer.observes /\ ~dead
  /\ observer' = [observer EXCEPT !.observes = TRUE]
  /\ UNCHANGED <<app, module, listeners, control, message, client, broker, left, dead>>

-----------------------------------------------------------------------------
(* The control event thread *)

\* Its event is taken, and the thread goes on at step or ends.
Controlled(step, id) ==
  control' = [queue |-> Tail(control.queue), at |-> step, id |-> id]

\* Its event is at the front and the module listens.
Controls(event) ==
  /\ control.at = "idle" /\ control.queue # <<>> /\ Head(control.queue) = event
  /\ "mqtt" \in listeners /\ ~dead

ControlUnheard ==
  /\ control.at = "idle" /\ control.queue # <<>> /\ "mqtt" \notin listeners /\ ~dead
  /\ app # "down"
  /\ Controlled("idle", NoHeader)
  /\ UNCHANGED <<app, module, listeners, message, client, broker, observer, left, dead>>

\* MqttModule::connect: nothing but the start of the instance asks for it.
Connect ==
  /\ Controls("connect")
  /\ IF module.state \in {"initialized", "offline"}
       THEN Controlled("idle", NoHeader) /\ client' = [client EXCEPT !.net = "connecting"]
       ELSE Controlled("ended", NoHeader) /\ UNCHANGED client
  /\ UNCHANGED <<app, module, listeners, message, broker, observer, left, dead>>

\* MqttModule::disconnect throws, and ends the thread, unless the module is online.
DisconnectFails ==
  /\ Controls("disconnect") /\ module.state # "online"
  /\ Controlled("ended", NoHeader)
  /\ UNCHANGED <<app, module, listeners, message, client, broker, observer, left, dead>>

\* It reads the id of its message, ...
DisconnectReads ==
  /\ Controls("disconnect") /\ module.state = "online"
  /\ Controlled("filling", module.seq["connection"])
  /\ UNCHANGED <<app, module, listeners, message, client, broker, observer, left, dead>>

\* ... and writes the next: nothing keeps the thread of the client from counting meanwhile.
DisconnectFills ==
  /\ control.at = "filling" /\ ~dead
  /\ module' = FillHeader("connection", control.id)
  /\ control' = [control EXCEPT !.at = "filled"]
  /\ UNCHANGED <<app, listeners, message, client, broker, observer, left, dead>>

DisconnectSends ==
  /\ control.at = "filled" /\ ~dead
  /\ IF module.state = "online" /\ ~CanPublish
       THEN Dies
       ELSE /\ control' = [control EXCEPT !.at = IF module.state = "online" THEN "sent" ELSE "ended"]
            /\ broker' = IF module.state = "online" THEN Retained("OFFLINE", control.id) ELSE broker
            /\ UNCHANGED <<app, module, listeners, message, client, observer, left, dead>>

\* mqtt_client_->disconnect()->wait(): the session ends without the will.
DisconnectWaits ==
  /\ control.at = "sent" /\ ~dead
  /\ IF CanPublish
       THEN /\ client' = [client EXCEPT !.net = "none"]
            /\ broker' = [broker EXCEPT !.session = FALSE]
            /\ control' = [control EXCEPT !.at = "left"]
            /\ UNCHANGED <<app, module, listeners, message, observer, left, dead>>
       ELSE Dies

DisconnectTells ==
  /\ control.at = "left" /\ ~dead
  /\ module' = [module EXCEPT !.state = "offline"]
  /\ message' = Dispatched(Event("status", "offline"))
  /\ control' = [control EXCEPT !.at = "idle"]
  /\ UNCHANGED <<app, listeners, client, broker, observer, left, dead>>

-----------------------------------------------------------------------------
(* The thread of the MQTT client *)

\* The broker takes the connection; a session it still has for the client ends first.
Accept(net) ==
  /\ client.net = net /\ client.at = "idle" /\ ~dead
  /\ Changes
  /\ client' = [client EXCEPT !.net = "up", !.at = "connected"]
  /\ broker' = [broker EXCEPT !.session = TRUE,
                              !.retained = IF broker.session THEN "CONNECTIONBROKEN" ELSE @]
  /\ UNCHANGED <<app, module, listeners, control, message, observer, left, dead>>

\* on_failure: the first connection fails, and nothing tries it again.
Refuse ==
  /\ client.net = "connecting" /\ client.at = "idle" /\ left.events > 0 /\ ~dead
  /\ Changes
  /\ left' = [left EXCEPT !.events = @ - 1]
  /\ client' = [client EXCEPT !.net = "none"]
  /\ message' = Dispatched(Event("error", "delivery"))
  /\ UNCHANGED <<app, module, listeners, control, broker, observer, dead>>

\* The error handler of the TLS options, while a connection is tried.
SslError ==
  /\ client.net \in {"connecting", "retrying"} /\ client.at = "idle" /\ left.events > 0 /\ ~dead
  /\ Changes
  /\ left' = [left EXCEPT !.events = @ - 1]
  /\ module' = [module EXCEPT !.state = "error"]
  /\ UNCHANGED <<app, listeners, control, message, client, broker, observer, dead>>

\* The connection is gone, and the client knows before it calls connection_lost.
Break ==
  /\ client.net = "up" /\ left.events > 0 /\ ~dead
  /\ Changes
  /\ left' = [left EXCEPT !.events = @ - 1]
  /\ client' = [client EXCEPT !.net = "broken"]
  /\ UNCHANGED <<app, module, listeners, control, message, broker, observer, dead>>

\* The broker notices that the client is gone, or its process.
BrokerNotices ==
  /\ broker.session /\ (client.net # "up" \/ dead)
  /\ broker' = WillPublished
  /\ UNCHANGED <<app, module, listeners, control, message, client, observer, left, dead>>

\* connected: subscribes to orders and instant actions, ...
ConnectedSubscribes ==
  /\ client.at = "connected" /\ ~dead
  /\ IF CanPublish
       THEN /\ client' = [client EXCEPT !.at = "subscribed"]
            /\ UNCHANGED <<app, module, listeners, control, message, broker, observer, left,
                           dead>>
       ELSE Dies

\* ... is online, ...
ConnectedOnline ==
  /\ client.at = "subscribed" /\ ~dead
  /\ module' = [module EXCEPT !.state = "online"]
  /\ client' = [client EXCEPT !.at = "online"]
  /\ UNCHANGED <<app, listeners, control, message, broker, observer, left, dead>>

\* ... tells so, reads the id of the connection message, ...
ConnectedTells ==
  /\ client.at = "online" /\ ~dead
  /\ message' = Dispatched(Event("status", "online"))
  /\ client' = [client EXCEPT !.at = "filling", !.id = module.seq["connection"]]
  /\ UNCHANGED <<app, module, listeners, control, broker, observer, left, dead>>

\* ... writes the next ...
ConnectedFills ==
  /\ client.at = "filling" /\ ~dead
  /\ module' = FillHeader("connection", client.id)
  /\ client' = [client EXCEPT !.at = "filled"]
  /\ UNCHANGED <<app, listeners, control, message, broker, observer, left, dead>>

\* ... and sends it; sendConnection throws in the callback unless the module is online.
ConnectedSends ==
  /\ client.at = "filled" /\ ~dead
  /\ IF module.state = "online" /\ CanPublish
       THEN /\ broker' = Retained("ONLINE", client.id)
            /\ client' = [client EXCEPT !.at = "idle", !.id = NoHeader]
            /\ UNCHANGED <<app, module, listeners, control, message, observer, left, dead>>
       ELSE Dies

\* A slip: connection_lost sets the state before it looks whether the module was online.
LostTellsLate ==
  /\ client.net = "broken" /\ client.at = "idle" /\ ~dead
  /\ client' = [client EXCEPT !.at = "lost"]
  /\ module' = [module EXCEPT !.state = "offline"]
  /\ UNCHANGED <<app, listeners, control, message, broker, observer, left, dead>>

\* connection_lost: tells once that the module is offline ...
LostTells ==
  /\ client.net = "broken" /\ client.at = "idle" /\ ~dead
  /\ Changes
  /\ client' = [client EXCEPT !.at = "lost"]
  /\ message' = IF module.state = "online" THEN Dispatched(Event("status", "offline"))
                                           ELSE message
  /\ UNCHANGED <<app, module, listeners, control, broker, observer, left, dead>>

\* A slip: the sequence ids start anew with every connection.
LostOfflineAnew ==
  /\ client.at = "lost" /\ ~dead
  /\ client' = [client EXCEPT !.at = "idle", !.net = IF @ = "broken" THEN "retrying" ELSE @]
  /\ module' = [module EXCEPT !.state = "offline", !.seq = NoCounts]
  /\ UNCHANGED <<app, listeners, control, message, broker, observer, left, dead>>

\* A slip: the client is not told to reconnect automatically.
LostForGood ==
  /\ client.at = "lost" /\ ~dead
  /\ client' = [client EXCEPT !.at = "idle", !.net = "none"]
  /\ module' = [module EXCEPT !.state = "offline"]
  /\ UNCHANGED <<app, listeners, control, message, broker, observer, left, dead>>

\* ... and is.  The client connects again by itself.
LostOffline ==
  /\ client.at = "lost" /\ ~dead
  /\ client' = [client EXCEPT !.at = "idle", !.net = IF @ = "broken" THEN "retrying" ELSE @]
  /\ module' = [module EXCEPT !.state = "offline"]
  /\ UNCHANGED <<app, listeners, control, message, broker, observer, left, dead>>

\* message_arrived: a message on another topic, one an older session subscribed to, makes
\* no event, and none is dispatched.
Arrive(kind) ==
  /\ client.net = "up" /\ client.at = "idle" /\ left.events > 0 /\ ~dead
  /\ IF kind = "other"
       THEN Dies
       ELSE /\ message' = Dispatched(IF kind = "malformed" THEN Event("error", "json")
                                                           ELSE Event("receive", kind))
            /\ left' = [left EXCEPT !.events = @ - 1]
            /\ UNCHANGED <<app, module, listeners, control, client, broker, observer, dead>>

-----------------------------------------------------------------------------
(* The message event thread *)

\* A timer or the factsheet action dispatches a message to send.
Dispatch(topic) ==
  /\ app \notin {"down", "threads"} /\ left.events > 0 /\ ~dead
  /\ message' = Dispatched(Event("send", topic))
  /\ left' = [left EXCEPT !.events = @ - 1]
  /\ UNCHANGED <<app, module, listeners, control, client, broker, observer, dead>>

\* The event at the front of the queue has the name.
Handles(name) ==
  /\ app # "down" /\ message.at = "idle" /\ message.queue # <<>> /\ ~dead
  /\ Head(message.queue).name = name

What == Head(message.queue).what

Done(queue) == [message EXCEPT !.queue = queue, !.at = "idle", !.id = NoHeader]

Counted(topic) ==
  IF observer.observes THEN [observer EXCEPT !.sent[topic] = @ + 1] ELSE observer

\* The listener of the module fills the header, ...
SendFills ==
  /\ Handles("send") /\ "mqtt" \in listeners
  /\ module' = FillHeader(What, module.seq[What])
  /\ message' = [message EXCEPT !.at = "filled", !.id = module.seq[What]]
  /\ UNCHANGED <<app, listeners, control, client, broker, observer, left, dead>>

\* ... sends if the module is online, and drops the message otherwise.  The observer counts.
SendSends ==
  /\ message.at = "filled" /\ ~dead
  /\ IF module.state = "online" /\ ~CanPublish
       THEN Dies
       ELSE /\ broker' = IF module.state = "online" THEN Received(What, message.id) ELSE broker
            /\ message' = Done(Tail(message.queue))
            /\ observer' = Counted(What)
            /\ UNCHANGED <<app, module, listeners, control, client, left, dead>>

SendUnheard ==
  /\ Handles("send") /\ "mqtt" \notin listeners
  /\ message' = Done(Tail(message.queue))
  /\ observer' = Counted(What)
  /\ UNCHANGED <<app, module, listeners, control, client, broker, left, dead>>

\* handleOrderMessage and handleInstantActionsMessage: a valid message is dispatched as
\* such; a duplicate order and one with errors are not.
HandleReceive ==
  /\ Handles("receive")
  /\ \/ /\ "handler" \in listeners
        /\ message' = Done(Append(Tail(message.queue), Event("valid", What)))
     \/ message' = Done(Tail(message.queue))
  /\ UNCHANGED <<app, module, listeners, control, client, broker, observer, left, dead>>

\* A validation that takes a second throws, and the thread ends.
ValidationTimesOut ==
  /\ Handles("receive") /\ What = "order" /\ "handler" \in listeners
  /\ message' = [message EXCEPT !.at = "ended"]
  /\ UNCHANGED <<app, module, listeners, control, client, broker, observer, left, dead>>

HandleObserved ==
  /\ Handles("valid") \/ Handles("error") \/ Handles("status")
  /\ message' = Done(Tail(message.queue))
  /\ observer' =
       IF ~observer.observes THEN observer
       ELSE CASE Handles("error")  -> [observer EXCEPT !.errors = @ + 1]
              [] Handles("status") -> [observer EXCEPT !.status = What]
              [] Handles("valid")  -> IF What = "order" THEN [observer EXCEPT !.orders = @ + 1]
                                      ELSE [observer EXCEPT !.instantActions = @ + 1]
  /\ UNCHANGED <<app, module, listeners, control, client, broker, left, dead>>

-----------------------------------------------------------------------------

Application ==
  \/ \E listed \in Configurations : Initialize(listed)
  \/ Shutdown \/ Observe
  \/ \E t \in Sends : Dispatch(t)

Reset ==
  \/ StopReturns \/ DeinitializeHandler \/ DeinitializeSubscribers \/ DeinitializeClient
  \/ DeinitializeState \/ DestroyInstance

Control ==
  \/ ControlUnheard \/ Connect \/ DisconnectFails \/ DisconnectReads \/ DisconnectFills
  \/ DisconnectSends \/ DisconnectWaits \/ DisconnectTells

Callback ==
  \/ ConnectedSubscribes \/ ConnectedOnline \/ ConnectedTells \/ ConnectedFills
  \/ ConnectedSends \/ LostTells \/ LostOffline

Network ==
  \/ Accept("connecting") \/ Accept("retrying") \/ Refuse \/ SslError \/ Break
  \/ BrokerNotices
  \/ \E kind \in Arrivals : Arrive(kind)

Messages ==
  \/ SendFills \/ SendSends \/ SendUnheard \/ HandleReceive \/ ValidationTimesOut
  \/ HandleObserved

Next == Application \/ Reset \/ Control \/ Callback \/ Network \/ Messages

\* Every thread runs on, the network takes a client that tries again, and the broker
\* notices a client that is gone.
Fairness ==
  /\ WF_vars(Reset) /\ WF_vars(Control) /\ WF_vars(Callback) /\ WF_vars(Messages)
  /\ WF_vars(Accept("retrying")) /\ WF_vars(BrokerNotices)

Spec == Init /\ [][Next]_vars /\ Fairness

-----------------------------------------------------------------------------
(* Properties *)

\* No thread is in the middle of going online or offline.
Calm ==
  /\ client.at = "idle" /\ client.net # "broken" /\ control.at \in {"idle", "ended"} /\ ~dead

\* The status the observers were told last, or are about to be.
LastTold(status) ==
  LET q == message.queue
  IN \/ observer.status = status /\ \A i \in DOMAIN q : q[i].name # "status"
     \/ \E i \in DOMAIN q :
          q[i] = Event("status", status) /\ \A j \in i+1 .. Len(q) : q[j].name # "status"

\* The status the observers hear last is the one the module has: no lost connection and
\* no shutdown in a quiet moment leaves an observer with a status of before.
ObserversKnow ==
  Quiet /\ Calm /\ app \in {"up", "stopping", "handler", "mqtt"} =>
    \A status \in {"online", "offline"} :
      LastTold(status) => (status = "online" <=> module.state = "online")

\* What the broker retains is true as long as shutdowns are quiet: ONLINE while the client
\* is connected, and no longer once the instance is down and the session has ended.
RetainedIsTrue ==
  Quiet /\ Calm =>
          /\ client.net = "up" => broker.retained = "ONLINE" /\ module.state = "online"
          /\ app = "down" /\ ~broker.session => broker.retained # "ONLINE"

\* A shutdown may come in the middle of a callback, and disconnect has read its id.
Crossing == ~Quiet /\ control.id # NoHeader

\* The header ids the broker receives on a topic count up over every loss of the
\* connection, whatever a shutdown comes in the middle of.  Only disconnect and connected
\* take their ids from the same counter: where they cross, each may send what it filled
\* after the other, or undo the other's counting.  Even then no message is older than the
\* one that may have been on its way when disconnect read its id.
HeadersIncrease ==
  [][\A t \in Topic : app # "down" /\ broker'.got[t] # broker.got[t] =>
       \/ broker'.got[t] > broker.got[t]
       \/ t = "connection" /\ Crossing /\ broker'.got[t] >= control.id - 1]_vars

\* A client that has lost its connection is online again, unless it is shut down.
ComesBack ==
  (client.net = "broken" /\ app = "up")
    ~> (broker.retained = "ONLINE" /\ module.state = "online") \/ app # "up" \/ dead

\* A shutdown ends, whether the module is online or not and whichever thread has ended.
ShutdownEnds == (app = "stopping") ~> (app = "down" \/ dead)
===============================================================================
