-------------------------- MODULE StateUpdatesProofs --------------------------
(***************************************************************************)
(* StateUpdates for every period, every delay of urgent requests and every *)
(* plan: that a change is in a State message when the period is over, and  *)
(* in time when what changed is urgent and no request met an awake timer.  *)
(***************************************************************************)
EXTENDS StateUpdates, TLAPS

-------------------------------------------------------------------------------
(* Types *)

Values  == Nat \cup {unset}
Content ==
  {c \in [Field -> Values \cup OrderStatuses] :
     c["status"] \in OrderStatuses /\ \A f \in Field \ {"status"} : c[f] \in Values}

ThreadPlace ==
  {"loop", "peek", "enter", "count", "sleep", "interrupted", "expired", "due", "status",
   "dispatch", "sent", "clear", "reset", "ended"}
RequestPlace ==
  {"none", "write", "order", "status", "dispatch", "sent", "clear", "disable", "clearance",
   "enable"}
ControlPlace ==
  {"up", "forgets", "unsubscribes", "stops", "disables", "joins", "disables visual",
   "stops visual", "joins visual", "down"}

ThreadType  == [Timer -> [pc : ThreadPlace, wake : Nat]]
TimerType   == [Timer -> [terminate : BOOLEAN, waiting : Int]]
RequestType == [pc : RequestPlace, point : Nat]
QueueType   == [EventThread -> Seq(Calls)]
AskedType   == Seq({"high", "immediate"})
MessageType == [Field -> Int]
DumpType    == [{"state", "request"} -> MessageType]
AgeType     == [Field -> Nat]
PlanType    ==
  [modules : {{"state"}, {"state", "visual"}}, calls : Seq(Calls), restarts : Nat]

TypeInv ==
  /\ is \in Content /\ queue \in QueueType /\ requests \in AskedType
  /\ timer \in TimerType /\ thread \in ThreadType /\ request \in RequestType
  /\ periodic \in 0..Period /\ next \in Nat \cup {never}
  /\ control \in ControlPlace /\ stop \in SUBSET Timer
  /\ dump \in DumpType /\ shown \in MessageType /\ age \in AgeType
  /\ missed \in {"no", "yes", "dumping"} /\ plan \in PlanType

-------------------------------------------------------------------------------
(* The invariant *)

\* Between a status and one that is not next to it in the scheduler an idle is announced.
Spaced(q) ==
  \A i, j \in DOMAIN q :
    i < j => Apart(q[i], q[j]) \/ \E k \in DOMAIN q : i < k /\ k < j /\ q[k] = "idle"

\* The state thread ends when the application wants it to, and sleeps where it is counted.
Lives ==
  /\ thread["state"].pc = "ended" => "state" \in stop
  /\ "state" \in stop => control \notin {"up", "forgets", "unsubscribes", "stops"}
  /\ control \in {"disables visual", "stops visual", "joins visual", "down"} =>
       thread["state"].pc = "ended"
  /\ timer["state"].waiting =
       IF thread["state"].pc \in {"sleep", "interrupted", "expired"} THEN 1 ELSE 0
  /\ request.pc = "clearance" => timer["state"].terminate

\* A message is complete when it is dispatched, and everything is new when it was.
Messages ==
  /\ thread["state"].pc = "status" => \A f \in OrderFields : dump["state"][f] # Nothing[f]
  /\ thread["state"].pc = "dispatch" => \A f \in Field : dump["state"][f] # Nothing[f]
  /\ request.pc = "status" => \A f \in OrderFields : dump["request"][f] # Nothing[f]
  /\ request.pc = "dispatch" => \A f \in Field : dump["request"][f] # Nothing[f]
  /\ thread["state"].pc = "sent" \/ request.pc = "sent" => \A f \in Field : age[f] = 0
  /\ \A f \in Urgent : Said(is)[f] = shown[f] => age[f] = 0

\* The state thread wakes up when the period is over, before any field is too old.
InPeriod ==
  control = "up" =>
    /\ thread["state"].wake <= periodic
    /\ \A f \in Field : age[f] + periodic <= Period

\* An urgent change is on its way to the timer.
Asked == (\E n \in DOMAIN requests : requests[n] = "high") \/ request.pc = "write"

\* It will be in the message that the state event thread sends.
Immediate ==
  \/ \E n \in DOMAIN requests : requests[n] = "immediate"
  \/ request.pc \in {"order", "status", "dispatch"}

Dumped(pc, f) == pc = "dispatch" \/ (pc = "status" /\ f \in OrderFields)

\* What has changed since it was dumped has been requested since.
DumpsAreNew ==
  \A f \in Urgent :
    /\ Dumped(thread["state"].pc, f) =>
         dump["state"][f] = Said(is)[f] \/ Asked \/ missed = "yes"
    /\ Dumped(request.pc, f) => dump["request"][f] = Said(is)[f] \/ Asked

\* The update that is scheduled comes in time for f and will not be taken back.
Scheduled(f) ==
  /\ next # never /\ age[f] + next <= High
  /\ thread["state"].pc \notin {"sent", "clear"} /\ request.pc \notin {"sent", "clear"}

Cared(f) ==
  \/ Said(is)[f] = shown[f]
  \/ age[f] = 0 /\ (Asked \/ Immediate)
  \/ Scheduled(f)

\* The thread sleeps no longer than until the update that is scheduled, unless it is about
\* to be woken.
WakesInTime ==
  next # never =>
    /\ thread["state"].pc \in {"enter", "count"} => thread["state"].wake <= next
    /\ thread["state"].pc = "sleep" =>
         thread["state"].wake <= next \/ request.pc \in {"disable", "clearance"}

InTime ==
  control = "up" =>
    /\ DumpsAreNew
    /\ request.pc = "write" => request.point <= High /\ (next # never => request.point <= next)
    /\ missed = "no" => (\A f \in Urgent : Cared(f)) /\ WakesInTime

Rest == Lives /\ Messages /\ InPeriod /\ InTime
Inv  == TypeInv /\ Spaced(Announced) /\ Rest

-------------------------------------------------------------------------------
(* Operators *)

LEMMA LeastIs ==
  ASSUME NEW x \in Nat \cup {never}, NEW y \in Nat
  PROVE  Least(x, y) = IF x = never THEN y ELSE IF x <= y THEN x ELSE y
<1>. CASE x = never
  BY DEF Least, never
<1>. CASE x # never
  <2>1. Least(x, y) = Min({x, y})
    BY DEF Least, never
  <2>2. CASE x <= y
    <3>1. \A z \in {x, y} : (\A w \in {x, y} : z <= w) <=> z = x
      BY <2>2 DEF never
    <3>. QED
      BY <2>1, <2>2, <3>1 DEF Min
  <2>3. CASE ~(x <= y)
    <3>1. \A z \in {x, y} : (\A w \in {x, y} : z <= w) <=> z = y
      BY <2>3 DEF never
    <3>. QED
      BY <2>1, <2>3, <3>1 DEF Min
  <2>. QED
    BY <2>2, <2>3
<1>. QED
  OBVIOUS

LEMMA FieldIs ==
  /\ Field = OrderFields \cup StatusFields /\ Urgent \subseteq Field
  /\ "status" \in Field /\ "order" \notin Urgent /\ Urgent \cap Sampled = {}
  BY DEF Field, OrderFields, StatusFields, Sampled, Urgent

LEMMA SaidType ==
  ASSUME NEW c \in Content
  PROVE  /\ Said(c) \in [Field -> Values]
         /\ \A f \in Field : Said(c)[f] = Told(f, c[f]) /\ Said(c)[f] # Nothing[f]
<1>1. \A f \in Field : Told(f, c[f]) \in Values
  BY DEF Content, Told, Values, unset
<1>2. \A f \in Field : Nothing[f] = -2
  BY DEF Nothing
<1>. QED
  BY <1>1, <1>2 DEF Said, Values, unset

LEMMA FreshType == Fresh \in Content
  BY FieldIs DEF Fresh, Content, Values, unset, OrderStatuses

-------------------------------------------------------------------------------
(* The handlers of the status, navigation, order and interpreter events *)

\* What becomes of a call.
Handled ==
  /\ is' \in Content
  /\ queue' \in QueueType
  /\ requests' = requests \/ requests' = Append(requests, "high")
  /\ (\A f \in Urgent : Said(is')[f] = Said(is)[f]) \/ requests' = Append(requests, "high")
  /\ age' = [f \in Field |-> IF Said(is')[f] = shown[f] THEN 0 ELSE age[f]]
  /\ UNCHANGED <<timers, request, clock, life, dump, shown, missed, plan>>

LEMMA TakesFirst ==
  ASSUME NEW t \in EventThread, NEW name, queue \in QueueType, Takes(t, name)
  PROVE  /\ Head(queue[t]) \in Calls /\ Head(queue[t]).value \in Nat
         /\ [queue EXCEPT ![t] = Tail(@)] \in QueueType
<1>1. queue[t] \in Seq(Calls) /\ queue[t] # <<>>
  BY DEF Takes, QueueType
<1>2. Head(queue[t]) \in Calls /\ Tail(queue[t]) \in Seq(Calls)
  BY <1>1
<1>3. \A c \in Calls : c.value \in Nat
  BY DEF Calls
<1>. QED
  BY <1>2, <1>3 DEF QueueType

\* A handler that changes a field which is not urgent.
LEMMA Changes ==
  ASSUME NEW c \in Content, NEW f \in Field \ {"status"}, NEW v \in Values
  PROVE  /\ [c EXCEPT ![f] = v] \in Content
         /\ \A g \in Field \ {f} : Said([c EXCEPT ![f] = v])[g] = Said(c)[g]
<1>1. [c EXCEPT ![f] = v] \in Content
  BY FieldIs DEF Content
<1>. QED
  BY <1>1, SaidType DEF Content

-------------------------------------------------------------------------------
(* The order of the statuses *)

\* A status before the names of a list of calls.
LEMMA NamesAfter ==
  ASSUME NEW s, NEW q \in Seq(Calls),
         NEW a, a = <<s>> \o [n \in DOMAIN q |-> q[n].name]
  PROVE  /\ DOMAIN a = 1..(Len(q) + 1)
         /\ a[1] = s
         /\ \A n \in 1..Len(q) : a[n + 1] = q[n].name
<1>. DEFINE r == [n \in DOMAIN q |-> q[n].name]
<1>2. DOMAIN q = 1..Len(q) /\ Len(q) \in Nat
  OBVIOUS
<1>3. DOMAIN r = 1..Len(q) /\ Len(r) = Len(q) /\ r \in Seq({q[n].name : n \in DOMAIN q})
  BY <1>2
<1>4. a = <<s>> \o r
  OBVIOUS
<1>6. \A n \in 1..Len(q) : r[n] = q[n].name
  BY <1>2
<1>. HIDE DEF r
<1>5. \A x : DOMAIN (<<x>> \o r) = 1..(Len(r) + 1) /\ (<<x>> \o r)[1] = x
         /\ \A n \in 1..Len(r) : (<<x>> \o r)[n + 1] = r[n]
  BY <1>3
<1>. QED
  BY <1>2, <1>3, <1>4, <1>5, <1>6

LEMMA AnnouncedIs ==
  ASSUME queue \in QueueType
  PROVE  /\ DOMAIN Announced = 1..(Len(queue["order"]) + 1)
         /\ Announced[1] = is.status
         /\ \A n \in 1..Len(queue["order"]) : Announced[n + 1] = queue["order"][n].name
<1>1. queue["order"] \in Seq(Calls)
  BY DEF EventThread, QueueType
<1>2. Announced = <<is.status>> \o [n \in DOMAIN queue["order"] |-> queue["order"][n].name]
  BY DEF Announced
<1>. QED
  BY <1>1, <1>2, NamesAfter

LEMMA StatusApart ==
  ASSUME queue \in QueueType, Spaced(Announced), NEW s, Takes("order", s)
  PROVE  Apart(is.status, s)
<1>1. queue["order"] \in Seq(Calls)
  BY DEF EventThread, QueueType
<1>2. Len(queue["order"]) \in Nat /\ 1 <= Len(queue["order"]) /\ s = queue["order"][1].name
  BY <1>1 DEF Takes
<1>3. 1 \in DOMAIN Announced /\ 2 \in DOMAIN Announced /\ Announced[2] = s
  BY <1>2, AnnouncedIs
<1>4. ~\E k \in DOMAIN Announced : 1 < k /\ k < 2
  BY <1>2, AnnouncedIs
<1>. QED
  BY <1>3, <1>4, AnnouncedIs DEF Spaced

\* The same after a step.
LEMMA AnnouncedAgain ==
  ASSUME (queue \in QueueType)'
  PROVE  /\ DOMAIN Announced' = 1..(Len(queue'["order"]) + 1)
         /\ Announced'[1] = is'.status
         /\ \A n \in 1..Len(queue'["order"]) : Announced'[n + 1] = queue'["order"][n].name
<1>1. queue'["order"] \in Seq(Calls)
  BY DEF EventThread, QueueType
<1>2. Announced' = <<is'.status>> \o [n \in DOMAIN queue'["order"] |-> queue'["order"][n].name]
  BY DEF Announced
<1>. QED
  BY <1>1, <1>2, NamesAfter

LEMMA HandlersHandle ==
  ASSUME TypeInv, Spaced(Announced), Handlers PROVE Handled
<1>1. is \in Content /\ queue \in QueueType
  BY DEF TypeInv
<1>2. \A f \in Field \ {"status"} : is[f] \in Values
  BY <1>1 DEF Content
<1>3. \A t \in EventThread : \A name : Takes(t, name) =>
        /\ Head(queue[t]).value \in Nat
        /\ [queue EXCEPT ![t] = Tail(@)] \in QueueType
  BY <1>1, TakesFirst
<1>4. \A f \in Field \ {"status"}, v \in Values :
        /\ [is EXCEPT ![f] = v] \in Content
        /\ \A g \in Field \ {f} : Said([is EXCEPT ![f] = v])[g] = Said(is)[g]
  BY <1>1, Changes
<1>5. {"loads", "mode", "battery", "newBase", "errors", "infos", "position", "velocity",
       "distance", "driving", "lastNode", "order", "action"} \subseteq Field \ {"status"}
  BY FieldIs DEF OrderFields, StatusFields, Sampled
<1>6. Nat \subseteq Values /\ unset \in Values /\ \A v \in Values : v # unset => v \in Nat
  BY DEF Values, unset
<1>7. {"battery", "position", "velocity", "distance", "order"} \cap Urgent = {}
  BY DEF Urgent, Sampled
<1>8. {"status", "navigation", "order", "interpreter"} \subseteq EventThread
  BY DEF EventThread
<1>81. \A f \in Field \ {"status"}, v \in Values : f \notin Urgent =>
        \A g \in Urgent : Said([is EXCEPT ![f] = v])[g] = Said(is)[g]
  BY <1>4, FieldIs
<1>. USE DEF Handled, Becomes
<1>9. CASE HandleGet
  BY <1>1, <1>3, <1>8, <1>9 DEF HandleGet
<1>10. CASE HandleLoadAdd
  <2>1. (IF is.loads = unset THEN 1 ELSE is.loads + 1) \in Nat
    BY <1>2, <1>5, <1>6
  <2>. QED
    BY <2>1, <1>3, <1>4, <1>5, <1>6, <1>8, <1>10 DEF HandleLoadAdd
<1>11. CASE HandleLoadRemove
  <2>. DEFINE found == is.loads > 0 /\ Head(queue.status).value = 1
  <2>1. CASE found
    <3>1. is.loads - 1 \in Nat
      BY <1>2, <1>5, <1>6, <2>1 DEF Values, unset
    <3>. QED
      BY <2>1, <3>1, <1>3, <1>4, <1>5, <1>6, <1>8, <1>11 DEF HandleLoadRemove
  <2>2. CASE ~found
    <3>1. [is EXCEPT !.loads = is.loads] = is
      BY <1>1 DEF Content
    <3>. QED
      BY <2>2, <3>1, <1>1, <1>3, <1>8, <1>11 DEF HandleLoadRemove
  <2>. QED
    BY <2>1, <2>2
<1>12. CASE HandleLoadsAlter
  BY <1>1, <1>3, <1>4, <1>5, <1>6, <1>8, <1>12 DEF HandleLoadsAlter, Altered
<1>13. CASE HandleOperatingMode
  <2>1. is.mode = Head(queue.status).value => [is EXCEPT !.mode = Head(queue.status).value] = is
    BY <1>1 DEF Content
  <2>. QED
    BY <2>1, <1>1, <1>3, <1>4, <1>5, <1>6, <1>8, <1>13 DEF HandleOperatingMode
<1>14. CASE HandleBatteryState
  <2>. DEFINE c == [is EXCEPT !.battery = Head(queue.status).value]
  <2>1. Takes("status", "setBatteryState") /\ Becomes("status", c, FALSE)
    BY <1>14 DEF HandleBatteryState
  <2>2. c \in Content /\ \A g \in Urgent : Said(c)[g] = Said(is)[g]
    BY <2>1, <1>3, <1>4, <1>5, <1>6, <1>7, <1>8, <1>81
  <2>. HIDE DEF c
  <2>. QED
    BY <2>1, <2>2, <1>3, <1>8
<1>15. CASE HandleRequestNewBase
  BY <1>3, <1>4, <1>5, <1>6, <1>8, <1>15 DEF HandleRequestNewBase
<1>16. CASE HandleErrorsAlter
  BY <1>3, <1>4, <1>5, <1>6, <1>8, <1>16 DEF HandleErrorsAlter, Altered
<1>17. CASE HandleErrorAdd
  <2>1. is.errors + 1 \in Values
    BY <1>2, <1>5 DEF Values, unset
  <2>. QED
    BY <2>1, <1>3, <1>4, <1>5, <1>8, <1>17 DEF HandleErrorAdd
<1>26. CASE HandleInfoAdd
  <2>1. is.infos + 1 \in Values
    BY <1>2, <1>5 DEF Values, unset
  <2>. QED
    BY <2>1, <1>3, <1>4, <1>5, <1>8, <1>26 DEF HandleInfoAdd
<1>18. CASE HandleInfosAlter
  BY <1>3, <1>4, <1>5, <1>6, <1>8, <1>18 DEF HandleInfosAlter, Altered
<1>19. CASE HandleNavigationSample
  <2>1. PICK f \in {"position", "velocity", "distance"} :
          /\ Takes("navigation", f)
          /\ Becomes("navigation", [is EXCEPT ![f] = Head(queue.navigation).value], FALSE)
    BY <1>19 DEF HandleNavigationSample
  <2>. DEFINE v == Head(queue.navigation).value
              c == [is EXCEPT ![f] = v]
  <2>2. f \in Field \ {"status"} /\ f \notin Urgent /\ v \in Values
    BY <2>1, <1>3, <1>5, <1>6, <1>7, <1>8
  <2>3. Becomes("navigation", c, FALSE)
    BY <2>1
  <2>. HIDE DEF v
  <2>4. c \in Content /\ \A g \in Urgent : Said(c)[g] = Said(is)[g]
    BY <2>2, <1>4, <1>81
  <2>. HIDE DEF c
  <2>. QED
    BY <2>1, <2>3, <2>4, <1>3, <1>8
<1>20. CASE HandleNavigationStatusDriving
  <2>1. is.driving = Head(queue.navigation).value =>
          [is EXCEPT !.driving = Head(queue.navigation).value] = is
    BY <1>1 DEF Content
  <2>. QED
    BY <2>1, <1>1, <1>3, <1>4, <1>5, <1>6, <1>8, <1>20 DEF HandleNavigationStatusDriving
<1>21. CASE HandleNavigationStatusNodeReached
  <2>1. is.lastNode = Head(queue.navigation).value =>
          [is EXCEPT !.lastNode = Head(queue.navigation).value] = is
    BY <1>1 DEF Content
  <2>. QED
    BY <2>1, <1>1, <1>3, <1>4, <1>5, <1>6, <1>8, <1>21 DEF HandleNavigationStatusNodeReached
<1>22. CASE HandleYields
  <2>. DEFINE c == [is EXCEPT !.order = Head(queue.interpreter).value]
  <2>1. Takes("interpreter", "order") /\ Becomes("interpreter", c, FALSE)
    BY <1>22 DEF HandleYields
  <2>2. c \in Content /\ \A g \in Urgent : Said(c)[g] = Said(is)[g]
    BY <2>1, <1>3, <1>4, <1>5, <1>6, <1>7, <1>8, <1>81
  <2>. HIDE DEF c
  <2>. QED
    BY <2>1, <2>2, <1>3, <1>8
<1>23. CASE HandleOrderNewLastNodeId
  <2>. DEFINE c == [is EXCEPT !.lastNode = Head(queue.order).value]
  <2>1. c \in Content
    BY <1>3, <1>4, <1>5, <1>6, <1>8, <1>23 DEF HandleOrderNewLastNodeId
  <2>2. [c EXCEPT !.distance = unset] \in Content
    BY <2>1, <1>5, <1>6, Changes
  <2>3. [is EXCEPT !.lastNode = Head(queue.order).value, !.distance = unset]
          = [c EXCEPT !.distance = unset]
    OBVIOUS
  <2>. QED
    BY <2>2, <2>3, <1>3, <1>8, <1>23 DEF HandleOrderNewLastNodeId
<1>24. CASE HandleOrderActionStatusChanged
  BY <1>3, <1>4, <1>5, <1>6, <1>8, <1>24 DEF HandleOrderActionStatusChanged
<1>25. CASE HandleOrderStatus
  <2>1. PICK s \in OrderStatuses :
          /\ Takes("order", s)
          /\ Becomes("order", [is EXCEPT !.status = s], IsPause(is.status) # IsPause(s))
    BY <1>25 DEF HandleOrderStatus
  <2>. DEFINE c == [is EXCEPT !.status = s]
  <2>2. c \in Content
    BY <1>1, FieldIs DEF Content
  <2>3. \A f \in Field \ {"status"} : Said(c)[f] = Said(is)[f]
    BY <1>1, <2>2, SaidType DEF Content, Told
  <2>4. IsPause(is.status) = IsPause(s) => Said(c)["status"] = Said(is)["status"]
    <3>1. Apart(is.status, s)
      BY <1>1, <1>8, <2>1, StatusApart
    <3>2. Said(c)["status"] = Told("status", s) /\ Said(is)["status"] = Told("status", is.status)
      BY <1>1, <2>2, SaidType, FieldIs DEF Content
    <3>. QED
      BY <3>1, <3>2 DEF Apart, IsPause, Told
  <2>. QED
    BY <2>1, <2>2, <2>3, <2>4, <1>3, <1>8, FieldIs
<1>. QED
  BY <1>9, <1>10, <1>11, <1>12, <1>13, <1>14, <1>15, <1>16, <1>17, <1>18, <1>19, <1>20,
     <1>21, <1>22, <1>23, <1>24, <1>25, <1>26 DEF Handlers

-------------------------------------------------------------------------------
(* The threads *)

LEMMA GoesIs ==
  ASSUME thread \in ThreadType, NEW t \in Timer, NEW from, NEW to \in ThreadPlace,
         Goes(t, from, to)
  PROVE  /\ thread[t].pc = from
         /\ thread' \in ThreadType
         /\ thread'[t].pc = to /\ thread'[t].wake = thread[t].wake
         /\ \A u \in Timer \ {t} : thread'[u] = thread[u]
<1>1. thread[t] \in [pc : ThreadPlace, wake : Nat]
  BY DEF ThreadType
<1>2. thread' = [thread EXCEPT ![t] = [thread[t] EXCEPT !.pc = to]]
  BY DEF Goes
<1>3. /\ [thread[t] EXCEPT !.pc = to] \in [pc : ThreadPlace, wake : Nat]
      /\ [thread[t] EXCEPT !.pc = to].pc = to
      /\ [thread[t] EXCEPT !.pc = to].wake = thread[t].wake
  BY <1>1
<1>. QED
  BY <1>2, <1>3 DEF Goes, ThreadType

LEMMA PutIs ==
  ASSUME thread \in ThreadType, NEW t \in Timer, NEW pc \in ThreadPlace, NEW wake \in Nat,
         thread' = [thread EXCEPT ![t] = [pc |-> pc, wake |-> wake]]
  PROVE  /\ thread' \in ThreadType
         /\ thread'[t].pc = pc /\ thread'[t].wake = wake
         /\ \A u \in Timer \ {t} : thread'[u] = thread[u]
  BY DEF ThreadType

LEMMA CountIs ==
  ASSUME timer \in TimerType, NEW t \in Timer,
         timer' = [timer EXCEPT ![t].waiting = @ + 1]
  PROVE  /\ timer' \in TimerType
         /\ timer'[t].waiting = timer[t].waiting + 1
         /\ timer'[t].terminate = timer[t].terminate
         /\ \A u \in Timer \ {t} : timer'[u] = timer[u]
<1>1. timer[t] \in [terminate : BOOLEAN, waiting : Int]
  BY DEF TimerType
<1>2. timer[t].waiting + 1 \in Int
  BY <1>1
<1>. DEFINE r == [timer[t] EXCEPT !.waiting = timer[t].waiting + 1]
<1>3. /\ r \in [terminate : BOOLEAN, waiting : Int]
      /\ r.waiting = timer[t].waiting + 1 /\ r.terminate = timer[t].terminate
  BY <1>1, <1>2
<1>4. timer' = [timer EXCEPT ![t] = r]
  OBVIOUS
<1>. HIDE DEF r
<1>. QED
  BY <1>3, <1>4 DEF TimerType

LEMMA UncountIs ==
  ASSUME timer \in TimerType, NEW t \in Timer,
         timer' = [timer EXCEPT ![t].waiting = @ - 1]
  PROVE  /\ timer' \in TimerType
         /\ timer'[t].waiting = timer[t].waiting - 1
         /\ timer'[t].terminate = timer[t].terminate
         /\ \A u \in Timer \ {t} : timer'[u] = timer[u]
<1>1. timer[t] \in [terminate : BOOLEAN, waiting : Int]
  BY DEF TimerType
<1>2. timer[t].waiting - 1 \in Int
  BY <1>1
<1>. DEFINE r == [timer[t] EXCEPT !.waiting = timer[t].waiting - 1]
<1>3. /\ r \in [terminate : BOOLEAN, waiting : Int]
      /\ r.waiting = timer[t].waiting - 1 /\ r.terminate = timer[t].terminate
  BY <1>1, <1>2
<1>4. timer' = [timer EXCEPT ![t] = r]
  OBVIOUS
<1>. HIDE DEF r
<1>. QED
  BY <1>3, <1>4 DEF TimerType

LEMMA SwitchIs ==
  ASSUME timer \in TimerType, NEW t \in Timer, NEW b \in BOOLEAN,
         timer' = [timer EXCEPT ![t].terminate = b]
  PROVE  /\ timer' \in TimerType
         /\ timer'[t].waiting = timer[t].waiting
         /\ timer'[t].terminate = b
         /\ \A u \in Timer \ {t} : timer'[u] = timer[u]
<1>1. timer[t] \in [terminate : BOOLEAN, waiting : Int]
  BY DEF TimerType
<1>. DEFINE r == [timer[t] EXCEPT !.terminate = b]
<1>2. r \in [terminate : BOOLEAN, waiting : Int]
      /\ r.waiting = timer[t].waiting /\ r.terminate = b
  BY <1>1
<1>3. timer' = [timer EXCEPT ![t] = r]
  OBVIOUS
<1>. HIDE DEF r
<1>. QED
  BY <1>2, <1>3 DEF TimerType

LEMMA RequestingIs ==
  ASSUME request \in RequestType, NEW from, NEW to \in RequestPlace, Requesting(from, to)
  PROVE  /\ request.pc = from
         /\ request' \in RequestType /\ request'.pc = to /\ request'.point = request.point
  BY DEF Requesting, RequestType

LEMMA TickIs ==
  ASSUME thread \in ThreadType, thread' = [t \in Timer |-> [thread[t] EXCEPT !.wake = Sooner(@)]]
  PROVE  /\ thread' \in ThreadType
         /\ \A t \in Timer : thread'[t].pc = thread[t].pc
                             /\ thread'[t].wake = Sooner(thread[t].wake)
<1>1. ASSUME NEW t \in Timer
      PROVE  /\ thread'[t] \in [pc : ThreadPlace, wake : Nat]
             /\ thread'[t].pc = thread[t].pc /\ thread'[t].wake = Sooner(thread[t].wake)
  <2>1. thread[t] \in [pc : ThreadPlace, wake : Nat]
    BY DEF ThreadType
  <2>2. Sooner(thread[t].wake) \in Nat
    BY <2>1 DEF Sooner
  <2>. DEFINE w == Sooner(thread[t].wake)
  <2>3. thread'[t] = [thread[t] EXCEPT !.wake = w]
    OBVIOUS
  <2>. HIDE DEF w
  <2>4. thread'[t] \in [pc : ThreadPlace, wake : Nat] /\ thread'[t].pc = thread[t].pc
        /\ thread'[t].wake = w
    BY <2>1, <2>2, <2>3 DEF w
  <2>. QED
    BY <2>4 DEF w
<1>. QED
  BY <1>1 DEF ThreadType

-------------------------------------------------------------------------------
(* Types *)

LEMMA ModulesIs ==
  ASSUME TypeInv
  PROVE  /\ Starting("state") = [pc |-> "loop", wake |-> 0]
         /\ Starting("visual") \in [pc : {"loop", "ended"}, wake : {0}]
  BY DEF TypeInv, PlanType, Starting

LEMMA TypeInit == Init => TypeInv
<1>. SUFFICES ASSUME Init PROVE TypeInv
  OBVIOUS
<1>1. plan \in PlanType
  BY PlansAssumption DEF Init, PlanType
<1>2. is \in Content
  BY FreshType DEF Init
<1>3. requests \in AskedType
  BY DEF Init, AskedType
<1>4. thread \in ThreadType
  BY DEF Init, Starting, ThreadPlace, ThreadType
<1>5. queue \in QueueType
  BY DEF Init, QueueType
<1>6. timer \in TimerType /\ request \in RequestType
  BY DEF Init, TimerType, RequestType, RequestPlace
<1>7. dump \in DumpType /\ shown \in MessageType /\ age \in AgeType
  BY DEF Init, DumpType, MessageType, AgeType, Nothing
<1>. QED
  BY <1>1, <1>2, <1>3, <1>4, <1>5, <1>6, <1>7, UpdatesAssumption
     DEF Init, TypeInv, ControlPlace, never

\* A message is put together.
LEMMA DumpsFieldsType ==
  ASSUME TypeInv, NEW who \in {"state", "request"}, NEW fields \in SUBSET Field,
         DumpFields(who, fields)
  PROVE  /\ dump' \in DumpType
         /\ \A w \in {"state", "request"} \ {who} : dump'[w] = dump[w]
         /\ \A f \in Field : dump'[who][f] = IF f \in fields THEN Said(is)[f] ELSE dump[who][f]
<1>1. Said(is) \in [Field -> Int]
  BY SaidType DEF TypeInv, Values, unset
<1>. QED
  BY <1>1 DEF TypeInv, DumpFields, DumpType, MessageType

LEMMA DispatchType ==
  ASSUME TypeInv, NEW who \in {"state", "request"}, Dispatch(who)
  PROVE  /\ dump' \in DumpType
         /\ \A w \in {"state", "request"} \ {who} : dump'[w] = dump[w]
         /\ shown' = dump[who] /\ shown' \in MessageType /\ age' \in AgeType
         /\ \A f \in Field : age'[f] = IF dump[who][f] = Nothing[f] THEN age[f] ELSE 0
         /\ missed' = IF who = "state" /\ missed = "dumping" THEN "no" ELSE missed
<1>1. Nothing \in [Field -> Int]
  BY DEF Nothing
<1>. QED
  BY <1>1 DEF TypeInv, Dispatch, DumpType, MessageType, AgeType

LEMMA TypeCall == TypeInv /\ Call => TypeInv'
<1>. SUFFICES ASSUME TypeInv, Call PROVE TypeInv'
  OBVIOUS
<1>1. plan.calls \in Seq(Calls) /\ plan.calls # <<>> /\ Tail(plan.calls) \in Seq(Calls)
      /\ Head(plan.calls) \in Calls
  BY DEF Call, TypeInv, PlanType
<1>2. Head(plan.calls).thread \in EventThread
  BY <1>1 DEF Calls, EventThread
<1>3. queue' \in QueueType
  BY <1>1, <1>2 DEF Call, TypeInv, QueueType
<1>4. plan' \in PlanType
  BY <1>1 DEF Call, TypeInv, PlanType
<1>5. requests' \in AskedType
  BY DEF Call, TypeInv, AskedType
<1>. QED
  BY <1>3, <1>4, <1>5 DEF Call, TypeInv, timers, clock, life, report

LEMMA TypeHandlers == TypeInv /\ Handled => TypeInv'
<1>. SUFFICES ASSUME TypeInv, Handled PROVE TypeInv'
  OBVIOUS
<1>1. requests' \in AskedType
  BY DEF Handled, TypeInv, AskedType
<1>2. age' \in AgeType
  BY DEF Handled, TypeInv, AgeType
<1>. QED
  BY <1>1, <1>2 DEF Handled, TypeInv, timers, clock, life

LEMMA TypeStateTimer == TypeInv /\ StateTimer => TypeInv'
<1>. SUFFICES ASSUME TypeInv, StateTimer PROVE TypeInv'
  OBVIOUS
<1>1. "state" \in Timer /\ thread \in ThreadType /\ timer \in TimerType /\ periodic \in Nat
  BY UpdatesAssumption DEF TypeInv, Timer
<1>. USE DEF Awake, held, timers, clock, life, report
<1>2. CASE TimerWakesUp
  <2>1. thread' \in ThreadType
    BY <1>1, <1>2, GoesIs, PutIs DEF TimerWakesUp, ThreadPlace
  <2>. QED
    BY <1>2, <2>1 DEF TypeInv, TimerWakesUp
<1>3. CASE TimerPeeks
  <2>1. Least(next, thread["state"].wake) \in Nat
    BY <1>1, LeastIs DEF TypeInv, ThreadType, never
  <2>2. thread' \in ThreadType
    BY <1>1, <1>3, <2>1, PutIs DEF TimerPeeks, ThreadPlace
  <2>. QED
    BY <1>3, <2>2 DEF TypeInv, TimerPeeks
<1>4. CASE SleepChecks("state") \/ SleepEnds("state")
  <2>1. thread' \in ThreadType
    BY <1>1, <1>4, GoesIs DEF SleepChecks, SleepEnds, ThreadPlace
  <2>. QED
    BY <1>4, <2>1 DEF TypeInv, SleepChecks, SleepEnds
<1>5. CASE SleepCounts("state")
  <2>1. thread' \in ThreadType /\ timer' \in TimerType
    BY <1>1, <1>5, GoesIs, CountIs DEF SleepCounts, ThreadPlace
  <2>. QED
    BY <1>5, <2>1 DEF TypeInv, SleepCounts
<1>6. CASE SleepLeaves("state")
  <2>1. thread' \in ThreadType
    BY <1>1, <1>6, GoesIs DEF SleepLeaves, ThreadPlace
  <2>2. timer' \in TimerType
    BY <1>1, <1>6, UncountIs DEF SleepLeaves
  <2>. QED
    BY <1>6, <2>1, <2>2 DEF TypeInv, SleepLeaves
<1>7. CASE TimerDumpsOrder
  <2>1. dump' \in DumpType /\ thread' \in ThreadType
    BY <1>1, <1>7, DumpsFieldsType, FieldIs, GoesIs DEF TimerDumpsOrder, ThreadPlace
  <2>. QED
    BY <1>7, <2>1 DEF TypeInv, TimerDumpsOrder
<1>8. CASE TimerDumpsStatus
  <2>1. dump' \in DumpType /\ thread' \in ThreadType
    BY <1>1, <1>8, DumpsFieldsType, FieldIs, GoesIs DEF TimerDumpsStatus, ThreadPlace
  <2>. QED
    BY <1>8, <2>1 DEF TypeInv, TimerDumpsStatus
<1>9. CASE TimerDispatches
  <2>1. /\ dump' \in DumpType /\ shown' \in MessageType /\ age' \in AgeType
        /\ missed' \in {"no", missed} /\ thread' \in ThreadType
    BY <1>1, <1>9, DispatchType, GoesIs DEF TimerDispatches, ThreadPlace
  <2>. QED
    BY <1>9, <2>1 DEF TypeInv, TimerDispatches
<1>10. CASE TimerSets \/ TimerClears
  <2>1. thread' \in ThreadType
    BY <1>1, <1>10, GoesIs DEF TimerSets, TimerClears, ThreadPlace
  <2>. QED
    BY <1>10, <2>1, UpdatesAssumption DEF TypeInv, TimerSets, TimerClears
<1>. QED
  BY <1>2, <1>3, <1>4, <1>5, <1>6, <1>7, <1>8, <1>9, <1>10 DEF StateTimer

LEMMA TypeStateEvents == TypeInv /\ StateEvents => TypeInv'
<1>. SUFFICES ASSUME TypeInv, StateEvents PROVE TypeInv'
  OBVIOUS
<1>1. request \in RequestType /\ timer \in TimerType /\ "state" \in Timer
  BY DEF TypeInv, Timer
<1>2. requests # <<>> => Tail(requests) \in AskedType
  BY DEF TypeInv, AskedType
<1>. USE DEF held, timers, clock, life, report
<1>3. CASE RequestTaken
  <2>1. Least(next, High) \in Nat
    BY LeastIs, UpdatesAssumption DEF TypeInv, never
  <2>2. request' \in RequestType
    BY <1>3, <2>1 DEF RequestTaken, RequestType, RequestPlace
  <2>. QED
    BY <1>2, <1>3, <2>2 DEF TypeInv, RequestTaken
<1>4. CASE RequestUnheard
  BY <1>2, <1>4 DEF TypeInv, RequestUnheard
<1>5. CASE RequestSchedules
  <2>1. request' \in RequestType /\ next' \in Nat
    BY <1>1, <1>5, RequestingIs DEF RequestSchedules, RequestPlace, RequestType
  <2>. QED
    BY <1>5, <2>1 DEF TypeInv, RequestSchedules
<1>6. CASE RequestDumpsOrder
  <2>1. dump' \in DumpType /\ request' \in RequestType
    BY <1>1, <1>6, DumpsFieldsType, FieldIs, RequestingIs DEF RequestDumpsOrder, RequestPlace
  <2>. QED
    BY <1>6, <2>1 DEF TypeInv, RequestDumpsOrder
<1>7. CASE RequestDumpsStatus
  <2>1. dump' \in DumpType /\ request' \in RequestType
    BY <1>1, <1>7, DumpsFieldsType, FieldIs, RequestingIs DEF RequestDumpsStatus, RequestPlace
  <2>. QED
    BY <1>7, <2>1 DEF TypeInv, RequestDumpsStatus
<1>8. CASE RequestDispatches
  <2>1. /\ dump' \in DumpType /\ shown' \in MessageType /\ age' \in AgeType
        /\ missed' \in {"no", missed} /\ request' \in RequestType
    BY <1>1, <1>8, DispatchType, RequestingIs DEF RequestDispatches, RequestPlace
  <2>. QED
    BY <1>8, <2>1 DEF TypeInv, RequestDispatches
<1>9. CASE RequestSets \/ RequestClears \/ RequestAwaits
  <2>1. request' \in RequestType
    BY <1>1, <1>9, RequestingIs DEF RequestSets, RequestClears, RequestAwaits, RequestPlace
  <2>. QED
    BY <1>9, <2>1, UpdatesAssumption DEF TypeInv, RequestSets, RequestClears, RequestAwaits
<1>10. CASE RequestDisables \/ RequestEnables
  <2>1. request' \in RequestType /\ timer' \in TimerType
    BY <1>1, <1>10, RequestingIs, SwitchIs
       DEF RequestDisables, RequestEnables, Disabled, Enabled, RequestPlace
  <2>. QED
    BY <1>10, <2>1 DEF TypeInv, RequestDisables, RequestEnables
<1>. QED
  BY <1>3, <1>4, <1>5, <1>6, <1>7, <1>8, <1>9, <1>10 DEF StateEvents

LEMMA TypeVisualization == TypeInv /\ Visualization => TypeInv'
<1>. SUFFICES ASSUME TypeInv, Visualization PROVE TypeInv'
  OBVIOUS
<1>1. "visual" \in Timer /\ thread \in ThreadType /\ timer \in TimerType
  BY DEF TypeInv, Timer
<1>. USE DEF Awake, held, timers, clock, life, report
<1>2. CASE VisualLoops
  <2>1. thread' \in ThreadType
    BY <1>1, <1>2, GoesIs, PutIs, UpdatesAssumption DEF VisualLoops, ThreadPlace
  <2>. QED
    BY <1>2, <2>1 DEF TypeInv, VisualLoops
<1>3. CASE SleepChecks("visual") \/ SleepEnds("visual")
  <2>1. thread' \in ThreadType
    BY <1>1, <1>3, GoesIs DEF SleepChecks, SleepEnds, ThreadPlace
  <2>. QED
    BY <1>3, <2>1 DEF TypeInv, SleepChecks, SleepEnds
<1>4. CASE SleepCounts("visual")
  <2>1. thread' \in ThreadType /\ timer' \in TimerType
    BY <1>1, <1>4, GoesIs, CountIs DEF SleepCounts, ThreadPlace
  <2>. QED
    BY <1>4, <2>1 DEF TypeInv, SleepCounts
<1>5. CASE SleepLeaves("visual")
  <2>1. thread' \in ThreadType
    BY <1>1, <1>5, GoesIs DEF SleepLeaves, ThreadPlace
  <2>2. timer' \in TimerType
    BY <1>1, <1>5, UncountIs DEF SleepLeaves
  <2>. QED
    BY <1>5, <2>1, <2>2 DEF TypeInv, SleepLeaves
<1>6. CASE VisualReads
  <2>1. thread' \in ThreadType
    BY <1>1, <1>6, GoesIs DEF VisualReads, ThreadPlace
  <2>. QED
    BY <1>6, <2>1 DEF TypeInv, VisualReads
<1>7. CASE VisualResets
  <2>1. "velocity" \in Field \ {"status"} /\ unset \in Values
    BY FieldIs DEF StatusFields, Sampled, Values
  <2>2. is' \in Content /\ thread' \in ThreadType
    BY <1>1, <1>7, <2>1, Changes, GoesIs DEF VisualResets, TypeInv, ThreadPlace
  <2>. QED
    BY <1>7, <2>2 DEF TypeInv, VisualResets
<1>. QED
  BY <1>2, <1>3, <1>4, <1>5, <1>6, <1>7 DEF Visualization

LEMMA TypeControl == TypeInv /\ (ForgetsLastSent \/ Deinitialize \/ Initialize) => TypeInv'
<1>. SUFFICES ASSUME TypeInv, ForgetsLastSent \/ Deinitialize \/ Initialize PROVE TypeInv'
  OBVIOUS
<1>1. timer \in TimerType /\ Timer = {"state", "visual"}
  BY DEF TypeInv, Timer
<1>. USE DEF held, timers, clock, life, report, Controls
<1>2. CASE ForgetsLastSent
  <2>1. age' \in AgeType
    BY <1>2 DEF ForgetsLastSent, AgeType
  <2>. QED
    BY <1>2, <2>1, UpdatesAssumption DEF TypeInv, ForgetsLastSent, ControlPlace
<1>3. CASE ForgetsNext
  BY <1>3 DEF TypeInv, ForgetsNext, ControlPlace
<1>7. CASE Unsubscribes \/ Joins \/ JoinsVisual
  BY <1>7 DEF TypeInv, Unsubscribes, Joins, JoinsVisual, ControlPlace
<1>4. CASE Stops \/ StopsVisual
  BY <1>1, <1>4 DEF TypeInv, Stops, StopsVisual, ControlPlace
<1>5. CASE Disables \/ DisablesVisual
  <2>1. timer' \in TimerType
    BY <1>1, <1>5, SwitchIs DEF Disables, DisablesVisual, Disabled
  <2>. QED
    BY <1>5, <2>1 DEF TypeInv, Disables, DisablesVisual, ControlPlace
<1>6. CASE Initialize
  <2>1. is' \in Content
    BY <1>6, FreshType DEF Initialize
  <2>2. thread' \in ThreadType
    BY <1>6 DEF Initialize, Starting, ThreadType, ThreadPlace
  <2>3. plan' \in PlanType
    <3>1. plan.restarts - 1 \in Nat
      BY <1>6 DEF TypeInv, Initialize, PlanType
    <3>. QED
      BY <1>6, <3>1 DEF TypeInv, Initialize, PlanType
  <2>4. queue' \in QueueType
    BY <1>6 DEF Initialize, QueueType
  <2>5. requests' \in AskedType
    BY <1>6 DEF Initialize, AskedType
  <2>6. timer' \in TimerType
    BY <1>1, <1>6, SwitchIs DEF Initialize, Enabled
  <2>7. shown' \in MessageType /\ age' \in AgeType
    BY <1>6 DEF Initialize, MessageType, AgeType, Nothing
  <2>. QED
    BY <1>6, <2>1, <2>2, <2>3, <2>4, <2>5, <2>6, <2>7, UpdatesAssumption
       DEF TypeInv, Initialize, ControlPlace
<1>. QED
  BY <1>2, <1>3, <1>4, <1>5, <1>6, <1>7 DEF Deinitialize

\* What a tick makes of the age of a field.
LEMMA OlderIs ==
  ASSUME NEW x \in Nat PROVE Min({x, Period + 1}) \in Nat /\ Min({x, Period + 1}) <= x
<1>1. Period + 1 \in Nat
  BY UpdatesAssumption
<1>2. CASE x <= Period + 1
  <2>1. \A z \in {x, Period + 1} : (\A w \in {x, Period + 1} : z <= w) <=> z = x
    BY <1>1, <1>2
  <2>. QED
    BY <1>2, <2>1 DEF Min
<1>3. CASE ~(x <= Period + 1)
  <2>1. \A z \in {x, Period + 1} : (\A w \in {x, Period + 1} : z <= w) <=> z = Period + 1
    BY <1>1, <1>3
  <2>. QED
    BY <1>1, <1>3, <2>1 DEF Min
<1>. QED
  BY <1>2, <1>3

LEMMA TypeTick == TypeInv /\ Tick => TypeInv'
<1>. SUFFICES ASSUME TypeInv, Tick PROVE TypeInv'
  OBVIOUS
<1>1. thread' \in ThreadType
  BY TickIs DEF TypeInv, Tick
<1>2. age' \in AgeType
  <2>1. \A f \in Field : age[f] + 1 \in Nat
    BY DEF TypeInv, AgeType
  <2>2. \A f \in Field : Min({age[f] + 1, Period + 1}) \in Nat
    BY <2>1, OlderIs
  <2>. QED
    BY <2>2 DEF Tick, AgeType
<1>3. periodic' \in 0..Period /\ next' \in Nat \cup {never}
  BY UpdatesAssumption DEF TypeInv, Tick, Sooner, never
<1>. QED
  BY <1>1, <1>2, <1>3 DEF TypeInv, Tick, held, life

LEMMA TypeNext == TypeInv /\ Spaced(Announced) /\ Next => TypeInv'
<1>. SUFFICES ASSUME TypeInv, Spaced(Announced), Next PROVE TypeInv'
  OBVIOUS
<1>1. CASE Handlers
  BY <1>1, HandlersHandle, TypeHandlers
<1>. QED
  BY <1>1, TypeCall, TypeStateTimer, TypeStateEvents, TypeVisualization, TypeControl, TypeTick
     DEF Next

-------------------------------------------------------------------------------
(* What the steps of the threads leave alone *)

LEMMA SameRequests ==
  ASSUME UNCHANGED <<requests, request>>
  PROVE  (Asked' <=> Asked) /\ (Immediate' <=> Immediate)
  BY DEF Asked, Immediate

\* A request more.
LEMMA MoreRequests ==
  ASSUME requests \in AskedType, UNCHANGED request,
         requests' = requests \/ requests' = Append(requests, "high")
  PROVE  /\ Asked => Asked'
         /\ Immediate => Immediate'
         /\ requests' = Append(requests, "high") => Asked'
<1>1. CASE requests' = requests
  BY <1>1 DEF Asked, Immediate, AskedType
<1>2. CASE requests' = Append(requests, "high")
  <2>1. /\ Len(requests) + 1 \in DOMAIN requests' /\ requests'[Len(requests) + 1] = "high"
        /\ \A n \in DOMAIN requests : n \in DOMAIN requests' /\ requests'[n] = requests[n]
    BY <1>2 DEF AskedType
  <2>. QED
    BY <2>1 DEF Asked, Immediate
<1>. QED
  BY <1>1, <1>2

\* The request at the front is taken.
LEMMA FewerRequests ==
  ASSUME requests \in AskedType, requests # <<>>, requests' = Tail(requests)
  PROVE  /\ Head(requests) \in {"high", "immediate"}
         /\ \A r \in {"high", "immediate"} : (\E n \in DOMAIN requests : requests[n] = r) =>
              Head(requests) = r \/ \E n \in DOMAIN requests' : requests'[n] = r
<1>1. /\ Head(requests) = requests[1] /\ Head(requests) \in {"high", "immediate"}
      /\ \A n \in DOMAIN requests :
           n = 1 \/ (n - 1 \in DOMAIN requests' /\ requests'[n - 1] = requests[n])
  BY DEF AskedType
<1>. QED
  BY <1>1

LEMMA NoRequests ==
  ASSUME requests = <<>>, request.pc = "none" PROVE ~Asked /\ ~Immediate
  BY DEF Asked, Immediate

\* A step that nothing in the invariant is about.
LEMMA FrameKeeps ==
  ASSUME TypeInv, Rest, thread'["state"] = thread["state"], timer'["state"] = timer["state"],
         UNCHANGED <<request, periodic, next, control, stop, dump, shown, age, missed>>,
         requests' = requests \/ requests' = Append(requests, "high"),
         \A f \in Urgent : Said(is')[f] = Said(is)[f]
  PROVE  Rest'
<1>1. (Asked => Asked') /\ (Immediate => Immediate')
  BY MoreRequests DEF TypeInv
<1>2. Lives'
  BY DEF Rest, Lives
<1>3. Messages' /\ InPeriod'
  BY DEF Rest, Messages, InPeriod
<1>4. control = "up" => DumpsAreNew'
  BY <1>1 DEF Rest, InTime, DumpsAreNew, Dumped
<1>5. ASSUME NEW f \in Urgent, Cared(f) PROVE Cared(f)'
  BY <1>1, <1>5 DEF Cared, Scheduled
<1>6. WakesInTime => WakesInTime'
  BY DEF WakesInTime
<1>. QED
  BY <1>2, <1>3, <1>4, <1>5, <1>6 DEF Rest, InTime

LEMMA CallKeeps == TypeInv /\ Rest /\ Call => Rest'
  BY FrameKeeps DEF Call, timers, clock, life, report

LEMMA VisualizationKeeps == TypeInv /\ Rest /\ Visualization => Rest'
<1>. SUFFICES ASSUME TypeInv, Rest, Visualization PROVE Rest'
  OBVIOUS
<1>1. /\ Timer = {"state", "visual"} /\ "state" \in Timer \ {"visual"} /\ "visual" \in Timer
      /\ thread \in ThreadType /\ timer \in TimerType
  BY DEF TypeInv, Timer
<1>2. thread'["state"] = thread["state"]
  BY <1>1 DEF Visualization, VisualLoops, SleepChecks, SleepCounts, SleepEnds, SleepLeaves,
              VisualReads, VisualResets, Goes, ThreadType
<1>3. timer'["state"] = timer["state"]
  BY <1>1 DEF Visualization, VisualLoops, SleepChecks, SleepCounts, SleepEnds, SleepLeaves,
              VisualReads, VisualResets, TimerType
<1>4. UNCHANGED <<requests, request, periodic, next, control, stop, dump, shown, age, missed>>
  BY DEF Visualization, VisualLoops, SleepChecks, SleepCounts, SleepEnds, SleepLeaves,
         VisualReads, VisualResets, Awake, held, clock, life, report
<1>5. \A f \in Urgent : Said(is')[f] = Said(is)[f]
  <2>1. CASE VisualResets
    <3>1. "velocity" \in Field \ {"status"} /\ unset \in Values /\ "velocity" \notin Urgent
      BY FieldIs DEF StatusFields, Sampled, Values, Urgent
    <3>. QED
      BY <2>1, <3>1, Changes, FieldIs DEF VisualResets, TypeInv
  <2>2. CASE ~VisualResets
    BY <2>2 DEF Visualization, VisualLoops, SleepChecks, SleepCounts, SleepEnds, SleepLeaves,
                VisualReads, Awake, held
  <2>. QED
    BY <2>1, <2>2
<1>. QED
  BY <1>2, <1>3, <1>4, <1>5, FrameKeeps

LEMMA HandlersKeep == TypeInv /\ Rest /\ Handled => Rest'
<1>. SUFFICES ASSUME TypeInv, Rest, Handled PROVE Rest'
  OBVIOUS
<1>1. /\ (Asked => Asked') /\ (Immediate => Immediate')
      /\ requests' = Append(requests, "high") => Asked'
  BY MoreRequests DEF TypeInv, Handled
<1>2. UNCHANGED <<thread, timer, request, periodic, next, control, stop, dump, shown, missed>>
  BY DEF Handled, timers, clock, life
<1>3. /\ \A f \in Field : age'[f] = IF Said(is')[f] = shown[f] THEN 0 ELSE age[f]
      /\ \A f \in Field : age'[f] \in Nat /\ age[f] \in Nat /\ age'[f] <= age[f]
  BY DEF Handled, TypeInv, AgeType
<1>4. (\A f \in Urgent : Said(is')[f] = Said(is)[f]) \/ Asked'
  BY <1>1 DEF Handled
<1>5. Lives'
  BY <1>2 DEF Rest, Lives
<1>6. Messages'
  BY <1>2, <1>3, FieldIs DEF Rest, Messages
<1>7. InPeriod'
  BY <1>2, <1>3 DEF Rest, InPeriod, TypeInv
<1>8. control = "up" => DumpsAreNew'
  BY <1>1, <1>2, <1>4 DEF Rest, InTime, DumpsAreNew, Dumped
<1>9. ASSUME NEW f \in Urgent, Cared(f) PROVE Cared(f)'
  <2>1. CASE Said(is')[f] = shown[f]
    BY <1>2, <2>1 DEF Cared
  <2>2. CASE Said(is')[f] # shown[f] /\ Said(is)[f] = shown[f]
    BY <1>2, <1>3, <1>4, <2>2, FieldIs DEF Cared, Rest, Messages
  <2>3. CASE age[f] = 0 /\ (Asked \/ Immediate)
    BY <1>1, <1>3, <2>3, FieldIs DEF Cared
  <2>4. CASE Scheduled(f)
    BY <1>2, <1>3, <2>4, FieldIs, UpdatesAssumption DEF Cared, Scheduled, TypeInv
  <2>. QED
    BY <1>9, <2>1, <2>2, <2>3, <2>4 DEF Cared
<1>10. WakesInTime => WakesInTime'
  BY <1>2 DEF WakesInTime
<1>. QED
  BY <1>2, <1>5, <1>6, <1>7, <1>8, <1>9, <1>10 DEF Rest, InTime

-------------------------------------------------------------------------------
(* The state thread *)

LEMMA PeekIs ==
  ASSUME TypeInv, TimerPeeks
  PROVE  /\ thread["state"].pc = "peek" /\ thread'["state"].pc = "enter"
         /\ thread'["state"].wake \in Nat /\ thread'["state"].wake <= thread["state"].wake
         /\ next # never => thread'["state"].wake <= next
<1>. DEFINE wake == Least(next, thread["state"].wake)
<1>1. thread \in ThreadType /\ "state" \in Timer /\ thread["state"].wake \in Nat
  BY DEF TypeInv, Timer, ThreadType
<1>2. wake \in Nat /\ wake <= thread["state"].wake /\ (next # never => wake <= next)
  BY <1>1, LeastIs DEF TypeInv, never
<1>3. thread' = [thread EXCEPT !["state"] = [pc |-> "enter", wake |-> wake]]
  BY DEF TimerPeeks
<1>. HIDE DEF wake
<1>4. thread["state"].pc = "peek" /\ "enter" \in ThreadPlace
  BY DEF TimerPeeks, ThreadPlace
<1>5. thread'["state"].pc = "enter" /\ thread'["state"].wake = wake
  BY <1>1, <1>2, <1>3, <1>4, PutIs
<1>. QED
  BY <1>2, <1>4, <1>5

LEMMA StateTimerKeeps == TypeInv /\ Rest /\ StateTimer => Rest'
<1>. SUFFICES ASSUME TypeInv, Rest, StateTimer PROVE Rest'
  OBVIOUS
<1>1. /\ "state" \in Timer /\ thread \in ThreadType /\ timer \in TimerType
      /\ thread["state"].wake \in Nat /\ timer["state"].waiting \in Int
      /\ periodic \in 0..Period /\ next \in Nat \cup {never} /\ Period \in Nat /\ High \in 0..Period
      /\ \A f \in Field : age[f] \in Nat
  BY UpdatesAssumption DEF TypeInv, Timer, ThreadType, TimerType, AgeType
<1>2. Lives /\ Messages /\ InPeriod /\ InTime
  BY DEF Rest
<1>. USE DEF Awake, held, timers, clock, life, report
<1>3. CASE TimerWakesUp
  <2>1. /\ thread["state"].pc = "loop"
        /\ thread'["state"].pc \in {"ended", "peek"}
        /\ thread'["state"].pc = "ended" =>
             "state" \in stop /\ thread'["state"].wake = thread["state"].wake
        /\ thread'["state"].pc = "peek" => thread'["state"].wake = periodic
        /\ UNCHANGED <<timer, periodic, next, dump, shown, age, missed>>
    BY <1>1, <1>3, GoesIs, PutIs DEF TimerWakesUp, StopRequested, ThreadPlace
  <2>2. UNCHANGED <<is, requests, request, control, stop>>
    BY <1>3 DEF TimerWakesUp
  <2>3. (Asked' <=> Asked) /\ (Immediate' <=> Immediate)
    BY <2>2, SameRequests
  <2>4. Lives'
    BY <1>1, <1>2, <2>1, <2>2 DEF Lives
  <2>5. Messages'
    BY <1>1, <1>2, <2>1, <2>2, FieldIs DEF Messages
  <2>6. InPeriod'
    BY <1>1, <1>2, <2>1, <2>2 DEF InPeriod, Messages
  <2>7. InTime'
    BY <1>1, <1>2, <2>1, <2>2, <2>3, FieldIs
       DEF InTime, DumpsAreNew, Dumped, Cared, Scheduled, WakesInTime
  <2>. QED
    BY <2>4, <2>5, <2>6, <2>7 DEF Rest
<1>4. CASE TimerPeeks
  <2>1. /\ thread["state"].pc = "peek" /\ thread'["state"].pc = "enter"
        /\ thread'["state"].wake \in Nat
        /\ thread'["state"].wake <= thread["state"].wake
        /\ (next # never => thread'["state"].wake <= next)
        /\ UNCHANGED <<timer, periodic, next, dump, shown, age, missed>>
    BY <1>1, <1>4, PeekIs DEF TimerPeeks
  <2>2. UNCHANGED <<is, requests, request, control, stop>>
    BY <1>4 DEF TimerPeeks
  <2>3. (Asked' <=> Asked) /\ (Immediate' <=> Immediate)
    BY <2>2, SameRequests
  <2>4. Lives'
    BY <1>1, <1>2, <2>1, <2>2 DEF Lives
  <2>5. Messages'
    BY <1>1, <1>2, <2>1, <2>2, FieldIs DEF Messages
  <2>6. InPeriod'
    BY <1>1, <1>2, <2>1, <2>2 DEF InPeriod, Messages
  <2>7. InTime'
    BY <1>1, <1>2, <2>1, <2>2, <2>3, FieldIs
       DEF InTime, DumpsAreNew, Dumped, Cared, Scheduled, WakesInTime
  <2>. QED
    BY <2>4, <2>5, <2>6, <2>7 DEF Rest
<1>5. CASE SleepChecks("state")
  <2>1. /\ thread["state"].pc = "enter" /\ thread'["state"].pc \in {"loop", "count"}
        /\ thread'["state"].wake = thread["state"].wake
        /\ UNCHANGED <<timer, periodic, next, dump, shown, age, missed>>
    BY <1>1, <1>5, GoesIs DEF SleepChecks, ThreadPlace
  <2>2. UNCHANGED <<is, requests, request, control, stop>>
    BY <1>5 DEF SleepChecks
  <2>3. (Asked' <=> Asked) /\ (Immediate' <=> Immediate)
    BY <2>2, SameRequests
  <2>4. Lives'
    BY <1>1, <1>2, <2>1, <2>2 DEF Lives
  <2>5. Messages'
    BY <1>1, <1>2, <2>1, <2>2, FieldIs DEF Messages
  <2>6. InPeriod'
    BY <1>1, <1>2, <2>1, <2>2 DEF InPeriod, Messages
  <2>7. InTime'
    BY <1>1, <1>2, <2>1, <2>2, <2>3, FieldIs
       DEF InTime, DumpsAreNew, Dumped, Cared, Scheduled, WakesInTime
  <2>. QED
    BY <2>4, <2>5, <2>6, <2>7 DEF Rest
<1>6. CASE SleepCounts("state")
  <2>1. /\ thread["state"].pc = "count" /\ thread'["state"].pc = "sleep"
        /\ thread'["state"].wake = thread["state"].wake
        /\ timer'["state"].waiting = timer["state"].waiting + 1
        /\ timer'["state"].terminate = timer["state"].terminate
        /\ UNCHANGED <<periodic, next, dump, shown, age, missed>>
    BY <1>1, <1>6, GoesIs, CountIs DEF SleepCounts, ThreadPlace
  <2>2. UNCHANGED <<is, requests, request, control, stop>>
    BY <1>6 DEF SleepCounts
  <2>3. (Asked' <=> Asked) /\ (Immediate' <=> Immediate)
    BY <2>2, SameRequests
  <2>40. timer["state"].waiting = 0
    BY <1>2, <2>1 DEF Lives
  <2>41. timer'["state"].waiting = 1
    BY <2>1, <2>40
  <2>4. Lives'
    BY <1>2, <2>1, <2>2, <2>41 DEF Lives
  <2>5. Messages'
    BY <1>1, <1>2, <2>1, <2>2, FieldIs DEF Messages
  <2>6. InPeriod'
    BY <1>1, <1>2, <2>1, <2>2 DEF InPeriod, Messages
  <2>7. InTime'
    BY <1>1, <1>2, <2>1, <2>2, <2>3, FieldIs
       DEF InTime, DumpsAreNew, Dumped, Cared, Scheduled, WakesInTime
  <2>. QED
    BY <2>4, <2>5, <2>6, <2>7 DEF Rest
<1>7. CASE SleepEnds("state")
  <2>1. /\ thread["state"].pc = "sleep" /\ thread'["state"].pc \in {"interrupted", "expired"}
        /\ thread'["state"].wake = thread["state"].wake
        /\ UNCHANGED <<timer, periodic, next, dump, shown, age, missed>>
    BY <1>1, <1>7, GoesIs DEF SleepEnds, ThreadPlace
  <2>2. UNCHANGED <<is, requests, request, control, stop>>
    BY <1>7 DEF SleepEnds
  <2>3. (Asked' <=> Asked) /\ (Immediate' <=> Immediate)
    BY <2>2, SameRequests
  <2>4. Lives'
    BY <1>1, <1>2, <2>1, <2>2 DEF Lives
  <2>5. Messages'
    BY <1>1, <1>2, <2>1, <2>2, FieldIs DEF Messages
  <2>6. InPeriod'
    BY <1>1, <1>2, <2>1, <2>2 DEF InPeriod, Messages
  <2>7. InTime'
    BY <1>1, <1>2, <2>1, <2>2, <2>3, FieldIs
       DEF InTime, DumpsAreNew, Dumped, Cared, Scheduled, WakesInTime
  <2>. QED
    BY <2>4, <2>5, <2>6, <2>7 DEF Rest
<1>8. CASE SleepLeaves("state")
  <2>1. /\ thread["state"].pc \in {"interrupted", "expired"}
        /\ thread'["state"].pc \in {"loop", "due"}
        /\ thread'["state"].wake = thread["state"].wake
        /\ timer'["state"].waiting = timer["state"].waiting - 1
        /\ timer'["state"].terminate = timer["state"].terminate
        /\ UNCHANGED <<periodic, next, dump, shown, age, missed>>
    BY <1>1, <1>8, GoesIs, UncountIs DEF SleepLeaves, ThreadPlace
  <2>2. UNCHANGED <<is, requests, request, control, stop>>
    BY <1>8 DEF SleepLeaves
  <2>3. (Asked' <=> Asked) /\ (Immediate' <=> Immediate)
    BY <2>2, SameRequests
  <2>40. timer["state"].waiting = 1
    BY <1>2, <2>1 DEF Lives
  <2>41. timer'["state"].waiting = 0
    BY <2>1, <2>40
  <2>4. Lives'
    BY <1>2, <2>1, <2>2, <2>41 DEF Lives
  <2>5. Messages'
    BY <1>1, <1>2, <2>1, <2>2, FieldIs DEF Messages
  <2>6. InPeriod'
    BY <1>1, <1>2, <2>1, <2>2 DEF InPeriod, Messages
  <2>7. InTime'
    BY <1>1, <1>2, <2>1, <2>2, <2>3, FieldIs
       DEF InTime, DumpsAreNew, Dumped, Cared, Scheduled, WakesInTime
  <2>. QED
    BY <2>4, <2>5, <2>6, <2>7 DEF Rest
<1>9. CASE TimerDumpsOrder
  <2>1. /\ thread["state"].pc = "due"
        /\ thread'["state"].pc = "status"
        /\ thread'["state"].wake = thread["state"].wake
        /\ UNCHANGED <<timer, periodic, next, shown, age>>
        /\ missed' = IF missed = "no" THEN "no" ELSE "dumping"
        /\ dump'["request"] = dump["request"]
        /\ \A f \in Field : f \in OrderFields => dump'["state"][f] = Said(is)[f]
        /\ \A f \in Field : Said(is)[f] # Nothing[f]
    BY <1>1, <1>9, GoesIs, DumpsFieldsType, FieldIs, SaidType
       DEF TimerDumpsOrder, ThreadPlace, TypeInv
  <2>2. UNCHANGED <<is, requests, request, control, stop>>
    BY <1>9 DEF TimerDumpsOrder
  <2>3. (Asked' <=> Asked) /\ (Immediate' <=> Immediate)
    BY <2>2, SameRequests
  <2>4. Lives'
    BY <1>1, <1>2, <2>1, <2>2 DEF Lives
  <2>5. Messages'
    BY <1>1, <1>2, <2>1, <2>2, FieldIs DEF Messages
  <2>6. InPeriod'
    BY <1>1, <1>2, <2>1, <2>2 DEF InPeriod, Messages
  <2>7. InTime'
    BY <1>1, <1>2, <2>1, <2>2, <2>3, FieldIs
       DEF InTime, DumpsAreNew, Dumped, Cared, Scheduled, WakesInTime
  <2>. QED
    BY <2>4, <2>5, <2>6, <2>7 DEF Rest
<1>10. CASE TimerDumpsStatus
  <2>1. /\ thread["state"].pc = "status"
        /\ thread'["state"].pc = "dispatch"
        /\ thread'["state"].wake = thread["state"].wake
        /\ UNCHANGED <<timer, periodic, next, shown, age, missed>>
        /\ dump'["request"] = dump["request"]
        /\ \A f \in OrderFields \ StatusFields : dump'["state"][f] = dump["state"][f]
        /\ \A f \in StatusFields : dump'["state"][f] = Said(is)[f]
        /\ \A f \in Field : Said(is)[f] # Nothing[f]
    BY <1>1, <1>10, GoesIs, DumpsFieldsType, FieldIs, SaidType
       DEF TimerDumpsStatus, ThreadPlace, TypeInv
  <2>2. UNCHANGED <<is, requests, request, control, stop>>
    BY <1>10 DEF TimerDumpsStatus
  <2>3. (Asked' <=> Asked) /\ (Immediate' <=> Immediate)
    BY <2>2, SameRequests
  <2>4. Lives'
    BY <1>1, <1>2, <2>1, <2>2 DEF Lives
  <2>5. Messages'
    BY <1>1, <1>2, <2>1, <2>2, FieldIs DEF Messages
  <2>6. InPeriod'
    BY <1>1, <1>2, <2>1, <2>2 DEF InPeriod, Messages
  <2>7. InTime'
    BY <1>1, <1>2, <2>1, <2>2, <2>3, FieldIs
       DEF InTime, DumpsAreNew, Dumped, Cared, Scheduled, WakesInTime
  <2>. QED
    BY <2>4, <2>5, <2>6, <2>7 DEF Rest
<1>11. CASE TimerDispatches
  <2>1. /\ thread["state"].pc = "dispatch"
        /\ thread'["state"].pc = "sent"
        /\ thread'["state"].wake = thread["state"].wake
        /\ UNCHANGED <<timer, periodic, next>>
        /\ dump'["request"] = dump["request"] /\ shown' = dump["state"]
        /\ \A f \in Field : age'[f] = 0
        /\ missed' = IF missed = "dumping" THEN "no" ELSE missed
        /\ missed \in {"no", "yes", "dumping"}
    BY <1>1, <1>11, <1>2, GoesIs, DispatchType DEF TimerDispatches, ThreadPlace, TypeInv, Messages
  <2>2. UNCHANGED <<is, requests, request, control, stop>>
    BY <1>11 DEF TimerDispatches
  <2>3. (Asked' <=> Asked) /\ (Immediate' <=> Immediate)
    BY <2>2, SameRequests
  <2>4. Lives'
    BY <1>1, <1>2, <2>1, <2>2 DEF Lives
  <2>5. Messages'
    BY <1>1, <1>2, <2>1, <2>2, FieldIs DEF Messages
  <2>6. InPeriod'
    BY <1>1, <1>2, <2>1, <2>2 DEF InPeriod, Messages
  <2>7. InTime'
    BY <1>1, <1>2, <2>1, <2>2, <2>3, FieldIs
       DEF InTime, DumpsAreNew, Dumped, Cared, Scheduled, WakesInTime
  <2>. QED
    BY <2>4, <2>5, <2>6, <2>7 DEF Rest
<1>12. CASE TimerSets
  <2>1. /\ thread["state"].pc = "sent"
        /\ thread'["state"].pc = "clear"
        /\ thread'["state"].wake = thread["state"].wake
        /\ UNCHANGED <<timer, next, dump, shown, age, missed>> /\ periodic' = Period
    BY <1>1, <1>12, GoesIs DEF TimerSets, ThreadPlace
  <2>2. UNCHANGED <<is, requests, request, control, stop>>
    BY <1>12 DEF TimerSets
  <2>3. (Asked' <=> Asked) /\ (Immediate' <=> Immediate)
    BY <2>2, SameRequests
  <2>4. Lives'
    BY <1>1, <1>2, <2>1, <2>2 DEF Lives
  <2>5. Messages'
    BY <1>1, <1>2, <2>1, <2>2, FieldIs DEF Messages
  <2>6. InPeriod'
    BY <1>1, <1>2, <2>1, <2>2 DEF InPeriod, Messages
  <2>7. InTime'
    BY <1>1, <1>2, <2>1, <2>2, <2>3, FieldIs
       DEF InTime, DumpsAreNew, Dumped, Cared, Scheduled, WakesInTime
  <2>. QED
    BY <2>4, <2>5, <2>6, <2>7 DEF Rest
<1>13. CASE TimerClears
  <2>1. /\ thread["state"].pc = "clear"
        /\ thread'["state"].pc = "loop"
        /\ thread'["state"].wake = thread["state"].wake
        /\ UNCHANGED <<timer, periodic, dump, shown, age, missed>> /\ next' = never
    BY <1>1, <1>13, GoesIs DEF TimerClears, ThreadPlace
  <2>2. UNCHANGED <<is, requests, request, control, stop>>
    BY <1>13 DEF TimerClears
  <2>3. (Asked' <=> Asked) /\ (Immediate' <=> Immediate)
    BY <2>2, SameRequests
  <2>4. Lives'
    BY <1>1, <1>2, <2>1, <2>2 DEF Lives
  <2>5. Messages'
    BY <1>1, <1>2, <2>1, <2>2, FieldIs DEF Messages
  <2>6. InPeriod'
    BY <1>1, <1>2, <2>1, <2>2 DEF InPeriod, Messages
  <2>7. InTime'
    BY <1>1, <1>2, <2>1, <2>2, <2>3, FieldIs
       DEF InTime, DumpsAreNew, Dumped, Cared, Scheduled, WakesInTime
  <2>. QED
    BY <2>4, <2>5, <2>6, <2>7 DEF Rest
<1>. QED
  BY <1>3, <1>4, <1>5, <1>6, <1>7, <1>8, <1>9, <1>10, <1>11, <1>12, <1>13 DEF StateTimer

-------------------------------------------------------------------------------
(* The state event thread *)

\* What a request asks for, and when.
LEMMA TakenIs ==
  ASSUME TypeInv, RequestTaken
  PROVE  /\ request.pc = "none" /\ control \in {"up", "forgets", "unsubscribes"}
         /\ request'.pc \in {"write", "order"}
         /\ request'.pc = "write" =>
              request'.point <= High /\ (next # never => request'.point <= next)
         /\ (Asked => Asked') /\ (Asked \/ Immediate => Asked' \/ Immediate')
<1>1. requests \in AskedType /\ requests # <<>> /\ requests' = Tail(requests)
  BY DEF TypeInv, RequestTaken
<1>2. /\ request.pc = "none" /\ control \in {"up", "forgets", "unsubscribes"}
      /\ request'.pc = IF Head(requests) = "high" THEN "write" ELSE "order"
      /\ Head(requests) = "high" => request'.point = Least(next, High)
  BY DEF RequestTaken, Deaf
<1>3. High \in Nat /\ next \in Nat \cup {never}
  BY UpdatesAssumption DEF TypeInv
<1>4. Least(next, High) <= High /\ (next # never => Least(next, High) <= next)
  BY <1>3, LeastIs DEF never
<1>5. (Asked => Asked') /\ (Asked \/ Immediate => Asked' \/ Immediate')
  BY <1>1, <1>2, FewerRequests DEF Asked, Immediate
<1>. QED
  BY <1>2, <1>4, <1>5

\* Nobody sleeps any more.
LEMMA AwaitsIs ==
  ASSUME TypeInv, Lives, RequestAwaits
  PROVE  /\ request.pc = "clearance" /\ request'.pc = "enable" /\ request'.point = request.point
         /\ thread["state"].pc # "sleep"
<1>1. request \in RequestType /\ "enable" \in RequestPlace /\ Requesting("clearance", "enable")
  BY DEF TypeInv, RequestPlace, RequestAwaits
<1>2. thread["state"].pc # "sleep"
  <2>1. timer["state"].waiting = 0
    BY DEF RequestAwaits, Cleared
  <2>2. thread["state"].pc \in {"sleep", "interrupted", "expired"} => timer["state"].waiting = 1
    BY DEF Lives
  <2>. QED
    BY <2>1, <2>2
<1>. QED
  BY <1>1, <1>2, RequestingIs

LEMMA StateEventsKeep == TypeInv /\ Rest /\ StateEvents => Rest'
<1>. SUFFICES ASSUME TypeInv, Rest, StateEvents PROVE Rest'
  OBVIOUS
<1>1. /\ "state" \in Timer /\ request \in RequestType /\ timer \in TimerType
      /\ request.point \in Nat
      /\ thread["state"].wake \in Nat /\ timer["state"].waiting \in Int
      /\ periodic \in 0..Period /\ next \in Nat \cup {never} /\ Period \in Nat /\ High \in 0..Period
      /\ \A f \in Field : age[f] \in Nat
  BY UpdatesAssumption DEF TypeInv, Timer, ThreadType, TimerType, AgeType, RequestType
<1>2. Lives /\ Messages /\ InPeriod /\ InTime
  BY DEF Rest
<1>. USE DEF held, timers, clock, life, report
<1>3. CASE RequestTaken
  <2>1. /\ request.pc = "none" /\ request'.pc \in {"write", "order"}
        /\ request'.pc = "write" =>
             request'.point <= High /\ (next # never => request'.point <= next)
        /\ UNCHANGED <<timer, periodic, next, dump, shown, age, missed>>
    BY <1>1, <1>3, TakenIs DEF RequestTaken
  <2>2. UNCHANGED <<is, thread, control, stop>>
    BY <1>3 DEF RequestTaken
  <2>3. (Asked => Asked') /\ (Asked \/ Immediate => Asked' \/ Immediate')
    BY <1>3, <2>1, TakenIs, FewerRequests DEF Asked, Immediate
  <2>4. Lives'
    BY <1>1, <1>2, <2>1, <2>2 DEF Lives
  <2>5. Messages'
    BY <1>1, <1>2, <2>1, <2>2, FieldIs DEF Messages
  <2>6. InPeriod'
    BY <1>1, <1>2, <2>1, <2>2 DEF InPeriod, Messages
  <2>7. InTime'
    BY <1>1, <1>2, <2>1, <2>2, <2>3, FieldIs
       DEF InTime, DumpsAreNew, Dumped, Cared, Scheduled, WakesInTime
  <2>. QED
    BY <2>4, <2>5, <2>6, <2>7 DEF Rest
<1>4. CASE RequestUnheard
  <2>1. /\ control # "up" /\ UNCHANGED request
        /\ UNCHANGED <<timer, periodic, next, dump, shown, age, missed>>
    BY <1>1, <1>4, <1>2 DEF RequestUnheard, Deaf
  <2>2. UNCHANGED <<is, thread, control, stop>>
    BY <1>4 DEF RequestUnheard
  <2>3. control # "up"
    BY <1>4, <2>1, TakenIs, FewerRequests DEF Asked, Immediate, RequestUnheard
  <2>4. Lives'
    BY <1>1, <1>2, <2>1, <2>2 DEF Lives
  <2>5. Messages'
    BY <1>1, <1>2, <2>1, <2>2, FieldIs DEF Messages
  <2>6. InPeriod'
    BY <1>1, <1>2, <2>1, <2>2 DEF InPeriod, Messages
  <2>7. InTime'
    BY <1>1, <1>2, <2>1, <2>2, <2>3, FieldIs
       DEF InTime, DumpsAreNew, Dumped, Cared, Scheduled, WakesInTime
  <2>. QED
    BY <2>4, <2>5, <2>6, <2>7 DEF Rest
<1>5. CASE RequestSchedules
  <2>1. /\ request.pc = "write" /\ request'.pc = "disable" /\ request'.point = request.point
        /\ next' = request.point
        /\ missed' = IF thread["state"].pc = "sleep" THEN missed ELSE "yes"
        /\ UNCHANGED <<timer, periodic, dump, shown, age>>
    BY <1>1, <1>5, RequestingIs DEF RequestSchedules, RequestPlace
  <2>2. UNCHANGED <<is, thread, control, stop>>
    BY <1>5 DEF RequestSchedules
  <2>3. Immediate' <=> Immediate
    BY <1>5, <2>1 DEF Asked, Immediate, RequestSchedules
  <2>4. Lives'
    BY <1>1, <1>2, <2>1, <2>2 DEF Lives
  <2>5. Messages'
    BY <1>1, <1>2, <2>1, <2>2, FieldIs DEF Messages
  <2>6. InPeriod'
    BY <1>1, <1>2, <2>1, <2>2 DEF InPeriod, Messages
  <2>7. InTime'
    <3>. SUFFICES ASSUME control = "up" PROVE InTime'
      BY <2>2 DEF InTime
    <3>1. DumpsAreNew'
      BY <1>2, <2>1, <2>2 DEF InTime, DumpsAreNew, Dumped, Asked
    <3>. SUFFICES ASSUME missed' = "no" PROVE (\A f \in Urgent : Cared(f)') /\ WakesInTime'
      BY <2>1, <2>2, <3>1 DEF InTime
    <3>2. missed = "no" /\ thread["state"].pc = "sleep"
      BY <2>1
    <3>3. request.point \in Nat /\ request.point <= High /\ (next # never => request.point <= next)
      BY <1>1, <1>2, <2>1 DEF InTime
    <3>4. ASSUME NEW f \in Urgent PROVE Cared(f)'
      <4>1. Cared(f) /\ f \in Field
        BY <1>2, <3>2, FieldIs DEF InTime
      <4>2. CASE Said(is)[f] = shown[f]
        BY <2>1, <2>2, <4>2 DEF Cared
      <4>3. CASE age[f] = 0 \/ Scheduled(f)
        <5>1. age[f] + request.point <= High
          BY <1>1, <3>3, <4>1, <4>3 DEF Scheduled
        <5>. QED
          BY <2>1, <2>2, <3>2, <3>3, <5>1 DEF Cared, Scheduled, never
      <4>. QED
        BY <4>1, <4>2, <4>3 DEF Cared
    <3>. QED
      BY <2>1, <2>2, <3>2, <3>4 DEF WakesInTime
  <2>. QED
    BY <2>4, <2>5, <2>6, <2>7 DEF Rest
<1>6. CASE RequestDumpsOrder
  <2>1. /\ request.pc = "order" /\ request'.pc = "status" /\ request'.point = request.point
        /\ UNCHANGED <<timer, periodic, next, shown, age, missed>>
        /\ dump'["state"] = dump["state"]
        /\ \A f \in Field : f \in OrderFields => dump'["request"][f] = Said(is)[f]
        /\ \A f \in Field : Said(is)[f] # Nothing[f]
    BY <1>1, <1>6, RequestingIs, DumpsFieldsType, FieldIs, SaidType
       DEF RequestDumpsOrder, RequestPlace, TypeInv
  <2>2. UNCHANGED <<is, thread, control, stop>>
    BY <1>6 DEF RequestDumpsOrder
  <2>3. (Asked' <=> Asked) /\ (Immediate' <=> Immediate)
    BY <1>6, <2>1 DEF Asked, Immediate, RequestDumpsOrder
  <2>4. Lives'
    BY <1>1, <1>2, <2>1, <2>2 DEF Lives
  <2>5. Messages'
    BY <1>1, <1>2, <2>1, <2>2, FieldIs DEF Messages
  <2>6. InPeriod'
    BY <1>1, <1>2, <2>1, <2>2 DEF InPeriod, Messages
  <2>7. InTime'
    BY <1>1, <1>2, <2>1, <2>2, <2>3, FieldIs
       DEF InTime, DumpsAreNew, Dumped, Cared, Scheduled, WakesInTime
  <2>. QED
    BY <2>4, <2>5, <2>6, <2>7 DEF Rest
<1>7. CASE RequestDumpsStatus
  <2>1. /\ request.pc = "status" /\ request'.pc = "dispatch" /\ request'.point = request.point
        /\ UNCHANGED <<timer, periodic, next, shown, age, missed>>
        /\ dump'["state"] = dump["state"]
        /\ \A f \in OrderFields \ StatusFields : dump'["request"][f] = dump["request"][f]
        /\ \A f \in StatusFields : dump'["request"][f] = Said(is)[f]
        /\ \A f \in Field : Said(is)[f] # Nothing[f]
    BY <1>1, <1>7, RequestingIs, DumpsFieldsType, FieldIs, SaidType
       DEF RequestDumpsStatus, RequestPlace, TypeInv
  <2>2. UNCHANGED <<is, thread, control, stop>>
    BY <1>7 DEF RequestDumpsStatus
  <2>3. (Asked' <=> Asked) /\ (Immediate' <=> Immediate)
    BY <1>7, <2>1 DEF Asked, Immediate, RequestDumpsStatus
  <2>4. Lives'
    BY <1>1, <1>2, <2>1, <2>2 DEF Lives
  <2>5. Messages'
    BY <1>1, <1>2, <2>1, <2>2, FieldIs DEF Messages
  <2>6. InPeriod'
    BY <1>1, <1>2, <2>1, <2>2 DEF InPeriod, Messages
  <2>7. InTime'
    BY <1>1, <1>2, <2>1, <2>2, <2>3, FieldIs
       DEF InTime, DumpsAreNew, Dumped, Cared, Scheduled, WakesInTime
  <2>. QED
    BY <2>4, <2>5, <2>6, <2>7 DEF Rest
<1>8. CASE RequestDispatches
  <2>1. /\ request.pc = "dispatch" /\ request'.pc = "sent" /\ request'.point = request.point
        /\ UNCHANGED <<timer, periodic, next, missed>>
        /\ dump'["state"] = dump["state"] /\ shown' = dump["request"]
        /\ \A f \in Field : age'[f] = 0
    BY <1>1, <1>8, <1>2, RequestingIs, DispatchType
       DEF RequestDispatches, RequestPlace, TypeInv, Messages
  <2>2. UNCHANGED <<is, thread, control, stop>>
    BY <1>8 DEF RequestDispatches
  <2>3. Asked' <=> Asked
    BY <1>8, <2>1 DEF Asked, Immediate, RequestDispatches
  <2>4. Lives'
    BY <1>1, <1>2, <2>1, <2>2 DEF Lives
  <2>5. Messages'
    BY <1>1, <1>2, <2>1, <2>2, FieldIs DEF Messages
  <2>6. InPeriod'
    BY <1>1, <1>2, <2>1, <2>2 DEF InPeriod, Messages
  <2>7. InTime'
    BY <1>1, <1>2, <2>1, <2>2, <2>3, FieldIs
       DEF InTime, DumpsAreNew, Dumped, Cared, Scheduled, WakesInTime
  <2>. QED
    BY <2>4, <2>5, <2>6, <2>7 DEF Rest
<1>9. CASE RequestSets
  <2>1. /\ request.pc = "sent" /\ request'.pc = "clear" /\ request'.point = request.point
        /\ UNCHANGED <<timer, next, dump, shown, age, missed>> /\ periodic' = Period
    BY <1>1, <1>9, RequestingIs DEF RequestSets, RequestPlace
  <2>2. UNCHANGED <<is, thread, control, stop>>
    BY <1>9 DEF RequestSets
  <2>3. (Asked' <=> Asked) /\ (Immediate' <=> Immediate)
    BY <1>9, <2>1 DEF Asked, Immediate, RequestSets
  <2>4. Lives'
    BY <1>1, <1>2, <2>1, <2>2 DEF Lives
  <2>5. Messages'
    BY <1>1, <1>2, <2>1, <2>2, FieldIs DEF Messages
  <2>6. InPeriod'
    BY <1>1, <1>2, <2>1, <2>2 DEF InPeriod, Messages
  <2>7. InTime'
    BY <1>1, <1>2, <2>1, <2>2, <2>3, FieldIs
       DEF InTime, DumpsAreNew, Dumped, Cared, Scheduled, WakesInTime
  <2>. QED
    BY <2>4, <2>5, <2>6, <2>7 DEF Rest
<1>10. CASE RequestClears
  <2>1. /\ request.pc = "clear" /\ request'.pc = "disable" /\ request'.point = request.point
        /\ UNCHANGED <<timer, periodic, dump, shown, age, missed>> /\ next' = never
    BY <1>1, <1>10, RequestingIs DEF RequestClears, RequestPlace
  <2>2. UNCHANGED <<is, thread, control, stop>>
    BY <1>10 DEF RequestClears
  <2>3. (Asked' <=> Asked) /\ (Immediate' <=> Immediate)
    BY <1>10, <2>1 DEF Asked, Immediate, RequestClears
  <2>4. Lives'
    BY <1>1, <1>2, <2>1, <2>2 DEF Lives
  <2>5. Messages'
    BY <1>1, <1>2, <2>1, <2>2, FieldIs DEF Messages
  <2>6. InPeriod'
    BY <1>1, <1>2, <2>1, <2>2 DEF InPeriod, Messages
  <2>7. InTime'
    BY <1>1, <1>2, <2>1, <2>2, <2>3, FieldIs
       DEF InTime, DumpsAreNew, Dumped, Cared, Scheduled, WakesInTime
  <2>. QED
    BY <2>4, <2>5, <2>6, <2>7 DEF Rest
<1>11. CASE RequestDisables
  <2>1. /\ request.pc = "disable" /\ request'.pc = "clearance" /\ request'.point = request.point
        /\ timer'["state"].waiting = timer["state"].waiting
        /\ timer'["state"].terminate = TRUE
        /\ UNCHANGED <<periodic, next, dump, shown, age, missed>>
    BY <1>1, <1>11, RequestingIs, SwitchIs DEF RequestDisables, RequestPlace, Disabled
  <2>2. UNCHANGED <<is, thread, control, stop>>
    BY <1>11 DEF RequestDisables
  <2>3. (Asked' <=> Asked) /\ (Immediate' <=> Immediate)
    BY <1>11, <2>1 DEF Asked, Immediate, RequestDisables
  <2>4. Lives'
    BY <1>1, <1>2, <2>1, <2>2 DEF Lives
  <2>5. Messages'
    BY <1>1, <1>2, <2>1, <2>2, FieldIs DEF Messages
  <2>6. InPeriod'
    BY <1>1, <1>2, <2>1, <2>2 DEF InPeriod, Messages
  <2>7. InTime'
    BY <1>1, <1>2, <2>1, <2>2, <2>3, FieldIs
       DEF InTime, DumpsAreNew, Dumped, Cared, Scheduled, WakesInTime
  <2>. QED
    BY <2>4, <2>5, <2>6, <2>7 DEF Rest
<1>12. CASE RequestAwaits
  <2>1. /\ request.pc = "clearance" /\ request'.pc = "enable" /\ request'.point = request.point
        /\ thread["state"].pc # "sleep"
        /\ UNCHANGED <<timer, periodic, next, dump, shown, age, missed>>
    BY <1>1, <1>12, <1>2, AwaitsIs DEF RequestAwaits
  <2>2. UNCHANGED <<is, thread, control, stop>>
    BY <1>12 DEF RequestAwaits
  <2>3. (Asked' <=> Asked) /\ (Immediate' <=> Immediate)
    BY <1>12, <2>1 DEF Asked, Immediate, RequestAwaits
  <2>4. Lives'
    BY <1>1, <1>2, <2>1, <2>2 DEF Lives
  <2>5. Messages'
    BY <1>1, <1>2, <2>1, <2>2, FieldIs DEF Messages
  <2>6. InPeriod'
    BY <1>1, <1>2, <2>1, <2>2 DEF InPeriod, Messages
  <2>7. InTime'
    BY <1>1, <1>2, <2>1, <2>2, <2>3, FieldIs
       DEF InTime, DumpsAreNew, Dumped, Cared, Scheduled, WakesInTime
  <2>. QED
    BY <2>4, <2>5, <2>6, <2>7 DEF Rest
<1>13. CASE RequestEnables
  <2>1. /\ request.pc = "enable" /\ request'.pc = "none" /\ request'.point = request.point
        /\ timer'["state"].waiting = timer["state"].waiting
        /\ timer'["state"].terminate = FALSE
        /\ UNCHANGED <<periodic, next, dump, shown, age, missed>>
    BY <1>1, <1>13, RequestingIs, SwitchIs DEF RequestEnables, RequestPlace, Enabled
  <2>2. UNCHANGED <<is, thread, control, stop>>
    BY <1>13 DEF RequestEnables
  <2>3. (Asked' <=> Asked) /\ (Immediate' <=> Immediate)
    BY <1>13, <2>1 DEF Asked, Immediate, RequestEnables
  <2>4. Lives'
    BY <1>1, <1>2, <2>1, <2>2 DEF Lives
  <2>5. Messages'
    BY <1>1, <1>2, <2>1, <2>2, FieldIs DEF Messages
  <2>6. InPeriod'
    BY <1>1, <1>2, <2>1, <2>2 DEF InPeriod, Messages
  <2>7. InTime'
    BY <1>1, <1>2, <2>1, <2>2, <2>3, FieldIs
       DEF InTime, DumpsAreNew, Dumped, Cared, Scheduled, WakesInTime
  <2>. QED
    BY <2>4, <2>5, <2>6, <2>7 DEF Rest
<1>. QED
  BY <1>3, <1>4, <1>5, <1>6, <1>7, <1>8, <1>9, <1>10, <1>11, <1>12, <1>13 DEF StateEvents

-------------------------------------------------------------------------------
(* The application, and time *)

LEMMA ForgetsLastSentKeeps == TypeInv /\ Rest /\ ForgetsLastSent => Rest'
<1>. SUFFICES ASSUME TypeInv, Rest, ForgetsLastSent PROVE Rest'
  OBVIOUS
<1>1. /\ control = "up" /\ control' = "forgets" /\ (\A f \in Field : age'[f] = 0)
      /\ UNCHANGED <<is, timer, thread, request, stop, dump, shown>>
  BY DEF ForgetsLastSent, Controls, held, timers
<1>. QED
  BY <1>1, FieldIs DEF Rest, Lives, Messages, InPeriod, InTime

LEMMA DeinitializeKeeps == TypeInv /\ Rest /\ Deinitialize => Rest'
<1>. SUFFICES ASSUME TypeInv, Rest, Deinitialize PROVE Rest'
  OBVIOUS
<1>1. control # "up" /\ control' # "up" /\ UNCHANGED <<is, thread, request, dump, shown, age>>
  BY DEF Deinitialize, ForgetsNext, Unsubscribes, Stops, Disables, Joins, DisablesVisual,
         StopsVisual, JoinsVisual, Controls, held, timers, report
<1>2. /\ timer'["state"].waiting = timer["state"].waiting
      /\ timer["state"].terminate => timer'["state"].terminate
  <2>1. timer \in TimerType /\ Timer = {"state", "visual"} /\ TRUE \in BOOLEAN
    BY DEF TypeInv, Timer
  <2>2. CASE timer' = timer
    BY <2>2
  <2>3. CASE \E t \in Timer : timer' = Disabled(t)
    BY <2>1, <2>3, SwitchIs DEF Disabled
  <2>. QED
    BY <2>1, <2>2, <2>3 DEF Deinitialize, ForgetsNext, Unsubscribes, Stops, Disables, Joins,
         DisablesVisual, StopsVisual, JoinsVisual, timers
<1>3. Lives'
  <2>1. /\ thread["state"].pc = "ended" => "state" \in stop'
        /\ "state" \in stop' => control' \notin {"up", "forgets", "unsubscribes", "stops"}
    BY <1>1 DEF Rest, Lives, Deinitialize, ForgetsNext, Unsubscribes, Stops, Disables, Joins,
         DisablesVisual, StopsVisual, JoinsVisual, Controls
  <2>2. control' \in {"disables visual", "stops visual", "joins visual", "down"} =>
          thread["state"].pc = "ended"
    BY DEF Rest, Lives, Deinitialize, ForgetsNext, Unsubscribes, Stops, Disables, Joins,
         DisablesVisual, StopsVisual, JoinsVisual, Controls
  <2>. QED
    BY <1>1, <1>2, <2>1, <2>2 DEF Rest, Lives
<1>4. Messages' /\ InPeriod' /\ InTime'
  BY <1>1 DEF Rest, Messages, InPeriod, InTime
<1>. QED
  BY <1>3, <1>4 DEF Rest

LEMMA InitializeKeeps == TypeInv /\ Rest /\ Initialize => Rest'
<1>. SUFFICES ASSUME TypeInv, Rest, Initialize PROVE Rest'
  OBVIOUS
<1>1. /\ "state" \in Timer /\ "visual" \in Timer /\ "state" \in Timer \ {"visual"}
      /\ timer \in TimerType /\ Period \in Nat
  BY UpdatesAssumption DEF TypeInv, Timer
<1>2. /\ request.pc = "none" /\ control = "down" /\ stop' = {} /\ periodic' = Period
      /\ requests' = <<"immediate">> /\ UNCHANGED request
      /\ \A f \in Field : age'[f] = 0
  BY DEF Initialize, Controls
<1>3. thread'["state"].pc = "loop" /\ thread'["state"].wake = 0
  BY <1>1, ModulesIs DEF Initialize
<1>4. timer'["state"].waiting = 0
  BY <1>1, <1>2, SwitchIs DEF Initialize, Enabled, Rest, Lives
<1>5. Immediate'
  BY <1>2 DEF Immediate
<1>6. Lives' /\ Messages'
  <2>1. (thread["state"].pc \in {"sleep", "interrupted", "expired"})' = FALSE
    BY <1>3
  <2>2. "state" \notin stop' /\ control' = "up"
    BY <1>2 DEF Initialize, Controls
  <2>3. Lives'
    BY <1>2, <1>3, <1>4, <2>1, <2>2 DEF Lives
  <2>4. Messages'
    BY <1>2, <1>3, FieldIs DEF Messages
  <2>. QED
    BY <2>3, <2>4
<1>7. InPeriod'
  BY <1>1, <1>2, <1>3 DEF InPeriod
<1>8. InTime'
  BY <1>2, <1>3, <1>5, FieldIs DEF InTime, DumpsAreNew, Dumped, Cared, WakesInTime
<1>. QED
  BY <1>6, <1>7, <1>8 DEF Rest

LEMMA TickKeeps == TypeInv /\ Rest /\ Tick => Rest'
<1>. SUFFICES ASSUME TypeInv, Rest, Tick PROVE Rest'
  OBVIOUS
<1>1. /\ "state" \in Timer /\ thread \in ThreadType /\ thread["state"].wake \in Nat
      /\ periodic \in 0..Period /\ next \in Nat \cup {never} /\ Period \in Nat /\ High \in 0..Period
      /\ \A f \in Field : age[f] \in Nat
  BY UpdatesAssumption DEF TypeInv, Timer, ThreadType, AgeType
<1>2. Lives /\ Messages /\ InPeriod /\ InTime
  BY DEF Rest
<1>3. /\ UNCHANGED <<is, requests, timer, request, control, stop, dump, shown, missed>>
      /\ requests = <<>> /\ request.pc = "none"
      /\ \/ thread["state"].pc = "ended"
         \/ thread["state"].pc = "sleep" /\ thread["state"].wake > 0
  BY <1>1 DEF Tick, Quiet, Resting, held, life
<1>4. /\ thread'["state"].pc = thread["state"].pc
      /\ thread'["state"].wake = Sooner(thread["state"].wake)
  BY <1>1, TickIs DEF Tick
<1>5. periodic' = Sooner(periodic) /\ next' = Sooner(next)
  BY DEF Tick
<1>6. ASSUME NEW f \in Field
      PROVE  IF control # "up" \/ Said(is)[f] = shown[f] THEN age'[f] = 0
             ELSE age'[f] \in Nat /\ age'[f] <= age[f] + 1
  <2>1. age[f] + 1 \in Nat
    BY <1>1
  <2>. QED
    BY <2>1, OlderIs DEF Tick
<1>7. control = "up" => thread["state"].pc = "sleep" /\ thread["state"].wake > 0
  BY <1>2, <1>3 DEF Lives
<1>8. Lives'
  BY <1>2, <1>3, <1>4 DEF Lives
<1>9. Messages'
  BY <1>2, <1>3, <1>4, <1>6, FieldIs DEF Messages
<1>10. InPeriod'
  <2>. SUFFICES ASSUME control = "up" PROVE InPeriod'
    BY <1>3 DEF InPeriod
  <2>1. thread["state"].wake > 0 /\ thread["state"].wake <= periodic
    BY <1>2, <1>7 DEF InPeriod
  <2>2. periodic' = periodic - 1 /\ thread'["state"].wake = thread["state"].wake - 1
    BY <1>1, <1>4, <1>5, <2>1 DEF Sooner
  <2>3. ASSUME NEW f \in Field PROVE age'[f] + periodic' <= Period
    BY <1>1, <1>2, <1>6, <2>1, <2>2 DEF InPeriod
  <2>. QED
    BY <1>1, <2>1, <2>2, <2>3 DEF InPeriod
<1>11. InTime'
  <2>. SUFFICES ASSUME control = "up" PROVE InTime'
    BY <1>3 DEF InTime
  <2>1. DumpsAreNew'
    BY <1>3, <1>4, <1>7 DEF DumpsAreNew, Dumped
  <2>. SUFFICES ASSUME missed = "no" PROVE (\A f \in Urgent : Cared(f)') /\ WakesInTime'
    BY <1>3, <2>1 DEF InTime
  <2>2. next # never => thread["state"].wake <= next
    BY <1>2, <1>3, <1>7 DEF InTime, WakesInTime
  <2>3. thread'["state"].wake = thread["state"].wake - 1
    BY <1>1, <1>4, <1>7 DEF Sooner
  <2>4. next' = IF next = never THEN never ELSE next - 1
    BY <1>1, <1>5, <1>7, <2>2 DEF Sooner, never
  <2>5. WakesInTime'
    BY <1>1, <2>2, <2>3, <2>4 DEF WakesInTime, never
  <2>6. ASSUME NEW f \in Urgent PROVE Cared(f)'
    <3>1. f \in Field
      BY FieldIs
    <3>2. Said(is)[f] = shown[f] \/ Scheduled(f)
      BY <1>2, <1>3, NoRequests DEF InTime, Cared
    <3>3. CASE Said(is)[f] = shown[f]
      BY <1>3, <3>3 DEF Cared
    <3>4. CASE Scheduled(f) /\ Said(is)[f] # shown[f]
      <4>1. next # never /\ age[f] + next <= High /\ next' = next - 1
        BY <2>4, <3>4 DEF Scheduled
      <4>2. next > 0 /\ next \in Nat
        BY <1>1, <1>7, <2>2, <4>1
      <4>3. next' # never /\ age'[f] + next' <= High
        BY <1>1, <1>6, <3>1, <3>4, <4>1, <4>2 DEF never
      <4>. QED
        BY <1>3, <1>4, <3>4, <4>3 DEF Cared, Scheduled
    <3>. QED
      BY <3>2, <3>3, <3>4
  <2>. QED
    BY <2>5, <2>6
<1>. QED
  BY <1>8, <1>9, <1>10, <1>11 DEF Rest

-------------------------------------------------------------------------------
(* The statuses stay in order *)

LEMMA SpacedLonger ==
  ASSUME NEW q, NEW r, NEW N \in Nat, DOMAIN q = 1..N, DOMAIN r = 1..(N + 1), Spaced(q),
         \A n \in 1..N : r[n] = q[n],
         \A n \in 1..N : Apart(q[n], r[N + 1]) \/ \E k \in 1..N : n < k /\ q[k] = "idle"
  PROVE  Spaced(r)
<1>. SUFFICES ASSUME NEW i \in 1..(N + 1), NEW j \in 1..(N + 1), i < j
              PROVE  Apart(r[i], r[j]) \/ \E k \in DOMAIN r : i < k /\ k < j /\ r[k] = "idle"
  BY DEF Spaced
<1>1. i \in 1..N /\ \A k \in 1..N : k \in DOMAIN r /\ k < N + 1
  OBVIOUS
<1>2. CASE j = N + 1
  BY <1>1, <1>2
<1>3. CASE j # N + 1
  <2>1. j \in 1..N
    BY <1>3
  <2>. QED
    BY <1>1, <2>1 DEF Spaced
<1>. QED
  BY <1>2, <1>3

\* The first one goes, or the second one that is no idle.
LEMMA SpacedShorter ==
  ASSUME NEW q, NEW r, NEW N \in Nat, DOMAIN q = 1..(N + 1), DOMAIN r = 1..N, Spaced(q),
         NEW d \in {1, 2}, d = 2 => q[2] # "idle",
         \A n \in 1..N : r[n] = IF n < d THEN q[n] ELSE q[n + 1]
  PROVE  Spaced(r)
<1>. DEFINE at(n) == IF n < d THEN n ELSE n + 1
<1>1. \A n \in 1..N : at(n) \in 1..(N + 1) /\ r[n] = q[at(n)]
  OBVIOUS
<1>. SUFFICES ASSUME NEW i \in 1..N, NEW j \in 1..N, i < j
              PROVE  Apart(r[i], r[j]) \/ \E k \in DOMAIN r : i < k /\ k < j /\ r[k] = "idle"
  BY DEF Spaced
<1>2. at(i) < at(j)
  OBVIOUS
<1>3. CASE Apart(q[at(i)], q[at(j)])
  BY <1>1, <1>3
<1>4. ASSUME NEW k \in 1..(N + 1), at(i) < k, k < at(j), q[k] = "idle"
      PROVE  \E l \in DOMAIN r : i < l /\ l < j /\ r[l] = "idle"
  <2>1. k # 1 /\ (d = 2 => k # 2)
    BY <1>4
  <2>2. k - 1 \in 1..N /\ at(k - 1) = k /\ i < k - 1 /\ k - 1 < j
    BY <1>4, <2>1
  <2>3. r[k - 1] = "idle"
    BY <1>1, <1>4, <2>2
  <2>. QED
    BY <2>2, <2>3
<1>5. \/ Apart(q[at(i)], q[at(j)])
      \/ \E k \in 1..(N + 1) : at(i) < k /\ k < at(j) /\ q[k] = "idle"
  <2>1. at(i) \in DOMAIN q /\ at(j) \in DOMAIN q
    BY <1>1
  <2>. HIDE DEF at
  <2>. QED
    BY <1>2, <2>1 DEF Spaced
<1>. QED
  <2>. HIDE DEF at
  <2>. QED
    BY <1>3, <1>4, <1>5

\* What a handler takes from the queue of the order events, if it takes anything.
LEMMA OrderTaken ==
  ASSUME TypeInv, Handlers
  PROVE  \/ queue'["order"] = queue["order"] /\ is'["status"] = is["status"]
         \/ /\ queue["order"] # <<>> /\ queue'["order"] = Tail(queue["order"])
            /\ \/ is'["status"] = Head(queue["order"]).name
               \/ is'["status"] = is["status"] /\ Head(queue["order"]).name # "idle"
<1>1. queue \in QueueType /\ is \in Content
  BY DEF TypeInv
<1>2. \A t \in EventThread : queue' = [queue EXCEPT ![t] = Tail(@)] =>
        queue'["order"] = IF t = "order" THEN Tail(queue["order"]) ELSE queue["order"]
  BY <1>1 DEF QueueType, EventThread
<1>3. {"status", "navigation", "order", "interpreter"} \subseteq EventThread
  BY DEF EventThread
<1>4. \A f \in Field \ {"status"} : \A v : [is EXCEPT ![f] = v]["status"] = is["status"]
  BY <1>1, FieldIs DEF Content
<1>5. {"loads", "mode", "battery", "newBase", "errors", "infos", "position", "velocity",
       "distance", "driving", "lastNode", "order", "action"} \subseteq Field \ {"status"}
  BY FieldIs DEF OrderFields, StatusFields, Sampled
<1>6. CASE HandleOrderStatus
  <2>1. PICK s \in OrderStatuses :
          /\ Takes("order", s)
          /\ Becomes("order", [is EXCEPT !.status = s], IsPause(is.status) # IsPause(s))
    BY <1>6 DEF HandleOrderStatus
  <2>2. is'["status"] = s
    BY <1>1, <2>1, FieldIs DEF Becomes, Content
  <2>3. queue'["order"] = Tail(queue["order"])
    BY <1>2, <1>3, <2>1 DEF Becomes
  <2>. QED
    BY <2>1, <2>2, <2>3 DEF Takes
<1>7. CASE HandleOrderNewLastNodeId
  <2>1. is'["status"] = is["status"]
    BY <1>1, <1>5, <1>7, FieldIs DEF HandleOrderNewLastNodeId, Becomes, Content
  <2>. QED
    BY <1>2, <1>3, <1>7, <2>1 DEF HandleOrderNewLastNodeId, Becomes, Takes
<1>8. CASE HandleOrderActionStatusChanged
  BY <1>2, <1>3, <1>4, <1>5, <1>8 DEF HandleOrderActionStatusChanged, Becomes, Takes
<1>9. CASE HandleNavigationSample
  <2>1. PICK f \in {"position", "velocity", "distance"} :
          Becomes("navigation", [is EXCEPT ![f] = Head(queue.navigation).value], FALSE)
    BY <1>9 DEF HandleNavigationSample
  <2>. QED
    BY <1>2, <1>3, <1>4, <1>5, <2>1 DEF Becomes
<1>10. ASSUME NEW t \in EventThread \ {"order"}, NEW f \in Field \ {"status"}, NEW v, NEW asks,
              Becomes(t, [is EXCEPT ![f] = v], asks)
       PROVE  queue'["order"] = queue["order"] /\ is'["status"] = is["status"]
  BY <1>2, <1>4, <1>10 DEF Becomes
<1>11. ASSUME NEW t \in EventThread \ {"order"}, NEW asks, Becomes(t, is, asks)
       PROVE  queue'["order"] = queue["order"] /\ is'["status"] = is["status"]
  BY <1>2, <1>11 DEF Becomes
<1>12. {"status", "navigation", "interpreter"} \subseteq EventThread \ {"order"}
  BY DEF EventThread
<1>13. CASE HandleNavigationStatusDriving
  BY <1>5, <1>10, <1>12, <1>13 DEF HandleNavigationStatusDriving
<1>14. CASE HandleNavigationStatusNodeReached
  BY <1>5, <1>10, <1>12, <1>14 DEF HandleNavigationStatusNodeReached
<1>15. CASE HandleYields
  BY <1>5, <1>10, <1>12, <1>15 DEF HandleYields
<1>16. CASE HandleLoadAdd
  BY <1>5, <1>10, <1>12, <1>16 DEF HandleLoadAdd
<1>17. CASE HandleOperatingMode
  BY <1>5, <1>10, <1>12, <1>17 DEF HandleOperatingMode
<1>18. CASE HandleBatteryState
  BY <1>5, <1>10, <1>12, <1>18 DEF HandleBatteryState
<1>19. CASE HandleRequestNewBase
  BY <1>5, <1>10, <1>12, <1>19 DEF HandleRequestNewBase
<1>20. CASE HandleErrorsAlter
  BY <1>5, <1>10, <1>12, <1>20 DEF HandleErrorsAlter, Altered
<1>21. CASE HandleErrorAdd
  BY <1>5, <1>10, <1>12, <1>21 DEF HandleErrorAdd
<1>22. CASE HandleInfoAdd
  BY <1>5, <1>10, <1>12, <1>22 DEF HandleInfoAdd
<1>23. CASE HandleInfosAlter
  BY <1>5, <1>10, <1>12, <1>23 DEF HandleInfosAlter, Altered
<1>24. CASE HandleGet
  BY <1>11, <1>12, <1>24 DEF HandleGet
<1>25. CASE HandleLoadRemove
  <2>. DEFINE found == is.loads > 0 /\ Head(queue.status).value = 1
              less  == [is EXCEPT !.loads = IF found THEN @ - 1 ELSE @]
  <2>1. Becomes("status", less, found)
    BY <1>25 DEF HandleLoadRemove
  <2>2. less["status"] = is["status"]
    BY <1>4, <1>5
  <2>. HIDE DEF found, less
  <2>. QED
    BY <1>2, <1>12, <2>1, <2>2 DEF Becomes
<1>26. CASE HandleLoadsAlter
  <2>1. CASE is.loads # unset
    BY <1>5, <1>10, <1>12, <1>26, <2>1 DEF HandleLoadsAlter, Altered
  <2>2. CASE is.loads = unset
    BY <1>11, <1>12, <1>26, <2>2 DEF HandleLoadsAlter
  <2>. QED
    BY <2>1, <2>2
<1>. QED
  BY <1>6, <1>7, <1>8, <1>9, <1>13, <1>14, <1>15, <1>16, <1>17, <1>18, <1>19, <1>20, <1>21,
     <1>22, <1>23, <1>24, <1>25, <1>26
     DEF Handlers

LEMMA SpacedNext == TypeInv /\ Spaced(Announced) /\ Next /\ TypeInv' => Spaced(Announced)'
<1>. SUFFICES ASSUME TypeInv, Spaced(Announced), Next, TypeInv' PROVE Spaced(Announced')
  OBVIOUS
<1>. DEFINE q == queue["order"]
<1>1. queue \in QueueType /\ queue' \in QueueType /\ q \in Seq(Calls) /\ q' \in Seq(Calls)
  BY DEF TypeInv, QueueType, EventThread
<1>2. Len(q) \in Nat /\ DOMAIN Announced = 1..(Len(q) + 1) /\ Announced[1] = is.status
      /\ \A n \in 1..Len(q) : Announced[n + 1] = q[n].name
  BY <1>1, AnnouncedIs
<1>3. Len(q') \in Nat /\ DOMAIN Announced' = 1..(Len(q') + 1) /\ Announced'[1] = is'.status
      /\ \A n \in 1..Len(q') : Announced'[n + 1] = q'[n].name
  BY <1>1, AnnouncedAgain
<1>4. CASE q' = q /\ is'.status = is.status
  BY <1>4 DEF Announced
<1>5. CASE Call
  <2>. DEFINE c == Head(plan.calls)
  <2>1. c \in Calls /\ c.thread \in EventThread
    BY <1>5 DEF Call, TypeInv, PlanType, Calls, EventThread
  <2>2. queue' = [queue EXCEPT ![c.thread] = Append(@, c)] /\ is' = is /\ MayFollow(c.name)
    BY <1>5 DEF Call
  <2>3. CASE c.thread # "order"
    BY <1>1, <1>4, <2>1, <2>2, <2>3 DEF QueueType, EventThread
  <2>4. CASE c.thread = "order"
    <3>1. q' = Append(q, c)
      BY <1>1, <2>1, <2>2, <2>4 DEF QueueType
    <3>. HIDE DEF q, c
    <3>2. Len(q') = Len(q) + 1 /\ q'[Len(q) + 1] = c /\ \A n \in 1..Len(q) : q'[n] = q[n]
      BY <1>1, <2>1, <3>1
    <3>. DEFINE N == Len(q) + 1
    <3>3. N \in Nat /\ DOMAIN Announced = 1..N /\ DOMAIN Announced' = 1..(N + 1)
      BY <1>2, <1>3, <3>2
    <3>4. Announced'[N + 1] = c.name
      BY <1>2, <1>3, <3>2
    <3>5. ASSUME NEW n \in 1..N PROVE Announced'[n] = Announced[n]
      <4>1. CASE n = 1
        BY <1>2, <1>3, <2>2, <4>1
      <4>2. CASE n # 1
        <5>1. n - 1 \in 1..Len(q) /\ n - 1 \in 1..Len(q') /\ (n - 1) + 1 = n
          BY <1>2, <3>2, <4>2
        <5>. QED
          BY <1>2, <1>3, <3>2, <5>1
      <4>. QED
        BY <4>1, <4>2
    <3>6. \A n \in 1..N : Apart(Announced[n], Announced'[N + 1])
                          \/ \E k \in 1..N : n < k /\ Announced[k] = "idle"
      BY <2>2, <3>3, <3>4 DEF MayFollow
    <3>. HIDE DEF N
    <3>. QED
      BY <3>3, <3>5, <3>6, SpacedLonger
  <2>. QED
    BY <2>3, <2>4
<1>6. CASE Handlers
  <2>1. CASE q' = q /\ is'.status = is.status
    BY <1>4, <2>1
  <2>2. CASE /\ q # <<>> /\ q' = Tail(q)
             /\ \/ is'.status = Head(q).name
                \/ is'.status = is.status /\ Head(q).name # "idle"
    <3>. HIDE DEF q
    <3>1. /\ Len(q) = Len(q') + 1 /\ Head(q) = q[1] /\ \A n \in 1..Len(q') : q'[n] = q[n + 1]
      BY <1>1, <2>2
    <3>. DEFINE N == Len(q') + 1
                d == IF is'.status = Head(q).name THEN 1 ELSE 2
    <3>2. N \in Nat /\ DOMAIN Announced = 1..(N + 1) /\ DOMAIN Announced' = 1..N
      BY <1>2, <1>3, <3>1
    <3>3. Announced[2] = Head(q).name
      BY <1>2, <1>3, <3>1
    <3>4. d \in {1, 2} /\ (d = 2 => Announced[2] # "idle")
      BY <2>2, <3>3
    <3>5. ASSUME NEW n \in 1..N
          PROVE  Announced'[n] = IF n < d THEN Announced[n] ELSE Announced[n + 1]
      <4>1. CASE n = 1
        BY <1>2, <1>3, <2>2, <3>3, <4>1
      <4>2. CASE n # 1
        <5>1. /\ n - 1 \in 1..Len(q') /\ (n - 1) + 1 = n /\ ~(n < d)
              /\ n \in 1..Len(q)
          BY <1>3, <3>1, <3>4, <4>2
        <5>2. Announced'[n] = q'[n - 1].name /\ q'[n - 1] = q[n] /\ Announced[n + 1] = q[n].name
          BY <1>2, <1>3, <3>1, <5>1
        <5>. QED
          BY <5>1, <5>2
      <4>. QED
        BY <4>1, <4>2
    <3>. HIDE DEF N, d
    <3>. QED
      BY <3>2, <3>4, <3>5, SpacedShorter
  <2>. QED
    BY <1>6, <2>1, <2>2, OrderTaken
<1>7. CASE Initialize
  <2>1. q' = <<>> /\ Len(q') = 0
    BY <1>7 DEF Initialize, EventThread
  <2>2. DOMAIN Announced' = 1..1
    BY <1>3, <2>1
  <2>. QED
    BY <2>2 DEF Spaced
<1>8. CASE StateTimer \/ StateEvents \/ Visualization
  <2>1. queue' = queue
    BY <1>8 DEF StateTimer, TimerWakesUp, TimerPeeks, TimerDumpsOrder, TimerDumpsStatus,
         TimerDispatches, TimerSets, TimerClears, StateEvents, RequestTaken, RequestUnheard,
         RequestSchedules, RequestDumpsOrder, RequestDumpsStatus, RequestDispatches,
         RequestSets, RequestClears, RequestDisables, RequestAwaits, RequestEnables,
         Visualization, VisualLoops, SleepChecks, SleepCounts, SleepEnds, SleepLeaves,
         VisualReads, VisualResets, Awake, held
  <2>2. is'.status = is.status
    <3>1. CASE VisualResets
      <4>1. "velocity" \in Field \ {"status"}
        BY FieldIs DEF StatusFields, Sampled
      <4>. QED
        BY <3>1, <4>1, FieldIs DEF VisualResets, TypeInv, Content
    <3>2. CASE ~VisualResets
      BY <1>8, <3>2 DEF StateTimer, TimerWakesUp, TimerPeeks, TimerDumpsOrder,
         TimerDumpsStatus, TimerDispatches, TimerSets, TimerClears, StateEvents, RequestTaken,
         RequestUnheard, RequestSchedules, RequestDumpsOrder, RequestDumpsStatus,
         RequestDispatches, RequestSets, RequestClears, RequestDisables, RequestAwaits,
         RequestEnables, Visualization, VisualLoops, SleepChecks, SleepCounts, SleepEnds,
         SleepLeaves, VisualReads, Awake, held
    <3>. QED
      BY <3>1, <3>2
  <2>. QED
    BY <1>4, <2>1, <2>2
<1>9. CASE ForgetsLastSent \/ Deinitialize \/ Tick
  BY <1>4, <1>9 DEF ForgetsLastSent, Deinitialize, ForgetsNext, Unsubscribes, Stops, Disables,
       Joins, DisablesVisual, StopsVisual, JoinsVisual, Tick, held
<1>. QED
  BY <1>5, <1>6, <1>7, <1>8, <1>9 DEF Next

-------------------------------------------------------------------------------
(* The theorems *)

LEMMA InvInit == Init => Inv
<1>. SUFFICES ASSUME Init PROVE Inv
  OBVIOUS
<1>1. TypeInv
  BY TypeInit
<1>2. /\ queue = [t \in EventThread |-> <<>>] /\ requests = <<"immediate">>
      /\ timer["state"].waiting = 0 /\ request.pc = "none" /\ periodic = Period
      /\ control = "up" /\ stop = {} /\ \A f \in Field : age[f] = 0
  BY DEF Init, Timer
<1>3. thread["state"].pc = "loop" /\ thread["state"].wake = 0
  BY <1>1, ModulesIs DEF Init, Timer
<1>4. Spaced(Announced)
  <2>1. queue \in QueueType /\ queue["order"] = <<>> /\ Len(queue["order"]) = 0
    BY <1>1, <1>2 DEF TypeInv, EventThread
  <2>2. DOMAIN Announced = 1..1
    BY <2>1, AnnouncedIs
  <2>. QED
    BY <2>2 DEF Spaced
<1>5. Immediate
  BY <1>2 DEF Immediate
<1>6. Lives /\ Messages
  BY <1>2, <1>3, FieldIs DEF Lives, Messages
<1>7. InPeriod
  BY <1>2, <1>3, UpdatesAssumption DEF InPeriod
<1>8. InTime
  BY <1>2, <1>3, <1>5, FieldIs DEF InTime, DumpsAreNew, Dumped, Cared, WakesInTime
<1>. QED
  BY <1>1, <1>4, <1>6, <1>7, <1>8 DEF Inv, Rest

LEMMA InvNext == Inv /\ [Next]_vars => Inv'
<1>. SUFFICES ASSUME Inv, [Next]_vars PROVE Inv'
  OBVIOUS
<1>1. CASE Next
  <2>1. TypeInv /\ Spaced(Announced) /\ Rest
    BY DEF Inv
  <2>2. TypeInv'
    BY <1>1, <2>1, TypeNext
  <2>3. Spaced(Announced)'
    BY <1>1, <2>1, <2>2, SpacedNext
  <2>4. Rest'
    BY <1>1, <2>1, HandlersHandle, HandlersKeep, CallKeeps, StateTimerKeeps, StateEventsKeep,
       VisualizationKeeps, ForgetsLastSentKeeps, DeinitializeKeeps, InitializeKeeps, TickKeeps
       DEF Next
  <2>. QED
    BY <2>2, <2>3, <2>4 DEF Inv
<1>2. CASE UNCHANGED vars
  <2>1. /\ UNCHANGED <<is, queue, requests, timer, thread, request, periodic>>
        /\ UNCHANGED <<next, control, stop, dump, shown, age, missed, plan>>
    BY <1>2 DEF vars
  <2>2. Announced' = Announced
    BY <2>1 DEF Announced
  <2>3. TypeInv' /\ Spaced(Announced)'
    BY <2>1, <2>2 DEF Inv, TypeInv
  <2>4. \A f \in Urgent : Said(is')[f] = Said(is)[f]
    BY <2>1
  <2>5. Rest'
    BY <2>1, <2>4, FrameKeeps DEF Inv
  <2>. QED
    BY <2>3, <2>5 DEF Inv
<1>. QED
  BY <1>1, <1>2

LEMMA InvAlways == Spec => []Inv
  BY InvInit, InvNext, PTL DEF Spec

\* For every period, every sequence of calls, and over restarts: whatever changes, and
\* however requests, the timer and its interrupts cross, the master control has it in a
\* State message when the period is over.
THEOREM AllIsReported == Spec => []ReportedInPeriod
<1>1. Inv => ReportedInPeriod
  <2>. SUFFICES ASSUME Inv, control = "up", NEW f \in Field PROVE age[f] <= Period
    BY DEF ReportedInPeriod
  <2>. QED
    BY UpdatesAssumption DEF Inv, Rest, InPeriod, TypeInv, AgeType
<1>. QED
  BY <1>1, InvAlways, PTL

\* For every delay of urgent requests up to the period: an urgent change is in a State
\* message in time, if no request since the message before has met an awake timer.
THEOREM UrgentIsReported == Spec => []UrgentInTime
<1>1. Inv => UrgentInTime
  <2>. SUFFICES ASSUME Inv, control = "up", missed = "no", NEW f \in Urgent
                PROVE  age[f] <= High
    BY DEF UrgentInTime
  <2>1. f \in Field /\ High \in Nat /\ age[f] \in Nat /\ next \in Nat \cup {never}
    BY FieldIs, UpdatesAssumption DEF Inv, TypeInv, AgeType
  <2>2. Cared(f) /\ (Said(is)[f] = shown[f] => age[f] = 0)
    BY DEF Inv, Rest, InTime, Messages
  <2>. QED
    BY <2>1, <2>2 DEF Cared, Scheduled, never
<1>. QED
  BY <1>1, InvAlways, PTL
===============================================================================
