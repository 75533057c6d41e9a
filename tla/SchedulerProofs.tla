---------------------------- MODULE SchedulerProofs ----------------------------
(***************************************************************************)
(* The invariants and the action properties of Scheduler, for every set of *)
(* actions, every sequence of orders and every set of instant actions      *)
(* messages.                                                               *)
(***************************************************************************)
EXTENDS Scheduler, SchedulerLemmas

-------------------------------------------------------------------------------
(* Type correctness *)

\* A call that returns a scheduler keeps the scheduler and the status typed.
LEMMA CallType ==
  ASSUME TypeOK, NEW s \in Schedulers, Call(s)
  PROVE  sch' \in Schedulers /\ published' \in SchedulerState
<1>1. s.notes \in Seq(SchedulerState)
  BY DEF Schedulers
<1>2. s.notes # <<>> => s.notes[Len(s.notes)] \in SchedulerState
  BY <1>1
<1>. QED
  BY <1>2 DEF Call, TypeOK

LEMMA TypeInit == Init => TypeOK
<1>1. <<>> \in Seq(Yield \cup {Done}) /\ 0 \in 0..Len(Orders)
  BY EmptySeqType, OrdersAssumption
<1>. QED
  BY <1>1, NewSchedulerType DEF Init, TypeOK, SchedulerState

LEMMA TypeNext == TypeOK /\ [Next]_vars => TypeOK'
<1>. SUFFICES ASSUME TypeOK, [Next]_vars PROVE TypeOK'
  OBVIOUS
<1>. DEFINE s0 == Begin(sch)
<1>. s0 \in Schedulers
  BY BeginType DEF TypeOK
<1>. HIDE DEF s0
<1>1. CASE ReceiveOrder
  <2>1. /\ Orders[received + 1] \in Seq(Yield) /\ received + 1 \in 0..Len(Orders)
    BY <1>1, OrdersAssumption DEF ReceiveOrder, TypeOK
  <2>2. Append(Orders[received + 1], Done) \in Seq(Yield \cup {Done})
    <3>1. Orders[received + 1] \in Seq(Yield \cup {Done})
      BY <2>1
    <3>. QED
      BY <3>1, AppendType
  <2>3. pending' \in Seq(Yield \cup {Done})
    BY <1>1, <2>2 DEF ReceiveOrder, TypeOK
  <2>. QED
    BY <1>1, <2>1, <2>3 DEF ReceiveOrder, TypeOK
<1>2. CASE EnqueueYield
  <2>1. Head(pending) \in Yield /\ Tail(pending) \in Seq(Yield \cup {Done})
    BY <1>2 DEF EnqueueYield, TypeOK
  <2>2. sch' \in Schedulers /\ published' \in SchedulerState
    BY <1>2, <2>1, EnqueueType, CallType DEF EnqueueYield, s0
  <2>. QED
    BY <1>2, <2>1, <2>2 DEF EnqueueYield, TypeOK
<1>3. CASE CommitOrder
  <2>1. Tail(pending) \in Seq(Yield \cup {Done})
    BY <1>3 DEF CommitOrder, TypeOK
  <2>2. sch' \in Schedulers /\ published' \in SchedulerState
    BY <1>3, CommitQueueType, CallType DEF CommitOrder, s0
  <2>. QED
    BY <1>3, <2>1, <2>2 DEF CommitOrder, TypeOK
<1>4. ASSUME NEW G \in Instants, InstantActions(G) PROVE TypeOK'
  <2>1. sch' \in Schedulers /\ published' \in SchedulerState
    BY <1>4, InterruptType, OrdersAssumption, CallType DEF InstantActions, s0
  <2>. QED
    BY <1>4, <2>1 DEF InstantActions, TypeOK
<1>5. CASE CancelOrder
  BY <1>5, CancelType, CallType DEF CancelOrder, TypeOK, s0
<1>6. CASE PauseOrder
  BY <1>6, PauseType, CallType DEF PauseOrder, TypeOK, s0
<1>7. CASE ResumeOrder
  BY <1>7, ResumeType, CallType DEF ResumeOrder, TypeOK, s0
<1>8. ASSUME NEW a \in Action, NEW t \in ActionReport, ActionStatus(a, t) PROVE TypeOK'
  BY <1>8, ReportActionType, CallType DEF ActionStatus, TypeOK, s0, ActionTransition
<1>9. ASSUME NEW t \in NavReport, NavigationControl(t) PROVE TypeOK'
  BY <1>9, ReportNavType, CallType DEF NavigationControl, TypeOK, s0, NavTransition
<1>10. CASE NodeReached
  BY <1>10, ReportNavType, CallType DEF NodeReached, TypeOK, s0, NavTransition, NavReport
<1>11. CASE NodeUnrecorded
  BY <1>11, ReachUnrecordedType, CallType DEF NodeUnrecorded, TypeOK, s0
<1>12. CASE UNCHANGED vars
  BY <1>12 DEF vars, TypeOK
<1>. QED
  BY <1>1, <1>2, <1>3, <1>4, <1>5, <1>6, <1>7, <1>8, <1>9, <1>10, <1>11, <1>12 DEF Next

\* Whatever the order of calls and reports, every field of the scheduler keeps its
\* type: no operation builds a queue, map or task the others cannot handle.
THEOREM TypeCorrect == Spec => []TypeOK
  BY TypeInit, TypeNext, PTL DEF Spec

-------------------------------------------------------------------------------
(* The inductive invariant *)

\* The actions of instant actions messages still to come.
Unissued == UNION (Instants \ issued)

Inv ==
  /\ TypeOK
  /\ Sound(sch, OrderActions, Unissued)
  /\ Emptied(sch)
  /\ published = sch.state
  /\ pending \in Seq(YieldOf(OrderActions) \cup {Done})

LEMMA InvInit == Init => Inv
<1>. SUFFICES ASSUME Init PROVE Inv
  OBVIOUS
<1>1. <<>> \in Seq(YieldOf(OrderActions)) /\ <<>> \in Seq(YieldOf(OrderActions) \cup {Done})
  BY EmptySeqType
<1>2. Unissued \subseteq Action /\ Unissued \cap OrderActions = {}
  BY OrdersAssumption, UniqueIdsAssumption DEF Unissued
<1>3. Fresh(sch, OrderActions, Unissued)
  BY <1>1, <1>2 DEF Init, NewScheduler, Fresh
<1>4. Maps(sch) /\ Alive(sch) /\ Emptied(sch) /\ published = sch.state
  BY DEF Init, NewScheduler, Maps, Alive, Emptied, Quiet
<1>. QED
  BY <1>1, <1>3, <1>4, TypeInit DEF Init, Inv, Sound, Weak, TypeOK

\* What every call establishes: the scheduler it leaves is sound and its status known.
LEMMA CallInv ==
  ASSUME NEW s, Announced(s, published), Call(s)
  PROVE  Emptied(sch') /\ published' = sch'.state
  BY DEF Call, Announced, Tracks

\* What the interpreter yields for an order are groups of the order and steps.
LEMMA YieldsType ==
  ASSUME NEW n \in DOMAIN Orders
  PROVE  Append(Orders[n], Done) \in Seq(YieldOf(OrderActions) \cup {Done})
<1>. DEFINE q == Orders[n]
            S == YieldOf(OrderActions)
<1>1. q \in Seq(Yield)
  BY OrdersAssumption
<1>2. \A i \in DOMAIN q : q[i] \in S
  <2>1. ASSUME NEW i \in DOMAIN q, ~IsStep(q[i]) PROVE q[i].actions \subseteq OrderActions
    <3>1. q[i].actions \subseteq ActionsIn(q)
      BY <2>1 DEF ActionsIn
    <3>. QED
      BY <3>1 DEF OrderActions
  <2>2. \A i \in DOMAIN q : q[i] \in Yield
    BY <1>1
  <2>. QED
    BY <2>1, <2>2 DEF YieldOf
<1>. HIDE DEF q, S
<1>3. q \in Seq(S \cup {Done})
  BY <1>1, <1>2
<1>4. Append(q, Done) \in Seq(S \cup {Done})
  BY <1>3, AppendType
<1>. QED
  BY <1>4 DEF q, S

LEMMA InvNext == Inv /\ [Next]_vars => Inv'
<1>. SUFFICES ASSUME Inv, [Next]_vars PROVE Inv'
  OBVIOUS
<1>. DEFINE s0 == Begin(sch)
            O  == OrderActions
            W  == Unissued
<1>1. TypeOK'
  BY TypeNext DEF Inv
<1>2. Sound(s0, O, W) /\ Announced(s0, published) /\ ~s0.thrown /\ s0 \in Schedulers
  BY BeginSound, BeginStatus, BeginType DEF Inv, TypeOK
<1>3. s0.state \in {"idle", "idle_paused"} => s0.active = {}
  BY <1>2 DEF Announced, Emptied, Quiet
<1>. HIDE DEF s0
<1>4. ASSUME NEW s, Call(s), Sound(s, O, W), Announced(s, published),
             UNCHANGED issued, pending' \in Seq(YieldOf(O) \cup {Done})
      PROVE  Inv'
  <2>1. Sound(sch', O, Unissued')
    BY <1>4 DEF Call, Unissued
  <2>. QED
    BY <1>1, <1>4, <2>1, CallInv DEF Inv
<1>5. pending \in Seq(YieldOf(O) \cup {Done})
  BY DEF Inv
<1>6. CASE ReceiveOrder
  <2>1. Append(Orders[received + 1], Done) \in Seq(YieldOf(O) \cup {Done})
    <3>1. received + 1 \in DOMAIN Orders
      BY <1>6, OrdersAssumption DEF ReceiveOrder, Inv, TypeOK
    <3>. QED
      BY <3>1, YieldsType
  <2>2. pending' \in Seq(YieldOf(O) \cup {Done})
    BY <1>5, <1>6, <2>1, ConcatType DEF ReceiveOrder
  <2>. QED
    BY <1>1, <1>6, <2>2 DEF ReceiveOrder, Inv, Unissued
<1>7. CASE EnqueueYield
  <2>1. Head(pending) \in YieldOf(O) /\ pending' \in Seq(YieldOf(O) \cup {Done})
    <3>1. Head(pending) \in YieldOf(O) \cup {Done} /\ Tail(pending) \in Seq(YieldOf(O) \cup {Done})
      <4>. HIDE DEF O
      <4>. QED
        BY <1>5, <1>7 DEF EnqueueYield
    <3>. QED
      BY <1>7, <3>1 DEF EnqueueYield
  <2>. QED
    BY <1>2, <1>4, <1>7, <2>1, EnqueueSound, EnqueueStatus DEF EnqueueYield, s0
<1>8. CASE CommitOrder
  <2>1. pending' \in Seq(YieldOf(O) \cup {Done})
    <3>. HIDE DEF O
    <3>. QED
      BY <1>5, <1>8 DEF CommitOrder
  <2>. QED
    BY <1>2, <1>3, <1>4, <1>8, <2>1, CommitQueueSound, CommitQueueStatus DEF CommitOrder, s0
<1>9. ASSUME NEW G \in Instants, InstantActions(G) PROVE Inv'
  <2>1. G \subseteq W /\ G # {}
    BY <1>9, OrdersAssumption DEF InstantActions, Unissued
  <2>2. Unissued' = W \ G
    BY <1>9, UniqueIdsAssumption DEF InstantActions, Unissued
  <2>3. /\ Sound(Interrupt(s0, G), O, W \ G)
        /\ Announced(Interrupt(s0, G), published)
    BY <1>2, <2>1, InterruptSound, InterruptStatus
  <2>4. Call(Interrupt(s0, G)) /\ UNCHANGED <<pending, received>>
    BY <1>9 DEF InstantActions, s0
  <2>5. Sound(sch', O, Unissued')
    BY <2>2, <2>3, <2>4 DEF Call
  <2>. QED
    BY <1>1, <1>5, <2>3, <2>4, <2>5, CallInv DEF Inv
<1>10. CASE CancelOrder
  BY <1>2, <1>4, <1>5, <1>10, CancelSound, CancelStatus, SoundIsWeak DEF CancelOrder, s0
<1>11. CASE PauseOrder
  BY <1>2, <1>4, <1>5, <1>11, PauseSound, PauseStatus DEF PauseOrder, s0
<1>12. CASE ResumeOrder
  BY <1>2, <1>3, <1>4, <1>5, <1>12, ResumeSound, ResumeStatus DEF ResumeOrder, s0
<1>13. ASSUME NEW a \in Action, NEW t \in ActionReport, ActionStatus(a, t) PROVE Inv'
  BY <1>2, <1>3, <1>4, <1>5, <1>13, ReportActionSound, ReportActionStatus
     DEF ActionStatus, s0
<1>14. ASSUME NEW t \in NavReport, NavigationControl(t) PROVE Inv'
  BY <1>2, <1>3, <1>4, <1>5, <1>14, ReportNavSound, ReportNavStatus
     DEF NavigationControl, s0, NavTransition
<1>15. CASE NodeReached
  BY <1>2, <1>3, <1>4, <1>5, <1>15, ReportNavSound, ReportNavStatus
     DEF NodeReached, s0, NavTransition, NavReport
<1>16. CASE NodeUnrecorded
  <2>1. s0.nav # NoTask
    BY <1>16 DEF NodeUnrecorded, Begin, s0, Inv, TypeOK, Schedulers
  <2>. QED
    BY <1>2, <1>4, <1>5, <1>16, <2>1, ReachUnrecordedSound, ReachUnrecordedStatus
       DEF NodeUnrecorded, s0
<1>17. CASE UNCHANGED vars
  BY <1>1, <1>17 DEF vars, Inv, Unissued
<1>. QED
  BY <1>6, <1>7, <1>8, <1>9, <1>10, <1>11, <1>12, <1>13, <1>14, <1>15, <1>16, <1>17
     DEF Next

LEMMA Inductive == Spec => []Inv
  BY InvInit, InvNext, PTL DEF Spec

-------------------------------------------------------------------------------
(* The safety invariants *)

\* Whatever is called and reported, also where calls end in exceptions, the maps
\* pause(), resume() and cancel() walk hold exactly the actions in progress.
THEOREM MapsArePartitioned == Spec => []MapsPartition
<1>1. Inv => MapsPartition
  BY DEF Inv, Sound, Weak, Maps, Alive, MapsPartition
<1>. QED
  BY <1>1, Inductive, PTL

\* The scheduler goes idle only when it has nothing in progress, no group or step of
\* an order to start and no segment left, for every order, extension and instant
\* action; instant actions it refused may wait in sch.intr.
THEOREM IdleLeavesNothing == Spec => []IdleIsEmpty
<1>1. Inv => IdleIsEmpty
  BY DEF Inv, Emptied, Quiet, IdleIsEmpty
<1>. QED
  BY <1>1, Inductive, PTL

\* The last published OrderStatus is the state of the scheduler after every call,
\* so that the validation of the next control or order is not misled by a state
\* entered without an event.
THEOREM StatusIsPublished == Spec => []StatusTracksState
<1>1. Inv => StatusTracksState
  BY DEF Inv, StatusTracksState
<1>. QED
  BY <1>1, Inductive, PTL

-------------------------------------------------------------------------------
(* The invariant about what is still to come *)

\* What is still to come to the scheduler: the events in the queue and the orders not
\* interpreted yet.
Pending == {e \in Elems(pending) : e # Done}
Coming  == UNION {Elems(Orders[n]) : n \in (received + 1)..Len(Orders)}

PendingOrdered ==
  /\ \A i, j \in DOMAIN pending :
       i < j /\ pending[i] # Done /\ pending[j] # Done => Before(pending[i], pending[j])
  /\ Precede(Pending, Coming)

SafetyInv ==
  /\ Inv
  /\ Lined(sch, {}, OrderActions, Pending \cup Coming)
  /\ PendingOrdered

\* The yields of the orders.
LEMMA OrdersYield ==
  ASSUME NEW n \in DOMAIN Orders
  PROVE  /\ Orders[n] \in Seq(Yield) /\ Elems(Orders[n]) \subseteq YieldOf(OrderActions)
         /\ Ordered(Orders[n])
         /\ \A e \in Elems(Orders[n]) : ~IsStep(e) => Covered(e)
         /\ \A m \in DOMAIN Orders : n < m => Precede(Elems(Orders[n]), Elems(Orders[m]))
<1>. DEFINE q == Orders[n]
<1>1. q \in Seq(Yield)
  BY OrdersAssumption
<1>2. ASSUME NEW i \in DOMAIN q PROVE q[i] \in YieldOf(OrderActions)
  <2>1. q[i] \in Yield
    BY <1>1
  <2>2. ~IsStep(q[i]) => q[i].actions \subseteq ActionsIn(q)
    BY DEF ActionsIn
  <2>3. ActionsIn(q) \subseteq OrderActions
    BY DEF OrderActions
  <2>. QED
    BY <2>1, <2>2, <2>3 DEF YieldOf
<1>4. Ordered(q)
  BY NumberingAssumption DEF Ordered
<1>5. \A i \in DOMAIN q : ~IsStep(q[i]) => Covered(q[i])
  BY CeilingAssumption
<1>6. ASSUME NEW m \in DOMAIN Orders, n < m PROVE Precede(Elems(q), Elems(Orders[m]))
  BY <1>6, NumberingAssumption DEF Precede, Elems
<1>. QED
  BY <1>1, <1>2, <1>4, <1>5, <1>6 DEF Elems

LEMMA ComingType ==
  ASSUME TypeOK
  PROVE  /\ received \in Nat /\ Len(Orders) \in Nat
         /\ (received + 1)..Len(Orders) \subseteq DOMAIN Orders
         /\ Coming \subseteq YieldOf(OrderActions)
         /\ \A e \in Coming : ~IsStep(e) => Covered(e)
<1>1. received \in Nat /\ Len(Orders) \in Nat /\ DOMAIN Orders = 1..Len(Orders)
  BY OrdersAssumption DEF TypeOK
<1>2. (received + 1)..Len(Orders) \subseteq DOMAIN Orders
  BY <1>1
<1>. QED
  BY <1>1, <1>2, OrdersYield DEF Coming

LEMMA SafetyInit == Init => SafetyInv
<1>. SUFFICES ASSUME Init PROVE SafetyInv
  OBVIOUS
<1>1. Inv
  BY InvInit
<1>2. /\ sch.queue = <<>> /\ sch.staging = <<>> /\ sch.active = {} /\ sch.segment = NoSegment
      /\ pending = <<>>
  BY DEF Init, NewScheduler
<1>3. Pending = {} /\ PendingOrdered
  BY <1>2, EmptyOrdered DEF Pending, PendingOrdered, Precede
<1>4. Lined(sch, {}, OrderActions, Pending \cup Coming)
  BY <1>1, <1>2, <1>3, EmptyOrdered, ComingType DEF Lined, Later, Precede, Inv
<1>. QED
  BY <1>1, <1>3, <1>4 DEF SafetyInv

\* The front of the event queue is handed over.
LEMMA HeadPending ==
  ASSUME PendingOrdered, NEW S, pending \in Seq(S), pending # <<>>,
         pending' = Tail(pending), UNCHANGED received
  PROVE  /\ Pending' \subseteq Pending /\ Coming' = Coming /\ PendingOrdered'
         /\ Head(pending) # Done =>
              Head(pending) \in Pending /\ Precede({Head(pending)}, Pending' \cup Coming)
<1>. DEFINE t == Tail(pending)
<1>1. /\ 1 \in DOMAIN pending /\ Head(pending) = pending[1]
      /\ \A i \in DOMAIN t : /\ i \in Nat /\ 1 < i + 1 /\ i + 1 \in DOMAIN pending
                              /\ t[i] = pending[i + 1]
  OBVIOUS
<1>. HIDE DEF t
<1>2. pending' = t
  BY DEF t
<1>3. Pending' \subseteq Pending /\ Coming' = Coming
  BY <1>1, <1>2 DEF Pending, Elems, Coming
<1>4. \A i, j \in DOMAIN t : i < j /\ t[i] # Done /\ t[j] # Done => Before(t[i], t[j])
  <2>. SUFFICES ASSUME NEW i \in DOMAIN t, NEW j \in DOMAIN t, i < j, t[i] # Done, t[j] # Done
                PROVE  Before(t[i], t[j])
    OBVIOUS
  <2>1. i + 1 < j + 1
    BY <1>1
  <2>. QED
    BY <1>1, <2>1 DEF PendingOrdered
<1>5. PendingOrdered'
  BY <1>2, <1>3, <1>4 DEF PendingOrdered, Precede
<1>6. ASSUME Head(pending) # Done
      PROVE  Head(pending) \in Pending /\ Precede({Head(pending)}, Pending' \cup Coming)
  <2>1. Head(pending) \in Pending
    BY <1>1, <1>6 DEF Pending, Elems
  <2>2. \A i \in DOMAIN t : t[i] # Done => Before(Head(pending), t[i])
    BY <1>1, <1>6 DEF PendingOrdered
  <2>. QED
    BY <1>2, <2>1, <2>2 DEF Pending, Elems, PendingOrdered, Precede
<1>. QED
  BY <1>3, <1>5, <1>6

\* The yields of the next order go behind those that are pending.
LEMMA OrderPending ==
  ASSUME TypeOK, PendingOrdered, ReceiveOrder
  PROVE  /\ Pending' \cup Coming' \subseteq Pending \cup Coming
         /\ PendingOrdered'
<1>. DEFINE n == received + 1
            q == Orders[n]
            S == Yield \cup {Done}
<1>1. /\ n \in DOMAIN Orders /\ received' = n /\ n \in Nat
      /\ n \in n..Len(Orders) /\ \A m \in (n + 1)..Len(Orders) : m \in DOMAIN Orders /\ n < m
      /\ (n + 1)..Len(Orders) \subseteq n..Len(Orders)
  BY ComingType DEF ReceiveOrder
<1>2. /\ q \in Seq(Yield) /\ Ordered(q)
      /\ \A m \in DOMAIN Orders : n < m => Precede(Elems(q), Elems(Orders[m]))
  BY <1>1, OrdersYield
<1>3. Elems(q) \subseteq Coming /\ Coming' \subseteq Coming
  BY <1>1 DEF Coming
<1>4. Precede(Elems(q), Coming')
  BY <1>1, <1>2 DEF Coming, Precede
<1>5. pending \in Seq(S) /\ pending' = pending \o Append(q, Done)
  BY DEF TypeOK, ReceiveOrder
<1>. HIDE DEF n, q, S
<1>6. /\ \A i \in DOMAIN pending' :
           \/ i \in DOMAIN pending /\ pending'[i] = pending[i] /\ i <= Len(pending)
           \/ /\ i - Len(pending) \in DOMAIN q /\ pending'[i] = q[i - Len(pending)]
              /\ Len(pending) < i
           \/ pending'[i] = Done
      /\ \A i \in DOMAIN pending' : i \in Nat
      /\ Len(pending) \in Nat
  BY <1>2, <1>5
<1>7. Pending' \subseteq Pending \cup Elems(q)
  BY <1>6 DEF Pending, Elems
<1>8. ASSUME NEW i \in DOMAIN pending', NEW j \in DOMAIN pending', i < j,
             pending'[i] # Done, pending'[j] # Done
      PROVE  Before(pending'[i], pending'[j])
  <2>1. CASE i \in DOMAIN pending /\ pending'[i] = pending[i] /\ j \in DOMAIN pending
             /\ pending'[j] = pending[j]
    BY <1>8, <2>1 DEF PendingOrdered
  <2>2. CASE i \in DOMAIN pending /\ pending'[i] = pending[i] /\ j - Len(pending) \in DOMAIN q
             /\ pending'[j] = q[j - Len(pending)]
    <3>1. pending'[i] \in Pending
      BY <1>8, <2>2 DEF Pending, Elems
    <3>2. pending'[j] \in Coming
      BY <1>3, <2>2 DEF Elems
    <3>. QED
      BY <3>1, <3>2 DEF PendingOrdered, Precede
  <2>3. CASE i - Len(pending) \in DOMAIN q /\ pending'[i] = q[i - Len(pending)]
             /\ j - Len(pending) \in DOMAIN q /\ pending'[j] = q[j - Len(pending)]
    <3>1. i - Len(pending) < j - Len(pending)
      BY <1>6, <1>8
    <3>. QED
      BY <1>2, <2>3, <3>1 DEF Ordered
  <2>4. ~(Len(pending) < i /\ j <= Len(pending))
    BY <1>6, <1>8
  <2>. QED
    BY <1>6, <1>8, <2>1, <2>2, <2>3, <2>4
<1>9. Precede(Pending', Coming')
  BY <1>3, <1>4, <1>7 DEF PendingOrdered, Precede
<1>. QED
  BY <1>3, <1>7, <1>8, <1>9 DEF PendingOrdered

\* A step starts only what it may, and leaves the rest in line.
LEMMA SafetyStep ==
  SafetyInv /\ [Next]_vars =>
    Starts(sch, sch') /\ Lined(sch', {}, OrderActions, Pending' \cup Coming') /\ PendingOrdered'
<1>. SUFFICES ASSUME SafetyInv, [Next]_vars
              PROVE  /\ Starts(sch, sch')
                     /\ Lined(sch', {}, OrderActions, Pending' \cup Coming') /\ PendingOrdered'
  OBVIOUS
<1>. DEFINE s0 == Begin(sch)
            O  == OrderActions
            W  == Unissued
            R  == Pending \cup Coming
<1>1. sch \in Schedulers /\ TypeOK /\ PendingOrdered /\ Lined(sch, {}, O, R)
  BY DEF SafetyInv, Inv, TypeOK
<1>2. Sound(s0, O, W)
  BY BeginSound DEF SafetyInv, Inv
<1>3. s0.active = sch.active /\ s0.nav = sch.nav
  BY <1>1 DEF Begin, Schedulers
<1>4. Lined(s0, s0.active, O, R)
  <2>1. Lined(s0, {}, O, R)
    BY <1>1, BeginLeaves, LeavesLined
  <2>. HIDE DEF s0, O, R
  <2>. QED
    BY <2>1, SmallerLined
<1>. HIDE DEF s0, O, W, R
<1>5. ASSUME NEW r, NEW P, Fine(s0, r, O, P)
      PROVE  Starts(sch, r) /\ Lined(r, {}, O, P)
  BY <1>3, <1>5 DEF Fine, Starts
<1>6. ASSUME NEW r, sch' = r, Fine(s0, r, O, R), UNCHANGED <<pending, received>>
      PROVE  Starts(sch, sch') /\ Lined(sch', {}, O, Pending' \cup Coming') /\ PendingOrdered'
  <2>1. Pending' = Pending /\ Coming' = Coming /\ PendingOrdered'
    BY <1>1, <1>6 DEF Pending, Coming, PendingOrdered
  <2>. QED
    BY <1>5, <1>6, <2>1 DEF R
<1>7. CASE ReceiveOrder
  <2>1. Pending' \cup Coming' \subseteq R /\ PendingOrdered'
    BY <1>1, <1>7, OrderPending DEF R
  <2>2. sch' = sch
    BY <1>7 DEF ReceiveOrder
  <2>3. Lined(sch', {}, O, Pending' \cup Coming')
    BY <1>1, <2>1, <2>2, SmallerLined
  <2>4. Starts(sch, sch')
    BY <2>2 DEF Starts
  <2>. QED
    BY <2>1, <2>3, <2>4 DEF O
<1>8. CASE EnqueueYield \/ CommitOrder
  <2>1. /\ pending \in Seq(Yield \cup {Done}) /\ pending # <<>> /\ pending' = Tail(pending)
        /\ UNCHANGED received
    BY <1>1, <1>8 DEF TypeOK, EnqueueYield, CommitOrder
  <2>2. /\ Pending' \subseteq Pending /\ Coming' = Coming /\ PendingOrdered'
        /\ Head(pending) # Done =>
             Head(pending) \in Pending /\ Precede({Head(pending)}, Pending' \cup Coming)
    BY <1>1, <2>1, HeadPending
  <2>3. CASE EnqueueYield
    <3>1. Head(pending) \in R /\ Pending' \cup Coming' \in SUBSET R
      BY <2>2, <2>3 DEF EnqueueYield, R
    <3>2. Precede({Head(pending)}, Pending' \cup Coming')
      BY <2>2, <2>3 DEF EnqueueYield
    <3>3. Fine(s0, Enqueue(s0, Head(pending)), O, Pending' \cup Coming')
      BY <1>2, <1>4, <3>1, <3>2, EnqueueFine
    <3>4. sch' = Enqueue(s0, Head(pending))
      BY <2>3 DEF EnqueueYield, Call, s0
    <3>. QED
      BY <1>5, <2>2, <3>3, <3>4 DEF O
  <2>4. CASE CommitOrder
    <3>1. Pending' \cup Coming' \in SUBSET R
      BY <2>2 DEF R
    <3>2. Lined(s0, s0.active, O, Pending' \cup Coming')
      BY <1>4, <3>1, SmallerLined
    <3>3. Fine(s0, CommitQueue(s0), O, Pending' \cup Coming')
      BY <1>2, <3>2, CommitQueueFine
    <3>4. sch' = CommitQueue(s0)
      BY <2>4 DEF CommitOrder, Call, s0
    <3>. QED
      BY <1>5, <2>2, <3>3, <3>4 DEF O
  <2>. QED
    BY <1>8, <2>3, <2>4
<1>9. ASSUME NEW G \in Instants, InstantActions(G)
      PROVE  Starts(sch, sch') /\ Lined(sch', {}, O, Pending' \cup Coming') /\ PendingOrdered'
  <2>1. G \in SUBSET W /\ G # {}
    BY <1>9, OrdersAssumption DEF InstantActions, Unissued, W
  <2>2. Fine(s0, Interrupt(s0, G), O, R)
    BY <1>2, <1>4, <2>1, InterruptFine
  <2>. QED
    BY <1>6, <1>9, <2>2 DEF InstantActions, Call, s0
<1>10. CASE CancelOrder
  BY <1>2, <1>4, <1>6, <1>10, CancelFine DEF CancelOrder, Call, s0, O
<1>11. CASE PauseOrder
  BY <1>2, <1>4, <1>6, <1>11, PauseFine DEF PauseOrder, Call, s0, O
<1>12. CASE ResumeOrder
  BY <1>2, <1>4, <1>6, <1>12, ResumeFine DEF ResumeOrder, Call, s0, O
<1>13. ASSUME NEW a \in Action, NEW t \in ActionReport, ActionStatus(a, t)
       PROVE  Starts(sch, sch') /\ Lined(sch', {}, O, Pending' \cup Coming') /\ PendingOrdered'
  <2>1. Fine(s0, ReportAction(s0, a, t), O, R)
    BY <1>2, <1>3, <1>4, <1>13, ReportActionFine DEF ActionStatus
  <2>. QED
    BY <1>6, <1>13, <2>1 DEF ActionStatus, Call, s0
<1>14. ASSUME NEW t \in NavReport, NavigationControl(t)
       PROVE  Starts(sch, sch') /\ Lined(sch', {}, O, Pending' \cup Coming') /\ PendingOrdered'
  <2>1. Fine(s0, ReportNav(s0, t, 0), O, R)
    BY <1>2, <1>3, <1>4, <1>14, ReportNavFine DEF NavigationControl, NavTransition
  <2>. QED
    BY <1>6, <1>14, <2>1 DEF NavigationControl, Call, s0
<1>15. CASE NodeReached
  <2>1. Fine(s0, ReportNav(s0, "to_seq_id", sch.goal), O, R)
    BY <1>2, <1>3, <1>4, <1>15, ReportNavFine DEF NodeReached, NavTransition, NavReport
  <2>. QED
    BY <1>6, <1>15, <2>1 DEF NodeReached, Call, s0, O
<1>16. CASE NodeUnrecorded
  <2>1. Fine(s0, ReachUnrecorded(s0, sch.goal), O, R)
    BY <1>2, <1>3, <1>4, <1>16, ReachUnrecordedFine DEF NodeUnrecorded
  <2>. QED
    BY <1>6, <1>16, <2>1 DEF NodeUnrecorded, Call, s0, O
<1>17. CASE UNCHANGED vars
  <2>1. sch' = sch /\ Pending' = Pending /\ Coming' = Coming /\ PendingOrdered'
    BY <1>1, <1>17 DEF vars, Pending, Coming, PendingOrdered
  <2>. QED
    BY <1>1, <2>1 DEF Starts, R, O
<1>. QED
  BY <1>7, <1>8, <1>9, <1>10, <1>11, <1>12, <1>13, <1>14, <1>15, <1>16, <1>17
     DEF Next, O

LEMMA SafetyNext == SafetyInv /\ [Next]_vars => SafetyInv'
<1>. SUFFICES ASSUME SafetyInv, [Next]_vars PROVE SafetyInv'
  OBVIOUS
<1>1. Inv'
  BY InvNext DEF SafetyInv
<1>. QED
  BY <1>1, SafetyStep DEF SafetyInv

LEMMA SafetyInductive == Spec => []SafetyInv
  BY SafetyInit, SafetyNext, PTL DEF Spec

-------------------------------------------------------------------------------
(* The segment and the action properties *)

\* The segment handed to the AGV never reaches past a node with a stop that is still in
\* the queue, whatever is cancelled, interrupted or extended meanwhile.
THEOREM SegmentsEndAtStops == Spec => []SegmentEndsAtStop
<1>1. SafetyInv => SegmentEndsAtStop
  BY DEF SafetyInv, Lined, Elems, SegmentEndsAtStop
<1>. QED
  BY <1>1, SafetyInductive, PTL

\* A HARD action has the AGV to itself, whichever call of which thread starts it.
THEOREM HardExcludesOthers == Spec => HardExcludes
<1>1. SafetyInv /\ [Next]_vars =>
        [(Started # {} /\ \E a \in Started \cup (sch.active \cap sch'.active) :
            BlockingOf[a] = "HARD") => sch.active \cap sch'.active = {}]_vars
  BY SafetyStep DEF Starts, Started
<1>. QED
  BY <1>1, SafetyInductive, PTL DEF Spec, HardExcludes

\* No SOFT or HARD action starts while the AGV has a navigation task that is not paused.
THEOREM BlockingActionsStartStanding == Spec => BlockingStartsStanding
<1>1. SafetyInv /\ [Next]_vars =>
        [(\E a \in Started : BlockingOf[a] # "NONE") => sch'.nav \in NavPaused \cup {NoTask}]_vars
  BY SafetyStep DEF Starts, Started
<1>. QED
  BY <1>1, SafetyInductive, PTL DEF Spec, BlockingStartsStanding

\* No report, yield, commit or instant action starts anything between a pause and the
\* resume that follows.
THEOREM PausedStartsNothing == Spec => NothingStartsWhilePaused
<1>1. SafetyInv /\ [Next]_vars =>
        [sch'.state \in {"pausing", "paused", "idle_paused"} =>
           Started = {} /\ (sch.nav = NoTask => sch'.nav = NoTask)]_vars
  BY SafetyStep DEF Starts, Started, Resting
<1>. QED
  BY <1>1, SafetyInductive, PTL DEF Spec, NothingStartsWhilePaused
===============================================================================
