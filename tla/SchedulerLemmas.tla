---------------------------- MODULE SchedulerLemmas ----------------------------
(***************************************************************************)
(* What the operators of SchedulerOps return, what they keep of the        *)
(* soundness of the maps, when the scheduler comes to rest and what it     *)
(* publishes about it, what a call starts, and where it lets the AGV drive.*)
(***************************************************************************)
EXTENDS SchedulerOps, WellFoundedInduction, TLAPS

-------------------------------------------------------------------------------
(* Induction, for a set of natural numbers instead of a predicate *)

\* A nonempty set of natural numbers has a least one.
LEMMA LeastNatural ==
  ASSUME NEW T \in SUBSET Nat, T # {}
  PROVE  \E x \in T : \A y \in T : x <= y
<1>1. PICK x \in T : \A y \in T : <<y, x>> \notin OpToRel(<, Nat)
  BY NatLessThanWellFounded, WFMin
<1>2. ASSUME NEW y \in T, y < x PROVE FALSE
  <2>1. <<y, x>> \in OpToRel(<, Nat)
    BY <1>2 DEF OpToRel
  <2>. QED
    BY <1>1, <2>1
<1>. QED
  BY <1>2

\* A set that holds 0 and the successor of each of its members is Nat.
LEMMA NatSetInduction ==
  ASSUME NEW T \in SUBSET Nat, 0 \in T, \A n \in T : n + 1 \in T
  PROVE  T = Nat
<1>. DEFINE C == Nat \ T
<1>1. SUFFICES ASSUME C # {} PROVE FALSE
  OBVIOUS
<1>2. PICK x \in C : \A y \in C : x <= y
  BY <1>1, LeastNatural
<1>3. x # 0 /\ x - 1 \in Nat
  OBVIOUS
<1>4. x - 1 \in T
  BY <1>2, <1>3
<1>5. (x - 1) + 1 \in T
  BY <1>4
<1>. QED
  BY <1>3, <1>5

\* A nonempty set of indices has a largest one.
LEMMA LargestIndex ==
  ASSUME NEW n \in Nat, NEW I \in SUBSET (1..n), I # {}
  PROVE  \E i \in I : \A j \in I : j <= i
<1>. DEFINE D == {k \in Nat : n - k \in I}
<1>1. \A i \in I : n - i \in D
  <2>1. \A i \in I : n - i \in Nat /\ n - (n - i) = i
    OBVIOUS
  <2>. QED
    BY <2>1
<1>2. PICK x \in D : \A y \in D : x <= y
  BY <1>1, LeastNatural
<1>3. \A j \in I : j <= n - x
  BY <1>1, <1>2
<1>. QED
  BY <1>3

-------------------------------------------------------------------------------
(* The queues *)

\* The ceiling of a group is a blocking type.
LEMMA CeilingType == \A G : Ceiling(G) \in BlockingType
  BY DEF Ceiling, BlockingType

\* What a queue holds is a group or a step, and only a step has kind "nav".
LEMMA YieldCases ==
  ASSUME NEW e \in Yield
  PROVE  /\ IsStep(e) => e \in NavStep
         /\ ~IsStep(e) => e \in Group
  BY DEF Yield, NavStep, Group, IsStep

\* The end of a segment is a sequence id.
LEMMA SegmentEndType ==
  ASSUME NEW q \in Seq(Yield), NEW e \in Nat
  PROVE  SegmentEnd(q, e) \in Nat
<1>. DEFINE free == FreeSteps(q)
            last == CHOOSE i \in free : \A j \in free : j <= i
<1>1. /\ Len(q) \in Nat
      /\ free \in SUBSET (1..Len(q))
      /\ \A i \in free : IsStep(q[i])
  BY DEF FreeSteps
<1>2. CASE free = {}
  BY <1>2 DEF SegmentEnd
<1>3. CASE free # {}
  <2>1. last \in free
    <3>1. \E i \in free : \A j \in free : j <= i
      <4>. HIDE DEF free
      <4>. QED
        BY <1>1, <1>3, LargestIndex
    <3>. QED
      BY <3>1
  <2>2. q[last] \in NavStep
    BY <1>1, <2>1, YieldCases
  <2>3. SegmentEnd(q, e) = q[last].goal
    BY <1>3 DEF SegmentEnd
  <2>. QED
    BY <2>2, <2>3 DEF NavStep
<1>. QED
  BY <1>2, <1>3

LEMMA EmptySeqType == \A S : <<>> \in Seq(S)
  OBVIOUS

LEMMA AppendType == \A S : \A q \in Seq(S), e \in S : Append(q, e) \in Seq(S)
  OBVIOUS

\* upto[n] holds the chosen ones of the first n elements.
Chooses(upto, q, I) ==
  /\ upto[0] = <<>>
  /\ \A n \in Nat : n + 1 <= Len(q) =>
       upto[n + 1] = IF n + 1 \in I THEN Append(upto[n], q[n + 1]) ELSE upto[n]

\* The elements of a queue are chosen one index after the other.
LEMMA ChosenSteps ==
  ASSUME NEW S, NEW q \in Seq(S), NEW I
  PROVE  \E upto : Chosen(q, I) = upto[Len(q)] /\ Chooses(upto, q, I)
<1>. DEFINE E(f, i) == IF i = 0 THEN <<>>
                       ELSE IF i \in I THEN Append(f[i - 1], q[i])
                       ELSE f[i - 1]
            N == Len(q)
            Solves(f, n) == \A i \in 0..n : f[i] = E(f, i)
            Solvable == {n \in Nat : n <= N => \E f \in [0..n -> Seq(S)] : Solves(f, n)}
            upto == CHOOSE f : f = [i \in 0..N |-> E(f, i)]
<1>1. 0 \in Solvable
  <2>. DEFINE f == [i \in 0..0 |-> <<>>]
  <2>1. f \in [0..0 -> Seq(S)] /\ Solves(f, 0)
    OBVIOUS
  <2>. QED
    BY <2>1
<1>2. ASSUME NEW n \in Solvable PROVE n + 1 \in Solvable
  <2>1. SUFFICES ASSUME n + 1 <= N
                 PROVE  \E f \in [0..(n + 1) -> Seq(S)] : Solves(f, n + 1)
    <3>. HIDE DEF Solves
    <3>. QED
      OBVIOUS
  <2>2. PICK f \in [0..n -> Seq(S)] : Solves(f, n)
    <3>. HIDE DEF Solves
    <3>. QED
      BY <2>1
  <2>. DEFINE g == [i \in 0..(n + 1) |-> IF i = n + 1 THEN E(f, n + 1) ELSE f[i]]
  <2>3. E(f, n + 1) \in Seq(S)
    <3>1. q[n + 1] \in S /\ f[n] \in Seq(S) /\ (n + 1) - 1 = n
      BY <2>1
    <3>. QED
      BY <3>1
  <2>4. g \in [0..(n + 1) -> Seq(S)]
    BY <2>3
  <2>5. ASSUME NEW i \in 0..(n + 1) PROVE g[i] = E(g, i)
    <3>1. i # 0 => i - 1 \in 0..n /\ g[i - 1] = f[i - 1]
      OBVIOUS
    <3>2. E(g, i) = E(f, i)
      BY <3>1
    <3>3. ASSUME i # n + 1 PROVE f[i] = E(f, i)
      <4>1. n \in Nat /\ i \in 0..n
        BY <3>3
      <4>. HIDE DEF E
      <4>. QED
        BY <2>2, <4>1
    <3>. QED
      BY <3>2, <3>3
  <2>. QED
    BY <2>4, <2>5
<1>3. Solvable = Nat
  <2>1. Solvable \in SUBSET Nat
    OBVIOUS
  <2>. HIDE DEF Solvable
  <2>. QED
    BY <1>1, <1>2, <2>1, NatSetInduction
<1>4. upto = [i \in 0..N |-> E(upto, i)]
  <2>1. PICK f \in [0..N -> Seq(S)] : Solves(f, N)
    <3>1. N \in Nat
      OBVIOUS
    <3>2. N \in Solvable
      <4>. HIDE DEF Solvable
      <4>. QED
        BY <1>3, <3>1
    <3>. HIDE DEF Solves
    <3>. QED
      BY <3>1, <3>2
  <2>2. f = [i \in 0..N |-> E(f, i)]
    BY <2>1
  <2>. QED
    BY <2>2
<1>5. ASSUME NEW i \in 0..N PROVE upto[i] = E(upto, i)
  BY <1>4
<1>6. Chosen(q, I) = upto[N]
  BY DEF Chosen
<1>. HIDE DEF upto
<1>7. upto[0] = <<>>
  <2>1. 0 \in 0..N
    OBVIOUS
  <2>. QED
    BY <1>5, <2>1
<1>8. ASSUME NEW n \in Nat, n + 1 <= N
      PROVE  upto[n + 1] = IF n + 1 \in I THEN Append(upto[n], q[n + 1]) ELSE upto[n]
  <2>1. n + 1 \in 0..N /\ n + 1 # 0 /\ (n + 1) - 1 = n
    BY <1>8
  <2>. QED
    BY <1>5, <2>1
<1>. QED
  BY <1>6, <1>7, <1>8 DEF Chooses

\* The chosen elements of a queue are a queue again.
LEMMA ChosenType ==
  ASSUME NEW S, NEW q \in Seq(S), NEW I
  PROVE  Chosen(q, I) \in Seq(S)
<1>. DEFINE N == Len(q)
<1>1. PICK upto : Chosen(q, I) = upto[N] /\ Chooses(upto, q, I)
  BY ChosenSteps
<1>. DEFINE Typed == {n \in Nat : n <= N => upto[n] \in Seq(S)}
<1>2. 0 \in Typed
  BY <1>1, EmptySeqType DEF Chooses
<1>3. ASSUME NEW n \in Typed PROVE n + 1 \in Typed
  <2>1. SUFFICES ASSUME n + 1 <= N PROVE upto[n + 1] \in Seq(S)
    OBVIOUS
  <2>2. q[n + 1] \in S /\ upto[n] \in Seq(S)
    BY <2>1
  <2>3. upto[n + 1] = IF n + 1 \in I THEN Append(upto[n], q[n + 1]) ELSE upto[n]
    BY <1>1, <2>1 DEF Chooses
  <2>. QED
    BY <2>2, <2>3, AppendType
<1>4. Typed = Nat
  <2>1. Typed \in SUBSET Nat
    OBVIOUS
  <2>. HIDE DEF Typed
  <2>. QED
    BY <1>2, <1>3, <2>1, NatSetInduction
<1>5. N \in Nat
  OBVIOUS
<1>. QED
  BY <1>1, <1>4, <1>5

-------------------------------------------------------------------------------
(* Every operation returns a scheduler *)

LEMMA NewSchedulerType == NewScheduler \in Schedulers
  BY DEF NewScheduler, Schedulers, SchedulerState, ActionState, NoTask, NoSegment,
         BlockingType

LEMMA BeginType ==
  ASSUME NEW s \in Schedulers PROVE Begin(s) \in Schedulers
  BY EmptySeqType DEF Begin, Schedulers

LEMMA ThrowType ==
  ASSUME NEW s \in Schedulers PROVE Throw(s) \in Schedulers
  BY DEF Throw, Schedulers

LEMMA EnterType ==
  ASSUME NEW s \in Schedulers, NEW st \in SchedulerState
  PROVE  Enter(s, st) \in Schedulers
  BY DEF Enter, Schedulers, NoSegment

LEMMA NotifyType ==
  ASSUME NEW s \in Schedulers, NEW st \in SchedulerState
  PROVE  Notify(s, st) \in Schedulers
<1>. DEFINE e == Enter(s, st)
<1>1. e \in Schedulers
  BY EnterType
<1>2. Notify(s, st) = [e EXCEPT !.notes = Append(@, st)]
  BY DEF Notify
<1>3. Append(e.notes, st) \in Seq(SchedulerState)
  BY <1>1, AppendType DEF Schedulers
<1>. HIDE DEF e
<1>. QED
  BY <1>1, <1>2, <1>3 DEF Schedulers

LEMMA ActionTargetType == ActionTarget \in [ActionTransition -> ActionState]
  BY DEF ActionTarget, ActionTransition, ActionReport, ActionState

LEMMA NavTargetType == NavTarget \in [NavTransition -> NavState]
  BY DEF NavTarget, NavTransition, NavReport, NavState

LEMMA MoveNavType ==
  ASSUME NEW s \in Schedulers, NEW t \in NavTransition, NEW g
  PROVE  MoveNav(s, t, g) \in Schedulers
  BY NavTargetType, ThrowType DEF MoveNav, Schedulers

LEMMA MoveActionsType ==
  ASSUME NEW s \in Schedulers, NEW S, NEW t \in ActionTransition
  PROVE  MoveActions(s, S, t) \in Schedulers
  BY ActionTargetType DEF MoveActions, Schedulers

LEMMA StartGroupType ==
  ASSUME NEW s \in Schedulers, NEW G \in SUBSET Action, NEW c \in BlockingType
  PROVE  StartGroup(s, G, c) \in Schedulers
<1>1. ActionTarget["do_start"] \in ActionState
  BY ActionTargetType DEF ActionTransition
<1>. QED
  BY <1>1 DEF StartGroup, Schedulers

LEMMA ClearQueuesType ==
  ASSUME NEW s \in Schedulers, NEW keepNav \in BOOLEAN
  PROVE  ClearQueues(s, keepNav) \in Schedulers
<1>1. Chosen(s.queue, FreeSteps(s.queue)) \in Seq(Yield)
  BY ChosenType DEF Schedulers
<1>. QED
  BY <1>1, EmptySeqType DEF ClearQueues, Schedulers

LEMMA UpdateTasksType ==
  ASSUME NEW s \in Schedulers PROVE UpdateTasks(s) \in Schedulers
<1>. DEFINE live    == {a \in s.running \cup s.paused : s.task[a] \notin ActionTerminal}
            resting == {a \in live : s.task[a] \in ActionPaused}
            moved   == [s EXCEPT !.running = live \ resting,
                                 !.paused  = resting,
                                 !.active  = {a \in @ : s.task[a] \notin ActionTerminal}]
            cleared == IF s.nav = "Failed" THEN ClearQueues(moved, FALSE) ELSE moved
<1>1. moved \in Schedulers
  BY DEF Schedulers
<1>2. cleared \in Schedulers
  BY <1>1, ClearQueuesType
<1>3. UpdateTasks(s) = IF s.nav \in NavTerminal
                       THEN [cleared EXCEPT !.nav = NoTask, !.goal = 0] ELSE moved
  BY DEF UpdateTasks
<1>. HIDE DEF moved, cleared
<1>4. [cleared EXCEPT !.nav = NoTask, !.goal = 0] \in Schedulers
  BY <1>2 DEF Schedulers
<1>. QED
  BY <1>1, <1>3, <1>4

LEMMA UpdateInterruptMappingType ==
  ASSUME NEW s \in Schedulers PROVE UpdateInterruptMapping(s) \in Schedulers
<1>. DEFINE rest == {a \in s.navint : s.task[a] \notin ActionTerminal}
            s1   == [s EXCEPT !.navint = rest]
<1>1. s1 \in Schedulers
  BY DEF Schedulers
<1>2. MoveNav(s1, "do_resume", 0) \in Schedulers
  BY <1>1, MoveNavType DEF NavTransition
<1>. QED
  BY <1>1, <1>2 DEF UpdateInterruptMapping

LEMMA RefreshType ==
  ASSUME NEW s \in Schedulers PROVE Refresh(s) \in Schedulers
  BY UpdateTasksType, UpdateInterruptMappingType DEF Refresh

LEMMA QueueType ==
  ASSUME NEW s \in Schedulers, s.queue # <<>>
  PROVE  Head(s.queue) \in Yield /\ Tail(s.queue) \in Seq(Yield)
<1>1. s.queue \in Seq(Yield)
  BY DEF Schedulers
<1>. QED
  BY <1>1

LEMMA FetchGroupType ==
  ASSUME NEW s \in Schedulers, s.queue # <<>>, ~IsStep(Head(s.queue))
  PROVE  FetchGroup(s) \in Schedulers
<1>. DEFINE started == StartGroup(s, Head(s.queue).actions, Head(s.queue).ceiling)
            rest    == Tail(started.queue)
<1>1. Head(s.queue).actions \in SUBSET Action /\ Head(s.queue).ceiling \in BlockingType
  BY QueueType, YieldCases DEF Group
<1>2. started \in Schedulers
  BY <1>1, StartGroupType
<1>3. rest \in Seq(Yield)
  <2>1. started.queue = s.queue
    BY DEF StartGroup, Schedulers
  <2>. QED
    BY <2>1, QueueType
<1>4. FetchGroup(s) = [started EXCEPT !.segment = 0, !.queue = rest]
  BY DEF FetchGroup, NoSegment
<1>. HIDE DEF started, rest
<1>5. [started EXCEPT !.segment = 0, !.queue = rest] \in Schedulers
  BY <1>2, <1>3 DEF Schedulers
<1>. QED
  BY <1>4, <1>5

LEMMA FetchStepType ==
  ASSUME NEW s \in Schedulers, s.queue # <<>>, IsStep(Head(s.queue))
  PROVE  FetchStep(s) \in Schedulers
<1>1. Head(s.queue).goal \in Nat
  BY QueueType, YieldCases DEF NavStep
<1>2. SegmentEnd(s.queue, Head(s.queue).goal) \in Nat
  BY <1>1, SegmentEndType DEF Schedulers
<1>3. NavTarget["do_start"] \in NavState
  BY NavTargetType DEF NavTransition
<1>4. Tail(s.queue) \in Seq(Yield)
  BY QueueType
<1>. QED
  BY <1>1, <1>2, <1>3, <1>4 DEF FetchStep, Schedulers

LEMMA PatchSegmentType ==
  ASSUME NEW s \in Schedulers PROVE PatchSegment(s) \in Schedulers
<1>1. SegmentEnd(s.queue, s.segment) \in Nat
  BY SegmentEndType DEF Schedulers
<1>. QED
  BY <1>1 DEF PatchSegment, Schedulers

LEMMA FetchOneType ==
  ASSUME NEW s \in Schedulers PROVE FetchOne(s) \in Schedulers
  BY FetchGroupType, FetchStepType, PatchSegmentType DEF FetchOne

LEMMA FetchNextType ==
  ASSUME NEW s \in Schedulers PROVE FetchNext(s) \in Schedulers
  BY FetchOneType DEF FetchNext

LEMMA DoInterruptType ==
  ASSUME NEW s \in Schedulers PROVE DoInterrupt(s) \in Schedulers
<1>. DEFINE ceiling == Ceiling(Head(s.intr))
            s1 == IF ceiling # "NONE" /\ s.nav # NoTask
                  THEN MoveNav(s, "do_pause", 0) ELSE s
            ousted == {a \in s.active : ceiling = "HARD" \/ BlockingOf[a] = "HARD"}
<1>1. s1 \in Schedulers
  BY MoveNavType DEF NavTransition
<1>2. MoveActions(s1, ousted, "do_cancel") \in Schedulers
  BY <1>1, MoveActionsType DEF ActionTransition
<1>3. DoInterrupt(s) = IF s.intr = <<>> THEN s ELSE IF s1.thrown THEN s1
                       ELSE MoveActions(s1, ousted, "do_cancel")
  BY DEF DoInterrupt
<1>. HIDE DEF s1, ousted
<1>. QED
  BY <1>1, <1>2, <1>3

LEMMA FetchInterruptType ==
  ASSUME NEW s \in Schedulers PROVE FetchInterrupt(s) \in Schedulers
<1>. DEFINE G == Head(s.intr)
            started == StartGroup(s, G, Ceiling(G))
            navint  == started.navint \cup {a \in G : BlockingOf[a] # "NONE"}
            rest    == Tail(started.intr)
<1>1. CASE s.intr = <<>>
  BY <1>1 DEF FetchInterrupt, MayFetchInterrupt
<1>2. CASE s.intr # <<>>
  <2>1. s.intr \in Seq((SUBSET Action) \ {{}})
    BY DEF Schedulers
  <2>2. G \in SUBSET Action /\ Tail(s.intr) \in Seq((SUBSET Action) \ {{}})
    BY <1>2, <2>1
  <2>3. started \in Schedulers
    BY <2>2, CeilingType, StartGroupType
  <2>4. rest \in Seq((SUBSET Action) \ {{}})
    <3>1. started.intr = s.intr
      BY DEF StartGroup, Schedulers
    <3>. QED
      BY <2>2, <3>1
  <2>5. navint \in SUBSET Action
    BY <2>2, <2>3 DEF Schedulers
  <2>6. FetchInterrupt(s) = IF MayFetchInterrupt(s)
          THEN [started EXCEPT !.navint = navint, !.intr = rest] ELSE s
    BY DEF FetchInterrupt
  <2>. HIDE DEF started, navint, rest
  <2>7. [started EXCEPT !.navint = navint, !.intr = rest] \in Schedulers
    BY <2>3, <2>4, <2>5 DEF Schedulers
  <2>. QED
    BY <2>6, <2>7
<1>. QED
  BY <1>1, <1>2

LEMMA UpdateIdleType ==
  ASSUME NEW s \in Schedulers PROVE UpdateIdle(s) \in Schedulers
  BY FetchNextType, NotifyType, EnterType DEF UpdateIdle, SchedulerState

LEMMA UpdateActiveType ==
  ASSUME NEW s \in Schedulers PROVE UpdateActive(s) \in Schedulers
  BY RefreshType, FetchNextType, NotifyType DEF UpdateActive, SchedulerState

LEMMA UpdateCancelingType ==
  ASSUME NEW s \in Schedulers PROVE UpdateCanceling(s) \in Schedulers
  BY RefreshType, FetchNextType, NotifyType DEF UpdateCanceling, SchedulerState

LEMMA UpdateResumingType ==
  ASSUME NEW s \in Schedulers PROVE UpdateResuming(s) \in Schedulers
  BY RefreshType, NotifyType, UpdateActiveType DEF UpdateResuming, SchedulerState

LEMMA UpdatePausingType ==
  ASSUME NEW s \in Schedulers PROVE UpdatePausing(s) \in Schedulers
  BY RefreshType, NotifyType DEF UpdatePausing, SchedulerState

LEMMA UpdateInterruptingType ==
  ASSUME NEW s \in Schedulers PROVE UpdateInterrupting(s) \in Schedulers
  BY UpdateTasksType, FetchInterruptType, NotifyType DEF UpdateInterrupting, SchedulerState

LEMMA StateType ==
  ASSUME NEW s \in Schedulers PROVE s.state \in SchedulerState
  BY DEF Schedulers

LEMMA UpdateType ==
  ASSUME NEW s \in Schedulers PROVE Update(s) \in Schedulers
<1>1. s.state \in SchedulerState
  BY StateType
<1>. QED
  BY <1>1, UpdateIdleType, UpdateActiveType, UpdateCancelingType, UpdateResumingType,
     UpdatePausingType, UpdateInterruptingType, RefreshType
     DEF Update, SchedulerState

LEMMA CancelActiveType ==
  ASSUME NEW s \in Schedulers PROVE CancelActive(s) \in Schedulers
  BY MoveActionsType, MoveNavType, ClearQueuesType, NotifyType
     DEF CancelActive, SchedulerState, ActionTransition, NavTransition

LEMMA CancelType ==
  ASSUME NEW s \in Schedulers PROVE Cancel(s) \in Schedulers
  BY StateType, CancelActiveType, UpdateType, EnterType, ClearQueuesType, ThrowType
     DEF Cancel, SchedulerState

LEMMA PauseType ==
  ASSUME NEW s \in Schedulers PROVE Pause(s) \in Schedulers
  BY StateType, MoveActionsType, MoveNavType, NotifyType, ThrowType
     DEF Pause, PauseActive, SchedulerState, ActionTransition, NavTransition

LEMMA ResumeType ==
  ASSUME NEW s \in Schedulers PROVE Resume(s) \in Schedulers
  BY StateType, MoveActionsType, MoveNavType, NotifyType, ThrowType, UpdateType
     DEF Resume, ResumePaused, SchedulerState, ActionTransition, NavTransition

LEMMA InterruptType ==
  ASSUME NEW s \in Schedulers, NEW G \in (SUBSET Action) \ {{}}
  PROVE  Interrupt(s, G) \in Schedulers
<1>. DEFINE s1 == [s EXCEPT !.intr = Append(@, G)]
<1>1. s1 \in Schedulers
  BY AppendType DEF Schedulers
<1>2. DoInterrupt(s1) \in Schedulers
  BY <1>1, DoInterruptType
<1>. QED
  BY <1>1, <1>2, ThrowType, NotifyType, UpdateType DEF Interrupt, SchedulerState

LEMMA ReportActionType ==
  ASSUME NEW s \in Schedulers, NEW a \in Action, NEW t \in ActionTransition
  PROVE  ReportAction(s, a, t) \in Schedulers
<1>1. [s EXCEPT !.task[a] = ActionTarget[t]] \in Schedulers
  BY ActionTargetType DEF Schedulers
<1>. QED
  BY <1>1, UpdateType, ThrowType DEF ReportAction

LEMMA ReportNavType ==
  ASSUME NEW s \in Schedulers, NEW t \in NavTransition, NEW g
  PROVE  ReportNav(s, t, g) \in Schedulers
  BY MoveNavType, UpdateType, ThrowType DEF ReportNav

LEMMA ReachUnrecordedType ==
  ASSUME NEW s \in Schedulers, NEW g PROVE ReachUnrecorded(s, g) \in Schedulers
  BY MoveNavType, ThrowType DEF ReachUnrecorded, NavTransition, NavReport

LEMMA EnqueueType ==
  ASSUME NEW s \in Schedulers, NEW e \in Yield
  PROVE  Enqueue(s, e) \in Schedulers
<1>1. Append(s.staging, e) \in Seq(Yield)
  BY AppendType DEF Schedulers
<1>. QED
  BY <1>1 DEF Enqueue, Schedulers

LEMMA CommitQueueType ==
  ASSUME NEW s \in Schedulers PROVE CommitQueue(s) \in Schedulers
<1>. DEFINE joined == s.queue \o s.staging
<1>1. joined \in Seq(Yield)
  BY DEF Schedulers
<1>2. CommitQueue(s) = Update([s EXCEPT !.queue = joined, !.staging = <<>>])
  BY DEF CommitQueue
<1>. HIDE DEF joined
<1>3. [s EXCEPT !.queue = joined, !.staging = <<>>] \in Schedulers
  BY <1>1, EmptySeqType DEF Schedulers
<1>. QED
  BY <1>2, <1>3, UpdateType

-------------------------------------------------------------------------------
(* What the operations preserve, in particular where one ends in an exception.   *)
(* O stands for the actions of the orders and W for the actions of instant        *)
(* actions messages still to come.                                                *)

\* Yields whose actions belong to orders.
YieldOf(O) == {e \in Yield : ~IsStep(e) => e.actions \subseteq O}

\* The running and the paused map split the active one; an action that stopped
\* the navigation is known to be active or has ended.
Maps(s) ==
  /\ s.running \cup s.paused = s.active
  /\ s.running \cap s.paused = {}
  /\ \A a \in s.active : s.task[a] # "Waiting"
  /\ \A a \in s.navint : a \in s.active \/ s.task[a] \in ActionTerminal

\* Queued instant actions have not been started, and no queue shares an action
\* with another one.
Fresh(s, O, W) ==
  /\ s.queue \in Seq(YieldOf(O))
  /\ s.staging \in Seq(YieldOf(O))
  /\ \A k \in DOMAIN s.intr :
       /\ s.intr[k] \cap (O \cup W) = {}
       /\ \A a \in s.intr[k] : s.task[a] = "Waiting"
       /\ \A l \in DOMAIN s.intr : k # l => s.intr[k] \cap s.intr[l] = {}
  /\ W \subseteq Action /\ W \cap O = {}
  /\ \A a \in W : s.task[a] = "Waiting"

Weak(s, O, W) == s \in Schedulers /\ Maps(s) /\ Fresh(s, O, W)

\* No map holds an action that has ended.
Alive(s) == \A a \in s.active : s.task[a] \notin ActionTerminal

Sound(s, O, W) == Weak(s, O, W) /\ Alive(s)

-------------------------------------------------------------------------------

\* A state that differs in none of the fields the invariants speak of.
LEMMA SameWeak ==
  ASSUME NEW O, NEW W, NEW s, Weak(s, O, W), NEW r \in Schedulers,
         r.task = s.task, r.active = s.active, r.running = s.running,
         r.paused = s.paused, r.navint = s.navint, r.intr = s.intr,
         r.queue \in Seq(YieldOf(O)), r.staging \in Seq(YieldOf(O))
  PROVE  Weak(r, O, W) /\ (Alive(s) => Alive(r))
  BY DEF Weak, Maps, Fresh, Alive

LEMMA BeginSound ==
  ASSUME NEW O, NEW W, NEW s, Sound(s, O, W) PROVE Sound(Begin(s), O, W)
<1>. DEFINE r == Begin(s)
<1>1. s \in Schedulers /\ r \in Schedulers
  BY BeginType DEF Sound, Weak
<1>2. s.queue \in Seq(YieldOf(O)) /\ s.staging \in Seq(YieldOf(O))
  BY DEF Sound, Weak, Fresh
<1>3. /\ r.task = s.task /\ r.active = s.active /\ r.running = s.running
      /\ r.paused = s.paused /\ r.navint = s.navint /\ r.intr = s.intr
      /\ r.queue = s.queue /\ r.staging = s.staging
  BY <1>1 DEF Begin, Schedulers
<1>4. Sound(r, O, W)
  <2>. HIDE DEF r
  <2>. QED
    BY <1>1, <1>2, <1>3, SameWeak DEF Sound
<1>. QED
  BY <1>4

LEMMA ThrowSound ==
  ASSUME NEW O, NEW W, NEW s, Sound(s, O, W) PROVE Sound(Throw(s), O, W)
<1>1. s \in Schedulers /\ Throw(s) \in Schedulers
  BY ThrowType DEF Sound, Weak
<1>2. s.queue \in Seq(YieldOf(O)) /\ s.staging \in Seq(YieldOf(O))
  BY DEF Sound, Weak, Fresh
<1>. QED
  BY <1>1, <1>2, SameWeak DEF Throw, Schedulers, Sound

LEMMA EnterSound ==
  ASSUME NEW O, NEW W, NEW s, Sound(s, O, W), NEW st \in SchedulerState
  PROVE  Sound(Enter(s, st), O, W)
<1>. DEFINE r == Enter(s, st)
<1>1. s \in Schedulers /\ r \in Schedulers
  BY EnterType DEF Sound, Weak
<1>2. s.queue \in Seq(YieldOf(O)) /\ s.staging \in Seq(YieldOf(O))
  BY DEF Sound, Weak, Fresh
<1>3. /\ r.task = s.task /\ r.active = s.active /\ r.running = s.running
      /\ r.paused = s.paused /\ r.navint = s.navint /\ r.intr = s.intr
      /\ r.queue = s.queue /\ r.staging = s.staging
  BY <1>1 DEF Enter, Schedulers
<1>4. Sound(r, O, W)
  <2>. HIDE DEF r
  <2>. QED
    BY <1>1, <1>2, <1>3, SameWeak DEF Sound
<1>. QED
  BY <1>4

LEMMA NotifySound ==
  ASSUME NEW O, NEW W, NEW s, Sound(s, O, W), NEW st \in SchedulerState
  PROVE  Sound(Notify(s, st), O, W)
<1>. DEFINE r == Notify(s, st)
<1>1. s \in Schedulers /\ r \in Schedulers
  BY NotifyType DEF Sound, Weak
<1>2. s.queue \in Seq(YieldOf(O)) /\ s.staging \in Seq(YieldOf(O))
  BY DEF Sound, Weak, Fresh
<1>3. /\ r.task = s.task /\ r.active = s.active /\ r.running = s.running
      /\ r.paused = s.paused /\ r.navint = s.navint /\ r.intr = s.intr
      /\ r.queue = s.queue /\ r.staging = s.staging
  BY <1>1 DEF Notify, Enter, Schedulers
<1>4. Sound(r, O, W)
  <2>. HIDE DEF r
  <2>. QED
    BY <1>1, <1>2, <1>3, SameWeak DEF Sound
<1>. QED
  BY <1>4

LEMMA MoveNavSound ==
  ASSUME NEW O, NEW W, NEW s, Sound(s, O, W), NEW t \in NavTransition, NEW g
  PROVE  Sound(MoveNav(s, t, g), O, W)
<1>. DEFINE r == MoveNav(s, t, g)
<1>1. s \in Schedulers /\ r \in Schedulers
  BY MoveNavType DEF Sound, Weak
<1>2. s.queue \in Seq(YieldOf(O)) /\ s.staging \in Seq(YieldOf(O))
  BY DEF Sound, Weak, Fresh
<1>3. /\ r.task = s.task /\ r.active = s.active /\ r.running = s.running
      /\ r.paused = s.paused /\ r.navint = s.navint /\ r.intr = s.intr
      /\ r.queue = s.queue /\ r.staging = s.staging
  BY <1>1 DEF MoveNav, Throw, Schedulers
<1>4. Sound(r, O, W)
  <2>. HIDE DEF r
  <2>. QED
    BY <1>1, <1>2, <1>3, SameWeak DEF Sound
<1>. QED
  BY <1>4

\* The scheduler's own transitions neither end an action nor put it back.
LEMMA MoveActionsSound ==
  ASSUME NEW O, NEW W, NEW s, Sound(s, O, W), NEW S \in SUBSET s.active,
         NEW t \in {"do_pause", "do_resume", "do_cancel"}
  PROVE  Sound(MoveActions(s, S, t), O, W)
<1>. DEFINE r == MoveActions(s, S, t)
<1>1. s \in Schedulers /\ r \in Schedulers
  BY MoveActionsType DEF Sound, Weak, ActionTransition
<1>2. /\ r.active = s.active /\ r.running = s.running /\ r.paused = s.paused
      /\ r.navint = s.navint /\ r.intr = s.intr
      /\ r.queue = s.queue /\ r.staging = s.staging
  BY <1>1 DEF MoveActions, Schedulers
<1>3. ActionTarget[t] \notin ActionTerminal \cup {"Waiting"}
  BY DEF ActionTarget, ActionTransition, ActionReport, ActionTerminal
<1>4. \A a \in Action : r.task[a] = s.task[a] \/ (a \in S /\ r.task[a] = ActionTarget[t])
  BY <1>1 DEF MoveActions, Schedulers
<1>5. s.active \subseteq Action
  BY <1>1 DEF Schedulers
<1>6. Maps(r) /\ Alive(r)
  <2>. HIDE DEF r
  <2>. QED
    BY <1>1, <1>2, <1>3, <1>4, <1>5 DEF Sound, Weak, Maps, Alive, Schedulers
<1>7. Fresh(r, O, W)
  <2>1. \A a \in s.active : s.task[a] # "Waiting"
    BY DEF Sound, Weak, Maps
  <2>2. \A a : s.task[a] = "Waiting" /\ a \in Action => r.task[a] = "Waiting"
    BY <1>4, <2>1
  <2>3. \A k \in DOMAIN s.intr : s.intr[k] \subseteq Action
    BY <1>1 DEF Schedulers
  <2>. HIDE DEF r
  <2>. QED
    BY <1>2, <2>2, <2>3 DEF Sound, Weak, Fresh
<1>. QED
  BY <1>1, <1>6, <1>7 DEF Sound, Weak

LEMMA ClearQueuesSound ==
  ASSUME NEW O, NEW W, NEW s, Sound(s, O, W), NEW keepNav \in BOOLEAN
  PROVE  Sound(ClearQueues(s, keepNav), O, W)
<1>. DEFINE r == ClearQueues(s, keepNav)
<1>1. s \in Schedulers /\ r \in Schedulers
  BY ClearQueuesType DEF Sound, Weak
<1>2. /\ r.active = s.active /\ r.running = s.running /\ r.paused = s.paused
      /\ r.navint = s.navint /\ r.task = s.task /\ r.staging = s.staging
      /\ r.intr = <<>>
      /\ r.queue = IF keepNav THEN Chosen(s.queue, FreeSteps(s.queue)) ELSE <<>>
  BY <1>1 DEF ClearQueues, Schedulers
<1>3. r.queue \in Seq(YieldOf(O))
  BY <1>2, ChosenType, EmptySeqType DEF Sound, Weak, Fresh
<1>. HIDE DEF r
<1>4. DOMAIN r.intr = {}
  BY <1>2
<1>5. Sound(r, O, W)
  BY <1>1, <1>2, <1>3, <1>4 DEF Sound, Weak, Maps, Fresh, Alive
<1>. QED
  BY <1>5 DEF r

\* Whatever has ended or was paused since the last call, the maps are right again.
LEMMA UpdateTasksSound ==
  ASSUME NEW O, NEW W, NEW s, Weak(s, O, W)
  PROVE  Sound(UpdateTasks(s), O, W)
<1>. DEFINE live    == {a \in s.running \cup s.paused : s.task[a] \notin ActionTerminal}
            resting == {a \in live : s.task[a] \in ActionPaused}
            moved   == [s EXCEPT !.running = live \ resting,
                                 !.paused  = resting,
                                 !.active  = {a \in @ : s.task[a] \notin ActionTerminal}]
            cleared == IF s.nav = "Failed" THEN ClearQueues(moved, FALSE) ELSE moved
            dropped == [cleared EXCEPT !.nav = NoTask, !.goal = 0]
<1>1. s \in Schedulers
  BY DEF Weak
<1>2. /\ moved \in Schedulers /\ moved.running = live \ resting /\ moved.paused = resting
      /\ moved.active = {a \in s.active : s.task[a] \notin ActionTerminal}
      /\ moved.task = s.task /\ moved.navint = s.navint /\ moved.intr = s.intr
      /\ moved.queue = s.queue /\ moved.staging = s.staging
  BY <1>1 DEF Schedulers
<1>3. Sound(moved, O, W)
  <2>1. Maps(moved) /\ Alive(moved)
    <3>. HIDE DEF moved
    <3>. QED
      BY <1>2 DEF Weak, Maps, Alive
  <2>2. Fresh(moved, O, W)
    <3>. HIDE DEF moved
    <3>. QED
      BY <1>2 DEF Weak, Fresh
  <2>. QED
    BY <1>2, <2>1, <2>2 DEF Sound, Weak
<1>. HIDE DEF moved
<1>4. Sound(cleared, O, W)
  BY <1>3, ClearQueuesSound
<1>. HIDE DEF cleared
<1>5. Sound(dropped, O, W)
  <2>1. cleared \in Schedulers
    BY <1>4 DEF Sound, Weak
  <2>2. /\ dropped \in Schedulers /\ dropped.task = cleared.task
        /\ dropped.active = cleared.active /\ dropped.running = cleared.running
        /\ dropped.paused = cleared.paused /\ dropped.navint = cleared.navint
        /\ dropped.intr = cleared.intr /\ dropped.queue = cleared.queue
        /\ dropped.staging = cleared.staging
    BY <2>1 DEF Schedulers
  <2>3. cleared.queue \in Seq(YieldOf(O)) /\ cleared.staging \in Seq(YieldOf(O))
    BY <1>4 DEF Sound, Weak, Fresh
  <2>. HIDE DEF dropped
  <2>. QED
    BY <1>4, <2>2, <2>3, SameWeak DEF Sound
<1>6. UpdateTasks(s) = IF s.nav \in NavTerminal THEN dropped ELSE moved
  BY DEF UpdateTasks, moved, cleared
<1>. QED
  BY <1>3, <1>5, <1>6

LEMMA UpdateInterruptMappingSound ==
  ASSUME NEW O, NEW W, NEW s, Sound(s, O, W)
  PROVE  Sound(UpdateInterruptMapping(s), O, W)
<1>. DEFINE rest == {a \in s.navint : s.task[a] \notin ActionTerminal}
            s1   == [s EXCEPT !.navint = rest]
<1>1. s \in Schedulers
  BY DEF Sound, Weak
<1>2. /\ s1 \in Schedulers /\ s1.task = s.task /\ s1.active = s.active
      /\ s1.running = s.running /\ s1.paused = s.paused /\ s1.navint = rest
      /\ s1.intr = s.intr /\ s1.queue = s.queue /\ s1.staging = s.staging
  BY <1>1 DEF Schedulers
<1>3. Sound(s1, O, W)
  <2>. HIDE DEF s1
  <2>. QED
    BY <1>2 DEF Sound, Weak, Maps, Fresh, Alive
<1>. HIDE DEF s1
<1>4. Sound(MoveNav(s1, "do_resume", 0), O, W)
  BY <1>3, MoveNavSound DEF NavTransition
<1>. QED
  BY <1>3, <1>4 DEF UpdateInterruptMapping, s1

LEMMA RefreshSound ==
  ASSUME NEW O, NEW W, NEW s, Weak(s, O, W)
  PROVE  Sound(Refresh(s), O, W)
  BY UpdateTasksSound, UpdateInterruptMappingSound DEF Refresh

\* Starting a group none of whose actions is in a map or a queue.
LEMMA StartGroupSound ==
  ASSUME NEW O, NEW W, NEW s, Sound(s, O, W), NEW G \in SUBSET Action, NEW c \in BlockingType,
         G \cap s.paused = {}, G \cap W = {}, \A k \in DOMAIN s.intr : G \cap s.intr[k] = {}
  PROVE  Sound(StartGroup(s, G, c), O, W)
<1>. DEFINE r == StartGroup(s, G, c)
<1>1. s \in Schedulers /\ r \in Schedulers
  BY StartGroupType DEF Sound, Weak
<1>2. /\ r.active = s.active \cup G /\ r.running = s.running \cup G /\ r.paused = s.paused
      /\ r.navint = s.navint /\ r.intr = s.intr
      /\ r.queue = s.queue /\ r.staging = s.staging
  BY <1>1 DEF StartGroup, Schedulers
<1>3. ActionTarget["do_start"] \notin ActionTerminal \cup {"Waiting"}
  BY DEF ActionTarget, ActionTransition, ActionReport, ActionTerminal
<1>4. \A a \in Action : r.task[a] = IF a \in G THEN ActionTarget["do_start"] ELSE s.task[a]
  BY <1>1 DEF StartGroup, Schedulers
<1>5. s.active \subseteq Action /\ s.navint \subseteq Action
  BY <1>1 DEF Schedulers
<1>6. \A k \in DOMAIN s.intr : s.intr[k] \subseteq Action
  BY <1>1 DEF Schedulers
<1>. HIDE DEF r
<1>7. Maps(r) /\ Alive(r)
  BY <1>2, <1>3, <1>4, <1>5 DEF Sound, Weak, Maps, Alive
<1>8. Fresh(r, O, W)
  BY <1>2, <1>4, <1>6 DEF Sound, Weak, Fresh
<1>9. Sound(r, O, W)
  BY <1>1, <1>7, <1>8 DEF Sound, Weak
<1>. QED
  BY <1>9 DEF r

LEMMA HeadSound ==
  ASSUME NEW O, NEW q \in Seq(YieldOf(O)), q # <<>>
  PROVE  /\ Head(q) \in YieldOf(O)
         /\ Tail(q) \in Seq(YieldOf(O))
  OBVIOUS

LEMMA FetchGroupSound ==
  ASSUME NEW O, NEW W, NEW s, Sound(s, O, W),
         s.queue # <<>>, ~IsStep(Head(s.queue)), s.active = {}
  PROVE  Sound(FetchGroup(s), O, W)
<1>. DEFINE G == Head(s.queue).actions
            started == StartGroup(s, G, Head(s.queue).ceiling)
            r == FetchGroup(s)
<1>1. s \in Schedulers /\ s.queue \in Seq(YieldOf(O)) /\ s.staging \in Seq(YieldOf(O))
  BY DEF Sound, Weak, Fresh
<1>2. Head(s.queue) \in YieldOf(O) /\ Tail(s.queue) \in Seq(YieldOf(O))
  BY <1>1, HeadSound
<1>3. G \subseteq O
  BY <1>2 DEF YieldOf
<1>4. G \in SUBSET Action /\ Head(s.queue).ceiling \in BlockingType
  BY <1>1, QueueType, YieldCases DEF Group
<1>5. s.paused = {}
  BY DEF Sound, Weak, Maps
<1>6. Sound(started, O, W)
  <2>1. G \cap W = {} /\ \A k \in DOMAIN s.intr : G \cap s.intr[k] = {}
    BY <1>3 DEF Sound, Weak, Fresh
  <2>. HIDE DEF G
  <2>. QED
    BY <1>4, <1>5, <2>1, StartGroupSound
<1>7. r \in Schedulers
  BY <1>1, FetchGroupType
<1>8. started \in Schedulers /\ started.queue = s.queue /\ started.staging = s.staging
  BY <1>1, <1>6 DEF StartGroup, Schedulers, Sound, Weak
<1>9. /\ r.task = started.task /\ r.active = started.active /\ r.running = started.running
      /\ r.paused = started.paused /\ r.navint = started.navint /\ r.intr = started.intr
      /\ r.queue = Tail(started.queue) /\ r.staging = started.staging
  <2>1. r = [started EXCEPT !.segment = NoSegment, !.queue = Tail(@)]
    BY DEF FetchGroup
  <2>. HIDE DEF started, r
  <2>. QED
    BY <1>8, <2>1 DEF Schedulers
<1>10. Sound(r, O, W)
  <2>. HIDE DEF started, r
  <2>. QED
    BY <1>1, <1>2, <1>6, <1>7, <1>8, <1>9, SameWeak DEF Sound
<1>. QED
  BY <1>10

LEMMA FetchStepSound ==
  ASSUME NEW O, NEW W, NEW s, Sound(s, O, W), s.queue # <<>>, IsStep(Head(s.queue))
  PROVE  Sound(FetchStep(s), O, W)
<1>. DEFINE r == FetchStep(s)
<1>1. s \in Schedulers /\ s.queue \in Seq(YieldOf(O)) /\ s.staging \in Seq(YieldOf(O))
  BY DEF Sound, Weak, Fresh
<1>2. Tail(s.queue) \in Seq(YieldOf(O))
  BY <1>1, HeadSound
<1>3. r \in Schedulers
  BY <1>1, FetchStepType
<1>4. /\ r.task = s.task /\ r.active = s.active /\ r.running = s.running
      /\ r.paused = s.paused /\ r.navint = s.navint /\ r.intr = s.intr
      /\ r.queue = Tail(s.queue) /\ r.staging = s.staging
  BY <1>1 DEF FetchStep, Schedulers
<1>5. Sound(r, O, W)
  <2>. HIDE DEF r
  <2>. QED
    BY <1>1, <1>2, <1>3, <1>4, SameWeak DEF Sound
<1>. QED
  BY <1>5

LEMMA PatchSegmentSound ==
  ASSUME NEW O, NEW W, NEW s, Sound(s, O, W)
  PROVE  Sound(PatchSegment(s), O, W)
<1>. DEFINE r == PatchSegment(s)
<1>1. s \in Schedulers /\ s.queue \in Seq(YieldOf(O)) /\ s.staging \in Seq(YieldOf(O))
  BY DEF Sound, Weak, Fresh
<1>2. r \in Schedulers
  BY <1>1, PatchSegmentType
<1>3. /\ r.task = s.task /\ r.active = s.active /\ r.running = s.running
      /\ r.paused = s.paused /\ r.navint = s.navint /\ r.intr = s.intr
      /\ r.queue = s.queue /\ r.staging = s.staging
  BY <1>1 DEF PatchSegment, Schedulers
<1>4. Sound(r, O, W)
  <2>. HIDE DEF r
  <2>. QED
    BY <1>1, <1>2, <1>3, SameWeak DEF Sound
<1>. QED
  BY <1>4

LEMMA FetchNextSound ==
  ASSUME NEW O, NEW W, NEW s, Sound(s, O, W) PROVE Sound(FetchNext(s), O, W)
<1>1. ASSUME NEW u, Sound(u, O, W) PROVE Sound(FetchOne(u), O, W)
  BY <1>1, FetchGroupSound, FetchStepSound, PatchSegmentSound
     DEF FetchOne, MayFetchGroup
<1>. QED
  BY <1>1 DEF FetchNext

\* Dropping the front of the interrupt queue.
LEMMA TailIntrSound ==
  ASSUME NEW O, NEW W, NEW s, Sound(s, O, W), s.intr # <<>>
  PROVE  LET r == [s EXCEPT !.intr = Tail(@)]
             G == Head(s.intr)
         IN /\ Sound(r, O, W)
            /\ G \in SUBSET Action
            /\ G \cap s.active = {} /\ G \cap W = {}
            /\ \A k \in DOMAIN r.intr : G \cap r.intr[k] = {}
<1>. DEFINE rest == Tail(s.intr)
            r == [s EXCEPT !.intr = rest]
            G == Head(s.intr)
<1>1. s \in Schedulers /\ s.intr \in Seq((SUBSET Action) \ {{}})
  BY DEF Sound, Weak, Schedulers
<1>2. /\ rest \in Seq((SUBSET Action) \ {{}})
      /\ 1 \in DOMAIN s.intr /\ G = s.intr[1]
      /\ \A k \in DOMAIN rest : k \in Nat /\ k # 0 /\ k + 1 \in DOMAIN s.intr
                                /\ rest[k] = s.intr[k + 1]
  BY <1>1
<1>. HIDE DEF rest, G
<1>3. /\ r \in Schedulers /\ r.task = s.task /\ r.active = s.active /\ r.running = s.running
      /\ r.paused = s.paused /\ r.navint = s.navint /\ r.intr = rest
      /\ r.queue = s.queue /\ r.staging = s.staging
  BY <1>1, <1>2 DEF Schedulers
<1>. HIDE DEF r
<1>4. Fresh(r, O, W)
  <2>1. \A k, l \in DOMAIN rest : k + 1 = l + 1 => k = l
    BY <1>2
  <2>. QED
    BY <1>2, <1>3, <2>1 DEF Sound, Weak, Fresh
<1>5. Sound(r, O, W)
  BY <1>3, <1>4 DEF Sound, Weak, Maps, Alive
<1>6. /\ G \in SUBSET Action /\ G \cap s.active = {} /\ G \cap W = {}
  BY <1>1, <1>2 DEF Sound, Weak, Fresh, Maps
<1>7. \A k \in DOMAIN r.intr : G \cap r.intr[k] = {}
  <2>1. \A k \in DOMAIN rest : k + 1 # 1
    BY <1>2
  <2>. QED
    BY <1>2, <1>3, <2>1 DEF Sound, Weak, Fresh
<1>. QED
  BY <1>5, <1>6, <1>7 DEF r, G, rest

LEMMA FetchInterruptSound ==
  ASSUME NEW O, NEW W, NEW s, Sound(s, O, W)
  PROVE  Sound(FetchInterrupt(s), O, W)
<1>. DEFINE G       == Head(s.intr)
            s0      == [s EXCEPT !.intr = Tail(@)]
            started == StartGroup(s0, G, Ceiling(G))
            r       == FetchInterrupt(s)
<1>1. SUFFICES ASSUME MayFetchInterrupt(s) PROVE Sound(r, O, W)
  BY DEF FetchInterrupt
<1>2. s.intr # <<>> /\ s \in Schedulers /\ r \in Schedulers
  BY <1>1, FetchInterruptType DEF MayFetchInterrupt, Sound, Weak
<1>3. /\ Sound(s0, O, W) /\ G \in SUBSET Action /\ G \cap s.active = {} /\ G \cap W = {}
      /\ \A k \in DOMAIN s0.intr : G \cap s0.intr[k] = {}
  BY <1>2, TailIntrSound
<1>4. G \cap s0.paused = {}
  BY <1>2, <1>3 DEF Sound, Weak, Maps, Schedulers
<1>5. Sound(started, O, W)
  <2>. HIDE DEF G, s0
  <2>. QED
    BY <1>3, <1>4, CeilingType, StartGroupSound
<1>6. /\ r.task = started.task /\ r.active = started.active /\ r.running = started.running
      /\ r.paused = started.paused /\ r.intr = started.intr
      /\ r.queue = started.queue /\ r.staging = started.staging
      /\ r.navint \subseteq started.navint \cup G
  <2>. DEFINE direct == StartGroup(s, G, Ceiling(G))
  <2>1. r = [direct EXCEPT !.navint = @ \cup {a \in G : BlockingOf[a] # "NONE"},
                           !.intr   = Tail(@)]
    BY <1>1 DEF FetchInterrupt
  <2>2. direct \in Schedulers
    BY <1>2, <1>3, CeilingType, StartGroupType
  <2>3. /\ direct.task = started.task /\ direct.active = started.active
        /\ direct.running = started.running /\ direct.paused = started.paused
        /\ direct.queue = started.queue /\ direct.staging = started.staging
        /\ direct.navint = started.navint /\ started.intr = Tail(direct.intr)
    <3>. HIDE DEF G
    <3>. QED
      BY <1>2 DEF StartGroup, Schedulers
  <2>. HIDE DEF direct, r, started, G
  <2>. QED
    BY <2>1, <2>2, <2>3 DEF Schedulers
<1>7. G \subseteq started.active
  <2>1. s0 \in Schedulers
    BY <1>3 DEF Sound, Weak
  <2>. HIDE DEF G, s0
  <2>. QED
    BY <2>1 DEF StartGroup, Schedulers
<1>8. Sound(r, O, W)
  <2>. HIDE DEF G, started, r
  <2>. QED
    BY <1>2, <1>5, <1>6, <1>7 DEF Sound, Weak, Maps, Fresh, Alive
<1>. QED
  BY <1>8

LEMMA DoInterruptSound ==
  ASSUME NEW O, NEW W, NEW s, Sound(s, O, W) PROVE Sound(DoInterrupt(s), O, W)
<1>. DEFINE ceiling == Ceiling(Head(s.intr))
            s1 == IF ceiling # "NONE" /\ s.nav # NoTask
                  THEN MoveNav(s, "do_pause", 0) ELSE s
            ousted == {a \in s.active : ceiling = "HARD" \/ BlockingOf[a] = "HARD"}
<1>1. Sound(s1, O, W)
  BY MoveNavSound DEF NavTransition
<1>2. s \in Schedulers
  BY DEF Sound, Weak
<1>3. s1.active = s.active
  BY <1>2 DEF MoveNav, Throw, Schedulers
<1>4. DoInterrupt(s) = IF s.intr = <<>> THEN s ELSE IF s1.thrown THEN s1
                       ELSE MoveActions(s1, ousted, "do_cancel")
  BY DEF DoInterrupt
<1>. HIDE DEF s1
<1>5. Sound(MoveActions(s1, ousted, "do_cancel"), O, W)
  BY <1>1, <1>3, MoveActionsSound
<1>. QED
  BY <1>1, <1>4, <1>5

-------------------------------------------------------------------------------

LEMMA UpdateActiveSound ==
  ASSUME NEW O, NEW W, NEW s, Weak(s, O, W) PROVE Sound(UpdateActive(s), O, W)
  BY RefreshSound, FetchNextSound, NotifySound DEF UpdateActive, SchedulerState

LEMMA SoundIsWeak ==
  ASSUME NEW O, NEW W, NEW s, Sound(s, O, W) PROVE Weak(s, O, W)
  BY DEF Sound

\* update() repairs the maps in every state; the idle states, which do not look at
\* them, have none to repair.
LEMMA UpdateSound ==
  ASSUME NEW O, NEW W, NEW s, Weak(s, O, W),
         s.state \in {"idle", "idle_paused"} => s.active = {}
  PROVE  Sound(Update(s), O, W)
<1>1. s.state \in SchedulerState
  BY StateType DEF Weak
<1>2. CASE s.state \in {"idle", "idle_paused"}
  <2>1. Sound(s, O, W)
    BY <1>2 DEF Sound, Alive
  <2>. QED
    BY <1>2, <2>1, FetchNextSound, NotifySound, EnterSound
       DEF Update, UpdateIdle, SchedulerState
<1>3. CASE s.state \in {"active", "canceling", "paused"}
  BY <1>3, UpdateActiveSound, RefreshSound, FetchNextSound, NotifySound
     DEF Update, UpdateCanceling, SchedulerState
<1>4. CASE s.state \in {"resuming", "pausing"}
  BY <1>4, RefreshSound, NotifySound, SoundIsWeak, UpdateActiveSound
     DEF Update, UpdateResuming, UpdatePausing, SchedulerState
<1>5. CASE s.state = "interrupting"
  BY <1>5, UpdateTasksSound, FetchInterruptSound, NotifySound
     DEF Update, UpdateInterrupting, SchedulerState
<1>. QED
  BY <1>1, <1>2, <1>3, <1>4, <1>5 DEF SchedulerState

-------------------------------------------------------------------------------
(* The control operations *)

LEMMA SubMaps ==
  ASSUME NEW O, NEW W, NEW s, Sound(s, O, W)
  PROVE  s.running \subseteq s.active /\ s.paused \subseteq s.active
  BY DEF Sound, Weak, Maps

LEMMA NotifyState ==
  ASSUME NEW s \in Schedulers, NEW st \in SchedulerState
  PROVE  Notify(s, st).state = st /\ Enter(s, st).state = st
  BY DEF Notify, Enter, Schedulers

LEMMA CancelActiveSound ==
  ASSUME NEW O, NEW W, NEW s, Sound(s, O, W) PROVE Sound(CancelActive(s), O, W)
  BY MoveActionsSound, MoveNavSound, ClearQueuesSound, NotifySound
     DEF CancelActive, SchedulerState, NavTransition

LEMMA CancelSound ==
  ASSUME NEW O, NEW W, NEW s, Sound(s, O, W) PROVE Sound(Cancel(s), O, W)
<1>. DEFINE left == Enter(s, "canceling")
<1>1. s \in Schedulers
  BY DEF Sound, Weak
<1>2. Sound(left, O, W) /\ left.state = "canceling"
  BY <1>1, EnterSound, NotifyState DEF SchedulerState
<1>. HIDE DEF left
<1>3. Sound(Update(left), O, W)
  BY <1>2, UpdateSound, SoundIsWeak
<1>. QED
  BY <1>1, <1>3, StateType, ClearQueuesSound, CancelActiveSound, ThrowSound
     DEF Cancel, left, SchedulerState

LEMMA PauseSound ==
  ASSUME NEW O, NEW W, NEW s, Sound(s, O, W) PROVE Sound(Pause(s), O, W)
<1>1. s \in Schedulers
  BY DEF Sound, Weak
<1>2. Sound(PauseActive(s), O, W)
  BY SubMaps, MoveActionsSound, MoveNavSound, NotifySound
     DEF PauseActive, SchedulerState, NavTransition
<1>. QED
  BY <1>1, <1>2, StateType, NotifySound, ThrowSound DEF Pause, SchedulerState

LEMMA ResumePausedSound ==
  ASSUME NEW O, NEW W, NEW s, Sound(s, O, W) PROVE Sound(ResumePaused(s), O, W)
<1>. DEFINE s1 == MoveActions(s, s.paused, "do_resume")
            s2 == IF s.nav = NoTask THEN s1 ELSE MoveNav(s1, "do_resume", 0)
            s3 == Notify(s2, "resuming")
<1>1. Sound(s1, O, W)
  BY SubMaps, MoveActionsSound
<1>. HIDE DEF s1
<1>2. Sound(s2, O, W)
  BY <1>1, MoveNavSound DEF NavTransition
<1>. HIDE DEF s2
<1>3. Sound(s3, O, W) /\ s3.state = "resuming"
  BY <1>2, NotifySound, NotifyState DEF SchedulerState, Sound, Weak
<1>. HIDE DEF s3
<1>4. Sound(Update(s3), O, W)
  BY <1>3, UpdateSound, SoundIsWeak
<1>. QED
  BY <1>1, <1>2, <1>4 DEF ResumePaused, s1, s2, s3

LEMMA ResumeSound ==
  ASSUME NEW O, NEW W, NEW s, Sound(s, O, W),
         s.state = "idle_paused" => s.active = {}
  PROVE  Sound(Resume(s), O, W)
<1>. DEFINE woken == Notify(s, "idle")
<1>1. s \in Schedulers
  BY DEF Sound, Weak
<1>2. Sound(woken, O, W) /\ woken.active = s.active
  BY <1>1, NotifySound DEF SchedulerState, Notify, Enter, Schedulers
<1>. HIDE DEF woken
<1>3. CASE s.state = "idle_paused"
  <2>1. Sound(Update(woken), O, W)
    BY <1>2, <1>3, UpdateSound, SoundIsWeak
  <2>. QED
    BY <1>3, <2>1 DEF Resume, woken
<1>4. CASE s.state # "idle_paused"
  BY <1>1, <1>4, StateType, ResumePausedSound, ThrowSound DEF Resume, SchedulerState
<1>. QED
  BY <1>3, <1>4

LEMMA AppendIndex ==
  ASSUME NEW S, NEW p \in Seq(S), NEW e \in S
  PROVE  /\ Append(p, e) \in Seq(S)
         /\ \A k \in DOMAIN Append(p, e) :
              \/ k \in DOMAIN p /\ Append(p, e)[k] = p[k]
              \/ k = Len(p) + 1 /\ Append(p, e)[k] = e
  OBVIOUS

\* The actions of a new group move from those to come into the interrupt queue.
LEMMA QueueInterruptSound ==
  ASSUME NEW O, NEW W, NEW s, Sound(s, O, W), NEW G \in SUBSET W, G # {}
  PROVE  Sound([s EXCEPT !.intr = Append(@, G)], O, W \ G)
<1>. DEFINE q == Append(s.intr, G)
            r == [s EXCEPT !.intr = q]
<1>1. s \in Schedulers /\ s.intr \in Seq((SUBSET Action) \ {{}})
  BY DEF Sound, Weak, Schedulers
<1>2. G \in (SUBSET Action) \ {{}}
  <2>1. W \subseteq Action
    BY DEF Sound, Weak, Fresh
  <2>. QED
    BY <2>1
<1>3. /\ q \in Seq((SUBSET Action) \ {{}})
      /\ \A k \in DOMAIN q :
           \/ k \in DOMAIN s.intr /\ q[k] = s.intr[k]
           \/ k = Len(s.intr) + 1 /\ q[k] = G
  BY <1>1, <1>2, AppendIndex
<1>. HIDE DEF q
<1>4. /\ r \in Schedulers /\ r.task = s.task /\ r.active = s.active
      /\ r.running = s.running /\ r.paused = s.paused /\ r.navint = s.navint
      /\ r.intr = q /\ r.queue = s.queue /\ r.staging = s.staging
  BY <1>1, <1>3 DEF Schedulers
<1>. HIDE DEF r
<1>5. Fresh(s, O, W)
  BY DEF Sound, Weak
<1>6. ASSUME NEW k \in DOMAIN q
      PROVE  q[k] \cap (O \cup (W \ G)) = {} /\ \A a \in q[k] : r.task[a] = "Waiting"
  <2>1. CASE k \in DOMAIN s.intr /\ q[k] = s.intr[k]
    BY <1>4, <1>5, <2>1 DEF Fresh
  <2>2. CASE q[k] = G
    BY <1>4, <1>5, <2>2 DEF Fresh
  <2>. QED
    BY <1>3, <2>1, <2>2
<1>7. ASSUME NEW k \in DOMAIN q, NEW l \in DOMAIN q, k # l
      PROVE  q[k] \cap q[l] = {}
  <2>1. \A m \in DOMAIN s.intr : s.intr[m] \cap G = {}
    BY <1>5 DEF Fresh
  <2>2. CASE k \in DOMAIN s.intr /\ q[k] = s.intr[k]
    <3>1. CASE l \in DOMAIN s.intr /\ q[l] = s.intr[l]
      BY <1>5, <1>7, <2>2, <3>1 DEF Fresh
    <3>2. CASE q[l] = G
      BY <2>1, <2>2, <3>2
    <3>. QED
      BY <1>3, <3>1, <3>2
  <2>3. CASE k = Len(s.intr) + 1 /\ q[k] = G
    <3>1. l \in DOMAIN s.intr /\ q[l] = s.intr[l]
      BY <1>3, <1>7, <2>3
    <3>. QED
      BY <2>1, <2>3, <3>1
  <2>. QED
    BY <1>3, <2>2, <2>3
<1>8. Fresh(r, O, W \ G)
  BY <1>4, <1>5, <1>6, <1>7 DEF Fresh
<1>9. Sound(r, O, W \ G)
  BY <1>4, <1>8 DEF Sound, Weak, Maps, Alive
<1>. QED
  BY <1>9 DEF r, q

LEMMA InterruptSound ==
  ASSUME NEW O, NEW W, NEW s, Sound(s, O, W), NEW G \in SUBSET W, G # {}
  PROVE  Sound(Interrupt(s, G), O, W \ G)
<1>. DEFINE s1 == [s EXCEPT !.intr = Append(@, G)]
            s2 == DoInterrupt(s1)
            s3 == Notify(s2, "interrupting")
<1>1. Sound(s1, O, W \ G)
  BY QueueInterruptSound
<1>. HIDE DEF s1
<1>2. Sound(s2, O, W \ G)
  BY <1>1, DoInterruptSound
<1>. HIDE DEF s2
<1>3. Sound(s3, O, W \ G) /\ s3.state = "interrupting"
  BY <1>2, NotifySound, NotifyState DEF SchedulerState, Sound, Weak
<1>. HIDE DEF s3
<1>4. Sound(Update(s3), O, W \ G)
  BY <1>3, UpdateSound, SoundIsWeak
<1>5. Sound(Throw(s1), O, W \ G)
  BY <1>1, ThrowSound
<1>. QED
  BY <1>2, <1>4, <1>5 DEF Interrupt, s1, s2, s3

-------------------------------------------------------------------------------
(* The reports of the AGV and the events of the interpreter *)

\* The report of an action in progress is the one place where a map may hold an
\* action that has ended: until update() has seen it.
LEMMA ReportedWeak ==
  ASSUME NEW O, NEW W, NEW s, Sound(s, O, W), NEW a \in s.active, NEW t \in ActionReport
  PROVE  Weak([s EXCEPT !.task[a] = ActionTarget[t]], O, W)
<1>. DEFINE r == [s EXCEPT !.task[a] = ActionTarget[t]]
<1>1. s \in Schedulers /\ a \in Action
  BY DEF Sound, Weak, Schedulers
<1>2. ActionTarget[t] \in ActionState /\ ActionTarget[t] # "Waiting"
  BY DEF ActionTarget, ActionTransition, ActionReport, ActionState
<1>3. /\ r \in Schedulers /\ r.active = s.active
      /\ r.running = s.running /\ r.paused = s.paused /\ r.navint = s.navint
      /\ r.intr = s.intr /\ r.queue = s.queue /\ r.staging = s.staging
      /\ r.task = [s.task EXCEPT ![a] = ActionTarget[t]]
  BY <1>1, <1>2 DEF Schedulers
<1>4. \A b \in Action : r.task[b] = IF b = a THEN ActionTarget[t] ELSE s.task[b]
  BY <1>1, <1>3 DEF Schedulers
<1>5. s.active \subseteq Action /\ \A k \in DOMAIN s.intr : s.intr[k] \subseteq Action
  BY <1>1 DEF Schedulers
<1>. HIDE DEF r
<1>6. Maps(r)
  BY <1>2, <1>3, <1>4, <1>5 DEF Sound, Weak, Maps, Schedulers
<1>7. s.task[a] # "Waiting"
  BY DEF Sound, Weak, Maps
<1>8. Fresh(r, O, W)
  BY <1>3, <1>4, <1>5, <1>7 DEF Sound, Weak, Fresh
<1>9. Weak(r, O, W)
  BY <1>3, <1>6, <1>8 DEF Weak
<1>. QED
  BY <1>9 DEF r

LEMMA ReportActionSound ==
  ASSUME NEW O, NEW W, NEW s, Sound(s, O, W), NEW a \in Action, NEW t \in ActionReport,
         s.state \in {"idle", "idle_paused"} => s.active = {}
  PROVE  Sound(ReportAction(s, a, t), O, W)
<1>. DEFINE r == [s EXCEPT !.task[a] = ActionTarget[t]]
<1>1. SUFFICES ASSUME a \in s.active PROVE Sound(Update(r), O, W)
  BY ThrowSound DEF ReportAction
<1>2. Weak(r, O, W)
  BY <1>1, ReportedWeak
<1>3. r.state = s.state /\ r.active = s.active
  BY DEF Sound, Weak, Schedulers
<1>. HIDE DEF r
<1>. QED
  BY <1>2, <1>3, UpdateSound

LEMMA MoveNavFrame ==
  ASSUME NEW s \in Schedulers, NEW t, NEW g
  PROVE  LET r == MoveNav(s, t, g)
         IN /\ r.state = s.state /\ r.active = s.active /\ r.navint = s.navint
            /\ r.segment = s.segment /\ r.queue = s.queue /\ r.notes = s.notes
  BY DEF MoveNav, Throw, Schedulers

LEMMA ReportNavSound ==
  ASSUME NEW O, NEW W, NEW s, Sound(s, O, W), NEW t \in NavTransition, NEW g,
         s.state \in {"idle", "idle_paused"} => s.active = {}
  PROVE  Sound(ReportNav(s, t, g), O, W)
<1>. DEFINE s1 == MoveNav(s, t, g)
<1>1. Sound(s1, O, W) /\ s1.state = s.state /\ s1.active = s.active
  BY MoveNavSound, MoveNavFrame DEF Sound, Weak
<1>. HIDE DEF s1
<1>2. Sound(Update(s1), O, W)
  BY <1>1, UpdateSound, SoundIsWeak
<1>. QED
  BY <1>1, <1>2, ThrowSound DEF ReportNav, s1

LEMMA ReachUnrecordedSound ==
  ASSUME NEW O, NEW W, NEW s, Sound(s, O, W), NEW g
  PROVE  Sound(ReachUnrecorded(s, g), O, W)
  BY MoveNavSound, ThrowSound DEF ReachUnrecorded, NavTransition, NavReport

LEMMA EnqueueSound ==
  ASSUME NEW O, NEW W, NEW s, Sound(s, O, W), NEW e \in YieldOf(O)
  PROVE  Sound(Enqueue(s, e), O, W)
<1>. DEFINE r == Enqueue(s, e)
<1>1. s \in Schedulers /\ s.queue \in Seq(YieldOf(O)) /\ s.staging \in Seq(YieldOf(O))
  BY DEF Sound, Weak, Fresh
<1>2. r \in Schedulers
  BY <1>1, EnqueueType DEF YieldOf
<1>3. /\ r.task = s.task /\ r.active = s.active /\ r.running = s.running
      /\ r.paused = s.paused /\ r.navint = s.navint /\ r.intr = s.intr
      /\ r.queue = s.queue /\ r.staging = Append(s.staging, e)
  BY <1>1 DEF Enqueue, Schedulers
<1>4. r.staging \in Seq(YieldOf(O))
  BY <1>1, <1>3, AppendType
<1>5. Sound(r, O, W)
  <2>. HIDE DEF r
  <2>. QED
    BY <1>1, <1>2, <1>3, <1>4, SameWeak DEF Sound
<1>. QED
  BY <1>5

LEMMA ConcatType == \A S : \A p, q \in Seq(S) : p \o q \in Seq(S)
  OBVIOUS

LEMMA CommittedWeak ==
  ASSUME NEW O, NEW W, NEW s, Sound(s, O, W)
  PROVE  Weak([s EXCEPT !.queue = @ \o s.staging, !.staging = <<>>], O, W)
<1>. DEFINE q == s.queue \o s.staging
            r == [s EXCEPT !.queue = q, !.staging = <<>>]
<1>1. s \in Schedulers /\ s.queue \in Seq(YieldOf(O)) /\ s.staging \in Seq(YieldOf(O))
  BY DEF Sound, Weak, Fresh
<1>2. q \in Seq(Yield) /\ q \in Seq(YieldOf(O))
  BY <1>1, ConcatType DEF Schedulers
<1>3. <<>> \in Seq(Yield) /\ <<>> \in Seq(YieldOf(O))
  BY EmptySeqType
<1>. HIDE DEF q
<1>4. /\ r \in Schedulers /\ r.task = s.task /\ r.active = s.active
      /\ r.running = s.running /\ r.paused = s.paused /\ r.navint = s.navint
      /\ r.intr = s.intr /\ r.queue = q /\ r.staging = <<>>
  BY <1>1, <1>2, <1>3 DEF Schedulers
<1>. HIDE DEF r
<1>5. Weak(r, O, W)
  BY <1>2, <1>3, <1>4, SameWeak DEF Sound
<1>. QED
  BY <1>5 DEF r, q

LEMMA CommitQueueSound ==
  ASSUME NEW O, NEW W, NEW s, Sound(s, O, W),
         s.state \in {"idle", "idle_paused"} => s.active = {}
  PROVE  Sound(CommitQueue(s), O, W)
<1>. DEFINE r == [s EXCEPT !.queue = @ \o s.staging, !.staging = <<>>]
<1>1. Weak(r, O, W)
  BY CommittedWeak
<1>2. r.state = s.state /\ r.active = s.active
  BY DEF Sound, Weak, Schedulers
<1>. HIDE DEF r
<1>3. Sound(Update(r), O, W)
  BY <1>1, <1>2, UpdateSound
<1>. QED
  BY <1>3 DEF CommitQueue, r

-------------------------------------------------------------------------------
(* When a scheduler comes to rest and what it publishes about it, what a call  *)
(* starts, and where it lets the AGV drive.                                    *)

\* An idle scheduler has no task and no segment.
Quiet(s) ==
  s.state \in {"idle", "idle_paused"} =>
    /\ s.active = {} /\ s.navint = {}
    /\ s.nav = NoTask /\ s.segment = NoSegment

\* Nor has it anything left to start, unless it is paused.
Emptied(s) == Quiet(s) /\ (s.state = "idle" => s.queue = <<>>)

\* The status a reader knows after the operation, p being the one before it, is
\* the state the operation ended in.
Tracks(s, p) ==
  s.state = IF s.notes = <<>> THEN p ELSE s.notes[Len(s.notes)]

Announced(s, p) == Emptied(s) /\ Tracks(s, p)

\* What update() makes sure of before it looks at the queue.
Refreshed(s) == s.navint \subseteq s.active /\ s.nav \notin NavTerminal

\* States between which nothing was published and the state did not change.
Steady(r, s) == r.state = s.state /\ r.notes = s.notes

-------------------------------------------------------------------------------

LEMMA SteadyTracks ==
  ASSUME NEW r, NEW s, NEW p, Steady(r, s), Tracks(s, p) PROVE Tracks(r, p)
  BY DEF Steady, Tracks

LEMMA NotifyTracks ==
  ASSUME NEW s \in Schedulers, NEW st \in SchedulerState, NEW p
  PROVE  Tracks(Notify(s, st), p)
<1>. DEFINE r == Notify(s, st)
<1>1. s.notes \in Seq(SchedulerState)
  BY DEF Schedulers
<1>2. r.notes = Append(s.notes, st) /\ r.state = st
  BY DEF Notify, Enter, Schedulers
<1>3. r.notes # <<>> /\ r.notes[Len(r.notes)] = st
  BY <1>1, <1>2
<1>. QED
  BY <1>2, <1>3 DEF Tracks

\* Entering a state in which the scheduler works needs nothing.
LEMMA NotifyBusy ==
  ASSUME NEW s \in Schedulers, NEW st \in SchedulerState \ {"idle", "idle_paused"}, NEW p
  PROVE  Announced(Notify(s, st), p)
  BY NotifyTracks, NotifyState DEF Announced, Emptied, Quiet

LEMMA NotifyIdle ==
  ASSUME NEW s \in Schedulers, NEW p,
         s.active = {}, s.navint = {}, s.nav = NoTask, s.queue = <<>>
  PROVE  Announced(Notify(s, "idle"), p)
<1>1. Tracks(Notify(s, "idle"), p)
  BY NotifyTracks DEF SchedulerState
<1>2. Emptied(Notify(s, "idle"))
  BY DEF Emptied, Quiet, Notify, Enter, Schedulers, NoSegment
<1>. QED
  BY <1>1, <1>2 DEF Announced

LEMMA SteadyBusy ==
  ASSUME NEW r, NEW s, NEW p, Steady(r, s), Tracks(s, p),
         s.state \notin {"idle", "idle_paused"}
  PROVE  Announced(r, p)
  BY DEF Steady, Announced, Tracks, Emptied, Quiet

LEMMA ClearQueuesFrame ==
  ASSUME NEW s \in Schedulers, NEW keepNav
  PROVE  LET r == ClearQueues(s, keepNav)
         IN /\ Steady(r, s) /\ r.active = s.active /\ r.navint = s.navint
            /\ r.nav = s.nav /\ r.segment = s.segment
            /\ (~keepNav => r.queue = <<>>)
  BY DEF ClearQueues, Steady, Schedulers

LEMMA MoveActionsFrame ==
  ASSUME NEW s \in Schedulers, NEW S, NEW t
  PROVE  LET r == MoveActions(s, S, t)
         IN /\ Steady(r, s) /\ r.active = s.active /\ r.navint = s.navint
            /\ r.nav = s.nav /\ r.segment = s.segment /\ r.queue = s.queue
  BY DEF MoveActions, Steady, Schedulers

-------------------------------------------------------------------------------

LEMMA UpdateTasksSettled ==
  ASSUME NEW s \in Schedulers
  PROVE  LET r == UpdateTasks(s) IN Steady(r, s) /\ r.nav \notin NavTerminal
<1>. DEFINE live    == {a \in s.running \cup s.paused : s.task[a] \notin ActionTerminal}
            resting == {a \in live : s.task[a] \in ActionPaused}
            moved   == [s EXCEPT !.running = live \ resting,
                                 !.paused  = resting,
                                 !.active  = {a \in @ : s.task[a] \notin ActionTerminal}]
            cleared == IF s.nav = "Failed" THEN ClearQueues(moved, FALSE) ELSE moved
            dropped == [cleared EXCEPT !.nav = NoTask, !.goal = 0]
<1>1. moved \in Schedulers /\ Steady(moved, s) /\ moved.nav = s.nav
  <2>1. /\ live \ resting \in SUBSET Action /\ resting \in SUBSET Action
        /\ {a \in s.active : s.task[a] \notin ActionTerminal} \in SUBSET Action
    BY DEF Schedulers
  <2>. HIDE DEF live, resting
  <2>2. moved \in Schedulers
    BY <2>1 DEF Schedulers
  <2>3. Steady(moved, s) /\ moved.nav = s.nav
    BY DEF Schedulers, Steady
  <2>. QED
    BY <2>2, <2>3
<1>. HIDE DEF moved
<1>2. cleared \in Schedulers /\ Steady(cleared, s)
  <2>. DEFINE c == ClearQueues(moved, FALSE)
  <2>1. c \in Schedulers
    BY <1>1, ClearQueuesType
  <2>2. Steady(c, moved)
    BY <1>1, ClearQueuesFrame
  <2>. HIDE DEF c
  <2>3. Steady(c, s)
    BY <1>1, <2>2 DEF Steady
  <2>. QED
    BY <1>1, <2>1, <2>3 DEF c
<1>. HIDE DEF cleared
<1>3. Steady(dropped, s) /\ dropped.nav = NoTask
  BY <1>2 DEF Schedulers, Steady
<1>4. UpdateTasks(s) = IF s.nav \in NavTerminal THEN dropped ELSE moved
  BY DEF UpdateTasks, moved, cleared
<1>5. NoTask \notin NavTerminal
  BY DEF NoTask, NavTerminal
<1>. HIDE DEF dropped
<1>. QED
  BY <1>1, <1>3, <1>4, <1>5

LEMMA RefreshSettled ==
  ASSUME NEW O, NEW W, NEW s, Weak(s, O, W)
  PROVE  Steady(Refresh(s), s) /\ Refreshed(Refresh(s))
<1>. DEFINE u    == UpdateTasks(s)
            rest == {a \in u.navint : u.task[a] \notin ActionTerminal}
            s1   == [u EXCEPT !.navint = rest]
<1>1. s \in Schedulers /\ Sound(u, O, W) /\ u \in Schedulers
  BY UpdateTasksSound DEF Weak, Sound
<1>2. Steady(u, s) /\ u.nav \notin NavTerminal
  BY <1>1, UpdateTasksSettled
<1>3. rest \subseteq u.active
  BY <1>1 DEF Sound, Weak, Maps
<1>4. Refresh(s) = IF rest # u.navint /\ rest = {} /\ u.nav # NoTask
                   THEN MoveNav(s1, "do_resume", 0) ELSE s1
  BY DEF Refresh, UpdateInterruptMapping
<1>. HIDE DEF u
<1>5. /\ s1 \in Schedulers /\ s1.navint = rest /\ s1.active = u.active
      /\ s1.nav = u.nav /\ Steady(s1, u)
  BY <1>1 DEF Schedulers, Steady
<1>. HIDE DEF rest, s1
<1>6. MoveNav(s1, "do_resume", 0).nav \notin NavTerminal
  BY <1>2, <1>5
     DEF MoveNav, Throw, Schedulers, NavTarget, NavTransition, NavReport, NavTerminal
<1>. QED
  BY <1>2, <1>3, <1>4, <1>5, <1>6, MoveNavFrame DEF Steady, Refreshed

\* Fetching leaves nothing in the queue unless it started something.
LEMMA FetchOneQuiet ==
  ASSUME NEW s \in Schedulers
  PROVE  LET r == FetchOne(s)
         IN /\ Steady(r, s) /\ r.navint = s.navint
            /\ (s.nav \notin NavTerminal => r.nav \notin NavTerminal)
            /\ r.active = {} /\ r.nav = NoTask => s.active = {} /\ s.nav = NoTask
            /\ s.active = {} /\ s.nav = NoTask /\ s.navint = {}
                 => \/ s.queue = <<>> /\ r = s
                    \/ r.active # {} \/ r.nav # NoTask
<1>. DEFINE r == FetchOne(s)
<1>1. CASE s.queue = <<>>
  BY <1>1 DEF FetchOne, Steady
<1>2. CASE s.queue # <<>> /\ ~IsStep(Head(s.queue)) /\ MayFetchGroup(s)
  <2>. DEFINE G == Head(s.queue).actions
              started == StartGroup(s, G, Head(s.queue).ceiling)
  <2>1. G \in SUBSET Action /\ G # {} /\ Head(s.queue).ceiling \in BlockingType
    BY <1>2, QueueType, YieldCases DEF Group
  <2>2. r = [started EXCEPT !.segment = NoSegment, !.queue = Tail(@)]
    BY <1>2 DEF FetchOne, FetchGroup
  <2>3. started \in Schedulers
    BY <2>1, StartGroupType
  <2>4. /\ Steady(started, s) /\ started.active = s.active \cup G
        /\ started.navint = s.navint /\ started.nav = s.nav
    <3>. HIDE DEF G
    <3>. QED
      BY DEF StartGroup, Schedulers, Steady
  <2>. HIDE DEF G, started, r
  <2>5. /\ Steady(r, s) /\ r.active = s.active \cup G
        /\ r.navint = s.navint /\ r.nav = s.nav
    BY <2>2, <2>3, <2>4 DEF Schedulers, Steady
  <2>6. r.active # {}
    BY <2>1, <2>5
  <2>. QED
    BY <2>5, <2>6 DEF r
<1>3. CASE s.queue # <<>> /\ IsStep(Head(s.queue)) /\ s.nav = NoTask /\ MayFetchStep(s)
  <2>1. r = FetchStep(s)
    BY <1>3 DEF FetchOne
  <2>2. /\ Steady(r, s) /\ r.navint = s.navint /\ r.active = s.active
        /\ r.nav = NavTarget["do_start"]
    <3>. HIDE DEF r
    <3>. QED
      BY <2>1 DEF FetchStep, Schedulers, Steady
  <2>3. NavTarget["do_start"] \notin NavTerminal \cup {NoTask}
    BY DEF NavTarget, NavTransition, NavReport, NavTerminal, NoTask
  <2>. HIDE DEF r
  <2>. QED
    BY <2>2, <2>3 DEF r
<1>4. CASE s.queue # <<>> /\ IsStep(Head(s.queue)) /\ s.nav # NoTask
  <2>1. r = PatchSegment(s)
    BY <1>4 DEF FetchOne
  <2>2. /\ Steady(r, s) /\ r.navint = s.navint /\ r.active = s.active /\ r.nav = s.nav
    <3>. HIDE DEF r
    <3>. QED
      BY <2>1 DEF PatchSegment, Schedulers, Steady
  <2>. HIDE DEF r
  <2>. QED
    BY <1>4, <2>2 DEF r
<1>5. CASE /\ s.queue # <<>>
           /\ \/ ~IsStep(Head(s.queue)) /\ ~MayFetchGroup(s)
              \/ IsStep(Head(s.queue)) /\ s.nav = NoTask /\ ~MayFetchStep(s)
  <2>1. r = s
    BY <1>5 DEF FetchOne
  <2>2. s.active # {} \/ s.nav # NoTask \/ s.navint # {}
    BY <1>5 DEF MayFetchGroup, MayFetchStep
  <2>. QED
    BY <2>1, <2>2 DEF Steady
<1>. QED
  BY <1>1, <1>2, <1>3, <1>4, <1>5

LEMMA FetchNextQuiet ==
  ASSUME NEW s \in Schedulers
  PROVE  LET r == FetchNext(s)
         IN /\ Steady(r, s)
            /\ (s.nav \notin NavTerminal => r.nav \notin NavTerminal)
            /\ r.active = {} /\ r.nav = NoTask
                 => /\ s.active = {} /\ s.nav = NoTask
                    /\ s.navint = {} => s.queue = <<>> /\ r = s
<1>. DEFINE s1 == FetchOne(s)
            s2 == FetchOne(s1)
            s3 == FetchOne(s2)
<1>1. s1 \in Schedulers
  BY FetchOneType
<1>2. s2 \in Schedulers
  BY <1>1, FetchOneType
<1>3. FetchNext(s) = s3
  BY DEF FetchNext
<1>4. /\ Steady(s1, s) /\ s1.navint = s.navint
      /\ (s.nav \notin NavTerminal => s1.nav \notin NavTerminal)
      /\ s1.active = {} /\ s1.nav = NoTask => s.active = {} /\ s.nav = NoTask
      /\ s.active = {} /\ s.nav = NoTask /\ s.navint = {}
           => (s.queue = <<>> /\ s1 = s) \/ s1.active # {} \/ s1.nav # NoTask
  BY FetchOneQuiet
<1>5. /\ Steady(s2, s1) /\ s2.navint = s1.navint
      /\ (s1.nav \notin NavTerminal => s2.nav \notin NavTerminal)
      /\ s2.active = {} /\ s2.nav = NoTask => s1.active = {} /\ s1.nav = NoTask
      /\ s1.active = {} /\ s1.nav = NoTask /\ s1.navint = {}
           => (s1.queue = <<>> /\ s2 = s1) \/ s2.active # {} \/ s2.nav # NoTask
  BY <1>1, FetchOneQuiet
<1>6. /\ Steady(s3, s2)
      /\ (s2.nav \notin NavTerminal => s3.nav \notin NavTerminal)
      /\ s3.active = {} /\ s3.nav = NoTask => s2.active = {} /\ s2.nav = NoTask
      /\ s2.active = {} /\ s2.nav = NoTask /\ s2.navint = {}
           => (s2.queue = <<>> /\ s3 = s2) \/ s3.active # {} \/ s3.nav # NoTask
  BY <1>2, FetchOneQuiet
<1>. HIDE DEF s1, s2, s3
<1>. QED
  BY <1>3, <1>4, <1>5, <1>6 DEF Steady

\* One round of update() in a state in which the scheduler works: it stops only
\* when nothing is left.
LEMMA RoundStatus ==
  ASSUME NEW O, NEW W, NEW s, Weak(s, O, W), NEW p, Tracks(s, p),
         s.state \notin {"idle", "idle_paused"}
  PROVE  LET s1 == Refresh(s)
             s2 == FetchNext(s1)
         IN /\ Announced(s1, p) /\ Announced(s2, p)
            /\ s2.active = {} /\ s2.nav \in NavTerminal \cup {NoTask}
                 => Announced(Notify(s2, "idle"), p)
<1>. DEFINE s1 == Refresh(s)
            s2 == FetchNext(s1)
<1>1. s1 \in Schedulers /\ Steady(s1, s) /\ Refreshed(s1)
  BY RefreshType, RefreshSettled DEF Weak
<1>2. s2 \in Schedulers /\ Steady(s2, s1)
  BY <1>1, FetchNextType, FetchNextQuiet
<1>3. Steady(s2, s)
  BY <1>1, <1>2 DEF Steady
<1>4. Announced(s1, p) /\ Announced(s2, p)
  BY <1>1, <1>3, SteadyBusy
<1>5. ASSUME s2.active = {}, s2.nav \in NavTerminal \cup {NoTask}
      PROVE  Announced(Notify(s2, "idle"), p)
  <2>1. s2.nav = NoTask
    BY <1>1, <1>5, FetchNextQuiet DEF Refreshed
  <2>2. s1.active = {} /\ s1.nav = NoTask
    BY <1>1, <1>5, <2>1, FetchNextQuiet
  <2>3. s1.navint = {}
    BY <1>1, <2>2 DEF Refreshed
  <2>4. s1.queue = <<>> /\ s2 = s1
    BY <1>1, <1>5, <2>1, <2>3, FetchNextQuiet
  <2>. HIDE DEF s1, s2
  <2>. QED
    BY <1>1, <2>2, <2>3, <2>4, NotifyIdle
<1>. QED
  BY <1>4, <1>5

LEMMA UpdateActiveStatus ==
  ASSUME NEW O, NEW W, NEW s, Weak(s, O, W), NEW p, Tracks(s, p),
         s.state \notin {"idle", "idle_paused"}
  PROVE  Announced(UpdateActive(s), p)
  BY RoundStatus DEF UpdateActive

LEMMA UpdateIdleStatus ==
  ASSUME NEW s \in Schedulers, NEW p, s.state = "idle", Quiet(s), Tracks(s, p)
  PROVE  Announced(UpdateIdle(s), p)
<1>. DEFINE s1 == FetchNext(s)
<1>1. s1 \in Schedulers /\ Steady(s1, s)
  BY FetchNextType, FetchNextQuiet
<1>2. CASE s1.nav # NoTask \/ s1.active # {}
  BY <1>1, <1>2, NotifyBusy DEF UpdateIdle, SchedulerState
<1>3. CASE s1.nav = NoTask /\ s1.active = {}
  <2>1. s1 = s /\ s.queue = <<>>
    BY <1>3, FetchNextQuiet DEF Quiet
  <2>2. UpdateIdle(s) = Enter(s, "idle")
    BY <1>3, <2>1 DEF UpdateIdle
  <2>. QED
    BY <2>1, <2>2 DEF Enter, Schedulers, Announced, Emptied, Quiet, Tracks
<1>. QED
  BY <1>2, <1>3

LEMMA FetchInterruptFrame ==
  ASSUME NEW s \in Schedulers PROVE Steady(FetchInterrupt(s), s)
<1>. DEFINE G == Head(s.intr)
            started == StartGroup(s, G, Ceiling(G))
            r == FetchInterrupt(s)
<1>1. SUFFICES ASSUME MayFetchInterrupt(s) PROVE Steady(r, s)
  BY DEF FetchInterrupt, Steady
<1>2. G \in SUBSET Action
  BY <1>1 DEF MayFetchInterrupt, Schedulers
<1>3. started \in Schedulers
  BY <1>2, CeilingType, StartGroupType
<1>. HIDE DEF G
<1>4. Steady(started, s)
  BY DEF StartGroup, Schedulers, Steady
<1>5. r = [started EXCEPT !.navint = @ \cup {a \in G : BlockingOf[a] # "NONE"},
                          !.intr   = Tail(@)]
  BY <1>1 DEF FetchInterrupt, G
<1>. HIDE DEF started, r
<1>6. Steady(r, started)
  BY <1>3, <1>5 DEF Schedulers, Steady
<1>. QED
  BY <1>4, <1>6 DEF Steady

LEMMA UpdateStatus ==
  ASSUME NEW O, NEW W, NEW s, Weak(s, O, W), NEW p, Quiet(s), Tracks(s, p)
  PROVE  Announced(Update(s), p)
<1>1. s \in Schedulers /\ s.state \in SchedulerState
  BY StateType DEF Weak
<1>2. CASE s.state = "idle"
  BY <1>1, <1>2, UpdateIdleStatus DEF Update
<1>3. CASE s.state = "idle_paused"
  BY <1>3 DEF Update, Announced, Emptied
<1>4. CASE s.state \in {"active", "canceling", "paused"}
  BY <1>4, UpdateActiveStatus, RoundStatus DEF Update, UpdateCanceling
<1>5. CASE s.state \in {"resuming", "pausing"}
  <2>. DEFINE s1 == Refresh(s)
  <2>1. Sound(s1, O, W) /\ s1 \in Schedulers /\ Announced(s1, p)
    BY <1>5, RefreshSound, RoundStatus DEF Sound, Weak
  <2>. HIDE DEF s1
  <2>. DEFINE s2 == Notify(s1, "active")
  <2>2. Sound(s2, O, W) /\ s2.state = "active" /\ Tracks(s2, p)
    BY <2>1, NotifySound, NotifyState, NotifyTracks DEF SchedulerState
  <2>. HIDE DEF s2
  <2>3. Announced(UpdateActive(s2), p)
    BY <2>2, UpdateActiveStatus, SoundIsWeak
  <2>4. Announced(Notify(s1, "paused"), p)
    BY <2>1, NotifyBusy DEF SchedulerState
  <2>. QED
    BY <1>5, <2>1, <2>3, <2>4 DEF Update, UpdateResuming, UpdatePausing, s1, s2
<1>6. CASE s.state = "interrupting"
  <2>. DEFINE s1 == UpdateTasks(s)
              s2 == FetchInterrupt(s1)
  <2>1. s1 \in Schedulers /\ Steady(s1, s)
    BY <1>1, UpdateTasksType, UpdateTasksSettled
  <2>. HIDE DEF s1
  <2>2. s2 \in Schedulers /\ Steady(s2, s1)
    BY <2>1, FetchInterruptType, FetchInterruptFrame
  <2>3. Announced(s2, p)
    BY <1>6, <2>1, <2>2, SteadyBusy DEF Steady
  <2>. HIDE DEF s2
  <2>4. Announced(Notify(s2, "active"), p)
    BY <2>2, NotifyBusy DEF SchedulerState
  <2>. QED
    BY <1>6, <2>3, <2>4 DEF Update, UpdateInterrupting, s1, s2
<1>. QED
  BY <1>1, <1>2, <1>3, <1>4, <1>5, <1>6 DEF SchedulerState

-------------------------------------------------------------------------------
(* The control operations *)

LEMMA BeginStatus ==
  ASSUME NEW s \in Schedulers, Emptied(s)
  PROVE  Announced(Begin(s), s.state) /\ ~Begin(s).thrown
  BY DEF Begin, Schedulers, Announced, Emptied, Quiet, Tracks

LEMMA ThrowStatus ==
  ASSUME NEW s \in Schedulers, NEW p, Announced(s, p) PROVE Announced(Throw(s), p)
  BY DEF Throw, Schedulers, Announced, Emptied, Quiet, Tracks

LEMMA CancelActiveStatus ==
  ASSUME NEW s \in Schedulers, NEW p, Tracks(s, p), s.state \notin {"idle", "idle_paused"}
  PROVE  Announced(CancelActive(s), p)
<1>. DEFINE s1 == MoveActions(s, s.active, "do_cancel")
            s2 == IF s.nav \in NavPaused \cup NavTerminal \cup {NoTask} THEN s1
                  ELSE MoveNav(s1, "do_cancel", 0)
<1>1. s1 \in Schedulers /\ Steady(s1, s)
  BY MoveActionsType, MoveActionsFrame DEF ActionTransition
<1>2. s2 \in Schedulers /\ Steady(s2, s)
  BY <1>1, MoveNavType, MoveNavFrame DEF NavTransition, Steady
<1>3. Announced(s1, p) /\ Announced(s2, p)
  BY <1>1, <1>2, SteadyBusy
<1>. HIDE DEF s2
<1>4. Announced(Notify(ClearQueues(s2, TRUE), "canceling"), p)
  BY <1>2, ClearQueuesType, NotifyBusy DEF SchedulerState
<1>. QED
  BY <1>3, <1>4 DEF CancelActive, s2

\* cancel() in idle passes through canceling without publishing it, which is right
\* because update() finds nothing to cancel and publishes idle.
LEMMA CancelIdleStatus ==
  ASSUME NEW s \in Schedulers, NEW p, Emptied(s), s.state = "idle", ~s.thrown,
         NEW O, NEW W, Weak(s, O, W)
  PROVE  Announced(Cancel(s), p)
<1>. DEFINE s0 == Enter(s, "canceling")
            s1 == Refresh(s0)
<1>1. /\ s0 \in Schedulers /\ s0.state = "canceling" /\ s0.active = {} /\ s0.navint = {}
      /\ s0.nav = NoTask /\ s0.queue = <<>> /\ ~s0.thrown
  <2>1. s0 \in Schedulers
    BY EnterType DEF SchedulerState
  <2>2. /\ s0.state = "canceling" /\ s0.active = s.active /\ s0.navint = s.navint
        /\ s0.nav = s.nav /\ s0.queue = s.queue /\ s0.thrown = s.thrown
    BY DEF Enter, Schedulers
  <2>. HIDE DEF s0
  <2>. QED
    BY <2>1, <2>2 DEF Emptied, Quiet
<1>. HIDE DEF s0
<1>2. /\ UpdateTasks(s0) \in Schedulers /\ UpdateTasks(s0).active = {}
      /\ UpdateTasks(s0).navint = {} /\ UpdateTasks(s0).nav = NoTask
      /\ UpdateTasks(s0).queue = <<>> /\ ~UpdateTasks(s0).thrown
  <2>. DEFINE live    == {a \in s0.running \cup s0.paused : s0.task[a] \notin ActionTerminal}
              resting == {a \in live : s0.task[a] \in ActionPaused}
              moved   == [s0 EXCEPT !.running = live \ resting,
                                    !.paused  = resting,
                                    !.active  = {a \in @ : s0.task[a] \notin ActionTerminal}]
  <2>1. UpdateTasks(s0) \in Schedulers
    BY <1>1, UpdateTasksType
  <2>2. s0.nav \notin NavTerminal
    BY <1>1 DEF NoTask, NavTerminal
  <2>3. UpdateTasks(s0) = moved
    BY <2>2 DEF UpdateTasks
  <2>4. /\ moved.active = {a \in s0.active : s0.task[a] \notin ActionTerminal}
        /\ moved.navint = s0.navint /\ moved.nav = s0.nav
        /\ moved.queue = s0.queue /\ moved.thrown = s0.thrown
    <3>. HIDE DEF live, resting
    <3>. QED
      BY <1>1 DEF Schedulers
  <2>. HIDE DEF moved
  <2>. QED
    BY <1>1, <2>1, <2>3, <2>4
<1>3. /\ s1 \in Schedulers /\ s1.active = {} /\ s1.navint = {} /\ s1.nav = NoTask
      /\ s1.queue = <<>> /\ ~s1.thrown
  <2>. DEFINE u == UpdateTasks(s0)
  <2>1. s1 = [u EXCEPT !.navint = {a \in u.navint : u.task[a] \notin ActionTerminal}]
    BY <1>2 DEF Refresh, UpdateInterruptMapping
  <2>. HIDE DEF u, s1
  <2>. QED
    BY <1>1, <1>2, <2>1, RefreshType DEF Schedulers, u, s1
<1>. HIDE DEF s1
<1>4. FetchNext(s1) = s1
  BY <1>3 DEF FetchNext, FetchOne
<1>5. Update(s0) = Notify(s1, "idle")
  BY <1>1, <1>3, <1>4 DEF Update, UpdateCanceling, s1
<1>. QED
  BY <1>3, <1>5, NotifyIdle DEF Cancel, s0

LEMMA CancelStatus ==
  ASSUME NEW O, NEW W, NEW s, Weak(s, O, W), NEW p, Announced(s, p), ~s.thrown
  PROVE  Announced(Cancel(s), p)
<1>1. s \in Schedulers /\ s.state \in SchedulerState
  BY StateType DEF Weak
<1>2. CASE s.state = "idle"
  BY <1>1, <1>2, CancelIdleStatus DEF Announced
<1>3. CASE s.state = "idle_paused"
  <2>. DEFINE r == ClearQueues(s, FALSE)
  <2>1. /\ Steady(r, s) /\ r.active = s.active /\ r.navint = s.navint
        /\ r.nav = s.nav /\ r.segment = s.segment
    BY <1>1, ClearQueuesFrame
  <2>2. Cancel(s) = r
    BY <1>3 DEF Cancel
  <2>. HIDE DEF r
  <2>. QED
    BY <1>3, <2>1, <2>2, SteadyTracks DEF Announced, Emptied, Quiet, Steady
<1>4. CASE s.state \in {"active", "paused"}
  BY <1>1, <1>4, CancelActiveStatus DEF Cancel, Announced
<1>5. CASE s.state \in SchedulerState \ {"idle", "idle_paused", "active", "paused"}
  BY <1>1, <1>5, ThrowStatus DEF Cancel
<1>. QED
  BY <1>1, <1>2, <1>3, <1>4, <1>5

LEMMA PauseStatus ==
  ASSUME NEW s \in Schedulers, NEW p, Announced(s, p)
  PROVE  Announced(Pause(s), p)
<1>1. CASE s.state = "idle"
  <2>1. Tracks(Notify(s, "idle_paused"), p)
    BY NotifyTracks DEF SchedulerState
  <2>2. Emptied(Notify(s, "idle_paused"))
    BY <1>1 DEF Notify, Enter, Schedulers, Announced, Emptied, Quiet
  <2>. QED
    BY <1>1, <2>1, <2>2 DEF Pause, Announced
<1>2. CASE s.state = "active"
  <2>. DEFINE s1 == MoveActions(s, s.running, "do_pause")
              s2 == IF s.nav = NoTask THEN s1 ELSE MoveNav(s1, "do_pause", 0)
  <2>1. s1 \in Schedulers /\ Steady(s1, s)
    BY MoveActionsType, MoveActionsFrame DEF ActionTransition
  <2>2. s2 \in Schedulers /\ Steady(s2, s)
    BY <2>1, MoveNavType, MoveNavFrame DEF NavTransition, Steady
  <2>3. Announced(s1, p) /\ Announced(s2, p)
    BY <1>2, <2>1, <2>2, SteadyBusy DEF Announced
  <2>. HIDE DEF s2
  <2>4. Announced(Notify(s2, "pausing"), p)
    BY <2>2, NotifyBusy DEF SchedulerState
  <2>. QED
    BY <1>2, <2>3, <2>4 DEF Pause, PauseActive, s2
<1>3. CASE s.state \notin {"idle", "active"}
  BY <1>3, ThrowStatus DEF Pause
<1>. QED
  BY <1>1, <1>2, <1>3

LEMMA ResumePausedStatus ==
  ASSUME NEW O, NEW W, NEW s, Sound(s, O, W), NEW p, Tracks(s, p), s.state = "paused"
  PROVE  Announced(ResumePaused(s), p)
<1>. DEFINE s1 == MoveActions(s, s.paused, "do_resume")
            s2 == IF s.nav = NoTask THEN s1 ELSE MoveNav(s1, "do_resume", 0)
            s3 == Notify(s2, "resuming")
<1>0. s \in Schedulers
  BY DEF Sound, Weak
<1>1. Sound(s1, O, W) /\ Steady(s1, s) /\ s1 \in Schedulers
  BY <1>0, SubMaps, MoveActionsSound, MoveActionsFrame DEF Sound, Weak
<1>. HIDE DEF s1
<1>2. Sound(s2, O, W) /\ Steady(s2, s) /\ s2 \in Schedulers
  <2>1. Sound(s2, O, W)
    BY <1>1, MoveNavSound DEF NavTransition
  <2>2. Steady(s2, s)
    BY <1>1, MoveNavFrame DEF Steady
  <2>. QED
    BY <2>1, <2>2 DEF Sound, Weak
<1>3. Announced(s1, p) /\ Announced(s2, p)
  BY <1>1, <1>2, SteadyBusy
<1>. HIDE DEF s2
<1>4. Sound(s3, O, W) /\ Announced(s3, p)
  BY <1>2, NotifySound, NotifyBusy DEF SchedulerState
<1>. HIDE DEF s3
<1>5. Announced(Update(s3), p)
  BY <1>4, UpdateStatus, SoundIsWeak DEF Announced, Emptied
<1>. QED
  BY <1>3, <1>5 DEF ResumePaused, s1, s2, s3

LEMMA ResumeStatus ==
  ASSUME NEW O, NEW W, NEW s, Sound(s, O, W), NEW p, Announced(s, p)
  PROVE  Announced(Resume(s), p)
<1>1. s \in Schedulers
  BY DEF Sound, Weak
<1>2. CASE s.state = "idle_paused"
  <2>. DEFINE woken == Notify(s, "idle")
  <2>1. Sound(woken, O, W) /\ Tracks(woken, p)
    BY <1>1, NotifySound, NotifyTracks DEF SchedulerState
  <2>2. Quiet(woken)
    BY <1>1, <1>2 DEF Notify, Enter, Schedulers, Announced, Emptied, Quiet, NoSegment
  <2>. HIDE DEF woken
  <2>3. Announced(Update(woken), p)
    BY <2>1, <2>2, UpdateStatus, SoundIsWeak
  <2>. QED
    BY <1>2, <2>3 DEF Resume, woken
<1>3. CASE s.state = "paused"
  BY <1>3, ResumePausedStatus DEF Resume, Announced
<1>4. CASE s.state \notin {"idle_paused", "paused"}
  BY <1>1, <1>4, ThrowStatus DEF Resume
<1>. QED
  BY <1>2, <1>3, <1>4

LEMMA InterruptStatus ==
  ASSUME NEW O, NEW W, NEW s, Sound(s, O, W), NEW p, Announced(s, p),
         NEW G \in SUBSET W, G # {}
  PROVE  Announced(Interrupt(s, G), p)
<1>. DEFINE s1 == [s EXCEPT !.intr = Append(@, G)]
            s2 == DoInterrupt(s1)
            s3 == Notify(s2, "interrupting")
<1>0. s \in Schedulers
  BY DEF Sound, Weak
<1>1. Sound(s1, O, W \ G) /\ s1 \in Schedulers /\ Announced(s1, p) /\ s1.state = s.state
  <2>1. Sound(s1, O, W \ G)
    BY QueueInterruptSound
  <2>2. /\ s1.state = s.state /\ s1.notes = s.notes /\ s1.active = s.active
        /\ s1.navint = s.navint /\ s1.nav = s.nav /\ s1.segment = s.segment
        /\ s1.queue = s.queue
    BY <1>0 DEF Schedulers
  <2>. HIDE DEF s1
  <2>. QED
    BY <2>1, <2>2 DEF Sound, Weak, Announced, Emptied, Quiet, Tracks
<1>. HIDE DEF s1
<1>2. Sound(s2, O, W \ G) /\ s2 \in Schedulers
  BY <1>1, DoInterruptSound DEF Sound, Weak
<1>3. /\ Steady(s2, s1) /\ s2.active = s1.active /\ s2.navint = s1.navint
      /\ s2.segment = s1.segment /\ s2.queue = s1.queue
      /\ (s1.nav = NoTask => s2.nav = NoTask)
  <2>. DEFINE ceiling == Ceiling(Head(s1.intr))
              u == IF ceiling # "NONE" /\ s1.nav # NoTask
                   THEN MoveNav(s1, "do_pause", 0) ELSE s1
              ousted == {a \in s1.active : ceiling = "HARD" \/ BlockingOf[a] = "HARD"}
  <2>1. /\ u \in Schedulers /\ Steady(u, s1) /\ u.active = s1.active
        /\ u.navint = s1.navint /\ u.segment = s1.segment /\ u.queue = s1.queue
        /\ (s1.nav = NoTask => u.nav = NoTask)
    BY <1>1, MoveNavType, MoveNavFrame DEF NavTransition, Steady
  <2>2. s2 = IF s1.intr = <<>> THEN s1 ELSE IF u.thrown THEN u
             ELSE MoveActions(u, ousted, "do_cancel")
    BY DEF DoInterrupt
  <2>. HIDE DEF u, s2
  <2>. QED
    BY <2>1, <2>2, MoveActionsFrame DEF Steady
<1>. HIDE DEF s2
<1>4. Announced(s2, p)
  BY <1>1, <1>3 DEF Steady, Announced, Emptied, Quiet, Tracks
<1>5. Sound(s3, O, W \ G) /\ Announced(s3, p)
  BY <1>2, NotifySound, NotifyBusy DEF SchedulerState
<1>. HIDE DEF s3
<1>6. Announced(Update(s3), p)
  BY <1>5, UpdateStatus, SoundIsWeak DEF Announced, Emptied
<1>7. Announced(Throw(s1), p)
  BY <1>1, ThrowStatus
<1>. QED
  BY <1>4, <1>6, <1>7 DEF Interrupt, s1, s2, s3

-------------------------------------------------------------------------------
(* The reports of the AGV and the events of the interpreter *)

LEMMA ReportActionStatus ==
  ASSUME NEW O, NEW W, NEW s, Sound(s, O, W), NEW p, Announced(s, p),
         NEW a \in Action, NEW t \in ActionReport
  PROVE  Announced(ReportAction(s, a, t), p)
<1>. DEFINE r == [s EXCEPT !.task[a] = ActionTarget[t]]
<1>1. s \in Schedulers
  BY DEF Sound, Weak
<1>2. CASE a \in s.active
  <2>1. Weak(r, O, W)
    BY <1>2, ReportedWeak
  <2>2. Quiet(r) /\ Tracks(r, p)
    BY <1>1 DEF Announced, Emptied, Quiet, Tracks, Schedulers
  <2>. HIDE DEF r
  <2>3. Announced(Update(r), p)
    BY <2>1, <2>2, UpdateStatus
  <2>. QED
    BY <1>1, <2>3, ThrowStatus DEF ReportAction, r
<1>3. CASE a \notin s.active
  BY <1>1, <1>3, ThrowStatus DEF ReportAction
<1>. QED
  BY <1>2, <1>3

LEMMA ReportNavStatus ==
  ASSUME NEW O, NEW W, NEW s, Sound(s, O, W), NEW p, Announced(s, p),
         NEW t \in NavTransition, NEW g
  PROVE  Announced(ReportNav(s, t, g), p)
<1>. DEFINE s1 == MoveNav(s, t, g)
<1>1. s \in Schedulers
  BY DEF Sound, Weak
<1>2. CASE s.nav = NoTask
  BY <1>1, <1>2, ThrowStatus DEF ReportNav
<1>3. CASE s.nav # NoTask
  <2>1. Sound(s1, O, W) /\ Steady(s1, s)
    BY <1>1, MoveNavSound, MoveNavFrame DEF Steady
  <2>2. s.state \notin {"idle", "idle_paused"}
    BY <1>3 DEF Announced, Emptied, Quiet
  <2>3. Announced(s1, p)
    BY <2>1, <2>2, SteadyBusy DEF Announced
  <2>. HIDE DEF s1
  <2>4. Announced(Update(s1), p)
    BY <2>1, <2>3, UpdateStatus, SoundIsWeak DEF Announced, Emptied
  <2>. QED
    BY <1>3, <2>3, <2>4 DEF ReportNav, s1
<1>. QED
  BY <1>2, <1>3

LEMMA ReachUnrecordedStatus ==
  ASSUME NEW s \in Schedulers, NEW p, Announced(s, p), s.nav # NoTask, NEW g
  PROVE  Announced(ReachUnrecorded(s, g), p)
<1>. DEFINE s1 == MoveNav(s, "to_seq_id", g)
<1>1. s1 \in Schedulers /\ Steady(s1, s)
  BY MoveNavType, MoveNavFrame DEF NavTransition, NavReport, Steady
<1>2. s.state \notin {"idle", "idle_paused"}
  BY DEF Announced, Emptied, Quiet
<1>3. Announced(s1, p)
  BY <1>1, <1>2, SteadyBusy DEF Announced
<1>. HIDE DEF s1
<1>. QED
  BY <1>1, <1>3, ThrowStatus DEF ReachUnrecorded, s1

LEMMA EnqueueStatus ==
  ASSUME NEW s \in Schedulers, NEW p, Announced(s, p), NEW e
  PROVE  Announced(Enqueue(s, e), p)
  BY DEF Enqueue, Schedulers, Announced, Emptied, Quiet, Tracks

LEMMA CommitQueueStatus ==
  ASSUME NEW O, NEW W, NEW s, Sound(s, O, W), NEW p, Announced(s, p)
  PROVE  Announced(CommitQueue(s), p)
<1>. DEFINE r == [s EXCEPT !.queue = @ \o s.staging, !.staging = <<>>]
<1>1. Weak(r, O, W)
  BY CommittedWeak
<1>2. Quiet(r) /\ Tracks(r, p)
  BY DEF Sound, Weak, Announced, Emptied, Quiet, Tracks, Schedulers
<1>. HIDE DEF r
<1>3. Announced(Update(r), p)
  BY <1>1, <1>2, UpdateStatus
<1>. QED
  BY <1>3 DEF CommitQueue, r

-------------------------------------------------------------------------------
(* Queues whose elements come in the order of the orders *)

Elems(q) == {q[i] : i \in DOMAIN q}

Ordered(q) == \A i, j \in DOMAIN q : i < j => Before(q[i], q[j])

Precede(S, T) == \A e \in S, f \in T : Before(e, f)

LEMMA EmptyOrdered == Ordered(<<>>) /\ Elems(<<>>) = {}
  BY DEF Ordered, Elems

LEMMA TailOrdered ==
  ASSUME NEW S, NEW q \in Seq(S), q # <<>>, Ordered(q)
  PROVE  /\ Head(q) \in Elems(q) /\ Elems(Tail(q)) \subseteq Elems(q)
         /\ Ordered(Tail(q)) /\ Precede({Head(q)}, Elems(Tail(q)))
<1>. DEFINE t == Tail(q)
<1>1. /\ 1 \in DOMAIN q /\ Head(q) = q[1]
      /\ \A i \in DOMAIN t : i \in Nat /\ 1 < i + 1 /\ i + 1 \in DOMAIN q /\ t[i] = q[i + 1]
  OBVIOUS
<1>. HIDE DEF t
<1>2. Elems(t) \subseteq Elems(q)
  BY <1>1 DEF Elems
<1>3. Ordered(t)
  <2>. SUFFICES ASSUME NEW i \in DOMAIN t, NEW j \in DOMAIN t, i < j PROVE Before(t[i], t[j])
    BY DEF Ordered
  <2>1. i + 1 < j + 1
    BY <1>1
  <2>. QED
    BY <1>1, <2>1 DEF Ordered
<1>4. Precede({Head(q)}, Elems(t))
  BY <1>1 DEF Precede, Elems, Ordered
<1>. QED
  BY <1>1, <1>2, <1>3, <1>4 DEF t, Elems

LEMMA ConcatOrdered ==
  ASSUME NEW S, NEW p \in Seq(S), NEW q \in Seq(S), Ordered(p), Ordered(q),
         Precede(Elems(p), Elems(q))
  PROVE  Ordered(p \o q) /\ Elems(p \o q) = Elems(p) \cup Elems(q)
<1>. DEFINE r == p \o q
<1>1. /\ \A i \in DOMAIN r : \/ i \in DOMAIN p /\ r[i] = p[i]
                             \/ i - Len(p) \in DOMAIN q /\ r[i] = q[i - Len(p)]
      /\ \A i \in DOMAIN p : i \in DOMAIN r /\ r[i] = p[i]
      /\ \A i \in DOMAIN q : i + Len(p) \in DOMAIN r /\ r[i + Len(p)] = q[i]
      /\ \A i \in DOMAIN r : i \in Nat
      /\ \A i \in DOMAIN p : i <= Len(p)
      /\ \A i \in DOMAIN q : i \in Nat /\ 0 < i
      /\ Len(p) \in Nat
  OBVIOUS
<1>. HIDE DEF r
<1>2. Elems(r) = Elems(p) \cup Elems(q)
  BY <1>1 DEF Elems
<1>3. Ordered(r)
  <2>. SUFFICES ASSUME NEW i \in DOMAIN r, NEW j \in DOMAIN r, i < j PROVE Before(r[i], r[j])
    BY DEF Ordered
  <2>1. CASE i \in DOMAIN p /\ r[i] = p[i] /\ j \in DOMAIN p /\ r[j] = p[j]
    BY <2>1 DEF Ordered
  <2>2. CASE i \in DOMAIN p /\ r[i] = p[i] /\ j - Len(p) \in DOMAIN q /\ r[j] = q[j - Len(p)]
    BY <2>2 DEF Precede, Elems
  <2>3. CASE i - Len(p) \in DOMAIN q /\ r[i] = q[i - Len(p)] /\ j - Len(p) \in DOMAIN q
             /\ r[j] = q[j - Len(p)]
    <3>1. i - Len(p) < j - Len(p)
      BY <1>1
    <3>. QED
      BY <2>3, <3>1 DEF Ordered
  <2>4. ~(i - Len(p) \in DOMAIN q /\ j \in DOMAIN p)
    BY <1>1
  <2>. QED
    BY <1>1, <2>1, <2>2, <2>3, <2>4
<1>. QED
  BY <1>2, <1>3 DEF r

LEMMA AppendOrdered ==
  ASSUME NEW S, NEW q \in Seq(S), NEW e \in S, Ordered(q), Precede(Elems(q), {e})
  PROVE  Ordered(Append(q, e)) /\ Elems(Append(q, e)) = Elems(q) \cup {e}
<1>. DEFINE p == <<e>>
<1>1. p \in Seq(S) /\ Append(q, e) = q \o p
  OBVIOUS
<1>2. Elems(p) = {e} /\ Ordered(p)
  BY DEF Elems, Ordered
<1>. HIDE DEF p
<1>3. Precede(Elems(q), Elems(p))
  BY <1>2
<1>4. Ordered(q \o p) /\ Elems(q \o p) = Elems(q) \cup Elems(p)
  BY <1>1, <1>2, <1>3, ConcatOrdered
<1>. QED
  BY <1>1, <1>2, <1>4

\* Choosing elements keeps them in order.
LEMMA ChosenOrdered ==
  ASSUME NEW S, NEW q \in Seq(S), NEW I, Ordered(q)
  PROVE  Ordered(Chosen(q, I)) /\ Elems(Chosen(q, I)) \subseteq Elems(q)
<1>. DEFINE N == Len(q)
<1>1. PICK upto : Chosen(q, I) = upto[N] /\ Chooses(upto, q, I)
  BY ChosenSteps
<1>. DEFINE Good(n) == /\ upto[n] \in Seq(S) /\ Ordered(upto[n])
                       /\ \A e \in Elems(upto[n]) : \E j \in 1..n : e = q[j]
            T == {n \in Nat : n <= N => Good(n)}
<1>2. 0 \in T
  BY <1>1, EmptyOrdered, EmptySeqType DEF Chooses
<1>3. ASSUME NEW n \in T PROVE n + 1 \in T
  <2>1. SUFFICES ASSUME n + 1 <= N PROVE Good(n + 1)
    <3>. HIDE DEF Good
    <3>. QED
      OBVIOUS
  <2>2. Good(n) /\ q[n + 1] \in S /\ n + 1 \in DOMAIN q /\ n + 1 \in 1..(n + 1)
    BY <2>1
  <2>3. \A j \in 1..n : j \in DOMAIN q /\ j < n + 1 /\ j \in 1..(n + 1)
    BY <2>1
  <2>4. CASE n + 1 \in I
    <3>1. upto[n + 1] = Append(upto[n], q[n + 1])
      BY <1>1, <2>1, <2>4 DEF Chooses
    <3>2. Precede(Elems(upto[n]), {q[n + 1]})
      BY <2>2, <2>3 DEF Precede, Ordered
    <3>3. /\ Ordered(Append(upto[n], q[n + 1]))
          /\ Elems(Append(upto[n], q[n + 1])) = Elems(upto[n]) \cup {q[n + 1]}
      BY <2>2, <3>2, AppendOrdered
    <3>4. Append(upto[n], q[n + 1]) \in Seq(S)
      BY <2>2, AppendType
    <3>. QED
      BY <2>2, <2>3, <3>1, <3>3, <3>4
  <2>5. CASE n + 1 \notin I
    <3>1. upto[n + 1] = upto[n]
      BY <1>1, <2>1, <2>5 DEF Chooses
    <3>. QED
      BY <2>2, <2>3, <3>1
  <2>. QED
    BY <2>4, <2>5
<1>4. T = Nat
  <2>1. T \in SUBSET Nat
    OBVIOUS
  <2>. HIDE DEF T
  <2>. QED
    BY <1>2, <1>3, <2>1, NatSetInduction
<1>5. N \in Nat /\ \A j \in 1..N : j \in DOMAIN q
  OBVIOUS
<1>6. Good(N)
  <2>. HIDE DEF Good
  <2>. QED
    BY <1>4, <1>5
<1>7. \A e \in Elems(upto[N]) : e \in Elems(q)
  BY <1>5, <1>6 DEF Elems
<1>8. Ordered(upto[N])
  BY <1>6
<1>. HIDE DEF Good, T
<1>. QED
  BY <1>1, <1>7, <1>8

\* A segment ends at a step of the queue, and not behind a stop.
LEMMA SegmentBound ==
  ASSUME NEW q \in Seq(Yield), Ordered(q), NEW e
  PROVE  \/ SegmentEnd(q, e) = e /\ \A g \in Elems(q) : ~IsStep(g)
         \/ \E f \in Elems(q) :
              /\ IsStep(f) /\ SegmentEnd(q, e) = f.goal
              /\ \A g \in Elems(q) : IsStep(g) /\ g.stop => f.goal <= g.goal
<1>. DEFINE steps == {i \in DOMAIN q : IsStep(q[i])}
            free  == FreeSteps(q)
            last  == CHOOSE i \in free : \A j \in free : j <= i
<1>1. /\ Len(q) \in Nat /\ DOMAIN q = 1..Len(q)
      /\ free \in SUBSET (1..Len(q)) /\ free \subseteq steps
      /\ \A i \in steps : i \in free \/ \E j \in steps : j < i /\ q[j].stop
  BY DEF FreeSteps
<1>2. \A i \in steps : \E j \in free : j <= i
  <2>. SUFFICES ASSUME NEW i \in steps PROVE \E j \in free : j <= i
    OBVIOUS
  <2>. DEFINE below == {k \in steps : k <= i}
  <2>1. below \in SUBSET Nat /\ below # {}
    BY <1>1
  <2>2. PICK j \in below : \A k \in below : j <= k
    <3>. HIDE DEF below
    <3>. QED
      BY <2>1, LeastNatural
  <2>3. j \in free
    BY <1>1, <2>2
  <2>. QED
    BY <2>2, <2>3
<1>3. CASE free = {}
  <2>1. SegmentEnd(q, e) = e
    BY <1>3 DEF SegmentEnd
  <2>2. steps = {}
    BY <1>2, <1>3
  <2>. QED
    BY <2>1, <2>2 DEF Elems
<1>4. CASE free # {}
  <2>1. last \in free /\ \A j \in free : j <= last
    <3>1. \E i \in free : \A j \in free : j <= i
      <4>. HIDE DEF free
      <4>. QED
        BY <1>1, <1>4, LargestIndex
    <3>. HIDE DEF free
    <3>. QED
      BY <3>1
  <2>2. SegmentEnd(q, e) = q[last].goal
    BY <1>4 DEF SegmentEnd
  <2>3. last \in DOMAIN q /\ IsStep(q[last])
    BY <1>1, <2>1
  <2>. HIDE DEF last
  <2>4. ASSUME NEW i \in steps, q[i].stop PROVE q[last].goal <= q[i].goal
    <3>1. ~(i < last)
      BY <1>1, <2>1, <2>3, <2>4 DEF FreeSteps
    <3>2. q[i] \in NavStep /\ q[last] \in NavStep
      BY <2>3, YieldCases
    <3>3. i = last \/ q[last].goal < q[i].goal
      BY <1>1, <2>3, <3>1 DEF Ordered, Before
    <3>. QED
      BY <3>2, <3>3 DEF NavStep
  <2>. QED
    BY <2>2, <2>3, <2>4 DEF Elems
<1>. QED
  BY <1>3, <1>4
-------------------------------------------------------------------------------
(* The yields still to come.  A stands for the actions in progress when the     *)
(* call began, and R for the yields the scheduler does not have yet.            *)

Later(s, R) == Elems(s.queue) \cup Elems(s.staging) \cup R

\* No action comes again, and the steps lie behind the segment, those without a stop
\* that are committed excepted.
Lined(s, A, O, R) ==
  /\ R \subseteq YieldOf(O)
  /\ Ordered(s.queue) /\ Ordered(s.staging)
  /\ Precede(Elems(s.queue), Elems(s.staging) \cup R) /\ Precede(Elems(s.staging), R)
  /\ \A e \in Later(s, R) :
       ~IsStep(e) => e.actions \cap (A \cup s.active) = {} /\ Covered(e)
  /\ s.segment # NoSegment =>
       /\ \A e \in Elems(s.staging) \cup R : IsStep(e) => s.segment < e.goal
       /\ \A e \in Elems(s.queue) : IsStep(e) /\ e.stop => s.segment <= e.goal

\* From s to r nothing was added to a map, a queue or the segment.
Leaves(s, r) ==
  /\ Ordered(s.queue) => Ordered(r.queue) /\ Elems(r.queue) \subseteq Elems(s.queue)
  /\ r.staging = s.staging
  /\ r.active \subseteq s.active /\ r.segment \in {s.segment, NoSegment}
  /\ s.nav = NoTask => r.nav = NoTask

LEMMA LeavesLined ==
  ASSUME NEW s, NEW r, NEW A, NEW O, NEW R, Lined(s, A, O, R), Leaves(s, r)
  PROVE  Lined(r, A, O, R)
  BY DEF Lined, Leaves, Later, Precede

LEMMA LeavesTransitive ==
  ASSUME NEW s, NEW r, NEW u, Leaves(s, r), Leaves(r, u) PROVE Leaves(s, u)
  BY DEF Leaves

\* Only what is to come changes.
LEMMA SmallerLined ==
  ASSUME NEW s, NEW A, NEW B \in SUBSET (A \cup s.active), NEW O, NEW R, NEW P \in SUBSET R,
         Lined(s, A, O, R)
  PROVE  Lined(s, B, O, P)
  BY DEF Lined, Later, Precede

LEMMA ThrowLeaves == ASSUME NEW s \in Schedulers PROVE Leaves(s, Throw(s))
  BY DEF Throw, Leaves, Schedulers

LEMMA BeginLeaves == ASSUME NEW s \in Schedulers PROVE Leaves(s, Begin(s))
  BY DEF Begin, Leaves, Schedulers

LEMMA EnterLeaves == ASSUME NEW s \in Schedulers, NEW st PROVE Leaves(s, Enter(s, st))
  BY DEF Enter, Leaves, Schedulers

LEMMA NotifyLeaves == ASSUME NEW s \in Schedulers, NEW st PROVE Leaves(s, Notify(s, st))
  BY DEF Notify, Enter, Leaves, Schedulers

LEMMA MoveNavLeaves ==
  ASSUME NEW s \in Schedulers, NEW t, NEW g, s.nav # NoTask PROVE Leaves(s, MoveNav(s, t, g))
  BY DEF MoveNav, Throw, Leaves, Schedulers

LEMMA MoveActionsLeaves ==
  ASSUME NEW s \in Schedulers, NEW S, NEW t PROVE Leaves(s, MoveActions(s, S, t))
  BY DEF MoveActions, Leaves, Schedulers

LEMMA ClearQueuesLeaves ==
  ASSUME NEW s \in Schedulers, NEW keepNav \in BOOLEAN PROVE Leaves(s, ClearQueues(s, keepNav))
<1>. DEFINE r == ClearQueues(s, keepNav)
<1>1. /\ r.active = s.active /\ r.staging = s.staging /\ r.segment = s.segment /\ r.nav = s.nav
      /\ r.queue = IF keepNav THEN Chosen(s.queue, FreeSteps(s.queue)) ELSE <<>>
  BY DEF ClearQueues, Schedulers
<1>2. s.queue \in Seq(Yield)
  BY DEF Schedulers
<1>. HIDE DEF r
<1>3. Ordered(s.queue) => Ordered(r.queue) /\ Elems(r.queue) \subseteq Elems(s.queue)
  <2>1. CASE keepNav
    BY <1>1, <1>2, <2>1, ChosenOrdered
  <2>2. CASE ~keepNav
    BY <1>1, <2>2, EmptyOrdered
  <2>. QED
    BY <2>1, <2>2
<1>4. Leaves(s, r)
  BY <1>1, <1>3 DEF Leaves
<1>. QED
  BY <1>4 DEF r

LEMMA UpdateTasksLeaves ==
  ASSUME NEW s \in Schedulers
  PROVE  /\ Leaves(s, UpdateTasks(s)) /\ UpdateTasks(s).state = s.state
         /\ UpdateTasks(s).intr \in {s.intr, <<>>}
<1>. DEFINE live    == {a \in s.running \cup s.paused : s.task[a] \notin ActionTerminal}
            resting == {a \in live : s.task[a] \in ActionPaused}
            moved   == [s EXCEPT !.running = live \ resting,
                                 !.paused  = resting,
                                 !.active  = {a \in @ : s.task[a] \notin ActionTerminal}]
            cleared == IF s.nav = "Failed" THEN ClearQueues(moved, FALSE) ELSE moved
            dropped == [cleared EXCEPT !.nav = NoTask, !.goal = 0]
<1>1. Leaves(s, moved) /\ moved \in Schedulers /\ moved.state = s.state /\ moved.intr = s.intr
  BY DEF Leaves, Schedulers
<1>. HIDE DEF moved
<1>2. /\ Leaves(moved, cleared) /\ cleared \in Schedulers /\ cleared.state = s.state
      /\ cleared.intr \in {s.intr, <<>>}
  <2>1. /\ ClearQueues(moved, FALSE) \in Schedulers /\ Leaves(moved, ClearQueues(moved, FALSE))
        /\ ClearQueues(moved, FALSE).state = moved.state
        /\ ClearQueues(moved, FALSE).intr = <<>>
    BY <1>1, ClearQueuesType, ClearQueuesLeaves DEF ClearQueues, Schedulers
  <2>2. Leaves(moved, moved)
    BY DEF Leaves
  <2>. QED
    BY <1>1, <2>1, <2>2
<1>. HIDE DEF cleared
<1>3. /\ Leaves(cleared, dropped) /\ dropped.state = cleared.state
      /\ dropped.intr = cleared.intr
  BY <1>2 DEF Leaves, Schedulers
<1>4. UpdateTasks(s) = IF s.nav \in NavTerminal THEN dropped ELSE moved
  BY DEF UpdateTasks, moved, cleared
<1>. HIDE DEF dropped
<1>5. Leaves(s, dropped)
  BY <1>1, <1>2, <1>3, LeavesTransitive
<1>. QED
  BY <1>1, <1>2, <1>3, <1>4, <1>5

LEMMA RefreshLeaves ==
  ASSUME NEW s \in Schedulers
  PROVE  Leaves(s, Refresh(s)) /\ Refresh(s).state = s.state
<1>. DEFINE u    == UpdateTasks(s)
            rest == {a \in u.navint : u.task[a] \notin ActionTerminal}
            s1   == [u EXCEPT !.navint = rest]
            r    == MoveNav(s1, "do_resume", 0)
<1>1. u \in Schedulers /\ Leaves(s, u) /\ u.state = s.state
  BY UpdateTasksType, UpdateTasksLeaves
<1>2. Refresh(s) = IF rest # u.navint /\ rest = {} /\ u.nav # NoTask THEN r ELSE s1
  BY DEF Refresh, UpdateInterruptMapping
<1>. HIDE DEF u
<1>3. s1 \in Schedulers /\ Leaves(u, s1) /\ s1.state = u.state /\ s1.nav = u.nav
  BY <1>1 DEF Leaves, Schedulers
<1>. HIDE DEF s1
<1>4. ASSUME u.nav # NoTask PROVE Leaves(s1, r) /\ r.state = s1.state
  BY <1>3, <1>4, MoveNavLeaves, MoveNavFrame
<1>. HIDE DEF r
<1>. QED
  BY <1>1, <1>2, <1>3, <1>4, LeavesTransitive
-------------------------------------------------------------------------------
(* Activating the front of the queue *)

\* From u to r at most one group was started, in an empty map and with the AGV standing
\* where its ceiling asks for it, and r is still lined.
Opened(u, r, A, O, R) ==
  /\ r \in Schedulers /\ Lined(r, A, O, R) /\ r.state = u.state
  /\ \/ r.active = u.active
     \/ /\ u.active = {} /\ r.active \cap A = {}
        /\ (\E a \in r.active : BlockingOf[a] # "NONE") => r.nav = NoTask /\ r.btype # "NONE"

LEMMA FetchGroupOpens ==
  ASSUME NEW A, NEW O, NEW R, NEW s \in Schedulers, Lined(s, A, O, R),
         s.queue # <<>>, ~IsStep(Head(s.queue)), MayFetchGroup(s)
  PROVE  Opened(s, FetchGroup(s), A, O, R)
<1>. DEFINE e == Head(s.queue)
            started == StartGroup(s, e.actions, e.ceiling)
            r == FetchGroup(s)
<1>1. e \in Group /\ s.queue \in Seq(Yield) /\ Tail(s.queue) \in Seq(Yield)
  BY QueueType, YieldCases DEF Schedulers
<1>2. /\ e \in Elems(s.queue) /\ Elems(Tail(s.queue)) \subseteq Elems(s.queue)
      /\ Ordered(Tail(s.queue)) /\ Precede({e}, Elems(Tail(s.queue)))
  BY <1>1, TailOrdered DEF Lined
<1>3. r \in Schedulers
  BY FetchGroupType
<1>4. /\ r.active = e.actions /\ r.queue = Tail(s.queue) /\ r.staging = s.staging
      /\ r.segment = NoSegment /\ r.btype = e.ceiling /\ r.nav = s.nav /\ r.state = s.state
  <2>1. /\ started \in Schedulers /\ started.active = s.active \cup e.actions
        /\ started.queue = s.queue /\ started.staging = s.staging /\ started.btype = e.ceiling
        /\ started.nav = s.nav /\ started.state = s.state
    <3>1. e.actions \in SUBSET Action /\ e.ceiling \in BlockingType
      BY <1>1 DEF Group
    <3>2. started \in Schedulers
      BY <3>1, StartGroupType
    <3>. HIDE DEF e
    <3>. QED
      BY <3>2 DEF StartGroup, Schedulers
  <2>2. r = [started EXCEPT !.segment = NoSegment, !.queue = Tail(@)]
    BY DEF FetchGroup
  <2>3. s.active = {}
    BY DEF MayFetchGroup
  <2>. HIDE DEF started, r, e
  <2>. QED
    BY <2>1, <2>2, <2>3 DEF Schedulers
<1>. HIDE DEF e, r, started
<1>5. e.actions \cap A = {} /\ Covered(e) /\ s.active = {} /\ ~IsStep(e)
  BY <1>2 DEF Lined, Later, MayFetchGroup, e
<1>6. \A f \in Elems(r.queue) \cup Elems(s.staging) \cup R : Before(e, f)
  BY <1>2, <1>4 DEF Lined, Precede
<1>7. Lined(r, A, O, R)
  <2>1. \A f \in Later(r, R) : ~IsStep(f) => f.actions \cap (A \cup r.active) = {} /\ Covered(f)
    BY <1>2, <1>4, <1>5, <1>6 DEF Lined, Later, Before
  <2>2. /\ Precede(Elems(r.queue), Elems(r.staging) \cup R) /\ Precede(Elems(r.staging), R)
        /\ Ordered(r.queue) /\ Ordered(r.staging) /\ R \subseteq YieldOf(O)
    BY <1>2, <1>4 DEF Lined, Precede
  <2>. QED
    BY <1>4, <2>1, <2>2 DEF Lined
<1>8. (\E a \in r.active : BlockingOf[a] # "NONE") => r.nav = NoTask /\ r.btype # "NONE"
  BY <1>4, <1>5 DEF Covered, MayFetchGroup, e
<1>. QED
  BY <1>3, <1>4, <1>5, <1>7, <1>8 DEF Opened, r

\* The new end of the segment lies behind all stops of the queue and before all that
\* is still to come.
LEMMA NewSegment ==
  ASSUME NEW A, NEW O, NEW R, NEW s \in Schedulers, Lined(s, A, O, R), NEW d,
         s.segment = d \/ \E f \in Elems(s.queue) : IsStep(f)
  PROVE  LET g == SegmentEnd(s.queue, d)
         IN g # NoSegment =>
              /\ \A e \in Elems(s.staging) \cup R : IsStep(e) => g < e.goal
              /\ \A e \in Elems(s.queue) : IsStep(e) /\ e.stop => g <= e.goal
<1>. DEFINE g == SegmentEnd(s.queue, d)
<1>1. s.queue \in Seq(Yield) /\ Ordered(s.queue)
  BY DEF Schedulers, Lined
<1>2. CASE g = d /\ \A f \in Elems(s.queue) : ~IsStep(f)
  BY <1>2 DEF Lined
<1>3. ASSUME NEW f \in Elems(s.queue), IsStep(f), g = f.goal,
             \A e \in Elems(s.queue) : IsStep(e) /\ e.stop => f.goal <= e.goal
      PROVE  /\ \A e \in Elems(s.staging) \cup R : IsStep(e) => g < e.goal
             /\ \A e \in Elems(s.queue) : IsStep(e) /\ e.stop => g <= e.goal
  BY <1>3 DEF Lined, Precede, Before
<1>. HIDE DEF g
<1>4. \/ g = d /\ \A f \in Elems(s.queue) : ~IsStep(f)
      \/ \E f \in Elems(s.queue) : /\ IsStep(f) /\ g = f.goal
            /\ \A e \in Elems(s.queue) : IsStep(e) /\ e.stop => f.goal <= e.goal
  BY <1>1, SegmentBound DEF g
<1>. QED
  BY <1>2, <1>3, <1>4 DEF g

LEMMA PatchSegmentOpens ==
  ASSUME NEW A, NEW O, NEW R, NEW s \in Schedulers, Lined(s, A, O, R)
  PROVE  LET r == PatchSegment(s)
         IN Opened(s, r, A, O, R) /\ r.active = s.active /\ r.nav = s.nav /\ r.btype = s.btype
<1>. DEFINE r == PatchSegment(s)
            g == SegmentEnd(s.queue, s.segment)
<1>1. r \in Schedulers
  BY PatchSegmentType
<1>2. /\ r.active = s.active /\ r.queue = s.queue /\ r.staging = s.staging /\ r.state = s.state
      /\ r.nav = s.nav /\ r.btype = s.btype
      /\ r.segment = IF s.segment = NoSegment THEN NoSegment ELSE g
  BY DEF PatchSegment, Schedulers
<1>3. g # NoSegment =>
        /\ \A e \in Elems(s.staging) \cup R : IsStep(e) => g < e.goal
        /\ \A e \in Elems(s.queue) : IsStep(e) /\ e.stop => g <= e.goal
  BY NewSegment
<1>. HIDE DEF r, g
<1>4. Lined(r, A, O, R)
  BY <1>2, <1>3 DEF Lined, Later
<1>. QED
  BY <1>1, <1>2, <1>4 DEF Opened, r

LEMMA FetchStepOpens ==
  ASSUME NEW A, NEW O, NEW R, NEW s \in Schedulers, Lined(s, A, O, R),
         s.queue # <<>>, IsStep(Head(s.queue))
  PROVE  /\ Opened(s, FetchStep(s), A, O, R)
         /\ FetchStep(s).active = s.active /\ FetchStep(s).btype = s.btype
<1>. DEFINE e == Head(s.queue)
            g == SegmentEnd(s.queue, e.goal)
            r == FetchStep(s)
<1>1. e \in NavStep /\ s.queue \in Seq(Yield) /\ Tail(s.queue) \in Seq(Yield)
  BY QueueType, YieldCases DEF Schedulers
<1>2. /\ e \in Elems(s.queue) /\ Elems(Tail(s.queue)) \subseteq Elems(s.queue)
      /\ Ordered(Tail(s.queue))
  BY <1>1, TailOrdered DEF Lined
<1>3. r \in Schedulers
  BY FetchStepType
<1>4. /\ r.active = s.active /\ r.queue = Tail(s.queue) /\ r.staging = s.staging
      /\ r.btype = s.btype /\ r.state = s.state /\ r.segment \in {s.segment, g}
  BY DEF FetchStep, Schedulers
<1>5. g # NoSegment =>
        /\ \A f \in Elems(s.staging) \cup R : IsStep(f) => g < f.goal
        /\ \A f \in Elems(s.queue) : IsStep(f) /\ f.stop => g <= f.goal
  BY <1>2, NewSegment
<1>. HIDE DEF e, g, r
<1>6. Lined(r, A, O, R)
  BY <1>2, <1>4, <1>5 DEF Lined, Later, Precede
<1>. QED
  BY <1>3, <1>4, <1>6 DEF Opened, r
LEMMA FetchOneOpens ==
  ASSUME NEW A, NEW O, NEW R, NEW u, NEW s, Opened(u, s, A, O, R)
  PROVE  Opened(u, FetchOne(s), A, O, R)
<1>1. s \in Schedulers /\ Lined(s, A, O, R)
  BY DEF Opened
<1>2. CASE s.queue = <<>>
  BY <1>2 DEF FetchOne
<1>3. CASE s.queue # <<>> /\ ~IsStep(Head(s.queue))
  <2>1. CASE MayFetchGroup(s)
    <3>1. Opened(s, FetchGroup(s), A, O, R)
      BY <1>1, <1>3, <2>1, FetchGroupOpens
    <3>2. s.active = {}
      BY <2>1 DEF MayFetchGroup
    <3>3. FetchOne(s) = FetchGroup(s)
      BY <1>3, <2>1 DEF FetchOne
    <3>4. Opened(u, FetchGroup(s), A, O, R)
      BY <3>1, <3>2 DEF Opened
    <3>. QED
      BY <3>3, <3>4
  <2>2. CASE ~MayFetchGroup(s)
    BY <1>3, <2>2 DEF FetchOne
  <2>. QED
    BY <2>1, <2>2
<1>4. CASE s.queue # <<>> /\ IsStep(Head(s.queue)) /\ s.nav # NoTask
  <2>1. FetchOne(s) = PatchSegment(s)
    BY <1>4 DEF FetchOne
  <2>2. LET r == PatchSegment(s)
        IN Opened(s, r, A, O, R) /\ r.active = s.active /\ r.nav = s.nav /\ r.btype = s.btype
    BY <1>1, PatchSegmentOpens
  <2>3. Opened(u, PatchSegment(s), A, O, R)
    BY <2>2 DEF Opened
  <2>. QED
    BY <2>1, <2>3
<1>5. CASE s.queue # <<>> /\ IsStep(Head(s.queue)) /\ s.nav = NoTask
  <2>1. CASE MayFetchStep(s)
    <3>1. /\ Opened(s, FetchStep(s), A, O, R)
          /\ FetchStep(s).active = s.active /\ FetchStep(s).btype = s.btype
      BY <1>1, <1>5, FetchStepOpens
    <3>2. s.active = {} \/ s.btype = "NONE"
      BY <2>1 DEF MayFetchStep
    <3>3. FetchOne(s) = FetchStep(s)
      BY <1>5, <2>1 DEF FetchOne
    <3>4. Opened(u, FetchStep(s), A, O, R)
      BY <3>1, <3>2 DEF Opened
    <3>. QED
      BY <3>3, <3>4
  <2>2. CASE ~MayFetchStep(s)
    BY <1>5, <2>2 DEF FetchOne
  <2>. QED
    BY <2>1, <2>2
<1>. QED
  BY <1>2, <1>3, <1>4, <1>5

LEMMA FetchNextOpens ==
  ASSUME NEW A, NEW O, NEW R, NEW s \in Schedulers, Lined(s, A, O, R)
  PROVE  Opened(s, FetchNext(s), A, O, R)
<1>1. Opened(s, s, A, O, R)
  BY DEF Opened
<1>. QED
  BY <1>1, FetchOneOpens DEF FetchNext

-------------------------------------------------------------------------------
(* What a call starts *)

Resting == {"pausing", "paused", "idle_paused"}

\* From s to r a HARD action starts alone, a SOFT or HARD one only while the AGV does not
\* drive, and nothing if r rests.
Starts(s, r) ==
  LET started == r.active \ s.active
  IN /\ started # {} /\ (\E a \in r.active : BlockingOf[a] = "HARD") => s.active \cap r.active = {}
     /\ (\E a \in started : BlockingOf[a] # "NONE") => r.nav \in NavPaused \cup {NoTask}
     /\ r.state \in Resting => started = {} /\ (s.nav = NoTask => r.nav = NoTask)

\* The call that began in s came to r, after which there is R to come.
Fine(s, r, O, R) == Starts(s, r) /\ Lined(r, {}, O, R)

LEMMA LeavesFine ==
  ASSUME NEW s, NEW r, NEW O, NEW R, Lined(s, s.active, O, R), Leaves(s, r)
  PROVE  Fine(s, r, O, R)
<1>1. Lined(r, s.active, O, R)
  BY LeavesLined
<1>2. Lined(r, {}, O, R)
  BY <1>1, SmallerLined
<1>3. Starts(s, r)
  BY DEF Starts, Leaves
<1>. QED
  BY <1>2, <1>3 DEF Fine

\* Entering a state at the end of the call.
LEMMA EnterFine ==
  ASSUME NEW s, NEW O, NEW R, NEW r \in Schedulers, Fine(s, r, O, R),
         NEW st \in SchedulerState \ Resting
  PROVE  Fine(s, Notify(r, st), O, R) /\ Fine(s, Enter(r, st), O, R)
<1>1. ASSUME NEW v, v.active = r.active, v.nav = r.nav, v.state = st, Leaves(r, v)
      PROVE  Fine(s, v, O, R)
  <2>1. Lined(v, {}, O, R)
    BY <1>1, LeavesLined DEF Fine
  <2>. QED
    BY <1>1, <2>1 DEF Fine, Starts
<1>2. /\ Notify(r, st).active = r.active /\ Notify(r, st).nav = r.nav
      /\ Notify(r, st).state = st
  BY DEF Notify, Enter, Schedulers
<1>3. /\ Enter(r, st).active = r.active /\ Enter(r, st).nav = r.nav /\ Enter(r, st).state = st
  BY DEF Enter, Schedulers
<1>. QED
  BY <1>1, <1>2, <1>3, EnterLeaves, NotifyLeaves

\* Fetching in a state the call has come to without starting anything.
LEMMA FetchFine ==
  ASSUME NEW s, NEW O, NEW R, NEW u \in Schedulers, Lined(s, s.active, O, R), Leaves(s, u),
         u.state \notin Resting
  PROVE  Fine(s, FetchNext(u), O, R)
<1>. DEFINE r == FetchNext(u)
<1>1. Opened(u, r, s.active, O, R)
  BY LeavesLined, FetchNextOpens
<1>. HIDE DEF r
<1>2. Lined(r, {}, O, R)
  BY <1>1, SmallerLined DEF Opened
<1>3. Starts(s, r)
  BY <1>1 DEF Opened, Starts, Leaves
<1>. QED
  BY <1>2, <1>3 DEF Fine, r

LEMMA UpdateActiveFine ==
  ASSUME NEW s, NEW O, NEW R, NEW u \in Schedulers, Lined(s, s.active, O, R), Leaves(s, u),
         u.state \notin Resting
  PROVE  /\ Fine(s, UpdateActive(u), O, R)
         /\ Fine(s, UpdateCanceling(u), O, R)
<1>. DEFINE s1 == Refresh(u)
<1>1. s1 \in Schedulers /\ Leaves(s, s1) /\ s1.state \notin Resting
  BY RefreshType, RefreshLeaves, LeavesTransitive
<1>. HIDE DEF s1
<1>2. Fine(s, s1, O, R)
  BY <1>1, LeavesFine
<1>3. Fine(s, FetchNext(s1), O, R) /\ Fine(s, Notify(FetchNext(s1), "idle"), O, R)
  BY <1>1, FetchFine, FetchNextType, EnterFine DEF SchedulerState, Resting
<1>. QED
  BY <1>2, <1>3 DEF UpdateActive, UpdateCanceling, s1
LEMMA FetchInterruptFine ==
  ASSUME NEW s, NEW O, NEW W, NEW R, NEW u, Sound(u, O, W), Lined(s, s.active, O, R),
         Leaves(s, u), u.state \notin Resting,
         \A k \in DOMAIN u.intr : u.intr[k] \cap s.active = {}
  PROVE  Fine(s, FetchInterrupt(u), O, R)
<1>. DEFINE G       == Head(u.intr)
            started == StartGroup(u, G, Ceiling(G))
            r       == FetchInterrupt(u)
<1>1. CASE ~MayFetchInterrupt(u)
  BY <1>1, LeavesFine DEF FetchInterrupt
<1>2. CASE MayFetchInterrupt(u)
  <2>1. /\ u \in Schedulers /\ u.intr # <<>> /\ u.intr \in Seq((SUBSET Action) \ {{}})
    BY <1>2 DEF MayFetchInterrupt, Sound, Weak, Schedulers
  <2>2. G \in SUBSET Action /\ 1 \in DOMAIN u.intr /\ G = u.intr[1]
    BY <2>1
  <2>3. /\ r.active = u.active \cup G /\ r.queue = u.queue /\ r.staging = u.staging
        /\ r.segment = u.segment /\ r.nav = u.nav /\ r.state = u.state
    <3>1. r = [started EXCEPT !.navint = @ \cup {a \in G : BlockingOf[a] # "NONE"},
                              !.intr   = Tail(@)]
      BY <1>2 DEF FetchInterrupt
    <3>2. started \in Schedulers
      BY <2>1, <2>2, CeilingType, StartGroupType
    <3>3. /\ started.active = u.active \cup G /\ started.queue = u.queue
          /\ started.staging = u.staging /\ started.segment = u.segment
          /\ started.nav = u.nav /\ started.state = u.state
      <4>. HIDE DEF G
      <4>. QED
        BY <2>1 DEF StartGroup, Schedulers
    <3>. HIDE DEF started, r, G
    <3>. QED
      BY <3>1, <3>2, <3>3 DEF Schedulers
  <2>4. G \cap O = {} /\ G \cap s.active = {}
    BY <2>2 DEF Sound, Weak, Fresh
  <2>5. /\ \A e \in Elems(u.queue) \cup Elems(u.staging) \cup R : ~IsStep(e) => e.actions \subseteq O
    <3>1. u.queue \in Seq(YieldOf(O)) /\ u.staging \in Seq(YieldOf(O)) /\ R \subseteq YieldOf(O)
      BY DEF Sound, Weak, Fresh, Lined
    <3>2. Elems(u.queue) \subseteq YieldOf(O) /\ Elems(u.staging) \subseteq YieldOf(O)
      BY <3>1 DEF Elems
    <3>. QED
      BY <3>1, <3>2 DEF YieldOf
  <2>6. /\ Ceiling(G) # "NONE" => u.nav \in NavPaused \cup {NoTask}
        /\ \A a \in u.active : Ceiling(G) # "HARD" /\ BlockingOf[a] # "HARD"
        /\ \A a \in G : BlockingOf[a] # "NONE" => Ceiling(G) # "NONE"
        /\ \A a \in G : BlockingOf[a] = "HARD" => Ceiling(G) = "HARD"
    <3>1. \A a \in G : BlockingOf[a] \in BlockingType
      BY <2>2, BlockingAssumption
    <3>2. /\ \A a \in G : BlockingOf[a] # "NONE" => Ceiling(G) # "NONE"
          /\ \A a \in G : BlockingOf[a] = "HARD" => Ceiling(G) = "HARD"
      <4>. HIDE DEF G
      <4>. QED
        BY <3>1 DEF Ceiling, BlockingType
    <3>. QED
      BY <1>2, <3>2 DEF MayFetchInterrupt
  <2>. HIDE DEF G, r, started
  <2>7. Lined(u, {}, O, R)
    BY LeavesLined, SmallerLined
  <2>8. Lined(r, {}, O, R)
    BY <2>3, <2>4, <2>5, <2>7 DEF Lined, Later
  <2>9. Starts(s, r)
    BY <2>3, <2>4, <2>6 DEF Starts, Leaves
  <2>. QED
    BY <2>8, <2>9 DEF Fine, r
<1>. QED
  BY <1>1, <1>2

\* Groups in the interrupt queue have not been started.
LEMMA InterruptsNotActive ==
  ASSUME NEW s, NEW O, NEW W, Weak(s, O, W)
  PROVE  \A k \in DOMAIN s.intr : s.intr[k] \cap s.active = {}
  BY DEF Weak, Maps, Fresh

\* update() at the end of a call that has started nothing yet.
LEMMA UpdateFine ==
  ASSUME NEW s, NEW O, NEW W, NEW R, NEW u, Weak(u, O, W), u.active = s.active,
         Lined(s, s.active, O, R), Leaves(s, u)
  PROVE  Fine(s, Update(u), O, R)
<1>. DEFINE s1 == Refresh(u)
<1>1. u \in Schedulers /\ u.state \in SchedulerState
  BY StateType DEF Weak
<1>2. /\ s1 \in Schedulers /\ Leaves(s, s1) /\ s1.state = u.state
  BY <1>1, RefreshType, RefreshLeaves, LeavesTransitive
<1>. HIDE DEF s1
<1>3. Fine(s, s1, O, R) /\ Fine(s, u, O, R)
  BY <1>2, LeavesFine
<1>4. ASSUME NEW st \in SchedulerState
      PROVE  /\ Notify(s1, st) \in Schedulers /\ Leaves(s, Notify(s1, st))
             /\ Notify(s1, st).state = st
  BY <1>2, NotifyType, NotifyLeaves, NotifyState, LeavesTransitive
<1>5. CASE u.state = "idle"
  BY <1>1, <1>5, FetchFine, FetchNextType, EnterFine
     DEF Update, UpdateIdle, SchedulerState, Resting
<1>6. CASE u.state = "idle_paused"
  BY <1>3, <1>6 DEF Update
<1>7. CASE u.state \in {"active", "canceling"}
  BY <1>1, <1>7, UpdateActiveFine DEF Update, Resting
<1>8. CASE u.state = "resuming"
  <2>1. Fine(s, UpdateActive(Notify(s1, "active")), O, R)
    BY <1>4, UpdateActiveFine DEF SchedulerState, Resting
  <2>. QED
    BY <1>3, <1>8, <2>1 DEF Update, UpdateResuming, s1
<1>9. CASE u.state = "pausing"
  <2>1. Fine(s, Notify(s1, "paused"), O, R)
    BY <1>4, LeavesFine DEF SchedulerState
  <2>. QED
    BY <1>3, <1>9, <2>1 DEF Update, UpdatePausing, s1
<1>10. CASE u.state = "paused"
  BY <1>3, <1>10 DEF Update, s1
<1>11. CASE u.state = "interrupting"
  <2>. DEFINE v == UpdateTasks(u)
  <2>1. Sound(v, O, W) /\ Leaves(s, v) /\ v.state = u.state /\ v.intr \in {u.intr, <<>>}
    BY <1>1, UpdateTasksSound, UpdateTasksLeaves, LeavesTransitive
  <2>. HIDE DEF v
  <2>2. \A k \in DOMAIN v.intr : v.intr[k] \cap s.active = {}
    BY <2>1, InterruptsNotActive
  <2>3. Fine(s, FetchInterrupt(v), O, R)
    BY <1>11, <2>1, <2>2, FetchInterruptFine DEF Resting
  <2>4. FetchInterrupt(v) \in Schedulers
    BY <2>1, FetchInterruptType DEF Sound, Weak
  <2>5. Fine(s, Notify(FetchInterrupt(v), "active"), O, R)
    BY <2>3, <2>4, EnterFine DEF SchedulerState, Resting
  <2>. QED
    BY <1>11, <2>3, <2>5 DEF Update, UpdateInterrupting, v
<1>. QED
  BY <1>1, <1>5, <1>6, <1>7, <1>8, <1>9, <1>10, <1>11 DEF SchedulerState
-------------------------------------------------------------------------------
(* The operations *)

\* What pause(), resume() and cancel() do to the tasks.
LEMMA MoveAllLeaves ==
  ASSUME NEW O, NEW W, NEW s, Sound(s, O, W), NEW S \in SUBSET s.active,
         NEW t \in {"do_pause", "do_resume", "do_cancel"}
  PROVE  LET s1 == MoveActions(s, S, t)
             s2 == IF s.nav = NoTask THEN s1 ELSE MoveNav(s1, t, 0)
         IN /\ Sound(s1, O, W) /\ Leaves(s, s1) /\ s1.active = s.active
            /\ Sound(s2, O, W) /\ Leaves(s, s2) /\ s2.active = s.active
<1>. DEFINE s1 == MoveActions(s, S, t)
            s2 == IF s.nav = NoTask THEN s1 ELSE MoveNav(s1, t, 0)
<1>1. s \in Schedulers
  BY DEF Sound, Weak
<1>2. Sound(s1, O, W) /\ Leaves(s, s1) /\ s1.active = s.active /\ s1.nav = s.nav
  BY <1>1, MoveActionsSound, MoveActionsLeaves, MoveActionsFrame
<1>. HIDE DEF s1
<1>3. s1 \in Schedulers
  BY <1>2 DEF Sound, Weak
<1>4. CASE s.nav = NoTask
  BY <1>2, <1>4 DEF s1
<1>5. CASE s.nav # NoTask
  <2>1. Leaves(s1, MoveNav(s1, t, 0)) /\ MoveNav(s1, t, 0).active = s1.active
    BY <1>2, <1>3, <1>5, MoveNavLeaves, MoveNavFrame
  <2>2. Sound(MoveNav(s1, t, 0), O, W)
    BY <1>2, MoveNavSound DEF NavTransition
  <2>. QED
    BY <1>2, <1>5, <2>1, <2>2, LeavesTransitive DEF s1
<1>. QED
  BY <1>4, <1>5

LEMMA CancelFine ==
  ASSUME NEW O, NEW W, NEW R, NEW s, Sound(s, O, W), Lined(s, s.active, O, R)
  PROVE  Fine(s, Cancel(s), O, R)
<1>1. s \in Schedulers /\ s.state \in SchedulerState
  BY StateType DEF Sound, Weak
<1>2. CASE s.state = "idle"
  <2>. DEFINE u == Enter(s, "canceling")
  <2>1. Weak(u, O, W) /\ Leaves(s, u) /\ u.active = s.active
    <3>1. u.active = s.active
      BY <1>1 DEF Enter, Schedulers
    <3>. QED
      BY <1>1, <3>1, EnterSound, SoundIsWeak, EnterLeaves DEF SchedulerState
  <2>. HIDE DEF u
  <2>2. Fine(s, Update(u), O, R)
    BY <2>1, UpdateFine
  <2>. QED
    BY <1>2, <2>2 DEF Cancel, u
<1>3. CASE s.state = "idle_paused"
  <2>1. Leaves(s, ClearQueues(s, FALSE))
    BY <1>1, ClearQueuesLeaves
  <2>. QED
    BY <1>3, <2>1, LeavesFine DEF Cancel
<1>4. CASE s.state \in {"active", "paused"}
  <2>. DEFINE s1 == MoveActions(s, s.active, "do_cancel")
              s3 == IF s.nav = NoTask THEN s1 ELSE MoveNav(s1, "do_cancel", 0)
              s2 == IF s.nav \in NavPaused \cup NavTerminal \cup {NoTask} THEN s1
                    ELSE MoveNav(s1, "do_cancel", 0)
  <2>1. Sound(s1, O, W) /\ Leaves(s, s1) /\ Sound(s3, O, W) /\ Leaves(s, s3)
    BY MoveAllLeaves
  <2>2. s2 \in {s1, s3}
    OBVIOUS
  <2>3. Cancel(s) = IF s1.thrown THEN s1 ELSE IF s2.thrown THEN s2
                    ELSE Notify(ClearQueues(s2, TRUE), "canceling")
    BY <1>4 DEF Cancel, CancelActive
  <2>. HIDE DEF s1, s2, s3
  <2>4. s2 \in Schedulers /\ Leaves(s, s2)
    BY <2>1, <2>2 DEF Sound, Weak
  <2>5. ClearQueues(s2, TRUE) \in Schedulers /\ Leaves(s, ClearQueues(s2, TRUE))
    BY <2>4, ClearQueuesType, ClearQueuesLeaves, LeavesTransitive
  <2>6. Leaves(s, Notify(ClearQueues(s2, TRUE), "canceling"))
    BY <2>5, NotifyLeaves, LeavesTransitive
  <2>. QED
    BY <2>1, <2>3, <2>4, <2>6, LeavesFine
<1>5. CASE s.state \notin {"idle", "idle_paused", "active", "paused"}
  <2>1. Leaves(s, Throw(s))
    BY <1>1, ThrowLeaves
  <2>. QED
    BY <1>1, <1>5, <2>1, LeavesFine DEF Cancel, SchedulerState
<1>. QED
  BY <1>2, <1>3, <1>4, <1>5

LEMMA PauseFine ==
  ASSUME NEW O, NEW W, NEW R, NEW s, Sound(s, O, W), Lined(s, s.active, O, R)
  PROVE  Fine(s, Pause(s), O, R)
<1>1. s \in Schedulers
  BY DEF Sound, Weak
<1>. DEFINE s1 == MoveActions(s, s.running, "do_pause")
            s2 == IF s.nav = NoTask THEN s1 ELSE MoveNav(s1, "do_pause", 0)
<1>2. Leaves(s, s1) /\ Sound(s2, O, W) /\ Leaves(s, s2)
  BY SubMaps, MoveAllLeaves
<1>3. PauseActive(s) = IF s1.thrown THEN s1 ELSE IF s2.thrown THEN s2 ELSE Notify(s2, "pausing")
  BY DEF PauseActive
<1>. HIDE DEF s1, s2
<1>4. s2 \in Schedulers
  BY <1>2 DEF Sound, Weak
<1>5. Leaves(s, Notify(s2, "pausing"))
  BY <1>2, <1>4, NotifyLeaves, LeavesTransitive
<1>6. Leaves(s, PauseActive(s)) /\ Leaves(s, Notify(s, "idle_paused")) /\ Leaves(s, Throw(s))
  BY <1>1, <1>2, <1>3, <1>5, NotifyLeaves, ThrowLeaves
<1>7. Pause(s) \in {PauseActive(s), Notify(s, "idle_paused"), Throw(s)}
  <2>1. s.state \in SchedulerState
    BY <1>1, StateType
  <2>. QED
    BY <2>1 DEF Pause, SchedulerState
<1>. QED
  BY <1>6, <1>7, LeavesFine

LEMMA ResumeFine ==
  ASSUME NEW O, NEW W, NEW R, NEW s, Sound(s, O, W), Lined(s, s.active, O, R)
  PROVE  Fine(s, Resume(s), O, R)
<1>1. s \in Schedulers /\ s.state \in SchedulerState
  BY StateType DEF Sound, Weak
<1>2. ASSUME NEW v, Sound(v, O, W), Leaves(s, v), v.active = s.active, NEW st \in SchedulerState
      PROVE  Fine(s, Update(Notify(v, st)), O, R)
  <2>1. v \in Schedulers
    BY <1>2 DEF Sound, Weak
  <2>2. Notify(v, st).active = s.active
    BY <1>2, <2>1 DEF Notify, Enter, Schedulers
  <2>3. Weak(Notify(v, st), O, W) /\ Leaves(s, Notify(v, st))
    BY <1>2, <2>1, NotifySound, SoundIsWeak, NotifyLeaves, LeavesTransitive
  <2>. QED
    BY <2>2, <2>3, UpdateFine
<1>3. CASE s.state = "idle_paused"
  <2>1. Leaves(s, s)
    BY DEF Leaves
  <2>. QED
    BY <1>2, <1>3, <2>1 DEF Resume, SchedulerState
<1>4. CASE s.state = "paused"
  <2>. DEFINE s1 == MoveActions(s, s.paused, "do_resume")
              s2 == IF s.nav = NoTask THEN s1 ELSE MoveNav(s1, "do_resume", 0)
  <2>1. Leaves(s, s1) /\ Sound(s2, O, W) /\ Leaves(s, s2) /\ s2.active = s.active
    BY SubMaps, MoveAllLeaves
  <2>2. Resume(s) = IF s1.thrown THEN s1 ELSE IF s2.thrown THEN s2
                    ELSE Update(Notify(s2, "resuming"))
    BY <1>4 DEF Resume, ResumePaused
  <2>. HIDE DEF s1, s2
  <2>. QED
    BY <1>2, <2>1, <2>2, LeavesFine DEF SchedulerState
<1>5. CASE s.state \notin {"idle_paused", "paused"}
  <2>1. Leaves(s, Throw(s))
    BY <1>1, ThrowLeaves
  <2>. QED
    BY <1>1, <1>5, <2>1, LeavesFine DEF Resume, SchedulerState
<1>. QED
  BY <1>3, <1>4, <1>5

LEMMA DoInterruptLeaves ==
  ASSUME NEW s \in Schedulers
  PROVE  Leaves(s, DoInterrupt(s)) /\ DoInterrupt(s).active = s.active
<1>. DEFINE ceiling == Ceiling(Head(s.intr))
            s1 == IF ceiling # "NONE" /\ s.nav # NoTask
                  THEN MoveNav(s, "do_pause", 0) ELSE s
            ousted == {a \in s.active : ceiling = "HARD" \/ BlockingOf[a] = "HARD"}
<1>1. s1 \in Schedulers /\ Leaves(s, s1) /\ s1.active = s.active
  <2>1. Leaves(s, s)
    BY DEF Leaves
  <2>2. CASE s.nav # NoTask
    BY <2>1, <2>2, MoveNavType, MoveNavLeaves, MoveNavFrame DEF NavTransition
  <2>. QED
    BY <2>1, <2>2
<1>2. DoInterrupt(s) = IF s.intr = <<>> THEN s ELSE IF s1.thrown THEN s1
                       ELSE MoveActions(s1, ousted, "do_cancel")
  BY DEF DoInterrupt
<1>. HIDE DEF s1, ousted
<1>3. /\ Leaves(s, MoveActions(s1, ousted, "do_cancel"))
      /\ MoveActions(s1, ousted, "do_cancel").active = s.active
  BY <1>1, MoveActionsLeaves, MoveActionsFrame, LeavesTransitive
<1>4. Leaves(s, s)
  BY DEF Leaves
<1>. QED
  BY <1>1, <1>2, <1>3, <1>4

LEMMA InterruptFine ==
  ASSUME NEW O, NEW W, NEW R, NEW s, Sound(s, O, W), NEW G \in SUBSET W, G # {},
         Lined(s, s.active, O, R)
  PROVE  Fine(s, Interrupt(s, G), O, R)
<1>. DEFINE s1 == [s EXCEPT !.intr = Append(@, G)]
            s2 == DoInterrupt(s1)
            s3 == Notify(s2, "interrupting")
<1>1. Sound(s1, O, W \ G) /\ Leaves(s, s1) /\ s1.active = s.active
  BY QueueInterruptSound DEF Leaves, Sound, Weak, Schedulers
<1>. HIDE DEF s1
<1>2. s1 \in Schedulers
  BY <1>1 DEF Sound, Weak
<1>3. Sound(s2, O, W \ G) /\ Leaves(s, s2) /\ s2.active = s.active
  BY <1>1, <1>2, DoInterruptSound, DoInterruptLeaves, LeavesTransitive
<1>. HIDE DEF s2
<1>4. s2 \in Schedulers
  BY <1>3 DEF Sound, Weak
<1>5. Weak(s3, O, W \ G) /\ Leaves(s, s3) /\ s3.active = s.active
  <2>1. s3.active = s2.active
    BY <1>4 DEF Notify, Enter, Schedulers
  <2>. QED
    BY <1>3, <1>4, <2>1, NotifySound, SoundIsWeak, NotifyLeaves, LeavesTransitive DEF SchedulerState
<1>. HIDE DEF s3
<1>6. Fine(s, Update(s3), O, R)
  BY <1>5, UpdateFine
<1>7. Leaves(s, Throw(s1))
  BY <1>1, <1>2, ThrowLeaves, LeavesTransitive
<1>8. Interrupt(s, G) = IF s.state \notin {"idle", "active"} THEN Throw(s1)
                        ELSE IF s2.thrown THEN s2 ELSE Update(s3)
  BY DEF Interrupt, s1, s2, s3
<1>. QED
  BY <1>3, <1>6, <1>7, <1>8, LeavesFine

LEMMA ReportActionFine ==
  ASSUME NEW O, NEW W, NEW R, NEW s, Sound(s, O, W), NEW a \in s.active, NEW t \in ActionReport,
         Lined(s, s.active, O, R)
  PROVE  Fine(s, ReportAction(s, a, t), O, R)
<1>. DEFINE u == [s EXCEPT !.task[a] = ActionTarget[t]]
<1>1. Weak(u, O, W)
  BY ReportedWeak
<1>2. s \in Schedulers /\ Leaves(s, u) /\ u.active = s.active
  BY DEF Leaves, Sound, Weak, Schedulers
<1>. HIDE DEF u
<1>3. Fine(s, Update(u), O, R) /\ Leaves(s, Throw(s))
  BY <1>1, <1>2, UpdateFine, ThrowLeaves
<1>. QED
  BY <1>3, LeavesFine DEF ReportAction, u

LEMMA ReportNavFine ==
  ASSUME NEW O, NEW W, NEW R, NEW s, Sound(s, O, W), NEW t \in NavTransition, NEW g,
         s.nav # NoTask, Lined(s, s.active, O, R)
  PROVE  Fine(s, ReportNav(s, t, g), O, R)
<1>. DEFINE u == MoveNav(s, t, g)
<1>1. s \in Schedulers
  BY DEF Sound, Weak
<1>2. Weak(u, O, W) /\ Leaves(s, u) /\ u.active = s.active
  BY <1>1, MoveNavSound, SoundIsWeak, MoveNavLeaves, MoveNavFrame
<1>3. ReportNav(s, t, g) = IF u.thrown THEN u ELSE Update(u)
  BY DEF ReportNav
<1>. HIDE DEF u
<1>. QED
  BY <1>2, <1>3, UpdateFine, LeavesFine

LEMMA ReachUnrecordedFine ==
  ASSUME NEW O, NEW W, NEW R, NEW s, Sound(s, O, W), NEW g,
         s.nav # NoTask, Lined(s, s.active, O, R)
  PROVE  Fine(s, ReachUnrecorded(s, g), O, R)
<1>. DEFINE u == MoveNav(s, "to_seq_id", g)
<1>1. u \in Schedulers /\ Leaves(s, u)
  BY MoveNavType, MoveNavLeaves DEF Sound, Weak, NavTransition, NavReport
<1>. HIDE DEF u
<1>2. Leaves(s, Throw(u))
  BY <1>1, ThrowLeaves, LeavesTransitive
<1>. QED
  BY <1>2, LeavesFine DEF ReachUnrecorded, u

\* A yield comes from those to come to the staging queue.
LEMMA EnqueueFine ==
  ASSUME NEW O, NEW W, NEW R, NEW s, Sound(s, O, W), NEW e \in R, NEW P \in SUBSET R,
         Precede({e}, P), Lined(s, s.active, O, R)
  PROVE  Fine(s, Enqueue(s, e), O, P)
<1>. DEFINE r == Enqueue(s, e)
<1>1. s \in Schedulers /\ s.staging \in Seq(YieldOf(O)) /\ e \in YieldOf(O)
  BY DEF Sound, Weak, Fresh, Lined
<1>2. /\ r.active = s.active /\ r.nav = s.nav /\ r.state = s.state /\ r.queue = s.queue
      /\ r.segment = s.segment /\ r.staging = Append(s.staging, e)
  BY <1>1 DEF Enqueue, Schedulers
<1>. HIDE DEF r
<1>3. Precede(Elems(s.staging), {e})
  BY DEF Lined, Precede
<1>4. Ordered(r.staging) /\ Elems(r.staging) = Elems(s.staging) \cup {e}
  BY <1>1, <1>2, <1>3, AppendOrdered DEF Lined
<1>5. Lined(r, {}, O, P)
  BY <1>2, <1>4 DEF Lined, Later, Precede
<1>6. Starts(s, r)
  BY <1>2 DEF Starts
<1>. QED
  BY <1>5, <1>6 DEF Fine, r

LEMMA CommitQueueFine ==
  ASSUME NEW O, NEW W, NEW R, NEW s, Sound(s, O, W), Lined(s, s.active, O, R)
  PROVE  Fine(s, CommitQueue(s), O, R)
<1>. DEFINE q == s.queue \o s.staging
            u == [s EXCEPT !.queue = q, !.staging = <<>>]
<1>1. s \in Schedulers /\ s.queue \in Seq(Yield) /\ s.staging \in Seq(Yield)
  BY DEF Sound, Weak, Schedulers
<1>2. Weak(u, O, W)
  BY CommittedWeak
<1>3. /\ u.active = s.active /\ u.nav = s.nav /\ u.segment = s.segment
      /\ u.queue = q /\ u.staging = <<>>
  BY <1>1 DEF Schedulers
<1>4. CommitQueue(s) = Update(u)
  BY DEF CommitQueue
<1>5. Precede(Elems(s.queue), Elems(s.staging))
  BY DEF Lined, Precede
<1>6. Ordered(q) /\ Elems(q) = Elems(s.queue) \cup Elems(s.staging)
  BY <1>1, <1>5, ConcatOrdered DEF Lined
<1>. HIDE DEF q, u
<1>7. Elems(u.queue) = Elems(s.queue) \cup Elems(s.staging) /\ Elems(u.staging) = {}
  BY <1>3, <1>6, EmptyOrdered
<1>8. u.segment # NoSegment =>
        \A e \in Elems(u.queue) : IsStep(e) /\ e.stop => u.segment <= e.goal
  <2>1. ASSUME NEW e \in Elems(s.staging), IsStep(e), s.segment < e.goal PROVE s.segment <= e.goal
    <3>1. e \in Yield
      BY <1>1 DEF Elems
    <3>2. e.goal \in Nat /\ s.segment \in Nat
      BY <1>1, <2>1, <3>1, YieldCases DEF NavStep, Schedulers
    <3>. QED
      BY <2>1, <3>2
  <2>. QED
    BY <1>3, <1>7, <2>1 DEF Lined
<1>9. Lined(u, u.active, O, R)
  BY <1>3, <1>6, <1>7, <1>8, EmptyOrdered DEF Lined, Later, Precede
<1>10. Leaves(u, u)
  BY DEF Leaves
<1>11. Fine(u, Update(u), O, R)
  BY <1>2, <1>9, <1>10, UpdateFine
<1>. QED
  BY <1>3, <1>4, <1>11 DEF Fine, Starts
===============================================================================
