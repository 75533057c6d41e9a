------------------------ MODULE OrderExecutionProofs ------------------------
(***************************************************************************)
(* OrderExecution for every sequence of orders, every set of instant       *)
(* actions messages and every set of controls: its types, the order in     *)
(* which messages pass through the queues, that the event handler and the  *)
(* status threads use the scheduler as Scheduler allows, that the AGV      *)
(* works on nothing the scheduler has forgotten, and that it is told of    *)
(* goals in the order of the orders.                                       *)
(***************************************************************************)
EXTENDS OrderExecution, SchedulerLemmas

-------------------------------------------------------------------------------
(* The operators of the class are those it is called with.  An instance has    *)
(* names of its own for the operators its module extends.                      *)

LEMMA SameBegin ==
  ASSUME NEW s
  PROVE  Class!Begin(s) = Begin(s)
  BY DEF Begin, Class!Begin

LEMMA SameThrow ==
  ASSUME NEW s
  PROVE  Class!Throw(s) = Throw(s)
  BY DEF Throw, Class!Throw

LEMMA SameEnter ==
  ASSUME NEW s, NEW st
  PROVE  Class!Enter(s, st) = Enter(s, st)
  BY DEF Enter, Class!Enter, NoSegment, Class!NoSegment

LEMMA SameNotify ==
  ASSUME NEW s, NEW st
  PROVE  Class!Notify(s, st) = Notify(s, st)
  BY SameEnter DEF Notify, Class!Notify

LEMMA SameCeiling ==
  ASSUME NEW G
  PROVE  Class!Ceiling(G) = Ceiling(G)
  BY DEF Ceiling, Class!Ceiling

LEMMA SameMoveNav ==
  ASSUME NEW s, NEW t, NEW g
  PROVE  Class!MoveNav(s, t, g) = MoveNav(s, t, g)
  BY SameThrow DEF MoveNav, Class!MoveNav, NavAccepts, Class!NavAccepts, NavTarget,
     Class!NavTarget, NavTransition, Class!NavTransition, NavReport, Class!NavReport

LEMMA SameMoveActions ==
  ASSUME NEW s, NEW S, NEW t
  PROVE  Class!MoveActions(s, S, t) = MoveActions(s, S, t)
  BY DEF MoveActions, Class!MoveActions, ActionAccepts, Class!ActionAccepts, ActionTarget,
     Class!ActionTarget, ActionTransition, Class!ActionTransition, ActionReport,
     Class!ActionReport

LEMMA SameStartGroup ==
  ASSUME NEW s, NEW G, NEW c
  PROVE  Class!StartGroup(s, G, c) = StartGroup(s, G, c)
  BY DEF StartGroup, Class!StartGroup, ActionTarget, Class!ActionTarget, ActionTransition,
     Class!ActionTransition, ActionReport, Class!ActionReport

LEMMA SameIsStep ==
  ASSUME NEW e
  PROVE  Class!IsStep(e) = IsStep(e)
  BY DEF IsStep, Class!IsStep

LEMMA SameChosen ==
  ASSUME NEW q, NEW I
  PROVE  Class!Chosen(q, I) = Chosen(q, I)
  BY DEF Chosen, Class!Chosen

LEMMA SameFreeSteps ==
  ASSUME NEW q
  PROVE  Class!FreeSteps(q) = FreeSteps(q)
  BY DEF FreeSteps, Class!FreeSteps, IsStep, Class!IsStep

LEMMA SameClearQueues ==
  ASSUME NEW s, NEW keepNav
  PROVE  Class!ClearQueues(s, keepNav) = ClearQueues(s, keepNav)
  BY SameChosen, SameFreeSteps DEF ClearQueues, Class!ClearQueues

LEMMA SameSegmentEnd ==
  ASSUME NEW q, NEW e
  PROVE  Class!SegmentEnd(q, e) = SegmentEnd(q, e)
  BY DEF SegmentEnd, Class!SegmentEnd, FreeSteps, Class!FreeSteps, IsStep, Class!IsStep

LEMMA SameUpdateTasks ==
  ASSUME NEW s
  PROVE  Class!UpdateTasks(s) = UpdateTasks(s)
  BY SameClearQueues DEF UpdateTasks, Class!UpdateTasks, ActionTerminal,
     Class!ActionTerminal, ActionPaused, Class!ActionPaused, NavTerminal, Class!NavTerminal,
     NoTask, Class!NoTask

LEMMA SameUpdateInterruptMapping ==
  ASSUME NEW s
  PROVE  Class!UpdateInterruptMapping(s) = UpdateInterruptMapping(s)
  BY SameMoveNav DEF UpdateInterruptMapping, Class!UpdateInterruptMapping, ActionTerminal,
     Class!ActionTerminal, NoTask, Class!NoTask

LEMMA SameMayFetchGroup ==
  ASSUME NEW s
  PROVE  Class!MayFetchGroup(s) = MayFetchGroup(s)
  BY DEF MayFetchGroup, Class!MayFetchGroup, NoTask, Class!NoTask

LEMMA SameFetchGroup ==
  ASSUME NEW s
  PROVE  Class!FetchGroup(s) = FetchGroup(s)
  BY SameStartGroup DEF FetchGroup, Class!FetchGroup, NoSegment, Class!NoSegment

LEMMA SameMayFetchStep ==
  ASSUME NEW s
  PROVE  Class!MayFetchStep(s) = MayFetchStep(s)
  BY DEF MayFetchStep, Class!MayFetchStep, NoTask, Class!NoTask

LEMMA SameFetchStep ==
  ASSUME NEW s
  PROVE  Class!FetchStep(s) = FetchStep(s)
  BY SameSegmentEnd DEF FetchStep, Class!FetchStep, NoSegment, Class!NoSegment, NavTarget,
     Class!NavTarget, NavTransition, Class!NavTransition, NavReport, Class!NavReport

LEMMA SamePatchSegment ==
  ASSUME NEW s
  PROVE  Class!PatchSegment(s) = PatchSegment(s)
  BY SameSegmentEnd DEF PatchSegment, Class!PatchSegment, NoSegment, Class!NoSegment

LEMMA SameFetchOne ==
  ASSUME NEW s
  PROVE  Class!FetchOne(s) = FetchOne(s)
  BY SameIsStep, SameMayFetchGroup, SameFetchGroup, SameMayFetchStep, SameFetchStep,
     SamePatchSegment DEF FetchOne, Class!FetchOne, NoTask, Class!NoTask

LEMMA SameFetchNext ==
  ASSUME NEW s
  PROVE  Class!FetchNext(s) = FetchNext(s)
  BY SameFetchOne DEF FetchNext, Class!FetchNext

LEMMA SameDoInterrupt ==
  ASSUME NEW s
  PROVE  Class!DoInterrupt(s) = DoInterrupt(s)
  BY SameCeiling, SameMoveNav, SameMoveActions DEF DoInterrupt, Class!DoInterrupt, NoTask,
     Class!NoTask

LEMMA SameMayFetchInterrupt ==
  ASSUME NEW s
  PROVE  Class!MayFetchInterrupt(s) = MayFetchInterrupt(s)
  BY SameCeiling DEF MayFetchInterrupt, Class!MayFetchInterrupt, NavPaused,
     Class!NavPaused, NoTask, Class!NoTask

LEMMA SameFetchInterrupt ==
  ASSUME NEW s
  PROVE  Class!FetchInterrupt(s) = FetchInterrupt(s)
  BY SameCeiling, SameMayFetchInterrupt, SameStartGroup DEF FetchInterrupt,
     Class!FetchInterrupt

LEMMA SameRefresh ==
  ASSUME NEW s
  PROVE  Class!Refresh(s) = Refresh(s)
  BY SameUpdateInterruptMapping, SameUpdateTasks DEF Refresh, Class!Refresh

LEMMA SameUpdateIdle ==
  ASSUME NEW s
  PROVE  Class!UpdateIdle(s) = UpdateIdle(s)
  BY SameFetchNext, SameNotify, SameEnter DEF UpdateIdle, Class!UpdateIdle, NoTask,
     Class!NoTask

LEMMA SameUpdateActive ==
  ASSUME NEW s
  PROVE  Class!UpdateActive(s) = UpdateActive(s)
  BY SameRefresh, SameFetchNext, SameNotify DEF UpdateActive, Class!UpdateActive,
     NavTerminal, Class!NavTerminal, NoTask, Class!NoTask

LEMMA SameUpdateCanceling ==
  ASSUME NEW s
  PROVE  Class!UpdateCanceling(s) = UpdateCanceling(s)
  BY SameRefresh, SameFetchNext, SameNotify DEF UpdateCanceling, Class!UpdateCanceling,
     NoTask, Class!NoTask

LEMMA SameUpdateResuming ==
  ASSUME NEW s
  PROVE  Class!UpdateResuming(s) = UpdateResuming(s)
  BY SameRefresh, SameUpdateActive, SameNotify DEF UpdateResuming, Class!UpdateResuming,
     NavPaused, Class!NavPaused

LEMMA SameUpdatePausing ==
  ASSUME NEW s
  PROVE  Class!UpdatePausing(s) = UpdatePausing(s)
  BY SameRefresh, SameNotify DEF UpdatePausing, Class!UpdatePausing, NavPaused,
     Class!NavPaused, NoTask, Class!NoTask

LEMMA SameUpdateInterrupting ==
  ASSUME NEW s
  PROVE  Class!UpdateInterrupting(s) = UpdateInterrupting(s)
  BY SameFetchInterrupt, SameUpdateTasks, SameNotify DEF UpdateInterrupting,
     Class!UpdateInterrupting

LEMMA SameUpdate ==
  ASSUME NEW s
  PROVE  Class!Update(s) = Update(s)
  BY SameUpdateIdle, SameUpdateActive, SameUpdateCanceling, SameUpdateResuming,
     SameUpdatePausing, SameUpdateInterrupting, SameRefresh DEF Update, Class!Update

LEMMA SameCancelActive ==
  ASSUME NEW s
  PROVE  Class!CancelActive(s) = CancelActive(s)
  BY SameMoveActions, SameMoveNav, SameNotify, SameClearQueues DEF CancelActive,
     Class!CancelActive, NavPaused, Class!NavPaused, NavTerminal, Class!NavTerminal, NoTask,
     Class!NoTask

LEMMA SameCancel ==
  ASSUME NEW s
  PROVE  Class!Cancel(s) = Cancel(s)
  BY SameUpdate, SameEnter, SameClearQueues, SameCancelActive, SameThrow DEF Cancel,
     Class!Cancel

LEMMA SamePauseActive ==
  ASSUME NEW s
  PROVE  Class!PauseActive(s) = PauseActive(s)
  BY SameMoveActions, SameMoveNav, SameNotify DEF PauseActive, Class!PauseActive, NoTask,
     Class!NoTask

LEMMA SamePause ==
  ASSUME NEW s
  PROVE  Class!Pause(s) = Pause(s)
  BY SameNotify, SamePauseActive, SameThrow DEF Pause, Class!Pause

LEMMA SameResumePaused ==
  ASSUME NEW s
  PROVE  Class!ResumePaused(s) = ResumePaused(s)
  BY SameMoveActions, SameMoveNav, SameNotify, SameUpdate DEF ResumePaused,
     Class!ResumePaused, NoTask, Class!NoTask

LEMMA SameResume ==
  ASSUME NEW s
  PROVE  Class!Resume(s) = Resume(s)
  BY SameUpdate, SameNotify, SameResumePaused, SameThrow DEF Resume, Class!Resume

LEMMA SameInterrupt ==
  ASSUME NEW s, NEW G
  PROVE  Class!Interrupt(s, G) = Interrupt(s, G)
  BY SameDoInterrupt, SameThrow, SameUpdate, SameNotify DEF Interrupt, Class!Interrupt

LEMMA SameReportAction ==
  ASSUME NEW s, NEW a, NEW t
  PROVE  Class!ReportAction(s, a, t) = ReportAction(s, a, t)
  BY SameUpdate, SameThrow DEF ReportAction, Class!ReportAction, ActionAccepts,
     Class!ActionAccepts, ActionTarget, Class!ActionTarget, ActionTransition,
     Class!ActionTransition, ActionReport, Class!ActionReport

LEMMA SameReportNav ==
  ASSUME NEW s, NEW t, NEW g
  PROVE  Class!ReportNav(s, t, g) = ReportNav(s, t, g)
  BY SameMoveNav, SameThrow, SameUpdate DEF ReportNav, Class!ReportNav, NoTask,
     Class!NoTask

LEMMA SameReachUnrecorded ==
  ASSUME NEW s, NEW g
  PROVE  Class!ReachUnrecorded(s, g) = ReachUnrecorded(s, g)
  BY SameThrow, SameMoveNav DEF ReachUnrecorded, Class!ReachUnrecorded

LEMMA SameEnqueue ==
  ASSUME NEW s, NEW e
  PROVE  Class!Enqueue(s, e) = Enqueue(s, e)
  BY DEF Enqueue, Class!Enqueue

LEMMA SameCommitQueue ==
  ASSUME NEW s
  PROVE  Class!CommitQueue(s) = CommitQueue(s)
  BY SameUpdate DEF CommitQueue, Class!CommitQueue

-------------------------------------------------------------------------------
(* Sequences *)

LEMMA SameElements ==
  ASSUME NEW S, NEW s \in Seq(S), NEW t \in Seq(S), Len(s) = Len(t),
         \A i \in 1..Len(s) : s[i] = t[i]
  PROVE  s = t
  OBVIOUS

LEMMA ConcatEmpty ==
  ASSUME NEW S, NEW s \in Seq(S)
  PROVE  <<>> \o s = s /\ s \o <<>> = s
<1>1. <<>> \o s \in Seq(S) /\ s \o <<>> \in Seq(S)
  BY EmptySeqType, ConcatType
<1>2. Len(<<>> \o s) = Len(s) /\ \A i \in 1..Len(s) : (<<>> \o s)[i] = s[i]
  OBVIOUS
<1>3. Len(s \o <<>>) = Len(s) /\ \A i \in 1..Len(s) : (s \o <<>>)[i] = s[i]
  OBVIOUS
<1>. QED
  BY <1>1, <1>2, <1>3, SameElements

LEMMA AppendOne ==
  ASSUME NEW S, NEW s \in Seq(S), NEW e \in S
  PROVE  <<e>> \in Seq(S) /\ Append(s, e) = s \o <<e>>
  OBVIOUS

LEMMA HeadTail ==
  ASSUME NEW S, NEW s \in Seq(S), s # <<>>
  PROVE  s = <<Head(s)>> \o Tail(s) /\ Head(s) \in S /\ Tail(s) \in Seq(S)
<1>1. Head(s) \in S /\ Tail(s) \in Seq(S) /\ <<Head(s)>> \o Tail(s) \in Seq(S)
  OBVIOUS
<1>2. Len(<<Head(s)>> \o Tail(s)) = Len(s)
  OBVIOUS
<1>3. \A i \in 1..Len(s) : (<<Head(s)>> \o Tail(s))[i] = s[i]
  OBVIOUS
<1>. QED
  BY <1>1, <1>2, <1>3, SameElements

LEMMA TailOfCons ==
  ASSUME NEW S, NEW s \in Seq(S), NEW e \in S
  PROVE  <<e>> \o s # <<>> /\ Head(<<e>> \o s) = e /\ Tail(<<e>> \o s) = s
<1>1. <<e>> \o s \in Seq(S) /\ <<e>> \o s # <<>> /\ Head(<<e>> \o s) = e
  OBVIOUS
<1>2. Tail(<<e>> \o s) \in Seq(S) /\ Len(Tail(<<e>> \o s)) = Len(s)
  OBVIOUS
<1>3. \A i \in 1..Len(s) : Tail(<<e>> \o s)[i] = s[i]
  OBVIOUS
<1>. QED
  BY <1>1, <1>2, <1>3, SameElements

-------------------------------------------------------------------------------
(* What is pending of the interpreter's queue *)

\* What is chosen of two queues one behind the other, when the same is chosen of each.
LEMMA ChosenConcat ==
  ASSUME NEW S, NEW q \in Seq(S), NEW r \in Seq(S), NEW I, NEW J, NEW K,
         \A n \in Nat : n + 1 <= Len(q) => (n + 1 \in K <=> n + 1 \in I),
         \A n \in Nat : n + 1 <= Len(r) => ((Len(q) + n) + 1 \in K <=> n + 1 \in J)
  PROVE  Chosen(q \o r, K) = Chosen(q, I) \o Chosen(r, J)
<1>. DEFINE t == q \o r
            N == Len(q)
            M == Len(r)
<1>0. ASSUME NEW a \in Seq(S), NEW b \in Seq(S), NEW e \in S
      PROVE  Append(a \o b, e) = a \o Append(b, e)
  <2>1. Append(a \o b, e) \in Seq(S) /\ a \o Append(b, e) \in Seq(S)
    OBVIOUS
  <2>2. Len(Append(a \o b, e)) = Len(a \o Append(b, e))
    <3>1. Len(Append(a \o b, e)) = Len(a \o b) + 1 /\ Len(a \o b) = Len(a) + Len(b)
      OBVIOUS
    <3>2. Append(b, e) \in Seq(S) /\ Len(Append(b, e)) = Len(b) + 1
      OBVIOUS
    <3>3. Len(a \o Append(b, e)) = Len(a) + Len(Append(b, e))
      BY <3>2
    <3>. QED
      BY <3>1, <3>2, <3>3
  <2>3. ASSUME NEW i \in 1..Len(Append(a \o b, e))
        PROVE  Append(a \o b, e)[i] = (a \o Append(b, e))[i]
    <3>1. /\ a \o b \in Seq(S) /\ Len(a \o b) = Len(a) + Len(b)
          /\ Append(b, e) \in Seq(S) /\ Len(Append(b, e)) = Len(b) + 1
      OBVIOUS
    <3>2. i \in Nat /\ 1 <= i /\ i <= Len(a) + Len(b) + 1
      BY <3>1
    <3>3. CASE i <= Len(a)
      BY <3>1, <3>2, <3>3
    <3>4. CASE Len(a) < i /\ i <= Len(a) + Len(b)
      BY <3>1, <3>2, <3>4
    <3>5. CASE i = Len(a) + Len(b) + 1
      BY <3>1, <3>2, <3>5
    <3>6. Len(a) \in Nat /\ Len(b) \in Nat
      OBVIOUS
    <3>7. i <= Len(a) \/ (Len(a) < i /\ i <= Len(a) + Len(b)) \/ i = Len(a) + Len(b) + 1
      BY <3>2, <3>6
    <3>. QED
      BY <3>3, <3>4, <3>5, <3>7
  <2>. QED
    BY <2>1, <2>2, <2>3, SameElements
<1>1. /\ t \in Seq(S) /\ N \in Nat /\ M \in Nat /\ Len(t) = N + M
      /\ \A n \in Nat : n + 1 <= N =>
           n + 1 <= Len(t) /\ t[n + 1] = q[n + 1] /\ q[n + 1] \in S
      /\ \A n \in Nat : n + 1 <= M =>
           (N + n) + 1 <= Len(t) /\ t[(N + n) + 1] = r[n + 1] /\ N + n \in Nat /\ r[n + 1] \in S
  OBVIOUS
<1>. HIDE DEF t
<1>2. PICK u : Chosen(q, I) = u[N] /\ Chooses(u, q, I)
  BY ChosenSteps
<1>3. PICK v : Chosen(r, J) = v[M] /\ Chooses(v, r, J)
  BY ChosenSteps
<1>4. PICK w : Chosen(t, K) = w[Len(t)] /\ Chooses(w, t, K)
  BY <1>1, ChosenSteps
<1>. DEFINE P(n) == u[n] = w[n] /\ u[n] \in Seq(S)
            T == {n \in Nat : n <= N => P(n)}
<1>5. 0 \in T
  BY <1>2, <1>4, EmptySeqType DEF Chooses
<1>6. ASSUME NEW n \in T PROVE n + 1 \in T
  <2>1. SUFFICES ASSUME n + 1 <= N PROVE P(n + 1)
    <3>. HIDE DEF P
    <3>. QED
      OBVIOUS
  <2>2. n \in Nat /\ P(n)
    <3>. HIDE DEF P
    <3>. QED
      BY <1>1, <2>1
  <2>3. /\ u[n + 1] = IF n + 1 \in I THEN Append(u[n], q[n + 1]) ELSE u[n]
        /\ w[n + 1] = IF n + 1 \in K THEN Append(w[n], t[n + 1]) ELSE w[n]
    BY <1>1, <1>2, <1>4, <2>1, <2>2 DEF Chooses
  <2>4. t[n + 1] = q[n + 1] /\ q[n + 1] \in S /\ (n + 1 \in K <=> n + 1 \in I)
    BY <1>1, <2>1, <2>2
  <2>. QED
    BY <2>2, <2>3, <2>4, AppendType
<1>7. T = Nat
  <2>1. T \in SUBSET Nat
    OBVIOUS
  <2>. HIDE DEF T
  <2>. QED
    BY <1>5, <1>6, <2>1, NatSetInduction
<1>8. u[N] = w[N] /\ u[N] \in Seq(S)
  BY <1>1, <1>7
<1>. HIDE DEF T, P
<1>. DEFINE Q(n) == w[N + n] = u[N] \o v[n] /\ v[n] \in Seq(S)
            U == {n \in Nat : n <= M => Q(n)}
<1>9. 0 \in U
  <2>1. v[0] = <<>> /\ N + 0 = N
    BY <1>1, <1>3 DEF Chooses
  <2>2. w[N + 0] = w[N] /\ u[N] \o <<>> = u[N]
    BY <1>8, <2>1, ConcatEmpty
  <2>. QED
    BY <1>8, <2>1, <2>2, EmptySeqType
<1>10. ASSUME NEW n \in U PROVE n + 1 \in U
  <2>1. SUFFICES ASSUME n + 1 <= M PROVE Q(n + 1)
    <3>. HIDE DEF Q
    <3>. QED
      OBVIOUS
  <2>2. n \in Nat /\ Q(n)
    <3>. HIDE DEF Q
    <3>. QED
      BY <1>1, <2>1
  <2>3. N + (n + 1) = (N + n) + 1 /\ N + n \in Nat
    BY <1>1, <2>2
  <2>4. /\ v[n + 1] = IF n + 1 \in J THEN Append(v[n], r[n + 1]) ELSE v[n]
        /\ w[(N + n) + 1] = IF (N + n) + 1 \in K THEN Append(w[N + n], t[(N + n) + 1])
                                                  ELSE w[N + n]
    BY <1>1, <1>3, <1>4, <2>1, <2>2 DEF Chooses
  <2>5. /\ t[(N + n) + 1] = r[n + 1] /\ r[n + 1] \in S
        /\ (N + n) + 1 \in K <=> n + 1 \in J
    BY <1>1, <2>1, <2>2
  <2>6. v[n + 1] \in Seq(S)
    BY <2>2, <2>4, <2>5, AppendType
  <2>7. Append(u[N] \o v[n], r[n + 1]) = u[N] \o Append(v[n], r[n + 1])
    BY <1>0, <1>8, <2>2, <2>5
  <2>8. w[(N + n) + 1] = u[N] \o v[n + 1]
    BY <2>2, <2>4, <2>5, <2>7
  <2>. QED
    BY <2>3, <2>6, <2>8
<1>11. U = Nat
  <2>1. U \in SUBSET Nat
    OBVIOUS
  <2>. HIDE DEF U
  <2>. QED
    BY <1>9, <1>10, <2>1, NatSetInduction
<1>12. w[N + M] = u[N] \o v[M]
  <2>1. M \in U
    <3>. HIDE DEF U
    <3>. QED
      BY <1>1, <1>11
  <2>2. M <= M => Q(M)
    <3>. HIDE DEF Q, M
    <3>. QED
      BY <2>1 DEF U
  <2>3. M <= M
    BY <1>1
  <2>. HIDE DEF N, M
  <2>. QED
    BY <2>2, <2>3
<1>13. Chosen(t, K) = Chosen(q, I) \o Chosen(r, J)
  BY <1>1, <1>2, <1>3, <1>4, <1>12
<1>. QED
  BY <1>13 DEF t

LEMMA PendingConcat ==
  ASSUME NEW S, NEW q \in Seq(S), NEW r \in Seq(S)
  PROVE  PendingOf(q \o r) = PendingOf(q) \o PendingOf(r)
<1>. DEFINE I(x) == {i \in DOMAIN x : IsPending(x[i])}
            t == q \o r
<1>1. \A n \in Nat : n + 1 <= Len(q) =>
        n + 1 \in DOMAIN t /\ n + 1 \in DOMAIN q /\ t[n + 1] = q[n + 1]
  OBVIOUS
<1>2. \A n \in Nat : n + 1 <= Len(r) =>
        /\ (Len(q) + n) + 1 \in DOMAIN t /\ n + 1 \in DOMAIN r
        /\ t[(Len(q) + n) + 1] = r[n + 1]
  OBVIOUS
<1>. HIDE DEF t
<1>3. \A n \in Nat : n + 1 <= Len(q) => (n + 1 \in I(t) <=> n + 1 \in I(q))
  BY <1>1
<1>4. \A n \in Nat : n + 1 <= Len(r) => ((Len(q) + n) + 1 \in I(t) <=> n + 1 \in I(r))
  BY <1>2
<1>. HIDE DEF I
<1>5. Chosen(q \o r, I(t)) = Chosen(q, I(q)) \o Chosen(r, I(r))
  BY <1>3, <1>4, ChosenConcat
<1>. QED
  BY <1>5 DEF PendingOf, I, t

\* Of an event alone it is that event, or nothing.
LEMMA PendingOfOne ==
  ASSUME NEW e
  PROVE  PendingOf(<<e>>) = IF IsPending(e) THEN <<e>> ELSE <<>>
<1>. DEFINE q == <<e>>
            I == {i \in DOMAIN q : IsPending(q[i])}
<1>1. q \in Seq({e}) /\ Len(q) = 1 /\ q[1] = e /\ (1 \in I <=> IsPending(e))
  OBVIOUS
<1>. HIDE DEF q, I
<1>2. PICK u : Chosen(q, I) = u[Len(q)] /\ Chooses(u, q, I)
  BY <1>1, ChosenSteps
<1>3. ASSUME NEW n \in Nat, n = 0
      PROVE  u[n + 1] = IF n + 1 \in I THEN Append(u[n], q[n + 1]) ELSE u[n]
  BY <1>1, <1>2, <1>3 DEF Chooses
<1>4. u[1] = IF IsPending(e) THEN Append(<<>>, e) ELSE <<>>
  <2>1. u[0] = <<>>
    BY <1>2 DEF Chooses
  <2>2. \A n : n = 0 => u[n + 1] = IF n + 1 \in I THEN Append(u[n], q[n + 1]) ELSE u[n]
    BY <1>3
  <2>3. u[1] = IF 1 \in I THEN Append(u[0], q[1]) ELSE u[0]
    BY <2>2
  <2>. QED
    BY <1>1, <2>1, <2>3
<1>5. PendingOf(q) = u[1]
  BY <1>1, <1>2 DEF PendingOf, I
<1>6. Append(<<>>, e) = <<e>>
  OBVIOUS
<1>. QED
  BY <1>4, <1>5, <1>6 DEF q

LEMMA PendingOfNone == PendingOf(<<>>) = <<>>
<1>. DEFINE I == {i \in DOMAIN <<>> : IsPending(<<>>[i])}
<1>1. PICK u : Chosen(<<>>, I) = u[Len(<<>>)] /\ Chooses(u, <<>>, I)
  BY ChosenSteps, EmptySeqType
<1>2. Len(<<>>) = 0
  OBVIOUS
<1>. QED
  BY <1>1, <1>2 DEF PendingOf, Chooses

LEMMA PendingType ==
  ASSUME NEW S, NEW q \in Seq(S)
  PROVE  PendingOf(q) \in Seq(S)
  BY ChosenType DEF PendingOf

\* One event more, at the end ...
LEMMA PendingAppend ==
  ASSUME NEW S, NEW q \in Seq(S), NEW e \in S
  PROVE  PendingOf(Append(q, e)) = IF IsPending(e) THEN Append(PendingOf(q), e) ELSE PendingOf(q)
<1>1. <<e>> \in Seq(S) /\ Append(q, e) = q \o <<e>>
  BY AppendOne
<1>2. PendingOf(Append(q, e)) = PendingOf(q) \o PendingOf(<<e>>)
  BY <1>1, PendingConcat
<1>3. /\ PendingOf(q) \in Seq(S) /\ PendingOf(q) \o <<>> = PendingOf(q)
      /\ Append(PendingOf(q), e) = PendingOf(q) \o <<e>>
  BY PendingType, ConcatEmpty, AppendOne
<1>. QED
  BY <1>2, <1>3, PendingOfOne

\* ... and one less, at the front.
LEMMA PendingTail ==
  ASSUME NEW S, NEW q \in Seq(S), q # <<>>
  PROVE  /\ IsPending(Head(q)) => /\ PendingOf(q) # <<>> /\ Head(PendingOf(q)) = Head(q)
                                  /\ PendingOf(Tail(q)) = Tail(PendingOf(q))
         /\ ~IsPending(Head(q)) => PendingOf(Tail(q)) = PendingOf(q)
<1>. DEFINE e == Head(q)
            p == PendingOf(Tail(q))
<1>1. e \in S /\ <<e>> \in Seq(S) /\ Tail(q) \in Seq(S) /\ q = <<e>> \o Tail(q)
  BY HeadTail, AppendOne, EmptySeqType
<1>2. p \in Seq(S)
  BY <1>1, PendingType
<1>. HIDE DEF e
<1>3. PendingOf(q) = PendingOf(<<e>>) \o p
  BY <1>1, PendingConcat
<1>. HIDE DEF p
<1>4. CASE IsPending(e)
  <2>1. PendingOf(q) = <<e>> \o p
    BY <1>3, <1>4, PendingOfOne
  <2>2. PendingOf(q) # <<>> /\ Head(PendingOf(q)) = e /\ Tail(PendingOf(q)) = p
    BY <1>1, <1>2, <2>1, TailOfCons
  <2>. QED
    BY <1>4, <2>2 DEF e, p
<1>5. CASE ~IsPending(e)
  <2>1. PendingOf(q) = p
    BY <1>2, <1>3, <1>5, PendingOfOne, ConcatEmpty
  <2>. QED
    BY <1>5, <2>1 DEF e, p
<1>. QED
  BY <1>4, <1>5

\* A queue of which all is pending.
LEMMA AllPending ==
  ASSUME NEW S, NEW r \in Seq(S), \A i \in DOMAIN r : IsPending(r[i])
  PROVE  PendingOf(r) = r
<1>. DEFINE I == {i \in DOMAIN r : IsPending(r[i])}
            N == Len(r)
<1>1. I = DOMAIN r
  OBVIOUS
<1>0. N \in Nat /\ \A n \in Nat : n + 1 <= N => n + 1 \in DOMAIN r /\ r[n + 1] \in S
  OBVIOUS
<1>2. PendingOf(r) = Chosen(r, I)
  BY DEF PendingOf
<1>. HIDE DEF I
<1>3. PICK u : Chosen(r, I) = u[N] /\ Chooses(u, r, I)
  BY ChosenSteps
<1>. DEFINE Copies(n) == u[n] \in Seq(S) /\ Len(u[n]) = n /\ \A i \in 1..n : u[n][i] = r[i]
            T == {n \in Nat : n <= N => Copies(n)}
<1>4. 0 \in T
  <2>1. u[0] = <<>> /\ <<>> \in Seq(S) /\ Len(<<>>) = 0
    BY <1>3, EmptySeqType DEF Chooses
  <2>2. Copies(0)
    BY <2>1
  <2>. HIDE DEF Copies
  <2>. QED
    BY <2>2
<1>5. ASSUME NEW n \in T PROVE n + 1 \in T
  <2>1. SUFFICES ASSUME n + 1 <= N PROVE Copies(n + 1)
    <3>. HIDE DEF Copies
    <3>. QED
      OBVIOUS
  <2>2. n \in Nat /\ Copies(n)
    <3>. HIDE DEF Copies
    <3>. QED
      BY <1>0, <2>1
  <2>3. r[n + 1] \in S /\ n + 1 \in I
    BY <1>0, <1>1, <2>1, <2>2
  <2>4. u[n + 1] = Append(u[n], r[n + 1])
    BY <1>3, <2>1, <2>2, <2>3 DEF Chooses
  <2>. QED
    BY <2>2, <2>3, <2>4
<1>6. T = Nat
  <2>1. T \in SUBSET Nat
    OBVIOUS
  <2>. HIDE DEF T
  <2>. QED
    BY <1>4, <1>5, <2>1, NatSetInduction
<1>7. Copies(N)
  BY <1>0, <1>6
<1>8. u[N] = r
  BY <1>7, SameElements
<1>. QED
  BY <1>2, <1>3, <1>8

-------------------------------------------------------------------------------
(* Types *)

Message ==
  [kind : {"order"}, number : DOMAIN Orders] \cup [kind : {"instants"}, group : Instants]
    \cup [kind : {"control"}, type : ControlAction]

Event ==
  Yield \cup {Done} \cup [kind : {"graph"}, number : DOMAIN Orders]
    \cup [kind : {"instants"}, group : Instants] \cup [kind : {"control"}, type : ControlAction]

Commands == {"start", "navigate", "pause", "resume", "cancel"}

Agvs ==
  [cmds  : [Action -> Seq(Commands)],
   work  : [Action -> {"idle", "started", "running", "halted", "resting", "over"}],
   ncmds : Seq([to : Commands, goal : Nat]),
   drive : {"standing", "driving", "halted", "resting"},
   goal  : Nat,
   halts : Nat]

TypeInv ==
  /\ sch \in Schedulers
  /\ accepted \in Seq(Message) /\ inbox \in Seq(Event)
  /\ statuses \in Seq(SchedulerState) /\ known \in SchedulerState
  /\ sent \in [orders : 0..Len(Orders), controls : Nat, groups : SUBSET Instants]
  /\ handled \in [orders : Nat, groups : SUBSET Instants]
  /\ agv \in Agvs
  /\ reports \in [Action -> Seq(ActionReport)]
  /\ nreports \in Seq([type : NavReport, goal : Nat])

LEMMA ConstantsType ==
  /\ Len(Orders) \in Nat /\ DOMAIN Orders = 1..Len(Orders)
  /\ \A n \in DOMAIN Orders : Orders[n] \in Seq(Yield)
  /\ \A G \in Instants : G \in (SUBSET Action) \ {{}}
  BY ExecutionAssumption

LEMMA TailType == \A S : \A q \in Seq(S) : q # <<>> => Head(q) \in S /\ Tail(q) \in Seq(S)
  BY HeadTail

LEMMA SeqLarger == \A S, T : S \subseteq T => Seq(S) \subseteq Seq(T)
  OBVIOUS

\* The front of a queue is of its kind.
LEMMA MessageCases ==
  ASSUME NEW m \in Message
  PROVE  /\ m.kind = "order" => m = OrderMsg(m.number) /\ m.number \in DOMAIN Orders
         /\ m.kind # "order" => m \in Event /\ ~IsPending(m)
         /\ m.kind = "instants" => m = Instant(m.group) /\ m.group \in Instants
  BY DEF Message, Event, OrderMsg, IsPending, Instant

LEMMA EventCases ==
  ASSUME NEW e \in Event
  PROVE  /\ e.kind \in {"group", "nav"} => e \in Yield /\ e # Done
         /\ e.kind = "done" => e = Done
         /\ e.kind = "graph" => e.number \in DOMAIN Orders
         /\ e.kind = "instants" => e = Instant(e.group) /\ e.group \in Instants
         /\ e.kind = "control" => e.type \in ControlAction
         /\ e \in Yield => e.kind \in {"group", "nav"}
  BY DEF Event, Yield, Group, NavStep, Done, Instant

LEMMA YieldsType ==
  ASSUME NEW n \in DOMAIN Orders
  PROVE  /\ Yields(n) \in Seq(Event)
         /\ Orders[n] \in Seq(Event) /\ <<GraphOf(n), Done>> \in Seq(Event)
<1>1. GraphOf(n) \in Event /\ Done \in Event /\ Orders[n] \in Seq(Yield)
  BY ConstantsType DEF GraphOf, Event
<1>2. Orders[n] \in Seq(Event)
  BY <1>1 DEF Event
<1>3. <<GraphOf(n), Done>> \in Seq(Event)
  BY <1>1
<1>. QED
  BY <1>2, <1>3, ConcatType DEF Yields

\* A call that returns a scheduler keeps all it touches typed.
LEMMA CallTypes ==
  ASSUME TypeInv, NEW s \in Schedulers, Call(s)
  PROVE  /\ sch' \in Schedulers /\ statuses' \in Seq(SchedulerState) /\ agv' \in Agvs
         /\ UNCHANGED <<accepted, known, order, clearing, sent>>
<1>1. s.notes \in Seq(SchedulerState) /\ s.goal \in Nat
  BY DEF Schedulers
<1>2. statuses' \in Seq(SchedulerState)
  BY <1>1, ConcatType DEF Call, TypeInv
<1>3. \A a \in Action : s.task[a] \in DOMAIN ActionCommand => ActionCommand[s.task[a]] \in Commands
  BY DEF ActionCommand, Commands
<1>4. s.nav \in DOMAIN NavCommand =>
        [to |-> NavCommand[s.nav], goal |-> s.goal] \in [to : Commands, goal : Nat]
  BY <1>1 DEF NavCommand, Commands
<1>. DEFINE c == [a \in Action |->
                    IF s.task[a] # sch.task[a] /\ s.task[a] \in DOMAIN ActionCommand
                    THEN Append(agv.cmds[a], ActionCommand[s.task[a]]) ELSE agv.cmds[a]]
            n == IF <<s.nav, s.goal>> # <<sch.nav, sch.goal>> /\ s.nav \in DOMAIN NavCommand
                 THEN Append(agv.ncmds, [to |-> NavCommand[s.nav], goal |-> s.goal])
                 ELSE agv.ncmds
<1>5. c \in [Action -> Seq(Commands)]
  BY <1>3, AppendType DEF TypeInv, Agvs
<1>6. n \in Seq([to : Commands, goal : Nat])
  BY <1>4, AppendType DEF TypeInv, Agvs
<1>7. Told(s) = [agv EXCEPT !.cmds = c, !.ncmds = n]
  BY DEF Told, TypeInv, Agvs
<1>. HIDE DEF c, n
<1>8. Told(s) \in Agvs
  BY <1>5, <1>6, <1>7 DEF TypeInv, Agvs
<1>. QED
  BY <1>2, <1>8 DEF Call

LEMMA TypeInit == Init => TypeInv
<1>. SUFFICES ASSUME Init PROVE TypeInv
  OBVIOUS
<1>1. agv \in Agvs
  BY EmptySeqType DEF Init, Agvs
<1>2. /\ accepted \in Seq(Message) /\ inbox \in Seq(Event) /\ statuses \in Seq(SchedulerState)
      /\ reports \in [Action -> Seq(ActionReport)]
      /\ nreports \in Seq([type : NavReport, goal : Nat])
  BY EmptySeqType DEF Init
<1>3. sch \in Schedulers /\ known \in SchedulerState
  BY NewSchedulerType DEF Init, SchedulerState
<1>4. /\ sent \in [orders : 0..Len(Orders), controls : Nat, groups : SUBSET Instants]
      /\ handled \in [orders : Nat, groups : SUBSET Instants]
  BY ConstantsType DEF Init
<1>. QED
  BY <1>1, <1>2, <1>3, <1>4 DEF TypeInv

\* The steps of the message thread.
LEMMA MessageTypes ==
  ASSUME TypeInv,
         \/ ValidateOrder \/ (\E G \in Instants : ValidateInstants(G))
         \/ (\E c \in Controls : ValidateControl(c))
         \/ InterpretOrder \/ InterpretInstantActions
  PROVE  TypeInv'
<1>1. CASE ValidateOrder
  <2>1. sent.orders + 1 \in DOMAIN Orders /\ sent.orders + 1 \in 0..Len(Orders)
    BY <1>1, ConstantsType DEF ValidateOrder, TypeInv
  <2>2. OrderMsg(sent.orders + 1) \in Message
    BY <2>1 DEF OrderMsg, Message
  <2>3. accepted' \in Seq(Message)
    BY <1>1, <2>2, AppendType DEF ValidateOrder, Accept, TypeInv
  <2>4. sent' \in [orders : 0..Len(Orders), controls : Nat, groups : SUBSET Instants]
    BY <1>1, <2>1 DEF ValidateOrder, TypeInv
  <2>. QED
    BY <1>1, <2>3, <2>4 DEF ValidateOrder, Accept, TypeInv
<1>2. ASSUME NEW G \in Instants, ValidateInstants(G) PROVE TypeInv'
  <2>1. Instant(G) \in Message
    BY DEF Instant, Message
  <2>2. accepted' \in Seq(Message)
    BY <1>2, <2>1, AppendType DEF ValidateInstants, Accept, TypeInv
  <2>3. sent' \in [orders : 0..Len(Orders), controls : Nat, groups : SUBSET Instants]
    BY <1>2 DEF ValidateInstants, TypeInv
  <2>. QED
    BY <1>2, <2>2, <2>3 DEF ValidateInstants, Accept, TypeInv
<1>3. ASSUME NEW c \in Controls, ValidateControl(c) PROVE TypeInv'
  <2>1. Control(c) \in Message
    BY ExecutionAssumption DEF Control, Message
  <2>2. accepted' \in Seq(Message)
    BY <1>3, <2>1, AppendType DEF ValidateControl, Accept, TypeInv
  <2>3. sent' \in [orders : 0..Len(Orders), controls : Nat, groups : SUBSET Instants]
    <3>1. /\ sent.controls + 1 \in Nat
          /\ sent \in [orders : 0..Len(Orders), controls : Nat, groups : SUBSET Instants]
          /\ sent' = [sent EXCEPT !.controls = sent.controls + 1]
      BY <1>3 DEF ValidateControl, TypeInv
    <3>. QED
      BY <3>1
  <2>. QED
    BY <1>3, <2>2, <2>3 DEF ValidateControl, Accept, TypeInv
<1>4. CASE InterpretOrder
  <2>1. Head(accepted) \in Message /\ Tail(accepted) \in Seq(Message)
    BY <1>4, TailType DEF InterpretOrder, TypeInv
  <2>2. Yields(Head(accepted).number) \in Seq(Event)
    BY <1>4, <2>1, MessageCases, YieldsType DEF InterpretOrder
  <2>3. inbox' \in Seq(Event)
    BY <1>4, <2>2, ConcatType DEF InterpretOrder, TypeInv
  <2>4. handled' \in [orders : Nat, groups : SUBSET Instants]
    <3>1. /\ handled.orders + 1 \in Nat
          /\ handled \in [orders : Nat, groups : SUBSET Instants]
          /\ handled' = [handled EXCEPT !.orders = handled.orders + 1]
      BY <1>4 DEF InterpretOrder, TypeInv
    <3>. QED
      BY <3>1
  <2>. QED
    BY <1>4, <2>1, <2>3, <2>4 DEF InterpretOrder, TypeInv
<1>5. CASE InterpretInstantActions
  <2>1. Head(accepted) \in Message /\ Tail(accepted) \in Seq(Message)
    BY <1>5, TailType DEF InterpretInstantActions, TypeInv
  <2>2. inbox' \in Seq(Event)
    BY <1>5, <2>1, MessageCases, AppendType DEF InterpretInstantActions, TypeInv
  <2>. QED
    BY <1>5, <2>1, <2>2 DEF InterpretInstantActions, TypeInv
<1>. QED
  BY <1>1, <1>2, <1>3, <1>4, <1>5

\* The steps of the interpreter event thread.
LEMMA InterpreterTypes ==
  ASSUME TypeInv, InterpreterThread
  PROVE  TypeInv'
<1>. DEFINE s0 == Begin(sch)
            e  == Head(inbox)
<1>1. s0 \in Schedulers
  BY BeginType DEF TypeInv
<1>. HIDE DEF s0
<1>2. ASSUME NEW k, Takes(k) PROVE e \in Event /\ e.kind = k /\ inbox' \in Seq(Event)
  BY <1>2, TailType DEF Takes, TypeInv
<1>. HIDE DEF e
<1>3. ASSUME NEW s \in Schedulers, Call(s), inbox' \in Seq(Event), UNCHANGED <<reports, nreports>>,
             handled' \in [orders : Nat, groups : SUBSET Instants]
      PROVE  TypeInv'
  BY <1>3, CallTypes DEF TypeInv
<1>4. CASE EnqueueYield
  <2>1. e \in Event /\ e.kind \in {"group", "nav"} /\ inbox' \in Seq(Event)
    BY <1>2, <1>4 DEF EnqueueYield
  <2>2. Enqueue(s0, e) \in Schedulers
    BY <1>1, <2>1, EventCases, EnqueueType
  <2>. QED
    BY <1>3, <1>4, <2>1, <2>2 DEF EnqueueYield, TypeInv, s0, e
<1>5. CASE SetGraph
  BY <1>2, <1>5 DEF SetGraph, TypeInv
<1>6. CASE CommitOrder
  BY <1>1, <1>2, <1>3, <1>6, CommitQueueType DEF CommitOrder, TypeInv, s0
<1>7. CASE InstantActions
  <2>1. e \in Event /\ e.kind = "instants" /\ inbox' \in Seq(Event)
    BY <1>2, <1>7 DEF InstantActions
  <2>2. e.group \in Instants
    BY <2>1, EventCases
  <2>3. Interrupt(s0, e.group) \in Schedulers
    BY <1>1, <2>2, InterruptType, ConstantsType
  <2>4. handled' \in [orders : Nat, groups : SUBSET Instants]
    BY <1>7, <2>2 DEF InstantActions, TypeInv, e
  <2>. QED
    BY <1>3, <1>7, <2>1, <2>3, <2>4 DEF InstantActions, s0, e
<1>8. CASE OrderControl
  <2>1. e \in Event /\ e.kind = "control" /\ inbox' \in Seq(Event)
    BY <1>2, <1>8 DEF OrderControl
  <2>2. e.type \in ControlAction
    BY <2>1, EventCases
  <2>3. Pause(s0) \in Schedulers /\ Resume(s0) \in Schedulers /\ Cancel(s0) \in Schedulers
    BY <1>1, PauseType, ResumeType, CancelType
  <2>. DEFINE r == CASE e.type = "startPause"  -> Pause(s0)
                     [] e.type = "stopPause"   -> Resume(s0)
                     [] e.type = "cancelOrder" -> Cancel(s0)
  <2>4. r \in Schedulers
    BY <2>2, <2>3 DEF ControlAction
  <2>5. Call(r) /\ UNCHANGED <<handled, reports, nreports>>
    BY <1>8 DEF OrderControl, s0, e
  <2>. HIDE DEF r
  <2>. QED
    BY <1>3, <2>1, <2>4, <2>5 DEF TypeInv
<1>9. CASE DeclineControl
  BY <1>2, <1>9 DEF DeclineControl, TypeInv
<1>. QED
  BY <1>4, <1>5, <1>6, <1>7, <1>8, <1>9 DEF InterpreterThread

\* The steps of the status threads.
LEMMA StatusTypes ==
  ASSUME TypeInv,
         HandleStatus \/ (\E a \in Action : ActionStatus(a)) \/ NavigationStatus
  PROVE  TypeInv'
<1>. DEFINE s0 == Begin(sch)
<1>1. s0 \in Schedulers
  BY BeginType DEF TypeInv
<1>. HIDE DEF s0
<1>2. CASE HandleStatus
  BY <1>2, TailType DEF HandleStatus, TypeInv
<1>3. ASSUME NEW a \in Action, ActionStatus(a) PROVE TypeInv'
  <2>1. Head(reports[a]) \in ActionReport /\ Tail(reports[a]) \in Seq(ActionReport)
    BY <1>3, TailType DEF ActionStatus, TypeInv
  <2>2. reports' \in [Action -> Seq(ActionReport)]
    BY <1>3, <2>1 DEF ActionStatus, TypeInv
  <2>3. CASE a \in sch.active
    <3>1. ReportAction(s0, a, Head(reports[a])) \in Schedulers
      BY <1>1, <2>1, ReportActionType DEF ActionTransition
    <3>2. Call(ReportAction(s0, a, Head(reports[a])))
      BY <1>3, <2>3 DEF ActionStatus, s0
    <3>. QED
      BY <1>3, <2>2, <3>1, <3>2, CallTypes DEF ActionStatus, TypeInv
  <2>4. CASE a \notin sch.active
    BY <1>3, <2>2, <2>4 DEF ActionStatus, Refused, TypeInv
  <2>. QED
    BY <2>3, <2>4
<1>4. CASE NavigationStatus
  <2>. DEFINE r == Head(nreports)
  <2>1. r \in [type : NavReport, goal : Nat] /\ nreports' \in Seq([type : NavReport, goal : Nat])
    BY <1>4, TailType DEF NavigationStatus, TypeInv
  <2>2. ASSUME NEW s \in Schedulers, Call(s) PROVE TypeInv'
    BY <1>4, <2>1, <2>2, CallTypes DEF NavigationStatus, TypeInv
  <2>3. ReportNav(s0, r.type, r.goal) \in Schedulers /\ ReachUnrecorded(s0, r.goal) \in Schedulers
    BY <1>1, <2>1, ReportNavType, ReachUnrecordedType DEF NavTransition
  <2>4. CASE Refused
    BY <1>4, <2>1, <2>4 DEF NavigationStatus, Refused, TypeInv
  <2>5. \/ Call(ReportNav(s0, r.type, r.goal)) \/ Call(ReachUnrecorded(s0, r.goal)) \/ Refused
    BY <1>4 DEF NavigationStatus, s0
  <2>. QED
    BY <2>2, <2>3, <2>4, <2>5
<1>. QED
  BY <1>2, <1>3, <1>4

\* The steps of the AGV.
LEMMA WorksTypes ==
  ASSUME TypeInv, NEW g \in Agvs, NEW a \in Action,
         NEW w \in {"idle", "started", "running", "halted", "resting", "over"},
         NEW r \in Seq(ActionReport), Works(g, a, w, r)
  PROVE  TypeInv'
<1>1. reports' \in [Action -> Seq(ActionReport)]
  BY ConcatType DEF Works, TypeInv
<1>2. agv' \in Agvs
  BY DEF Works, Agvs
<1>. QED
  BY <1>1, <1>2 DEF Works, OnlyAgv, TypeInv

LEMMA DrivesTypes ==
  ASSUME TypeInv, NEW g \in Agvs, NEW d \in {"standing", "driving", "halted", "resting"},
         NEW r \in Seq(NavReport), Drives(g, d, r)
  PROVE  TypeInv'
<1>. DEFINE n == [i \in 1..Len(r) |-> [type |-> r[i], goal |-> g.goal]]
<1>1. n \in Seq([type : NavReport, goal : Nat])
  BY DEF Agvs
<1>. HIDE DEF n
<1>2. nreports' = nreports \o n
  BY DEF Drives, n
<1>3. nreports' \in Seq([type : NavReport, goal : Nat])
  BY <1>1, <1>2, ConcatType DEF TypeInv
<1>4. agv' \in Agvs
  BY DEF Drives, Agvs
<1>. QED
  BY <1>3, <1>4 DEF Drives, OnlyAgv, TypeInv

Agv ==
  \/ \E a \in Action :
       HandleActionCommand(a) \/ BeginWork(a) \/ EndWork(a) \/ HaltWork(a) \/ ResumeWork(a)
  \/ HandleNavigationCommand \/ EndDrive \/ HaltDrive \/ DriveOn

LEMMA AgvTypes ==
  ASSUME TypeInv, Agv
  PROVE  TypeInv'
<1>1. /\ \A r \in ActionReport : <<r>> \in Seq(ActionReport)
      /\ \A r \in NavReport : <<r>> \in Seq(NavReport)
      /\ <<>> \in Seq(ActionReport) /\ <<>> \in Seq(NavReport)
  OBVIOUS
<1>2. agv \in Agvs
  BY DEF TypeInv
<1>3. ASSUME NEW a \in Action, HandleActionCommand(a) PROVE TypeInv'
  <2>. DEFINE w == agv.work[a]
              g == [agv EXCEPT !.cmds[a] = Tail(@)]
  <2>1. Tail(agv.cmds[a]) \in Seq(Commands) /\ w \in {"idle", "started", "running", "halted", "resting", "over"}
    BY <1>2, <1>3, TailType DEF HandleActionCommand, Agvs
  <2>2. g \in Agvs
    BY <1>2, <2>1 DEF Agvs
  <2>3. \/ Works(g, a, "started", <<>>) \/ Works(g, a, "resting", <<"is_paused">>)
        \/ Works(g, a, "running", <<"is_running">>) \/ Works(g, a, "over", <<"is_failed">>)
        \/ Works(g, a, w, <<>>)
    BY <1>3 DEF HandleActionCommand
  <2>. HIDE DEF g, w
  <2>. QED
    BY <1>1, <2>1, <2>2, <2>3, WorksTypes DEF ActionReport
<1>4. ASSUME NEW a \in Action, BeginWork(a) \/ EndWork(a) \/ ResumeWork(a) PROVE TypeInv'
  BY <1>1, <1>2, <1>4, WorksTypes DEF BeginWork, EndWork, ResumeWork, ActionReport
<1>5. [agv EXCEPT !.halts = @ + 1] \in Agvs
  BY <1>2 DEF Agvs
<1>6. ASSUME NEW a \in Action, HaltWork(a) PROVE TypeInv'
  BY <1>1, <1>5, <1>6, WorksTypes DEF HaltWork, ActionReport
<1>7. CASE HandleNavigationCommand
  <2>. DEFINE c == Head(agv.ncmds)
              g == [agv EXCEPT !.ncmds = Tail(@)]
              h == [g EXCEPT !.goal = c.goal]
  <2>1. c \in [to : Commands, goal : Nat] /\ Tail(agv.ncmds) \in Seq([to : Commands, goal : Nat])
    BY <1>2, <1>7, TailType DEF HandleNavigationCommand, Agvs
  <2>2. g \in Agvs /\ h \in Agvs /\ agv.drive \in {"standing", "driving", "halted", "resting"}
    BY <1>2, <2>1 DEF Agvs
  <2>3. \/ Drives(h, "driving", <<>>) \/ Drives(g, "resting", <<"is_paused">>)
        \/ Drives(g, "driving", <<"is_resumed">>) \/ Drives(g, "standing", <<"is_failed">>)
        \/ Drives(g, agv.drive, <<>>)
    BY <1>7 DEF HandleNavigationCommand
  <2>. HIDE DEF g, h
  <2>. QED
    BY <1>1, <2>2, <2>3, DrivesTypes DEF NavReport
<1>8. CASE EndDrive \/ DriveOn
  BY <1>1, <1>2, <1>8, DrivesTypes DEF EndDrive, DriveOn, NavReport
<1>9. CASE HaltDrive
  BY <1>1, <1>5, <1>9, DrivesTypes DEF HaltDrive, NavReport
<1>. QED
  BY <1>3, <1>4, <1>6, <1>7, <1>8, <1>9 DEF Agv

LEMMA TypeNext == TypeInv /\ [Next]_vars => TypeInv'
<1>. SUFFICES ASSUME TypeInv, [Next]_vars PROVE TypeInv'
  OBVIOUS
<1>1. CASE UNCHANGED vars
  BY <1>1 DEF vars, TypeInv
<1>2. CASE Next
  BY <1>2, MessageTypes, InterpreterTypes, StatusTypes, AgvTypes DEF Next, Agv
<1>. QED
  BY <1>1, <1>2

\* The types hold in every run.
THEOREM TypesHold == Spec => []TypeInv
  BY TypeInit, TypeNext, PTL DEF Spec

-------------------------------------------------------------------------------
(* The messages on their way *)

LEMMA AppendElements ==
  ASSUME NEW S, NEW q \in Seq(S), NEW e
  PROVE  /\ Len(q) \in Nat /\ DOMAIN q = 1..Len(q)
         /\ \A i \in DOMAIN Append(q, e) :
              \/ i \in DOMAIN q /\ Append(q, e)[i] = q[i]
              \/ i = Len(q) + 1 /\ Append(q, e)[i] = e
         /\ \A i \in DOMAIN q : i \in DOMAIN Append(q, e) /\ Append(q, e)[i] = q[i] /\ i < Len(q) + 1
         /\ Len(q) + 1 \in DOMAIN Append(q, e) /\ Append(q, e)[Len(q) + 1] = e
  OBVIOUS

LEMMA TailElements ==
  ASSUME NEW S, NEW q \in Seq(S), q # <<>>
  PROVE  /\ 1 \in DOMAIN q /\ q[1] = Head(q)
         /\ \A i \in DOMAIN Tail(q) :
              i \in Nat /\ i # 0 /\ i + 1 \in DOMAIN q /\ Tail(q)[i] = q[i + 1]
         /\ \A i \in DOMAIN q : i \in Nat /\ (i = 1 \/ (i - 1 \in DOMAIN Tail(q) /\ Tail(q)[i - 1] = q[i]))
  OBVIOUS

LEMMA ConcatElements ==
  ASSUME NEW S, NEW q \in Seq(S), NEW r \in Seq(S)
  PROVE  /\ Len(q) \in Nat /\ DOMAIN q = 1..Len(q)
         /\ \A i \in DOMAIN (q \o r) :
              \/ i \in DOMAIN q /\ (q \o r)[i] = q[i]
              \/ i - Len(q) \in DOMAIN r /\ i > Len(q) /\ (q \o r)[i] = r[i - Len(q)]
  OBVIOUS

IsOrder(m) == m.kind = "order"
IsGroup(m) == m.kind = "instants"

\* The orders that were accepted and not interpreted are in the message queue, one
\* after the other.
OrdersInLine ==
  /\ handled.orders <= sent.orders
  /\ \A i \in DOMAIN accepted :
       IsOrder(accepted[i]) =>
         handled.orders < accepted[i].number /\ accepted[i].number <= sent.orders
  /\ \A i, j \in DOMAIN accepted :
       i < j /\ IsOrder(accepted[i]) /\ IsOrder(accepted[j]) =>
         accepted[i].number < accepted[j].number
  /\ \A n \in Nat : handled.orders < n /\ n <= sent.orders =>
       \E i \in DOMAIN accepted : IsOrder(accepted[i]) /\ accepted[i].number = n

\* A group that was sent is in one of the queues, once, or with the scheduler.
GroupsOnce ==
  /\ \A i \in DOMAIN accepted :
       IsGroup(accepted[i]) => accepted[i].group \in sent.groups \ handled.groups
  /\ \A i \in DOMAIN inbox :
       IsGroup(inbox[i]) => inbox[i].group \in sent.groups \ handled.groups
  /\ \A i, j \in DOMAIN accepted :
       i # j /\ IsGroup(accepted[i]) /\ IsGroup(accepted[j]) =>
         accepted[i].group # accepted[j].group
  /\ \A i, j \in DOMAIN inbox :
       i # j /\ IsGroup(inbox[i]) /\ IsGroup(inbox[j]) => inbox[i].group # inbox[j].group
  /\ \A i \in DOMAIN accepted, j \in DOMAIN inbox :
       IsGroup(accepted[i]) /\ IsGroup(inbox[j]) => accepted[i].group # inbox[j].group
  /\ handled.groups \subseteq sent.groups

LineInv == TypeInv /\ OrdersInLine /\ GroupsOnce

LEMMA LineInit == Init => LineInv
<1>. SUFFICES ASSUME Init PROVE LineInv
  OBVIOUS
<1>1. DOMAIN <<>> = {}
  OBVIOUS
<1>. QED
  BY <1>1, TypeInit DEF Init, LineInv, OrdersInLine, GroupsOnce

\* The next order to interpret is the one after the last.
LEMMA NextOrder ==
  ASSUME LineInv, accepted # <<>>, IsOrder(Head(accepted))
  PROVE  /\ Head(accepted).number = handled.orders + 1
         /\ handled.orders + 1 \in DOMAIN Orders /\ handled.orders + 1 <= sent.orders
<1>. DEFINE n == handled.orders + 1
            k == Head(accepted).number
<1>1. /\ accepted \in Seq(Message) /\ handled.orders \in Nat /\ sent.orders \in Nat
      /\ Head(accepted) \in Message
  BY TailType DEF LineInv, TypeInv
<1>2. 1 \in DOMAIN accepted /\ accepted[1] = Head(accepted)
  BY <1>1, TailElements
<1>3. handled.orders < k /\ k <= sent.orders /\ k \in DOMAIN Orders
  BY <1>1, <1>2, MessageCases DEF LineInv, OrdersInLine, IsOrder
<1>4. k \in Nat
  BY <1>3, ConstantsType
<1>5. PICK i \in DOMAIN accepted : IsOrder(accepted[i]) /\ accepted[i].number = n
  BY <1>1, <1>3, <1>4 DEF LineInv, OrdersInLine
<1>6. i \in Nat /\ (i = 1 \/ 1 < i)
  BY <1>1, <1>5
<1>7. 1 < i => k < n
  BY <1>2, <1>5 DEF LineInv, OrdersInLine
<1>8. k = n
  BY <1>1, <1>2, <1>3, <1>4, <1>5, <1>6, <1>7
<1>. QED
  BY <1>3, <1>8

\* A message that is no order comes.
LEMMA LineOther ==
  ASSUME LineInv, NEW m, ~IsOrder(m), accepted' = Append(accepted, m),
         sent'.orders = sent.orders, handled'.orders = handled.orders
  PROVE  OrdersInLine'
<1>1. accepted \in Seq(Message)
  BY DEF LineInv, TypeInv
<1>. DEFINE q == Append(accepted, m)
<1>2. /\ \A i \in DOMAIN q : IsOrder(q[i]) => i \in DOMAIN accepted /\ q[i] = accepted[i]
      /\ \A i \in DOMAIN accepted : i \in DOMAIN q /\ q[i] = accepted[i]
  BY <1>1, AppendElements
<1>. HIDE DEF q
<1>3. accepted' = q
  BY DEF q
<1>. QED
  BY <1>2, <1>3 DEF LineInv, OrdersInLine

LEMMA LineOrder ==
  ASSUME LineInv, NEW m, IsOrder(m), m.number = sent.orders + 1, accepted' = Append(accepted, m),
         sent'.orders = sent.orders + 1, handled'.orders = handled.orders
  PROVE  OrdersInLine'
<1>1. accepted \in Seq(Message) /\ handled.orders \in Nat /\ sent.orders \in Nat
  BY DEF LineInv, TypeInv
<1>. DEFINE q == Append(accepted, m)
            N == Len(accepted) + 1
<1>2. /\ \A i \in DOMAIN q : \/ i \in DOMAIN accepted /\ q[i] = accepted[i] /\ i < N
                             \/ i = N /\ q[i] = m
      /\ \A i \in DOMAIN accepted : i \in DOMAIN q /\ q[i] = accepted[i] /\ i \in Nat
      /\ N \in DOMAIN q /\ q[N] = m /\ N \in Nat
  BY <1>1, AppendElements
<1>. HIDE DEF q, N
<1>3. accepted' = q
  BY DEF q
<1>4. \A i \in DOMAIN accepted : IsOrder(accepted[i]) => accepted[i].number \in Nat
  <2>1. \A i \in DOMAIN accepted : accepted[i] \in Message
    BY <1>1
  <2>. QED
    BY <2>1, MessageCases, ConstantsType DEF IsOrder
<1>5. \A i \in DOMAIN q :
        IsOrder(q[i]) => handled.orders < q[i].number /\ q[i].number <= sent.orders + 1
  BY <1>1, <1>2, <1>4 DEF LineInv, OrdersInLine
<1>6. \A i, j \in DOMAIN q : i < j /\ IsOrder(q[i]) /\ IsOrder(q[j]) => q[i].number < q[j].number
  <2>. SUFFICES ASSUME NEW i \in DOMAIN q, NEW j \in DOMAIN q, i < j, IsOrder(q[i]), IsOrder(q[j])
                PROVE  q[i].number < q[j].number
    OBVIOUS
  <2>1. i \in DOMAIN accepted /\ q[i] = accepted[i]
    BY <1>2
  <2>2. CASE j \in DOMAIN accepted /\ q[j] = accepted[j]
    BY <2>1, <2>2 DEF LineInv, OrdersInLine
  <2>3. CASE q[j] = m
    BY <1>1, <1>4, <2>1, <2>3 DEF LineInv, OrdersInLine
  <2>. QED
    BY <1>2, <2>2, <2>3
<1>7. ASSUME NEW n \in Nat, handled.orders < n, n <= sent.orders + 1
      PROVE  \E i \in DOMAIN q : IsOrder(q[i]) /\ q[i].number = n
  <2>1. CASE n = sent.orders + 1
    BY <1>2, <2>1
  <2>2. CASE n <= sent.orders
    BY <1>2, <1>7, <2>2 DEF LineInv, OrdersInLine
  <2>. QED
    BY <1>1, <1>7, <2>1, <2>2
<1>. QED
  BY <1>1, <1>3, <1>5, <1>6, <1>7 DEF LineInv, OrdersInLine

\* The first message is interpreted.
LEMMA LineTail ==
  ASSUME LineInv, accepted # <<>>, accepted' = Tail(accepted), sent'.orders = sent.orders,
         handled'.orders = IF IsOrder(Head(accepted)) THEN handled.orders + 1 ELSE handled.orders
  PROVE  OrdersInLine'
<1>1. accepted \in Seq(Message) /\ handled.orders \in Nat /\ sent.orders \in Nat
  BY DEF LineInv, TypeInv
<1>. DEFINE q == Tail(accepted)
            h == IF IsOrder(Head(accepted)) THEN handled.orders + 1 ELSE handled.orders
<1>2. /\ 1 \in DOMAIN accepted /\ accepted[1] = Head(accepted)
      /\ \A i \in DOMAIN q : /\ i \in Nat /\ 1 < i + 1 /\ i + 1 \in DOMAIN accepted
                              /\ q[i] = accepted[i + 1]
      /\ \A i \in DOMAIN accepted :
           i = 1 \/ (i - 1 \in DOMAIN q /\ q[i - 1] = accepted[i])
  BY <1>1, TailElements
<1>. HIDE DEF q
<1>3. accepted' = q /\ handled'.orders = h
  BY DEF q
<1>4. IsOrder(Head(accepted)) => Head(accepted).number = h /\ h <= sent.orders
  BY NextOrder
<1>5. h \in Nat /\ h <= sent.orders /\ handled.orders <= h
  BY <1>1, <1>4 DEF LineInv, OrdersInLine
<1>6. \A i \in DOMAIN accepted : IsOrder(accepted[i]) => accepted[i].number \in Nat
  <2>1. \A i \in DOMAIN accepted : accepted[i] \in Message
    BY <1>1
  <2>. QED
    BY <2>1, MessageCases, ConstantsType DEF IsOrder
<1>7. ASSUME NEW i \in DOMAIN q, IsOrder(q[i])
      PROVE  h < q[i].number /\ q[i].number <= sent.orders
  <2>1. 1 < i + 1 /\ i + 1 \in DOMAIN accepted /\ q[i] = accepted[i + 1]
    BY <1>2
  <2>2. handled.orders < q[i].number /\ q[i].number <= sent.orders
    BY <1>7, <2>1 DEF LineInv, OrdersInLine
  <2>3. IsOrder(Head(accepted)) => Head(accepted).number < q[i].number
    BY <1>2, <1>7, <2>1 DEF LineInv, OrdersInLine
  <2>. QED
    BY <1>4, <2>2, <2>3
<1>8. ASSUME NEW i \in DOMAIN q, NEW j \in DOMAIN q, i < j, IsOrder(q[i]), IsOrder(q[j])
      PROVE  q[i].number < q[j].number
  <2>1. i + 1 < j + 1
    BY <1>2, <1>8
  <2>. QED
    BY <1>2, <1>8, <2>1 DEF LineInv, OrdersInLine
<1>9. ASSUME NEW n \in Nat, h < n, n <= sent.orders
      PROVE  \E i \in DOMAIN q : IsOrder(q[i]) /\ q[i].number = n
  <2>1. handled.orders < n
    BY <1>1, <1>5, <1>9
  <2>2. PICK i \in DOMAIN accepted : IsOrder(accepted[i]) /\ accepted[i].number = n
    BY <1>9, <2>1 DEF LineInv, OrdersInLine
  <2>3. i # 1
    BY <1>2, <1>4, <1>5, <1>9, <2>2
  <2>. QED
    BY <1>2, <2>2, <2>3
<1>. HIDE DEF h
<1>. QED
  BY <1>3, <1>5, <1>7, <1>8, <1>9 DEF OrdersInLine

\* A message comes.
LEMMA GroupsAppend ==
  ASSUME LineInv, NEW m, accepted' = Append(accepted, m), UNCHANGED <<inbox, handled>>,
         IF IsGroup(m) THEN m.group \notin sent.groups /\ sent'.groups = sent.groups \cup {m.group}
                       ELSE sent'.groups = sent.groups
  PROVE  GroupsOnce'
<1>1. accepted \in Seq(Message)
  BY DEF LineInv, TypeInv
<1>. DEFINE q == Append(accepted, m)
            N == Len(accepted) + 1
<1>2. /\ \A i \in DOMAIN q : \/ i \in DOMAIN accepted /\ q[i] = accepted[i]
                             \/ i = N /\ q[i] = m
  BY <1>1, AppendElements
<1>. HIDE DEF q, N
<1>3. accepted' = q
  BY DEF q
<1>4. \A i \in DOMAIN q : IsGroup(q[i]) => q[i].group \in sent'.groups \ handled'.groups
  BY <1>2 DEF LineInv, GroupsOnce
<1>5. \A i \in DOMAIN inbox : IsGroup(inbox[i]) => inbox[i].group \in sent'.groups \ handled'.groups
  BY DEF LineInv, GroupsOnce
<1>6. \A i, j \in DOMAIN q : i # j /\ IsGroup(q[i]) /\ IsGroup(q[j]) => q[i].group # q[j].group
  BY <1>2 DEF LineInv, GroupsOnce
<1>7. \A i \in DOMAIN q, j \in DOMAIN inbox :
        IsGroup(q[i]) /\ IsGroup(inbox[j]) => q[i].group # inbox[j].group
  BY <1>2 DEF LineInv, GroupsOnce
<1>8. handled'.groups \subseteq sent'.groups
  BY DEF LineInv, GroupsOnce
<1>. QED
  BY <1>3, <1>4, <1>5, <1>6, <1>7, <1>8 DEF LineInv, GroupsOnce

\* The first message goes to the interpreter's queue, or what is yielded for it, which
\* are no groups of instant actions.
LEMMA GroupsMove ==
  ASSUME LineInv, accepted # <<>>, NEW r \in Seq(Event), accepted' = Tail(accepted),
         inbox' = inbox \o r, sent'.groups = sent.groups, handled'.groups = handled.groups,
         \A i \in DOMAIN r : IsGroup(r[i]) => r = <<Head(accepted)>>
  PROVE  GroupsOnce'
<1>1. accepted \in Seq(Message) /\ inbox \in Seq(Event)
  BY DEF LineInv, TypeInv
<1>. DEFINE q == Tail(accepted)
            t == inbox \o r
            m == accepted[1]
            N == Len(inbox)
<1>2. /\ 1 \in DOMAIN accepted /\ m = Head(accepted)
      /\ \A i \in DOMAIN q : /\ i \in Nat /\ i + 1 # 1 /\ i + 1 \in DOMAIN accepted
                              /\ q[i] = accepted[i + 1]
  BY <1>1, TailElements
<1>3. \A i, j \in Nat : i # j => i + 1 # j + 1
  OBVIOUS
<1>4. \A i \in DOMAIN t : \/ i \in DOMAIN inbox /\ t[i] = inbox[i]
                          \/ i - N \in DOMAIN r /\ t[i] = r[i - N] /\ i > N
  BY <1>1, ConcatElements
<1>. HIDE DEF q, t, m
<1>5. \A i \in DOMAIN t :
        IsGroup(t[i]) => \/ i \in DOMAIN inbox /\ t[i] = inbox[i]
                         \/ i = N + 1 /\ t[i] = m
  <2>. SUFFICES ASSUME NEW i \in DOMAIN t, IsGroup(t[i]), i - N \in DOMAIN r, t[i] = r[i - N], i > N
                PROVE  i = N + 1 /\ t[i] = m
    BY <1>4
  <2>1. r = <<m>>
    BY <1>2
  <2>2. i - N = 1 /\ r[1] = m
    BY <2>1
  <2>3. i \in Int /\ N \in Int
    BY <1>1, <1>4 DEF t
  <2>. QED
    BY <2>2, <2>3
<1>6. accepted' = q /\ inbox' = t
  BY DEF q, t
<1>7. \A i \in DOMAIN q : IsGroup(q[i]) => q[i].group \in sent.groups \ handled.groups
  BY <1>2 DEF LineInv, GroupsOnce
<1>8. \A i \in DOMAIN t : IsGroup(t[i]) => t[i].group \in sent.groups \ handled.groups
  BY <1>2, <1>5 DEF LineInv, GroupsOnce
<1>9. \A i, j \in DOMAIN q : i # j /\ IsGroup(q[i]) /\ IsGroup(q[j]) => q[i].group # q[j].group
  BY <1>2, <1>3 DEF LineInv, GroupsOnce
<1>10. \A i, j \in DOMAIN t : i # j /\ IsGroup(t[i]) /\ IsGroup(t[j]) => t[i].group # t[j].group
  BY <1>2, <1>5 DEF LineInv, GroupsOnce
<1>11. \A i \in DOMAIN q, j \in DOMAIN t :
         IsGroup(q[i]) /\ IsGroup(t[j]) => q[i].group # t[j].group
  BY <1>2, <1>5 DEF LineInv, GroupsOnce
<1>. QED
  BY <1>6, <1>7, <1>8, <1>9, <1>10, <1>11 DEF LineInv, GroupsOnce

\* The interpreter event thread takes an event.
LEMMA GroupsTaken ==
  ASSUME LineInv, inbox # <<>>, inbox' = Tail(inbox), UNCHANGED <<accepted, sent>>,
         IF IsGroup(Head(inbox))
         THEN handled'.groups \subseteq handled.groups \cup {Head(inbox).group}
         ELSE handled'.groups = handled.groups
  PROVE  GroupsOnce'
<1>1. inbox \in Seq(Event)
  BY DEF LineInv, TypeInv
<1>. DEFINE q == Tail(inbox)
            m == inbox[1]
<1>2. /\ 1 \in DOMAIN inbox /\ m = Head(inbox)
      /\ \A i \in DOMAIN q : /\ i \in Nat /\ i + 1 # 1 /\ i + 1 \in DOMAIN inbox
                              /\ q[i] = inbox[i + 1]
  BY <1>1, TailElements
<1>3. \A i, j \in Nat : i # j => i + 1 # j + 1
  OBVIOUS
<1>. HIDE DEF q, m
<1>4. inbox' = q
  BY DEF q
<1>5. \A i \in DOMAIN q : IsGroup(q[i]) => q[i].group \in sent.groups \ handled'.groups
  BY <1>2 DEF LineInv, GroupsOnce
<1>6. \A i \in DOMAIN accepted :
        IsGroup(accepted[i]) => accepted[i].group \in sent.groups \ handled'.groups
  BY <1>2 DEF LineInv, GroupsOnce
<1>7. \A i, j \in DOMAIN q : i # j /\ IsGroup(q[i]) /\ IsGroup(q[j]) => q[i].group # q[j].group
  BY <1>2, <1>3 DEF LineInv, GroupsOnce
<1>8. \A i \in DOMAIN accepted, j \in DOMAIN q :
        IsGroup(accepted[i]) /\ IsGroup(q[j]) => accepted[i].group # q[j].group
  BY <1>2 DEF LineInv, GroupsOnce
<1>9. handled'.groups \subseteq sent.groups
  BY <1>2 DEF LineInv, GroupsOnce
<1>. QED
  BY <1>4, <1>5, <1>6, <1>7, <1>8, <1>9 DEF LineInv, GroupsOnce

LEMMA LineNext == LineInv /\ [Next]_vars => LineInv'
<1>. SUFFICES ASSUME LineInv, [Next]_vars PROVE LineInv'
  OBVIOUS
<1>1. TypeInv'
  BY TypeNext DEF LineInv
<1>2. ASSUME UNCHANGED <<accepted, inbox, sent, handled>> PROVE OrdersInLine' /\ GroupsOnce'
  BY <1>2 DEF LineInv, OrdersInLine, GroupsOnce
<1>3. CASE ValidateOrder
  <2>. DEFINE m == OrderMsg(sent.orders + 1)
  <2>1. /\ IsOrder(m) /\ ~IsGroup(m) /\ m.number = sent.orders + 1
        /\ accepted' = Append(accepted, m) /\ UNCHANGED <<inbox, handled>>
        /\ sent'.orders = sent.orders + 1 /\ sent'.groups = sent.groups
    BY <1>3 DEF ValidateOrder, Accept, OrderMsg, IsOrder, IsGroup, LineInv, TypeInv
  <2>. HIDE DEF m
  <2>2. OrdersInLine'
    BY <2>1, LineOrder
  <2>3. GroupsOnce'
    BY <2>1, GroupsAppend
  <2>. QED
    BY <2>2, <2>3, <1>1 DEF LineInv
<1>4. ASSUME NEW G \in Instants, ValidateInstants(G) PROVE LineInv'
  <2>. DEFINE m == Instant(G)
  <2>1. /\ ~IsOrder(m) /\ IsGroup(m) /\ m.group = G /\ G \notin sent.groups
        /\ accepted' = Append(accepted, m) /\ UNCHANGED <<inbox, handled>>
        /\ sent'.orders = sent.orders /\ sent'.groups = sent.groups \cup {G}
    BY <1>4 DEF ValidateInstants, Accept, Instant, IsOrder, IsGroup, LineInv, TypeInv
  <2>. HIDE DEF m
  <2>2. OrdersInLine'
    BY <2>1, LineOther
  <2>3. GroupsOnce'
    BY <2>1, GroupsAppend
  <2>. QED
    BY <2>2, <2>3, <1>1 DEF LineInv
<1>5. ASSUME NEW c \in Controls, ValidateControl(c) PROVE LineInv'
  <2>. DEFINE m == Control(c)
  <2>1. /\ ~IsOrder(m) /\ ~IsGroup(m)
        /\ accepted' = Append(accepted, m) /\ UNCHANGED <<inbox, handled>>
        /\ sent'.orders = sent.orders /\ sent'.groups = sent.groups
    BY <1>5 DEF ValidateControl, Accept, Control, IsOrder, IsGroup, LineInv, TypeInv
  <2>. HIDE DEF m
  <2>2. OrdersInLine'
    BY <2>1, LineOther
  <2>3. GroupsOnce'
    BY <2>1, GroupsAppend
  <2>. QED
    BY <2>2, <2>3, <1>1 DEF LineInv
<1>6. CASE InterpretOrder
  <2>. DEFINE n == Head(accepted).number
              r == Yields(n)
  <2>1. /\ accepted # <<>> /\ IsOrder(Head(accepted)) /\ Head(accepted) \in Message
        /\ accepted' = Tail(accepted) /\ inbox' = inbox \o r /\ UNCHANGED sent
        /\ handled'.orders = handled.orders + 1 /\ handled'.groups = handled.groups
    BY <1>6, TailType DEF InterpretOrder, IsOrder, LineInv, TypeInv
  <2>2. n \in DOMAIN Orders
    BY <2>1, MessageCases DEF IsOrder
  <2>3. \A i \in DOMAIN r : ~IsGroup(r[i])
    <3>. DEFINE e == <<GraphOf(n), Done>>
    <3>1. Orders[n] \in Seq(Event) /\ e \in Seq(Event) /\ r = Orders[n] \o e
      BY <2>2, YieldsType DEF Yields
    <3>2. \A i \in DOMAIN e : ~IsGroup(e[i])
      BY DEF GraphOf, Done, IsGroup
    <3>3. \A i \in DOMAIN Orders[n] : ~IsGroup(Orders[n][i])
      <4>1. \A i \in DOMAIN Orders[n] : Orders[n][i] \in Yield
        BY <2>2, ConstantsType
      <4>. QED
        BY <4>1 DEF Yield, Group, NavStep, IsGroup
    <3>. HIDE DEF e, r
    <3>. QED
      BY <3>1, <3>2, <3>3, ConcatElements
  <2>4. r \in Seq(Event)
    BY <2>2, YieldsType
  <2>. HIDE DEF r
  <2>5. GroupsOnce'
    BY <2>1, <2>3, <2>4, GroupsMove
  <2>6. OrdersInLine'
    BY <2>1, LineTail
  <2>. QED
    BY <2>5, <2>6, <1>1 DEF LineInv
<1>7. CASE InterpretInstantActions
  <2>. DEFINE m == Head(accepted)
  <2>1. /\ accepted # <<>> /\ m \in Message /\ ~IsOrder(m)
        /\ accepted' = Tail(accepted) /\ inbox' = Append(inbox, m) /\ UNCHANGED <<sent, handled>>
        /\ inbox \in Seq(Event)
    BY <1>7, TailType DEF InterpretInstantActions, IsOrder, LineInv, TypeInv
  <2>2. m \in Event
    BY <2>1, MessageCases DEF IsOrder
  <2>3. <<m>> \in Seq(Event) /\ inbox' = inbox \o <<m>>
    BY <2>1, <2>2, AppendOne
  <2>4. GroupsOnce'
    BY <2>1, <2>3, GroupsMove
  <2>5. OrdersInLine'
    BY <2>1, LineTail
  <2>. QED
    BY <2>4, <2>5, <1>1 DEF LineInv
<1>8. CASE InterpreterThread
  <2>1. /\ inbox # <<>> /\ inbox' = Tail(inbox) /\ UNCHANGED <<accepted, sent>>
        /\ handled'.orders = handled.orders
        /\ IF IsGroup(Head(inbox))
           THEN handled'.groups \subseteq handled.groups \cup {Head(inbox).group}
           ELSE handled'.groups = handled.groups
    <3>1. CASE EnqueueYield
      BY <3>1 DEF EnqueueYield, Takes, Call
    <3>2. CASE SetGraph
      BY <3>2 DEF SetGraph, Takes
    <3>3. CASE CommitOrder
      BY <3>3 DEF CommitOrder, Takes, Call
    <3>4. CASE InstantActions
      BY <3>4 DEF InstantActions, Takes, Call, IsGroup, LineInv, TypeInv
    <3>5. CASE OrderControl
      BY <3>5 DEF OrderControl, Takes, Call
    <3>6. CASE DeclineControl
      BY <3>6 DEF DeclineControl, Takes
    <3>. QED
      BY <1>8, <3>1, <3>2, <3>3, <3>4, <3>5, <3>6 DEF InterpreterThread
  <2>2. GroupsOnce'
    BY <2>1, GroupsTaken
  <2>3. OrdersInLine'
    BY <2>1 DEF LineInv, OrdersInLine
  <2>. QED
    BY <2>2, <2>3, <1>1 DEF LineInv
<1>9. CASE HandleStatus \/ (\E a \in Action : ActionStatus(a)) \/ NavigationStatus
  <2>1. UNCHANGED <<accepted, inbox, sent, handled>>
    BY <1>9 DEF HandleStatus, ActionStatus, NavigationStatus, Call, Refused
  <2>. QED
    BY <1>1, <1>2, <2>1 DEF LineInv
<1>10. CASE Agv
  <2>1. OnlyAgv
    BY <1>10 DEF Agv, HandleActionCommand, BeginWork, EndWork, HaltWork, ResumeWork, Works,
                 HandleNavigationCommand, EndDrive, HaltDrive, DriveOn, Drives
  <2>. QED
    BY <1>1, <1>2, <2>1 DEF LineInv, OnlyAgv
<1>11. CASE UNCHANGED vars
  BY <1>1, <1>2, <1>11 DEF vars, LineInv
<1>. QED
  BY <1>3, <1>4, <1>5, <1>6, <1>7, <1>8, <1>9, <1>10, <1>11 DEF Next, Agv

LEMMA LineInductive == Spec => []LineInv
  BY LineInit, LineNext, PTL DEF Spec

-------------------------------------------------------------------------------
(* The refinement *)

LEMMA SimInit == Init => Class!Init
<1>. SUFFICES ASSUME Init PROVE Class!Init
  OBVIOUS
<1>1. Class!NewScheduler = NewScheduler
  BY DEF NewScheduler, Class!NewScheduler, NoTask, Class!NoTask, NoSegment, Class!NoSegment
<1>. QED
  BY <1>1, PendingOfNone DEF Init, Class!Init, Published

\* A call announces its last status, if it announces one.
LEMMA SimCall ==
  ASSUME TypeInv, NEW s \in Schedulers, Call(s)
  PROVE  Class!Call(s)
<1>. DEFINE p == statuses
            n == s.notes
<1>1. /\ p \in Seq(SchedulerState) /\ n \in Seq(SchedulerState) /\ statuses' = p \o n
      /\ known' = known /\ sch' = s
  BY DEF TypeInv, Schedulers, Call
<1>. HIDE DEF n
<1>2. CASE n = <<>>
  <2>1. p \o n = p
    BY <1>1, <1>2, ConcatEmpty
  <2>. QED
    BY <1>1, <1>2, <2>1 DEF Class!Call, Published, n
<1>3. CASE n # <<>>
  <2>. DEFINE t == p \o n
  <2>1. t # <<>> /\ t[Len(t)] = n[Len(n)]
    <3>1. Len(t) = Len(p) + Len(n) /\ Len(n) > 0
      BY <1>1, <1>3
    <3>. QED
      BY <1>1, <3>1
  <2>. HIDE DEF t
  <2>2. statuses' = t
    BY <1>1 DEF t
  <2>. QED
    BY <1>1, <1>3, <2>1, <2>2 DEF Class!Call, Published, n
<1>. QED
  BY <1>2, <1>3

\* An event that the scheduler does not wait for is taken from the queue.
LEMMA SimTaken ==
  ASSUME TypeInv, inbox # <<>>, inbox' = Tail(inbox)
  PROVE  /\ IsPending(Head(inbox)) =>
              /\ PendingOf(inbox) # <<>> /\ Head(PendingOf(inbox)) = Head(inbox)
              /\ PendingOf(inbox)' = Tail(PendingOf(inbox))
         /\ ~IsPending(Head(inbox)) => PendingOf(inbox)' = PendingOf(inbox)
<1>1. inbox \in Seq(Event)
  BY DEF TypeInv
<1>2. PendingOf(inbox)' = PendingOf(Tail(inbox))
  BY DEF PendingOf, IsPending
<1>. QED
  BY <1>1, <1>2, PendingTail

LEMMA SimOrder ==
  ASSUME LineInv, InterpretOrder
  PROVE  Class!ReceiveOrder
<1>. DEFINE n == handled.orders + 1
            q == Orders[n]
            g == <<GraphOf(n), Done>>
<1>1. Head(accepted).number = n /\ n \in DOMAIN Orders
  BY NextOrder DEF InterpretOrder, IsOrder
<1>2. q \in Seq(Event) /\ g \in Seq(Event) /\ Yields(n) \in Seq(Event) /\ inbox \in Seq(Event)
  BY <1>1, YieldsType DEF LineInv, TypeInv
<1>3. PendingOf(q) = q
  <2>1. \A i \in DOMAIN q : q[i] \in Yield
    BY <1>1, ConstantsType
  <2>2. \A i \in DOMAIN q : IsPending(q[i])
    BY <2>1 DEF Yield, Group, NavStep, IsPending
  <2>. QED
    BY <1>2, <2>2, AllPending
<1>4. PendingOf(g) = <<Done>>
  <2>1. GraphOf(n) \in Event /\ Done \in Event
    BY <1>1 DEF GraphOf, Event
  <2>2. g # <<>> /\ Head(g) = GraphOf(n) /\ Tail(g) = <<Done>>
    OBVIOUS
  <2>3. ~IsPending(GraphOf(n)) /\ IsPending(Done)
    BY DEF IsPending, GraphOf, Done
  <2>4. PendingOf(<<Done>>) = <<Done>>
    BY <2>3, PendingOfOne
  <2>. HIDE DEF g
  <2>. QED
    BY <1>2, <2>2, <2>3, <2>4, PendingTail
<1>5. PendingOf(Yields(n)) = Append(q, Done)
  <2>1. PendingOf(Yields(n)) = q \o <<Done>>
    <3>. HIDE DEF q, g
    <3>1. Yields(n) = q \o g
      BY DEF Yields, q, g
    <3>2. PendingOf(q \o g) = PendingOf(q) \o PendingOf(g)
      BY <1>2, PendingConcat
    <3>. QED
      BY <1>3, <1>4, <3>1, <3>2
  <2>2. Done \in Event
    BY DEF Event
  <2>. QED
    BY <1>2, <2>1, <2>2, AppendOne
<1>6. PendingOf(inbox)' = PendingOf(inbox) \o Append(q, Done)
  <2>1. inbox' = inbox \o Yields(n)
    BY <1>1 DEF InterpretOrder
  <2>2. PendingOf(inbox \o Yields(n)) = PendingOf(inbox) \o PendingOf(Yields(n))
    BY <1>2, PendingConcat
  <2>3. PendingOf(inbox)' = PendingOf(inbox \o Yields(n))
    BY <2>1 DEF PendingOf, IsPending
  <2>. QED
    BY <1>5, <2>2, <2>3
<1>7. Class!Done = Done
  BY DEF Done, Class!Done
<1>8. /\ handled.orders < Len(Orders) /\ (handled.orders)' = n
      /\ (handled.groups)' = handled.groups
  BY <1>1, ConstantsType DEF InterpretOrder, LineInv, TypeInv
<1>9. sch' = sch /\ Published' = Published
  BY DEF InterpretOrder, Published
<1>. HIDE DEF n, q, g
<1>. QED
  BY <1>6, <1>7, <1>8, <1>9 DEF Class!ReceiveOrder, n, q

\* What the class sees of a state.
Seen == <<sch, Published, PendingOf(inbox), handled.orders, handled.groups>>

LEMMA SimInstants ==
  ASSUME LineInv, InterpretInstantActions
  PROVE  UNCHANGED Seen
<1>. DEFINE m == Head(accepted)
<1>1. m \in Message /\ m.kind # "order" /\ inbox \in Seq(Event) /\ inbox' = Append(inbox, m)
  BY TailType DEF InterpretInstantActions, LineInv, TypeInv
<1>2. m \in Event /\ ~IsPending(m)
  BY <1>1, MessageCases
<1>. HIDE DEF m
<1>3. PendingOf(inbox)' = PendingOf(Append(inbox, m))
  BY <1>1 DEF PendingOf, IsPending
<1>4. PendingOf(Append(inbox, m)) = PendingOf(inbox)
  BY <1>1, <1>2, PendingAppend
<1>. QED
  BY <1>3, <1>4 DEF Seen, InterpretInstantActions, Published

\* The steps of the interpreter event thread.
LEMMA SimInterpreter ==
  ASSUME LineInv, InterpreterThread
  PROVE  Class!Next \/ UNCHANGED Seen
<1>. DEFINE s0 == Begin(sch)
            e  == Head(inbox)
            p  == PendingOf(inbox)
<1>1. s0 \in Schedulers /\ TypeInv
  BY BeginType DEF LineInv, TypeInv
<1>2. Class!Begin(sch) = s0 /\ Class!Done = Done
  BY SameBegin DEF Done, Class!Done
<1>. HIDE DEF s0
<1>3. ASSUME NEW k, Takes(k)
      PROVE  /\ e \in Event /\ e.kind = k
             /\ k \in {"group", "nav", "done"} =>
                  p # <<>> /\ Head(p) = e /\ PendingOf(inbox)' = Tail(p)
             /\ k \notin {"group", "nav", "done"} => PendingOf(inbox)' = p
  BY <1>1, <1>3, SimTaken, TailType DEF Takes, TypeInv, IsPending
<1>. HIDE DEF e, p
<1>4. CASE EnqueueYield
  <2>1. /\ e \in Event /\ e.kind \in {"group", "nav"}
        /\ p # <<>> /\ Head(p) = e /\ PendingOf(inbox)' = Tail(p)
    BY <1>3, <1>4 DEF EnqueueYield
  <2>2. e \in Yield /\ e # Done
    BY <2>1, EventCases
  <2>3. Class!Call(Enqueue(s0, e))
    BY <1>1, <1>4, <2>2, EnqueueType, SimCall DEF EnqueueYield, s0, e
  <2>4. Class!EnqueueYield
    BY <1>2, <1>4, <2>1, <2>2, <2>3, SameEnqueue DEF Class!EnqueueYield, EnqueueYield, p
  <2>. QED
    BY <2>4 DEF Class!Next
<1>5. CASE CommitOrder
  <2>1. e \in Event /\ e.kind = "done" /\ p # <<>> /\ Head(p) = e /\ PendingOf(inbox)' = Tail(p)
    BY <1>3, <1>5 DEF CommitOrder
  <2>2. e = Done
    BY <2>1, EventCases
  <2>3. Class!Call(CommitQueue(s0))
    BY <1>1, <1>5, CommitQueueType, SimCall DEF CommitOrder, s0
  <2>4. Class!CommitOrder
    BY <1>2, <1>5, <2>1, <2>2, <2>3, SameCommitQueue DEF Class!CommitOrder, CommitOrder, p
  <2>. QED
    BY <2>4 DEF Class!Next
<1>6. CASE InstantActions
  <2>1. e \in Event /\ e.kind = "instants" /\ PendingOf(inbox)' = p
    BY <1>3, <1>6 DEF InstantActions
  <2>. DEFINE G == e.group
  <2>2. G \in Instants
    BY <2>1, EventCases
  <2>3. G \notin handled.groups
    <3>1. 1 \in DOMAIN inbox /\ inbox[1] = e
      BY <1>1, <1>6, TailElements DEF InstantActions, Takes, TypeInv, e
    <3>. QED
      BY <2>1, <3>1 DEF LineInv, GroupsOnce, IsGroup
  <2>4. Interrupt(s0, G) \in Schedulers
    BY <1>1, <2>2, InterruptType, ConstantsType
  <2>5. Class!Call(Interrupt(s0, G))
    BY <1>1, <1>6, <2>4, SimCall DEF InstantActions, s0, e
  <2>6. (handled.groups)' = handled.groups \cup {G} /\ (handled.orders)' = handled.orders
    BY <1>1, <1>6 DEF InstantActions, TypeInv, e
  <2>7. Class!InstantActions(G)
    BY <1>2, <2>1, <2>3, <2>5, <2>6, SameInterrupt DEF Class!InstantActions, p
  <2>. QED
    BY <2>2, <2>7 DEF Class!Next
<1>7. CASE OrderControl
  <2>1. e \in Event /\ e.kind = "control" /\ PendingOf(inbox)' = p /\ UNCHANGED handled
    BY <1>3, <1>7 DEF OrderControl
  <2>2. e.type \in ControlAction
    BY <2>1, EventCases
  <2>. DEFINE r == CASE e.type = "startPause"  -> Pause(s0)
                     [] e.type = "stopPause"   -> Resume(s0)
                     [] e.type = "cancelOrder" -> Cancel(s0)
  <2>3. Call(r)
    BY <1>7 DEF OrderControl, s0, e
  <2>4. r = Pause(s0) \/ r = Resume(s0) \/ r = Cancel(s0)
    BY <2>2 DEF ControlAction
  <2>. HIDE DEF r
  <2>5. r \in Schedulers
    BY <1>1, <2>4, PauseType, ResumeType, CancelType
  <2>6. Class!Call(r)
    BY <1>1, <2>3, <2>5, SimCall
  <2>7. Class!PauseOrder \/ Class!ResumeOrder \/ Class!CancelOrder
    BY <1>2, <2>1, <2>4, <2>6, SamePause, SameResume, SameCancel
       DEF Class!PauseOrder, Class!ResumeOrder, Class!CancelOrder, p
  <2>. QED
    BY <2>7 DEF Class!Next
<1>8. CASE SetGraph \/ DeclineControl
  <2>1. PendingOf(inbox)' = p
    BY <1>3, <1>8 DEF SetGraph, DeclineControl
  <2>2. UNCHANGED <<sch, statuses, known, handled>>
    BY <1>8 DEF SetGraph, DeclineControl
  <2>. QED
    BY <2>1, <2>2 DEF Seen, Published, p
<1>. QED
  BY <1>4, <1>5, <1>6, <1>7, <1>8 DEF InterpreterThread

\* A report that is not about a node is the same on every node.
LEMMA ReportAnywhere ==
  ASSUME NEW s, NEW t, t # "to_seq_id", NEW g, NEW h
  PROVE  ReportNav(s, t, g) = ReportNav(s, t, h)
  BY DEF ReportNav, MoveNav

\* The steps of the status threads.
LEMMA SimStatus ==
  ASSUME LineInv, HandleStatus \/ (\E a \in Action : ActionStatus(a)) \/ NavigationStatus
  PROVE  Class!Next \/ UNCHANGED Seen
<1>. DEFINE s0 == Begin(sch)
<1>1. s0 \in Schedulers /\ TypeInv
  BY BeginType DEF LineInv, TypeInv
<1>2. Class!Begin(sch) = s0 /\ Class!NoTask = NoTask
  BY SameBegin DEF NoTask, Class!NoTask
<1>. HIDE DEF s0
<1>3. ASSUME UNCHANGED inbox PROVE PendingOf(inbox)' = PendingOf(inbox)
  BY <1>3 DEF PendingOf, IsPending
<1>4. CASE HandleStatus
  <2>. DEFINE q == Tail(statuses)
  <2>1. statuses \in Seq(SchedulerState) /\ statuses # <<>>
    BY <1>1, <1>4 DEF HandleStatus, TypeInv
  <2>2. statuses' = q /\ known' = Head(statuses) /\ UNCHANGED <<sch, inbox, handled>>
    BY <1>4 DEF HandleStatus
  <2>3. IF q = <<>> THEN statuses[Len(statuses)] = Head(statuses)
                    ELSE q[Len(q)] = statuses[Len(statuses)]
    <3>1. Len(statuses) \in Nat \ {0} /\ Len(q) = Len(statuses) - 1
          /\ \A i \in 1 .. Len(q) : q[i] = statuses[i + 1]
      BY <2>1
    <3>2. q \in Seq(SchedulerState) /\ Head(statuses) = statuses[1]
      BY <2>1, TailType
    <3>. HIDE DEF q
    <3>3. CASE q = <<>>
      <4>1. Len(q) = 0
        BY <3>3
      <4>2. Len(statuses) = 1
        BY <3>1, <4>1
      <4>. QED
        BY <3>2, <3>3, <4>2
    <3>4. CASE q # <<>>
      <4>1. Len(q) \in Nat /\ Len(q) # 0
        BY <3>2, <3>4
      <4>2. Len(q) \in 1 .. Len(q) /\ Len(q) + 1 = Len(statuses)
        BY <3>1, <4>1
      <4>. QED
        BY <3>1, <3>4, <4>1, <4>2
    <3>. QED
      BY <3>3, <3>4
  <2>. HIDE DEF q
  <2>4. Published' = Published
    BY <2>1, <2>2, <2>3 DEF Published
  <2>. QED
    BY <1>3, <2>2, <2>4 DEF Seen
<1>5. ASSUME NEW a \in Action, ActionStatus(a) PROVE Class!Next \/ UNCHANGED Seen
  <2>. DEFINE t == Head(reports[a])
  <2>1. t \in ActionReport /\ UNCHANGED <<inbox, handled>>
    BY <1>1, <1>5, TailType DEF ActionStatus, TypeInv
  <2>2. CASE a \in sch.active
    <3>1. ReportAction(s0, a, t) \in Schedulers
      BY <1>1, <2>1, ReportActionType DEF ActionTransition
    <3>2. Call(ReportAction(s0, a, t))
      BY <1>5, <2>2 DEF ActionStatus, s0
    <3>3. Class!Call(ReportAction(s0, a, t))
      BY <1>1, <3>1, <3>2, SimCall
    <3>4. Class!ActionStatus(a, t)
      BY <1>2, <1>3, <2>1, <2>2, <3>3, SameReportAction DEF Class!ActionStatus
    <3>5. t \in Class!ActionReport
      BY <2>1 DEF ActionReport, Class!ActionReport
    <3>. QED
      BY <3>4, <3>5 DEF Class!Next
  <2>3. CASE a \notin sch.active
    <3>1. UNCHANGED <<sch, statuses, known>>
      BY <1>5, <2>3 DEF ActionStatus, Refused
    <3>. QED
      BY <1>3, <2>1, <3>1 DEF Seen, Published
  <2>. QED
    BY <2>2, <2>3
<1>6. CASE NavigationStatus
  <2>. DEFINE r == Head(nreports)
  <2>. DEFINE R == [type : NavReport, goal : Nat]
  <2>0. nreports \in Seq(R) /\ nreports # <<>>
    BY <1>1, <1>6 DEF NavigationStatus, TypeInv
  <2>9. r \in R
    <3>. HIDE DEF R
    <3>. QED
      BY <2>0
  <2>1. r.type \in NavReport /\ UNCHANGED <<inbox, handled>>
    BY <1>6, <2>9 DEF NavigationStatus
  <2>. HIDE DEF r
  <2>2. ReportNav(s0, r.type, r.goal) \in Schedulers /\ ReachUnrecorded(s0, r.goal) \in Schedulers
    BY <1>1, <2>1, ReportNavType, ReachUnrecordedType DEF NavTransition
  <2>3. \/ /\ sch.nav # NoTask /\ (r.type = "to_seq_id" => r.goal = sch.goal)
           /\ Call(ReportNav(s0, r.type, r.goal))
        \/ /\ sch.nav # NoTask /\ r.goal = sch.goal /\ Call(ReachUnrecorded(s0, r.goal))
        \/ Refused
    BY <1>6 DEF NavigationStatus, s0, r
  <2>4. CASE /\ sch.nav # NoTask /\ (r.type = "to_seq_id" => r.goal = sch.goal)
             /\ Call(ReportNav(s0, r.type, r.goal))
    <3>1. Class!Call(ReportNav(s0, r.type, r.goal))
      BY <1>1, <2>2, <2>4, SimCall
    <3>2. CASE r.type = "to_seq_id"
      <4>1. Class!NodeReached
        BY <1>2, <1>3, <2>1, <2>4, <3>1, <3>2, SameReportNav DEF Class!NodeReached
      <4>. QED
        BY <4>1 DEF Class!Next
    <3>3. CASE r.type # "to_seq_id"
      <4>1. ReportNav(s0, r.type, r.goal) = ReportNav(s0, r.type, 0)
        BY <3>3, ReportAnywhere
      <4>2. Class!NavigationControl(r.type)
        BY <1>2, <1>3, <2>1, <2>4, <3>1, <4>1, SameReportNav DEF Class!NavigationControl
      <4>3. r.type \in Class!NavReport
        BY <2>1 DEF NavReport, Class!NavReport
      <4>. QED
        BY <3>3, <4>2, <4>3 DEF Class!Next
    <3>. QED
      BY <3>2, <3>3
  <2>5. CASE sch.nav # NoTask /\ r.goal = sch.goal /\ Call(ReachUnrecorded(s0, r.goal))
    <3>1. Class!Call(ReachUnrecorded(s0, sch.goal))
      BY <1>1, <2>2, <2>5, SimCall
    <3>2. Class!NodeUnrecorded
      BY <1>2, <1>3, <2>1, <2>5, <3>1, SameReachUnrecorded DEF Class!NodeUnrecorded
    <3>. QED
      BY <3>2 DEF Class!Next
  <2>6. CASE Refused
    BY <1>3, <2>1, <2>6 DEF Refused, Seen, Published
  <2>. QED
    BY <2>3, <2>4, <2>5, <2>6
<1>. QED
  BY <1>4, <1>5, <1>6

LEMMA SimNext == LineInv /\ [Next]_vars => [Class!Next]_(Class!vars)
<1>. SUFFICES ASSUME LineInv, [Next]_vars PROVE [Class!Next]_(Class!vars)
  OBVIOUS
<1>1. SUFFICES Class!Next \/ UNCHANGED Seen
  BY DEF Seen, Class!vars
<1>2. ASSUME UNCHANGED <<sch, statuses, known, inbox, handled>> PROVE UNCHANGED Seen
  BY <1>2 DEF Seen, Published, PendingOf, IsPending
<1>3. CASE \/ ValidateOrder \/ (\E G \in Instants : ValidateInstants(G))
           \/ (\E c \in Controls : ValidateControl(c))
  BY <1>2, <1>3 DEF ValidateOrder, ValidateInstants, ValidateControl, Accept
<1>4. CASE InterpretOrder
  BY <1>4, SimOrder DEF Class!Next
<1>5. CASE InterpretInstantActions
  BY <1>5, SimInstants
<1>6. CASE InterpreterThread
  BY <1>6, SimInterpreter
<1>7. CASE HandleStatus \/ (\E a \in Action : ActionStatus(a)) \/ NavigationStatus
  BY <1>7, SimStatus
<1>8. CASE Agv
  <2>1. OnlyAgv
    BY <1>8 DEF Agv, HandleActionCommand, BeginWork, EndWork, HaltWork, ResumeWork, Works,
                HandleNavigationCommand, EndDrive, HaltDrive, DriveOn, Drives
  <2>. QED
    BY <1>2, <2>1 DEF OnlyAgv
<1>9. CASE UNCHANGED vars
  BY <1>2, <1>9 DEF vars
<1>. QED
  BY <1>3, <1>4, <1>5, <1>6, <1>7, <1>8, <1>9 DEF Next, Agv

\* The scheduler behind its queues, threads and validations is used as Scheduler allows,
\* for every set of orders, of instant actions and of controls: every step is a call of
\* the class, or none.
THEOREM SchedulerIsUsedAsAllowed == Spec => ImplementsScheduler
<1>1. LineInv /\ [Next]_vars => [Class!Next]_(Class!vars)
  BY SimNext
<1>. QED
  BY <1>1, SimInit, LineInductive, PTL DEF Spec, ImplementsScheduler, Class!Spec

-------------------------------------------------------------------------------
(* What a call ends and what it starts *)

Ended(s, a) == a \notin s.active \/ s.task[a] \in ActionTerminal

NavEnded(s) == s.nav \in NavTerminal \cup {NoTask}

\* From s to r action a, or the navigation, is started.
Begun(s, r, a) == r.task[a] = "Initializing" /\ s.task[a] # "Initializing"

NavBegun(s, r) == r.nav = "FirstInProgress" /\ <<r.nav, r.goal>> # <<s.nav, s.goal>>

\* From s to r nothing ends, and only what has ended is started.
Keeps(s, r) ==
  /\ \A a \in Action :
       /\ Ended(r, a) => Ended(s, a)
       /\ Begun(s, r, a) => Ended(s, a) /\ ~Ended(r, a)
  /\ NavEnded(r) => NavEnded(s)
  /\ NavBegun(s, r) => NavEnded(s)

LEMMA KeepsTransitive ==
  ASSUME NEW s, NEW r, NEW u, Keeps(s, r), Keeps(r, u) PROVE Keeps(s, u)
  BY DEF Keeps, Begun, NavBegun

\* What a state without its tasks looks like does not matter.
LEMMA SameKeeps ==
  ASSUME NEW s, NEW r, r.active = s.active, r.task = s.task, r.nav = s.nav, r.goal = s.goal
  PROVE  Keeps(s, r)
  BY DEF Keeps, Begun, NavBegun, Ended, NavEnded

LEMMA ThrowKeeps ==
  ASSUME NEW s \in Schedulers PROVE Keeps(s, Throw(s))
<1>. DEFINE r == Throw(s)
<1>1. r.active = s.active /\ r.task = s.task /\ r.nav = s.nav /\ r.goal = s.goal
  BY DEF Throw, Schedulers
<1>. HIDE DEF r
<1>2. Keeps(s, r)
  BY <1>1, SameKeeps
<1>. QED
  BY <1>2 DEF r

LEMMA BeginKeeps ==
  ASSUME NEW s \in Schedulers PROVE Keeps(s, Begin(s))
<1>. DEFINE r == Begin(s)
<1>1. r.active = s.active /\ r.task = s.task /\ r.nav = s.nav /\ r.goal = s.goal
  BY DEF Begin, Schedulers
<1>. HIDE DEF r
<1>2. Keeps(s, r)
  BY <1>1, SameKeeps
<1>. QED
  BY <1>2 DEF r

LEMMA EnterKeeps ==
  ASSUME NEW s \in Schedulers, NEW st
  PROVE  Keeps(s, Enter(s, st)) /\ Keeps(s, Notify(s, st))
<1>1. /\ Enter(s, st).active = s.active /\ Enter(s, st).task = s.task
      /\ Enter(s, st).nav = s.nav /\ Enter(s, st).goal = s.goal
  BY DEF Enter, Schedulers
<1>2. /\ Notify(s, st).active = s.active /\ Notify(s, st).task = s.task
      /\ Notify(s, st).nav = s.nav /\ Notify(s, st).goal = s.goal
  BY DEF Notify, Enter, Schedulers
<1>. QED
  BY <1>1, <1>2, SameKeeps

LEMMA ClearQueuesKeeps ==
  ASSUME NEW s \in Schedulers, NEW keepNav \in BOOLEAN PROVE Keeps(s, ClearQueues(s, keepNav))
<1>. DEFINE r == ClearQueues(s, keepNav)
<1>1. r.active = s.active /\ r.task = s.task /\ r.nav = s.nav /\ r.goal = s.goal
  BY DEF ClearQueues, Schedulers
<1>. HIDE DEF r
<1>2. Keeps(s, r)
  BY <1>1, SameKeeps
<1>. QED
  BY <1>2 DEF r

ControlTransition == {"do_pause", "do_resume", "do_cancel"}

LEMMA MoveNavKeeps ==
  ASSUME NEW s \in Schedulers, NEW t \in ControlTransition
  PROVE  Keeps(s, MoveNav(s, t, 0))
<1>1. NavTarget[t] \notin NavTerminal \cup {NoTask, "FirstInProgress"}
  BY DEF ControlTransition, NavTarget, NavTransition, NavReport, NavTerminal, NoTask
<1>. DEFINE r == MoveNav(s, t, 0)
<1>2. /\ r.active = s.active /\ r.task = s.task /\ r.goal = s.goal
      /\ r.nav \in {s.nav, NavTarget[t]}
  BY DEF MoveNav, Throw, Schedulers
<1>. HIDE DEF r
<1>3. Keeps(s, r)
  BY <1>1, <1>2 DEF Keeps, Begun, NavBegun, Ended, NavEnded
<1>. QED
  BY <1>3 DEF r

LEMMA MoveActionsKeeps ==
  ASSUME NEW s \in Schedulers, NEW S, NEW t \in ControlTransition
  PROVE  Keeps(s, MoveActions(s, S, t))
<1>1. ActionTarget[t] \notin ActionTerminal \cup {"Initializing"}
  BY DEF ControlTransition, ActionTarget, ActionTransition, ActionReport, ActionTerminal
<1>. DEFINE r == MoveActions(s, S, t)
<1>2. /\ r.active = s.active /\ r.nav = s.nav /\ r.goal = s.goal
      /\ \A a \in Action : r.task[a] \in {s.task[a], ActionTarget[t]}
  BY DEF MoveActions, Schedulers
<1>. HIDE DEF r
<1>3. Keeps(s, r)
  BY <1>1, <1>2 DEF Keeps, Begun, NavBegun, Ended, NavEnded
<1>. QED
  BY <1>3 DEF r

\* Nothing is forgotten that has not ended.
LEMMA UpdateTasksKeeps ==
  ASSUME NEW s \in Schedulers PROVE Keeps(s, UpdateTasks(s))
<1>. DEFINE r == UpdateTasks(s)
<1>1. /\ r.active = {a \in s.active : s.task[a] \notin ActionTerminal} /\ r.task = s.task
      /\ \/ r.nav = s.nav /\ r.goal = s.goal
         \/ s.nav \in NavTerminal /\ r.nav = NoTask
  BY DEF UpdateTasks, ClearQueues, Schedulers
<1>. HIDE DEF r
<1>2. Keeps(s, r)
  BY <1>1 DEF Keeps, Begun, NavBegun, Ended, NavEnded, NavTerminal, NoTask
<1>. QED
  BY <1>2 DEF r

LEMMA RefreshKeeps ==
  ASSUME NEW s \in Schedulers PROVE Keeps(s, Refresh(s))
<1>. DEFINE u    == UpdateTasks(s)
            rest == {a \in u.navint : u.task[a] \notin ActionTerminal}
            s1   == [u EXCEPT !.navint = rest]
            r    == MoveNav(s1, "do_resume", 0)
<1>1. u \in Schedulers /\ Keeps(s, u)
  BY UpdateTasksType, UpdateTasksKeeps
<1>2. Refresh(s) = IF rest # u.navint /\ rest = {} /\ u.nav # NoTask THEN r ELSE s1
  BY DEF Refresh, UpdateInterruptMapping
<1>. HIDE DEF u
<1>3. /\ s1 \in Schedulers /\ s1.active = u.active /\ s1.task = u.task
      /\ s1.nav = u.nav /\ s1.goal = u.goal
  BY <1>1 DEF Schedulers
<1>. HIDE DEF s1
<1>4. Keeps(u, s1) /\ Keeps(s1, r)
  BY <1>3, SameKeeps, MoveNavKeeps DEF ControlTransition
<1>. HIDE DEF r
<1>. QED
  BY <1>1, <1>2, <1>3, <1>4, KeepsTransitive

\* A group is started when none of its actions is in progress.
LEMMA StartGroupKeeps ==
  ASSUME NEW s \in Schedulers, NEW G \in SUBSET Action, G \cap s.active = {}, NEW c,
         NEW r, r.active = s.active \cup G, r.nav = s.nav, r.goal = s.goal,
         r.task = StartGroup(s, G, c).task
  PROVE  Keeps(s, r)
<1>1. \A a \in Action : r.task[a] = IF a \in G THEN "Initializing" ELSE s.task[a]
  BY DEF StartGroup, Schedulers, ActionTarget, ActionTransition, ActionReport
<1>2. "Initializing" \notin ActionTerminal
  BY DEF ActionTerminal
<1>. QED
  BY <1>1, <1>2 DEF Keeps, Begun, NavBegun, Ended, NavEnded

LEMMA PatchSegmentKeeps ==
  ASSUME NEW s \in Schedulers PROVE Keeps(s, PatchSegment(s))
<1>. DEFINE r == PatchSegment(s)
<1>1. r.active = s.active /\ r.task = s.task /\ r.nav = s.nav /\ r.goal = s.goal
  BY DEF PatchSegment, Schedulers
<1>. HIDE DEF r
<1>2. Keeps(s, r)
  BY <1>1, SameKeeps
<1>. QED
  BY <1>2 DEF r

LEMMA FetchOneKeeps ==
  ASSUME NEW s \in Schedulers PROVE Keeps(s, FetchOne(s))
<1>. DEFINE r == FetchOne(s)
            h == Head(s.queue)
<1>1. CASE s.queue = <<>>
  BY <1>1, SameKeeps DEF FetchOne
<1>2. CASE s.queue # <<>> /\ ~IsStep(h) /\ MayFetchGroup(s)
  <2>1. h \in Group
    BY <1>2, QueueType, YieldCases
  <2>2. r = [StartGroup(s, h.actions, h.ceiling) EXCEPT !.segment = NoSegment, !.queue = Tail(@)]
    BY <1>2 DEF FetchOne, FetchGroup
  <2>3. h.actions \in SUBSET Action /\ s.active = {}
    BY <1>2, <2>1 DEF Group, MayFetchGroup
  <2>4. /\ r.active = s.active \cup h.actions /\ r.nav = s.nav /\ r.goal = s.goal
        /\ r.task = StartGroup(s, h.actions, h.ceiling).task
    BY <2>2 DEF StartGroup, Schedulers
  <2>. HIDE DEF r, h
  <2>5. Keeps(s, r)
    BY <2>3, <2>4, StartGroupKeeps
  <2>. QED
    BY <2>5 DEF r
<1>3. CASE s.queue # <<>> /\ IsStep(h) /\ s.nav # NoTask
  BY <1>3, PatchSegmentKeeps DEF FetchOne
<1>4. CASE s.queue # <<>> /\ IsStep(h) /\ s.nav = NoTask /\ MayFetchStep(s)
  <2>1. r.active = s.active /\ r.task = s.task /\ r.nav = "FirstInProgress"
    BY <1>4 DEF FetchOne, FetchStep, Schedulers, NavTarget, NavTransition, NavReport
  <2>. HIDE DEF r
  <2>2. Keeps(s, r)
    BY <1>4, <2>1 DEF Keeps, Begun, NavBegun, Ended, NavEnded
  <2>. QED
    BY <2>2 DEF r
<1>5. CASE s.queue # <<>> /\ \/ ~IsStep(h) /\ ~MayFetchGroup(s)
                             \/ IsStep(h) /\ s.nav = NoTask /\ ~MayFetchStep(s)
  BY <1>5, SameKeeps DEF FetchOne
<1>. QED
  BY <1>1, <1>2, <1>3, <1>4, <1>5

LEMMA FetchNextKeeps ==
  ASSUME NEW s \in Schedulers PROVE Keeps(s, FetchNext(s))
<1>1. FetchOne(s) \in Schedulers /\ FetchOne(FetchOne(s)) \in Schedulers
  BY FetchOneType
<1>. QED
  BY <1>1, FetchOneKeeps, KeepsTransitive DEF FetchNext

\* A group of instant actions has not been started before.
LEMMA FetchInterruptKeeps ==
  ASSUME NEW O, NEW W, NEW s, Sound(s, O, W) PROVE Keeps(s, FetchInterrupt(s))
<1>. DEFINE G == Head(s.intr)
            r == FetchInterrupt(s)
<1>1. CASE ~MayFetchInterrupt(s)
  BY <1>1, SameKeeps DEF FetchInterrupt
<1>2. CASE MayFetchInterrupt(s)
  <2>1. /\ s \in Schedulers /\ G \in SUBSET Action /\ G \cap s.active = {}
    BY <1>2, TailIntrSound DEF MayFetchInterrupt, Sound, Weak
  <2>2. r = [StartGroup(s, G, Ceiling(G)) EXCEPT
               !.navint = @ \cup {a \in G : BlockingOf[a] # "NONE"}, !.intr = Tail(@)]
    BY <1>2 DEF FetchInterrupt
  <2>. HIDE DEF G
  <2>3. /\ r.active = s.active \cup G /\ r.nav = s.nav /\ r.goal = s.goal
        /\ r.task = StartGroup(s, G, Ceiling(G)).task
    BY <2>1, <2>2 DEF StartGroup, Schedulers
  <2>. HIDE DEF r
  <2>4. Keeps(s, r)
    BY <2>1, <2>3, StartGroupKeeps
  <2>. QED
    BY <2>4 DEF r
<1>. QED
  BY <1>1, <1>2

LEMMA DoInterruptKeeps ==
  ASSUME NEW s \in Schedulers PROVE DoInterrupt(s) \in Schedulers /\ Keeps(s, DoInterrupt(s))
<1>. DEFINE ceiling == Ceiling(Head(s.intr))
            s1 == IF ceiling # "NONE" /\ s.nav # NoTask
                  THEN MoveNav(s, "do_pause", 0) ELSE s
            ousted == {a \in s.active : ceiling = "HARD" \/ BlockingOf[a] = "HARD"}
<1>1. MoveNav(s, "do_pause", 0) \in Schedulers
  BY MoveNavType DEF NavTransition
<1>2. s1 \in Schedulers /\ Keeps(s, s1)
  BY <1>1, MoveNavKeeps, SameKeeps DEF ControlTransition
<1>3. DoInterrupt(s) = IF s.intr = <<>> THEN s ELSE IF s1.thrown THEN s1
                       ELSE MoveActions(s1, ousted, "do_cancel")
  BY DEF DoInterrupt
<1>. HIDE DEF s1
<1>4. Keeps(s1, MoveActions(s1, ousted, "do_cancel"))
  BY <1>2, MoveActionsKeeps DEF ControlTransition
<1>5. Keeps(s, MoveActions(s1, ousted, "do_cancel")) /\ Keeps(s, s)
  BY <1>2, <1>4, KeepsTransitive, SameKeeps
<1>. QED
  BY <1>2, <1>3, <1>5, DoInterruptType

LEMMA UpdateActiveKeeps ==
  ASSUME NEW s \in Schedulers
  PROVE  Keeps(s, UpdateActive(s)) /\ Keeps(s, UpdateCanceling(s))
<1>. DEFINE s1 == Refresh(s)
            s2 == FetchNext(s1)
<1>1. s1 \in Schedulers /\ Keeps(s, s1)
  BY RefreshType, RefreshKeeps
<1>2. s2 \in Schedulers /\ Keeps(s1, s2)
  BY <1>1, FetchNextType, FetchNextKeeps
<1>3. Keeps(s2, Notify(s2, "idle"))
  BY <1>2, EnterKeeps
<1>4. Keeps(s, s2) /\ Keeps(s, Notify(s2, "idle"))
  BY <1>1, <1>2, <1>3, KeepsTransitive
<1>5. UpdateActive(s) \in {s1, s2, Notify(s2, "idle")}
  BY DEF UpdateActive
<1>6. UpdateCanceling(s) \in {s1, s2, Notify(s2, "idle")}
  BY DEF UpdateCanceling
<1>. QED
  BY <1>1, <1>4, <1>5, <1>6

LEMMA UpdateKeeps ==
  ASSUME NEW O, NEW W, NEW s, Weak(s, O, W) PROVE Keeps(s, Update(s))
<1>. DEFINE s1 == Refresh(s)
<1>1. s \in Schedulers /\ s.state \in SchedulerState /\ s1 \in Schedulers /\ Keeps(s, s1)
  BY StateType, RefreshType, RefreshKeeps DEF Weak
<1>2. ASSUME NEW u \in Schedulers, Keeps(s, u), NEW st
      PROVE  Keeps(s, Enter(u, st)) /\ Keeps(s, Notify(u, st))
  BY <1>2, EnterKeeps, KeepsTransitive
<1>3. CASE s.state = "idle"
  <2>1. FetchNext(s) \in Schedulers /\ Keeps(s, FetchNext(s))
    BY <1>1, FetchNextType, FetchNextKeeps
  <2>. QED
    BY <1>2, <1>3, <2>1 DEF Update, UpdateIdle
<1>4. CASE s.state = "idle_paused"
  BY <1>4, SameKeeps DEF Update
<1>5. CASE s.state \in {"active", "canceling"}
  BY <1>1, <1>5, UpdateActiveKeeps DEF Update
<1>. HIDE DEF s1
<1>6. CASE s.state = "resuming"
  <2>. DEFINE u == Notify(s1, "active")
  <2>1. u \in Schedulers /\ Keeps(s, u)
    BY <1>1, <1>2, NotifyType DEF SchedulerState
  <2>. HIDE DEF u
  <2>2. Keeps(s, UpdateActive(u))
    BY <2>1, UpdateActiveKeeps, KeepsTransitive
  <2>3. Update(s) \in {s1, UpdateActive(u)}
    BY <1>6 DEF Update, UpdateResuming, s1, u
  <2>. QED
    BY <1>1, <2>2, <2>3
<1>7. CASE s.state = "pausing"
  <2>1. Update(s) \in {s1, Notify(s1, "paused")}
    BY <1>7 DEF Update, UpdatePausing, s1
  <2>. QED
    BY <1>1, <1>2, <2>1
<1>8. CASE s.state = "paused"
  BY <1>1, <1>8 DEF Update, s1
<1>9. CASE s.state = "interrupting"
  <2>. DEFINE u == UpdateTasks(s)
              v == FetchInterrupt(u)
  <2>1. Sound(u, O, W) /\ Keeps(s, u)
    BY <1>1, UpdateTasksSound, UpdateTasksKeeps
  <2>. HIDE DEF u
  <2>2. Keeps(u, v) /\ Sound(v, O, W)
    BY <2>1, FetchInterruptKeeps, FetchInterruptSound
  <2>3. Keeps(s, v) /\ v \in Schedulers
    BY <2>1, <2>2, KeepsTransitive DEF Sound, Weak
  <2>. HIDE DEF v
  <2>4. Update(s) \in {v, Notify(v, "active")}
    BY <1>9 DEF Update, UpdateInterrupting, u, v
  <2>. QED
    BY <1>2, <2>3, <2>4
<1>. QED
  BY <1>1, <1>3, <1>4, <1>5, <1>6, <1>7, <1>8, <1>9 DEF SchedulerState

-------------------------------------------------------------------------------
(* The operations end nothing but what is reported *)

\* What pause(), resume() and cancel() do to the tasks.
LEMMA MoveAllKeeps ==
  ASSUME NEW O, NEW W, NEW s, Sound(s, O, W), NEW S \in SUBSET s.active, NEW t \in ControlTransition
  PROVE  LET s1 == MoveActions(s, S, t)
             s2 == MoveNav(s1, t, 0)
         IN /\ Sound(s1, O, W) /\ Keeps(s, s1)
            /\ Sound(s2, O, W) /\ Keeps(s, s2)
<1>. DEFINE s1 == MoveActions(s, S, t)
            s2 == MoveNav(s1, t, 0)
<1>1. Sound(s1, O, W)
  BY MoveActionsSound DEF ControlTransition
<1>2. Keeps(s, s1)
  BY MoveActionsKeeps DEF Sound, Weak
<1>. HIDE DEF s1
<1>3. Sound(s2, O, W)
  BY <1>1, MoveNavSound DEF ControlTransition, NavTransition
<1>4. Keeps(s1, s2)
  BY <1>1, MoveNavKeeps DEF Sound, Weak
<1>5. Keeps(s, s2)
  BY <1>2, <1>4, KeepsTransitive
<1>. QED
  BY <1>1, <1>2, <1>3, <1>5 DEF s1

LEMMA CancelKeeps ==
  ASSUME NEW O, NEW W, NEW s, Sound(s, O, W) PROVE Keeps(s, Cancel(s))
<1>1. s \in Schedulers /\ s.state \in SchedulerState
  BY StateType DEF Sound, Weak
<1>2. CASE s.state = "idle"
  <2>. DEFINE u == Enter(s, "canceling")
  <2>1. Weak(u, O, W) /\ Keeps(s, u)
    BY <1>1, EnterSound, SoundIsWeak, EnterKeeps DEF SchedulerState
  <2>. HIDE DEF u
  <2>2. Keeps(s, Update(u))
    BY <2>1, UpdateKeeps, KeepsTransitive
  <2>. QED
    BY <1>2, <2>2 DEF Cancel, u
<1>3. CASE s.state = "idle_paused"
  BY <1>1, <1>3, ClearQueuesKeeps DEF Cancel
<1>4. CASE s.state \in {"active", "paused"}
  <2>. DEFINE s1 == MoveActions(s, s.active, "do_cancel")
              m  == MoveNav(s1, "do_cancel", 0)
              s2 == IF s.nav \in NavPaused \cup NavTerminal \cup {NoTask} THEN s1 ELSE m
              s3 == ClearQueues(s2, TRUE)
  <2>1. Sound(s1, O, W) /\ Keeps(s, s1) /\ Sound(m, O, W) /\ Keeps(s, m)
    BY MoveAllKeeps DEF ControlTransition
  <2>2. s2 \in Schedulers /\ Keeps(s, s2)
    <3>. HIDE DEF s1, m
    <3>. QED
      BY <2>1 DEF Sound, Weak
  <2>3. Cancel(s) \in {s1, s2, Notify(s3, "canceling")}
    BY <1>4 DEF Cancel, CancelActive
  <2>. HIDE DEF s1, s2
  <2>4. s3 \in Schedulers /\ Keeps(s, s3)
    BY <2>2, ClearQueuesType, ClearQueuesKeeps, KeepsTransitive
  <2>. HIDE DEF s3
  <2>5. Keeps(s, Notify(s3, "canceling"))
    BY <2>4, EnterKeeps, KeepsTransitive
  <2>. QED
    BY <2>1, <2>2, <2>3, <2>5
<1>5. CASE s.state \notin {"idle", "idle_paused", "active", "paused"}
  BY <1>1, <1>5, ThrowKeeps DEF Cancel
<1>. QED
  BY <1>2, <1>3, <1>4, <1>5

LEMMA PauseKeeps ==
  ASSUME NEW O, NEW W, NEW s, Sound(s, O, W) PROVE Keeps(s, Pause(s))
<1>. DEFINE s1 == MoveActions(s, s.running, "do_pause")
            m  == MoveNav(s1, "do_pause", 0)
            s2 == IF s.nav = NoTask THEN s1 ELSE m
<1>1. s \in Schedulers
  BY DEF Sound, Weak
<1>2. Sound(s1, O, W) /\ Keeps(s, s1) /\ Sound(m, O, W) /\ Keeps(s, m)
  BY SubMaps, MoveAllKeeps DEF ControlTransition
<1>3. s2 \in Schedulers /\ Keeps(s, s2)
  <2>. HIDE DEF s1, m
  <2>. QED
    BY <1>2 DEF Sound, Weak
<1>4. PauseActive(s) \in {s1, s2, Notify(s2, "pausing")}
  BY DEF PauseActive
<1>. HIDE DEF s1, s2
<1>5. Keeps(s, Notify(s2, "pausing")) /\ Keeps(s, Notify(s, "idle_paused")) /\ Keeps(s, Throw(s))
  BY <1>1, <1>3, EnterKeeps, ThrowKeeps, KeepsTransitive
<1>6. Pause(s) \in {PauseActive(s), Notify(s, "idle_paused"), Throw(s)}
  <2>1. s.state \in SchedulerState
    BY <1>1, StateType
  <2>. QED
    BY <2>1 DEF Pause, SchedulerState
<1>. QED
  BY <1>2, <1>3, <1>4, <1>5, <1>6

LEMMA ResumeKeeps ==
  ASSUME NEW O, NEW W, NEW s, Sound(s, O, W) PROVE Keeps(s, Resume(s))
<1>1. s \in Schedulers /\ s.state \in SchedulerState
  BY StateType DEF Sound, Weak
<1>2. ASSUME NEW v, Sound(v, O, W), Keeps(s, v), NEW st \in SchedulerState
      PROVE  Keeps(s, Update(Notify(v, st)))
  <2>1. v \in Schedulers
    BY <1>2 DEF Sound, Weak
  <2>2. Weak(Notify(v, st), O, W) /\ Keeps(s, Notify(v, st))
    BY <1>2, <2>1, NotifySound, SoundIsWeak, EnterKeeps, KeepsTransitive
  <2>. QED
    BY <2>2, UpdateKeeps, KeepsTransitive
<1>3. Keeps(s, s) /\ Keeps(s, Throw(s))
  BY <1>1, SameKeeps, ThrowKeeps
<1>4. CASE s.state = "idle_paused"
  BY <1>2, <1>3, <1>4 DEF Resume, SchedulerState
<1>5. CASE s.state = "paused"
  <2>. DEFINE s1 == MoveActions(s, s.paused, "do_resume")
              m  == MoveNav(s1, "do_resume", 0)
              s2 == IF s.nav = NoTask THEN s1 ELSE m
  <2>1. Sound(s1, O, W) /\ Keeps(s, s1) /\ Sound(m, O, W) /\ Keeps(s, m)
    BY SubMaps, MoveAllKeeps DEF ControlTransition
  <2>2. Sound(s2, O, W) /\ Keeps(s, s2)
    <3>. HIDE DEF s1, m
    <3>. QED
      BY <2>1
  <2>3. Resume(s) = IF s1.thrown THEN s1 ELSE IF s2.thrown THEN s2
                    ELSE Update(Notify(s2, "resuming"))
    BY <1>5 DEF Resume, ResumePaused
  <2>. HIDE DEF s1, s2
  <2>. QED
    BY <1>2, <2>1, <2>2, <2>3 DEF SchedulerState
<1>6. CASE s.state \notin {"idle_paused", "paused"}
  BY <1>3, <1>6 DEF Resume
<1>. QED
  BY <1>4, <1>5, <1>6

LEMMA InterruptKeeps ==
  ASSUME NEW O, NEW W, NEW s, Sound(s, O, W), NEW G \in SUBSET W, G # {}
  PROVE  Keeps(s, Interrupt(s, G))
<1>. DEFINE s1 == [s EXCEPT !.intr = Append(@, G)]
            s2 == DoInterrupt(s1)
            s3 == Notify(s2, "interrupting")
<1>1. s \in Schedulers /\ Sound(s1, O, W \ G)
  BY QueueInterruptSound DEF Sound, Weak
<1>2. Keeps(s, s1)
  <2>1. s1.active = s.active /\ s1.task = s.task /\ s1.nav = s.nav /\ s1.goal = s.goal
    BY <1>1 DEF Schedulers
  <2>. HIDE DEF s1
  <2>. QED
    BY <2>1, SameKeeps
<1>. HIDE DEF s1
<1>3. s1 \in Schedulers
  BY <1>1 DEF Sound, Weak
<1>4. Sound(s2, O, W \ G) /\ Keeps(s1, s2)
  BY <1>1, <1>3, DoInterruptSound, DoInterruptKeeps
<1>. HIDE DEF s2
<1>5. Weak(s3, O, W \ G) /\ Keeps(s2, s3)
  BY <1>4, NotifySound, EnterKeeps, SoundIsWeak DEF SchedulerState, Sound, Weak
<1>. HIDE DEF s3
<1>6. Keeps(s3, Update(s3)) /\ Keeps(s1, Throw(s1))
  BY <1>3, <1>5, UpdateKeeps, ThrowKeeps
<1>7. Keeps(s, s2) /\ Keeps(s, Throw(s1))
  BY <1>2, <1>4, <1>6, KeepsTransitive
<1>8. Keeps(s, s3)
  BY <1>5, <1>7, KeepsTransitive
<1>9. Keeps(s, Update(s3))
  BY <1>6, <1>8, KeepsTransitive
<1>. QED
  BY <1>7, <1>9 DEF Interrupt, s1, s2, s3

LEMMA EnqueueKeeps ==
  ASSUME NEW s \in Schedulers, NEW e PROVE Keeps(s, Enqueue(s, e))
<1>. DEFINE r == Enqueue(s, e)
<1>1. r.active = s.active /\ r.task = s.task /\ r.nav = s.nav /\ r.goal = s.goal
  BY DEF Enqueue, Schedulers
<1>. HIDE DEF r
<1>2. Keeps(s, r)
  BY <1>1, SameKeeps
<1>. QED
  BY <1>2 DEF r

LEMMA CommitQueueKeeps ==
  ASSUME NEW O, NEW W, NEW s, Sound(s, O, W) PROVE Keeps(s, CommitQueue(s))
<1>. DEFINE r == [s EXCEPT !.queue = @ \o s.staging, !.staging = <<>>]
<1>1. Weak(r, O, W)
  BY CommittedWeak
<1>2. r.active = s.active /\ r.task = s.task /\ r.nav = s.nav /\ r.goal = s.goal
  BY DEF Sound, Weak, Schedulers
<1>. HIDE DEF r
<1>3. Keeps(s, Update(r))
  BY <1>1, <1>2, SameKeeps, UpdateKeeps, KeepsTransitive
<1>. QED
  BY <1>3 DEF CommitQueue, r

\* The reports with which the AGV ends its work.
Ends == {"is_finished", "is_failed"}

\* A report ends the action it is about, and no other.
LEMMA ReportActionKeeps ==
  ASSUME NEW O, NEW W, NEW s, Sound(s, O, W), NEW a \in Action, NEW t \in ActionReport
  PROVE  LET r == ReportAction(s, a, t)
         IN /\ \A b \in Action :
                 /\ b # a \/ t \notin Ends =>
                      (Ended(r, b) => Ended(s, b)) /\ (Begun(s, r, b) => Ended(s, b))
                 /\ Begun(s, r, b) => ~Ended(r, b)
            /\ NavEnded(r) => NavEnded(s)
            /\ NavBegun(s, r) => NavEnded(s)
<1>. DEFINE u == [s EXCEPT !.task[a] = ActionTarget[t]]
            r == Update(u)
<1>1. s \in Schedulers
  BY DEF Sound, Weak
<1>2. ASSUME a \notin s.active \/ t \notin ActionAccepts[s.task[a]]
      PROVE  Keeps(s, ReportAction(s, a, t))
  BY <1>1, <1>2, ThrowKeeps DEF ReportAction
<1>3. ASSUME a \in s.active, t \in ActionAccepts[s.task[a]]
      PROVE  ReportAction(s, a, t) = r
  BY <1>3 DEF ReportAction
<1>4. ASSUME a \in s.active PROVE Keeps(u, r)
  <2>1. Weak(u, O, W)
    BY <1>4, ReportedWeak
  <2>. HIDE DEF u
  <2>. QED
    BY <2>1, UpdateKeeps
<1>5. /\ u.active = s.active /\ u.nav = s.nav /\ u.goal = s.goal
      /\ \A b \in Action : u.task[b] = IF b = a THEN ActionTarget[t] ELSE s.task[b]
  BY <1>1 DEF Schedulers
<1>6. /\ t \notin Ends => ActionTarget[t] \notin ActionTerminal
      /\ ActionTarget[t] # "Initializing"
  BY DEF ActionReport, Ends, ActionTarget, ActionTransition, ActionTerminal
<1>7. s.task[a] \notin ActionTerminal \/ a \notin s.active
  BY DEF Sound, Alive
<1>. HIDE DEF u, r
<1>8. CASE a \in s.active /\ t \in ActionAccepts[s.task[a]]
  BY <1>3, <1>4, <1>5, <1>6, <1>7, <1>8 DEF Keeps, Begun, NavBegun, Ended, NavEnded
<1>9. CASE a \notin s.active \/ t \notin ActionAccepts[s.task[a]]
  BY <1>2, <1>9 DEF Keeps, Begun
<1>. QED
  BY <1>8, <1>9

\* A report that does not end the navigation keeps it.
LEMMA ReportNavKeeps ==
  ASSUME NEW O, NEW W, NEW s, Sound(s, O, W), NEW t \in NavReport, NEW g,
         NEW r, r = ReportNav(s, t, g) \/ (r = ReachUnrecorded(s, g) /\ t = "to_seq_id")
  PROVE  /\ \A b \in Action :
              /\ Ended(r, b) => Ended(s, b)
              /\ Begun(s, r, b) => Ended(s, b) /\ ~Ended(r, b)
         /\ t \notin {"to_seq_id", "is_failed"} =>
              (NavEnded(r) => NavEnded(s)) /\ (NavBegun(s, r) => NavEnded(s))
<1>. DEFINE u == MoveNav(s, t, g)
            v == MoveNav(s, "to_seq_id", g)
<1>1. s \in Schedulers
  BY DEF Sound, Weak
<1>2. /\ u.active = s.active /\ u.task = s.task /\ u.goal = s.goal
      /\ u.nav \in {s.nav, NavTarget[t]}
  BY <1>1 DEF MoveNav, Throw, Schedulers
<1>3. t \notin {"to_seq_id", "is_failed"} =>
        NavTarget[t] \notin NavTerminal \cup {NoTask, "FirstInProgress"}
  BY DEF NavReport, NavTarget, NavTransition, NavTerminal, NoTask
<1>4. Weak(u, O, W) /\ u \in Schedulers
  BY MoveNavSound, SoundIsWeak DEF NavTransition, Weak
<1>5. CASE r = ReportNav(s, t, g)
  <2>1. r \in {Throw(s), u, Update(u)}
    BY <1>5 DEF ReportNav
  <2>. HIDE DEF u
  <2>2. Keeps(s, Throw(s)) /\ Keeps(u, u) /\ Keeps(u, Update(u))
    BY <1>1, <1>4, ThrowKeeps, SameKeeps, UpdateKeeps
  <2>3. CASE Keeps(s, r)
    BY <2>3 DEF Keeps
  <2>4. CASE Keeps(u, r)
    BY <1>2, <1>3, <2>4 DEF Keeps, Begun, NavBegun, Ended, NavEnded
  <2>. QED
    BY <2>1, <2>2, <2>3, <2>4
<1>6. CASE r = ReachUnrecorded(s, g) /\ t = "to_seq_id"
  <2>1. r.active = s.active /\ r.task = s.task
    BY <1>1, <1>6 DEF ReachUnrecorded, MoveNav, Throw, Schedulers
  <2>2. t = "to_seq_id"
    BY <1>6
  <2>. QED
    BY <2>1, <2>2 DEF Ended, Begun
<1>. QED
  BY <1>5, <1>6

-------------------------------------------------------------------------------
(* The scheduler between two calls *)

\* The actions of the orders, and of instant actions messages still to come.
OfOrders ==
  {a \in Action : \E n \in DOMAIN Orders : \E i \in DOMAIN Orders[n] :
     ~IsStep(Orders[n][i]) /\ a \in Orders[n][i].actions}
Unhandled == UNION (Instants \ handled.groups)

YieldsInside ==
  \A i \in DOMAIN inbox : inbox[i].kind \in {"group", "nav"} => inbox[i] \in YieldOf(OfOrders)

ExecInv ==
  /\ LineInv
  /\ Sound(sch, OfOrders, Unhandled)
  /\ Emptied(sch)
  /\ YieldsInside

LEMMA ExecInit == Init => ExecInv
<1>. SUFFICES ASSUME Init PROVE ExecInv
  OBVIOUS
<1>1. LineInv /\ sch \in Schedulers
  BY LineInit DEF LineInv, TypeInv
<1>2. <<>> \in Seq(YieldOf(OfOrders)) /\ DOMAIN <<>> = {}
  BY EmptySeqType
<1>3. Unhandled \subseteq Action
  BY ConstantsType DEF Unhandled
<1>4. Unhandled \cap OfOrders = {}
  BY DistinctIdsAssumption DEF Unhandled, OfOrders
<1>5. Fresh(sch, OfOrders, Unhandled)
  BY <1>2, <1>3, <1>4 DEF Init, NewScheduler, Fresh
<1>6. Maps(sch) /\ Alive(sch) /\ Emptied(sch)
  BY DEF Init, NewScheduler, Maps, Alive, Emptied, Quiet
<1>7. YieldsInside
  BY <1>2 DEF Init, YieldsInside
<1>. QED
  BY <1>1, <1>5, <1>6, <1>7 DEF ExecInv, Sound, Weak

LEMMA OrdersInside ==
  ASSUME NEW n \in DOMAIN Orders, NEW i \in DOMAIN Orders[n]
  PROVE  Orders[n][i] \in YieldOf(OfOrders)
<1>1. Orders[n][i] \in Yield
  BY ConstantsType
<1>2. ~IsStep(Orders[n][i]) => Orders[n][i].actions \subseteq Action
  BY <1>1, YieldCases DEF Group
<1>. QED
  BY <1>1, <1>2 DEF YieldOf, OfOrders

\* What is known of the scheduler when a call begins.
LEMMA Beginning ==
  ASSUME ExecInv
  PROVE  LET s == Begin(sch)
         IN /\ s \in Schedulers /\ Sound(s, OfOrders, Unhandled) /\ ~s.thrown
            /\ Announced(s, sch.state) /\ Keeps(sch, s)
            /\ s.state \in {"idle", "idle_paused"} => s.active = {}
            /\ s.task = sch.task /\ s.active = sch.active /\ s.nav = sch.nav /\ s.goal = sch.goal
<1>. DEFINE s == Begin(sch)
<1>1. sch \in Schedulers
  BY DEF ExecInv, LineInv, TypeInv
<1>2. s.task = sch.task /\ s.active = sch.active /\ s.nav = sch.nav /\ s.goal = sch.goal
  BY <1>1 DEF Begin, Schedulers
<1>3. s \in Schedulers /\ Sound(s, OfOrders, Unhandled) /\ Announced(s, sch.state) /\ ~s.thrown
  BY <1>1, BeginType, BeginSound, BeginStatus DEF ExecInv
<1>4. Keeps(sch, s)
  BY <1>1, BeginKeeps
<1>. HIDE DEF s
<1>5. s.state \in {"idle", "idle_paused"} => s.active = {}
  BY <1>3 DEF Announced, Emptied, Quiet
<1>. QED
  BY <1>2, <1>3, <1>4, <1>5 DEF s

\* The calls of the interpreter event thread.
LEMMA InterpreterCalls ==
  ASSUME ExecInv, InterpreterThread
  PROVE  /\ Sound(sch', OfOrders, Unhandled') /\ Emptied(sch')
         /\ \/ UNCHANGED <<sch, agv>>
            \/ agv' = Told(sch') /\ Keeps(sch, sch')
         /\ UNCHANGED <<reports, nreports>>
<1>. DEFINE s0 == Begin(sch)
            O == OfOrders
            W == Unhandled
            p == sch.state
            e == Head(inbox)
<1>1. /\ s0 \in Schedulers /\ Sound(s0, O, W) /\ ~s0.thrown
      /\ Announced(s0, p) /\ Keeps(sch, s0)
      /\ s0.state \in {"idle", "idle_paused"} => s0.active = {}
  BY Beginning
<1>2. inbox \in Seq(Event) /\ handled \in [orders : Nat, groups : SUBSET Instants]
  BY DEF ExecInv, LineInv, TypeInv
<1>3. inbox # <<>>
  BY DEF InterpreterThread, EnqueueYield, SetGraph, CommitOrder, InstantActions, OrderControl,
         DeclineControl, Takes
<1>4. e \in Event /\ 1 \in DOMAIN inbox /\ inbox[1] = e
  BY <1>2, <1>3, TailType, TailElements
<1>. HIDE DEF s0, O, p, e
<1>5. ASSUME NEW s, Call(s), Sound(s, O, Unhandled'), Announced(s, p), Keeps(s0, s)
      PROVE  /\ Sound(sch', O, Unhandled') /\ Emptied(sch')
             /\ agv' = Told(sch') /\ Keeps(sch, sch')
  BY <1>1, <1>5, KeepsTransitive DEF Call, Announced
<1>6. handled'.groups = handled.groups => Unhandled' = W
  BY DEF Unhandled
<1>. HIDE DEF W
<1>7. CASE EnqueueYield
  <2>1. /\ Call(Enqueue(s0, e)) /\ UNCHANGED <<handled, reports, nreports>>
        /\ e.kind \in {"group", "nav"}
    BY <1>7 DEF EnqueueYield, Takes, s0, e
  <2>2. e \in YieldOf(O)
    BY <1>4, <2>1 DEF ExecInv, YieldsInside, O
  <2>3. Sound(Enqueue(s0, e), O, W) /\ Announced(Enqueue(s0, e), p) /\ Keeps(s0, Enqueue(s0, e))
    BY <1>1, <2>2, EnqueueSound, EnqueueStatus, EnqueueKeeps
  <2>. QED
    BY <1>5, <1>6, <2>1, <2>3 DEF O
<1>8. CASE SetGraph
  BY <1>6, <1>8 DEF SetGraph, ExecInv, W
<1>9. CASE CommitOrder
  <2>1. Call(CommitQueue(s0)) /\ UNCHANGED <<handled, reports, nreports>>
    BY <1>9 DEF CommitOrder, s0
  <2>2. /\ Sound(CommitQueue(s0), O, W) /\ Announced(CommitQueue(s0), p)
        /\ Keeps(s0, CommitQueue(s0))
    BY <1>1, CommitQueueSound, CommitQueueStatus, CommitQueueKeeps
  <2>. QED
    BY <1>5, <1>6, <2>1, <2>2 DEF O
<1>10. CASE InstantActions
  <2>1. /\ Call(Interrupt(s0, e.group)) /\ UNCHANGED <<reports, nreports>>
        /\ handled' = [handled EXCEPT !.groups = @ \cup {e.group}]
        /\ e.kind = "instants"
    BY <1>10 DEF InstantActions, Takes, s0, e
  <2>. DEFINE G == e.group
  <2>2. G \in Instants /\ G \notin handled.groups
    BY <1>4, <2>1, EventCases DEF ExecInv, LineInv, GroupsOnce, IsGroup
  <2>3. G \subseteq W /\ G # {}
    BY <2>2, ConstantsType DEF W, Unhandled
  <2>. HIDE DEF G
  <2>4. handled'.groups = handled.groups \cup {G}
    BY <1>2, <2>1 DEF G
  <2>5. Unhandled' = W \ G
    BY <2>2, <2>4, DistinctIdsAssumption DEF W, Unhandled
  <2>6. /\ Sound(Interrupt(s0, G), O, W \ G) /\ Announced(Interrupt(s0, G), p)
        /\ Keeps(s0, Interrupt(s0, G))
    BY <1>1, <2>3, InterruptSound, InterruptStatus, InterruptKeeps
  <2>. QED
    BY <1>5, <2>1, <2>5, <2>6 DEF O, G
<1>11. CASE OrderControl
  <2>. DEFINE r == CASE e.type = "startPause"  -> Pause(s0)
                     [] e.type = "stopPause"   -> Resume(s0)
                     [] e.type = "cancelOrder" -> Cancel(s0)
  <2>1. Call(r) /\ UNCHANGED <<handled, reports, nreports>> /\ e.kind = "control"
    BY <1>11 DEF OrderControl, Takes, s0, e
  <2>2. e.type \in ControlAction
    BY <1>4, <2>1, EventCases
  <2>3. r \in {Pause(s0), Resume(s0), Cancel(s0)}
    BY <2>2 DEF ControlAction
  <2>. HIDE DEF r
  <2>4. Sound(Pause(s0), O, W) /\ Announced(Pause(s0), p) /\ Keeps(s0, Pause(s0))
    BY <1>1, PauseSound, PauseStatus, PauseKeeps
  <2>5. Sound(Resume(s0), O, W) /\ Announced(Resume(s0), p) /\ Keeps(s0, Resume(s0))
    BY <1>1, ResumeSound, ResumeStatus, ResumeKeeps
  <2>6. Sound(Cancel(s0), O, W) /\ Announced(Cancel(s0), p) /\ Keeps(s0, Cancel(s0))
    BY <1>1, CancelSound, CancelStatus, CancelKeeps, SoundIsWeak
  <2>. QED
    BY <1>5, <1>6, <2>1, <2>3, <2>4, <2>5, <2>6 DEF O
<1>12. CASE DeclineControl
  BY <1>6, <1>12 DEF DeclineControl, ExecInv, W
<1>. QED
  BY <1>7, <1>8, <1>9, <1>10, <1>11, <1>12 DEF InterpreterThread, O

\* The report on an action.
LEMMA ActionCalls ==
  ASSUME ExecInv, NEW a \in Action, ActionStatus(a)
  PROVE  /\ Sound(sch', OfOrders, Unhandled') /\ Emptied(sch')
         /\ \/ a \notin sch.active /\ UNCHANGED <<sch, agv>>
            \/ /\ agv' = Told(sch')
               /\ sch' = ReportAction(Begin(sch), a, Head(reports[a]))
         /\ reports[a] # <<>> /\ Head(reports[a]) \in ActionReport
         /\ reports' = [reports EXCEPT ![a] = Tail(@)] /\ UNCHANGED nreports
<1>. DEFINE s0 == Begin(sch)
            t == Head(reports[a])
            r == ReportAction(s0, a, t)
<1>1. /\ reports[a] # <<>> /\ reports' = [reports EXCEPT ![a] = Tail(@)] /\ UNCHANGED nreports
      /\ Unhandled' = Unhandled
  BY DEF ActionStatus, Unhandled
<1>2. t \in ActionReport
  BY <1>1, TailType DEF ExecInv, LineInv, TypeInv
<1>3. CASE a \in sch.active
  <2>1. Call(r)
    BY <1>3 DEF ActionStatus
  <2>2. Sound(r, OfOrders, Unhandled) /\ Announced(r, sch.state)
    <3>. HIDE DEF s0, t
    <3>1. /\ Sound(s0, OfOrders, Unhandled) /\ Announced(s0, sch.state)
          /\ s0.state \in {"idle", "idle_paused"} => s0.active = {}
      BY Beginning DEF s0
    <3>. QED
      BY <1>2, <3>1, ReportActionSound, ReportActionStatus
  <2>. HIDE DEF r
  <2>3. sch' = r /\ agv' = Told(sch') /\ Emptied(sch')
    BY <2>1, <2>2 DEF Call, Announced
  <2>4. Sound(sch', OfOrders, Unhandled')
    BY <1>1, <2>2, <2>3
  <2>. QED
    BY <1>1, <1>2, <2>3, <2>4 DEF r
<1>4. CASE a \notin sch.active
  BY <1>1, <1>2, <1>4 DEF ActionStatus, Refused, ExecInv
<1>. QED
  BY <1>3, <1>4

\* The report on the navigation.
LEMMA NavCalls ==
  ASSUME ExecInv, NavigationStatus
  PROVE  /\ Sound(sch', OfOrders, Unhandled') /\ Emptied(sch')
         /\ nreports # <<>> /\ Head(nreports) \in [type : NavReport, goal : Nat]
         /\ nreports' = Tail(nreports) /\ UNCHANGED reports
         /\ LET h == Head(nreports)
            IN \/ UNCHANGED <<sch, agv>>
               \/ /\ agv' = Told(sch')
                  /\ \/ sch' = ReportNav(Begin(sch), h.type, h.goal)
                     \/ sch' = ReachUnrecorded(Begin(sch), h.goal) /\ h.type = "to_seq_id"
<1>. DEFINE s0 == Begin(sch)
            h == Head(nreports)
<1>1. nreports # <<>> /\ nreports' = Tail(nreports) /\ UNCHANGED reports /\ Unhandled' = Unhandled
  BY DEF NavigationStatus, Unhandled
<1>2. h \in [type : NavReport, goal : Nat]
  BY <1>1, TailType DEF ExecInv, LineInv, TypeInv
<1>3. \/ Call(ReportNav(s0, h.type, h.goal))
      \/ /\ sch.nav # NoTask /\ h.type = "to_seq_id"
         /\ Call(ReachUnrecorded(s0, h.goal))
      \/ Refused
  BY DEF NavigationStatus
<1>4. /\ s0 \in Schedulers /\ Sound(s0, OfOrders, Unhandled) /\ Announced(s0, sch.state)
      /\ s0.state \in {"idle", "idle_paused"} => s0.active = {}
      /\ s0.nav = sch.nav
  BY Beginning
<1>5. h.type \in NavTransition /\ h.type \in NavReport
  BY <1>2 DEF NavTransition
<1>. HIDE DEF s0, h
<1>6. ASSUME NEW s, Call(s), Sound(s, OfOrders, Unhandled), Announced(s, sch.state)
      PROVE  sch' = s /\ agv' = Told(sch') /\ Emptied(sch') /\ Sound(sch', OfOrders, Unhandled')
  BY <1>1, <1>6 DEF Call, Announced
<1>7. CASE Call(ReportNav(s0, h.type, h.goal))
  <2>1. /\ Sound(ReportNav(s0, h.type, h.goal), OfOrders, Unhandled)
        /\ Announced(ReportNav(s0, h.type, h.goal), sch.state)
    BY <1>4, <1>5, ReportNavSound, ReportNavStatus
  <2>. QED
    BY <1>1, <1>2, <1>6, <1>7, <2>1 DEF s0, h
<1>8. CASE sch.nav # NoTask /\ h.type = "to_seq_id" /\ Call(ReachUnrecorded(s0, h.goal))
  <2>1. /\ Sound(ReachUnrecorded(s0, h.goal), OfOrders, Unhandled)
        /\ Announced(ReachUnrecorded(s0, h.goal), sch.state)
    BY <1>4, <1>8, ReachUnrecordedSound, ReachUnrecordedStatus
  <2>. QED
    BY <1>1, <1>2, <1>6, <1>8, <2>1 DEF s0, h
<1>9. CASE Refused
  BY <1>1, <1>2, <1>9 DEF Refused, ExecInv, h
<1>. QED
  BY <1>3, <1>7, <1>8, <1>9

LEMMA YieldsNext ==
  ASSUME ExecInv, [Next]_vars PROVE YieldsInside'
<1>1. accepted \in Seq(Message) /\ inbox \in Seq(Event)
  BY DEF ExecInv, LineInv, TypeInv
<1>2. ASSUME NEW r \in Seq(Event), inbox' = inbox \o r,
             \A i \in DOMAIN r : r[i].kind \in {"group", "nav"} => r[i] \in YieldOf(OfOrders)
      PROVE  YieldsInside'
  <2>. DEFINE t == inbox \o r
  <2>1. \A i \in DOMAIN t : \/ i \in DOMAIN inbox /\ t[i] = inbox[i]
                            \/ i - Len(inbox) \in DOMAIN r /\ t[i] = r[i - Len(inbox)]
    BY <1>1, ConcatElements
  <2>. HIDE DEF t
  <2>2. inbox' = t
    BY <1>2 DEF t
  <2>3. \A i \in DOMAIN t : t[i].kind \in {"group", "nav"} => t[i] \in YieldOf(OfOrders)
    BY <1>2, <2>1 DEF ExecInv, YieldsInside
  <2>. QED
    BY <2>2, <2>3 DEF YieldsInside
<1>3. CASE InterpretOrder
  <2>. DEFINE n == Head(accepted).number
              r == Orders[n]
              g == <<GraphOf(n), Done>>
  <2>1. accepted # <<>> /\ Head(accepted).kind = "order" /\ inbox' = inbox \o Yields(n)
    BY <1>3 DEF InterpretOrder
  <2>2. n \in DOMAIN Orders
    BY <1>1, <2>1, TailType, MessageCases
  <2>3. Yields(n) \in Seq(Event) /\ r \in Seq(Event) /\ g \in Seq(Event) /\ Yields(n) = r \o g
    BY <2>2, YieldsType DEF Yields
  <2>4. \A i \in DOMAIN g : g[i].kind \notin {"group", "nav"}
    BY DEF GraphOf, Done
  <2>5. \A i \in DOMAIN r : r[i] \in YieldOf(OfOrders)
    BY <2>2, OrdersInside
  <2>. HIDE DEF r, g
  <2>6. \A i \in DOMAIN (r \o g) : (r \o g)[i].kind \in {"group", "nav"} =>
          (r \o g)[i] \in YieldOf(OfOrders)
    BY <2>3, <2>4, <2>5, ConcatElements
  <2>. QED
    BY <1>2, <2>1, <2>3, <2>6
<1>4. CASE InterpretInstantActions
  <2>. DEFINE m == Head(accepted)
  <2>1. accepted # <<>> /\ m.kind # "order" /\ inbox' = Append(inbox, m)
    BY <1>4 DEF InterpretInstantActions
  <2>2. m \in Event /\ ~IsPending(m)
    BY <1>1, <2>1, TailType, MessageCases
  <2>. HIDE DEF m
  <2>3. <<m>> \in Seq(Event) /\ inbox' = inbox \o <<m>>
    BY <1>1, <2>1, <2>2, AppendOne
  <2>4. \A i \in DOMAIN <<m>> : <<m>>[i].kind \notin {"group", "nav"}
    BY <2>2 DEF IsPending
  <2>. QED
    BY <1>2, <2>3, <2>4
<1>5. CASE InterpreterThread
  <2>1. inbox # <<>> /\ inbox' = Tail(inbox)
    BY <1>5 DEF InterpreterThread, EnqueueYield, SetGraph, CommitOrder, InstantActions,
                OrderControl, DeclineControl, Takes
  <2>. DEFINE q == Tail(inbox)
  <2>2. \A i \in DOMAIN q : i + 1 \in DOMAIN inbox /\ q[i] = inbox[i + 1]
    BY <1>1, <2>1, TailElements
  <2>. HIDE DEF q
  <2>3. inbox' = q
    BY <2>1 DEF q
  <2>. QED
    BY <2>2, <2>3 DEF ExecInv, YieldsInside
<1>6. CASE UNCHANGED inbox
  BY <1>6 DEF ExecInv, YieldsInside
<1>7. CASE ValidateOrder \/ (\E G \in Instants : ValidateInstants(G))
           \/ (\E c \in Controls : ValidateControl(c))
  BY <1>6, <1>7 DEF ValidateOrder, ValidateInstants, ValidateControl, Accept
<1>8. CASE HandleStatus \/ (\E a \in Action : ActionStatus(a)) \/ NavigationStatus
  BY <1>6, <1>8 DEF HandleStatus, ActionStatus, NavigationStatus
<1>9. CASE Agv
  BY <1>6, <1>9 DEF Agv, HandleActionCommand, BeginWork, EndWork, HaltWork, ResumeWork, Works,
                 HandleNavigationCommand, EndDrive, HaltDrive, DriveOn, Drives, OnlyAgv
<1>. QED
  BY <1>3, <1>4, <1>5, <1>6, <1>7, <1>8, <1>9 DEF Next, Agv, vars

\* What the scheduler is not told of leaves it alone.
LEMMA Elsewhere ==
  ASSUME LineInv,
         \/ ValidateOrder \/ (\E G \in Instants : ValidateInstants(G))
         \/ (\E c \in Controls : ValidateControl(c))
         \/ InterpretOrder \/ InterpretInstantActions \/ HandleStatus \/ UNCHANGED vars
  PROVE  UNCHANGED <<sch, agv, reports, nreports>> /\ Unhandled' = Unhandled
<1>1. UNCHANGED <<sch, agv, reports, nreports>> /\ handled'.groups = handled.groups
  <2>1. CASE InterpretOrder
    BY <2>1 DEF InterpretOrder, LineInv, TypeInv
  <2>. QED
    BY <2>1 DEF ValidateOrder, ValidateInstants, ValidateControl, Accept,
                InterpretInstantActions, HandleStatus, vars
<1>. QED
  BY <1>1 DEF Unhandled

LEMMA ExecNext == ExecInv /\ [Next]_vars => ExecInv'
<1>. SUFFICES ASSUME ExecInv, [Next]_vars PROVE ExecInv'
  OBVIOUS
<1>1. LineInv' /\ YieldsInside'
  BY LineNext, YieldsNext DEF ExecInv
<1>2. ASSUME UNCHANGED sch, Unhandled' = Unhandled PROVE ExecInv'
  BY <1>1, <1>2 DEF ExecInv
<1>3. CASE InterpreterThread
  BY <1>1, <1>3, InterpreterCalls DEF ExecInv
<1>4. CASE \E a \in Action : ActionStatus(a)
  BY <1>1, <1>4, ActionCalls DEF ExecInv
<1>5. CASE NavigationStatus
  BY <1>1, <1>5, NavCalls DEF ExecInv
<1>6. CASE Agv
  <2>1. OnlyAgv
    BY <1>6 DEF Agv, HandleActionCommand, BeginWork, EndWork, HaltWork, ResumeWork, Works,
                HandleNavigationCommand, EndDrive, HaltDrive, DriveOn, Drives
  <2>. QED
    BY <1>2, <2>1 DEF OnlyAgv, Unhandled
<1>7. CASE \/ ValidateOrder \/ (\E G \in Instants : ValidateInstants(G))
           \/ (\E c \in Controls : ValidateControl(c))
           \/ InterpretOrder \/ InterpretInstantActions \/ HandleStatus \/ UNCHANGED vars
  BY <1>2, <1>7, Elsewhere DEF ExecInv
<1>. QED
  BY <1>3, <1>4, <1>5, <1>6, <1>7 DEF Next, Agv

-------------------------------------------------------------------------------
(* What is on its way between the scheduler and the AGV *)

None(q, S) == \A i \in DOMAIN q : q[i] \notin S
Once(q, S) == \A i, j \in DOMAIN q : q[i] \in S /\ q[j] \in S => i = j

\* Of the order to begin some work, the work and the report of its end there is at
\* most one at a time, and none without a task that goes on.  The task is in state x,
\* the commands c are on their way, the AGV is in state w, the reports q come back.
Linked(k, x, c, w, q) ==
  /\ x \in k.ended => None(c, k.starts) /\ w \in k.rests /\ None(q, k.ends)
  /\ ~None(c, k.starts) => w \in k.rests /\ None(q, k.ends)
  /\ w \notin k.rests => None(q, k.ends)
  /\ Once(c, k.starts) /\ Once(q, k.ends)

ForAction ==
  [ended |-> ActionTerminal \cup {NoTask}, starts |-> {"start"},
   rests |-> {"idle", "over"}, ends |-> Ends]

ForNav ==
  [ended |-> NavTerminal \cup {NoTask}, starts |-> [to : {"navigate"}, goal : Nat],
   rests |-> {"standing"}, ends |-> [type : {"to_seq_id", "is_failed"}, goal : Nat]]

TaskOf(s, a) == IF a \in s.active THEN s.task[a] ELSE NoTask

ActionLinked(a) == Linked(ForAction, TaskOf(sch, a), agv.cmds[a], agv.work[a], reports[a])
NavLinked       == Linked(ForNav, sch.nav, agv.ncmds, agv.drive, nreports)

AgvInv == ExecInv /\ (\A a \in Action : ActionLinked(a)) /\ NavLinked

LEMMA TailNone ==
  ASSUME NEW X, NEW q \in Seq(X), q # <<>>, NEW S
  PROVE  /\ None(q, S) => None(Tail(q), S)
         /\ Once(q, S) => Once(Tail(q), S)
         /\ Once(q, S) /\ Head(q) \in S => None(Tail(q), S)
         /\ Head(q) \in S => ~None(q, S)
<1>. DEFINE t == Tail(q)
<1>1. /\ 1 \in DOMAIN q /\ q[1] = Head(q)
      /\ \A i \in DOMAIN t : i \in Nat /\ i # 0 /\ i + 1 \in DOMAIN q /\ t[i] = q[i + 1]
  BY TailElements
<1>2. \A i \in Nat : i # 0 => i + 1 # 1
  OBVIOUS
<1>3. \A i, j \in Nat : i + 1 = j + 1 => i = j
  OBVIOUS
<1>. HIDE DEF t
<1>4. None(q, S) => None(t, S)
  BY <1>1 DEF None
<1>5. Once(q, S) => Once(t, S)
  BY <1>1, <1>3 DEF Once
<1>6. Once(q, S) /\ Head(q) \in S => None(t, S)
  BY <1>1, <1>2 DEF Once, None
<1>7. Head(q) \in S => ~None(q, S)
  BY <1>1 DEF None
<1>. QED
  BY <1>4, <1>5, <1>6, <1>7 DEF t

LEMMA AppendNone ==
  ASSUME NEW X, NEW q \in Seq(X), NEW m, NEW S
  PROVE  /\ m \notin S => (None(q, S) <=> None(Append(q, m), S))
         /\ m \notin S /\ Once(q, S) => Once(Append(q, m), S)
         /\ None(q, S) => Once(Append(q, m), S)
<1>. DEFINE t == Append(q, m)
            n == Len(q) + 1
<1>1. /\ \A i \in DOMAIN t : (i \in DOMAIN q /\ t[i] = q[i]) \/ (i = n /\ t[i] = m)
      /\ \A i \in DOMAIN q : i \in DOMAIN t /\ t[i] = q[i]
  BY AppendElements
<1>. HIDE DEF t, n
<1>2. m \notin S => (None(q, S) <=> None(t, S))
  BY <1>1 DEF None
<1>3. m \notin S /\ Once(q, S) => Once(t, S)
  BY <1>1 DEF Once
<1>4. None(q, S) => Once(t, S)
  BY <1>1 DEF Once, None
<1>. QED
  BY <1>2, <1>3, <1>4 DEF t

\* The scheduler goes on from a task in state x to one in state y.  It starts only
\* what has ended.
LEMMA CallLinked ==
  ASSUME NEW k, NEW X, NEW c \in Seq(X), NEW w, NEW q, NEW x, Linked(k, x, c, w, q),
         NEW y, y \in k.ended => x \in k.ended, NEW d, NEW m,
         \/ d = c
         \/ d = Append(c, m) /\ (m \in k.starts => x \in k.ended /\ y \notin k.ended)
  PROVE  Linked(k, y, d, w, q)
<1>1. CASE d = c
  BY <1>1 DEF Linked
<1>2. CASE d = Append(c, m) /\ m \notin k.starts
  <2>1. (None(c, k.starts) <=> None(d, k.starts)) /\ (Once(c, k.starts) => Once(d, k.starts))
    BY <1>2, AppendNone
  <2>. QED
    BY <2>1 DEF Linked
<1>3. CASE d = Append(c, m) /\ x \in k.ended /\ y \notin k.ended
  <2>1. None(c, k.starts) => Once(d, k.starts)
    BY <1>3, AppendNone
  <2>. QED
    BY <1>3, <2>1 DEF Linked
<1>. QED
  BY <1>1, <1>2, <1>3

\* It hears that the work has ended, whereupon the task may be in any state y.
LEMMA EndLinked ==
  ASSUME NEW k, NEW X, NEW c \in Seq(X), NEW w, NEW Y, NEW q \in Seq(Y), NEW x,
         Linked(k, x, c, w, q), q # <<>>, Head(q) \in k.ends,
         NEW y, NEW d, NEW m,
         d = c \/ (d = Append(c, m) /\ (m \in k.starts => y \notin k.ended))
  PROVE  Linked(k, y, d, w, Tail(q))
<1>. DEFINE t == Tail(q)
<1>1. ~None(q, k.ends) /\ (Once(q, k.ends) => None(t, k.ends))
      /\ (Once(q, k.ends) => Once(t, k.ends))
  BY TailNone
<1>. HIDE DEF t
<1>2. w \in k.rests /\ None(c, k.starts) /\ None(t, k.ends) /\ Once(t, k.ends)
  BY <1>1 DEF Linked
<1>3. CASE d = c
  BY <1>2, <1>3 DEF Linked, t, Once, None
<1>4. CASE d = Append(c, m) /\ m \notin k.starts
  <2>1. None(d, k.starts) /\ Once(d, k.starts)
    BY <1>2, <1>4, AppendNone
  <2>. QED
    BY <1>2, <2>1 DEF Linked, t
<1>5. CASE d = Append(c, m) /\ y \notin k.ended
  <2>1. Once(d, k.starts)
    BY <1>2, <1>5, AppendNone
  <2>. QED
    BY <1>2, <1>5, <2>1 DEF Linked, t
<1>. QED
  BY <1>3, <1>4, <1>5

\* It hears something.
LEMMA HeardLinked ==
  ASSUME NEW k, NEW c, NEW w, NEW Y, NEW q \in Seq(Y), NEW x,
         Linked(k, x, c, w, q), q # <<>>
  PROVE  Linked(k, x, c, w, Tail(q))
<1>1. /\ None(q, k.ends) => None(Tail(q), k.ends)
      /\ Once(q, k.ends) => Once(Tail(q), k.ends)
  BY TailNone
<1>. QED
  BY <1>1 DEF Linked

\* The AGV begins the work it was told to begin.
LEMMA StartLinked ==
  ASSUME NEW k, NEW X, NEW c \in Seq(X), NEW w, NEW q, NEW x, Linked(k, x, c, w, q),
         c # <<>>, Head(c) \in k.starts, NEW v
  PROVE  Linked(k, x, Tail(c), v, q)
<1>1. /\ ~None(c, k.starts) /\ (Once(c, k.starts) => None(Tail(c), k.starts))
      /\ (Once(c, k.starts) => Once(Tail(c), k.starts))
  BY TailNone
<1>. QED
  BY <1>1 DEF Linked

\* The AGV does something else, from state w to state v, and reports m or nothing.
LEMMA WorkLinked ==
  ASSUME NEW k, NEW X, NEW c \in Seq(X), NEW w, NEW Y, NEW q \in Seq(Y), NEW x,
         Linked(k, x, c, w, q), NEW d, d = c \/ (c # <<>> /\ d = Tail(c)),
         NEW v, NEW r, NEW m,
         \/ (v \in k.rests <=> w \in k.rests) /\ (r = q \/ (r = Append(q, m) /\ m \notin k.ends))
         \/ v \in k.rests /\ w \notin k.rests /\ r = Append(q, m)
  PROVE  Linked(k, x, d, v, r)
<1>1. (None(c, k.starts) => None(d, k.starts)) /\ (Once(c, k.starts) => Once(d, k.starts))
  BY TailNone
<1>2. CASE (v \in k.rests <=> w \in k.rests) /\ r = q
  BY <1>1, <1>2 DEF Linked
<1>3. CASE (v \in k.rests <=> w \in k.rests) /\ r = Append(q, m) /\ m \notin k.ends
  <2>1. (None(q, k.ends) <=> None(r, k.ends)) /\ (Once(q, k.ends) => Once(r, k.ends))
    BY <1>3, AppendNone
  <2>. QED
    BY <1>1, <1>3, <2>1 DEF Linked
<1>4. CASE v \in k.rests /\ w \notin k.rests /\ r = Append(q, m)
  <2>1. None(q, k.ends) => Once(r, k.ends)
    BY <1>4, AppendNone
  <2>. QED
    BY <1>1, <1>4, <2>1 DEF Linked
<1>. QED
  BY <1>2, <1>3, <1>4

-------------------------------------------------------------------------------
(* Nothing is forgotten *)

LEMMA EndedTask ==
  ASSUME NEW s \in Schedulers, NEW a \in Action
  PROVE  Ended(s, a) <=> TaskOf(s, a) \in ForAction.ended
<1>1. s.task[a] # NoTask
  BY DEF Schedulers, ActionState, NoTask
<1>2. ForAction.ended = ActionTerminal \cup {NoTask}
  BY DEF ForAction
<1>. QED
  BY <1>1, <1>2 DEF Ended, TaskOf

\* What a call tells the AGV.
LEMMA ToldParts ==
  ASSUME TypeInv, NEW s \in Schedulers, agv' = Told(s)
  PROVE  /\ agv'.work = agv.work /\ agv'.drive = agv.drive
         /\ \A a \in Action : \E m :
              \/ agv'.cmds[a] = agv.cmds[a]
              \/ /\ agv'.cmds[a] = Append(agv.cmds[a], m)
                 /\ m \in ForAction.starts => Begun(sch, s, a)
         /\ \E m :
              \/ agv'.ncmds = agv.ncmds
              \/ /\ agv'.ncmds = Append(agv.ncmds, m)
                 /\ m \in ForNav.starts => NavBegun(sch, s)
<1>1. ForAction.starts = {"start"} /\ ForNav.starts = [to : {"navigate"}, goal : Nat]
  BY DEF ForAction, ForNav
<1>2. /\ agv'.work = agv.work /\ agv'.drive = agv.drive
      /\ agv'.cmds = [a \in Action |->
           IF s.task[a] # sch.task[a] /\ s.task[a] \in DOMAIN ActionCommand
           THEN Append(agv.cmds[a], ActionCommand[s.task[a]]) ELSE agv.cmds[a]]
      /\ agv'.ncmds =
           IF <<s.nav, s.goal>> # <<sch.nav, sch.goal>> /\ s.nav \in DOMAIN NavCommand
           THEN Append(agv.ncmds, [to |-> NavCommand[s.nav], goal |-> s.goal]) ELSE agv.ncmds
  BY DEF Told, TypeInv, Agvs
<1>3. ASSUME NEW a \in Action
      PROVE  \E m : \/ agv'.cmds[a] = agv.cmds[a]
                    \/ /\ agv'.cmds[a] = Append(agv.cmds[a], m)
                       /\ m \in ForAction.starts => Begun(sch, s, a)
  <2>1. CASE s.task[a] # sch.task[a] /\ s.task[a] \in DOMAIN ActionCommand
    <3>. DEFINE m == ActionCommand[s.task[a]]
    <3>1. agv'.cmds[a] = Append(agv.cmds[a], m)
      BY <1>2, <2>1
    <3>2. m = "start" => s.task[a] = "Initializing"
      BY <2>1 DEF ActionCommand
    <3>. HIDE DEF m
    <3>3. m \in ForAction.starts => Begun(sch, s, a)
      BY <1>1, <2>1, <3>2 DEF Begun
    <3>. QED
      BY <3>1, <3>3
  <2>2. CASE ~(s.task[a] # sch.task[a] /\ s.task[a] \in DOMAIN ActionCommand)
    BY <1>2, <2>2
  <2>. QED
    BY <2>1, <2>2
<1>4. \E m : \/ agv'.ncmds = agv.ncmds
             \/ /\ agv'.ncmds = Append(agv.ncmds, m)
                /\ m \in ForNav.starts => NavBegun(sch, s)
  <2>1. CASE <<s.nav, s.goal>> # <<sch.nav, sch.goal>> /\ s.nav \in DOMAIN NavCommand
    <3>. DEFINE m == [to |-> NavCommand[s.nav], goal |-> s.goal]
    <3>1. agv'.ncmds = Append(agv.ncmds, m)
      BY <1>2, <2>1
    <3>2. m.to = "navigate" => s.nav = "FirstInProgress"
      BY <2>1 DEF NavCommand
    <3>. HIDE DEF m
    <3>3. m \in ForNav.starts => NavBegun(sch, s)
      BY <1>1, <2>1, <3>2 DEF NavBegun
    <3>. QED
      BY <3>1, <3>3
  <2>2. CASE ~(<<s.nav, s.goal>> # <<sch.nav, sch.goal>> /\ s.nav \in DOMAIN NavCommand)
    BY <1>2, <2>2
  <2>. QED
    BY <2>1, <2>2
<1>. QED
  BY <1>2, <1>3, <1>4

\* A call in which action a neither ends nor is begun anew.
LEMMA ActionCalled ==
  ASSUME AgvInv, NEW s \in Schedulers, agv' = Told(s), NEW a \in Action,
         Ended(s, a) => Ended(sch, a),
         Begun(sch, s, a) => Ended(sch, a) /\ ~Ended(s, a)
  PROVE  Linked(ForAction, TaskOf(s, a), agv'.cmds[a], agv'.work[a], reports[a])
<1>1. TypeInv /\ ActionLinked(a)
  BY DEF AgvInv, ExecInv, LineInv
<1>. DEFINE c == agv.cmds[a]
            w == agv.work[a]
            x == TaskOf(sch, a)
            y == TaskOf(s, a)
<1>2. sch \in Schedulers /\ c \in Seq(Commands)
  BY <1>1 DEF TypeInv, Agvs
<1>3. /\ y \in ForAction.ended => x \in ForAction.ended
      /\ Begun(sch, s, a) => x \in ForAction.ended /\ y \notin ForAction.ended
  BY <1>2, EndedTask
<1>4. PICK m : \/ agv'.cmds[a] = c
               \/ agv'.cmds[a] = Append(c, m) /\ (m \in ForAction.starts => Begun(sch, s, a))
  BY <1>1, ToldParts
<1>5. agv'.work[a] = w
  BY <1>1, ToldParts
<1>. DEFINE d == agv'.cmds[a]
<1>6. Linked(ForAction, x, c, w, reports[a])
  BY <1>1 DEF ActionLinked
<1>7. \/ d = c
      \/ /\ d = Append(c, m)
         /\ m \in ForAction.starts => x \in ForAction.ended /\ y \notin ForAction.ended
  BY <1>3, <1>4
<1>. HIDE DEF c, w, x, y, d
<1>8. Linked(ForAction, y, d, w, reports[a])
  BY <1>2, <1>3, <1>6, <1>7, CallLinked
<1>. QED
  BY <1>5, <1>8 DEF y, d

\* And one in which the navigation neither ends nor is begun anew.
LEMMA NavCalled ==
  ASSUME AgvInv, NEW s \in Schedulers, agv' = Told(s),
         NavEnded(s) => NavEnded(sch), NavBegun(sch, s) => NavEnded(sch)
  PROVE  Linked(ForNav, s.nav, agv'.ncmds, agv'.drive, nreports)
<1>1. TypeInv /\ NavLinked
  BY DEF AgvInv, ExecInv, LineInv
<1>. DEFINE c == agv.ncmds
            w == agv.drive
            x == sch.nav
            y == s.nav
            d == agv'.ncmds
<1>2. c \in Seq([to : Commands, goal : Nat])
  BY <1>1 DEF TypeInv, Agvs
<1>3. /\ y \in ForNav.ended => x \in ForNav.ended
      /\ NavBegun(sch, s) => x \in ForNav.ended /\ y \notin ForNav.ended
  BY DEF NavEnded, ForNav, NavBegun, NavTerminal, NoTask
<1>4. PICK m : \/ d = c
               \/ d = Append(c, m) /\ (m \in ForNav.starts => NavBegun(sch, s))
  BY <1>1, ToldParts
<1>5. agv'.drive = w
  BY <1>1, ToldParts
<1>6. Linked(ForNav, x, c, w, nreports)
  BY <1>1 DEF NavLinked
<1>7. \/ d = c
      \/ d = Append(c, m) /\ (m \in ForNav.starts => x \in ForNav.ended /\ y \notin ForNav.ended)
  BY <1>3, <1>4
<1>. HIDE DEF c, w, x, y, d
<1>8. Linked(ForNav, y, d, w, nreports)
  BY <1>2, <1>3, <1>6, <1>7, CallLinked
<1>. QED
  BY <1>5, <1>8 DEF y, d

\* The calls of the interpreter event thread.
LEMMA InterpreterLinked ==
  ASSUME AgvInv, InterpreterThread
  PROVE  (\A a \in Action : ActionLinked(a)') /\ NavLinked'
<1>1. ExecInv /\ (\A a \in Action : ActionLinked(a)) /\ NavLinked
  BY DEF AgvInv
<1>2. UNCHANGED <<reports, nreports>> /\ Sound(sch', OfOrders, Unhandled')
  BY <1>1, InterpreterCalls
<1>3. CASE UNCHANGED <<sch, agv>>
  BY <1>1, <1>2, <1>3 DEF ActionLinked, NavLinked
<1>4. CASE agv' = Told(sch') /\ Keeps(sch, sch')
  <2>. DEFINE s == sch'
  <2>1. s \in Schedulers /\ agv' = Told(s) /\ Keeps(sch, s)
    BY <1>2, <1>4 DEF Sound, Weak
  <2>. HIDE DEF s
  <2>2. ASSUME NEW a \in Action
        PROVE  Linked(ForAction, TaskOf(s, a), agv'.cmds[a], agv'.work[a], reports[a])
    BY <2>1, ActionCalled DEF Keeps
  <2>3. Linked(ForNav, s.nav, agv'.ncmds, agv'.drive, nreports)
    BY <2>1, NavCalled DEF Keeps
  <2>4. reports' = reports /\ nreports' = nreports
    BY <1>2
  <2>. QED
    BY <2>2, <2>3, <2>4 DEF ActionLinked, NavLinked, s
<1>. QED
  BY <1>1, <1>3, <1>4, InterpreterCalls

\* What is begun and what has ended can be told before the call begins.
LEMMA SameBeginning ==
  ASSUME ExecInv, NEW r
  PROVE  /\ \A a \in Action :
              /\ Ended(Begin(sch), a) <=> Ended(sch, a)
              /\ Begun(Begin(sch), r, a) <=> Begun(sch, r, a)
         /\ NavEnded(Begin(sch)) <=> NavEnded(sch)
         /\ NavBegun(Begin(sch), r) <=> NavBegun(sch, r)
<1>. DEFINE s == Begin(sch)
<1>1. s.task = sch.task /\ s.active = sch.active /\ s.nav = sch.nav /\ s.goal = sch.goal
  BY Beginning
<1>. HIDE DEF s
<1>2. /\ \A a \in Action : /\ Ended(s, a) <=> Ended(sch, a)
                           /\ Begun(s, r, a) <=> Begun(sch, r, a)
      /\ NavEnded(s) <=> NavEnded(sch)
      /\ NavBegun(s, r) <=> NavBegun(sch, r)
  BY <1>1 DEF Ended, Begun, NavEnded, NavBegun
<1>. QED
  BY <1>2 DEF s

\* The report on an action.
LEMMA ActionReportLinked ==
  ASSUME AgvInv, NEW a \in Action, ActionStatus(a)
  PROVE  (\A b \in Action : ActionLinked(b)') /\ NavLinked'
<1>. DEFINE q == reports[a]
            t == Head(q)
<1>1. ExecInv /\ TypeInv /\ (\A b \in Action : ActionLinked(b)) /\ NavLinked
  BY DEF AgvInv, ExecInv, LineInv
<1>2. /\ q # <<>> /\ t \in ActionReport /\ reports' = [reports EXCEPT ![a] = Tail(q)]
      /\ nreports' = nreports /\ Sound(sch', OfOrders, Unhandled')
  BY <1>1, ActionCalls
<1>3. q \in Seq(ActionReport)
  BY <1>1 DEF TypeInv
<1>4. \A b \in Action : reports'[b] = IF b = a THEN Tail(q) ELSE reports[b]
  BY <1>1, <1>2 DEF TypeInv
<1>5. ASSUME \A b \in Action :
               Linked(ForAction, TaskOf(sch', b), agv'.cmds[b], agv'.work[b], reports'[b]),
             Linked(ForNav, sch'.nav, agv'.ncmds, agv'.drive, nreports)
      PROVE  (\A b \in Action : ActionLinked(b)') /\ NavLinked'
  BY <1>2, <1>5 DEF ActionLinked, NavLinked
<1>. HIDE DEF q, t
<1>6. CASE UNCHANGED <<sch, agv>>
  <2>1. ASSUME NEW b \in Action
        PROVE  Linked(ForAction, TaskOf(sch, b), agv.cmds[b], agv.work[b], reports'[b])
    <3>1. Linked(ForAction, TaskOf(sch, b), agv.cmds[b], agv.work[b], reports[b])
      BY <1>1 DEF ActionLinked
    <3>2. CASE b = a
      <4>1. Linked(ForAction, TaskOf(sch, b), agv.cmds[b], agv.work[b], Tail(q))
        BY <1>2, <1>3, <3>1, <3>2, HeardLinked DEF q
      <4>. QED
        BY <1>4, <3>2, <4>1
    <3>3. CASE b # a
      BY <1>4, <3>1, <3>3
    <3>. QED
      BY <3>2, <3>3
  <2>. QED
    BY <1>1, <1>2, <1>6, <2>1 DEF ActionLinked, NavLinked
<1>7. CASE agv' = Told(sch') /\ sch' = ReportAction(Begin(sch), a, t)
  <2>. DEFINE s  == sch'
              s0 == Begin(sch)
  <2>1. s \in Schedulers /\ agv' = Told(s) /\ s = ReportAction(s0, a, t)
    BY <1>2, <1>7 DEF Sound, Weak
  <2>2. Sound(s0, OfOrders, Unhandled)
    BY <1>1, Beginning
  <2>. HIDE DEF s
  <2>3. /\ \A b \in Action :
             /\ Ended(s0, b) <=> Ended(sch, b)
             /\ Begun(s0, s, b) <=> Begun(sch, s, b)
        /\ NavEnded(s0) <=> NavEnded(sch)
        /\ NavBegun(s0, s) <=> NavBegun(sch, s)
    BY <1>1, SameBeginning
  <2>. HIDE DEF s0
  <2>4. /\ \A b \in Action :
             /\ b # a \/ t \notin Ends =>
                  (Ended(s, b) => Ended(s0, b)) /\ (Begun(s0, s, b) => Ended(s0, b))
             /\ Begun(s0, s, b) => ~Ended(s, b)
        /\ NavEnded(s) => NavEnded(s0)
        /\ NavBegun(s0, s) => NavEnded(s0)
    BY <1>2, <2>1, <2>2, ReportActionKeeps
  <2>5. Linked(ForNav, s.nav, agv'.ncmds, agv'.drive, nreports)
    BY <2>1, <2>3, <2>4, NavCalled
  <2>6. ASSUME NEW b \in Action, b # a \/ t \notin Ends
        PROVE  Linked(ForAction, TaskOf(s, b), agv'.cmds[b], agv'.work[b], reports[b])
    BY <2>1, <2>3, <2>4, <2>6, ActionCalled
  <2>7. ASSUME t \notin Ends
        PROVE  Linked(ForAction, TaskOf(s, a), agv'.cmds[a], agv'.work[a], Tail(q))
    <3>1. Linked(ForAction, TaskOf(s, a), agv'.cmds[a], agv'.work[a], q)
      BY <2>6, <2>7 DEF q
    <3>. QED
      BY <1>2, <1>3, <3>1, HeardLinked
  <2>8. ASSUME t \in Ends
        PROVE  Linked(ForAction, TaskOf(s, a), agv'.cmds[a], agv'.work[a], Tail(q))
    <3>. DEFINE c == agv.cmds[a]
                d == agv'.cmds[a]
                w == agv.work[a]
                x == TaskOf(sch, a)
                y == TaskOf(s, a)
    <3>1. c \in Seq(Commands)
      BY <1>1 DEF TypeInv, Agvs
    <3>2. PICK m : d = c \/ (d = Append(c, m) /\ (m \in ForAction.starts => Begun(sch, s, a)))
      BY <1>1, <2>1, ToldParts
    <3>3. agv'.work[a] = w
      BY <1>1, <2>1, ToldParts
    <3>4. Begun(sch, s, a) => y \notin ForAction.ended
      BY <2>1, <2>3, <2>4, EndedTask
    <3>5. Linked(ForAction, x, c, w, q)
      BY <1>1 DEF ActionLinked, q
    <3>6. t \in ForAction.ends
      BY <2>8 DEF ForAction
    <3>. HIDE DEF c, d, w, x, y
    <3>7. Linked(ForAction, y, d, w, Tail(q))
      BY <1>2, <1>3, <3>1, <3>2, <3>4, <3>5, <3>6, EndLinked DEF t
    <3>. QED
      BY <3>3, <3>7 DEF y, d
  <2>9. ASSUME NEW b \in Action
        PROVE  Linked(ForAction, TaskOf(s, b), agv'.cmds[b], agv'.work[b], reports'[b])
    BY <1>4, <2>6, <2>7, <2>8
  <2>. QED
    BY <1>5, <2>5, <2>9 DEF s
<1>. QED
  BY <1>1, <1>6, <1>7, ActionCalls DEF t, q

\* The report on the navigation.
LEMMA NavReportLinked ==
  ASSUME AgvInv, NavigationStatus
  PROVE  (\A a \in Action : ActionLinked(a)') /\ NavLinked'
<1>. DEFINE q == nreports
            h == Head(q)
<1>1. ExecInv /\ TypeInv /\ (\A b \in Action : ActionLinked(b)) /\ NavLinked
  BY DEF AgvInv, ExecInv, LineInv
<1>2. /\ q # <<>> /\ h \in [type : NavReport, goal : Nat] /\ nreports' = Tail(q)
      /\ reports' = reports /\ Sound(sch', OfOrders, Unhandled')
  BY <1>1, NavCalls
<1>3. q \in Seq([type : NavReport, goal : Nat])
  BY <1>1 DEF TypeInv
<1>4. CASE UNCHANGED <<sch, agv>>
  <2>1. Linked(ForNav, sch.nav, agv.ncmds, agv.drive, q)
    BY <1>1 DEF NavLinked
  <2>. HIDE DEF q
  <2>2. Linked(ForNav, sch.nav, agv.ncmds, agv.drive, Tail(q))
    BY <1>2, <1>3, <2>1, HeardLinked
  <2>. QED
    BY <1>1, <1>2, <1>4, <2>2 DEF ActionLinked, NavLinked
<1>5. ASSUME agv' = Told(sch'),
             \/ sch' = ReportNav(Begin(sch), h.type, h.goal)
             \/ sch' = ReachUnrecorded(Begin(sch), h.goal) /\ h.type = "to_seq_id"
      PROVE  (\A a \in Action : ActionLinked(a)') /\ NavLinked'
  <2>. DEFINE s  == sch'
              s0 == Begin(sch)
              t  == h.type
              g  == h.goal
  <2>1. /\ s \in Schedulers /\ agv' = Told(s)
        /\ s = ReportNav(s0, t, g) \/ (s = ReachUnrecorded(s0, g) /\ t = "to_seq_id")
    BY <1>2, <1>5 DEF Sound, Weak
  <2>2. Sound(s0, OfOrders, Unhandled) /\ t \in NavReport /\ g \in Nat
    BY <1>1, <1>2, Beginning
  <2>. HIDE DEF s
  <2>3. /\ \A b \in Action :
             /\ Ended(s0, b) <=> Ended(sch, b)
             /\ Begun(s0, s, b) <=> Begun(sch, s, b)
        /\ NavEnded(s0) <=> NavEnded(sch)
        /\ NavBegun(s0, s) <=> NavBegun(sch, s)
    BY <1>1, SameBeginning
  <2>. HIDE DEF s0, t, g
  <2>4. /\ \A b \in Action :
             /\ Ended(s, b) => Ended(s0, b)
             /\ Begun(s0, s, b) => Ended(s0, b) /\ ~Ended(s, b)
        /\ t \notin {"to_seq_id", "is_failed"} =>
             (NavEnded(s) => NavEnded(s0)) /\ (NavBegun(s0, s) => NavEnded(s0))
    BY <2>1, <2>2, ReportNavKeeps
  <2>5. ASSUME NEW b \in Action
        PROVE  Linked(ForAction, TaskOf(s, b), agv'.cmds[b], agv'.work[b], reports[b])
    BY <2>1, <2>3, <2>4, ActionCalled
  <2>6. Linked(ForNav, s.nav, agv'.ncmds, agv'.drive, Tail(q))
    <3>1. CASE t \notin {"to_seq_id", "is_failed"}
      <4>1. Linked(ForNav, s.nav, agv'.ncmds, agv'.drive, q)
        BY <2>1, <2>3, <2>4, <3>1, NavCalled
      <4>. HIDE DEF q
      <4>. QED
        BY <1>2, <1>3, <4>1, HeardLinked
    <3>2. CASE t \in {"to_seq_id", "is_failed"}
      <4>. DEFINE c == agv.ncmds
                  d == agv'.ncmds
                  w == agv.drive
                  x == sch.nav
                  y == s.nav
      <4>1. c \in Seq([to : Commands, goal : Nat])
        BY <1>1 DEF TypeInv, Agvs
      <4>2. PICK m : d = c \/ (d = Append(c, m) /\ (m \in ForNav.starts => NavBegun(sch, s)))
        BY <1>1, <2>1, ToldParts
      <4>3. agv'.drive = w
        BY <1>1, <2>1, ToldParts
      <4>4. NavBegun(sch, s) => y \notin ForNav.ended
        BY DEF NavBegun, ForNav, NavTerminal, NoTask
      <4>5. Linked(ForNav, x, c, w, q)
        BY <1>1 DEF NavLinked
      <4>6. h \in ForNav.ends
        <5>1. ForNav.ends = [type : {"to_seq_id", "is_failed"}, goal : Nat]
          BY DEF ForNav
        <5>2. h \in [type : NavReport, goal : Nat] /\ h.type \in {"to_seq_id", "is_failed"}
          BY <1>2, <3>2 DEF t
        <5>. HIDE DEF h
        <5>. QED
          BY <5>1, <5>2
      <4>. HIDE DEF c, d, w, x, y, q
      <4>7. Linked(ForNav, y, d, w, Tail(q))
        BY <1>2, <1>3, <4>1, <4>2, <4>4, <4>5, <4>6, EndLinked
      <4>. QED
        BY <4>3, <4>7 DEF y, d
    <3>. QED
      BY <3>1, <3>2
  <2>. QED
    BY <1>2, <2>5, <2>6 DEF ActionLinked, NavLinked, s
<1>. QED
  BY <1>1, <1>4, <1>5, NavCalls

\* The AGV, told g and from then on in state w, reports r on action a.
LEMMA WorksLinked ==
  ASSUME AgvInv, NEW a \in Action, NEW g \in Agvs, NEW w, NEW r, Works(g, a, w, r),
         NEW d, g.cmds = [agv.cmds EXCEPT ![a] = d], g.work = agv.work,
         g.ncmds = agv.ncmds, g.drive = agv.drive,
         Linked(ForAction, TaskOf(sch, a), d, w, reports[a] \o r)
  PROVE  (\A b \in Action : ActionLinked(b)') /\ NavLinked'
<1>1. TypeInv /\ (\A b \in Action : ActionLinked(b)) /\ NavLinked
  BY DEF AgvInv, ExecInv, LineInv
<1>2. /\ sch' = sch /\ nreports' = nreports
      /\ agv' = [g EXCEPT !.work[a] = w]
      /\ reports' = [reports EXCEPT ![a] = reports[a] \o r]
  BY DEF Works, OnlyAgv
<1>3. \A b \in Action :
        /\ agv'.cmds[b] = IF b = a THEN d ELSE agv.cmds[b]
        /\ agv'.work[b] = IF b = a THEN w ELSE agv.work[b]
  BY <1>1, <1>2 DEF TypeInv, Agvs
<1>4. agv'.ncmds = agv.ncmds /\ agv'.drive = agv.drive
  BY <1>2 DEF Agvs
<1>5. \A b \in Action : reports'[b] = IF b = a THEN reports[a] \o r ELSE reports[b]
  BY <1>1, <1>2 DEF TypeInv
<1>6. ASSUME NEW b \in Action PROVE ActionLinked(b)'
  <2>1. CASE b = a
    BY <1>2, <1>3, <1>5, <2>1 DEF ActionLinked
  <2>2. CASE b # a
    BY <1>1, <1>2, <1>3, <1>5, <2>2 DEF ActionLinked
  <2>. QED
    BY <2>1, <2>2
<1>7. NavLinked'
  BY <1>1, <1>2, <1>4 DEF NavLinked
<1>. QED
  BY <1>6, <1>7

\* The command it takes and what it reports leave action a linked.
LEMMA ActionCommandLinked ==
  ASSUME AgvInv, NEW a \in Action, HandleActionCommand(a)
  PROVE  (\A b \in Action : ActionLinked(b)') /\ NavLinked'
<1>. DEFINE c == agv.cmds[a]
            w == agv.work[a]
            q == reports[a]
            x == TaskOf(sch, a)
            t == Tail(c)
            g == [agv EXCEPT !.cmds[a] = t]
<1>1. TypeInv /\ Linked(ForAction, x, c, w, q)
  BY DEF AgvInv, ExecInv, LineInv, ActionLinked
<1>2. c \in Seq(Commands) /\ q \in Seq(ActionReport) /\ c # <<>> /\ agv \in Agvs
  BY <1>1 DEF TypeInv, Agvs, HandleActionCommand
<1>3. /\ g.cmds = [agv.cmds EXCEPT ![a] = t] /\ g.work = agv.work
      /\ g.ncmds = agv.ncmds /\ g.drive = agv.drive
  BY <1>2 DEF Agvs
<1>4. g \in Agvs
  <2>1. t \in Seq(Commands)
    BY <1>2, TailType
  <2>. HIDE DEF t
  <2>. QED
    BY <1>2, <2>1 DEF Agvs
<1>5. \/ Head(c) = "start" /\ Works(g, a, "started", <<>>)
      \/ w \notin {"idle", "over"} /\ Works(g, a, "resting", <<"is_paused">>)
      \/ w \notin {"idle", "over"} /\ Works(g, a, "running", <<"is_running">>)
      \/ w \notin {"idle", "over"} /\ Works(g, a, "over", <<"is_failed">>)
      \/ Head(c) # "start" /\ Works(g, a, w, <<>>)
  BY DEF HandleActionCommand
<1>. HIDE DEF g, c, q
<1>6. q \o <<>> = q /\ \A m : m \in ActionReport => q \o <<m>> = Append(q, m)
  BY <1>2, ConcatEmpty, AppendOne
<1>7. /\ ForAction.starts = {"start"} /\ ForAction.rests = {"idle", "over"}
      /\ ForAction.ends = {"is_finished", "is_failed"}
  BY DEF ForAction, Ends
<1>8. ASSUME NEW v, NEW r, Works(g, a, v, r), Linked(ForAction, x, t, v, q \o r)
      PROVE  (\A b \in Action : ActionLinked(b)') /\ NavLinked'
  BY <1>3, <1>4, <1>8, WorksLinked DEF q
<1>9. CASE Head(c) = "start" /\ Works(g, a, "started", <<>>)
  <2>1. Linked(ForAction, x, t, "started", q)
    BY <1>1, <1>2, <1>7, <1>9, StartLinked DEF c, q
  <2>. QED
    BY <1>6, <1>8, <1>9, <2>1
<1>10. ASSUME NEW v, NEW m \in ActionReport, Works(g, a, v, <<m>>), w \notin {"idle", "over"},
              (v \notin {"idle", "over"} /\ m \notin {"is_finished", "is_failed"}) \/ v = "over"
       PROVE  (\A b \in Action : ActionLinked(b)') /\ NavLinked'
  <2>. DEFINE r == Append(q, m)
  <2>1. \/ /\ v \in ForAction.rests <=> w \in ForAction.rests
           /\ r = Append(q, m) /\ m \notin ForAction.ends
        \/ v \in ForAction.rests /\ w \notin ForAction.rests /\ r = Append(q, m)
    BY <1>7, <1>10
  <2>. HIDE DEF r, w, x
  <2>2. Linked(ForAction, x, t, v, r)
    BY <1>1, <1>2, <2>1, WorkLinked
  <2>3. Linked(ForAction, x, t, v, q \o <<m>>)
    BY <1>6, <2>2 DEF r
  <2>. QED
    BY <1>8, <1>10, <2>3
<1>11. CASE Head(c) # "start" /\ Works(g, a, w, <<>>)
  <2>1. Linked(ForAction, x, t, w, q)
    BY <1>1, <1>2, WorkLinked DEF c, q
  <2>. QED
    BY <1>6, <1>8, <1>11, <2>1
<1>. QED
  BY <1>5, <1>9, <1>10, <1>11 DEF ActionReport

\* So do the steps the AGV makes by itself.
LEMMA ActionWorkLinked ==
  ASSUME AgvInv, NEW a \in Action, BeginWork(a) \/ EndWork(a) \/ HaltWork(a) \/ ResumeWork(a)
  PROVE  (\A b \in Action : ActionLinked(b)') /\ NavLinked'
<1>. DEFINE c == agv.cmds[a]
            w == agv.work[a]
            q == reports[a]
            x == TaskOf(sch, a)
<1>1. TypeInv /\ Linked(ForAction, x, c, w, q)
  BY DEF AgvInv, ExecInv, LineInv, ActionLinked
<1>2. c \in Seq(Commands) /\ q \in Seq(ActionReport) /\ agv \in Agvs
  BY <1>1 DEF TypeInv, Agvs
<1>3. PICK g \in {agv, [agv EXCEPT !.halts = @ + 1]} :
        \E v \in {"running", "over", "halted"}, m \in ActionReport :
          /\ Works(g, a, v, <<m>>)
          /\ v = "over" \/ m \notin {"is_finished", "is_failed"}
  BY DEF BeginWork, EndWork, HaltWork, ResumeWork, ActionReport
<1>4. PICK v \in {"running", "over", "halted"}, m \in ActionReport :
        Works(g, a, v, <<m>>) /\ (v = "over" \/ m \notin {"is_finished", "is_failed"})
  BY <1>3
<1>5. w \notin {"idle", "over"}
  BY DEF BeginWork, EndWork, HaltWork, ResumeWork
<1>6. /\ g.cmds = agv.cmds /\ g.work = agv.work /\ g.ncmds = agv.ncmds
      /\ g.drive = agv.drive /\ g \in Agvs
  <2>1. CASE g = agv
    BY <1>2, <2>1 DEF Agvs
  <2>2. CASE g = [agv EXCEPT !.halts = @ + 1]
    <3>1. agv.halts + 1 \in Nat
      BY <1>2 DEF Agvs
    <3>. QED
      BY <1>2, <2>2, <3>1 DEF Agvs
  <2>. QED
    BY <2>1, <2>2
<1>7. agv.cmds = [agv.cmds EXCEPT ![a] = c]
  BY <1>2 DEF Agvs
<1>8. /\ ForAction.rests = {"idle", "over"} /\ ForAction.ends = {"is_finished", "is_failed"}
  BY DEF ForAction, Ends
<1>. DEFINE r == Append(q, m)
<1>9. \/ /\ v \in ForAction.rests <=> w \in ForAction.rests
         /\ r = Append(q, m) /\ m \notin ForAction.ends
      \/ v \in ForAction.rests /\ w \notin ForAction.rests /\ r = Append(q, m)
  BY <1>4, <1>5, <1>8
<1>10. r = q \o <<m>>
  BY <1>2, AppendOne
<1>. HIDE DEF c, w, x, q, r
<1>11. Linked(ForAction, x, c, v, r)
  BY <1>1, <1>2, <1>9, WorkLinked
<1>. QED
  BY <1>4, <1>6, <1>7, <1>10, <1>11, WorksLinked DEF q, x

\* The AGV, told g and from then on in state v, reports r on the navigation.
LEMMA DrivesLinked ==
  ASSUME AgvInv, NEW g \in Agvs, NEW v, NEW r, Drives(g, v, r),
         g.cmds = agv.cmds, g.work = agv.work,
         Linked(ForNav, sch.nav, g.ncmds, v,
                nreports \o [i \in 1..Len(r) |-> [type |-> r[i], goal |-> g.goal]])
  PROVE  (\A b \in Action : ActionLinked(b)') /\ NavLinked'
<1>1. (\A b \in Action : ActionLinked(b)) /\ NavLinked
  BY DEF AgvInv
<1>2. /\ sch' = sch /\ reports' = reports /\ agv' = [g EXCEPT !.drive = v]
      /\ nreports' = nreports \o [i \in 1..Len(r) |-> [type |-> r[i], goal |-> g.goal]]
  BY DEF Drives, OnlyAgv
<1>3. /\ agv'.cmds = agv.cmds /\ agv'.work = agv.work /\ agv'.ncmds = g.ncmds
      /\ agv'.drive = v
  BY <1>2 DEF Agvs
<1>. QED
  BY <1>1, <1>2, <1>3 DEF ActionLinked, NavLinked

\* The reports of a step: none, or one.
LEMMA DriveReports ==
  ASSUME NEW X, NEW q \in Seq(X), NEW G
  PROVE  /\ q \o [i \in 1..Len(<<>>) |-> [type |-> <<>>[i], goal |-> G]] = q
         /\ \A m : [type |-> m, goal |-> G] \in X =>
              q \o [i \in 1..Len(<<m>>) |-> [type |-> <<m>>[i], goal |-> G]]
                = Append(q, [type |-> m, goal |-> G])
<1>1. [i \in 1..Len(<<>>) |-> [type |-> <<>>[i], goal |-> G]] = <<>>
  OBVIOUS
<1>2. \A m : [i \in 1..Len(<<m>>) |-> [type |-> <<m>>[i], goal |-> G]]
               = <<[type |-> m, goal |-> G]>>
  OBVIOUS
<1>. QED
  BY <1>1, <1>2, ConcatEmpty, AppendOne

LEMMA NavCommandLinked ==
  ASSUME AgvInv, HandleNavigationCommand
  PROVE  (\A b \in Action : ActionLinked(b)') /\ NavLinked'
<1>. DEFINE c == agv.ncmds
            w == agv.drive
            q == nreports
            x == sch.nav
            t == Tail(c)
            g == [agv EXCEPT !.ncmds = t]
            h == [g EXCEPT !.goal = Head(c).goal]
            R == [type : NavReport, goal : Nat]
<1>1. TypeInv /\ Linked(ForNav, x, c, w, q)
  BY DEF AgvInv, ExecInv, LineInv, NavLinked
<1>2. c \in Seq([to : Commands, goal : Nat]) /\ q \in Seq(R) /\ c # <<>> /\ agv \in Agvs
  BY <1>1 DEF TypeInv, Agvs, HandleNavigationCommand
<1>3. Head(c) \in [to : Commands, goal : Nat] /\ t \in Seq([to : Commands, goal : Nat])
  BY <1>2, TailType
<1>4. \/ Head(c).to = "navigate" /\ Drives(h, "driving", <<>>)
      \/ w # "standing" /\ Drives(g, "resting", <<"is_paused">>)
      \/ w # "standing" /\ Drives(g, "driving", <<"is_resumed">>)
      \/ w # "standing" /\ Drives(g, "standing", <<"is_failed">>)
      \/ Drives(g, w, <<>>)
  BY DEF HandleNavigationCommand
<1>. HIDE DEF t
<1>5. /\ g \in Agvs /\ g.cmds = agv.cmds /\ g.work = agv.work /\ g.ncmds = t
      /\ h \in Agvs /\ h.cmds = agv.cmds /\ h.work = agv.work /\ h.ncmds = t
  BY <1>2, <1>3 DEF Agvs
<1>6. /\ ForNav.starts = [to : {"navigate"}, goal : Nat] /\ ForNav.rests = {"standing"}
      /\ ForNav.ends = [type : {"to_seq_id", "is_failed"}, goal : Nat]
  BY DEF ForNav
<1>. HIDE DEF g, h
<1>7. CASE Head(c).to = "navigate" /\ Drives(h, "driving", <<>>)
  <2>1. Head(c) \in ForNav.starts
    BY <1>3, <1>6, <1>7
  <2>. HIDE DEF c, q, x, w
  <2>2. Linked(ForNav, x, t, "driving", q)
    BY <1>1, <1>2, <2>1, StartLinked DEF t
  <2>. HIDE DEF R
  <2>3. q \o [i \in 1..Len(<<>>) |-> [type |-> <<>>[i], goal |-> h.goal]] = q
    BY <1>2, DriveReports
  <2>. QED
    BY <1>5, <1>7, <2>2, <2>3, DrivesLinked DEF q, x
<1>8. ASSUME NEW v, NEW m \in NavReport, Drives(g, v, <<m>>), w # "standing",
             (v # "standing" /\ m \notin {"to_seq_id", "is_failed"}) \/ v = "standing"
      PROVE  (\A b \in Action : ActionLinked(b)') /\ NavLinked'
  <2>. DEFINE n == [type |-> m, goal |-> g.goal]
              r == Append(q, n)
  <2>1. g.goal \in Nat
    BY <1>5 DEF Agvs
  <2>2. n \in R /\ (m \notin {"to_seq_id", "is_failed"} => n \notin ForNav.ends)
    BY <1>6, <2>1
  <2>3. \/ /\ v \in ForNav.rests <=> w \in ForNav.rests
           /\ r = Append(q, n) /\ n \notin ForNav.ends
        \/ v \in ForNav.rests /\ w \notin ForNav.rests /\ r = Append(q, n)
    BY <1>6, <1>8, <2>2
  <2>. HIDE DEF c, q, x, w, R
  <2>4. q \o [i \in 1..Len(<<m>>) |-> [type |-> <<m>>[i], goal |-> g.goal]] = r
    BY <1>2, <2>2, DriveReports
  <2>. HIDE DEF r, n
  <2>5. Linked(ForNav, x, t, v, r)
    BY <1>1, <1>2, <2>3, WorkLinked DEF t
  <2>. QED
    BY <1>5, <1>8, <2>4, <2>5, DrivesLinked DEF q, x
<1>9. CASE Drives(g, w, <<>>)
  <2>. HIDE DEF c, q, x, w, R
  <2>1. Linked(ForNav, x, t, w, q)
    BY <1>1, <1>2, WorkLinked DEF t
  <2>2. q \o [i \in 1..Len(<<>>) |-> [type |-> <<>>[i], goal |-> g.goal]] = q
    BY <1>2, DriveReports
  <2>. QED
    BY <1>5, <1>9, <2>1, <2>2, DrivesLinked DEF q, x
<1>. QED
  BY <1>4, <1>7, <1>8, <1>9 DEF NavReport

LEMMA DrivingLinked ==
  ASSUME AgvInv, EndDrive \/ HaltDrive \/ DriveOn
  PROVE  (\A b \in Action : ActionLinked(b)') /\ NavLinked'
<1>. DEFINE c == agv.ncmds
            w == agv.drive
            q == nreports
            x == sch.nav
            R == [type : NavReport, goal : Nat]
<1>1. TypeInv /\ Linked(ForNav, x, c, w, q)
  BY DEF AgvInv, ExecInv, LineInv, NavLinked
<1>2. c \in Seq([to : Commands, goal : Nat]) /\ q \in Seq(R) /\ agv \in Agvs
  BY <1>1 DEF TypeInv, Agvs
<1>3. PICK g \in {agv, [agv EXCEPT !.halts = @ + 1]} :
        \E v \in {"standing", "driving", "halted"}, m \in NavReport :
          /\ Drives(g, v, <<m>>)
          /\ v = "standing" \/ m \notin {"to_seq_id", "is_failed"}
  BY DEF EndDrive, HaltDrive, DriveOn, NavReport
<1>4. PICK v \in {"standing", "driving", "halted"}, m \in NavReport :
        Drives(g, v, <<m>>) /\ (v = "standing" \/ m \notin {"to_seq_id", "is_failed"})
  BY <1>3
<1>5. w # "standing"
  BY DEF EndDrive, HaltDrive, DriveOn
<1>6. /\ g.cmds = agv.cmds /\ g.work = agv.work /\ g.ncmds = agv.ncmds
      /\ g.goal \in Nat /\ g \in Agvs
  <2>1. CASE g = agv
    BY <1>2, <2>1 DEF Agvs
  <2>2. CASE g = [agv EXCEPT !.halts = @ + 1]
    <3>1. agv.halts + 1 \in Nat
      BY <1>2 DEF Agvs
    <3>. QED
      BY <1>2, <2>2, <3>1 DEF Agvs
  <2>. QED
    BY <2>1, <2>2
<1>7. ForNav.rests = {"standing"} /\ ForNav.ends = [type : {"to_seq_id", "is_failed"}, goal : Nat]
  BY DEF ForNav
<1>. DEFINE n == [type |-> m, goal |-> g.goal]
            r == Append(q, n)
<1>8. n \in R /\ (m \notin {"to_seq_id", "is_failed"} => n \notin ForNav.ends)
  BY <1>6, <1>7
<1>9. \/ /\ v \in ForNav.rests <=> w \in ForNav.rests
         /\ r = Append(q, n) /\ n \notin ForNav.ends
      \/ v \in ForNav.rests /\ w \notin ForNav.rests /\ r = Append(q, n)
  BY <1>4, <1>5, <1>7, <1>8
<1>. HIDE DEF c, w, x, q, R
<1>10. q \o [i \in 1..Len(<<m>>) |-> [type |-> <<m>>[i], goal |-> g.goal]] = r
  BY <1>2, <1>8, DriveReports
<1>. HIDE DEF n, r
<1>11. Linked(ForNav, x, c, v, r)
  BY <1>1, <1>2, <1>9, WorkLinked
<1>. QED
  BY <1>4, <1>6, <1>10, <1>11, DrivesLinked DEF q, x, c

LEMMA AgvInit == Init => AgvInv
<1>. SUFFICES ASSUME Init PROVE AgvInv
  OBVIOUS
<1>1. DOMAIN <<>> = {}
  OBVIOUS
<1>2. ForAction.rests = {"idle", "over"} /\ ForNav.rests = {"standing"}
  BY DEF ForAction, ForNav
<1>3. ASSUME NEW a \in Action PROVE ActionLinked(a)
  <2>1. agv.cmds[a] = <<>> /\ reports[a] = <<>> /\ agv.work[a] = "idle"
    BY DEF Init
  <2>. QED
    BY <1>1, <1>2, <2>1 DEF ActionLinked, Linked, None, Once
<1>4. NavLinked
  <2>1. agv.ncmds = <<>> /\ nreports = <<>> /\ agv.drive = "standing"
    BY DEF Init
  <2>. QED
    BY <1>1, <1>2, <2>1 DEF NavLinked, Linked, None, Once
<1>. QED
  BY <1>3, <1>4, ExecInit DEF AgvInv

LEMMA AgvNext == AgvInv /\ [Next]_vars => AgvInv'
<1>. SUFFICES ASSUME AgvInv, [Next]_vars PROVE AgvInv'
  OBVIOUS
<1>1. ExecInv' /\ LineInv
  BY ExecNext DEF AgvInv, ExecInv
<1>2. ASSUME (\A b \in Action : ActionLinked(b)') /\ NavLinked' PROVE AgvInv'
  BY <1>1, <1>2 DEF AgvInv
<1>3. CASE InterpreterThread
  BY <1>2, <1>3, InterpreterLinked
<1>4. CASE \E a \in Action : ActionStatus(a)
  BY <1>2, <1>4, ActionReportLinked
<1>5. CASE NavigationStatus
  BY <1>2, <1>5, NavReportLinked
<1>6. CASE Agv
  <2>1. CASE \E a \in Action : HandleActionCommand(a)
    BY <1>2, <2>1, ActionCommandLinked
  <2>2. CASE \E a \in Action : BeginWork(a) \/ EndWork(a) \/ HaltWork(a) \/ ResumeWork(a)
    BY <1>2, <2>2, ActionWorkLinked
  <2>3. CASE HandleNavigationCommand
    BY <1>2, <2>3, NavCommandLinked
  <2>4. CASE EndDrive \/ HaltDrive \/ DriveOn
    BY <1>2, <2>4, DrivingLinked
  <2>. QED
    BY <1>6, <2>1, <2>2, <2>3, <2>4 DEF Agv
<1>7. CASE \/ ValidateOrder \/ (\E G \in Instants : ValidateInstants(G))
           \/ (\E c \in Controls : ValidateControl(c))
           \/ InterpretOrder \/ InterpretInstantActions \/ HandleStatus \/ UNCHANGED vars
  <2>1. UNCHANGED <<sch, agv, reports, nreports>>
    BY <1>1, <1>7, Elsewhere
  <2>. QED
    BY <1>2, <2>1 DEF AgvInv, ActionLinked, NavLinked
<1>. QED
  BY <1>3, <1>4, <1>5, <1>6, <1>7 DEF Next, Agv

LEMMA AgvInductive == Spec => []AgvInv
  BY AgvInit, AgvNext, PTL DEF Spec

\* For all orders, updates, instant actions, controls and sets of actions, and however
\* often the AGV halts: whatever it works on or drives to has a task at the scheduler,
\* also while commands and reports cross.
THEOREM NothingIsForgotten == Spec => []NothingForgotten
<1>1. ForAction.ended = ActionTerminal \cup {NoTask} /\ ForAction.rests = {"idle", "over"}
  BY DEF ForAction
<1>2. ForNav.ended = NavTerminal \cup {NoTask} /\ ForNav.rests = {"standing"}
  BY DEF ForNav
<1>3. AgvInv => NothingForgotten
  <2>. SUFFICES ASSUME AgvInv PROVE NothingForgotten
    OBVIOUS
  <2>1. ASSUME NEW a \in Action, agv.work[a] \notin {"idle", "over"} PROVE a \in sch.active
    BY <1>1, <2>1 DEF AgvInv, ActionLinked, Linked, TaskOf
  <2>2. agv.drive # "standing" => sch.nav # NoTask
    BY <1>2 DEF AgvInv, NavLinked, Linked
  <2>. QED
    BY <2>1, <2>2 DEF NothingForgotten
<1>. QED
  BY <1>3, AgvInductive, PTL

-------------------------------------------------------------------------------
(* The order in which the AGV is told of goals *)

\* What the scheduler still has to work off is in the order of the orders.
Queues(s) ==
  /\ Ordered(s.queue) /\ Ordered(s.staging)
  /\ Precede(Elems(s.queue), Elems(s.staging))

Waiting(s) == Elems(s.queue) \cup Elems(s.staging)

\* From s to r nothing new waits, and a new goal is that of a step that waited and lies
\* before all that waits now.
Advances(s, r) ==
  Queues(s) =>
    /\ Queues(r) /\ Waiting(r) \subseteq Waiting(s)
    /\ \/ r.goal = s.goal /\ (s.nav = NoTask => r.nav = NoTask)
       \/ r.goal = 0 /\ r.nav = NoTask
       \/ \E e \in Waiting(s) : IsStep(e) /\ r.goal = e.goal /\ Precede({e}, Waiting(r))

\* The yields in the event queue, and those of the orders not interpreted yet.
Arrived == {inbox[i] : i \in {j \in DOMAIN inbox : inbox[j].kind \in {"group", "nav"}}}
Coming  == UNION {Elems(Orders[n]) : n \in (handled.orders + 1)..Len(Orders)}

ArrivedInOrder ==
  /\ \A i, j \in DOMAIN inbox :
       i < j /\ inbox[i].kind \in {"group", "nav"} /\ inbox[j].kind \in {"group", "nav"} =>
         Before(inbox[i], inbox[j])
  /\ Precede(Arrived, Coming)

\* The goals the scheduler and the AGV know.
Goals == {sch.goal, agv.goal} \cup {c.goal : c \in Elems(agv.ncmds)}

\* All goals that are known lie before all that is still to come.
GoalInv ==
  /\ ExecInv
  /\ Queues(sch) /\ Precede(Waiting(sch), Arrived \cup Coming) /\ ArrivedInOrder
  /\ \A g \in Goals, e \in Waiting(sch) \cup Arrived \cup Coming : IsStep(e) => g < e.goal

LEMMA AdvancesTransitive ==
  ASSUME NEW s, NEW r, NEW u, Advances(s, r), Advances(r, u) PROVE Advances(s, u)
<1>. SUFFICES ASSUME Queues(s)
              PROVE  /\ Queues(u) /\ Waiting(u) \subseteq Waiting(s)
                     /\ \/ u.goal = s.goal /\ (s.nav = NoTask => u.nav = NoTask)
                        \/ u.goal = 0 /\ u.nav = NoTask
                        \/ \E e \in Waiting(s) : IsStep(e) /\ u.goal = e.goal /\ Precede({e}, Waiting(u))
  BY DEF Advances
<1>1. /\ Queues(r) /\ Waiting(r) \subseteq Waiting(s)
      /\ \/ r.goal = s.goal /\ (s.nav = NoTask => r.nav = NoTask)
         \/ r.goal = 0 /\ r.nav = NoTask
         \/ \E e \in Waiting(s) : IsStep(e) /\ r.goal = e.goal /\ Precede({e}, Waiting(r))
  BY DEF Advances
<1>2. /\ Queues(u) /\ Waiting(u) \subseteq Waiting(r)
      /\ \/ u.goal = r.goal /\ (r.nav = NoTask => u.nav = NoTask)
         \/ u.goal = 0 /\ u.nav = NoTask
         \/ \E e \in Waiting(r) : IsStep(e) /\ u.goal = e.goal /\ Precede({e}, Waiting(u))
  BY <1>1 DEF Advances
<1>. HIDE DEF Queues, Waiting
<1>3. CASE u.goal = r.goal /\ (r.nav = NoTask => u.nav = NoTask)
  <2>1. ASSUME NEW e, Precede({e}, Waiting(r)) PROVE Precede({e}, Waiting(u))
    BY <1>2, <2>1 DEF Precede
  <2>. QED
    BY <1>1, <1>2, <1>3, <2>1
<1>4. CASE u.goal = 0 /\ u.nav = NoTask
  BY <1>1, <1>2, <1>4
<1>5. CASE \E e \in Waiting(r) : IsStep(e) /\ u.goal = e.goal /\ Precede({e}, Waiting(u))
  BY <1>1, <1>2, <1>5
<1>. QED
  BY <1>2, <1>3, <1>4, <1>5

\* A call that adds nothing advances if it leaves the goal or gives it up.
LEMMA LeavesAdvances ==
  ASSUME NEW s, NEW r, Leaves(s, r), r.goal = s.goal \/ (r.goal = 0 /\ r.nav = NoTask)
  PROVE  Advances(s, r)
<1>1. ASSUME Queues(s) PROVE Queues(r) /\ Waiting(r) \subseteq Waiting(s)
  BY <1>1 DEF Queues, Waiting, Leaves, Precede
<1>. QED
  BY <1>1 DEF Advances, Leaves

LEMMA SameAdvances ==
  ASSUME NEW s, NEW r, r.queue = s.queue, r.staging = s.staging, r.nav = s.nav, r.goal = s.goal
  PROVE  Advances(s, r)
  BY DEF Advances, Queues, Waiting

LEMMA ThrowAdvances ==
  ASSUME NEW s \in Schedulers PROVE Advances(s, Throw(s))
<1>. DEFINE r == Throw(s)
<1>1. r.queue = s.queue /\ r.staging = s.staging /\ r.nav = s.nav /\ r.goal = s.goal
  BY DEF Throw, Schedulers
<1>. HIDE DEF r
<1>2. Advances(s, r)
  BY <1>1, SameAdvances
<1>. QED
  BY <1>2 DEF r

LEMMA BeginAdvances ==
  ASSUME NEW s \in Schedulers PROVE Advances(s, Begin(s))
<1>. DEFINE r == Begin(s)
<1>1. r.queue = s.queue /\ r.staging = s.staging /\ r.nav = s.nav /\ r.goal = s.goal
  BY DEF Begin, Schedulers
<1>. HIDE DEF r
<1>2. Advances(s, r)
  BY <1>1, SameAdvances
<1>. QED
  BY <1>2 DEF r

LEMMA EnterAdvances ==
  ASSUME NEW s \in Schedulers, NEW st
  PROVE  Advances(s, Enter(s, st)) /\ Advances(s, Notify(s, st))
<1>1. /\ Enter(s, st).queue = s.queue /\ Enter(s, st).staging = s.staging
      /\ Enter(s, st).nav = s.nav /\ Enter(s, st).goal = s.goal
  BY DEF Enter, Schedulers
<1>2. /\ Notify(s, st).queue = s.queue /\ Notify(s, st).staging = s.staging
      /\ Notify(s, st).nav = s.nav /\ Notify(s, st).goal = s.goal
  BY DEF Notify, Enter, Schedulers
<1>. QED
  BY <1>1, <1>2, SameAdvances

LEMMA ClearQueuesAdvances ==
  ASSUME NEW s \in Schedulers, NEW keepNav \in BOOLEAN PROVE Advances(s, ClearQueues(s, keepNav))
<1>1. ClearQueues(s, keepNav).goal = s.goal
  BY DEF ClearQueues, Schedulers
<1>. QED
  BY <1>1, ClearQueuesLeaves, LeavesAdvances

LEMMA MoveNavAdvances ==
  ASSUME NEW s \in Schedulers, NEW t, NEW g, s.nav # NoTask PROVE Advances(s, MoveNav(s, t, g))
<1>1. MoveNav(s, t, g).goal = s.goal
  BY DEF MoveNav, Throw, Schedulers
<1>. QED
  BY <1>1, MoveNavLeaves, LeavesAdvances

LEMMA MoveActionsAdvances ==
  ASSUME NEW s \in Schedulers, NEW S, NEW t
  PROVE  Advances(s, MoveActions(s, S, t)) /\ MoveActions(s, S, t).nav = s.nav
<1>1. MoveActions(s, S, t).goal = s.goal /\ MoveActions(s, S, t).nav = s.nav
  BY DEF MoveActions, Schedulers
<1>. QED
  BY <1>1, MoveActionsLeaves, LeavesAdvances

LEMMA UpdateTasksAdvances ==
  ASSUME NEW s \in Schedulers PROVE Advances(s, UpdateTasks(s))
<1>1. \/ UpdateTasks(s).goal = s.goal
      \/ UpdateTasks(s).goal = 0 /\ UpdateTasks(s).nav = NoTask
  BY DEF UpdateTasks, ClearQueues, Schedulers
<1>. QED
  BY <1>1, UpdateTasksLeaves, LeavesAdvances

LEMMA RefreshAdvances ==
  ASSUME NEW s \in Schedulers PROVE Advances(s, Refresh(s))
<1>. DEFINE u    == UpdateTasks(s)
            rest == {a \in u.navint : u.task[a] \notin ActionTerminal}
            s1   == [u EXCEPT !.navint = rest]
            r    == MoveNav(s1, "do_resume", 0)
<1>1. u \in Schedulers /\ Advances(s, u)
  BY UpdateTasksType, UpdateTasksAdvances
<1>2. Refresh(s) = IF rest # u.navint /\ rest = {} /\ u.nav # NoTask THEN r ELSE s1
  BY DEF Refresh, UpdateInterruptMapping
<1>. HIDE DEF u
<1>3. /\ s1 \in Schedulers /\ s1.queue = u.queue /\ s1.staging = u.staging
      /\ s1.nav = u.nav /\ s1.goal = u.goal
  BY <1>1 DEF Schedulers
<1>. HIDE DEF s1
<1>4. Advances(u, s1) /\ (u.nav # NoTask => Advances(s1, r))
  BY <1>3, SameAdvances, MoveNavAdvances
<1>. HIDE DEF r
<1>5. Advances(s, s1) /\ (u.nav # NoTask => Advances(s, r))
  BY <1>1, <1>4, AdvancesTransitive
<1>. QED
  BY <1>2, <1>5

\* The step that is fetched lies before all others.
LEMMA FetchStepAdvances ==
  ASSUME NEW s \in Schedulers, s.queue # <<>>, IsStep(Head(s.queue)) PROVE Advances(s, FetchStep(s))
<1>. DEFINE e == Head(s.queue)
            r == FetchStep(s)
<1>1. r.goal = e.goal /\ r.queue = Tail(s.queue) /\ r.staging = s.staging
  BY DEF FetchStep, Schedulers
<1>2. s.queue \in Seq(Yield)
  BY DEF Schedulers
<1>3. IsStep(e)
  OBVIOUS
<1>. HIDE DEF e, r
<1>4. SUFFICES ASSUME Queues(s)
               PROVE  Queues(r) /\ Waiting(r) \subseteq Waiting(s) /\ e \in Waiting(s)
                      /\ Precede({e}, Waiting(r))
  BY <1>1, <1>3 DEF Advances, r
<1>5. /\ e \in Elems(s.queue) /\ Elems(r.queue) \subseteq Elems(s.queue)
      /\ Ordered(r.queue) /\ Precede({e}, Elems(r.queue))
  BY <1>1, <1>2, <1>4, TailOrdered DEF Queues, e
<1>6. Queues(r) /\ Waiting(r) \subseteq Waiting(s) /\ e \in Waiting(s)
  BY <1>1, <1>4, <1>5 DEF Queues, Waiting, Precede
<1>7. Precede({e}, Elems(s.staging))
  BY <1>4, <1>5 DEF Queues, Precede
<1>8. Precede({e}, Waiting(r))
  BY <1>1, <1>5, <1>7 DEF Waiting, Precede
<1>. QED
  BY <1>6, <1>8

LEMMA FetchGroupAdvances ==
  ASSUME NEW s \in Schedulers, s.queue # <<>> PROVE Advances(s, FetchGroup(s))
<1>. DEFINE r == FetchGroup(s)
<1>1. r.goal = s.goal /\ r.nav = s.nav /\ r.queue = Tail(s.queue) /\ r.staging = s.staging
  BY DEF FetchGroup, StartGroup, Schedulers
<1>2. s.queue \in Seq(Yield)
  BY DEF Schedulers
<1>. HIDE DEF r
<1>3. ASSUME Queues(s) PROVE Queues(r) /\ Waiting(r) \subseteq Waiting(s)
  <2>1. Elems(r.queue) \subseteq Elems(s.queue) /\ Ordered(r.queue)
    BY <1>1, <1>2, <1>3, TailOrdered DEF Queues
  <2>. QED
    BY <1>1, <1>3, <2>1 DEF Queues, Waiting, Precede
<1>4. Advances(s, r)
  BY <1>1, <1>3 DEF Advances
<1>. QED
  BY <1>4 DEF r

LEMMA PatchSegmentAdvances ==
  ASSUME NEW s \in Schedulers PROVE Advances(s, PatchSegment(s))
<1>. DEFINE r == PatchSegment(s)
<1>1. r.queue = s.queue /\ r.staging = s.staging /\ r.nav = s.nav /\ r.goal = s.goal
  BY DEF PatchSegment, Schedulers
<1>. HIDE DEF r
<1>2. Advances(s, r)
  BY <1>1, SameAdvances
<1>. QED
  BY <1>2 DEF r

LEMMA FetchNextAdvances ==
  ASSUME NEW s \in Schedulers PROVE Advances(s, FetchNext(s))
<1>1. ASSUME NEW u \in Schedulers PROVE Advances(u, FetchOne(u))
  <2>1. Advances(u, u)
    BY SameAdvances
  <2>2. u.queue # <<>> => Advances(u, FetchGroup(u))
    BY FetchGroupAdvances
  <2>3. u.queue # <<>> /\ IsStep(Head(u.queue)) => Advances(u, FetchStep(u))
    BY FetchStepAdvances
  <2>. QED
    BY <2>1, <2>2, <2>3, PatchSegmentAdvances DEF FetchOne
<1>2. FetchOne(s) \in Schedulers /\ FetchOne(FetchOne(s)) \in Schedulers
  BY FetchOneType
<1>. QED
  BY <1>1, <1>2, AdvancesTransitive DEF FetchNext

LEMMA FetchInterruptAdvances ==
  ASSUME NEW s \in Schedulers PROVE Advances(s, FetchInterrupt(s))
<1>. DEFINE r == FetchInterrupt(s)
<1>1. r.queue = s.queue /\ r.staging = s.staging /\ r.nav = s.nav /\ r.goal = s.goal
  BY DEF FetchInterrupt, StartGroup, Schedulers
<1>. HIDE DEF r
<1>2. Advances(s, r)
  BY <1>1, SameAdvances
<1>. QED
  BY <1>2 DEF r

LEMMA DoInterruptAdvances ==
  ASSUME NEW s \in Schedulers PROVE Advances(s, DoInterrupt(s))
<1>1. DoInterrupt(s).goal = s.goal
  BY DEF DoInterrupt, MoveActions, MoveNav, Throw, Schedulers
<1>. QED
  BY <1>1, DoInterruptLeaves, LeavesAdvances

\* A call leads through schedulers, and advances from one to the next.
Forward(s, r) == r \in Schedulers /\ Advances(s, r)

LEMMA ForwardTransitive ==
  ASSUME NEW s, NEW r, NEW u, Forward(s, r), Forward(r, u) PROVE Forward(s, u)
  BY AdvancesTransitive DEF Forward

LEMMA NotifyForward ==
  ASSUME NEW s, NEW r, Forward(s, r), NEW st \in SchedulerState
  PROVE  Forward(s, Enter(r, st)) /\ Forward(s, Notify(r, st))
<1>1. r \in Schedulers
  BY DEF Forward
<1>2. Forward(r, Enter(r, st)) /\ Forward(r, Notify(r, st))
  BY <1>1, EnterType, NotifyType, EnterAdvances DEF Forward
<1>. QED
  BY <1>2, ForwardTransitive

LEMMA SameForward ==
  ASSUME NEW s \in Schedulers PROVE Forward(s, s) /\ Forward(s, Throw(s))
  BY SameAdvances, ThrowAdvances, ThrowType DEF Forward

LEMMA UpdateActiveForward ==
  ASSUME NEW s \in Schedulers
  PROVE  Forward(s, UpdateActive(s)) /\ Forward(s, UpdateCanceling(s))
<1>. DEFINE s1 == Refresh(s)
            s2 == FetchNext(s1)
<1>1. Forward(s, s1)
  BY RefreshType, RefreshAdvances DEF Forward
<1>2. UpdateActive(s) \in {s1, s2, Notify(s2, "idle")}
  BY DEF UpdateActive
<1>3. UpdateCanceling(s) \in {s1, s2, Notify(s2, "idle")}
  BY DEF UpdateCanceling
<1>. HIDE DEF s1
<1>4. Forward(s1, s2)
  BY <1>1, FetchNextType, FetchNextAdvances DEF Forward
<1>. HIDE DEF s2
<1>5. Forward(s, s2)
  BY <1>1, <1>4, ForwardTransitive
<1>6. Forward(s, Notify(s2, "idle"))
  BY <1>5, NotifyForward DEF SchedulerState
<1>. QED
  BY <1>1, <1>2, <1>3, <1>5, <1>6

LEMMA UpdateForward ==
  ASSUME NEW s \in Schedulers PROVE Forward(s, Update(s))
<1>. DEFINE s1 == Refresh(s)
<1>1. Forward(s, s1) /\ s1 \in Schedulers
  BY RefreshType, RefreshAdvances DEF Forward
<1>2. s.state \in SchedulerState
  BY StateType
<1>3. CASE s.state = "idle"
  <2>1. Forward(s, FetchNext(s))
    BY FetchNextType, FetchNextAdvances DEF Forward
  <2>2. UpdateIdle(s) \in {Notify(FetchNext(s), "active"), Enter(FetchNext(s), "idle")}
    BY DEF UpdateIdle
  <2>3. Forward(s, Notify(FetchNext(s), "active")) /\ Forward(s, Enter(FetchNext(s), "idle"))
    BY <2>1, NotifyForward DEF SchedulerState
  <2>. QED
    BY <1>3, <2>2, <2>3 DEF Update
<1>4. CASE s.state = "idle_paused"
  BY <1>4, SameForward DEF Update
<1>5. CASE s.state \in {"active", "canceling"}
  BY <1>5, UpdateActiveForward DEF Update
<1>. HIDE DEF s1
<1>6. CASE s.state = "resuming"
  <2>. DEFINE u == Notify(s1, "active")
  <2>1. Forward(s, u) /\ u \in Schedulers
    BY <1>1, NotifyForward DEF SchedulerState, Forward
  <2>2. Update(s) \in {s1, UpdateActive(u)}
    BY <1>6 DEF Update, UpdateResuming, s1
  <2>. HIDE DEF u
  <2>3. Forward(s, UpdateActive(u))
    BY <2>1, UpdateActiveForward, ForwardTransitive
  <2>. QED
    BY <1>1, <2>2, <2>3
<1>7. CASE s.state = "pausing"
  <2>1. Update(s) \in {s1, Notify(s1, "paused")}
    BY <1>7 DEF Update, UpdatePausing, s1
  <2>. QED
    BY <1>1, <2>1, NotifyForward DEF SchedulerState
<1>8. CASE s.state = "paused"
  BY <1>1, <1>8 DEF Update, s1
<1>9. CASE s.state = "interrupting"
  <2>. DEFINE u == UpdateTasks(s)
              v == FetchInterrupt(u)
  <2>1. Forward(s, u) /\ u \in Schedulers
    BY UpdateTasksType, UpdateTasksAdvances DEF Forward
  <2>2. Update(s) \in {v, Notify(v, "active")}
    BY <1>9 DEF Update, UpdateInterrupting
  <2>. HIDE DEF u
  <2>3. Forward(u, v)
    BY <2>1, FetchInterruptType, FetchInterruptAdvances DEF Forward
  <2>. HIDE DEF v
  <2>4. Forward(s, v)
    BY <2>1, <2>3, ForwardTransitive
  <2>. QED
    BY <2>2, <2>4, NotifyForward DEF SchedulerState
<1>. QED
  BY <1>2, <1>3, <1>4, <1>5, <1>6, <1>7, <1>8, <1>9 DEF SchedulerState

\* What pause(), resume() and cancel() do to the tasks.
LEMMA MoveAllForward ==
  ASSUME NEW s \in Schedulers, NEW S, NEW t \in ControlTransition
  PROVE  LET s1 == MoveActions(s, S, t)
         IN Forward(s, s1) /\ (s.nav # NoTask => Forward(s, MoveNav(s1, t, 0)))
<1>. DEFINE s1 == MoveActions(s, S, t)
<1>1. t \in ActionTransition /\ t \in NavTransition
  BY DEF ControlTransition, ActionTransition, NavTransition
<1>2. s1 \in Schedulers /\ Advances(s, s1) /\ s1.nav = s.nav
  BY <1>1, MoveActionsType, MoveActionsAdvances
<1>. HIDE DEF s1
<1>3. s.nav # NoTask => MoveNav(s1, t, 0) \in Schedulers /\ Advances(s1, MoveNav(s1, t, 0))
  BY <1>1, <1>2, MoveNavType, MoveNavAdvances
<1>4. Forward(s, s1) /\ (s.nav # NoTask => Forward(s, MoveNav(s1, t, 0)))
  BY <1>2, <1>3, AdvancesTransitive DEF Forward
<1>. QED
  BY <1>4 DEF s1

LEMMA CancelForward ==
  ASSUME NEW s \in Schedulers PROVE Forward(s, Cancel(s))
<1>1. s.state \in SchedulerState
  BY StateType
<1>2. CASE s.state = "idle"
  <2>. DEFINE u == Enter(s, "canceling")
  <2>1. Forward(s, u)
    BY SameForward, NotifyForward DEF SchedulerState
  <2>2. Cancel(s) = Update(u)
    BY <1>2 DEF Cancel
  <2>. HIDE DEF u
  <2>. QED
    BY <2>1, <2>2, UpdateForward, ForwardTransitive DEF Forward
<1>3. CASE s.state = "idle_paused"
  BY <1>3, ClearQueuesType, ClearQueuesAdvances DEF Cancel, Forward
<1>4. CASE s.state \in {"active", "paused"}
  <2>. DEFINE s1 == MoveActions(s, s.active, "do_cancel")
              m  == MoveNav(s1, "do_cancel", 0)
              s2 == IF s.nav \in NavPaused \cup NavTerminal \cup {NoTask} THEN s1 ELSE m
              s3 == ClearQueues(s2, TRUE)
  <2>1. Forward(s, s1) /\ (s.nav # NoTask => Forward(s, m))
    BY MoveAllForward DEF ControlTransition
  <2>2. Cancel(s) \in {s1, s2, Notify(s3, "canceling")}
    BY <1>4 DEF Cancel, CancelActive
  <2>3. Forward(s, s2)
    <3>. HIDE DEF s1, m
    <3>. QED
      BY <2>1
  <2>. HIDE DEF s1, s2
  <2>4. Forward(s2, s3)
    BY <2>3, ClearQueuesType, ClearQueuesAdvances DEF Forward
  <2>. HIDE DEF s3
  <2>5. Forward(s, Notify(s3, "canceling"))
    BY <2>3, <2>4, ForwardTransitive, NotifyForward DEF SchedulerState
  <2>. QED
    BY <2>1, <2>2, <2>3, <2>5
<1>5. CASE s.state \notin {"idle", "idle_paused", "active", "paused"}
  BY <1>5, SameForward DEF Cancel
<1>. QED
  BY <1>2, <1>3, <1>4, <1>5

LEMMA PauseForward ==
  ASSUME NEW s \in Schedulers PROVE Forward(s, Pause(s))
<1>. DEFINE s1 == MoveActions(s, s.running, "do_pause")
            m  == MoveNav(s1, "do_pause", 0)
            s2 == IF s.nav = NoTask THEN s1 ELSE m
<1>1. Forward(s, s1) /\ (s.nav # NoTask => Forward(s, m))
  BY MoveAllForward DEF ControlTransition
<1>2. Forward(s, s2)
  <2>. HIDE DEF s1, m
  <2>. QED
    BY <1>1
<1>3. PauseActive(s) \in {s1, s2, Notify(s2, "pausing")}
  BY DEF PauseActive
<1>. HIDE DEF s1, s2
<1>4. Forward(s, Notify(s2, "pausing")) /\ Forward(s, Notify(s, "idle_paused"))
  BY <1>2, SameForward, NotifyForward DEF SchedulerState
<1>5. Pause(s) \in {PauseActive(s), Notify(s, "idle_paused"), Throw(s)}
  <2>1. s.state \in SchedulerState
    BY StateType
  <2>. QED
    BY <2>1 DEF Pause, SchedulerState
<1>. QED
  BY <1>1, <1>2, <1>3, <1>4, <1>5, SameForward

LEMMA ResumeForward ==
  ASSUME NEW s \in Schedulers PROVE Forward(s, Resume(s))
<1>1. ASSUME NEW v, Forward(s, v), NEW st \in SchedulerState
      PROVE  Forward(s, Update(Notify(v, st)))
  <2>. DEFINE u == Notify(v, st)
  <2>1. Forward(s, u) /\ u \in Schedulers
    BY <1>1, NotifyForward DEF Forward
  <2>. HIDE DEF u
  <2>2. Forward(s, Update(u))
    BY <2>1, UpdateForward, ForwardTransitive
  <2>. QED
    BY <2>2 DEF u
<1>2. CASE s.state = "idle_paused"
  BY <1>1, <1>2, SameForward DEF Resume, SchedulerState
<1>3. CASE s.state = "paused"
  <2>. DEFINE s1 == MoveActions(s, s.paused, "do_resume")
              m  == MoveNav(s1, "do_resume", 0)
              s2 == IF s.nav = NoTask THEN s1 ELSE m
  <2>1. Forward(s, s1) /\ (s.nav # NoTask => Forward(s, m))
    BY MoveAllForward DEF ControlTransition
  <2>2. Forward(s, s2)
    <3>. HIDE DEF s1, m
    <3>. QED
      BY <2>1
  <2>3. Resume(s) = IF s1.thrown THEN s1 ELSE IF s2.thrown THEN s2
                    ELSE Update(Notify(s2, "resuming"))
    BY <1>3 DEF Resume, ResumePaused
  <2>. HIDE DEF s1, s2
  <2>4. Forward(s, Update(Notify(s2, "resuming")))
    BY <1>1, <2>2 DEF SchedulerState
  <2>. QED
    BY <2>1, <2>2, <2>3, <2>4
<1>4. CASE s.state \notin {"idle_paused", "paused"}
  BY <1>4, SameForward DEF Resume
<1>. QED
  BY <1>2, <1>3, <1>4

LEMMA InterruptForward ==
  ASSUME NEW s \in Schedulers, NEW G \in (SUBSET Action) \ {{}}
  PROVE  Forward(s, Interrupt(s, G))
<1>. DEFINE s1 == [s EXCEPT !.intr = Append(@, G)]
            s2 == DoInterrupt(s1)
            s3 == Notify(s2, "interrupting")
<1>1. s1 \in Schedulers /\ s1.queue = s.queue /\ s1.staging = s.staging
      /\ s1.nav = s.nav /\ s1.goal = s.goal
  <2>1. Append(s.intr, G) \in Seq((SUBSET Action) \ {{}})
    BY DEF Schedulers
  <2>. QED
    BY <2>1 DEF Schedulers
<1>2. Interrupt(s, G) \in {Throw(s1), s2, Update(s3)}
  BY DEF Interrupt
<1>. HIDE DEF s1
<1>3. Forward(s, s1)
  BY <1>1, SameAdvances DEF Forward
<1>4. Forward(s, Throw(s1))
  BY <1>1, <1>3, SameForward, ForwardTransitive
<1>5. Forward(s1, s2)
  BY <1>1, DoInterruptType, DoInterruptAdvances DEF Forward
<1>. HIDE DEF s2
<1>6. Forward(s, s2)
  BY <1>3, <1>5, ForwardTransitive
<1>7. Forward(s, s3)
  BY <1>6, NotifyForward DEF SchedulerState
<1>. HIDE DEF s3
<1>8. Forward(s, Update(s3))
  BY <1>7, UpdateForward, ForwardTransitive DEF Forward
<1>. QED
  BY <1>2, <1>4, <1>6, <1>8

LEMMA CommitQueueForward ==
  ASSUME NEW s \in Schedulers PROVE Forward(s, CommitQueue(s))
<1>. DEFINE r == [s EXCEPT !.queue = @ \o s.staging, !.staging = <<>>]
<1>1. s.queue \in Seq(Yield) /\ s.staging \in Seq(Yield)
  BY DEF Schedulers
<1>2. s.queue \o s.staging \in Seq(Yield) /\ <<>> \in Seq(Yield)
  BY <1>1
<1>3. r \in Schedulers /\ r.queue = s.queue \o s.staging /\ r.staging = <<>>
      /\ r.nav = s.nav /\ r.goal = s.goal
  BY <1>2 DEF Schedulers
<1>. HIDE DEF r
<1>4. ASSUME Queues(s) PROVE Queues(r) /\ Waiting(r) \subseteq Waiting(s)
  <2>1. Ordered(r.queue) /\ Elems(r.queue) = Elems(s.queue) \cup Elems(s.staging)
    BY <1>1, <1>3, <1>4, ConcatOrdered DEF Queues
  <2>2. Ordered(r.staging) /\ Elems(r.staging) = {}
    BY <1>3, EmptyOrdered
  <2>. QED
    BY <2>1, <2>2 DEF Queues, Waiting, Precede
<1>5. Forward(s, r)
  BY <1>3, <1>4 DEF Advances, Forward
<1>6. Forward(s, Update(r))
  BY <1>3, <1>5, UpdateForward, ForwardTransitive
<1>. QED
  BY <1>6 DEF CommitQueue, r

LEMMA ReportActionForward ==
  ASSUME NEW s \in Schedulers, NEW a \in Action, NEW t \in ActionReport
  PROVE  Forward(s, ReportAction(s, a, t))
<1>. DEFINE u == [s EXCEPT !.task[a] = ActionTarget[t]]
<1>1. u \in Schedulers /\ u.queue = s.queue /\ u.staging = s.staging
      /\ u.nav = s.nav /\ u.goal = s.goal
  BY ActionTargetType DEF Schedulers, ActionTransition
<1>2. ReportAction(s, a, t) \in {Throw(s), Update(u)}
  BY DEF ReportAction
<1>. HIDE DEF u
<1>3. Forward(s, u)
  BY <1>1, SameAdvances DEF Forward
<1>4. Forward(s, Update(u))
  BY <1>1, <1>3, UpdateForward, ForwardTransitive
<1>. QED
  BY <1>2, <1>4, SameForward

LEMMA ReportNavForward ==
  ASSUME NEW s \in Schedulers, NEW t \in NavReport, NEW g
  PROVE  /\ Forward(s, ReportNav(s, t, g))
         /\ s.nav # NoTask => Forward(s, ReachUnrecorded(s, g))
<1>1. ASSUME s.nav # NoTask, NEW v \in NavTransition PROVE Forward(s, MoveNav(s, v, g))
  BY <1>1, MoveNavType, MoveNavAdvances DEF Forward
<1>. DEFINE u == MoveNav(s, t, g)
            w == MoveNav(s, "to_seq_id", g)
<1>2. s.nav # NoTask => Forward(s, u) /\ Forward(s, w)
  BY <1>1 DEF NavTransition, NavReport
<1>3. ReportNav(s, t, g) = IF s.nav = NoTask THEN Throw(s) ELSE IF u.thrown THEN u ELSE Update(u)
  BY DEF ReportNav
<1>4. ReachUnrecorded(s, g) = Throw(w)
  BY DEF ReachUnrecorded
<1>. HIDE DEF u, w
<1>5. s.nav # NoTask => Forward(s, Update(u)) /\ Forward(s, Throw(w))
  BY <1>2, UpdateForward, SameForward, ForwardTransitive DEF Forward
<1>. QED
  BY <1>2, <1>3, <1>4, <1>5, SameForward

\* A yield that lies behind all that waits is put behind it.
LEMMA EnqueueForward ==
  ASSUME NEW s \in Schedulers, Queues(s), NEW e \in Yield, Precede(Waiting(s), {e})
  PROVE  LET r == Enqueue(s, e)
         IN /\ Queues(r) /\ Waiting(r) = Waiting(s) \cup {e}
            /\ r.goal = s.goal /\ r.nav = s.nav
<1>. DEFINE r == Enqueue(s, e)
<1>1. r.queue = s.queue /\ r.staging = Append(s.staging, e) /\ r.goal = s.goal /\ r.nav = s.nav
  BY DEF Enqueue, Schedulers
<1>2. s.staging \in Seq(Yield)
  BY DEF Schedulers
<1>. HIDE DEF r
<1>3. Precede(Elems(s.queue), {e}) /\ Precede(Elems(s.staging), {e})
  BY DEF Waiting, Precede
<1>4. Ordered(r.staging) /\ Elems(r.staging) = Elems(s.staging) \cup {e}
  BY <1>1, <1>2, <1>3, AppendOrdered DEF Queues
<1>5. Queues(r) /\ Waiting(r) = Waiting(s) \cup {e}
  BY <1>1, <1>3, <1>4 DEF Queues, Waiting, Precede
<1>. QED
  BY <1>1, <1>5 DEF r

-------------------------------------------------------------------------------
(* The steps and the order of the goals *)

LEMMA StillYields ==
  ASSUME LineInv
  PROVE  Waiting(sch) \subseteq Yield /\ Arrived \subseteq Yield /\ Coming \subseteq Yield
<1>1. /\ sch.queue \in Seq(Yield) /\ sch.staging \in Seq(Yield)
      /\ inbox \in Seq(Event) /\ handled.orders \in Nat
  BY DEF LineInv, TypeInv, Schedulers
<1>2. Waiting(sch) \subseteq Yield
  BY <1>1 DEF Waiting, Elems
<1>3. ASSUME NEW i \in DOMAIN inbox, inbox[i].kind \in {"group", "nav"} PROVE inbox[i] \in Yield
  <2>1. inbox[i] \in Event
    BY <1>1
  <2>. QED
    BY <1>3, <2>1, EventCases
<1>4. ASSUME NEW n \in (handled.orders + 1)..Len(Orders) PROVE Elems(Orders[n]) \subseteq Yield
  <2>1. n \in DOMAIN Orders
    BY <1>1, ConstantsType
  <2>2. Orders[n] \in Seq(Yield)
    BY <2>1, ConstantsType
  <2>. QED
    BY <2>2 DEF Elems
<1>. QED
  BY <1>2, <1>3, <1>4 DEF Arrived, Coming

\* A call that goes forward tells the AGV of no goal but one that lies before all that
\* is still to come, and behind the goal the AGV has.
LEMMA CallGoals ==
  ASSUME GoalInv, NEW r, Forward(sch, r), agv' = Told(r)
  PROVE  /\ Queues(r) /\ Waiting(r) \subseteq Waiting(sch)
         /\ \A g \in {r.goal, agv'.goal} \cup {c.goal : c \in Elems(agv'.ncmds)},
               e \in Waiting(r) \cup Arrived \cup Coming : IsStep(e) => g < e.goal
         /\ agv'.ncmds # agv.ncmds /\ r.goal # sch.goal => r.goal > agv.goal
<1>. DEFINE Rest == Waiting(r) \cup Arrived \cup Coming
            m    == [to |-> NavCommand[r.nav], goal |-> r.goal]
<1>1. TypeInv /\ LineInv /\ Queues(sch) /\ Precede(Waiting(sch), Arrived \cup Coming)
  BY DEF GoalInv, ExecInv, LineInv
<1>2. /\ Queues(r) /\ Waiting(r) \subseteq Waiting(sch)
      /\ \/ r.goal = sch.goal /\ (sch.nav = NoTask => r.nav = NoTask)
         \/ r.goal = 0 /\ r.nav = NoTask
         \/ \E e \in Waiting(sch) : IsStep(e) /\ r.goal = e.goal /\ Precede({e}, Waiting(r))
  BY <1>1 DEF Forward, Advances
<1>3. Rest \subseteq Yield /\ Rest \subseteq Waiting(sch) \cup Arrived \cup Coming
  BY <1>1, <1>2, StillYields
<1>. HIDE DEF m
<1>4. /\ agv'.goal = agv.goal
      /\ \/ agv'.ncmds = agv.ncmds
         \/ agv'.ncmds = Append(agv.ncmds, m) /\ r.nav \in DOMAIN NavCommand
  BY <1>1 DEF Told, TypeInv, Agvs, m
<1>5. NoTask \notin DOMAIN NavCommand /\ m.goal = r.goal
  BY DEF NoTask, NavCommand, m
<1>6. Elems(agv'.ncmds) \subseteq Elems(agv.ncmds) \cup {m}
  <2>1. agv.ncmds \in Seq([to : Commands, goal : Nat])
    BY <1>1 DEF TypeInv, Agvs
  <2>2. Elems(Append(agv.ncmds, m)) \subseteq Elems(agv.ncmds) \cup {m}
    BY <2>1, AppendElements DEF Elems
  <2>. QED
    BY <1>4, <2>2
<1>7. {r.goal, agv'.goal} \cup {c.goal : c \in Elems(agv'.ncmds)} \subseteq Goals \cup {r.goal}
  BY <1>4, <1>5, <1>6 DEF Goals
<1>8. ASSUME NEW g \in Goals, NEW e \in Rest, IsStep(e) PROVE g < e.goal
  BY <1>3, <1>8 DEF GoalInv
<1>. HIDE DEF Rest
<1>9. ASSUME NEW e \in Rest, IsStep(e) PROVE r.goal < e.goal
  <2>1. CASE r.goal = sch.goal
    BY <1>8, <1>9, <2>1 DEF Goals
  <2>2. CASE r.goal = 0
    <3>1. e.goal \in Nat \ {0}
      BY <1>3, <1>9, YieldCases DEF IsStep, NavStep
    <3>. QED
      BY <2>2, <3>1
  <2>3. CASE \E f \in Waiting(sch) : IsStep(f) /\ r.goal = f.goal /\ Precede({f}, Waiting(r))
    <3>1. PICK f \in Waiting(sch) : IsStep(f) /\ r.goal = f.goal /\ Precede({f}, Waiting(r))
      BY <2>3
    <3>2. Before(f, e)
      BY <1>1, <3>1 DEF Precede, Rest
    <3>. QED
      BY <1>9, <3>1, <3>2 DEF Before
  <2>. QED
    BY <1>2, <2>1, <2>2, <2>3
<1>10. ASSUME agv'.ncmds # agv.ncmds, r.goal # sch.goal PROVE r.goal > agv.goal
  <2>1. PICK f \in Waiting(sch) : IsStep(f) /\ r.goal = f.goal
    BY <1>2, <1>4, <1>5, <1>10
  <2>2. agv.goal < f.goal
    BY <2>1 DEF GoalInv, Goals
  <2>3. agv.goal \in Nat /\ r.goal \in Nat
    BY <1>1 DEF TypeInv, Agvs, Forward, Schedulers
  <2>. QED
    BY <2>1, <2>2, <2>3
<1>. QED
  BY <1>2, <1>7, <1>8, <1>9, <1>10 DEF Rest

\* The front of the interpreter event queue is taken.
LEMMA InboxTaken ==
  ASSUME LineInv, ArrivedInOrder, inbox # <<>>, inbox' = Tail(inbox), handled'.orders = handled.orders
  PROVE  /\ Arrived' \subseteq Arrived /\ Coming' = Coming /\ ArrivedInOrder'
         /\ Head(inbox).kind \in {"group", "nav"} =>
              Head(inbox) \in Arrived /\ Precede({Head(inbox)}, Arrived' \cup Coming)
<1>. DEFINE t == Tail(inbox)
            Y == {"group", "nav"}
<1>1. inbox \in Seq(Event)
  BY DEF LineInv, TypeInv
<1>2. /\ 1 \in DOMAIN inbox /\ inbox[1] = Head(inbox)
      /\ \A i \in DOMAIN t : /\ i \in Nat /\ 1 < i + 1 /\ i + 1 \in DOMAIN inbox
                              /\ t[i] = inbox[i + 1]
  BY <1>1, TailElements
<1>. HIDE DEF t, Y
<1>3. inbox' = t
  BY DEF t
<1>4. Arrived' \subseteq Arrived /\ Coming' = Coming
  BY <1>2, <1>3 DEF Arrived, Coming
<1>5. ASSUME NEW i \in DOMAIN t, NEW j \in DOMAIN t, i < j, t[i].kind \in Y, t[j].kind \in Y
      PROVE  Before(t[i], t[j])
  <2>1. i + 1 < j + 1
    BY <1>2, <1>5
  <2>. QED
    BY <1>2, <1>5, <2>1 DEF ArrivedInOrder, Y
<1>6. ArrivedInOrder'
  BY <1>3, <1>4, <1>5 DEF ArrivedInOrder, Precede, Y
<1>7. ASSUME Head(inbox).kind \in Y
      PROVE  Head(inbox) \in Arrived /\ Precede({Head(inbox)}, Arrived' \cup Coming)
  <2>1. Head(inbox) \in Arrived
    BY <1>2, <1>7 DEF Arrived, Y
  <2>2. ASSUME NEW i \in DOMAIN t, t[i].kind \in Y PROVE Before(Head(inbox), t[i])
    BY <1>2, <1>7, <2>2 DEF ArrivedInOrder, Y
  <2>3. Precede({Head(inbox)}, Arrived')
    BY <1>3, <2>2 DEF Precede, Arrived, Y
  <2>. QED
    BY <2>1, <2>3 DEF ArrivedInOrder, Precede
<1>. QED
  BY <1>4, <1>6, <1>7 DEF Y

\* Yields that come are put behind those that have arrived.
LEMMA InboxGrows ==
  ASSUME LineInv, ArrivedInOrder, NEW r \in Seq(Event), inbox' = inbox \o r,
         NEW C, C = {r[i] : i \in {j \in DOMAIN r : r[j].kind \in {"group", "nav"}}},
         \A i, j \in DOMAIN r :
           i < j /\ r[i].kind \in {"group", "nav"} /\ r[j].kind \in {"group", "nav"} => Before(r[i], r[j]),
         C \subseteq Coming, Coming' \subseteq Coming, Precede(C, Coming')
  PROVE  Arrived' \cup Coming' \subseteq Arrived \cup Coming /\ ArrivedInOrder'
<1>. DEFINE q == inbox \o r
            N == Len(inbox)
            Y == {"group", "nav"}
<1>1. inbox \in Seq(Event)
  BY DEF LineInv, TypeInv
<1>2. /\ \A i \in DOMAIN q :
           \/ i \in DOMAIN inbox /\ q[i] = inbox[i] /\ i <= N
           \/ i - N \in DOMAIN r /\ q[i] = r[i - N] /\ N < i
      /\ \A i \in DOMAIN q : i \in Nat
      /\ N \in Nat
  BY <1>1
<1>. HIDE DEF q, N, Y
<1>3. inbox' = q
  BY DEF q
<1>4. Arrived' \subseteq Arrived \cup C
  BY <1>2, <1>3 DEF Arrived
<1>5. ASSUME NEW i \in DOMAIN q, NEW j \in DOMAIN q, i < j, q[i].kind \in Y, q[j].kind \in Y
      PROVE  Before(q[i], q[j])
  <2>1. CASE i \in DOMAIN inbox /\ q[i] = inbox[i] /\ j \in DOMAIN inbox /\ q[j] = inbox[j]
    BY <1>5, <2>1 DEF ArrivedInOrder, Y
  <2>2. CASE i \in DOMAIN inbox /\ q[i] = inbox[i] /\ j - N \in DOMAIN r /\ q[j] = r[j - N]
    <3>1. q[i] \in Arrived /\ q[j] \in C
      BY <1>5, <2>2 DEF Arrived, Y
    <3>. QED
      BY <3>1 DEF ArrivedInOrder, Precede
  <2>3. CASE i - N \in DOMAIN r /\ q[i] = r[i - N] /\ j - N \in DOMAIN r /\ q[j] = r[j - N]
    <3>1. i - N < j - N
      BY <1>2, <1>5
    <3>. QED
      BY <1>5, <2>3, <3>1 DEF Y
  <2>4. ~(N < i /\ j <= N)
    BY <1>2, <1>5
  <2>. QED
    BY <1>2, <1>5, <2>1, <2>2, <2>3, <2>4
<1>6. Precede(Arrived', Coming')
  BY <1>4 DEF ArrivedInOrder, Precede
<1>. QED
  BY <1>3, <1>4, <1>5, <1>6 DEF ArrivedInOrder, Y

LEMMA OrderArrives ==
  ASSUME LineInv, ArrivedInOrder, InterpretOrder
  PROVE  Arrived' \cup Coming' \subseteq Arrived \cup Coming /\ ArrivedInOrder'
<1>. DEFINE n == Head(accepted).number
            q == Orders[n]
            g == <<GraphOf(n), Done>>
            r == q \o g
            Y == {"group", "nav"}
<1>1. /\ accepted # <<>> /\ IsOrder(Head(accepted)) /\ inbox' = inbox \o r
      /\ handled' = [handled EXCEPT !.orders = @ + 1]
      /\ handled \in [orders : Nat, groups : SUBSET Instants]
  BY DEF InterpretOrder, IsOrder, Yields, LineInv, TypeInv
<1>2. n = handled.orders + 1 /\ n \in DOMAIN Orders
  BY <1>1, NextOrder
<1>3. /\ n \in Nat /\ handled'.orders = n
      /\ n \in n..Len(Orders) /\ \A m \in (n + 1)..Len(Orders) : m \in DOMAIN Orders /\ n < m
      /\ (n + 1)..Len(Orders) \subseteq n..Len(Orders)
  BY <1>1, <1>2, ConstantsType
<1>4. Yields(n) = r /\ r \in Seq(Event) /\ q \in Seq(Event) /\ g \in Seq(Event) /\ q \in Seq(Yield)
  BY <1>2, YieldsType, ConstantsType DEF Yields
<1>5. \A i \in DOMAIN g : g[i].kind \notin Y
  BY DEF GraphOf, Done
<1>6. \A i, j \in DOMAIN q : i < j => Before(q[i], q[j])
  BY <1>2, NumberingAssumption
<1>7. \A m \in DOMAIN Orders : n < m => Precede(Elems(q), Elems(Orders[m]))
  BY <1>2, NumberingAssumption DEF Precede, Elems
<1>8. /\ Coming = UNION {Elems(Orders[m]) : m \in n..Len(Orders)}
      /\ Coming' = UNION {Elems(Orders[m]) : m \in (n + 1)..Len(Orders)}
  BY <1>2, <1>3 DEF Coming
<1>9. Elems(q) \subseteq Coming /\ Coming' \subseteq Coming
  BY <1>3, <1>8
<1>10. Precede(Elems(q), Coming')
  BY <1>3, <1>7, <1>8 DEF Precede
<1>. HIDE DEF q, g, n
<1>11. /\ \A i \in DOMAIN r :
            \/ i \in DOMAIN q /\ r[i] = q[i]
            \/ i - Len(q) \in DOMAIN g /\ r[i] = g[i - Len(q)]
  BY <1>4, ConcatElements
<1>. HIDE DEF r
<1>12. \A i \in DOMAIN r : r[i].kind \in Y => i \in DOMAIN q /\ r[i] = q[i]
  BY <1>5, <1>11
<1>. DEFINE C == {r[i] : i \in {j \in DOMAIN r : r[j].kind \in {"group", "nav"}}}
<1>13. C \subseteq Elems(q)
  BY <1>12 DEF Elems
<1>14. \A i, j \in DOMAIN r : i < j /\ r[i].kind \in Y /\ r[j].kind \in Y => Before(r[i], r[j])
  BY <1>6, <1>12
<1>15. C \subseteq Coming /\ Precede(C, Coming')
  BY <1>9, <1>10, <1>13 DEF Precede
<1>. QED
  BY <1>1, <1>4, <1>9, <1>14, <1>15, InboxGrows

LEMMA OthersArrive ==
  ASSUME LineInv, ArrivedInOrder, InterpretInstantActions
  PROVE  Arrived' \cup Coming' \subseteq Arrived \cup Coming /\ ArrivedInOrder'
<1>. DEFINE m == Head(accepted)
            r == <<m>>
<1>1. /\ accepted # <<>> /\ m.kind # "order" /\ inbox' = Append(inbox, m) /\ UNCHANGED handled
      /\ accepted \in Seq(Message) /\ inbox \in Seq(Event)
  BY DEF InterpretInstantActions, LineInv, TypeInv
<1>2. m \in Event /\ ~IsPending(m)
  BY <1>1, TailType, MessageCases
<1>. HIDE DEF m
<1>3. r \in Seq(Event) /\ inbox' = inbox \o r
  BY <1>1, <1>2, AppendOne
<1>4. \A i \in DOMAIN r : r[i].kind \notin {"group", "nav"}
  BY <1>2 DEF IsPending
<1>. HIDE DEF r
<1>5. Coming' = Coming
  BY <1>1 DEF Coming
<1>6. {} = {r[i] : i \in {j \in DOMAIN r : r[j].kind \in {"group", "nav"}}}
  BY <1>4
<1>7. Precede({}, Coming') /\ {} \subseteq Coming
  BY DEF Precede
<1>. QED
  BY <1>3, <1>4, <1>5, <1>6, <1>7, InboxGrows

\* The AGV has no goal it was not told of.
LEMMA AgvGoals ==
  ASSUME TypeInv, Agv
  PROVE  Goals' \subseteq Goals /\ UNCHANGED <<sch, inbox, handled>>
<1>1. UNCHANGED <<sch, inbox, handled>>
  BY DEF Agv, HandleActionCommand, BeginWork, EndWork, HaltWork, ResumeWork, Works,
         HandleNavigationCommand, EndDrive, HaltDrive, DriveOn, Drives, OnlyAgv
<1>2. agv \in Agvs
  BY DEF TypeInv
<1>3. CASE ~HandleNavigationCommand
  <2>1. agv'.goal = agv.goal /\ agv'.ncmds = agv.ncmds
    BY <1>2, <1>3 DEF Agv, HandleActionCommand, BeginWork, EndWork, HaltWork, ResumeWork, Works,
                      EndDrive, HaltDrive, DriveOn, Drives, Agvs
  <2>. QED
    BY <1>1, <2>1 DEF Goals
<1>4. CASE HandleNavigationCommand
  <2>. DEFINE c == Head(agv.ncmds)
              q == Tail(agv.ncmds)
  <2>1. agv.ncmds \in Seq([to : Commands, goal : Nat]) /\ agv.ncmds # <<>>
    BY <1>2, <1>4 DEF HandleNavigationCommand, Agvs
  <2>2. c \in Elems(agv.ncmds) /\ Elems(q) \subseteq Elems(agv.ncmds)
    BY <2>1, TailElements DEF Elems
  <2>3. agv'.ncmds = q /\ agv'.goal \in {agv.goal, c.goal}
    BY <1>2, <1>4 DEF HandleNavigationCommand, Drives, Agvs
  <2>. HIDE DEF c, q
  <2>. QED
    BY <1>1, <2>2, <2>3 DEF Goals
<1>. QED
  BY <1>1, <1>3, <1>4

\* What is left unchanged but for the inbox, and the inbox itself.
LEMMA GoalKept ==
  ASSUME GoalInv, ExecInv', Goals' \subseteq Goals, UNCHANGED sch,
         Arrived' \cup Coming' \subseteq Arrived \cup Coming, ArrivedInOrder'
  PROVE  GoalInv'
<1>1. Waiting(sch)' = Waiting(sch) /\ Queues(sch)' = Queues(sch)
  BY DEF Waiting, Queues
<1>2. Queues(sch)' /\ Precede(Waiting(sch), Arrived \cup Coming)'
  BY <1>1 DEF GoalInv, Precede
<1>3. (\A g \in Goals, e \in Waiting(sch) \cup Arrived \cup Coming : IsStep(e) => g < e.goal)'
  BY <1>1 DEF GoalInv
<1>. QED
  BY <1>2, <1>3 DEF GoalInv

\* A call that goes forward.
LEMMA CallKept ==
  ASSUME GoalInv, ExecInv', Forward(sch, sch'), agv' = Told(sch'),
         Arrived' \subseteq Arrived, Coming' = Coming, ArrivedInOrder'
  PROVE  GoalInv'
<1>. DEFINE r == sch'
<1>1. Forward(sch, r) /\ agv' = Told(r)
  OBVIOUS
<1>. HIDE DEF r
<1>2. /\ Queues(r) /\ Waiting(r) \subseteq Waiting(sch)
      /\ \A g \in {r.goal, agv'.goal} \cup {c.goal : c \in Elems(agv'.ncmds)},
            e \in Waiting(r) \cup Arrived \cup Coming : IsStep(e) => g < e.goal
  BY <1>1, CallGoals
<1>3. Queues(sch)' /\ Precede(Waiting(sch), Arrived \cup Coming)'
  BY <1>2 DEF GoalInv, Precede, Queues, Waiting, r
<1>4. (\A g \in Goals, e \in Waiting(sch) \cup Arrived \cup Coming : IsStep(e) => g < e.goal)'
  BY <1>2 DEF Goals, Waiting, r
<1>. QED
  BY <1>3, <1>4 DEF GoalInv

Upward == agv'.ncmds # agv.ncmds /\ sch'.goal # sch.goal => sch'.goal > agv.goal

LEMMA CallUpward ==
  ASSUME GoalInv, Forward(sch, sch'), agv' = Told(sch') PROVE Upward
<1>. DEFINE r == sch'
<1>1. Forward(sch, r) /\ agv' = Told(r)
  OBVIOUS
<1>. HIDE DEF r
<1>2. agv'.ncmds # agv.ncmds /\ r.goal # sch.goal => r.goal > agv.goal
  BY <1>1, CallGoals
<1>. QED
  BY <1>2 DEF Upward, r

\* A yield moves from the event queue to the scheduler.
LEMMA EnqueueGoals ==
  ASSUME GoalInv, ExecInv', EnqueueYield PROVE GoalInv' /\ Upward
<1>. DEFINE s0 == Begin(sch)
            e  == Head(inbox)
            r  == Enqueue(s0, e)
<1>1. /\ LineInv /\ TypeInv /\ Queues(sch) /\ ArrivedInOrder /\ sch \in Schedulers
      /\ Precede(Waiting(sch), Arrived \cup Coming)
  BY DEF GoalInv, ExecInv, LineInv, TypeInv
<1>2. /\ inbox # <<>> /\ e.kind \in {"group", "nav"} /\ inbox' = Tail(inbox)
      /\ UNCHANGED handled /\ sch' = r /\ agv' = Told(r)
  BY DEF EnqueueYield, Takes, Call
<1>3. /\ Arrived' \subseteq Arrived /\ Coming' = Coming /\ ArrivedInOrder'
      /\ e \in Arrived /\ Precede({e}, Arrived' \cup Coming)
  BY <1>1, <1>2, InboxTaken
<1>4. e \in Yield
  BY <1>1, <1>3, StillYields
<1>5. s0 \in Schedulers /\ s0.goal = sch.goal /\ s0.nav = sch.nav
  BY Beginning DEF GoalInv
<1>6. Queues(s0) /\ Waiting(s0) \subseteq Waiting(sch)
  BY <1>1, BeginAdvances DEF Advances
<1>. HIDE DEF s0, e
<1>7. Precede(Waiting(s0), {e})
  BY <1>1, <1>3, <1>6 DEF Precede
<1>8. /\ Queues(r) /\ Waiting(r) = Waiting(s0) \cup {e}
      /\ r.goal = sch.goal /\ r.nav = sch.nav
  BY <1>4, <1>5, <1>6, <1>7, EnqueueForward
<1>. HIDE DEF r
<1>9. agv'.ncmds = agv.ncmds /\ agv'.goal = agv.goal
  BY <1>1, <1>2, <1>8 DEF Told, TypeInv, Agvs
<1>10. Goals' = Goals
  BY <1>2, <1>8, <1>9 DEF Goals
<1>11. Queues(sch)' /\ Waiting(sch)' = Waiting(r)
  BY <1>2, <1>8 DEF Queues, Waiting
<1>12. Waiting(r) \cup Arrived' \cup Coming' \subseteq Waiting(sch) \cup Arrived \cup Coming
  BY <1>3, <1>6, <1>8
<1>13. Precede(Waiting(r), Arrived' \cup Coming')
  BY <1>1, <1>3, <1>6, <1>8 DEF Precede
<1>14. Precede(Waiting(sch), Arrived \cup Coming)'
  BY <1>11, <1>13 DEF Precede
<1>15. (\A g \in Goals, f \in Waiting(sch) \cup Arrived \cup Coming : IsStep(f) => g < f.goal)'
  BY <1>10, <1>11, <1>12 DEF GoalInv
<1>16. GoalInv'
  BY <1>3, <1>11, <1>14, <1>15 DEF GoalInv
<1>. QED
  BY <1>9, <1>16 DEF Upward

LEMMA InterpreterGoals ==
  ASSUME GoalInv, ExecInv', InterpreterThread PROVE GoalInv' /\ Upward
<1>. DEFINE s0 == Begin(sch)
            e  == Head(inbox)
<1>1. /\ LineInv /\ ArrivedInOrder /\ sch \in Schedulers /\ inbox \in Seq(Event)
  BY DEF GoalInv, ExecInv, LineInv, TypeInv
<1>2. inbox # <<>> /\ inbox' = Tail(inbox)
  BY DEF InterpreterThread, EnqueueYield, SetGraph, CommitOrder, InstantActions, OrderControl,
         DeclineControl, Takes
<1>3. handled'.orders = handled.orders
  <2>1. CASE InstantActions
    BY <1>1, <2>1 DEF InstantActions, LineInv, TypeInv
  <2>. QED
    BY <2>1 DEF InterpreterThread, EnqueueYield, SetGraph, CommitOrder, OrderControl, DeclineControl
<1>4. Arrived' \subseteq Arrived /\ Coming' = Coming /\ ArrivedInOrder'
  BY <1>1, <1>2, <1>3, InboxTaken
<1>5. e \in Event
  BY <1>1, <1>2, TailType
<1>6. Forward(sch, s0) /\ s0 \in Schedulers
  BY <1>1, BeginType, BeginAdvances DEF Forward
<1>. HIDE DEF s0, e
<1>7. ASSUME NEW r, Forward(s0, r), Call(r) PROVE GoalInv' /\ Upward
  <2>1. Forward(sch, r)
    BY <1>6, <1>7, ForwardTransitive
  <2>2. sch' = r /\ agv' = Told(r)
    BY <1>7 DEF Call
  <2>3. Forward(sch, sch') /\ agv' = Told(sch')
    BY <2>1, <2>2
  <2>. QED
    BY <1>4, <2>3, CallKept, CallUpward
<1>8. CASE EnqueueYield
  BY <1>8, EnqueueGoals
<1>9. CASE SetGraph \/ DeclineControl
  <2>1. UNCHANGED <<sch, agv>>
    BY <1>9 DEF SetGraph, DeclineControl
  <2>2. Goals' = Goals
    BY <2>1 DEF Goals
  <2>. QED
    BY <1>4, <2>1, <2>2, GoalKept DEF Upward
<1>10. CASE CommitOrder
  <2>1. Call(CommitQueue(s0))
    BY <1>10 DEF CommitOrder, s0
  <2>. QED
    BY <1>6, <1>7, <2>1, CommitQueueForward
<1>11. CASE InstantActions
  <2>1. Call(Interrupt(s0, e.group)) /\ e.kind = "instants"
    BY <1>11 DEF InstantActions, Takes, s0, e
  <2>2. e.group \in (SUBSET Action) \ {{}}
    BY <1>5, <2>1, EventCases, ConstantsType
  <2>. QED
    BY <1>6, <1>7, <2>1, <2>2, InterruptForward
<1>12. CASE OrderControl
  <2>. DEFINE r == CASE e.type = "startPause"  -> Pause(s0)
                     [] e.type = "stopPause"   -> Resume(s0)
                     [] e.type = "cancelOrder" -> Cancel(s0)
  <2>1. Call(r) /\ e.kind = "control"
    BY <1>12 DEF OrderControl, Takes, s0, e
  <2>2. e.type \in ControlAction
    BY <1>5, <2>1, EventCases
  <2>3. r \in {Pause(s0), Resume(s0), Cancel(s0)}
    BY <2>2 DEF ControlAction
  <2>. HIDE DEF r
  <2>4. Forward(s0, r)
    BY <1>6, <2>3, PauseForward, ResumeForward, CancelForward
  <2>. QED
    BY <1>7, <2>1, <2>4
<1>. QED
  BY <1>8, <1>9, <1>10, <1>11, <1>12 DEF InterpreterThread

\* The reports on the actions and the navigation.
LEMMA StatusGoals ==
  ASSUME GoalInv, ExecInv', (\E a \in Action : ActionStatus(a)) \/ NavigationStatus
  PROVE  GoalInv' /\ Upward
<1>. DEFINE s0 == Begin(sch)
<1>1. ExecInv /\ ArrivedInOrder /\ sch \in Schedulers
  BY DEF GoalInv, ExecInv, LineInv, TypeInv
<1>2. UNCHANGED <<inbox, handled>>
  BY DEF ActionStatus, NavigationStatus
<1>3. Arrived' = Arrived /\ Coming' = Coming /\ ArrivedInOrder'
  BY <1>1, <1>2 DEF Arrived, Coming, ArrivedInOrder
<1>4. Forward(sch, s0) /\ s0 \in Schedulers /\ s0.nav = sch.nav
  BY <1>1, BeginType, BeginAdvances, Beginning DEF Forward
<1>. HIDE DEF s0
<1>5. ASSUME Forward(s0, sch'), agv' = Told(sch') PROVE GoalInv' /\ Upward
  BY <1>3, <1>4, <1>5, ForwardTransitive, CallKept, CallUpward
<1>6. ASSUME UNCHANGED <<sch, agv>> PROVE GoalInv' /\ Upward
  <2>1. Goals' = Goals
    BY <1>6 DEF Goals
  <2>. QED
    BY <1>3, <1>6, <2>1, GoalKept DEF Upward
<1>7. ASSUME NEW a \in Action, ActionStatus(a) PROVE GoalInv' /\ Upward
  <2>1. /\ \/ UNCHANGED <<sch, agv>>
           \/ agv' = Told(sch') /\ sch' = ReportAction(s0, a, Head(reports[a]))
        /\ Head(reports[a]) \in ActionReport
    BY <1>1, <1>7, ActionCalls DEF s0
  <2>2. Forward(s0, ReportAction(s0, a, Head(reports[a])))
    BY <1>4, <2>1, ReportActionForward
  <2>. QED
    BY <1>5, <1>6, <2>1, <2>2
<1>8. CASE NavigationStatus
  <2>. DEFINE h == Head(nreports)
  <2>1. h \in [type : NavReport, goal : Nat]
    BY <1>1, <1>8, NavCalls
  <2>2. \/ sch.nav # NoTask /\ Call(ReportNav(s0, h.type, h.goal))
        \/ sch.nav # NoTask /\ Call(ReachUnrecorded(s0, h.goal))
        \/ Refused
    BY <1>8 DEF NavigationStatus, s0
  <2>. HIDE DEF h
  <2>3. sch.nav # NoTask => /\ Forward(s0, ReportNav(s0, h.type, h.goal))
                            /\ Forward(s0, ReachUnrecorded(s0, h.goal))
    BY <1>4, <2>1, ReportNavForward
  <2>4. CASE Refused
    BY <1>6, <2>4 DEF Refused
  <2>5. ASSUME NEW r, Forward(s0, r), Call(r) PROVE GoalInv' /\ Upward
    BY <1>5, <2>5 DEF Call
  <2>. QED
    BY <2>2, <2>3, <2>4, <2>5
<1>. QED
  BY <1>7, <1>8

LEMMA GoalInit == Init => GoalInv
<1>. SUFFICES ASSUME Init PROVE GoalInv
  OBVIOUS
<1>1. ExecInv /\ LineInv
  BY ExecInit, LineInit
<1>2. /\ sch.queue = <<>> /\ sch.staging = <<>> /\ sch.goal = 0
      /\ inbox = <<>> /\ agv.goal = 0 /\ agv.ncmds = <<>>
  BY DEF Init, NewScheduler
<1>3. Queues(sch) /\ Waiting(sch) = {}
  BY <1>2, EmptyOrdered DEF Queues, Waiting, Precede
<1>4. DOMAIN <<>> = {}
  OBVIOUS
<1>5. Arrived = {}
  BY <1>2, <1>4 DEF Arrived
<1>6. ArrivedInOrder
  BY <1>2, <1>4, <1>5 DEF ArrivedInOrder, Precede
<1>7. Goals = {0}
  BY <1>2, <1>4 DEF Goals, Elems
<1>8. \A e \in Coming : IsStep(e) => e.goal \in Nat \ {0}
  BY <1>1, StillYields, YieldCases DEF IsStep, NavStep
<1>. QED
  BY <1>1, <1>3, <1>5, <1>6, <1>7, <1>8 DEF GoalInv, Precede

LEMMA GoalNext == GoalInv /\ [Next]_vars => GoalInv' /\ Upward
<1>. SUFFICES ASSUME GoalInv, [Next]_vars PROVE GoalInv' /\ Upward
  OBVIOUS
<1>1. ExecInv /\ LineInv /\ TypeInv /\ ArrivedInOrder /\ ExecInv'
  BY ExecNext DEF GoalInv, ExecInv, LineInv
<1>2. ASSUME Goals' \subseteq Goals, UNCHANGED sch,
             Arrived' \cup Coming' \subseteq Arrived \cup Coming, ArrivedInOrder'
      PROVE  GoalInv' /\ Upward
  BY <1>1, <1>2, GoalKept DEF Upward
<1>3. UNCHANGED <<inbox, handled>> =>
        Arrived' \cup Coming' \subseteq Arrived \cup Coming /\ ArrivedInOrder'
  BY <1>1 DEF Arrived, Coming, ArrivedInOrder
<1>4. UNCHANGED <<sch, agv>> => Goals' = Goals
  BY DEF Goals
<1>5. CASE InterpreterThread
  BY <1>1, <1>5, InterpreterGoals
<1>6. CASE (\E a \in Action : ActionStatus(a)) \/ NavigationStatus
  BY <1>1, <1>6, StatusGoals
<1>7. CASE Agv
  BY <1>1, <1>2, <1>3, <1>7, AgvGoals
<1>8. CASE InterpretOrder
  BY <1>1, <1>2, <1>4, <1>8, OrderArrives DEF InterpretOrder
<1>9. CASE InterpretInstantActions
  BY <1>1, <1>2, <1>4, <1>9, OthersArrive DEF InterpretInstantActions
<1>10. CASE \/ ValidateOrder \/ (\E G \in Instants : ValidateInstants(G))
            \/ (\E c \in Controls : ValidateControl(c)) \/ HandleStatus \/ UNCHANGED vars
  <2>1. UNCHANGED <<sch, agv, inbox, handled>>
    BY <1>10 DEF ValidateOrder, ValidateInstants, ValidateControl, Accept, HandleStatus, vars
  <2>. QED
    BY <1>2, <1>3, <1>4, <2>1
<1>. QED
  BY <1>5, <1>6, <1>7, <1>8, <1>9, <1>10 DEF Next, Agv

LEMMA GoalInductive == Spec => []GoalInv
<1>1. GoalInv /\ [Next]_vars => GoalInv'
  BY GoalNext
<1>. QED
  BY <1>1, GoalInit, PTL DEF Spec

\* For all orders, updates, instant actions, controls and sets of actions: the AGV is
\* told of a new goal only if it lies behind the one it has, whatever is canceled,
\* paused or reported while orders, commands and reports are on their way.
THEOREM GoalsAreInOrder == Spec => GoalsInOrder
<1>1. GoalInv /\ [Next]_vars =>
        [agv'.ncmds # agv.ncmds /\ agv'.ncmds # <<>> /\ sch'.goal # sch.goal
           => sch'.goal > agv.goal]_vars
  BY GoalNext DEF Upward
<1>. QED
  BY <1>1, GoalInductive, PTL DEF Spec, GoalsInOrder
=============================================================================
