-------------------------- MODULE ControlBlocksProofs --------------------------
(***************************************************************************)
(* The properties of ControlBlocks, for every set of actions, all orders   *)
(* and every number of controls, while the master control is Patient.      *)
(*                                                                         *)
(* ControlInv says where the one message that is under way is, what the    *)
(* scheduler and its announcements may be then, and which latches are      *)
(* subscribed; HangInv, what every control that has not ended waits for.   *)
(***************************************************************************)
EXTENDS ControlBlocks, SchedulerLemmas

-------------------------------------------------------------------------------
(* The scheduler as the controls and the orders of this module use it *)

\* Groups alone: nothing drives and nothing interrupts.
Groups(s) ==
  /\ s \in Schedulers /\ ~s.thrown
  /\ s.nav = NoTask /\ s.navint = {} /\ s.intr = <<>>
  /\ s.queue \in Seq(Group) /\ s.staging \in Seq(Group)
  /\ s.running \cup s.paused = s.active /\ s.running \cap s.paused = {}

AllIn(s, S, in) == \A a \in S : s.task[a] \in in

\* What a scheduler is busy with in each of its states.
Busy(s) ==
  \/ s.state = "idle" /\ s.active = {} /\ s.queue = <<>>
  \/ s.state = "idle_paused" /\ s.active = {}
  \/ /\ s.state = "active" /\ s.active # {} /\ s.paused = {}
     /\ AllIn(s, s.running, {"Initializing", "Running"})
  \/ /\ s.state = "pausing" /\ s.running # {}
     /\ AllIn(s, s.running, {"Pausing"}) /\ AllIn(s, s.paused, {"Paused"})
  \/ s.state = "paused" /\ s.running = {} /\ AllIn(s, s.paused, {"Paused"})
  \/ /\ s.state = "resuming" /\ s.paused # {}
     /\ AllIn(s, s.running, {"Running"}) /\ AllIn(s, s.paused, {"Resuming"})
  \/ s.state = "canceling" /\ s.queue = <<>> /\ AllIn(s, s.active, {"Canceling"})

\* What is kept of the scheduler between two calls.
Orderly(s) == Groups(s) /\ Busy(s)

\* The tasks of s that have not ended.
Unended(s, S) == {a \in S : s.task[a] \notin ActionTerminal}

\* Refreshing a scheduler of groups sorts its tasks.
LEMMA RefreshGroups ==
  ASSUME NEW s, Groups(s)
  PROVE  LET r == Refresh(s)
         IN /\ Groups(r) /\ Steady(r, s) /\ r.task = s.task
            /\ r.queue = s.queue /\ r.staging = s.staging
            /\ r.active = Unended(s, s.active)
            /\ r.running = {a \in r.active : s.task[a] \notin ActionPaused}
            /\ r.paused = {a \in r.active : s.task[a] \in ActionPaused}
<1>. DEFINE live    == {a \in s.running \cup s.paused : s.task[a] \notin ActionTerminal}
            resting == {a \in live : s.task[a] \in ActionPaused}
            moved   == [s EXCEPT !.running = live \ resting,
                                 !.paused  = resting,
                                 !.active  = {a \in @ : s.task[a] \notin ActionTerminal}]
            rest    == {a \in moved.navint : moved.task[a] \notin ActionTerminal}
            r       == [moved EXCEPT !.navint = rest]
<1>1. s \in Schedulers /\ s.running \cup s.paused = s.active
  BY DEF Groups
<1>2. UpdateTasks(s) = moved
  <2>1. s.nav \notin NavTerminal
    BY DEF Groups, NoTask, NavTerminal
  <2>. QED
    BY <2>1 DEF UpdateTasks
<1>3. /\ live \ resting \in SUBSET Action /\ resting \in SUBSET Action
      /\ {a \in s.active : s.task[a] \notin ActionTerminal} \in SUBSET Action
  BY <1>1 DEF Schedulers
<1>4. live = Unended(s, s.active)
  BY <1>1 DEF Unended
<1>5. /\ live \ resting = {a \in live : s.task[a] \notin ActionPaused}
      /\ (live \ resting) \cup resting = live /\ (live \ resting) \cap resting = {}
  OBVIOUS
<1>. HIDE DEF live, resting
<1>6. /\ moved \in Schedulers /\ moved.navint = s.navint /\ moved.task = s.task
      /\ moved.running = live \ resting /\ moved.paused = resting /\ moved.intr = s.intr
      /\ moved.active = Unended(s, s.active) /\ moved.nav = s.nav
      /\ moved.queue = s.queue /\ moved.staging = s.staging /\ Steady(moved, s)
      /\ moved.thrown = s.thrown
  BY <1>1, <1>3 DEF Schedulers, Unended, Steady
<1>. HIDE DEF moved
<1>7. rest = {}
  BY <1>6 DEF Groups
<1>8. Refresh(s) = r
  BY <1>2, <1>6, <1>7 DEF Refresh, UpdateInterruptMapping, Groups
<1>. HIDE DEF rest
<1>9. /\ r \in Schedulers /\ r.navint = {} /\ r.task = s.task
      /\ r.running = live \ resting /\ r.paused = resting /\ r.intr = s.intr
      /\ r.active = Unended(s, s.active) /\ r.nav = s.nav
      /\ r.queue = s.queue /\ r.staging = s.staging /\ Steady(r, s)
      /\ r.thrown = s.thrown
  BY <1>6, <1>7 DEF Schedulers, Steady
<1>. HIDE DEF r
<1>10. Groups(r)
  BY <1>4, <1>5, <1>9 DEF Groups
<1>. QED
  BY <1>4, <1>5, <1>8, <1>9, <1>10 DEF resting

LEMMA GroupQueue ==
  ASSUME NEW q \in Seq(Group), q # <<>>
  PROVE  /\ Head(q) \in Group /\ Tail(q) \in Seq(Group) /\ ~IsStep(Head(q))
         /\ Head(q).actions \in SUBSET Action /\ Head(q).actions # {}
         /\ Head(q).ceiling \in BlockingType
<1>1. Head(q) \in Group /\ Tail(q) \in Seq(Group)
  OBVIOUS
<1>. QED
  BY <1>1 DEF Group, IsStep

\* s has begun its next group.
BeginsGroup(r, s) ==
  /\ Groups(r) /\ Steady(r, s) /\ r.staging = s.staging
  /\ r.active # {} /\ r.paused = {} /\ AllIn(r, r.running, {"Initializing"})

LEMMA FetchOneGroup ==
  ASSUME NEW s, Groups(s), s.active = {}, s.queue # <<>>
  PROVE  BeginsGroup(FetchOne(s), s)
<1>. DEFINE G == Head(s.queue).actions
            c == Head(s.queue).ceiling
            started == StartGroup(s, G, c)
            r == [started EXCEPT !.segment = NoSegment, !.queue = Tail(@)]
<1>1. s \in Schedulers /\ s.queue \in Seq(Group)
  BY DEF Groups
<1>2. ~IsStep(Head(s.queue)) /\ G \in SUBSET Action /\ G # {} /\ c \in BlockingType /\ Tail(s.queue) \in Seq(Group)
  BY <1>1, GroupQueue
<1>3. FetchOne(s) = r
  BY <1>2 DEF FetchOne, MayFetchGroup, FetchGroup, Groups
<1>4. started \in Schedulers /\ FetchOne(s) \in Schedulers
  BY <1>1, <1>2, StartGroupType, FetchOneType
<1>. HIDE DEF G, c
<1>5. /\ started.active = s.active \cup G /\ started.running = s.running \cup G
      /\ started.paused = s.paused /\ started.nav = s.nav /\ started.navint = s.navint
      /\ started.intr = s.intr /\ started.queue = s.queue /\ started.staging = s.staging
      /\ Steady(started, s) /\ started.thrown = s.thrown
      /\ started.task = [a \in Action |-> IF a \in G THEN ActionTarget["do_start"] ELSE s.task[a]]
  BY <1>1, <1>2 DEF StartGroup, Schedulers, Steady
<1>. HIDE DEF started
<1>6. /\ r.active = s.active \cup G /\ r.running = s.running \cup G
      /\ r.paused = s.paused /\ r.nav = s.nav /\ r.navint = s.navint
      /\ r.intr = s.intr /\ r.queue = Tail(s.queue) /\ r.staging = s.staging
      /\ Steady(r, s) /\ r.thrown = s.thrown
      /\ r.task = [a \in Action |-> IF a \in G THEN ActionTarget["do_start"] ELSE s.task[a]]
  BY <1>4, <1>5 DEF Schedulers, Steady
<1>. HIDE DEF r
<1>7. s.running = {} /\ s.paused = {}
  BY DEF Groups
<1>8. r \in Schedulers
  BY <1>3, <1>4
<1>9. Groups(r)
  BY <1>2, <1>6, <1>7, <1>8 DEF Groups
<1>10. ActionTarget["do_start"] = "Initializing"
  BY DEF ActionTarget, ActionTransition, ActionReport
<1>11. AllIn(r, r.running, {"Initializing"})
  BY <1>2, <1>6, <1>7, <1>10 DEF AllIn
<1>. QED
  BY <1>2, <1>3, <1>6, <1>7, <1>9, <1>11 DEF BeginsGroup

LEMMA FetchOneKeeps ==
  ASSUME NEW s, Groups(s), s.active # {} \/ s.queue = <<>>
  PROVE  FetchOne(s) = s
<1>1. s.queue \in Seq(Group)
  BY DEF Groups
<1>2. CASE s.queue = <<>>
  BY <1>2 DEF FetchOne
<1>3. CASE s.queue # <<>>
  BY <1>1, <1>3, GroupQueue DEF FetchOne, MayFetchGroup
<1>. QED
  BY <1>2, <1>3

\* A scheduler of groups begins its next one when it has none.
LEMMA FetchGroups ==
  ASSUME NEW s, Groups(s)
  PROVE  /\ s.active # {} \/ s.queue = <<>> => FetchNext(s) = s
         /\ s.active = {} /\ s.queue # <<>> => BeginsGroup(FetchNext(s), s)
<1>1. ASSUME s.active # {} \/ s.queue = <<>> PROVE FetchNext(s) = s
  BY <1>1, FetchOneKeeps DEF FetchNext
<1>2. ASSUME s.active = {}, s.queue # <<>> PROVE BeginsGroup(FetchNext(s), s)
  <2>1. BeginsGroup(FetchOne(s), s)
    BY <1>2, FetchOneGroup
  <2>2. FetchOne(FetchOne(s)) = FetchOne(s)
    BY <2>1, FetchOneKeeps DEF BeginsGroup
  <2>. QED
    BY <2>1, <2>2 DEF FetchNext
<1>. QED
  BY <1>1, <1>2

LEMMA NotifyGroups ==
  ASSUME NEW s, Groups(s), NEW st \in SchedulerState
  PROVE  LET r == Notify(s, st)
         IN /\ Groups(r) /\ r.state = st /\ r.notes = Append(s.notes, st)
            /\ r.active = s.active /\ r.running = s.running /\ r.paused = s.paused
            /\ r.task = s.task /\ r.queue = s.queue /\ r.staging = s.staging
<1>. DEFINE r == Notify(s, st)
<1>1. s \in Schedulers /\ r \in Schedulers
  BY NotifyType DEF Groups
<1>2. /\ r.state = st /\ r.notes = Append(s.notes, st)
      /\ r.active = s.active /\ r.running = s.running /\ r.paused = s.paused
      /\ r.task = s.task /\ r.queue = s.queue /\ r.staging = s.staging
      /\ r.nav = s.nav /\ r.navint = s.navint /\ r.intr = s.intr /\ r.thrown = s.thrown
  BY <1>1 DEF Notify, Enter, Schedulers
<1>. HIDE DEF r
<1>3. Groups(r)
  BY <1>1, <1>2 DEF Groups
<1>. QED
  BY <1>2, <1>3 DEF r

LEMMA SubGroups ==
  ASSUME NEW s, Groups(s)
  PROVE  /\ s \in Schedulers /\ s.task \in [Action -> ActionState] /\ s.notes \in Seq(SchedulerState)
         /\ s.active \subseteq Action /\ s.running \subseteq s.active /\ s.paused \subseteq s.active
         /\ \A a \in s.active : a \in s.running \/ a \in s.paused
         /\ \A a \in s.active : ~(a \in s.running /\ a \in s.paused)
         /\ s.queue \in Seq(Group) /\ s.nav = NoTask
  BY DEF Groups, Schedulers

\* How an update of a scheduler that works on groups ends: it goes on, it begins its next
\* group, or it has none.
UpdatedActive(r, s) ==
  /\ Groups(r) /\ r.staging = s.staging
  /\ \/ Unended(s, s.active) # {} /\ r = Refresh(s)
     \/ BeginsGroup(r, Refresh(s))
     \/ /\ r.state = "idle" /\ r.notes = Append(s.notes, "idle")
        /\ r.active = {} /\ r.queue = <<>>

LEMMA UpdateActiveGroups ==
  ASSUME NEW s, Groups(s)
  PROVE  UpdatedActive(UpdateActive(s), s)
<1>. DEFINE s1 == Refresh(s)
            s2 == FetchNext(s1)
<1>1. /\ Groups(s1) /\ Steady(s1, s) /\ s1.staging = s.staging /\ s1.active = Unended(s, s.active)
  BY RefreshGroups
<1>. HIDE DEF s1
<1>2. /\ s1.active # {} \/ s1.queue = <<>> => s2 = s1
      /\ s1.active = {} /\ s1.queue # <<>> => BeginsGroup(s2, s1)
  BY <1>1, FetchGroups
<1>. HIDE DEF s2
<1>3. UpdateActive(s) = IF s2.active = {} /\ s2.nav \in NavTerminal \cup {NoTask}
                        THEN Notify(s2, "idle") ELSE s2
  BY <1>1 DEF UpdateActive, s1, s2, Groups
<1>4. CASE s1.active # {}
  BY <1>1, <1>2, <1>3, <1>4 DEF UpdatedActive, s1
<1>5. CASE s1.active = {} /\ s1.queue # <<>>
  BY <1>1, <1>2, <1>3, <1>5 DEF UpdatedActive, s1, BeginsGroup
<1>6. CASE s1.active = {} /\ s1.queue = <<>>
  <2>1. s2 = s1 /\ s1.nav = NoTask
    BY <1>1, <1>2, <1>6 DEF Groups
  <2>2. UpdateActive(s) = Notify(s1, "idle")
    BY <1>3, <1>6, <2>1
  <2>3. /\ Groups(Notify(s1, "idle")) /\ Notify(s1, "idle").state = "idle"
        /\ Notify(s1, "idle").notes = Append(s1.notes, "idle")
        /\ Notify(s1, "idle").active = {} /\ Notify(s1, "idle").queue = <<>>
        /\ Notify(s1, "idle").staging = s1.staging
    BY <1>1, <1>6, NotifyGroups DEF SchedulerState
  <2>. QED
    BY <1>1, <2>2, <2>3 DEF UpdatedActive, Steady
<1>. QED
  BY <1>4, <1>5, <1>6

\* A scheduler that has begun a group, and one whose running tasks go on, is active.
LEMMA ActiveIsBusy ==
  ASSUME NEW r, Groups(r), r.state = "active", r.active # {}, r.paused = {},
         AllIn(r, r.running, {"Initializing", "Running"})
  PROVE  Orderly(r)
  BY DEF Orderly, Busy

\* UpdateActive of an active scheduler with no task that pauses
LEMMA UpdateActiveOrderly ==
  ASSUME NEW s, Groups(s), s.state = "active",
         AllIn(s, s.active, {"Initializing", "Running", "Finished", "Failed"})
  PROVE  LET r == UpdateActive(s)
         IN /\ Orderly(r) /\ r.staging = s.staging
            /\ \/ r.state = "active" /\ r.notes = s.notes
               \/ r.state = "idle" /\ r.notes = Append(s.notes, "idle")
<1>. DEFINE r == UpdateActive(s)
            s1 == Refresh(s)
<1>1. UpdatedActive(r, s)
  BY UpdateActiveGroups
<1>2. /\ Groups(s1) /\ Steady(s1, s) /\ s1.active = Unended(s, s.active) /\ s1.task = s.task
      /\ s1.running = {a \in s1.active : s.task[a] \notin ActionPaused}
      /\ s1.paused = {a \in s1.active : s.task[a] \in ActionPaused}
  BY RefreshGroups
<1>. HIDE DEF r, s1
<1>3. CASE Unended(s, s.active) # {} /\ r = s1
  <2>1. r.state = "active" /\ r.notes = s.notes /\ r.active # {}
    BY <1>2, <1>3 DEF Steady
  <2>2. r.paused = {} /\ AllIn(r, r.running, {"Initializing", "Running"})
    BY <1>2, <1>3 DEF AllIn, Unended, ActionPaused, ActionTerminal
  <2>. QED
    BY <1>1, <2>1, <2>2, ActiveIsBusy DEF UpdatedActive, r
<1>4. CASE BeginsGroup(r, s1)
  <2>1. /\ r.state = "active" /\ r.notes = s.notes /\ r.active # {} /\ r.paused = {}
        /\ AllIn(r, r.running, {"Initializing", "Running"})
    BY <1>2, <1>4 DEF Steady, BeginsGroup, AllIn
  <2>. QED
    BY <1>1, <2>1, ActiveIsBusy DEF UpdatedActive, r
<1>5. CASE /\ r.state = "idle" /\ r.notes = Append(s.notes, "idle")
           /\ r.active = {} /\ r.queue = <<>>
  BY <1>1, <1>5 DEF UpdatedActive, Orderly, Busy, r
<1>. QED
  BY <1>1, <1>3, <1>4, <1>5 DEF UpdatedActive, s1

-------------------------------------------------------------------------------
(* Beginning a call *)

LEMMA BeginGroups ==
  ASSUME NEW s, Orderly(s)
  PROVE  LET r == Begin(s)
         IN /\ Orderly(r) /\ r.notes = <<>> /\ r.state = s.state /\ r.task = s.task
            /\ r.active = s.active /\ r.running = s.running /\ r.paused = s.paused
            /\ r.queue = s.queue /\ r.staging = s.staging
<1>. DEFINE r == Begin(s)
<1>1. s \in Schedulers /\ r \in Schedulers
  BY BeginType DEF Orderly, Groups
<1>2. /\ r.notes = <<>> /\ r.state = s.state /\ r.task = s.task /\ r.thrown = FALSE
      /\ r.active = s.active /\ r.running = s.running /\ r.paused = s.paused
      /\ r.queue = s.queue /\ r.staging = s.staging
      /\ r.nav = s.nav /\ r.navint = s.navint /\ r.intr = s.intr
  BY <1>1 DEF Begin, Schedulers
<1>. HIDE DEF r
<1>3. Groups(r)
  BY <1>1, <1>2 DEF Groups, Orderly
<1>4. Busy(r)
  BY <1>2 DEF Orderly, Busy, AllIn
<1>. QED
  BY <1>2, <1>3, <1>4 DEF r, Orderly

\* Nothing is done to a scheduler that is idle, and none of its tasks waits for the AGV.
\* What the AGV answers to, in each state of the scheduler
LEMMA AnsweredTasks ==
  ASSUME NEW s, Orderly(s), NEW a \in s.active, NEW t \in Answers[s.task[a]]
  PROVE  /\ s.state \in {"active", "pausing", "resuming", "canceling"}
         /\ s.state = "active" => s.task[a] \in {"Initializing", "Running"}
         /\ s.state = "pausing" => s.task[a] = "Pausing" /\ a \in s.running
         /\ s.state = "resuming" => s.task[a] \in {"Resuming", "Running"}
         /\ s.state = "canceling" => s.task[a] = "Canceling"
         /\ s.task[a] = "Initializing" => t \in {"is_running", "is_finished", "is_failed"}
         /\ s.task[a] = "Running" => t = "is_finished"
         /\ s.task[a] = "Pausing" => t \in {"is_paused", "is_failed"}
         /\ s.task[a] = "Resuming" => t = "is_running"
         /\ s.task[a] = "Canceling" => t = "is_failed"
<1>1. s.task[a] \in ActionState
  BY SubGroups DEF Orderly
<1>2. /\ Answers["Initializing"] = {"is_running", "is_finished", "is_failed"}
      /\ Answers["Running"] = {"is_finished"}
      /\ Answers["Pausing"] = {"is_paused", "is_failed"}
      /\ Answers["Resuming"] = {"is_running"}
      /\ Answers["Canceling"] = {"is_failed"}
      /\ Answers["Paused"] = {}
  BY DEF Answers, ActionState
<1>3. a \in s.running \/ a \in s.paused
  BY SubGroups DEF Orderly
<1>. QED
  BY <1>1, <1>2, <1>3 DEF Orderly, Busy, AllIn

Note(x) == Append(<<>>, x)
Note2(x, y) == Append(Note(x), y)

\* How a report of the AGV ends.
Reported(r, s) ==
  /\ Orderly(r)
  /\ \/ r.state = s.state /\ r.notes = <<>> /\ (s.state = "canceling" => r.active # {})
     \/ s.state \in {"active", "canceling"} /\ r.state = "idle" /\ r.notes = Note("idle")
     \/ s.state = "pausing" /\ r.state = "paused" /\ r.notes = Note("paused")
     \/ s.state = "resuming" /\ r.state = "active" /\ r.notes = Note("active")
     \/ s.state = "resuming" /\ r.state = "idle" /\ r.notes = Note2("active", "idle")

\* A task that reports has not been looked at by the scheduler yet.
LEMMA MovedTask ==
  ASSUME NEW s, Orderly(s), NEW a \in s.active, NEW t \in ActionReport
  PROVE  LET r == [Begin(s) EXCEPT !.task[a] = ActionTarget[t]]
         IN /\ Groups(r) /\ r.notes = <<>> /\ r.state = s.state
            /\ r.task = [s.task EXCEPT ![a] = ActionTarget[t]]
            /\ r.active = s.active /\ r.running = s.running /\ r.paused = s.paused
            /\ r.queue = s.queue /\ r.staging = s.staging
<1>. DEFINE b == Begin(s)
            r == [b EXCEPT !.task[a] = ActionTarget[t]]
<1>1. /\ Groups(b) /\ b \in Schedulers /\ b.notes = <<>> /\ b.state = s.state /\ b.task = s.task
      /\ b.active = s.active /\ b.running = s.running /\ b.paused = s.paused
      /\ b.queue = s.queue /\ b.staging = s.staging
  BY BeginGroups DEF Orderly, Groups
<1>2. a \in Action /\ ActionTarget[t] \in ActionState
  BY SubGroups, ActionTargetType DEF Orderly, ActionTransition
<1>. HIDE DEF b
<1>3. /\ r \in Schedulers /\ r.notes = <<>> /\ r.state = s.state
      /\ r.task = [s.task EXCEPT ![a] = ActionTarget[t]]
      /\ r.active = s.active /\ r.running = s.running /\ r.paused = s.paused
      /\ r.queue = s.queue /\ r.staging = s.staging
      /\ r.nav = b.nav /\ r.navint = b.navint /\ r.intr = b.intr /\ r.thrown = b.thrown
  BY <1>1, <1>2 DEF Schedulers
<1>. HIDE DEF r
<1>4. Groups(r)
  BY <1>1, <1>3 DEF Groups
<1>. QED
  BY <1>3, <1>4 DEF r, b

LEMMA ReportTargets ==
  /\ ActionTarget["is_running"] = "Running" /\ ActionTarget["is_paused"] = "Paused"
  /\ ActionTarget["is_failed"] = "Failed" /\ ActionTarget["is_finished"] = "Finished"
  /\ ActionTarget["do_pause"] = "Pausing" /\ ActionTarget["do_resume"] = "Resuming"
  /\ ActionTarget["do_cancel"] = "Canceling"
  BY DEF ActionTarget, ActionTransition, ActionReport

LEMMA UpdateOfState ==
  ASSUME NEW s
  PROVE  /\ s.state = "idle" => Update(s) = UpdateIdle(s)
         /\ s.state = "idle_paused" => Update(s) = s
         /\ s.state = "active" => Update(s) = UpdateActive(s)
         /\ s.state = "canceling" => Update(s) = UpdateCanceling(s)
         /\ s.state = "resuming" => Update(s) = UpdateResuming(s)
         /\ s.state = "pausing" => Update(s) = UpdatePausing(s)
         /\ s.state = "paused" => Update(s) = Refresh(s)
  BY DEF Update

LEMMA UpdateCancelingGroups ==
  ASSUME NEW s, Groups(s), s.state = "canceling", s.queue = <<>>,
         AllIn(s, s.active, {"Canceling", "Failed"})
  PROVE  LET r == UpdateCanceling(s)
         IN /\ Orderly(r) /\ r.staging = s.staging
            /\ \/ r.state = "canceling" /\ r.notes = s.notes /\ r.active # {}
               \/ r.state = "idle" /\ r.notes = Append(s.notes, "idle")
<1>. DEFINE r == UpdateCanceling(s)
            s1 == Refresh(s)
<1>1. /\ Groups(s1) /\ Steady(s1, s) /\ s1.active = Unended(s, s.active) /\ s1.task = s.task
      /\ s1.queue = <<>> /\ s1.staging = s.staging
  BY RefreshGroups
<1>. HIDE DEF s1
<1>2. FetchNext(s1) = s1 /\ s1.nav = NoTask /\ ~s1.thrown
  BY <1>1, FetchGroups DEF Groups
<1>3. r = IF s1.active = {} THEN Notify(s1, "idle") ELSE s1
  BY <1>2 DEF UpdateCanceling, s1
<1>. HIDE DEF r
<1>4. CASE s1.active # {}
  <2>1. s1.queue = <<>> /\ AllIn(s1, s1.active, {"Canceling"}) /\ s1.state = "canceling"
    BY <1>1 DEF AllIn, Unended, ActionTerminal, Steady
  <2>2. Orderly(s1)
    BY <1>1, <2>1 DEF Orderly, Busy
  <2>. QED
    BY <1>1, <1>3, <1>4, <2>2 DEF Steady, r
<1>5. CASE s1.active = {}
  <2>1. /\ Groups(r) /\ r.state = "idle" /\ r.notes = Append(s1.notes, "idle")
        /\ r.active = {} /\ r.queue = <<>> /\ r.staging = s.staging
    BY <1>1, <1>3, <1>5, NotifyGroups DEF SchedulerState
  <2>. QED
    BY <1>1, <2>1 DEF Orderly, Busy, Steady, r
<1>. QED
  BY <1>4, <1>5

LEMMA UpdatePausingGroups ==
  ASSUME NEW s, Groups(s), s.state = "pausing",
         AllIn(s, s.running, {"Pausing", "Paused", "Failed"}), AllIn(s, s.paused, {"Paused"})
  PROVE  LET r == UpdatePausing(s)
         IN /\ Orderly(r) /\ r.staging = s.staging
            /\ \/ r.state = "pausing" /\ r.notes = s.notes
               \/ r.state = "paused" /\ r.notes = Append(s.notes, "paused")
<1>. DEFINE r == UpdatePausing(s)
            s1 == Refresh(s)
<1>1. /\ Groups(s1) /\ Steady(s1, s) /\ s1.active = Unended(s, s.active) /\ s1.task = s.task
      /\ s1.staging = s.staging
      /\ s1.running = {a \in s1.active : s.task[a] \notin ActionPaused}
      /\ s1.paused = {a \in s1.active : s.task[a] \in ActionPaused}
  BY RefreshGroups
<1>. HIDE DEF s1
<1>2. s1.nav = NoTask /\ ~s1.thrown
  BY <1>1 DEF Groups
<1>3. r = IF s1.running # {} THEN s1 ELSE Notify(s1, "paused")
  BY <1>2 DEF UpdatePausing, s1
<1>4. AllIn(s, s.active, {"Pausing", "Paused", "Failed"})
  BY SubGroups DEF AllIn
<1>5. AllIn(s1, s1.running, {"Pausing"}) /\ AllIn(s1, s1.paused, {"Paused"})
  BY <1>1, <1>4 DEF AllIn, Unended, ActionTerminal, ActionPaused
<1>. HIDE DEF r
<1>6. CASE s1.running # {}
  BY <1>1, <1>3, <1>5, <1>6 DEF Orderly, Busy, Steady, r
<1>7. CASE s1.running = {}
  <2>1. /\ Groups(r) /\ r.state = "paused" /\ r.notes = Append(s1.notes, "paused")
        /\ r.running = {} /\ r.paused = s1.paused /\ r.task = s1.task /\ r.staging = s.staging
    BY <1>1, <1>3, <1>7, NotifyGroups DEF SchedulerState
  <2>. QED
    BY <1>1, <1>5, <2>1 DEF Orderly, Busy, Steady, AllIn, r
<1>. QED
  BY <1>6, <1>7

\* With UpdateResuming the scheduler may begin its next group, or have none.
LEMMA UpdateResumingGroups ==
  ASSUME NEW s, Groups(s), s.state = "resuming",
         AllIn(s, s.active, {"Resuming", "Running", "Finished"})
  PROVE  LET r == UpdateResuming(s)
         IN /\ Orderly(r) /\ r.staging = s.staging
            /\ \/ r.state = "resuming" /\ r.notes = s.notes
               \/ r.state = "active" /\ r.notes = Append(s.notes, "active")
               \/ r.state = "idle" /\ r.notes = Append(Append(s.notes, "active"), "idle")
<1>. DEFINE r == UpdateResuming(s)
            s1 == Refresh(s)
            s2 == Notify(s1, "active")
<1>1. /\ Groups(s1) /\ Steady(s1, s) /\ s1.active = Unended(s, s.active) /\ s1.task = s.task
      /\ s1.staging = s.staging
      /\ s1.running = {a \in s1.active : s.task[a] \notin ActionPaused}
      /\ s1.paused = {a \in s1.active : s.task[a] \in ActionPaused}
  BY RefreshGroups
<1>. HIDE DEF s1
<1>2. s1.nav = NoTask /\ NoTask \notin NavPaused /\ ~s1.thrown
  BY <1>1 DEF Groups, NoTask, NavPaused
<1>3. r = IF s1.paused # {} THEN s1 ELSE UpdateActive(s2)
  BY <1>2 DEF UpdateResuming, s1
<1>4. AllIn(s1, s1.running, {"Running"}) /\ AllIn(s1, s1.paused, {"Resuming"})
  BY <1>1 DEF AllIn, Unended, ActionTerminal, ActionPaused
<1>. HIDE DEF r
<1>5. CASE s1.paused # {}
  BY <1>1, <1>3, <1>4, <1>5 DEF Orderly, Busy, Steady, r
<1>6. CASE s1.paused = {}
  <2>1. /\ Groups(s2) /\ s2.state = "active" /\ s2.notes = Append(s1.notes, "active")
        /\ s2.active = s1.active /\ s2.task = s1.task /\ s2.staging = s.staging
    BY <1>1, NotifyGroups DEF SchedulerState
  <2>. HIDE DEF s2
  <2>2. AllIn(s2, s2.active, {"Initializing", "Running", "Finished", "Failed"})
    <3>1. s1.active = s1.running
      BY <1>1, <1>6 DEF Groups
    <3>. QED
      BY <1>4, <2>1, <3>1 DEF AllIn
  <2>. QED
    BY <1>1, <1>3, <1>6, <2>1, <2>2, UpdateActiveOrderly DEF Steady, r
<1>. QED
  BY <1>5, <1>6

LEMMA ReportOrderly ==
  ASSUME NEW s, Orderly(s), NEW a \in s.active, NEW t \in Answers[s.task[a]]
  PROVE  LET r == ReportAction(Begin(s), a, t) IN Reported(r, s) /\ r.staging = s.staging
<1>. DEFINE b == Begin(s)
            m == [b EXCEPT !.task[a] = ActionTarget[t]]
            r == ReportAction(b, a, t)
<1>1. /\ s.state \in {"active", "pausing", "resuming", "canceling"}
      /\ s.state = "active" => s.task[a] \in {"Initializing", "Running"}
      /\ s.state = "pausing" => s.task[a] = "Pausing" /\ a \in s.running
      /\ s.state = "resuming" => s.task[a] \in {"Resuming", "Running"}
      /\ s.state = "canceling" => s.task[a] = "Canceling"
      /\ s.task[a] = "Initializing" => t \in {"is_running", "is_finished", "is_failed"}
      /\ s.task[a] = "Running" => t = "is_finished"
      /\ s.task[a] = "Pausing" => t \in {"is_paused", "is_failed"}
      /\ s.task[a] = "Resuming" => t = "is_running"
      /\ s.task[a] = "Canceling" => t = "is_failed"
  BY AnsweredTasks
<1>2. t \in ActionReport
  BY <1>1 DEF ActionReport
<1>3. t \in ActionAccepts[s.task[a]]
  BY <1>1 DEF ActionAccepts
<1>4. b.active = s.active /\ b.task = s.task
  BY BeginGroups
<1>5. r = Update(m)
  BY <1>3, <1>4 DEF ReportAction
<1>6. /\ Groups(m) /\ m.notes = <<>> /\ m.state = s.state
      /\ m.task = [s.task EXCEPT ![a] = ActionTarget[t]]
      /\ m.active = s.active /\ m.running = s.running /\ m.paused = s.paused
      /\ m.queue = s.queue /\ m.staging = s.staging
  BY <1>2, MovedTask
<1>7. /\ a \in Action /\ s.task \in [Action -> ActionState] /\ s.active \subseteq Action
      /\ \A d \in s.active : d \in s.running \/ d \in s.paused
      /\ s.running \subseteq s.active /\ s.paused \subseteq s.active
      /\ \A d \in s.active : ~(d \in s.running /\ d \in s.paused)
  BY SubGroups DEF Orderly
<1>8. \A d \in Action : m.task[d] = IF d = a THEN ActionTarget[t] ELSE s.task[d]
  BY <1>6, <1>7
<1>. HIDE DEF m, r, b
<1>9. CASE s.state = "active"
  <2>1. AllIn(m, m.active, {"Initializing", "Running", "Finished", "Failed"})
    BY <1>1, <1>6, <1>7, <1>8, <1>9, ReportTargets DEF Orderly, Busy, AllIn
  <2>. QED
    BY <1>5, <1>6, <1>9, <2>1, UpdateOfState, UpdateActiveOrderly DEF Reported, Note, r, b
<1>10. CASE s.state = "pausing"
  <2>1. AllIn(m, m.running, {"Pausing", "Paused", "Failed"}) /\ AllIn(m, m.paused, {"Paused"})
    BY <1>1, <1>6, <1>7, <1>8, <1>10, ReportTargets DEF Orderly, Busy, AllIn
  <2>. QED
    BY <1>5, <1>6, <1>10, <2>1, UpdateOfState, UpdatePausingGroups DEF Reported, Note, r, b
<1>11. CASE s.state = "resuming"
  <2>1. AllIn(m, m.active, {"Resuming", "Running", "Finished"})
    BY <1>1, <1>6, <1>7, <1>8, <1>11, ReportTargets DEF Orderly, Busy, AllIn
  <2>. QED
    BY <1>5, <1>6, <1>11, <2>1, UpdateOfState, UpdateResumingGroups DEF Reported, Note, Note2, r, b
<1>12. CASE s.state = "canceling"
  <2>1. AllIn(m, m.active, {"Canceling", "Failed"}) /\ m.queue = <<>>
    BY <1>1, <1>6, <1>7, <1>8, <1>12, ReportTargets DEF Orderly, Busy, AllIn
  <2>. QED
    BY <1>5, <1>6, <1>12, <2>1, UpdateOfState, UpdateCancelingGroups DEF Reported, Note, r, b
<1>. QED
  BY <1>1, <1>9, <1>10, <1>11, <1>12

Note3(x, y, z) == Append(Note2(x, y), z)

\* Tasks that accept a transition all make it.
LEMMA MoveGroups ==
  ASSUME NEW s, Groups(s), NEW S \in SUBSET s.active, NEW t \in {"do_pause", "do_resume", "do_cancel"},
         \A a \in S : t \in ActionAccepts[s.task[a]]
  PROVE  LET r == MoveActions(s, S, t)
         IN /\ Groups(r) /\ r.state = s.state /\ r.notes = s.notes
            /\ r.active = s.active /\ r.running = s.running /\ r.paused = s.paused
            /\ r.queue = s.queue /\ r.staging = s.staging
            /\ \A a \in s.active : r.task[a] = IF a \in S THEN ActionTarget[t] ELSE s.task[a]
<1>. DEFINE r == MoveActions(s, S, t)
            refusing == {a \in S : t \notin ActionAccepts[s.task[a]]}
            moved    == {a \in S : \A x \in refusing : IdRank[a] < IdRank[x]}
            task     == [a \in Action |-> IF a \in moved THEN ActionTarget[t] ELSE s.task[a]]
<1>1. s \in Schedulers /\ s.active \subseteq Action
  BY SubGroups
<1>2. refusing = {}
  OBVIOUS
<1>3. moved = S
  BY <1>2
<1>4. r = [s EXCEPT !.task = task, !.thrown = @ \/ refusing # {}]
  BY <1>1 DEF MoveActions, Schedulers
<1>5. r \in Schedulers
  BY <1>1, MoveActionsType DEF ActionTransition
<1>. HIDE DEF r, refusing, moved, task
<1>6. ~s.thrown
  BY DEF Groups
<1>7. /\ r.state = s.state /\ r.notes = s.notes /\ ~r.thrown
      /\ r.active = s.active /\ r.running = s.running /\ r.paused = s.paused
      /\ r.queue = s.queue /\ r.staging = s.staging
      /\ r.nav = s.nav /\ r.navint = s.navint /\ r.intr = s.intr
      /\ r.task = task
  BY <1>1, <1>2, <1>4, <1>6 DEF Schedulers
<1>8. Groups(r)
  BY <1>5, <1>7 DEF Groups
<1>9. \A a \in s.active : r.task[a] = IF a \in S THEN ActionTarget[t] ELSE s.task[a]
  BY <1>1, <1>3, <1>7 DEF task
<1>. QED
  BY <1>7, <1>8, <1>9 DEF r

LEMMA EnqueueOrderly ==
  ASSUME NEW s, Orderly(s), NEW e \in Group
  PROVE  LET r == Enqueue(Begin(s), e)
         IN Orderly(r) /\ r.notes = <<>> /\ r.state = s.state /\ r.active = s.active
<1>. DEFINE b == Begin(s)
            st == Append(b.staging, e)
            r == [b EXCEPT !.staging = st]
<1>1. /\ Orderly(b) /\ b \in Schedulers /\ b.notes = <<>> /\ b.state = s.state /\ b.active = s.active
      /\ b.staging \in Seq(Group)
  BY BeginGroups DEF Orderly, Groups
<1>2. st \in Seq(Group) /\ st \in Seq(Yield)
  BY <1>1 DEF Yield
<1>3. r = Enqueue(b, e)
  BY DEF Enqueue
<1>. HIDE DEF b, st
<1>4. /\ r \in Schedulers /\ r.notes = <<>> /\ r.state = b.state /\ r.task = b.task
      /\ r.active = b.active /\ r.running = b.running /\ r.paused = b.paused
      /\ r.queue = b.queue /\ r.staging = st /\ r.thrown = b.thrown
      /\ r.nav = b.nav /\ r.navint = b.navint /\ r.intr = b.intr
  BY <1>1, <1>2 DEF Schedulers
<1>. HIDE DEF r
<1>5. Groups(r)
  BY <1>1, <1>2, <1>4 DEF Groups, Orderly
<1>6. Busy(r)
  BY <1>1, <1>4 DEF Orderly, Busy, AllIn
<1>. QED
  BY <1>1, <1>3, <1>4, <1>5, <1>6 DEF Orderly, b

\* A scheduler of groups that is idle begins one if there is one.
LEMMA UpdateIdleGroups ==
  ASSUME NEW s, Groups(s), s.state = "idle", s.active = {}
  PROVE  LET r == UpdateIdle(s)
         IN /\ Orderly(r)
            /\ \/ r.state = "idle" /\ r.notes = s.notes
               \/ r.state = "active" /\ r.notes = Append(s.notes, "active")
<1>. DEFINE r == UpdateIdle(s)
            s1 == FetchNext(s)
<1>1. /\ s.queue = <<>> => s1 = s
      /\ s.queue # <<>> => BeginsGroup(s1, s)
  BY FetchGroups
<1>. HIDE DEF s1
<1>2. r = IF s1.nav # NoTask \/ s1.active # {} THEN Notify(s1, "active") ELSE Enter(s1, "idle")
  BY DEF UpdateIdle, s1
<1>. HIDE DEF r
<1>3. CASE s.queue = <<>>
  <2>1. r = Enter(s, "idle") /\ s \in Schedulers
    BY <1>1, <1>2, <1>3 DEF Groups
  <2>2. r \in Schedulers
    BY <2>1, EnterType DEF SchedulerState
  <2>3. /\ r.notes = s.notes /\ r.state = s.state /\ r.task = s.task
        /\ r.active = s.active /\ r.running = s.running /\ r.paused = s.paused
        /\ r.queue = s.queue /\ r.staging = s.staging /\ r.thrown = s.thrown
        /\ r.nav = s.nav /\ r.navint = s.navint /\ r.intr = s.intr
    BY <2>1 DEF Enter, Schedulers
  <2>4. Groups(r)
    BY <2>2, <2>3 DEF Groups
  <2>. QED
    BY <1>3, <2>3, <2>4 DEF Orderly, Busy, r
<1>4. CASE s.queue # <<>>
  <2>1. BeginsGroup(s1, s) /\ Groups(s1) /\ r = Notify(s1, "active")
    BY <1>1, <1>2, <1>4 DEF BeginsGroup
  <2>2. /\ Groups(r) /\ r.state = "active" /\ r.notes = Append(s1.notes, "active")
        /\ r.active = s1.active /\ r.running = s1.running /\ r.paused = s1.paused /\ r.task = s1.task
    BY <2>1, NotifyGroups DEF SchedulerState
  <2>3. Orderly(r)
    BY <2>1, <2>2, ActiveIsBusy DEF BeginsGroup, AllIn
  <2>. QED
    BY <2>1, <2>2, <2>3 DEF BeginsGroup, Steady, r
<1>. QED
  BY <1>3, <1>4

LEMMA CommitOrderly ==
  ASSUME NEW s, Orderly(s), s.state \in {"idle", "idle_paused"}
  PROVE  LET r == CommitQueue(Begin(s))
         IN /\ Orderly(r)
            /\ \/ r.state = s.state /\ r.notes = <<>>
               \/ s.state = "idle" /\ r.state = "active" /\ r.notes = Note("active")
<1>. DEFINE b == Begin(s)
            joined == b.queue \o b.staging
            c == [b EXCEPT !.queue = joined, !.staging = <<>>]
<1>1. /\ Groups(b) /\ b \in Schedulers /\ b.notes = <<>> /\ b.state = s.state /\ b.active = s.active
      /\ b.staging \in Seq(Group) /\ b.queue \in Seq(Group)
  BY BeginGroups DEF Orderly, Groups
<1>2. joined \in Seq(Group) /\ joined \in Seq(Yield) /\ <<>> \in Seq(Yield) /\ <<>> \in Seq(Group)
  <2>1. joined \in Seq(Group)
    BY <1>1
  <2>2. joined \in Seq(Yield)
    BY <2>1 DEF Yield
  <2>. QED
    BY <2>1, <2>2
<1>3. CommitQueue(b) = Update(c)
  BY DEF CommitQueue
<1>. HIDE DEF b, joined
<1>4. /\ c \in Schedulers /\ c.notes = <<>> /\ c.state = b.state /\ c.task = b.task
      /\ c.active = b.active /\ c.running = b.running /\ c.paused = b.paused
      /\ c.queue = joined /\ c.staging = <<>> /\ c.thrown = b.thrown
      /\ c.nav = b.nav /\ c.navint = b.navint /\ c.intr = b.intr
  BY <1>1, <1>2 DEF Schedulers
<1>. HIDE DEF c
<1>5. Groups(c) /\ c.active = {}
  BY <1>1, <1>2, <1>4 DEF Groups, Orderly, Busy
<1>6. CASE s.state = "idle"
  BY <1>1, <1>3, <1>4, <1>5, <1>6, UpdateOfState, UpdateIdleGroups DEF Note, b
<1>7. CASE s.state = "idle_paused"
  <2>1. Orderly(c)
    BY <1>1, <1>4, <1>5, <1>7 DEF Orderly, Busy
  <2>. QED
    BY <1>1, <1>3, <1>4, <1>7, <2>1, UpdateOfState DEF b
<1>. QED
  BY <1>6, <1>7

-------------------------------------------------------------------------------
(* The commands *)

LEMMA PauseOrderly ==
  ASSUME NEW s, Orderly(s), s.state \in {"active", "idle"}
  PROVE  LET r == Pause(Begin(s))
         IN /\ Orderly(r)
            /\ \/ r.state = "idle_paused" /\ r.notes = Note("idle_paused")
               \/ r.state = "pausing" /\ r.notes = Note("pausing")
<1>. DEFINE b == Begin(s)
            m == MoveActions(b, b.running, "do_pause")
<1>1. /\ Orderly(b) /\ Groups(b) /\ b.notes = <<>> /\ b.state = s.state
  BY BeginGroups DEF Orderly
<1>. HIDE DEF b
<1>2. CASE s.state = "idle"
  <2>1. /\ Groups(Notify(b, "idle_paused")) /\ Notify(b, "idle_paused").state = "idle_paused"
        /\ Notify(b, "idle_paused").notes = Append(b.notes, "idle_paused")
        /\ Notify(b, "idle_paused").active = b.active
    BY <1>1, NotifyGroups DEF SchedulerState
  <2>2. Orderly(Notify(b, "idle_paused"))
    BY <1>1, <1>2, <2>1 DEF Orderly, Busy
  <2>3. Pause(b) = Notify(b, "idle_paused")
    BY <1>1, <1>2 DEF Pause
  <2>. QED
    BY <1>1, <2>1, <2>2, <2>3 DEF Note, b
<1>3. CASE s.state = "active"
  <2>1. b.active # {} /\ b.paused = {} /\ AllIn(b, b.running, {"Initializing", "Running"})
    BY <1>1, <1>3 DEF Orderly, Busy
  <2>2. \A a \in b.running : "do_pause" \in ActionAccepts[b.task[a]]
    BY <2>1 DEF AllIn, ActionAccepts
  <2>3. b.running = b.active
    BY <1>1, <2>1 DEF Groups
  <2>4. /\ Groups(m) /\ m.state = b.state /\ m.notes = b.notes
        /\ m.active = b.active /\ m.running = b.running /\ m.paused = b.paused
        /\ \A a \in b.active : m.task[a] = "Pausing"
    BY <1>1, <2>2, <2>3, MoveGroups, ReportTargets
  <2>. HIDE DEF m
  <2>5. b.nav = NoTask /\ ~m.thrown
    BY <1>1, <2>4 DEF Groups
  <2>6. Pause(b) = Notify(m, "pausing")
    BY <1>1, <1>3, <2>5 DEF Pause, PauseActive, m
  <2>7. /\ Groups(Notify(m, "pausing")) /\ Notify(m, "pausing").state = "pausing"
        /\ Notify(m, "pausing").notes = Append(m.notes, "pausing")
        /\ Notify(m, "pausing").running = m.running
        /\ Notify(m, "pausing").paused = m.paused /\ Notify(m, "pausing").task = m.task
    BY <2>4, NotifyGroups DEF SchedulerState
  <2>8. Orderly(Notify(m, "pausing"))
    BY <2>1, <2>3, <2>4, <2>7 DEF Orderly, Busy, AllIn
  <2>. QED
    BY <1>1, <2>4, <2>6, <2>7, <2>8 DEF Note, b
<1>. QED
  BY <1>2, <1>3

LEMMA ResumeOrderly ==
  ASSUME NEW s, Orderly(s), s.state \in {"idle_paused", "paused"}
  PROVE  LET r == Resume(Begin(s))
         IN /\ Orderly(r)
            /\ \/ r.state = "idle" /\ r.notes = Note("idle")
               \/ r.state = "active" /\ r.notes = Note2("idle", "active")
               \/ r.state = "resuming" /\ r.notes = Note("resuming")
               \/ r.state = "active" /\ r.notes = Note2("resuming", "active")
               \/ r.state = "idle" /\ r.notes = Note3("resuming", "active", "idle")
<1>. DEFINE b == Begin(s)
            m == MoveActions(b, b.paused, "do_resume")
            i == Notify(b, "idle")
            k == Notify(m, "resuming")
<1>1. /\ Orderly(b) /\ Groups(b) /\ b.notes = <<>> /\ b.state = s.state
  BY BeginGroups DEF Orderly
<1>. HIDE DEF b
<1>2. CASE s.state = "idle_paused"
  <2>1. /\ Groups(i) /\ i.state = "idle" /\ i.notes = Append(b.notes, "idle") /\ i.active = b.active
    BY <1>1, NotifyGroups DEF SchedulerState
  <2>2. Resume(b) = Update(i)
    BY <1>1, <1>2 DEF Resume
  <2>. HIDE DEF i
  <2>3. i.active = {}
    BY <1>1, <1>2, <2>1 DEF Orderly, Busy
  <2>. QED
    BY <1>1, <2>1, <2>2, <2>3, UpdateOfState, UpdateIdleGroups DEF Note, Note2, b
<1>3. CASE s.state = "paused"
  <2>1. b.running = {} /\ AllIn(b, b.paused, {"Paused"}) /\ b.active = b.paused
    BY <1>1, <1>3 DEF Orderly, Busy, Groups
  <2>2. \A a \in b.paused : "do_resume" \in ActionAccepts[b.task[a]]
    BY <2>1 DEF AllIn, ActionAccepts
  <2>4. /\ Groups(m) /\ m.state = b.state /\ m.notes = b.notes
        /\ m.active = b.active /\ m.running = b.running /\ m.paused = b.paused
        /\ \A a \in b.active : m.task[a] = "Resuming"
    BY <1>1, <2>1, <2>2, MoveGroups, ReportTargets
  <2>. HIDE DEF m
  <2>5. b.nav = NoTask /\ ~m.thrown
    BY <1>1, <2>4 DEF Groups
  <2>6. Resume(b) = Update(k)
    BY <1>1, <1>3, <2>5 DEF Resume, ResumePaused, m
  <2>7. /\ Groups(k) /\ k.state = "resuming" /\ k.notes = Append(m.notes, "resuming")
        /\ k.active = m.active /\ k.task = m.task
    BY <2>4, NotifyGroups DEF SchedulerState
  <2>. HIDE DEF k
  <2>8. AllIn(k, k.active, {"Resuming", "Running", "Finished"})
    BY <2>4, <2>7 DEF AllIn
  <2>. DEFINE u == UpdateResuming(k)
  <2>9. /\ Orderly(u)
        /\ \/ u.state = "resuming" /\ u.notes = k.notes
           \/ u.state = "active" /\ u.notes = Append(k.notes, "active")
           \/ u.state = "idle" /\ u.notes = Append(Append(k.notes, "active"), "idle")
    BY <2>7, <2>8, UpdateResumingGroups
  <2>10. Resume(b) = u
    BY <2>6, <2>7, UpdateOfState
  <2>. HIDE DEF u
  <2>. QED
    BY <1>1, <2>4, <2>7, <2>9, <2>10 DEF Note, Note2, Note3, b
<1>. QED
  BY <1>2, <1>3

\* Nothing of a queue of groups is kept for the drive to the end of the segment.
LEMMA ClearGroups ==
  ASSUME NEW s, Groups(s), NEW keepNav \in BOOLEAN
  PROVE  LET r == ClearQueues(s, keepNav)
         IN /\ Groups(r) /\ r.state = s.state /\ r.notes = s.notes /\ r.task = s.task
            /\ r.active = s.active /\ r.running = s.running /\ r.paused = s.paused
            /\ r.queue = <<>>
<1>. DEFINE q == IF keepNav THEN Chosen(s.queue, FreeSteps(s.queue)) ELSE <<>>
            r == [s EXCEPT !.queue = q, !.intr = <<>>]
<1>1. s \in Schedulers /\ s.queue \in Seq(Group)
  BY DEF Groups
<1>2. FreeSteps(s.queue) = {}
  <2>1. \A j \in DOMAIN s.queue : s.queue[j] \in Group
    BY <1>1
  <2>2. \A j \in DOMAIN s.queue : ~IsStep(s.queue[j])
    BY <2>1 DEF Group, IsStep
  <2>. QED
    BY <2>2 DEF FreeSteps
<1>3. Chosen(s.queue, {}) = <<>>
  <2>1. PICK upto : Chosen(s.queue, {}) = upto[Len(s.queue)] /\ Chooses(upto, s.queue, {})
    BY <1>1, ChosenSteps
  <2>. DEFINE Empty == {i \in Nat : i <= Len(s.queue) => upto[i] = <<>>}
  <2>2. 0 \in Empty
    BY <2>1 DEF Chooses
  <2>3. ASSUME NEW i \in Empty PROVE i + 1 \in Empty
    BY <1>1, <2>1, <2>3 DEF Chooses
  <2>4. Empty = Nat
    <3>1. Empty \in SUBSET Nat
      OBVIOUS
    <3>. HIDE DEF Empty
    <3>. QED
      BY <2>2, <2>3, <3>1, NatSetInduction
  <2>5. Len(s.queue) \in Nat
    BY <1>1
  <2>. QED
    BY <2>1, <2>4, <2>5
<1>4. q = <<>>
  BY <1>2, <1>3
<1>5. ClearQueues(s, keepNav) = r
  BY DEF ClearQueues
<1>6. r \in Schedulers
  BY <1>1, <1>5, ClearQueuesType
<1>. HIDE DEF q
<1>7. /\ r.notes = s.notes /\ r.state = s.state /\ r.task = s.task
      /\ r.active = s.active /\ r.running = s.running /\ r.paused = s.paused
      /\ r.queue = q /\ r.staging = s.staging /\ r.thrown = s.thrown
      /\ r.nav = s.nav /\ r.navint = s.navint /\ r.intr = <<>>
  BY <1>1 DEF Schedulers
<1>. HIDE DEF r
<1>8. Groups(r)
  BY <1>4, <1>6, <1>7, EmptySeqType DEF Groups
<1>. QED
  BY <1>4, <1>5, <1>7, <1>8

LEMMA CancelOrderly ==
  ASSUME NEW s, Orderly(s), s.state \in {"idle_paused", "active", "idle", "paused"}
  PROVE  LET r == Cancel(Begin(s))
         IN /\ Orderly(r)
            /\ \/ s.state = "idle" /\ r.state = "idle" /\ r.notes = Note("idle")
               \/ s.state = "idle_paused" /\ r.state = "idle_paused" /\ r.notes = <<>>
               \/ /\ s.state \in {"active", "paused"} /\ r.state = "canceling"
                  /\ r.notes = Note("canceling") /\ r.active = s.active
<1>. DEFINE b == Begin(s)
<1>1. /\ Orderly(b) /\ Groups(b) /\ b.notes = <<>> /\ b.state = s.state /\ b.active = s.active
  BY BeginGroups DEF Orderly
<1>. HIDE DEF b
<1>2. CASE s.state = "idle"
  <2>. DEFINE c == Enter(b, "canceling")
  <2>1. Cancel(b) = Update(c)
    BY <1>1, <1>2 DEF Cancel
  <2>2. b \in Schedulers /\ c \in Schedulers
    BY <1>1, EnterType DEF Groups, SchedulerState
  <2>3. /\ c.notes = b.notes /\ c.state = "canceling" /\ c.task = b.task
        /\ c.active = b.active /\ c.running = b.running /\ c.paused = b.paused
        /\ c.queue = b.queue /\ c.staging = b.staging /\ c.thrown = b.thrown
        /\ c.nav = b.nav /\ c.navint = b.navint /\ c.intr = b.intr
    BY <2>2 DEF Enter, Schedulers
  <2>. HIDE DEF c
  <2>4. Groups(c)
    BY <1>1, <2>2, <2>3 DEF Groups
  <2>5. c.active = {} /\ c.queue = <<>>
    BY <1>1, <1>2, <2>3 DEF Orderly, Busy
  <2>6. Refresh(c).active = {} /\ Refresh(c).queue = <<>> /\ Groups(Refresh(c)) /\ Steady(Refresh(c), c)
    BY <2>4, <2>5, RefreshGroups DEF Unended
  <2>7. FetchNext(Refresh(c)) = Refresh(c) /\ Refresh(c).nav = NoTask /\ ~Refresh(c).thrown
    BY <2>6, FetchGroups DEF Groups
  <2>8. UpdateCanceling(c) = Notify(Refresh(c), "idle")
    BY <2>6, <2>7 DEF UpdateCanceling
  <2>. DEFINE r == Notify(Refresh(c), "idle")
  <2>9. /\ Groups(r) /\ r.state = "idle" /\ r.notes = Append(Refresh(c).notes, "idle")
        /\ r.active = {} /\ r.queue = <<>>
    BY <2>6, NotifyGroups DEF SchedulerState
  <2>10. Cancel(b) = r
    BY <2>1, <2>3, <2>8, UpdateOfState
  <2>. HIDE DEF r
  <2>11. Orderly(r)
    BY <2>9 DEF Orderly, Busy
  <2>. QED
    BY <1>1, <1>2, <2>3, <2>6, <2>9, <2>10, <2>11 DEF Note, Steady, b
<1>3. CASE s.state = "idle_paused"
  <2>. DEFINE r == ClearQueues(b, FALSE)
  <2>1. Cancel(b) = r
    BY <1>1, <1>3 DEF Cancel
  <2>2. Groups(r) /\ r.state = b.state /\ r.notes = b.notes /\ r.active = b.active
    BY <1>1, ClearGroups
  <2>. HIDE DEF r
  <2>3. Orderly(r)
    BY <1>1, <1>3, <2>2 DEF Orderly, Busy
  <2>. QED
    BY <1>1, <1>3, <2>1, <2>2, <2>3 DEF b
<1>4. CASE s.state \in {"active", "paused"}
  <2>. DEFINE m == MoveActions(b, b.active, "do_cancel")
              e == ClearQueues(m, TRUE)
              r == Notify(e, "canceling")
  <2>1. Cancel(b) = CancelActive(b)
    BY <1>1, <1>4 DEF Cancel
  <2>2. \A a \in b.active : b.task[a] \in {"Initializing", "Running", "Paused"}
    BY <1>1, <1>4 DEF Orderly, Busy, AllIn, Groups
  <2>3. \A a \in b.active : "do_cancel" \in ActionAccepts[b.task[a]]
    BY <2>2 DEF ActionAccepts
  <2>4. /\ Groups(m) /\ m.state = b.state /\ m.notes = b.notes /\ m.active = b.active
        /\ \A a \in b.active : m.task[a] = "Canceling"
    BY <1>1, <2>3, MoveGroups, ReportTargets
  <2>. HIDE DEF m
  <2>5. /\ Groups(e) /\ e.state = m.state /\ e.notes = m.notes /\ e.active = m.active
        /\ e.task = m.task /\ e.queue = <<>>
    BY <2>4, ClearGroups
  <2>6. ~m.thrown /\ b.nav = NoTask
    BY <1>1, <2>4 DEF Groups
  <2>7. CancelActive(b) = r
    BY <2>6 DEF CancelActive, m
  <2>. HIDE DEF e
  <2>8. /\ Groups(r) /\ r.state = "canceling" /\ r.notes = Append(e.notes, "canceling")
        /\ r.active = e.active /\ r.task = e.task /\ r.queue = e.queue
    BY <2>5, NotifyGroups DEF SchedulerState
  <2>. HIDE DEF r
  <2>9. Orderly(r)
    BY <2>4, <2>5, <2>8 DEF Orderly, Busy, AllIn
  <2>. QED
    BY <1>1, <1>4, <2>1, <2>4, <2>5, <2>7, <2>8, <2>9 DEF Note, b
<1>. QED
  BY <1>2, <1>3, <1>4

\* What is chosen of a sequence is what its chosen indices hold.
LEMMA ChosenRange ==
  ASSUME NEW S, NEW q \in Seq(S), NEW I
  PROVE  /\ Chosen(q, I) \in Seq(S)
         /\ \A e : e \in Range(Chosen(q, I)) <=> \E i \in DOMAIN q : i \in I /\ e = q[i]
<1>. DEFINE N == Len(q)
<1>1. PICK upto : Chosen(q, I) = upto[N] /\ Chooses(upto, q, I)
  BY ChosenSteps
<1>. DEFINE Done1 == {k \in Nat : k <= N =>
                        /\ upto[k] \in Seq(S)
                        /\ \A e : e \in Range(upto[k]) <=> \E i \in 1..k : i \in I /\ e = q[i]}
<1>2. 0 \in Done1
  <2>1. upto[0] = <<>> /\ <<>> \in Seq(S) /\ \A e : e \notin Range(<<>>)
    BY <1>1, EmptySeqType DEF Chooses, Range
  <2>2. ~\E i \in 1..0 : TRUE
    OBVIOUS
  <2>. QED
    BY <2>1, <2>2
<1>3. ASSUME NEW k \in Done1 PROVE k + 1 \in Done1
  <2>1. SUFFICES ASSUME k + 1 <= N
                 PROVE  /\ upto[k + 1] \in Seq(S)
                        /\ \A e : e \in Range(upto[k + 1]) <=> \E i \in 1..(k + 1) : i \in I /\ e = q[i]
    OBVIOUS
  <2>2. /\ q[k + 1] \in S /\ upto[k] \in Seq(S)
        /\ \A e : e \in Range(upto[k]) <=> \E i \in 1..k : i \in I /\ e = q[i]
    BY <2>1
  <2>3. upto[k + 1] = IF k + 1 \in I THEN Append(upto[k], q[k + 1]) ELSE upto[k]
    BY <1>1, <2>1 DEF Chooses
  <2>4. \A e : e \in Range(Append(upto[k], q[k + 1])) <=> e \in Range(upto[k]) \/ e = q[k + 1]
    <3>. DEFINE u == upto[k]
                v == Append(u, q[k + 1])
    <3>1. u \in Seq(S) /\ DOMAIN v = 1..(Len(u) + 1) /\ v[Len(u) + 1] = q[k + 1]
          /\ \A i \in 1..Len(u) : v[i] = u[i]
      BY <2>2
    <3>. HIDE DEF u, v
    <3>2. ASSUME NEW e \in Range(v) PROVE e \in Range(u) \/ e = q[k + 1]
      <4>1. PICK i \in 1..(Len(u) + 1) : v[i] = e
        BY <3>1, <3>2 DEF Range
      <4>2. CASE i = Len(u) + 1
        BY <3>1, <4>1, <4>2
      <4>3. CASE i # Len(u) + 1
        <5>1. i \in 1..Len(u) /\ DOMAIN u = 1..Len(u)
          BY <3>1, <4>1, <4>3
        <5>. QED
          BY <3>1, <4>1, <5>1 DEF Range
      <4>. QED
        BY <4>2, <4>3
    <3>3. ASSUME NEW e \in Range(u) PROVE e \in Range(v)
      <4>1. PICK i \in 1..Len(u) : u[i] = e
        BY <3>1, <3>3 DEF Range
      <4>2. i \in DOMAIN v /\ v[i] = e
        BY <3>1, <4>1
      <4>. QED
        BY <4>2 DEF Range
    <3>4. q[k + 1] \in Range(v)
      <4>1. Len(u) + 1 \in DOMAIN v
        BY <3>1
      <4>. QED
        BY <3>1, <4>1 DEF Range
    <3>5. Range(Append(upto[k], q[k + 1])) = Range(v) /\ Range(upto[k]) = Range(u)
      BY DEF u, v
    <3>. QED
      BY <3>2, <3>3, <3>4, <3>5
  <2>5. \A i : i \in 1..(k + 1) <=> i \in 1..k \/ i = k + 1
    OBVIOUS
  <2>6. upto[k + 1] \in Seq(S)
    BY <2>2, <2>3, AppendType
  <2>. QED
    BY <2>2, <2>3, <2>4, <2>5, <2>6
<1>4. Done1 = Nat
  <2>1. Done1 \in SUBSET Nat
    OBVIOUS
  <2>. HIDE DEF Done1
  <2>. QED
    BY <1>2, <1>3, <2>1, NatSetInduction
<1>5. N \in Nat /\ DOMAIN q = 1..N
  OBVIOUS
<1>6. N \in Done1
  <2>. HIDE DEF Done1
  <2>. QED
    BY <1>4, <1>5
<1>7. /\ upto[N] \in Seq(S)
      /\ \A e : e \in Range(upto[N]) <=> \E i \in 1..N : i \in I /\ e = q[i]
  BY <1>5, <1>6
<1>. HIDE DEF Done1, N
<1>. QED
  BY <1>1, <1>5, <1>7

LEMMA AppendRange ==
  ASSUME NEW S, NEW q \in Seq(S), NEW x
  PROVE  \A e : e \in Range(Append(q, x)) <=> e \in Range(q) \/ e = x
<1>. DEFINE v == Append(q, x)
<1>1. /\ DOMAIN v = 1..(Len(q) + 1) /\ v[Len(q) + 1] = x
      /\ \A i \in 1..Len(q) : v[i] = q[i]
      /\ DOMAIN q = 1..Len(q)
  OBVIOUS
<1>. HIDE DEF v
<1>. QED
  BY <1>1 DEF Range, v

LEMMA ConcatRange ==
  ASSUME NEW S, NEW p \in Seq(S), NEW q \in Seq(S)
  PROVE  \A e : e \in Range(p \o q) <=> e \in Range(p) \/ e \in Range(q)
<1>. DEFINE v == p \o q
            k == Len(p)
            l == Len(q)
<1>1. DOMAIN v = 1..(k + l) /\ DOMAIN p = 1..k /\ DOMAIN q = 1..l /\ k \in Nat /\ l \in Nat
  OBVIOUS
<1>2. \A i \in 1..k : v[i] = p[i]
  OBVIOUS
<1>3. \A i \in 1..l : v[k + i] = q[i]
  OBVIOUS
<1>. HIDE DEF v, k, l
<1>4. ASSUME NEW e \in Range(v) PROVE e \in Range(p) \/ e \in Range(q)
  <2>1. PICK i \in 1..(k + l) : v[i] = e
    BY <1>1 DEF Range
  <2>2. CASE i <= k
    BY <1>1, <1>2, <2>1, <2>2 DEF Range
  <2>3. CASE i > k
    <3>1. i - k \in 1..l /\ k + (i - k) = i
      BY <1>1, <2>3
    <3>. QED
      BY <1>1, <1>3, <2>1, <3>1 DEF Range
  <2>. QED
    BY <1>1, <2>2, <2>3
<1>5. ASSUME NEW e \in Range(p) PROVE e \in Range(v)
  <2>1. PICK i \in 1..k : p[i] = e
    BY <1>1 DEF Range
  <2>2. i \in 1..(k + l)
    BY <1>1
  <2>. QED
    BY <1>1, <1>2, <2>1, <2>2 DEF Range
<1>6. ASSUME NEW e \in Range(q) PROVE e \in Range(v)
  <2>1. PICK i \in 1..l : q[i] = e
    BY <1>1 DEF Range
  <2>2. k + i \in 1..(k + l)
    BY <1>1
  <2>. QED
    BY <1>1, <1>3, <2>1, <2>2 DEF Range
<1>. QED
  BY <1>4, <1>5, <1>6 DEF v

-------------------------------------------------------------------------------
(* What a latch changes *)

LatchSet == [awaited : SchedulerState, report : {"RUNNING", "FINISHED"}]
Subscribed == [id : Control, chain : Seq(LatchSet) \ {<<>>}]

LEMMA WithChain ==
  ASSUME NEW A, NEW B, NEW x \in [id : A, chain : B], NEW t
  PROVE  [x EXCEPT !.chain = t] = [id |-> x.id, chain |-> t]
  OBVIOUS

\* The end of a chain ends the block it belongs to.
LEMMA TeardownRange ==
  ASSUME NEW live \in Seq(Subscribed), NEW x
  PROVE  /\ Teardown(live, x) \in Seq(Subscribed)
         /\ \A y : y \in Range(Teardown(live, x)) <=> y \in Range(live) /\ y.id # x.id
<1>. DEFINE I == {i \in DOMAIN live : live[i].id # x.id}
<1>1. /\ Chosen(live, I) \in Seq(Subscribed)
      /\ \A y : y \in Range(Chosen(live, I)) <=> \E i \in DOMAIN live : i \in I /\ y = live[i]
  BY ChosenRange
<1>2. Teardown(live, x) = Chosen(live, I)
  BY DEF Teardown
<1>3. \A y : (\E i \in DOMAIN live : i \in I /\ y = live[i]) <=> y \in Range(live) /\ y.id # x.id
  BY DEF Range
<1>. HIDE DEF I
<1>. QED
  BY <1>1, <1>2, <1>3

\* The next latch of a chain takes the place of the one before it.
LEMMA ChainNextRange ==
  ASSUME NEW live \in Seq(Subscribed), NEW x \in Subscribed
  PROVE  /\ ChainNext(live, x) \in Seq(Subscribed)
         /\ Len(x.chain) = 1 => ChainNext(live, x) = Teardown(live, x)
         /\ Len(x.chain) # 1 =>
              \A y : y \in Range(ChainNext(live, x))
                       <=> (y \in Range(live) /\ y # x) \/ y = [id |-> x.id, chain |-> Tail(x.chain)]
<1>. DEFINE I == {i \in DOMAIN live : live[i] # x}
            others == Chosen(live, I)
            next == [id |-> x.id, chain |-> Tail(x.chain)]
<1>1. /\ others \in Seq(Subscribed)
      /\ \A y : y \in Range(others) <=> y \in Range(live) /\ y # x
  <2>1. /\ Chosen(live, I) \in Seq(Subscribed)
        /\ \A y : y \in Range(Chosen(live, I)) <=> \E i \in DOMAIN live : i \in I /\ y = live[i]
    BY ChosenRange
  <2>. QED
    BY <2>1 DEF Range
<1>2. CASE Len(x.chain) = 1
  BY <1>2, TeardownRange DEF ChainNext
<1>3. CASE Len(x.chain) # 1
  <2>1. x.id \in Control /\ x.chain \in Seq(LatchSet) /\ x.chain # <<>>
    BY DEF Subscribed
  <2>2. Tail(x.chain) \in Seq(LatchSet) /\ Len(Tail(x.chain)) = Len(x.chain) - 1 /\ Len(x.chain) \in Nat
    BY <2>1
  <2>3. Tail(x.chain) # <<>>
    <3>1. Len(x.chain) # 0
      BY <2>1
    <3>2. Len(Tail(x.chain)) # 0
      BY <1>3, <2>2, <3>1
    <3>3. Len(<<>>) = 0
      OBVIOUS
    <3>. DEFINE t == Tail(x.chain)
    <3>4. Len(t) # 0
      BY <3>2
    <3>. HIDE DEF t
    <3>5. t # <<>>
      BY <3>3, <3>4
    <3>. QED
      BY <3>5 DEF t
  <2>4. next \in Subscribed
    BY <2>1, <2>2, <2>3 DEF Subscribed
  <2>5. [x EXCEPT !.chain = Tail(@)] = next
    <3>. DEFINE t == Tail(x.chain)
    <3>. HIDE DEF t
    <3>1. x \in [id : Control, chain : Seq(LatchSet) \ {<<>>}]
      BY DEF Subscribed
    <3>2. [x EXCEPT !.chain = t] = [id |-> x.id, chain |-> t]
      BY <3>1, WithChain
    <3>. QED
      BY <3>2 DEF t
  <2>6. ChainNext(live, x) = Append(others, next)
    BY <1>3, <2>5 DEF ChainNext
  <2>. HIDE DEF others, next
  <2>7. \A y : y \in Range(Append(others, next)) <=> y \in Range(others) \/ y = next
    BY <1>1, AppendRange
  <2>8. Append(others, next) \in Seq(Subscribed)
    BY <1>1, <2>4, AppendType
  <2>. QED
    BY <1>1, <1>3, <2>6, <2>7, <2>8 DEF next
<1>. QED
  BY <1>2, <1>3

\* What has been noticed before the first latch is asked.
Unnoticed == [states |-> states, live |-> latches, thrown |-> FALSE]

\* The latches take an event one after the other: what holds before the first, and is
\* handed on by each, holds after the last.  G[i] is what holds after the first i.
LEMMA NoticeSteps ==
  ASSUME NEW event, NEW A, NEW G \in [Nat -> SUBSET A], latches \in Seq(Subscribed),
         Unnoticed \in G[0],
         \A i \in Nat : i + 1 <= Len(latches) =>
           \A acc \in G[i] : Hear(acc, latches[i + 1], event) \in G[i + 1]
  PROVE  Notice(event) \in G[Len(latches)]
<1>. DEFINE N == Len(latches)
            E(f, i) == IF i = 0 THEN Unnoticed ELSE Hear(f[i - 1], latches[i], event)
            Solves(f, k) == \A i \in 0..k : f[i] = E(f, i) /\ f[i] \in G[i]
            Solvable == {k \in Nat : k <= N => \E f \in [0..k -> A] : Solves(f, k)}
            upto == CHOOSE f : f = [i \in 0..N |-> E(f, i)]
<1>0. N \in Nat
  OBVIOUS
<1>1. 0 \in Solvable
  <2>. DEFINE f == [i \in 0..0 |-> Unnoticed]
  <2>1. f \in [0..0 -> A] /\ Solves(f, 0)
    OBVIOUS
  <2>. QED
    BY <2>1
<1>2. ASSUME NEW k \in Solvable PROVE k + 1 \in Solvable
  <2>1. SUFFICES ASSUME k + 1 <= N
                 PROVE  \E f \in [0..(k + 1) -> A] : Solves(f, k + 1)
    <3>. HIDE DEF Solves
    <3>. QED
      OBVIOUS
  <2>2. k <= N /\ k \in Nat
    BY <1>0, <2>1
  <2>3. PICK f \in [0..k -> A] : Solves(f, k)
    <3>. HIDE DEF Solves
    <3>. QED
      BY <2>2
  <2>. DEFINE g == [i \in 0..(k + 1) |-> IF i = k + 1 THEN E(f, k + 1) ELSE f[i]]
  <2>4. E(f, k + 1) \in G[k + 1]
    <3>1. f[k] \in G[k] /\ (k + 1) - 1 = k /\ k + 1 # 0
      BY <2>2, <2>3
    <3>. QED
      BY <2>1, <2>2, <3>1
  <2>5. g \in [0..(k + 1) -> A]
    <3>1. E(f, k + 1) \in A
      BY <2>2, <2>4
    <3>. HIDE DEF E
    <3>. QED
      BY <2>2, <3>1
  <2>6. ASSUME NEW i \in 0..(k + 1) PROVE g[i] = E(g, i) /\ g[i] \in G[i]
    <3>1. i # 0 => i - 1 \in 0..k /\ g[i - 1] = f[i - 1]
      BY <2>2
    <3>2. E(g, i) = E(f, i)
      BY <3>1
    <3>3. ASSUME i # k + 1 PROVE f[i] = E(f, i) /\ f[i] \in G[i]
      <4>1. i \in 0..k
        BY <2>2, <3>3
      <4>. HIDE DEF E
      <4>. QED
        BY <2>3, <4>1
    <3>4. CASE i = k + 1
      <4>1. g[i] = E(f, k + 1)
        BY <3>4
      <4>. HIDE DEF E, g
      <4>. QED
        BY <2>4, <3>2, <3>4, <4>1
    <3>5. CASE i # k + 1
      <4>1. g[i] = f[i]
        BY <3>5
      <4>. HIDE DEF E, g
      <4>. QED
        BY <3>2, <3>3, <3>5, <4>1
    <3>. QED
      BY <3>4, <3>5
  <2>. QED
    BY <2>5, <2>6
<1>3. Solvable = Nat
  <2>1. Solvable \in SUBSET Nat
    OBVIOUS
  <2>. HIDE DEF Solvable
  <2>. QED
    BY <1>1, <1>2, <2>1, NatSetInduction
<1>4. PICK f \in [0..N -> A] : Solves(f, N)
  <2>1. N \in Solvable
    <3>. HIDE DEF Solvable
    <3>. QED
      BY <1>0, <1>3
  <2>. HIDE DEF Solves
  <2>. QED
    BY <1>0, <2>1
<1>5. upto = [i \in 0..N |-> E(upto, i)]
  <2>1. f = [i \in 0..N |-> E(f, i)]
    BY <1>4
  <2>. QED
    BY <2>1
<1>6. Notice(event) = upto[N]
  BY DEF Notice, Unnoticed
<1>7. ASSUME NEW i \in 0..N PROVE upto[i] = E(upto, i)
  BY <1>5
<1>. DEFINE Same == {k \in Nat : k <= N => upto[k] \in G[k]}
<1>. HIDE DEF upto
<1>8. 0 \in Same
  BY <1>0, <1>7
<1>9. ASSUME NEW k \in Same PROVE k + 1 \in Same
  <2>1. SUFFICES ASSUME k + 1 <= N PROVE upto[k + 1] \in G[k + 1]
    OBVIOUS
  <2>2. upto[k] \in G[k] /\ k + 1 \in 0..N /\ k + 1 # 0 /\ (k + 1) - 1 = k
    BY <1>0, <2>1
  <2>3. upto[k + 1] = Hear(upto[k], latches[k + 1], event)
    BY <1>7, <2>2
  <2>. QED
    BY <2>1, <2>2, <2>3
<1>10. Same = Nat
  <2>1. Same \in SUBSET Nat
    OBVIOUS
  <2>. HIDE DEF Same
  <2>. QED
    BY <1>8, <1>9, <2>1, NatSetInduction
<1>. QED
  BY <1>0, <1>6, <1>10

-------------------------------------------------------------------------------
(* What is kept of the controls *)

Newest   == Len(sent.types)
Commands == {"cancelOrder", "startPause", "stopPause"}
Excuses  == {"declined", "late", "idle paused", "nothing to cancel"}

ControlsType ==
  /\ sent \in [types : Seq(ControlType), orders : Nat]
  /\ Newest <= MaxControls /\ sent.orders <= Len(Orders)
  /\ events \in Seq(SchedulerState) /\ status \in SchedulerState
  /\ states \in [Control -> Status]
  /\ latches \in Seq(Subscribed)
  /\ alive \in SUBSET {"message", "interpreter", "order"}
  /\ seen \in [Control -> SUBSET SchedulerState]
  /\ excused \in [Control -> SUBSET Excuses]

\* The steps that may be left of the block of a control.
StepsLeft(type) ==
  CASE type = "cancelOrder" -> {<<"dispatch", "run", "subscribe">>, <<"run", "subscribe">>, <<"subscribe">>}
    [] type \in {"startPause", "stopPause"} -> {<<"dispatch", "subscribe">>, <<"subscribe">>}
    [] type = "factsheetRequest" -> {<<"factsheet", "finish">>, <<"finish">>}
    [] type = "stateRequest" -> {<<"finish">>}

\* Where the only message that is under way may be.
Arrived(kind, what) == messages = <<Message(kind, what)>> /\ enabling = Nothing /\ yields = <<>>

ControlGiven == yields = <<Message("control", Newest)>>

IsEnabling ==
  /\ messages = <<>>
  /\ \E left \in StepsLeft(Type(Newest)) :
       /\ enabling = [id |-> Newest, steps |-> left]
       /\ yields = <<>> \/ (ControlGiven /\ Type(Newest) \in Commands /\ Head(left) # "dispatch")

OrderYields ==
  { <<Message("clear", 0), Message("group", sent.orders), Message("done", 0)>>,
    <<Message("group", sent.orders), Message("done", 0)>>, <<Message("done", 0)>> }

ControlUnderWay ==
  /\ Newest > 0
  /\ \/ Arrived("receivedAction", Newest)
     \/ Arrived("validAction", Newest)
     \/ IsEnabling
     \/ messages = <<>> /\ enabling = Nothing /\ ControlGiven /\ Type(Newest) \in Commands

OrderUnderWay ==
  /\ sent.orders > 0
  /\ \/ Arrived("receivedOrder", sent.orders)
     \/ Arrived("validOrder", sent.orders)
     \/ messages = <<>> /\ enabling = Nothing /\ yields \in OrderYields

OneAtATime ==
  \/ messages = <<>> /\ enabling = Nothing /\ yields = <<>>
  \/ ControlUnderWay
  \/ OrderUnderWay

\* The newest control as it comes along.
Progress ==
  /\ messages = <<Message("receivedAction", Newest)>> => seen[Newest] = {}
  /\ messages = <<Message("validAction", Newest)>> => seen[Newest] # {} /\ states[Newest] = Unknown
  /\ enabling # Nothing => seen[Newest] # {} /\ states[Newest] \notin {Unknown, "FINISHED"}
  /\ ControlGiven => seen[Newest] # {} /\ states[Newest] # Unknown

\* In which states of the scheduler a control is feasible.
FeasibleIn(type) ==
  CASE type = "startPause"  -> {"active", "idle"}
    [] type = "stopPause"   -> {"idle_paused", "paused"}
    [] type = "cancelOrder" -> {"idle_paused", "active", "idle", "paused"}
    [] OTHER                -> SchedulerState

\* The newest control is feasible, and the scheduler not yet told.
Undone ==
  \/ messages = <<Message("validAction", Newest)>>
  \/ enabling # Nothing /\ Head(enabling.steps) = "dispatch"
  \/ ControlGiven

Received ==
  \/ messages = <<Message("receivedAction", Newest)>>
  \/ messages = <<Message("receivedOrder", sent.orders)>>

OrderPending == messages = <<Message("validOrder", sent.orders)>> \/ yields \in OrderYields

\* What the order event thread knows and is still to hear of the scheduler.
Path == <<status>> \o events

Latest(p) == p[Len(p)]

\* How the reports of the AGV alone change the state of the scheduler.
Ripens(p, q) ==
  \/ p = q
  \/ p = "canceling" /\ q = "idle"
  \/ p = "pausing" /\ q = "paused"
  \/ p = "resuming" /\ q \in {"active", "idle"}
  \/ p = "active" /\ q = "idle"

RipePath(p) == \A i, j \in DOMAIN p : i <= j => Ripens(p[i], p[j])

Ripe == Received => RipePath(Path)

\* A control that was feasible stays so until the scheduler is told.
StaysFeasible ==
  Undone =>
    /\ \A i \in DOMAIN Path : Path[i] \in FeasibleIn(Type(Newest))
    /\ Type(Newest) = "startPause" => seen[Newest] \cap Leads("startPause") = {}
    /\ Type(Newest) \in {"startPause", "stopPause"} => states[Newest] \notin {"RUNNING", "FINISHED"}

OrdersFindRest == OrderPending => sch.state \in {"idle", "idle_paused"}

\* What may be subscribed for a control.
Chains(type) ==
  CASE type = "cancelOrder" -> {CancelBlock[1]}
    [] type = "startPause"  -> {PauseBlock[1], PauseBlock[2], Tail(PauseBlock[2])}
    [] type = "stopPause"   -> {ResumeBlock[1], ResumeBlock[2], Tail(ResumeBlock[2])}

\* What the latches of a control await.
AwaitedBy(type) ==
  CASE type = "cancelOrder" -> {"idle"}
    [] type = "startPause"  -> {"idle_paused", "pausing", "paused"}
    [] type = "stopPause"   -> {"idle", "resuming", "active"}

Latched(x) ==
  /\ x.id \in 1..Newest /\ Type(x.id) \in Commands /\ x.chain \in Chains(Type(x.id))

LatchForm ==
  \A x \in Range(latches) :
    /\ Latched(x) /\ seen[x.id] # {} /\ states[x.id] # "FINISHED"
    /\ messages = <<Message("validAction", Newest)>> \/ enabling # Nothing => x.id # Newest

\* What a control waits for has been seen when it is announced.
SeenForm ==
  \A c \in Control :
    /\ c > Newest => seen[c] = {}
    /\ seen[c] = {} => states[c] = Unknown
    /\ seen[c] # {} /\ Type(c) \in Commands => Range(events) \cap Leads(Type(c)) \subseteq seen[c]

ControlInv ==
  /\ ControlsType /\ Orderly(sch)
  /\ OneAtATime /\ Progress
  /\ sch.state = Latest(Path) /\ Ripe
  /\ StaysFeasible /\ OrdersFindRest
  /\ LatchForm /\ SeenForm

-------------------------------------------------------------------------------
(* The path of the statuses *)

LEMMA SeqRange == ASSUME NEW S, NEW q \in Seq(S) PROVE Range(q) \subseteq S
  BY DEF Range

LEMMA PathIndex ==
  ASSUME status \in SchedulerState, events \in Seq(SchedulerState)
  PROVE  /\ Path \in Seq(SchedulerState) /\ Len(Path) = Len(events) + 1 /\ Len(Path) \in Nat
         /\ DOMAIN Path = 1..Len(Path) /\ Len(events) \in Nat
         /\ Path[1] = status /\ \A i \in 1..Len(events) : Path[i + 1] = events[i]
<1>1. <<status>> \in Seq(SchedulerState) /\ Len(<<status>>) = 1 /\ <<status>>[1] = status
  OBVIOUS
<1>. QED
  BY <1>1 DEF Path

\* The scheduler announces more.
LEMMA CalledPath ==
  ASSUME ControlsType, NEW more \in Seq(SchedulerState),
         events' = events \o more, status' = status
  PROVE  /\ Path' = Path \o more /\ Len(Path') = Len(Path) + Len(more) /\ DOMAIN Path' = 1..Len(Path')
         /\ \A i \in 1..Len(Path) : Path'[i] = Path[i]
         /\ \A i \in 1..Len(more) : Path'[Len(Path) + i] = more[i]
<1>1. /\ Path \in Seq(SchedulerState) /\ Len(Path) \in Nat
  BY PathIndex DEF ControlsType
<1>2. Path' = Path \o more
  <2>1. events \in Seq(SchedulerState) /\ <<status>> \in Seq(SchedulerState)
    BY DEF ControlsType
  <2>. QED
    BY <2>1 DEF Path
<1>. HIDE DEF Path
<1>. QED
  BY <1>1, <1>2

\* An announcement is handled.
LEMMA HandledPath ==
  ASSUME ControlsType, events # <<>>, events' = Tail(events), status' = Head(events)
  PROVE  /\ Len(Path') = Len(Path) - 1 /\ DOMAIN Path' = 1..Len(Path') /\ Len(Path') > 0
         /\ \A i \in 1..Len(Path') : Path'[i] = Path[i + 1]
         /\ Head(events) \in Range(events) /\ Range(Tail(events)) \subseteq Range(events)
         /\ Head(events) = Path[2] /\ Len(Path) > 1
         /\ status' \in SchedulerState /\ events' \in Seq(SchedulerState)
<1>0. events \in Seq(SchedulerState)
  BY DEF ControlsType
<1>1. /\ Len(Path) = Len(events) + 1 /\ Len(events) \in Nat
      /\ Path[1] = status /\ \A i \in 1..Len(events) : Path[i + 1] = events[i]
  BY PathIndex DEF ControlsType
<1>2. Len(events) > 0 /\ Head(events) = events[1] /\ Tail(events) \in Seq(SchedulerState)
      /\ Len(Tail(events)) = Len(events) - 1 /\ \A i \in 1..Len(events) - 1 : Tail(events)[i] = events[i + 1]
  BY <1>0
<1>3. status' \in SchedulerState /\ events' \in Seq(SchedulerState)
  BY <1>0, <1>2
<1>4. /\ Len(Path') = Len(events') + 1 /\ DOMAIN Path' = 1..Len(Path')
      /\ Path'[1] = status' /\ \A i \in 1..Len(events') : Path'[i + 1] = events'[i]
  <2>1. ASSUME status' \in SchedulerState, events' \in Seq(SchedulerState)
        PROVE  /\ Len(Path') = Len(events') + 1 /\ DOMAIN Path' = 1..Len(Path')
               /\ Path'[1] = status' /\ \A i \in 1..Len(events') : Path'[i + 1] = events'[i]
    <3>1. <<status'>> \in Seq(SchedulerState) /\ Len(<<status'>>) = 1 /\ <<status'>>[1] = status'
      BY <2>1
    <3>. QED
      BY <2>1, <3>1 DEF Path
  <2>. QED
    BY <1>3, <2>1
<1>5. \A i \in 1..Len(Path') : Path'[i] = Path[i + 1]
  <2>1. SUFFICES ASSUME NEW i \in 1..Len(Path') PROVE Path'[i] = Path[i + 1]
    OBVIOUS
  <2>2. CASE i = 1
    <3>1. Path[1 + 1] = events[1]
      BY <1>1, <1>2
    <3>. QED
      BY <1>2, <1>4, <2>2, <3>1
  <2>3. CASE i # 1
    <3>1. i - 1 \in 1..Len(events') /\ i \in 1..Len(events) /\ i - 1 \in 1..Len(events) - 1 /\ (i - 1) + 1 = i
      BY <1>2, <1>4, <2>3
    <3>2. Path'[i] = events'[i - 1] /\ events'[i - 1] = events[i]
      BY <1>2, <1>4, <3>1
    <3>. QED
      BY <1>1, <3>1, <3>2
  <2>. QED
    BY <2>2, <2>3
<1>6. Head(events) \in Range(events) /\ Range(Tail(events)) \subseteq Range(events)
  <2>1. DOMAIN events = 1..Len(events) /\ DOMAIN Tail(events) = 1..(Len(events) - 1)
    BY <1>0, <1>2
  <2>2. ASSUME NEW i \in 1..(Len(events) - 1) PROVE i + 1 \in 1..Len(events) /\ Tail(events)[i] = events[i + 1]
    BY <1>1, <1>2
  <2>. QED
    BY <1>1, <1>2, <2>1, <2>2 DEF Range
<1>7. Head(events) = Path[2]
  <2>1. Path[1 + 1] = events[1]
    BY <1>1, <1>2
  <2>. QED
    BY <1>2, <2>1
<1>. QED
  BY <1>1, <1>2, <1>3, <1>4, <1>5, <1>6, <1>7

\* What is subscribed for a control: a chain of one latch that reports FINISHED when the
\* scheduler is where the control leads to, or of two that report RUNNING before.
LEMMA ChainFacts ==
  ASSUME NEW type \in Commands, NEW chain \in Chains(type)
  PROVE  /\ chain \in Seq(LatchSet) \ {<<>>} /\ Len(chain) \in {1, 2}
         /\ Head(chain).awaited \in AwaitedBy(type)
         /\ Len(chain) = 1 => Head(chain).report = "FINISHED" /\ Head(chain).awaited \in Leads(type)
         /\ Len(chain) = 2 => Head(chain).report = "RUNNING" /\ Tail(chain) \in Chains(type)
         /\ Len(chain) = 2 =>
              /\ chain = Blocks(type)[2] /\ Head(Tail(chain)).awaited # Head(chain).awaited
              /\ \/ type = "startPause" /\ Head(chain).awaited = "pausing"
                 \/ type = "stopPause" /\ Head(chain).awaited = "resuming"
<1>1. \A a \in SchedulerState, r \in {"RUNNING", "FINISHED"} :
        /\ Latch(a, r) \in LatchSet /\ Latch(a, r).awaited = a /\ Latch(a, r).report = r
        /\ Head(<<Latch(a, r)>>) = Latch(a, r) /\ Len(<<Latch(a, r)>>) = 1
        /\ <<Latch(a, r)>> \in Seq(LatchSet) \ {<<>>}
  BY DEF Latch, LatchSet
<1>2. \A a, b \in SchedulerState, r, q \in {"RUNNING", "FINISHED"} :
        LET chain2 == <<Latch(a, r), Latch(b, q)>>
        IN /\ Head(chain2) = Latch(a, r) /\ Len(chain2) = 2 /\ Tail(chain2) = <<Latch(b, q)>>
           /\ chain2 \in Seq(LatchSet) \ {<<>>}
  BY <1>1
<1>3. {"idle", "idle_paused", "pausing", "paused", "resuming", "active"} \subseteq SchedulerState
  BY DEF SchedulerState
<1>4. CASE type = "cancelOrder"
  <2>1. chain = <<Latch("idle", "FINISHED")>>
    BY <1>4 DEF Chains, CancelBlock
  <2>2. /\ chain \in Seq(LatchSet) \ {<<>>} /\ Len(chain) = 1
        /\ Head(chain).awaited = "idle" /\ Head(chain).report = "FINISHED"
    BY <1>1, <1>3, <2>1
  <2>. QED
    BY <1>4, <2>2 DEF AwaitedBy, Leads
<1>5. CASE type = "startPause"
  <2>1. /\ PauseBlock[1] = <<Latch("idle_paused", "FINISHED")>>
        /\ PauseBlock[2] = <<Latch("pausing", "RUNNING"), Latch("paused", "FINISHED")>>
    BY DEF PauseBlock
  <2>2. Tail(PauseBlock[2]) = <<Latch("paused", "FINISHED")>>
    BY <1>2, <1>3, <2>1
  <2>3. chain \in {PauseBlock[1], PauseBlock[2], Tail(PauseBlock[2])}
    BY <1>5 DEF Chains
  <2>4. CASE chain = PauseBlock[1]
    <3>1. /\ chain \in Seq(LatchSet) \ {<<>>} /\ Len(chain) = 1
          /\ Head(chain).awaited = "idle_paused" /\ Head(chain).report = "FINISHED"
      BY <1>1, <1>3, <2>1, <2>4
    <3>. QED
      BY <1>5, <3>1 DEF AwaitedBy, Leads
  <2>5. CASE chain = PauseBlock[2]
    <3>1. /\ chain \in Seq(LatchSet) \ {<<>>} /\ Len(chain) = 2 /\ Tail(chain) = Tail(PauseBlock[2])
          /\ Head(chain).awaited = "pausing" /\ Head(chain).report = "RUNNING"
      BY <1>1, <1>2, <1>3, <2>1, <2>5
    <3>2. Head(Tail(chain)).awaited = "paused"
      <4>. DEFINE rest == Tail(chain)
      <4>1. rest = <<Latch("paused", "FINISHED")>>
        BY <2>2, <2>5
      <4>2. "paused" \in SchedulerState /\ "FINISHED" \in {"RUNNING", "FINISHED"}
        BY <1>3
      <4>. HIDE DEF rest
      <4>3. Head(rest) = Latch("paused", "FINISHED")
        BY <4>1
      <4>4. Head(rest).awaited = "paused"
        BY <1>1, <4>2, <4>3
      <4>. QED
        BY <4>4 DEF rest
    <3>3. chain = Blocks(type)[2]
      BY <1>5, <2>5 DEF Blocks
    <3>4. Tail(chain) \in Chains(type)
      BY <1>5, <3>1 DEF Chains
    <3>. QED
      BY <1>5, <3>1, <3>2, <3>3, <3>4 DEF AwaitedBy
  <2>6. CASE chain = Tail(PauseBlock[2])
    <3>0. chain = <<Latch("paused", "FINISHED")>>
      BY <2>2, <2>6
    <3>1. /\ chain \in Seq(LatchSet) \ {<<>>} /\ Len(chain) = 1
          /\ Head(chain).awaited = "paused" /\ Head(chain).report = "FINISHED"
      BY <1>1, <1>3, <3>0
    <3>. QED
      BY <1>5, <3>1 DEF AwaitedBy, Leads
  <2>. QED
    BY <2>3, <2>4, <2>5, <2>6
<1>6. CASE type = "stopPause"
  <2>1. /\ ResumeBlock[1] = <<Latch("idle", "FINISHED")>>
        /\ ResumeBlock[2] = <<Latch("resuming", "RUNNING"), Latch("active", "FINISHED")>>
    BY DEF ResumeBlock
  <2>2. Tail(ResumeBlock[2]) = <<Latch("active", "FINISHED")>>
    BY <1>2, <1>3, <2>1
  <2>3. chain \in {ResumeBlock[1], ResumeBlock[2], Tail(ResumeBlock[2])}
    BY <1>6 DEF Chains
  <2>4. CASE chain = ResumeBlock[1]
    <3>1. /\ chain \in Seq(LatchSet) \ {<<>>} /\ Len(chain) = 1
          /\ Head(chain).awaited = "idle" /\ Head(chain).report = "FINISHED"
      BY <1>1, <1>3, <2>1, <2>4
    <3>. QED
      BY <1>6, <3>1 DEF AwaitedBy, Leads
  <2>5. CASE chain = ResumeBlock[2]
    <3>1. /\ chain \in Seq(LatchSet) \ {<<>>} /\ Len(chain) = 2 /\ Tail(chain) = Tail(ResumeBlock[2])
          /\ Head(chain).awaited = "resuming" /\ Head(chain).report = "RUNNING"
      BY <1>1, <1>2, <1>3, <2>1, <2>5
    <3>2. Head(Tail(chain)).awaited = "active"
      <4>. DEFINE rest == Tail(chain)
      <4>1. rest = <<Latch("active", "FINISHED")>>
        BY <2>2, <2>5
      <4>2. "active" \in SchedulerState /\ "FINISHED" \in {"RUNNING", "FINISHED"}
        BY <1>3
      <4>. HIDE DEF rest
      <4>3. Head(rest) = Latch("active", "FINISHED")
        BY <4>1
      <4>4. Head(rest).awaited = "active"
        BY <1>1, <4>2, <4>3
      <4>. QED
        BY <4>4 DEF rest
    <3>3. chain = Blocks(type)[2]
      BY <1>6, <2>5 DEF Blocks
    <3>4. Tail(chain) \in Chains(type)
      BY <1>6, <3>1 DEF Chains
    <3>. QED
      BY <1>6, <3>1, <3>2, <3>3, <3>4 DEF AwaitedBy
  <2>6. CASE chain = Tail(ResumeBlock[2])
    <3>0. chain = <<Latch("active", "FINISHED")>>
      BY <2>2, <2>6
    <3>1. /\ chain \in Seq(LatchSet) \ {<<>>} /\ Len(chain) = 1
          /\ Head(chain).awaited = "active" /\ Head(chain).report = "FINISHED"
      BY <1>1, <1>3, <3>0
    <3>. QED
      BY <1>6, <3>1 DEF AwaitedBy, Leads
  <2>. QED
    BY <2>3, <2>4, <2>5, <2>6
<1>. QED
  BY <1>4, <1>5, <1>6 DEF Commands

-------------------------------------------------------------------------------
(* What the latches make of an announcement *)

Outcomes == [states : [Control -> Status], live : Seq(Subscribed), thrown : BOOLEAN]

\* A latch of c awaits the event.
Hears(c, event) ==
  \E x \in Range(latches) : x.id = c /\ event \in AwaitedBy(Type(c))

Live(acc, c, chain) == \E y \in Range(acc.live) : y.id = c /\ y.chain = chain

\* What has become of the states of the controls.
StatesHeard(st, event) ==
  \A c \in Control :
    /\ st[c] = Unknown <=> states[c] = Unknown
    /\ states[c] = "FINISHED" => st[c] = "FINISHED"
    /\ st[c] = "FINISHED" =>
         states[c] = "FINISHED" \/ (Hears(c, event) /\ Type(c) \in Commands /\ event \in Leads(Type(c)))
    /\ st[c] = "RUNNING" =>
         \/ states[c] = "RUNNING"
         \/ Hears(c, event) /\ Type(c) = "startPause" /\ event = "pausing"
         \/ Hears(c, event) /\ Type(c) = "stopPause" /\ event = "resuming"
    /\ st[c] = "WAITING" => states[c] = "WAITING"

\* What has become of the latches.
LatchesHeard(acc) ==
  /\ \A y \in Range(acc.live) :
       /\ Latched(y) /\ acc.states[y.id] # "FINISHED"
       /\ \E x \in Range(latches) : x.id = y.id
  /\ \A x \in Range(latches) :
       x \in Range(acc.live) \/ acc.states[x.id] = "FINISHED"
         \/ (acc.states[x.id] = "RUNNING" /\ Type(x.id) # "cancelOrder")
  /\ \A c \in Control : acc.states[c] = "RUNNING" /\ c <= Newest /\ Type(c) \in {"startPause", "stopPause"} =>
       \/ Live(acc, c, Tail(Blocks(Type(c))[2]))
       \/ states[c] = "RUNNING" /\ ~Live(Unnoticed, c, Tail(Blocks(Type(c))[2]))

\* What the first i latches have left of an announcement.
Heard(acc, i, event) ==
  /\ StatesHeard(acc.states, event) /\ LatchesHeard(acc)
  /\ ~acc.thrown => \A j \in 1..i : ~(Awaits(latches[j], event) /\ latches[j] \in Range(acc.live))

LEMMA CancelWaitingStates ==
  ASSUME NEW st \in [Control -> Status]
  PROVE  /\ CancelWaiting(st) \in [Control -> Status]
         /\ \A c \in Control : CancelWaiting(st)[c] = IF st[c] = "WAITING" THEN "FAILED" ELSE st[c]
  BY DEF CancelWaiting, Status

LEMMA HearKeeps ==
  ASSUME ControlsType, LatchForm, NEW event,
         NEW i \in Nat, i + 1 <= Len(latches), NEW acc \in Outcomes, Heard(acc, i, event)
  PROVE  /\ Hear(acc, latches[i + 1], event) \in Outcomes
         /\ Heard(Hear(acc, latches[i + 1], event), i + 1, event)
<1>. DEFINE x == latches[i + 1]
            r == Hear(acc, x, event)
<1>1. /\ latches \in Seq(Subscribed) /\ x \in Subscribed /\ x \in Range(latches)
      /\ DOMAIN latches = 1..Len(latches)
  <2>1. latches \in Seq(Subscribed) /\ DOMAIN latches = 1..Len(latches) /\ i + 1 \in 1..Len(latches)
    BY DEF ControlsType
  <2>. QED
    BY <2>1 DEF Range
<1>2. acc.states \in [Control -> Status] /\ acc.live \in Seq(Subscribed) /\ acc.thrown \in BOOLEAN
  BY DEF Outcomes
<1>3. \A j \in 1..(i + 1) : j \in 1..i \/ latches[j] = x
  OBVIOUS
<1>. HIDE DEF x
<1>4. CASE ~(~acc.thrown /\ x \in Range(acc.live) /\ Awaits(x, event))
  <2>1. r = acc
    BY <1>4 DEF Hear
  <2>2. ~acc.thrown => \A j \in 1..(i + 1) : ~(Awaits(latches[j], event) /\ latches[j] \in Range(acc.live))
    BY <1>3, <1>4 DEF Heard
  <2>. QED
    BY <2>1, <2>2 DEF Heard, x
<1>5. CASE ~acc.thrown /\ x \in Range(acc.live) /\ Awaits(x, event)
  <2>. DEFINE c == x.id
              cleared == IF Type(c) = "cancelOrder" THEN CancelWaiting(acc.states) ELSE acc.states
  <2>1. /\ cleared \in [Control -> Status]
        /\ \A d \in Control : \/ cleared[d] = acc.states[d]
                              \/ acc.states[d] = "WAITING" /\ cleared[d] = "FAILED"
    BY <1>2, CancelWaitingStates
  <2>2. r = Done(acc, x)
    BY <1>5 DEF Hear
  <2>3. /\ c \in 1..Newest /\ c \in Control /\ Type(c) \in Commands /\ x.chain \in Chains(Type(c))
        /\ acc.states[c] # "FINISHED" /\ states[c] # "FINISHED"
    BY <1>1, <1>5 DEF Heard, LatchesHeard, Latched, LatchForm, Subscribed
  <2>. DEFINE type == Type(c)
              chain == x.chain
  <2>. HIDE DEF cleared, c, type, chain
  <2>4. type \in Commands /\ chain \in Chains(type)
    BY <2>3 DEF type, chain
  <2>5. /\ Len(chain) \in {1, 2} /\ Head(chain).awaited \in AwaitedBy(type)
        /\ Len(chain) = 1 => Head(chain).report = "FINISHED" /\ Head(chain).awaited \in Leads(type)
        /\ Len(chain) = 2 => Head(chain).report = "RUNNING" /\ Tail(chain) \in Chains(type)
        /\ Len(chain) = 2 =>
              /\ chain = Blocks(type)[2] /\ Head(Tail(chain)).awaited # Head(chain).awaited
              /\ \/ type = "startPause" /\ Head(chain).awaited = "pausing"
                 \/ type = "stopPause" /\ Head(chain).awaited = "resuming"
    BY <2>4, ChainFacts
  <2>6. Head(chain).awaited = event
    BY <1>5 DEF Awaits, chain
  <2>7. Hears(c, event)
    BY <1>1, <2>5, <2>6 DEF Hears, c, type
  <2>8. StatesHeard(cleared, event)
    BY <2>1 DEF Heard, StatesHeard, Unknown
  <2>9. CASE cleared[c] = Unknown
    <3>1. r = [acc EXCEPT !.states = cleared, !.thrown = TRUE]
      BY <2>2, <2>9 DEF Done, c, cleared
    <3>2. r \in Outcomes /\ r.states = cleared /\ r.live = acc.live /\ r.thrown
      <4>1. cleared \in [Control -> Status] /\ acc \in Outcomes
        BY <2>1
      <4>2. r \in Outcomes
        BY <3>1, <4>1 DEF Outcomes
      <4>3. r.states = cleared
        BY <3>1, <4>1 DEF Outcomes
      <4>4. r.live = acc.live
        BY <3>1, <4>1 DEF Outcomes
      <4>5. r.thrown
        BY <3>1, <4>1 DEF Outcomes
      <4>. QED
        BY <4>2, <4>3, <4>4, <4>5
    <3>. HIDE DEF r
    <3>3. \A y \in Range(acc.live) : y.id \in Control
      <4>1. Range(acc.live) \subseteq Subscribed
        BY <1>2, SeqRange
      <4>. QED
        BY <4>1 DEF Subscribed
    <3>4. \A y \in Range(latches) : y.id \in Control
      <4>1. Range(latches) \subseteq Subscribed
        BY <1>1, SeqRange
      <4>. QED
        BY <4>1 DEF Subscribed
    <3>5. \A d \in Control : cleared[d] \in {"RUNNING", "FINISHED"} <=> acc.states[d] \in {"RUNNING", "FINISHED"}
      BY <2>1
    <3>6. \A d \in Control : cleared[d] \in {"RUNNING", "FINISHED"} => acc.states[d] = cleared[d]
      BY <2>1
    <3>7. \A d \in Control : acc.states[d] \in {"RUNNING", "FINISHED"} => acc.states[d] = cleared[d]
      BY <2>1
    <3>8. LatchesHeard(r)
      BY <3>2, <3>3, <3>4, <3>6, <3>7 DEF Heard, LatchesHeard, Live
    <3>. QED
      BY <2>8, <3>2, <3>8 DEF Heard, r, x
  <2>10. CASE cleared[c] # Unknown
    <3>. DEFINE after == [cleared EXCEPT ![c] = Head(chain).report]
    <3>1. r = [acc EXCEPT !.states = after, !.live = ChainNext(@, x)]
      BY <2>2, <2>10 DEF Done, c, cleared, chain
    <3>2. /\ ChainNext(acc.live, x) \in Seq(Subscribed)
          /\ Len(chain) = 1 => ChainNext(acc.live, x) = Teardown(acc.live, x)
          /\ Len(chain) # 1 =>
               \A y : y \in Range(ChainNext(acc.live, x))
                        <=> (y \in Range(acc.live) /\ y # x) \/ y = [id |-> c, chain |-> Tail(chain)]
      BY <1>1, <1>2, ChainNextRange DEF c, chain
    <3>3. \A y : y \in Range(Teardown(acc.live, x)) <=> y \in Range(acc.live) /\ y.id # c
      BY <1>2, TeardownRange DEF c
    <3>4. after \in [Control -> Status]
      BY <2>1, <2>5 DEF Status
    <3>5. r \in Outcomes /\ r.states = after /\ r.live = ChainNext(acc.live, x) /\ r.thrown = acc.thrown
      BY <1>2, <3>1, <3>2, <3>4 DEF Outcomes
    <3>. DEFINE live == ChainNext(acc.live, x)
    <3>6. /\ after[c] = Head(chain).report
          /\ \A d \in Control : d # c => after[d] = cleared[d]
      BY <2>1, <2>3
    <3>7. \A y \in Range(acc.live) \cup Range(latches) : y.id \in Control
      <4>1. Range(latches) \subseteq Subscribed
        BY <1>1, SeqRange
      <4>2. Range(acc.live) \subseteq Subscribed
        BY <1>2, SeqRange
      <4>. QED
        BY <4>1, <4>2 DEF Subscribed
    <3>8. \A d \in Control : d # c /\ after[d] \in {"RUNNING", "FINISHED"} => acc.states[d] = after[d]
      BY <2>1, <3>6
    <3>9. \A d \in Control : d # c /\ acc.states[d] \in {"RUNNING", "FINISHED"} => acc.states[d] = after[d]
      BY <2>1, <3>6
    <3>. HIDE DEF r, live, after
    <3>10. StatesHeard(after, event)
      <4>1. SUFFICES ASSUME NEW d \in Control
                     PROVE  /\ after[d] = Unknown <=> states[d] = Unknown
                            /\ states[d] = "FINISHED" => after[d] = "FINISHED"
                            /\ after[d] = "FINISHED" =>
                                 states[d] = "FINISHED"
                                   \/ (Hears(d, event) /\ Type(d) \in Commands /\ event \in Leads(Type(d)))
                            /\ after[d] = "RUNNING" =>
                                 \/ states[d] = "RUNNING"
                                 \/ Hears(d, event) /\ Type(d) = "startPause" /\ event = "pausing"
                                 \/ Hears(d, event) /\ Type(d) = "stopPause" /\ event = "resuming"
                            /\ after[d] = "WAITING" => states[d] = "WAITING"
        BY DEF StatesHeard
      <4>2. CASE d # c
        BY <2>8, <3>6, <4>2 DEF StatesHeard
      <4>3. CASE d = c
        <5>1. states[c] # Unknown
          BY <2>3, <2>8, <2>10 DEF StatesHeard
        <5>2. CASE Len(chain) = 1
          BY <2>3, <2>5, <2>6, <2>7, <3>6, <4>3, <5>1, <5>2 DEF Unknown, type
        <5>3. CASE Len(chain) = 2
          BY <2>3, <2>5, <2>6, <2>7, <3>6, <4>3, <5>1, <5>3 DEF Unknown, type
        <5>. QED
          BY <2>5, <5>2, <5>3
      <4>. QED
        BY <4>2, <4>3
    <3>11. CASE Len(chain) = 1
      <4>1. \A y : y \in Range(live) <=> y \in Range(acc.live) /\ y.id # c
        BY <3>2, <3>3, <3>11 DEF live
      <4>2. LatchesHeard(r)
        <5>1. \A y \in Range(r.live) :
                /\ Latched(y) /\ r.states[y.id] # "FINISHED"
                /\ \E z \in Range(latches) : z.id = y.id
          BY <3>5, <3>7, <3>8, <4>1 DEF Heard, LatchesHeard, live
        <5>2. \A z \in Range(latches) :
                z \in Range(r.live) \/ r.states[z.id] = "FINISHED"
                  \/ (r.states[z.id] = "RUNNING" /\ Type(z.id) # "cancelOrder")
          BY <2>5, <3>5, <3>6, <3>7, <3>9, <3>11, <4>1 DEF Heard, LatchesHeard, live
        <5>3. ASSUME NEW d \in Control, r.states[d] = "RUNNING", d <= Newest, Type(d) \in {"startPause", "stopPause"}
              PROVE  \/ Live(r, d, Tail(Blocks(Type(d))[2]))
                     \/ states[d] = "RUNNING" /\ ~Live(Unnoticed, d, Tail(Blocks(Type(d))[2]))
          <6>1. d # c
            BY <2>5, <3>5, <3>6, <3>11, <5>3
          <6>2. acc.states[d] = "RUNNING"
            BY <3>5, <3>8, <5>3, <6>1
          <6>3. \/ Live(acc, d, Tail(Blocks(Type(d))[2]))
                \/ states[d] = "RUNNING" /\ ~Live(Unnoticed, d, Tail(Blocks(Type(d))[2]))
            BY <5>3, <6>2 DEF Heard, LatchesHeard
          <6>4. ASSUME Live(acc, d, Tail(Blocks(Type(d))[2])) PROVE Live(r, d, Tail(Blocks(Type(d))[2]))
            BY <3>5, <4>1, <6>1, <6>4 DEF Live, live
          <6>. QED
            BY <6>3, <6>4
        <5>. QED
          BY <5>1, <5>2, <5>3 DEF LatchesHeard
      <4>3. \A j \in 1..(i + 1) : ~(Awaits(latches[j], event) /\ latches[j] \in Range(live))
        <5>1. x.id = c
          BY DEF c
        <5>. QED
          BY <1>3, <1>5, <4>1, <5>1 DEF Heard
      <4>. QED
        BY <3>5, <3>10, <4>2, <4>3 DEF Heard, r, live, x
    <3>12. CASE Len(chain) = 2
      <4>. DEFINE next == [id |-> c, chain |-> Tail(chain)]
      <4>1. \A y : y \in Range(live) <=> (y \in Range(acc.live) /\ y # x) \/ y = next
        BY <3>2, <3>12 DEF live
      <4>2. next.id = c /\ next.chain = Tail(chain) /\ Latched(next) /\ ~Awaits(next, event)
        BY <2>3, <2>5, <2>6, <3>12 DEF Latched, Awaits, type
      <4>. HIDE DEF next
      <4>3. next # x /\ x.id = c
        BY <1>5, <4>2 DEF c
      <4>4. after[c] = "RUNNING" /\ type # "cancelOrder"
        BY <2>5, <3>6, <3>12
      <4>5. LatchesHeard(r)
        <5>1. \A y \in Range(r.live) :
                /\ Latched(y) /\ r.states[y.id] # "FINISHED"
                /\ \E z \in Range(latches) : z.id = y.id
          <6>1. SUFFICES ASSUME NEW y \in Range(r.live)
                         PROVE  /\ Latched(y) /\ r.states[y.id] # "FINISHED"
                                /\ \E z \in Range(latches) : z.id = y.id
            OBVIOUS
          <6>2. CASE y = next
            BY <1>1, <3>5, <4>2, <4>3, <4>4, <6>2
          <6>3. CASE y \in Range(acc.live)
            BY <3>5, <3>7, <3>8, <4>4, <6>3 DEF Heard, LatchesHeard
          <6>. QED
            BY <3>5, <4>1, <6>1, <6>2, <6>3 DEF live
        <5>2. \A z \in Range(latches) :
                z \in Range(r.live) \/ r.states[z.id] = "FINISHED"
                  \/ (r.states[z.id] = "RUNNING" /\ Type(z.id) # "cancelOrder")
          <6>1. SUFFICES ASSUME NEW z \in Range(latches), z \notin Range(r.live)
                         PROVE  r.states[z.id] = "FINISHED"
                                  \/ (r.states[z.id] = "RUNNING" /\ Type(z.id) # "cancelOrder")
            OBVIOUS
          <6>2. CASE z.id = c
            BY <3>5, <4>4, <6>2 DEF type
          <6>3. CASE z.id # c
            BY <3>5, <3>7, <3>9, <4>1, <4>3, <6>1, <6>3 DEF Heard, LatchesHeard, live
          <6>. QED
            BY <6>2, <6>3
        <5>3. ASSUME NEW d \in Control, r.states[d] = "RUNNING", d <= Newest, Type(d) \in {"startPause", "stopPause"}
              PROVE  \/ Live(r, d, Tail(Blocks(Type(d))[2]))
                     \/ states[d] = "RUNNING" /\ ~Live(Unnoticed, d, Tail(Blocks(Type(d))[2]))
          <6>1. CASE d = c
            <7>1. chain = Blocks(Type(d))[2]
              BY <2>5, <3>12, <6>1 DEF type
            <7>. QED
              BY <3>5, <4>1, <4>2, <6>1, <7>1 DEF Live, live
          <6>2. CASE d # c
            <7>1. acc.states[d] = "RUNNING"
              BY <3>5, <3>8, <5>3, <6>2
            <7>2. \/ Live(acc, d, Tail(Blocks(Type(d))[2]))
                  \/ states[d] = "RUNNING" /\ ~Live(Unnoticed, d, Tail(Blocks(Type(d))[2]))
              BY <5>3, <7>1 DEF Heard, LatchesHeard
            <7>3. ASSUME Live(acc, d, Tail(Blocks(Type(d))[2])) PROVE Live(r, d, Tail(Blocks(Type(d))[2]))
              BY <3>5, <4>1, <4>3, <6>2, <7>3 DEF Live, live
            <7>. QED
              BY <7>2, <7>3
          <6>. QED
            BY <6>1, <6>2
        <5>. QED
          BY <5>1, <5>2, <5>3 DEF LatchesHeard
      <4>6. \A j \in 1..(i + 1) : ~(Awaits(latches[j], event) /\ latches[j] \in Range(live))
        BY <1>3, <1>5, <4>1, <4>2, <4>3 DEF Heard
      <4>. QED
        BY <3>5, <3>10, <4>5, <4>6 DEF Heard, r, live, x
    <3>. QED
      BY <2>5, <3>11, <3>12
  <2>. QED
    BY <2>9, <2>10
<1>. QED
  BY <1>4, <1>5

\* What the latches leave of an announcement.
LEMMA Noticed ==
  ASSUME ControlsType, LatchForm, NEW event
  PROVE  /\ Notice(event) \in Outcomes
         /\ Heard(Notice(event), Len(latches), event)
<1>. DEFINE G == [i \in Nat |-> {acc \in Outcomes : Heard(acc, i, event)}]
<1>1. latches \in Seq(Subscribed) /\ states \in [Control -> Status] /\ Len(latches) \in Nat
  BY DEF ControlsType
<1>2. Unnoticed \in Outcomes
  BY <1>1 DEF Unnoticed, Outcomes
<1>3. /\ Unnoticed.states = states /\ Unnoticed.live = latches
  BY DEF Unnoticed
<1>4. Heard(Unnoticed, 0, event)
  <2>1. StatesHeard(Unnoticed.states, event)
    BY <1>3 DEF StatesHeard
  <2>2. LatchesHeard(Unnoticed)
    <3>1. \A c \in Control : Live(Unnoticed, c, Tail(Blocks(Type(c))[2])) \/ ~Live(Unnoticed, c, Tail(Blocks(Type(c))[2]))
      OBVIOUS
    <3>. QED
      BY <1>3, <3>1 DEF LatchesHeard, LatchForm
  <2>. QED
    BY <2>1, <2>2 DEF Heard
<1>5. G \in [Nat -> SUBSET Outcomes]
  OBVIOUS
<1>6. \A i \in Nat : i + 1 <= Len(latches) =>
        \A acc \in G[i] : Hear(acc, latches[i + 1], event) \in G[i + 1]
  BY HearKeeps
<1>7. Unnoticed \in G[0]
  BY <1>2, <1>4
<1>8. Notice(event) \in G[Len(latches)]
  <2>. HIDE DEF G
  <2>. QED
    BY <1>1, <1>5, <1>6, <1>7, NoticeSteps
<1>. QED
  BY <1>1, <1>8

-------------------------------------------------------------------------------
(* Where the message is *)

LEMMA Messages ==
  ASSUME NEW kind, NEW what, NEW q, NEW w
  PROVE  /\ <<Message(kind, what)>> # <<>> /\ Head(<<Message(kind, what)>>).kind = kind
         /\ Head(<<Message(kind, what)>>).what = what /\ Tail(<<Message(kind, what)>>) = <<>>
         /\ Append(<<>>, Message(kind, what)) = <<Message(kind, what)>>
         /\ <<Message(kind, what)>> = <<Message(q, w)>> => kind = q /\ what = w
  BY DEF Message

LEMMA OrderYieldsFacts ==
  /\ \A y \in OrderYields : y # <<>> /\ Head(y).kind \in {"clear", "group", "done"}
  /\ \A y \in OrderYields : Head(y).kind = "clear" =>
       Tail(y) = <<Message("group", sent.orders), Message("done", 0)>>
  /\ \A y \in OrderYields : Head(y).kind = "group" => Head(y).what = sent.orders /\ Tail(y) = <<Message("done", 0)>>
  /\ \A y \in OrderYields : Head(y).kind = "done" => Tail(y) = <<>>
  /\ \A c : <<Message("control", c)>> \notin OrderYields
  /\ <<>> \notin OrderYields
<1>1. \A x, y, z : /\ Head(<<x, y, z>>) = x /\ Tail(<<x, y, z>>) = <<y, z>>
                   /\ Head(<<x, y>>) = x /\ Tail(<<x, y>>) = <<y>>
                   /\ Head(<<x>>) = x /\ Tail(<<x>>) = <<>>
                   /\ <<x, y, z>> # <<>> /\ <<x, y>> # <<>> /\ <<x>> # <<>>
  OBVIOUS
<1>2. \A k, w : Message(k, w).kind = k /\ Message(k, w).what = w
  BY DEF Message
<1>3. ASSUME NEW y \in OrderYields
      PROVE  \/ /\ Head(y) = Message("clear", 0) /\ y # <<>>
                /\ Tail(y) = <<Message("group", sent.orders), Message("done", 0)>>
             \/ Head(y) = Message("group", sent.orders) /\ Tail(y) = <<Message("done", 0)>> /\ y # <<>>
             \/ Head(y) = Message("done", 0) /\ Tail(y) = <<>> /\ y # <<>>
  <2>1. CASE y = <<Message("clear", 0), Message("group", sent.orders), Message("done", 0)>>
    BY <1>1, <2>1
  <2>2. CASE y = <<Message("group", sent.orders), Message("done", 0)>>
    BY <1>1, <2>2
  <2>3. CASE y = <<Message("done", 0)>>
    BY <1>1, <2>3
  <2>. QED
    BY <2>1, <2>2, <2>3 DEF OrderYields
<1>4. \A y \in OrderYields : y # <<>> /\ Head(y).kind \in {"clear", "group", "done"}
  BY <1>2, <1>3
<1>5. \A c : <<Message("control", c)>> \notin OrderYields
  BY <1>1, <1>2, <1>4
<1>. QED
  BY <1>2, <1>3, <1>4, <1>5

LEMMA StepsFacts ==
  ASSUME NEW type \in ControlType, NEW left \in StepsLeft(type)
  PROVE  /\ left # <<>> /\ Steps(type) \in StepsLeft(type)
         /\ Head(left) \in {"dispatch", "run", "subscribe", "factsheet", "finish"}
         /\ Head(left) \in {"dispatch", "run", "subscribe"} <=> type \in Commands
         /\ Head(left) = "run" => type = "cancelOrder"
         /\ Head(left) \in {"subscribe", "finish"} <=> Len(left) = 1
         /\ Len(left) # 1 => \E rest \in StepsLeft(type) : Tail(left) = rest /\ Head(rest) # "dispatch"
         /\ type \in Commands <=> Head(Steps(type)) = "dispatch"
<1>. DEFINE run3 == <<"dispatch", "run", "subscribe">>
            run2 == <<"run", "subscribe">>
            sub2 == <<"dispatch", "subscribe">>
            sub1 == <<"subscribe">>
            fin2 == <<"factsheet", "finish">>
            fin1 == <<"finish">>
            others == Tail(left)
<1>1. /\ Head(run3) = "dispatch" /\ Tail(run3) = run2 /\ Len(run3) = 3 /\ run3 # <<>>
      /\ Head(run2) = "run" /\ Tail(run2) = sub1 /\ Len(run2) = 2 /\ run2 # <<>>
      /\ Head(sub2) = "dispatch" /\ Tail(sub2) = sub1 /\ Len(sub2) = 2 /\ sub2 # <<>>
      /\ Head(sub1) = "subscribe" /\ Len(sub1) = 1 /\ sub1 # <<>>
      /\ Head(fin2) = "factsheet" /\ Tail(fin2) = fin1 /\ Len(fin2) = 2 /\ fin2 # <<>>
      /\ Head(fin1) = "finish" /\ Len(fin1) = 1 /\ fin1 # <<>>
  OBVIOUS
<1>2. /\ type = "cancelOrder" => Steps(type) = run3 /\ (\A l : l \in StepsLeft(type) <=> l = run3 \/ l = run2 \/ l = sub1)
      /\ type \in {"startPause", "stopPause"} => Steps(type) = sub2 /\ (\A l : l \in StepsLeft(type) <=> l = sub2 \/ l = sub1)
      /\ type = "factsheetRequest" => Steps(type) = fin2 /\ (\A l : l \in StepsLeft(type) <=> l = fin2 \/ l = fin1)
      /\ type = "stateRequest" => Steps(type) = fin1 /\ (\A l : l \in StepsLeft(type) <=> l = fin1)
  BY DEF Steps, StepsLeft, CancelSteps, FactsheetSteps, StateRequestSteps
<1>7. /\ left = run3 => others = run2
      /\ left = run2 => others = sub1
      /\ left = sub2 => others = sub1
      /\ left = fin2 => others = fin1
  BY <1>1
<1>. HIDE DEF run3, run2, sub2, sub1, fin2, fin1, others
<1>8. SUFFICES /\ left # <<>> /\ Steps(type) \in StepsLeft(type)
               /\ Head(left) \in {"dispatch", "run", "subscribe", "factsheet", "finish"}
               /\ Head(left) \in {"dispatch", "run", "subscribe"} <=> type \in Commands
               /\ Head(left) = "run" => type = "cancelOrder"
               /\ Head(left) \in {"subscribe", "finish"} <=> Len(left) = 1
               /\ Len(left) # 1 => others \in StepsLeft(type) /\ Head(others) # "dispatch"
               /\ type \in Commands <=> Head(Steps(type)) = "dispatch"
  <2>1. others = Tail(left)
    BY DEF others
  <2>. QED
    BY <2>1
<1>9. /\ Head(run3) = "dispatch" /\ Len(run3) = 3 /\ run3 # <<>>
      /\ Head(run2) = "run" /\ Len(run2) = 2 /\ run2 # <<>>
      /\ Head(sub2) = "dispatch" /\ Len(sub2) = 2 /\ sub2 # <<>>
      /\ Head(sub1) = "subscribe" /\ Len(sub1) = 1 /\ sub1 # <<>>
      /\ Head(fin2) = "factsheet" /\ Len(fin2) = 2 /\ fin2 # <<>>
      /\ Head(fin1) = "finish" /\ Len(fin1) = 1 /\ fin1 # <<>>
  BY <1>1
<1>3. CASE type = "cancelOrder"
  <2>1. CASE left = run3
    BY <1>7, <1>9, <1>2, <1>3, <2>1 DEF Commands
  <2>2. CASE left = run2
    BY <1>7, <1>9, <1>2, <1>3, <2>2 DEF Commands
  <2>3. CASE left = sub1
    BY <1>7, <1>9, <1>2, <1>3, <2>3 DEF Commands
  <2>. QED
    BY <1>2, <1>3, <2>1, <2>2, <2>3
<1>4. CASE type \in {"startPause", "stopPause"}
  <2>1. CASE left = sub2
    BY <1>7, <1>9, <1>2, <1>4, <2>1 DEF Commands
  <2>2. CASE left = sub1
    BY <1>7, <1>9, <1>2, <1>4, <2>2 DEF Commands
  <2>. QED
    BY <1>2, <1>4, <2>1, <2>2
<1>5. CASE type = "factsheetRequest"
  <2>1. CASE left = fin2
    BY <1>7, <1>9, <1>2, <1>5, <2>1 DEF Commands
  <2>2. CASE left = fin1
    BY <1>7, <1>9, <1>2, <1>5, <2>2 DEF Commands
  <2>. QED
    BY <1>2, <1>5, <2>1, <2>2
<1>6. CASE type = "stateRequest"
  BY <1>7, <1>9, <1>2, <1>6 DEF Commands
<1>. QED
  BY <1>3, <1>4, <1>5, <1>6 DEF ControlType

\* The guard of an action tells where the only message is.
LEMMA MessageTaken ==
  ASSUME OneAtATime, NEW kind, Takes(kind)
  PROVE  \/ kind = "receivedAction" /\ Newest > 0 /\ Arrived("receivedAction", Newest)
         \/ kind = "validAction" /\ Newest > 0 /\ Arrived("validAction", Newest)
         \/ kind = "receivedOrder" /\ sent.orders > 0 /\ Arrived("receivedOrder", sent.orders)
         \/ kind = "validOrder" /\ sent.orders > 0 /\ Arrived("validOrder", sent.orders)
<1>1. messages # <<>> /\ Head(messages).kind = kind
  BY DEF Takes
<1>. QED
  BY <1>1, Messages DEF OneAtATime, ControlUnderWay, OrderUnderWay, Arrived, IsEnabling

LEMMA EnablingSteps ==
  ASSUME OneAtATime, ControlsType, enabling # Nothing
  PROVE  /\ Newest > 0 /\ Newest \in Control /\ Type(Newest) \in ControlType /\ messages = <<>>
         /\ enabling.id = Newest /\ enabling.steps \in StepsLeft(Type(Newest))
         /\ enabling = [id |-> Newest, steps |-> enabling.steps]
         /\ yields = <<>> \/ (ControlGiven /\ Type(Newest) \in Commands /\ Head(enabling.steps) # "dispatch")
<1>1. Newest > 0 /\ IsEnabling
  BY DEF OneAtATime, ControlUnderWay, OrderUnderWay, Arrived
<1>2. Newest \in Control /\ Type(Newest) \in ControlType
  BY <1>1, ControlsAssumption DEF ControlsType, Newest, Control, Type
<1>. QED
  BY <1>1, <1>2 DEF IsEnabling

\* Before the first control nothing of a control is under way.
LEMMA NoControlYet ==
  ASSUME OneAtATime, ControlsType, Newest = 0
  PROVE  /\ messages # <<Message("receivedAction", Newest)>> /\ messages # <<Message("validAction", Newest)>>
         /\ enabling = Nothing /\ ~ControlGiven
<1>1. CASE messages = <<>> /\ enabling = Nothing /\ yields = <<>>
  <2>1. <<Message("control", Newest)>> # <<>> /\ <<Message("receivedAction", Newest)>> # <<>>
        /\ <<Message("validAction", Newest)>> # <<>>
    BY Messages
  <2>. QED
    BY <1>1, <2>1 DEF ControlGiven
<1>2. CASE OrderUnderWay
  <2>1. CASE Arrived("receivedOrder", sent.orders)
    <3>1. <<Message("receivedOrder", sent.orders)>> # <<Message("receivedAction", Newest)>>
      BY Messages
    <3>2. <<Message("receivedOrder", sent.orders)>> # <<Message("validAction", Newest)>>
      BY Messages
    <3>3. <<Message("control", Newest)>> # <<>>
      BY Messages
    <3>. QED
      BY <2>1, <3>1, <3>2, <3>3 DEF Arrived, ControlGiven
  <2>2. CASE Arrived("validOrder", sent.orders)
    <3>1. <<Message("validOrder", sent.orders)>> # <<Message("receivedAction", Newest)>>
      BY Messages
    <3>2. <<Message("validOrder", sent.orders)>> # <<Message("validAction", Newest)>>
      BY Messages
    <3>3. <<Message("control", Newest)>> # <<>>
      BY Messages
    <3>. QED
      BY <2>2, <3>1, <3>2, <3>3 DEF Arrived, ControlGiven
  <2>3. CASE messages = <<>> /\ enabling = Nothing /\ yields \in OrderYields
    <3>1. <<Message("control", Newest)>> \notin OrderYields
      BY OrderYieldsFacts
    <3>2. <<Message("receivedAction", Newest)>> # <<>> /\ <<Message("validAction", Newest)>> # <<>>
      BY Messages
    <3>. QED
      BY <2>3, <3>1, <3>2 DEF ControlGiven
  <2>. QED
    BY <1>2, <2>1, <2>2, <2>3 DEF OrderUnderWay
<1>3. ~ControlUnderWay
  BY DEF ControlUnderWay
<1>. QED
  BY <1>1, <1>2, <1>3 DEF OneAtATime

\* One step of a block is done.
LEMMA EnabledSteps ==
  ASSUME OneAtATime, ControlsType, enabling # Nothing, EnabledStep
  PROVE  \/ enabling' = Nothing /\ Head(enabling.steps) \in {"subscribe", "finish"}
         \/ /\ Head(enabling.steps) \notin {"subscribe", "finish"}
            /\ \E rest \in StepsLeft(Type(Newest)) :
                 enabling' = [id |-> Newest, steps |-> rest] /\ Head(rest) # "dispatch"
<1>. DEFINE left == enabling.steps
<1>1. /\ Type(Newest) \in ControlType /\ left \in StepsLeft(Type(Newest))
      /\ enabling = [id |-> Newest, steps |-> left]
  BY EnablingSteps
<1>2. enabling' = IF Len(left) = 1 THEN Nothing ELSE [enabling EXCEPT !.steps = Tail(left)]
  BY DEF EnabledStep
<1>. HIDE DEF left
<1>3. [enabling EXCEPT !.steps = Tail(left)] = [id |-> Newest, steps |-> Tail(left)]
  <2>. DEFINE rest == Tail(left)
  <2>. HIDE DEF rest
  <2>1. [enabling EXCEPT !.steps = rest] = [id |-> Newest, steps |-> rest]
    BY <1>1
  <2>. QED
    BY <2>1 DEF rest
<1>4. /\ Head(left) \in {"subscribe", "finish"} <=> Len(left) = 1
      /\ Len(left) # 1 => \E rest \in StepsLeft(Type(Newest)) : Tail(left) = rest /\ Head(rest) # "dispatch"
  BY <1>1, StepsFacts
<1>. QED
  BY <1>2, <1>3, <1>4 DEF left

LEMMA YieldTaken ==
  ASSUME OneAtATime, NEW kind, TakesYield(kind)
  PROVE  /\ messages = <<>>
         /\ \/ /\ kind = "control" /\ ControlGiven /\ Newest > 0 /\ Type(Newest) \in Commands
               /\ Head(yields).what = Newest /\ yields' = <<>>
               /\ enabling = Nothing \/ (IsEnabling /\ Head(enabling.steps) # "dispatch")
            \/ /\ kind \in {"clear", "group", "done"} /\ enabling = Nothing /\ sent.orders > 0
               /\ yields \in OrderYields
               /\ kind = "clear" => yields' = <<Message("group", sent.orders), Message("done", 0)>>
               /\ kind = "group" => Head(yields).what = sent.orders /\ yields' = <<Message("done", 0)>>
               /\ kind = "done" => yields' = <<>>
<1>1. yields # <<>> /\ Head(yields).kind = kind /\ yields' = Tail(yields)
  BY DEF TakesYield
<1>2. CASE yields \in OrderYields
  <2>1. messages = <<>> /\ enabling = Nothing /\ sent.orders > 0
    BY <1>1, <1>2, OrderYieldsFacts DEF OneAtATime, ControlUnderWay, OrderUnderWay, Arrived, IsEnabling, ControlGiven
  <2>. QED
    BY <1>1, <1>2, <2>1, OrderYieldsFacts
<1>3. CASE yields \notin OrderYields
  <2>1. ControlGiven /\ Newest > 0 /\ Type(Newest) \in Commands /\ messages = <<>>
        /\ (enabling = Nothing \/ (IsEnabling /\ Head(enabling.steps) # "dispatch"))
    <3>1. ControlUnderWay /\ messages = <<>>
      BY <1>1, <1>3 DEF OneAtATime, ControlUnderWay, OrderUnderWay, Arrived, IsEnabling, ControlGiven
    <3>2. CASE IsEnabling
      <4>1. PICK left \in StepsLeft(Type(Newest)) :
              /\ enabling = [id |-> Newest, steps |-> left]
              /\ yields = <<>> \/ (ControlGiven /\ Type(Newest) \in Commands /\ Head(left) # "dispatch")
        BY <3>2 DEF IsEnabling
      <4>2. enabling.steps = left
        BY <4>1
      <4>. QED
        BY <1>1, <3>1, <3>2, <4>1, <4>2 DEF ControlUnderWay
    <3>3. CASE ~IsEnabling
      BY <1>1, <3>1, <3>3 DEF ControlUnderWay, Arrived
    <3>. QED
      BY <3>2, <3>3
  <2>. QED
    BY <1>1, <2>1, Messages DEF ControlGiven
<1>. QED
  BY <1>2, <1>3

-------------------------------------------------------------------------------
(* The invariant *)

LEMMA NewIsOrderly == Orderly(NewScheduler)
<1>1. NewScheduler \in Schedulers
  BY NewSchedulerType
<1>2. \A S : <<>> \in Seq(S)
  BY EmptySeqType
<1>. QED
  BY <1>1, <1>2 DEF Orderly, Groups, Busy, NewScheduler, NoTask

LEMMA InitControl ==
  ASSUME Init
  PROVE  ControlInv
<1>1. \A S : <<>> \in Seq(S)
  BY EmptySeqType
<1>2. Newest = 0 /\ sent.types = <<>> /\ sent.orders = 0 /\ DOMAIN <<>> = {}
  BY DEF Init, Newest
<1>3. ControlsType
  <2>1. sent \in [types : Seq(ControlType), orders : Nat]
    BY <1>1 DEF Init
  <2>2. Len(Orders) \in Nat /\ MaxControls \in Nat
    BY ControlsAssumption
  <2>. QED
    BY <1>1, <1>2, <2>1, <2>2 DEF Init, ControlsType, SchedulerState, Status, Unknown
<1>4. Path = <<"idle">> /\ sch.state = "idle"
  BY DEF Init, Path, NewScheduler
<1>5. OneAtATime
  BY DEF Init, OneAtATime
<1>6. Progress
  BY DEF Init, Progress, ControlGiven
<1>7. sch.state = Latest(Path)
  BY <1>4 DEF Latest
<1>8. Ripe /\ StaysFeasible
  BY DEF Init, Ripe, Received, StaysFeasible, Undone, ControlGiven
<1>9. OrdersFindRest
  BY <1>4 DEF OrdersFindRest
<1>10. LatchForm
  BY <1>2 DEF Init, LatchForm, Range
<1>11. SeenForm
  BY DEF Init, SeenForm
<1>. QED
  BY <1>3, <1>5, <1>6, <1>7, <1>8, <1>9, <1>10, <1>11, NewIsOrderly DEF ControlInv, Init

\* The types of the controls.
LEMMA ControlTypes ==
  ASSUME ControlsType
  PROVE  /\ Newest \in Nat /\ Newest <= MaxControls /\ MaxControls \in Nat /\ sent.orders \in Nat
         /\ \A c \in 1..Newest : c \in Control /\ Type(c) \in ControlType
         /\ Len(Orders) \in Nat
  BY ControlsAssumption DEF ControlsType, Newest, Control, Type

\* The scheduler is left alone.
LEMMA SchedulerStays ==
  ASSUME ControlInv, UNCHANGED <<sch, events, status>>
  PROVE  Path' = Path /\ Orderly(sch') /\ sch'.state = Latest(Path')
  BY DEF ControlInv, Path

LEMMA ReceiveControlKeeps ==
  ASSUME Patient, ControlInv, NEW type \in ControlType, ReceiveControl(type)
  PROVE  ControlInv'
<1>0. ControlsType
  BY DEF ControlInv
<1>1. /\ sent' = [sent EXCEPT !.types = Append(@, type)]
      /\ messages = <<>> /\ enabling = Nothing /\ yields = <<>> /\ events = <<>>
      /\ messages' = <<Message("receivedAction", Newest + 1)>> /\ Newest < MaxControls
      /\ UNCHANGED <<enabling, yields, sch, events, status, states, latches, alive, seen, excused>>
  BY Messages DEF ReceiveControl, Receive, Settled, Newest
<1>2. Newest \in Nat /\ MaxControls \in Nat /\ Newest + 1 \in Control
  BY <1>0, <1>1, ControlTypes DEF Control
<1>3. /\ sent' \in [types : Seq(ControlType), orders : Nat] /\ Newest' = Newest + 1 /\ sent'.orders = sent.orders
      /\ \A c \in 1..Newest : Type(c)' = Type(c)
  <2>. DEFINE types == Append(sent.types, type)
  <2>1. sent.types \in Seq(ControlType) /\ sent \in [types : Seq(ControlType), orders : Nat]
    BY <1>0 DEF ControlsType
  <2>2. /\ types \in Seq(ControlType) /\ Len(types) = Len(sent.types) + 1
        /\ \A c \in 1..Len(sent.types) : types[c] = sent.types[c]
    BY <2>1
  <2>3. sent' = [sent EXCEPT !.types = types]
    BY <1>1
  <2>. HIDE DEF types
  <2>. QED
    BY <2>1, <2>2, <2>3 DEF Newest, Type
<1>4. Path' = Path /\ Orderly(sch') /\ sch'.state = Latest(Path')
  BY <1>1, SchedulerStays
<1>5. ControlsType'
  BY <1>0, <1>1, <1>2, <1>3 DEF ControlsType
<1>6. OneAtATime'
  BY <1>1, <1>2, <1>3 DEF OneAtATime, ControlUnderWay, Arrived
<1>7. seen[Newest + 1] = {}
  BY <1>2 DEF ControlInv, SeenForm
<1>8. Progress'
  BY <1>1, <1>3, <1>7, Messages DEF Progress, ControlGiven
<1>9. Ripe'
  <2>1. events = <<>> /\ Path = <<status>>
    BY <1>1 DEF Path
  <2>2. \A i, j \in DOMAIN <<status>> : <<status>>[i] = <<status>>[j]
    OBVIOUS
  <2>. QED
    BY <1>4, <2>1, <2>2 DEF Ripe, RipePath, Ripens
<1>10. StaysFeasible' /\ OrdersFindRest'
  BY <1>1, Messages, OrderYieldsFacts DEF StaysFeasible, Undone, ControlGiven, OrdersFindRest, OrderPending, OrderYields
<1>11. LatchForm'
  <2>1. SUFFICES ASSUME NEW x \in Range(latches)
                 PROVE  /\ Latched(x)' /\ seen'[x.id] # {} /\ states'[x.id] # "FINISHED" /\ x.id # Newest'
    BY <1>1, Messages DEF LatchForm
  <2>2. Latched(x) /\ seen[x.id] # {} /\ states[x.id] # "FINISHED"
    BY DEF ControlInv, LatchForm
  <2>. QED
    BY <1>1, <1>2, <1>3, <2>2 DEF Latched
<1>12. SeenForm'
  <2>1. SUFFICES ASSUME NEW c \in Control
                 PROVE  /\ c > Newest + 1 => seen[c] = {}
                        /\ seen[c] = {} => states[c] = Unknown
                        /\ seen[c] # {} /\ Type(c)' \in Commands => Range(events) \cap Leads(Type(c)') \subseteq seen[c]
    BY <1>1, <1>3 DEF SeenForm
  <2>2. c \in Nat
    BY DEF Control
  <2>3. /\ c > Newest => seen[c] = {}
        /\ seen[c] = {} => states[c] = Unknown
        /\ seen[c] # {} /\ Type(c) \in Commands => Range(events) \cap Leads(Type(c)) \subseteq seen[c]
    BY DEF ControlInv, SeenForm
  <2>4. seen[c] # {} => c \in 1..Newest
    BY <1>2, <2>2, <2>3 DEF Control
  <2>. QED
    BY <1>2, <1>3, <2>2, <2>3, <2>4
<1>. QED
  BY <1>4, <1>5, <1>6, <1>8, <1>9, <1>10, <1>11, <1>12 DEF ControlInv

\* Latches and what has been seen, when only a message moves.
LEMMA LatchesStay ==
  ASSUME ControlInv, Newest' = Newest, UNCHANGED <<events, latches, states, seen>>,
         \A c \in 1..Newest : Type(c)' = Type(c),
         messages' = <<Message("validAction", Newest)>> \/ enabling' # Nothing =>
           messages = <<Message("validAction", Newest)>> \/ enabling # Nothing
  PROVE  LatchForm' /\ SeenForm'
<1>0. Newest \in Nat /\ MaxControls \in Nat
  BY ControlTypes DEF ControlInv
<1>1. LatchForm'
  BY DEF ControlInv, LatchForm, Latched
<1>2. SeenForm'
  <2>1. SUFFICES ASSUME NEW c \in Control
                 PROVE  /\ c > Newest => seen[c] = {}
                        /\ seen[c] = {} => states[c] = Unknown
                        /\ seen[c] # {} /\ Type(c)' \in Commands => Range(events) \cap Leads(Type(c)') \subseteq seen[c]
    BY DEF SeenForm
  <2>2. c \in Nat
    BY DEF Control
  <2>3. /\ c > Newest => seen[c] = {}
        /\ seen[c] = {} => states[c] = Unknown
        /\ seen[c] # {} /\ Type(c) \in Commands => Range(events) \cap Leads(Type(c)) \subseteq seen[c]
    BY DEF ControlInv, SeenForm
  <2>4. seen[c] # {} => c \in 1..Newest
    BY <1>0, <2>2, <2>3 DEF Control
  <2>. QED
    BY <2>3, <2>4
<1>. QED
  BY <1>1, <1>2

LEMMA ReceiveOrderKeeps ==
  ASSUME Patient, ControlInv, ReceiveOrder
  PROVE  ControlInv'
<1>0. ControlsType
  BY DEF ControlInv
<1>1. /\ sent' = [sent EXCEPT !.orders = @ + 1]
      /\ messages = <<>> /\ enabling = Nothing /\ yields = <<>> /\ events = <<>>
      /\ messages' = <<Message("receivedOrder", sent.orders + 1)>> /\ sent.orders < Len(Orders)
      /\ UNCHANGED <<enabling, yields, sch, events, status, states, latches, alive, seen, excused>>
  BY Messages DEF ReceiveOrder, Receive, Settled
<1>2. Newest \in Nat /\ MaxControls \in Nat /\ sent.orders \in Nat /\ Len(Orders) \in Nat
  BY <1>0, ControlTypes
<1>3. /\ sent' \in [types : Seq(ControlType), orders : Nat] /\ Newest' = Newest /\ sent'.orders = sent.orders + 1
      /\ \A c : Type(c)' = Type(c)
  BY <1>0, <1>1 DEF ControlsType, Newest, Type
<1>4. Path' = Path /\ Orderly(sch') /\ sch'.state = Latest(Path')
  BY <1>1, SchedulerStays
<1>5. ControlsType'
  BY <1>0, <1>1, <1>2, <1>3 DEF ControlsType
<1>6. OneAtATime'
  BY <1>1, <1>2, <1>3 DEF OneAtATime, OrderUnderWay, Arrived
<1>8. Progress'
  BY <1>1, <1>3, Messages DEF Progress, ControlGiven
<1>9. Ripe'
  <2>1. events = <<>> /\ Path = <<status>>
    BY <1>1 DEF Path
  <2>2. \A i, j \in DOMAIN <<status>> : <<status>>[i] = <<status>>[j]
    OBVIOUS
  <2>. QED
    BY <1>4, <2>1, <2>2 DEF Ripe, RipePath, Ripens
<1>10. StaysFeasible'
  BY <1>1, Messages DEF StaysFeasible, Undone, ControlGiven
<1>11. OrdersFindRest'
  <2>1. ~OrderPending'
    BY <1>1, Messages DEF OrderPending, OrderYields
  <2>. QED
    BY <2>1 DEF OrdersFindRest
<1>12. LatchForm' /\ SeenForm'
  BY <1>1, <1>3, LatchesStay, Messages
<1>. QED
  BY <1>4, <1>5, <1>6, <1>8, <1>9, <1>10, <1>11, <1>12 DEF ControlInv

\* What is feasible stays feasible while the AGV reports, and what a command leads to is
\* not announced before the scheduler is there.
LEMMA FeasibleRipens ==
  ASSUME ControlInv, RipePath(Path), NEW type \in ControlType, controlActionFeasible(type)
  PROVE  /\ \A i \in DOMAIN Path : Path[i] \in FeasibleIn(type)
         /\ sch.state \in FeasibleIn(type)
         /\ type \in Commands => Range(events) \cap Leads(type) \subseteq {sch.state}
<1>1. /\ Path \in Seq(SchedulerState) /\ Len(Path) = Len(events) + 1 /\ Len(events) \in Nat
      /\ DOMAIN Path = 1..Len(Path) /\ Path[1] = status
      /\ \A i \in 1..Len(events) : Path[i + 1] = events[i]
      /\ sch.state = Path[Len(Path)] /\ events \in Seq(SchedulerState)
  BY PathIndex DEF ControlInv, ControlsType, Latest
<1>2. status \in FeasibleIn(type)
  BY DEF controlActionFeasible, FeasibleIn, ControlInv, ControlsType
<1>3. \A i \in DOMAIN Path : Path[i] \in SchedulerState
  BY <1>1
<1>4. ASSUME NEW i \in DOMAIN Path PROVE Path[i] \in FeasibleIn(type)
  <2>1. Ripens(status, Path[i])
    BY <1>1 DEF RipePath
  <2>2. Path[i] \in SchedulerState
    BY <1>3
  <2>. QED
    BY <1>2, <2>1, <2>2 DEF Ripens, FeasibleIn
<1>5. sch.state \in FeasibleIn(type)
  BY <1>1, <1>4
<1>6. ASSUME type \in Commands, NEW e \in Range(events), e \in Leads(type) PROVE e = sch.state
  <2>1. PICK i \in 1..Len(events) : events[i] = e
    BY <1>1 DEF Range
  <2>2. Path[i + 1] = e /\ i + 1 \in DOMAIN Path /\ i + 1 <= Len(Path) /\ Len(Path) \in DOMAIN Path
    BY <1>1, <2>1
  <2>3. Ripens(e, sch.state)
    BY <1>1, <2>2 DEF RipePath
  <2>4. e \in FeasibleIn(type)
    BY <1>4, <2>2
  <2>. QED
    BY <1>6, <2>3, <2>4 DEF Commands, FeasibleIn, Leads, Ripens
<1>. QED
  BY <1>4, <1>5, <1>6

LEMMA ValidateActionKeeps ==
  ASSUME ControlInv, ValidateAction
  PROVE  ControlInv'
<1>0. ControlsType
  BY DEF ControlInv
<1>1. Newest > 0 /\ Arrived("receivedAction", Newest)
  BY MessageTaken DEF ControlInv, ValidateAction
<1>2. /\ messages = <<Message("receivedAction", Newest)>> /\ enabling = Nothing /\ yields = <<>>
      /\ messages # <<>> /\ Head(messages).what = Newest /\ Tail(messages) = <<>>
  BY <1>1, Messages DEF Arrived
<1>3. /\ messages' = IF controlActionFeasible(Type(Newest)) THEN <<Message("validAction", Newest)>> ELSE <<>>
      /\ seen' = IF controlActionFeasible(Type(Newest)) THEN [seen EXCEPT ![Newest] = {sch.state}] ELSE seen
      /\ UNCHANGED <<sent, enabling, yields, sch, events, status, states, latches, alive, excused>>
  <2>. DEFINE rest == Tail(messages)
              c == Head(messages).what
  <2>1. rest = <<>> /\ c = Newest
    BY <1>2
  <2>2. /\ messages' = IF controlActionFeasible(Type(c)) THEN Append(rest, Message("validAction", c)) ELSE rest
        /\ seen' = IF controlActionFeasible(Type(c)) THEN [seen EXCEPT ![c] = {sch.state}] ELSE seen
        /\ UNCHANGED <<sent, enabling, yields, sch, events, status, states, latches, alive, excused>>
    BY DEF ValidateAction
  <2>. HIDE DEF rest, c
  <2>. QED
    BY <2>1, <2>2, Messages
<1>4. Newest \in Control /\ Type(Newest) \in ControlType /\ Newest' = Newest /\ \A c : Type(c)' = Type(c)
  BY <1>0, <1>1, <1>3, ControlTypes DEF Newest, Type
<1>5. Path' = Path /\ Orderly(sch') /\ sch'.state = Latest(Path')
  BY <1>3, SchedulerStays
<1>6. sch.state \in SchedulerState
  BY DEF ControlInv, Orderly, Groups, Schedulers
<1>7. ControlsType'
  BY <1>0, <1>3, <1>4, <1>6 DEF ControlsType
<1>8. CASE ~controlActionFeasible(Type(Newest))
  <2>1. messages' = <<>> /\ seen' = seen
    BY <1>3, <1>8
  <2>2. OneAtATime'
    BY <1>2, <1>3, <2>1 DEF OneAtATime
  <2>3. Progress'
    BY <1>2, <1>3, <2>1, Messages DEF Progress, ControlGiven
  <2>4. Ripe' /\ StaysFeasible' /\ OrdersFindRest'
    BY <1>2, <1>3, <2>1, Messages, OrderYieldsFacts DEF Ripe, Received, StaysFeasible, Undone, ControlGiven,
       OrdersFindRest, OrderPending, OrderYields
  <2>5. LatchForm' /\ SeenForm'
    BY <1>2, <1>3, <1>4, <2>1, LatchesStay, Messages
  <2>. QED
    BY <1>5, <1>7, <2>2, <2>3, <2>4, <2>5 DEF ControlInv
<1>9. CASE controlActionFeasible(Type(Newest))
  <2>1. /\ messages' = <<Message("validAction", Newest)>> /\ seen' \in [Control -> SUBSET SchedulerState]
        /\ seen'[Newest] = {sch.state} /\ \A c \in Control : c # Newest => seen'[c] = seen[c]
    BY <1>0, <1>3, <1>4, <1>6, <1>9 DEF ControlsType
  <2>2. OneAtATime'
    BY <1>1, <1>2, <1>3, <1>4, <2>1 DEF OneAtATime, ControlUnderWay, Arrived
  <2>3. seen[Newest] = {} /\ states[Newest] = Unknown
    BY <1>2, <1>4 DEF ControlInv, Progress, SeenForm
  <2>4. Progress'
    BY <1>2, <1>3, <1>4, <2>1, <2>3, Messages DEF Progress, ControlGiven
  <2>5. RipePath(Path)
    BY <1>2 DEF ControlInv, Ripe, Received
  <2>6. /\ \A i \in DOMAIN Path : Path[i] \in FeasibleIn(Type(Newest))
        /\ sch.state \in FeasibleIn(Type(Newest))
        /\ Type(Newest) \in Commands => Range(events) \cap Leads(Type(Newest)) \subseteq {sch.state}
    BY <1>4, <1>9, <2>5, FeasibleRipens
  <2>7. Ripe' /\ OrdersFindRest'
    BY <1>2, <1>3, <2>1, Messages, OrderYieldsFacts DEF Ripe, Received,
       OrdersFindRest, OrderPending, OrderYields
  <2>8. StaysFeasible'
    BY <1>3, <1>4, <1>5, <2>1, <2>3, <2>6 DEF StaysFeasible, FeasibleIn, Leads, Unknown
  <2>9. LatchForm'
    <3>1. SUFFICES ASSUME NEW x \in Range(latches)
                   PROVE  Latched(x)' /\ seen'[x.id] # {} /\ states'[x.id] # "FINISHED" /\ x.id # Newest
      BY <1>3, <1>4 DEF LatchForm
    <3>2. Latched(x) /\ seen[x.id] # {} /\ states[x.id] # "FINISHED"
      BY DEF ControlInv, LatchForm
    <3>3. x.id # Newest /\ x.id \in Control
      BY <1>0, <2>3, <3>2, ControlTypes DEF Latched
    <3>. QED
      BY <1>3, <1>4, <2>1, <3>2, <3>3 DEF Latched
  <2>10. SeenForm'
    <3>1. SUFFICES ASSUME NEW c \in Control
                   PROVE  /\ c > Newest => seen'[c] = {}
                          /\ seen'[c] = {} => states[c] = Unknown
                          /\ seen'[c] # {} /\ Type(c) \in Commands => Range(events) \cap Leads(Type(c)) \subseteq seen'[c]
      BY <1>3, <1>4 DEF SeenForm
    <3>2. CASE c = Newest
      <4>1. seen'[c] = {sch.state} /\ Newest \in Int
        BY <1>0, <2>1, <3>2, ControlTypes
      <4>2. ~(c > Newest) /\ seen'[c] # {}
        BY <3>2, <4>1
      <4>3. Type(c) \in Commands => Range(events) \cap Leads(Type(c)) \subseteq seen'[c]
        BY <2>6, <3>2, <4>1
      <4>. QED
        BY <4>2, <4>3
    <3>3. CASE c # Newest
      <4>1. SeenForm
        BY DEF ControlInv
      <4>2. seen'[c] = seen[c]
        BY <2>1, <3>3
      <4>. QED
        BY <4>1, <4>2 DEF SeenForm
    <3>. QED
      BY <3>2, <3>3
  <2>. QED
    BY <1>5, <1>7, <2>2, <2>4, <2>7, <2>8, <2>9, <2>10 DEF ControlInv
<1>. QED
  BY <1>8, <1>9

LEMMA handleValidInstantActionsKeeps ==
  ASSUME ControlInv, handleValidInstantActions
  PROVE  ControlInv'
<1>0. ControlsType
  BY DEF ControlInv
<1>1. Newest > 0 /\ Arrived("validAction", Newest)
  BY MessageTaken DEF ControlInv, handleValidInstantActions
<1>2. /\ messages = <<Message("validAction", Newest)>> /\ enabling = Nothing /\ yields = <<>>
      /\ messages # <<>> /\ Head(messages).what = Newest /\ Tail(messages) = <<>>
  BY <1>1, Messages DEF Arrived
<1>3. /\ messages' = <<>> /\ states' = [states EXCEPT ![Newest] = "WAITING"]
      /\ enabling' = [id |-> Newest, steps |-> Steps(Type(Newest))]
      /\ UNCHANGED <<sent, yields, sch, events, status, latches, alive, seen, excused>>
  BY <1>2 DEF handleValidInstantActions
<1>4. Newest \in Control /\ Type(Newest) \in ControlType /\ Newest' = Newest /\ (\A c : Type(c)' = Type(c)) /\ Newest \in Nat
  BY <1>0, <1>1, <1>3, ControlTypes DEF Newest, Type
<1>5. Path' = Path /\ Orderly(sch') /\ sch'.state = Latest(Path')
  BY <1>3, SchedulerStays
<1>6. states' \in [Control -> Status] /\ states'[Newest] = "WAITING" /\ \A c \in Control : c # Newest => states'[c] = states[c]
  BY <1>0, <1>3, <1>4 DEF ControlsType, Status
<1>7. ControlsType'
  BY <1>0, <1>3, <1>4, <1>6 DEF ControlsType
<1>8. /\ Steps(Type(Newest)) \in StepsLeft(Type(Newest)) /\ enabling' # Nothing
      /\ Head(enabling'.steps) = "dispatch" <=> Type(Newest) \in Commands
      /\ enabling'.steps = Steps(Type(Newest))
  <2>1. Steps(Type(Newest)) \in StepsLeft(Type(Newest))
        /\ (Type(Newest) \in Commands <=> Head(Steps(Type(Newest))) = "dispatch")
    <3>1. \E left \in StepsLeft(Type(Newest)) : TRUE
      BY <1>4 DEF StepsLeft, ControlType
    <3>. QED
      BY <1>4, <3>1, StepsFacts
  <2>2. enabling'.id = Newest /\ enabling'.steps = Steps(Type(Newest))
    BY <1>3
  <2>. QED
    BY <1>1, <2>1, <2>2 DEF Nothing
<1>9. OneAtATime'
  BY <1>1, <1>2, <1>3, <1>4, <1>8 DEF OneAtATime, ControlUnderWay, IsEnabling
<1>10. seen[Newest] # {} /\ states[Newest] = Unknown
  BY <1>2 DEF ControlInv, Progress
<1>11. Progress'
  BY <1>2, <1>3, <1>4, <1>6, <1>10 DEF Progress, ControlGiven, Unknown
<1>12. Ripe' /\ OrdersFindRest'
  BY <1>2, <1>3, OrderYieldsFacts DEF Ripe, Received, OrdersFindRest, OrderPending, OrderYields
<1>13. StaysFeasible'
  <2>1. Undone
    BY <1>2 DEF Undone
  <2>. QED
    BY <1>3, <1>4, <1>5, <1>6, <2>1 DEF StaysFeasible, ControlInv
<1>14. LatchForm'
  <2>1. SUFFICES ASSUME NEW x \in Range(latches)
                 PROVE  Latched(x)' /\ seen[x.id] # {} /\ states'[x.id] # "FINISHED" /\ x.id # Newest
    BY <1>3, <1>4 DEF LatchForm
  <2>2. Latched(x) /\ seen[x.id] # {} /\ states[x.id] # "FINISHED" /\ x.id # Newest
    BY <1>2 DEF ControlInv, LatchForm
  <2>. QED
    BY <1>0, <1>3, <1>4, <1>6, <2>2, ControlTypes DEF Latched
<1>15. SeenForm'
  BY <1>3, <1>4, <1>6, <1>10 DEF SeenForm, ControlInv
<1>. QED
  BY <1>5, <1>7, <1>9, <1>11, <1>12, <1>13, <1>14, <1>15 DEF ControlInv

LEMMA OnlyMessagesMove ==
  ASSUME ControlInv, UNCHANGED <<sent, sch, events, status>>
  PROVE  /\ Path' = Path /\ Orderly(sch') /\ sch'.state = Latest(Path')
         /\ Newest' = Newest /\ \A c : Type(c)' = Type(c)
  BY SchedulerStays DEF Newest, Type

\* The block that is being enabled.
LEMMA Enabling ==
  ASSUME ControlInv, enabling # Nothing
  PROVE  /\ Newest \in Control /\ Newest > 0 /\ Type(Newest) \in ControlType /\ messages = <<>>
         /\ enabling.id = Newest /\ enabling.steps \in StepsLeft(Type(Newest))
         /\ seen[Newest] # {} /\ states[Newest] \notin {Unknown, "FINISHED"}
         /\ yields = <<>> \/ (ControlGiven /\ Type(Newest) \in Commands /\ Head(enabling.steps) # "dispatch")
         /\ Head(enabling.steps) \in {"dispatch", "run", "subscribe"} <=> Type(Newest) \in Commands
         /\ Head(enabling.steps) = "run" => Type(Newest) = "cancelOrder"
         /\ \A x \in Range(latches) : x.id # Newest
<1>1. /\ Newest > 0 /\ Newest \in Control /\ Type(Newest) \in ControlType /\ messages = <<>>
      /\ enabling.id = Newest /\ enabling.steps \in StepsLeft(Type(Newest))
      /\ enabling = [id |-> Newest, steps |-> enabling.steps]
      /\ yields = <<>> \/ (ControlGiven /\ Type(Newest) \in Commands /\ Head(enabling.steps) # "dispatch")
  BY EnablingSteps DEF ControlInv
<1>2. seen[Newest] # {} /\ states[Newest] \notin {Unknown, "FINISHED"} /\ \A x \in Range(latches) : x.id # Newest
  BY DEF ControlInv, Progress, LatchForm
<1>3. /\ Head(enabling.steps) \in {"dispatch", "run", "subscribe"} <=> Type(Newest) \in Commands
      /\ Head(enabling.steps) = "run" => Type(Newest) = "cancelOrder"
  BY <1>1, StepsFacts
<1>. QED
  BY <1>1, <1>2, <1>3

LEMMA DispatchControlKeeps ==
  ASSUME ControlInv, DispatchControl
  PROVE  ControlInv'
<1>0. ControlsType
  BY DEF ControlInv
<1>1. /\ enabling # Nothing /\ Head(enabling.steps) = "dispatch" /\ EnabledStep
      /\ yields' = Append(yields, Message("control", enabling.id))
      /\ UNCHANGED <<sent, messages, sch, events, status, states, latches, alive, seen, excused>>
  BY DEF DispatchControl, Enables
<1>2. /\ Newest > 0 /\ messages = <<>> /\ enabling.id = Newest /\ yields = <<>> /\ Type(Newest) \in Commands
      /\ seen[Newest] # {} /\ states[Newest] \notin {Unknown, "FINISHED"}
  BY <1>1, Enabling
<1>3. yields' = <<Message("control", Newest)>> /\ messages' = <<>>
  BY <1>1, <1>2, Messages
<1>4. PICK rest \in StepsLeft(Type(Newest)) :
        enabling' = [id |-> Newest, steps |-> rest] /\ Head(rest) # "dispatch"
  BY <1>0, <1>1, EnabledSteps DEF ControlInv
<1>5. /\ Path' = Path /\ Orderly(sch') /\ sch'.state = Latest(Path')
      /\ Newest' = Newest /\ \A c : Type(c)' = Type(c)
  BY <1>1, OnlyMessagesMove
<1>6. ControlsType'
  BY <1>0, <1>1, <1>5 DEF ControlsType
<1>7. OneAtATime'
  BY <1>2, <1>3, <1>4, <1>5 DEF OneAtATime, ControlUnderWay, IsEnabling, ControlGiven
<1>8. Progress'
  BY <1>1, <1>2, <1>3, <1>5, Messages DEF Progress, ControlGiven
<1>9. Ripe' /\ OrdersFindRest'
  BY <1>3, Messages, OrderYieldsFacts DEF Ripe, Received, OrdersFindRest, OrderPending, OrderYields
<1>10. StaysFeasible'
  <2>1. Undone
    BY <1>1 DEF Undone
  <2>. QED
    BY <1>1, <1>5, <2>1 DEF StaysFeasible, ControlInv
<1>11. LatchForm' /\ SeenForm'
  BY <1>1, <1>5, LatchesStay
<1>. QED
  BY <1>5, <1>6, <1>7, <1>8, <1>9, <1>10, <1>11 DEF ControlInv

LEMMA ReportFromKeeps ==
  ASSUME ControlInv, ReportRunning \/ ReportFinished
  PROVE  ControlInv'
<1>0. ControlsType
  BY DEF ControlInv
<1>1. PICK step \in {"run", "finish"}, report \in {"RUNNING", "FINISHED"} :
        ReportFrom(step, report) /\ (step = "run" => report = "RUNNING")
  BY DEF ReportRunning, ReportFinished
<1>2. enabling # Nothing /\ Head(enabling.steps) = step
  BY <1>1 DEF ReportFrom, Enables
<1>3. /\ Newest > 0 /\ Newest \in Control /\ messages = <<>> /\ enabling.id = Newest
      /\ seen[Newest] # {} /\ states[Newest] \notin {Unknown, "FINISHED"}
      /\ yields = <<>> \/ (ControlGiven /\ Type(Newest) \in Commands)
      /\ step = "run" <=> Type(Newest) \in Commands
      /\ step = "run" => Type(Newest) = "cancelOrder"
      /\ \A x \in Range(latches) : x.id # Newest
  BY <1>2, Enabling
<1>4. /\ EnabledStep /\ states' = [states EXCEPT ![Newest] = report]
      /\ UNCHANGED <<alive, sent, messages, yields, sch, events, status, latches, seen, excused>>
  BY <1>1, <1>3 DEF ReportFrom
<1>5. /\ Path' = Path /\ Orderly(sch') /\ sch'.state = Latest(Path')
      /\ Newest' = Newest /\ \A c : Type(c)' = Type(c)
  BY <1>4, OnlyMessagesMove
<1>6. states' \in [Control -> Status] /\ states'[Newest] = report /\ \A c \in Control : c # Newest => states'[c] = states[c]
  BY <1>0, <1>3, <1>4 DEF ControlsType, Status
<1>7. ControlsType'
  BY <1>0, <1>4, <1>5, <1>6 DEF ControlsType
<1>8. \/ step = "finish" /\ enabling' = Nothing
      \/ step = "run" /\ \E rest \in StepsLeft(Type(Newest)) :
                           enabling' = [id |-> Newest, steps |-> rest] /\ Head(rest) # "dispatch"
  BY <1>0, <1>2, <1>4, EnabledSteps DEF ControlInv
<1>9. OneAtATime'
  <2>1. CASE step = "finish"
    BY <1>3, <1>4, <1>8, <2>1 DEF OneAtATime
  <2>2. CASE step = "run"
    <3>1. PICK rest \in StepsLeft(Type(Newest)) : enabling' = [id |-> Newest, steps |-> rest] /\ Head(rest) # "dispatch"
      BY <1>8, <2>2
    <3>. QED
      BY <1>3, <1>4, <1>5, <2>2, <3>1 DEF OneAtATime, ControlUnderWay, IsEnabling, ControlGiven
  <2>. QED
    BY <2>1, <2>2
<1>10. Progress'
  BY <1>1, <1>3, <1>4, <1>5, <1>6, <1>8, Messages DEF Progress, ControlGiven, Unknown
<1>11. Ripe' /\ OrdersFindRest'
  <2>1. ~Received' /\ (OrderPending' <=> OrderPending)
    BY <1>3, <1>4, Messages DEF Received, OrderPending, OrderYields
  <2>. QED
    BY <1>4, <2>1 DEF Ripe, OrdersFindRest, ControlInv
<1>12. StaysFeasible'
  <2>1. enabling' # Nothing => Head(enabling'.steps) # "dispatch"
    <3>1. \A rest : [id |-> Newest, steps |-> rest].steps = rest
      OBVIOUS
    <3>. QED
      BY <1>8, <3>1
  <2>2. ASSUME Undone' PROVE Undone /\ step = "run"
    BY <1>3, <1>4, <1>5, <1>8, <2>1, <2>2, Messages DEF Undone, ControlGiven
  <2>3. CASE Undone'
    BY <1>3, <1>4, <1>5, <2>2, <2>3 DEF StaysFeasible, ControlInv
  <2>. QED
    BY <2>3 DEF StaysFeasible
<1>13. LatchForm'
  <2>1. SUFFICES ASSUME NEW x \in Range(latches)
                 PROVE  Latched(x)' /\ seen[x.id] # {} /\ states'[x.id] # "FINISHED" /\ x.id # Newest
    BY <1>4, <1>5 DEF LatchForm
  <2>2. Latched(x) /\ seen[x.id] # {} /\ states[x.id] # "FINISHED" /\ x.id # Newest
    BY <1>3 DEF ControlInv, LatchForm
  <2>. QED
    BY <1>0, <1>4, <1>5, <1>6, <2>2, ControlTypes DEF Latched
<1>14. SeenForm'
  BY <1>3, <1>4, <1>5, <1>6 DEF SeenForm, ControlInv
<1>. QED
  BY <1>5, <1>7, <1>9, <1>10, <1>11, <1>12, <1>13, <1>14 DEF ControlInv

LEMMA SendFactsheetKeeps ==
  ASSUME ControlInv, SendFactsheet
  PROVE  ControlInv'
<1>0. ControlsType
  BY DEF ControlInv
<1>1. /\ enabling # Nothing /\ Head(enabling.steps) = "factsheet"
      /\ (EnabledStep /\ UNCHANGED alive) \/ (alive' = alive \ {"message"} /\ UNCHANGED enabling)
      /\ UNCHANGED <<sent, messages, yields, sch, events, status, states, latches, seen, excused>>
  BY DEF SendFactsheet, Enables, Gathered, GatheredLate, Ends
<1>2. /\ Newest > 0 /\ messages = <<>> /\ enabling.id = Newest /\ yields = <<>> /\ Type(Newest) \notin Commands
      /\ seen[Newest] # {} /\ states[Newest] \notin {Unknown, "FINISHED"}
      /\ enabling.steps \in StepsLeft(Type(Newest))
  BY <1>1, Enabling
<1>3. /\ Path' = Path /\ Orderly(sch') /\ sch'.state = Latest(Path')
      /\ Newest' = Newest /\ \A c : Type(c)' = Type(c)
  BY <1>1, OnlyMessagesMove
<1>4. \E rest \in StepsLeft(Type(Newest)) :
        enabling' = [id |-> Newest, steps |-> rest] /\ Head(rest) # "dispatch"
  <2>1. CASE EnabledStep
    BY <1>0, <1>1, <2>1, EnabledSteps DEF ControlInv
  <2>2. CASE UNCHANGED enabling
    <3>1. enabling = [id |-> Newest, steps |-> enabling.steps]
      BY <1>0, <1>1, EnablingSteps DEF ControlInv
    <3>. QED
      BY <1>1, <1>2, <2>2, <3>1
  <2>. QED
    BY <1>1, <2>1, <2>2
<1>5. PICK rest \in StepsLeft(Type(Newest)) :
        enabling' = [id |-> Newest, steps |-> rest] /\ Head(rest) # "dispatch"
  BY <1>4
<1>6. ControlsType'
  BY <1>0, <1>1, <1>3 DEF ControlsType
<1>7. OneAtATime'
  BY <1>1, <1>2, <1>3, <1>5 DEF OneAtATime, ControlUnderWay, IsEnabling
<1>8. Progress'
  BY <1>1, <1>2, <1>3, Messages DEF Progress, ControlGiven
<1>9. Ripe' /\ OrdersFindRest'
  BY <1>1, <1>2, Messages, OrderYieldsFacts DEF Ripe, Received, OrdersFindRest, OrderPending, OrderYields
<1>10. StaysFeasible'
  <2>1. enabling'.steps = rest
    BY <1>5
  <2>. QED
    BY <1>1, <1>2, <1>5, <2>1, Messages DEF StaysFeasible, Undone, ControlGiven
<1>11. LatchForm' /\ SeenForm'
  BY <1>1, <1>3, LatchesStay
<1>. QED
  BY <1>3, <1>6, <1>7, <1>8, <1>9, <1>10, <1>11 DEF ControlInv

\* The alternatives of a command.
LEMMA EnabledChains ==
  ASSUME NEW c \in Control, Type(c) \in Commands
  PROVE  /\ Enabled(c) \in Seq(Subscribed)
         /\ \A x \in Range(Enabled(c)) : x.id = c /\ x.chain \in Chains(Type(c))
         /\ \A i \in DOMAIN Blocks(Type(c)) :
              /\ [id |-> c, chain |-> Blocks(Type(c))[i]] \in Range(Enabled(c))
              /\ Blocks(Type(c))[i] \in Chains(Type(c))
<1>. DEFINE type == Type(c)
            B == Blocks(type)
<1>1. DOMAIN B = 1..Len(B) /\ Len(B) \in Nat /\ \A i \in DOMAIN B : B[i] \in Chains(type)
  <2>1. CASE type = "cancelOrder"
    <3>1. B = CancelBlock
      BY <2>1 DEF Blocks
    <3>2. DOMAIN CancelBlock = {1} /\ Len(CancelBlock) = 1
      BY DEF CancelBlock
    <3>. QED
      BY <2>1, <3>1, <3>2 DEF Chains
  <2>2. CASE type = "startPause"
    <3>1. B = PauseBlock
      BY <2>2 DEF Blocks
    <3>2. DOMAIN PauseBlock = {1, 2} /\ Len(PauseBlock) = 2
      BY DEF PauseBlock
    <3>. QED
      BY <2>2, <3>1, <3>2 DEF Chains
  <2>3. CASE type = "stopPause"
    <3>1. B = ResumeBlock
      BY <2>3 DEF Blocks
    <3>2. DOMAIN ResumeBlock = {1, 2} /\ Len(ResumeBlock) = 2
      BY DEF ResumeBlock
    <3>. QED
      BY <2>3, <3>1, <3>2 DEF Chains
  <2>. QED
    BY <2>1, <2>2, <2>3 DEF Commands
<1>2. \A chain \in Chains(type) : [id |-> c, chain |-> chain] \in Subscribed
  <2>1. type \in Commands
    OBVIOUS
  <2>2. \A chain \in Chains(type) : chain \in Seq(LatchSet) \ {<<>>}
    <3>. HIDE DEF type
    <3>. QED
      BY <2>1, ChainFacts
  <2>. QED
    BY <2>2 DEF Subscribed
<1>3. Enabled(c) = [i \in DOMAIN B |-> [id |-> c, chain |-> B[i]]]
  BY DEF Enabled
<1>. HIDE DEF B, type
<1>4. Enabled(c) \in Seq(Subscribed)
  <2>1. Enabled(c) \in [1..Len(B) -> Subscribed]
    BY <1>1, <1>2, <1>3
  <2>. QED
    BY <1>1, <2>1
<1>. QED
  BY <1>1, <1>3, <1>4 DEF Range, type, B

LEMMA SubscribeKeeps ==
  ASSUME ControlInv, Subscribe
  PROVE  ControlInv'
<1>0. ControlsType
  BY DEF ControlInv
<1>1. /\ enabling # Nothing /\ Head(enabling.steps) = "subscribe" /\ EnabledStep
      /\ latches' = latches \o Enabled(enabling.id)
      /\ UNCHANGED <<sent, messages, yields, sch, events, status, states, alive, seen, excused>>
  BY DEF Subscribe, Enables
<1>2. /\ Newest > 0 /\ Newest \in Control /\ messages = <<>> /\ enabling.id = Newest /\ Type(Newest) \in Commands
      /\ seen[Newest] # {} /\ states[Newest] \notin {Unknown, "FINISHED"}
      /\ yields = <<>> \/ ControlGiven
  BY <1>1, Enabling
<1>3. /\ Path' = Path /\ Orderly(sch') /\ sch'.state = Latest(Path')
      /\ Newest' = Newest /\ \A c : Type(c)' = Type(c)
  BY <1>1, OnlyMessagesMove
<1>4. enabling' = Nothing
  BY <1>0, <1>1, EnabledSteps DEF ControlInv
<1>5. /\ Enabled(Newest) \in Seq(Subscribed)
      /\ \A x \in Range(Enabled(Newest)) : x.id = Newest /\ x.chain \in Chains(Type(Newest))
  BY <1>2, EnabledChains
<1>6. latches' \in Seq(Subscribed) /\ \A x : x \in Range(latches') <=> x \in Range(latches) \/ x \in Range(Enabled(Newest))
  <2>1. latches \in Seq(Subscribed) /\ latches' = latches \o Enabled(Newest)
    BY <1>0, <1>1, <1>2 DEF ControlsType
  <2>. QED
    BY <1>5, <2>1, ConcatRange, ConcatType
<1>7. ControlsType'
  BY <1>0, <1>1, <1>3, <1>6 DEF ControlsType
<1>8. OneAtATime'
  BY <1>1, <1>2, <1>3, <1>4 DEF OneAtATime, ControlUnderWay, ControlGiven
<1>9. Progress'
  BY <1>1, <1>2, <1>3, <1>4, Messages DEF Progress, ControlGiven
<1>10. Ripe' /\ OrdersFindRest'
  <2>1. ~Received' /\ (OrderPending' <=> OrderPending)
    BY <1>1, <1>2, Messages DEF Received, OrderPending, OrderYields
  <2>. QED
    BY <1>1, <2>1 DEF Ripe, OrdersFindRest, ControlInv
<1>11. StaysFeasible'
  <2>1. Undone' => Undone
    BY <1>1, <1>2, <1>3, <1>4, Messages DEF Undone, ControlGiven
  <2>. QED
    BY <1>1, <1>3, <2>1 DEF StaysFeasible, ControlInv
<1>12. LatchForm'
  <2>1. SUFFICES ASSUME NEW x \in Range(latches')
                 PROVE  Latched(x)' /\ seen[x.id] # {} /\ states[x.id] # "FINISHED"
    BY <1>1, <1>2, <1>3, <1>4, Messages DEF LatchForm
  <2>2. Latched(x) /\ seen[x.id] # {} /\ states[x.id] # "FINISHED"
    <3>1. CASE x \in Range(latches)
      BY <3>1 DEF ControlInv, LatchForm
    <3>2. CASE x \in Range(Enabled(Newest))
      BY <1>0, <1>2, <1>5, <3>2, ControlTypes DEF Latched
    <3>. QED
      BY <1>6, <3>1, <3>2
  <2>. QED
    BY <1>3, <2>2 DEF Latched
<1>13. SeenForm'
  BY <1>1, <1>3 DEF SeenForm, ControlInv
<1>. QED
  BY <1>3, <1>7, <1>8, <1>9, <1>10, <1>11, <1>12, <1>13 DEF ControlInv

LEMMA ValidateOrderKeeps ==
  ASSUME ControlInv, ValidateOrder
  PROVE  ControlInv'
<1>0. ControlsType
  BY DEF ControlInv
<1>1. sent.orders > 0 /\ Arrived("receivedOrder", sent.orders)
  BY MessageTaken DEF ControlInv, ValidateOrder
<1>2. /\ messages = <<Message("receivedOrder", sent.orders)>> /\ enabling = Nothing /\ yields = <<>>
      /\ Head(messages).what = sent.orders
  BY <1>1, Messages DEF Arrived
<1>3. /\ messages' = IF status \in {"idle", "idle_paused"} THEN <<Message("validOrder", sent.orders)>> ELSE <<>>
      /\ UNCHANGED <<sent, enabling, yields, sch, events, status, states, latches, alive, seen, excused>>
  <2>. DEFINE rest == Tail(messages)
              w == Head(messages).what
  <2>1. rest = <<>> /\ w = sent.orders
    BY <1>2
  <2>2. /\ messages' = IF status \in {"idle", "idle_paused"} THEN Append(rest, Message("validOrder", w)) ELSE rest
        /\ UNCHANGED <<sent, enabling, yields, sch, events, status, states, latches, alive, seen, excused>>
    BY DEF ValidateOrder
  <2>. HIDE DEF rest, w
  <2>. QED
    BY <2>1, <2>2, Messages
<1>4. /\ Path' = Path /\ Orderly(sch') /\ sch'.state = Latest(Path')
      /\ Newest' = Newest /\ \A c : Type(c)' = Type(c)
  BY <1>3, OnlyMessagesMove
<1>5. ControlsType'
  BY <1>0, <1>3, <1>4 DEF ControlsType
<1>6. OneAtATime'
  BY <1>1, <1>2, <1>3 DEF OneAtATime, OrderUnderWay, Arrived
<1>7. Progress'
  BY <1>2, <1>3, Messages DEF Progress, ControlGiven
<1>8. Ripe' /\ StaysFeasible'
  BY <1>2, <1>3, Messages DEF Ripe, Received, StaysFeasible, Undone, ControlGiven
<1>9. OrdersFindRest'
  <2>1. CASE status \notin {"idle", "idle_paused"}
    <3>1. ~OrderPending'
      BY <1>2, <1>3, <2>1, OrderYieldsFacts DEF OrderPending, OrderYields
    <3>. QED
      BY <3>1 DEF OrdersFindRest
  <2>2. CASE status \in {"idle", "idle_paused"}
    <3>1. RipePath(Path) /\ sch.state = Path[Len(Path)]
      BY <1>2 DEF ControlInv, Ripe, Received, Latest
    <3>2. Path[1] = status /\ Len(Path) = Len(events) + 1 /\ Len(events) \in Nat /\ DOMAIN Path = 1..Len(Path)
      BY <1>0, PathIndex DEF ControlsType
    <3>3. Ripens(status, sch.state)
      BY <3>1, <3>2 DEF RipePath
    <3>4. sch.state \in {"idle", "idle_paused"}
      BY <2>2, <3>3 DEF Ripens
    <3>. QED
      BY <1>3, <3>4 DEF OrdersFindRest
  <2>. QED
    BY <2>1, <2>2
<1>10. LatchForm' /\ SeenForm'
  <2>1. messages' # <<Message("validAction", Newest)>>
    BY <1>3, Messages
  <2>. QED
    BY <1>2, <1>3, <1>4, <2>1, LatchesStay
<1>. QED
  BY <1>4, <1>5, <1>6, <1>7, <1>8, <1>9, <1>10 DEF ControlInv

LEMMA handleValidOrderKeeps ==
  ASSUME ControlInv, handleValidOrder
  PROVE  ControlInv'
<1>0. ControlsType
  BY DEF ControlInv
<1>1. sent.orders > 0 /\ Arrived("validOrder", sent.orders)
  BY MessageTaken DEF ControlInv, handleValidOrder
<1>2. /\ messages = <<Message("validOrder", sent.orders)>> /\ enabling = Nothing /\ yields = <<>>
      /\ Head(messages).what = sent.orders
  BY <1>1, Messages DEF Arrived
<1>3. /\ messages' = <<>> /\ yields' \in OrderYields
      /\ UNCHANGED <<sent, enabling, sch, events, status, states, latches, alive, seen, excused>>
  <2>. DEFINE w == Head(messages).what
              given == <<Message("clear", 0), Message("group", w), Message("done", 0)>>
  <2>1. w = sent.orders /\ Tail(messages) = <<>> /\ yields = <<>>
    BY <1>2
  <2>2. /\ yields' = yields \o given /\ messages' = Tail(messages)
        /\ UNCHANGED <<sent, enabling, sch, events, status, states, latches, alive, seen, excused>>
    BY DEF handleValidOrder
  <2>3. given \in OrderYields
    BY <2>1 DEF OrderYields
  <2>4. \A x, y, z : <<>> \o <<x, y, z>> = <<x, y, z>>
    OBVIOUS
  <2>5. yields' = given
    BY <2>1, <2>2, <2>4
  <2>. QED
    BY <2>1, <2>2, <2>3, <2>5
<1>4. /\ Path' = Path /\ Orderly(sch') /\ sch'.state = Latest(Path')
      /\ Newest' = Newest /\ \A c : Type(c)' = Type(c)
  BY <1>3, OnlyMessagesMove
<1>5. ControlsType'
  BY <1>0, <1>3, <1>4 DEF ControlsType
<1>6. OrderYields' = OrderYields
  BY <1>3 DEF OrderYields
<1>7. OneAtATime'
  BY <1>1, <1>2, <1>3, <1>6 DEF OneAtATime, OrderUnderWay
<1>8. \A c : yields' # <<Message("control", c)>>
  BY <1>3, OrderYieldsFacts
<1>9. Progress'
  BY <1>2, <1>3, <1>8, Messages DEF Progress, ControlGiven
<1>10. Ripe' /\ StaysFeasible'
  BY <1>2, <1>3, <1>8, Messages DEF Ripe, Received, StaysFeasible, Undone, ControlGiven
<1>11. OrdersFindRest'
  <2>1. OrderPending
    BY <1>2 DEF OrderPending
  <2>. QED
    BY <1>3, <2>1 DEF OrdersFindRest, ControlInv
<1>12. LatchForm' /\ SeenForm'
  BY <1>2, <1>3, <1>4, LatchesStay, Messages
<1>. QED
  BY <1>4, <1>5, <1>7, <1>9, <1>10, <1>11, <1>12 DEF ControlInv

LEMMA handleClearActionsKeeps ==
  ASSUME ControlInv, handleClearActions
  PROVE  ControlInv'
<1>0. ControlsType
  BY DEF ControlInv
<1>1. /\ TakesYield("clear") /\ states' = [c \in Control |-> Unknown]
      /\ UNCHANGED <<sent, messages, enabling, sch, events, status, latches, alive, seen, excused>>
  BY DEF handleClearActions
<1>2. /\ messages = <<>> /\ enabling = Nothing /\ sent.orders > 0 /\ yields \in OrderYields
      /\ yields' = <<Message("group", sent.orders), Message("done", 0)>>
  BY <1>1, YieldTaken DEF ControlInv
<1>3. /\ Path' = Path /\ Orderly(sch') /\ sch'.state = Latest(Path')
      /\ Newest' = Newest /\ \A c : Type(c)' = Type(c)
  BY <1>1, OnlyMessagesMove
<1>4. states' \in [Control -> Status] /\ \A c \in Control : states'[c] = Unknown
  BY <1>1 DEF Status
<1>5. ControlsType'
  BY <1>0, <1>1, <1>3, <1>4 DEF ControlsType
<1>6. yields' \in OrderYields /\ OrderYields' = OrderYields
  BY <1>1, <1>2 DEF OrderYields
<1>7. OneAtATime'
  BY <1>1, <1>2, <1>6 DEF OneAtATime, OrderUnderWay
<1>8. \A c : yields' # <<Message("control", c)>>
  BY <1>6, OrderYieldsFacts
<1>9. Progress'
  BY <1>1, <1>2, <1>8, Messages DEF Progress, ControlGiven
<1>10. Ripe' /\ StaysFeasible'
  BY <1>1, <1>2, <1>8, Messages DEF Ripe, Received, StaysFeasible, Undone, ControlGiven
<1>11. OrdersFindRest'
  <2>1. OrderPending
    BY <1>2 DEF OrderPending
  <2>. QED
    BY <1>1, <2>1 DEF OrdersFindRest, ControlInv
<1>12. LatchForm'
  <2>1. SUFFICES ASSUME NEW x \in Range(latches)
                 PROVE  Latched(x)' /\ seen[x.id] # {} /\ states'[x.id] # "FINISHED"
    BY <1>1, <1>2, Messages DEF LatchForm
  <2>2. Latched(x) /\ seen[x.id] # {}
    BY DEF ControlInv, LatchForm
  <2>. QED
    BY <1>0, <1>3, <1>4, <2>2, ControlTypes DEF Latched, Unknown
<1>13. SeenForm'
  BY <1>1, <1>3, <1>4 DEF SeenForm, ControlInv
<1>. QED
  BY <1>3, <1>5, <1>7, <1>9, <1>10, <1>11, <1>12, <1>13 DEF ControlInv

-------------------------------------------------------------------------------
(* Calls of the scheduler *)

\* What is announced last is where the scheduler is.
Announces(r, s) ==
  \/ r.notes = <<>> /\ r.state = s.state
  \/ r.notes # <<>> /\ r.notes[Len(r.notes)] = r.state

LEMMA NoteFacts ==
  ASSUME NEW x, NEW y, NEW z
  PROVE  /\ Note(x) # <<>> /\ Len(Note(x)) = 1 /\ Note(x)[1] = x /\ Range(Note(x)) = {x}
         /\ Note2(x, y) # <<>> /\ Len(Note2(x, y)) = 2 /\ Note2(x, y)[1] = x /\ Note2(x, y)[2] = y
         /\ Range(Note2(x, y)) = {x, y}
         /\ Note3(x, y, z) # <<>> /\ Len(Note3(x, y, z)) = 3 /\ Note3(x, y, z)[1] = x /\ Note3(x, y, z)[2] = y
         /\ Note3(x, y, z)[3] = z /\ Range(Note3(x, y, z)) = {x, y, z}
<1>. DEFINE S == {x, y, z}
            n1 == Note(x)
            n2 == Note2(x, y)
            n3 == Note3(x, y, z)
<1>1. n1 = Append(<<>>, x) /\ n2 = Append(n1, y) /\ n3 = Append(n2, z)
  BY DEF Note, Note2, Note3
<1>. HIDE DEF n1, n2, n3
<1>2. <<>> \in Seq(S) /\ Len(<<>>) = 0
  BY EmptySeqType
<1>3. n1 \in Seq(S) /\ Len(n1) = 1 /\ n1[1] = x
  BY <1>1
<1>4. n2 \in Seq(S) /\ Len(n2) = Len(n1) + 1 /\ n2[Len(n1) + 1] = y /\ \A i \in 1..Len(n1) : n2[i] = n1[i]
  BY <1>1, <1>3
<1>5. Len(n2) = 2 /\ n2[1] = x /\ n2[2] = y
  BY <1>3, <1>4
<1>6. n3 \in Seq(S) /\ Len(n3) = Len(n2) + 1 /\ n3[Len(n2) + 1] = z /\ \A i \in 1..Len(n2) : n3[i] = n2[i]
  BY <1>1, <1>4
<1>7. Len(n3) = 3 /\ n3[1] = x /\ n3[2] = y /\ n3[3] = z
  BY <1>5, <1>6
<1>8. DOMAIN n1 = {1} /\ DOMAIN n2 = {1, 2} /\ DOMAIN n3 = {1, 2, 3}
  BY <1>3, <1>4, <1>5, <1>6, <1>7
<1>9. Range(n1) = {x} /\ Range(n2) = {x, y} /\ Range(n3) = {x, y, z}
  BY <1>3, <1>5, <1>7, <1>8 DEF Range
<1>10. n1 # <<>> /\ n2 # <<>> /\ n3 # <<>>
  BY <1>2, <1>3, <1>5, <1>7
<1>. QED
  BY <1>3, <1>5, <1>7, <1>9, <1>10 DEF n1, n2, n3

LEMMA NoteLast ==
  /\ \A x : Note(x) # <<>> /\ Note(x)[Len(Note(x))] = x
  /\ \A x, y : Note2(x, y) # <<>> /\ Note2(x, y)[Len(Note2(x, y))] = y
  /\ \A x, y, z : Note3(x, y, z) # <<>> /\ Note3(x, y, z)[Len(Note3(x, y, z))] = z
<1>1. SUFFICES ASSUME NEW x, NEW y, NEW z
               PROVE  /\ Note(x) # <<>> /\ Note(x)[Len(Note(x))] = x
                      /\ Note2(x, y) # <<>> /\ Note2(x, y)[Len(Note2(x, y))] = y
                      /\ Note3(x, y, z) # <<>> /\ Note3(x, y, z)[Len(Note3(x, y, z))] = z
  OBVIOUS
<1>2. /\ Note(x) # <<>> /\ Len(Note(x)) = 1 /\ Note(x)[1] = x
      /\ Note2(x, y) # <<>> /\ Len(Note2(x, y)) = 2 /\ Note2(x, y)[2] = y
      /\ Note3(x, y, z) # <<>> /\ Len(Note3(x, y, z)) = 3 /\ Note3(x, y, z)[3] = z
  BY NoteFacts
<1>. QED
  BY <1>2

\* What a call adds to what has been seen.
LEMMA CallSeen ==
  ASSUME ControlInv, NEW r, Orderly(r), Call(r)
  PROVE  /\ events' \in Seq(SchedulerState) /\ seen' \in [Control -> SUBSET SchedulerState]
         /\ r.notes \in Seq(SchedulerState) /\ r.state \in SchedulerState
         /\ sch' = r /\ events' = events \o r.notes
         /\ \A c \in Control : /\ seen'[c] = {} <=> seen[c] = {}
                               /\ seen[c] # {} => seen'[c] = seen[c] \cup {r.state} \cup Range(r.notes)
         /\ \A e : e \in Range(events') <=> e \in Range(events) \/ e \in Range(r.notes)
<1>1. r.notes \in Seq(SchedulerState) /\ r.state \in SchedulerState
  BY DEF Orderly, Groups, Schedulers
<1>2. events \in Seq(SchedulerState) /\ seen \in [Control -> SUBSET SchedulerState]
  BY DEF ControlInv, ControlsType
<1>3. Range(r.notes) \subseteq SchedulerState
  BY <1>1, SeqRange
<1>4. events' = events \o r.notes /\ sch' = r
      /\ seen' = [c \in Control |-> IF seen[c] = {} THEN {} ELSE seen[c] \cup {r.state} \cup Range(r.notes)]
  BY DEF Call
<1>5. events' \in Seq(SchedulerState)
  BY <1>1, <1>2, <1>4, ConcatType
<1>6. \A e : e \in Range(events') <=> e \in Range(events) \/ e \in Range(r.notes)
  BY <1>1, <1>2, <1>4, ConcatRange
<1>. HIDE DEF Range
<1>. QED
  BY <1>1, <1>2, <1>3, <1>4, <1>5, <1>6

\* A call keeps what is known of latches and of what has been seen.
LEMMA CallForms ==
  ASSUME ControlInv, NEW r, Orderly(r), Call(r), UNCHANGED <<sent, latches>>,
         states' \in [Control -> Status],
         \A c \in Control : seen[c] = {} => states'[c] = Unknown,
         \A c \in Control : states'[c] = "FINISHED" => states[c] = "FINISHED",
         messages' = <<Message("validAction", Newest)>> \/ enabling' # Nothing =>
           messages = <<Message("validAction", Newest)>> \/ enabling # Nothing
  PROVE  LatchForm' /\ SeenForm' /\ Newest' = Newest /\ (\A c : Type(c)' = Type(c)) /\ Orderly(sch')
<1>0. ControlsType
  BY DEF ControlInv
<1>1. /\ sch' = r
      /\ \A c \in Control : /\ seen'[c] = {} <=> seen[c] = {}
                            /\ seen[c] # {} => seen'[c] = seen[c] \cup {r.state} \cup Range(r.notes)
      /\ \A e : e \in Range(events') <=> e \in Range(events) \/ e \in Range(r.notes)
  BY CallSeen
<1>2. Newest' = Newest /\ \A c : Type(c)' = Type(c)
  BY DEF Newest, Type
<1>3. LatchForm'
  <2>1. SUFFICES ASSUME NEW x \in Range(latches)
                 PROVE  /\ Latched(x)' /\ seen'[x.id] # {} /\ states'[x.id] # "FINISHED"
                        /\ messages' = <<Message("validAction", Newest)>> \/ enabling' # Nothing => x.id # Newest
    BY <1>2 DEF LatchForm
  <2>2. /\ Latched(x) /\ seen[x.id] # {} /\ states[x.id] # "FINISHED"
        /\ messages = <<Message("validAction", Newest)>> \/ enabling # Nothing => x.id # Newest
    BY DEF ControlInv, LatchForm
  <2>3. x.id \in Control
    BY <1>0, <2>2, ControlTypes DEF Latched
  <2>. QED
    BY <1>1, <1>2, <2>2, <2>3 DEF Latched
<1>4. SeenForm'
  <2>1. SUFFICES ASSUME NEW c \in Control
                 PROVE  /\ c > Newest => seen'[c] = {}
                        /\ seen'[c] = {} => states'[c] = Unknown
                        /\ seen'[c] # {} /\ Type(c) \in Commands => Range(events') \cap Leads(Type(c)) \subseteq seen'[c]
    BY <1>2 DEF SeenForm
  <2>2. /\ c > Newest => seen[c] = {}
        /\ seen[c] # {} /\ Type(c) \in Commands => Range(events) \cap Leads(Type(c)) \subseteq seen[c]
    BY DEF ControlInv, SeenForm
  <2>. QED
    BY <1>1, <2>2
<1>. QED
  BY <1>1, <1>2, <1>3, <1>4

LEMMA CallTracks ==
  ASSUME ControlInv, NEW r, Orderly(r), Call(r), UNCHANGED status, Announces(r, sch)
  PROVE  sch'.state = Latest(Path')
<1>0. ControlsType
  BY DEF ControlInv
<1>1. r.notes \in Seq(SchedulerState) /\ sch' = r /\ events' = events \o r.notes
  BY CallSeen
<1>2. /\ Len(Path') = Len(Path) + Len(r.notes)
      /\ \A i \in 1..Len(Path) : Path'[i] = Path[i]
      /\ \A i \in 1..Len(r.notes) : Path'[Len(Path) + i] = r.notes[i]
  BY <1>0, <1>1, CalledPath
<1>3. Len(Path) \in Nat /\ Len(Path) > 0 /\ sch.state = Path[Len(Path)]
  BY <1>0, PathIndex DEF ControlInv, ControlsType, Latest
<1>4. CASE r.notes = <<>> /\ r.state = sch.state
  <2>1. Len(r.notes) = 0
    BY <1>4
  <2>. QED
    BY <1>1, <1>2, <1>3, <1>4, <2>1 DEF Latest
<1>5. CASE r.notes # <<>> /\ r.notes[Len(r.notes)] = r.state
  <2>1. Len(r.notes) \in Nat /\ Len(r.notes) > 0
    BY <1>1, <1>5
  <2>. QED
    <3>1. Path'[Len(Path) + Len(r.notes)] = r.notes[Len(r.notes)]
      BY <1>2, <2>1
    <3>. QED
      BY <1>1, <1>2, <1>5, <3>1 DEF Latest
<1>. QED
  BY <1>4, <1>5 DEF Announces

\* What the scheduler makes of a control.
LEMMA CommandedOrderly ==
  ASSUME ControlInv, ControlGiven
  PROVE  LET r == Commanded(Newest)
         IN /\ Orderly(r) /\ Announces(r, sch)
            /\ Type(Newest) = "startPause" =>
                 \/ r.state = "idle_paused" /\ r.notes = Note("idle_paused")
                 \/ r.state = "pausing" /\ r.notes = Note("pausing")
            /\ Type(Newest) = "stopPause" =>
                 \/ r.state = "idle" /\ r.notes = Note("idle")
                 \/ r.state = "active" /\ r.notes = Note2("idle", "active")
                 \/ r.state = "resuming" /\ r.notes = Note("resuming")
                 \/ r.state = "active" /\ r.notes = Note2("resuming", "active")
                 \/ r.state = "idle" /\ r.notes = Note3("resuming", "active", "idle")
            /\ Type(Newest) = "cancelOrder" =>
                 \/ sch.state = "idle" /\ r.state = "idle" /\ r.notes = Note("idle")
                 \/ sch.state = "idle_paused" /\ r.state = "idle_paused" /\ r.notes = <<>>
                 \/ /\ sch.state \in {"active", "paused"} /\ r.state = "canceling"
                    /\ r.notes = Note("canceling") /\ r.active = sch.active
<1>0. ControlsType /\ Orderly(sch)
  BY DEF ControlInv
<1>1. sch.state \in FeasibleIn(Type(Newest))
  <2>1. sch.state = Path[Len(Path)] /\ Len(Path) \in DOMAIN Path
    BY <1>0, PathIndex DEF ControlInv, ControlsType, Latest
  <2>. QED
    BY <2>1 DEF ControlInv, StaysFeasible, Undone
<1>2. Newest > 0 /\ Type(Newest) \in Commands
  BY OrderYieldsFacts DEF ControlInv, OneAtATime, ControlUnderWay, OrderUnderWay, Arrived, ControlGiven, IsEnabling
<1>. DEFINE r == Commanded(Newest)
<1>3. CASE Type(Newest) = "startPause"
  <2>1. r = Pause(Begin(sch)) /\ sch.state \in {"active", "idle"}
    BY <1>1, <1>3 DEF Commanded, FeasibleIn
  <2>2. /\ Orderly(r)
        /\ \/ r.state = "idle_paused" /\ r.notes = Note("idle_paused")
           \/ r.state = "pausing" /\ r.notes = Note("pausing")
    BY <1>0, <2>1, PauseOrderly
  <2>. HIDE DEF r
  <2>3. Announces(r, sch)
    BY <2>2, NoteLast DEF Announces
  <2>. QED
    BY <1>3, <2>2, <2>3 DEF r
<1>4. CASE Type(Newest) = "stopPause"
  <2>1. r = Resume(Begin(sch)) /\ sch.state \in {"idle_paused", "paused"}
    BY <1>1, <1>4 DEF Commanded, FeasibleIn
  <2>2. /\ Orderly(r)
        /\ \/ r.state = "idle" /\ r.notes = Note("idle")
           \/ r.state = "active" /\ r.notes = Note2("idle", "active")
           \/ r.state = "resuming" /\ r.notes = Note("resuming")
           \/ r.state = "active" /\ r.notes = Note2("resuming", "active")
           \/ r.state = "idle" /\ r.notes = Note3("resuming", "active", "idle")
    BY <1>0, <2>1, ResumeOrderly
  <2>. HIDE DEF r
  <2>3. Announces(r, sch)
    BY <2>2, NoteLast DEF Announces
  <2>. QED
    BY <1>4, <2>2, <2>3 DEF r
<1>5. CASE Type(Newest) = "cancelOrder"
  <2>1. r = Cancel(Begin(sch)) /\ sch.state \in {"idle_paused", "active", "idle", "paused"}
    BY <1>1, <1>5 DEF Commanded, FeasibleIn
  <2>2. /\ Orderly(r)
        /\ \/ sch.state = "idle" /\ r.state = "idle" /\ r.notes = Note("idle")
           \/ sch.state = "idle_paused" /\ r.state = "idle_paused" /\ r.notes = <<>>
           \/ /\ sch.state \in {"active", "paused"} /\ r.state = "canceling"
              /\ r.notes = Note("canceling") /\ r.active = sch.active
    BY <1>0, <2>1, CancelOrderly
  <2>. HIDE DEF r
  <2>3. Announces(r, sch)
    BY <2>2, NoteLast DEF Announces
  <2>. QED
    BY <1>5, <2>2, <2>3 DEF r
<1>. QED
  BY <1>2, <1>3, <1>4, <1>5 DEF Commands

LEMMA handleOrderControlKeeps ==
  ASSUME ControlInv, handleOrderControl
  PROVE  ControlInv'
<1>0. ControlsType
  BY DEF ControlInv
<1>1. /\ TakesYield("control") /\ UNCHANGED <<sent, messages, enabling, status, latches>>
      /\ Declined(Head(yields).what) \/ Controlled(Head(yields).what)
  BY DEF handleOrderControl
<1>2. /\ messages = <<>> /\ ControlGiven /\ Newest > 0 /\ Type(Newest) \in Commands
      /\ Head(yields).what = Newest /\ yields' = <<>>
      /\ enabling = Nothing \/ (IsEnabling /\ Head(enabling.steps) # "dispatch")
  BY <1>1, YieldTaken DEF ControlInv
<1>3. Declined(Newest) \/ Controlled(Newest)
  BY <1>1, <1>2
<1>4. Newest \in Control /\ Newest \in Nat /\ Newest' = Newest /\ (\A c : Type(c)' = Type(c)) /\ OrderYields' = OrderYields
  BY <1>0, <1>1, <1>2, ControlTypes DEF Newest, Type, OrderYields
<1>5. seen[Newest] # {} /\ states[Newest] # Unknown
  BY <1>2 DEF ControlInv, Progress
<1>6. OneAtATime'
  <2>1. CASE enabling = Nothing
    BY <1>1, <1>2, <2>1 DEF OneAtATime
  <2>2. CASE IsEnabling
    BY <1>1, <1>2, <1>4, <2>2 DEF OneAtATime, ControlUnderWay, IsEnabling
  <2>. QED
    BY <1>2, <2>1, <2>2
<1>7. Ripe' /\ StaysFeasible' /\ OrdersFindRest'
  BY <1>1, <1>2, <1>4, Messages, OrderYieldsFacts DEF Ripe, Received, StaysFeasible, Undone, ControlGiven,
     OrdersFindRest, OrderPending, OrderYields
<1>8. CASE Declined(Newest)
  <2>1. /\ states' = [states EXCEPT ![Newest] = "FAILED"] /\ excused' = [excused EXCEPT ![Newest] = @ \cup {"declined"}]
        /\ UNCHANGED <<alive, sch, events, seen>>
    BY <1>5, <1>8 DEF Declined, Excuse
  <2>2. /\ Path' = Path /\ Orderly(sch') /\ sch'.state = Latest(Path')
    BY <1>1, <2>1, SchedulerStays
  <2>3. /\ states' \in [Control -> Status] /\ excused' \in [Control -> SUBSET Excuses]
        /\ states'[Newest] = "FAILED" /\ \A c \in Control : c # Newest => states'[c] = states[c]
    BY <1>0, <1>4, <2>1 DEF ControlsType, Status, Excuses
  <2>4. ControlsType'
    BY <1>0, <1>1, <1>4, <2>1, <2>3 DEF ControlsType
  <2>5. Progress'
    BY <1>1, <1>2, <1>4, <1>5, <2>1, <2>3, Messages DEF Progress, ControlGiven, Unknown
  <2>6. LatchForm'
    <3>1. SUFFICES ASSUME NEW x \in Range(latches)
                   PROVE  /\ Latched(x)' /\ seen[x.id] # {} /\ states'[x.id] # "FINISHED"
                          /\ messages' = <<Message("validAction", Newest)>> \/ enabling' # Nothing => x.id # Newest
      BY <1>1, <1>4, <2>1 DEF LatchForm
    <3>2. /\ Latched(x) /\ seen[x.id] # {} /\ states[x.id] # "FINISHED"
          /\ messages = <<Message("validAction", Newest)>> \/ enabling # Nothing => x.id # Newest
      BY DEF ControlInv, LatchForm
    <3>. QED
      BY <1>0, <1>1, <1>4, <2>3, <3>2, ControlTypes DEF Latched
  <2>7. SeenForm'
    BY <1>4, <1>5, <2>1, <2>3 DEF SeenForm, ControlInv
  <2>. QED
    BY <1>6, <1>7, <2>2, <2>4, <2>5, <2>6, <2>7 DEF ControlInv
<1>9. CASE Controlled(Newest)
  <2>. DEFINE r == Commanded(Newest)
  <2>1. Orderly(r) /\ Announces(r, sch)
    BY <1>2, CommandedOrderly
  <2>2. /\ Call(r) /\ UNCHANGED states
        /\ IF r.thrown THEN alive' = alive \ {"interpreter"} ELSE UNCHANGED alive
        /\ \/ \E why \in Excuses : excused' = [excused EXCEPT ![Newest] = @ \cup {why}]
           \/ UNCHANGED excused
    BY <1>9 DEF Controlled, Ends, Excuse, Excuses
  <2>3. ~r.thrown
    BY <2>1 DEF Orderly, Groups
  <2>. HIDE DEF r
  <2>4. excused' \in [Control -> SUBSET Excuses]
    BY <1>0, <1>4, <2>2 DEF ControlsType
  <2>5. /\ events' \in Seq(SchedulerState) /\ seen' \in [Control -> SUBSET SchedulerState]
        /\ \A c \in Control : seen'[c] = {} <=> seen[c] = {}
    BY <2>1, <2>2, CallSeen
  <2>6. ControlsType'
    BY <1>0, <1>1, <1>4, <2>2, <2>3, <2>4, <2>5 DEF ControlsType
  <2>7. Progress'
    BY <1>1, <1>2, <1>4, <1>5, <2>2, <2>5, Messages DEF Progress, ControlGiven, ControlInv
  <2>8. LatchForm' /\ SeenForm' /\ Orderly(sch')
    <3>1. \A c \in Control : seen[c] = {} => states[c] = Unknown
      BY DEF ControlInv, SeenForm
    <3>2. states' \in [Control -> Status]
      BY <1>0, <2>2 DEF ControlsType
    <3>. QED
      BY <1>1, <1>2, <2>1, <2>2, <3>1, <3>2, CallForms
  <2>9. sch'.state = Latest(Path')
    BY <1>1, <2>1, <2>2, CallTracks
  <2>. QED
    BY <1>6, <1>7, <2>6, <2>7, <2>8, <2>9 DEF ControlInv
<1>. QED
  BY <1>3, <1>8, <1>9

LEMMA OrderGroup ==
  ASSUME NEW o \in 1..Len(Orders)
  PROVE  [kind |-> "group", actions |-> Orders[o], ceiling |-> Ceiling(Orders[o])] \in Group
<1>1. Orders[o] \in (SUBSET Action) \ {{}}
  BY ControlsAssumption
<1>2. Ceiling(Orders[o]) \in BlockingType
  BY <1>1, CeilingType
<1>. QED
  BY <1>1, <1>2 DEF Group

\* A call that no control makes keeps what is known of the controls.
LEMMA CallKeeps ==
  ASSUME ControlInv, NEW r, Orderly(r), Announces(r, sch), Call(r),
         UNCHANGED <<sent, messages, enabling, status, states, latches, alive, excused>>,
         ControlGiven' => ControlGiven
  PROVE  /\ ControlsType' /\ Orderly(sch') /\ Progress'
         /\ sch'.state = Latest(Path') /\ LatchForm' /\ SeenForm'
         /\ Newest' = Newest /\ (\A c : Type(c)' = Type(c)) /\ OrderYields' = OrderYields
<1>0. ControlsType
  BY DEF ControlInv
<1>1. /\ events' \in Seq(SchedulerState) /\ seen' \in [Control -> SUBSET SchedulerState]
      /\ \A c \in Control : seen'[c] = {} <=> seen[c] = {}
  BY CallSeen
<1>2. Newest' = Newest /\ (\A c : Type(c)' = Type(c)) /\ OrderYields' = OrderYields
  BY DEF Newest, Type, OrderYields
<1>3. ControlsType'
  BY <1>0, <1>1, <1>2 DEF ControlsType
<1>4. LatchForm' /\ SeenForm' /\ Orderly(sch')
  <2>1. \A c \in Control : seen[c] = {} => states[c] = Unknown
    BY DEF ControlInv, SeenForm
  <2>2. states' \in [Control -> Status]
    BY <1>0 DEF ControlsType
  <2>. QED
    BY <2>1, <2>2, CallForms
<1>5. sch'.state = Latest(Path')
  BY CallTracks
<1>6. Newest \in Control \/ Newest = 0
  BY <1>0, ControlTypes
<1>7. Progress'
  <2>1. CASE Newest = 0
    <3>1. messages # <<Message("receivedAction", Newest)>> /\ messages # <<Message("validAction", Newest)>>
          /\ enabling = Nothing /\ ~ControlGiven
      BY <1>0, <2>1, Messages, OrderYieldsFacts, EnablingSteps
         DEF ControlInv, OneAtATime, ControlUnderWay, OrderUnderWay, Arrived, ControlGiven
    <3>. QED
      BY <1>2, <3>1 DEF Progress
  <2>2. CASE Newest \in Control
    BY <1>1, <1>2, <2>2 DEF Progress, ControlInv
  <2>. QED
    BY <1>6, <2>1, <2>2
<1>. QED
  BY <1>2, <1>3, <1>4, <1>5, <1>7

LEMMA handleYieldNormalKeeps ==
  ASSUME ControlInv, handleYieldNormal
  PROVE  ControlInv'
<1>0. ControlsType
  BY DEF ControlInv
<1>1. /\ TakesYield("group") /\ UNCHANGED <<sent, messages, enabling, status, states, latches, alive, excused>>
      /\ Call(Enqueue(Begin(sch), [kind |-> "group", actions |-> Orders[Head(yields).what],
                                   ceiling |-> Ceiling(Orders[Head(yields).what])]))
  BY DEF handleYieldNormal
<1>2. /\ messages = <<>> /\ enabling = Nothing /\ sent.orders > 0 /\ yields \in OrderYields
      /\ Head(yields).what = sent.orders /\ yields' = <<Message("done", 0)>>
  BY <1>1, YieldTaken DEF ControlInv
<1>3. sent.orders \in 1..Len(Orders)
  BY <1>0, <1>2, ControlTypes DEF ControlsType
<1>. DEFINE r == Enqueue(Begin(sch), [kind |-> "group", actions |-> Orders[sent.orders],
                                      ceiling |-> Ceiling(Orders[sent.orders])])
<1>4. Orderly(r) /\ r.notes = <<>> /\ r.state = sch.state
  BY <1>3, OrderGroup, EnqueueOrderly DEF ControlInv
<1>5. Call(r)
  BY <1>1, <1>2
<1>. HIDE DEF r
<1>6. Announces(r, sch)
  BY <1>4 DEF Announces
<1>7. ~ControlGiven'
  BY <1>2, Messages DEF ControlGiven
<1>8. /\ ControlsType' /\ Orderly(sch') /\ Progress'
      /\ sch'.state = Latest(Path') /\ LatchForm' /\ SeenForm'
      /\ Newest' = Newest /\ (\A c : Type(c)' = Type(c)) /\ OrderYields' = OrderYields
  BY <1>1, <1>4, <1>5, <1>6, <1>7, CallKeeps
<1>9. OneAtATime'
  BY <1>1, <1>2, <1>8 DEF OneAtATime, OrderUnderWay, OrderYields
<1>10. Ripe' /\ StaysFeasible'
  BY <1>1, <1>2, <1>7 DEF Ripe, Received, StaysFeasible, Undone
<1>11. OrdersFindRest'
  <2>1. sch' = r
    BY <1>5 DEF Call
  <2>2. sch.state \in {"idle", "idle_paused"}
    BY <1>2 DEF ControlInv, OrdersFindRest, OrderPending
  <2>. QED
    BY <1>4, <2>1, <2>2 DEF OrdersFindRest
<1>. QED
  BY <1>8, <1>9, <1>10, <1>11 DEF ControlInv

LEMMA handleInterpreterDoneKeeps ==
  ASSUME ControlInv, handleInterpreterDone
  PROVE  ControlInv'
<1>0. ControlsType
  BY DEF ControlInv
<1>1. /\ TakesYield("done") /\ UNCHANGED <<sent, messages, enabling, status, states, latches, alive, excused>>
      /\ Call(CommitQueue(Begin(sch)))
  BY DEF handleInterpreterDone
<1>2. /\ messages = <<>> /\ enabling = Nothing /\ yields \in OrderYields /\ yields' = <<>>
  BY <1>1, YieldTaken DEF ControlInv
<1>3. sch.state \in {"idle", "idle_paused"}
  BY <1>2 DEF ControlInv, OrdersFindRest, OrderPending
<1>. DEFINE r == CommitQueue(Begin(sch))
<1>4. /\ Orderly(r)
      /\ \/ r.state = sch.state /\ r.notes = <<>>
         \/ sch.state = "idle" /\ r.state = "active" /\ r.notes = Note("active")
  BY <1>3, CommitOrderly DEF ControlInv
<1>5. Call(r)
  BY <1>1
<1>. HIDE DEF r
<1>6. Announces(r, sch)
  BY <1>4, NoteLast DEF Announces
<1>7. ~ControlGiven'
  BY <1>2 DEF ControlGiven
<1>8. /\ ControlsType' /\ Orderly(sch') /\ Progress'
      /\ sch'.state = Latest(Path') /\ LatchForm' /\ SeenForm'
      /\ Newest' = Newest /\ (\A c : Type(c)' = Type(c)) /\ OrderYields' = OrderYields
  BY <1>1, <1>4, <1>5, <1>6, <1>7, CallKeeps
<1>9. OneAtATime'
  BY <1>1, <1>2 DEF OneAtATime
<1>10. Ripe' /\ StaysFeasible' /\ OrdersFindRest'
  BY <1>1, <1>2, <1>7, <1>8, OrderYieldsFacts DEF Ripe, Received, StaysFeasible, Undone, OrdersFindRest, OrderPending
<1>. QED
  BY <1>8, <1>9, <1>10 DEF ControlInv

LEMMA RipensOn ==
  ASSUME NEW p, NEW q, NEW r, Ripens(p, q), Ripens(q, r)
  PROVE  Ripens(p, r)
  BY DEF Ripens

\* A path of statuses ripens on.
LEMMA RipeExtends ==
  ASSUME NEW p \in Seq(SchedulerState), p # <<>>, RipePath(p),
         NEW n \in Seq(SchedulerState), RipePath(n),
         \A k \in 1..Len(n) : Ripens(p[Len(p)], n[k]),
         NEW q, DOMAIN q = 1..Len(p) + Len(n),
         \A i \in 1..Len(p) : q[i] = p[i],
         \A i \in 1..Len(n) : q[Len(p) + i] = n[i]
  PROVE  RipePath(q)
<1>1. /\ Len(p) \in Nat /\ Len(n) \in Nat /\ Len(p) > 0 /\ Len(p) \in 1..Len(p)
      /\ DOMAIN p = 1..Len(p) /\ DOMAIN n = 1..Len(n)
  OBVIOUS
<1>2. \A i, j \in 1..Len(p) : i <= j => Ripens(p[i], p[j])
  BY <1>1 DEF RipePath
<1>3. \A i, j \in 1..Len(n) : i <= j => Ripens(n[i], n[j])
  BY <1>1 DEF RipePath
<1>4. SUFFICES ASSUME NEW i \in 1..Len(p) + Len(n), NEW j \in 1..Len(p) + Len(n), i <= j
               PROVE  Ripens(q[i], q[j])
  BY DEF RipePath
<1>5. \A k \in 1..Len(p) + Len(n) : k > Len(p) => k - Len(p) \in 1..Len(n) /\ Len(p) + (k - Len(p)) = k
  BY <1>1
<1>6. \A k \in 1..Len(p) + Len(n) : k > Len(p) => q[k] = n[k - Len(p)]
  BY <1>5
<1>7. CASE j <= Len(p)
  BY <1>1, <1>2, <1>4, <1>7
<1>8. CASE i <= Len(p) /\ j > Len(p)
  <2>1. q[i] = p[i] /\ q[j] = n[j - Len(p)] /\ j - Len(p) \in 1..Len(n)
    BY <1>1, <1>5, <1>6, <1>8
  <2>2. Ripens(p[i], p[Len(p)])
    BY <1>1, <1>2, <1>8
  <2>3. Ripens(p[Len(p)], n[j - Len(p)])
    BY <2>1
  <2>. QED
    BY <2>1, <2>2, <2>3, RipensOn
<1>9. CASE i > Len(p)
  <2>1. q[i] = n[i - Len(p)] /\ q[j] = n[j - Len(p)]
    BY <1>1, <1>4, <1>6, <1>9
  <2>2. i - Len(p) \in 1..Len(n) /\ j - Len(p) \in 1..Len(n) /\ i - Len(p) <= j - Len(p)
    BY <1>1, <1>4, <1>5, <1>9
  <2>. QED
    BY <1>3, <2>1, <2>2
<1>. QED
  BY <1>1, <1>7, <1>8, <1>9

\* What is feasible is not made infeasible by a report of the AGV.
LEMMA FeasibleOn ==
  ASSUME NEW type \in ControlType, NEW p \in FeasibleIn(type), NEW q \in SchedulerState, Ripens(p, q)
  PROVE  q \in FeasibleIn(type)
  BY DEF Ripens, FeasibleIn, ControlType

LEMMA NotesOfTwo ==
  ASSUME NEW x, NEW y
  PROVE  /\ Note(x) # <<>> /\ Len(Note(x)) = 1 /\ Note(x)[1] = x
         /\ Note2(x, y) # <<>> /\ Len(Note2(x, y)) = 2 /\ Note2(x, y)[1] = x /\ Note2(x, y)[2] = y
<1>1. ASSUME NEW z
      PROVE  /\ Note(x) # <<>> /\ Len(Note(x)) = 1 /\ Note(x)[1] = x
             /\ Note2(x, y) # <<>> /\ Len(Note2(x, y)) = 2 /\ Note2(x, y)[1] = x /\ Note2(x, y)[2] = y
             /\ Note3(x, y, z) # <<>> /\ Len(Note3(x, y, z)) = 3 /\ Note3(x, y, z)[3] = z
  BY NoteFacts
<1>. QED
  BY <1>1

\* What a report of the AGV announces.
LEMMA ReportRipens ==
  ASSUME NEW s, NEW r, Orderly(s), Reported(r, s)
  PROVE  /\ Announces(r, s) /\ Ripens(s.state, r.state)
         /\ RipePath(r.notes) /\ \A k \in 1..Len(r.notes) : Ripens(s.state, r.notes[k])
<1>0. Len(<<>>) = 0 /\ DOMAIN <<>> = {}
  OBVIOUS
<1>1. CASE r.notes = <<>> /\ r.state = s.state
  BY <1>0, <1>1 DEF Announces, RipePath, Ripens
<1>2. ASSUME NEW x, r.notes = Note(x), r.state = x, Ripens(s.state, x)
      PROVE  /\ Announces(r, s) /\ Ripens(s.state, r.state)
             /\ RipePath(r.notes) /\ \A k \in 1..Len(r.notes) : Ripens(s.state, r.notes[k])
  <2>1. r.notes # <<>> /\ Len(r.notes) = 1 /\ r.notes[1] = x
    BY <1>2, NotesOfTwo
  <2>2. DOMAIN r.notes = 1..1
    BY <1>2, <2>1 DEF Note
  <2>. QED
    BY <1>2, <2>1, <2>2 DEF Announces, RipePath, Ripens
<1>3. CASE s.state = "resuming" /\ r.state = "idle" /\ r.notes = Note2("active", "idle")
  <2>1. r.notes # <<>> /\ Len(r.notes) = 2 /\ r.notes[1] = "active" /\ r.notes[2] = "idle"
    BY <1>3, NotesOfTwo
  <2>2. DOMAIN r.notes = 1..2
    <3>. DEFINE n == Note("active")
    <3>1. Orderly(r)
      BY DEF Reported
    <3>2. r.notes \in Seq(SchedulerState)
      BY <3>1 DEF Orderly, Groups, Schedulers
    <3>. QED
      BY <2>1, <3>2
  <2>. QED
    BY <1>3, <2>1, <2>2 DEF Announces, RipePath, Ripens
<1>. QED
  BY <1>1, <1>2, <1>3 DEF Reported, Ripens

LEMMA ActionStatusKeeps ==
  ASSUME ControlInv, ActionStatus
  PROVE  ControlInv'
<1>0. ControlsType /\ Orderly(sch)
  BY DEF ControlInv
<1>1. PICK a \in sch.active : \E t \in Answers[sch.task[a]] : Call(ReportAction(Begin(sch), a, t))
  BY DEF ActionStatus
<1>2. PICK t \in Answers[sch.task[a]] : Call(ReportAction(Begin(sch), a, t))
  BY <1>1
<1>3. UNCHANGED <<sent, messages, enabling, yields, status, states, latches, alive, excused>>
  BY DEF ActionStatus
<1>. DEFINE r == ReportAction(Begin(sch), a, t)
<1>4. Reported(r, sch) /\ Call(r)
  BY <1>0, <1>2, ReportOrderly
<1>. HIDE DEF r
<1>5. /\ Orderly(r) /\ Announces(r, sch) /\ Ripens(sch.state, r.state)
      /\ RipePath(r.notes) /\ \A k \in 1..Len(r.notes) : Ripens(sch.state, r.notes[k])
  BY <1>0, <1>4, ReportRipens DEF Reported
<1>6. /\ ControlGiven' <=> ControlGiven
      /\ Received' <=> Received
  BY <1>3 DEF ControlGiven, Received, Newest
<1>7. /\ ControlsType' /\ Orderly(sch') /\ Progress'
      /\ sch'.state = Latest(Path') /\ LatchForm' /\ SeenForm'
      /\ Newest' = Newest /\ (\A c : Type(c)' = Type(c)) /\ OrderYields' = OrderYields
  BY <1>3, <1>4, <1>5, <1>6, CallKeeps
<1>8. OneAtATime'
  BY <1>3, <1>6, <1>7 DEF OneAtATime, ControlUnderWay, OrderUnderWay, Arrived, IsEnabling, ControlInv, ControlGiven
<1>9. /\ r.notes \in Seq(SchedulerState) /\ r.state \in SchedulerState
      /\ sch' = r /\ events' = events \o r.notes
      /\ \A c \in Control : seen[c] # {} => seen'[c] = seen[c] \cup {r.state} \cup Range(r.notes)
  BY <1>4, <1>5, CallSeen
<1>10. /\ Path \in Seq(SchedulerState) /\ Len(Path) \in Nat /\ Len(Path) > 0 /\ DOMAIN Path = 1..Len(Path)
       /\ sch.state = Path[Len(Path)]
  BY <1>0, PathIndex DEF ControlInv, ControlsType, Latest
<1>11. /\ DOMAIN Path' = 1..Len(Path) + Len(r.notes)
       /\ \A i \in 1..Len(Path) : Path'[i] = Path[i]
       /\ \A i \in 1..Len(r.notes) : Path'[Len(Path) + i] = r.notes[i]
  BY <1>0, <1>3, <1>9, CalledPath
<1>12. Ripe'
  <2>1. SUFFICES ASSUME Received PROVE RipePath(Path')
    BY <1>6 DEF Ripe, RipePath
  <2>2. RipePath(Path) /\ Path # <<>>
    BY <1>10, <2>1 DEF ControlInv, Ripe
  <2>. HIDE DEF Path
  <2>. QED
    BY <1>5, <1>9, <1>10, <1>11, <2>2, RipeExtends
<1>13. StaysFeasible'
  <2>0. Undone' <=> Undone
    BY <1>3, <1>6 DEF Undone, Newest
  <2>1. SUFFICES ASSUME Undone
                 PROVE  /\ \A i \in DOMAIN Path' : Path'[i] \in FeasibleIn(Type(Newest))
                        /\ Type(Newest) = "startPause" => seen'[Newest] \cap Leads("startPause") = {}
                        /\ Type(Newest) \in {"startPause", "stopPause"} => states[Newest] \notin {"RUNNING", "FINISHED"}
    BY <1>3, <1>7, <2>0 DEF StaysFeasible
  <2>2. /\ \A i \in DOMAIN Path : Path[i] \in FeasibleIn(Type(Newest))
        /\ Type(Newest) = "startPause" => seen[Newest] \cap Leads("startPause") = {}
        /\ Type(Newest) \in {"startPause", "stopPause"} => states[Newest] \notin {"RUNNING", "FINISHED"}
    BY <2>1 DEF ControlInv, StaysFeasible
  <2>3. Newest \in Control /\ Type(Newest) \in ControlType
    <3>1. OneAtATime
      BY DEF ControlInv
    <3>2. Newest # 0
      BY <1>0, <2>1, <3>1, NoControlYet DEF Undone
    <3>. QED
      BY <1>0, <3>2, ControlTypes
  <2>4. sch.state \in FeasibleIn(Type(Newest))
    BY <1>10, <2>2
  <2>5. \A k \in 1..Len(r.notes) : r.notes[k] \in FeasibleIn(Type(Newest))
    BY <1>5, <1>9, <2>3, <2>4, FeasibleOn
  <2>6. r.state \in FeasibleIn(Type(Newest))
    BY <1>5, <1>9, <2>3, <2>4, FeasibleOn
  <2>7. \A i \in DOMAIN Path' : Path'[i] \in FeasibleIn(Type(Newest))
    <3>1. SUFFICES ASSUME NEW i \in 1..Len(Path) + Len(r.notes) PROVE Path'[i] \in FeasibleIn(Type(Newest))
      BY <1>11
    <3>2. Len(r.notes) \in Nat
      BY <1>9
    <3>3. CASE i <= Len(Path)
      BY <1>10, <1>11, <2>2, <3>2, <3>3
    <3>4. CASE i > Len(Path)
      <4>1. i - Len(Path) \in 1..Len(r.notes) /\ Len(Path) + (i - Len(Path)) = i
        BY <1>10, <3>2, <3>4
      <4>2. Path'[Len(Path) + (i - Len(Path))] = r.notes[i - Len(Path)]
        BY <1>11, <4>1
      <4>. QED
        BY <2>5, <4>1, <4>2
    <3>. QED
      BY <1>10, <3>2, <3>3, <3>4
  <2>8. Type(Newest) = "startPause" => seen'[Newest] \cap Leads("startPause") = {}
    <3>1. SUFFICES ASSUME Type(Newest) = "startPause" PROVE seen'[Newest] \cap Leads("startPause") = {}
      OBVIOUS
    <3>2. FeasibleIn(Type(Newest)) \cap Leads("startPause") = {}
      BY <3>1 DEF FeasibleIn, Leads
    <3>3. Range(r.notes) \subseteq FeasibleIn(Type(Newest))
      BY <1>9, <2>5 DEF Range
    <3>4. seen[Newest] = {} => seen'[Newest] = {}
      BY <1>4, <1>5, <2>3, CallSeen
    <3>. QED
      BY <1>9, <2>2, <2>3, <2>6, <3>1, <3>2, <3>3, <3>4
  <2>. QED
    BY <2>2, <2>7, <2>8
<1>14. OrdersFindRest'
  <2>1. sch.state \in {"active", "pausing", "resuming", "canceling"}
    BY <1>0, <1>2, AnsweredTasks
  <2>2. ~OrderPending
    BY <2>1 DEF ControlInv, OrdersFindRest
  <2>3. OrderPending' <=> OrderPending
    BY <1>3, <1>7 DEF OrderPending
  <2>. QED
    BY <2>2, <2>3 DEF OrdersFindRest
<1>. QED
  BY <1>7, <1>8, <1>12, <1>13, <1>14 DEF ControlInv

\* What the order event thread makes of an announcement.
LEMMA AnnouncementHandled ==
  ASSUME ControlInv, handleOrderStatus
  PROVE  LET noticed == Notice(Head(events))
         IN /\ states' = noticed.states /\ latches' = noticed.live
            /\ noticed \in Outcomes /\ Heard(noticed, Len(latches), Head(events))
            /\ alive' = IF noticed.thrown THEN alive \ {"order"} ELSE alive
            /\ events # <<>> /\ events' = Tail(events) /\ status' = Head(events)
            /\ UNCHANGED <<sent, messages, enabling, yields, sch, seen>>
            /\ \A c \in Control : excused[c] \subseteq excused'[c]
            /\ Missed(Head(events)) => excused' = [excused EXCEPT ![Newest] = @ \cup {"late"}]
            /\ ~Missed(Head(events)) => excused' = excused
<1>0. ControlsType /\ LatchForm /\ OneAtATime
  BY DEF ControlInv
<1>1. Missed(Head(events)) => enabling # Nothing
  BY DEF Missed
<1>2. enabling # Nothing => enabling.id = Newest
  BY <1>0, EnablingSteps
<1>. DEFINE event == Head(events)
            noticed == Notice(event)
<1>3. noticed \in Outcomes /\ Heard(noticed, Len(latches), event)
  BY <1>0, Noticed
<1>4. /\ states' = noticed.states /\ latches' = noticed.live
      /\ alive' = IF noticed.thrown THEN alive \ {"order"} ELSE alive
      /\ events # <<>> /\ events' = Tail(events) /\ status' = event
      /\ UNCHANGED <<sent, messages, enabling, yields, sch, seen>>
      /\ IF Missed(event) THEN Excuse(enabling.id, "late") ELSE UNCHANGED excused
  BY DEF handleOrderStatus, Ends
<1>. HIDE DEF noticed
<1>5. /\ Missed(event) => excused' = [excused EXCEPT ![Newest] = @ \cup {"late"}]
      /\ ~Missed(event) => excused' = excused
  BY <1>1, <1>2, <1>4 DEF Excuse
<1>6. \A c \in Control : excused[c] \subseteq excused'[c]
  <2>1. excused \in [Control -> SUBSET Excuses]
    BY <1>0 DEF ControlsType
  <2>2. CASE Missed(event)
    BY <1>5, <2>1, <2>2
  <2>3. CASE ~Missed(event)
    BY <1>5, <2>3
  <2>. QED
    BY <2>2, <2>3
<1>. QED
  BY <1>3, <1>4, <1>5, <1>6 DEF noticed

LEMMA handleOrderStatusKeeps ==
  ASSUME ControlInv, handleOrderStatus
  PROVE  ControlInv'
<1>0. ControlsType
  BY DEF ControlInv
<1>. DEFINE event == Head(events)
            noticed == Notice(event)
<1>1. /\ states' = noticed.states /\ latches' = noticed.live
      /\ noticed \in Outcomes /\ Heard(noticed, Len(latches), event)
      /\ alive' = IF noticed.thrown THEN alive \ {"order"} ELSE alive
      /\ events # <<>> /\ events' = Tail(events) /\ status' = event
      /\ UNCHANGED <<sent, messages, enabling, yields, sch, seen>>
      /\ Missed(event) => excused' = [excused EXCEPT ![Newest] = @ \cup {"late"}]
      /\ ~Missed(event) => excused' = excused
  BY AnnouncementHandled
<1>. HIDE DEF noticed
<1>2. StatesHeard(states', event) /\ LatchesHeard(noticed)
  BY <1>1 DEF Heard
<1>3. states' \in [Control -> Status] /\ latches' \in Seq(Subscribed)
  BY <1>1 DEF Outcomes
<1>4. /\ Len(Path') = Len(Path) - 1 /\ DOMAIN Path' = 1..Len(Path') /\ Len(Path') > 0
      /\ \A i \in 1..Len(Path') : Path'[i] = Path[i + 1]
      /\ event \in Range(events) /\ Range(Tail(events)) \subseteq Range(events)
      /\ event = Path[2] /\ Len(Path) > 1
      /\ status' \in SchedulerState /\ events' \in Seq(SchedulerState)
  BY <1>0, <1>1, HandledPath
<1>5. Len(Path) \in Nat /\ DOMAIN Path = 1..Len(Path)
  BY <1>0, PathIndex DEF ControlsType
<1>6. /\ Newest' = Newest /\ (\A c : Type(c)' = Type(c)) /\ OrderYields' = OrderYields
      /\ ControlGiven' = ControlGiven /\ IsEnabling' = IsEnabling
  BY <1>1 DEF Newest, Type, OrderYields, ControlGiven, IsEnabling
<1>7. excused' \in [Control -> SUBSET Excuses]
  <2>1. excused \in [Control -> SUBSET Excuses]
    BY <1>0 DEF ControlsType
  <2>2. CASE ~Missed(event)
    BY <1>1, <2>1, <2>2
  <2>3. CASE Missed(event)
    <3>1. excused' = [excused EXCEPT ![Newest] = @ \cup {"late"}]
      BY <1>1, <2>3
    <3>. QED
      BY <2>1, <3>1 DEF Excuses
  <2>. QED
    BY <2>2, <2>3
<1>8. ControlsType'
  BY <1>0, <1>1, <1>3, <1>4, <1>6, <1>7 DEF ControlsType
<1>9. Orderly(sch') /\ OneAtATime'
  BY <1>1, <1>6 DEF ControlInv, OneAtATime, ControlUnderWay, OrderUnderWay, Arrived
<1>10. \A x \in Range(latches) : messages = <<Message("validAction", Newest)>> \/ enabling # Nothing => x.id # Newest
  BY DEF ControlInv, LatchForm
<1>11. Newest \in Control \/ Newest = 0
  BY <1>0, ControlTypes
<1>12. Newest = 0 => /\ messages # <<Message("receivedAction", Newest)>> /\ messages # <<Message("validAction", Newest)>>
                     /\ enabling = Nothing /\ ~ControlGiven
  <2>. HIDE DEF event
  <2>1. OneAtATime
    BY DEF ControlInv
  <2>. QED
    BY <1>0, <2>1, NoControlYet
<1>13. Newest \in Control => (states'[Newest] = Unknown <=> states[Newest] = Unknown)
  BY <1>2 DEF StatesHeard
<1>14. Newest \in Control /\ enabling # Nothing => states'[Newest] # "FINISHED"
  <2>1. SUFFICES ASSUME Newest \in Control, enabling # Nothing PROVE states'[Newest] # "FINISHED"
    OBVIOUS
  <2>2. ~Hears(Newest, event)
    BY <1>10, <2>1 DEF Hears
  <2>3. states[Newest] # "FINISHED"
    BY <2>1 DEF ControlInv, Progress
  <2>. QED
    BY <1>2, <2>1, <2>2, <2>3 DEF StatesHeard
<1>15. Progress'
  <2>1. Progress
    BY DEF ControlInv
  <2>2. CASE Newest = 0
    BY <1>1, <1>6, <1>12, <2>2 DEF Progress
  <2>3. CASE Newest \in Control
    BY <1>1, <1>6, <1>13, <1>14, <2>1, <2>3 DEF Progress
  <2>. QED
    BY <1>11, <2>2, <2>3
<1>16. sch'.state = Latest(Path')
  <2>1. sch.state = Path[Len(Path)]
    BY DEF ControlInv, Latest
  <2>2. Len(Path') \in 1..Len(Path') /\ Len(Path') + 1 = Len(Path)
    BY <1>4, <1>5
  <2>3. Path'[Len(Path')] = Path[Len(Path') + 1]
    BY <1>4, <2>2
  <2>. QED
    BY <1>1, <2>1, <2>2, <2>3 DEF Latest
<1>17. \A i \in DOMAIN Path' : i + 1 \in DOMAIN Path /\ Path'[i] = Path[i + 1]
  BY <1>4, <1>5
<1>18. Ripe'
  <2>1. SUFFICES ASSUME Received PROVE RipePath(Path')
    BY <1>1, <1>6 DEF Ripe, RipePath, Received
  <2>2. \A i, j \in DOMAIN Path : i <= j => Ripens(Path[i], Path[j])
    BY <2>1 DEF ControlInv, Ripe, RipePath
  <2>3. SUFFICES ASSUME NEW i \in DOMAIN Path', NEW j \in DOMAIN Path', i <= j
                 PROVE Ripens(Path'[i], Path'[j])
    BY DEF RipePath
  <2>4. i + 1 <= j + 1
    BY <1>4, <1>5, <2>3
  <2>5. Ripens(Path[i + 1], Path[j + 1])
    BY <1>17, <2>2, <2>4
  <2>. QED
    BY <1>17, <2>5
<1>19. StaysFeasible'
  <2>1. SUFFICES ASSUME Undone
                 PROVE  /\ \A i \in DOMAIN Path' : Path'[i] \in FeasibleIn(Type(Newest))
                        /\ Type(Newest) = "startPause" => seen[Newest] \cap Leads("startPause") = {}
                        /\ Type(Newest) \in {"startPause", "stopPause"} => states'[Newest] \notin {"RUNNING", "FINISHED"}
    BY <1>1, <1>6 DEF StaysFeasible, Undone
  <2>2. /\ \A i \in DOMAIN Path : Path[i] \in FeasibleIn(Type(Newest))
        /\ Type(Newest) = "startPause" => seen[Newest] \cap Leads("startPause") = {}
        /\ Type(Newest) \in {"startPause", "stopPause"} => states[Newest] \notin {"RUNNING", "FINISHED"}
    BY <2>1 DEF ControlInv, StaysFeasible
  <2>3. Newest \in Control
    BY <1>11, <1>12, <2>1 DEF Undone
  <2>4. event \in FeasibleIn(Type(Newest))
    <3>1. 2 \in DOMAIN Path
      BY <1>4, <1>5
    <3>. QED
      BY <1>4, <2>2, <3>1
  <2>5. Type(Newest) \in {"startPause", "stopPause"} =>
          event \notin Leads(Type(Newest)) /\ ~(Type(Newest) = "startPause" /\ event = "pausing")
            /\ ~(Type(Newest) = "stopPause" /\ event = "resuming")
    BY <2>4 DEF FeasibleIn, Leads
  <2>6. Type(Newest) \in {"startPause", "stopPause"} => states'[Newest] \notin {"RUNNING", "FINISHED"}
    <3>. HIDE DEF event
    <3>. QED
      BY <1>2, <2>2, <2>3, <2>5 DEF StatesHeard
  <2>. QED
    BY <1>17, <2>2, <2>6
<1>20. OrdersFindRest'
  BY <1>1, <1>6 DEF ControlInv, OrdersFindRest, OrderPending
<1>21. LatchForm'
  <2>1. SUFFICES ASSUME NEW y \in Range(latches')
                 PROVE  /\ Latched(y) /\ seen[y.id] # {} /\ states'[y.id] # "FINISHED"
                        /\ messages = <<Message("validAction", Newest)>> \/ enabling # Nothing => y.id # Newest
    BY <1>1, <1>6 DEF LatchForm, Latched
  <2>2. Latched(y) /\ states'[y.id] # "FINISHED" /\ \E x \in Range(latches) : x.id = y.id
    BY <1>1, <1>2 DEF LatchesHeard
  <2>3. PICK x \in Range(latches) : x.id = y.id
    BY <2>2
  <2>4. seen[x.id] # {}
    BY DEF ControlInv, LatchForm
  <2>. QED
    BY <1>10, <2>2, <2>3, <2>4
<1>22. SeenForm'
  <2>1. SUFFICES ASSUME NEW c \in Control
                 PROVE  /\ c > Newest => seen[c] = {}
                        /\ seen[c] = {} => states'[c] = Unknown
                        /\ seen[c] # {} /\ Type(c) \in Commands => Range(events') \cap Leads(Type(c)) \subseteq seen[c]
    BY <1>1, <1>6 DEF SeenForm
  <2>2. /\ c > Newest => seen[c] = {}
        /\ seen[c] = {} => states[c] = Unknown
        /\ seen[c] # {} /\ Type(c) \in Commands => Range(events) \cap Leads(Type(c)) \subseteq seen[c]
    BY DEF ControlInv, SeenForm
  <2>3. states'[c] = Unknown <=> states[c] = Unknown
    BY <1>2 DEF StatesHeard
  <2>4. Range(events') \subseteq Range(events)
    BY <1>1, <1>4
  <2>. QED
    BY <2>2, <2>3, <2>4
<1>. QED
  BY <1>8, <1>9, <1>15, <1>16, <1>18, <1>19, <1>20, <1>21, <1>22 DEF ControlInv

LEMMA StutterKeeps ==
  ASSUME ControlInv, UNCHANGED vars
  PROVE  ControlInv'
<1>1. /\ UNCHANGED <<sent, messages, enabling, yields, sch, events, status, states, latches, alive, seen, excused>>
  BY DEF vars
<1>2. /\ Newest' = Newest /\ (\A c : Type(c)' = Type(c)) /\ OrderYields' = OrderYields
      /\ ControlGiven' = ControlGiven /\ IsEnabling' = IsEnabling /\ Path' = Path
  BY <1>1 DEF Newest, Type, OrderYields, ControlGiven, IsEnabling, Path
<1>3. ControlsType' /\ Orderly(sch') /\ OneAtATime' /\ Progress'
  BY <1>1, <1>2 DEF ControlInv, ControlsType, OneAtATime, ControlUnderWay, OrderUnderWay, Arrived, Progress
<1>4. (sch.state = Latest(Path))' /\ Ripe' /\ OrdersFindRest'
  BY <1>1, <1>2 DEF ControlInv, Ripe, Received, OrdersFindRest, OrderPending
<1>5. StaysFeasible'
  BY <1>1, <1>2 DEF ControlInv, StaysFeasible, Undone
<1>6. LatchForm' /\ SeenForm'
  BY <1>1, <1>2 DEF ControlInv, LatchForm, Latched, SeenForm
<1>. QED
  BY <1>3, <1>4, <1>5, <1>6 DEF ControlInv

LEMMA ControlStep ==
  ASSUME Patient, ControlInv, [Next]_vars
  PROVE  ControlInv'
<1>1. CASE MasterControl
  BY <1>1, ReceiveControlKeeps, ReceiveOrderKeeps DEF MasterControl
<1>2. CASE MessageThread
  BY <1>2, ValidateActionKeeps, handleValidInstantActionsKeeps, DispatchControlKeeps, ReportFromKeeps,
     SendFactsheetKeeps, SubscribeKeeps, ValidateOrderKeeps, handleValidOrderKeeps DEF MessageThread
<1>3. CASE InterpreterThread
  BY <1>3, handleOrderControlKeeps, handleClearActionsKeeps, handleYieldNormalKeeps, handleInterpreterDoneKeeps
     DEF InterpreterThread
<1>4. CASE handleOrderStatus
  BY <1>4, handleOrderStatusKeeps
<1>5. CASE ActionStatus
  BY <1>5, ActionStatusKeeps
<1>6. CASE UNCHANGED vars
  BY <1>6, StutterKeeps
<1>. QED
  BY <1>1, <1>2, <1>3, <1>4, <1>5, <1>6 DEF Next

\* With a patient master control, what the three event threads hold of the one message
\* that is under way (events/generic_event_manager.h), the scheduler and the latches that
\* are subscribed (event_control_block_handler) always fit together.
THEOREM ControlsAreTracked ==
  ASSUME Patient
  PROVE  Spec => []ControlInv
<1>1. Init => ControlInv
  BY InitControl
<1>2. ControlInv /\ [Next]_vars => ControlInv'
  BY ControlStep
<1>. QED
  BY <1>1, <1>2, PTL DEF Spec

-------------------------------------------------------------------------------
(* A pause lasts *)

\* Neither the scheduler nor what has been seen changes.
LEMMA PauseStays ==
  ASSUME ControlInv, PauseLasts, UNCHANGED <<sch, seen>>, ControlsType',
         Newest' \in {Newest, Newest + 1}, \A c \in 1..Newest : Type(c)' = Type(c)
  PROVE  PauseLasts'
<1>0. ControlsType /\ SeenForm
  BY DEF ControlInv
<1>1. Newest' <= MaxControls /\ DOMAIN sent'.types = 1..Newest'
  BY DEF ControlsType, Newest
<1>2. Newest \in Nat /\ DOMAIN sent.types = 1..Newest
  BY <1>0 DEF ControlsType, Newest
<1>3. SUFFICES ASSUME NEW c \in 1..Newest', Type(c)' = "startPause", seen[c] \cap Leads("startPause") # {},
                      \A d \in c + 1..Newest' : seen[d] = {}
               PROVE  sch.state \in Leads("startPause")
  BY <1>1 DEF PauseLasts, Newest, Leads
<1>4. CASE c = Newest + 1
  <2>1. c \in Control
    BY <1>1, <1>2, <1>4, ControlsAssumption DEF Control
  <2>2. seen[c] = {}
    BY <1>0, <1>2, <1>4, <2>1 DEF SeenForm
  <2>. QED
    BY <1>3, <2>2
<1>5. CASE c \in 1..Newest
  <2>1. Type(c) = "startPause" /\ \A d \in c + 1..Newest : seen[d] = {}
    BY <1>2, <1>3, <1>5
  <2>. QED
    BY <1>2, <1>3, <1>5, <2>1 DEF PauseLasts
<1>. QED
  BY <1>2, <1>3, <1>4, <1>5

\* A call of the scheduler that does not end a pause, and does not pause without a control.
LEMMA PauseCalled ==
  ASSUME ControlInv, PauseLasts, NEW r, Orderly(r), Call(r), UNCHANGED sent,
         \/ r.state \in Leads("startPause")
         \/ sch.state \notin Leads("startPause") /\ ({r.state} \cup Range(r.notes)) \cap Leads("startPause") = {}
  PROVE  PauseLasts'
<1>0. ControlsType
  BY DEF ControlInv
<1>1. /\ sch' = r
      /\ \A c \in Control : /\ seen'[c] = {} <=> seen[c] = {}
                            /\ seen[c] # {} => seen'[c] = seen[c] \cup {r.state} \cup Range(r.notes)
  BY CallSeen
<1>. HIDE DEF Range
<1>2. CASE r.state \in Leads("startPause")
  BY <1>1, <1>2 DEF PauseLasts, Leads
<1>3. CASE sch.state \notin Leads("startPause") /\ ({r.state} \cup Range(r.notes)) \cap Leads("startPause") = {}
  <2>1. Newest \in Nat /\ DOMAIN sent.types = 1..Newest /\ \A c \in 1..Newest : c \in Control
    BY <1>0, ControlTypes DEF ControlsType, Newest
  <2>2. SUFFICES ASSUME NEW c \in 1..Newest, Type(c) = "startPause", seen'[c] \cap Leads("startPause") # {},
                        \A d \in c + 1..Newest : seen'[d] = {}
                 PROVE  FALSE
    BY <2>1 DEF PauseLasts, Newest, Type, Leads
  <2>3. \A d \in c + 1..Newest : seen[d] = {}
    BY <1>1, <2>1, <2>2
  <2>4. seen[c] \cap Leads("startPause") # {}
    BY <1>1, <1>3, <2>1, <2>2
  <2>. QED
    BY <1>3, <2>1, <2>2, <2>3, <2>4 DEF PauseLasts, Newest
<1>. QED
  BY <1>2, <1>3

LEMMA PauseCommanded ==
  ASSUME ControlInv, PauseLasts, handleOrderControl, ControlsType'
  PROVE  PauseLasts'
<1>0. ControlsType
  BY DEF ControlInv
<1>1. /\ TakesYield("control") /\ UNCHANGED <<sent, messages, enabling, status, latches>>
      /\ Declined(Head(yields).what) \/ Controlled(Head(yields).what)
  BY DEF handleOrderControl
<1>2. ControlGiven /\ Newest > 0 /\ Head(yields).what = Newest
  BY <1>1, YieldTaken DEF ControlInv
<1>3. Newest \in Control /\ Newest \in Nat /\ Newest' = Newest /\ (\A c : Type(c)' = Type(c))
  BY <1>0, <1>1, <1>2, ControlTypes DEF Newest, Type
<1>4. CASE Declined(Newest)
  BY <1>3, <1>4, PauseStays DEF Declined
<1>5. CASE Controlled(Newest)
  <2>. DEFINE r == Commanded(Newest)
  <2>1. Orderly(r) /\ Call(r)
    BY <1>2, <1>5, CommandedOrderly DEF Controlled
  <2>2. Type(Newest) = "startPause" =>
          \/ r.state = "idle_paused"
          \/ r.state = "pausing" /\ r.notes = Note("pausing")
    BY <1>2, CommandedOrderly
  <2>. HIDE DEF r
  <2>3. /\ sch' = r
        /\ \A c \in Control : /\ seen'[c] = {} <=> seen[c] = {}
                              /\ seen[c] # {} => seen'[c] = seen[c] \cup {r.state} \cup Range(r.notes)
    BY <2>1, CallSeen
  <2>4. seen[Newest] # {}
    BY <1>2 DEF ControlInv, Progress
  <2>5. DOMAIN sent.types = 1..Newest
    BY <1>0 DEF ControlsType, Newest
  <2>6. SUFFICES ASSUME NEW c \in 1..Newest, Type(c) = "startPause", seen'[c] \cap Leads("startPause") # {},
                        \A d \in c + 1..Newest : seen'[d] = {}
                 PROVE  r.state \in Leads("startPause")
    BY <1>1, <1>3, <2>3, <2>5 DEF PauseLasts, Newest, Leads
  <2>7. c = Newest
    BY <1>3, <2>3, <2>4, <2>6
  <2>8. seen[Newest] \cap Leads("startPause") = {}
    BY <1>2, <2>6, <2>7 DEF ControlInv, StaysFeasible, Undone
  <2>9. r.state = "pausing" /\ r.notes = Note("pausing") => FALSE
    <3>1. SUFFICES ASSUME r.state = "pausing", r.notes = Note("pausing") PROVE FALSE
      OBVIOUS
    <3>2. Range(r.notes) = {"pausing"}
      <4>1. \A x : Range(Note(x)) = {x}
        <5>1. \A x, y, z : /\ Range(Note(x)) = {x} /\ Range(Note2(x, y)) = {x, y} /\ Range(Note3(x, y, z)) = {x, y, z}
          BY NoteFacts
        <5>. QED
          BY <5>1
      <4>. QED
        BY <3>1, <4>1
    <3>3. seen'[Newest] = seen[Newest] \cup {"pausing"}
      BY <1>3, <2>3, <2>4, <3>1, <3>2
    <3>. QED
      BY <2>6, <2>7, <2>8, <3>3 DEF Leads
  <2>. QED
    BY <2>2, <2>6, <2>7, <2>9 DEF Leads
<1>. QED
  BY <1>1, <1>2, <1>4, <1>5

\* What the notes of a call hold.
LEMMA NoteRanges ==
  ASSUME NEW x, NEW y, NEW z
  PROVE  Range(Note(x)) = {x} /\ Range(Note2(x, y)) = {x, y} /\ Range(Note3(x, y, z)) = {x, y, z}
  BY NoteFacts

LEMMA NoteRange ==
  /\ \A x : Range(Note(x)) = {x}
  /\ \A x, y : Range(Note2(x, y)) = {x, y}
  /\ Range(<<>>) = {}
<1>1. \A x, y, z : Range(Note(x)) = {x} /\ Range(Note2(x, y)) = {x, y} /\ Range(Note3(x, y, z)) = {x, y, z}
  BY NoteRanges
<1>2. Range(<<>>) = {}
  BY DEF Range
<1>. QED
  BY <1>1, <1>2

\* A report of the AGV, an order or nothing at all: a pause is not ended.
LEMMA PauseReported ==
  ASSUME NEW s, NEW r, Reported(r, s)
  PROVE  \/ r.state \in Leads("startPause")
         \/ s.state \notin Leads("startPause") /\ ({r.state} \cup Range(r.notes)) \cap Leads("startPause") = {}
<1>1. Orderly(r)
  BY DEF Reported
<1>2. CASE r.state = s.state /\ r.notes = <<>>
  BY <1>2, NoteRange DEF Leads
<1>3. CASE s.state \in {"active", "canceling"} /\ r.state = "idle" /\ r.notes = Note("idle")
  <2>1. Range(r.notes) = {"idle"}
    BY <1>3, NoteRange
  <2>. QED
    BY <1>3, <2>1 DEF Leads
<1>4. CASE r.state = "paused"
  BY <1>4 DEF Leads
<1>5. CASE s.state = "resuming" /\ r.state = "active" /\ r.notes = Note("active")
  <2>1. Range(r.notes) = {"active"}
    BY <1>5, NoteRange
  <2>. QED
    BY <1>5, <2>1 DEF Leads
<1>6. CASE s.state = "resuming" /\ r.state = "idle" /\ r.notes = Note2("active", "idle")
  <2>1. Range(r.notes) = {"active", "idle"}
    BY <1>6, NoteRange
  <2>. QED
    BY <1>6, <2>1 DEF Leads
<1>. QED
  BY <1>2, <1>3, <1>4, <1>5, <1>6 DEF Reported

LEMMA PauseOrdered ==
  ASSUME ControlInv, PauseLasts, handleYieldNormal \/ handleInterpreterDone
  PROVE  PauseLasts'
<1>0. ControlsType
  BY DEF ControlInv
<1>1. CASE handleYieldNormal
  <2>1. /\ TakesYield("group") /\ UNCHANGED sent
        /\ Call(Enqueue(Begin(sch), [kind |-> "group", actions |-> Orders[Head(yields).what],
                                     ceiling |-> Ceiling(Orders[Head(yields).what])]))
    BY <1>1 DEF handleYieldNormal
  <2>2. sent.orders > 0 /\ Head(yields).what = sent.orders
    BY <2>1, YieldTaken DEF ControlInv
  <2>3. sent.orders \in 1..Len(Orders)
    BY <1>0, <2>2, ControlTypes DEF ControlsType
  <2>. DEFINE r == Enqueue(Begin(sch), [kind |-> "group", actions |-> Orders[sent.orders],
                                        ceiling |-> Ceiling(Orders[sent.orders])])
  <2>4. Orderly(r) /\ r.notes = <<>> /\ r.state = sch.state
    BY <2>3, OrderGroup, EnqueueOrderly DEF ControlInv
  <2>5. Call(r)
    BY <2>1, <2>2
  <2>. HIDE DEF r
  <2>6. \/ r.state \in Leads("startPause")
        \/ sch.state \notin Leads("startPause") /\ ({r.state} \cup Range(r.notes)) \cap Leads("startPause") = {}
    BY <2>4, NoteRange
  <2>. QED
    BY <2>1, <2>4, <2>5, <2>6, PauseCalled
<1>2. CASE handleInterpreterDone
  <2>1. TakesYield("done") /\ Call(CommitQueue(Begin(sch))) /\ UNCHANGED sent
    BY <1>2 DEF handleInterpreterDone
  <2>2. yields \in OrderYields
    BY <2>1, YieldTaken DEF ControlInv
  <2>3. sch.state \in {"idle", "idle_paused"}
    BY <2>2 DEF ControlInv, OrdersFindRest, OrderPending
  <2>. DEFINE r == CommitQueue(Begin(sch))
  <2>4. /\ Orderly(r)
        /\ \/ r.state = sch.state /\ r.notes = <<>>
           \/ sch.state = "idle" /\ r.state = "active" /\ r.notes = Note("active")
    BY <2>3, CommitOrderly DEF ControlInv
  <2>5. Call(r)
    BY <2>1
  <2>. HIDE DEF r
  <2>6. \/ r.state \in Leads("startPause")
        \/ sch.state \notin Leads("startPause") /\ ({r.state} \cup Range(r.notes)) \cap Leads("startPause") = {}
    <3>1. CASE r.state = sch.state /\ r.notes = <<>>
      BY <3>1, NoteRange
    <3>2. CASE sch.state = "idle" /\ r.state = "active" /\ r.notes = Note("active")
      <4>1. Range(r.notes) = {"active"}
        BY <3>2, NoteRange
      <4>. QED
        BY <3>2, <4>1 DEF Leads
    <3>. QED
      BY <2>4, <3>1, <3>2
  <2>. QED
    BY <2>1, <2>4, <2>5, <2>6, PauseCalled
<1>. QED
  BY <1>1, <1>2

LEMMA PauseValidated ==
  ASSUME ControlInv, PauseLasts, ValidateAction, ControlsType'
  PROVE  PauseLasts'
<1>0. ControlsType
  BY DEF ControlInv
<1>1. Newest > 0 /\ Arrived("receivedAction", Newest)
  BY MessageTaken DEF ControlInv, ValidateAction
<1>2. Head(messages).what = Newest
  BY <1>1, Messages DEF Arrived
<1>3. /\ seen' = [seen EXCEPT ![Newest] = {sch.state}] \/ seen' = seen
      /\ UNCHANGED <<sent, sch>>
  BY <1>2 DEF ValidateAction
<1>4. Newest \in Control /\ Newest \in Nat /\ Newest' = Newest /\ (\A c : Type(c)' = Type(c))
  BY <1>0, <1>1, <1>3, ControlTypes DEF Newest, Type
<1>5. CASE seen' = seen
  BY <1>3, <1>4, <1>5, PauseStays
<1>6. CASE seen' = [seen EXCEPT ![Newest] = {sch.state}]
  <2>1. DOMAIN sent.types = 1..Newest
    BY <1>0 DEF ControlsType, Newest
  <2>2. SUFFICES ASSUME NEW c \in 1..Newest, seen'[c] \cap Leads("startPause") # {},
                        \A d \in c + 1..Newest : seen'[d] = {}
                 PROVE  sch.state \in Leads("startPause")
    BY <1>3, <1>4, <2>1 DEF PauseLasts, Newest, Leads
  <2>3. seen'[Newest] = {sch.state}
    BY <1>0, <1>4, <1>6 DEF ControlsType
  <2>4. c = Newest
    BY <1>4, <2>2, <2>3
  <2>. QED
    BY <2>2, <2>3, <2>4
<1>. QED
  BY <1>3, <1>5, <1>6

LEMMA PauseStep ==
  ASSUME Patient, ControlInv, PauseLasts, [Next]_vars
  PROVE  PauseLasts'
<1>0. ControlInv' /\ ControlsType'
  BY ControlStep DEF ControlInv
<1>1. CASE MasterControl
  <2>1. UNCHANGED <<sch, seen>> /\ Newest' \in {Newest, Newest + 1} /\ \A c \in 1..Newest : Type(c)' = Type(c)
    <3>1. CASE ReceiveOrder
      <4>1. UNCHANGED <<sch, seen>> /\ sent' = [sent EXCEPT !.orders = @ + 1]
        BY <3>1 DEF ReceiveOrder, Receive
      <4>. QED
        BY <4>1 DEF Newest, Type, ControlInv, ControlsType
    <3>2. ASSUME NEW type \in ControlType, ReceiveControl(type)
          PROVE  UNCHANGED <<sch, seen>> /\ Newest' \in {Newest, Newest + 1} /\ \A c \in 1..Newest : Type(c)' = Type(c)
      <4>1. UNCHANGED <<sch, seen>> /\ sent' = [sent EXCEPT !.types = Append(@, type)]
        BY <3>2 DEF ReceiveControl, Receive
      <4>. DEFINE types == Append(sent.types, type)
      <4>2. sent.types \in Seq(ControlType) /\ sent \in [types : Seq(ControlType), orders : Nat]
        BY DEF ControlInv, ControlsType
      <4>3. /\ types \in Seq(ControlType) /\ Len(types) = Len(sent.types) + 1
            /\ \A c \in 1..Len(sent.types) : types[c] = sent.types[c]
        BY <4>2
      <4>4. sent' = [sent EXCEPT !.types = types]
        BY <4>1
      <4>. HIDE DEF types
      <4>. QED
        BY <4>1, <4>2, <4>3, <4>4 DEF Newest, Type
    <3>. QED
      BY <1>1, <3>1, <3>2 DEF MasterControl
  <2>. QED
    BY <1>0, <2>1, PauseStays
<1>2. ASSUME UNCHANGED <<sent, sch, seen>> PROVE PauseLasts'
  BY <1>0, <1>2, PauseStays DEF Newest, Type
<1>3. CASE ValidateAction
  BY <1>0, <1>3, PauseValidated
<1>4. CASE MessageThread /\ ~ValidateAction
  BY <1>2, <1>4 DEF MessageThread, handleValidInstantActions, DispatchControl, ReportRunning, ReportFinished,
     ReportFrom, SendFactsheet, Subscribe, ValidateOrder, handleValidOrder
<1>5. CASE handleOrderControl
  BY <1>0, <1>5, PauseCommanded
<1>6. CASE handleClearActions
  BY <1>2, <1>6 DEF handleClearActions
<1>7. CASE handleYieldNormal \/ handleInterpreterDone
  BY <1>7, PauseOrdered
<1>8. CASE handleOrderStatus
  BY <1>2, <1>8 DEF handleOrderStatus
<1>9. CASE ActionStatus
  <2>1. PICK a \in sch.active : \E t \in Answers[sch.task[a]] : Call(ReportAction(Begin(sch), a, t))
    BY <1>9 DEF ActionStatus
  <2>2. PICK t \in Answers[sch.task[a]] : Call(ReportAction(Begin(sch), a, t))
    BY <2>1
  <2>3. UNCHANGED sent
    BY <1>9 DEF ActionStatus
  <2>. DEFINE r == ReportAction(Begin(sch), a, t)
  <2>4. Reported(r, sch) /\ Call(r)
    BY <2>2, ReportOrderly DEF ControlInv
  <2>. HIDE DEF r
  <2>5. \/ r.state \in Leads("startPause")
        \/ sch.state \notin Leads("startPause") /\ ({r.state} \cup Range(r.notes)) \cap Leads("startPause") = {}
    BY <2>4, PauseReported
  <2>6. Orderly(r)
    BY <2>4 DEF Reported
  <2>. QED
    BY <2>3, <2>4, <2>5, <2>6, PauseCalled
<1>10. CASE UNCHANGED vars
  BY <1>2, <1>10 DEF vars
<1>. QED
  BY <1>1, <1>3, <1>4, <1>5, <1>6, <1>7, <1>8, <1>9, <1>10 DEF Next, InterpreterThread

\* Once the scheduler has paused for a startPause, it stays paused until a later control
\* is found feasible, whatever the AGV reports and whatever orders arrive (scheduler.cpp).
THEOREM PausesLast ==
  ASSUME Patient
  PROVE  Spec => []PauseLasts
<1>1. Init => PauseLasts
  BY DEF Init, PauseLasts
<1>2. PauseLasts /\ ControlInv /\ [Next]_vars => PauseLasts'
  BY PauseStep
<1>. QED
  BY <1>1, <1>2, ControlsAreTracked, PTL DEF Spec

-------------------------------------------------------------------------------
(* What is reported FINISHED *)

\* What a step does to the states of the controls and to what has been seen.
FinishesAsAsked ==
  \A c \in Control :
    /\ states[c] = "FINISHED" => states'[c] \in {"FINISHED", Unknown}
    /\ states'[c] = "FINISHED" => states[c] = "FINISHED" \/ seen[c] \cap Leads(Type(c)) # {}
    /\ seen[c] \subseteq seen'[c]

LEMMA MastersTypes ==
  ASSUME ControlInv, MasterControl
  PROVE  UNCHANGED <<states, seen, sch>> /\ \A c \in 1..Newest : Type(c)' = Type(c)
<1>1. CASE ReceiveOrder
  <2>1. UNCHANGED <<states, seen, sch>> /\ sent' = [sent EXCEPT !.orders = @ + 1]
    BY <1>1 DEF ReceiveOrder, Receive
  <2>. QED
    BY <2>1 DEF Newest, Type, ControlInv, ControlsType
<1>2. ASSUME NEW type \in ControlType, ReceiveControl(type)
      PROVE  UNCHANGED <<states, seen, sch>> /\ \A c \in 1..Newest : Type(c)' = Type(c)
  <2>1. UNCHANGED <<states, seen, sch>> /\ sent' = [sent EXCEPT !.types = Append(@, type)]
    BY <1>2 DEF ReceiveControl, Receive
  <2>. DEFINE types == Append(sent.types, type)
  <2>2. sent.types \in Seq(ControlType) /\ sent \in [types : Seq(ControlType), orders : Nat]
    BY DEF ControlInv, ControlsType
  <2>3. /\ types \in Seq(ControlType) /\ Len(types) = Len(sent.types) + 1
        /\ \A c \in 1..Len(sent.types) : types[c] = sent.types[c]
    BY <2>2
  <2>4. sent' = [sent EXCEPT !.types = types]
    BY <2>1
  <2>. HIDE DEF types
  <2>. QED
    BY <2>1, <2>2, <2>3, <2>4 DEF Newest, Type
<1>. QED
  BY <1>1, <1>2 DEF MasterControl

LEMMA MessagesFinish ==
  ASSUME ControlInv, MessageThread
  PROVE  FinishesAsAsked /\ UNCHANGED sent
<1>0. ControlsType
  BY DEF ControlInv
<1>1. CASE ValidateAction
  <2>1. Newest > 0 /\ messages = <<Message("receivedAction", Newest)>>
    BY <1>1, MessageTaken DEF ControlInv, ValidateAction, Arrived
  <2>2. Head(messages).what = Newest
    BY <2>1, Messages
  <2>3. seen[Newest] = {}
    BY <2>1 DEF ControlInv, Progress
  <2>4. (seen' = [seen EXCEPT ![Newest] = {sch.state}] \/ seen' = seen) /\ UNCHANGED <<sent, states>>
    BY <1>1, <2>2 DEF ValidateAction
  <2>. QED
    BY <1>0, <2>3, <2>4 DEF FinishesAsAsked, ControlsType
<1>2. CASE handleValidInstantActions
  <2>1. Newest > 0 /\ messages = <<Message("validAction", Newest)>>
    BY <1>2, MessageTaken DEF ControlInv, handleValidInstantActions, Arrived
  <2>2. Head(messages).what = Newest
    BY <2>1, Messages
  <2>3. states[Newest] = Unknown
    BY <2>1 DEF ControlInv, Progress
  <2>4. states' = [states EXCEPT ![Newest] = "WAITING"] /\ UNCHANGED <<sent, seen>>
    BY <1>2, <2>2 DEF handleValidInstantActions
  <2>. QED
    BY <1>0, <2>3, <2>4 DEF FinishesAsAsked, ControlsType, Unknown
<1>3. CASE ReportRunning \/ ReportFinished
  <2>1. PICK step \in {"run", "finish"}, report \in {"RUNNING", "FINISHED"} :
          ReportFrom(step, report) /\ (report = "FINISHED" => step = "finish")
    BY <1>3 DEF ReportRunning, ReportFinished
  <2>2. enabling # Nothing /\ Head(enabling.steps) = step
    BY <2>1 DEF ReportFrom, Enables
  <2>3. /\ Newest \in Control /\ enabling.id = Newest /\ seen[Newest] # {} /\ states[Newest] \notin {Unknown, "FINISHED"}
        /\ Head(enabling.steps) \in {"dispatch", "run", "subscribe"} <=> Type(Newest) \in Commands
        /\ Type(Newest) \in ControlType
    BY <2>2, Enabling
  <2>4. states' = [states EXCEPT ![Newest] = report] /\ UNCHANGED <<sent, seen>>
    BY <2>1, <2>3 DEF ReportFrom
  <2>5. report = "FINISHED" => seen[Newest] \cap Leads(Type(Newest)) # {}
    <3>1. SUFFICES ASSUME report = "FINISHED" PROVE seen[Newest] \cap Leads(Type(Newest)) # {}
      OBVIOUS
    <3>2. Type(Newest) \notin Commands
      BY <2>1, <2>2, <2>3, <3>1
    <3>3. Leads(Type(Newest)) = SchedulerState
      BY <3>2 DEF Leads, Commands
    <3>4. seen[Newest] \subseteq SchedulerState
      BY <1>0, <2>3 DEF ControlsType
    <3>. QED
      BY <2>3, <3>3, <3>4
  <2>. QED
    BY <1>0, <2>3, <2>4, <2>5 DEF FinishesAsAsked, ControlsType
<1>4. CASE DispatchControl \/ SendFactsheet \/ Subscribe \/ ValidateOrder \/ handleValidOrder
  <2>1. UNCHANGED <<sent, states, seen>>
    BY <1>4 DEF DispatchControl, SendFactsheet, Subscribe, ValidateOrder, handleValidOrder
  <2>. QED
    BY <2>1 DEF FinishesAsAsked
<1>. QED
  BY <1>1, <1>2, <1>3, <1>4 DEF MessageThread

\* A call of the scheduler reports nothing.
LEMMA CallsFinish ==
  ASSUME ControlInv, NEW r, Orderly(r), Call(r), UNCHANGED states
  PROVE  FinishesAsAsked
<1>1. \A c \in Control : /\ seen'[c] = {} <=> seen[c] = {}
                         /\ seen[c] # {} => seen'[c] = seen[c] \cup {r.state} \cup Range(r.notes)
  BY CallSeen
<1>. QED
  BY <1>1 DEF FinishesAsAsked

LEMMA InterpreterFinishes ==
  ASSUME ControlInv, InterpreterThread
  PROVE  FinishesAsAsked /\ UNCHANGED sent
<1>0. ControlsType
  BY DEF ControlInv
<1>1. CASE handleOrderControl
  <2>1. /\ TakesYield("control") /\ UNCHANGED sent
        /\ Declined(Head(yields).what) \/ Controlled(Head(yields).what)
    BY <1>1 DEF handleOrderControl
  <2>2. ControlGiven /\ Newest > 0 /\ Head(yields).what = Newest
    BY <2>1, YieldTaken DEF ControlInv
  <2>3. CASE Declined(Newest)
    <3>1. Type(Newest) \in {"startPause", "stopPause"} /\ UNCHANGED seen
          /\ (states' = states \/ states' = [states EXCEPT ![Newest] = "FAILED"])
      BY <2>3 DEF Declined
    <3>2. states[Newest] # "FINISHED"
      BY <2>2, <3>1 DEF ControlInv, StaysFeasible, Undone
    <3>. QED
      BY <1>0, <2>1, <3>1, <3>2 DEF FinishesAsAsked, ControlsType
  <2>4. CASE Controlled(Newest)
    <3>1. Orderly(Commanded(Newest)) /\ Call(Commanded(Newest)) /\ UNCHANGED states
      BY <2>2, <2>4, CommandedOrderly DEF Controlled
    <3>. QED
      BY <2>1, <3>1, CallsFinish
  <2>. QED
    BY <2>1, <2>2, <2>3, <2>4
<1>2. CASE handleClearActions
  <2>1. states' = [c \in Control |-> Unknown] /\ UNCHANGED <<sent, seen>>
    BY <1>2 DEF handleClearActions
  <2>. QED
    BY <2>1 DEF FinishesAsAsked, Unknown
<1>3. CASE handleYieldNormal
  <2>1. /\ TakesYield("group") /\ UNCHANGED <<sent, states>>
        /\ Call(Enqueue(Begin(sch), [kind |-> "group", actions |-> Orders[Head(yields).what],
                                     ceiling |-> Ceiling(Orders[Head(yields).what])]))
    BY <1>3 DEF handleYieldNormal
  <2>2. sent.orders > 0 /\ Head(yields).what = sent.orders
    BY <2>1, YieldTaken DEF ControlInv
  <2>3. sent.orders \in 1..Len(Orders)
    BY <1>0, <2>2, ControlTypes DEF ControlsType
  <2>4. Orderly(Enqueue(Begin(sch), [kind |-> "group", actions |-> Orders[sent.orders],
                                     ceiling |-> Ceiling(Orders[sent.orders])]))
    BY <2>3, OrderGroup, EnqueueOrderly DEF ControlInv
  <2>. QED
    BY <2>1, <2>2, <2>4, CallsFinish
<1>4. CASE handleInterpreterDone
  <2>1. TakesYield("done") /\ Call(CommitQueue(Begin(sch))) /\ UNCHANGED <<sent, states>>
    BY <1>4 DEF handleInterpreterDone
  <2>2. yields \in OrderYields
    BY <2>1, YieldTaken DEF ControlInv
  <2>3. sch.state \in {"idle", "idle_paused"}
    BY <2>2 DEF ControlInv, OrdersFindRest, OrderPending
  <2>4. Orderly(CommitQueue(Begin(sch)))
    BY <2>3, CommitOrderly DEF ControlInv
  <2>. QED
    BY <2>1, <2>4, CallsFinish
<1>. QED
  BY <1>1, <1>2, <1>3, <1>4 DEF InterpreterThread

LEMMA AnnouncementsFinish ==
  ASSUME ControlInv, handleOrderStatus
  PROVE  FinishesAsAsked /\ UNCHANGED sent
<1>0. ControlsType
  BY DEF ControlInv
<1>. DEFINE event == Head(events)
            noticed == Notice(event)
<1>1. /\ states' = noticed.states /\ Heard(noticed, Len(latches), event)
      /\ events # <<>> /\ events' = Tail(events) /\ status' = event
      /\ UNCHANGED <<sent, seen>>
  BY AnnouncementHandled
<1>. HIDE DEF noticed
<1>2. StatesHeard(states', event)
  BY <1>1 DEF Heard
<1>3. event \in Range(events)
  BY <1>0, <1>1, HandledPath
<1>. HIDE DEF event
<1>4. ASSUME NEW c \in Control, Hears(c, event), Type(c) \in Commands, event \in Leads(Type(c))
      PROVE  seen[c] \cap Leads(Type(c)) # {}
  <2>1. seen[c] # {}
    BY <1>4 DEF Hears, ControlInv, LatchForm
  <2>2. Range(events) \cap Leads(Type(c)) \subseteq seen[c]
    BY <1>4, <2>1 DEF ControlInv, SeenForm
  <2>. QED
    BY <1>3, <1>4, <2>2
<1>. QED
  BY <1>1, <1>2, <1>4 DEF StatesHeard, FinishesAsAsked

LEMMA EveryStepFinishes ==
  ASSUME ControlInv, [Next]_vars
  PROVE  FinishesAsAsked /\ \A c \in 1..Newest : Type(c)' = Type(c)
<1>1. CASE MasterControl
  BY <1>1, MastersTypes DEF FinishesAsAsked
<1>2. CASE MessageThread
  BY <1>2, MessagesFinish DEF Type
<1>3. CASE InterpreterThread
  BY <1>3, InterpreterFinishes DEF Type
<1>4. CASE handleOrderStatus
  BY <1>4, AnnouncementsFinish DEF Type
<1>5. CASE ActionStatus
  <2>1. PICK a \in sch.active : \E t \in Answers[sch.task[a]] : Call(ReportAction(Begin(sch), a, t))
    BY <1>5 DEF ActionStatus
  <2>2. PICK t \in Answers[sch.task[a]] : Call(ReportAction(Begin(sch), a, t))
    BY <2>1
  <2>3. Orderly(ReportAction(Begin(sch), a, t)) /\ UNCHANGED <<sent, states>>
    BY <1>5, <2>2, ReportOrderly DEF ControlInv, Reported, ActionStatus
  <2>. QED
    BY <2>2, <2>3, CallsFinish DEF Type
<1>6. CASE UNCHANGED vars
  BY <1>6 DEF vars, FinishesAsAsked, Type
<1>. QED
  BY <1>1, <1>2, <1>3, <1>4, <1>5, <1>6 DEF Next

LEMMA AskedStep ==
  ASSUME ControlInv, FinishedAsAsked, [Next]_vars
  PROVE  FinishedAsAsked'
<1>1. FinishesAsAsked /\ \A c \in 1..Newest : Type(c)' = Type(c)
  BY EveryStepFinishes
<1>2. SUFFICES ASSUME NEW c \in Control, states'[c] = "FINISHED"
               PROVE  seen'[c] \cap Leads(Type(c)') # {}
  BY DEF FinishedAsAsked, Leads
<1>3. seen[c] \cap Leads(Type(c)) # {} /\ seen[c] \subseteq seen'[c]
  BY <1>1, <1>2 DEF FinishesAsAsked, FinishedAsAsked
<1>4. c \in 1..Newest
  BY <1>3, ControlTypes DEF ControlInv, SeenForm, Control
<1>. QED
  BY <1>1, <1>3, <1>4

\* A control is reported FINISHED by its latch (handleCancelOrder, handlePause and
\* handleResume) only when the scheduler has been where the control leads to since the
\* control was found feasible.
THEOREM FinishedMeansDone ==
  ASSUME Patient
  PROVE  Spec => []FinishedAsAsked
<1>1. Init => FinishedAsAsked
  BY DEF Init, FinishedAsAsked, Unknown
<1>2. FinishedAsAsked /\ ControlInv /\ [Next]_vars => FinishedAsAsked'
  BY AskedStep
<1>. QED
  BY <1>1, <1>2, ControlsAreTracked, PTL DEF Spec

\* What is reported FINISHED is reported as nothing else, until a new order makes the order
\* manager forget it (OrderManager::orderActionSetFinished, handleClearActions).
THEOREM FinishedStaysFinished ==
  ASSUME Patient
  PROVE  Spec => FinishedIsFinal
<1>1. ControlInv /\ [Next]_vars =>
        [\A c \in Control : states[c] = "FINISHED" => states'[c] \in {"FINISHED", Unknown}]_vars
  BY EveryStepFinishes DEF FinishesAsAsked
<1>. QED
  BY <1>1, ControlsAreTracked, PTL DEF Spec, FinishedIsFinal

-------------------------------------------------------------------------------
(* Nothing hangs *)

\* What keeps a control from ending.
Excusing == {"late", "idle paused", "nothing to cancel"}

\* A control that has to end.
Watched(c) == seen[c] # {} /\ excused[c] \cap Excusing = {}
Working(c) == states[c] \in {"WAITING", "RUNNING"}

\* The message event thread is done with a control.
Handled(c) == c = Newest => enabling = Nothing /\ messages # <<Message("validAction", Newest)>>

Hangs(c, chain) == \E x \in Range(latches) : x.id = c /\ x.chain = chain

\* The latches that a control still needs are subscribed.
Awaiting(c) ==
  /\ Handled(c) /\ Working(c) => Type(c) \in Commands
  /\ Handled(c) /\ Working(c) /\ (states[c] = "WAITING" \/ Type(c) = "cancelOrder") =>
       \A i \in DOMAIN Blocks(Type(c)) : Hangs(c, Blocks(Type(c))[i])
  /\ Handled(c) /\ states[c] = "RUNNING" /\ Type(c) # "cancelOrder" => Hangs(c, Tail(Blocks(Type(c))[2]))
  /\ ~Handled(c) /\ Type(c) # "cancelOrder" => states[c] # "RUNNING"

\* The scheduler has been told, and the control has not ended.
Due(c) ==
  /\ Type(c) \in Commands /\ (c = Newest => ~Undone)
  /\ Working(c) \/ (Type(c) = "cancelOrder" /\ c = Newest /\ enabling # Nothing)

Pausing   == sch.state = "pausing" \/ "paused" \in Range(events)
Resuming  == sch.state = "resuming" \/ "active" \in Range(events)
Canceling == (sch.state = "canceling" /\ sch.active # {}) \/ "idle" \in Range(events)

\* What the control waits for is announced, or the reports of the AGV lead to it.
Coming(c) ==
  CASE Type(c) = "startPause" ->
         IF states[c] = "RUNNING" THEN Pausing ELSE {"idle_paused", "pausing"} \cap Range(events) # {}
    [] Type(c) = "stopPause" ->
         IF states[c] = "RUNNING" THEN Resuming ELSE {"idle", "resuming"} \cap Range(events) # {}
    [] Type(c) = "cancelOrder" -> Canceling

Attended(c) == Watched(c) => Awaiting(c) /\ (Due(c) => Coming(c))
AllAttended == "order" \in alive => \A c \in Control : Attended(c)

\* A pause that has begun is over before anything else is announced, and so is its end.
Follows(p, q) == (p = "pausing" => q = "paused") /\ (p = "resuming" => q = "active")
Stepwise      == \A i \in 1..Len(events) : Follows(Path[i], Path[i + 1])

Rests == sch.state = "canceling" /\ sch.active = {} => \E c \in Control : "nothing to cancel" \in excused[c]

HangInv == "interpreter" \in alive /\ Rests /\ Stepwise /\ AllAttended

\* A scheduler that is neither at rest nor canceling nothing waits for the AGV.
LEMMA BusyIsAnswered ==
  ASSUME ControlInv, Answered
  PROVE  sch.state \in {"idle", "idle_paused", "paused"} \/ (sch.state = "canceling" /\ sch.active = {})
<1>1. Groups(sch) /\ Busy(sch)
  BY DEF ControlInv, Orderly
<1>2. /\ sch.task \in [Action -> ActionState] /\ sch.running \cup sch.paused = sch.active
      /\ sch.active \subseteq Action
  BY <1>1 DEF Groups, Schedulers
<1>3. \A a \in sch.active : sch.task[a] \notin {"Initializing", "Running", "Pausing", "Resuming", "Canceling"}
  <2>1. SUFFICES ASSUME NEW a \in sch.active, sch.task[a] \in {"Initializing", "Running", "Pausing", "Resuming", "Canceling"}
                 PROVE  FALSE
    OBVIOUS
  <2>2. Answers[sch.task[a]] = {}
    BY DEF Answered
  <2>3. sch.task[a] \in ActionState
    BY <1>2
  <2>. QED
    BY <2>1, <2>2, <2>3 DEF Answers
<1>4. CASE sch.state = "active" /\ sch.active # {} /\ sch.paused = {}
           /\ AllIn(sch, sch.running, {"Initializing", "Running"})
  BY <1>2, <1>3, <1>4 DEF AllIn
<1>5. CASE sch.state = "pausing" /\ sch.running # {} /\ AllIn(sch, sch.running, {"Pausing"})
  BY <1>2, <1>3, <1>5 DEF AllIn
<1>6. CASE sch.state = "resuming" /\ sch.paused # {} /\ AllIn(sch, sch.paused, {"Resuming"})
  BY <1>2, <1>3, <1>6 DEF AllIn
<1>7. CASE sch.state = "canceling" /\ AllIn(sch, sch.active, {"Canceling"})
  BY <1>2, <1>3, <1>7 DEF AllIn
<1>. QED
  BY <1>1, <1>4, <1>5, <1>6, <1>7 DEF Busy

LEMMA HangInvSuffices ==
  ASSUME ControlInv, HangInv
  PROVE  NothingHangs
<1>0. ControlsType
  BY DEF ControlInv
<1>1. SUFFICES ASSUME Settled, Answered, {"message", "order"} \subseteq alive
               PROVE  /\ "interpreter" \in alive
                      /\ \A c \in Control : seen[c] # {} =>
                           \/ states[c] \in Ended \cup {Unknown}
                           \/ excused[c] \cap Excusing # {}
                      /\ sch.state \in {"idle", "idle_paused", "paused"} \/ \E c \in Control : "nothing to cancel" \in excused[c]
  BY DEF NothingHangs, Excusing
<1>2. sch.state \in {"idle", "idle_paused", "paused"} \/ (sch.state = "canceling" /\ sch.active = {})
  BY <1>1, BusyIsAnswered
<1>3. ASSUME NEW c \in Control, seen[c] # {}, states[c] \notin Ended \cup {Unknown}, excused[c] \cap Excusing = {}
      PROVE  FALSE
  <2>1. Attended(c) /\ Watched(c)
    BY <1>1, <1>3 DEF HangInv, AllAttended, Watched
  <2>2. Working(c)
    BY <1>0, <1>3 DEF Working, ControlsType, Status, Ended
  <2>3. Handled(c) /\ ~Undone
    BY <1>1, Messages DEF Handled, Settled, Undone, ControlGiven
  <2>4. Type(c) \in Commands /\ Due(c)
    BY <2>1, <2>2, <2>3 DEF Attended, Awaiting, Due
  <2>5. Coming(c)
    BY <2>1, <2>4 DEF Attended
  <2>6. Range(events) = {}
    BY <1>1 DEF Settled, Range
  <2>. QED
    BY <1>2, <2>4, <2>5, <2>6 DEF Coming, Commands, Pausing, Resuming, Canceling
<1>. QED
  BY <1>1, <1>2, <1>3 DEF HangInv, Rests

\* What the scheduler still does is announced before it is done.
Onward ==
  /\ Range(events) \subseteq Range(events')
  /\ sch.state = "pausing" => Pausing'
  /\ sch.state = "resuming" => Resuming'
  /\ sch.state = "canceling" /\ sch.active # {} => Canceling'

LEMMA ComesOn ==
  ASSUME Onward, NEW c, Type(c) \in Commands, Type(c)' = Type(c), Coming(c),
         states'[c] = states[c] \/ Type(c) = "cancelOrder"
  PROVE  Coming(c)'
<1>1. CASE Type(c) = "startPause"
  BY <1>1 DEF Coming, Onward, Pausing
<1>2. CASE Type(c) = "stopPause"
  BY <1>2 DEF Coming, Onward, Resuming
<1>3. CASE Type(c) = "cancelOrder"
  BY <1>3 DEF Coming, Onward, Canceling
<1>. QED
  BY <1>1, <1>2, <1>3 DEF Commands

\* A control that a step passes by.
LEMMA PassedBy ==
  ASSUME AllAttended, "order" \in alive, Onward, NEW c \in Control,
         Type(c)' = Type(c), states'[c] = states[c], Watched(c)' => Watched(c),
         Range(latches) \subseteq Range(latches'),
         Handled(c)' <=> Handled(c), Due(c)' => Due(c)
  PROVE  Attended(c)'
<1>1. SUFFICES ASSUME Watched(c)' PROVE Awaiting(c)' /\ (Due(c)' => Coming(c)')
  BY DEF Attended
<1>2. Awaiting(c) /\ (Due(c) => Coming(c))
  BY <1>1 DEF AllAttended, Attended
<1>3. \A chain : Hangs(c, chain) => Hangs(c, chain)'
  BY DEF Hangs
<1>4. Blocks(Type(c))' = Blocks(Type(c))
  BY DEF Blocks
<1>5. Awaiting(c)'
  <2>1. Working(c)' <=> Working(c)
    BY DEF Working
  <2>2. \A i \in DOMAIN Blocks(Type(c)) : Hangs(c, Blocks(Type(c))[i]) => Hangs(c, Blocks(Type(c))[i])'
    BY <1>3
  <2>3. Hangs(c, Tail(Blocks(Type(c))[2])) => Hangs(c, Tail(Blocks(Type(c))[2]))'
    BY <1>3
  <2>. QED
    BY <1>2, <1>4, <2>1, <2>2, <2>3 DEF Awaiting
<1>6. Due(c)' => Coming(c)'
  BY <1>2, ComesOn DEF Due
<1>. QED
  BY <1>5, <1>6

\* The other controls, when a step is about the newest one.
LEMMA OthersPassed ==
  ASSUME AllAttended, "order" \in alive, Onward, UNCHANGED sent, NEW c \in Control, c # Newest,
         states'[c] = states[c], seen'[c] = {} <=> seen[c] = {}, excused[c] \subseteq excused'[c],
         Range(latches) \subseteq Range(latches')
  PROVE  Attended(c)'
<1>1. Newest' = Newest /\ Type(c)' = Type(c)
  BY DEF Newest, Type
<1>2. Handled(c)' /\ Handled(c)
  BY <1>1 DEF Handled
<1>3. Due(c)' => Due(c)
  BY <1>1 DEF Due, Working
<1>4. Watched(c)' => Watched(c)
  BY DEF Watched
<1>. QED
  BY <1>1, <1>2, <1>3, <1>4, PassedBy

\* The scheduler and its announcements are left alone.
LEMMA QuietKeeps ==
  ASSUME HangInv, UNCHANGED <<sch, events, status>>, "interpreter" \in alive => "interpreter" \in alive',
         \A c \in Control : excused[c] \subseteq excused'[c]
  PROVE  "interpreter" \in alive' /\ Rests' /\ Stepwise' /\ Onward
<1>1. Rests'
  BY DEF HangInv, Rests
<1>2. Stepwise'
  BY DEF HangInv, Stepwise, Path
<1>3. Onward
  BY DEF Onward, Pausing, Resuming, Canceling
<1>. QED
  BY <1>1, <1>2, <1>3 DEF HangInv

LEMMA ReceiveHangs ==
  ASSUME Patient, ControlInv, HangInv, MasterControl
  PROVE  HangInv'
<1>0. ControlsType
  BY DEF ControlInv
<1>1. /\ messages = <<>> /\ enabling = Nothing /\ yields = <<>>
      /\ UNCHANGED <<enabling, yields, sch, events, status, states, latches, alive, seen, excused>>
      /\ \E kind \in {"receivedAction", "receivedOrder"} : \E what : messages' = <<Message(kind, what)>>
  <2>1. ASSUME NEW kind, NEW what, Receive(Message(kind, what))
        PROVE  /\ messages = <<>> /\ enabling = Nothing /\ yields = <<>>
               /\ UNCHANGED <<enabling, yields, sch, events, status, states, latches, alive, seen, excused>>
               /\ messages' = <<Message(kind, what)>>
    BY <2>1, Messages DEF Receive, Settled
  <2>2. CASE ReceiveOrder
    <3>1. Receive(Message("receivedOrder", sent.orders + 1))
      BY <2>2 DEF ReceiveOrder
    <3>. QED
      BY <2>1, <3>1
  <2>3. CASE \E type \in ControlType : ReceiveControl(type)
    <3>1. Receive(Message("receivedAction", Len(sent.types) + 1))
      BY <2>3 DEF ReceiveControl
    <3>. QED
      BY <2>1, <3>1
  <2>. QED
    BY <2>2, <2>3 DEF MasterControl
<1>2. \A c \in 1..Newest : Type(c)' = Type(c)
  BY MastersTypes
<1>3. "interpreter" \in alive' /\ Rests' /\ Stepwise' /\ Onward
  BY <1>1, QuietKeeps
<1>4. messages' # <<Message("validAction", Newest')>>
  BY <1>1, Messages
<1>5. ~Undone
  BY <1>1, Messages DEF Undone, ControlGiven
<1>6. ASSUME "order" \in alive', NEW c \in Control PROVE Attended(c)'
  <2>1. CASE c \in 1..Newest
    <3>1. Handled(c)' /\ Handled(c)
      BY <1>1, <1>4, Messages DEF Handled
    <3>2. Due(c)' => Due(c)
      BY <1>1, <1>2, <1>5, <2>1 DEF Due, Working
    <3>3. Watched(c)' => Watched(c)
      BY <1>1 DEF Watched
    <3>. QED
      BY <1>1, <1>2, <1>3, <1>6, <2>1, <3>1, <3>2, <3>3, PassedBy DEF HangInv
  <2>2. CASE c \notin 1..Newest
    <3>1. seen[c] = {}
      BY <1>0, <2>2, ControlTypes DEF ControlInv, SeenForm, Control
    <3>. QED
      BY <1>1, <3>1 DEF Attended, Watched
  <2>. QED
    BY <2>1, <2>2
<1>. QED
  BY <1>3, <1>6 DEF HangInv, AllAttended

\* The message event thread is about the newest control alone.
LEMMA MessageHangs ==
  ASSUME HangInv, UNCHANGED <<sent, sch, events, status, excused>>,
         "interpreter" \in alive => "interpreter" \in alive', "order" \in alive' => "order" \in alive,
         \A c \in Control : c # Newest => states'[c] = states[c] /\ seen'[c] = seen[c],
         Range(latches) \subseteq Range(latches'),
         Newest \in Control /\ "order" \in alive' /\ Onward => Attended(Newest)'
  PROVE  HangInv'
<1>1. "interpreter" \in alive' /\ Rests' /\ Stepwise' /\ Onward
  BY QuietKeeps
<1>2. ASSUME "order" \in alive', NEW c \in Control PROVE Attended(c)'
  <2>1. CASE c = Newest
    <3>1. Newest' = Newest
      BY DEF Newest
    <3>. QED
      BY <1>1, <1>2, <2>1, <3>1
  <2>2. CASE c # Newest
    BY <1>1, <1>2, <2>2, OthersPassed DEF HangInv
  <2>. QED
    BY <2>1, <2>2
<1>. QED
  BY <1>1, <1>2 DEF HangInv, AllAttended

LEMMA ValidateActionHangs ==
  ASSUME ControlInv, HangInv, ValidateAction
  PROVE  HangInv'
<1>0. ControlsType
  BY DEF ControlInv
<1>1. Newest > 0 /\ messages = <<Message("receivedAction", Newest)>> /\ enabling = Nothing
  BY MessageTaken DEF ControlInv, ValidateAction, Arrived
<1>2. Head(messages).what = Newest /\ Tail(messages) = <<>>
  BY <1>1, Messages
<1>3. seen[Newest] = {}
  BY <1>1 DEF ControlInv, Progress
<1>4. /\ UNCHANGED <<sent, enabling, yields, sch, events, status, states, latches, alive, excused>>
      /\ \/ messages' = <<Message("validAction", Newest)>> /\ seen' = [seen EXCEPT ![Newest] = {sch.state}]
         \/ messages' = <<>> /\ seen' = seen
  <2>. DEFINE rest == Tail(messages)
              w == Head(messages).what
  <2>1. rest = <<>> /\ w = Newest
    BY <1>2
  <2>2. /\ UNCHANGED <<sent, enabling, yields, sch, events, status, states, latches, alive, excused>>
        /\ \/ messages' = Append(rest, Message("validAction", w)) /\ seen' = [seen EXCEPT ![w] = {sch.state}]
           \/ messages' = rest /\ seen' = seen
    BY DEF ValidateAction
  <2>. HIDE DEF rest, w
  <2>. QED
    BY <2>1, <2>2, Messages
<1>5. Newest' = Newest /\ \A c : Type(c)' = Type(c)
  BY <1>4 DEF Newest, Type
<1>6. ASSUME Newest \in Control PROVE Attended(Newest)'
  <2>1. CASE seen' = seen
    BY <1>3, <1>4, <1>5, <2>1 DEF Attended, Watched
  <2>2. CASE messages' = <<Message("validAction", Newest)>>
    <3>1. states'[Newest] = Unknown
      BY <1>3, <1>4, <1>6 DEF ControlInv, SeenForm
    <3>2. ~Handled(Newest)' /\ Undone'
      BY <1>5, <2>2 DEF Handled, Undone
    <3>3. Awaiting(Newest)'
      BY <1>5, <3>1, <3>2 DEF Awaiting, Unknown
    <3>4. ~Due(Newest)'
      BY <1>5, <3>2 DEF Due
    <3>. QED
      BY <1>5, <3>3, <3>4 DEF Attended
  <2>. QED
    BY <1>4, <2>1, <2>2
<1>7. \A c \in Control : c # Newest => states'[c] = states[c] /\ seen'[c] = seen[c]
  BY <1>0, <1>4 DEF ControlsType
<1>. QED
  BY <1>4, <1>6, <1>7, MessageHangs

\* The block of a command begins with the dispatch.
LEMMA StepsNonempty ==
  ASSUME NEW type \in ControlType
  PROVE  Steps(type) \in StepsLeft(type)
  BY DEF Steps, StepsLeft, CancelSteps, FactsheetSteps, StateRequestSteps, ControlType

LEMMA handleValidInstantActionsHangs ==
  ASSUME ControlInv, HangInv, handleValidInstantActions
  PROVE  HangInv'
<1>0. ControlsType
  BY DEF ControlInv
<1>1. Newest > 0 /\ messages = <<Message("validAction", Newest)>> /\ enabling = Nothing /\ yields = <<>>
  BY MessageTaken DEF ControlInv, handleValidInstantActions, Arrived
<1>2. Head(messages).what = Newest
  BY <1>1, Messages
<1>3. /\ UNCHANGED <<sent, yields, sch, events, status, latches, alive, seen, excused>>
      /\ states' = [states EXCEPT ![Newest] = "WAITING"]
      /\ enabling' = [id |-> Newest, steps |-> Steps(Type(Newest))]
  BY <1>2 DEF handleValidInstantActions
<1>4. Newest' = Newest /\ \A c : Type(c)' = Type(c)
  BY <1>3 DEF Newest, Type
<1>5. ASSUME Newest \in Control PROVE Attended(Newest)'
  <2>1. Type(Newest) \in ControlType
    BY <1>0, <1>1, ControlTypes
  <2>2. states'[Newest] = "WAITING"
    BY <1>0, <1>3, <1>5 DEF ControlsType
  <2>3. enabling' # Nothing
    BY <1>1, <1>3, ControlTypes, <1>0 DEF Nothing
  <2>4. ~Handled(Newest)'
    BY <1>4, <2>3 DEF Handled
  <2>5. Awaiting(Newest)'
    BY <1>4, <2>2, <2>4 DEF Awaiting
  <2>6. ~Due(Newest)'
    <3>1. Type(Newest) \in Commands => Head(enabling'.steps) = "dispatch"
      <4>1. Steps(Type(Newest)) \in StepsLeft(Type(Newest))
        BY <2>1, StepsNonempty
      <4>. QED
        BY <1>3, <2>1, <4>1, StepsFacts
    <3>. QED
      BY <1>4, <2>3, <3>1 DEF Due, Undone
  <2>. QED
    BY <2>5, <2>6 DEF Attended
<1>6. \A c \in Control : c # Newest => states'[c] = states[c] /\ seen'[c] = seen[c]
  BY <1>0, <1>3 DEF ControlsType
<1>. QED
  BY <1>3, <1>5, <1>6, MessageHangs

\* The latches a control needs do not depend on a step that leaves it and its latches alone.
LEMMA AwaitingStays ==
  ASSUME NEW c, Awaiting(c), UNCHANGED <<sent, latches>>, states'[c] = states[c], Handled(c)' <=> Handled(c)
  PROVE  Awaiting(c)'
<1>1. Type(c)' = Type(c) /\ Blocks(Type(c))' = Blocks(Type(c))
  BY DEF Type, Blocks
<1>2. \A chain : Hangs(c, chain)' <=> Hangs(c, chain)
  BY DEF Hangs
<1>3. Working(c)' <=> Working(c)
  BY DEF Working
<1>4. Hangs(c, Tail(Blocks(Type(c))[2])) <=> Hangs(c, Tail(Blocks(Type(c))[2]))'
  BY <1>1, <1>2
<1>5. \A i \in DOMAIN Blocks(Type(c)) : Hangs(c, Blocks(Type(c))[i]) <=> Hangs(c, Blocks(Type(c))[i])'
  BY <1>1, <1>2
<1>. QED
  BY <1>1, <1>3, <1>4, <1>5 DEF Awaiting

LEMMA DispatchControlHangs ==
  ASSUME ControlInv, HangInv, DispatchControl
  PROVE  HangInv'
<1>0. ControlsType
  BY DEF ControlInv
<1>1. /\ enabling # Nothing /\ Head(enabling.steps) = "dispatch" /\ EnabledStep
      /\ yields' = Append(yields, Message("control", enabling.id))
      /\ UNCHANGED <<sent, messages, sch, events, status, states, latches, alive, seen, excused>>
  BY DEF DispatchControl, Enables
<1>2. /\ Newest > 0 /\ enabling.id = Newest /\ yields = <<>>
  BY <1>1, Enabling
<1>3. yields' = <<Message("control", Newest)>>
  BY <1>1, <1>2, Messages
<1>4. PICK rest \in StepsLeft(Type(Newest)) :
        enabling' = [id |-> Newest, steps |-> rest] /\ Head(rest) # "dispatch"
  BY <1>0, <1>1, EnabledSteps DEF ControlInv
<1>5. Newest' = Newest /\ \A c : Type(c)' = Type(c)
  BY <1>1 DEF Newest, Type
<1>6. ASSUME Newest \in Control, "order" \in alive' PROVE Attended(Newest)'
  <2>1. Undone'
    BY <1>3, <1>5 DEF Undone, ControlGiven
  <2>2. ~Handled(Newest)' /\ ~Handled(Newest)
    BY <1>1, <1>2, <1>4, <1>5 DEF Handled, Nothing
  <2>3. ~Due(Newest)'
    BY <1>5, <2>1 DEF Due
  <2>4. Watched(Newest) => Awaiting(Newest)
    BY <1>1, <1>6 DEF HangInv, AllAttended, Attended
  <2>5. Watched(Newest)' => Awaiting(Newest)'
    BY <1>1, <1>5, <2>2, <2>4, AwaitingStays DEF Watched
  <2>. QED
    BY <1>5, <2>3, <2>5 DEF Attended
<1>. QED
  BY <1>1, <1>6, MessageHangs

LEMMA ReportFromHangs ==
  ASSUME ControlInv, HangInv, ReportRunning \/ ReportFinished
  PROVE  HangInv'
<1>0. ControlsType
  BY DEF ControlInv
<1>1. PICK step \in {"run", "finish"}, report \in {"RUNNING", "FINISHED"} :
        ReportFrom(step, report) /\ (step = "run" <=> report = "RUNNING")
  BY DEF ReportRunning, ReportFinished
<1>2. enabling # Nothing /\ Head(enabling.steps) = step
  BY <1>1 DEF ReportFrom, Enables
<1>3. /\ Newest > 0 /\ Newest \in Control /\ enabling.id = Newest
      /\ seen[Newest] # {} /\ states[Newest] \notin {Unknown, "FINISHED"}
      /\ step = "run" <=> Type(Newest) \in Commands
      /\ step = "run" => Type(Newest) = "cancelOrder"
  BY <1>2, Enabling
<1>4. /\ EnabledStep /\ states' = [states EXCEPT ![Newest] = report]
      /\ UNCHANGED <<alive, sent, messages, yields, sch, events, status, latches, seen, excused>>
  BY <1>1, <1>3 DEF ReportFrom
<1>5. Newest' = Newest /\ \A c : Type(c)' = Type(c)
  BY <1>4 DEF Newest, Type
<1>6. states'[Newest] = report /\ \A c \in Control : c # Newest => states'[c] = states[c]
  BY <1>0, <1>3, <1>4 DEF ControlsType, Status
<1>7. ASSUME "order" \in alive', Onward PROVE Attended(Newest)'
  <2>1. CASE step = "finish"
    BY <1>1, <1>3, <1>5, <1>6, <2>1 DEF Attended, Awaiting, Due, Working, Commands
  <2>2. CASE step = "run"
    <3>1. PICK rest \in StepsLeft(Type(Newest)) : enabling' = [id |-> Newest, steps |-> rest] /\ Head(rest) # "dispatch"
      BY <1>0, <1>2, <1>4, <2>2, EnabledSteps DEF ControlInv
    <3>2. ~Handled(Newest)'
      BY <1>3, <1>5, <3>1 DEF Handled, Nothing
    <3>3. Awaiting(Newest)'
      BY <1>3, <1>5, <2>2, <3>2 DEF Awaiting
    <3>4. Undone' <=> Undone
      BY <1>2, <1>4, <1>5, <2>2, <3>1, <1>3 DEF Undone, ControlGiven, Nothing
    <3>5. Due(Newest)' => Due(Newest)
      BY <1>2, <1>3, <1>5, <2>2, <3>4 DEF Due
    <3>6. Watched(Newest)' => (Due(Newest) => Coming(Newest))
      BY <1>3, <1>4, <1>5, <1>7 DEF HangInv, AllAttended, Attended, Watched
    <3>7. Watched(Newest)' /\ Due(Newest)' => Coming(Newest)'
      BY <1>3, <1>5, <1>7, <2>2, <3>5, <3>6, ComesOn
    <3>. QED
      BY <1>5, <3>3, <3>7 DEF Attended
  <2>. QED
    BY <2>1, <2>2
<1>. QED
  BY <1>4, <1>6, <1>7, MessageHangs

LEMMA SendFactsheetHangs ==
  ASSUME ControlInv, HangInv, SendFactsheet
  PROVE  HangInv'
<1>0. ControlsType
  BY DEF ControlInv
<1>1. /\ enabling # Nothing /\ Head(enabling.steps) = "factsheet"
      /\ (EnabledStep /\ UNCHANGED alive) \/ (alive' = alive \ {"message"} /\ UNCHANGED enabling)
      /\ UNCHANGED <<sent, messages, yields, sch, events, status, states, latches, seen, excused>>
  BY DEF SendFactsheet, Enables, Gathered, GatheredLate, Ends
<1>2. Newest > 0 /\ enabling.id = Newest /\ Type(Newest) \notin Commands
  BY <1>1, Enabling
<1>3. enabling' # Nothing
  <2>1. CASE EnabledStep
    BY <1>0, <1>1, <1>2, <2>1, EnabledSteps DEF ControlInv, Nothing
  <2>. QED
    BY <1>1, <2>1
<1>4. Newest' = Newest /\ \A c : Type(c)' = Type(c)
  BY <1>1 DEF Newest, Type
<1>5. ASSUME Newest \in Control, "order" \in alive' PROVE Attended(Newest)'
  <2>1. ~Handled(Newest)' /\ ~Handled(Newest)
    BY <1>1, <1>3, <1>4 DEF Handled
  <2>2. ~Due(Newest)'
    BY <1>2, <1>4 DEF Due
  <2>3. Watched(Newest) => Awaiting(Newest)
    BY <1>1, <1>5 DEF HangInv, AllAttended, Attended
  <2>4. Watched(Newest)' => Awaiting(Newest)'
    BY <1>1, <1>4, <2>1, <2>3, AwaitingStays DEF Watched
  <2>. QED
    BY <1>4, <2>2, <2>4 DEF Attended
<1>. QED
  BY <1>1, <1>5, MessageHangs

LEMMA SubscribeHangs ==
  ASSUME ControlInv, HangInv, Subscribe
  PROVE  HangInv'
<1>0. ControlsType
  BY DEF ControlInv
<1>1. /\ enabling # Nothing /\ Head(enabling.steps) = "subscribe" /\ EnabledStep
      /\ latches' = latches \o Enabled(enabling.id)
      /\ UNCHANGED <<sent, messages, yields, sch, events, status, states, alive, seen, excused>>
  BY DEF Subscribe, Enables
<1>2. /\ Newest > 0 /\ Newest \in Control /\ messages = <<>> /\ enabling.id = Newest /\ Type(Newest) \in Commands
  BY <1>1, Enabling
<1>3. enabling' = Nothing
  BY <1>0, <1>1, EnabledSteps DEF ControlInv
<1>4. /\ Enabled(Newest) \in Seq(Subscribed)
      /\ \A i \in DOMAIN Blocks(Type(Newest)) :
           [id |-> Newest, chain |-> Blocks(Type(Newest))[i]] \in Range(Enabled(Newest))
  BY <1>2, EnabledChains
<1>5. \A x : x \in Range(latches') <=> x \in Range(latches) \/ x \in Range(Enabled(Newest))
  <2>1. latches \in Seq(Subscribed) /\ latches' = latches \o Enabled(Newest)
    BY <1>0, <1>1, <1>2 DEF ControlsType
  <2>. QED
    BY <1>4, <2>1, ConcatRange
<1>6. Newest' = Newest /\ \A c : Type(c)' = Type(c)
  BY <1>1 DEF Newest, Type
<1>7. ASSUME "order" \in alive', Onward PROVE Attended(Newest)'
  <2>1. SUFFICES ASSUME Watched(Newest) PROVE Awaiting(Newest)' /\ (Due(Newest)' => Coming(Newest)')
    BY <1>1, <1>6 DEF Attended, Watched
  <2>2. Awaiting(Newest) /\ (Due(Newest) => Coming(Newest))
    BY <1>1, <1>2, <1>7, <2>1 DEF HangInv, AllAttended, Attended
  <2>3. ~Handled(Newest)
    BY <1>1 DEF Handled
  <2>4. Type(Newest) # "cancelOrder" => states[Newest] # "RUNNING"
    BY <2>2, <2>3 DEF Awaiting
  <2>5. \A i \in DOMAIN Blocks(Type(Newest)) : Hangs(Newest, Blocks(Type(Newest))[i])'
    <3>1. ASSUME NEW chain, [id |-> Newest, chain |-> chain] \in Range(latches') PROVE Hangs(Newest, chain)'
      BY <1>6, <3>1 DEF Hangs
    <3>. QED
      BY <1>4, <1>5, <1>6, <3>1
  <2>6. Handled(Newest)'
    BY <1>1, <1>2, <1>3, <1>6, Messages DEF Handled
  <2>7. Blocks(Type(Newest))' = Blocks(Type(Newest))
    BY <1>6
  <2>8. Awaiting(Newest)'
    BY <1>1, <1>2, <1>6, <2>4, <2>5, <2>6, <2>7 DEF Awaiting
  <2>9. Undone' <=> Undone
    BY <1>1, <1>2, <1>3, <1>6, Messages DEF Undone, ControlGiven
  <2>10. Due(Newest)' => Due(Newest)
    BY <1>1, <1>2, <1>3, <1>6, <2>9 DEF Due, Working
  <2>. QED
    BY <1>1, <1>2, <1>6, <1>7, <2>2, <2>8, <2>10, ComesOn
<1>8. Range(latches) \subseteq Range(latches')
  BY <1>5
<1>. QED
  BY <1>1, <1>7, <1>8, MessageHangs

LEMMA OrderMessagesHang ==
  ASSUME ControlInv, HangInv, ValidateOrder \/ handleValidOrder
  PROVE  HangInv'
<1>0. ControlsType
  BY DEF ControlInv
<1>1. /\ UNCHANGED <<sent, enabling, sch, events, status, states, latches, alive, seen, excused>>
      /\ enabling = Nothing /\ messages # <<Message("validAction", Newest)>> /\ ~Undone
  <2>1. PICK kind \in {"receivedOrder", "validOrder"} : Takes(kind)
    BY DEF ValidateOrder, handleValidOrder
  <2>2. Arrived(kind, sent.orders)
    BY <2>1, MessageTaken DEF ControlInv
  <2>3. messages # <<Message("validAction", Newest)>> /\ ~Undone
    BY <2>2, Messages DEF Arrived, Undone, ControlGiven
  <2>. QED
    BY <2>2, <2>3 DEF ValidateOrder, handleValidOrder, Arrived
<1>2. messages' # <<Message("validAction", Newest)>>
  <2>1. CASE ValidateOrder
    <3>. DEFINE w == Head(messages).what
                rest == Tail(messages)
    <3>1. messages = <<Message("receivedOrder", sent.orders)>>
      BY <2>1, MessageTaken DEF ValidateOrder, ControlInv, Arrived
    <3>2. rest = <<>> /\ w = sent.orders
      BY <3>1, Messages
    <3>3. messages' = IF status \in {"idle", "idle_paused"} THEN Append(rest, Message("validOrder", w)) ELSE rest
      BY <2>1 DEF ValidateOrder
    <3>. HIDE DEF rest, w
    <3>. QED
      BY <3>2, <3>3, Messages
  <2>2. CASE handleValidOrder
    <3>1. messages = <<Message("validOrder", sent.orders)>> /\ messages' = Tail(messages)
      BY <2>2, MessageTaken DEF handleValidOrder, ControlInv, Arrived
    <3>2. messages' = <<>>
      BY <3>1, Messages
    <3>. QED
      BY <3>2, Messages
  <2>. QED
    BY <2>1, <2>2
<1>3. Newest' = Newest /\ \A c : Type(c)' = Type(c)
  BY <1>1 DEF Newest, Type
<1>4. ASSUME Newest \in Control, "order" \in alive', Onward PROVE Attended(Newest)'
  <2>1. Handled(Newest)' /\ Handled(Newest)
    BY <1>1, <1>2, <1>3 DEF Handled
  <2>2. Due(Newest)' => Due(Newest)
    BY <1>1, <1>3 DEF Due, Working
  <2>3. Watched(Newest)' => Watched(Newest)
    BY <1>1, <1>3 DEF Watched
  <2>. QED
    BY <1>1, <1>3, <1>4, <2>1, <2>2, <2>3, PassedBy DEF HangInv
<1>. QED
  BY <1>1, <1>4, MessageHangs

\* What is announced goes on from the state the scheduler was in.
Continues(r, s) ==
  /\ Len(r.notes) > 0 => Follows(s.state, r.notes[1])
  /\ \A i \in 1..Len(r.notes) - 1 : Follows(r.notes[i], r.notes[i + 1])

LEMMA ContinuesOne ==
  ASSUME NEW r, NEW s, NEW x, r.notes = Note(x), Follows(s.state, x)
  PROVE  Continues(r, s)
<1>1. Len(r.notes) = 1 /\ r.notes[1] = x
  BY NotesOfTwo
<1>. QED
  BY <1>1 DEF Continues

LEMMA ContinuesTwo ==
  ASSUME NEW r, NEW s, NEW x, NEW y, r.notes = Note2(x, y), Follows(s.state, x), Follows(x, y)
  PROVE  Continues(r, s)
<1>1. Len(r.notes) = 2 /\ r.notes[1] = x /\ r.notes[2] = y
  BY NotesOfTwo
<1>. QED
  BY <1>1 DEF Continues

LEMMA ContinuesThree ==
  ASSUME NEW r, NEW s, NEW x, NEW y, NEW z, r.notes = Note3(x, y, z),
         Follows(s.state, x), Follows(x, y), Follows(y, z)
  PROVE  Continues(r, s)
<1>1. /\ Note(x) # <<>> /\ Len(Note(x)) = 1 /\ Note(x)[1] = x
      /\ Note2(x, y) # <<>> /\ Len(Note2(x, y)) = 2 /\ Note2(x, y)[1] = x /\ Note2(x, y)[2] = y
      /\ Note3(x, y, z) # <<>> /\ Len(Note3(x, y, z)) = 3 /\ Note3(x, y, z)[1] = x /\ Note3(x, y, z)[2] = y
      /\ Note3(x, y, z)[3] = z
  BY NoteFacts
<1>2. Len(r.notes) = 3 /\ r.notes[1] = x /\ r.notes[2] = y /\ r.notes[3] = z
  BY <1>1
<1>3. \A i \in 1..2 : Follows(r.notes[i], r.notes[i + 1])
  BY <1>2
<1>. QED
  BY <1>2, <1>3 DEF Continues

LEMMA ContinuesNone ==
  ASSUME NEW r, NEW s, r.notes = <<>>
  PROVE  Continues(r, s)
  BY DEF Continues

LEMMA ReportContinues ==
  ASSUME NEW s, NEW r, Reported(r, s)
  PROVE  Continues(r, s)
<1>1. CASE r.notes = <<>>
  BY <1>1, ContinuesNone
<1>2. CASE s.state \in {"active", "canceling"} /\ r.notes = Note("idle")
  BY <1>2, ContinuesOne DEF Follows
<1>3. CASE s.state = "pausing" /\ r.notes = Note("paused")
  BY <1>3, ContinuesOne DEF Follows
<1>4. CASE s.state = "resuming" /\ r.notes = Note("active")
  BY <1>4, ContinuesOne DEF Follows
<1>5. CASE s.state = "resuming" /\ r.notes = Note2("active", "idle")
  BY <1>5, ContinuesTwo DEF Follows
<1>. QED
  BY <1>1, <1>2, <1>3, <1>4, <1>5 DEF Reported

LEMMA StepwiseCalls ==
  ASSUME ControlInv, Stepwise, NEW r, Orderly(r), Call(r), UNCHANGED status, Continues(r, sch)
  PROVE  Stepwise'
<1>0. ControlsType
  BY DEF ControlInv
<1>1. r.notes \in Seq(SchedulerState) /\ sch' = r /\ events' = events \o r.notes
  BY CallSeen
<1>2. /\ Len(Path') = Len(Path) + Len(r.notes)
      /\ \A i \in 1..Len(Path) : Path'[i] = Path[i]
      /\ \A i \in 1..Len(r.notes) : Path'[Len(Path) + i] = r.notes[i]
  BY <1>0, <1>1, CalledPath
<1>3. /\ Len(Path) = Len(events) + 1 /\ Len(events) \in Nat /\ Len(r.notes) \in Nat /\ sch.state = Path[Len(Path)]
      /\ Len(events') = Len(events) + Len(r.notes)
  <2>1. Len(events') = Len(events) + Len(r.notes)
    BY <1>0, <1>1, ConcatType DEF ControlsType
  <2>2. Len(r.notes) \in Nat
    BY <1>1
  <2>. QED
    BY <1>0, <2>1, <2>2, PathIndex DEF ControlInv, ControlsType, Latest
<1>4. \A i \in 1..Len(events) : Follows(Path[i], Path[i + 1])
  BY DEF Stepwise
<1>. HIDE DEF Path
<1>5. SUFFICES ASSUME NEW i \in 1..Len(events) + Len(r.notes) PROVE Follows(Path'[i], Path'[i + 1])
  BY <1>3 DEF Stepwise
<1>6. CASE i <= Len(events)
  <2>1. i \in 1..Len(events) /\ i \in 1..Len(Path) /\ i + 1 \in 1..Len(Path)
    BY <1>3, <1>6
  <2>2. Path'[i] = Path[i] /\ Path'[i + 1] = Path[i + 1] /\ Follows(Path[i], Path[i + 1])
    BY <1>2, <1>4, <2>1
  <2>. QED
    BY <2>2
<1>7. CASE i = Len(Path)
  <2>1. Len(r.notes) > 0 /\ 1 \in 1..Len(r.notes) /\ Len(Path) \in 1..Len(Path)
    BY <1>3, <1>7
  <2>2. Path'[i] = sch.state /\ Path'[i + 1] = r.notes[1]
    BY <1>2, <1>3, <1>7, <2>1
  <2>. QED
    BY <2>1, <2>2 DEF Continues
<1>8. CASE i > Len(Path)
  <2>1. /\ i - Len(Path) \in 1..Len(r.notes) - 1 /\ i - Len(Path) \in 1..Len(r.notes)
        /\ i - Len(Path) + 1 \in 1..Len(r.notes)
        /\ Len(Path) + (i - Len(Path)) = i /\ Len(Path) + (i - Len(Path) + 1) = i + 1
    BY <1>3, <1>8
  <2>2. Path'[Len(Path) + (i - Len(Path))] = r.notes[i - Len(Path)]
    BY <1>2, <2>1
  <2>3. Path'[Len(Path) + (i - Len(Path) + 1)] = r.notes[i - Len(Path) + 1]
    BY <1>2, <2>1
  <2>4. Follows(r.notes[i - Len(Path)], r.notes[i - Len(Path) + 1])
    BY <2>1 DEF Continues
  <2>. QED
    BY <2>1, <2>2, <2>3, <2>4
<1>. QED
  BY <1>3, <1>6, <1>7, <1>8

\* A call that no control makes.
LEMMA CallHangs ==
  ASSUME ControlInv, HangInv, NEW r, Orderly(r), Call(r), Continues(r, sch), Rests', Onward,
         UNCHANGED <<sent, messages, enabling, status, states, latches, alive, excused>>,
         Undone => Undone'
  PROVE  HangInv'
<1>1. Stepwise'
  BY StepwiseCalls DEF HangInv
<1>2. \A c \in Control : seen'[c] = {} <=> seen[c] = {}
  BY CallSeen
<1>3. Newest' = Newest /\ \A c : Type(c)' = Type(c)
  BY DEF Newest, Type
<1>4. ASSUME "order" \in alive', NEW c \in Control PROVE Attended(c)'
  <2>1. Handled(c)' <=> Handled(c)
    BY <1>3 DEF Handled
  <2>2. Due(c)' => Due(c)
    BY <1>3 DEF Due, Working
  <2>3. Watched(c)' => Watched(c)
    BY <1>2 DEF Watched
  <2>. QED
    BY <1>3, <1>4, <2>1, <2>2, <2>3, PassedBy DEF HangInv
<1>. QED
  BY <1>1, <1>4 DEF HangInv, AllAttended

LEMMA OrderYieldsHang ==
  ASSUME ControlInv, HangInv, handleYieldNormal \/ handleInterpreterDone
  PROVE  HangInv'
<1>0. ControlsType
  BY DEF ControlInv
<1>1. PICK kind \in {"group", "done"} : TakesYield(kind)
  BY DEF handleYieldNormal, handleInterpreterDone
<1>2. /\ messages = <<>> /\ enabling = Nothing /\ sent.orders > 0 /\ yields \in OrderYields
      /\ kind = "group" => Head(yields).what = sent.orders
  BY <1>1, YieldTaken DEF ControlInv
<1>3. ~Undone
  BY <1>2, OrderYieldsFacts DEF Undone, ControlGiven
<1>4. sch.state \in {"idle", "idle_paused"}
  BY <1>2 DEF ControlInv, OrdersFindRest, OrderPending
<1>5. CASE handleYieldNormal
  <2>1. /\ TakesYield("group") /\ UNCHANGED <<sent, messages, enabling, status, states, latches, alive, excused>>
        /\ Call(Enqueue(Begin(sch), [kind |-> "group", actions |-> Orders[Head(yields).what],
                                     ceiling |-> Ceiling(Orders[Head(yields).what])]))
    BY <1>5 DEF handleYieldNormal
  <2>2. Head(yields).what = sent.orders /\ sent.orders \in 1..Len(Orders)
    BY <1>0, <1>2, <2>1, YieldTaken, ControlTypes DEF ControlInv, ControlsType
  <2>. DEFINE r == Enqueue(Begin(sch), [kind |-> "group", actions |-> Orders[sent.orders],
                                        ceiling |-> Ceiling(Orders[sent.orders])])
  <2>3. Orderly(r) /\ r.notes = <<>> /\ r.state = sch.state
    BY <2>2, OrderGroup, EnqueueOrderly DEF ControlInv
  <2>4. Call(r)
    BY <2>1, <2>2
  <2>. HIDE DEF r
  <2>5. Continues(r, sch)
    BY <2>3, ContinuesNone
  <2>6. sch' = r /\ Range(events) \subseteq Range(events')
    BY <2>3, <2>4, CallSeen
  <2>7. Rests' /\ Onward
    BY <1>4, <2>3, <2>6 DEF Rests, Onward
  <2>. QED
    BY <1>3, <2>1, <2>3, <2>4, <2>5, <2>7, CallHangs
<1>6. CASE handleInterpreterDone
  <2>1. Call(CommitQueue(Begin(sch))) /\ UNCHANGED <<sent, messages, enabling, status, states, latches, alive, excused>>
    BY <1>6 DEF handleInterpreterDone
  <2>. DEFINE r == CommitQueue(Begin(sch))
  <2>2. /\ Orderly(r)
        /\ \/ r.state = sch.state /\ r.notes = <<>>
           \/ sch.state = "idle" /\ r.state = "active" /\ r.notes = Note("active")
    BY <1>4, CommitOrderly DEF ControlInv
  <2>3. Call(r)
    BY <2>1
  <2>. HIDE DEF r
  <2>4. Continues(r, sch)
    BY <2>2, ContinuesNone, ContinuesOne DEF Follows
  <2>5. sch' = r /\ Range(events) \subseteq Range(events')
    BY <2>2, <2>3, CallSeen
  <2>6. Rests' /\ Onward
    BY <1>4, <2>2, <2>5 DEF Rests, Onward
  <2>. QED
    BY <1>3, <2>1, <2>2, <2>3, <2>4, <2>6, CallHangs
<1>. QED
  BY <1>5, <1>6

LEMMA ActionStatusHangs ==
  ASSUME ControlInv, HangInv, ActionStatus
  PROVE  HangInv'
<1>1. PICK a \in sch.active : \E t \in Answers[sch.task[a]] : Call(ReportAction(Begin(sch), a, t))
  BY DEF ActionStatus
<1>2. PICK t \in Answers[sch.task[a]] : Call(ReportAction(Begin(sch), a, t))
  BY <1>1
<1>3. UNCHANGED <<sent, messages, enabling, yields, status, states, latches, alive, excused>>
  BY DEF ActionStatus
<1>. DEFINE r == ReportAction(Begin(sch), a, t)
<1>4. Reported(r, sch) /\ Call(r)
  BY <1>2, ReportOrderly DEF ControlInv
<1>. HIDE DEF r
<1>5. Orderly(r) /\ Continues(r, sch)
  BY <1>4, ReportContinues DEF Reported
<1>6. sch' = r /\ \A e : e \in Range(events') <=> e \in Range(events) \/ e \in Range(r.notes)
  BY <1>4, <1>5, CallSeen
<1>7. Rests'
  BY <1>3, <1>4, <1>6 DEF Reported, Rests, HangInv
<1>8. Onward
  <2>1. Range(events) \subseteq Range(events')
    BY <1>6
  <2>2. CASE r.state = sch.state /\ (sch.state = "canceling" => r.active # {})
    BY <1>6, <2>1, <2>2 DEF Onward, Pausing, Resuming, Canceling
  <2>3. CASE sch.state \in {"active", "canceling"} /\ r.notes = Note("idle")
    <3>1. Range(r.notes) = {"idle"}
      BY <2>3, NoteRange
    <3>. QED
      BY <1>6, <2>1, <2>3, <3>1 DEF Onward, Canceling
  <2>4. CASE sch.state = "pausing" /\ r.notes = Note("paused")
    <3>1. Range(r.notes) = {"paused"}
      BY <2>4, NoteRange
    <3>. QED
      BY <1>6, <2>1, <2>4, <3>1 DEF Onward, Pausing
  <2>5. CASE sch.state = "resuming" /\ r.notes = Note("active")
    <3>1. Range(r.notes) = {"active"}
      BY <2>5, NoteRange
    <3>. QED
      BY <1>6, <2>1, <2>5, <3>1 DEF Onward, Resuming
  <2>6. CASE sch.state = "resuming" /\ r.notes = Note2("active", "idle")
    <3>1. Range(r.notes) = {"active", "idle"}
      BY <2>6, NoteRange
    <3>. QED
      BY <1>6, <2>1, <2>6, <3>1 DEF Onward, Resuming
  <2>. QED
    BY <1>4, <2>2, <2>3, <2>4, <2>5, <2>6 DEF Reported
<1>9. Undone => Undone'
  BY <1>3 DEF Undone, ControlGiven, Newest
<1>. QED
  BY <1>3, <1>4, <1>5, <1>7, <1>8, <1>9, CallHangs

LEMMA handleClearActionsHangs ==
  ASSUME ControlInv, HangInv, handleClearActions
  PROVE  HangInv'
<1>1. /\ TakesYield("clear") /\ states' = [c \in Control |-> Unknown]
      /\ UNCHANGED <<sent, messages, enabling, sch, events, status, latches, alive, seen, excused>>
  BY DEF handleClearActions
<1>2. enabling = Nothing
  BY <1>1, YieldTaken DEF ControlInv
<1>3. "interpreter" \in alive' /\ Rests' /\ Stepwise'
  BY <1>1, QuietKeeps
<1>4. \A c \in Control : Attended(c)'
  BY <1>1, <1>2 DEF Attended, Awaiting, Due, Working, Unknown
<1>. QED
  BY <1>3, <1>4 DEF HangInv, AllAttended

\* What a control has the scheduler announce.
LEMMA CommandFacts ==
  ASSUME ControlInv, ControlGiven
  PROVE  LET r == Commanded(Newest)
         IN /\ Orderly(r) /\ Continues(r, sch)
            /\ sch.state \notin {"pausing", "resuming", "canceling"}
            /\ Type(Newest) = "startPause" => {"idle_paused", "pausing"} \cap Range(r.notes) # {}
            /\ Type(Newest) = "stopPause" => {"idle", "resuming"} \cap Range(r.notes) # {}
            /\ Type(Newest) = "cancelOrder" =>
                 \/ "idle" \in Range(r.notes)
                 \/ sch.state = "idle_paused"
                 \/ r.state = "canceling" /\ r.active = sch.active
            /\ r.state = "canceling" => r.active = sch.active /\ Type(Newest) = "cancelOrder" /\ sch.state # "idle_paused"
<1>0. ControlsType
  BY DEF ControlInv
<1>1. sch.state \in FeasibleIn(Type(Newest))
  <2>1. sch.state = Path[Len(Path)] /\ Len(Path) \in DOMAIN Path
    BY <1>0, PathIndex DEF ControlInv, ControlsType, Latest
  <2>. QED
    BY <2>1 DEF ControlInv, StaysFeasible, Undone
<1>2. Newest > 0 /\ Type(Newest) \in Commands
  BY OrderYieldsFacts DEF ControlInv, OneAtATime, ControlUnderWay, OrderUnderWay, Arrived, ControlGiven, IsEnabling
<1>3. sch.state \in {"idle_paused", "active", "idle", "paused"}
  BY <1>1, <1>2 DEF FeasibleIn, Commands
<1>4. \A x, y, z : Range(Note(x)) = {x} /\ Range(Note2(x, y)) = {x, y} /\ Range(Note3(x, y, z)) = {x, y, z}
  BY NoteRanges
<1>. DEFINE r == Commanded(Newest)
<1>5. /\ Orderly(r)
      /\ Type(Newest) = "startPause" =>
           \/ r.state = "idle_paused" /\ r.notes = Note("idle_paused")
           \/ r.state = "pausing" /\ r.notes = Note("pausing")
      /\ Type(Newest) = "stopPause" =>
           \/ r.state = "idle" /\ r.notes = Note("idle")
           \/ r.state = "active" /\ r.notes = Note2("idle", "active")
           \/ r.state = "resuming" /\ r.notes = Note("resuming")
           \/ r.state = "active" /\ r.notes = Note2("resuming", "active")
           \/ r.state = "idle" /\ r.notes = Note3("resuming", "active", "idle")
      /\ Type(Newest) = "cancelOrder" =>
           \/ sch.state = "idle" /\ r.state = "idle" /\ r.notes = Note("idle")
           \/ sch.state = "idle_paused" /\ r.state = "idle_paused" /\ r.notes = <<>>
           \/ /\ sch.state \in {"active", "paused"} /\ r.state = "canceling"
              /\ r.notes = Note("canceling") /\ r.active = sch.active
  BY CommandedOrderly
<1>. HIDE DEF r
<1>6. CASE Type(Newest) = "startPause"
  <2>1. Continues(r, sch)
    BY <1>3, <1>5, <1>6, ContinuesOne DEF Follows
  <2>2. {"idle_paused", "pausing"} \cap Range(r.notes) # {}
    <3>1. Range(Note("idle_paused")) = {"idle_paused"} /\ Range(Note("pausing")) = {"pausing"}
      BY NoteRange
    <3>. QED
      BY <1>5, <1>6, <3>1
  <2>. QED
    BY <1>3, <1>5, <1>6, <2>1, <2>2 DEF r
<1>7. CASE Type(Newest) = "stopPause"
  <2>1. Continues(r, sch)
    <3>1. CASE r.notes = Note("idle") \/ r.notes = Note("resuming")
      BY <1>3, <3>1, ContinuesOne DEF Follows
    <3>2. CASE r.notes = Note2("idle", "active") \/ r.notes = Note2("resuming", "active")
      BY <1>3, <3>2, ContinuesTwo DEF Follows
    <3>3. CASE r.notes = Note3("resuming", "active", "idle")
      BY <1>3, <3>3, ContinuesThree DEF Follows
    <3>. QED
      BY <1>5, <1>7, <3>1, <3>2, <3>3
  <2>2. {"idle", "resuming"} \cap Range(r.notes) # {}
    <3>1. CASE r.notes = Note("idle") \/ r.notes = Note("resuming")
      <4>1. Range(Note("idle")) = {"idle"} /\ Range(Note("resuming")) = {"resuming"}
        BY NoteRange
      <4>. QED
        BY <3>1, <4>1
    <3>2. CASE r.notes = Note2("idle", "active") \/ r.notes = Note2("resuming", "active")
      <4>1. Range(Note2("idle", "active")) = {"idle", "active"} /\ Range(Note2("resuming", "active")) = {"resuming", "active"}
        BY NoteRange
      <4>. QED
        BY <3>2, <4>1
    <3>3. CASE r.notes = Note3("resuming", "active", "idle")
      <4>1. Range(r.notes) = {"resuming", "active", "idle"}
        BY <1>4, <3>3
      <4>. QED
        BY <4>1
    <3>. QED
      BY <1>5, <1>7, <3>1, <3>2, <3>3
  <2>. QED
    BY <1>3, <1>5, <1>7, <2>1, <2>2 DEF r
<1>8. CASE Type(Newest) = "cancelOrder"
  <2>1. Continues(r, sch)
    <3>1. CASE r.notes = <<>>
      BY <3>1, ContinuesNone
    <3>2. CASE r.notes = Note("idle") \/ r.notes = Note("canceling")
      BY <1>3, <3>2, ContinuesOne DEF Follows
    <3>. QED
      BY <1>5, <1>8, <3>1, <3>2
  <2>2. r.notes = Note("idle") => "idle" \in Range(r.notes)
    BY NoteRange
  <2>. QED
    BY <1>3, <1>5, <1>8, <2>1, <2>2 DEF r
<1>. QED
  BY <1>2, <1>6, <1>7, <1>8 DEF Commands

LEMMA handleOrderControlHangs ==
  ASSUME ControlInv, HangInv, handleOrderControl
  PROVE  HangInv'
<1>0. ControlsType
  BY DEF ControlInv
<1>1. /\ TakesYield("control") /\ UNCHANGED <<sent, messages, enabling, status, latches>>
      /\ Declined(Head(yields).what) \/ Controlled(Head(yields).what)
  BY DEF handleOrderControl
<1>2. /\ ControlGiven /\ Newest > 0 /\ Type(Newest) \in Commands /\ messages = <<>>
      /\ Head(yields).what = Newest /\ yields' = <<>>
      /\ enabling = Nothing \/ Head(enabling.steps) # "dispatch"
  BY <1>1, YieldTaken DEF ControlInv
<1>3. Newest \in Control /\ Newest' = Newest /\ (\A c : Type(c)' = Type(c))
  BY <1>0, <1>1, <1>2, ControlTypes DEF Newest, Type
<1>4. excused \in [Control -> SUBSET Excuses] /\ states \in [Control -> Status]
  BY <1>0 DEF ControlsType
<1>5. Handled(Newest)' <=> Handled(Newest)
  BY <1>1, <1>3 DEF Handled
<1>6. CASE Declined(Newest)
  <2>1. states[Newest] # Unknown
    BY <1>2 DEF ControlInv, Progress
  <2>2. /\ Type(Newest) \in {"startPause", "stopPause"}
        /\ states' = [states EXCEPT ![Newest] = "FAILED"] /\ excused' = [excused EXCEPT ![Newest] = @ \cup {"declined"}]
        /\ UNCHANGED <<alive, sch, events, seen>>
    BY <1>6, <2>1 DEF Declined, Excuse
  <2>3. /\ \A c \in Control : excused[c] \subseteq excused'[c]
        /\ states'[Newest] = "FAILED" /\ \A c \in Control : c # Newest => states'[c] = states[c]
    BY <1>3, <1>4, <2>2
  <2>4. "interpreter" \in alive' /\ Rests' /\ Stepwise' /\ Onward
    BY <1>1, <2>2, <2>3, QuietKeeps
  <2>5. ASSUME "order" \in alive', NEW c \in Control PROVE Attended(c)'
    <3>1. CASE c = Newest
      BY <1>3, <2>2, <2>3, <3>1 DEF Attended, Awaiting, Due, Working
    <3>2. CASE c # Newest
      BY <1>1, <2>2, <2>3, <2>4, <2>5, <3>2, OthersPassed DEF HangInv
    <3>. QED
      BY <3>1, <3>2
  <2>. QED
    BY <2>4, <2>5 DEF HangInv, AllAttended
<1>7. CASE Controlled(Newest)
  <2>. DEFINE r == Commanded(Newest)
  <2>1. /\ Orderly(r) /\ Continues(r, sch)
        /\ sch.state \notin {"pausing", "resuming", "canceling"}
        /\ Type(Newest) = "startPause" => {"idle_paused", "pausing"} \cap Range(r.notes) # {}
        /\ Type(Newest) = "stopPause" => {"idle", "resuming"} \cap Range(r.notes) # {}
        /\ Type(Newest) = "cancelOrder" =>
             \/ "idle" \in Range(r.notes)
             \/ sch.state = "idle_paused"
             \/ r.state = "canceling" /\ r.active = sch.active
        /\ r.state = "canceling" => r.active = sch.active /\ Type(Newest) = "cancelOrder" /\ sch.state # "idle_paused"
    BY <1>2, CommandFacts
  <2>2. /\ Call(r) /\ UNCHANGED states
        /\ IF r.thrown THEN alive' = alive \ {"interpreter"} ELSE UNCHANGED alive
        /\ IF Type(Newest) = "cancelOrder" /\ sch.state = "idle_paused"
           THEN excused' = [excused EXCEPT ![Newest] = @ \cup {"idle paused"}]
           ELSE IF r.state = "canceling" /\ sch.active = {}
           THEN excused' = [excused EXCEPT ![Newest] = @ \cup {"nothing to cancel"}]
           ELSE UNCHANGED excused
    BY <1>7 DEF Controlled, Ends, Excuse
  <2>3. ~r.thrown
    BY <2>1 DEF Orderly, Groups
  <2>. HIDE DEF r
  <2>4. /\ sch' = r
        /\ \A c \in Control : seen'[c] = {} <=> seen[c] = {}
        /\ \A e : e \in Range(events') <=> e \in Range(events) \/ e \in Range(r.notes)
    BY <2>1, <2>2, CallSeen
  <2>5. UNCHANGED alive
    BY <2>2, <2>3
  <2>6. \A c \in Control : excused[c] \subseteq excused'[c]
    BY <1>3, <1>4, <2>2
  <2>7. Type(Newest) = "cancelOrder" /\ sch.state = "idle_paused" => "idle paused" \in excused'[Newest]
    BY <1>3, <1>4, <2>2
  <2>8. r.state = "canceling" /\ sch.active = {} => "nothing to cancel" \in excused'[Newest]
    BY <1>3, <1>4, <2>1, <2>2
  <2>9. Rests'
    BY <1>3, <2>1, <2>4, <2>8 DEF Rests
  <2>10. Stepwise'
    BY <1>1, <2>1, <2>2, StepwiseCalls DEF HangInv
  <2>11. Onward
    BY <2>1, <2>4 DEF Onward
  <2>12. ASSUME "order" \in alive' PROVE Attended(Newest)'
    <3>1. SUFFICES ASSUME Watched(Newest)' PROVE Awaiting(Newest)' /\ (Due(Newest)' => Coming(Newest)')
      BY DEF Attended
    <3>2. Watched(Newest)
      BY <1>3, <2>4, <2>6, <3>1 DEF Watched
    <3>3. Awaiting(Newest)
      BY <1>3, <2>5, <2>12, <3>2 DEF HangInv, AllAttended, Attended
    <3>4. Awaiting(Newest)'
      <4>1. states'[Newest] = states[Newest]
        BY <2>2
      <4>. QED
        BY <1>1, <1>3, <1>5, <3>3, <4>1, AwaitingStays
    <3>5. Coming(Newest)'
      <4>1. excused'[Newest] \cap Excusing = {}
        BY <1>3, <3>1 DEF Watched
      <4>2. CASE Type(Newest) = "startPause"
        <5>1. states'[Newest] # "RUNNING"
          BY <1>2, <2>2, <4>2 DEF ControlInv, StaysFeasible, Undone
        <5>. QED
          BY <1>3, <2>1, <2>4, <4>2, <5>1 DEF Coming
      <4>3. CASE Type(Newest) = "stopPause"
        <5>1. states'[Newest] # "RUNNING"
          BY <1>2, <2>2, <4>3 DEF ControlInv, StaysFeasible, Undone
        <5>. QED
          BY <1>3, <2>1, <2>4, <4>3, <5>1 DEF Coming
      <4>4. CASE Type(Newest) = "cancelOrder"
        BY <1>3, <2>1, <2>4, <2>7, <2>8, <4>1, <4>4 DEF Coming, Canceling, Excusing
      <4>. QED
        BY <1>2, <4>2, <4>3, <4>4 DEF Commands
    <3>. QED
      BY <3>4, <3>5
  <2>13. ASSUME "order" \in alive', NEW c \in Control PROVE Attended(c)'
    <3>1. CASE c = Newest
      BY <1>3, <2>12, <2>13, <3>1
    <3>2. CASE c # Newest
      BY <1>1, <2>2, <2>4, <2>5, <2>6, <2>11, <2>13, <3>2, OthersPassed DEF HangInv
    <3>. QED
      BY <3>1, <3>2
  <2>. QED
    BY <2>5, <2>9, <2>10, <2>13 DEF HangInv, AllAttended
<1>. QED
  BY <1>1, <1>2, <1>6, <1>7

\* What the alternatives of a command await.
LEMMA BlockHeads ==
  ASSUME NEW type
  PROVE  /\ type = "startPause" =>
              /\ DOMAIN Blocks(type) = 1..2 /\ DOMAIN Blocks(type)[1] = 1..1 /\ DOMAIN Blocks(type)[2] = 1..2
              /\ Blocks(type)[1][1].awaited = "idle_paused" /\ Head(Blocks(type)[1]).awaited = "idle_paused"
              /\ Blocks(type)[2][1].awaited = "pausing" /\ Head(Blocks(type)[2]).awaited = "pausing"
         /\ type = "stopPause" =>
              /\ DOMAIN Blocks(type) = 1..2 /\ DOMAIN Blocks(type)[1] = 1..1 /\ DOMAIN Blocks(type)[2] = 1..2
              /\ Blocks(type)[1][1].awaited = "idle" /\ Head(Blocks(type)[1]).awaited = "idle"
              /\ Blocks(type)[2][1].awaited = "resuming" /\ Head(Blocks(type)[2]).awaited = "resuming"
         /\ type = "cancelOrder" =>
              /\ DOMAIN Blocks(type) = 1..1 /\ DOMAIN Blocks(type)[1] = 1..1
              /\ Blocks(type)[1][1].awaited = "idle" /\ Head(Blocks(type)[1]).awaited = "idle"
<1>1. \A a, r : Latch(a, r).awaited = a
  BY DEF Latch
<1>2. \A x : Head(<<x>>) = x /\ DOMAIN <<x>> = 1..1 /\ <<x>>[1] = x
  OBVIOUS
<1>3. \A x, y : Head(<<x, y>>) = x /\ DOMAIN <<x, y>> = 1..2 /\ <<x, y>>[1] = x /\ <<x, y>>[2] = y
  OBVIOUS
<1>4. CASE type = "startPause"
  <2>1. Blocks(type) = << <<Latch("idle_paused", "FINISHED")>>, <<Latch("pausing", "RUNNING"), Latch("paused", "FINISHED")>> >>
    BY <1>4 DEF Blocks, PauseBlock
  <2>. QED
    BY <1>1, <1>2, <1>3, <1>4, <2>1
<1>5. CASE type = "stopPause"
  <2>1. Blocks(type) = << <<Latch("idle", "FINISHED")>>, <<Latch("resuming", "RUNNING"), Latch("active", "FINISHED")>> >>
    BY <1>5 DEF Blocks, ResumeBlock
  <2>. QED
    BY <1>1, <1>2, <1>3, <1>5, <2>1
<1>6. CASE type = "cancelOrder"
  <2>1. Blocks(type) = << <<Latch("idle", "FINISHED")>> >>
    BY <1>6 DEF Blocks, CancelBlock
  <2>. QED
    BY <1>1, <1>2, <1>6, <2>1
<1>. QED
  BY <1>4, <1>5, <1>6

\* What a paused or resumed scheduler is awaited for last.
LEMMA BlockTails ==
  /\ Head(Tail(Blocks("startPause")[2])).awaited = "paused"
  /\ Head(Tail(Blocks("stopPause")[2])).awaited = "active"
<1>1. \A a, r : Latch(a, r).awaited = a
  BY DEF Latch
<1>2. \A x, y : Tail(<<x, y>>) = <<y>>
  OBVIOUS
<1>3. \A y : Head(<<y>>) = y
  OBVIOUS
<1>4. /\ Blocks("startPause")[2] = <<Latch("pausing", "RUNNING"), Latch("paused", "FINISHED")>>
      /\ Blocks("stopPause")[2] = <<Latch("resuming", "RUNNING"), Latch("active", "FINISHED")>>
  BY DEF Blocks, PauseBlock, ResumeBlock
<1>. DEFINE p == Tail(Blocks("startPause")[2])
            q == Tail(Blocks("stopPause")[2])
<1>5. p = <<Latch("paused", "FINISHED")>> /\ q = <<Latch("active", "FINISHED")>>
  BY <1>2, <1>4
<1>. HIDE DEF p, q
<1>6. Head(p) = Latch("paused", "FINISHED") /\ Head(q) = Latch("active", "FINISHED")
  BY <1>5
<1>7. Head(p).awaited = "paused" /\ Head(q).awaited = "active"
  BY <1>1, <1>6
<1>. QED
  BY <1>7 DEF p, q

\* What is announced after the announcement that is handled.
LEMMA AnnouncedNext ==
  ASSUME ControlInv, Stepwise, handleOrderStatus
  PROVE  /\ Stepwise'
         /\ sch.state = Head(events) \/ \E e \in Range(events') : Follows(Head(events), e)
         /\ \A e \in Range(events) : e # Head(events) => e \in Range(events')
<1>0. ControlsType
  BY DEF ControlInv
<1>1. events # <<>> /\ events' = Tail(events) /\ status' = Head(events)
  BY AnnouncementHandled
<1>2. /\ Len(Path') = Len(Path) - 1 /\ Len(Path') > 0
      /\ \A i \in 1..Len(Path') : Path'[i] = Path[i + 1]
      /\ Head(events) = Path[2] /\ Len(Path) > 1
      /\ status' \in SchedulerState /\ events' \in Seq(SchedulerState)
  BY <1>0, <1>1, HandledPath
<1>3. /\ Len(Path) = Len(events) + 1 /\ Len(events) \in Nat
      /\ \A i \in 1..Len(events) : Path[i + 1] = events[i]
  BY <1>0, PathIndex DEF ControlsType
<1>4. events \in Seq(SchedulerState) /\ Len(events) > 0
  BY <1>0, <1>1 DEF ControlsType
<1>. DEFINE rest == Tail(events)
<1>5. /\ rest \in Seq(SchedulerState) /\ Len(rest) = Len(events) - 1 /\ Head(events) = events[1]
      /\ \A i \in 1..Len(events) - 1 : rest[i] = events[i + 1]
  BY <1>4
<1>. HIDE DEF rest
<1>6. events' = rest
  BY <1>1 DEF rest
<1>. HIDE DEF Path
<1>7. Stepwise'
  <2>1. SUFFICES ASSUME NEW i \in 1..Len(events) - 1 PROVE Follows(Path'[i], Path'[i + 1])
    BY <1>5, <1>6 DEF Stepwise
  <2>2. i \in 1..Len(Path') /\ i + 1 \in 1..Len(Path') /\ i + 1 \in 1..Len(events)
    BY <1>2, <1>3
  <2>3. Path'[i] = Path[i + 1] /\ Path'[i + 1] = Path[(i + 1) + 1] /\ Follows(Path[i + 1], Path[(i + 1) + 1])
    BY <1>2, <2>2 DEF Stepwise
  <2>. QED
    BY <2>3
<1>8. sch.state = Head(events) \/ \E e \in Range(events') : Follows(Head(events), e)
  <2>1. CASE Len(events) = 1
    <3>1. Len(Path) = 2 /\ sch.state = Path[Len(Path)]
      BY <1>3, <2>1 DEF ControlInv, Latest
    <3>. QED
      BY <1>2, <3>1
  <2>2. CASE Len(events) # 1
    <3>1. 1 \in 1..Len(events) - 1 /\ 2 \in 1..Len(events) /\ 1 \in DOMAIN rest
      BY <1>3, <1>4, <1>5, <2>2
    <3>2. Follows(Path[2], Path[2 + 1])
      BY <3>1 DEF Stepwise
    <3>3. Path[2 + 1] = events[2] /\ rest[1] = events[1 + 1]
      BY <1>3, <1>5, <3>1
    <3>4. rest[1] \in Range(rest)
      BY <3>1 DEF Range
    <3>5. Follows(Head(events), rest[1])
      BY <1>2, <3>2, <3>3
    <3>. QED
      BY <1>6, <3>4, <3>5
  <2>. QED
    BY <2>1, <2>2
<1>9. ASSUME NEW e \in Range(events), e # Head(events) PROVE e \in Range(events')
  <2>1. PICK k \in 1..Len(events) : e = events[k]
    BY <1>4 DEF Range
  <2>2. k - 1 \in 1..Len(events) - 1 /\ k - 1 \in DOMAIN rest /\ (k - 1) + 1 = k
    BY <1>3, <1>5, <1>9, <2>1
  <2>3. rest[k - 1] = e
    BY <1>5, <2>1, <2>2
  <2>. QED
    BY <1>6, <2>2, <2>3 DEF Range
<1>. QED
  BY <1>7, <1>8, <1>9

\* The announcement is handled, no latch has thrown, and c has still to end.
LatchesAttend(c) ==
  /\ ControlInv /\ HangInv /\ handleOrderStatus /\ "order" \in alive'
  /\ c \in Control /\ Watched(c)'

LEMMA AttendFacts ==
  ASSUME NEW c, LatchesAttend(c)
  PROVE  /\ c \in Control /\ c \in 1..Newest /\ Newest' = Newest /\ (\A d : Type(d)' = Type(d))
         /\ UNCHANGED <<sent, messages, enabling, yields, sch, seen>>
         /\ Handled(c)' = Handled(c) /\ Undone' = Undone /\ Watched(c) /\ (~Missed(Head(events)) \/ c # Newest)
         /\ Awaiting(c) /\ (Due(c) => Coming(c))
         /\ StatesHeard(states', Head(events))
         /\ \A x \in Range(latches) :
              \/ x \in Range(latches') \/ states'[x.id] = "FINISHED"
              \/ states'[x.id] = "RUNNING" /\ Type(x.id) # "cancelOrder"
         /\ states'[c] = "RUNNING" /\ Type(c) \in {"startPause", "stopPause"} =>
              \/ Hangs(c, Tail(Blocks(Type(c))[2]))'
              \/ states[c] = "RUNNING" /\ ~Hangs(c, Tail(Blocks(Type(c))[2]))
         /\ \A x \in Range(latches) : x \in Range(latches') => Head(x.chain).awaited # Head(events)
<1>0. ControlsType /\ ControlInv
  BY DEF LatchesAttend, ControlInv
<1>. DEFINE event == Head(events)
            noticed == Notice(event)
<1>1. /\ states' = noticed.states /\ latches' = noticed.live
      /\ Heard(noticed, Len(latches), event)
      /\ alive' = IF noticed.thrown THEN alive \ {"order"} ELSE alive
      /\ UNCHANGED <<sent, messages, enabling, yields, sch, seen>>
      /\ \A d \in Control : excused[d] \subseteq excused'[d]
      /\ Missed(event) => excused' = [excused EXCEPT ![Newest] = @ \cup {"late"}]
  BY AnnouncementHandled DEF LatchesAttend
<1>. HIDE DEF noticed, event
<1>2. /\ Newest' = Newest /\ (\A d : Type(d)' = Type(d))
      /\ Handled(c)' = Handled(c) /\ Undone' = Undone
  BY <1>1 DEF Newest, Type, Handled, Undone, ControlGiven
<1>3. c \in Control /\ "order" \in alive' /\ Watched(c)' /\ HangInv
  BY DEF LatchesAttend
<1>4. ~noticed.thrown /\ "order" \in alive
  BY <1>1, <1>3
<1>5. Watched(c)
  BY <1>1, <1>3 DEF Watched
<1>6. Awaiting(c) /\ (Due(c) => Coming(c))
  BY <1>3, <1>4, <1>5 DEF HangInv, AllAttended, Attended
<1>7. c \in 1..Newest
  BY <1>0, <1>3, <1>5, ControlTypes DEF Watched, ControlInv, SeenForm, Control
<1>8. ~Missed(event) \/ c # Newest
  <2>1. SUFFICES ASSUME Missed(event), c = Newest PROVE FALSE
    OBVIOUS
  <2>2. excused \in [Control -> SUBSET Excuses]
    BY <1>0 DEF ControlsType
  <2>3. "late" \in excused'[c]
    BY <1>1, <1>3, <2>1, <2>2
  <2>. QED
    BY <1>3, <2>3 DEF Watched, Excusing
<1>9. StatesHeard(states', event) /\ LatchesHeard(noticed)
  BY <1>1 DEF Heard
<1>10. \A x \in Range(latches) :
         \/ x \in Range(latches') \/ states'[x.id] = "FINISHED"
         \/ states'[x.id] = "RUNNING" /\ Type(x.id) # "cancelOrder"
  BY <1>1, <1>9 DEF LatchesHeard
<1>11. states'[c] = "RUNNING" /\ Type(c) \in {"startPause", "stopPause"} =>
         \/ Hangs(c, Tail(Blocks(Type(c))[2]))'
         \/ states[c] = "RUNNING" /\ ~Hangs(c, Tail(Blocks(Type(c))[2]))
  <2>1. c <= Newest
    BY <1>7
  <2>2. \A chain : Live(Unnoticed, c, chain) <=> Hangs(c, chain)
    BY DEF Live, Unnoticed, Hangs
  <2>3. \A chain : Live(noticed, c, chain) <=> \E y \in Range(latches') : y.id = c /\ y.chain = chain
    BY <1>1 DEF Live
  <2>4. Hangs(c, Tail(Blocks(Type(c))[2]))' <=> \E y \in Range(latches') : y.id = c /\ y.chain = Tail(Blocks(Type(c))[2])
    BY <1>2 DEF Hangs
  <2>5. states'[c] = "RUNNING" /\ Type(c) \in {"startPause", "stopPause"} =>
          \/ Live(noticed, c, Tail(Blocks(Type(c))[2]))
          \/ states[c] = "RUNNING" /\ ~Live(Unnoticed, c, Tail(Blocks(Type(c))[2]))
    BY <1>1, <1>3, <1>9, <2>1 DEF LatchesHeard
  <2>. QED
    BY <2>2, <2>3, <2>4, <2>5
<1>12. \A x \in Range(latches) : x \in Range(latches') => Head(x.chain).awaited # event
  <2>1. SUFFICES ASSUME NEW x \in Range(latches), x \in Range(latches') PROVE Head(x.chain).awaited # event
    OBVIOUS
  <2>2. PICK j \in 1..Len(latches) : x = latches[j]
    BY <1>0 DEF ControlsType, Range
  <2>3. ~(Awaits(latches[j], event) /\ latches[j] \in Range(noticed.live))
    BY <1>1, <1>4 DEF Heard
  <2>. QED
    BY <1>1, <2>1, <2>2, <2>3 DEF Awaits
<1>. QED
  BY <1>1, <1>2, <1>3, <1>5, <1>6, <1>7, <1>8, <1>9, <1>10, <1>11, <1>12 DEF event

\* A latch that is still subscribed does not await what has been announced.
LEMMA HangingOn ==
  ASSUME NEW c, LatchesAttend(c), ControlsType', NEW chain, Hangs(c, chain), Hangs(c, chain)'
  PROVE  Head(chain).awaited # Head(events)
<1>0. latches \in Seq(Subscribed) /\ latches' \in Seq(Subscribed)
  BY DEF LatchesAttend, ControlInv, ControlsType
<1>1. PICK x \in Range(latches) : x.id = c /\ x.chain = chain
  BY DEF Hangs
<1>2. PICK y \in Range(latches') : y.id = c /\ y.chain = chain
  BY DEF Hangs
<1>3. x \in Subscribed /\ y \in Subscribed
  BY <1>0, <1>1, <1>2, SeqRange
<1>4. x = y
  BY <1>1, <1>2, <1>3 DEF Subscribed
<1>5. \A z \in Range(latches) : z \in Range(latches') => Head(z.chain).awaited # Head(events)
  BY AttendFacts
<1>. QED
  BY <1>1, <1>2, <1>4, <1>5

LEMMA LatchesStillHang ==
  ASSUME NEW c, LatchesAttend(c)
  PROVE  Awaiting(c)'
<1>1. /\ c \in Control /\ (\A d : Type(d)' = Type(d)) /\ Newest' = Newest
      /\ Handled(c)' = Handled(c) /\ Awaiting(c)
      /\ StatesHeard(states', Head(events))
      /\ \A x \in Range(latches) :
           \/ x \in Range(latches') \/ states'[x.id] = "FINISHED"
           \/ states'[x.id] = "RUNNING" /\ Type(x.id) # "cancelOrder"
      /\ states'[c] = "RUNNING" /\ Type(c) \in {"startPause", "stopPause"} =>
           \/ Hangs(c, Tail(Blocks(Type(c))[2]))'
           \/ states[c] = "RUNNING" /\ ~Hangs(c, Tail(Blocks(Type(c))[2]))
  BY AttendFacts
<1>. DEFINE event == Head(events)
<1>2. /\ states'[c] = "RUNNING" =>
           \/ states[c] = "RUNNING"
           \/ Hears(c, event) /\ Type(c) = "startPause" /\ event = "pausing"
           \/ Hears(c, event) /\ Type(c) = "stopPause" /\ event = "resuming"
      /\ states'[c] = "WAITING" => states[c] = "WAITING"
  BY <1>1 DEF StatesHeard
<1>. HIDE DEF event
<1>3. Handled(c) /\ Working(c)' => Type(c) \in Commands
  BY <1>1, <1>2 DEF Working, Awaiting, Commands
<1>4. ASSUME NEW chain, Hangs(c, chain), states'[c] = "WAITING" \/ (Type(c) = "cancelOrder" /\ states'[c] = "RUNNING")
      PROVE  Hangs(c, chain)'
  BY <1>1, <1>4 DEF Hangs
<1>5. Handled(c) /\ Working(c)' /\ (states'[c] = "WAITING" \/ Type(c) = "cancelOrder") =>
        \A i \in DOMAIN Blocks(Type(c)) : Hangs(c, Blocks(Type(c))[i])'
  <2>1. SUFFICES ASSUME Handled(c), Working(c)', states'[c] = "WAITING" \/ Type(c) = "cancelOrder",
                        NEW i \in DOMAIN Blocks(Type(c))
                 PROVE  Hangs(c, Blocks(Type(c))[i])'
    OBVIOUS
  <2>2. Working(c) /\ (states[c] = "WAITING" \/ Type(c) = "cancelOrder")
    BY <1>2, <2>1 DEF Working
  <2>3. Hangs(c, Blocks(Type(c))[i])
    BY <1>1, <2>1, <2>2 DEF Awaiting
  <2>4. states'[c] = "WAITING" \/ (Type(c) = "cancelOrder" /\ states'[c] = "RUNNING")
    BY <2>1 DEF Working
  <2>. QED
    BY <1>1, <1>4, <2>3, <2>4
<1>6. Handled(c) /\ states'[c] = "RUNNING" /\ Type(c) # "cancelOrder" => Hangs(c, Tail(Blocks(Type(c))[2]))'
  <2>1. SUFFICES ASSUME Handled(c), states'[c] = "RUNNING", Type(c) # "cancelOrder"
                 PROVE  Hangs(c, Tail(Blocks(Type(c))[2]))'
    OBVIOUS
  <2>2. Type(c) \in {"startPause", "stopPause"}
    BY <1>3, <2>1 DEF Working, Commands
  <2>3. states[c] = "RUNNING" => Hangs(c, Tail(Blocks(Type(c))[2]))
    BY <1>1, <2>1 DEF Awaiting
  <2>. QED
    BY <1>1, <2>1, <2>2, <2>3
<1>7. ~Handled(c) /\ Type(c) # "cancelOrder" => states'[c] # "RUNNING"
  <2>1. SUFFICES ASSUME ~Handled(c), Type(c) # "cancelOrder", states'[c] = "RUNNING" PROVE FALSE
    OBVIOUS
  <2>2. c = Newest /\ (messages = <<Message("validAction", Newest)>> \/ enabling # Nothing)
    BY <2>1 DEF Handled
  <2>3. ~Hears(c, event)
    BY <2>2 DEF Hears, LatchesAttend, ControlInv, LatchForm
  <2>. QED
    BY <1>1, <1>2, <2>1, <2>3 DEF Awaiting
<1>8. Blocks(Type(c))' = Blocks(Type(c))
  BY <1>1
<1>. QED
  BY <1>1, <1>3, <1>5, <1>6, <1>7, <1>8 DEF Awaiting

\* What the order event thread's step leaves of a control it has not ended.
LEMMA AttendedBefore ==
  ASSUME NEW c, LatchesAttend(c)
  PROVE  /\ Type(c)' = Type(c) /\ sch' = sch /\ Awaiting(c)' /\ Awaiting(c) /\ (Due(c) => Coming(c))
         /\ Handled(c)' = Handled(c) /\ Undone' = Undone /\ Newest' = Newest /\ enabling' = enabling
         /\ states'[c] = "WAITING" => states[c] = "WAITING"
         /\ states'[c] = "RUNNING" =>
              \/ states[c] = "RUNNING"
              \/ Type(c) = "startPause" /\ Head(events) = "pausing"
              \/ Type(c) = "stopPause" /\ Head(events) = "resuming"
<1>1. /\ c \in Control /\ (\A d : Type(d)' = Type(d)) /\ Newest' = Newest
      /\ UNCHANGED <<sent, messages, enabling, yields, sch, seen>>
      /\ Handled(c)' = Handled(c) /\ Undone' = Undone
      /\ Awaiting(c) /\ (Due(c) => Coming(c))
      /\ StatesHeard(states', Head(events))
  BY AttendFacts
<1>. DEFINE event == Head(events)
<1>2. /\ states'[c] = "RUNNING" =>
           \/ states[c] = "RUNNING"
           \/ Hears(c, event) /\ Type(c) = "startPause" /\ event = "pausing"
           \/ Hears(c, event) /\ Type(c) = "stopPause" /\ event = "resuming"
      /\ states'[c] = "WAITING" => states[c] = "WAITING"
  BY <1>1 DEF StatesHeard
<1>. HIDE DEF event
<1>3. Awaiting(c)'
  BY LatchesStillHang
<1>. QED
  BY <1>1, <1>2, <1>3 DEF event

\* What comes and is not what has been announced is still to come.
LEMMA StillComes ==
  ASSUME NEW c, LatchesAttend(c), Type(c) \in Commands, Coming(c),
         states'[c] = states[c] \/ Type(c) = "cancelOrder",
         Head(events) \notin
           CASE Type(c) = "startPause" -> IF states[c] = "RUNNING" THEN {"paused"} ELSE {"idle_paused", "pausing"}
             [] Type(c) = "stopPause"  -> IF states[c] = "RUNNING" THEN {"active"} ELSE {"idle", "resuming"}
             [] Type(c) = "cancelOrder" -> {"idle"}
  PROVE  Coming(c)'
<1>1. \A e \in Range(events) : e # Head(events) => e \in Range(events')
  BY AnnouncedNext DEF LatchesAttend, HangInv
<1>2. Type(c)' = Type(c) /\ sch' = sch
  BY AttendedBefore
<1>. DEFINE event == Head(events)
<1>. HIDE DEF event
<1>3. \A e \in Range(events) : e # event => e \in Range(events')
  BY <1>1 DEF event
<1>4. CASE Type(c) = "startPause"
  <2>1. event \notin IF states[c] = "RUNNING" THEN {"paused"} ELSE {"idle_paused", "pausing"}
    BY <1>4 DEF event
  <2>. QED
    BY <1>2, <1>3, <1>4, <2>1 DEF Coming, Pausing
<1>5. CASE Type(c) = "stopPause"
  <2>1. event \notin IF states[c] = "RUNNING" THEN {"active"} ELSE {"idle", "resuming"}
    BY <1>5 DEF event
  <2>. QED
    BY <1>2, <1>3, <1>5, <2>1 DEF Coming, Resuming
<1>6. CASE Type(c) = "cancelOrder"
  <2>1. event # "idle"
    BY <1>6 DEF event
  <2>. QED
    BY <1>2, <1>3, <1>6, <2>1 DEF Coming, Canceling
<1>. QED
  BY <1>4, <1>5, <1>6 DEF Commands

\* A control whose latches are not all subscribed has not missed the announcement.
LEMMA EnablingComes ==
  ASSUME NEW c, LatchesAttend(c), ~Handled(c), Due(c)'
  PROVE  Coming(c)'
<1>1. /\ Type(c)' = Type(c) /\ Awaiting(c)' /\ (Due(c) => Coming(c))
      /\ Handled(c)' = Handled(c) /\ Undone' = Undone /\ Newest' = Newest /\ enabling' = enabling
      /\ states'[c] = "WAITING" => states[c] = "WAITING"
  BY AttendedBefore
<1>2. c = Newest /\ (messages = <<Message("validAction", Newest)>> \/ enabling # Nothing)
  BY DEF Handled
<1>3. Type(c) \in Commands /\ ~Undone
  BY <1>1, <1>2 DEF Due
<1>4. enabling # Nothing /\ Head(enabling.steps) # "dispatch"
  BY <1>2, <1>3 DEF Undone
<1>5. enabling.id = Newest
  BY <1>4, Enabling DEF LatchesAttend
<1>6. ~Missed(Head(events)) \/ c # Newest
  BY AttendFacts
<1>. DEFINE event == Head(events)
<1>. HIDE DEF event
<1>7. \A i \in DOMAIN Blocks(Type(c)) : \A j \in DOMAIN Blocks(Type(c))[i] : Blocks(Type(c))[i][j].awaited # event
  BY <1>2, <1>3, <1>4, <1>5, <1>6 DEF Missed, Commands, event
<1>8. Type(c) # "cancelOrder" => states'[c] = "WAITING" /\ states[c] = "WAITING"
  BY <1>1 DEF Due, Working, Awaiting
<1>9. Due(c)
  BY <1>2, <1>3, <1>4, <1>8 DEF Due, Working
<1>10. event \notin
         CASE Type(c) = "startPause" -> IF states[c] = "RUNNING" THEN {"paused"} ELSE {"idle_paused", "pausing"}
           [] Type(c) = "stopPause"  -> IF states[c] = "RUNNING" THEN {"active"} ELSE {"idle", "resuming"}
           [] Type(c) = "cancelOrder" -> {"idle"}
  <2>1. CASE Type(c) = "startPause"
    <3>1. /\ DOMAIN Blocks(Type(c)) = 1..2 /\ DOMAIN Blocks(Type(c))[1] = 1..1 /\ DOMAIN Blocks(Type(c))[2] = 1..2
          /\ Blocks(Type(c))[1][1].awaited = "idle_paused" /\ Blocks(Type(c))[2][1].awaited = "pausing"
      BY <2>1, BlockHeads
    <3>2. event # "idle_paused" /\ event # "pausing"
      BY <1>7, <3>1
    <3>. QED
      BY <1>8, <2>1, <3>2
  <2>2. CASE Type(c) = "stopPause"
    <3>1. /\ DOMAIN Blocks(Type(c)) = 1..2 /\ DOMAIN Blocks(Type(c))[1] = 1..1 /\ DOMAIN Blocks(Type(c))[2] = 1..2
          /\ Blocks(Type(c))[1][1].awaited = "idle" /\ Blocks(Type(c))[2][1].awaited = "resuming"
      BY <2>2, BlockHeads
    <3>2. event # "idle" /\ event # "resuming"
      BY <1>7, <3>1
    <3>. QED
      BY <1>8, <2>2, <3>2
  <2>3. CASE Type(c) = "cancelOrder"
    <3>1. /\ DOMAIN Blocks(Type(c)) = 1..1 /\ DOMAIN Blocks(Type(c))[1] = 1..1
          /\ Blocks(Type(c))[1][1].awaited = "idle"
      BY <2>3, BlockHeads
    <3>2. event # "idle"
      BY <1>7, <3>1
    <3>. QED
      BY <2>3, <3>2
  <2>. QED
    BY <1>3, <2>1, <2>2, <2>3 DEF Commands
<1>11. states'[c] = states[c] \/ Type(c) = "cancelOrder"
  BY <1>8
<1>. QED
  BY <1>1, <1>3, <1>9, <1>10, <1>11, StillComes DEF event

\* A control whose latches are subscribed still hangs on what has not been announced.
LEMMA HandledComes ==
  ASSUME NEW c, LatchesAttend(c), ControlsType', Handled(c), Due(c)'
  PROVE  Coming(c)'
<1>1. /\ Type(c)' = Type(c) /\ sch' = sch /\ Awaiting(c)' /\ Awaiting(c) /\ (Due(c) => Coming(c))
      /\ Handled(c)' = Handled(c) /\ Undone' = Undone /\ Newest' = Newest /\ enabling' = enabling
  BY AttendedBefore
<1>2. /\ states'[c] = "WAITING" => states[c] = "WAITING"
      /\ states'[c] = "RUNNING" =>
           \/ states[c] = "RUNNING"
           \/ Type(c) = "startPause" /\ Head(events) = "pausing"
           \/ Type(c) = "stopPause" /\ Head(events) = "resuming"
  BY AttendedBefore
<1>3. Type(c) \in Commands /\ Working(c)' /\ (c = Newest => ~Undone)
  BY <1>1 DEF Due, Handled
<1>4. Blocks(Type(c))' = Blocks(Type(c))
  BY <1>1
<1>5. CASE states'[c] = "WAITING" \/ Type(c) = "cancelOrder"
  <2>1. Working(c) /\ (states[c] = "WAITING" \/ Type(c) = "cancelOrder") /\ Due(c)
    BY <1>2, <1>3, <1>5 DEF Working, Due
  <2>2. \A i \in DOMAIN Blocks(Type(c)) : Hangs(c, Blocks(Type(c))[i])
    BY <1>1, <1>5, <2>1 DEF Awaiting
  <2>3. \A i \in DOMAIN Blocks(Type(c)) : Hangs(c, Blocks(Type(c))[i])'
    BY <1>1, <1>3, <1>4, <1>5 DEF Awaiting
  <2>4. ASSUME NEW i \in DOMAIN Blocks(Type(c)) PROVE Head(Blocks(Type(c))[i]).awaited # Head(events)
    <3>1. \A chain : chain = Blocks(Type(c))[i] => Hangs(c, chain) /\ Hangs(c, chain)'
      <4>1. Hangs(c, Blocks(Type(c))[i]) /\ Hangs(c, Blocks(Type(c))[i])' /\ (Blocks(Type(c))[i])' = Blocks(Type(c))[i]
        BY <1>4, <2>2, <2>3
      <4>. QED
        BY <4>1 DEF Hangs
    <3>. QED
      BY <3>1, HangingOn
  <2>. DEFINE event == Head(events)
  <2>5. \A i \in DOMAIN Blocks(Type(c)) : Head(Blocks(Type(c))[i]).awaited # event
    BY <2>4
  <2>. HIDE DEF event
  <2>6. CASE Type(c) = "startPause"
    <3>1. /\ DOMAIN Blocks(Type(c)) = 1..2
          /\ Head(Blocks(Type(c))[1]).awaited = "idle_paused" /\ Head(Blocks(Type(c))[2]).awaited = "pausing"
      BY <2>6, BlockHeads
    <3>2. event # "idle_paused" /\ event # "pausing" /\ states'[c] = states[c] /\ states[c] # "RUNNING"
      BY <1>2, <1>5, <2>5, <2>6, <3>1
    <3>. QED
      BY <1>1, <1>3, <2>1, <2>6, <3>2, StillComes DEF event
  <2>7. CASE Type(c) = "stopPause"
    <3>1. /\ DOMAIN Blocks(Type(c)) = 1..2
          /\ Head(Blocks(Type(c))[1]).awaited = "idle" /\ Head(Blocks(Type(c))[2]).awaited = "resuming"
      BY <2>7, BlockHeads
    <3>2. event # "idle" /\ event # "resuming" /\ states'[c] = states[c] /\ states[c] # "RUNNING"
      BY <1>2, <1>5, <2>5, <2>7, <3>1
    <3>. QED
      BY <1>1, <1>3, <2>1, <2>7, <3>2, StillComes DEF event
  <2>8. CASE Type(c) = "cancelOrder"
    <3>1. DOMAIN Blocks(Type(c)) = 1..1 /\ Head(Blocks(Type(c))[1]).awaited = "idle"
      BY <2>8, BlockHeads
    <3>2. event # "idle"
      BY <2>5, <3>1
    <3>. QED
      BY <1>1, <1>3, <2>1, <2>8, <3>2, StillComes DEF event
  <2>. QED
    BY <1>3, <2>6, <2>7, <2>8 DEF Commands
<1>6. CASE states'[c] = "RUNNING" /\ Type(c) # "cancelOrder" /\ states[c] = "RUNNING"
  <2>. DEFINE tail == Tail(Blocks(Type(c))[2])
  <2>1. Hangs(c, tail) /\ Hangs(c, tail)'
    BY <1>1, <1>4, <1>6 DEF Awaiting
  <2>2. Head(tail).awaited # Head(events)
    <3>1. tail' = tail
      BY <1>4
    <3>2. \A chain : chain = tail => Hangs(c, chain) /\ Hangs(c, chain)'
      BY <2>1, <3>1 DEF Hangs
    <3>. HIDE DEF tail
    <3>. QED
      BY <3>2, HangingOn
  <2>3. Due(c)
    BY <1>3, <1>6 DEF Due, Working
  <2>4. CASE Type(c) = "startPause"
    <3>1. Head(events) # "paused"
      BY <2>2, <2>4, BlockTails
    <3>. QED
      BY <1>1, <1>3, <1>6, <2>3, <2>4, <3>1, StillComes
  <2>5. CASE Type(c) = "stopPause"
    <3>1. Head(events) # "active"
      BY <2>2, <2>5, BlockTails
    <3>. QED
      BY <1>1, <1>3, <1>6, <2>3, <2>5, <3>1, StillComes
  <2>. QED
    BY <1>3, <1>6, <2>4, <2>5 DEF Commands
<1>7. CASE states'[c] = "RUNNING" /\ Type(c) # "cancelOrder" /\ states[c] # "RUNNING"
  <2>1. sch.state = Head(events) \/ \E e \in Range(events') : Follows(Head(events), e)
    BY AnnouncedNext DEF LatchesAttend, HangInv
  <2>2. CASE Type(c) = "startPause" /\ Head(events) = "pausing"
    <3>1. sch.state = "pausing" \/ "paused" \in Range(events')
      BY <2>1, <2>2 DEF Follows
    <3>. QED
      BY <1>1, <1>7, <2>2, <3>1 DEF Coming, Pausing
  <2>3. CASE Type(c) = "stopPause" /\ Head(events) = "resuming"
    <3>1. sch.state = "resuming" \/ "active" \in Range(events')
      BY <2>1, <2>3 DEF Follows
    <3>. QED
      BY <1>1, <1>7, <2>3, <3>1 DEF Coming, Resuming
  <2>. QED
    BY <1>2, <1>7, <2>2, <2>3
<1>. QED
  BY <1>3, <1>5, <1>6, <1>7 DEF Working

LEMMA handleOrderStatusHangs ==
  ASSUME ControlInv, HangInv, handleOrderStatus
  PROVE  HangInv'
<1>1. ControlsType'
  BY handleOrderStatusKeeps DEF ControlInv
<1>2. /\ UNCHANGED <<sent, messages, enabling, yields, sch, seen>>
      /\ \A c \in Control : excused[c] \subseteq excused'[c]
  BY AnnouncementHandled
<1>3. "interpreter" \in alive'
  BY DEF HangInv, handleOrderStatus, Ends
<1>4. Rests'
  BY <1>2 DEF HangInv, Rests
<1>5. Stepwise'
  BY AnnouncedNext DEF HangInv
<1>6. ASSUME "order" \in alive', NEW c \in Control PROVE Attended(c)'
  <2>1. SUFFICES ASSUME Watched(c)' PROVE Awaiting(c)' /\ (Due(c)' => Coming(c)')
    BY DEF Attended
  <2>2. LatchesAttend(c)
    BY <1>6, <2>1 DEF LatchesAttend
  <2>. QED
    BY <1>1, <2>2, LatchesStillHang, EnablingComes, HandledComes
<1>. QED
  BY <1>3, <1>4, <1>5, <1>6 DEF HangInv, AllAttended

LEMMA InitHang == Init => HangInv
<1>1. SUFFICES ASSUME Init PROVE HangInv
  OBVIOUS
<1>2. /\ alive = {"message", "interpreter", "order"} /\ events = <<>> /\ status = "idle"
      /\ sch = NewScheduler /\ seen = [c \in Control |-> {}]
  BY <1>1 DEF Init
<1>3. Rests
  BY <1>2 DEF Rests, NewScheduler
<1>4. Stepwise
  BY <1>2 DEF Stepwise
<1>5. \A c \in Control : Attended(c)
  BY <1>2 DEF Attended, Watched
<1>. QED
  BY <1>2, <1>3, <1>4, <1>5 DEF HangInv, AllAttended

LEMMA StutterHangs ==
  ASSUME HangInv, UNCHANGED vars
  PROVE  HangInv'
<1>1. /\ UNCHANGED <<sent, messages, enabling, yields, sch, events, status, states, latches, alive, seen, excused>>
  BY DEF vars
<1>2. /\ "interpreter" \in alive' /\ Rests' /\ Stepwise' /\ Onward
  BY <1>1, QuietKeeps
<1>3. ASSUME NEW c \in Control, "order" \in alive' PROVE Attended(c)'
  <2>1. Newest' = Newest /\ Type(c)' = Type(c)
    BY <1>1 DEF Newest, Type
  <2>2. Handled(c)' <=> Handled(c)
    BY <1>1, <2>1 DEF Handled
  <2>3. Due(c)' => Due(c)
    BY <1>1, <2>1 DEF Due, Working, Undone, ControlGiven
  <2>4. Watched(c)' => Watched(c)
    BY <1>1 DEF Watched
  <2>. QED
    BY <1>1, <1>2, <1>3, <2>1, <2>2, <2>3, <2>4, PassedBy DEF HangInv
<1>. QED
  BY <1>2, <1>3 DEF HangInv, AllAttended

LEMMA HangStep ==
  ASSUME Patient, ControlInv, HangInv, [Next]_vars
  PROVE  HangInv'
<1>1. CASE MasterControl
  BY <1>1, ReceiveHangs
<1>2. CASE MessageThread
  BY <1>2, ValidateActionHangs, handleValidInstantActionsHangs, DispatchControlHangs, ReportFromHangs,
     SendFactsheetHangs, SubscribeHangs, OrderMessagesHang DEF MessageThread
<1>3. CASE InterpreterThread
  BY <1>3, handleOrderControlHangs, handleClearActionsHangs, OrderYieldsHang DEF InterpreterThread
<1>4. CASE handleOrderStatus
  BY <1>4, handleOrderStatusHangs
<1>5. CASE ActionStatus
  BY <1>5, ActionStatusHangs
<1>6. CASE UNCHANGED vars
  BY <1>6, StutterHangs
<1>. QED
  BY <1>1, <1>2, <1>3, <1>4, <1>5, <1>6 DEF Next

\* When no thread and not the AGV has anything left to do, every control that was found
\* feasible has ended or was forgotten, the interpreter event thread lives and the
\* scheduler rests, but for the three exceptions NothingHangs names: latches subscribed
\* too late, a cancel of an idle and paused scheduler, a cancel of nothing.
THEOREM NothingEverHangs ==
  ASSUME Patient
  PROVE  Spec => []NothingHangs
<1>1. Init => HangInv
  BY InitHang
<1>2. HangInv /\ ControlInv /\ [Next]_vars => HangInv'
  BY HangStep
<1>3. Spec => []ControlInv
  BY ControlsAreTracked
<1>4. ControlInv /\ HangInv => NothingHangs
  BY HangInvSuffices
<1>. QED
  BY <1>1, <1>2, <1>3, <1>4, PTL DEF Spec
===============================================================================
