---------------------------- MODULE DeliveryProofs -----------------------------
(***************************************************************************)
(* Three parts that hand on what they are given, each by itself and with   *)
(* no name in common: the interpreter, the blocking queue, the connection. *)
(*                                                                         *)
(* For every set of actions and all messages: the interpreter never reads  *)
(* past the end of a message, and the groups it yields are sound.  For     *)
(* every number of threads and every length: each element of the queue is  *)
(* counted once, so a pop that has acquired one finds it there.  For every *)
(* set of configurations, of messages and of numbers of events and runs:   *)
(* the invariants and the action property of Connection.                   *)
(***************************************************************************)
EXTENDS Interpreter, BlockingQueue, Connection, FiniteSetTheorems, TLAPS

-------------------------------------------------------------------------------
(* The interpreter *)

\* The group that is collected: its ceiling covers it, and once a HARD action is in it
\* no other can join.
Collects(i) ==
  /\ Covers(i.ceiling, Strongest(i.group))
  /\ \A k \in DOMAIN i.group :
       IsHard(i.group[k]) =>
         Len(i.group) = 1 /\ i.state \in {"nodeActionQueue", "edgeActionQueue"}
  /\ \A k \in DOMAIN i.later : IsSound(i.later[k])

\* Where the iterator i points to.
Fits(i) ==
  /\ i.state \notin {"preDone", "done"} => i.node \in DOMAIN Nodes
  /\ i.state \in {"preEdgeAction", "edgeAction", "edgeActionQueue", "navigation"} =>
       i.edge \in DOMAIN Edges

Good(i) == i \in EventIter /\ Collects(i) /\ Fits(i)

IInv ==
  /\ TypeOK /\ GroupsAreSound
  /\ IF at <= Len(messages) THEN Good(it) ELSE \E c \in BlockingType : it = FromOrder(c)

-------------------------------------------------------------------------------
(* What the steps of the loop keep *)

\* A handler that calls nextEvent again only has to leave a good iterator.
LEMMA ProceedKeeps ==
  ASSUME IInv, at <= Len(messages), NEW i, Good(i), Proceed(i)
  PROVE  IInv'
<1>1. it' \in EventIter /\ it' = i
  BY DEF Proceed, Good
<1>2. TypeOK'
  BY <1>1 DEF IInv, TypeOK, Proceed
<1>3. GroupsAreSound'
  BY DEF IInv, GroupsAreSound, Proceed, IsSound, Covers, Strongest, IsHard
<1>4. Good(it)' /\ (at <= Len(messages))'
  BY <1>1 DEF Good, Collects, Fits, Proceed, Nodes, Edges, IsSound, Covers, Strongest, IsHard
<1> QED BY <1>2, <1>3, <1>4 DEF IInv

\* A handler that throws leaves the iterator and what was yielded as they are.
LEMMA ThrowKeeps == IInv /\ Throw => IInv'
<1> SUFFICES ASSUME IInv, Throw PROVE IInv'
  OBVIOUS
<1>1. TypeOK'
  BY DEF IInv, TypeOK, Throw
<1>2. GroupsAreSound'
  BY DEF IInv, GroupsAreSound, Throw, IsSound, Covers, Strongest, IsHard
<1>3. Nodes' = Nodes /\ Edges' = Edges /\ it' = it
  BY DEF Throw, Nodes, Edges
<1>4. Good(it) => Good(it)'
  BY <1>3 DEF Good, Collects, Fits, IsSound, Covers, Strongest, IsHard
<1>5. (at <= Len(messages))' = (at <= Len(messages))
  BY DEF Throw
<1> QED BY <1>1, <1>2, <1>3, <1>4, <1>5 DEF IInv, FromOrder

\* A handler that returns an event has to return a sound one.
LEMMA ReturnKeeps ==
  ASSUME IInv, at <= Len(messages), NEW i, Good(i),
         NEW y \in InterpreterEvent, IsSound(y), Return(y, i)
  PROVE  IInv'
<1>1. it' \in EventIter /\ it' = i
  BY DEF Return, Good
<1>2. yields \in Seq(InterpreterEvent) /\ yields' = Append(yields, y)
  BY DEF IInv, TypeOK, Return
<1>3. TypeOK'
  BY <1>1, <1>2 DEF IInv, TypeOK, Return
<1>4. ASSUME NEW k \in DOMAIN yields'
      PROVE  IsSound(yields'[k])
  <2>1. k \in DOMAIN yields \/ k = Len(yields) + 1
    BY <1>2
  <2>2. CASE k \in DOMAIN yields
    BY <1>2, <2>2 DEF IInv, GroupsAreSound
  <2>3. CASE k = Len(yields) + 1
    BY <1>2, <2>3
  <2> QED BY <2>1, <2>2, <2>3
<1>5. GroupsAreSound'
  BY <1>4 DEF GroupsAreSound, IsSound, Covers, Strongest, IsHard
<1>6. Good(it)' /\ (at <= Len(messages))'
  BY <1>1 DEF Good, Collects, Fits, Return, Nodes, Edges, IsSound, Covers, Strongest, IsHard
<1> QED BY <1>3, <1>5, <1>6 DEF IInv

\* The message that is interpreted, and what the iterator points to.
LEMMA Reading ==
  ASSUME IInv, at <= Len(messages)
  PROVE  /\ messages[at] \in Message
         /\ Nodes \in Seq(Element) /\ Nodes # <<>> /\ Edges \in Seq(Element)
         /\ it \in EventIter /\ Collects(it) /\ Fits(it)
         /\ it.node \in DOMAIN Nodes => Node \in Element
         /\ it.edge \in DOMAIN Edges => Edge \in Element
<1>1. messages[at] \in Message
  BY DEF IInv, TypeOK
<1> QED BY <1>1 DEF IInv, Good, Message, Nodes, Edges, Node, Edge

\* Changing the state alone, or what does not belong to the group, keeps it good.
LEMMA StateKeeps ==
  ASSUME NEW i \in EventIter, Collects(i), NEW s \in IterState, NEW r \in Seq(Action),
         \/ s \in {"nodeActionQueue", "edgeActionQueue"}
         \/ i.state \notin {"nodeActionQueue", "edgeActionQueue"}
         \/ i.group = <<>>
  PROVE  /\ [i EXCEPT !.state = s] \in EventIter /\ Collects([i EXCEPT !.state = s])
         /\ [i EXCEPT !.rest = r, !.state = s] \in EventIter
         /\ Collects([i EXCEPT !.rest = r, !.state = s])
<1> DEFINE j == [i EXCEPT !.state = s]
           k == [i EXCEPT !.rest = r, !.state = s]
<1>1. j \in EventIter /\ k \in EventIter
  BY DEF EventIter
<1>2. /\ j.group = i.group /\ j.ceiling = i.ceiling /\ j.later = i.later /\ j.state = s
      /\ k.group = i.group /\ k.ceiling = i.ceiling /\ k.later = i.later /\ k.state = s
  BY DEF EventIter
<1>3. ASSUME NEW n \in DOMAIN i.group, IsHard(i.group[n])
      PROVE  Len(i.group) = 1 /\ s \in {"nodeActionQueue", "edgeActionQueue"}
  <2>1. i.group # <<>>
    BY <1>3
  <2> QED BY <2>1, <1>3 DEF Collects
<1>4. Collects(j)
  BY <1>2, <1>3 DEF Collects
<1>5. Collects(k)
  BY <1>2, <1>3 DEF Collects
<1> QED BY <1>1, <1>4, <1>5

\* Queueing the group leaves none, and a sound event in the queue.
LEMMA QueueGroupKeeps ==
  ASSUME NEW i \in EventIter, Collects(i)
  PROVE  /\ QueueGroup(i) \in EventIter /\ Collects(QueueGroup(i))
         /\ QueueGroup(i).group = <<>> /\ QueueGroup(i).rest = i.rest
         /\ QueueGroup(i).state = i.state
         /\ QueueGroup(i).node = i.node /\ QueueGroup(i).edge = i.edge
<1>1. CASE i.group = <<>>
  BY <1>1 DEF QueueGroup
<1>2. CASE i.group # <<>>
  <2> DEFINE y == Group(i.group, i.ceiling)
             q == [i EXCEPT !.later = Append(@, y), !.group = <<>>, !.ceiling = "NONE"]
  <2>1. QueueGroup(i) = q
    BY <1>2 DEF QueueGroup
  <2>2. y \in GroupEvent
    BY DEF EventIter, GroupEvent, Group
  <2>3. IsSound(y)
    BY <1>2 DEF IsSound, Group, Collects
  <2>4. q \in EventIter
    <3>1. Append(i.later, y) \in Seq(GroupEvent)
      BY <2>2 DEF EventIter
    <3>2. "NONE" \in BlockingType /\ <<>> \in Seq(Action)
      BY DEF BlockingType
    <3> HIDE DEF y
    <3> QED BY <3>1, <3>2 DEF EventIter
  <2>5. Collects(q)
    <3>1. q.ceiling = "NONE" /\ q.group = <<>> /\ q.later = Append(i.later, y)
      BY DEF EventIter
    <3>2. Covers("NONE", Strongest(<<>>))
      BY DEF Covers, Strongest
    <3>3. ASSUME NEW k \in DOMAIN q.later
          PROVE  IsSound(q.later[k])
      <4>1. i.later \in Seq(GroupEvent)
        BY DEF EventIter
      <4>2. k \in DOMAIN i.later \/ k = Len(i.later) + 1
        BY <3>1, <4>1
      <4>3. CASE k \in DOMAIN i.later
        <5>1. q.later[k] = i.later[k]
          BY <3>1, <4>1, <4>3
        <5> QED BY <5>1, <4>3 DEF Collects
      <4>4. CASE k = Len(i.later) + 1
        <5>1. q.later[k] = y
          BY <3>1, <4>1, <4>4
        <5> QED BY <5>1, <2>3
      <4> QED BY <4>2, <4>3, <4>4
    <3> QED BY <3>1, <3>2, <3>3 DEF Collects
  <2>6. q.group = <<>> /\ q.rest = i.rest /\ q.state = i.state /\ q.node = i.node /\ q.edge = i.edge
    BY DEF EventIter
  <2> QED BY <2>1, <2>4, <2>5, <2>6
<1> QED BY <1>1, <1>2

\* A step that does not touch the group, when it is not complete with a HARD action.
LEMMA SameGroupKeeps ==
  ASSUME NEW i \in EventIter, Collects(i), NEW j \in EventIter,
         i.state \notin {"nodeActionQueue", "edgeActionQueue"},
         j.group = i.group, j.ceiling = i.ceiling,
         \A k \in DOMAIN j.later : IsSound(j.later[k])
  PROVE  Collects(j)
BY DEF Collects

\* The ceiling of a group after an action joins it.
LEMMA CeilCovers ==
  ASSUME NEW c \in BlockingType, NEW g \in Seq(Action), NEW a \in Action,
         Covers(c, Strongest(g))
  PROVE  /\ Ceil(c, BlockingOf[a]) \in BlockingType
         /\ Covers(Ceil(c, BlockingOf[a]), Strongest(Append(g, a)))
<1>1. BlockingOf[a] \in BlockingType
  BY BlockingAssumption
<1>2. /\ DOMAIN Append(g, a) = DOMAIN g \cup {Len(g) + 1}
      /\ \A k \in DOMAIN g : Append(g, a)[k] = g[k]
      /\ Append(g, a)[Len(g) + 1] = a
  OBVIOUS
<1>3. Strongest(Append(g, a)) \in {Strongest(g), BlockingOf[a]}
  BY <1>1, <1>2 DEF Strongest, IsHard, BlockingType
<1>4. /\ Ceil(c, BlockingOf[a]) \in BlockingType
      /\ Covers(Ceil(c, BlockingOf[a]), c) /\ Covers(Ceil(c, BlockingOf[a]), BlockingOf[a])
  BY <1>1 DEF Ceil, Covers, BlockingType
<1>5. Strongest(g) \in BlockingType
  BY DEF Strongest, BlockingType
<1> QED BY <1>3, <1>4, <1>5 DEF Covers, BlockingType

\* Taking an action of a node or an edge.
LEMMA TakeActionKeeps ==
  ASSUME IInv, at <= Len(messages),
         NEW queueing, TakeAction(queueing),
         \/ it.state = "nodeAction" /\ queueing = "nodeActionQueue"
         \/ it.state = "edgeAction" /\ queueing = "edgeActionQueue"
  PROVE  IInv'
<1>1. it \in EventIter /\ Collects(it) /\ Fits(it)
  BY Reading
<1>2. queueing \in IterState /\ it.state \in IterState
  BY DEF IterState
<1>3. \A k \in DOMAIN it.group : ~IsHard(it.group[k])
  BY <1>1 DEF Collects
<1>4. CASE it.rest = <<>> \/ HasToWait(Head(it.rest))
  <2> DEFINE i == [it EXCEPT !.state = queueing]
  <2>1. Proceed(i)
    BY <1>4 DEF TakeAction
  <2>2. i \in EventIter /\ i.state = queueing /\ i.node = it.node /\ i.edge = it.edge
        /\ i.group = it.group /\ i.ceiling = it.ceiling /\ i.later = it.later
    BY <1>1, <1>2 DEF EventIter
  <2>3. Collects(i)
    BY <1>1, <2>2, SameGroupKeeps DEF Collects
  <2>4. Fits(i)
    BY <1>1, <2>2 DEF Fits
  <2> QED BY <2>1, <2>2, <2>3, <2>4, ProceedKeeps DEF Good
<1>5. CASE it.rest # <<>> /\ ~HasToWait(Head(it.rest))
  <2> DEFINE a == Head(it.rest)
             i == [it EXCEPT !.state   = IF IsHard(a) THEN queueing ELSE @,
                             !.stop    = @ \/ BlockingOf[a] # "NONE",
                             !.ceiling = Ceil(@, BlockingOf[a]),
                             !.group   = Append(@, a),
                             !.rest    = Tail(@)]
  <2>1. Return(NewAction(a), i)
    BY <1>5 DEF TakeAction
  <2>2. it.rest \in Seq(Action) /\ it.group \in Seq(Action) /\ it.ceiling \in BlockingType
    BY <1>1 DEF EventIter
  <2>3. a \in Action /\ Tail(it.rest) \in Seq(Action) /\ Append(it.group, a) \in Seq(Action)
    BY <2>2, <1>5
  <2>4. IsHard(a) => it.group = <<>>
    BY <1>5 DEF HasToWait
  <2>5. /\ Ceil(it.ceiling, BlockingOf[a]) \in BlockingType
        /\ Covers(Ceil(it.ceiling, BlockingOf[a]), Strongest(Append(it.group, a)))
    BY <1>1, <2>2, <2>3, CeilCovers DEF Collects
  <2>7. i \in EventIter
    <3>1. (IF IsHard(a) THEN queueing ELSE it.state) \in IterState
      BY <1>2
    <3>2. it.stop \in BOOLEAN
      BY <1>1 DEF EventIter
    <3>3. (it.stop \/ BlockingOf[a] # "NONE") \in BOOLEAN
      BY <3>2
    <3> HIDE DEF a
    <3> QED BY <1>1, <2>3, <2>5, <3>1, <3>3 DEF EventIter
  <2>8. /\ i.state = (IF IsHard(a) THEN queueing ELSE it.state)
        /\ i.group = Append(it.group, a)
        /\ i.ceiling = Ceil(it.ceiling, BlockingOf[a])
        /\ i.later = it.later /\ i.node = it.node /\ i.edge = it.edge
    BY <1>1 DEF EventIter
  <2>9. Collects(i)
    <3>1. ASSUME NEW k \in DOMAIN i.group, IsHard(i.group[k])
          PROVE  Len(i.group) = 1 /\ i.state \in {"nodeActionQueue", "edgeActionQueue"}
      <4>1. k \in DOMAIN it.group \/ k = Len(it.group) + 1
        BY <2>2, <2>3, <2>8
      <4>2. CASE k \in DOMAIN it.group
        <5>1. i.group[k] = it.group[k]
          BY <4>2, <2>2, <2>3, <2>8
        <5> QED BY <5>1, <4>2, <1>3, <3>1
      <4>3. CASE k = Len(it.group) + 1
        <5>1. i.group[k] = a
          BY <4>3, <2>2, <2>3, <2>8
        <5>2. it.group = <<>>
          BY <5>1, <3>1, <2>4
        <5>3. Len(i.group) = 1
          BY <5>2, <2>8, <2>3
        <5> QED BY <5>1, <5>3, <3>1, <2>8
      <4> QED BY <4>1, <4>2, <4>3
    <3> HIDE DEF i
    <3> QED BY <1>1, <2>5, <2>8, <3>1 DEF Collects
  <2>10. Fits(i)
    <3> HIDE DEF i
    <3> QED BY <1>1, <2>8 DEF Fits
  <2>11. NewAction(a) \in InterpreterEvent /\ IsSound(NewAction(a))
    BY <2>3 DEF NewAction, InterpreterEvent, IsSound
  <2> HIDE DEF i, a
  <2> QED BY <2>1, <2>7, <2>9, <2>10, <2>11, ReturnKeeps DEF Good
<1> QED BY <1>4, <1>5

\* The iterators move on and nothing else of the group changes.
LEMMA SteppedKeeps ==
  ASSUME IInv, at <= Len(messages), it.state = "transition"
  PROVE  /\ Stepped \in EventIter
         /\ Stepped.group = it.group /\ Stepped.ceiling = it.ceiling /\ Stepped.later = it.later
         /\ Stepped.state = it.state
<1>1. /\ it \in EventIter /\ it.node \in DOMAIN Nodes /\ Node \in Element
      /\ Nodes \in Seq(Element) /\ Edges \in Seq(Element)
  BY Reading DEF Fits
<1>2. it.node \in Nat \ {0} /\ it.edge \in Nat \ {0} /\ it.graph \subseteq Element
  BY <1>1 DEF EventIter
<1>3. CASE NoEdge \/ Node.seq < Edge.seq
  <2>1. Stepped = [it EXCEPT !.graph = {Node}, !.node = @ + 1]
    BY <1>3 DEF Stepped
  <2>2. {Node} \subseteq Element /\ it.node + 1 \in Nat \ {0}
    BY <1>1, <1>2
  <2> QED BY <1>1, <2>1, <2>2 DEF EventIter
<1>4. CASE ~(NoEdge \/ Node.seq < Edge.seq)
  <2>1. it.edge \in DOMAIN Edges /\ Edge \in Element
    BY <1>1, <1>2, <1>4 DEF NoEdge, Edge
  <2>2. CASE ~Edge.released
    <3> DEFINE G == it.graph \cup {Edges[it.edge + n] : n \in Pairs}
                            \cup {Nodes[it.node + n] : n \in Pairs}
               c == Cardinality(Pairs)
    <3>1. Stepped = [it EXCEPT !.graph = G, !.edge = @ + c, !.node = @ + c]
      BY <1>4, <2>2 DEF Stepped
    <3>2. c \in Nat
      <4>1. Pairs \subseteq 0..Len(Edges)
        BY DEF Pairs
      <4>2. IsFiniteSet(0..Len(Edges))
        BY <1>1, FS_Interval
      <4> QED BY <4>1, <4>2, FS_Subset, FS_CardinalityType
    <3>3. G \subseteq Element
      <4>1. ASSUME NEW n \in Pairs
            PROVE  Edges[it.edge + n] \in Element /\ Nodes[it.node + n] \in Element
        <5>1. /\ n \in Nat
              /\ it.edge + n <= Len(Edges) /\ it.node + n <= Len(Nodes)
          BY <4>1 DEF Pairs
        <5>2. it.edge + n \in 1..Len(Edges) /\ it.node + n \in 1..Len(Nodes)
          BY <5>1, <1>1, <1>2
        <5> QED BY <5>2, <1>1
      <4> QED BY <4>1, <1>2
    <3>4. it.edge + c \in Nat \ {0} /\ it.node + c \in Nat \ {0}
      BY <3>2, <1>2
    <3> HIDE DEF G, c
    <3> QED BY <1>1, <3>1, <3>3, <3>4 DEF EventIter
  <2>3. CASE Edge.released
    <3>1. Stepped = [it EXCEPT !.graph = @ \cup {Edge, Node}, !.edge = @ + 1, !.node = @ + 1,
                               !.goal = [seq |-> Node.seq, set |-> TRUE]]
      BY <1>4, <2>3 DEF Stepped
    <3>2. /\ it.graph \cup {Edge, Node} \subseteq Element
          /\ it.edge + 1 \in Nat \ {0} /\ it.node + 1 \in Nat \ {0}
      BY <1>1, <1>2, <2>1
    <3>3. [seq |-> Node.seq, set |-> TRUE] \in [seq : Nat, set : BOOLEAN]
      BY <1>1 DEF Element
    <3> QED BY <1>1, <3>1, <3>2, <3>3 DEF EventIter
  <2> QED BY <2>2, <2>3
<1> QED BY <1>3, <1>4

\* Leaving the goal behind.
LEMMA DrivenKeeps ==
  ASSUME NEW s \in IterState \ {"nodeActionQueue", "edgeActionQueue"},
         it \in EventIter, Collects(it),
         it.state \notin {"nodeActionQueue", "edgeActionQueue"}
  PROVE  /\ Driven(s) \in EventIter /\ Collects(Driven(s))
         /\ Driven(s).state = s /\ Driven(s).node = it.node /\ Driven(s).edge = it.edge
<1>1. NoGoal \in [seq : Nat, set : BOOLEAN]
  BY DEF NoGoal
<1>2. Driven(s) \in EventIter
  BY <1>1 DEF Driven, EventIter
<1>3. /\ Driven(s).group = it.group /\ Driven(s).ceiling = it.ceiling
      /\ Driven(s).later = it.later
      /\ Driven(s).state = s /\ Driven(s).node = it.node /\ Driven(s).edge = it.edge
  BY DEF Driven, EventIter
<1>4. Collects(Driven(s))
  BY <1>2, <1>3, SameGroupKeeps DEF Collects
<1> QED BY <1>2, <1>3, <1>4

\* Yielding the first of the groups that wait.
LEMMA YieldLaterKeeps ==
  ASSUME IInv, at <= Len(messages), it.later # <<>>,
         it.state \notin {"nodeActionQueue", "edgeActionQueue"},
         Return(Head(it.later), [it EXCEPT !.later = Tail(@)])
  PROVE  IInv'
<1> DEFINE i == [it EXCEPT !.later = Tail(@)]
<1>1. it \in EventIter /\ Collects(it) /\ Fits(it)
  BY Reading
<1>2. it.later \in Seq(GroupEvent)
  BY <1>1 DEF EventIter
<1>3. Head(it.later) \in GroupEvent /\ Tail(it.later) \in Seq(GroupEvent)
  BY <1>2
<1>4. IsSound(Head(it.later)) /\ \A k \in DOMAIN Tail(it.later) : IsSound(Tail(it.later)[k])
  <2>1. \A k \in DOMAIN it.later : IsSound(it.later[k])
    BY <1>1 DEF Collects
  <2>2. Head(it.later) = it.later[1] /\ 1 \in DOMAIN it.later
    BY <1>2
  <2>3. ASSUME NEW k \in DOMAIN Tail(it.later)
        PROVE  Tail(it.later)[k] = it.later[k + 1] /\ k + 1 \in DOMAIN it.later
    BY <1>2, <2>3
  <2> QED BY <2>1, <2>2, <2>3
<1>5. i \in EventIter
  BY <1>1, <1>3 DEF EventIter
<1>6. /\ i.group = it.group /\ i.ceiling = it.ceiling /\ i.later = Tail(it.later)
      /\ i.state = it.state /\ i.node = it.node /\ i.edge = it.edge
  BY <1>1 DEF EventIter
<1>7. Collects(i)
  BY <1>1, <1>4, <1>5, <1>6, SameGroupKeeps
<1>8. Fits(i)
  BY <1>1, <1>6 DEF Fits
<1>9. Head(it.later) \in InterpreterEvent
  BY <1>3 DEF InterpreterEvent
<1> HIDE DEF i
<1> QED BY <1>4, <1>5, <1>7, <1>8, <1>9, ReturnKeeps DEF Good, i

-------------------------------------------------------------------------------
(* The invariant *)

\* A new iterator has its type, before there is a message for it too.
LEMMA FreshIsTyped == \A c \in BlockingType : FromOrder(c) \in EventIter
<1>1. NoGoal \in [seq : Nat, set : BOOLEAN]
  BY DEF NoGoal
<1>2. /\ <<>> \in Seq(Action) /\ <<>> \in Seq(GroupEvent) /\ {} \subseteq Element
      /\ "initial" \in IterState
  BY DEF IterState
<1> QED BY <1>1, <1>2 DEF FromOrder, EventIter

\* A new iterator is good: a message has a node.
LEMMA FromOrderIsGood ==
  ASSUME Nodes \in Seq(Element), Nodes # <<>>, NEW c \in BlockingType
  PROVE  Good(FromOrder(c))
<1>1. Collects(FromOrder(c))
  BY DEF Collects, FromOrder, Covers, Strongest
<1>2. Fits(FromOrder(c))
  BY DEF Fits, FromOrder
<1> QED BY <1>1, <1>2, FreshIsTyped DEF Good

\* The first iterator is good.
LEMMA InitEstablishes == InterpreterInit => IInv
<1> SUFFICES ASSUME InterpreterInit PROVE IInv
  OBVIOUS
<1>1. /\ messages \in Seq(Message) /\ at = 1 /\ yields = <<>> /\ alive = TRUE
      /\ \E c \in BlockingType : it = FromOrder(c)
  BY DeliveriesAssumption DEF InterpreterInit
<1>2. TypeOK
  BY <1>1, FreshIsTyped DEF TypeOK
<1>3. GroupsAreSound
  BY <1>1 DEF GroupsAreSound
<1>4. ASSUME at <= Len(messages)
      PROVE  Good(it)
  <2>1. messages[at] \in Message
    BY <1>1, <1>4
  <2>2. Nodes \in Seq(Element) /\ Nodes # <<>>
    BY <2>1 DEF Message, Nodes
  <2> QED BY <1>1, <2>2, FromOrderIsGood
<1> QED BY <1>1, <1>2, <1>3, <1>4 DEF IInv

\* Every handler of nextEvent, and the end of the loop, keep the invariant.
LEMMA StepKeeps == IInv /\ [InterpreterNext]_interpreterVars => IInv'
<1> SUFFICES ASSUME IInv, [InterpreterNext]_interpreterVars PROVE IInv'
  OBVIOUS
<1> DEFINE Queueing == {"nodeActionQueue", "edgeActionQueue"}
<1>r. ASSUME at <= Len(messages)
      PROVE  /\ it \in EventIter /\ Collects(it) /\ Fits(it)
             /\ Nodes \in Seq(Element) /\ Nodes # <<>> /\ Edges \in Seq(Element)
             /\ it.node \in DOMAIN Nodes => Node \in Element
             /\ it.edge \in DOMAIN Edges => Edge \in Element
  BY <1>r, Reading
<1>s. ASSUME NEW s \in IterState, at <= Len(messages), it.state \notin Queueing,
             Fits([it EXCEPT !.state = s]), Proceed([it EXCEPT !.state = s])
      PROVE  IInv'
  <2> DEFINE j == [it EXCEPT !.state = s]
  <2>1. <<>> \in Seq(Action)
    OBVIOUS
  <2>2. j \in EventIter /\ Collects(j)
    BY <1>r, <1>s, <2>1, StateKeeps
  <2>3. Fits(j) /\ Proceed(j)
    BY <1>s
  <2> HIDE DEF j
  <2> QED BY <1>s, <2>2, <2>3, ProceedKeeps DEF Good
<1>f. ASSUME NEW s
      PROVE  it \in EventIter =>
               /\ [it EXCEPT !.state = s].state = s
               /\ [it EXCEPT !.state = s].node = it.node
               /\ [it EXCEPT !.state = s].edge = it.edge
  BY DEF EventIter
<1>1. ASSUME HandleInitial PROVE IInv'
  <2> DEFINE s == IF BeginsWithNode THEN "preNodeAction" ELSE "transition"
             i == [it EXCEPT !.state = s]
  <2>1. at <= Len(messages) /\ it.state = "initial"
    BY <1>1 DEF HandleInitial, In
  <2>2. s \in IterState /\ it.state \notin Queueing
    BY <2>1 DEF IterState
  <2>3. i \in EventIter /\ Collects(i)
    BY <2>1, <2>2, <1>r, StateKeeps DEF EventIter
  <2>4. Fits(i)
    BY <2>1, <1>r, <1>f DEF Fits
  <2>5. ClearActions \in InterpreterEvent /\ IsSound(ClearActions)
    BY DEF InterpreterEvent, ClearActions, IsSound
  <2>6. Return(ClearActions, i) \/ Proceed(i)
    BY <1>1 DEF HandleInitial
  <2> HIDE DEF i
  <2> QED BY <2>1, <2>3, <2>4, <2>5, <2>6, ProceedKeeps, ReturnKeeps DEF Good
<1>2. ASSUME HandlePreNodeAction PROVE IInv'
  <2>1. at <= Len(messages) /\ it.state = "preNodeAction"
    BY <1>2 DEF HandlePreNodeAction, In
  <2>2. it.node \in DOMAIN Nodes /\ Node \in Element
    BY <2>1, <1>r DEF Fits
  <2>3. CASE Node.released
    <3> DEFINE i == [it EXCEPT !.rest = Node.actions, !.state = "nodeAction"]
    <3>1. Proceed(i)
      BY <1>2, <2>3 DEF HandlePreNodeAction
    <3>2. Node.actions \in Seq(Action) /\ "nodeAction" \in IterState
      BY <2>2 DEF Element, IterState
    <3>3. i \in EventIter /\ Collects(i)
      BY <3>2, <2>1, <1>r, StateKeeps
    <3>4. i.state = "nodeAction" /\ i.node = it.node
      BY <2>1, <1>r DEF EventIter
    <3>5. Fits(i)
      BY <3>4, <2>2 DEF Fits
    <3> HIDE DEF i
    <3> QED BY <2>1, <3>1, <3>3, <3>5, ProceedKeeps DEF Good
  <2>4. CASE ~Node.released
    <3>1. Proceed([it EXCEPT !.state = "transition"]) /\ "transition" \in IterState
      BY <1>2, <2>4 DEF HandlePreNodeAction, IterState
    <3>2. Fits([it EXCEPT !.state = "transition"])
      BY <2>1, <2>2, <1>r, <1>f DEF Fits
    <3> QED BY <2>1, <3>1, <3>2, <1>s
  <2> QED BY <2>3, <2>4
<1>3. ASSUME HandleNodeAction PROVE IInv'
  BY <1>3, TakeActionKeeps DEF HandleNodeAction, In
<1>4. ASSUME HandleEdgeAction PROVE IInv'
  BY <1>4, TakeActionKeeps DEF HandleEdgeAction, In
<1>5. ASSUME HandleNodeActionQueue PROVE IInv'
  <2> DEFINE q == QueueGroup(it)
             s == AfterNodeGroup(it.rest)
             i == [q EXCEPT !.state = s]
  <2>1. at <= Len(messages) /\ it.state = "nodeActionQueue" /\ Proceed(i)
    BY <1>5 DEF HandleNodeActionQueue, In
  <2>2. q \in EventIter /\ Collects(q) /\ q.group = <<>> /\ q.node = it.node
    BY <2>1, <1>r, QueueGroupKeeps
  <2>3. s \in {"nodeAction", "transition"} /\ s \in IterState
    BY DEF AfterNodeGroup, IterState
  <2>4. i \in EventIter /\ Collects(i)
    <3> HIDE DEF q, s
    <3>1. q.rest \in Seq(Action)
      BY <2>2 DEF EventIter
    <3> QED BY <2>2, <2>3, <3>1, StateKeeps
  <2>5. i.state = s /\ i.node = it.node
    <3> HIDE DEF q, s
    <3> QED BY <2>2 DEF EventIter
  <2>6. Fits(i)
    <3> HIDE DEF i, s
    <3> QED BY <2>1, <2>3, <2>5, <1>r DEF Fits
  <2> HIDE DEF i
  <2> QED BY <2>1, <2>4, <2>6, ProceedKeeps DEF Good
<1>6. ASSUME HandlePreEdgeAction PROVE IInv'
  <2>1. at <= Len(messages) /\ it.state = "preEdgeAction"
    BY <1>6 DEF HandlePreEdgeAction, In
  <2>2. it.node \in DOMAIN Nodes /\ it.edge \in DOMAIN Edges /\ Edge \in Element
    BY <2>1, <1>r DEF Fits
  <2>3. CASE Edge.released
    <3> DEFINE i == [it EXCEPT !.rest = Edge.actions, !.state = "edgeAction"]
    <3>1. Proceed(i)
      BY <1>6, <2>3 DEF HandlePreEdgeAction
    <3>2. Edge.actions \in Seq(Action) /\ "edgeAction" \in IterState
      BY <2>2 DEF Element, IterState
    <3>3. i \in EventIter /\ Collects(i)
      BY <3>2, <2>1, <1>r, StateKeeps
    <3>4. i.state = "edgeAction" /\ i.node = it.node /\ i.edge = it.edge
      BY <2>1, <1>r DEF EventIter
    <3>5. Fits(i)
      BY <3>4, <2>2 DEF Fits
    <3> HIDE DEF i
    <3> QED BY <2>1, <3>1, <3>3, <3>5, ProceedKeeps DEF Good
  <2>4. CASE ~Edge.released
    <3>1. Proceed([it EXCEPT !.state = "navigation"]) /\ "navigation" \in IterState
      BY <1>6, <2>4 DEF HandlePreEdgeAction, IterState
    <3>2. Fits([it EXCEPT !.state = "navigation"])
      BY <2>1, <2>2, <1>r, <1>f DEF Fits
    <3> QED BY <2>1, <3>1, <3>2, <1>s
  <2> QED BY <2>3, <2>4
<1>7. ASSUME HandleEdgeActionQueue PROVE IInv'
  <2>1. at <= Len(messages) /\ it.state = "edgeActionQueue"
    BY <1>7 DEF HandleEdgeActionQueue, In
  <2>2. CASE it.group # <<>>
    <3> DEFINE q == QueueGroup(it)
    <3>1. Proceed(q)
      BY <1>7, <2>2 DEF HandleEdgeActionQueue
    <3>2. q \in EventIter /\ Collects(q) /\ q.state = it.state /\ q.node = it.node /\ q.edge = it.edge
      BY <2>1, <1>r, QueueGroupKeeps
    <3>3. Fits(q)
      BY <3>2, <2>1, <1>r DEF Fits
    <3> HIDE DEF q
    <3> QED BY <2>1, <3>1, <3>2, <3>3, ProceedKeeps DEF Good
  <2>3. CASE it.group = <<>>
    <3> DEFINE s == IF it.rest # <<>> THEN "edgeAction" ELSE "navigation"
               i == [it EXCEPT !.state = s]
    <3>1. Proceed(i)
      BY <1>7, <2>3 DEF HandleEdgeActionQueue
    <3>2. s \in IterState /\ it.rest \in Seq(Action)
      BY <2>1, <1>r DEF IterState, EventIter
    <3>3. i \in EventIter /\ Collects(i)
      BY <3>2, <2>1, <2>3, <1>r, StateKeeps
    <3>4. Fits(i)
      BY <2>1, <1>r, <1>f DEF Fits
    <3> HIDE DEF i
    <3> QED BY <2>1, <3>1, <3>3, <3>4, ProceedKeeps DEF Good
  <2> QED BY <2>2, <2>3
<1>8. ASSUME HandleActionYield PROVE IInv'
  <2>1. at <= Len(messages) /\ it.state = "actionYield"
    BY <1>8 DEF HandleActionYield, In
  <2>2. CASE it.later = <<>>
    <3>1. Proceed([it EXCEPT !.state = "preNodeAction"]) /\ "preNodeAction" \in IterState
      BY <1>8, <2>2 DEF HandleActionYield, IterState
    <3>2. Fits([it EXCEPT !.state = "preNodeAction"])
      BY <2>1, <1>r, <1>f DEF Fits
    <3> QED BY <2>1, <3>1, <3>2, <1>s
  <2>3. CASE it.later # <<>>
    BY <1>8, <2>1, <2>3, YieldLaterKeeps DEF HandleActionYield
  <2> QED BY <2>2, <2>3
<1>9. ASSUME HandleTransition PROVE IInv'
  <2>1. at <= Len(messages) /\ it.state = "transition"
    BY <1>9 DEF HandleTransition, In
  <2>2. CASE LeadsToHorizon \/ AfterStep(Stepped) = "invalid"
    <3>1. Throw
      BY <1>9, <2>2 DEF HandleTransition
    <3> QED BY <3>1, ThrowKeeps
  <2>3. CASE ~(LeadsToHorizon \/ AfterStep(Stepped) = "invalid")
    <3> DEFINE p == Stepped
               s == AfterStep(Stepped)
               i == [p EXCEPT !.state = s]
    <3>1. Proceed(i)
      BY <1>9, <2>3 DEF HandleTransition
    <3>2. p \in EventIter /\ p.group = it.group /\ p.ceiling = it.ceiling
          /\ p.later = it.later /\ p.state = it.state
      BY <2>1, SteppedKeeps
    <3>3. /\ s \in {"preDone", "preEdgeAction"} /\ s \in IterState
          /\ s = "preEdgeAction" => p.node <= Len(Nodes) /\ p.edge <= Len(Edges)
      <4> HIDE DEF p
      <4>1. s = AfterStep(p)
        BY DEF p
      <4> QED BY <2>3, <4>1 DEF AfterStep, IterState
    <3>4. Collects(p)
      BY <3>2, <2>1, <1>r, SameGroupKeeps DEF Collects
    <3>5. i \in EventIter /\ Collects(i)
      <4> HIDE DEF p, s
      <4>1. p.rest \in Seq(Action)
        BY <3>2 DEF EventIter
      <4> QED BY <2>1, <3>2, <3>3, <3>4, <4>1, StateKeeps
    <3>6. i.state = s /\ i.node = p.node /\ i.edge = p.edge /\ p.node \in Nat \ {0} /\ p.edge \in Nat \ {0}
      <4> HIDE DEF p, s
      <4> QED BY <3>2 DEF EventIter
    <3>7. Fits(i)
      <4> HIDE DEF i, p, s
      <4> QED BY <3>3, <3>6, <2>1, <1>r DEF Fits
    <3> HIDE DEF i
    <3> QED BY <2>1, <3>1, <3>5, <3>7, ProceedKeeps DEF Good
  <2> QED BY <2>2, <2>3
<1>10. ASSUME HandleNavigation PROVE IInv'
  <2> DEFINE i == Driven("actionYield")
             y == NavStep(it.goal.seq, it.stop)
  <2>1. at <= Len(messages) /\ it.state = "navigation" /\ (Return(y, i) \/ Proceed(i))
    BY <1>10 DEF HandleNavigation, In
  <2>2. "actionYield" \in IterState \ Queueing
    BY DEF IterState
  <2>3. i \in EventIter /\ Collects(i) /\ i.state = "actionYield" /\ i.node = it.node
    BY <2>1, <2>2, <1>r, DrivenKeeps
  <2>4. Fits(i)
    BY <2>1, <2>3, <1>r DEF Fits
  <2>5. y \in InterpreterEvent /\ IsSound(y)
    BY <2>1, <1>r DEF InterpreterEvent, NavStep, IsSound, EventIter
  <2> HIDE DEF i, y
  <2> QED BY <2>1, <2>3, <2>4, <2>5, ProceedKeeps, ReturnKeeps DEF Good
<1>11. ASSUME HandlePreDone PROVE IInv'
  <2>1. at <= Len(messages) /\ it.state = "preDone"
    BY <1>11 DEF HandlePreDone, In
  <2>0. CASE it.group # <<>>
    <3>1. Throw
      BY <1>11, <2>0 DEF HandlePreDone
    <3> QED BY <3>1, ThrowKeeps
  <2>2. CASE it.group = <<>> /\ it.goal.set
    <3> DEFINE i == Driven("preDone")
               y == NavStep(it.goal.seq, it.stop)
    <3>1. Return(y, i)
      BY <1>11, <2>2 DEF HandlePreDone
    <3>2. "preDone" \in IterState \ Queueing
      BY DEF IterState
    <3>3. i \in EventIter /\ Collects(i) /\ i.state = "preDone"
      BY <2>1, <3>2, <1>r, DrivenKeeps
    <3>4. Fits(i)
      BY <3>3 DEF Fits
    <3>5. y \in InterpreterEvent /\ IsSound(y)
      BY <2>1, <1>r DEF InterpreterEvent, NavStep, IsSound, EventIter
    <3> HIDE DEF i, y
    <3> QED BY <2>1, <3>1, <3>3, <3>4, <3>5, ReturnKeeps DEF Good
  <2>3. CASE it.group = <<>> /\ ~it.goal.set /\ it.later # <<>>
    BY <1>11, <2>1, <2>3, YieldLaterKeeps DEF HandlePreDone
  <2>4. CASE it.group = <<>> /\ ~it.goal.set /\ it.later = <<>>
    <3> DEFINE i == [it EXCEPT !.state = "done"]
               y == GraphOf(messages[at].update, it.graph)
    <3>1. Return(y, i)
      BY <1>11, <2>4 DEF HandlePreDone
    <3>2. "done" \in IterState /\ it.rest \in Seq(Action) /\ it.graph \subseteq Element
      BY <2>1, <1>r DEF IterState, EventIter
    <3>3. i \in EventIter /\ Collects(i)
      BY <3>2, <2>1, <1>r, StateKeeps
    <3>4. Fits(i)
      BY <2>1, <1>r, <1>f DEF Fits
    <3>5. y \in InterpreterEvent /\ IsSound(y)
      BY <3>2 DEF InterpreterEvent, GraphOf, IsSound
    <3> HIDE DEF i, y
    <3> QED BY <2>1, <3>1, <3>3, <3>4, <3>5, ReturnKeeps DEF Good
  <2> QED BY <2>0, <2>2, <2>3, <2>4
<1>12. ASSUME HandleDone PROVE IInv'
  <2>1. /\ at <= Len(messages) /\ at' = at + 1 /\ \E c \in BlockingType : it' = FromOrder(c)
        /\ yields' = Append(yields, InterpreterDone) /\ messages' = messages /\ alive' = alive
    BY <1>12 DEF HandleDone, In
  <2>2. InterpreterDone \in InterpreterEvent /\ IsSound(InterpreterDone)
    BY DEF InterpreterEvent, InterpreterDone, IsSound
  <2>3. /\ messages \in Seq(Message) /\ at \in 1..(Len(messages) + 1)
        /\ yields \in Seq(InterpreterEvent) /\ alive \in BOOLEAN
    BY DEF IInv, TypeOK
  <2>4. TypeOK'
    BY <2>1, <2>2, <2>3, FreshIsTyped DEF TypeOK
  <2>5. GroupsAreSound'
    <3>1. ASSUME NEW k \in DOMAIN yields'
          PROVE  IsSound(yields'[k])
      <4>1. k \in DOMAIN yields \/ k = Len(yields) + 1
        BY <2>1, <2>3
      <4>2. CASE k \in DOMAIN yields
        <5>1. yields'[k] = yields[k]
          BY <2>1, <2>3, <4>2
        <5> QED BY <5>1, <4>2 DEF IInv, GroupsAreSound
      <4>3. CASE k = Len(yields) + 1
        <5>1. yields'[k] = InterpreterDone
          BY <2>1, <2>3, <4>3
        <5> QED BY <5>1, <2>2
      <4> QED BY <4>1, <4>2, <4>3
    <3> QED BY <3>1 DEF GroupsAreSound, IsSound, Covers, Strongest, IsHard
  <2>6. ASSUME at' <= Len(messages')
        PROVE  Good(it)'
    <3>1. messages'[at'] \in Message
      BY <2>1, <2>3, <2>6
    <3>2. Nodes' \in Seq(Element) /\ Nodes' # <<>> /\ Nodes' = messages'[at'].nodes
      BY <3>1 DEF Message, Nodes
    <3>3. 1 \in DOMAIN Nodes'
      BY <3>2
    <3>4. PICK c \in BlockingType : it' = FromOrder(c)
      BY <2>1
    <3>5. Fits(it)'
      BY <3>3, <3>4 DEF Fits, FromOrder
    <3>6. Collects(it)'
      BY <3>4 DEF Collects, FromOrder, Covers, Strongest
    <3> QED BY <3>4, <3>5, <3>6, FreshIsTyped DEF Good, Fits, Collects
  <2> QED BY <2>1, <2>4, <2>5, <2>6 DEF IInv
<1>13. ASSUME UNCHANGED interpreterVars PROVE IInv'
  BY <1>13 DEF interpreterVars, IInv, TypeOK, GroupsAreSound, Good, Collects, Fits, Nodes, Edges,
               IsSound, Covers, Strongest, IsHard
<1> QED
  BY <1>1, <1>2, <1>3, <1>4, <1>5, <1>6, <1>7, <1>8, <1>9, <1>10, <1>11, <1>12, <1>13 DEF
     InterpreterNext

\* The state and the yields of the interpreter have their types.
THEOREM YieldsAreTyped == InterpreterSpec => []TypeOK
<1>1. IInv => TypeOK
  BY DEF IInv
<1> QED BY <1>1, InitEstablishes, StepKeeps, PTL DEF InterpreterSpec

\* The iterators of functional.cpp are never dereferenced at their end, whatever the
\* message, one that is refused included.
THEOREM IteratorsStayInRange == InterpreterSpec => []InRange
<1>1. IInv => InRange
  BY DEF IInv, Good, Fits, InRange
<1> QED BY <1>1, InitEstablishes, StepKeeps, PTL DEF InterpreterSpec

\* No group that is yielded has a ceiling weaker than its actions, whatever the memory
\* holds where the iterator is made, and a HARD action is alone in its group.
THEOREM YieldedGroupsAreSound == InterpreterSpec => []GroupsAreSound
<1>1. IInv => GroupsAreSound
  BY DEF IInv
<1> QED BY <1>1, InitEstablishes, StepKeeps, PTL DEF InterpreterSpec

-------------------------------------------------------------------------------
(* The queue *)

Queued == queue \in Seq(Value) /\ avail \in Nat
Placed == thread \in [Thread -> [call : Call, at : Place]]

\* Where only a push is, and where only the other calls are.
Sorted(t) ==
  /\ At(t, {"tell"}) => Within(t, {"push"})
  /\ At(t, {"out", "expired", "late", "asleep", "pass", "fetch"}) => ~Within(t, {"push"})

QueueInv == Queued /\ Placed /\ (\A t \in Thread : Sorted(t)) /\ CountedOnce

-------------------------------------------------------------------------------
(* How many threads there are in a set when one of them comes or goes. *)

LEMMA ThreadsCounted ==
  ASSUME NEW S \in SUBSET Thread, NEW t
  PROVE  /\ Cardinality(S) \in Nat
         /\ t \notin S => Cardinality(S \cup {t}) = Cardinality(S) + 1
         /\ t \in S => Cardinality(S \ {t}) = Cardinality(S) - 1
<1>1. IsFiniteSet(S)
  BY ThreadAssumption, FS_Subset
<1>. QED
  BY <1>1, FS_CardinalityType, FS_AddElement, FS_RemoveElement

LEMMA Subsets == Pending \in SUBSET Thread /\ Claimed \in SUBSET Thread
  BY DEF Pending, Claimed

LEMMA Sizes == Cardinality(Pending) \in Nat /\ Cardinality(Claimed) \in Nat
  BY ThreadsCounted, Subsets

\* A step of t to another place of its call, or out of it.
LEMMA Moved ==
  ASSUME Placed, \A u \in Thread : Sorted(u),
         NEW t \in Thread, NEW c \in Call, NEW p \in Place,
         thread' = [thread EXCEPT ![t] = [call |-> c, at |-> p]],
         p = "tell" => c = "push",
         p \in {"out", "expired", "late", "asleep", "pass", "fetch"} => c # "push"
  PROVE  /\ Placed'
         /\ (\A u \in Thread : Sorted(u))'
         /\ Pending' = IF c = "push" /\ p \in {"lock", "held"} THEN Pending \cup {t} ELSE Pending \ {t}
         /\ Claimed' = IF p \in {"pass", "fetch"} THEN Claimed \cup {t} ELSE Claimed \ {t}
<1>1. Placed'
  BY DEF Placed
<1>2. /\ thread'[t] = [call |-> c, at |-> p]
      /\ \A u \in Thread \ {t} : thread'[u] = thread[u]
  BY DEF Placed
<1>3. (\A u \in Thread : Sorted(u))'
  BY <1>2 DEF Sorted, At, Within
<1>4. Pending' = IF c = "push" /\ p \in {"lock", "held"} THEN Pending \cup {t} ELSE Pending \ {t}
  BY <1>2 DEF Pending, At, Within
<1>5. Claimed' = IF p \in {"pass", "fetch"} THEN Claimed \cup {t} ELSE Claimed \ {t}
  BY <1>2 DEF Claimed, At
<1>. QED
  BY <1>1, <1>3, <1>4, <1>5

\* Go is such a step.
LEMMA Gone ==
  ASSUME Placed, NEW t \in Thread, NEW p \in Place, Go(t, p)
  PROVE  /\ thread[t].call \in Call
         /\ thread' = [thread EXCEPT ![t] = [call |-> thread[t].call, at |-> p]]
<1>1. thread[t] \in [call : Call, at : Place]
  BY DEF Placed
<1>2. [thread[t] EXCEPT !.at = p] = [call |-> thread[t].call, at |-> p]
  BY <1>1
<1>. QED
  BY <1>1, <1>2 DEF Go, Placed

LEMMA Returned ==
  ASSUME NEW t \in Thread, Leave(t)
  PROVE  thread' = [thread EXCEPT ![t] = [call |-> "none", at |-> "out"]]
  BY DEF Leave

\* A step that neither queues nor counts anything, nor acquires, nor takes.
LEMMA Nothing ==
  ASSUME QueueInv, Placed', (\A u \in Thread : Sorted(u))', Pending' = Pending, Claimed' = Claimed,
         UNCHANGED <<queue, avail>>
  PROVE  QueueInv'
  BY DEF QueueInv, Queued, CountedOnce

-------------------------------------------------------------------------------
(* The steps *)

LEMMA PushKeeps ==
  ASSUME QueueInv, NEW t \in Thread, NEW v \in Value, Push(t, v)
  PROVE  QueueInv'
<1>1. Placed /\ \A u \in Thread : Sorted(u)
  BY DEF QueueInv
<1>2. "push" \in Call /\ "lock" \in Place
  BY DEF Call, Place
<1>3. thread' = [thread EXCEPT ![t] = [call |-> "push", at |-> "lock"]] /\ At(t, {"out"})
  BY DEF Push
<1>4. /\ Placed' /\ (\A u \in Thread : Sorted(u))'
      /\ Pending' = Pending \cup {t} /\ Claimed' = Claimed \ {t}
  BY <1>1, <1>2, <1>3, Moved
<1>5. t \notin Pending /\ t \notin Claimed
  BY <1>3 DEF Pending, Claimed, At
<1>6. Queued' /\ avail' = avail /\ Len(queue') = Len(queue) + 1
  BY DEF Push, QueueInv, Queued
<1>7. Cardinality(Pending') = Cardinality(Pending) + 1 /\ Claimed' = Claimed
  BY <1>4, <1>5, ThreadsCounted, Subsets
<1>8. CountedOnce'
  <2>1. Cardinality(Pending') = Cardinality(Pending) + 1 /\ Cardinality(Claimed') = Cardinality(Claimed)
    BY <1>7
  <2>. QED
    BY <2>1, <1>6, Sizes DEF QueueInv, CountedOnce, Queued
<1>. QED
  BY <1>4, <1>6, <1>8 DEF QueueInv

LEMMA BeginKeeps ==
  ASSUME QueueInv, NEW t \in Thread, NEW call \in {"pop", "try_pop", "try_pop_for"}, Begin(t, call)
  PROVE  QueueInv'
<1>1. Placed /\ \A u \in Thread : Sorted(u)
  BY DEF QueueInv
<1>2. call \in Call /\ "lock" \in Place
  BY DEF Call, Place
<1>3. thread' = [thread EXCEPT ![t] = [call |-> call, at |-> "lock"]] /\ At(t, {"out"})
  BY DEF Begin
<1>4. /\ Placed' /\ (\A u \in Thread : Sorted(u))'
      /\ Pending' = Pending \ {t} /\ Claimed' = Claimed \ {t}
  BY <1>1, <1>2, <1>3, Moved
<1>5. t \notin Pending /\ t \notin Claimed
  BY <1>3 DEF Pending, Claimed, At
<1>. QED
  BY <1>4, <1>5, Nothing DEF Begin

LEMMA LockKeeps ==
  ASSUME QueueInv, NEW t \in Thread, Lock(t)
  PROVE  QueueInv'
<1>1. Placed /\ \A u \in Thread : Sorted(u)
  BY DEF QueueInv
<1>. DEFINE p == IF At(t, {"lock"}) THEN "held" ELSE "late"
<1>2. p \in Place /\ Go(t, p)
  BY DEF Lock, Place
<1>3. thread[t].call \in Call /\ thread' = [thread EXCEPT ![t] = [call |-> thread[t].call, at |-> p]]
  BY <1>1, <1>2, Gone
<1>4. p = "late" => thread[t].call # "push"
  BY <1>1 DEF Lock, Sorted, At, Within
<1>5. /\ Placed' /\ (\A u \in Thread : Sorted(u))'
      /\ Pending' = IF thread[t].call = "push" /\ p \in {"lock", "held"}
                      THEN Pending \cup {t} ELSE Pending \ {t}
      /\ Claimed' = Claimed \ {t}
  BY <1>1, <1>2, <1>3, <1>4, Moved
<1>6. t \notin Claimed /\ (t \in Pending <=> thread[t].call = "push" /\ p \in {"lock", "held"})
  BY <1>4 DEF Lock, Pending, Claimed, At, Within
<1>. QED
  BY <1>5, <1>6, Nothing DEF Lock

LEMMA ReleaseKeeps ==
  ASSUME QueueInv, NEW t \in Thread, Release(t)
  PROVE  QueueInv'
<1>1. Placed /\ \A u \in Thread : Sorted(u)
  BY DEF QueueInv
<1>2. "tell" \in Place /\ thread[t].call = "push" /\ Go(t, "tell")
  BY DEF Release, Place, Within
<1>3. thread' = [thread EXCEPT ![t] = [call |-> "push", at |-> "tell"]] /\ "push" \in Call
  BY <1>1, <1>2, Gone DEF Call
<1>4. /\ Placed' /\ (\A u \in Thread : Sorted(u))'
      /\ Pending' = Pending \ {t} /\ Claimed' = Claimed \ {t}
  BY <1>1, <1>2, <1>3, Moved
<1>5. t \in Pending /\ t \notin Claimed
  BY DEF Release, Pending, Claimed, At, Within
<1>6. Cardinality(Pending') = Cardinality(Pending) - 1 /\ Claimed' = Claimed
  BY <1>4, <1>5, ThreadsCounted, Subsets
<1>7. queue' = queue /\ avail' = avail + 1 /\ avail' \in Nat
  BY DEF Release, QueueInv, Queued
<1>8. Queued'
  BY <1>7 DEF QueueInv, Queued
<1>9. CountedOnce'
  <2>1. Cardinality(Pending') = Cardinality(Pending) - 1 /\ Cardinality(Claimed') = Cardinality(Claimed)
    BY <1>6
  <2>. QED
    BY <2>1, <1>7, Sizes DEF QueueInv, CountedOnce, Queued
<1>. QED
  BY <1>4, <1>8, <1>9 DEF QueueInv

LEMMA AcquireKeeps ==
  ASSUME QueueInv, NEW t \in Thread, Acquire(t)
  PROVE  QueueInv'
<1>1. Placed /\ \A u \in Thread : Sorted(u)
  BY DEF QueueInv
<1>2. "pass" \in Place /\ thread[t].call # "push" /\ Go(t, "pass")
  BY DEF Acquire, Place, Within
<1>3. thread[t].call \in Call /\ thread' = [thread EXCEPT ![t] = [call |-> thread[t].call, at |-> "pass"]]
  BY <1>1, <1>2, Gone
<1>4. /\ Placed' /\ (\A u \in Thread : Sorted(u))'
      /\ Pending' = Pending \ {t} /\ Claimed' = Claimed \cup {t}
  BY <1>1, <1>2, <1>3, Moved
<1>5. t \notin Pending /\ t \notin Claimed
  BY DEF Acquire, Pending, Claimed, At, Within
<1>6. Cardinality(Claimed') = Cardinality(Claimed) + 1 /\ Pending' = Pending
  BY <1>4, <1>5, ThreadsCounted, Subsets
<1>7. queue' = queue /\ avail' = avail - 1 /\ avail' \in Nat
  BY DEF Acquire, QueueInv, Queued
<1>8. Queued'
  BY <1>7 DEF QueueInv, Queued
<1>9. CountedOnce'
  <2>1. Cardinality(Claimed') = Cardinality(Claimed) + 1 /\ Cardinality(Pending') = Cardinality(Pending)
    BY <1>6
  <2>. QED
    BY <2>1, <1>7, Sizes DEF QueueInv, CountedOnce, Queued
<1>. QED
  BY <1>4, <1>8, <1>9 DEF QueueInv

LEMMA FetchKeeps ==
  ASSUME QueueInv, NEW t \in Thread, Fetch(t)
  PROVE  QueueInv'
<1>1. Placed /\ \A u \in Thread : Sorted(u)
  BY DEF QueueInv
<1>2. "none" \in Call /\ "out" \in Place
  BY DEF Call, Place
<1>3. thread' = [thread EXCEPT ![t] = [call |-> "none", at |-> "out"]]
  BY Returned DEF Fetch
<1>4. /\ Placed' /\ (\A u \in Thread : Sorted(u))'
      /\ Pending' = Pending \ {t} /\ Claimed' = Claimed \ {t}
  BY <1>1, <1>2, <1>3, Moved
<1>5. t \notin Pending /\ t \in Claimed
  BY DEF Fetch, Pending, Claimed, At, Within
<1>6. Cardinality(Claimed') = Cardinality(Claimed) - 1 /\ Pending' = Pending
  BY <1>4, <1>5, ThreadsCounted, Subsets
<1>7. queue' \in Seq(Value) /\ Len(queue') = Len(queue) - 1 /\ avail' = avail
  BY DEF Fetch, QueueInv, Queued
<1>8. Queued'
  BY <1>7 DEF QueueInv, Queued
<1>9. CountedOnce'
  <2>1. Cardinality(Claimed') = Cardinality(Claimed) - 1 /\ Cardinality(Pending') = Cardinality(Pending)
    BY <1>6
  <2>. QED
    BY <2>1, <1>7, Sizes DEF QueueInv, CountedOnce, Queued
<1>. QED
  BY <1>4, <1>8, <1>9 DEF QueueInv

\* A call that returns without an element.
LEMMA LeaveKeeps ==
  ASSUME QueueInv, NEW t \in Thread, TryLockFails(t) \/ GiveUp(t)
  PROVE  QueueInv'
<1>1. Placed /\ \A u \in Thread : Sorted(u)
  BY DEF QueueInv
<1>2. "none" \in Call /\ "out" \in Place
  BY DEF Call, Place
<1>3. thread' = [thread EXCEPT ![t] = [call |-> "none", at |-> "out"]]
  BY Returned DEF TryLockFails, GiveUp
<1>4. /\ Placed' /\ (\A u \in Thread : Sorted(u))'
      /\ Pending' = Pending \ {t} /\ Claimed' = Claimed \ {t}
  BY <1>1, <1>2, <1>3, Moved
<1>5. t \notin Pending /\ t \notin Claimed
  BY <1>1 DEF TryLockFails, GiveUp, Pending, Claimed, At, Within
<1>6. UNCHANGED <<queue, avail>>
  BY DEF TryLockFails, GiveUp
<1>. QED
  BY <1>4, <1>5, <1>6, Nothing

\* The steps of a wait.
LEMMA WaitKeeps ==
  ASSUME QueueInv, NEW t \in Thread, NEW p \in {"asleep", "expired", "lock"}, Go(t, p),
         thread[t].call # "push", At(t, {"held", "asleep"}), UNCHANGED <<queue, avail>>
  PROVE  QueueInv'
<1>1. Placed /\ \A u \in Thread : Sorted(u)
  BY DEF QueueInv
<1>2. p \in Place
  BY DEF Place
<1>3. thread[t].call \in Call /\ thread' = [thread EXCEPT ![t] = [call |-> thread[t].call, at |-> p]]
  BY <1>1, <1>2, Gone
<1>4. /\ Placed' /\ (\A u \in Thread : Sorted(u))'
      /\ Pending' = Pending \ {t} /\ Claimed' = Claimed \ {t}
  BY <1>1, <1>2, <1>3, Moved
<1>5. t \notin Pending /\ t \notin Claimed
  BY DEF Pending, Claimed, At, Within
<1>. QED
  BY <1>4, <1>5, Nothing

\* A notification moves a thread that is neither pushing nor claiming, and not the notifier.
LEMMA NotifyKeeps ==
  ASSUME QueueInv, NEW t \in Thread, NotifyOne(t)
  PROVE  QueueInv'
<1>1. Placed /\ \A u \in Thread : Sorted(u)
  BY DEF QueueInv
<1>2. At(t, {"tell", "pass"}) /\ UNCHANGED <<queue, avail>>
  BY DEF NotifyOne
<1>. DEFINE told == [thread EXCEPT ![t] = After(t)]
<1>3. /\ After(t) \in [call : Call, at : Place]
      /\ After(t).call = "push" => FALSE
      /\ After(t).at \in {"out", "fetch"}
      /\ After(t).at = "fetch" <=> thread[t].at = "pass"
  BY <1>1, <1>2 DEF After, Placed, Sorted, At, Within, Call, Place
<1>4. /\ told \in [Thread -> [call : Call, at : Place]]
      /\ told[t] = After(t) /\ \A u \in Thread \ {t} : told[u] = thread[u]
  BY <1>1, <1>3 DEF Placed
<1>5. \/ thread' = told
      \/ \E s \in Asleep : s # t /\ thread' = [told EXCEPT ![s].at = "lock"]
  BY <1>2 DEF NotifyOne, Asleep, At
<1>. DEFINE Woken(th) ==
              /\ th \in [Thread -> [call : Call, at : Place]] /\ th[t] = After(t)
              /\ \A u \in Thread \ {t} :
                   \/ th[u] = thread[u]
                   \/ /\ thread[u].at = "asleep" /\ th[u].at = "lock"
                      /\ th[u].call = thread[u].call
<1>6. Woken(thread')
  <2>1. CASE thread' = told
    BY <2>1, <1>4
  <2>2. ASSUME NEW s \in Asleep, s # t, thread' = [told EXCEPT ![s].at = "lock"]
        PROVE  Woken(thread')
    BY <2>2, <1>4 DEF Asleep, At, Place
  <2>. QED
    BY <2>1, <2>2, <1>5
<1>7. Placed'
  BY <1>6 DEF Placed
<1>8. (\A u \in Thread : Sorted(u))'
  BY <1>1, <1>3, <1>6 DEF Sorted, At, Within
<1>9. Pending' = Pending
  BY <1>1, <1>2, <1>3, <1>6 DEF Pending, Sorted, At, Within
<1>10. Claimed' = Claimed
  BY <1>1, <1>2, <1>3, <1>6 DEF Claimed, Sorted, At, Within
<1>. QED
  BY <1>2, <1>7, <1>8, <1>9, <1>10, Nothing

-------------------------------------------------------------------------------
LEMMA QueueInductive == QueueSpec => []QueueInv
<1>1. QueueInit => QueueInv
  <2>. SUFFICES ASSUME QueueInit PROVE QueueInv
    OBVIOUS
  <2>1. Pending = {} /\ Claimed = {}
    BY DEF QueueInit, Pending, Claimed, At, Within
  <2>2. Queued /\ Placed /\ \A t \in Thread : Sorted(t)
    BY DEF QueueInit, Queued, Placed, Sorted, At, Within, Call, Place
  <2>. QED
    BY <2>1, <2>2, FS_EmptySet DEF QueueInit, QueueInv, CountedOnce
<1>2. QueueInv /\ [QueueNext]_queueVars => QueueInv'
  <2>. SUFFICES ASSUME QueueInv, [QueueNext]_queueVars PROVE QueueInv'
    OBVIOUS
  <2>1. CASE UNCHANGED queueVars
    BY <2>1 DEF queueVars, QueueInv, Queued, Placed, Sorted, CountedOnce, Pending, Claimed, At,
       Within
  <2>2. ASSUME NEW t \in Thread, NEW v \in Value, Push(t, v) PROVE QueueInv'
    BY <2>2, PushKeeps
  <2>3. ASSUME NEW t \in Thread, NEW call \in {"pop", "try_pop", "try_pop_for"}, Begin(t, call)
        PROVE  QueueInv'
    BY <2>3, BeginKeeps
  <2>4. ASSUME NEW t \in Thread, FallAsleep(t) \/ Expire(t) \/ WakeUp(t) PROVE QueueInv'
    <3>1. thread[t].call # "push" /\ At(t, {"held", "asleep"}) /\ UNCHANGED <<queue, avail>>
      BY <2>4 DEF FallAsleep, Expire, WakeUp, QueueInv, Sorted, Within, At
    <3>2. \E p \in {"asleep", "expired", "lock"} : Go(t, p)
      BY <2>4 DEF FallAsleep, Expire, WakeUp
    <3>. QED
      BY <3>1, <3>2, WaitKeeps
  <2>5. ASSUME NEW t \in Thread, Step(t) PROVE QueueInv'
    BY <2>4, <2>5, LockKeeps, ReleaseKeeps, AcquireKeeps, FetchKeeps, LeaveKeeps, NotifyKeeps
       DEF Step
  <2>. QED
    BY <2>1, <2>2, <2>3, <2>4, <2>5 DEF QueueNext
<1>. QED
  BY <1>1, <1>2, PTL DEF QueueSpec

(* Every element is counted once, whatever pushes and pops run beside each *)
(* other (blocking_queue.h:100-193, semaphore.h:67-153).                   *)
THEOREM CountedOnceAlways == QueueSpec => []CountedOnce
<1>1. QueueInv => CountedOnce
  BY DEF QueueInv
<1>. QED
  BY <1>1, QueueInductive, PTL

(* A pop that has acquired an element finds one, so queue_.front() is      *)
(* never read of an empty queue (blocking_queue.h:130, 143, 164, 186).     *)
THEOREM FetchFinds == QueueSpec => [](\A t \in Thread : At(t, {"fetch"}) => queue # <<>>)
<1>1. ASSUME QueueInv, NEW t \in Thread, At(t, {"fetch"}) PROVE queue # <<>>
  <2>1. t \in Claimed /\ CountedOnce /\ Queued
    BY <1>1 DEF Claimed, At, QueueInv
  <2>2. Cardinality(Claimed \ {t}) = Cardinality(Claimed) - 1 /\ Cardinality(Claimed \ {t}) \in Nat
    BY <2>1, ThreadsCounted, Subsets
  <2>3. Cardinality(Claimed) > 0
    BY <2>2, Sizes
  <2>. QED
    BY <2>1, <2>3, Sizes DEF CountedOnce, Queued
<1>2. QueueInv => \A t \in Thread : At(t, {"fetch"}) => queue # <<>>
  BY <1>1
<1>. QED
  BY <1>2, QueueInductive, PTL

-------------------------------------------------------------------------------
(* The connection *)

App == {"down", "up", "stopping", "handler", "mqtt", "client", "callback", "threads"}

Events ==
  [name : {"send"}, what : {"state", "visualization", "factsheet"}] \cup
  [name : {"status"}, what : {"online", "offline"}] \cup
  [name : {"receive", "valid"}, what : {"order", "instantActions"}] \cup
  [name : {"error"}, what : {"delivery", "json"}]

Ids == Nat \cup {NoHeader}

Modules == [state : State, seq : [Topic -> Nat], client : BOOLEAN]

ControlThreads ==
  [queue : Seq({"connect", "disconnect"}),
   at : {"idle", "filling", "filled", "sent", "left", "ended"}, id : Ids]

MessageThreads == [queue : Seq(Events), at : {"idle", "filled", "ended"}, id : Int]

Clients ==
  [net : {"none", "connecting", "up", "broken", "retrying"},
   at : {"idle", "connected", "subscribed", "online", "filling", "filled", "lost"}, id : Ids]

Brokers == [session : BOOLEAN, retained : Connected \cup {None}, got : [Topic -> Int]]

Observers ==
  [observes : BOOLEAN, orders : Nat, instantActions : Nat, sent : [Topic -> Nat], errors : Nat,
   status : {None, "online", "offline"}]

Lefts == [events : Nat, runs : Nat]

ConnectionTypes ==
  /\ app \in App /\ module \in Modules /\ listeners \subseteq {"mqtt", "handler"}
  /\ control \in ControlThreads /\ message \in MessageThreads /\ client \in Clients
  /\ broker \in Brokers /\ observer \in Observers /\ left \in Lefts /\ dead \in BOOLEAN

\* A message whose header is filled is at the front of the queue.
Front == message.at = "filled" => message.queue # <<>> /\ Head(message.queue).name = "send"

\* Where the control thread and the client can be in each phase of a run.
Phases ==
  /\ app = "down" =>
       control = NoInstance /\ message = NoInstance /\ observer = NoObserver /\ listeners = {}
  /\ app \in {"client", "callback", "threads"} => "mqtt" \notin listeners
  /\ app \in {"mqtt", "client", "callback", "threads"} => "handler" \notin listeners
  /\ app = "up" =>
       /\ control.at = "idle"
       /\ control.queue = <<>> \/
          (control.queue = <<"connect">> /\ client.net = "none"
             /\ ("mqtt" \in listeners => module.state = "initialized"))
       /\ "mqtt" \notin listeners => client.net = "none"
       /\ "mqtt" \in listeners => module.client
  /\ app = "stopping" =>
       /\ control.queue = <<>> \/ (control.queue = <<"disconnect">> /\ control.at = "idle")
       /\ "mqtt" \notin listeners => client.net = "none" /\ control.at = "idle"
  /\ app \notin {"up", "stopping"} => control.at \in {"idle", "ended"} /\ control.queue = <<>>
  /\ app # "up" => client.at = "idle" /\ client.net \in {"none", "up", "retrying"}
  /\ app \notin {"up", "stopping"} => client.net # "up"
  /\ app = "stopping" /\ control.queue = <<>> /\ control.at \in {"idle", "ended"} => client.net # "up"
  /\ app \in {"callback", "threads", "down"} => client.net = "none"
  /\ client.net # "none" => module.client

\* What the module, the client and the broker know of each other.
Links ==
  /\ client.net = "up" => broker.session
  /\ broker.retained = "ONLINE" => broker.session
  /\ client.net \in {"none", "connecting", "retrying"} => client.at = "idle"
  /\ client.at = "idle" /\ client.net = "up" =>
       module.state = "online" /\ (control.at # "sent" => broker.retained = "ONLINE")
  /\ client.at = "idle" /\ client.net = "broken" => module.state = "online"
  /\ client.at = "idle" /\ module.state = "online" /\ control.at # "left" =>
       client.net \in {"up", "broken"}
  /\ client.at \in {"connected", "subscribed"} => module.state # "online"
  /\ client.at \in {"online", "filling", "filled", "lost"} => module.state = "online"
  /\ client.at = "lost" => client.net = "broken"
  /\ control.at \in {"filling", "filled", "sent"} => client.net = "up"
  /\ control.at = "sent" => broker.retained = "OFFLINE"
  /\ control.at = "left" => client.net = "none" /\ module.state = "online"

\* The observers are told what the module is, or is about to be.
Known(status) ==
  IF control.at = "left" THEN status = "online"
  ELSE IF client.at \in {"online", "lost"} THEN status = "offline"
  ELSE status = "online" <=> module.state = "online"

Told ==
  /\ ~observer.observes => observer.status = None
  /\ app \notin {"threads", "down"} =>
       \A status \in {"online", "offline"} : LastTold(status) => Known(status)

Inv == ConnectionTypes /\ Front /\ (~dead => Phases /\ Links /\ Told)

-------------------------------------------------------------------------------
(* The types of what the actions assign *)

LEMMA HeaderType ==
  /\ NoHeader \in Ids /\ NoHeader \in Int /\ Nat \subseteq Ids
  /\ \A i \in Ids : i \in Int /\ i + 1 \in Nat
  BY DEF NoHeader, Ids

LEMMA QueueTypes ==
  ASSUME NEW S, NEW q \in Seq(S)
  PROVE  /\ <<>> \in Seq(S) /\ \A e \in S : <<e>> \in Seq(S) /\ Append(q, e) \in Seq(S)
         /\ q # <<>> => Head(q) \in S /\ Tail(q) \in Seq(S)
  OBVIOUS

LEMMA EventTypes ==
  /\ \A t \in {"state", "visualization", "factsheet"} : Event("send", t) \in Events /\ t \in Topic
  /\ \A s \in {"online", "offline"} : Event("status", s) \in Events
  /\ \A k \in {"order", "instantActions"} : Event("receive", k) \in Events /\ Event("valid", k) \in Events
  /\ \A e \in {"delivery", "json"} : Event("error", e) \in Events
  /\ \A e \in Events : e.name = "send" => e.what \in {"state", "visualization", "factsheet"}
  /\ \A e \in Events : e.name = "status" => e.what \in {"online", "offline"}
  /\ \A e \in Events : e.name = "receive" => e.what \in {"order", "instantActions"}
  /\ "connection" \in Topic
  BY DEF Events, Event, Topic

LEMMA FrontTypes ==
  ASSUME ConnectionTypes, message.queue # <<>>
  PROVE  /\ Head(message.queue).name = "send" => What \in {"state", "visualization", "factsheet"}
         /\ Head(message.queue).name = "status" => What \in {"online", "offline"}
         /\ Head(message.queue).name = "receive" => What \in {"order", "instantActions"}
<1>1. message.queue \in Seq(Events)
  BY DEF ConnectionTypes, MessageThreads
<1>. QED
  BY <1>1, QueueTypes, EventTypes DEF What

LEMMA ModuleTypes ==
  /\ ModuleInitialized \in Modules
  /\ \A m \in Modules :
       /\ \A s \in State : [m EXCEPT !.state = s] \in Modules
       /\ [m EXCEPT !.client = FALSE] \in Modules
<1>1. ModuleInitialized \in Modules
  BY DEF ModuleInitialized, Modules, NoCounts, State, Topic
<1>2. ASSUME NEW m \in Modules
      PROVE  /\ \A s \in State : [m EXCEPT !.state = s] \in Modules
             /\ [m EXCEPT !.client = FALSE] \in Modules
  BY DEF Modules
<1>. QED
  BY <1>1, <1>2

LEMMA ControlTypes ==
  /\ NoInstance \in ControlThreads
  /\ \A c \in ControlThreads :
       /\ [c EXCEPT !.queue = <<"connect">>] \in ControlThreads
       /\ [c EXCEPT !.queue = Append(@, "disconnect")] \in ControlThreads
       /\ \A p \in {"idle", "filling", "filled", "sent", "left", "ended"} : [c EXCEPT !.at = p] \in ControlThreads
       /\ c.queue # <<>> =>
            \A p \in {"idle", "filling", "filled", "sent", "left", "ended"}, i \in Ids :
              [queue |-> Tail(c.queue), at |-> p, id |-> i] \in ControlThreads
<1>. DEFINE E == {"connect", "disconnect"}
<1>1. NoInstance \in ControlThreads
  BY QueueTypes, HeaderType DEF ControlThreads, NoInstance
<1>2. ASSUME NEW c \in ControlThreads
      PROVE  /\ c.queue \in Seq(E) /\ Append(c.queue, "disconnect") \in Seq(E)
             /\ <<"connect">> \in Seq(E) /\ (c.queue # <<>> => Tail(c.queue) \in Seq(E))
  <2>1. c.queue \in Seq(E) /\ "connect" \in E /\ "disconnect" \in E
    BY DEF ControlThreads
  <2>. HIDE DEF E
  <2>. QED
    BY <2>1, QueueTypes
<1>3. ASSUME NEW c \in ControlThreads, NEW p \in {"idle", "filling", "filled", "sent", "left", "ended"},
             NEW i \in Ids, c.queue # <<>>
      PROVE  [queue |-> Tail(c.queue), at |-> p, id |-> i] \in ControlThreads
  BY <1>2, <1>3 DEF ControlThreads
<1>4. ASSUME NEW c \in ControlThreads
      PROVE  /\ [c EXCEPT !.queue = <<"connect">>] \in ControlThreads
             /\ [c EXCEPT !.queue = Append(@, "disconnect")] \in ControlThreads
             /\ \A p \in {"idle", "filling", "filled", "sent", "left", "ended"} : [c EXCEPT !.at = p] \in ControlThreads
  BY <1>2 DEF ControlThreads
<1>. QED
  BY <1>1, <1>3, <1>4

LEMMA MessageTypes ==
  /\ NoInstance \in MessageThreads
  /\ \A m \in MessageThreads :
       /\ m.queue \in Seq(Events)
       /\ \A e \in Events : [m EXCEPT !.queue = <<e>>] \in MessageThreads
       /\ \A e \in Events : [m EXCEPT !.queue = Append(@, e)] \in MessageThreads
       /\ \A p \in {"idle", "filled", "ended"} : [m EXCEPT !.at = p] \in MessageThreads
       /\ \A i \in Int : [m EXCEPT !.at = "filled", !.id = i] \in MessageThreads
       /\ \A q \in Seq(Events) : [m EXCEPT !.queue = q, !.at = "idle", !.id = NoHeader] \in MessageThreads
<1>1. NoInstance \in MessageThreads
  BY QueueTypes DEF MessageThreads, NoInstance, NoHeader
<1>2. ASSUME NEW m \in MessageThreads
      PROVE  /\ m.queue \in Seq(Events)
             /\ \A p \in {"idle", "filled", "ended"} : [m EXCEPT !.at = p] \in MessageThreads
             /\ \A i \in Int : [m EXCEPT !.at = "filled", !.id = i] \in MessageThreads
             /\ \A q \in Seq(Events) :
                  [m EXCEPT !.queue = q, !.at = "idle", !.id = NoHeader] \in MessageThreads
  BY HeaderType DEF MessageThreads
<1>3. ASSUME NEW m \in MessageThreads, NEW e \in Events
      PROVE  /\ [m EXCEPT !.queue = <<e>>] \in MessageThreads
             /\ [m EXCEPT !.queue = Append(@, e)] \in MessageThreads
  <2>1. <<e>> \in Seq(Events) /\ Append(m.queue, e) \in Seq(Events)
    BY <1>2, QueueTypes
  <2>. QED
    BY <2>1 DEF MessageThreads
<1>. QED
  BY <1>1, <1>2, <1>3

LEMMA ClientTypes ==
  ASSUME NEW c \in Clients
  PROVE  /\ \A n \in {"none", "connecting", "up", "broken", "retrying"} : [c EXCEPT !.net = n] \in Clients
         /\ [c EXCEPT !.net = "up", !.at = "connected"] \in Clients
         /\ \A p \in {"idle", "connected", "subscribed", "online", "filling", "filled", "lost"} :
              [c EXCEPT !.at = p] \in Clients
         /\ \A i \in Ids : [c EXCEPT !.at = "filling", !.id = i] \in Clients
         /\ [c EXCEPT !.at = "idle", !.id = NoHeader] \in Clients
         /\ [c EXCEPT !.at = "idle", !.net = IF @ = "broken" THEN "retrying" ELSE @] \in Clients
<1>1. (IF c.net = "broken" THEN "retrying" ELSE c.net) \in {"none", "connecting", "up", "broken", "retrying"}
  BY DEF Clients
<1>2. [c EXCEPT !.at = "idle", !.net = IF @ = "broken" THEN "retrying" ELSE @] \in Clients
  BY <1>1 DEF Clients
<1>. QED
  BY <1>2, HeaderType DEF Clients

LEMMA BrokerTypes ==
  ASSUME NEW b \in Brokers
  PROVE  /\ [b EXCEPT !.session = FALSE] \in Brokers
         /\ [b EXCEPT !.session = TRUE, !.retained = IF b.session THEN "CONNECTIONBROKEN" ELSE @] \in Brokers
         /\ [b EXCEPT !.session = FALSE, !.retained = "CONNECTIONBROKEN"] \in Brokers
         /\ [b EXCEPT !.got = [t \in Topic |-> NoHeader]] \in Brokers
         /\ \A t \in Topic, i \in Int : [b EXCEPT !.got[t] = i] \in Brokers
         /\ \A t \in Topic, i \in Int, c \in Connected :
              [[b EXCEPT !.got[t] = i] EXCEPT !.retained = c] \in Brokers
<1>1. (IF b.session THEN "CONNECTIONBROKEN" ELSE b.retained) \in Connected \cup {None}
  BY DEF Brokers, Connected
<1>2. [b EXCEPT !.session = TRUE, !.retained = IF b.session THEN "CONNECTIONBROKEN" ELSE @] \in Brokers
  BY <1>1 DEF Brokers
<1>3. ASSUME NEW t \in Topic, NEW i \in Int
      PROVE  [b EXCEPT !.got[t] = i] \in Brokers
  BY DEF Brokers
<1>4. ASSUME NEW t \in Topic, NEW i \in Int, NEW c \in Connected
      PROVE  [[b EXCEPT !.got[t] = i] EXCEPT !.retained = c] \in Brokers
  <2>1. \A d \in Brokers : [d EXCEPT !.retained = c] \in Brokers
    BY DEF Brokers
  <2>. QED
    BY <1>3, <2>1
<1>5. /\ [b EXCEPT !.session = FALSE] \in Brokers
      /\ [b EXCEPT !.session = FALSE, !.retained = "CONNECTIONBROKEN"] \in Brokers
      /\ [b EXCEPT !.got = [t \in Topic |-> NoHeader]] \in Brokers
  BY HeaderType DEF Brokers, Connected
<1>. QED
  BY <1>2, <1>3, <1>4, <1>5

LEMMA ObserverTypes ==
  /\ NoObserver \in Observers
  /\ \A o \in Observers :
       /\ [o EXCEPT !.observes = TRUE] \in Observers
       /\ \A t \in Topic : [o EXCEPT !.sent[t] = @ + 1] \in Observers
       /\ [o EXCEPT !.errors = @ + 1] \in Observers
       /\ [o EXCEPT !.orders = @ + 1] \in Observers
       /\ [o EXCEPT !.instantActions = @ + 1] \in Observers
       /\ \A s \in {"online", "offline"} : [o EXCEPT !.status = s] \in Observers
<1>1. NoObserver \in Observers
  BY DEF NoObserver, NoCounts, Observers, None
<1>2. ASSUME NEW o \in Observers
      PROVE  /\ [o EXCEPT !.observes = TRUE] \in Observers
             /\ \A s \in {"online", "offline"} : [o EXCEPT !.status = s] \in Observers
  BY DEF Observers, None
<1>3. ASSUME NEW o \in Observers, NEW t \in Topic
      PROVE  [o EXCEPT !.sent[t] = @ + 1] \in Observers
  <2>1. o.sent \in [Topic -> Nat] /\ o.sent[t] + 1 \in Nat
    BY DEF Observers
  <2>2. [o.sent EXCEPT ![t] = o.sent[t] + 1] \in [Topic -> Nat]
    BY <2>1
  <2>3. [o EXCEPT !.sent = [o.sent EXCEPT ![t] = o.sent[t] + 1]] \in Observers
    BY <2>2 DEF Observers
  <2>4. [o EXCEPT !.sent[t] = @ + 1] = [o EXCEPT !.sent = [o.sent EXCEPT ![t] = o.sent[t] + 1]]
    BY DEF Observers
  <2>. QED
    BY <2>3, <2>4
<1>4. ASSUME NEW o \in Observers
      PROVE  /\ [o EXCEPT !.errors = @ + 1] \in Observers
             /\ [o EXCEPT !.orders = @ + 1] \in Observers
             /\ [o EXCEPT !.instantActions = @ + 1] \in Observers
  <2>1. o.errors + 1 \in Nat /\ o.orders + 1 \in Nat /\ o.instantActions + 1 \in Nat
    BY DEF Observers
  <2>2. [o EXCEPT !.errors = o.errors + 1] \in Observers
    BY <2>1 DEF Observers
  <2>3. [o EXCEPT !.orders = o.orders + 1] \in Observers
    BY <2>1 DEF Observers
  <2>4. [o EXCEPT !.instantActions = o.instantActions + 1] \in Observers
    BY <2>1 DEF Observers
  <2>. QED
    BY <2>2, <2>3, <2>4
<1>. QED
  BY <1>1, <1>2, <1>3, <1>4

LEMMA LeftTypes ==
  ASSUME NEW l \in Lefts
  PROVE  /\ l.events > 0 => [l EXCEPT !.events = @ - 1] \in Lefts
         /\ l.runs > 0 => [l EXCEPT !.runs = @ - 1] \in Lefts
<1>1. CASE l.events > 0
  <2>1. l.events - 1 \in Nat
    BY <1>1 DEF Lefts
  <2>. QED
    BY <2>1 DEF Lefts
<1>2. l.runs > 0 => [l EXCEPT !.runs = @ - 1] \in Lefts
  <2>1. l.runs > 0 => l.runs - 1 \in Nat
    BY DEF Lefts
  <2>. QED
    BY <2>1 DEF Lefts
<1>3. l.events > 0 => [l EXCEPT !.events = @ - 1] \in Lefts
  BY <1>1
<1>. QED
  BY <1>2, <1>3

LEMMA TypeInit == Init => ConnectionTypes
<1>. SUFFICES ASSUME Init PROVE ConnectionTypes
  OBVIOUS
<1>1. module \in Modules /\ broker \in Brokers
  BY DEF Init, Modules, Brokers, NoCounts, NoHeader, State, Connected, None
<1>2. client \in Clients /\ left \in Lefts
  BY ConnectionAssumption, HeaderType DEF Init, NoClient, Clients, Lefts
<1>. QED
  BY <1>1, <1>2, ControlTypes, MessageTypes, ObserverTypes DEF Init, ConnectionTypes, App

LEMMA ControlQueues ==
  /\ Tail(<<"connect">>) = <<>> /\ Head(<<"connect">>) = "connect" /\ <<"connect">> # <<>>
  /\ Tail(<<"disconnect">>) = <<>> /\ Head(<<"disconnect">>) = "disconnect"
  /\ <<"disconnect">> # <<>> /\ Append(<<>>, "disconnect") = <<"disconnect">>
  OBVIOUS

\* What the actions do that may end the process, when it lives on.
LEMMA Survivors ==
  ASSUME ~dead'
  PROVE  /\ DisconnectSends =>
              /\ control' = [control EXCEPT !.at = IF module.state = "online" THEN "sent" ELSE "ended"]
              /\ broker' = IF module.state = "online" THEN Retained("OFFLINE", control.id) ELSE broker
              /\ UNCHANGED <<app, module, listeners, message, client, observer>>
         /\ DisconnectWaits =>
              /\ client' = [client EXCEPT !.net = "none"]
              /\ broker' = [broker EXCEPT !.session = FALSE]
              /\ control' = [control EXCEPT !.at = "left"]
              /\ UNCHANGED <<app, module, listeners, message, observer>>
         /\ ConnectedSubscribes =>
              /\ client' = [client EXCEPT !.at = "subscribed"]
              /\ UNCHANGED <<app, module, listeners, control, message, broker, observer>>
         /\ ConnectedSends =>
              /\ module.state = "online" /\ CanPublish
              /\ broker' = Retained("ONLINE", client.id)
              /\ client' = [client EXCEPT !.at = "idle", !.id = NoHeader]
              /\ UNCHANGED <<app, module, listeners, control, message, observer>>
         /\ \A kind \in Arrivals : Arrive(kind) =>
              /\ \/ kind = "malformed" /\ message' = Dispatched(Event("error", "json"))
                 \/ kind \notin {"malformed", "other"} /\ message' = Dispatched(Event("receive", kind))
              /\ UNCHANGED <<app, module, listeners, control, client, broker, observer>>
         /\ SendSends =>
              /\ broker' = IF module.state = "online" THEN Received(What, message.id) ELSE broker
              /\ message' = Done(Tail(message.queue))
              /\ observer' = Counted(What)
              /\ UNCHANGED <<app, module, listeners, control, client>>
<1>1. ~Dies
  BY DEF Dies
<1>2. ASSUME DisconnectSends
      PROVE  /\ control' = [control EXCEPT !.at = IF module.state = "online" THEN "sent" ELSE "ended"]
             /\ broker' = IF module.state = "online" THEN Retained("OFFLINE", control.id) ELSE broker
             /\ UNCHANGED <<app, module, listeners, message, client, observer>>
  BY <1>1, <1>2 DEF DisconnectSends
<1>3. ASSUME DisconnectWaits
      PROVE  /\ client' = [client EXCEPT !.net = "none"]
             /\ broker' = [broker EXCEPT !.session = FALSE]
             /\ control' = [control EXCEPT !.at = "left"]
             /\ UNCHANGED <<app, module, listeners, message, observer>>
  BY <1>1, <1>3 DEF DisconnectWaits
<1>4. ASSUME ConnectedSubscribes
      PROVE  /\ client' = [client EXCEPT !.at = "subscribed"]
             /\ UNCHANGED <<app, module, listeners, control, message, broker, observer>>
  BY <1>1, <1>4 DEF ConnectedSubscribes
<1>5. ASSUME ConnectedSends
      PROVE  /\ module.state = "online" /\ CanPublish
             /\ broker' = Retained("ONLINE", client.id)
             /\ client' = [client EXCEPT !.at = "idle", !.id = NoHeader]
             /\ UNCHANGED <<app, module, listeners, control, message, observer>>
  BY <1>1, <1>5 DEF ConnectedSends
<1>6. ASSUME NEW kind \in Arrivals, Arrive(kind)
      PROVE  /\ \/ kind = "malformed" /\ message' = Dispatched(Event("error", "json"))
                \/ kind \notin {"malformed", "other"} /\ message' = Dispatched(Event("receive", kind))
             /\ UNCHANGED <<app, module, listeners, control, client, broker, observer>>
  BY <1>1, <1>6 DEF Arrive
<1>7. ASSUME SendSends
      PROVE  /\ broker' = IF module.state = "online" THEN Received(What, message.id) ELSE broker
             /\ message' = Done(Tail(message.queue))
             /\ observer' = Counted(What)
             /\ UNCHANGED <<app, module, listeners, control, client>>
  BY <1>1, <1>7 DEF SendSends
<1>. QED
  BY <1>2, <1>3, <1>4, <1>5, <1>6, <1>7

LEMMA HeadOfAppend ==
  ASSUME NEW S, NEW q \in Seq(S), NEW e \in S, q # <<>>
  PROVE  Append(q, e) # <<>> /\ Head(Append(q, e)) = Head(q)
  OBVIOUS

\* A dispatched event does not change what the message thread is at.
LEMMA DispatchedFront ==
  ASSUME ConnectionTypes, Front, NEW e \in Events, message' = Dispatched(e)
  PROVE  message'.at = message.at /\ message'.id = message.id
         /\ (message.queue # <<>> => What' = What) /\ Front'
<1>1. message.queue \in Seq(Events) /\ message' = [message EXCEPT !.queue = Append(message.queue, e)]
  BY DEF ConnectionTypes, MessageThreads, Dispatched
<1>2. message'.queue = Append(message.queue, e) /\ message'.at = message.at /\ message'.id = message.id
  BY <1>1 DEF ConnectionTypes, MessageThreads
<1>3. message.queue # <<>> => message'.queue # <<>> /\ Head(message'.queue) = Head(message.queue)
  BY <1>1, <1>2, HeadOfAppend
<1>. QED
  BY <1>2, <1>3 DEF Front, What

\* What a filled header and a received message change.
LEMMA FilledFields ==
  ASSUME ConnectionTypes, NEW t \in Topic, NEW i \in Ids, module' = FillHeader(t, i)
  PROVE  /\ module'.state = module.state /\ module'.client = module.client
         /\ module'.seq[t] = i + 1 /\ module.seq \in [Topic -> Nat]
         /\ \A u \in Topic : u # t => module'.seq[u] = module.seq[u]
  BY DEF ConnectionTypes, Modules, FillHeader

LEMMA ReceivedFields ==
  ASSUME ConnectionTypes, NEW t \in Topic, NEW i,
         \/ broker' = Received(t, i)
         \/ \E c : t = "connection" /\ broker' = Retained(c, i)
  PROVE  broker.got \in [Topic -> Int] /\ broker'.got = [broker.got EXCEPT ![t] = i]
  BY DEF ConnectionTypes, Brokers, Received, Retained

-------------------------------------------------------------------------------
(* Type correctness *)

LEMMA DiesTypes ==
  ASSUME ConnectionTypes, Dies
  PROVE  ConnectionTypes'
<1>1. dead' = TRUE /\ UNCHANGED <<app, module, listeners, control, message, client, broker, observer, left>>
  BY DEF Dies
<1>. QED
  BY <1>1 DEF ConnectionTypes

LEMMA FillTypes ==
  ASSUME ConnectionTypes, NEW t \in Topic
  PROVE  module.seq[t] \in Nat /\ \A i \in Ids : FillHeader(t, i) \in Modules
<1>1. module \in Modules /\ module.seq \in [Topic -> Nat]
  BY DEF ConnectionTypes, Modules
<1>2. ASSUME NEW i \in Ids PROVE FillHeader(t, i) \in Modules
  <2>1. [module.seq EXCEPT ![t] = i + 1] \in [Topic -> Nat]
    BY <1>1, HeaderType
  <2>2. [module EXCEPT !.seq = [module.seq EXCEPT ![t] = i + 1]] \in Modules
    BY <1>1, <2>1 DEF Modules
  <2>3. FillHeader(t, i) = [module EXCEPT !.seq = [module.seq EXCEPT ![t] = i + 1]]
    BY <1>1 DEF FillHeader, Modules
  <2>. QED
    BY <2>2, <2>3
<1>. QED
  BY <1>1, <1>2

LEMMA DoneTypes ==
  ASSUME ConnectionTypes, message.queue # <<>>
  PROVE  /\ Done(Tail(message.queue)) \in MessageThreads
         /\ \A e \in Events : Done(Append(Tail(message.queue), e)) \in MessageThreads
<1>1. message.queue \in Seq(Events) /\ message \in MessageThreads
  BY DEF ConnectionTypes, MessageThreads
<1>2. Tail(message.queue) \in Seq(Events) /\ \A e \in Events : Append(Tail(message.queue), e) \in Seq(Events)
  BY <1>1, QueueTypes
<1>. QED
  BY <1>1, <1>2, MessageTypes DEF Done

\* Every step keeps the types.
LEMMA TypeNext ==
  ASSUME ConnectionTypes, Front, [Next]_vars
  PROVE  ConnectionTypes'
<1>. USE DEF ConnectionTypes
<1>1. ASSUME NEW listed \in Configurations, Initialize(listed) PROVE ConnectionTypes'
  <2>1. app' \in App
    BY <1>1 DEF Initialize, ModuleInitialized, Start, App
  <2>2. module' \in Modules
    BY <1>1, ModuleTypes, EventTypes DEF Initialize, ModuleInitialized, Start, State
  <2>3. listeners' \subseteq {"mqtt", "handler"}
    BY <1>1, ConnectionAssumption DEF Initialize, ModuleInitialized, Start
  <2>4. control' \in ControlThreads
    BY <1>1, ControlTypes DEF Initialize, ModuleInitialized, Start
  <2>5. message' \in MessageThreads
    BY <1>1, MessageTypes, EventTypes, ConnectionAssumption DEF Initialize, ModuleInitialized, Start
  <2>6. broker' \in Brokers
    BY <1>1, BrokerTypes, EventTypes DEF Initialize, ModuleInitialized, Start
  <2>7. left' \in Lefts
    BY <1>1, LeftTypes DEF Initialize, ModuleInitialized, Start
  <2>8. UNCHANGED <<client, observer, dead>>
    BY <1>1 DEF Initialize, ModuleInitialized, Start
  <2>. QED
    BY <2>1, <2>2, <2>3, <2>4, <2>5, <2>6, <2>7, <2>8
<1>2. CASE Shutdown
  <2>1. app' \in App
    BY <1>2 DEF Shutdown, Settled, App
  <2>2. control' \in ControlThreads
    BY <1>2, ControlTypes DEF Shutdown, Settled
  <2>3. UNCHANGED <<module, listeners, message, client, broker, observer, left, dead>>
    BY <1>2 DEF Shutdown, Settled
  <2>. QED
    BY <2>1, <2>2, <2>3
<1>3. CASE Observe
  <2>1. observer' \in Observers
    BY <1>3, ObserverTypes, EventTypes DEF Observe
  <2>2. UNCHANGED <<app, module, listeners, control, message, client, broker, left, dead>>
    BY <1>3 DEF Observe
  <2>. QED
    BY <2>1, <2>2
<1>4. ASSUME NEW t \in Sends, Dispatch(t) PROVE ConnectionTypes'
  <2>1. message' \in MessageThreads
    BY <1>4, MessageTypes, EventTypes, ConnectionAssumption DEF Dispatch, Dispatched
  <2>2. left' \in Lefts
    BY <1>4, LeftTypes DEF Dispatch, Dispatched
  <2>3. UNCHANGED <<app, module, listeners, control, client, broker, observer, dead>>
    BY <1>4 DEF Dispatch, Dispatched
  <2>. QED
    BY <2>1, <2>2, <2>3
<1>5. CASE StopReturns
  <2>1. app' \in App
    BY <1>5 DEF StopReturns, App
  <2>2. UNCHANGED <<module, listeners, control, message, client, broker, observer, left, dead>>
    BY <1>5 DEF StopReturns
  <2>. QED
    BY <2>1, <2>2
<1>6. CASE DeinitializeHandler
  <2>1. app' \in App
    BY <1>6 DEF DeinitializeHandler, App
  <2>2. listeners' \subseteq {"mqtt", "handler"}
    BY <1>6, ConnectionAssumption DEF DeinitializeHandler
  <2>3. UNCHANGED <<module, control, message, client, broker, observer, left, dead>>
    BY <1>6 DEF DeinitializeHandler
  <2>. QED
    BY <2>1, <2>2, <2>3
<1>7. CASE DeinitializeSubscribers
  <2>1. app' \in App
    BY <1>7 DEF DeinitializeSubscribers, App
  <2>2. listeners' \subseteq {"mqtt", "handler"}
    BY <1>7, ConnectionAssumption DEF DeinitializeSubscribers
  <2>3. UNCHANGED <<module, control, message, client, broker, observer, left, dead>>
    BY <1>7 DEF DeinitializeSubscribers
  <2>. QED
    BY <2>1, <2>2, <2>3
<1>8. CASE DeinitializeClient
  <2>1. app' \in App
    BY <1>8 DEF DeinitializeClient, App
  <2>2. module' \in Modules
    BY <1>8, ModuleTypes, EventTypes DEF DeinitializeClient, State
  <2>3. client' \in Clients
    BY <1>8, ClientTypes DEF DeinitializeClient
  <2>4. broker' \in Brokers
    BY <1>8, BrokerTypes, EventTypes DEF DeinitializeClient
  <2>5. UNCHANGED <<listeners, control, message, observer, left, dead>>
    BY <1>8 DEF DeinitializeClient
  <2>. QED
    BY <2>1, <2>2, <2>3, <2>4, <2>5
<1>9. CASE DeinitializeState
  <2>1. app' \in App
    BY <1>9 DEF DeinitializeState, App
  <2>2. module' \in Modules
    BY <1>9, ModuleTypes, EventTypes DEF DeinitializeState, State
  <2>3. UNCHANGED <<listeners, control, message, client, broker, observer, left, dead>>
    BY <1>9 DEF DeinitializeState
  <2>. QED
    BY <2>1, <2>2, <2>3
<1>10. CASE DestroyInstance
  <2>1. app' \in App
    BY <1>10 DEF DestroyInstance, App
  <2>2. control' \in ControlThreads
    BY <1>10, ControlTypes DEF DestroyInstance
  <2>3. message' \in MessageThreads
    BY <1>10, MessageTypes, EventTypes, ConnectionAssumption DEF DestroyInstance
  <2>4. observer' \in Observers
    BY <1>10, ObserverTypes, EventTypes DEF DestroyInstance
  <2>5. UNCHANGED <<module, listeners, client, broker, left, dead>>
    BY <1>10 DEF DestroyInstance
  <2>. QED
    BY <2>1, <2>2, <2>3, <2>4, <2>5
<1>11. CASE ControlUnheard
  <2>1. control.queue # <<>> /\ \E p \in {"idle", "ended"} : Controlled(p, NoHeader)
    BY <1>11 DEF ControlUnheard
  <2>2. control' \in ControlThreads
    BY <2>1, ControlTypes, HeaderType DEF Controlled
  <2>3. UNCHANGED <<app, module, listeners, message, client, broker, observer, left, dead>>
    BY <1>11 DEF ControlUnheard
  <2>. QED
    BY <2>2, <2>3
<1>12. CASE Connect
  <2>1. control.queue # <<>> /\ \E p \in {"idle", "ended"} : Controlled(p, NoHeader)
    BY <1>12 DEF Connect, Controls
  <2>2. control' \in ControlThreads
    BY <2>1, ControlTypes, HeaderType DEF Controlled
  <2>3. client' \in Clients
    BY <1>12, ClientTypes DEF Connect
  <2>4. UNCHANGED <<app, module, listeners, message, broker, observer, left, dead>>
    BY <1>12 DEF Connect
  <2>. QED
    BY <2>2, <2>3, <2>4
<1>13. CASE DisconnectFails
  <2>1. control.queue # <<>> /\ \E p \in {"idle", "ended"} : Controlled(p, NoHeader)
    BY <1>13 DEF DisconnectFails, Controls
  <2>2. control' \in ControlThreads
    BY <2>1, ControlTypes, HeaderType DEF Controlled
  <2>3. UNCHANGED <<app, module, listeners, message, client, broker, observer, left, dead>>
    BY <1>13 DEF DisconnectFails
  <2>. QED
    BY <2>2, <2>3
<1>14. CASE DisconnectFills
  <2>1. module' \in Modules
    <3>1. control.id \in Ids /\ "connection" \in Topic /\ module' = FillHeader("connection", control.id)
      BY <1>14, EventTypes DEF DisconnectFills, ControlThreads
    <3>. QED
      BY <3>1, FillTypes
  <2>2. control' \in ControlThreads
    BY <1>14, ControlTypes DEF DisconnectFills
  <2>3. UNCHANGED <<app, listeners, message, client, broker, observer, left, dead>>
    BY <1>14 DEF DisconnectFills
  <2>. QED
    BY <2>1, <2>2, <2>3
<1>15. CASE DisconnectSends
  <2>1. CASE module.state = "online" /\ ~CanPublish
    BY <1>15, <2>1, DiesTypes DEF DisconnectSends
  <2>2. CASE ~(module.state = "online" /\ ~CanPublish)
    <3>1. control' \in ControlThreads
      BY <1>15, <2>2, ControlTypes DEF DisconnectSends
    <3>2. Retained("OFFLINE", control.id) \in Brokers
      BY BrokerTypes, EventTypes, HeaderType DEF Retained, Received, ControlThreads, Connected
    <3>3. UNCHANGED <<app, module, listeners, message, client, observer, left, dead>>
      BY <1>15, <2>2 DEF DisconnectSends
    <3>4. broker' = IF module.state = "online" THEN Retained("OFFLINE", control.id) ELSE broker
      BY <1>15, <2>2 DEF DisconnectSends
    <3>. QED
      BY <3>1, <3>2, <3>3, <3>4
  <2>. QED
    BY <2>1, <2>2
<1>16. CASE DisconnectWaits
  <2>1. CASE ~CanPublish
    BY <1>16, <2>1, DiesTypes DEF DisconnectWaits
  <2>2. CASE CanPublish
    <3>1. control' \in ControlThreads /\ client' \in Clients /\ broker' \in Brokers
      BY <1>16, <2>2, ControlTypes, ClientTypes, BrokerTypes DEF DisconnectWaits
    <3>2. UNCHANGED <<app, module, listeners, message, observer, left, dead>>
      BY <1>16, <2>2 DEF DisconnectWaits
    <3>. QED
      BY <3>1, <3>2
  <2>. QED
    BY <2>1, <2>2
<1>17. CASE DisconnectTells
  <2>1. module' \in Modules
    BY <1>17, ModuleTypes, EventTypes DEF DisconnectTells, Dispatched, State
  <2>2. control' \in ControlThreads
    BY <1>17, ControlTypes DEF DisconnectTells, Dispatched
  <2>3. message' \in MessageThreads
    BY <1>17, MessageTypes, EventTypes, ConnectionAssumption DEF DisconnectTells, Dispatched
  <2>4. UNCHANGED <<app, listeners, client, broker, observer, left, dead>>
    BY <1>17 DEF DisconnectTells, Dispatched
  <2>. QED
    BY <2>1, <2>2, <2>3, <2>4
<1>18. CASE ConnectedSubscribes
  <2>1. CASE ~CanPublish
    BY <1>18, <2>1, DiesTypes DEF ConnectedSubscribes
  <2>2. CASE CanPublish
    <3>1. client' \in Clients
      BY <1>18, <2>2, ClientTypes DEF ConnectedSubscribes
    <3>2. UNCHANGED <<app, module, listeners, control, message, broker, observer, left, dead>>
      BY <1>18, <2>2 DEF ConnectedSubscribes
    <3>. QED
      BY <3>1, <3>2
  <2>. QED
    BY <2>1, <2>2
<1>19. CASE ConnectedOnline
  <2>1. module' \in Modules
    BY <1>19, ModuleTypes, EventTypes DEF ConnectedOnline, State
  <2>2. client' \in Clients
    BY <1>19, ClientTypes DEF ConnectedOnline
  <2>3. UNCHANGED <<app, listeners, control, message, broker, observer, left, dead>>
    BY <1>19 DEF ConnectedOnline
  <2>. QED
    BY <2>1, <2>2, <2>3
<1>20. CASE ConnectedTells
  <2>1. module.seq["connection"] \in Ids
    BY FillTypes, EventTypes, HeaderType
  <2>2. message' \in MessageThreads
    BY <1>20, MessageTypes, EventTypes DEF ConnectedTells, Dispatched
  <2>3. client' \in Clients
    BY <1>20, <2>1, ClientTypes DEF ConnectedTells
  <2>4. UNCHANGED <<app, module, listeners, control, broker, observer, left, dead>>
    BY <1>20 DEF ConnectedTells
  <2>. QED
    BY <2>2, <2>3, <2>4
<1>21. CASE ConnectedSends
  <2>1. CASE ~(module.state = "online" /\ CanPublish)
    BY <1>21, <2>1, DiesTypes DEF ConnectedSends
  <2>2. CASE module.state = "online" /\ CanPublish
    <3>1. client' \in Clients
      BY <1>21, <2>2, ClientTypes DEF ConnectedSends
    <3>2. Retained("ONLINE", client.id) \in Brokers
      BY BrokerTypes, EventTypes, HeaderType DEF Retained, Received, Clients, Connected
    <3>3. broker' = Retained("ONLINE", client.id)
          /\ UNCHANGED <<app, module, listeners, control, message, observer, left, dead>>
      BY <1>21, <2>2 DEF ConnectedSends
    <3>. QED
      BY <3>1, <3>2, <3>3
  <2>. QED
    BY <2>1, <2>2
<1>22. CASE LostTells
  <2>1. message' \in MessageThreads
    BY <1>22, MessageTypes, EventTypes, ConnectionAssumption DEF LostTells, Changes, Dispatched
  <2>2. client' \in Clients
    BY <1>22, ClientTypes DEF LostTells, Changes, Dispatched
  <2>3. UNCHANGED <<app, module, listeners, control, broker, observer, left, dead>>
    BY <1>22 DEF LostTells, Changes, Dispatched
  <2>. QED
    BY <2>1, <2>2, <2>3
<1>23. CASE LostOffline
  <2>1. module' \in Modules
    BY <1>23, ModuleTypes, EventTypes DEF LostOffline, State
  <2>2. client' \in Clients
    BY <1>23, ClientTypes DEF LostOffline
  <2>3. UNCHANGED <<app, listeners, control, message, broker, observer, left, dead>>
    BY <1>23 DEF LostOffline
  <2>. QED
    BY <2>1, <2>2, <2>3
<1>24. ASSUME NEW net \in {"connecting", "retrying"}, Accept(net) PROVE ConnectionTypes'
  <2>1. client' \in Clients
    BY <1>24, ClientTypes DEF Accept, Changes
  <2>2. broker' \in Brokers
    BY <1>24, BrokerTypes, EventTypes DEF Accept, Changes
  <2>3. UNCHANGED <<app, module, listeners, control, message, observer, left, dead>>
    BY <1>24 DEF Accept, Changes
  <2>. QED
    BY <2>1, <2>2, <2>3
<1>25. CASE Refuse
  <2>1. message' \in MessageThreads
    BY <1>25, MessageTypes, EventTypes, ConnectionAssumption DEF Refuse, Changes, Dispatched
  <2>2. client' \in Clients
    BY <1>25, ClientTypes DEF Refuse, Changes, Dispatched
  <2>3. left' \in Lefts
    BY <1>25, LeftTypes DEF Refuse, Changes, Dispatched
  <2>4. UNCHANGED <<app, module, listeners, control, broker, observer, dead>>
    BY <1>25 DEF Refuse, Changes, Dispatched
  <2>. QED
    BY <2>1, <2>2, <2>3, <2>4
<1>26. CASE SslError
  <2>1. module' \in Modules
    BY <1>26, ModuleTypes, EventTypes DEF SslError, Changes, State
  <2>2. left' \in Lefts
    BY <1>26, LeftTypes DEF SslError, Changes
  <2>3. UNCHANGED <<app, listeners, control, message, client, broker, observer, dead>>
    BY <1>26 DEF SslError, Changes
  <2>. QED
    BY <2>1, <2>2, <2>3
<1>27. CASE Break
  <2>1. client' \in Clients
    BY <1>27, ClientTypes DEF Break, Changes
  <2>2. left' \in Lefts
    BY <1>27, LeftTypes DEF Break, Changes
  <2>3. UNCHANGED <<app, module, listeners, control, message, broker, observer, dead>>
    BY <1>27 DEF Break, Changes
  <2>. QED
    BY <2>1, <2>2, <2>3
<1>28. CASE BrokerNotices
  <2>1. broker' \in Brokers
    BY <1>28, BrokerTypes, EventTypes DEF BrokerNotices, WillPublished
  <2>2. UNCHANGED <<app, module, listeners, control, message, client, observer, left, dead>>
    BY <1>28 DEF BrokerNotices, WillPublished
  <2>. QED
    BY <2>1, <2>2
<1>29. ASSUME NEW kind \in Arrivals, Arrive(kind) PROVE ConnectionTypes'
  <2>1. CASE kind = "other"
    BY <1>29, <2>1, DiesTypes DEF Arrive
  <2>2. CASE kind # "other"
    <3>1. (IF kind = "malformed" THEN Event("error", "json") ELSE Event("receive", kind)) \in Events
      BY <2>2, EventTypes, ConnectionAssumption
    <3>2. message' \in MessageThreads
      <4>. DEFINE e == IF kind = "malformed" THEN Event("error", "json") ELSE Event("receive", kind)
      <4>1. message' = Dispatched(e)
        BY <1>29, <2>2 DEF Arrive
      <4>2. e \in Events
        BY <3>1
      <4>. HIDE DEF e
      <4>3. message \in MessageThreads
        BY DEF ConnectionTypes
      <4>4. [message EXCEPT !.queue = Append(@, e)] \in MessageThreads
        BY <4>2, <4>3, MessageTypes
      <4>. QED
        BY <4>1, <4>4 DEF Dispatched
    <3>4. left' \in Lefts
      BY <1>29, <2>2, LeftTypes DEF Arrive
    <3>3. UNCHANGED <<app, module, listeners, control, client, broker, observer, dead>>
      BY <1>29, <2>2 DEF Arrive
    <3>. QED
      BY <3>2, <3>3, <3>4
  <2>. QED
    BY <2>1, <2>2
<1>30. CASE SendFills
  <2>1. What \in Topic
    BY <1>30, FrontTypes, EventTypes DEF SendFills, Handles
  <2>2. module.seq[What] \in Nat /\ module.seq[What] \in Ids /\ module.seq[What] \in Int
    BY <2>1, FillTypes, HeaderType
  <2>3. module' \in Modules
    BY <1>30, <2>1, <2>2, FillTypes DEF SendFills
  <2>4. message' \in MessageThreads
    BY <1>30, <2>2, MessageTypes DEF SendFills
  <2>5. UNCHANGED <<app, listeners, control, client, broker, observer, left, dead>>
    BY <1>30 DEF SendFills
  <2>. QED
    BY <2>3, <2>4, <2>5
<1>31. CASE SendSends
  <2>1. CASE module.state = "online" /\ ~CanPublish
    BY <1>31, <2>1, DiesTypes DEF SendSends
  <2>2. CASE ~(module.state = "online" /\ ~CanPublish)
    <3>1. /\ broker' = IF module.state = "online" THEN Received(What, message.id) ELSE broker
          /\ message' = Done(Tail(message.queue))
          /\ observer' = Counted(What)
          /\ UNCHANGED <<app, module, listeners, control, client, left, dead>>
      BY <1>31, <2>2 DEF SendSends
    <3>2. What \in Topic
      BY <1>31, FrontTypes, EventTypes DEF SendSends, Front
    <3>3. Received(What, message.id) \in Brokers
      BY <3>2, BrokerTypes DEF Received, MessageThreads
    <3>4. Done(Tail(message.queue)) \in MessageThreads
      BY <1>31, DoneTypes DEF SendSends, Front
    <3>. QED
      BY <3>1, <3>2, <3>3, <3>4, ObserverTypes DEF Counted
  <2>. QED
    BY <2>1, <2>2
<1>32. CASE SendUnheard
  <2>1. What \in Topic /\ Done(Tail(message.queue)) \in MessageThreads
    BY <1>32, FrontTypes, EventTypes, DoneTypes DEF SendUnheard, Handles
  <2>. QED
    BY <1>32, <2>1, ObserverTypes DEF SendUnheard, Counted
<1>33. CASE HandleReceive
  <2>1. Done(Tail(message.queue)) \in MessageThreads
        /\ Done(Append(Tail(message.queue), Event("valid", What))) \in MessageThreads
    BY <1>33, FrontTypes, EventTypes, DoneTypes DEF HandleReceive, Handles
  <2>. QED
    BY <1>33, <2>1 DEF HandleReceive
<1>34. CASE ValidationTimesOut
  <2>1. message' \in MessageThreads
    BY <1>34, MessageTypes, EventTypes, ConnectionAssumption DEF ValidationTimesOut, Handles
  <2>2. UNCHANGED <<app, module, listeners, control, client, broker, observer, left, dead>>
    BY <1>34 DEF ValidationTimesOut, Handles
  <2>. QED
    BY <2>1, <2>2
<1>35. CASE HandleObserved
  <2>1. message.queue # <<>> /\ message' = Done(Tail(message.queue))
        /\ UNCHANGED <<app, module, listeners, control, client, broker, left, dead>>
    BY <1>35 DEF HandleObserved, Handles
  <2>2. Handles("status") => What \in {"online", "offline"}
    BY <2>1, FrontTypes DEF Handles
  <2>3. observer' \in Observers
    BY <1>35, <2>2, ObserverTypes DEF HandleObserved
  <2>. QED
    BY <2>1, <2>3, DoneTypes
<1>36. CASE UNCHANGED vars
  BY <1>36 DEF vars, What, LastTold
<1>37. CASE DisconnectReads
  <2>1. control.queue # <<>> /\ Controlled("filling", module.seq["connection"])
    BY <1>37 DEF DisconnectReads, Controls
  <2>2. control' \in ControlThreads
    BY <2>1, FillTypes, EventTypes, HeaderType, ControlTypes DEF Controlled
  <2>3. UNCHANGED <<app, module, listeners, message, client, broker, observer, left, dead>>
    BY <1>37 DEF DisconnectReads
  <2>. QED
    BY <2>2, <2>3
<1>38. CASE ConnectedFills
  <2>1. module' \in Modules
    <3>1. client.id \in Ids /\ "connection" \in Topic /\ module' = FillHeader("connection", client.id)
      BY <1>38, EventTypes DEF ConnectedFills, Clients
    <3>. QED
      BY <3>1, FillTypes
  <2>2. client' \in Clients
    BY <1>38, ClientTypes DEF ConnectedFills
  <2>3. UNCHANGED <<app, listeners, control, message, broker, observer, left, dead>>
    BY <1>38 DEF ConnectedFills
  <2>. QED
    BY <2>1, <2>2, <2>3
<1>. QED
  BY <1>1, <1>2, <1>3, <1>4, <1>5, <1>6, <1>7, <1>8, <1>9, <1>10, <1>11, <1>12, <1>13, <1>14, <1>15,
     <1>16, <1>17, <1>18, <1>19, <1>20, <1>21, <1>22, <1>23, <1>24, <1>25, <1>26, <1>27, <1>28,
     <1>29, <1>30, <1>31, <1>32, <1>33, <1>34, <1>35, <1>36, <1>37, <1>38
     DEF Next, Application, Reset, Control, Callback, Network, Messages

\* Every step keeps the front of the message queue.
LEMMA FrontNext ==
  ASSUME ConnectionTypes, Front, [Next]_vars
  PROVE  Front'
<1>. USE DEF ConnectionTypes
<1>1. ASSUME NEW listed \in Configurations, Initialize(listed) PROVE Front'
  <2>1. message'.queue = <<Event("send", "state")>> /\ Head(message'.queue) = Event("send", "state")
    BY <1>1 DEF Initialize, Start, MessageThreads
  <2>. QED
    BY <2>1 DEF Front, Event
<1>2. CASE Shutdown
  BY <1>2 DEF Shutdown, Front
<1>3. CASE Observe
  BY <1>3 DEF Observe, Front
<1>4. ASSUME NEW t \in Sends, Dispatch(t) PROVE Front'
  <2>1. Event("send", t) \in Events /\ message' = Dispatched(Event("send", t))
    BY <1>4, EventTypes, ConnectionAssumption DEF Dispatch
  <2>. QED
    BY <2>1, DispatchedFront
<1>5. CASE StopReturns
  BY <1>5 DEF StopReturns, Front
<1>6. CASE DeinitializeHandler
  BY <1>6 DEF DeinitializeHandler, Front
<1>7. CASE DeinitializeSubscribers
  BY <1>7 DEF DeinitializeSubscribers, Front
<1>8. CASE DeinitializeClient
  BY <1>8 DEF DeinitializeClient, Front
<1>9. CASE DeinitializeState
  BY <1>9 DEF DeinitializeState, Front
<1>10. CASE DestroyInstance
  BY <1>10 DEF DestroyInstance, Front, NoInstance
<1>11. CASE ControlUnheard
  BY <1>11 DEF ControlUnheard, Front
<1>12. CASE Connect
  BY <1>12 DEF Connect, Front
<1>13. CASE DisconnectFails
  BY <1>13 DEF DisconnectFails, Front
<1>14. CASE DisconnectFills
  BY <1>14 DEF DisconnectFills, Front
<1>15. CASE DisconnectSends
  BY <1>15 DEF DisconnectSends, Front, Dies
<1>16. CASE DisconnectWaits
  BY <1>16 DEF DisconnectWaits, Front, Dies
<1>17. CASE DisconnectTells
  <2>1. Event("status", "offline") \in Events /\ message' = Dispatched(Event("status", "offline"))
    BY <1>17, EventTypes, ConnectionAssumption DEF DisconnectTells
  <2>. QED
    BY <2>1, DispatchedFront
<1>18. CASE ConnectedSubscribes
  BY <1>18 DEF ConnectedSubscribes, Front, Dies
<1>19. CASE ConnectedOnline
  BY <1>19 DEF ConnectedOnline, Front
<1>20. CASE ConnectedTells
  <2>1. Event("status", "online") \in Events /\ message' = Dispatched(Event("status", "online"))
    BY <1>20, EventTypes, ConnectionAssumption DEF ConnectedTells
  <2>. QED
    BY <2>1, DispatchedFront
<1>21. CASE ConnectedSends
  BY <1>21 DEF ConnectedSends, Front, Dies
<1>22. CASE LostTells
  <2>1. Event("status", "offline") \in Events
    BY EventTypes
  <2>2. message' = message \/ message' = Dispatched(Event("status", "offline"))
    BY <1>22 DEF LostTells
  <2>3. CASE message' = message
    BY <2>3 DEF Front
  <2>. QED
    BY <2>1, <2>2, <2>3, DispatchedFront
<1>23. CASE LostOffline
  BY <1>23 DEF LostOffline, Front
<1>24. ASSUME NEW net \in {"connecting", "retrying"}, Accept(net) PROVE Front'
  BY <1>24 DEF Accept, Front
<1>25. CASE Refuse
  <2>1. Event("error", "delivery") \in Events /\ message' = Dispatched(Event("error", "delivery"))
    BY <1>25, EventTypes, ConnectionAssumption DEF Refuse
  <2>. QED
    BY <2>1, DispatchedFront
<1>26. CASE SslError
  BY <1>26 DEF SslError, Front
<1>27. CASE Break
  BY <1>27 DEF Break, Front
<1>28. CASE BrokerNotices
  BY <1>28 DEF BrokerNotices, Front
<1>29. ASSUME NEW kind \in Arrivals, Arrive(kind) PROVE Front'
  <2>1. CASE Dies
    BY <2>1 DEF Dies, Front
  <2>2. CASE ~Dies
    <3>1. PICK e \in Events : message' = Dispatched(e)
      BY <1>29, <2>2, EventTypes, ConnectionAssumption DEF Arrive
    <3>. QED
      BY <3>1, DispatchedFront
  <2>. QED
    BY <2>1, <2>2
<1>30. CASE SendFills
  BY <1>30 DEF SendFills, Handles, Front, MessageThreads
<1>31. CASE SendSends
  BY <1>31 DEF SendSends, Dies, Done, Front, MessageThreads
<1>32. CASE SendUnheard
  BY <1>32 DEF SendUnheard, Handles, Done, Counted, Front, MessageThreads
<1>33. CASE HandleReceive
  BY <1>33 DEF HandleReceive, Handles, Done, Event, Front, MessageThreads
<1>34. CASE ValidationTimesOut
  BY <1>34 DEF ValidationTimesOut, Front, MessageThreads
<1>35. CASE HandleObserved
  BY <1>35 DEF HandleObserved, Handles, Done, Front, MessageThreads
<1>36. CASE UNCHANGED vars
  BY <1>36 DEF vars, Front
<1>37. CASE DisconnectReads
  BY <1>37 DEF DisconnectReads, Front
<1>38. CASE ConnectedFills
  BY <1>38 DEF ConnectedFills, Front
<1>. QED
  BY <1>1, <1>2, <1>3, <1>4, <1>5, <1>6, <1>7, <1>8, <1>9, <1>10, <1>11, <1>12, <1>13, <1>14, <1>15,
     <1>16, <1>17, <1>18, <1>19, <1>20, <1>21, <1>22, <1>23, <1>24, <1>25, <1>26, <1>27, <1>28,
     <1>29, <1>30, <1>31, <1>32, <1>33, <1>34, <1>35, <1>36, <1>37, <1>38
     DEF Next, Application, Reset, Control, Callback, Network, Messages

-------------------------------------------------------------------------------
(* The phases, and what the parties know of each other *)

\* Every step keeps the phases.
LEMMA PhasesNext ==
  ASSUME ConnectionTypes, ConnectionTypes', Phases, Links, Quiet, ~dead, ~dead', [Next]_vars
  PROVE  Phases'
<1>. USE DEF ConnectionTypes, Phases, Links, Modules, ControlThreads, MessageThreads, Clients, Brokers,
             Observers, State, Topic, Connected, None, NoHeader, NoCounts, NoInstance, NoClient,
             NoObserver
<1>1. ASSUME NEW listed \in Configurations, Initialize(listed) PROVE Phases'
  BY <1>1 DEF Initialize, ModuleInitialized, Start, Event
<1>2. CASE Shutdown
  <2>1. app = "up" /\ app' = "stopping" /\ control.queue = <<>> /\ client.at = "idle"
        /\ client.net \in {"none", "up", "retrying"}
        /\ UNCHANGED <<module, listeners, client>>
    BY <1>2 DEF Shutdown, Settled
  <2>2. control'.queue = <<"disconnect">> /\ control'.at = "idle"
    BY <1>2, <2>1, ControlQueues DEF Shutdown
  <2>. QED
    BY <2>1, <2>2, ControlQueues
<1>3. CASE Observe
  BY <1>3 DEF Observe
<1>4. ASSUME NEW t \in Sends, Dispatch(t) PROVE Phases'
  BY <1>4 DEF Dispatch, Dispatched, Event
<1>5. CASE StopReturns
  BY <1>5 DEF StopReturns
<1>6. CASE DeinitializeHandler
  BY <1>6 DEF DeinitializeHandler
<1>7. CASE DeinitializeSubscribers
  BY <1>7 DEF DeinitializeSubscribers
<1>8. CASE DeinitializeClient
  BY <1>8 DEF DeinitializeClient
<1>9. CASE DeinitializeState
  BY <1>9 DEF DeinitializeState
<1>10. CASE DestroyInstance
  <2>1. app = "threads" /\ app' = "down" /\ control' = NoInstance /\ message' = NoInstance
        /\ observer' = NoObserver /\ UNCHANGED <<module, listeners, client>>
    BY <1>10 DEF DestroyInstance
  <2>. HIDE DEF NoObserver, Observers, MessageThreads
  <2>. QED
    BY <2>1
<1>11. CASE ControlUnheard
  <2>1. control.at = "idle" /\ control.queue # <<>> /\ "mqtt" \notin listeners
        /\ Controlled("idle", NoHeader)
        /\ UNCHANGED <<app, module, listeners, message, client, observer>>
    BY <1>11 DEF ControlUnheard
  <2>2. control'.at = "idle" /\ control'.queue = <<>> /\ app # "down"
    BY <2>1, ControlQueues DEF Controlled
  <2>. QED
    BY <2>1, <2>2
<1>12. CASE Connect
  <2>1. control.queue # <<>> /\ Head(control.queue) = "connect" /\ "mqtt" \in listeners
        /\ UNCHANGED <<app, module, listeners, message, observer>>
    BY <1>12 DEF Connect, Controls
  <2>2. app = "up" /\ client.net = "none" /\ module.state = "initialized" /\ control.queue = <<"connect">>
    BY <2>1, ControlQueues
  <2>3. client' = [client EXCEPT !.net = "connecting"] /\ control'.at = "idle"
        /\ control'.queue = <<>>
    BY <1>12, <2>2, ControlQueues DEF Connect, Controlled
  <2>. QED
    BY <2>1, <2>2, <2>3
<1>13. CASE DisconnectFails
  <2>1. control.queue # <<>> /\ Head(control.queue) = "disconnect" /\ "mqtt" \in listeners
        /\ module.state # "online" /\ control.at = "idle"
        /\ UNCHANGED <<app, listeners, message, client, observer>>
    BY <1>13 DEF DisconnectFails, Controls
  <2>2. app = "stopping" /\ control.queue = <<"disconnect">>
    BY <2>1, ControlQueues
  <2>3. control'.at = "ended" /\ control'.queue = <<>> /\ module'.client = module.client
    BY <1>13, <2>2, ControlQueues DEF DisconnectFails, Controlled, FillHeader
  <2>. QED
    BY <2>1, <2>2, <2>3
<1>14. CASE DisconnectFills
  BY <1>14 DEF DisconnectFills, FillHeader
<1>15. CASE DisconnectSends
  <2>1. control.at = "filled"
    BY <1>15 DEF DisconnectSends
  <2>2. /\ control' = [control EXCEPT !.at = IF module.state = "online" THEN "sent" ELSE "ended"]
        /\ broker' = IF module.state = "online" THEN Retained("OFFLINE", control.id) ELSE broker
        /\ UNCHANGED <<app, module, listeners, message, client, observer>>
    BY <1>15, Survivors
  <2>. QED
    BY <2>1, <2>2 DEF Retained, Received
<1>16. CASE DisconnectWaits
  <2>1. control.at = "sent"
    BY <1>16 DEF DisconnectWaits
  <2>2. /\ client' = [client EXCEPT !.net = "none"]
        /\ broker' = [broker EXCEPT !.session = FALSE]
        /\ control' = [control EXCEPT !.at = "left"]
        /\ UNCHANGED <<app, module, listeners, message, observer>>
    BY <1>16, Survivors
  <2>. QED
    BY <2>1, <2>2 DEF CanPublish
<1>17. CASE DisconnectTells
  BY <1>17 DEF DisconnectTells, Dispatched, Event
<1>18. CASE ConnectedSubscribes
  <2>1. client.at = "connected"
    BY <1>18 DEF ConnectedSubscribes
  <2>2. /\ client' = [client EXCEPT !.at = "subscribed"]
        /\ UNCHANGED <<app, module, listeners, control, message, broker, observer>>
    BY <1>18, Survivors
  <2>. QED
    BY <2>1, <2>2 DEF CanPublish
<1>19. CASE ConnectedOnline
  BY <1>19 DEF ConnectedOnline
<1>20. CASE ConnectedTells
  BY <1>20 DEF ConnectedTells, FillHeader, Dispatched, Event
<1>21. CASE ConnectedSends
  <2>1. client.at = "filled"
    BY <1>21 DEF ConnectedSends
  <2>2. /\ module.state = "online" /\ CanPublish
        /\ broker' = Retained("ONLINE", client.id)
        /\ client' = [client EXCEPT !.at = "idle", !.id = NoHeader]
        /\ UNCHANGED <<app, module, listeners, control, message, observer>>
    BY <1>21, Survivors
  <2>. QED
    BY <2>1, <2>2 DEF CanPublish, Retained, Received
<1>22. CASE LostTells
  BY <1>22 DEF LostTells, Changes, Dispatched, Event
<1>23. CASE LostOffline
  BY <1>23 DEF LostOffline
<1>24. ASSUME NEW net \in {"connecting", "retrying"}, Accept(net) PROVE Phases'
  BY <1>24 DEF Accept, Changes
<1>25. CASE Refuse
  BY <1>25 DEF Refuse, Changes, Dispatched, Event
<1>26. CASE SslError
  BY <1>26 DEF SslError, Changes
<1>27. CASE Break
  BY <1>27 DEF Break, Changes
<1>28. CASE BrokerNotices
  BY <1>28 DEF BrokerNotices, WillPublished
<1>29. ASSUME NEW kind \in Arrivals, Arrive(kind) PROVE Phases'
  <2>1. client.net = "up" /\ client.at = "idle"
    BY <1>29 DEF Arrive
  <2>2. UNCHANGED <<app, module, listeners, control, client, broker, observer>>
    BY <1>29, Survivors
  <2>. QED
    BY <2>1, <2>2 DEF Dispatched
<1>30. CASE SendFills
  BY <1>30 DEF SendFills, Handles, What, FillHeader
<1>31. CASE SendSends
  <2>1. message.at = "filled"
    BY <1>31 DEF SendSends
  <2>2. app # "down"
    BY <2>1
  <2>3. UNCHANGED <<app, module, listeners, control, client>>
    BY <1>31, Survivors
  <2>. QED
    BY <2>2, <2>3
<1>32. CASE SendUnheard
  BY <1>32 DEF SendUnheard, Handles, Done, Counted
<1>33. CASE HandleReceive
  BY <1>33 DEF HandleReceive, Handles, Done, Event
<1>34. CASE ValidationTimesOut
  BY <1>34 DEF ValidationTimesOut, Handles
<1>35. CASE HandleObserved
  BY <1>35 DEF HandleObserved, Handles, Done
<1>36. CASE UNCHANGED vars
  BY <1>36 DEF vars, What, LastTold
<1>37. CASE DisconnectReads
  <2>1. control.queue # <<>> /\ Head(control.queue) = "disconnect" /\ "mqtt" \in listeners
        /\ module.state = "online" /\ control.at = "idle"
        /\ UNCHANGED <<app, module, listeners, message, client, observer>>
    BY <1>37 DEF DisconnectReads, Controls
  <2>2. app = "stopping" /\ control.queue = <<"disconnect">>
    BY <2>1, ControlQueues
  <2>3. control'.at = "filling" /\ control'.queue = <<>>
    BY <1>37, <2>2, ControlQueues DEF DisconnectReads, Controlled
  <2>. QED
    BY <2>1, <2>2, <2>3
<1>38. CASE ConnectedFills
  BY <1>38 DEF ConnectedFills, FillHeader
<1>. QED
  BY <1>1, <1>2, <1>3, <1>4, <1>5, <1>6, <1>7, <1>8, <1>9, <1>10, <1>11, <1>12, <1>13, <1>14, <1>15,
     <1>16, <1>17, <1>18, <1>19, <1>20, <1>21, <1>22, <1>23, <1>24, <1>25, <1>26, <1>27, <1>28,
     <1>29, <1>30, <1>31, <1>32, <1>33, <1>34, <1>35, <1>36, <1>37, <1>38
     DEF Next, Application, Reset, Control, Callback, Network, Messages

\* Every step keeps what the module, the client and the broker know of each other.
LEMMA LinksNext ==
  ASSUME ConnectionTypes, ConnectionTypes', Phases, Links, Quiet, ~dead, ~dead', [Next]_vars
  PROVE  Links'
<1>. USE DEF ConnectionTypes, Phases, Links, Modules, ControlThreads, MessageThreads, Clients, Brokers,
             Observers, State, Topic, Connected, None, NoHeader, NoCounts, NoInstance, NoClient,
             NoObserver
<1>1. ASSUME NEW listed \in Configurations, Initialize(listed) PROVE Links'
  BY <1>1 DEF Initialize, ModuleInitialized, Start, Event
<1>2. CASE Shutdown
  BY <1>2 DEF Shutdown, Settled
<1>3. CASE Observe
  BY <1>3 DEF Observe
<1>4. ASSUME NEW t \in Sends, Dispatch(t) PROVE Links'
  BY <1>4 DEF Dispatch, Dispatched, Event
<1>5. CASE StopReturns
  BY <1>5 DEF StopReturns
<1>6. CASE DeinitializeHandler
  BY <1>6 DEF DeinitializeHandler
<1>7. CASE DeinitializeSubscribers
  BY <1>7 DEF DeinitializeSubscribers
<1>8. CASE DeinitializeClient
  BY <1>8 DEF DeinitializeClient
<1>9. CASE DeinitializeState
  BY <1>9 DEF DeinitializeState
<1>10. CASE DestroyInstance
  BY <1>10 DEF DestroyInstance
<1>11. CASE ControlUnheard
  BY <1>11 DEF ControlUnheard, Controlled
<1>12. CASE Connect
  <2>1. control.queue # <<>> /\ Head(control.queue) = "connect" /\ "mqtt" \in listeners
    BY <1>12 DEF Connect, Controls
  <2>2. app = "up" /\ client.net = "none" /\ client.at = "idle" /\ module.state = "initialized"
    BY <2>1, ControlQueues
  <2>3. client' = [client EXCEPT !.net = "connecting"] /\ control'.at = "idle"
        /\ UNCHANGED <<app, module, broker>>
    BY <1>12, <2>2 DEF Connect, Controlled
  <2>. QED
    BY <2>2, <2>3
<1>13. CASE DisconnectFails
  BY <1>13 DEF DisconnectFails, Controls, Controlled
<1>14. CASE DisconnectFills
  BY <1>14 DEF DisconnectFills, FillHeader
<1>15. CASE DisconnectSends
  <2>1. control.at = "filled"
    BY <1>15 DEF DisconnectSends
  <2>2. /\ control' = [control EXCEPT !.at = IF module.state = "online" THEN "sent" ELSE "ended"]
        /\ broker' = IF module.state = "online" THEN Retained("OFFLINE", control.id) ELSE broker
        /\ UNCHANGED <<app, module, listeners, message, client, observer>>
    BY <1>15, Survivors
  <2>. QED
    BY <2>1, <2>2 DEF Retained, Received
<1>16. CASE DisconnectWaits
  <2>1. control.at = "sent"
    BY <1>16 DEF DisconnectWaits
  <2>2. /\ client' = [client EXCEPT !.net = "none"]
        /\ broker' = [broker EXCEPT !.session = FALSE]
        /\ control' = [control EXCEPT !.at = "left"]
        /\ UNCHANGED <<app, module, listeners, message, observer>>
    BY <1>16, Survivors
  <2>. QED
    BY <2>1, <2>2 DEF CanPublish
<1>17. CASE DisconnectTells
  BY <1>17 DEF DisconnectTells, Dispatched, Event
<1>18. CASE ConnectedSubscribes
  <2>1. client.at = "connected"
    BY <1>18 DEF ConnectedSubscribes
  <2>2. /\ client' = [client EXCEPT !.at = "subscribed"]
        /\ UNCHANGED <<app, module, listeners, control, message, broker, observer>>
    BY <1>18, Survivors
  <2>. QED
    BY <2>1, <2>2 DEF CanPublish
<1>19. CASE ConnectedOnline
  BY <1>19 DEF ConnectedOnline
<1>20. CASE ConnectedTells
  BY <1>20 DEF ConnectedTells, FillHeader, Dispatched, Event
<1>21. CASE ConnectedSends
  <2>1. client.at = "filled"
    BY <1>21 DEF ConnectedSends
  <2>2. /\ module.state = "online" /\ CanPublish
        /\ broker' = Retained("ONLINE", client.id)
        /\ client' = [client EXCEPT !.at = "idle", !.id = NoHeader]
        /\ UNCHANGED <<app, module, listeners, control, message, observer>>
    BY <1>21, Survivors
  <2>. QED
    BY <2>1, <2>2 DEF CanPublish, Retained, Received
<1>22. CASE LostTells
  BY <1>22 DEF LostTells, Changes, Dispatched, Event
<1>23. CASE LostOffline
  BY <1>23 DEF LostOffline
<1>24. ASSUME NEW net \in {"connecting", "retrying"}, Accept(net) PROVE Links'
  <2>1. client.net = net /\ client.at = "idle" /\ UNCHANGED <<app, module, listeners, control, message, observer>>
    BY <1>24 DEF Accept
  <2>2. client'.net = "up" /\ client'.at = "connected" /\ broker'.session
    BY <1>24 DEF Accept
  <2>3. broker'.retained = IF broker.session THEN "CONNECTIONBROKEN" ELSE broker.retained
    BY <1>24 DEF Accept
  <2>4. module.state # "online"
    BY <2>1
  <2>. QED
    BY <2>1, <2>2, <2>3, <2>4
<1>25. CASE Refuse
  BY <1>25 DEF Refuse, Changes, Dispatched, Event
<1>26. CASE SslError
  BY <1>26 DEF SslError, Changes
<1>27. CASE Break
  BY <1>27 DEF Break, Changes
<1>28. CASE BrokerNotices
  BY <1>28 DEF BrokerNotices, WillPublished
<1>29. ASSUME NEW kind \in Arrivals, Arrive(kind) PROVE Links'
  <2>1. client.net = "up" /\ client.at = "idle"
    BY <1>29 DEF Arrive
  <2>2. UNCHANGED <<app, module, listeners, control, client, broker, observer>>
    BY <1>29, Survivors
  <2>. QED
    BY <2>1, <2>2 DEF Dispatched
<1>30. CASE SendFills
  BY <1>30 DEF SendFills, Handles, What, FillHeader
<1>31. CASE SendSends
  <2>1. message.at = "filled"
    BY <1>31 DEF SendSends
  <2>2. /\ broker' = IF module.state = "online" THEN Received(What, message.id) ELSE broker
        /\ message' = Done(Tail(message.queue)) /\ observer' = Counted(What)
        /\ UNCHANGED <<app, module, listeners, control, client>>
    BY <1>31, Survivors
  <2>. QED
    BY <2>1, <2>2 DEF Received, Done, Counted
<1>32. CASE SendUnheard
  BY <1>32 DEF SendUnheard, Handles, Done, Counted
<1>33. CASE HandleReceive
  BY <1>33 DEF HandleReceive, Handles, Done, Event
<1>34. CASE ValidationTimesOut
  BY <1>34 DEF ValidationTimesOut, Handles
<1>35. CASE HandleObserved
  BY <1>35 DEF HandleObserved, Handles, Done
<1>36. CASE UNCHANGED vars
  BY <1>36 DEF vars, What, LastTold
<1>37. CASE DisconnectReads
  BY <1>37 DEF DisconnectReads, Controls, Controlled
<1>38. CASE ConnectedFills
  BY <1>38 DEF ConnectedFills, FillHeader
<1>. QED
  BY <1>1, <1>2, <1>3, <1>4, <1>5, <1>6, <1>7, <1>8, <1>9, <1>10, <1>11, <1>12, <1>13, <1>14, <1>15,
     <1>16, <1>17, <1>18, <1>19, <1>20, <1>21, <1>22, <1>23, <1>24, <1>25, <1>26, <1>27, <1>28,
     <1>29, <1>30, <1>31, <1>32, <1>33, <1>34, <1>35, <1>36, <1>37, <1>38
     DEF Next, Application, Reset, Control, Callback, Network, Messages

-------------------------------------------------------------------------------
(* What the observers were told last *)

\* LastTold, of a queue and the status an observer has.
Says(q, heard, status) ==
  \/ heard = status /\ \A i \in DOMAIN q : q[i].name # "status"
  \/ \E i \in DOMAIN q : q[i] = Event("status", status) /\ \A j \in i+1 .. Len(q) : q[j].name # "status"

LEMMA LastToldSays ==
  ASSUME NEW s
  PROVE  /\ LastTold(s) <=> Says(message.queue, observer.status, s)
         /\ LastTold(s)' <=> Says(message'.queue, observer'.status, s)
  BY DEF LastTold, Says

LEMMA SaysAppend ==
  ASSUME NEW q \in Seq(Events), NEW e \in Events, NEW heard, NEW s, Says(Append(q, e), heard, s)
  PROVE  IF e.name = "status" THEN e = Event("status", s) ELSE Says(q, heard, s)
<1>. DEFINE p == Append(q, e)
<1>1. /\ Len(q) \in Nat /\ DOMAIN q = 1..Len(q) /\ Len(p) = Len(q) + 1 /\ DOMAIN p = 1..Len(q)+1
      /\ p[Len(q) + 1] = e /\ \A i \in 1..Len(q) : p[i] = q[i]
  OBVIOUS
<1>. HIDE DEF p
<1>2. Says(p, heard, s)
  BY DEF p
<1>3. CASE e.name = "status"
  <2>1. ~\A i \in DOMAIN p : p[i].name # "status"
    BY <1>1, <1>3
  <2>2. PICK i \in DOMAIN p : p[i] = Event("status", s) /\ \A j \in i+1 .. Len(p) : p[j].name # "status"
    BY <1>2, <2>1 DEF Says
  <2>3. i = Len(q) + 1
    BY <1>1, <1>3, <2>2
  <2>. QED
    BY <1>1, <1>3, <2>2, <2>3
<1>4. CASE e.name # "status"
  <2>1. CASE heard = s /\ \A i \in DOMAIN p : p[i].name # "status"
    <3>1. \A i \in DOMAIN q : q[i].name # "status"
      BY <1>1, <2>1
    <3>. QED
      BY <1>4, <2>1, <3>1 DEF Says
  <2>2. ASSUME NEW i \in DOMAIN p,
               p[i] = Event("status", s) /\ \A j \in i+1 .. Len(p) : p[j].name # "status"
        PROVE  Says(q, heard, s)
    <3>1. i # Len(q) + 1
      BY <1>1, <1>4, <2>2 DEF Event
    <3>2. i \in DOMAIN q /\ q[i] = Event("status", s)
      BY <1>1, <2>2, <3>1
    <3>3. \A j \in i+1 .. Len(q) : q[j].name # "status"
      BY <1>1, <2>2, <3>2
    <3>. QED
      BY <3>2, <3>3 DEF Says
  <2>. QED
    BY <1>2, <1>4, <2>1, <2>2 DEF Says
<1>. QED
  BY <1>3, <1>4

LEMMA SaysTail ==
  ASSUME NEW q \in Seq(Events), q # <<>>, NEW heard, NEW s, NEW h,
         Says(Tail(q), heard, s)
  PROVE  /\ Head(q).name # "status" => Says(q, heard, s)
         /\ Head(q) = Event("status", heard) => Says(q, h, s)
         /\ heard # s => Says(q, h, s)
<1>. DEFINE p == Tail(q)
<1>1. /\ Len(q) \in Nat \ {0} /\ DOMAIN q = 1..Len(q) /\ Len(p) = Len(q) - 1 /\ DOMAIN p = 1..Len(q)-1
      /\ q[1] = Head(q) /\ \A i \in 1..Len(q)-1 : p[i] = q[i + 1]
  OBVIOUS
<1>. HIDE DEF p
<1>2. Says(p, heard, s)
  BY DEF p
<1>3. ASSUME NEW i \in DOMAIN p,
             p[i] = Event("status", s) /\ \A j \in i+1 .. Len(p) : p[j].name # "status"
      PROVE  \A g : Says(q, g, s)
  <2>1. i + 1 \in DOMAIN q /\ q[i + 1] = Event("status", s)
    BY <1>1, <1>3
  <2>2. ASSUME NEW j \in (i + 1) + 1 .. Len(q) PROVE q[j].name # "status"
    <3>1. j - 1 \in i+1 .. Len(p) /\ p[j - 1] = q[j]
      BY <1>1
    <3>. QED
      BY <1>3, <3>1
  <2>. QED
    BY <2>1, <2>2 DEF Says
<1>4. ASSUME heard = s, \A i \in DOMAIN p : p[i].name # "status"
      PROVE  \A i \in 2 .. Len(q) : q[i].name # "status"
  <2>1. ASSUME NEW i \in 2 .. Len(q) PROVE q[i].name # "status"
    <3>1. i - 1 \in DOMAIN p /\ p[i - 1] = q[i]
      BY <1>1
    <3>. QED
      BY <1>4, <3>1
  <2>. QED
    BY <2>1
<1>5. ASSUME heard = s, \A i \in DOMAIN p : p[i].name # "status", Head(q).name # "status"
      PROVE  Says(q, heard, s)
  <2>1. \A i \in DOMAIN q : q[i].name # "status"
    BY <1>1, <1>4, <1>5
  <2>. QED
    BY <1>5, <2>1 DEF Says
<1>6. ASSUME heard = s, \A i \in DOMAIN p : p[i].name # "status", Head(q) = Event("status", heard)
      PROVE  Says(q, h, s)
  <2>1. 1 \in DOMAIN q /\ q[1] = Event("status", s) /\ \A j \in 1+1 .. Len(q) : q[j].name # "status"
    BY <1>1, <1>4, <1>6
  <2>. QED
    BY <2>1 DEF Says
<1>7. \/ heard = s /\ \A i \in DOMAIN p : p[i].name # "status"
      \/ \E i \in DOMAIN p : p[i] = Event("status", s) /\ \A j \in i+1 .. Len(p) : p[j].name # "status"
  BY <1>2 DEF Says
<1>. QED
  BY <1>3, <1>5, <1>6, <1>7

\* What the observers are told last, as the message thread goes on.
LEMMA ToldSame ==
  ASSUME message'.queue = message.queue, observer'.status = observer.status, NEW s
  PROVE  LastTold(s)' => LastTold(s)
  BY LastToldSays

LEMMA ToldDispatched ==
  ASSUME ConnectionTypes, NEW e \in Events, message' = Dispatched(e), observer'.status = observer.status, NEW s,
         LastTold(s)'
  PROVE  IF e.name = "status" THEN e = Event("status", s) ELSE LastTold(s)
<1>1. message.queue \in Seq(Events) /\ message'.queue = Append(message.queue, e)
  BY DEF ConnectionTypes, MessageThreads, Dispatched
<1>2. Says(Append(message.queue, e), observer.status, s)
  BY <1>1, LastToldSays
<1>. QED
  BY <1>1, <1>2, SaysAppend, LastToldSays

\* A step that tells the observers nothing leaves it at what they know.
LEMMA ToldKept ==
  ASSUME Told, UNCHANGED observer, message'.queue = message.queue,
         app' \notin {"threads", "down"} => app \notin {"threads", "down"},
         \A s \in {"online", "offline"} : app' \notin {"threads", "down"} /\ Known(s) => Known(s)'
  PROVE  Told'
  BY ToldSame DEF Told

\* What the observers were told last once an event has been handled.
LEMMA ToldHandled ==
  ASSUME ConnectionTypes, Told, message.queue # <<>>, observer' \in Observers,
         Head(message.queue).name = "status" =>
           observer'.status = IF observer.observes THEN What ELSE observer.status,
         Head(message.queue).name # "status" => observer'.status = observer.status,
         \/ message'.queue = Tail(message.queue)
         \/ \E e \in Events : e.name # "status" /\ message'.queue = Append(Tail(message.queue), e),
         NEW s \in {"online", "offline"}, LastTold(s)'
  PROVE  LastTold(s)
<1>. DEFINE q == message.queue
<1>1. q \in Seq(Events) /\ q # <<>> /\ Tail(q) \in Seq(Events) /\ Head(q) \in Events
  BY QueueTypes DEF ConnectionTypes, MessageThreads
<1>2. Says(message'.queue, observer'.status, s)
  BY LastToldSays
<1>3. Says(Tail(q), observer'.status, s)
  <2>1. CASE message'.queue = Tail(q)
    BY <1>2, <2>1
  <2>2. ASSUME NEW e \in Events, e.name # "status", message'.queue = Append(Tail(q), e)
        PROVE  Says(Tail(q), observer'.status, s)
    <3>1. Says(Append(Tail(q), e), observer'.status, s)
      BY <1>2, <2>2
    <3>. HIDE DEF q
    <3>. QED
      BY <1>1, <2>2, <3>1, SaysAppend
  <2>. QED
    BY <2>1, <2>2
<1>4. CASE Head(q).name # "status"
  <2>1. Says(q, observer'.status, s)
    BY <1>1, <1>3, <1>4, SaysTail
  <2>. QED
    BY <1>4, <2>1, LastToldSays
<1>5. CASE Head(q).name = "status" /\ observer.observes
  <2>1. observer'.status = What /\ Head(q) = Event("status", What)
    BY <1>1, <1>5 DEF Events, Event, What
  <2>2. Says(q, observer.status, s)
    BY <1>1, <1>3, <2>1, SaysTail
  <2>. QED
    BY <2>2, LastToldSays
<1>6. CASE Head(q).name = "status" /\ ~observer.observes
  <2>1. observer'.status = None /\ None # s
    BY <1>6 DEF Told, None
  <2>2. Says(q, observer.status, s)
    BY <1>1, <1>3, <2>1, SaysTail
  <2>. QED
    BY <2>2, LastToldSays
<1>. QED
  BY <1>4, <1>5, <1>6

\* Every step keeps what the observers know.
LEMMA ToldNext ==
  ASSUME ConnectionTypes, ConnectionTypes', Front, Phases, Links, Told, Quiet, ~dead, ~dead', [Next]_vars
  PROVE  Told'
<1>. USE DEF ConnectionTypes
<1>1. ASSUME NEW listed \in Configurations, Initialize(listed) PROVE Told'
  <2>1. message'.queue = <<Event("send", "state")>> /\ observer = NoObserver /\ observer' = observer
    BY <1>1 DEF Initialize, Start, MessageThreads, Phases
  <2>2. ~LastTold("online")' /\ ~LastTold("offline")'
    BY <2>1 DEF LastTold, Event, NoObserver, None
  <2>. QED
    BY <2>1, <2>2 DEF Told, NoObserver
<1>2. CASE Shutdown
  <2>1. UNCHANGED <<observer, message>> /\ (app' \notin {"threads", "down"} => app \notin {"threads", "down"})
    BY <1>2 DEF Shutdown, Settled
  <2>2. \A s \in {"online", "offline"} : app' \notin {"threads", "down"} /\ Known(s) => Known(s)'
    BY <1>2 DEF Shutdown, Settled, Known, Phases, Links, Modules, ControlThreads, Clients
  <2>. QED
    BY <2>1, <2>2, ToldKept
<1>3. CASE Observe
  <2>1. observer'.observes /\ observer'.status = observer.status
        /\ UNCHANGED <<app, module, control, message, client>>
    BY <1>3 DEF Observe, Observers
  <2>2. \A s \in {"online", "offline"} : LastTold(s)' => LastTold(s)
    BY <2>1, ToldSame
  <2>3. \A s \in {"online", "offline"} : Known(s) => Known(s)'
    BY <2>1 DEF Known
  <2>. QED
    BY <2>1, <2>2, <2>3 DEF Told
<1>4. ASSUME NEW t \in Sends, Dispatch(t) PROVE Told'
  <2>1. Event("send", t) \in Events /\ message' = Dispatched(Event("send", t))
        /\ UNCHANGED <<app, module, control, observer>> /\ client'.at = client.at
    BY <1>4, EventTypes, ConnectionAssumption DEF Dispatch, Clients
  <2>2. \A s \in {"online", "offline"} : LastTold(s)' => LastTold(s)
    BY <2>1, ToldDispatched DEF Event
  <2>3. \A s \in {"online", "offline"} : Known(s) => Known(s)'
    BY <2>1 DEF Known
  <2>. QED
    BY <2>1, <2>2, <2>3 DEF Told
<1>5. CASE StopReturns
  <2>1. UNCHANGED <<observer, message>> /\ (app' \notin {"threads", "down"} => app \notin {"threads", "down"})
    BY <1>5 DEF StopReturns
  <2>2. \A s \in {"online", "offline"} : app' \notin {"threads", "down"} /\ Known(s) => Known(s)'
    BY <1>5 DEF StopReturns, Known, Phases, Links, Modules, ControlThreads, Clients
  <2>. QED
    BY <2>1, <2>2, ToldKept
<1>6. CASE DeinitializeHandler
  <2>1. UNCHANGED <<observer, message>> /\ (app' \notin {"threads", "down"} => app \notin {"threads", "down"})
    BY <1>6 DEF DeinitializeHandler
  <2>2. \A s \in {"online", "offline"} : app' \notin {"threads", "down"} /\ Known(s) => Known(s)'
    BY <1>6 DEF DeinitializeHandler, Known, Phases, Links, Modules, ControlThreads, Clients
  <2>. QED
    BY <2>1, <2>2, ToldKept
<1>7. CASE DeinitializeSubscribers
  <2>1. UNCHANGED <<observer, message>> /\ (app' \notin {"threads", "down"} => app \notin {"threads", "down"})
    BY <1>7 DEF DeinitializeSubscribers
  <2>2. \A s \in {"online", "offline"} : app' \notin {"threads", "down"} /\ Known(s) => Known(s)'
    BY <1>7 DEF DeinitializeSubscribers, Known, Phases, Links, Modules, ControlThreads, Clients
  <2>. QED
    BY <2>1, <2>2, ToldKept
<1>8. CASE DeinitializeClient
  <2>1. UNCHANGED <<observer, message>> /\ (app' \notin {"threads", "down"} => app \notin {"threads", "down"})
    BY <1>8 DEF DeinitializeClient
  <2>2. \A s \in {"online", "offline"} : app' \notin {"threads", "down"} /\ Known(s) => Known(s)'
    BY <1>8 DEF DeinitializeClient, Known, Phases, Links, Modules, ControlThreads, Clients
  <2>. QED
    BY <2>1, <2>2, ToldKept
<1>9. CASE DeinitializeState
  <2>1. UNCHANGED <<observer, message>> /\ (app' \notin {"threads", "down"} => app \notin {"threads", "down"})
    BY <1>9 DEF DeinitializeState
  <2>2. \A s \in {"online", "offline"} : app' \notin {"threads", "down"} /\ Known(s) => Known(s)'
    BY <1>9 DEF DeinitializeState, Known, Phases, Links, Modules, ControlThreads, Clients
  <2>. QED
    BY <2>1, <2>2, ToldKept
<1>10. CASE DestroyInstance
  BY <1>10 DEF DestroyInstance, Told, NoObserver
<1>11. CASE ControlUnheard
  <2>1. UNCHANGED <<observer, message>> /\ (app' \notin {"threads", "down"} => app \notin {"threads", "down"})
    BY <1>11 DEF ControlUnheard, Controlled
  <2>2. \A s \in {"online", "offline"} : app' \notin {"threads", "down"} /\ Known(s) => Known(s)'
    BY <1>11 DEF ControlUnheard, Controlled, Known, Phases, Links, Modules, ControlThreads, Clients
  <2>. QED
    BY <2>1, <2>2, ToldKept
<1>12. CASE Connect
  <2>1. UNCHANGED <<observer, message>> /\ (app' \notin {"threads", "down"} => app \notin {"threads", "down"})
    BY <1>12 DEF Connect, Controls, Controlled
  <2>2. \A s \in {"online", "offline"} : app' \notin {"threads", "down"} /\ Known(s) => Known(s)'
    BY <1>12 DEF Connect, Controls, Controlled, Known, Phases, Links, Modules, ControlThreads,
       Clients
  <2>. QED
    BY <2>1, <2>2, ToldKept
<1>13. CASE DisconnectFails
  <2>1. UNCHANGED <<observer, message>> /\ (app' \notin {"threads", "down"} => app \notin {"threads", "down"})
    BY <1>13 DEF DisconnectFails, Controls, Controlled
  <2>2. \A s \in {"online", "offline"} : app' \notin {"threads", "down"} /\ Known(s) => Known(s)'
    BY <1>13 DEF DisconnectFails, Controls, Controlled, Known, Phases, Links, Modules,
       ControlThreads, Clients
  <2>. QED
    BY <2>1, <2>2, ToldKept
<1>14. CASE DisconnectFills
  <2>1. UNCHANGED <<observer, message>> /\ (app' \notin {"threads", "down"} => app \notin {"threads", "down"})
    BY <1>14 DEF DisconnectFills, Controls, Controlled, FillHeader
  <2>2. \A s \in {"online", "offline"} : app' \notin {"threads", "down"} /\ Known(s) => Known(s)'
    BY <1>14 DEF DisconnectFills, Controls, Controlled, FillHeader, Known, Phases, Links, Modules,
       ControlThreads, Clients
  <2>. QED
    BY <2>1, <2>2, ToldKept
<1>15. CASE DisconnectSends
  <2>1. control.at = "filled"
    BY <1>15 DEF DisconnectSends
  <2>2. UNCHANGED <<observer, message, app, module>> /\ control'.at # "left" /\ UNCHANGED client
    BY <1>15, Survivors DEF ControlThreads, Clients
  <2>3. app \notin {"threads", "down"}
    BY <2>1 DEF Phases
  <2>4. \A s \in {"online", "offline"} : Known(s) => Known(s)'
    BY <2>1, <2>2 DEF Known, Phases, Links
  <2>. QED
    BY <2>2, <2>3, <2>4, ToldKept
<1>16. CASE DisconnectWaits
  <2>1. control.at = "sent"
    BY <1>16 DEF DisconnectWaits
  <2>2. UNCHANGED <<observer, message, app, module>> /\ control'.at = "left" /\ client'.at = client.at
    BY <1>16, Survivors DEF ControlThreads, Clients
  <2>3. app \notin {"threads", "down"}
    BY <2>1 DEF Phases
  <2>4. \A s \in {"online", "offline"} : Known(s) => Known(s)'
    BY <2>1, <2>2 DEF Known, Phases, Links
  <2>. QED
    BY <2>2, <2>3, <2>4, ToldKept
<1>17. CASE DisconnectTells
  <2>1. Event("status", "offline") \in Events /\ message' = Dispatched(Event("status", "offline")) /\ UNCHANGED <<app, observer>>
    BY <1>17, EventTypes DEF DisconnectTells
  <2>2. \A s \in {"online", "offline"} : LastTold(s)' => s = "offline"
    BY <2>1, ToldDispatched DEF Event
  <2>3. Known("offline")'
    BY <1>17 DEF DisconnectTells, Known, Phases, Links, Modules, ControlThreads, Clients, FillHeader
  <2>. QED
    BY <2>1, <2>2, <2>3 DEF Told
<1>18. CASE ConnectedSubscribes
  <2>1. client.at = "connected"
    BY <1>18 DEF ConnectedSubscribes
  <2>2. UNCHANGED <<observer, message, app, module>> /\ client'.at = "subscribed" /\ UNCHANGED control
    BY <1>18, Survivors DEF ControlThreads, Clients
  <2>3. app \notin {"threads", "down"}
    BY <2>1 DEF Phases
  <2>4. \A s \in {"online", "offline"} : Known(s) => Known(s)'
    BY <2>1, <2>2 DEF Known, Phases, Links
  <2>. QED
    BY <2>2, <2>3, <2>4, ToldKept
<1>19. CASE ConnectedOnline
  <2>1. UNCHANGED <<observer, message>> /\ (app' \notin {"threads", "down"} => app \notin {"threads", "down"})
    BY <1>19 DEF ConnectedOnline
  <2>2. \A s \in {"online", "offline"} : app' \notin {"threads", "down"} /\ Known(s) => Known(s)'
    BY <1>19 DEF ConnectedOnline, Known, Phases, Links, Modules, ControlThreads, Clients
  <2>. QED
    BY <2>1, <2>2, ToldKept
<1>20. CASE ConnectedTells
  <2>1. Event("status", "online") \in Events /\ message' = Dispatched(Event("status", "online")) /\ UNCHANGED <<app, observer>>
    BY <1>20, EventTypes DEF ConnectedTells
  <2>2. \A s \in {"online", "offline"} : LastTold(s)' => s = "online"
    BY <2>1, ToldDispatched DEF Event
  <2>3. Known("online")'
    BY <1>20 DEF ConnectedTells, Known, Phases, Links, Modules, ControlThreads, Clients, FillHeader
  <2>. QED
    BY <2>1, <2>2, <2>3 DEF Told
<1>21. CASE ConnectedSends
  <2>1. client.at = "filled"
    BY <1>21 DEF ConnectedSends
  <2>2. UNCHANGED <<observer, message, app, module>> /\ client'.at = "idle" /\ UNCHANGED control
    BY <1>21, Survivors DEF ControlThreads, Clients
  <2>3. app \notin {"threads", "down"}
    BY <2>1 DEF Phases
  <2>4. \A s \in {"online", "offline"} : Known(s) => Known(s)'
    BY <2>1, <2>2 DEF Known, Phases, Links
  <2>. QED
    BY <2>2, <2>3, <2>4, ToldKept
<1>22. CASE LostTells
  <2>1. Event("status", "offline") \in Events /\ UNCHANGED <<app, module, control, observer>>
        /\ client'.at = "lost" /\ client.at = "idle" /\ app = "up"
    BY <1>22, EventTypes DEF LostTells, Changes, Clients, Phases
  <2>2. \A s \in {"online", "offline"} : LastTold(s)' => s = "offline"
    <3>1. CASE module.state = "online"
      <4>1. message' = Dispatched(Event("status", "offline"))
        BY <1>22, <3>1 DEF LostTells
      <4>. QED
        BY <2>1, <4>1, ToldDispatched DEF Event
    <3>2. CASE module.state # "online"
      <4>1. message' = message
        BY <1>22, <3>2 DEF LostTells
      <4>2. \A s \in {"online", "offline"} : LastTold(s)' => Known(s)
        BY <2>1, <4>1, ToldSame DEF Told
      <4>. QED
        BY <2>1, <3>2, <4>2 DEF Known, Phases
    <3>. QED
      BY <3>1, <3>2
  <2>3. Known("offline")'
    BY <2>1 DEF Known, Phases
  <2>. QED
    BY <2>1, <2>2, <2>3 DEF Told
<1>23. CASE LostOffline
  <2>1. UNCHANGED <<observer, message>> /\ (app' \notin {"threads", "down"} => app \notin {"threads", "down"})
    BY <1>23 DEF LostOffline
  <2>2. \A s \in {"online", "offline"} : app' \notin {"threads", "down"} /\ Known(s) => Known(s)'
    BY <1>23 DEF LostOffline, Known, Phases, Links, Modules, ControlThreads, Clients
  <2>. QED
    BY <2>1, <2>2, ToldKept
<1>24. ASSUME NEW net \in {"connecting", "retrying"}, Accept(net) PROVE Told'
  <2>1. UNCHANGED <<observer, message>> /\ (app' \notin {"threads", "down"} => app \notin {"threads", "down"})
    BY <1>24 DEF Accept, Changes
  <2>2. \A s \in {"online", "offline"} : app' \notin {"threads", "down"} /\ Known(s) => Known(s)'
    BY <1>24 DEF Accept, Changes, Known, Phases, Links, Modules, ControlThreads, Clients
  <2>. QED
    BY <2>1, <2>2, ToldKept
<1>25. CASE Refuse
  <2>1. Event("error", "delivery") \in Events /\ message' = Dispatched(Event("error", "delivery"))
        /\ UNCHANGED <<app, module, control, observer>> /\ client'.at = client.at
    BY <1>25, EventTypes, ConnectionAssumption DEF Refuse, Clients
  <2>2. \A s \in {"online", "offline"} : LastTold(s)' => LastTold(s)
    BY <2>1, ToldDispatched DEF Event
  <2>3. \A s \in {"online", "offline"} : Known(s) => Known(s)'
    BY <2>1 DEF Known
  <2>. QED
    BY <2>1, <2>2, <2>3 DEF Told
<1>26. CASE SslError
  <2>1. UNCHANGED <<observer, message>> /\ (app' \notin {"threads", "down"} => app \notin {"threads", "down"})
    BY <1>26 DEF SslError, Changes
  <2>2. \A s \in {"online", "offline"} : app' \notin {"threads", "down"} /\ Known(s) => Known(s)'
    BY <1>26 DEF SslError, Changes, Known, Phases, Links, Modules, ControlThreads, Clients
  <2>. QED
    BY <2>1, <2>2, ToldKept
<1>27. CASE Break
  <2>1. UNCHANGED <<observer, message>> /\ (app' \notin {"threads", "down"} => app \notin {"threads", "down"})
    BY <1>27 DEF Break, Changes
  <2>2. \A s \in {"online", "offline"} : app' \notin {"threads", "down"} /\ Known(s) => Known(s)'
    BY <1>27 DEF Break, Changes, Known, Phases, Links, Modules, ControlThreads, Clients
  <2>. QED
    BY <2>1, <2>2, ToldKept
<1>28. CASE BrokerNotices
  <2>1. UNCHANGED <<observer, message>> /\ (app' \notin {"threads", "down"} => app \notin {"threads", "down"})
    BY <1>28 DEF BrokerNotices, WillPublished
  <2>2. \A s \in {"online", "offline"} : app' \notin {"threads", "down"} /\ Known(s) => Known(s)'
    BY <1>28 DEF BrokerNotices, WillPublished, Known, Phases, Links, Modules, ControlThreads,
       Clients
  <2>. QED
    BY <2>1, <2>2, ToldKept
<1>29. ASSUME NEW kind \in Arrivals, Arrive(kind) PROVE Told'
  <2>1. PICK e \in Events : e.name # "status" /\ message' = Dispatched(e)
    BY <1>29, Survivors, EventTypes, ConnectionAssumption DEF Event
  <2>2. UNCHANGED <<app, module, control, observer, client>>
    BY <1>29, Survivors
  <2>3. \A s \in {"online", "offline"} : LastTold(s)' => LastTold(s)
    BY <2>1, <2>2, ToldDispatched
  <2>4. \A s \in {"online", "offline"} : Known(s) => Known(s)'
    BY <2>2 DEF Known
  <2>. QED
    BY <2>2, <2>3, <2>4 DEF Told
<1>30. CASE SendFills
  <2>1. UNCHANGED <<app, observer, control, client>> /\ message'.queue = message.queue
        /\ module'.state = module.state
    BY <1>30 DEF SendFills, MessageThreads, FillHeader, Modules
  <2>2. \A s \in {"online", "offline"} : Known(s) => Known(s)'
    BY <2>1 DEF Known
  <2>. QED
    BY <2>1, <2>2, ToldKept
<1>31. CASE SendSends
  <2>1. message'.queue = Tail(message.queue) /\ observer' = Counted(What)
        /\ UNCHANGED <<app, module, control, client>>
    BY <1>31, Survivors DEF Done, MessageThreads
  <2>2. message.queue # <<>> /\ Head(message.queue).name = "send"
    BY <1>31 DEF SendSends, Front
  <2>3. observer'.status = observer.status /\ observer'.observes = observer.observes
    BY <2>1 DEF Counted, Observers
  <2>8. \A s \in {"online", "offline"} : LastTold(s)' => LastTold(s)
    BY <2>1, <2>2, <2>3, ToldHandled
  <2>9. \A s \in {"online", "offline"} : Known(s) => Known(s)'
    BY <2>1 DEF Known
  <2>. QED
    BY <2>1, <2>3, <2>8, <2>9 DEF Told
<1>32. CASE SendUnheard
  <2>1. message'.queue = Tail(message.queue) /\ observer' = Counted(What)
        /\ UNCHANGED <<app, module, control, client>>
    BY <1>32 DEF SendUnheard, Done, MessageThreads
  <2>2. message.queue # <<>> /\ Head(message.queue).name = "send"
    BY <1>32 DEF SendUnheard, Handles
  <2>3. observer'.status = observer.status /\ observer'.observes = observer.observes
    BY <2>1 DEF Counted, Observers
  <2>8. \A s \in {"online", "offline"} : LastTold(s)' => LastTold(s)
    BY <2>1, <2>2, <2>3, ToldHandled
  <2>9. \A s \in {"online", "offline"} : Known(s) => Known(s)'
    BY <2>1 DEF Known
  <2>. QED
    BY <2>1, <2>3, <2>8, <2>9 DEF Told
<1>33. CASE HandleReceive
  <2>1. UNCHANGED <<app, module, control, client, observer>>
    BY <1>33 DEF HandleReceive
  <2>2. message.queue # <<>> /\ Head(message.queue).name = "receive"
    BY <1>33 DEF HandleReceive, Handles
  <2>3. Event("valid", What) \in Events /\ Event("valid", What).name # "status"
    BY <2>2, FrontTypes, EventTypes DEF Event
  <2>4. \/ message'.queue = Tail(message.queue)
        \/ message'.queue = Append(Tail(message.queue), Event("valid", What))
    BY <1>33 DEF HandleReceive, Done, MessageThreads
  <2>8. \A s \in {"online", "offline"} : LastTold(s)' => LastTold(s)
    BY <2>1, <2>2, <2>3, <2>4, ToldHandled
  <2>9. \A s \in {"online", "offline"} : Known(s) => Known(s)'
    BY <2>1 DEF Known
  <2>. QED
    BY <2>1, <2>8, <2>9 DEF Told
<1>34. CASE ValidationTimesOut
  <2>1. UNCHANGED <<app, observer, control, client, module>> /\ message'.queue = message.queue
    BY <1>34 DEF ValidationTimesOut, MessageThreads
  <2>2. \A s \in {"online", "offline"} : Known(s) => Known(s)'
    BY <2>1 DEF Known
  <2>. QED
    BY <2>1, <2>2, ToldKept
<1>35. CASE HandleObserved
  <2>1. message'.queue = Tail(message.queue) /\ message.queue # <<>>
        /\ UNCHANGED <<app, module, control, client>>
    BY <1>35 DEF HandleObserved, Handles, Done, MessageThreads
  <2>2. /\ Head(message.queue).name = "status" =>
             observer'.status = IF observer.observes THEN What ELSE observer.status
        /\ Head(message.queue).name # "status" => observer'.status = observer.status
        /\ observer'.observes = observer.observes
    BY <1>35 DEF HandleObserved, Handles, Observers
  <2>3. ~observer'.observes => observer'.status = None
    BY <2>2 DEF Told
  <2>8. \A s \in {"online", "offline"} : LastTold(s)' => LastTold(s)
    BY <2>1, <2>2, ToldHandled
  <2>9. \A s \in {"online", "offline"} : Known(s) => Known(s)'
    BY <2>1 DEF Known
  <2>. QED
    BY <2>1, <2>2, <2>3, <2>8, <2>9 DEF Told
<1>36. CASE UNCHANGED vars
  <2>1. UNCHANGED <<app, module, control, message, client, observer>>
    BY <1>36 DEF vars
  <2>2. \A s \in {"online", "offline"} : Known(s) => Known(s)'
    BY <2>1 DEF Known
  <2>. QED
    BY <2>1, <2>2, ToldKept
<1>37. CASE DisconnectReads
  <2>1. UNCHANGED <<observer, message>> /\ (app' \notin {"threads", "down"} => app \notin {"threads", "down"})
    BY <1>37 DEF DisconnectReads
  <2>2. \A s \in {"online", "offline"} : app' \notin {"threads", "down"} /\ Known(s) => Known(s)'
    BY <1>37 DEF DisconnectReads, Controls, Controlled, Known
  <2>. QED
    BY <2>1, <2>2, ToldKept
<1>38. CASE ConnectedFills
  <2>1. UNCHANGED <<observer, message>> /\ (app' \notin {"threads", "down"} => app \notin {"threads", "down"})
    BY <1>38 DEF ConnectedFills
  <2>2. \A s \in {"online", "offline"} : app' \notin {"threads", "down"} /\ Known(s) => Known(s)'
    BY <1>38 DEF ConnectedFills, FillHeader, Known, Modules, ControlThreads, Clients
  <2>. QED
    BY <2>1, <2>2, ToldKept
<1>. QED
  BY <1>1, <1>2, <1>3, <1>4, <1>5, <1>6, <1>7, <1>8, <1>9, <1>10, <1>11, <1>12, <1>13, <1>14, <1>15,
     <1>16, <1>17, <1>18, <1>19, <1>20, <1>21, <1>22, <1>23, <1>24, <1>25, <1>26, <1>27, <1>28,
     <1>29, <1>30, <1>31, <1>32, <1>33, <1>34, <1>35, <1>36, <1>37, <1>38
     DEF Next, Application, Reset, Control, Callback, Network, Messages

\* A process that has ended stays ended.
LEMMA DeadStays ==
  ASSUME dead, [Next]_vars
  PROVE  dead'
  BY DEF Next, Application, Reset, Control, Callback, Network, Messages, vars, Accept, Arrive,
     Break, BrokerNotices, Connect, ConnectedOnline, ConnectedSends,
         ConnectedSubscribes, ConnectedTells, ControlUnheard, DeinitializeClient,
         DeinitializeHandler, DeinitializeState, DeinitializeSubscribers, DestroyInstance,
         DisconnectFails, DisconnectReads, DisconnectFills, DisconnectSends, DisconnectTells,
         DisconnectWaits, ConnectedFills, Dispatch, HandleObserved, HandleReceive, Initialize,
         LostOffline, LostTells, Observe, Refuse, SendFills, SendSends, SendUnheard,
         Shutdown, SslError, StopReturns, ValidationTimesOut, Controls, Handles

-------------------------------------------------------------------------------
(* The inductive invariant and what follows from it *)

LEMMA InvInit == Init => Inv
<1>. SUFFICES ASSUME Init PROVE Inv
  OBVIOUS
<1>1. Front /\ Phases /\ Links
  BY DEF Init, Front, Phases, Links, NoInstance, NoClient, None, NoCounts
<1>2. Told
  BY DEF Init, Told, NoObserver
<1>. QED
  BY <1>1, <1>2, TypeInit DEF Inv

LEMMA InvNext ==
  ASSUME Quiet, Inv, [Next]_vars
  PROVE  Inv'
<1>1. ConnectionTypes' /\ Front'
  BY TypeNext, FrontNext DEF Inv
<1>2. CASE dead
  <2>1. dead'
    BY <1>2, DeadStays
  <2>. QED
    BY <1>1, <2>1 DEF Inv
<1>3. CASE ~dead /\ ~dead'
  BY <1>1, <1>3, PhasesNext, LinksNext, ToldNext DEF Inv
<1>4. CASE dead'
  BY <1>1, <1>4 DEF Inv
<1>. QED
  BY <1>2, <1>3, <1>4

\* No run after one that is not quiet is.
LEMMA QuietBefore ==
  ASSUME ConnectionTypes, Quiet', [Next]_vars
  PROVE  Quiet
<1>1. left'.runs = left.runs \/ left'.runs = left.runs - 1
  BY DEF ConnectionTypes, Lefts, Next, Application, Reset, Control, Callback, Network,
     Messages, vars, Accept, Arrive, Dies,
     Break, BrokerNotices, Connect, ConnectedOnline, ConnectedSends, ConnectedFills,
     ConnectedSubscribes, ConnectedTells, ControlUnheard, DeinitializeClient,
     DeinitializeHandler, DeinitializeState, DeinitializeSubscribers, DestroyInstance,
     DisconnectFails, DisconnectReads, DisconnectFills, DisconnectSends, DisconnectTells,
     DisconnectWaits, Dispatch, HandleObserved, HandleReceive, Initialize,
     LostOffline, LostTells, Observe, Refuse, SendFills, SendSends, SendUnheard,
     Shutdown, SslError, StopReturns, ValidationTimesOut
<1>2. {left.runs, MaxRuns, QuietRuns} \subseteq Int
  BY ConnectionAssumption DEF ConnectionTypes, Lefts
<1>. QED
  BY <1>1, <1>2 DEF Quiet

\* What the proofs below rest on, in the runs that are quiet.
Settles == ConnectionTypes /\ Front /\ (Quiet => Inv)

LEMMA SettlesAlways == Spec => []Settles
<1>1. Init => Settles
  BY InvInit DEF Inv, Settles
<1>2. Settles /\ [Next]_vars => Settles'
  BY TypeNext, FrontNext, QuietBefore, InvNext DEF Settles
<1>. QED
  BY <1>1, <1>2, PTL DEF Spec

\* As long as the application shuts down in quiet moments, the observers' last word on the
\* connection is the state of the module, whichever thread changes it.
THEOREM ObserversAlwaysKnow == Spec => []ObserversKnow
<1>1. Settles => ObserversKnow
  BY DEF Settles, Inv, Told, Known, ObserversKnow, Calm
<1>. QED
  BY <1>1, SettlesAlways, PTL

\* As long as the application shuts down in quiet moments, the broker retains ONLINE just
\* as long as the client is connected.
THEOREM RetainedAlwaysTrue == Spec => []RetainedIsTrue
<1>1. Settles => RetainedIsTrue
  BY DEF Settles, Inv, Phases, Links, RetainedIsTrue, Calm
<1>. QED
  BY <1>1, SettlesAlways, PTL

-------------------------------------------------------------------------------
(* The header ids, whether the application shuts down in a quiet moment or not *)

\* How far a run is, whenever and in the middle of whatever it is shut down.
Life ==
  /\ app \in {"client", "callback", "threads", "down"} => "mqtt" \notin listeners
  /\ app \in {"callback", "threads", "down"} => client.net = "none"
  /\ app \in {"threads", "down"} => client.at = "idle"
  /\ app = "down" => control = NoInstance /\ message = NoInstance
  /\ \A i \in DOMAIN control.queue :
       control.queue[i] = "disconnect" => app # "up" /\ i = Len(control.queue)
  /\ app = "up" => control.id = NoHeader
  /\ control.id # NoHeader => control.queue = <<>>
  /\ control.at \in {"filling", "filled"} => control.id # NoHeader

\* What the message thread has filled is on its way, and is news to the broker.
Sending ==
  /\ \A t \in Topic : t # "connection" => broker.got[t] < module.seq[t]
  /\ message.at = "filled" =>
       broker.got[What] < message.id /\ message.id < module.seq[What]

\* So is what the client has filled, as long as disconnect has not read an id.
Connecting ==
  app # "down" /\ control.id = NoHeader =>
    /\ broker.got["connection"] < module.seq["connection"]
    /\ client.at = "filling" => client.id = module.seq["connection"]
    /\ client.at = "filled" =>
         broker.got["connection"] < client.id /\ module.seq["connection"] = client.id + 1

\* After that the two may undo each other's counting, but not what was counted before.
Overtaken ==
  control.id # NoHeader =>
    /\ control.id <= module.seq["connection"]
    /\ client.at \in {"filling", "filled"} => control.id - 1 <= client.id

Headers == Sending /\ Connecting /\ Overtaken

\* The same, whether the moment is quiet or not.
Counts == ConnectionTypes /\ Front /\ (~dead => Life /\ Headers)

\* In a quiet moment the message of disconnect is news to the broker, too.
Parting == control.at \in {"filling", "filled"} => broker.got["connection"] < control.id

LEMMA LifeInit == Init => Life /\ Headers
  BY EventTypes DEF Init, Life, Headers, Sending, Connecting, Overtaken, NoInstance, NoClient,
     NoCounts,
     NoHeader

\* A disconnect is the last the control event thread is asked for.
LastAsked(q) == \A i \in DOMAIN q : q[i] = "disconnect" => i = Len(q)

LEMMA LastTaken ==
  ASSUME NEW S, NEW q \in Seq(S), q # <<>>, LastAsked(q)
  PROVE  /\ Tail(q) \in Seq(S) /\ LastAsked(Tail(q)) /\ (Head(q) = "disconnect" => Tail(q) = <<>>)
         /\ \A i \in DOMAIN Tail(q) : \E j \in DOMAIN q : Tail(q)[i] = q[j]
<1>1. /\ Len(q) \in Nat \ {0} /\ DOMAIN q = 1..Len(q) /\ Head(q) = q[1] /\ Tail(q) \in Seq(S)
      /\ Len(Tail(q)) = Len(q) - 1 /\ DOMAIN Tail(q) = 1..Len(q)-1
      /\ \A i \in 1..Len(q)-1 : Tail(q)[i] = q[i + 1]
  OBVIOUS
<1>2. LastAsked(Tail(q))
  BY <1>1 DEF LastAsked
<1>3. Head(q) = "disconnect" => Len(q) = 1
  BY <1>1 DEF LastAsked
<1>4. Len(q) = 1 => Tail(q) = <<>>
  BY <1>1
<1>5. ASSUME NEW i \in DOMAIN Tail(q) PROVE \E j \in DOMAIN q : Tail(q)[i] = q[j]
  <2>1. i + 1 \in DOMAIN q /\ Tail(q)[i] = q[i + 1]
    BY <1>1
  <2>. QED
    BY <2>1
<1>. QED
  BY <1>1, <1>2, <1>3, <1>4, <1>5

LEMMA LastAppended ==
  ASSUME NEW S, NEW q \in Seq(S), "disconnect" \in S, \A i \in DOMAIN q : q[i] # "disconnect"
  PROVE  LastAsked(Append(q, "disconnect"))
<1>1. /\ Len(q) \in Nat /\ DOMAIN q = 1..Len(q) /\ Len(Append(q, "disconnect")) = Len(q) + 1
      /\ DOMAIN Append(q, "disconnect") = 1..Len(q)+1
      /\ \A i \in 1..Len(q) : Append(q, "disconnect")[i] = q[i]
  OBVIOUS
<1>. QED
  BY <1>1 DEF LastAsked

\* The control event thread takes the event at the front of its queue.
LEMMA ControlledLife ==
  ASSUME ConnectionTypes, Life, control.queue # <<>>, NEW p, NEW i, Controlled(p, i)
  PROVE  /\ control'.at = p /\ control'.id = i /\ control.id = NoHeader /\ app # "down"
         /\ LastAsked(control'.queue)
         /\ app = "up" => \A k \in DOMAIN control'.queue : control'.queue[k] # "disconnect"
         /\ Head(control.queue) = "disconnect" => control'.queue = <<>> /\ app # "up"
<1>. DEFINE q == control.queue
<1>1. q \in Seq({"connect", "disconnect"}) /\ q # <<>> /\ LastAsked(q)
  BY DEF Life, LastAsked, ConnectionTypes, ControlThreads
<1>2. control'.queue = Tail(q) /\ control'.at = p /\ control'.id = i /\ control.id = NoHeader
      /\ app # "down"
  BY DEF Controlled, Life, NoInstance
<1>3. app = "up" => \A k \in DOMAIN q : q[k] # "disconnect"
  BY DEF Life
<1>4. Head(q) = "disconnect" => app # "up"
  <2>1. 1 \in DOMAIN q /\ Head(q) = q[1]
    BY <1>1
  <2>. QED
    BY <1>3, <2>1
<1>. HIDE DEF q
<1>. QED
  BY <1>1, <1>2, <1>3, <1>4, LastTaken DEF q

\* Where a run is after each step.
LEMMA LifeNext ==
  ASSUME ConnectionTypes, Life, ~dead, ~dead', [Next]_vars
  PROVE  Life'
<1>. USE DEF ConnectionTypes, Life, ControlThreads, MessageThreads, Clients, NoInstance
<1>1. ASSUME NEW listed \in Configurations, Initialize(listed) PROVE Life'
  <2>1. app' = "up" /\ control'.queue = <<"connect">> /\ control'.at = "idle" /\ control'.id = NoHeader
    BY <1>1 DEF Initialize, Start
  <2>2. \A i \in DOMAIN <<"connect">> : <<"connect">>[i] = "connect"
    OBVIOUS
  <2>. QED
    BY <2>1, <2>2
<1>2. CASE Shutdown
  <2>1. app = "up" /\ app' = "stopping" /\ control'.id = NoHeader /\ control'.at = control.at
        /\ control'.queue = Append(control.queue, "disconnect") /\ UNCHANGED client
    BY <1>2 DEF Shutdown
  <2>2. LastAsked(control'.queue)
    BY <2>1, LastAppended
  <2>. QED
    BY <2>1, <2>2 DEF LastAsked
<1>3. CASE Observe
  BY <1>3 DEF Observe
<1>4. ASSUME NEW t \in Sends, Dispatch(t) PROVE Life'
  BY <1>4 DEF Dispatch
<1>5. CASE StopReturns
  BY <1>5 DEF StopReturns
<1>6. CASE DeinitializeHandler
  BY <1>6 DEF DeinitializeHandler
<1>7. CASE DeinitializeSubscribers
  BY <1>7 DEF DeinitializeSubscribers
<1>8. CASE DeinitializeClient
  BY <1>8 DEF DeinitializeClient
<1>9. CASE DeinitializeState
  BY <1>9 DEF DeinitializeState
<1>10. CASE DestroyInstance
  BY <1>10 DEF DestroyInstance
<1>11. CASE ControlUnheard
  <2>1. control.queue # <<>> /\ Controlled("idle", NoHeader) /\ UNCHANGED <<app, listeners, client>>
    BY <1>11 DEF ControlUnheard, Controls
  <2>2. /\ control'.at = "idle" /\ control'.id = NoHeader /\ app # "down"
        /\ LastAsked(control'.queue)
        /\ app = "up" => \A k \in DOMAIN control'.queue : control'.queue[k] # "disconnect"
    BY <2>1, ControlledLife
  <2>. QED
    BY <2>1, <2>2 DEF LastAsked
<1>12. CASE Connect
  <2>1. control.queue # <<>> /\ "mqtt" \in listeners /\ client'.at = client.at
        /\ (\E p \in {"idle", "ended"} : Controlled(p, NoHeader)) /\ UNCHANGED <<app, listeners>>
    BY <1>12 DEF Connect, Controls
  <2>2. /\ control'.at \in {"idle", "ended"} /\ control'.id = NoHeader /\ app # "down"
        /\ LastAsked(control'.queue)
        /\ app = "up" => \A k \in DOMAIN control'.queue : control'.queue[k] # "disconnect"
    BY <2>1, ControlledLife
  <2>. QED
    BY <2>1, <2>2 DEF LastAsked
<1>13. CASE DisconnectFails
  <2>1. control.queue # <<>> /\ Controlled("ended", NoHeader) /\ UNCHANGED <<app, listeners, client>>
    BY <1>13 DEF DisconnectFails, Controls
  <2>2. /\ control'.at = "ended" /\ control'.id = NoHeader /\ app # "down"
        /\ LastAsked(control'.queue)
        /\ app = "up" => \A k \in DOMAIN control'.queue : control'.queue[k] # "disconnect"
    BY <2>1, ControlledLife
  <2>. QED
    BY <2>1, <2>2 DEF LastAsked
<1>14. CASE DisconnectFills
  BY <1>14 DEF DisconnectFills
<1>15. CASE DisconnectSends
  BY <1>15, Survivors DEF DisconnectSends
<1>16. CASE DisconnectWaits
  BY <1>16, Survivors DEF DisconnectWaits
<1>17. CASE DisconnectTells
  BY <1>17 DEF DisconnectTells
<1>18. CASE ConnectedSubscribes
  BY <1>18, Survivors DEF ConnectedSubscribes
<1>19. CASE ConnectedOnline
  BY <1>19 DEF ConnectedOnline
<1>20. CASE ConnectedTells
  BY <1>20 DEF ConnectedTells
<1>21. CASE ConnectedSends
  BY <1>21, Survivors DEF ConnectedSends
<1>22. CASE LostTells
  BY <1>22 DEF LostTells
<1>23. CASE LostOffline
  BY <1>23 DEF LostOffline
<1>24. ASSUME NEW net \in {"connecting", "retrying"}, Accept(net) PROVE Life'
  BY <1>24 DEF Accept
<1>25. CASE Refuse
  BY <1>25 DEF Refuse
<1>26. CASE SslError
  BY <1>26 DEF SslError
<1>27. CASE Break
  BY <1>27 DEF Break
<1>28. CASE BrokerNotices
  BY <1>28 DEF BrokerNotices
<1>29. ASSUME NEW kind \in Arrivals, Arrive(kind) PROVE Life'
  BY <1>29, Survivors DEF Arrive
<1>30. CASE SendFills
  BY <1>30 DEF SendFills, Handles
<1>31. CASE SendSends
  BY <1>31 DEF SendSends, Dies
<1>32. CASE SendUnheard
  BY <1>32 DEF SendUnheard, Handles
<1>33. CASE HandleReceive
  BY <1>33 DEF HandleReceive, Handles
<1>34. CASE ValidationTimesOut
  BY <1>34 DEF ValidationTimesOut, Handles
<1>35. CASE HandleObserved
  BY <1>35 DEF HandleObserved, Handles
<1>36. CASE UNCHANGED vars
  BY <1>36 DEF vars
<1>37. CASE DisconnectReads
  <2>1. control.queue # <<>> /\ Head(control.queue) = "disconnect"
        /\ Controlled("filling", module.seq["connection"]) /\ UNCHANGED <<app, listeners, client>>
    BY <1>37 DEF DisconnectReads, Controls
  <2>2. module.seq["connection"] \in Nat /\ module.seq["connection"] \in Ids
    BY FillTypes, EventTypes, HeaderType
  <2>3. /\ control'.at = "filling" /\ control'.id = module.seq["connection"] /\ app \notin {"up", "down"}
        /\ control'.queue = <<>>
    BY <2>1, <2>2, ControlledLife, ControlQueues
  <2>4. control'.id # NoHeader
    BY <2>2, <2>3 DEF NoHeader
  <2>. QED
    BY <2>1, <2>3, <2>4
<1>38. CASE ConnectedFills
  BY <1>38 DEF ConnectedFills
<1>. QED
  BY <1>1, <1>2, <1>3, <1>4, <1>5, <1>6, <1>7, <1>8, <1>9, <1>10, <1>11, <1>12, <1>13, <1>14, <1>15,
     <1>16, <1>17, <1>18, <1>19, <1>20, <1>21, <1>22, <1>23, <1>24, <1>25, <1>26, <1>27, <1>28,
     <1>29, <1>30, <1>31, <1>32, <1>33, <1>34, <1>35, <1>36, <1>37, <1>38
     DEF Next, Application, Reset, Control, Callback, Network, Messages

\* No header is filled and none is sent.
NoHeaderMoves ==
  /\ broker'.got = broker.got /\ module'.seq = module.seq
  /\ control'.id = control.id /\ (app' # "down" => app # "down")
  /\ client'.at \in {"filling", "filled"} => client'.at = client.at /\ client'.id = client.id
  /\ message'.at = "filled" => message.at = "filled" /\ message'.id = message.id /\ What' = What

LEMMA StillCounts ==
  ASSUME Headers, NoHeaderMoves
  PROVE  Headers'
<1>1. Sending'
  BY DEF Headers, Sending, NoHeaderMoves
<1>2. Connecting'
  BY DEF Headers, Connecting, NoHeaderMoves
<1>3. Overtaken'
  BY DEF Headers, Overtaken, NoHeaderMoves
<1>. QED
  BY <1>1, <1>2, <1>3 DEF Headers

\* What another thread does with "connection" leaves the message thread alone.
LEMMA SendingApart ==
  ASSUME ConnectionTypes, Front, Sending,
         \A t \in Topic : t # "connection" =>
           broker'.got[t] = broker.got[t] /\ module'.seq[t] = module.seq[t],
         message'.at = "filled" => message.at = "filled" /\ message'.id = message.id /\ What' = What
  PROVE  Sending'
<1>1. message.at = "filled" => What \in Topic /\ What # "connection"
  BY FrontTypes, EventTypes DEF Front
<1>. QED
  BY <1>1 DEF Sending

\* Every step keeps the header ids in order.
LEMMA HeadersNext ==
  ASSUME ConnectionTypes, ConnectionTypes', Front, Life, Headers, ~dead, ~dead', [Next]_vars
  PROVE  Headers'
<1>. USE DEF ConnectionTypes
<1>1. ASSUME NEW listed \in Configurations, Initialize(listed) PROVE Headers'
  <2>1. /\ module' \in Modules /\ broker'.got = [t \in Topic |-> NoHeader]
        /\ UNCHANGED client /\ message.at = "idle" /\ control.id = NoHeader /\ client.at = "idle"
    BY <1>1 DEF Initialize, Life, NoInstance, Brokers
  <2>2. message'.at = "idle" /\ control'.id = NoHeader
    BY <1>1, <2>1 DEF Initialize, Start, MessageThreads, ControlThreads
  <2>3. \A t \in Topic : broker'.got[t] < module'.seq[t]
    BY <2>1 DEF Modules, NoHeader
  <2>. QED
    BY <2>1, <2>2, <2>3, EventTypes DEF Headers, Sending, Connecting, Overtaken
<1>2. CASE Shutdown
  <2>1. NoHeaderMoves
    BY <1>2 DEF NoHeaderMoves, What, Shutdown, Modules, Brokers, ControlThreads, Clients,
       MessageThreads
  <2>. QED
    BY <2>1, StillCounts
<1>3. CASE Observe
  <2>1. NoHeaderMoves
    BY <1>3 DEF NoHeaderMoves, What, Observe, Modules, Brokers, ControlThreads, Clients,
       MessageThreads
  <2>. QED
    BY <2>1, StillCounts
<1>4. ASSUME NEW t \in Sends, Dispatch(t) PROVE Headers'
  <2>1. \E e \in Events : message' = Dispatched(e)
    BY <1>4, EventTypes, ConnectionAssumption DEF Dispatch
  <2>2. message'.at = "filled" => message.at = "filled" /\ message'.id = message.id /\ What' = What
    BY <2>1, DispatchedFront DEF Front, What
  <2>3. /\ broker'.got = broker.got /\ module'.seq = module.seq
        /\ control'.id = control.id /\ (app' # "down" => app # "down")
        /\ client'.at \in {"filling", "filled"} => client'.at = client.at /\ client'.id = client.id
    BY <1>4 DEF Dispatch, Modules, Brokers, ControlThreads, Clients
  <2>. QED
    BY <2>2, <2>3, StillCounts DEF NoHeaderMoves
<1>5. CASE StopReturns
  <2>1. NoHeaderMoves
    BY <1>5 DEF NoHeaderMoves, What, StopReturns, Modules, Brokers, ControlThreads, Clients,
       MessageThreads
  <2>. QED
    BY <2>1, StillCounts
<1>6. CASE DeinitializeHandler
  <2>1. NoHeaderMoves
    BY <1>6 DEF NoHeaderMoves, What, DeinitializeHandler, Modules, Brokers, ControlThreads,
       Clients, MessageThreads
  <2>. QED
    BY <2>1, StillCounts
<1>7. CASE DeinitializeSubscribers
  <2>1. NoHeaderMoves
    BY <1>7 DEF NoHeaderMoves, What, DeinitializeSubscribers, Modules, Brokers, ControlThreads,
       Clients, MessageThreads
  <2>. QED
    BY <2>1, StillCounts
<1>8. CASE DeinitializeClient
  <2>1. NoHeaderMoves
    BY <1>8 DEF NoHeaderMoves, What, DeinitializeClient, Modules, Brokers, ControlThreads,
       Clients, MessageThreads
  <2>. QED
    BY <2>1, StillCounts
<1>9. CASE DeinitializeState
  <2>1. NoHeaderMoves
    BY <1>9 DEF NoHeaderMoves, What, DeinitializeState, Modules, Brokers, ControlThreads, Clients,
       MessageThreads
  <2>. QED
    BY <2>1, StillCounts
<1>10. CASE DestroyInstance
  <2>1. UNCHANGED <<broker, module>> /\ message'.at = "idle" /\ control'.id = NoHeader /\ app' = "down"
    BY <1>10 DEF DestroyInstance, NoInstance
  <2>. QED
    BY <2>1 DEF Headers, Sending, Connecting, Overtaken
<1>11. CASE ControlUnheard
  <2>1. control.queue # <<>> /\ (\E p \in {"idle", "ended"} : Controlled(p, NoHeader))
        /\ UNCHANGED <<app, module, message, broker>> /\ client'.at = client.at /\ client'.id = client.id
    BY <1>11 DEF ControlUnheard, Clients
  <2>2. control'.id = control.id
    BY <2>1, ControlledLife
  <2>. QED
    BY <2>1, <2>2, StillCounts DEF NoHeaderMoves, What
<1>12. CASE Connect
  <2>1. control.queue # <<>> /\ (\E p \in {"idle", "ended"} : Controlled(p, NoHeader))
        /\ UNCHANGED <<app, module, message, broker>> /\ client'.at = client.at /\ client'.id = client.id
    BY <1>12 DEF Connect, Controls, Clients
  <2>2. control'.id = control.id
    BY <2>1, ControlledLife
  <2>. QED
    BY <2>1, <2>2, StillCounts DEF NoHeaderMoves, What
<1>13. CASE DisconnectFails
  <2>1. control.queue # <<>> /\ (\E p \in {"idle", "ended"} : Controlled(p, NoHeader))
        /\ UNCHANGED <<app, module, message, broker>> /\ client'.at = client.at /\ client'.id = client.id
    BY <1>13 DEF DisconnectFails, Controls, Clients
  <2>2. control'.id = control.id
    BY <2>1, ControlledLife
  <2>. QED
    BY <2>1, <2>2, StillCounts DEF NoHeaderMoves, What
<1>14. CASE DisconnectFills
  <2>1. /\ control.id \in Ids /\ control.id \in Int /\ control.id # NoHeader /\ control'.id = control.id
        /\ module' = FillHeader("connection", control.id) /\ "connection" \in Topic
        /\ UNCHANGED <<app, broker, message, client>>
    BY <1>14, EventTypes, HeaderType DEF DisconnectFills, Life, ControlThreads
  <2>2. /\ module'.seq["connection"] = control.id + 1
        /\ \A t \in Topic : t # "connection" => module'.seq[t] = module.seq[t]
    BY <2>1, FilledFields
  <2>3. Sending'
    BY <2>1, <2>2, SendingApart DEF Headers, What
  <2>4. Connecting'
    BY <2>1 DEF Connecting
  <2>5. Overtaken'
    BY <2>1, <2>2 DEF Headers, Overtaken
  <2>. QED
    BY <2>3, <2>4, <2>5 DEF Headers
<1>15. CASE DisconnectSends
  <2>1. /\ control.id # NoHeader /\ control'.id = control.id /\ UNCHANGED <<app, module, message, client>>
        /\ (broker' = broker \/ \E c : broker' = Retained(c, control.id))
    <3>1. /\ control.at = "filled" /\ (broker' = broker \/ broker' = Retained("OFFLINE", control.id))
          /\ \E p \in {"sent", "ended"} : control' = [control EXCEPT !.at = p]
          /\ UNCHANGED <<app, module, message, client>>
      BY <1>15, Survivors DEF DisconnectSends
    <3>2. control'.id = control.id
      BY <3>1 DEF ControlThreads
    <3>. QED
      BY <3>1, <3>2 DEF Life
  <2>2. \A t \in Topic : t # "connection" => broker'.got[t] = broker.got[t]
    <3>1. CASE \E c : broker' = Retained(c, control.id)
      <4>1. /\ broker'.got = [broker.got EXCEPT !["connection"] = control.id]
            /\ broker.got \in [Topic -> Int]
        BY <3>1, ReceivedFields, EventTypes
      <4>. QED
        BY <4>1
    <3>. QED
      BY <2>1, <3>1
  <2>3. Sending'
    BY <2>1, <2>2, SendingApart DEF Headers, What
  <2>4. Connecting'
    BY <2>1 DEF Connecting
  <2>5. Overtaken'
    BY <2>1 DEF Headers, Overtaken
  <2>. QED
    BY <2>3, <2>4, <2>5 DEF Headers
<1>16. CASE DisconnectWaits
  <2>1. NoHeaderMoves
    BY <1>16, Survivors DEF NoHeaderMoves, What, DisconnectWaits, Modules, Brokers,
       ControlThreads, Clients, MessageThreads
  <2>. QED
    BY <2>1, StillCounts
<1>17. CASE DisconnectTells
  <2>1. \E e \in Events : message' = Dispatched(e)
    BY <1>17, EventTypes, ConnectionAssumption DEF DisconnectTells
  <2>2. message'.at = "filled" => message.at = "filled" /\ message'.id = message.id /\ What' = What
    BY <2>1, DispatchedFront DEF Front, What
  <2>3. /\ broker'.got = broker.got /\ module'.seq = module.seq
        /\ control'.id = control.id /\ (app' # "down" => app # "down")
        /\ client'.at \in {"filling", "filled"} => client'.at = client.at /\ client'.id = client.id
    BY <1>17 DEF DisconnectTells, Modules, Brokers, ControlThreads, Clients
  <2>. QED
    BY <2>2, <2>3, StillCounts DEF NoHeaderMoves
<1>18. CASE ConnectedSubscribes
  <2>1. NoHeaderMoves
    BY <1>18, Survivors DEF NoHeaderMoves, What, ConnectedSubscribes, Modules, Brokers,
       ControlThreads, Clients, MessageThreads
  <2>. QED
    BY <2>1, StillCounts
<1>19. CASE ConnectedOnline
  <2>1. NoHeaderMoves
    BY <1>19 DEF NoHeaderMoves, What, ConnectedOnline, Modules, Brokers, ControlThreads, Clients,
       MessageThreads
  <2>. QED
    BY <2>1, StillCounts
<1>20. CASE ConnectedTells
  <2>1. client'.at = "filling" /\ client'.id = module.seq["connection"] /\ UNCHANGED <<app, module, broker, control>>
    BY <1>20 DEF ConnectedTells, Clients
  <2>2. Event("status", "online") \in Events /\ message' = Dispatched(Event("status", "online"))
    BY <1>20, EventTypes DEF ConnectedTells
  <2>3. message'.at = "filled" => message.at = "filled" /\ message'.id = message.id /\ What' = What
    BY <2>2, DispatchedFront DEF Front
  <2>4. module.seq["connection"] \in Nat
    BY FillTypes, EventTypes
  <2>5. Sending'
    BY <2>1, <2>3, SendingApart DEF Headers
  <2>6. Connecting'
    BY <2>1 DEF Headers, Connecting
  <2>7. Overtaken'
    <3>1. control.id # NoHeader => control.id - 1 <= module.seq["connection"]
      <4>1. control.id \in Int /\ (control.id # NoHeader => control.id <= module.seq["connection"])
        BY HeaderType DEF Headers, Overtaken, ControlThreads
      <4>. QED
        BY <2>4, <4>1
    <3>. QED
      BY <2>1, <3>1 DEF Headers, Overtaken
  <2>. QED
    BY <2>5, <2>6, <2>7 DEF Headers
<1>21. CASE ConnectedSends
  <2>1. client.at = "filled" /\ client'.at = "idle" /\ UNCHANGED <<app, module, message, control>>
        /\ \E c : broker' = Retained(c, client.id)
    BY <1>21, Survivors DEF ConnectedSends, Clients
  <2>2. broker'.got = [broker.got EXCEPT !["connection"] = client.id]
        /\ broker.got \in [Topic -> Int] /\ "connection" \in Topic
    BY <2>1, ReceivedFields, EventTypes
  <2>3. Sending'
    BY <2>1, <2>2, SendingApart DEF Headers, What
  <2>4. Connecting'
    <3>1. app # "down" /\ control.id = NoHeader => module.seq["connection"] = client.id + 1
      BY <2>1 DEF Headers, Connecting
    <3>2. client.id \in Int /\ broker'.got["connection"] = client.id
      BY <2>2, HeaderType DEF Clients
    <3>. QED
      BY <2>1, <3>1, <3>2 DEF Connecting
  <2>5. Overtaken'
    BY <2>1 DEF Headers, Overtaken
  <2>. QED
    BY <2>3, <2>4, <2>5 DEF Headers
<1>22. CASE LostTells
  <2>1. message' = message \/ \E e \in Events : message' = Dispatched(e)
    BY <1>22, EventTypes, ConnectionAssumption DEF LostTells
  <2>2. message'.at = "filled" => message.at = "filled" /\ message'.id = message.id /\ What' = What
    BY <2>1, DispatchedFront DEF Front, What
  <2>3. /\ broker'.got = broker.got /\ module'.seq = module.seq
        /\ control'.id = control.id /\ (app' # "down" => app # "down")
        /\ client'.at \in {"filling", "filled"} => client'.at = client.at /\ client'.id = client.id
    BY <1>22 DEF LostTells, Modules, Brokers, ControlThreads, Clients
  <2>. QED
    BY <2>2, <2>3, StillCounts DEF NoHeaderMoves
<1>23. CASE LostOffline
  <2>1. NoHeaderMoves
    BY <1>23 DEF NoHeaderMoves, What, LostOffline, Modules, Brokers, ControlThreads, Clients,
       MessageThreads
  <2>. QED
    BY <2>1, StillCounts
<1>24. ASSUME NEW net \in {"connecting", "retrying"}, Accept(net) PROVE Headers'
  <2>1. NoHeaderMoves
    BY <1>24 DEF NoHeaderMoves, What, Accept, Modules, Brokers, ControlThreads, Clients,
       MessageThreads
  <2>. QED
    BY <2>1, StillCounts
<1>25. CASE Refuse
  <2>1. \E e \in Events : message' = Dispatched(e)
    BY <1>25, EventTypes, ConnectionAssumption DEF Refuse
  <2>2. message'.at = "filled" => message.at = "filled" /\ message'.id = message.id /\ What' = What
    BY <2>1, DispatchedFront DEF Front, What
  <2>3. /\ broker'.got = broker.got /\ module'.seq = module.seq
        /\ control'.id = control.id /\ (app' # "down" => app # "down")
        /\ client'.at \in {"filling", "filled"} => client'.at = client.at /\ client'.id = client.id
    BY <1>25 DEF Refuse, Modules, Brokers, ControlThreads, Clients
  <2>. QED
    BY <2>2, <2>3, StillCounts DEF NoHeaderMoves
<1>26. CASE SslError
  <2>1. NoHeaderMoves
    BY <1>26 DEF NoHeaderMoves, What, SslError, Modules, Brokers, ControlThreads, Clients,
       MessageThreads
  <2>. QED
    BY <2>1, StillCounts
<1>27. CASE Break
  <2>1. NoHeaderMoves
    BY <1>27 DEF NoHeaderMoves, What, Break, Modules, Brokers, ControlThreads, Clients,
       MessageThreads
  <2>. QED
    BY <2>1, StillCounts
<1>28. CASE BrokerNotices
  <2>1. NoHeaderMoves
    BY <1>28 DEF NoHeaderMoves, What, BrokerNotices, WillPublished, Modules, Brokers,
       ControlThreads, Clients, MessageThreads
  <2>. QED
    BY <2>1, StillCounts
<1>29. ASSUME NEW kind \in Arrivals, Arrive(kind) PROVE Headers'
  <2>1. \E e \in Events : message' = Dispatched(e)
    BY <1>29, EventTypes, ConnectionAssumption, Survivors DEF Arrive
  <2>2. message'.at = "filled" => message.at = "filled" /\ message'.id = message.id /\ What' = What
    BY <2>1, DispatchedFront DEF Front, What
  <2>3. /\ broker'.got = broker.got /\ module'.seq = module.seq
        /\ control'.id = control.id /\ (app' # "down" => app # "down")
        /\ client'.at \in {"filling", "filled"} => client'.at = client.at /\ client'.id = client.id
    BY <1>29, Survivors DEF Arrive, Modules, Brokers, ControlThreads, Clients
  <2>. QED
    BY <2>2, <2>3, StillCounts DEF NoHeaderMoves
<1>30. CASE SendFills
  <2>1. message.queue # <<>> /\ What \in Topic /\ What # "connection"
        /\ module' = FillHeader(What, module.seq[What])
    BY <1>30, FrontTypes, EventTypes DEF SendFills, Handles
  <2>2. /\ message'.at = "filled" /\ message'.id = module.seq[What] /\ What' = What
        /\ UNCHANGED <<app, broker, control, client>>
    BY <1>30 DEF SendFills, MessageThreads, What
  <2>. HIDE DEF What
  <2>3. module.seq[What] \in Nat /\ module.seq[What] \in Ids
    BY <2>1, FillTypes, HeaderType
  <2>4. /\ module'.seq[What] = module.seq[What] + 1
        /\ \A t \in Topic : t # What => module'.seq[t] = module.seq[t]
    BY <2>1, <2>3, FilledFields
  <2>5. broker.got \in [Topic -> Int] /\ "connection" \in Topic
    BY EventTypes DEF Brokers
  <2>6. broker.got[What] < module.seq[What] /\ module.seq[What] < module'.seq[What]
    BY <2>1, <2>3, <2>4 DEF Headers, Sending
  <2>7. \A t \in Topic : t # "connection" => broker.got[t] < module'.seq[t]
    <3>1. broker.got[What] < module'.seq[What]
      BY <2>1, <2>3, <2>4, <2>5, <2>6
    <3>. QED
      BY <2>4, <3>1 DEF Headers, Sending
  <2>8. module'.seq["connection"] = module.seq["connection"]
    BY <2>1, <2>4, <2>5
  <2>9. Sending'
    BY <2>2, <2>6, <2>7 DEF Sending
  <2>. QED
    BY <2>2, <2>8, <2>9 DEF Headers, Connecting, Overtaken
<1>31. CASE SendSends
  <2>1. message.at = "filled" /\ message'.at = "idle" /\ UNCHANGED <<app, module, control, client>>
        /\ (broker' = broker \/ broker' = Received(What, message.id))
    BY <1>31, Survivors DEF SendSends, MessageThreads, Done
  <2>2. What \in Topic /\ What # "connection" /\ message.id < module.seq[What]
    BY <2>1, FrontTypes, EventTypes DEF Front, Headers, Sending
  <2>3. broker.got \in [Topic -> Int] /\ "connection" \in Topic
    BY EventTypes DEF Brokers
  <2>4. broker'.got = broker.got \/ broker'.got = [broker.got EXCEPT ![What] = message.id]
    BY <2>1, <2>2, ReceivedFields
  <2>. HIDE DEF What
  <2>5. broker'.got["connection"] = broker.got["connection"]
    BY <2>2, <2>3, <2>4
  <2>6. \A t \in Topic : t # "connection" => broker'.got[t] < module.seq[t]
    BY <2>2, <2>3, <2>4 DEF Headers, Sending
  <2>. QED
    BY <2>1, <2>5, <2>6 DEF Headers, Sending, Connecting, Overtaken
<1>32. CASE SendUnheard
  <2>1. NoHeaderMoves
    BY <1>32 DEF NoHeaderMoves, What, SendUnheard, Handles, Done, Modules, Brokers,
       ControlThreads, Clients, MessageThreads
  <2>. QED
    BY <2>1, StillCounts
<1>33. CASE HandleReceive
  <2>1. NoHeaderMoves
    BY <1>33 DEF NoHeaderMoves, What, HandleReceive, Handles, Done, Modules, Brokers,
       ControlThreads, Clients, MessageThreads
  <2>. QED
    BY <2>1, StillCounts
<1>34. CASE ValidationTimesOut
  <2>1. NoHeaderMoves
    BY <1>34 DEF NoHeaderMoves, What, ValidationTimesOut, Handles, Modules, Brokers,
       ControlThreads, Clients, MessageThreads
  <2>. QED
    BY <2>1, StillCounts
<1>35. CASE HandleObserved
  <2>1. NoHeaderMoves
    BY <1>35 DEF NoHeaderMoves, What, HandleObserved, Handles, Done, Modules, Brokers,
       ControlThreads, Clients, MessageThreads
  <2>. QED
    BY <2>1, StillCounts
<1>36. CASE UNCHANGED vars
  BY <1>36, StillCounts DEF vars, NoHeaderMoves, What
<1>37. CASE DisconnectReads
  <2>1. control.queue # <<>> /\ Controlled("filling", module.seq["connection"])
        /\ UNCHANGED <<app, module, message, broker, client>>
    BY <1>37 DEF DisconnectReads, Controls
  <2>2. module.seq["connection"] \in Nat /\ module.seq["connection"] \in Ids
    BY FillTypes, EventTypes, HeaderType
  <2>3. control'.id = module.seq["connection"] /\ control.id = NoHeader /\ app # "down"
    BY <2>1, <2>2, ControlledLife
  <2>4. Sending'
    BY <2>1 DEF Headers, Sending, What
  <2>5. Connecting'
    BY <2>2, <2>3 DEF Connecting, NoHeader
  <2>6. Overtaken'
    <3>1. client.at \in {"filling", "filled"} => module.seq["connection"] - 1 <= client.id
      <4>1. client.id \in Int
        BY HeaderType DEF Clients
      <4>2. /\ client.at = "filling" => client.id = module.seq["connection"]
            /\ client.at = "filled" => module.seq["connection"] = client.id + 1
        BY <2>3 DEF Headers, Connecting
      <4>. QED
        BY <2>2, <4>1, <4>2
    <3>. QED
      BY <2>1, <2>2, <2>3, <3>1 DEF Overtaken
  <2>. QED
    BY <2>4, <2>5, <2>6 DEF Headers
<1>38. CASE ConnectedFills
  <2>1. /\ client.at = "filling" /\ client'.at = "filled" /\ client.id \in Ids /\ client'.id = client.id
        /\ module' = FillHeader("connection", client.id) /\ "connection" \in Topic
        /\ UNCHANGED <<app, broker, message, control>>
    BY <1>38, EventTypes DEF ConnectedFills, Clients
  <2>2. /\ module'.seq["connection"] = client.id + 1
        /\ \A t \in Topic : t # "connection" => module'.seq[t] = module.seq[t]
    BY <2>1, FilledFields
  <2>3. client.id \in Int /\ control.id \in Int /\ broker.got["connection"] \in Int
    BY <2>1, HeaderType DEF ControlThreads, Brokers
  <2>4. Sending'
    BY <2>1, <2>2, SendingApart DEF Headers, What
  <2>5. Connecting'
    <3>1. app # "down" /\ control.id = NoHeader => broker.got["connection"] < client.id
      BY <2>1 DEF Headers, Connecting
    <3>. QED
      BY <2>1, <2>2, <2>3, <3>1 DEF Connecting
  <2>6. Overtaken'
    <3>1. control.id # NoHeader => control.id - 1 <= client.id
      BY <2>1 DEF Headers, Overtaken
    <3>2. control.id # NoHeader => control.id <= client.id + 1
      BY <2>3, <3>1
    <3>. QED
      BY <2>1, <2>2, <3>1, <3>2 DEF Overtaken
  <2>. QED
    BY <2>4, <2>5, <2>6 DEF Headers
<1>. QED
  BY <1>1, <1>2, <1>3, <1>4, <1>5, <1>6, <1>7, <1>8, <1>9, <1>10, <1>11, <1>12, <1>13, <1>14, <1>15,
     <1>16, <1>17, <1>18, <1>19, <1>20, <1>21, <1>22, <1>23, <1>24, <1>25, <1>26, <1>27, <1>28,
     <1>29, <1>30, <1>31, <1>32, <1>33, <1>34, <1>35, <1>36, <1>37, <1>38
     DEF Next, Application, Reset, Control, Callback, Network, Messages

\* Only three actions send anything.
LEMMA GotKept ==
  ASSUME ConnectionTypes, app # "down", ~DisconnectSends, ~ConnectedSends, ~SendSends, [Next]_vars
  PROVE  broker'.got = broker.got
<1>. USE DEF ConnectionTypes
<1>1. ASSUME NEW listed \in Configurations, Initialize(listed) PROVE broker'.got = broker.got
  BY <1>1 DEF Initialize
<1>2. CASE Shutdown
  BY <1>2 DEF Shutdown, Settled, Brokers
<1>3. CASE Observe
  BY <1>3 DEF Observe, Brokers
<1>4. ASSUME NEW t \in Sends, Dispatch(t) PROVE broker'.got = broker.got
  BY <1>4 DEF Dispatch, Dispatched, Event, Brokers
<1>5. CASE StopReturns
  BY <1>5 DEF StopReturns, Brokers
<1>6. CASE DeinitializeHandler
  BY <1>6 DEF DeinitializeHandler, Brokers
<1>7. CASE DeinitializeSubscribers
  BY <1>7 DEF DeinitializeSubscribers, Brokers
<1>8. CASE DeinitializeClient
  BY <1>8 DEF DeinitializeClient, Brokers
<1>9. CASE DeinitializeState
  BY <1>9 DEF DeinitializeState, Brokers
<1>10. CASE DestroyInstance
  BY <1>10 DEF DestroyInstance, Brokers
<1>11. CASE ControlUnheard
  BY <1>11 DEF ControlUnheard, Controlled, Brokers
<1>12. CASE Connect
  BY <1>12 DEF Connect, Controls, Controlled, Brokers
<1>13. CASE DisconnectFails
  BY <1>13 DEF DisconnectFails, Controls, Controlled, Brokers
<1>14. CASE DisconnectFills
  BY <1>14 DEF DisconnectFills
<1>16. CASE DisconnectWaits
  BY <1>16 DEF DisconnectWaits, Dies, CanPublish, Brokers
<1>17. CASE DisconnectTells
  BY <1>17 DEF DisconnectTells, Dispatched, Event, Brokers
<1>18. CASE ConnectedSubscribes
  BY <1>18 DEF ConnectedSubscribes, Dies, CanPublish, Brokers
<1>19. CASE ConnectedOnline
  BY <1>19 DEF ConnectedOnline, Brokers
<1>20. CASE ConnectedTells
  BY <1>20 DEF ConnectedTells
<1>22. CASE LostTells
  BY <1>22 DEF LostTells, Changes, Dispatched, Event, Brokers
<1>23. CASE LostOffline
  BY <1>23 DEF LostOffline, Brokers
<1>24. ASSUME NEW net \in {"connecting", "retrying"}, Accept(net) PROVE broker'.got = broker.got
  BY <1>24 DEF Accept, Changes, Brokers
<1>25. CASE Refuse
  BY <1>25 DEF Refuse, Changes, Dispatched, Event, Brokers
<1>26. CASE SslError
  BY <1>26 DEF SslError, Changes, Brokers
<1>27. CASE Break
  BY <1>27 DEF Break, Changes, Brokers
<1>28. CASE BrokerNotices
  BY <1>28 DEF BrokerNotices, WillPublished, Brokers
<1>29. ASSUME NEW kind \in Arrivals, Arrive(kind) PROVE broker'.got = broker.got
  BY <1>29 DEF Arrive, Dies, Dispatched, Event, Brokers
<1>30. CASE SendFills
  BY <1>30 DEF SendFills, Handles, What, FillHeader, Brokers
<1>32. CASE SendUnheard
  BY <1>32 DEF SendUnheard, Handles, Done, Counted, Brokers
<1>33. CASE HandleReceive
  BY <1>33 DEF HandleReceive, Handles, Done, Event, Brokers
<1>34. CASE ValidationTimesOut
  BY <1>34 DEF ValidationTimesOut, Handles, Brokers
<1>35. CASE HandleObserved
  BY <1>35 DEF HandleObserved, Handles, Done, Brokers
<1>36. CASE UNCHANGED vars
  BY <1>36 DEF vars
<1>37. CASE DisconnectReads
  BY <1>37 DEF DisconnectReads
<1>38. CASE ConnectedFills
  BY <1>38 DEF ConnectedFills
<1>. QED
  BY <1>1, <1>2, <1>3, <1>4, <1>5, <1>6, <1>7, <1>8, <1>9, <1>10, <1>11, <1>12, <1>13, <1>14,
     <1>16, <1>17, <1>18, <1>19, <1>20, <1>22, <1>23, <1>24, <1>25, <1>26, <1>27, <1>28,
     <1>29, <1>30, <1>32, <1>33, <1>34, <1>35, <1>36, <1>37, <1>38
     DEF Next, Application, Reset, Control, Callback, Network, Messages

\* What the three change.
LEMMA GotChanges ==
  ASSUME ConnectionTypes, Front
  PROVE  /\ DisconnectSends =>
              /\ control.at = "filled" /\ ~dead
              /\ broker'.got = broker.got \/ broker'.got = [broker.got EXCEPT !["connection"] = control.id]
         /\ ConnectedSends =>
              /\ client.at = "filled" /\ ~dead
              /\ broker'.got = broker.got \/ broker'.got = [broker.got EXCEPT !["connection"] = client.id]
         /\ SendSends =>
              /\ message.at = "filled" /\ ~dead /\ What \in Topic /\ What # "connection"
              /\ broker'.got = broker.got \/ broker'.got = [broker.got EXCEPT ![What] = message.id]
<1>. USE DEF ConnectionTypes
<1>1. ASSUME DisconnectSends
      PROVE  /\ control.at = "filled" /\ ~dead
             /\ broker'.got = broker.got \/ broker'.got = [broker.got EXCEPT !["connection"] = control.id]
  <2>1. control.at = "filled" /\ ~dead /\ (broker' = broker \/ broker' = Retained("OFFLINE", control.id))
    BY <1>1 DEF DisconnectSends, Dies
  <2>2. broker' = Retained("OFFLINE", control.id)
        => broker'.got = [broker.got EXCEPT !["connection"] = control.id]
    BY ReceivedFields, EventTypes
  <2>. QED
    BY <2>1, <2>2
<1>2. ASSUME ConnectedSends
      PROVE  /\ client.at = "filled" /\ ~dead
             /\ broker'.got = broker.got \/ broker'.got = [broker.got EXCEPT !["connection"] = client.id]
  <2>1. client.at = "filled" /\ ~dead /\ (broker' = broker \/ broker' = Retained("ONLINE", client.id))
    BY <1>2 DEF ConnectedSends, Dies
  <2>2. broker' = Retained("ONLINE", client.id)
        => broker'.got = [broker.got EXCEPT !["connection"] = client.id]
    BY ReceivedFields, EventTypes
  <2>. QED
    BY <2>1, <2>2
<1>3. ASSUME SendSends
      PROVE  /\ message.at = "filled" /\ ~dead /\ What \in Topic /\ What # "connection"
             /\ broker'.got = broker.got \/ broker'.got = [broker.got EXCEPT ![What] = message.id]
  <2>1. message.at = "filled" /\ ~dead /\ (broker' = broker \/ broker' = Received(What, message.id))
    BY <1>3 DEF SendSends, Dies
  <2>2. What \in Topic /\ What # "connection"
    BY <2>1, FrontTypes, EventTypes DEF Front
  <2>. QED
    BY <2>1, <2>2, ReceivedFields
<1>. QED
  BY <1>1, <1>2, <1>3

\* Only DisconnectReads gives the control event thread a header to fill.
LEMMA FillingKept ==
  ASSUME ConnectionTypes, Life, control'.at \in {"filling", "filled"}, ~DisconnectReads, [Next]_vars
  PROVE  control.at \in {"filling", "filled"} /\ control'.id = control.id
  BY DEF ConnectionTypes, ControlThreads, Next, Application, Reset, Control, Callback, Network,
     Messages, vars, Accept, Arrive,
     Break, BrokerNotices, Connect, ConnectedOnline, ConnectedSends, ConnectedFills,
         ConnectedSubscribes, ConnectedTells, ControlUnheard, DeinitializeClient,
         DeinitializeHandler, DeinitializeState, DeinitializeSubscribers, DestroyInstance,
         DisconnectFails, DisconnectFills, DisconnectSends, DisconnectTells,
         DisconnectWaits, Dispatch, HandleObserved, HandleReceive, Initialize,
         LostOffline, LostTells, Observe, Refuse, SendFills, SendSends, SendUnheard,
         Shutdown, SslError, StopReturns, ValidationTimesOut, Start, NoInstance, Controlled, Dies

\* In a quiet moment nothing is sent on the connection while disconnect has a header to send.
LEMMA PartingNext ==
  ASSUME Counts, Inv, Quiet, Parting, ~dead, ~dead', [Next]_vars,
         control'.at \in {"filling", "filled"}
  PROVE  broker'.got["connection"] < control'.id
<1>. USE DEF Inv
<1>1. CASE DisconnectReads
  <2>1. control.queue # <<>> /\ Controlled("filling", module.seq["connection"]) /\ UNCHANGED broker
    BY <1>1 DEF DisconnectReads, Controls
  <2>2. module.seq["connection"] \in Ids
    BY FillTypes, EventTypes, HeaderType
  <2>3. control'.id = module.seq["connection"] /\ control.id = NoHeader /\ app # "down"
    BY <2>1, <2>2, ControlledLife DEF Counts
  <2>. QED
    BY <2>1, <2>3 DEF Counts, Headers, Connecting
<1>2. CASE ~DisconnectReads
  <2>1. control.at \in {"filling", "filled"} /\ control'.id = control.id
    BY <1>2, FillingKept DEF Counts
  <2>2. app # "down" /\ app # "up" /\ client.at = "idle"
    BY <2>1 DEF Phases, NoInstance
  <2>3. ~ConnectedSends
    BY <2>2 DEF ConnectedSends
  <2>4. ~DisconnectSends
    BY Survivors DEF DisconnectSends, ConnectionTypes, ControlThreads
  <2>5. broker'.got["connection"] = broker.got["connection"]
    <3>1. CASE SendSends
      BY <3>1, GotChanges, EventTypes DEF ConnectionTypes, Brokers
    <3>. QED
      BY <2>2, <2>3, <2>4, <3>1, GotKept
  <2>. QED
    BY <2>1, <2>5 DEF Parting
<1>. QED
  BY <1>1, <1>2

\* What the broker gets on a topic in a step is newer than what it got before, ...
Increasing ==
  \A t \in Topic : app # "down" /\ broker'.got[t] # broker.got[t] =>
    \/ broker'.got[t] > broker.got[t]
    \/ t = "connection" /\ Crossing /\ broker'.got[t] >= control.id - 1

\* ... or one of two messages that cross.
LEMMA IncreasingNext ==
  ASSUME Counts, Quiet => Inv /\ (~dead => Parting), [Next]_vars
  PROVE  Increasing
<1>. SUFFICES ASSUME app # "down" PROVE Increasing
  BY DEF Increasing
<1>. USE DEF Counts
<1>0. /\ broker.got \in [Topic -> Int] /\ "connection" \in Topic /\ control.id \in Int
      /\ client.id \in Int
  BY EventTypes, HeaderType DEF ConnectionTypes, Brokers, ControlThreads, Clients
<1>1. CASE broker'.got = broker.got
  BY <1>1 DEF Increasing
<1>2. CASE DisconnectSends /\ broker'.got = [broker.got EXCEPT !["connection"] = control.id]
  <2>1. control.at = "filled" /\ ~dead
    BY <1>2, GotChanges
  <2>2. control.id # NoHeader
    BY <2>1 DEF Life
  <2>3. Quiet => broker.got["connection"] < control.id
    BY <2>1 DEF Parting
  <2>. QED
    BY <1>0, <1>2, <2>2, <2>3 DEF Increasing, Crossing
<1>3. CASE ConnectedSends /\ broker'.got = [broker.got EXCEPT !["connection"] = client.id]
  <2>1. client.at = "filled" /\ ~dead
    BY <1>3, GotChanges
  <2>2. CASE control.id = NoHeader
    <3>1. broker.got["connection"] < client.id
      BY <2>1, <2>2 DEF Headers, Connecting
    <3>. QED
      BY <1>0, <1>3, <3>1 DEF Increasing
  <2>3. CASE control.id # NoHeader
    <3>1. ~Quiet
      BY <2>1, <2>3 DEF Life, Inv, Phases
    <3>2. control.id - 1 <= client.id
      BY <2>1, <2>3 DEF Headers, Overtaken
    <3>. QED
      BY <1>0, <1>3, <2>3, <3>1, <3>2 DEF Increasing, Crossing
  <2>. QED
    BY <2>2, <2>3
<1>4. CASE SendSends /\ broker'.got = [broker.got EXCEPT ![What] = message.id]
  <2>1. message.at = "filled" /\ ~dead /\ What \in Topic
    BY <1>4, GotChanges
  <2>2. broker.got[What] < message.id /\ message.id \in Int
    BY <2>1 DEF Headers, Sending, ConnectionTypes, MessageThreads
  <2>. HIDE DEF What
  <2>. QED
    BY <1>0, <1>4, <2>1, <2>2 DEF Increasing
<1>. QED
  BY <1>1, <1>2, <1>3, <1>4, GotKept, GotChanges

LEMMA CountsNext ==
  ASSUME Counts, [Next]_vars
  PROVE  Counts'
<1>1. ConnectionTypes' /\ Front'
  BY TypeNext, FrontNext DEF Counts
<1>2. CASE dead
  BY <1>1, <1>2, DeadStays DEF Counts
<1>3. CASE ~dead /\ ~dead'
  BY <1>1, <1>3, LifeNext, HeadersNext DEF Counts
<1>4. CASE dead'
  BY <1>1, <1>4 DEF Counts
<1>. QED
  BY <1>2, <1>3, <1>4

\* What is needed of a quiet moment.
QuietMoment == Quiet => Inv /\ (~dead => Parting)

LEMMA QuietMomentNext ==
  ASSUME Counts, QuietMoment, [Next]_vars
  PROVE  QuietMoment'
<1>. SUFFICES ASSUME Quiet' PROVE Inv' /\ (~dead' => Parting')
  BY DEF QuietMoment
<1>. Quiet
  BY QuietBefore DEF Counts
<1>1. Inv'
  BY InvNext DEF QuietMoment
<1>2. ASSUME ~dead' PROVE Parting'
  <2>1. ~dead
    BY <1>2, DeadStays
  <2>. QED
    BY <1>2, <2>1, PartingNext DEF QuietMoment, Parting
<1>. QED
  BY <1>1, <1>2

\* The header ids of a topic count up at the broker, over every loss of the connection and
\* whenever the application shuts down; only a connected and a disconnect that cross may
\* send a lower one, and none below what was on its way when disconnect read its id.
THEOREM HeadersAlwaysIncrease == Spec => HeadersIncrease
<1>1. Init => Counts /\ QuietMoment
  BY TypeInit, InvInit, LifeInit DEF Init, Counts, QuietMoment, Inv, Parting, NoInstance
<1>2. Counts /\ QuietMoment /\ [Next]_vars => (Counts /\ QuietMoment)'
  BY CountsNext, QuietMomentNext
<1>3. Counts /\ QuietMoment /\ [Next]_vars => [Increasing]_vars
  BY IncreasingNext DEF QuietMoment
<1>. QED
  BY <1>1, <1>2, <1>3, PTL DEF Spec, HeadersIncrease, Increasing
===============================================================================
