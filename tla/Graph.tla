--------------------------------- MODULE Graph ---------------------------------
(***************************************************************************)
(* core/state/graph: the nodes and edges of an order by sequence id, the   *)
(* released ones (the base) before the others (the horizon), and the node  *)
(* the AGV was last seen on.  Nodes have even and edges odd ids.           *)
(*                                                                         *)
(* A graph is a record: elem tells for each sequence id whether it is      *)
(* released, pos is agv_pos_.  A function that throws has a condition of   *)
(* its own (CanExtend, CanStandOn, ...), its value is meaningless then.    *)
(***************************************************************************)
EXTENDS Integers, FiniteSets, FiniteSetsExt

Nowhere == -1   \* agv_pos_ without a value

IsNode(s) == s % 2 = 0
Ids(g)    == DOMAIN g.elem
FirstId(g) == Min(Ids(g))
LastId(g)  == Max(Ids(g))

\* Graph::update of all elements, which throws when a base element would follow one of
\* the horizon.
Buildable(elem) == \A s, t \in DOMAIN elem : s < t /\ elem[t] => elem[s]
NewGraph(elem)  == [elem |-> elem, pos |-> Nowhere]

BaseIds(g)  == {s \in Ids(g) : g.elem[s]}
BaseLast(g) == Max(BaseIds(g))          \* baseBounds; it throws when the base is empty
HasHorizon(g) == ~g.elem[LastId(g)]

\* A copy of g with the elements of S alone.
Only(g, S) == [g EXCEPT !.elem = [s \in S |-> g.elem[s]]]

\* find() of the first id of the horizon, and everything from there to the end.
CleanHorizon(g) ==
  IF HasHorizon(g) /\ BaseLast(g) + 1 \in Ids(g)
  THEN Only(g, {s \in Ids(g) : s <= BaseLast(g)})
  ELSE g

\* An extension begins with the last node of the base or right behind it.
CanExtend(g, other) ==
  /\ g.pos = Nowhere \/ other.pos = Nowhere \/ g.pos = other.pos
  /\ BaseIds(g) # {}
  /\ FirstId(other) \in {BaseLast(g), BaseLast(g) + 1}

\* merge() keeps the element of the extension where both have one.
Extend(g, other) ==
  LET kept == CleanHorizon(g)
  IN [elem |-> [s \in Ids(other) \cup Ids(kept) |->
                  IF s \in Ids(other) THEN other.elem[s] ELSE kept.elem[s]],
      pos  |-> IF g.pos = Nowhere THEN other.pos ELSE g.pos]

\* A slip: what extend() says is new begins with the node both have.
DeltaFirstOverlapping(g, other) == FirstId(other)
\* The first new id that extend() returns.
DeltaFirst(g, other) ==
  IF BaseLast(g) + 1 > FirstId(other) THEN BaseLast(g) + 1 ELSE FirstId(other)

\* setAgvLastNodeSequenceId
CanStandOn(g, s) == s \in Ids(g) /\ IsNode(s) /\ g.elem[s]
StandOn(g, s)    == [g EXCEPT !.pos = s]

\* Everything before the AGV goes.
Trim(g) == Only(g, {s \in Ids(g) : s >= g.pos})

NoNode == -1
\* currentGoal: the next node, if it is released.
CurrentGoal(g) ==
  IF g.pos # Nowhere /\ CanStandOn(g, g.pos + 2) THEN g.pos + 2 ELSE NoNode

\* dumpTo with skip_agv_elem: the node and edge states, and which of them are released.
Dump(g) == [s \in Ids(g) \ {g.pos} |-> g.elem[s]]
===============================================================================
