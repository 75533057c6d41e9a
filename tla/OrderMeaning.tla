----------------------------- MODULE OrderMeaning -----------------------------
(***************************************************************************)
(* What an order means, said without an iterator: the drives and the       *)
(* groups of actions that its released nodes and edges stand for.  The     *)
(* interpreter has to yield them, however the order comes.                 *)
(***************************************************************************)
EXTENDS Interpreter, SequencesExt, FiniteSetsExt

Blocks(s) == \E i \in DOMAIN s : BlockingOf[s[i]] # "NONE"

\* The actions of a node or an edge run in groups, and a HARD action alone.
Groups(s) ==
  LET starts == {i \in DOMAIN s : i = 1 \/ IsHard(s[i]) \/ IsHard(s[i - 1])}
      from   == SetToSortSeq(starts, <)
      end(k) == IF k = Len(from) THEN Len(s) ELSE from[k + 1] - 1
      part(k) == SubSeq(s, from[k], end(k))
  IN [k \in DOMAIN from |-> Group(part(k), Strongest(part(k)))]

Base(s) == SelectSeq(s, LAMBDA e : e.released)

\* At each node of the base: the drive to it, its own actions, those of the edge that
\* leaves it.  The drive ends with a stop if one of these blocks.  The node an update
\* begins with was reached, and its actions were yielded, before.
Program(m) ==
  LET nodes == Base(m.nodes)
      edges == Base(m.edges)
      isStitch(k)  == k = 1 /\ m.update > 0
      nodeGroups(k) == IF isStitch(k) THEN <<>> ELSE Groups(nodes[k].actions)
      edgeGroups(k) == IF k \in DOMAIN edges THEN Groups(edges[k].actions) ELSE <<>>
      stop(k)  == \/ Blocks(nodes[k].actions)
                  \/ k \in DOMAIN edges /\ Blocks(edges[k].actions)
      drive(k) == IF k = 1 THEN <<>> ELSE <<NavStep(nodes[k].seq, stop(k))>>
  IN FlattenSeq([k \in DOMAIN nodes |-> drive(k) \o nodeGroups(k) \o edgeGroups(k)])

\* A group with the ceiling it should have, which the first of a message may exceed.
Exact(y) == IF y.kind = "group" THEN Group(y.actions, Strongest(y.actions)) ELSE y

\* All that the interpretation of a message yields but the announcements of actions.
Yielded(m) ==
  (IF m.update = 0 THEN <<ClearActions>> ELSE <<>>)
    \o Program(m)
    \o <<GraphOf(m.update, ToSet(m.nodes) \cup ToSet(m.edges)), InterpreterDone>>

\* A released edge leads to a node that is not, or to none.
EndsInEdge(m) == Len(Base(m.edges)) >= Len(Base(m.nodes)) \/ Len(m.edges) >= Len(m.nodes)

\* The released part of all messages, as the one order it would have been.
Whole ==
  LET fresh(i) == LET nodes == Base(messages[i].nodes) IN IF i = 1 THEN nodes ELSE Tail(nodes)
  IN [update |-> 0,
      nodes  |-> FlattenSeq([i \in DOMAIN messages |-> fresh(i)]),
      edges  |-> FlattenSeq([i \in DOMAIN messages |-> Base(messages[i].edges)])]

-------------------------------------------------------------------------------

Exactly(kinds) == LET s == SelectSeq(yields, LAMBDA y : y.kind \in kinds)
                  IN [i \in DOMAIN s |-> Exact(s[i])]

Steps == Exactly({"group", "nav"})

\* Every message yields its program, its graph and the end, in this order and nothing
\* else, up to where it is interpreted (functional.cpp); only a message whose base or
\* horizon ends in an edge is not interpreted to its end.
YieldsTheProgram ==
  /\ IsPrefix(Exactly({"clear", "group", "nav", "replacement", "extension", "done"}),
              FlattenSeq([i \in DOMAIN messages |-> Yielded(messages[i])]))
  /\ ~alive => EndsInEdge(messages[at])

\* What the AGV does depends on the order and not on where it was cut into updates,
\* but for the stop hint of the node an update begins with.
CutsDoNotMatter ==
  LET whole == Program(Whole)
      same(y, z) ==
        \/ y = z
        \/ /\ y.kind = "nav" /\ z = NavStep(y.goal, TRUE)
           /\ \E i \in 2..Len(messages) : messages[i].nodes[1].seq = y.goal
  IN /\ \A i \in DOMAIN Steps : i \in DOMAIN whole /\ same(Steps[i], whole[i])
     /\ at > Len(messages) => Len(Steps) = Len(whole)

===============================================================================
