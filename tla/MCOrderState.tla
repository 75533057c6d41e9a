----------------------------- MODULE MCOrderState -----------------------------
(* An order with a horizon, the update that releases it, the order after, and  *)
(* messages the checks have to refuse or that end the thread that takes them.  *)
EXTENDS OrderState

CONSTANTS load, lift, ring

\* The nodes and edges from first to last, released up to base.
Elements(first, last, base) == {[seq |-> s, released |-> s <= base] : s \in first..last}

Message(id, update, first, last, base, A) ==
  LET all == Elements(first, last, base)
  IN [id |-> id, update |-> update, actions |-> A,
      nodes |-> {e \in all : e.seq % 2 = 0}, edges |-> {e \in all : e.seq % 2 = 1}]

A0 == Message(1, 0, 0, 4, 2, {load})
A1 == Message(1, 1, 2, 4, 4, {lift})
B0 == Message(2, 0, 0, 2, 2, {})

\* From inside the base, with a gap, ending in an edge, from behind node 0, unreleased.
Inside     == Message(1, 1, 0, 4, 4, {})
Gap        == [A1 EXCEPT !.edges = {}]
Edge       == Message(1, 1, 2, 3, 3, {lift})
Behind     == Message(2, 0, 2, 4, 4, {})
Unreleased == Message(1, 1, 2, 4, 0, {})

MCAction   == {load, lift, ring}
MCInstants == {ring}
MCMessages ==
  [A0 |-> A0, A1 |-> A1, B0 |-> B0, inside |-> Inside, gap |-> Gap, edge |-> Edge,
   behind |-> Behind, unreleased |-> Unreleased]
===============================================================================
