----------------------------- MODULE MCInterpreter -----------------------------
(***************************************************************************)
(* Orders of three nodes and two edges, the actions placed on them in      *)
(* every way, released and sent in one to three messages.                  *)
(***************************************************************************)
EXTENDS OrderMeaning

CONSTANTS hard, soft,  \* a HARD and a SOFT action
          quick, idle  \* two that do not block

Blocking == [a \in Action |-> CASE a = hard -> "HARD" [] a = soft -> "SOFT" [] OTHER -> "NONE"]

Count == Cardinality(Action)

\* The actions in a row, quick before idle, which are alike, and the sequence id of the
\* element each of them is on.
Rows   == {p \in [1..Count -> Action] :
             IsInjective(p) /\ AntiFunction(p)[quick] < AntiFunction(p)[idle]}
Places == {f \in [1..Count -> 0..4] : \A i \in 2..Count : f[i - 1] <= f[i]}

\* The element with sequence id n of a message with the base up to base.
ElementAt(p, f, n, base) ==
  LET here == {i \in DOMAIN f : f[i] = n}
  IN [seq |-> n, released |-> n <= base,
      actions |-> IF here = {} THEN <<>> ELSE SubSeq(p, Min(here), Max(here))]

\* The message with the elements from first to last.
MessageOf(p, f, u, first, base, last) ==
  [update |-> u,
   nodes  |-> [k \in 1..((last - first) \div 2 + 1) |-> ElementAt(p, f, first + 2 * k - 2, base)],
   edges  |-> [k \in 1..((last - first + 1) \div 2) |-> ElementAt(p, f, first + 2 * k - 1, base)]]

\* Where the base and the whole of each message end.  Those with an odd number end in an
\* edge and are refused.
Ends == {<<<<4, 4>>>>, <<<<2, 4>>>>, <<<<0, 4>>, <<4, 4>>>>, <<<<2, 2>>, <<4, 4>>>>,
         <<<<0, 2>>, <<2, 4>>, <<4, 4>>>>, <<<<3, 4>>>>, <<<<2, 2>>, <<3, 3>>>>, <<<<2, 3>>>>,
         <<<<0, 3>>>>}

AllDeliveries ==
  {[i \in DOMAIN e |-> MessageOf(p, f, i - 1, IF i = 1 THEN 0 ELSE e[i - 1][1], e[i][1], e[i][2])]
     : p \in Rows, f \in Places, e \in Ends}
===============================================================================
