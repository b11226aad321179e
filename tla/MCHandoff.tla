----------------------------- MODULE MCHandoff -----------------------------
(***************************************************************************)
(* A small instance of Handoff.                                            *)
(***************************************************************************)
EXTENDS Handoff

CONSTANTS s1, s2, t1, t2   \* the sets and the threads
Call(op, self, other, id) == [op |-> op, self |-> self, other |-> other, id |-> id]
On(s, ops, ids) == {Call(op, s, s, x) : op \in ops, x \in ids}

\* Both threads put into s1 and race for what is in it; the first also fills s2,
\* moves it to s1 and clears it, the second reads s1 and drains it.
TwoParts ==
  [t \in {t1, t2} |->
     On(s1, {"pop_first"}, {0}) \cup
     IF t = t1
     THEN On(s1, {"insert"}, Slots) \cup On(s2, {"insert"}, {1})
          \cup On(s2, {"clear"}, {0}) \cup {Call("append", s1, s2, 0)}
     ELSE On(s1, {"insert", "remove", "contains", "iter"}, {1}) \cup On(s1, {"drain"}, {0})]

=============================================================================
