------------------------------ MODULE MCTracer ------------------------------
(* Instances of Tracer for TLC.                                              *)
EXTENDS Tracer

\* Two signals, each with a name of its own: two streams are open on a file when a
\* signal was added twice.  Their lines are not as wide as each other.
Short == [s \in Signals |-> s]
Widths == [s \in Signals |-> IF s = "a.out" THEN 1 ELSE 2]

\* In the larger a line of two cells fits once and one of one cell more than once;
\* of the other there is no array.
NegativeToo == {-1, 3}
=============================================================================
