---------------------------- MODULE MCEntityPool ----------------------------
(* Instances of EntityPool for TLC.                                         *)
EXTENDS EntityPool, TLC

\* The third signal of an entity has the name of the first.
Named == <<"in", "out", "in">>

\* Addresses are alike, and so are names and classes.
Alike == Permutations(Addresses) \cup Permutations(Names) \cup Permutations(Classes)
=============================================================================
