---------------------------- MODULE MCSignalPtr ----------------------------
(* Instances of SignalPtr for TLC.                                          *)
EXTENDS SignalPtr, TLC

CONSTANTS p1, p2, deriv, other

\* Two pointers to B, a signal of a type D derived from B, and one of a type
\* that has nothing to do with either.
Types == p1 :> "B" @@ p2 :> "B" @@ deriv :> "D" @@ other :> "O"
DerivedFrom == {<<"D", "B">>}
=============================================================================
