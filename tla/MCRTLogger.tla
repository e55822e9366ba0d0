----------------------------- MODULE MCRTLogger -----------------------------
(* Model values for the runs of RTLogger.                                   *)
EXTENDS RTLogger

CONSTANTS w1, w2, s1, s2
=============================================================================
