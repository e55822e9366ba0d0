--------------------------- MODULE MCSignalGraph ----------------------------
(* Graphs of signals for the runs of SignalGraph.                           *)
EXTENDS SignalGraph, TLC

CONSTANTS c, r, a, b, out

AllConst(x) == [s \in Signals |-> x]

\* A source read by two functions, whose results a third one reads.
DiamondInputs == c :> <<>> @@ a :> <<c>> @@ b :> <<c>> @@ out :> <<a, b>>
DiamondTypes  == c :> "CONSTANT" @@ a :> "FUNCTION" @@ b :> "FUNCTION" @@ out :> "FUNCTION"

\* Two sources, each read by one function only, and a chain above one of them.
ChainInputs == c :> <<>> @@ r :> <<>> @@ a :> <<c>> @@ out :> <<a, r>>
ChainTypes  == c :> "CONSTANT" @@ r :> "REFERENCE" @@ a :> "FUNCTION" @@ out :> "FUNCTION"

\* Two constants, a function that waits for both, one without notion of time,
\* and a slower one above them.
KindsInputs == c :> <<>> @@ r :> <<>> @@ a :> <<c, r>> @@ b :> <<c>> @@ out :> <<a, b>>
KindsTypes  == c :> "CONSTANT" @@ r :> "CONSTANT" @@ a :> "FUNCTION"
               @@ b :> "FUNCTION" @@ out :> "FUNCTION"
KindsKind   == [AllConst("TIME_DEPENDENT") EXCEPT ![b] = "BOOL_DEPENDENT"]
KindsPeriod == [AllConst(1) EXCEPT ![out] = 2]

TimeKind == AllConst("TIME_DEPENDENT")
Period1  == AllConst(1)
=============================================================================
