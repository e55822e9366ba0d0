----------------------------- MODULE MCCommands -----------------------------
(* An instance of Commands for TLC.                                         *)
EXTENDS Commands

\* A bound function that takes two parameters of different types; a setter or a
\* getter of one of the attributes that it sets, a bound function that takes two
\* parameters of one type, and one that prints.
Some == [n \in {"f", "g"} |->
           IF n = "f" THEN {CommandVoid2("INT", "MATRIX4D")}
           ELSE {IntegralSetter("INT"), CommandVoid2("INT", "INT"),
                 DirectGetter("INT"), CommandVerbose}]
=============================================================================
