--------------------------- MODULE MCSignalCaster ---------------------------
(* Instances of SignalCaster for TLC.                                        *)
EXTENDS SignalCaster

Readers == [t \in {"Vector", "Matrix", "double"} |->
              CASE t = "Vector" -> "vector" [] t = "Matrix" -> "matrix" [] t = "double" -> "double"]
Homes == [t \in {"Vector", "Matrix", "double"} |-> "lib1"]

Marks == {"[", "]", "(", ")", ",", " "}

\* A text, its beginnings, and what one mistake makes of it.
Mistyped(text) ==
  {text} \cup Prefixes(text)
  \cup {RemoveAt(text, i) : i \in DOMAIN text}
  \cup {ReplaceAt(text, i, c) : i \in DOMAIN text, c \in Marks \cup {"2", "3"}}
  \cup {InsertAt(text, i, c) : i \in DOMAIN text, c \in Marks}

TextsOf ==
  [t \in {"Vector", "Matrix", "double"} |->
     CASE t = "Vector" -> Mistyped(<<"[", "2", "]", "(", "1", ",", "3", ")">>)
                          \cup Mistyped(<<"[", "1", "]", "(", "0", "1", "2", ")">>)
       [] t = "Matrix" -> Mistyped(<<"[", "1", ",", "2", "]", "(", "(", "1", " ", "3", ")", ")">>)
       [] t = "double" -> {<<"nan">>, <<"-inf">>, <<"+inf">>, <<"1", "2">>, <<"2", "0", "3">>, <<" ", "1", " ", "2">>,
                           <<>>, <<"1", "(">>, <<"nan", "1">>}]
=============================================================================
