---------------------------- MODULE MCDictionary ----------------------------
(***************************************************************************)
(* Values for the options of finalize: numbers on both sides of the        *)
(* boundaries of an int of three bits and of the least and the greatest    *)
(* level, nil, and something that is no number.                            *)
(***************************************************************************)
EXTENDS Dictionary

\* A configuration has no negative numbers.
LeastLevel == -2

SmallValues ==
  {Nil, [kind |-> "other", number |-> 0]}
  \union [kind : {"integer"}, number : {-5, -3, -1, 0, 2, 3, 6, 8}]
=============================================================================
