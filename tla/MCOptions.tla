----------------------------- MODULE MCOptions -----------------------------
(***************************************************************************)
(* An int of three bits and a Fixnum of six, an option of every type, and  *)
(* numbers on both sides of every boundary.                                *)
(***************************************************************************)
EXTENDS Options

SmallCompressorOptions ==
  <<"compression_level", "window_log", "strategy", "checksum_flag", "pledged_size", "dictionary">>
SmallDecompressorOptions == <<"window_log_max", "dictionary">>

SmallType ==
  [p \in {SmallCompressorOptions[i] : i \in 1 .. 6} \union {"window_log_max"} |->
     CASE p = "compression_level"              -> "INT"
       [] p \in {"window_log", "window_log_max"} -> "UINT"
       [] p = "strategy"                       -> "STRATEGY"
       [] p = "checksum_flag"                  -> "BOOL"
       [] p = "pledged_size"                   -> "ULL"
       [] p = "dictionary"                     -> "DICTIONARY"]

BoundedNames == {"compression_level", "window_log", "strategy", "checksum_flag", "window_log_max"}
SmallLower ==
  [p \in BoundedNames |->
     CASE p = "compression_level" -> -3 [] p = "checksum_flag" -> 0 [] OTHER -> 1]
SmallUpper ==
  [p \in BoundedNames |-> CASE p = "checksum_flag" -> 1 [] p = "strategy" -> 2 [] OTHER -> 3]

\* As libzstd has it: the logs take 0 for the default, and it clamps the level
\* and reads a flag as zero or not.
SmallZeroIsDefault == {"window_log", "strategy", "window_log_max"}
SmallLenient == {"compression_level", "checksum_flag"}

SmallValues ==
  {Nil, [kind |-> "other", number |-> 0]}
  \union [kind : {"integer"}, number : {-33, -32, -5, -4, -3, -1, 0, 1, 3, 4, 7, 8, 31, 32}]
  \union [kind : {"bool"}, number : {0, 1}]
  \union [kind : {"symbol"}, number : 0 .. 2]
  \union [kind : {"dictionary"}, number : {1}]
=============================================================================
