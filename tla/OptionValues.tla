---------------------------- MODULE OptionValues ----------------------------
(***************************************************************************)
(* What option.c makes of the value of one option.  A Ruby value is a      *)
(* record of its kind and a number: the integer itself, 1 or 0 for true    *)
(* and false, the place of a symbol in STRATEGIES or 0 when it is not in   *)
(* it, the identity of a dictionary.  An int of C holds the numbers from   *)
(* -HalfRange to HalfRange - 1, an unsigned int those up to twice as many. *)
(***************************************************************************)
EXTENDS Integers

CONSTANTS
  HalfRange,       \* 2^31 in C
  FixnumRange,     \* 2^62: an Integer outside is not a Fixnum
  StrategiesCount  \* the strategies of libzstd, numbered from 1

ASSUME RangeAssumption ==
  /\ HalfRange \in Nat \ {0} /\ FixnumRange \in Nat /\ HalfRange <= FixnumRange
  /\ StrategiesCount \in 1 .. HalfRange - 1

Kinds == {"nil", "integer", "bool", "symbol", "dictionary", "other"}
Types == {"INT", "UINT", "BOOL", "STRATEGY", "ULL", "DICTIONARY"}

Value == [kind : Kinds, number : Int]
Nil == [kind |-> "nil", number |-> 0]

\* zstds_ext_option_t, and the ull and dictionary options alike.
Option == [has_value : BOOLEAN, value : Int]
NoValue == [has_value |-> FALSE, value |-> 0]

\* A number as unsigned int, and an unsigned int as int.
ToUnsigned(n) == IF n < 0 THEN n + 2 * HalfRange ELSE n
ToInt(n) == IF n >= HalfRange THEN n - 2 * HalfRange ELSE n

Fixnum(v) == v.kind = "integer" /\ v.number \in -FixnumRange .. FixnumRange - 1

\* Check_Type: the value is not of the class the conversion takes.
WrongType(type, v) ==
  \/ type \in {"INT", "UINT", "ULL"} /\ ~Fixnum(v)
  \/ type = "STRATEGY" /\ v.kind # "symbol"

\* NUM2INT, NUM2UINT: the number does not fit.
OutOfRange(type, v) ==
  \/ type = "INT" /\ v.number \notin -HalfRange .. HalfRange - 1
  \/ type = "UINT" /\ v.number \notin -HalfRange .. 2 * HalfRange - 1

\* What get_bool_value, get_strategy_value and resolve_dictionary_option refuse.
Invalid(type, v) ==
  \/ type = "BOOL" /\ v.kind # "bool"
  \/ type = "STRATEGY" /\ v.number \notin 1 .. StrategiesCount
  \/ type = "DICTIONARY" /\ v.kind # "dictionary"

HasValue(v) == v # Nil

\* The exception a value raises in zstds_ext_resolve_option.
ConversionError(type, v) ==
  IF ~HasValue(v) THEN "none"
  ELSE IF WrongType(type, v) THEN "TypeError"
  ELSE IF OutOfRange(type, v) THEN "RangeError"
  ELSE IF Invalid(type, v) THEN "ValidateError"
  ELSE "none"

\* Mutant: an unsigned value keeps only the bits an int has without its sign.
ConvertedNarrow(type, v) ==
  IF HasValue(v)
  THEN [has_value |-> TRUE, value |-> IF type = "UINT" THEN v.number % HalfRange ELSE v.number]
  ELSE NoValue

\* Mutant: the strategies are numbered from 0.
ConvertedFromZero(type, v) ==
  IF HasValue(v)
  THEN [has_value |-> TRUE, value |-> IF type = "STRATEGY" THEN v.number - 1 ELSE v.number]
  ELSE NoValue

\* The option that zstds_ext_resolve_option fills in.
Converted(type, v) ==
  IF HasValue(v)
  THEN [has_value |-> TRUE,
        value |-> IF type = "UINT" THEN ToInt(ToUnsigned(v.number)) ELSE v.number]
  ELSE NoValue
=============================================================================
