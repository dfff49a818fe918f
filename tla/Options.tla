------------------------------ MODULE Options ------------------------------
(***************************************************************************)
(* The way of the options of a compressor or a decompressor: option.rb and *)
(* raw/compressor.rb validate them, option.c converts them one by one      *)
(* before there is a context, and hands them one by one to the context.    *)
(* An exception ends the call at once; when the context refuses a value    *)
(* the caller frees it first.                                              *)
(***************************************************************************)
EXTENDS OptionValues, Sequences, Errors

CONSTANTS
  CompressorOptions,    \* the options in the order of set_compressor_options
  DecompressorOptions,  \* the options in the order of set_decompressor_options
  Type,                 \* the type of each option
  Lower, Upper,         \* the bounds libzstd has for the options it has bounds for
  ZeroIsDefault,        \* the options for which libzstd takes 0 as "use the default"
  Lenient,              \* the options of which libzstd refuses no number
  Values,               \* the values a user gives
  Faults                \* no memory, or a corrupted dictionary

Names == {CompressorOptions[i] : i \in DOMAIN CompressorOptions}
         \union {DecompressorOptions[i] : i \in DOMAIN DecompressorOptions}

Bounded == {"INT", "UINT", "BOOL", "STRATEGY"}

Distinct(s) == \A i, j \in DOMAIN s : s[i] = s[j] => i = j

ASSUME OptionsAssumption ==
  /\ CompressorOptions \in Seq(Names) /\ Distinct(CompressorOptions)
  /\ DecompressorOptions \in Seq(Names) /\ Distinct(DecompressorOptions)
  /\ Type \in [Names -> Types]
  /\ ZeroIsDefault \subseteq Names /\ Lenient \subseteq Names
  /\ Values \subseteq Value /\ Nil \in Values
  /\ \A v \in Values : v.kind = "bool" => v.number \in {0, 1}
  /\ Faults \in BOOLEAN

\* What option.c takes for granted of the bounds of libzstd: they are ints,
\* and not negative for an option it calls unsigned.
ASSUME BoundsAssumption ==
  \A p \in Names : Type[p] \in Bounded =>
    /\ Lower[p] \in -HalfRange .. HalfRange - 1 /\ Upper[p] \in -HalfRange .. HalfRange - 1
    /\ Type[p] = "UINT" => Lower[p] >= 0 /\ Upper[p] >= 0
    /\ Type[p] = "BOOL" => Lower[p] <= 0 /\ Upper[p] >= 1
    /\ Type[p] = "STRATEGY" => Lower[p] <= 1 /\ Upper[p] >= StrategiesCount

VARIABLES
  pc,         \* the place in the code
  direction,  \* "compressor" or "decompressor"
  next,       \* the index of the option that is looked at
  raw,        \* what the user gave
  resolved,   \* compressor_options, decompressor_options
  told,       \* what the context was given
  held,       \* there is a context
  result      \* "none", then "ok" or the exception

vars == <<pc, direction, next, raw, resolved, told, held, result>>

Exceptions == {"ValidateError", "TypeError", "RangeError", "AllocateError",
               "CorruptedDictionaryError", "UnexpectedError"}

Init ==
  /\ pc = "validate"
  /\ direction \in {"compressor", "decompressor"}
  /\ next = 1
  /\ raw = [p \in Names |-> Nil]
  /\ resolved = [p \in Names |-> NoValue]
  /\ told = [p \in Names |-> NoValue]
  /\ held = FALSE
  /\ result = "none"

Order == IF direction = "compressor" THEN CompressorOptions ELSE DecompressorOptions

\* The option at hand, and the step to the one behind it.
Current == Order[next]
At(place) == pc = place /\ next \in DOMAIN Order
Advance == next' = next + 1 /\ UNCHANGED <<pc, direction, result>>

\* All options have passed one place of the code.
Passed(place, successor) ==
  /\ pc = place /\ next > Len(Order)
  /\ pc' = successor /\ next' = 1

Raise(exception) == result' = exception /\ pc' = "returned" /\ UNCHANGED <<direction, next>>

-----------------------------------------------------------------------------
\* Mutant: the bounds of every option are exported as unsigned.
ExportedUnsigned(p, bound) == ToUnsigned(bound)

\* MIN_ and MAX_ constants: EXPORT_PARAM_BOUNDS.
Exported(p, bound) == IF Type[p] = "UINT" THEN ToUnsigned(bound) ELSE bound

\* Mutant: the number behind the last one is let through.
InRangeAndOne(p, n) == n \in Exported(p, Lower[p]) .. Exported(p, Upper[p]) + 1

InRange(p, n) == n \in Exported(p, Lower[p]) .. Exported(p, Upper[p])

\* What get_compressor_options and get_decompressor_options let through.
Valid(p, v) ==
  \/ v = Nil
  \/ Type[p] \in {"INT", "UINT"} /\ v.kind = "integer" /\ InRange(p, v.number)
  \/ Type[p] = "BOOL" /\ v.kind = "bool"
  \/ Type[p] = "STRATEGY" /\ v.kind = "symbol" /\ v.number \in 1 .. StrategiesCount
  \/ Type[p] = "ULL" /\ v.kind = "integer" /\ v.number >= 0
  \/ Type[p] = "DICTIONARY" /\ (v.kind = "dictionary" \/ direction = "decompressor")

ValidateOption ==
  /\ At("validate")
  /\ \E v \in Values :
       /\ raw' = [raw EXCEPT ![Current] = v]
       /\ IF Valid(Current, v) THEN Advance ELSE Raise("ValidateError")
  /\ UNCHANGED <<resolved, told, held>>

Validated ==
  /\ Passed("validate", "resolve")
  /\ UNCHANGED <<direction, raw, resolved, told, held, result>>

\* ZSTDS_EXT_GET_COMPRESSOR_OPTIONS, ZSTDS_EXT_GET_DECOMPRESSOR_OPTIONS.
ResolveOption ==
  /\ At("resolve")
  /\ LET error == ConversionError(Type[Current], raw[Current])
     IN  IF error = "none"
         THEN /\ resolved' = [resolved EXCEPT ![Current] = Converted(Type[Current], raw[Current])]
              /\ Advance
         ELSE Raise(error) /\ UNCHANGED resolved
  /\ UNCHANGED <<raw, told, held>>

\* ZSTD_createCCtx, ZSTD_createDCtx.
CreateContext ==
  /\ \/ Passed("resolve", "set") /\ held' = TRUE /\ UNCHANGED <<direction, result>>
     \/ /\ Faults
        /\ pc = "resolve" /\ next > Len(Order)
        /\ Raise(ExceptionOf("ALLOCATE_FAILED")) /\ UNCHANGED held
  /\ UNCHANGED <<raw, resolved, told>>

-----------------------------------------------------------------------------
\* What a context takes: the numbers within the bounds, zero where it means the
\* default, and where libzstd clamps (or looks for zero only) every number.
Takes(p, n) ==
  \/ n \in Lower[p] .. Upper[p]
  \/ p \in ZeroIsDefault /\ n = 0
  \/ p \in Lenient

\* The codes with which a context may refuse a value.
Refusals(p, n) ==
  CASE Type[p] = "DICTIONARY" -> IF Faults THEN {"memory_allocation", "dictionary_corrupted"} ELSE {}
    [] Type[p] \in Bounded    -> IF Takes(p, n) THEN {} ELSE {"parameter_outOfBound"}
    [] OTHER                  -> {}

\* The value may be accepted.
Acceptable(p, n) == Type[p] \in Bounded => Takes(p, n)

\* SET_OPTION_VALUE, ZSTD_CCtx_setPledgedSrcSize, ZSTD_CCtx_loadDictionary.
SetOption ==
  /\ At("set")
  /\ LET option == resolved[Current]
     IN  \/ ~option.has_value /\ UNCHANGED told
         \/ /\ option.has_value /\ Acceptable(Current, option.value)
            /\ told' = [told EXCEPT ![Current] = option]
  /\ Advance
  /\ UNCHANGED <<raw, resolved, held>>

\* Mutant: the caller does not free the context.
SetRefusedKept ==
  /\ At("set") /\ resolved[Current].has_value
  /\ \E code \in Refusals(Current, resolved[Current].value) : Raise(ExceptionOf(GetError(code)))
  /\ UNCHANGED <<raw, resolved, told, held>>

\* The context refuses, the caller frees it and raises the error.
SetRefused ==
  /\ At("set") /\ resolved[Current].has_value
  /\ \E code \in Refusals(Current, resolved[Current].value) : Raise(ExceptionOf(GetError(code)))
  /\ held' = FALSE
  /\ UNCHANGED <<raw, resolved, told>>

Ready ==
  /\ Passed("set", "ready")
  /\ result' = "ok"
  /\ UNCHANGED <<direction, raw, resolved, told, held>>

Done == pc \in {"ready", "returned"} /\ UNCHANGED vars

Next ==
  \/ ValidateOption \/ Validated \/ ResolveOption \/ CreateContext
  \/ SetOption \/ SetRefused \/ Ready \/ Done

Spec == Init /\ [][Next]_vars

-----------------------------------------------------------------------------
\* What the variables hold.
TypeOK ==
  /\ pc \in {"validate", "resolve", "set", "ready", "returned"}
  /\ direction \in {"compressor", "decompressor"}
  /\ next \in 1 .. Len(Order) + 1
  /\ raw \in [Names -> Values]
  /\ resolved \in [Names -> Option] /\ told \in [Names -> Option]
  /\ held \in BOOLEAN
  /\ result \in {"none", "ok"} \union Exceptions

\* What a context should be given for a value.
AsGiven(v) == IF v = Nil THEN NoValue ELSE [has_value |-> TRUE, value |-> v.number]

\* A context that is ready was told every option with the number the user
\* wrote, and none the user left out: the conversions through unsigned int and
\* int (option.c:90-108) change no number, and a zero is told as a zero, never
\* taken for an option that was left out.  What a zero then means is libzstd's:
\* the default of a parameter, but a source of no bytes as a pledged size.
AppliedAsGiven ==
  pc = "ready" => \A i \in DOMAIN Order : told[Order[i]] = AsGiven(raw[Order[i]])

\* A number that libzstd takes as it is, or for the default of the option.
Meant(p, n) == n \in Lower[p] .. Upper[p] \/ (p \in ZeroIsDefault /\ n = 0)

\* A value of the right kind that libzstd would take without clamping it.
Proper(p, v) ==
  \/ v = Nil
  \/ Type[p] \in {"INT", "UINT"} /\ v.kind = "integer" /\ Meant(p, v.number)
  \/ Type[p] = "BOOL" /\ v.kind = "bool"
  \/ Type[p] = "STRATEGY" /\ v.kind = "symbol" /\ v.number \in 1 .. StrategiesCount
  \/ Type[p] = "ULL" /\ v.kind = "integer" /\ v.number >= 0
  \/ Type[p] = "DICTIONARY" /\ v.kind = "dictionary"

\* The zero of an option whose least value is another number.
ZeroBelow(p, v) ==
  /\ Type[p] \in {"INT", "UINT"} /\ v.kind = "integer" /\ v.number = 0
  /\ 0 \notin Lower[p] .. Upper[p]

\* Ruby calls nothing invalid that libzstd would take, but one thing: the zero
\* for "default" of an option with a lower bound above it, which
\* option.rb:120-125 and others refuse.  Apart from it the constants of option.c:247-280
\* and the comparisons of option.rb leave no number out.
RefusedMeansWrong ==
  result = "ValidateError" =>
    \E i \in DOMAIN Order :
      ~Proper(Order[i], raw[Order[i]]) \/ ZeroBelow(Order[i], raw[Order[i]])

\* Options that Ruby has validated are refused later only for what Ruby does
\* not look at: an integer too large for a Fixnum where there is no maximum,
\* and the class of the dictionary of a decompressor (option.rb:242-263).
NothingLate ==
  pc = "returned" /\ (\A i \in DOMAIN Order : Valid(Order[i], raw[Order[i]])) =>
    \/ result \in {"AllocateError", "CorruptedDictionaryError"} /\ Faults
    \/ result = "TypeError" /\ Type[Current] = "ULL" /\ ~Fixnum(raw[Current])
    \/ result = "ValidateError" /\ Type[Current] = "DICTIONARY" /\ direction = "decompressor"

\* Whatever is refused, no context is left behind: exceptions of option.c come
\* before it is made (compressor.c:50-54), refusals of libzstd free it.
NoLeak == pc = "returned" => ~held
=============================================================================
