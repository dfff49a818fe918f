--------------------------- MODULE Options_proofs ---------------------------
(***************************************************************************)
(* Theorems of Options for every list of options, every type, all bounds   *)
(* and all values.                                                         *)
(***************************************************************************)
EXTENDS Options, TLAPS

USE RangeAssumption, OptionsAssumption, BoundsAssumption

\* The order of the options at hand is one of the two lists.
LEMMA OrderFacts ==
  ASSUME direction \in {"compressor", "decompressor"}
  PROVE  /\ Order \in Seq(Names) /\ Distinct(Order)
         /\ Len(Order) \in Nat /\ DOMAIN Order = 1 .. Len(Order)
         /\ \A i \in DOMAIN Order : Order[i] \in Names
BY DEF Order

\* Exporting a bound does not change it.
LEMMA ExportedBounds ==
  ASSUME NEW p \in Names, Type[p] \in Bounded
  PROVE  Exported(p, Lower[p]) = Lower[p] /\ Exported(p, Upper[p]) = Upper[p]
BY DEF Exported, ToUnsigned

\* A number that Ruby lets through is within the bounds of libzstd.
LEMMA ValidBounded ==
  ASSUME NEW p \in Names, Type[p] \in Bounded, NEW v \in Values, v # Nil, Valid(p, v)
  PROVE  v.number \in Lower[p] .. Upper[p]
<1>1. v.number \in Int
  BY DEF Value
<1>2. CASE Type[p] \in {"INT", "UINT"}
  BY <1>2, ExportedBounds DEF Valid, InRange
<1>3. CASE Type[p] = "BOOL"
  <2>1. v.number \in {0, 1} /\ Lower[p] <= 0 /\ Upper[p] >= 1 /\ Lower[p] \in Int /\ Upper[p] \in Int
    BY <1>3 DEF Valid, Bounded
  <2> QED BY <2>1
<1>4. CASE Type[p] = "STRATEGY"
  <2>1. /\ v.number \in 1 .. StrategiesCount
        /\ Lower[p] <= 1 /\ Upper[p] >= StrategiesCount /\ Lower[p] \in Int /\ Upper[p] \in Int
    BY <1>4 DEF Valid, Bounded
  <2> QED BY <1>1, <2>1
<1> QED BY <1>2, <1>3, <1>4 DEF Bounded

\* What Ruby lets through is converted without a change.
LEMMA ValidConverts ==
  ASSUME NEW p \in Names, NEW v \in Values, Valid(p, v)
  PROVE  Converted(Type[p], v) = AsGiven(v)
<1>1. CASE v = Nil
  BY <1>1 DEF Converted, AsGiven, HasValue
<1>2. CASE v # Nil /\ Type[p] = "UINT"
  <2>1. /\ v.number \in Lower[p] .. Upper[p] /\ v.number \in Int
        /\ Lower[p] \in Int /\ Upper[p] \in Int /\ Lower[p] >= 0 /\ Upper[p] < HalfRange
    BY <1>2, ValidBounded DEF Bounded, Value
  <2>2. v.number >= 0 /\ v.number < HalfRange
    BY <2>1
  <2>3. ToUnsigned(v.number) = v.number
    BY <2>1, <2>2 DEF ToUnsigned
  <2>4. ToInt(v.number) = v.number
    BY <2>1, <2>2 DEF ToInt
  <2> QED BY <1>2, <2>3, <2>4 DEF Converted, AsGiven, HasValue
<1>3. CASE v # Nil /\ Type[p] # "UINT"
  BY <1>3 DEF Converted, AsGiven, HasValue
<1> QED BY <1>1, <1>2, <1>3

\* What Ruby lets through fails to convert only where Ruby does not look.
LEMMA ValidConversionError ==
  ASSUME NEW p \in Names, NEW v \in Values, Valid(p, v), ConversionError(Type[p], v) # "none"
  PROVE  \/ ConversionError(Type[p], v) = "TypeError" /\ Type[p] = "ULL" /\ ~Fixnum(v)
         \/ /\ ConversionError(Type[p], v) = "ValidateError" /\ Type[p] = "DICTIONARY"
            /\ direction = "decompressor"
<1>1. v # Nil /\ HasValue(v) /\ v.number \in Int
  <2>1. HasValue(v)
    BY DEF ConversionError
  <2>2. v \in Value
    OBVIOUS
  <2> QED BY <2>1, <2>2 DEF HasValue, Value
<1>2. CASE Type[p] \in {"INT", "UINT"}
  <2>1. /\ v.kind = "integer" /\ v.number \in Lower[p] .. Upper[p]
        /\ Lower[p] \in -HalfRange .. HalfRange - 1 /\ Upper[p] \in -HalfRange .. HalfRange - 1
    BY <1>1, <1>2, ValidBounded DEF Valid, Bounded
  <2>2. v.number \in -HalfRange .. HalfRange - 1
    BY <1>1, <2>1
  <2>3. /\ v.number \in -FixnumRange .. FixnumRange - 1
        /\ v.number \in -HalfRange .. 2 * HalfRange - 1
    BY <1>1, <2>2
  <2>4. ~WrongType(Type[p], v) /\ ~OutOfRange(Type[p], v) /\ ~Invalid(Type[p], v)
    BY <1>2, <2>1, <2>2, <2>3 DEF WrongType, Fixnum, OutOfRange, Invalid
  <2> QED BY <2>4 DEF ConversionError
<1>3. CASE Type[p] \in {"BOOL", "STRATEGY"}
  <2>1. ~WrongType(Type[p], v) /\ ~OutOfRange(Type[p], v) /\ ~Invalid(Type[p], v)
    BY <1>1, <1>3 DEF Valid, WrongType, OutOfRange, Invalid
  <2> QED BY <2>1 DEF ConversionError
<1>4. CASE Type[p] = "ULL"
  <2>1. ~OutOfRange(Type[p], v) /\ ~Invalid(Type[p], v)
    BY <1>4 DEF OutOfRange, Invalid
  <2>2. WrongType(Type[p], v) => ~Fixnum(v)
    BY <1>4 DEF WrongType
  <2> QED BY <1>1, <1>4, <2>1, <2>2 DEF ConversionError
<1>5. CASE Type[p] = "DICTIONARY"
  <2>1. ~WrongType(Type[p], v) /\ ~OutOfRange(Type[p], v)
    BY <1>5 DEF WrongType, OutOfRange
  <2>2. Invalid(Type[p], v) => direction = "decompressor"
    BY <1>1, <1>5 DEF Invalid, Valid
  <2> QED BY <1>1, <1>5, <2>1, <2>2 DEF ConversionError
<1> QED BY <1>2, <1>3, <1>4, <1>5 DEF Types

\* What libzstd would take, Ruby lets through, but for a zero below the bounds.
LEMMA ProperIsValid ==
  ASSUME NEW p \in Names, NEW v \in Values, Proper(p, v), ~ZeroBelow(p, v)
  PROVE  Valid(p, v)
<1>1. CASE Type[p] \in {"INT", "UINT"}
  <2>1. v = Nil \/ (v.kind = "integer" /\ v.number \in Lower[p] .. Upper[p])
    BY <1>1 DEF Proper, Meant, ZeroBelow
  <2> QED BY <1>1, <2>1, ExportedBounds DEF Valid, InRange, Bounded
<1>2. CASE Type[p] \notin {"INT", "UINT"}
  BY <1>2 DEF Proper, Valid
<1> QED BY <1>1, <1>2

\* The exceptions of the codes a context refuses with.
LEMMA RefusalExceptions ==
  /\ ExceptionOf(GetError("parameter_outOfBound")) = "ValidateError"
  /\ ExceptionOf(GetError("memory_allocation")) = "AllocateError"
  /\ ExceptionOf(GetError("dictionary_corrupted")) = "CorruptedDictionaryError"
<1>1. GetError("parameter_outOfBound") = "VALIDATE_FAILED"
  BY DEF GetError, ValidateCodes, CorruptedSourceCodes, CorruptedDictionaryCodes
<1>2. GetError("memory_allocation") = "ALLOCATE_FAILED"
  BY DEF GetError, ValidateCodes, CorruptedSourceCodes, CorruptedDictionaryCodes
<1>3. GetError("dictionary_corrupted") = "CORRUPTED_DICTIONARY"
  BY DEF GetError, ValidateCodes, CorruptedSourceCodes, CorruptedDictionaryCodes
<1> QED BY <1>1, <1>2, <1>3 DEF ExceptionOf

\* A value that Ruby lets through and that fails to convert is not proper.
LEMMA LateIsWrong ==
  ASSUME NEW p \in Names, NEW v \in Values, Valid(p, v),
         ConversionError(Type[p], v) = "ValidateError"
  PROVE  ~Proper(p, v)
<1>1. Type[p] = "DICTIONARY"
  BY ValidConversionError
<1>2. HasValue(v) /\ Invalid(Type[p], v)
  BY DEF ConversionError
<1> QED BY <1>1, <1>2 DEF Proper, HasValue, Invalid

-----------------------------------------------------------------------------
\* The context knows nothing before it is made, and behind that the options
\* up to the one at hand.
ToldSoFar ==
  /\ pc \in {"validate", "resolve"} => told = [p \in Names |-> NoValue]
  /\ pc = "set" => \A i \in DOMAIN Order :
       told[Order[i]] = IF i < next THEN AsGiven(raw[Order[i]]) ELSE NoValue
  /\ pc = "ready" => \A i \in DOMAIN Order : told[Order[i]] = AsGiven(raw[Order[i]])

\* The options up to the one at hand hold what the user wrote.
ResolvedSoFar ==
  /\ pc = "resolve" => \A i \in DOMAIN Order :
       i < next => resolved[Order[i]] = AsGiven(raw[Order[i]])
  /\ pc = "set" => \A i \in DOMAIN Order : resolved[Order[i]] = AsGiven(raw[Order[i]])

\* The values up to the one at hand are those Ruby lets through.
ValidSoFar ==
  /\ pc = "validate" => \A i \in DOMAIN Order : i < next => Valid(Order[i], raw[Order[i]])
  /\ pc \in {"resolve", "set", "ready"} => \A i \in DOMAIN Order : Valid(Order[i], raw[Order[i]])

\* Why the call has raised: Ruby refuses a value, or option.c one that Ruby let
\* through, or libzstd has no memory or no use for the dictionary.
Reason ==
  \/ result = "ValidateError" /\ next \in DOMAIN Order /\ ~Valid(Current, raw[Current])
  \/ /\ next \in DOMAIN Order /\ Valid(Current, raw[Current])
     /\ result = ConversionError(Type[Current], raw[Current])
  \/ result \in {"AllocateError", "CorruptedDictionaryError"} /\ Faults

\* There is a context while it is set and when it is ready, and an outcome
\* afterwards.
Outcome ==
  /\ held <=> pc \in {"set", "ready"}
  /\ result = "none" <=> pc \in {"validate", "resolve", "set"}
  /\ result = "ok" <=> pc = "ready"
  /\ pc = "returned" => Reason

\* What every step keeps.
Progress == ToldSoFar /\ ResolvedSoFar /\ ValidSoFar /\ Outcome

Invariant == TypeOK /\ Progress

\* The invariant holds when a call begins.
LEMMA InitInvariant == Init => Invariant
<1> SUFFICES ASSUME Init PROVE Invariant
  OBVIOUS
<1>1. direction \in {"compressor", "decompressor"} /\ pc = "validate" /\ next = 1
  BY DEF Init
<1>2. TypeOK
  <2>1. next \in 1 .. Len(Order) + 1
    BY <1>1, OrderFacts
  <2>2. raw \in [Names -> Values] /\ resolved \in [Names -> Option] /\ told \in [Names -> Option]
    BY DEF Init, Option, NoValue
  <2> QED BY <2>1, <2>2 DEF Init, TypeOK
<1>3. \A i \in DOMAIN Order : ~(i < next)
  BY <1>1, OrderFacts
<1>4. Progress
  BY <1>1, <1>3 DEF Init, Progress, ToldSoFar, ResolvedSoFar, ValidSoFar, Outcome
<1> QED BY <1>2, <1>4 DEF Invariant

\* What a conversion raises, and what it is when it does not.
LEMMA ConversionFacts ==
  ASSUME NEW p \in Names, NEW v \in Values
  PROVE  /\ ConversionError(Type[p], v) \in {"none", "TypeError", "RangeError", "ValidateError"}
         /\ Converted(Type[p], v) \in Option
<1>1. v.number \in Int
  BY DEF Value
<1>2. ToInt(ToUnsigned(v.number)) \in Int
  BY <1>1 DEF ToInt, ToUnsigned
<1> QED BY <1>1, <1>2 DEF ConversionError, Converted, Option, NoValue

\* Ruby looks at one value (option.rb:100-263).
LEMMA ValidateOptionInvariant == Invariant /\ ValidateOption => Invariant'
<1> SUFFICES ASSUME Invariant, ValidateOption PROVE Invariant'
  OBVIOUS
<1>1. /\ direction' = direction /\ Order' = Order /\ pc = "validate" /\ next \in DOMAIN Order
      /\ resolved' = resolved /\ told' = told /\ held' = held
  BY DEF ValidateOption, At, Advance, Raise, Order
<1>2. direction \in {"compressor", "decompressor"} /\ raw \in [Names -> Values]
  BY DEF Invariant, TypeOK
<1>3. Current \in Names /\ next \in 1 .. Len(Order) /\ Len(Order) \in Nat
  BY <1>1, <1>2, OrderFacts DEF Current
<1>4. PICK v \in Values :
        /\ raw' = [raw EXCEPT ![Current] = v]
        /\ IF Valid(Current, v) THEN Advance ELSE Raise("ValidateError")
  BY DEF ValidateOption
<1>5. raw' \in [Names -> Values] /\ raw'[Current] = v
  BY <1>2, <1>3, <1>4
<1>6. \A i \in DOMAIN Order : i # next => raw'[Order[i]] = raw[Order[i]]
  BY <1>1, <1>2, <1>4, OrderFacts DEF Current, Distinct
<1>7. held = FALSE /\ result = "none" /\ told = [p \in Names |-> NoValue]
  BY <1>1 DEF Invariant, Progress, Outcome, ToldSoFar
<1>8. \A i \in DOMAIN Order : i < next => Valid(Order[i], raw[Order[i]])
  BY <1>1 DEF Invariant, Progress, ValidSoFar
<1>9. CASE Valid(Current, v)
  <2>1. next' = next + 1 /\ pc' = "validate" /\ result' = "none"
    BY <1>1, <1>4, <1>7, <1>9 DEF Advance
  <2>2. TypeOK'
    BY <1>1, <1>3, <1>5, <2>1 DEF Invariant, TypeOK
  <2>3. \A i \in DOMAIN Order : i < next' => Valid(Order[i], raw'[Order[i]])
    <3> SUFFICES ASSUME NEW i \in DOMAIN Order, i < next'
                 PROVE  Valid(Order[i], raw'[Order[i]])
      OBVIOUS
    <3>1. i \in Nat
      BY <1>2, OrderFacts
    <3>2. CASE i = next
      BY <1>5, <1>9, <3>2 DEF Current
    <3>3. CASE i # next
      <4>1. i < next
        BY <1>3, <2>1, <3>1, <3>3
      <4> QED BY <1>6, <1>8, <3>3, <4>1
    <3> QED BY <3>2, <3>3
  <2>4. ValidSoFar'
    BY <1>1, <2>1, <2>3 DEF ValidSoFar, Valid, InRange, Exported
  <2> QED BY <1>1, <1>7, <2>1, <2>2, <2>4
        DEF Invariant, Progress, ToldSoFar, ResolvedSoFar, Outcome
<1>10. CASE ~Valid(Current, v)
  <2>1. next' = next /\ pc' = "returned" /\ result' = "ValidateError"
    BY <1>4, <1>10 DEF Raise
  <2>2. TypeOK'
    BY <1>1, <1>3, <1>5, <2>1 DEF Invariant, TypeOK, Exceptions
  <2>3. Reason'
    BY <1>1, <1>5, <1>10, <2>1 DEF Reason, Current, Valid, InRange, Exported
  <2> QED BY <1>1, <1>7, <2>1, <2>2, <2>3
        DEF Invariant, Progress, ToldSoFar, ResolvedSoFar, ValidSoFar, Outcome
<1> QED BY <1>9, <1>10

\* Ruby has looked at all values.
LEMMA ValidatedInvariant == Invariant /\ Validated => Invariant'
<1> SUFFICES ASSUME Invariant, Validated PROVE Invariant'
  OBVIOUS
<1>1. /\ direction' = direction /\ Order' = Order /\ pc = "validate" /\ pc' = "resolve"
      /\ next > Len(Order) /\ next' = 1
      /\ raw' = raw /\ resolved' = resolved /\ told' = told /\ held' = held /\ result' = result
  BY DEF Validated, Passed, Order
<1>2. direction \in {"compressor", "decompressor"} /\ Len(Order) \in Nat /\ DOMAIN Order = 1 .. Len(Order)
  BY OrderFacts DEF Invariant, TypeOK
<1>3. \A i \in DOMAIN Order : i < next /\ ~(i < next')
  BY <1>1, <1>2 DEF Invariant, TypeOK
<1>4. \A i \in DOMAIN Order : Valid(Order[i], raw[Order[i]])
  BY <1>1, <1>3 DEF Invariant, Progress, ValidSoFar
<1>5. TypeOK'
  BY <1>1, <1>2 DEF Invariant, TypeOK
<1>6. ValidSoFar'
  BY <1>1, <1>4 DEF ValidSoFar, Valid, InRange, Exported
<1> QED BY <1>1, <1>3, <1>5, <1>6
      DEF Invariant, Progress, ToldSoFar, ResolvedSoFar, Outcome

\* option.c converts one value, or raises (option.c:12-166).
LEMMA ResolveOptionInvariant == Invariant /\ ResolveOption => Invariant'
<1> SUFFICES ASSUME Invariant, ResolveOption PROVE Invariant'
  OBVIOUS
<1>1. /\ Order' = Order /\ direction' = direction /\ pc = "resolve" /\ next \in DOMAIN Order
      /\ raw' = raw /\ told' = told /\ held' = held
  BY DEF ResolveOption, At, Advance, Raise, Order
<1>2. /\ direction \in {"compressor", "decompressor"} /\ raw \in [Names -> Values]
      /\ resolved \in [Names -> Option]
  BY DEF Invariant, TypeOK
<1>3. Current \in Names /\ next \in 1 .. Len(Order) /\ Len(Order) \in Nat
  BY <1>1, <1>2, OrderFacts DEF Current
<1>4. /\ held = FALSE /\ result = "none" /\ told = [p \in Names |-> NoValue]
      /\ \A i \in DOMAIN Order : i < next => resolved[Order[i]] = AsGiven(raw[Order[i]])
      /\ \A i \in DOMAIN Order : Valid(Order[i], raw[Order[i]])
  BY <1>1 DEF Invariant, Progress, Outcome, ToldSoFar, ResolvedSoFar, ValidSoFar
<1>5. Valid(Current, raw[Current]) /\ raw[Current] \in Values
  BY <1>1, <1>2, <1>3, <1>4 DEF Current
<1> DEFINE error == ConversionError(Type[Current], raw[Current])
<1>6. error \in {"none", "TypeError", "RangeError", "ValidateError"}
  BY <1>3, <1>5, ConversionFacts
<1>7. CASE error = "none"
  <2>1. /\ resolved' = [resolved EXCEPT ![Current] = Converted(Type[Current], raw[Current])]
        /\ next' = next + 1 /\ pc' = "resolve" /\ result' = "none"
    BY <1>1, <1>4, <1>7 DEF ResolveOption, Advance
  <2>2. Converted(Type[Current], raw[Current]) \in Option
    BY <1>3, <1>5, ConversionFacts
  <2>3. resolved' \in [Names -> Option] /\ resolved'[Current] = AsGiven(raw[Current])
    BY <1>2, <1>3, <1>5, <2>1, <2>2, ValidConverts
  <2>4. \A i \in DOMAIN Order : i # next => resolved'[Order[i]] = resolved[Order[i]]
    BY <1>1, <1>2, <2>1, OrderFacts DEF Current, Distinct
  <2>5. \A i \in DOMAIN Order : i < next' => resolved'[Order[i]] = AsGiven(raw[Order[i]])
    <3> SUFFICES ASSUME NEW i \in DOMAIN Order, i < next'
                 PROVE  resolved'[Order[i]] = AsGiven(raw[Order[i]])
      OBVIOUS
    <3>1. i \in Nat
      BY <1>2, OrderFacts
    <3>2. CASE i = next
      BY <2>3, <3>2 DEF Current
    <3>3. CASE i # next
      <4>1. i < next
        BY <1>3, <2>1, <3>1, <3>3
      <4> QED BY <1>4, <2>4, <3>3, <4>1
    <3> QED BY <3>2, <3>3
  <2>6. TypeOK'
    BY <1>1, <1>3, <2>1, <2>3 DEF Invariant, TypeOK
  <2>7. ValidSoFar'
    BY <1>1, <1>4, <2>1 DEF ValidSoFar, Valid, InRange, Exported
  <2>8. ResolvedSoFar'
    BY <1>1, <2>1, <2>5 DEF ResolvedSoFar, AsGiven
  <2> QED BY <1>1, <1>4, <2>1, <2>6, <2>7, <2>8 DEF Invariant, Progress, ToldSoFar, Outcome
<1>8. CASE error # "none"
  <2>1. next' = next /\ pc' = "returned" /\ result' = error /\ resolved' = resolved
    BY <1>8 DEF ResolveOption, Raise
  <2>2. TypeOK'
    BY <1>1, <1>3, <1>6, <1>8, <2>1 DEF Invariant, TypeOK, Exceptions
  <2>3. Valid(Current, raw[Current])'
    BY <1>1, <1>5, <2>1 DEF Valid, InRange, Exported, Current
  <2>4. result' = ConversionError(Type[Current], raw[Current])'
    BY <1>1, <2>1 DEF ConversionError, Current
  <2>5. Reason'
    BY <1>1, <2>1, <2>3, <2>4 DEF Reason
  <2> QED BY <1>1, <1>4, <1>6, <1>8, <2>1, <2>2, <2>5
        DEF Invariant, Progress, ToldSoFar, ResolvedSoFar, ValidSoFar, Outcome
<1> QED BY <1>7, <1>8

\* The context is made, or there is no memory for it (compressor.c:56-60).
LEMMA CreateContextInvariant == Invariant /\ CreateContext => Invariant'
<1> SUFFICES ASSUME Invariant, CreateContext PROVE Invariant'
  OBVIOUS
<1>1. /\ Order' = Order /\ direction' = direction /\ pc = "resolve" /\ next > Len(Order)
      /\ raw' = raw /\ resolved' = resolved /\ told' = told
  BY DEF CreateContext, Passed, Raise, Order
<1>2. direction \in {"compressor", "decompressor"} /\ Len(Order) \in Nat /\ DOMAIN Order = 1 .. Len(Order)
  BY OrderFacts DEF Invariant, TypeOK
<1>3. \A i \in DOMAIN Order : i < next /\ ~(i < 1)
  BY <1>1, <1>2 DEF Invariant, TypeOK
<1>4. /\ held = FALSE /\ result = "none" /\ told = [p \in Names |-> NoValue]
      /\ \A i \in DOMAIN Order : resolved[Order[i]] = AsGiven(raw[Order[i]])
      /\ \A i \in DOMAIN Order : Valid(Order[i], raw[Order[i]])
  BY <1>1, <1>3 DEF Invariant, Progress, Outcome, ToldSoFar, ResolvedSoFar, ValidSoFar
<1>5. CASE Passed("resolve", "set") /\ held' = TRUE /\ UNCHANGED <<direction, result>>
  <2>1. pc' = "set" /\ next' = 1 /\ held' = TRUE /\ result' = "none"
    BY <1>4, <1>5 DEF Passed
  <2>2. TypeOK'
    BY <1>1, <1>2, <2>1 DEF Invariant, TypeOK
  <2>3. ValidSoFar'
    BY <1>1, <1>4, <2>1 DEF ValidSoFar, Valid, InRange, Exported
  <2>4. ResolvedSoFar'
    BY <1>1, <1>4, <2>1 DEF ResolvedSoFar, AsGiven
  <2>5. \A i \in DOMAIN Order : told[Order[i]] = NoValue
    BY <1>2, <1>4, OrderFacts
  <2>6. ToldSoFar'
    BY <1>1, <1>3, <2>1, <2>5 DEF ToldSoFar
  <2> QED BY <2>1, <2>2, <2>3, <2>4, <2>6 DEF Invariant, Progress, Outcome
<1>6. CASE Faults /\ Raise(ExceptionOf("ALLOCATE_FAILED")) /\ UNCHANGED held
  <2>1. pc' = "returned" /\ next' = next /\ held' = FALSE /\ result' = "AllocateError"
    BY <1>4, <1>6 DEF Raise, ExceptionOf
  <2>2. TypeOK'
    BY <1>1, <2>1 DEF Invariant, TypeOK, Exceptions
  <2>3. Reason'
    BY <1>6, <2>1 DEF Reason
  <2> QED BY <2>1, <2>2, <2>3
        DEF Invariant, Progress, ToldSoFar, ResolvedSoFar, ValidSoFar, Outcome
<1> QED BY <1>5, <1>6 DEF CreateContext

\* What the steps of setting start from: everything is resolved, as the user
\* wrote it, and the context knows the options up to the one at hand.
LEMMA SettingFacts ==
  ASSUME Invariant, At("set")
  PROVE  /\ direction \in {"compressor", "decompressor"}
         /\ held /\ result = "none" /\ Current \in Names
         /\ next \in 1 .. Len(Order) /\ Len(Order) \in Nat
         /\ raw \in [Names -> Values] /\ told \in [Names -> Option]
         /\ resolved[Current] = AsGiven(raw[Current]) /\ Valid(Current, raw[Current])
         /\ \A i \in DOMAIN Order :
              /\ resolved[Order[i]] = AsGiven(raw[Order[i]])
              /\ Valid(Order[i], raw[Order[i]])
              /\ told[Order[i]] = IF i < next THEN AsGiven(raw[Order[i]]) ELSE NoValue
<1>1. pc = "set" /\ next \in DOMAIN Order
  BY DEF At
<1>2. direction \in {"compressor", "decompressor"} /\ raw \in [Names -> Values] /\ told \in [Names -> Option]
  BY DEF Invariant, TypeOK
<1>3. Current \in Names /\ next \in 1 .. Len(Order) /\ Len(Order) \in Nat
  BY <1>1, <1>2, OrderFacts DEF Current
<1>4. /\ held /\ result = "none"
      /\ \A i \in DOMAIN Order :
           /\ resolved[Order[i]] = AsGiven(raw[Order[i]])
           /\ Valid(Order[i], raw[Order[i]])
           /\ told[Order[i]] = IF i < next THEN AsGiven(raw[Order[i]]) ELSE NoValue
  BY <1>1 DEF Invariant, Progress, Outcome, ToldSoFar, ResolvedSoFar, ValidSoFar
<1>5. resolved[Current] = AsGiven(raw[Current]) /\ Valid(Current, raw[Current])
  BY <1>1, <1>4 DEF Current
<1> QED BY <1>2, <1>3, <1>4, <1>5

\* The context takes one option, or the option was left out (option.c:168-229).
LEMMA SetOptionInvariant == Invariant /\ SetOption => Invariant'
<1> SUFFICES ASSUME Invariant, SetOption PROVE Invariant'
  OBVIOUS
<1> DEFINE option == resolved[Current]
<1>1. At("set") /\ pc = "set" /\ next \in DOMAIN Order
  BY DEF SetOption, At
<1>2. /\ Order' = Order /\ direction' = direction /\ next' = next + 1 /\ pc' = pc
      /\ raw' = raw /\ resolved' = resolved /\ held' = held /\ result' = result
  BY DEF SetOption, Advance, Order
<1>3. /\ option = AsGiven(raw[Current]) /\ option \in Option
      /\ told[Current] = NoValue
  <2>1. option \in Option
    BY <1>1, SettingFacts DEF Invariant, TypeOK
  <2>2. told[Current] = NoValue
    BY <1>1, SettingFacts DEF Current
  <2> QED BY <1>1, <2>1, <2>2, SettingFacts
<1>4. told' \in [Names -> Option] /\ told'[Current] = AsGiven(raw[Current])
  <2>1. CASE ~option.has_value /\ UNCHANGED told
    <3>1. AsGiven(raw[Current]) = NoValue
      BY <1>3, <2>1 DEF AsGiven
    <3> QED BY <1>1, <1>3, <2>1, <3>1, SettingFacts
  <2>2. CASE told' = [told EXCEPT ![Current] = option]
    BY <1>1, <1>3, <2>2, SettingFacts
  <2> QED BY <2>1, <2>2 DEF SetOption
<1>5. \A i \in DOMAIN Order : i # next => told'[Order[i]] = told[Order[i]]
  <2>1. told' = told \/ told' = [told EXCEPT ![Current] = option]
    BY DEF SetOption
  <2> QED BY <1>1, <2>1, OrderFacts, SettingFacts DEF Current, Distinct
<1>6. \A i \in DOMAIN Order :
        told'[Order[i]] = IF i < next' THEN AsGiven(raw[Order[i]]) ELSE NoValue
  <2> SUFFICES ASSUME NEW i \in DOMAIN Order
               PROVE  told'[Order[i]] = IF i < next' THEN AsGiven(raw[Order[i]]) ELSE NoValue
    OBVIOUS
  <2>1. i \in Nat /\ next \in Nat
    BY <1>1, SettingFacts, OrderFacts
  <2>2. CASE i = next
    BY <1>2, <1>4, <2>1, <2>2 DEF Current
  <2>3. CASE i # next
    <3>1. i < next' <=> i < next
      BY <1>2, <2>1, <2>3
    <3> QED BY <1>1, <1>5, <2>3, <3>1, SettingFacts
  <2> QED BY <2>2, <2>3
<1>7. TypeOK'
  <2>1. next' \in 1 .. Len(Order') + 1
    BY <1>1, <1>2, SettingFacts
  <2> QED BY <1>2, <1>4, <2>1 DEF Invariant, TypeOK
<1>8. ToldSoFar'
  BY <1>1, <1>2, <1>6 DEF ToldSoFar, AsGiven
<1>9. ValidSoFar' /\ ResolvedSoFar'
  <2>1. \A i \in DOMAIN Order :
          resolved[Order[i]] = AsGiven(raw[Order[i]]) /\ Valid(Order[i], raw[Order[i]])
    BY <1>1, SettingFacts
  <2>2. ValidSoFar'
    BY <1>1, <1>2, <2>1 DEF ValidSoFar, Valid, InRange, Exported
  <2>3. ResolvedSoFar'
    BY <1>1, <1>2, <2>1 DEF ResolvedSoFar, AsGiven
  <2> QED BY <2>2, <2>3
<1>10. Outcome'
  BY <1>1, <1>2 DEF Invariant, Progress, Outcome
<1> QED BY <1>7, <1>8, <1>9, <1>10 DEF Invariant, Progress

\* The context refuses an option that Ruby let through only when it has no
\* memory or no use for the dictionary (compressor.c:64-68).
LEMMA SetRefusedInvariant == Invariant /\ SetRefused => Invariant'
<1> SUFFICES ASSUME Invariant, SetRefused PROVE Invariant'
  OBVIOUS
<1> DEFINE option == resolved[Current]
<1>1. At("set") /\ option.has_value
  BY DEF SetRefused
<1>2. PICK code \in Refusals(Current, option.value) : Raise(ExceptionOf(GetError(code)))
  BY DEF SetRefused
<1>3. /\ Order' = Order /\ direction' = direction /\ next' = next /\ pc' = "returned"
      /\ raw' = raw /\ resolved' = resolved /\ told' = told /\ held' = FALSE
      /\ result' = ExceptionOf(GetError(code))
  BY <1>2 DEF SetRefused, Raise, Order
<1>4. /\ raw[Current] # Nil /\ option.value = raw[Current].number
      /\ Current \in Names /\ raw[Current] \in Values /\ Valid(Current, raw[Current])
  BY <1>1, SettingFacts DEF AsGiven, NoValue
<1>5. Type[Current] \in Bounded => Takes(Current, option.value)
  BY <1>4, ValidBounded DEF Takes
<1>6. Faults /\ code \in {"memory_allocation", "dictionary_corrupted"}
  <2>1. CASE Type[Current] = "DICTIONARY"
    BY <1>2, <2>1 DEF Refusals, Bounded
  <2>2. CASE Type[Current] # "DICTIONARY"
    BY <1>2, <1>5, <2>2 DEF Refusals
  <2> QED BY <2>1, <2>2
<1>7. result' \in {"AllocateError", "CorruptedDictionaryError"}
  BY <1>3, <1>6, RefusalExceptions
<1>8. TypeOK'
  BY <1>3, <1>7 DEF Invariant, TypeOK, Exceptions
<1>9. Reason'
  BY <1>6, <1>7 DEF Reason
<1> QED BY <1>3, <1>7, <1>8, <1>9
      DEF Invariant, Progress, ToldSoFar, ResolvedSoFar, ValidSoFar, Outcome

\* All options are set.
LEMMA ReadyInvariant == Invariant /\ Ready => Invariant'
<1> SUFFICES ASSUME Invariant, Ready PROVE Invariant'
  OBVIOUS
<1>1. /\ Order' = Order /\ direction' = direction /\ pc = "set" /\ pc' = "ready"
      /\ next > Len(Order) /\ next' = 1 /\ result' = "ok"
      /\ raw' = raw /\ resolved' = resolved /\ told' = told /\ held' = held
  BY DEF Ready, Passed, Order
<1>2. direction \in {"compressor", "decompressor"} /\ Len(Order) \in Nat /\ DOMAIN Order = 1 .. Len(Order)
  BY OrderFacts DEF Invariant, TypeOK
<1>3. \A i \in DOMAIN Order : i < next
  BY <1>1, <1>2 DEF Invariant, TypeOK
<1>4. /\ held
      /\ \A i \in DOMAIN Order : told[Order[i]] = AsGiven(raw[Order[i]])
      /\ \A i \in DOMAIN Order : Valid(Order[i], raw[Order[i]])
  BY <1>1, <1>3 DEF Invariant, Progress, Outcome, ToldSoFar, ValidSoFar
<1>5. TypeOK'
  BY <1>1, <1>2 DEF Invariant, TypeOK
<1>6. ToldSoFar' /\ ValidSoFar'
  BY <1>1, <1>4 DEF ToldSoFar, ValidSoFar, AsGiven, Valid, InRange, Exported
<1> QED BY <1>1, <1>4, <1>5, <1>6 DEF Invariant, Progress, ResolvedSoFar, Outcome

\* The invariant is inductive.
LEMMA NextInvariant == Invariant /\ [Next]_vars => Invariant'
<1> SUFFICES ASSUME Invariant, [Next]_vars PROVE Invariant'
  OBVIOUS
<1>1. CASE UNCHANGED vars
  <2> USE <1>1 DEF vars, Order
  <2>1. TypeOK'
    BY DEF Invariant, TypeOK
  <2>2. ToldSoFar' /\ ResolvedSoFar'
    BY DEF Invariant, Progress, ToldSoFar, ResolvedSoFar, AsGiven
  <2>3. ValidSoFar'
    BY DEF Invariant, Progress, ValidSoFar, Valid, InRange, Exported
  <2>4. ConversionError(Type[Current], raw[Current])' = ConversionError(Type[Current], raw[Current])
    BY DEF ConversionError, Current
  <2>5. Valid(Current, raw[Current])' <=> Valid(Current, raw[Current])
    BY DEF Valid, InRange, Exported, Current
  <2>6. Reason' <=> Reason
    BY <2>4, <2>5 DEF Reason
  <2>7. Outcome'
    BY <2>6 DEF Invariant, Progress, Outcome
  <2> QED BY <2>1, <2>2, <2>3, <2>7 DEF Invariant, Progress
<1>2. CASE Done
  BY <1>1, <1>2 DEF Done
<1> QED BY <1>1, <1>2, ValidateOptionInvariant, ValidatedInvariant, ResolveOptionInvariant,
           CreateContextInvariant, SetOptionInvariant, SetRefusedInvariant, ReadyInvariant DEF Next

\* The invariant holds in every reachable state.
THEOREM InvariantCorrect == Spec => []Invariant
BY InitInvariant, NextInvariant, PTL DEF Spec

-----------------------------------------------------------------------------
\* A context that is ready was told every option with the number the user
\* wrote, and none the user left out (option.c:90-108, 164-223).
THEOREM Applied == Spec => []AppliedAsGiven
<1>1. Invariant => AppliedAsGiven
  BY DEF Invariant, Progress, ToldSoFar, AppliedAsGiven
<1> QED BY <1>1, InvariantCorrect, PTL

\* Ruby calls nothing invalid that libzstd would take, but the zero for
\* "default" of an option with a lower bound above it (option.rb:120-125,
\* option.c:247-280).
THEOREM Refused == Spec => []RefusedMeansWrong
<1>1. ASSUME Invariant, result = "ValidateError"
      PROVE  \E i \in DOMAIN Order :
               ~Proper(Order[i], raw[Order[i]]) \/ ZeroBelow(Order[i], raw[Order[i]])
  <2>1. pc = "returned" /\ Reason
    BY <1>1 DEF Invariant, Progress, Outcome, TypeOK
  <2>2. next \in DOMAIN Order
    BY <1>1, <2>1 DEF Reason
  <2>3. Current \in Names /\ raw[Current] \in Values
    BY <1>1, <2>2, OrderFacts DEF Current, Invariant, TypeOK
  <2>4. CASE ~Valid(Current, raw[Current])
    <3>1. ~Proper(Current, raw[Current]) \/ ZeroBelow(Current, raw[Current])
      BY <2>3, <2>4, ProperIsValid
    <3> QED BY <2>2, <3>1 DEF Current
  <2>5. CASE Valid(Current, raw[Current])
    <3>1. ConversionError(Type[Current], raw[Current]) = "ValidateError"
      BY <1>1, <2>1, <2>5 DEF Reason
    <3>2. ~Proper(Current, raw[Current])
      BY <2>3, <2>5, <3>1, LateIsWrong
    <3> QED BY <2>2, <3>2 DEF Current
  <2> QED BY <2>4, <2>5
<1>2. Invariant => RefusedMeansWrong
  BY <1>1 DEF RefusedMeansWrong
<1> QED BY <1>2, InvariantCorrect, PTL

\* What Ruby has validated is refused later only for what Ruby does not look
\* at (option.rb:242-263), for want of memory, or for a corrupted dictionary.
THEOREM Late == Spec => []NothingLate
<1>1. ASSUME Invariant, pc = "returned", \A i \in DOMAIN Order : Valid(Order[i], raw[Order[i]])
      PROVE  \/ result \in {"AllocateError", "CorruptedDictionaryError"} /\ Faults
             \/ result = "TypeError" /\ Type[Current] = "ULL" /\ ~Fixnum(raw[Current])
             \/ result = "ValidateError" /\ Type[Current] = "DICTIONARY" /\ direction = "decompressor"
  <2>1. Reason /\ result # "none"
    BY <1>1 DEF Invariant, Progress, Outcome
  <2>2. CASE result \in {"AllocateError", "CorruptedDictionaryError"} /\ Faults
    BY <2>2
  <2>3. CASE /\ next \in DOMAIN Order /\ Valid(Current, raw[Current])
             /\ result = ConversionError(Type[Current], raw[Current])
    <3>1. Current \in Names /\ raw[Current] \in Values
      BY <1>1, <2>3, OrderFacts DEF Current, Invariant, TypeOK
    <3> QED BY <2>1, <2>3, <3>1, ValidConversionError
  <2>4. CASE next \in DOMAIN Order /\ ~Valid(Current, raw[Current])
    BY <1>1, <2>4 DEF Current
  <2> QED BY <2>1, <2>2, <2>3, <2>4 DEF Reason
<1>2. Invariant => NothingLate
  BY <1>1 DEF NothingLate
<1> QED BY <1>2, InvariantCorrect, PTL

\* Whatever is refused, no context is left behind (compressor.c:50-68).
THEOREM NothingLeaks == Spec => []NoLeak
<1>1. Invariant => NoLeak
  BY DEF Invariant, Progress, Outcome, NoLeak
<1> QED BY <1>1, InvariantCorrect, PTL
=============================================================================
