-------------------------- MODULE Dictionary_proofs --------------------------
(***************************************************************************)
(* Theorems of Dictionary for every number and length of samples, every    *)
(* capacity and every option of finalize, with and without failures, and   *)
(* whatever another thread does to the samples while the lock is released. *)
(***************************************************************************)
EXTENDS Dictionary, SequenceTheorems, WellFoundedInduction, TLAPS

-----------------------------------------------------------------------------
\* Sums of sizes.  What the loop of prepare_samples_group adds up is shown by
\* induction over the length of the list, from the order of the numbers.

\* The least number of a set.
LEMMA Least ==
  ASSUME NEW T \in SUBSET Nat, T # {}
  PROVE  \E n \in T : \A m \in T : n <= m
<1>1. PICK n \in T : \A m \in T : ~(<<m, n>> \in OpToRel(<, Nat))
  BY NatLessThanWellFounded, WFMin, Zenon
<1>2. \A m \in T : ~(m < n)
  BY <1>1 DEF OpToRel
<1> QED BY <1>2

\* Induction from m to n: a set that holds m, and with a number below n the
\* next one, holds n.
LEMMA Reaches ==
  ASSUME NEW m \in Nat, NEW n \in Nat, m <= n, NEW S, m \in S,
         \A i \in m .. n - 1 : i \in S => i + 1 \in S
  PROVE  n \in S
<1> DEFINE T == {i \in m .. n : i \notin S}
<1>1. ASSUME T # {} PROVE FALSE
  <2>1. PICK i \in T : \A k \in T : i <= k
    <3>1. T \in SUBSET Nat
      OBVIOUS
    <3> HIDE DEF T
    <3> QED BY <1>1, <3>1, Least
  <2>2. i \in m .. n /\ i \notin S
    OBVIOUS
  <2>3. i # m
    BY <2>2
  <2>4. i - 1 \in m .. n /\ i - 1 \in m .. n - 1 /\ (i - 1) + 1 = i /\ ~(i <= i - 1)
    BY <2>2, <2>3
  <2>5. i - 1 \in S
    <3>1. i - 1 \notin T
      BY <2>1, <2>4
    <3> QED BY <2>4, <3>1
  <2>6. (i - 1) + 1 \in S
    BY <2>4, <2>5
  <2> QED BY <2>2, <2>4, <2>6
<1>2. n \in m .. n
  OBVIOUS
<1> QED BY <1>1, <1>2

\* f holds the sums of the beginnings of s.
Sums(s, f) ==
  /\ f \in [0 .. Len(s) -> Nat] /\ f[0] = 0
  /\ \A i \in 1 .. Len(s) : f[i] = f[i - 1] + s[i]

LEMMA SumsExist ==
  ASSUME NEW s \in Seq(Nat)
  PROVE  \E f : Sums(s, f)
<1> DEFINE Upto(n) == \E f \in [0 .. n -> Nat] : f[0] = 0 /\ \A i \in 1 .. n : f[i] = f[i - 1] + s[i]
           S == {n \in 0 .. Len(s) : Upto(n)}
<1>1. Len(s) \in Nat /\ \A i \in 1 .. Len(s) : s[i] \in Nat
  OBVIOUS
<1>2. 0 \in S
  <2> DEFINE f == [i \in 0 .. 0 |-> 0]
  <2>1. f \in [0 .. 0 -> Nat] /\ f[0] = 0 /\ \A i \in 1 .. 0 : f[i] = f[i - 1] + s[i]
    OBVIOUS
  <2> HIDE DEF f
  <2>2. Upto(0)
    BY <2>1
  <2> QED BY <1>1, <2>2
<1>3. ASSUME NEW k \in 0 .. Len(s) - 1, k \in S PROVE k + 1 \in S
  <2> DEFINE n == k + 1
  <2>1. PICK f \in [0 .. n - 1 -> Nat] : f[0] = 0 /\ \A i \in 1 .. n - 1 : f[i] = f[i - 1] + s[i]
    <3>1. Upto(k)
      <4> HIDE DEF Upto
      <4> QED BY <1>3
    <3>2. n - 1 = k
      BY <1>1, <1>3
    <3> QED BY <3>1, <3>2
  <2>2. n \in Nat /\ n \in 1 .. Len(s) /\ n - 1 \in 0 .. n - 1 /\ s[n] \in Nat
    BY <1>1, <1>3
  <2> HIDE DEF n
  <2> DEFINE g == [i \in 0 .. n |-> IF i = n THEN f[n - 1] + s[n] ELSE f[i]]
  <2>3. g \in [0 .. n -> Nat] /\ g[0] = 0 /\ g[n] = f[n - 1] + s[n] /\ \A i \in 0 .. n - 1 : g[i] = f[i]
    BY <2>1, <2>2
  <2> HIDE DEF g
  <2>4. ASSUME NEW i \in 1 .. n PROVE g[i] = g[i - 1] + s[i]
    <3>1. i - 1 \in 0 .. n - 1 /\ (i = n \/ i \in 1 .. n - 1)
      BY <2>2
    <3> QED BY <2>1, <2>3, <3>1
  <2>5. Upto(n)
    BY <2>3, <2>4
  <2>6. n \in 0 .. Len(s)
    BY <2>2
  <2>7. n \in S
    BY <2>5, <2>6
  <2> QED BY <2>7 DEF n
<1> HIDE DEF S
<1>4. Len(s) \in S
  <2> DEFINE l == Len(s)
  <2>1. l \in Nat /\ 0 <= l /\ \A i \in 0 .. l - 1 : i \in S => i + 1 \in S
    BY <1>1, <1>3
  <2> HIDE DEF l
  <2>2. l \in S
    BY <1>2, <2>1, Reaches
  <2> QED BY <2>2 DEF l
<1>5. Upto(Len(s))
  BY <1>4 DEF S
<1> QED BY <1>5 DEF Sums

\* Two lists of sums are equal.
LEMMA SumsAgree ==
  ASSUME NEW n \in Nat, NEW s, NEW f, NEW g, f[0] = g[0],
         \A i \in 1 .. n : f[i] = f[i - 1] + s[i],
         \A i \in 1 .. n : g[i] = g[i - 1] + s[i]
  PROVE  f[n] = g[n]
<1> DEFINE S == {i \in 0 .. n : f[i] = g[i]}
<1>1. 0 \in S
  OBVIOUS
<1>2. ASSUME NEW i \in 0 .. n - 1, i \in S PROVE i + 1 \in S
  <2>1. i + 1 \in 1 .. n /\ (i + 1) - 1 = i /\ i + 1 \in 0 .. n
    OBVIOUS
  <2>2. f[i + 1] = f[i] + s[i + 1] /\ g[i + 1] = g[i] + s[i + 1]
    BY <2>1
  <2> QED BY <1>2, <2>1, <2>2
<1> HIDE DEF S
<1>3. n \in S
  BY <1>1, <1>2, Reaches
<1> QED BY <1>3 DEF S

\* The sums do not fall.
LEMMA SumsGrow ==
  ASSUME NEW s \in Seq(Nat), NEW f, Sums(s, f), NEW m \in 0 .. Len(s), NEW n \in m .. Len(s)
  PROVE  f[m] <= f[n]
<1> DEFINE S == {i \in m .. n : f[m] <= f[i]}
<1>1. /\ Len(s) \in Nat /\ m \in Nat /\ n \in Nat /\ m <= n /\ n <= Len(s)
      /\ \A i \in 1 .. Len(s) : s[i] \in Nat
  OBVIOUS
<1>2. /\ \A i \in 0 .. Len(s) : f[i] \in Nat
      /\ \A i \in 1 .. Len(s) : f[i] = f[i - 1] + s[i]
  BY <1>1 DEF Sums
<1>3. m \in S
  BY <1>1, <1>2
<1>4. ASSUME NEW i \in m .. n - 1, i \in S PROVE i + 1 \in S
  <2>1. i + 1 \in 1 .. Len(s) /\ i + 1 \in m .. n /\ i \in 0 .. Len(s) /\ (i + 1) - 1 = i
    BY <1>1
  <2>2. f[i + 1] = f[i] + s[i + 1] /\ s[i + 1] \in Nat /\ f[i] \in Nat /\ f[m] \in Nat
    BY <1>1, <1>2, <2>1
  <2>3. f[m] <= f[i]
    BY <1>4
  <2>4. f[m] <= f[i + 1]
    BY <2>2, <2>3
  <2> QED BY <2>1, <2>4
<1> HIDE DEF S
<1>5. n \in S
  BY <1>1, <1>3, <1>4, Reaches
<1> QED BY <1>5 DEF S

\* The total of a sequence is the last of its sums.
LEMMA TotalIsSum ==
  ASSUME NEW s \in Seq(Nat), NEW f, Sums(s, f)
  PROVE  Total(s) = f[Len(s)]
<1>1. Len(s) \in Nat
  OBVIOUS
<1>2. f = [i \in 0 .. Len(s) |-> IF i = 0 THEN 0 ELSE f[i - 1] + s[i]]
  BY <1>1 DEF Sums
<1>3. PICK g : /\ g = [i \in 0 .. Len(s) |-> IF i = 0 THEN 0 ELSE g[i - 1] + s[i]]
               /\ Total(s) = g[Len(s)]
  BY <1>2 DEF Total
<1>4. g[0] = 0 /\ \A i \in 1 .. Len(s) : g[i] = g[i - 1] + s[i]
  <2> DEFINE n == Len(s)
  <2>1. n \in Nat /\ g = [i \in 0 .. n |-> IF i = 0 THEN 0 ELSE g[i - 1] + s[i]]
    BY <1>1, <1>3
  <2> HIDE DEF n
  <2>2. g[0] = 0 /\ \A i \in 1 .. n : g[i] = g[i - 1] + s[i]
    BY <2>1
  <2> QED BY <2>2 DEF n
<1>5. f[Len(s)] = g[Len(s)]
  <2> DEFINE n == Len(s)
  <2>1. f[0] = 0 /\ \A i \in 1 .. n : f[i] = f[i - 1] + s[i]
    BY DEF Sums
  <2>2. n \in Nat /\ g[0] = 0 /\ \A i \in 1 .. n : g[i] = g[i - 1] + s[i]
    BY <1>1, <1>4
  <2> HIDE DEF n
  <2>3. f[n] = g[n]
    BY <2>1, <2>2, SumsAgree
  <2> QED BY <2>3 DEF n
<1> QED BY <1>3, <1>5

\* Of the first n elements it is the sum up to n.
LEMMA TotalOfBeginning ==
  ASSUME NEW s \in Seq(Nat), NEW f, Sums(s, f), NEW n \in 0 .. Len(s)
  PROVE  Total(SubSeq(s, 1, n)) = f[n]
<1> DEFINE t == SubSeq(s, 1, n)
           h == [i \in 0 .. n |-> f[i]]
<1>1. t \in Seq(Nat) /\ Len(t) = n /\ \A i \in 1 .. n : t[i] = s[i]
  OBVIOUS
<1>2. /\ n \in Nat
      /\ \A i \in 0 .. n : i \in 0 .. Len(s)
      /\ \A i \in 1 .. n : i \in 1 .. Len(s) /\ i \in 0 .. n /\ i - 1 \in 0 .. n
  OBVIOUS
<1>3. h \in [0 .. n -> Nat] /\ \A i \in 0 .. n : h[i] = f[i]
  BY <1>2 DEF Sums
<1> HIDE DEF t, h
<1>4. h[0] = 0 /\ \A i \in 1 .. n : h[i] = h[i - 1] + s[i]
  BY <1>2, <1>3 DEF Sums
<1>5. Sums(t, h)
  BY <1>1, <1>3, <1>4 DEF Sums
<1>6. Total(t) = h[n]
  BY <1>1, <1>5, TotalIsSum
<1> QED BY <1>2, <1>3, <1>6 DEF t

\* A total is a number, and no sizes make nothing.
LEMMA TotalNat ==
  ASSUME NEW s \in Seq(Nat)
  PROVE  Total(s) \in Nat
<1>1. PICK f : Sums(s, f)
  BY SumsExist
<1>2. Total(s) = f[Len(s)]
  BY <1>1, TotalIsSum
<1>3. Len(s) \in 0 .. Len(s)
  OBVIOUS
<1> QED BY <1>1, <1>2, <1>3 DEF Sums

LEMMA TotalOfNone ==
  ASSUME NEW s \in Seq(Nat)
  PROVE  SubSeq(s, 1, 0) = <<>> /\ Total(SubSeq(s, 1, 0)) = 0
<1>1. SubSeq(s, 1, 0) = <<>>
  OBVIOUS
<1>2. PICK f : Sums(s, f)
  BY SumsExist
<1>3. 0 \in 0 .. Len(s)
  OBVIOUS
<1>4. Total(SubSeq(s, 1, 0)) = f[0]
  BY <1>2, <1>3, TotalOfBeginning
<1> QED BY <1>1, <1>2, <1>4 DEF Sums

-----------------------------------------------------------------------------
USE RangeAssumption, BoundAssumption

\* What is allocated at each place, and after every way out.
HeldInPlace ==
  /\ pc \in {"validate", "resolve", "prepare", "resize"} => held = {}
  /\ pc \in {"buffer", "group", "unwrap"} => held = {"samples"}
  /\ pc = "sizes" => held = {"samples", "group"}
  /\ pc \in {"copy", "codec"} => held = {"samples", "group", "sizes"}
  /\ NoLeak

\* The string for the dictionary has the capacity, and begins with what ZDICT
\* has written; there is no result before the end.
BufferInPlace ==
  /\ pc \in {"validate", "resolve", "prepare", "buffer"} => buffer = <<>>
  /\ pc \in {"group", "sizes", "copy", "codec", "unwrap", "resize"} => Len(buffer) = capacity
  /\ written <= Len(buffer) /\ \A i \in 1 .. written : buffer[i] = i
  /\ pc # "returned" => result = "none"
  /\ ResultWhole

\* Each byte of the first n samples is in the group, at its place.
GroupHolds(n) ==
  \A i \in 1 .. n : \A k \in 1 .. samples[i] :
    strings[i].changed \/ group[Total(SubSeq(samples, 1, i - 1)) + k] = <<i, k>>

\* The loop over the samples has copied the first of them, in order.
SamplesCopied ==
  /\ Len(sizes) <= Len(samples) /\ sizes = SubSeq(samples, 1, Len(sizes))
  /\ offset = Total(SubSeq(samples, 1, Len(sizes)))
  /\ GroupHolds(Len(sizes))

\* The list of samples, the group and the loop that fills it.
GroupInPlace ==
  /\ offset <= Len(group)
  /\ pc \in {"buffer", "group", "sizes", "copy", "codec"} => Len(samples) = Len(strings)
  /\ pc \in {"validate", "resolve", "prepare", "buffer", "group", "sizes"} =>
       sizes = <<>> /\ offset = 0
  /\ pc \in {"sizes", "copy", "codec"} => Len(group) = Total(samples)
  /\ pc \in {"copy", "codec"} => SamplesCopied
  /\ pc = "codec" => Len(sizes) = Len(samples)

\* What the option p of finalize becomes.
Resolved(p) ==
  LET option == Converted(OptionType[p], options[p])
  IN  IF OptionType[p] = "INT" THEN option.value ELSE ToUnsigned(option.value)

\* The parameters of ZDICT are those options, none of which was refused.
ParamsInPlace ==
  pc \notin {"validate", "resolve", "returned"} =>
    \A p \in OptionNames :
      ConversionError(OptionType[p], options[p]) = "none" /\ params[p] = Resolved(p)

\* What every step of dictionary.c keeps.
Invariant == TypeOK /\ HeldInPlace /\ BufferInPlace /\ GroupInPlace /\ ParamsInPlace

StringRecords == [length : Nat, changed : BOOLEAN]

\* The invariant holds when a method is called.
LEMMA InitInvariant == Init => Invariant
<1> SUFFICES ASSUME Init PROVE Invariant
  OBVIOUS
<1>1. Len(<<>>) = 0
  OBVIOUS
<1>2. TypeOK
  <2>1. NoOptions \in [OptionNames -> Value] /\ Defaults \in [OptionNames -> Value]
    BY DEF NoOptions, Defaults, Nil, Value, Kinds
  <2>2. params \in [OptionNames -> Int] /\ capacity \in Nat
    BY DEF Init
  <2>3. /\ strings \in Seq(StringRecords) /\ samples \in Seq(Nat) /\ sizes \in Seq(Nat)
        /\ group \in Seq(Nat \X Nat) /\ buffer \in Seq(Nat)
    BY DEF Init
  <2> QED BY <2>1, <2>2, <2>3 DEF Init, TypeOK, StringRecords
<1>3. HeldInPlace /\ ParamsInPlace
  BY DEF Init, HeldInPlace, NoLeak, ParamsInPlace
<1>4. BufferInPlace
  BY <1>1 DEF Init, BufferInPlace, ResultWhole
<1>5. GroupInPlace
  BY <1>1 DEF Init, GroupInPlace
<1> QED BY <1>2, <1>3, <1>4, <1>5 DEF Invariant

\* What a conversion makes of a value, and how it may refuse it.
LEMMA ConversionFacts ==
  /\ \A p \in OptionNames : OptionType[p] \in {"INT", "UINT"}
  /\ Nil \in Value
  /\ \A type \in {"INT", "UINT"}, v \in Value :
       /\ Converted(type, v).value \in Int /\ ToUnsigned(Converted(type, v).value) \in Int
       /\ ConversionError(type, v) \in {"none", "TypeError", "RangeError", "ValidateError"}
<1>1. \A p \in OptionNames : OptionType[p] \in {"INT", "UINT"}
  BY DEF OptionType
<1>2. Nil \in Value
  BY DEF Nil, Value, Kinds
<1>3. ASSUME NEW type \in {"INT", "UINT"}, NEW v \in Value
      PROVE  /\ Converted(type, v).value \in Int /\ ToUnsigned(Converted(type, v).value) \in Int
             /\ ConversionError(type, v) \in {"none", "TypeError", "RangeError", "ValidateError"}
  <2>1. v.number \in Int
    BY DEF Value
  <2>2. \A n \in Int : ToUnsigned(n) \in Int /\ ToInt(n) \in Int
    BY DEF ToUnsigned, ToInt
  <2>3. Converted(type, v).value \in Int
    BY <2>1, <2>2 DEF Converted, NoValue
  <2>4. ConversionError(type, v) \in {"none", "TypeError", "RangeError", "ValidateError"}
    BY DEF ConversionError
  <2> QED BY <2>2, <2>3, <2>4
<1> QED BY <1>1, <1>2, <1>3

\* Validation: the samples and the options are given, nothing has moved.
LEMMA ValidateStep == Invariant /\ Validate => Invariant'
<1> SUFFICES ASSUME Invariant, Validate PROVE Invariant'
  OBVIOUS
<1>1. /\ TypeOK /\ pc = "validate" /\ held = {} /\ buffer = <<>> /\ written <= Len(buffer)
      /\ sizes = <<>> /\ offset = 0 /\ offset <= Len(group)
      /\ \A i \in 1 .. written : buffer[i] = i
  BY DEF Invariant, Validate, HeldInPlace, BufferInPlace, GroupInPlace
<1>2. /\ UNCHANGED <<op, params, capacity, samples, group, offset, sizes, held, buffer, written,
                     extResult>>
      /\ \/ pc' = "resolve" /\ result' = result
         \/ pc' = "returned" /\ result' = "ValidateError"
  BY DEF Validate, Raise, groupVars, outputVars
<1>3. result = "none"
  BY <1>1 DEF Invariant, BufferInPlace, ResultWhole
<1>4. strings' \in Seq(StringRecords)
  <2>1. PICK n \in 0 .. MaxSamples : \E length \in [1 .. n -> 0 .. MaxSampleLength] :
          strings' = [i \in 1 .. n |-> [length |-> length[i], changed |-> FALSE]]
    BY DEF Validate, GiveSamples
  <2>2. PICK length \in [1 .. n -> 0 .. MaxSampleLength] :
          strings' = [i \in 1 .. n |-> [length |-> length[i], changed |-> FALSE]]
    BY <2>1
  <2>3. n \in Nat /\ \A i \in 1 .. n : [length |-> length[i], changed |-> FALSE] \in StringRecords
    BY DEF StringRecords
  <2> QED BY <2>2, <2>3
<1>5. asked' \in [OptionNames -> Value] /\ options' \in [OptionNames -> Value]
  <2>1. CASE op = "finalize"
    <3>1. PICK p \in OptionNames, v \in FinalizeValues, w \in FinalizeValues :
            asked' = [Defaults EXCEPT ![p] = v] /\ options' = [NoOptions EXCEPT ![p] = w]
      BY <2>1 DEF Validate, GiveOptions
    <3>2. NoOptions \in [OptionNames -> Value] /\ v \in Value /\ w \in Value
      BY ConversionFacts DEF NoOptions
    <3>3. Defaults \in [OptionNames -> Value]
      BY DEF Defaults, Value, Kinds
    <3> QED BY <3>1, <3>2, <3>3
  <2>2. CASE op # "finalize"
    BY <1>1, <2>2 DEF Validate, GiveOptions, TypeOK
  <2> QED BY <2>1, <2>2
<1>6. TypeOK'
  BY <1>1, <1>2, <1>4, <1>5 DEF TypeOK, StringRecords, Exceptions
<1>7. HeldInPlace' /\ ParamsInPlace'
  BY <1>1, <1>2 DEF HeldInPlace, NoLeak, ParamsInPlace
<1>8. BufferInPlace' /\ GroupInPlace'
  BY <1>1, <1>2, <1>3 DEF BufferInPlace, ResultWhole, GroupInPlace
<1> QED BY <1>6, <1>7, <1>8 DEF Invariant

\* The codes of errors a wrapper returns, and the exceptions they name.
ErrorCodes == {"ALLOCATE_FAILED", "VALIDATE_FAILED", "CORRUPTED_DICTIONARY", "UNEXPECTED"}

\* An error of ZDICT is one of these codes, each of which raises an exception.
LEMMA ErrorFacts ==
  /\ \A code \in {"memory_allocation", "srcSize_wrong", "dictionaryCreation_failed", "GENERIC"} :
       GetError(code) \in ErrorCodes
  /\ \A error \in ErrorCodes : ExceptionOf(error) \in Exceptions
  /\ ExceptionOf("ALLOCATE_FAILED") = "AllocateError"
  /\ ExceptionOf("NOT_IMPLEMENTED") = "NotImplementedError"
<1>1. /\ GetError("memory_allocation") = "ALLOCATE_FAILED"
      /\ GetError("srcSize_wrong") = "VALIDATE_FAILED"
      /\ GetError("dictionaryCreation_failed") = "CORRUPTED_DICTIONARY"
      /\ GetError("GENERIC") = "UNEXPECTED"
  BY DEF GetError, ValidateCodes, CorruptedSourceCodes, CorruptedDictionaryCodes
<1>2. /\ ExceptionOf("ALLOCATE_FAILED") = "AllocateError"
      /\ ExceptionOf("VALIDATE_FAILED") = "ValidateError"
      /\ ExceptionOf("CORRUPTED_DICTIONARY") = "CorruptedDictionaryError"
      /\ ExceptionOf("UNEXPECTED") = "UnexpectedError"
      /\ ExceptionOf("NOT_IMPLEMENTED") = "NotImplementedError"
  BY DEF ExceptionOf
<1> QED BY <1>1, <1>2 DEF ErrorCodes, Exceptions

\* The options of finalize become its parameters.
LEMMA ResolveOptionsStep == Invariant /\ ResolveOptions => Invariant'
<1> SUFFICES ASSUME Invariant, ResolveOptions PROVE Invariant'
  OBVIOUS
<1>1. /\ TypeOK /\ pc = "resolve" /\ held = {} /\ buffer = <<>> /\ written <= Len(buffer)
      /\ sizes = <<>> /\ offset = 0 /\ offset <= Len(group) /\ result = "none"
      /\ \A i \in 1 .. written : buffer[i] = i
  BY DEF Invariant, ResolveOptions, HeldInPlace, BufferInPlace, GroupInPlace, ResultWhole
<1>2. /\ UNCHANGED <<op, strings, asked, options, capacity, samples, group, offset, sizes, held,
                     buffer, written, extResult>>
      /\ \/ /\ \A p \in OptionNames : ConversionError(OptionType[p], options[p]) = "none"
            /\ params' = [p \in OptionNames |-> Resolved(p)]
            /\ pc' = "prepare" /\ result' = result
         \/ /\ pc' = "returned" /\ params' = params
            /\ result' \in {"TypeError", "RangeError", "ValidateError", "NotImplementedError"}
  <2>1. UNCHANGED <<op, strings, asked, options, capacity, samples, group, offset, sizes, held,
                    buffer, written, extResult>>
    BY DEF ResolveOptions, inputVars, groupVars, outputVars
  <2>2. CASE \E p \in OptionNames :
               /\ ConversionError(OptionType[p], options[p]) # "none"
               /\ Raise(ConversionError(OptionType[p], options[p]))
               /\ params' = params
    <3>1. PICK p \in OptionNames :
            /\ ConversionError(OptionType[p], options[p]) # "none"
            /\ Raise(ConversionError(OptionType[p], options[p]))
            /\ params' = params
      BY <2>2
    <3>2. OptionType[p] \in {"INT", "UINT"} /\ options[p] \in Value
      BY <1>1, ConversionFacts DEF TypeOK
    <3>3. ConversionError(OptionType[p], options[p]) \in {"TypeError", "RangeError", "ValidateError"}
      BY <3>1, <3>2, ConversionFacts
    <3> QED BY <2>1, <3>1, <3>3 DEF Raise
  <2>3. CASE Raise(ExceptionOf("NOT_IMPLEMENTED")) /\ params' = params
    BY <2>1, <2>3, ErrorFacts DEF Raise
  <2>4. CASE /\ \A p \in OptionNames : ConversionError(OptionType[p], options[p]) = "none"
             /\ params' = [p \in OptionNames |->
                  LET option == Converted(OptionType[p], options[p])
                  IN  IF OptionType[p] = "INT" THEN option.value ELSE ToUnsigned(option.value)]
             /\ pc' = "prepare" /\ UNCHANGED result
    BY <2>1, <2>4 DEF Resolved
  <2> QED BY <2>2, <2>3, <2>4 DEF ResolveOptions
<1>3. \A p \in OptionNames : Resolved(p) \in Int
  <2> SUFFICES ASSUME NEW p \in OptionNames PROVE Resolved(p) \in Int
    OBVIOUS
  <2>1. OptionType[p] \in {"INT", "UINT"} /\ options[p] \in Value
    BY <1>1, ConversionFacts DEF TypeOK
  <2> QED BY <2>1, ConversionFacts DEF Resolved
<1>4. params' \in [OptionNames -> Int]
  <2>1. params \in [OptionNames -> Int]
    BY <1>1 DEF TypeOK
  <2> QED BY <1>2, <1>3, <2>1
<1>5. TypeOK'
  <2>1. result \in {"none", "ok"} \union Exceptions
    BY <1>1 DEF TypeOK
  <2>2. result' \in {"none", "ok"} \union Exceptions /\ pc' \in {"prepare", "returned"}
    BY <1>2, <2>1 DEF Exceptions
  <2> QED BY <1>1, <1>2, <1>4, <2>2 DEF TypeOK
<1>6. HeldInPlace'
  BY <1>1, <1>2 DEF HeldInPlace, NoLeak
<1>7. BufferInPlace' /\ GroupInPlace'
  BY <1>1, <1>2 DEF BufferInPlace, ResultWhole, GroupInPlace
<1>8. ParamsInPlace'
  <2>1. CASE pc' = "returned"
    BY <2>1 DEF ParamsInPlace
  <2>2. CASE /\ \A p \in OptionNames : ConversionError(OptionType[p], options[p]) = "none"
             /\ params' = [p \in OptionNames |-> Resolved(p)]
    <3>1. options' = options /\ \A p \in OptionNames : params'[p] = Resolved(p)
      BY <1>2, <2>2
    <3> QED BY <2>2, <3>1 DEF ParamsInPlace, Resolved
  <2> QED BY <1>2, <2>1, <2>2
<1> QED BY <1>5, <1>6, <1>7, <1>8 DEF Invariant

\* The samples are listed: their sizes are the lengths of the strings now.
LEMMA PrepareSamplesStep == Invariant /\ PrepareSamples => Invariant'
<1> SUFFICES ASSUME Invariant, PrepareSamples PROVE Invariant'
  OBVIOUS
<1>1. /\ TypeOK /\ pc = "prepare" /\ held = {} /\ buffer = <<>> /\ written <= Len(buffer)
      /\ sizes = <<>> /\ offset = 0 /\ offset <= Len(group) /\ result = "none"
      /\ \A i \in 1 .. written : buffer[i] = i
  BY DEF Invariant, PrepareSamples, HeldInPlace, BufferInPlace, GroupInPlace, ResultWhole
<1>2. /\ UNCHANGED <<op, strings, asked, options, params, capacity, group, offset, sizes, buffer,
                     written, extResult>>
      /\ \/ /\ samples' = [i \in DOMAIN strings |-> strings[i].length]
            /\ held' = {"samples"} /\ pc' = "buffer" /\ result' = result
         \/ /\ pc' = "returned" /\ result' = "AllocateError" /\ samples' = samples /\ held' = held
  BY ErrorFacts DEF PrepareSamples, Raise, inputVars, outputVars
<1>3. /\ samples' \in Seq(Nat)
      /\ pc' = "buffer" => Len(samples') = Len(strings)
  <2>1. CASE samples' = [i \in DOMAIN strings |-> strings[i].length]
    <3>1. strings \in Seq(StringRecords)
      BY <1>1 DEF TypeOK, StringRecords
    <3>2. DOMAIN strings = 1 .. Len(strings) /\ Len(strings) \in Nat
      BY <3>1
    <3>3. \A i \in 1 .. Len(strings) : strings[i].length \in Nat
      <4>1. \A i \in 1 .. Len(strings) : strings[i] \in StringRecords
        BY <3>1
      <4>2. \A r \in StringRecords : r.length \in Nat
        BY DEF StringRecords
      <4> QED BY <4>1, <4>2
    <3> DEFINE n == Len(strings)
    <3>4. samples' = [i \in 1 .. n |-> strings[i].length] /\ n \in Nat
      BY <2>1, <3>2
    <3>5. \A i \in 1 .. n : strings[i].length \in Nat
      BY <3>3
    <3> HIDE DEF n
    <3>6. samples' \in Seq(Nat) /\ Len(samples') = n
      BY <3>4, <3>5
    <3> QED BY <3>6 DEF n
  <2>2. CASE samples' = samples /\ pc' = "returned"
    BY <1>1, <2>2 DEF TypeOK
  <2> QED BY <1>2, <2>1, <2>2
<1>4. TypeOK'
  <2>1. /\ pc' \in {"buffer", "returned"} /\ held' \subseteq {"samples", "group", "sizes"}
        /\ result' \in {"none", "ok"} \union Exceptions
    BY <1>1, <1>2 DEF TypeOK, Exceptions
  <2> QED BY <1>1, <1>2, <1>3, <2>1 DEF TypeOK
<1>5. HeldInPlace' /\ BufferInPlace'
  BY <1>1, <1>2 DEF HeldInPlace, NoLeak, BufferInPlace, ResultWhole
<1>6. GroupInPlace'
  BY <1>1, <1>2, <1>3 DEF GroupInPlace
<1>7. ParamsInPlace'
  BY <1>1, <1>2 DEF ParamsInPlace, Resolved, Invariant
<1> QED BY <1>4, <1>5, <1>6, <1>7 DEF Invariant

\* The string for the dictionary is made, as long as the capacity, or the
\* list of samples is left behind.
LEMMA CreateBufferStep == Invariant /\ CreateBuffer => Invariant'
<1> SUFFICES ASSUME Invariant, CreateBuffer PROVE Invariant'
  OBVIOUS
<1>1. /\ TypeOK /\ pc = "buffer" /\ held = {"samples"} /\ buffer = <<>> /\ written <= Len(buffer)
      /\ sizes = <<>> /\ offset = 0 /\ offset <= Len(group) /\ result = "none"
      /\ Len(samples) = Len(strings)
  BY DEF Invariant, CreateBuffer, HeldInPlace, BufferInPlace, GroupInPlace, ResultWhole
<1>2. /\ UNCHANGED <<op, strings, asked, options, params, samples, group, offset, sizes, held,
                     written, extResult>>
      /\ \/ /\ buffer' = [i \in 1 .. capacity' |-> 0] /\ pc' = "group" /\ result' = result
         \/ /\ pc' = "returned" /\ result' = "AllocateError" /\ buffer' = buffer
  BY ErrorFacts DEF CreateBuffer, Raise, inputVars, groupVars
<1>3. capacity' \in Nat
  <2>1. capacity \in Nat /\ DefaultCapacity \in Nat
    BY <1>1 DEF TypeOK
  <2> QED BY <2>1 DEF CreateBuffer
<1>4. buffer' \in Seq(Nat) /\ (pc' = "group" => Len(buffer') = capacity')
  <2>1. CASE buffer' = [i \in 1 .. capacity' |-> 0]
    BY <1>3, <2>1
  <2>2. CASE pc' = "returned" /\ buffer' = buffer
    BY <1>1, <2>2 DEF TypeOK
  <2> QED BY <1>2, <2>1, <2>2
<1>5. written = 0
  BY <1>1 DEF TypeOK
<1>6. TypeOK'
  <2>1. pc' \in {"group", "returned"} /\ result' \in {"none", "ok"} \union Exceptions
    BY <1>1, <1>2 DEF TypeOK, Exceptions
  <2> QED BY <1>1, <1>2, <1>3, <1>4, <2>1 DEF TypeOK
<1>7. HeldInPlace'
  BY <1>1, <1>2 DEF HeldInPlace, NoLeak
<1>8. BufferInPlace'
  <2>1. \/ pc' = "group" /\ result' = "none"
        \/ pc' = "returned" /\ result' = "AllocateError"
    BY <1>1, <1>2, Zenon
  <2>2. written' = 0 /\ Len(buffer') \in Nat
    BY <1>2, <1>4, <1>5
  <2>3. written' <= Len(buffer') /\ 1 .. written' = {}
    BY <2>2
  <2> QED BY <1>4, <2>1, <2>3 DEF BufferInPlace, ResultWhole
<1>9. GroupInPlace'
  BY <1>1, <1>2 DEF GroupInPlace
<1>10. ParamsInPlace'
  BY <1>1, <1>2 DEF ParamsInPlace, Resolved, Invariant
<1> QED BY <1>6, <1>7, <1>8, <1>9, <1>10 DEF Invariant

\* The group is as long as the sizes together; nothing has been stored.
LEMMA AllocateGroupStep == Invariant /\ AllocateGroup => Invariant'
<1> SUFFICES ASSUME Invariant, AllocateGroup PROVE Invariant'
  OBVIOUS
<1>1. /\ TypeOK /\ pc = "group" /\ held = {"samples"} /\ Len(buffer) = capacity
      /\ sizes = <<>> /\ offset = 0 /\ offset <= Len(group) /\ Len(samples) = Len(strings)
      /\ samples \in Seq(Nat) /\ group \in Seq(Nat \X Nat)
  BY DEF Invariant, AllocateGroup, HeldInPlace, BufferInPlace, GroupInPlace, TypeOK
<1>2. /\ UNCHANGED <<op, strings, asked, options, params, capacity, samples, offset, sizes, buffer,
                     written, result>>
      /\ \/ /\ group' = [k \in 1 .. Total(samples) |-> Unknown]
            /\ held' = held \union {"group"} /\ pc' = "sizes" /\ extResult' = extResult
         \/ /\ pc' = "unwrap" /\ extResult' = "ALLOCATE_FAILED" /\ group' = group /\ held' = held
  BY DEF AllocateGroup, WrapperFails, inputVars
<1>3. Total(samples) \in Nat
  BY <1>1, TotalNat
<1>4. /\ group' \in Seq(Nat \X Nat) /\ Len(group') \in Nat
      /\ pc' = "sizes" => Len(group') = Total(samples)
  <2> DEFINE n == Total(samples)
  <2>1. n \in Nat
    BY <1>3
  <2> HIDE DEF n
  <2>2. CASE group' = [k \in 1 .. n |-> Unknown]
    <3> DEFINE Byte == Nat \X Nat
    <3>1. Unknown \in Byte
      BY DEF Unknown
    <3> HIDE DEF Byte
    <3>2. group' \in Seq(Byte) /\ Len(group') = n
      BY <2>1, <2>2, <3>1
    <3> QED BY <2>1, <3>2 DEF Byte, n
  <2>3. CASE pc' = "unwrap" /\ group' = group
    BY <1>1, <2>3
  <2> QED BY <1>2, <2>2, <2>3 DEF n
<1>5. TypeOK'
  <2>1. /\ pc' \in {"sizes", "unwrap"} /\ held' \subseteq {"samples", "group", "sizes"}
        /\ extResult' \in {"none", "ALLOCATE_FAILED", "VALIDATE_FAILED", "CORRUPTED_DICTIONARY", "UNEXPECTED"}
    BY <1>1, <1>2 DEF TypeOK
  <2> QED BY <1>1, <1>2, <1>4, <2>1 DEF TypeOK
<1>6. HeldInPlace'
  BY <1>1, <1>2 DEF HeldInPlace, NoLeak
<1>7. BufferInPlace'
  BY <1>1, <1>2 DEF BufferInPlace, ResultWhole, Invariant
<1>8. GroupInPlace'
  BY <1>1, <1>2, <1>4 DEF GroupInPlace
<1>9. ParamsInPlace'
  BY <1>1, <1>2 DEF ParamsInPlace, Resolved, Invariant
<1> QED BY <1>5, <1>6, <1>7, <1>8, <1>9 DEF Invariant

\* The sizes are allocated, or the group is freed.
LEMMA AllocateSizesStep == Invariant /\ AllocateSizes => Invariant'
<1> SUFFICES ASSUME Invariant, AllocateSizes PROVE Invariant'
  OBVIOUS
<1>1. /\ TypeOK /\ pc = "sizes" /\ held = {"samples", "group"} /\ Len(buffer) = capacity
      /\ sizes = <<>> /\ offset = 0 /\ offset <= Len(group) /\ Len(samples) = Len(strings)
      /\ Len(group) = Total(samples) /\ samples \in Seq(Nat)
  BY DEF Invariant, AllocateSizes, HeldInPlace, BufferInPlace, GroupInPlace, TypeOK
<1>2. /\ UNCHANGED <<op, strings, asked, options, params, capacity, samples, group, offset, sizes,
                     buffer, written, result>>
      /\ \/ held' = held \union {"sizes"} /\ pc' = "copy" /\ extResult' = extResult
         \/ pc' = "unwrap" /\ extResult' = "ALLOCATE_FAILED" /\ held' = held \ {"group"}
  BY DEF AllocateSizes, WrapperFails, inputVars, groupVars
<1>3. TypeOK'
  <2>1. /\ pc' \in {"copy", "unwrap"} /\ held' \subseteq {"samples", "group", "sizes"}
        /\ extResult' \in {"none", "ALLOCATE_FAILED", "VALIDATE_FAILED", "CORRUPTED_DICTIONARY", "UNEXPECTED"}
    BY <1>1, <1>2 DEF TypeOK
  <2> QED BY <1>1, <1>2, <2>1 DEF TypeOK
<1>4. HeldInPlace'
  BY <1>1, <1>2 DEF HeldInPlace, NoLeak
<1>5. BufferInPlace'
  BY <1>1, <1>2 DEF BufferInPlace, ResultWhole, Invariant
<1>6. SamplesCopied
  <2>1. Len(sizes) = 0 /\ Len(samples) \in Nat
    BY <1>1
  <2>2. SubSeq(samples, 1, 0) = <<>> /\ Total(SubSeq(samples, 1, 0)) = 0
    BY <1>1, TotalOfNone
  <2> QED BY <1>1, <2>1, <2>2 DEF SamplesCopied, GroupHolds
<1>7. GroupInPlace'
  <2>1. pc' = "copy" => SamplesCopied'
    BY <1>2, <1>6 DEF SamplesCopied, GroupHolds
  <2> QED BY <1>1, <1>2, <2>1 DEF GroupInPlace
<1>8. ParamsInPlace'
  BY <1>1, <1>2 DEF ParamsInPlace, Resolved, Invariant
<1> QED BY <1>3, <1>4, <1>5, <1>7, <1>8 DEF Invariant

\* The wrapper has copied all samples.
LEMMA CopiedAllStep == Invariant /\ CopiedAll => Invariant'
<1> SUFFICES ASSUME Invariant, CopiedAll PROVE Invariant'
  OBVIOUS
<1>1. /\ pc = "copy" /\ pc' = "codec" /\ Len(sizes) = Len(samples)
      /\ UNCHANGED <<op, strings, asked, options, params, capacity, samples, group, offset, sizes,
                     held, buffer, written, extResult, result>>
  BY DEF CopiedAll, inputVars, groupVars, outputVars
<1>2. TypeOK'
  BY <1>1 DEF Invariant, TypeOK
<1>3. HeldInPlace' /\ BufferInPlace'
  BY <1>1 DEF Invariant, HeldInPlace, NoLeak, BufferInPlace, ResultWhole
<1>4. SamplesCopied'
  BY <1>1 DEF Invariant, GroupInPlace, SamplesCopied, GroupHolds
<1>5. GroupInPlace'
  BY <1>1, <1>4 DEF Invariant, GroupInPlace
<1>6. ParamsInPlace'
  BY <1>1 DEF ParamsInPlace, Resolved, Invariant
<1> QED BY <1>2, <1>3, <1>5, <1>6 DEF Invariant

\* One sample is copied behind those before it: it ends inside the group, and
\* the bytes of the others stay where they are.
LEMMA CopySampleStep == Invariant /\ CopySample => Invariant'
<1> SUFFICES ASSUME Invariant, CopySample PROVE Invariant'
  OBVIOUS
<1> DEFINE j == Len(sizes) + 1
           Byte == Nat \X Nat
<1>1. /\ TypeOK /\ pc = "copy" /\ Len(sizes) < Len(samples)
      /\ sizes = SubSeq(samples, 1, Len(sizes)) /\ offset = Total(SubSeq(samples, 1, Len(sizes)))
      /\ GroupHolds(Len(sizes))
      /\ Len(group) = Total(samples) /\ Len(samples) = Len(strings)
  BY DEF Invariant, CopySample, GroupInPlace, SamplesCopied
<1>2. samples \in Seq(Nat) /\ sizes \in Seq(Nat) /\ group \in Seq(Byte) /\ offset \in Nat
  BY <1>1 DEF TypeOK
<1>3. /\ UNCHANGED <<pc, op, strings, asked, options, params, capacity, samples, held, buffer, written,
                     extResult, result>>
      /\ group' = Copied(j, samples[j]) /\ offset' = offset + samples[j]
      /\ sizes' = Append(sizes, samples[j])
  BY DEF CopySample, inputVars, outputVars
<1>4. /\ j \in 1 .. Len(samples) /\ j - 1 = Len(sizes) /\ Len(sizes) \in 0 .. Len(samples)
      /\ samples[j] \in Nat /\ Len(samples) \in Nat
  BY <1>1, <1>2
<1>5. PICK f : Sums(samples, f)
  BY <1>2, SumsExist
<1>6. /\ \A i \in 0 .. Len(samples) : f[i] \in Nat
      /\ \A i \in 1 .. Len(samples) : f[i] = f[i - 1] + samples[i]
  BY <1>5 DEF Sums
<1>7. /\ \A i \in 0 .. Len(samples) : Total(SubSeq(samples, 1, i)) = f[i]
      /\ Total(samples) = f[Len(samples)]
  BY <1>2, <1>5, TotalOfBeginning, TotalIsSum
<1>8. \A m \in 0 .. Len(samples) : \A n \in m .. Len(samples) : f[m] <= f[n]
  BY <1>2, <1>5, SumsGrow
<1> HIDE DEF j, Byte
<1>9. /\ offset = f[j - 1] /\ offset' = f[j] /\ f[j] = offset + samples[j]
      /\ f[j] <= Len(group)
  <2>1. offset = f[j - 1] /\ f[j] = f[j - 1] + samples[j]
    BY <1>1, <1>4, <1>6, <1>7
  <2>2. f[j] <= f[Len(samples)]
    BY <1>4, <1>8
  <2> QED BY <1>1, <1>3, <1>7, <2>1, <2>2
<1>10. sizes' = SubSeq(samples, 1, j) /\ Len(sizes') = j /\ sizes' \in Seq(Nat)
  <2> DEFINE n == Len(sizes)
             t == SubSeq(samples, 1, j)
  <2>1. n \in Nat /\ j = n + 1 /\ sizes' = Append(sizes, samples[j]) /\ \A i \in 1 .. n : sizes[i] = samples[i]
    BY <1>1, <1>2, <1>3, <1>4 DEF j
  <2>2. sizes' \in Seq(Nat) /\ Len(sizes') = j /\ sizes'[j] = samples[j] /\ \A i \in 1 .. n : sizes'[i] = sizes[i]
    BY <1>2, <1>4, <2>1
  <2>3. t \in Seq(Nat) /\ Len(t) = j /\ \A i \in 1 .. j : t[i] = samples[i]
    BY <1>2, <1>4
  <2> HIDE DEF n, t
  <2>4. \A i \in 1 .. j : sizes'[i] = t[i]
    <3> SUFFICES ASSUME NEW i \in 1 .. j PROVE sizes'[i] = t[i]
      OBVIOUS
    <3>1. i = j \/ i \in 1 .. n
      BY <2>1
    <3> QED BY <2>1, <2>2, <2>3, <3>1
  <2>5. sizes' = t
    <3> DEFINE u == sizes'
    <3>1. u \in Seq(Nat) /\ t \in Seq(Nat) /\ Len(u) = Len(t) /\ \A i \in 1 .. Len(u) : u[i] = t[i]
      BY <2>2, <2>3, <2>4
    <3> HIDE DEF u
    <3>2. u = t
      BY <3>1, SeqEqual
    <3> QED BY <3>2 DEF u
  <2> QED BY <2>2, <2>5 DEF t
<1>11. /\ group' \in Seq(Byte) /\ Len(group') = Len(group)
       /\ \A k \in 1 .. offset : group'[k] = group[k]
       /\ \A k \in 1 .. samples[j] : strings[j].changed \/ group'[offset + k] = <<j, k>>
  <2> DEFINE l == Len(group)
             size == samples[j]
             changed == strings[j].changed
             Stored(k) == IF k <= offset \/ k > offset + size THEN group[k]
                          ELSE IF changed THEN Unknown ELSE <<j, k - offset>>
  <2>1. l \in Nat /\ size \in Nat /\ offset \in Nat /\ offset + size <= l
    BY <1>2, <1>4, <1>9
  <2>2. group' = [k \in 1 .. l |-> Stored(k)]
    BY <1>3 DEF Copied
  <2>3. \A k \in 1 .. l : group[k] \in Byte
    BY <1>2
  <2>4. j \in Nat
    BY <1>4
  <2> HIDE DEF l, size, changed
  <2>5. ASSUME NEW k \in 1 .. l PROVE Stored(k) \in Byte
    <3>1. Unknown \in Byte
      BY DEF Unknown, Byte
    <3>2. CASE k <= offset \/ k > offset + size
      BY <2>3, <3>2
    <3>3. CASE ~(k <= offset \/ k > offset + size)
      <4>1. k - offset \in Nat
        BY <2>1, <3>3
      <4>2. <<j, k - offset>> \in Byte
        BY <2>4, <4>1 DEF Byte
      <4> QED BY <3>1, <3>3, <4>2
    <3> QED BY <3>2, <3>3
  <2>6. ASSUME NEW k \in 1 .. offset PROVE group'[k] = group[k]
    <3>1. k \in 1 .. l /\ k <= offset
      BY <2>1
    <3> QED BY <2>2, <3>1
  <2>7. ASSUME NEW k \in 1 .. size PROVE changed \/ group'[offset + k] = <<j, k>>
    <3> DEFINE place == offset + k
    <3>1. place \in 1 .. l /\ ~(place <= offset \/ place > offset + size) /\ place - offset = k
      BY <2>1
    <3> HIDE DEF place
    <3>2. group'[place] = Stored(place)
      BY <2>2, <3>1
    <3>3. changed \/ group'[place] = <<j, place - offset>>
      BY <3>1, <3>2
    <3>4. changed \/ group'[place] = <<j, k>>
      BY <3>1, <3>3
    <3> QED BY <3>4 DEF place
  <2> HIDE DEF Stored
  <2>8. group' \in Seq(Byte) /\ Len(group') = l
    BY <2>1, <2>2, <2>5
  <2> QED BY <2>6, <2>7, <2>8 DEF l, size, changed
<1>12. SamplesCopied'
  <2>1. Len(sizes') <= Len(samples') /\ sizes' = SubSeq(samples', 1, Len(sizes'))
    BY <1>3, <1>4, <1>10
  <2>2. offset' = Total(SubSeq(samples', 1, Len(sizes')))
    BY <1>3, <1>4, <1>7, <1>9, <1>10
  <2>3. ASSUME NEW i \in 1 .. j, NEW k \in 1 .. samples[i]
        PROVE  strings[i].changed \/ group'[Total(SubSeq(samples, 1, i - 1)) + k] = <<i, k>>
    <3>1. i \in 1 .. Len(samples) /\ i - 1 \in 0 .. Len(samples) /\ samples[i] \in Nat /\ i \in Nat
      BY <1>2, <1>4
    <3>2. Total(SubSeq(samples, 1, i - 1)) = f[i - 1] /\ f[i - 1] \in Nat /\ f[i] = f[i - 1] + samples[i]
      BY <1>6, <1>7, <3>1
    <3>3. CASE i = j
      BY <1>9, <1>11, <3>2, <3>3
    <3>4. CASE i # j
      <4>1. i \in 1 .. Len(sizes) /\ i \in 0 .. Len(samples) /\ j - 1 \in i .. Len(samples)
        BY <1>4, <3>1, <3>4
      <4>2. f[i] <= f[j - 1]
        BY <1>8, <4>1
      <4>3. f[i - 1] + k \in 1 .. offset
        <5> DEFINE before == f[i - 1]
                   size == samples[i]
        <5>1. before \in Nat /\ size \in Nat /\ k \in 1 .. size /\ before + size <= offset
          BY <1>9, <3>1, <3>2, <4>2
        <5> HIDE DEF before, size
        <5>2. before + k \in 1 .. offset
          BY <1>2, <5>1
        <5> QED BY <5>2 DEF before
      <4>4. strings[i].changed \/ group[f[i - 1] + k] = <<i, k>>
        BY <1>1, <3>2, <4>1 DEF GroupHolds
      <4>5. group'[f[i - 1] + k] = group[f[i - 1] + k]
        BY <1>11, <4>3
      <4> QED BY <3>2, <4>4, <4>5
    <3> QED BY <3>3, <3>4
  <2>4. GroupHolds(Len(sizes))'
    BY <1>3, <1>10, <2>3 DEF GroupHolds
  <2> QED BY <2>1, <2>2, <2>4 DEF SamplesCopied
<1>13. TypeOK'
  <2>1. offset' \in Nat
    BY <1>2, <1>3, <1>4
  <2> QED BY <1>1, <1>3, <1>10, <1>11, <2>1 DEF TypeOK, Byte
<1>14. HeldInPlace' /\ BufferInPlace' /\ ParamsInPlace'
  BY <1>3 DEF Invariant, HeldInPlace, NoLeak, BufferInPlace, ResultWhole, ParamsInPlace, Resolved
<1>15. GroupInPlace'
  <2>1. offset' <= Len(group')
    BY <1>9, <1>11
  <2> QED BY <1>1, <1>3, <1>11, <1>12, <2>1 DEF GroupInPlace
<1> QED BY <1>13, <1>14, <1>15 DEF Invariant

\* ZDICT returns: the wrapper frees the group and the sizes; what was written
\* is a beginning of the string.
LEMMA CallCodecStep == Invariant /\ CallCodec => Invariant'
<1> SUFFICES ASSUME Invariant, CallCodec PROVE Invariant'
  OBVIOUS
<1>1. /\ TypeOK /\ pc = "codec" /\ held = {"samples", "group", "sizes"} /\ Len(buffer) = capacity
      /\ written <= Len(buffer) /\ \A i \in 1 .. written : buffer[i] = i
      /\ offset <= Len(group) /\ result = "none" /\ buffer \in Seq(Nat) /\ written \in Nat
      /\ extResult \in {"none"} \union ErrorCodes
  <2>1. TypeOK /\ HeldInPlace /\ BufferInPlace /\ GroupInPlace /\ pc = "codec" /\ pc' = "unwrap"
    BY DEF Invariant, CallCodec
  <2> QED BY <2>1 DEF HeldInPlace, BufferInPlace, GroupInPlace, TypeOK, ErrorCodes
<1>2. /\ UNCHANGED <<op, strings, asked, options, params, capacity, samples, group, offset, sizes, result>>
      /\ held' = held \ {"group", "sizes"} /\ pc' = "unwrap"
  BY DEF CallCodec, inputVars, groupVars
<1>3. /\ buffer' \in Seq(Nat) /\ written' \in Nat /\ Len(buffer') = capacity /\ written' <= Len(buffer')
      /\ \A i \in 1 .. written' : buffer'[i] = i
      /\ extResult' \in {"none"} \union ErrorCodes
  <2>1. CASE DictionaryMade
    <3> DEFINE n == Len(buffer)
    <3>1. /\ n \in Nat /\ written' \in 0 .. n /\ capacity = n /\ extResult' = extResult
          /\ buffer' = [i \in 1 .. n |-> IF i <= written' THEN i ELSE buffer[i]]
      BY <1>1, <2>1 DEF DictionaryMade, TypeOK
    <3>2. \A i \in 1 .. n : buffer[i] \in Nat
      BY <1>1
    <3> HIDE DEF n
    <3>3. buffer' \in Seq(Nat) /\ Len(buffer') = n
      BY <3>1, <3>2
    <3>4. \A i \in 1 .. written' : buffer'[i] = i
      BY <3>1
    <3> QED BY <1>1, <3>1, <3>3, <3>4
  <2>2. CASE DictionaryRefused
    BY <1>1, <2>2, ErrorFacts DEF DictionaryRefused
  <2> QED BY <2>1, <2>2 DEF CallCodec
<1>4. TypeOK'
  <2>1. held' \subseteq {"samples", "group", "sizes"} /\ pc' = "unwrap"
    BY <1>1, <1>2
  <2> QED BY <1>1, <1>2, <1>3, <2>1 DEF TypeOK, ErrorCodes
<1>5. HeldInPlace'
  BY <1>1, <1>2 DEF HeldInPlace, NoLeak
<1>6. BufferInPlace'
  BY <1>1, <1>2, <1>3 DEF BufferInPlace, ResultWhole
<1>7. GroupInPlace'
  BY <1>1, <1>2 DEF GroupInPlace
<1>8. ParamsInPlace'
  BY <1>1, <1>2 DEF ParamsInPlace, Resolved, Invariant
<1> QED BY <1>4, <1>5, <1>6, <1>7, <1>8 DEF Invariant

\* The list is freed; an error of the wrapper raises its exception.
LEMMA UnwrapStep == Invariant /\ Unwrap => Invariant'
<1> SUFFICES ASSUME Invariant, Unwrap PROVE Invariant'
  OBVIOUS
<1>1. /\ TypeOK /\ pc = "unwrap" /\ held = {"samples"} /\ result = "none" /\ offset <= Len(group)
      /\ extResult \in {"none"} \union ErrorCodes
  <2>1. TypeOK /\ HeldInPlace /\ BufferInPlace /\ GroupInPlace /\ pc = "unwrap" /\ held' = held \ {"samples"}
    BY DEF Invariant, Unwrap
  <2> QED BY <2>1 DEF HeldInPlace, BufferInPlace, GroupInPlace, TypeOK, ErrorCodes
<1>2. /\ UNCHANGED <<op, strings, asked, options, params, capacity, samples, group, offset, sizes, buffer,
                     written, extResult>>
      /\ held' = {}
      /\ \/ pc' = "resize" /\ result' = result
         \/ pc' = "returned" /\ result' \in Exceptions
  <2>1. /\ UNCHANGED <<op, strings, asked, options, params, capacity, samples, group, offset, sizes, buffer,
                       written, extResult>>
        /\ held' = {}
    BY <1>1 DEF Unwrap, inputVars, groupVars, outputVars
  <2>2. CASE extResult = "none"
    BY <2>1, <2>2 DEF Unwrap
  <2>3. CASE extResult \in ErrorCodes
    <3>1. extResult # "none" /\ ExceptionOf(extResult) \in Exceptions
      BY <2>3, ErrorFacts DEF ErrorCodes
    <3> QED BY <2>1, <3>1 DEF Unwrap, Raise
  <2> QED BY <1>1, <2>2, <2>3
<1>3. result' # "ok" /\ result' \in {"none", "ok"} \union Exceptions /\ pc' \in {"resize", "returned"}
  BY <1>1, <1>2 DEF TypeOK, Exceptions
<1>4. TypeOK'
  <2>1. held' \subseteq {"samples", "group", "sizes"}
    BY <1>2
  <2> QED BY <1>1, <1>2, <1>3, <2>1 DEF TypeOK
<1>5. HeldInPlace'
  BY <1>2, <1>3 DEF HeldInPlace, NoLeak
<1>6. BufferInPlace'
  BY <1>1, <1>2, <1>3 DEF BufferInPlace, ResultWhole, Invariant
<1>7. GroupInPlace'
  BY <1>1, <1>2, <1>3 DEF GroupInPlace
<1>8. ParamsInPlace'
  BY <1>1, <1>2 DEF ParamsInPlace, Resolved, Invariant
<1> QED BY <1>4, <1>5, <1>6, <1>7, <1>8 DEF Invariant

\* The string keeps what was written, which Dictionary.new takes unless it is
\* nothing.
LEMMA ResizeStep == Invariant /\ Resize => Invariant'
<1> SUFFICES ASSUME Invariant, Resize PROVE Invariant'
  OBVIOUS
<1>1. /\ TypeOK /\ pc = "resize" /\ held = {} /\ offset <= Len(group)
      /\ buffer \in Seq(Nat) /\ written \in Nat /\ written <= Len(buffer)
      /\ \A i \in 1 .. written : buffer[i] = i
  BY DEF Invariant, Resize, HeldInPlace, BufferInPlace, GroupInPlace, TypeOK
<1>2. /\ UNCHANGED <<op, strings, asked, options, params, capacity, samples, group, offset, sizes, held,
                     written, extResult>>
      /\ pc' = "returned"
      /\ \/ /\ buffer' = SubSeq(buffer, 1, written)
            /\ result' = IF written = 0 THEN "ValidateError" ELSE "ok"
         \/ result' = "AllocateError" /\ buffer' = buffer
  BY ErrorFacts DEF Resize, Raise, inputVars, groupVars
<1>3. /\ buffer' \in Seq(Nat) /\ written <= Len(buffer') /\ \A i \in 1 .. written : buffer'[i] = i
      /\ result' = "ok" => written # 0 /\ buffer' = [i \in 1 .. written |-> i]
  <2>1. CASE /\ buffer' = SubSeq(buffer, 1, written)
             /\ result' = IF written = 0 THEN "ValidateError" ELSE "ok"
    <3> DEFINE t == SubSeq(buffer, 1, written)
    <3>1. t \in Seq(Nat) /\ Len(t) = written /\ \A i \in 1 .. written : t[i] = i
      BY <1>1
    <3>2. t = [i \in 1 .. written |-> i]
      BY <1>1
    <3> HIDE DEF t
    <3>3. buffer' = t
      BY <2>1 DEF t
    <3>4. result' = "ok" => written # 0
      BY <2>1
    <3> QED BY <1>1, <3>1, <3>2, <3>3, <3>4
  <2>2. CASE result' = "AllocateError" /\ buffer' = buffer
    BY <1>1, <2>2
  <2> QED BY <1>2, <2>1, <2>2
<1>4. TypeOK'
  <2>1. result' \in {"none", "ok"} \union Exceptions
    BY <1>2 DEF Exceptions
  <2> QED BY <1>1, <1>2, <1>3, <2>1 DEF TypeOK
<1>5. HeldInPlace' /\ ParamsInPlace'
  BY <1>1, <1>2 DEF HeldInPlace, NoLeak, ParamsInPlace
<1>6. BufferInPlace'
  <2>1. ASSUME result' = "ok" PROVE buffer' # <<>>
    <3>1. Len(buffer') >= 1
      BY <1>1, <1>3, <2>1
    <3> QED BY <3>1
  <2> QED BY <1>2, <1>3, <2>1 DEF BufferInPlace, ResultWhole
<1>7. GroupInPlace'
  BY <1>1, <1>2 DEF GroupInPlace
<1> QED BY <1>4, <1>5, <1>6, <1>7 DEF Invariant

\* An interrupt leaves the list of samples, and only that.
LEMMA InterruptedStep == Invariant /\ Interrupted => Invariant'
<1> SUFFICES ASSUME Invariant, Interrupted PROVE Invariant'
  OBVIOUS
<1>1. /\ pc \in {"group", "unwrap"} /\ pc' = "returned" /\ result' = "Interrupted"
      /\ UNCHANGED <<op, strings, asked, options, params, capacity, samples, group, offset, sizes,
                     held, buffer, written, extResult>>
  BY DEF Interrupted, Raise, inputVars, groupVars, outputVars
<1>2. TypeOK'
  BY <1>1 DEF Invariant, TypeOK, Exceptions
<1>3. HeldInPlace' /\ BufferInPlace' /\ GroupInPlace' /\ ParamsInPlace'
  BY <1>1 DEF Invariant, HeldInPlace, NoLeak, BufferInPlace, ResultWhole, GroupInPlace, ParamsInPlace
<1> QED BY <1>2, <1>3 DEF Invariant

\* Another thread changes a sample, which from then on is marked.
LEMMA StringChangesStep == Invariant /\ StringChanges => Invariant'
<1> SUFFICES ASSUME Invariant, StringChanges PROVE Invariant'
  OBVIOUS
<1>1. UNCHANGED <<pc, op, asked, options, params, capacity, samples, group, offset, sizes, held, buffer,
                  written, extResult, result>>
  BY DEF StringChanges, groupVars, outputVars
<1>2. PICK i \in DOMAIN strings, length \in 0 .. MaxSampleLength :
        strings' = [strings EXCEPT ![i] = [length |-> length, changed |-> TRUE]]
  BY DEF StringChanges
<1>3. strings \in Seq(StringRecords) /\ [length |-> length, changed |-> TRUE] \in StringRecords
  BY DEF Invariant, TypeOK, StringRecords
<1>4. /\ strings' \in Seq(StringRecords) /\ Len(strings') = Len(strings)
      /\ \A j \in 1 .. Len(strings) : strings[j].changed => strings'[j].changed
  <2> DEFINE changed == [length |-> length, changed |-> TRUE]
  <2>1. changed \in StringRecords /\ changed.changed
    BY <1>3
  <2> HIDE DEF changed
  <2>2. strings' = [strings EXCEPT ![i] = changed] /\ i \in 1 .. Len(strings)
    BY <1>2, <1>3 DEF changed
  <2>3. /\ strings' \in Seq(StringRecords) /\ Len(strings') = Len(strings)
        /\ \A j \in 1 .. Len(strings) : strings'[j] = IF j = i THEN changed ELSE strings[j]
    BY <1>3, <2>1, <2>2
  <2> QED BY <2>1, <2>3
<1>5. TypeOK'
  BY <1>1, <1>4 DEF Invariant, TypeOK, StringRecords
<1>6. HeldInPlace' /\ BufferInPlace' /\ ParamsInPlace'
  BY <1>1 DEF Invariant, HeldInPlace, NoLeak, BufferInPlace, ResultWhole, ParamsInPlace, Resolved
<1>7. SamplesCopied /\ Len(samples) = Len(strings) => SamplesCopied'
  <2> SUFFICES ASSUME SamplesCopied, Len(samples) = Len(strings) PROVE SamplesCopied'
    OBVIOUS
  <2>1. samples \in Seq(Nat) /\ sizes \in Seq(Nat)
    BY DEF Invariant, TypeOK
  <2>2. ASSUME NEW j \in 1 .. Len(sizes), NEW k \in 1 .. samples[j]
        PROVE  strings'[j].changed \/ group[Total(SubSeq(samples, 1, j - 1)) + k] = <<j, k>>
    <3>1. strings[j].changed \/ group[Total(SubSeq(samples, 1, j - 1)) + k] = <<j, k>>
      BY DEF SamplesCopied, GroupHolds
    <3>2. j \in 1 .. Len(strings)
      BY <2>1 DEF SamplesCopied
    <3> QED BY <1>4, <3>1, <3>2
  <2>3. GroupHolds(Len(sizes))'
    BY <1>1, <2>2 DEF GroupHolds
  <2> QED BY <1>1, <2>3 DEF SamplesCopied
<1>8. GroupInPlace'
  BY <1>1, <1>4, <1>7 DEF Invariant, GroupInPlace
<1> QED BY <1>5, <1>6, <1>8 DEF Invariant

\* No step leaves the invariant.
LEMMA NextInvariant == Invariant /\ [Next]_vars => Invariant'
<1> SUFFICES ASSUME Invariant, [Next]_vars PROVE Invariant'
  OBVIOUS
<1>1. ASSUME UNCHANGED vars PROVE Invariant'
  <2>1. UNCHANGED <<pc, op, strings, asked, options, params, capacity, samples, group, offset, sizes, held,
                    buffer, written, extResult, result>>
    BY <1>1 DEF vars, inputVars, groupVars, outputVars
  <2>2. TypeOK' /\ HeldInPlace' /\ BufferInPlace'
    BY <2>1 DEF Invariant, TypeOK, HeldInPlace, NoLeak, BufferInPlace, ResultWhole
  <2>3. GroupInPlace' /\ ParamsInPlace'
    BY <2>1 DEF Invariant, GroupInPlace, SamplesCopied, GroupHolds, ParamsInPlace, Resolved
  <2> QED BY <2>2, <2>3 DEF Invariant
<1>2. CASE Next
  BY <1>1, <1>2, ValidateStep, ResolveOptionsStep, PrepareSamplesStep, CreateBufferStep,
     AllocateGroupStep, AllocateSizesStep, CopySampleStep, CopiedAllStep, CallCodecStep,
     UnwrapStep, ResizeStep, InterruptedStep, StringChangesStep
     DEF Next, Done
<1> QED BY <1>1, <1>2

\* The invariant holds in every state of dictionary.c.
THEOREM InvariantCorrect == Spec => []Invariant
<1> QED BY InitInvariant, NextInvariant, PTL DEF Spec

-----------------------------------------------------------------------------
\* Every variable keeps its type: no size or offset is below zero, whatever
\* ZDICT and another thread do.
THEOREM TypeCorrect == Spec => []TypeOK
<1>1. Invariant => TypeOK
  BY DEF Invariant
<1> QED BY <1>1, InvariantCorrect, PTL

\* The samples end inside the group, what prepare_samples_group writes to is
\* allocated, and ZDICT is told the length of the string it fills
\* (dictionary.c:54-93, 151-163).
THEOREM MemoryCorrect == Spec => []MemorySafe
<1>1. Invariant => MemorySafe
  BY DEF Invariant, HeldInPlace, BufferInPlace, GroupInPlace, MemorySafe, Released
<1> QED BY <1>1, InvariantCorrect, PTL

\* ZDICT is given all samples behind each other with their sizes, whatever
\* their number and lengths, and each byte of a sample that has not changed
\* (dictionary.c:54-93).
THEOREM GroupCorrect == Spec => []GroupFaithful
<1>1. ASSUME Invariant PROVE GroupFaithful
  <2> SUFFICES ASSUME pc = "codec" PROVE GroupFaithful
    BY DEF GroupFaithful
  <2>1. /\ samples \in Seq(Nat) /\ SamplesCopied /\ Len(sizes) = Len(samples)
        /\ Len(group) = Total(samples)
    BY <1>1 DEF Invariant, TypeOK, GroupInPlace
  <2>2. SubSeq(samples, 1, Len(samples)) = samples
    BY <2>1
  <2>3. DOMAIN samples = 1 .. Len(samples)
    BY <2>1
  <2>4. sizes = samples
    BY <2>1, <2>2 DEF SamplesCopied
  <2> QED BY <2>1, <2>3, <2>4 DEF GroupFaithful, SamplesCopied, GroupHolds
<1> QED BY <1>1, InvariantCorrect, PTL

\* Only an interrupt and a string that cannot be made leave memory behind, and
\* then only the list of samples (dictionary.c:151, 165).
THEOREM LeaksKnown == Spec => []NoLeak
<1>1. Invariant => NoLeak
  BY DEF Invariant, HeldInPlace
<1> QED BY <1>1, InvariantCorrect, PTL

\* A dictionary is exactly what ZDICT wrote, and never empty
\* (dictionary.c:171-175, dictionary.rb:42).
THEOREM ResultCorrect == Spec => []ResultWhole
<1>1. Invariant => ResultWhole
  BY DEF Invariant, BufferInPlace
<1> QED BY <1>1, InvariantCorrect, PTL

\* An unsigned number passes through an int and back.
LEMMA UnsignedSurvives ==
  ASSUME NEW n \in 0 .. 2 * HalfRange - 1
  PROVE  ToUnsigned(ToInt(ToUnsigned(n))) = n
<1>1. HalfRange \in Nat /\ n \in Nat /\ n < 2 * HalfRange /\ ToUnsigned(n) = n
  BY DEF ToUnsigned
<1>2. CASE n >= HalfRange
  BY <1>1, <1>2 DEF ToInt, ToUnsigned
<1>3. CASE ~(n >= HalfRange)
  BY <1>1, <1>3 DEF ToInt, ToUnsigned
<1> QED BY <1>1, <1>2, <1>3

\* A number that fits its parameter arrives at ZDICT, for every width of int
\* (option.h:25, dictionary.c:209-237).
THEOREM NumbersCorrect == Spec => []NumbersSurvive
<1>1. ASSUME Invariant PROVE NumbersSurvive
  <2> SUFFICES ASSUME pc = "codec", NEW p \in OptionNames, HasValue(options[p]),
                      OptionType[p] = "UINT" => options[p].number >= 0
               PROVE  params[p] = options[p].number
    BY DEF NumbersSurvive
  <2>1. /\ OptionType[p] \in {"INT", "UINT"} /\ options[p].number \in Int
        /\ ConversionError(OptionType[p], options[p]) = "none"
        /\ params[p] = Resolved(p)
    <3>1. options[p] \in Value
      BY <1>1 DEF Invariant, TypeOK
    <3> QED BY <1>1, <3>1, ConversionFacts DEF Invariant, ParamsInPlace, Value
  <2>2. CASE OptionType[p] = "INT"
    BY <2>1, <2>2 DEF Resolved, Converted
  <2>3. CASE OptionType[p] = "UINT"
    <3> DEFINE n == options[p].number
    <3>1. ~OutOfRange("UINT", options[p])
      BY <2>1, <2>3 DEF ConversionError
    <3>2. n \in 0 .. 2 * HalfRange - 1
      BY <2>1, <2>3, <3>1 DEF OutOfRange
    <3>3. Resolved(p) = ToUnsigned(ToInt(ToUnsigned(n)))
      BY <2>3 DEF Resolved, Converted
    <3> HIDE DEF n
    <3>4. Resolved(p) = n
      BY <3>2, <3>3, UnsignedSurvives
    <3> QED BY <2>1, <3>4 DEF n
  <2> QED BY <2>1, <2>2, <2>3
<1> QED BY <1>1, InvariantCorrect, PTL
=============================================================================
