----------------------------- MODULE Dictionary -----------------------------
(***************************************************************************)
(* Dictionary.train and Dictionary.finalize (dictionary.rb, dictionary.c): *)
(* the samples are listed under the global lock, copied one behind the     *)
(* other without it, and given to ZDICT with a string for the dictionary.  *)
(* Byte k of sample i is <<i, k>>; a byte of the group that was not stored *)
(* or came from a string another thread has changed is Unknown.  The bytes *)
(* of a dictionary are numbered from 1.                                    *)
(***************************************************************************)
EXTENDS OptionValues, Sequences, Errors

CONSTANTS
  MaxSamples,       \* bound on the number of samples
  MaxSampleLength,  \* bound on the length of a sample
  MaxCapacity,      \* bound on the capacity a user asks for
  DefaultCapacity,  \* ZSTDS_EXT_DEFAULT_DICTIONARY_CAPACITY
  MinLevel,         \* Option::MIN_COMPRESSION_LEVEL
  MaxLevel,         \* Option::MAX_COMPRESSION_LEVEL
  FinalizeValues,   \* values of an option of finalize
  Gvl,              \* option gvl: keep the global lock
  Faults            \* memory or ZDICT may fail

ASSUME BoundAssumption ==
  /\ MaxSamples \in Nat /\ MaxSampleLength \in Nat /\ MaxCapacity \in Nat
  /\ DefaultCapacity \in Nat \ {0}
  /\ MinLevel \in -HalfRange .. HalfRange - 1 /\ MaxLevel \in -HalfRange .. HalfRange - 1
  /\ FinalizeValues \subseteq Value /\ Nil \in FinalizeValues
  /\ Gvl \in BOOLEAN /\ Faults \in BOOLEAN

VARIABLES
  pc,         \* the place in the code
  op,         \* "train" or "finalize"
  strings,    \* the samples: the length of each, and whether it has changed
  asked,      \* dictionary_options, merged with its defaults
  options,    \* those the user gave beside dictionary_options
  params,     \* dictionary_params
  capacity,   \* capacity, max_size
  samples,    \* the sizes in the list of samples
  held,       \* what is allocated
  group,      \* the samples behind each other
  offset,     \* where the next one goes
  sizes,      \* their sizes
  buffer,     \* the string for the dictionary
  written,    \* args.result
  extResult,  \* args.ext_result
  result      \* "none", then "ok" or the exception

inputVars == <<op, strings, asked, options>>
groupVars == <<samples, group, offset, sizes>>
outputVars == <<buffer, written, extResult>>
vars == <<pc, inputVars, params, capacity, groupVars, held, outputVars, result>>

OptionNames == {"compression_level", "notification_level", "dictionary_id"}
OptionType == [p \in OptionNames |-> IF p = "compression_level" THEN "INT" ELSE "UINT"]
NoOptions == [p \in OptionNames |-> Nil]
Defaults == [p \in OptionNames |-> [kind |-> "integer", number |-> 0]]
Unknown == <<0, 0>>

Exceptions == {"AllocateError", "ValidateError", "TypeError", "RangeError", "UnexpectedError",
               "CorruptedDictionaryError", "NotImplementedError", "Interrupted"}

Init ==
  /\ pc = "validate"
  /\ op \in {"train", "finalize"}
  /\ strings = <<>> /\ asked = Defaults /\ options = NoOptions
  /\ params = [p \in OptionNames |-> 0]
  /\ capacity \in 0 .. MaxCapacity
  /\ samples = <<>> /\ group = <<>> /\ offset = 0 /\ sizes = <<>>
  /\ held = {}
  /\ buffer = <<>> /\ written = 0 /\ extResult = "none"
  /\ result = "none"

Raise(exception) == result' = exception /\ pc' = "returned"

\* malloc returns NULL: there is no memory, or nothing was asked for.
CanFail(size) == Faults \/ size = 0

-----------------------------------------------------------------------------
\* The samples and, for finalize, one option: given in dictionary_options, where
\* a nil is a value like others, and, perhaps, beside it.
GiveSamples ==
  \E n \in 0 .. MaxSamples : \E length \in [1 .. n -> 0 .. MaxSampleLength] :
    strings' = [i \in 1 .. n |-> [length |-> length[i], changed |-> FALSE]]

GiveOptions ==
  IF op = "finalize"
  THEN \E p \in OptionNames, v, w \in FinalizeValues :
         /\ asked' = [Defaults EXCEPT ![p] = v]
         /\ options' = [NoOptions EXCEPT ![p] = w]
  ELSE UNCHANGED <<asked, options>>

\* What dictionary.rb lets through; it looks at dictionary_options only.
Proper(p, v) ==
  /\ v.kind = "integer"
  /\ v.number \in IF OptionType[p] = "INT" THEN MinLevel .. MaxLevel ELSE Nat

Validate ==
  /\ pc = "validate"
  /\ GiveSamples /\ GiveOptions
  /\ IF /\ \A i \in DOMAIN strings' : strings'[i].length > 0
        /\ \A p \in OptionNames : Proper(p, asked'[p])
     THEN pc' = "resolve" /\ UNCHANGED result
     ELSE Raise("ValidateError")
  /\ UNCHANGED <<op, params, capacity, groupVars, held, outputVars>>

\* ZSTDS_EXT_GET_DICTIONARY_OPTIONS and the params of finalize_wrapper: the
\* code reads what is beside dictionary_options.  Some builds have no finalize.
ResolveOptions ==
  /\ pc = "resolve"
  /\ \/ /\ \A p \in OptionNames : ConversionError(OptionType[p], options[p]) = "none"
        /\ params' = [p \in OptionNames |->
             LET option == Converted(OptionType[p], options[p])
             IN  IF OptionType[p] = "INT" THEN option.value ELSE ToUnsigned(option.value)]
        /\ pc' = "prepare" /\ UNCHANGED result
     \/ /\ \E p \in OptionNames :
             /\ ConversionError(OptionType[p], options[p]) # "none"
             /\ Raise(ConversionError(OptionType[p], options[p]))
        /\ UNCHANGED params
     \/ op = "finalize" /\ Raise(ExceptionOf("NOT_IMPLEMENTED")) /\ UNCHANGED params
  /\ UNCHANGED <<inputVars, capacity, groupVars, held, outputVars>>

\* prepare_samples.
PrepareSamples ==
  /\ pc = "prepare"
  /\ \/ /\ samples' = [i \in DOMAIN strings |-> strings[i].length]
        /\ held' = {"samples"}
        /\ pc' = "buffer" /\ UNCHANGED result
     \/ /\ CanFail(Len(strings))
        /\ Raise(ExceptionOf("ALLOCATE_FAILED")) /\ UNCHANGED <<samples, held>>
  /\ UNCHANGED <<inputVars, params, capacity, group, offset, sizes, outputVars>>

\* The default capacity, then ZSTDS_EXT_CREATE_STRING_BUFFER; an exception
\* leaves the list of samples behind.
CreateBuffer ==
  /\ pc = "buffer"
  /\ capacity' = IF capacity = 0 THEN DefaultCapacity ELSE capacity
  /\ \/ buffer' = [i \in 1 .. capacity' |-> 0] /\ pc' = "group" /\ UNCHANGED result
     \/ Faults /\ Raise(ExceptionOf("ALLOCATE_FAILED")) /\ UNCHANGED buffer
  /\ UNCHANGED <<inputVars, params, groupVars, held, written, extResult>>

-----------------------------------------------------------------------------
\* The wrapper returns to the function that holds the samples.
WrapperFails(error) == extResult' = error /\ pc' = "unwrap"

\* The sum of the sizes, added one by one.
Total(s) ==
  LET sum[i \in 0 .. Len(s)] == IF i = 0 THEN 0 ELSE sum[i - 1] + s[i]
  IN  sum[Len(s)]

\* prepare_samples_group, until the group is there.
AllocateGroup ==
  /\ pc = "group"
  /\ \/ /\ group' = [k \in 1 .. Total(samples) |-> Unknown]
        /\ held' = held \union {"group"}
        /\ pc' = "sizes" /\ UNCHANGED extResult
     \/ CanFail(Total(samples)) /\ WrapperFails("ALLOCATE_FAILED") /\ UNCHANGED <<group, held>>
  /\ UNCHANGED <<inputVars, params, capacity, samples, offset, sizes, buffer, written, result>>

\* Mutant: without sizes the group stays allocated.
AllocateSizesLeaking ==
  /\ pc = "sizes"
  /\ \/ held' = held \union {"sizes"} /\ pc' = "copy" /\ UNCHANGED extResult
     \/ CanFail(Len(samples)) /\ WrapperFails("ALLOCATE_FAILED") /\ UNCHANGED held
  /\ UNCHANGED <<inputVars, params, capacity, groupVars, buffer, written, result>>

AllocateSizes ==
  /\ pc = "sizes"
  /\ \/ held' = held \union {"sizes"} /\ pc' = "copy" /\ UNCHANGED extResult
     \/ /\ CanFail(Len(samples))
        /\ WrapperFails("ALLOCATE_FAILED") /\ held' = held \ {"group"}
  /\ UNCHANGED <<inputVars, params, capacity, groupVars, buffer, written, result>>

\* size bytes from where sample i was when it was listed.
Copied(i, size) ==
  [k \in 1 .. Len(group) |->
     IF k <= offset \/ k > offset + size THEN group[k]
     ELSE IF strings[i].changed THEN Unknown
     ELSE <<i, k - offset>>]

\* Mutant: the length of the string is read again.
CopySampleAsItIs ==
  /\ pc = "copy" /\ Len(sizes) < Len(samples)
  /\ LET i == Len(sizes) + 1
         size == strings[i].length
     IN  group' = Copied(i, size) /\ offset' = offset + size /\ sizes' = Append(sizes, size)
  /\ UNCHANGED <<pc, inputVars, params, capacity, samples, held, outputVars, result>>

\* Mutant: every sample goes to the top of the group.
CopySampleToTop ==
  /\ pc = "copy" /\ Len(sizes) < Len(samples)
  /\ LET i == Len(sizes) + 1
     IN  group' = Copied(i, samples[i]) /\ sizes' = Append(sizes, samples[i])
  /\ UNCHANGED <<pc, inputVars, params, capacity, samples, offset, held, outputVars, result>>

\* One turn of the loop over the samples.
CopySample ==
  /\ pc = "copy" /\ Len(sizes) < Len(samples)
  /\ LET i == Len(sizes) + 1
     IN  /\ group' = Copied(i, samples[i])
         /\ offset' = offset + samples[i]
         /\ sizes' = Append(sizes, samples[i])
  /\ UNCHANGED <<pc, inputVars, params, capacity, samples, held, outputVars, result>>

CopiedAll ==
  /\ pc = "copy" /\ Len(sizes) = Len(samples)
  /\ pc' = "codec"
  /\ UNCHANGED <<inputVars, params, capacity, groupVars, held, outputVars, result>>

\* ZDICT_trainFromBuffer or ZDICT_finalizeDictionary.
DictionaryMade ==
  /\ written' \in 0 .. capacity
  /\ buffer' = [i \in 1 .. Len(buffer) |-> IF i <= written' THEN i ELSE buffer[i]]
  /\ UNCHANGED extResult

DictionaryRefused ==
  /\ Faults
  /\ \E code \in {"memory_allocation", "srcSize_wrong", "dictionaryCreation_failed", "GENERIC"} :
       extResult' = GetError(code)
  /\ UNCHANGED <<buffer, written>>

\* The call of ZDICT, and the end of the wrapper, which frees its memory.
CallCodec ==
  /\ pc = "codec"
  /\ DictionaryMade \/ DictionaryRefused
  /\ held' = held \ {"group", "sizes"}
  /\ pc' = "unwrap"
  /\ UNCHANGED <<inputVars, params, capacity, groupVars, result>>

-----------------------------------------------------------------------------
\* The lock is taken back, the list is freed, an error is raised.
Unwrap ==
  /\ pc = "unwrap"
  /\ held' = held \ {"samples"}
  /\ IF extResult = "none" THEN pc' = "resize" /\ UNCHANGED result
                           ELSE Raise(ExceptionOf(extResult))
  /\ UNCHANGED <<inputVars, params, capacity, groupVars, outputVars>>

\* Mutant: the string keeps the length it was made with.
ResizeForgotten ==
  /\ pc = "resize"
  /\ result' = "ok" /\ pc' = "returned"
  /\ UNCHANGED <<inputVars, params, capacity, groupVars, held, outputVars>>

\* ZSTDS_EXT_RESIZE_STRING_BUFFER, then Dictionary.new, which wants a string
\* that is not empty.
Resize ==
  /\ pc = "resize"
  /\ \/ /\ buffer' = SubSeq(buffer, 1, written)
        /\ result' = IF written = 0 THEN "ValidateError" ELSE "ok"
        /\ pc' = "returned"
     \/ Faults /\ Raise(ExceptionOf("ALLOCATE_FAILED")) /\ UNCHANGED buffer
  /\ UNCHANGED <<inputVars, params, capacity, groupVars, held, written, extResult>>

\* Interrupts are handled where the lock is released and where it is taken.
Interrupted ==
  /\ ~Gvl
  /\ pc \in {"group", "unwrap"}
  /\ Raise("Interrupted")
  /\ UNCHANGED <<inputVars, params, capacity, groupVars, held, outputVars>>

\* Places at which the global lock may be released.
Released == pc \in {"group", "sizes", "copy", "codec"}

\* Another thread gives a sample other bytes, of any length, in other memory.
\* A second change of the same string adds nothing.
StringChanges ==
  /\ ~Gvl /\ Released
  /\ \E i \in DOMAIN strings, length \in 0 .. MaxSampleLength :
       /\ ~strings[i].changed
       /\ strings' = [strings EXCEPT ![i] = [length |-> length, changed |-> TRUE]]
  /\ UNCHANGED <<pc, op, asked, options, params, capacity, groupVars, held, outputVars, result>>

Done == pc = "returned" /\ UNCHANGED vars

Next ==
  \/ Validate \/ ResolveOptions \/ PrepareSamples \/ CreateBuffer
  \/ AllocateGroup \/ AllocateSizes \/ CopySample \/ CopiedAll \/ CallCodec
  \/ Unwrap \/ Resize \/ Interrupted \/ StringChanges \/ Done

Spec == Init /\ [][Next]_vars

-----------------------------------------------------------------------------
\* What the variables hold.
TypeOK ==
  /\ pc \in {"validate", "resolve", "prepare", "buffer", "group", "sizes", "copy", "codec",
             "unwrap", "resize", "returned"}
  /\ op \in {"train", "finalize"}
  /\ strings \in Seq([length : Nat, changed : BOOLEAN])
  /\ asked \in [OptionNames -> Value] /\ options \in [OptionNames -> Value]
  /\ params \in [OptionNames -> Int]
  /\ capacity \in Nat
  /\ samples \in Seq(Nat) /\ sizes \in Seq(Nat) /\ group \in Seq(Nat \X Nat) /\ offset \in Nat
  /\ held \subseteq {"samples", "group", "sizes"}
  /\ buffer \in Seq(Nat) /\ written \in Nat
  /\ extResult \in {"none", "ALLOCATE_FAILED", "VALIDATE_FAILED", "CORRUPTED_DICTIONARY", "UNEXPECTED"}
  /\ result \in {"none", "ok"} \union Exceptions

\* No store leaves its allocation, even when another thread changes the length
\* of a sample while the lock is released: the sizes are read once
\* (dictionary.c:42-48), and ZDICT is told the length of the string it fills.
MemorySafe ==
  /\ offset <= Len(group)
  /\ Released => capacity = Len(buffer)
  /\ pc \in {"copy", "codec"} => {"samples", "group", "sizes"} \subseteq held

\* ZDICT is given the samples one behind the other with their sizes, each byte
\* once; only a string that another thread changed meanwhile is not as it was
\* (dictionary.c:54-93).
GroupFaithful ==
  pc = "codec" =>
    /\ sizes = samples
    /\ Len(group) = Total(samples)
    /\ \A i \in DOMAIN samples : \A k \in 1 .. samples[i] :
         strings[i].changed \/ group[Total(SubSeq(samples, 1, i - 1)) + k] = <<i, k>>

\* Every way out frees the samples, the group and the sizes, except the two
\* that jump over the free of dictionary.c:165: an interrupt, and a string
\* for the dictionary that cannot be made (dictionary.c:151).
NoLeak ==
  pc = "returned" /\ held # {} =>
    /\ held = {"samples"}
    /\ result = "Interrupted" \/ (result = "AllocateError" /\ buffer = <<>>)

\* A dictionary is exactly what ZDICT wrote, and never empty
\* (dictionary.c:171-175, dictionary.rb:42).
ResultWhole ==
  result = "ok" => buffer # <<>> /\ buffer = [i \in 1 .. written |-> i]

\* A number that fits the parameter of ZDICT arrives there, although it is
\* kept as an int on its way (option.h:25, dictionary.c:209-237).
NumbersSurvive ==
  pc = "codec" =>
    \A p \in OptionNames :
      /\ HasValue(options[p])
      /\ OptionType[p] = "UINT" => options[p].number >= 0
      => params[p] = options[p].number

\* dictionary.rb:73 documents dictionary_options as the options of finalize,
\* and dictionary.rb:90-97 checks them: when nothing is written beside them
\* they should be what ZDICT is given.
OptionsReachCodec ==
  pc = "codec" /\ op = "finalize" /\ options = NoOptions =>
    \A p \in OptionNames : params[p] = asked[p].number
=============================================================================
