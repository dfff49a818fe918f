---------------------------- MODULE StringBuffer ----------------------------
(***************************************************************************)
(* What compression and decompression of strings share (string.c): a       *)
(* source string held in memory, and a destination string that grows by    *)
(* destination_buffer_length bytes when it is full and is cut to the bytes *)
(* written at the end.  The byte at position p of the source is the number *)
(* p; 0 is a byte of the destination string nothing was stored in.         *)
(***************************************************************************)
EXTENDS Naturals, Sequences

CONSTANTS
  DestinationBufferLength,
  MaxSourceLength,  \* bound on the length of the source string
  Gvl,              \* option gvl: keep the global lock during codec calls
  Faults            \* memory, options or codec may fail

ASSUME DestinationBufferAssumption == DestinationBufferLength \in Nat \ {0}
ASSUME MaxSourceLengthAssumption == MaxSourceLength \in Nat
ASSUME SwitchAssumption == Gvl \in BOOLEAN /\ Faults \in BOOLEAN

VARIABLES
  pc,                 \* the place in the code the call has reached
  held,               \* the call holds a context
  result,             \* "none" while it runs, then "ok" or the error it raises
  sourceLength,       \* source_length
  inPos,              \* in_buffer.pos
  destinationValue,   \* the destination string
  destinationLength,  \* destination_length
  remaining           \* remaining_destination_buffer_length

callVars == <<pc, held, result>>
destinationVars == <<destinationValue, destinationLength, remaining>>
stringVars == <<callVars, sourceLength, inPos, destinationVars>>

Errors == {"AllocateError", "ValidateError", "NotEnoughDestinationBufferError",
           "DecompressorCorruptedSourceError", "CorruptedDictionaryError",
           "Interrupted"}

\* What set_*_options may return: no memory for the dictionary, a value or a
\* dictionary that the context refuses.
OptionErrors == {"AllocateError", "ValidateError", "CorruptedDictionaryError"}

StringBufferInit ==
  /\ pc = "context"
  /\ held = FALSE
  /\ result = "none"
  /\ sourceLength \in 0 .. MaxSourceLength
  /\ inPos = 0
  /\ destinationValue = <<>>
  /\ destinationLength = 0
  /\ remaining = DestinationBufferLength

\* The call ends with an exception, and nothing behind it runs.
Raise(error) == result' = error /\ pc' = "returned"

\* The loop returns to its caller, which frees the context.
Return(outcome) == result' = outcome /\ pc' = "release"

\* ZSTD_createCCtx or ZSTD_createDCtx.
CreateContext ==
  /\ pc = "context"
  /\ \/ pc' = "options" /\ held' = TRUE /\ UNCHANGED result
     \/ Faults /\ Raise("AllocateError") /\ UNCHANGED held
  /\ UNCHANGED <<sourceLength, inPos, destinationVars>>

\* zstds_ext_set_compressor_options or zstds_ext_set_decompressor_options.
SetOptions ==
  /\ pc = "options"
  /\ \/ pc' = "buffer" /\ UNCHANGED <<held, result>>
     \/ Faults /\ (\E error \in OptionErrors : Raise(error)) /\ held' = FALSE
  /\ UNCHANGED <<sourceLength, inPos, destinationVars>>

\* A string of the given length that begins with the bytes of s.
Resized(s, length) == [i \in 1 .. length |-> IF i <= Len(s) THEN s[i] ELSE 0]

\* Mutant: a destination string that cannot be made leaves the context.
CreateBufferLeaking ==
  /\ pc = "buffer"
  /\ \/ /\ pc' = "call"
        /\ destinationValue' = Resized(<<>>, DestinationBufferLength)
        /\ UNCHANGED result
     \/ Faults /\ Raise("AllocateError") /\ UNCHANGED destinationValue
  /\ UNCHANGED <<held, sourceLength, inPos, destinationLength, remaining>>

\* ZSTDS_EXT_CREATE_STRING_BUFFER.
CreateBuffer ==
  /\ pc = "buffer"
  /\ \/ /\ pc' = "call"
        /\ destinationValue' = Resized(<<>>, DestinationBufferLength)
        /\ UNCHANGED <<held, result>>
     \/ Faults /\ Raise("AllocateError") /\ held' = FALSE /\ UNCHANGED destinationValue
  /\ UNCHANGED <<sourceLength, inPos, destinationLength, remaining>>

-----------------------------------------------------------------------------
\* Mutant: in_buffer starts at its top again in every turn of the loop.
InputFromTop == [i \in 1 .. sourceLength |-> i]

Input == [i \in 1 .. sourceLength - inPos |-> inPos + i]

\* Mutant: the codec writes to the top of the destination string.
StoredAtTop(from, written) ==
  [i \in 1 .. Len(destinationValue) |->
     IF i <= written THEN from + i ELSE destinationValue[i]]

\* The destination string with written bytes, numbered from + 1, stored at
\* RSTRING_PTR + destination_length.
Stored(from, written) ==
  [i \in 1 .. Len(destinationValue) |->
     IF i > destinationLength /\ i <= destinationLength + written
     THEN from + i - destinationLength
     ELSE destinationValue[i]]

\* Mutant: the string grows, the room left in it is not renewed.
CallAgainStale(read, from, written) ==
  /\ inPos' = inPos + read
  /\ destinationLength' = destinationLength + written
  /\ remaining' = remaining - written
  /\ destinationValue' = Resized(Stored(from, written), destinationLength' + DestinationBufferLength)
  /\ UNCHANGED <<held, sourceLength, pc, result>>

\* The loop goes round again after increase_destination_buffer.
CallAgain(read, from, written) ==
  /\ inPos' = inPos + read
  /\ destinationLength' = destinationLength + written
  /\ UNCHANGED <<held, sourceLength>>
  /\ \/ /\ remaining - written = DestinationBufferLength
        /\ Return("NotEnoughDestinationBufferError")
        /\ destinationValue' = Stored(from, written)
        /\ remaining' = remaining - written
     \/ /\ remaining - written # DestinationBufferLength
        /\ destinationValue' = Resized(Stored(from, written), destinationLength' + DestinationBufferLength)
        /\ remaining' = DestinationBufferLength
        /\ UNCHANGED <<pc, result>>
     \/ /\ remaining - written # DestinationBufferLength /\ Faults
        /\ Return("AllocateError")
        /\ destinationValue' = Stored(from, written)
        /\ remaining' = remaining - written

\* The loop ends.
CallLast(read, from, written) ==
  /\ inPos' = inPos + read
  /\ destinationValue' = Stored(from, written)
  /\ destinationLength' = destinationLength + written
  /\ remaining' = remaining - written
  /\ pc' = "resize"
  /\ UNCHANGED <<held, sourceLength, result>>

\* The codec returned an error: the loop is left with ext_result.
CodecFails(error) ==
  /\ Return(error)
  /\ UNCHANGED <<held, sourceLength, inPos, destinationVars>>

-----------------------------------------------------------------------------
\* The last ZSTDS_EXT_RESIZE_STRING_BUFFER, when it succeeds.
Resize ==
  /\ pc = "resize"
  /\ destinationValue' = Resized(destinationValue, destinationLength)
  /\ Return("ok")
  /\ UNCHANGED <<held, sourceLength, inPos, destinationLength, remaining>>

\* Mutant: an error returns without freeing the context.
ReleaseOnSuccess ==
  /\ pc = "release"
  /\ held' = (result # "ok")
  /\ pc' = "returned"
  /\ UNCHANGED <<result, sourceLength, inPos, destinationVars>>

\* ZSTD_freeCCtx or ZSTD_freeDCtx, then raise the error if any.
Release ==
  /\ pc = "release"
  /\ held' = FALSE
  /\ pc' = "returned"
  /\ UNCHANGED <<result, sourceLength, inPos, destinationVars>>

\* Without the global lock an exception of a pending interrupt leaves the
\* call from rb_thread_call_without_gvl, past the code that frees.
Interrupted ==
  /\ ~Gvl
  /\ pc = "call"
  /\ Raise("Interrupted")
  /\ UNCHANGED <<held, sourceLength, inPos, destinationVars>>

\* What the variables hold.
StringBufferType ==
  /\ pc \in {"context", "options", "buffer", "call", "resize", "release", "returned"}
  /\ held \in BOOLEAN
  /\ result \in {"none", "ok"} \union Errors
  /\ sourceLength \in 0 .. MaxSourceLength /\ inPos \in 0 .. sourceLength
  /\ destinationValue \in Seq(Nat)
  /\ destinationLength \in Nat
  /\ remaining \in 0 .. DestinationBufferLength
=============================================================================
