----------------------------- MODULE BufferedIO -----------------------------
(***************************************************************************)
(* What compression and decompression of files share (io.c): a source file *)
(* read through a source buffer whose unused tail is moved to the top      *)
(* before each fread, and a destination file written through a destination *)
(* buffer that is flushed when it is full.                                 *)
(*                                                                         *)
(* The byte at position p of the source file is the number p, so a byte    *)
(* lost, repeated or out of place shows as a wrong number; 0 is a byte of  *)
(* a buffer that nothing was stored in.  Buffers are indexed from 0.       *)
(***************************************************************************)
EXTENDS Naturals, Sequences

CONSTANTS
  SourceBufferLength,
  DestinationBufferLength,
  MaxFileLength,   \* bound on the length of the source file
  Gvl,             \* option gvl: keep the global lock during codec calls
  Faults           \* memory, options, files and codec may fail, files change

ASSUME SourceBufferAssumption == SourceBufferLength \in Nat \ {0}
ASSUME DestinationBufferAssumption == DestinationBufferLength \in Nat \ {0}
ASSUME MaxFileLengthAssumption == MaxFileLength \in Nat
ASSUME SwitchAssumption == Gvl \in BOOLEAN /\ Faults \in BOOLEAN

VARIABLES
  pc,                 \* the place in the code the call has reached
  held,               \* what the call has allocated and not freed
  result,             \* "none" while it runs, then "ok" or the error it raises
  fileLength,         \* the length of the source file
  readPosition,       \* the bytes fread has taken from it
  sourceBuffer,       \* source_buffer
  source,             \* source - source_buffer
  sourceLength,       \* source_length
  inPos,              \* in_buffer.pos
  called,             \* is_function_called
  finished,           \* the one call after the end of an empty file
  destinationBuffer,  \* destination_buffer
  destinationLength,  \* destination_length
  destination,        \* the bytes fwrite has accepted, in order
  saved               \* how many of them stdio has passed to the system

fileVars == <<fileLength, readPosition>>
sourceVars == <<sourceBuffer, source, sourceLength, inPos, called, finished>>
destinationVars == <<destinationBuffer, destinationLength, destination, saved>>
ioVars == <<pc, held, result, fileVars, sourceVars, destinationVars>>

Resources == {"context", "source_buffer", "destination_buffer"}
Errors == {"AllocateError", "ValidateError", "AccessIOError", "ReadIOError",
           "WriteIOError", "NotEnoughSourceBufferError",
           "NotEnoughDestinationBufferError",
           "DecompressorCorruptedSourceError", "CorruptedDictionaryError",
           "Interrupted"}

\* What set_*_options may return: no memory for the dictionary, a value or a
\* dictionary that the context refuses.
OptionErrors == {"AllocateError", "ValidateError", "CorruptedDictionaryError"}

BufferOf(length) == [0 .. length - 1 -> Nat]

BufferedIOInit ==
  /\ pc = "open"
  /\ held = {}
  /\ result = "none"
  /\ fileLength \in 0 .. MaxFileLength
  /\ readPosition = 0
  /\ sourceBuffer = [i \in 0 .. SourceBufferLength - 1 |-> 0]
  /\ source = 0 /\ sourceLength = 0 /\ inPos = 0
  /\ called = FALSE /\ finished = FALSE
  /\ destinationBuffer = [i \in 0 .. DestinationBufferLength - 1 |-> 0]
  /\ destinationLength = 0
  /\ destination = <<>>
  /\ saved = 0

-----------------------------------------------------------------------------
\* The call ends with an exception, and nothing behind it runs.
Raise(error) == result' = error /\ pc' = "returned"

\* ext_result goes back to the caller, which frees what it holds.
Return(outcome) == result' = outcome /\ pc' = "release"

\* GET_FILE of the source and of the destination.
OpenFiles ==
  /\ pc = "open"
  /\ \/ pc' = "context" /\ UNCHANGED result
     \/ Faults /\ Raise("AccessIOError")
  /\ UNCHANGED <<held, fileVars, sourceVars, destinationVars>>

\* ZSTD_createCCtx or ZSTD_createDCtx.
CreateContext ==
  /\ pc = "context"
  /\ \/ pc' = "options" /\ held' = held \union {"context"} /\ UNCHANGED result
     \/ Faults /\ Raise("AllocateError") /\ UNCHANGED held
  /\ UNCHANGED <<fileVars, sourceVars, destinationVars>>

\* zstds_ext_set_compressor_options or zstds_ext_set_decompressor_options: on an
\* error the caller frees the context.
SetOptions ==
  /\ pc = "options"
  /\ \/ pc' = "buffers" /\ UNCHANGED <<result, held>>
     \/ /\ Faults
        /\ \E error \in OptionErrors : Raise(error)
        /\ held' = held \ {"context"}
  /\ UNCHANGED <<fileVars, sourceVars, destinationVars>>

\* Mutant: a failed second malloc leaves the source buffer allocated.
CreateBuffersLeaking ==
  /\ pc = "buffers"
  /\ \/ /\ pc' = "read"
        /\ held' = held \union {"source_buffer", "destination_buffer"}
        /\ UNCHANGED result
     \/ \E allocated \in {{}, {"source_buffer"}} :
          /\ Faults
          /\ held' = (held \union allocated) \ {"context"}
          /\ Raise("AllocateError")
  /\ UNCHANGED <<fileVars, sourceVars, destinationVars>>

\* create_buffers: when the second malloc fails the first buffer is freed,
\* and the caller frees the context in both cases.
CreateBuffers ==
  /\ pc = "buffers"
  /\ \/ /\ pc' = "read"
        /\ held' = held \union {"source_buffer", "destination_buffer"}
        /\ UNCHANGED result
     \/ \E allocated \in {{}, {"source_buffer"}} :
          /\ Faults
          /\ held' = ((held \union allocated) \ {"source_buffer"}) \ {"context"}
          /\ Raise("AllocateError")
  /\ UNCHANGED <<fileVars, sourceVars, destinationVars>>

-----------------------------------------------------------------------------
(***************************************************************************)
(* read_more_source, and what BUFFERED_READ_SOURCE does with its result.   *)
(***************************************************************************)
Room == SourceBufferLength - sourceLength
Unread == IF fileLength > readPosition THEN fileLength - readPosition ELSE 0

\* Mutant: the tail is not moved before fread.
RefilledUnmoved(count) ==
  [i \in 0 .. SourceBufferLength - 1 |->
     IF i >= sourceLength /\ i < sourceLength + count
     THEN readPosition + i - sourceLength + 1
     ELSE sourceBuffer[i]]

\* memmove to the top, then fread of count bytes behind what was moved.
Refilled(count) ==
  [i \in 0 .. SourceBufferLength - 1 |->
     IF i < sourceLength THEN sourceBuffer[source + i]
     ELSE IF i < sourceLength + count THEN readPosition + i - sourceLength + 1
     ELSE sourceBuffer[i]]

HasNoRoom ==
  /\ Room = 0
  /\ sourceBuffer' = Refilled(0)
  /\ Return("NotEnoughSourceBufferError")
  /\ UNCHANGED <<readPosition, sourceLength, called, finished>>

ReadBytes ==
  /\ Room > 0 /\ Unread > 0
  /\ LET count == IF Room < Unread THEN Room ELSE Unread
     IN  /\ sourceBuffer' = Refilled(count)
         /\ sourceLength' = sourceLength + count
         /\ readPosition' = readPosition + count
  /\ pc' = "call"
  /\ UNCHANGED <<result, called, finished>>

ReadFails ==
  /\ Faults
  /\ \E count \in 0 .. Unread :
       /\ count < Room
       /\ sourceBuffer' = Refilled(count)
       /\ readPosition' = readPosition + count
  /\ Return("ReadIOError")
  /\ UNCHANGED <<sourceLength, called, finished>>

\* Mutant: the end of the file is taken for a read of no bytes.
ReadFinishedUnnoticed(next) ==
  /\ Room > 0 /\ Unread = 0
  /\ sourceBuffer' = Refilled(0)
  /\ pc' = "call"
  /\ UNCHANGED <<result, readPosition, sourceLength, called, finished>>

\* Mutant: a remainder is not looked for.
ReadFinishedCarefree(next) ==
  /\ Room > 0 /\ Unread = 0
  /\ sourceBuffer' = Refilled(0)
  /\ pc' = IF called THEN next ELSE "call"
  /\ finished' = ~called
  /\ UNCHANGED <<result, readPosition, sourceLength, called>>

\* ZSTDS_EXT_FILE_READ_FINISHED: a remainder is an error, and the function is
\* called once when the file was empty.
ReadFinished(next) ==
  /\ Room > 0 /\ Unread = 0
  /\ sourceBuffer' = Refilled(0)
  /\ IF sourceLength # 0
     THEN Return("ReadIOError") /\ UNCHANGED finished
     ELSE /\ pc' = IF called THEN next ELSE "call"
          /\ finished' = ~called
          /\ UNCHANGED result
  /\ UNCHANGED <<readPosition, sourceLength, called>>

ReadMoreSource(next) ==
  /\ pc = "read"
  /\ HasNoRoom \/ ReadBytes \/ ReadFails \/ ReadFinished(next)
  /\ source' = 0
  /\ UNCHANGED <<held, fileLength, inPos, destinationVars>>

-----------------------------------------------------------------------------
(***************************************************************************)
(* One codec call of buffered_compress, buffered_compressor_finish or      *)
(* buffered_decompress, which took read bytes of the input and stored      *)
(* written bytes, the first of them numbered from + 1, in the buffer.      *)
(***************************************************************************)
Input == [i \in 1 .. sourceLength - inPos |-> sourceBuffer[source + inPos + i - 1]]
DestinationRoom == DestinationBufferLength - destinationLength

\* Mutant: the codec writes to the top of the destination buffer.
StoreAtTop(from, written) ==
  destinationBuffer' = [i \in 0 .. DestinationBufferLength - 1 |->
    IF i < written THEN from + i + 1 ELSE destinationBuffer[i]]

Store(from, written) ==
  destinationBuffer' = [i \in 0 .. DestinationBufferLength - 1 |->
    IF i >= destinationLength /\ i < destinationLength + written
    THEN from + i - destinationLength + 1
    ELSE destinationBuffer[i]]

\* The first length bytes of the destination buffer.
Staged(buffer, length) == [i \in 1 .. length |-> buffer[i - 1]]

\* stdio keeps what it accepted or passes all of it to the system.
Accepts(length) ==
  /\ destination' = destination \o Staged(destinationBuffer', length)
  /\ saved' \in {saved, Len(destination')}

\* flush_destination_buffer.
FlushDestination(length) ==
  \/ /\ length = 0
     /\ Return("NotEnoughDestinationBufferError")
     /\ destinationLength' = length
     /\ UNCHANGED <<destination, saved>>
  \/ /\ length > 0
     /\ Accepts(length)
     /\ destinationLength' = 0
     /\ UNCHANGED <<pc, result>>
  \/ /\ length > 0 /\ Faults
     /\ \E accepted \in 0 .. length - 1 : Accepts(accepted)
     /\ destinationLength' = length
     /\ Return("WriteIOError")

\* The loop goes round again with the rest of the same input.
CallAgain(read, from, written) ==
  /\ Store(from, written)
  /\ FlushDestination(destinationLength + written)
  /\ inPos' = inPos + read
  /\ UNCHANGED <<source, sourceLength, called>>

\* Mutant: source_length steps over the last call only.
CallLastForgetful(read, from, written, next) ==
  /\ Store(from, written)
  /\ destinationLength' = destinationLength + written
  /\ source' = source + inPos + read
  /\ sourceLength' = sourceLength - read
  /\ inPos' = 0
  /\ called' = TRUE
  /\ pc' = next
  /\ UNCHANGED <<result, destination, saved>>

\* The loop ends: source and source_length step over what was taken.
CallLast(read, from, written, next) ==
  /\ Store(from, written)
  /\ destinationLength' = destinationLength + written
  /\ source' = source + inPos + read
  /\ sourceLength' = sourceLength - (inPos + read)
  /\ inPos' = 0
  /\ called' = TRUE
  /\ pc' = next
  /\ UNCHANGED <<result, destination, saved>>

\* Mutant: a full destination buffer is flushed by the next call, the rest of
\* the input waits for more source.
BufferedOnce(read, from, written, next) ==
  /\ CallLast(read, from, written, IF finished THEN next ELSE "read")
  /\ UNCHANGED <<held, fileVars, sourceBuffer, finished>>

\* buffered_compress and buffered_decompress after a call: flush and go round
\* when the buffer is full, else read more source, or leave the loop when the
\* file was empty.
Buffered(read, from, written, next) ==
  /\ IF destinationLength + written = DestinationBufferLength
     THEN CallAgain(read, from, written)
     ELSE CallLast(read, from, written, IF finished THEN next ELSE "read")
  /\ UNCHANGED <<held, fileVars, sourceBuffer, finished>>

\* The codec returned an error: the loop is left with ext_result.
CodecFails(error) ==
  /\ Return(error)
  /\ UNCHANGED <<held, fileVars, sourceVars, destinationVars>>

-----------------------------------------------------------------------------
\* write_remaining_destination.
WriteRemaining ==
  /\ pc = "tail"
  /\ UNCHANGED destinationBuffer
  /\ \/ destinationLength = 0 /\ Return("ok") /\ UNCHANGED <<destination, saved>>
     \/ destinationLength > 0 /\ Return("ok") /\ Accepts(destinationLength)
     \/ /\ destinationLength > 0 /\ Faults
        /\ Return("WriteIOError")
        /\ \E accepted \in 0 .. destinationLength - 1 : Accepts(accepted)
  /\ UNCHANGED <<held, fileVars, sourceVars, destinationLength>>

\* free, free, ZSTD_freeCCtx or ZSTD_freeDCtx, then raise the error if any.
Release ==
  /\ pc = "release"
  /\ held' = held \ Resources
  /\ pc' = IF result = "ok" THEN "fflush" ELSE "returned"
  /\ UNCHANGED <<result, fileVars, sourceVars, destinationVars>>

\* Mutant: the file is left to be flushed by whoever closes it.
FflushForgotten ==
  /\ pc = "fflush"
  /\ pc' = "returned"
  /\ UNCHANGED <<held, result, fileVars, sourceVars, destinationVars>>

\* fflush, whose result nobody looks at.
Fflush ==
  /\ pc = "fflush"
  /\ saved' \in {Len(destination)} \union (IF Faults THEN {saved} ELSE {})
  /\ pc' = "returned"
  /\ UNCHANGED <<held, result, fileVars, sourceVars, destinationBuffer,
                 destinationLength, destination>>

\* Without the global lock rb_thread_call_without_gvl handles the pending
\* interrupts of the thread before and after the codec call; an exception of
\* theirs leaves the call without passing the code that frees.
Interrupt(places) ==
  /\ ~Gvl
  /\ pc \in places
  /\ Raise("Interrupted")
  /\ UNCHANGED <<held, fileVars, sourceVars, destinationVars>>

\* Another process appends to the file or truncates it.
FileChanges ==
  /\ Faults
  /\ pc # "returned"
  /\ fileLength' \in 0 .. MaxFileLength
  /\ UNCHANGED <<pc, held, result, readPosition, sourceVars, destinationVars>>
=============================================================================
