---------------------------- MODULE FileCompress ----------------------------
(***************************************************************************)
(* ZSTDS::File.compress: file.rb takes the size of the source file as its  *)
(* pledged size, zstds_ext_compress_io (io.c) feeds the file to a          *)
(* compression context, ends the frame, and releases everything.           *)
(***************************************************************************)
EXTENDS BufferedIO, ZstdCompressor

VARIABLE pledgedSize  \* options[:pledged_size]

vars == <<ioVars, cctx, pledgedSize>>

Init ==
  /\ BufferedIOInit
  /\ cctx = NewContext
  /\ pledgedSize = NoPledge

\* ::File.size source, before the file is opened.
PledgeSize ==
  /\ pc = "open" /\ pledgedSize = NoPledge
  /\ pledgedSize' = fileLength
  /\ UNCHANGED <<ioVars, cctx>>

Open ==
  /\ pledgedSize # NoPledge
  /\ OpenFiles
  /\ UNCHANGED <<cctx, pledgedSize>>

\* Mutant: the pledged size does not reach the context.
CreateUnpledged ==
  /\ CreateContext \/ SetOptions \/ CreateBuffers
  /\ UNCHANGED <<cctx, pledgedSize>>

Create ==
  /\ \/ CreateContext /\ UNCHANGED cctx
     \/ SetOptions /\ Pledge(pledgedSize)
     \/ CreateBuffers /\ UNCHANGED cctx
  /\ UNCHANGED pledgedSize

ReadSource ==
  /\ ReadMoreSource("finish")
  /\ UNCHANGED <<cctx, pledgedSize>>

\* buffered_compress, one turn of its loop.
Compress ==
  /\ pc = "call"
  /\ \/ \E read \in 0 .. Len(Input), written \in 0 .. DestinationRoom :
          /\ ContinueCall(Input, DestinationRoom, read, written)
          /\ Buffered(read, cctx.out, written, "finish")
     \/ /\ ContinueRefused(Input)
        /\ CodecFails("ValidateError")
        /\ UNCHANGED cctx
     \/ /\ Faults
        /\ CodecFails("AllocateError")
        /\ UNCHANGED cctx
  /\ UNCHANGED pledgedSize

\* buffered_compressor_finish, one turn of its loop.
Finish ==
  /\ pc = "finish"
  /\ \/ \E written \in 0 .. DestinationRoom :
          /\ EndPartly(<<>>, DestinationRoom, 0, written)
          /\ Store(cctx.out, written)
          /\ FlushDestination(destinationLength + written)
          /\ UNCHANGED <<held, fileVars, sourceVars>>
     \/ \E written \in 0 .. DestinationRoom :
          /\ EndWholly(<<>>, DestinationRoom, 0, written)
          /\ Store(cctx.out, written)
          /\ destinationLength' = destinationLength + written
          /\ pc' = "tail"
          /\ UNCHANGED <<held, result, fileVars, sourceVars, destination, saved>>
     \/ /\ EndRefused(<<>>)
        /\ CodecFails("ValidateError")
        /\ UNCHANGED cctx
     \/ /\ Faults
        /\ CodecFails("AllocateError")
        /\ UNCHANGED cctx
  /\ UNCHANGED pledgedSize

Complete ==
  /\ WriteRemaining \/ Release \/ Fflush
  /\ UNCHANGED <<cctx, pledgedSize>>

Interrupted ==
  /\ Interrupt({"call", "finish"})
  /\ UNCHANGED <<cctx, pledgedSize>>

Changed == FileChanges /\ UNCHANGED <<cctx, pledgedSize>>

Done == pc = "returned" /\ UNCHANGED vars

Program ==
  PledgeSize \/ Open \/ Create \/ ReadSource \/ Compress \/ Finish \/ Complete

Next == Program \/ Interrupted \/ Changed \/ Done

Spec == Init /\ [][Next]_vars

\* The call runs on its thread; nobody owes it an interrupt or a new file.
FairSpec == Spec /\ WF_vars(Program)

-----------------------------------------------------------------------------
\* The values the variables of the call can take (locals of io.c:337-371).
TypeOK ==
  /\ pc \in {"open", "context", "options", "buffers", "read", "call", "finish",
             "tail", "release", "fflush", "returned"}
  /\ held \subseteq Resources
  /\ result \in {"none", "ok"} \union Errors
  /\ fileLength \in 0 .. MaxFileLength /\ readPosition \in Nat
  /\ sourceBuffer \in BufferOf(SourceBufferLength)
  /\ source \in Nat /\ sourceLength \in Nat /\ inPos \in Nat
  /\ source + sourceLength <= SourceBufferLength /\ inPos <= sourceLength
  /\ called \in BOOLEAN /\ finished \in BOOLEAN
  /\ destinationBuffer \in BufferOf(DestinationBufferLength)
  /\ destinationLength \in 0 .. DestinationBufferLength
  /\ destination \in Seq(Nat) /\ saved \in Nat
  /\ cctx \in ContextType
  /\ pledgedSize \in Nat \union {NoPledge}

\* The context takes the bytes of the file in order, each exactly once, and
\* never a byte of the buffer that no fread stored: the memmove, the offsets
\* and the lengths of io.c:83-121 and 265-266 agree with each other.
SourceFaithful ==
  \A i \in DOMAIN cctx.consumed : cctx.consumed[i] = i

\* The destination file is at every moment a prefix of what the context has
\* handed out, whatever flush, failure or interrupt comes (io.c:160-189).
DestinationFaithful ==
  /\ Len(destination) <= cctx.out
  /\ \A i \in DOMAIN destination : destination[i] = i

\* Before the loops nothing has moved.
Untouched ==
  pc \in {"open", "context", "options", "buffers"} =>
    /\ source = 0 /\ sourceLength = 0 /\ inPos = 0 /\ readPosition = 0
    /\ destinationLength = 0 /\ destination = <<>>
    /\ cctx.consumed = <<>> /\ cctx.out = 0

\* The window of the source buffer, from source on, holds the bytes of the
\* file behind those the context had taken when the loop began.
SourceWindow ==
  pc \in {"read", "call"} =>
    /\ Len(cctx.consumed) + sourceLength = readPosition + inPos
    /\ pc = "read" => inPos = 0
    /\ \A i \in 0 .. sourceLength - 1 :
         sourceBuffer[source + i] + inPos = Len(cctx.consumed) + i + 1

\* What the context has handed out is in the file or in the buffer.
DestinationWindow ==
  result = "none" =>
    /\ Len(destination) + destinationLength = cctx.out
    /\ \A i \in 0 .. destinationLength - 1 :
         destinationBuffer[i] = Len(destination) + i + 1

\* The outcome is known when the loops are left.
OutcomeInPlace ==
  /\ result = "none" <=> pc \notin {"release", "fflush", "returned"}
  /\ pc = "fflush" => result = "ok"

\* What every step of io.c:223-371 keeps: no byte is lost, repeated or out of
\* place between the file, the buffers, the context and the destination.
LoopInvariant ==
  /\ SourceFaithful /\ DestinationFaithful
  /\ Untouched /\ SourceWindow /\ DestinationWindow /\ OutcomeInPlace

\* compress_io returns without an error only when the destination holds one
\* complete frame of exactly the bytes File.size announced, even when another
\* process changed the length of the file meanwhile (file.rb:25, io.c:410-431).
OkMeansArchived ==
  result = "ok" =>
    /\ cctx.frames = 1
    /\ Len(cctx.consumed) = pledgedSize
    /\ Len(destination) = cctx.made

\* Every way out frees the context and both buffers, except the interrupt
\* that jumps over the frees of io.c:420-422.
NoLeak ==
  pc = "returned" /\ result # "Interrupted" => held = {}

\* io.c:131 says that no remainder is left when the file is finished; nor do
\* the two errors of a buffer too small ever happen (io.c:102, 167).
NoRemainder ==
  /\ pc = "read" /\ Unread = 0 => sourceLength = 0
  /\ result \notin {"NotEnoughSourceBufferError", "NotEnoughDestinationBufferError"}

\* What the caller of File.compress is promised.
Promise == INSTANCE Transfer WITH
  taken     <- cctx.consumed,
  out       <- cctx.out,
  delivered <- destination,
  outcome   <- CASE result = "none" -> "running"
                 [] result = "ok"   -> "ok"
                 [] OTHER           -> "failed"

\* The loops of io.c deliver what the caller is promised.
KeepsPromise == Promise!Spec

\* Neither the read loop (io.c:123-154) nor the loops around the codec calls
\* (io.c:238-263, 305-330) can go round forever.
Terminates == <>(pc = "returned")

\* When nothing outside the code fails, the call succeeds and every byte has
\* left stdio when it returns, as the comments of io.c:428 and 588 ask.  It is
\* about the variables of BufferedIO, and true of a decompression as well.
Succeeds == <>(pc = "returned" /\ result = "ok" /\ saved = Len(destination))
=============================================================================
