--------------------------- MODULE FileDecompress ---------------------------
(***************************************************************************)
(* ZSTDS::File.decompress: zstds_ext_decompress_io (io.c) feeds the source *)
(* file to a decompression context and releases everything.  The file is   *)
(* an archive, or the beginning of one that was truncated.                 *)
(***************************************************************************)
EXTENDS BufferedIO, ZstdDecompressor

ASSUME ArchiveAssumption == \E e \in FrameEnds : MaxFileLength <= e

vars == <<ioVars, dctx>>

Init ==
  /\ BufferedIOInit
  /\ dctx = NewContext

Start ==
  /\ OpenFiles \/ CreateContext \/ SetOptions \/ CreateBuffers
  /\ UNCHANGED dctx

ReadSource ==
  /\ ReadMoreSource("tail")
  /\ UNCHANGED dctx

\* buffered_decompress, one turn of its loop.
Decompress ==
  /\ pc = "call"
  /\ \/ \E read \in 0 .. Len(Input), written \in 0 .. DestinationRoom :
          /\ DecompressCall(Input, DestinationRoom, read, written)
          /\ Buffered(read, dctx.out, written, "tail")
     \/ \E error \in DecompressErrors :
          /\ Faults
          /\ CodecFails(error)
          /\ UNCHANGED dctx

Complete ==
  /\ WriteRemaining \/ Release \/ Fflush
  /\ UNCHANGED dctx

Interrupted == Interrupt({"call"}) /\ UNCHANGED dctx

Changed == FileChanges /\ UNCHANGED dctx

Done == pc = "returned" /\ UNCHANGED vars

Program == Start \/ ReadSource \/ Decompress \/ Complete

Next == Program \/ Interrupted \/ Changed \/ Done

Spec == Init /\ [][Next]_vars

\* The call runs on its thread; nobody owes it an interrupt or a new file.
FairSpec == Spec /\ WF_vars(Program)

-----------------------------------------------------------------------------
\* The values the variables of the call can take (locals of io.c:504-531).
TypeOK ==
  /\ pc \in {"open", "context", "options", "buffers", "read", "call", "tail",
             "release", "fflush", "returned"}
  /\ held \subseteq Resources
  /\ result \in {"none", "ok"} \union Errors
  /\ fileLength \in 0 .. MaxFileLength /\ readPosition \in Nat
  /\ sourceBuffer \in BufferOf(SourceBufferLength)
  /\ source \in Nat /\ sourceLength \in Nat /\ inPos \in Nat
  /\ source + sourceLength <= SourceBufferLength /\ inPos <= sourceLength
  /\ called \in BOOLEAN /\ finished \in BOOLEAN
  /\ destinationBuffer \in BufferOf(DestinationBufferLength)
  /\ destinationLength \in 0 .. DestinationBufferLength
  /\ destination \in Seq(Nat) /\ saved \in Nat
  /\ dctx \in ContextType

\* decompress_io returns without an error only when the context took all that
\* was read and the destination holds all that was decoded: the whole content
\* if the archive was whole (io.c:504-531).
OkMeansWhole ==
  result = "ok" =>
    /\ Len(dctx.consumed) = readPosition
    /\ Len(destination) = dctx.decoded
    /\ readPosition \in FrameEnds => Len(destination) = Content[readPosition]

\* io.c:131 says that no remainder is left when the file is finished.
NoRemainder ==
  pc = "read" /\ Unread = 0 => sourceLength = 0

\* The two errors of a buffer too small never happen, even of one byte, and
\* even when a frame ends in the middle of the buffer (io.c:102, 167).
BuffersSuffice ==
  result \notin {"NotEnoughSourceBufferError", "NotEnoughDestinationBufferError"}

\* What the caller of File.decompress is promised.
Promise == INSTANCE Transfer WITH
  taken     <- dctx.consumed,
  out       <- dctx.out,
  delivered <- destination,
  outcome   <- CASE result = "none" -> "running"
                 [] result = "ok"   -> "ok"
                 [] OTHER           -> "failed"

\* The loops of io.c deliver what the caller is promised.
KeepsPromise == Promise!Spec

\* Neither the read loop (io.c:123-154) nor the loop around the codec call
\* (io.c:468-493) can go round forever.
Terminates == <>(pc = "returned")
=============================================================================
