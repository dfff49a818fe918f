-------------------------- MODULE StringDecompress --------------------------
(***************************************************************************)
(* ZSTDS::String.decompress: zstds_ext_decompress_string (string.c) feeds  *)
(* the whole source to a decompression context again and again while the   *)
(* context fills the room in the destination string, which grows each      *)
(* time.  The source is an archive, or the beginning of one.               *)
(***************************************************************************)
EXTENDS StringBuffer, ZstdDecompressor

ASSUME ArchiveAssumption == \E e \in FrameEnds : MaxSourceLength <= e

vars == <<stringVars, dctx>>

Init ==
  /\ StringBufferInit
  /\ dctx = NewContext

Start ==
  /\ CreateContext \/ SetOptions \/ CreateBuffer
  /\ UNCHANGED dctx

\* Mutant: the loop stops when the source is used up.
DecompressUntilTaken ==
  /\ pc = "call"
  /\ \E read \in 0 .. Len(Input), written \in 0 .. remaining :
       /\ DecompressCall(Input, remaining, read, written)
       /\ IF written = remaining /\ read < Len(Input)
          THEN CallAgain(read, dctx.out, written)
          ELSE CallLast(read, dctx.out, written)

\* decompress, one turn of its loop: only a full string makes it go on.
Decompress ==
  /\ pc = "call"
  /\ \/ \E read \in 0 .. Len(Input), written \in 0 .. remaining :
          /\ DecompressCall(Input, remaining, read, written)
          /\ IF written = remaining
             THEN CallAgain(read, dctx.out, written)
             ELSE CallLast(read, dctx.out, written)
     \/ \E error \in DecompressErrors :
          /\ Faults
          /\ CodecFails(error)
          /\ UNCHANGED dctx

\* When the last resize fails the error is raised from here (string.c:224),
\* not returned to the caller that frees the context.
Finish ==
  /\ \/ Resize
     \/ /\ pc = "resize" /\ Faults
        /\ Raise("AllocateError")
        /\ UNCHANGED <<held, sourceLength, inPos, destinationVars>>
     \/ Release
  /\ UNCHANGED dctx

Done == pc = "returned" /\ UNCHANGED vars

Program == Start \/ Decompress \/ Finish

Next == Program \/ (Interrupted /\ UNCHANGED dctx) \/ Done

Spec == Init /\ [][Next]_vars

\* The call runs on its thread; nobody owes it an interrupt or a failure.
FairSpec == Spec /\ WF_vars(Program /\ result' \in {result, "ok"})

-----------------------------------------------------------------------------
\* The values of the locals of string.c:176-273; what is left of the string
\* and what was written to it always add up.
TypeOK ==
  /\ StringBufferType
  /\ dctx \in ContextType
  /\ pc = "call" => Len(destinationValue) = destinationLength + remaining

\* decompress_string returns everything that was decoded and not a byte more;
\* source is left over only behind the end of a frame, so the content of at
\* least one whole frame is there unless the source was cut (string.c:189-217).
OkMeansWhole ==
  result = "ok" =>
    /\ Len(destinationValue) = dctx.decoded
    /\ inPos = sourceLength \/ inPos \in FrameEnds
    /\ inPos \in FrameEnds => Len(destinationValue) = Content[inPos]

\* No step but two returns with the context allocated: the interrupt that jumps
\* over the free of string.c:266, and the last resize when it fails
\* (string.c:224).  An error of the codec or of a growing string frees it.
NoLeak ==
  [][pc' = "returned" /\ held' =>
       \/ result' = "Interrupted"
       \/ (pc = "resize" /\ result' = "AllocateError")]_vars

\* The loop (string.c:189-217) cannot go round forever, however often the
\* string has to grow; it needs no failure to end.
Terminates == <>(pc = "returned")

\* What the caller of String.decompress is promised.
Promise == INSTANCE Transfer WITH
  taken     <- dctx.consumed,
  out       <- dctx.out,
  delivered <- SubSeq(destinationValue, 1, destinationLength),
  outcome   <- CASE result = "none" -> "running"
                 [] result = "ok"   -> "ok"
                 [] OTHER           -> "failed"

\* The loop of string.c delivers what the caller is promised.
KeepsPromise == Promise!Spec
=============================================================================
