--------------------------- MODULE StringCompress ---------------------------
(***************************************************************************)
(* ZSTDS::String.compress: string.rb pledges the length of the source,     *)
(* zstds_ext_compress_string (string.c) ends a frame with the whole source *)
(* for its input, and grows the destination string until all of the frame  *)
(* is in it.                                                               *)
(***************************************************************************)
EXTENDS StringBuffer, ZstdCompressor

vars == <<stringVars, cctx>>

Init ==
  /\ StringBufferInit
  /\ cctx = NewContext

Start ==
  \/ CreateContext /\ UNCHANGED cctx
  \/ SetOptions /\ Pledge(sourceLength)
  \/ CreateBuffer /\ UNCHANGED cctx

\* Mutant: the loop stops when the source is used up.
CompressUntilTaken ==
  /\ pc = "call"
  /\ \E read \in 0 .. Len(Input), written \in 0 .. remaining :
       /\ \/ EndPartly(Input, remaining, read, written)
          \/ EndWholly(Input, remaining, read, written)
       /\ IF read < Len(Input) THEN CallAgain(read, cctx.out, written)
                               ELSE CallLast(read, cctx.out, written)

\* compress, one turn of its loop.
Compress ==
  /\ pc = "call"
  /\ \/ \E read \in 0 .. Len(Input), written \in 0 .. remaining :
          \/ /\ EndPartly(Input, remaining, read, written)
             /\ CallAgain(read, cctx.out, written)
          \/ /\ EndWholly(Input, remaining, read, written)
             /\ CallLast(read, cctx.out, written)
     \/ /\ EndRefused(Input)
        /\ CodecFails("ValidateError")
        /\ UNCHANGED cctx
     \/ /\ Faults
        /\ CodecFails("AllocateError")
        /\ UNCHANGED cctx

Finish ==
  /\ \/ Resize
     \/ pc = "resize" /\ Faults /\ CodecFails("AllocateError")
     \/ Release
  /\ UNCHANGED cctx

Done == pc = "returned" /\ UNCHANGED vars

Program == Start \/ Compress \/ Finish

Next == Program \/ (Interrupted /\ UNCHANGED cctx) \/ Done

Spec == Init /\ [][Next]_vars

\* The call runs on its thread; nobody owes it an interrupt or a failure.
FairSpec == Spec /\ WF_vars(Program /\ result' \in {result, "ok"})

-----------------------------------------------------------------------------
\* The values of the locals of string.c:58-155; what is left of the string
\* and what was written to it always add up.
TypeOK ==
  /\ StringBufferType
  /\ cctx \in ContextType
  /\ pc = "call" => Len(destinationValue) = destinationLength + remaining

\* compress_string returns one complete frame of the whole source and not a
\* byte more (string.c:101-109).
OkMeansArchived ==
  result = "ok" =>
    /\ cctx.frames = 1
    /\ cctx.consumed = [i \in 1 .. sourceLength |-> i]
    /\ Len(destinationValue) = cctx.made

\* Every way out frees the context, except the interrupt that jumps over
\* the free of string.c:148.
NoLeak ==
  pc = "returned" /\ held => result = "Interrupted"

\* The loop (string.c:71-99) cannot go round forever, however often the
\* string has to grow; it needs no failure to end.
Terminates == <>(pc = "returned")

\* What the caller of String.compress is promised.
Promise == INSTANCE Transfer WITH
  taken     <- cctx.consumed,
  out       <- cctx.out,
  delivered <- SubSeq(destinationValue, 1, destinationLength),
  outcome   <- CASE result = "none" -> "running"
                 [] result = "ok"   -> "ok"
                 [] OTHER           -> "failed"

\* The loop of string.c delivers what the caller is promised.
KeepsPromise == Promise!Spec
=============================================================================
