-------------------------- MODULE ZstdDecompressor --------------------------
(***************************************************************************)
(* The contract of a libzstd decompression context (ZSTD_DCtx), as the     *)
(* extension uses it through ZSTD_decompressStream.  An archive is one or  *)
(* more frames, one after another; the content of the archive is numbered  *)
(* 1, 2, 3, ... in the order in which it must reach the destination.       *)
(***************************************************************************)
EXTENDS Naturals, Sequences

CONSTANTS
  FrameEnds,  \* the positions in the archive at which a frame ends
  Content     \* Content[e] = bytes of content in the frames that end by e

ASSUME FrameEndsAssumption == 
  FrameEnds # {} /\ FrameEnds \subseteq Nat \ {0}
ASSUME ContentAssumption ==
  /\ Content \in [FrameEnds -> Nat]
  /\ \A e, f \in FrameEnds : e <= f => Content[e] <= Content[f]

VARIABLE dctx

NewContext == [
  consumed |-> <<>>,  \* every archive byte taken, in order
  decoded  |-> 0,     \* bytes of content decoded
  out      |-> 0 ]    \* bytes of content handed to the caller

ContextType == [consumed : Seq(Nat), decoded : Nat, out : Nat]

\* The exceptions that come of what a call may return: no memory, a window or a
\* parameter it refuses, an archive or a dictionary that is not right.
DecompressErrors ==
  {"AllocateError", "ValidateError", "DecompressorCorruptedSourceError", "CorruptedDictionaryError"}

(***************************************************************************)
(* A call stops at the end of a frame, with the rest of the input left     *)
(* alone, or when the input is used up and everything decoded is handed    *)
(* out, or when the output is full.  The last byte of a frame is taken     *)
(* only when all of its content is handed out.                             *)
(***************************************************************************)
DecompressCall(input, room, read, written) ==
  LET position == Len(dctx.consumed) + read
  IN  /\ \A e \in FrameEnds : e > Len(dctx.consumed) => position <= e
      /\ \E decoded \in UNION {dctx.decoded .. Content[e] : e \in FrameEnds} :
           /\ \A e \in FrameEnds : position <= e => decoded <= Content[e]
           /\ position = 0 => decoded = 0
           /\ position \in FrameEnds =>
                decoded = Content[position] /\ dctx.out + written = decoded
           /\ dctx.out + written <= decoded
           /\ \/ written = room
              \/ /\ dctx.out + written = decoded
                 /\ read = Len(input) \/ (read > 0 /\ position \in FrameEnds)
           /\ dctx' = [dctx EXCEPT
                !.consumed = @ \o SubSeq(input, 1, read),
                !.decoded  = decoded,
                !.out      = @ + written]
=============================================================================
