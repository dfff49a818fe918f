---------------------------- MODULE MCFilesQuiet ----------------------------
(***************************************************************************)
(* One call of File.compress, or one of File.decompress on an archive of   *)
(* one frame, whole or cut short, with nothing that fails around it.  Both *)
(* run on the variables of BufferedIO, so what is claimed of one of them   *)
(* in these variables is claimed of both.                                  *)
(***************************************************************************)
EXTENDS FileCompress

CONSTANTS FrameEnds, Content

VARIABLES
  dctx,       \* the context of a decompression
  direction   \* which of the two the call is

OneFrameEnds == {5}
OneFrameContent == [e \in OneFrameEnds |-> 6]

Decompression == INSTANCE FileDecompress

quietVars == <<vars, dctx, direction>>

QuietInit == Init /\ Decompression!Init /\ direction \in {"compress", "decompress"}

Either(compress, decompress) ==
  \/ direction = "compress" /\ compress /\ UNCHANGED dctx
  \/ direction = "decompress" /\ decompress /\ UNCHANGED <<cctx, pledgedSize>>

QuietNext == Either(Next, Decompression!Next) /\ UNCHANGED direction

QuietProgram == Either(Program, Decompression!Program) /\ UNCHANGED direction

\* The fairness of both.
QuietSpec == QuietInit /\ [][QuietNext]_quietVars /\ WF_quietVars(QuietProgram)
=============================================================================
