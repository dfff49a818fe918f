------------------------ MODULE MCNativeDecompressor ------------------------
(***************************************************************************)
(* An archive of two frames, the first of which ends inside a read.        *)
(***************************************************************************)
EXTENDS NativeDecompressor

TwoFrameEnds == {2, 3}
TwoFrameContent == [e \in TwoFrameEnds |-> IF e = 2 THEN 3 ELSE 4]
=============================================================================
