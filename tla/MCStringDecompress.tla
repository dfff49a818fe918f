------------------------- MODULE MCStringDecompress -------------------------
(***************************************************************************)
(* An archive of three frames, the second of them empty, with more content *)
(* than two destination buffers.                                           *)
(***************************************************************************)
EXTENDS StringDecompress

ManyFrameEnds == {2, 3, 5}
ManyFrameContent == [e \in ManyFrameEnds |-> IF e = 5 THEN 6 ELSE 3]
=============================================================================
