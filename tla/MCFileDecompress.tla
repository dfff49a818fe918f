-------------------------- MODULE MCFileDecompress --------------------------
(***************************************************************************)
(* An archive for the runs of FileDecompress: three frames of which the    *)
(* second is empty, the ends of which fall at every offset of a source     *)
(* buffer of two or three bytes.                                           *)
(***************************************************************************)
EXTENDS FileDecompress

ManyFrameEnds == {2, 3, 5}
ManyFrameContent == [e \in ManyFrameEnds |-> IF e = 5 THEN 4 ELSE 2]
=============================================================================
