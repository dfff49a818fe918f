--------------------------- MODULE ZstdCompressor ---------------------------
(***************************************************************************)
(* The contract of a libzstd compression context (ZSTD_CCtx), as the       *)
(* extension uses it through ZSTD_compressStream2.  libzstd is not part of *)
(* the repository, so this module states what the callers may rely on:     *)
(* which source bytes the context has taken, how many bytes of archive it  *)
(* has made, how many of those it has handed out, and when a frame is      *)
(* complete.  The bytes of the archive are numbered 1, 2, 3, ... in the    *)
(* order in which they must reach the destination.                         *)
(***************************************************************************)
EXTENDS Naturals, Sequences

CONSTANTS
  Overhead,  \* ZSTD_compressBound(n) - n: header and epilogue of one frame
  Blocking,  \* nb_workers = 0: a call returns only when its job is done
  NoPledge   \* the size of the source is not known in advance

ASSUME OverheadAssumption == Overhead \in Nat \ {0}
ASSUME BlockingAssumption == Blocking \in BOOLEAN
ASSUME NoPledgeAssumption == NoPledge \notin Nat

VARIABLE cctx

NewContext == [
  started  |-> FALSE,     \* the current frame has seen a call
  consumed |-> <<>>,      \* every source byte taken, in order
  made     |-> 0,         \* bytes of archive made
  out      |-> 0,         \* bytes of archive handed to the caller
  ended    |-> FALSE,     \* the epilogue of the current frame is made
  frames   |-> 0,         \* frames made and handed out completely
  pledged  |-> NoPledge ] \* ZSTD_CCtx_setPledgedSrcSize

ContextType == [
  started  : BOOLEAN,
  consumed : Seq(Nat),
  made     : Nat,
  out      : Nat,
  ended    : BOOLEAN,
  frames   : Nat,
  pledged  : Nat \union {NoPledge} ]

\* The first read bytes of the input join those the context has taken.
Taken(input, read) == cctx.consumed \o SubSeq(input, 1, read)

\* Archive bytes that can exist before the current frame has its epilogue.
Bound(length) == length + Overhead * (cctx.frames + 1) - 1

Pledge(size) == cctx' = [cctx EXCEPT !.pledged = size]

(***************************************************************************)
(* ZSTD_e_continue.  A blocking context takes the whole input unless the   *)
(* output fills first, and keeps no output back unless the output is full. *)
(* A context with workers promises only to read or write something.  There *)
(* is no archive before there is source.                                   *)
(***************************************************************************)
ContinueCall(input, room, read, written) ==
  \E made \in cctx.made .. Bound(Len(cctx.consumed) + read) :
    /\ cctx.out + written <= made
    /\ Len(cctx.consumed) + read = 0 => made = cctx.made
    /\ Blocking =>
         /\ read = 0 => made = cctx.made
         /\ \/ written = room
            \/ read = Len(input) /\ cctx.out + written = made
    /\ ~Blocking => read + written > 0 \/ Len(input) = 0 \/ room = 0
    /\ cctx' = [cctx EXCEPT !.started  = TRUE,
                            !.consumed = Taken(input, read),
                            !.made     = made,
                            !.out      = @ + written]

\* A block that takes the frame past its pledged size may be refused at once, or
\* when a flush makes a block of it.
ContinueRefused(input) ==
  /\ cctx.pledged # NoPledge
  /\ Len(cctx.consumed) + Len(input) > cctx.pledged

\* ZSTD_e_flush, a blocking directive: everything taken becomes archive, and
\* the call returns how much of it is still to be handed out.
FlushCall(room, written) ==
  \E made \in cctx.made .. Bound(Len(cctx.consumed)) :
    /\ cctx.out + written <= made
    /\ Len(cctx.consumed) = 0 => made = cctx.made
    /\ written = room \/ cctx.out + written = made
    /\ cctx' = [cctx EXCEPT !.started = TRUE, !.made = made, !.out = @ + written]

(***************************************************************************)
(* ZSTD_e_end, a blocking directive whatever the number of workers.  It    *)
(* takes the input, makes the epilogue, and returns zero when the last     *)
(* byte of the frame is handed out: the context is then ready for a new    *)
(* frame without a pledged size.  A first call with this directive takes   *)
(* the length of its input for the pledged size.                           *)
(***************************************************************************)
EndRefused(input) ==
  /\ cctx.started
  /\ ~cctx.ended
  /\ cctx.pledged # NoPledge
  /\ Len(cctx.consumed) + Len(input) # cctx.pledged

EndPartly(input, room, read, written) ==
  /\ ~EndRefused(input)
  /\ written = room
  /\ \E ended \in BOOLEAN, made \in cctx.made .. 1 + Bound(Len(cctx.consumed) + read) :
       /\ cctx.ended => ended /\ made = cctx.made
       /\ ended /\ ~cctx.ended => read = Len(input) /\ made > cctx.made
       /\ ~ended => made <= Bound(Len(cctx.consumed) + read)
       /\ IF ended THEN cctx.out + written < made ELSE cctx.out + written <= made
       /\ cctx' = [cctx EXCEPT
            !.started  = TRUE,
            !.consumed = Taken(input, read),
            !.made     = made,
            !.out      = @ + written,
            !.ended    = ended,
            !.pledged  = IF cctx.started \/ @ = NoPledge THEN @ ELSE Len(input)]

EndWholly(input, room, read, written) ==
  /\ ~EndRefused(input)
  /\ read = Len(input)
  /\ cctx.out + written <= 1 + Bound(Len(cctx.consumed) + read)
  /\ IF cctx.ended THEN cctx.out + written = cctx.made
                   ELSE cctx.out + written > cctx.made
  /\ cctx' = [cctx EXCEPT
       !.started  = FALSE,
       !.consumed = Taken(input, read),
       !.made     = cctx.out + written,
       !.out      = @ + written,
       !.ended    = FALSE,
       !.frames   = @ + 1,
       !.pledged  = NoPledge]
=============================================================================
