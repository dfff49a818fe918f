------------------------- MODULE NativeDecompressor -------------------------
(***************************************************************************)
(* Stream::NativeDecompressor (stream/decompressor.c): read, read_result   *)
(* and close in any order a client may call them.  The client offers the   *)
(* archive bytes behind the ones reported as taken.                        *)
(***************************************************************************)
EXTENDS NativeStream, ZstdDecompressor

ASSUME ArchiveAssumption == \E e \in FrameEnds : MaxSourceLength <= e

vars == <<streamVars, dctx>>

Init ==
  /\ NativeStreamInit
  /\ dctx = NewContext

Initialize == Initialized /\ UNCHANGED dctx

EnterRead ==
  /\ \E length \in 0 .. MaxSourceLength - accepted : Enter("read", length)
  /\ UNCHANGED dctx

\* Mutant: unless the buffer is full the codec is told the length in use, not
\* the free one.
DecompressIntoUsed ==
  /\ Entered("read")
  /\ Len(dctx.consumed) + call.offered <= MaxSourceLength
  /\ LET used == IF room = 0 THEN 0 ELSE DestinationBufferLength - room
     IN  \E read \in 0 .. call.offered, written \in 0 .. used :
           /\ DecompressCall(Input, used, read, written)
           /\ Called(read, dctx.out, written, FALSE)

\* The codec call of zstds_ext_decompress.  After a torn call the bytes the
\* client offers again are not an archive; the bound ends that run.
Decompress ==
  /\ Entered("read")
  /\ Len(dctx.consumed) + call.offered <= MaxSourceLength
  /\ \E read \in 0 .. call.offered, written \in 0 .. room :
       /\ DecompressCall(Input, room, read, written)
       /\ Called(read, dctx.out, written, FALSE)

Refused ==
  /\ Faults /\ call.step = "entered"
  /\ \E error \in DecompressErrors : CallFails(error)

\* Mutant: read asks for room when it has left some of its source.
ReturnOnSource == Leave(call.read < call.offered) /\ UNCHANGED dctx

\* read asks for room when the buffer is full.
Return == Leave(room = call.written) /\ UNCHANGED dctx

Next ==
  \/ Initialize \/ EnterRead \/ Decompress \/ Return
  \/ (Refused \/ StreamStep("read")) /\ UNCHANGED dctx

Spec == Init /\ [][Next]_vars

\* What a raw stream does with an archive: it offers all that is left, and
\* reads the result when it is asked to.
ReadRest == EnterRead /\ call' # call /\ call'.offered = MaxSourceLength - accepted
ReadResultAsked == reply.more /\ ReadResult /\ UNCHANGED dctx

\* A method that was entered goes on, and the client does its part between
\* whatever else it calls.
FairSpec ==
  /\ Spec
  /\ WF_vars(Decompress) /\ WF_vars(Return)
  /\ SF_vars(ReadRest) /\ SF_vars(ReadResultAsked)

-----------------------------------------------------------------------------
\* The fields of zstds_ext_decompressor_t and the locals of a method.
TypeOK ==
  /\ NativeStreamType
  /\ dctx \in ContextType

\* Unless a call was torn, the strings of read_result and the bytes that wait
\* in the buffer are the content so far (decompressor.c:129-130, 142-159).
ResultFaithful ==
  ~torn /\ call.step # "called" /\ (Open \/ Fresh) =>
    LET content == IF Open THEN delivered \o Staged ELSE delivered
    IN  content = [i \in 1 .. dctx.out |-> i]

\* A read that asks for no room has left nothing decoded inside the context,
\* and takes less than it was given only because a frame has ended: all of
\* the content of that frame is then with the client (decompressor.c:132-137).
LessMeansDone ==
  reply.op = "read" /\ reply.error = "none" /\ ~reply.more /\ Idle =>
    /\ dctx.out = dctx.decoded
    /\ reply.count < reply.offered =>
         /\ Len(dctx.consumed) \in FrameEnds
         /\ dctx.out = Content[Len(dctx.consumed)]

\* A client that goes on reading gets through the archive and has nothing left
\* inside the context, unless an exception says why not: a frame that ends in
\* the middle of a read, or a buffer that is full, never makes it read for
\* ever (decompressor.c:97-137).
ReadEnds ==
  Open ~> \/ accepted = MaxSourceLength /\ dctx.out = dctx.decoded
          \/ ~Open \/ collected \/ torn \/ reply.error # "none"
=============================================================================
