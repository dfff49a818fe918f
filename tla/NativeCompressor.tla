-------------------------- MODULE NativeCompressor --------------------------
(***************************************************************************)
(* Stream::NativeCompressor (stream/compressor.c): write, flush, finish,   *)
(* read_result and close in any order a client may call them.  The client  *)
(* offers the source bytes behind the ones reported as taken, and while    *)
(* finish asks for room it reads the result and calls finish again, as     *)
(* Stream::Raw::Compressor does.                                           *)
(***************************************************************************)
EXTENDS NativeStream, ZstdCompressor

CONSTANT MaxFrames  \* bound on the frames a client finishes

ASSUME MaxFramesAssumption == MaxFrames \in Nat

vars == <<streamVars, cctx>>

Init ==
  /\ NativeStreamInit
  /\ cctx = NewContext

\* A pledged size is one of the options.
Initialize ==
  /\ Initialized
  /\ \E size \in {NoPledge} \union (0 .. MaxSourceLength) : Pledge(size)

\* finish has asked for room and was not called again.
Finishing == cctx.ended

EnterWrite ==
  /\ ~Finishing
  /\ \E length \in 0 .. MaxSourceLength - accepted : Enter("write", length)
  /\ UNCHANGED cctx

EnterFlush ==
  /\ ~Finishing
  /\ Enter("flush", 0)
  /\ UNCHANGED cctx

EnterFinish ==
  /\ cctx.frames < MaxFrames
  /\ Enter("finish", 0)
  /\ UNCHANGED cctx

Refused ==
  \/ Faults /\ call.step = "entered" /\ CallFails("AllocateError")
  \/ Entered("write") /\ ContinueRefused(Input) /\ CallFails("ValidateError")
  \/ Entered("flush") /\ ContinueRefused(<<>>) /\ CallFails("ValidateError")
  \/ Entered("finish") /\ EndRefused(<<>>) /\ CallFails("ValidateError")

\* The codec call of zstds_ext_compress.  After a torn call the client offers
\* bytes again that the context has taken; the bound ends that run.
CompressWrite ==
  /\ Entered("write") /\ ~Finishing
  /\ Len(cctx.consumed) + call.offered <= MaxSourceLength
  /\ \E read \in 0 .. call.offered, written \in 0 .. room :
       /\ ContinueCall(Input, room, read, written)
       /\ Called(read, cctx.out, written, FALSE)

\* Mutant: finish is called with the directive of flush.
CompressFinishOpen ==
  /\ Entered("finish")
  /\ \E written \in 0 .. room :
       /\ FlushCall(room, written)
       /\ Called(0, cctx.out, written, cctx'.out # cctx'.made)

\* The codec call of zstds_ext_flush_compressor.
CompressFlush ==
  /\ Entered("flush") /\ ~Finishing
  /\ \E written \in 0 .. room :
       /\ FlushCall(room, written)
       /\ Called(0, cctx.out, written, cctx'.out # cctx'.made)

\* Mutant: unless the buffer is full the codec is told the length in use, not
\* the free one.
CompressFinishIntoUsed ==
  /\ Entered("finish")
  /\ LET used == IF room = 0 THEN 0 ELSE DestinationBufferLength - room
     IN  \E written \in 0 .. used :
           \/ EndPartly(<<>>, used, 0, written) /\ Called(0, cctx.out, written, TRUE)
           \/ EndWholly(<<>>, used, 0, written) /\ Called(0, cctx.out, written, FALSE)

\* The codec call of zstds_ext_finish_compressor.
CompressFinish ==
  /\ Entered("finish")
  /\ \E written \in 0 .. room :
       \/ /\ EndPartly(<<>>, room, 0, written)
          /\ Called(0, cctx.out, written, TRUE)
       \/ /\ EndWholly(<<>>, room, 0, written)
          /\ Called(0, cctx.out, written, FALSE)

\* Mutant: a method asks for room as long as the buffer holds something.
ReturnEagerly == Leave(room - call.written < DestinationBufferLength) /\ UNCHANGED cctx

\* write asks for room when the buffer is full, flush and finish when the
\* codec has more to hand out.
Return ==
  /\ Leave(IF call.op = "write" THEN room = call.written ELSE call.more)
  /\ UNCHANGED cctx

Next ==
  \/ Initialize
  \/ EnterWrite \/ EnterFlush \/ EnterFinish
  \/ CompressWrite \/ CompressFlush \/ CompressFinish \/ Return
  \/ (Refused \/ StreamStep("write")) /\ UNCHANGED cctx

Spec == Init /\ [][Next]_vars

\* What a raw stream does when finish asks for room.
ReadResultAsked == reply.more /\ ReadResult /\ UNCHANGED cctx
FinishAgain == Finishing /\ EnterFinish

\* A method that was entered goes on; a client that finishes does not leave it
\* at that, and reads the result as often as it is asked to.
FairSpec ==
  /\ Spec
  /\ WF_vars(CompressFinish) /\ WF_vars(Return)
  /\ WF_vars(FinishAgain) /\ SF_vars(ReadResultAsked)

-----------------------------------------------------------------------------
\* The fields of zstds_ext_compressor_t and the locals of a method.
TypeOK ==
  /\ NativeStreamType
  /\ cctx \in ContextType

\* No pointer of the object points to freed memory, and a collected object
\* leaves none behind (compressor.c:12-25, 83-90, 248-271).
MemorySafe ==
  /\ pointers \subseteq live \/ collected
  /\ call # NoCall => live = Memory
  /\ collected => live = {}

\* Unless a call was torn, the context has taken the source in order, each
\* byte once, and the object has reported exactly that (compressor.c:97-139).
SourceFaithful ==
  ~torn =>
    /\ \A i \in DOMAIN cctx.consumed : cctx.consumed[i] = i
    /\ Len(cctx.consumed) = accepted + call.read

\* Unless a call was torn, the strings of read_result and the bytes that wait
\* in the buffer are the archive so far: no sequence of write, flush, finish
\* and read_result loses, repeats or exchanges a byte (compressor.c:227-244).
ResultFaithful ==
  ~torn /\ call.step # "called" /\ (Open \/ Fresh) =>
    LET archive == IF Open THEN delivered \o Staged ELSE delivered
    IN  archive = [i \in 1 .. cctx.out |-> i]

\* A method that asks for room has a full buffer, so that read_result is
\* never empty and the client gets on (compressor.c:136, 180, 222).
MoreMeansFull ==
  reply.more /\ reply.error = "none" => room = 0

\* A write that asks for no room has taken all it was given; a flush or a
\* finish that asks for none has left nothing in the context, and the finish
\* has completed a frame (compressor.c:135-138, 180, 222).
LessMeansDone ==
  reply.error = "none" /\ ~reply.more /\ Idle =>
    /\ reply.op = "write" => reply.count = reply.offered
    /\ reply.op \in {"flush", "finish"} => cctx.out = cctx.made
    /\ reply.op = "finish" => ~cctx.started /\ cctx.frames > 0

\* A finish that has begun to end its frame does end it, however small the
\* buffer is, or an exception says why not: the requests for room and the part
\* of the buffer that is free never lock the client into calling finish and
\* read_result for ever (compressor.c:190-222, 232-240).
FinishEnds ==
  Finishing ~> ~Finishing \/ ~Open \/ collected \/ reply.error # "none"

\* README.md:187 documents a pledged_size of 0 as "0 (auto)": a client that
\* gives it should not be told that its source has the wrong size.
ZeroPledgeIsAuto ==
  cctx.pledged = 0 => reply.error # "ValidateError"
=============================================================================
