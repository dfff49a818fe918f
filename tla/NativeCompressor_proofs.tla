---------------------- MODULE NativeCompressor_proofs ----------------------
(***************************************************************************)
(* Theorems of NativeCompressor for every length of the destination buffer *)
(* and of the source, every number of frames, with and without workers,    *)
(* failures and the global lock: whatever methods a client calls in        *)
(* whatever order, and wherever it is interrupted.                         *)
(***************************************************************************)
EXTENDS NativeCompressor, SequenceTheorems, TLAPS

USE DestinationBufferAssumption, MaxSourceLengthAssumption, SwitchAssumption,
    OverheadAssumption, BlockingAssumption, NoPledgeAssumption, MaxFramesAssumption

\* The pointers of the object and what is allocated for it belong together,
\* and a method that calls the codec runs on an open object.
MemoryInPlace ==
  /\ pointers = {} \/ pointers = Memory
  /\ live = IF collected THEN {} ELSE pointers
  /\ call.step # "idle" => pointers = Memory /\ ~collected
  /\ Fresh => pointers = {}

\* What the locals of a method hold at each of its steps.
CallInPlace ==
  /\ call.step = "idle" => call = NoCall
  /\ call.step # "idle" => call.op \in {"write", "flush", "finish"}
  /\ call.step # "called" => call.read = 0 /\ call.written = 0

\* Nothing has moved before initialize.
FreshInPlace ==
  Fresh => /\ cctx = NewContext /\ call = NoCall
           /\ accepted = 0 /\ delivered = <<>> /\ ~torn

\* What every step keeps of the object and its locals, whatever bytes move.
Shape ==
  /\ TypeOK
  /\ MemoryInPlace
  /\ CallInPlace
  /\ FreshInPlace
  /\ cctx.out <= cctx.made

\* The methods that call the codec.
CodecCalls == {"write", "flush", "finish"}

\* A method calls the codec: what it takes and stores, and what it learns.
CodecRuns(read, written, more) ==
  /\ call.step = "entered" /\ read \in 0 .. call.offered /\ written \in 0 .. room
  /\ Called(read, cctx.out, written, more)
  /\ cctx' \in ContextType
  /\ cctx'.consumed = cctx.consumed \o [i \in 1 .. read |-> accepted + i]
  /\ cctx'.out = cctx.out + written /\ cctx'.out <= cctx'.made
  /\ call.op = "write" /\ Blocking => written = room \/ read = call.offered
  /\ call.op # "write" =>
       /\ read = 0
       /\ more => written = room
       /\ ~more => cctx'.out = cctx'.made
  /\ call.op = "finish" /\ ~more => ~cctx'.started /\ cctx'.frames > 0

\* The first bytes of the input of write follow those reported as taken.
LEMMA InputBegins ==
  ASSUME TypeOK, NEW read \in 0 .. call.offered
  PROVE  /\ Input \in Seq(Nat) /\ Len(Input) = call.offered
         /\ SubSeq(Input, 1, read) = [i \in 1 .. read |-> accepted + i]
         /\ [i \in 1 .. read |-> accepted + i] \in Seq(Nat)
<1>1. accepted \in Nat /\ call.offered \in Nat /\ read \in Nat /\ read <= call.offered
  BY DEF TypeOK, NativeStreamType
<1>2. Input \in Seq(Nat) /\ Len(Input) = call.offered /\ \A i \in 1 .. call.offered : Input[i] = accepted + i
  BY <1>1 DEF Input
<1> DEFINE first == [i \in 1 .. read |-> accepted + i]
           part == SubSeq(Input, 1, read)
<1>3. first \in Seq(Nat) /\ Len(first) = read /\ \A i \in 1 .. read : first[i] = accepted + i
  BY <1>1
<1>4. part \in Seq(Nat) /\ Len(part) = read /\ \A i \in 1 .. read : part[i] = accepted + i
  BY <1>1, <1>2
<1> HIDE DEF first, part
<1>5. part = first
  BY <1>1, <1>3, <1>4, SeqEqual
<1> QED BY <1>2, <1>3, <1>5 DEF first, part

\* The codec call of each of the three methods.
LEMMA CodecStep ==
  ASSUME Shape, CompressWrite \/ CompressFlush \/ CompressFinish
  PROVE  \E read \in Nat, written \in Nat, more \in BOOLEAN : CodecRuns(read, written, more)
<1>1. /\ cctx \in ContextType /\ cctx.out <= cctx.made /\ room \in Nat
      /\ call.offered \in Nat /\ TypeOK
  BY DEF Shape, TypeOK, NativeStreamType
<1>2. /\ cctx.consumed \in Seq(Nat) /\ Len(cctx.consumed) \in Nat
      /\ cctx.out \in Nat /\ cctx.made \in Nat /\ cctx.frames \in Nat
  BY <1>1 DEF ContextType
<1>3. cctx.consumed = cctx.consumed \o [i \in 1 .. 0 |-> accepted + i]
  BY <1>2
<1>4. CASE CompressWrite
  <2>1. PICK read \in 0 .. call.offered, written \in 0 .. room :
          ContinueCall(Input, room, read, written) /\ Called(read, cctx.out, written, FALSE)
    BY <1>4 DEF CompressWrite
  <2>2. read \in Nat /\ written \in Nat /\ call.op = "write" /\ call.step = "entered"
    BY <1>1, <1>4, <2>1 DEF CompressWrite, Entered
  <2>3. /\ Len(Input) = call.offered
        /\ SubSeq(Input, 1, read) = [i \in 1 .. read |-> accepted + i]
        /\ [i \in 1 .. read |-> accepted + i] \in Seq(Nat)
    BY <1>1, <2>1, InputBegins
  <2>4. PICK made \in cctx.made .. Bound(Len(cctx.consumed) + read) :
          /\ cctx.out + written <= made
          /\ Blocking => written = room \/ read = Len(Input)
          /\ cctx' = [cctx EXCEPT !.started  = TRUE,
                                  !.consumed = Taken(Input, read),
                                  !.made     = made,
                                  !.out      = @ + written]
    BY <2>1 DEF ContinueCall
  <2>5. made \in Nat /\ cctx.out + written \in Nat
    BY <1>2, <2>2, <2>4
  <2>6. /\ Taken(Input, read) = cctx.consumed \o [i \in 1 .. read |-> accepted + i]
        /\ Taken(Input, read) \in Seq(Nat)
    <3> DEFINE first == [i \in 1 .. read |-> accepted + i]
    <3>1. first \in Seq(Nat) /\ SubSeq(Input, 1, read) = first
      BY <2>3
    <3> HIDE DEF first
    <3>2. Taken(Input, read) = cctx.consumed \o first
      BY <3>1, Zenon DEF Taken
    <3>3. cctx.consumed \o first \in Seq(Nat)
      BY <1>2, <3>1
    <3> QED BY <3>2, <3>3 DEF first
  <2>7. cctx' \in ContextType /\ cctx'.consumed = Taken(Input, read)
        /\ cctx'.out = cctx.out + written /\ cctx'.made = made
    BY <1>1, <2>4, <2>5, <2>6 DEF ContextType
  <2>8. CodecRuns(read, written, FALSE)
    BY <2>1, <2>2, <2>3, <2>4, <2>6, <2>7 DEF CodecRuns
  <2> QED BY <2>2, <2>8
<1>5. CASE CompressFlush
  <2>1. PICK written \in 0 .. room :
          FlushCall(room, written) /\ Called(0, cctx.out, written, cctx'.out # cctx'.made)
    BY <1>5 DEF CompressFlush
  <2>2. written \in Nat /\ call.op = "flush" /\ call.step = "entered"
    BY <1>1, <1>5, <2>1 DEF CompressFlush, Entered
  <2>3. PICK made \in cctx.made .. Bound(Len(cctx.consumed)) :
          /\ cctx.out + written <= made
          /\ written = room \/ cctx.out + written = made
          /\ cctx' = [cctx EXCEPT !.started = TRUE, !.made = made, !.out = @ + written]
    BY <2>1 DEF FlushCall
  <2>4. made \in Nat /\ cctx.out + written \in Nat
    BY <1>2, <2>2, <2>3
  <2>5. /\ cctx' \in ContextType /\ cctx'.consumed = cctx.consumed
        /\ cctx'.out = cctx.out + written /\ cctx'.made = made
    BY <1>1, <2>3, <2>4 DEF ContextType
  <2> DEFINE more == cctx'.out # cctx'.made
  <2>6. more \in BOOLEAN /\ (more => written = room) /\ (~more => cctx'.out = cctx'.made)
    BY <2>3, <2>5
  <2>7. Called(0, cctx.out, written, more)
    BY <2>1
  <2> HIDE DEF more
  <2>8. CodecRuns(0, written, more)
    BY <1>1, <1>3, <2>2, <2>3, <2>5, <2>6, <2>7 DEF CodecRuns
  <2> QED BY <2>2, <2>6, <2>8
<1>6. CASE CompressFinish
  <2>1. PICK written \in 0 .. room :
          \/ EndPartly(<<>>, room, 0, written) /\ Called(0, cctx.out, written, TRUE)
          \/ EndWholly(<<>>, room, 0, written) /\ Called(0, cctx.out, written, FALSE)
    BY <1>6 DEF CompressFinish
  <2>2. written \in Nat /\ call.op = "finish" /\ call.step = "entered" /\ cctx.out + written \in Nat
    BY <1>1, <1>2, <1>6, <2>1 DEF CompressFinish, Entered
  <2>3. /\ Taken(<<>>, 0) = cctx.consumed /\ Taken(<<>>, 0) \in Seq(Nat)
        /\ Len(<<>>) \in Nat /\ cctx.frames + 1 \in Nat
    BY <1>2 DEF Taken
  <2>4. CASE EndPartly(<<>>, room, 0, written) /\ Called(0, cctx.out, written, TRUE)
    <3>1. PICK ended \in BOOLEAN, made \in cctx.made .. 1 + Bound(Len(cctx.consumed) + 0) :
            /\ IF ended THEN cctx.out + written < made ELSE cctx.out + written <= made
            /\ cctx' = [cctx EXCEPT
                 !.started  = TRUE,
                 !.consumed = Taken(<<>>, 0),
                 !.made     = made,
                 !.out      = @ + written,
                 !.ended    = ended,
                 !.pledged  = IF cctx.started \/ @ = NoPledge THEN @ ELSE Len(<<>>)]
      BY <2>4 DEF EndPartly
    <3>2. made \in Nat /\ cctx.out + written <= made
      BY <1>2, <2>2, <3>1
    <3>3. /\ cctx' \in ContextType /\ cctx'.consumed = cctx.consumed
          /\ cctx'.out = cctx.out + written /\ cctx'.made = made
      <4>1. cctx'.consumed = Taken(<<>>, 0)
        BY <1>1, <3>1 DEF ContextType
      <4>2. cctx'.out = cctx.out + written /\ cctx'.made = made
        BY <1>1, <3>1 DEF ContextType
      <4>3. cctx' \in ContextType
        BY <1>1, <2>2, <2>3, <3>1, <3>2 DEF ContextType
      <4> QED BY <2>3, <4>1, <4>2, <4>3
    <3>4. written = room
      BY <2>4 DEF EndPartly
    <3>5. cctx'.consumed = cctx.consumed \o [i \in 1 .. 0 |-> accepted + i]
      BY <1>3, <3>3
    <3>6. PICK more \in BOOLEAN : more /\ Called(0, cctx.out, written, more)
      BY <2>4, Zenon
    <3>7. /\ call.step = "entered" /\ call.op = "finish"
          /\ 0 \in 0 .. call.offered /\ written \in 0 .. room
          /\ cctx'.out = cctx.out + written /\ cctx'.out <= cctx'.made
      BY <1>1, <2>2, <3>2, <3>3
    <3>8. CodecRuns(0, written, more)
      BY <3>3, <3>4, <3>5, <3>6, <3>7, Zenon DEF CodecRuns
    <3> QED BY <2>2, <3>8
  <2>5. CASE EndWholly(<<>>, room, 0, written) /\ Called(0, cctx.out, written, FALSE)
    <3>1. cctx' = [cctx EXCEPT
            !.started  = FALSE,
            !.consumed = Taken(<<>>, 0),
            !.made     = cctx.out + written,
            !.out      = @ + written,
            !.ended    = FALSE,
            !.frames   = @ + 1,
            !.pledged  = NoPledge]
      BY <2>5 DEF EndWholly
    <3>2. /\ cctx' \in ContextType /\ cctx'.consumed = cctx.consumed
          /\ cctx'.out = cctx.out + written /\ cctx'.made = cctx.out + written
          /\ cctx'.started = FALSE /\ cctx'.frames = cctx.frames + 1
      BY <1>1, <2>2, <2>3, <3>1 DEF ContextType
    <3>3. ~cctx'.started /\ cctx'.frames > 0 /\ cctx'.out <= cctx'.made /\ cctx'.out = cctx'.made
      BY <1>2, <2>2, <3>2
    <3>4. cctx'.consumed = cctx.consumed \o [i \in 1 .. 0 |-> accepted + i]
      BY <1>3, <3>2
    <3>5. PICK more \in BOOLEAN : ~more /\ Called(0, cctx.out, written, more)
      BY <2>5, Zenon
    <3>6. /\ call.step = "entered" /\ call.op = "finish"
          /\ 0 \in 0 .. call.offered /\ written \in 0 .. room
          /\ cctx'.out = cctx.out + written /\ cctx'.out <= cctx'.made
      BY <1>1, <2>2, <3>2, <3>3
    <3>7. CodecRuns(0, written, more)
      BY <3>2, <3>3, <3>4, <3>5, <3>6, Zenon DEF CodecRuns
    <3> QED BY <2>2, <3>7
  <2> QED BY <2>1, <2>4, <2>5
<1> QED BY <1>4, <1>5, <1>6

\* A method enters an object, which it may find closed.
Enters(op, offered) == op \in CodecCalls /\ offered \in Nat /\ Enter(op, offered) /\ UNCHANGED cctx

\* The codec refuses the call of a method.
Aborts ==
  /\ call.step = "entered"
  /\ \E error \in {"AllocateError", "ValidateError"} : CallFails(error)
  /\ UNCHANGED cctx

\* What a step can be.
LEMMA StepKinds ==
  ASSUME Shape, [Next]_vars
  PROVE  \/ Initialize
         \/ \E op \in CodecCalls, offered \in Nat : Enters(op, offered)
         \/ \E read \in Nat, written \in Nat, more \in BOOLEAN : CodecRuns(read, written, more)
         \/ Return
         \/ Aborts
         \/ StreamStep("write") /\ UNCHANGED cctx
         \/ UNCHANGED vars
<1>1. CASE EnterWrite
  <2>1. PICK length \in 0 .. MaxSourceLength - accepted : Enter("write", length)
    BY <1>1 DEF EnterWrite
  <2>2. length \in Nat
    BY <2>1 DEF Shape, TypeOK, NativeStreamType
  <2>3. Enters("write", length)
    BY <1>1, <2>1, <2>2 DEF EnterWrite, Enters, CodecCalls
  <2> QED BY <2>2, <2>3 DEF CodecCalls
<1>2. CASE EnterFlush
  <2>1. Enters("flush", 0)
    BY <1>2 DEF EnterFlush, Enters, CodecCalls
  <2> QED BY <2>1 DEF CodecCalls
<1>3. CASE EnterFinish
  <2>1. Enters("finish", 0)
    BY <1>3 DEF EnterFinish, Enters, CodecCalls
  <2> QED BY <2>1 DEF CodecCalls
<1>4. CASE CompressWrite \/ CompressFlush \/ CompressFinish
  BY <1>4, CodecStep
<1>5. CASE Refused /\ UNCHANGED cctx
  <2>1. Aborts
    BY <1>5 DEF Refused, Entered, Aborts
  <2> QED BY <2>1
<1> QED BY <1>1, <1>2, <1>3, <1>4, <1>5 DEF Next

\* A new object has its shape.
LEMMA InitShape == Init => Shape
<1> SUFFICES ASSUME Init PROVE Shape
  OBVIOUS
<1>1. TypeOK
  <2>1. cctx \in ContextType
    BY DEF Init, NewContext, ContextType
  <2>2. ~Open
    BY DEF Init, NativeStreamInit, Open, Memory
  <2>3. reply \in [op : Operations, error : StreamErrors, offered : Nat, count : Nat, more : BOOLEAN]
    BY DEF Init, NativeStreamInit, NoReply, Operations, StreamErrors, OptionErrors
  <2>4. /\ call \in [op : Operations, step : {"idle", "entered", "called"}, offered : Nat,
                     read : Nat, written : Nat, more : BOOLEAN]
        /\ call.step # "called"
    BY DEF Init, NativeStreamInit, NoCall, Operations
  <2>5. buffer \in [0 .. DestinationBufferLength - 1 -> Nat] /\ delivered \in Seq(Nat)
    BY DEF Init, NativeStreamInit
  <2> QED BY <2>1, <2>2, <2>3, <2>4, <2>5
          DEF Init, NativeStreamInit, TypeOK, NativeStreamType, Memory
<1>2. MemoryInPlace /\ CallInPlace /\ FreshInPlace
  BY DEF Init, NativeStreamInit, NoCall, MemoryInPlace, CallInPlace, FreshInPlace
<1>3. cctx.out <= cctx.made
  BY DEF Init, NewContext
<1> QED BY <1>1, <1>2, <1>3 DEF Shape

\* The returns of methods are not the reply of a new object.
LEMMA RepliesAreNotFresh ==
  /\ \A op, error : Raised(op, error).op = op /\ Raised(op, error).error = error
  /\ \A op \in Operations, error \in StreamErrors :
       Raised(op, error) \in [op : Operations, error : StreamErrors, offered : Nat,
                              count : Nat, more : BOOLEAN]
  /\ NoReply.op = "none" /\ NoReply.error = "none" /\ NoReply.more = FALSE
  /\ \A op, error : Raised(op, error).more = FALSE
BY DEF Raised, NoReply

\* initialize gives the object its memory and an empty buffer.
LEMMA ShapeInitialize ==
  ASSUME Shape, Initialize
  PROVE  Shape'
<1>1. /\ TypeOK /\ cctx.out <= cctx.made /\ call.step = "idle" /\ call = NoCall
      /\ ~collected /\ live = pointers /\ Fresh /\ pointers = {}
  BY DEF Shape, Initialize, Initialized, Idle, NoCall, MemoryInPlace
<1>2. /\ pointers' = Memory /\ live' = Memory /\ start' = 0 /\ room' = DestinationBufferLength
      /\ reply' = [NoReply EXCEPT !.op = "initialize"]
      /\ UNCHANGED <<collected, buffer, call, accepted, delivered, torn>>
  BY <1>1 DEF Initialize, Initialized, clientVars
<1>3. cctx' \in ContextType /\ cctx'.out = cctx.out /\ cctx'.made = cctx.made
  BY <1>1 DEF Initialize, Pledge, TypeOK, ContextType
<1>4. /\ reply' \in [op : Operations, error : StreamErrors, offered : Nat, count : Nat, more : BOOLEAN]
      /\ reply' # NoReply
  BY <1>2 DEF NoReply, Operations, StreamErrors, OptionErrors
<1>5. TypeOK'
  BY <1>1, <1>2, <1>3, <1>4 DEF TypeOK, NativeStreamType, NoCall, Open
<1>6. MemoryInPlace' /\ CallInPlace' /\ FreshInPlace'
  BY <1>1, <1>2, <1>4 DEF MemoryInPlace, CallInPlace, FreshInPlace, Fresh, NoCall
<1> QED BY <1>1, <1>3, <1>5, <1>6 DEF Shape

\* A method enters an open object, or raises at once.
LEMMA ShapeEnter ==
  ASSUME Shape, NEW op \in CodecCalls, NEW offered \in Nat, Enters(op, offered)
  PROVE  Shape'
<1>1. /\ TypeOK /\ MemoryInPlace /\ CallInPlace /\ cctx.out <= cctx.made
      /\ call = NoCall /\ ~collected /\ reply # NoReply
      /\ UNCHANGED <<pointers, live, collected, buffer, start, room, accepted, delivered, torn, cctx>>
  BY DEF Shape, Enters, Enter, Idle, Fresh, objectVars, clientVars
<1>2. CASE Open
  <2>1. call' = [NoCall EXCEPT !.op = op, !.step = "entered", !.offered = offered] /\ reply' = reply
    BY <1>2 DEF Enters, Enter
  <2>2. /\ call' \in [op : Operations, step : {"idle", "entered", "called"}, offered : Nat,
                      read : Nat, written : Nat, more : BOOLEAN]
        /\ call'.step = "entered" /\ call'.op = op /\ call'.read = 0 /\ call'.written = 0
    BY <2>1 DEF NoCall, Operations, CodecCalls
  <2>3. pointers = Memory
    BY <1>1, <1>2 DEF MemoryInPlace, Open, Memory
  <2>4. TypeOK'
    BY <1>1, <2>1, <2>2 DEF TypeOK, NativeStreamType, Open
  <2>5. MemoryInPlace' /\ CallInPlace' /\ FreshInPlace'
    BY <1>1, <2>1, <2>2, <2>3 DEF MemoryInPlace, CallInPlace, FreshInPlace, Fresh, CodecCalls
  <2> QED BY <1>1, <2>4, <2>5 DEF Shape
<1>3. CASE ~Open
  <2>1. reply' = Raised(op, "UsedAfterCloseError") /\ call' = call
    BY <1>3 DEF Enters, Enter
  <2>2. op \in Operations /\ op # "none" /\ "UsedAfterCloseError" \in StreamErrors
    BY DEF CodecCalls, Operations, StreamErrors
  <2>3. /\ reply' \in [op : Operations, error : StreamErrors, offered : Nat, count : Nat, more : BOOLEAN]
        /\ reply' # NoReply
    BY <2>1, <2>2, RepliesAreNotFresh
  <2>4. TypeOK'
    BY <1>1, <2>1, <2>3 DEF TypeOK, NativeStreamType, Open
  <2>5. MemoryInPlace' /\ CallInPlace' /\ FreshInPlace'
    BY <1>1, <2>1, <2>3 DEF MemoryInPlace, CallInPlace, FreshInPlace, Fresh
  <2> QED BY <1>1, <2>4, <2>5 DEF Shape
<1> QED BY <1>2, <1>3

\* The codec stores no more than there is room for.
LEMMA ShapeCodec ==
  ASSUME Shape, NEW read \in Nat, NEW written \in Nat, NEW more \in BOOLEAN,
         CodecRuns(read, written, more)
  PROVE  Shape'
<1>1. /\ TypeOK /\ MemoryInPlace /\ CallInPlace /\ FreshInPlace /\ call.step = "entered"
      /\ read \in 0 .. call.offered /\ written \in 0 .. room
      /\ cctx' \in ContextType /\ cctx'.out <= cctx'.made
  BY DEF Shape, CodecRuns
<1>2. /\ call' = [call EXCEPT !.step = "called", !.read = read, !.written = written, !.more = more]
      /\ buffer' = [i \in 0 .. DestinationBufferLength - 1 |->
                      IF i >= start /\ i < start + written THEN cctx.out + i - start + 1 ELSE buffer[i]]
      /\ UNCHANGED <<pointers, live, collected, start, room, reply, accepted, delivered, torn>>
  BY DEF CodecRuns, Called, clientVars
<1>3. /\ call' \in [op : Operations, step : {"idle", "entered", "called"}, offered : Nat,
                    read : Nat, written : Nat, more : BOOLEAN]
      /\ call'.step = "called" /\ call'.op = call.op /\ call'.offered = call.offered
      /\ call'.read = read /\ call'.written = written
  BY <1>1, <1>2 DEF TypeOK, NativeStreamType
<1>4. buffer' \in [0 .. DestinationBufferLength - 1 -> Nat]
  <2>1. start \in Nat /\ cctx.out \in Nat /\ buffer \in [0 .. DestinationBufferLength - 1 -> Nat]
    BY <1>1 DEF TypeOK, NativeStreamType, ContextType
  <2>2. ASSUME NEW i \in 0 .. DestinationBufferLength - 1
        PROVE  (IF i >= start /\ i < start + written THEN cctx.out + i - start + 1 ELSE buffer[i]) \in Nat
    BY <2>1
  <2> QED BY <1>2, <2>2
<1>5. ~Fresh
  BY <1>1 DEF FreshInPlace, NoCall
<1>6. TypeOK'
  <2>1. call'.read <= call'.offered /\ call'.written <= room'
    <3>1. call.offered \in Nat /\ room \in Nat
      BY <1>1 DEF TypeOK, NativeStreamType
    <3> QED BY <1>1, <1>2, <1>3, <3>1
  <2> QED BY <1>1, <1>2, <1>3, <1>4, <2>1 DEF TypeOK, NativeStreamType, Open
<1>7. MemoryInPlace' /\ CallInPlace' /\ FreshInPlace'
  BY <1>1, <1>2, <1>3, <1>5 DEF MemoryInPlace, CallInPlace, FreshInPlace, Fresh
<1> QED BY <1>1, <1>6, <1>7 DEF Shape

\* A method returns with the object told what the codec did.
LEMMA ShapeReturn ==
  ASSUME Shape, Return
  PROVE  Shape'
<1> DEFINE more == IF call.op = "write" THEN room = call.written ELSE call.more
<1>1. /\ TypeOK /\ MemoryInPlace /\ CallInPlace /\ cctx.out <= cctx.made
      /\ call.step = "called" /\ Leave(more)
  BY DEF Shape, Return, Leave
<1>2. more \in BOOLEAN
  BY <1>1 DEF TypeOK, NativeStreamType
<1> HIDE DEF more
<1>3. /\ start' = start + call.written /\ room' = room - call.written /\ accepted' = accepted + call.read
      /\ reply' = [op |-> call.op, error |-> "none", offered |-> call.offered,
                   count |-> call.read, more |-> more]
      /\ call' = NoCall
      /\ UNCHANGED <<pointers, live, collected, buffer, delivered, torn, cctx>>
  BY <1>1 DEF Leave, Return
<1>4. /\ call.op \in {"write", "flush", "finish"} /\ call.offered \in Nat
      /\ call.read \in Nat /\ call.written \in Nat /\ call.written <= room
      /\ start \in Nat /\ room \in Nat /\ accepted \in Nat
  BY <1>1 DEF TypeOK, NativeStreamType, CallInPlace
<1>5. /\ reply' \in [op : Operations, error : StreamErrors, offered : Nat, count : Nat, more : BOOLEAN]
      /\ reply' # NoReply
  BY <1>2, <1>3, <1>4 DEF Operations, StreamErrors, OptionErrors, NoReply
<1>6. /\ start' \in Nat /\ room' \in Nat /\ accepted' \in Nat
      /\ Open => start' + room' = DestinationBufferLength
  <2>1. Open => start + room = DestinationBufferLength
    BY <1>1 DEF TypeOK, NativeStreamType
  <2>2. start' = start + call.written /\ room' = room - call.written /\ accepted' = accepted + call.read
    BY <1>3
  <2>3. /\ call.read \in Nat /\ call.written \in Nat /\ call.written <= room
        /\ start \in Nat /\ room \in Nat /\ accepted \in Nat
    BY <1>4
  <2>4. start' \in Nat
    BY <2>2, <2>3
  <2>5. room' \in Nat
    BY <2>2, <2>3
  <2>6. accepted' \in Nat
    BY <2>2, <2>3
  <2>7. Open => start' + room' = DestinationBufferLength
    BY <2>1, <2>2, <2>3
  <2> QED BY <2>4, <2>5, <2>6, <2>7
<1>7. call' \in [op : Operations, step : {"idle", "entered", "called"}, offered : Nat,
                 read : Nat, written : Nat, more : BOOLEAN]
      /\ call'.step = "idle" /\ call'.read = 0 /\ call'.written = 0
  BY <1>3 DEF NoCall, Operations
<1>8. TypeOK'
  BY <1>1, <1>3, <1>5, <1>6, <1>7 DEF TypeOK, NativeStreamType, Open
<1>9. MemoryInPlace' /\ CallInPlace' /\ FreshInPlace'
  BY <1>1, <1>3, <1>5, <1>7 DEF MemoryInPlace, CallInPlace, FreshInPlace, Fresh
<1> QED BY <1>1, <1>3, <1>8, <1>9 DEF Shape

\* A method that leaves without telling the object changes nothing of it.
LEMMA ShapeLeft ==
  ASSUME Shape, call.step # "idle", NEW error \in StreamErrors,
         reply' = Raised(call.op, error), call' = NoCall, torn' \in BOOLEAN,
         UNCHANGED <<objectVars, clientVars, cctx>>
  PROVE  Shape'
<1>1. /\ TypeOK /\ MemoryInPlace /\ CallInPlace /\ cctx.out <= cctx.made
      /\ call.op \in Operations /\ call.op # "none"
      /\ UNCHANGED <<pointers, live, collected, buffer, start, room, accepted, delivered, cctx>>
  BY DEF Shape, CallInPlace, Operations, objectVars, clientVars
<1>2. /\ reply' \in [op : Operations, error : StreamErrors, offered : Nat, count : Nat, more : BOOLEAN]
      /\ reply' # NoReply
  BY <1>1, RepliesAreNotFresh
<1>3. call' \in [op : Operations, step : {"idle", "entered", "called"}, offered : Nat,
                 read : Nat, written : Nat, more : BOOLEAN]
      /\ call'.step = "idle" /\ call'.read = 0 /\ call'.written = 0
  BY DEF NoCall, Operations
<1>4. TypeOK'
  BY <1>1, <1>2, <1>3 DEF TypeOK, NativeStreamType, Open
<1>5. MemoryInPlace' /\ CallInPlace' /\ FreshInPlace'
  BY <1>1, <1>2, <1>3 DEF MemoryInPlace, CallInPlace, FreshInPlace, Fresh
<1> QED BY <1>1, <1>4, <1>5 DEF Shape

\* What waits in the buffer is as long as the part that is not free.
LEMMA StagedBytes ==
  ASSUME TypeOK, Open
  PROVE  /\ Staged \in Seq(Nat) /\ Len(Staged) = start
         /\ start \in Nat /\ \A i \in 1 .. start : Staged[i] = buffer[i - 1]
<1>1. /\ start \in Nat /\ room \in Nat /\ start + room = DestinationBufferLength
      /\ buffer \in [0 .. DestinationBufferLength - 1 -> Nat]
  BY DEF TypeOK, NativeStreamType
<1>2. Staged = [i \in 1 .. start |-> buffer[i - 1]]
  <2>1. DestinationBufferLength - room = start
    BY <1>1
  <2> QED BY <2>1, Zenon DEF Staged
<1>3. \A i \in 1 .. start : buffer[i - 1] \in Nat
  BY <1>1
<1> QED BY <1>1, <1>2, <1>3

\* The steps that do not look at the context.
LEMMA ShapeStream ==
  ASSUME Shape, StreamStep("write"), UNCHANGED cctx
  PROVE  Shape'
<1>1. TypeOK /\ MemoryInPlace /\ CallInPlace /\ FreshInPlace /\ cctx.out <= cctx.made
  BY DEF Shape
<1>2. CASE Interrupted
  <2>1. /\ call.step # "idle" /\ "Interrupted" \in StreamErrors
        /\ reply' = Raised(call.op, "Interrupted") /\ call' = NoCall
        /\ torn' = (torn \/ call.step = "called")
        /\ UNCHANGED <<objectVars, clientVars>>
    BY <1>2 DEF Interrupted, StreamErrors
  <2>2. torn' \in BOOLEAN
    BY <1>1, <2>1 DEF TypeOK, NativeStreamType
  <2> QED BY <2>1, <2>2, ShapeLeft
<1>3. CASE InitializeFails \/ SourceRefused("write") \/ UsedAfterClose
  <2>1. /\ call' = call /\ call = NoCall
        /\ UNCHANGED <<pointers, live, collected, buffer, start, room, accepted, delivered, torn>>
    BY <1>3 DEF InitializeFails, SourceRefused, UsedAfterClose, Idle, objectVars, clientVars
  <2>2. \E op \in {"initialize", "write", "read_result", "close"}, error \in StreamErrors : reply' = Raised(op, error)
    BY <1>3 DEF InitializeFails, SourceRefused, UsedAfterClose, StreamErrors, OptionErrors
  <2>3. /\ reply' \in [op : Operations, error : StreamErrors, offered : Nat, count : Nat, more : BOOLEAN]
        /\ reply' # NoReply
    BY <2>2, RepliesAreNotFresh DEF Operations
  <2>4. TypeOK'
    BY <1>1, <2>1, <2>3 DEF TypeOK, NativeStreamType, Open
  <2>5. MemoryInPlace' /\ CallInPlace' /\ FreshInPlace'
    BY <1>1, <2>1, <2>3 DEF MemoryInPlace, CallInPlace, FreshInPlace, Fresh
  <2> QED BY <1>1, <2>4, <2>5 DEF Shape
<1>4. CASE ReadResult
  <2>1. /\ call' = call /\ call = NoCall /\ Open
        /\ delivered' = delivered \o Staged /\ start' = 0 /\ room' = DestinationBufferLength
        /\ reply' = [NoReply EXCEPT !.op = "read_result", !.count = Len(Staged)]
        /\ UNCHANGED <<pointers, live, collected, buffer, accepted, torn>>
    BY <1>4 DEF ReadResult, Idle
  <2>2. Staged \in Seq(Nat) /\ Len(Staged) \in Nat
    BY <1>1, <2>1, StagedBytes
  <2>3. /\ reply' \in [op : Operations, error : StreamErrors, offered : Nat, count : Nat, more : BOOLEAN]
        /\ reply' # NoReply
    BY <2>1, <2>2 DEF NoReply, Operations, StreamErrors, OptionErrors
  <2>4. delivered' \in Seq(Nat)
    BY <1>1, <2>1, <2>2 DEF TypeOK, NativeStreamType
  <2>5. TypeOK'
    <3>1. start' \in Nat /\ room' \in Nat /\ start' + room' = DestinationBufferLength
      BY <2>1
    <3>2. call'.step # "called"
      BY <2>1 DEF NoCall
    <3>3. /\ pointers' \subseteq Memory /\ live' \subseteq Memory /\ collected' \in BOOLEAN
          /\ buffer' \in [0 .. DestinationBufferLength - 1 -> Nat] /\ accepted' \in Nat
          /\ torn' \in BOOLEAN /\ cctx' \in ContextType
          /\ call' \in [op : Operations, step : {"idle", "entered", "called"}, offered : Nat,
                         read : Nat, written : Nat, more : BOOLEAN]
      BY <1>1, <2>1 DEF TypeOK, NativeStreamType
    <3> QED BY <2>3, <2>4, <3>1, <3>2, <3>3 DEF TypeOK, NativeStreamType
  <2>6. MemoryInPlace' /\ CallInPlace' /\ FreshInPlace'
    BY <1>1, <2>1, <2>3 DEF MemoryInPlace, CallInPlace, FreshInPlace, Fresh
  <2> QED BY <1>1, <2>5, <2>6 DEF Shape
<1>5. CASE Close
  <2>1. /\ call' = call /\ call = NoCall /\ Open /\ ~collected
        /\ live' = live \ pointers /\ pointers' = {}
        /\ reply' = [NoReply EXCEPT !.op = "close"]
        /\ UNCHANGED <<collected, buffer, start, room, accepted, delivered, torn>>
    BY <1>5 DEF Close, Idle, clientVars
  <2>2. /\ reply' \in [op : Operations, error : StreamErrors, offered : Nat, count : Nat, more : BOOLEAN]
        /\ reply' # NoReply
    BY <2>1 DEF NoReply, Operations, StreamErrors, OptionErrors
  <2>3. live' = {}
    BY <1>1, <2>1 DEF MemoryInPlace
  <2>4. TypeOK'
    BY <1>1, <2>1, <2>2, <2>3 DEF TypeOK, NativeStreamType, Open, Memory
  <2>5. MemoryInPlace' /\ CallInPlace' /\ FreshInPlace'
    BY <1>1, <2>1, <2>2, <2>3 DEF MemoryInPlace, CallInPlace, FreshInPlace, Fresh, NoCall
  <2> QED BY <1>1, <2>4, <2>5 DEF Shape
<1>6. CASE Collect
  <2>1. /\ call' = call /\ call = NoCall /\ ~collected /\ collected' = TRUE
        /\ live' = live \ pointers
        /\ UNCHANGED <<pointers, buffer, start, room, reply, accepted, delivered, torn>>
    BY <1>6 DEF Collect, Idle, clientVars
  <2>2. live' = {}
    BY <1>1, <2>1 DEF MemoryInPlace
  <2>3. TypeOK'
    BY <1>1, <2>1, <2>2 DEF TypeOK, NativeStreamType, Open
  <2>4. MemoryInPlace' /\ CallInPlace' /\ FreshInPlace'
    BY <1>1, <2>1, <2>2 DEF MemoryInPlace, CallInPlace, FreshInPlace, Fresh, NoCall
  <2> QED BY <1>1, <2>3, <2>4 DEF Shape
<1> QED BY <1>2, <1>3, <1>4, <1>5, <1>6 DEF StreamStep

\* Every step keeps the shape.
LEMMA ShapeStep ==
  ASSUME Shape, [Next]_vars
  PROVE  Shape'
<1>1. CASE Aborts
  <2>1. PICK error \in {"AllocateError", "ValidateError"} :
          /\ reply' = Raised(call.op, error) /\ call' = NoCall /\ torn' = TRUE
          /\ UNCHANGED <<objectVars, clientVars, cctx>>
    BY <1>1 DEF Aborts, CallFails
  <2> QED BY <1>1, <2>1, ShapeLeft DEF Aborts, StreamErrors, OptionErrors
<1>2. CASE UNCHANGED vars
  BY <1>2 DEF vars, streamVars, objectVars, clientVars, Shape, TypeOK, NativeStreamType,
              MemoryInPlace, CallInPlace, FreshInPlace, Fresh, Open
<1> QED BY <1>1, <1>2, StepKinds, ShapeInitialize, ShapeEnter, ShapeCodec, ShapeReturn, ShapeStream

\* The shape holds in every reachable state.
LEMMA ShapeHolds == Spec => []Shape
<1>1. Shape /\ [Next]_vars => Shape'
  BY ShapeStep
<1> QED BY <1>1, InitShape, PTL DEF Spec

\* Every field of zstds_ext_compressor_t and every local of its methods keeps
\* its type; the free part of the buffer always ends with the buffer
\* (compressor.c:46-271).
THEOREM TypeCorrect == Spec => []TypeOK
<1>1. Shape => TypeOK
  BY DEF Shape
<1> QED BY <1>1, ShapeHolds, PTL

\* No order of calls, interrupts and failures makes a method use freed memory,
\* frees memory twice or leaves some behind when the object is collected
\* (compressor.c:12-25, 83-90, 248-271).
THEOREM NoDanglingPointer == Spec => []MemorySafe
<1>1. Shape => MemorySafe
  BY DEF Shape, MemoryInPlace, MemorySafe, NoCall, CallInPlace
<1> QED BY <1>1, ShapeHolds, PTL

-----------------------------------------------------------------------------
\* What follows the first bytes of a sequence in order continues them.
LEMMA Continued ==
  ASSUME NEW a \in Seq(Nat), \A i \in 1 .. Len(a) : a[i] = i,
         NEW b \in Seq(Nat), \A i \in 1 .. Len(b) : b[i] = Len(a) + i
  PROVE  /\ a \o b \in Seq(Nat) /\ Len(a \o b) = Len(a) + Len(b)
         /\ \A i \in 1 .. Len(a) + Len(b) : (a \o b)[i] = i
         /\ a \o b = [i \in 1 .. Len(a) + Len(b) |-> i]
<1> DEFINE whole == a \o b
           length == Len(a) + Len(b)
           numbers == [i \in 1 .. length |-> i]
<1>1. Len(a) \in Nat /\ Len(b) \in Nat /\ length \in Nat
  OBVIOUS
<1>2. /\ whole \in Seq(Nat) /\ Len(whole) = length
      /\ \A i \in 1 .. length : whole[i] = IF i <= Len(a) THEN a[i] ELSE b[i - Len(a)]
  BY ConcatProperties
<1>3. ASSUME NEW i \in 1 .. length PROVE whole[i] = i
  <2> HIDE DEF whole
  <2>1. CASE i <= Len(a)
    <3>1. i \in 1 .. Len(a) /\ whole[i] = a[i]
      BY <1>1, <1>2, <2>1
    <3> QED BY <3>1
  <2>2. CASE i > Len(a)
    <3> DEFINE k == i - Len(a)
    <3>1. k \in 1 .. Len(b) /\ Len(a) + k = i
      BY <1>1, <2>2
    <3>2. whole[i] = b[k]
      BY <1>1, <1>2, <2>2
    <3> HIDE DEF k
    <3> QED BY <3>1, <3>2
  <2> QED BY <1>1, <2>1, <2>2
<1>4. numbers \in Seq(Nat) /\ Len(numbers) = length /\ \A i \in 1 .. length : numbers[i] = i
  <2> HIDE DEF length
  <2> QED BY <1>1
<1> HIDE DEF whole, numbers, length
<1>5. whole = numbers
  BY <1>2, <1>3, <1>4, SeqEqual
<1> QED BY <1>2, <1>3, <1>5 DEF whole, numbers, length

\* A method that enters, or raises at once, has moved nothing yet.
LEMMA EntersClean ==
  ASSUME NEW op \in CodecCalls, NEW offered \in Nat, Enters(op, offered)
  PROVE  /\ call.read = 0 /\ call.written = 0 /\ call'.read = 0 /\ call'.written = 0
         /\ \/ call'.step = "entered" /\ reply' = reply
            \/ call' = NoCall /\ reply' = Raised(op, "UsedAfterCloseError")
         /\ UNCHANGED <<objectVars, clientVars, torn, cctx>>
<1>1. call = NoCall /\ reply # NoReply /\ UNCHANGED <<objectVars, clientVars, torn, cctx>>
  BY DEF Enters, Enter, Idle, Fresh
<1>2. NoCall.read = 0 /\ NoCall.written = 0
  BY DEF NoCall
<1>3. CASE Open
  <2>1. call' = [NoCall EXCEPT !.op = op, !.step = "entered", !.offered = offered] /\ reply' = reply
    BY <1>3 DEF Enters, Enter
  <2>2. call'.step = "entered" /\ call'.read = 0 /\ call'.written = 0
    BY <2>1 DEF NoCall
  <2> QED BY <1>1, <1>2, <2>1, <2>2
<1>4. CASE ~Open
  <2>1. call' = call /\ reply' = Raised(op, "UsedAfterCloseError")
    BY <1>4 DEF Enters, Enter
  <2> QED BY <1>1, <1>2, <2>1
<1> QED BY <1>3, <1>4

\* A step that is none of the methods moves no source.
LEMMA QuietSource ==
  ASSUME Shape, SourceFaithful, StreamStep("write"), UNCHANGED cctx
  PROVE  SourceFaithful'
<1>1. CallInPlace
  BY DEF Shape
<1>2. CASE Interrupted
  <2>1. /\ call' = NoCall /\ torn' = (torn \/ call.step = "called") /\ accepted' = accepted
    BY <1>2 DEF Interrupted, clientVars
  <2>2. call'.read = 0
    BY <2>1 DEF NoCall
  <2>3. ~torn' => ~torn /\ call.read = 0
    BY <1>1, <2>1 DEF CallInPlace
  <2> QED BY <2>1, <2>2, <2>3 DEF SourceFaithful
<1>3. CASE ~Interrupted
  <2>1. UNCHANGED <<call, accepted, torn>>
    BY <1>3 DEF StreamStep, InitializeFails, SourceRefused, ReadResult, Close, UsedAfterClose, Collect, clientVars
  <2> QED BY <2>1 DEF SourceFaithful
<1> QED BY <1>2, <1>3

\* The context takes the next bytes of the source.
LEMMA CodecSource ==
  ASSUME Shape, SourceFaithful, NEW read \in Nat, NEW written \in Nat, NEW more \in BOOLEAN,
         CodecRuns(read, written, more)
  PROVE  SourceFaithful'
<1>1. /\ accepted \in Nat /\ cctx.consumed \in Seq(Nat) /\ call.read = 0
  BY DEF Shape, TypeOK, NativeStreamType, ContextType, CallInPlace, CodecRuns
<1>2. /\ torn' = torn /\ accepted' = accepted /\ call'.read = read
      /\ cctx'.consumed = cctx.consumed \o [i \in 1 .. read |-> accepted + i]
  BY DEF Shape, TypeOK, NativeStreamType, CodecRuns, Called, clientVars
<1> SUFFICES ASSUME ~torn
             PROVE  /\ \A i \in DOMAIN cctx'.consumed : cctx'.consumed[i] = i
                    /\ Len(cctx'.consumed) = accepted + read
  BY <1>2 DEF SourceFaithful
<1> DEFINE first == [i \in 1 .. read |-> accepted + i]
           whole == cctx.consumed \o first
<1>3. first \in Seq(Nat) /\ Len(first) = read /\ \A i \in 1 .. read : first[i] = accepted + i
  BY <1>1
<1>4. Len(cctx.consumed) = accepted /\ \A i \in 1 .. accepted : cctx.consumed[i] = i
  BY <1>1 DEF SourceFaithful
<1> HIDE DEF first
<1>5. /\ whole \in Seq(Nat) /\ Len(whole) = accepted + read
      /\ \A i \in 1 .. accepted + read : whole[i] = i
  BY <1>1, <1>3, <1>4, Continued
<1>6. cctx'.consumed = whole
  BY <1>2 DEF first
<1>7. DOMAIN whole = 1 .. accepted + read
  BY <1>5
<1> HIDE DEF whole
<1> QED BY <1>5, <1>6, <1>7

\* Unless a call was torn, the context has taken the source in order, each
\* byte once, and write has reported exactly that (compressor.c:97-139).
THEOREM SourceInOrder == Spec => []SourceFaithful
<1>1. Init => SourceFaithful
  BY DEF Init, NativeStreamInit, NewContext, NoCall, SourceFaithful
<1>2. Shape /\ SourceFaithful /\ [Next]_vars => SourceFaithful'
  <2> SUFFICES ASSUME Shape, SourceFaithful, [Next]_vars PROVE SourceFaithful'
    OBVIOUS
  <2>1. CASE Initialize
    <3>1. /\ UNCHANGED <<call, accepted, torn>> /\ cctx'.consumed = cctx.consumed
      BY <2>1 DEF Initialize, Initialized, Pledge, clientVars, Shape, TypeOK, ContextType
    <3> QED BY <3>1 DEF SourceFaithful
  <2>2. ASSUME NEW op \in CodecCalls, NEW offered \in Nat, Enters(op, offered)
        PROVE  SourceFaithful'
    <3>1. UNCHANGED <<accepted, torn, cctx>> /\ call.read = 0 /\ call'.read = 0
      BY <2>2, EntersClean DEF clientVars
    <3> QED BY <3>1 DEF SourceFaithful
  <2>3. CASE Return
    <3>1. /\ accepted' = accepted + call.read /\ call' = NoCall
          /\ UNCHANGED <<torn, cctx>>
      BY <2>3 DEF Return, Leave
    <3>2. accepted \in Nat /\ call.read \in Nat /\ call'.read = 0
      BY <3>1 DEF Shape, TypeOK, NativeStreamType, NoCall
    <3> QED BY <3>1, <3>2 DEF SourceFaithful
  <2>4. CASE Aborts
    BY <2>4 DEF Aborts, CallFails, SourceFaithful
  <2>5. CASE UNCHANGED vars
    BY <2>5 DEF vars, streamVars, clientVars, SourceFaithful
  <2> QED BY <2>1, <2>2, <2>3, <2>4, <2>5, StepKinds, CodecSource, QuietSource
<1> QED BY <1>1, <1>2, ShapeHolds, PTL DEF Spec

-----------------------------------------------------------------------------
\* Unless a call was torn, what read_result returned, what waits in the buffer
\* and what the running method has stored behind it continue each other.
Window ==
  ~torn /\ Open =>
    /\ Len(delivered) + start + call.written = cctx.out
    /\ \A i \in 1 .. Len(delivered) : delivered[i] = i
    /\ \A i \in 0 .. start + call.written - 1 : buffer[i] = Len(delivered) + i + 1

\* The codec stores the next bytes of the archive behind those that wait.
LEMMA CodecWindow ==
  ASSUME Shape, Window, NEW read \in Nat, NEW written \in Nat, NEW more \in BOOLEAN,
         CodecRuns(read, written, more)
  PROVE  Window'
<1>1. /\ start \in Nat /\ room \in Nat /\ Len(delivered) \in Nat /\ cctx.out \in Nat
      /\ written <= room /\ call.written = 0
  BY DEF Shape, TypeOK, NativeStreamType, ContextType, CallInPlace, CodecRuns
<1>2. /\ UNCHANGED <<pointers, start, room, delivered, torn>> /\ call'.written = written
      /\ cctx'.out = cctx.out + written
      /\ buffer' = [i \in 0 .. DestinationBufferLength - 1 |->
                      IF i >= start /\ i < start + written THEN cctx.out + i - start + 1 ELSE buffer[i]]
  BY DEF Shape, TypeOK, NativeStreamType, CodecRuns, Called, clientVars
<1> SUFFICES ASSUME ~torn, Open
             PROVE  /\ Len(delivered) + start + written = cctx'.out
                    /\ \A i \in 1 .. Len(delivered) : delivered[i] = i
                    /\ \A i \in 0 .. start + written - 1 : buffer'[i] = Len(delivered) + i + 1
  BY <1>2 DEF Window, Open
<1>3. /\ Len(delivered) + start = cctx.out
      /\ \A i \in 1 .. Len(delivered) : delivered[i] = i
      /\ \A i \in 0 .. start - 1 : buffer[i] = Len(delivered) + i + 1
  BY <1>1 DEF Window
<1>4. start + room = DestinationBufferLength
  BY DEF Shape, TypeOK, NativeStreamType
<1>5. ASSUME NEW i \in 0 .. start + written - 1
      PROVE  buffer'[i] = Len(delivered) + i + 1
  <2>1. i \in 0 .. DestinationBufferLength - 1
    BY <1>1, <1>4
  <2>2. CASE i >= start
    <3>1. buffer'[i] = cctx.out + i - start + 1
      BY <1>1, <1>2, <2>1, <2>2
    <3> QED BY <1>1, <1>3, <3>1
  <2>3. CASE i < start
    <3>1. buffer'[i] = buffer[i]
      BY <1>1, <1>2, <2>1, <2>3
    <3> QED BY <1>1, <1>3, <2>3, <3>1
  <2> QED BY <1>1, <2>2, <2>3
<1> QED BY <1>1, <1>2, <1>3, <1>5

\* What read_result returned and what waits is the archive so far.
LEMMA ArchiveSoFar ==
  ASSUME Shape, Window, ~torn, Open, call.written = 0
  PROVE  /\ delivered \o Staged \in Seq(Nat) /\ Len(delivered \o Staged) = cctx.out
         /\ \A i \in 1 .. cctx.out : (delivered \o Staged)[i] = i
         /\ delivered \o Staged = [i \in 1 .. cctx.out |-> i]
<1>1. /\ Staged \in Seq(Nat) /\ Len(Staged) = start /\ start \in Nat
      /\ \A i \in 1 .. start : Staged[i] = buffer[i - 1]
  BY StagedBytes DEF Shape
<1>2. delivered \in Seq(Nat) /\ Len(delivered) \in Nat
  BY DEF Shape, TypeOK, NativeStreamType
<1>3. /\ Len(delivered) + start = cctx.out
      /\ \A i \in 1 .. Len(delivered) : delivered[i] = i
      /\ \A i \in 0 .. start - 1 : buffer[i] = Len(delivered) + i + 1
  BY <1>1, <1>2 DEF Window
<1>4. ASSUME NEW i \in 1 .. start PROVE Staged[i] = Len(delivered) + i
  <2>1. i - 1 \in 0 .. start - 1
    BY <1>1
  <2>2. buffer[i - 1] = Len(delivered) + (i - 1) + 1
    BY <1>3, <2>1
  <2> QED BY <1>1, <1>2, <2>2
<1>5. /\ delivered \o Staged \in Seq(Nat) /\ Len(delivered \o Staged) = Len(delivered) + Len(Staged)
      /\ \A i \in 1 .. Len(delivered) + Len(Staged) : (delivered \o Staged)[i] = i
      /\ delivered \o Staged = [i \in 1 .. Len(delivered) + Len(Staged) |-> i]
  BY <1>1, <1>2, <1>3, <1>4, Continued
<1>6. Len(delivered) + Len(Staged) = cctx.out
  BY <1>1, <1>3
<1> QED BY <1>5, <1>6, Zenon

\* read_result hands out what waits, in order, and nothing is left.
LEMMA ReadWindow ==
  ASSUME Shape, Window, ReadResult, UNCHANGED cctx
  PROVE  Window'
<1>1. /\ Open /\ call.written = 0 /\ call' = call /\ torn' = torn /\ start' = 0
      /\ delivered' = delivered \o Staged
  BY DEF ReadResult, Idle, NoCall
<1>2. cctx.out \in Nat
  BY DEF Shape, TypeOK, ContextType
<1>3. ~torn => Len(delivered') = cctx.out /\ \A i \in 1 .. cctx.out : delivered'[i] = i
  BY <1>1, ArchiveSoFar
<1>4. ~torn' => Len(delivered') = cctx'.out /\ \A i \in 1 .. Len(delivered') : delivered'[i] = i
  BY <1>1, <1>3
<1>5. Len(delivered') = cctx'.out => Len(delivered') + start' + call'.written = cctx'.out
  BY <1>1, <1>2
<1>6. start' + call'.written - 1 = 0 - 1
  BY <1>1
<1> QED BY <1>4, <1>5, <1>6 DEF Window

\* Unless a call was torn, the strings of read_result and the bytes that wait
\* are the archive so far: no order of write, flush, finish and read_result
\* loses, repeats or exchanges a byte (compressor.c:227-244).
THEOREM ResultInOrder == Spec => []ResultFaithful
<1>1. Init => Window
  BY DEF Init, NativeStreamInit, Open, Memory, Window
<1>2. Shape /\ Window /\ [Next]_vars => Window'
  <2> SUFFICES ASSUME Shape, Window, [Next]_vars PROVE Window'
    OBVIOUS
  <2>1. CASE Initialize
    <3>1. /\ start' = 0 /\ call' = NoCall /\ delivered' = <<>> /\ cctx'.out = 0
      BY <2>1 DEF Initialize, Initialized, Idle, clientVars, Pledge, NewContext, Shape, FreshInPlace
    <3>2. Len(delivered') = 0 /\ call'.written = 0
      BY <3>1 DEF NoCall
    <3> QED BY <3>1, <3>2 DEF Window
  <2>2. ASSUME NEW op \in CodecCalls, NEW offered \in Nat, Enters(op, offered)
        PROVE  Window'
    <3>1. /\ UNCHANGED <<pointers, start, buffer, delivered, torn, cctx>>
          /\ call.written = 0 /\ call'.written = 0
      BY <2>2, EntersClean DEF objectVars, clientVars
    <3> QED BY <3>1 DEF Window, Open
  <2>3. CASE Return
    <3>1. /\ start' = start + call.written /\ call'.written = 0
          /\ UNCHANGED <<pointers, buffer, delivered, torn, cctx>>
      BY <2>3 DEF Return, Leave, NoCall
    <3>2. start \in Nat /\ call.written \in Nat
      BY DEF Shape, TypeOK, NativeStreamType
    <3>3. start' + call'.written = start + call.written
      BY <3>1, <3>2
    <3>4. Len(delivered) \in Nat
      BY DEF Shape, TypeOK, NativeStreamType
    <3>5. Len(delivered') + start' + call'.written = Len(delivered) + start + call.written
      BY <3>1, <3>2, <3>4
    <3> SUFFICES ASSUME ~torn, Open
                 PROVE  /\ Len(delivered') + start' + call'.written = cctx'.out
                        /\ \A i \in 1 .. Len(delivered') : delivered'[i] = i
                        /\ \A i \in 0 .. start' + call'.written - 1 : buffer'[i] = Len(delivered') + i + 1
      BY <3>1 DEF Window, Open
    <3>6. /\ Len(delivered) + start + call.written = cctx.out
          /\ \A i \in 1 .. Len(delivered) : delivered[i] = i
          /\ \A i \in 0 .. start + call.written - 1 : buffer[i] = Len(delivered) + i + 1
      BY DEF Window
    <3>7. cctx' = cctx /\ buffer' = buffer /\ delivered' = delivered
      BY <3>1
    <3>8. \A i \in 0 .. start' + call'.written - 1 : buffer'[i] = Len(delivered') + i + 1
      <4>1. 0 .. start' + call'.written - 1 = 0 .. start + call.written - 1
        <5>1. start' = start + call.written /\ call'.written = 0
          BY <3>1
        <5> QED BY <3>2, <5>1
      <4> QED BY <3>6, <3>7, <4>1, Zenon
    <3>9. Len(delivered') + start' + call'.written = cctx'.out
      BY <3>5, <3>6, <3>7
    <3> QED BY <3>6, <3>7, <3>8, <3>9
  <2>4. CASE Aborts
    BY <2>4 DEF Aborts, CallFails, Window
  <2>5. CASE ReadResult /\ UNCHANGED cctx
    BY <2>5, ReadWindow
  <2>6. CASE Interrupted /\ UNCHANGED cctx
    <3>1. /\ call' = NoCall /\ torn' = (torn \/ call.step = "called")
          /\ UNCHANGED <<pointers, start, buffer, delivered, cctx>>
      BY <2>6 DEF Interrupted, objectVars, clientVars
    <3>2. call'.written = 0 /\ (~torn' => ~torn /\ call.written = 0)
      BY <3>1 DEF NoCall, Shape, CallInPlace
    <3> QED BY <3>1, <3>2 DEF Window, Open
  <2>7. CASE Close
    BY <2>7 DEF Close, Window, Open, Memory
  <2>8. CASE (InitializeFails \/ SourceRefused("write") \/ UsedAfterClose \/ Collect) /\ UNCHANGED cctx
    BY <2>8 DEF InitializeFails, SourceRefused, UsedAfterClose, Collect, objectVars, clientVars, Window, Open
  <2>9. CASE UNCHANGED vars
    BY <2>9 DEF vars, streamVars, objectVars, clientVars, Window, Open
  <2> QED BY <2>1, <2>2, <2>3, <2>4, <2>5, <2>6, <2>7, <2>8, <2>9, StepKinds, CodecWindow DEF StreamStep
<1>3. Shape /\ Window => ResultFaithful
  <2> SUFFICES ASSUME Shape, Window, ~torn, call.step # "called", Open \/ Fresh
               PROVE  (IF Open THEN delivered \o Staged ELSE delivered) = [i \in 1 .. cctx.out |-> i]
    BY DEF ResultFaithful
  <2>1. CASE Open
    <3>1. call.written = 0
      BY DEF Shape, CallInPlace
    <3> QED BY <2>1, <3>1, ArchiveSoFar
  <2>2. CASE ~Open
    <3>1. delivered = <<>> /\ cctx.out = 0
      BY <2>2 DEF Shape, FreshInPlace, NewContext
    <3>2. [i \in 1 .. 0 |-> i] = <<>>
      OBVIOUS
    <3> QED BY <2>2, <3>1, <3>2
  <2> QED BY <2>1, <2>2
<1> QED BY <1>1, <1>2, <1>3, ShapeHolds, PTL DEF Spec

-----------------------------------------------------------------------------
\* What a method that has called the codec knows of it when it returns.
Learned ==
  call.step = "called" =>
    /\ call.op = "write" /\ Blocking => call.written = room \/ call.read = call.offered
    /\ call.op # "write" =>
         /\ call.more => call.written = room
         /\ ~call.more => cctx.out = cctx.made
    /\ call.op = "finish" /\ ~call.more => ~cctx.started /\ cctx.frames > 0

\* The codec tells the method whether there is more.
LEMMA CodecLearned ==
  ASSUME Shape, NEW read \in Nat, NEW written \in Nat, NEW more \in BOOLEAN,
         CodecRuns(read, written, more)
  PROVE  Learned'
<1>1. /\ call'.op = call.op /\ call'.offered = call.offered /\ call'.read = read
      /\ call'.written = written /\ call'.more = more /\ room' = room
  BY DEF Shape, TypeOK, NativeStreamType, CodecRuns, Called
<1> QED BY <1>1 DEF Learned, CodecRuns

\* What the method learned stays true until it returns.
LEMMA LearnedStep ==
  ASSUME Shape, Learned, [Next]_vars
  PROVE  Learned'
<1>1. CASE Initialize
  <2>1. call'.step = "idle"
    BY <1>1 DEF Initialize, Initialized, Idle, NoCall
  <2> QED BY <2>1 DEF Learned
<1>2. ASSUME NEW op \in CodecCalls, NEW offered \in Nat, Enters(op, offered)
      PROVE  Learned'
  <2>1. call'.step # "called"
    BY <1>2, EntersClean DEF NoCall
  <2> QED BY <2>1 DEF Learned
<1>3. CASE Return \/ Aborts
  <2>1. call' = NoCall
    BY <1>3 DEF Return, Leave, Aborts, CallFails
  <2> QED BY <2>1 DEF Learned, NoCall
<1>4. CASE StreamStep("write") /\ UNCHANGED cctx
  <2>1. call' = NoCall
    BY <1>4 DEF StreamStep, InitializeFails, SourceRefused, Interrupted, ReadResult, Close, UsedAfterClose, Collect, Idle
  <2> QED BY <2>1 DEF Learned, NoCall
<1>5. CASE UNCHANGED vars
  BY <1>5 DEF vars, streamVars, objectVars, Learned
<1> QED BY <1>1, <1>2, <1>3, <1>4, <1>5, StepKinds, CodecLearned

\* What the method learned holds in every reachable state.
LEMMA LearnedHolds == Spec => []Learned
<1>1. Init => Learned
  BY DEF Init, NativeStreamInit, NoCall, Learned
<1>2. Shape /\ Learned /\ [Next]_vars => Learned'
  BY LearnedStep
<1> QED BY <1>1, <1>2, ShapeHolds, PTL DEF Spec

\* What a method replies when it returns.
LEMMA ReturnReplies ==
  ASSUME Shape, Learned, Return
  PROVE  /\ reply'.op = call.op /\ reply'.error = "none"
         /\ reply'.offered = call.offered /\ reply'.count = call.read
         /\ reply'.more = IF call.op = "write" THEN room = call.written ELSE call.more
         /\ reply'.more => room' = 0
         /\ call.step = "called" /\ cctx' = cctx
<1> DEFINE more == IF call.op = "write" THEN room = call.written ELSE call.more
<1>1. call.step = "called" /\ Leave(more) /\ cctx' = cctx
  BY DEF Return, Leave
<1>2. /\ more \in BOOLEAN /\ room \in Nat
      /\ more => call.written = room
  BY <1>1 DEF Shape, TypeOK, NativeStreamType, Learned
<1>3. /\ reply' = [op |-> call.op, error |-> "none", offered |-> call.offered,
                   count |-> call.read, more |-> more]
      /\ room' = room - call.written
  BY <1>1 DEF Leave
<1>4. more => room' = 0
  BY <1>2, <1>3
<1> HIDE DEF more
<1>5. /\ reply'.op = call.op /\ reply'.error = "none" /\ reply'.offered = call.offered
      /\ reply'.count = call.read /\ reply'.more = more
  BY <1>3
<1> QED BY <1>1, <1>4, <1>5 DEF more

\* A method asks for room only when the buffer is full, so that a read_result
\* is never empty and the client gets on (compressor.c:136, 180, 222).
THEOREM RequestsJustified == Spec => []MoreMeansFull
<1>1. Init => MoreMeansFull
  BY DEF Init, NativeStreamInit, NoReply, MoreMeansFull
<1>2. Shape /\ Learned /\ MoreMeansFull /\ [Next]_vars => MoreMeansFull'
  <2> SUFFICES ASSUME Shape, Learned, MoreMeansFull, [Next]_vars PROVE MoreMeansFull'
    OBVIOUS
  <2>1. CASE Initialize
    <3>1. reply' = [NoReply EXCEPT !.op = "initialize"]
      BY <2>1 DEF Initialize, Initialized
    <3>2. ~reply'.more
      BY <3>1 DEF NoReply
    <3> QED BY <3>2 DEF MoreMeansFull
  <2>2. ASSUME NEW op \in CodecCalls, NEW offered \in Nat, Enters(op, offered)
        PROVE  MoreMeansFull'
    <3>1. room' = room /\ (reply' = reply \/ reply' = Raised(op, "UsedAfterCloseError"))
      BY <2>2, EntersClean DEF objectVars
    <3> QED BY <3>1, RepliesAreNotFresh DEF MoreMeansFull
  <2>3. ASSUME NEW read \in Nat, NEW written \in Nat, NEW more \in BOOLEAN, CodecRuns(read, written, more)
        PROVE  MoreMeansFull'
    BY <2>3 DEF CodecRuns, Called, MoreMeansFull
  <2>4. CASE Return
    BY <2>4, ReturnReplies DEF MoreMeansFull
  <2>5. CASE Aborts
    BY <2>5, RepliesAreNotFresh DEF Aborts, CallFails, MoreMeansFull
  <2>6. CASE Interrupted \/ InitializeFails \/ SourceRefused("write") \/ UsedAfterClose
    BY <2>6, RepliesAreNotFresh DEF Interrupted, InitializeFails, SourceRefused, UsedAfterClose, MoreMeansFull
  <2>7. CASE ReadResult \/ Close
    <3>1. ~reply'.more
      BY <2>7 DEF ReadResult, Close, NoReply
    <3> QED BY <3>1 DEF MoreMeansFull
  <2>8. CASE Collect \/ UNCHANGED vars
    BY <2>8 DEF Collect, vars, streamVars, objectVars, MoreMeansFull
  <2> QED BY <2>1, <2>2, <2>3, <2>4, <2>5, <2>6, <2>7, <2>8, StepKinds DEF StreamStep
<1> QED BY <1>1, <1>2, ShapeHolds, LearnedHolds, PTL DEF Spec

\* Without workers, a write that asks for no room has taken all it was given;
\* a flush or a finish that asks for none has left nothing in the context, and
\* the finish has completed a frame (compressor.c:135-138, 180, 222).
THEOREM RepliesComplete == Blocking => (Spec => []LessMeansDone)
<1> SUFFICES ASSUME Blocking PROVE Spec => []LessMeansDone
  OBVIOUS
<1>1. Init => LessMeansDone
  BY DEF Init, NativeStreamInit, NoReply, LessMeansDone
<1>2. Shape /\ Learned /\ LessMeansDone /\ [Next]_vars => LessMeansDone'
  <2> SUFFICES ASSUME Shape, Learned, LessMeansDone, [Next]_vars PROVE LessMeansDone'
    OBVIOUS
  <2>1. CASE Initialize
    <3>1. reply' = [NoReply EXCEPT !.op = "initialize"]
      BY <2>1 DEF Initialize, Initialized
    <3>2. reply'.op = "initialize"
      BY <3>1 DEF NoReply
    <3> QED BY <3>2 DEF LessMeansDone
  <2>2. ASSUME NEW op \in CodecCalls, NEW offered \in Nat, Enters(op, offered)
        PROVE  LessMeansDone'
    <3>1. call' # NoCall \/ reply' = Raised(op, "UsedAfterCloseError")
      BY <2>2, EntersClean DEF NoCall
    <3> QED BY <3>1, RepliesAreNotFresh DEF LessMeansDone, Idle
  <2>3. ASSUME NEW read \in Nat, NEW written \in Nat, NEW more \in BOOLEAN, CodecRuns(read, written, more)
        PROVE  LessMeansDone'
    <3>1. call'.step = "called"
      BY <2>3 DEF CodecRuns, Called, Shape, TypeOK, NativeStreamType
    <3>2. call' # NoCall
      BY <3>1 DEF NoCall
    <3> QED BY <3>2 DEF LessMeansDone, Idle
  <2>4. CASE Return
    <3>1. /\ call.step = "called" /\ cctx' = cctx
          /\ reply'.op = call.op /\ reply'.offered = call.offered /\ reply'.count = call.read
          /\ reply'.more = IF call.op = "write" THEN room = call.written ELSE call.more
      BY <2>4, ReturnReplies
    <3>2. ~reply'.more /\ reply'.op = "write" => reply'.count = reply'.offered
      BY <3>1 DEF Learned
    <3>3. ~reply'.more /\ reply'.op \in {"flush", "finish"} => cctx'.out = cctx'.made
      BY <3>1 DEF Learned
    <3>4. ~reply'.more /\ reply'.op = "finish" => ~cctx'.started /\ cctx'.frames > 0
      BY <3>1 DEF Learned
    <3> QED BY <3>2, <3>3, <3>4 DEF LessMeansDone
  <2>5. CASE Aborts
    <3>1. reply'.error # "none"
      BY <2>5, RepliesAreNotFresh DEF Aborts, CallFails
    <3> QED BY <3>1 DEF LessMeansDone
  <2>6. CASE Interrupted \/ InitializeFails \/ SourceRefused("write") \/ UsedAfterClose
    <3>1. reply'.error # "none"
      BY <2>6, RepliesAreNotFresh DEF OptionErrors, Interrupted, InitializeFails, SourceRefused, UsedAfterClose
    <3> QED BY <3>1 DEF LessMeansDone
  <2>7. CASE ReadResult \/ Close
    <3>1. reply'.op \in {"read_result", "close"}
      BY <2>7 DEF ReadResult, Close, NoReply
    <3> QED BY <3>1 DEF LessMeansDone
  <2>8. CASE Collect
    BY <2>8 DEF Collect, LessMeansDone, Idle
  <2>9. CASE UNCHANGED vars
    BY <2>9 DEF vars, streamVars, objectVars, LessMeansDone, Idle
  <2> QED BY <2>1, <2>2, <2>3, <2>4, <2>5, <2>6, <2>7, <2>8, <2>9, StepKinds DEF StreamStep
<1> QED BY <1>1, <1>2, ShapeHolds, LearnedHolds, PTL DEF Spec
=============================================================================
