--------------------- MODULE NativeDecompressor_proofs ---------------------
(***************************************************************************)
(* Theorems of NativeDecompressor for every length of the destination      *)
(* buffer and of the archive, every split of it into frames, with and      *)
(* without failures and the global lock: whatever methods a client calls   *)
(* in whatever order, and wherever it is interrupted.                      *)
(***************************************************************************)
EXTENDS NativeDecompressor, SequenceTheorems, TLAPS

USE DestinationBufferAssumption, MaxSourceLengthAssumption, SwitchAssumption,
    FrameEndsAssumption, ContentAssumption

\* The pointers of the object and what is allocated for it belong together,
\* and a method that calls the codec runs on an open object.
MemoryInPlace ==
  /\ pointers = {} \/ pointers = Memory
  /\ live = IF collected THEN {} ELSE pointers
  /\ call.step # "idle" => pointers = Memory /\ ~collected
  /\ Fresh => pointers = {}

\* What the locals of a method hold at each of its steps.
CallInPlace ==
  /\ call.step = "idle" => call = NoCall
  /\ call.step # "idle" => call.op = "read"
  /\ call.step # "called" => call.read = 0 /\ call.written = 0

\* Nothing has moved before initialize.
FreshInPlace ==
  Fresh => /\ dctx = NewContext /\ call = NoCall
           /\ accepted = 0 /\ delivered = <<>> /\ ~torn

\* What every step keeps of the object and its locals, whatever bytes move.
Shape ==
  /\ TypeOK
  /\ MemoryInPlace
  /\ CallInPlace
  /\ FreshInPlace
  /\ dctx.out <= dctx.decoded

\* All of the frame that ends at the place in the archive has been handed out.
AtFrameEnd ==
  /\ Len(dctx.consumed) \in FrameEnds
  /\ dctx.out = Content[Len(dctx.consumed)]

\* read calls the codec: what it takes and stores, and where it stops.
CodecRuns(read, written) ==
  /\ call.step = "entered" /\ read \in 0 .. call.offered /\ written \in 0 .. room
  /\ Called(read, dctx.out, written, FALSE)
  /\ dctx' \in ContextType
  /\ dctx'.consumed = dctx.consumed \o [i \in 1 .. read |-> accepted + i]
  /\ dctx'.out = dctx.out + written /\ dctx'.out <= dctx'.decoded
  /\ written # room =>
       /\ dctx'.out = dctx'.decoded
       /\ read < call.offered => AtFrameEnd'

\* The first bytes of the input of read follow those reported as taken.
LEMMA InputBegins ==
  ASSUME TypeOK, NEW read \in 0 .. call.offered
  PROVE  /\ Input \in Seq(Nat) /\ Len(Input) = call.offered
         /\ SubSeq(Input, 1, read) = [i \in 1 .. read |-> accepted + i]
         /\ [i \in 1 .. read |-> accepted + i] \in Seq(Nat)
<1>1. accepted \in Nat /\ call.offered \in Nat /\ read \in Nat /\ read <= call.offered
  BY DEF TypeOK, NativeStreamType
<1>2. Input \in Seq(Nat) /\ Len(Input) = call.offered /\ \A i \in 1 .. call.offered : Input[i] = accepted + i
  BY <1>1 DEF Input
<1> DEFINE first == [i \in 1 .. read |-> accepted + i]
           part == SubSeq(Input, 1, read)
<1>3. first \in Seq(Nat) /\ Len(first) = read /\ \A i \in 1 .. read : first[i] = accepted + i
  BY <1>1
<1>4. part \in Seq(Nat) /\ Len(part) = read /\ \A i \in 1 .. read : part[i] = accepted + i
  BY <1>1, <1>2
<1> HIDE DEF first, part
<1>5. part = first
  BY <1>1, <1>3, <1>4, SeqEqual
<1> QED BY <1>2, <1>3, <1>5 DEF first, part

\* The codec call of read.
LEMMA CodecStep ==
  ASSUME Shape, Decompress
  PROVE  \E read \in Nat, written \in Nat : CodecRuns(read, written)
<1>1. /\ dctx \in ContextType /\ dctx.out <= dctx.decoded /\ room \in Nat
      /\ call.offered \in Nat /\ TypeOK
  BY DEF Shape, TypeOK, NativeStreamType
<1>2. /\ dctx.consumed \in Seq(Nat) /\ Len(dctx.consumed) \in Nat
      /\ dctx.out \in Nat /\ dctx.decoded \in Nat
  BY <1>1 DEF ContextType
<1>3. PICK read \in 0 .. call.offered, written \in 0 .. room :
        DecompressCall(Input, room, read, written) /\ Called(read, dctx.out, written, FALSE)
  BY DEF Decompress
<1>4. read \in Nat /\ written \in Nat /\ call.step = "entered"
  BY <1>1, <1>3 DEF Decompress, Entered
<1> DEFINE first == [i \in 1 .. read |-> accepted + i]
           position == Len(dctx.consumed) + read
<1>5. Len(Input) = call.offered /\ SubSeq(Input, 1, read) = first /\ first \in Seq(Nat)
  BY <1>1, <1>3, InputBegins
<1>6. PICK decoded \in UNION {dctx.decoded .. Content[e] : e \in FrameEnds} :
        /\ position \in FrameEnds => decoded = Content[position]
        /\ dctx.out + written <= decoded
        /\ \/ written = room
           \/ /\ dctx.out + written = decoded
              /\ read = Len(Input) \/ (read > 0 /\ position \in FrameEnds)
        /\ dctx' = [dctx EXCEPT !.consumed = @ \o SubSeq(Input, 1, read),
                                !.decoded  = decoded,
                                !.out      = @ + written]
  BY <1>3 DEF DecompressCall
<1>7. decoded \in Nat
  BY <1>2, <1>6
<1>8. Len(first) = read
  BY <1>4
<1> HIDE DEF first
<1>9. /\ dctx.consumed \o first \in Seq(Nat) /\ Len(dctx.consumed \o first) = position
      /\ dctx.out + written \in Nat
  <2> DEFINE before == dctx.consumed
  <2>1. before \in Seq(Nat) /\ first \in Seq(Nat) /\ Len(first) = read
    BY <1>2, <1>5, <1>8
  <2> HIDE DEF before
  <2>2. before \o first \in Seq(Nat) /\ Len(before \o first) = Len(before) + read
    BY <2>1, ConcatProperties
  <2>3. dctx.out + written \in Nat
    BY <1>2, <1>4
  <2> QED BY <2>2, <2>3 DEF before
<1>10. dctx' = [dctx EXCEPT !.consumed = dctx.consumed \o first, !.decoded = decoded,
                            !.out = dctx.out + written]
  BY <1>5, <1>6
<1>11. /\ dctx'.consumed = dctx.consumed \o first /\ dctx'.decoded = decoded
       /\ dctx'.out = dctx.out + written
  BY <1>1, <1>10 DEF ContextType
<1>12. dctx' \in ContextType
  BY <1>1, <1>7, <1>9, <1>10 DEF ContextType
<1>13. ASSUME written # room
       PROVE  dctx'.out = dctx'.decoded /\ (read < call.offered => AtFrameEnd')
  <2>1. dctx.out + written = decoded /\ (read = Len(Input) \/ (read > 0 /\ position \in FrameEnds))
    BY <1>6, <1>13
  <2>2. ASSUME read < call.offered PROVE AtFrameEnd'
    <3>1. position \in FrameEnds
      BY <1>1, <1>4, <1>5, <2>1, <2>2
    <3>2. decoded = Content[position]
      BY <1>6, <3>1
    <3>3. Len(dctx'.consumed) = position /\ dctx'.out = decoded
      BY <1>9, <1>11, <2>1
    <3> HIDE DEF position
    <3> QED BY <3>1, <3>2, <3>3 DEF AtFrameEnd
  <2> QED BY <1>11, <2>1, <2>2
<1>14. CodecRuns(read, written)
  BY <1>1, <1>3, <1>4, <1>6, <1>11, <1>12, <1>13 DEF CodecRuns, first
<1> QED BY <1>4, <1>14

\* read enters an object, which it may find closed.
Enters(offered) == offered \in Nat /\ Enter("read", offered) /\ UNCHANGED dctx

\* The codec refuses the call of read.
Aborts ==
  /\ call.step = "entered"
  /\ \E error \in DecompressErrors :
       CallFails(error)
  /\ UNCHANGED dctx

\* What a step can be.
LEMMA StepKinds ==
  ASSUME Shape, [Next]_vars
  PROVE  \/ Initialize
         \/ \E offered \in Nat : Enters(offered)
         \/ \E read \in Nat, written \in Nat : CodecRuns(read, written)
         \/ Return
         \/ Aborts
         \/ StreamStep("read") /\ UNCHANGED dctx
         \/ UNCHANGED vars
<1>1. CASE EnterRead
  <2>1. PICK length \in 0 .. MaxSourceLength - accepted : Enter("read", length)
    BY <1>1 DEF EnterRead
  <2>2. length \in Nat
    BY <2>1 DEF Shape, TypeOK, NativeStreamType
  <2>3. Enters(length)
    BY <1>1, <2>1, <2>2 DEF EnterRead, Enters
  <2> QED BY <2>2, <2>3
<1>2. CASE Decompress
  BY <1>2, CodecStep
<1>3. CASE Refused /\ UNCHANGED dctx
  BY <1>3 DEF Refused, Aborts
<1> QED BY <1>1, <1>2, <1>3 DEF Next

\* A new object has its shape.
LEMMA InitShape == Init => Shape
<1> SUFFICES ASSUME Init PROVE Shape
  OBVIOUS
<1>1. TypeOK
  <2>1. dctx \in ContextType
    BY DEF Init, NewContext, ContextType
  <2>2. ~Open
    BY DEF Init, NativeStreamInit, Open, Memory
  <2>3. reply \in [op : Operations, error : StreamErrors, offered : Nat, count : Nat, more : BOOLEAN]
    BY DEF Init, NativeStreamInit, NoReply, Operations, StreamErrors, OptionErrors
  <2>4. /\ call \in [op : Operations, step : {"idle", "entered", "called"}, offered : Nat,
                     read : Nat, written : Nat, more : BOOLEAN]
        /\ call.step # "called"
    BY DEF Init, NativeStreamInit, NoCall, Operations
  <2>5. buffer \in [0 .. DestinationBufferLength - 1 -> Nat] /\ delivered \in Seq(Nat)
    BY DEF Init, NativeStreamInit
  <2> QED BY <2>1, <2>2, <2>3, <2>4, <2>5
          DEF Init, NativeStreamInit, TypeOK, NativeStreamType, Memory
<1>2. MemoryInPlace /\ CallInPlace /\ FreshInPlace
  BY DEF Init, NativeStreamInit, NoCall, MemoryInPlace, CallInPlace, FreshInPlace
<1>3. dctx.out <= dctx.decoded
  BY DEF Init, NewContext
<1> QED BY <1>1, <1>2, <1>3 DEF Shape

\* The returns of methods are not the reply of a new object.
LEMMA RepliesAreNotFresh ==
  /\ \A op, error : Raised(op, error).op = op /\ Raised(op, error).error = error
  /\ \A op \in Operations, error \in StreamErrors :
       Raised(op, error) \in [op : Operations, error : StreamErrors, offered : Nat,
                              count : Nat, more : BOOLEAN]
  /\ NoReply.op = "none" /\ NoReply.error = "none" /\ NoReply.more = FALSE
  /\ \A op, error : Raised(op, error).more = FALSE
BY DEF Raised, NoReply

\* initialize gives the object its memory and an empty buffer.
LEMMA ShapeInitialize ==
  ASSUME Shape, Initialize
  PROVE  Shape'
<1>1. /\ TypeOK /\ dctx.out <= dctx.decoded /\ call.step = "idle" /\ call = NoCall
      /\ ~collected /\ live = pointers /\ Fresh /\ pointers = {}
  BY DEF Shape, Initialize, Initialized, Idle, NoCall, MemoryInPlace
<1>2. /\ pointers' = Memory /\ live' = Memory /\ start' = 0 /\ room' = DestinationBufferLength
      /\ reply' = [NoReply EXCEPT !.op = "initialize"]
      /\ UNCHANGED <<collected, buffer, call, accepted, delivered, torn>>
  BY <1>1 DEF Initialize, Initialized, clientVars
<1>3. dctx' \in ContextType /\ dctx'.out = dctx.out /\ dctx'.decoded = dctx.decoded
  BY <1>1 DEF Initialize, TypeOK
<1>4. /\ reply' \in [op : Operations, error : StreamErrors, offered : Nat, count : Nat, more : BOOLEAN]
      /\ reply' # NoReply
  BY <1>2 DEF NoReply, Operations, StreamErrors, OptionErrors
<1>5. TypeOK'
  BY <1>1, <1>2, <1>3, <1>4 DEF TypeOK, NativeStreamType, NoCall, Open
<1>6. MemoryInPlace' /\ CallInPlace' /\ FreshInPlace'
  BY <1>1, <1>2, <1>4 DEF MemoryInPlace, CallInPlace, FreshInPlace, Fresh, NoCall
<1> QED BY <1>1, <1>3, <1>5, <1>6 DEF Shape

\* A method enters an open object, or raises at once.
LEMMA ShapeEnter ==
  ASSUME Shape, NEW offered \in Nat, Enters(offered)
  PROVE  Shape'
<1>1. /\ TypeOK /\ MemoryInPlace /\ CallInPlace /\ dctx.out <= dctx.decoded
      /\ call = NoCall /\ ~collected /\ reply # NoReply
      /\ UNCHANGED <<pointers, live, collected, buffer, start, room, accepted, delivered, torn, dctx>>
  BY DEF Shape, Enters, Enter, Idle, Fresh, objectVars, clientVars
<1>2. CASE Open
  <2>1. call' = [NoCall EXCEPT !.op = "read", !.step = "entered", !.offered = offered] /\ reply' = reply
    BY <1>2 DEF Enters, Enter
  <2>2. /\ call' \in [op : Operations, step : {"idle", "entered", "called"}, offered : Nat,
                      read : Nat, written : Nat, more : BOOLEAN]
        /\ call'.step = "entered" /\ call'.op = "read" /\ call'.read = 0 /\ call'.written = 0
    BY <2>1 DEF NoCall, Operations
  <2>3. pointers = Memory
    BY <1>1, <1>2 DEF MemoryInPlace, Open, Memory
  <2>4. TypeOK'
    BY <1>1, <2>1, <2>2 DEF TypeOK, NativeStreamType, Open
  <2>5. MemoryInPlace' /\ CallInPlace' /\ FreshInPlace'
    BY <1>1, <2>1, <2>2, <2>3 DEF MemoryInPlace, CallInPlace, FreshInPlace, Fresh
  <2> QED BY <1>1, <2>4, <2>5 DEF Shape
<1>3. CASE ~Open
  <2>1. reply' = Raised("read", "UsedAfterCloseError") /\ call' = call
    BY <1>3 DEF Enters, Enter
  <2>2. "read" \in Operations /\ "UsedAfterCloseError" \in StreamErrors
    BY DEF Operations, StreamErrors
  <2>3. /\ reply' \in [op : Operations, error : StreamErrors, offered : Nat, count : Nat, more : BOOLEAN]
        /\ reply' # NoReply
    BY <2>1, <2>2, RepliesAreNotFresh
  <2>4. TypeOK'
    BY <1>1, <2>1, <2>3 DEF TypeOK, NativeStreamType, Open
  <2>5. MemoryInPlace' /\ CallInPlace' /\ FreshInPlace'
    BY <1>1, <2>1, <2>3 DEF MemoryInPlace, CallInPlace, FreshInPlace, Fresh
  <2> QED BY <1>1, <2>4, <2>5 DEF Shape
<1> QED BY <1>2, <1>3

\* The codec stores no more than there is room for.
LEMMA ShapeCodec ==
  ASSUME Shape, NEW read \in Nat, NEW written \in Nat, CodecRuns(read, written)
  PROVE  Shape'
<1>1. /\ TypeOK /\ MemoryInPlace /\ CallInPlace /\ FreshInPlace /\ call.step = "entered"
      /\ read \in 0 .. call.offered /\ written \in 0 .. room
      /\ dctx' \in ContextType /\ dctx'.out <= dctx'.decoded
  BY DEF Shape, CodecRuns
<1>2. /\ call' = [call EXCEPT !.step = "called", !.read = read, !.written = written, !.more = FALSE]
      /\ buffer' = [i \in 0 .. DestinationBufferLength - 1 |->
                      IF i >= start /\ i < start + written THEN dctx.out + i - start + 1 ELSE buffer[i]]
      /\ UNCHANGED <<pointers, live, collected, start, room, reply, accepted, delivered, torn>>
  BY DEF CodecRuns, Called, clientVars
<1>3. /\ call' \in [op : Operations, step : {"idle", "entered", "called"}, offered : Nat,
                    read : Nat, written : Nat, more : BOOLEAN]
      /\ call'.step = "called" /\ call'.op = call.op /\ call'.offered = call.offered
      /\ call'.read = read /\ call'.written = written
  BY <1>1, <1>2 DEF TypeOK, NativeStreamType
<1>4. buffer' \in [0 .. DestinationBufferLength - 1 -> Nat]
  <2>1. start \in Nat /\ dctx.out \in Nat /\ buffer \in [0 .. DestinationBufferLength - 1 -> Nat]
    BY <1>1 DEF TypeOK, NativeStreamType, ContextType
  <2>2. ASSUME NEW i \in 0 .. DestinationBufferLength - 1
        PROVE  (IF i >= start /\ i < start + written THEN dctx.out + i - start + 1 ELSE buffer[i]) \in Nat
    BY <2>1
  <2> QED BY <1>2, <2>2
<1>5. ~Fresh
  BY <1>1 DEF FreshInPlace, NoCall
<1>6. TypeOK'
  <2>1. call'.read <= call'.offered /\ call'.written <= room'
    <3>1. call.offered \in Nat /\ room \in Nat
      BY <1>1 DEF TypeOK, NativeStreamType
    <3> QED BY <1>1, <1>2, <1>3, <3>1
  <2> QED BY <1>1, <1>2, <1>3, <1>4, <2>1 DEF TypeOK, NativeStreamType, Open
<1>7. MemoryInPlace' /\ CallInPlace' /\ FreshInPlace'
  BY <1>1, <1>2, <1>3, <1>5 DEF MemoryInPlace, CallInPlace, FreshInPlace, Fresh
<1> QED BY <1>1, <1>6, <1>7 DEF Shape

\* A method returns with the object told what the codec did.
LEMMA ShapeReturn ==
  ASSUME Shape, Return
  PROVE  Shape'
<1> DEFINE more == (room = call.written)
<1>1. /\ TypeOK /\ MemoryInPlace /\ CallInPlace /\ dctx.out <= dctx.decoded
      /\ call.step = "called" /\ Leave(more)
  BY DEF Shape, Return, Leave
<1>2. more \in BOOLEAN
  BY <1>1 DEF TypeOK, NativeStreamType
<1> HIDE DEF more
<1>3. /\ start' = start + call.written /\ room' = room - call.written /\ accepted' = accepted + call.read
      /\ reply' = [op |-> call.op, error |-> "none", offered |-> call.offered,
                   count |-> call.read, more |-> more]
      /\ call' = NoCall
      /\ UNCHANGED <<pointers, live, collected, buffer, delivered, torn, dctx>>
  BY <1>1 DEF Leave, Return
<1>4. /\ call.op = "read" /\ call.offered \in Nat
      /\ call.read \in Nat /\ call.written \in Nat /\ call.written <= room
      /\ start \in Nat /\ room \in Nat /\ accepted \in Nat
  BY <1>1 DEF TypeOK, NativeStreamType, CallInPlace
<1>5. /\ reply' \in [op : Operations, error : StreamErrors, offered : Nat, count : Nat, more : BOOLEAN]
      /\ reply' # NoReply
  BY <1>2, <1>3, <1>4 DEF Operations, StreamErrors, OptionErrors, NoReply
<1>6. /\ start' \in Nat /\ room' \in Nat /\ accepted' \in Nat
      /\ Open => start' + room' = DestinationBufferLength
  <2>1. Open => start + room = DestinationBufferLength
    BY <1>1 DEF TypeOK, NativeStreamType
  <2>2. start' = start + call.written /\ room' = room - call.written /\ accepted' = accepted + call.read
    BY <1>3
  <2>3. /\ call.read \in Nat /\ call.written \in Nat /\ call.written <= room
        /\ start \in Nat /\ room \in Nat /\ accepted \in Nat
    BY <1>4
  <2>4. start' \in Nat
    BY <2>2, <2>3
  <2>5. room' \in Nat
    BY <2>2, <2>3
  <2>6. accepted' \in Nat
    BY <2>2, <2>3
  <2>7. Open => start' + room' = DestinationBufferLength
    BY <2>1, <2>2, <2>3
  <2> QED BY <2>4, <2>5, <2>6, <2>7
<1>7. call' \in [op : Operations, step : {"idle", "entered", "called"}, offered : Nat,
                 read : Nat, written : Nat, more : BOOLEAN]
      /\ call'.step = "idle" /\ call'.read = 0 /\ call'.written = 0
  BY <1>3 DEF NoCall, Operations
<1>8. TypeOK'
  BY <1>1, <1>3, <1>5, <1>6, <1>7 DEF TypeOK, NativeStreamType, Open
<1>9. MemoryInPlace' /\ CallInPlace' /\ FreshInPlace'
  BY <1>1, <1>3, <1>5, <1>7 DEF MemoryInPlace, CallInPlace, FreshInPlace, Fresh
<1> QED BY <1>1, <1>3, <1>8, <1>9 DEF Shape

\* A method that leaves without telling the object changes nothing of it.
LEMMA ShapeLeft ==
  ASSUME Shape, call.step # "idle", NEW error \in StreamErrors,
         reply' = Raised(call.op, error), call' = NoCall, torn' \in BOOLEAN,
         UNCHANGED <<objectVars, clientVars, dctx>>
  PROVE  Shape'
<1>1. /\ TypeOK /\ MemoryInPlace /\ CallInPlace /\ dctx.out <= dctx.decoded
      /\ call.op \in Operations /\ call.op # "none"
      /\ UNCHANGED <<pointers, live, collected, buffer, start, room, accepted, delivered, dctx>>
  BY DEF Shape, CallInPlace, Operations, objectVars, clientVars
<1>2. /\ reply' \in [op : Operations, error : StreamErrors, offered : Nat, count : Nat, more : BOOLEAN]
      /\ reply' # NoReply
  BY <1>1, RepliesAreNotFresh
<1>3. call' \in [op : Operations, step : {"idle", "entered", "called"}, offered : Nat,
                 read : Nat, written : Nat, more : BOOLEAN]
      /\ call'.step = "idle" /\ call'.read = 0 /\ call'.written = 0
  BY DEF NoCall, Operations
<1>4. TypeOK'
  BY <1>1, <1>2, <1>3 DEF TypeOK, NativeStreamType, Open
<1>5. MemoryInPlace' /\ CallInPlace' /\ FreshInPlace'
  BY <1>1, <1>2, <1>3 DEF MemoryInPlace, CallInPlace, FreshInPlace, Fresh
<1> QED BY <1>1, <1>4, <1>5 DEF Shape

\* What waits in the buffer is as long as the part that is not free.
LEMMA StagedBytes ==
  ASSUME TypeOK, Open
  PROVE  /\ Staged \in Seq(Nat) /\ Len(Staged) = start
         /\ start \in Nat /\ \A i \in 1 .. start : Staged[i] = buffer[i - 1]
<1>1. /\ start \in Nat /\ room \in Nat /\ start + room = DestinationBufferLength
      /\ buffer \in [0 .. DestinationBufferLength - 1 -> Nat]
  BY DEF TypeOK, NativeStreamType
<1>2. Staged = [i \in 1 .. start |-> buffer[i - 1]]
  <2>1. DestinationBufferLength - room = start
    BY <1>1
  <2> QED BY <2>1, Zenon DEF Staged
<1>3. \A i \in 1 .. start : buffer[i - 1] \in Nat
  BY <1>1
<1> QED BY <1>1, <1>2, <1>3

\* The steps that do not look at the context.
LEMMA ShapeStream ==
  ASSUME Shape, StreamStep("read"), UNCHANGED dctx
  PROVE  Shape'
<1>1. TypeOK /\ MemoryInPlace /\ CallInPlace /\ FreshInPlace /\ dctx.out <= dctx.decoded
  BY DEF Shape
<1>2. CASE Interrupted
  <2>1. /\ call.step # "idle" /\ "Interrupted" \in StreamErrors
        /\ reply' = Raised(call.op, "Interrupted") /\ call' = NoCall
        /\ torn' = (torn \/ call.step = "called")
        /\ UNCHANGED <<objectVars, clientVars>>
    BY <1>2 DEF Interrupted, StreamErrors
  <2>2. torn' \in BOOLEAN
    BY <1>1, <2>1 DEF TypeOK, NativeStreamType
  <2> QED BY <2>1, <2>2, ShapeLeft
<1>3. CASE InitializeFails \/ SourceRefused("read") \/ UsedAfterClose
  <2>1. /\ call' = call /\ call = NoCall
        /\ UNCHANGED <<pointers, live, collected, buffer, start, room, accepted, delivered, torn>>
    BY <1>3 DEF InitializeFails, SourceRefused, UsedAfterClose, Idle, objectVars, clientVars
  <2>2. \E op \in {"initialize", "read", "read_result", "close"}, error \in StreamErrors : reply' = Raised(op, error)
    BY <1>3 DEF InitializeFails, SourceRefused, UsedAfterClose, StreamErrors, OptionErrors
  <2>3. /\ reply' \in [op : Operations, error : StreamErrors, offered : Nat, count : Nat, more : BOOLEAN]
        /\ reply' # NoReply
    BY <2>2, RepliesAreNotFresh DEF Operations
  <2>4. TypeOK'
    BY <1>1, <2>1, <2>3 DEF TypeOK, NativeStreamType, Open
  <2>5. MemoryInPlace' /\ CallInPlace' /\ FreshInPlace'
    BY <1>1, <2>1, <2>3 DEF MemoryInPlace, CallInPlace, FreshInPlace, Fresh
  <2> QED BY <1>1, <2>4, <2>5 DEF Shape
<1>4. CASE ReadResult
  <2>1. /\ call' = call /\ call = NoCall /\ Open
        /\ delivered' = delivered \o Staged /\ start' = 0 /\ room' = DestinationBufferLength
        /\ reply' = [NoReply EXCEPT !.op = "read_result", !.count = Len(Staged)]
        /\ UNCHANGED <<pointers, live, collected, buffer, accepted, torn>>
    BY <1>4 DEF ReadResult, Idle
  <2>2. Staged \in Seq(Nat) /\ Len(Staged) \in Nat
    BY <1>1, <2>1, StagedBytes
  <2>3. /\ reply' \in [op : Operations, error : StreamErrors, offered : Nat, count : Nat, more : BOOLEAN]
        /\ reply' # NoReply
    BY <2>1, <2>2 DEF NoReply, Operations, StreamErrors, OptionErrors
  <2>4. delivered' \in Seq(Nat)
    BY <1>1, <2>1, <2>2 DEF TypeOK, NativeStreamType
  <2>5. TypeOK'
    <3>1. start' \in Nat /\ room' \in Nat /\ start' + room' = DestinationBufferLength
      BY <2>1
    <3>2. call'.step # "called"
      BY <2>1 DEF NoCall
    <3>3. /\ pointers' \subseteq Memory /\ live' \subseteq Memory /\ collected' \in BOOLEAN
          /\ buffer' \in [0 .. DestinationBufferLength - 1 -> Nat] /\ accepted' \in Nat
          /\ torn' \in BOOLEAN /\ dctx' \in ContextType
          /\ call' \in [op : Operations, step : {"idle", "entered", "called"}, offered : Nat,
                         read : Nat, written : Nat, more : BOOLEAN]
      BY <1>1, <2>1 DEF TypeOK, NativeStreamType
    <3> QED BY <2>3, <2>4, <3>1, <3>2, <3>3 DEF TypeOK, NativeStreamType
  <2>6. MemoryInPlace' /\ CallInPlace' /\ FreshInPlace'
    BY <1>1, <2>1, <2>3 DEF MemoryInPlace, CallInPlace, FreshInPlace, Fresh
  <2> QED BY <1>1, <2>5, <2>6 DEF Shape
<1>5. CASE Close
  <2>1. /\ call' = call /\ call = NoCall /\ Open /\ ~collected
        /\ live' = live \ pointers /\ pointers' = {}
        /\ reply' = [NoReply EXCEPT !.op = "close"]
        /\ UNCHANGED <<collected, buffer, start, room, accepted, delivered, torn>>
    BY <1>5 DEF Close, Idle, clientVars
  <2>2. /\ reply' \in [op : Operations, error : StreamErrors, offered : Nat, count : Nat, more : BOOLEAN]
        /\ reply' # NoReply
    BY <2>1 DEF NoReply, Operations, StreamErrors, OptionErrors
  <2>3. live' = {}
    BY <1>1, <2>1 DEF MemoryInPlace
  <2>4. TypeOK'
    BY <1>1, <2>1, <2>2, <2>3 DEF TypeOK, NativeStreamType, Open, Memory
  <2>5. MemoryInPlace' /\ CallInPlace' /\ FreshInPlace'
    BY <1>1, <2>1, <2>2, <2>3 DEF MemoryInPlace, CallInPlace, FreshInPlace, Fresh, NoCall
  <2> QED BY <1>1, <2>4, <2>5 DEF Shape
<1>6. CASE Collect
  <2>1. /\ call' = call /\ call = NoCall /\ ~collected /\ collected' = TRUE
        /\ live' = live \ pointers
        /\ UNCHANGED <<pointers, buffer, start, room, reply, accepted, delivered, torn>>
    BY <1>6 DEF Collect, Idle, clientVars
  <2>2. live' = {}
    BY <1>1, <2>1 DEF MemoryInPlace
  <2>3. TypeOK'
    BY <1>1, <2>1, <2>2 DEF TypeOK, NativeStreamType, Open
  <2>4. MemoryInPlace' /\ CallInPlace' /\ FreshInPlace'
    BY <1>1, <2>1, <2>2 DEF MemoryInPlace, CallInPlace, FreshInPlace, Fresh, NoCall
  <2> QED BY <1>1, <2>3, <2>4 DEF Shape
<1> QED BY <1>2, <1>3, <1>4, <1>5, <1>6 DEF StreamStep

\* Every step keeps the shape.
LEMMA ShapeStep ==
  ASSUME Shape, [Next]_vars
  PROVE  Shape'
<1>1. CASE Aborts
  <2>1. PICK error \in DecompressErrors :
          /\ reply' = Raised(call.op, error) /\ call' = NoCall /\ torn' = TRUE
          /\ UNCHANGED <<objectVars, clientVars, dctx>>
    BY <1>1 DEF Aborts, CallFails
  <2> QED BY <1>1, <2>1, ShapeLeft DEF Aborts, StreamErrors, OptionErrors, DecompressErrors
<1>2. CASE UNCHANGED vars
  BY <1>2 DEF vars, streamVars, objectVars, clientVars, Shape, TypeOK, NativeStreamType,
              MemoryInPlace, CallInPlace, FreshInPlace, Fresh, Open
<1> QED BY <1>1, <1>2, StepKinds, ShapeInitialize, ShapeEnter, ShapeCodec, ShapeReturn, ShapeStream

\* The shape holds in every reachable state.
LEMMA ShapeHolds == Spec => []Shape
<1>1. Shape /\ [Next]_vars => Shape'
  BY ShapeStep
<1> QED BY <1>1, InitShape, PTL DEF Spec

\* Every field of zstds_ext_decompressor_t and every local of its methods keeps
\* its type; the free part of the buffer always ends with the buffer
\* (decompressor.c:45-186).
THEOREM TypeCorrect == Spec => []TypeOK
<1>1. Shape => TypeOK
  BY DEF Shape
<1> QED BY <1>1, ShapeHolds, PTL

\* No order of calls, interrupts and failures makes a method use freed memory,
\* frees memory twice or leaves some behind when the object is collected
\* (decompressor.c:12-25, 86-89, 163-186).
THEOREM NoDanglingPointer == Spec => []MemoryInPlace
<1>1. Shape => MemoryInPlace
  BY DEF Shape
<1> QED BY <1>1, ShapeHolds, PTL

-----------------------------------------------------------------------------
\* What follows the first bytes of a sequence in order continues them.
LEMMA Continued ==
  ASSUME NEW a \in Seq(Nat), \A i \in 1 .. Len(a) : a[i] = i,
         NEW b \in Seq(Nat), \A i \in 1 .. Len(b) : b[i] = Len(a) + i
  PROVE  /\ a \o b \in Seq(Nat) /\ Len(a \o b) = Len(a) + Len(b)
         /\ \A i \in 1 .. Len(a) + Len(b) : (a \o b)[i] = i
         /\ a \o b = [i \in 1 .. Len(a) + Len(b) |-> i]
<1> DEFINE whole == a \o b
           length == Len(a) + Len(b)
           numbers == [i \in 1 .. length |-> i]
<1>1. Len(a) \in Nat /\ Len(b) \in Nat /\ length \in Nat
  OBVIOUS
<1>2. /\ whole \in Seq(Nat) /\ Len(whole) = length
      /\ \A i \in 1 .. length : whole[i] = IF i <= Len(a) THEN a[i] ELSE b[i - Len(a)]
  BY ConcatProperties
<1>3. ASSUME NEW i \in 1 .. length PROVE whole[i] = i
  <2> HIDE DEF whole
  <2>1. CASE i <= Len(a)
    <3>1. i \in 1 .. Len(a) /\ whole[i] = a[i]
      BY <1>1, <1>2, <2>1
    <3> QED BY <3>1
  <2>2. CASE i > Len(a)
    <3> DEFINE k == i - Len(a)
    <3>1. k \in 1 .. Len(b) /\ Len(a) + k = i
      BY <1>1, <2>2
    <3>2. whole[i] = b[k]
      BY <1>1, <1>2, <2>2
    <3> HIDE DEF k
    <3> QED BY <3>1, <3>2
  <2> QED BY <1>1, <2>1, <2>2
<1>4. numbers \in Seq(Nat) /\ Len(numbers) = length /\ \A i \in 1 .. length : numbers[i] = i
  <2> HIDE DEF length
  <2> QED BY <1>1
<1> HIDE DEF whole, numbers, length
<1>5. whole = numbers
  BY <1>2, <1>3, <1>4, SeqEqual
<1> QED BY <1>2, <1>3, <1>5 DEF whole, numbers, length

\* A method that enters, or raises at once, has moved nothing yet.
LEMMA EntersClean ==
  ASSUME NEW offered \in Nat, Enters(offered)
  PROVE  /\ call.read = 0 /\ call.written = 0 /\ call'.read = 0 /\ call'.written = 0
         /\ \/ call'.step = "entered" /\ reply' = reply
            \/ call' = NoCall /\ reply' = Raised("read", "UsedAfterCloseError")
         /\ UNCHANGED <<objectVars, clientVars, torn, dctx>>
<1>1. call = NoCall /\ reply # NoReply /\ UNCHANGED <<objectVars, clientVars, torn, dctx>>
  BY DEF Enters, Enter, Idle, Fresh
<1>2. NoCall.read = 0 /\ NoCall.written = 0
  BY DEF NoCall
<1>3. CASE Open
  <2>1. call' = [NoCall EXCEPT !.op = "read", !.step = "entered", !.offered = offered] /\ reply' = reply
    BY <1>3 DEF Enters, Enter
  <2>2. call'.step = "entered" /\ call'.read = 0 /\ call'.written = 0
    BY <2>1 DEF NoCall
  <2> QED BY <1>1, <1>2, <2>1, <2>2
<1>4. CASE ~Open
  <2>1. call' = call /\ reply' = Raised("read", "UsedAfterCloseError")
    BY <1>4 DEF Enters, Enter
  <2> QED BY <1>1, <1>2, <2>1
<1> QED BY <1>3, <1>4

\* Unless a call was torn, the context has taken the archive in order, each
\* byte once, as far as read has reported and will report.
SourceFaithful ==
  ~torn =>
    /\ \A i \in DOMAIN dctx.consumed : dctx.consumed[i] = i
    /\ Len(dctx.consumed) = accepted + call.read

\* A step that does not call the codec moves no archive.
LEMMA QuietSource ==
  ASSUME Shape, SourceFaithful, StreamStep("read"), UNCHANGED dctx
  PROVE  SourceFaithful'
<1>1. CallInPlace
  BY DEF Shape
<1>2. CASE Interrupted
  <2>1. /\ call' = NoCall /\ torn' = (torn \/ call.step = "called") /\ accepted' = accepted
    BY <1>2 DEF Interrupted, clientVars
  <2>2. call'.read = 0
    BY <2>1 DEF NoCall
  <2>3. ~torn' => ~torn /\ call.read = 0
    BY <1>1, <2>1 DEF CallInPlace
  <2> QED BY <2>1, <2>2, <2>3 DEF SourceFaithful
<1>3. CASE ~Interrupted
  <2>1. UNCHANGED <<call, accepted, torn>>
    BY <1>3 DEF StreamStep, InitializeFails, SourceRefused, ReadResult, Close, UsedAfterClose, Collect, clientVars
  <2> QED BY <2>1 DEF SourceFaithful
<1> QED BY <1>2, <1>3

\* The context takes the next bytes of the archive.
LEMMA CodecSource ==
  ASSUME Shape, SourceFaithful, NEW read \in Nat, NEW written \in Nat, CodecRuns(read, written)
  PROVE  SourceFaithful'
<1>1. /\ accepted \in Nat /\ dctx.consumed \in Seq(Nat) /\ call.read = 0
  BY DEF Shape, TypeOK, NativeStreamType, ContextType, CallInPlace, CodecRuns
<1>2. /\ torn' = torn /\ accepted' = accepted /\ call'.read = read
      /\ dctx'.consumed = dctx.consumed \o [i \in 1 .. read |-> accepted + i]
  BY DEF Shape, TypeOK, NativeStreamType, CodecRuns, Called, clientVars
<1> SUFFICES ASSUME ~torn
             PROVE  /\ \A i \in DOMAIN dctx'.consumed : dctx'.consumed[i] = i
                    /\ Len(dctx'.consumed) = accepted + read
  BY <1>2 DEF SourceFaithful
<1> DEFINE first == [i \in 1 .. read |-> accepted + i]
           whole == dctx.consumed \o first
<1>3. first \in Seq(Nat) /\ Len(first) = read /\ \A i \in 1 .. read : first[i] = accepted + i
  BY <1>1
<1>4. Len(dctx.consumed) = accepted /\ \A i \in 1 .. accepted : dctx.consumed[i] = i
  BY <1>1 DEF SourceFaithful
<1> HIDE DEF first
<1>5. /\ whole \in Seq(Nat) /\ Len(whole) = accepted + read
      /\ \A i \in 1 .. accepted + read : whole[i] = i
  BY <1>1, <1>3, <1>4, Continued
<1>6. dctx'.consumed = whole
  BY <1>2 DEF first
<1>7. DOMAIN whole = 1 .. accepted + read
  BY <1>5
<1> HIDE DEF whole
<1> QED BY <1>5, <1>6, <1>7

\* Unless a call was torn, the context has taken the archive in order, each
\* byte once, and read has reported exactly that (decompressor.c:117-137).
THEOREM SourceInOrder == Spec => []SourceFaithful
<1>1. Init => SourceFaithful
  BY DEF Init, NativeStreamInit, NewContext, NoCall, SourceFaithful
<1>2. Shape /\ SourceFaithful /\ [Next]_vars => SourceFaithful'
  <2> SUFFICES ASSUME Shape, SourceFaithful, [Next]_vars PROVE SourceFaithful'
    OBVIOUS
  <2>1. CASE Initialize
    <3>1. /\ UNCHANGED <<call, accepted, torn>> /\ dctx'.consumed = dctx.consumed
      BY <2>1 DEF Initialize, Initialized, clientVars
    <3> QED BY <3>1 DEF SourceFaithful
  <2>2. ASSUME NEW offered \in Nat, Enters(offered)
        PROVE  SourceFaithful'
    <3>1. UNCHANGED <<accepted, torn, dctx>> /\ call.read = 0 /\ call'.read = 0
      BY <2>2, EntersClean DEF clientVars
    <3> QED BY <3>1 DEF SourceFaithful
  <2>3. CASE Return
    <3>1. /\ accepted' = accepted + call.read /\ call' = NoCall
          /\ UNCHANGED <<torn, dctx>>
      BY <2>3 DEF Return, Leave
    <3>2. accepted \in Nat /\ call.read \in Nat /\ call'.read = 0
      BY <3>1 DEF Shape, TypeOK, NativeStreamType, NoCall
    <3> QED BY <3>1, <3>2 DEF SourceFaithful
  <2>4. CASE Aborts
    BY <2>4 DEF Aborts, CallFails, SourceFaithful
  <2>5. CASE UNCHANGED vars
    BY <2>5 DEF vars, streamVars, clientVars, SourceFaithful
  <2> QED BY <2>1, <2>2, <2>3, <2>4, <2>5, StepKinds, CodecSource, QuietSource
<1> QED BY <1>1, <1>2, ShapeHolds, PTL DEF Spec

-----------------------------------------------------------------------------
\* Unless a call was torn, what read_result returned, what waits in the buffer
\* and what the running method has stored behind it continue each other.
Window ==
  ~torn /\ Open =>
    /\ Len(delivered) + start + call.written = dctx.out
    /\ \A i \in 1 .. Len(delivered) : delivered[i] = i
    /\ \A i \in 0 .. start + call.written - 1 : buffer[i] = Len(delivered) + i + 1

\* The codec stores the next bytes of the content behind those that wait.
LEMMA CodecWindow ==
  ASSUME Shape, Window, NEW read \in Nat, NEW written \in Nat, CodecRuns(read, written)
  PROVE  Window'
<1>1. /\ start \in Nat /\ room \in Nat /\ Len(delivered) \in Nat /\ dctx.out \in Nat
      /\ written <= room /\ call.written = 0
  BY DEF Shape, TypeOK, NativeStreamType, ContextType, CallInPlace, CodecRuns
<1>2. /\ UNCHANGED <<pointers, start, room, delivered, torn>> /\ call'.written = written
      /\ dctx'.out = dctx.out + written
      /\ buffer' = [i \in 0 .. DestinationBufferLength - 1 |->
                      IF i >= start /\ i < start + written THEN dctx.out + i - start + 1 ELSE buffer[i]]
  BY DEF Shape, TypeOK, NativeStreamType, CodecRuns, Called, clientVars
<1> SUFFICES ASSUME ~torn, Open
             PROVE  /\ Len(delivered) + start + written = dctx'.out
                    /\ \A i \in 1 .. Len(delivered) : delivered[i] = i
                    /\ \A i \in 0 .. start + written - 1 : buffer'[i] = Len(delivered) + i + 1
  BY <1>2 DEF Window, Open
<1>3. /\ Len(delivered) + start = dctx.out
      /\ \A i \in 1 .. Len(delivered) : delivered[i] = i
      /\ \A i \in 0 .. start - 1 : buffer[i] = Len(delivered) + i + 1
  BY <1>1 DEF Window
<1>4. start + room = DestinationBufferLength
  BY DEF Shape, TypeOK, NativeStreamType
<1>5. ASSUME NEW i \in 0 .. start + written - 1
      PROVE  buffer'[i] = Len(delivered) + i + 1
  <2>1. i \in 0 .. DestinationBufferLength - 1
    BY <1>1, <1>4
  <2>2. CASE i >= start
    <3>1. buffer'[i] = dctx.out + i - start + 1
      BY <1>1, <1>2, <2>1, <2>2
    <3> QED BY <1>1, <1>3, <3>1
  <2>3. CASE i < start
    <3>1. buffer'[i] = buffer[i]
      BY <1>1, <1>2, <2>1, <2>3
    <3> QED BY <1>1, <1>3, <2>3, <3>1
  <2> QED BY <1>1, <2>2, <2>3
<1> QED BY <1>1, <1>2, <1>3, <1>5

\* What read_result returned and what waits is the content so far.
LEMMA ContentSoFar ==
  ASSUME Shape, Window, ~torn, Open, call.written = 0
  PROVE  /\ delivered \o Staged \in Seq(Nat) /\ Len(delivered \o Staged) = dctx.out
         /\ \A i \in 1 .. dctx.out : (delivered \o Staged)[i] = i
         /\ delivered \o Staged = [i \in 1 .. dctx.out |-> i]
<1>1. /\ Staged \in Seq(Nat) /\ Len(Staged) = start /\ start \in Nat
      /\ \A i \in 1 .. start : Staged[i] = buffer[i - 1]
  BY StagedBytes DEF Shape
<1>2. delivered \in Seq(Nat) /\ Len(delivered) \in Nat
  BY DEF Shape, TypeOK, NativeStreamType
<1>3. /\ Len(delivered) + start = dctx.out
      /\ \A i \in 1 .. Len(delivered) : delivered[i] = i
      /\ \A i \in 0 .. start - 1 : buffer[i] = Len(delivered) + i + 1
  BY <1>1, <1>2 DEF Window
<1>4. ASSUME NEW i \in 1 .. start PROVE Staged[i] = Len(delivered) + i
  <2>1. i - 1 \in 0 .. start - 1
    BY <1>1
  <2>2. buffer[i - 1] = Len(delivered) + (i - 1) + 1
    BY <1>3, <2>1
  <2> QED BY <1>1, <1>2, <2>2
<1>5. /\ delivered \o Staged \in Seq(Nat) /\ Len(delivered \o Staged) = Len(delivered) + Len(Staged)
      /\ \A i \in 1 .. Len(delivered) + Len(Staged) : (delivered \o Staged)[i] = i
      /\ delivered \o Staged = [i \in 1 .. Len(delivered) + Len(Staged) |-> i]
  BY <1>1, <1>2, <1>3, <1>4, Continued
<1>6. Len(delivered) + Len(Staged) = dctx.out
  BY <1>1, <1>3
<1> QED BY <1>5, <1>6, Zenon

\* read_result hands out what waits, in order, and nothing is left.
LEMMA ReadWindow ==
  ASSUME Shape, Window, ReadResult, UNCHANGED dctx
  PROVE  Window'
<1>1. /\ Open /\ call.written = 0 /\ call' = call /\ torn' = torn /\ start' = 0
      /\ delivered' = delivered \o Staged
  BY DEF ReadResult, Idle, NoCall
<1>2. dctx.out \in Nat
  BY DEF Shape, TypeOK, ContextType
<1>3. ~torn => Len(delivered') = dctx.out /\ \A i \in 1 .. dctx.out : delivered'[i] = i
  BY <1>1, ContentSoFar
<1>4. ~torn' => Len(delivered') = dctx'.out /\ \A i \in 1 .. Len(delivered') : delivered'[i] = i
  BY <1>1, <1>3
<1>5. Len(delivered') = dctx'.out => Len(delivered') + start' + call'.written = dctx'.out
  BY <1>1, <1>2
<1>6. start' + call'.written - 1 = 0 - 1
  BY <1>1
<1> QED BY <1>4, <1>5, <1>6 DEF Window

\* Unless a call was torn, the strings of read_result and the bytes that wait
\* are the content so far: no order of read and read_result loses, repeats or
\* exchanges a byte (decompressor.c:129-130, 142-159).
THEOREM ResultInOrder == Spec => []ResultFaithful
<1>1. Init => Window
  BY DEF Init, NativeStreamInit, Open, Memory, Window
<1>2. Shape /\ Window /\ [Next]_vars => Window'
  <2> SUFFICES ASSUME Shape, Window, [Next]_vars PROVE Window'
    OBVIOUS
  <2>1. CASE Initialize
    <3>1. /\ start' = 0 /\ call' = NoCall /\ delivered' = <<>> /\ dctx'.out = 0
      BY <2>1 DEF Initialize, Initialized, Idle, clientVars, NewContext, Shape, FreshInPlace
    <3>2. Len(delivered') = 0 /\ call'.written = 0
      BY <3>1 DEF NoCall
    <3> QED BY <3>1, <3>2 DEF Window
  <2>2. ASSUME NEW offered \in Nat, Enters(offered)
        PROVE  Window'
    <3>1. /\ UNCHANGED <<pointers, start, buffer, delivered, torn, dctx>>
          /\ call.written = 0 /\ call'.written = 0
      BY <2>2, EntersClean DEF objectVars, clientVars
    <3> QED BY <3>1 DEF Window, Open
  <2>3. CASE Return
    <3>1. /\ start' = start + call.written /\ call'.written = 0
          /\ UNCHANGED <<pointers, buffer, delivered, torn, dctx>>
      BY <2>3 DEF Return, Leave, NoCall
    <3>2. start \in Nat /\ call.written \in Nat
      BY DEF Shape, TypeOK, NativeStreamType
    <3>3. start' + call'.written = start + call.written
      BY <3>1, <3>2
    <3>4. Len(delivered) \in Nat
      BY DEF Shape, TypeOK, NativeStreamType
    <3>5. Len(delivered') + start' + call'.written = Len(delivered) + start + call.written
      BY <3>1, <3>2, <3>4
    <3> SUFFICES ASSUME ~torn, Open
                 PROVE  /\ Len(delivered') + start' + call'.written = dctx'.out
                        /\ \A i \in 1 .. Len(delivered') : delivered'[i] = i
                        /\ \A i \in 0 .. start' + call'.written - 1 : buffer'[i] = Len(delivered') + i + 1
      BY <3>1 DEF Window, Open
    <3>6. /\ Len(delivered) + start + call.written = dctx.out
          /\ \A i \in 1 .. Len(delivered) : delivered[i] = i
          /\ \A i \in 0 .. start + call.written - 1 : buffer[i] = Len(delivered) + i + 1
      BY DEF Window
    <3>7. dctx' = dctx /\ buffer' = buffer /\ delivered' = delivered
      BY <3>1
    <3>8. \A i \in 0 .. start' + call'.written - 1 : buffer'[i] = Len(delivered') + i + 1
      <4>1. 0 .. start' + call'.written - 1 = 0 .. start + call.written - 1
        <5>1. start' = start + call.written /\ call'.written = 0
          BY <3>1
        <5> QED BY <3>2, <5>1
      <4> QED BY <3>6, <3>7, <4>1, Zenon
    <3>9. Len(delivered') + start' + call'.written = dctx'.out
      BY <3>5, <3>6, <3>7
    <3> QED BY <3>6, <3>7, <3>8, <3>9
  <2>4. CASE Aborts
    BY <2>4 DEF Aborts, CallFails, Window
  <2>5. CASE ReadResult /\ UNCHANGED dctx
    BY <2>5, ReadWindow
  <2>6. CASE Interrupted /\ UNCHANGED dctx
    <3>1. /\ call' = NoCall /\ torn' = (torn \/ call.step = "called")
          /\ UNCHANGED <<pointers, start, buffer, delivered, dctx>>
      BY <2>6 DEF Interrupted, objectVars, clientVars
    <3>2. call'.written = 0 /\ (~torn' => ~torn /\ call.written = 0)
      BY <3>1 DEF NoCall, Shape, CallInPlace
    <3> QED BY <3>1, <3>2 DEF Window, Open
  <2>7. CASE Close
    BY <2>7 DEF Close, Window, Open, Memory
  <2>8. CASE (InitializeFails \/ SourceRefused("read") \/ UsedAfterClose \/ Collect) /\ UNCHANGED dctx
    BY <2>8 DEF InitializeFails, SourceRefused, UsedAfterClose, Collect, objectVars, clientVars, Window, Open
  <2>9. CASE UNCHANGED vars
    BY <2>9 DEF vars, streamVars, objectVars, clientVars, Window, Open
  <2> QED BY <2>1, <2>2, <2>3, <2>4, <2>5, <2>6, <2>7, <2>8, <2>9, StepKinds, CodecWindow DEF StreamStep
<1>3. Shape /\ Window => ResultFaithful
  <2> SUFFICES ASSUME Shape, Window, ~torn, call.step # "called", Open \/ Fresh
               PROVE  (IF Open THEN delivered \o Staged ELSE delivered) = [i \in 1 .. dctx.out |-> i]
    BY DEF ResultFaithful
  <2>1. CASE Open
    <3>1. call.written = 0
      BY DEF Shape, CallInPlace
    <3> QED BY <2>1, <3>1, ContentSoFar
  <2>2. CASE ~Open
    <3>1. delivered = <<>> /\ dctx.out = 0
      BY <2>2 DEF Shape, FreshInPlace, NewContext
    <3>2. [i \in 1 .. 0 |-> i] = <<>>
      OBVIOUS
    <3> QED BY <2>2, <3>1, <3>2
  <2> QED BY <2>1, <2>2
<1> QED BY <1>1, <1>2, <1>3, ShapeHolds, PTL DEF Spec

-----------------------------------------------------------------------------
\* What read knows of the context before it returns: unless the buffer is full
\* nothing decoded is left inside, and source is left only behind a frame.
Learned ==
  call.step = "called" /\ call.written # room =>
    /\ dctx.out = dctx.decoded
    /\ call.read < call.offered => AtFrameEnd

\* The codec stops where its contract lets it.
LEMMA CodecLearned ==
  ASSUME Shape, NEW read \in Nat, NEW written \in Nat, CodecRuns(read, written)
  PROVE  Learned'
<1>1. /\ call'.offered = call.offered /\ call'.read = read
      /\ call'.written = written /\ room' = room
  BY DEF Shape, TypeOK, NativeStreamType, CodecRuns, Called
<1> QED BY <1>1 DEF Learned, CodecRuns

\* What read learned stays true until it returns.
LEMMA LearnedStep ==
  ASSUME Shape, Learned, [Next]_vars
  PROVE  Learned'
<1>1. CASE Initialize
  <2>1. call'.step = "idle"
    BY <1>1 DEF Initialize, Initialized, Idle, NoCall
  <2> QED BY <2>1 DEF Learned
<1>2. ASSUME NEW offered \in Nat, Enters(offered)
      PROVE  Learned'
  <2>1. call'.step # "called"
    BY <1>2, EntersClean DEF NoCall
  <2> QED BY <2>1 DEF Learned
<1>3. CASE Return \/ Aborts
  <2>1. call' = NoCall
    BY <1>3 DEF Return, Leave, Aborts, CallFails
  <2> QED BY <2>1 DEF Learned, NoCall
<1>4. CASE StreamStep("read") /\ UNCHANGED dctx
  <2>1. call' = NoCall
    BY <1>4 DEF StreamStep, InitializeFails, SourceRefused, Interrupted, ReadResult, Close, UsedAfterClose, Collect, Idle
  <2> QED BY <2>1 DEF Learned, NoCall
<1>5. CASE UNCHANGED vars
  BY <1>5 DEF vars, streamVars, objectVars, Learned, AtFrameEnd
<1> QED BY <1>1, <1>2, <1>3, <1>4, <1>5, StepKinds, CodecLearned

\* What read learned holds in every reachable state.
LEMMA LearnedHolds == Spec => []Learned
<1>1. Init => Learned
  BY DEF Init, NativeStreamInit, NoCall, Learned
<1>2. Shape /\ Learned /\ [Next]_vars => Learned'
  BY LearnedStep
<1> QED BY <1>1, <1>2, ShapeHolds, PTL DEF Spec

\* What read replies when it returns.
LEMMA ReturnReplies ==
  ASSUME Shape, Learned, Return
  PROVE  /\ reply'.offered = call.offered /\ reply'.count = call.read
         /\ reply'.more = (room = call.written)
         /\ call.step = "called" /\ dctx' = dctx
<1> DEFINE more == (room = call.written)
<1>1. call.step = "called" /\ Leave(more) /\ dctx' = dctx
  BY DEF Return, Leave
<1>2. reply' = [op |-> call.op, error |-> "none", offered |-> call.offered,
                count |-> call.read, more |-> more]
  BY <1>1 DEF Leave
<1> HIDE DEF more
<1>3. reply'.offered = call.offered /\ reply'.count = call.read /\ reply'.more = more
  BY <1>2
<1> QED BY <1>1, <1>3 DEF more

\* A read that asks for no room has left nothing decoded inside the context,
\* and leaves source only when a frame has ended, all of whose content is then
\* with the client (decompressor.c:131-137).
THEOREM RepliesComplete == Spec => []LessMeansDone
<1>1. Init => LessMeansDone
  BY DEF Init, NativeStreamInit, NoReply, LessMeansDone
<1>2. Shape /\ Learned /\ LessMeansDone /\ [Next]_vars => LessMeansDone'
  <2> SUFFICES ASSUME Shape, Learned, LessMeansDone, [Next]_vars PROVE LessMeansDone'
    OBVIOUS
  <2>1. CASE Initialize
    <3>1. reply' = [NoReply EXCEPT !.op = "initialize"]
      BY <2>1 DEF Initialize, Initialized
    <3>2. reply'.op = "initialize"
      BY <3>1 DEF NoReply
    <3> QED BY <3>2 DEF LessMeansDone
  <2>2. ASSUME NEW offered \in Nat, Enters(offered)
        PROVE  LessMeansDone'
    <3>1. call' # NoCall \/ reply' = Raised("read", "UsedAfterCloseError")
      BY <2>2, EntersClean DEF NoCall
    <3> QED BY <3>1, RepliesAreNotFresh DEF LessMeansDone, Idle
  <2>3. ASSUME NEW read \in Nat, NEW written \in Nat, CodecRuns(read, written)
        PROVE  LessMeansDone'
    <3>1. call'.step = "called"
      BY <2>3 DEF CodecRuns, Called, Shape, TypeOK, NativeStreamType
    <3>2. call' # NoCall
      BY <3>1 DEF NoCall
    <3> QED BY <3>2 DEF LessMeansDone, Idle
  <2>4. CASE Return
    <3>1. /\ call.step = "called" /\ dctx' = dctx
          /\ reply'.offered = call.offered /\ reply'.count = call.read
          /\ reply'.more = (room = call.written)
      BY <2>4, ReturnReplies
    <3> SUFFICES ASSUME ~reply'.more
                 PROVE  /\ dctx'.out = dctx'.decoded
                        /\ reply'.count < reply'.offered => AtFrameEnd'
      BY DEF LessMeansDone, AtFrameEnd
    <3>2. call.written # room
      BY <3>1
    <3>3. dctx.out = dctx.decoded /\ (call.read < call.offered => AtFrameEnd)
      BY <3>1, <3>2 DEF Learned
    <3> QED BY <3>1, <3>3 DEF AtFrameEnd
  <2>5. CASE Aborts
    <3>1. reply'.error # "none"
      BY <2>5, RepliesAreNotFresh DEF DecompressErrors, Aborts, CallFails
    <3> QED BY <3>1 DEF LessMeansDone
  <2>6. CASE Interrupted \/ InitializeFails \/ SourceRefused("read") \/ UsedAfterClose
    <3>1. reply'.error # "none"
      BY <2>6, RepliesAreNotFresh DEF OptionErrors, Interrupted, InitializeFails, SourceRefused, UsedAfterClose
    <3> QED BY <3>1 DEF LessMeansDone
  <2>7. CASE ReadResult \/ Close
    <3>1. reply'.op \in {"read_result", "close"}
      BY <2>7 DEF ReadResult, Close, NoReply
    <3> QED BY <3>1 DEF LessMeansDone
  <2>8. CASE Collect
    BY <2>8 DEF Collect, LessMeansDone, Idle
  <2>9. CASE UNCHANGED vars
    BY <2>9 DEF vars, streamVars, objectVars, LessMeansDone, Idle
  <2> QED BY <2>1, <2>2, <2>3, <2>4, <2>5, <2>6, <2>7, <2>8, <2>9, StepKinds DEF StreamStep
<1> QED BY <1>1, <1>2, ShapeHolds, LearnedHolds, PTL DEF Spec
=============================================================================
