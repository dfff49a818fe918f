------------------------ MODULE FileDecompress_proofs ------------------------
(***************************************************************************)
(* Theorems of FileDecompress for every size of buffers and file, with and   *)
(* without workers, failures and interrupts.                               *)
(***************************************************************************)
EXTENDS FileDecompress, SequenceTheorems, TLAPS

USE SourceBufferAssumption, DestinationBufferAssumption, MaxFileLengthAssumption,
    SwitchAssumption

-----------------------------------------------------------------------------
\* The buffers: what memmove and fread leave in the source buffer, what a codec
\* call finds there, and what a flush passes to the destination.

\* A sequence 1, 2, 3, ...
Counts(s) == \A i \in DOMAIN s : s[i] = i

\* Of two sequences that count, the longer is the shorter with the numbers
\* between them appended.
LEMMA ExtendedCounts ==
  ASSUME NEW s \in Seq(Nat), NEW t \in Seq(Nat), Counts(s), Counts(t), Len(s) <= Len(t)
  PROVE  t = s \o [i \in 1 .. Len(t) - Len(s) |-> Len(s) + i]
<1> DEFINE rest == [i \in 1 .. Len(t) - Len(s) |-> Len(s) + i]
<1>1. /\ rest \in Seq(Nat)
      /\ Len(rest) = Len(t) - Len(s)
      /\ \A i \in 1 .. Len(rest) : rest[i] = Len(s) + i
  OBVIOUS
<1> HIDE DEF rest
<1>2. /\ s \o rest \in Seq(Nat)
      /\ Len(s \o rest) = Len(t)
      /\ \A i \in 1 .. Len(t) : (s \o rest)[i] = IF i <= Len(s) THEN s[i] ELSE rest[i - Len(s)]
  <2>1. Len(s) + Len(rest) = Len(t)
    BY <1>1
  <2> QED BY <1>1, <2>1, ConcatProperties
<1>3. ASSUME NEW i \in 1 .. Len(t) PROVE (s \o rest)[i] = t[i]
  <2>1. t[i] = i
    BY DEF Counts
  <2>2. i <= Len(s) => s[i] = i
    BY DEF Counts
  <2>3. i > Len(s) => rest[i - Len(s)] = i
    BY <1>1
  <2> QED BY <1>2, <2>1, <2>2, <2>3
<1>4. t = s \o rest
  BY <1>2, <1>3, SeqEqual
<1> QED BY <1>4 DEF rest

\* A sequence that counts, with the numbers behind it appended, counts.
LEMMA ConcatCounts ==
  ASSUME NEW s \in Seq(Nat), NEW t \in Seq(Nat), Counts(s),
         \A i \in 1 .. Len(t) : t[i] = Len(s) + i
  PROVE  s \o t \in Seq(Nat) /\ Len(s \o t) = Len(s) + Len(t) /\ Counts(s \o t)
<1>1. /\ s \o t \in Seq(Nat)
      /\ Len(s \o t) = Len(s) + Len(t)
      /\ \A i \in 1 .. Len(s) + Len(t) : (s \o t)[i] = IF i <= Len(s) THEN s[i] ELSE t[i - Len(s)]
  BY ConcatProperties
<1>2. ASSUME NEW i \in DOMAIN (s \o t) PROVE (s \o t)[i] = i
  <2>1. i \in 1 .. Len(s) + Len(t)
    BY <1>1
  <2>2. i <= Len(s) => s[i] = i
    BY <2>1 DEF Counts
  <2>3. i > Len(s) => t[i - Len(s)] = i
    <3> SUFFICES ASSUME i > Len(s) PROVE t[i - Len(s)] = i
      OBVIOUS
    <3> DEFINE k == i - Len(s)
    <3>1. k \in 1 .. Len(t) /\ Len(s) + k = i
      BY <2>1
    <3> HIDE DEF k
    <3>2. t[k] = i
      BY <3>1
    <3> QED BY <3>2 DEF k
  <2> QED BY <1>1, <2>1, <2>2, <2>3
<1> QED BY <1>1, <1>2 DEF Counts

-----------------------------------------------------------------------------
\* The values of the variables that index the source buffer.
SourceTyped ==
  /\ sourceBuffer \in BufferOf(SourceBufferLength)
  /\ source \in Nat /\ sourceLength \in Nat /\ inPos \in Nat /\ readPosition \in Nat
  /\ source + sourceLength <= SourceBufferLength /\ inPos <= sourceLength

\* The window of the source buffer holds what fread took behind the first
\* taken bytes of the file; the codec has already taken inPos bytes of it.
SourceHolds(taken) ==
  /\ taken + sourceLength = readPosition + inPos
  /\ \A i \in 0 .. sourceLength - 1 : sourceBuffer[source + i] + inPos = taken + i + 1

\* read_more_source keeps the window: what was moved and what fread stored
\* behind it are the bytes that follow those the context has taken.
LEMMA RefilledWindow ==
  ASSUME NEW taken \in Nat, SourceTyped, SourceHolds(taken), inPos = 0,
         NEW count \in Nat, count <= Room
  PROVE  /\ Refilled(count) \in BufferOf(SourceBufferLength)
         /\ \A i \in 0 .. sourceLength + count - 1 :
              Refilled(count)[0 + i] + inPos = taken + i + 1
<1>1. /\ sourceBuffer \in [0 .. SourceBufferLength - 1 -> Nat]
      /\ source \in Nat /\ sourceLength \in Nat /\ readPosition \in Nat
      /\ source + sourceLength <= SourceBufferLength
      /\ sourceLength + count <= SourceBufferLength
      /\ SourceBufferLength \in Nat
      /\ inPos = 0
  BY DEF SourceTyped, BufferOf, Room
<1>2. taken + sourceLength = readPosition + inPos
  BY DEF SourceHolds
<1>3. \A i \in 0 .. sourceLength - 1 : sourceBuffer[source + i] + inPos = taken + i + 1
  BY DEF SourceHolds
<1>4. Refilled(count) \in BufferOf(SourceBufferLength)
  BY <1>1 DEF Refilled, BufferOf
<1>5. ASSUME NEW i \in 0 .. sourceLength + count - 1
      PROVE  Refilled(count)[0 + i] + inPos = taken + i + 1
  <2>1. i \in 0 .. SourceBufferLength - 1 /\ 0 + i = i
    BY <1>1
  <2>2. CASE i < sourceLength
    <3>1. Refilled(count)[i] = sourceBuffer[source + i]
      BY <2>1, <2>2 DEF Refilled
    <3>2. sourceBuffer[source + i] + inPos = taken + i + 1
      BY <1>1, <1>3, <2>1, <2>2
    <3> QED BY <2>1, <3>1, <3>2
  <2>3. CASE i >= sourceLength
    <3>1. Refilled(count)[i] = readPosition + i - sourceLength + 1
      BY <1>1, <2>1, <2>3 DEF Refilled
    <3>2. readPosition + i - sourceLength + 1 + inPos = taken + i + 1
      BY <1>1, <1>2, <2>1
    <3> QED BY <2>1, <3>1, <3>2
  <2> QED BY <1>1, <2>1, <2>2, <2>3
<1> QED BY <1>4, <1>5

\* The input of a codec call is the next bytes of the file, and so is what is
\* left of them in the window when the call has taken some.
LEMMA InputWindow ==
  ASSUME NEW taken \in Nat, SourceTyped, SourceHolds(taken)
  PROVE  /\ Input \in Seq(Nat)
         /\ Len(Input) = sourceLength - inPos
         /\ \A i \in 1 .. Len(Input) : Input[i] = taken + i
<1>1. /\ sourceBuffer \in [0 .. SourceBufferLength - 1 -> Nat]
      /\ source \in Nat /\ sourceLength \in Nat /\ inPos \in Nat
      /\ source + sourceLength <= SourceBufferLength /\ inPos <= sourceLength
  BY DEF SourceTyped, BufferOf
<1>2. \A i \in 0 .. sourceLength - 1 : sourceBuffer[source + i] + inPos = taken + i + 1
  BY DEF SourceHolds
<1> DEFINE n == sourceLength - inPos
<1>3. n \in Nat
  BY <1>1
<1>4. ASSUME NEW i \in 1 .. n
      PROVE  /\ sourceBuffer[source + inPos + i - 1] \in Nat
             /\ sourceBuffer[source + inPos + i - 1] = taken + i
  <2>1. /\ inPos + i - 1 \in 0 .. sourceLength - 1
        /\ source + (inPos + i - 1) = source + inPos + i - 1
        /\ source + inPos + i - 1 \in 0 .. SourceBufferLength - 1
    BY <1>1
  <2>2. sourceBuffer[source + inPos + i - 1] \in Nat
    BY <1>1, <2>1
  <2>3. sourceBuffer[source + (inPos + i - 1)] + inPos = taken + (inPos + i - 1) + 1
    BY <1>2, <2>1
  <2>4. sourceBuffer[source + inPos + i - 1] + inPos = taken + (inPos + i - 1) + 1
    BY <2>1, <2>3
  <2> DEFINE byte == sourceBuffer[source + inPos + i - 1]
  <2>5. byte \in Nat /\ byte + inPos = taken + (inPos + i - 1) + 1
    BY <2>2, <2>4
  <2> HIDE DEF byte
  <2>6. byte = taken + i
    BY <1>1, <2>5
  <2> QED BY <2>5, <2>6 DEF byte
<1>5. Input = [i \in 1 .. n |-> sourceBuffer[source + inPos + i - 1]]
  BY DEF Input
<1> HIDE DEF n
<1>6. Input \in Seq(Nat) /\ Len(Input) = n /\ \A i \in 1 .. n : Input[i] = taken + i
  BY <1>3, <1>4, <1>5
<1> QED BY <1>6 DEF n

-----------------------------------------------------------------------------
\* The destination buffer and the file behind it.
DestinationTyped ==
  /\ destinationBuffer \in BufferOf(DestinationBufferLength)
  /\ destinationLength \in 0 .. DestinationBufferLength
  /\ destination \in Seq(Nat) /\ saved \in Nat

\* The first length bytes of a buffer are those behind the first from ones.
Holds(buffer, from, length) ==
  \A i \in 0 .. length - 1 : buffer[i] = from + i + 1

\* A codec call that stores written bytes extends what the buffer holds.
LEMMA StoredWindow ==
  ASSUME NEW delivered \in Nat, NEW out \in Nat, DestinationTyped,
         delivered + destinationLength = out,
         Holds(destinationBuffer, delivered, destinationLength),
         NEW written \in 0 .. DestinationRoom, Store(out, written)
  PROVE  /\ destinationBuffer' \in BufferOf(DestinationBufferLength)
         /\ destinationLength + written \in 0 .. DestinationBufferLength
         /\ delivered + (destinationLength + written) = out + written
         /\ Holds(destinationBuffer', delivered, destinationLength + written)
<1>1. /\ destinationBuffer \in [0 .. DestinationBufferLength - 1 -> Nat]
      /\ destinationLength \in Nat /\ destinationLength <= DestinationBufferLength
      /\ written \in Nat /\ destinationLength + written <= DestinationBufferLength
  BY DEF DestinationTyped, BufferOf, DestinationRoom
<1>2. destinationBuffer' = [i \in 0 .. DestinationBufferLength - 1 |->
        IF i >= destinationLength /\ i < destinationLength + written
        THEN out + i - destinationLength + 1
        ELSE destinationBuffer[i]]
  BY DEF Store
<1>3. destinationBuffer' \in BufferOf(DestinationBufferLength)
  BY <1>1, <1>2 DEF BufferOf
<1>4. ASSUME NEW i \in 0 .. destinationLength + written - 1
      PROVE  destinationBuffer'[i] = delivered + i + 1
  <2>1. i \in 0 .. DestinationBufferLength - 1
    BY <1>1
  <2>2. CASE i < destinationLength
    <3>1. destinationBuffer'[i] = destinationBuffer[i]
      BY <1>1, <1>2, <2>1, <2>2
    <3> QED BY <1>1, <2>1, <2>2, <3>1 DEF Holds
  <2>3. CASE i >= destinationLength
    <3>1. destinationBuffer'[i] = out + i - destinationLength + 1
      BY <1>1, <1>2, <2>1, <2>3
    <3>2. out + i - destinationLength + 1 = delivered + i + 1
      BY <1>1, <2>1
    <3> QED BY <3>1, <3>2
  <2> QED BY <1>1, <2>1, <2>2, <2>3
<1> QED BY <1>1, <1>3, <1>4 DEF Holds

\* What fwrite accepts from the top of the buffer continues the destination.
LEMMA AcceptedCounts ==
  ASSUME destination \in Seq(Nat), saved \in Nat, Counts(destination),
         destinationBuffer' \in BufferOf(DestinationBufferLength),
         NEW length \in 0 .. DestinationBufferLength,
         Holds(destinationBuffer', Len(destination), length),
         NEW accepted \in 0 .. length, Accepts(accepted)
  PROVE  /\ destination' \in Seq(Nat) /\ saved' \in Nat
         /\ Len(destination') = Len(destination) + accepted
         /\ Counts(destination')
<1> DEFINE staged == Staged(destinationBuffer', accepted)
           delivered == Len(destination)
<1>1. ASSUME NEW i \in 1 .. accepted
      PROVE  destinationBuffer'[i - 1] = delivered + i
  <2>1. i - 1 \in 0 .. length - 1 /\ (i - 1) + 1 = i
    OBVIOUS
  <2>2. delivered \in Nat
    OBVIOUS
  <2>3. destinationBuffer'[i - 1] = delivered + (i - 1) + 1
    BY <2>1 DEF Holds
  <2> HIDE DEF delivered
  <2> QED BY <2>1, <2>2, <2>3
<1>2. staged = [i \in 1 .. accepted |-> destinationBuffer'[i - 1]]
  BY DEF Staged
<1>3. delivered \in Nat /\ accepted \in Nat
  OBVIOUS
<1> HIDE DEF staged, delivered
<1>4. /\ staged \in Seq(Nat) /\ Len(staged) = accepted
      /\ \A i \in 1 .. Len(staged) : staged[i] = delivered + i
  <2>1. \A i \in 1 .. accepted : delivered + i \in Nat
    BY <1>3
  <2> QED BY <1>1, <1>2, <1>3, <2>1
<1>5. /\ destination' = destination \o staged
      /\ saved' \in {saved, Len(destination')}
  BY DEF Accepts, staged
<1>6. /\ destination' \in Seq(Nat) /\ Len(destination') = delivered + Len(staged)
      /\ Counts(destination')
  BY <1>4, <1>5, ConcatCounts DEF delivered
<1> QED BY <1>4, <1>5, <1>6 DEF delivered

\* flush_destination_buffer: an empty buffer and an empty sequence of bytes to
\* deliver, or an error with a prefix of the bytes in the destination.
LEMMA FlushedWindow ==
  ASSUME DestinationTyped, Counts(destination),
         destinationBuffer' \in BufferOf(DestinationBufferLength),
         NEW length \in 0 .. DestinationBufferLength,
         Holds(destinationBuffer', Len(destination), length),
         FlushDestination(length)
  PROVE  /\ destination' \in Seq(Nat) /\ saved' \in Nat
         /\ destinationLength' \in 0 .. DestinationBufferLength
         /\ Counts(destination')
         /\ Len(destination') \in Len(destination) .. Len(destination) + length
         /\ \/ /\ UNCHANGED <<pc, result>>
               /\ destinationLength' = 0 /\ Len(destination') = Len(destination) + length
            \/ /\ pc' = "release"
               /\ result' \in {"NotEnoughDestinationBufferError", "WriteIOError"}
<1>1. /\ destination \in Seq(Nat) /\ saved \in Nat
      /\ Len(destination) \in Nat
  BY DEF DestinationTyped
<1>2. CASE length = 0 /\ Return("NotEnoughDestinationBufferError")
           /\ destinationLength' = length /\ UNCHANGED <<destination, saved>>
  BY <1>1, <1>2 DEF Return
<1>3. CASE Accepts(length) /\ destinationLength' = 0 /\ UNCHANGED <<pc, result>>
  <2>1. /\ destination' \in Seq(Nat) /\ saved' \in Nat
        /\ Len(destination') = Len(destination) + length /\ Counts(destination')
    BY <1>1, <1>3, AcceptedCounts
  <2> QED BY <1>1, <1>3, <2>1
<1>4. ASSUME NEW accepted \in 0 .. length - 1, Accepts(accepted),
             destinationLength' = length, Return("WriteIOError")
      PROVE  /\ destination' \in Seq(Nat) /\ saved' \in Nat
             /\ destinationLength' \in 0 .. DestinationBufferLength
             /\ Counts(destination')
             /\ Len(destination') \in Len(destination) .. Len(destination) + length
             /\ pc' = "release" /\ result' = "WriteIOError"
  <2>1. accepted \in 0 .. length
    OBVIOUS
  <2>2. /\ destination' \in Seq(Nat) /\ saved' \in Nat
        /\ Len(destination') = Len(destination) + accepted /\ Counts(destination')
    BY <1>1, <1>4, <2>1, AcceptedCounts
  <2> QED BY <1>1, <1>4, <2>1, <2>2 DEF Return
<1> QED BY <1>2, <1>3, <1>4 DEF FlushDestination

-----------------------------------------------------------------------------
USE FrameEndsAssumption, ContentAssumption

\* The context takes the bytes of the file in order, each exactly once, and
\* never a byte of the buffer that no fread stored: the memmove, the offsets
\* and the lengths of io.c:83-121 and 495-496 agree with each other.
SourceFaithful ==
  \A i \in DOMAIN dctx.consumed : dctx.consumed[i] = i

\* The destination file is at every moment a prefix of what the context has
\* handed out, whatever flush, failure or interrupt comes (io.c:160-189).
DestinationFaithful ==
  /\ Len(destination) <= dctx.out
  /\ \A i \in DOMAIN destination : destination[i] = i

\* Before the loops nothing has moved.
Untouched ==
  pc \in {"open", "context", "options", "buffers"} =>
    /\ source = 0 /\ sourceLength = 0 /\ inPos = 0 /\ readPosition = 0
    /\ destinationLength = 0 /\ destination = <<>>
    /\ dctx.consumed = <<>> /\ dctx.out = 0

\* The window of the source buffer, from source on, holds the bytes of the
\* file behind those the context had taken when the loop began.
SourceWindow ==
  pc \in {"read", "call"} =>
    /\ Len(dctx.consumed) + sourceLength = readPosition + inPos
    /\ pc = "read" => inPos = 0
    /\ \A i \in 0 .. sourceLength - 1 :
         sourceBuffer[source + i] + inPos = Len(dctx.consumed) + i + 1

\* What the context has handed out is in the file or in the buffer.
DestinationWindow ==
  result = "none" =>
    /\ Len(destination) + destinationLength = dctx.out
    /\ \A i \in 0 .. destinationLength - 1 :
         destinationBuffer[i] = Len(destination) + i + 1

\* The outcome is known when the loops are left.
OutcomeInPlace ==
  /\ result = "none" <=> pc \notin {"release", "fflush", "returned"}
  /\ pc = "fflush" => result = "ok"

\* What every step of io.c:453-531 keeps: no byte is lost, repeated or out of
\* place between the file, the buffers, the context and the destination.
LoopInvariant ==
  /\ SourceFaithful /\ DestinationFaithful
  /\ Untouched /\ SourceWindow /\ DestinationWindow /\ OutcomeInPlace

\* What a step assumes of the state it starts in.
Invariant == TypeOK /\ LoopInvariant


\* The invariant holds in the initial states of io.c:504-518.
LEMMA InitInvariant == Init => Invariant
<1> SUFFICES ASSUME Init PROVE Invariant
  OBVIOUS
<1> USE DEF Init, BufferedIOInit, NewContext
<1>1. TypeOK
  <2>1. dctx \in ContextType
    BY DEF ContextType
  <2>2. /\ sourceBuffer \in BufferOf(SourceBufferLength)
        /\ destinationBuffer \in BufferOf(DestinationBufferLength)
    BY DEF BufferOf
  <2>3. destination \in Seq(Nat)
    OBVIOUS
  <2>4. /\ source \in Nat /\ sourceLength \in Nat /\ inPos \in Nat
        /\ source + sourceLength <= SourceBufferLength /\ inPos <= sourceLength
        /\ destinationLength \in 0 .. DestinationBufferLength
        /\ readPosition \in Nat /\ saved \in Nat
    OBVIOUS
  <2>5. /\ pc = "open" /\ held \subseteq Resources /\ result = "none"
        /\ fileLength \in 0 .. MaxFileLength
        /\ called \in BOOLEAN /\ finished \in BOOLEAN
    OBVIOUS
  <2> HIDE DEF Init, BufferedIOInit, NewContext
  <2> QED BY <2>1, <2>2, <2>3, <2>4, <2>5 DEF TypeOK
<1>2. LoopInvariant
  BY DEF LoopInvariant, SourceFaithful, DestinationFaithful, Untouched, SourceWindow,
         DestinationWindow, OutcomeInPlace
<1> QED BY <1>1, <1>2 DEF Invariant

\* A step that moves no byte: it leaves the file, the buffers, what the context
\* took and handed out and the destination alone.
Still ==
  /\ UNCHANGED <<readPosition, sourceBuffer, source, sourceLength, inPos>>
  /\ UNCHANGED <<destinationBuffer, destinationLength, destination>>
  /\ dctx'.consumed = dctx.consumed /\ dctx'.out = dctx.out

\* A step that moves no byte keeps the loop invariant, when it knows its place.
LEMMA StillInvariant ==
  ASSUME LoopInvariant, Still,
         result' = "none" <=> pc' \notin {"release", "fflush", "returned"},
         pc' = "fflush" => result' = "ok",
         result' = "none" => result = "none",
         pc' \in {"open", "context", "options", "buffers"} =>
           pc \in {"open", "context", "options", "buffers"},
         pc' = "read" => pc \in {"open", "context", "options", "buffers", "read"},
         pc' = "call" => pc \in {"open", "context", "options", "buffers", "read", "call"}
  PROVE  LoopInvariant'
<1> USE DEF Still
<1>1. SourceFaithful' /\ DestinationFaithful'
  BY DEF LoopInvariant, SourceFaithful, DestinationFaithful
<1>2. Untouched'
  BY DEF LoopInvariant, Untouched
<1>3. SourceWindow'
  BY DEF LoopInvariant, Untouched, SourceWindow
<1>4. DestinationWindow'
  BY DEF LoopInvariant, DestinationWindow
<1>5. OutcomeInPlace'
  BY DEF OutcomeInPlace
<1> QED BY <1>1, <1>2, <1>3, <1>4, <1>5 DEF LoopInvariant

\* The steps before the loops keep the invariant (io.c:533-568).
LEMMA StartStep ==
  ASSUME Invariant, Start
  PROVE  Invariant'
<1> USE DEF Invariant
<1> USE DEF fileVars, sourceVars, destinationVars, ioVars, Raise
<1>1. CASE OpenFiles /\ UNCHANGED dctx
  <2>1. TypeOK'
    BY <1>1 DEF OpenFiles, TypeOK, Errors
  <2>2. LoopInvariant'
    BY <1>1, StillInvariant DEF OpenFiles, Still, LoopInvariant, OutcomeInPlace
  <2> QED BY <2>1, <2>2
<1>2. CASE CreateContext /\ UNCHANGED dctx
  <2>1. TypeOK'
    BY <1>2 DEF CreateContext, TypeOK, Errors, Resources
  <2>2. LoopInvariant'
    BY <1>2, StillInvariant DEF CreateContext, Still, LoopInvariant, OutcomeInPlace
  <2> QED BY <2>1, <2>2
<1>3. CASE SetOptions /\ UNCHANGED dctx
  <2>1. TypeOK'
    BY <1>3 DEF SetOptions, OptionErrors, TypeOK, Errors, Resources
  <2>2. LoopInvariant'
    BY <1>3, StillInvariant DEF SetOptions, OptionErrors, Still, LoopInvariant, OutcomeInPlace
  <2> QED BY <2>1, <2>2
<1>4. CASE CreateBuffers /\ UNCHANGED dctx
  <2>1. TypeOK'
    BY <1>4 DEF CreateBuffers, TypeOK, Errors, Resources
  <2>2. LoopInvariant'
    BY <1>4, StillInvariant DEF CreateBuffers, Still, LoopInvariant, OutcomeInPlace
  <2> QED BY <2>1, <2>2
<1> QED BY <1>1, <1>2, <1>3, <1>4 DEF Start

\* What the invariant says of the buffers, in the terms of the lemmas on them.
LEMMA StateFacts ==
  ASSUME Invariant
  PROVE  /\ SourceTyped /\ DestinationTyped
         /\ dctx \in ContextType /\ dctx.consumed \in Seq(Nat)
         /\ Len(dctx.consumed) \in Nat /\ dctx.out \in Nat
         /\ Counts(dctx.consumed) /\ Counts(destination)
         /\ Len(destination) \in Nat /\ Len(destination) <= dctx.out
         /\ pc \in {"read", "call"} => SourceHolds(Len(dctx.consumed))
         /\ result = "none" =>
              /\ Len(destination) + destinationLength = dctx.out
              /\ Holds(destinationBuffer, Len(destination), destinationLength)
<1> USE DEF Invariant
<1>1. SourceTyped
  BY DEF TypeOK, SourceTyped
<1>2. DestinationTyped
  BY DEF TypeOK, DestinationTyped
<1>3. dctx \in ContextType
  BY DEF TypeOK
<1>4. dctx.consumed \in Seq(Nat) /\ dctx.out \in Nat
  BY <1>3 DEF ContextType
<1>5. Counts(dctx.consumed) /\ Counts(destination) /\ Len(destination) <= dctx.out
  BY DEF LoopInvariant, SourceFaithful, DestinationFaithful, Counts
<1>6. Len(destination) \in Nat /\ Len(dctx.consumed) \in Nat
  BY <1>2, <1>4 DEF DestinationTyped
<1>7. pc \in {"read", "call"} => SourceHolds(Len(dctx.consumed))
  BY DEF LoopInvariant, SourceWindow, SourceHolds
<1>8. result = "none" =>
        /\ Len(destination) + destinationLength = dctx.out
        /\ Holds(destinationBuffer, Len(destination), destinationLength)
  BY DEF LoopInvariant, DestinationWindow, Holds
<1> QED BY <1>1, <1>2, <1>3, <1>4, <1>5, <1>6, <1>7, <1>8

\* A turn of the read loop keeps the invariant (read_more_source).
LEMMA ReadStep ==
  ASSUME Invariant, ReadSource
  PROVE  Invariant'
<1> USE DEF Invariant
<1>1. /\ pc = "read" /\ result = "none" /\ inPos = 0
      /\ source' = 0
      /\ HasNoRoom \/ ReadBytes \/ ReadFails \/ ReadFinished("tail")
      /\ UNCHANGED <<held, fileLength, inPos, destinationBuffer, destinationLength,
                     destination, saved, dctx>>
  BY DEF ReadSource, ReadMoreSource, destinationVars, LoopInvariant, OutcomeInPlace, SourceWindow
<1>2. /\ Room \in Nat /\ Unread \in Nat
      /\ sourceLength \in Nat /\ readPosition \in Nat /\ SourceBufferLength \in Nat
      /\ 0 + sourceLength <= SourceBufferLength
      /\ \A count \in Nat : count <= Room => 0 + sourceLength + count <= SourceBufferLength
  BY DEF TypeOK, Room, Unread
<1>3. \E count \in Nat :
        /\ count <= Room
        /\ sourceBuffer' = Refilled(count)
        /\ \/ /\ sourceLength' = sourceLength /\ readPosition' \in Nat
              /\ result' \in Errors /\ result' # "none" /\ result' # "ok" /\ pc' = "release"
              /\ UNCHANGED <<called, finished>>
           \/ /\ sourceLength' = sourceLength + count /\ readPosition' = readPosition + count
              /\ result' = "none"
              /\ pc' \in {"call", "tail"} /\ called' = called /\ finished' \in BOOLEAN
  <2>1. CASE HasNoRoom
    BY <1>1, <1>2, <2>1 DEF HasNoRoom, Return, Errors
  <2>2. CASE ReadBytes
    <3> DEFINE count == IF Room < Unread THEN Room ELSE Unread
    <3>1. count \in Nat /\ count <= Room
      BY <1>2
    <3>2. /\ sourceBuffer' = Refilled(count)
          /\ sourceLength' = sourceLength + count
          /\ readPosition' = readPosition + count
          /\ pc' = "call" /\ result' = "none"
          /\ called' = called /\ finished' \in BOOLEAN
      BY <1>1, <2>2 DEF ReadBytes, TypeOK
    <3> HIDE DEF count
    <3> QED BY <3>1, <3>2
  <2>3. CASE ReadFails
    <3>1. PICK count \in 0 .. Unread :
            /\ count < Room
            /\ sourceBuffer' = Refilled(count)
            /\ readPosition' = readPosition + count
      BY <2>3 DEF ReadFails
    <3> QED BY <1>1, <1>2, <2>3, <3>1 DEF ReadFails, Return, Errors
  <2>4. CASE ReadFinished("tail")
    <3>1. /\ 0 \in Nat /\ 0 <= Room /\ sourceBuffer' = Refilled(0)
          /\ sourceLength' = sourceLength /\ sourceLength' = sourceLength + 0
          /\ readPosition' = readPosition /\ readPosition' = readPosition + 0
          /\ readPosition' \in Nat /\ called' = called /\ called \in BOOLEAN
      BY <1>2, <2>4 DEF ReadFinished, TypeOK
    <3>2. CASE sourceLength # 0
      <4>1. result' = "ReadIOError" /\ pc' = "release" /\ finished' = finished
        BY <2>4, <3>2 DEF ReadFinished, Return
      <4> QED BY <3>1, <4>1 DEF Errors
    <3>3. CASE sourceLength = 0
      <4>1. /\ pc' \in {"call", "tail"} /\ finished' \in BOOLEAN /\ result' = "none"
        BY <1>1, <2>4, <3>1, <3>3 DEF ReadFinished
      <4> QED BY <3>1, <4>1
    <3> QED BY <3>2, <3>3
  <2> QED BY <1>1, <2>1, <2>2, <2>3, <2>4
<1>4. PICK count \in Nat :
        /\ count <= Room
        /\ sourceBuffer' = Refilled(count)
        /\ \/ /\ sourceLength' = sourceLength /\ readPosition' \in Nat
              /\ result' \in Errors /\ result' # "none" /\ result' # "ok" /\ pc' = "release"
              /\ UNCHANGED <<called, finished>>
           \/ /\ sourceLength' = sourceLength + count /\ readPosition' = readPosition + count
              /\ result' = "none"
              /\ pc' \in {"call", "tail"} /\ called' = called /\ finished' \in BOOLEAN
  BY <1>3
<1>5. /\ Refilled(count) \in BufferOf(SourceBufferLength)
      /\ \A i \in 0 .. sourceLength + count - 1 :
           Refilled(count)[0 + i] + inPos = Len(dctx.consumed) + i + 1
  <2> DEFINE taken == Len(dctx.consumed)
  <2>1. taken \in Nat /\ SourceTyped /\ SourceHolds(taken)
    BY <1>1, StateFacts
  <2> HIDE DEF taken
  <2>2. \A i \in 0 .. sourceLength + count - 1 : Refilled(count)[0 + i] + inPos = taken + i + 1
    BY <1>1, <1>4, <2>1, RefilledWindow
  <2>3. Refilled(count) \in BufferOf(SourceBufferLength)
    BY <1>1, <1>4, <2>1, RefilledWindow
  <2> QED BY <2>2, <2>3 DEF taken
<1>6. TypeOK'
  <2>1. /\ sourceLength' \in Nat /\ readPosition' \in Nat /\ source' = 0 /\ inPos' = 0
        /\ source' + sourceLength' <= SourceBufferLength /\ inPos' <= sourceLength'
    BY <1>1, <1>2, <1>4
  <2>2. sourceBuffer' \in BufferOf(SourceBufferLength)
    BY <1>4, <1>5
  <2>3. /\ pc' \in {"call", "tail", "release"} /\ result' \in {"none"} \union Errors
        /\ called' \in BOOLEAN /\ finished' \in BOOLEAN
    BY <1>4 DEF TypeOK
  <2>4. /\ UNCHANGED <<held, fileLength, destinationBuffer, destinationLength, destination,
                       saved, dctx>>
    BY <1>1
  <2> QED BY <2>1, <2>2, <2>3, <2>4 DEF TypeOK
<1>7. LoopInvariant'
  <2>1. SourceFaithful' /\ DestinationFaithful'
    BY <1>1 DEF LoopInvariant, SourceFaithful, DestinationFaithful
  <2>2. Untouched'
    BY <1>4 DEF Untouched
  <2>3. SourceWindow'
    <3> DEFINE taken == Len(dctx.consumed)
    <3>1. taken \in Nat /\ taken + sourceLength = readPosition + inPos
      BY <1>1 DEF TypeOK, ContextType, LoopInvariant, SourceWindow
    <3>2. Len(dctx'.consumed) = taken /\ inPos' = 0 /\ inPos = 0 /\ source' = 0
      BY <1>1
    <3>3. CASE sourceLength' = sourceLength + count /\ readPosition' = readPosition + count
      <4>1. \A i \in 0 .. sourceLength + count - 1 :
              sourceBuffer'[0 + i] + inPos = taken + i + 1
        BY <1>4, <1>5
      <4> HIDE DEF taken
      <4>2. taken + sourceLength' = readPosition' + inPos'
        BY <1>2, <1>4, <3>1, <3>2, <3>3
      <4>3. \A i \in 0 .. sourceLength' - 1 : sourceBuffer'[source' + i] + inPos' = taken + i + 1
        BY <1>2, <3>2, <3>3, <4>1
      <4> QED BY <3>2, <4>2, <4>3 DEF SourceWindow
    <3>4. CASE pc' = "release"
      BY <3>4 DEF SourceWindow
    <3> QED BY <1>4, <3>3, <3>4
  <2>4. DestinationWindow'
    BY <1>1, <1>4 DEF LoopInvariant, DestinationWindow
  <2>5. OutcomeInPlace'
    BY <1>4 DEF OutcomeInPlace
  <2> QED BY <2>1, <2>2, <2>3, <2>4, <2>5 DEF LoopInvariant
<1> QED BY <1>6, <1>7

-----------------------------------------------------------------------------
\* After a codec call, what was stored stays in the buffer or is flushed.
LEMMA DeliveredStep ==
  ASSUME Invariant, result = "none", NEW written \in 0 .. DestinationRoom,
         Store(dctx.out, written), dctx' \in ContextType, dctx'.out = dctx.out + written,
         \/ FlushDestination(destinationLength + written)
         \/ /\ destinationLength' = destinationLength + written
            /\ UNCHANGED <<destination, saved>>
            /\ result' = "none"
  PROVE  /\ DestinationTyped' /\ DestinationFaithful' /\ DestinationWindow'
         /\ Len(destination) <= Len(destination')
         /\ dctx.out <= dctx'.out
<1> DEFINE delivered == Len(destination)
           out == dctx.out
           length == destinationLength + written
<1>1. /\ DestinationTyped /\ out \in Nat /\ delivered \in Nat
      /\ Counts(destination)
      /\ delivered + destinationLength = out
      /\ Holds(destinationBuffer, delivered, destinationLength)
  BY StateFacts
<1>2. Store(out, written)
  OBVIOUS
<1> HIDE DEF out, delivered
<1>3. /\ destinationBuffer' \in BufferOf(DestinationBufferLength)
      /\ length \in 0 .. DestinationBufferLength
      /\ delivered + length = out + written
      /\ Holds(destinationBuffer', delivered, length)
  BY <1>1, <1>2, StoredWindow
<1>4. dctx'.out = out + written /\ out <= dctx'.out /\ written \in Nat
  BY <1>1 DEF out, DestinationRoom, DestinationTyped
<1>5. CASE FlushDestination(length)
  <2> HIDE DEF length
  <2>1. /\ destination' \in Seq(Nat) /\ saved' \in Nat
        /\ destinationLength' \in 0 .. DestinationBufferLength
        /\ Counts(destination')
        /\ Len(destination') \in delivered .. delivered + length
        /\ \/ /\ UNCHANGED <<pc, result>>
              /\ destinationLength' = 0 /\ Len(destination') = delivered + length
           \/ /\ pc' = "release"
              /\ result' \in {"NotEnoughDestinationBufferError", "WriteIOError"}
    BY <1>1, <1>3, <1>5, FlushedWindow DEF delivered
  <2>2. DestinationTyped'
    BY <1>3, <2>1 DEF DestinationTyped
  <2>3. DestinationFaithful'
    BY <1>1, <1>3, <1>4, <2>1 DEF DestinationFaithful, Counts
  <2>4. DestinationWindow'
    <3>1. CASE destinationLength' = 0 /\ Len(destination') = delivered + length
      <4>1. Len(destination') + destinationLength' = dctx'.out
        BY <1>1, <1>3, <1>4, <3>1
      <4> QED BY <3>1, <4>1 DEF DestinationWindow
    <3>2. CASE result' \in {"NotEnoughDestinationBufferError", "WriteIOError"}
      BY <3>2 DEF DestinationWindow
    <3> QED BY <2>1, <3>1, <3>2
  <2>5. delivered <= Len(destination')
    BY <1>1, <1>3, <2>1
  <2> QED BY <1>4, <2>1, <2>2, <2>3, <2>4, <2>5 DEF delivered, out
<1>6. CASE /\ destinationLength' = length
           /\ UNCHANGED <<destination, saved>>
           /\ result' = "none"
  <2>1. DestinationTyped'
    BY <1>1, <1>3, <1>6 DEF DestinationTyped
  <2>2. DestinationFaithful'
    <3>1. Len(destination') = delivered /\ delivered <= dctx'.out
      BY <1>1, <1>3, <1>4, <1>6 DEF delivered
    <3> QED BY <1>1, <1>6, <3>1 DEF DestinationFaithful, Counts
  <2>3. DestinationWindow'
    BY <1>3, <1>4, <1>6 DEF DestinationWindow, Holds, delivered
  <2>4. Len(destination') = delivered /\ delivered <= delivered
    BY <1>1, <1>6 DEF delivered
  <2> QED BY <1>4, <1>6, <2>1, <2>2, <2>3, <2>4 DEF delivered, out
<1> QED BY <1>5, <1>6

\* A step that may move bytes and does not take the call to success.
Advances ==
  /\ result = "none" /\ result' # "ok"
  /\ Len(dctx.consumed) <= Len(dctx'.consumed)
  /\ dctx.out <= dctx'.out
  /\ Len(destination) <= Len(destination')

\* What the context has taken after a call that takes read bytes.
Taken(input, read) == dctx.consumed \o SubSeq(input, 1, read)

\* The bytes a codec call takes continue those the context has.
LEMMA TakenCounts ==
  ASSUME Invariant, pc = "call", NEW read \in 0 .. Len(Input)
  PROVE  /\ Taken(Input, read) \in Seq(Nat)
         /\ Len(Taken(Input, read)) = Len(dctx.consumed) + read
         /\ Counts(Taken(Input, read))
<1> DEFINE consumed == dctx.consumed
           taken == Len(consumed)
           part == SubSeq(Input, 1, read)
<1>1. /\ SourceTyped /\ SourceHolds(taken) /\ taken \in Nat
      /\ consumed \in Seq(Nat) /\ Counts(consumed)
  BY StateFacts
<1> HIDE DEF taken
<1>2. /\ Input \in Seq(Nat)
      /\ \A i \in 1 .. Len(Input) : Input[i] = taken + i
  BY <1>1, InputWindow
<1>3. /\ part \in Seq(Nat) /\ Len(part) = read
      /\ \A i \in 1 .. read : part[i] = Input[i]
  BY <1>2
<1>4. \A i \in 1 .. Len(part) : part[i] = taken + i
  BY <1>2, <1>3
<1> HIDE DEF consumed, part
<1>5. /\ consumed \o part \in Seq(Nat)
      /\ Len(consumed \o part) = Len(consumed) + Len(part)
      /\ Counts(consumed \o part)
  BY <1>1, <1>3, <1>4, ConcatCounts DEF taken
<1> QED BY <1>3, <1>5 DEF Taken, consumed, part

\* A turn of the loop of buffered_decompress keeps the invariant.
LEMMA DecompressCallKeeps ==
  ASSUME Invariant, pc = "call", NEW read \in 0 .. Len(Input), NEW written \in 0 .. DestinationRoom,
         DecompressCall(Input, DestinationRoom, read, written),
         Buffered(read, dctx.out, written, "tail")
  PROVE  Invariant' /\ Advances
<1> DEFINE taken == Len(dctx.consumed)
<1>1. /\ result = "none" /\ SourceTyped /\ SourceHolds(taken) /\ taken \in Nat
      /\ dctx \in ContextType /\ dctx.out \in Nat
  BY StateFacts DEF Invariant, LoopInvariant, OutcomeInPlace
<1>2. Len(Input) = sourceLength - inPos
  <2> HIDE DEF taken
  <2> QED BY <1>1, InputWindow
<1>3. /\ sourceBuffer \in BufferOf(SourceBufferLength)
      /\ source \in Nat /\ sourceLength \in Nat /\ inPos \in Nat /\ readPosition \in Nat
      /\ source + sourceLength <= SourceBufferLength /\ inPos <= sourceLength
      /\ read \in Nat /\ inPos + read <= sourceLength /\ written \in Nat
  BY <1>1, <1>2 DEF SourceTyped, DestinationRoom
<1>4. /\ dctx' \in ContextType /\ dctx'.out = dctx.out + written
      /\ dctx'.consumed = Taken(Input, read)
  <2>1. Taken(Input, read) \in Seq(Nat)
    BY TakenCounts
  <2>2. PICK decoded \in UNION {dctx.decoded .. Content[e] : e \in FrameEnds} :
          dctx' = [dctx EXCEPT !.consumed = @ \o SubSeq(Input, 1, read),
                               !.decoded  = decoded,
                               !.out      = @ + written]
    BY DEF DecompressCall
  <2>3. decoded \in Nat
    BY <1>1, <2>2 DEF ContextType
  <2>4. dctx.out + written \in Nat
    BY <1>1, <1>3
  <2> QED BY <1>1, <2>1, <2>2, <2>3, <2>4 DEF ContextType, Taken
<1>5. Len(dctx'.consumed) = taken + read /\ Counts(dctx'.consumed)
  BY <1>4, TakenCounts
<1>6. /\ Store(dctx.out, written)
      /\ \/ /\ FlushDestination(destinationLength + written)
            /\ inPos' = inPos + read
            /\ UNCHANGED <<source, sourceLength, called>>
         \/ /\ destinationLength' = destinationLength + written
            /\ source' = source + inPos + read
            /\ sourceLength' = sourceLength - (inPos + read)
            /\ inPos' = 0 /\ called' = TRUE
            /\ pc' \in {"tail", "read"} /\ result' = "none"
            /\ UNCHANGED <<destination, saved>>
      /\ UNCHANGED <<held, fileLength, readPosition, sourceBuffer, finished>>
  BY <1>1 DEF Buffered, CallAgain, CallLast, fileVars
<1>7. /\ DestinationTyped' /\ DestinationFaithful' /\ DestinationWindow'
      /\ Len(destination) <= Len(destination')
      /\ dctx.out <= dctx'.out
      /\ \/ UNCHANGED <<pc, result>>
         \/ /\ pc' = "release"
            /\ result' \in {"NotEnoughDestinationBufferError", "WriteIOError"}
         \/ pc' \in {"tail", "read"} /\ result' = "none" /\ inPos' = 0
  <2>1. CASE FlushDestination(destinationLength + written)
    <3>1. \/ UNCHANGED <<pc, result>>
          \/ /\ pc' = "release"
             /\ result' \in {"NotEnoughDestinationBufferError", "WriteIOError"}
      BY <2>1 DEF FlushDestination, Return
    <3> QED BY <1>1, <1>4, <1>6, <2>1, <3>1, DeliveredStep
  <2>2. CASE /\ destinationLength' = destinationLength + written
             /\ pc' \in {"tail", "read"} /\ result' = "none" /\ inPos' = 0
             /\ UNCHANGED <<destination, saved>>
    BY <1>1, <1>4, <1>6, <2>2, DeliveredStep
  <2> QED BY <1>6, <2>1, <2>2
<1>8. \/ /\ inPos' = inPos + read /\ UNCHANGED <<source, sourceLength, called>>
         /\ pc' \in {"call", "release"}
      \/ /\ source' = source + inPos + read
         /\ sourceLength' = sourceLength - (inPos + read)
         /\ inPos' = 0 /\ called' = TRUE
  <2>1. FlushDestination(destinationLength + written) => pc' \in {pc, "release"}
    BY DEF FlushDestination, Return
  <2> QED BY <1>6, <2>1
<1>9. SourceTyped'
  <2>1. UNCHANGED <<sourceBuffer, readPosition>>
    BY <1>6
  <2>2. /\ source' \in Nat /\ sourceLength' \in Nat /\ inPos' \in Nat
        /\ source' + sourceLength' <= SourceBufferLength /\ inPos' <= sourceLength'
    BY <1>3, <1>8
  <2> QED BY <1>3, <2>1, <2>2 DEF SourceTyped
<1>10. SourceWindow'
  <2>1. /\ Len(dctx'.consumed) = taken + read
        /\ taken + sourceLength = readPosition + inPos
        /\ taken \in Nat
        /\ \A i \in 0 .. sourceLength - 1 : sourceBuffer[source + i] + inPos = taken + i + 1
    BY <1>1, <1>5 DEF SourceHolds
  <2> HIDE DEF taken
  <2>2. CASE /\ inPos' = inPos + read /\ UNCHANGED <<source, sourceLength, called>>
             /\ pc' \in {"call", "release"}
    <3>1. taken + read + sourceLength' = readPosition' + inPos'
      BY <1>3, <1>6, <2>1, <2>2
    <3>2. ASSUME NEW i \in 0 .. sourceLength' - 1
          PROVE  sourceBuffer'[source' + i] + inPos' = taken + read + i + 1
      <4> DEFINE byte == sourceBuffer[source + i]
      <4>1. byte + inPos = taken + i + 1
        BY <2>1, <2>2
      <4>2. source + i \in 0 .. SourceBufferLength - 1
        BY <1>3, <2>2
      <4>3. byte \in Nat
        BY <1>3, <4>2 DEF BufferOf
      <4>4. sourceBuffer'[source' + i] = byte
        BY <1>6, <2>2
      <4> HIDE DEF byte
      <4> QED BY <1>3, <2>1, <2>2, <4>1, <4>3, <4>4
    <3> QED BY <2>1, <2>2, <3>1, <3>2 DEF SourceWindow
  <2>3. CASE /\ source' = source + inPos + read
             /\ sourceLength' = sourceLength - (inPos + read)
             /\ inPos' = 0
    <3>1. taken + read + sourceLength' = readPosition' + inPos'
      BY <1>3, <1>6, <2>1, <2>3
    <3>2. ASSUME NEW i \in 0 .. sourceLength' - 1
          PROVE  sourceBuffer'[source' + i] + inPos' = taken + read + i + 1
      <4> DEFINE k == inPos + read + i
                 byte == sourceBuffer[source + k]
      <4>1. k \in 0 .. sourceLength - 1 /\ source + k \in 0 .. SourceBufferLength - 1
        BY <1>3, <2>3
      <4>2. byte + inPos = taken + k + 1
        BY <2>1, <4>1
      <4>3. byte \in Nat
        BY <1>3, <4>1 DEF BufferOf
      <4>4. source' + i = source + k
        BY <1>3, <2>3
      <4>5. sourceBuffer'[source' + i] = byte
        BY <1>6, <4>4
      <4>6. k = inPos + read + i
        OBVIOUS
      <4> HIDE DEF byte, k
      <4> QED BY <1>3, <2>1, <2>3, <4>1, <4>2, <4>3, <4>5, <4>6
    <3> QED BY <2>1, <2>3, <3>1, <3>2 DEF SourceWindow
  <2> QED BY <1>8, <2>2, <2>3
<1>11. TypeOK'
  <2>1. /\ pc' \in {"call", "release", "tail", "read"}
        /\ result' \in {"none"} \union Errors
    BY <1>1, <1>7 DEF Errors
  <2>2. /\ UNCHANGED <<held, fileLength, readPosition, sourceBuffer, finished>>
        /\ called' \in BOOLEAN
    BY <1>6, <1>8 DEF Invariant, TypeOK
  <2> QED BY <1>4, <1>7, <1>9, <2>1, <2>2
          DEF Invariant, TypeOK, SourceTyped, DestinationTyped
<1>12. LoopInvariant'
  <2>1. SourceFaithful'
    BY <1>5 DEF SourceFaithful, Counts
  <2>2. Untouched'
    BY <1>7 DEF Untouched
  <2>3. OutcomeInPlace'
    BY <1>1, <1>7 DEF OutcomeInPlace
  <2> QED BY <1>7, <1>10, <2>1, <2>2, <2>3 DEF LoopInvariant
<1>13. Advances
  <2>1. taken <= Len(dctx'.consumed)
    <3>1. Len(dctx'.consumed) = taken + read /\ taken \in Nat /\ read \in Nat
      BY <1>1, <1>3, <1>5
    <3> HIDE DEF taken
    <3> QED BY <3>1
  <2> QED BY <1>1, <1>7, <2>1 DEF Advances
<1> QED BY <1>11, <1>12, <1>13 DEF Invariant

\* A step that moves no byte; if it gives the call an outcome, it fails.
Rests ==
  /\ dctx'.consumed = dctx.consumed /\ dctx'.out = dctx.out
  /\ UNCHANGED destination
  /\ \/ result' = result
     \/ result = "none" /\ result' \notin {"none", "ok"}

\* A codec call that fails moves nothing and leaves the loops.
LEMMA FailedCall ==
  ASSUME Invariant, pc = "call", UNCHANGED dctx,
         NEW error \in DecompressErrors, CodecFails(error)
  PROVE  Invariant' /\ Rests
<1>1. /\ result = "none" /\ result' = error /\ pc' = "release"
      /\ UNCHANGED <<held, fileLength, readPosition, sourceBuffer, source, sourceLength,
                     inPos, called, finished, destinationBuffer, destinationLength,
                     destination, saved>>
  BY DEF Invariant, LoopInvariant, OutcomeInPlace, CodecFails, Return, fileVars, sourceVars,
         destinationVars
<1>2. TypeOK'
  BY <1>1 DEF Invariant, TypeOK, Errors, DecompressErrors
<1>3. LoopInvariant'
  BY <1>1, StillInvariant DEF Invariant, Still, Errors, DecompressErrors
<1> QED BY <1>1, <1>2, <1>3 DEF Invariant, Rests, DecompressErrors

\* Every outcome of the codec call of buffered_decompress keeps the invariant.
LEMMA DecompressStep ==
  ASSUME Invariant, Decompress
  PROVE  Invariant' /\ (Advances \/ Rests)
<1>1. ASSUME NEW read \in 0 .. Len(Input), NEW written \in 0 .. DestinationRoom,
             DecompressCall(Input, DestinationRoom, read, written),
             Buffered(read, dctx.out, written, "tail")
      PROVE  Invariant' /\ Advances
  BY <1>1, DecompressCallKeeps DEF Decompress
<1>2. ASSUME NEW error \in DecompressErrors, CodecFails(error),
             UNCHANGED dctx
      PROVE  Invariant' /\ Rests
  BY <1>2, FailedCall DEF Decompress
<1> QED BY <1>1, <1>2 DEF Decompress

\* The step that gives the call its outcome when the loops are left.
Settles ==
  /\ result = "none" /\ result' # "none"
  /\ dctx' = dctx
  /\ Len(destination) <= Len(destination') /\ Len(destination') <= dctx.out
  /\ result' = "ok" => Len(destination') = dctx.out

\* write_remaining_destination keeps the invariant, and reports success only
\* when the destination has everything the context handed out.
LEMMA WriteRemainingStep ==
  ASSUME Invariant, WriteRemaining, UNCHANGED dctx
  PROVE  Invariant' /\ Settles
<1> DEFINE delivered == Len(destination)
           out == dctx.out
<1>1. /\ pc = "tail" /\ result = "none" /\ pc' = "release"
      /\ destination \in Seq(Nat) /\ saved \in Nat
      /\ destinationBuffer' = destinationBuffer
      /\ destinationBuffer' \in BufferOf(DestinationBufferLength)
      /\ destinationLength \in 0 .. DestinationBufferLength
      /\ Counts(destination)
      /\ UNCHANGED <<held, fileVars, sourceVars, destinationLength>>
  BY StateFacts DEF Invariant, LoopInvariant, OutcomeInPlace, WriteRemaining, Return,
                    DestinationTyped
<1>2. /\ delivered \in Nat /\ out \in Nat /\ delivered + destinationLength = out
      /\ Holds(destinationBuffer, delivered, destinationLength)
  BY <1>1, StateFacts
<1>3. Holds(destinationBuffer', delivered, destinationLength)
  BY <1>1, <1>2
<1>4. ASSUME NEW accepted \in 0 .. destinationLength, Accepts(accepted)
      PROVE  /\ destination' \in Seq(Nat) /\ saved' \in Nat
             /\ Len(destination') = delivered + accepted /\ Counts(destination')
  BY <1>1, <1>3, <1>4, AcceptedCounts
<1>5. \E accepted \in 0 .. destinationLength :
        /\ destination' \in Seq(Nat) /\ saved' \in Nat
        /\ Len(destination') = delivered + accepted /\ Counts(destination')
        /\ \/ result' = "ok" /\ accepted = destinationLength
           \/ result' = "WriteIOError"
  <2>1. CASE destinationLength = 0 /\ Return("ok") /\ UNCHANGED <<destination, saved>>
    <3>1. 0 \in 0 .. destinationLength /\ Len(destination') = delivered + 0
      BY <1>1, <1>2, <2>1
    <3> QED BY <1>1, <2>1, <3>1 DEF Return
  <2>2. CASE destinationLength > 0 /\ Return("ok") /\ Accepts(destinationLength)
    <3>1. destinationLength \in 0 .. destinationLength
      BY <1>1
    <3> QED BY <1>4, <2>2, <3>1 DEF Return
  <2>3. CASE /\ Return("WriteIOError")
             /\ \E accepted \in 0 .. destinationLength - 1 : Accepts(accepted)
    <3>1. PICK accepted \in 0 .. destinationLength - 1 : Accepts(accepted)
      BY <2>3
    <3>2. accepted \in 0 .. destinationLength
      BY <1>1
    <3> QED BY <1>4, <2>3, <3>1, <3>2 DEF Return
  <2> QED BY <2>1, <2>2, <2>3 DEF WriteRemaining
<1>6. PICK accepted \in 0 .. destinationLength :
        /\ destination' \in Seq(Nat) /\ saved' \in Nat
        /\ Len(destination') = delivered + accepted /\ Counts(destination')
        /\ \/ result' = "ok" /\ accepted = destinationLength
           \/ result' = "WriteIOError"
  BY <1>5
<1> HIDE DEF delivered, out
<1>7. /\ delivered <= Len(destination') /\ Len(destination') <= out
      /\ result' = "ok" => Len(destination') = out
  BY <1>1, <1>2, <1>6
<1>8. TypeOK'
  BY <1>1, <1>6 DEF Invariant, TypeOK, Errors, fileVars, sourceVars
<1>9. LoopInvariant'
  <2>1. SourceFaithful'
    BY DEF Invariant, LoopInvariant, SourceFaithful
  <2>2. DestinationFaithful'
    BY <1>6, <1>7 DEF DestinationFaithful, Counts, out
  <2>3. Untouched' /\ SourceWindow'
    BY <1>1 DEF Untouched, SourceWindow
  <2>4. DestinationWindow'
    BY <1>6 DEF DestinationWindow
  <2>5. OutcomeInPlace'
    BY <1>1, <1>6 DEF OutcomeInPlace
  <2> QED BY <2>1, <2>2, <2>3, <2>4, <2>5 DEF LoopInvariant
<1>10. Settles
  BY <1>1, <1>6, <1>7 DEF Settles, delivered, out
<1> QED BY <1>8, <1>9, <1>10 DEF Invariant

\* The frees, fflush, an interrupt, a change of the file by others and a step
\* after the return keep the invariant.
LEMMA OtherStep ==
  ASSUME Invariant,
         \/ (Release \/ Fflush) /\ UNCHANGED dctx
         \/ Interrupted \/ Changed \/ UNCHANGED vars
  PROVE  Invariant' /\ Rests
<1> USE DEF fileVars, sourceVars, destinationVars, ioVars
<1>1. CASE Release /\ UNCHANGED dctx
  <2>1. TypeOK'
    BY <1>1 DEF Invariant, TypeOK, Release, Resources
  <2>2. LoopInvariant'
    BY <1>1, StillInvariant DEF Invariant, Release, Still, LoopInvariant, OutcomeInPlace
  <2>3. UNCHANGED <<dctx, destination, result>>
    BY <1>1 DEF Release
  <2>4. Rests
    BY <2>3 DEF Rests
  <2> QED BY <2>1, <2>2, <2>4 DEF Invariant
<1>2. CASE Fflush /\ UNCHANGED dctx
  <2>1. saved' \in Nat
    BY <1>2 DEF Invariant, TypeOK, Fflush
  <2>2. TypeOK'
    BY <1>2, <2>1 DEF Invariant, TypeOK, Fflush
  <2>3. LoopInvariant'
    BY <1>2, StillInvariant DEF Invariant, Fflush, Still, LoopInvariant, OutcomeInPlace
  <2>4. UNCHANGED <<dctx, destination, result>>
    BY <1>2 DEF Fflush
  <2>5. Rests
    BY <2>4 DEF Rests
  <2> QED BY <2>2, <2>3, <2>5 DEF Invariant
<1>3. CASE Interrupted
  <2>1. TypeOK'
    BY <1>3 DEF Invariant, TypeOK, Interrupted, Interrupt, Raise, Errors
  <2>2. LoopInvariant'
    BY <1>3, StillInvariant
       DEF Invariant, Interrupted, Interrupt, Raise, Still, LoopInvariant, OutcomeInPlace
  <2> QED BY <1>3, <2>1, <2>2
          DEF Invariant, Interrupted, Interrupt, Raise, Rests, LoopInvariant, OutcomeInPlace
<1>4. CASE Changed
  <2>1. TypeOK'
    BY <1>4 DEF Invariant, TypeOK, Changed, FileChanges
  <2>2. LoopInvariant'
    BY <1>4, StillInvariant DEF Invariant, Changed, FileChanges, Still, LoopInvariant, OutcomeInPlace
  <2>3. UNCHANGED <<dctx, destination, result>>
    BY <1>4 DEF Changed, FileChanges
  <2>4. Rests
    BY <2>3 DEF Rests
  <2> QED BY <2>1, <2>2, <2>4 DEF Invariant
<1>5. CASE UNCHANGED vars
  <2>1. TypeOK'
    BY <1>5 DEF Invariant, TypeOK, vars
  <2>2. LoopInvariant'
    BY <1>5, StillInvariant DEF Invariant, vars, Still, LoopInvariant, OutcomeInPlace
  <2>3. UNCHANGED <<dctx, destination, result>>
    BY <1>5 DEF vars
  <2>4. Rests
    BY <2>3 DEF Rests
  <2> QED BY <2>1, <2>2, <2>4 DEF Invariant
<1> QED BY <1>1, <1>2, <1>3, <1>4, <1>5

\* Up to the loops, and when source is read, no byte reaches the context.
LEMMA RestingStep ==
  ASSUME Invariant, Start \/ ReadSource
  PROVE  Rests
<1> USE DEF fileVars, sourceVars, destinationVars, ioVars, Raise, Return
<1>1. pc \in {"open", "context", "options", "buffers", "read"} => result = "none"
  BY DEF Invariant, LoopInvariant, OutcomeInPlace
<1>2. CASE Start
  BY <1>1, <1>2 DEF Start, OpenFiles, CreateContext, SetOptions, OptionErrors, CreateBuffers, Rests
<1>3. CASE ReadSource
  <2>1. pc = "read" /\ UNCHANGED <<dctx, destination>>
    BY <1>3 DEF ReadSource, ReadMoreSource
  <2>2. \/ result' = result
        \/ result' \notin {"none", "ok"}
    BY <1>3 DEF ReadSource, ReadMoreSource, HasNoRoom, ReadBytes, ReadFails, ReadFinished
  <2> QED BY <1>1, <2>1, <2>2 DEF Rests
<1> QED BY <1>2, <1>3

\* The invariant is inductive, and every step moves bytes, gives the call its
\* outcome or rests.
LEMMA NextStep ==
  ASSUME Invariant, [Next]_vars
  PROVE  Invariant' /\ (Advances \/ Settles \/ Rests)
<1>1. CASE Start
  BY <1>1, StartStep, RestingStep
<1>2. CASE ReadSource
  BY <1>2, ReadStep, RestingStep
<1>3. CASE Decompress
  BY <1>3, DecompressStep
<1>4. CASE Complete
  BY <1>4, WriteRemainingStep, OtherStep DEF Complete
<1>5. CASE Interrupted \/ Changed \/ Done \/ UNCHANGED vars
  BY <1>5, OtherStep DEF Done
<1> QED BY <1>1, <1>2, <1>3, <1>4, <1>5 DEF Next, Program

\* Types and the loop invariant hold in every state the call reaches.
LEMMA Inductive == Spec => []Invariant
<1>1. Init => Invariant
  BY InitInvariant
<1>2. Invariant /\ [Next]_vars => Invariant'
  BY NextStep
<1> QED BY <1>1, <1>2, PTL DEF Spec

\* Every variable of zstds_ext_compress_io keeps its type, and the offsets and
\* lengths into the two buffers stay inside them.
THEOREM TypeCorrect == Spec => []TypeOK
<1>1. Invariant => TypeOK
  BY DEF Invariant
<1> QED BY <1>1, Inductive, PTL

\* No byte is lost, repeated or out of place between the file, the buffers, the
\* context and the destination (io.c:83-189 and 453-531).
THEOREM LoopCorrect == Spec => []LoopInvariant
<1>1. Invariant => LoopInvariant
  BY DEF Invariant
<1> QED BY <1>1, Inductive, PTL

-----------------------------------------------------------------------------
\* A longer sequence that counts extends a shorter one, as Transfer says it.
LEMMA PromiseExtended ==
  ASSUME NEW s \in Seq(Nat), NEW t \in Seq(Nat), Counts(s), Counts(t), Len(s) <= Len(t)
  PROVE  t = Promise!Extended(s, Len(t) - Len(s))
BY ExtendedCounts DEF Promise!Extended

\* A step that moves bytes is a Call of the promise.
LEMMA AdvanceIsCall ==
  ASSUME Invariant, Invariant', Advances
  PROVE  Promise!Call
<1>1. /\ dctx.consumed \in Seq(Nat) /\ dctx'.consumed \in Seq(Nat)
      /\ destination \in Seq(Nat) /\ destination' \in Seq(Nat)
      /\ dctx.out \in Nat /\ dctx'.out \in Nat
      /\ Len(destination') <= dctx'.out
      /\ Counts(dctx.consumed) /\ Counts(dctx'.consumed)
      /\ Counts(destination) /\ Counts(destination')
  BY DEF Invariant, TypeOK, ContextType, LoopInvariant, SourceFaithful, DestinationFaithful,
         Counts
<1>2. /\ result = "none" /\ result' # "ok"
      /\ Len(dctx.consumed) <= Len(dctx'.consumed)
      /\ dctx.out <= dctx'.out
      /\ Len(destination) <= Len(destination')
  BY DEF Advances
<1>3. dctx'.consumed = Promise!Extended(dctx.consumed, Len(dctx'.consumed) - Len(dctx.consumed))
  BY <1>1, <1>2, PromiseExtended
<1>4. destination' = Promise!Extended(destination, Len(destination') - Len(destination))
  BY <1>1, <1>2, PromiseExtended
<1>5. Len(destination') \in Len(destination) .. dctx'.out
  BY <1>1, <1>2
<1>6. dctx'.out >= dctx.out /\ Len(dctx'.consumed) >= Len(dctx.consumed)
  BY <1>1, <1>2
<1>7. (CASE result = "none" -> "running" [] result = "ok" -> "ok" [] OTHER -> "failed")
        = "running"
  BY <1>2
<1>8. (CASE result' = "none" -> "running" [] result' = "ok" -> "ok" [] OTHER -> "failed")
        \in {"running", "failed"}
  <2>1. CASE result' = "none"
    BY <2>1
  <2>2. CASE result' # "none"
    BY <1>2, <2>2
  <2> QED BY <2>1, <2>2
<1> QED BY <1>1, <1>3, <1>4, <1>5, <1>6, <1>7, <1>8 DEF Promise!Call

\* The step that gives the outcome is a Succeed or a Fail of the promise.
LEMMA SettleIsOutcome ==
  ASSUME Invariant, Invariant', Settles
  PROVE  Promise!Succeed \/ Promise!Fail
<1>1. /\ destination \in Seq(Nat) /\ destination' \in Seq(Nat) /\ dctx.out \in Nat
      /\ Counts(destination) /\ Counts(destination')
  BY DEF Invariant, TypeOK, ContextType, LoopInvariant, DestinationFaithful, Counts
<1>2. /\ result = "none" /\ result' # "none" /\ dctx' = dctx
      /\ Len(destination) <= Len(destination') /\ Len(destination') <= dctx.out
      /\ result' = "ok" => Len(destination') = dctx.out
  BY DEF Settles
<1>3. destination' = Promise!Extended(destination, Len(destination') - Len(destination))
  BY <1>1, <1>2, PromiseExtended
<1>4. Len(destination') \in Len(destination) .. dctx.out
  BY <1>1, <1>2
<1>5. CASE result' = "ok"
  BY <1>2, <1>3, <1>5 DEF Promise!Succeed
<1>6. CASE result' # "ok"
  BY <1>2, <1>3, <1>4, <1>6 DEF Promise!Fail
<1> QED BY <1>5, <1>6

\* A step that moves no byte leaves the promise as it is, or fails.
LEMMA RestIsQuiet ==
  ASSUME Invariant, Rests
  PROVE  Promise!Fail \/ UNCHANGED Promise!vars
<1>1. /\ dctx'.consumed = dctx.consumed /\ dctx'.out = dctx.out
      /\ destination' = destination
      /\ destination \in Seq(Nat) /\ dctx.out \in Nat
      /\ Counts(destination) /\ Len(destination) <= dctx.out
  BY DEF Rests, Invariant, TypeOK, ContextType, LoopInvariant, DestinationFaithful, Counts
<1>2. CASE result' = result
  BY <1>1, <1>2 DEF Promise!vars
<1>3. CASE result = "none" /\ result' \notin {"none", "ok"}
  <2>1. destination' = Promise!Extended(destination, Len(destination') - Len(destination))
    BY <1>1, PromiseExtended
  <2>2. Len(destination') \in Len(destination) .. dctx.out
    BY <1>1
  <2> QED BY <1>1, <1>3, <2>1, <2>2 DEF Promise!Fail
<1> QED BY <1>2, <1>3 DEF Rests

\* The loops of io.c keep what Transfer promises the caller of File.decompress.
THEOREM Implements == Spec => KeepsPromise
<1>1. Init => Promise!Init
  BY DEF Init, BufferedIOInit, NewContext, Promise!Init
<1>2. Invariant /\ Invariant' /\ [Next]_vars => [Promise!Next]_Promise!vars
  BY NextStep, AdvanceIsCall, SettleIsOutcome, RestIsQuiet DEF Promise!Next
<1> QED BY <1>1, <1>2, Inductive, PTL DEF Spec, KeepsPromise, Promise!Spec

-----------------------------------------------------------------------------
\* What the call holds at each place, until an interrupt jumps over the frees.
HeldInPlace ==
  /\ pc \in {"open", "context", "fflush"} => held = {}
  /\ pc \in {"options", "buffers"} => held = {"context"}
  /\ pc = "returned" /\ result # "Interrupted" => held = {}

\* Every return but the one of an interrupt has freed what was allocated.
NoLeak == pc = "returned" /\ result # "Interrupted" => held = {}

\* Every way out but the interrupt frees the context and both buffers, whatever
\* allocation or call failed (io.c:54-75, 561-592).
THEOREM NothingLeaks == Spec => []NoLeak
<1>1. Init => HeldInPlace
  BY DEF Init, BufferedIOInit, HeldInPlace
<1>2. Invariant /\ HeldInPlace /\ [Next]_vars => HeldInPlace'
  <2> SUFFICES ASSUME Invariant, HeldInPlace, [Next]_vars PROVE HeldInPlace'
    OBVIOUS
  <2> USE DEF fileVars, sourceVars, destinationVars, ioVars, Raise, Return
  <2>1. /\ result = "none" <=> pc \notin {"release", "fflush", "returned"}
        /\ pc = "fflush" => result = "ok"
        /\ held \subseteq Resources
    BY DEF Invariant, TypeOK, LoopInvariant, OutcomeInPlace
  <2>2. CASE Start
    BY <2>2 DEF Start, OpenFiles, CreateContext, SetOptions, CreateBuffers, HeldInPlace
  <2>3. CASE ReadSource
    <3>1. pc' \in {"call", "tail", "release"}
      BY <2>3 DEF ReadSource, ReadMoreSource, HasNoRoom, ReadBytes, ReadFails, ReadFinished
    <3> QED BY <3>1 DEF HeldInPlace
  <2>4. CASE Decompress
    <3>1. pc' \in {"call", "read", "tail", "release"}
      BY <2>4 DEF Decompress, Buffered, CallAgain, CallLast, FlushDestination, CodecFails
    <3> QED BY <3>1 DEF HeldInPlace
  <2>5. CASE WriteRemaining
    BY <2>5 DEF WriteRemaining, HeldInPlace
  <2>6. CASE Release
    BY <2>1, <2>6 DEF Release, HeldInPlace
  <2>7. CASE Fflush /\ UNCHANGED dctx
    BY <2>7 DEF Fflush, HeldInPlace
  <2>8. CASE Interrupted
    BY <2>8 DEF Interrupted, Interrupt, HeldInPlace
  <2>9. CASE Changed \/ Done \/ UNCHANGED vars
    BY <2>9 DEF Changed, FileChanges, Done, vars, HeldInPlace
  <2> QED BY <2>2, <2>3, <2>4, <2>5, <2>6, <2>7, <2>8, <2>9
          DEF Next, Program, Complete
<1>3. HeldInPlace => NoLeak
  BY DEF HeldInPlace, NoLeak
<1> QED BY <1>1, <1>2, <1>3, Inductive, PTL DEF Spec

-----------------------------------------------------------------------------
\* Everything decoded is handed out.
Drained == dctx.out = dctx.decoded

\* All that was read is inside the context.
AllTaken == sourceLength = 0 /\ Len(dctx.consumed) = readPosition

\* At the end of a frame the content up to there is decoded.
FrameDone ==
  Len(dctx.consumed) \in FrameEnds => dctx.decoded = Content[Len(dctx.consumed)]

\* How much of the archive is through at each place of the call.
WholeInPlace ==
  /\ FrameDone
  /\ pc \in {"open", "context", "options", "buffers", "read"} => Drained /\ ~finished
  /\ pc = "call" /\ finished => sourceLength = 0
  /\ pc = "tail" \/ result = "ok" => AllTaken /\ Drained
  /\ result = "ok" => Len(destination) = dctx.out

\* A codec call drains the context unless it fills the buffer, and decodes all
\* of a frame that it ends.
LEMMA DecompressWhole ==
  ASSUME Invariant, WholeInPlace, Decompress
  PROVE  WholeInPlace'
<1> USE DEF fileVars, sourceVars, destinationVars, ioVars, Return
<1>1. pc = "call" /\ result = "none"
  BY DEF Decompress, Invariant, LoopInvariant, OutcomeInPlace
<1>2. ASSUME NEW read \in 0 .. Len(Input), NEW written \in 0 .. DestinationRoom,
             DecompressCall(Input, DestinationRoom, read, written),
             Buffered(read, dctx.out, written, "tail")
      PROVE  WholeInPlace'
  <2> DEFINE taken == Len(dctx.consumed)
             position == taken + read
  <2>1. /\ SourceTyped /\ SourceHolds(taken) /\ taken \in Nat
        /\ dctx \in ContextType /\ dctx.out \in Nat /\ dctx.decoded \in Nat
    BY <1>1, StateFacts DEF ContextType
  <2>2. Len(Input) = sourceLength - inPos
    <3> HIDE DEF taken
    <3> QED BY <2>1, InputWindow
  <2>3. /\ sourceLength \in Nat /\ inPos \in Nat /\ readPosition \in Nat /\ read \in Nat
        /\ inPos + read <= sourceLength
        /\ taken + sourceLength = readPosition + inPos
    <3> HIDE DEF taken
    <3> QED BY <2>1, <2>2 DEF SourceTyped, SourceHolds
  <2>4. Len(dctx'.consumed) = position
    <3>1. dctx'.consumed = Taken(Input, read)
      BY <1>2, <2>1 DEF DecompressCall, ContextType, Taken
    <3> QED BY <1>1, <3>1, TakenCounts
  <2>5. /\ dctx'.out = dctx.out + written
        /\ position \in FrameEnds => dctx'.decoded = Content[position]
        /\ written # DestinationRoom => dctx'.out = dctx'.decoded
    BY <1>2, <2>1 DEF DecompressCall, ContextType
  <2>6. FrameDone'
    <3> HIDE DEF position
    <3> QED BY <2>4, <2>5 DEF FrameDone
  <2>7. CASE CallAgain(read, dctx.out, written)
    <3>1. /\ pc' \in {"call", "release"} /\ result' # "ok"
          /\ UNCHANGED <<sourceLength, finished>>
      BY <1>1, <1>2, <2>7 DEF Buffered, CallAgain, FlushDestination
    <3> QED BY <1>1, <2>6, <3>1 DEF WholeInPlace
  <2>8. CASE /\ destinationLength + written # DestinationBufferLength
             /\ CallLast(read, dctx.out, written, IF finished THEN "tail" ELSE "read")
    <3>1. /\ pc' = IF finished THEN "tail" ELSE "read"
          /\ sourceLength' = sourceLength - (inPos + read)
          /\ UNCHANGED <<result, finished, readPosition>>
      BY <1>2, <2>8 DEF CallLast, Buffered
    <3>2. Drained'
      <4>1. destinationLength \in Nat /\ DestinationBufferLength \in Nat /\ written \in Nat
        BY DEF Invariant, TypeOK, DestinationRoom
      <4>2. written # DestinationRoom
        BY <2>8, <4>1 DEF DestinationRoom
      <4> QED BY <2>5, <4>2 DEF Drained
    <3>3. finished => AllTaken'
      <4> SUFFICES ASSUME finished PROVE AllTaken'
        OBVIOUS
      <4>1. sourceLength = 0
        BY <1>1 DEF WholeInPlace
      <4> HIDE DEF taken
      <4>2. sourceLength' = 0 /\ position = readPosition
        BY <2>1, <2>3, <3>1, <4>1
      <4> HIDE DEF position
      <4> QED BY <2>4, <3>1, <4>2 DEF AllTaken
    <3>4. finished \in BOOLEAN
      BY DEF Invariant, TypeOK
    <3>5. CASE finished
      BY <1>1, <2>6, <3>1, <3>2, <3>3, <3>5 DEF WholeInPlace
    <3>6. CASE ~finished
      BY <1>1, <2>6, <3>1, <3>2, <3>6 DEF WholeInPlace
    <3> QED BY <3>5, <3>6
  <2> QED BY <1>2, <2>7, <2>8 DEF Buffered
<1>3. ASSUME NEW error \in DecompressErrors,
             CodecFails(error), UNCHANGED dctx
      PROVE  WholeInPlace'
  BY <1>3 DEF CodecFails, WholeInPlace, FrameDone, DecompressErrors
<1> QED BY <1>2, <1>3 DEF Decompress

\* Success means that the context took all that was read and the destination
\* has all that was decoded, and that this is the whole content if the archive
\* was whole (io.c:123-154, 504-531).
THEOREM SuccessIsWhole == Spec => []OkMeansWhole
<1>1. Init => WholeInPlace
  <2> SUFFICES ASSUME Init PROVE WholeInPlace
    OBVIOUS
  <2>1. /\ pc = "open" /\ result = "none" /\ ~finished
        /\ dctx.consumed = <<>> /\ dctx.decoded = 0 /\ dctx.out = 0
    BY DEF Init, BufferedIOInit, NewContext
  <2>2. Len(dctx.consumed) \notin FrameEnds
    BY <2>1
  <2> QED BY <2>1, <2>2 DEF WholeInPlace, FrameDone, Drained
<1>2. Invariant /\ WholeInPlace /\ [Next]_vars => WholeInPlace'
  <2> SUFFICES ASSUME Invariant, WholeInPlace, [Next]_vars PROVE WholeInPlace'
    OBVIOUS
  <2> USE DEF fileVars, sourceVars, destinationVars, ioVars, Raise, Return
  <2>1. result = "none" <=> pc \notin {"release", "fflush", "returned"}
    BY DEF Invariant, LoopInvariant, OutcomeInPlace
  <2>2. CASE Start
    BY <2>1, <2>2 DEF Start, OpenFiles, CreateContext, SetOptions, OptionErrors, CreateBuffers,
                      WholeInPlace, FrameDone, Drained
  <2>3. CASE ReadSource
    <3>1. /\ pc = "read" /\ result = "none" /\ UNCHANGED <<dctx, destination>>
          /\ Drained /\ ~finished
      BY <2>1, <2>3 DEF ReadSource, ReadMoreSource, WholeInPlace
    <3>2. \/ pc' = "release" /\ result' # "ok"
          \/ pc' = "call" /\ result' # "ok" /\ ~finished'
          \/ /\ sourceLength = 0 /\ pc' \in {"call", "tail"} /\ result' # "ok"
             /\ UNCHANGED <<sourceLength, readPosition>>
      BY <2>1, <2>3, <3>1
         DEF ReadSource, ReadMoreSource, HasNoRoom, ReadBytes, ReadFails, ReadFinished
    <3>3. sourceLength = 0 => AllTaken
      <4> DEFINE taken == Len(dctx.consumed)
      <4>1. /\ taken + sourceLength = readPosition + inPos /\ inPos = 0
            /\ taken \in Nat /\ readPosition \in Nat
        BY <3>1, StateFacts DEF Invariant, LoopInvariant, SourceWindow, TypeOK
      <4> HIDE DEF taken
      <4>2. sourceLength = 0 => taken = readPosition
        BY <4>1
      <4> QED BY <4>2 DEF AllTaken, taken
    <3> QED BY <3>1, <3>2, <3>3 DEF WholeInPlace, FrameDone, Drained, AllTaken
  <2>4. CASE Decompress
    BY <2>4, DecompressWhole
  <2>5. CASE WriteRemaining /\ UNCHANGED dctx
    <3>1. Settles
      BY <2>5, WriteRemainingStep
    <3>2. pc' = "release" /\ pc = "tail" /\ UNCHANGED <<sourceLength, readPosition, dctx>>
      BY <2>5 DEF WriteRemaining
    <3> QED BY <3>1, <3>2 DEF Settles, WholeInPlace, FrameDone, Drained, AllTaken
  <2>6. CASE (Release \/ Fflush) /\ UNCHANGED dctx
    <3>1. /\ pc' \in {"fflush", "returned"}
          /\ UNCHANGED <<result, destination, sourceLength, readPosition, dctx>>
      BY <2>6 DEF Release, Fflush
    <3> QED BY <3>1 DEF WholeInPlace, FrameDone, Drained, AllTaken
  <2>7. CASE Interrupted
    BY <2>7 DEF Interrupted, Interrupt, WholeInPlace, FrameDone
  <2>8. CASE Changed \/ Done \/ UNCHANGED vars
    BY <2>8 DEF Changed, FileChanges, Done, vars, WholeInPlace, FrameDone, Drained, AllTaken
  <2> QED BY <2>2, <2>3, <2>4, <2>5, <2>6, <2>7, <2>8 DEF Next, Program, Complete
<1>3. WholeInPlace => OkMeansWhole
  BY DEF WholeInPlace, AllTaken, Drained, FrameDone, OkMeansWhole
<1> QED BY <1>1, <1>2, <1>3, Inductive, PTL DEF Spec

-----------------------------------------------------------------------------
\* Whenever read_more_source is called the source buffer has room, and neither
\* error of a buffer too small has happened.
RoomToRead ==
  /\ pc \in {"open", "context", "options", "buffers", "read"} =>
       sourceLength < SourceBufferLength
  /\ BuffersSuffice

\* A codec call that leaves the destination buffer full is flushed, and the
\* buffer has at least a byte; one that does not has taken some of the source,
\* or all that was left of it.
LEMMA DecompressRoom ==
  ASSUME Invariant, RoomToRead, Decompress
  PROVE  RoomToRead'
<1> USE DEF fileVars, sourceVars, destinationVars, ioVars, Return
<1>1. pc = "call" /\ result = "none"
  BY DEF Decompress, Invariant, LoopInvariant, OutcomeInPlace
<1>2. ASSUME NEW read \in 0 .. Len(Input), NEW written \in 0 .. DestinationRoom,
             DecompressCall(Input, DestinationRoom, read, written),
             Buffered(read, dctx.out, written, "tail")
      PROVE  RoomToRead'
  <2> DEFINE taken == Len(dctx.consumed)
  <2>1. SourceTyped /\ DestinationTyped /\ SourceHolds(taken) /\ taken \in Nat
    BY <1>1, StateFacts
  <2>2. Len(Input) = sourceLength - inPos
    <3> HIDE DEF taken
    <3> QED BY <2>1, InputWindow
  <2>3. /\ sourceLength \in Nat /\ inPos \in Nat /\ read \in Nat
        /\ inPos + read <= sourceLength /\ sourceLength <= SourceBufferLength
    <3> HIDE DEF taken
    <3> QED BY <2>1, <2>2 DEF SourceTyped
  <2>4. destinationLength \in Nat /\ written \in Nat
    BY <2>1 DEF DestinationTyped, DestinationRoom
  <2>5. CASE /\ destinationLength + written = DestinationBufferLength
             /\ CallAgain(read, dctx.out, written)
    <3>1. FlushDestination(destinationLength + written) /\ destinationLength + written > 0
      BY <2>4, <2>5 DEF CallAgain
    <3>2. /\ pc' \in {"call", "release"}
          /\ result' \in {"none", "WriteIOError"}
      BY <1>1, <3>1 DEF FlushDestination
    <3> QED BY <3>2 DEF RoomToRead, BuffersSuffice
  <2>6. CASE /\ destinationLength + written # DestinationBufferLength
             /\ CallLast(read, dctx.out, written, IF finished THEN "tail" ELSE "read")
    <3>1. sourceLength' = sourceLength - (inPos + read) /\ result' = result
      BY <2>6 DEF CallLast
    <3>2. read = Len(Input) \/ read > 0
      <4>1. written # DestinationRoom
        BY <2>4, <2>6 DEF DestinationRoom
      <4> QED BY <1>2, <4>1 DEF DecompressCall
    <3>3. sourceLength' < SourceBufferLength
      BY <2>2, <2>3, <3>1, <3>2
    <3> QED BY <3>1, <3>3 DEF RoomToRead, BuffersSuffice
  <2> QED BY <1>2, <2>5, <2>6 DEF Buffered
<1>3. ASSUME NEW error \in DecompressErrors,
             CodecFails(error)
      PROVE  RoomToRead'
  BY <1>3 DEF CodecFails, RoomToRead, BuffersSuffice, DecompressErrors
<1> QED BY <1>2, <1>3 DEF Decompress

\* Buffers of any length of at least a byte suffice for any archive, wherever
\* its frames end and whatever fails (io.c:102, 167).
THEOREM SmallBuffersSuffice == Spec => []BuffersSuffice
<1>1. Init => RoomToRead
  BY DEF Init, BufferedIOInit, RoomToRead, BuffersSuffice
<1>2. Invariant /\ RoomToRead /\ [Next]_vars => RoomToRead'
  <2> SUFFICES ASSUME Invariant, RoomToRead, [Next]_vars PROVE RoomToRead'
    OBVIOUS
  <2> USE DEF fileVars, sourceVars, destinationVars, ioVars, Raise, Return
  <2>1. CASE Start
    BY <2>1 DEF Start, OpenFiles, CreateContext, SetOptions, OptionErrors, CreateBuffers,
                RoomToRead, BuffersSuffice
  <2>2. CASE ReadSource
    <3>1. Room # 0
      BY <2>2 DEF ReadSource, ReadMoreSource, RoomToRead, Room, Invariant, TypeOK
    <3>2. /\ pc' \in {"call", "tail", "release"}
          /\ result' \in {result, "ReadIOError"}
      BY <2>2, <3>1
         DEF ReadSource, ReadMoreSource, HasNoRoom, ReadBytes, ReadFails, ReadFinished
    <3> QED BY <3>2 DEF RoomToRead, BuffersSuffice
  <2>3. CASE Decompress
    BY <2>3, DecompressRoom
  <2>4. CASE WriteRemaining
    BY <2>4 DEF WriteRemaining, RoomToRead, BuffersSuffice
  <2>5. CASE Release \/ Fflush
    BY <2>5 DEF Release, Fflush, RoomToRead, BuffersSuffice
  <2>6. CASE Interrupted
    BY <2>6 DEF Interrupted, Interrupt, RoomToRead, BuffersSuffice
  <2>7. CASE Changed \/ Done \/ UNCHANGED vars
    BY <2>7 DEF Changed, FileChanges, Done, vars, RoomToRead, BuffersSuffice
  <2> QED BY <2>1, <2>2, <2>3, <2>4, <2>5, <2>6, <2>7 DEF Next, Program, Complete
<1>3. RoomToRead => BuffersSuffice
  BY DEF RoomToRead
<1> QED BY <1>1, <1>2, <1>3, Inductive, PTL DEF Spec

-----------------------------------------------------------------------------
\* An archive of whole frames that the file is, or is the beginning of.
WholeArchive == CHOOSE e \in FrameEnds : MaxFileLength <= e

\* It exists and has a content.
LEMMA WholeArchiveFacts ==
  /\ WholeArchive \in FrameEnds /\ MaxFileLength <= WholeArchive
  /\ Content[WholeArchive] \in Nat
<1>1. WholeArchive \in FrameEnds /\ MaxFileLength <= WholeArchive
  BY ArchiveAssumption DEF WholeArchive
<1> QED BY <1>1

\* The places of the call in the order in which they are met at last.
Place ==
  CASE pc = "open"     -> 9
    [] pc = "context"  -> 8
    [] pc = "options"  -> 7
    [] pc = "buffers"  -> 6
    [] pc = "call"     -> 5
    [] pc = "read"     -> 4
    [] pc = "tail"     -> 3
    [] pc = "release"  -> 2
    [] pc = "fflush"   -> 1
    [] pc = "returned" -> 0

\* What the loops can still do: fread a byte, make the one call of an empty
\* file, hand out a byte.
LoopsLeft ==
  2 * (MaxFileLength - readPosition) + (IF finished THEN 0 ELSE 2)
    + (Content[WholeArchive] - dctx.out)

\* A bound on the steps the call can still take.
StepsLeft == LoopsLeft + Place

\* The loops stay within the file and the archive, the extra call is made only
\* at the end, and no codec call begins with a full destination buffer.
WithinBounds ==
  /\ readPosition <= MaxFileLength
  /\ dctx.out <= Content[WholeArchive]
  /\ pc \in {"open", "context", "options", "buffers", "read"} => ~finished
  /\ pc \in {"open", "context", "options", "buffers", "read", "call"} =>
       destinationLength < DestinationBufferLength

\* The bound is a number.
LEMMA StepsAreNumber ==
  ASSUME Invariant, WithinBounds
  PROVE  StepsLeft \in Nat /\ LoopsLeft \in Nat /\ Place \in 0 .. 9
<1>1. /\ readPosition \in Nat /\ dctx.out \in Nat /\ MaxFileLength \in Nat
      /\ Content[WholeArchive] \in Nat
      /\ readPosition <= MaxFileLength /\ dctx.out <= Content[WholeArchive]
  BY StateFacts, WholeArchiveFacts DEF Invariant, TypeOK, WithinBounds
<1>2. Place \in 0 .. 9
  BY DEF Invariant, TypeOK, Place
<1>3. LoopsLeft \in Nat
  BY <1>1 DEF LoopsLeft
<1> QED BY <1>2, <1>3 DEF StepsLeft

\* A step that spends more in the loops than it goes back.
LEMMA FewerSteps ==
  ASSUME LoopsLeft \in Nat, LoopsLeft' \in Nat, Place \in Nat, Place' \in Nat,
         NEW spent \in Nat, LoopsLeft' + spent = LoopsLeft, Place' < Place + spent
  PROVE  StepsLeft' < StepsLeft
<1> DEFINE a == LoopsLeft
           b == LoopsLeft'
           p == Place
           q == Place'
<1>1. /\ a \in Nat /\ b \in Nat /\ p \in Nat /\ q \in Nat
      /\ b + spent = a /\ q < p + spent
  OBVIOUS
<1>2. StepsLeft = a + p /\ StepsLeft' = b + q
  BY DEF StepsLeft
<1> HIDE DEF a, b, p, q
<1>3. b + q < a + p
  BY <1>1
<1> QED BY <1>2, <1>3

\* A step that leaves the loops alone and goes to a later place.
LEMMA LaterPlace ==
  ASSUME Invariant, WithinBounds,
         UNCHANGED <<readPosition, finished, dctx>>,
         Place' \in Nat, Place' < Place
  PROVE  StepsLeft' < StepsLeft
<1>1. LoopsLeft' = LoopsLeft
  BY DEF LoopsLeft
<1>2. LoopsLeft \in Nat /\ Place \in Nat
  BY StepsAreNumber
<1> HIDE DEF LoopsLeft, Place
<1>3. LoopsLeft' + 0 = LoopsLeft /\ Place' < Place + 0
  BY <1>1, <1>2
<1> QED BY <1>1, <1>2, <1>3, FewerSteps

\* fread takes at least a byte, or the end of the file is noticed.
LEMMA ReadCosts ==
  ASSUME Invariant, WithinBounds, ReadSource
  PROVE  WithinBounds' /\ StepsLeft' < StepsLeft
<1> USE DEF fileVars, sourceVars, destinationVars, ioVars, Return
<1>1. /\ pc = "read" /\ ~finished /\ finished \in BOOLEAN /\ called \in BOOLEAN
      /\ UNCHANGED <<dctx, destinationLength>>
      /\ fileLength \in Nat /\ fileLength <= MaxFileLength
      /\ readPosition \in Nat /\ readPosition <= MaxFileLength
      /\ MaxFileLength \in Nat
      /\ destinationLength < DestinationBufferLength
  BY DEF ReadSource, ReadMoreSource, WithinBounds, Invariant, TypeOK
<1>2. Unread \in Nat /\ (Unread > 0 => readPosition + Unread <= MaxFileLength)
  BY <1>1 DEF Unread
<1>3. Room \in Nat
  BY DEF Invariant, TypeOK, Room
<1>4. \/ /\ pc' \in {"release", "tail"} /\ readPosition' \in readPosition .. MaxFileLength
         /\ ~finished'
      \/ pc' = "call" /\ readPosition' \in readPosition + 1 .. MaxFileLength /\ ~finished'
      \/ pc' = "call" /\ readPosition' = readPosition /\ finished'
  <2> HIDE DEF Unread, Room
  <2>1. CASE HasNoRoom
    BY <1>1, <2>1 DEF HasNoRoom
  <2>2. CASE ReadBytes
    <3>1. PICK count \in Nat : count > 0 /\ count <= Unread /\ readPosition' = readPosition + count
      BY <1>2, <1>3, <2>2 DEF ReadBytes
    <3> QED BY <1>1, <1>2, <2>2, <3>1 DEF ReadBytes
  <2>3. CASE ReadFails
    <3>1. PICK count \in 0 .. Unread : readPosition' = readPosition + count
      BY <2>3 DEF ReadFails
    <3> QED BY <1>1, <1>2, <2>3, <3>1 DEF ReadFails
  <2>4. CASE ReadFinished("tail")
    <3>1. readPosition' = readPosition /\ readPosition' \in readPosition .. MaxFileLength
      BY <1>1, <2>4 DEF ReadFinished
    <3>2. \/ pc' = "release" /\ UNCHANGED finished
          \/ called /\ pc' = "tail" /\ finished' = ~called
          \/ ~called /\ pc' = "call" /\ finished' = ~called
      BY <2>4 DEF ReadFinished
    <3> QED BY <1>1, <3>1, <3>2
  <2> QED BY <2>1, <2>2, <2>3, <2>4 DEF ReadSource, ReadMoreSource
<1>5. WithinBounds'
  BY <1>1, <1>4 DEF WithinBounds
<1> DEFINE left == Content[WholeArchive] - dctx.out
<1>6. /\ left \in Nat /\ left' = left
  BY <1>1, StateFacts, WholeArchiveFacts DEF WithinBounds
<1> HIDE DEF left
<1>7. /\ LoopsLeft = 2 * (MaxFileLength - readPosition) + 2 + left
      /\ LoopsLeft' = 2 * (MaxFileLength - readPosition') + (IF finished' THEN 0 ELSE 2) + left
  BY <1>1, <1>6 DEF LoopsLeft, left
<1>8. /\ Place = 4
      /\ pc' = "call" => Place' = 5
      /\ pc' = "tail" => Place' = 3
      /\ pc' = "release" => Place' = 2
  BY <1>1 DEF Place
<1> HIDE DEF LoopsLeft, Place
<1>9. StepsLeft' < StepsLeft
  BY <1>1, <1>4, <1>6, <1>7, <1>8 DEF StepsLeft
<1> QED BY <1>5, <1>9

\* A call that is to be repeated has handed out a byte.
LEMMA DecompressCosts ==
  ASSUME Invariant, WithinBounds, Decompress
  PROVE  WithinBounds' /\ StepsLeft' < StepsLeft
<1> USE DEF fileVars, sourceVars, destinationVars, ioVars, Return
<1>1. /\ pc = "call" /\ finished \in BOOLEAN /\ readPosition <= MaxFileLength
      /\ destinationLength < DestinationBufferLength
      /\ destinationLength \in Nat /\ DestinationBufferLength \in Nat
  BY DEF Decompress, WithinBounds, Invariant, TypeOK
<1>2. UNCHANGED <<readPosition, finished>>
  BY DEF Decompress, Buffered, CallAgain, CallLast, CodecFails
<1>3. ASSUME NEW read \in 0 .. Len(Input), NEW written \in 0 .. DestinationRoom,
             DecompressCall(Input, DestinationRoom, read, written),
             Buffered(read, dctx.out, written, "tail")
      PROVE  WithinBounds' /\ StepsLeft' < StepsLeft
  <2> DEFINE taken == Len(dctx.consumed)
             position == taken + read
             all == Content[WholeArchive]
  <2>1. /\ SourceTyped /\ SourceHolds(taken) /\ taken \in Nat
        /\ dctx \in ContextType /\ dctx.out \in Nat
    BY <1>1, StateFacts
  <2>2. Len(Input) = sourceLength - inPos
    <3> HIDE DEF taken
    <3> QED BY <2>1, InputWindow
  <2>3. position \in Nat /\ position <= WholeArchive
    <3> HIDE DEF taken
    <3>1. WholeArchive \in Nat /\ MaxFileLength <= WholeArchive
      BY WholeArchiveFacts
    <3> QED BY <1>1, <2>1, <2>2, <3>1 DEF SourceTyped, SourceHolds
  <2>4. dctx.out + written <= all /\ dctx'.out = dctx.out + written
    <3>1. PICK decoded \in UNION {dctx.decoded .. Content[e] : e \in FrameEnds} :
            /\ \A e \in FrameEnds : position <= e => decoded <= Content[e]
            /\ dctx.out + written <= decoded
            /\ dctx' = [dctx EXCEPT
                 !.consumed = @ \o SubSeq(Input, 1, read),
                 !.decoded  = decoded,
                 !.out      = @ + written]
      BY <1>3 DEF DecompressCall
    <3>2. decoded <= all
      <4> HIDE DEF position
      <4> QED BY <2>3, <3>1, WholeArchiveFacts
    <3>3. decoded \in Nat
      BY <2>1, <3>1, ContentAssumption DEF ContextType
    <3>4. dctx'.out = dctx.out + written
      BY <2>1, <3>1 DEF ContextType
    <3>5. all \in Nat /\ written \in Nat
      BY <1>1, WholeArchiveFacts DEF DestinationRoom
    <3> HIDE DEF all
    <3> QED BY <2>1, <3>1, <3>2, <3>3, <3>4, <3>5
  <2>5. written \in Nat /\ destinationLength + written <= DestinationBufferLength
    BY <1>1 DEF DestinationRoom
  <2>6. LoopsLeft \in Nat /\ LoopsLeft' \in Nat /\ LoopsLeft' + written = LoopsLeft
    <3> DEFINE rest == 2 * (MaxFileLength - readPosition) + (IF finished THEN 0 ELSE 2)
               out  == dctx.out
               next == dctx'.out
    <3>1. rest \in Nat /\ all \in Nat
      BY <1>1, WholeArchiveFacts DEF Invariant, TypeOK
    <3>2. LoopsLeft = rest + (all - out) /\ LoopsLeft' = rest + (all - next)
      BY <1>2 DEF LoopsLeft
    <3>3. out \in Nat /\ next = out + written /\ next <= all
      BY <2>1, <2>4
    <3> HIDE DEF all, rest, out, next, LoopsLeft
    <3>4. rest + (all - out) \in Nat /\ rest + (all - next) \in Nat
      BY <2>5, <3>1, <3>3
    <3>5. rest + (all - next) + written = rest + (all - out)
      BY <2>5, <3>1, <3>3
    <3> QED BY <3>2, <3>4, <3>5
  <2>7. CASE /\ destinationLength + written = DestinationBufferLength
             /\ CallAgain(read, dctx.out, written)
    <3>1. written > 0
      BY <1>1, <2>5, <2>7
    <3>2. \/ pc' = "call" /\ destinationLength' = 0
          \/ pc' = "release"
      BY <1>1, <2>7 DEF CallAgain, FlushDestination
    <3>3. WithinBounds'
      BY <1>1, <1>2, <2>4, <3>2, DestinationBufferAssumption DEF WithinBounds
    <3>4. Place = 5 /\ Place' \in {2, 5}
      BY <1>1, <3>2 DEF Place
    <3> HIDE DEF LoopsLeft, Place
    <3>5. StepsLeft' < StepsLeft
      <4>1. Place \in Nat /\ Place' \in Nat /\ Place' < Place + written
        BY <2>5, <3>1, <3>4
      <4> QED BY <2>5, <2>6, <4>1, FewerSteps
    <3> QED BY <3>3, <3>5
  <2>8. CASE /\ destinationLength + written # DestinationBufferLength
             /\ CallLast(read, dctx.out, written, IF finished THEN "tail" ELSE "read")
    <3>1. /\ pc' = IF finished THEN "tail" ELSE "read"
          /\ destinationLength' = destinationLength + written
      BY <2>8 DEF CallLast
    <3>2. destinationLength' < DestinationBufferLength
      BY <1>1, <2>5, <2>8, <3>1
    <3>3. WithinBounds'
      BY <1>1, <1>2, <2>4, <3>1, <3>2 DEF WithinBounds
    <3>4. Place = 5 /\ Place' \in {3, 4}
      BY <1>1, <3>1 DEF Place
    <3> HIDE DEF LoopsLeft, Place
    <3>5. StepsLeft' < StepsLeft
      <4>1. Place \in Nat /\ Place' \in Nat /\ Place' < Place + written
        BY <2>5, <3>4
      <4> QED BY <2>5, <2>6, <4>1, FewerSteps
    <3> QED BY <3>3, <3>5
  <2> QED BY <1>3, <2>7, <2>8 DEF Buffered
<1>4. ASSUME NEW error \in DecompressErrors,
             CodecFails(error), UNCHANGED dctx
      PROVE  WithinBounds' /\ StepsLeft' < StepsLeft
  <2>1. pc' = "release" /\ UNCHANGED <<readPosition, finished, dctx>>
    BY <1>4 DEF CodecFails
  <2>2. WithinBounds'
    BY <2>1 DEF WithinBounds
  <2>3. Place = 5 /\ Place' = 2
    BY <1>1, <2>1 DEF Place
  <2>4. StepsLeft' < StepsLeft
    <3> HIDE DEF Place
    <3> QED BY <2>1, <2>3, LaterPlace
  <2> QED BY <2>2, <2>4
<1> QED BY <1>3, <1>4 DEF Decompress

\* Every other step of the call goes to a later place.
LEMMA OtherCosts ==
  ASSUME Invariant, WithinBounds,
         Start \/ ((WriteRemaining \/ Release \/ Fflush) /\ UNCHANGED dctx) \/ Interrupted
  PROVE  WithinBounds' /\ StepsLeft' < StepsLeft
<1> USE DEF fileVars, sourceVars, destinationVars, ioVars, Raise, Return
<1>1. UNCHANGED <<readPosition, finished, dctx>>
  BY DEF Start, OpenFiles, CreateContext, SetOptions, CreateBuffers,
         WriteRemaining, Release, Fflush, Interrupted, Interrupt
<1>2. \/ pc = "open" /\ pc' = "context" /\ UNCHANGED destinationLength
      \/ pc = "context" /\ pc' = "options" /\ UNCHANGED destinationLength
      \/ pc = "options" /\ pc' = "buffers" /\ UNCHANGED destinationLength
      \/ pc = "buffers" /\ pc' = "read" /\ UNCHANGED destinationLength
      \/ pc \in {"open", "context", "options", "buffers", "call", "release", "fflush"}
         /\ pc' = "returned"
      \/ pc = "tail" /\ pc' = "release"
      \/ pc = "release" /\ pc' = "fflush"
  BY DEF Start, OpenFiles, CreateContext, SetOptions, CreateBuffers,
         WriteRemaining, Release, Fflush, Interrupted, Interrupt
<1>3. WithinBounds'
  BY <1>1, <1>2 DEF WithinBounds
<1>4. Place' \in Nat /\ Place' < Place
  BY <1>2 DEF Place
<1>5. StepsLeft' < StepsLeft
  <2> HIDE DEF Place
  <2> QED BY <1>1, <1>4, LaterPlace
<1> QED BY <1>3, <1>5

\* File.decompress cannot go round forever: each step brings it nearer to its
\* end, however small the buffers, and another process that changes the file
\* does not bring it farther away (io.c:123-154, 468-493, 504-531).
THEOREM StepsRunOut ==
  Spec => /\ [](StepsLeft \in Nat)
          /\ [][StepsLeft' < StepsLeft \/ (Changed /\ StepsLeft' = StepsLeft)]_vars
<1> DEFINE Runs == StepsLeft' < StepsLeft \/ (Changed /\ StepsLeft' = StepsLeft)
<1>1. Init => WithinBounds
  BY WholeArchiveFacts DEF Init, BufferedIOInit, NewContext, WithinBounds
<1>2. Invariant /\ WithinBounds /\ [Next]_vars => WithinBounds' /\ (Runs \/ UNCHANGED vars)
  <2> SUFFICES ASSUME Invariant, WithinBounds, [Next]_vars
               PROVE  WithinBounds' /\ (Runs \/ UNCHANGED vars)
    OBVIOUS
  <2> HIDE DEF Runs
  <2>1. (WithinBounds' /\ StepsLeft' < StepsLeft) => WithinBounds' /\ Runs
    BY DEF Runs
  <2>2. CASE Start \/ Complete \/ Interrupted
    BY <2>1, <2>2, OtherCosts DEF Complete
  <2>3. CASE ReadSource
    BY <2>1, <2>3, ReadCosts
  <2>4. CASE Decompress
    BY <2>1, <2>4, DecompressCosts
  <2>5. CASE Changed
    <3>1. UNCHANGED <<pc, readPosition, finished, destinationLength, dctx>>
      BY <2>5 DEF Changed, FileChanges, sourceVars, destinationVars
    <3>2. WithinBounds' /\ StepsLeft' = StepsLeft
      BY <3>1 DEF WithinBounds, StepsLeft, LoopsLeft, Place
    <3> QED BY <2>5, <3>2 DEF Runs
  <2>6. CASE Done \/ UNCHANGED vars
    <3>1. UNCHANGED vars
      BY <2>6 DEF Done
    <3> QED BY <3>1 DEF vars, ioVars, fileVars, sourceVars, destinationVars, WithinBounds
  <2> QED BY <2>2, <2>3, <2>4, <2>5, <2>6 DEF Next, Program
<1>3. Invariant /\ WithinBounds => StepsLeft \in Nat
  BY StepsAreNumber
<1>4. Runs \/ UNCHANGED vars => [Runs]_vars
  OBVIOUS
<1> QED BY <1>1, <1>2, <1>3, <1>4, Inductive, PTL DEF Spec

=============================================================================
