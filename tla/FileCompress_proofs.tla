------------------------ MODULE FileCompress_proofs ------------------------
(***************************************************************************)
(* Theorems of FileCompress for every size of buffers and file, with and   *)
(* without workers, failures and interrupts.                               *)
(***************************************************************************)
EXTENDS FileCompress, SequenceTheorems, TLAPS

USE SourceBufferAssumption, DestinationBufferAssumption, MaxFileLengthAssumption,
    SwitchAssumption

-----------------------------------------------------------------------------
\* The buffers: what memmove and fread leave in the source buffer, what a codec
\* call finds there, and what a flush passes to the destination.

\* A sequence 1, 2, 3, ...
Counts(s) == \A i \in DOMAIN s : s[i] = i

\* Of two sequences that count, the longer is the shorter with the numbers
\* between them appended.
LEMMA ExtendedCounts ==
  ASSUME NEW s \in Seq(Nat), NEW t \in Seq(Nat), Counts(s), Counts(t), Len(s) <= Len(t)
  PROVE  t = s \o [i \in 1 .. Len(t) - Len(s) |-> Len(s) + i]
<1> DEFINE rest == [i \in 1 .. Len(t) - Len(s) |-> Len(s) + i]
<1>1. /\ rest \in Seq(Nat)
      /\ Len(rest) = Len(t) - Len(s)
      /\ \A i \in 1 .. Len(rest) : rest[i] = Len(s) + i
  OBVIOUS
<1> HIDE DEF rest
<1>2. /\ s \o rest \in Seq(Nat)
      /\ Len(s \o rest) = Len(t)
      /\ \A i \in 1 .. Len(t) : (s \o rest)[i] = IF i <= Len(s) THEN s[i] ELSE rest[i - Len(s)]
  <2>1. Len(s) + Len(rest) = Len(t)
    BY <1>1
  <2> QED BY <1>1, <2>1, ConcatProperties
<1>3. ASSUME NEW i \in 1 .. Len(t) PROVE (s \o rest)[i] = t[i]
  <2>1. t[i] = i
    BY DEF Counts
  <2>2. i <= Len(s) => s[i] = i
    BY DEF Counts
  <2>3. i > Len(s) => rest[i - Len(s)] = i
    BY <1>1
  <2> QED BY <1>2, <2>1, <2>2, <2>3
<1>4. t = s \o rest
  BY <1>2, <1>3, SeqEqual
<1> QED BY <1>4 DEF rest

\* A sequence that counts, with the numbers behind it appended, counts.
LEMMA ConcatCounts ==
  ASSUME NEW s \in Seq(Nat), NEW t \in Seq(Nat), Counts(s),
         \A i \in 1 .. Len(t) : t[i] = Len(s) + i
  PROVE  s \o t \in Seq(Nat) /\ Len(s \o t) = Len(s) + Len(t) /\ Counts(s \o t)
<1>1. /\ s \o t \in Seq(Nat)
      /\ Len(s \o t) = Len(s) + Len(t)
      /\ \A i \in 1 .. Len(s) + Len(t) : (s \o t)[i] = IF i <= Len(s) THEN s[i] ELSE t[i - Len(s)]
  BY ConcatProperties
<1>2. ASSUME NEW i \in DOMAIN (s \o t) PROVE (s \o t)[i] = i
  <2>1. i \in 1 .. Len(s) + Len(t)
    BY <1>1
  <2>2. i <= Len(s) => s[i] = i
    BY <2>1 DEF Counts
  <2>3. i > Len(s) => t[i - Len(s)] = i
    <3> SUFFICES ASSUME i > Len(s) PROVE t[i - Len(s)] = i
      OBVIOUS
    <3> DEFINE k == i - Len(s)
    <3>1. k \in 1 .. Len(t) /\ Len(s) + k = i
      BY <2>1
    <3> HIDE DEF k
    <3>2. t[k] = i
      BY <3>1
    <3> QED BY <3>2 DEF k
  <2> QED BY <1>1, <2>1, <2>2, <2>3
<1> QED BY <1>1, <1>2 DEF Counts

-----------------------------------------------------------------------------
\* The values of the variables that index the source buffer.
SourceTyped ==
  /\ sourceBuffer \in BufferOf(SourceBufferLength)
  /\ source \in Nat /\ sourceLength \in Nat /\ inPos \in Nat /\ readPosition \in Nat
  /\ source + sourceLength <= SourceBufferLength /\ inPos <= sourceLength

\* The window of the source buffer holds what fread took behind the first
\* taken bytes of the file; the codec has already taken inPos bytes of it.
SourceHolds(taken) ==
  /\ taken + sourceLength = readPosition + inPos
  /\ \A i \in 0 .. sourceLength - 1 : sourceBuffer[source + i] + inPos = taken + i + 1

\* read_more_source keeps the window: what was moved and what fread stored
\* behind it are the bytes that follow those the context has taken.
LEMMA RefilledWindow ==
  ASSUME NEW taken \in Nat, SourceTyped, SourceHolds(taken), inPos = 0,
         NEW count \in Nat, count <= Room
  PROVE  /\ Refilled(count) \in BufferOf(SourceBufferLength)
         /\ \A i \in 0 .. sourceLength + count - 1 :
              Refilled(count)[0 + i] + inPos = taken + i + 1
<1>1. /\ sourceBuffer \in [0 .. SourceBufferLength - 1 -> Nat]
      /\ source \in Nat /\ sourceLength \in Nat /\ readPosition \in Nat
      /\ source + sourceLength <= SourceBufferLength
      /\ sourceLength + count <= SourceBufferLength
      /\ SourceBufferLength \in Nat
      /\ inPos = 0
  BY DEF SourceTyped, BufferOf, Room
<1>2. taken + sourceLength = readPosition + inPos
  BY DEF SourceHolds
<1>3. \A i \in 0 .. sourceLength - 1 : sourceBuffer[source + i] + inPos = taken + i + 1
  BY DEF SourceHolds
<1>4. Refilled(count) \in BufferOf(SourceBufferLength)
  BY <1>1 DEF Refilled, BufferOf
<1>5. ASSUME NEW i \in 0 .. sourceLength + count - 1
      PROVE  Refilled(count)[0 + i] + inPos = taken + i + 1
  <2>1. i \in 0 .. SourceBufferLength - 1 /\ 0 + i = i
    BY <1>1
  <2>2. CASE i < sourceLength
    <3>1. Refilled(count)[i] = sourceBuffer[source + i]
      BY <2>1, <2>2 DEF Refilled
    <3>2. sourceBuffer[source + i] + inPos = taken + i + 1
      BY <1>1, <1>3, <2>1, <2>2
    <3> QED BY <2>1, <3>1, <3>2
  <2>3. CASE i >= sourceLength
    <3>1. Refilled(count)[i] = readPosition + i - sourceLength + 1
      BY <1>1, <2>1, <2>3 DEF Refilled
    <3>2. readPosition + i - sourceLength + 1 + inPos = taken + i + 1
      BY <1>1, <1>2, <2>1
    <3> QED BY <2>1, <3>1, <3>2
  <2> QED BY <1>1, <2>1, <2>2, <2>3
<1> QED BY <1>4, <1>5

\* The input of a codec call is the next bytes of the file, and so is what is
\* left of them in the window when the call has taken some.
LEMMA InputWindow ==
  ASSUME NEW taken \in Nat, SourceTyped, SourceHolds(taken)
  PROVE  /\ Input \in Seq(Nat)
         /\ Len(Input) = sourceLength - inPos
         /\ \A i \in 1 .. Len(Input) : Input[i] = taken + i
<1>1. /\ sourceBuffer \in [0 .. SourceBufferLength - 1 -> Nat]
      /\ source \in Nat /\ sourceLength \in Nat /\ inPos \in Nat
      /\ source + sourceLength <= SourceBufferLength /\ inPos <= sourceLength
  BY DEF SourceTyped, BufferOf
<1>2. \A i \in 0 .. sourceLength - 1 : sourceBuffer[source + i] + inPos = taken + i + 1
  BY DEF SourceHolds
<1> DEFINE n == sourceLength - inPos
<1>3. n \in Nat
  BY <1>1
<1>4. ASSUME NEW i \in 1 .. n
      PROVE  /\ sourceBuffer[source + inPos + i - 1] \in Nat
             /\ sourceBuffer[source + inPos + i - 1] = taken + i
  <2>1. /\ inPos + i - 1 \in 0 .. sourceLength - 1
        /\ source + (inPos + i - 1) = source + inPos + i - 1
        /\ source + inPos + i - 1 \in 0 .. SourceBufferLength - 1
    BY <1>1
  <2>2. sourceBuffer[source + inPos + i - 1] \in Nat
    BY <1>1, <2>1
  <2>3. sourceBuffer[source + (inPos + i - 1)] + inPos = taken + (inPos + i - 1) + 1
    BY <1>2, <2>1
  <2>4. sourceBuffer[source + inPos + i - 1] + inPos = taken + (inPos + i - 1) + 1
    BY <2>1, <2>3
  <2> DEFINE byte == sourceBuffer[source + inPos + i - 1]
  <2>5. byte \in Nat /\ byte + inPos = taken + (inPos + i - 1) + 1
    BY <2>2, <2>4
  <2> HIDE DEF byte
  <2>6. byte = taken + i
    BY <1>1, <2>5
  <2> QED BY <2>5, <2>6 DEF byte
<1>5. Input = [i \in 1 .. n |-> sourceBuffer[source + inPos + i - 1]]
  BY DEF Input
<1> HIDE DEF n
<1>6. Input \in Seq(Nat) /\ Len(Input) = n /\ \A i \in 1 .. n : Input[i] = taken + i
  BY <1>3, <1>4, <1>5
<1> QED BY <1>6 DEF n

-----------------------------------------------------------------------------
\* The destination buffer and the file behind it.
DestinationTyped ==
  /\ destinationBuffer \in BufferOf(DestinationBufferLength)
  /\ destinationLength \in 0 .. DestinationBufferLength
  /\ destination \in Seq(Nat) /\ saved \in Nat

\* The first length bytes of a buffer are those behind the first from ones.
Holds(buffer, from, length) ==
  \A i \in 0 .. length - 1 : buffer[i] = from + i + 1

\* A codec call that stores written bytes extends what the buffer holds.
LEMMA StoredWindow ==
  ASSUME NEW delivered \in Nat, NEW out \in Nat, DestinationTyped,
         delivered + destinationLength = out,
         Holds(destinationBuffer, delivered, destinationLength),
         NEW written \in 0 .. DestinationRoom, Store(out, written)
  PROVE  /\ destinationBuffer' \in BufferOf(DestinationBufferLength)
         /\ destinationLength + written \in 0 .. DestinationBufferLength
         /\ delivered + (destinationLength + written) = out + written
         /\ Holds(destinationBuffer', delivered, destinationLength + written)
<1>1. /\ destinationBuffer \in [0 .. DestinationBufferLength - 1 -> Nat]
      /\ destinationLength \in Nat /\ destinationLength <= DestinationBufferLength
      /\ written \in Nat /\ destinationLength + written <= DestinationBufferLength
  BY DEF DestinationTyped, BufferOf, DestinationRoom
<1>2. destinationBuffer' = [i \in 0 .. DestinationBufferLength - 1 |->
        IF i >= destinationLength /\ i < destinationLength + written
        THEN out + i - destinationLength + 1
        ELSE destinationBuffer[i]]
  BY DEF Store
<1>3. destinationBuffer' \in BufferOf(DestinationBufferLength)
  BY <1>1, <1>2 DEF BufferOf
<1>4. ASSUME NEW i \in 0 .. destinationLength + written - 1
      PROVE  destinationBuffer'[i] = delivered + i + 1
  <2>1. i \in 0 .. DestinationBufferLength - 1
    BY <1>1
  <2>2. CASE i < destinationLength
    <3>1. destinationBuffer'[i] = destinationBuffer[i]
      BY <1>1, <1>2, <2>1, <2>2
    <3> QED BY <1>1, <2>1, <2>2, <3>1 DEF Holds
  <2>3. CASE i >= destinationLength
    <3>1. destinationBuffer'[i] = out + i - destinationLength + 1
      BY <1>1, <1>2, <2>1, <2>3
    <3>2. out + i - destinationLength + 1 = delivered + i + 1
      BY <1>1, <2>1
    <3> QED BY <3>1, <3>2
  <2> QED BY <1>1, <2>1, <2>2, <2>3
<1> QED BY <1>1, <1>3, <1>4 DEF Holds

\* What fwrite accepts from the top of the buffer continues the destination.
LEMMA AcceptedCounts ==
  ASSUME destination \in Seq(Nat), saved \in Nat, Counts(destination),
         destinationBuffer' \in BufferOf(DestinationBufferLength),
         NEW length \in 0 .. DestinationBufferLength,
         Holds(destinationBuffer', Len(destination), length),
         NEW accepted \in 0 .. length, Accepts(accepted)
  PROVE  /\ destination' \in Seq(Nat) /\ saved' \in Nat
         /\ Len(destination') = Len(destination) + accepted
         /\ Counts(destination')
<1> DEFINE staged == Staged(destinationBuffer', accepted)
           delivered == Len(destination)
<1>1. ASSUME NEW i \in 1 .. accepted
      PROVE  destinationBuffer'[i - 1] = delivered + i
  <2>1. i - 1 \in 0 .. length - 1 /\ (i - 1) + 1 = i
    OBVIOUS
  <2>2. delivered \in Nat
    OBVIOUS
  <2>3. destinationBuffer'[i - 1] = delivered + (i - 1) + 1
    BY <2>1 DEF Holds
  <2> HIDE DEF delivered
  <2> QED BY <2>1, <2>2, <2>3
<1>2. staged = [i \in 1 .. accepted |-> destinationBuffer'[i - 1]]
  BY DEF Staged
<1>3. delivered \in Nat /\ accepted \in Nat
  OBVIOUS
<1> HIDE DEF staged, delivered
<1>4. /\ staged \in Seq(Nat) /\ Len(staged) = accepted
      /\ \A i \in 1 .. Len(staged) : staged[i] = delivered + i
  <2>1. \A i \in 1 .. accepted : delivered + i \in Nat
    BY <1>3
  <2> QED BY <1>1, <1>2, <1>3, <2>1
<1>5. /\ destination' = destination \o staged
      /\ saved' \in {saved, Len(destination')}
  BY DEF Accepts, staged
<1>6. /\ destination' \in Seq(Nat) /\ Len(destination') = delivered + Len(staged)
      /\ Counts(destination')
  BY <1>4, <1>5, ConcatCounts DEF delivered
<1> QED BY <1>4, <1>5, <1>6 DEF delivered

\* flush_destination_buffer: an empty buffer and an empty sequence of bytes to
\* deliver, or an error with a prefix of the bytes in the destination.
LEMMA FlushedWindow ==
  ASSUME DestinationTyped, Counts(destination),
         destinationBuffer' \in BufferOf(DestinationBufferLength),
         NEW length \in 0 .. DestinationBufferLength,
         Holds(destinationBuffer', Len(destination), length),
         FlushDestination(length)
  PROVE  /\ destination' \in Seq(Nat) /\ saved' \in Nat
         /\ destinationLength' \in 0 .. DestinationBufferLength
         /\ Counts(destination')
         /\ Len(destination') \in Len(destination) .. Len(destination) + length
         /\ \/ /\ UNCHANGED <<pc, result>>
               /\ destinationLength' = 0 /\ Len(destination') = Len(destination) + length
            \/ /\ pc' = "release"
               /\ result' \in {"NotEnoughDestinationBufferError", "WriteIOError"}
<1>1. /\ destination \in Seq(Nat) /\ saved \in Nat
      /\ Len(destination) \in Nat
  BY DEF DestinationTyped
<1>2. CASE length = 0 /\ Return("NotEnoughDestinationBufferError")
           /\ destinationLength' = length /\ UNCHANGED <<destination, saved>>
  BY <1>1, <1>2 DEF Return
<1>3. CASE Accepts(length) /\ destinationLength' = 0 /\ UNCHANGED <<pc, result>>
  <2>1. /\ destination' \in Seq(Nat) /\ saved' \in Nat
        /\ Len(destination') = Len(destination) + length /\ Counts(destination')
    BY <1>1, <1>3, AcceptedCounts
  <2> QED BY <1>1, <1>3, <2>1
<1>4. ASSUME NEW accepted \in 0 .. length - 1, Accepts(accepted),
             destinationLength' = length, Return("WriteIOError")
      PROVE  /\ destination' \in Seq(Nat) /\ saved' \in Nat
             /\ destinationLength' \in 0 .. DestinationBufferLength
             /\ Counts(destination')
             /\ Len(destination') \in Len(destination) .. Len(destination) + length
             /\ pc' = "release" /\ result' = "WriteIOError"
  <2>1. accepted \in 0 .. length
    OBVIOUS
  <2>2. /\ destination' \in Seq(Nat) /\ saved' \in Nat
        /\ Len(destination') = Len(destination) + accepted /\ Counts(destination')
    BY <1>1, <1>4, <2>1, AcceptedCounts
  <2> QED BY <1>1, <1>4, <2>1, <2>2 DEF Return
<1> QED BY <1>2, <1>3, <1>4 DEF FlushDestination

-----------------------------------------------------------------------------
USE OverheadAssumption, BlockingAssumption, NoPledgeAssumption

\* What a step assumes of the state it starts in.
Invariant == TypeOK /\ LoopInvariant


\* The invariant holds in the initial states of io.c:337-351.
LEMMA InitInvariant == Init => Invariant
<1> SUFFICES ASSUME Init PROVE Invariant
  OBVIOUS
<1> USE DEF Init, BufferedIOInit, NewContext
<1>1. TypeOK
  <2>1. cctx \in ContextType
    BY DEF ContextType
  <2>2. /\ sourceBuffer \in BufferOf(SourceBufferLength)
        /\ destinationBuffer \in BufferOf(DestinationBufferLength)
    BY DEF BufferOf
  <2>3. destination \in Seq(Nat)
    OBVIOUS
  <2>4. /\ source \in Nat /\ sourceLength \in Nat /\ inPos \in Nat
        /\ source + sourceLength <= SourceBufferLength /\ inPos <= sourceLength
        /\ destinationLength \in 0 .. DestinationBufferLength
        /\ readPosition \in Nat /\ saved \in Nat
    OBVIOUS
  <2>5. /\ pc = "open" /\ held \subseteq Resources /\ result = "none"
        /\ fileLength \in 0 .. MaxFileLength
        /\ called \in BOOLEAN /\ finished \in BOOLEAN
        /\ pledgedSize \in Nat \union {NoPledge}
    OBVIOUS
  <2> HIDE DEF Init, BufferedIOInit, NewContext
  <2> QED BY <2>1, <2>2, <2>3, <2>4, <2>5 DEF TypeOK
<1>2. LoopInvariant
  BY DEF LoopInvariant, SourceFaithful, DestinationFaithful, Untouched, SourceWindow,
         DestinationWindow, OutcomeInPlace
<1> QED BY <1>1, <1>2 DEF Invariant

\* A step that moves no byte: it leaves the file, the buffers, what the context
\* took and handed out and the destination alone.
Still ==
  /\ UNCHANGED <<readPosition, sourceBuffer, source, sourceLength, inPos>>
  /\ UNCHANGED <<destinationBuffer, destinationLength, destination>>
  /\ cctx'.consumed = cctx.consumed /\ cctx'.out = cctx.out

\* A step that moves no byte keeps the loop invariant, when it knows its place.
LEMMA StillInvariant ==
  ASSUME LoopInvariant, Still,
         result' = "none" <=> pc' \notin {"release", "fflush", "returned"},
         pc' = "fflush" => result' = "ok",
         result' = "none" => result = "none",
         pc' \in {"open", "context", "options", "buffers"} =>
           pc \in {"open", "context", "options", "buffers"},
         pc' = "read" => pc \in {"open", "context", "options", "buffers", "read"},
         pc' = "call" => pc \in {"open", "context", "options", "buffers", "read", "call"}
  PROVE  LoopInvariant'
<1> USE DEF Still
<1>1. SourceFaithful' /\ DestinationFaithful'
  BY DEF LoopInvariant, SourceFaithful, DestinationFaithful
<1>2. Untouched'
  BY DEF LoopInvariant, Untouched
<1>3. SourceWindow'
  BY DEF LoopInvariant, Untouched, SourceWindow
<1>4. DestinationWindow'
  BY DEF LoopInvariant, DestinationWindow
<1>5. OutcomeInPlace'
  BY DEF OutcomeInPlace
<1> QED BY <1>1, <1>2, <1>3, <1>4, <1>5 DEF LoopInvariant

\* The steps before the loops keep the invariant (io.c:337-409).
LEMMA StartStep ==
  ASSUME Invariant, PledgeSize \/ Open \/ Create
  PROVE  Invariant'
<1> USE DEF Invariant
<1> USE DEF fileVars, sourceVars, destinationVars, ioVars, Raise
<1>1. CASE PledgeSize
  <2>1. TypeOK'
    BY <1>1 DEF PledgeSize, TypeOK
  <2>2. LoopInvariant'
    BY <1>1, StillInvariant DEF PledgeSize, Still, LoopInvariant, OutcomeInPlace
  <2> QED BY <2>1, <2>2
<1>2. CASE Open
  <2>1. TypeOK'
    BY <1>2 DEF Open, OpenFiles, TypeOK, Errors
  <2>2. LoopInvariant'
    BY <1>2, StillInvariant DEF Open, OpenFiles, Still, LoopInvariant, OutcomeInPlace
  <2> QED BY <2>1, <2>2
<1>3. CASE Create
  <2>1. CASE CreateContext /\ UNCHANGED <<cctx, pledgedSize>>
    <3>1. TypeOK'
      BY <2>1 DEF CreateContext, TypeOK, Errors, Resources
    <3>2. LoopInvariant'
      BY <2>1, StillInvariant DEF CreateContext, Still, LoopInvariant, OutcomeInPlace
    <3> QED BY <3>1, <3>2
  <2>2. CASE SetOptions /\ Pledge(pledgedSize) /\ UNCHANGED pledgedSize
    <3>1. /\ cctx' \in ContextType
          /\ cctx'.consumed = cctx.consumed
          /\ cctx'.out = cctx.out
      BY <2>2 DEF Pledge, TypeOK, ContextType
    <3>2. TypeOK'
      BY <2>2, <3>1 DEF SetOptions, OptionErrors, TypeOK, Errors, Resources
    <3>3. LoopInvariant'
      BY <2>2, <3>1, StillInvariant DEF SetOptions, OptionErrors, Still, LoopInvariant, OutcomeInPlace
    <3> QED BY <3>2, <3>3
  <2>3. CASE CreateBuffers /\ UNCHANGED <<cctx, pledgedSize>>
    <3>1. TypeOK'
      BY <2>3 DEF CreateBuffers, TypeOK, Errors, Resources
    <3>2. LoopInvariant'
      BY <2>3, StillInvariant DEF CreateBuffers, Still, LoopInvariant, OutcomeInPlace
    <3> QED BY <3>1, <3>2
  <2> QED BY <1>3, <2>1, <2>2, <2>3 DEF Create
<1> QED BY <1>1, <1>2, <1>3

\* What the invariant says of the buffers, in the terms of the lemmas on them.
LEMMA StateFacts ==
  ASSUME Invariant
  PROVE  /\ SourceTyped /\ DestinationTyped
         /\ cctx \in ContextType /\ cctx.consumed \in Seq(Nat)
         /\ Len(cctx.consumed) \in Nat /\ cctx.out \in Nat /\ cctx.made \in Nat
         /\ Counts(cctx.consumed) /\ Counts(destination)
         /\ Len(destination) \in Nat /\ Len(destination) <= cctx.out
         /\ pc \in {"read", "call"} => SourceHolds(Len(cctx.consumed))
         /\ result = "none" =>
              /\ Len(destination) + destinationLength = cctx.out
              /\ Holds(destinationBuffer, Len(destination), destinationLength)
<1> USE DEF Invariant
<1>1. SourceTyped
  BY DEF TypeOK, SourceTyped
<1>2. DestinationTyped
  BY DEF TypeOK, DestinationTyped
<1>3. cctx \in ContextType
  BY DEF TypeOK
<1>4. cctx.consumed \in Seq(Nat) /\ cctx.out \in Nat /\ cctx.made \in Nat
  BY <1>3 DEF ContextType
<1>5. Counts(cctx.consumed) /\ Counts(destination) /\ Len(destination) <= cctx.out
  BY DEF LoopInvariant, SourceFaithful, DestinationFaithful, Counts
<1>6. Len(destination) \in Nat /\ Len(cctx.consumed) \in Nat
  BY <1>2, <1>4 DEF DestinationTyped
<1>7. pc \in {"read", "call"} => SourceHolds(Len(cctx.consumed))
  BY DEF LoopInvariant, SourceWindow, SourceHolds
<1>8. result = "none" =>
        /\ Len(destination) + destinationLength = cctx.out
        /\ Holds(destinationBuffer, Len(destination), destinationLength)
  BY DEF LoopInvariant, DestinationWindow, Holds
<1> QED BY <1>1, <1>2, <1>3, <1>4, <1>5, <1>6, <1>7, <1>8

\* A turn of the read loop keeps the invariant (read_more_source).
LEMMA ReadStep ==
  ASSUME Invariant, ReadSource
  PROVE  Invariant'
<1> USE DEF Invariant
<1>1. /\ pc = "read" /\ result = "none" /\ inPos = 0
      /\ source' = 0
      /\ HasNoRoom \/ ReadBytes \/ ReadFails \/ ReadFinished("finish")
      /\ UNCHANGED <<held, fileLength, inPos, destinationBuffer, destinationLength,
                     destination, saved, cctx, pledgedSize>>
  BY DEF ReadSource, ReadMoreSource, destinationVars, LoopInvariant, OutcomeInPlace, SourceWindow
<1>2. /\ Room \in Nat /\ Unread \in Nat
      /\ sourceLength \in Nat /\ readPosition \in Nat /\ SourceBufferLength \in Nat
      /\ 0 + sourceLength <= SourceBufferLength
      /\ \A count \in Nat : count <= Room => 0 + sourceLength + count <= SourceBufferLength
  BY DEF TypeOK, Room, Unread
<1>3. \E count \in Nat :
        /\ count <= Room
        /\ sourceBuffer' = Refilled(count)
        /\ \/ /\ sourceLength' = sourceLength /\ readPosition' \in Nat
              /\ result' \in Errors /\ result' # "none" /\ result' # "ok" /\ pc' = "release"
              /\ UNCHANGED <<called, finished>>
           \/ /\ sourceLength' = sourceLength + count /\ readPosition' = readPosition + count
              /\ result' = "none"
              /\ pc' \in {"call", "finish"} /\ called' = called /\ finished' \in BOOLEAN
  <2>1. CASE HasNoRoom
    BY <1>1, <1>2, <2>1 DEF HasNoRoom, Return, Errors
  <2>2. CASE ReadBytes
    <3> DEFINE count == IF Room < Unread THEN Room ELSE Unread
    <3>1. count \in Nat /\ count <= Room
      BY <1>2
    <3>2. /\ sourceBuffer' = Refilled(count)
          /\ sourceLength' = sourceLength + count
          /\ readPosition' = readPosition + count
          /\ pc' = "call" /\ result' = "none"
          /\ called' = called /\ finished' \in BOOLEAN
      BY <1>1, <2>2 DEF ReadBytes, TypeOK
    <3> HIDE DEF count
    <3> QED BY <3>1, <3>2
  <2>3. CASE ReadFails
    <3>1. PICK count \in 0 .. Unread :
            /\ count < Room
            /\ sourceBuffer' = Refilled(count)
            /\ readPosition' = readPosition + count
      BY <2>3 DEF ReadFails
    <3> QED BY <1>1, <1>2, <2>3, <3>1 DEF ReadFails, Return, Errors
  <2>4. CASE ReadFinished("finish")
    <3>1. /\ 0 \in Nat /\ 0 <= Room /\ sourceBuffer' = Refilled(0)
          /\ sourceLength' = sourceLength /\ sourceLength' = sourceLength + 0
          /\ readPosition' = readPosition /\ readPosition' = readPosition + 0
          /\ readPosition' \in Nat /\ called' = called /\ called \in BOOLEAN
      BY <1>2, <2>4 DEF ReadFinished, TypeOK
    <3>2. CASE sourceLength # 0
      <4>1. result' = "ReadIOError" /\ pc' = "release" /\ finished' = finished
        BY <2>4, <3>2 DEF ReadFinished, Return
      <4> QED BY <3>1, <4>1 DEF Errors
    <3>3. CASE sourceLength = 0
      <4>1. /\ pc' \in {"call", "finish"} /\ finished' \in BOOLEAN /\ result' = "none"
        BY <1>1, <2>4, <3>1, <3>3 DEF ReadFinished
      <4> QED BY <3>1, <4>1
    <3> QED BY <3>2, <3>3
  <2> QED BY <1>1, <2>1, <2>2, <2>3, <2>4
<1>4. PICK count \in Nat :
        /\ count <= Room
        /\ sourceBuffer' = Refilled(count)
        /\ \/ /\ sourceLength' = sourceLength /\ readPosition' \in Nat
              /\ result' \in Errors /\ result' # "none" /\ result' # "ok" /\ pc' = "release"
              /\ UNCHANGED <<called, finished>>
           \/ /\ sourceLength' = sourceLength + count /\ readPosition' = readPosition + count
              /\ result' = "none"
              /\ pc' \in {"call", "finish"} /\ called' = called /\ finished' \in BOOLEAN
  BY <1>3
<1>5. /\ Refilled(count) \in BufferOf(SourceBufferLength)
      /\ \A i \in 0 .. sourceLength + count - 1 :
           Refilled(count)[0 + i] + inPos = Len(cctx.consumed) + i + 1
  <2> DEFINE taken == Len(cctx.consumed)
  <2>1. taken \in Nat /\ SourceTyped /\ SourceHolds(taken)
    BY <1>1, StateFacts
  <2> HIDE DEF taken
  <2>2. \A i \in 0 .. sourceLength + count - 1 : Refilled(count)[0 + i] + inPos = taken + i + 1
    BY <1>1, <1>4, <2>1, RefilledWindow
  <2>3. Refilled(count) \in BufferOf(SourceBufferLength)
    BY <1>1, <1>4, <2>1, RefilledWindow
  <2> QED BY <2>2, <2>3 DEF taken
<1>6. TypeOK'
  <2>1. /\ sourceLength' \in Nat /\ readPosition' \in Nat /\ source' = 0 /\ inPos' = 0
        /\ source' + sourceLength' <= SourceBufferLength /\ inPos' <= sourceLength'
    BY <1>1, <1>2, <1>4
  <2>2. sourceBuffer' \in BufferOf(SourceBufferLength)
    BY <1>4, <1>5
  <2>3. /\ pc' \in {"call", "finish", "release"} /\ result' \in {"none"} \union Errors
        /\ called' \in BOOLEAN /\ finished' \in BOOLEAN
    BY <1>4 DEF TypeOK
  <2>4. /\ UNCHANGED <<held, fileLength, destinationBuffer, destinationLength, destination,
                       saved, cctx, pledgedSize>>
    BY <1>1
  <2> QED BY <2>1, <2>2, <2>3, <2>4 DEF TypeOK
<1>7. LoopInvariant'
  <2>1. SourceFaithful' /\ DestinationFaithful'
    BY <1>1 DEF LoopInvariant, SourceFaithful, DestinationFaithful
  <2>2. Untouched'
    BY <1>4 DEF Untouched
  <2>3. SourceWindow'
    <3> DEFINE taken == Len(cctx.consumed)
    <3>1. taken \in Nat /\ taken + sourceLength = readPosition + inPos
      BY <1>1 DEF TypeOK, ContextType, LoopInvariant, SourceWindow
    <3>2. Len(cctx'.consumed) = taken /\ inPos' = 0 /\ inPos = 0 /\ source' = 0
      BY <1>1
    <3>3. CASE sourceLength' = sourceLength + count /\ readPosition' = readPosition + count
      <4>1. \A i \in 0 .. sourceLength + count - 1 :
              sourceBuffer'[0 + i] + inPos = taken + i + 1
        BY <1>4, <1>5
      <4> HIDE DEF taken
      <4>2. taken + sourceLength' = readPosition' + inPos'
        BY <1>2, <1>4, <3>1, <3>2, <3>3
      <4>3. \A i \in 0 .. sourceLength' - 1 : sourceBuffer'[source' + i] + inPos' = taken + i + 1
        BY <1>2, <3>2, <3>3, <4>1
      <4> QED BY <3>2, <4>2, <4>3 DEF SourceWindow
    <3>4. CASE pc' = "release"
      BY <3>4 DEF SourceWindow
    <3> QED BY <1>4, <3>3, <3>4
  <2>4. DestinationWindow'
    BY <1>1, <1>4 DEF LoopInvariant, DestinationWindow
  <2>5. OutcomeInPlace'
    BY <1>4 DEF OutcomeInPlace
  <2> QED BY <2>1, <2>2, <2>3, <2>4, <2>5 DEF LoopInvariant
<1> QED BY <1>6, <1>7

-----------------------------------------------------------------------------
\* After a codec call, what was stored stays in the buffer or is flushed.
LEMMA DeliveredStep ==
  ASSUME Invariant, result = "none", NEW written \in 0 .. DestinationRoom,
         Store(cctx.out, written), cctx' \in ContextType, cctx'.out = cctx.out + written,
         \/ FlushDestination(destinationLength + written)
         \/ /\ destinationLength' = destinationLength + written
            /\ UNCHANGED <<destination, saved>>
            /\ result' = "none"
  PROVE  /\ DestinationTyped' /\ DestinationFaithful' /\ DestinationWindow'
         /\ Len(destination) <= Len(destination')
         /\ cctx.out <= cctx'.out
<1> DEFINE delivered == Len(destination)
           out == cctx.out
           length == destinationLength + written
<1>1. /\ DestinationTyped /\ out \in Nat /\ delivered \in Nat
      /\ Counts(destination)
      /\ delivered + destinationLength = out
      /\ Holds(destinationBuffer, delivered, destinationLength)
  BY StateFacts
<1>2. Store(out, written)
  OBVIOUS
<1> HIDE DEF out, delivered
<1>3. /\ destinationBuffer' \in BufferOf(DestinationBufferLength)
      /\ length \in 0 .. DestinationBufferLength
      /\ delivered + length = out + written
      /\ Holds(destinationBuffer', delivered, length)
  BY <1>1, <1>2, StoredWindow
<1>4. cctx'.out = out + written /\ out <= cctx'.out /\ written \in Nat
  BY <1>1 DEF out, DestinationRoom, DestinationTyped
<1>5. CASE FlushDestination(length)
  <2> HIDE DEF length
  <2>1. /\ destination' \in Seq(Nat) /\ saved' \in Nat
        /\ destinationLength' \in 0 .. DestinationBufferLength
        /\ Counts(destination')
        /\ Len(destination') \in delivered .. delivered + length
        /\ \/ /\ UNCHANGED <<pc, result>>
              /\ destinationLength' = 0 /\ Len(destination') = delivered + length
           \/ /\ pc' = "release"
              /\ result' \in {"NotEnoughDestinationBufferError", "WriteIOError"}
    BY <1>1, <1>3, <1>5, FlushedWindow DEF delivered
  <2>2. DestinationTyped'
    BY <1>3, <2>1 DEF DestinationTyped
  <2>3. DestinationFaithful'
    BY <1>1, <1>3, <1>4, <2>1 DEF DestinationFaithful, Counts
  <2>4. DestinationWindow'
    <3>1. CASE destinationLength' = 0 /\ Len(destination') = delivered + length
      <4>1. Len(destination') + destinationLength' = cctx'.out
        BY <1>1, <1>3, <1>4, <3>1
      <4> QED BY <3>1, <4>1 DEF DestinationWindow
    <3>2. CASE result' \in {"NotEnoughDestinationBufferError", "WriteIOError"}
      BY <3>2 DEF DestinationWindow
    <3> QED BY <2>1, <3>1, <3>2
  <2>5. delivered <= Len(destination')
    BY <1>1, <1>3, <2>1
  <2> QED BY <1>4, <2>1, <2>2, <2>3, <2>4, <2>5 DEF delivered, out
<1>6. CASE /\ destinationLength' = length
           /\ UNCHANGED <<destination, saved>>
           /\ result' = "none"
  <2>1. DestinationTyped'
    BY <1>1, <1>3, <1>6 DEF DestinationTyped
  <2>2. DestinationFaithful'
    <3>1. Len(destination') = delivered /\ delivered <= cctx'.out
      BY <1>1, <1>3, <1>4, <1>6 DEF delivered
    <3> QED BY <1>1, <1>6, <3>1 DEF DestinationFaithful, Counts
  <2>3. DestinationWindow'
    BY <1>3, <1>4, <1>6 DEF DestinationWindow, Holds, delivered
  <2>4. Len(destination') = delivered /\ delivered <= delivered
    BY <1>1, <1>6 DEF delivered
  <2> QED BY <1>4, <1>6, <2>1, <2>2, <2>3, <2>4 DEF delivered, out
<1> QED BY <1>5, <1>6

\* A step that may move bytes and does not take the call to success.
Advances ==
  /\ result = "none" /\ result' # "ok"
  /\ Len(cctx.consumed) <= Len(cctx'.consumed)
  /\ cctx.out <= cctx'.out
  /\ Len(destination) <= Len(destination')

\* The bytes a codec call takes continue those the context has.
LEMMA TakenCounts ==
  ASSUME Invariant, pc = "call", NEW read \in 0 .. Len(Input)
  PROVE  /\ Taken(Input, read) \in Seq(Nat)
         /\ Len(Taken(Input, read)) = Len(cctx.consumed) + read
         /\ Counts(Taken(Input, read))
<1> DEFINE consumed == cctx.consumed
           taken == Len(consumed)
           part == SubSeq(Input, 1, read)
<1>1. /\ SourceTyped /\ SourceHolds(taken) /\ taken \in Nat
      /\ consumed \in Seq(Nat) /\ Counts(consumed)
  BY StateFacts
<1> HIDE DEF taken
<1>2. /\ Input \in Seq(Nat)
      /\ \A i \in 1 .. Len(Input) : Input[i] = taken + i
  BY <1>1, InputWindow
<1>3. /\ part \in Seq(Nat) /\ Len(part) = read
      /\ \A i \in 1 .. read : part[i] = Input[i]
  BY <1>2
<1>4. \A i \in 1 .. Len(part) : part[i] = taken + i
  BY <1>2, <1>3
<1> HIDE DEF consumed, part
<1>5. /\ consumed \o part \in Seq(Nat)
      /\ Len(consumed \o part) = Len(consumed) + Len(part)
      /\ Counts(consumed \o part)
  BY <1>1, <1>3, <1>4, ConcatCounts DEF taken
<1> QED BY <1>3, <1>5 DEF Taken, consumed, part

\* A turn of the loop of buffered_compress keeps the invariant.
LEMMA CompressCall ==
  ASSUME Invariant, pc = "call", NEW read \in 0 .. Len(Input), NEW written \in 0 .. DestinationRoom,
         ContinueCall(Input, DestinationRoom, read, written),
         Buffered(read, cctx.out, written, "finish"), UNCHANGED pledgedSize
  PROVE  Invariant' /\ Advances
<1> DEFINE taken == Len(cctx.consumed)
<1>1. /\ result = "none" /\ SourceTyped /\ SourceHolds(taken) /\ taken \in Nat
      /\ cctx \in ContextType /\ cctx.made \in Nat /\ cctx.out \in Nat
  BY StateFacts DEF Invariant, LoopInvariant, OutcomeInPlace
<1>2. Len(Input) = sourceLength - inPos
  <2> HIDE DEF taken
  <2> QED BY <1>1, InputWindow
<1>3. /\ sourceBuffer \in BufferOf(SourceBufferLength)
      /\ source \in Nat /\ sourceLength \in Nat /\ inPos \in Nat /\ readPosition \in Nat
      /\ source + sourceLength <= SourceBufferLength /\ inPos <= sourceLength
      /\ read \in Nat /\ inPos + read <= sourceLength /\ written \in Nat
  BY <1>1, <1>2 DEF SourceTyped, DestinationRoom
<1>4. /\ cctx' \in ContextType /\ cctx'.out = cctx.out + written
      /\ cctx'.consumed = Taken(Input, read)
  <2>1. Taken(Input, read) \in Seq(Nat)
    BY TakenCounts
  <2>2. PICK made \in cctx.made .. Bound(Len(cctx.consumed) + read) :
          cctx' = [cctx EXCEPT !.started  = TRUE,
                               !.consumed = Taken(Input, read),
                               !.made     = made,
                               !.out      = @ + written]
    BY DEF ContinueCall
  <2>3. made \in Nat
    BY <1>1, <2>2
  <2>4. cctx.out + written \in Nat
    BY <1>1, <1>3
  <2> QED BY <1>1, <2>1, <2>2, <2>3, <2>4 DEF ContextType
<1>5. Len(cctx'.consumed) = taken + read /\ Counts(cctx'.consumed)
  BY <1>4, TakenCounts
<1>6. /\ Store(cctx.out, written)
      /\ \/ /\ FlushDestination(destinationLength + written)
            /\ inPos' = inPos + read
            /\ UNCHANGED <<source, sourceLength, called>>
         \/ /\ destinationLength' = destinationLength + written
            /\ source' = source + inPos + read
            /\ sourceLength' = sourceLength - (inPos + read)
            /\ inPos' = 0 /\ called' = TRUE
            /\ pc' \in {"finish", "read"} /\ result' = "none"
            /\ UNCHANGED <<destination, saved>>
      /\ UNCHANGED <<held, fileLength, readPosition, sourceBuffer, finished>>
  BY <1>1 DEF Buffered, CallAgain, CallLast, fileVars
<1>7. /\ DestinationTyped' /\ DestinationFaithful' /\ DestinationWindow'
      /\ Len(destination) <= Len(destination')
      /\ cctx.out <= cctx'.out
      /\ \/ UNCHANGED <<pc, result>>
         \/ /\ pc' = "release"
            /\ result' \in {"NotEnoughDestinationBufferError", "WriteIOError"}
         \/ pc' \in {"finish", "read"} /\ result' = "none" /\ inPos' = 0
  <2>1. CASE FlushDestination(destinationLength + written)
    <3>1. \/ UNCHANGED <<pc, result>>
          \/ /\ pc' = "release"
             /\ result' \in {"NotEnoughDestinationBufferError", "WriteIOError"}
      BY <2>1 DEF FlushDestination, Return
    <3> QED BY <1>1, <1>4, <1>6, <2>1, <3>1, DeliveredStep
  <2>2. CASE /\ destinationLength' = destinationLength + written
             /\ pc' \in {"finish", "read"} /\ result' = "none" /\ inPos' = 0
             /\ UNCHANGED <<destination, saved>>
    BY <1>1, <1>4, <1>6, <2>2, DeliveredStep
  <2> QED BY <1>6, <2>1, <2>2
<1>8. \/ /\ inPos' = inPos + read /\ UNCHANGED <<source, sourceLength, called>>
         /\ pc' \in {"call", "release"}
      \/ /\ source' = source + inPos + read
         /\ sourceLength' = sourceLength - (inPos + read)
         /\ inPos' = 0 /\ called' = TRUE
  <2>1. FlushDestination(destinationLength + written) => pc' \in {pc, "release"}
    BY DEF FlushDestination, Return
  <2> QED BY <1>6, <2>1
<1>9. SourceTyped'
  <2>1. UNCHANGED <<sourceBuffer, readPosition>>
    BY <1>6
  <2>2. /\ source' \in Nat /\ sourceLength' \in Nat /\ inPos' \in Nat
        /\ source' + sourceLength' <= SourceBufferLength /\ inPos' <= sourceLength'
    BY <1>3, <1>8
  <2> QED BY <1>3, <2>1, <2>2 DEF SourceTyped
<1>10. SourceWindow'
  <2>1. /\ Len(cctx'.consumed) = taken + read
        /\ taken + sourceLength = readPosition + inPos
        /\ taken \in Nat
        /\ \A i \in 0 .. sourceLength - 1 : sourceBuffer[source + i] + inPos = taken + i + 1
    BY <1>1, <1>5 DEF SourceHolds
  <2> HIDE DEF taken
  <2>2. CASE /\ inPos' = inPos + read /\ UNCHANGED <<source, sourceLength, called>>
             /\ pc' \in {"call", "release"}
    <3>1. taken + read + sourceLength' = readPosition' + inPos'
      BY <1>3, <1>6, <2>1, <2>2
    <3>2. ASSUME NEW i \in 0 .. sourceLength' - 1
          PROVE  sourceBuffer'[source' + i] + inPos' = taken + read + i + 1
      <4> DEFINE byte == sourceBuffer[source + i]
      <4>1. byte + inPos = taken + i + 1
        BY <2>1, <2>2
      <4>2. source + i \in 0 .. SourceBufferLength - 1
        BY <1>3, <2>2
      <4>3. byte \in Nat
        BY <1>3, <4>2 DEF BufferOf
      <4>4. sourceBuffer'[source' + i] = byte
        BY <1>6, <2>2
      <4> HIDE DEF byte
      <4> QED BY <1>3, <2>1, <2>2, <4>1, <4>3, <4>4
    <3> QED BY <2>1, <2>2, <3>1, <3>2 DEF SourceWindow
  <2>3. CASE /\ source' = source + inPos + read
             /\ sourceLength' = sourceLength - (inPos + read)
             /\ inPos' = 0
    <3>1. taken + read + sourceLength' = readPosition' + inPos'
      BY <1>3, <1>6, <2>1, <2>3
    <3>2. ASSUME NEW i \in 0 .. sourceLength' - 1
          PROVE  sourceBuffer'[source' + i] + inPos' = taken + read + i + 1
      <4> DEFINE k == inPos + read + i
                 byte == sourceBuffer[source + k]
      <4>1. k \in 0 .. sourceLength - 1 /\ source + k \in 0 .. SourceBufferLength - 1
        BY <1>3, <2>3
      <4>2. byte + inPos = taken + k + 1
        BY <2>1, <4>1
      <4>3. byte \in Nat
        BY <1>3, <4>1 DEF BufferOf
      <4>4. source' + i = source + k
        BY <1>3, <2>3
      <4>5. sourceBuffer'[source' + i] = byte
        BY <1>6, <4>4
      <4>6. k = inPos + read + i
        OBVIOUS
      <4> HIDE DEF byte, k
      <4> QED BY <1>3, <2>1, <2>3, <4>1, <4>2, <4>3, <4>5, <4>6
    <3> QED BY <2>1, <2>3, <3>1, <3>2 DEF SourceWindow
  <2> QED BY <1>8, <2>2, <2>3
<1>11. TypeOK'
  <2>1. /\ pc' \in {"call", "release", "finish", "read"}
        /\ result' \in {"none"} \union Errors
    BY <1>1, <1>7 DEF Errors
  <2>2. /\ UNCHANGED <<held, fileLength, readPosition, sourceBuffer, finished, pledgedSize>>
        /\ called' \in BOOLEAN
    BY <1>6, <1>8 DEF Invariant, TypeOK
  <2> QED BY <1>4, <1>7, <1>9, <2>1, <2>2
          DEF Invariant, TypeOK, SourceTyped, DestinationTyped
<1>12. LoopInvariant'
  <2>1. SourceFaithful'
    BY <1>5 DEF SourceFaithful, Counts
  <2>2. Untouched'
    BY <1>7 DEF Untouched
  <2>3. OutcomeInPlace'
    BY <1>1, <1>7 DEF OutcomeInPlace
  <2> QED BY <1>7, <1>10, <2>1, <2>2, <2>3 DEF LoopInvariant
<1>13. Advances
  <2>1. taken <= Len(cctx'.consumed)
    <3>1. Len(cctx'.consumed) = taken + read /\ taken \in Nat /\ read \in Nat
      BY <1>1, <1>3, <1>5
    <3> HIDE DEF taken
    <3> QED BY <3>1
  <2> QED BY <1>1, <1>7, <2>1 DEF Advances
<1> QED BY <1>11, <1>12, <1>13 DEF Invariant

\* A step that moves no byte; if it gives the call an outcome, it fails.
Rests ==
  /\ cctx'.consumed = cctx.consumed /\ cctx'.out = cctx.out
  /\ UNCHANGED destination
  /\ \/ result' = result
     \/ result = "none" /\ result' \notin {"none", "ok"}

\* A codec call that fails moves nothing and leaves the loops.
LEMMA FailedCall ==
  ASSUME Invariant, pc \in {"call", "finish"}, UNCHANGED <<cctx, pledgedSize>>,
         NEW error \in {"ValidateError", "AllocateError"}, CodecFails(error)
  PROVE  Invariant' /\ Rests
<1>1. /\ result = "none" /\ result' = error /\ pc' = "release"
      /\ UNCHANGED <<held, fileLength, readPosition, sourceBuffer, source, sourceLength,
                     inPos, called, finished, destinationBuffer, destinationLength,
                     destination, saved>>
  BY DEF Invariant, LoopInvariant, OutcomeInPlace, CodecFails, Return, fileVars, sourceVars,
         destinationVars
<1>2. TypeOK'
  BY <1>1 DEF Invariant, TypeOK, Errors
<1>3. LoopInvariant'
  BY <1>1, StillInvariant DEF Invariant, Still
<1> QED BY <1>1, <1>2, <1>3 DEF Invariant, Rests

\* Every outcome of the codec call of buffered_compress keeps the invariant.
LEMMA CompressStep ==
  ASSUME Invariant, Compress
  PROVE  Invariant' /\ (Advances \/ Rests)
<1>1. ASSUME NEW read \in 0 .. Len(Input), NEW written \in 0 .. DestinationRoom,
             ContinueCall(Input, DestinationRoom, read, written),
             Buffered(read, cctx.out, written, "finish")
      PROVE  Invariant' /\ Advances
  BY <1>1, CompressCall DEF Compress
<1>2. ASSUME NEW error \in {"ValidateError", "AllocateError"}, CodecFails(error),
             UNCHANGED cctx
      PROVE  Invariant' /\ Rests
  BY <1>2, FailedCall DEF Compress
<1> QED BY <1>1, <1>2 DEF Compress

\* Nothing of an empty input joins what the context has taken.
LEMMA NothingTaken ==
  ASSUME cctx \in ContextType
  PROVE  Taken(<<>>, 0) = cctx.consumed
<1>1. cctx.consumed \in Seq(Nat)
  BY DEF ContextType
<1> DEFINE consumed == cctx.consumed
<1> HIDE DEF consumed
<1>2. SubSeq(<<>>, 1, 0) = <<>> /\ consumed \o <<>> = consumed
  BY <1>1 DEF consumed
<1> QED BY <1>2 DEF Taken, consumed

\* A turn of the loop of buffered_compressor_finish keeps the invariant.
LEMMA FinishCall ==
  ASSUME Invariant, pc = "finish", UNCHANGED pledgedSize,
         NEW written \in 0 .. DestinationRoom, Store(cctx.out, written),
         UNCHANGED <<held, fileVars, sourceVars>>,
         \/ /\ EndPartly(<<>>, DestinationRoom, 0, written)
            /\ FlushDestination(destinationLength + written)
         \/ /\ EndWholly(<<>>, DestinationRoom, 0, written)
            /\ destinationLength' = destinationLength + written
            /\ pc' = "tail"
            /\ UNCHANGED <<result, destination, saved>>
  PROVE  Invariant' /\ Advances
<1>1. /\ result = "none" /\ SourceTyped /\ cctx \in ContextType
      /\ cctx.consumed \in Seq(Nat) /\ Counts(cctx.consumed)
      /\ cctx.out \in Nat /\ cctx.made \in Nat /\ written \in Nat
      /\ cctx.frames \in Nat
  BY StateFacts DEF Invariant, LoopInvariant, OutcomeInPlace, DestinationRoom, DestinationTyped,
                    ContextType
<1>2. cctx.out + written \in Nat /\ cctx.frames + 1 \in Nat
  BY <1>1
<1>3. /\ cctx' \in ContextType /\ cctx'.out = cctx.out + written
      /\ cctx'.consumed = cctx.consumed
  <2>1. CASE EndPartly(<<>>, DestinationRoom, 0, written)
    <3>1. PICK ended \in BOOLEAN, made \in cctx.made .. 1 + Bound(Len(cctx.consumed) + 0) :
            cctx' = [cctx EXCEPT
              !.started  = TRUE,
              !.consumed = Taken(<<>>, 0),
              !.made     = made,
              !.out      = @ + written,
              !.ended    = ended,
              !.pledged  = IF cctx.started \/ @ = NoPledge THEN @ ELSE Len(<<>>)]
      BY <2>1 DEF EndPartly
    <3>2. made \in Nat /\ Len(<<>>) \in Nat
      BY <1>1, <3>1
    <3> QED BY <1>1, <1>2, <3>1, <3>2, NothingTaken DEF ContextType
  <2>2. CASE EndWholly(<<>>, DestinationRoom, 0, written)
    <3>1. cctx' = [cctx EXCEPT
            !.started  = FALSE,
            !.consumed = Taken(<<>>, 0),
            !.made     = cctx.out + written,
            !.out      = @ + written,
            !.ended    = FALSE,
            !.frames   = @ + 1,
            !.pledged  = NoPledge]
      BY <2>2 DEF EndWholly
    <3> QED BY <1>1, <1>2, <3>1, NothingTaken DEF ContextType
  <2> QED BY <2>1, <2>2
<1>4. /\ DestinationTyped' /\ DestinationFaithful' /\ DestinationWindow'
      /\ Len(destination) <= Len(destination')
      /\ cctx.out <= cctx'.out
  BY <1>1, <1>3, DeliveredStep
<1>5. \/ pc' \in {"finish", "tail"} /\ result' = "none"
      \/ /\ pc' = "release"
         /\ result' \in {"NotEnoughDestinationBufferError", "WriteIOError"}
  BY <1>1 DEF FlushDestination, Return
<1>6. TypeOK'
  <2>1. /\ pc' \in {"finish", "tail", "release"}
        /\ result' \in {"none"} \union Errors
    BY <1>5 DEF Errors
  <2> QED BY <1>3, <1>4, <2>1
          DEF Invariant, TypeOK, DestinationTyped, fileVars, sourceVars
<1>7. LoopInvariant'
  <2>1. SourceFaithful'
    BY <1>1, <1>3 DEF SourceFaithful, Counts
  <2>2. Untouched' /\ SourceWindow'
    BY <1>5 DEF Untouched, SourceWindow
  <2>3. OutcomeInPlace'
    BY <1>5 DEF OutcomeInPlace
  <2> QED BY <1>4, <2>1, <2>2, <2>3 DEF LoopInvariant
<1>8. Advances
  <2>1. Len(cctx.consumed) <= Len(cctx'.consumed)
    BY <1>1, <1>3
  <2> QED BY <1>1, <1>4, <1>5, <2>1 DEF Advances
<1> QED BY <1>6, <1>7, <1>8 DEF Invariant

\* Every outcome of ZSTD_endStream in buffered_compressor_finish does.
LEMMA FinishStep ==
  ASSUME Invariant, Finish
  PROVE  Invariant' /\ (Advances \/ Rests)
<1>1. ASSUME NEW written \in 0 .. DestinationRoom,
             EndPartly(<<>>, DestinationRoom, 0, written),
             Store(cctx.out, written),
             FlushDestination(destinationLength + written),
             UNCHANGED <<held, fileVars, sourceVars>>
      PROVE  Invariant' /\ Advances
  BY <1>1, FinishCall DEF Finish
<1>2. ASSUME NEW written \in 0 .. DestinationRoom,
             EndWholly(<<>>, DestinationRoom, 0, written),
             Store(cctx.out, written),
             destinationLength' = destinationLength + written,
             pc' = "tail",
             UNCHANGED <<held, result, fileVars, sourceVars, destination, saved>>
      PROVE  Invariant' /\ Advances
  BY <1>2, FinishCall DEF Finish
<1>3. ASSUME NEW error \in {"ValidateError", "AllocateError"}, CodecFails(error),
             UNCHANGED cctx
      PROVE  Invariant' /\ Rests
  BY <1>3, FailedCall DEF Finish
<1> QED BY <1>1, <1>2, <1>3 DEF Finish

\* The step that gives the call its outcome when the loops are left.
Settles ==
  /\ result = "none" /\ result' # "none"
  /\ cctx' = cctx
  /\ Len(destination) <= Len(destination') /\ Len(destination') <= cctx.out
  /\ result' = "ok" => Len(destination') = cctx.out

\* write_remaining_destination keeps the invariant, and reports success only
\* when the destination has everything the context handed out.
LEMMA WriteRemainingStep ==
  ASSUME Invariant, WriteRemaining, UNCHANGED <<cctx, pledgedSize>>
  PROVE  Invariant' /\ Settles
<1> DEFINE delivered == Len(destination)
           out == cctx.out
<1>1. /\ pc = "tail" /\ result = "none" /\ pc' = "release"
      /\ destination \in Seq(Nat) /\ saved \in Nat
      /\ destinationBuffer' = destinationBuffer
      /\ destinationBuffer' \in BufferOf(DestinationBufferLength)
      /\ destinationLength \in 0 .. DestinationBufferLength
      /\ Counts(destination)
      /\ UNCHANGED <<held, fileVars, sourceVars, destinationLength>>
  BY StateFacts DEF Invariant, LoopInvariant, OutcomeInPlace, WriteRemaining, Return,
                    DestinationTyped
<1>2. /\ delivered \in Nat /\ out \in Nat /\ delivered + destinationLength = out
      /\ Holds(destinationBuffer, delivered, destinationLength)
  BY <1>1, StateFacts
<1>3. Holds(destinationBuffer', delivered, destinationLength)
  BY <1>1, <1>2
<1>4. ASSUME NEW accepted \in 0 .. destinationLength, Accepts(accepted)
      PROVE  /\ destination' \in Seq(Nat) /\ saved' \in Nat
             /\ Len(destination') = delivered + accepted /\ Counts(destination')
  BY <1>1, <1>3, <1>4, AcceptedCounts
<1>5. \E accepted \in 0 .. destinationLength :
        /\ destination' \in Seq(Nat) /\ saved' \in Nat
        /\ Len(destination') = delivered + accepted /\ Counts(destination')
        /\ \/ result' = "ok" /\ accepted = destinationLength
           \/ result' = "WriteIOError"
  <2>1. CASE destinationLength = 0 /\ Return("ok") /\ UNCHANGED <<destination, saved>>
    <3>1. 0 \in 0 .. destinationLength /\ Len(destination') = delivered + 0
      BY <1>1, <1>2, <2>1
    <3> QED BY <1>1, <2>1, <3>1 DEF Return
  <2>2. CASE destinationLength > 0 /\ Return("ok") /\ Accepts(destinationLength)
    <3>1. destinationLength \in 0 .. destinationLength
      BY <1>1
    <3> QED BY <1>4, <2>2, <3>1 DEF Return
  <2>3. CASE /\ Return("WriteIOError")
             /\ \E accepted \in 0 .. destinationLength - 1 : Accepts(accepted)
    <3>1. PICK accepted \in 0 .. destinationLength - 1 : Accepts(accepted)
      BY <2>3
    <3>2. accepted \in 0 .. destinationLength
      BY <1>1
    <3> QED BY <1>4, <2>3, <3>1, <3>2 DEF Return
  <2> QED BY <2>1, <2>2, <2>3 DEF WriteRemaining
<1>6. PICK accepted \in 0 .. destinationLength :
        /\ destination' \in Seq(Nat) /\ saved' \in Nat
        /\ Len(destination') = delivered + accepted /\ Counts(destination')
        /\ \/ result' = "ok" /\ accepted = destinationLength
           \/ result' = "WriteIOError"
  BY <1>5
<1> HIDE DEF delivered, out
<1>7. /\ delivered <= Len(destination') /\ Len(destination') <= out
      /\ result' = "ok" => Len(destination') = out
  BY <1>1, <1>2, <1>6
<1>8. TypeOK'
  BY <1>1, <1>6 DEF Invariant, TypeOK, Errors, fileVars, sourceVars
<1>9. LoopInvariant'
  <2>1. SourceFaithful'
    BY DEF Invariant, LoopInvariant, SourceFaithful
  <2>2. DestinationFaithful'
    BY <1>6, <1>7 DEF DestinationFaithful, Counts, out
  <2>3. Untouched' /\ SourceWindow'
    BY <1>1 DEF Untouched, SourceWindow
  <2>4. DestinationWindow'
    BY <1>6 DEF DestinationWindow
  <2>5. OutcomeInPlace'
    BY <1>1, <1>6 DEF OutcomeInPlace
  <2> QED BY <2>1, <2>2, <2>3, <2>4, <2>5 DEF LoopInvariant
<1>10. Settles
  BY <1>1, <1>6, <1>7 DEF Settles, delivered, out
<1> QED BY <1>8, <1>9, <1>10 DEF Invariant

\* The frees, fflush, an interrupt, a change of the file by others and a step
\* after the return keep the invariant.
LEMMA OtherStep ==
  ASSUME Invariant,
         \/ (Release \/ Fflush) /\ UNCHANGED <<cctx, pledgedSize>>
         \/ Interrupted \/ Changed \/ UNCHANGED vars
  PROVE  Invariant' /\ Rests
<1> USE DEF fileVars, sourceVars, destinationVars, ioVars
<1>1. CASE Release /\ UNCHANGED <<cctx, pledgedSize>>
  <2>1. TypeOK'
    BY <1>1 DEF Invariant, TypeOK, Release, Resources
  <2>2. LoopInvariant'
    BY <1>1, StillInvariant DEF Invariant, Release, Still, LoopInvariant, OutcomeInPlace
  <2>3. UNCHANGED <<cctx, destination, result>>
    BY <1>1 DEF Release
  <2>4. Rests
    BY <2>3 DEF Rests
  <2> QED BY <2>1, <2>2, <2>4 DEF Invariant
<1>2. CASE Fflush /\ UNCHANGED <<cctx, pledgedSize>>
  <2>1. saved' \in Nat
    BY <1>2 DEF Invariant, TypeOK, Fflush
  <2>2. TypeOK'
    BY <1>2, <2>1 DEF Invariant, TypeOK, Fflush
  <2>3. LoopInvariant'
    BY <1>2, StillInvariant DEF Invariant, Fflush, Still, LoopInvariant, OutcomeInPlace
  <2>4. UNCHANGED <<cctx, destination, result>>
    BY <1>2 DEF Fflush
  <2>5. Rests
    BY <2>4 DEF Rests
  <2> QED BY <2>2, <2>3, <2>5 DEF Invariant
<1>3. CASE Interrupted
  <2>1. TypeOK'
    BY <1>3 DEF Invariant, TypeOK, Interrupted, Interrupt, Raise, Errors
  <2>2. LoopInvariant'
    BY <1>3, StillInvariant
       DEF Invariant, Interrupted, Interrupt, Raise, Still, LoopInvariant, OutcomeInPlace
  <2> QED BY <1>3, <2>1, <2>2
          DEF Invariant, Interrupted, Interrupt, Raise, Rests, LoopInvariant, OutcomeInPlace
<1>4. CASE Changed
  <2>1. TypeOK'
    BY <1>4 DEF Invariant, TypeOK, Changed, FileChanges
  <2>2. LoopInvariant'
    BY <1>4, StillInvariant DEF Invariant, Changed, FileChanges, Still, LoopInvariant, OutcomeInPlace
  <2>3. UNCHANGED <<cctx, destination, result>>
    BY <1>4 DEF Changed, FileChanges
  <2>4. Rests
    BY <2>3 DEF Rests
  <2> QED BY <2>1, <2>2, <2>4 DEF Invariant
<1>5. CASE UNCHANGED vars
  <2>1. TypeOK'
    BY <1>5 DEF Invariant, TypeOK, vars
  <2>2. LoopInvariant'
    BY <1>5, StillInvariant DEF Invariant, vars, Still, LoopInvariant, OutcomeInPlace
  <2>3. UNCHANGED <<cctx, destination, result>>
    BY <1>5 DEF vars
  <2>4. Rests
    BY <2>3 DEF Rests
  <2> QED BY <2>1, <2>2, <2>4 DEF Invariant
<1> QED BY <1>1, <1>2, <1>3, <1>4, <1>5

\* Up to the loops, and when source is read, no byte reaches the context.
LEMMA RestingStep ==
  ASSUME Invariant, PledgeSize \/ Open \/ Create \/ ReadSource
  PROVE  Rests
<1> USE DEF fileVars, sourceVars, destinationVars, ioVars, Raise, Return
<1>1. pc \in {"open", "context", "options", "buffers", "read"} => result = "none"
  BY DEF Invariant, LoopInvariant, OutcomeInPlace
<1>2. CASE PledgeSize
  BY <1>2 DEF PledgeSize, Rests
<1>3. CASE Open
  BY <1>1, <1>3 DEF Open, OpenFiles, Rests
<1>4. CASE Create
  <2>1. CASE CreateContext /\ UNCHANGED cctx
    BY <1>1, <2>1 DEF CreateContext, Rests
  <2>2. CASE SetOptions /\ Pledge(pledgedSize)
    <3>1. cctx'.consumed = cctx.consumed /\ cctx'.out = cctx.out
      BY <2>2 DEF Pledge, Invariant, TypeOK, ContextType
    <3> QED BY <1>1, <2>2, <3>1 DEF SetOptions, OptionErrors, Rests
  <2>3. CASE CreateBuffers /\ UNCHANGED cctx
    BY <1>1, <2>3 DEF CreateBuffers, Rests
  <2> QED BY <1>4, <2>1, <2>2, <2>3 DEF Create
<1>5. CASE ReadSource
  <2>1. pc = "read" /\ UNCHANGED <<cctx, destination>>
    BY <1>5 DEF ReadSource, ReadMoreSource
  <2>2. \/ result' = result
        \/ result' \notin {"none", "ok"}
    BY <1>5 DEF ReadSource, ReadMoreSource, HasNoRoom, ReadBytes, ReadFails, ReadFinished
  <2> QED BY <1>1, <2>1, <2>2 DEF Rests
<1> QED BY <1>2, <1>3, <1>4, <1>5

\* The invariant is inductive, and every step moves bytes, gives the call its
\* outcome or rests.
LEMMA NextStep ==
  ASSUME Invariant, [Next]_vars
  PROVE  Invariant' /\ (Advances \/ Settles \/ Rests)
<1>1. CASE PledgeSize \/ Open \/ Create
  BY <1>1, StartStep, RestingStep
<1>2. CASE ReadSource
  BY <1>2, ReadStep, RestingStep
<1>3. CASE Compress
  BY <1>3, CompressStep
<1>4. CASE Finish
  BY <1>4, FinishStep
<1>5. CASE Complete
  BY <1>5, WriteRemainingStep, OtherStep DEF Complete
<1>6. CASE Interrupted \/ Changed \/ Done \/ UNCHANGED vars
  BY <1>6, OtherStep DEF Done
<1> QED BY <1>1, <1>2, <1>3, <1>4, <1>5, <1>6 DEF Next, Program

\* Types and the loop invariant hold in every state the call reaches.
LEMMA Inductive == Spec => []Invariant
<1>1. Init => Invariant
  BY InitInvariant
<1>2. Invariant /\ [Next]_vars => Invariant'
  BY NextStep
<1> QED BY <1>1, <1>2, PTL DEF Spec

\* Every variable of zstds_ext_compress_io keeps its type, and the offsets and
\* lengths into the two buffers stay inside them.
THEOREM TypeCorrect == Spec => []TypeOK
<1>1. Invariant => TypeOK
  BY DEF Invariant
<1> QED BY <1>1, Inductive, PTL

\* No byte is lost, repeated or out of place between the file, the buffers, the
\* context and the destination (io.c:83-189 and 223-371).
THEOREM LoopCorrect == Spec => []LoopInvariant
<1>1. Invariant => LoopInvariant
  BY DEF Invariant
<1> QED BY <1>1, Inductive, PTL

-----------------------------------------------------------------------------
\* A longer sequence that counts extends a shorter one, as Transfer says it.
LEMMA PromiseExtended ==
  ASSUME NEW s \in Seq(Nat), NEW t \in Seq(Nat), Counts(s), Counts(t), Len(s) <= Len(t)
  PROVE  t = Promise!Extended(s, Len(t) - Len(s))
BY ExtendedCounts DEF Promise!Extended

\* A step that moves bytes is a Call of the promise.
LEMMA AdvanceIsCall ==
  ASSUME Invariant, Invariant', Advances
  PROVE  Promise!Call
<1>1. /\ cctx.consumed \in Seq(Nat) /\ cctx'.consumed \in Seq(Nat)
      /\ destination \in Seq(Nat) /\ destination' \in Seq(Nat)
      /\ cctx.out \in Nat /\ cctx'.out \in Nat
      /\ Len(destination') <= cctx'.out
      /\ Counts(cctx.consumed) /\ Counts(cctx'.consumed)
      /\ Counts(destination) /\ Counts(destination')
  BY DEF Invariant, TypeOK, ContextType, LoopInvariant, SourceFaithful, DestinationFaithful,
         Counts
<1>2. /\ result = "none" /\ result' # "ok"
      /\ Len(cctx.consumed) <= Len(cctx'.consumed)
      /\ cctx.out <= cctx'.out
      /\ Len(destination) <= Len(destination')
  BY DEF Advances
<1>3. cctx'.consumed = Promise!Extended(cctx.consumed, Len(cctx'.consumed) - Len(cctx.consumed))
  BY <1>1, <1>2, PromiseExtended
<1>4. destination' = Promise!Extended(destination, Len(destination') - Len(destination))
  BY <1>1, <1>2, PromiseExtended
<1>5. Len(destination') \in Len(destination) .. cctx'.out
  BY <1>1, <1>2
<1>6. cctx'.out >= cctx.out /\ Len(cctx'.consumed) >= Len(cctx.consumed)
  BY <1>1, <1>2
<1>7. (CASE result = "none" -> "running" [] result = "ok" -> "ok" [] OTHER -> "failed")
        = "running"
  BY <1>2
<1>8. (CASE result' = "none" -> "running" [] result' = "ok" -> "ok" [] OTHER -> "failed")
        \in {"running", "failed"}
  <2>1. CASE result' = "none"
    BY <2>1
  <2>2. CASE result' # "none"
    BY <1>2, <2>2
  <2> QED BY <2>1, <2>2
<1> QED BY <1>1, <1>3, <1>4, <1>5, <1>6, <1>7, <1>8 DEF Promise!Call

\* The step that gives the outcome is a Succeed or a Fail of the promise.
LEMMA SettleIsOutcome ==
  ASSUME Invariant, Invariant', Settles
  PROVE  Promise!Succeed \/ Promise!Fail
<1>1. /\ destination \in Seq(Nat) /\ destination' \in Seq(Nat) /\ cctx.out \in Nat
      /\ Counts(destination) /\ Counts(destination')
  BY DEF Invariant, TypeOK, ContextType, LoopInvariant, DestinationFaithful, Counts
<1>2. /\ result = "none" /\ result' # "none" /\ cctx' = cctx
      /\ Len(destination) <= Len(destination') /\ Len(destination') <= cctx.out
      /\ result' = "ok" => Len(destination') = cctx.out
  BY DEF Settles
<1>3. destination' = Promise!Extended(destination, Len(destination') - Len(destination))
  BY <1>1, <1>2, PromiseExtended
<1>4. Len(destination') \in Len(destination) .. cctx.out
  BY <1>1, <1>2
<1>5. CASE result' = "ok"
  BY <1>2, <1>3, <1>5 DEF Promise!Succeed
<1>6. CASE result' # "ok"
  BY <1>2, <1>3, <1>4, <1>6 DEF Promise!Fail
<1> QED BY <1>5, <1>6

\* A step that moves no byte leaves the promise as it is, or fails.
LEMMA RestIsQuiet ==
  ASSUME Invariant, Rests
  PROVE  Promise!Fail \/ UNCHANGED Promise!vars
<1>1. /\ cctx'.consumed = cctx.consumed /\ cctx'.out = cctx.out
      /\ destination' = destination
      /\ destination \in Seq(Nat) /\ cctx.out \in Nat
      /\ Counts(destination) /\ Len(destination) <= cctx.out
  BY DEF Rests, Invariant, TypeOK, ContextType, LoopInvariant, DestinationFaithful, Counts
<1>2. CASE result' = result
  BY <1>1, <1>2 DEF Promise!vars
<1>3. CASE result = "none" /\ result' \notin {"none", "ok"}
  <2>1. destination' = Promise!Extended(destination, Len(destination') - Len(destination))
    BY <1>1, PromiseExtended
  <2>2. Len(destination') \in Len(destination) .. cctx.out
    BY <1>1
  <2> QED BY <1>1, <1>3, <2>1, <2>2 DEF Promise!Fail
<1> QED BY <1>2, <1>3 DEF Rests

\* The loops of io.c keep what Transfer promises the caller of File.compress.
THEOREM Implements == Spec => KeepsPromise
<1>1. Init => Promise!Init
  BY DEF Init, BufferedIOInit, NewContext, Promise!Init
<1>2. Invariant /\ Invariant' /\ [Next]_vars => [Promise!Next]_Promise!vars
  BY NextStep, AdvanceIsCall, SettleIsOutcome, RestIsQuiet DEF Promise!Next
<1> QED BY <1>1, <1>2, Inductive, PTL DEF Spec, KeepsPromise, Promise!Spec

-----------------------------------------------------------------------------
\* What the call holds at each place, until an interrupt jumps over the frees.
HeldInPlace ==
  /\ pc \in {"open", "context", "fflush"} => held = {}
  /\ pc \in {"options", "buffers"} => held = {"context"}
  /\ pc = "returned" /\ result # "Interrupted" => held = {}

\* Every way out but the interrupt frees the context and both buffers, whatever
\* allocation or call failed (io.c:54-75, 401-431).
THEOREM NothingLeaks == Spec => []NoLeak
<1>1. Init => HeldInPlace
  BY DEF Init, BufferedIOInit, HeldInPlace
<1>2. Invariant /\ HeldInPlace /\ [Next]_vars => HeldInPlace'
  <2> SUFFICES ASSUME Invariant, HeldInPlace, [Next]_vars PROVE HeldInPlace'
    OBVIOUS
  <2> USE DEF fileVars, sourceVars, destinationVars, ioVars, Raise, Return
  <2>1. /\ result = "none" <=> pc \notin {"release", "fflush", "returned"}
        /\ pc = "fflush" => result = "ok"
        /\ held \subseteq Resources
    BY DEF Invariant, TypeOK, LoopInvariant, OutcomeInPlace
  <2>2. CASE PledgeSize \/ Open
    BY <2>2 DEF PledgeSize, Open, OpenFiles, HeldInPlace
  <2>3. CASE Create
    BY <2>3 DEF Create, CreateContext, SetOptions, CreateBuffers, HeldInPlace
  <2>4. CASE ReadSource
    <3>1. pc' \in {"call", "finish", "release"}
      BY <2>4 DEF ReadSource, ReadMoreSource, HasNoRoom, ReadBytes, ReadFails, ReadFinished
    <3> QED BY <3>1 DEF HeldInPlace
  <2>5. CASE Compress
    <3>1. pc' \in {"call", "read", "finish", "release"}
      BY <2>5 DEF Compress, Buffered, CallAgain, CallLast, FlushDestination, CodecFails
    <3> QED BY <3>1 DEF HeldInPlace
  <2>6. CASE Finish
    <3>1. pc' \in {"finish", "tail", "release"}
      BY <2>6 DEF Finish, FlushDestination, CodecFails
    <3> QED BY <3>1 DEF HeldInPlace
  <2>7. CASE WriteRemaining
    BY <2>7 DEF WriteRemaining, HeldInPlace
  <2>8. CASE Release
    BY <2>1, <2>8 DEF Release, HeldInPlace
  <2>9. CASE Fflush /\ UNCHANGED <<cctx, pledgedSize>>
    BY <2>9 DEF Fflush, HeldInPlace
  <2>10. CASE Interrupted
    BY <2>10 DEF Interrupted, Interrupt, HeldInPlace
  <2>11. CASE Changed \/ Done \/ UNCHANGED vars
    BY <2>11 DEF Changed, FileChanges, Done, vars, HeldInPlace
  <2> QED BY <2>2, <2>3, <2>4, <2>5, <2>6, <2>7, <2>8, <2>9, <2>10, <2>11
          DEF Next, Program, Complete
<1>3. HeldInPlace => NoLeak
  BY DEF HeldInPlace, NoLeak
<1> QED BY <1>1, <1>2, <1>3, Inductive, PTL DEF Spec

-----------------------------------------------------------------------------
\* The frame the context is in has been announced with pledgedSize and is not
\* finished.
FrameOpen ==
  /\ cctx.frames = 0
  /\ pledgedSize # NoPledge /\ cctx.pledged = pledgedSize
  /\ called => cctx.started
  /\ cctx.ended => Len(cctx.consumed) = pledgedSize

\* The one frame is complete and has the announced size.
FrameClosed ==
  /\ cctx.frames = 1
  /\ Len(cctx.consumed) = pledgedSize
  /\ cctx.made = cctx.out

\* What the context knows of its frame at each place of the call.
FrameInPlace ==
  /\ pc \in {"open", "context", "options"} => cctx = NewContext
  /\ pc \in {"context", "options"} => pledgedSize # NoPledge
  /\ pc \in {"open", "context", "options", "buffers"} => called = FALSE
  /\ pc \in {"buffers", "read", "call", "finish"} => FrameOpen
  /\ pc \in {"buffers", "read", "call"} => ~cctx.ended
  /\ pc = "finish" => called
  /\ pc = "tail" \/ result = "ok" => FrameClosed
  /\ result = "ok" => Len(destination) = cctx.out

\* A codec call of buffered_compress leaves the frame open.
LEMMA CompressFrame ==
  ASSUME Invariant, FrameInPlace, Compress
  PROVE  FrameInPlace'
<1> USE DEF fileVars, sourceVars, destinationVars, ioVars, Return
<1>1. /\ pc = "call" /\ result = "none" /\ cctx \in ContextType
      /\ pledgedSize' = pledgedSize
      /\ FrameOpen /\ ~cctx.ended
  BY DEF Compress, Invariant, TypeOK, LoopInvariant, OutcomeInPlace, FrameInPlace
<1>2. ASSUME NEW read \in 0 .. Len(Input), NEW written \in 0 .. DestinationRoom,
             ContinueCall(Input, DestinationRoom, read, written),
             Buffered(read, cctx.out, written, "finish")
      PROVE  FrameInPlace'
  <2>1. /\ cctx'.frames = cctx.frames /\ cctx'.pledged = cctx.pledged
        /\ cctx'.started /\ cctx'.ended = cctx.ended
    BY <1>1, <1>2 DEF ContinueCall, ContextType
  <2>2. /\ pc' \in {"call", "read", "finish", "release"}
        /\ pc' = "finish" => called' = TRUE
        /\ result' # "ok"
    BY <1>1, <1>2 DEF Buffered, CallAgain, CallLast, FlushDestination
  <2>3. FrameOpen'
    BY <1>1, <2>1 DEF FrameOpen
  <2> QED BY <1>1, <2>1, <2>2, <2>3 DEF FrameInPlace
<1>3. ASSUME NEW error \in {"ValidateError", "AllocateError"}, CodecFails(error)
      PROVE  FrameInPlace'
  BY <1>3 DEF CodecFails, FrameInPlace
<1> QED BY <1>2, <1>3 DEF Compress

\* ZSTD_endStream closes the frame only at the size that was announced.
LEMMA FinishFrame ==
  ASSUME Invariant, FrameInPlace, Finish
  PROVE  FrameInPlace'
<1> USE DEF fileVars, sourceVars, destinationVars, ioVars, Return
<1>1. /\ pc = "finish" /\ result = "none" /\ cctx \in ContextType
      /\ pledgedSize' = pledgedSize
      /\ FrameOpen /\ called /\ cctx.started
      /\ Len(cctx.consumed) \in Nat /\ cctx.out \in Nat
  BY StateFacts DEF Finish, Invariant, TypeOK, LoopInvariant, OutcomeInPlace, FrameInPlace, FrameOpen
<1>2. Len(cctx.consumed) + Len(<<>>) = Len(cctx.consumed)
  <2> DEFINE taken == Len(cctx.consumed)
  <2>1. taken \in Nat /\ Len(<<>>) = 0
    BY <1>1
  <2> HIDE DEF taken
  <2>2. taken + Len(<<>>) = taken
    BY <2>1
  <2> QED BY <2>2 DEF taken
<1>3. ~EndRefused(<<>>) => Len(cctx.consumed) = pledgedSize
  BY <1>1, <1>2 DEF EndRefused, FrameOpen
<1>4. ASSUME NEW written \in 0 .. DestinationRoom,
             EndPartly(<<>>, DestinationRoom, 0, written),
             FlushDestination(destinationLength + written),
             UNCHANGED <<held, fileVars, sourceVars>>
      PROVE  FrameInPlace'
  <2>1. /\ cctx'.frames = cctx.frames /\ cctx'.pledged = cctx.pledged
        /\ cctx'.started /\ cctx'.consumed = cctx.consumed
    <3>1. PICK ended \in BOOLEAN, made \in cctx.made .. 1 + Bound(Len(cctx.consumed) + 0) :
            cctx' = [cctx EXCEPT
              !.started  = TRUE,
              !.consumed = Taken(<<>>, 0),
              !.made     = made,
              !.out      = @ + written,
              !.ended    = ended,
              !.pledged  = IF cctx.started \/ @ = NoPledge THEN @ ELSE Len(<<>>)]
      BY <1>4 DEF EndPartly
    <3> QED BY <1>1, <3>1, NothingTaken DEF ContextType
  <2>2. Len(cctx'.consumed) = pledgedSize'
    BY <1>1, <1>3, <1>4, <2>1 DEF EndPartly
  <2>3. pc' \in {"finish", "release"} /\ called' = called /\ result' # "ok"
    BY <1>1, <1>4 DEF FlushDestination
  <2>4. FrameOpen'
    BY <1>1, <2>1, <2>2 DEF FrameOpen
  <2> QED BY <1>1, <2>3, <2>4 DEF FrameInPlace
<1>5. ASSUME NEW written \in 0 .. DestinationRoom,
             EndWholly(<<>>, DestinationRoom, 0, written),
             pc' = "tail",
             UNCHANGED <<held, result, fileVars, sourceVars, destination, saved>>
      PROVE  FrameInPlace'
  <2>1. /\ cctx'.frames = cctx.frames + 1 /\ cctx'.consumed = cctx.consumed
        /\ cctx'.made = cctx'.out
    BY <1>1, <1>5, NothingTaken DEF EndWholly, ContextType
  <2>2. Len(cctx'.consumed) = pledgedSize'
    BY <1>1, <1>3, <1>5, <2>1 DEF EndWholly
  <2>3. FrameClosed'
    BY <1>1, <2>1, <2>2 DEF FrameClosed, FrameOpen
  <2> QED BY <1>1, <1>5, <2>3 DEF FrameInPlace
<1>6. ASSUME NEW error \in {"ValidateError", "AllocateError"}, CodecFails(error)
      PROVE  FrameInPlace'
  BY <1>6 DEF CodecFails, FrameInPlace
<1> QED BY <1>4, <1>5, <1>6 DEF Finish

\* The frame is where it should be in every state the call reaches.
LEMMA FrameHolds == Spec => []FrameInPlace
<1>1. Init => FrameInPlace
  BY DEF Init, BufferedIOInit, FrameInPlace
<1>2. Invariant /\ FrameInPlace /\ [Next]_vars => FrameInPlace'
  <2> SUFFICES ASSUME Invariant, FrameInPlace, [Next]_vars PROVE FrameInPlace'
    OBVIOUS
  <2> USE DEF fileVars, sourceVars, destinationVars, ioVars, Raise, Return
  <2>1. /\ result = "none" <=> pc \notin {"release", "fflush", "returned"}
        /\ cctx \in ContextType /\ pledgedSize \in Nat \union {NoPledge}
    BY DEF Invariant, TypeOK, LoopInvariant, OutcomeInPlace
  <2>2. CASE PledgeSize
    <3>1. pledgedSize' # NoPledge /\ UNCHANGED <<ioVars, cctx>> /\ pc = "open"
      BY <2>2 DEF PledgeSize, Invariant, TypeOK
    <3> QED BY <2>1, <3>1 DEF FrameInPlace
  <2>3. CASE Open
    BY <2>1, <2>3 DEF Open, OpenFiles, FrameInPlace
  <2>4. CASE CreateContext /\ UNCHANGED <<cctx, pledgedSize>>
    BY <2>1, <2>4 DEF CreateContext, FrameInPlace
  <2>5. CASE SetOptions /\ Pledge(pledgedSize) /\ UNCHANGED pledgedSize
    <3>1. /\ cctx'.frames = 0 /\ cctx'.pledged = pledgedSize /\ ~cctx'.ended
          /\ called = FALSE /\ called' = FALSE /\ pledgedSize # NoPledge
          /\ pc' \in {"buffers", "returned"} /\ result' # "ok"
      BY <2>1, <2>5 DEF SetOptions, OptionErrors, Pledge, FrameInPlace, NewContext
    <3>2. FrameOpen'
      BY <2>5, <3>1 DEF FrameOpen
    <3> QED BY <3>1, <3>2 DEF FrameInPlace
  <2>6. CASE CreateBuffers /\ UNCHANGED <<cctx, pledgedSize>>
    BY <2>1, <2>6 DEF CreateBuffers, FrameInPlace, FrameOpen
  <2>7. CASE ReadSource
    <3>1. /\ pc' \in {"call", "finish", "release"} /\ result' # "ok"
          /\ pc' = "finish" => called
          /\ UNCHANGED <<cctx, pledgedSize, called>> /\ pc = "read"
      BY <2>1, <2>7
         DEF ReadSource, ReadMoreSource, HasNoRoom, ReadBytes, ReadFails, ReadFinished
    <3> QED BY <3>1 DEF FrameInPlace, FrameOpen
  <2>8. CASE Compress
    BY <2>8, CompressFrame
  <2>9. CASE Finish
    BY <2>9, FinishFrame
  <2>10. CASE WriteRemaining /\ UNCHANGED <<cctx, pledgedSize>>
    <3>1. Settles
      BY <2>10, WriteRemainingStep
    <3>2. pc' = "release" /\ pc = "tail" /\ UNCHANGED <<cctx, pledgedSize>>
      BY <2>10 DEF WriteRemaining
    <3> QED BY <3>1, <3>2 DEF Settles, FrameInPlace, FrameClosed
  <2>11. CASE (Release \/ Fflush) /\ UNCHANGED <<cctx, pledgedSize>>
    <3>1. pc' \in {"fflush", "returned"} /\ UNCHANGED <<result, destination, cctx, pledgedSize>>
      BY <2>11 DEF Release, Fflush
    <3> QED BY <3>1 DEF FrameInPlace, FrameClosed
  <2>12. CASE Interrupted
    BY <2>12 DEF Interrupted, Interrupt, FrameInPlace
  <2>13. CASE Changed
    BY <2>13 DEF Changed, FileChanges, FrameInPlace, FrameOpen, FrameClosed
  <2>14. CASE Done \/ UNCHANGED vars
    BY <2>14 DEF Done, vars, FrameInPlace, FrameOpen, FrameClosed
  <2> QED BY <2>2, <2>3, <2>4, <2>5, <2>6, <2>7, <2>8, <2>9, <2>10, <2>11, <2>12, <2>13, <2>14
          DEF Next, Program, Create, Complete
<1> QED BY <1>1, <1>2, Inductive, PTL DEF Spec

\* Success means one whole frame of the size File.size announced, delivered in
\* full, even when the file changes meanwhile (file.rb:25, io.c:410-431).
THEOREM SuccessIsArchive == Spec => []OkMeansArchived
<1>1. FrameInPlace => OkMeansArchived
  BY DEF FrameInPlace, FrameClosed, OkMeansArchived
<1> QED BY <1>1, FrameHolds, PTL

-----------------------------------------------------------------------------
\* Whenever read_more_source is called nothing is left in the source buffer,
\* and neither error of a buffer too small has happened.
NothingLeft ==
  /\ pc \in {"open", "context", "options", "buffers", "read"} => sourceLength = 0
  /\ result \notin {"NotEnoughSourceBufferError", "NotEnoughDestinationBufferError"}

\* A blocking call takes the whole of its input unless the destination buffer
\* fills, and the buffer has at least a byte to flush then.
LEMMA CompressRest ==
  ASSUME Blocking, Invariant, NothingLeft, Compress
  PROVE  NothingLeft'
<1> USE DEF fileVars, sourceVars, destinationVars, ioVars, Return
<1>1. pc = "call" /\ result = "none"
  BY DEF Compress, Invariant, LoopInvariant, OutcomeInPlace
<1>2. ASSUME NEW read \in 0 .. Len(Input), NEW written \in 0 .. DestinationRoom,
             ContinueCall(Input, DestinationRoom, read, written),
             Buffered(read, cctx.out, written, "finish")
      PROVE  NothingLeft'
  <2> DEFINE taken == Len(cctx.consumed)
  <2>1. SourceTyped /\ DestinationTyped /\ SourceHolds(taken) /\ taken \in Nat
    BY <1>1, StateFacts
  <2>2. Len(Input) = sourceLength - inPos
    <3> HIDE DEF taken
    <3> QED BY <2>1, InputWindow
  <2>3. sourceLength \in Nat /\ inPos \in Nat /\ read \in Nat
    <3> HIDE DEF taken
    <3> QED BY <2>1, <2>2 DEF SourceTyped
  <2>4. destinationLength \in Nat /\ written \in Nat
    BY <2>1 DEF DestinationTyped, DestinationRoom
  <2>5. CASE /\ destinationLength + written = DestinationBufferLength
             /\ CallAgain(read, cctx.out, written)
    <3>1. FlushDestination(destinationLength + written) /\ destinationLength + written > 0
      BY <2>4, <2>5 DEF CallAgain
    <3>2. /\ pc' \in {"call", "release"}
          /\ result' \in {"none", "WriteIOError"}
      BY <1>1, <3>1 DEF FlushDestination
    <3> QED BY <3>2 DEF NothingLeft
  <2>6. CASE /\ destinationLength + written # DestinationBufferLength
             /\ CallLast(read, cctx.out, written, IF finished THEN "finish" ELSE "read")
    <3>1. sourceLength' = sourceLength - (inPos + read) /\ result' = result
      BY <2>6 DEF CallLast
    <3>2. read = Len(Input)
      <4>1. written # DestinationRoom
        BY <2>4, <2>6 DEF DestinationRoom
      <4> QED BY <1>2, <4>1 DEF ContinueCall
    <3>3. sourceLength' = 0
      BY <2>2, <2>3, <3>1, <3>2
    <3> QED BY <3>1, <3>3 DEF NothingLeft
  <2> QED BY <1>2, <2>5, <2>6 DEF Buffered
<1>3. ASSUME NEW error \in {"ValidateError", "AllocateError"}, CodecFails(error)
      PROVE  NothingLeft'
  BY <1>3 DEF CodecFails, NothingLeft
<1> QED BY <1>2, <1>3 DEF Compress

\* ZSTD_endStream that does not end the frame has filled the destination
\* buffer, so there is something to flush.
LEMMA FinishRest ==
  ASSUME Invariant, NothingLeft, Finish
  PROVE  NothingLeft'
<1> USE DEF fileVars, sourceVars, destinationVars, ioVars, Return
<1>1. pc = "finish" /\ result = "none"
  BY DEF Finish, Invariant, LoopInvariant, OutcomeInPlace
<1>2. ASSUME NEW written \in 0 .. DestinationRoom,
             EndPartly(<<>>, DestinationRoom, 0, written),
             FlushDestination(destinationLength + written)
      PROVE  NothingLeft'
  <2>1. destinationLength + written > 0
    <3>1. written = DestinationRoom
      BY <1>2 DEF EndPartly
    <3>2. destinationLength \in 0 .. DestinationBufferLength
      BY DEF Invariant, TypeOK
    <3> QED BY <3>1, <3>2 DEF DestinationRoom
  <2>2. pc' \in {"finish", "release"} /\ result' \in {"none", "WriteIOError"}
    BY <1>1, <1>2, <2>1 DEF FlushDestination
  <2> QED BY <2>2 DEF NothingLeft
<1>3. ASSUME pc' = "tail", UNCHANGED result
      PROVE  NothingLeft'
  BY <1>3 DEF NothingLeft
<1>4. ASSUME NEW error \in {"ValidateError", "AllocateError"}, CodecFails(error)
      PROVE  NothingLeft'
  BY <1>4 DEF CodecFails, NothingLeft
<1> QED BY <1>2, <1>3, <1>4 DEF Finish

\* Without workers buffers of any length of at least a byte suffice, and the
\* source never ends with a remainder (io.c:102, 131, 167).
THEOREM BlockingLeavesNothing == Blocking => (Spec => []NoRemainder)
<1> SUFFICES ASSUME Blocking PROVE Spec => []NoRemainder
  OBVIOUS
<1>1. Init => NothingLeft
  BY DEF Init, BufferedIOInit, NothingLeft
<1>2. Invariant /\ NothingLeft /\ [Next]_vars => NothingLeft'
  <2> SUFFICES ASSUME Invariant, NothingLeft, [Next]_vars PROVE NothingLeft'
    OBVIOUS
  <2> USE DEF fileVars, sourceVars, destinationVars, ioVars, Raise, Return
  <2>1. CASE PledgeSize \/ Open
    BY <2>1 DEF PledgeSize, Open, OpenFiles, NothingLeft
  <2>2. CASE Create
    BY <2>2 DEF Create, CreateContext, SetOptions, OptionErrors, CreateBuffers, NothingLeft
  <2>3. CASE ReadSource
    <3>1. Room # 0
      BY <2>3 DEF ReadSource, ReadMoreSource, NothingLeft, Room
    <3>2. /\ pc' \in {"call", "finish", "release"}
          /\ result' \in {result, "ReadIOError"}
      BY <2>3, <3>1
         DEF ReadSource, ReadMoreSource, HasNoRoom, ReadBytes, ReadFails, ReadFinished
    <3> QED BY <3>2 DEF NothingLeft
  <2>4. CASE Compress
    BY <2>4, CompressRest
  <2>5. CASE Finish
    BY <2>5, FinishRest
  <2>6. CASE WriteRemaining
    BY <2>6 DEF WriteRemaining, NothingLeft
  <2>7. CASE Release \/ Fflush
    BY <2>7 DEF Release, Fflush, NothingLeft
  <2>8. CASE Interrupted
    BY <2>8 DEF Interrupted, Interrupt, NothingLeft
  <2>9. CASE Changed \/ Done \/ UNCHANGED vars
    BY <2>9 DEF Changed, FileChanges, Done, vars, NothingLeft
  <2> QED BY <2>1, <2>2, <2>3, <2>4, <2>5, <2>6, <2>7, <2>8, <2>9
          DEF Next, Program, Complete
<1>3. NothingLeft => NoRemainder
  BY DEF NothingLeft, NoRemainder
<1> QED BY <1>1, <1>2, <1>3, Inductive, PTL DEF Spec

-----------------------------------------------------------------------------
\* The places of the call in the order in which they are met at last.
Place ==
  CASE pc = "open"     -> IF pledgedSize = NoPledge THEN 11 ELSE 10
    [] pc = "context"  -> 9
    [] pc = "options"  -> 8
    [] pc = "buffers"  -> 7
    [] pc = "call"     -> 6
    [] pc = "read"     -> 5
    [] pc = "finish"   -> 4
    [] pc = "tail"     -> 3
    [] pc = "release"  -> 2
    [] pc = "fflush"   -> 1
    [] pc = "returned" -> 0

\* What the loops can still do: fread a byte, make the one call of an empty
\* file, hand out a byte of the one frame.
LoopsLeft ==
  2 * (MaxFileLength - readPosition) + (IF finished THEN 0 ELSE 2)
    + ((MaxFileLength + Overhead) - cctx.out)

\* A bound on the steps the call can still take.
StepsLeft == LoopsLeft + Place

\* The loops stay within the file and the frame, the extra call is made only at
\* the end, and no codec call begins with a full destination buffer.
WithinBounds ==
  /\ readPosition <= MaxFileLength
  /\ Len(cctx.consumed) <= readPosition
  /\ cctx.out <= MaxFileLength + Overhead
  /\ pc \in {"open", "context", "options", "buffers", "read"} => ~finished
  /\ pc \in {"open", "context", "options", "buffers", "read", "call", "finish"} =>
       destinationLength < DestinationBufferLength

\* The bound is a number.
LEMMA StepsAreNumber ==
  ASSUME Invariant, WithinBounds
  PROVE  StepsLeft \in Nat /\ LoopsLeft \in Nat /\ Place \in Nat
<1>1. /\ readPosition \in Nat /\ cctx.out \in Nat /\ MaxFileLength \in Nat
      /\ Overhead \in Nat
      /\ readPosition <= MaxFileLength /\ cctx.out <= MaxFileLength + Overhead
  BY StateFacts, OverheadAssumption DEF Invariant, TypeOK, WithinBounds
<1>2. Place \in Nat
  BY DEF Invariant, TypeOK, Place
<1>3. LoopsLeft \in Nat
  BY <1>1 DEF LoopsLeft
<1> QED BY <1>2, <1>3 DEF StepsLeft

\* A step that spends more in the loops than it goes back.
LEMMA FewerSteps ==
  ASSUME LoopsLeft \in Nat, LoopsLeft' \in Nat, Place \in Nat, Place' \in Nat,
         NEW spent \in Nat, LoopsLeft' + spent = LoopsLeft, Place' < Place + spent
  PROVE  StepsLeft' < StepsLeft
<1> DEFINE a == LoopsLeft
           b == LoopsLeft'
           p == Place
           q == Place'
<1>1. /\ a \in Nat /\ b \in Nat /\ p \in Nat /\ q \in Nat
      /\ b + spent = a /\ q < p + spent
  OBVIOUS
<1>2. StepsLeft = a + p /\ StepsLeft' = b + q
  BY DEF StepsLeft
<1> HIDE DEF a, b, p, q
<1>3. b + q < a + p
  BY <1>1
<1> QED BY <1>2, <1>3

\* A step that leaves the loops alone and goes to a later place.
LEMMA LaterPlace ==
  ASSUME Invariant, WithinBounds,
         UNCHANGED <<readPosition, finished, cctx>>,
         Place' \in Nat, Place' < Place
  PROVE  StepsLeft' < StepsLeft
<1>1. LoopsLeft' = LoopsLeft
  BY DEF LoopsLeft
<1>2. LoopsLeft \in Nat /\ Place \in Nat
  BY StepsAreNumber
<1> HIDE DEF LoopsLeft, Place
<1>3. LoopsLeft' + 0 = LoopsLeft /\ Place' < Place + 0
  BY <1>1, <1>2
<1> QED BY <1>1, <1>2, <1>3, FewerSteps

\* fread takes at least a byte, or the end of the file is noticed.
LEMMA ReadCosts ==
  ASSUME Invariant, WithinBounds, ReadSource
  PROVE  WithinBounds' /\ StepsLeft' < StepsLeft
<1> USE DEF fileVars, sourceVars, destinationVars, ioVars, Return
<1>1. /\ pc = "read" /\ ~finished /\ finished \in BOOLEAN /\ called \in BOOLEAN
      /\ UNCHANGED <<cctx, destinationLength>>
      /\ fileLength \in Nat /\ fileLength <= MaxFileLength
      /\ readPosition \in Nat /\ readPosition <= MaxFileLength
      /\ MaxFileLength \in Nat
      /\ destinationLength < DestinationBufferLength
  BY DEF ReadSource, ReadMoreSource, WithinBounds, Invariant, TypeOK
<1>2. Unread \in Nat /\ (Unread > 0 => readPosition + Unread <= MaxFileLength)
  BY <1>1 DEF Unread
<1>3. Room \in Nat
  BY DEF Invariant, TypeOK, Room
<1>4. \/ /\ pc' \in {"release", "finish"} /\ readPosition' \in readPosition .. MaxFileLength
         /\ ~finished'
      \/ pc' = "call" /\ readPosition' \in readPosition + 1 .. MaxFileLength /\ ~finished'
      \/ pc' = "call" /\ readPosition' = readPosition /\ finished'
  <2> HIDE DEF Unread, Room
  <2>1. CASE HasNoRoom
    BY <1>1, <2>1 DEF HasNoRoom
  <2>2. CASE ReadBytes
    <3>1. PICK count \in Nat : count > 0 /\ count <= Unread /\ readPosition' = readPosition + count
      BY <1>2, <1>3, <2>2 DEF ReadBytes
    <3> QED BY <1>1, <1>2, <2>2, <3>1 DEF ReadBytes
  <2>3. CASE ReadFails
    <3>1. PICK count \in 0 .. Unread : readPosition' = readPosition + count
      BY <2>3 DEF ReadFails
    <3> QED BY <1>1, <1>2, <2>3, <3>1 DEF ReadFails
  <2>4. CASE ReadFinished("finish")
    <3>1. readPosition' = readPosition /\ readPosition' \in readPosition .. MaxFileLength
      BY <1>1, <2>4 DEF ReadFinished
    <3>2. \/ pc' = "release" /\ UNCHANGED finished
          \/ called /\ pc' = "finish" /\ finished' = ~called
          \/ ~called /\ pc' = "call" /\ finished' = ~called
      BY <2>4 DEF ReadFinished
    <3> QED BY <1>1, <3>1, <3>2
  <2> QED BY <2>1, <2>2, <2>3, <2>4 DEF ReadSource, ReadMoreSource
<1>5. WithinBounds'
  BY <1>1, <1>4 DEF WithinBounds
<1> DEFINE left == (MaxFileLength + Overhead) - cctx.out
<1>6. /\ left \in Nat /\ left' = left
  BY <1>1, StateFacts, OverheadAssumption DEF WithinBounds
<1> HIDE DEF left
<1>7. /\ LoopsLeft = 2 * (MaxFileLength - readPosition) + 2 + left
      /\ LoopsLeft' = 2 * (MaxFileLength - readPosition') + (IF finished' THEN 0 ELSE 2) + left
  BY <1>1, <1>6 DEF LoopsLeft, left
<1>8. /\ Place = 5
      /\ pc' = "call" => Place' = 6
      /\ pc' = "finish" => Place' = 4
      /\ pc' = "release" => Place' = 2
  BY <1>1 DEF Place
<1> HIDE DEF LoopsLeft, Place
<1>9. StepsLeft' < StepsLeft
  BY <1>1, <1>4, <1>6, <1>7, <1>8 DEF StepsLeft
<1> QED BY <1>5, <1>9

\* A codec call of the one frame, which stores written bytes.
LEMMA CallCosts ==
  ASSUME Invariant, WithinBounds,
         destinationLength < DestinationBufferLength,
         UNCHANGED <<readPosition, finished>>,
         NEW written \in Nat, NEW taken \in Nat,
         Len(cctx'.consumed) = taken, taken <= readPosition,
         cctx'.out = cctx.out + written,
         cctx.out + written <= taken + Overhead,
         Place' \in Nat, Place' < Place + written,
         pc' \in {"call", "read", "finish", "tail", "release"},
         pc' = "read" => ~finished,
         pc' \in {"call", "read", "finish"} => destinationLength' < DestinationBufferLength
  PROVE  WithinBounds' /\ StepsLeft' < StepsLeft
<1> DEFINE all   == MaxFileLength + Overhead
           rest  == 2 * (MaxFileLength - readPosition) + (IF finished THEN 0 ELSE 2)
           out   == cctx.out
           next  == cctx'.out
<1>1. /\ readPosition \in Nat /\ readPosition <= MaxFileLength /\ MaxFileLength \in Nat
      /\ out \in Nat /\ Overhead \in Nat
      /\ finished \in BOOLEAN
  BY StateFacts, OverheadAssumption DEF Invariant, TypeOK, WithinBounds
<1>2. all \in Nat /\ rest \in Nat
  BY <1>1
<1>3. next = out + written /\ next <= all
  <2> HIDE DEF out
  <2>1. taken <= readPosition /\ out + written <= taken + Overhead
    BY DEF out
  <2>2. out + written <= all
    BY <1>1, <2>1
  <2>3. next = out + written
    BY DEF next, out
  <2> QED BY <2>2, <2>3
<1>4. LoopsLeft = rest + (all - out) /\ LoopsLeft' = rest + (all - next)
  <2>1. LoopsLeft = rest + (all - out)
    BY DEF LoopsLeft
  <2>2. readPosition' = readPosition /\ finished' = finished
    OBVIOUS
  <2>3. LoopsLeft' = rest + (all - next)
    BY ONLY <2>2 DEF LoopsLeft
  <2> QED BY <2>1, <2>3
<1>5. WithinBounds'
  BY <1>1, <1>3 DEF WithinBounds
<1>6. Place \in Nat
  BY StepsAreNumber
<1> HIDE DEF all, rest, out, next, LoopsLeft, Place
<1>7. /\ rest + (all - out) \in Nat /\ rest + (all - next) \in Nat
      /\ rest + (all - next) + written = rest + (all - out)
  BY <1>1, <1>2, <1>3
<1>8. LoopsLeft \in Nat /\ LoopsLeft' \in Nat /\ LoopsLeft' + written = LoopsLeft
  BY <1>4, <1>7
<1>9. StepsLeft' < StepsLeft
  BY <1>6, <1>8, FewerSteps
<1> QED BY <1>5, <1>9

\* A codec call that fails leaves the loops.
LEMMA FailCosts ==
  ASSUME Invariant, WithinBounds, pc \in {"call", "finish"},
         NEW error, CodecFails(error), UNCHANGED cctx
  PROVE  WithinBounds' /\ StepsLeft' < StepsLeft
<1>1. pc' = "release" /\ UNCHANGED <<readPosition, finished, cctx>>
  BY DEF CodecFails, Return, fileVars, sourceVars
<1>2. WithinBounds'
  BY <1>1 DEF WithinBounds
<1>3. Place' \in Nat /\ Place' < Place
  BY <1>1 DEF Place
<1>4. StepsLeft' < StepsLeft
  <2> HIDE DEF Place
  <2> QED BY <1>1, <1>3, LaterPlace
<1> QED BY <1>2, <1>4

\* A call of buffered_compress that is to be repeated has handed out a byte.
LEMMA CompressCosts ==
  ASSUME Invariant, FrameInPlace, WithinBounds, Compress
  PROVE  WithinBounds' /\ StepsLeft' < StepsLeft
<1> USE DEF fileVars, sourceVars, destinationVars, ioVars, Return
<1>1. /\ pc = "call" /\ destinationLength < DestinationBufferLength
      /\ destinationLength \in Nat /\ DestinationBufferLength \in Nat
      /\ cctx \in ContextType /\ cctx.frames = 0
  BY DEF Compress, WithinBounds, Invariant, TypeOK, FrameInPlace, FrameOpen
<1>2. ASSUME NEW read \in 0 .. Len(Input), NEW written \in 0 .. DestinationRoom,
             ContinueCall(Input, DestinationRoom, read, written),
             Buffered(read, cctx.out, written, "finish")
      PROVE  WithinBounds' /\ StepsLeft' < StepsLeft
  <2> DEFINE taken == Len(cctx.consumed)
  <2>1. SourceTyped /\ SourceHolds(taken) /\ taken \in Nat
    BY <1>1, StateFacts
  <2>2. Len(Input) = sourceLength - inPos
    <3> HIDE DEF taken
    <3> QED BY <2>1, InputWindow
  <2>3. read \in Nat /\ taken + read <= readPosition
    <3> HIDE DEF taken
    <3> QED BY <2>1, <2>2 DEF SourceTyped, SourceHolds
  <2>4. written \in Nat /\ destinationLength + written <= DestinationBufferLength
    BY <1>1 DEF DestinationRoom
  <2>5. /\ cctx'.consumed = Taken(Input, read) /\ cctx'.out = cctx.out + written
        /\ \E made \in cctx.made .. Bound(taken + read) : cctx.out + written <= made
    BY <1>1, <1>2 DEF ContinueCall, ContextType
  <2>6. cctx.out + written <= taken + read + Overhead
    <3> DEFINE out == cctx.out
    <3>1. out \in Nat /\ cctx.made \in Nat /\ Overhead \in Nat
      BY <1>1, OverheadAssumption DEF ContextType
    <3>2. Bound(taken + read) = taken + read + Overhead - 1
      <4> DEFINE position == taken + read
      <4>1. position \in Nat
        BY <2>1, <2>3
      <4> HIDE DEF position
      <4>2. Bound(position) = position + Overhead - 1
        BY <1>1, <3>1, <4>1 DEF Bound
      <4> QED BY <4>2 DEF position
    <3>3. PICK made \in cctx.made .. Bound(taken + read) : out + written <= made
      BY <2>5
    <3> HIDE DEF taken, out
    <3>4. out + written <= taken + read + Overhead
      BY <2>1, <2>3, <2>4, <3>1, <3>2, <3>3
    <3> QED BY <3>4 DEF taken, out
  <2>7. Len(cctx'.consumed) = taken + read
    BY <1>1, <2>5, TakenCounts
  <2>8. CASE /\ destinationLength + written = DestinationBufferLength
             /\ CallAgain(read, cctx.out, written)
    <3>1. written > 0
      BY <1>1, <2>4, <2>8
    <3>2. \/ pc' = "call" /\ destinationLength' < DestinationBufferLength
          \/ pc' = "release"
      BY <1>1, <2>8 DEF CallAgain, FlushDestination
    <3>3. Place' \in Nat /\ Place' < Place + written
      BY <1>1, <2>4, <3>1, <3>2 DEF Place
    <3>4. UNCHANGED <<readPosition, finished>>
      BY <1>2, <2>8 DEF Buffered, CallAgain
    <3>5. /\ pc' \in {"call", "read", "finish", "tail", "release"} /\ (pc' = "read" => ~finished)
          /\ pc' \in {"call", "read", "finish"} => destinationLength' < DestinationBufferLength
      BY <3>2
    <3>6. taken + read \in Nat
      BY <2>1, <2>3
    <3> DEFINE position == taken + read
    <3>7. /\ position \in Nat /\ Len(cctx'.consumed) = position /\ position <= readPosition
          /\ cctx.out + written <= position + Overhead
      BY <2>3, <2>6, <2>7, <3>6
    <3> HIDE DEF position, Place
    <3> QED BY <1>1, <2>4, <2>5, <3>3, <3>4, <3>5, <3>7, CallCosts
  <2>9. CASE /\ destinationLength + written # DestinationBufferLength
             /\ CallLast(read, cctx.out, written, IF finished THEN "finish" ELSE "read")
    <3>1. /\ pc' = IF finished THEN "finish" ELSE "read"
          /\ destinationLength' = destinationLength + written
      BY <2>9 DEF CallLast
    <3>2. destinationLength' < DestinationBufferLength
      BY <1>1, <2>4, <2>9, <3>1
    <3>3. Place' \in Nat /\ Place' < Place + written
      BY <1>1, <2>4, <3>1 DEF Place
    <3>4. UNCHANGED <<readPosition, finished>>
      BY <1>2, <2>9 DEF Buffered, CallLast
    <3>5. /\ pc' \in {"call", "read", "finish", "tail", "release"} /\ (pc' = "read" => ~finished)
          /\ pc' \in {"call", "read", "finish"} => destinationLength' < DestinationBufferLength
      BY <3>1, <3>2
    <3>6. taken + read \in Nat
      BY <2>1, <2>3
    <3> DEFINE position == taken + read
    <3>7. /\ position \in Nat /\ Len(cctx'.consumed) = position /\ position <= readPosition
          /\ cctx.out + written <= position + Overhead
      BY <2>3, <2>6, <2>7, <3>6
    <3> HIDE DEF position, Place
    <3> QED BY <1>1, <2>4, <2>5, <3>3, <3>4, <3>5, <3>7, CallCosts
  <2> QED BY <1>2, <2>8, <2>9 DEF Buffered
<1> QED BY <1>1, <1>2, FailCosts DEF Compress

\* ZSTD_endStream that is to be repeated has handed out a byte.
LEMMA FinishCosts ==
  ASSUME Invariant, FrameInPlace, WithinBounds, Finish
  PROVE  WithinBounds' /\ StepsLeft' < StepsLeft
<1> USE DEF fileVars, sourceVars, destinationVars, ioVars, Return
<1> DEFINE taken == Len(cctx.consumed)
<1>1. /\ pc = "finish" /\ destinationLength < DestinationBufferLength
      /\ destinationLength \in Nat /\ DestinationBufferLength \in Nat
      /\ cctx \in ContextType /\ cctx.frames = 0
      /\ taken \in Nat /\ taken <= readPosition /\ readPosition \in Nat
  BY StateFacts DEF Finish, WithinBounds, Invariant, TypeOK, FrameInPlace, FrameOpen
<1>2. cctx.out \in Nat /\ cctx.made \in Nat /\ Overhead \in Nat /\ taken + 0 = taken
  BY <1>1, OverheadAssumption DEF ContextType
<1>3. 1 + Bound(taken + 0) = taken + 0 + Overhead
  <2> HIDE DEF taken
  <2> QED BY <1>1, <1>2 DEF Bound
<1>4. ASSUME NEW written \in 0 .. DestinationRoom,
             EndPartly(<<>>, DestinationRoom, 0, written),
             FlushDestination(destinationLength + written),
             UNCHANGED <<held, fileVars, sourceVars>>
      PROVE  WithinBounds' /\ StepsLeft' < StepsLeft
  <2>1. written \in Nat /\ written > 0
    BY <1>1, <1>4 DEF EndPartly, DestinationRoom
  <2>2. /\ cctx'.out = cctx.out + written /\ cctx'.consumed = cctx.consumed
        /\ cctx.out + written <= taken + 0 + Overhead
    <3>1. PICK ended \in BOOLEAN, made \in cctx.made .. 1 + Bound(taken + 0) :
            /\ IF ended THEN cctx.out + written < made ELSE cctx.out + written <= made
            /\ cctx' = [cctx EXCEPT
                 !.started  = TRUE,
                 !.consumed = Taken(<<>>, 0),
                 !.made     = made,
                 !.out      = @ + written,
                 !.ended    = ended,
                 !.pledged  = IF cctx.started \/ @ = NoPledge THEN @ ELSE Len(<<>>)]
      BY <1>4 DEF EndPartly
    <3>2. cctx'.out = cctx.out + written /\ cctx'.consumed = cctx.consumed
      BY <1>1, <3>1, NothingTaken DEF ContextType
    <3>3. cctx.out + written <= taken + 0 + Overhead
      <4> DEFINE out == cctx.out
      <4>1. out + written <= made
        BY <1>2, <2>1, <3>1
      <4> HIDE DEF taken, out
      <4>2. out \in Nat
        BY <1>2 DEF out
      <4>3. out + written <= taken + 0 + Overhead
        BY <1>1, <1>2, <1>3, <2>1, <4>1, <4>2
      <4> QED BY <4>3 DEF out
    <3> QED BY <3>2, <3>3
  <2>5. \/ pc' = "finish" /\ destinationLength' < DestinationBufferLength
        \/ pc' \in {"tail", "release"}
    BY <1>1, <1>4, <2>1 DEF FlushDestination
  <2>6. Place' \in Nat /\ Place' < Place + written
    BY <1>1, <2>1, <2>5 DEF Place
  <2>7. UNCHANGED <<readPosition, finished>>
    BY <1>4
  <2>8. /\ taken \in Nat /\ Len(cctx'.consumed) = taken /\ taken <= readPosition
        /\ cctx.out + written <= taken + Overhead
    BY <1>1, <1>2, <2>2
  <2>9. /\ pc' \in {"call", "read", "finish", "tail", "release"} /\ (pc' = "read" => ~finished)
        /\ pc' \in {"call", "read", "finish"} => destinationLength' < DestinationBufferLength
    BY <2>5
  <2> HIDE DEF Place, taken
  <2> QED BY <1>1, <2>1, <2>2, <2>6, <2>7, <2>8, <2>9, CallCosts
<1>5. ASSUME NEW written \in 0 .. DestinationRoom,
             EndWholly(<<>>, DestinationRoom, 0, written),
             pc' = "tail",
             UNCHANGED <<held, result, fileVars, sourceVars, destination, saved>>
      PROVE  WithinBounds' /\ StepsLeft' < StepsLeft
  <2>1. written \in Nat
    BY <1>1 DEF DestinationRoom
  <2>2. /\ cctx'.out = cctx.out + written /\ cctx'.consumed = cctx.consumed
        /\ cctx.out + written <= 1 + Bound(taken + 0)
    BY <1>1, <1>5, NothingTaken DEF EndWholly, ContextType
  <2>3. Place' \in Nat /\ Place' < Place + written
    BY <1>1, <1>5, <2>1 DEF Place
  <2>4. UNCHANGED <<readPosition, finished>>
    BY <1>5
  <2>5. /\ pc' \in {"call", "read", "finish", "tail", "release"} /\ (pc' = "read" => ~finished)
        /\ pc' \in {"call", "read", "finish"} => destinationLength' < DestinationBufferLength
    BY <1>5
  <2>6. /\ taken \in Nat /\ Len(cctx'.consumed) = taken /\ taken <= readPosition
        /\ cctx.out + written <= taken + Overhead
    BY <1>1, <1>2, <1>3, <2>2
  <2> HIDE DEF Place, taken
  <2> QED BY <1>1, <2>1, <2>2, <2>3, <2>4, <2>5, <2>6, CallCosts
<1> QED BY <1>1, <1>4, <1>5, FailCosts DEF Finish

\* Every other step of the call goes to a later place.
LEMMA OtherCosts ==
  ASSUME Invariant, WithinBounds,
         \/ PledgeSize \/ Open \/ Create \/ Interrupted
         \/ (WriteRemaining \/ Release \/ Fflush) /\ UNCHANGED <<cctx, pledgedSize>>
  PROVE  WithinBounds' /\ StepsLeft' < StepsLeft
<1> USE DEF fileVars, sourceVars, destinationVars, ioVars, Raise, Return
<1>1. /\ UNCHANGED <<readPosition, finished>>
      /\ cctx'.out = cctx.out /\ cctx'.consumed = cctx.consumed
  BY DEF PledgeSize, Open, Create, OpenFiles, CreateContext, SetOptions, CreateBuffers,
         WriteRemaining, Release, Fflush, Interrupted, Interrupt, Pledge,
         Invariant, TypeOK, ContextType
<1>2. \/ pc = "open" /\ pc' = "open" /\ UNCHANGED destinationLength
         /\ pledgedSize = NoPledge /\ pledgedSize' # NoPledge
      \/ pc = "open" /\ pc' = "context" /\ UNCHANGED destinationLength
      \/ pc = "context" /\ pc' = "options" /\ UNCHANGED destinationLength
      \/ pc = "options" /\ pc' = "buffers" /\ UNCHANGED destinationLength
      \/ pc = "buffers" /\ pc' = "read" /\ UNCHANGED destinationLength
      \/ pc \in {"open", "context", "options", "buffers", "call", "finish", "release", "fflush"}
         /\ pc' = "returned"
      \/ pc = "tail" /\ pc' = "release"
      \/ pc = "release" /\ pc' = "fflush"
  <2>1. CASE PledgeSize
    BY <2>1, NoPledgeAssumption DEF PledgeSize, Invariant, TypeOK
  <2>2. CASE ~PledgeSize
    BY <2>2 DEF Open, Create, OpenFiles, CreateContext, SetOptions, CreateBuffers,
                WriteRemaining, Release, Fflush, Interrupted, Interrupt
  <2> QED BY <2>1, <2>2
<1>3. WithinBounds'
  BY <1>1, <1>2 DEF WithinBounds
<1>4. Place' \in Nat /\ Place' < Place
  BY <1>2 DEF Place
<1>5. LoopsLeft' = LoopsLeft
  BY <1>1 DEF LoopsLeft
<1>6. LoopsLeft \in Nat /\ Place \in Nat
  BY StepsAreNumber
<1> HIDE DEF LoopsLeft, Place
<1>7. LoopsLeft' + 0 = LoopsLeft /\ Place' < Place + 0
  BY <1>4, <1>5, <1>6
<1>8. StepsLeft' < StepsLeft
  BY <1>4, <1>5, <1>6, <1>7, FewerSteps
<1> QED BY <1>3, <1>8

\* File.compress cannot go round forever: each step brings it nearer to its
\* end, with workers too, however small the buffers, and another process that
\* changes the file does not bring it farther away (io.c:123-154, 238-330).
THEOREM StepsRunOut ==
  Spec => /\ [](StepsLeft \in Nat)
          /\ [][StepsLeft' < StepsLeft \/ (Changed /\ StepsLeft' = StepsLeft)]_vars
<1> DEFINE Runs == StepsLeft' < StepsLeft \/ (Changed /\ StepsLeft' = StepsLeft)
<1>1. Init => WithinBounds
  <2> SUFFICES ASSUME Init PROVE WithinBounds
    OBVIOUS
  <2>1. Len(<<>>) = 0 /\ Overhead \in Nat
    BY OverheadAssumption
  <2> QED BY <2>1 DEF Init, BufferedIOInit, NewContext, WithinBounds
<1>2. Invariant /\ FrameInPlace /\ WithinBounds /\ [Next]_vars
        => WithinBounds' /\ (Runs \/ UNCHANGED vars)
  <2> SUFFICES ASSUME Invariant, FrameInPlace, WithinBounds, [Next]_vars
               PROVE  WithinBounds' /\ (Runs \/ UNCHANGED vars)
    OBVIOUS
  <2> HIDE DEF Runs
  <2>1. (WithinBounds' /\ StepsLeft' < StepsLeft) => WithinBounds' /\ Runs
    BY DEF Runs
  <2>2. CASE PledgeSize \/ Open \/ Create \/ Complete \/ Interrupted
    BY <2>1, <2>2, OtherCosts DEF Complete
  <2>3. CASE ReadSource
    BY <2>1, <2>3, ReadCosts
  <2>4. CASE Compress
    BY <2>1, <2>4, CompressCosts
  <2>5. CASE Finish
    BY <2>1, <2>5, FinishCosts
  <2>6. CASE Changed
    <3>1. UNCHANGED <<pc, readPosition, finished, destinationLength, cctx, pledgedSize>>
      BY <2>6 DEF Changed, FileChanges, sourceVars, destinationVars
    <3>2. WithinBounds' /\ StepsLeft' = StepsLeft
      BY <3>1 DEF WithinBounds, StepsLeft, LoopsLeft, Place
    <3> QED BY <2>6, <3>2 DEF Runs
  <2>7. CASE Done \/ UNCHANGED vars
    <3>1. UNCHANGED vars
      BY <2>7 DEF Done
    <3> QED BY <3>1 DEF vars, ioVars, fileVars, sourceVars, destinationVars, WithinBounds
  <2> QED BY <2>2, <2>3, <2>4, <2>5, <2>6, <2>7 DEF Next, Program
<1>3. Invariant /\ WithinBounds => StepsLeft \in Nat
  BY StepsAreNumber
<1>4. Runs \/ UNCHANGED vars => [Runs]_vars
  OBVIOUS
<1> QED BY <1>1, <1>2, <1>3, <1>4, Inductive, FrameHolds, PTL DEF Spec

=============================================================================
