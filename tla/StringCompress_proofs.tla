----------------------- MODULE StringCompress_proofs -----------------------
(***************************************************************************)
(* Theorems of StringCompress for every length of the source and of the    *)
(* pieces the destination string grows by, with and without workers,       *)
(* failures and interrupts.                                                *)
(***************************************************************************)
EXTENDS StringCompress, SequenceTheorems, TLAPS

USE DestinationBufferAssumption, MaxSourceLengthAssumption, SwitchAssumption

-----------------------------------------------------------------------------
\* The destination string: what a codec call stores, what a resize keeps, and
\* what each step of string.c keeps of both.

\* The first n bytes in order.
Numbers(n) == [i \in 1 .. n |-> i]

\* The bytes behind the first a of them continue them.
LEMMA NumbersContinue ==
  ASSUME NEW a \in Nat, NEW b \in Nat
  PROVE  /\ Numbers(a) \in Seq(Nat) /\ Len(Numbers(a)) = a
         /\ Numbers(a) \o [i \in 1 .. b |-> a + i] = Numbers(a + b)
<1> DEFINE rest == [i \in 1 .. b |-> a + i]
<1>1. /\ Numbers(a) \in Seq(Nat) /\ Len(Numbers(a)) = a
      /\ \A i \in 1 .. a : Numbers(a)[i] = i
  BY DEF Numbers
<1>2. rest \in Seq(Nat) /\ Len(rest) = b /\ \A i \in 1 .. b : rest[i] = a + i
  OBVIOUS
<1>3. /\ Numbers(a + b) \in Seq(Nat) /\ Len(Numbers(a + b)) = a + b
      /\ \A i \in 1 .. a + b : Numbers(a + b)[i] = i
  BY DEF Numbers
<1> HIDE DEF rest
<1>4. /\ Numbers(a) \o rest \in Seq(Nat) /\ Len(Numbers(a) \o rest) = a + b
      /\ \A i \in 1 .. a + b :
           (Numbers(a) \o rest)[i] = IF i <= a THEN Numbers(a)[i] ELSE rest[i - a]
  <2> DEFINE first == Numbers(a)
  <2>1. first \in Seq(Nat) /\ Len(first) = a
    BY <1>1
  <2> HIDE DEF first
  <2>2. /\ first \o rest \in Seq(Nat) /\ Len(first \o rest) = a + b
        /\ \A i \in 1 .. a + b : (first \o rest)[i] = IF i <= a THEN first[i] ELSE rest[i - a]
    <3>1. /\ first \o rest \in Seq(Nat) /\ Len(first \o rest) = Len(first) + Len(rest)
          /\ \A i \in 1 .. Len(first) + Len(rest) :
               (first \o rest)[i] = IF i <= Len(first) THEN first[i] ELSE rest[i - Len(first)]
      <4>1. rest \in Seq(Nat)
        BY <1>2
      <4> QED BY ONLY <2>1, <4>1, ConcatProperties
    <3>2. Len(first) = a /\ Len(rest) = b
      BY <1>2, <2>1
    <3> QED BY <3>1, <3>2
  <2> QED BY <2>2 DEF first
<1>5. ASSUME NEW i \in 1 .. a + b PROVE (Numbers(a) \o rest)[i] = Numbers(a + b)[i]
  <2>1. i > a => rest[i - a] = i
    <3> SUFFICES ASSUME i > a PROVE rest[i - a] = i
      OBVIOUS
    <3> DEFINE k == i - a
    <3>1. k \in 1 .. b /\ a + k = i
      OBVIOUS
    <3> HIDE DEF k
    <3>2. rest[k] = i
      BY <1>2, <3>1
    <3> QED BY <3>2 DEF k
  <2>2. Numbers(a + b)[i] = i
    BY <1>3
  <2>3. (Numbers(a) \o rest)[i] = IF i <= a THEN Numbers(a)[i] ELSE rest[i - a]
    BY <1>4
  <2>4. i <= a => Numbers(a)[i] = i
    BY <1>1
  <2>5. i <= a \/ i > a
    OBVIOUS
  <2> QED BY <2>1, <2>2, <2>3, <2>4, <2>5
<1>6. Numbers(a) \o rest = Numbers(a + b)
  BY <1>3, <1>4, <1>5, SeqEqual
<1> QED BY <1>1, <1>6 DEF rest

-----------------------------------------------------------------------------
\* What is written is at the top of the destination string, in order.
DestinationHolds ==
  /\ destinationLength <= Len(destinationValue)
  /\ \A i \in 1 .. destinationLength : destinationValue[i] = i

\* Before the loop nothing has moved.
Untouched ==
  pc \in {"context", "options", "buffer"} =>
    inPos = 0 /\ destinationLength = 0 /\ remaining = DestinationBufferLength

\* What every step of string.c keeps of the string, its length and the room
\* left in it, whatever the codec does.
StringInvariant ==
  /\ StringBufferType
  /\ DestinationHolds
  /\ Untouched
  /\ pc = "call" => Len(destinationValue) = destinationLength + remaining
  /\ result = "none" <=> pc \notin {"release", "returned"}

\* A step that moves bytes at most, and does not take the call to success.
Moves ==
  /\ result = "none" /\ result' # "ok"
  /\ inPos <= inPos' /\ destinationLength <= destinationLength'

\* A step that moves no byte.
Stays == UNCHANGED <<inPos, destinationLength, result>>

\* The bytes delivered from a string that holds them are the first, in order.
LEMMA Delivered ==
  ASSUME NEW value \in Seq(Nat), NEW length \in Nat, length <= Len(value),
         \A i \in 1 .. length : value[i] = i
  PROVE  SubSeq(value, 1, length) = Numbers(length)
<1> DEFINE part == SubSeq(value, 1, length)
<1>1. /\ part \in Seq(Nat) /\ Len(part) = length
      /\ \A i \in 1 .. length : part[i] = value[i]
  OBVIOUS
<1> HIDE DEF part
<1>2. /\ Numbers(length) \in Seq(Nat) /\ Len(Numbers(length)) = length
      /\ \A i \in 1 .. length : Numbers(length)[i] = i
  BY DEF Numbers
<1>3. part = Numbers(length)
  BY <1>1, <1>2, SeqEqual
<1> QED BY <1>3 DEF part

\* What a codec call takes of the source continues what it has taken.
LEMMA InputTaken ==
  ASSUME StringInvariant, NEW read \in 0 .. Len(Input)
  PROVE  /\ Len(Input) = sourceLength - inPos
         /\ inPos \in Nat /\ sourceLength \in Nat /\ read \in Nat
         /\ inPos + read \in 0 .. sourceLength
         /\ Numbers(inPos) \o SubSeq(Input, 1, read) = Numbers(inPos + read)
<1>1. sourceLength \in Nat /\ inPos \in Nat /\ inPos <= sourceLength
  BY DEF StringInvariant, StringBufferType
<1> DEFINE n == sourceLength - inPos
<1>2. n \in Nat
  BY <1>1
<1>3. Input = [i \in 1 .. n |-> inPos + i]
  BY DEF Input
<1> HIDE DEF n
<1>4. Input \in Seq(Nat) /\ Len(Input) = n /\ \A i \in 1 .. n : Input[i] = inPos + i
  BY <1>1, <1>2, <1>3
<1>5. read \in Nat /\ read <= n
  BY <1>2, <1>4
<1> DEFINE part == SubSeq(Input, 1, read)
           rest == [i \in 1 .. read |-> inPos + i]
<1>6. part \in Seq(Nat) /\ Len(part) = read /\ \A i \in 1 .. read : part[i] = inPos + i
  BY <1>2, <1>4, <1>5
<1>7. rest \in Seq(Nat) /\ Len(rest) = read /\ \A i \in 1 .. read : rest[i] = inPos + i
  BY <1>1, <1>5
<1> HIDE DEF part, rest
<1>8. part = rest
  BY <1>5, <1>6, <1>7, SeqEqual
<1>9. Numbers(inPos) \o rest = Numbers(inPos + read)
  BY <1>1, <1>5, NumbersContinue DEF rest
<1>10. inPos + read \in 0 .. sourceLength
  BY <1>1, <1>2, <1>5 DEF n
<1> QED BY <1>1, <1>4, <1>5, <1>8, <1>9, <1>10 DEF n, part

\* A resize keeps the bytes there is room for.
LEMMA ResizedKeeps ==
  ASSUME NEW s \in Seq(Nat), NEW length \in Nat
  PROVE  /\ Resized(s, length) \in Seq(Nat) /\ Len(Resized(s, length)) = length
         /\ \A i \in 1 .. length : i <= Len(s) => Resized(s, length)[i] = s[i]
<1>1. \A i \in 1 .. length : (IF i <= Len(s) THEN s[i] ELSE 0) \in Nat
  OBVIOUS
<1>2. Resized(s, length) = [i \in 1 .. length |-> IF i <= Len(s) THEN s[i] ELSE 0]
  BY DEF Resized
<1> QED BY <1>1, <1>2

\* A codec call stores the next bytes behind those that are written.
LEMMA StoredHolds ==
  ASSUME StringInvariant, pc = "call", NEW written \in 0 .. remaining
  PROVE  /\ Stored(destinationLength, written) \in Seq(Nat)
         /\ Len(Stored(destinationLength, written)) = Len(destinationValue)
         /\ destinationLength + written \in Nat
         /\ destinationLength + written <= Len(destinationValue)
         /\ remaining - written \in 0 .. DestinationBufferLength
         /\ \A i \in 1 .. destinationLength + written : Stored(destinationLength, written)[i] = i
<1>1. /\ destinationValue \in Seq(Nat) /\ destinationLength \in Nat
      /\ remaining \in Nat /\ remaining <= DestinationBufferLength
      /\ \A i \in 1 .. destinationLength : destinationValue[i] = i
      /\ written \in Nat /\ written <= remaining
  BY DEF StringInvariant, StringBufferType, DestinationHolds
<1> DEFINE n == Len(destinationValue)
<1>2. n \in Nat /\ n = destinationLength + remaining
  BY <1>1 DEF StringInvariant
<1>3. \A i \in 1 .. n : destinationValue[i] \in Nat
  BY <1>1
<1>4. Stored(destinationLength, written) = [i \in 1 .. n |->
        IF i > destinationLength /\ i <= destinationLength + written
        THEN destinationLength + i - destinationLength
        ELSE destinationValue[i]]
  BY DEF Stored
<1> HIDE DEF n
<1>5. \A i \in 1 .. n :
        (IF i > destinationLength /\ i <= destinationLength + written
         THEN destinationLength + i - destinationLength
         ELSE destinationValue[i]) \in Nat
  BY <1>1, <1>2, <1>3
<1>6. Stored(destinationLength, written) \in Seq(Nat) /\ Len(Stored(destinationLength, written)) = n
  BY <1>2, <1>4, <1>5
<1>7. destinationLength + written \in Nat /\ destinationLength + written <= n
  BY <1>1, <1>2
<1>8. ASSUME NEW i \in 1 .. destinationLength + written
      PROVE  Stored(destinationLength, written)[i] = i
  <2>1. i \in 1 .. n
    BY <1>2, <1>7
  <2>2. CASE i <= destinationLength
    BY <1>1, <1>4, <2>1, <2>2
  <2>3. CASE i > destinationLength
    <3>1. Stored(destinationLength, written)[i] = destinationLength + i - destinationLength
      BY <1>1, <1>4, <2>1, <2>3
    <3> QED BY <1>1, <3>1
  <2> QED BY <1>1, <2>2, <2>3
<1>9. remaining - written \in 0 .. DestinationBufferLength
  BY <1>1
<1> QED BY <1>6, <1>7, <1>8, <1>9 DEF n
-----------------------------------------------------------------------------
\* The invariant holds when a call begins (string.c:120-147, 228-259).
LEMMA InitString == StringBufferInit => StringInvariant
<1> SUFFICES ASSUME StringBufferInit PROVE StringInvariant
  OBVIOUS
<1>1. Len(<<>>) = 0 /\ <<>> \in Seq(Nat)
  OBVIOUS
<1>2. DestinationHolds
  BY <1>1 DEF StringBufferInit, DestinationHolds
<1>3. StringBufferType
  <2>1. sourceLength \in 0 .. MaxSourceLength /\ sourceLength \in Nat /\ inPos = 0
    BY DEF StringBufferInit
  <2>2. inPos \in 0 .. sourceLength
    BY <2>1
  <2>3. remaining \in 0 .. DestinationBufferLength
    BY DEF StringBufferInit
  <2> QED BY <1>1, <2>1, <2>2, <2>3 DEF StringBufferInit, StringBufferType
<1> QED BY <1>2, <1>3 DEF StringBufferInit, StringInvariant, Untouched

\* The steps before the loop move nothing.
LEMMA StartStep ==
  ASSUME StringInvariant, CreateContext \/ SetOptions \/ CreateBuffer
  PROVE  StringInvariant' /\ (Stays \/ Moves)
<1> USE DEF callVars, destinationVars, stringVars, Raise
<1>1. /\ StringBufferType /\ DestinationHolds /\ Untouched
      /\ result = "none" <=> pc \notin {"release", "returned"}
  BY DEF StringInvariant
<1>2. CASE CreateContext \/ SetOptions
  <2>1. /\ UNCHANGED <<sourceLength, inPos, destinationValue, destinationLength, remaining>>
        /\ pc \in {"context", "options"} /\ result = "none" /\ held' \in BOOLEAN
        /\ \/ pc' \in {"options", "buffer"} /\ result' = "none"
           \/ pc' = "returned" /\ result' \in OptionErrors
    BY <1>1, <1>2 DEF CreateContext, SetOptions, OptionErrors, StringBufferType
  <2>2. StringInvariant'
    BY <1>1, <2>1 DEF StringInvariant, StringBufferType, DestinationHolds, Untouched, Errors, OptionErrors
  <2>3. Stays \/ Moves
    BY <1>1, <2>1 DEF Stays, Moves, StringBufferType, OptionErrors
  <2> QED BY <2>2, <2>3
<1>3. CASE CreateBuffer
  <2>1. /\ UNCHANGED <<sourceLength, inPos, destinationLength, remaining>>
        /\ pc = "buffer" /\ result = "none" /\ held' \in BOOLEAN
        /\ inPos = 0 /\ destinationLength = 0 /\ remaining = DestinationBufferLength
        /\ \/ /\ pc' = "call" /\ result' = "none"
              /\ destinationValue' = Resized(<<>>, DestinationBufferLength)
           \/ pc' = "returned" /\ result' = "AllocateError" /\ UNCHANGED destinationValue
    BY <1>1, <1>3 DEF CreateBuffer, StringBufferType, Untouched
  <2>2. /\ Resized(<<>>, DestinationBufferLength) \in Seq(Nat)
        /\ Len(Resized(<<>>, DestinationBufferLength)) = DestinationBufferLength
    <3>1. <<>> \in Seq(Nat) /\ DestinationBufferLength \in Nat
      OBVIOUS
    <3> QED BY <3>1, ResizedKeeps
  <2>3. /\ destinationValue' \in Seq(Nat)
        /\ pc' = "call" => Len(destinationValue') = DestinationBufferLength
    BY <1>1, <2>1, <2>2 DEF StringBufferType
  <2>4. DestinationHolds'
    BY <2>1, <2>3 DEF DestinationHolds
  <2>5. pc' = "call" => Len(destinationValue') = destinationLength' + remaining'
    BY <2>1, <2>3
  <2>6. StringBufferType'
    BY <1>1, <2>1, <2>3 DEF StringBufferType, Errors
  <2>7. StringInvariant'
    BY <2>1, <2>4, <2>5, <2>6 DEF StringInvariant, Untouched
  <2>8. Stays \/ Moves
    BY <1>1, <2>1 DEF Stays, Moves, StringBufferType
  <2> QED BY <2>7, <2>8
<1> QED BY <1>2, <1>3

\* What a turn of the loop does when the codec has taken read and written
\* written bytes, whether the loop goes on or not.
LEMMA CallStep ==
  ASSUME StringInvariant, pc = "call", NEW read \in 0 .. Len(Input), NEW written \in 0 .. remaining,
         \/ CallAgain(read, destinationLength, written)
         \/ CallLast(read, destinationLength, written)
  PROVE  /\ StringInvariant' /\ Moves
         /\ inPos' = inPos + read /\ destinationLength' = destinationLength + written
<1> USE DEF Return
<1>1. /\ StringBufferType /\ DestinationHolds /\ result = "none"
      /\ destinationLength \in Nat /\ remaining \in Nat /\ written \in Nat
  BY DEF StringInvariant, StringBufferType
<1>2. inPos \in Nat /\ read \in Nat /\ inPos + read \in 0 .. sourceLength
  BY InputTaken
<1> DEFINE stored == Stored(destinationLength, written)
           length == destinationLength + written
<1>3. /\ stored \in Seq(Nat) /\ Len(stored) = Len(destinationValue)
      /\ length \in Nat /\ length <= Len(stored)
      /\ remaining - written \in 0 .. DestinationBufferLength
      /\ \A i \in 1 .. length : stored[i] = i
  BY StoredHolds
<1>4. /\ UNCHANGED <<held, sourceLength>>
      /\ inPos' = inPos + read /\ destinationLength' = length
      /\ \/ /\ pc' \in {"release", "resize"}
            /\ pc' = "release" => result' \in {"NotEnoughDestinationBufferError", "AllocateError"}
            /\ pc' = "resize" => result' = "none"
            /\ destinationValue' = stored /\ remaining' = remaining - written
         \/ /\ pc' = "call" /\ result' = "none"
            /\ destinationValue' = Resized(stored, length + DestinationBufferLength)
            /\ remaining' = DestinationBufferLength
  BY <1>1 DEF CallAgain, CallLast
<1> HIDE DEF stored, length
<1>5. ASSUME pc' \in {"release", "resize"}, destinationValue' = stored,
             remaining' = remaining - written
      PROVE  StringInvariant'
  <2>1. DestinationHolds'
    BY <1>3, <1>4, <1>5 DEF DestinationHolds
  <2>2. StringBufferType'
    BY <1>1, <1>2, <1>3, <1>4, <1>5 DEF StringBufferType, Errors
  <2>3. Untouched' /\ pc' # "call"
    BY <1>5 DEF Untouched
  <2>4. result' = "none" <=> pc' \notin {"release", "returned"}
    BY <1>4, <1>5
  <2> QED BY <2>1, <2>2, <2>3, <2>4 DEF StringInvariant
<1>6. ASSUME pc' = "call", result' = "none",
             destinationValue' = Resized(stored, length + DestinationBufferLength),
             remaining' = DestinationBufferLength
      PROVE  StringInvariant'
  <2>1. length + DestinationBufferLength \in Nat /\ length <= length + DestinationBufferLength
    BY <1>3
  <2>2. /\ destinationValue' \in Seq(Nat)
        /\ Len(destinationValue') = length + DestinationBufferLength
        /\ \A i \in 1 .. length + DestinationBufferLength : i <= Len(stored) => destinationValue'[i] = stored[i]
    BY <1>3, <1>6, <2>1, ResizedKeeps
  <2>3. ASSUME NEW i \in 1 .. length PROVE destinationValue'[i] = i
    <3>1. i \in 1 .. length + DestinationBufferLength /\ i <= Len(stored)
      <4> DEFINE n == Len(stored)
      <4>1. n \in Nat /\ length <= n
        BY <1>3
      <4> HIDE DEF n
      <4>2. i <= n /\ i \in 1 .. length + DestinationBufferLength
        BY <1>3, <4>1
      <4> QED BY <4>2 DEF n
    <3> QED BY <1>3, <2>2, <3>1
  <2>4. DestinationHolds'
    BY <1>4, <2>1, <2>2, <2>3 DEF DestinationHolds
  <2>5. StringBufferType'
    BY <1>1, <1>2, <1>3, <1>4, <1>6, <2>2 DEF StringBufferType
  <2>6. Len(destinationValue') = destinationLength' + remaining'
    BY <1>4, <1>6, <2>2
  <2>7. Untouched'
    BY <1>6 DEF Untouched
  <2> QED BY <1>6, <2>4, <2>5, <2>6, <2>7 DEF StringInvariant
<1>7. StringInvariant'
  BY <1>4, <1>5, <1>6
<1>8. Moves
  <2>1. inPos <= inPos' /\ destinationLength <= destinationLength'
    BY <1>1, <1>2, <1>4 DEF length
  <2> QED BY <1>1, <1>4, <2>1 DEF Moves
<1> QED BY <1>4, <1>7, <1>8 DEF length

\* An error of the codec or of a resize, or an interrupt, moves nothing.
LEMMA FailStep ==
  ASSUME StringInvariant, pc \in {"call", "resize"}, NEW error \in Errors,
         result' = error, pc' \in {"release", "returned"},
         UNCHANGED <<held, sourceLength, inPos, destinationVars>>
  PROVE  StringInvariant' /\ Moves /\ UNCHANGED <<inPos, destinationLength>>
<1> USE DEF destinationVars
<1>1. /\ StringBufferType /\ DestinationHolds /\ result = "none"
      /\ result' \notin {"none", "ok"}
  BY DEF StringInvariant, Errors
<1>2. StringInvariant'
  BY <1>1 DEF StringInvariant, StringBufferType, DestinationHolds, Untouched
<1>3. Moves
  BY <1>1 DEF Moves, StringBufferType
<1> QED BY <1>2, <1>3

\* The last resize leaves exactly what is written (string.c:105, 223).
LEMMA ResizeStep ==
  ASSUME StringInvariant, Resize
  PROVE  /\ StringInvariant' /\ result = "none" /\ result' = "ok"
         /\ UNCHANGED <<inPos, destinationLength>>
         /\ Len(destinationValue') = destinationLength
<1> USE DEF Return
<1>1. /\ StringBufferType /\ DestinationHolds /\ pc = "resize" /\ result = "none"
      /\ pc' = "release" /\ result' = "ok"
      /\ UNCHANGED <<held, sourceLength, inPos, destinationLength, remaining>>
      /\ destinationValue' = Resized(destinationValue, destinationLength)
  BY DEF StringInvariant, Resize
<1>2. /\ destinationValue \in Seq(Nat) /\ destinationLength \in Nat
      /\ destinationLength <= Len(destinationValue)
      /\ \A i \in 1 .. destinationLength : destinationValue[i] = i
  BY <1>1 DEF StringBufferType, DestinationHolds
<1>3. /\ destinationValue' \in Seq(Nat) /\ Len(destinationValue') = destinationLength
      /\ \A i \in 1 .. destinationLength : i <= Len(destinationValue) => destinationValue'[i] = destinationValue[i]
  BY <1>1, <1>2, ResizedKeeps
<1>4. DestinationHolds'
  <2>1. destinationLength' <= Len(destinationValue')
    BY <1>1, <1>2, <1>3
  <2>2. ASSUME NEW i \in 1 .. destinationLength PROVE destinationValue'[i] = i
    <3> DEFINE n == Len(destinationValue)
    <3>1. n \in Nat /\ destinationLength <= n
      BY <1>2
    <3> HIDE DEF n
    <3>2. i <= n
      BY <1>2, <3>1
    <3> QED BY <1>2, <1>3, <3>2 DEF n
  <2> QED BY <1>1, <2>1, <2>2 DEF DestinationHolds
<1>5. StringBufferType'
  BY <1>1, <1>3 DEF StringBufferType
<1>6. StringInvariant'
  BY <1>1, <1>4, <1>5 DEF StringInvariant, Untouched
<1> QED BY <1>1, <1>3, <1>6

\* The release moves nothing (string.c:148-154, 266-272).
LEMMA ReleaseStep ==
  ASSUME StringInvariant, Release
  PROVE  StringInvariant' /\ Stays
BY DEF Release, destinationVars, StringInvariant, StringBufferType, DestinationHolds, Untouched, Stays

\* A step that changes no variable of the string keeps the invariant.
LEMMA IdleStep ==
  ASSUME StringInvariant, UNCHANGED stringVars
  PROVE  StringInvariant' /\ Stays
BY DEF stringVars, callVars, destinationVars, StringInvariant, StringBufferType, DestinationHolds,
       Untouched, Stays

-----------------------------------------------------------------------------
USE OverheadAssumption, BlockingAssumption, NoPledgeAssumption

\* The context has taken the source up to in_buffer.pos, each byte once, and
\* all it has handed out is in the destination string.
ContextInPlace ==
  /\ cctx \in ContextType
  /\ cctx.consumed = Numbers(inPos)
  /\ cctx.out = destinationLength

\* What every step keeps.
Invariant == StringInvariant /\ ContextInPlace

\* The last resize is the step to success.
Succeeds ==
  /\ result = "none" /\ result' = "ok"
  /\ UNCHANGED <<inPos, destinationLength>>

\* The invariant holds when a call begins.
LEMMA InitInvariant == Init => Invariant
<1> SUFFICES ASSUME Init PROVE Invariant
  OBVIOUS
<1>1. StringInvariant
  BY InitString DEF Init
<1>2. Numbers(0) = <<>>
  BY DEF Numbers
<1>3. ContextInPlace
  BY <1>2 DEF Init, StringBufferInit, NewContext, ContextInPlace, ContextType
<1> QED BY <1>1, <1>3 DEF Invariant

\* A turn of the loop with a call of the codec keeps the invariant.
LEMMA CompressCall ==
  ASSUME Invariant, pc = "call", NEW read \in 0 .. Len(Input), NEW written \in 0 .. remaining,
         \/ /\ EndPartly(Input, remaining, read, written)
            /\ CallAgain(read, cctx.out, written)
         \/ /\ EndWholly(Input, remaining, read, written)
            /\ CallLast(read, cctx.out, written)
  PROVE  Invariant' /\ Moves
<1>1. StringInvariant /\ cctx \in ContextType /\ cctx.out = destinationLength /\ cctx.consumed = Numbers(inPos)
  BY DEF Invariant, ContextInPlace
<1>2. /\ StringInvariant' /\ Moves
      /\ inPos' = inPos + read /\ destinationLength' = destinationLength + written
  BY <1>1, CallStep
<1>3. /\ inPos \in Nat /\ read \in Nat /\ written \in Nat /\ inPos + read \in Nat
      /\ Taken(Input, read) = Numbers(inPos + read)
      /\ Taken(Input, read) \in Seq(Nat)
  <2>1. /\ inPos \in Nat /\ read \in Nat /\ inPos + read \in 0 .. sourceLength
        /\ Numbers(inPos) \o SubSeq(Input, 1, read) = Numbers(inPos + read)
    BY <1>1, InputTaken
  <2>2. inPos + read \in Nat /\ written \in Nat
    BY <2>1
  <2>3. Numbers(inPos + read) \in Seq(Nat)
    BY <2>2, NumbersContinue
  <2> QED BY <1>1, <2>1, <2>2, <2>3 DEF Taken
<1>4. /\ cctx.out + written \in Nat /\ cctx.made \in Nat /\ cctx.frames \in Nat
      /\ cctx.frames + 1 \in Nat
  BY <1>1, <1>3 DEF ContextType
<1>5. CASE EndPartly(Input, remaining, read, written)
  <2>1. PICK ended \in BOOLEAN, made \in cctx.made .. 1 + Bound(Len(cctx.consumed) + read) :
          cctx' = [cctx EXCEPT
            !.started  = TRUE,
            !.consumed = Taken(Input, read),
            !.made     = made,
            !.out      = @ + written,
            !.ended    = ended,
            !.pledged  = IF cctx.started \/ @ = NoPledge THEN @ ELSE Len(Input)]
    BY <1>5 DEF EndPartly
  <2>2. made \in Nat
    BY <1>4, <2>1
  <2>3. Len(Input) \in Nat
    <3>1. Len(Input) = sourceLength - inPos /\ inPos \in Nat /\ sourceLength \in Nat /\ inPos <= sourceLength
      BY <1>1, InputTaken DEF StringInvariant, StringBufferType
    <3> QED BY <3>1
  <2>4. cctx' \in ContextType /\ cctx'.consumed = Numbers(inPos + read) /\ cctx'.out = cctx.out + written
    BY <1>1, <1>3, <1>4, <2>1, <2>2, <2>3 DEF ContextType
  <2> QED BY <1>1, <1>2, <2>4 DEF Invariant, ContextInPlace
<1>6. CASE EndWholly(Input, remaining, read, written)
  <2>1. cctx' \in ContextType /\ cctx'.consumed = Numbers(inPos + read) /\ cctx'.out = cctx.out + written
    BY <1>1, <1>3, <1>4, <1>6 DEF EndWholly, ContextType
  <2> QED BY <1>1, <1>2, <2>1 DEF Invariant, ContextInPlace
<1> QED BY <1>5, <1>6

\* A step that leaves the context alone keeps the invariant of the context.
LEMMA QuietContext ==
  ASSUME Invariant, StringInvariant', UNCHANGED <<inPos, destinationLength>>,
         cctx' \in ContextType, cctx'.consumed = cctx.consumed, cctx'.out = cctx.out
  PROVE  Invariant'
BY DEF Invariant, ContextInPlace, Numbers

\* Every step keeps the invariant, and moves bytes, succeeds, or does nothing
\* the caller can see.
LEMMA NextStep ==
  ASSUME Invariant, [Next]_vars
  PROVE  Invariant' /\ (Moves \/ Succeeds \/ (Stays /\ cctx'.consumed = cctx.consumed /\ cctx'.out = cctx.out))
<1> USE DEF Return, Raise
<1>1. StringInvariant /\ cctx \in ContextType
  BY DEF Invariant, ContextInPlace
<1>2. CASE Start
  <2>1. StringInvariant' /\ (Stays \/ Moves) /\ UNCHANGED <<inPos, destinationLength>>
    BY <1>1, <1>2, StartStep DEF Start, CreateContext, SetOptions, CreateBuffer, destinationVars
  <2>2. sourceLength \in Nat
    BY <1>1 DEF StringInvariant, StringBufferType
  <2>3. cctx' \in ContextType /\ cctx'.consumed = cctx.consumed /\ cctx'.out = cctx.out
    BY <1>1, <1>2, <2>2 DEF Start, Pledge, ContextType
  <2> QED BY <2>1, <2>3, QuietContext
<1>3. CASE Compress
  <2>1. ASSUME NEW read \in 0 .. Len(Input), NEW written \in 0 .. remaining,
               \/ /\ EndPartly(Input, remaining, read, written)
                  /\ CallAgain(read, cctx.out, written)
               \/ /\ EndWholly(Input, remaining, read, written)
                  /\ CallLast(read, cctx.out, written)
        PROVE  Invariant' /\ Moves
    BY <1>3, <2>1, CompressCall DEF Compress
  <2>2. ASSUME NEW error \in {"ValidateError", "AllocateError"}, CodecFails(error), UNCHANGED cctx
        PROVE  Invariant' /\ Moves
    <3>1. StringInvariant' /\ Moves /\ UNCHANGED <<inPos, destinationLength>>
      BY <1>1, <1>3, <2>2, FailStep DEF Compress, CodecFails, Errors
    <3> QED BY <1>1, <2>2, <3>1, QuietContext
  <2> QED BY <1>3, <2>1, <2>2 DEF Compress
<1>4. CASE Finish
  <2>1. CASE Resize
    <3>1. /\ StringInvariant' /\ result = "none" /\ result' = "ok"
          /\ UNCHANGED <<inPos, destinationLength>>
      BY <1>1, <2>1, ResizeStep
    <3> QED BY <1>1, <1>4, <3>1, QuietContext DEF Finish, Succeeds
  <2>2. CASE pc = "resize" /\ CodecFails("AllocateError")
    <3>1. StringInvariant' /\ Moves /\ UNCHANGED <<inPos, destinationLength>>
      BY <1>1, <2>2, FailStep DEF CodecFails, Errors
    <3> QED BY <1>1, <1>4, <3>1, QuietContext DEF Finish
  <2>3. CASE Release
    <3>1. StringInvariant' /\ Stays
      BY <1>1, <2>3, ReleaseStep
    <3> QED BY <1>1, <1>4, <3>1, QuietContext DEF Finish, Stays
  <2> QED BY <1>4, <2>1, <2>2, <2>3 DEF Finish
<1>5. CASE Interrupted /\ UNCHANGED cctx
  <2>1. StringInvariant' /\ Moves /\ UNCHANGED <<inPos, destinationLength>>
    BY <1>1, <1>5, FailStep DEF Interrupted, Errors
  <2> QED BY <1>1, <1>5, <2>1, QuietContext
<1>6. CASE Done \/ UNCHANGED vars
  <2>1. StringInvariant' /\ Stays /\ UNCHANGED cctx
    BY <1>1, <1>6, IdleStep DEF Done, vars
  <2> QED BY <1>1, <2>1, QuietContext DEF Stays
<1> QED BY <1>2, <1>3, <1>4, <1>5, <1>6 DEF Next, Program

\* The invariant holds in every reachable state.
LEMMA Inductive == Spec => []Invariant
<1>1. Invariant /\ [Next]_vars => Invariant'
  BY NextStep
<1> QED BY <1>1, InitInvariant, PTL DEF Spec

\* Every local of zstds_ext_compress_string keeps its type, and what is left
\* of the string and what was written to it add up (string.c:58-155).
THEOREM TypeCorrect == Spec => []TypeOK
<1>1. Invariant => TypeOK
  BY DEF Invariant, ContextInPlace, StringInvariant, TypeOK
<1> QED BY <1>1, Inductive, PTL

-----------------------------------------------------------------------------
\* A longer run of numbers extends a shorter one, as Transfer says it.
LEMMA PromiseExtended ==
  ASSUME NEW a \in Nat, NEW b \in Nat, a <= b
  PROVE  /\ Numbers(b) = Promise!Extended(Numbers(a), Len(Numbers(b)) - Len(Numbers(a)))
         /\ Len(Numbers(a)) = a /\ Len(Numbers(b)) = b
<1> DEFINE rest == b - a
<1>1. rest \in Nat /\ a + rest = b
  OBVIOUS
<1> HIDE DEF rest
<1>2. Numbers(a) \o [i \in 1 .. rest |-> a + i] = Numbers(a + rest) /\ Len(Numbers(a)) = a
  BY <1>1, NumbersContinue
<1>3. Len(Numbers(b)) = b
  BY NumbersContinue
<1> QED BY <1>1, <1>2, <1>3 DEF Promise!Extended, rest

\* What the caller has at each moment.
PromiseState ==
  /\ cctx.consumed = Numbers(inPos) /\ inPos \in Nat
  /\ cctx.out = destinationLength /\ destinationLength \in Nat
  /\ SubSeq(destinationValue, 1, destinationLength) = Numbers(destinationLength)

\* The invariant says what the caller has, before and after a step.
LEMMA PromiseStates ==
  ASSUME Invariant, Invariant'
  PROVE  PromiseState /\ PromiseState'
<1>1. PromiseState
  BY Delivered
     DEF Invariant, ContextInPlace, StringInvariant, StringBufferType, DestinationHolds, PromiseState
<1>2. PromiseState'
  <2>1. /\ cctx'.consumed = Numbers(inPos') /\ inPos' \in Nat
        /\ cctx'.out = destinationLength' /\ destinationLength' \in Nat
        /\ destinationValue' \in Seq(Nat) /\ destinationLength' <= Len(destinationValue')
        /\ \A i \in 1 .. destinationLength' : destinationValue'[i] = i
    <3>1. StringInvariant' /\ ContextInPlace'
      BY DEF Invariant
    <3>2. cctx'.consumed = Numbers(inPos') /\ cctx'.out = destinationLength'
      BY <3>1, Zenon DEF ContextInPlace, Numbers
    <3>3. StringBufferType' /\ DestinationHolds'
      BY <3>1 DEF StringInvariant
    <3>4. inPos' \in Nat /\ destinationLength' \in Nat /\ destinationValue' \in Seq(Nat)
      <4>1. /\ sourceLength' \in 0 .. MaxSourceLength /\ inPos' \in 0 .. sourceLength'
            /\ destinationLength' \in Nat /\ destinationValue' \in Seq(Nat)
        BY <3>3 DEF StringBufferType
      <4> QED BY <4>1
    <3>5. /\ destinationLength' <= Len(destinationValue')
          /\ \A i \in 1 .. destinationLength' : destinationValue'[i] = i
      BY <3>3, Zenon DEF DestinationHolds
    <3> QED BY <3>2, <3>4, <3>5, Zenon
  <2>2. SubSeq(destinationValue', 1, destinationLength') = Numbers(destinationLength')
    BY <2>1, Delivered
  <2> QED BY <2>1, <2>2 DEF PromiseState, Numbers
<1> QED BY <1>1, <1>2

\* Every step of the loop is one of the promise, or changes nothing in it.
LEMMA StepIsPromised ==
  ASSUME Invariant, Invariant', [Next]_vars
  PROVE  [Promise!Next]_Promise!vars
<1>1. PromiseState /\ PromiseState'
  BY PromiseStates
<1>2. CASE Moves
  <2>1. /\ result = "none" /\ result' # "ok"
        /\ inPos <= inPos' /\ destinationLength <= destinationLength'
    BY <1>2 DEF Moves
  <2>2. /\ Numbers(inPos') = Promise!Extended(Numbers(inPos), Len(Numbers(inPos')) - Len(Numbers(inPos)))
        /\ Len(Numbers(inPos)) = inPos /\ Len(Numbers(inPos')) = inPos'
    BY <1>1, <2>1, PromiseExtended DEF PromiseState
  <2>3. /\ Numbers(destinationLength') =
             Promise!Extended(Numbers(destinationLength),
                              Len(Numbers(destinationLength')) - Len(Numbers(destinationLength)))
        /\ Len(Numbers(destinationLength)) = destinationLength
        /\ Len(Numbers(destinationLength')) = destinationLength'
    BY <1>1, <2>1, PromiseExtended DEF PromiseState
  <2>4. /\ cctx.consumed = Numbers(inPos) /\ cctx'.consumed = Numbers(inPos')
        /\ cctx.out = destinationLength /\ cctx'.out = destinationLength'
        /\ inPos \in Nat /\ inPos' \in Nat
        /\ destinationLength \in Nat /\ destinationLength' \in Nat
        /\ SubSeq(destinationValue, 1, destinationLength) = Numbers(destinationLength)
        /\ SubSeq(destinationValue', 1, destinationLength') = Numbers(destinationLength')
    BY <1>1 DEF PromiseState, Numbers
  <2>5. (CASE result = "none" -> "running" [] result = "ok" -> "ok" [] OTHER -> "failed") = "running"
    BY <2>1
  <2>6. (CASE result' = "none" -> "running" [] result' = "ok" -> "ok" [] OTHER -> "failed")
          \in {"running", "failed"}
    <3>1. CASE result' = "none"
      BY <3>1
    <3>2. CASE result' # "none"
      BY <2>1, <3>2
    <3> QED BY <3>1, <3>2
  <2>7. /\ destinationLength' \in destinationLength .. destinationLength'
        /\ destinationLength' >= destinationLength /\ inPos' >= inPos
    BY <2>1, <2>4
  <2>8. /\ cctx'.consumed =
             Promise!Extended(cctx.consumed, Len(cctx'.consumed) - Len(cctx.consumed))
        /\ Len(cctx'.consumed) >= Len(cctx.consumed)
    BY <2>2, <2>4, <2>7
  <2> DEFINE before == SubSeq(destinationValue, 1, destinationLength)
             after == SubSeq(destinationValue', 1, destinationLength')
  <2>9. /\ after = Promise!Extended(before, Len(after) - Len(before))
        /\ Len(after) \in Len(before) .. cctx'.out
        /\ cctx'.out >= cctx.out /\ cctx'.out \in Nat
    BY <2>3, <2>4, <2>7
  <2>10. Promise!Call
    BY <2>5, <2>6, <2>8, <2>9 DEF Promise!Call
  <2> QED BY <2>10 DEF Promise!Next
<1>3. CASE Succeeds
  <2>1. /\ result = "none" /\ result' = "ok" /\ inPos' = inPos /\ destinationLength' = destinationLength
    BY <1>3 DEF Succeeds
  <2>2. /\ Numbers(destinationLength) =
             Promise!Extended(Numbers(destinationLength),
                              Len(Numbers(destinationLength)) - Len(Numbers(destinationLength)))
        /\ Len(Numbers(destinationLength)) = destinationLength
    BY <1>1, PromiseExtended DEF PromiseState
  <2>3. /\ cctx'.consumed = cctx.consumed /\ cctx'.out = cctx.out /\ cctx.out = destinationLength
        /\ SubSeq(destinationValue, 1, destinationLength) = Numbers(destinationLength)
        /\ SubSeq(destinationValue', 1, destinationLength') = Numbers(destinationLength)
    BY <1>1, <2>1 DEF PromiseState, Numbers
  <2>4. Promise!Succeed
    BY <2>1, <2>2, <2>3 DEF Promise!Succeed
  <2> QED BY <2>4 DEF Promise!Next
<1>4. CASE Stays /\ cctx'.consumed = cctx.consumed /\ cctx'.out = cctx.out
  <2>1. SubSeq(destinationValue', 1, destinationLength') = SubSeq(destinationValue, 1, destinationLength)
    BY <1>1, <1>4 DEF PromiseState, Stays, Numbers
  <2> QED BY <1>4, <2>1 DEF Stays, Promise!vars
<1> QED BY <1>2, <1>3, <1>4, NextStep

\* The loop of string.c keeps what Transfer promises the caller of
\* String.compress, however often the destination string grows.
THEOREM Implements == Spec => KeepsPromise
<1>1. Init => Promise!Init
  BY DEF Init, StringBufferInit, NewContext, Promise!Init
<1>2. Invariant /\ Invariant' /\ [Next]_vars => [Promise!Next]_Promise!vars
  BY StepIsPromised
<1> QED BY <1>1, <1>2, Inductive, PTL DEF Spec, KeepsPromise, Promise!Spec
-----------------------------------------------------------------------------
\* The call holds a context from its creation to its release, unless an
\* interrupt jumps over that.
HeldInPlace ==
  /\ pc = "context" => ~held
  /\ pc = "returned" /\ held => result = "Interrupted"

\* Every way out but the interrupt frees the context (string.c:120-154).
THEOREM NothingLeaks == Spec => []NoLeak
<1>1. Init => HeldInPlace
  BY DEF Init, StringBufferInit, HeldInPlace
<1>2. Invariant /\ HeldInPlace /\ [Next]_vars => HeldInPlace'
  <2> SUFFICES ASSUME Invariant, HeldInPlace, [Next]_vars PROVE HeldInPlace'
    OBVIOUS
  <2> USE DEF callVars, destinationVars, stringVars, Raise, Return
  <2>1. CASE Start
    BY <2>1 DEF Start, CreateContext, SetOptions, CreateBuffer, HeldInPlace
  <2>2. CASE Compress
    <3>1. pc' \in {"call", "resize", "release"}
      BY <2>2 DEF Compress, CallAgain, CallLast, CodecFails
    <3> QED BY <3>1 DEF HeldInPlace
  <2>3. CASE Finish
    BY <2>3 DEF Finish, Resize, CodecFails, Release, HeldInPlace
  <2>4. CASE Interrupted
    BY <2>4 DEF Interrupted, HeldInPlace
  <2>5. CASE Done \/ UNCHANGED vars
    BY <2>5 DEF Done, vars, HeldInPlace
  <2> QED BY <2>1, <2>2, <2>3, <2>4, <2>5 DEF Next, Program
<1>3. HeldInPlace => NoLeak
  BY DEF HeldInPlace, NoLeak
<1> QED BY <1>1, <1>2, <1>3, Inductive, PTL DEF Spec

-----------------------------------------------------------------------------
\* The one frame is complete and has taken the whole source.
FrameClosed ==
  /\ cctx.frames = 1 /\ cctx.made = cctx.out
  /\ inPos = sourceLength

\* What the context knows of its frame at each place of the call.
FrameInPlace ==
  /\ pc \in {"context", "options", "buffer", "call"} => cctx.frames = 0
  /\ pc = "resize" \/ result = "ok" => FrameClosed
  /\ result = "ok" => Len(destinationValue) = destinationLength

\* A codec call leaves the frame open or ends it with the loop.
LEMMA CompressFrame ==
  ASSUME Invariant, FrameInPlace, Compress
  PROVE  FrameInPlace'
<1> USE DEF Return
<1>1. /\ pc = "call" /\ result = "none" /\ cctx \in ContextType /\ cctx.frames = 0
      /\ StringInvariant
  BY DEF Compress, Invariant, ContextInPlace, StringInvariant, FrameInPlace
<1>2. ASSUME NEW read \in 0 .. Len(Input), NEW written \in 0 .. remaining,
             EndPartly(Input, remaining, read, written), CallAgain(read, cctx.out, written)
      PROVE  FrameInPlace'
  <2>1. cctx'.frames = 0
    BY <1>1, <1>2 DEF EndPartly, ContextType
  <2>2. pc' \in {"call", "release"} /\ result' # "ok"
    BY <1>1, <1>2 DEF CallAgain
  <2> QED BY <2>1, <2>2 DEF FrameInPlace
<1>3. ASSUME NEW read \in 0 .. Len(Input), NEW written \in 0 .. remaining,
             EndWholly(Input, remaining, read, written), CallLast(read, cctx.out, written)
      PROVE  FrameInPlace'
  <2>1. cctx'.frames = 1 /\ cctx'.made = cctx'.out /\ read = Len(Input)
    BY <1>1, <1>3 DEF EndWholly, ContextType
  <2>2. pc' = "resize" /\ result' = "none" /\ inPos' = inPos + read /\ sourceLength' = sourceLength
    BY <1>1, <1>3 DEF CallLast
  <2>3. Len(Input) = sourceLength - inPos /\ inPos \in Nat /\ sourceLength \in Nat
    BY <1>1, InputTaken
  <2>4. inPos' = sourceLength'
    BY <2>1, <2>2, <2>3
  <2> QED BY <2>1, <2>2, <2>4 DEF FrameInPlace, FrameClosed
<1>4. ASSUME NEW error \in {"ValidateError", "AllocateError"}, CodecFails(error)
      PROVE  FrameInPlace'
  BY <1>4 DEF CodecFails, FrameInPlace
<1> QED BY <1>2, <1>3, <1>4 DEF Compress

\* The context knows of its frame what the place of the call says.
LEMMA FrameHolds == Spec => []FrameInPlace
<1>1. Init => FrameInPlace
  BY DEF Init, StringBufferInit, NewContext, FrameInPlace
<1>2. Invariant /\ FrameInPlace /\ [Next]_vars => FrameInPlace'
  <2> SUFFICES ASSUME Invariant, FrameInPlace, [Next]_vars PROVE FrameInPlace'
    OBVIOUS
  <2> USE DEF callVars, destinationVars, stringVars, Raise, Return
  <2>1. StringInvariant /\ (result = "none" <=> pc \notin {"release", "returned"})
        /\ cctx \in ContextType
    BY DEF Invariant, ContextInPlace, StringInvariant
  <2>2. CASE Start
    <3>1. pc \in {"context", "options", "buffer"} /\ result = "none" /\ cctx'.frames = 0
      BY <2>1, <2>2 DEF Start, CreateContext, SetOptions, CreateBuffer, OptionErrors, Pledge, ContextType, FrameInPlace
    <3>2. pc' \in {"options", "buffer", "call", "returned"} /\ result' # "ok"
      BY <2>1, <2>2, <3>1 DEF Start, CreateContext, SetOptions, OptionErrors, CreateBuffer
    <3> QED BY <3>1, <3>2 DEF FrameInPlace
  <2>3. CASE Compress
    BY <2>3, CompressFrame
  <2>4. CASE Resize /\ UNCHANGED cctx
    <3>1. Len(destinationValue') = destinationLength /\ pc = "resize" /\ pc' = "release"
          /\ UNCHANGED <<inPos, sourceLength, destinationLength>>
      BY <2>1, <2>4, ResizeStep DEF Resize
    <3> QED BY <2>4, <3>1 DEF FrameInPlace, FrameClosed
  <2>5. CASE CodecFails("AllocateError")
    BY <2>5 DEF CodecFails, FrameInPlace
  <2>6. CASE Release /\ UNCHANGED cctx
    BY <2>6 DEF Release, FrameInPlace, FrameClosed
  <2>7. CASE Interrupted
    BY <2>7 DEF Interrupted, FrameInPlace
  <2>8. CASE Done \/ UNCHANGED vars
    BY <2>8 DEF Done, vars, FrameInPlace, FrameClosed
  <2> QED BY <2>2, <2>3, <2>4, <2>5, <2>6, <2>7, <2>8 DEF Next, Program, Finish
<1> QED BY <1>1, <1>2, Inductive, PTL DEF Spec

\* Success means one complete frame of the whole source, and a string that is
\* not a byte longer (string.c:71-109).
THEOREM SuccessIsArchive == Spec => []OkMeansArchived
<1>1. Invariant /\ FrameInPlace => OkMeansArchived
  BY DEF Invariant, ContextInPlace, FrameInPlace, FrameClosed, OkMeansArchived, Numbers
<1> QED BY <1>1, Inductive, FrameHolds, PTL

-----------------------------------------------------------------------------
\* The places of the call in the order in which they are met at last.
Place ==
  CASE pc = "context"  -> 6
    [] pc = "options"  -> 5
    [] pc = "buffer"   -> 4
    [] pc = "call"     -> 3
    [] pc = "resize"   -> 2
    [] pc = "release"  -> 1
    [] pc = "returned" -> 0

\* What the loop can still hand out of the one frame.
ArchiveLeft == (MaxSourceLength + Overhead) - cctx.out

\* A bound on the steps the call can still take.
StepsLeft == ArchiveLeft + Place

\* The archive has a bound, and every turn of the loop begins with a whole
\* piece of fresh room in the string.
WithinBounds ==
  /\ cctx.out <= MaxSourceLength + Overhead
  /\ pc \in {"context", "options", "buffer", "call"} => remaining = DestinationBufferLength
  /\ result # "NotEnoughDestinationBufferError"

\* The bound is a number.
LEMMA StepsAreNumber ==
  ASSUME Invariant, WithinBounds
  PROVE  StepsLeft \in Nat /\ ArchiveLeft \in Nat /\ Place \in Nat
<1>1. cctx.out \in Nat /\ MaxSourceLength \in Nat /\ Overhead \in Nat
  BY DEF Invariant, ContextInPlace, ContextType
<1>2. ArchiveLeft \in Nat
  BY <1>1 DEF ArchiveLeft, WithinBounds
<1>3. Place \in Nat
  BY DEF Invariant, StringInvariant, StringBufferType, Place
<1> QED BY <1>2, <1>3 DEF StepsLeft

\* A step that hands out written bytes and goes back no farther than that.
LEMMA FewerSteps ==
  ASSUME Invariant, WithinBounds, NEW written \in Nat,
         cctx'.out = cctx.out + written,
         cctx.out + written <= MaxSourceLength + Overhead,
         Place' \in Nat, Place' < Place + written
  PROVE  StepsLeft' < StepsLeft
<1> DEFINE all == MaxSourceLength + Overhead
           a   == cctx.out
           b   == cctx'.out
           p   == Place
           q   == Place'
<1>1. /\ a \in Nat /\ all \in Nat /\ p \in Nat /\ q \in Nat
      /\ b = a + written /\ b <= all /\ q < p + written
  BY StepsAreNumber DEF Invariant, ContextInPlace, ContextType
<1>2. StepsLeft = (all - a) + p /\ StepsLeft' = (all - b) + q
  BY DEF StepsLeft, ArchiveLeft
<1> HIDE DEF all, a, b, p, q
<1>3. (all - b) + q < (all - a) + p
  BY <1>1
<1> QED BY <1>2, <1>3

\* A step that hands out nothing and goes to a later place.
LEMMA LaterPlace ==
  ASSUME Invariant, WithinBounds, cctx'.out = cctx.out, Place' \in Nat, Place' < Place
  PROVE  StepsLeft' < StepsLeft
<1>1. Place \in Nat /\ cctx.out \in Nat
  BY StepsAreNumber DEF Invariant, ContextInPlace, ContextType
<1> HIDE DEF Place
<1>2. /\ cctx'.out = cctx.out + 0 /\ cctx.out + 0 <= MaxSourceLength + Overhead
      /\ Place' < Place + 0
  BY <1>1 DEF WithinBounds
<1> QED BY <1>2, FewerSteps

\* What a call that ends the frame can have handed out in all.
LEMMA ArchiveBounded ==
  ASSUME Invariant, cctx.frames = 0, NEW read \in 0 .. Len(Input),
         NEW made \in Nat, made <= 1 + Bound(Len(cctx.consumed) + read)
  PROVE  made <= MaxSourceLength + Overhead
<1>1. /\ StringInvariant /\ Overhead \in Nat
      /\ sourceLength \in Nat /\ sourceLength <= MaxSourceLength
  BY DEF Invariant, StringInvariant, StringBufferType
<1>2. inPos \in Nat /\ read \in Nat /\ inPos + read \in 0 .. sourceLength
  BY <1>1, InputTaken
<1>3. Len(cctx.consumed) = inPos
  BY <1>2, NumbersContinue DEF Invariant, ContextInPlace
<1>4. Bound(inPos + read) = inPos + read + Overhead - 1
  <2> DEFINE position == inPos + read
  <2>1. position \in Nat
    BY <1>2
  <2> HIDE DEF position
  <2>2. Bound(position) = position + Overhead - 1
    BY <1>1, <2>1 DEF Bound
  <2> QED BY <2>2 DEF position
<1>5. made <= 1 + (inPos + read + Overhead - 1)
  BY <1>3, <1>4
<1> QED BY <1>1, <1>2, <1>5

\* A turn of the loop that is to be repeated has filled a piece of the string,
\* and finds the next one.
LEMMA CompressCosts ==
  ASSUME Invariant, FrameInPlace, WithinBounds, Compress
  PROVE  WithinBounds' /\ StepsLeft' < StepsLeft
<1> USE DEF Return
<1>1. /\ pc = "call" /\ result = "none" /\ remaining = DestinationBufferLength
      /\ DestinationBufferLength \in Nat /\ DestinationBufferLength > 0
      /\ cctx \in ContextType /\ cctx.frames = 0
      /\ cctx.out \in Nat /\ cctx.made \in Nat
  BY DEF Compress, Invariant, ContextInPlace, StringInvariant, ContextType, WithinBounds, FrameInPlace
<1>2. ASSUME NEW read \in 0 .. Len(Input), NEW written \in 0 .. remaining,
             EndPartly(Input, remaining, read, written), CallAgain(read, cctx.out, written)
      PROVE  WithinBounds' /\ StepsLeft' < StepsLeft
  <2>1. written \in Nat /\ written = remaining /\ written > 0
    BY <1>1, <1>2 DEF EndPartly
  <2>2. cctx'.out = cctx.out + written /\ cctx.out + written <= MaxSourceLength + Overhead
    <3>1. PICK ended \in BOOLEAN, made \in cctx.made .. 1 + Bound(Len(cctx.consumed) + read) :
            /\ IF ended THEN cctx.out + written < made ELSE cctx.out + written <= made
            /\ cctx' = [cctx EXCEPT
                 !.started  = TRUE,
                 !.consumed = Taken(Input, read),
                 !.made     = made,
                 !.out      = @ + written,
                 !.ended    = ended,
                 !.pledged  = IF cctx.started \/ @ = NoPledge THEN @ ELSE Len(Input)]
      BY <1>2 DEF EndPartly
    <3>2. cctx'.out = cctx.out + written
      BY <1>1, <3>1 DEF ContextType
    <3>3. made \in Nat /\ made <= 1 + Bound(Len(cctx.consumed) + read)
      BY <1>1, <3>1
    <3>4. made <= MaxSourceLength + Overhead
      BY <1>1, <3>3, ArchiveBounded
    <3>5. cctx.out + written <= made
      BY <1>1, <2>1, <3>1, <3>3
    <3>6. MaxSourceLength + Overhead \in Nat
      OBVIOUS
    <3> QED BY <1>1, <2>1, <3>2, <3>3, <3>4, <3>5, <3>6
  <2>3. remaining - written # DestinationBufferLength
    BY <1>1, <2>1
  <2>4. \/ pc' = "call" /\ result' = result /\ remaining' = DestinationBufferLength
        \/ pc' = "release" /\ result' = "AllocateError"
    BY <1>1, <1>2, <2>3 DEF CallAgain
  <2>5. WithinBounds'
    BY <1>1, <2>2, <2>4 DEF WithinBounds
  <2>6. Place' \in Nat /\ Place' < Place + written
    BY <1>1, <2>1, <2>4 DEF Place
  <2> HIDE DEF Place
  <2> QED BY <2>1, <2>2, <2>5, <2>6, FewerSteps
<1>3. ASSUME NEW read \in 0 .. Len(Input), NEW written \in 0 .. remaining,
             EndWholly(Input, remaining, read, written), CallLast(read, cctx.out, written)
      PROVE  WithinBounds' /\ StepsLeft' < StepsLeft
  <2>1. written \in Nat
    BY <1>1
  <2>2. cctx'.out = cctx.out + written /\ cctx.out + written <= MaxSourceLength + Overhead
    <3>1. cctx'.out = cctx.out + written
      BY <1>1, <1>3 DEF EndWholly, ContextType
    <3>2. cctx.out + written \in Nat /\ cctx.out + written <= 1 + Bound(Len(cctx.consumed) + read)
      BY <1>1, <1>3, <2>1 DEF EndWholly
    <3>3. cctx.out + written <= MaxSourceLength + Overhead
      BY <1>1, <3>2, ArchiveBounded
    <3> QED BY <3>1, <3>3
  <2>3. pc' = "resize" /\ result' = result
    BY <1>3 DEF CallLast
  <2>4. WithinBounds'
    BY <2>2, <2>3 DEF WithinBounds
  <2>5. Place' \in Nat /\ Place' < Place + written
    BY <1>1, <2>1, <2>3 DEF Place
  <2> HIDE DEF Place
  <2> QED BY <2>1, <2>2, <2>4, <2>5, FewerSteps
<1>4. ASSUME NEW error \in {"ValidateError", "AllocateError"}, CodecFails(error), UNCHANGED cctx
      PROVE  WithinBounds' /\ StepsLeft' < StepsLeft
  <2>1. pc' = "release" /\ result' # "NotEnoughDestinationBufferError"
    BY <1>4 DEF CodecFails
  <2>2. WithinBounds'
    BY <1>4, <2>1 DEF WithinBounds
  <2>3. Place' \in Nat /\ Place' < Place
    BY <1>1, <2>1 DEF Place
  <2>4. StepsLeft' < StepsLeft
    BY <1>4, <2>3, LaterPlace
  <2> QED BY <2>2, <2>4
<1> QED BY <1>2, <1>3, <1>4 DEF Compress

\* Every other step of the call goes to a later place.
LEMMA OtherCosts ==
  ASSUME Invariant, WithinBounds, Start \/ Finish \/ (Interrupted /\ UNCHANGED cctx)
  PROVE  WithinBounds' /\ StepsLeft' < StepsLeft
<1> USE DEF Raise, Return, destinationVars
<1>1. cctx'.out = cctx.out
  BY DEF Start, Finish, Pledge, Invariant, ContextInPlace, ContextType
<1>2. \/ pc = "context" /\ pc' = "options" /\ UNCHANGED remaining
      \/ pc = "options" /\ pc' = "buffer" /\ UNCHANGED remaining
      \/ pc = "buffer" /\ pc' = "call" /\ UNCHANGED remaining
      \/ pc \in {"context", "options", "buffer", "call", "release"} /\ pc' = "returned"
      \/ pc = "resize" /\ pc' = "release"
  BY DEF Start, CreateContext, SetOptions, CreateBuffer, Finish, Resize, CodecFails, Release, Interrupted
<1>3. result' # "NotEnoughDestinationBufferError"
  BY DEF WithinBounds, Start, CreateContext, SetOptions, OptionErrors, CreateBuffer, Finish, Resize,
         CodecFails, Release, Interrupted
<1>4. WithinBounds'
  BY <1>1, <1>2, <1>3 DEF WithinBounds
<1>5. Place' \in Nat /\ Place' < Place
  BY <1>2 DEF Place
<1>6. StepsLeft' < StepsLeft
  BY <1>1, <1>5, LaterPlace
<1> QED BY <1>4, <1>6

\* The bounds hold from the first state on, and every step costs one of those
\* that are left.
LEMMA BoundsKept ==
  /\ Init => WithinBounds
  /\ Invariant /\ FrameInPlace /\ WithinBounds /\ [Next]_vars
       => WithinBounds' /\ (StepsLeft' < StepsLeft \/ UNCHANGED vars)
<1>1. Init => WithinBounds
  BY DEF Init, StringBufferInit, NewContext, WithinBounds
<1>2. ASSUME Invariant, FrameInPlace, WithinBounds, [Next]_vars
      PROVE  WithinBounds' /\ (StepsLeft' < StepsLeft \/ UNCHANGED vars)
  <2>1. CASE Start \/ Finish \/ (Interrupted /\ UNCHANGED cctx)
    BY <1>2, <2>1, OtherCosts
  <2>2. CASE Compress
    BY <1>2, <2>2, CompressCosts
  <2>3. CASE Done \/ UNCHANGED vars
    <3>1. UNCHANGED vars
      BY <2>3 DEF Done
    <3> QED BY <1>2, <3>1 DEF vars, stringVars, callVars, destinationVars, WithinBounds
  <2> QED BY <1>2, <2>1, <2>2, <2>3 DEF Next, Program
<1> QED BY <1>1, <1>2

\* String.compress cannot go round forever: each step brings it nearer to its
\* end, with workers too, however small the pieces are the string grows by
\* (string.c:71-99).
THEOREM StepsRunOut ==
  Spec => /\ [](StepsLeft \in Nat)
          /\ [][StepsLeft' < StepsLeft]_vars
<1> DEFINE Runs == StepsLeft' < StepsLeft
<1>1. Invariant /\ WithinBounds => StepsLeft \in Nat
  BY StepsAreNumber
<1>2. /\ Init => WithinBounds
      /\ Invariant /\ FrameInPlace /\ WithinBounds /\ [Next]_vars
           => WithinBounds' /\ (Runs \/ UNCHANGED vars)
  BY BoundsKept
<1> HIDE DEF Runs
<1>3. Runs \/ UNCHANGED vars => [Runs]_vars
  OBVIOUS
<1>4. Spec => [](StepsLeft \in Nat) /\ [][Runs]_vars
  BY <1>1, <1>2, <1>3, Inductive, FrameHolds, PTL DEF Spec
<1> QED BY <1>4 DEF Runs

\* The growing string never runs out of room: the error of
\* increase_destination_buffer (string.c:22-25) is not met.
THEOREM StringGrows == Spec => [](result # "NotEnoughDestinationBufferError")
<1>1. WithinBounds => result # "NotEnoughDestinationBufferError"
  BY DEF WithinBounds
<1> QED BY <1>1, BoundsKept, Inductive, FrameHolds, PTL DEF Spec
=============================================================================
