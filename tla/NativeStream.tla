---------------------------- MODULE NativeStream ----------------------------
(***************************************************************************)
(* What the objects Stream::NativeCompressor and Stream::NativeDecompressor*)
(* have in common (stream/compressor.c, stream/decompressor.c): a libzstd  *)
(* context, a destination buffer with the part of it that is still free,   *)
(* read_result, close, and the collection of the object.                   *)
(*                                                                         *)
(* A method that calls the codec has three steps: it enters and looks at   *)
(* the object, the codec runs without the global lock (unless gvl is set), *)
(* and it leaves, when the object learns what the codec did.  The README   *)
(* asks that one thread at a time uses an object, so one method runs at a  *)
(* time, but the thread can be interrupted on both sides of the codec.     *)
(***************************************************************************)
EXTENDS Naturals, Sequences

CONSTANTS
  DestinationBufferLength,
  MaxSourceLength,  \* bound on the source the client owns
  Gvl,              \* option gvl: keep the global lock during codec calls
  Faults            \* memory, options or codec may fail

ASSUME DestinationBufferAssumption == DestinationBufferLength \in Nat \ {0}
ASSUME MaxSourceLengthAssumption == MaxSourceLength \in Nat
ASSUME SwitchAssumption == Gvl \in BOOLEAN /\ Faults \in BOOLEAN

VARIABLES
  pointers,   \* which of ctx and destination_buffer are not NULL
  live,       \* what is allocated outside the Ruby heap
  collected,  \* the collector has taken the object
  buffer,     \* destination_buffer
  start,      \* remaining_destination_buffer - destination_buffer
  room,       \* remaining_destination_buffer_length
  call,       \* the method running
  reply,      \* what the last method returned or raised
  accepted,   \* source bytes the object reported as taken
  delivered,  \* bytes read_result returned, in order
  torn        \* a codec call ran that the object never learned of

objectVars == <<pointers, live, collected, buffer, start, room>>
clientVars == <<accepted, delivered>>
streamVars == <<objectVars, call, reply, clientVars, torn>>

NoCall == [op |-> "none", step |-> "idle", offered |-> 0, read |-> 0,
           written |-> 0, more |-> FALSE]
NoReply == [op |-> "none", error |-> "none", offered |-> 0, count |-> 0, more |-> FALSE]

Raised(op, error) == [NoReply EXCEPT !.op = op, !.error = error]

Memory == {"ctx", "destination_buffer"}

\* The condition of DO_NOT_USE_AFTER_CLOSE does not hold.
Open == Memory \subseteq pointers

\* No method is running and the object can be called: it has an owner, and
\* new has called initialize.
Fresh == reply = NoReply
Idle == call = NoCall /\ ~collected

\* zstds_ext_allocate_compressor, zstds_ext_allocate_decompressor.
NativeStreamInit ==
  /\ pointers = {} /\ live = {} /\ collected = FALSE
  /\ buffer = [i \in 0 .. DestinationBufferLength - 1 |-> 0]
  /\ start = 0 /\ room = 0
  /\ call = NoCall
  /\ reply = NoReply
  /\ accepted = 0
  /\ delivered = <<>>
  /\ torn = FALSE

\* initialize, once the options are accepted.
Initialized ==
  /\ Fresh /\ Idle
  /\ pointers' = Memory
  /\ live' = live \union Memory
  /\ start' = 0 /\ room' = DestinationBufferLength
  /\ reply' = [NoReply EXCEPT !.op = "initialize"]
  /\ UNCHANGED <<collected, buffer, call, clientVars, torn>>

\* What initialize may raise: an option that does not convert, no memory, a
\* value or a dictionary that the context refuses.
OptionErrors == {"TypeError", "AllocateError", "ValidateError", "CorruptedDictionaryError"}

\* initialize fails before createCtx, in it, in set_options or in malloc; what
\* was created is freed, and the object keeps its NULL pointers.
InitializeFails ==
  /\ Faults
  /\ Fresh /\ Idle
  /\ \E error \in OptionErrors : reply' = Raised("initialize", error)
  /\ UNCHANGED <<objectVars, call, clientVars, torn>>

-----------------------------------------------------------------------------
\* Check_Type in write and read: the source is not a string.
SourceRefused(op) ==
  /\ Idle /\ Open
  /\ reply' = Raised(op, "TypeError")
  /\ UNCHANGED <<objectVars, call, clientVars, torn>>

\* DO_NOT_USE_AFTER_CLOSE, then the buffers of the codec call.
Enter(op, offered) ==
  /\ Idle /\ ~Fresh
  /\ IF Open
     THEN /\ call' = [NoCall EXCEPT !.op = op, !.step = "entered", !.offered = offered]
          /\ UNCHANGED reply
     ELSE reply' = Raised(op, "UsedAfterCloseError") /\ UNCHANGED call
  /\ UNCHANGED <<objectVars, clientVars, torn>>

Entered(op) == call.op = op /\ call.step = "entered"

\* The source bytes a method is given: those that follow the ones reported.
Input == [i \in 1 .. call.offered |-> accepted + i]

\* The codec took read bytes and stored written bytes, numbered from + 1, in
\* the free part of the buffer as the method found it when it was entered: only
\* a method changes it, and one method runs at a time.
Called(read, from, written, more) ==
  /\ buffer' = [i \in 0 .. DestinationBufferLength - 1 |->
       IF i >= start /\ i < start + written THEN from + i - start + 1 ELSE buffer[i]]
  /\ call' = [call EXCEPT !.step = "called", !.read = read,
                          !.written = written, !.more = more]
  /\ UNCHANGED <<pointers, live, collected, start, room, reply, clientVars, torn>>

\* zstds_ext_raise_error of what the codec returned: what it took and stored
\* before the error is never reported.
CallFails(error) ==
  /\ reply' = Raised(call.op, error)
  /\ call' = NoCall
  /\ torn' = TRUE
  /\ UNCHANGED <<objectVars, clientVars>>

\* Mutant: the free part of the buffer does not begin behind what was written.
LeaveUnmoved(more) ==
  /\ call.step = "called"
  /\ room' = room - call.written
  /\ accepted' = accepted + call.read
  /\ reply' = [op |-> call.op, error |-> "none", offered |-> call.offered,
               count |-> call.read, more |-> more]
  /\ call' = NoCall
  /\ UNCHANGED <<pointers, live, collected, buffer, start, delivered, torn>>

\* Mutant: the method reports all it was given as taken.
LeaveAll(more) ==
  /\ call.step = "called"
  /\ start' = start + call.written
  /\ room' = room - call.written
  /\ accepted' = accepted + call.offered
  /\ reply' = [op |-> call.op, error |-> "none", offered |-> call.offered,
               count |-> call.offered, more |-> more]
  /\ call' = NoCall
  /\ UNCHANGED <<pointers, live, collected, buffer, delivered, torn>>

\* The object learns what the codec did and the method returns.
Leave(more) ==
  /\ call.step = "called"
  /\ start' = start + call.written
  /\ room' = room - call.written
  /\ accepted' = accepted + call.read
  /\ reply' = [op |-> call.op, error |-> "none", offered |-> call.offered,
               count |-> call.read, more |-> more]
  /\ call' = NoCall
  /\ UNCHANGED <<pointers, live, collected, buffer, delivered, torn>>

\* Thread#raise, Timeout or Thread#kill, handled where the lock is released
\* or taken back, leaves the method at once.
Interrupted ==
  /\ ~Gvl
  /\ call.step \in {"entered", "called"}
  /\ reply' = Raised(call.op, "Interrupted")
  /\ call' = NoCall
  /\ torn' = (torn \/ call.step = "called")
  /\ UNCHANGED <<objectVars, clientVars>>

-----------------------------------------------------------------------------
\* The bytes of the buffer that are not free.
Staged == [i \in 1 .. DestinationBufferLength - room |-> buffer[i - 1]]

\* Mutant: the buffer is not free again after its bytes were returned.
ReadResultKept ==
  /\ Idle /\ Open
  /\ delivered' = delivered \o Staged
  /\ reply' = [NoReply EXCEPT !.op = "read_result", !.count = Len(Staged)]
  /\ UNCHANGED <<objectVars, call, accepted, torn>>

\* read_result of an open object.
ReadResult ==
  /\ Idle /\ Open
  /\ delivered' = delivered \o Staged
  /\ start' = 0 /\ room' = DestinationBufferLength
  /\ reply' = [NoReply EXCEPT !.op = "read_result", !.count = Len(Staged)]
  /\ UNCHANGED <<pointers, live, collected, buffer, call, accepted, torn>>

\* Mutant: close does not forget the context it has freed.
CloseDangling ==
  /\ Idle /\ Open
  /\ live' = live \ pointers
  /\ pointers' = {"ctx"}
  /\ reply' = [NoReply EXCEPT !.op = "close"]
  /\ UNCHANGED <<collected, buffer, start, room, call, clientVars, torn>>

\* close of an open object.
Close ==
  /\ Idle /\ Open
  /\ live' = live \ pointers
  /\ pointers' = {}
  /\ reply' = [NoReply EXCEPT !.op = "close"]
  /\ UNCHANGED <<collected, buffer, start, room, call, clientVars, torn>>

\* read_result or close of an object that is not open.
UsedAfterClose ==
  /\ Idle /\ ~Open /\ ~Fresh
  /\ \E op \in {"read_result", "close"} : reply' = Raised(op, "UsedAfterCloseError")
  /\ UNCHANGED <<objectVars, call, clientVars, torn>>

\* free_compressor, free_decompressor: the collector runs it when no method
\* of the object is running, and it frees the pointers that are not NULL.
Collect ==
  /\ Idle
  /\ collected' = TRUE
  /\ live' = live \ pointers
  /\ UNCHANGED <<pointers, buffer, start, room, call, reply, clientVars, torn>>

\* A step of a stream whose op takes source from the client.
StreamStep(op) ==
  \/ InitializeFails \/ SourceRefused(op) \/ Interrupted
  \/ ReadResult \/ Close \/ UsedAfterClose \/ Collect

Operations == {"none", "initialize", "write", "flush", "finish", "read", "read_result", "close"}
StreamErrors == OptionErrors \union
  {"none", "UsedAfterCloseError", "DecompressorCorruptedSourceError", "Interrupted"}

\* What the variables hold; the free part of the buffer always ends with it.
NativeStreamType ==
  /\ pointers \subseteq Memory /\ live \subseteq Memory /\ collected \in BOOLEAN
  /\ buffer \in [0 .. DestinationBufferLength - 1 -> Nat]
  /\ start \in Nat /\ room \in Nat
  /\ Open => start + room = DestinationBufferLength
  /\ call \in [op : Operations, step : {"idle", "entered", "called"}, offered : Nat,
               read : Nat, written : Nat, more : BOOLEAN]
  /\ call.step = "called" => call.read <= call.offered /\ call.written <= room
  /\ reply \in [op : Operations, error : StreamErrors, offered : Nat, count : Nat, more : BOOLEAN]
  /\ accepted \in Nat
  /\ delivered \in Seq(Nat)
  /\ torn \in BOOLEAN
=============================================================================
