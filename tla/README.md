# Verification of ruby-zstds

ruby-zstds is a Ruby library over libzstd: a C extension (`src/ext/zstds_ext`)
with a thin layer of Ruby (`src/lib/zstds`) on the classes of the adsp gem.  Its
own logic is the movement of bytes: between files or strings or a client on one
side, buffers of a fixed size, and the two contexts of libzstd on the other.
This directory holds TLA+ models of that logic, their TLC runs, and proofs.

Contents: 1 the parts of the system; 2 the modules; 3 the runs; 4 the proofs;
5 what is assumed; 6 what is not modelled; 7 the plan; 8 disagreements found.

## 1. The parts of the system

| Part | Source | State | Operations | What is hard |
|---|---|---|---|---|
| File compression | `io.c:206-432`, `file.rb` | two buffers, four offsets and lengths, the position in the file, the context, what is allocated | `File.compress` | a tail of the source buffer that moves, a destination buffer that fills in the middle of an input, errors at every step, a file that changes after its size was taken, interrupts |
| File decompression | `io.c:436-592` | the same | `File.decompress` | frames that end inside the buffer, archives cut short |
| String compression and decompression | `string.c`, `buffer.c`, `string.rb` | a destination string that grows, its length, the room left | `String.compress`, `String.decompress` | growth at the exact boundary, the last resize, errors that must free the context |
| Native stream compressor | `stream/compressor.c`, `gvl.h` | context, destination buffer, the pointer to its free part and its length | `initialize`, `write`, `flush`, `finish`, `read_result`, `close`, collection | any order of calls; a lock released in the middle of a method; requests for room that must be neither missed nor repeated for ever |
| Native stream decompressor | `stream/decompressor.c`, `gvl.h` | the same | `initialize`, `read`, `read_result`, `close`, collection | the same, and frames that end inside a read |
| Raw streams, Writer, Reader | `lib/zstds/stream` | from the adsp gem | drive a native object | not in the repository but for the subclassing |
| Options | `option.c`, `option.rb`, `validation.rb` | none that lasts | validate values, convert them, hand them to a context | zero and nil; integers that pass through `unsigned int` and `int`, and the bounds that do; a refusal at each of three places |
| Dictionary | `dictionary.c`, `dictionary.rb` | the samples, three allocations, the string for the dictionary | `train`, `finalize`, `id`, `header_size` | samples that another thread changes while the lock is released, errors between allocations, options of `finalize` |
| Errors | `error.c`, `error.rb` | none | map a code of libzstd to one of the extension and that to an exception | completeness of the table |
| Extension entry and build | `main.c`, `extconf.rb` | none | register methods | - |
| libzstd | external | a compression and a decompression context | `ZSTD_compressStream2`, `ZSTD_decompressStream` | what it promises, and what it does not |

How they interact.  `file.rb` takes the size of the source file, opens the two
files and calls `zstds_ext_compress_io` or `zstds_ext_decompress_io`; these loop
over `fread`, the codec and `fwrite`.  `string.rb` calls
`zstds_ext_compress_string` and `zstds_ext_decompress_string`, which give the
whole source to the codec.  Writer and Reader own a raw stream, and the raw
stream owns a native object: it calls `write`, `flush`, `finish` or `read`, and
whenever the reply asks for room it calls `read_result`.  Every codec call goes
through `ZSTDS_EXT_GVL_WRAP` (`gvl.h`): unless the option `gvl` is set, the lock
of the interpreter is released for the call, and Ruby handles the interrupts of
the thread (`Thread#raise`, `Timeout`, `Thread#kill`) where it is released and
taken back.  An exception then leaves the C function at once.  Before any of that
the options of a call are validated in Ruby and converted and handed to the
context in C.  `Dictionary.train` and `finalize` list the samples under the lock,
copy them without it, and give the copy to ZDICT.

What makes the parts correct:

- the source reaches the codec in order, each byte once; the bytes of the codec
  reach the destination in order, each once;
- success is reported only when all of it has arrived;
- whatever fails, what was allocated is freed;
- the loops end, and succeed when nothing fails around them;
- a stream object never touches freed memory, never asks its client for room it
  has, and never says it is done when it is not;
- a context is told the options the user wrote and no others, and a value that libzstd
  would take is not refused, but for one kind of zero (section 8);
- ZDICT is given the samples that were listed, and no store leaves its allocation.

## 2. The modules

External contracts, modelled from how the code uses libzstd:

- `ZstdCompressor`: a `ZSTD_CCtx`.  It keeps the source bytes it took (`consumed`),
  how many bytes of archive it made and handed out (`made`, `out`), and whether
  the current frame is `started`, `ended` and counted in `frames`, and the size
  that was `pledged`.  `ContinueCall`, `FlushCall`, `EndPartly` and `EndWholly`
  are one call with a directive each; how much a call takes and hands out is any
  choice the documentation of libzstd allows.  `Blocking` is `nb_workers = 0`: a
  context with workers promises only progress to `ZSTD_e_continue`.  `Bound` limits
  the archive to the source and `Overhead` bytes per frame.  A frame with a
  pledged size is refused when the source differs (`ContinueRefused`, `EndRefused`).
- `ZstdDecompressor`: a `ZSTD_DCtx` over an archive of one or more frames.
  `FrameEnds` are the positions of its frame ends, `Content` what is decoded up to
  each.  A call stops at the end of a frame and leaves the rest of its input.
  `DecompressErrors` are the exceptions that come of a call that fails.

The abstract specification:

- `Transfer`: what a caller of File or String compress and decompress is promised,
  with no buffers: bytes taken in order, bytes delivered in order, success only
  when everything is delivered, no step after the outcome.

Files:

- `BufferedIO`: what both directions share in `io.c`.  Each variable is the local
  of its name; `source` is the offset `source - source_buffer`, `inPos` is
  `in_buffer.pos`, `held` what is allocated, `pc` the place in the code.  A byte of
  the file is its position and a byte of the archive its number, so one lost,
  repeated or exchanged is visible.  The buffers are real arrays: `Refilled` is the
  `memmove` and the `fread`, `Store` what a codec call writes, `Accepts` what
  `fwrite` takes.  `ReadMoreSource(next)` is one turn of `BUFFERED_READ_SOURCE` with
  the source that is left, `Buffered` what follows a codec call, `FlushDestination`
  and `WriteRemaining` the writes, `Release` and `Fflush` the end.
- `FileCompress`: `zstds_ext_compress_io` with `PledgeSize` from `file.rb`, the
  steps of `compress` (`ReadSource`, `Compress`, `Finish`) and `Complete`.
- `FileDecompress`, `MCFileDecompress`: `zstds_ext_decompress_io`; archives for TLC.
- `MCFilesQuiet`: either of the two on the variables they share, for the run where
  nothing fails.

Strings:

- `StringBuffer`: the growing destination string.  `CallAgain` is a call followed by
  `increase_destination_buffer`, `Resize` the last resize.
- `StringCompress`, `StringDecompress`, `MCStringDecompress`: the two functions of
  `string.c`.  When the last resize of compress fails, the loop returns the error to
  its caller, which frees the context; when that of decompress fails, the error is
  raised at once and the context stays allocated (`string.c:224`).  Both are in
  `Finish`.  `NoLeak` of `StringDecompress` is about steps, so that it can name exactly
  this one: the last resize that fails, not any other want of memory.

In `BufferedIO`, `StringBuffer` and `NativeStream`, `OptionErrors` are the exceptions
that handing the options to a context may end in; how an option comes to be refused is
the matter of `Options`.

Streams:

- `NativeStream`: what both objects share.  A method with a codec call is three
  actions: `Enter` (the checks; `SourceRefused` when the source is no string),
  `Called` (the codec), `Leave` (what the object learns).  An interrupt fits
  between any two.  The pointer to the free part of the buffer and its length, which
  the code takes before it releases the lock, are read in `Called`: only another
  thread that uses the same object could change them in between, which
  `src/README.md:478-479` forbids.  `torn` remembers that the codec ran and the object did not
  learn of it.  `Collect` is the collector, which runs when no method does.
- `NativeCompressor`, `NativeDecompressor`, `MCNativeDecompressor`: the methods.  The
  client is any client: it calls any method in any order, offers any length of
  source, and keeps two rules, those of the raw streams: it offers the bytes
  behind those reported as taken, and once `finish` has asked for room it calls
  nothing else that calls the codec until finish is through.  `ReadResultAsked`,
  `FinishAgain` and `ReadRest` are the calls a raw stream makes to get through.

Options and dictionaries:

- `Errors`: the two tables of `error.c`, from a code of libzstd to one of the
  extension (`GetError`) and from that to an exception (`ExceptionOf`).
- `OptionValues`: what `zstds_ext_resolve_option` makes of one Ruby value.  A value
  is a kind and a number; `HalfRange` and `FixnumRange` stand for 2^31 and 2^62, so
  that the conversions through `unsigned int` and `int` wrap.
- `Options`, `MCOptions`: the way of all options of one call.  `ValidateOption` is
  `option.rb` with the bounds of `EXPORT_PARAM_BOUNDS` (`Exported`), `ResolveOption` is
  `ZSTDS_EXT_GET_*_OPTIONS`, `CreateContext` the allocation between, `SetOption` and
  `SetRefused` are `SET_OPTION_VALUE` and what the caller does when it fails.  What a
  context takes is `Takes`: the numbers within its bounds; a zero below them where it
  stands for the default (`ZeroIsDefault`); and any number where libzstd clamps it, or
  looks only whether it is zero (`Lenient`).
- `Dictionary`, `MCDictionary`: `train` and `finalize`.  `asked` are the
  `dictionary_options` merged with their defaults (an explicit nil stays and is
  refused), `options` those beside them.  `strings` are the samples as
  Ruby holds them, `samples` the sizes read under the lock, `group`, `offset` and
  `sizes` the copy, `held` what is allocated.  `StringChanges` is another thread, which
  can run only while the lock is released (`Gvl` is the option that keeps it).

Proofs (section 4): `FileCompress_proofs`, `FileDecompress_proofs`,
`StringCompress_proofs`, `StringDecompress_proofs`, `NativeCompressor_proofs`,
`NativeDecompressor_proofs`, `Options_proofs`, `Dictionary_proofs`.  Each stands on its
module alone; what the two directions of files, and of strings, need of their shared
buffers is stated at the beginning of both.

Operators with a comment that begins with "Mutant" are not part of a model.  Each
is the mutated form of the definition below it, the plausible bug that breaks one
of the properties; they document what the properties catch.

## 3. The runs

Deadlock is checked in every run but the three of streams, where a collected object
really stops.

| Run | What it explores | What it shows |
|---|---|---|
| `file_compress` | buffers of 3 and 2 bytes, files up to 4, a frame overhead of 2, `nb_workers > 0`; every failure, interrupts, a file changed by others | `TypeOK`, `LoopInvariant`, `OkMeansArchived`, `NoLeak`, `Terminates`, and `KeepsPromise`: the refinement of `Transfer` |
| `file_decompress` | buffers of 2 and 2; three frames of which one has no content, and every beginning of that archive; every failure | `OkMeansWhole`, `BuffersSuffice`, `KeepsPromise`, `Terminates` |
| `files_quiet` | `File.compress` and `File.decompress` of one frame, whole or cut short; buffers of 2 and 3, files up to 5, an overhead of 3, no workers, nothing fails | `NoRemainder`, `Succeeds`, of both |
| `file_decompress_remainder` | three frames, nothing fails | `NoRemainder` is violated (section 8) |
| `string_compress` | strings up to 4 bytes, growth by 2, failures and interrupts | `OkMeansArchived`, `NoLeak`, `KeepsPromise`, `Terminates` |
| `string_decompress` | three frames and their beginnings, growth by 2, failures and interrupts | `OkMeansWhole`, `NoLeak`, `KeepsPromise`, `Terminates` |
| `native_compressor` | a buffer of 2, 2 bytes of source, 2 frames, any order of calls, errors, interrupts | `TypeOK`, `MemorySafe`, `SourceFaithful`, `ResultFaithful`, `MoreMeansFull`, `LessMeansDone`; a client that finishes gets through: `FinishEnds` |
| `native_compressor_pledge` | the same, nothing fails | `ZeroPledgeIsAuto` is violated (section 8) |
| `native_decompressor` | a buffer of 2, two frames in 3 bytes, any order of calls, errors, interrupts | `ResultFaithful`, `LessMeansDone`; a client that goes on reading gets through: `ReadEnds` |
| `options` | an `int` of 3 bits, a Fixnum of 6, an option of every type for a compressor and two for a decompressor, numbers on both sides of every boundary, values of every kind; parameters of which libzstd takes a zero below the bounds, or any number | `AppliedAsGiven`, `RefusedMeansWrong`, `NothingLate`, `NoLeak` |
| `dictionary` | up to 2 samples of up to 2 bytes, capacities up to 2 and a default of 3; every failure, interrupts, samples that change | `MemorySafe`, `GroupFaithful`, `NoLeak`, `ResultWhole`, `NumbersSurvive` |
| `dictionary_options` | the same, nothing fails | `OptionsReachCodec` is violated (section 8) |

Why these bounds are enough to meet the cases.  A source buffer of 2 or 3 bytes
against files up to 5 is filled several times, ends a file at its edge and before
it, and keeps tails of every length; so the windows that `memmove` moves overlap.
A destination buffer of 2 is filled exactly, several times in one input, and by
the epilogue of a frame alone, because the overhead is at least as long as the
buffer.  Frames of 2, 1 and 2 bytes end at every offset of these buffers, and one
of them is empty.  Two frames and one buffer of 2 bytes are the least for a
stream object that is used again after `finish` with bytes waiting.  An `int` of 3
bits has numbers inside and outside of the bounds, in the upper half of the
`unsigned int`, beyond it, and beyond a Fixnum, which is all the code tells apart; one
option of each type goes through each branch.  Two samples are the least with one
copied behind another, and a length of 0, 1 or 2 in place of another makes a sample
that another thread changes shorter, longer and empty.

Fairness.  `FairSpec` adds weak fairness of `Program`, the steps of the call itself:
the thread that runs the call is scheduled, `fread`, `fwrite` and the codec return.
Nothing is assumed of interrupts or of other processes.  A
failure is one outcome of a step, and no loop may count on it to end: for strings
the fairness is that of the steps that do not fail; for files, where a failure can
be all the code does (a remainder, a file that is not of the pledged size), the
run with nothing failing shows it (`Succeeds`).

A stream owes its client nothing until it is called, so its fairness has two parts.
The codec call and the return of a method that was entered are weakly fair, as
above.  The rest is what the client does: it calls `finish` again when it was asked
to and nothing else is left to do (weak), and again and again takes the chance to read
the result and, for decompression, to offer what is left (strong, because it may
make any other call in between and so disable the step for a while).  A raw stream
of adsp does this in a loop.  Collection, `close`, errors and interrupts may always
come; the two properties name them as ways to end.  Options and Dictionary have a
bounded number of steps and state no liveness.

## 4. The proofs

`FileCompress_proofs` proves of `FileCompress`, for every size of the two buffers,
every length of file and every overhead, with and without workers, failures and
the global lock:

| Theorem | Statement |
|---|---|
| `TypeCorrect` | `Spec => []TypeOK` |
| `LoopCorrect` | `Spec => []LoopInvariant` |
| `Implements` | `Spec => KeepsPromise`, the refinement of `Transfer` |
| `NothingLeaks` | `Spec => []NoLeak` |
| `SuccessIsArchive` | `Spec => []OkMeansArchived` |
| `BlockingLeavesNothing` | `Blocking => (Spec => []NoRemainder)` |
| `StepsRunOut` | every step makes `StepsLeft`, a natural number, smaller |

The assumptions are the named ones of the modules: buffers of at least one byte, an
overhead of at least one, `NoPledge` not a number.

The argument.  `SourceFaithful` and `DestinationFaithful`, which say that bytes arrive
in order, are not inductive: whether the next byte is right depends on what is in
the buffers.  `LoopInvariant` adds the two windows.  `SourceWindow` says that the
unused part of the source buffer is exactly the bytes of the file behind those
the context had taken when the loop began, with `inPos` accounting for the calls
since; `DestinationWindow` says that what the context handed out is in the
destination or, in order, at the top of the buffer.  `Untouched` is what the loops
start from, and `OutcomeInPlace` ties the result to the place in the code.  With
`TypeOK` this is inductive (`Invariant`).

The first part of the module has the facts about the buffers, without any context, so
that file decompression can use the same: `RefilledWindow` (memmove and fread keep the
window), `InputWindow` (the input of a call is the next bytes), `StoredWindow`,
`AcceptedCounts` and `FlushedWindow` (stored, accepted and flushed bytes continue the
destination).  `FileCompress_proofs` has one lemma for each action, and each says
also which kind of step it is: it moves bytes (`Advances`), gives the outcome
(`Settles`) or moves nothing (`Rests`).  The refinement follows from the kinds:
`AdvanceIsCall`, `SettleIsOutcome`, `RestIsQuiet`.  `NothingLeaks` needs what is held at
each place (`HeldInPlace`), `SuccessIsArchive` what the context knows of its frame
(`FrameInPlace`): the pledge reaches the context before the first call, the context
is never at the end without having been called, and so `ZSTD_endStream` compares
the pledge with what was taken.  `BlockingLeavesNothing` needs that nothing is in the
source buffer whenever `read_more_source` is called (`NothingLeft`): a call of a context
without workers that leaves room in the destination buffer has taken all of its input,
and one that leaves none is flushed, and there is a byte to flush.  With workers it is
false, so `Blocking` is a hypothesis; failures and interrupts are not excluded.

`FileDecompress_proofs` proves the same of `FileDecompress`, for every size of the
buffers, every archive of whole frames and every beginning of one:

| Theorem | Statement |
|---|---|
| `TypeCorrect` | `Spec => []TypeOK` |
| `LoopCorrect` | `Spec => []LoopInvariant`, with the `LoopInvariant` of this direction |
| `Implements` | `Spec => KeepsPromise`, the refinement of `Transfer` |
| `NothingLeaks` | `Spec => []NoLeak`, with the `NoLeak` of this direction |
| `SuccessIsWhole` | `Spec => []OkMeansWhole` |
| `SmallBuffersSuffice` | `Spec => []BuffersSuffice` |
| `StepsRunOut` | every step makes `StepsLeft`, a natural number, smaller |

The argument is that of compression, on the same lemmas about the buffers.
`DecompressCallKeeps` replaces the lemmas of the three codec calls.  `SuccessIsWhole`
needs that the context holds nothing back when the loops are left (`WholeInPlace`):
a call that leaves room in the destination buffer has handed out everything
decoded (`Drained`), and one that leaves source has met the end of a frame
(`FrameDone`).  That is why `io.c` may stop calling when the buffer is not full.
`SmallBuffersSuffice` needs less than its counterpart of compression and gets less: a
call may leave source behind the end of a frame, but it has then taken a byte, so there
is room for the next `fread` (`RoomToRead`).

`StringCompress_proofs` and `StringDecompress_proofs` prove of the two functions of
`string.c`, for every length of the source and of the pieces the string grows by,
every overhead and every archive, with and without failures and interrupts:

| Theorem | Compression | Decompression |
|---|---|---|
| `TypeCorrect` | `Spec => []TypeOK` | the same |
| `Implements` | `Spec => KeepsPromise`, the refinement of `Transfer` | the same |
| `NothingLeaks` | `Spec => []NoLeak` | `Spec => NoLeak`, of steps, with the one of `string.c:224` named |
| `SuccessIsArchive`, `SuccessIsWhole` | `Spec => []OkMeansArchived` | `Spec => []OkMeansWhole` |
| `StepsRunOut` | every step makes `StepsLeft`, a natural number, smaller | the same |
| `StringGrows` | `Spec => [](result # "NotEnoughDestinationBufferError")` | the same |

The argument.  `StringInvariant` is what both share: the bytes
written are at the top of the string, in order (`DestinationHolds`); while the loop
runs, what is written and what is left add up to the length of the string, so that
no call is given room the string does not have; before the loop nothing has moved
(`Untouched`).  There is one lemma for each action (`StartStep`, `CallStep`,
`FailStep`, `ResizeStep`, `ReleaseStep`).  `CallStep` is the one of growth: a resize
keeps what is written (`ResizedKeeps`), and the room of the next call begins where
the last one stopped.  `ContextInPlace` ties the context to it: what it has taken is
what is in front of `in_buffer.pos`, what it has handed out is in the string.
`SuccessIsArchive` adds what the context knows of its frame (`FrameInPlace`);
`SuccessIsWhole` that a call which leaves room has handed out everything decoded
(`WholeInPlace`).  `NothingLeaks` of decompression needs only that nothing is held before
the context is created (`HeldInPlace`): it is about each step by itself, and so tells the
last resize from every other failure.

`NativeCompressor_proofs` proves of `NativeCompressor` every safety property its run
checks, for every length of the buffer and of the source, any number of frames, with
and without failures, the global lock and (but for the last) workers:

| Theorem | Statement |
|---|---|
| `TypeCorrect` | `Spec => []TypeOK` |
| `NoDanglingPointer` | `Spec => []MemorySafe` |
| `SourceInOrder` | `Spec => []SourceFaithful` |
| `ResultInOrder` | `Spec => []ResultFaithful` |
| `RequestsJustified` | `Spec => []MoreMeansFull` |
| `RepliesComplete` | `Blocking => (Spec => []LessMeansDone)` |

The argument.  A client calls the methods in any order, so nothing can be said of the
order; `Shape` says what is true between and inside of methods instead: what is
allocated is what the pointers point to, and a method past its check runs on an open
object (`MemoryInPlace`); the locals of a method hold nothing before the codec ran
(`CallInPlace`); before `initialize` nothing has moved (`FreshInPlace`).  `StepKinds`
sorts the steps, and `CodecRuns` is what the three codec calls have in common
(`CodecStep`), so each later proof has seven cases.  `ResultFaithful` is not inductive,
because between the codec call and the return the buffer is ahead of the object: the
strengthening `Window` counts what the running method has stored behind what waits.
`MoreMeansFull` and `LessMeansDone` need what the method learned of the codec call
while its reply is still to come (`Learned`).  Without `Blocking`, a context may take
only part of what write was given with room left, and `LessMeansDone` is false.

`NativeDecompressor_proofs` proves of `NativeDecompressor`, for every length of the buffer,
every archive, with and without failures and the global lock:

| Theorem | Statement |
|---|---|
| `TypeCorrect` | `Spec => []TypeOK` |
| `NoDanglingPointer` | `Spec => []MemoryInPlace` |
| `SourceInOrder` | `Spec => []SourceFaithful`, stated in the proofs as for compression |
| `ResultInOrder` | `Spec => []ResultFaithful` |
| `RepliesComplete` | `Spec => []LessMeansDone` |

The argument is that of the compressor: `Shape`, `StepKinds`, `CodecRuns` of the one
codec call, and `Window`.  What is new is the end of a frame inside a read: `AtFrameEnd`
says that the content up to there is decoded, and `Learned` that a read which has seen
room left has either used up its source or stopped at such an end, before its reply says
so.  No assumption on workers is needed.

`Options_proofs` proves of `Options`, for all lists of options, all types and bounds,
all widths of an `int` and all values:

| Theorem | Statement |
|---|---|
| `Applied` | `Spec => []AppliedAsGiven` |
| `Refused` | `Spec => []RefusedMeansWrong` |
| `Late` | `Spec => []NothingLate` |
| `NothingLeaks` | `Spec => []NoLeak` |

Four lemmas are about single values and carry the weight: exporting a bound through
`unsigned int` does not change it (`ExportedBounds`), what Ruby lets through is within
the bounds of libzstd (`ValidBounded`), is converted without a change (`ValidConverts`),
and fails to convert only where Ruby does not look (`ValidConversionError`).  The
`Refused` is about what libzstd takes, its zeros for a default included
(`ZeroIsDefault`): what Ruby refuses, with no other reason in the list, is such a zero
of an option whose lower bound is above it, the exception that the property names
(`ZeroBelow`).  The
inductive `Invariant` says of each place in the code how far the three passes over
the options have come (`ValidSoFar`, `ResolvedSoFar`, `ToldSoFar`), and of a call that
raised why it did (`Reason`).  No option appears twice in a list: otherwise a later
one would overwrite what an earlier one told the context.

`Dictionary_proofs` proves of `Dictionary` every property its run checks, for any number of
samples of any length, every capacity, every width of an `int` and all values of the
options, whatever ZDICT, another thread, an interrupt or an allocation does:

| Theorem | Statement |
|---|---|
| `InvariantCorrect` | `Spec => []Invariant` |
| `TypeCorrect` | `Spec => []TypeOK` |
| `MemoryCorrect` | `Spec => []MemorySafe` |
| `GroupCorrect` | `Spec => []GroupFaithful` |
| `LeaksKnown` | `Spec => []NoLeak` |
| `ResultCorrect` | `Spec => []ResultWhole` |
| `NumbersCorrect` | `Spec => []NumbersSurvive` |

The argument.  `Total`, the sum of the sizes, is a recursive function, and what the copy
needs of it are three facts: a sum exists and is a number (`TotalNat`), the sum of one
more sample is that of the samples before it and its size, and the sum of a beginning of
the list is at most the sum of the list (`TotalOfBeginning`), which keeps the copy
inside the group.  They are inductions over the list; as no prover here can instantiate
an induction rule that takes a formula, each is made from the well-foundedness of the
numbers (`Least`, `Reaches`): of the indices at which the claim fails there would be a
least.  The invariant says of each place in the code what is allocated (`HeldInPlace`),
what is in the string for the dictionary (`BufferInPlace`), that the samples the loop has
passed are in the group, each at the sum of the sizes before it (`GroupInPlace` with
`SamplesCopied`), and what each option has become (`ParamsInPlace`).  `GroupFaithful` is the
last turn of that loop.  A copy changes bytes behind the offset only, so it leaves the
samples before it; a sample another thread has changed is exempt, but not its place
and size, which are those read under the lock.

The four calls also end by themselves, in the part of `Terminates` that needs no
fairness.  `StepsRunOut` says that `StepsLeft` is a natural number and that every step
makes it smaller (but for a process that changes the file of a call of `io.c`, which
leaves it as it is).  `StepsLeft` adds what the loops can still do and how far the
place in the code is from the end (`Place`).  A turn of a loop goes back to an earlier
place, so it must have spent something: a codec call that is to be repeated has handed
out a byte, since it was given room and left none; `fread` has taken a byte; and the one
call of an empty file is made once.  There is only so much to spend: the file and one
frame of it, whose length is bounded by the contract of libzstd, or the content of the
archive that the source is the beginning of.  `WithinBounds` says this, and that no
codec call begins with a full buffer; it needs `FrameInPlace`, for a second frame would be
more.  One lemma for each kind of step says what it costs (`ReadCosts`, `CallCosts`,
`CompressCosts`, `OtherCosts`), and `FewerSteps` does the arithmetic.  `StringGrows` is a
by-product: a turn begins with a whole fresh piece of the string, a call that is to be
repeated fills it, and so `string.c:22-25` never finds it untouched.

With this every safety property that a passing run checks is a theorem.  Only
model-checked are the liveness properties (`Terminates`, `Succeeds`, `FinishEnds`,
`ReadEnds`): the prover reaches neither fairness nor enabledness.  What is left of
`Terminates` for TLC is that a call which has not returned has a step to take, and that
it takes it.  The violated properties of section 8 are of course not theorems, nor is the absence of a remainder
for a context with workers.

## 5. What is assumed

- The contract of libzstd is that of `ZstdCompressor` and `ZstdDecompressor`.  It is
  loose on purpose: a call may do anything its documentation allows.
- One thread at a time uses a stream object, as `src/README.md:472-479` asks.
- `fread` and `fwrite` move at most what they are asked; `fwrite` that moves less is an
  error; stdio hands bytes to the system at a time of its choice (`saved`).
- The collector does not run `free_compressor` while a method of the object is on a
  stack.
- The bounds libzstd gives for its parameters are ints, and not negative for those
  `option.c` calls unsigned; those of a flag include 0 and 1 (`BoundsAssumption`).
  Which zeros mean a default and which parameters are lenient is not assumed: these are
  any two sets of options (`OptionsAssumption`).  Every
  `int` is a Fixnum (`RangeAssumption`).
- ZDICT writes at most the capacity it is given.
- After a call was torn by an interrupt or a codec error nothing is claimed of the
  bytes of that object, only of its memory (`MemorySafe`, `TypeOK`).

## 6. What is not modelled

- The contents of bytes, the format of archives, compression itself.
- Raw streams, Writer and Reader: their logic is that of the adsp gem.  A client
  with the rules of the raw stream is part of `NativeCompressor`.
- A second `initialize` of the same stream object.
- Opening and closing of the two Ruby files; `GET_FILE` is one step that may fail.
- The options the C functions read for themselves: lengths of buffers and `gvl`, which
  are constants of the models.
- Of dictionaries: `id` and `header_size`, which read and change nothing, and the
  content string of `finalize`, which is one more string like the samples.
- Builds without some parameters of libzstd; a build without `finalize` is the
  `NotImplementedError` of `ResolveOptions`.
- Registration of methods and the build: no state.

## 7. The plan

1. Core, done: both contracts, `Transfer`, files, strings, native streams, and the
   proofs of file compression.
2. `Options` with its proofs, and `Dictionary`, done: what users give becomes what
   libzstd is given.
3. Liveness of the streams for a client that does its part, done; the proofs of file
   decompression and of strings, done.
4. `RawCompressor` and `RawDecompressor`: the loops of a raw stream as external
   clients composed with the native objects, with the property that a writer that
   is closed has delivered one archive of all it was given.
5. Proofs of every safety property the runs check, done.
6. What the prover can say of termination without fairness, done for the four calls: a
   measure that every step makes smaller.  The same for the methods of the streams,
   which a client calls again and again, would count the steps of one method.

Runs stay at the sizes of section 3; each new module gets one passing run.

## 8. Disagreements found

`io.c:131` comments the read loop with "ZSTD won't provide any remainder by design."
and returns `ReadIOError` for a remainder.  `file_decompress_remainder` shows one
with nothing failing: `ZSTD_decompressStream` stops at the end of a frame,
`buffered_decompress` calls it again only when the destination buffer is full, and
so an archive of several frames is refused when a frame ends inside the last
read.  The call fails; nothing is lost in silence, which is what `OkMeansWhole`
says.  (With `nb_workers`, where a `ZSTD_e_continue` call only promises progress, the
same holds for compression: `NoRemainder` of `FileCompress` is checked for
`nb_workers = 0` only.)

`dictionary.rb:73` documents `dictionary_options` as an option of `Dictionary.finalize`, and
`dictionary.rb:90-97` merges and checks it.  `dictionary.c:270` looks for the three options
beside it, in the options themselves.  `dictionary_options` shows a call with a
compression level in `dictionary_options` for which ZDICT is given 0.

`src/README.md:187` gives `pledged_size` the range "0 - inf" and the default "0 (auto)".
The default of the code is nil, and an explicit 0 is an option that has a value
(`option.c:113-121`), which `option.c:188-193` pledges: to libzstd, that is a source of
no bytes.  `native_compressor_pledge` shows a stream initialized with 0 that refuses the
first byte written to it with `ValidateError`.  `AppliedAsGiven` does not say otherwise:
it says that a zero is told to libzstd as a zero, whatever it means there.

`src/README.md:167-177` and `185` give the same "0 (auto)" as the default of `window_log`,
`hash_log`, `chain_log`, `search_log`, `min_match`, `ldm_hash_log`,
`ldm_min_match`, `ldm_bucket_size_log` and `window_log_max`,
and libzstd takes 0 for these as "use the default".  `option.rb:120-125` and the lines
like it refuse it, because they compare with the least value in the bounds of libzstd,
which is above 0.  A user who leaves the option out gets the default, and one who
writes the documented 0 gets `ValidateError`.  `RefusedMeansWrong` names this zero as its
one exception (`ZeroBelow`), and shows that Ruby refuses nothing else that libzstd takes.
