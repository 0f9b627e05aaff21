# Specifications of msgpack-python

TLA+ modules of the decoders and packers of msgpack-python (`src/msgpack/`),
the TLC instances that check them, and TLAPS proofs about them. This
document lists the parts of the library, says what each module models and what
each run and theorem establishes, and what is left out.

## 1. The system

The library packs Python objects to the MessagePack format and unpacks them.
It exists twice: a Cython/C implementation (`_packer.pyx`, `_unpacker.pyx` and
C headers) and a pure Python one (`fallback.py`); `__init__.py` imports one.

| part | source | state | operations | interacts with |
| --- | --- | --- | --- | --- |
| Cython `Unpacker`, buffer | `_unpacker.pyx` 306-453, 488-498 | `buf`, `buf_head`, `buf_tail`, `buf_size`, `stream_offset`, `file_like` | `feed`, `read_from_file`, `append_buffer`, `read_bytes`, `tell` | the file object; the parser moves `buf_head` |
| C parser | `unpack_template.h`, `unpack.h`, `unpack_container_header.h`, `unpack_define.h` | `unpack_context`: `cs`, `trail`, `top`, `stack[1024]` | `unpack_execute` (construct / skip), `read_array_header`, `read_map_header` | callbacks build Python objects and call hooks |
| `unpackb()` | `_unpacker.pyx` 141-208 | a context on the C stack | one call of the parser | parser |
| Cython `Unpacker`, calls | `_unpacker.pyx` 455-485, 500-548 | buffer + context | `unpack`, `__next__`, `skip`, header readers | loop of `_unpack()`: parser, then file, then parser |
| fallback decoder | `fallback.py` 392-560 | none of its own | `_read_header`, `_unpack` (recursive) | hooks |
| fallback `Unpacker`, streaming | `fallback.py` 226-390, 562-600 | `_buffer`, `_buff_i`, `_buf_checkpoint`, `_stream_offset` | `feed`, `_reserve`, `_consume`, `read_bytes`, the calls | file object, decoder |
| Cython `Packer` | `_packer.pyx`, `pack.h`, `pack_template.h` | `pk.buf`, `pk.length`, `pk.buf_size`, `exports` | `pack`, `pack_map_pairs`, header methods, `pack_ext_type`, `reset`, `bytes`, `getbuffer` | `default` hook, exported views, `realloc()` |
| fallback `Packer` | `fallback.py` 604-929 | `_buffer`, a `BytesIO` | the same | `default` hook, views of the `BytesIO` |
| `ExtType`, `Timestamp` | `ext.py` | immutable | conversions | decoders and packers |
| exceptions, entry points | `exceptions.py`, `__init__.py`, `_cmsgpack.pyx` | none | none | none |

The library starts no thread. What is hard here is not parallelism but
*resumption, failure and agreement*: input may stop after any byte with
containers open and the next call must continue there; buffers are compacted,
enlarged and clipped under an arbitrary order of feeds, reads, writes and
takes; files, allocation, hooks and conversions may raise between two updates
that belong together; and two implementations with different structure (a
resumable machine of states and gotos or a recursive function, a growing C
array or a `BytesIO`) are meant to be interchangeable.

What makes each part correct:

* buffers of the unpackers: no byte lost, repeated or out of order; never
  outside the array or the limit; refused input refused for the right reason;
  `tell()` says what was taken; missing bytes leave the position at the object;
* parser: the stack of open containers stays consistent across calls; the
  result does not depend on where the input was cut; it terminates;
* `unpackb()` and the two `Unpacker`s: every answer is that of a decoder that
  had all received bytes at once;
* formats: what is packed is unpacked to the same object, in the shortest form,
  and both implementations write the same bytes;
* `Packer`: bytes of a failed `pack()` do not reach the next result; views stay
  valid; the two implementations cannot be told apart.

`PROJECT.json` lists the hazards with their source lines and the properties
that watch them.

## 2. The modules

| module | what it is | lines of source |
| --- | --- | --- |
| `ByteStream` | abstract: a sequence of bytes, a prefix of it handed out, at most `Limit` waiting | - |
| `UnpackBuffer` | the buffer of the Cython `Unpacker`, cell by cell | `_unpacker.pyx` 343-453, 461-464, 488-498 |
| `Values` | Python objects and the conversions from bytes | `unpack.h`, `ext.py`, `sysdep.h` |
| `UnpackExecute` | the parser, as actions other modules compose | `unpack_template.h`, `unpack_container_header.h`, `unpack.h`, `unpack_define.h` |
| `FallbackDecode` | the recursive decoder as an operator | `fallback.py` 72-94, 392-560, 578-598 |
| `Unpackb`, `UnpackbDecoded` | `unpackb()`: the parser on a whole input; against `FallbackDecode` | `_unpacker.pyx` 165-208 |
| `MessageStream` | abstract: bytes arrive, each call answers what the decoder makes of them | - |
| `WaitingParser` | abstract: a parser that stands still until its next bytes have come, on a stream without a buffer | - |
| `CythonUnpacker`, `CythonUnpackerMessages` | `UnpackBuffer` and `UnpackExecute` joined by the loop of `_unpack()`; against `WaitingParser` and `MessageStream` | `_unpacker.pyx` 455-548 |
| `FallbackBuffer` | the `bytearray` of the pure Python `Unpacker` and its two positions | `fallback.py` 247-390 |
| `FallbackUnpacker` | `FallbackBuffer` and a decoder joined by the calls; against `MessageStream` | `fallback.py` 318-390, 488-598 |
| `Numbers` | 65-bit integers as byte strings: comparison, truncation | `sysdep.h` 177-182 |
| `PackTemplate` | the C writers and `_pack_inner()`: which bytes an object is given | `pack_template.h`, `_packer.pyx` 152-256 |
| `FallbackFormats` | what `_pack()` of `fallback.py` writes for an object itself, before the objects in it | `fallback.py` 676-798, 865-911, `ext.py` 97-116, 165-170 |
| `FallbackPack` | the recursion of `_pack()` as an operator: nesting, `default()`, components | `fallback.py` 676-812 |
| `Formats`, `FormatsDecoded` | one item packed by both; what was packed, against the decoder | `_packer.pyx` 271-315, `fallback.py` 800-834 |
| `CythonPacker` | the Cython `Packer`, one step per write and per object | `_packer.pyx` 113-364, `pack.h` 39-60 |
| `FallbackPacker` | the pure Python `Packer`, one step per call | `fallback.py` 653-674, 800-929 |
| `Packers` | the two given the same calls | - |
| `UnpackBufferProofs`, `FallbackBufferProofs`, `UnpackExecuteProofs` | theorems and lemmas about one component | - |
| `UnpackbProofs`, `CythonUnpackerProofs`, `FallbackUnpackerProofs`, `CythonPackerProofs` | theorems about the compositions, from those | - |
| `FormatsProofs` | the writers of the C packer, and the formats of both packers | - |
| `...MC` | values of the constants | - |

A composition instantiates the proof module of a component where it has one
(`Parser == INSTANCE UnpackExecuteProofs`, `Buffer == INSTANCE
UnpackBufferProofs`), so that its own proofs can cite the component's lemmas.
The recursive decoder cannot be reached from a module with proofs; what is
stated with it stands in modules of its own (`UnpackbDecoded`,
`CythonUnpackerMessages`, `FormatsDecoded`, `Packers`), or it is a parameter
(`FallbackUnpacker`, `MessageStream`).

### UnpackBuffer

The variables carry the names of the class fields; `buf` is a function on
`0 .. buf_size-1` with `Junk` in cells never written, so a cell read too early
is visible. `received`, `skipped` and `lost` are history: what came in, what
left without being counted by `tell()`, what was read from the file and
dropped. `Feed`, `ReadFromFile`, `ReadBytes` are the methods; `Execute(k)` is
one run of the parser as the buffer sees it (`buf_head` moves by `k`).
`AppendBuffer` has the code's branches: append, move to the front, enlarge,
`BufferFull`, `MemoryError`. A file read returns any chunk up to what was asked
for, nothing (end of file), or raises; the allocation may fail.

`execute_fn` is declared `except? -1` (line 48), so when a callback raised,
Cython leaves `_unpack()` before line 464: `buf_head` has moved and
`stream_offset` has not. That is the second disjunct of `Execute`.

### UnpackExecute

`cs`, `trail`, `stack`, `root` are `unpack_context`; `p`, `obj`, `at` the
locals and labels. One step is one header byte, one length or payload, or one
pass through `_push`; `HeaderAgain`, `Again`, `Push`, `StartContainer`,
`Return` are the macros and labels of the C source, `Raw`, `Bin`, `Ext`,
`MapItem`, `ArrayItem` the callbacks. `ret` distinguishes -1 with a Python
exception set ("raised") from -1 without one ("failed", an ext timestamp of a
wrong length), because Cython treats them differently.

Data is abstracted to what the properties compare: an int is its shortest
two's-complement byte string, so 64-bit values need no large numbers; a float
is its bytes; a hook wraps its argument or raises. Lengths from 2^31 up are one
value, `Huge`, which no input reaches, except that `0xffffffff` is kept apart
for ext 32, where adding the type byte wraps an unsigned int to 0.

### CythonUnpacker and FallbackUnpacker

`pc` says where `_unpack()` is. The bytes that arrive are those of the input of
one member of `Cases`, cut anywhere: `Feed` and file reads take any next piece.
`answer` is what the call came to. In `CythonUnpacker`, `objStart` is how many
bytes had been taken when the last object was complete, and when a call ends
its locals are forgotten.

In `FallbackBuffer` the decoder is reduced to the reservations it makes: it
reads `k` bytes that are there and is done (`Deliver`), raises (`Fail`) or
needs `n` more (`Reserve`); `ReadFile` is one turn of the loop in `_reserve()`,
`Reserved` what follows it. `FallbackUnpacker` puts a decoder in that place,
the constant operator `DecodedBy(method, bytes, options)`: it reports with
`OutOfData` where the missing bytes begin and how many are asked for. Its
instance is `FallbackDecode`. All the composition needs of it is
`DecoderAssumption`: it stops inside its bytes, it goes on missing the same
ones until they have come, and they are part of the object it reads. TLC
evaluates that assumption for the recursive decoder on every cut of every
input of the run. What the decoder does before a reservation depends on the bytes
only, so after a file read the model runs it again from the checkpoint instead
of keeping its Python frames suspended.

The caller of the models keeps rules the code relies on and does not enforce:
a Cython call that raised `OutOfData` inside an object is continued with the
same method, and an `Unpacker` whose data was found wrong, that dropped bytes
for want of memory, or (pure Python) that was interrupted inside an object, is
not used again (`Abandoned`).

`WaitingParser` takes away from the Cython `Unpacker` everything that cutting
its input adds: buffer, head and tail, the calls that find part of an object.
It has the steps of `UnpackExecute` on all bytes received, and a condition: it
parses only when the bytes it needs next (`Needed`) have come. A call that ended
inside an object is that parser standing still, so the mapping (`StreamAt`,
`StreamPos`) has it at its loop, at the position after the bytes taken.

Where the two implementations may differ, `MessageStream` leaves the choice
open and says so: whether limits apply to skipped or counted objects
(`Readings`), whether a header reader refuses another type at once or after its
payload (`OtherType`), and whether `read_bytes()` on fed input takes all or
nothing (`BytesRefused`).

### PackTemplate, FallbackFormats, FallbackPack and Formats

Objects are tuples tagged with their kind; subclasses, types msgpack does not
know, naive datetimes and text without UTF-8 are kinds of their own. Integers
are byte strings compared as signed 65-bit numbers, because TLC has 32-bit
ones; `Chosen` picks the first row of a table whose test holds, which is what
both the nested comparisons of C and the chain of `if` of Python come to.
`PackInner` gives the byte strings handed to `msgpack_pack_write()`, one by
one, and the objects packed after them, or the exception. `WriteSelf` is what
`_pack()` of `fallback.py` writes for an object before those in it, or the
exception and whether `default()` is asked first (`asks`); `WriteObject` is the
whole result, with what was written before an exception. `Formats` joins
`PackInner` and `WriteSelf` and reaches no recursion, so theorems can be stated
about it; `FormatsDecoded` adds the decoder.

### CythonPacker, FallbackPacker and Packers

`todo` holds what is still to be written and packed, in order: the pending part
of the recursion of `_pack()`. `DoWrite` is `msgpack_pack_write()` with growth
and failed `realloc()`, `PackNext` is `_pack()` of one object up to its first
write, with `default()`; `Finish` and `Fail` are the two ways a method ends.
`dangling` is history: a live view shows a block that `realloc()` gave up. The
writes of `msgpack_pack_timestamp()`, whose result the C code drops, are marked
unchecked: their failure leaves an exception set that surfaces when the method
returns (`pending`).

`FallbackPacker` needs no steps inside a call, because nothing of the model
interrupts it. `Packers` gives both the same calls; its `same` turns false
where the two are allowed to differ: a view was alive (Cython refuses before it
writes, `BytesIO` when it is written to), memory ran out, or `fallback.py` met
the limit of nesting, which for dicts comes at half the depth (783, 883).
`reset()` without a view makes it true again.

## 3. What the runs check

Runs that pass:

* **buffer** (`UnpackBufferMC`). `Bounds` and `Integrity`: indices in order and
  the waiting cells are exactly the received bytes that follow the taken ones.
  `FullOnlyWhenFull`: `BufferFull` from `feed()` if and only if waiting plus new
  bytes exceed the limit. `FileBytesKept`: bytes the file gave are dropped only
  by a failed allocation. `StreamSpec`: refinement of `ByteStream` with
  `position <- stream_offset`. Bounds: chunks of 0, 1, 2 and 5 bytes over two
  values, `read_size` 2, limit 7, at most 8 bytes received. The array then has
  sizes 2, 6 and 7, is compacted, grows more than once, is clipped to the limit and
  refuses.
* **unpackb** (`UnpackbMC`). `SameResult`: the C parser returns an object (and
  extra bytes) exactly when the Python decoder does, and the same; otherwise
  both raise. (Which exception comes first when an input has several faults is
  not compared: C tests a length limit and a key when payload and value are
  complete, Python before.) `ParserOK`: frames consistent, position inside the
  input. `Returns`: every call ends. `StepsAdvance` is the measure behind it: a step
  ends the run, passes a byte, or goes one container down the stack. Inputs: all strings up to 3 bytes over 20
  bytes that cover every header class, all nested ones up to 5 bytes over 6, and
  each wide format alone, truncated at every point, extended and inside an
  array; five sets of options, one with every limit at 1. The set with an
  `object_pairs_hook` is without `strict_map_key`: together they are the run
  pairs_hook_keys.
* **unpacker** (`CythonUnpackerMC`). `MessageSpec`: refinement of
  `MessageStream` with `next <- objStart`, for sixteen inputs, pieces of one or
  two bytes, feed or file, file reads that end or raise early, failed
  allocations, `read_bytes` between objects, all methods. Seven of the inputs
  come with limits of 2 and hooks that may raise, and one of them goes to a
  fourth level where there are three frames. `WaitingSpec`: refinement of `WaitingParser`;
  with `SameResult` of the run above, which says what an uninterrupted parser
  makes of a whole input, it is the reason for `MessageSpec`.
  `HeadFollowsParser`: buffer invariants with the real parser moving the head
  (the bytes `tell()` misses after a callback raised are added back: the buffer
  stays right, `tell()` does not).
  `Frames`, `TellBetweenObjects`, `CallReturns`, and its measure `CallAdvances`:
  inside a call each step gets on with the round of `_unpack()` or with the
  parser, and another round is for bytes the file gave or because it ended. Both sizes are left to their
  defaults, with `INT_MAX` 4 and a default read size of 2: the buffer has 2
  cells and may grow to 4, fewer than the inputs have, so it is compacted in the
  middle of objects, and an object larger than the limit meets `BufferFull`.
* **fallback_buffer** (`FallbackBufferMC`). `Indices`, `Aligned`: the byte at
  the checkpoint is byte `tell()` of the stream in every state. `FileBound`:
  a file overfills the buffer by less than one `read_size`. `RollsBack`:
  `OutOfData` leaves the position at the object and `tell()` unmoved, in feed
  mode (366), on a file (389) and through `__next__()`, which consumes after it.
  `FullOnlyWhenFull`: only an object that does not fit is refused. Bounds:
  `read_size` 2, limit 4, reservations up to 4 bytes, pieces up to 3, 7 bytes
  received, so that every read size is above, at and below what is missing.
* **fallback_unpacker** (`FallbackUnpackerMC`). The same `MessageSpec` with
  `next <- stream_offset`: the pure Python `Unpacker` implements the abstract
  stream the Cython one implements. `TellStartsNextObject`, `CallReturns`, and
  `ObjectThatFitsIsRead`: an object no longer than `max_buffer_size` is read
  from a file whatever was read before. Thirteen inputs, limit 4, three nested
  calls.
* **formats** (`FormatsMC`). `RoundTrip`: what the C writers pack is decoded to
  the same object with nothing left over. `SameBytes`: the pure Python packer
  writes the same bytes and refuses the same objects. `NoShorter`: no shorter
  encoding of the format means the object; `Encodings` lists all of them and
  many that mean something else. Items: 2^k - 1, 2^k, 2^k + 1 and their
  negatives for fourteen k from 1 to 64, so both ends of every format and both
  ends of the range; strings, bytes and ext of eighteen lengths from 0 to 257;
  counts up to 2^32 + 1; times on both sides of 2^32 and 2^34 and negative
  ones; subclasses and unknown types; five sets of options. Lengths near 2^16
  and 2^32 are covered by the counts and integers, whose tables are the same.
  Datetimes before the epoch with a fraction are left to the run below.
* **packers** (`PackersMC`). `SameAnswers`: outside the exceptions above both
  packers answer alike and hold the same bytes for later calls. `Bounds`: the
  content never exceeds the block. `ViewsFrozen`: no view taken between calls
  sees its bytes changed or moved (one taken by `default()` does, which is the
  run packer_view). `CallEnds`. Bounds: a block of 2 bytes, so growth happens
  inside calls; `NestLimit` 3, that is, four levels; eight objects with dicts in dicts,
  a `default()` that converts, nests itself without end, goes round in a circle
  and raises; at most one byte held when a call begins (`MaxContent`), which is
  one call's worth of leftovers.

Runs whose property is refuted; each states what the repository says:

| run | statement | what the code does |
| --- | --- | --- |
| tell_after_failed_read | `tell()` counts the bytes read (`_unpacker.pyx:536`), with hooks that never raise (`QuietSpec`) | `read_bytes()` moves the head (493), then the file raises (495); 497 is not reached and the bytes are gone |
| pairs_hook_keys | only str and bytes keys (`fallback.py:159`) | not tested with `object_pairs_hook` (520) |
| skip_long_ext | `skip()` reads one object (`_unpacker.pyx:511`) | ext 32 of length 2^32-1: length + 1 wraps to 0 (`unpack_template.h:242`) |
| datetime_before_epoch | a `Timestamp` is neg. seconds + pos. ns (`ext.py:42`), and that of a datetime is that datetime (`test_timestamp.py:104`) | `int()` cuts towards zero (`ext.py:170`): 23:59:59.5 of the last day of 1969 becomes 00:00:00.5 of 1970. The Cython packer rounds down |
| packer_view | with exports the packer cannot be changed (`_packer.pyx:128`) | tested only when a call begins; `default()` may take a view that the rest of the call writes to and `realloc()` frees |

Seen while modelling and not made runs:

* after an error raised by a callback, `tell()` of the Cython `Unpacker` does
  not count what the parser took (464 is skipped), which is the second disjunct
  of `Execute`; after `OutOfData` inside an object it is inside the object,
  where the pure Python one is at its start;
* an `Unpacker` made with a file accepts `feed()` once the file has ended
  (`_unpacker.pyx:452`), although `:218` says it is not usable;
* the C header readers do not test `max_array_len` and `max_map_len`;
* in the pure Python `Unpacker`, `BufferFull`, a failed file read or an error
  in the data leaves `_buff_i` inside the object (378, 381): the next call
  starts there, and `feed()` then keeps growing the buffer (321); a file read
  may leave up to `read_size` - 1 bytes more than `max_buffer_size` waiting (380);
* an instance of a subclass of `Timestamp` or `datetime` is packed by
  `fallback.py` without `strict_types` (`isinstance`, 748 and 785) and is an
  unknown type in Cython, which compares the type exactly (221, 243);
* a negative count is packed as 2^32 less its absolute value in C, and
  as another header byte in Python (`pack_array_header(-1)` is `0x8f`, a map);
* after `BufferError` in `pack()` the pure Python packer has dropped its
  content (804); the Cython one keeps it;
* `max_buffer_size` 0 is documented as 2^32-1 and is `INT_MAX`; `read_size` is
  documented as `min(16*1024, ...)` and is `min(1024**2, ...)` in Cython; the
  fallback gives `object_pairs_hook` a generator where a list is documented;
  `unpackb()` does not reach `unpack_clear()` when a callback raised.

Fairness. Nothing obliges a caller to call, a peer to send or a file to end,
so feeds, reads and calls are not fair. The specifications with a liveness
property assume weak fairness of the steps inside a call that has begun: code
that is running goes on running. Under it a call ends, because each input is
finite, each parser step uses a byte or closes a container, a file that has no
more bytes returns none, and a packer's nest limit counts down. In `Packers`
the fairness is written out as `[]<>(call = "none") \/ []<><<PackingStep>>_allVars`:
a step of `PackingStep` is possible exactly while a call runs, so this is
`WF_allVars(PackingStep)`, in a form TLC evaluates without computing `ENABLED`.

Deadlock is checked in every run; `Done` and `Abandoned` are the steps of a
finished call and of an abandoned object.

Definitions commented "Variant of ..." are not used by any specification: each
is a form that a definition could have taken by mistake, and with it in place
the property it was written for fails.

## 4. What is proved

**`UnpackBufferProofs`**, from `BufferAssumption` alone (sizes are naturals,
`read_size` does not exceed the limit, as `__init__` enforces, chunks are byte
sequences, `Junk` is not a byte), for every limit, read size, set of chunks and
length of input:

| theorem | property |
| --- | --- |
| `TypeCorrect` | `TypeOK` |
| `BoundsAlways` | `Bounds` |
| `IntegrityAlways` | `Integrity` |
| `FeedRefusal` | `FullOnlyWhenFull` |
| `FileReadsFit` | `FileBytesKept` |
| `BufferImplementsStream` | `StreamSpec` |

The inductive invariant is `IInv == TypeOK /\ Bounds /\ Integrity`. None of the
three is inductive alone: `Integrity` needs the indices inside the array to
say what a moved cell holds, the type of `result` needs `Integrity` (a waiting
cell is a received byte, never `Junk`), and `Bounds` needs the types for its
arithmetic. `AppendEffect` carries the argument: whichever branch
`append_buffer()` takes, the cells from the new head on are the old waiting
bytes followed by the new ones, and a call that raises changes nothing;
`AppendKeepsIntegrity` and `TakeKeepsIntegrity` turn that into statements about
the stream, and each action has one lemma (`FeedIInv`, ...). For the refinement
`StreamWaiting` identifies what waits in the array with what waits in the
stream, `AppendOutcome` says which outcome goes with which size, and each action
maps to one step of `ByteStream`.

**`FallbackBufferProofs`**, from `FallbackAssumption` (the same about sizes and
chunks): `TypeCorrect`, `IndicesAlways`, `AlignedAlways`, `FileBoundAlways`,
`RollsBackAlways` and `RefusedForTheObject` (`FullOnlyWhenFull`), from
`IInv == TypeOK /\ Indices /\ Aligned /\ FileBound`. `Indices` says more than
the order of the positions: while `_reserve()` reads the file the checkpoint is
0 and `remain_bytes` is what is missing. Without the first the rollback to 0
would not be to the start of the object; without the second nothing bounds the
length after a read. `StripAligned`, `AppendAligned` and `ConsumeAligned` say
that dropping, adding and consuming bytes keep the rest of the buffer equal to
the rest of the stream. `StrippedCells` carries `FullOnlyWhenFull`: stripping
leaves exactly the bytes of the object, so the sum that is compared with the
limit is the object's own.

**`UnpackExecuteProofs`** is what the parser keeps, whatever the bytes, the
options and the hooks. `Parsing` is its invariant: the state code is one of the
35; the position is inside the bytes, and strictly inside wherever a header is
read; the frames are typed; unless a callback raised, `FramesOK` (each open
container holds fewer items than announced; an array has the items counted, a
map that waits for a value has its key); and a state that
waits for a length field waits for as many bytes as the conversion of that
field reads (`TrailOK`). The last is the strengthening: without it a payload
state of the wrong width would leave the length undefined. `ParserStep` proves
that a step keeps `Parsing` and moves the position inside the bytes
(`Settled`), from one lemma per label and callback.

**`UnpackbProofs`**, for every input, all options and every `EmbedStackSize`:
`ParserOKAlways` (`ParserOK`), from `InitParses`, `EnterParses` and
`ParserStep`, and `StepsAdvanceAlways` (`StepsAdvance`), from `ParserGoes`: each
label either returns, moves the position, or keeps it and goes to a lower
`Rank`. The delicate steps are the ones that use no byte: an empty container or
payload, and a container completed by its last item, which is pushed into the
one below.

**`CythonUnpackerProofs`**, from `UnpackerAssumption` (sizes as `__init__`
leaves them, inputs of bytes), for every input and every way of cutting it:

| theorem | what it says |
| --- | --- |
| `HeadFollowsParserAlways` | `HeadFollowsParser` |
| `FramesAlways` | `Frames` |
| `TellAlways` | `TellBetweenObjects` |
| `UnpackerWaits` | `WaitingSpec` |
| `CallAdvancesAlways` | `CallAdvances` |
| `UnpackerUsesBuffer` | `Spec => Buffer!Spec`: every step is one of `UnpackBuffer`, or leaves the buffer alone |
| `UnpackerImplementsStream` | with `BufferImplementsStream`: the whole `Unpacker` implements `ByteStream` |

The invariant joins that of the buffer to that of the parser: `Inv` is
`Buffer!IInv`, `Control` (which labels go with which method, and that a context
inside an object belongs to `unpack` or `skip`), the parser's `StackTyped` in
every state and `Parsing` while the `Unpacker` is not `broken`, and that nothing
was taken since the last object wherever `TellBetweenObjects` looks
(`NothingTaken`). It is needed in both directions: the parser may read its
bytes because the waiting cells hold received bytes (`BufferReadable`), and the
buffer's `Execute(k)` is legal because the parser's position stays inside them
(`CountedInv`).

`UnpackerWaits` is the theorem about resumption. Its invariant `WInv` adds to
`Inv` that no object is in hand between runs of the parser (`obj` is local to
the C function, so a run that stops must have put it into a frame) and that a
run that asks for more bytes stopped where they have not come (`Starved`), which
is what makes `OutOfData` an answer of the waiting parser. The argument: the
bytes of the buffer from the head on are those of the stream from `Taken` on
(`BufferReadable`), so every conversion reads the same (`SameCodes`,
`SameNumbers`, `SamePayload`, ...) and each step of the parser on the buffer is
the same step on the stream, shifted (`...Shifts`, one lemma per label and
callback). A run that ends for want of bytes maps to a stutter because it keeps
code, length field and frames and counts the bytes passed (`StopStarves`), and
the run that continues it to a stutter too. `CallAdvancesAlways` follows from
`ParserAdvances` and `FileGives`: a file read that gives nothing closes the file.

**`FallbackUnpackerProofs`**, from `UnpackerAssumption` and
`DecoderAssumption`, for every input, cut, limit, read size and decoder that
satisfies it:

| theorem | property |
| --- | --- |
| `TellStartsAlways` | `TellStartsNextObject` |
| `UnpackerImplementsMessages` | `MessageSpec` |
| `FittingObjectsAreRead` | `ObjectThatFitsIsRead` |

`Inv` adds to `Buffer!IInv`: the control state; that what was received is the
beginning of an input (`FromInput`); that no object is begun between calls and
in `read_bytes()` (`AtStart`); and `Misses`: while the file is read, a
reservation that has not got its bytes is the one the decoder, run again on
what has come, stops on. Without `Misses`, the `OutOfData` after a short read
would not be an answer of the stream. `PendingFromInput` (with `Aligned`) says
that the decoder runs on the bytes received after the last object, `Reserve`
and `ReadFile` keep `Misses` by `DecoderWaits`, and each action maps to one step
of `MessageStream` or to none.

**`FormatsProofs`**. The C writers write bytes. Each narrows its number to
the width of its field (`LowBytes`), and where a format puts a number inside
another byte (fixint, fixstr, fixarray, fixmap, the nanoseconds of a 64-bit
timestamp) the test that chooses it bounds the number (`ChosenBytes`,
`BelowPower`). `PackInnerType` concludes for a whole object.

`SameBytesAlways` proves `SameBytes`: whatever the number, length, time, text or
count, and whatever the options, both packers write the same bytes for an object
up to the objects in it, or both refuse it. Numbers are byte strings, so the
argument begins with what they stand for: `Value` of a string of up to nine
bytes, `LessIsLess` (comparing the strings compares the values), `PowerValues`
and `NegPowerValues`; with these a test against a power of two is an inequality
of integers (`PowerBounds`). A table, or the nested comparisons that are one,
gives its first row whose test holds (`FirstRow`, `RowsInOrder`), so
`Uint64Formats`, `Int64Formats` and `FallbackInteger` show that C and Python
both give an integer `IntegerFormat(n, Value(n))`, and `IntegersAgree` follows.
`CountsAgree`, `LengthsAgree`, `ExtsAgree` and `TimestampsAgree` are the same
for the other headers, `SelfAgrees` has one step per kind of object, and the
invariant is `SameBytes` with `item` and `given` in their sets.

Its hypotheses are that every option is a boolean (`OptionsType`) and every item
is `Given`: of the type its kind says, with three exceptions, each a place where
the packers do differ. A negative count and an instance of a subclass of
`Timestamp` or `datetime` are listed above; a datetime before 1970 with a
fraction of a second (`Rounded`) is refuted by the run datetime_before_epoch.
All items of the run formats satisfy them. Lengths and the seconds of a datetime
are below 2^31, as in the model; integers, counts and the seconds of a timestamp
are any of up to 72 bits, so the ends of every range are on both sides.

**`CythonPackerProofs`**:

* `ViewsFrozenAlways` proves `ViewsFrozen` from `Init` and any sequence of
  steps, for every object, option, buffer size and nest limit, assuming
  `~HookViews`, that `default()` takes no view of the packer that calls it. The
  invariant is `Quiet`: a view is alive only between the calls. The run
  packer_view shows that the assumption is needed.
* `TypeOKAlways` and `BoundsAlways` prove `TypeOK` and `Bounds` for every set
  of objects that is a `World` (each object's content has the type its kind
  says, components are in the set, `default()` raises or answers with a member)
  and every sequence of `LegalStep`s, calls with such objects and with the
  counts and codes Python lets through. The objects of the instances, with
  their components, are such a set; cyclic and infinitely deep ones are allowed.
  `TypeOK` looks at the next write only, so the invariant `Typed` follows all
  that is still to be written and packed.
* `ContentInBlock` proves `Bounds` for arbitrary arguments as long as each write
  is of bytes; `TypeOKAlways` discharges that condition. Its invariant `InBlock`
  adds the types of the content and the size; the step that matters is
  `WriteInBlock`, the three outcomes of `msgpack_pack_write()`.

Only model-checked:

* what a recursive definition computes, which would need induction over data:
  `SameResult`, `MessageSpec` of the Cython `Unpacker` (of its two halves, that
  cutting makes no difference is proved and that an uninterrupted parser agrees
  with the recursive decoder is `SameResult`), `RoundTrip` and `NoShorter`, which
  decode; `SameAnswers`, whose one packer is a recursive operator (what each
  writes for one object is `SameBytes`), and that `FallbackDecode` satisfies
  `DecoderAssumption`;
* liveness, which needs fairness and `ENABLED`: `Returns`, `CallReturns` (both),
  `CallEnds`; of the Cython `Unpacker` and `unpackb()` the measures are proved;
* that the instance of `Packers` calls `CythonPacker` within `LegalStep`, and that
  the items of that of `Formats` are `Given`.

## 5. Not modelled

* hooks that call the `Unpacker` or `Packer` running them; another method
  inside an object; use after an error in the data;
* the `timestamp` option, `use_list=False`, `unicode_errors`,
  `use_single_float`; multi-byte UTF-8 (bytes from 0x80 up count as
  undecodable; the instances hold no valid multi-byte text); equality of `1`,
  `1.0` and `True` as keys;
* objects of 2^32 bytes or items and more, negative counts, and the tests of the
  arguments of the pure Python `pack_ext_type()`;
* `Timestamp.to_datetime`, `from_unix` and the like: arithmetic without state;
* the integer writers of `pack_template.h` for types narrower than 64 bits,
  which no Python code reaches: `_packer.pyx` calls the `long long` ones only;
* reference counts, and so leaks of partly built objects; which of two pending
  exceptions wins;
* exceptions, entry points, build, docs, benchmark: no state.

## 6. Plan

Done, in this order: the buffer with its abstract stream and proofs; the
values, parser and recursive decoder; `unpackb()`; the composed Cython
`Unpacker` and its abstract stream of messages; the buffer of the pure Python
`Unpacker` with proofs, and the composed one against the same abstract stream;
the formats of both packers against the decoder; both packers side by side,
with theorems about views and about the block; proofs of the parser's
invariant and its measure, of the composed `Unpacker`s on top of their buffers
and parser, of the refinement of the stream of messages by the pure Python
`Unpacker`, that cutting the input makes no difference to the Cython one, of the
writers of the packer, and that both packers choose the same formats.

Next:

1. Proofs: that the C parser gives back the integers, lengths and times that the
   writers pack, one header at a time, on the values of `FormatsProofs`.
2. Use after an error: what a call may answer that begins in the state a failed
   one left, in both `Unpacker`s.
3. Hooks that call back: the parser's pointers into `buf`, and the outer call of
   a packer, as state.
