# librsi in TLA+

librsi is the C-ABI library with which a process becomes a *registry source*: a
storage backend of the LCS registry. A source registers its hives with the
kernel, then reads framed RSI requests from its source fd, decodes them, and
writes framed responses back. This directory models that library, checks the
models with TLC on small instances, and proves the main safety properties with
TLAPS for all instances.

## The system

| part | code | state | operations |
|---|---|---|---|
| registration | `src/source.rs` | descriptor table, kernel's sources, errno, locals of the call | `rsi_register`, `marshal_hive` |
| request transport and parsing | `src/request.rs` | frame buffer, `rsi_request` out struct | `rsi_read_request`, `rsi_parse_request` |
| request decoders | `src/request.rs` | flat out structs that borrow the frame | 18 `rsi_request_*` functions |
| response validation | `src/response.rs` | GUID vectors | `require_*`, `*_guid_set`, `validate_*`, `orphaned_guid_bytes` |
| response encoding | `src/response.rs` | `FrameWriter { buf, oom }` | `raw`, `u8`..`guid`, `lpf`, `encode_*`, `new_writer`, `finish_response` |
| response transport | `src/response.rs` | the frame, the device | `write_frame`, `rsi_write_response` |
| public responses | `src/response.rs` | | `rsi_respond_status`, `_lookup`, `_enum_children`, `_read_key`, `_delete_layer`, `_query_values` |
| glue | `src/lib.rs` | | allocator, panic = abort |
| kernel, lcs-core, libc | external | request queue, registered sources | parsers, status words, `open`, `ioctl`, `close`, `read`, `write` |

They interact through three things: the source fd that `rsi_register` returns and
the others read and write; the `rsi_request` that parsing fills and the decoders
and responses take; and the frame buffer that the decoded fields borrow.

What makes the code hard is failure in the middle. Every allocation can fail and
is reported once, at the end. A registration that fails has a descriptor to give
back, and an errno to keep, in a process whose other threads are opening and
closing descriptors. `write(2)` may take part of a frame. And a source has threads
that answer requests out of order, tries again what failed, and may die between
persisting a write and answering it. The properties below are about these.

## Modules

| module | what it is |
|---|---|
| `RsiProtocol` | op-codes, which of them have a payload response, status words |
| `RespondCall` | one `rsi_respond_*` call as a state machine over its line of steps |
| `Vectors` | the sort, the deduplication and the flattening of vectors, and sums |
| `ResponseHelpers` | the helpers of `response.rs`, each as the line of steps it takes |
| `ResponseOutcomes` | what a response call can come to, by `response.h` |
| `ResponseContract` | abstract: what `response.h` promises of a call, as one atomic step |
| `ResponseRefinement` | a parser for the frames, the rules of `response.h` as sets, and the refinement mapping |
| `MCResponse` | the calls TLC runs, with three configurations |
| `RespondCallProofs` | theorems about `RespondCall`, and what a call keeps when its checks decide the rules |
| `EncodingProofs` | the lines of steps: their checks, their bytes, and that the parser reads back what they append |
| `ValidationProofs` | the validation of each helper decides the rules of `response.h` |
| `ResponseProofs` | the helpers keep `ResponseContract`, and their frames are read as what they were passed |
| `RequestDecoders` | what each of the 18 decoders assigns, over lcs-core's parsers (external) |
| `Request` | reading, parsing and decoding with reused buffers and structs |
| `MCRequest` | a request of each op-code, and malformed ones |
| `DataLemmas` | induction as a set, and what the operators of `Vectors` compute |
| `RequestProofs` | theorems about `Request`: what the decoders compute from an encoded frame, and the slots |
| `Register` | `rsi_register` by several threads over one descriptor table |
| `MCRegister` | two threads, three descriptors |
| `RegisterProofs` | theorems about `Register` |
| `Serve` | a whole source at work: the library's calls, the kernel's queue, worker threads, crashes |
| `RegistryService` | abstract: what a source is to the clients of its hives |
| `MCServe` | two threads, two requests |
| `ServeProofs` | theorems about `Serve`: the invariant, the steps that keep it, and the results |

### RespondCall and ResponseHelpers

Given its arguments, a response helper is a straight line: argument checks that
return an errno, fallible allocations for the GUID validation, and appends to the
`FrameWriter`. `ResponseHelpers` has one operator per function of `response.rs`,
with the function's name, that yields its steps in the order of the code, and one
operator per public helper that yields a whole call. `RespondCall` runs such a
call. Its actions are

- `Require`: a check passes, or the helper returns the errno;
- `PushGuid`: `push_guid`, which reserves only when the vector is full;
- `Collect`: `guid_vec_with_capacity` and the loop of plain pushes after it;
- `Raw`: `FrameWriter::raw`, under which all encoders end up. It appends, or fails
  and latches `oom`, or finds `oom` latched and does nothing;
- `FinishResponse`, `BuildStatusFrame`, `WriteFrame`: the functions of those names.

`buf` holds the numbers of the steps whose bytes were appended, `len` their bytes.
A GUID is a number and the nil GUID the least, which is what the byte order of
`sort_unstable` needs; names, descriptors and data are opaque values with a
length. The sorts, the deduplication and the comparison of neighbours are
modelled as the code does them; `Sorted` puts each element at its rank, which is
what any sort does to numbers. `Vectors` has its own flattening, written as a
function so that it can be proved about. A panic, and an allocation failure in a
plain push, is the location `"aborted"`, as `panic = "abort"` makes it.

### ResponseContract and ResponseRefinement

The contract of `include/rsi/response.h`, written without reference to how the
code decides it. A call either has one whole frame taken by the device and returns
0, or it fails and the errno tells why: `EINVAL` for a broken rule, `ENOMEM` for
memory and never from `rsi_respond_status`, `EOVERFLOW` for a frame that is too long,
`EIO` or the errno of `write(2)` for the device. An errno may have more than one cause,
`EINVAL` above all, which `write(2)` can also fail with; `got` keeps them apart by what
became of the frame. A refused call is one whose frame was never written
(`"unwritten"`): it broke a rule, or had no memory, or was too long, and a call that
breaks a rule always ends there. Every other call gets as far as `write(2)`, which takes
the whole of the frame, a part of it or nothing. Validity is
stated with sets and cardinalities (`ExactlyCovers`, for example) where the code
sorts vectors and compares them. `KeepsContract` says that the detailed call
implements the contract; `FrameReadsBack` that a parser that follows counts and
length prefixes, as the kernel's does, gets out of the frame what the caller put
in, with nothing left over. One rule is in no header and comes from the code: a path
entry with a GUID target may not name the nil GUID. `metadata_guid_set` refuses the nil
GUID in metadata, which has to cover every target, so no such call can succeed; `EntryOk`
states it as a rule of entries. `HelpersDecide` takes the validation apart from the
rest: the checks in a call's line of steps all pass exactly when the call keeps the
rules, and the fields of a valid call add up to the length of its frame.

`HelperAssumption` says what calls there may be: each is what one of the six helpers
makes of its arguments, a pointer is NULL or valid for the count or length beside it,
and a GUID is a number. That is the safety contract of the functions; nothing is
assumed of what the arguments hold or how many there are.

### Request and RequestDecoders

A slot is a frame buffer with the `rsi_request` and the decode structs a source
uses with it. The source calls `rsi_read_request`, `rsi_parse_request` and any
decoder in any order, on the one condition that the headers state: a request is
not decoded once its buffer has been reused. Callers also pass NULLs, use the
wrong decoder, and make up requests of their own (`Forge`). The actions are
`Read`, `Parse` and `Decode`; `Decode` is the control that the decoders share
(`req_payload_for`, the macro, the `match`), and `RequestDecoders` has an operator
for the assignments of each.

Memory is counted in cells, one to a fixed-size field: the 22-byte header is four
cells, a length-prefixed field a cell and its data. `Read` writes the frame over
the front of the buffer and leaves the rest of the previous one behind it, and the
decode structs are one overlaid memory, so that whatever is not assigned is what
was there. The wire layouts are lcs-core's; they are taken from the order in which
the tests of `request.rs` build frames. lcs-core's parsers are modelled as weakly as
`request.rs` relies on them: the header parser checks the length and the op-code,
and a payload parser reads no cell beyond its slice. The mode of
`BEGIN_TRANSACTION` and the booleans are 0 or 1 on both sides.

### Register

Threads share the descriptor table and have an errno each. A thread runs
`rsi_register` one system call or early return at a time. `open(2)` takes the
lowest free number, so that a number that was just closed comes back at once; the
rest of the process opens and closes descriptors in between (`AppOpen`,
`AppClose`), and may close a source it was given. The ioctl registers all hives or
none. `close(2)` always frees the number and may set errno all the same. When the
call returns its locals are reset; they are dead then.

### Serve and RegistryService

`Serve` composes the parts into a source. Its threads share the source fd. A thread
reads a request into its buffer (`Read`), parses it (`Parse`) and handles it
(`Handle`); the result, with the `rsi_request` by value, is a job that any thread may
take up (`Take`) and answer, when the buffer has long been reused. The answer is a
payload helper (`RespondPayload`), `rsi_respond_status` (`RespondStatus`), or a frame
of the source's own through `rsi_write_response` (`WriteResponse`).

Each call into librsi is one step here. That is sound for the response calls because
what they come to is `ResponseOutcomes`, the same operator that `ResponseContract` is
made of and that `RespondCall` is shown to keep to. `Possible` narrows the outcomes by
the state: a call that has to allocate gets no further than `ENOMEM` or its argument
checks while memory is exhausted, and the kernel accepts the frames that match a request
in flight (`Written`). `rsi_write_response` is `Written` alone: it is a bare `write(2)`,
and memory is nothing to it. Register
is the successful `rsi_register`; failed ones change nothing that `Serve` has.

The kernel is external, and is what `docs/design-notes.md` says of it: `read(2)`
dequeues one request, `write(2)` takes a frame whose `request_id` and op-code match a
request in flight and refuses any other, and registration resumes the sequence counter
past `max_sequence`. The refusal is `EINVAL`, which stands for every errno that trying
again cannot mend, `EBADF` after a close among them; that the number of a closed fd is
given to a foreign file is `Register`'s subject. The source's own program is external
as well: handling may succeed, fail, find a result that breaks a rule of `response.h`
or one that is too long for a frame; an answer with a payload that cannot be sent
becomes an error status, and a status that cannot be sent is sent again (`Resume`).
What is persisted is every change, of the op-codes in `ChangeOps`; those in `StampedOps`
carry a sequence number. `DELETE_LAYER` changes the store and has a payload to send
afterwards, the GUIDs it has orphaned. When that cannot be sent, an error status is all
that is left for a layer that is gone; `unsent` records the requests this happened to.
Memory runs out and comes back at any time, or stays away (`Memory`).

A source may close its fd while its threads are at work (`Close`); its process may
die, or the machine, which resets the kernel's counter (`Crash`). What was asked of it
is lost then, what it has persisted stays.

To clients all this is `RegistryService`: a request is made, and answered once or lost
with the source, and does not wait for ever. `ServesClients` says that `Serve`
implements it.

## Runs

| run | configuration | asks |
|---|---|---|
| `lookup` | `ResponseLookup.cfg` | every `rsi_respond_lookup` with up to two entries and two metadata records |
| `enum_children` | `ResponseEnum.cfg` | `rsi_respond_enum_children` with up to two children |
| `other_responses` | `ResponseOther.cfg` | `delete_layer` with up to three GUIDs, `read_key`, `query_values`, `status` |
| `request` | `Request.cfg` | requests of all op-codes through one slot, two after one another |
| `register` | `Register.cfg` | two threads registering in a process with three descriptors |
| `serve` | `Serve.cfg` | two threads serving writes and layer deletions, in any combination, through two crashes |

All pass. What each property says:

- `TypeOK` (each machine): types, and when a frame may exist.
- `FrameIsWhole`: a frame has all its fields, once and in order, whichever
  allocations failed.
- `NoAbort`: no plain push outgrows its reservation, no header is patched into a
  short buffer.
- `SuccessMeansDelivered`: a return of 0 means one complete frame, with the right
  `total_len`.
- `FrameReadsBack`, `HelpersDecide`, `KeepsContract`: see above.
- `DecodedIsSent`: a decode struct, read through its pointers, says what the kernel
  sent, and nothing that an earlier request left in it.
- `ViewsStayInFrame`: no view reaches into the remains of an earlier frame.
- `IdentifiesRequest`: the id a response will echo is that of the frame in the
  buffer.
- `BadMsgMeansMalformed`: `EBADMSG` only for frames that are malformed.
- `FailureLeavesStructs`: a failed call changes no struct of its caller.
- `NoLeak`, `ClosesOnlyItsOwn`: the descriptors that belong to a call are exactly
  the one it is working on, and it touches no other.
- `ErrnoIsCause`: the errno of a failed registration is that of the failed step.
- `NoGhostSource`: a source is always on a descriptor that the application was
  given.
- `RegisteredAsAsked`: the kernel registers the hives and the `max_sequence` the
  caller passed.
- `CallReturns`: every call returns.
- `AnswerIsForRequest`: the answer a client gets reports the handling of its own
  request.
- `OkMeansStored`: a change is answered with `RSI_OK` exactly when it was persisted and
  no payload helper reported that its response was not sent. For an op-code without a
  payload an error therefore means that nothing was changed; for `DELETE_LAYER` it can
  also mean that the orphans could not be sent.
- `SequencesUnique`: no two persisted changes have the same sequence number.
- `AnsweredOnce`: an answer is refused only when its request was lost with the source,
  so trying again never answers anything twice.
- `ServesClients`: `Serve` implements `RegistryService`, its liveness included.

### Bounds

- `MCResponse`: arrays have at most two elements (three for orphan GUIDs) out of a
  small set of good elements and one broken element for each rule, so that each
  rule is broken at each position, alone and together with others. Two elements
  are enough for duplicates, for a target covered twice and for one that is not
  covered; three orphans put a duplicate after a distinct first pair.
- `U32Max = 175` with one field of 150 bytes: frames on both sides of the limit.
- `GrowBy = {1, 4}`: a vector that grows by one (it reserves each time) and one
  that grows by four.
- `ShortWrites = {0, 17}`: nothing, and one byte short of the smallest frame.
- `WriteErrnos` holds an errno that the library also uses itself (`EINVAL`) and
  one it does not.
- `MCRequest`: two reads, so that every pair of requests follows one another in a
  buffer; all a slot remembers is one earlier request in each of its parts. Slots
  share nothing but the queue, so one is enough. `BufSize` is above the longest
  frame by more than a header, and `Caps` has a capacity that is too small for some
  frames. A buffer is never longer than a `u32` (`read(2)` returns at most 2 GiB),
  so the narrowing in `payload_len` loses nothing.
- `MCRegister`: two threads and three descriptors, so that both can hold one while
  the application has the third, and the table fills up. The arguments are two
  hives, none, and a NULL array.
- `MCServe`: two threads and two requests, so that answers overtake one another and a
  buffer is reused under a request; `SET_VALUE`, which is stamped and answered by a
  status, and `DELETE_LAYER`, which is not stamped and has a payload. An op-code that
  only reads goes through the same steps as `DELETE_LAYER`, without the store.
  `MaxCrashes = 2` lets a source go away before and after a write is persisted
  and register again each time. The sequence numbers are few, but a counter that is
  reset to 1 meets them at once. The proofs lift all of these bounds for the safety
  properties.

The response runs have `CHECK_DEADLOCK FALSE` because a call ends. Threads of
`Register` call again and again, and `Serve` never stops; deadlock is checked there.

### Fairness

`Register` has weak fairness on the steps of each thread inside `rsi_register`. It is
the assumption that a thread is scheduled and that `open`, the ioctl and `close`
return; nothing is assumed of calls being made or of the rest of the process.
`CallReturns` is the only property that uses it.

`Serve` has weak fairness on the steps of each thread, which is the same assumption
for the serve loop and its calls, and strong fairness on an `rsi_respond_status` whose
`write(2)` takes the frame or refuses it for good. That is two assumptions: a source
that goes on trying to send a status does not write the frame itself every time, and a
`write(2)` that is tried again and again is not interrupted or cut short every time.
Nothing is assumed of `rsi_write_response`, of payload responses, of memory coming back,
of crashes, or of a source being registered again.
`ServesClients` is the only property that uses it. It holds because
`rsi_respond_status` allocates nothing: if it failed with `ENOMEM`, a client could wait
as long as memory is exhausted, which is the mutant of this property.

## Proofs

`RespondCallProofs`, for every set of calls with well-formed steps
(`CallAssumption`) and every size (`SizeAssumption`; TLC evaluates both for the
calls of the runs):

- `TypeCorrect`, `WholeFrames`, `NeverAborts`, `ZeroMeansDelivered`:
  `Spec => []P` for `TypeOK`, `FrameIsWhole`, `NoAbort`, `SuccessMeansDelivered`.

The inductive invariant adds to these what the buffer holds on the way.
`BufferInv`: as long as `oom` is not latched, `buf` is increasing and has exactly
the append steps before `next`, none longer than `len`. A latched buffer is
promised nothing, which is why `finish_response` must look at `oom` first.
`FrameInv` carries the buffer's completeness over to the frame, and `ReturnInv`
ties the return value to what the device took. That the placeholder is among the
steps bounds `len` from below and keeps the header patch in range.

`RegisterProofs`, for any threads, descriptors, arguments and errnos:

- `TypeCorrect`, `NeverLeaks`, `ErrnoSurvivesCleanup`, `SourcesAreOwned`,
  `RegistersAsAsked`: `Spec => []P` for `TypeOK`, `NoLeak`, `ErrnoIsCause`,
  `NoGhostSource`, `RegisteredAsAsked`;
- `NeverClosesForeign`: `Spec => ClosesOnlyItsOwn`.

The invariant says which descriptors a call owns, at each location
(`HoldsItsFd`): without it a step of another thread could take the number a call
is about to close. `ErrnoInv` follows the cause of a failure from `errno` into the
local `err` and back. `EntriesInv`: between the marshalling loop and the ioctl,
`entries` is what the caller's hives come to.

`ResponseProofs`, for every set of calls of the six helpers (`HelperAssumption`, which
TLC evaluates for the calls of the runs), with arrays of any length:

- `ValidationDecides`: `Spec => []HelpersDecide`;
- `ImplementsContract`: `Spec => KeepsContract`;
- `FramesReadBack`: `Spec => []FrameReadsBack`.

`ValidationDecides` is a fact about the operators of `ResponseHelpers`. A line of steps
passes when each of its parts does and has the bytes of all of them (`LineConcat`,
`LineFlatten` in `EncodingProofs`), so that each encoder comes down to its fields. The
validation needs what sorting does: `DataLemmas` shows that `Sorted` is ordered and has
the elements of its argument as often as they are there (`Sorts`), that comparing
neighbours then finds every duplicate, and that two strictly ordered vectors with the
same elements are equal (`StrictUnique`). With it
`ValidationProofs` gets from vectors to the sets and cardinalities of the rules. One
case is not symmetric: `rsi_respond_enum_children` checks the entry arrays of its
children once when it collects their targets and again when it encodes them, and only
both together decide the rules (`EnumValidation`).

`ImplementsContract`: every step of a call is a step of the contract or a stutter. The
proof, in `RespondCallProofs`, needs to know that all checks before `next` have passed
and that the buffer is as long as the fields before it (`ProgressInv`): then only a call
that breaks a rule is refused by a check, past the checks the call is valid, no frame
exists before `finish_response` or `build_status_frame` has made one to write, and
`EOVERFLOW` is for frames that the rules say are too long. `ContractKept` states it under
the hypothesis that the checks decide the rules, which `CallsDecide` discharges.

`FramesReadBack` needs to know where in the buffer each field is. `FollowInv`: while no
allocation has failed there is a function that takes each step so far to the place in
the buffer after it. For a whole frame this says that the line of steps spans the
frame (`Spans`); a line that spans part of a frame is cut into its parts
(`SplitSpan`, `FlattenSpan`), each of which the reader reads as it was appended, down to
single fields (`EmitSpan`). The counted arrays are an induction over the elements
(`CountedReads`), nested for children. `SaysInv` has the header. That the payload is
read by the right layout uses that the frame of a payload helper is longer than a status
frame.

`RequestProofs`, for any slots, requests (with an argument of the right type for each
field of the op-code's layout, and a bad boolean exactly where `fault` says so,
`RequestAssumption`), sizes (`BufferAssumption`) and number of reads:

- `TypeCorrect`, `IdentifiesItsFrame`, `DecodesWhatWasSent`, `ViewsInFrame`,
  `BlamesTheKernel`: `Spec => []P` for `TypeOK`, `IdentifiesRequest`, `DecodedIsSent`,
  `ViewsStayInFrame`, `BadMsgMeansMalformed`;
- `FailsWithoutTrace`: `Spec => FailureLeavesStructs`.

The invariant `IInv` says that the front of each buffer is the frame that was read
last (`FrameInv`), of which the header is the first four cells. `DInv` adds, per slot,
what the decoders rely on: where the payload of an `rsi_request` is (`PayloadPlace`),
that a struct in force shows its request (`Intact`), and that `EBADMSG` had a cause
(`Blamed`).

That a decode shows what was sent is an induction over the fields of a layout. The
encoder lays the fields of a payload end to end (`PayloadCells`, from `Flatten` by
`Flattened` of `DataLemmas`). After i fields the parser stands where
the encoder stood, with the values of those fields (`Stage`), or has met the fault of
the frame; `ParseStep` is the step for each kind of field, the optional ones of
`WRITE_KEY` included, for which the mask must already have been parsed
(`LayoutsGood`). `AssignedDecodes` goes through the 18 decoders: each assigns every
field of its layout from the parsed field of its own name. The library's induction
theorems take an operator and cannot be used with the installed provers; `DataLemmas`
states induction over a set instead, and a recursive function is unfolded by proving
first that one exists (`RunExists`). `NullAssumption` says that `NULL` is none of the
values it is told apart from.

`ServeProofs`, for any threads, request ids and op-codes out of the 18 (`IdAssumption`,
`OpAssumption`) and any number of crashes:

- `TypeCorrect`, `AnswersTheRequest`, `TruthfulStatus`, `UniqueSequences`,
  `NoSecondAnswer`: `Spec => []P` for `TypeOK`, `AnswerIsForRequest`,
  `OkMeansStored`, `SequencesUnique`, `AnsweredOnce`;
- `ServesSafely`: every step is a step of `RegistryService` or a stutter, the safety
  part of `ServesClients`.

The invariant follows a request through the source. `KernelInv`: a request that is
waiting is either queued or in flight. `BufferInv`, `JobInv` and `AnswerInv`: what is
in a buffer, in a job or with a thread that answers is faithful to what was asked, is
not answered yet, and is nowhere else, so that no two threads can answer the same
request. A job reports a change as done exactly when it is persisted and not among the
`unsent` (`Faithful`); a request comes to be among these only while it is unanswered,
which is what `write_frame` reporting every delivered frame as a success gives, and was
handled before (`UnsentInv`). `StoreInv`: what is persisted is what was asked. `SeqInv`:
the numbers of pending requests are below the kernel's counter and their own, 0 for those
that are not stamped; while a source is
registered the persisted ones are below it too, which a crash that resets the counter
undoes and `rsi_register` restores. `PossibleKeepsContract` shows that what `Serve` lets
a response call come to, with memory or without, is among the outcomes of the contract.

Only model-checked: `CallReturns` and the liveness of `ServesClients`, because the
installed provers have no rules for fairness or `ENABLED`. Every other property of every
run is proved.

## Not modelled

- End of file and `EINTR` of `rsi_read_request`, which change no buffer or struct
  (and, in `Serve`, its `EMSGSIZE`: buffers there are large enough).
- What a source's handlers do with its storage, beyond persisting a change or not.
- Transactions across requests: librsi passes `txn_id` on and keeps no state for it.
- Arguments that another thread changes during a response call: a data race that the
  functions' safety contracts rule out.
- The byte order and the offsets inside the 18 header bytes.
- The allocator and the EH personality symbol of `lib.rs`, the ABI script, the
  build and the packages: no behaviour of the library's own.
