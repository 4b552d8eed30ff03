------------------------------ MODULE RespondCall ------------------------------
(***************************************************************************)
(* One call of an rsi_respond_* helper (src/response.rs), from its first   *)
(* argument check to the return of write(2).                               *)
(*                                                                         *)
(* A helper is a straight line of steps that its arguments determine: an   *)
(* argument check that returns an errno when it fails, a fallible          *)
(* allocation for the GUID validation, or a field appended to the          *)
(* FrameWriter.  A call carries that line as call.steps; the module        *)
(* ResponseHelpers builds it for each helper.  This module gives the steps *)
(* their meaning: allocation may fail at each of them, a failed append     *)
(* latches oom and the encoding runs on, finish_response back-patches the  *)
(* header, and write(2) may fail or accept only part of the frame.         *)
(***************************************************************************)
EXTENDS RsiProtocol, Integers, Sequences

CONSTANTS
    Calls,        \* the calls: [helper, req, args, steps]
    U32Max,       \* the largest value of a u32
    GrowBy,       \* by how many elements a growing Vec may gain capacity
    WriteErrnos,  \* what write(2) may fail with
    ShortWrites   \* how many bytes a write(2) that takes part of a frame takes

StepKinds == { "require", "push_guid", "collect", "emit" }

\* Every step is well formed; a vector that is filled by plain pushes was
\* reserved to its full length; the frame of a payload helper has the
\* placeholder that the header is patched over; and rsi_respond_status only
\* checks its arguments.
ASSUME CallAssumption ==
    \A c \in Calls :
        /\ Len(c.steps) \in Nat
        /\ \A i \in 1..Len(c.steps) :
              /\ c.steps[i].kind \in StepKinds
              /\ c.steps[i].kind = "require" => c.steps[i].errno = "EINVAL"
              /\ c.steps[i].kind = "collect" => c.steps[i].n <= c.steps[i].cap
              /\ c.steps[i].kind = "emit" => c.steps[i].size \in Nat
        /\ IF c.helper = "rsi_respond_status"
           THEN \A i \in 1..Len(c.steps) : c.steps[i].kind = "require"
           ELSE \E i \in 1..Len(c.steps) : /\ c.steps[i].kind = "emit"
                                           /\ c.steps[i].size >= STATUS_FRAME_LEN

ASSUME SizeAssumption == /\ U32Max \in Nat
                         /\ U32Max >= STATUS_FRAME_LEN
                         /\ GrowBy \subseteq Nat \ {0}
                         /\ ShortWrites \subseteq Nat

VARIABLES
    call,   \* the call in progress
    pc,     \* where it is
    next,   \* the step of call.steps that comes next
    spare,  \* capacity left in the target GUID vector
    buf,    \* FrameWriter.buf: the steps whose bytes it holds, in order
    len,    \* buf.len() in bytes
    oom,    \* FrameWriter.oom
    frame,  \* the frame handed to write(2)
    sent,   \* how many of its bytes the device took
    ret,    \* the helper's return value
    errno   \* the calling thread's errno

vars == <<call, pc, next, spare, buf, len, oom, frame, sent, ret, errno>>

Errnos == { "none", "EINVAL", "ENOMEM", "EOVERFLOW", "EIO" } \cup WriteErrnos

\* Before finish_response or build_status_frame there is no frame.
NoFrame == [ size |-> 0 ]

\* The variables stay in their types.  A frame exists exactly from the moment
\* finish_response (or build_status_frame) has built it, and only then can the
\* device have taken bytes, never more than the frame has.
TypeOK == /\ call \in Calls
          /\ pc \in { "body", "finish", "write", "returned", "aborted" }
          /\ next \in 1..(Len(call.steps) + 1)
          /\ spare \in Nat /\ len \in Nat /\ sent \in Nat
          /\ buf \in Seq(Nat)
          /\ oom \in BOOLEAN
          /\ ret \in {-1, 0}
          /\ errno \in Errnos
          /\ frame.size \in Nat /\ sent <= frame.size
          /\ pc = "write" => frame.size # 0
          /\ pc \in { "body", "finish" } => frame = NoFrame

Init == /\ call \in Calls
        /\ pc = "body" /\ next = 1 /\ spare = 0
        /\ buf = <<>> /\ len = 0 /\ oom = FALSE
        /\ frame = NoFrame /\ sent = 0
        /\ ret = 0 /\ errno = "none"

-----------------------------------------------------------------------------
Step == call.steps[next]

At(kind) == pc = "body" /\ next <= Len(call.steps) /\ Step.kind = kind

\* fail_errno: set errno and return -1; nothing is written.
FailErrno(e) == /\ pc' = "returned" /\ ret' = -1 /\ errno' = e
                /\ UNCHANGED <<call, next, spare, buf, len, oom, frame, sent>>

Advance == /\ next' = next + 1
           /\ UNCHANGED <<call, frame, sent, ret, errno>>

\* The require_* checks and the other early returns of the helpers.
Require == /\ At("require")
           /\ \/ /\ Step.ok
                 /\ Advance /\ UNCHANGED <<pc, spare, buf, len, oom>>
              \/ /\ ~Step.ok
                 /\ FailErrno(Step.errno)

\* push_guid: reserve when full, then push into capacity that is there.
PushGuid == /\ At("push_guid")
            /\ \/ /\ spare > 0
                  /\ spare' = spare - 1
                  /\ Advance /\ UNCHANGED <<pc, buf, len, oom>>
               \/ /\ spare = 0
                  /\ \E k \in GrowBy : spare' = k - 1
                  /\ Advance /\ UNCHANGED <<pc, buf, len, oom>>
               \/ /\ spare = 0
                  /\ FailErrno("ENOMEM")

\* guid_vec_with_capacity followed by a loop of plain pushes.  A push beyond
\* the reserved capacity would allocate infallibly: on a failed allocation
\* that aborts the process.
Collect == /\ At("collect")
           /\ \/ /\ pc' = IF Step.n <= Step.cap THEN "body" ELSE "aborted"
                 /\ Advance /\ UNCHANGED <<spare, buf, len, oom>>
              \/ FailErrno("ENOMEM")

\* Mutant: the latch is not consulted, so appends go on after a failed one.
RawWithoutLatch ==
    /\ At("emit")
    /\ \/ /\ buf' = Append(buf, next)
          /\ len' = len + Step.size
          /\ oom' = FALSE
       \/ /\ oom' = TRUE
          /\ UNCHANGED <<buf, len>>
    /\ Advance /\ UNCHANGED <<pc, spare>>

\* FrameWriter::raw: append unless an earlier append failed; a failure
\* latches oom and is not reported here.  Only an append of nothing cannot fail.
Raw == /\ At("emit")
       /\ \/ /\ ~oom
             /\ buf' = Append(buf, next)
             /\ len' = len + Step.size
             /\ UNCHANGED oom
          \/ /\ ~oom /\ Step.size # 0
             /\ oom' = TRUE
             /\ UNCHANGED <<buf, len>>
          \/ /\ oom
             /\ UNCHANGED <<buf, len, oom>>
       /\ Advance /\ UNCHANGED <<pc, spare>>

\* The last step of the helper is done.
EndOfSteps == /\ pc = "body" /\ next = Len(call.steps) + 1
              /\ pc' = "finish"
              /\ UNCHANGED <<call, next, spare, buf, len, oom, frame, sent, ret, errno>>
-----------------------------------------------------------------------------
\* put_response_header and the status word, over a frame of total bytes;
\* total_len is a u32.
Header(total, status) == [ total_len  |-> total % (U32Max + 1),
                           request_id |-> call.req.request_id,
                           op_code    |-> ResponseOp(call.req.op_code),
                           status     |-> status,
                           body       |-> buf,
                           size       |-> total ]

\* Mutant: the latch is not looked at before the header is patched.
FinishErrorIgnoringOom ==
    IF call.req.op_code \notin OpCodes THEN "EINVAL"
    ELSE IF len > U32Max THEN "EOVERFLOW" ELSE "none"

\* The checks of finish_response, in its order.
FinishError ==
    IF call.req.op_code \notin OpCodes THEN "EINVAL"
    ELSE IF oom THEN "ENOMEM"
    ELSE IF len > U32Max THEN "EOVERFLOW" ELSE "none"

\* finish_response.  Patching a buffer shorter than the header would be an
\* out-of-range slice: a panic, which aborts.
FinishResponse ==
    /\ pc = "finish" /\ call.helper # "rsi_respond_status"
    /\ \/ /\ FinishError # "none"
          /\ FailErrno(FinishError)
       \/ /\ FinishError = "none"
          /\ frame' = Header(len, "RSI_OK")
          /\ pc' = IF len < STATUS_FRAME_LEN THEN "aborted" ELSE "write"
          /\ UNCHANGED <<call, next, spare, buf, len, oom, sent, ret, errno>>

\* build_status_frame: on the stack, no FrameWriter and no allocation.
BuildStatusFrame ==
    /\ pc = "finish" /\ call.helper = "rsi_respond_status"
    /\ frame' = Header(STATUS_FRAME_LEN, call.args.status)
    /\ pc' = "write"
    /\ UNCHANGED <<call, next, spare, buf, len, oom, sent, ret, errno>>

\* Mutant: a write(2) that took part of the frame counts as success.
WriteFrameIgnoringCount ==
    /\ pc = "write" /\ pc' = "returned"
    /\ \/ /\ \E n \in ShortWrites \cup {frame.size} :
                n <= frame.size /\ sent' = n
          /\ ret' = 0 /\ UNCHANGED errno
       \/ /\ \E e \in WriteErrnos : errno' = e
          /\ ret' = -1 /\ UNCHANGED sent
    /\ UNCHANGED <<call, next, spare, buf, len, oom, frame>>

\* Mutant: the byte count of write(2) is returned instead of 0.
WriteFrameReturnsCount ==
    /\ pc = "write" /\ pc' = "returned"
    /\ \/ /\ sent' = frame.size
          /\ ret' = frame.size /\ UNCHANGED errno
       \/ /\ \E n \in ShortWrites : n < frame.size /\ sent' = n
          /\ ret' = -1 /\ errno' = "EIO"
       \/ /\ \E e \in WriteErrnos : errno' = e
          /\ ret' = -1 /\ UNCHANGED sent
    /\ UNCHANGED <<call, next, spare, buf, len, oom, frame>>

\* write_frame: all of the frame, part of it (EIO), or the errno of write(2).
WriteFrame ==
    /\ pc = "write" /\ pc' = "returned"
    /\ \/ /\ sent' = frame.size
          /\ ret' = 0 /\ UNCHANGED errno
       \/ /\ \E n \in ShortWrites : n < frame.size /\ sent' = n
          /\ ret' = -1 /\ errno' = "EIO"
       \/ /\ \E e \in WriteErrnos : errno' = e
          /\ ret' = -1 /\ UNCHANGED sent
    /\ UNCHANGED <<call, next, spare, buf, len, oom, frame>>

Next == \/ Require \/ PushGuid \/ Collect \/ Raw \/ EndOfSteps
        \/ FinishResponse \/ BuildStatusFrame \/ WriteFrame

Spec == Init /\ [][Next]_vars
-----------------------------------------------------------------------------
\* The sticky-OOM promise of FrameWriter: whatever reaches write(2) holds every
\* field the helper encodes, each once and in order, whichever allocations
\* failed on the way.
FrameIsWhole ==
    frame.size # 0 =>
        /\ \A i \in 1..Len(call.steps) :
              call.steps[i].kind = "emit" => \E k \in 1..Len(frame.body) : frame.body[k] = i
        /\ \A j, k \in 1..Len(frame.body) : j < k => frame.body[j] < frame.body[k]

\* librsi never aborts the source (src/lib.rs promises an abort only for a bug):
\* no infallible push allocates and no header is patched into a short buffer.
NoAbort == pc # "aborted"

\* A helper returns 0 only when the device has taken one complete frame whose
\* total_len is its length.
SuccessMeansDelivered ==
    pc = "returned" /\ ret = 0 =>
        /\ frame.size # 0
        /\ sent = frame.size
        /\ frame.total_len = frame.size
=============================================================================
