--------------------------- MODULE RespondCallProofs ---------------------------
(***************************************************************************)
(* Theorems about RespondCall, for every set of calls that keeps           *)
(* CallAssumption: any number of entries, children, values or GUIDs.  The  *)
(* second part shows what follows for the contract of response.h and for   *)
(* the frames, provided that the checks of a call decide the rules; that   *)
(* they do is shown in ValidationProofs.                                   *)
(***************************************************************************)
EXTENDS ResponseRefinement, DataLemmas

USE DEF STATUS_FRAME_LEN

\* Is step i one whose bytes belong to the frame?
IsEmit(i) == call.steps[i].kind = "emit"

\* While nothing has failed, the buffer holds the fields of all steps so far, in
\* order, and is at least as long as each of them.
BufferInv ==
    /\ \A k \in 1..Len(buf) : buf[k] < next
    /\ \A j, k \in 1..Len(buf) : j < k => buf[j] < buf[k]
    /\ ~oom => \A i \in 1..(next - 1) :
                  IsEmit(i) => /\ \E k \in 1..Len(buf) : buf[k] = i
                               /\ call.steps[i].size <= len

\* A frame is built only after the last step, from a buffer nothing is missing
\* from, and its total_len is its length.
FrameInv ==
    /\ pc \in { "finish", "write" } => next = Len(call.steps) + 1
    /\ frame.size # 0 => /\ next = Len(call.steps) + 1
                         /\ frame.body = buf
                         /\ frame.total_len = frame.size
                         /\ ~oom \/ call.helper = "rsi_respond_status"

\* What a return value of 0 goes with.
ReturnInv == pc = "returned" /\ ret = 0 => frame.size # 0 /\ sent = frame.size

\* The inductive invariant.
IInv == TypeOK /\ NoAbort /\ BufferInv /\ FrameInv /\ ReturnInv

\* u32::try_from keeps a length that fits.
LEMMA ModFits == ASSUME NEW n \in Nat, NEW x \in 0..n PROVE x % (n + 1) = x
  BY SMT

\* Initially nothing is encoded and nothing can be missing.
LEMMA InitIInv == Init => IInv
<1> SUFFICES ASSUME Init PROVE IInv
  OBVIOUS
<1>1. Len(call.steps) \in Nat
  BY CallAssumption DEF Init
<1>2. TypeOK
  <2>1. errno \in Errnos
    BY DEF Init, Errnos
  <2>2. oom \in BOOLEAN
    BY Zenon DEF Init
  <2>3. buf \in Seq(Nat)
    BY DEF Init
  <2>4. next \in 1..(Len(call.steps) + 1)
    BY <1>1 DEF Init
  <2> QED
    BY <2>1, <2>2, <2>3, <2>4 DEF Init, TypeOK, NoFrame
<1>3. NoAbort /\ ReturnInv
  BY DEF Init, NoAbort, ReturnInv
<1>4. BufferInv
  BY DEF Init, BufferInv
<1>5. FrameInv
  BY DEF Init, FrameInv, NoFrame
<1> QED
  BY <1>2, <1>3, <1>4, <1>5 DEF IInv

\* What CallAssumption says of the step a call has reached.
LEMMA StepFacts ==
    ASSUME TypeOK
    PROVE  /\ Len(call.steps) \in Nat
           /\ \A i \in 1..Len(call.steps) :
                 /\ call.steps[i].kind = "require" => call.steps[i].errno = "EINVAL"
                 /\ call.steps[i].kind = "collect" => call.steps[i].n <= call.steps[i].cap
                 /\ call.steps[i].kind = "emit" => call.steps[i].size \in Nat
  BY CallAssumption DEF TypeOK

\* Steps that leave the buffer and the frame alone and move on to the next step
\* keep the invariant, when the step they pass appends nothing.
LEMMA AdvanceKeeps ==
    ASSUME IInv, pc = "body", next <= Len(call.steps), Step.kind # "emit",
           Advance, UNCHANGED <<pc, buf, len, oom>>, spare' \in Nat
    PROVE  IInv'
<1> USE DEF IInv, Advance
<1>1. TypeOK'
  BY StepFacts DEF TypeOK
<1>2. BufferInv'
  <2>1. next' = next + 1 /\ next \in Nat /\ Len(buf) \in Nat /\ buf \in Seq(Nat)
    BY StepFacts DEF TypeOK
  <2>2. \A k \in 1..Len(buf) : buf[k] < next'
    BY <2>1 DEF BufferInv
  <2>3. ASSUME ~oom, NEW i \in 1..next, IsEmit(i)
        PROVE  (\E k \in 1..Len(buf) : buf[k] = i) /\ call.steps[i].size <= len
    <3>1. i \in 1..(next - 1)
      BY <2>1, <2>3 DEF IsEmit, Step
    <3> QED
      BY <2>3, <3>1 DEF BufferInv
  <2>4. \A i \in 1..(next' - 1) : i \in 1..next
    BY <2>1
  <2> QED
    BY <2>2, <2>3, <2>4, Zenon DEF BufferInv, IsEmit
<1>3. (NoAbort /\ FrameInv /\ ReturnInv)'
  BY DEF TypeOK, NoAbort, FrameInv, ReturnInv, NoFrame
<1> QED
  BY <1>1, <1>2, <1>3

\* fail_errno keeps it: nothing but the return value changes.
LEMMA FailKeeps ==
    ASSUME IInv, NEW e \in Errnos, FailErrno(e), pc \in { "body", "finish" }
    PROVE  IInv'
<1> USE DEF IInv, FailErrno
<1>1. TypeOK'
  BY DEF TypeOK, NoFrame
<1>2. BufferInv'
  BY DEF BufferInv, IsEmit
<1>3. (NoAbort /\ FrameInv /\ ReturnInv)'
  BY DEF TypeOK, NoAbort, FrameInv, ReturnInv, NoFrame
<1> QED
  BY <1>1, <1>2, <1>3

\* Raw keeps it: an append adds the field of the step at hand, a failed one
\* latches oom, and once latched nothing more is claimed of the buffer.
LEMMA RawKeeps == ASSUME IInv, Raw PROVE IInv'
<1> USE DEF IInv
<1>1. /\ Len(call.steps) \in Nat /\ next \in 1..Len(call.steps) /\ next' = next + 1
      /\ buf \in Seq(Nat) /\ Len(buf) \in Nat /\ len \in Nat
      /\ IsEmit(next) /\ call.steps[next].size \in Nat
      /\ UNCHANGED <<call, pc, frame, sent, ret, errno, spare>> /\ frame = NoFrame
  BY StepFacts DEF TypeOK, Raw, At, Step, Advance, IsEmit
<1>2. CASE ~oom /\ buf' = Append(buf, next) /\ len' = len + Step.size /\ UNCHANGED oom
  <2>1. buf' \in Seq(Nat) /\ Len(buf') = Len(buf) + 1 /\ len' \in Nat
    BY <1>1, <1>2 DEF Step
  <2>2. /\ \A k \in 1..Len(buf) : buf'[k] = buf[k]
        /\ buf'[Len(buf) + 1] = next
    BY <1>1, <1>2
  <2>3. \A k \in 1..Len(buf') : k \in 1..Len(buf) \/ k = Len(buf) + 1
    BY <1>1, <2>1
  <2>4. \A k \in 1..Len(buf) : buf[k] \in Nat /\ buf[k] < next
    BY <1>1 DEF BufferInv
  <2>5. ASSUME NEW k \in 1..Len(buf') PROVE buf'[k] < next'
    <3>0. next \in Nat /\ next' = next + 1
      BY <1>1
    <3>1. CASE k \in 1..Len(buf)
      BY <3>0, <2>2, <2>4, <3>1
    <3>2. CASE k = Len(buf) + 1
      BY <3>0, <2>2, <3>2
    <3> QED
      BY <2>3, <3>1, <3>2
  <2>6. \A j, k \in 1..Len(buf') : j < k => buf'[j] < buf'[k]
    <3> SUFFICES ASSUME NEW j \in 1..Len(buf'), NEW k \in 1..Len(buf'), j < k
                 PROVE  buf'[j] < buf'[k]
      OBVIOUS
    <3>1. j \in 1..Len(buf)
      BY <1>1, <2>1
    <3>2. CASE k \in 1..Len(buf)
      BY <2>2, <3>1, <3>2 DEF BufferInv
    <3>3. CASE k = Len(buf) + 1
      BY <2>2, <2>4, <3>1, <3>3
    <3> QED
      BY <2>3, <3>2, <3>3
  <2>7. ASSUME NEW i \in 1..(next' - 1), IsEmit(i)
        PROVE  (\E k \in 1..Len(buf') : buf'[k] = i) /\ call.steps[i].size <= len'
    <3>1. CASE i = next
      <4>1. Len(buf) + 1 \in 1..Len(buf') /\ buf'[Len(buf) + 1] = i
        BY <1>1, <2>1, <2>2, <3>1
      <4>2. call.steps[i].size <= len'
        BY <1>1, <1>2, <3>1 DEF Step
      <4> QED
        BY <4>1, <4>2
    <3>2. CASE i # next
      <4>1. i \in 1..(next - 1)
        BY <1>1, <3>2
      <4>2. PICK k \in 1..Len(buf) : buf[k] = i /\ call.steps[i].size <= len
        BY <1>2, <2>7, <4>1 DEF BufferInv
      <4>3. k \in 1..Len(buf') /\ buf'[k] = i
        BY <1>1, <2>1, <2>2, <4>2
      <4>4. call.steps[i].size <= len'
        <5>1. call.steps[i].size \in Nat
          BY StepFacts, <1>1, <2>7 DEF IsEmit
        <5>2. len' = len + call.steps[next].size
          BY <1>2 DEF Step
        <5>3. len \in Nat /\ call.steps[next].size \in Nat
          BY <1>1
        <5> QED
          BY <4>2, <5>1, <5>2, <5>3
      <4> QED
        BY <4>3, <4>4
    <3> QED
      BY <3>1, <3>2
  <2>8. BufferInv'
    BY <1>1, <2>5, <2>6, <2>7 DEF BufferInv, IsEmit
  <2>9. TypeOK'
    <3>1. next' \in 1..(Len(call'.steps) + 1)
      BY <1>1
    <3>2. UNCHANGED <<call, pc, frame, sent, ret, errno, spare, oom>>
      BY <1>1, <1>2
    <3> QED
      BY <2>1, <3>1, <3>2 DEF TypeOK
  <2>10. (NoAbort /\ FrameInv /\ ReturnInv)'
    BY <1>1, <1>2 DEF NoAbort, FrameInv, ReturnInv, NoFrame, Raw, At
  <2> QED
    BY <2>8, <2>9, <2>10
<1>3. CASE oom' = TRUE /\ UNCHANGED <<buf, len>>
  <2>1. BufferInv'
    <3>1. \A k \in 1..Len(buf) : buf[k] \in Nat /\ buf[k] < next'
      BY <1>1 DEF BufferInv
    <3> QED
      BY <1>3, <3>1 DEF BufferInv
  <2>2. TypeOK'
    BY <1>1, <1>3 DEF TypeOK
  <2>3. (NoAbort /\ FrameInv /\ ReturnInv)'
    BY <1>1, <1>3 DEF NoAbort, FrameInv, ReturnInv, NoFrame, Raw, At
  <2> QED
    BY <2>1, <2>2, <2>3
<1>4. \/ ~oom /\ buf' = Append(buf, next) /\ len' = len + Step.size /\ UNCHANGED oom
      \/ oom' = TRUE /\ UNCHANGED <<buf, len>>
  BY Zenon DEF Raw, TypeOK
<1> QED
  BY <1>2, <1>3, <1>4, Zenon

\* finish_response keeps it: past the oom check every field is in the buffer, the
\* placeholder among them, so the header fits and the frame is whole.
LEMMA FinishKeeps == ASSUME IInv, FinishResponse PROVE IInv'
<1> USE DEF IInv
<1>1. Len(call.steps) \in Nat /\ next = Len(call.steps) + 1 /\ len \in Nat /\ frame = NoFrame
  BY StepFacts DEF TypeOK, FrameInv, FinishResponse
<1>2. CASE FinishError # "none" /\ FailErrno(FinishError)
  <2>1. FinishError \in Errnos
    BY DEF FinishError, Errnos
  <2> QED
    BY <1>2, <2>1, FailKeeps DEF FinishResponse
<1>3. CASE /\ FinishError = "none"
           /\ frame' = Header(len, "RSI_OK")
           /\ pc' = IF len < STATUS_FRAME_LEN THEN "aborted" ELSE "write"
           /\ UNCHANGED <<call, next, spare, buf, len, oom, sent, ret, errno>>
  <2>1. ~oom /\ len <= U32Max
    BY <1>1, <1>3, SizeAssumption DEF FinishError
  <2>2. PICK i \in 1..Len(call.steps) : IsEmit(i) /\ call.steps[i].size >= 18
    BY CallAssumption DEF TypeOK, FinishResponse, IsEmit
  <2>3. len >= 18
    <3>1. i \in 1..(next - 1) /\ call.steps[i].size \in Nat
      BY <1>1, <2>2, StepFacts DEF IsEmit
    <3>2. call.steps[i].size <= len
      BY <2>1, <2>2, <3>1 DEF BufferInv
    <3> QED
      BY <1>1, <2>2, <3>1, <3>2
  <2>4. frame'.size = len /\ frame'.total_len = len /\ frame'.body = buf
    <3>1. len % (U32Max + 1) = len
      BY <1>1, <2>1, ModFits, SizeAssumption
    <3> QED
      BY <1>3, <3>1 DEF Header
  <2>5. pc' = "write"
    BY <1>1, <1>3, <2>3
  <2>6. TypeOK'
    BY <1>1, <1>3, <2>3, <2>4, <2>5 DEF TypeOK, NoFrame
  <2>7. BufferInv'
    BY <1>3 DEF BufferInv, IsEmit
  <2>8. FrameInv'
    BY <1>1, <1>3, <2>1, <2>4 DEF FrameInv
  <2>9. (NoAbort /\ ReturnInv)'
    BY <2>5 DEF NoAbort, ReturnInv
  <2> QED
    BY <2>6, <2>7, <2>8, <2>9
<1> QED
  BY <1>2, <1>3 DEF FinishResponse

\* build_status_frame keeps it: a status call has no fields to lose.
LEMMA StatusKeeps == ASSUME IInv, BuildStatusFrame PROVE IInv'
<1> USE DEF IInv
<1>1. /\ next = Len(call.steps) + 1 /\ pc' = "write"
      /\ UNCHANGED <<call, next, spare, buf, len, oom, sent, ret, errno>>
      /\ frame = NoFrame /\ call.helper = "rsi_respond_status"
  BY DEF TypeOK, FrameInv, BuildStatusFrame
<1>2. frame'.size = 18 /\ frame'.total_len = 18 /\ frame'.body = buf
  <2>1. 18 % (U32Max + 1) = 18
    BY ModFits, SizeAssumption
  <2> QED
    BY <2>1 DEF BuildStatusFrame, Header
<1>3. TypeOK'
  BY <1>1, <1>2 DEF TypeOK, NoFrame
<1>4. BufferInv'
  BY <1>1 DEF BufferInv, IsEmit
<1>5. (FrameInv /\ NoAbort /\ ReturnInv)'
  BY <1>1, <1>2 DEF FrameInv, NoAbort, ReturnInv
<1> QED
  BY <1>3, <1>4, <1>5

\* write_frame keeps it: 0 is returned only for the full count.
LEMMA WriteKeeps == ASSUME IInv, WriteFrame PROVE IInv'
<1> USE DEF IInv
<1>1. /\ pc' = "returned" /\ frame.size # 0 /\ frame.size \in Nat
      /\ UNCHANGED <<call, next, spare, buf, len, oom, frame>>
  BY DEF TypeOK, WriteFrame
<1>2. sent' \in Nat /\ sent' <= frame.size
  BY SizeAssumption DEF TypeOK, WriteFrame
<1>3. ret' \in {-1, 0} /\ errno' \in Errnos
  BY DEF TypeOK, WriteFrame, Errnos
<1>4. TypeOK'
  BY <1>1, <1>2, <1>3 DEF TypeOK
<1>5. BufferInv'
  BY <1>1 DEF BufferInv, IsEmit
<1>6. ReturnInv'
  BY <1>1 DEF ReturnInv, WriteFrame
<1>7. (FrameInv /\ NoAbort)'
  BY <1>1 DEF FrameInv, NoAbort
<1> QED
  BY <1>4, <1>5, <1>6, <1>7

\* Every step of a call keeps the inductive invariant.
LEMMA NextKeeps == IInv /\ [Next]_vars => IInv'
<1> SUFFICES ASSUME IInv, [Next]_vars PROVE IInv'
  OBVIOUS
<1>0. {"EINVAL", "ENOMEM"} \subseteq Errnos
  BY DEF Errnos
<1>1. CASE Require
  <2>1. CASE Step.ok /\ Advance /\ UNCHANGED <<pc, spare, buf, len, oom>>
    BY <1>1, <2>1, AdvanceKeeps DEF Require, At, IInv, TypeOK
  <2>2. CASE ~Step.ok /\ FailErrno(Step.errno)
    <3>1. Step.errno = "EINVAL"
      BY <1>1, StepFacts DEF Require, At, Step, IInv, TypeOK
    <3> QED
      BY <1>0, <1>1, <2>2, <3>1, FailKeeps DEF Require, At
  <2> QED
    BY <1>1, <2>1, <2>2 DEF Require
<1>2. CASE PushGuid
  <2>1. CASE spare' \in Nat /\ Advance /\ UNCHANGED <<pc, buf, len, oom>>
    BY <1>2, <2>1, AdvanceKeeps DEF PushGuid, At
  <2>2. CASE FailErrno("ENOMEM")
    BY <1>0, <1>2, <2>2, FailKeeps DEF PushGuid, At
  <2> QED
    BY <1>2, <2>1, <2>2, SizeAssumption DEF PushGuid, IInv, TypeOK
<1>3. CASE Collect
  <2>1. Step.n <= Step.cap
    BY <1>3, StepFacts DEF Collect, At, Step, IInv, TypeOK
  <2>2. CASE pc' = "body" /\ Advance /\ UNCHANGED <<spare, buf, len, oom>>
    BY <1>3, <2>2, AdvanceKeeps DEF Collect, At, IInv, TypeOK
  <2>3. CASE FailErrno("ENOMEM")
    BY <1>0, <1>3, <2>3, FailKeeps DEF Collect, At
  <2> QED
    BY <1>3, <2>1, <2>2, <2>3 DEF Collect
<1>4. CASE Raw
  BY <1>4, RawKeeps
<1>5. CASE EndOfSteps
  <2>1. BufferInv'
    BY <1>5 DEF EndOfSteps, IInv, BufferInv, IsEmit
  <2> QED
    BY <1>5, <2>1 DEF EndOfSteps, IInv, TypeOK, NoAbort, FrameInv, ReturnInv
<1>6. CASE FinishResponse
  BY <1>6, FinishKeeps
<1>7. CASE BuildStatusFrame
  BY <1>7, StatusKeeps
<1>8. CASE WriteFrame
  BY <1>8, WriteKeeps
<1>9. CASE UNCHANGED vars
  BY <1>9 DEF vars, IInv, TypeOK, NoAbort, BufferInv, IsEmit, FrameInv, ReturnInv
<1> QED
  BY <1>1, <1>2, <1>3, <1>4, <1>5, <1>6, <1>7, <1>8, <1>9 DEF Next

\* The inductive invariant holds throughout every call.
THEOREM Inductive == Spec => []IInv
  BY InitIInv, NextKeeps, PTL DEF Spec

\* The variables of a call keep their types.
THEOREM TypeCorrect == Spec => []TypeOK
<1>1. IInv => TypeOK
  BY DEF IInv
<1> QED
  BY <1>1, Inductive, PTL

\* Sticky OOM is sound: no frame with a field missing, repeated or out of place
\* is ever handed to write(2), for any helper and any pattern of failed
\* allocations.
THEOREM WholeFrames == Spec => []FrameIsWhole
<1>1. IInv => FrameIsWhole
  <2> SUFFICES ASSUME IInv, frame.size # 0 PROVE FrameIsWhole
    BY DEF FrameIsWhole
  <2>1. /\ next = Len(call.steps) + 1 /\ frame.body = buf /\ Len(call.steps) \in Nat
        /\ ~oom \/ call.helper = "rsi_respond_status"
    BY StepFacts DEF IInv, FrameInv
  <2>2. \A j, k \in 1..Len(frame.body) : j < k => frame.body[j] < frame.body[k]
    BY <2>1 DEF IInv, BufferInv
  <2>3. ASSUME NEW i \in 1..Len(call.steps), call.steps[i].kind = "emit"
        PROVE  \E k \in 1..Len(frame.body) : frame.body[k] = i
    <3>1. call.helper # "rsi_respond_status"
      BY <2>3, CallAssumption DEF IInv, TypeOK
    <3>2. i \in 1..(next - 1)
      BY <2>1
    <3> QED
      BY <2>1, <2>3, <3>1, <3>2 DEF IInv, BufferInv, IsEmit
  <2> QED
    BY <2>2, <2>3 DEF FrameIsWhole
<1> QED
  BY <1>1, Inductive, PTL

\* No allocation failure makes a response helper abort the source.
THEOREM NeverAborts == Spec => []NoAbort
<1>1. IInv => NoAbort
  BY DEF IInv
<1> QED
  BY <1>1, Inductive, PTL

\* A return value of 0 means that the device took all of a frame whose total_len
\* is right.
THEOREM ZeroMeansDelivered == Spec => []SuccessMeansDelivered
<1>1. IInv => SuccessMeansDelivered
  BY DEF IInv, ReturnInv, FrameInv, SuccessMeansDelivered
<1> QED
  BY <1>1, Inductive, PTL
-----------------------------------------------------------------------------
(* The contract of response.h *)

\* What the fields before step n of c add up to.
Offset(c, n) == PartialSums(FieldSizes(c.steps))[n - 1]

\* Each step adds the size of its field.
LEMMA Offsets ==
    ASSUME call \in Calls
    PROVE  /\ Offset(call, 1) = 0 /\ Offset(call, Len(call.steps) + 1) = Encoded(call.steps)
           /\ \A n \in 1..Len(call.steps) : Offset(call, n + 1) = Offset(call, n) + FieldSizes(call.steps)[n]
<1>1. PICK s : s = call.steps /\ Len(s) \in Nat /\ \A i \in 1..Len(s) : s[i].kind = "emit" => s[i].size \in Nat
  BY CallAssumption
<1>2. PICK N \in Nat : N = Len(s)
  BY <1>1
<1>3. PICK w : w = FieldSizes(s)
  OBVIOUS
<1>4. w = [n \in 1..N |-> IF s[n].kind = "emit" THEN s[n].size ELSE 0]
  BY <1>2, <1>3 DEF FieldSizes
<1>5. w \in [1..N -> Nat]
  BY <1>1, <1>2, <1>4
<1>6. w \in Seq(Nat) /\ Len(w) = N
  BY <1>4, <1>5
<1>7. PICK at : at = PartialSums(w) /\ AddUp(at, w, N)
  BY <1>6, PartialSumsAdd
<1>8. \A n : Offset(call, n) = at[n - 1]
  BY <1>1, <1>3, <1>7, Zenon DEF Offset
<1>9. Encoded(s) = at[N]
  BY <1>3, <1>6, <1>7 DEF Encoded, Sum
<1>10. at[0] = 0 /\ \A n \in 1..N : at[n] = at[n - 1] + w[n]
  BY <1>7 DEF AddUp
<1>11. 1 - 1 = 0 /\ (N + 1) - 1 = N /\ \A n \in 1..N : (n + 1) - 1 = n
  OBVIOUS
<1>12. Offset(call, 1) = 0 /\ Offset(call, N + 1) = Encoded(s)
  BY <1>8, <1>9, <1>10, <1>11
<1>13. \A n \in 1..N : Offset(call, n + 1) = Offset(call, n) + w[n]
  BY <1>8, <1>10, <1>11
<1> QED
  BY <1>1, <1>2, <1>3, <1>12, <1>13

\* The size of the field of the step the call has reached.
LEMMA StepSize ==
    ASSUME call \in Calls, next \in 1..Len(call.steps)
    PROVE  FieldSizes(call.steps)[next] = IF Step.kind = "emit" THEN Step.size ELSE 0
BY DEF FieldSizes, Step

\* Until the call returns, nothing was sent and no errno set; every check so far
\* has passed; and the buffer is as long as the fields so far.
ProgressInv ==
    /\ pc # "returned" => sent = 0 /\ errno = "none"
    /\ pc \in { "body", "finish", "write" } =>
          \A i \in 1..(next - 1) : call.steps[i].kind = "require" => call.steps[i].ok
    /\ pc \in { "body", "finish" } /\ ~oom /\ Valid(call) /\ call.helper # "rsi_respond_status" =>
          len = Offset(call, next)
    /\ pc = "write" => frame.size = FrameSize(call) /\ frame.size <= U32Max

\* At first there is nothing to have failed.
LEMMA InitProgress == Init => ProgressInv
<1> SUFFICES ASSUME Init PROVE ProgressInv
  OBVIOUS
<1>1. call \in Calls /\ next = 1 /\ len = 0 /\ pc = "body" /\ sent = 0 /\ errno = "none"
  BY DEF Init
<1>2. len = Offset(call, next)
  BY <1>1, Offsets
<1> QED
  BY <1>1, <1>2 DEF ProgressInv

\* A call that has passed all its checks is valid.
LEMMA PastChecks ==
    ASSUME IInv, Decides(call), ProgressInv, pc \in { "finish", "write" }
    PROVE  Valid(call)
<1>1. next = Len(call.steps) + 1 /\ Len(call.steps) \in Nat /\ call \in Calls
  BY StepFacts DEF IInv, FrameInv, TypeOK
<1>2. next - 1 = Len(call.steps)
  BY <1>1
<1>3. Passes(call)
  BY <1>2 DEF ProgressInv, Passes
<1> QED
  BY <1>1, <1>3 DEF Decides

\* A step that moves on in the body keeps the progress facts, if it is no failed
\* check and adds to the buffer what it should.
LEMMA AdvanceProgress ==
    ASSUME IInv, Decides(call), ProgressInv, pc = "body", next <= Len(call.steps), Advance, pc' = "body",
           Step.kind = "require" => Step.ok,
           ~oom' => ~oom /\ len' = len + FieldSizes(call.steps)[next]
    PROVE  ProgressInv'
<1>1. /\ next \in 1..Len(call.steps) /\ Len(call.steps) \in Nat /\ call \in Calls
      /\ next' = next + 1 /\ UNCHANGED <<call, frame, sent, ret, errno>>
  BY StepFacts DEF IInv, TypeOK, Advance
<1>2. \A i \in 1..(next' - 1) : call.steps[i].kind = "require" => call.steps[i].ok
  <2>1. \A i \in 1..(next' - 1) : i = next \/ i \in 1..(next - 1)
    BY <1>1
  <2> QED
    BY <2>1 DEF ProgressInv, Step
<1>3. ASSUME ~oom', Valid(call), call.helper # "rsi_respond_status"
      PROVE  len' = Offset(call, next + 1)
  <2>1. len = Offset(call, next)
    BY <1>3 DEF ProgressInv
  <2>2. Offset(call, next + 1) = Offset(call, next) + FieldSizes(call.steps)[next]
    BY <1>1, Offsets
  <2> QED
    BY <1>3, <2>1, <2>2
<1>4. Valid(call') <=> Valid(call)
  BY <1>1
<1>5. sent' = 0 /\ errno' = "none"
  BY <1>1 DEF ProgressInv
<1>6. Offset(call', next') = Offset(call, next + 1)
  BY <1>1
<1> QED
  BY <1>1, <1>2, <1>3, <1>4, <1>5, <1>6 DEF ProgressInv

\* A call that has returned is promised nothing more.
LEMMA ReturnProgress == ASSUME pc' = "returned" PROVE ProgressInv'
  BY DEF ProgressInv

\* finish_response hands over a frame of the length the rules say, or none.
LEMMA FinishProgress == ASSUME IInv, Decides(call), ProgressInv, FinishResponse PROVE ProgressInv'
<1>1. CASE \E e \in {FinishError} : FailErrno(e)
  BY <1>1, ReturnProgress DEF FailErrno
<1>2. CASE /\ FinishError = "none"
           /\ frame' = Header(len, "RSI_OK")
           /\ pc' = IF len < STATUS_FRAME_LEN THEN "aborted" ELSE "write"
           /\ UNCHANGED <<call, next, spare, buf, len, oom, sent, ret, errno>>
  <2>1. ~oom /\ len <= U32Max
    BY <1>2, SizeAssumption DEF FinishError, IInv, TypeOK
  <2>2. Valid(call) /\ call \in Calls /\ call.helper # "rsi_respond_status"
    BY PastChecks DEF FinishResponse, IInv, TypeOK
  <2>3. len = Offset(call, next)
    BY <2>1, <2>2 DEF ProgressInv, FinishResponse
  <2>4. next = Len(call.steps) + 1
    BY DEF IInv, FrameInv, FinishResponse
  <2>5. len = FrameSize(call)
    BY <2>2, <2>3, <2>4, Offsets DEF Decides
  <2>6. frame'.size = FrameSize(call) /\ frame'.size <= U32Max
    BY <1>2, <2>1, <2>5 DEF Header
  <2>7. pc = "finish" /\ pc' # "body" /\ pc' # "finish"
    BY <1>2 DEF FinishResponse
  <2>8. FrameSize(call') = FrameSize(call)
    BY <1>2
  <2> QED
    BY <1>2, <2>6, <2>7, <2>8 DEF ProgressInv
<1> QED
  BY <1>1, <1>2 DEF FinishResponse

\* build_status_frame always has the one length.
LEMMA StatusProgress == ASSUME IInv, Decides(call), ProgressInv, BuildStatusFrame PROVE ProgressInv'
<1>1. /\ Valid(call) /\ call \in Calls /\ call.helper = "rsi_respond_status" /\ pc = "finish"
      /\ pc' = "write" /\ UNCHANGED <<call, next, sent, errno>>
  BY PastChecks DEF BuildStatusFrame, IInv, TypeOK
<1>2. frame'.size = STATUS_FRAME_LEN /\ FrameSize(call) = STATUS_FRAME_LEN
  BY <1>1 DEF Decides, BuildStatusFrame, Header
<1>3. STATUS_FRAME_LEN <= U32Max
  BY SizeAssumption DEF STATUS_FRAME_LEN
<1>4. FrameSize(call') = FrameSize(call)
  BY <1>1
<1> QED
  BY <1>1, <1>2, <1>3, <1>4 DEF ProgressInv

\* Every step keeps the progress facts.
LEMMA NextProgress == IInv /\ Decides(call) /\ ProgressInv /\ [Next]_vars => ProgressInv'
<1> SUFFICES ASSUME IInv, Decides(call), ProgressInv, [Next]_vars PROVE ProgressInv'
  OBVIOUS
<1>1. CASE Require
  <2>1. CASE Step.ok /\ Advance /\ UNCHANGED <<pc, spare, buf, len, oom>>
    <3>1. FieldSizes(call.steps)[next] = 0 /\ len \in Nat
      BY <1>1, StepFacts, StepSize DEF Require, At, IInv, TypeOK
    <3> QED
      BY <1>1, <2>1, <3>1, AdvanceProgress DEF Require, At
  <2>2. CASE FailErrno(Step.errno)
    BY <2>2, ReturnProgress DEF FailErrno
  <2> QED
    BY <1>1, <2>1, <2>2 DEF Require
<1>2. CASE PushGuid \/ Collect
  <2>1. CASE pc' = "returned"
    BY <2>1, ReturnProgress
  <2>2. CASE Advance /\ UNCHANGED <<buf, len, oom>> /\ pc' = "body"
    <3>1. FieldSizes(call.steps)[next] = 0 /\ len \in Nat
      BY <1>2, StepFacts, StepSize DEF PushGuid, Collect, At, IInv, TypeOK
    <3>2. pc = "body" /\ next <= Len(call.steps) /\ Step.kind # "require"
      BY <1>2 DEF PushGuid, Collect, At
    <3> QED
      BY <2>2, <3>1, <3>2, AdvanceProgress
  <2>3. CASE Collect
    <3>1. Step.n <= Step.cap
      BY <2>3, StepFacts DEF Collect, At, Step, IInv, TypeOK
    <3> QED
      BY <2>1, <2>2, <2>3, <3>1 DEF Collect, FailErrno
  <2>4. CASE PushGuid
    BY <2>1, <2>2, <2>4 DEF PushGuid, At, FailErrno
  <2> QED
    BY <1>2, <2>3, <2>4
<1>3. CASE Raw
  <2>1. pc = "body" /\ next <= Len(call.steps) /\ Step.kind = "emit" /\ Advance /\ pc' = "body"
    BY <1>3 DEF Raw, At
  <2>2. FieldSizes(call.steps)[next] = Step.size
    BY <2>1, StepFacts, StepSize DEF IInv, TypeOK
  <2>3. ~oom' => ~oom /\ len' = len + Step.size
    BY <1>3 DEF Raw
  <2> QED
    BY <2>1, <2>2, <2>3, AdvanceProgress
<1>4. CASE EndOfSteps
  BY <1>4 DEF EndOfSteps, ProgressInv
<1>5. CASE FinishResponse \/ BuildStatusFrame
  BY <1>5, FinishProgress, StatusProgress
<1>6. CASE WriteFrame
  BY <1>6, ReturnProgress DEF WriteFrame
<1>7. CASE UNCHANGED vars
  BY <1>7 DEF vars, ProgressInv
<1> QED
  BY <1>1, <1>2, <1>3, <1>4, <1>5, <1>6, <1>7 DEF Next
-----------------------------------------------------------------------------
\* The contract's step to outcome o.
Comes(o) == /\ o \in Contract!Outcomes(call)
            /\ pc # "returned" /\ pc' = "returned" /\ UNCHANGED call
            /\ errno' = o.errno
            /\ ret' = IF o = Contract!Delivered THEN 0 ELSE -1
            /\ o.got = IF frame'.size = 0 THEN "unwritten" ELSE IF sent' = 0 THEN "nothing"
                       ELSE IF sent' < frame'.size THEN "torn" ELSE "whole"

\* A step that comes to an outcome of the contract is a step of the contract.
LEMMA OutcomeStep == ASSUME NEW o, Comes(o) PROVE Contract!Next
<1>1. Contract!Return(o)
  BY DEF Comes, Contract!Return
<1> QED
  BY <1>1 DEF Comes, Contract!Next

\* A step that neither returns nor sends is a stutter of the contract.
LEMMA QuietStep ==
    ASSUME ProgressInv, ProgressInv', pc # "returned", pc' # "returned", UNCHANGED call
    PROVE  UNCHANGED Contract!vars
  BY DEF ProgressInv, Contract!vars

\* fail_errno comes to a refusal with the errno, and no frame was written.
LEMMA FailStep ==
    ASSUME NEW e, FailErrno(e), pc # "returned", frame = NoFrame,
           Contract!Refused(e) \in Contract!Outcomes(call)
    PROVE  Contract!Next
<1>1. frame'.size = 0 /\ ret' = -1 /\ errno' = e /\ pc' = "returned" /\ UNCHANGED call
  BY DEF FailErrno, NoFrame
<1>2. Contract!Refused(e) # Contract!Delivered
  BY DEF Contract!Refused, Contract!Delivered
<1>3. Comes(Contract!Refused(e))
  BY <1>1, <1>2 DEF Comes, Contract!Refused
<1> QED
  BY <1>3, OutcomeStep

\* Only a call that breaks a rule is refused by a check.
LEMMA RequireStep ==
    ASSUME IInv, Decides(call), ProgressInv, ProgressInv', Require
    PROVE  [Contract!Next]_(Contract!vars)
<1>1. CASE Step.ok /\ Advance /\ UNCHANGED pc
  BY <1>1, QuietStep DEF Require, At, Advance
<1>2. CASE ~Step.ok /\ FailErrno(Step.errno)
  <2>1. next \in 1..Len(call.steps) /\ Step.errno = "EINVAL" /\ Step.kind = "require"
    BY StepFacts DEF Require, At, Step, IInv, TypeOK
  <2>2. ~Valid(call)
    BY <1>2, <2>1 DEF Decides, Passes, Step
  <2>3. Contract!Refused("EINVAL") \in Contract!Outcomes(call)
    BY <2>2 DEF Contract!Outcomes
  <2> QED
    BY <1>2, <2>1, <2>3, FailStep DEF Require, At, IInv, TypeOK
<1> QED
  BY <1>1, <1>2 DEF Require

\* Only a helper that allocates fails for want of memory.
LEMMA AllocateStep ==
    ASSUME IInv, ProgressInv, ProgressInv', PushGuid \/ Collect
    PROVE  [Contract!Next]_(Contract!vars)
<1>1. /\ pc = "body" /\ next \in 1..Len(call.steps) /\ Step.kind # "require" /\ call \in Calls
      /\ frame = NoFrame
  BY DEF PushGuid, Collect, At, IInv, TypeOK
<1>2. CASE Advance
  <2>1. pc' # "returned" /\ UNCHANGED call
    BY <1>2 DEF Advance, PushGuid, Collect, At, FailErrno
  <2> QED
    BY <1>1, <2>1, QuietStep
<1>3. CASE FailErrno("ENOMEM")
  <2>1. call.helper # "rsi_respond_status"
    BY <1>1, CallAssumption DEF Step
  <2>2. Contract!Refused("ENOMEM") \in Contract!Outcomes(call)
    BY <2>1 DEF Contract!Outcomes
  <2> QED
    BY <1>1, <1>3, <2>2, FailStep
<1> QED
  BY <1>2, <1>3 DEF PushGuid, Collect

\* finish_response refuses for memory, or because the frame is too long.
LEMMA FinishStep ==
    ASSUME IInv, Decides(call), ProgressInv, ProgressInv', FinishResponse
    PROVE  [Contract!Next]_(Contract!vars)
<1>1. Valid(call) /\ call.helper # "rsi_respond_status" /\ pc = "finish" /\ frame = NoFrame
  BY PastChecks DEF FinishResponse, IInv, TypeOK
<1>2. call.req.op_code \in OpCodes
  BY <1>1 DEF Decides
<1>3. CASE FinishError # "none" /\ FailErrno(FinishError)
  <2>1. CASE oom
    <3>1. FinishError = "ENOMEM" /\ Contract!Refused("ENOMEM") \in Contract!Outcomes(call)
      BY <1>1, <1>2, <2>1 DEF FinishError, Contract!Outcomes
    <3> QED
      BY <1>1, <1>3, <3>1, FailStep
  <2>2. CASE ~oom
    <3>1. FinishError = "EOVERFLOW" /\ len > U32Max
      BY <1>2, <1>3, <2>2 DEF FinishError
    <3>2. next = Len(call.steps) + 1 /\ call \in Calls
      BY DEF IInv, TypeOK, FrameInv, FinishResponse
    <3>3. len = FrameSize(call)
      BY <1>1, <2>2, <3>2, Offsets DEF Decides, ProgressInv
    <3>4. Contract!Refused("EOVERFLOW") \in Contract!Outcomes(call)
      BY <1>1, <3>1, <3>3 DEF Contract!Outcomes
    <3> QED
      BY <1>1, <1>3, <3>1, <3>4, FailStep
  <2> QED
    BY <2>1, <2>2
<1>4. CASE pc' # "returned" /\ UNCHANGED call
  BY <1>1, <1>4, QuietStep
<1> QED
  BY <1>3, <1>4 DEF FinishResponse

\* write_frame delivers the whole frame of a valid call, or reports that it did
\* not: with EIO for a short write, with the errno of write(2) otherwise.
LEMMA WriteStep ==
    ASSUME IInv, Decides(call), ProgressInv, WriteFrame
    PROVE  [Contract!Next]_(Contract!vars)
<1>1. /\ pc = "write" /\ pc' = "returned" /\ UNCHANGED <<call, frame>> /\ Valid(call)
      /\ sent = 0 /\ errno = "none"
  BY PastChecks DEF WriteFrame, ProgressInv
<1>2. frame.size \in Nat /\ frame.size # 0 /\ frame.size = FrameSize(call) /\ FrameSize(call) <= U32Max
  BY <1>1 DEF IInv, TypeOK, ProgressInv
<1>3. /\ {Contract!Delivered, Contract!Torn, Contract!Rejected("EIO")} \subseteq Contract!Outcomes(call)
      /\ \A e \in WriteErrnos : Contract!Rejected(e) \in Contract!Outcomes(call)
  <2>1. ~(FrameSize(call) > U32Max)
    BY <1>2, SizeAssumption
  <2> QED
    BY <1>1, <2>1 DEF Contract!Outcomes
<1>4. \A e : Contract!Rejected(e) # Contract!Delivered
  BY DEF Contract!Rejected, Contract!Delivered
<1>5. CASE sent' = frame.size /\ ret' = 0 /\ UNCHANGED errno
  <2>1. Comes(Contract!Delivered)
    BY <1>1, <1>2, <1>3, <1>5 DEF Comes, Contract!Delivered
  <2> QED
    BY <2>1, OutcomeStep
<1>6. ASSUME NEW n \in ShortWrites, n < frame.size, sent' = n, ret' = -1, errno' = "EIO"
      PROVE  Contract!Next
  <2>1. CASE n = 0
    <3>1. Comes(Contract!Rejected("EIO"))
      BY <1>1, <1>2, <1>3, <1>4, <1>6, <2>1 DEF Comes, Contract!Rejected
    <3> QED
      BY <3>1, OutcomeStep
  <2>2. CASE n # 0
    <3>1. Contract!Torn # Contract!Delivered
      BY DEF Contract!Torn, Contract!Delivered
    <3>2. Comes(Contract!Torn)
      BY <1>1, <1>2, <1>3, <1>6, <2>2, <3>1 DEF Comes, Contract!Torn
    <3> QED
      BY <3>2, OutcomeStep
  <2> QED
    BY <2>1, <2>2
<1>7. ASSUME NEW e \in WriteErrnos, errno' = e, ret' = -1, UNCHANGED sent
      PROVE  Contract!Next
  <2>1. Comes(Contract!Rejected(e))
    BY <1>1, <1>2, <1>3, <1>4, <1>7 DEF Comes, Contract!Rejected
  <2> QED
    BY <2>1, OutcomeStep
<1> QED
  BY <1>5, <1>6, <1>7 DEF WriteFrame

\* Every rsi_respond_* call keeps the contract of response.h, through any pattern
\* of failed allocations and any result of write(2): the errno tells the cause, a
\* call that breaks a rule never reaches write(2), one that breaks none is kept
\* from it by memory or its length alone, and 0 means a whole frame for a valid
\* call.
LEMMA ContractKept == Spec /\ []Decides(call) => KeepsContract
<1>1. Init => Contract!Init
  BY DEF Init, Contract!Init
<1>2. IInv /\ Decides(call) /\ ProgressInv /\ ProgressInv' /\ [Next]_vars
        => [Contract!Next]_(Contract!vars)
  <2> SUFFICES ASSUME IInv, Decides(call), ProgressInv, ProgressInv', [Next]_vars
               PROVE  [Contract!Next]_(Contract!vars)
    OBVIOUS
  <2>1. CASE Raw \/ EndOfSteps \/ BuildStatusFrame
    <3>1. pc # "returned" /\ pc' # "returned" /\ UNCHANGED call
      BY <2>1 DEF Raw, At, Advance, EndOfSteps, BuildStatusFrame
    <3> QED
      BY <3>1, QuietStep
  <2>2. CASE UNCHANGED vars
    BY <2>2 DEF vars, Contract!vars
  <2> QED
    BY <2>1, <2>2, RequireStep, AllocateStep, FinishStep, WriteStep DEF Next
<1> QED
  BY <1>1, <1>2, Inductive, InitProgress, NextProgress, PTL
     DEF Spec, KeepsContract, Contract!Spec

-----------------------------------------------------------------------------
\* The first n - 1 steps of c, and what the buffer b holds of them: h gives, for
\* each, the place in the buffer after it.
Follow(h, c, b, n) ==
    /\ h \in [0..(n - 1) -> 1..(Len(b) + 1)] /\ h[0] = 1 /\ h[n - 1] = Len(b) + 1
    /\ \A i \in 1..(n - 1) : IF c.steps[i].kind = "emit"
                             THEN h[i] = h[i - 1] + 1 /\ h[i - 1] \in 1..Len(b) /\ b[h[i - 1]] = i
                             ELSE h[i] = h[i - 1]

\* While no allocation has failed, the buffer holds the fields of the steps so
\* far, one after the other.
FollowInv == ~oom => \E h : Follow(h, call, buf, next)

\* At first there are none.
LEMMA InitFollow == Init => FollowInv
<1> SUFFICES ASSUME Init PROVE FollowInv
  OBVIOUS
<1>1. next = 1 /\ buf = <<>>
  BY DEF Init
<1>2. PICK h : h = [i \in {0} |-> 1]
  BY Zenon
<1>3. 0..(next - 1) = {0} /\ Len(buf) + 1 = 1 /\ next - 1 = 0 /\ 1..0 = {}
  BY <1>1
<1>4. h \in [0..(next - 1) -> 1..(Len(buf) + 1)]
  BY <1>2, <1>3
<1>5. h[0] = 1
  BY <1>2
<1>6. Follow(h, call, buf, next)
  BY <1>3, <1>4, <1>5, Zenon DEF Follow
<1> QED
  BY <1>6, Zenon DEF FollowInv

\* Step n appends its field, or appends nothing and is no field.
LEMMA FollowOn ==
    ASSUME NEW n \in Nat \ {0}, NEW c, NEW b \in Seq(Nat), NEW d \in Seq(Nat), NEW h, Follow(h, c, b, n),
           IF c.steps[n].kind = "emit" THEN d = Append(b, n) ELSE d = b
    PROVE  \E g : Follow(g, c, d, n + 1)
<1>1. PICK m \in Nat : m = Len(b)
  OBVIOUS
<1>2. PICK k \in Nat : k = Len(d)
  OBVIOUS
<1>3. m <= k /\ \A i \in 1..m : d[i] = b[i]
  <2>1. CASE d = b
    BY <1>1, <1>2, <2>1
  <2>2. CASE d = Append(b, n)
    BY <1>1, <1>2, <2>2
  <2> QED
    BY <2>1, <2>2
<1>4. IF c.steps[n].kind = "emit" THEN k = m + 1 /\ d[m + 1] = n ELSE k = m
  BY <1>1, <1>2
<1>5. PICK g : g = [i \in 0..n |-> IF i = n THEN k + 1 ELSE h[i]]
  BY Zenon
<1>6. h \in [0..(n - 1) -> 1..(m + 1)] /\ h[0] = 1 /\ h[n - 1] = m + 1
  BY <1>1 DEF Follow
<1>7. ASSUME NEW i \in 0..(n - 1) PROVE g[i] = h[i] /\ h[i] \in 1..(k + 1)
  <2>1. i \in 0..n /\ i # n
    OBVIOUS
  <2>2. h[i] \in 1..(m + 1)
    BY <1>6
  <2> QED
    BY <1>3, <1>5, <2>1, <2>2
<1>8. g[n] = k + 1
  BY <1>5
<1>9. g \in [0..n -> 1..(k + 1)]
  <2>1. ASSUME NEW i \in 0..n PROVE (IF i = n THEN k + 1 ELSE h[i]) \in 1..(k + 1)
    <3>1. i = n \/ i \in 0..(n - 1)
      OBVIOUS
    <3> QED
      BY <1>7, <3>1
  <2> QED
    BY <1>5, <2>1, Zenon
<1>10. g[0] = 1
  BY <1>6, <1>7
<1>11. ASSUME NEW i \in 1..n
       PROVE  IF c.steps[i].kind = "emit"
              THEN g[i] = g[i - 1] + 1 /\ g[i - 1] \in 1..k /\ d[g[i - 1]] = i
              ELSE g[i] = g[i - 1]
  <2>1. i - 1 \in 0..(n - 1) /\ g[i - 1] = h[i - 1]
    BY <1>7
  <2>2. CASE i = n
    <3>1. g[i] = k + 1 /\ g[i - 1] = m + 1
      BY <1>6, <1>8, <2>1, <2>2
    <3> QED
      BY <1>4, <2>2, <3>1
  <2>3. CASE i # n
    <3>1. i \in 0..(n - 1) /\ i \in 1..(n - 1)
      BY <2>3
    <3>2. g[i] = h[i]
      BY <1>7, <3>1
    <3>3. IF c.steps[i].kind = "emit" THEN h[i] = h[i - 1] + 1 /\ h[i - 1] \in 1..m /\ b[h[i - 1]] = i
          ELSE h[i] = h[i - 1]
      BY <1>1, <3>1, Zenon DEF Follow
    <3>4. \A x \in 1..m : x \in 1..k
      BY <1>3
    <3> QED
      BY <1>3, <2>1, <3>2, <3>3, <3>4, Zenon
  <2> QED
    BY <2>2, <2>3
<1>12. (n + 1) - 1 = n
  OBVIOUS
<1>13. Follow(g, c, d, n + 1)
  BY <1>2, <1>8, <1>9, <1>10, <1>11, <1>12, Zenon DEF Follow
<1> QED
  BY <1>13, Zenon

\* A step that moves on keeps it, if it appends what it should or fails.
LEMMA AdvanceFollow ==
    ASSUME IInv, IInv', FollowInv, Advance,
           ~oom' => ~oom /\ IF Step.kind = "emit" THEN buf' = Append(buf, next) ELSE buf' = buf
    PROVE  FollowInv'
<1> SUFFICES ASSUME ~oom' PROVE \E h : Follow(h, call', buf', next')
  BY Zenon DEF FollowInv
<1>1. call' = call /\ next' = next + 1 /\ ~oom
  BY Zenon DEF Advance
<1>2. next \in Nat \ {0} /\ buf \in Seq(Nat) /\ buf' \in Seq(Nat)
  BY StepFacts DEF IInv, TypeOK
<1>3. PICK h : Follow(h, call, buf, next)
  BY <1>1, Zenon DEF FollowInv
<1>4. IF call.steps[next].kind = "emit" THEN buf' = Append(buf, next) ELSE buf' = buf
  BY Zenon DEF Step
<1>5. \E g : Follow(g, call, buf', next + 1)
  BY <1>2, <1>3, <1>4, FollowOn, Zenon
<1> QED
  BY <1>1, <1>5, Zenon

\* Steps that leave the buffer alone keep it.
LEMMA IdleFollow == ASSUME FollowInv, UNCHANGED <<call, buf, next, oom>> PROVE FollowInv'
<1>1. call' = call /\ buf' = buf /\ next' = next /\ oom' = oom
  OBVIOUS
<1>2. SUFFICES ASSUME ~oom' PROVE \E h : Follow(h, call', buf', next')
  BY Zenon DEF FollowInv
<1>3. ~oom
  BY <1>1, <1>2
<1>4. PICK h : Follow(h, call, buf, next)
  BY <1>3, Zenon DEF FollowInv
<1> QED
  BY <1>1, <1>4, Zenon

\* Every step keeps it.
LEMMA NextFollow == IInv /\ IInv' /\ FollowInv /\ [Next]_vars => FollowInv'
<1> SUFFICES ASSUME IInv, IInv', FollowInv, [Next]_vars PROVE FollowInv'
  OBVIOUS
<1>1. CASE Advance /\ Step.kind # "emit" /\ UNCHANGED <<buf, oom>>
  BY <1>1, AdvanceFollow
<1>2. CASE UNCHANGED <<call, buf, next, oom>>
  BY <1>2, IdleFollow
<1>3. CASE Raw
  <2>1. Advance /\ Step.kind = "emit"
    BY <1>3 DEF Raw, At
  <2>2. ~oom' => ~oom /\ buf' = Append(buf, next)
    BY <1>3 DEF Raw
  <2> QED
    BY <2>1, <2>2, AdvanceFollow
<1>4. CASE Require \/ PushGuid \/ Collect
  <2>1. Step.kind # "emit"
    BY <1>4 DEF Require, PushGuid, Collect, At
  <2>2. (Advance /\ UNCHANGED <<buf, oom>>) \/ UNCHANGED <<call, buf, next, oom>>
    BY <1>4 DEF Require, PushGuid, Collect, FailErrno
  <2> QED
    BY <1>1, <1>2, <2>1, <2>2
<1>5. CASE EndOfSteps \/ FinishResponse \/ BuildStatusFrame \/ WriteFrame \/ UNCHANGED vars
  BY <1>2, <1>5 DEF EndOfSteps, FinishResponse, FailErrno, BuildStatusFrame, WriteFrame, vars
<1> QED
  BY <1>3, <1>4, <1>5 DEF Next
-----------------------------------------------------------------------------
\* A frame is that of a valid call, has the length the rules say, and its header
\* echoes the request.
SaysInv ==
    frame.size # 0 =>
        /\ Valid(call) /\ frame.size = FrameSize(call)
        /\ frame.request_id = call.req.request_id
        /\ frame.op_code = ResponseOp(call.req.op_code)
        /\ frame.status = IF call.helper = "rsi_respond_status" THEN call.args.status ELSE "RSI_OK"

\* At first there is no frame.
LEMMA InitSays == Init => SaysInv
  BY DEF Init, NoFrame, SaysInv

\* Only finish_response and build_status_frame make one.
LEMMA NextSays == IInv /\ IInv' /\ Decides(call) /\ ProgressInv /\ ProgressInv' /\ SaysInv /\ [Next]_vars => SaysInv'
<1> SUFFICES ASSUME IInv, IInv', Decides(call), ProgressInv, ProgressInv', SaysInv, [Next]_vars PROVE SaysInv'
  OBVIOUS
<1>1. CASE UNCHANGED <<call, frame>>
  <2>1. call' = call /\ frame' = frame
    BY <1>1
  <2> QED
    BY <2>1, Zenon DEF SaysInv
<1>2. ASSUME NEW n, NEW s, frame' = Header(n, s), pc = "finish", pc' = "write", call' = call,
             s = IF call.helper = "rsi_respond_status" THEN call.args.status ELSE "RSI_OK"
      PROVE  SaysInv'
  <2>1. Valid(call)
    BY <1>2, PastChecks
  <2>2. frame'.size = FrameSize(call')
    BY <1>2, Zenon DEF ProgressInv
  <2>3. frame'.request_id = call.req.request_id /\ frame'.op_code = ResponseOp(call.req.op_code) /\ frame'.status = s
    BY <1>2, Zenon DEF Header
  <2> QED
    BY <1>2, <2>1, <2>2, <2>3, Zenon DEF SaysInv
<1>3. CASE FinishResponse
  <2>1. CASE FailErrno(FinishError)
    BY <1>1, <2>1 DEF FailErrno
  <2>2. CASE frame' = Header(len, "RSI_OK") /\ pc' \in {"aborted", "write"} /\ call' = call
    <3>1. pc' # "aborted"
      BY DEF IInv, NoAbort
    <3> QED
      BY <1>2, <1>3, <2>2, <3>1 DEF FinishResponse
  <2> QED
    BY <1>3, <2>1, <2>2 DEF FinishResponse
<1>4. CASE BuildStatusFrame
  BY <1>2, <1>4 DEF BuildStatusFrame
<1>5. CASE Require \/ PushGuid \/ Collect \/ Raw \/ EndOfSteps \/ WriteFrame \/ UNCHANGED vars
  BY <1>1, <1>5, Zenon DEF Require, PushGuid, Collect, Raw, Advance, FailErrno, EndOfSteps, WriteFrame, vars
<1> QED
  BY <1>3, <1>4, <1>5 DEF Next

\* What holds of the frames of calls whose checks decide the rules.
LEMMA FramesFollow == Spec /\ []Decides(call) => [](IInv /\ FollowInv /\ SaysInv)
  BY Inductive, InitFollow, NextFollow, InitSays, NextSays, InitProgress, NextProgress, PTL DEF Spec
=============================================================================
