----------------------------- MODULE ServeProofs -----------------------------
(***************************************************************************)
(* Theorems about Serve, for any number of threads, requests and crashes:  *)
(* the inductive invariant, the steps that keep it (of the kernel and of   *)
(* the machine, of a thread up to its job, and those that answer a job),   *)
(* and the results.                                                        *)
(***************************************************************************)
EXTENDS Serve, TLAPS

\* Where request i is before it was handled: in the kernel's queue, or in the
\* buffer of thread t.
Queued(i)   == \E k \in 1..Len(queue) : queue[k] = i
Holds(t, i) == pc[t] \in {"parse", "handle"} /\ buf[t].request_id = i
Pending(i)  == Queued(i) \/ \E t \in Threads : Holds(t, i)

\* Thread t is answering a job.
Answers(t) == pc[t] \in {"respond", "returned"}

Open(i)   == reply[i] \in {"waiting", "lost"}
Stored(i) == [sequence |-> asked[i].sequence, request_id |-> i] \in store
Change(i) == asked[i].op_code \in ChangeOps
Stamped(i) == asked[i].op_code \in StampedOps

\* Request i stays of the kind it is.
Same(i) == (Change(i)' <=> Change(i)) /\ (Stamped(i)' <=> Stamped(i))

\* The kernel's books: it keeps a request that was made; a request that waits is
\* queued or in flight, once.
KernelInv ==
    /\ \A i \in Ids : reply[i] # "unmade" => asked[i] \in Requests /\ asked[i].request_id = i
    /\ \A k, l \in 1..Len(queue) : queue[k] = queue[l] => k = l
    /\ \A i \in Ids : Queued(i) => reply[i] = "waiting" /\ i \notin inflight
    /\ \A i \in inflight : reply[i] = "waiting"
    /\ \A i \in Ids : reply[i] = "waiting" => i \in inflight \/ Queued(i)

\* The request in the buffer of a thread that has yet to handle it is one that
\* was made and not answered, and is nowhere else.
Intact(t, i) ==
    /\ Open(i) /\ ~Queued(i)
    /\ buf[t] = asked[i]
    /\ pc[t] = "handle" => req[t] = [request_id |-> i, op_code |-> asked[i].op_code]

BufferInv ==
    /\ \A t \in Threads, i \in Ids : Holds(t, i) => Intact(t, i)
    /\ \A t, u \in Threads, i \in Ids : Holds(t, i) /\ Holds(u, i) => t = u

\* A job echoes the request it is about, which is nowhere else, and reports a
\* change as done if it was persisted and its answer is not an error instead of a
\* payload.
Faithful(j) ==
    /\ j \in Jobs /\ j.req.request_id = j.about
    /\ reply[j.about] # "unmade" /\ j.req.op_code = asked[j.about].op_code
    /\ ~Pending(j.about)
    /\ j.req.op_code \notin PayloadOps => j.result \in {"ok", "failed"}
    /\ Change(j.about) => (j.result # "failed" <=> Stored(j.about) /\ j.about \notin unsent)

JobInv ==
    /\ \A j \in jobs : Faithful(j) /\ Open(j.about)
    /\ \A j, k \in jobs : j.about = k.about => j = k

AnswerInv ==
    /\ \A t \in Threads : Answers(t) =>
          /\ Faithful(job[t])
          /\ pc[t] = "respond" \/ ret[t] # "ok" => Open(job[t].about)
          /\ \A j \in jobs : job[t].about # j.about
    /\ \A t, u \in Threads : Answers(t) /\ Answers(u) /\ job[t].about = job[u].about => t = u

\* What is persisted is what was asked, and is not pending any more.
StoreInv ==
    \A w \in store :
        /\ reply[w.request_id] # "unmade" /\ ~Pending(w.request_id)
        /\ Change(w.request_id) /\ w.sequence = asked[w.request_id].sequence

\* Nor is a request whose payload was not sent.
UnsentInv == \A i \in unsent : reply[i] # "unmade" /\ ~Pending(i)

\* The sequence numbers of pending requests are below the counter, and no other
\* change has them; while a source is registered, so are the persisted ones.
SeqInv ==
    /\ nextSeq # 0
    /\ \A i \in Ids : Pending(i) /\ ~Stamped(i) => asked[i].sequence = 0
    /\ source = "up" => \A w \in store : w.sequence < nextSeq
    /\ \A i \in Ids : Pending(i) /\ Stamped(i) =>
          /\ asked[i].sequence < nextSeq /\ asked[i].sequence # 0
          /\ \A w \in store : w.sequence # asked[i].sequence
          /\ \A j \in Ids : Pending(j) /\ Stamped(j) /\ asked[j].sequence = asked[i].sequence => i = j

\* The inductive invariant.
IInv == /\ TypeOK /\ KernelInv /\ BufferInv /\ JobInv /\ AnswerInv /\ StoreInv /\ UnsentInv /\ SeqInv
        /\ AnswerIsForRequest /\ OkMeansStored /\ SequencesUnique /\ AnsweredOnce
-----------------------------------------------------------------------------
KernelTypes == /\ source \in {"up", "down"}
               /\ asked \in [Ids -> Requests \cup {NULL}]
               /\ queue \in Seq(Ids) /\ inflight \subseteq Ids
               /\ reply \in [Ids -> {"unmade", "waiting", "lost"} \cup Statuses]
               /\ nextSeq \in Nat
               /\ about \in [Ids -> Ids \cup {NULL}]

ThreadTypes == /\ jobs \subseteq Jobs
               /\ pc \in [Threads -> {"idle", "parse", "handle", "respond", "returned"}]
               /\ buf \in [Threads -> Requests \cup {NULL}]
               /\ \A t \in Threads : pc[t] \in {"parse", "handle"} => buf[t] \in Requests
               /\ req \in [Threads -> RsiRequests \cup {Zeroed}]
               /\ job \in [Threads -> Jobs \cup {NULL}]
               /\ ret \in [Threads -> {"none", "ok", "short"} \cup Errnos]

OtherTypes == /\ store \subseteq [sequence : Nat, request_id : Ids]
              /\ exhausted \in BOOLEAN /\ unsent \subseteq Ids
              /\ crashes \in 0..MaxCrashes

\* The type invariant in three parts.
LEMMA Types == TypeOK <=> KernelTypes /\ ThreadTypes /\ OtherTypes
  BY DEF TypeOK, KernelTypes, ThreadTypes, OtherTypes

\* What a response call comes to with memory or without is an outcome of its
\* contract: only a helper that allocates is left without.
LEMMA PossibleKeepsContract ==
    ASSUME NEW t, NEW f PROVE Possible(t, f) \subseteq O!Outcomes(Call(t))
<1> DEFINE c == Call(t)
<1>1. CASE exhausted /\ Allocates(c)
  <2>1. O!Refused("ENOMEM") \in O!Outcomes(c)
    BY <1>1 DEF Allocates, O!Outcomes
  <2>2. ~Obeys(c) => O!Refused("EINVAL") \in O!Outcomes(c)
    BY DEF O!Outcomes
  <2> QED
    BY <1>1, <2>1, <2>2 DEF Possible
<1>2. CASE ~(exhausted /\ Allocates(c))
  BY <1>2 DEF Possible
<1> QED
  BY <1>1, <1>2

\* What write(2) makes of a frame: it is taken whole only if it is accepted, and
\* refused with EINVAL only if it is not.
LEMMA WrittenFacts ==
    ASSUME NEW f, NEW o \in Written(f)
    PROVE  /\ o.errno \in {"none", "EINVAL", "EIO", "EINTR"}
           /\ o.got = "whole" <=> o.errno = "none"
           /\ o.got = "whole" => Accepts(f)
           /\ o.errno = "EINVAL" => ~Accepts(f)
  BY DEF Written, O!Delivered, O!Rejected, O!Torn

\* What a response call comes to: the same, or a refusal that EINVAL gives to calls
\* that break a rule.
LEMMA PossibleFacts ==
    ASSUME NEW t, NEW f, NEW o \in Possible(t, f)
    PROVE  /\ o.errno \in {"none"} \cup Errnos
           /\ o.got = "whole" <=> o.errno = "none"
           /\ o.got = "whole" => Accepts(f)
           /\ o.errno = "EINVAL" /\ Obeys(Call(t)) => ~Accepts(f)
<1>1. CASE o \in Written(f)
  BY <1>1, WrittenFacts DEF Errnos
<1>2. CASE o \notin Written(f)
  <2>1. o.got = "unwritten"
    BY <1>2 DEF Possible, O!Refused
  <2>2. o \in O!Outcomes(Call(t))
    BY PossibleKeepsContract
  <2>3. /\ o.errno \in {"ENOMEM", "EINVAL", "EOVERFLOW"}
        /\ o.errno = "EINVAL" => ~Obeys(Call(t))
    BY <2>1, <2>2 DEF O!Outcomes, O!Refused, O!Rejected, O!Torn, O!Delivered
  <2> QED
    BY <2>1, <2>3 DEF Errnos
<1> QED
  BY <1>1, <1>2

\* The queue when a request is added at its end.
LEMMA QueueAppend ==
    ASSUME queue \in Seq(Ids), NEW i \in Ids, queue' = Append(queue, i)
    PROVE  \A j \in Ids : Queued(j)' <=> Queued(j) \/ j = i
<1>1. /\ Len(queue') = Len(queue) + 1
      /\ \A k \in 1..Len(queue) : queue'[k] = queue[k]
      /\ queue'[Len(queue) + 1] = i
  OBVIOUS
<1>2. \A k \in 1..Len(queue') : k \in 1..Len(queue) \/ k = Len(queue) + 1
  BY <1>1
<1> QED
  BY <1>1, <1>2 DEF Queued

\* The queue when its first request is taken.
LEMMA QueueTail ==
    ASSUME queue \in Seq(Ids), queue # <<>>, queue' = Tail(queue),
           \A k, l \in 1..Len(queue) : queue[k] = queue[l] => k = l
    PROVE  /\ Head(queue) \in Ids /\ Queued(Head(queue))
           /\ \A j \in Ids : Queued(j)' <=> Queued(j) /\ j # Head(queue)
           /\ (\A k, l \in 1..Len(queue) : queue[k] = queue[l] => k = l)'
<1>1. /\ Len(queue) \in Nat /\ Len(queue) >= 1 /\ Len(queue') = Len(queue) - 1
      /\ \A k \in 1..Len(queue') : queue'[k] = queue[k + 1]
      /\ Head(queue) = queue[1] /\ queue[1] \in Ids
  OBVIOUS
<1>2. Head(queue) \in Ids /\ Queued(Head(queue))
  BY <1>1 DEF Queued
<1>3. ASSUME NEW j \in Ids PROVE Queued(j)' <=> Queued(j) /\ j # Head(queue)
  <2>1. ASSUME NEW k \in 1..Len(queue'), queue'[k] = j PROVE Queued(j) /\ j # Head(queue)
    <3>1. k + 1 \in 1..Len(queue) /\ queue[k + 1] = j /\ k + 1 # 1 /\ 1 \in 1..Len(queue)
      BY <1>1, <2>1
    <3> QED
      BY <1>1, <3>1 DEF Queued
  <2>2. ASSUME NEW k \in 1..Len(queue), queue[k] = j, j # Head(queue) PROVE Queued(j)'
    <3>1. k - 1 \in 1..Len(queue') /\ queue'[k - 1] = j
      BY <1>1, <2>2
    <3> QED
      BY <3>1, Zenon DEF Queued
  <2> QED
    BY <2>1, <2>2 DEF Queued
<1>4. (\A k, l \in 1..Len(queue) : queue[k] = queue[l] => k = l)'
  <2> SUFFICES ASSUME NEW k \in 1..Len(queue'), NEW l \in 1..Len(queue'), queue'[k] = queue'[l]
               PROVE  k = l
    OBVIOUS
  <2>1. k + 1 \in 1..Len(queue) /\ l + 1 \in 1..Len(queue) /\ queue[k + 1] = queue[l + 1]
    BY <1>1
  <2> QED
    BY <2>1
<1> QED
  BY <1>2, <1>3, <1>4

\* A job stays faithful when its request is left alone.
LEMMA FaithfulStep ==
    ASSUME NEW j, Faithful(j), reply'[j.about] # "unmade", asked'[j.about] = asked[j.about],
           Pending(j.about)' => Pending(j.about), Stored(j.about)' <=> Stored(j.about),
           j.about \in unsent' <=> j.about \in unsent
    PROVE  Faithful(j)'
  BY DEF Faithful, Change

\* The requests that threads hold, when threads are left alone.
LEMMA SameHolds ==
    ASSUME UNCHANGED <<pc, buf>>
    PROVE  \A t \in Threads : (\A j \in Ids : Holds(t, j)' <=> Holds(t, j)) /\ (Answers(t)' <=> Answers(t))
  BY DEF Holds, Answers

\* The buffers stay in order when no thread gets a request and none is touched.
LEMMA BufferStep ==
    ASSUME BufferInv,
           \A t \in Threads, i \in Ids : Holds(t, i)' =>
              /\ Holds(t, i) /\ Open(i)' /\ ~Queued(i)' /\ asked'[i] = asked[i]
              /\ pc'[t] = pc[t] /\ buf'[t] = buf[t] /\ req'[t] = req[t]
    PROVE  BufferInv'
<1>1. ASSUME NEW t \in Threads, NEW i \in Ids, Holds(t, i)' PROVE Intact(t, i)'
  <2>1. Intact(t, i)
    BY <1>1 DEF BufferInv
  <2> QED
    BY <1>1, <2>1 DEF Intact
<1>2. ASSUME NEW t \in Threads, NEW u \in Threads, NEW i \in Ids, Holds(t, i)', Holds(u, i)'
      PROVE  t = u
  BY <1>2 DEF BufferInv
<1> QED
  BY <1>1, <1>2 DEF BufferInv

\* A pending request was made, and is not answered.
LEMMA PendingFacts ==
    ASSUME KernelInv, BufferInv, NEW i \in Ids, Pending(i)
    PROVE  Open(i) /\ asked[i] \in Requests /\ asked[i].sequence \in Nat
<1>1. Open(i)
  <2>1. CASE Queued(i)
    BY <2>1 DEF KernelInv, Open
  <2>2. ASSUME NEW t \in Threads, Holds(t, i) PROVE Open(i)
    BY <2>2, Zenon DEF BufferInv, Intact
  <2> QED
    BY <2>1, <2>2 DEF Pending
<1>2. asked[i] \in Requests
  BY <1>1 DEF KernelInv, Open
<1> QED
  BY <1>1, <1>2 DEF Requests

\* The store stays in order when it is left alone and nothing new is pending.
LEMMA StoreStep ==
    ASSUME TypeOK, StoreInv, UNCHANGED <<store, asked>>,
           \A j \in Ids : (reply'[j] = "unmade" => reply[j] = "unmade") /\ (Pending(j)' => Pending(j))
    PROVE  StoreInv'
<1> SUFFICES ASSUME NEW w \in store
             PROVE  /\ reply'[w.request_id] # "unmade" /\ ~Pending(w.request_id)'
                    /\ Change(w.request_id)' /\ w.sequence = asked'[w.request_id].sequence
  BY DEF StoreInv
<1>1. w.request_id \in Ids
  BY DEF TypeOK
<1> QED
  BY <1>1, Zenon DEF StoreInv, Change

\* So do the requests whose payload was not sent.
LEMMA UnsentStep ==
    ASSUME TypeOK, UnsentInv, UNCHANGED unsent,
           \A j \in Ids : (reply'[j] = "unmade" => reply[j] = "unmade") /\ (Pending(j)' => Pending(j))
    PROVE  UnsentInv'
<1>1. \A j \in unsent : j \in Ids
  BY DEF TypeOK
<1> QED
  BY <1>1, Zenon DEF UnsentInv

\* Nothing was asked at first.
LEMMA InitIInv == Init => IInv
<1> SUFFICES ASSUME Init PROVE IInv
  OBVIOUS
<1>1. TypeOK
  <2>1. KernelTypes
    BY DEF Init, KernelTypes
  <2>2. ThreadTypes
    BY DEF Init, ThreadTypes, Each
  <2>3. OtherTypes
    <3>1. store = {} /\ unsent = {} /\ crashes \in 0..MaxCrashes
      BY IdAssumption DEF Init
    <3>2. exhausted \in BOOLEAN
      BY Zenon DEF Init
    <3> QED
      BY <3>1, <3>2 DEF OtherTypes
  <2> QED
    BY <2>1, <2>2, <2>3, Types
<1>2. /\ \A i \in Ids : ~Queued(i)
      /\ \A t \in Threads : ~Answers(t) /\ \A i \in Ids : ~Holds(t, i)
  BY DEF Init, Queued, Answers, Holds, Each
<1>3. KernelInv
  BY <1>2 DEF Init, KernelInv
<1>4. BufferInv /\ JobInv /\ AnswerInv /\ StoreInv /\ UnsentInv
  BY <1>2, Zenon DEF Init, BufferInv, JobInv, AnswerInv, StoreInv, UnsentInv
<1>5. SeqInv /\ SequencesUnique
  BY <1>2 DEF Init, SeqInv, Pending, SequencesUnique
<1>6. AnswerIsForRequest /\ OkMeansStored /\ AnsweredOnce
  BY DEF Init, AnswerIsForRequest, OkMeansStored, AnsweredOnce, Answered, Statuses, Each
<1> QED
  BY <1>1, <1>3, <1>4, <1>5, <1>6 DEF IInv

\* A new request is in the queue only, and a number it is stamped with is its own.
LEMMA SubmitKeeps == ASSUME IInv, NEW i \in Ids, NEW op \in Ops, Submit(i, op) PROVE IInv'
<1> USE DEF IInv
<1>1. TypeOK'
  <2>1. [request_id |-> i, op_code |-> op, sequence |-> IF op \in StampedOps THEN nextSeq ELSE 0]
           \in Requests
    BY DEF Requests, TypeOK
  <2>2. KernelTypes'
    BY <2>1, Types DEF Submit, KernelTypes
  <2>3. ThreadTypes' /\ OtherTypes'
    BY Types DEF Submit, process, ThreadTypes, OtherTypes
  <2> QED
    BY <2>2, <2>3, Types, Zenon DEF TypeOK, KernelTypes, ThreadTypes, OtherTypes
<1>2. /\ reply[i] = "unmade" /\ reply'[i] = "waiting"
      /\ asked'[i] \in Requests /\ asked'[i].request_id = i
      /\ \A j \in Ids : j # i => asked'[j] = asked[j] /\ reply'[j] = reply[j]
      /\ UNCHANGED <<inflight, store, process, about, unsent>>
      /\ Stamped(i)' => asked'[i].sequence = nextSeq /\ nextSeq' = nextSeq + 1
      /\ ~Stamped(i)' => asked'[i].sequence = 0
      /\ nextSeq' >= nextSeq /\ source = "up" /\ UNCHANGED source
  BY DEF Submit, TypeOK, Requests, Stamped
<1>3. \A j \in Ids : Queued(j)' <=> Queued(j) \/ j = i
  BY QueueAppend, Zenon DEF Submit, TypeOK
<1>4. ~Queued(i) /\ \A t \in Threads : ~Holds(t, i)
  <2>1. ~Pending(i)
    BY <1>2, PendingFacts DEF Open
  <2> QED
    BY <2>1 DEF Pending
<1>5. \A t \in Threads : (\A j \in Ids : Holds(t, j)' <=> Holds(t, j)) /\ (Answers(t)' <=> Answers(t))
  BY <1>2, SameHolds DEF process
<1>6. \A j \in Ids : Pending(j)' <=> Pending(j) \/ j = i
  BY <1>3, <1>5 DEF Pending
<1>7. \A j \in Ids : j # i =>
          (Open(j)' <=> Open(j)) /\ (Stored(j)' <=> Stored(j)) /\ Same(j)
  BY <1>2, Zenon DEF Open, Stored, Same, Change, Stamped
<1>8. KernelInv'
  <2>1. (\A k, l \in 1..Len(queue) : queue[k] = queue[l] => k = l)'
    <3>1. /\ Len(queue) \in Nat /\ Len(queue') = Len(queue) + 1 /\ queue'[Len(queue) + 1] = i
          /\ \A k \in 1..Len(queue) : queue'[k] = queue[k] /\ queue[k] # i
      BY <1>4 DEF Submit, TypeOK, Queued
    <3>2. \A k \in 1..Len(queue') : k \in 1..Len(queue) \/ k = Len(queue) + 1
      BY <3>1
    <3> QED
      BY <3>1, <3>2 DEF KernelInv
  <2>2. (\A j \in Ids : Queued(j) => reply[j] = "waiting" /\ j \notin inflight)'
    BY <1>2, <1>3 DEF KernelInv
  <2> QED
    BY <1>2, <1>3, <2>1, <2>2 DEF KernelInv, TypeOK
<1>9. BufferInv'
  <2>1. UNCHANGED <<pc, buf, req>>
    BY <1>2 DEF process
  <2>2. \A t \in Threads, j \in Ids : Holds(t, j) => j # i /\ Open(j) /\ ~Queued(j)
    BY <1>4, Zenon DEF BufferInv, Intact
  <2> QED
    BY <1>2, <1>3, <1>5, <1>7, <2>1, <2>2, BufferStep
<1>10. \A j : Faithful(j) => j.about \in Ids /\ j.about # i /\ Faithful(j)'
  <2> SUFFICES ASSUME NEW j, Faithful(j) PROVE j.about \in Ids /\ j.about # i /\ Faithful(j)'
    OBVIOUS
  <2>1. j.about \in Ids /\ j.about # i
    BY <1>2 DEF Faithful, Jobs
  <2>2. reply'[j.about] # "unmade"
    BY <2>1, <1>2, Zenon DEF Faithful
  <2> QED
    BY <2>1, <2>2, <1>2, <1>6, <1>7, FaithfulStep, Zenon
<1>11. JobInv'
  BY <1>2, <1>7, <1>10, Zenon DEF JobInv, process
<1>12. AnswerInv'
  BY <1>2, <1>5, <1>7, <1>10, Zenon DEF AnswerInv, process
<1>13. StoreInv'
  <2>1. \A w \in store : w.request_id \in Ids /\ w.request_id # i
    BY <1>2 DEF StoreInv, TypeOK
  <2>2. \A w \in store : ~Pending(w.request_id)' /\ Change(w.request_id)'
    BY <1>6, <1>7, <2>1 DEF StoreInv, Same
  <2> QED
    BY <1>2, <2>1, <2>2 DEF StoreInv
<1>17. UnsentInv'
  <2>1. \A j \in unsent : j \in Ids /\ j # i /\ reply[j] # "unmade" /\ ~Pending(j)
    BY <1>2 DEF UnsentInv, TypeOK
  <2> QED
    BY <1>2, <1>6, <2>1 DEF UnsentInv
<1>14. SeqInv' /\ SequencesUnique'
  <2>1. \A w \in store : w.sequence \in Nat /\ w.sequence < nextSeq
    BY <1>2 DEF SeqInv, TypeOK
  <2>2. \A j \in Ids : Pending(j) => asked[j].sequence \in Nat /\ j # i
    BY <1>4, PendingFacts, Zenon DEF Pending
  <2>3. nextSeq \in Nat /\ nextSeq' \in Nat
    BY <1>1 DEF TypeOK
  <2>4. (source = "up" => \A w \in store : w.sequence < nextSeq)'
    BY <1>2, <2>1, <2>3
  <2>5. ASSUME NEW j \in Ids, Pending(j)', Stamped(j)'
        PROVE  /\ asked'[j].sequence < nextSeq' /\ asked'[j].sequence # 0
               /\ \A w \in store : w.sequence # asked'[j].sequence
    <3>1. CASE j = i
      BY <1>2, <2>1, <2>3, <2>5, <3>1 DEF SeqInv
    <3>2. CASE j # i
      <4>1. Pending(j) /\ Stamped(j) /\ asked'[j] = asked[j]
        BY <1>2, <1>6, <1>7, <2>5, <3>2 DEF Same
      <4>2. asked[j].sequence < nextSeq /\ asked[j].sequence # 0 /\ \A w \in store : w.sequence # asked[j].sequence
        BY <4>1 DEF SeqInv
      <4> QED
        BY <1>2, <2>2, <2>3, <4>1, <4>2
    <3> QED
      BY <3>1, <3>2
  <2>6. ASSUME NEW j \in Ids, NEW k \in Ids, Pending(j)', Stamped(j)', Pending(k)', Stamped(k)',
               asked'[j].sequence = asked'[k].sequence
        PROVE  j = k
    <3>1. ASSUME NEW l \in Ids, Pending(l)', Stamped(l)', l # i
          PROVE  asked'[l].sequence < nextSeq /\ asked'[l].sequence \in Nat
      BY <1>2, <1>6, <1>7, <2>2, <3>1 DEF SeqInv, Same
    <3>2. CASE j # i /\ k # i
      BY <1>2, <1>6, <1>7, <2>6, <3>2 DEF SeqInv, Same
    <3> QED
      BY <1>2, <2>3, <2>6, <3>1, <3>2
  <2>7. nextSeq' # 0
    BY <1>2, <2>3 DEF SeqInv
  <2>8. ASSUME NEW j \in Ids, Pending(j)', ~Stamped(j)' PROVE asked'[j].sequence = 0
    BY <1>2, <1>6, <1>7, <2>8, Zenon DEF SeqInv, Same
  <2> QED
    BY <1>2, <2>4, <2>5, <2>6, <2>7, <2>8 DEF SeqInv, SequencesUnique
<1>15. AnswerIsForRequest' /\ OkMeansStored'
  BY <1>2, <1>7 DEF AnswerIsForRequest, OkMeansStored, Answered, Statuses, Stored, Same, Change
<1>16. AnsweredOnce'
  <2>1. \A t \in Threads : pc[t] = "returned" => job[t].about \in Ids /\ job[t].about # i
    BY <1>10 DEF AnswerInv, Answers
  <2> QED
    BY <1>2, <2>1, Zenon DEF AnsweredOnce, process, Call, HasPayload
<1> QED
  BY <1>1, <1>8, <1>9, <1>11, <1>12, <1>13, <1>14, <1>15, <1>16, <1>17

\* What losing the source does to the kernel's books: nothing waits any more.
LEMMA ClosedKeeps ==
    ASSUME IInv, Closed
    PROVE  /\ \A j \in Ids : ~Queued(j)' /\ reply'[j] # "waiting"
           /\ \A j \in Ids : Open(j)' <=> Open(j)
           /\ \A j \in Ids : (reply'[j] = "unmade" <=> reply[j] = "unmade") /\ (Answered(j)' <=> Answered(j))
           /\ \A j \in Ids : (Answered(j) => reply'[j] = reply[j]) /\ (reply[j] = "lost" => reply'[j] = "lost")
           /\ UNCHANGED <<asked, store, about, unsent>>
           /\ KernelInv' /\ AnswerIsForRequest' /\ OkMeansStored' /\ SequencesUnique'
<1> USE DEF IInv
<1>1. /\ \A j \in Ids : ~Queued(j)' /\ reply'[j] # "waiting"
      /\ \A j \in Ids : Open(j)' <=> Open(j)
      /\ \A j \in Ids : (reply'[j] = "unmade" <=> reply[j] = "unmade") /\ (Answered(j)' <=> Answered(j))
      /\ \A j \in Ids : (Answered(j) => reply'[j] = reply[j]) /\ (reply[j] = "lost" => reply'[j] = "lost")
      /\ UNCHANGED <<asked, store, about, unsent>>
  BY DEF Closed, TypeOK, Queued, Open, Answered, Statuses
<1>2. KernelInv'
  <2>1. queue' = <<>> /\ inflight' = {}
    BY DEF Closed
  <2>2. \A j \in Ids : reply'[j] # "unmade" => asked'[j] \in Requests /\ asked'[j].request_id = j
    BY <1>1, Zenon DEF KernelInv
  <2>3. (\A k, l \in 1..Len(queue) : queue[k] = queue[l] => k = l)'
    BY <2>1
  <2> QED
    BY <1>1, <2>1, <2>2, <2>3, Zenon DEF KernelInv
<1>3. AnswerIsForRequest' /\ OkMeansStored' /\ SequencesUnique'
  BY <1>1 DEF AnswerIsForRequest, OkMeansStored, SequencesUnique
<1> QED
  BY <1>1, <1>2, <1>3, Zenon

\* ... and to the types of the kernel's variables.
LEMMA ClosedTypes == ASSUME TypeOK, Closed, nextSeq' \in Nat PROVE KernelTypes' /\ OtherTypes'
<1>1. KernelTypes'
  BY DEF TypeOK, Closed, KernelTypes
<1>2. crashes' \in 0..MaxCrashes
  BY IdAssumption DEF TypeOK, Closed
<1> QED
  BY <1>1, <1>2 DEF TypeOK, Closed, OtherTypes

\* Closing the source fd leaves the threads with requests that are lost.
LEMMA CloseKeeps == ASSUME IInv, Close PROVE IInv'
<1> USE DEF IInv
<1>0. Closed /\ UNCHANGED <<nextSeq, process>> /\ source' = "down"
  BY DEF Close, Closed
<1>1. TypeOK'
  <2>1. KernelTypes' /\ OtherTypes'
    BY <1>0, ClosedTypes DEF TypeOK
  <2>2. ThreadTypes'
    BY <1>0, Types DEF process, ThreadTypes
  <2> QED
    BY <2>1, <2>2 DEF TypeOK, KernelTypes, ThreadTypes, OtherTypes
<1>2. \A t \in Threads : (\A j \in Ids : Holds(t, j)' <=> Holds(t, j)) /\ (Answers(t)' <=> Answers(t))
  BY <1>0, SameHolds DEF process
<1>3. \A j \in Ids : /\ Pending(j)' => Pending(j)
                     /\ (Stored(j)' <=> Stored(j)) /\ Same(j)
  <2>1. UNCHANGED <<asked, store>> /\ \A j \in Ids : ~Queued(j)'
    BY <1>0, ClosedKeeps, Zenon
  <2>2. \A j \in Ids : Pending(j)' => Pending(j)
    BY <1>2, <2>1, Zenon DEF Pending
  <2> QED
    BY <2>1, <2>2 DEF Stored, Same, Change, Stamped
<1>4. BufferInv'
  <2>1. UNCHANGED <<pc, buf, req>>
    BY <1>0 DEF process
  <2>2. \A t \in Threads, j \in Ids : Holds(t, j) => Open(j)
    BY Zenon DEF BufferInv, Intact
  <2> QED
    BY <1>0, <1>2, <2>1, <2>2, ClosedKeeps, BufferStep
<1>5. \A j : Faithful(j) => j.about \in Ids /\ Faithful(j)'
  BY <1>0, <1>3, ClosedKeeps, FaithfulStep, Zenon DEF Faithful, Jobs
<1>6. JobInv'
  BY <1>0, <1>5, ClosedKeeps, Zenon DEF JobInv, process
<1>7. AnswerInv'
  BY <1>0, <1>2, <1>5, ClosedKeeps, Zenon DEF AnswerInv, process
<1>8. StoreInv' /\ UnsentInv'
  BY <1>0, <1>3, ClosedKeeps, StoreStep, UnsentStep
<1>9. SeqInv'
  BY <1>0, <1>3, ClosedKeeps, Zenon DEF SeqInv, Same
<1>10. AnsweredOnce'
  <2>1. \A t \in Threads : pc[t] = "returned" => job[t].about \in Ids
    BY <1>5 DEF AnswerInv, Answers
  <2> QED
    BY <1>0, <2>1, ClosedKeeps, Zenon DEF AnsweredOnce, process, Call, HasPayload
<1> QED
  BY <1>0, <1>1, <1>4, <1>6, <1>7, <1>8, <1>9, <1>10, ClosedKeeps

\* A crash leaves nothing pending, so the kernel's counter may start over.
LEMMA CrashKeeps == ASSUME IInv, Crash PROVE IInv'
<1> USE DEF IInv
<1>0. /\ Closed /\ nextSeq' \in {nextSeq, 1} /\ source' = "down"
      /\ jobs' = {} /\ pc' = Each("idle") /\ buf' = Each(NULL)
      /\ req' = Each(Zeroed) /\ job' = Each(NULL) /\ ret' = Each("none")
  BY DEF Crash, Closed
<1>1. TypeOK'
  <2>1. nextSeq' \in Nat
    BY <1>0 DEF TypeOK
  <2>2. KernelTypes' /\ OtherTypes'
    BY <1>0, <2>1, ClosedTypes
  <2>3. ThreadTypes'
    BY <1>0 DEF Each, ThreadTypes
  <2> QED
    BY <2>2, <2>3 DEF TypeOK, KernelTypes, ThreadTypes, OtherTypes
<1>2. \A t \in Threads : ~Answers(t)' /\ \A j \in Ids : ~Holds(t, j)'
  BY <1>0 DEF Each, Answers, Holds
<1>3. \A j \in Ids : ~Pending(j)'
  BY <1>0, <1>2, ClosedKeeps DEF Pending
<1>4. BufferInv' /\ JobInv' /\ AnswerInv' /\ AnsweredOnce'
  BY <1>0, <1>2, Zenon DEF BufferInv, JobInv, AnswerInv, AnsweredOnce, Answers
<1>5. StoreInv' /\ UnsentInv'
  BY <1>0, <1>3, ClosedKeeps, StoreStep, UnsentStep, Zenon
<1>6. SeqInv'
  <2>1. nextSeq # 0
    BY Zenon DEF SeqInv
  <2>2. nextSeq' # 0
    BY <1>0, <2>1
  <2> QED
    BY <1>0, <1>3, <2>2, Zenon DEF SeqInv
<1> QED
  BY <1>0, <1>1, <1>4, <1>5, <1>6, ClosedKeeps

\* What a step that leaves the kernel's books and the threads' places alone keeps.
LEMMA SameRequests ==
    ASSUME IInv, UNCHANGED <<asked, queue, inflight, reply, store, process, about, unsent>>
    PROVE  /\ KernelInv' /\ BufferInv' /\ JobInv' /\ AnswerInv' /\ StoreInv' /\ UnsentInv'
           /\ AnswerIsForRequest' /\ OkMeansStored' /\ SequencesUnique' /\ AnsweredOnce'
           /\ \A j \in Ids : (Pending(j)' <=> Pending(j)) /\ Same(j)
<1> USE DEF IInv, process
<1>0. /\ \A j \in Ids : Queued(j)' <=> Queued(j)
      /\ \A t \in Threads, j \in Ids : Holds(t, j)' <=> Holds(t, j)
  BY Zenon DEF Queued, Holds
<1>1. KernelInv' /\ BufferInv'
  <2>1. KernelInv'
    BY <1>0, Zenon DEF KernelInv
  <2>2. \A t \in Threads, j \in Ids : Holds(t, j) => Open(j) /\ ~Queued(j)
    BY Zenon DEF BufferInv, Intact
  <2>3. \A j \in Ids : Open(j)' <=> Open(j)
    BY DEF Open
  <2>4. BufferInv'
    BY <1>0, <2>2, <2>3, BufferStep
  <2> QED
    BY <2>1, <2>4
<1>2. \A j \in Ids : (Pending(j)' <=> Pending(j)) /\ Same(j)
  BY <1>0 DEF Pending, Same, Change, Stamped
<1>3. \A j : Faithful(j) => Faithful(j)'
  BY <1>2, FaithfulStep, Zenon DEF Faithful, Jobs, Stored
<1>4. JobInv' /\ AnswerInv'
  BY <1>3, Zenon DEF JobInv, AnswerInv, Open, Answers
<1>5. StoreInv' /\ UnsentInv'
  BY <1>2, StoreStep, UnsentStep
<1>6. AnswerIsForRequest' /\ OkMeansStored' /\ SequencesUnique'
  BY DEF AnswerIsForRequest, OkMeansStored, SequencesUnique, Answered
<1>7. AnsweredOnce'
  BY Zenon DEF AnsweredOnce, Call, HasPayload
<1> QED
  BY <1>1, <1>2, <1>4, <1>5, <1>6, <1>7

\* Registering brings the counter past everything persisted.
LEMMA RegisterKeeps == ASSUME IInv, Register PROVE IInv'
<1> USE DEF IInv
<1>1. UNCHANGED <<asked, queue, inflight, reply, store, process, about, unsent>>
  BY DEF Register
<1>2. PICK m \in {0} \cup { w.sequence : w \in store } :
         /\ \A w \in store : w.sequence <= m
         /\ nextSeq' = IF nextSeq > m THEN nextSeq ELSE m + 1
  BY Zenon DEF Register, register_args
<1>3. m \in Nat /\ nextSeq \in Nat /\ \A w \in store : w.sequence \in Nat
  BY <1>2 DEF TypeOK
<1>4. nextSeq' \in Nat /\ nextSeq' >= nextSeq /\ \A w \in store : w.sequence < nextSeq'
  BY <1>2, <1>3
<1>5. TypeOK'
  BY <1>4 DEF TypeOK, Register, process
<1>6. SeqInv'
  <2>1. \A j \in Ids : Pending(j) => asked[j].sequence \in Nat
    BY PendingFacts
  <2>2. \A j \in Ids : Pending(j) /\ Stamped(j) => asked[j].sequence < nextSeq'
    <3> SUFFICES ASSUME NEW j \in Ids, Pending(j), Stamped(j) PROVE asked[j].sequence < nextSeq'
      OBVIOUS
    <3>1. asked[j].sequence < nextSeq
      BY DEF SeqInv
    <3> QED
      BY <1>3, <1>4, <2>1, <3>1
  <2>3. nextSeq' # 0
    BY <1>3, <1>4 DEF SeqInv
  <2> QED
    BY <1>1, <1>4, <2>2, <2>3, SameRequests, Zenon DEF SeqInv, Same
<1> QED
  BY <1>1, <1>5, <1>6, SameRequests

\* Memory that comes or goes changes nothing else.
LEMMA MemoryKeeps == ASSUME IInv, Memory PROVE IInv'
<1> USE DEF IInv
<1>1. UNCHANGED <<kernel, store, process, about, unsent, crashes>>
  BY DEF Memory
<1>2. exhausted' \in BOOLEAN
  BY DEF Memory
<1>3. TypeOK'
  BY <1>1, <1>2 DEF TypeOK, kernel, process
<1>4. SeqInv'
  BY <1>1, SameRequests, Zenon DEF SeqInv, Same, kernel
<1> QED
  BY <1>1, <1>3, <1>4, SameRequests DEF kernel

\* Neither does a stuttering step.
LEMMA StutterKeeps == ASSUME IInv, UNCHANGED vars PROVE IInv'
<1> USE DEF IInv
<1>1. UNCHANGED <<kernel, store, process, about, unsent, crashes>> /\ UNCHANGED exhausted
  BY DEF vars
<1>2. TypeOK'
  BY <1>1 DEF TypeOK, kernel, process
<1>3. SeqInv'
  BY <1>1, SameRequests, Zenon DEF SeqInv, Same, kernel
<1> QED
  BY <1>1, <1>2, <1>3, SameRequests DEF kernel

\* What a step keeps that only moves requests between threads, whether it gives
\* up on a payload or not.
LEMMA MoveStep ==
    ASSUME IInv, UNCHANGED <<source, asked, reply, nextSeq, store, about>>,
           \A j \in Ids : Pending(j)' => Pending(j)
    PROVE  /\ StoreInv' /\ SeqInv' /\ AnswerIsForRequest' /\ SequencesUnique'
           /\ \A j : Faithful(j) /\ (j.about \in unsent' <=> j.about \in unsent) => Faithful(j)'
<1> USE DEF IInv
<1>1. StoreInv'
  BY StoreStep
<1>2. SeqInv'
  BY Zenon DEF SeqInv, Stamped
<1>3. AnswerIsForRequest' /\ SequencesUnique'
  BY DEF AnswerIsForRequest, SequencesUnique, Answered
<1>4. \A j : Faithful(j) /\ (j.about \in unsent' <=> j.about \in unsent) => Faithful(j)'
  BY FaithfulStep, Zenon DEF Faithful, Jobs, Stored
<1> QED
  BY <1>1, <1>2, <1>3, <1>4

\* What it keeps if it gives up on none.
LEMMA QuietStep ==
    ASSUME IInv, UNCHANGED <<source, asked, reply, nextSeq, store, about, unsent>>,
           \A j \in Ids : Pending(j)' => Pending(j)
    PROVE  /\ StoreInv' /\ UnsentInv' /\ SeqInv'
           /\ AnswerIsForRequest' /\ OkMeansStored' /\ SequencesUnique'
           /\ \A j : Faithful(j) => Faithful(j)'
<1>1. UnsentInv'
  BY UnsentStep DEF IInv
<1>2. OkMeansStored'
  BY DEF IInv, OkMeansStored, Answered
<1> QED
  BY <1>1, <1>2, MoveStep
-----------------------------------------------------------------------------
(* The steps that take a request from the kernel's queue to a job.        *)

\* A request that is read moves from the queue to one buffer.
LEMMA ReadKeeps == ASSUME IInv, NEW t \in Threads, Read(t) PROVE IInv'
<1> USE DEF IInv
<1> DEFINE h == Head(queue)
<1>1. /\ h \in Ids /\ Queued(h)
      /\ \A j \in Ids : Queued(j)' <=> Queued(j) /\ j # h
      /\ (\A k, l \in 1..Len(queue) : queue[k] = queue[l] => k = l)'
  BY QueueTail, Zenon DEF Read, TypeOK, KernelInv
<1>2. reply[h] = "waiting" /\ asked[h] \in Requests /\ asked[h].request_id = h
  BY <1>1, Zenon DEF KernelInv
<1> HIDE DEF h
<1>3. /\ pc[t] = "idle" /\ pc' = [pc EXCEPT ![t] = "parse"]
      /\ buf' = [buf EXCEPT ![t] = asked[h]]
      /\ inflight' = inflight \cup {h} /\ queue' = Tail(queue)
      /\ UNCHANGED <<source, asked, reply, nextSeq, store, exhausted, jobs, req, job, ret, about, unsent, crashes>>
  BY DEF Read, Goto, h
<1>4. TypeOK'
  <2>1. KernelTypes'
    <3>1. queue' \in Seq(Ids)
      BY DEF Read, TypeOK
    <3> QED
      BY <1>1, <1>3, <3>1, Types, Zenon DEF KernelTypes
  <2>2. ThreadTypes'
    BY <1>2, <1>3, Types, Zenon DEF ThreadTypes
  <2>3. OtherTypes'
    BY <1>3, Types DEF OtherTypes
  <2> QED
    BY <2>1, <2>2, <2>3 DEF TypeOK, KernelTypes, ThreadTypes, OtherTypes
<1>5. /\ \A j \in Ids : Holds(t, j)' <=> j = h
      /\ \A u \in Threads : u # t => UNCHANGED <<pc[u], buf[u]>>
      /\ \A u \in Threads, j \in Ids : u # t => (Holds(u, j)' <=> Holds(u, j))
      /\ \A u \in Threads : Answers(u)' <=> Answers(u)
  BY <1>2, <1>3 DEF TypeOK, Holds, Answers
<1>6. \A j \in Ids : Pending(j)' => Pending(j)
  BY <1>1, <1>5, Zenon DEF Pending
<1>7. KernelInv'
  <2>1. \A j \in Ids : Queued(j)' => reply'[j] = "waiting" /\ j \notin inflight'
    BY <1>1, <1>3, Zenon DEF KernelInv
  <2>2. \A j \in inflight' : reply'[j] = "waiting"
    BY <1>2, <1>3 DEF KernelInv
  <2>3. \A j \in Ids : reply'[j] = "waiting" => j \in inflight' \/ Queued(j)'
    BY <1>1, <1>3 DEF KernelInv
  <2> QED
    BY <1>1, <1>3, <2>1, <2>2, <2>3 DEF KernelInv
<1>8. BufferInv'
  <2>1. \A u \in Threads, k \in Ids : Holds(u, k) => Intact(u, k)
    BY DEF BufferInv
  <2>2. \A u \in Threads, k \in Ids : Holds(u, k) => k # h
    BY <1>1, <2>1, Zenon DEF Intact
  <2>3. ASSUME NEW u \in Threads, NEW k \in Ids, Holds(u, k)' PROVE Intact(u, k)'
    <3>1. CASE u = t
      <4>1. k = h /\ Open(k)' /\ ~Queued(k)'
        BY <1>1, <1>2, <1>3, <1>5, <2>3, <3>1, Zenon DEF Open
      <4>2. buf'[u] = asked'[k] /\ pc'[u] = "parse"
        BY <1>3, <3>1, <4>1 DEF TypeOK
      <4> QED
        BY <4>1, <4>2 DEF Intact
    <3>2. CASE u # t
      <4>1. Holds(u, k) /\ Intact(u, k) /\ pc'[u] = pc[u] /\ buf'[u] = buf[u]
        BY <1>5, <2>1, <2>3, <3>2, Zenon
      <4>2. ~Queued(k)'
        BY <1>1, <4>1, Zenon DEF Intact
      <4> QED
        BY <1>3, <4>1, <4>2, Zenon DEF Intact, Open
    <3> QED
      BY <3>1, <3>2
  <2>4. ASSUME NEW u \in Threads, NEW v \in Threads, NEW k \in Ids, Holds(u, k)', Holds(v, k)'
        PROVE  u = v
    <3>1. CASE u # t /\ v # t
      BY <1>5, <2>4, <3>1 DEF BufferInv
    <3>2. CASE u = t \/ v = t
      <4>1. k = h
        BY <1>5, <2>4, <3>2
      <4> QED
        BY <1>5, <2>2, <2>4, <4>1
    <3> QED
      BY <3>1, <3>2
  <2> QED
    BY <2>3, <2>4 DEF BufferInv
<1>9. JobInv' /\ AnswerInv'
  <2>1. JobInv'
    BY <1>3, <1>6, QuietStep, Zenon DEF JobInv, Open
  <2>2. \A u \in Threads : Answers(u)' => pc'[u] = pc[u]
    BY <1>3, <1>5 DEF TypeOK, Answers
  <2> QED
    BY <1>3, <1>5, <1>6, <2>1, <2>2, QuietStep, Zenon DEF AnswerInv, Open
<1>10. AnsweredOnce'
  <2>1. \A u \in Threads : pc'[u] = "returned" => pc[u] = "returned"
    BY <1>3 DEF TypeOK
  <2> QED
    BY <1>3, <2>1, Zenon DEF AnsweredOnce, Call, HasPayload
<1> QED
  BY <1>3, <1>4, <1>6, <1>7, <1>8, <1>9, <1>10, QuietStep

\* Parsing copies the header of the request that is in the buffer.
LEMMA ParseKeeps == ASSUME IInv, NEW t \in Threads, Parse(t) PROVE IInv'
<1> USE DEF IInv
<1> DEFINE i == buf[t].request_id
           r == [request_id |-> i, op_code |-> buf[t].op_code]
<1>1. /\ pc[t] = "parse" /\ pc' = [pc EXCEPT ![t] = "handle"]
      /\ req' = [req EXCEPT ![t] = r]
      /\ UNCHANGED <<source, asked, queue, inflight, reply, nextSeq, store, exhausted, jobs, buf, job,
                     ret, about, unsent, crashes>>
  BY Zenon DEF Parse, Goto, kernel
<1>2. buf[t] \in Requests /\ r \in RsiRequests
  BY <1>1, Zenon DEF TypeOK, Requests, RsiRequests
<1>3. TypeOK'
  <2>1. KernelTypes' /\ OtherTypes'
    BY <1>1, Types DEF KernelTypes, OtherTypes
  <2>2. ThreadTypes'
    BY <1>1, <1>2, Types DEF ThreadTypes
  <2> QED
    BY <2>1, <2>2 DEF TypeOK, KernelTypes, ThreadTypes, OtherTypes
<1>4. /\ \A j \in Ids : Queued(j)' <=> Queued(j)
      /\ \A u \in Threads, j \in Ids : Holds(u, j)' <=> Holds(u, j)
      /\ \A u \in Threads : Answers(u)' <=> Answers(u)
      /\ \A u \in Threads : u # t => UNCHANGED <<pc[u], req[u]>>
      /\ pc'[t] = "handle" /\ req'[t] = r
  BY <1>1, Zenon DEF TypeOK, Queued, Holds, Answers
<1>5. \A j \in Ids : Pending(j)' => Pending(j)
  BY <1>4, Zenon DEF Pending
<1>6. KernelInv'
  BY <1>1, <1>4, Zenon DEF KernelInv
<1>7. BufferInv'
  <2>1. ASSUME NEW u \in Threads, NEW k \in Ids, Holds(u, k)' PROVE Intact(u, k)'
    <3>1. Holds(u, k) /\ Intact(u, k)
      BY <1>4, <2>1, Zenon DEF BufferInv
    <3>2. Open(k)' /\ ~Queued(k)' /\ buf'[u] = asked'[k]
      BY <1>1, <1>4, <3>1, Zenon DEF Intact, Open
    <3>3. CASE u = t
      <4>1. k = i /\ buf[t] = asked[k] /\ asked'[k] = asked[k]
        BY <1>1, <3>1, <3>3, Zenon DEF Holds, Intact
      <4> QED
        BY <1>4, <3>2, <3>3, <4>1, Zenon DEF Intact
    <3>4. CASE u # t
      BY <1>1, <1>4, <3>1, <3>2, <3>4, Zenon DEF Intact
    <3> QED
      BY <3>3, <3>4
  <2>2. ASSUME NEW u \in Threads, NEW v \in Threads, NEW k \in Ids, Holds(u, k)', Holds(v, k)'
        PROVE  u = v
    BY <1>4, <2>2, Zenon DEF BufferInv
  <2> QED
    BY <2>1, <2>2 DEF BufferInv
<1>8. JobInv' /\ AnswerInv'
  <2>1. JobInv'
    BY <1>1, <1>5, QuietStep, Zenon DEF JobInv, Open
  <2>2. \A u \in Threads : Answers(u)' => pc'[u] = pc[u]
    BY <1>4, Zenon DEF Answers
  <2> QED
    BY <1>1, <1>4, <1>5, <2>1, <2>2, QuietStep, Zenon DEF AnswerInv, Open
<1>9. AnsweredOnce'
  <2>1. \A u \in Threads : pc'[u] = "returned" => pc[u] = "returned"
    BY <1>1, <1>4
  <2> QED
    BY <1>1, <2>1, Zenon DEF AnsweredOnce, Call, HasPayload
<1> QED
  BY <1>1, <1>3, <1>5, <1>6, <1>7, <1>8, <1>9, QuietStep

\* A job that is taken up is answered by one thread.
LEMMA TakeKeeps == ASSUME IInv, NEW t \in Threads, Take(t) PROVE IInv'
<1> USE DEF IInv
<1>1. PICK j \in jobs : job' = [job EXCEPT ![t] = j] /\ jobs' = jobs \ {j}
  BY Zenon DEF Take
<1>2. /\ pc[t] = "idle" /\ pc' = [pc EXCEPT ![t] = "respond"]
      /\ UNCHANGED <<source, asked, queue, inflight, reply, nextSeq, store, exhausted, buf, req, ret,
                     about, unsent, crashes>>
  BY DEF Take, Goto, kernel
<1>3. TypeOK'
  <2>1. KernelTypes' /\ OtherTypes'
    BY <1>2, Types DEF KernelTypes, OtherTypes
  <2>2. ThreadTypes'
    BY <1>1, <1>2, Types DEF ThreadTypes
  <2> QED
    BY <2>1, <2>2 DEF TypeOK, KernelTypes, ThreadTypes, OtherTypes
<1>4. /\ \A k \in Ids : Queued(k)' <=> Queued(k)
      /\ \A u \in Threads, k \in Ids : Holds(u, k)' <=> Holds(u, k)
      /\ \A u \in Threads : u # t => UNCHANGED <<pc[u], job[u]>> /\ (Answers(u)' <=> Answers(u))
      /\ pc'[t] = "respond" /\ job'[t] = j /\ ~Answers(t)
  BY <1>1, <1>2 DEF TypeOK, Queued, Holds, Answers
<1>5. \A k \in Ids : Pending(k)' => Pending(k)
  BY <1>4, Zenon DEF Pending
<1>6. KernelInv' /\ BufferInv'
  <2>1. KernelInv'
    BY <1>2, <1>4, Zenon DEF KernelInv
  <2>2. \A u \in Threads, k \in Ids : Holds(u, k)' => pc'[u] = pc[u]
    BY <1>4, Zenon DEF Holds
  <2>3. BufferInv'
    <3>1. \A u \in Threads, k \in Ids : Holds(u, k) => Open(k) /\ ~Queued(k)
      BY Zenon DEF BufferInv, Intact
    <3>2. \A k \in Ids : Open(k)' <=> Open(k)
      BY <1>2 DEF Open
    <3> QED
      BY <1>2, <1>4, <2>2, <3>1, <3>2, BufferStep, Zenon
  <2> QED
    BY <2>1, <2>3
<1>7. JobInv'
  BY <1>1, <1>2, <1>5, QuietStep, Zenon DEF JobInv, Open
<1>8. AnswerInv'
  <2>1. ASSUME NEW u \in Threads, Answers(u)'
        PROVE  /\ Faithful(job[u])'
               /\ pc'[u] = "respond" \/ ret'[u] # "ok" => Open(job[u].about)'
               /\ \A k \in jobs' : job'[u].about # k.about
    <3>1. CASE u = t
      <4>1. Faithful(j)' /\ Open(j.about)
        BY <1>2, <1>5, QuietStep DEF JobInv
      <4>2. \A k \in jobs' : j.about # k.about
        BY <1>1 DEF JobInv
      <4> QED
        BY <1>2, <1>4, <3>1, <4>1, <4>2, Zenon DEF Open, Faithful
    <3>2. CASE u # t
      <4>1. Answers(u) /\ job'[u] = job[u] /\ pc'[u] = pc[u]
        BY <1>4, <2>1, <3>2, Zenon
      <4>2. Faithful(job[u]) /\ Faithful(job[u])'
        BY <1>2, <1>5, <4>1, QuietStep, Zenon DEF AnswerInv
      <4> QED
        BY <1>1, <1>2, <4>1, <4>2, Zenon DEF AnswerInv, Open
    <3> QED
      BY <3>1, <3>2, Zenon
  <2>2. ASSUME NEW u \in Threads, NEW v \in Threads, Answers(u)', Answers(v)',
               job'[u].about = job'[v].about
        PROVE  u = v
    <3>1. \A w \in Threads : w # t /\ Answers(w)' => Answers(w) /\ job'[w] = job[w] /\ job[w].about # j.about
      BY <1>4, Zenon DEF AnswerInv
    <3>2. CASE u # t /\ v # t
      BY <2>2, <3>1, <3>2, Zenon DEF AnswerInv
    <3>3. CASE u = t \/ v = t
      BY <1>4, <2>2, <3>1, <3>3, Zenon
    <3> QED
      BY <3>2, <3>3
  <2> QED
    BY <2>1, <2>2 DEF AnswerInv
<1>9. AnsweredOnce'
  <2>1. \A u \in Threads : pc'[u] = "returned" => pc[u] = "returned" /\ job'[u] = job[u]
    BY <1>2, <1>4, Zenon
  <2> QED
    BY <1>2, <2>1 DEF AnsweredOnce, Call, Obeys
<1> QED
  BY <1>2, <1>3, <1>5, <1>6, <1>7, <1>8, <1>9, QuietStep

\* What rsi_request_parse makes of the frame of request i.
ParsedFrom(q, i, a) == q = [request_id |-> i, op_code |-> a.op_code]

\* It is an rsi_request.
LEMMA ParsedRequest ==
    ASSUME NEW i \in Ids, NEW a \in Requests, NEW q, ParsedFrom(q, i, a)
    PROVE  q \in RsiRequests /\ q.request_id = i /\ q.op_code = a.op_code
BY DEF RsiRequests, Requests, ParsedFrom

\* A request that is handled becomes a job that tells what became of it.
LEMMA HandleKeeps == ASSUME IInv, NEW t \in Threads, Handle(t) PROVE IInv'
<1> USE DEF IInv
<1>0. PICK i \in Ids : pc[t] = "handle" /\ buf[t] \in Requests /\ buf[t].request_id = i
  BY Zenon DEF Handle, TypeOK, Requests
<1>1. /\ Holds(t, i) /\ buf[t] = asked[i] /\ Open(i) /\ ~Queued(i)
      /\ req[t] = [request_id |-> i, op_code |-> asked[i].op_code]
      /\ \A u \in Threads : Holds(u, i) => u = t
  <2>1. Holds(t, i)
    BY <1>0 DEF Holds
  <2>2. Intact(t, i) /\ \A u \in Threads : Holds(u, i) => u = t
    BY <2>1, Zenon DEF BufferInv
  <2> QED
    BY <1>0, <2>1, <2>2, Zenon DEF Intact
<1>2. PICK r \in IF req[t].op_code \in PayloadOps THEN Results ELSE {"ok", "failed"} :
         /\ jobs' = jobs \cup {[req |-> req[t], result |-> r, about |-> i]}
         /\ store' = IF r # "failed" /\ req[t].op_code \in ChangeOps
                     THEN store \cup {[sequence |-> asked[i].sequence, request_id |-> i]}
                     ELSE store
  BY <1>0, <1>1, Zenon DEF Handle
<1>3. /\ pc' = [pc EXCEPT ![t] = "idle"]
      /\ UNCHANGED <<source, asked, queue, inflight, reply, nextSeq, exhausted, buf, req, job, ret,
                     about, unsent, crashes>>
  BY Zenon DEF Handle, Goto, kernel
<1>4. asked[i] \in Requests /\ asked[i].sequence \in Nat /\ r \in Results
  BY <1>0, <1>1, <1>2, Zenon DEF Requests, Results
<1>c. req[t] \in RsiRequests /\ req[t].request_id = i /\ req[t].op_code = asked[i].op_code
  <2>1. ParsedFrom(req[t], i, asked[i])
    BY <1>1, Zenon DEF ParsedFrom
  <2>2. asked[i] \in Requests
    BY <1>4, Zenon
  <2> HIDE DEF IInv
  <2> QED
    BY <2>1, <2>2, ParsedRequest
<1>5. /\ [req |-> req[t], result |-> r, about |-> i] \in Jobs
      /\ [sequence |-> asked[i].sequence, request_id |-> i] \in [sequence : Nat, request_id : Ids]
  BY <1>4, <1>c, Zenon DEF Jobs
<1>6. TypeOK'
  <2>1. KernelTypes'
    BY <1>3, Types DEF KernelTypes
  <2>2. ThreadTypes'
    BY <1>2, <1>3, <1>5, Types, Zenon DEF ThreadTypes
  <2>3. OtherTypes'
    BY <1>2, <1>3, <1>5, Types, Zenon DEF OtherTypes
  <2> QED
    BY <2>1, <2>2, <2>3, Zenon DEF TypeOK, KernelTypes, ThreadTypes, OtherTypes
<1>7. /\ \A k \in Ids : Queued(k)' <=> Queued(k)
      /\ \A k \in Ids : ~Holds(t, k)'
      /\ \A u \in Threads : u # t => pc'[u] = pc[u] /\ \A k \in Ids : Holds(u, k)' <=> Holds(u, k)
      /\ \A u \in Threads : Answers(u)' <=> Answers(u)
      /\ ~Answers(t)
  BY <1>0, <1>3, Zenon DEF TypeOK, Queued, Holds, Answers
<1>8. /\ \A k \in Ids : Pending(k)' => Pending(k) /\ k # i
      /\ Pending(i)
  BY <1>0, <1>1, <1>7, Zenon DEF Pending
<1>9. /\ \A k \in Ids : k # i => (Stored(k)' <=> Stored(k))
      /\ ~Stored(i)
      /\ Stored(i)' <=> (r # "failed" /\ Change(i))
  <2>1. ~Stored(i)
    BY <1>0, <1>8, Zenon DEF Stored, StoreInv
  <2>2. \A k \in Ids : k # i => (Stored(k)' <=> Stored(k))
    BY <1>2, <1>3 DEF Stored
  <2> QED
    BY <1>2, <1>3, <1>c, <2>1, <2>2, Zenon DEF Stored, Change
<1>a. PICK j0 \in Jobs : j0 = [req |-> req[t], result |-> r, about |-> i]
  BY <1>5, Zenon
<1>b. PICK w0 : w0 = [sequence |-> asked[i].sequence, request_id |-> i]
  BY Zenon
<1>10. KernelInv' /\ BufferInv'
  <2>1. KernelInv'
    BY <1>3, <1>7, Zenon DEF KernelInv
  <2>2. \A u \in Threads, k \in Ids : Holds(u, k)' => u # t /\ Holds(u, k) /\ pc'[u] = pc[u]
    BY <1>7, Zenon
  <2>3. BufferInv'
    <3>1. \A u \in Threads, k \in Ids : Holds(u, k) => Open(k) /\ ~Queued(k)
      BY Zenon DEF BufferInv, Intact
    <3>2. \A k \in Ids : Open(k)' <=> Open(k)
      BY <1>3 DEF Open
    <3> QED
      BY <1>3, <1>7, <2>2, <3>1, <3>2, BufferStep, Zenon
  <2> QED
    BY <2>1, <2>3
<1>11. \A j : Faithful(j) => j.about \in Ids /\ j.about # i /\ Faithful(j)'
  <2> SUFFICES ASSUME NEW j, Faithful(j) PROVE j.about \in Ids /\ j.about # i /\ Faithful(j)'
    OBVIOUS
  <2>1. j.about \in Ids /\ j.about # i
    BY <1>8 DEF Faithful, Jobs
  <2>2. reply'[j.about] # "unmade"
    BY <1>3, Zenon DEF Faithful
  <2> QED
    BY <1>3, <1>8, <1>9, <2>1, <2>2, FaithfulStep, Zenon
<1>12. j0.about = i /\ Faithful(j0)'
  <2>1. j0.about = i /\ j0.req = req[t] /\ j0.result = r
    BY <1>a
  <2>2. j0.req.request_id = i /\ j0.req.op_code = asked[i].op_code
    BY <1>c, <2>1, Zenon
  <2>3. reply'[i] # "unmade" /\ ~Pending(i)'
    BY <1>0, <1>1, <1>3, <1>8, Zenon DEF Open
  <2>4. j0.req.op_code \notin PayloadOps => j0.result \in {"ok", "failed"}
    BY <1>2, <2>1, Zenon
  <2>5. Change(i)' => (r # "failed" <=> Stored(i)' /\ i \notin unsent')
    BY <1>3, <1>8, <1>9, Zenon DEF Change, UnsentInv
  <2> QED
    BY <1>3, <1>5, <2>1, <2>2, <2>3, <2>4, <2>5, Zenon DEF Faithful
<1>13. JobInv'
  <2>1. \A j \in jobs' : j = j0 \/ j \in jobs
    BY <1>2, <1>a
  <2>2. \A j \in jobs : Faithful(j) /\ Open(j.about)
    BY DEF JobInv
  <2>3. \A j \in jobs' : Faithful(j)' /\ Open(j.about)'
    BY <1>1, <1>3, <1>11, <1>12, <2>1, <2>2, Zenon DEF Open
  <2>4. \A j, k \in jobs' : j.about = k.about => j = k
    BY <1>11, <1>12, <2>1, <2>2 DEF JobInv
  <2> QED
    BY <2>3, <2>4 DEF JobInv
<1>14. AnswerInv'
  <2>1. \A j \in jobs' : j = j0 \/ j \in jobs
    BY <1>2, <1>a
  <2>2. \A u \in Threads : Answers(u)' => u # t /\ Answers(u) /\ pc'[u] = pc[u]
    BY <1>7, Zenon
  <2>3. ASSUME NEW u \in Threads, Answers(u)'
        PROVE  /\ Faithful(job[u])'
               /\ pc'[u] = "respond" \/ ret'[u] # "ok" => Open(job[u].about)'
               /\ \A k \in jobs' : job'[u].about # k.about
    <3>1. Answers(u) /\ job'[u] = job[u] /\ pc'[u] = pc[u] /\ Faithful(job[u])
      BY <1>3, <2>2, <2>3, Zenon DEF AnswerInv
    <3>2. Faithful(job[u])' /\ job[u].about # i
      BY <1>11, <3>1
    <3> QED
      BY <1>3, <1>12, <2>1, <3>1, <3>2, Zenon DEF AnswerInv, Open
  <2>4. \A u, v \in Threads : Answers(u)' /\ Answers(v)' /\ job'[u].about = job'[v].about => u = v
    BY <1>3, <1>7, Zenon DEF AnswerInv
  <2> QED
    BY <2>3, <2>4, Zenon DEF AnswerInv
<1>15. \A w \in store' : w \in store \/ (w = w0 /\ Change(i))
  <2>1. req[t].op_code \in ChangeOps => Change(i)
    BY <1>c DEF Change
  <2> QED
    BY <1>2, <1>b, <2>1
<1>16. StoreInv'
  <2> SUFFICES ASSUME NEW w \in store'
               PROVE  /\ reply'[w.request_id] # "unmade" /\ ~Pending(w.request_id)'
                      /\ Change(w.request_id)' /\ w.sequence = asked'[w.request_id].sequence
    BY DEF StoreInv
  <2>1. CASE w \in store
    <3>1. w.request_id \in Ids
      BY <2>1 DEF TypeOK
    <3> QED
      BY <1>3, <1>8, <2>1, <3>1, Zenon DEF StoreInv, Change
  <2>2. CASE w = w0 /\ Change(i)
    BY <1>0, <1>1, <1>3, <1>8, <1>b, <2>2, Zenon DEF Open, Change
  <2> QED
    BY <1>15, <2>1, <2>2, Zenon
<1>d. UnsentInv'
  BY <1>3, <1>8, UnsentStep, Zenon
<1>17. SeqInv' /\ SequencesUnique'
  <2>1. w0.sequence = asked[i].sequence
    BY <1>b
  <2>2. /\ Stamped(i) => \A w \in store : w.sequence # asked[i].sequence
        /\ ~Stamped(i) => asked[i].sequence = 0
    BY <1>0, <1>8, Zenon DEF SeqInv
  <2>3. asked[i].sequence < nextSeq
    <3>1. CASE Stamped(i)
      BY <1>0, <1>8, <3>1 DEF SeqInv
    <3>2. CASE ~Stamped(i)
      <4>1. nextSeq \in Nat /\ nextSeq # 0
        BY Zenon DEF SeqInv, TypeOK
      <4> HIDE DEF IInv
      <4> QED
        BY <2>2, <3>2, <4>1
    <3> QED
      BY <3>1, <3>2
  <2>4. \A k \in Ids : Pending(k)' /\ Stamped(k)' =>
           /\ Pending(k) /\ Stamped(k) /\ k # i
           /\ asked[k].sequence # 0
           /\ asked[k].sequence # asked[i].sequence
    BY <1>0, <1>3, <1>8, <2>2, Zenon DEF SeqInv, Stamped
  <2>5. \A k \in Ids : Pending(k)' /\ ~Stamped(k)' => asked'[k].sequence = 0
    BY <1>3, <1>8, Zenon DEF SeqInv, Stamped
  <2>6. SeqInv'
    BY <1>3, <1>15, <2>1, <2>3, <2>4, <2>5, Zenon DEF SeqInv
  <2>7. SequencesUnique'
    BY <1>15, <2>1, <2>2, Zenon DEF SequencesUnique
  <2> QED
    BY <2>6, <2>7
<1>18. AnswerIsForRequest' /\ OkMeansStored'
  <2>1. ~Answered(i)
    BY <1>1, Zenon DEF Open, Answered, Statuses
  <2>2. OkMeansStored'
    BY <1>3, <1>9, <2>1, Zenon DEF OkMeansStored, Answered, Stored
  <2> QED
    BY <1>3, <2>2 DEF AnswerIsForRequest, Answered
<1>19. AnsweredOnce'
  <2>1. \A u \in Threads : pc'[u] = "returned" => pc[u] = "returned"
    BY <1>3 DEF TypeOK
  <2> QED
    BY <1>3, <2>1, Zenon DEF AnsweredOnce, Call, HasPayload
<1> QED
  BY <1>6, <1>10, <1>13, <1>14, <1>16, <1>d, <1>17, <1>18, <1>19
-----------------------------------------------------------------------------
(* The steps that answer a job, and the results *)

\* What a response call must be like: it answers with the header of the job's
\* request, the kernel took the frame whole if the call says so, and EINVAL says
\* that the arguments or the kernel are against it.
Reports(t, f, whole, r) ==
    /\ pc[t] = "respond"
    /\ f.request_id = job[t].about /\ f.op_code = ResponseOp(job[t].req.op_code)
    /\ f.status \in Statuses
    /\ f.status = "RSI_OK" <=> job[t].result # "failed"
    /\ whole \in BOOLEAN /\ r \in {"ok", "short"} \cup Errnos
    /\ whole => Accepts(f)
    /\ r = "ok" <=> whole
    /\ r = "EINVAL" /\ Obeys(Call(t)) => ~Accepts(f)

\* Such a call answers a request that waits, once, or changes nothing.
LEMMA ReportKeeps ==
    ASSUME IInv, NEW t \in Threads, NEW f, NEW whole, NEW r, Reports(t, f, whole, r),
           Hand(f, job[t], whole), Returned(t, r)
    PROVE  IInv'
<1> USE DEF IInv
<1>0. PICK i \in Ids : i = job[t].about /\ i = f.request_id
  BY Zenon DEF Reports, AnswerInv, Answers, Faithful, Jobs
<1>1. /\ pc[t] = "respond" /\ Answers(t) /\ Faithful(job[t]) /\ Open(i) /\ ~Pending(i)
      /\ \A j \in jobs : j.about # i
      /\ \A u \in Threads : Answers(u) /\ job[u].about = i => u = t
  BY <1>0, Zenon DEF Reports, AnswerInv, Answers, Faithful
<1>2. /\ pc' = [pc EXCEPT ![t] = "returned"] /\ ret' = [ret EXCEPT ![t] = r]
      /\ UNCHANGED <<source, asked, queue, nextSeq, store, exhausted, jobs, buf, req, job, unsent, crashes>>
  BY DEF Returned, Goto
<1>3. \/ /\ whole /\ r = "ok" /\ i \in inflight /\ reply[i] = "waiting"
         /\ inflight' = inflight \ {i}
         /\ reply' = [reply EXCEPT ![i] = f.status]
         /\ about' = [about EXCEPT ![i] = i]
      \/ /\ ~whole /\ r # "ok" /\ UNCHANGED <<inflight, reply, about>>
  BY <1>0, Zenon DEF Hand, Reports, Accepts, KernelInv
<1>4. f.status \in Statuses /\ r \in {"none", "ok", "short"} \cup Errnos
  BY Zenon DEF Reports
<1>5. TypeOK'
  <2>1. KernelTypes'
    BY <1>2, <1>3, <1>4, Types DEF KernelTypes
  <2>2. ThreadTypes'
    BY <1>2, <1>4, Types DEF ThreadTypes
  <2>3. OtherTypes'
    BY <1>2, Types DEF OtherTypes
  <2> QED
    BY <2>1, <2>2, <2>3, Zenon DEF TypeOK, KernelTypes, ThreadTypes, OtherTypes
<1>6. /\ \A k \in Ids : Queued(k)' <=> Queued(k)
      /\ \A u \in Threads, k \in Ids : Holds(u, k)' <=> Holds(u, k)
      /\ \A u \in Threads : Answers(u)' <=> Answers(u)
      /\ \A u \in Threads : u # t => UNCHANGED <<pc[u], ret[u]>>
      /\ pc'[t] = "returned" /\ ret'[t] = r
  BY <1>1, <1>2, Zenon DEF TypeOK, Queued, Holds, Answers
<1>7. \A k \in Ids : Pending(k)' <=> Pending(k)
  BY <1>6, Zenon DEF Pending
<1>8. /\ \A k \in Ids : k # i => UNCHANGED <<reply[k], about[k]>>
      /\ reply'[i] # "unmade"
      /\ \A k \in Ids : (reply[k] = "unmade" <=> reply'[k] = "unmade")
      /\ \A k \in Ids : k # i \/ r # "ok" => (Open(k)' <=> Open(k))
      /\ \A k \in Ids : reply[k] = "lost" => reply'[k] = "lost"
  BY <1>1, <1>3, <1>4, Zenon DEF TypeOK, Open, Statuses
<1>9. KernelInv'
  <2>1. \A k \in Ids : reply'[k] # "unmade" => asked'[k] \in Requests /\ asked'[k].request_id = k
    BY <1>2, <1>8, Zenon DEF KernelInv
  <2>2. ~Queued(i)
    BY <1>1, Zenon DEF Pending
  <2>3. \A k \in Ids : Queued(k)' => reply'[k] = "waiting" /\ k \notin inflight'
    <3>1. \A k \in Ids : Queued(k)' => k # i /\ reply[k] = "waiting" /\ k \notin inflight
      BY <1>6, <2>2, Zenon DEF KernelInv
    <3>2. inflight' \subseteq inflight
      BY <1>3
    <3> QED
      BY <1>8, <3>1, <3>2, Zenon
  <2>4. \A k \in inflight' : reply'[k] = "waiting"
    <3>1. \A k \in inflight' : k \in Ids /\ k \in inflight /\ (k # i \/ UNCHANGED reply)
      BY <1>3, Zenon DEF TypeOK
    <3> QED
      BY <1>8, <3>1, Zenon DEF KernelInv
  <2>5. \A k \in Ids : reply'[k] = "waiting" => k \in inflight' \/ Queued(k)'
    <3>1. r = "ok" => reply'[i] # "waiting"
      BY <1>3, <1>4 DEF Statuses, TypeOK
    <3> QED
      BY <1>3, <1>6, <1>8, <3>1, Zenon DEF KernelInv
  <2> QED
    BY <1>2, <2>1, <2>3, <2>4, <2>5, Zenon DEF KernelInv
<1>10. BufferInv'
  <2>1. \A u \in Threads, k \in Ids : Holds(u, k) => k # i /\ u # t
    BY <1>1, Zenon DEF Pending, Holds
  <2> QED
    <3>1. \A u \in Threads, k \in Ids : Holds(u, k) => Open(k) /\ ~Queued(k)
      BY Zenon DEF BufferInv, Intact
    <3> QED
      BY <1>2, <1>6, <1>8, <2>1, <3>1, BufferStep, Zenon
<1>11. \A j : Faithful(j) => j.about \in Ids /\ Faithful(j)'
  <2> SUFFICES ASSUME NEW j, Faithful(j) PROVE j.about \in Ids /\ Faithful(j)'
    OBVIOUS
  <2>1. j.about \in Ids /\ reply'[j.about] # "unmade"
    BY <1>8, Zenon DEF Faithful, Jobs
  <2> QED
    BY <1>2, <1>7, <2>1, FaithfulStep, Zenon DEF Stored
<1>12. JobInv'
  BY <1>1, <1>2, <1>8, <1>11, Zenon DEF JobInv
<1>13. AnswerInv'
  <2>1. ASSUME NEW u \in Threads, Answers(u)'
        PROVE  /\ Faithful(job[u])'
               /\ pc'[u] = "respond" \/ ret'[u] # "ok" => Open(job[u].about)'
               /\ \A k \in jobs' : job'[u].about # k.about
    <3>1. Answers(u) /\ job'[u] = job[u] /\ Faithful(job[u]) /\ job[u].about \in Ids
      BY <1>2, <1>6, <1>11, <2>1, Zenon DEF AnswerInv
    <3>2. pc'[u] = "respond" \/ ret'[u] # "ok" => Open(job[u].about)'
      <4>1. CASE u = t
        BY <1>0, <1>1, <1>6, <1>8, <3>1, <4>1, Zenon
      <4>2. CASE u # t
        BY <1>0, <1>1, <1>6, <1>8, <3>1, <4>2, Zenon DEF AnswerInv
      <4> QED
        BY <4>1, <4>2, Zenon
    <3> QED
      BY <1>2, <1>11, <3>1, <3>2, Zenon DEF AnswerInv
  <2>2. \A u, v \in Threads : Answers(u)' /\ Answers(v)' /\ job'[u].about = job'[v].about => u = v
    BY <1>2, <1>6, Zenon DEF AnswerInv
  <2> QED
    BY <2>1, <2>2, Zenon DEF AnswerInv
<1>14. StoreInv' /\ UnsentInv'
  BY <1>2, <1>7, <1>8, StoreStep, UnsentStep, Zenon
<1>15. SeqInv' /\ SequencesUnique'
  BY <1>2, <1>7, Zenon DEF SeqInv, SequencesUnique, Stamped
<1>16. AnswerIsForRequest' /\ OkMeansStored'
  <2>1. r = "ok" => reply'[i] = f.status /\ about'[i] = i
    BY <1>3 DEF TypeOK
  <2>2. r # "ok" => UNCHANGED <<reply, about>>
    BY <1>3
  <2>3. AnswerIsForRequest'
    BY <1>8, <2>1, <2>2, Zenon DEF AnswerIsForRequest, Answered
  <2>4. Change(i) => (f.status = "RSI_OK" <=> Stored(i) /\ i \notin unsent)
    BY <1>0, <1>1, Zenon DEF Reports, Faithful
  <2>5. OkMeansStored'
    BY <1>2, <1>8, <2>1, <2>2, <2>4, Zenon DEF OkMeansStored, Answered, Change, Stored
  <2> QED
    BY <2>3, <2>5
<1>17. AnsweredOnce'
  <2> SUFFICES ASSUME NEW u \in Threads, pc'[u] = "returned", ret'[u] = "EINVAL", Obeys(Call(u))'
               PROVE  reply'[job'[u].about] = "lost"
    BY Zenon DEF AnsweredOnce
  <2>0. Obeys(Call(u)) /\ job'[u] = job[u]
    BY <1>2, Zenon DEF Obeys, Call, HasPayload
  <2>1. CASE u = t
    <3>1. r = "EINVAL" /\ ~Accepts(f)
      BY <1>6, <2>0, <2>1, Zenon DEF Reports
    <3>2. i \notin inflight
      BY <1>0, <1>1, <3>1, Zenon DEF Reports, Accepts, Faithful
    <3>3. reply[i] = "lost"
      BY <1>1, <3>2, Zenon DEF KernelInv, Open, Pending
    <3> QED
      BY <1>0, <1>8, <2>0, <2>1, <3>3, Zenon
  <2>2. CASE u # t
    <3>1. pc[u] = "returned" /\ ret[u] = "EINVAL" /\ job[u].about \in Ids
      BY <1>6, <1>11, <2>2, Zenon DEF AnswerInv, Answers
    <3> QED
      BY <1>8, <2>0, <3>1, Zenon DEF AnsweredOnce
  <2> QED
    BY <2>1, <2>2, Zenon
<1> QED
  BY <1>5, <1>9, <1>10, <1>12, <1>13, <1>14, <1>15, <1>16, <1>17

\* The frame of a status response.
LEMMA StatusFrame ==
    ASSUME NEW t \in Threads, Faithful(job[t])
    PROVE  /\ build_status_frame(t).request_id = job[t].about
           /\ build_status_frame(t).op_code = ResponseOp(job[t].req.op_code)
           /\ build_status_frame(t).status \in Statuses
           /\ build_status_frame(t).status = "RSI_OK" <=> job[t].result # "failed"
<1>1. /\ build_status_frame(t).request_id = job[t].req.request_id
      /\ build_status_frame(t).op_code = ResponseOp(job[t].req.op_code)
      /\ build_status_frame(t).status = IF job[t].result = "failed" THEN "RSI_NOT_FOUND" ELSE "RSI_OK"
  BY Zenon DEF build_status_frame
<1> QED
  BY <1>1, Zenon DEF Faithful, Statuses

\* The helpers build such calls: they echo the request's header, and write_frame
\* reports a frame that was taken whole, and no other, as a success.
LEMMA RespondKeeps == ASSUME IInv, NEW t \in Threads, RespondPayload(t) \/ RespondStatus(t) PROVE IInv'
<1> USE DEF IInv
<1>1. pc[t] = "respond" /\ Faithful(job[t])
  BY Zenon DEF RespondPayload, RespondStatus, AnswerInv, Answers
<1>2. CASE RespondPayload(t)
  <2>1. PICK o \in Possible(t, finish_response(t)) :
           /\ Hand(finish_response(t), job[t], o.got = "whole")
           /\ Returned(t, write_frame(o))
    BY <1>2, Zenon DEF RespondPayload
  <2>2. job[t].result # "failed"
    BY <1>2, Zenon DEF RespondPayload, HasPayload
  <2>3. Reports(t, finish_response(t), o.got = "whole", write_frame(o))
    <3>1. /\ finish_response(t).request_id = job[t].about /\ finish_response(t).status \in Statuses
          /\ finish_response(t).status = "RSI_OK"
          /\ finish_response(t).op_code = ResponseOp(job[t].req.op_code)
      BY <1>1, Zenon DEF finish_response, Statuses, Faithful
    <3>2. /\ write_frame(o) \in {"ok", "short"} \cup Errnos
          /\ write_frame(o) = "ok" <=> o.got = "whole"
          /\ write_frame(o) = "EINVAL" => o.errno = "EINVAL"
      BY PossibleFacts DEF write_frame, Errnos
    <3>3. /\ o.got = "whole" => Accepts(finish_response(t))
          /\ o.errno = "EINVAL" /\ Obeys(Call(t)) => ~Accepts(finish_response(t))
      BY PossibleFacts
    <3> QED
      BY <1>1, <2>2, <3>1, <3>2, <3>3, Zenon DEF Reports
  <2> QED
    BY <2>1, <2>3, ReportKeeps
<1>3. CASE RespondStatus(t)
  <2>1. PICK o \in Possible(t, build_status_frame(t)) :
           /\ Hand(build_status_frame(t), job[t], o.got = "whole")
           /\ Returned(t, write_frame(o))
    BY <1>3, Zenon DEF RespondStatus
  <2>2. Reports(t, build_status_frame(t), o.got = "whole", write_frame(o))
    <3>1. /\ write_frame(o) \in {"ok", "short"} \cup Errnos
          /\ write_frame(o) = "ok" <=> o.got = "whole"
          /\ write_frame(o) = "EINVAL" => o.errno = "EINVAL"
      BY PossibleFacts DEF write_frame, Errnos
    <3>2. /\ o.got = "whole" => Accepts(build_status_frame(t))
          /\ o.errno = "EINVAL" /\ Obeys(Call(t)) => ~Accepts(build_status_frame(t))
      BY PossibleFacts
    <3> QED
      BY <1>1, <3>1, <3>2, StatusFrame, Zenon DEF Reports
  <2> QED
    BY <2>1, <2>2, ReportKeeps
<1> QED
  BY <1>2, <1>3

\* So does a source that sends a status frame of its own making.
LEMMA WriteResponseKeeps == ASSUME IInv, NEW t \in Threads, WriteResponse(t) PROVE IInv'
<1> USE DEF IInv
<1> DEFINE Got(o) == CASE o.errno = "none" -> "ok" [] o.errno = "EIO" -> "short" [] OTHER -> o.errno
<1>1. pc[t] = "respond" /\ Faithful(job[t])
  BY DEF WriteResponse, AnswerInv, Answers
<1>2. PICK o \in Written(build_status_frame(t)) :
         /\ Hand(build_status_frame(t), job[t], o.got = "whole")
         /\ Returned(t, Got(o))
  BY DEF WriteResponse
<1>3. /\ Got(o) \in {"ok", "short"} \cup Errnos
      /\ Got(o) = "ok" <=> o.got = "whole"
      /\ Got(o) = "EINVAL" => o.errno = "EINVAL"
  BY WrittenFacts DEF Errnos
<1>4. /\ o.got = "whole" => Accepts(build_status_frame(t))
      /\ o.errno = "EINVAL" => ~Accepts(build_status_frame(t))
  BY WrittenFacts
<1>5. Reports(t, build_status_frame(t), o.got = "whole", Got(o))
  BY <1>1, <1>3, <1>4, StatusFrame DEF Reports
<1> QED
  BY <1>2, <1>5, ReportKeeps

\* A job that is finished is forgotten, and one that becomes an error status in
\* place of a payload stays faithful: the request is among those not sent, and was
\* not answered.
LEMMA ResumeKeeps == ASSUME IInv, NEW t \in Threads, Resume(t) PROVE IInv'
<1> USE DEF IInv
<1> DEFINE again == ret[t] # "ok" /\ (HasPayload(job[t]) \/ ret[t] # "EINVAL")
           error == [job[t] EXCEPT !.result = "failed"]
           gives == again /\ HasPayload(job[t])
<1>1. /\ pc[t] = "returned" /\ pc' = [pc EXCEPT ![t] = IF again THEN "respond" ELSE "idle"]
      /\ job' = [job EXCEPT ![t] = IF ~again THEN NULL ELSE IF HasPayload(job[t]) THEN error ELSE job[t]]
      /\ ret' = [ret EXCEPT ![t] = "none"]
      /\ unsent' = IF gives THEN unsent \cup {job[t].about} ELSE unsent
      /\ UNCHANGED <<source, asked, queue, inflight, reply, nextSeq, store, exhausted, jobs, buf, req,
                     about, crashes>>
  BY DEF Resume, Goto, kernel, TypeOK
<1>2. /\ Faithful(job[t]) /\ job[t] \in Jobs /\ job[t].about \in Ids
      /\ reply[job[t].about] # "unmade" /\ ~Pending(job[t].about)
      /\ gives => Open(job[t].about)
  BY <1>1 DEF AnswerInv, Answers, Faithful, Jobs
<1>3. /\ error \in Jobs /\ error.about = job[t].about /\ error.req = job[t].req
      /\ error.result = "failed"
  BY <1>2 DEF Jobs, Results
<1> HIDE DEF error
<1>4. TypeOK'
  <2>1. KernelTypes' /\ OtherTypes'
    BY <1>1, <1>2, Types, Zenon DEF KernelTypes, OtherTypes
  <2>2. ThreadTypes'
    BY <1>1, <1>2, <1>3, Types, Zenon DEF ThreadTypes
  <2> QED
    BY <2>1, <2>2 DEF TypeOK, KernelTypes, ThreadTypes, OtherTypes
<1>5. /\ \A k \in Ids : Queued(k)' <=> Queued(k)
      /\ \A u \in Threads, k \in Ids : Holds(u, k)' <=> Holds(u, k)
      /\ \A u \in Threads : u # t => UNCHANGED <<pc[u], job[u], ret[u]>> /\ (Answers(u)' <=> Answers(u))
      /\ Answers(t) /\ (Answers(t)' <=> again) /\ pc'[t] \in {"idle", "respond"}
  BY <1>1, Zenon DEF TypeOK, Queued, Holds, Answers
<1>6. \A k \in Ids : Pending(k)' => Pending(k)
  BY <1>5, Zenon DEF Pending
<1>7. KernelInv' /\ BufferInv'
  <2>1. KernelInv'
    BY <1>1, <1>5, Zenon DEF KernelInv
  <2>2. \A u \in Threads, k \in Ids : Holds(u, k) => pc'[u] = pc[u]
    BY <1>1, <1>5, Zenon DEF Holds
  <2>3. BufferInv'
    <3>1. \A u \in Threads, k \in Ids : Holds(u, k) => Open(k) /\ ~Queued(k)
      BY Zenon DEF BufferInv, Intact
    <3>2. \A k \in Ids : Open(k)' <=> Open(k)
      BY <1>1 DEF Open
    <3> QED
      BY <1>1, <1>5, <2>2, <3>1, <3>2, BufferStep, Zenon
  <2> QED
    BY <2>1, <2>3
<1>a. \A j : Faithful(j) /\ j.about # job[t].about => Faithful(j)'
  <2>1. \A i : i # job[t].about => (i \in unsent' <=> i \in unsent)
    BY <1>1
  <2> QED
    BY <1>1, <1>6, <2>1, MoveStep, Zenon
<1>b. UnsentInv' /\ OkMeansStored'
  <2>1. UnsentInv'
    <3>1. \A i \in unsent' : /\ i \in Ids /\ reply[i] # "unmade" /\ ~Pending(i)
      BY <1>1, <1>2, Zenon DEF UnsentInv, TypeOK
    <3> QED
      BY <1>1, <1>6, <3>1, Zenon DEF UnsentInv
  <2>2. \A i \in Ids : Answered(i) => (i \in unsent' <=> i \in unsent)
    BY <1>1, <1>2, Zenon DEF Open, Answered, Statuses
  <2>3. OkMeansStored'
    BY <1>1, <2>2, Zenon DEF OkMeansStored, Answered
  <2> QED
    BY <2>1, <2>3
<1>8. JobInv'
  <2>1. \A j \in jobs : job[t].about # j.about
    BY <1>5, Zenon DEF AnswerInv
  <2> QED
    BY <1>1, <1>a, <2>1, Zenon DEF JobInv, Open
<1>9. \A u \in Threads : Answers(u)' => Answers(u) /\ job'[u].about = job[u].about /\ Faithful(job[u])'
  <2> SUFFICES ASSUME NEW u \in Threads, Answers(u)'
               PROVE  Answers(u) /\ job'[u].about = job[u].about /\ Faithful(job[u])'
    OBVIOUS
  <2>1. CASE u # t
    BY <1>1, <1>5, <1>a, <2>1, Zenon DEF AnswerInv
  <2>2. CASE u = t
    <3>1. again /\ job'[t] = IF HasPayload(job[t]) THEN error ELSE job[t]
      BY <1>1, <1>5, <2>2, Zenon DEF TypeOK
    <3>2. CASE HasPayload(job[t])
      <4>1. PICK e : e = error
        BY Zenon
      <4>2. /\ job'[t] = e /\ e.about = job[t].about /\ e.req = job[t].req
            /\ e.result = "failed" /\ e \in Jobs
        BY <1>3, <3>1, <3>2, <4>1, Zenon
      <4>3. job[t].about \in unsent'
        BY <1>1, <3>1, <3>2
      <4>4. /\ e.req.request_id = e.about /\ e.req.op_code = asked[e.about].op_code
            /\ reply'[e.about] # "unmade" /\ ~Pending(e.about)' /\ UNCHANGED asked
        BY <1>1, <1>2, <1>6, <4>2, Zenon DEF Faithful
      <4>5. Faithful(e)'
        BY <4>2, <4>3, <4>4, Zenon DEF Faithful
      <4> QED
        BY <1>5, <2>2, <4>2, <4>5, Zenon
    <3>3. CASE ~HasPayload(job[t])
      <4>1. UNCHANGED unsent /\ job'[t] = job[t]
        BY <1>1, <3>1, <3>3
      <4> QED
        BY <1>1, <1>2, <1>5, <1>6, <2>2, <4>1, QuietStep, Zenon
    <3> QED
      BY <3>2, <3>3
  <2> QED
    BY <2>1, <2>2, Zenon
<1>10. AnswerInv'
  <2>1. \A u \in Threads : Answers(u)' => (pc'[u] = "respond" \/ ret'[u] # "ok" => Open(job[u].about)')
    <3> SUFFICES ASSUME NEW u \in Threads, Answers(u)', pc'[u] = "respond" \/ ret'[u] # "ok"
                 PROVE  Open(job[u].about)'
      BY Zenon
    <3>1. Open(job[u].about)
      BY <1>5, <1>9, Zenon DEF AnswerInv
    <3> QED
      BY <1>1, <1>9, <3>1, Zenon DEF Open
  <2>2. \A u \in Threads : Answers(u)' => \A j \in jobs' : job'[u].about # j.about
    BY <1>1, <1>9, Zenon DEF AnswerInv
  <2>3. \A u, v \in Threads : Answers(u)' /\ Answers(v)' /\ job'[u].about = job'[v].about => u = v
    BY <1>9, Zenon DEF AnswerInv
  <2> QED
    BY <1>9, <2>1, <2>2, <2>3, Zenon DEF AnswerInv
<1>11. AnsweredOnce'
  <2>1. \A u \in Threads : pc'[u] = "returned" => u # t /\ pc[u] = "returned" /\ UNCHANGED <<job[u], ret[u]>>
    BY <1>5, Zenon
  <2> QED
    <3> SUFFICES ASSUME NEW u \in Threads, pc'[u] = "returned", ret'[u] = "EINVAL", Obeys(Call(u))'
                 PROVE  reply'[job'[u].about] = "lost"
      BY Zenon DEF AnsweredOnce
    <3>1. Obeys(Call(u)) /\ pc[u] = "returned" /\ ret[u] = "EINVAL" /\ job'[u] = job[u]
      BY <2>1, Zenon DEF Call, Obeys
    <3> QED
      BY <1>1, <3>1, Zenon DEF AnsweredOnce
<1> QED
  BY <1>1, <1>4, <1>6, <1>7, <1>8, <1>10, <1>11, <1>b, MoveStep, Zenon
-----------------------------------------------------------------------------
(* The results.                                                            *)

\* Every step keeps the inductive invariant.
LEMMA NextKeeps == IInv /\ [Next]_vars => IInv'
<1> SUFFICES ASSUME IInv, [Next]_vars PROVE IInv'
  OBVIOUS
<1>1. CASE \E i \in Ids, op \in Ops : Submit(i, op)
  BY <1>1, SubmitKeeps
<1>2. CASE Register \/ Close \/ Crash \/ Memory
  BY <1>2, RegisterKeeps, CloseKeeps, CrashKeeps, MemoryKeeps
<1>3. ASSUME NEW t \in Threads, Step(t) PROVE IInv'
  BY <1>3, ReadKeeps, ParseKeeps, HandleKeeps, TakeKeeps, RespondKeeps, WriteResponseKeeps, ResumeKeeps
     DEF Step
<1>4. CASE UNCHANGED vars
  BY <1>4, StutterKeeps
<1> QED
  BY <1>1, <1>2, <1>3, <1>4 DEF Next

\* The inductive invariant holds throughout.
THEOREM Invariance == Spec => []IInv
  BY InitIInv, NextKeeps, PTL DEF Spec

\* Type correctness.
THEOREM TypeCorrect == Spec => []TypeOK
<1>1. IInv => TypeOK
  BY DEF IInv
<1> QED
  BY <1>1, Invariance, PTL

\* Whatever thread answers, and after whatever else was read into its buffer, the
\* answer to a request reports how that request was handled.
THEOREM AnswersTheRequest == Spec => []AnswerIsForRequest
<1>1. IInv => AnswerIsForRequest
  BY DEF IInv
<1> QED
  BY <1>1, Invariance, PTL

\* A change is answered with RSI_OK exactly when it is persisted and no payload
\* helper reported that its response was not sent: a failure that a client is told
\* of is a change that was not made, or one whose payload could not be sent.
THEOREM TruthfulStatus == Spec => []OkMeansStored
<1>1. IInv => OkMeansStored
  BY DEF IInv
<1> QED
  BY <1>1, Invariance, PTL

\* Through crashes and reboots, no two persisted changes share a sequence number.
THEOREM UniqueSequences == Spec => []SequencesUnique
<1>1. IInv => SequencesUnique
  BY DEF IInv
<1> QED
  BY <1>1, Invariance, PTL

\* The kernel refuses an answer only when its request was lost.
THEOREM NoSecondAnswer == Spec => []AnsweredOnce
<1>1. IInv => AnsweredOnce
  BY DEF IInv
<1> QED
  BY <1>1, Invariance, PTL
-----------------------------------------------------------------------------
\* A response call is, to the clients, one answer or nothing.
LEMMA ReportServes ==
    ASSUME IInv, NEW t \in Threads, NEW f, NEW whole, f.request_id = job[t].about,
           f.status \in Statuses, whole => Accepts(f), Hand(f, job[t], whole), Faithful(job[t])
    PROVE  [Service!Next]_reply
<1>1. CASE ~whole
  BY <1>1 DEF Hand
<1>2. CASE whole
  <2>1. PICK i \in Ids : i = f.request_id
    BY Zenon DEF Faithful, Jobs
  <2>2. reply[i] = "waiting" /\ reply' = [reply EXCEPT ![i] = f.status]
    BY <1>2, <2>1, Zenon DEF Hand, Accepts, IInv, KernelInv
  <2>3. Service!Answer(i)
    BY <2>2, Zenon DEF Service!Answer, Service!Words, Statuses
  <2> QED
    BY <2>3, Zenon DEF Service!Next
<1> QED
  BY <1>1, <1>2

\* Every step of the source is a step of the service, or none.
LEMMA StepServes == IInv /\ [Next]_vars => [Service!Next]_reply
<1> SUFFICES ASSUME IInv, [Next]_vars PROVE [Service!Next]_reply
  OBVIOUS
<1>1. ASSUME NEW i \in Ids, NEW op \in Ops, Submit(i, op) PROVE [Service!Next]_reply
  BY <1>1, Zenon DEF Submit, Service!Next, Service!Make
<1>2. CASE Close \/ Crash
  BY <1>2 DEF Close, Crash, Closed, Service!Next, Service!Lose
<1>3. CASE Register \/ Memory \/ UNCHANGED vars
  BY <1>3 DEF Register, Memory, kernel, vars
<1>4. ASSUME NEW t \in Threads, Read(t) \/ Parse(t) \/ Handle(t) \/ Take(t) \/ Resume(t)
      PROVE  UNCHANGED reply
  BY <1>4 DEF Read, Parse, Handle, Take, Resume, kernel
<1>5. ASSUME NEW t \in Threads, RespondPayload(t) PROVE [Service!Next]_reply
  <2>1. Faithful(job[t])
    BY <1>5, Zenon DEF RespondPayload, IInv, AnswerInv, Answers
  <2>2. finish_response(t).request_id = job[t].about /\ finish_response(t).status \in Statuses
    BY <2>1, Zenon DEF finish_response, Faithful, Statuses
  <2>3. PICK o \in Possible(t, finish_response(t)) :
           Hand(finish_response(t), job[t], o.got = "whole")
    BY <1>5, Zenon DEF RespondPayload
  <2>4. o.got = "whole" => Accepts(finish_response(t))
    BY PossibleFacts
  <2> QED
    BY <2>1, <2>2, <2>3, <2>4, ReportServes, Zenon
<1>6. ASSUME NEW t \in Threads, RespondStatus(t) \/ WriteResponse(t) PROVE [Service!Next]_reply
  <2>1. Faithful(job[t])
    BY <1>6 DEF RespondStatus, WriteResponse, IInv, AnswerInv, Answers
  <2>2. PICK o : /\ o \in Possible(t, build_status_frame(t)) \/ o \in Written(build_status_frame(t))
                 /\ Hand(build_status_frame(t), job[t], o.got = "whole")
    BY <1>6, Zenon DEF RespondStatus, WriteResponse
  <2>3. o.got = "whole" => Accepts(build_status_frame(t))
    BY <2>2, PossibleFacts, WrittenFacts
  <2> QED
    BY <2>1, <2>2, <2>3, StatusFrame, ReportServes, Zenon
<1> QED
  BY <1>1, <1>2, <1>3, <1>4, <1>5, <1>6 DEF Next, Step

\* The safety part of ServesClients: to its clients the source answers each request
\* once, and only while it waits, or loses it.
THEOREM ServesSafely == Spec => Service!Init /\ [][Service!Next]_reply
<1>1. Init => Service!Init
  BY DEF Init, Service!Init
<1> QED
  BY <1>1, StepServes, Invariance, PTL DEF Spec
=============================================================================
