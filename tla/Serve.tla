--------------------------------- MODULE Serve ---------------------------------
(***************************************************************************)
(* A registry source at work: threads that share the source fd, read and   *)
(* parse requests into buffers of their own, handle them, and answer them  *)
(* in any order and from any thread, through whatever fails; and a process *)
(* that crashes, or gives its source up and registers again.               *)
(*                                                                         *)
(* The calls into librsi are taken whole.  A response call comes to one of *)
(* the outcomes of ResponseOutcomes, which RespondCall is shown to keep    *)
(* to.  The kernel is as docs/design-notes.md has it: it accepts a frame   *)
(* of the right length whose request_id and op_code match a request that   *)
(* is in flight, and refuses any other.  The serve loop is the source's    *)
(* own: an answer that cannot be sent is replaced by an error status, and  *)
(* a status that cannot be sent is sent again.                             *)
(***************************************************************************)
EXTENDS RsiProtocol, Integers, Sequences

CONSTANTS
    Threads,      \* the threads of the source
    Ids,          \* request ids, in the order in which the kernel uses them
    Ops,          \* the op-codes that clients use
    MaxCrashes    \* bound: how often a source goes away

ASSUME IdAssumption == Ids \subseteq Nat /\ MaxCrashes \in Nat
ASSUME OpAssumption == Ops \subseteq OpCodes

VARIABLES
    \* the kernel
    source,    \* is a source registered? "up" or "down"
    asked,     \* per id: the request a client made, or NULL
    queue,     \* the requests that were not read yet
    inflight,  \* those that were, and are not answered
    reply,     \* per id: "unmade", "waiting", "lost" or a status word
    nextSeq,   \* the next sequence number
    \* the source's storage
    store,     \* the changes it has persisted: [sequence, request_id]
    \* the source's process
    exhausted, \* is memory exhausted?
    jobs,      \* requests that were handled and wait for a thread to answer
    pc,        \* where each thread is
    buf,       \* the request whose frame is in its buffer, or NULL
    req,       \* its rsi_request
    job,       \* the job it is answering, or NULL
    ret,       \* what its response call came to: "ok", "short" or an errno
    \* history
    about,     \* per id: the request whose handling the answer reports
    unsent,    \* the requests whose payload could not be sent: an error status
               \* takes its place
    crashes    \* how often the source went away

kernel  == <<source, asked, queue, inflight, reply, nextSeq>>
process == <<jobs, pc, buf, req, job, ret>>
vars == <<kernel, store, exhausted, process, about, unsent, crashes>>

\* The op-codes whose requests carry a sequence number.
StampedOps == { "CREATE_ENTRY", "HIDE_ENTRY", "SET_VALUE", "SET_BLANKET_TOMBSTONE" }

\* The op-codes that change the store.  DELETE_LAYER is the one whose RSI_OK
\* response carries a payload, which can fail to be sent after the change.
ChangeOps == StampedOps \cup { "DELETE_ENTRY", "CREATE_KEY", "WRITE_KEY", "DROP_KEY",
                               "DELETE_VALUE_ENTRY", "DELETE_LAYER" }

Zeroed == [request_id |-> 0, op_code |-> "none"]

Results == { "ok", "failed", "big", "broken" }

Errnos == { "EINVAL", "ENOMEM", "EOVERFLOW", "EIO", "EINTR" }

Requests == [request_id : Ids, op_code : Ops, sequence : Nat]

RsiRequests == [request_id : Ids, op_code : Ops]

Jobs == [req : RsiRequests, result : Results, about : Ids]

\* The variables stay in their types, and a thread that has a request to parse or
\* to handle has it in its buffer.
TypeOK == /\ source \in {"up", "down"}
          /\ asked \in [Ids -> Requests \cup {NULL}]
          /\ queue \in Seq(Ids) /\ inflight \subseteq Ids
          /\ reply \in [Ids -> {"unmade", "waiting", "lost"} \cup Statuses]
          /\ nextSeq \in Nat
          /\ store \subseteq [sequence : Nat, request_id : Ids]
          /\ exhausted \in BOOLEAN
          /\ jobs \subseteq Jobs
          /\ pc \in [Threads -> {"idle", "parse", "handle", "respond", "returned"}]
          /\ buf \in [Threads -> Requests \cup {NULL}]
          /\ \A t \in Threads : pc[t] \in {"parse", "handle"} => buf[t] \in Requests
          /\ req \in [Threads -> RsiRequests \cup {Zeroed}]
          /\ job \in [Threads -> Jobs \cup {NULL}]
          /\ ret \in [Threads -> {"none", "ok", "short"} \cup Errnos]
          /\ about \in [Ids -> Ids \cup {NULL}] /\ unsent \subseteq Ids
          /\ crashes \in 0..MaxCrashes

Each(x) == [t \in Threads |-> x]

Init == /\ source = "down" /\ asked = [i \in Ids |-> NULL]
        /\ queue = <<>> /\ inflight = {}
        /\ reply = [i \in Ids |-> "unmade"]
        /\ nextSeq = 1
        /\ store = {} /\ exhausted = FALSE
        /\ jobs = {} /\ pc = Each("idle") /\ buf = Each(NULL)
        /\ req = Each(Zeroed) /\ job = Each(NULL) /\ ret = Each("none")
        /\ about = [i \in Ids |-> NULL] /\ unsent = {} /\ crashes = 0

Goto(t, l) == pc' = [pc EXCEPT ![t] = l]
-----------------------------------------------------------------------------
(* The kernel and its clients (external).                                  *)

\* A client makes a request, and the kernel stamps it with a sequence number if
\* it is of a kind that carries one.
Submit(i, op) ==
    /\ source = "up" /\ reply[i] = "unmade" /\ \A j \in Ids : j < i => reply[j] # "unmade"
    /\ asked' = [asked EXCEPT ![i] =
                    [request_id |-> i, op_code |-> op,
                     sequence |-> IF op \in StampedOps THEN nextSeq ELSE 0]]
    /\ nextSeq' = IF op \in StampedOps THEN nextSeq + 1 ELSE nextSeq
    /\ reply' = [reply EXCEPT ![i] = "waiting"]
    /\ queue' = Append(queue, i)
    /\ UNCHANGED <<source, inflight, store, exhausted, process, about, unsent, crashes>>

\* Does write(2) accept the response frame f?
Accepts(f) == /\ f.request_id \in inflight
              /\ f.op_code = ResponseOp(asked[f.request_id].op_code)

\* The source fd is closed: what was asked of the source is lost.
Closed == /\ source' = "down" /\ queue' = <<>> /\ inflight' = {}
          /\ reply' = [i \in Ids |-> IF reply[i] = "waiting" THEN "lost" ELSE reply[i]]
          /\ crashes < MaxCrashes /\ crashes' = crashes + 1
          /\ UNCHANGED <<asked, store, exhausted, about, unsent>>

\* The source closes its fd while other threads are still at work.
Close == /\ source = "up" /\ Closed
         /\ UNCHANGED <<nextSeq, process>>

\* Its process dies; or the machine does, and the kernel's counter with it.
Crash == /\ Closed
         /\ jobs' = {} /\ pc' = Each("idle") /\ buf' = Each(NULL)
         /\ req' = Each(Zeroed) /\ job' = Each(NULL) /\ ret' = Each("none")
         /\ nextSeq' \in {nextSeq, 1}
-----------------------------------------------------------------------------
(* librsi.                                                                 *)

\* Mutant: max_sequence is left to ..Default.
register_args_default(m) == [max_sequence |-> 0]

\* What rsi_register passes on to the kernel.
register_args(m) == [max_sequence |-> m]

\* rsi_register succeeds, called with the highest sequence number in the store;
\* the kernel resumes its counter past it.
Register ==
    /\ source = "down"
    /\ \E m \in {0} \cup { w.sequence : w \in store } :
          LET resumed == register_args(m).max_sequence IN
          /\ \A w \in store : w.sequence <= m
          /\ nextSeq' = IF nextSeq > resumed THEN nextSeq ELSE resumed + 1
    /\ source' = "up"
    /\ UNCHANGED <<asked, queue, inflight, reply, store, exhausted, process, about, unsent, crashes>>

\* rsi_read_request dequeues one request into the thread's buffer.
Read(t) ==
    /\ pc[t] = "idle" /\ queue # <<>>
    /\ buf' = [buf EXCEPT ![t] = asked[Head(queue)]]
    /\ inflight' = inflight \cup {Head(queue)} /\ queue' = Tail(queue)
    /\ Goto(t, "parse")
    /\ UNCHANGED <<source, asked, reply, nextSeq, store, exhausted, jobs, req, job, ret, about, unsent, crashes>>

\* Mutant: *out is not filled in.
ParseForgets(t) ==
    /\ pc[t] = "parse"
    /\ Goto(t, "handle")
    /\ UNCHANGED <<kernel, store, exhausted, jobs, buf, req, job, ret, about, unsent, crashes>>

\* rsi_parse_request copies request_id and op_code out of the frame.
Parse(t) ==
    /\ pc[t] = "parse"
    /\ req' = [req EXCEPT ![t] = [request_id |-> buf[t].request_id, op_code |-> buf[t].op_code]]
    /\ Goto(t, "handle")
    /\ UNCHANGED <<kernel, store, exhausted, jobs, buf, job, ret, about, unsent, crashes>>

\* The source decodes the request and does what it asks (external).  It may
\* fail, and what it has to answer may break a rule of response.h or be too long
\* for a frame, which is found out when the change is made.  The rsi_request goes by value to whichever thread will answer; the
\* buffer is free for the next request.
Handle(t) ==
    /\ pc[t] = "handle"
    /\ \E r \in IF req[t].op_code \in PayloadOps THEN Results ELSE {"ok", "failed"} :
          /\ jobs' = jobs \cup {[req |-> req[t], result |-> r, about |-> buf[t].request_id]}
          /\ store' = IF r # "failed" /\ req[t].op_code \in ChangeOps
                      THEN store \cup {[sequence |-> buf[t].sequence, request_id |-> buf[t].request_id]}
                      ELSE store
    /\ Goto(t, "idle")
    /\ UNCHANGED <<kernel, exhausted, buf, req, job, ret, about, unsent, crashes>>

\* A thread takes up a job (external).
Take(t) ==
    /\ pc[t] = "idle"
    /\ \E j \in jobs : job' = [job EXCEPT ![t] = j] /\ jobs' = jobs \ {j}
    /\ Goto(t, "respond")
    /\ UNCHANGED <<kernel, store, exhausted, buf, req, ret, about, unsent, crashes>>

\* Mutant: the id is read from the thread's own request buffer.
build_status_frame_from_buffer(t) ==
    [request_id |-> IF buf[t] = NULL THEN job[t].req.request_id ELSE buf[t].request_id,
     op_code |-> ResponseOp(job[t].req.op_code),
     status |-> IF job[t].result = "failed" THEN "RSI_NOT_FOUND" ELSE "RSI_OK"]

\* Mutant: the status word is always RSI_OK.
build_status_frame_ok(t) ==
    [request_id |-> job[t].req.request_id, op_code |-> ResponseOp(job[t].req.op_code),
     status |-> "RSI_OK"]

\* The frame of rsi_respond_status.
build_status_frame(t) ==
    [request_id |-> job[t].req.request_id, op_code |-> ResponseOp(job[t].req.op_code),
     status |-> IF job[t].result = "failed" THEN "RSI_NOT_FOUND" ELSE "RSI_OK"]

\* The header and status of the frame of a payload helper.
finish_response(t) ==
    [request_id |-> job[t].req.request_id, op_code |-> ResponseOp(job[t].req.op_code),
     status |-> "RSI_OK"]

\* The source's choice of a helper: RSI_OK for a payload-bearing op has one of its
\* own, every other answer is a status (external).
HasPayload(j) == j.req.op_code \in PayloadOps /\ j.result # "failed"

Call(t) == [helper |-> IF HasPayload(job[t]) THEN "payload helper" ELSE "rsi_respond_status",
            result |-> job[t].result]

\* The outcomes of a response call, by the result it is to send.
Obeys(c) == c.result # "broken"
Size(c)  == IF c.result = "big" THEN 2 ELSE 1
O == INSTANCE ResponseOutcomes
     WITH Valid <- Obeys, FrameSize <- Size, U32Max <- 1, WriteErrnos <- {"EINTR", "EINVAL"}

\* Mutant: a status frame is assembled on the heap too.
AllocatesAlways(c) == TRUE

\* A payload helper assembles its frame in a Vec, rsi_respond_status on the stack.
Allocates(c) == c.helper # "rsi_respond_status"

\* Mutant: a full write is taken for a short one.
write_frame_short(o) == IF o.errno = "none" THEN "EIO" ELSE o.errno

\* What the caller is told of an outcome.
write_frame(o) == IF o.errno = "none" THEN "ok" ELSE o.errno

\* What write(2) can make of the frame f: the kernel takes a frame that it accepts
\* and refuses (EINVAL) another, unless it is interrupted or cut short, which
\* write_frame makes EIO of.
Written(f) ==
    (IF Accepts(f) THEN {O!Delivered} ELSE {O!Rejected("EINVAL")})
    \cup {O!Torn, O!Rejected("EIO"), O!Rejected("EINTR")}

\* What the response call of t can come to as things are: one that has to allocate
\* when there is no memory gets no further than its argument checks; any other
\* comes to an outcome of its contract, by what write(2) makes of its frame f.
Possible(t, f) ==
    LET c == Call(t) IN
    IF exhausted /\ Allocates(c)
    THEN {O!Refused("ENOMEM")} \cup (IF Obeys(c) THEN {} ELSE {O!Refused("EINVAL")})
    ELSE { o \in O!Outcomes(c) \ {O!Refused("ENOMEM")} :
             o.got = "unwritten" \/ o \in Written(f) }

\* The kernel hands a frame that it took whole to the client; a part of a frame
\* is no answer.
Hand(f, j, whole) ==
    \/ /\ whole
       /\ inflight' = inflight \ {f.request_id}
       /\ reply' = [reply EXCEPT ![f.request_id] = f.status]
       /\ about' = [about EXCEPT ![f.request_id] = j.about]
    \/ /\ ~whole
       /\ UNCHANGED <<inflight, reply, about>>

Returned(t, r) ==
    /\ ret' = [ret EXCEPT ![t] = r]
    /\ Goto(t, "returned")
    /\ UNCHANGED <<source, asked, queue, nextSeq, store, exhausted, jobs, buf, req, job, unsent, crashes>>

\* A payload helper: lookup, enum_children, read_key, delete_layer, query_values.
RespondPayload(t) ==
    /\ pc[t] = "respond" /\ HasPayload(job[t])
    /\ \E o \in Possible(t, finish_response(t)) :
          /\ Hand(finish_response(t), job[t], o.got = "whole")
          /\ Returned(t, write_frame(o))

\* rsi_respond_status.
RespondStatus(t) ==
    /\ pc[t] = "respond" /\ ~HasPayload(job[t])
    /\ \E o \in Possible(t, build_status_frame(t)) :
          /\ Hand(build_status_frame(t), job[t], o.got = "whole")
          /\ Returned(t, write_frame(o))

\* rsi_write_response: a status frame that the source has assembled itself.  It is
\* write(2) and no more: it allocates nothing, and what write(2) returns is what
\* the source gets, a short count included.
WriteResponse(t) ==
    /\ pc[t] = "respond" /\ ~HasPayload(job[t])
    /\ \E o \in Written(build_status_frame(t)) :
          /\ Hand(build_status_frame(t), job[t], o.got = "whole")
          /\ Returned(t, CASE o.errno = "none" -> "ok" [] o.errno = "EIO" -> "short" [] OTHER -> o.errno)

\* The serve loop goes on (external): an answer with a payload that could not be
\* sent becomes an error status; a status that the kernel refuses is dropped,
\* and one that failed otherwise is sent again.
Resume(t) ==
    /\ pc[t] = "returned"
    /\ LET again == ret[t] # "ok" /\ (HasPayload(job[t]) \/ ret[t] # "EINVAL") IN
       /\ Goto(t, IF again THEN "respond" ELSE "idle")
       /\ job' = [job EXCEPT ![t] =
                     IF ~again THEN NULL
                     ELSE IF HasPayload(@) THEN [@ EXCEPT !.result = "failed"] ELSE @]
       /\ unsent' = IF again /\ HasPayload(job[t]) THEN unsent \cup {job[t].about} ELSE unsent
    /\ ret' = [ret EXCEPT ![t] = "none"]
    /\ UNCHANGED <<kernel, store, exhausted, jobs, buf, req, about, crashes>>
-----------------------------------------------------------------------------
\* Memory runs out, and comes back (external).
Memory == /\ exhausted' = ~exhausted
          /\ UNCHANGED <<kernel, store, process, about, unsent, crashes>>

Step(t) == \/ Read(t) \/ Parse(t) \/ Handle(t) \/ Take(t)
           \/ RespondPayload(t) \/ RespondStatus(t) \/ WriteResponse(t) \/ Resume(t)

Next == \/ \E i \in Ids, op \in Ops : Submit(i, op)
        \/ Register \/ Close \/ Crash \/ Memory
        \/ \E t \in Threads : Step(t)

\* Every thread keeps running, and a source that keeps trying to send a status
\* does not write the frame itself every time, nor is the write(2) of every
\* rsi_respond_status interrupted or cut short.  Memory need never come back.
Fairness == \A t \in Threads :
    /\ WF_vars(Step(t))
    /\ SF_vars(RespondStatus(t) /\ ret'[t] \in {"ok", "EINVAL"})

Spec == Init /\ [][Next]_vars /\ Fairness
-----------------------------------------------------------------------------
Answered(i) == reply[i] \in Statuses

\* The answer that a client gets reports how its own request was handled, though
\* requests are answered from other threads, in another order, after the buffer
\* they were read into was overwritten: rsi_parse_request copies request_id and
\* op_code, and the helpers echo those.
AnswerIsForRequest == \A i \in Ids : Answered(i) => about[i] = i

\* A change is answered with RSI_OK exactly when the source has persisted it and
\* no payload helper has reported that its response was not sent, whatever failed
\* and was tried again in between.  A client that is told of a failure can conclude
\* that nothing was changed unless it asked for a payload: a layer may be deleted
\* and the list of its orphans not sent, and an error status is all that is left.
OkMeansStored ==
    \A i \in Ids : Answered(i) /\ asked[i].op_code \in ChangeOps =>
        (reply[i] = "RSI_OK" <=>
            /\ [sequence |-> asked[i].sequence, request_id |-> i] \in store
            /\ i \notin unsent)

\* No two changes that were persisted have the same sequence number, though the
\* kernel's counter starts over with the machine: rsi_register tells the kernel
\* where to resume.
SequencesUnique ==
    \A v, w \in store : v.sequence = w.sequence /\ v.sequence # 0 => v = w

\* The kernel refuses an answer only when its request was lost with the source:
\* write_frame never reports a failure for a response that was delivered, so
\* trying again answers nothing twice.
AnsweredOnce ==
    \A t \in Threads :
        pc[t] = "returned" /\ ret[t] = "EINVAL" /\ Obeys(Call(t))
            => reply[job[t].about] = "lost"

\* To its clients the source is a RegistryService: each request is answered once
\* or lost with the source, and none waits for ever, even if memory never comes
\* back: rsi_respond_status needs none.
Service == INSTANCE RegistryService
ServesClients == Service!Spec
=============================================================================
