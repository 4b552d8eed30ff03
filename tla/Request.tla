-------------------------------- MODULE Request --------------------------------
(***************************************************************************)
(* Receiving requests (src/request.rs): rsi_read_request,                  *)
(* rsi_parse_request and the rsi_request_* decoders, called in any order   *)
(* their safety contracts allow by a source that reuses its frame buffer,  *)
(* its rsi_request and its decode structs from one request to the next.    *)
(* A slot is one such set of a source's memory; a source may have several. *)
(*                                                                         *)
(* The kernel's requests are records [request_id, txn_id, op_code, args,   *)
(* fault]; fault says what is wrong with the frame it becomes, if anything *)
(* is.                                                                     *)
(***************************************************************************)
EXTENDS RequestDecoders

CONSTANTS
    Slots,      \* the source's buffers
    Requests,   \* the requests the kernel may make
    ForgedOps,  \* op-codes of rsi_requests that callers make up themselves
    BufSize,    \* cells in a buffer
    Caps,       \* the capacities rsi_read_request is called with
    U32Max,     \* the largest value of a u32
    MaxReads    \* bound: how many frames are read

ASSUME BufferAssumption == /\ BufSize \in Nat /\ U32Max \in Nat \ {0}
                           /\ BufSize <= U32Max
                           /\ Caps \subseteq 0..BufSize
                           /\ MaxReads \in Nat

VARIABLES
    pending,  \* the request at the head of the kernel's queue, or NULL
    reads,    \* how many frames were read
    mem,      \* per slot: the cells of the frame buffer
    len,      \* what rsi_read_request returned for it
    sent,     \* history: the request whose frame it holds
    req,      \* its rsi_request
    of,       \* history: what req is: "zeroed", "forged", "frame" or "reused"
    out,      \* its decode structs, overlaid: field names to values
    decoded,  \* the op-code whose struct describes the frame in mem, or NULL
    ret,      \* the return value of the last call
    errno     \* and its errno

vars == <<pending, reads, mem, len, sent, req, of, out, decoded, ret, errno>>

RSI_REQUEST_HEADER_SIZE == 4  \* cells: total_len, request_id, op_code, txn_id

Zeroed == [request_id |-> 0, txn_id |-> 0, op_code |-> "none", payload |-> NULL, payload_len |-> 0]

\* Zeroed memory, read as a (ptr, len) pair.  At first it is all out needs to
\* have: sd is the one field whose assignment depends on the request.
NullView == [ptr |-> NULL, len |-> 0]

Init == /\ pending = NULL /\ reads = 0
        /\ mem = [s \in Slots |-> [i \in 1..BufSize |-> 0]]
        /\ len = [s \in Slots |-> 0]
        /\ sent = [s \in Slots |-> NULL]
        /\ req = [s \in Slots |-> Zeroed]
        /\ of = [s \in Slots |-> "zeroed"]
        /\ out = [s \in Slots |-> [sd |-> NullView]]
        /\ decoded = [s \in Slots |-> NULL]
        /\ ret = [s \in Slots |-> 0]
        /\ errno = [s \in Slots |-> "none"]

\* The variables stay in their types.
TypeOK == /\ pending \in Requests \cup {NULL}
          /\ reads \in 0..MaxReads
          /\ \A s \in Slots :
                /\ Len(mem[s]) = BufSize
                /\ len[s] \in 0..BufSize
                /\ sent[s] \in Requests \cup {NULL}
                /\ req[s].payload \in Nat \cup {NULL} /\ req[s].payload_len \in 0..U32Max
                /\ of[s] \in {"zeroed", "forged", "frame", "reused"}
                /\ decoded[s] \in OpCodes \cup {NULL}
                /\ ret[s] \in {-1, 0}
                /\ errno[s] \in {"none", "EINVAL", "EBADMSG", "EMSGSIZE"}
-----------------------------------------------------------------------------
(* The kernel (external).                                                  *)

EncodeField(field, args) ==
    IF IsAbsent(field, args) THEN <<>>
    ELSE IF field.kind = "lpf" THEN <<Len(args[field.name])>> \o args[field.name]
    ELSE <<args[field.name]>>

Payload(r) ==
    LET whole == Flatten([i \in DOMAIN Layout[r.op_code] |->
                                EncodeField(Layout[r.op_code][i], r.args)])
    IN IF r.fault = "short" THEN SubSeq(whole, 1, Len(whole) - 1) ELSE whole

Frame(r) ==
    LET cells == <<RSI_REQUEST_HEADER_SIZE + Len(Payload(r)), r.request_id,
                   IF r.fault = "op" THEN "unknown" ELSE r.op_code, r.txn_id>> \o Payload(r)
    IN IF r.fault = "stub" THEN SubSeq(cells, 1, RSI_REQUEST_HEADER_SIZE - 1) ELSE cells

\* The null pointer is no request, no number and no slice.
ASSUME NullAssumption == NULL \notin Requests \cup Nat \cup [ptr : Nat, len : Nat]

\* A request has an op-code that the kernel knows and an argument for each field.  A
\* flag is 0 or 1, unless that is what is wrong with the request.
ASSUME RequestAssumption ==
    \A r \in Requests :
       /\ r.op_code \in OpCodes
       /\ r.fault \in {"none", "short", "op", "stub", "flag"}
       /\ \A i \in DOMAIN Layout[r.op_code] :
             LET field == Layout[r.op_code][i] IN
             IF field.kind = "lpf" THEN r.args[field.name] \in Seq(Nat)
             ELSE r.args[field.name] \in Nat
       /\ r.fault = "flag" <=> \E i \in DOMAIN Layout[r.op_code] :
                                  LET field == Layout[r.op_code][i] IN
                                  field.kind = "flag" /\ r.args[field.name] \notin {0, 1}

\* A client of the registry makes a request of one of the source's hives.
Enqueue == /\ pending = NULL /\ reads < MaxReads
           /\ pending' \in Requests
           /\ UNCHANGED <<reads, mem, len, sent, req, of, out, decoded, ret, errno>>

\* parse_rsi_request_header: a header's worth of cells and a known op-code.
HeaderOk(m, n) == n >= RSI_REQUEST_HEADER_SIZE /\ m[3] \in OpCodes
-----------------------------------------------------------------------------
Return(s, r, e) == /\ ret' = [ret EXCEPT ![s] = r]
                   /\ errno' = [errno EXCEPT ![s] = e]

\* Mutant: the errno is returned instead of the -1 sentinel.
FailErrnoReturned(s, e) == Return(s, 1, e) /\ UNCHANGED <<pending, reads, mem, len, sent, req, of, out, decoded>>

\* fail_errno: nothing but errno and the return value.
FailErrno(s, e) == Return(s, -1, e) /\ UNCHANGED <<pending, reads, mem, len, sent, req, of, out, decoded>>

\* rsi_read_request: read(2) overwrites the front of the buffer and leaves the
\* rest as it was, or refuses a frame that does not fit and leaves it queued.
Read(s) ==
    /\ pending # NULL
    /\ \E cap \in Caps :
          LET f == Frame(pending) IN
          \/ /\ Len(f) <= cap
             /\ mem' = [mem EXCEPT ![s] = f \o SubSeq(@, Len(f) + 1, BufSize)]
             /\ len' = [len EXCEPT ![s] = Len(f)]
             /\ sent' = [sent EXCEPT ![s] = pending]
             /\ of' = [of EXCEPT ![s] = IF @ = "frame" THEN "reused" ELSE @]
             /\ decoded' = [decoded EXCEPT ![s] = NULL]
             /\ pending' = NULL /\ reads' = reads + 1
             /\ Return(s, 0, "none") /\ UNCHANGED <<req, out>>
          \/ /\ Len(f) > cap
             /\ FailErrno(s, "EMSGSIZE")

\* Mutant: request_id and txn_id, both u64, are swapped.
ParsedSwapped(s) ==
    [ request_id |-> mem[s][4], txn_id |-> mem[s][2], op_code |-> mem[s][3],
      payload |-> 1 + RSI_REQUEST_HEADER_SIZE,
      payload_len |-> (len[s] - RSI_REQUEST_HEADER_SIZE) % (U32Max + 1) ]

\* Mutant: the header counts as payload.
ParsedWithHeader(s) ==
    [ request_id |-> mem[s][2], txn_id |-> mem[s][4], op_code |-> mem[s][3],
      payload |-> 1 + RSI_REQUEST_HEADER_SIZE, payload_len |-> len[s] % (U32Max + 1) ]

\* Mutant: the payload length is one short.
ParsedOneShort(s) ==
    [ request_id |-> mem[s][2], txn_id |-> mem[s][4], op_code |-> mem[s][3],
      payload |-> 1 + RSI_REQUEST_HEADER_SIZE,
      payload_len |-> (len[s] - RSI_REQUEST_HEADER_SIZE - 1) % (U32Max + 1) ]

\* What rsi_parse_request assigns to *out.
Parsed(s) ==
    [ request_id |-> mem[s][2], txn_id |-> mem[s][4], op_code |-> mem[s][3],
      payload |-> 1 + RSI_REQUEST_HEADER_SIZE,
      payload_len |-> (len[s] - RSI_REQUEST_HEADER_SIZE) % (U32Max + 1) ]

\* Mutant: *out is cleared before the header is looked at.
ParseClearing(s, nullFrame, nullOut) ==
    /\ sent[s] # NULL
    /\ \/ (nullOut \/ nullFrame) /\ FailErrno(s, "EINVAL")
       \/ /\ ~nullOut /\ ~nullFrame
          /\ req' = [req EXCEPT ![s] = IF HeaderOk(mem[s], len[s]) THEN Parsed(s) ELSE Zeroed]
          /\ of' = [of EXCEPT ![s] = IF HeaderOk(mem[s], len[s]) THEN "frame" ELSE "zeroed"]
          /\ IF HeaderOk(mem[s], len[s]) THEN Return(s, 0, "none") ELSE Return(s, -1, "EBADMSG")
          /\ UNCHANGED <<pending, reads, mem, len, sent, out, decoded>>

\* rsi_parse_request(frame, len, out), on what was read.
Parse(s, nullFrame, nullOut) ==
    /\ sent[s] # NULL
    /\ \/ /\ nullOut \/ nullFrame
          /\ FailErrno(s, "EINVAL")
       \/ /\ ~nullOut /\ ~nullFrame /\ ~HeaderOk(mem[s], len[s])
          /\ FailErrno(s, "EBADMSG")
       \/ /\ ~nullOut /\ ~nullFrame /\ HeaderOk(mem[s], len[s])
          /\ req' = [req EXCEPT ![s] = Parsed(s)]
          /\ of' = [of EXCEPT ![s] = "frame"]
          /\ Return(s, 0, "none")
          /\ UNCHANGED <<pending, reads, mem, len, sent, out, decoded>>

\* A caller may also make up an rsi_request, with no payload behind it.
Forge(s) == /\ \E op \in ForgedOps, n \in {0, 1} :
                  req' = [req EXCEPT ![s] = [Zeroed EXCEPT !.op_code = op, !.payload_len = n]]
            /\ of' = [of EXCEPT ![s] = "forged"]
            /\ decoded' = [decoded EXCEPT ![s] = NULL]
            /\ Return(s, 0, "none")
            /\ UNCHANGED <<pending, reads, mem, len, sent, out>>

\* req_payload_for: the reasons for EINVAL.
PayloadError(s, op, nullReq) ==
    \/ nullReq
    \/ req[s].op_code # op
    \/ req[s].payload = NULL /\ req[s].payload_len # 0

\* The payload as lcs-core parses it; a NULL payload is the empty slice.
ParsedPayload(s, op) == ParsePayload(op, mem[s],
                                     IF req[s].payload = NULL THEN 1 ELSE req[s].payload,
                                     req[s].payload_len)

\* The decoder for op: rsi_request_*(req, out).  It may be called on a request
\* whose buffer was not reused since.
Decode(s, op, nullReq, nullOut) ==
    /\ of[s] # "reused"
    /\ \/ /\ PayloadError(s, op, nullReq) \/ nullOut
          /\ FailErrno(s, "EINVAL")
       \/ /\ ~PayloadError(s, op, nullReq) /\ ~nullOut /\ ~ParsedPayload(s, op).ok
          /\ FailErrno(s, "EBADMSG")
       \/ /\ ~PayloadError(s, op, nullReq) /\ ~nullOut /\ ParsedPayload(s, op).ok
          /\ out' = [out EXCEPT ![s] = Assign(@, Assigned(op, ParsedPayload(s, op).v))]
          /\ decoded' = [decoded EXCEPT ![s] = op]
          /\ Return(s, 0, "none")
          /\ UNCHANGED <<pending, reads, mem, len, sent, req, of>>

Next == \/ Enqueue
        \/ \E s \in Slots :
              \/ Read(s) \/ Forge(s)
              \/ \E n, m \in BOOLEAN : Parse(s, n, m)
              \/ \E op \in OpCodes, n, m \in BOOLEAN : Decode(s, op, n, m)

Spec == Init /\ [][Next]_vars
-----------------------------------------------------------------------------
\* The struct's field for a field on the wire, where the names differ.
FieldOf(op, field) ==
    CASE op = "CREATE_KEY" /\ field.name = "volatile"     -> "volatile_key"
      [] op = "DELETE_LAYER" /\ field.name = "layer_name" -> "name"
      [] op = "FLUSH" /\ field.name = "hive_name"         -> "name"
      [] OTHER                                            -> field.name

\* What a struct's view points at now.
Deref(s, view) == IF view.ptr = NULL THEN NULL
                  ELSE SubSeq(mem[s], view.ptr, view.ptr + view.len - 1)

\* A decode struct that is in force says what the kernel sent: the frame is well
\* formed, of the decoder's op-code, and each field, read through the borrowed
\* pointers out of the buffer as it is now, is the request's; a field that
\* WRITE_KEY leaves out is NULL or 0, whatever an earlier request left in the
\* struct.
DecodedIsSent ==
    \A s \in Slots : decoded[s] # NULL =>
        /\ sent[s].op_code = decoded[s] /\ sent[s].fault = "none"
        /\ \A i \in DOMAIN Layout[decoded[s]] :
              LET field == Layout[decoded[s]][i]
                  value == out[s][FieldOf(decoded[s], field)]
              IN IF field.kind = "lpf"
                 THEN Deref(s, value) = IF IsAbsent(field, sent[s].args) THEN NULL
                                        ELSE sent[s].args[field.name]
                 ELSE value = IF IsAbsent(field, sent[s].args) THEN 0
                              ELSE sent[s].args[field.name]

\* Every borrowed view of a decode struct in force lies inside the frame that was
\* read, never in what an earlier, longer frame left behind it in the buffer.
ViewsStayInFrame ==
    \A s \in Slots : decoded[s] # NULL =>
        \A i \in DOMAIN Layout[decoded[s]] :
            LET field == Layout[decoded[s]][i]
                view == out[s][FieldOf(decoded[s], field)]
            IN field.kind = "lpf" /\ view.ptr # NULL /\ view.len # 0 =>
                  view.ptr > RSI_REQUEST_HEADER_SIZE /\ view.ptr + view.len - 1 <= len[s]

\* An rsi_request in force identifies the request whose frame is in the buffer, so
\* that a response that echoes it reaches the client that is waiting.
IdentifiesRequest ==
    \A s \in Slots : of[s] = "frame" =>
        /\ req[s].request_id = sent[s].request_id
        /\ req[s].txn_id = sent[s].txn_id
        /\ req[s].op_code = sent[s].op_code
        /\ req[s].payload + req[s].payload_len = len[s] + 1

\* EBADMSG blames the kernel only when it sent a malformed frame; a caller's own
\* mistakes are EINVAL.
BadMsgMeansMalformed ==
    \A s \in Slots : errno[s] = "EBADMSG" /\ of[s] # "forged" => sent[s].fault # "none"

\* A call that fails leaves the caller's structs as they were: the request that was
\* being served can still be answered from them.
FailureLeavesStructs ==
    [][\A s \in Slots : ret'[s] = -1 => req'[s] = req[s] /\ out'[s] = out[s]]_vars
=============================================================================
