-------------------------- MODULE ResponseRefinement --------------------------
(***************************************************************************)
(* The rsi_respond_* calls implement ResponseContract.  The contract is    *)
(* stated independently of the helpers: its rules are set-theoretic where  *)
(* the code sorts and compares vectors.  Beside it, what a frame says is   *)
(* what a count-driven parser like the kernel's reads back out of it.      *)
(***************************************************************************)
EXTENDS RespondCall, ResponseHelpers

-----------------------------------------------------------------------------
(* The kernel's reading of a frame (external).  A reader takes a position  *)
(* among the fields and returns the value there and the next position; the *)
(* position is 0 once the frame is malformed.                              *)

Body == [k \in DOMAIN frame.body |-> call.steps[frame.body[k]]]

ReadField(pos, size) ==
    IF pos \in DOMAIN Body /\ Body[pos].size = size
    THEN [next |-> pos + 1, val |-> Body[pos].val]
    ELSE [next |-> 0, val |-> 0]

ReadLpf(pos) == LET n == ReadField(pos, 4) IN
                IF n.val = 0 THEN n ELSE ReadField(n.next, n.val)

\* A u32 count and that many elements, which the function read reads.
Counted(pos, read) ==
    LET n == ReadField(pos, 4)
        f[i \in 0..n.val] ==
            IF i = 0 THEN [next |-> n.next, val |-> <<>>]
            ELSE [next |-> read[f[i - 1].next].next,
                  val  |-> Append(f[i - 1].val, read[f[i - 1].next].val)]
    IN f[n.val]

ReadCounted(pos, Read(_)) == Counted(pos, [p \in 0..(Len(Body) + 1) |-> Read(p)])

ReadPathEntry(pos) ==
    LET a == ReadLpf(pos)
        b == ReadField(a.next, 1)
        c == ReadField(b.next, 16)
        d == ReadField(c.next, 8)
    IN [next |-> d.next, val |-> <<a.val, b.val, c.val, d.val>>]

ReadMetadata(pos) ==
    LET a == ReadField(pos, 16)
        b == ReadLpf(a.next)
        c == ReadField(b.next, 1)
        d == ReadField(c.next, 1)
        e == ReadField(d.next, 8)
    IN [next |-> e.next, val |-> <<a.val, b.val, c.val, d.val, e.val>>]

ReadChild(pos) ==
    LET a == ReadLpf(pos)
        b == ReadCounted(a.next, ReadPathEntry)
    IN [next |-> b.next, val |-> <<a.val, b.val>>]

ReadValue(pos) ==
    LET a == ReadLpf(pos)
        b == ReadLpf(a.next)
        c == ReadField(b.next, 4)
        d == ReadLpf(c.next)
        e == ReadField(d.next, 8)
    IN [next |-> e.next, val |-> <<a.val, b.val, c.val, d.val, e.val>>]

ReadBlanket(pos) ==
    LET a == ReadLpf(pos)
        b == ReadField(a.next, 8)
    IN [next |-> b.next, val |-> <<a.val, b.val>>]

ReadKey(pos) ==
    LET a == ReadLpf(pos)
        b == ReadField(a.next, 16)
        c == ReadLpf(b.next)
        d == ReadField(c.next, 1)
        e == ReadField(d.next, 1)
        f == ReadField(e.next, 8)
    IN [next |-> f.next, val |-> <<a.val, b.val, c.val, d.val, e.val, f.val>>]

ReadOrphans(pos) == LET n == ReadField(pos, 4) IN ReadField(n.next, 16 * n.val)

ReadTwo(R1(_), R2(_)) == LET a == ReadCounted(2, R1)
                             b == ReadCounted(a.next, R2)
                         IN [next |-> b.next, val |-> <<a.val, b.val>>]

\* The payload after the 18 header bytes, by the op-code of the header.
ReadPayload ==
    LET op == frame.op_code[2] IN
    IF frame.size = STATUS_FRAME_LEN THEN [next |-> Len(Body) + 1, val |-> <<>>]
    ELSE CASE op = "LOOKUP"        -> ReadTwo(ReadPathEntry, ReadMetadata)
           [] op = "ENUM_CHILDREN" -> ReadTwo(ReadChild, ReadMetadata)
           [] op = "QUERY_VALUES"  -> ReadTwo(ReadValue, ReadBlanket)
           [] op = "READ_KEY"      -> ReadKey(2)
           [] op = "DELETE_LAYER"  -> ReadOrphans(2)

Received ==
    [ total_len |-> frame.total_len, request_id |-> frame.request_id,
      op_code |-> frame.op_code, status |-> frame.status,
      payload |-> ReadPayload.val, trailing |-> ReadPayload.next # Len(Body) + 1 ]
-----------------------------------------------------------------------------
(* The rules of include/rsi/response.h.                                    *)

ArrayOk(a) == a.null => a.count = 0
LpfOk(f)   == f.null => f.len = 0
BoolOk(b)  == b \in {0, 1}

\* A hidden target carries the nil GUID, and a GUID target another one.  The second
\* half is in no header: metadata has to cover the target, and the nil GUID is
\* refused there (metadata_guid_set).
EntryOk(e) == /\ LpfOk(e.layer)
              /\ \/ e.target_type = RSI_PATH_TARGET_GUID /\ e.target_guid # NilGuid
                 \/ e.target_type = RSI_PATH_TARGET_HIDDEN /\ e.target_guid = NilGuid

MetadataOk(m) == LpfOk(m.sd) /\ BoolOk(m.volatile_key) /\ BoolOk(m.symlink)

EachOk(a, Ok(_)) == ArrayOk(a) /\ \A i \in DOMAIN a.elems : Ok(a.elems[i])

Targets(a) == { a.elems[i].target_guid :
                  i \in { j \in DOMAIN a.elems : a.elems[j].target_type = RSI_PATH_TARGET_GUID } }

\* The metadata names each referenced key once, and no other key.
ExactlyCovers(metadata, targets) ==
    /\ Cardinality(targets) = metadata.count
    /\ { metadata.elems[i].guid : i \in DOMAIN metadata.elems } = targets

ArgsOk(h, a) ==
    CASE h = "rsi_respond_lookup" ->
            /\ EachOk(a.entries, EntryOk) /\ EachOk(a.metadata, MetadataOk)
            /\ ExactlyCovers(a.metadata, Targets(a.entries))
      [] h = "rsi_respond_enum_children" ->
            /\ EachOk(a.children, LAMBDA c : LpfOk(c.child_name) /\ EachOk(c.entries, EntryOk))
            /\ EachOk(a.metadata, MetadataOk)
            /\ ExactlyCovers(a.metadata,
                  UNION { Targets(a.children.elems[i].entries) : i \in DOMAIN a.children.elems })
      [] h = "rsi_respond_delete_layer" ->
            /\ EachOk(a.orphans, LAMBDA g : g # NilGuid)
            /\ Cardinality(Range(a.orphans.elems)) = a.orphans.count
      [] h = "rsi_respond_read_key" ->
            /\ a.parent_guid # NULL /\ LpfOk(a.name) /\ LpfOk(a.sd)
            /\ BoolOk(a.volatile_key) /\ BoolOk(a.symlink)
      [] h = "rsi_respond_query_values" ->
            /\ EachOk(a.entries, LAMBDA e : LpfOk(e.value_name) /\ LpfOk(e.layer_name) /\ LpfOk(e.data))
            /\ EachOk(a.blankets, LAMBDA b : LpfOk(b.layer_name))

HelperOp == [ rsi_respond_lookup        |-> "LOOKUP",
              rsi_respond_enum_children |-> "ENUM_CHILDREN",
              rsi_respond_delete_layer  |-> "DELETE_LAYER",
              rsi_respond_read_key      |-> "READ_KEY",
              rsi_respond_query_values  |-> "QUERY_VALUES" ]

Valid(c) ==
    /\ c.req # NULL
    /\ IF c.helper = "rsi_respond_status"
       THEN /\ c.req.op_code \in OpCodes
            /\ c.args.status \in Statuses
            /\ c.args.status = "RSI_OK" => c.req.op_code \notin PayloadOps
       ELSE c.req.op_code = HelperOp[c.helper] /\ ArgsOk(c.helper, c.args)
-----------------------------------------------------------------------------
(* What the kernel must read for a valid call, and the frame's length.     *)

Bytes(f) == IF f.len = 0 THEN 0 ELSE f.bytes
Map(a, F(_)) == [i \in DOMAIN a.elems |-> F(a.elems[i])]

EntrySays(e)    == <<Bytes(e.layer), e.target_type, e.target_guid, e.sequence>>
MetadataSays(m) == <<m.guid, Bytes(m.sd), m.volatile_key, m.symlink, m.last_write_time>>

PayloadSays(h, a) ==
    CASE h = "rsi_respond_lookup" -> <<Map(a.entries, EntrySays), Map(a.metadata, MetadataSays)>>
      [] h = "rsi_respond_enum_children" ->
            << Map(a.children, LAMBDA c : <<Bytes(c.child_name), Map(c.entries, EntrySays)>>),
               Map(a.metadata, MetadataSays) >>
      [] h = "rsi_respond_delete_layer" -> a.orphans.elems
      [] h = "rsi_respond_read_key" ->
            << Bytes(a.name), a.parent_guid, Bytes(a.sd),
               a.volatile_key, a.symlink, a.last_write_time >>
      [] h = "rsi_respond_query_values" ->
            << Map(a.entries, LAMBDA e : << Bytes(e.value_name), Bytes(e.layer_name),
                                            e.value_type, Bytes(e.data), e.sequence >>),
               Map(a.blankets, LAMBDA b : <<Bytes(b.layer_name), b.sequence>>) >>
      [] OTHER -> <<>>

\* A u32 count and the elements.
Total(a, Size(_)) == 4 + Sum(Map(a, Size))

EntrySize(e)    == 4 + e.layer.len + 1 + 16 + 8
MetadataSize(m) == 16 + 4 + m.sd.len + 1 + 1 + 8

PayloadSize(h, a) ==
    CASE h = "rsi_respond_lookup" -> Total(a.entries, EntrySize) + Total(a.metadata, MetadataSize)
      [] h = "rsi_respond_enum_children" ->
            Total(a.children, LAMBDA c : 4 + c.child_name.len + Total(c.entries, EntrySize))
            + Total(a.metadata, MetadataSize)
      [] h = "rsi_respond_delete_layer" -> 4 + 16 * a.orphans.count
      [] h = "rsi_respond_read_key" -> 4 + a.name.len + 16 + 4 + a.sd.len + 1 + 1 + 8
      [] h = "rsi_respond_query_values" ->
            Total(a.entries, LAMBDA e : 12 + e.value_name.len + e.layer_name.len + 4 + e.data.len + 8)
            + Total(a.blankets, LAMBDA b : 4 + b.layer_name.len + 8)
      [] OTHER -> 0

FrameSize(c) == STATUS_FRAME_LEN + PayloadSize(c.helper, c.args)

Expected(c) ==
    [ total_len |-> FrameSize(c), request_id |-> c.req.request_id,
      op_code |-> ResponseOp(c.req.op_code),
      status |-> IF c.helper = "rsi_respond_status" THEN c.args.status ELSE "RSI_OK",
      payload |-> PayloadSays(c.helper, c.args), trailing |-> FALSE ]

-----------------------------------------------------------------------------
(* What callers pass.  By the safety contracts of the helpers a pointer is *)
(* NULL or valid for the length or the count beside it.                    *)

IsField(f) == f.null \in BOOLEAN /\ f.len \in Nat

WellSized(a) == /\ a.null \in BOOLEAN /\ a.count \in Nat /\ a.elems \in Seq(Range(a.elems))
                /\ IF a.null THEN a.elems = <<>> ELSE Len(a.elems) = a.count

IsArray(a, Is(_)) == WellSized(a) /\ \A i \in 1..Len(a.elems) : Is(a.elems[i])

IsEntry(e)    == IsField(e.layer) /\ e.target_guid \in Nat
IsChild(c)    == IsField(c.child_name) /\ IsArray(c.entries, IsEntry)
IsMetadata(m) == m.guid \in Nat /\ IsField(m.sd)
IsValue(e)    == IsField(e.value_name) /\ IsField(e.layer_name) /\ IsField(e.data)
IsBlanket(b)  == IsField(b.layer_name)
IsGuid(g)     == g \in Nat

\* A call of one of the helpers.
IsCall(c) ==
    LET a == c.args IN
    \/ /\ c.helper = "rsi_respond_lookup" /\ c = rsi_respond_lookup(c.req, a.entries, a.metadata)
       /\ IsArray(a.entries, IsEntry) /\ IsArray(a.metadata, IsMetadata)
    \/ /\ c.helper = "rsi_respond_enum_children"
       /\ c = rsi_respond_enum_children(c.req, a.children, a.metadata)
       /\ IsArray(a.children, IsChild) /\ IsArray(a.metadata, IsMetadata)
    \/ /\ c.helper = "rsi_respond_delete_layer" /\ c = rsi_respond_delete_layer(c.req, a.orphans)
       /\ IsArray(a.orphans, IsGuid)
    \/ /\ c.helper = "rsi_respond_read_key"
       /\ c = rsi_respond_read_key(c.req, a.name, a.parent_guid, a.sd, a.volatile_key, a.symlink,
                                   a.last_write_time)
       /\ IsField(a.name) /\ IsField(a.sd)
    \/ /\ c.helper = "rsi_respond_query_values"
       /\ c = rsi_respond_query_values(c.req, a.entries, a.blankets)
       /\ IsArray(a.entries, IsValue) /\ IsArray(a.blankets, IsBlanket)
    \/ c.helper = "rsi_respond_status" /\ c = rsi_respond_status(c.req, a.status)

ASSUME HelperAssumption == \A c \in Calls : IsCall(c)
-----------------------------------------------------------------------------
(* The properties. *)

\* Is every check of the call's line of steps passed?
Passes(c) == \A i \in 1..Len(c.steps) : c.steps[i].kind = "require" => c.steps[i].ok

\* How many bytes each step of a line appends, and all of them.
FieldSizes(steps) == [n \in 1..Len(steps) |-> IF steps[n].kind = "emit" THEN steps[n].size ELSE 0]
Encoded(steps)    == Sum(FieldSizes(steps))

\* The checks of c pass exactly when c is valid, and its fields then add up to the
\* length that the rules give its frame.
Decides(c) ==
    /\ Valid(c) <=> Passes(c)
    /\ Valid(c) =>
          IF c.helper = "rsi_respond_status" THEN FrameSize(c) = STATUS_FRAME_LEN
          ELSE c.req.op_code \in OpCodes /\ Encoded(c.steps) = FrameSize(c)

\* The validation of a helper, which sorts GUID vectors and compares neighbours,
\* decides the rules of response.h for every call that is made, and its encoder
\* appends as many bytes as the rules give the frame.
HelpersDecide == next = 1 => Decides(call)

\* The kernel reads out of a delivered frame exactly what the caller passed, to
\* its last byte: counts match the elements that follow, length prefixes the
\* bytes, total_len the frame, and the header echoes the request.
FrameReadsBack ==
    frame.size # 0 /\ sent = frame.size => Received = Expected(call)

Contract == INSTANCE ResponseContract
              WITH got <- IF pc # "returned" \/ frame.size = 0 THEN "unwritten"
                          ELSE IF sent = 0 THEN "nothing"
                          ELSE IF sent < frame.size THEN "torn" ELSE "whole",
                   ret <- IF pc # "returned" THEN "pending"
                          ELSE IF ret = 0 THEN "ok" ELSE "failed"

\* Every rsi_respond_* call keeps response.h: it succeeds only when the device
\* took a whole frame for arguments that keep the rules, it fails with the errno
\* the header names for the cause, a call that breaks a rule is refused with
\* EINVAL before write(2), and one that breaks none gets as far as write(2) unless
\* memory or its length keeps it from there.
KeepsContract == Contract!Spec
=============================================================================
