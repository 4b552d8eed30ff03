---------------------------- MODULE ResponseProofs ----------------------------
(***************************************************************************)
(* Theorems about the rsi_respond_* helpers, for every set of calls that   *)
(* keeps HelperAssumption: they keep the contract of response.h, and what  *)
(* they send is read back as what they were passed.                        *)
(***************************************************************************)
EXTENDS RespondCallProofs, ValidationProofs

-----------------------------------------------------------------------------
(* Reading the payload of each helper *)

\* The header takes the first place of the frame.
LEMMA HeaderSpan ==
    ASSUME NEW a, NEW b, Quiet(a), Quiet(b), NEW q, Spans(a \o b \o new_writer, 1, q)
    PROVE  q = 2
<1>1. PICK w : w = new_writer /\ IsSeq(w)
  BY EmitSeq, Zenon DEF new_writer
<1>2. IsSeq(a) /\ IsSeq(b)
  BY Zenon DEF Quiet
<1>3. InTurn3(a, b, w, 1, q)
  BY <1>1, <1>2, Split3, Zenon
<1>4. PICK i, j : Spans(a, 1, i) /\ Spans(b, i, j) /\ Spans(w, j, q)
  BY <1>3, Zenon DEF InTurn3
<1>5. i = 1 /\ j = i
  BY <1>4, QuietSpan, Zenon
<1>6. q = j + 1
  BY <1>1, <1>4, EmitSpan, Zenon DEF new_writer
<1> QED
  BY <1>5, <1>6

\* A reading as a record.
LEMMA RecordGets == ASSUME NEW n, NEW v PROVE Gets([next |-> n, val |-> v], n, v)
BY DEF Gets

\* rsi_respond_lookup.
LEMMA LookupReads ==
    ASSUME NEW req, NEW a, NEW b, IsArray(a, IsEntry), IsArray(b, IsMetadata), ArrayOk(a), ArrayOk(b),
           NEW q, Spans(LookupSteps(req, a, b), 1, q)
    PROVE  Gets(ReadTwo(ReadPathEntry, ReadMetadata), q, <<Map(a, EntrySays), Map(b, MetadataSays)>>)
<1>1. PICK c, d : /\ c = require_response_req(req, "LOOKUP") /\ d = validate_lookup_metadata(a, b)
                  /\ Quiet(c) /\ Quiet(d) /\ IsSeq(c) /\ IsSeq(d)
  BY QuietRequest, QuietLookup, Zenon DEF IsArray, Quiet
<1>2. PICK e : e = c \o d \o new_writer /\ IsSeq(e)
  BY <1>1, EmitSeq, ConcatSeq, Zenon DEF new_writer
<1>3. PICK x : x = encode_path_entry_block(a) /\ IsSeq(x)
  BY EntryBlock, Zenon DEF Sized, Line
<1>4. PICK y : y = encode_metadata_block(b) /\ IsSeq(y)
  BY MetadataBlock, Zenon DEF Sized, Line
<1>5. Spans(e \o x \o y, 1, q)
  BY <1>1, <1>2, <1>3, <1>4, Zenon DEF LookupSteps
<1>6. InTurn3(e, x, y, 1, q)
  BY <1>2, <1>3, <1>4, <1>5, Split3, Zenon
<1>7. PICK k, m : Spans(e, 1, k) /\ Spans(x, k, m) /\ Spans(y, m, q)
  BY <1>6, Zenon DEF InTurn3
<1>8. k = 2
  BY <1>1, <1>2, <1>7, HeaderSpan, Zenon
<1>9. PICK r : r = ReadCounted(2, ReadPathEntry) /\ Gets(r, m, Map(a, EntrySays))
  BY <1>3, <1>7, <1>8, EntriesSpan, Zenon
<1>10. PICK s : s = ReadCounted(m, ReadMetadata) /\ Gets(s, q, Map(b, MetadataSays))
  BY <1>4, <1>7, MetadataBlockSpan, Zenon
<1>11. r.next = m
  BY <1>9, Zenon DEF Gets
<1>12. ReadTwo(ReadPathEntry, ReadMetadata) = [next |-> s.next, val |-> <<r.val, s.val>>]
  BY <1>9, <1>10, <1>11, Zenon DEF ReadTwo
<1>13. ReadTwo(ReadPathEntry, ReadMetadata) = [next |-> q, val |-> <<Map(a, EntrySays), Map(b, MetadataSays)>>]
  BY <1>9, <1>10, <1>12, Zenon DEF Gets
<1> QED
  BY <1>13, RecordGets, Zenon

\* rsi_respond_enum_children.
LEMMA EnumReads ==
    ASSUME NEW req, NEW a, NEW b, IsArray(a, IsChild), IsArray(b, IsMetadata), ArrayOk(a), ArrayOk(b),
           \A i \in DOMAIN a.elems : ArrayOk(a.elems[i].entries),
           NEW q, Spans(EnumSteps(req, a, b), 1, q)
    PROVE  Gets(ReadTwo(ReadChild, ReadMetadata), q, <<Map(a, ChildSays), Map(b, MetadataSays)>>)
<1>1. PICK c, d : /\ c = require_response_req(req, "ENUM_CHILDREN") /\ d = validate_enum_children_metadata(a, b)
                  /\ Quiet(c) /\ Quiet(d) /\ IsSeq(c) /\ IsSeq(d)
  BY QuietRequest, QuietEnum, Zenon DEF Quiet
<1>2. PICK e : e = c \o d \o new_writer /\ IsSeq(e)
  BY <1>1, EmitSeq, ConcatSeq, Zenon DEF new_writer
<1>3. PICK v : v = u32(a.count) /\ IsSeq(v)
  BY FixedSeq, Zenon
<1>4. PICK lines : lines = [i \in DOMAIN a.elems |-> ChildSteps(a.elems[i])]
  BY Zenon
<1>5. PICK read : read = [x \in 0..(Len(Body) + 1) |-> ReadChild(x)]
  BY Zenon
<1>6. WellSized(a) /\ ReadsLines(read, a, lines, Map(a, ChildSays))
  BY <1>4, <1>5, ChildrenRead, Zenon DEF IsArray
<1>7. PICK x : x = ChildLines(a) /\ x = Flatten(lines) /\ IsSeq(x)
  BY <1>4, <1>6, LinesSeq, Zenon DEF ChildLines
<1>8. PICK y : y = encode_metadata_block(b) /\ IsSeq(y)
  BY MetadataBlock, Zenon DEF Sized, Line
<1>9. Spans(e \o v \o x \o y, 1, q)
  BY <1>1, <1>2, <1>3, <1>7, <1>8, Zenon DEF EnumSteps
<1>10. InTurn4(e, v, x, y, 1, q)
  BY <1>2, <1>3, <1>7, <1>8, <1>9, Split4, Zenon
<1>11. PICK k, l, m : Spans(e, 1, k) /\ Spans(v, k, l) /\ Spans(x, l, m) /\ Spans(y, m, q)
  BY <1>10, Zenon DEF InTurn4
<1>12. k = 2
  BY <1>1, <1>2, <1>11, HeaderSpan, Zenon
<1>13. PICK r : r = ReadCounted(2, ReadChild) /\ Gets(r, m, Map(a, ChildSays))
  <2>1. Gets(Counted(2, read), m, Map(a, ChildSays))
    BY <1>3, <1>6, <1>7, <1>11, <1>12, ArrayReads, Zenon
  <2> QED
    BY <1>5, <2>1, Zenon DEF ReadCounted
<1>14. PICK s : s = ReadCounted(m, ReadMetadata) /\ Gets(s, q, Map(b, MetadataSays))
  BY <1>8, <1>11, MetadataBlockSpan, Zenon
<1>15. r.next = m
  BY <1>13, Zenon DEF Gets
<1>16. ReadTwo(ReadChild, ReadMetadata) = [next |-> s.next, val |-> <<r.val, s.val>>]
  BY <1>13, <1>14, <1>15, Zenon DEF ReadTwo
<1>17. ReadTwo(ReadChild, ReadMetadata) = [next |-> q, val |-> <<Map(a, ChildSays), Map(b, MetadataSays)>>]
  BY <1>13, <1>14, <1>16, Zenon DEF Gets
<1> QED
  BY <1>17, RecordGets, Zenon

\* rsi_respond_query_values.
LEMMA QueryReads ==
    ASSUME NEW req, NEW a, NEW b, IsArray(a, IsValue), IsArray(b, IsBlanket), ArrayOk(a), ArrayOk(b),
           NEW q, Spans(QuerySteps(req, a, b), 1, q)
    PROVE  Gets(ReadTwo(ReadValue, ReadBlanket), q, <<Map(a, ValueSays), Map(b, BlanketSays)>>)
<1>1. PICK c : c = require_response_req(req, "QUERY_VALUES") \o require_array(a) /\ Quiet(c) /\ IsSeq(c)
  BY QuietRequest, QuietCheck, QuietConcat, Zenon DEF Quiet, require_array
<1>2. PICK d : d = require_array(b) /\ Quiet(d) /\ IsSeq(d)
  BY QuietCheck, Zenon DEF Quiet, require_array
<1>3. PICK e : e = c \o d \o new_writer /\ IsSeq(e)
  BY <1>1, <1>2, EmitSeq, ConcatSeq, Zenon DEF new_writer
<1>4. PICK v, w : v = u32(a.count) /\ IsSeq(v) /\ w = u32(b.count) /\ IsSeq(w)
  BY FixedSeq, Zenon
<1>5. PICK la, lb : /\ la = [i \in DOMAIN a.elems |-> ValueSteps(a.elems[i])]
                    /\ lb = [i \in DOMAIN b.elems |-> BlanketSteps(b.elems[i])]
  BY Zenon
<1>6. PICK ra, rb : /\ ra = [x \in 0..(Len(Body) + 1) |-> ReadValue(x)]
                    /\ rb = [x \in 0..(Len(Body) + 1) |-> ReadBlanket(x)]
  BY Zenon
<1>7. WellSized(a) /\ ReadsLines(ra, a, la, Map(a, ValueSays))
  BY <1>5, <1>6, ValuesRead, Zenon DEF IsArray
<1>8. WellSized(b) /\ ReadsLines(rb, b, lb, Map(b, BlanketSays))
  BY <1>5, <1>6, BlanketsRead, Zenon DEF IsArray
<1>9. PICK x : x = ValueLines(a) /\ x = Flatten(la) /\ IsSeq(x)
  BY <1>5, <1>7, LinesSeq, Zenon DEF ValueLines
<1>10. PICK y : y = BlanketLines(b) /\ y = Flatten(lb) /\ IsSeq(y)
  BY <1>5, <1>8, LinesSeq, Zenon DEF BlanketLines
<1>11. Spans(e \o v \o x \o w \o y, 1, q)
  BY <1>1, <1>2, <1>3, <1>4, <1>9, <1>10, Zenon DEF QuerySteps
<1>12. InTurn5(e, v, x, w, y, 1, q)
  BY <1>3, <1>4, <1>9, <1>10, <1>11, Split5, Zenon
<1>13. PICK i, j, k, l : Spans(e, 1, i) /\ Spans(v, i, j) /\ Spans(x, j, k) /\ Spans(w, k, l) /\ Spans(y, l, q)
  BY <1>12, Zenon DEF InTurn5
<1>14. i = 2
  BY <1>1, <1>2, <1>3, <1>13, HeaderSpan, Zenon
<1>15. PICK r : r = ReadCounted(2, ReadValue) /\ Gets(r, k, Map(a, ValueSays))
  <2>1. Gets(Counted(2, ra), k, Map(a, ValueSays))
    BY <1>4, <1>7, <1>9, <1>13, <1>14, ArrayReads, Zenon
  <2> QED
    BY <1>6, <2>1, Zenon DEF ReadCounted
<1>16. PICK s : s = ReadCounted(k, ReadBlanket) /\ Gets(s, q, Map(b, BlanketSays))
  <2>1. Gets(Counted(k, rb), q, Map(b, BlanketSays))
    BY <1>4, <1>8, <1>10, <1>13, ArrayReads, Zenon
  <2> QED
    BY <1>6, <2>1, Zenon DEF ReadCounted
<1>17. r.next = k
  BY <1>15, Zenon DEF Gets
<1>18. ReadTwo(ReadValue, ReadBlanket) = [next |-> s.next, val |-> <<r.val, s.val>>]
  BY <1>15, <1>16, <1>17, Zenon DEF ReadTwo
<1>19. ReadTwo(ReadValue, ReadBlanket) = [next |-> q, val |-> <<Map(a, ValueSays), Map(b, BlanketSays)>>]
  BY <1>15, <1>16, <1>18, Zenon DEF Gets
<1> QED
  BY <1>19, RecordGets, Zenon

\* rsi_respond_delete_layer.
LEMMA DeleteLayerReads ==
    ASSUME NEW req, NEW a, NEW q, Spans(DeleteLayerSteps(req, a), 1, q)
    PROVE  Gets(ReadOrphans(2), q, a.elems)
<1>1. PICK c, d : /\ c = require_response_req(req, "DELETE_LAYER") /\ d = orphaned_guid_bytes(a)
                  /\ Quiet(c) /\ Quiet(d) /\ IsSeq(c) /\ IsSeq(d)
  BY QuietRequest, QuietOrphans, Zenon DEF Quiet
<1>2. PICK e : e = c \o d \o new_writer /\ IsSeq(e)
  BY <1>1, EmitSeq, ConcatSeq, Zenon DEF new_writer
<1>3. PICK x : x = u32(a.count) /\ IsSeq(x)
  BY FixedSeq, Zenon
<1>4. PICK y : y = Emit(a.elems, 16 * a.count) /\ IsSeq(y)
  BY EmitSeq, Zenon
<1>5. Spans(e \o x \o y, 1, q)
  BY <1>1, <1>2, <1>3, <1>4, Zenon DEF DeleteLayerSteps
<1>6. InTurn3(e, x, y, 1, q)
  BY <1>2, <1>3, <1>4, <1>5, Split3, Zenon
<1>7. PICK k, m : Spans(e, 1, k) /\ Spans(x, k, m) /\ Spans(y, m, q)
  BY <1>6, Zenon DEF InTurn3
<1>8. k = 2
  BY <1>1, <1>2, <1>7, HeaderSpan, Zenon
<1>9. Gets(ReadField(2, 4), m, a.count)
  BY <1>3, <1>7, <1>8, FixedSpan, Zenon
<1>10. Gets(ReadField(m, 16 * a.count), q, a.elems)
  BY <1>4, <1>7, EmitSpan, Zenon
<1> QED
  BY <1>9, <1>10, Zenon DEF ReadOrphans, Gets

\* rsi_respond_read_key.
LEMMA ReadKeyReads ==
    ASSUME NEW req, NEW name, NEW parent, NEW sd, NEW vol, NEW sym, NEW lwt, IsField(name), IsField(sd),
           NEW q, Spans(ReadKeySteps(req, name, parent, sd, vol, sym, lwt), 1, q)
    PROVE  Gets(ReadKey(2), q, <<Bytes(name), parent, Bytes(sd), vol, sym, lwt>>)
<1>1. PICK c, d : /\ c = require_response_req(req, "READ_KEY") /\ d = Check(parent # NULL)
                  /\ Quiet(c) /\ Quiet(d) /\ IsSeq(c) /\ IsSeq(d)
  BY QuietRequest, QuietCheck, Zenon DEF Quiet
<1>2. PICK e : e = c \o d \o new_writer /\ IsSeq(e)
  BY <1>1, EmitSeq, ConcatSeq, Zenon DEF new_writer
<1>3. PICK n, s : n = lpf(name) /\ s = lpf(sd) /\ IsSeq(n) /\ IsSeq(s)
  BY LpfSeq, Zenon
<1>4. PICK g, x, y, z : /\ g = Emit(parent, 16) /\ x = u8(vol) /\ y = u8(sym) /\ z = u64(lwt)
                        /\ IsSeq(g) /\ IsSeq(x) /\ IsSeq(y) /\ IsSeq(z)
  BY EmitSeq, FixedSeq, Zenon
<1>5. PICK f : f = require_bool(vol) /\ Quiet(f) /\ IsSeq(f)
  BY QuietCheck, Zenon DEF require_bool, Quiet
<1>6. PICK h : h = require_bool(sym) /\ Quiet(h) /\ IsSeq(h)
  BY QuietCheck, Zenon DEF require_bool, Quiet
<1>7. PICK t : t = e \o n \o g \o s /\ IsSeq(t)
  BY <1>2, <1>3, <1>4, ConcatSeq, Zenon
<1>8. PICK o : o = t \o f \o h /\ IsSeq(o)
  BY <1>5, <1>6, <1>7, ConcatSeq, Zenon
<1>9. Spans(o \o x \o y \o z, 1, q)
  BY <1>1, <1>2, <1>3, <1>4, <1>5, <1>6, <1>7, <1>8, Zenon DEF ReadKeySteps
<1>10. InTurn4(o, x, y, z, 1, q)
  BY <1>4, <1>8, <1>9, Split4, Zenon
<1>11. PICK k, l, m : Spans(o, 1, k) /\ Spans(x, k, l) /\ Spans(y, l, m) /\ Spans(z, m, q)
  BY <1>10, Zenon DEF InTurn4
<1>12. InTurn3(t, f, h, 1, k)
  BY <1>5, <1>6, <1>7, <1>8, <1>11, Split3, Zenon
<1>13. PICK i, j : Spans(t, 1, i) /\ Spans(f, i, j) /\ Spans(h, j, k)
  BY <1>12, Zenon DEF InTurn3
<1>14. j = i /\ k = i
  BY <1>5, <1>6, <1>13, QuietSpan, Zenon
<1>15. InTurn4(e, n, g, s, 1, i)
  BY <1>2, <1>3, <1>4, <1>7, <1>13, Split4, Zenon
<1>16. PICK a, b, r : Spans(e, 1, a) /\ Spans(n, a, b) /\ Spans(g, b, r) /\ Spans(s, r, i)
  BY <1>15, Zenon DEF InTurn4
<1>17. a = 2
  BY <1>1, <1>2, <1>16, HeaderSpan, Zenon
<1>18. Gets(ReadLpf(2), b, Bytes(name)) /\ Gets(ReadLpf(r), i, Bytes(sd))
  BY <1>3, <1>16, <1>17, LpfSpan, Zenon
<1>19. Gets(ReadField(b, 16), r, parent)
  BY <1>4, <1>16, EmitSpan, Zenon
<1>20. Gets(ReadField(i, 1), l, vol) /\ Gets(ReadField(l, 1), m, sym) /\ Gets(ReadField(m, 8), q, lwt)
  BY <1>4, <1>11, <1>14, FixedSpan, Zenon
<1> QED
  BY <1>18, <1>19, <1>20, Zenon DEF ReadKey, Gets
-----------------------------------------------------------------------------
(* The whole frame *)

\* The fields of the frame are those of the call.
LEMMA WholeSpan ==
    ASSUME IInv, FollowInv, frame.size # 0, call.helper # "rsi_respond_status"
    PROVE  Spans(call.steps, 1, Len(Body) + 1)
<1>1. next = Len(call.steps) + 1 /\ frame.body = buf /\ ~oom
  BY DEF IInv, FrameInv
<1>2. PICK N \in Nat : N = Len(call.steps) /\ next - 1 = N
  BY <1>1, StepFacts DEF IInv
<1>3. PICK m \in Nat : m = Len(buf) /\ DOMAIN buf = 1..m
  BY DEF IInv, TypeOK
<1>4. DOMAIN Body = 1..m /\ \A k \in 1..m : Body[k] = call.steps[buf[k]]
  BY <1>1, <1>3, Zenon DEF Body
<1>5. Len(Body) = m
  BY <1>1, <1>3 DEF Body
<1>6. PICK h : Follow(h, call, buf, next)
  BY <1>1, Zenon DEF FollowInv
<1>7. h \in [0..N -> 1..(m + 1)] /\ h[0] = 1 /\ h[N] = m + 1
  BY <1>2, <1>3, <1>6, Zenon DEF Follow
<1>8. ASSUME NEW i \in 1..N
      PROVE  IF call.steps[i].kind = "emit"
             THEN h[i] = h[i - 1] + 1 /\ h[i - 1] \in DOMAIN Body /\ Body[h[i - 1]] = call.steps[i]
             ELSE h[i] = h[i - 1]
  <2>1. IF call.steps[i].kind = "emit" THEN h[i] = h[i - 1] + 1 /\ h[i - 1] \in 1..m /\ buf[h[i - 1]] = i
        ELSE h[i] = h[i - 1]
    BY <1>2, <1>3, <1>6, Zenon DEF Follow
  <2> QED
    BY <1>4, <2>1, Zenon
<1>9. Track(h, call.steps, 1, Len(Body) + 1)
  BY <1>2, <1>5, <1>7, <1>8, Zenon DEF Track
<1> QED
  BY <1>9, Zenon DEF Spans

\* The frame is that of the valid call c.
FrameOf(c) == /\ Valid(c) /\ frame.size = FrameSize(c) /\ frame.op_code = ResponseOp(c.req.op_code)
              /\ Spans(c.steps, 1, Len(Body) + 1)

\* The payload is read as what the call says, to the end of the frame.
PayloadBack(c) == Gets(ReadPayload, Len(Body) + 1, PayloadSays(c.helper, c.args))

\* A frame longer than its header is read by its op-code.
LEMMA ReadsByOp ==
    ASSUME frame.size # STATUS_FRAME_LEN, NEW op, frame.op_code = ResponseOp(op)
    PROVE  /\ op = "LOOKUP" => ReadPayload = ReadTwo(ReadPathEntry, ReadMetadata)
           /\ op = "ENUM_CHILDREN" => ReadPayload = ReadTwo(ReadChild, ReadMetadata)
           /\ op = "QUERY_VALUES" => ReadPayload = ReadTwo(ReadValue, ReadBlanket)
           /\ op = "READ_KEY" => ReadPayload = ReadKey(2)
           /\ op = "DELETE_LAYER" => ReadPayload = ReadOrphans(2)
<1>1. frame.op_code[2] = op
  BY DEF ResponseOp
<1> QED
  BY <1>1, Zenon DEF ReadPayload

\* A block of metadata is longer than nothing.
LEMMA MetadataTotal ==
    ASSUME NEW a, IsArray(a, IsMetadata)
    PROVE  \E n \in Nat : Total(a, MetadataSize) = 4 + n
<1>1. PICK r : r = Flatten([i \in DOMAIN a.elems |-> MetadataSteps(a.elems[i])])
  BY Zenon
<1>2. Sum(Map(a, MetadataSize)) \in Nat
  BY <1>1, EachMetadata, SizesAre, Zenon DEF Sized
<1> QED
  BY <1>2, Zenon DEF Total

\* What the lookup helper was passed is what is read.
LEMMA LookupBack ==
    ASSUME NEW req, NEW a, NEW b, IsArray(a, IsEntry), IsArray(b, IsMetadata),
           NEW c, Makes(c, rsi_respond_lookup(req, a, b)), FrameOf(c)
    PROVE  PayloadBack(c)
<1>0. Valid(c) /\ frame.size = FrameSize(c) /\ frame.op_code = ResponseOp(c.req.op_code)
  BY Zenon DEF FrameOf
<1>1. /\ c.helper = "rsi_respond_lookup" /\ c.req = req /\ c.args.entries = a /\ c.args.metadata = b
      /\ c.steps = LookupSteps(req, a, b)
  BY LookupCall
<1>2. c.req.op_code = "LOOKUP" /\ ArgsOk("rsi_respond_lookup", c.args)
  BY <1>0, <1>1 DEF Valid, HelperOp
<1>3. ArrayOk(a) /\ ArrayOk(b)
  BY <1>1, <1>2, LookupRules, Zenon DEF EachOk
<1>4. frame.size # STATUS_FRAME_LEN
  <2>1. PICK n \in Nat : Total(b, MetadataSize) = 4 + n
    BY MetadataTotal
  <2>2. PICK m \in Nat : m = Total(a, EntrySize)
    BY EntryBlock, SizesAre, Zenon DEF Sized
  <2>3. FrameSize(c) = STATUS_FRAME_LEN + (m + (4 + n))
    BY <1>1, <2>1, <2>2, LookupSize, Zenon DEF FrameSize
  <2> QED
    BY <1>0, <2>3 DEF STATUS_FRAME_LEN
<1>5. ReadPayload = ReadTwo(ReadPathEntry, ReadMetadata)
  BY <1>0, <1>2, <1>4, ReadsByOp, Zenon
<1>6. Gets(ReadTwo(ReadPathEntry, ReadMetadata), Len(Body) + 1, <<Map(a, EntrySays), Map(b, MetadataSays)>>)
  <2>1. Spans(LookupSteps(req, a, b), 1, Len(Body) + 1)
    BY <1>1, Zenon DEF FrameOf
  <2> QED
    BY <2>1, <1>3, LookupReads, Zenon
<1>7. PayloadSays("rsi_respond_lookup", c.args) = <<Map(a, EntrySays), Map(b, MetadataSays)>>
  BY <1>1, Zenon DEF PayloadSays
<1> QED
  BY <1>1, <1>5, <1>6, <1>7, Zenon DEF PayloadBack

\* So for rsi_respond_enum_children.
LEMMA EnumBack ==
    ASSUME NEW req, NEW a, NEW b, IsArray(a, IsChild), IsArray(b, IsMetadata),
           NEW c, Makes(c, rsi_respond_enum_children(req, a, b)), FrameOf(c)
    PROVE  PayloadBack(c)
<1>0. Valid(c) /\ frame.size = FrameSize(c) /\ frame.op_code = ResponseOp(c.req.op_code)
  BY Zenon DEF FrameOf
<1>1. /\ c.helper = "rsi_respond_enum_children" /\ c.req = req /\ c.args.children = a /\ c.args.metadata = b
      /\ c.steps = EnumSteps(req, a, b)
  BY EnumCall
<1>2. c.req.op_code = "ENUM_CHILDREN" /\ ArgsOk("rsi_respond_enum_children", c.args)
  BY <1>0, <1>1 DEF Valid, HelperOp
<1>3. EachOk(a, ChildOk) /\ ArrayOk(b)
  BY <1>1, <1>2, EnumRules, Zenon DEF EachOk
<1>4. ArrayOk(a) /\ \A i \in DOMAIN a.elems : ArrayOk(a.elems[i].entries)
  BY <1>3, Zenon DEF EachOk, ChildOk
<1>5. frame.size # STATUS_FRAME_LEN
  <2>1. PICK n \in Nat : Total(b, MetadataSize) = 4 + n
    BY MetadataTotal
  <2>2. PICK r : r = Flatten([i \in DOMAIN a.elems |-> ChildSteps(a.elems[i])])
    BY Zenon
  <2>3. PICK m \in Nat : m = Sum(Map(a, ChildSize))
    BY <2>2, EachChild, SizesAre, Zenon DEF Sized
  <2>4. FrameSize(c) = STATUS_FRAME_LEN + ((4 + m) + (4 + n))
    BY <1>1, <2>1, <2>3, EnumSize, Zenon DEF FrameSize
  <2> QED
    BY <1>0, <2>4 DEF STATUS_FRAME_LEN
<1>6. ReadPayload = ReadTwo(ReadChild, ReadMetadata)
  BY <1>0, <1>2, <1>5, ReadsByOp, Zenon
<1>7. Gets(ReadTwo(ReadChild, ReadMetadata), Len(Body) + 1, <<Map(a, ChildSays), Map(b, MetadataSays)>>)
  <2>1. Spans(EnumSteps(req, a, b), 1, Len(Body) + 1)
    BY <1>1, Zenon DEF FrameOf
  <2> QED
    BY <2>1, <1>3, <1>4, EnumReads, Zenon
<1>8. PayloadSays("rsi_respond_enum_children", c.args) = <<Map(a, ChildSays), Map(b, MetadataSays)>>
  BY <1>1 DEF PayloadSays, Map, ChildSays
<1> QED
  BY <1>1, <1>6, <1>7, <1>8, Zenon DEF PayloadBack

\* So for rsi_respond_delete_layer.
LEMMA DeleteLayerBack ==
    ASSUME NEW req, NEW a, IsArray(a, IsGuid), NEW c, Makes(c, rsi_respond_delete_layer(req, a)), FrameOf(c)
    PROVE  PayloadBack(c)
<1>0. Valid(c) /\ frame.size = FrameSize(c) /\ frame.op_code = ResponseOp(c.req.op_code)
  BY Zenon DEF FrameOf
<1>1. /\ c.helper = "rsi_respond_delete_layer" /\ c.req = req /\ c.args.orphans = a
      /\ c.steps = DeleteLayerSteps(req, a)
  BY DeleteLayerCall
<1>2. c.req.op_code = "DELETE_LAYER"
  BY <1>0, <1>1 DEF Valid, HelperOp
<1>3. frame.size # STATUS_FRAME_LEN
  <2>1. PICK n \in Nat : n = a.count
    BY Zenon DEF IsArray, WellSized
  <2>2. FrameSize(c) = STATUS_FRAME_LEN + (4 + 16 * n)
    BY <1>1, <2>1, OrphanSize, Zenon DEF FrameSize
  <2> QED
    BY <1>0, <2>2 DEF STATUS_FRAME_LEN
<1>4. ReadPayload = ReadOrphans(2)
  BY <1>0, <1>2, <1>3, ReadsByOp, Zenon
<1>5. Gets(ReadOrphans(2), Len(Body) + 1, a.elems)
  <2>1. Spans(DeleteLayerSteps(req, a), 1, Len(Body) + 1)
    BY <1>1, Zenon DEF FrameOf
  <2> QED
    BY <2>1, DeleteLayerReads, Zenon
<1>6. PayloadSays("rsi_respond_delete_layer", c.args) = a.elems
  BY <1>1, Zenon DEF PayloadSays
<1> QED
  BY <1>1, <1>4, <1>5, <1>6, Zenon DEF PayloadBack

\* So for rsi_respond_read_key.
LEMMA ReadKeyBack ==
    ASSUME NEW req, NEW name, NEW parent, NEW sd, NEW vol, NEW sym, NEW lwt, IsField(name), IsField(sd),
           NEW c, Makes(c, rsi_respond_read_key(req, name, parent, sd, vol, sym, lwt)), FrameOf(c)
    PROVE  PayloadBack(c)
<1>0. Valid(c) /\ frame.size = FrameSize(c) /\ frame.op_code = ResponseOp(c.req.op_code)
  BY Zenon DEF FrameOf
<1>1. /\ c.helper = "rsi_respond_read_key" /\ c.req = req
      /\ c.args.name = name /\ c.args.parent_guid = parent /\ c.args.sd = sd
      /\ c.args.volatile_key = vol /\ c.args.symlink = sym /\ c.args.last_write_time = lwt
      /\ c.steps = ReadKeySteps(req, name, parent, sd, vol, sym, lwt)
  BY ReadKeyCall
<1>2. c.req.op_code = "READ_KEY"
  BY <1>0, <1>1 DEF Valid, HelperOp
<1>3. frame.size # STATUS_FRAME_LEN
  <2>1. PICK m \in Nat, n \in Nat : m = name.len /\ n = sd.len
    BY Zenon DEF IsField
  <2>2. FrameSize(c) = STATUS_FRAME_LEN + (4 + m + 16 + 4 + n + 1 + 1 + 8)
    BY <1>1, <2>1, ReadKeySize, Zenon DEF FrameSize
  <2> QED
    BY <1>0, <2>2 DEF STATUS_FRAME_LEN
<1>4. ReadPayload = ReadKey(2)
  BY <1>0, <1>2, <1>3, ReadsByOp, Zenon
<1>5. Gets(ReadKey(2), Len(Body) + 1, <<Bytes(name), parent, Bytes(sd), vol, sym, lwt>>)
  <2>1. Spans(ReadKeySteps(req, name, parent, sd, vol, sym, lwt), 1, Len(Body) + 1)
    BY <1>1, Zenon DEF FrameOf
  <2> QED
    BY <2>1, ReadKeyReads, Zenon
<1>6. PayloadSays("rsi_respond_read_key", c.args) = <<Bytes(name), parent, Bytes(sd), vol, sym, lwt>>
  BY <1>1, Zenon DEF PayloadSays
<1> QED
  BY <1>1, <1>4, <1>5, <1>6, Zenon DEF PayloadBack

\* So for rsi_respond_query_values.
LEMMA QueryBack ==
    ASSUME NEW req, NEW a, NEW b, IsArray(a, IsValue), IsArray(b, IsBlanket),
           NEW c, Makes(c, rsi_respond_query_values(req, a, b)), FrameOf(c)
    PROVE  PayloadBack(c)
<1>0. Valid(c) /\ frame.size = FrameSize(c) /\ frame.op_code = ResponseOp(c.req.op_code)
  BY Zenon DEF FrameOf
<1>1. /\ c.helper = "rsi_respond_query_values" /\ c.req = req /\ c.args.entries = a /\ c.args.blankets = b
      /\ c.steps = QuerySteps(req, a, b)
  BY QueryCall
<1>2. c.req.op_code = "QUERY_VALUES" /\ ArgsOk("rsi_respond_query_values", c.args)
  BY <1>0, <1>1 DEF Valid, HelperOp
<1>3. ArrayOk(a) /\ ArrayOk(b)
  BY <1>1, <1>2, QueryRules, Zenon DEF EachOk
<1>4. frame.size # STATUS_FRAME_LEN
  <2>1. PICK r, s : /\ r = Flatten([i \in DOMAIN a.elems |-> ValueSteps(a.elems[i])])
                    /\ s = Flatten([i \in DOMAIN b.elems |-> BlanketSteps(b.elems[i])])
    BY Zenon
  <2>2. PICK m \in Nat : m = Sum(Map(a, ValueSize))
    BY <2>1, EachValue, SizesAre, Zenon DEF Sized
  <2>3. PICK n \in Nat : n = Sum(Map(b, BlanketSize))
    BY <2>1, EachBlanket, SizesAre, Zenon DEF Sized
  <2>4. FrameSize(c) = STATUS_FRAME_LEN + ((4 + m) + (4 + n))
    BY <1>1, <2>2, <2>3, QuerySize, Zenon DEF FrameSize
  <2> QED
    BY <1>0, <2>4 DEF STATUS_FRAME_LEN
<1>5. ReadPayload = ReadTwo(ReadValue, ReadBlanket)
  BY <1>0, <1>2, <1>4, ReadsByOp, Zenon
<1>6. Gets(ReadTwo(ReadValue, ReadBlanket), Len(Body) + 1, <<Map(a, ValueSays), Map(b, BlanketSays)>>)
  <2>1. Spans(QuerySteps(req, a, b), 1, Len(Body) + 1)
    BY <1>1, Zenon DEF FrameOf
  <2> QED
    BY <2>1, <1>3, QueryReads, Zenon
<1>7. PayloadSays("rsi_respond_query_values", c.args) = <<Map(a, ValueSays), Map(b, BlanketSays)>>
  BY <1>1, Zenon DEF PayloadSays, Map, ValueSays, BlanketSays
<1> QED
  BY <1>1, <1>5, <1>6, <1>7, Zenon DEF PayloadBack

\* A status frame has no payload.
LEMMA StatusBack ==
    ASSUME NEW c, c.helper = "rsi_respond_status", frame.size = STATUS_FRAME_LEN
    PROVE  PayloadBack(c)
<1>1. ReadPayload = [next |-> Len(Body) + 1, val |-> <<>>]
  BY DEF ReadPayload
<1>2. PayloadSays("rsi_respond_status", c.args) = <<>>
  BY Zenon DEF PayloadSays
<1> QED
  BY <1>1, <1>2, RecordGets, Zenon DEF PayloadBack

\* Every frame is read as what its call says.
LEMMA PayloadsBack ==
    ASSUME IInv, Decides(call), FollowInv, SaysInv, frame.size # 0
    PROVE  PayloadBack(call)
<1>1. PICK c \in Calls : c = call
  BY DEF IInv, TypeOK
<1>2. PICK a, req : a = c.args /\ req = c.req
  OBVIOUS
<1> SUFFICES PayloadBack(c)
  BY <1>1, Zenon
<1>3. Valid(c) /\ frame.size = FrameSize(c) /\ frame.op_code = ResponseOp(c.req.op_code)
  BY <1>1, Zenon DEF SaysInv
<1>4. c.helper # "rsi_respond_status" => FrameOf(c)
  BY <1>1, <1>3, WholeSpan, Zenon DEF FrameOf
<1>5. CASE /\ c.helper = "rsi_respond_lookup" /\ c = rsi_respond_lookup(req, a.entries, a.metadata)
           /\ IsArray(a.entries, IsEntry) /\ IsArray(a.metadata, IsMetadata)
  <2>1. FrameOf(c)
    BY <1>4, <1>5
  <2>2. Makes(c, rsi_respond_lookup(req, a.entries, a.metadata))
    BY <1>5, Zenon DEF Makes
  <2>3. IsArray(a.entries, IsEntry) /\ IsArray(a.metadata, IsMetadata)
    BY <1>5, Zenon
  <2> QED
    BY <2>1, <2>2, <2>3, LookupBack
<1>6. CASE /\ c.helper = "rsi_respond_enum_children" /\ c = rsi_respond_enum_children(req, a.children, a.metadata)
           /\ IsArray(a.children, IsChild) /\ IsArray(a.metadata, IsMetadata)
  <2>1. FrameOf(c)
    BY <1>4, <1>6
  <2>2. Makes(c, rsi_respond_enum_children(req, a.children, a.metadata))
    BY <1>6, Zenon DEF Makes
  <2>3. IsArray(a.children, IsChild) /\ IsArray(a.metadata, IsMetadata)
    BY <1>6, Zenon
  <2> QED
    BY <2>1, <2>2, <2>3, EnumBack
<1>7. CASE /\ c.helper = "rsi_respond_delete_layer" /\ c = rsi_respond_delete_layer(req, a.orphans)
           /\ IsArray(a.orphans, IsGuid)
  <2>1. FrameOf(c)
    BY <1>4, <1>7
  <2>2. Makes(c, rsi_respond_delete_layer(req, a.orphans))
    BY <1>7, Zenon DEF Makes
  <2>3. IsArray(a.orphans, IsGuid)
    BY <1>7, Zenon
  <2> QED
    BY <2>1, <2>2, <2>3, DeleteLayerBack
<1>8. CASE /\ c.helper = "rsi_respond_read_key"
           /\ c = rsi_respond_read_key(req, a.name, a.parent_guid, a.sd, a.volatile_key, a.symlink,
                                       a.last_write_time)
           /\ IsField(a.name) /\ IsField(a.sd)
  <2>1. FrameOf(c)
    BY <1>4, <1>8
  <2>2. Makes(c, rsi_respond_read_key(req, a.name, a.parent_guid, a.sd, a.volatile_key, a.symlink, a.last_write_time))
    BY <1>8, Zenon DEF Makes
  <2>3. IsField(a.name) /\ IsField(a.sd)
    BY <1>8, Zenon
  <2> QED
    BY <2>1, <2>2, <2>3, ReadKeyBack
<1>9. CASE /\ c.helper = "rsi_respond_query_values" /\ c = rsi_respond_query_values(req, a.entries, a.blankets)
           /\ IsArray(a.entries, IsValue) /\ IsArray(a.blankets, IsBlanket)
  <2>1. FrameOf(c)
    BY <1>4, <1>9
  <2>2. Makes(c, rsi_respond_query_values(req, a.entries, a.blankets))
    BY <1>9, Zenon DEF Makes
  <2>3. IsArray(a.entries, IsValue) /\ IsArray(a.blankets, IsBlanket)
    BY <1>9, Zenon
  <2> QED
    BY <2>1, <2>2, <2>3, QueryBack
<1>10. CASE c.helper = "rsi_respond_status"
  <2>1. frame.size = STATUS_FRAME_LEN
    BY <1>1, <1>3, <1>10, Zenon DEF Decides
  <2> QED
    BY <1>10, <2>1, StatusBack
<1>11. IsCall(c)
  BY HelperAssumption, Zenon
<1> QED
  BY <1>1, <1>2, <1>5, <1>6, <1>7, <1>8, <1>9, <1>10, <1>11, Zenon DEF IsCall
-----------------------------------------------------------------------------
\* The validation of every helper decides the rules of response.h, and its encoder
\* appends the bytes the rules give the frame, however long its arrays are.
THEOREM ValidationDecides == Spec => []HelpersDecide
<1>1. TypeOK => HelpersDecide
  BY CallsDecide DEF TypeOK, HelpersDecide
<1> QED
  BY <1>1, TypeCorrect, PTL

\* Every rsi_respond_* call keeps the contract of response.h, through any pattern
\* of failed allocations and any result of write(2): the errno tells the cause, a
\* failure before write(2) leaves the device untouched, a call that breaks no rule
\* is not refused with EINVAL, and 0 means a whole frame for a valid call.
THEOREM ImplementsContract == Spec => KeepsContract
<1>1. TypeOK => Decides(call)
  BY CallsDecide DEF TypeOK
<1> QED
  BY <1>1, TypeCorrect, ContractKept, PTL

\* The kernel reads out of every delivered frame exactly what the caller passed.
THEOREM FramesReadBack == Spec => []FrameReadsBack
<1>1. TypeOK => Decides(call)
  BY CallsDecide DEF TypeOK
<1>2. ASSUME IInv, Decides(call), FollowInv, SaysInv PROVE FrameReadsBack
  <2> SUFFICES ASSUME frame.size # 0 PROVE Received = Expected(call)
    BY DEF FrameReadsBack
  <2>1. ReadPayload.next = Len(Body) + 1 /\ ReadPayload.val = PayloadSays(call.helper, call.args)
    BY <1>2, PayloadsBack, Zenon DEF PayloadBack, Gets
  <2>2. frame.total_len = FrameSize(call)
    BY <1>2 DEF IInv, FrameInv, SaysInv
  <2>3. /\ frame.request_id = call.req.request_id /\ frame.op_code = ResponseOp(call.req.op_code)
        /\ frame.status = IF call.helper = "rsi_respond_status" THEN call.args.status ELSE "RSI_OK"
    BY <1>2, Zenon DEF SaysInv
  <2>4. (ReadPayload.next # Len(Body) + 1) = FALSE
    BY <2>1, Zenon
  <2> QED
    BY <2>1, <2>2, <2>3, <2>4, Zenon DEF Received, Expected
<1> QED
  BY <1>1, <1>2, TypeCorrect, FramesFollow, PTL
=============================================================================
