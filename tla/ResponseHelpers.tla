---------------------------- MODULE ResponseHelpers ----------------------------
(***************************************************************************)
(* The rsi_respond_* helpers of src/response.rs as the lines of steps that *)
(* the module RespondCall runs.  Each operator returns the steps of the    *)
(* function it is named after, in the order of the code; an operator of a  *)
(* public helper returns the whole call.                                   *)
(*                                                                         *)
(* A caller's array is [null, count, elems]: elems is empty when null.  A  *)
(* (ptr, len) field is [null, len, bytes].  A GUID is a number, NilGuid    *)
(* the least; names, security descriptors and data are opaque values.      *)
(***************************************************************************)
EXTENDS RsiProtocol, Vectors

Check(ok)      == <<[kind |-> "require", ok |-> ok, errno |-> "EINVAL"]>>
Emit(val, size) == <<[kind |-> "emit", val |-> val, size |-> size]>>
ForEach(elems, Steps(_)) == Flatten([i \in DOMAIN elems |-> Steps(elems[i])])

\* FrameWriter::u8, u32, u64 and guid.
u8(x)   == Emit(x, 1)
u32(x)  == Emit(x, 4)
u64(x)  == Emit(x, 8)
guid(g) == Emit(g, 16)

RSI_PATH_TARGET_GUID   == 0
RSI_PATH_TARGET_HIDDEN == 1

-----------------------------------------------------------------------------
(* Argument checks *)

require_array(a) == Check(a.count # 0 => ~a.null)

require_lpf(f) == Check(f.len # 0 => ~f.null)

require_bool(b) == Check(b \in {0, 1})

require_path_target(e) ==
    Check(\/ e.target_type = RSI_PATH_TARGET_GUID
          \/ e.target_type = RSI_PATH_TARGET_HIDDEN /\ e.target_guid = NilGuid)

is_guid_target(e) == e.target_type = RSI_PATH_TARGET_GUID

OpOf(req) == IF req = NULL THEN NULL ELSE req.op_code

\* require_response_req: a request, and one of the helper's own op-code.
require_response_req(req, op) == Check(req # NULL) \o Check(OpOf(req) = op)

sort_dedup_guids(s) == Dedup(Sorted(s))

\* Mutant: only the first pair of neighbours is compared.
validate_first_pair(s) ==
    LET t == Sorted(s) IN
    Check(t # <<>> => t[1] # NilGuid) \o Check(Len(t) >= 2 => t[1] # t[2])

\* validate_unique_nonzero_guids: after sorting, a nil GUID can only be the
\* first, and two equal GUIDs are neighbours.
validate_unique_nonzero_guids(s) ==
    LET t == Sorted(s) IN
    Check(t # <<>> => t[1] # NilGuid)
    \o Check(\A i \in 1..(Len(t) - 1) : t[i] # t[i + 1])

Guids(elems) == [i \in DOMAIN elems |-> elems[i].guid]

metadata_guid_set(metadata) ==
    require_array(metadata)
    \o <<[kind |-> "collect", cap |-> metadata.count, n |-> Len(metadata.elems)]>>
    \o validate_unique_nonzero_guids(Guids(metadata.elems))

\* The loop over path entries: check the target, push it when it is a GUID.
CollectTargets(entries) ==
    require_array(entries)
    \o ForEach(entries.elems, LAMBDA e :
          require_path_target(e)
          \o IF is_guid_target(e) THEN <<[kind |-> "push_guid"]>> ELSE <<>>)

\* What the vector then holds.
TargetGuids(entries) ==
    ForEach(entries.elems, LAMBDA e : IF is_guid_target(e) THEN <<e.target_guid>> ELSE <<>>)

\* Mutant: the metadata has to cover the targets but may have more.
validate_lookup_covers(entries, metadata) ==
    CollectTargets(entries)
    \o metadata_guid_set(metadata)
    \o Check(Range(TargetGuids(entries)) \subseteq Range(Guids(metadata.elems)))

validate_lookup_metadata(entries, metadata) ==
    CollectTargets(entries)
    \o metadata_guid_set(metadata)
    \o Check(Sorted(Guids(metadata.elems)) = sort_dedup_guids(TargetGuids(entries)))

ChildTargetGuids(children) == ForEach(children.elems, LAMBDA c : TargetGuids(c.entries))

\* Mutant: each child's targets are deduplicated but not across children.
validate_enum_children_per_child(children, metadata) ==
    require_array(children)
    \o ForEach(children.elems, LAMBDA c : CollectTargets(c.entries))
    \o metadata_guid_set(metadata)
    \o Check(Sorted(Guids(metadata.elems)) =
             Sorted(ForEach(children.elems, LAMBDA c : sort_dedup_guids(TargetGuids(c.entries)))))

validate_enum_children_metadata(children, metadata) ==
    require_array(children)
    \o ForEach(children.elems, LAMBDA c : CollectTargets(c.entries))
    \o metadata_guid_set(metadata)
    \o Check(Sorted(Guids(metadata.elems)) = sort_dedup_guids(ChildTargetGuids(children)))

\* orphaned_guid_bytes.  count * 16 cannot overflow a 64-bit usize.
orphaned_guid_bytes(orphans) ==
    IF orphans.count = 0 THEN <<>>
    ELSE Check(~orphans.null)
         \o <<[kind |-> "collect", cap |-> orphans.count, n |-> Len(orphans.elems)]>>
         \o validate_unique_nonzero_guids(orphans.elems)

-----------------------------------------------------------------------------
(* Encoders *)

\* new_writer: the 18 bytes that finish_response patches.
new_writer == Emit(0, STATUS_FRAME_LEN)

\* Mutant: an empty field is left out, with its length.
lpf_skip_empty(f) == require_lpf(f)
                     \o IF f.len # 0 THEN u32(f.len) \o Emit(f.bytes, f.len) ELSE <<>>

lpf(f) == require_lpf(f) \o u32(f.len)
          \o IF f.len # 0 THEN Emit(f.bytes, f.len) ELSE <<>>

\* Mutant: the block starts without its count.
encode_path_entry_block_uncounted(entries) ==
    require_array(entries)
    \o ForEach(entries.elems, LAMBDA e :
          lpf(e.layer) \o require_path_target(e)
          \o u8(e.target_type) \o guid(e.target_guid) \o u64(e.sequence))

encode_path_entry_block(entries) ==
    require_array(entries) \o u32(entries.count)
    \o ForEach(entries.elems, LAMBDA e :
          lpf(e.layer) \o require_path_target(e)
          \o u8(e.target_type) \o guid(e.target_guid) \o u64(e.sequence))

\* Mutant: the two booleans are swapped.
encode_metadata_block_swapped(metadata) ==
    require_array(metadata) \o u32(metadata.count)
    \o ForEach(metadata.elems, LAMBDA m :
          guid(m.guid) \o lpf(m.sd)
          \o require_bool(m.volatile_key) \o require_bool(m.symlink)
          \o u8(m.symlink) \o u8(m.volatile_key) \o u64(m.last_write_time))

encode_metadata_block(metadata) ==
    require_array(metadata) \o u32(metadata.count)
    \o ForEach(metadata.elems, LAMBDA m :
          guid(m.guid) \o lpf(m.sd)
          \o require_bool(m.volatile_key) \o require_bool(m.symlink)
          \o u8(m.volatile_key) \o u8(m.symlink) \o u64(m.last_write_time))

-----------------------------------------------------------------------------
(* The public helpers.  args keeps the caller's arguments for the contract. *)

rsi_respond_lookup(req, entries, metadata) ==
    [ helper |-> "rsi_respond_lookup", req |-> req,
      args   |-> [entries |-> entries, metadata |-> metadata],
      steps  |-> require_response_req(req, "LOOKUP")
                 \o validate_lookup_metadata(entries, metadata)
                 \o new_writer
                 \o encode_path_entry_block(entries)
                 \o encode_metadata_block(metadata) ]

rsi_respond_delete_layer(req, orphans) ==
    [ helper |-> "rsi_respond_delete_layer", req |-> req,
      args   |-> [orphans |-> orphans],
      steps  |-> require_response_req(req, "DELETE_LAYER")
                 \o orphaned_guid_bytes(orphans)
                 \o new_writer
                 \o u32(orphans.count)
                 \o Emit(orphans.elems, 16 * orphans.count) ]

rsi_respond_enum_children(req, children, metadata) ==
    [ helper |-> "rsi_respond_enum_children", req |-> req,
      args   |-> [children |-> children, metadata |-> metadata],
      steps  |-> require_response_req(req, "ENUM_CHILDREN")
                 \o validate_enum_children_metadata(children, metadata)
                 \o new_writer
                 \o u32(children.count)
                 \o ForEach(children.elems, LAMBDA c :
                       lpf(c.child_name) \o encode_path_entry_block(c.entries))
                 \o encode_metadata_block(metadata) ]

rsi_respond_read_key(req, name, parent_guid, sd, volatile_key, symlink, last_write_time) ==
    [ helper |-> "rsi_respond_read_key", req |-> req,
      args   |-> [name |-> name, parent_guid |-> parent_guid, sd |-> sd,
                  volatile_key |-> volatile_key, symlink |-> symlink,
                  last_write_time |-> last_write_time],
      steps  |-> require_response_req(req, "READ_KEY")
                 \o Check(parent_guid # NULL)
                 \o new_writer
                 \o lpf(name) \o Emit(parent_guid, 16) \o lpf(sd)
                 \o require_bool(volatile_key) \o require_bool(symlink)
                 \o u8(volatile_key) \o u8(symlink) \o u64(last_write_time) ]

rsi_respond_query_values(req, entries, blankets) ==
    [ helper |-> "rsi_respond_query_values", req |-> req,
      args   |-> [entries |-> entries, blankets |-> blankets],
      steps  |-> require_response_req(req, "QUERY_VALUES")
                 \o require_array(entries) \o require_array(blankets)
                 \o new_writer
                 \o u32(entries.count)
                 \o ForEach(entries.elems, LAMBDA e :
                       lpf(e.value_name) \o lpf(e.layer_name) \o u32(e.value_type)
                       \o lpf(e.data) \o u64(e.sequence))
                 \o u32(blankets.count)
                 \o ForEach(blankets.elems, LAMBDA b :
                       lpf(b.layer_name) \o u64(b.sequence)) ]

\* Mutant: no status at all for an op whose RSI_OK carries a payload.
validate_status_response_strict(req, status) ==
    Check(status \in Statuses) \o Check(HasStatusOnlyResponse(OpOf(req)))

\* validate_status_response: a known status, and RSI_OK only for a status-only op.
validate_status_response(req, status) ==
    Check(status \in Statuses)
    \o Check(status = "RSI_OK" => HasStatusOnlyResponse(OpOf(req)))

rsi_respond_status(req, status) ==
    [ helper |-> "rsi_respond_status", req |-> req,
      args   |-> [status |-> status],
      steps  |-> Check(req # NULL)
                 \o Check(OpOf(req) \in OpCodes)
                 \o validate_status_response(req, status) ]
=============================================================================
