---------------------------- MODULE RequestDecoders ----------------------------
(***************************************************************************)
(* The 18 rsi_request_* decoders (src/request.rs): what each assigns to    *)
(* the flat struct of its caller out of what lcs-core parsed.              *)
(*                                                                         *)
(* Memory is counted in cells: a fixed-size field is one cell, a length-   *)
(* prefixed field is a cell with its length and as many cells of data.  A  *)
(* parsed length-prefixed field is a slice [ptr, len] of the frame buffer, *)
(* whose first cell is 1.                                                  *)
(***************************************************************************)
EXTENDS RsiProtocol, Vectors

-----------------------------------------------------------------------------
(* lcs-core (external): the wire layout of each payload.  In WRITE_KEY the *)
(* field mask says which of the two optional fields follow.                *)

Fixed(n)  == [name |-> n, kind |-> "fixed"]
Flag(n)   == [name |-> n, kind |-> "flag"]
Lpf(n)    == [name |-> n, kind |-> "lpf"]

FIELD_SD              == {1, 3}  \* the masks with RSI_WRITE_KEY_FIELD_SD
FIELD_LAST_WRITE_TIME == {2, 3}  \* ... with RSI_WRITE_KEY_FIELD_LAST_WRITE_TIME

Layout ==
    [ LOOKUP        |-> <<Fixed("parent_guid"), Lpf("child_name")>>,
      CREATE_ENTRY  |-> <<Fixed("parent_guid"), Lpf("child_name"), Lpf("layer_name"),
                          Fixed("child_guid"), Fixed("sequence")>>,
      HIDE_ENTRY    |-> <<Fixed("parent_guid"), Lpf("child_name"), Lpf("layer_name"), Fixed("sequence")>>,
      DELETE_ENTRY  |-> <<Fixed("parent_guid"), Lpf("child_name"), Lpf("layer_name")>>,
      ENUM_CHILDREN |-> <<Fixed("parent_guid")>>,
      CREATE_KEY    |-> <<Fixed("guid"), Lpf("name"), Fixed("parent_guid"), Lpf("sd"),
                          Flag("volatile"), Flag("symlink")>>,
      READ_KEY      |-> <<Fixed("guid")>>,
      DROP_KEY      |-> <<Fixed("guid")>>,
      WRITE_KEY     |-> <<Fixed("guid"), Fixed("field_mask"),
                          [name |-> "sd", kind |-> "lpf", mask |-> FIELD_SD],
                          [name |-> "last_write_time", kind |-> "fixed", mask |-> FIELD_LAST_WRITE_TIME]>>,
      QUERY_VALUES  |-> <<Fixed("guid"), Lpf("value_name"), Flag("query_all")>>,
      SET_VALUE     |-> <<Fixed("guid"), Lpf("value_name"), Lpf("layer_name"), Fixed("value_type"),
                          Lpf("data"), Fixed("sequence"), Fixed("expected_sequence")>>,
      DELETE_VALUE_ENTRY    |-> <<Fixed("guid"), Lpf("value_name"), Lpf("layer_name")>>,
      SET_BLANKET_TOMBSTONE |-> <<Fixed("guid"), Lpf("layer_name"), Flag("set"), Fixed("sequence")>>,
      BEGIN_TRANSACTION     |-> <<Fixed("transaction_id"), Flag("mode")>>,
      COMMIT_TRANSACTION    |-> <<Fixed("transaction_id")>>,
      ABORT_TRANSACTION     |-> <<Fixed("transaction_id")>>,
      DELETE_LAYER          |-> <<Lpf("layer_name")>>,
      FLUSH                 |-> <<Lpf("hive_name")>> ]

FieldNames(op) == { Layout[op][i].name : i \in DOMAIN Layout[op] }

\* An optional field is on the wire when the mask parsed so far asks for it.
IsAbsent(field, v) == "mask" \in DOMAIN field /\ v.field_mask \notin field.mask

Malformed == [ok |-> FALSE]

\* One field at cell pos of mem, no cell of which may lie beyond end.
ParseField(r, field, mem, end) ==
    LET take(val, next) == [ok |-> TRUE, pos |-> next, v |-> [r.v EXCEPT ![field.name] = val]]
    IN IF ~r.ok THEN Malformed
       ELSE IF IsAbsent(field, r.v) THEN take(NULL, r.pos)
       ELSE IF r.pos > end THEN Malformed
       ELSE IF field.kind = "lpf"
            THEN IF r.pos + mem[r.pos] > end THEN Malformed
                 ELSE take([ptr |-> r.pos + 1, len |-> mem[r.pos]], r.pos + mem[r.pos] + 1)
       ELSE IF field.kind = "flag" /\ mem[r.pos] \notin {0, 1} THEN Malformed
       ELSE take(mem[r.pos], r.pos + 1)

\* parse_rsi_*_request_payload on the len cells from ptr.  Whether cells left
\* over make a payload malformed is not librsi's business: they are accepted.
ParsePayload(op, mem, ptr, len) ==
    LET r[i \in 0..Len(Layout[op])] ==
           IF i = 0 THEN [ok |-> TRUE, pos |-> ptr, v |-> [n \in FieldNames(op) |-> NULL]]
           ELSE ParseField(r[i - 1], Layout[op][i], mem, ptr + len - 1)
    IN r[Len(Layout[op])]
-----------------------------------------------------------------------------
(* The decoders.  v is what lcs-core parsed; the record is what is assigned. *)

\* A struct after the fields of a record were assigned to it.
Assign(struct, fields) == [ n \in DOMAIN struct \cup DOMAIN fields |->
                              IF n \in DOMAIN fields THEN fields[n] ELSE struct[n] ]

\* lpf: the pointer and the length of a parsed slice.
lpf(f) == [ptr |-> f.ptr, len |-> f.len]

rsi_request_lookup(v) == [parent_guid |-> v.parent_guid, child_name |-> lpf(v.child_name)]

rsi_request_create_entry(v) ==
    [parent_guid |-> v.parent_guid, child_guid |-> v.child_guid, child_name |-> lpf(v.child_name),
     layer_name |-> lpf(v.layer_name), sequence |-> v.sequence]

rsi_request_hide_entry(v) ==
    [parent_guid |-> v.parent_guid, child_name |-> lpf(v.child_name),
     layer_name |-> lpf(v.layer_name), sequence |-> v.sequence]

rsi_request_delete_entry(v) ==
    [parent_guid |-> v.parent_guid, child_name |-> lpf(v.child_name), layer_name |-> lpf(v.layer_name)]

rsi_request_enum_children(v) == [parent_guid |-> v.parent_guid]

rsi_request_create_key(v) ==
    [guid |-> v.guid, parent_guid |-> v.parent_guid, name |-> lpf(v.name), sd |-> lpf(v.sd),
     volatile_key |-> v.volatile, symlink |-> v.symlink]

rsi_request_read_key(v) == [guid |-> v.guid]

rsi_request_drop_key(v) == [guid |-> v.guid]

\* Mutant: an absent descriptor leaves the caller's sd as it was.
write_key_keeping_sd(v) ==
    LET rest == [guid |-> v.guid, field_mask |-> v.field_mask,
                 last_write_time |-> IF v.last_write_time = NULL THEN 0 ELSE v.last_write_time]
    IN IF v.sd = NULL THEN rest ELSE Assign(rest, [sd |-> lpf(v.sd)])

rsi_request_write_key(v) ==
    [guid |-> v.guid, field_mask |-> v.field_mask,
     sd |-> IF v.sd = NULL THEN [ptr |-> NULL, len |-> 0] ELSE lpf(v.sd),
     last_write_time |-> IF v.last_write_time = NULL THEN 0 ELSE v.last_write_time]

rsi_request_query_values(v) ==
    [guid |-> v.guid, value_name |-> lpf(v.value_name), query_all |-> v.query_all]

rsi_request_set_value(v) ==
    [guid |-> v.guid, value_name |-> lpf(v.value_name), layer_name |-> lpf(v.layer_name),
     value_type |-> v.value_type, data |-> lpf(v.data), sequence |-> v.sequence,
     expected_sequence |-> v.expected_sequence]

rsi_request_delete_value_entry(v) ==
    [guid |-> v.guid, value_name |-> lpf(v.value_name), layer_name |-> lpf(v.layer_name)]

rsi_request_set_blanket_tombstone(v) ==
    [guid |-> v.guid, layer_name |-> lpf(v.layer_name), set |-> v.set, sequence |-> v.sequence]

rsi_request_begin_transaction(v) == [transaction_id |-> v.transaction_id, mode |-> v.mode]

rsi_request_commit_transaction(v) == [transaction_id |-> v.transaction_id]

rsi_request_abort_transaction(v) == [transaction_id |-> v.transaction_id]

rsi_request_delete_layer(v) == [name |-> lpf(v.layer_name)]

rsi_request_flush(v) == [name |-> lpf(v.hive_name)]

\* What the decoder for op assigns.
Assigned(op, v) ==
    CASE op = "LOOKUP"             -> rsi_request_lookup(v)
      [] op = "CREATE_ENTRY"       -> rsi_request_create_entry(v)
      [] op = "HIDE_ENTRY"         -> rsi_request_hide_entry(v)
      [] op = "DELETE_ENTRY"       -> rsi_request_delete_entry(v)
      [] op = "ENUM_CHILDREN"      -> rsi_request_enum_children(v)
      [] op = "CREATE_KEY"         -> rsi_request_create_key(v)
      [] op = "READ_KEY"           -> rsi_request_read_key(v)
      [] op = "DROP_KEY"           -> rsi_request_drop_key(v)
      [] op = "WRITE_KEY"          -> rsi_request_write_key(v)
      [] op = "QUERY_VALUES"       -> rsi_request_query_values(v)
      [] op = "SET_VALUE"          -> rsi_request_set_value(v)
      [] op = "DELETE_VALUE_ENTRY" -> rsi_request_delete_value_entry(v)
      [] op = "SET_BLANKET_TOMBSTONE" -> rsi_request_set_blanket_tombstone(v)
      [] op = "BEGIN_TRANSACTION"  -> rsi_request_begin_transaction(v)
      [] op = "COMMIT_TRANSACTION" -> rsi_request_commit_transaction(v)
      [] op = "ABORT_TRANSACTION"  -> rsi_request_abort_transaction(v)
      [] op = "DELETE_LAYER"       -> rsi_request_delete_layer(v)
      [] op = "FLUSH"              -> rsi_request_flush(v)
=============================================================================
