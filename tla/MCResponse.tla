------------------------------ MODULE MCResponse ------------------------------
(***************************************************************************)
(* The calls TLC runs: every helper, with arrays of up to two or three     *)
(* elements chosen so that each rule is broken at each position, and one   *)
(* field long enough to push a frame past U32Max.                          *)
(***************************************************************************)
EXTENDS ResponseRefinement

LOCAL SX == INSTANCE SequencesExt

Field(l, b) == [null |-> FALSE, len |-> l, bytes |-> b]
None  == [null |-> TRUE, len |-> 0, bytes |-> 0]
Bad   == [null |-> TRUE, len |-> 2, bytes |-> 99]
Short == Field(2, 11)
Long  == Field(150, 12)

Arr(s)       == [null |-> FALSE, count |-> Len(s), elems |-> s]
NullArr(n)   == [null |-> TRUE, count |-> n, elems |-> <<>>]
Arrays(S, n) == { Arr(s) : s \in SX!SeqOf(S, n) } \cup { NullArr(0), NullArr(1) }

Req(op) == [request_id |-> 7, op_code |-> op]

Entry(l, t, g) == [layer |-> l, target_type |-> t, target_guid |-> g, sequence |-> 5]
GoodEntries == { Entry(Short, 0, 1), Entry(None, 0, 2), Entry(Short, 1, 0) }
BadEntries  == { Entry(Bad, 0, 1), Entry(Short, 0, 0), Entry(Short, 1, 1), Entry(Short, 2, 0) }

Meta(g, f, v, l) == [guid |-> g, sd |-> f, volatile_key |-> v, symlink |-> l, last_write_time |-> 9]
GoodMeta == { Meta(1, Short, 1, 0), Meta(2, None, 0, 1), Meta(2, Long, 0, 0) }
BadMeta  == { Meta(0, Short, 0, 0), Meta(1, Bad, 0, 0), Meta(1, None, 2, 0), Meta(1, None, 0, 2) }

Metas == Arrays(GoodMeta \cup BadMeta, 2)

LookupCalls ==
    { rsi_respond_lookup(Req("LOOKUP"), e, m) :
        e \in Arrays(GoodEntries \cup BadEntries, 2), m \in Metas }
    \cup { rsi_respond_lookup(r, Arr(<<>>), Arr(<<>>)) : r \in {NULL, Req("READ_KEY"), Req("BOGUS")} }

Child(n, e) == [child_name |-> n, entries |-> e]
Children == { Child(Short, e) : e \in Arrays(GoodEntries, 1) }
            \cup { Child(Short, Arr(<<e>>)) : e \in BadEntries }
            \cup { Child(Bad, Arr(<<>>)),
                   Child(None, Arr(<<Entry(None, 0, 1), Entry(None, 0, 2)>>)) }

EnumCalls ==
    { rsi_respond_enum_children(Req("ENUM_CHILDREN"), c, m) :
        c \in Arrays(Children, 2), m \in Arrays(GoodMeta, 2) \cup {Arr(<<b>>) : b \in BadMeta} }
    \cup { rsi_respond_enum_children(r, Arr(<<>>), Arr(<<>>)) : r \in {NULL, Req("LOOKUP")} }

DeleteCalls == { rsi_respond_delete_layer(Req("DELETE_LAYER"), o) : o \in Arrays(0..3, 3) }
               \cup { rsi_respond_delete_layer(r, Arr(<<1>>)) : r \in {NULL, Req("FLUSH")} }

ReadKeyCalls == { rsi_respond_read_key(Req("READ_KEY"), n, p, f, v, l, 9) :
                    n \in {None, Bad, Short, Long}, p \in {NULL, 0, 1},
                    f \in {None, Bad, Short}, v \in {0, 1, 2}, l \in {0, 1, 255} }
                \cup { rsi_respond_read_key(r, None, 1, None, 0, 0, 9) : r \in {NULL, Req("WRITE_KEY")} }

Value(n, l, d) == [value_name |-> n, layer_name |-> l, value_type |-> 1, data |-> d, sequence |-> 5]
Values == { Value(Short, None, None), Value(None, Short, Short),
            Value(Bad, None, None), Value(None, Bad, None), Value(None, None, Bad) }
Blankets == { [layer_name |-> l, sequence |-> 3] : l \in {None, Bad, Short} }

QueryCalls == { rsi_respond_query_values(Req("QUERY_VALUES"), e, b) :
                  e \in Arrays(Values, 2), b \in Arrays(Blankets, 2) }
              \cup { rsi_respond_query_values(r, Arr(<<>>), Arr(<<>>)) : r \in {NULL, Req("LOOKUP")} }

StatusCalls == { rsi_respond_status(r, s) :
                   r \in {NULL, Req("BOGUS")} \cup {Req(op) : op \in OpCodes},
                   s \in Statuses \cup {"RSI_UNKNOWN"} }

\* The three runs; these names are what the configurations substitute for Calls.
MCLookup == LookupCalls
MCEnum   == EnumCalls
MCOther  == DeleteCalls \cup ReadKeyCalls \cup QueryCalls \cup StatusCalls
=============================================================================
