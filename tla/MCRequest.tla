------------------------------ MODULE MCRequest ------------------------------
(***************************************************************************)
(* One request of each op-code, WRITE_KEY with each choice of its optional *)
(* fields, and frames that are malformed in each way the code tells apart. *)
(***************************************************************************)
EXTENDS Request

R(id, op, args, fault) ==
    [request_id |-> id, txn_id |-> 50 + id, op_code |-> op, args |-> args, fault |-> fault]

Name == <<11, 12>>

\* Arguments for op: every fixed field its own number, the names Name or empty.
Args(op) == [ n \in { Layout[op][i].name : i \in DOMAIN Layout[op] } |->
                LET i == CHOOSE j \in DOMAIN Layout[op] : Layout[op][j].name = n
                IN CASE Layout[op][i].kind = "lpf"  -> IF n = "layer_name" THEN <<21>> ELSE Name
                     [] Layout[op][i].kind = "flag" -> i % 2
                     [] OTHER                       -> 30 + i ]

WriteKey(id, m) == R(id, "WRITE_KEY", [Args("WRITE_KEY") EXCEPT !.field_mask = m], "none")

Good == { R(1, op, Args(op), "none") : op \in OpCodes \ {"WRITE_KEY"} }
Query == R(2, "QUERY_VALUES", [Args("QUERY_VALUES") EXCEPT !.value_name = <<>>, !.query_all = 1], "none")
WriteKeys == { WriteKey(3 + m, m) : m \in 0..3 }
Broken == { R(8, "LOOKUP", Args("LOOKUP"), "short"),
            R(8, "HIDE_ENTRY", Args("HIDE_ENTRY"), "op"),
            R(9, "FLUSH", Args("FLUSH"), "stub"),
            R(9, "CREATE_KEY", [Args("CREATE_KEY") EXCEPT !.symlink = 2], "flag"),
            R(9, "SET_VALUE", Args("SET_VALUE"), "short") }

MCRequests == Good \cup {Query} \cup WriteKeys \cup Broken
=============================================================================
