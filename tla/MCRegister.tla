------------------------------ MODULE MCRegister ------------------------------
(***************************************************************************)
(* Two threads, three descriptor numbers: both threads can hold one while  *)
(* the application takes the third, and the table can be full.             *)
(***************************************************************************)
EXTENDS Register

Hive(n, fl, s) == [name |-> n, name_len |-> 4, flags |-> fl, root_guid |-> 1, scope_guid |-> s]

Global  == Hive("Machine", 0, 0)
Private == Hive("User", 1, 7)

MCArguments == { [null |-> FALSE, hives |-> <<Global, Private>>, max_sequence |-> 42],
                 [null |-> FALSE, hives |-> <<>>, max_sequence |-> 0],
                 [null |-> TRUE, hives |-> <<Global>>, max_sequence |-> 0] }
=============================================================================
