--------------------------- MODULE ResponseContract ---------------------------
(***************************************************************************)
(* What include/rsi/response.h promises of one rsi_respond_* call, as one  *)
(* atomic step to one of its outcomes.                                     *)
(***************************************************************************)
EXTENDS ResponseOutcomes

VARIABLES call, got, ret, errno

vars == <<call, got, ret, errno>>

Init == got = "unwritten" /\ ret = "pending" /\ errno = "none"

Return(o) == /\ ret = "pending"
             /\ got' = o.got /\ errno' = o.errno
             /\ ret' = IF o = Delivered THEN "ok" ELSE "failed"
             /\ UNCHANGED call

Next == \E o \in Outcomes(call) : Return(o)

Spec == Init /\ [][Next]_vars
=============================================================================
