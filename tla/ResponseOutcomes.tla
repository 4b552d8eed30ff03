---------------------------- MODULE ResponseOutcomes ----------------------------
(***************************************************************************)
(* What one rsi_respond_* call can come to, by include/rsi/response.h: the *)
(* device takes one whole frame, or the call fails and the errno says why. *)
(* ResponseContract states it of a call; Serve builds on it.               *)
(***************************************************************************)
EXTENDS RsiProtocol, Integers

CONSTANTS
    Valid(_),        \* does a call keep the rules of response.h?
    FrameSize(_),    \* the length of the frame of a call
    U32Max,          \* the longest frame
    WriteErrnos      \* what write(2) may fail with

\* got is what became of the frame: it was never written, or the device took
\* nothing, a part or the whole of it.  errno is what the caller is told.
Delivered   == [got |-> "whole", errno |-> "none"]
Torn        == [got |-> "torn", errno |-> "EIO"]
Rejected(e) == [got |-> "nothing", errno |-> e]
Refused(e)  == [got |-> "unwritten", errno |-> e]

\* A call that breaks a rule never reaches write(2), and one that breaks none is
\* kept from it only by memory or by its length: an EINVAL of its is write(2)'s.
\* ENOMEM is never what rsi_respond_status fails with: it allocates nothing, and
\* is the answer that is left when memory is not.
Outcomes(c) ==
    (IF c.helper = "rsi_respond_status" THEN {} ELSE {Refused("ENOMEM")})
    \cup
    (IF ~Valid(c) THEN {Refused("EINVAL")}
     ELSE IF FrameSize(c) > U32Max THEN {Refused("EOVERFLOW")}
     ELSE {Delivered, Torn, Rejected("EIO")} \cup {Rejected(e) : e \in WriteErrnos})
=============================================================================
