--------------------------- MODULE RegistryService ---------------------------
(***************************************************************************)
(* What a registry source is to the clients of its hives: a request gets   *)
(* one answer, or is lost with its source, and does not wait for ever.     *)
(***************************************************************************)
CONSTANT Ids  \* request ids

VARIABLE reply  \* per request: "unmade", "waiting", "lost" or its status word

Words == { "RSI_OK", "RSI_NOT_FOUND" }

Init == reply = [i \in Ids |-> "unmade"]

Make(i) == /\ reply[i] = "unmade"
           /\ reply' = [reply EXCEPT ![i] = "waiting"]

Answer(i) == /\ reply[i] = "waiting"
             /\ \E w \in Words : reply' = [reply EXCEPT ![i] = w]

\* The source goes away, and every request it had with it.
Lose == reply' = [i \in Ids |-> IF reply[i] = "waiting" THEN "lost" ELSE reply[i]]

Next == Lose \/ \E i \in Ids : Make(i) \/ Answer(i)

\* A request that is waiting does not wait for ever.
Ends(i) == reply[i] = "waiting" /\ (Answer(i) \/ Lose)

Spec == Init /\ [][Next]_reply /\ \A i \in Ids : WF_reply(Ends(i))
=============================================================================
