------------------------------- MODULE OneReply -------------------------------
(***************************************************************************)
(* What a client of POST /v1/messages is promised, whatever happens behind  *)
(* the gateway: one reply, an error or the answer of one account.  Accounts *)
(* are tried one after the other while nothing has been sent to the client; *)
(* with the first byte the attempt is the last one.                         *)
(***************************************************************************)
EXTENDS Naturals

CONSTANTS MaxAttempts   \* MaxAccountAttempts

VARIABLES
    attempts,  \* accounts tried for the request
    reply      \* "none", "part", "whole", "cut" or "error"

Init == attempts = 0 /\ reply = "none"

Attempt ==
    /\ reply = "none" /\ attempts < MaxAttempts
    /\ attempts' = attempts + 1 /\ UNCHANGED reply

Begin == reply = "none" /\ attempts > 0 /\ reply' = "part" /\ UNCHANGED attempts

Finish ==
    /\ attempts > 0
    /\ reply \in {"none", "part"} /\ reply' \in {"whole", "cut"}
    /\ UNCHANGED attempts

Refuse == reply = "none" /\ reply' = "error" /\ UNCHANGED attempts

\* The client sends the next request.
Again == reply \notin {"none", "part"} /\ reply' = "none" /\ attempts' = 0

Next == Attempt \/ Begin \/ Finish \/ Refuse \/ Again

Spec == Init /\ [][Next]_<<attempts, reply>>

===============================================================================
