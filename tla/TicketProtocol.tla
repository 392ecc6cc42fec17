---------------------------- MODULE TicketProtocol ----------------------------
(***************************************************************************)
(* What an asynchronous ticket promises to the one who reads its events     *)
(* (internal/asyncpool/pool.go): at most one ready, chunks only after it,   *)
(* at most one of done and error, nothing after that, and done only after   *)
(* at least one chunk.  The reader, or the ticket's context, may go away at *)
(* any moment.  Chunks are not counted.                                     *)
(***************************************************************************)
CONSTANT Tickets

VARIABLE phase    \* what has been delivered of each ticket

Final == {"done", "error", "gone"}

Phases == {"fresh", "ready", "streaming"} \cup Final

Init == phase = [t \in Tickets |-> "fresh"]

Deliver(t, from, to) ==
    /\ phase[t] \in from
    /\ phase' = [phase EXCEPT ![t] = to]

Ready(t) == Deliver(t, {"fresh"}, "ready")
Chunk(t) == Deliver(t, {"ready", "streaming"}, "streaming")
Done(t)  == Deliver(t, {"streaming"}, "done")
Error(t) == Deliver(t, Phases \ Final, "error")
Gone(t)  == Deliver(t, Phases \ Final, "gone")

Next == \E t \in Tickets : Ready(t) \/ Chunk(t) \/ Done(t) \/ Error(t) \/ Gone(t)

Spec == Init /\ [][Next]_phase

=============================================================================
