------------------------------ MODULE AsyncPool ------------------------------
(***************************************************************************)
(* The life of asynchronous tickets (internal/asyncpool/pool.go).           *)
(*                                                                         *)
(* The handler of a request sweeps the table, creates a ticket, starts its  *)
(* producer and streams the ticket's events to the client.  The producer    *)
(* (processTicket) is reduced to what it may emit; AsyncTicket models how   *)
(* it decides.  Handlers, producers and Close share the ticket table under  *)
(* p.mu; events travel through a bounded channel per ticket.                *)
(*                                                                         *)
(* Ticket t is the one the handler t creates: creation happens once.  The   *)
(* tickets of the other requests are not followed: what matters of those    *)
(* requests is that each sweeps the table before it creates its own.        *)
(***************************************************************************)
EXTENDS Integers, Sequences, FiniteSets, SequencesExt

CONSTANTS
    Tickets,
    Others,    \* other requests
    QCap,      \* capacity of the event channel (256 in the code)
    None       \* no ticket

Requests == Tickets \cup Others

ASSUME AsyncPoolAssumption ==
    /\ QCap \in Nat \ {0}
    /\ None \notin Tickets /\ Tickets \cap Others = {}

VARIABLES
    closed,    \* p.closed
    closer,    \* Close: "idle", "waiting" for p.tasks, "returned"
    reg,       \* the keys of p.tickets
    status,    \* ticket.status
    queue,     \* ticket.queue
    canceled,  \* tickets whose context is cancelled
    age,       \* "young", "expired" (past the timeout), "stale" (past the grace)
    handler,   \* the goroutine of each request
    producer,  \* the goroutine of each ticket
    phase      \* what the client of each ticket has received

vars == <<closed, closer, reg, status, queue, canceled, age, handler, producer, phase>>

Ended(t) == producer[t].pc \in {"off", "exit"}

----------------------------------------------------------------------------

Init ==
    /\ closed = FALSE /\ closer = "idle"
    /\ reg = {} /\ canceled = {}
    /\ status = [t \in Tickets |-> "pending"]
    /\ queue = [t \in Tickets |-> <<>>]
    /\ age = [t \in Tickets |-> "young"]
    /\ handler = [r \in Requests |-> [pc |-> "idle", todo |-> {}, hold |-> None]]
    /\ producer = [t \in Tickets |-> [pc |-> "off", phase |-> "fresh"]]
    /\ phase = [t \in Tickets |-> "fresh"]

HandlerAt(r, from) == handler[r].pc = from

HandlerGoto(r, to) == handler' = [handler EXCEPT ![r].pc = to]

----------------------------------------------------------------------------
(* newTicketWithAttribution *)

\* sweepExpiredTickets collects the stale tickets under the lock.
SweepCollect(r) ==
    /\ HandlerAt(r, "idle")
    /\ handler' = [handler EXCEPT ![r] =
            [pc |-> "sweep", todo |-> {u \in reg : age[u] = "stale"}, hold |-> None]]
    /\ UNCHANGED <<closed, closer, reg, status, queue, canceled, age, producer, phase>>

\* releaseTicket(u), called by the handler r: out of the table ...
ReleaseDelete(r, u) ==
    /\ handler[r].hold = None
    /\ \/ HandlerAt(r, "sweep") /\ u \in handler[r].todo
       \/ HandlerAt(r, "release") /\ u = r
    /\ handler' = [handler EXCEPT ![r] =
            [pc |-> IF @.pc = "release" /\ u \notin reg THEN "end" ELSE @.pc,
             todo |-> @.todo \ {u},
             hold |-> IF u \in reg THEN u ELSE None]]
    /\ reg' = reg \ {u}
    /\ UNCHANGED <<closed, closer, status, queue, canceled, age, producer, phase>>

\* ... and, outside the lock, its context is cancelled.
ReleaseCancel(r) ==
    /\ handler[r].hold # None
    /\ canceled' = canceled \cup {handler[r].hold}
    /\ handler' = [handler EXCEPT ![r] =
            [pc |-> IF @.pc = "release" THEN "end" ELSE @.pc, todo |-> @.todo, hold |-> None]]
    /\ UNCHANGED <<closed, closer, reg, status, queue, age, producer, phase>>

\* The ticket of another request is not followed; more requests may come.
OtherCreated(r) ==
    /\ r \in Others
    /\ HandlerAt(r, "sweep") /\ handler[r].todo = {} /\ handler[r].hold = None
    /\ HandlerGoto(r, "idle")
    /\ UNCHANGED <<closed, closer, reg, status, queue, canceled, age, producer, phase>>

\* The ticket is registered and its producer started; a closed pool refuses.
Create(t) ==
    /\ HandlerAt(t, "sweep") /\ handler[t].todo = {} /\ handler[t].hold = None
    /\ IF closed
       THEN /\ HandlerGoto(t, "end")
            /\ phase' = [phase EXCEPT ![t] = "error"]
            /\ UNCHANGED <<reg, producer>>
       ELSE /\ HandlerGoto(t, "open")
            /\ reg' = reg \cup {t}
            /\ producer' = [producer EXCEPT ![t].pc = "spawned"]
            /\ UNCHANGED phase
    /\ UNCHANGED <<closed, closer, status, queue, canceled, age>>

----------------------------------------------------------------------------
(* streamTicket *)

\* The stream looks its ticket up; Close may have removed it already.
StreamOpen(t) ==
    /\ HandlerAt(t, "open")
    /\ IF t \in reg
       THEN HandlerGoto(t, "loop") /\ UNCHANGED phase
       ELSE HandlerGoto(t, "end") /\ phase' = [phase EXCEPT ![t] = "error"]
    /\ UNCHANGED <<closed, closer, reg, status, queue, canceled, age, producer>>

\* Mutant: the deadline is not read.
StreamLoopEndless(t) ==
    /\ HandlerAt(t, "loop") /\ HandlerGoto(t, "select")
    /\ UNCHANGED <<closed, closer, reg, status, queue, canceled, age, producer, phase>>

\* Top of the loop: the deadline is read here and nowhere else.
StreamLoop(t) ==
    /\ HandlerAt(t, "loop")
    /\ IF age[t] = "young"
       THEN HandlerGoto(t, "select") /\ UNCHANGED phase
       ELSE HandlerGoto(t, "release") /\ phase' = [phase EXCEPT ![t] = "error"]
    /\ UNCHANGED <<closed, closer, reg, status, queue, canceled, age, producer>>

\* Mutant: only done ends the stream.
StreamEventOn(t) ==
    /\ HandlerAt(t, "select") /\ queue[t] # <<>>
    /\ queue' = [queue EXCEPT ![t] = Tail(@)]
    /\ phase' = [phase EXCEPT ![t] = Head(queue[t])]
    /\ HandlerGoto(t, IF Head(queue[t]) = "done" THEN "release" ELSE "loop")
    /\ UNCHANGED <<closed, closer, reg, status, canceled, age, producer>>

\* An event is forwarded; done and error end the stream.
StreamEvent(t) ==
    /\ HandlerAt(t, "select") /\ queue[t] # <<>>
    /\ queue' = [queue EXCEPT ![t] = Tail(@)]
    /\ phase' = [phase EXCEPT ![t] = Head(queue[t])]
    /\ HandlerGoto(t, IF Head(queue[t]) \in {"done", "error"} THEN "release" ELSE "loop")
    /\ UNCHANGED <<closed, closer, reg, status, canceled, age, producer>>

\* Ten seconds without an event.
StreamKeepalive(t) ==
    /\ HandlerAt(t, "select") /\ queue[t] = <<>>
    /\ HandlerGoto(t, "loop")
    /\ UNCHANGED <<closed, closer, reg, status, queue, canceled, age, producer, phase>>

\* The client disconnects, or a write to it fails.
StreamGone(t) ==
    /\ handler[t].pc \in {"loop", "select"}
    /\ HandlerGoto(t, "release")
    /\ phase' = [phase EXCEPT ![t] = "gone"]
    /\ UNCHANGED <<closed, closer, reg, status, queue, canceled, age, producer>>

----------------------------------------------------------------------------
(* processTicket, claimTicket, emit and finishTicketWork *)

ProducerAt(t, from) == producer[t].pc = from

ProducerGoto(t, to) == producer' = [producer EXCEPT ![t].pc = to]

\* claimTicket: nothing to do for a released ticket or one already claimed.
Claim(t) ==
    /\ ProducerAt(t, "spawned")
    /\ IF t \in reg /\ status[t] = "pending"
       THEN ProducerGoto(t, "work") /\ status' = [status EXCEPT ![t] = "processing"]
       ELSE ProducerGoto(t, "exit") /\ UNCHANGED status
    /\ UNCHANGED <<closed, closer, reg, queue, canceled, age, handler, phase>>

\* emit finds a cancelled context or a released ticket, or the work notices
\* that its context ended: the producer gives up.
Quit(t) ==
    /\ ProducerAt(t, "work")
    /\ t \in canceled \/ t \notin reg
    /\ ProducerGoto(t, "finish")
    /\ UNCHANGED <<closed, closer, reg, status, queue, canceled, age, handler, phase>>

\* The events the work may emit next (TicketProtocol).
MayFollow(from) ==
    CASE from = "fresh" -> {"ready", "error"}
      [] from = "ready" -> {"streaming", "error"}
      [] from = "streaming" -> {"streaming", "done", "error"}

\* emit passes both checks and starts to send ev.
EmitBegin(t, ev) ==
    /\ ProducerAt(t, "work")
    /\ t \notin canceled /\ t \in reg
    /\ ev \in MayFollow(producer[t].phase)
    /\ producer' = [producer EXCEPT ![t] = [pc |-> "send", phase |-> ev]]
    /\ UNCHANGED <<closed, closer, reg, status, queue, canceled, age, handler, phase>>

\* Mutant: a full channel drops the event.
EmitSendOrDrop(t) ==
    /\ ProducerAt(t, "send")
    /\ queue' = IF Len(queue[t]) < QCap THEN [queue EXCEPT ![t] = Append(@, producer[t].phase)]
                ELSE queue
    /\ ProducerGoto(t, IF producer[t].phase \in {"done", "error"} THEN "stamp" ELSE "work")
    /\ UNCHANGED <<closed, closer, reg, status, canceled, age, handler, phase>>

\* The channel has room.
EmitSend(t) ==
    /\ ProducerAt(t, "send") /\ Len(queue[t]) < QCap
    /\ queue' = [queue EXCEPT ![t] = Append(@, producer[t].phase)]
    /\ ProducerGoto(t, IF producer[t].phase \in {"done", "error"} THEN "stamp" ELSE "work")
    /\ UNCHANGED <<closed, closer, reg, status, canceled, age, handler, phase>>

\* Mutant: a blocked send does not watch the context.
EmitStuck(t) == FALSE

\* The context ends while the channel is full (or in a race with the send).
EmitAborted(t) ==
    /\ ProducerAt(t, "send") /\ t \in canceled
    /\ ProducerGoto(t, "finish")
    /\ UNCHANGED <<closed, closer, reg, status, queue, canceled, age, handler, phase>>

\* The final event is in the channel: the status follows, if still registered.
EmitStamp(t) ==
    /\ ProducerAt(t, "stamp")
    /\ ProducerGoto(t, "finish")
    /\ status' = IF t \notin reg THEN status
                 ELSE [status EXCEPT ![t] = IF producer[t].phase = "error"
                                            THEN "failed" ELSE "completed"]
    /\ UNCHANGED <<closed, closer, reg, queue, canceled, age, handler, phase>>

\* Mutant: a final status is overwritten.
FinishAnyway(t) ==
    /\ ProducerAt(t, "finish") /\ ProducerGoto(t, "exit")
    /\ status' = IF t \in reg
                 THEN [status EXCEPT ![t] = IF t \in canceled THEN "canceled" ELSE "failed"]
                 ELSE status
    /\ UNCHANGED <<closed, closer, reg, queue, canceled, age, handler, phase>>

\* finishTicketWork, then p.tasks.Done().
Finish(t) ==
    /\ ProducerAt(t, "finish")
    /\ ProducerGoto(t, "exit")
    /\ status' = IF t \in reg /\ status[t] = "processing"
                 THEN [status EXCEPT ![t] = IF t \in canceled THEN "canceled" ELSE "failed"]
                 ELSE status
    /\ UNCHANGED <<closed, closer, reg, queue, canceled, age, handler, phase>>

----------------------------------------------------------------------------
(* Close, and the passing of time *)

\* The critical section of Close.
CloseBegin ==
    /\ closer = "idle" /\ closer' = "waiting"
    /\ closed' = TRUE
    /\ canceled' = canceled \cup reg
    /\ reg' = {}
    /\ UNCHANGED <<status, queue, age, handler, producer, phase>>

\* Mutant: Close does not wait.
CloseAtOnce ==
    /\ closer = "waiting" /\ closer' = "returned"
    /\ UNCHANGED <<closed, reg, status, queue, canceled, age, handler, producer, phase>>

\* p.tasks.Wait()
CloseEnd ==
    /\ closer = "waiting" /\ \A t \in Tickets : Ended(t)
    /\ closer' = "returned"
    /\ UNCHANGED <<closed, reg, status, queue, canceled, age, handler, producer, phase>>

Older == [young |-> "expired", expired |-> "stale"]

Grow(t) ==
    /\ ~HandlerAt(t, "idle") /\ ~HandlerAt(t, "sweep")
    /\ age[t] # "stale"
    /\ age' = [age EXCEPT ![t] = Older[@]]
    /\ UNCHANGED <<closed, closer, reg, status, queue, canceled, handler, producer, phase>>

----------------------------------------------------------------------------

Release(r) == (\E u \in Tickets : ReleaseDelete(r, u)) \/ ReleaseCancel(r)

Stream(t) == StreamOpen(t) \/ StreamLoop(t) \/ StreamEvent(t) \/ StreamKeepalive(t)

\* What the handler does by itself once its request has come in.
Handle(t) == Create(t) \/ Stream(t)

\* What the producer does by itself once it was started.
Produce(t) ==
    \/ Claim(t) \/ Quit(t) \/ EmitSend(t) \/ EmitAborted(t) \/ EmitStamp(t) \/ Finish(t)

Next ==
    \/ \E r \in Requests : SweepCollect(r) \/ Release(r) \/ OtherCreated(r)
    \/ \E t \in Tickets :
        \/ Handle(t) \/ StreamGone(t) \/ Produce(t) \/ Grow(t)
        \/ \E ev \in {"ready", "streaming", "done", "error"} : EmitBegin(t, ev)
    \/ CloseBegin \/ CloseEnd

Spec == Init /\ [][Next]_vars

(***************************************************************************)
(* Goroutines run, writes to the client return, time passes.  The producer  *)
(* is only trusted to notice that its context ended: an upstream may stream *)
(* or stay silent for ever.                                                 *)
(***************************************************************************)
Fairness ==
    /\ \A r \in Others : WF_vars(Release(r))
    /\ \A t \in Tickets : WF_vars(Release(t) \/ Handle(t)) /\ WF_vars(Produce(t)) /\ WF_vars(Grow(t))

FairSpec == Spec /\ Fairness

----------------------------------------------------------------------------
(* Properties *)

Events == {"ready", "streaming", "done", "error"}
ProducerPcs == {"off", "spawned", "work", "send", "stamp", "finish", "exit"}
HandlerPcs == {"idle", "sweep", "open", "loop", "select", "release", "end"}

\* The shape of the state.
TypeOK ==
    /\ closed \in BOOLEAN /\ closer \in {"idle", "waiting", "returned"}
    /\ reg \subseteq Tickets /\ canceled \subseteq Tickets
    /\ status \in [Tickets -> {"pending", "processing", "completed", "failed", "canceled"}]
    /\ queue \in [Tickets -> Seq(Events)] /\ \A t \in Tickets : Len(queue[t]) <= QCap
    /\ age \in [Tickets -> {"young", "expired", "stale"}]
    /\ handler \in [Requests -> [pc : HandlerPcs, todo : SUBSET Tickets, hold : Tickets \cup {None}]]
    /\ producer \in [Tickets -> [pc : ProducerPcs, phase : {"fresh"} \cup Events]]
    /\ phase \in [Tickets -> {"fresh", "gone"} \cup Events]

\* A ticket still in the table whose producer ended carries the status of the
\* final event that was emitted: no exit of the work leaves it "processing",
\* "canceled" or with the other verdict (pool.go:335-346, 390-399).
StatusTruth ==
    \A t \in reg : producer[t].pc = "exit" =>
        \/ producer[t].phase = "done" /\ status[t] = "completed"
        \/ producer[t].phase = "error" /\ status[t] = "failed"

\* After Close has returned no producer runs, and none will (pool.go:297:
\* nothing writes to a closed store).
ClosedMeansQuiet == closer = "returned" => \A t \in Tickets : Ended(t)

\* Between its sends, what the producer has emitted is what its client has
\* received or will find in the channel, unless the ticket was cancelled.
NothingLost ==
    \A t \in Tickets \ canceled :
        /\ handler[t].pc \in {"loop", "select"}
        /\ producer[t].pc \in {"work", "stamp", "finish", "exit"}
        => producer[t].phase = Last(<<phase[t]>> \o queue[t])

\* The client sees the ticket protocol.
Client == INSTANCE TicketProtocol
ClientProtocol == Client!Spec

\* A released ticket's producer ends, also when its channel is full and nobody
\* reads it (pool.go:348-350).
ReleasedStops == \A t \in Tickets : t \in canceled ~> Ended(t)

\* Every stream ends, whatever the upstream does.
StreamEnds == \A t \in Tickets : HandlerAt(t, "open") ~> HandlerAt(t, "end")

=============================================================================
