------------------------------ MODULE MCStreams ------------------------------
(***************************************************************************)
(* What clients are sent, one run: the table of asynchronous tickets and    *)
(* their streams (extended), the work on one ticket, and the delivery of a  *)
(* synchronous stream (instanced). The table leaves open what its producers *)
(* emit, and the other two do not meet it, so the properties of one need    *)
(* only the behaviours in which that part moves: focus says which.          *)
(***************************************************************************)
EXTENDS AsyncPool, TLC

CONSTANTS
    \* of the work on one ticket
    Accounts, Jwt, Line, Direct, MaxRetries, MaxCaptcha, MaxTimeouts, MaxRate,
    MaxBusy, MaxOverload, RiskLines,
    \* of the delivery
    MaxAttempts, MaxEvents, MaxPending

VARIABLES
    focus,          \* the part that moves
    \* the work on one ticket
    atPc, reader, atPhase, acc, tried, avoid, atN, hits, stream, usable,
    recorded, usage, requests,
    \* the delivery of a synchronous stream
    policy, prebuffer, deN, dePc, read, torn, ends, gate, headers, client,
    dead, result

AT == INSTANCE AsyncTicket WITH pc <- atPc, phase <- atPhase, n <- atN

DE == INSTANCE Delivery WITH n <- deN, pc <- dePc

\* Two accounts share a line, one goes out directly.
MCLine == [a \in Accounts |-> IF a = "j2" THEN Direct ELSE "line1"]

atVars == <<atPc, reader, atPhase, acc, tried, avoid, atN, hits, stream, usable,
    recorded, usage, requests>>
deVars == <<policy, prebuffer, deN, dePc, read, torn, ends, gate, headers, client,
    dead, result>>
allVars == <<focus, vars, atVars, deVars>>

RunInit ==
    /\ focus \in {"table", "ticket", "delivery"}
    /\ Init
    /\ AT!Init
    /\ focus = "ticket" \/ usable = {}
    /\ DE!Init
    /\ focus = "delivery" \/ <<policy, prebuffer>> = <<"retryable", TRUE>>

Table(A) ==
    /\ focus = "table" /\ A
    /\ UNCHANGED <<focus, atVars, deVars>>
Ticket(A) ==
    /\ focus = "ticket" /\ A
    /\ UNCHANGED <<focus, vars, deVars>>
Passthrough(A) ==
    /\ focus = "delivery" /\ A
    /\ UNCHANGED <<focus, vars, atVars>>

RunNext ==
    \/ Table(Next)
    \/ Ticket(AT!Next)
    \/ Passthrough(DE!Next)

RunSpec ==
    /\ RunInit /\ [][RunNext]_allVars
    /\ \A r \in Others : WF_allVars(Table(Release(r)))
    /\ \A t \in Tickets :
        /\ WF_allVars(Table(Release(t) \/ Handle(t)))
        /\ WF_allVars(Table(Produce(t))) /\ WF_allVars(Table(Grow(t)))
    /\ WF_allVars(Ticket(AT!Retries))
    /\ WF_allVars(Ticket(reader = "canceled" /\ AT!Forward))
    /\ WF_allVars(Passthrough(DE!Deliver))
    /\ \A a \in DE!Attempts : WF_allVars(Passthrough(DE!Fire(a) \/ DE!Callback(a)))

(* The client of a ticket receives a run of the ticket protocol and misses no
   event that was emitted for it (AsyncPool). *)
ClientSeesAll == ClientProtocol /\ [](focus = "table" => NothingLost)

(* A ticket that is read ends with a verdict, its tokens are booked once, and
   nothing is sent again once a chunk was sent or the content was condemned
   (AsyncTicket). *)
AnsweredOnce == [](AT!TypeOK /\ AT!VerdictDelivered /\ AT!UsageOnce) /\ AT!NoResend

(* What is emitted for a ticket is a run of the ticket protocol (AsyncTicket). *)
EmittedProtocol == AT!EmittedProtocol

(* However the nested retries of a ticket combine, its accounts and its requests
   stay within the budgets (AsyncTicket). *)
BoundedAmplification == AT!BoundedAmplification

(* The client of a synchronous stream reads one story (Delivery). *)
OneStory == DE!OneStory

(* No half tool call in it passes for a complete one (Delivery). *)
NoHalfTool == DE!NoHalfTool

(* No work hangs: a released ticket's producer ends and every stream of a ticket
   does (AsyncPool), the retries of a ticket end (AsyncTicket), and nothing of a
   synchronous stream is held back for ever (Delivery).  Tickets are
   interchangeable and focus never changes: the formula stands for ReleasedStops,
   StreamEnds, AT!RetriesEnd and DE!FlowsOn. *)
HeldBack == \E a \in DE!Attempts : gate[a].pending # <<>>
Works(t) == \/ focus = "table" /\ HandlerAt(t, "open")
            \/ focus = "ticket" /\ atPc # "ended"
            \/ focus = "delivery" /\ HeldBack
Rests(t) == CASE focus = "table" -> HandlerAt(t, "end")
              [] focus = "ticket" -> atPc \in {"stream", "ended"}
              [] focus = "delivery" -> ~HeldBack
WorkEnds == ReleasedStops /\ \A t \in Tickets : Works(t) ~> Rests(t)

=============================================================================
