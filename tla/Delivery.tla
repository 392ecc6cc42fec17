-------------------------------- MODULE Delivery --------------------------------
(***************************************************************************)
(* One client response and the upstream streams it is made of                *)
(* (internal/gateway/handler.go passthroughDeliver, truncate.go,              *)
(* streamstate.go, engine.go deliverStream and teeReader): bytes are          *)
(* held back until the first content, a size or a timer commits them; an      *)
(* upstream that breaks before that is replaced by another attempt, and one   *)
(* that breaks after it gets an ending.                                       *)
(*                                                                         *)
(* One action per critical section of the gate: the reading loop and the      *)
(* timer's callbacks, those of earlier attempts too, interleave between them. *)
(* Bytes are whole events, or the torn half of one:                           *)
(*   "name"  a line that was cut in its middle and holds no data,             *)
(*   "data"  the data of the event is complete, the empty line is missing,    *)
(*   "junk"  the data is cut in its middle.                                   *)
(***************************************************************************)
EXTENDS Naturals, Sequences, SequencesExt

CONSTANTS
    MaxAttempts,  \* attempts of the engine that reach a delivery
    MaxEvents,    \* bound on the events of one upstream stream
    MaxPending    \* TruncatePrebufferBytes, in events

Attempts == 1..MaxAttempts
Policies == {"retryable", "graceful", "abort"}

VARIABLES
    policy, prebuffer,  \* the configuration
    n, pc,              \* the attempt and the place of its delivery
    read,               \* events of this attempt read so far
    torn, ends,         \* the half event at its end, how the reading ends
    gate,               \* the prebufferGate of each attempt
    headers, client,    \* header writes, and what the client has received
    dead,               \* the client's connection is broken
    result              \* what passthroughDeliver returned

upstream == <<read, torn, ends>>
vars == <<policy, prebuffer, n, pc, upstream, gate, headers, client, dead, result>>

NewGate == [committed |-> FALSE, abandoned |-> FALSE, pending |-> <<>>, err |-> FALSE, timer |-> "off"]

Init ==
    /\ policy \in Policies /\ prebuffer \in BOOLEAN
    /\ n = 1 /\ pc = "open" /\ read = <<>> /\ torn = "none" /\ ends = "none"
    /\ gate = [a \in Attempts |-> NewGate] /\ headers = 0 /\ client = <<>> /\ dead = FALSE
    /\ result = "none"

----------------------------------------------------------------------------
(* What the observers of the bytes know: sseTail, sseState, UsageCollector *)

\* Both flush a last event whose data is complete.
Seen(e) == Contains(read, e)

OpenIn(events) ==
    LET marks == {i \in 1..Len(events) : events[i] \in {"text", "tool", "close"}}
    IN  IF marks = {} THEN "close" ELSE events[Max(marks)]

ContentSeen == Seen("delta")

\* Mutant: an open tool call does not matter.
ClosesAnything == Seen("start") /\ ~Seen("stop") /\ torn # "junk"

\* gracefulFrames
MayClose == Seen("start") /\ ~Seen("stop") /\ torn # "junk" /\ OpenIn(read) # "tool"

\* An upstream, in its protocol's order; it may report an error at any time.
Events ==
    LET open == OpenIn(read)
    IN  (IF read = <<>> THEN {"start"} ELSE {})
        \cup (IF Seen("start") /\ open = "close" /\ ~Seen("final") THEN {"text", "tool", "final"} ELSE {})
        \cup (IF open # "close" THEN {"delta", "close"} ELSE {})
        \cup (IF Seen("final") /\ ~Seen("stop") THEN {"stop"} ELSE {})
        \cup (IF ~Seen("stop") /\ ~Seen("error") THEN {"error"} ELSE {})

----------------------------------------------------------------------------
(* prebufferGate, each under its lock *)

Set(a, g) == gate' = [gate EXCEPT ![a] = g]

\* http.ResponseWriter: a broken connection takes nothing.
Received(items) == client' = IF dead THEN client ELSE client \o items

\* writeLocked, on a gate that has been committed.
Written(a, g, items) ==
    IF g.err \/ items = <<>> THEN Set(a, g) /\ UNCHANGED client
    ELSE Set(a, [g EXCEPT !.err = dead]) /\ Received(items)

\* commitLocked: once, and never after the attempt was given up.
Committed(a) ==
    LET g == gate[a]
    IN  IF g.committed \/ g.abandoned THEN UNCHANGED <<gate, headers, client>>
        ELSE /\ headers' = headers + 1
             /\ Written(a, [g EXCEPT !.committed = TRUE, !.timer = IF @ = "due" THEN @ ELSE "off",
                                     !.pending = <<>>], g.pending)

Stopped(g) == [g EXCEPT !.timer = IF @ = "due" THEN @ ELSE "off"]

\* The timer fires: its callback has started and waits for the lock.
Fire(a) ==
    /\ gate[a].timer = "armed" /\ Set(a, [gate[a] EXCEPT !.timer = "due"])
    /\ UNCHANGED <<policy, prebuffer, n, pc, upstream, headers, client, dead, result>>

Callback(a) ==
    /\ gate[a].timer = "due"
    /\ LET g == gate[a]
       IN  IF g.committed \/ g.abandoned
           THEN Set(a, [g EXCEPT !.timer = "off"]) /\ UNCHANGED <<headers, client>>
           ELSE /\ headers' = headers + 1
                /\ Written(a, [g EXCEPT !.committed = TRUE, !.timer = "off", !.pending = <<>>], g.pending)
    /\ UNCHANGED <<policy, prebuffer, n, pc, upstream, dead, result>>

----------------------------------------------------------------------------
(* passthroughDeliver *)

Goto(from, to) == pc = from /\ pc' = to

\* Mutant: the timer is left to the first push, which never comes.
NotArmed(g) == g

\* startTimer
Armed(g) == [g EXCEPT !.timer = "armed"]

\* Without a prebuffer the header goes out at once and no timer is armed.
Open ==
    /\ Goto("open", "read")
    /\ IF prebuffer
       THEN Set(n, Armed(gate[n])) /\ UNCHANGED <<headers, client>>
       ELSE Committed(n)
    /\ UNCHANGED <<policy, prebuffer, n, upstream, dead, result>>

Read ==
    /\ Goto("read", "push") /\ ends = "none" /\ Len(read) < MaxEvents /\ ~Seen("error")
    /\ \E e \in Events : read' = Append(read, e)
    /\ UNCHANGED <<policy, prebuffer, n, torn, ends, gate, headers, client, dead, result>>

\* The connection breaks in the middle of an event; half of it was read before.
\* What is complete but for its empty line counts as seen.
ReadTorn ==
    /\ Goto("read", "push") /\ ends = "none" /\ Len(read) < MaxEvents /\ ~Seen("error")
    /\ \/ \E e \in Events : read' = Append(read, e) /\ torn' = "data"
       \/ torn' \in {"name", "junk"} /\ UNCHANGED read
    /\ ends' = "cut"
    /\ UNCHANGED <<policy, prebuffer, n, gate, headers, client, dead, result>>

\* The chunk that has just been read.
Chunk == IF torn = "none" THEN <<Last(read)>> ELSE <<torn>>

\* push, or write where nothing is held back.
Push ==
    LET g == gate[n]
        full == Len(g.pending) + 1 >= MaxPending
    IN  /\ Goto("push", "pushed")
        /\ IF g.committed THEN Written(n, g, Chunk) /\ UNCHANGED headers
           ELSE IF ~full THEN Set(n, [g EXCEPT !.pending = @ \o Chunk]) /\ UNCHANGED <<headers, client>>
           ELSE /\ headers' = headers + 1
                /\ Written(n, [Stopped(g) EXCEPT !.committed = TRUE, !.pending = <<>>], g.pending \o Chunk)
        /\ UNCHANGED <<policy, prebuffer, n, upstream, dead, result>>

\* Content must not wait.
Pushed ==
    /\ pc = "pushed"
    /\ IF gate[n].err THEN pc' = "return" /\ result' = "writeFailed" /\ UNCHANGED <<gate, headers, client>>
       ELSE /\ pc' = "read" /\ UNCHANGED result
            /\ IF ContentSeen THEN Committed(n) ELSE UNCHANGED <<gate, headers, client>>
    /\ UNCHANGED <<policy, prebuffer, n, upstream, dead>>

\* teeReader: an EOF before message_stop is a cut as well, an error event is not.
ReadEnd ==
    /\ Goto("read", "ended")
    /\ IF ends = "cut" THEN UNCHANGED ends
       ELSE ends' \in {IF Seen("error") THEN "error" ELSE IF Seen("stop") THEN "done" ELSE "cut", "cut"}
    /\ UNCHANGED <<policy, prebuffer, n, read, torn, gate, headers, client, dead, result>>

\* A complete stream, or the upstream's own error: passed on as it is.
Whole ==
    /\ Goto("ended", "return") /\ ends \in {"done", "error"} /\ Committed(n)
    /\ result' = IF gate'[n].err THEN "writeFailed" ELSE ends
    /\ UNCHANGED <<policy, prebuffer, n, upstream, dead>>

\* Mutant: the attempt is not given up, only judged.
ClaimLeaves(g) == Stopped(g)

\* claimUndelivered: the timer's commit and the claim exclude each other.
Claimed(g) == [Stopped(g) EXCEPT !.abandoned = TRUE]

Claim ==
    /\ pc = "ended" /\ ends = "cut"
    /\ IF gate[n].committed
       THEN Set(n, Stopped(gate[n])) /\ pc' = "terminal" /\ UNCHANGED result
       ELSE Set(n, Claimed(gate[n])) /\ pc' = "return" /\ result' = "undelivered"
    /\ UNCHANGED <<policy, prebuffer, n, upstream, headers, client, dead>>

\* writeTruncateTerminal
Ending == IF policy = "abort" THEN <<>>
          ELSE IF policy = "graceful" /\ MayClose THEN <<"closing">> ELSE <<"failure">>

Terminal ==
    /\ Goto("terminal", "return") /\ Written(n, gate[n], Ending)
    /\ result' = IF policy = "abort" THEN "aborted" ELSE IF gate'[n].err THEN "writeFailed" ELSE "cut"
    /\ UNCHANGED <<policy, prebuffer, n, upstream, headers, dead>>

\* gate.close; the engine repeats an invisible attempt with another account, on the
\* same response.
Return ==
    /\ pc = "return"
    /\ IF result = "undelivered" /\ n < MaxAttempts /\ ~dead
       THEN /\ n' = n + 1 /\ pc' = "open" /\ read' = <<>> /\ torn' = "none" /\ ends' = "none"
            /\ result' = "none"
       ELSE pc' = "over" /\ UNCHANGED <<n, upstream, result>>
    /\ Set(n, [Stopped(gate[n]) EXCEPT !.abandoned = TRUE, !.pending = <<>>])
    /\ UNCHANGED <<policy, prebuffer, headers, client, dead>>

Breaks == ~dead /\ dead' = TRUE /\ UNCHANGED <<policy, prebuffer, n, pc, upstream, gate, headers, client, result>>

Deliver == Open \/ Push \/ Pushed \/ Whole \/ Claim \/ Terminal \/ Return

Next == Deliver \/ Read \/ ReadTorn \/ ReadEnd \/ Breaks \/ \E a \in Attempts : Fire(a) \/ Callback(a)

\* The timers run; nothing is assumed of the upstream.
Spec == Init /\ [][Next]_vars /\ WF_vars(Deliver) /\ \A a \in Attempts : WF_vars(Fire(a) \/ Callback(a))

----------------------------------------------------------------------------
(* Properties *)

Sent == IF torn = "none" THEN read ELSE IF torn = "data" THEN Front(read) \o <<torn>> ELSE Append(read, torn)

\* What the client has received, without the ending that was made up for it.
Endings == {"closing", "failure"}
Body == IF client # <<>> /\ Last(client) \in Endings THEN Front(client) ELSE client

\* The client reads one stream: the header is written once, what follows is the
\* beginning of the latest attempt's bytes, in order and without a gap, and at
\* most one ending; an attempt called invisible has left nothing, and nothing of
\* it arrives later, whenever its timer fires (truncate.go:390-393).
OneStory ==
    /\ headers <= 1 /\ IsPrefix(Body, Sent)
    /\ result = "undelivered" => headers = 0

\* Half a tool call is never passed off as a complete one (truncate.go:166-167):
\* wherever the client reads a regular ending, no tool call is open in its stream,
\* or the bytes before the ending make it unreadable.
NoHalfTool ==
    client # <<>> /\ Last(client) = "closing" =>
        \/ OpenIn(Body) # "tool"
        \/ Last(Body) = "data"

\* An ending that was made up is readable; better an error than a broken protocol
\* (truncate.go:55-56).
ReadableEnding ==
    client # <<>> /\ Last(client) = "closing" => Body # <<>> /\ Last(Body) \notin {"name", "data"}

\* Nothing is held back for ever, though the upstream may fall silent.
FlowsOn == \A a \in Attempts : gate[a].pending # <<>> ~> gate[a].pending = <<>>

=============================================================================
