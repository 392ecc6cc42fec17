----------------------------- MODULE OpenAIStreams -----------------------------
(***************************************************************************)
(* The two streaming encoders of the OpenAI compatible API                   *)
(* (internal/openai/stream.go sseEncoder, responses_stream.go                *)
(* responsesEncoder): an Anthropic event stream becomes a stream of          *)
(* chat.completion chunks or of Responses events.  Content blocks may be      *)
(* interleaved, the stream may end, break or hold an error anywhere.          *)
(*                                                                         *)
(* Both encoders are fed the same stream, so that their verdicts can be       *)
(* compared; one that has finished takes nothing more.  An event is           *)
(* <<kind, index>>; the text of a delta is abstracted to its position in the   *)
(* stream, the input a tool block is declared with to "initial".  Arguments   *)
(* that are written stand with their tool, of the rest out keeps the kinds.    *)
(* Writes succeed: one that fails means nobody reads.                         *)
(***************************************************************************)
EXTENDS Naturals, Sequences, Functions

CONSTANTS
    Indices,   \* of the upstream's content blocks
    MaxEvents  \* bound on the events of a stream

VARIABLES
    policy,    \* TruncateTerminal
    read,      \* the events so far
    ends,      \* the body has come to an end
    chat,      \* sseEncoder: [started, tools, finished, out, taken]
    resp       \* responsesEncoder: [started, blocks, items, reason, finished, out, taken]
               \* taken: the events it was given before it finished

vars == <<policy, read, ends, chat, resp>>

Init ==
    /\ policy \in {"retryable", "graceful", "abort"}
    /\ read = <<>> /\ ends = FALSE
    /\ chat = [started |-> FALSE, tools |-> <<>>, finished |-> FALSE, out |-> {}, taken |-> 0]
    /\ resp = [started |-> FALSE, blocks |-> [i \in Indices |-> 0], items |-> <<>>,
               reason |-> "none", finished |-> FALSE, out |-> {}, taken |-> 0]

----------------------------------------------------------------------------
(* The upstream: blocks are declared once and keep their kind, the text blocks of some
   upstreams are never declared.  What no upstream should send occurs too: error
   events and invalid ones, a message_start without its message ("hollow"), a tool
   without id or name ("nameless"), arguments for a block that is no tool, and of those
   with no text in them ("empty"; a call's are ignored by both, like a ping). *)

Has(s, kind, i) == <<kind, i>> \in Range(s)
Sees(s, kind) == \E e \in Range(s) : e[1] = kind
Calls(s, i) == Has(s, "tool", i) \/ Has(s, "nameless", i)
Declared(s, i) == Has(s, "text", i) \/ Calls(s, i) \/ Has(s, "say", i)
Begun(s) == Sees(s, "start") \/ Sees(s, "hollow")

Events ==
    IF read = <<>> THEN {<<k, 0>> : k \in {"start", "hollow", "error", "ping"}}
    ELSE {<<"error", 0>>}
        \cup (IF Sees(read, "final") THEN {<<"stop", 0>>}
              ELSE IF ~Begun(read) THEN {<<"start", 0>>}
              ELSE {<<"final", "end_turn">>, <<"final", "max_tokens">>}
                   \cup {<<k, i>> : k \in {"text", "tool", "nameless"}, i \in {j \in Indices : ~Declared(read, j)}}
                   \cup {<<"say", i>> : i \in {j \in Indices : ~Calls(read, j) /\ ~Has(read, "close", j)}}
                   \cup {<<"args", i>> : i \in {j \in Indices : ~Has(read, "close", j)}}
                   \cup {<<"empty", i>> : i \in {j \in Indices : ~Calls(read, j)}}
                   \cup {<<"close", i>> : i \in {j \in Indices : Declared(read, j) /\ ~Has(read, "close", j)}})

----------------------------------------------------------------------------
(* sseEncoder.dispatch.  A tool is [index, args, closed], args what was emitted *)

Put(enc, kind) == [enc EXCEPT !.out = @ \cup {kind}]

\* e.tools[index]: the position of the tool declared at this index, 0 if none.
ToolAt(enc, i) == LET at == {k \in DOMAIN enc.tools : enc.tools[k].index = i}
                  IN  IF at = {} THEN 0 ELSE CHOOSE k \in at : \A j \in at : j <= k

EmitArgs(enc, k, what) == [enc EXCEPT !.tools[k].args = Append(@, what)]

\* flushToolInput: the declared input, where no delta came.
Flush(tool) == IF tool.args = <<>> THEN [tool EXCEPT !.args = <<"initial">>] ELSE tool
FlushAll(enc) == [enc EXCEPT !.tools = [k \in DOMAIN @ |-> Flush(@[k])]]

ChatClose(enc, k) ==
    IF k = 0 THEN enc ELSE [enc EXCEPT !.tools[k] = [Flush(@) EXCEPT !.closed = TRUE]]

ChatStop(enc) == [Put(Put(FlushAll(enc), "usage"), "DONE") EXCEPT !.finished = TRUE]

\* Mutant: an error event is one of those without content.
ChatIgnoresErrors(e) == e[1] \in {"args", "empty"} => ToolAt(chat, e[2]) # 0

\* Dispatch of the n-th event; an error and arguments for a block that is not a tool,
\* even empty ones, go to fail.
ChatAccepts(e) == e[1] # "error" /\ (e[1] \in {"args", "empty"} => ToolAt(chat, e[2]) # 0)

ChatDispatch(e, n) ==
    CASE e[1] = "start" -> Put([chat EXCEPT !.started = TRUE], "role")
      [] e[1] \in {"tool", "nameless"} ->
            Put([chat EXCEPT !.tools = Append(@, [index |-> e[2], args |-> <<>>, closed |-> FALSE])], "tool")
      [] e[1] = "say"   -> Put(chat, "content")
      [] e[1] = "args"  -> EmitArgs(chat, ToolAt(chat, e[2]), n)
      [] e[1] = "close" -> ChatClose(chat, ToolAt(chat, e[2]))
      [] e[1] = "final" -> Put(FlushAll(chat), "finish")
      [] e[1] = "stop"  -> ChatStop(chat)
      [] OTHER          -> chat

\* Mutant: only the last tool is looked at.
ChatLastCloses == chat.started /\ (chat.tools = <<>> \/ chat.tools[Len(chat.tools)].closed)

\* canFinishGracefully
ChatCloses == chat.started /\ \A k \in DOMAIN chat.tools : chat.tools[k].closed

ChatFail ==
    IF policy = "abort" THEN [chat EXCEPT !.finished = TRUE]
    ELSE IF policy = "graceful" /\ ChatCloses
    THEN [Put(Put(chat, "finish"), "DONE") EXCEPT !.finished = TRUE]
    ELSE [Put(chat, "error") EXCEPT !.finished = TRUE]

----------------------------------------------------------------------------
(* responsesEncoder.dispatch.  An item is [kind, args, closed, status]; a block that
   is opened gets the next output index, for good *)

OpenBlock(enc, kind, i) ==
    Put([enc EXCEPT !.items = Append(@, [kind |-> kind, args |-> <<>>, closed |-> FALSE, status |-> "in_progress"]),
                    !.blocks[i] = Len(enc.items) + 1],
        "added")

AppendDelta(enc, at, n) ==
    IF enc.items[at].kind = "tool" THEN [enc EXCEPT !.items[at].args = Append(@, n)] ELSE Put(enc, "delta")

IsBlock(enc, kind, i) == enc.blocks[i] # 0 /\ enc.items[enc.blocks[i]].kind = kind

Created(enc) == Put([enc EXCEPT !.started = TRUE], "created")

RespSay(i, n) ==
    LET enc == IF IsBlock(resp, "text", i) THEN resp ELSE OpenBlock(resp, "text", i)
    IN  AppendDelta(enc, enc.blocks[i], n)

\* finishBlock: the declared input, where no delta came.
FinishBlock(item, status) ==
    LET whole == IF item.kind = "tool" THEN Flush(item) ELSE item
    IN  [whole EXCEPT !.status = status]

\* onMessageStop: all items are completed; after max_tokens the last one is incomplete.
Completion(enc) == IF enc.reason = "max_tokens" THEN "incomplete" ELSE "completed"
ItemStatus(enc, at) ==
    IF Completion(enc) = "incomplete" /\ at = Len(enc.items) THEN "incomplete" ELSE "completed"

RespStop(enc) ==
    LET items == [k \in DOMAIN enc.items |-> FinishBlock(enc.items[k], ItemStatus(enc, k))]
    IN  [Put(Put(enc, "done"), Completion(enc)) EXCEPT !.items = items, !.finished = TRUE]

\* A tool needs its id and its name; arguments without text are looked at no further.
RespAccepts(e) == e[1] \notin {"error", "nameless"} /\ (e[1] = "args" => IsBlock(resp, "tool", e[2]))

RespDispatch(e, n) ==
    CASE e[1] \in {"start", "hollow"} -> Created(resp)
      [] e[1] \in {"text", "tool"} -> OpenBlock(resp, e[1], e[2])
      [] e[1] = "say"   -> RespSay(e[2], n)
      [] e[1] = "args"  -> AppendDelta(resp, resp.blocks[e[2]], n)
      [] e[1] = "close" -> IF resp.blocks[e[2]] = 0 THEN resp ELSE [resp EXCEPT !.items[resp.blocks[e[2]]].closed = TRUE]
      [] e[1] = "final" -> [resp EXCEPT !.reason = e[2]]
      [] e[1] = "stop"  -> RespStop(resp)
      [] OTHER          -> resp

\* canFinishGracefully
RespCloses == \A k \in DOMAIN resp.items : resp.items[k].kind = "tool" => resp.items[k].closed

RespFail ==
    IF policy = "abort" THEN [resp EXCEPT !.finished = TRUE]
    ELSE LET enc == IF resp.started THEN resp ELSE Created(resp)
         IN  IF policy = "graceful" /\ RespCloses THEN RespStop(enc)
             ELSE [Put([enc EXCEPT !.items = [k \in DOMAIN @ |-> [@[k] EXCEPT !.status = "incomplete"]]],
                       "failed") EXCEPT !.finished = TRUE]

----------------------------------------------------------------------------
(* reencodeSSE, reencodeResponsesSSE *)

Takes(enc, n) == [enc EXCEPT !.taken = n]

\* A finished encoder takes nothing more.
Event ==
    /\ ~ends /\ ~(chat.finished /\ resp.finished) /\ Len(read) < MaxEvents
    /\ \E e \in Events :
        LET n == Len(read) + 1
        IN  /\ read' = Append(read, e)
            /\ chat' = IF chat.finished THEN chat
                       ELSE Takes(IF ChatAccepts(e) THEN ChatDispatch(e, n) ELSE ChatFail, n)
            /\ resp' = IF resp.finished THEN resp
                       ELSE Takes(IF RespAccepts(e) THEN RespDispatch(e, n) ELSE RespFail, n)
    /\ UNCHANGED <<policy, ends>>

\* The end of the body, or a read error: without message_stop it is a failure.
End ==
    /\ ~ends /\ ends' = TRUE
    /\ chat' = IF chat.finished THEN chat ELSE ChatFail
    /\ resp' = IF resp.finished THEN resp ELSE RespFail
    /\ UNCHANGED <<policy, read>>

Next == Event \/ End

Spec == Init /\ [][Next]_vars

----------------------------------------------------------------------------
(* Properties *)

\* What the client of the chat stream, and of the Responses stream, takes for success.
ChatSuccess == "DONE" \in chat.out
RespSuccess == "completed" \in resp.out \/ "incomplete" \in resp.out

\* The part of the stream that an encoder was given.
Story(enc) == SubSeq(read, 1, enc.taken)

\* The arguments the upstream sent for the tool of a block: its deltas, in their
\* order, or else the input the block was declared with.
Deltas(s, i) == {n \in DOMAIN s : s[n] = <<"args", i>>}
Sent(args, s, i) ==
    IF Deltas(s, i) = {} THEN args = <<"initial">>
    ELSE Range(args) = Deltas(s, i) /\ \A j, k \in DOMAIN args : j < k => args[j] < args[k]

Before(s, i, j) ==
    \E m, n \in DOMAIN s :
        /\ m < n /\ s[m] \in {<<"tool", i>>, <<"nameless", i>>}
        /\ s[n] \in {<<"tool", j>>, <<"nameless", j>>}

\* A call is held whole: its arguments are all there, and the upstream had finished it.
Whole(args, s, i) == Sent(args, s, i) /\ (Has(s, "close", i) \/ Sees(s, "stop"))

\* Where a client reads success it holds every tool call whole, in the order of their
\* declarations and nothing else as a call: the arguments of its own block and all of
\* them, in order, however the blocks were interleaved; a call the upstream had not
\* finished is never among them (stream.go:327-337).  The Responses stream knows only
\* calls with an id and a name (responses_stream.go:194-197).
WholeToolCalls ==
    LET chatSaw == Story(chat)
        respSaw == Story(resp)
        called == {i \in Indices : Has(respSaw, "tool", i)}
        tools == {k \in DOMAIN resp.items : resp.items[k].kind = "tool"}
    IN  /\ ChatSuccess =>
            /\ {i \in Indices : Calls(chatSaw, i)} = {chat.tools[k].index : k \in DOMAIN chat.tools}
            /\ \A k \in DOMAIN chat.tools : Whole(chat.tools[k].args, chatSaw, chat.tools[k].index)
            /\ \A j, k \in DOMAIN chat.tools :
                j < k => Before(chatSaw, chat.tools[j].index, chat.tools[k].index)
        /\ RespSuccess =>
            /\ tools = {resp.blocks[i] : i \in called}
            /\ \A i \in called : Whole(resp.items[resp.blocks[i]].args, respSaw, i)
            /\ \A i, j \in called :
                i # j => (Before(respSaw, i, j) <=> resp.blocks[i] < resp.blocks[j])

\* The two interfaces tell the same story: both clients read success, or neither.  They
\* part only over what one of them takes for an error and the other does not, a tool
\* without id or name (the Responses stream) and empty arguments for a block that is no
\* tool (the chat stream), and over a message that never began, which only the Responses
\* stream ends well under the graceful policy.  Without that policy success means that
\* the upstream completed its message, whatever the stream holds.
SameVerdict ==
    LET graceful == policy = "graceful"
        nameless == Sees(read, "nameless")
        empty == Sees(read, "empty")
        comparable == graceful => Sees(read, "start")
    IN  /\ comparable /\ ChatSuccess /\ ~RespSuccess => nameless \/ (graceful /\ empty)
        /\ comparable /\ RespSuccess /\ ~ChatSuccess => empty \/ (graceful /\ nameless)
        /\ ~graceful => /\ ChatSuccess => Sees(Story(chat), "stop")
                        /\ RespSuccess => Sees(Story(resp), "stop")

=============================================================================
