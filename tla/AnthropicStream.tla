---------------------------- MODULE AnthropicStream ----------------------------
(***************************************************************************)
(* One stream of the Messages frontend: StreamState of                     *)
(* src/src/anthropic.rs turns the events of the upstream into frames, and  *)
(* stream_body drives it, over the searches between two generations, until *)
(* the answer ends.  The body is pulled: the code goes on only when the    *)
(* client has taken the last frame, and is dropped where it is when the    *)
(* client leaves.                                                          *)
(*                                                                         *)
(* The same events also go through the aggregation that answers a client   *)
(* which did not ask for a stream (NonStreamAccumulator, convert_response).*)
(*                                                                         *)
(* A text is the number of its deltas.  A block has its position for an    *)
(* index, and an event is a chunk of its own.                              *)
(***************************************************************************)
EXTENDS Integers, Sequences, SequencesExt, FiniteSetsExt, Collections

CONSTANTS
  ToolIndex,       \* the index of a call in tool_calls
  MaxUses,         \* searches that the request may have
  MaxGenerations,  \* MAX_INTERNAL_GENERATION_ROUNDS
  MaxEvents        \* events of an upstream, all generations together

ASSUME BoundsAssumption ==
  /\ ToolIndex \subseteq Nat
  /\ MaxUses \in Nat /\ MaxGenerations \in Nat \ {0} /\ MaxEvents \in Nat

Name == {"", "client", "search"}
Finish == {"stop", "length", "tool_calls"}

\* A part of tool_calls: an id, a name and arguments, as far as it has them.
Fragment == {f \in [index : ToolIndex, id : BOOLEAN, name : Name, args : BOOLEAN] :
               f.name = "search" => f.id}

\* What a tool_use block shows: is its id that of the upstream?
Call == [index : ToolIndex, id : BOOLEAN, name : {"unknown", "client", "search"}]
NoCall == [index |-> -1, id |-> FALSE, name |-> "unknown"]

VARIABLES
  expose,     \* expose_thinking: did the request ask for thinking?
  search,     \* does the request declare web search?
  pc,         \* "polling" the upstream; the body has "ended"; "searching",
              \* "grounding" or "continuing"; the answer is "completing" or
              \* "closing"; or "done"
  state,      \* StreamState, and the frames that are being yielded
  uses_left, rounds,
  shadow,     \* the session's reasoning shadow: "kept", "stored" or "cleared"
  outcome,    \* of the telemetry
  phase, blocks, stop,      \* what the client has made of the frames
  whole,      \* the NonStreamAccumulator fed with the same events
  fed,        \* history: the number of events
  head_first  \* history: did each call so far begin with its id and its name?

request == <<expose, search>>
view == <<phase, blocks, stop>>
budgets == <<uses_left, rounds>>
history == <<fed, head_first>>
vars == <<request, pc, state, budgets, shadow, outcome, view, whole, history>>

-----------------------------------------------------------------------------
(* StreamState                                                             *)

NewState == [started |-> FALSE, terminal |-> FALSE, round_complete |-> FALSE,
             blocks |-> <<>>, text |-> 0, thinking |-> 0, tools |-> <<>>,
             finish |-> "none", unexposed |-> FALSE, asked |-> 0, out |-> <<>>]
NewTool == [block |-> 0, id |-> FALSE, name |-> "", pending |-> 0, server |-> FALSE]

Frame(type, block) ==
  [type |-> type, block |-> block, kind |-> "text", call |-> NoCall, size |-> 1,
   stop |-> "none"]
Start(block, kind, call) ==
  [Frame("start", block) EXCEPT !.kind = kind, !.call = call]
Delta(block, size) == [Frame("delta", block) EXCEPT !.size = size]

Emit(s, frames) == [s EXCEPT !.out = @ \o frames]

OpenBlock(s, kind, call) ==
  Emit([s EXCEPT !.blocks = Append(@, kind)],
       <<Start(Len(s.blocks) + 1, kind, call)>>)

EnsureStarted(s) ==
  IF s.started THEN s
  ELSE Emit([s EXCEPT !.started = TRUE], <<Frame("message_start", 0)>>)

EnsureThinking(s) ==
  IF s.thinking # 0 THEN s
  ELSE [OpenBlock(s, "thinking", NoCall) EXCEPT !.thinking = Len(s.blocks) + 1]

EnsureText(s) ==
  IF s.text # 0 THEN s
  ELSE [OpenBlock(s, "text", NoCall) EXCEPT !.text = Len(s.blocks) + 1]

HandleReasoning(s) ==
  IF ~expose THEN [s EXCEPT !.unexposed = TRUE]
  ELSE Emit(EnsureThinking(s), <<Delta(EnsureThinking(s).thinking, 1)>>)

HandleText(s) == Emit(EnsureText(s), <<Delta(EnsureText(s).text, 1)>>)

\* A call gets its block, with the id and the name known by then.
StartTool(s, i, tool) ==
  LET shown == [index |-> i, id |-> tool.id,
                name |-> IF tool.name = "" THEN "unknown" ELSE tool.name]
      started == OpenBlock([s EXCEPT !.tools =
                   Put(@, i, [tool EXCEPT !.block = Len(s.blocks) + 1, !.pending = 0])],
                   "tool_use", shown)
  IN IF tool.pending = 0 THEN started
     ELSE Emit(started, <<Delta(Len(started.blocks), tool.pending)>>)

\* Mutant: the arguments that come with the name are dropped.
HandleToolOnce(s, f) ==
  LET name == f.name
      tool == [NewTool EXCEPT !.id = f.id, !.name = name]
  IN CASE f.index \notin DOMAIN s.tools /\ ~search -> StartTool(s, f.index, tool)
       [] f.index \notin DOMAIN s.tools /\ search ->
            [s EXCEPT !.tools = Put(@, f.index, tool)]
       [] f.index \in DOMAIN s.tools /\ s.tools[f.index].block # 0 ->
            Emit(s, <<Delta(s.tools[f.index].block, 1)>>)
       [] OTHER -> [s EXCEPT !.tools[f.index].pending = @ + 1]

\* Without search a call is shown as soon as it has a name or arguments, with
\* search when the generation has ended, if it is not a search.
HandleTool(s, f) ==
  LET old == IF f.index \in DOMAIN s.tools THEN s.tools[f.index] ELSE NewTool
      name == IF f.name = "" THEN old.name ELSE f.name
      tool == [old EXCEPT !.id = @ \/ f.id, !.name = name,
                          !.server = @ \/ (search /\ name = "search")]
      starts == tool.block = 0 /\ ~search /\ (tool.name # "" \/ f.args)
      known == IF starts THEN StartTool(s, f.index, tool)
               ELSE [s EXCEPT !.tools = Put(@, f.index, tool)]
      block == known.tools[f.index].block
  IN CASE ~f.args -> known
       [] f.args /\ block # 0 -> Emit(known, <<Delta(block, 1)>>)
       [] f.args /\ block = 0 -> [known EXCEPT !.tools[f.index].pending = @ + 1]

StopFrames(s, n) ==
  CASE s.blocks[n] = "closed" -> <<>>
    [] s.blocks[n] = "thinking" -> <<Frame("signature", n), Frame("stop", n)>>
    [] s.blocks[n] \in {"text", "tool_use"} -> <<Frame("stop", n)>>

StopAll(s) ==
  LET stopped[n \in 0 .. Len(s.blocks)] ==
        IF n = 0 THEN s ELSE Emit(stopped[n - 1], StopFrames(s, n))
  IN  stopped[Len(s.blocks)]

FinishWithStop(s, reason) ==
  Emit([StopAll(s) EXCEPT !.terminal = TRUE],
       <<[Frame("message_delta", 0) EXCEPT !.stop = reason], Frame("message_stop", 0)>>)

\* map_stop_reason
StopReason(finish) ==
  CASE finish = "length" -> "max_tokens"
    [] finish = "tool_calls" -> "tool_use"
    [] finish = "stop" -> "end_turn"

\* The calls that have no block yet, in the order of a HashMap: any.
Pending(s) == {i \in DOMAIN s.tools : s.tools[i].block = 0 /\ ~s.tools[i].server}
StartAll(s, order) ==
  LET started[n \in 0 .. Len(order)] ==
        IF n = 0 THEN s
        ELSE StartTool(started[n - 1], order[n], started[n - 1].tools[order[n]])
  IN  started[Len(order)]

Finalize(s, order) ==
  IF s.terminal THEN s ELSE FinishWithStop(StartAll(s, order), StopReason(s.finish))

FinalizeAsPaused(s) == FinishWithStop(s, "pause_turn")

Fail(s) == Emit([s EXCEPT !.terminal = TRUE], <<Frame("error", 0)>>)

HandleDone(s, order) ==
  CASE s.finish = "none" -> Fail(s)
    [] s.finish # "none" /\ search -> [s EXCEPT !.round_complete = TRUE]
    [] s.finish # "none" /\ ~search -> Finalize(s, order)

Event == {[type |-> t] : t \in {"reasoning", "text", "usage", "done", "broken"}}
  \cup {[type |-> "finish", finish |-> f] : f \in Finish}
  \cup {[type |-> "tool", fragment |-> f] : f \in Fragment}

\* An error object or broken JSON is "broken".  An event with several parts
\* does what these do one after the other.
Handle(s, event, order) ==
  LET open == EnsureStarted(s) IN
  CASE event.type = "done" -> HandleDone(s, order)
    [] event.type = "broken" -> Fail(s)
    [] event.type = "usage" -> open
    [] event.type = "finish" -> [open EXCEPT !.finish = event.finish]
    [] event.type = "reasoning" -> HandleReasoning(open)
    [] event.type = "text" -> HandleText(open)
    [] event.type = "tool" -> HandleTool(open, event.fragment)

CloseOne(s, n, kind) ==
  IF n # 0 /\ s.blocks[n] = kind
    THEN Emit([s EXCEPT !.blocks[n] = "closed"], StopFrames(s, n))
    ELSE s

\* Mutant: the block of text is closed and not forgotten.
CloseThinkingOnly(s) ==
  [CloseOne(CloseOne(s, s.thinking, "thinking"), s.text, "text") EXCEPT !.thinking = 0]

CloseOpenContentBlocks(s) ==
  [CloseOne(CloseOne(s, s.thinking, "thinking"), s.text, "text")
     EXCEPT !.thinking = 0, !.text = 0]

ServerCalls(s) == {i \in DOMAIN s.tools : s.tools[i].name = "search"}
ClientCalls(s) == DOMAIN s.tools \ ServerCalls(s)

\* A block that is closed at once.
ShowOne(s, kind, deltas) ==
  LET n == Len(s.blocks) + 1 IN
  Emit([s EXCEPT !.blocks = Append(@, "closed")],
       <<Start(n, kind, NoCall)>> \o [d \in 1 .. deltas |-> Delta(n, 1)]
         \o <<Frame("stop", n)>>)

\* One for each of some calls.
Show(s, kind, deltas, calls) ==
  LET shown[n \in 0 .. calls] ==
        IF n = 0 THEN s ELSE ShowOne(shown[n - 1], kind, deltas)
  IN  shown[calls]

EmitServerToolUse(s) ==
  LET calls == Cardinality(ServerCalls(s)) IN
  [Show(CloseOpenContentBlocks(s), "server_tool_use", 1, calls) EXCEPT !.asked = calls]

FinishServerToolRound(s) ==
  [Show(s, "web_search_tool_result", 0, s.asked) EXCEPT !.asked = 0]

BeginNewRound(s) ==
  [s EXCEPT !.tools = <<>>, !.finish = "none", !.round_complete = FALSE]

-----------------------------------------------------------------------------
(* The aggregation                                                         *)

NewWhole == [text |-> 0, reasoning |-> 0, tools |-> <<>>, order |-> <<>>,
             finish |-> "none", failed |-> FALSE]

AggregateTool(w, f) ==
  LET new == [id |-> FALSE, name |-> "", args |-> 0]
      old == IF f.index \in DOMAIN w.tools THEN w.tools[f.index] ELSE new
      tool == [id |-> old.id \/ f.id,
               name |-> IF old.name = "" THEN f.name ELSE old.name,
               args |-> old.args + (IF f.args THEN 1 ELSE 0)]
  IN [w EXCEPT !.tools = Put(@, f.index, tool),
               !.order = IF f.index \in DOMAIN w.tools THEN @ ELSE Append(@, f.index)]

Aggregate(w, event) ==
  CASE w.failed \/ event.type \in {"done", "usage"} -> w
    [] event.type = "broken" -> [w EXCEPT !.failed = TRUE]
    [] event.type = "finish" -> [w EXCEPT !.finish = event.finish]
    [] event.type = "reasoning" -> [w EXCEPT !.reasoning = @ + 1]
    [] event.type = "text" -> [w EXCEPT !.text = @ + 1]
    [] event.type = "tool" -> AggregateTool(w, event.fragment)

\* into_response and convert_response: the content of the answer.  A call of
\* which only an id is known is left out.
Converted(w) ==
  LET usable == Chosen(w.order, {n \in DOMAIN w.order :
                  w.tools[w.order[n]].name # "" \/ w.tools[w.order[n]].args > 0})
      Part(kind, size) == [kind |-> kind, call |-> NoCall, size |-> size]
      Tool(i) == [kind |-> "tool_use", size |-> w.tools[i].args,
                  call |-> [index |-> i, id |-> w.tools[i].id,
                            name |-> IF w.tools[i].name = "" THEN "unknown"
                                     ELSE w.tools[i].name]]
  IN (IF expose /\ w.reasoning > 0 THEN <<Part("thinking", w.reasoning)>> ELSE <<>>)
     \o (IF w.text > 0 THEN <<Part("text", w.text)>> ELSE <<>>)
     \o [n \in DOMAIN usable |-> Tool(usable[n])]

-----------------------------------------------------------------------------
(* stream_body                                                             *)

Init ==
  /\ expose \in BOOLEAN /\ search \in BOOLEAN
  /\ pc = "polling"
  /\ state = NewState
  /\ uses_left = (IF search THEN MaxUses ELSE 0) /\ rounds = 1
  /\ shadow = "kept"
  /\ outcome = "none"
  /\ phase = "new" /\ blocks = <<>> /\ stop = "none"
  /\ whole = NewWhole
  /\ fed = 0 /\ head_first = TRUE

\* The code goes on when the client has taken every frame.
At(where) == pc = where /\ state.out = <<>>

Polling == At("polling") /\ ~state.terminal

\* The upstream gives a call one name, in the first parts of it or later.
OneName(f) ==
  f.index \in DOMAIN whole.tools /\ f.name # "" =>
    whole.tools[f.index].name \in {"", f.name}

HeadFirst(f) == f.index \in DOMAIN whole.tools \/ (f.id /\ f.name # "")

TakeEvent(event, then) ==
  /\ Polling /\ fed < MaxEvents
  /\ event.type = "tool" => OneName(event.fragment)
  /\ fed' = fed + 1
  /\ head_first' = (head_first /\ (event.type = "tool" => HeadFirst(event.fragment)))
  /\ \E order \in SetToSeqs(Pending(state)) : state' = Handle(state, event, order)
  /\ whole' = Aggregate(whole, event)
  /\ pc' = then
  /\ UNCHANGED <<request, budgets, shadow, outcome, view>>

UpstreamEvent(event) == TakeEvent(event, "polling")

\* The last event of a body that ends without an empty line.
TrailingEvent(event) == TakeEvent(event, "ended")

BodyEnds ==
  /\ Polling
  /\ pc' = "ended"
  /\ UNCHANGED <<request, state, budgets, shadow, outcome, view, whole, history>>

Move(then, s) ==
  /\ pc' = then /\ state' = s
  /\ UNCHANGED <<request, budgets, shadow, outcome, view, whole, history>>

\* A transport error, a stall, or an event beyond the limits.
StreamBreaks == Polling /\ Move("closing", Fail(state))

\* Mutant: the finish reason says whether there are calls.
ShadowAfterReason(s) ==
  CASE s.finish # "tool_calls" -> "cleared"
    [] s.finish = "tool_calls" /\ s.unexposed -> "stored"
    [] OTHER -> shadow

\* commit_shadow
ShadowAfter(s) ==
  CASE s.tools = <<>> -> "cleared"
    [] s.tools # <<>> /\ s.unexposed /\ (\E i \in DOMAIN s.tools : s.tools[i].id) -> "stored"
    [] OTHER -> shadow

Return(effect, how) ==
  /\ pc' = "done"
  /\ shadow' = effect /\ outcome' = how
  /\ UNCHANGED <<request, state, budgets, view, whole, history>>

\* An event of the upstream has ended the answer, or broken it.
TerminalEvent ==
  /\ At("polling") /\ state.terminal
  /\ Return(ShadowAfter(state),
            IF state.finish = "none" THEN "protocol_error" ELSE "complete")

\* The trailing event has: the shadow and the telemetry are left alone, and
\* Drop says that the client has gone.
TrailingTerminal ==
  At("ended") /\ state.terminal /\ Return(shadow, "client_disconnected")

BodyEnded == At("ended") /\ ~state.terminal

\* round_complete implies a finish reason.
UnexpectedEnd ==
  BodyEnded /\ state.finish = "none" /\ Move("closing", Fail(state))

\* Without search, or a round without searches.
Answer ==
  /\ BodyEnded /\ state.finish # "none"
  /\ search => ServerCalls(state) = {}
  /\ \E order \in SetToSeqs(Pending(state)) : Move("completing", Finalize(state, order))

\* ToolRoundKind::Mixed and ServerOnly
ShowSearches ==
  /\ BodyEnded /\ state.finish # "none"
  /\ search /\ ServerCalls(state) # {}
  /\ Move("searching", EmitServerToolUse(state))

Exhausted == uses_left = 0 \/ rounds >= MaxGenerations

\* Searches that are malformed or refused cost nothing.
Search ==
  /\ At("searching")
  /\ \E spent \in 0 .. Min({uses_left, Cardinality(ServerCalls(state))}) :
       /\ Exhausted /\ ClientCalls(state) = {} => spent = 0
       /\ uses_left' = uses_left - spent
  /\ pc' = IF ClientCalls(state) # {} THEN "mixed"
           ELSE IF Exhausted THEN "pausing" ELSE "grounding"
  /\ state' = FinishServerToolRound(state)
  /\ UNCHANGED <<request, rounds, shadow, outcome, view, whole, history>>

\* The client's own calls, after the searches.
MixedAnswer ==
  /\ At("mixed")
  /\ \E order \in SetToSeqs(Pending(state)) : Move("completing", Finalize(state, order))

Pause == At("pausing") /\ Move("completing", FinalizeAsPaused(state))

\* append_server_round and send_chat.
Continue ==
  /\ At("grounding")
  /\ rounds' = rounds + 1
  /\ pc' = "polling"
  /\ state' = BeginNewRound(state)
  /\ whole' = NewWhole
  /\ UNCHANGED <<request, uses_left, shadow, outcome, view, history>>

ContinueFails == At("grounding") /\ Move("closing", Fail(state))

Complete == At("completing") /\ Return(ShadowAfter(state), "complete")
Close == At("closing") /\ Return(shadow, "error")

-----------------------------------------------------------------------------
(* The client                                                              *)

\* What a client does with a frame: one for an unknown block is dropped.
Read(frame) ==
  LET On(block) == [n \in DOMAIN blocks |-> IF n = frame.block THEN block ELSE blocks[n]]
      old == blocks[frame.block]
  IN /\ phase' = CASE frame.type = "message_start" -> "open"
                   [] frame.type = "message_delta" -> "stopping"
                   [] frame.type = "message_stop" -> "stopped"
                   [] frame.type = "error" -> "failed"
                   [] OTHER -> phase
     /\ stop' = IF frame.type = "message_delta" THEN frame.stop ELSE stop
     /\ blocks' = CASE frame.type = "start" ->
                         Append(blocks, [kind |-> frame.kind, call |-> frame.call, size |-> 0,
                                         signed |-> FALSE, stopped |-> FALSE])
                    [] frame.type = "delta" -> On([old EXCEPT !.size = @ + frame.size])
                    [] frame.type = "signature" -> On([old EXCEPT !.signed = TRUE])
                    [] frame.type = "stop" -> On([old EXCEPT !.stopped = TRUE])
                    [] OTHER -> blocks

ClientReads ==
  /\ pc # "done" /\ state.out # <<>>
  /\ Read(Head(state.out))
  /\ state' = [state EXCEPT !.out = Tail(@)]
  /\ UNCHANGED <<request, pc, budgets, shadow, outcome, whole, history>>

\* The body is dropped, and with it the telemetry.
ClientLeaves ==
  /\ pc # "done"
  /\ Return(shadow, "client_disconnected")

Next ==
  \/ \E event \in Event : UpstreamEvent(event) \/ TrailingEvent(event)
  \/ BodyEnds \/ StreamBreaks \/ TerminalEvent \/ TrailingTerminal
  \/ UnexpectedEnd \/ Answer \/ ShowSearches \/ Search \/ MixedAnswer \/ Pause
  \/ Continue \/ ContinueFails \/ Complete \/ Close
  \/ ClientReads \/ ClientLeaves

Spec == Init /\ [][Next]_vars

-----------------------------------------------------------------------------
(* Properties                                                              *)

Messages == INSTANCE MessagesEvents WITH
  Size <- 1 .. MaxEvents,
  Reason <- {"end_turn", "max_tokens", "tool_use", "pause_turn"}

TypeOK ==
  /\ {expose, search} \subseteq BOOLEAN
  /\ pc \in {"polling", "ended", "searching", "mixed", "pausing", "grounding",
             "completing", "closing", "done"}
  /\ uses_left \in 0 .. MaxUses /\ rounds \in 1 .. MaxGenerations
  /\ shadow \in {"kept", "stored", "cleared"}
  /\ outcome \in {"none", "complete", "protocol_error", "error", "client_disconnected"}
  /\ \A n \in DOMAIN blocks : blocks[n] \in Messages!Block

\* The frames of a stream, taken one by one, are those of the Messages
\* protocol: whatever the upstream sends, in whatever pieces, over any number
\* of searches and wherever it breaks, blocks are started before anything is
\* said of them, signed if they are thinking, and stopped once, before the
\* message is.
FollowsMessages == Messages!Spec

\* Streamed or whole, it is the same answer: when a stream that needed no
\* search has stopped, the client has the text, the thinking, the calls in
\* their order and the stop reason that the aggregation of the same events
\* has, if the upstream says the id and the name of a call before the rest.
Of(kind) == Chosen(blocks, {n \in DOMAIN blocks : blocks[n].kind = kind})
ShownCalls == Of("tool_use")
Content ==
  LET all == Of("thinking") \o Of("text") \o Of("tool_use")
  IN [n \in DOMAIN all |-> [kind |-> all[n].kind, call |-> all[n].call,
                            size |-> all[n].size]]
StreamAndWholeAgree ==
  phase = "stopped" /\ ~search /\ head_first =>
    /\ ~whole.failed
    /\ Content = Converted(whole)
    /\ stop = StopReason(whole.finish)

\* Every state is well formed, and the last one says what the whole answer says.
AnthropicInv == TypeOK /\ StreamAndWholeAgree

\* What becomes of the reasoning fits what the client was shown: it is dropped
\* only when the last generation left no call to answer, and stored only for
\* a client that did not get the reasoning itself and, if it got an answer at
\* all, has calls to answer.
ShadowFitsAnswer ==
  /\ shadow = "cleared" => ShownCalls = <<>>
  /\ shadow = "stored" => ~expose
  /\ shadow = "stored" /\ phase = "stopped" =>
       \E n \in DOMAIN blocks : blocks[n].kind \in {"tool_use", "server_tool_use"}

\* "Final answers clear the session's shadow state": a turn that the upstream
\* broke off is no final answer, and the client will ask again.
FailureKeepsShadow == phase = "failed" => shadow # "cleared"
===============================================================================
