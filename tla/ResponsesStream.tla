---------------------------- MODULE ResponsesStream ----------------------------
(***************************************************************************)
(* One stream of the Responses frontend: the converter of                  *)
(* src/src/responses/stream.rs turns chunks of the upstream into events,   *)
(* the pump of src/src/responses_pump.rs drives it, runs searches between  *)
(* two generations, and sends what comes out through a bounded channel to  *)
(* a client that reads one event at a time, or leaves.                     *)
(*                                                                         *)
(* A text is the number of its deltas; ids are the indices of their items. *)
(***************************************************************************)
EXTENDS Integers, Sequences, SequencesExt, FiniteSetsExt, TLC

CONSTANTS
  ToolIndex,       \* the index of a call in tool_calls
  MaxUses,         \* rounds of searches that a request may have
  MaxChunks,       \* chunks of an upstream, all generations together
  Capacity         \* of the channel to the client, in batches

ASSUME BoundsAssumption ==
  /\ ToolIndex \subseteq Nat
  /\ MaxUses \in Nat /\ MaxChunks \in Nat /\ Capacity \in Nat \ {0}

NoIndex == -1      \* usize::MAX: an item that was not allocated

\* A part of tool_calls.  The name may come late, or in no part at all.
Name == {"", "client", "search"}
Call == [index : ToolIndex, name : Name, args : BOOLEAN]

VARIABLES
  expose,          \* expose_thinking: was a summary of reasoning requested?
  search,          \* does the request declare web search?
  pc,              \* the pump: "polling", "sending", "searching", "showing",
                   \* "continuing", "closing" or "done"
  conv,            \* the ResponsesConverter, and the events it has appended
  rounds_left,
  channel,         \* batches on their way to the client
  client,          \* "there" or "gone"
  phase, items, output,   \* what the client has made of the events
  said,            \* history: what the upstream has said to the client
  fed              \* history: the number of chunks

request == <<expose, search>>
view == <<phase, items, output>>
vars == <<request, pc, conv, rounds_left, channel, client, view, said, fed>>

-----------------------------------------------------------------------------
(* The converter                                                           *)

Slot(index) == [index |-> index, text |-> 0, done |-> FALSE]
NewConverter == [started |-> FALSE, next |-> 0, reasoning |-> Slot(NoIndex),
                 message |-> Slot(NoIndex), tools |-> <<>>, items |-> <<>>,
                 finish |-> "none", out |-> <<>>]

Event(type, index) ==
  [type |-> type, index |-> index, kind |-> "message", text |-> 0, named |-> FALSE]
ItemAdded(index, kind, named) ==
  [Event("added", index) EXCEPT !.kind = kind, !.named = named]
PartDone(index, text) == [Event("partDone", index) EXCEPT !.text = text]
ItemDone(index, kind, named) ==
  [Event("done", index) EXCEPT !.kind = kind, !.named = named]

Emit(c, events) == [c EXCEPT !.out = @ \o events]
Describe(c, index, kind) ==
  [c EXCEPT !.items = Append(@, [index |-> index, kind |-> kind])]

EnsureStarted(c) ==
  IF c.started THEN c
  ELSE Emit([c EXCEPT !.started = TRUE],
            <<Event("created", NoIndex), Event("in_progress", NoIndex)>>)

FeedReasoning(c) ==
  LET i == c.next
      said_so == [c EXCEPT !.reasoning.text = @ + 1]
      allocated == Describe([said_so EXCEPT !.reasoning.index = i, !.next = @ + 1],
                            i, "reasoning")
  IN CASE ~expose -> said_so
       [] expose /\ c.reasoning.index = NoIndex ->
            Emit(allocated, <<ItemAdded(i, "reasoning", FALSE), Event("part", i),
                              Event("delta", i)>>)
       [] OTHER -> Emit(said_so, <<Event("delta", c.reasoning.index)>>)

FeedText(c) ==
  LET i == c.next
      said_so == [c EXCEPT !.message.text = @ + 1]
      allocated == Describe([said_so EXCEPT !.message.index = i, !.next = @ + 1],
                            i, "message")
  IN IF c.message.index = NoIndex
       THEN Emit(allocated, <<ItemAdded(i, "message", FALSE), Event("part", i),
                              Event("delta", i)>>)
       ELSE Emit(said_so, <<Event("delta", c.message.index)>>)

Closing(slot, kind) ==
  <<PartDone(slot.index, slot.text), ItemDone(slot.index, kind, FALSE)>>

CloseMessageItem(c) ==
  IF c.message.index = NoIndex \/ c.message.done THEN c
  ELSE Emit([c EXCEPT !.message.done = TRUE], Closing(c.message, "message"))

CloseReasoningItem(c) ==
  IF c.reasoning.index = NoIndex \/ c.reasoning.done THEN c
  ELSE Emit([c EXCEPT !.reasoning.done = TRUE], Closing(c.reasoning, "reasoning"))

\* Pass 1: is the call a search, for good, and does the client see it?
EnsureToolItemAdded(c, call) ==
  LET i == c.next
      closed == IF c.tools = <<>> THEN CloseMessageItem(c) ELSE c
      slot == [at |-> i, name |-> call.name, args |-> 0,
               server |-> search /\ call.name = "search"]
      added == [closed EXCEPT !.next = @ + 1, !.tools = (call.index :> slot) @@ @]
  IN CASE call.index \in DOMAIN c.tools -> c
       [] call.index \notin DOMAIN c.tools /\ slot.server -> added
       [] OTHER -> Emit(Describe(added, i, "function_call"),
                        <<ItemAdded(i, "function_call", call.name # "")>>)

\* Pass 2: the name may be patched, the arguments grow.
FeedToolCallArguments(c, call) ==
  LET t == call.index
      slot == [c.tools[t] EXCEPT !.name = IF call.name = "" THEN @ ELSE call.name,
                                 !.args = IF call.args THEN @ + 1 ELSE @]
      fed_so == [c EXCEPT !.tools[t] = slot]
  IN IF call.args /\ ~slot.server THEN Emit(fed_so, <<Event("delta", slot.at)>>)
     ELSE fed_so

\* Mutant: the arguments of a call that was just added are dropped.
FeedToolCallsOnce(c, calls) ==
  FoldLeft(LAMBDA d, call : IF call.index \in DOMAIN d.tools
                              THEN FeedToolCallArguments(d, call)
                              ELSE EnsureToolItemAdded(d, call), c, calls)

FeedToolCalls(c, calls) ==
  FoldLeft(FeedToolCallArguments, FoldLeft(EnsureToolItemAdded, c, calls), calls)

\* One choice of a chunk.
FeedChunk(c, chunk) ==
  LET s == EnsureStarted(c) IN
  CASE chunk.part = "reasoning" -> FeedReasoning(s)
    [] chunk.part = "text" -> FeedText(s)
    [] chunk.part = "calls" -> FeedToolCalls(s, chunk.calls)
    [] chunk.part = "finish" -> [s EXCEPT !.finish = chunk.finish]

HasServerTools(c) == \E t \in DOMAIN c.tools : c.tools[t].server
HasClientTools(c) == \E t \in DOMAIN c.tools : ~c.tools[t].server

InOrder(c, server) == SetToSortSeq({t \in DOMAIN c.tools : c.tools[t].server = server}, <)
ServerToolCalls(c) == InOrder(c, TRUE)

\* terminal_response: an item of a call is looked up in the slots.
TextOf(c, item) ==
  CASE item.kind = "reasoning" -> c.reasoning.text
    [] item.kind = "message" -> c.message.text
    [] item.kind = "function_call" ->
         c.tools[CHOOSE t \in DOMAIN c.tools : c.tools[t].at = item.index].args
    [] item.kind = "web_search_call" -> 0

TerminalResponse(c) ==
  LET there == SelectSeq(c.items, LAMBDA item :
        item.kind = "function_call"
          => \E t \in DOMAIN c.tools : c.tools[t].at = item.index)
  IN [n \in DOMAIN there |-> [index |-> there[n].index, kind |-> there[n].kind,
                              text |-> TextOf(c, there[n])]]

TerminalEvent(c, how) ==
  [type |-> how, index |-> NoIndex, output |-> TerminalResponse(c)]

\* Open items stay open.
FinishError(c) == Emit(c, <<TerminalEvent(c, "failed")>>)

\* The calls, in order, and the terminal event.
FinishCalls(c) ==
  LET done == FoldLeft(LAMBDA d, t :
                Emit(d, <<PartDone(d.tools[t].at, d.tools[t].args),
                          ItemDone(d.tools[t].at, "function_call", d.tools[t].name # "")>>),
                c, InOrder(c, FALSE))
  IN Emit(done, <<TerminalEvent(done,
            IF c.finish = "length" THEN "incomplete" ELSE "completed")>>)

\* Mutant: the message is left open.
FinishOpenMessage(c) == FinishCalls(CloseReasoningItem(c))

Finish(c) == FinishCalls(CloseMessageItem(CloseReasoningItem(c)))

\* A search has an index of its own, beside that of its call.
EmitWebSearchRound(c) ==
  FoldLeft(LAMBDA d, t :
    Emit(Describe([d EXCEPT !.next = @ + 1], d.next, "web_search_call"),
         <<Event("searching", d.next), ItemDone(d.next, "web_search_call", TRUE)>>),
    c, ServerToolCalls(c))

BeginNewUpstreamRound(c) == [c EXCEPT !.tools = <<>>, !.finish = "none"]

-----------------------------------------------------------------------------
(* The pump                                                                *)

\* A chunk with several parts does what these do one after the other.  Every
\* finish reason but "length" is like "stop".
Part(part) == [part |-> part, calls |-> <<>>, finish |-> "none"]
Alone == {<<call>> : call \in {c \in Call : c.name # "" \/ c.args}}
Parallel ==
  {<<[index |-> i, name |-> "client", args |-> TRUE],
     [index |-> j, name |-> name, args |-> TRUE]>> :
       i \in ToolIndex, j \in ToolIndex, name \in {"client", "search"}}
Chunk ==
  {Part("reasoning"), Part("text")}
  \cup {[Part("calls") EXCEPT !.calls = calls] :
          calls \in Alone \cup {p \in Parallel : p[1].index # p[2].index}}
  \cup {[Part("finish") EXCEPT !.finish = f] : f \in {"stop", "length"}}

Silent == [text |-> 0, reasoning |-> 0, calls |-> <<>>]

Init ==
  /\ expose \in BOOLEAN /\ search \in BOOLEAN
  /\ pc = "polling"
  /\ conv = NewConverter
  /\ rounds_left = IF search THEN MaxUses ELSE 0
  /\ channel = <<>> /\ client = "there"
  /\ phase = "new" /\ items = <<>> /\ output = <<>>
  /\ said = Silent /\ fed = 0

\* What the upstream says, independently of the converter: the first name of
\* a call and how many pieces its arguments have.
Hear(calls, call) ==
  LET old == IF call.index \in DOMAIN calls THEN calls[call.index]
             ELSE [first |-> call.name, args |-> 0]
  IN (call.index :> [old EXCEPT !.args = IF call.args THEN @ + 1 ELSE @]) @@ calls
Heard(chunk) ==
  [text |-> said.text + (IF chunk.part = "text" THEN 1 ELSE 0),
   reasoning |-> said.reasoning + (IF chunk.part = "reasoning" THEN 1 ELSE 0),
   calls |-> FoldLeft(Hear, said.calls, chunk.calls)]

\* The biased select looks at the client first.
Polling == pc = "polling" /\ client = "there"

FeedUpstream(chunk) ==
  /\ Polling /\ fed < MaxChunks
  /\ fed' = fed + 1
  /\ said' = Heard(chunk)
  /\ conv' = FeedChunk(conv, chunk)
  /\ pc' = IF conv'.out = <<>> THEN "polling" ELSE "sending"
  /\ UNCHANGED <<request, rounds_left, channel, client, view>>

Close(c) ==
  /\ conv' = c
  /\ pc' = "closing"
  /\ UNCHANGED <<request, rounds_left, channel, client, view, said, fed>>

\* A stall or a transport error: the request is not replayed.
StreamBreaks == Polling /\ Close(FinishError(conv))

\* [DONE] of a round of searches only.
PureSearch == HasServerTools(conv) /\ ~HasClientTools(conv) /\ rounds_left > 0

\* [DONE] of any other round, or a body that ends before it.
StreamEnds ==
  /\ Polling
  /\ Close(IF conv.finish = "none" THEN FinishError(conv) ELSE Finish(conv))

SearchRound ==
  /\ Polling /\ PureSearch
  /\ rounds_left' = rounds_left - 1
  /\ pc' = "searching"
  /\ UNCHANGED <<request, conv, channel, client, view, said, fed>>

\* The searches have been executed.
ShowSearches ==
  /\ pc = "searching"
  /\ conv' = BeginNewUpstreamRound(EmitWebSearchRound(conv))
  /\ said' = [said EXCEPT !.calls = <<>>]
  /\ pc' = "showing"
  /\ UNCHANGED <<request, rounds_left, channel, client, view, fed>>

\* start_continuation
Continue ==
  /\ pc = "continuing"
  /\ pc' = "polling"
  /\ UNCHANGED <<request, conv, rounds_left, channel, client, view, said, fed>>

ContinueFails == pc = "continuing" /\ Close(FinishError(conv))

\* tx.send waits for room.
Send ==
  /\ pc \in {"sending", "showing", "closing"} /\ client = "there"
  /\ Len(channel) < Capacity
  /\ channel' = Append(channel, conv.out)
  /\ conv' = [conv EXCEPT !.out = <<>>]
  /\ pc' = CASE pc = "sending" -> "polling"
             [] pc = "showing" -> "continuing"
             [] pc = "closing" -> "done"
  /\ UNCHANGED <<request, rounds_left, client, view, said, fed>>

\* tx.closed, or a send that fails.
PumpNotices ==
  /\ client = "gone" /\ pc \in {"polling", "sending", "showing", "closing"}
  /\ pc' = "done"
  /\ UNCHANGED <<request, conv, rounds_left, channel, client, view, said, fed>>

-----------------------------------------------------------------------------
(* The client                                                              *)

On(i) == {n \in DOMAIN items : items[n].index = i}

\* What a client does with an item event: one for an unknown item is dropped.
Apply(event) ==
  LET Update(new(_)) ==
        items' = [n \in DOMAIN items |->
                    IF n \in On(event.index) THEN new(items[n]) ELSE items[n]]
      fresh == [index |-> event.index, kind |-> event.kind, stage |-> event.type,
                text |-> 0, final |-> 0, named |-> event.named]
  IN CASE event.type = "added" -> items' = Append(items, fresh)
       [] event.type = "part" -> Update(LAMBDA it : [it EXCEPT !.stage = "part"])
       [] event.type = "delta" -> Update(LAMBDA it : [it EXCEPT !.text = @ + 1])
       [] event.type = "partDone" ->
            Update(LAMBDA it : [it EXCEPT !.stage = "partDone", !.final = event.text])
       [] event.type = "done" /\ event.kind = "web_search_call" ->
            items' = Append(items, fresh)
       [] event.type = "done" /\ event.kind # "web_search_call" ->
            Update(LAMBDA it : [it EXCEPT !.stage = "done", !.named = @ \/ event.named])
       [] OTHER -> UNCHANGED items

Read(event) ==
  /\ phase' = CASE event.type = "created" -> "created"
                [] event.type = "in_progress" -> "open"
                [] event.type \in {"completed", "incomplete", "failed"} -> event.type
                [] OTHER -> phase
  /\ IF event.type \in {"completed", "incomplete", "failed"}
       THEN output' = event.output /\ UNCHANGED items
       ELSE Apply(event) /\ UNCHANGED output

ClientReads ==
  /\ client = "there" /\ channel # <<>>
  /\ Read(Head(Head(channel)))
  /\ channel' = IF Len(Head(channel)) = 1 THEN Tail(channel)
                ELSE <<Tail(Head(channel))>> \o Tail(channel)
  /\ UNCHANGED <<request, pc, conv, rounds_left, client, said, fed>>

ClientLeaves ==
  /\ client = "there"
  /\ client' = "gone"
  /\ channel' = <<>>
  /\ UNCHANGED <<request, pc, conv, rounds_left, view, said, fed>>

Pump ==
  \/ \E chunk \in Chunk : FeedUpstream(chunk)
  \/ StreamBreaks \/ StreamEnds
  \/ SearchRound \/ ShowSearches \/ Continue \/ ContinueFails
  \/ Send \/ PumpNotices

Next == Pump \/ ClientReads \/ ClientLeaves

Spec == Init /\ [][Next]_vars

-----------------------------------------------------------------------------
(* Properties                                                              *)

\* A chunk has at most two calls, each an index of its own and one of a search.
Events == INSTANCE ResponsesEvents WITH
  Index <- 0 .. 4 * MaxChunks,
  late <- Cardinality({t \in DOMAIN said.calls : said.calls[t].first = ""})

TypeOK ==
  /\ {expose, search} \subseteq BOOLEAN
  /\ pc \in {"polling", "sending", "searching", "showing", "continuing",
             "closing", "done"}
  /\ rounds_left \in 0 .. MaxUses /\ fed \in 0 .. MaxChunks
  /\ Len(channel) <= Capacity
  /\ client \in {"there", "gone"}
  /\ conv.next \in Nat
  /\ \A n \in DOMAIN conv.items : conv.items[n].index \in 0 .. conv.next - 1
  /\ \A n \in DOMAIN items : items[n] \in Events!Item

\* The events of a stream, read one by one, are those of the Responses
\* protocol, whatever the upstream sends, in whatever pieces, over any number
\* of searches, and wherever it breaks: items appear before what is said of
\* them, are closed once with all their text, and are all repeated at the end.
\* No call appears without a name but those the upstream began without one.
FollowsProtocol == Events!Spec

\* "This converter therefore [...] never emits an item-added without
\* call_id/name": no client ever knows a call that it could not name.  The code
\* emits the item at the first part of a call, whatever it holds.
NamesComeFirst ==
  \A n \in DOMAIN items : items[n].kind = "function_call" => items[n].named

\* The answer that the client has at the end is what the upstream said: all
\* text, all reasoning that was asked for, and every call of a client tool
\* with all its arguments, but no search.
ItemsOf(kind) == {n \in DOMAIN items : items[n].kind = kind}
TextIn(kind) == SumSet({items[n].text : n \in ItemsOf(kind)})
CallsOf(args) == {t \in DOMAIN said.calls :
  said.calls[t].args = args /\ ~(search /\ said.calls[t].first = "search")}
NothingLost ==
  phase \in {"completed", "incomplete"} =>
    /\ TextIn("message") = said.text
    /\ TextIn("reasoning") = IF expose THEN said.reasoning ELSE 0
    /\ \A args \in 0 .. fed :
         Cardinality({n \in ItemsOf("function_call") : items[n].text = args})
           = Cardinality(CallsOf(args))

\* Every state is well formed, and the last one complete.
ResponsesInv == TypeOK /\ NothingLost

\* Items are closed for good: no text for an item that is done.  The code
\* breaks this when text comes after a tool call, and above all when the
\* answer comes after a search.
NoLateText ==
  [][\A n \in DOMAIN items : items[n].stage = "done" => items'[n] = items[n]]_vars
===============================================================================
