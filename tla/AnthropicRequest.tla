-------------------------- MODULE AnthropicRequest --------------------------
(***************************************************************************)
(* The conversion of a Messages request into chat messages, as             *)
(* convert_request_value in src/src/anthropic.rs does it: one pass over    *)
(* the messages and their blocks, with the tool calls that may still be    *)
(* answered.  One action is one message or block of the client's; the      *)
(* client goes on adding to its history, or rewrites what was refused, so  *)
(* that every list of messages is read and every prefix of it.             *)
(***************************************************************************)
EXTENDS ChatMessages

CONSTANT MaxBlocks      \* messages and blocks in the client's history

VARIABLES
  conv,     \* the conversion of the history so far
  phase     \* "reading", or "refused" when the last block was invalid

NoSegment == [content |-> "empty", calls |-> {}, reasoning |-> FALSE]

FreshConv ==
  [out |-> <<>>,           \* output
   turn |-> 0,             \* messages begun
   size |-> 0,             \* messages and blocks read
   open |-> "none",        \* the role of the message that is being read
   pending |-> {},         \* pending_tool_ids
   segment |-> NoSegment,
   servers |-> {},         \* server_calls
   asked |-> {},           \* pending_server_ids
   found |-> {},           \* seen_server_results
   start |-> 0,            \* start_len
   ordinary |-> "empty",
   seen |-> {},            \* seen_result_ids
   humans |-> {},          \* user messages with content of their own
   thinks |-> {}]          \* assistant messages with thinking

Reading == phase = "reading" /\ conv.size < MaxBlocks

Read(next) == phase' = "reading" /\ conv' = [next EXCEPT !.size = conv.size + 1]

Begins == Reading /\ conv.open = "none"

-----------------------------------------------------------------------------
(* convert_message                                                         *)

System ==
  /\ Begins
  /\ Read([conv EXCEPT !.turn = @ + 1, !.pending = {},
             !.out = Append(@, Wire("system", {conv.turn + 1}, "string"))])

\* A plain string closes the window for results whatever its role.  The count
\* of tokens takes an empty one for no human turn.
PlainString(role, blank) ==
  /\ Begins
  /\ Read([conv EXCEPT !.turn = @ + 1, !.pending = {},
             !.out = Append(@, Wire(role, {conv.turn + 1}, "string")),
             !.humans = IF role = "user" /\ ~blank THEN @ \cup {conv.turn + 1} ELSE @])

BeginAssistant ==
  /\ Begins
  /\ Read([conv EXCEPT !.turn = @ + 1, !.open = "assistant", !.pending = {},
             !.segment = NoSegment, !.servers = {}, !.asked = {}, !.found = {},
             !.start = Len(conv.out)])

BeginUser ==
  /\ Begins
  /\ Read([conv EXCEPT !.turn = @ + 1, !.open = "user", !.ordinary = "empty",
             !.seen = {}, !.start = Len(conv.out)])

-----------------------------------------------------------------------------
(* convert_assistant_blocks                                                *)

Turn(role, content) == Wire(role, {conv.turn}, content)

FlushSegment(out) ==
  IF conv.segment = NoSegment THEN out
  ELSE Append(out, [Turn("assistant", conv.segment.content) EXCEPT
                      !.calls = conv.segment.calls,
                      !.reasoning = IF conv.segment.reasoning THEN "client" ELSE "none"])

FlushServerCalls(out) ==
  IF conv.servers = {} THEN out
  ELSE Append(out, [Turn("assistant", "empty") EXCEPT !.calls = conv.servers])

InAssistant == Reading /\ conv.open = "assistant"
Settled == conv.asked = conv.found

AssistantText ==
  /\ InAssistant /\ Settled
  /\ Read([conv EXCEPT !.segment.content = More(@)])

\* Thinking is taken anywhere, between a search and its result too.
Thinking ==
  /\ InAssistant
  /\ Read([conv EXCEPT !.segment.reasoning = TRUE, !.thinks = @ \cup {conv.turn}])

\* Ids are not compared with those of other calls.
ToolUse(id) ==
  /\ InAssistant /\ Settled
  /\ Read([conv EXCEPT !.segment.calls = @ \cup {id}, !.pending = @ \cup {id}])

ServerToolUse(id) ==
  /\ InAssistant /\ id \notin conv.asked
  /\ Read([conv EXCEPT !.out = FlushSegment(@), !.segment = NoSegment,
             !.asked = @ \cup {id}, !.servers = @ \cup {id}])

Answer(id, content) == [Turn("tool", content) EXCEPT !.answers = id]

SearchResult(id) ==
  /\ InAssistant /\ id \in conv.asked \ conv.found
  /\ Read([conv EXCEPT !.out = Append(FlushServerCalls(@), Answer(id, "string")),
             !.servers = {}, !.found = @ \cup {id}])

\* A message without content becomes an empty one.
EndAssistant ==
  /\ InAssistant /\ Settled /\ conv.servers = {}
  /\ LET out == FlushSegment(conv.out)
     IN  Read([conv EXCEPT !.open = "none", !.segment = NoSegment,
                 !.out = IF Len(out) = conv.start
                         THEN Append(out, Turn("assistant", "empty")) ELSE out])

-----------------------------------------------------------------------------
(* convert_user_blocks                                                     *)

InUser == Reading /\ conv.open = "user"

Human == [conv EXCEPT !.humans = @ \cup {conv.turn}]

UserText  == InUser /\ Read([Human EXCEPT !.ordinary = More(@)])
UserMedia == InUser /\ Read([Human EXCEPT !.ordinary = "media"])

\* Mutant: results of any earlier call of the history are taken.
ToolResultOfAnyTurn(id) ==
  /\ InUser
  /\ conv.ordinary = "empty" /\ id \notin conv.seen
  /\ \E i \in 1 .. Len(conv.out) : id \in conv.out[i].calls
  /\ Read([conv EXCEPT !.out = Append(@, Answer(id, "string")), !.seen = @ \cup {id}])

\* Results come first, once each, for calls of the message just before.
ToolResult(id) ==
  /\ InUser
  /\ conv.ordinary = "empty" /\ id \notin conv.seen /\ id \in conv.pending
  /\ Read([conv EXCEPT !.out = Append(@, Answer(id, "string")), !.seen = @ \cup {id}])

EndUser ==
  /\ InUser
  /\ Read([conv EXCEPT !.open = "none", !.pending = {},
             !.out = IF conv.ordinary = "empty" /\ conv.seen # {} THEN @
                     ELSE Append(@, Turn("user", conv.ordinary))])

-----------------------------------------------------------------------------
(* The whole request                                                       *)

\* A message or block that no action above takes, or that is malformed, makes
\* the whole request invalid: the client may send one anywhere.
Refuse == phase = "reading" /\ phase' = "refused" /\ UNCHANGED conv

ReadText ==
  \/ \E role \in {"user", "assistant"} : PlainString(role, FALSE)
  \/ BeginAssistant \/ AssistantText \/ EndAssistant
  \/ BeginUser \/ UserText \/ EndUser

ReadTools == \E id \in Id : ToolUse(id) \/ ToolResult(id)

ReadSearch == \E id \in Id : ServerToolUse(id) \/ SearchResult(id)

ReadOther == System \/ PlainString("user", TRUE) \/ UserMedia

ReadBlock == ReadText \/ ReadTools \/ Thinking \/ ReadSearch \/ ReadOther \/ Refuse

Init == conv = FreshConv /\ phase = "reading"

Spec == Init /\ [][ReadBlock]_<<conv, phase>>

-----------------------------------------------------------------------------
(* Properties                                                              *)

\* What convert_request accepts is a conversation: a result never strays from
\* the calls of its turn, whatever the client puts between, before or after
\* it, and no call of a turn has two results ("a tool_result must live in the
\* message right after its tool_use - never later in the conversation").
ResultsKeepToTheirTurn == AnswersTurn(conv.out) /\ AnswersOnce(conv.out)
=============================================================================
