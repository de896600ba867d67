----------------------------- MODULE RequestPath -----------------------------
(***************************************************************************)
(* The way of a request through the handlers of src/src/server.rs, from    *)
(* the client's history to the answer, for a client that sends its growing *)
(* history again and again: conversion, reasoning shadow, GLM policy,      *)
(* context guard, upstream, and what the answer leaves in the shadow.      *)
(*                                                                         *)
(* AnthropicRequest and ResponsesRequest convert the history, PromptPolicy *)
(* prepares it.  Requests of other clients in the same session, pressure   *)
(* and expiry take entries from the shadow at any moment (Forget).         *)
(***************************************************************************)
EXTENDS PromptPolicy, SequencesExt

CONSTANTS
  Client,         \* the clients: the frontend they use, the thinking they ask
                  \* for, the kinds of blocks they send besides text,
                  \* how many messages and blocks their history has, whether
                  \* their model is of the GLM family, and whether their
                  \* requests carry the identity of a session
  MaxBlocks,      \* bound of all histories
  Bound,          \* output bounds clients ask for, 0 for none
  Budget,         \* thinking budgets they ask for
  Tokens          \* lengths of a prompt in tokens, and in bytes

ASSUME InputsAssumption == Bound \subseteq Nat /\ Budget \subseteq Nat /\ Tokens \subseteq Nat

VARIABLES
  client,
  conv, phase,    \* as in AnthropicRequest and ResponsesRequest; past "reading",
                  \* phase is the point the handler has reached
  body,           \* the chat messages of the request in progress
  at,             \* the position restore_into has reached
  request,        \* what goes with them: effort, output bound, prompt length
  held,           \* call ids whose reasoning the shadow holds for the session
  sent,           \* the messages sent last
  intact          \* no entry has left the shadow since that request arrived

vars == <<client, conv, phase, body, at, request, held, sent, intact>>

M == INSTANCE AnthropicRequest
R == INSTANCE ResponsesRequest

NoRequest ==
  [effort |-> "absent", output |-> 0, input |-> 0, counted |-> FALSE, intact |-> TRUE]

frontend == client.frontend
thinking == client.thinking
Glm == client.glm

Efforts == {"low", "high", "max"}

TypeOK ==
  /\ client \in Client
  /\ phase \in {"reading", "refused", "shadow", "restoring", "preparing",
                "guarding", "sending", "answering"}
  /\ conv.out \in Seq(Message) /\ body \in Seq(Message) /\ sent \in Seq(Message)
  /\ at \in Nat
  /\ request \in [effort : Efforts \cup {"absent"}, output : Nat, input : Nat,
                  counted : BOOLEAN, intact : BOOLEAN]
  /\ held \subseteq Id
  /\ intact \in BOOLEAN
  /\ phase \in {"guarding", "sending"} /\ Glm =>
       request.effort \in Efforts /\ request.output \in 1 .. Cap

Init ==
  /\ client \in Client
  /\ conv = IF frontend = "messages" THEN M!FreshConv ELSE R!FreshConv
  /\ phase = "reading"
  /\ body = <<>> /\ at = 0 /\ request = NoRequest
  /\ held = {} /\ sent = <<>> /\ intact = TRUE

\* session_raw_id and responses_session_raw_id: without an identity in the body
\* there is no session, and none is invented.  openai_chat looks for none.
Identified == frontend # "chat" /\ client.identified

\* The Messages frontend leaves the shadow alone when the client asks for
\* thinking, which it then gets and sends back itself.
Eligible ==
  /\ Identified
  /\ frontend = "messages" => thinking \in {"absent", "disabled"}

-----------------------------------------------------------------------------
(* The client's history                                                    *)

\* openai_chat takes the messages as they are.
ChatMessage(m) ==
  /\ R!Reading
  /\ R!Read([conv EXCEPT !.out = Append(@, [m EXCEPT !.turns = R!Item])])

ReadHistory ==
  /\ conv.size < client.blocks
  /\ \/ /\ frontend = "messages"
        /\ \/ M!ReadText \/ M!Refuse
           \/ "tools" \in client.sends /\ M!ReadTools
           \/ "thinking" \in client.sends /\ M!Thinking
           \/ "search" \in client.sends /\ M!ReadSearch
           \/ "other" \in client.sends /\ M!ReadOther
     \/ frontend = "responses" /\ R!ReadItem
     \/ /\ frontend = "chat"
        /\ \/ \E role \in {"system", "user", "assistant"} :
                ChatMessage(Wire(role, {}, "string"))
           \/ \E ids \in SUBSET Id : ChatMessage([Wire("assistant", {}, "null") EXCEPT
                                                    !.calls = ids, !.reasoning = "client"])
           \/ \E id \in Id : ChatMessage([Wire("tool", {}, "one") EXCEPT !.answers = id])
  /\ UNCHANGED <<client, body, at, request, held, sent, intact>>

History == IF frontend = "responses" THEN R!Flushed(conv) ELSE conv.out

\* What stands before the history: a system prompt, whose first line some
\* clients change with every request.
SystemPrompt(stamp) ==
  IF "billing" \in client.sends
  THEN <<[Wire("system", {}, "string") EXCEPT !.header = stamp]>> ELSE <<>>

\* Mutant: the header is looked for in arrays of blocks only.
NormalizedArrays(messages) ==
  [i \in 1 .. Len(messages) |->
     IF messages[i].role = "system" /\ messages[i].content # "string"
     THEN [messages[i] EXCEPT !.header = 0] ELSE messages[i]]

\* normalize_system_messages: every system message loses its leading header.
Normalized(messages) ==
  [i \in 1 .. Len(messages) |->
     IF messages[i].role = "system"
     THEN [messages[i] EXCEPT !.header = 0] ELSE messages[i]]

\* The request arrives: the identity of its session is taken from the parsed
\* body, and all its messages are valid.
Submit ==
  /\ phase = "reading" /\ conv.open = "none"
  /\ frontend = "responses" => History # <<>>
  /\ \E stamp \in {1, 2} :
       body' = IF frontend = "messages"
               THEN Normalized(SystemPrompt(stamp) \o History) ELSE History
  /\ phase' = IF Eligible THEN "shadow" ELSE "preparing"
  /\ UNCHANGED <<client, conv, at, request, held, sent, intact>>

-----------------------------------------------------------------------------
(* The shadow                                                              *)

\* A new human turn drops what the session holds.
ClearEpoch ==
  /\ phase = "shadow" /\ StartsNewEpoch(body)
  /\ held' = {} /\ phase' = "preparing"
  /\ UNCHANGED <<client, conv, body, at, request, sent, intact>>

BeginRestore ==
  /\ phase = "shadow" /\ ~StartsNewEpoch(body)
  /\ phase' = "restoring" /\ at' = EpochBoundary(body)
  /\ UNCHANGED <<client, conv, body, request, held, sent, intact>>

\* restore_into takes the lock anew for every message.
RestoreMessage ==
  /\ phase = "restoring" /\ at <= Len(body)
  /\ body' = [body EXCEPT ![at] = Restored(@, held)]
  /\ at' = at + 1
  /\ UNCHANGED <<client, conv, phase, request, held, sent, intact>>

EndRestore ==
  /\ phase = "restoring" /\ at > Len(body)
  /\ phase' = "preparing" /\ at' = 0
  /\ UNCHANGED <<client, conv, body, request, held, sent, intact>>

\* Other requests of the session, eviction and age.
Forget ==
  \E left \in SUBSET held :
    /\ left # held
    /\ held' = left /\ intact' = FALSE /\ request' = [request EXCEPT !.intact = FALSE]
    /\ UNCHANGED <<client, conv, phase, body, at, sent>>

-----------------------------------------------------------------------------
(* The policy and the guard                                                *)

Done == phase' = "reading" /\ body' = <<>> /\ request' = NoRequest

\* The request is answered with an error, and nothing is sent.  The client
\* goes on from the history it has.
RefuseRequest ==
  /\ Done
  /\ UNCHANGED <<client, conv, at, held, sent, intact>>

\* Only the Messages frontend knows the whole vocabulary of efforts, and only
\* there a bound is required.
AskedEfforts ==
  IF frontend = "responses" THEN {"absent", "low"}
  ELSE {"absent", "minimal", "unknown"}

AskedBounds == IF frontend = "messages" THEN Bound \ {0} ELSE Bound

\* A thinking budget is compared with the bound of the client, or with none.
Unbounded == 1 + Max(Budget \cup Bound)

Resolves(effort, budget, bound) ==
  IF Glm THEN ResolvedEffort(IF frontend = "messages" THEN thinking ELSE "absent", budget,
                             effort, IF bound = 0 THEN Unbounded ELSE bound)
  ELSE "absent"

Prepare ==
  /\ phase = "preparing"
  /\ \E effort \in AskedEfforts, budget \in Budget, bound \in AskedBounds :
       LET resolved == Resolves(effort, budget, bound)
       IN  IF resolved = "invalid" THEN RefuseRequest
           ELSE /\ body' = Prepared(body, Glm)
                /\ request' = [request EXCEPT
                     !.effort = resolved,
                     !.output = IF Glm THEN EffectiveOutput(bound) ELSE bound]
                /\ phase' = IF frontend = "messages" /\ Window > 0
                            THEN "guarding" ELSE "sending"
                /\ UNCHANGED <<client, conv, at, held, sent, intact>>

\* The reserve the guard works with: none for a model whose output it does not
\* bound.
Reserve == IF Glm THEN request.output ELSE 0

\* count_optimized_tokens_blocking waits for a permit and counts what will be
\* sent, with glm53.telemetry.exact_input_tokens on, as it is by default.
CountKnown == Countable(body)

\* The estimate is far below the window, or there is no exact count: the request
\* goes as it is.
GuardPasses ==
  /\ phase = "guarding"
  /\ \E tokens, bytes \in Tokens :
       /\ tokens <= bytes
       /\ WellBelowWindow(bytes, Reserve) \/ ~CountKnown
       /\ request' = [request EXCEPT !.input = tokens]
  /\ phase' = "sending"
  /\ UNCHANGED <<client, conv, body, at, held, sent, intact>>

\* evaluate, over a count that has overlooked something or is exact.
GuardCounts ==
  /\ phase = "guarding" /\ CountKnown
  /\ \E tokens, bytes, counted \in Tokens :
       /\ tokens <= bytes /\ ~WellBelowWindow(bytes, Reserve)
       /\ IF Overlooked(body) THEN counted <= tokens ELSE counted = tokens
       /\ IF RejectsInput(counted) THEN RefuseRequest
          ELSE /\ request' = [request EXCEPT
                    !.input = tokens, !.counted = TRUE,
                    !.output = IF Glm THEN AllowedOutput(counted, @) ELSE @]
               /\ phase' = "sending"
               /\ UNCHANGED <<client, conv, body, at, held, sent, intact>>

-----------------------------------------------------------------------------
(* The upstream and the answer                                             *)

\* send_chat fails, or the upstream answers with an error that is passed on.
SendFails == phase = "sending" /\ RefuseRequest

SendChat ==
  /\ phase = "sending"
  /\ sent' = body /\ intact' = request.intact /\ phase' = "answering"
  /\ body' = <<>> /\ request' = NoRequest
  /\ UNCHANGED <<client, conv, at, held>>

\* The ids of a conversation are all different.
Used == (UNION {{conv.out[i].answers} \cup conv.out[i].calls : i \in 1 .. Len(conv.out)})
          \cup (IF frontend = "messages" THEN conv.segment.calls \cup conv.asked ELSE conv.calls)

Answers == SUBSET (Id \ Used)

\* What the shadow then holds; anything it lost counts for the requests to come.
Holds(ids) == held' = ids /\ intact' = (intact /\ held \subseteq ids)

\* An answer without calls is final and ends the epoch; one with calls is
\* remembered if it came with reasoning.
Remembering(calls, reasoned) ==
  IF calls = {} THEN {} ELSE IF reasoned THEN held \cup calls ELSE held

\* The stream of a Messages request, which commits at its end if the request is
\* eligible; a stream that breaks leaves the shadow alone.
StreamedAnswer ==
  /\ phase = "answering" /\ frontend = "messages"
  /\ \E calls \in Answers, reasoned, ends \in BOOLEAN :
       Holds(IF Eligible /\ ends THEN Remembering(calls, reasoned) ELSE held)
  /\ Done
  /\ UNCHANGED <<client, conv, at, sent>>

\* store_reasoning_shadow, for a Messages request that is answered as a whole:
\* whatever thinking it asked for.
WholeAnswer ==
  /\ phase = "answering" /\ frontend = "messages"
  /\ \E calls \in Answers, reasoned \in BOOLEAN :
       Holds(IF Identified THEN Remembering(calls, reasoned) ELSE held)
  /\ Done
  /\ UNCHANGED <<client, conv, at, sent>>

\* commit_shadow of the Responses frontend goes by the finish reason: calls that
\* come with another one than "tool_calls" are not remembered.
ResponsesAnswer ==
  /\ phase = "answering" /\ frontend = "responses"
  /\ \E calls \in Answers, finish \in {"tool_calls", "other", "none"} :
       Holds(IF ~Identified \/ finish = "none" THEN held
             ELSE IF finish = "tool_calls" THEN held \cup calls ELSE {})
  /\ Done
  /\ UNCHANGED <<client, conv, at, sent>>

\* openai_upstream_response passes on what comes.
RelayedAnswer ==
  /\ phase = "answering" /\ frontend = "chat"
  /\ Done
  /\ UNCHANGED <<client, conv, at, held, sent, intact>>

\* The client leaves while the handler waits.
Leave ==
  /\ phase \in {"guarding", "sending", "answering"}
  /\ Done
  /\ UNCHANGED <<client, conv, at, held, sent, intact>>

Next ==
  \/ ReadHistory \/ Submit
  \/ ClearEpoch \/ BeginRestore \/ RestoreMessage \/ EndRestore \/ Forget
  \/ Prepare \/ GuardPasses \/ GuardCounts
  \/ SendFails \/ SendChat
  \/ StreamedAnswer \/ WholeAnswer \/ ResponsesAnswer \/ RelayedAnswer \/ Leave

Spec == Init /\ [][Next]_vars

-----------------------------------------------------------------------------
(* anthropic_count_tokens                                                  *)

\* Only for the GLM family: nothing else can be counted exactly.
CountsTokens == frontend = "messages" /\ Glm

\* Mutant: any user message makes a turn of the count.
CountBoundaryOfResults ==
  LastOr({t \in 1 .. conv.turn : \E i \in 1 .. Len(conv.out) :
            t \in conv.out[i].turns /\ conv.out[i].role \in {"user", "tool"}}, conv.turn + 1)

\* The turn at which the count starts to keep thinking (reasoning_epoch_boundary
\* over the client's own messages): results alone and empty messages do not
\* make a human turn.
CountBoundary == LastOr(conv.humans, conv.turn + 1)

CountedThinking == {t \in conv.thinks : t >= CountBoundary}

-----------------------------------------------------------------------------
(* Properties                                                              *)

Ready == phase \in {"guarding", "sending"}

SentThinking ==
  UNION {body[i].turns : i \in {j \in 1 .. Len(body) : body[j].reasoning = "client"}}

\* The newest user message, if there is one, is a human turn for the count too.
HumanAtBoundary ==
  LET b == EpochBoundary(body)
  IN  b <= Len(body) => body[b].turns \subseteq conv.humans

\* What a handler sends is still a conversation: preparation moves no message,
\* and every result answers a call of the message before it.
AnswersFollowCalls ==
  /\ frontend = "messages" /\ phase # "reading" => AnswersTurn(body) /\ AnswersOnce(body)
  /\ frontend = "responses" => R!CallsPrecedeOutputs

\* Every state of a handler is well formed, with a conversation in its hands.
PathInv == TypeOK /\ AnswersFollowCalls

\* count_tokens counts the thinking that is really sent: the two boundaries,
\* one over the client's messages and one over the converted ones, agree
\* ("count what the gateway would actually send").
CountAgrees ==
  CountsTokens /\ Ready /\ HumanAtBoundary =>
    SentThinking = CountedThinking

\* The strip and the restore agree on the epoch: no reasoning of an older one
\* is sent, and all that the shadow holds for the current one is.
EpochReasoning ==
  Glm /\ Ready =>
    \A i \in 1 .. Len(body) :
      /\ i < EpochBoundary(body) => body[i].reasoning = "none"
      /\ Eligible /\ i >= EpochBoundary(body) /\ body[i].calls \cap held # {} =>
           body[i].reasoning # "none"

\* While an epoch lasts and the shadow keeps its entries, a prompt begins with
\* the prompt before it, so that the upstream's prefix cache serves it.
PrefixStable ==
  [][/\ SendChat
     /\ sent # <<>> /\ sent[Len(sent)].role \in {"user", "tool"}
     /\ EpochBoundary(sent) = EpochBoundary(body) /\ intact
     => IsPrefix(sent, body)]_vars

\* A request the guard could count exactly fits into the window with the margin
\* and with an output worth having, although the guard may have left out the
\* count and may have changed the bound.
WindowKept ==
  frontend = "messages" /\ Glm /\ Window > 0 /\ phase = "sending"
    /\ CountKnown /\ ~Overlooked(body) =>
    /\ request.input + request.output + Margin <= Window
    /\ request.counted /\ MinOutput <= Cap => request.output > 0

\* "When set, input+output+margin must fit", in the request of a tool loop too.
WindowKeptInToolLoops ==
  /\ frontend = "messages" /\ Glm /\ Window > 0 /\ phase = "sending"
  /\ body # <<>> /\ body[Len(body)].role = "tool"
  => request.input + request.output + Margin <= Window
=============================================================================
