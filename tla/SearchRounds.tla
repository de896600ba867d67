----------------------------- MODULE SearchRounds -----------------------------
(***************************************************************************)
(* One request that declares the web search tool.  The gateway runs the    *)
(* searches the model asks for and generates again, until the model asks   *)
(* for none, for a tool of the client, or a limit is reached.  The same    *)
(* idea is coded four times: for streams and for whole answers, of the     *)
(* Messages frontend (src/src/anthropic.rs, src/src/server.rs) and of the  *)
(* Responses frontend (src/src/responses_pump.rs).                         *)
(*                                                                         *)
(* A generation is what it ends with: its tool calls and finish reason.    *)
(* The client may leave at any time, also when the end of its answer waits *)
(* for it, in the channel of the pump or below the handler.                *)
(***************************************************************************)
EXTENDS Integers, Sequences, SequencesExt, FiniteSetsExt

CONSTANTS
  Frontend,                  \* the loops that are modelled
  Asked,                     \* values of max_uses in declarations
  MaxUsesPerRequest,         \* MAX_WEB_SEARCH_USES_PER_REQUEST
  MaxGenerations,            \* MAX_INTERNAL_GENERATION_ROUNDS
  MaxCalls                   \* server tool calls of one generation, at most

Messages == {"messages", "messagesWhole"}
Responses == {"responses", "responsesWhole"}
Whole == {"messagesWhole", "responsesWhole"}

ASSUME FrontendAssumption == Frontend \subseteq Messages \cup Responses
ASSUME LimitsAssumption ==
  /\ Asked \subseteq Nat \ {0}
  /\ MaxUsesPerRequest \in Nat \ {0} /\ MaxGenerations \in Nat \ {0}
  /\ MaxCalls \in Nat

\* Arguments of a search that query_from_arguments accepts, or refuses.
ServerCall == {"query", "malformed"}
Outcome == {"searched", "invalid", "refused"}

\* The calls of the search tool, is there a call of a client tool, and the
\* finish reason.
Round == [server : BoundedSeq(ServerCall, MaxCalls), client : BOOLEAN,
          finish : {"none", "stop", "tool_calls"}]
EmptyRound == [server |-> <<>>, client |-> FALSE, finish |-> "none"]

VARIABLES
  frontend, max_uses,   \* of this request
  pc,           \* "reading" a generation, "searching", "continuing" with
                \* send_chat, "closing" the answer, or "done"
  rounds,       \* generation_rounds
  uses_left, rounds_left,   \* the budgets; each frontend has its own idea
  round,        \* the generation that has ended
  outcomes,     \* of its searches so far
  client,       \* "there", "gone" before the end of its answer was handed
                \* over, "answered", or gone with that end unread: "missed"
  verdict,      \* how the request ends and what becomes of the session's
                \* shadow, once the end of the answer is handed over
  ending,       \* "none", "complete", "paused", "error" or "gone"
  shadow,       \* the session's reasoning shadow: "kept", "stored", "cleared"
  searches      \* history: searches sent to the provider

request == <<frontend, max_uses>>
budgets == <<rounds, uses_left, rounds_left>>
result == <<verdict, ending, shadow>>
vars == <<request, pc, budgets, round, outcomes, client, result, searches>>

Effect == {"kept", "stored", "cleared"}
NoVerdict == [ending |-> "none", shadow |-> "kept"]

TypeOK ==
  /\ frontend \in Frontend
  /\ max_uses \in 1 .. MaxUsesPerRequest
  /\ pc \in {"reading", "searching", "continuing", "closing", "done"}
  /\ rounds \in Nat /\ searches \in Nat
  /\ {uses_left, rounds_left} \subseteq 0 .. max_uses
  /\ round \in Round
  /\ outcomes \in Seq(Outcome)
  /\ client \in {"there", "gone", "answered", "missed"}
  /\ verdict \in [ending : {"none", "complete", "paused", "error"}, shadow : Effect]
  /\ ending \in {"none", "complete", "paused", "error", "gone"}
  /\ shadow \in Effect

\* parse_max_uses, and the clamp of the Responses frontend.
Clamped(asked) == Min({asked, MaxUsesPerRequest})

Init ==
  /\ frontend \in Frontend
  /\ max_uses \in {Clamped(asked) : asked \in Asked}
  /\ pc = "reading"
  /\ rounds = 1
  /\ uses_left = max_uses /\ rounds_left = max_uses
  /\ round = EmptyRound
  /\ outcomes = <<>>
  /\ client = "there"
  /\ verdict = NoVerdict /\ ending = "none" /\ shadow = "kept"
  /\ searches = 0

-----------------------------------------------------------------------------
(* The end of a generation                                                 *)

\* commit_shadow and store_reasoning_shadow.  The Messages frontend looks at
\* the tool calls, the Responses frontend at the finish reason.
ShadowAfter(rd) ==
  CASE frontend \in Messages /\ (rd.server # <<>> \/ rd.client) -> "stored"
    [] frontend \in Messages /\ rd.server = <<>> /\ ~rd.client -> "cleared"
    [] frontend \in Responses /\ rd.finish = "tool_calls" -> "stored"
    [] frontend \in Responses /\ rd.finish = "stop" -> "cleared"
    [] frontend \in Responses /\ rd.finish = "none" -> "kept"

\* The pump looks for a client that has gone before it polls the upstream.
Ends(rd) ==
  /\ pc = "reading"
  /\ frontend = "responses" => client = "there"
  /\ round' = rd
  /\ UNCHANGED <<request, client, rounds, ending, shadow, searches>>

Close(how, effect) ==
  /\ pc' = "closing"
  /\ verdict' = [ending |-> how, shadow |-> effect]

\* A transport error, a stall, or an event beyond the limits.  Only the
\* Responses stream goes on to commit_shadow.
StreamBreaks(rd) ==
  /\ Ends(rd)
  /\ Close("error", IF frontend = "responses" THEN ShadowAfter(rd) ELSE "kept")
  /\ UNCHANGED <<uses_left, rounds_left, outcomes>>

\* An error object or broken JSON, or [DONE] without a finish reason in a
\* stream: the Messages stream commits, as after an answer, unless the event is
\* the last of a body without an empty line at its end.
ErrorEvent(rd) ==
  /\ frontend \in Messages
  /\ Ends(rd)
  /\ \/ Close("error", "kept")
     \/ frontend = "messages" /\ Close("error", ShadowAfter(rd))
  /\ UNCHANGED <<uses_left, rounds_left, outcomes>>

\* The body ends before a finish reason.
StreamTruncated(rd) ==
  /\ frontend # "messagesWhole"
  /\ rd.finish = "none"
  /\ Ends(rd)
  /\ Close("error", "kept")
  /\ UNCHANGED <<uses_left, rounds_left, outcomes>>

-----------------------------------------------------------------------------
(* Messages: the rounds of stream_body and                                 *)
(* complete_nonstream_with_web_search                                      *)

\* Mutant: generations are not counted.
ExhaustedByUses == uses_left = 0

\* Mutant: one generation too few.
ExhaustedEarly == uses_left = 0 \/ rounds >= MaxGenerations - 1

Exhausted == uses_left = 0 \/ rounds >= MaxGenerations

\* The aggregation takes a body that ended without a finish reason for "stop".
Answered(rd) == rd.finish # "none" \/ frontend = "messagesWhole"

\* None, ClientOnly
MessagesAnswer(rd) ==
  /\ frontend \in Messages /\ Answered(rd)
  /\ rd.server = <<>>
  /\ Ends(rd)
  /\ Close("complete", ShadowAfter(rd))
  /\ UNCHANGED <<uses_left, rounds_left, outcomes>>

\* ServerOnly with nothing left: every call is refused and the turn paused.
MessagesPause(rd) ==
  /\ frontend \in Messages /\ Answered(rd)
  /\ rd.server # <<>> /\ ~rd.client /\ Exhausted
  /\ Ends(rd)
  /\ outcomes' = [i \in DOMAIN rd.server |-> "refused"]
  /\ Close("paused", ShadowAfter(rd))
  /\ UNCHANGED <<uses_left, rounds_left>>

\* Mixed, or ServerOnly within the limits
MessagesSearch(rd) ==
  /\ frontend \in Messages /\ Answered(rd)
  /\ rd.server # <<>> /\ (rd.client \/ ~Exhausted)
  /\ Ends(rd)
  /\ pc' = "searching"
  /\ UNCHANGED <<verdict, uses_left, rounds_left, outcomes>>

-----------------------------------------------------------------------------
(* Responses: responses_stream_response and aggregate_responses            *)

\* Mutant: client tools are not looked at.
CallsForSearch(rd) == rd.server # <<>> /\ rounds_left > 0

\* A round of searches only, and rounds left for another.
PureSearch(rd) == rd.server # <<>> /\ ~rd.client /\ rounds_left > 0

\* [DONE].  The stream searches even without a finish reason.  The budget of
\* execute_server_round is max_uses again in every round.
ResponsesSearch(rd) ==
  /\ frontend \in Responses
  /\ PureSearch(rd)
  /\ rd.finish # "none" \/ frontend = "responses"
  /\ Ends(rd)
  /\ rounds_left' = rounds_left - 1
  /\ uses_left' = max_uses
  /\ pc' = "searching"
  /\ UNCHANGED <<verdict, outcomes>>

\* [DONE] of any other round, or a body that ends before it.
ResponsesAnswer(rd) ==
  /\ frontend \in Responses
  /\ rd.finish # "none"
  /\ Ends(rd)
  /\ Close("complete", ShadowAfter(rd))
  /\ UNCHANGED <<uses_left, rounds_left, outcomes>>

-----------------------------------------------------------------------------
(* Searches and continuations, which await                                 *)

Unanswered == Len(outcomes) < Len(round.server)

\* Mutant: the budget is not looked at.
SearchUnchecked ==
  /\ pc = "searching" /\ Unanswered
  /\ IF round.server[Len(outcomes) + 1] = "malformed"
       THEN /\ outcomes' = Append(outcomes, "invalid")
            /\ UNCHANGED <<uses_left, searches>>
       ELSE /\ outcomes' = Append(outcomes, "searched")
            /\ uses_left' = uses_left - 1
            /\ searches' = searches + 1
  /\ UNCHANGED <<request, pc, rounds, rounds_left, round, client, result>>

\* Mutant: a malformed call is passed over.
SearchSkipping ==
  /\ pc = "searching" /\ Unanswered
  /\ \/ /\ uses_left = 0
        /\ outcomes' = Append(outcomes, "refused")
        /\ UNCHANGED <<uses_left, searches>>
     \/ /\ uses_left > 0 /\ round.server[Len(outcomes) + 1] = "query"
        /\ outcomes' = Append(outcomes, "searched")
        /\ uses_left' = uses_left - 1
        /\ searches' = searches + 1
  /\ UNCHANGED <<request, pc, rounds, rounds_left, round, client, result>>

\* The next call of the round: execute_web_search_round, execute_server_round.
Search ==
  /\ pc = "searching" /\ Unanswered
  /\ \/ /\ uses_left = 0
        /\ outcomes' = Append(outcomes, "refused")
        /\ UNCHANGED <<uses_left, searches>>
     \/ /\ uses_left > 0 /\ round.server[Len(outcomes) + 1] = "malformed"
        /\ outcomes' = Append(outcomes, "invalid")
        /\ UNCHANGED <<uses_left, searches>>
     \/ /\ uses_left > 0 /\ round.server[Len(outcomes) + 1] = "query"
        /\ outcomes' = Append(outcomes, "searched")
        /\ uses_left' = uses_left - 1
        /\ searches' = searches + 1
  /\ UNCHANGED <<request, pc, rounds, rounds_left, round, client, result>>

Searched == pc = "searching" /\ ~Unanswered

\* After a mixed round the client runs its own tools.
MixedRoundEnds ==
  /\ Searched /\ frontend \in Messages /\ round.client
  /\ Close("complete", ShadowAfter(round))
  /\ UNCHANGED <<request, budgets, round, outcomes, client, ending, shadow, searches>>

\* append_server_round.  The pump shows the searches to its client first.
Ground ==
  /\ Searched
  /\ frontend \in Messages => ~round.client
  /\ frontend = "responses" => client = "there"
  /\ pc' = "continuing"
  /\ UNCHANGED <<request, budgets, round, outcomes, client, result, searches>>

\* send_chat succeeds: begin_new_round, begin_new_upstream_round.
Continue ==
  /\ pc = "continuing"
  /\ pc' = "reading"
  /\ rounds' = rounds + 1
  /\ round' = EmptyRound
  /\ outcomes' = <<>>
  /\ UNCHANGED <<request, uses_left, rounds_left, client, result, searches>>

ContinueFails ==
  /\ pc = "continuing"
  /\ Close("error", "kept")
  /\ UNCHANGED <<request, budgets, round, outcomes, client, ending, shadow, searches>>

-----------------------------------------------------------------------------
(* The client                                                              *)

\* Mutant: the shadow is settled before the last frames are sent.
DeliverLate ==
  /\ pc = "closing"
  /\ pc' = "done"
  /\ ending' = IF client = "there" THEN verdict.ending ELSE "gone"
  /\ shadow' = verdict.shadow
  /\ UNCHANGED <<request, budgets, round, outcomes, client, verdict, searches>>

\* The last frames are handed over, the pump's to a channel that holds 64 of
\* its batches and all others to the server below the handler; then the shadow
\* is settled.  The client has read nothing of them yet.
Deliver ==
  /\ pc = "closing" /\ client = "there"
  /\ pc' = "done"
  /\ ending' = verdict.ending
  /\ shadow' = verdict.shadow
  /\ UNCHANGED <<request, budgets, round, outcomes, client, verdict, searches>>

\* What was handed over reaches the client, or is dropped with its connection.
AnswerRead ==
  /\ pc = "done" /\ client = "there"
  /\ client' \in {"answered", "missed"}
  /\ UNCHANGED <<request, pc, budgets, round, outcomes, result, searches>>

\* A client that leaves drops the Messages stream, or the handler that awaits
\* a whole answer, wherever it is.  The end of a handler does not await.
ClientLeaves ==
  /\ client = "there" /\ pc # "done"
  /\ ~(frontend \in Whole /\ pc = "closing")
  /\ client' = "gone"
  /\ IF frontend = "responses"
       THEN UNCHANGED <<pc, ending>>
       ELSE pc' = "done" /\ ending' = "gone"
  /\ UNCHANGED <<request, budgets, round, outcomes, verdict, shadow, searches>>

\* The pump is a task of its own: it notices when it waits for the upstream
\* (tx.closed) or sends (the send fails), and not while it searches.
PumpNotices ==
  /\ frontend = "responses" /\ client = "gone"
  /\ pc \in {"reading", "closing"} \/ Searched
  /\ pc' = "done"
  /\ ending' = "gone"
  /\ UNCHANGED <<request, budgets, round, outcomes, client, verdict, shadow, searches>>

GenerationEnds == \E rd \in Round :
  \/ StreamBreaks(rd) \/ ErrorEvent(rd) \/ StreamTruncated(rd)
  \/ MessagesAnswer(rd) \/ MessagesPause(rd) \/ MessagesSearch(rd)
  \/ ResponsesSearch(rd) \/ ResponsesAnswer(rd)

Gateway ==
  \/ GenerationEnds
  \/ Search \/ MixedRoundEnds \/ Ground \/ Continue \/ ContinueFails
  \/ Deliver \/ PumpNotices

Next == Gateway \/ AnswerRead \/ ClientLeaves

Spec == Init /\ [][Next]_vars

\* Generations end, if only by a stall (StreamWatch), searches and send_chat
\* return (both have timeouts; KeyPool), and the client reads or leaves.
FairSpec == Spec /\ WF_vars(Gateway)

-----------------------------------------------------------------------------
(* Properties                                                              *)

\* "max_uses is honored" over all the rounds of a Messages request, and no
\* loop generates more often than its limits allow, whatever the model asks:
\* malformed searches cost no budget.
WithinCaps ==
  /\ frontend \in Messages =>
       searches + uses_left = max_uses /\ rounds <= MaxGenerations
  /\ frontend \in Responses => rounds <= max_uses + 1

\* A conversation goes back to the model only when every call in it has a
\* result and none waits for the client; and a Messages answer shows a result
\* for every search it shows, or the client could not replay it.
CallsAnswered ==
  /\ pc = "continuing" =>
       ~round.client /\ Len(outcomes) = Len(round.server) /\ round.server # <<>>
  /\ frontend \in Messages /\ ending \in {"complete", "paused"} =>
       Len(outcomes) = Len(round.server)

\* A turn is paused only when its searches are used up or its generations are,
\* and then none of the searches it shows was made.
PausesOnlyAtALimit ==
  ending = "paused" =>
    /\ searches = max_uses \/ rounds = MaxGenerations
    /\ \A i \in DOMAIN outcomes : outcomes[i] = "refused"

\* A client that leaves before the end of its answer is handed over comes back
\* with the same conversation: the reasoning it needs must not have been
\* cleared, nor that of an answer it never got stored, however far the gateway
\* went without it.  Nothing is said of a client that leaves with that end in
\* the channel or in the server's buffers: see UnreadKeepsShadow.
DisconnectKeepsShadow == client = "gone" => shadow = "kept"

\* The same of every client that has not read its answer.  It does not hold:
\* commit_shadow follows the send into the channel, not the client's read.
UnreadKeepsShadow == client \in {"gone", "missed"} => shadow = "kept"

\* Every request comes to an end.
RequestEnds == <>(pc = "done")

\* MAX_WEB_SEARCH_USES_PER_REQUEST, "Implementation safety cap on searches per
\* logical request", said of both frontends.
SearchesCapped == searches <= MaxUsesPerRequest

\* README, "Malformed or truncated upstream streams produce one Anthropic error
\* event": an answer the upstream did not finish is never passed for complete.
TruncatedIsError == ending = "complete" => round.finish # "none"

-----------------------------------------------------------------------------
(* The inductive strengthening                                             *)

\* While a round of searches is under way, one more generation is paid for.
UnderWay == pc \in {"searching", "continuing"}

BudgetsAgree ==
  /\ frontend \in Messages =>
       /\ searches + uses_left = max_uses
       /\ rounds <= MaxGenerations
       /\ UnderWay /\ ~round.client => rounds < MaxGenerations
  /\ frontend \in Responses =>
       /\ rounds + rounds_left <= max_uses + 1
       /\ UnderWay => rounds + rounds_left <= max_uses

CallsMatch ==
  /\ pc = "reading" => outcomes = <<>>
  /\ UnderWay => round.server # <<>> /\ Len(outcomes) <= Len(round.server)
  /\ UnderWay /\ frontend \in Responses => ~round.client
  /\ pc = "continuing" => ~round.client /\ Len(outcomes) = Len(round.server)

\* Nothing is settled before the answer is handed over, and never for a client
\* that had gone; what the answer is closed with is justified.
VerdictLast ==
  /\ pc \notin {"closing", "done"} => verdict = NoVerdict
  /\ pc # "done" => ending = "none" /\ shadow = "kept"
  /\ ending \in {"none", "gone", verdict.ending}
  /\ client = "gone" => shadow = "kept"
  /\ frontend \in Messages /\ verdict.ending \in {"complete", "paused"} =>
       Len(outcomes) = Len(round.server)
  /\ verdict.ending = "paused" =>
       /\ frontend \in Messages /\ Exhausted
       /\ \A i \in DOMAIN outcomes : outcomes[i] = "refused"

IInv == TypeOK /\ BudgetsAgree /\ CallsMatch /\ VerdictLast
===============================================================================
