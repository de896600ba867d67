-------------------------- MODULE RequestPathProofs --------------------------
(***************************************************************************)
(* Proofs about RequestPath, for any clients, any length of a history, any *)
(* output bounds and budgets, any prompts and any configuration of the     *)
(* context guard.                                                          *)
(***************************************************************************)
EXTENDS RequestPath, CollectionLemmas

Requests ==
  [effort : Efforts \cup {"absent"}, output : Nat, input : Nat,
   counted : BOOLEAN, intact : BOOLEAN]

-----------------------------------------------------------------------------
(* The arithmetic of the guard                                             *)

LEMMA LimitsAreNumbers ==
  /\ Cap \in Nat /\ LowBudget \in Nat /\ Window \in Nat /\ Margin \in Nat
  /\ MinOutput \in Nat \ {0}
BY WindowAssumption

LEMMA MinOfTwo ==
  ASSUME NEW x \in Nat, NEW y \in Nat
  PROVE  Min({x, y}) = IF x <= y THEN x ELSE y
<1>1. \E m \in {x, y} : \A z \in {x, y} : m =< z
  <2>1. CASE x <= y
    BY <2>1
  <2>2. CASE y <= x
    BY <2>2
  <2> QED
    BY <2>1, <2>2
<1>2. Min({x, y}) \in {x, y} /\ \A z \in {x, y} : Min({x, y}) =< z
  BY <1>1 DEF Min
<1> QED
  BY <1>2

\* What evaluate does not reject fits, with the output it allows.
LEMMA AllowedFits ==
  ASSUME NEW tokens \in Nat, NEW output \in Nat, ~RejectsInput(tokens)
  PROVE  /\ AllowedOutput(tokens, output) \in Nat
         /\ tokens + AllowedOutput(tokens, output) + Margin <= Window
         /\ output > 0 => AllowedOutput(tokens, output) > 0
<1>1. /\ Remaining(tokens) \in Nat
      /\ Remaining(tokens) > 0 => tokens + Remaining(tokens) + Margin <= Window
  BY LimitsAreNumbers DEF Remaining, Minus
<1>2. Remaining(tokens) > 0
  BY <1>1, LimitsAreNumbers DEF RejectsInput
<1>3. AllowedOutput(tokens, output) =
        IF output <= Remaining(tokens) THEN output ELSE Remaining(tokens)
  BY <1>1, MinOfTwo DEF AllowedOutput
<1> QED
  BY <1>1, <1>2, <1>3, LimitsAreNumbers

\* What is well below the window fits with the whole reserve.
LEMMA WellBelowFits ==
  ASSUME NEW tokens \in Nat, NEW bytes \in Nat, NEW output \in Nat,
         tokens <= bytes, WellBelowWindow(bytes, output)
  PROVE  tokens + output + Margin <= Window
BY LimitsAreNumbers DEF WellBelowWindow

LEMMA BoundIsEffective ==
  ASSUME NEW asked \in Nat
  PROVE  /\ EffectiveOutput(asked) \in Nat
         /\ Cap > 0 => EffectiveOutput(asked) > 0
BY LimitsAreNumbers DEF EffectiveOutput

LEMMA EffortsAreKnown ==
  ASSUME NEW effort, NEW budget, NEW bound
  PROVE  Resolves(effort, budget, bound) \in Efforts \cup {"absent", "invalid"}
<1>1. \A e : OutputEffort(e) \in Efforts \cup {"invalid"}
  BY DEF OutputEffort, Efforts
<1>2. \A t, b, o : ThinkingEffort(t, b, o) \in Efforts \cup {"invalid"}
  BY DEF ThinkingEffort, Efforts
<1>3. \A t, b, e, o : ResolvedEffort(t, b, e, o) \in Efforts \cup {"invalid"}
  BY <1>1, <1>2 DEF ResolvedEffort, Efforts
<1> QED
  BY <1>3 DEF Resolves

-----------------------------------------------------------------------------
(* The conversions                                                         *)

\* Reading a message or a block of a Messages history, whatever it is, neither
\* sends nor guards anything.
LEMMA MessagesOnlyRead ==
  M!ReadText \/ M!ReadTools \/ M!Thinking \/ M!ReadSearch \/ M!ReadOther \/ M!Refuse
    => phase = "reading" /\ phase' \in {"reading", "refused"}
<1>2. M!ReadText => phase = "reading" /\ phase' = "reading"
  BY DEF M!ReadText, M!PlainString, M!BeginAssistant, M!AssistantText, M!EndAssistant,
         M!BeginUser, M!UserText, M!EndUser, M!Read, M!Reading, M!Begins, M!InAssistant, M!InUser
<1>3. M!ReadTools => phase = "reading" /\ phase' = "reading"
  BY DEF M!ReadTools, M!ToolUse, M!ToolResult, M!Read, M!Reading, M!InAssistant, M!InUser
<1>4. M!Thinking => phase = "reading" /\ phase' = "reading"
  BY DEF M!Thinking, M!Read, M!Reading, M!InAssistant, M!InUser
<1>5. M!ReadSearch => phase = "reading" /\ phase' = "reading"
  BY DEF M!ReadSearch, M!ServerToolUse, M!SearchResult, M!Read, M!Reading, M!InAssistant, M!InUser
<1>6. M!ReadOther => phase = "reading" /\ phase' = "reading"
  BY DEF M!ReadOther, M!System, M!PlainString, M!UserMedia, M!Read, M!Reading, M!Begins, M!InUser
<1>7. M!Refuse => phase = "reading" /\ phase' = "refused"
  BY DEF M!Refuse
<1> QED
  BY <1>2, <1>3, <1>4, <1>5, <1>6, <1>7

LEMMA ResponsesOnlyRead == R!ReadItem => phase = "reading" /\ phase' \in {"reading", "refused"}
<1>1. \A role : R!MessageItem(role) => phase = "reading" /\ phase' = "reading"
  BY DEF R!MessageItem, R!Read, R!Reading
<1>2. \A id : R!FunctionCall(id) => phase = "reading" /\ phase' = "reading"
  BY DEF R!FunctionCall, R!Read, R!Reading
<1>3. \A id : R!FunctionCallOutput(id) => phase = "reading" /\ phase' = "reading"
  BY DEF R!FunctionCallOutput, R!Read, R!Reading
<1>4. \A id : R!WebSearchCall(id) => phase = "reading" /\ phase' = "reading"
  BY DEF R!WebSearchCall, R!Read, R!Reading
<1>5. R!ReasoningItem => phase = "reading" /\ phase' = "reading"
  BY DEF R!ReasoningItem, R!Read, R!Reading
<1>6. R!Refuse => phase = "reading" /\ phase' = "refused"
  BY DEF R!Refuse
<1> QED
  BY <1>1, <1>2, <1>3, <1>4, <1>5, <1>6 DEF R!ReadItem

LEMMA HistoryOnlyRead == ReadHistory => phase = "reading" /\ phase' \in {"reading", "refused"}
<1>1. \A m : ChatMessage(m) => phase = "reading" /\ phase' = "reading"
  BY DEF ChatMessage, R!Read, R!Reading
<1> QED
  BY <1>1, MessagesOnlyRead, ResponsesOnlyRead DEF ReadHistory

-----------------------------------------------------------------------------
(* The guard                                                               *)

\* What the guard starts from: a request that nothing has counted yet, and a
\* bound that is positive if the configuration allows any output.
Uncounted ==
  /\ phase # "sending" => ~request.counted
  /\ phase = "guarding" /\ Glm /\ MinOutput <= Cap => request.output > 0

GuardInv == request \in Requests /\ Uncounted /\ WindowKept

\* A state in which nothing is guarded or sent.
Idle == phase \notin {"guarding", "sending"}

LEMMA IdleIsKept ==
  ASSUME request' \in Requests, Idle', ~request'.counted
  PROVE  GuardInv'
BY DEF GuardInv, Uncounted, WindowKept, Idle

LEMMA DoneIsKept ==
  ASSUME Done
  PROVE  GuardInv'
<1>1. NoRequest \in Requests
  BY DEF NoRequest, Requests
<1> QED
  BY <1>1, IdleIsKept DEF Done, Idle, NoRequest

LEMMA GuardInvInit == Init => GuardInv
BY DEF Init, GuardInv, Uncounted, WindowKept, NoRequest, Requests

\* The bound of the client, or the default, is where the guard begins.
LEMMA PrepareKeeps ==
  ASSUME GuardInv, Prepare
  PROVE  GuardInv'
<1>1. PICK effort \in AskedEfforts, budget \in Budget, bound \in AskedBounds :
        LET resolved == Resolves(effort, budget, bound)
        IN  IF resolved = "invalid" THEN RefuseRequest
            ELSE /\ body' = Prepared(body, Glm)
                 /\ request' = [request EXCEPT
                      !.effort = resolved,
                      !.output = IF Glm THEN EffectiveOutput(bound) ELSE bound]
                 /\ phase' = IF frontend = "messages" /\ Window > 0
                             THEN "guarding" ELSE "sending"
                 /\ UNCHANGED <<client, conv, at, held, sent, intact>>
  BY DEF Prepare
<1> DEFINE resolved == Resolves(effort, budget, bound)
<1>2. CASE resolved = "invalid"
  BY <1>1, <1>2, DoneIsKept DEF RefuseRequest
<1>3. CASE resolved # "invalid"
  <2>1. /\ request' = [request EXCEPT
             !.effort = resolved,
             !.output = IF Glm THEN EffectiveOutput(bound) ELSE bound]
        /\ phase' = IF frontend = "messages" /\ Window > 0
                    THEN "guarding" ELSE "sending"
        /\ client' = client
    BY <1>1, <1>3
  <2>2. resolved \in Efforts \cup {"absent"}
    BY <1>3, EffortsAreKnown
  <2>3. bound \in Nat
    BY InputsAssumption DEF AskedBounds
  <2>4. /\ request' \in Requests
        /\ request'.output = IF Glm THEN EffectiveOutput(bound) ELSE bound
    BY <2>1, <2>2, <2>3, BoundIsEffective DEF GuardInv, Requests
  <2>5. Uncounted'
    <3>1. Glm /\ MinOutput <= Cap => request'.output > 0
      BY <2>3, <2>4, BoundIsEffective, LimitsAreNumbers
    <3>2. ~request'.counted
      BY <2>1 DEF GuardInv, Uncounted, Requests, Prepare
    <3> QED
      BY <2>1, <3>1, <3>2 DEF Uncounted, Glm
  <2>6. WindowKept'
    BY <2>1 DEF WindowKept, frontend
  <2> QED
    BY <2>4, <2>5, <2>6 DEF GuardInv
<1> QED
  BY <1>2, <1>3

LEMMA GuardPassesKeeps ==
  ASSUME GuardInv, GuardPasses
  PROVE  GuardInv'
<1>1. PICK tokens \in Tokens, bytes \in Tokens :
        /\ tokens <= bytes
        /\ WellBelowWindow(bytes, Reserve) \/ ~CountKnown
        /\ request' = [request EXCEPT !.input = tokens]
  BY DEF GuardPasses
<1>2. tokens \in Nat /\ bytes \in Nat
  BY InputsAssumption
<1>3. /\ request' \in Requests
      /\ request'.input = tokens /\ request'.output = request.output
      /\ request'.counted = request.counted
      /\ request.output \in Nat
  BY <1>1, <1>2 DEF GuardInv, Requests
<1>4. phase = "guarding" /\ phase' = "sending" /\ client' = client /\ body' = body
  BY DEF GuardPasses
<1>5. Uncounted'
  BY <1>4 DEF Uncounted
<1>6. WindowKept'
  <2>1. ~request'.counted
    BY <1>3, <1>4 DEF GuardInv, Uncounted
  <2>2. ASSUME Glm, CountKnown
        PROVE  tokens + request.output + Margin <= Window
    BY <1>1, <1>2, <1>3, <2>2, WellBelowFits DEF Reserve
  <2> QED
    BY <1>3, <1>4, <2>1, <2>2 DEF WindowKept, Glm, CountKnown
<1> QED
  BY <1>3, <1>5, <1>6 DEF GuardInv

LEMMA GuardCountsKeeps ==
  ASSUME GuardInv, GuardCounts
  PROVE  GuardInv'
<1>1. PICK tokens \in Tokens, bytes \in Tokens, counted \in Tokens :
        /\ IF Overlooked(body) THEN counted <= tokens ELSE counted = tokens
        /\ IF RejectsInput(counted) THEN RefuseRequest
           ELSE /\ request' = [request EXCEPT
                     !.input = tokens, !.counted = TRUE,
                     !.output = IF Glm THEN AllowedOutput(counted, @) ELSE @]
                /\ phase' = "sending"
                /\ UNCHANGED <<client, conv, body, at, held, sent, intact>>
  BY DEF GuardCounts
<1>2. CASE RejectsInput(counted)
  BY <1>1, <1>2, DoneIsKept DEF RefuseRequest
<1>3. CASE ~RejectsInput(counted)
  <2>1. /\ request' = [request EXCEPT
             !.input = tokens, !.counted = TRUE,
             !.output = IF Glm THEN AllowedOutput(counted, @) ELSE @]
        /\ phase' = "sending" /\ client' = client /\ body' = body
    BY <1>1, <1>3
  <2>2. tokens \in Nat /\ counted \in Nat /\ request.output \in Nat
    BY InputsAssumption DEF GuardInv, Requests
  <2>3. /\ AllowedOutput(counted, request.output) \in Nat
        /\ counted + AllowedOutput(counted, request.output) + Margin <= Window
        /\ request.output > 0 => AllowedOutput(counted, request.output) > 0
    BY <1>3, <2>2, AllowedFits
  <2>4. /\ request' \in Requests
        /\ request'.input = tokens
        /\ Glm => request'.output = AllowedOutput(counted, request.output)
    BY <2>1, <2>2, <2>3 DEF GuardInv, Requests
  <2>5. Uncounted'
    BY <2>1 DEF Uncounted
  <2>6. WindowKept'
    <3>1. ASSUME Glm, ~Overlooked(body)
          PROVE  request'.input + request'.output + Margin <= Window
      BY <1>1, <2>3, <2>4, <3>1
    <3>2. ASSUME Glm, MinOutput <= Cap
          PROVE  request'.output > 0
      BY <2>3, <2>4, <3>2 DEF GuardInv, Uncounted, GuardCounts
    <3> QED
      BY <2>1, <3>1, <3>2 DEF WindowKept, Glm
  <2> QED
    BY <2>4, <2>5, <2>6 DEF GuardInv
<1> QED
  BY <1>2, <1>3

LEMMA ForgetKeeps ==
  ASSUME GuardInv, Forget
  PROVE  GuardInv'
<1>1. /\ request' = [request EXCEPT !.intact = FALSE]
      /\ UNCHANGED <<client, phase, body>>
  BY DEF Forget
<1>2. /\ request' \in Requests
      /\ request'.input = request.input /\ request'.output = request.output
      /\ request'.counted = request.counted
  BY <1>1 DEF GuardInv, Requests
<1> QED
  BY <1>1, <1>2 DEF GuardInv, Uncounted, WindowKept, Glm, frontend, CountKnown

LEMMA GuardInvNext ==
  ASSUME GuardInv, [Next]_vars
  PROVE  GuardInv'
<1>1. CASE ReadHistory
  BY <1>1, HistoryOnlyRead, IdleIsKept DEF ReadHistory, GuardInv, Uncounted, Idle
<1>2. CASE Submit
  BY <1>2, IdleIsKept DEF Submit, GuardInv, Uncounted, Idle
<1>3. CASE ClearEpoch \/ BeginRestore \/ RestoreMessage \/ EndRestore
  BY <1>3, IdleIsKept
     DEF ClearEpoch, BeginRestore, RestoreMessage, EndRestore,
         GuardInv, Uncounted, Idle
<1>4. CASE Forget
  BY <1>4, ForgetKeeps
<1>5. CASE Prepare
  BY <1>5, PrepareKeeps
<1>6. CASE GuardPasses
  BY <1>6, GuardPassesKeeps
<1>7. CASE GuardCounts
  BY <1>7, GuardCountsKeeps
<1>8. CASE SendFails
  BY <1>8, DoneIsKept DEF SendFails, RefuseRequest
<1>9. CASE SendChat
  <2>1. NoRequest \in Requests
    BY DEF NoRequest, Requests
  <2> QED
    BY <1>9, <2>1, IdleIsKept DEF SendChat, Idle, NoRequest
<1>10. CASE StreamedAnswer \/ WholeAnswer \/ ResponsesAnswer \/ RelayedAnswer \/ Leave
  BY <1>10, DoneIsKept DEF StreamedAnswer, WholeAnswer, ResponsesAnswer, RelayedAnswer, Leave
<1>11. CASE UNCHANGED vars
  BY <1>11 DEF vars, GuardInv, Uncounted, WindowKept, Glm, frontend, CountKnown
<1> QED
  BY <1>1, <1>2, <1>3, <1>4, <1>5, <1>6, <1>7, <1>8, <1>9, <1>10, <1>11 DEF Next

\* What the guard of src/src/server.rs lets through fits into the window with
\* the margin and, after a count, with an output worth having: whether the
\* estimate spared the count or the count lowered the bound, and whatever the
\* shadow lost meanwhile.
THEOREM GuardKeepsWindow == Spec => []WindowKept
<1>1. Init => GuardInv
  BY GuardInvInit
<1>2. GuardInv /\ [Next]_vars => GuardInv'
  BY GuardInvNext
<1>3. GuardInv => WindowKept
  BY DEF GuardInv
<1> QED
  BY <1>1, <1>2, <1>3, PTL DEF Spec

-----------------------------------------------------------------------------
(* Types                                                                   *)

Contents == {"empty", "one", "several", "media", "string", "null"}

\* The conversion of a Messages history, and that of items or chat messages.
MessagesConv ==
  [out : Seq(Message), turn : Nat, size : Nat, open : {"none", "assistant", "user"},
   pending : SUBSET Id,
   segment : [content : Contents, calls : SUBSET Id, reasoning : BOOLEAN],
   servers : SUBSET Id, asked : SUBSET Id, found : SUBSET Id, start : Nat,
   ordinary : Contents, seen : SUBSET Id, humans : SUBSET Nat, thinks : SUBSET Nat]

ItemsConv ==
  [out : Seq(Message), turn : Nat, size : Nat, open : {"none"},
   calls : SUBSET Id, items : SUBSET Nat]

ConvTyped == IF frontend = "messages" THEN conv \in MessagesConv ELSE conv \in ItemsConv

LEMMA WireIsMessage ==
  ASSUME NEW role \in {"system", "user", "assistant", "tool"}, NEW turns \in SUBSET Nat,
         NEW content \in Contents
  PROVE  /\ Wire(role, turns, content) \in Message
         /\ M!Wire(role, turns, content) = Wire(role, turns, content)
         /\ R!Wire(role, turns, content) = Wire(role, turns, content)
BY DEF Wire, M!Wire, R!Wire, Message, Contents

\* A conversion with another field, of its type.
Segments == [content : Contents, calls : SUBSET Id, reasoning : BOOLEAN]

LEMMA ConvWith ==
  ASSUME NEW c \in MessagesConv
  PROVE  /\ \A x \in Seq(Message) : [c EXCEPT !.out = x] \in MessagesConv
         /\ \A x \in Nat : /\ [c EXCEPT !.turn = x] \in MessagesConv
                           /\ [c EXCEPT !.size = x] \in MessagesConv
                           /\ [c EXCEPT !.start = x] \in MessagesConv
         /\ \A x \in {"none", "assistant", "user"} : [c EXCEPT !.open = x] \in MessagesConv
         /\ \A x \in SUBSET Id : /\ [c EXCEPT !.pending = x] \in MessagesConv
                                 /\ [c EXCEPT !.servers = x] \in MessagesConv
                                 /\ [c EXCEPT !.asked = x] \in MessagesConv
                                 /\ [c EXCEPT !.found = x] \in MessagesConv
                                 /\ [c EXCEPT !.seen = x] \in MessagesConv
         /\ \A x \in Segments : [c EXCEPT !.segment = x] \in MessagesConv
         /\ \A x \in Contents : [c EXCEPT !.ordinary = x] \in MessagesConv
         /\ \A x \in SUBSET Nat : /\ [c EXCEPT !.humans = x] \in MessagesConv
                                  /\ [c EXCEPT !.thinks = x] \in MessagesConv
BY DEF MessagesConv, Segments

LEMMA ItemsWith ==
  ASSUME NEW c \in ItemsConv
  PROVE  /\ \A x \in Seq(Message) : [c EXCEPT !.out = x] \in ItemsConv
         /\ \A x \in Nat : /\ [c EXCEPT !.turn = x] \in ItemsConv
                           /\ [c EXCEPT !.size = x] \in ItemsConv
         /\ \A x \in SUBSET Id : [c EXCEPT !.calls = x] \in ItemsConv
         /\ \A x \in SUBSET Nat : [c EXCEPT !.items = x] \in ItemsConv
BY DEF ItemsConv

LEMMA MessageWith ==
  ASSUME NEW m \in Message
  PROVE  /\ \A x \in SUBSET Id : [m EXCEPT !.calls = x] \in Message
         /\ \A x \in Id : [m EXCEPT !.answers = x] \in Message
         /\ \A x \in SUBSET Nat : [m EXCEPT !.turns = x] \in Message
         /\ [m EXCEPT !.reasoning = "client"] \in Message
         /\ [m EXCEPT !.reasoning = "none"] \in Message
BY DEF Message

\* What is taken from a segment, or from the searches that were asked for.
LEMMA FlushesAreTyped ==
  ASSUME conv \in MessagesConv, NEW out \in Seq(Message)
  PROVE  M!FlushSegment(out) \in Seq(Message) /\ M!FlushServerCalls(out) \in Seq(Message)
<1> DEFINE w == M!Turn("assistant", conv.segment.content)
           v == M!Turn("assistant", "empty")
           a == [w EXCEPT !.calls = conv.segment.calls,
                          !.reasoning = IF conv.segment.reasoning THEN "client" ELSE "none"]
           b == [v EXCEPT !.calls = conv.servers]
<1>1. /\ w \in Message /\ v \in Message
      /\ conv.segment.calls \in SUBSET Id /\ conv.servers \in SUBSET Id
  BY DEF M!Turn, M!Wire, Message, Contents, MessagesConv
<1>2. /\ M!FlushSegment(out) = IF conv.segment = M!NoSegment THEN out ELSE Append(out, a)
      /\ M!FlushServerCalls(out) = IF conv.servers = {} THEN out ELSE Append(out, b)
  BY Zenon DEF M!FlushSegment, M!FlushServerCalls
<1> HIDE DEF w, v
<1>3. a \in Message
  BY <1>1, MessageWith, Zenon
<1>4. b \in Message
  BY <1>1, MessageWith, Zenon
<1> HIDE DEF a, b
<1>5. Append(out, a) \in Seq(Message) /\ Append(out, b) \in Seq(Message)
  BY <1>3, <1>4
<1> QED
  BY <1>2, <1>5

LEMMA MessagesTyped ==
  ASSUME conv \in MessagesConv,
         M!ReadText \/ M!ReadTools \/ M!Thinking \/ M!ReadSearch \/ M!ReadOther \/ M!Refuse
  PROVE  conv' \in MessagesConv
<1>1. \A content \in Contents : M!More(content) \in Contents
  BY DEF M!More, Contents
\* values that the actions assign
<1>2. /\ conv.out \in Seq(Message) /\ conv.turn \in Nat /\ Len(conv.out) \in Nat
      /\ conv.turn + 1 \in Nat /\ conv.size + 1 \in Nat
      /\ {} \in SUBSET Id
      /\ \A id \in Id : /\ conv.pending \cup {id} \in SUBSET Id
                        /\ conv.servers \cup {id} \in SUBSET Id
                        /\ conv.asked \cup {id} \in SUBSET Id
                        /\ conv.found \cup {id} \in SUBSET Id
                        /\ conv.seen \cup {id} \in SUBSET Id
      /\ conv.humans \in SUBSET Nat /\ conv.humans \cup {conv.turn} \in SUBSET Nat
      /\ conv.humans \cup {conv.turn + 1} \in SUBSET Nat
      /\ conv.thinks \cup {conv.turn} \in SUBSET Nat
      /\ conv.ordinary \in Contents
  BY DEF MessagesConv
<1>3. /\ M!NoSegment \in Segments
      /\ [conv.segment EXCEPT !.content = M!More(conv.segment.content)] \in Segments
      /\ \A id \in Id :
           [conv.segment EXCEPT !.calls = conv.segment.calls \cup {id}] \in Segments
      /\ [conv.segment EXCEPT !.reasoning = TRUE] \in Segments
  <2>1. conv.segment \in Segments
    BY DEF MessagesConv, Segments
  <2>2. M!NoSegment \in Segments
    BY DEF M!NoSegment, Segments, Contents
  <2> QED
    BY <1>1, <2>1, <2>2 DEF Segments
<1>4. /\ "empty" \in Contents /\ "string" \in Contents /\ "media" \in Contents
      /\ "none" \in {"none", "assistant", "user"} /\ "user" \in {"none", "assistant", "user"}
      /\ "assistant" \in {"none", "assistant", "user"}
  BY DEF Contents
<1>5. ASSUME NEW m \in Message, NEW out \in Seq(Message)
      PROVE  Append(out, m) \in Seq(Message)
  OBVIOUS
<1>6. ASSUME NEW role \in {"user", "assistant"}, NEW blank, M!PlainString(role, blank)
      PROVE  conv' \in MessagesConv
  <2> DEFINE m == M!Wire(role, {conv.turn + 1}, "string")
             humans == IF role = "user" /\ ~blank
                       THEN conv.humans \cup {conv.turn + 1} ELSE conv.humans
  <2>1. m \in Message
    BY <1>2 DEF M!Wire, Message
  <2>2. humans \in SUBSET Nat
    BY <1>2, Zenon
  <2>3. conv' = [conv EXCEPT !.turn = conv.turn + 1, !.pending = {},
                   !.out = Append(conv.out, m), !.humans = humans, !.size = conv.size + 1]
    BY <1>6, Zenon DEF M!PlainString, M!Read
  <2> HIDE DEF m, humans
  <2> QED
    BY <1>2, <1>5, <2>1, <2>2, <2>3, ConvWith, Zenon
<1>7. CASE M!BeginAssistant
  BY <1>2, <1>3, <1>4, <1>7, ConvWith, Zenon DEF M!BeginAssistant, M!Read
<1>8. CASE M!AssistantText
  BY <1>2, <1>3, <1>8, ConvWith, Zenon DEF M!AssistantText, M!Read
<1>9. CASE M!EndAssistant
  <2> DEFINE out == M!FlushSegment(conv.out)
             m == M!Turn("assistant", "empty")
             new == IF Len(out) = conv.start THEN Append(out, m) ELSE out
  <2>1. m \in Message
    BY <1>2 DEF M!Turn, M!Wire, Message
  <2>2. new \in Seq(Message)
    BY <1>2, <1>5, <2>1, FlushesAreTyped, Zenon
  <2>3. conv' = [conv EXCEPT !.open = "none", !.segment = M!NoSegment, !.out = new,
                   !.size = conv.size + 1]
    BY <1>9, Zenon DEF M!EndAssistant, M!Read
  <2> HIDE DEF new
  <2> QED
    BY <1>2, <1>3, <1>4, <2>2, <2>3, ConvWith, Zenon
<1>10. CASE M!BeginUser
  BY <1>2, <1>4, <1>10, ConvWith, Zenon DEF M!BeginUser, M!Read
<1>11. CASE M!UserText
  <2> DEFINE human == [conv EXCEPT !.humans = conv.humans \cup {conv.turn}]
  <2>1. human \in MessagesConv
    BY <1>2, ConvWith, Zenon
  <2>2. conv' = [human EXCEPT !.ordinary = M!More(human.ordinary), !.size = conv.size + 1]
    BY <1>11, Zenon DEF M!UserText, M!Read, M!Human
  <2> HIDE DEF human
  <2>3. M!More(human.ordinary) \in Contents
    BY <1>1, <2>1 DEF MessagesConv
  <2> QED
    BY <1>2, <2>1, <2>2, <2>3, ConvWith, Zenon
<1>12. CASE M!EndUser
  <2> DEFINE m == M!Turn("user", conv.ordinary)
             new == IF conv.ordinary = "empty" /\ conv.seen # {} THEN conv.out
                    ELSE Append(conv.out, m)
  <2>1. m \in Message
    BY <1>2 DEF M!Turn, M!Wire, Message, Contents
  <2>2. new \in Seq(Message)
    BY <1>2, <1>5, <2>1, Zenon
  <2>3. conv' = [conv EXCEPT !.open = "none", !.pending = {}, !.out = new,
                   !.size = conv.size + 1]
    BY <1>12, Zenon DEF M!EndUser, M!Read
  <2> HIDE DEF new
  <2> QED
    BY <1>2, <1>4, <2>2, <2>3, ConvWith, Zenon
<1>13. \A id \in Id : M!Answer(id, "string") \in Message
  <2> DEFINE m == M!Turn("tool", "string")
  <2>1. m \in Message
    BY <1>2 DEF M!Turn, M!Wire, Message
  <2>2. \A id \in Id : M!Answer(id, "string") = [m EXCEPT !.answers = id]
    BY Zenon DEF M!Answer
  <2> HIDE DEF m
  <2> QED
    BY <2>1, <2>2, MessageWith, Zenon
<1>14. ASSUME NEW id \in Id, M!ToolUse(id)
       PROVE  conv' \in MessagesConv
  BY <1>2, <1>3, <1>14, ConvWith, Zenon DEF M!ToolUse, M!Read
<1>15. ASSUME NEW id \in Id, M!ToolResult(id)
       PROVE  conv' \in MessagesConv
  BY <1>2, <1>5, <1>13, <1>15, ConvWith, Zenon DEF M!ToolResult, M!Read
<1>16. CASE M!Thinking
  BY <1>2, <1>3, <1>16, ConvWith, Zenon DEF M!Thinking, M!Read
<1>17. ASSUME NEW id \in Id, M!ServerToolUse(id)
       PROVE  conv' \in MessagesConv
  BY <1>2, <1>3, <1>17, ConvWith, FlushesAreTyped, Zenon DEF M!ServerToolUse, M!Read
<1>18. ASSUME NEW id \in Id, M!SearchResult(id)
       PROVE  conv' \in MessagesConv
  BY <1>2, <1>5, <1>13, <1>18, ConvWith, FlushesAreTyped, Zenon DEF M!SearchResult, M!Read
<1>19. CASE M!System
  <2> DEFINE m == M!Wire("system", {conv.turn + 1}, "string")
  <2>1. m \in Message
    BY <1>2 DEF M!Wire, Message
  <2>2. conv' = [conv EXCEPT !.turn = conv.turn + 1, !.pending = {},
                   !.out = Append(conv.out, m), !.size = conv.size + 1]
    BY <1>19, Zenon DEF M!System, M!Read
  <2> HIDE DEF m
  <2> QED
    BY <1>2, <1>5, <2>1, <2>2, ConvWith, Zenon
<1>20. CASE M!UserMedia
  BY <1>2, <1>4, <1>20, ConvWith, Zenon DEF M!UserMedia, M!Read, M!Human
<1>21. CASE M!Refuse
  BY <1>21 DEF M!Refuse
<1> QED
  BY <1>6, <1>7, <1>8, <1>9, <1>10, <1>11, <1>12, <1>14, <1>15, <1>16, <1>17, <1>18, <1>19,
     <1>20, <1>21
     DEF M!ReadText, M!ReadTools, M!ReadSearch, M!ReadOther

LEMMA FlushedIsTyped ==
  ASSUME conv \in ItemsConv
  PROVE  R!Flushed(conv) \in Seq(Message)
<1> DEFINE w == R!Wire("assistant", conv.items, "null")
           m == [w EXCEPT !.calls = conv.calls]
<1>1. w \in Message /\ conv.calls \in SUBSET Id /\ conv.out \in Seq(Message)
  BY DEF R!Wire, Message, ItemsConv
<1>2. R!Flushed(conv) = IF conv.calls = {} THEN conv.out ELSE Append(conv.out, m)
  BY Zenon DEF R!Flushed
<1> HIDE DEF w
<1>3. m \in Message
  BY <1>1, MessageWith, Zenon
<1> HIDE DEF m
<1> QED
  BY <1>1, <1>2, <1>3

\* An item, or a chat message that the client made.
LEMMA ItemsTyped ==
  ASSUME conv \in ItemsConv,
         R!ReadItem \/ \E m \in Message : ChatMessage(m)
  PROVE  conv' \in ItemsConv
<1> DEFINE flushed == R!Flushed(conv)
<1>1. flushed \in Seq(Message)
  BY FlushedIsTyped
<1>2. /\ R!Item \in SUBSET Nat /\ conv.turn + 1 \in Nat /\ conv.size + 1 \in Nat
      /\ {} \in SUBSET Id /\ {} \in SUBSET Nat /\ conv.out \in Seq(Message)
      /\ conv.items \cup R!Item \in SUBSET Nat
      /\ \A id \in Id : {id} \in SUBSET Id /\ conv.calls \cup {id} \in SUBSET Id
  BY DEF R!Item, ItemsConv
\* items that end a run of calls
<1>3. ASSUME NEW out \in Seq(Message),
             conv' = [conv EXCEPT !.out = out, !.calls = {}, !.items = {},
                        !.turn = conv.turn + 1, !.size = conv.size + 1]
      PROVE  conv' \in ItemsConv
  BY <1>2, <1>3, ItemsWith, Zenon
\* messages that are taken as they are
<1>4. ASSUME NEW m \in Message,
             conv' = [conv EXCEPT !.out = Append(conv.out, m),
                        !.turn = conv.turn + 1, !.size = conv.size + 1]
      PROVE  conv' \in ItemsConv
  <2>1. Append(conv.out, m) \in Seq(Message)
    BY <1>2
  <2> QED
    BY <1>2, <1>4, <2>1, ItemsWith, Zenon
<1>5. ASSUME NEW role \in {"system", "user", "assistant"}, R!MessageItem(role)
      PROVE  conv' \in ItemsConv
  <2>1. PICK content \in {"string", "null"} :
          conv' = [conv EXCEPT !.out = Append(conv.out, R!Wire(role, R!Item, content)),
                     !.turn = conv.turn + 1, !.size = conv.size + 1]
    BY <1>5, Zenon DEF R!MessageItem, R!Read
  <2>2. R!Wire(role, R!Item, content) \in Message
    BY <1>2 DEF R!Wire, Message
  <2> QED
    BY <1>4, <2>1, <2>2, Zenon
<1>6. ASSUME NEW id \in Id, R!FunctionCall(id)
      PROVE  conv' \in ItemsConv
  BY <1>2, <1>6, ItemsWith, Zenon DEF R!FunctionCall, R!Read
<1>7. \A role \in {"assistant", "tool"}, content \in {"null", "string"} :
        R!Wire(role, R!Item, content) \in Message
  BY <1>2 DEF R!Wire, Message
<1>8. ASSUME NEW id \in Id
      PROVE  /\ [R!Wire("assistant", R!Item, "null") EXCEPT !.calls = {id}] \in Message
             /\ [R!Wire("tool", R!Item, "string") EXCEPT !.answers = id] \in Message
  BY <1>2, <1>7, MessageWith, Zenon
<1>9. ASSUME NEW id \in Id, R!FunctionCallOutput(id)
      PROVE  conv' \in ItemsConv
  <2> DEFINE last == [R!Wire("tool", R!Item, "string") EXCEPT !.answers = id]
  <2>1. last \in Message
    BY <1>8
  <2>2. conv' = [conv EXCEPT !.out = Append(flushed, last), !.calls = {}, !.items = {},
                   !.turn = conv.turn + 1, !.size = conv.size + 1]
    BY <1>9 DEF R!FunctionCallOutput, R!Read, R!Flush, ItemsConv
  <2> HIDE DEF flushed, last
  <2>3. Append(flushed, last) \in Seq(Message)
    BY <1>1, <2>1
  <2> QED
    BY <1>3, <2>2, <2>3, Zenon
<1>10. ASSUME NEW id \in Id, R!WebSearchCall(id)
       PROVE  conv' \in ItemsConv
  <2> DEFINE call == [R!Wire("assistant", R!Item, "null") EXCEPT !.calls = {id}]
             last == [R!Wire("tool", R!Item, "string") EXCEPT !.answers = id]
  <2>1. call \in Message /\ last \in Message
    BY <1>8
  <2>2. conv' = [conv EXCEPT !.out = flushed \o <<call, last>>, !.calls = {}, !.items = {},
                   !.turn = conv.turn + 1, !.size = conv.size + 1]
    BY <1>10 DEF R!WebSearchCall, R!Read, R!Flush, ItemsConv
  <2> HIDE DEF flushed, call, last
  <2>3. flushed \o <<call, last>> \in Seq(Message)
    BY <1>1, <2>1
  <2> QED
    BY <1>3, <2>2, <2>3, Zenon
<1>11. CASE R!ReasoningItem
  <2>1. conv' = [conv EXCEPT !.out = flushed, !.calls = {}, !.items = {},
                   !.turn = conv.turn + 1, !.size = conv.size + 1]
    BY <1>11 DEF R!ReasoningItem, R!Read, R!Flush, ItemsConv
  <2> HIDE DEF flushed
  <2> QED
    BY <1>1, <1>3, <2>1, Zenon
<1>12. CASE R!Refuse
  BY <1>12 DEF R!Refuse
<1>13. ASSUME NEW m \in Message, ChatMessage(m)
       PROVE  conv' \in ItemsConv
  <2> DEFINE last == [m EXCEPT !.turns = R!Item]
  <2>1. last \in Message
    BY <1>2, MessageWith, Zenon
  <2>2. conv' = [conv EXCEPT !.out = Append(conv.out, last),
                   !.turn = conv.turn + 1, !.size = conv.size + 1]
    BY <1>13, Zenon DEF ChatMessage, R!Read
  <2> HIDE DEF last
  <2> QED
    BY <1>4, <2>1, <2>2, Zenon
<1> QED
  BY <1>5, <1>6, <1>9, <1>10, <1>11, <1>12, <1>13 DEF R!ReadItem

LEMMA HistoryIsTyped ==
  ASSUME ConvTyped, ReadHistory
  PROVE  ConvTyped'
<1>1. frontend' = frontend
  BY DEF ReadHistory, frontend
<1>2. CASE frontend = "messages"
  <2>1. M!ReadText \/ M!ReadTools \/ M!Thinking \/ M!ReadSearch \/ M!ReadOther \/ M!Refuse
    BY <1>2 DEF ReadHistory
  <2> QED
    BY <1>1, <1>2, <2>1, MessagesTyped DEF ConvTyped
<1>3. CASE frontend # "messages"
  <2>1. R!ReadItem \/ \E m \in Message : ChatMessage(m)
    <3>1. \A role \in {"system", "user", "assistant"} :
            Wire(role, {}, "string") \in Message
      BY DEF Wire, Message
    <3>2. \A ids \in SUBSET Id :
            [Wire("assistant", {}, "null") EXCEPT !.calls = ids, !.reasoning = "client"]
              \in Message
      <4>1. Wire("assistant", {}, "null") \in Message
        BY DEF Wire, Message
      <4> QED
        BY <4>1, MessageWith, Zenon
    <3>3. \A id \in Id : [Wire("tool", {}, "one") EXCEPT !.answers = id] \in Message
      BY DEF Wire, Message
    <3> QED
      BY <1>3, <3>1, <3>2, <3>3 DEF ReadHistory
  <2> QED
    BY <1>1, <1>3, <2>1, ItemsTyped DEF ConvTyped
<1> QED
  BY <1>2, <1>3

-----------------------------------------------------------------------------
(* What preparation does to a message                                      *)

LEMMA ListIsSequence ==
  ASSUME NEW n \in Nat, NEW S, NEW s, DOMAIN s = 1 .. n, s = [i \in 1 .. n |-> s[i]],
         \A i \in 1 .. n : s[i] \in S
  PROVE  s \in Seq(S) /\ Len(s) = n
<1>1. s \in [1 .. n -> S]
  OBVIOUS
<1>2. s \in Seq(S)
  BY <1>1
<1> QED
  BY <1>1, <1>2

\* What the properties compare: preparation neither moves nor merges messages,
\* and leaves alone whom they are from and what they call or answer.
Alike(m, n) ==
  /\ m.role = n.role /\ m.turns = n.turns /\ m.calls = n.calls /\ m.answers = n.answers

Shape(list, new) ==
  Len(new) = Len(list) /\ \A i \in 1 .. Len(list) : Alike(new[i], list[i])

LEMMA NormalizedShape ==
  ASSUME NEW list \in Seq(Message)
  PROVE  /\ Normalized(list) \in Seq(Message)
         /\ Shape(list, Normalized(list))
         /\ \A i \in 1 .. Len(list) :
              /\ Normalized(list)[i].reasoning = list[i].reasoning
              /\ Normalized(list)[i].content = list[i].content
              /\ Normalized(list)[i].arguments = list[i].arguments
<1> DEFINE new == Normalized(list)
<1>1. /\ DOMAIN new = 1 .. Len(list)
      /\ \A i \in 1 .. Len(list) :
           new[i] = IF list[i].role = "system" THEN [list[i] EXCEPT !.header = 0] ELSE list[i]
  BY DEF Normalized
<1>2. new = [i \in 1 .. Len(list) |-> new[i]]
  BY DEF Normalized
<1> HIDE DEF new
<1>3. \A m \in Message : [m EXCEPT !.header = 0] \in Message
  BY DEF Message
<1>4. \A i \in 1 .. Len(list) : list[i] \in Message /\ new[i] \in Message
  BY <1>1, <1>3
<1>5. new \in Seq(Message) /\ Len(new) = Len(list)
  BY <1>1, <1>2, <1>4, ListIsSequence
<1>6. \A i \in 1 .. Len(list) :
        /\ Alike(new[i], list[i])
        /\ new[i].reasoning = list[i].reasoning
        /\ new[i].content = list[i].content
        /\ new[i].arguments = list[i].arguments
  BY <1>1, <1>4 DEF Alike, Message
<1> QED
  BY <1>5, <1>6 DEF Shape, new

LEMMA StrippedShape ==
  ASSUME NEW list \in Seq(Message)
  PROVE  /\ Stripped(list) \in Seq(Message)
         /\ Shape(list, Stripped(list))
         /\ \A i \in 1 .. Len(list) :
              /\ Stripped(list)[i].reasoning =
                   IF list[i].role = "assistant" /\ i < EpochBoundary(list)
                   THEN "none" ELSE list[i].reasoning
              /\ Stripped(list)[i].content = list[i].content
              /\ Stripped(list)[i].arguments = list[i].arguments
              /\ Stripped(list)[i].header = list[i].header
<1> DEFINE new == Stripped(list)
<1>1. /\ DOMAIN new = 1 .. Len(list)
      /\ \A i \in 1 .. Len(list) :
           new[i] = IF list[i].role = "assistant" /\ i < EpochBoundary(list)
                    THEN [list[i] EXCEPT !.reasoning = "none"] ELSE list[i]
  BY DEF Stripped, StripBoundary
<1>2. new = [i \in 1 .. Len(list) |-> new[i]]
  BY DEF Stripped
<1> HIDE DEF new
<1>3. \A m \in Message : [m EXCEPT !.reasoning = "none"] \in Message
  BY DEF Message
<1>4. \A i \in 1 .. Len(list) : list[i] \in Message /\ new[i] \in Message
  BY <1>1, <1>3
<1>5. new \in Seq(Message) /\ Len(new) = Len(list)
  BY <1>1, <1>2, <1>4, ListIsSequence
<1>6. \A i \in 1 .. Len(list) :
        /\ Alike(new[i], list[i])
        /\ new[i].reasoning =
             IF list[i].role = "assistant" /\ i < EpochBoundary(list)
             THEN "none" ELSE list[i].reasoning
        /\ new[i].content = list[i].content
        /\ new[i].arguments = list[i].arguments
        /\ new[i].header = list[i].header
  BY <1>1, <1>4 DEF Alike, Message
<1> QED
  BY <1>5, <1>6 DEF Shape, new

LEMMA CompactedShape ==
  ASSUME NEW list \in Seq(Message)
  PROVE  /\ Compacted(list) \in Seq(Message)
         /\ Shape(list, Compacted(list))
         /\ \A i \in 1 .. Len(list) :
              /\ Compacted(list)[i].reasoning = list[i].reasoning
              /\ Compacted(list)[i].content =
                   IF list[i].content \in {"empty", "one"} THEN "string" ELSE list[i].content
              /\ Compacted(list)[i].arguments = list[i].arguments
              /\ Compacted(list)[i].header = list[i].header
<1> DEFINE new == Compacted(list)
<1>1. /\ DOMAIN new = 1 .. Len(list)
      /\ \A i \in 1 .. Len(list) :
           new[i] = IF list[i].content \in {"empty", "one"}
                    THEN [list[i] EXCEPT !.content = "string"] ELSE list[i]
  BY DEF Compacted
<1>2. new = [i \in 1 .. Len(list) |-> new[i]]
  BY DEF Compacted
<1> HIDE DEF new
<1>3. \A m \in Message : [m EXCEPT !.content = "string"] \in Message
  BY DEF Message
<1>4. \A i \in 1 .. Len(list) : list[i] \in Message /\ new[i] \in Message
  BY <1>1, <1>3
<1>5. new \in Seq(Message) /\ Len(new) = Len(list)
  BY <1>1, <1>2, <1>4, ListIsSequence
<1>6. \A i \in 1 .. Len(list) :
        /\ Alike(new[i], list[i])
        /\ new[i].reasoning = list[i].reasoning
        /\ new[i].content =
             IF list[i].content \in {"empty", "one"} THEN "string" ELSE list[i].content
        /\ new[i].arguments = list[i].arguments
        /\ new[i].header = list[i].header
  BY <1>1, <1>4 DEF Alike, Message
<1> QED
  BY <1>5, <1>6 DEF Shape, new

\* The position up to which arguments are made canonical.
LastFixed(list) == LastOr(Positions(list, {"user", "tool"}), 0)

LEMMA CanonicalShape ==
  ASSUME NEW list \in Seq(Message)
  PROVE  /\ Canonical(list) \in Seq(Message)
         /\ Shape(list, Canonical(list))
         /\ \A i \in 1 .. Len(list) :
              /\ Canonical(list)[i].reasoning = list[i].reasoning
              /\ Canonical(list)[i].content = list[i].content
              /\ Canonical(list)[i].arguments =
                   IF /\ list[i].role = "assistant" /\ i < LastFixed(list)
                      /\ list[i].calls # {}
                   THEN "canonical" ELSE list[i].arguments
              /\ Canonical(list)[i].header = list[i].header
<1> DEFINE new == Canonical(list)
<1>1. /\ DOMAIN new = 1 .. Len(list)
      /\ \A i \in 1 .. Len(list) :
           new[i] = IF /\ list[i].role = "assistant" /\ i < LastFixed(list)
                       /\ list[i].calls # {}
                    THEN [list[i] EXCEPT !.arguments = "canonical"] ELSE list[i]
  BY DEF Canonical, LastFixed
<1>2. new = [i \in 1 .. Len(list) |-> new[i]]
  BY DEF Canonical
<1> HIDE DEF new
<1>3. \A m \in Message : [m EXCEPT !.arguments = "canonical"] \in Message
  BY DEF Message
<1>4. \A i \in 1 .. Len(list) : list[i] \in Message /\ new[i] \in Message
  BY <1>1, <1>3
<1>5. new \in Seq(Message) /\ Len(new) = Len(list)
  BY <1>1, <1>2, <1>4, ListIsSequence
<1>6. \A i \in 1 .. Len(list) :
        /\ Alike(new[i], list[i])
        /\ new[i].reasoning = list[i].reasoning
        /\ new[i].content = list[i].content
        /\ new[i].arguments =
             IF /\ list[i].role = "assistant" /\ i < LastFixed(list)
                /\ list[i].calls # {}
             THEN "canonical" ELSE list[i].arguments
        /\ new[i].header = list[i].header
  BY <1>1, <1>4 DEF Alike, Message
<1> QED
  BY <1>5, <1>6 DEF Shape, new

LEMMA MaxIsGreatest ==
  ASSUME NEW n \in Nat, NEW S \in SUBSET (1 .. n), S # {}
  PROVE  Max(S) \in S /\ \A k \in S : k <= Max(S)
<1>1. IsFiniteSet(1 .. n)
  <2>1. 1 \in Int /\ n \in Int
    OBVIOUS
  <2> QED
    BY <2>1, FS_Interval
<1>2. IsFiniteSet(S)
  BY <1>1, FS_Subset
<1>3. PICK m \in S : \A k \in S : k <= m
  BY <1>2, GreatestNumber
<1>4. \A k \in S : k \in Nat
  OBVIOUS
<1>5. \A k \in S : m >= k
  BY <1>3, <1>4
<1>6. Max(S) \in S /\ \A k \in S : Max(S) >= k
  BY <1>5 DEF Max
<1> QED
  BY <1>4, <1>6

\* The boundary is the newest user message; without one nothing belongs to the
\* current epoch.
LEMMA BoundaryIsNewest ==
  ASSUME NEW list \in Seq(Message)
  PROVE  /\ EpochBoundary(list) \in 1 .. Len(list) + 1
         /\ EpochBoundary(list) <= Len(list) => list[EpochBoundary(list)].role = "user"
         /\ \A i \in 1 .. Len(list) : list[i].role = "user" =>
              i <= EpochBoundary(list) /\ EpochBoundary(list) <= Len(list)
<1> DEFINE S == Positions(list, {"user"})
<1>1. S \in SUBSET (1 .. Len(list)) /\ \A i \in 1 .. Len(list) : i \in S <=> list[i].role = "user"
  BY DEF Positions
<1>2. EpochBoundary(list) = IF S = {} THEN Len(list) + 1 ELSE Max(S)
  BY DEF EpochBoundary, LastOr
<1> HIDE DEF S
<1>3. CASE S = {}
  BY <1>1, <1>2, <1>3
<1>4. CASE S # {}
  <2> DEFINE m == Max(S)
             n == Len(list)
  <2>1. n \in Nat
    OBVIOUS
  <2> HIDE DEF n
  <2>2. m \in S /\ \A k \in S : k <= m
    BY <1>1, <1>4, <2>1, MaxIsGreatest DEF n
  <2>3. EpochBoundary(list) = m
    BY <1>2, <1>4
  <2> HIDE DEF m
  <2> QED
    BY <1>1, <2>1, <2>2, <2>3 DEF n
<1> QED
  BY <1>3, <1>4

LEMMA LastFixedIsLast ==
  ASSUME NEW list \in Seq(Message)
  PROVE  /\ LastFixed(list) \in 0 .. Len(list)
         /\ \A i \in 1 .. Len(list) : list[i].role \in {"user", "tool"} => i <= LastFixed(list)
<1> DEFINE S == Positions(list, {"user", "tool"})
<1>1. /\ S \in SUBSET (1 .. Len(list))
      /\ \A i \in 1 .. Len(list) : i \in S <=> list[i].role \in {"user", "tool"}
  BY DEF Positions
<1>2. LastFixed(list) = IF S = {} THEN 0 ELSE Max(S)
  BY DEF LastFixed, LastOr
<1> HIDE DEF S
<1>3. CASE S = {}
  BY <1>1, <1>2, <1>3
<1>4. CASE S # {}
  <2> DEFINE m == Max(S)
             n == Len(list)
  <2>1. n \in Nat
    OBVIOUS
  <2> HIDE DEF n
  <2>2. m \in S /\ \A k \in S : k <= m
    BY <1>1, <1>4, <2>1, MaxIsGreatest DEF n
  <2>3. LastFixed(list) = m
    BY <1>2, <1>4
  <2> HIDE DEF m
  <2> QED
    BY <1>1, <2>1, <2>2, <2>3 DEF n
<1> QED
  BY <1>3, <1>4

\* The epochs of two lists with the same shape are the same.
LEMMA ShapeKeepsPositions ==
  ASSUME NEW list, NEW new, Len(list) \in Nat, Shape(list, new)
  PROVE  /\ EpochBoundary(new) = EpochBoundary(list)
         /\ LastFixed(new) = LastFixed(list)
<1>1. \A roles : Positions(new, roles) = Positions(list, roles)
  BY DEF Positions, Shape, Alike
<1> QED
  BY <1>1 DEF EpochBoundary, LastFixed, Shape

LEMMA ShapeIsTransitive ==
  ASSUME NEW a, NEW b, NEW c, Shape(a, b), Shape(b, c)
  PROVE  Shape(a, c)
BY DEF Shape, Alike

LEMMA PreparedShape ==
  ASSUME NEW list \in Seq(Message), NEW glm
  PROVE  /\ Prepared(list, glm) \in Seq(Message)
         /\ Shape(list, Prepared(list, glm))
         /\ \A i \in 1 .. Len(list) :
              /\ Prepared(list, glm)[i].reasoning =
                   IF glm /\ list[i].role = "assistant" /\ i < EpochBoundary(list)
                   THEN "none" ELSE list[i].reasoning
              /\ Prepared(list, glm)[i].content =
                   IF glm /\ list[i].content \in {"empty", "one"}
                   THEN "string" ELSE list[i].content
              /\ Prepared(list, glm)[i].arguments =
                   IF /\ list[i].role = "assistant" /\ i < LastFixed(list)
                      /\ list[i].calls # {}
                   THEN "canonical" ELSE list[i].arguments
              /\ Prepared(list, glm)[i].header = list[i].header
<1> DEFINE s == Stripped(list)
           c == Compacted(s)
           new == Canonical(c)
<1>1. CASE glm
  <2>1. /\ s \in Seq(Message) /\ Shape(list, s)
        /\ \A i \in 1 .. Len(list) :
             /\ s[i].reasoning =
                  IF list[i].role = "assistant" /\ i < EpochBoundary(list)
                  THEN "none" ELSE list[i].reasoning
             /\ s[i].content = list[i].content
             /\ s[i].arguments = list[i].arguments
             /\ s[i].header = list[i].header
    BY StrippedShape, Zenon
  <2> HIDE DEF s
  <2>2. /\ c \in Seq(Message) /\ Shape(s, c)
        /\ \A i \in 1 .. Len(s) :
             /\ c[i].reasoning = s[i].reasoning
             /\ c[i].content = IF s[i].content \in {"empty", "one"} THEN "string" ELSE s[i].content
             /\ c[i].arguments = s[i].arguments
             /\ c[i].header = s[i].header
    BY <2>1, CompactedShape, Zenon
  <2> HIDE DEF c
  <2>3. /\ new \in Seq(Message) /\ Shape(c, new)
        /\ \A i \in 1 .. Len(c) :
             /\ new[i].reasoning = c[i].reasoning
             /\ new[i].content = c[i].content
             /\ new[i].arguments =
                  IF /\ c[i].role = "assistant" /\ i < LastFixed(c) /\ c[i].calls # {}
                  THEN "canonical" ELSE c[i].arguments
             /\ new[i].header = c[i].header
    BY <2>2, CanonicalShape, Zenon
  <2>4. Prepared(list, glm) = new
    BY <1>1 DEF Prepared, s, c
  <2> HIDE DEF new
  <2>5. Shape(list, c) /\ Shape(list, new)
    BY <2>1, <2>2, <2>3, ShapeIsTransitive
  <2>6. LastFixed(c) = LastFixed(list)
    BY <2>5, ShapeKeepsPositions
  <2>7. Len(s) = Len(list) /\ Len(c) = Len(list)
    BY <2>1, <2>5 DEF Shape
  <2>8. \A i \in 1 .. Len(list) : Alike(c[i], list[i])
    BY <2>5 DEF Shape
  <2>9. ASSUME NEW i \in 1 .. Len(list)
        PROVE  /\ new[i].reasoning =
                    IF list[i].role = "assistant" /\ i < EpochBoundary(list)
                    THEN "none" ELSE list[i].reasoning
               /\ new[i].content =
                    IF list[i].content \in {"empty", "one"} THEN "string" ELSE list[i].content
               /\ new[i].arguments =
                    IF /\ list[i].role = "assistant" /\ i < LastFixed(list)
                       /\ list[i].calls # {}
                    THEN "canonical" ELSE list[i].arguments
               /\ new[i].header = list[i].header
    <3>1. c[i].role = list[i].role /\ c[i].calls = list[i].calls
      BY <2>8 DEF Alike
    <3>2. i \in 1 .. Len(s) /\ i \in 1 .. Len(c)
      BY <2>7
    <3> QED
      BY <2>1, <2>2, <2>3, <2>6, <3>1, <3>2
  <2> QED
    BY <1>1, <2>3, <2>4, <2>5, <2>9
<1>2. CASE ~glm
  <2> DEFINE fixed == Canonical(list)
  <2>1. Prepared(list, glm) = fixed
    BY <1>2 DEF Prepared
  <2>2. /\ fixed \in Seq(Message) /\ Shape(list, fixed)
        /\ \A i \in 1 .. Len(list) :
             /\ fixed[i].reasoning = list[i].reasoning
             /\ fixed[i].content = list[i].content
             /\ fixed[i].arguments =
                  IF /\ list[i].role = "assistant" /\ i < LastFixed(list)
                     /\ list[i].calls # {}
                  THEN "canonical" ELSE list[i].arguments
             /\ fixed[i].header = list[i].header
    BY CanonicalShape, Zenon
  <2> HIDE DEF fixed
  <2> QED
    BY <1>2, <2>1, <2>2
<1> QED
  BY <1>1, <1>2

\* One message of restore_into.
LEMMA RestoredShape ==
  ASSUME NEW list \in Seq(Message), NEW p \in 1 .. Len(list)
  PROVE  LET new == [list EXCEPT ![p] = Restored(@, held)]
         IN  /\ new \in Seq(Message)
             /\ Shape(list, new)
             /\ \A i \in 1 .. Len(list) :
                  /\ new[i].reasoning =
                       IF /\ i = p /\ list[i].role = "assistant"
                          /\ list[i].reasoning = "none" /\ list[i].calls \cap held # {}
                       THEN "restored" ELSE list[i].reasoning
                  /\ new[i].content = list[i].content
                  /\ new[i].arguments = list[i].arguments
                  /\ new[i].header = list[i].header
<1> DEFINE new == [list EXCEPT ![p] = Restored(@, held)]
<1>1. \A m \in Message : [m EXCEPT !.reasoning = "restored"] \in Message
  BY DEF Message
<1>2. Restored(list[p], held) \in Message
  BY <1>1 DEF Restored
<1>3. new \in Seq(Message) /\ Len(new) = Len(list)
  BY <1>2
<1>4. \A i \in 1 .. Len(list) :
        new[i] = IF /\ i = p /\ list[i].role = "assistant"
                    /\ list[i].reasoning = "none" /\ list[i].calls \cap held # {}
                 THEN [list[i] EXCEPT !.reasoning = "restored"] ELSE list[i]
  BY DEF Restored
<1> HIDE DEF new
<1>5. \A i \in 1 .. Len(list) :
        /\ Alike(new[i], list[i])
        /\ new[i].reasoning =
             IF /\ i = p /\ list[i].role = "assistant"
                /\ list[i].reasoning = "none" /\ list[i].calls \cap held # {}
             THEN "restored" ELSE list[i].reasoning
        /\ new[i].content = list[i].content
        /\ new[i].arguments = list[i].arguments
        /\ new[i].header = list[i].header
  <2>1. \A i \in 1 .. Len(list) : list[i] \in Message
    OBVIOUS
  <2>2. \A m \in Message :
          LET n == [m EXCEPT !.reasoning = "restored"]
          IN  /\ Alike(n, m) /\ n.reasoning = "restored" /\ n.content = m.content
              /\ n.arguments = m.arguments /\ n.header = m.header
    BY DEF Alike, Message
  <2>3. \A m : Alike(m, m)
    BY DEF Alike
  <2> SUFFICES ASSUME NEW i \in 1 .. Len(list)
               PROVE  LET put == /\ i = p /\ list[i].role = "assistant"
                                 /\ list[i].reasoning = "none" /\ list[i].calls \cap held # {}
                      IN  /\ Alike(new[i], list[i])
                          /\ new[i].reasoning =
                               IF put THEN "restored" ELSE list[i].reasoning
                          /\ new[i].content = list[i].content
                          /\ new[i].arguments = list[i].arguments
                          /\ new[i].header = list[i].header
    OBVIOUS
  <2>4. new[i] = IF /\ i = p /\ list[i].role = "assistant"
                    /\ list[i].reasoning = "none" /\ list[i].calls \cap held # {}
                 THEN [list[i] EXCEPT !.reasoning = "restored"] ELSE list[i]
    BY <1>4
  <2>5. list[i] \in Message
    BY <2>1
  <2>6. CASE /\ i = p /\ list[i].role = "assistant"
             /\ list[i].reasoning = "none" /\ list[i].calls \cap held # {}
    <3>1. new[i] = [list[i] EXCEPT !.reasoning = "restored"]
      BY <2>4, <2>6
    <3> QED
      BY <2>2, <2>5, <2>6, <3>1
  <2>7. CASE ~(/\ i = p /\ list[i].role = "assistant"
               /\ list[i].reasoning = "none" /\ list[i].calls \cap held # {})
    <3>1. new[i] = list[i]
      BY <2>4, <2>7
    <3> QED
      BY <2>3, <2>7, <3>1
  <2> QED
    BY <2>6, <2>7
<1> QED
  BY <1>3, <1>5 DEF Shape, new

-----------------------------------------------------------------------------
(* Types are kept                                                          *)

Restores == phase = "restoring" => at >= EpochBoundary(body)

TypeInv == TypeOK /\ ConvTyped /\ Restores

LEMMA HistoryIsList == ConvTyped => History \in Seq(Message) /\ conv.out \in Seq(Message)
<1>1. CASE frontend = "messages"
  BY <1>1 DEF ConvTyped, MessagesConv, History
<1>2. CASE frontend # "messages"
  BY <1>2, FlushedIsTyped DEF ConvTyped, ItemsConv, History
<1> QED
  BY <1>1, <1>2

LEMMA SystemPromptIsList ==
  ASSUME NEW stamp \in {1, 2}
  PROVE  /\ SystemPrompt(stamp) \in Seq(Message)
         /\ Len(SystemPrompt(stamp)) \in {0, 1}
         /\ Len(SystemPrompt(stamp)) = 1 =>
              SystemPrompt(stamp)[1] = [Wire("system", {}, "string") EXCEPT !.header = stamp]
<1>1. [Wire("system", {}, "string") EXCEPT !.header = stamp] \in Message
  BY DEF Wire, Message
<1> QED
  BY <1>1 DEF SystemPrompt

LEMMA SubmittedIsList ==
  ASSUME ConvTyped, Submit
  PROVE  body' \in Seq(Message)
<1>1. PICK stamp \in {1, 2} :
        body' = IF frontend = "messages"
                THEN Normalized(SystemPrompt(stamp) \o History) ELSE History
  BY DEF Submit
<1>2. SystemPrompt(stamp) \o History \in Seq(Message)
  BY HistoryIsList, SystemPromptIsList
<1> QED
  BY <1>1, <1>2, HistoryIsList, NormalizedShape

LEMMA TypeInvInit == Init => TypeInv
<1> SUFFICES ASSUME Init PROVE TypeInv
  OBVIOUS
<1>1. ConvTyped
  <2>1. CASE frontend = "messages"
    BY <2>1 DEF Init, ConvTyped, MessagesConv, M!FreshConv, M!NoSegment, Contents
  <2>2. CASE frontend # "messages"
    BY <2>2 DEF Init, ConvTyped, ItemsConv, R!FreshConv
  <2> QED
    BY <2>1, <2>2
<1>2. TypeOK
  <2>1. conv.out \in Seq(Message)
    BY <1>1, HistoryIsList
  <2> QED
    BY <2>1 DEF Init, TypeOK, NoRequest
<1> QED
  BY <1>1, <1>2 DEF TypeInv, Restores, Init

LEMMA BoundIsPositive ==
  ASSUME NEW asked \in Nat
  PROVE  EffectiveOutput(asked) \in 1 .. Cap
BY LimitsAreNumbers, WindowAssumption DEF EffectiveOutput

LEMMA DoneIsTyped ==
  ASSUME TypeInv, Done, UNCHANGED <<client, conv, at, sent>>,
         held' \subseteq Id, intact' \in BOOLEAN
  PROVE  TypeInv'
<1>1. NoRequest \in Requests
  BY DEF NoRequest, Requests
<1>2. ConvTyped'
  BY DEF TypeInv, ConvTyped, frontend
<1>3. TypeOK'
  BY <1>1 DEF TypeInv, TypeOK, Done, Requests
<1> QED
  BY <1>2, <1>3 DEF TypeInv, Restores, Done

LEMMA PrepareIsTyped ==
  ASSUME TypeInv, Prepare
  PROVE  TypeInv'
<1>1. PICK effort \in AskedEfforts, budget \in Budget, bound \in AskedBounds :
        LET resolved == Resolves(effort, budget, bound)
        IN  IF resolved = "invalid" THEN RefuseRequest
            ELSE /\ body' = Prepared(body, Glm)
                 /\ request' = [request EXCEPT
                      !.effort = resolved,
                      !.output = IF Glm THEN EffectiveOutput(bound) ELSE bound]
                 /\ phase' = IF frontend = "messages" /\ Window > 0
                             THEN "guarding" ELSE "sending"
                 /\ UNCHANGED <<client, conv, at, held, sent, intact>>
  BY DEF Prepare
<1> DEFINE resolved == Resolves(effort, budget, bound)
<1>2. CASE resolved = "invalid"
  BY <1>1, <1>2, DoneIsTyped DEF RefuseRequest, TypeInv, TypeOK
<1>3. CASE resolved # "invalid"
  <2>1. /\ body' = Prepared(body, Glm)
        /\ request' = [request EXCEPT
             !.effort = resolved,
             !.output = IF Glm THEN EffectiveOutput(bound) ELSE bound]
        /\ phase' \in {"guarding", "sending"}
        /\ UNCHANGED <<client, conv, at, held, sent, intact>>
    BY <1>1, <1>3
  <2>2. resolved \in Efforts \cup {"absent"} /\ (Glm => resolved \in Efforts)
    <3>1. \A e : OutputEffort(e) \in Efforts \cup {"invalid"}
      BY DEF OutputEffort, Efforts
    <3>2. \A t, b, o : ThinkingEffort(t, b, o) \in Efforts \cup {"invalid"}
      BY DEF ThinkingEffort, Efforts
    <3>3. \A t, b, e, o : ResolvedEffort(t, b, e, o) \in Efforts \cup {"invalid"}
      BY <3>1, <3>2 DEF ResolvedEffort, Efforts
    <3> QED
      BY <1>3, <3>3 DEF Resolves
  <2>3. bound \in Nat /\ EffectiveOutput(bound) \in 1 .. Cap /\ EffectiveOutput(bound) \in Nat
    BY InputsAssumption, BoundIsPositive DEF AskedBounds
  <2>4. body' \in Seq(Message)
    BY <2>1, PreparedShape DEF TypeInv, TypeOK
  <2> HIDE DEF resolved
  <2>5. /\ request' \in Requests
        /\ Glm => request'.effort \in Efforts /\ request'.output \in 1 .. Cap
    BY <2>1, <2>2, <2>3 DEF TypeInv, TypeOK, Requests
  <2>6. TypeOK'
    BY <2>1, <2>4, <2>5 DEF TypeInv, TypeOK, Requests, Glm
  <2> QED
    BY <2>1, <2>6 DEF TypeInv, ConvTyped, Restores, frontend
<1> QED
  BY <1>2, <1>3

LEMMA GuardIsTyped ==
  ASSUME TypeInv, GuardPasses \/ GuardCounts
  PROVE  TypeInv'
<1>1. CASE GuardPasses
  <2>1. PICK tokens \in Tokens : request' = [request EXCEPT !.input = tokens]
    BY <1>1 DEF GuardPasses
  <2>2. tokens \in Nat
    BY InputsAssumption
  <2>3. /\ request' \in Requests
        /\ request'.effort = request.effort /\ request'.output = request.output
    BY <2>1, <2>2 DEF TypeInv, TypeOK, Requests
  <2> QED
    BY <1>1, <2>3 DEF GuardPasses, TypeInv, TypeOK, ConvTyped, Restores, frontend, Glm, Requests
<1>2. CASE GuardCounts
  <2>1. PICK tokens \in Tokens, bytes \in Tokens, counted \in Tokens :
          IF RejectsInput(counted) THEN RefuseRequest
          ELSE /\ request' = [request EXCEPT
                    !.input = tokens, !.counted = TRUE,
                    !.output = IF Glm THEN AllowedOutput(counted, @) ELSE @]
               /\ phase' = "sending"
               /\ UNCHANGED <<client, conv, body, at, held, sent, intact>>
    BY <1>2 DEF GuardCounts
  <2>2. CASE RejectsInput(counted)
    BY <2>1, <2>2, DoneIsTyped DEF RefuseRequest, TypeInv, TypeOK
  <2>3. CASE ~RejectsInput(counted)
    <3>1. /\ request' = [request EXCEPT
               !.input = tokens, !.counted = TRUE,
               !.output = IF Glm THEN AllowedOutput(counted, @) ELSE @]
          /\ phase' = "sending"
          /\ UNCHANGED <<client, conv, body, at, held, sent, intact>>
      BY <2>1, <2>3
    <3> DEFINE allowed == AllowedOutput(counted, request.output)
    <3>2. tokens \in Nat /\ counted \in Nat /\ request.output \in Nat
      BY InputsAssumption DEF TypeInv, TypeOK
    <3>3. allowed \in Nat /\ allowed <= request.output /\ (request.output > 0 => allowed > 0)
      <4>1. Remaining(counted) \in Nat
        BY <3>2, LimitsAreNumbers DEF Remaining, Minus
      <4>2. allowed = IF request.output <= Remaining(counted)
                      THEN request.output ELSE Remaining(counted)
        BY <3>2, <4>1, MinOfTwo DEF AllowedOutput
      <4> QED
        BY <2>3, <3>2, <4>1, <4>2, AllowedFits
    <3>4. phase = "guarding"
      BY <1>2 DEF GuardCounts
    <3> HIDE DEF allowed
    <3>5. /\ request' \in Requests
          /\ Glm => request'.effort \in Efforts /\ request'.output \in 1 .. Cap
      <4>1. request'.effort = request.effort /\ (Glm => request'.output = allowed)
        BY <3>1 DEF TypeInv, TypeOK, allowed
      <4>2. request' \in Requests
        BY <3>1, <3>2, <3>3 DEF TypeInv, TypeOK, Requests, allowed
      <4>3. ASSUME Glm PROVE request.effort \in Efforts /\ request.output \in 1 .. Cap
        BY <3>4, <4>3 DEF TypeInv, TypeOK
      <4> QED
        BY <3>3, <4>1, <4>2, <4>3, LimitsAreNumbers
    <3>6. TypeOK'
      BY <3>1, <3>5 DEF TypeInv, TypeOK, Requests, Glm
    <3> QED
      BY <3>1, <3>6 DEF TypeInv, ConvTyped, Restores, frontend
  <2> QED
    BY <2>2, <2>3
<1> QED
  BY <1>1, <1>2

LEMMA TypeInvNext ==
  ASSUME TypeInv, [Next]_vars
  PROVE  TypeInv'
<1>1. CASE ReadHistory
  <2>1. ConvTyped'
    BY <1>1, HistoryIsTyped DEF TypeInv
  <2>2. conv'.out \in Seq(Message)
    BY <2>1 DEF ConvTyped, MessagesConv, ItemsConv
  <2>3. phase' \in {"reading", "refused"}
    BY <1>1, HistoryOnlyRead
  <2>4. UNCHANGED <<client, body, at, request, held, sent, intact>>
    BY <1>1 DEF ReadHistory
  <2>5. TypeOK'
    BY <2>2, <2>3, <2>4 DEF TypeInv, TypeOK, Glm
  <2>6. Restores'
    BY <2>3 DEF Restores
  <2> QED
    BY <2>1, <2>5, <2>6 DEF TypeInv
<1>2. CASE Submit
  <2>1. body' \in Seq(Message)
    BY <1>2, SubmittedIsList DEF TypeInv
  <2> QED
    BY <1>2, <2>1 DEF Submit, TypeInv, TypeOK, ConvTyped, Restores, frontend
<1>3. CASE ClearEpoch
  BY <1>3 DEF ClearEpoch, TypeInv, TypeOK, ConvTyped, Restores, frontend
<1>4. CASE BeginRestore
  <2>1. at' \in Nat /\ at' >= EpochBoundary(body)
    BY <1>4, BoundaryIsNewest DEF BeginRestore, TypeInv, TypeOK
  <2> QED
    BY <1>4, <2>1 DEF BeginRestore, TypeInv, TypeOK, ConvTyped, Restores, frontend
<1>5. CASE RestoreMessage
  <2> DEFINE new == [body EXCEPT ![at] = Restored(@, held)]
  <2>1. body \in Seq(Message) /\ at \in 1 .. Len(body) /\ at >= EpochBoundary(body)
    BY <1>5, BoundaryIsNewest DEF RestoreMessage, TypeInv, TypeOK, Restores
  <2>2. body' = new /\ new \in Seq(Message) /\ EpochBoundary(new) = EpochBoundary(body)
    <3>1. new \in Seq(Message) /\ Shape(body, new)
      BY <2>1, RestoredShape
    <3> QED
      BY <1>5, <2>1, <3>1, ShapeKeepsPositions DEF RestoreMessage
  <2>3. EpochBoundary(body) \in Nat
    BY <2>1, BoundaryIsNewest
  <2> HIDE DEF new
  <2>4. at' = at + 1 /\ UNCHANGED <<client, conv, phase, request, held, sent, intact>>
    BY <1>5 DEF RestoreMessage
  <2>5. TypeOK'
    BY <2>1, <2>2, <2>4 DEF TypeInv, TypeOK, Glm
  <2>6. EpochBoundary(body') = EpochBoundary(body)
    BY <2>2
  <2>7. at' >= EpochBoundary(body')
    BY <2>1, <2>3, <2>4, <2>6
  <2> QED
    BY <2>4, <2>5, <2>7 DEF TypeInv, ConvTyped, Restores, frontend
<1>6. CASE EndRestore
  BY <1>6 DEF EndRestore, TypeInv, TypeOK, ConvTyped, Restores, frontend
<1>7. CASE Forget
  <2>1. /\ request' = [request EXCEPT !.intact = FALSE]
        /\ held' \subseteq Id /\ intact' = FALSE
        /\ UNCHANGED <<client, conv, phase, body, at, sent>>
    BY <1>7 DEF Forget, TypeInv, TypeOK
  <2>2. /\ request' \in Requests
        /\ request'.effort = request.effort /\ request'.output = request.output
    BY <2>1 DEF TypeInv, TypeOK, Requests
  <2> QED
    BY <2>1, <2>2 DEF TypeInv, TypeOK, ConvTyped, Restores, frontend, Glm, Requests
<1>8. CASE Prepare
  BY <1>8, PrepareIsTyped
<1>9. CASE GuardPasses \/ GuardCounts
  BY <1>9, GuardIsTyped
<1>10. CASE SendFails
  BY <1>10, DoneIsTyped DEF SendFails, RefuseRequest, TypeInv, TypeOK
<1>11. CASE SendChat
  <2>1. NoRequest \in Requests
    BY DEF NoRequest, Requests
  <2> QED
    BY <1>11, <2>1 DEF SendChat, TypeInv, TypeOK, ConvTyped, Restores, frontend, Requests
<1>12. CASE StreamedAnswer \/ WholeAnswer \/ ResponsesAnswer \/ RelayedAnswer \/ Leave
  <2>1. Done /\ UNCHANGED <<client, conv, at, sent>>
    BY <1>12 DEF StreamedAnswer, WholeAnswer, ResponsesAnswer, RelayedAnswer, Leave
  <2>2. held' \subseteq Id /\ intact' \in BOOLEAN
    <3>1. \A calls \in Answers, reasoned \in BOOLEAN : Remembering(calls, reasoned) \subseteq Id
      BY DEF Answers, Remembering, TypeInv, TypeOK
    <3>2. held \subseteq Id /\ \A calls \in Answers : calls \subseteq Id
      BY DEF Answers, TypeInv, TypeOK
    <3>3. ASSUME NEW ids \in SUBSET Id, Holds(ids) PROVE held' \subseteq Id /\ intact' \in BOOLEAN
      BY <3>3 DEF Holds, TypeInv, TypeOK
    <3>4. CASE StreamedAnswer
      <4>1. PICK calls \in Answers, reasoned \in BOOLEAN, ends \in BOOLEAN :
              Holds(IF Eligible /\ ends THEN Remembering(calls, reasoned) ELSE held)
        BY <3>4 DEF StreamedAnswer
      <4> QED
        BY <3>1, <3>2, <3>3, <4>1
    <3>5. CASE WholeAnswer
      <4>1. PICK calls \in Answers, reasoned \in BOOLEAN :
              Holds(IF Identified THEN Remembering(calls, reasoned) ELSE held)
        BY <3>5 DEF WholeAnswer
      <4> QED
        BY <3>1, <3>2, <3>3, <4>1
    <3>6. CASE ResponsesAnswer
      <4>1. PICK calls \in Answers, finish \in {"tool_calls", "other", "none"} :
              Holds(IF ~Identified \/ finish = "none" THEN held
                    ELSE IF finish = "tool_calls" THEN held \cup calls ELSE {})
        BY <3>6 DEF ResponsesAnswer
      <4> QED
        BY <3>2, <3>3, <4>1
    <3>7. CASE RelayedAnswer \/ Leave
      BY <3>7 DEF RelayedAnswer, Leave, TypeInv, TypeOK
    <3> QED
      BY <1>12, <3>4, <3>5, <3>6, <3>7
  <2> QED
    BY <2>1, <2>2, DoneIsTyped
<1>13. CASE UNCHANGED vars
  BY <1>13 DEF vars, TypeInv, TypeOK, ConvTyped, Restores, frontend, Glm
<1> QED
  BY <1>1, <1>2, <1>3, <1>4, <1>5, <1>6, <1>7, <1>8, <1>9, <1>10, <1>11, <1>12, <1>13 DEF Next

-----------------------------------------------------------------------------
(* Who calls and reasons                                                   *)

\* A message as a conversion makes it, and one that a handler works on: only
\* assistants call and reason, and nothing has been put back yet.
MadeOne(m) ==
  /\ m.role # "assistant" => m.calls = {} /\ m.reasoning = "none"
  /\ m.reasoning # "restored"

Made(list) == \A i \in 1 .. Len(list) : MadeOne(list[i])

Plain(list) ==
  \A i \in 1 .. Len(list) :
    list[i].role # "assistant" => list[i].calls = {} /\ list[i].reasoning = "none"

LEMMA MadeAppend ==
  ASSUME NEW list \in Seq(Message), Made(list), NEW m \in Message, MadeOne(m)
  PROVE  Made(Append(list, m)) /\ Append(list, m) \in Seq(Message)
BY DEF Made

LEMMA WiresAreMade ==
  ASSUME NEW role, NEW turns, NEW content
  PROVE  MadeOne(Wire(role, turns, content))
BY DEF MadeOne, Wire

\* An assistant's message with calls and reasoning.
Calling(turns, content, calls, reasoning) ==
  [Wire("assistant", turns, content) EXCEPT !.calls = calls, !.reasoning = reasoning]

LEMMA CallingIsMessage ==
  ASSUME NEW turns \in SUBSET Nat, NEW content \in Contents, NEW calls \in SUBSET Id,
         NEW reasoning \in {"none", "client"}
  PROVE  LET m == Calling(turns, content, calls, reasoning)
         IN  /\ m \in Message /\ MadeOne(m)
             /\ m.role = "assistant" /\ m.turns = turns /\ m.calls = calls
             /\ m.reasoning = reasoning
<1> DEFINE w == Wire("assistant", turns, content)
           m == [w EXCEPT !.calls = calls, !.reasoning = reasoning]
<1>1. w \in Message /\ w.role = "assistant" /\ w.turns = turns
  BY DEF Wire, Message, Contents
<1>2. m = Calling(turns, content, calls, reasoning)
  BY DEF Calling
<1> HIDE DEF w
<1>3. m \in Message
  BY <1>1 DEF Message
<1>4. /\ m.role = "assistant" /\ m.turns = turns /\ m.calls = calls
      /\ m.reasoning = reasoning
  BY <1>1 DEF Message
<1> QED
  BY <1>2, <1>3, <1>4 DEF MadeOne

LEMMA FlushesAreMade ==
  ASSUME conv \in MessagesConv, NEW out \in Seq(Message), Made(out)
  PROVE  Made(M!FlushSegment(out)) /\ Made(M!FlushServerCalls(out))
<1> DEFINE a == [M!Turn("assistant", conv.segment.content) EXCEPT
                   !.calls = conv.segment.calls,
                   !.reasoning = IF conv.segment.reasoning THEN "client" ELSE "none"]
           b == [M!Turn("assistant", "empty") EXCEPT !.calls = conv.servers]
<1>1. a \in Message /\ b \in Message /\ MadeOne(a) /\ MadeOne(b)
  <2>1. /\ {conv.turn} \in SUBSET Nat /\ conv.segment.content \in Contents
        /\ "empty" \in Contents
        /\ conv.segment.calls \in SUBSET Id /\ conv.servers \in SUBSET Id
    BY DEF MessagesConv, Contents
  <2>2. a = Calling({conv.turn}, conv.segment.content, conv.segment.calls,
                    IF conv.segment.reasoning THEN "client" ELSE "none")
    BY DEF M!Turn, M!Wire, Calling, Wire
  <2>3. b \in Message /\ MadeOne(b)
    <3> DEFINE w == Wire("assistant", {conv.turn}, "empty")
    <3>1. b = [w EXCEPT !.calls = conv.servers]
      BY DEF M!Turn, M!Wire, Wire
    <3>2. w \in Message /\ w.role = "assistant" /\ w.reasoning = "none"
      BY <2>1 DEF Wire, Message
    <3> HIDE DEF b, w
    <3> QED
      BY <2>1, <3>1, <3>2 DEF Message, MadeOne
  <2> HIDE DEF a, b
  <2> QED
    BY <2>1, <2>2, <2>3, CallingIsMessage
<1>2. /\ M!FlushSegment(out) = IF conv.segment = M!NoSegment THEN out ELSE Append(out, a)
      /\ M!FlushServerCalls(out) = IF conv.servers = {} THEN out ELSE Append(out, b)
  BY DEF M!FlushSegment, M!FlushServerCalls
<1> HIDE DEF a, b
<1>3. Made(Append(out, a)) /\ Made(Append(out, b))
  BY <1>1, MadeAppend
<1> QED
  BY <1>2, <1>3

LEMMA MessagesMade ==
  ASSUME conv \in MessagesConv, Made(conv.out),
         M!ReadText \/ M!ReadTools \/ M!Thinking \/ M!ReadSearch \/ M!ReadOther \/ M!Refuse
  PROVE  Made(conv'.out)
<1>1. conv.out \in Seq(Message)
  BY DEF MessagesConv
<1>2. ASSUME NEW m \in Message, MadeOne(m), conv'.out = Append(conv.out, m)
      PROVE  Made(conv'.out)
  BY <1>1, <1>2, MadeAppend
<1>3. ASSUME NEW role \in {"user", "assistant"}, NEW blank, M!PlainString(role, blank)
      PROVE  Made(conv'.out)
  <2> DEFINE m == M!Wire(role, {conv.turn + 1}, "string")
  <2>1. m \in Message /\ MadeOne(m)
    BY DEF M!Wire, Message, MessagesConv, MadeOne
  <2>2. conv'.out = Append(conv.out, m)
    BY <1>3 DEF M!PlainString, M!Read, MessagesConv
  <2> QED
    BY <1>2, <2>1, <2>2
<1>4. CASE M!BeginAssistant \/ M!AssistantText \/ M!BeginUser \/ M!UserText
           \/ M!Thinking \/ M!UserMedia \/ M!Refuse \/ \E id \in Id : M!ToolUse(id)
  BY <1>4 DEF M!BeginAssistant, M!AssistantText, M!BeginUser, M!UserText, M!Thinking,
              M!UserMedia, M!Refuse, M!ToolUse, M!Read, M!Human, MessagesConv
<1>5. CASE M!EndAssistant
  <2> DEFINE out == M!FlushSegment(conv.out)
             m == M!Turn("assistant", "empty")
  <2>1. out \in Seq(Message) /\ Made(out)
    BY <1>1, FlushesAreTyped, FlushesAreMade
  <2>2. m \in Message /\ MadeOne(m)
    BY DEF M!Turn, M!Wire, Message, MessagesConv, MadeOne
  <2>3. conv'.out = IF Len(out) = conv.start THEN Append(out, m) ELSE out
    BY <1>5 DEF M!EndAssistant, M!Read, MessagesConv
  <2> HIDE DEF out, m
  <2> QED
    BY <2>1, <2>2, <2>3, MadeAppend
<1>6. CASE M!EndUser
  <2> DEFINE m == M!Turn("user", conv.ordinary)
  <2>1. m \in Message /\ MadeOne(m)
    BY DEF M!Turn, M!Wire, Message, MessagesConv, MadeOne, Contents
  <2>2. conv'.out = conv.out \/ conv'.out = Append(conv.out, m)
    BY <1>6 DEF M!EndUser, M!Read, MessagesConv
  <2> QED
    BY <1>2, <2>1, <2>2
<1>7. ASSUME NEW id \in Id, M!ToolResult(id)
      PROVE  Made(conv'.out)
  <2> DEFINE m == M!Answer(id, "string")
  <2>1. m \in Message /\ MadeOne(m)
    BY DEF M!Answer, M!Turn, M!Wire, Message, MessagesConv, MadeOne
  <2>2. conv'.out = Append(conv.out, m)
    BY <1>7 DEF M!ToolResult, M!Read, MessagesConv
  <2> QED
    BY <1>2, <2>1, <2>2
<1>8. ASSUME NEW id \in Id, M!ServerToolUse(id)
      PROVE  Made(conv'.out)
  <2>1. conv'.out = M!FlushSegment(conv.out)
    BY <1>8 DEF M!ServerToolUse, M!Read, MessagesConv
  <2> QED
    BY <1>1, <2>1, FlushesAreMade
<1>9. ASSUME NEW id \in Id, M!SearchResult(id)
      PROVE  Made(conv'.out)
  <2> DEFINE out == M!FlushServerCalls(conv.out)
             m == M!Answer(id, "string")
  <2>1. out \in Seq(Message) /\ Made(out)
    BY <1>1, FlushesAreTyped, FlushesAreMade
  <2>2. m \in Message /\ MadeOne(m)
    BY DEF M!Answer, M!Turn, M!Wire, Message, MessagesConv, MadeOne
  <2>3. conv'.out = Append(out, m)
    BY <1>9 DEF M!SearchResult, M!Read, MessagesConv
  <2> HIDE DEF out, m
  <2> QED
    BY <2>1, <2>2, <2>3, MadeAppend
<1>10. CASE M!System
  <2> DEFINE m == M!Wire("system", {conv.turn + 1}, "string")
  <2>1. m \in Message /\ MadeOne(m)
    BY DEF M!Wire, Message, MessagesConv, MadeOne
  <2>2. conv'.out = Append(conv.out, m)
    BY <1>10 DEF M!System, M!Read, MessagesConv
  <2> QED
    BY <1>2, <2>1, <2>2
<1> QED
  BY <1>3, <1>4, <1>5, <1>6, <1>7, <1>8, <1>9, <1>10
     DEF M!ReadText, M!ReadTools, M!ReadSearch, M!ReadOther

LEMMA FlushedIsMade ==
  ASSUME conv \in ItemsConv, Made(conv.out)
  PROVE  Made(R!Flushed(conv))
<1> DEFINE m == [R!Wire("assistant", conv.items, "null") EXCEPT !.calls = conv.calls]
<1>1. m \in Message /\ MadeOne(m)
  BY DEF R!Wire, Message, ItemsConv, MadeOne
<1>2. conv.out \in Seq(Message)
  BY DEF ItemsConv
<1>3. R!Flushed(conv) = IF conv.calls = {} THEN conv.out ELSE Append(conv.out, m)
  BY DEF R!Flushed
<1> HIDE DEF m
<1> QED
  BY <1>1, <1>2, <1>3, MadeAppend

LEMMA ItemsMade ==
  ASSUME conv \in ItemsConv, Made(conv.out),
         R!ReadItem \/ \E m \in Message : MadeOne(m) /\ ChatMessage(m)
  PROVE  Made(conv'.out)
<1> DEFINE flushed == R!Flushed(conv)
<1>1. /\ flushed \in Seq(Message) /\ Made(flushed)
      /\ conv.out \in Seq(Message)
      /\ R!Item \in SUBSET Nat
  BY FlushedIsTyped, FlushedIsMade DEF ItemsConv, R!Item
<1>2. ASSUME NEW role \in {"system", "user", "assistant"}, R!MessageItem(role)
      PROVE  Made(conv'.out)
  <2>1. PICK content \in {"string", "null"} :
          R!Read([conv EXCEPT !.out = Append(@, R!Wire(role, R!Item, content))])
    BY <1>2 DEF R!MessageItem
  <2> DEFINE m == R!Wire(role, R!Item, content)
  <2>2. m \in Message /\ MadeOne(m)
    BY <1>1 DEF R!Wire, Message, MadeOne
  <2>3. conv'.out = Append(conv.out, m)
    BY <2>1 DEF R!Read, ItemsConv
  <2> HIDE DEF m
  <2> QED
    BY <1>1, <2>2, <2>3, MadeAppend
<1>3. CASE R!Refuse \/ \E id \in Id : R!FunctionCall(id)
  BY <1>3 DEF R!Refuse, R!FunctionCall, R!Read, ItemsConv
<1>4. ASSUME NEW id \in Id, R!FunctionCallOutput(id)
      PROVE  Made(conv'.out)
  <2> DEFINE m == [R!Wire("tool", R!Item, "string") EXCEPT !.answers = id]
  <2>1. m \in Message /\ MadeOne(m)
    BY <1>1 DEF R!Wire, Message, MadeOne
  <2>2. conv'.out = Append(flushed, m)
    BY <1>4 DEF R!FunctionCallOutput, R!Read, R!Flush, ItemsConv
  <2> HIDE DEF m, flushed
  <2> QED
    BY <1>1, <2>1, <2>2, MadeAppend
<1>5. ASSUME NEW id \in Id, R!WebSearchCall(id)
      PROVE  Made(conv'.out)
  <2> DEFINE call == [R!Wire("assistant", R!Item, "null") EXCEPT !.calls = {id}]
             m == [R!Wire("tool", R!Item, "string") EXCEPT !.answers = id]
  <2>1. call \in Message /\ MadeOne(call) /\ m \in Message /\ MadeOne(m)
    BY <1>1 DEF R!Wire, Message, MadeOne
  <2>2. conv'.out = flushed \o <<call, m>>
    BY <1>5 DEF R!WebSearchCall, R!Read, R!Flush, ItemsConv
  <2> HIDE DEF call, m, flushed
  <2>3. flushed \o <<call, m>> = Append(Append(flushed, call), m)
    BY <1>1, <2>1
  <2>4. Made(Append(flushed, call)) /\ Append(flushed, call) \in Seq(Message)
    BY <1>1, <2>1, MadeAppend
  <2>5. Made(Append(Append(flushed, call), m))
    BY <2>1, <2>4, MadeAppend
  <2> QED
    BY <2>2, <2>3, <2>5
<1>6. CASE R!ReasoningItem
  <2>1. conv'.out = flushed
    BY <1>6 DEF R!ReasoningItem, R!Read, R!Flush, ItemsConv
  <2> QED
    BY <1>1, <2>1
<1>7. ASSUME NEW n \in Message, MadeOne(n), ChatMessage(n)
      PROVE  Made(conv'.out)
  <2> DEFINE m == [n EXCEPT !.turns = R!Item]
  <2>1. m \in Message /\ MadeOne(m)
    BY <1>1, <1>7 DEF Message, MadeOne
  <2>2. conv'.out = Append(conv.out, m)
    BY <1>7 DEF ChatMessage, R!Read, ItemsConv
  <2> HIDE DEF m
  <2> QED
    BY <1>1, <2>1, <2>2, MadeAppend
<1> QED
  BY <1>2, <1>3, <1>4, <1>5, <1>6, <1>7 DEF R!ReadItem

LEMMA OthersRead ==
  ASSUME ReadHistory, frontend # "messages"
  PROVE  R!ReadItem \/ \E m \in Message : MadeOne(m) /\ ChatMessage(m)
<1>1. \A role \in {"system", "user", "assistant"} :
        Wire(role, {}, "string") \in Message /\ MadeOne(Wire(role, {}, "string"))
  BY DEF Wire, Message, MadeOne
<1>2. \A ids \in SUBSET Id :
        LET m == [Wire("assistant", {}, "null") EXCEPT !.calls = ids, !.reasoning = "client"]
        IN  m \in Message /\ MadeOne(m)
  <2> TAKE ids \in SUBSET Id
  <2>1. {} \in SUBSET Nat /\ "null" \in Contents
    BY DEF Contents
  <2> QED
    BY <2>1, CallingIsMessage DEF Calling
<1>3. \A id \in Id :
        LET m == [Wire("tool", {}, "one") EXCEPT !.answers = id]
        IN  m \in Message /\ MadeOne(m)
  BY DEF Wire, Message, MadeOne
<1> QED
  BY <1>1, <1>2, <1>3 DEF ReadHistory

LEMMA HistoryIsMade ==
  ASSUME ConvTyped, Made(conv.out), ReadHistory
  PROVE  Made(conv'.out)
<1>1. CASE frontend = "messages"
  <2>1. M!ReadText \/ M!ReadTools \/ M!Thinking \/ M!ReadSearch \/ M!ReadOther \/ M!Refuse
    BY <1>1 DEF ReadHistory
  <2> QED
    BY <1>1, <2>1, MessagesMade DEF ConvTyped
<1>2. CASE frontend # "messages"
  BY <1>2, OthersRead, ItemsMade DEF ConvTyped
<1> QED
  BY <1>1, <1>2

-----------------------------------------------------------------------------
(* Epochs of reasoning                                                     *)

\* Up to a position, what the shadow holds for the current epoch is in the body.
PutBack(list, ids, upto) ==
  \A i \in 1 .. Len(list) :
    i >= EpochBoundary(list) /\ i < upto /\ list[i].calls \cap ids # {} =>
      list[i].reasoning # "none"

NoOlder(list) ==
  \A i \in 1 .. Len(list) : i < EpochBoundary(list) => list[i].reasoning = "none"

\* What restore_into has done when it has come to its position, and what the
\* strip keeps of it.
Epochs ==
  /\ phase = "restoring" => PutBack(body, held, at)
  /\ phase = "preparing" \/ Ready => (Eligible => PutBack(body, held, Len(body) + 1))
  /\ Ready /\ Glm => NoOlder(body)

EpochInv == TypeInv /\ Made(conv.out) /\ Plain(body) /\ Epochs

LEMMA SubmittedIsPlain ==
  ASSUME ConvTyped, Made(conv.out), Submit
  PROVE  Plain(body')
<1>1. PICK stamp \in {1, 2} :
        body' = IF frontend = "messages"
                THEN Normalized(SystemPrompt(stamp) \o History) ELSE History
  BY DEF Submit
<1>2. History \in Seq(Message) /\ Made(History)
  BY HistoryIsList, FlushedIsMade DEF ConvTyped, History
<1> DEFINE prompt == SystemPrompt(stamp)
           list == prompt \o History
<1>3. /\ prompt \in Seq(Message) /\ Len(prompt) \in {0, 1}
      /\ Len(prompt) = 1 => prompt[1] = [Wire("system", {}, "string") EXCEPT !.header = stamp]
  BY SystemPromptIsList
<1>4. Len(prompt) = 1 => prompt[1].calls = {} /\ prompt[1].reasoning = "none"
  BY <1>3 DEF Wire
<1> HIDE DEF prompt
<1>5. list \in Seq(Message) /\ Plain(list)
  <2> DEFINE h == History
  <2>1. h \in Seq(Message) /\ prompt \in Seq(Message)
    BY <1>2, <1>3
  <2>2. Plain(h)
    BY <1>2 DEF Made, MadeOne, Plain
  <2> HIDE DEF h
  <2>3. /\ prompt \o h \in Seq(Message) /\ Len(prompt \o h) = Len(prompt) + Len(h)
        /\ \A i \in 1 .. Len(prompt \o h) :
             (prompt \o h)[i] = IF i <= Len(prompt) THEN prompt[i] ELSE h[i - Len(prompt)]
    BY <2>1
  <2>4. ASSUME NEW i \in 1 .. Len(prompt \o h), (prompt \o h)[i].role # "assistant"
        PROVE  (prompt \o h)[i].calls = {} /\ (prompt \o h)[i].reasoning = "none"
    <3>1. CASE i <= Len(prompt)
      <4>1. i = 1 /\ Len(prompt) = 1
        BY <1>3, <3>1
      <4> QED
        BY <1>4, <2>3, <4>1
    <3>2. CASE ~(i <= Len(prompt))
      <4>1. i - Len(prompt) \in 1 .. Len(h)
        BY <2>1, <2>3, <3>2
      <4> QED
        BY <2>2, <2>3, <2>4, <3>2, <4>1 DEF Plain
    <3> QED
      BY <3>1, <3>2
  <2>5. Plain(prompt \o h)
    BY <2>4 DEF Plain
  <2> QED
    BY <2>3, <2>5 DEF h
<1>6. Plain(History)
  BY <1>2 DEF Made, MadeOne, Plain
<1> HIDE DEF list
<1>7. Plain(Normalized(list))
  BY <1>5, NormalizedShape DEF Plain, Shape, Alike
<1> QED
  BY <1>1, <1>6, <1>7 DEF list, prompt

LEMMA PutBackKept ==
  ASSUME NEW list, NEW upto, NEW ids, NEW left \in SUBSET ids, PutBack(list, ids, upto)
  PROVE  PutBack(list, left, upto)
BY DEF PutBack

LEMMA RestoreKeepsEpochs ==
  ASSUME EpochInv, RestoreMessage
  PROVE  Plain(body') /\ PutBack(body', held', at')
<1> DEFINE new == [body EXCEPT ![at] = Restored(@, held)]
<1>1. body \in Seq(Message) /\ at \in 1 .. Len(body)
  BY BoundaryIsNewest DEF RestoreMessage, EpochInv, TypeInv, TypeOK, Restores
<1>2. /\ Shape(body, new)
      /\ \A i \in 1 .. Len(body) :
           new[i].reasoning =
             IF /\ i = at /\ body[i].role = "assistant"
                /\ body[i].reasoning = "none" /\ body[i].calls \cap held # {}
             THEN "restored" ELSE body[i].reasoning
  BY <1>1, RestoredShape
<1>3. body' = new /\ at' = at + 1 /\ held' = held
  BY DEF RestoreMessage
<1> HIDE DEF new
<1>4. EpochBoundary(new) = EpochBoundary(body)
  BY <1>1, <1>2, ShapeKeepsPositions
<1>5. Plain(new)
  BY <1>2 DEF EpochInv, Plain, Shape, Alike
<1>6. PutBack(body, held, at) /\ Plain(body)
  BY DEF EpochInv, Epochs, RestoreMessage
<1>7. PutBack(new, held, at + 1)
  <2> SUFFICES ASSUME NEW i \in 1 .. Len(new), i >= EpochBoundary(new), i < at + 1,
                      new[i].calls \cap held # {}
               PROVE  new[i].reasoning # "none"
    BY DEF PutBack
  <2>1. i \in 1 .. Len(body) /\ new[i].calls = body[i].calls
    BY <1>2 DEF Shape, Alike
  <2>2. body[i].role = "assistant"
    BY <1>6, <2>1 DEF Plain
  <2>3. CASE i = at
    BY <1>2, <2>1, <2>2, <2>3
  <2>4. CASE i # at
    <3>1. i < at
      BY <1>1, <2>4
    <3>2. body[i].reasoning # "none"
      BY <1>4, <1>6, <2>1, <3>1 DEF PutBack
    <3> QED
      BY <1>2, <2>1, <2>4, <3>2
  <2> QED
    BY <2>3, <2>4
<1> QED
  BY <1>3, <1>5, <1>7

\* The strip ends where the restore began.
LEMMA PrepareKeepsEpochs ==
  ASSUME EpochInv, Prepare
  PROVE  Plain(body') /\ Epochs'
<1>1. PICK effort \in AskedEfforts, budget \in Budget, bound \in AskedBounds :
        LET resolved == Resolves(effort, budget, bound)
        IN  IF resolved = "invalid" THEN RefuseRequest
            ELSE /\ body' = Prepared(body, Glm)
                 /\ phase' = IF frontend = "messages" /\ Window > 0
                             THEN "guarding" ELSE "sending"
                 /\ UNCHANGED <<client, conv, at, held, sent, intact>>
  BY DEF Prepare
<1>2. CASE Resolves(effort, budget, bound) = "invalid"
  BY <1>1, <1>2 DEF RefuseRequest, Done, Plain, Epochs, Ready
<1>3. CASE Resolves(effort, budget, bound) # "invalid"
  <2> DEFINE new == Prepared(body, Glm)
  <2>1. /\ body' = new
        /\ phase' \in {"guarding", "sending"}
        /\ UNCHANGED <<client, held>>
    BY <1>1, <1>3
  <2>2. body \in Seq(Message) /\ Plain(body)
    BY DEF EpochInv, TypeInv, TypeOK
  <2>3. /\ Shape(body, new)
        /\ \A i \in 1 .. Len(body) :
             new[i].reasoning =
               IF Glm /\ body[i].role = "assistant" /\ i < EpochBoundary(body)
               THEN "none" ELSE body[i].reasoning
    BY <2>2, PreparedShape
  <2> HIDE DEF new
  <2>4. EpochBoundary(new) = EpochBoundary(body) /\ Len(new) = Len(body)
    BY <2>2, <2>3, ShapeKeepsPositions DEF Shape
  <2>5. Plain(new)
    BY <2>2, <2>3 DEF Plain, Shape, Alike
  <2>6. Glm => NoOlder(new)
    BY <2>2, <2>3, <2>4 DEF NoOlder, Plain
  <2>7. Eligible => PutBack(new, held, Len(new) + 1)
    <3> SUFFICES ASSUME Eligible, NEW i \in 1 .. Len(new), i >= EpochBoundary(new),
                        new[i].calls \cap held # {}
                 PROVE  new[i].reasoning # "none"
      BY DEF PutBack
    <3>1. PutBack(body, held, Len(body) + 1)
      BY DEF EpochInv, Epochs, Prepare
    <3>2. i \in 1 .. Len(body) /\ i < Len(body) + 1 /\ body[i].calls \cap held # {}
      BY <2>2, <2>3, <2>4 DEF Shape, Alike
    <3>3. body[i].reasoning # "none"
      BY <2>4, <3>1, <3>2 DEF PutBack
    <3>4. EpochBoundary(body) \in Nat
      BY <2>2, BoundaryIsNewest
    <3>5. ~(i < EpochBoundary(body))
      BY <2>4, <3>2, <3>4
    <3> QED
      BY <2>3, <3>2, <3>3, <3>5
  <2>8. Eligible' <=> Eligible
    BY <2>1 DEF Eligible, Identified, frontend, thinking
  <2>9. Epochs'
    BY <2>1, <2>6, <2>7, <2>8 DEF Epochs, Ready, Glm
  <2> QED
    BY <2>1, <2>5, <2>9
<1> QED
  BY <1>2, <1>3

LEMMA EpochInvInit == Init => EpochInv
<1> SUFFICES ASSUME Init PROVE EpochInv
  OBVIOUS
<1>1. conv.out = <<>> /\ body = <<>> /\ phase = "reading"
  BY DEF Init, M!FreshConv, R!FreshConv
<1> QED
  BY <1>1, TypeInvInit DEF EpochInv, Made, Plain, Epochs, Ready

LEMMA EpochInvNext ==
  ASSUME EpochInv, [Next]_vars
  PROVE  EpochInv'
<1>1. TypeInv'
  BY TypeInvNext DEF EpochInv
<1>2. Made(conv'.out)
  <2>1. CASE ReadHistory
    BY <2>1, HistoryIsMade DEF EpochInv, TypeInv
  <2>2. CASE conv' = conv
    BY <2>2 DEF EpochInv
  <2> QED
    BY <2>1, <2>2
       DEF Next, vars, Submit, ClearEpoch, BeginRestore, RestoreMessage, EndRestore, Forget,
           Prepare, GuardPasses, GuardCounts, RefuseRequest, SendFails, SendChat,
           StreamedAnswer, WholeAnswer, ResponsesAnswer, RelayedAnswer, Leave
<1>3. Plain(body') /\ Epochs'
  <2>1. CASE ReadHistory
    <3>1. phase' \in {"reading", "refused"} /\ body' = body
      BY <2>1, HistoryOnlyRead DEF ReadHistory
    <3> QED
      BY <3>1 DEF EpochInv, Epochs, Ready
  <2>2. CASE Submit
    <3>1. Plain(body')
      BY <2>2, SubmittedIsPlain DEF EpochInv, TypeInv
    <3>2. phase' = IF Eligible THEN "shadow" ELSE "preparing"
      BY <2>2 DEF Submit
    <3>3. Eligible' <=> Eligible
      BY <2>2 DEF Submit, Eligible, Identified, frontend, thinking
    <3> QED
      BY <3>1, <3>2, <3>3 DEF Epochs, Ready
  <2>3. CASE ClearEpoch
    BY <2>3 DEF ClearEpoch, EpochInv, Epochs, Ready, PutBack
  <2>4. CASE BeginRestore
    <3>1. at' = EpochBoundary(body) /\ body' = body /\ held' = held /\ phase' = "restoring"
      BY <2>4 DEF BeginRestore
    <3>2. EpochBoundary(body) \in Nat
      BY BoundaryIsNewest DEF EpochInv, TypeInv, TypeOK
    <3>3. PutBack(body', held', at')
      BY <3>1, <3>2 DEF PutBack
    <3> QED
      BY <3>1, <3>3 DEF EpochInv, Epochs, Ready
  <2>5. CASE RestoreMessage
    <3>1. phase' = "restoring"
      BY <2>5 DEF RestoreMessage
    <3> QED
      BY <2>5, <3>1, RestoreKeepsEpochs DEF Epochs, Ready
  <2>6. CASE EndRestore
    <3>1. /\ phase = "restoring" /\ phase' = "preparing" /\ at > Len(body)
          /\ body' = body /\ held' = held
      BY <2>6 DEF EndRestore
    <3>2. at \in Nat /\ Len(body) \in Nat
      BY DEF EpochInv, TypeInv, TypeOK
    <3>3. PutBack(body', held', Len(body') + 1)
      BY <3>1, <3>2 DEF EpochInv, Epochs, PutBack
    <3> QED
      BY <3>1, <3>3 DEF EpochInv, Epochs, Ready
  <2>7. CASE Forget
    <3>1. held' \in SUBSET held /\ UNCHANGED <<client, phase, body, at>>
      BY <2>7 DEF Forget
    <3>2. \A upto : PutBack(body, held, upto) => PutBack(body, held', upto)
      BY <3>1, PutBackKept
    <3>3. Eligible' <=> Eligible
      BY <3>1 DEF Eligible, Identified, frontend, thinking
    <3> QED
      BY <3>1, <3>2, <3>3 DEF EpochInv, Epochs, Ready, Glm
  <2>8. CASE Prepare
    BY <2>8, PrepareKeepsEpochs
  <2>9. CASE (GuardPasses \/ GuardCounts) /\ ~Done
    <3>1. phase = "guarding" /\ phase' = "sending" /\ UNCHANGED <<client, body, held>>
      BY <2>9 DEF GuardPasses, GuardCounts, RefuseRequest
    <3>2. Eligible' <=> Eligible
      BY <3>1 DEF Eligible, Identified, frontend, thinking
    <3> QED
      BY <3>1, <3>2 DEF EpochInv, Epochs, Ready, Glm
  <2>10. CASE Done \/ SendChat
    BY <2>10 DEF Done, SendChat, Plain, Epochs, Ready
  <2>11. CASE UNCHANGED vars
    <3>1. Eligible' <=> Eligible
      BY <2>11 DEF vars, Eligible, Identified, frontend, thinking
    <3> QED
      BY <2>11, <3>1 DEF vars, EpochInv, Epochs, Ready, Glm
  <2> QED
    BY <2>1, <2>2, <2>3, <2>4, <2>5, <2>6, <2>7, <2>8, <2>9, <2>10, <2>11
       DEF Next, SendFails, RefuseRequest,
           StreamedAnswer, WholeAnswer, ResponsesAnswer, RelayedAnswer, Leave
<1> QED
  BY <1>1, <1>2, <1>3 DEF EpochInv

\* What openai_chat, responses and anthropic_messages of src/src/server.rs send
\* has the reasoning of one epoch, that of its newest user message: all that the
\* shadow holds for it, whatever the shadow lost on the way, and none of before,
\* although restore_into and the strip of src/src/optimize.rs find the boundary
\* by themselves.
THEOREM OneEpoch == Spec => []EpochReasoning
<1>1. Init => EpochInv
  BY EpochInvInit
<1>2. EpochInv /\ [Next]_vars => EpochInv'
  BY EpochInvNext
<1>3. EpochInv => EpochReasoning
  <2> SUFFICES ASSUME EpochInv, Glm, Ready, NEW i \in 1 .. Len(body)
               PROVE  /\ i < EpochBoundary(body) => body[i].reasoning = "none"
                      /\ Eligible /\ i >= EpochBoundary(body) /\ body[i].calls \cap held # {} =>
                           body[i].reasoning # "none"
    BY DEF EpochReasoning
  <2>1. Len(body) \in Nat
    BY DEF EpochInv, TypeInv, TypeOK
  <2> QED
    BY <2>1 DEF EpochInv, Epochs, NoOlder, PutBack
<1> QED
  BY <1>1, <1>2, <1>3, PTL DEF Spec

-----------------------------------------------------------------------------
(* The conversion of items                                                 *)

\* A call stands before every result that came after it.
CallsFirst(out) ==
  \A i, j \in 1 .. Len(out) :
    out[i].role = "tool" /\ out[j].calls # {} =>
      \A s \in out[j].turns, t \in out[i].turns : (s < t) => j < i

NoneAfter(out, turn) == \A i \in 1 .. Len(out) : \A t \in out[i].turns : t <= turn

\* No result has come since the calls that wait.
ItemsInv ==
  /\ CallsFirst(conv.out)
  /\ NoneAfter(conv.out, conv.turn)
  /\ \A s \in conv.items : s <= conv.turn
  /\ \A i \in 1 .. Len(conv.out) :
       conv.out[i].role = "tool" =>
         \A s \in conv.items, t \in conv.out[i].turns : ~(s < t)

LEMMA TurnsAreNumbers ==
  ASSUME NEW out \in Seq(Message), NEW i \in 1 .. Len(out)
  PROVE  out[i] \in Message /\ \A t \in out[i].turns : t \in Nat
<1>1. out[i] \in Message
  OBVIOUS
<1>2. out[i].turns \in SUBSET Nat
  BY <1>1 DEF Message
<1> QED
  BY <1>1, <1>2

LEMMA CallsFirstAppend ==
  ASSUME NEW out \in Seq(Message), NEW turn \in Nat, CallsFirst(out), NoneAfter(out, turn),
         NEW m \in Message, NEW bound \in Nat, turn <= bound,
         \A t \in m.turns : t <= bound,
         m.role = "tool" => m.calls = {},
         m.calls # {} =>
           \A i \in 1 .. Len(out) : out[i].role = "tool" =>
             \A s \in m.turns, t \in out[i].turns : ~(s < t)
  PROVE  CallsFirst(Append(out, m)) /\ NoneAfter(Append(out, m), bound)
<1> DEFINE new == Append(out, m)
<1>1. /\ Len(new) = Len(out) + 1 /\ Len(out) \in Nat
      /\ new[Len(out) + 1] = m
      /\ \A i \in 1 .. Len(out) : new[i] = out[i]
  OBVIOUS
<1> HIDE DEF new
<1>2. \A i \in 1 .. Len(new) : i \in 1 .. Len(out) \/ i = Len(out) + 1
  BY <1>1
<1>3. NoneAfter(new, bound)
  <2> SUFFICES ASSUME NEW i \in 1 .. Len(new), NEW t \in new[i].turns
               PROVE  t <= bound
    BY DEF NoneAfter
  <2>1. CASE i \in 1 .. Len(out)
    <3>1. t <= turn /\ t \in Nat
      BY <1>1, <2>1, TurnsAreNumbers DEF NoneAfter
    <3> QED
      BY <3>1
  <2>2. CASE i = Len(out) + 1
    BY <1>1, <2>2
  <2> QED
    BY <1>2, <2>1, <2>2
<1>4. CallsFirst(new)
  <2> SUFFICES ASSUME NEW i \in 1 .. Len(new), NEW j \in 1 .. Len(new),
                      new[i].role = "tool", new[j].calls # {},
                      NEW s \in new[j].turns, NEW t \in new[i].turns, s < t
               PROVE  j < i
    BY DEF CallsFirst
  <2>1. CASE i \in 1 .. Len(out) /\ j \in 1 .. Len(out)
    BY <1>1, <2>1 DEF CallsFirst
  <2>2. CASE i \in 1 .. Len(out) /\ j = Len(out) + 1
    BY <1>1, <2>2
  <2>3. CASE i = Len(out) + 1 /\ j \in 1 .. Len(out)
    BY <1>1, <2>3
  <2>4. CASE i = Len(out) + 1 /\ j = Len(out) + 1
    BY <1>1, <2>4
  <2> QED
    BY <1>2, <2>1, <2>2, <2>3, <2>4
<1> QED
  BY <1>3, <1>4 DEF new

LEMMA FlushedCallsFirst ==
  ASSUME conv \in ItemsConv, ItemsInv
  PROVE  CallsFirst(R!Flushed(conv)) /\ NoneAfter(R!Flushed(conv), conv.turn)
<1> DEFINE m == [R!Wire("assistant", conv.items, "null") EXCEPT !.calls = conv.calls]
<1>1. m \in Message /\ m.role = "assistant" /\ m.turns = conv.items
  BY DEF R!Wire, Message, ItemsConv
<1>2. conv.out \in Seq(Message) /\ conv.turn \in Nat
  BY DEF ItemsConv
<1>3. R!Flushed(conv) = IF conv.calls = {} THEN conv.out ELSE Append(conv.out, m)
  BY DEF R!Flushed
<1> HIDE DEF m
<1>4. CallsFirst(Append(conv.out, m)) /\ NoneAfter(Append(conv.out, m), conv.turn)
  BY <1>1, <1>2, CallsFirstAppend DEF ItemsInv
<1> QED
  BY <1>3, <1>4 DEF ItemsInv

LEMMA ItemsKept ==
  ASSUME conv \in ItemsConv, ItemsInv, R!ReadItem
  PROVE  ItemsInv'
<1> DEFINE flushed == R!Flushed(conv)
           turn == conv.turn + 1
<1>1. /\ flushed \in Seq(Message) /\ CallsFirst(flushed) /\ NoneAfter(flushed, conv.turn)
      /\ conv.out \in Seq(Message) /\ conv.turn \in Nat /\ turn \in Nat /\ conv.turn <= turn
      /\ R!Item = {turn} /\ conv.items \in SUBSET Nat
  BY FlushedIsTyped, FlushedCallsFirst DEF ItemsConv, R!Item
<1>2. \A i \in 1 .. Len(conv.out) : \A t \in conv.out[i].turns : t \in Nat
  BY <1>1, TurnsAreNumbers
<1>3. \A i \in 1 .. Len(flushed) : \A t \in flushed[i].turns : t \in Nat
  BY <1>1, TurnsAreNumbers
<1>4. ASSUME conv'.turn = turn, CallsFirst(conv'.out), NoneAfter(conv'.out, turn),
             conv'.items = {}
      PROVE  ItemsInv'
  BY <1>4 DEF ItemsInv
<1>5. ASSUME NEW role \in {"system", "user", "assistant"}, R!MessageItem(role)
      PROVE  ItemsInv'
  <2>1. PICK content \in {"string", "null"} :
          R!Read([conv EXCEPT !.out = Append(@, R!Wire(role, R!Item, content))])
    BY <1>5 DEF R!MessageItem
  <2> DEFINE m == R!Wire(role, R!Item, content)
  <2>2. /\ m \in Message /\ m.calls = {} /\ m.turns = {turn} /\ m.role # "tool"
    BY <1>1 DEF R!Wire, Message
  <2>3. conv'.out = Append(conv.out, m) /\ conv'.turn = turn /\ conv'.items = conv.items
    BY <2>1 DEF R!Read, ItemsConv
  <2> HIDE DEF m, turn
  <2>4. CallsFirst(conv'.out) /\ NoneAfter(conv'.out, turn)
    BY <1>1, <2>2, <2>3, CallsFirstAppend DEF ItemsInv
  <2>5. \A i \in 1 .. Len(conv'.out) : conv'.out[i].role = "tool" =>
          i \in 1 .. Len(conv.out) /\ conv'.out[i] = conv.out[i]
    BY <1>1, <2>2, <2>3
  <2>6. \A s \in conv.items : s <= turn
    BY <1>1 DEF ItemsInv, turn
  <2> QED
    BY <2>3, <2>4, <2>5, <2>6 DEF ItemsInv
<1>6. ASSUME NEW id \in Id, R!FunctionCall(id)
      PROVE  ItemsInv'
  <2>1. conv'.out = conv.out /\ conv'.turn = turn /\ conv'.items = conv.items \cup {turn}
    BY <1>1, <1>6 DEF R!FunctionCall, R!Read, ItemsConv
  <2>2. NoneAfter(conv.out, turn)
    BY <1>1, <1>2 DEF ItemsInv, NoneAfter
  <2>3. \A s \in conv'.items : s <= turn
    BY <1>1, <2>1 DEF ItemsInv
  <2>4. \A i \in 1 .. Len(conv.out) : \A t \in conv.out[i].turns : ~(turn < t)
    BY <1>1, <1>2 DEF ItemsInv, NoneAfter
  <2> HIDE DEF turn
  <2> QED
    BY <2>1, <2>2, <2>3, <2>4 DEF ItemsInv
<1>7. ASSUME NEW id \in Id, R!FunctionCallOutput(id)
      PROVE  ItemsInv'
  <2> DEFINE m == [R!Wire("tool", R!Item, "string") EXCEPT !.answers = id]
  <2>1. m \in Message /\ m.role = "tool" /\ m.calls = {} /\ m.turns = {turn}
    BY <1>1 DEF R!Wire, Message
  <2>2. conv'.out = Append(flushed, m) /\ conv'.turn = turn /\ conv'.items = {}
    BY <1>7 DEF R!FunctionCallOutput, R!Read, R!Flush, ItemsConv
  <2> HIDE DEF m, flushed, turn
  <2> QED
    BY <1>1, <1>4, <2>1, <2>2, CallsFirstAppend
<1>8. ASSUME NEW id \in Id, R!WebSearchCall(id)
      PROVE  ItemsInv'
  <2> DEFINE call == [R!Wire("assistant", R!Item, "null") EXCEPT !.calls = {id}]
             m == [R!Wire("tool", R!Item, "string") EXCEPT !.answers = id]
             new == Append(flushed, call)
  <2>1. /\ call \in Message /\ call.role = "assistant" /\ call.turns = {turn}
        /\ m \in Message /\ m.role = "tool" /\ m.calls = {} /\ m.turns = {turn}
    BY <1>1 DEF R!Wire, Message
  <2>2. conv'.out = flushed \o <<call, m>> /\ conv'.turn = turn /\ conv'.items = {}
    BY <1>8 DEF R!WebSearchCall, R!Read, R!Flush, ItemsConv
  <2>3. \A i \in 1 .. Len(flushed) : \A t \in flushed[i].turns : ~(turn < t)
    BY <1>1, <1>3 DEF NoneAfter
  <2> HIDE DEF call, m, flushed, turn
  <2>4. conv'.out = Append(new, m)
    BY <1>1, <2>1, <2>2
  <2>5. new \in Seq(Message) /\ CallsFirst(new) /\ NoneAfter(new, turn)
    BY <1>1, <2>1, <2>3, CallsFirstAppend
  <2> HIDE DEF new
  <2>6. CallsFirst(Append(new, m)) /\ NoneAfter(Append(new, m), turn)
    BY <1>1, <2>1, <2>5, CallsFirstAppend
  <2> QED
    BY <1>4, <2>2, <2>4, <2>6
<1>9. CASE R!ReasoningItem
  <2>1. conv'.out = flushed /\ conv'.turn = turn /\ conv'.items = {}
    BY <1>9 DEF R!ReasoningItem, R!Read, R!Flush, ItemsConv
  <2>2. NoneAfter(flushed, turn)
    BY <1>1, <1>3 DEF NoneAfter
  <2> HIDE DEF flushed, turn
  <2> QED
    BY <1>1, <1>4, <2>1, <2>2
<1>10. CASE R!Refuse
  BY <1>10 DEF R!Refuse, ItemsInv
<1> QED
  BY <1>5, <1>6, <1>7, <1>8, <1>9, <1>10 DEF R!ReadItem

LEMMA ItemsInvImplies ==
  ASSUME conv \in ItemsConv, ItemsInv
  PROVE  R!CallsPrecedeOutputs
BY FlushedCallsFirst DEF CallsFirst, R!CallsPrecedeOutputs

-----------------------------------------------------------------------------
(* The conversion of a Messages history                                    *)

\* The call with this id, of this turn, may still be answered: it was made, and
\* nothing but results and other parts of its turn came after it.
Offered(out, id, turn) ==
  \E j \in 1 .. Len(out) :
    /\ out[j].role = "assistant" /\ id \in out[j].calls /\ out[j].turns = {turn}
    /\ \A k \in j + 1 .. Len(out) : out[k].role \in {"assistant", "tool"}

\* Every message is of one turn, none later than this one, and the results
\* stand where they belong.
Listed(out, turn) ==
  /\ \A i \in 1 .. Len(out) : \E t \in 1 .. turn : out[i].turns = {t}
  /\ AnswersTurn(out) /\ AnswersOnce(out)

\* The results of this turn answer calls of ids.
Given(out, turn, ids) ==
  \A i \in 1 .. Len(out) :
    out[i].role = "tool" /\ out[i].turns = {turn} => out[i].answers \in ids

LEMMA Appended ==
  ASSUME NEW S, NEW out \in Seq(S), NEW m \in S
  PROVE  /\ Append(out, m) \in Seq(S)
         /\ Len(Append(out, m)) = Len(out) + 1 /\ Len(out) \in Nat
         /\ Append(out, m)[Len(out) + 1] = m
         /\ \A i \in 1 .. Len(out) : Append(out, m)[i] = out[i]
         /\ \A i \in 1 .. Len(out) + 1 : i \in 1 .. Len(out) \/ i = Len(out) + 1
OBVIOUS

LEMMA OfferedKept ==
  ASSUME NEW out \in Seq(Message), NEW m \in Message, m.role \in {"assistant", "tool"},
         NEW id, NEW turn, Offered(out, id, turn)
  PROVE  Offered(Append(out, m), id, turn)
<1> DEFINE new == Append(out, m)
<1>1. /\ Len(new) = Len(out) + 1 /\ Len(out) \in Nat
      /\ new[Len(out) + 1] = m
      /\ \A i \in 1 .. Len(out) : new[i] = out[i]
  BY Appended
<1> HIDE DEF new
<1>2. PICK j \in 1 .. Len(out) :
        /\ out[j].role = "assistant" /\ id \in out[j].calls /\ out[j].turns = {turn}
        /\ \A k \in j + 1 .. Len(out) : out[k].role \in {"assistant", "tool"}
  BY DEF Offered
<1>3. ASSUME NEW k \in j + 1 .. Len(new)
      PROVE  new[k].role \in {"assistant", "tool"}
  <2>1. CASE k = Len(out) + 1
    BY <1>1, <2>1
  <2>2. CASE k # Len(out) + 1
    <3>1. k \in j + 1 .. Len(out) /\ k \in 1 .. Len(out)
      BY <1>1, <2>2
    <3> QED
      BY <1>1, <1>2, <3>1
  <2> QED
    BY <2>1, <2>2
<1>4. j \in 1 .. Len(new) /\ new[j] = out[j]
  BY <1>1
<1> QED
  BY <1>2, <1>3, <1>4 DEF Offered, new

LEMMA OfferedNow ==
  ASSUME NEW out \in Seq(Message), NEW m \in Message, m.role = "assistant",
         NEW turn, m.turns = {turn}, NEW id \in m.calls
  PROVE  Offered(Append(out, m), id, turn)
<1> DEFINE new == Append(out, m)
<1>1. Len(new) = Len(out) + 1 /\ Len(out) \in Nat /\ new[Len(out) + 1] = m
  BY Appended
<1> HIDE DEF new
<1>2. Len(out) + 1 \in 1 .. Len(new) /\ Len(out) + 1 + 1 .. Len(new) = {}
  BY <1>1
<1> QED
  BY <1>1, <1>2 DEF Offered, new

\* A message that is no result.
LEMMA ListedOther ==
  ASSUME NEW out \in Seq(Message), NEW turn \in Nat, Listed(out, turn),
         NEW bound \in Nat \ {0}, turn <= bound,
         NEW m \in Message, m.role # "tool", m.turns = {bound}
  PROVE  /\ Listed(Append(out, m), bound)
         /\ \A t, ids : Given(out, t, ids) => Given(Append(out, m), t, ids)
<1> DEFINE new == Append(out, m)
<1>1. /\ Len(new) = Len(out) + 1 /\ Len(out) \in Nat
      /\ new[Len(out) + 1] = m
      /\ \A i \in 1 .. Len(out) : new[i] = out[i]
      /\ \A i \in 1 .. Len(out) + 1 : i \in 1 .. Len(out) \/ i = Len(out) + 1
  BY Appended
<1> HIDE DEF new
<1>2. \A i \in 1 .. Len(new) : new[i].role = "tool" => i \in 1 .. Len(out) /\ new[i] = out[i]
  BY <1>1
<1>3. \A i \in 1 .. Len(new) : \E t \in 1 .. bound : new[i].turns = {t}
  <2> TAKE i \in 1 .. Len(new)
  <2>1. CASE i = Len(out) + 1
    BY <1>1, <2>1
  <2>2. CASE i \in 1 .. Len(out)
    <3>1. PICK t \in 1 .. turn : out[i].turns = {t}
      BY <2>2 DEF Listed
    <3>2. t \in 1 .. bound
      OBVIOUS
    <3> QED
      BY <1>1, <2>2, <3>1, <3>2
  <2> QED
    BY <1>1, <2>1, <2>2
<1>4. AnswersTurn(new)
  <2> SUFFICES ASSUME NEW i \in 1 .. Len(new), new[i].role = "tool"
               PROVE  \E j \in 1 .. i - 1 :
                        /\ MadeAt(new, i, j)
                        /\ \A k \in j + 1 .. i - 1 : new[k].role \in {"assistant", "tool"}
                        /\ \A s \in new[j].turns, t \in new[i].turns : t \in {s, s + 1}
    BY DEF AnswersTurn
  <2>1. i \in 1 .. Len(out) /\ new[i] = out[i]
    BY <1>2
  <2>2. PICK j \in 1 .. i - 1 :
          /\ MadeAt(out, i, j)
          /\ \A k \in j + 1 .. i - 1 : out[k].role \in {"assistant", "tool"}
          /\ \A s \in out[j].turns, t \in out[i].turns : t \in {s, s + 1}
    BY <2>1 DEF Listed, AnswersTurn
  <2>3. /\ new[j] = out[j]
        /\ \A k \in j + 1 .. i - 1 : k \in 1 .. Len(out)
    BY <1>1, <2>1
  <2> QED
    BY <1>1, <2>1, <2>2, <2>3 DEF MadeAt
<1>5. AnswersOnce(new)
  BY <1>2 DEF Listed, AnswersOnce
<1>6. \A t, ids : Given(out, t, ids) => Given(new, t, ids)
  BY <1>2 DEF Given
<1> QED
  BY <1>3, <1>4, <1>5, <1>6 DEF Listed, new

\* A result of this turn, for a call that was made in it or in the one before
\* and has no result in it yet.
LEMMA ListedResult ==
  ASSUME NEW out \in Seq(Message), NEW turn \in Nat \ {0}, Listed(out, turn),
         NEW m \in Message, m.role = "tool", m.turns = {turn},
         NEW s \in Nat, turn = s \/ turn = s + 1, Offered(out, m.answers, s),
         NEW ids, Given(out, turn, ids), m.answers \notin ids
  PROVE  /\ Listed(Append(out, m), turn)
         /\ Given(Append(out, m), turn, ids \cup {m.answers})
<1> DEFINE new == Append(out, m)
           last == Len(out) + 1
<1>1. /\ Len(new) = last /\ Len(out) \in Nat
      /\ new[last] = m
      /\ \A i \in 1 .. Len(out) : new[i] = out[i]
      /\ \A i \in 1 .. last : i \in 1 .. Len(out) \/ i = last
  BY Appended
<1> HIDE DEF new
<1>2. \A i \in 1 .. Len(new) : \E t \in 1 .. turn : new[i].turns = {t}
  BY <1>1 DEF Listed
<1>3. AnswersTurn(new)
  <2> SUFFICES ASSUME NEW i \in 1 .. Len(new), new[i].role = "tool"
               PROVE  \E j \in 1 .. i - 1 :
                        /\ MadeAt(new, i, j)
                        /\ \A k \in j + 1 .. i - 1 : new[k].role \in {"assistant", "tool"}
                        /\ \A x \in new[j].turns, t \in new[i].turns : t \in {x, x + 1}
    BY DEF AnswersTurn
  <2>1. CASE i \in 1 .. Len(out)
    <3>1. PICK j \in 1 .. i - 1 :
            /\ MadeAt(out, i, j)
            /\ \A k \in j + 1 .. i - 1 : out[k].role \in {"assistant", "tool"}
            /\ \A x \in out[j].turns, t \in out[i].turns : t \in {x, x + 1}
      BY <1>1, <2>1 DEF Listed, AnswersTurn
    <3>2. /\ new[j] = out[j] /\ new[i] = out[i]
          /\ \A k \in j + 1 .. i - 1 : k \in 1 .. Len(out)
      BY <1>1, <2>1
    <3> QED
      BY <1>1, <2>1, <3>1, <3>2 DEF MadeAt
  <2>2. CASE i = last
    <3>1. PICK j \in 1 .. Len(out) :
            /\ out[j].role = "assistant" /\ m.answers \in out[j].calls /\ out[j].turns = {s}
            /\ \A k \in j + 1 .. Len(out) : out[k].role \in {"assistant", "tool"}
      BY DEF Offered
    <3>2. /\ j \in 1 .. i - 1 /\ new[j] = out[j] /\ new[i] = m
          /\ \A k \in j + 1 .. i - 1 : k \in j + 1 .. Len(out) /\ k \in 1 .. Len(out)
      BY <1>1, <2>2
    <3> QED
      BY <1>1, <3>1, <3>2 DEF MadeAt
  <2> QED
    BY <1>1, <2>1, <2>2
<1>4. \A i \in 1 .. Len(out) :
        ~(out[i].role = "tool" /\ out[i].turns = {turn} /\ out[i].answers = m.answers)
  BY DEF Given
<1>5. AnswersOnce(new)
  <2> SUFFICES ASSUME NEW i \in 1 .. Len(new), NEW j \in 1 .. Len(new),
                      new[i].role = "tool", new[j].role = "tool",
                      new[i].turns = new[j].turns, new[i].answers = new[j].answers
               PROVE  i = j
    BY DEF AnswersOnce
  <2>1. CASE i \in 1 .. Len(out) /\ j \in 1 .. Len(out)
    BY <1>1, <2>1 DEF Listed, AnswersOnce
  <2>2. CASE i = last /\ j = last
    BY <2>2
  <2>3. CASE i = last /\ j \in 1 .. Len(out)
    BY <1>1, <1>4, <2>3
  <2>4. CASE i \in 1 .. Len(out) /\ j = last
    BY <1>1, <1>4, <2>4
  <2> QED
    BY <1>1, <2>1, <2>2, <2>3, <2>4
<1>6. Given(new, turn, ids \cup {m.answers})
  BY <1>1 DEF Given
<1> QED
  BY <1>2, <1>3, <1>5, <1>6 DEF Listed, new

LEMMA NextTurn ==
  ASSUME NEW out, NEW turn \in Nat, Listed(out, turn)
  PROVE  Listed(out, turn + 1) /\ Given(out, turn + 1, {})
<1>1. ASSUME NEW i \in 1 .. Len(out)
      PROVE  \E t \in 1 .. turn + 1 : out[i].turns = {t} /\ t # turn + 1
  <2>1. PICK t \in 1 .. turn : out[i].turns = {t}
    BY DEF Listed
  <2>2. t \in 1 .. turn + 1 /\ t # turn + 1
    OBVIOUS
  <2> QED
    BY <2>1, <2>2
<1>2. \A i \in 1 .. Len(out) : out[i].turns # {turn + 1}
  BY <1>1
<1> QED
  BY <1>1, <1>2 DEF Listed, Given

\* What the conversion knows of a history that it has read so far: which calls
\* are open to results, in the message that is being read and before it.
Claims ==
  /\ conv.open = "assistant" =>
       /\ \A id \in conv.pending :
            id \in conv.segment.calls \/ Offered(conv.out, id, conv.turn)
       /\ \A id \in conv.asked : id \in conv.servers \/ Offered(conv.out, id, conv.turn)
  /\ conv.open = "none" => \A id \in conv.pending : Offered(conv.out, id, conv.turn)
  /\ conv.open = "user" => \A id \in conv.pending : Offered(conv.out, id, conv.turn - 1)

MessagesInv ==
  /\ Listed(conv.out, conv.turn)
  /\ conv.open # "none" => conv.turn > 0
  /\ conv.open = "assistant" => Given(conv.out, conv.turn, conv.found)
  /\ conv.open = "user" => Given(conv.out, conv.turn, conv.seen)
  /\ Claims

LEMMA FlushesAreListed ==
  ASSUME conv \in MessagesConv, conv.turn > 0, NEW out \in Seq(Message), Listed(out, conv.turn)
  PROVE  /\ LET new == M!FlushSegment(out)
            IN  /\ Listed(new, conv.turn)
                /\ \A t, ids : Given(out, t, ids) => Given(new, t, ids)
                /\ \A id, t : Offered(out, id, t) => Offered(new, id, t)
                /\ \A id \in conv.segment.calls : Offered(new, id, conv.turn)
         /\ LET new == M!FlushServerCalls(out)
            IN  /\ Listed(new, conv.turn)
                /\ \A t, ids : Given(out, t, ids) => Given(new, t, ids)
                /\ \A id, t : Offered(out, id, t) => Offered(new, id, t)
                /\ \A id \in conv.servers : Offered(new, id, conv.turn)
<1> DEFINE a == [M!Turn("assistant", conv.segment.content) EXCEPT
                   !.calls = conv.segment.calls,
                   !.reasoning = IF conv.segment.reasoning THEN "client" ELSE "none"]
           b == [M!Turn("assistant", "empty") EXCEPT !.calls = conv.servers]
<1>1. /\ a \in Message /\ a.role = "assistant" /\ a.turns = {conv.turn}
      /\ a.calls = conv.segment.calls
  <2>1. /\ {conv.turn} \in SUBSET Nat /\ conv.segment.content \in Contents
        /\ conv.segment.calls \in SUBSET Id
    BY DEF MessagesConv
  <2>2. a = Calling({conv.turn}, conv.segment.content, conv.segment.calls,
                    IF conv.segment.reasoning THEN "client" ELSE "none")
    BY DEF M!Turn, M!Wire, Calling, Wire
  <2> HIDE DEF a
  <2> QED
    BY <2>1, <2>2, CallingIsMessage
<1>2. b \in Message /\ b.role = "assistant" /\ b.turns = {conv.turn} /\ b.calls = conv.servers
  <2> DEFINE w == Wire("assistant", {conv.turn}, "empty")
  <2>1. b = [w EXCEPT !.calls = conv.servers]
    BY DEF M!Turn, M!Wire, Wire
  <2>2. w \in Message /\ w.role = "assistant" /\ w.turns = {conv.turn}
    BY DEF Wire, Message, MessagesConv
  <2>3. conv.servers \in SUBSET Id
    BY DEF MessagesConv
  <2> HIDE DEF b, w
  <2> QED
    BY <2>1, <2>2, <2>3 DEF Message
<1>3. /\ M!FlushSegment(out) = IF conv.segment = M!NoSegment THEN out ELSE Append(out, a)
      /\ M!FlushServerCalls(out) = IF conv.servers = {} THEN out ELSE Append(out, b)
      /\ conv.segment = M!NoSegment => conv.segment.calls = {}
  BY DEF M!FlushSegment, M!FlushServerCalls, M!NoSegment
<1> HIDE DEF a, b
<1>4. conv.turn \in Nat \ {0} /\ conv.turn \in Nat /\ conv.turn <= conv.turn
  BY DEF MessagesConv
<1>5. ASSUME NEW m \in Message, m.role = "assistant", m.turns = {conv.turn}
      PROVE  /\ Listed(Append(out, m), conv.turn)
             /\ \A t, ids : Given(out, t, ids) => Given(Append(out, m), t, ids)
             /\ \A id, t : Offered(out, id, t) => Offered(Append(out, m), id, t)
             /\ \A id \in m.calls : Offered(Append(out, m), id, conv.turn)
  BY <1>4, <1>5, ListedOther, OfferedKept, OfferedNow
<1> QED
  BY <1>1, <1>2, <1>3, <1>5

LEMMA MessagesKept ==
  ASSUME conv \in MessagesConv, MessagesInv,
         M!ReadText \/ M!ReadTools \/ M!Thinking \/ M!ReadSearch \/ M!ReadOther \/ M!Refuse
  PROVE  MessagesInv'
<1> DEFINE out == conv.out
           turn == conv.turn
<1>1. /\ out \in Seq(Message) /\ turn \in Nat /\ turn + 1 \in Nat \ {0} /\ turn <= turn + 1
      /\ Listed(out, turn) /\ Listed(out, turn + 1) /\ Given(out, turn + 1, {})
  BY NextTurn DEF MessagesConv, MessagesInv
\* a message that is read as a whole
<1>2. ASSUME NEW m \in Message, m.role # "tool", m.turns = {turn + 1},
             conv'.out = Append(out, m), conv'.turn = turn + 1, conv'.pending = {},
             conv'.open = "none"
      PROVE  MessagesInv'
  <2>1. Listed(Append(out, m), turn + 1)
    BY <1>1, <1>2, ListedOther
  <2> HIDE DEF out, turn
  <2> QED
    BY <1>2, <2>1 DEF MessagesInv, Claims
\* a block that changes nothing the invariant speaks of
<1>3. ASSUME conv'.out = out, conv'.turn = turn, conv'.open = conv.open,
             conv'.pending = conv.pending, conv'.segment.calls = conv.segment.calls,
             conv'.servers = conv.servers, conv'.asked = conv.asked,
             conv'.found = conv.found, conv'.seen = conv.seen
      PROVE  MessagesInv'
  BY <1>3 DEF MessagesInv, Claims
<1>4. ASSUME NEW role \in {"user", "assistant"}, NEW blank, M!PlainString(role, blank)
      PROVE  MessagesInv'
  <2> DEFINE m == M!Wire(role, {turn + 1}, "string")
  <2>1. m \in Message /\ m.role # "tool" /\ m.turns = {turn + 1}
    BY <1>1 DEF M!Wire, Message
  <2>2. /\ conv'.out = Append(out, m) /\ conv'.turn = turn + 1 /\ conv'.pending = {}
        /\ conv'.open = "none"
    BY <1>4 DEF M!PlainString, M!Begins, M!Read, MessagesConv
  <2> HIDE DEF m
  <2> QED
    BY <1>2, <2>1, <2>2
<1>5. CASE M!System
  <2> DEFINE m == M!Wire("system", {turn + 1}, "string")
  <2>1. m \in Message /\ m.role # "tool" /\ m.turns = {turn + 1}
    BY <1>1 DEF M!Wire, Message
  <2>2. /\ conv'.out = Append(out, m) /\ conv'.turn = turn + 1 /\ conv'.pending = {}
        /\ conv'.open = "none"
    BY <1>5 DEF M!System, M!Begins, M!Read, MessagesConv
  <2> HIDE DEF m
  <2> QED
    BY <1>2, <2>1, <2>2
<1>6. CASE M!BeginAssistant
  <2>1. /\ conv'.out = out /\ conv'.turn = turn + 1 /\ conv'.open = "assistant"
        /\ conv'.pending = {} /\ conv'.asked = {} /\ conv'.found = {}
    BY <1>6 DEF M!BeginAssistant, M!Read, MessagesConv
  <2> HIDE DEF out, turn
  <2> QED
    BY <1>1, <2>1 DEF MessagesInv, Claims
<1>7. CASE M!BeginUser
  <2>1. /\ conv'.out = out /\ conv'.turn = turn + 1 /\ conv'.open = "user"
        /\ conv.open = "none" /\ conv'.pending = conv.pending /\ conv'.seen = {}
    BY <1>7 DEF M!BeginUser, M!Begins, M!Read, MessagesConv
  <2>2. conv'.turn - 1 = turn
    BY <1>1, <2>1
  <2>3. \A id \in conv.pending : Offered(out, id, turn)
    BY <2>1 DEF MessagesInv, Claims
  <2> HIDE DEF out, turn
  <2> QED
    BY <1>1, <2>1, <2>2, <2>3 DEF MessagesInv, Claims
<1>8. CASE M!AssistantText \/ M!Thinking \/ M!UserText \/ M!UserMedia \/ M!Refuse
  <2>1. /\ conv'.out = out /\ conv'.turn = turn /\ conv'.open = conv.open
        /\ conv'.pending = conv.pending /\ conv'.segment.calls = conv.segment.calls
        /\ conv'.servers = conv.servers /\ conv'.asked = conv.asked
        /\ conv'.found = conv.found /\ conv'.seen = conv.seen
    <3>1. CASE M!AssistantText
      BY <3>1 DEF M!AssistantText, M!Read, MessagesConv
    <3>2. CASE M!Thinking
      BY <3>2 DEF M!Thinking, M!Read, MessagesConv
    <3>3. CASE M!UserText
      BY <3>3 DEF M!UserText, M!Read, M!Human, MessagesConv
    <3>4. CASE M!UserMedia
      BY <3>4 DEF M!UserMedia, M!Read, M!Human, MessagesConv
    <3>5. CASE M!Refuse
      BY <3>5 DEF M!Refuse
    <3> QED
      BY <1>8, <3>1, <3>2, <3>3, <3>4, <3>5
  <2> QED
    BY <1>3, <2>1
<1>9. ASSUME NEW id \in Id, M!ToolUse(id)
      PROVE  MessagesInv'
  <2>1. /\ conv'.out = out /\ conv'.turn = turn /\ conv.open = "assistant"
        /\ conv'.open = "assistant" /\ conv'.pending = conv.pending \cup {id}
        /\ conv'.segment.calls = conv.segment.calls \cup {id}
        /\ conv'.servers = conv.servers /\ conv'.asked = conv.asked
        /\ conv'.found = conv.found
    BY <1>9 DEF M!ToolUse, M!InAssistant, M!Read, MessagesConv
  <2> QED
    BY <2>1 DEF MessagesInv, Claims
<1>10. ASSUME NEW id \in Id, M!ServerToolUse(id)
       PROVE  MessagesInv'
  <2> DEFINE new == M!FlushSegment(out)
  <2>1. /\ conv'.out = new /\ conv'.turn = turn /\ conv.open = "assistant"
        /\ conv'.open = "assistant" /\ conv'.pending = conv.pending
        /\ conv'.servers = conv.servers \cup {id} /\ conv'.asked = conv.asked \cup {id}
        /\ conv'.found = conv.found
    BY <1>10 DEF M!ServerToolUse, M!InAssistant, M!Read, MessagesConv
  <2>2. turn > 0
    BY <2>1 DEF MessagesInv
  <2>3. /\ Listed(new, turn)
        /\ \A t, ids : Given(out, t, ids) => Given(new, t, ids)
        /\ \A x, t : Offered(out, x, t) => Offered(new, x, t)
        /\ \A x \in conv.segment.calls : Offered(new, x, turn)
    BY <1>1, <2>2, FlushesAreListed
  <2> HIDE DEF new
  <2> QED
    BY <2>1, <2>2, <2>3 DEF MessagesInv, Claims
<1>11. ASSUME NEW id \in Id, M!SearchResult(id)
       PROVE  MessagesInv'
  <2> DEFINE new == M!FlushServerCalls(out)
             m == M!Answer(id, "string")
  <2>1. /\ conv'.out = Append(new, m) /\ conv'.turn = turn /\ conv.open = "assistant"
        /\ conv'.open = "assistant" /\ conv'.pending = conv.pending
        /\ conv'.segment.calls = conv.segment.calls
        /\ conv'.servers = {} /\ conv'.asked = conv.asked
        /\ conv'.found = conv.found \cup {id} /\ id \in conv.asked /\ id \notin conv.found
    BY <1>11 DEF M!SearchResult, M!InAssistant, M!Read, MessagesConv
  <2>2. turn > 0 /\ turn \in Nat \ {0}
    BY <1>1, <2>1 DEF MessagesInv
  <2>3. /\ Listed(new, turn) /\ new \in Seq(Message)
        /\ \A t, ids : Given(out, t, ids) => Given(new, t, ids)
        /\ \A x, t : Offered(out, x, t) => Offered(new, x, t)
        /\ \A x \in conv.servers : Offered(new, x, turn)
    BY <1>1, <2>2, FlushesAreListed, FlushesAreTyped
  <2>4. m \in Message /\ m.role = "tool" /\ m.turns = {turn} /\ m.answers = id
    BY DEF M!Answer, M!Turn, M!Wire, Message, MessagesConv
  <2> HIDE DEF new, m
  <2>5. \A x \in conv.asked : Offered(new, x, turn)
    BY <2>1, <2>3 DEF MessagesInv, Claims
  <2>6. Given(new, turn, conv.found)
    BY <2>1, <2>3 DEF MessagesInv
  <2>7. /\ Listed(Append(new, m), turn)
        /\ Given(Append(new, m), turn, conv.found \cup {id})
    BY <1>1, <2>1, <2>2, <2>3, <2>4, <2>5, <2>6, ListedResult
  <2>8. \A x : Offered(new, x, turn) => Offered(Append(new, m), x, turn)
    BY <2>3, <2>4, OfferedKept
  <2>9. \A x \in conv.pending : x \in conv.segment.calls \/ Offered(new, x, turn)
    BY <2>1, <2>3 DEF MessagesInv, Claims
  <2> HIDE DEF turn
  <2> QED
    BY <2>1, <2>2, <2>5, <2>7, <2>8, <2>9 DEF MessagesInv, Claims
<1>12. CASE M!EndAssistant
  <2> DEFINE new == M!FlushSegment(out)
             m == M!Turn("assistant", "empty")
  <2>1. /\ conv'.out = IF Len(new) = conv.start THEN Append(new, m) ELSE new
        /\ conv'.turn = turn /\ conv.open = "assistant"
        /\ conv'.open = "none" /\ conv'.pending = conv.pending
    BY <1>12 DEF M!EndAssistant, M!InAssistant, M!Read, MessagesConv
  <2>2. turn > 0 /\ turn \in Nat \ {0} /\ turn <= turn
    BY <1>1, <2>1 DEF MessagesInv
  <2>3. /\ Listed(new, turn) /\ new \in Seq(Message)
        /\ \A x, t : Offered(out, x, t) => Offered(new, x, t)
        /\ \A x \in conv.segment.calls : Offered(new, x, turn)
    BY <1>1, <2>2, FlushesAreListed, FlushesAreTyped
  <2>4. m \in Message /\ m.role = "assistant" /\ m.turns = {turn}
    BY DEF M!Turn, M!Wire, Message, MessagesConv
  <2> HIDE DEF new, m
  <2>5. \A x \in conv.pending : Offered(new, x, turn)
    BY <2>1, <2>3 DEF MessagesInv, Claims
  <2>6. /\ Listed(Append(new, m), turn)
        /\ \A x \in conv.pending : Offered(Append(new, m), x, turn)
    BY <1>1, <2>2, <2>3, <2>4, <2>5, ListedOther, OfferedKept
  <2> HIDE DEF turn
  <2> QED
    BY <2>1, <2>3, <2>5, <2>6 DEF MessagesInv, Claims
<1>13. ASSUME NEW id \in Id, M!ToolResult(id)
       PROVE  MessagesInv'
  <2> DEFINE m == M!Answer(id, "string")
  <2>1. /\ conv'.out = Append(out, m) /\ conv'.turn = turn /\ conv.open = "user"
        /\ conv'.open = "user" /\ conv'.pending = conv.pending
        /\ conv'.seen = conv.seen \cup {id} /\ id \in conv.pending /\ id \notin conv.seen
    BY <1>13 DEF M!ToolResult, M!InUser, M!Read, MessagesConv
  <2>2. turn \in Nat \ {0} /\ turn - 1 \in Nat /\ turn = turn - 1 + 1
    BY <1>1, <2>1 DEF MessagesInv
  <2>3. m \in Message /\ m.role = "tool" /\ m.turns = {turn} /\ m.answers = id
    BY DEF M!Answer, M!Turn, M!Wire, Message, MessagesConv
  <2> HIDE DEF m
  <2>4. /\ \A x \in conv.pending : Offered(out, x, turn - 1)
        /\ Given(out, turn, conv.seen)
    BY <2>1 DEF MessagesInv, Claims
  <2>5. /\ Listed(Append(out, m), turn)
        /\ Given(Append(out, m), turn, conv.seen \cup {id})
    BY <1>1, <2>1, <2>2, <2>3, <2>4, ListedResult
  <2>6. \A x \in conv.pending : Offered(Append(out, m), x, turn - 1)
    BY <1>1, <2>3, <2>4, OfferedKept
  <2>7. turn > 0
    BY <2>2
  <2> HIDE DEF turn, out
  <2> QED
    BY <2>1, <2>5, <2>6, <2>7 DEF MessagesInv, Claims
<1>14. CASE M!EndUser
  <2> DEFINE m == M!Turn("user", conv.ordinary)
  <2>1. /\ conv'.out = out \/ conv'.out = Append(out, m)
        /\ conv'.turn = turn /\ conv.open = "user"
        /\ conv'.open = "none" /\ conv'.pending = {}
    BY <1>14 DEF M!EndUser, M!InUser, M!Read, MessagesConv
  <2>2. turn \in Nat \ {0} /\ turn <= turn
    BY <1>1, <2>1 DEF MessagesInv
  <2>3. m \in Message /\ m.role = "user" /\ m.turns = {turn}
    BY DEF M!Turn, M!Wire, Message, MessagesConv, Contents
  <2> HIDE DEF m
  <2>4. Listed(Append(out, m), turn)
    BY <1>1, <2>2, <2>3, ListedOther
  <2> HIDE DEF out, turn
  <2> QED
    BY <1>1, <2>1, <2>4 DEF MessagesInv, Claims
<1> QED
  BY <1>4, <1>5, <1>6, <1>7, <1>8, <1>9, <1>10, <1>11, <1>12, <1>13, <1>14
     DEF M!ReadText, M!ReadTools, M!ReadSearch, M!ReadOther

-----------------------------------------------------------------------------
(* A conversation in a handler's hands                                     *)

LEMMA ShapeKeepsAnswers ==
  ASSUME NEW list, NEW new, Len(list) \in Nat, Shape(list, new),
         AnswersTurn(list), AnswersOnce(list)
  PROVE  AnswersTurn(new) /\ AnswersOnce(new)
<1>1. /\ Len(new) = Len(list)
      /\ \A i \in 1 .. Len(list) :
           /\ new[i].role = list[i].role /\ new[i].turns = list[i].turns
           /\ new[i].calls = list[i].calls /\ new[i].answers = list[i].answers
  BY DEF Shape, Alike
<1>2. AnswersTurn(new)
  <2> SUFFICES ASSUME NEW i \in 1 .. Len(list), list[i].role = "tool"
               PROVE  \E j \in 1 .. i - 1 :
                        /\ MadeAt(new, i, j)
                        /\ \A k \in j + 1 .. i - 1 : new[k].role \in {"assistant", "tool"}
                        /\ \A s \in new[j].turns, t \in new[i].turns : t \in {s, s + 1}
    BY <1>1 DEF AnswersTurn
  <2>1. PICK j \in 1 .. i - 1 :
          /\ MadeAt(list, i, j)
          /\ \A k \in j + 1 .. i - 1 : list[k].role \in {"assistant", "tool"}
          /\ \A s \in list[j].turns, t \in list[i].turns : t \in {s, s + 1}
    BY DEF AnswersTurn
  <2>2. j \in 1 .. Len(list) /\ \A k \in j + 1 .. i - 1 : k \in 1 .. Len(list)
    OBVIOUS
  <2> QED
    BY <1>1, <2>1, <2>2 DEF MadeAt
<1>3. AnswersOnce(new)
  BY <1>1 DEF AnswersOnce
<1> QED
  BY <1>2, <1>3

\* A system prompt moves every message by one, or by none.
LEMMA PromptKeepsAnswers ==
  ASSUME NEW prompt \in Seq(Message), \A i \in 1 .. Len(prompt) : prompt[i].role # "tool",
         NEW list \in Seq(Message), AnswersTurn(list), AnswersOnce(list)
  PROVE  AnswersTurn(prompt \o list) /\ AnswersOnce(prompt \o list)
<1> DEFINE new == prompt \o list
           n == Len(prompt)
<1>1. /\ n \in Nat /\ Len(list) \in Nat /\ Len(new) = n + Len(list)
      /\ \A i \in 1 .. n : new[i].role # "tool"
      /\ \A i \in 1 .. Len(list) : new[i + n] = list[i]
  OBVIOUS
<1> HIDE DEF new, n
<1>2. ASSUME NEW i \in 1 .. Len(new), new[i].role = "tool"
      PROVE  /\ i - n \in 1 .. Len(list)
             /\ new[i] = list[i - n]
  <2>1. ~(i \in 1 .. n)
    BY <1>1, <1>2
  <2>2. i - n \in 1 .. Len(list) /\ i - n + n = i
    BY <1>1, <2>1
  <2> QED
    BY <1>1, <2>2
<1>3. AnswersTurn(new)
  <2> SUFFICES ASSUME NEW i \in 1 .. Len(new), new[i].role = "tool"
               PROVE  \E j \in 1 .. i - 1 :
                        /\ MadeAt(new, i, j)
                        /\ \A k \in j + 1 .. i - 1 : new[k].role \in {"assistant", "tool"}
                        /\ \A s \in new[j].turns, t \in new[i].turns : t \in {s, s + 1}
    BY DEF AnswersTurn
  <2>1. i - n \in 1 .. Len(list) /\ new[i] = list[i - n]
    BY <1>2
  <2>2. PICK j \in 1 .. i - n - 1 :
          /\ MadeAt(list, i - n, j)
          /\ \A k \in j + 1 .. i - n - 1 : list[k].role \in {"assistant", "tool"}
          /\ \A s \in list[j].turns, t \in list[i - n].turns : t \in {s, s + 1}
    BY <2>1 DEF AnswersTurn
  <2>3. j \in 1 .. Len(list) /\ j + n \in 1 .. i - 1 /\ new[j + n] = list[j]
    BY <1>1, <2>1
  <2>4. ASSUME NEW k \in j + n + 1 .. i - 1
        PROVE  new[k].role \in {"assistant", "tool"}
    <3>1. /\ k - n \in 1 .. Len(list) /\ k - n \in j + 1 .. i - n - 1
          /\ k - n + n = k
      BY <1>1, <2>1
    <3>2. new[k] = list[k - n]
      BY <1>1, <3>1
    <3> QED
      BY <2>2, <3>1, <3>2
  <2>5. MadeAt(new, i, j + n)
    BY <2>1, <2>2, <2>3 DEF MadeAt
  <2> QED
    BY <2>1, <2>2, <2>3, <2>4, <2>5
<1>4. AnswersOnce(new)
  <2> SUFFICES ASSUME NEW i \in 1 .. Len(new), NEW j \in 1 .. Len(new),
                      new[i].role = "tool", new[j].role = "tool",
                      new[i].turns = new[j].turns, new[i].answers = new[j].answers
               PROVE  i = j
    BY DEF AnswersOnce
  <2>1. /\ i - n \in 1 .. Len(list) /\ new[i] = list[i - n]
        /\ j - n \in 1 .. Len(list) /\ new[j] = list[j - n]
    BY <1>2
  <2>2. i - n = j - n
    BY <2>1 DEF AnswersOnce
  <2> QED
    BY <1>1, <2>2
<1> QED
  BY <1>3, <1>4 DEF new

\* The invariants of the two conversions, and what the Messages frontend made of
\* the history it was given last.
PathIInv ==
  /\ TypeInv
  /\ frontend = "messages" => MessagesInv /\ AnswersTurn(body) /\ AnswersOnce(body)
  /\ frontend = "responses" => ItemsInv

LEMMA EmptyAnswers ==
  ASSUME NEW list, Len(list) = 0
  PROVE  AnswersTurn(list) /\ AnswersOnce(list)
BY DEF AnswersTurn, AnswersOnce

LEMMA PathIInvInit == Init => PathIInv
<1> SUFFICES ASSUME Init PROVE PathIInv
  OBVIOUS
<1>1. TypeInv /\ Len(body) = 0
  BY TypeInvInit DEF Init
<1>2. CASE frontend = "messages"
  <2>1. conv.out = <<>> /\ conv.turn = 0 /\ conv.open = "none" /\ conv.pending = {}
    BY <1>2 DEF Init, M!FreshConv
  <2>2. MessagesInv
    BY <2>1 DEF MessagesInv, Claims, Listed, AnswersTurn, AnswersOnce
  <2> QED
    BY <1>1, <1>2, <2>2, EmptyAnswers DEF PathIInv
<1>3. CASE frontend # "messages"
  <2>1. conv.out = <<>> /\ conv.turn = 0 /\ conv.calls = {} /\ conv.items = {}
    BY <1>3 DEF Init, R!FreshConv
  <2>2. ItemsInv
    BY <2>1 DEF ItemsInv, CallsFirst, NoneAfter
  <2> QED
    BY <1>1, <1>3, <2>2 DEF PathIInv
<1> QED
  BY <1>2, <1>3

LEMMA SubmittedAnswers ==
  ASSUME TypeInv, frontend = "messages", MessagesInv, Submit
  PROVE  AnswersTurn(body') /\ AnswersOnce(body')
<1>1. PICK stamp \in {1, 2} : body' = Normalized(SystemPrompt(stamp) \o conv.out)
  BY DEF Submit, History
<1> DEFINE prompt == SystemPrompt(stamp)
           out == conv.out
<1>2. /\ out \in Seq(Message) /\ AnswersTurn(out) /\ AnswersOnce(out)
  BY HistoryIsList DEF TypeInv, MessagesInv, Listed
<1>3. prompt \in Seq(Message) /\ \A i \in 1 .. Len(prompt) : prompt[i].role # "tool"
  <2>1. /\ prompt \in Seq(Message) /\ Len(prompt) \in {0, 1}
        /\ Len(prompt) = 1 => prompt[1] = [Wire("system", {}, "string") EXCEPT !.header = stamp]
    BY SystemPromptIsList
  <2>2. Len(prompt) = 1 => prompt[1].role # "tool"
    BY <2>1 DEF Wire
  <2> HIDE DEF prompt
  <2> QED
    BY <2>1, <2>2
<1> HIDE DEF prompt, out
<1>4. /\ prompt \o out \in Seq(Message) /\ Len(prompt \o out) \in Nat
      /\ AnswersTurn(prompt \o out) /\ AnswersOnce(prompt \o out)
  BY <1>2, <1>3, PromptKeepsAnswers
<1>5. Shape(prompt \o out, Normalized(prompt \o out))
  BY <1>4, NormalizedShape
<1> QED
  BY <1>1, <1>4, <1>5, ShapeKeepsAnswers DEF prompt, out

LEMMA PathIInvNext ==
  ASSUME PathIInv, [Next]_vars
  PROVE  PathIInv'
<1>1. TypeInv'
  BY TypeInvNext DEF PathIInv
<1>2. frontend' = frontend
  BY DEF frontend, Next, vars, ReadHistory, Submit, ClearEpoch, BeginRestore,
         RestoreMessage, EndRestore, Forget, Prepare, GuardPasses, GuardCounts,
         RefuseRequest, SendFails, SendChat, StreamedAnswer, WholeAnswer, ResponsesAnswer,
         RelayedAnswer, Leave
<1>3. /\ frontend = "messages" => MessagesInv'
      /\ frontend = "responses" => ItemsInv'
  <2>1. CASE ReadHistory
    <3>1. CASE frontend = "messages"
      <4>1. /\ conv \in MessagesConv /\ MessagesInv
            /\ M!ReadText \/ M!ReadTools \/ M!Thinking \/ M!ReadSearch \/ M!ReadOther
                 \/ M!Refuse
        BY <2>1, <3>1 DEF ReadHistory, PathIInv, TypeInv, ConvTyped
      <4> QED
        BY <3>1, <4>1, MessagesKept
    <3>2. CASE frontend = "responses"
      <4>1. conv \in ItemsConv /\ ItemsInv /\ R!ReadItem
        BY <2>1, <3>2 DEF ReadHistory, PathIInv, TypeInv, ConvTyped
      <4> QED
        BY <3>2, <4>1, ItemsKept
    <3> QED
      BY <3>1, <3>2
  <2>2. CASE conv' = conv
    BY <2>2 DEF PathIInv, MessagesInv, Claims, ItemsInv
  <2> QED
    BY <2>1, <2>2
       DEF Next, vars, Submit, ClearEpoch, BeginRestore, RestoreMessage, EndRestore, Forget,
           Prepare, GuardPasses, GuardCounts, RefuseRequest, SendFails, SendChat,
           StreamedAnswer, WholeAnswer, ResponsesAnswer, RelayedAnswer, Leave
<1>4. frontend = "messages" => AnswersTurn(body') /\ AnswersOnce(body')
  <2> SUFFICES ASSUME frontend = "messages"
               PROVE  AnswersTurn(body') /\ AnswersOnce(body')
    OBVIOUS
  <2>1. /\ body \in Seq(Message) /\ Len(body) \in Nat
        /\ AnswersTurn(body) /\ AnswersOnce(body)
    BY DEF PathIInv, TypeInv, TypeOK
  <2>2. CASE Submit
    BY <2>2, SubmittedAnswers DEF PathIInv
  <2>3. CASE RestoreMessage
    <3>1. body' = [body EXCEPT ![at] = Restored(@, held)] /\ at \in 1 .. Len(body)
      BY <2>3, BoundaryIsNewest DEF RestoreMessage, PathIInv, TypeInv, TypeOK, Restores
    <3>2. Shape(body, body')
      BY <2>1, <3>1, RestoredShape
    <3> QED
      BY <2>1, <3>2, ShapeKeepsAnswers
  <2>4. CASE body' = Prepared(body, Glm)
    BY <2>1, <2>4, PreparedShape, ShapeKeepsAnswers
  <2>5. CASE body' = <<>>
    BY <2>5, EmptyAnswers
  <2>6. CASE body' = body
    BY <2>1, <2>6
  <2>7. body' = Prepared(body, Glm) \/ body' = <<>> \/ body' = body
          \/ Submit \/ RestoreMessage
    BY DEF Next, vars, ReadHistory, ClearEpoch, BeginRestore, EndRestore, Forget,
           Prepare, GuardPasses, GuardCounts, RefuseRequest, Done, SendFails, SendChat,
           StreamedAnswer, WholeAnswer, ResponsesAnswer, RelayedAnswer, Leave
  <2> QED
    BY <2>2, <2>3, <2>4, <2>5, <2>6, <2>7
<1> QED
  BY <1>1, <1>2, <1>3, <1>4 DEF PathIInv

\* What the handlers of src/src/server.rs hold from the request's arrival until
\* it is sent is a conversation the upstream can take: the results that
\* convert_user_blocks and convert_assistant_blocks let through answer calls of
\* the turn before or of their own, once each, and neither the normalisation of
\* system messages nor restore_into nor optimize_typed changes that; for the
\* Responses frontend, whose collection of parallel calls may cross other items,
\* no result overtakes a call.
THEOREM PathIsConversation == Spec => []PathInv
<1>1. Init => PathIInv
  BY PathIInvInit
<1>2. PathIInv /\ [Next]_vars => PathIInv'
  BY PathIInvNext
<1>3. PathIInv => PathInv
  <2> SUFFICES ASSUME PathIInv PROVE PathInv
    OBVIOUS
  <2>1. frontend = "responses" => R!CallsPrecedeOutputs
    BY ItemsInvImplies DEF PathIInv, TypeInv, ConvTyped
  <2> QED
    BY <2>1 DEF PathIInv, TypeInv, PathInv, AnswersFollowCalls
<1> QED
  BY <1>1, <1>2, <1>3, PTL DEF Spec

-----------------------------------------------------------------------------
(* A conversion only adds messages                                         *)

\* The new list begins with the old one.
Grows(old, new) == Len(old) <= Len(new) /\ \A i \in 1 .. Len(old) : new[i] = old[i]

LEMMA AppendGrows ==
  ASSUME NEW list \in Seq(Message), NEW m \in Message
  PROVE  Grows(list, Append(list, m))
BY DEF Grows

LEMMA GrowsIsTransitive ==
  ASSUME NEW a, NEW b, NEW c, Len(a) \in Nat, Len(b) \in Nat, Len(c) \in Nat,
         Grows(a, b), Grows(b, c)
  PROVE  Grows(a, c)
BY DEF Grows

\* Every message that is read makes none, or adds one to what its segment and
\* its searches leave.
LEMMA MessagesAppend ==
  ASSUME conv \in MessagesConv,
         M!ReadText \/ M!ReadTools \/ M!Thinking \/ M!ReadSearch \/ M!ReadOther \/ M!Refuse
  PROVE  \E out \in {conv.out, M!FlushSegment(conv.out), M!FlushServerCalls(conv.out)} :
           conv'.out = out \/ \E m \in Message : conv'.out = Append(out, m)
<1>1. ASSUME NEW role \in {"user", "assistant"}, NEW blank, M!PlainString(role, blank)
      PROVE  \E m \in Message : conv'.out = Append(conv.out, m)
  <2>1. M!Wire(role, {conv.turn + 1}, "string") \in Message
    BY DEF M!Wire, Message, MessagesConv
  <2> QED
    BY <1>1, <2>1 DEF M!PlainString, M!Read, MessagesConv
<1>2. CASE M!System
  <2>1. M!Wire("system", {conv.turn + 1}, "string") \in Message
    BY DEF M!Wire, Message, MessagesConv
  <2> QED
    BY <1>2, <2>1 DEF M!System, M!Read, MessagesConv
<1>3. CASE M!BeginAssistant \/ M!BeginUser \/ M!AssistantText \/ M!Thinking \/ M!UserText
           \/ M!UserMedia \/ M!Refuse \/ \E id \in Id : M!ToolUse(id)
  <2>1. conv'.out = conv.out
    BY <1>3 DEF M!BeginAssistant, M!AssistantText, M!BeginUser, M!UserText, M!Thinking,
                M!UserMedia, M!Refuse, M!ToolUse, M!Read, M!Human, MessagesConv
  <2> QED
    BY <2>1
<1>4. ASSUME NEW id \in Id, M!ServerToolUse(id)
      PROVE  conv'.out = M!FlushSegment(conv.out)
  BY <1>4 DEF M!ServerToolUse, M!Read, MessagesConv
<1>5. ASSUME NEW id \in Id, M!SearchResult(id)
      PROVE  \E m \in Message : conv'.out = Append(M!FlushServerCalls(conv.out), m)
  <2>1. M!Answer(id, "string") \in Message
    BY DEF M!Answer, M!Turn, M!Wire, Message, MessagesConv
  <2> QED
    BY <1>5, <2>1 DEF M!SearchResult, M!Read, MessagesConv
<1>6. CASE M!EndAssistant
  <2> DEFINE out == M!FlushSegment(conv.out)
             m == M!Turn("assistant", "empty")
  <2>1. m \in Message
    BY DEF M!Turn, M!Wire, Message, MessagesConv
  <2>2. conv'.out = IF Len(out) = conv.start THEN Append(out, m) ELSE out
    BY <1>6 DEF M!EndAssistant, M!Read, MessagesConv
  <2> HIDE DEF out, m
  <2>3. conv'.out = out \/ conv'.out = Append(out, m)
    BY <2>2
  <2> QED
    BY <2>1, <2>3 DEF out
<1>7. ASSUME NEW id \in Id, M!ToolResult(id)
      PROVE  \E m \in Message : conv'.out = Append(conv.out, m)
  <2>1. M!Answer(id, "string") \in Message
    BY DEF M!Answer, M!Turn, M!Wire, Message, MessagesConv
  <2> QED
    BY <1>7, <2>1 DEF M!ToolResult, M!Read, MessagesConv
<1>8. CASE M!EndUser
  <2> DEFINE m == M!Turn("user", conv.ordinary)
  <2>1. m \in Message
    BY DEF M!Turn, M!Wire, Message, MessagesConv, Contents
  <2>2. conv'.out = conv.out \/ conv'.out = Append(conv.out, m)
    BY <1>8 DEF M!EndUser, M!Read, MessagesConv
  <2> QED
    BY <2>1, <2>2
<1> QED
  BY <1>1, <1>2, <1>3, <1>4, <1>5, <1>6, <1>7, <1>8
     DEF M!ReadText, M!ReadTools, M!ReadSearch, M!ReadOther

LEMMA MessagesGrow ==
  ASSUME conv \in MessagesConv, conv' \in MessagesConv,
         M!ReadText \/ M!ReadTools \/ M!Thinking \/ M!ReadSearch \/ M!ReadOther \/ M!Refuse
  PROVE  Grows(conv.out, conv'.out)
<1>1. PICK out \in {conv.out, M!FlushSegment(conv.out), M!FlushServerCalls(conv.out)} :
        conv'.out = out \/ \E m \in Message : conv'.out = Append(out, m)
  BY MessagesAppend
<1>2. conv.out \in Seq(Message) /\ conv'.out \in Seq(Message)
  BY DEF MessagesConv
<1>3. out \in Seq(Message)
  BY <1>2, FlushesAreTyped
<1>4. Grows(conv.out, out)
  <2>1. out = conv.out \/ \E m : out = Append(conv.out, m)
    BY DEF M!FlushSegment, M!FlushServerCalls
  <2>2. ASSUME NEW m, out = Append(conv.out, m)
        PROVE  Grows(conv.out, out)
    <3>1. /\ Len(out) = Len(conv.out) + 1 /\ Len(conv.out) \in Nat
          /\ \A i \in 1 .. Len(conv.out) : out[i] = conv.out[i]
      BY <1>2, <2>2
    <3> QED
      BY <3>1 DEF Grows
  <2> QED
    BY <1>2, <2>1, <2>2 DEF Grows
<1>5. Grows(out, conv'.out)
  BY <1>1, <1>3, AppendGrows DEF Grows
<1> QED
  BY <1>2, <1>3, <1>4, <1>5, GrowsIsTransitive

LEMMA FlushedGrows ==
  ASSUME conv \in ItemsConv
  PROVE  /\ R!Flushed(conv) \in Seq(Message) /\ Grows(conv.out, R!Flushed(conv))
         /\ conv.calls = {} => R!Flushed(conv) = conv.out
         /\ conv.calls # {} => R!Flushed(conv)[Len(R!Flushed(conv))].role = "assistant"
<1> DEFINE m == [R!Wire("assistant", conv.items, "null") EXCEPT !.calls = conv.calls]
<1>1. m \in Message /\ m.role = "assistant"
  BY DEF R!Wire, Message, ItemsConv
<1>2. conv.out \in Seq(Message)
  BY DEF ItemsConv
<1>3. R!Flushed(conv) = IF conv.calls = {} THEN conv.out ELSE Append(conv.out, m)
  BY DEF R!Flushed
<1> HIDE DEF m
<1> QED
  BY <1>1, <1>2, <1>3, AppendGrows DEF Grows

LEMMA ItemsGrow ==
  ASSUME conv \in ItemsConv, conv' \in ItemsConv,
         R!ReadItem \/ \E m \in Message : ChatMessage(m)
  PROVE  Grows(conv.out, conv'.out)
<1> DEFINE flushed == R!Flushed(conv)
<1>1. /\ flushed \in Seq(Message) /\ Grows(conv.out, flushed)
      /\ conv.out \in Seq(Message) /\ conv'.out \in Seq(Message)
      /\ R!Item \in SUBSET Nat
  BY FlushedGrows DEF ItemsConv, R!Item
<1>2. ASSUME NEW list \in {conv.out, flushed}, NEW m \in Message, conv'.out = Append(list, m)
      PROVE  Grows(conv.out, conv'.out)
  <2>1. Grows(list, conv'.out) /\ Grows(conv.out, list) /\ list \in Seq(Message)
    BY <1>1, <1>2, AppendGrows DEF Grows
  <2> HIDE DEF flushed
  <2> QED
    BY <1>1, <2>1, GrowsIsTransitive
<1>3. ASSUME NEW role \in {"system", "user", "assistant"}, R!MessageItem(role)
      PROVE  Grows(conv.out, conv'.out)
  <2>1. PICK content \in {"string", "null"} :
          R!Read([conv EXCEPT !.out = Append(@, R!Wire(role, R!Item, content))])
    BY <1>3 DEF R!MessageItem
  <2>2. R!Wire(role, R!Item, content) \in Message
    BY <1>1 DEF R!Wire, Message
  <2>3. conv'.out = Append(conv.out, R!Wire(role, R!Item, content))
    BY <2>1 DEF R!Read, ItemsConv
  <2> QED
    BY <1>2, <2>2, <2>3
<1>4. CASE R!Refuse \/ \E id \in Id : R!FunctionCall(id)
  <2>1. conv'.out = conv.out
    BY <1>4 DEF R!Refuse, R!FunctionCall, R!Read, ItemsConv
  <2> QED
    BY <1>1, <2>1 DEF Grows
<1>5. ASSUME NEW id \in Id, R!FunctionCallOutput(id)
      PROVE  Grows(conv.out, conv'.out)
  <2> DEFINE m == [R!Wire("tool", R!Item, "string") EXCEPT !.answers = id]
  <2>1. m \in Message
    BY <1>1 DEF R!Wire, Message
  <2>2. conv'.out = Append(flushed, m)
    BY <1>5 DEF R!FunctionCallOutput, R!Read, R!Flush, ItemsConv
  <2> QED
    BY <1>2, <2>1, <2>2
<1>6. ASSUME NEW id \in Id, R!WebSearchCall(id)
      PROVE  Grows(conv.out, conv'.out)
  <2> DEFINE call == [R!Wire("assistant", R!Item, "null") EXCEPT !.calls = {id}]
             m == [R!Wire("tool", R!Item, "string") EXCEPT !.answers = id]
  <2>1. call \in Message /\ m \in Message
    BY <1>1 DEF R!Wire, Message
  <2>2. conv'.out = flushed \o <<call, m>>
    BY <1>6 DEF R!WebSearchCall, R!Read, R!Flush, ItemsConv
  <2> HIDE DEF call, m, flushed
  <2>3. Grows(flushed, conv'.out)
    BY <1>1, <2>1, <2>2 DEF Grows
  <2> QED
    BY <1>1, <2>3, GrowsIsTransitive
<1>7. CASE R!ReasoningItem
  <2>1. conv'.out = flushed
    BY <1>7 DEF R!ReasoningItem, R!Read, R!Flush, ItemsConv
  <2> QED
    BY <1>1, <2>1
<1>8. ASSUME NEW n \in Message, ChatMessage(n)
      PROVE  Grows(conv.out, conv'.out)
  <2>1. [n EXCEPT !.turns = R!Item] \in Message
    BY <1>1 DEF Message
  <2>2. conv'.out = Append(conv.out, [n EXCEPT !.turns = R!Item])
    BY <1>8 DEF ChatMessage, R!Read, ItemsConv
  <2> QED
    BY <1>2, <2>1, <2>2
<1> QED
  BY <1>3, <1>4, <1>5, <1>6, <1>7, <1>8 DEF R!ReadItem

LEMMA HistoryGrows ==
  ASSUME ConvTyped, ReadHistory
  PROVE  Grows(conv.out, conv'.out)
<1>1. ConvTyped' /\ frontend' = frontend
  BY HistoryIsTyped DEF ReadHistory, frontend
<1>2. CASE frontend = "messages"
  <2>1. M!ReadText \/ M!ReadTools \/ M!Thinking \/ M!ReadSearch \/ M!ReadOther \/ M!Refuse
    BY <1>2 DEF ReadHistory
  <2> QED
    BY <1>1, <1>2, <2>1, MessagesGrow DEF ConvTyped
<1>3. CASE frontend # "messages"
  BY <1>1, <1>3, OthersRead, ItemsGrow DEF ConvTyped
<1> QED
  BY <1>2, <1>3

-----------------------------------------------------------------------------
(* A prompt begins with the prompt before it                               *)

\* The messages that a request is made from, and those of them that no later
\* item of the client's changes: calls that wait may be joined by more.
Whole == IF frontend = "messages" THEN Normalized(SystemPrompt(1) \o conv.out) ELSE History
Base  == IF frontend = "messages" THEN Whole ELSE conv.out

\* What restore_into and, when it is done, the preparation make of messages.
MadeOf(list, from, done, glm) ==
  \A i \in 1 .. Len(list) :
    /\ Alike(list[i], from[i]) /\ list[i].header = from[i].header
    /\ list[i].content =
         IF done /\ glm /\ from[i].content \in {"empty", "one"}
         THEN "string" ELSE from[i].content
    /\ list[i].arguments =
         IF /\ done /\ from[i].role = "assistant" /\ i < LastFixed(list)
            /\ from[i].calls # {}
         THEN "canonical" ELSE from[i].arguments
    /\ i < EpochBoundary(list) =>
         list[i].reasoning =
           IF done /\ glm /\ from[i].role = "assistant" THEN "none" ELSE from[i].reasoning
    /\ i >= EpochBoundary(list) =>
         \/ list[i].reasoning = from[i].reasoning
         \/ /\ from[i].role = "assistant" /\ from[i].reasoning = "none"
            /\ list[i].reasoning = "restored"

\* Only what the shadow holds has been put back in the current epoch.
FromShadow(list, ids) ==
  \A i \in 1 .. Len(list) :
    i >= EpochBoundary(list) /\ list[i].reasoning = "restored" =>
      list[i].calls \cap ids # {}

InFlight == phase \in {"shadow", "restoring", "preparing", "guarding", "sending"}

BodyInv ==
  InFlight =>
    /\ Len(body) = Len(Whole) /\ MadeOf(body, Whole, Ready, Glm)
    /\ phase \in {"shadow", "restoring"} => Eligible
    /\ phase = "shadow" \/ ~Eligible => FromShadow(body, {})
    /\ request.intact => FromShadow(body, held)

\* A list that the model goes on from: not one that ends with an assistant.
Asks(list) == list # <<>> /\ list[Len(list)].role \in {"user", "tool"}

NoHumanSince == \A k \in Len(sent) + 1 .. Len(Base) : Base[k].role # "user"

SentInv ==
  Asks(sent) =>
    /\ Len(sent) <= Len(Base) /\ MadeOf(sent, Base, TRUE, Glm)
    /\ IF Eligible THEN PutBack(sent, held, Len(sent) + 1) ELSE FromShadow(sent, {})
    /\ intact /\ NoHumanSince => FromShadow(sent, held)

PrefixInv == EpochInv /\ BodyInv /\ SentInv /\ (intact => request.intact)

LEMMA PromptsAreAlike ==
  ASSUME NEW list \in Seq(Message), NEW stamp \in {1, 2}
  PROVE  Normalized(SystemPrompt(stamp) \o list) = Normalized(SystemPrompt(1) \o list)
<1> DEFINE w == Wire("system", {}, "string")
           a == [w EXCEPT !.header = stamp]
           b == [w EXCEPT !.header = 1]
<1>1. w \in Message /\ w.role = "system"
  BY DEF Wire, Message
<1>2. SystemPrompt(stamp) = IF "billing" \in client.sends THEN <<a>> ELSE <<>>
  BY DEF SystemPrompt
<1>3. SystemPrompt(1) = IF "billing" \in client.sends THEN <<b>> ELSE <<>>
  BY DEF SystemPrompt
<1> HIDE DEF w
<1>4. /\ a \in Message /\ b \in Message /\ a.role = "system" /\ b.role = "system"
      /\ [a EXCEPT !.header = 0] = [b EXCEPT !.header = 0]
  <2>1. \A h \in 0 .. 2 :
          LET m == [w EXCEPT !.header = h]
          IN  /\ m \in Message /\ m.role = "system"
              /\ [m EXCEPT !.header = 0] = [w EXCEPT !.header = 0]
    BY <1>1 DEF Message
  <2>2. stamp \in 0 .. 2 /\ 1 \in 0 .. 2
    OBVIOUS
  <2> QED
    BY <2>1, <2>2
<1> HIDE DEF a, b
<1>5. CASE "billing" \in client.sends
  <2> DEFINE p == <<a>> \o list
             q == <<b>> \o list
  <2>1. /\ Len(p) = Len(list) + 1 /\ Len(q) = Len(list) + 1 /\ Len(list) \in Nat
        /\ p[1] = a /\ q[1] = b
        /\ \A i \in 2 .. Len(list) + 1 : p[i] = list[i - 1] /\ q[i] = list[i - 1]
    BY <1>4
  <2> HIDE DEF p, q
  <2>2. \A i \in 1 .. Len(list) + 1 : i = 1 \/ i \in 2 .. Len(list) + 1
    BY <2>1
  <2>3. \A i \in 1 .. Len(p) :
          (IF p[i].role = "system" THEN [p[i] EXCEPT !.header = 0] ELSE p[i]) =
          (IF q[i].role = "system" THEN [q[i] EXCEPT !.header = 0] ELSE q[i])
    <3> SUFFICES ASSUME NEW i \in 1 .. Len(p)
                 PROVE  (IF p[i].role = "system" THEN [p[i] EXCEPT !.header = 0] ELSE p[i]) =
                        (IF q[i].role = "system" THEN [q[i] EXCEPT !.header = 0] ELSE q[i])
      OBVIOUS
    <3>1. CASE i = 1
      BY <1>4, <2>1, <3>1
    <3>2. CASE i # 1
      <4>1. p[i] = q[i]
        BY <2>1, <2>2, <3>2
      <4> QED
        BY <4>1
    <3> QED
      BY <3>1, <3>2
  <2>4. Normalized(p) = Normalized(q)
    BY <2>1, <2>3 DEF Normalized
  <2> QED
    BY <1>2, <1>3, <1>5, <2>4 DEF p, q
<1>6. CASE "billing" \notin client.sends
  BY <1>2, <1>3, <1>6
<1> QED
  BY <1>5, <1>6

LEMMA SubmittedIsWhole ==
  ASSUME ConvTyped, Submit
  PROVE  body' = Whole
<1>1. PICK stamp \in {1, 2} :
        body' = IF frontend = "messages"
                THEN Normalized(SystemPrompt(stamp) \o History) ELSE History
  BY DEF Submit
<1>2. frontend = "messages" => History = conv.out /\ conv.out \in Seq(Message)
  BY HistoryIsList DEF History
<1> QED
  BY <1>1, <1>2, PromptsAreAlike DEF Whole

LEMMA WholeIsList ==
  ASSUME ConvTyped
  PROVE  /\ Whole \in Seq(Message) /\ Base \in Seq(Message) /\ Grows(Base, Whole)
         /\ Asks(Whole) => Base = Whole
<1>1. conv.out \in Seq(Message)
  BY HistoryIsList
<1>2. CASE frontend = "messages"
  <2>1. SystemPrompt(1) \o conv.out \in Seq(Message)
    BY <1>1, SystemPromptIsList
  <2>2. Whole \in Seq(Message) /\ Base = Whole
    BY <1>2, <2>1, NormalizedShape DEF Whole, Base
  <2> QED
    BY <2>2 DEF Grows
<1>3. CASE frontend = "responses"
  <2>1. Whole = R!Flushed(conv) /\ Base = conv.out /\ conv \in ItemsConv
    BY <1>3 DEF Whole, Base, History, ConvTyped
  <2> QED
    BY <1>1, <2>1, FlushedGrows DEF Asks
<1>4. CASE frontend \notin {"messages", "responses"}
  BY <1>1, <1>4 DEF Whole, Base, History, Grows
<1> QED
  BY <1>2, <1>3, <1>4

LEMMA BaseGrows ==
  ASSUME ConvTyped, ReadHistory
  PROVE  Grows(Base, Base') /\ Len(Base') \in Nat
<1>1. /\ Grows(conv.out, conv'.out) /\ conv.out \in Seq(Message) /\ conv'.out \in Seq(Message)
      /\ frontend' = frontend /\ SystemPrompt(1)' = SystemPrompt(1)
  <2>1. ConvTyped' /\ client' = client
    BY HistoryIsTyped DEF ReadHistory
  <2>2. conv'.out \in Seq(Message)
    BY <2>1 DEF ConvTyped, MessagesConv, ItemsConv
  <2> QED
    BY <2>1, <2>2, HistoryGrows, HistoryIsList DEF frontend, SystemPrompt
<1>2. CASE frontend = "messages"
  <2> DEFINE prompt == SystemPrompt(1)
             old == prompt \o conv.out
             new == prompt \o conv'.out
  <2>1. prompt \in Seq(Message)
    BY SystemPromptIsList
  <2>2. Base = Normalized(old) /\ Base' = Normalized(new)
    BY <1>1, <1>2 DEF Base, Whole, Normalized
  <2> HIDE DEF prompt
  <2>3. /\ Len(old) \in Nat /\ Len(new) \in Nat /\ Len(old) <= Len(new)
        /\ \A i \in 1 .. Len(old) : new[i] = old[i]
    BY <1>1, <2>1 DEF Grows
  <2> HIDE DEF old, new
  <2>4. Len(Normalized(old)) = Len(old) /\ Len(Normalized(new)) = Len(new)
    BY <2>3 DEF Normalized
  <2> QED
    BY <2>2, <2>3, <2>4 DEF Normalized, Grows
<1>3. CASE frontend # "messages"
  BY <1>1, <1>3 DEF Base
<1> QED
  BY <1>2, <1>3

LEMMA WholeIsMade ==
  ASSUME ConvTyped, Made(conv.out)
  PROVE  \A i \in 1 .. Len(Whole) : Whole[i].reasoning # "restored"
<1>1. conv.out \in Seq(Message) /\ History \in Seq(Message)
  BY HistoryIsList
<1>2. CASE frontend = "messages"
  <2> DEFINE prompt == SystemPrompt(1)
             list == prompt \o conv.out
  <2>1. /\ prompt \in Seq(Message) /\ Len(prompt) \in {0, 1}
        /\ Len(prompt) = 1 => prompt[1].reasoning # "restored"
    <3>1. [Wire("system", {}, "string") EXCEPT !.header = 1].reasoning # "restored"
      BY DEF Wire
    <3> QED
      BY <3>1, SystemPromptIsList
  <2> HIDE DEF prompt
  <2>2. /\ list \in Seq(Message) /\ Len(list) = Len(prompt) + Len(conv.out)
        /\ \A i \in 1 .. Len(list) :
             list[i] = IF i <= Len(prompt) THEN prompt[i] ELSE conv.out[i - Len(prompt)]
    BY <1>1, <2>1
  <2>3. \A i \in 1 .. Len(conv.out) : conv.out[i].reasoning # "restored"
    BY DEF Made, MadeOne
  <2> HIDE DEF list
  <2>4. ASSUME NEW i \in 1 .. Len(list)
        PROVE  list[i].reasoning # "restored"
    <3>1. CASE i <= Len(prompt)
      BY <2>1, <2>2, <3>1
    <3>2. CASE ~(i <= Len(prompt))
      <4>1. i - Len(prompt) \in 1 .. Len(conv.out)
        BY <1>1, <2>1, <2>2, <3>2
      <4> QED
        BY <2>2, <2>3, <3>2, <4>1
    <3> QED
      BY <3>1, <3>2
  <2>5. Whole = Normalized(list)
    BY <1>2 DEF Whole, list, prompt
  <2> QED
    BY <2>2, <2>4, <2>5, NormalizedShape DEF Shape
<1>3. CASE frontend # "messages"
  <2>1. Whole = History
    BY <1>3 DEF Whole
  <2>2. Made(History)
    BY <1>3, FlushedIsMade DEF ConvTyped, History
  <2> QED
    BY <2>1, <2>2 DEF Made, MadeOne
<1> QED
  BY <1>2, <1>3

LEMMA MadeOfItself ==
  ASSUME NEW list, NEW glm
  PROVE  MadeOf(list, list, FALSE, glm)
BY DEF MadeOf, Alike

LEMMA RestoreKeepsMade ==
  ASSUME NEW list \in Seq(Message), NEW from, NEW glm, MadeOf(list, from, FALSE, glm),
         NEW p \in 1 .. Len(list), p >= EpochBoundary(list)
  PROVE  LET new == [list EXCEPT ![p] = Restored(@, held)]
         IN  /\ Len(new) = Len(list) /\ MadeOf(new, from, FALSE, glm)
             /\ FromShadow(list, held) => FromShadow(new, held)
<1> DEFINE new == [list EXCEPT ![p] = Restored(@, held)]
<1>1. /\ Shape(list, new)
      /\ \A i \in 1 .. Len(list) :
           /\ new[i].reasoning =
                IF /\ i = p /\ list[i].role = "assistant"
                   /\ list[i].reasoning = "none" /\ list[i].calls \cap held # {}
                THEN "restored" ELSE list[i].reasoning
           /\ new[i].content = list[i].content
           /\ new[i].arguments = list[i].arguments
           /\ new[i].header = list[i].header
  BY RestoredShape
<1> HIDE DEF new
<1>2. /\ EpochBoundary(new) = EpochBoundary(list) /\ Len(new) = Len(list)
      /\ EpochBoundary(list) \in Nat
  BY <1>1, ShapeKeepsPositions, BoundaryIsNewest DEF Shape
<1>3. MadeOf(new, from, FALSE, glm)
  <2> SUFFICES ASSUME NEW i \in 1 .. Len(list)
               PROVE  /\ Alike(new[i], from[i]) /\ new[i].header = from[i].header
                      /\ new[i].content = from[i].content
                      /\ new[i].arguments = from[i].arguments
                      /\ i < EpochBoundary(list) => new[i].reasoning = from[i].reasoning
                      /\ i >= EpochBoundary(list) =>
                           \/ new[i].reasoning = from[i].reasoning
                           \/ /\ from[i].role = "assistant" /\ from[i].reasoning = "none"
                              /\ new[i].reasoning = "restored"
    BY <1>2 DEF MadeOf
  <2>1. /\ Alike(list[i], from[i]) /\ list[i].header = from[i].header
        /\ list[i].content = from[i].content /\ list[i].arguments = from[i].arguments
        /\ i < EpochBoundary(list) => list[i].reasoning = from[i].reasoning
        /\ i >= EpochBoundary(list) =>
             \/ list[i].reasoning = from[i].reasoning
             \/ /\ from[i].role = "assistant" /\ from[i].reasoning = "none"
                /\ list[i].reasoning = "restored"
    BY DEF MadeOf
  <2>2. Alike(new[i], from[i]) /\ list[i].role = from[i].role
    BY <1>1, <2>1 DEF Shape, Alike
  <2> QED
    BY <1>1, <1>2, <2>1, <2>2
<1>4. FromShadow(list, held) => FromShadow(new, held)
  BY <1>1, <1>2 DEF FromShadow, Shape, Alike
<1> QED
  BY <1>2, <1>3, <1>4 DEF new

LEMMA PreparedIsMade ==
  ASSUME NEW list \in Seq(Message), NEW from, NEW glm, MadeOf(list, from, FALSE, glm)
  PROVE  LET new == Prepared(list, glm)
         IN  /\ Len(new) = Len(list) /\ MadeOf(new, from, TRUE, glm)
             /\ \A ids : FromShadow(list, ids) => FromShadow(new, ids)
<1> DEFINE new == Prepared(list, glm)
<1>1. /\ Shape(list, new)
      /\ \A i \in 1 .. Len(list) :
           /\ new[i].reasoning =
                IF glm /\ list[i].role = "assistant" /\ i < EpochBoundary(list)
                THEN "none" ELSE list[i].reasoning
           /\ new[i].content =
                IF glm /\ list[i].content \in {"empty", "one"}
                THEN "string" ELSE list[i].content
           /\ new[i].arguments =
                IF /\ list[i].role = "assistant" /\ i < LastFixed(list)
                   /\ list[i].calls # {}
                THEN "canonical" ELSE list[i].arguments
           /\ new[i].header = list[i].header
  BY PreparedShape
<1> HIDE DEF new
<1>2. /\ EpochBoundary(new) = EpochBoundary(list) /\ Len(new) = Len(list)
      /\ LastFixed(new) = LastFixed(list) /\ EpochBoundary(list) \in Nat
  BY <1>1, ShapeKeepsPositions, BoundaryIsNewest DEF Shape
<1>3. MadeOf(new, from, TRUE, glm)
  <2> SUFFICES ASSUME NEW i \in 1 .. Len(list)
               PROVE  /\ Alike(new[i], from[i]) /\ new[i].header = from[i].header
                      /\ new[i].content =
                           IF glm /\ from[i].content \in {"empty", "one"}
                           THEN "string" ELSE from[i].content
                      /\ new[i].arguments =
                           IF /\ from[i].role = "assistant" /\ i < LastFixed(list)
                              /\ from[i].calls # {}
                           THEN "canonical" ELSE from[i].arguments
                      /\ i < EpochBoundary(list) =>
                           new[i].reasoning =
                             IF glm /\ from[i].role = "assistant"
                             THEN "none" ELSE from[i].reasoning
                      /\ i >= EpochBoundary(list) =>
                           \/ new[i].reasoning = from[i].reasoning
                           \/ /\ from[i].role = "assistant" /\ from[i].reasoning = "none"
                              /\ new[i].reasoning = "restored"
    BY <1>2 DEF MadeOf
  <2>1. /\ Alike(list[i], from[i]) /\ list[i].header = from[i].header
        /\ list[i].content = from[i].content /\ list[i].arguments = from[i].arguments
        /\ i < EpochBoundary(list) => list[i].reasoning = from[i].reasoning
        /\ i >= EpochBoundary(list) =>
             \/ list[i].reasoning = from[i].reasoning
             \/ /\ from[i].role = "assistant" /\ from[i].reasoning = "none"
                /\ list[i].reasoning = "restored"
    BY DEF MadeOf
  <2>2. Alike(new[i], from[i]) /\ list[i].role = from[i].role /\ list[i].calls = from[i].calls
    BY <1>1, <2>1 DEF Shape, Alike
  <2>3. i >= EpochBoundary(list) => new[i].reasoning = list[i].reasoning
    BY <1>1, <1>2
  <2> QED
    BY <1>1, <1>2, <2>1, <2>2, <2>3
<1>4. \A ids : FromShadow(list, ids) => FromShadow(new, ids)
  <2> SUFFICES ASSUME NEW ids, FromShadow(list, ids), NEW i \in 1 .. Len(list),
                      i >= EpochBoundary(list), new[i].reasoning = "restored"
               PROVE  new[i].calls \cap ids # {}
    BY <1>2 DEF FromShadow
  <2>1. list[i].reasoning = "restored" /\ new[i].calls = list[i].calls
    BY <1>1, <1>2 DEF Shape, Alike
  <2> QED
    BY <2>1 DEF FromShadow
<1> QED
  BY <1>2, <1>3, <1>4 DEF new

\* The client and its history stay as they are.
LEMMA Unmoved ==
  ASSUME UNCHANGED <<client, conv>>
  PROVE  /\ Whole' = Whole /\ Base' = Base /\ Glm' = Glm
         /\ Eligible' <=> Eligible
BY DEF Whole, Base, History, SystemPrompt, frontend, thinking, Glm, Eligible, Identified

LEMMA CallsAreUsed ==
  ASSUME ConvTyped
  PROVE  \A i \in 1 .. Len(Base) : Base[i].calls \subseteq Used
<1>1. /\ conv.out \in Seq(Message)
      /\ \A i \in 1 .. Len(conv.out) : conv.out[i].calls \subseteq Used
  BY HistoryIsList DEF Used
<1>2. CASE frontend = "messages"
  <2> DEFINE prompt == SystemPrompt(1)
             list == prompt \o conv.out
  <2>1. /\ prompt \in Seq(Message) /\ Len(prompt) \in {0, 1}
        /\ Len(prompt) = 1 => prompt[1].calls = {}
    <3>1. [Wire("system", {}, "string") EXCEPT !.header = 1].calls = {}
      BY DEF Wire
    <3> QED
      BY <3>1, SystemPromptIsList
  <2> HIDE DEF prompt
  <2>2. /\ list \in Seq(Message) /\ Len(list) = Len(prompt) + Len(conv.out)
        /\ \A i \in 1 .. Len(list) :
             list[i] = IF i <= Len(prompt) THEN prompt[i] ELSE conv.out[i - Len(prompt)]
    BY <1>1, <2>1
  <2> HIDE DEF list
  <2>3. ASSUME NEW i \in 1 .. Len(list)
        PROVE  list[i].calls \subseteq Used
    <3>1. CASE i <= Len(prompt)
      BY <2>1, <2>2, <3>1
    <3>2. CASE ~(i <= Len(prompt))
      <4>1. i - Len(prompt) \in 1 .. Len(conv.out)
        BY <1>1, <2>1, <2>2, <3>2
      <4> QED
        BY <1>1, <2>2, <3>2, <4>1
    <3> QED
      BY <3>1, <3>2
  <2>4. Base = Normalized(list)
    BY <1>2 DEF Base, Whole, list, prompt
  <2> QED
    BY <2>2, <2>3, <2>4, NormalizedShape DEF Shape, Alike
<1>3. CASE frontend # "messages"
  BY <1>1, <1>3 DEF Base
<1> QED
  BY <1>2, <1>3

\* What others take from the shadow and what answers add to it does not concern
\* the list that was sent, as long as nothing has left.
LEMMA HeldKeepsSent ==
  ASSUME TypeInv, SentInv, UNCHANGED <<client, conv, sent>>,
         held' \subseteq held \cup (Id \ Used), intact' => intact /\ held \subseteq held'
  PROVE  SentInv'
<1>1. /\ Whole' = Whole /\ Base' = Base /\ Glm' = Glm /\ sent' = sent
      /\ Eligible' <=> Eligible
  BY Unmoved
<1> SUFFICES ASSUME Asks(sent)
             PROVE  /\ Len(sent) <= Len(Base) /\ MadeOf(sent, Base, TRUE, Glm)
                    /\ IF Eligible THEN PutBack(sent, held', Len(sent) + 1)
                       ELSE FromShadow(sent, {})
                    /\ intact' /\ NoHumanSince => FromShadow(sent, held')
  BY <1>1 DEF SentInv, NoHumanSince
<1>2. /\ Len(sent) <= Len(Base) /\ MadeOf(sent, Base, TRUE, Glm)
      /\ IF Eligible THEN PutBack(sent, held, Len(sent) + 1) ELSE FromShadow(sent, {})
      /\ intact /\ NoHumanSince => FromShadow(sent, held)
  BY DEF SentInv
<1>3. \A i \in 1 .. Len(sent) : sent[i].calls \subseteq Used
  <2>1. Len(sent) \in Nat /\ Len(Base) \in Nat
    BY WholeIsList DEF TypeInv, TypeOK
  <2>2. \A i \in 1 .. Len(sent) : i \in 1 .. Len(Base) /\ sent[i].calls = Base[i].calls
    BY <1>2, <2>1 DEF MadeOf, Alike
  <2> QED
    BY <2>2, CallsAreUsed DEF TypeInv
<1>4. \A i \in 1 .. Len(sent) : sent[i].calls \cap held' \subseteq sent[i].calls \cap held
  BY <1>3
<1>5. PutBack(sent, held, Len(sent) + 1) => PutBack(sent, held', Len(sent) + 1)
  BY <1>4 DEF PutBack
<1>6. intact' /\ FromShadow(sent, held) => FromShadow(sent, held')
  BY DEF FromShadow
<1> QED
  BY <1>2, <1>5, <1>6

\* A request that starts an epoch drops what the shadow holds: nothing of it is
\* in the current epoch of the list that was sent.
LEMMA EpochKeepsSent ==
  ASSUME EpochInv, BodyInv, SentInv, ClearEpoch
  PROVE  SentInv'
<1>1. /\ Whole' = Whole /\ Base' = Base /\ Glm' = Glm /\ sent' = sent
      /\ Eligible' <=> Eligible
  BY Unmoved DEF ClearEpoch
<1>2. held' = {} /\ intact' = intact /\ StartsNewEpoch(body) /\ phase = "shadow"
  BY DEF ClearEpoch
<1> SUFFICES ASSUME Asks(sent)
             PROVE  /\ Len(sent) <= Len(Base) /\ MadeOf(sent, Base, TRUE, Glm)
                    /\ IF Eligible THEN PutBack(sent, {}, Len(sent) + 1)
                       ELSE FromShadow(sent, {})
                    /\ intact /\ NoHumanSince => FromShadow(sent, {})
  BY <1>1, <1>2 DEF SentInv, NoHumanSince
<1>3. /\ Len(sent) <= Len(Base) /\ MadeOf(sent, Base, TRUE, Glm)
      /\ ~Eligible => FromShadow(sent, {})
  BY DEF SentInv
<1>4. PutBack(sent, {}, Len(sent) + 1)
  BY DEF PutBack
<1>5. ASSUME NoHumanSince PROVE FromShadow(sent, {})
  <2> DEFINE n == Len(sent)
  <2>1. /\ sent \in Seq(Message) /\ body \in Seq(Message) /\ Len(body) = Len(Whole)
        /\ Whole \in Seq(Message) /\ Base \in Seq(Message)
        /\ Asks(Whole) => Base = Whole
    BY <1>2, WholeIsList DEF BodyInv, InFlight, EpochInv, TypeInv, TypeOK
  <2>2. Len(body) \in 1 .. Len(body) /\ body[Len(body)].role = "user"
    BY <1>2, <2>1 DEF StartsNewEpoch
  <2>3. Whole[Len(body)].role = "user"
    BY <1>2, <2>2 DEF BodyInv, InFlight, MadeOf, Alike
  <2>4. Base = Whole /\ Len(Base) = Len(body)
    BY <2>1, <2>2, <2>3 DEF Asks
  <2>5. n = Len(Base) /\ n \in 1 .. Len(sent)
    <3>1. n \in Nat /\ Len(Base) \in Nat
      BY <2>1
    <3>2. ~(n < Len(Base))
      <4>1. n < Len(Base) => Len(Base) \in n + 1 .. Len(Base)
        BY <3>1
      <4> QED
        BY <1>5, <2>3, <2>4, <4>1 DEF NoHumanSince
    <3> QED
      BY <1>3, <2>2, <2>4, <3>1, <3>2
  <2>6. sent[n].role = "user" /\ Base[n].role = "user" /\ Base[n].reasoning # "restored"
    <3>1. Base[n].role = "user"
      BY <2>3, <2>4, <2>5
    <3>2. Base[n].reasoning # "restored"
      BY <2>4, <2>5, WholeIsMade DEF EpochInv, TypeInv
    <3> QED
      BY <1>3, <2>5, <3>1, <3>2 DEF MadeOf, Alike
  <2>7. EpochBoundary(sent) >= n /\ EpochBoundary(sent) \in Nat
    BY <2>1, <2>5, <2>6, BoundaryIsNewest
  <2>8. sent[n].reasoning # "restored"
    BY <1>3, <2>5, <2>6, <2>7 DEF MadeOf
  <2>9. \A i \in 1 .. Len(sent) : i >= EpochBoundary(sent) => i = n
    BY <2>1, <2>5, <2>7
  <2> HIDE DEF n
  <2> QED
    BY <2>8, <2>9 DEF FromShadow
<1> QED
  BY <1>3, <1>4, <1>5

\* What an answer adds to the shadow are ids that are new.
LEMMA AnswersAreNew ==
  ASSUME StreamedAnswer \/ WholeAnswer \/ ResponsesAnswer \/ RelayedAnswer \/ Leave
  PROVE  /\ held' \subseteq held \cup (Id \ Used)
         /\ intact' => intact /\ held \subseteq held'
<1>1. ASSUME NEW ids, ids \subseteq held \cup (Id \ Used), Holds(ids)
      PROVE  /\ held' \subseteq held \cup (Id \ Used)
             /\ intact' => intact /\ held \subseteq held'
  BY <1>1 DEF Holds
<1>2. /\ \A calls \in Answers, reasoned \in BOOLEAN :
           Remembering(calls, reasoned) \subseteq held \cup (Id \ Used)
      /\ \A calls \in Answers : calls \subseteq Id \ Used
  BY DEF Answers, Remembering
<1>3. CASE StreamedAnswer
  <2>1. PICK calls \in Answers, reasoned \in BOOLEAN, ends \in BOOLEAN :
          Holds(IF Eligible /\ ends THEN Remembering(calls, reasoned) ELSE held)
    BY <1>3 DEF StreamedAnswer
  <2> QED
    BY <1>1, <1>2, <2>1
<1>4. CASE WholeAnswer
  <2>1. PICK calls \in Answers, reasoned \in BOOLEAN :
          Holds(IF Identified THEN Remembering(calls, reasoned) ELSE held)
    BY <1>4 DEF WholeAnswer
  <2> QED
    BY <1>1, <1>2, <2>1
<1>5. CASE ResponsesAnswer
  <2>1. PICK calls \in Answers, finish \in {"tool_calls", "other", "none"} :
          Holds(IF ~Identified \/ finish = "none" THEN held
                ELSE IF finish = "tool_calls" THEN held \cup calls ELSE {})
    BY <1>5 DEF ResponsesAnswer
  <2> QED
    BY <1>1, <1>2, <2>1
<1>6. CASE RelayedAnswer \/ Leave
  BY <1>6 DEF RelayedAnswer, Leave
<1> QED
  BY <1>3, <1>4, <1>5, <1>6

LEMMA SentIsKept ==
  ASSUME PrefixInv, [Next]_vars
  PROVE  SentInv'
<1>1. TypeInv /\ EpochInv /\ BodyInv /\ SentInv
  BY DEF PrefixInv, EpochInv
<1>2. CASE ReadHistory
  <2>1. /\ Grows(Base, Base') /\ Len(Base') \in Nat
        /\ UNCHANGED <<client, held, sent, intact>>
    BY <1>1, <1>2, BaseGrows DEF TypeInv, ReadHistory
  <2>2. /\ Base \in Seq(Message) /\ Len(Base) \in Nat /\ sent \in Seq(Message)
        /\ Len(sent) \in Nat
    BY <1>1, WholeIsList DEF TypeInv, TypeOK
  <2>3. Glm' = Glm /\ (Eligible' <=> Eligible)
    BY <2>1 DEF Glm, Eligible, Identified, frontend, thinking
  <2>4. ASSUME Asks(sent), Len(sent) <= Len(Base)
        PROVE  /\ Len(sent) <= Len(Base')
               /\ MadeOf(sent, Base, TRUE, Glm) => MadeOf(sent, Base', TRUE, Glm)
               /\ NoHumanSince' => NoHumanSince
    <3>1. /\ Len(sent) <= Len(Base')
          /\ \A i \in 1 .. Len(sent) : i \in 1 .. Len(Base) /\ Base'[i] = Base[i]
          /\ \A k \in Len(sent) + 1 .. Len(Base) :
               k \in Len(sent) + 1 .. Len(Base') /\ Base'[k] = Base[k]
      BY <2>1, <2>2, <2>4 DEF Grows
    <3>2. MadeOf(sent, Base, TRUE, Glm) => MadeOf(sent, Base', TRUE, Glm)
      BY <3>1 DEF MadeOf
    <3>3. NoHumanSince' => NoHumanSince
      BY <2>1, <3>1 DEF NoHumanSince
    <3> QED
      BY <3>1, <3>2, <3>3
  <2> QED
    BY <1>1, <2>1, <2>3, <2>4 DEF SentInv
<1>3. CASE ClearEpoch
  BY <1>1, <1>3, EpochKeepsSent
<1>4. CASE SendChat
  <2>1. /\ sent' = body /\ held' = held /\ intact' = request.intact
        /\ phase = "sending" /\ UNCHANGED <<client, conv>>
    BY <1>4 DEF SendChat
  <2>2. Base' = Base /\ Glm' = Glm /\ (Eligible' <=> Eligible)
    BY <2>1, Unmoved
  <2>3. /\ Len(body) = Len(Whole) /\ MadeOf(body, Whole, TRUE, Glm)
        /\ ~Eligible => FromShadow(body, {})
        /\ request.intact => FromShadow(body, held)
    BY <1>1, <2>1 DEF BodyInv, InFlight, Ready
  <2>4. Eligible => PutBack(body, held, Len(body) + 1)
    BY <1>1, <2>1 DEF EpochInv, Epochs, Ready
  <2>5. Asks(body) => Base = Whole
    <3>1. body \in Seq(Message) /\ Whole \in Seq(Message) /\ (Asks(Whole) => Base = Whole)
      BY <1>1, WholeIsList DEF TypeInv, TypeOK
    <3>2. Asks(body) => Len(body) \in 1 .. Len(body)
      BY <3>1 DEF Asks
    <3> QED
      BY <2>3, <3>1, <3>2 DEF Asks, MadeOf, Alike
  <2>6. Len(Whole) <= Len(Whole)
    <3>1. Whole \in Seq(Message)
      BY <1>1, WholeIsList DEF TypeInv
    <3> QED
      BY <3>1
  <2> QED
    BY <2>1, <2>2, <2>3, <2>4, <2>5, <2>6 DEF SentInv
<1>5. CASE Forget
  BY <1>1, <1>5, HeldKeepsSent DEF Forget
<1>6. CASE StreamedAnswer \/ WholeAnswer \/ ResponsesAnswer \/ RelayedAnswer \/ Leave
  <2>1. UNCHANGED <<client, conv, sent>>
    BY <1>6 DEF StreamedAnswer, WholeAnswer, ResponsesAnswer, RelayedAnswer, Leave
  <2> QED
    BY <1>1, <1>6, <2>1, AnswersAreNew, HeldKeepsSent
<1>7. CASE UNCHANGED <<client, conv, held, sent, intact>>
  BY <1>1, <1>7, HeldKeepsSent
<1> QED
  BY <1>2, <1>3, <1>4, <1>5, <1>6, <1>7
     DEF Next, vars, Submit, BeginRestore, RestoreMessage, EndRestore, Prepare, GuardPasses,
         GuardCounts, SendFails, RefuseRequest

\* The policy and the guard leave alone whether the shadow has kept its entries.
LEMMA RequestStays ==
  ASSUME TypeInv, Prepare \/ GuardPasses \/ GuardCounts
  PROVE  \/ Done /\ UNCHANGED <<client, conv, held, intact>>
         \/ /\ request'.intact = request.intact /\ UNCHANGED <<client, conv, held, intact>>
            /\ phase' \in {"guarding", "sending"}
            /\ Prepare => body' = Prepared(body, Glm)
            /\ ~Prepare => body' = body
<1>1. request \in Requests
  BY DEF TypeInv, TypeOK, Requests
<1>2. CASE Prepare
  <2>1. PICK effort \in AskedEfforts, budget \in Budget, bound \in AskedBounds :
          LET resolved == Resolves(effort, budget, bound)
          IN  IF resolved = "invalid" THEN RefuseRequest
              ELSE /\ body' = Prepared(body, Glm)
                   /\ request' = [request EXCEPT
                        !.effort = resolved,
                        !.output = IF Glm THEN EffectiveOutput(bound) ELSE bound]
                   /\ phase' = IF frontend = "messages" /\ Window > 0
                               THEN "guarding" ELSE "sending"
                   /\ UNCHANGED <<client, conv, at, held, sent, intact>>
    BY <1>2 DEF Prepare
  <2>2. CASE Resolves(effort, budget, bound) = "invalid"
    BY <2>1, <2>2 DEF RefuseRequest
  <2>3. CASE Resolves(effort, budget, bound) # "invalid"
    <3>1. \A e, o : [request EXCEPT !.effort = e, !.output = o].intact = request.intact
      BY <1>1 DEF Requests
    <3> DEFINE e == Resolves(effort, budget, bound)
               o == IF Glm THEN EffectiveOutput(bound) ELSE bound
    <3>2. request'.intact = request.intact
      <4>1. request' = [request EXCEPT !.effort = e, !.output = o]
        BY <2>1, <2>3
      <4> HIDE DEF e, o
      <4> QED
        BY <3>1, <4>1
    <3> HIDE DEF e, o
    <3>3. body' = Prepared(body, Glm) /\ UNCHANGED <<client, conv, held, intact>>
      BY <2>1, <2>3
    <3>4. phase' \in {"guarding", "sending"}
      BY <2>1, <2>3
    <3> QED
      BY <1>2, <3>2, <3>3, <3>4, Zenon
  <2> QED
    BY <2>2, <2>3
<1>3. CASE GuardPasses
  BY <1>1, <1>3 DEF GuardPasses, Prepare, Requests
<1>4. CASE GuardCounts
  <2>1. PICK tokens \in Tokens, bytes \in Tokens, counted \in Tokens :
          IF RejectsInput(counted) THEN RefuseRequest
          ELSE /\ request' = [request EXCEPT
                    !.input = tokens, !.counted = TRUE,
                    !.output = IF Glm THEN AllowedOutput(counted, @) ELSE @]
               /\ phase' = "sending"
               /\ UNCHANGED <<client, conv, body, at, held, sent, intact>>
    BY <1>4 DEF GuardCounts
  <2>2. CASE RejectsInput(counted)
    BY <2>1, <2>2 DEF RefuseRequest
  <2>3. CASE ~RejectsInput(counted)
    <3> DEFINE output == IF Glm THEN AllowedOutput(counted, request.output)
                         ELSE request.output
    <3>1. request' = [request EXCEPT !.input = tokens, !.counted = TRUE, !.output = output]
      BY <2>1, <2>3
    <3> HIDE DEF output
    <3>2. request'.intact = request.intact
      BY <1>1, <3>1 DEF Requests
    <3> QED
      BY <1>4, <2>1, <2>3, <3>2 DEF GuardCounts, Prepare
  <2> QED
    BY <2>2, <2>3
<1> QED
  BY <1>2, <1>3, <1>4

LEMMA BodyIsKept ==
  ASSUME PrefixInv, [Next]_vars
  PROVE  BodyInv'
<1>1. TypeInv /\ EpochInv /\ BodyInv /\ body \in Seq(Message) /\ Len(body) \in Nat
  BY DEF PrefixInv, EpochInv, TypeInv, TypeOK
<1>2. CASE ~InFlight'
  BY <1>2 DEF BodyInv
<1>3. CASE Submit
  <2>1. /\ body' = Whole /\ UNCHANGED <<client, conv, held>>
        /\ phase' \in {"shadow", "preparing"}
    BY <1>1, <1>3, SubmittedIsWhole DEF Submit, TypeInv
  <2>2. Whole' = Whole
    BY <2>1, Unmoved
  <2>3. \A i \in 1 .. Len(Whole) : Whole[i].reasoning # "restored"
    BY <1>1, WholeIsMade DEF EpochInv, TypeInv
  <2>4. MadeOf(Whole, Whole, FALSE, Glm') /\ \A ids : FromShadow(Whole, ids)
    BY <2>3, MadeOfItself DEF FromShadow
  <2>5. Ready' = FALSE /\ (phase' = "shadow" => Eligible')
    BY <1>3, <2>1, Unmoved DEF Ready, Submit
  <2> QED
    BY <2>1, <2>2, <2>4, <2>5 DEF BodyInv
<1>4. CASE ClearEpoch
  <2>1. /\ phase = "shadow" /\ phase' = "preparing" /\ held' = {} /\ body' = body
        /\ UNCHANGED <<client, conv>>
    BY <1>4 DEF ClearEpoch
  <2>2. Whole' = Whole /\ Glm' = Glm /\ (Eligible' <=> Eligible)
    BY <2>1, Unmoved
  <2>3. FromShadow(body, {})
    BY <1>1, <2>1 DEF BodyInv, InFlight
  <2> QED
    BY <1>1, <2>1, <2>2, <2>3 DEF BodyInv, InFlight, Ready
<1>5. CASE RestoreMessage
  <2> DEFINE new == [body EXCEPT ![at] = Restored(@, held)]
  <2>1. /\ body' = new /\ phase = "restoring" /\ phase' = "restoring"
        /\ UNCHANGED <<client, conv, request, held>>
    BY <1>5 DEF RestoreMessage
  <2>2. at \in 1 .. Len(body) /\ at >= EpochBoundary(body)
    BY <1>1, <1>5, BoundaryIsNewest DEF RestoreMessage, TypeInv, TypeOK, Restores
  <2>3. /\ Len(body) = Len(Whole) /\ MadeOf(body, Whole, FALSE, Glm) /\ Eligible
        /\ request.intact => FromShadow(body, held)
    <3>1. Ready = FALSE /\ InFlight
      BY <2>1 DEF Ready, InFlight
    <3> QED
      BY <1>1, <2>1, <3>1 DEF BodyInv
  <2>4. /\ Len(new) = Len(body) /\ MadeOf(new, Whole, FALSE, Glm)
        /\ FromShadow(body, held) => FromShadow(new, held)
    BY <1>1, <2>2, <2>3, RestoreKeepsMade
  <2> HIDE DEF new
  <2>5. Whole' = Whole /\ Glm' = Glm /\ (Eligible' <=> Eligible)
    BY <2>1, Unmoved
  <2>6. Ready' = FALSE /\ phase' # "shadow"
    BY <2>1 DEF Ready
  <2> QED
    BY <2>1, <2>3, <2>4, <2>5, <2>6 DEF BodyInv
<1>6. CASE Prepare /\ InFlight'
  <2> DEFINE new == Prepared(body, Glm)
  <2>1. /\ phase = "preparing" /\ phase' \in {"guarding", "sending"} /\ body' = new
        /\ UNCHANGED <<client, conv, held>> /\ request'.intact = request.intact
    BY <1>1, <1>6, RequestStays DEF Prepare, Done, InFlight
  <2>2. /\ Len(body) = Len(Whole) /\ MadeOf(body, Whole, FALSE, Glm)
        /\ ~Eligible => FromShadow(body, {})
        /\ request.intact => FromShadow(body, held)
    <3>1. Ready = FALSE /\ InFlight
      BY <2>1 DEF Ready, InFlight
    <3> QED
      BY <1>1, <3>1 DEF BodyInv
  <2>3. /\ Len(new) = Len(body) /\ MadeOf(new, Whole, TRUE, Glm)
        /\ \A ids : FromShadow(body, ids) => FromShadow(new, ids)
    BY <1>1, <2>2, PreparedIsMade
  <2> HIDE DEF new
  <2>4. Whole' = Whole /\ Glm' = Glm /\ (Eligible' <=> Eligible)
    BY <2>1, Unmoved
  <2>5. Ready' = TRUE /\ phase' \notin {"shadow", "restoring"}
    BY <2>1 DEF Ready
  <2> QED
    BY <2>1, <2>2, <2>3, <2>4, <2>5 DEF BodyInv
<1>7. CASE (GuardPasses \/ GuardCounts) /\ InFlight'
  <2>1. /\ phase = "guarding" /\ phase' \in {"guarding", "sending"} /\ body' = body
        /\ UNCHANGED <<client, conv, held>> /\ request'.intact = request.intact
    BY <1>1, <1>7, RequestStays DEF GuardPasses, GuardCounts, Prepare, Done, InFlight
  <2>2. Whole' = Whole /\ Glm' = Glm /\ (Eligible' <=> Eligible)
    BY <2>1, Unmoved
  <2> QED
    BY <1>1, <2>1, <2>2 DEF BodyInv, InFlight, Ready
<1>8. CASE BeginRestore \/ EndRestore \/ UNCHANGED vars
  <2>1. /\ UNCHANGED <<client, conv, body, request, held>>
        /\ InFlight' => InFlight /\ Ready' = Ready
        /\ phase' = "shadow" => phase = "shadow"
        /\ phase' = "restoring" => phase \in {"shadow", "restoring"}
    BY <1>8 DEF BeginRestore, EndRestore, vars, InFlight, Ready
  <2>2. Whole' = Whole /\ Glm' = Glm /\ (Eligible' <=> Eligible)
    BY <2>1, Unmoved
  <2> QED
    BY <1>1, <2>1, <2>2 DEF BodyInv
<1>9. CASE Forget
  <2>1. /\ UNCHANGED <<client, conv, body, phase>> /\ request'.intact = FALSE
    BY <1>1, <1>9 DEF Forget, TypeInv, TypeOK
  <2>2. Whole' = Whole /\ Glm' = Glm /\ (Eligible' <=> Eligible)
    BY <2>1, Unmoved
  <2> QED
    BY <1>1, <2>1, <2>2 DEF BodyInv, InFlight, Ready
<1>10. CASE ReadHistory \/ Done \/ SendChat
  <2>1. ~InFlight'
    BY <1>10, HistoryOnlyRead DEF Done, SendChat, InFlight
  <2> QED
    BY <2>1 DEF BodyInv
<1> QED
  BY <1>2, <1>3, <1>4, <1>5, <1>6, <1>7, <1>8, <1>9, <1>10
     DEF Next, SendFails, RefuseRequest,
         StreamedAnswer, WholeAnswer, ResponsesAnswer, RelayedAnswer, Leave

LEMMA PrefixInvInit == Init => PrefixInv
<1> SUFFICES ASSUME Init PROVE PrefixInv
  OBVIOUS
<1>1. conv.out = <<>> /\ body = <<>> /\ sent = <<>> /\ phase = "reading"
      /\ request.intact = TRUE
  BY DEF Init, M!FreshConv, R!FreshConv, NoRequest
<1>2. EpochInv
  BY EpochInvInit
<1> QED
  BY <1>1, <1>2 DEF PrefixInv, BodyInv, SentInv, InFlight, Asks

LEMMA PrefixInvNext ==
  ASSUME PrefixInv, [Next]_vars
  PROVE  PrefixInv'
<1>1. EpochInv' /\ BodyInv' /\ SentInv'
  BY EpochInvNext, BodyIsKept, SentIsKept DEF PrefixInv
<1>2. intact' => request'.intact
  <2>1. TypeInv /\ (intact => request.intact)
    BY DEF PrefixInv, EpochInv
  <2>2. NoRequest.intact
    BY DEF NoRequest
  <2>3. CASE request' = NoRequest
    BY <2>2, <2>3
  <2>4. CASE Forget
    BY <2>4 DEF Forget
  <2>5. CASE UNCHANGED <<request, intact>>
    BY <2>1, <2>5
  <2>6. CASE request'.intact = request.intact /\ intact' = intact
    BY <2>1, <2>6
  <2>7. Prepare \/ GuardPasses \/ GuardCounts =>
          \/ request' = NoRequest
          \/ request'.intact = request.intact /\ intact' = intact
    BY <2>1, RequestStays DEF Done
  <2> QED
    BY <2>3, <2>4, <2>5, <2>6, <2>7
       DEF Next, vars, Done, ReadHistory, Submit, ClearEpoch, BeginRestore, RestoreMessage,
           EndRestore, SendFails, SendChat, RefuseRequest, StreamedAnswer, WholeAnswer,
           ResponsesAnswer, RelayedAnswer, Leave
<1> QED
  BY <1>1, <1>2 DEF PrefixInv

\* Two messages that were made from the same one are the same if they reason alike.
LEMMA SameMessage ==
  ASSUME NEW m \in Message, NEW n \in Message, Alike(m, n), m.header = n.header,
         m.content = n.content, m.arguments = n.arguments, m.reasoning = n.reasoning
  PROVE  m = n
BY DEF Alike, Message

LEMMA PrefixIsKept ==
  ASSUME PrefixInv, SendChat, Asks(sent), EpochBoundary(sent) = EpochBoundary(body), intact
  PROVE  IsPrefix(sent, body)
<1>1. phase = "sending" /\ Ready /\ InFlight /\ request.intact
  BY DEF SendChat, PrefixInv, Ready, InFlight
<1>2. /\ sent \in Seq(Message) /\ body \in Seq(Message)
      /\ Whole \in Seq(Message) /\ Base \in Seq(Message) /\ Grows(Base, Whole)
  BY WholeIsList DEF PrefixInv, EpochInv, TypeInv, TypeOK
<1>3. /\ Len(sent) <= Len(Base) /\ MadeOf(sent, Base, TRUE, Glm)
      /\ IF Eligible THEN PutBack(sent, held, Len(sent) + 1) ELSE FromShadow(sent, {})
      /\ NoHumanSince => FromShadow(sent, held)
  BY DEF PrefixInv, SentInv
<1>4. /\ Len(body) = Len(Whole) /\ MadeOf(body, Whole, TRUE, Glm)
      /\ ~Eligible => FromShadow(body, {})
      /\ FromShadow(body, held)
      /\ Eligible => PutBack(body, held, Len(body) + 1)
  BY <1>1 DEF PrefixInv, BodyInv, EpochInv, Epochs
<1>5. /\ Len(sent) \in Nat \ {0} /\ Len(body) \in Nat /\ Len(sent) <= Len(body)
      /\ \A i \in 1 .. Len(sent) :
           i \in 1 .. Len(body) /\ i \in 1 .. Len(Base) /\ Whole[i] = Base[i]
  BY <1>2, <1>3, <1>4 DEF Grows, Asks
<1>6. /\ LastFixed(sent) = Len(sent) /\ LastFixed(body) \in Nat /\ Len(sent) <= LastFixed(body)
  <2>1. Len(sent) \in 1 .. Len(sent) /\ sent[Len(sent)].role \in {"user", "tool"}
    BY <1>5 DEF Asks
  <2>2. body[Len(sent)].role = sent[Len(sent)].role /\ Len(sent) \in 1 .. Len(body)
    BY <1>3, <1>4, <1>5, <2>1 DEF MadeOf, Alike
  <2> QED
    BY <1>2, <1>5, <2>1, <2>2, LastFixedIsLast
<1>7. EpochBoundary(body) \in Nat
  BY <1>2, BoundaryIsNewest
<1>8. EpochBoundary(sent) <= Len(sent) => NoHumanSince
  <2> SUFFICES ASSUME EpochBoundary(sent) <= Len(sent),
                      NEW k \in Len(sent) + 1 .. Len(Base), Base[k].role = "user"
               PROVE  FALSE
    BY DEF NoHumanSince
  <2>1. k \in 1 .. Len(body) /\ Whole[k] = Base[k] /\ k > Len(sent)
    BY <1>2, <1>4, <1>5 DEF Grows
  <2>2. body[k].role = "user"
    BY <1>4, <2>1 DEF MadeOf, Alike
  <2>3. k <= EpochBoundary(body)
    BY <1>2, <2>1, <2>2, BoundaryIsNewest
  <2> QED
    BY <1>5, <1>7, <2>1, <2>3
<1>9. ASSUME NEW i \in 1 .. Len(sent)
      PROVE  sent[i] = body[i]
  <2> DEFINE m == sent[i]
             n == body[i]
             from == Base[i]
  <2>1. /\ m \in Message /\ n \in Message /\ from \in Message
        /\ i \in 1 .. Len(body) /\ Whole[i] = from
    BY <1>2, <1>5
  <2>2. Alike(m, from) /\ Alike(n, from) /\ m.header = n.header /\ m.content = n.content
    BY <1>3, <1>4, <2>1 DEF MadeOf
  <2>3. m.arguments = n.arguments
    <3>1. (i < LastFixed(sent) /\ i < LastFixed(body)) \/ i = Len(sent)
      BY <1>5, <1>6
    <3>2. i = Len(sent) => from.role # "assistant"
      BY <2>2 DEF Asks, Alike
    <3>3. /\ m.arguments =
               IF from.role = "assistant" /\ i < LastFixed(sent) /\ from.calls # {}
               THEN "canonical" ELSE from.arguments
          /\ n.arguments =
               IF from.role = "assistant" /\ i < LastFixed(body) /\ from.calls # {}
               THEN "canonical" ELSE from.arguments
      BY <1>3, <1>4, <2>1 DEF MadeOf
    <3> QED
      BY <3>1, <3>2, <3>3
  <2>4. m.reasoning = n.reasoning
    <3>1. CASE i < EpochBoundary(body)
      BY <1>3, <1>4, <2>1, <3>1 DEF MadeOf
    <3>2. CASE i >= EpochBoundary(body)
      <4>1. /\ \/ m.reasoning = from.reasoning
               \/ from.reasoning = "none" /\ m.reasoning = "restored"
            /\ \/ n.reasoning = from.reasoning
               \/ from.reasoning = "none" /\ n.reasoning = "restored"
            /\ m.calls = n.calls
        BY <1>3, <1>4, <2>1, <2>2, <3>2 DEF MadeOf, Alike
      <4>2. NoHumanSince
        BY <1>5, <1>7, <1>8, <3>2
      <4>3. /\ m.reasoning = "restored" => m.calls \cap held # {}
            /\ n.reasoning = "restored" => m.calls \cap held # {}
        BY <1>3, <1>4, <2>1, <3>2, <4>1, <4>2 DEF FromShadow
      <4>4. CASE Eligible
        <5>1. m.calls \cap held # {} => m.reasoning # "none" /\ n.reasoning # "none"
          <6>1. i < Len(sent) + 1 /\ i < Len(body) + 1
            BY <1>5, <2>1
          <6> QED
            BY <1>3, <1>4, <2>1, <3>2, <4>1, <4>4, <6>1 DEF PutBack
        <5> QED
          BY <4>1, <4>3, <5>1
      <4>5. CASE ~Eligible
        <5>1. m.reasoning # "restored" /\ n.reasoning # "restored"
          BY <1>3, <1>4, <2>1, <3>2, <4>5 DEF FromShadow
        <5> QED
          BY <4>1, <5>1
      <4> QED
        BY <4>4, <4>5
    <3> QED
      BY <1>5, <1>7, <3>1, <3>2
  <2>5. Alike(m, n)
    BY <2>2 DEF Alike
  <2> HIDE DEF m, n
  <2> QED
    BY <2>1, <2>2, <2>3, <2>4, <2>5, SameMessage DEF m, n
<1>10. SubSeq(sent, 1, Len(sent)) = SubSeq(body, 1, Len(sent))
  BY <1>2, <1>5, <1>9
<1> QED
  BY <1>5, <1>10 DEF IsPrefix

\* What the handlers of src/src/server.rs send begins with what they sent before,
\* as long as the epoch lasts and the shadow keeps its entries: the conversions
\* only append, the header of a system prompt is normalised away, restore_into
\* puts back the same reasoning as before, no answer brings reasoning for calls
\* that were sent without it, and the strip, the compaction and the canonical
\* arguments treat a message as they did.
THEOREM PrefixIsStable == Spec => PrefixStable
<1>1. Init => PrefixInv
  BY PrefixInvInit
<1>2. PrefixInv /\ [Next]_vars => PrefixInv'
  BY PrefixInvNext
<1>3. PrefixInv =>
        [/\ SendChat
         /\ sent # <<>> /\ sent[Len(sent)].role \in {"user", "tool"}
         /\ EpochBoundary(sent) = EpochBoundary(body) /\ intact
         => IsPrefix(sent, body)]_vars
  BY PrefixIsKept DEF Asks
<1> QED
  BY <1>1, <1>2, <1>3, PTL DEF Spec, PrefixStable

-----------------------------------------------------------------------------
(* What count_tokens counts                                                *)

Has(out, role, t) == \E i \in 1 .. Len(out) : out[i].role = role /\ out[i].turns = {t}

Reasons(out, t) == \E i \in 1 .. Len(out) : out[i].reasoning = "client" /\ out[i].turns = {t}

\* What the client's own messages say of human turns and of thinking is said by
\* the converted ones too, except for the message that is being read.
CountInv ==
  /\ InOrder(conv.out)
  /\ \A t : t \in conv.thinks <=>
       \/ Reasons(conv.out, t)
       \/ conv.open = "assistant" /\ conv.segment.reasoning /\ t = conv.turn
  /\ \A t \in conv.humans :
       \/ Has(conv.out, "user", t)
       \/ conv.open = "user" /\ conv.ordinary # "empty" /\ t = conv.turn
  /\ \A t : ~(Has(conv.out, "user", t) /\ Has(conv.out, "assistant", t))
  /\ conv.open = "user" => ~Has(conv.out, "assistant", conv.turn)
  /\ conv.open = "assistant" => ~Has(conv.out, "user", conv.turn)

LEMMA CountAppend ==
  ASSUME NEW out \in Seq(Message), NEW m \in Message, NEW turn \in Nat, NEW last \in Nat,
         last <= turn, Listed(out, last), InOrder(out), m.turns = {turn}
  PROVE  LET new == Append(out, m)
         IN  /\ InOrder(new)
             /\ \A t : Reasons(new, t) <=> Reasons(out, t) \/ (m.reasoning = "client" /\ t = turn)
             /\ \A role, t : Has(new, role, t) <=> Has(out, role, t) \/ (m.role = role /\ t = turn)
<1> DEFINE new == Append(out, m)
<1>1. /\ Len(new) = Len(out) + 1 /\ Len(out) \in Nat /\ new[Len(out) + 1] = m
      /\ \A i \in 1 .. Len(out) : new[i] = out[i]
      /\ \A i \in 1 .. Len(new) : i \in 1 .. Len(out) \/ i = Len(out) + 1
  BY Appended
<1> HIDE DEF new
<1>2. InOrder(new)
  <2> SUFFICES ASSUME NEW i \in 1 .. Len(new), NEW j \in 1 .. Len(new), i < j,
                      NEW s \in new[i].turns, NEW t \in new[j].turns
               PROVE  s <= t
    BY DEF InOrder
  <2>1. i \in 1 .. Len(out) /\ new[i] = out[i]
    BY <1>1
  <2>2. CASE j \in 1 .. Len(out)
    BY <1>1, <2>1, <2>2 DEF InOrder
  <2>3. CASE j = Len(out) + 1
    <3>1. PICK u \in 1 .. last : out[i].turns = {u}
      BY <2>1 DEF Listed
    <3>2. s = u /\ t = turn
      BY <1>1, <2>1, <2>3, <3>1
    <3> QED
      BY <3>1, <3>2
  <2> QED
    BY <1>1, <2>2, <2>3
<1>3. Len(out) + 1 \in 1 .. Len(new) /\ \A i \in 1 .. Len(out) : i \in 1 .. Len(new)
  BY <1>1
<1>4. \A t : Reasons(new, t) <=> Reasons(out, t) \/ (m.reasoning = "client" /\ t = turn)
  BY <1>1, <1>3 DEF Reasons
<1>5. \A role, t : Has(new, role, t) <=> Has(out, role, t) \/ (m.role = role /\ t = turn)
  BY <1>1, <1>3 DEF Has
<1> QED
  BY <1>2, <1>4, <1>5 DEF new

LEMMA FlushesAreCounted ==
  ASSUME conv \in MessagesConv, conv.turn > 0, Listed(conv.out, conv.turn), InOrder(conv.out)
  PROVE  /\ LET new == M!FlushSegment(conv.out)
            IN  /\ InOrder(new)
                /\ \A t : Reasons(new, t) <=>
                     Reasons(conv.out, t) \/ (conv.segment.reasoning /\ t = conv.turn)
                /\ \A t : Has(new, "user", t) <=> Has(conv.out, "user", t)
                /\ \A t : Has(new, "assistant", t) =>
                     Has(conv.out, "assistant", t) \/ t = conv.turn
         /\ LET new == M!FlushServerCalls(conv.out)
            IN  /\ InOrder(new)
                /\ \A t : Reasons(new, t) <=> Reasons(conv.out, t)
                /\ \A t : Has(new, "user", t) <=> Has(conv.out, "user", t)
                /\ \A t : Has(new, "assistant", t) =>
                     Has(conv.out, "assistant", t) \/ t = conv.turn
<1> DEFINE reasoning == IF conv.segment.reasoning THEN "client" ELSE "none"
           a == Calling({conv.turn}, conv.segment.content, conv.segment.calls, reasoning)
           b == Calling({conv.turn}, "empty", conv.servers, "none")
<1>1. /\ {conv.turn} \in SUBSET Nat /\ conv.segment.content \in Contents
      /\ conv.segment.calls \in SUBSET Id /\ conv.servers \in SUBSET Id
      /\ "empty" \in Contents /\ reasoning \in {"none", "client"}
  BY DEF MessagesConv, Contents
<1>2. /\ M!FlushSegment(conv.out) =
           IF conv.segment = M!NoSegment THEN conv.out ELSE Append(conv.out, a)
      /\ M!FlushServerCalls(conv.out) =
           IF conv.servers = {} THEN conv.out ELSE Append(conv.out, b)
      /\ conv.segment = M!NoSegment => ~conv.segment.reasoning
  <2>1. M!FlushSegment(conv.out) =
          IF conv.segment = M!NoSegment THEN conv.out ELSE Append(conv.out, a)
    BY DEF M!FlushSegment, M!Turn, M!Wire, Calling, Wire
  <2>2. M!FlushServerCalls(conv.out) =
          IF conv.servers = {} THEN conv.out ELSE Append(conv.out, b)
    <3> DEFINE w == M!Turn("assistant", "empty")
    <3>1. w = Wire("assistant", {conv.turn}, "empty") /\ w \in Message /\ w.reasoning = "none"
      BY <1>1 DEF M!Turn, M!Wire, Wire, Message, Contents
    <3>2. M!FlushServerCalls(conv.out) =
            IF conv.servers = {} THEN conv.out
            ELSE Append(conv.out, [w EXCEPT !.calls = conv.servers])
      BY DEF M!FlushServerCalls
    <3>3. b = [[w EXCEPT !.calls = conv.servers] EXCEPT !.reasoning = "none"]
      BY <3>1 DEF Calling
    <3> HIDE DEF w
    <3>4. [w EXCEPT !.calls = conv.servers] = b
      BY <3>1, <3>3 DEF Message
    <3> QED
      BY <3>2, <3>4
  <2>3. conv.segment = M!NoSegment => ~conv.segment.reasoning
    BY DEF M!NoSegment
  <2> QED
    BY <2>1, <2>2, <2>3
<1>3. /\ a \in Message /\ a.role = "assistant" /\ a.turns = {conv.turn}
      /\ a.reasoning = reasoning
      /\ b \in Message /\ b.role = "assistant" /\ b.turns = {conv.turn} /\ b.reasoning = "none"
  BY <1>1, CallingIsMessage
<1>4. reasoning = "client" <=> conv.segment.reasoning
  BY DEF MessagesConv
<1> HIDE DEF a, b, reasoning
<1>5. /\ conv.out \in Seq(Message) /\ conv.turn \in Nat /\ conv.turn <= conv.turn
  BY DEF MessagesConv
<1>6. ASSUME NEW m \in Message, m.role = "assistant", m.turns = {conv.turn}
      PROVE  LET new == Append(conv.out, m)
             IN  /\ InOrder(new)
                 /\ \A t : Reasons(new, t) <=>
                      Reasons(conv.out, t) \/ (m.reasoning = "client" /\ t = conv.turn)
                 /\ \A t : Has(new, "user", t) <=> Has(conv.out, "user", t)
                 /\ \A t : Has(new, "assistant", t) =>
                      Has(conv.out, "assistant", t) \/ t = conv.turn
  BY <1>5, <1>6, CountAppend
<1> QED
  BY <1>2, <1>3, <1>4, <1>6

LEMMA CountKept ==
  ASSUME conv \in MessagesConv, conv' \in MessagesConv, MessagesInv, CountInv,
         M!ReadText \/ M!ReadTools \/ M!Thinking \/ M!ReadSearch \/ M!ReadOther \/ M!Refuse
  PROVE  CountInv'
<1> DEFINE out == conv.out
           turn == conv.turn
           thinks == conv.thinks
           humans == conv.humans
           thinking1 == conv.open = "assistant" /\ conv.segment.reasoning
<1>1. /\ out \in Seq(Message) /\ turn \in Nat /\ turn + 1 \in Nat /\ turn <= turn
      /\ turn <= turn + 1 /\ Listed(out, turn)
  BY DEF MessagesConv, MessagesInv
<1>2. /\ InOrder(out)
      /\ \A t : t \in thinks <=> Reasons(out, t) \/ (thinking1 /\ t = turn)
      /\ \A t \in humans :
           Has(out, "user", t) \/ (conv.open = "user" /\ conv.ordinary # "empty" /\ t = turn)
      /\ \A t : ~(Has(out, "user", t) /\ Has(out, "assistant", t))
      /\ conv.open = "user" => ~Has(out, "assistant", turn)
      /\ conv.open = "assistant" => ~Has(out, "user", turn)
  BY DEF CountInv
<1>3. \A role : ~Has(out, role, turn + 1)
  <2>1. ASSUME NEW i \in 1 .. Len(out), out[i].turns = {turn + 1} PROVE FALSE
    <3>1. PICK t \in 1 .. turn : out[i].turns = {t}
      BY <1>1 DEF Listed
    <3>2. t # turn + 1
      BY <1>1
    <3> QED
      BY <2>1, <3>1, <3>2
  <2> QED
    BY <2>1 DEF Has
\* a message that is read as a whole
<1>4. ASSUME NEW m \in Message, m.turns = {turn + 1}, m.reasoning = "none",
             conv'.out = Append(out, m), conv'.thinks = thinks, conv.open = "none",
             conv'.open = "none",
             conv'.humans \subseteq IF m.role = "user" THEN humans \cup {turn + 1} ELSE humans
      PROVE  CountInv'
  <2>1. LET new == Append(out, m)
        IN  /\ InOrder(new)
            /\ \A t : Reasons(new, t) <=> Reasons(out, t)
            /\ \A role, t :
                 Has(new, role, t) <=> Has(out, role, t) \/ (m.role = role /\ t = turn + 1)
    BY <1>1, <1>2, <1>4, CountAppend
  <2> HIDE DEF out, turn, thinks, humans
  <2> QED
    BY <1>2, <1>3, <1>4, <2>1 DEF CountInv
\* a block of an assistant's message
<1>5. ASSUME NEW reasons \in BOOLEAN, conv.open = "assistant",
             conv'.open \in {"assistant", "none"}, conv'.turn = turn, conv'.humans = humans,
             InOrder(conv'.out),
             \A t : Reasons(conv'.out, t) <=> Reasons(out, t) \/ (reasons /\ t = turn),
             \A t : Has(conv'.out, "user", t) <=> Has(out, "user", t),
             \A t : Has(conv'.out, "assistant", t) => Has(out, "assistant", t) \/ t = turn,
             \A t : t \in conv'.thinks <=>
               \/ Reasons(out, t) \/ (reasons /\ t = turn)
               \/ conv'.open = "assistant" /\ conv'.segment.reasoning /\ t = turn
      PROVE  CountInv'
  <2> HIDE DEF out, turn, thinks, humans
  <2> QED
    BY <1>2, <1>5 DEF CountInv
<1>6. ASSUME NEW role \in {"user", "assistant"}, NEW blank, M!PlainString(role, blank)
      PROVE  CountInv'
  <2> DEFINE m == M!Wire(role, {turn + 1}, "string")
  <2>1. m \in Message /\ m.role = role /\ m.turns = {turn + 1} /\ m.reasoning = "none"
    BY <1>1 DEF M!Wire, Message
  <2>2. /\ conv'.out = Append(out, m) /\ conv'.thinks = thinks /\ conv.open = "none"
        /\ conv'.open = "none"
        /\ conv'.humans = IF role = "user" /\ ~blank THEN humans \cup {turn + 1} ELSE humans
    BY <1>6 DEF M!PlainString, M!Begins, M!Read, MessagesConv
  <2> HIDE DEF m
  <2>3. conv'.humans \subseteq IF m.role = "user" THEN humans \cup {turn + 1} ELSE humans
    BY <2>1, <2>2
  <2> QED
    BY <1>4, <2>1, <2>2, <2>3
<1>7. CASE M!System
  <2> DEFINE m == M!Wire("system", {turn + 1}, "string")
  <2>1. m \in Message /\ m.role = "system" /\ m.turns = {turn + 1} /\ m.reasoning = "none"
    BY <1>1 DEF M!Wire, Message
  <2>2. /\ conv'.out = Append(out, m) /\ conv'.thinks = thinks /\ conv.open = "none"
        /\ conv'.open = "none" /\ conv'.humans = humans
    BY <1>7 DEF M!System, M!Begins, M!Read, MessagesConv
  <2> HIDE DEF m
  <2> QED
    BY <1>4, <2>1, <2>2
<1>8. CASE M!BeginAssistant
  <2>1. /\ conv'.out = out /\ conv'.turn = turn + 1 /\ conv'.open = "assistant"
        /\ conv.open = "none" /\ conv'.thinks = thinks /\ conv'.humans = humans
        /\ ~conv'.segment.reasoning
    BY <1>8 DEF M!BeginAssistant, M!Begins, M!NoSegment, M!Read, MessagesConv
  <2> HIDE DEF out, turn, thinks, humans
  <2> QED
    BY <1>2, <1>3, <2>1 DEF CountInv
<1>9. CASE M!BeginUser
  <2>1. /\ conv'.out = out /\ conv'.turn = turn + 1 /\ conv'.open = "user"
        /\ conv.open = "none" /\ conv'.thinks = thinks /\ conv'.humans = humans
    BY <1>9 DEF M!BeginUser, M!Begins, M!Read, MessagesConv
  <2> HIDE DEF out, turn, thinks, humans
  <2> QED
    BY <1>2, <1>3, <2>1 DEF CountInv
<1>10. CASE M!AssistantText \/ \E id \in Id : M!ToolUse(id)
  <2>1. /\ conv'.out = out /\ conv'.turn = turn /\ conv'.open = "assistant"
        /\ conv.open = "assistant" /\ conv'.thinks = thinks /\ conv'.humans = humans
        /\ conv'.segment.reasoning = conv.segment.reasoning
    <3>1. CASE M!AssistantText
      BY <3>1 DEF M!AssistantText, M!InAssistant, M!Read, MessagesConv
    <3>2. CASE \E id \in Id : M!ToolUse(id)
      BY <3>2 DEF M!ToolUse, M!InAssistant, M!Read, MessagesConv
    <3> QED
      BY <1>10, <3>1, <3>2
  <2> HIDE DEF out, turn, thinks, humans
  <2> QED
    BY <1>2, <2>1 DEF CountInv
<1>11. CASE M!Thinking
  <2>1. /\ conv'.out = out /\ conv'.turn = turn /\ conv'.open = "assistant"
        /\ conv.open = "assistant" /\ conv'.thinks = thinks \cup {turn}
        /\ conv'.humans = humans /\ conv'.segment.reasoning
    BY <1>11 DEF M!Thinking, M!InAssistant, M!Read, MessagesConv
  <2> HIDE DEF out, turn, thinks, humans
  <2> QED
    BY <1>2, <2>1 DEF CountInv
<1>12. ASSUME NEW id \in Id, M!ServerToolUse(id)
       PROVE  CountInv'
  <2> DEFINE new == M!FlushSegment(out)
             reasons == conv.segment.reasoning
  <2>1. /\ conv'.out = new /\ conv'.turn = turn /\ conv.open = "assistant"
        /\ conv'.open = "assistant" /\ conv'.thinks = thinks /\ conv'.humans = humans
        /\ ~conv'.segment.reasoning
    BY <1>12 DEF M!ServerToolUse, M!InAssistant, M!NoSegment, M!Read, MessagesConv
  <2>2. turn > 0 /\ reasons \in BOOLEAN
    BY <2>1 DEF MessagesInv, MessagesConv
  <2>3. /\ InOrder(new)
        /\ \A t : Reasons(new, t) <=> Reasons(out, t) \/ (reasons /\ t = turn)
        /\ \A t : Has(new, "user", t) <=> Has(out, "user", t)
        /\ \A t : Has(new, "assistant", t) => Has(out, "assistant", t) \/ t = turn
    BY <1>1, <1>2, <2>2, FlushesAreCounted
  <2>4. \A t : t \in conv'.thinks <=> Reasons(out, t) \/ (reasons /\ t = turn)
    BY <1>2, <2>1
  <2> HIDE DEF new, out, turn, thinks, humans, reasons
  <2> QED
    BY <1>5, <2>1, <2>2, <2>3, <2>4
<1>13. ASSUME NEW id \in Id, M!SearchResult(id)
       PROVE  CountInv'
  <2> DEFINE new == M!FlushServerCalls(out)
             m == M!Answer(id, "string")
  <2>1. /\ conv'.out = Append(new, m) /\ conv'.turn = turn /\ conv.open = "assistant"
        /\ conv'.open = "assistant" /\ conv'.thinks = thinks /\ conv'.humans = humans
        /\ conv'.segment.reasoning = conv.segment.reasoning
    BY <1>13 DEF M!SearchResult, M!InAssistant, M!Read, MessagesConv
  <2>2. turn > 0
    BY <2>1 DEF MessagesInv
  <2>3. /\ InOrder(new) /\ new \in Seq(Message) /\ Listed(new, turn)
        /\ \A t : Reasons(new, t) <=> Reasons(out, t)
        /\ \A t : Has(new, "user", t) <=> Has(out, "user", t)
        /\ \A t : Has(new, "assistant", t) => Has(out, "assistant", t) \/ t = turn
    BY <1>1, <1>2, <2>2, FlushesAreCounted, FlushesAreListed, FlushesAreTyped
  <2>4. m \in Message /\ m.role = "tool" /\ m.turns = {turn} /\ m.reasoning = "none"
    BY DEF M!Answer, M!Turn, M!Wire, Message, MessagesConv
  <2> HIDE DEF new, m
  <2>5. /\ InOrder(Append(new, m))
        /\ \A t : Reasons(Append(new, m), t) <=> Reasons(new, t)
        /\ \A role, t : Has(Append(new, m), role, t) <=>
             Has(new, role, t) \/ (m.role = role /\ t = turn)
    BY <1>1, <2>3, <2>4, CountAppend
  <2> HIDE DEF out, turn, thinks, humans
  <2> QED
    BY <1>2, <2>1, <2>3, <2>4, <2>5 DEF CountInv
<1>14. CASE M!EndAssistant
  <2> DEFINE new == M!FlushSegment(out)
             m == M!Turn("assistant", "empty")
             reasons == conv.segment.reasoning
  <2>1. /\ conv'.out = IF Len(new) = conv.start THEN Append(new, m) ELSE new
        /\ conv'.turn = turn /\ conv.open = "assistant"
        /\ conv'.open = "none" /\ conv'.thinks = thinks /\ conv'.humans = humans
    BY <1>14 DEF M!EndAssistant, M!InAssistant, M!Read, MessagesConv
  <2>2. turn > 0 /\ reasons \in BOOLEAN
    BY <2>1 DEF MessagesInv, MessagesConv
  <2>3. /\ InOrder(new) /\ new \in Seq(Message) /\ Listed(new, turn)
        /\ \A t : Reasons(new, t) <=> Reasons(out, t) \/ (reasons /\ t = turn)
        /\ \A t : Has(new, "user", t) <=> Has(out, "user", t)
        /\ \A t : Has(new, "assistant", t) => Has(out, "assistant", t) \/ t = turn
    BY <1>1, <1>2, <2>2, FlushesAreCounted, FlushesAreListed, FlushesAreTyped
  <2>4. m \in Message /\ m.role = "assistant" /\ m.turns = {turn} /\ m.reasoning = "none"
    BY DEF M!Turn, M!Wire, Message, MessagesConv
  <2> HIDE DEF new, m
  <2>5. /\ InOrder(Append(new, m))
        /\ \A t : Reasons(Append(new, m), t) <=> Reasons(new, t)
        /\ \A role, t : Has(Append(new, m), role, t) <=>
             Has(new, role, t) \/ (m.role = role /\ t = turn)
    BY <1>1, <2>3, <2>4, CountAppend
  <2>6. \A t : t \in conv'.thinks <=> Reasons(out, t) \/ (reasons /\ t = turn)
    BY <1>2, <2>1
  <2>7. conv'.out = new \/ conv'.out = Append(new, m)
    BY <2>1
  <2> HIDE DEF out, turn, thinks, humans, reasons
  <2>8. /\ InOrder(conv'.out)
        /\ \A t : Reasons(conv'.out, t) <=> Reasons(out, t) \/ (reasons /\ t = turn)
        /\ \A t : Has(conv'.out, "user", t) <=> Has(out, "user", t)
        /\ \A t : Has(conv'.out, "assistant", t) => Has(out, "assistant", t) \/ t = turn
    <3>1. CASE conv'.out = new
      BY <2>3, <3>1
    <3>2. CASE conv'.out = Append(new, m)
      <4>1. \A t : Reasons(conv'.out, t) <=> Reasons(new, t)
        BY <2>5, <3>2
      <4>2. /\ \A t : Has(conv'.out, "user", t) <=> Has(new, "user", t)
            /\ \A t : Has(conv'.out, "assistant", t) => Has(new, "assistant", t) \/ t = turn
        BY <2>4, <2>5, <3>2
      <4> QED
        BY <2>3, <2>5, <3>2, <4>1, <4>2
    <3> QED
      BY <2>7, <3>1, <3>2
  <2> QED
    BY <1>5, <2>1, <2>2, <2>6, <2>8
<1>15. CASE M!UserText \/ M!UserMedia
  <2>1. /\ conv'.out = out /\ conv'.turn = turn /\ conv'.open = "user" /\ conv.open = "user"
        /\ conv'.thinks = thinks /\ conv'.humans = humans \cup {turn}
        /\ conv'.ordinary # "empty"
    <3>1. CASE M!UserText
      BY <3>1 DEF M!UserText, M!InUser, M!Human, M!More, M!Read, MessagesConv
    <3>2. CASE M!UserMedia
      BY <3>2 DEF M!UserMedia, M!InUser, M!Human, M!Read, MessagesConv
    <3> QED
      BY <1>15, <3>1, <3>2
  <2> HIDE DEF out, turn, thinks, humans
  <2> QED
    BY <1>2, <2>1 DEF CountInv
<1>16. ASSUME NEW id \in Id, M!ToolResult(id)
       PROVE  CountInv'
  <2> DEFINE m == M!Answer(id, "string")
  <2>1. /\ conv'.out = Append(out, m) /\ conv'.turn = turn /\ conv.open = "user"
        /\ conv'.open = "user" /\ conv'.thinks = thinks /\ conv'.humans = humans
        /\ conv'.ordinary = conv.ordinary
    BY <1>16 DEF M!ToolResult, M!InUser, M!Read, MessagesConv
  <2>2. m \in Message /\ m.role = "tool" /\ m.turns = {turn} /\ m.reasoning = "none"
    BY DEF M!Answer, M!Turn, M!Wire, Message, MessagesConv
  <2> HIDE DEF m
  <2>3. /\ InOrder(Append(out, m))
        /\ \A t : Reasons(Append(out, m), t) <=> Reasons(out, t)
        /\ \A role, t : Has(Append(out, m), role, t) <=>
             Has(out, role, t) \/ (m.role = role /\ t = turn)
    BY <1>1, <1>2, <2>2, CountAppend
  <2> HIDE DEF out, turn, thinks, humans
  <2> QED
    BY <1>2, <2>1, <2>2, <2>3 DEF CountInv
<1>17. CASE M!EndUser
  <2> DEFINE m == M!Turn("user", conv.ordinary)
  <2>1. /\ (conv'.out = out /\ conv.ordinary = "empty") \/ conv'.out = Append(out, m)
        /\ conv'.turn = turn /\ conv.open = "user"
        /\ conv'.open = "none" /\ conv'.thinks = thinks /\ conv'.humans = humans
    BY <1>17 DEF M!EndUser, M!InUser, M!Read, MessagesConv
  <2>2. m \in Message /\ m.role = "user" /\ m.turns = {turn} /\ m.reasoning = "none"
    BY DEF M!Turn, M!Wire, Message, MessagesConv, Contents
  <2> HIDE DEF m
  <2>3. /\ InOrder(Append(out, m))
        /\ \A t : Reasons(Append(out, m), t) <=> Reasons(out, t)
        /\ \A role, t : Has(Append(out, m), role, t) <=>
             Has(out, role, t) \/ (m.role = role /\ t = turn)
    BY <1>1, <1>2, <2>2, CountAppend
  <2> HIDE DEF out, turn, thinks, humans
  <2>4. CASE conv'.out = out /\ conv.ordinary = "empty"
    BY <1>2, <2>1, <2>4 DEF CountInv
  <2>5. CASE conv'.out = Append(out, m)
    BY <1>2, <2>1, <2>2, <2>3, <2>5 DEF CountInv
  <2> QED
    BY <2>1, <2>4, <2>5
<1>18. CASE M!Refuse
  BY <1>18 DEF M!Refuse, CountInv
<1> QED
  BY <1>6, <1>7, <1>8, <1>9, <1>10, <1>11, <1>12, <1>13, <1>14, <1>15, <1>16, <1>17, <1>18
     DEF M!ReadText, M!ReadTools, M!ReadSearch, M!ReadOther

\* A Messages request is its converted history, with a system prompt before it
\* or with none.
LEMMA WholeHasHistory ==
  ASSUME ConvTyped, frontend = "messages"
  PROVE  \E n \in {0, 1} :
           /\ Len(Whole) = Len(conv.out) + n /\ Len(conv.out) \in Nat
           /\ \A k \in 1 .. Len(Whole) : k <= n =>
                Whole[k].role = "system" /\ Whole[k].reasoning = "none"
           /\ \A k \in 1 .. Len(Whole) : k > n =>
                /\ k - n \in 1 .. Len(conv.out)
                /\ Alike(Whole[k], conv.out[k - n])
                /\ Whole[k].reasoning = conv.out[k - n].reasoning
<1> DEFINE prompt == SystemPrompt(1)
           out == conv.out
           list == prompt \o out
           n == Len(prompt)
<1>1. /\ out \in Seq(Message) /\ prompt \in Seq(Message) /\ n \in {0, 1}
      /\ n = 1 => prompt[1] = [Wire("system", {}, "string") EXCEPT !.header = 1]
  BY HistoryIsList, SystemPromptIsList
<1>2. n = 1 => prompt[1].role = "system" /\ prompt[1].reasoning = "none"
  BY <1>1 DEF Wire
<1> HIDE DEF prompt, out
<1>3. /\ list \in Seq(Message) /\ Len(list) = Len(out) + n /\ Len(out) \in Nat
      /\ \A k \in 1 .. Len(list) :
           /\ k <= n => k = 1 /\ list[k] = prompt[1]
           /\ k > n => k - n \in 1 .. Len(out) /\ list[k] = out[k - n]
  BY <1>1
<1>4. Whole = Normalized(list)
  BY DEF Whole, list, prompt, out
<1> HIDE DEF list
<1>5. /\ Len(Whole) = Len(list)
      /\ \A k \in 1 .. Len(list) :
           Alike(Whole[k], list[k]) /\ Whole[k].reasoning = list[k].reasoning
  BY <1>3, <1>4, NormalizedShape DEF Shape
<1>6. \A k \in 1 .. Len(Whole) : k <= n =>
        Whole[k].role = "system" /\ Whole[k].reasoning = "none"
  <2> SUFFICES ASSUME NEW k \in 1 .. Len(Whole), k <= n
               PROVE  Whole[k].role = "system" /\ Whole[k].reasoning = "none"
    OBVIOUS
  <2>1. k = 1 /\ list[k] = prompt[1] /\ n = 1
    BY <1>1, <1>3, <1>5
  <2> QED
    BY <1>2, <1>5, <2>1 DEF Alike
<1>7. \A k \in 1 .. Len(Whole) : k > n =>
        /\ k - n \in 1 .. Len(out)
        /\ Alike(Whole[k], out[k - n])
        /\ Whole[k].reasoning = out[k - n].reasoning
  BY <1>3, <1>5
<1> HIDE DEF n
<1> QED
  BY <1>1, <1>3, <1>5, <1>6, <1>7 DEF out

\* A conversation of the Messages frontend is submitted with no message open.
CountIInv ==
  /\ PrefixInv
  /\ frontend = "messages" => MessagesInv /\ CountInv
  /\ InFlight => conv.open = "none"

LEMMA CountIInvInit == Init => CountIInv
<1> SUFFICES ASSUME Init PROVE CountIInv
  OBVIOUS
<1>1. PrefixInv /\ PathIInv /\ ~InFlight
  <2>1. PathIInv
    BY PathIInvInit
  <2> QED
    BY <2>1, PrefixInvInit DEF Init, InFlight
<1>2. CASE frontend = "messages"
  <2>1. conv.out = <<>> /\ conv.open = "none" /\ conv.thinks = {} /\ conv.humans = {}
    BY <1>2 DEF Init, M!FreshConv
  <2>2. CountInv
    BY <2>1 DEF CountInv, InOrder, Reasons, Has
  <2> QED
    BY <1>1, <2>2 DEF CountIInv, PathIInv
<1> QED
  BY <1>1, <1>2 DEF CountIInv

LEMMA CountIInvNext ==
  ASSUME CountIInv, [Next]_vars
  PROVE  CountIInv'
<1>1. PrefixInv' /\ ConvTyped /\ ConvTyped'
  <2>1. PrefixInv'
    BY PrefixInvNext DEF CountIInv
  <2> QED
    BY <2>1 DEF CountIInv, PrefixInv, EpochInv, TypeInv
<1>2. frontend' = frontend
  BY DEF frontend, Next, vars, ReadHistory, Submit, ClearEpoch, BeginRestore,
         RestoreMessage, EndRestore, Forget, Prepare, GuardPasses, GuardCounts,
         RefuseRequest, SendFails, SendChat, StreamedAnswer, WholeAnswer, ResponsesAnswer,
         RelayedAnswer, Leave
<1>3. frontend = "messages" => MessagesInv' /\ CountInv'
  <2> SUFFICES ASSUME frontend = "messages"
               PROVE  MessagesInv' /\ CountInv'
    OBVIOUS
  <2>1. /\ conv \in MessagesConv /\ conv' \in MessagesConv /\ MessagesInv /\ CountInv
    BY <1>1, <1>2 DEF CountIInv, ConvTyped
  <2>2. CASE ReadHistory
    <3>1. M!ReadText \/ M!ReadTools \/ M!Thinking \/ M!ReadSearch \/ M!ReadOther \/ M!Refuse
      BY <2>2 DEF ReadHistory
    <3> QED
      BY <2>1, <3>1, MessagesKept, CountKept
  <2>3. CASE conv' = conv
    BY <2>1, <2>3 DEF MessagesInv, Claims, CountInv
  <2> QED
    BY <2>2, <2>3
       DEF Next, vars, Submit, ClearEpoch, BeginRestore, RestoreMessage, EndRestore, Forget,
           Prepare, GuardPasses, GuardCounts, RefuseRequest, SendFails, SendChat,
           StreamedAnswer, WholeAnswer, ResponsesAnswer, RelayedAnswer, Leave
<1>4. InFlight' => conv'.open = "none"
  <2>1. CASE ReadHistory
    <3>1. phase' \in {"reading", "refused"}
      BY <2>1, HistoryOnlyRead
    <3> QED
      BY <3>1 DEF InFlight
  <2>2. CASE Submit
    BY <2>2 DEF Submit
  <2>3. CASE conv' = conv /\ (InFlight' => InFlight)
    BY <2>3 DEF CountIInv
  <2>4. (conv' = conv /\ (InFlight' => InFlight)) \/ ReadHistory \/ Submit
    BY DEF InFlight, Next, vars, ClearEpoch, BeginRestore, RestoreMessage, EndRestore, Forget,
           Prepare, GuardPasses, GuardCounts, RefuseRequest, Done, SendFails, SendChat,
           StreamedAnswer, WholeAnswer, ResponsesAnswer, RelayedAnswer, Leave
  <2> QED
    BY <2>1, <2>2, <2>3, <2>4
<1> QED
  BY <1>1, <1>2, <1>3, <1>4 DEF CountIInv

\* The newest human turn of the client's messages is the turn of the newest user
\* message of the request; without a user message there is none.
LEMMA BoundariesAgree ==
  ASSUME CountIInv, frontend = "messages", Ready, HumanAtBoundary
  PROVE  LET b == EpochBoundary(body)
         IN  /\ b > Len(body) => CountBoundary = conv.turn + 1
             /\ b <= Len(body) => body[b].turns = {CountBoundary}
<1> DEFINE b == EpochBoundary(body)
           out == conv.out
           humans == conv.humans
           turn == conv.turn
<1>1. /\ ConvTyped /\ body \in Seq(Message) /\ conv.open = "none" /\ InFlight
      /\ MessagesInv /\ CountInv
  BY DEF CountIInv, PrefixInv, EpochInv, TypeInv, TypeOK, Ready, InFlight
<1>2. /\ turn \in Nat /\ InOrder(out) /\ \A t \in humans : Has(out, "user", t)
      /\ \A i \in 1 .. Len(out) : \E t \in 1 .. turn : out[i].turns = {t}
      /\ out \in Seq(Message)
  BY <1>1 DEF CountInv, MessagesInv, Listed, ConvTyped, MessagesConv
<1>3. PICK n \in {0, 1} :
        /\ Len(Whole) = Len(out) + n /\ Len(out) \in Nat
        /\ \A k \in 1 .. Len(Whole) : k <= n => Whole[k].role = "system"
        /\ \A k \in 1 .. Len(Whole) : k > n =>
             k - n \in 1 .. Len(out) /\ Alike(Whole[k], out[k - n])
  BY <1>1, WholeHasHistory
<1>4. Len(body) = Len(Whole) /\ \A k \in 1 .. Len(body) : Alike(body[k], Whole[k])
  BY <1>1 DEF CountIInv, PrefixInv, BodyInv, MadeOf
<1>5. /\ b \in 1 .. Len(body) + 1
      /\ b <= Len(body) => body[b].role = "user"
      /\ \A k \in 1 .. Len(body) : body[k].role = "user" => k <= b /\ b <= Len(body)
  BY <1>1, BoundaryIsNewest
<1>6. b <= Len(body) => body[b].turns \subseteq humans
  BY DEF HumanAtBoundary
<1>7. CountBoundary = IF humans = {} THEN turn + 1 ELSE Max(humans)
  BY DEF CountBoundary, LastOr
<1> HIDE DEF b, out, humans, turn
<1>8. ASSUME NEW i \in 1 .. Len(out)
      PROVE  i + n \in 1 .. Len(body) /\ Alike(body[i + n], out[i])
  <2>1. i + n \in 1 .. Len(Whole) /\ i + n > n /\ (i + n) - n = i
    BY <1>3
  <2> QED
    BY <1>3, <1>4, <2>1 DEF Alike
<1>9. ASSUME NEW t \in humans
      PROVE  /\ b <= Len(body) /\ t \in 1 .. turn
             /\ \A u : body[b].turns = {u} => t <= u
  <2>1. PICK i \in 1 .. Len(out) : out[i].role = "user" /\ out[i].turns = {t}
    BY <1>2 DEF Has
  <2>2. i + n <= b /\ b <= Len(body)
    BY <1>5, <1>8, <2>1 DEF Alike
  <2>3. t \in 1 .. turn
    BY <1>2, <2>1
  <2>4. b > n /\ b - n \in 1 .. Len(out) /\ i <= b - n /\ body[b].turns = out[b - n].turns
    BY <1>3, <1>4, <1>5, <2>2 DEF Alike
  <2>5. ASSUME NEW u, body[b].turns = {u} PROVE t <= u
    <3>1. CASE i = b - n
      <4>1. out[i].turns = body[b].turns
        BY <2>4, <3>1
      <4>2. {t} = {u}
        BY <2>1, <2>5, <4>1
      <4>3. t = u
        BY <4>2
      <4> QED
        BY <2>3, <4>3
    <3>2. CASE i < b - n
      <4>1. t \in out[i].turns /\ u \in out[b - n].turns
        BY <2>1, <2>4, <2>5
      <4> QED
        BY <1>2, <2>4, <3>2, <4>1 DEF InOrder
    <3>3. i = b - n \/ i < b - n
      <4>1. \A j \in 1 .. Len(out) : i <= j => i = j \/ i < j
        BY <1>3
      <4> QED
        BY <2>4, <4>1
    <3> QED
      BY <3>1, <3>2, <3>3
  <2> QED
    BY <2>2, <2>3, <2>5
<1>10. ASSUME b > Len(body) PROVE CountBoundary = turn + 1
  <2>1. humans = {}
    BY <1>5, <1>9, <1>10
  <2> QED
    BY <1>7, <2>1
<1>11. ASSUME b <= Len(body) PROVE body[b].turns = {CountBoundary}
  <2>1. b \in 1 .. Len(body) /\ body[b].role = "user"
    BY <1>5, <1>11
  <2>2. b > n /\ b - n \in 1 .. Len(out) /\ body[b].turns = out[b - n].turns
    <3>1. ~(b <= n)
      BY <1>3, <1>4, <2>1 DEF Alike
    <3> QED
      BY <1>3, <1>4, <2>1, <3>1 DEF Alike
  <2>3. PICK u \in 1 .. turn : body[b].turns = {u}
    BY <1>2, <2>2
  <2>4. u \in humans /\ humans \in SUBSET (1 .. turn)
    BY <1>6, <1>9, <1>11, <2>3
  <2>5. Max(humans) \in humans /\ \A t \in humans : t <= Max(humans)
    BY <1>2, <2>4, MaxIsGreatest
  <2>6. CountBoundary = Max(humans)
    BY <1>7, <2>4
  <2> DEFINE max == Max(humans)
  <2> HIDE DEF max
  <2>7. max \in 1 .. turn /\ u <= max /\ max <= u
    BY <1>9, <2>3, <2>4, <2>5 DEF max
  <2>8. max = u
    BY <2>7
  <2> QED
    BY <2>3, <2>6, <2>8 DEF max
<1> QED
  BY <1>10, <1>11 DEF b, turn

LEMMA CountIsExact ==
  ASSUME CountIInv, CountsTokens, Ready, HumanAtBoundary
  PROVE  SentThinking = CountedThinking
<1> DEFINE b == EpochBoundary(body)
           out == conv.out
           turn == conv.turn
           c == CountBoundary
<1>1. /\ frontend = "messages" /\ Glm /\ ConvTyped /\ body \in Seq(Message)
      /\ Len(body) \in Nat /\ conv.open = "none" /\ InFlight
      /\ MessagesInv /\ CountInv /\ Made(out) /\ NoOlder(body)
  BY DEF CountsTokens, CountIInv, PrefixInv, EpochInv, Epochs, TypeInv, TypeOK, Ready,
         InFlight
<1>2. /\ turn \in Nat /\ out \in Seq(Message) /\ InOrder(out)
      /\ \A t : t \in conv.thinks <=> Reasons(out, t)
      /\ \A t : ~(Has(out, "user", t) /\ Has(out, "assistant", t))
      /\ \A i \in 1 .. Len(out) : \E t \in 1 .. turn : out[i].turns = {t}
  BY <1>1 DEF CountInv, MessagesInv, Listed, ConvTyped, MessagesConv
<1>3. PICK n \in {0, 1} :
        /\ Len(Whole) = Len(out) + n /\ Len(out) \in Nat
        /\ \A k \in 1 .. Len(Whole) : k <= n =>
             Whole[k].role = "system" /\ Whole[k].reasoning = "none"
        /\ \A k \in 1 .. Len(Whole) : k > n =>
             /\ k - n \in 1 .. Len(out)
             /\ Alike(Whole[k], out[k - n])
             /\ Whole[k].reasoning = out[k - n].reasoning
  BY <1>1, WholeHasHistory
<1>4. /\ Len(body) = Len(Whole)
      /\ \A k \in 1 .. Len(body) :
           /\ Alike(body[k], Whole[k])
           /\ k >= b => (body[k].reasoning = "client" <=> Whole[k].reasoning = "client")
  BY <1>1 DEF CountIInv, PrefixInv, BodyInv, MadeOf
<1>5. /\ b \in 1 .. Len(body) + 1
      /\ b <= Len(body) => body[b].role = "user"
      /\ b > Len(body) => c = turn + 1
      /\ b <= Len(body) => body[b].turns = {c}
  BY <1>1, BoundaryIsNewest, BoundariesAgree
<1>6. \A k \in 1 .. Len(body) : k < b => body[k].reasoning = "none"
  BY <1>1 DEF NoOlder
<1>7. \A t : t \in SentThinking <=>
        \E k \in 1 .. Len(body) : body[k].reasoning = "client" /\ t \in body[k].turns
  BY DEF SentThinking
<1>8. \A t : t \in CountedThinking <=> t \in conv.thinks /\ t >= c
  BY DEF CountedThinking
<1>9. \A i \in 1 .. Len(out) : out[i].reasoning = "client" => out[i].role = "assistant"
  BY <1>1 DEF Made, MadeOne
<1> HIDE DEF b, out, turn, c
<1>10. ASSUME NEW k \in 1 .. Len(body), k > n
       PROVE  /\ k - n \in 1 .. Len(out) /\ Alike(body[k], out[k - n])
              /\ k >= b => (body[k].reasoning = "client" <=> out[k - n].reasoning = "client")
  <2>1. k \in 1 .. Len(Whole) /\ Alike(body[k], Whole[k])
    BY <1>4
  <2>2. /\ k - n \in 1 .. Len(out) /\ Alike(Whole[k], out[k - n])
        /\ Whole[k].reasoning = out[k - n].reasoning
    BY <1>3, <1>10, <2>1
  <2>3. Alike(body[k], out[k - n])
    BY <2>1, <2>2 DEF Alike
  <2> QED
    BY <1>4, <2>2, <2>3
<1>11. ASSUME NEW k \in 1 .. Len(body), ~(k > n)
       PROVE  body[k].role = "system" /\ (k >= b => body[k].reasoning # "client")
  <2>1. k <= n
    BY <1>11
  <2> QED
    BY <1>3, <1>4, <2>1 DEF Alike
\* the boundary stands in the history
<1>12. ASSUME b <= Len(body)
       PROVE  /\ b > n /\ b - n \in 1 .. Len(out)
              /\ out[b - n].role = "user" /\ out[b - n].turns = {c} /\ c \in 1 .. turn
  <2>1. b \in 1 .. Len(body) /\ b > n
    BY <1>5, <1>11, <1>12
  <2>2. b - n \in 1 .. Len(out) /\ out[b - n].role = "user" /\ out[b - n].turns = {c}
    BY <1>5, <1>10, <1>12, <2>1 DEF Alike
  <2> QED
    BY <1>2, <2>1, <2>2
<1>13. ASSUME NEW t \in SentThinking PROVE t \in CountedThinking
  <2>1. PICK k \in 1 .. Len(body) : body[k].reasoning = "client" /\ t \in body[k].turns
    BY <1>7
  <2>2. k >= b /\ b <= Len(body)
    BY <1>1, <1>5, <1>6, <2>1
  <2>3. k > n
    BY <1>11, <2>1, <2>2
  <2>4. /\ k - n \in 1 .. Len(out) /\ out[k - n].reasoning = "client"
        /\ out[k - n].turns = body[k].turns
    BY <1>10, <2>1, <2>2, <2>3 DEF Alike
  <2>5. out[k - n].turns = {t} /\ t \in 1 .. turn
    BY <1>2, <2>1, <2>4
  <2>6. t \in conv.thinks
    BY <1>2, <2>4, <2>5 DEF Reasons
  <2>7. b - n \in 1 .. Len(out) /\ c \in out[b - n].turns /\ c \in 1 .. turn
    BY <1>12, <2>2
  <2>8. CASE k = b
    <3>1. {c} = {t}
      BY <1>12, <2>2, <2>5, <2>8
    <3> QED
      BY <1>8, <2>6, <2>7, <3>1
  <2>9. CASE k > b
    <3>1. b - n < k - n
      BY <1>3, <1>5, <2>9
    <3>2. c <= t
      BY <1>2, <2>4, <2>5, <2>7, <3>1 DEF InOrder
    <3> QED
      BY <1>8, <2>5, <2>6, <2>7, <3>2
  <2> QED
    BY <1>5, <2>2, <2>8, <2>9
<1>14. ASSUME NEW t \in CountedThinking PROVE t \in SentThinking
  <2>1. t >= c /\ Reasons(out, t)
    BY <1>2, <1>8
  <2>2. PICK i \in 1 .. Len(out) : out[i].reasoning = "client" /\ out[i].turns = {t}
    BY <2>1 DEF Reasons
  <2>3. t \in 1 .. turn
    BY <1>2, <2>2
  <2>4. b <= Len(body)
    <3>1. ~(b > Len(body))
      BY <1>2, <1>5, <2>1, <2>3
    <3> QED
      BY <1>1, <1>5, <3>1
  <2>5. i + n \in 1 .. Len(body) /\ i + n > n /\ (i + n) - n = i
    BY <1>3, <1>4
  <2>6. i + n >= b
    <3>1. CASE i < b - n
      <4>1. t <= c
        BY <1>2, <1>12, <2>2, <2>4, <3>1 DEF InOrder
      <4>2. t = c
        BY <1>12, <2>1, <2>3, <2>4, <4>1
      <4>3. Has(out, "user", t) /\ Has(out, "assistant", t)
        BY <1>9, <1>12, <2>2, <2>4, <4>2 DEF Has
      <4> QED
        BY <1>2, <4>3
    <3>2. CASE ~(i < b - n)
      BY <1>3, <1>5, <3>2
    <3> QED
      BY <3>1, <3>2
  <2>7. body[i + n].reasoning = "client" /\ body[i + n].turns = {t}
    BY <1>10, <2>2, <2>5, <2>6 DEF Alike
  <2> QED
    BY <1>7, <2>5, <2>7
<1> QED
  BY <1>13, <1>14

\* anthropic_count_tokens "counts what the gateway would actually send": where
\* the newest user message is a human turn, the thinking that
\* reasoning_epoch_boundary keeps over the client's own messages is that of the
\* request after conversion, strip and preparation, although one goes by the
\* blocks of each message and the other by the roles of the converted ones.
THEOREM CountsWhatIsSent == Spec => []CountAgrees
<1>1. Init => CountIInv
  BY CountIInvInit
<1>2. CountIInv /\ [Next]_vars => CountIInv'
  BY CountIInvNext
<1>3. CountIInv => CountAgrees
  BY CountIsExact DEF CountAgrees
<1> QED
  BY <1>1, <1>2, <1>3, PTL DEF Spec
=============================================================================
