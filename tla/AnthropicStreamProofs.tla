------------------------- MODULE AnthropicStreamProofs -------------------------
(***************************************************************************)
(* Proofs about AnthropicStream, for any calls, any number of events,      *)
(* searches and generations: the frames of a stream are a behaviour of     *)
(* MessagesEvents, what becomes of the reasoning fits the answer, and the  *)
(* stream says what the whole answer says.                                 *)
(*                                                                         *)
(* A handler emits several frames at once, and the client reads them one   *)
(* by one, later.  So the invariant is about the view the client will have *)
(* when it has read what was emitted: the frames lead there by legal       *)
(* steps, and the state of the stream fits it.                             *)
(***************************************************************************)
EXTENDS AnthropicStream, CollectionLemmas

-----------------------------------------------------------------------------
(* What the client sees                                                    *)

Reasons == {"end_turn", "max_tokens", "tool_use", "pause_turn"}

View == [phase : {"new", "open", "stopping", "stopped", "failed"},
         blocks : Seq(Messages!Block), stop : Reasons \cup {"none"}]
Seen == [phase |-> phase, blocks |-> blocks, stop |-> stop]

Frames == [type : {"message_start", "start", "delta", "signature", "stop",
                   "message_delta", "message_stop", "error"},
           block : Nat, kind : Messages!Kind, call : Call \cup {NoCall},
           size : Nat, stop : Reasons \cup {"none"}]

NewBlock(kind, call) ==
  [kind |-> kind, call |-> call, size |-> 0, signed |-> FALSE, stopped |-> FALSE]
Replaced(seq, n, b) == [m \in DOMAIN seq |-> IF m = n THEN b ELSE seq[m]]

\* The view after a frame.
After(v, f) ==
  LET old == v.blocks[f.block] IN
  [phase |-> CASE f.type = "message_start" -> "open"
               [] f.type = "message_delta" -> "stopping"
               [] f.type = "message_stop" -> "stopped"
               [] f.type = "error" -> "failed"
               [] OTHER -> v.phase,
   blocks |-> CASE f.type = "start" -> Append(v.blocks, NewBlock(f.kind, f.call))
                [] f.type = "delta" ->
                     Replaced(v.blocks, f.block, [old EXCEPT !.size = @ + f.size])
                [] f.type = "signature" ->
                     Replaced(v.blocks, f.block, [old EXCEPT !.signed = TRUE])
                [] f.type = "stop" ->
                     Replaced(v.blocks, f.block, [old EXCEPT !.stopped = TRUE])
                [] OTHER -> v.blocks,
   stop |-> IF f.type = "message_delta" THEN f.stop ELSE v.stop]

\* A frame that says something of a block that is open.
About(v, f) ==
  /\ v.phase = "open" /\ f.block \in 1 .. Len(v.blocks) /\ ~v.blocks[f.block].stopped

\* What the protocol lets follow.
Legal(v, f) ==
  /\ f.type = "message_start" => v.phase = "new"
  /\ f.type = "start" =>
       /\ v.phase = "open"
       /\ f.kind = "tool_use" <=> f.call # NoCall
  /\ f.type = "delta" =>
       /\ About(v, f) /\ f.size \in 1 .. MaxEvents
       /\ ~v.blocks[f.block].signed
       /\ v.blocks[f.block].kind # "web_search_tool_result"
  /\ f.type = "signature" =>
       /\ About(v, f) /\ ~v.blocks[f.block].signed
       /\ v.blocks[f.block].kind = "thinking"
  /\ f.type = "stop" =>
       /\ About(v, f)
       /\ v.blocks[f.block].kind = "thinking" => v.blocks[f.block].signed
  /\ f.type = "message_delta" =>
       /\ v.phase = "open" /\ f.stop \in Reasons
       /\ \A n \in 1 .. Len(v.blocks) : v.blocks[n].stopped
  /\ f.type = "message_stop" => v.phase = "stopping"
  /\ f.type = "error" => v.phase \in {"new", "open"}

Steps == {t \in View \X Frames \X View : Legal(t[1], t[2]) /\ t[3] = After(t[1], t[2])}

-----------------------------------------------------------------------------
(* The inductive invariant                                                 *)

Tool == [block : Nat, id : BOOLEAN, name : Name, pending : Nat, server : BOOLEAN]
Tools == UNION {[I -> Tool] : I \in SUBSET ToolIndex}
StreamStates ==
  [started : BOOLEAN, terminal : BOOLEAN, round_complete : BOOLEAN,
   blocks : Seq({"text", "thinking", "tool_use", "closed"}), text : Nat, thinking : Nat,
   tools : Tools, finish : Finish \cup {"none"}, unexposed : BOOLEAN, asked : Nat,
   out : Seq(Frames)]

Parts == UNION {[I -> [id : BOOLEAN, name : Name, args : Nat]] : I \in SUBSET ToolIndex}
Wholes == [text : Nat, reasoning : Nat, tools : Parts, order : Seq(ToolIndex),
           finish : Finish \cup {"none"}, failed : BOOLEAN]

\* How far the message is ...
Phased(s, v) ==
  /\ ~s.terminal => v.phase = (IF s.started THEN "open" ELSE "new")
  /\ s.terminal => v.phase \in {"stopped", "failed"}
  /\ s.finish # "none" => s.started
  /\ Len(v.blocks) = Len(s.blocks)

\* ... which blocks are open, and which ones texts are added to ...
Matched(s, v) ==
  /\ ~s.terminal => \A n \in 1 .. Len(s.blocks) :
       /\ s.blocks[n] = "closed" => v.blocks[n].stopped
       /\ s.blocks[n] # "closed" =>
            v.blocks[n].kind = s.blocks[n] /\ ~v.blocks[n].signed /\ ~v.blocks[n].stopped
  /\ s.text # 0 => s.text \in 1 .. Len(s.blocks) /\ s.blocks[s.text] = "text"
  /\ s.thinking # 0 => s.thinking \in 1 .. Len(s.blocks) /\ s.blocks[s.thinking] = "thinking"

\* ... which calls are shown, and where, after n events.
Called(s, v, n) ==
  /\ IsFiniteSet(DOMAIN s.tools)
  /\ \A i \in DOMAIN s.tools :
       /\ s.tools[i].pending <= n /\ n > 0
       /\ s.tools[i].server <=> search /\ s.tools[i].name = "search"
       /\ s.tools[i].block # 0 =>
            /\ s.tools[i].block \in 1 .. Len(s.blocks)
            /\ s.blocks[s.tools[i].block] = "tool_use"
            /\ v.blocks[s.tools[i].block].kind = "tool_use"
  /\ \A m \in 1 .. Len(v.blocks) : v.blocks[m].kind = "tool_use" =>
       \E i \in DOMAIN s.tools : s.tools[i].block = m

Searched(v) == \E n \in 1 .. Len(v.blocks) : v.blocks[n].kind = "server_tool_use"

\* With search no call is shown before the end ...
Hidden(s) == search /\ ~s.terminal => \A i \in DOMAIN s.tools : s.tools[i].block = 0

\* ... and at the end either all of them are or searches were.
Ended(s, v) ==
  v.phase = "stopped" => Searched(v) \/ \A i \in DOMAIN s.tools : s.tools[i].block # 0

Core(s, v, n) ==
  /\ s \in StreamStates /\ v \in View
  /\ Phased(s, v) /\ Matched(s, v) /\ Called(s, v, n)
  /\ s.unexposed => ~expose

Fits(s, v, n) == Core(s, v, n) /\ Hidden(s) /\ Ended(s, v)

\* The aggregation knows the same calls by the same names.
SameCalls(s, w) ==
  /\ w \in Wholes
  /\ ~s.terminal => ~w.failed
  /\ DOMAIN w.tools = DOMAIN s.tools
  /\ \A i \in DOMAIN s.tools : w.tools[i].name = s.tools[i].name

\* Where stream_body is.
Located(s, v) ==
  /\ pc \in {"searching", "mixed", "pausing", "grounding"} =>
       /\ search /\ ~s.terminal /\ s.finish # "none"
       /\ ServerCalls(s) # {} /\ Searched(v)
  /\ pc \in {"pausing", "grounding"} => ClientCalls(s) = {}
  /\ pc = "grounding" => rounds < MaxGenerations
  /\ pc = "completing" => s.terminal /\ v.phase = "stopped"
  /\ pc = "closing" => s.terminal /\ v.phase = "failed"
  /\ pc # "done" => shadow = "kept" /\ outcome = "none"

\* Without search, and when a call begins with its head, what the blocks say is
\* what the aggregation has.
Agrees(s, v, w) ==
  /\ s.finish = w.finish
  /\ v.phase = "stopped" => ~w.failed /\ v.stop = StopReason(s.finish) /\ s.finish # "none"
  /\ \A n \in 1 .. Len(v.blocks) :
       /\ v.blocks[n].kind \in {"text", "thinking", "tool_use"}
       /\ v.blocks[n].kind = "text" <=> n = s.text
       /\ v.blocks[n].kind = "thinking" <=> n = s.thinking
       /\ v.blocks[n].kind # "tool_use" => v.blocks[n].call = NoCall
  /\ w.text = (IF s.text = 0 THEN 0 ELSE v.blocks[s.text].size)
  /\ s.text # 0 => w.text > 0
  /\ expose => w.reasoning = (IF s.thinking = 0 THEN 0 ELSE v.blocks[s.thinking].size)
  /\ s.thinking # 0 => expose /\ w.reasoning > 0
  /\ Elements(w.order) = DOMAIN w.tools
  /\ \A j, k \in 1 .. Len(w.order) :
       j < k => s.tools[w.order[j]].block < s.tools[w.order[k]].block
  /\ \A i \in DOMAIN s.tools :
       /\ s.tools[i].block # 0 /\ s.tools[i].name # "" /\ s.tools[i].id /\ w.tools[i].id
       /\ v.blocks[s.tools[i].block].size = w.tools[i].args
       /\ v.blocks[s.tools[i].block].call = [index |-> i, id |-> TRUE,
                                             name |-> s.tools[i].name]

Promised(v) ==
  /\ Fits(state, v, fed)
  /\ SameCalls(state, whole)
  /\ Located(state, v)
  /\ ~search /\ head_first => Agrees(state, v, whole)

IInv ==
  /\ TypeOK
  /\ Seen \in View /\ fed \in 0 .. MaxEvents /\ head_first \in BOOLEAN
  /\ ShadowFitsAnswer
  /\ \E v : Path(Steps, state.out, Seen, v) /\ Promised(v)

-----------------------------------------------------------------------------
(* Frames and steps                                                        *)

LEMMA ConstantTypes ==
  /\ ToolIndex \subseteq Nat /\ MaxEvents \in Nat
  /\ NoCall \notin Call
<1>1. ToolIndex \subseteq Nat /\ MaxEvents \in Nat
  BY BoundsAssumption
<1>2. NoCall \notin Call
  BY <1>1 DEF NoCall, Call
<1> QED
  BY <1>1, <1>2

\* The frames that the code makes.
LEMMA FrameTypes ==
  ASSUME NEW n \in Nat
  PROVE  /\ \A type \in {"message_start", "start", "delta", "signature", "stop",
                         "message_delta", "message_stop", "error"} :
              Frame(type, n) \in Frames
         /\ \A kind \in Messages!Kind, call \in Call \cup {NoCall} :
              Start(n, kind, call) \in Frames
         /\ \A size \in Nat : Delta(n, size) \in Frames
         /\ \A reason \in Reasons :
              [Frame("message_delta", n) EXCEPT !.stop = reason] \in Frames
BY DEF Frame, Start, Delta, Frames, Messages!Kind

LEMMA BlockTypes ==
  /\ \A kind \in Messages!Kind, call \in Call \cup {NoCall} :
       NewBlock(kind, call) \in Messages!Block
  /\ \A b \in Messages!Block, size \in Nat :
       [b EXCEPT !.size = @ + size] \in Messages!Block
  /\ \A b \in Messages!Block : [b EXCEPT !.signed = TRUE] \in Messages!Block
  /\ \A b \in Messages!Block : [b EXCEPT !.stopped = TRUE] \in Messages!Block
<1>1. \A kind \in Messages!Kind, call \in Call \cup {NoCall} :
        NewBlock(kind, call) \in Messages!Block
  BY DEF NewBlock, Messages!Block
<1>2. ASSUME NEW b \in Messages!Block
      PROVE  /\ \A size \in Nat : [b EXCEPT !.size = @ + size] \in Messages!Block
             /\ [b EXCEPT !.signed = TRUE] \in Messages!Block
             /\ [b EXCEPT !.stopped = TRUE] \in Messages!Block
  <2>1. b.size \in Nat
    BY DEF Messages!Block
  <2>2. \A size \in Nat : b.size + size \in Nat
    BY <2>1
  <2> QED
    BY <2>2 DEF Messages!Block
<1> QED
  BY <1>1, <1>2

LEMMA ReplacedType ==
  ASSUME NEW S, NEW seq \in Seq(S), NEW n, NEW b \in S
  PROVE  /\ Replaced(seq, n, b) \in Seq(S)
         /\ Len(Replaced(seq, n, b)) = Len(seq)
         /\ \A m \in 1 .. Len(seq) : Replaced(seq, n, b)[m] = IF m = n THEN b ELSE seq[m]
<1>1. DOMAIN seq = 1 .. Len(seq) /\ Len(seq) \in Nat
  OBVIOUS
<1>2. Replaced(seq, n, b) = [m \in 1 .. Len(seq) |-> IF m = n THEN b ELSE seq[m]]
  BY <1>1 DEF Replaced
<1>3. \A m \in 1 .. Len(seq) : (IF m = n THEN b ELSE seq[m]) \in S
  OBVIOUS
<1> QED
  BY <1>1, <1>2, <1>3

LEMMA ViewType ==
  ASSUME NEW p, NEW b, NEW e
  PROVE  [phase |-> p, blocks |-> b, stop |-> e] \in View
           <=> /\ p \in {"new", "open", "stopping", "stopped", "failed"}
               /\ b \in Seq(Messages!Block) /\ e \in Reasons \cup {"none"}
BY DEF View

LEMMA AfterType ==
  ASSUME NEW v \in View, NEW f \in Frames, Legal(v, f)
  PROVE  After(v, f) \in View
<1> DEFINE old == v.blocks[f.block]
           w == After(v, f)
<1>1. /\ v.phase \in {"new", "open", "stopping", "stopped", "failed"}
      /\ v.blocks \in Seq(Messages!Block) /\ v.stop \in Reasons \cup {"none"}
  BY DEF View
<1>2. /\ f.kind \in Messages!Kind /\ f.call \in Call \cup {NoCall} /\ f.size \in Nat
      /\ f.stop \in Reasons \cup {"none"} /\ f.block \in Nat
  BY DEF Frames
<1>3. f.type \in {"delta", "signature", "stop"} => old \in Messages!Block
  BY <1>1 DEF Legal, About
<1>4. w.blocks \in Seq(Messages!Block)
  <2>1. CASE f.type = "start"
    BY <1>1, <1>2, <2>1, BlockTypes DEF After
  <2>2. CASE f.type \in {"delta", "signature", "stop"}
    <3> DEFINE new == CASE f.type = "delta" -> [old EXCEPT !.size = @ + f.size]
                        [] f.type = "signature" -> [old EXCEPT !.signed = TRUE]
                        [] f.type = "stop" -> [old EXCEPT !.stopped = TRUE]
    <3>1. w.blocks = Replaced(v.blocks, f.block, new)
      BY <2>2 DEF After
    <3>2. new \in Messages!Block
      BY <1>2, <1>3, <2>2, BlockTypes
    <3> HIDE DEF new, w
    <3> QED
      BY <1>1, <3>1, <3>2, ReplacedType
  <2>3. CASE f.type \notin {"start", "delta", "signature", "stop"}
    BY <1>1, <2>3 DEF After
  <2> QED
    BY <2>1, <2>2, <2>3
<1>5. w.phase \in {"new", "open", "stopping", "stopped", "failed"}
  BY <1>1 DEF After
<1>6. w.stop \in Reasons \cup {"none"}
  BY <1>1, <1>2 DEF After
<1>7. w = [phase |-> w.phase, blocks |-> w.blocks, stop |-> w.stop]
  BY DEF After
<1> HIDE DEF w
<1> QED
  BY <1>4, <1>5, <1>6, <1>7, ViewType DEF w

LEMMA LegalStep ==
  ASSUME NEW v \in View, NEW f \in Frames, Legal(v, f)
  PROVE  After(v, f) \in View /\ <<v, f, After(v, f)>> \in Steps
<1>1. After(v, f) \in View
  BY AfterType
<1> QED
  BY <1>1 DEF Steps

\* A step of the client's view is one of MessagesEvents.
LEMMA LegalIsMessages ==
  ASSUME Seen \in View, NEW f \in Frames, Legal(Seen, f),
         phase' = After(Seen, f).phase, blocks' = After(Seen, f).blocks,
         stop' = After(Seen, f).stop
  PROVE  Messages!Next
<1> DEFINE old == blocks[f.block]
<1>1. Seen.phase = phase /\ Seen.blocks = blocks /\ Seen.stop = stop
  BY DEF Seen
<1>2. /\ phase \in {"new", "open", "stopping", "stopped", "failed"}
      /\ blocks \in Seq(Messages!Block) /\ stop \in Reasons \cup {"none"}
  BY <1>1 DEF View
<1>3. DOMAIN blocks = 1 .. Len(blocks)
  BY <1>2
<1>4. ASSUME NEW b PROVE Replaced(blocks, f.block, b) = [blocks EXCEPT ![f.block] = b]
  BY DEF Replaced
<1>5. CASE f.type = "message_start"
  BY <1>1, <1>5 DEF Legal, After, Messages!Next, Messages!MessageStart
<1>6. CASE f.type = "start"
  <2>1. /\ f.kind \in Messages!Kind /\ f.call \in Call \cup {NoCall}
    BY DEF Frames
  <2>2. /\ phase = "open"
        /\ f.kind = "tool_use" <=> f.call # NoCall
        /\ blocks' = Append(blocks, [kind |-> f.kind, call |-> f.call, size |-> 0,
                                     signed |-> FALSE, stopped |-> FALSE])
        /\ phase' = phase /\ stop' = stop
    BY <1>1, <1>6 DEF Legal, After, NewBlock
  <2>3. Messages!BlockStart
    <3> SUFFICES \E kind \in Messages!Kind, call \in Call \cup {NoCall} :
                   /\ phase = "open"
                   /\ kind = "tool_use" <=> call # NoCall
                   /\ blocks' = Append(blocks, [kind |-> kind, call |-> call, size |-> 0,
                                                signed |-> FALSE, stopped |-> FALSE])
                   /\ phase' = phase /\ stop' = stop
      BY DEF Messages!BlockStart
    <3> QED
      BY <2>1, <2>2
  <2> QED
    BY <2>3 DEF Messages!Next
<1>7. CASE f.type \in {"delta", "signature", "stop"}
  <2>1. phase = "open" /\ f.block \in DOMAIN blocks /\ ~old.stopped
    BY <1>1, <1>3, <1>7 DEF Legal, About
  <2>2. phase' = phase /\ stop' = stop
    BY <1>1, <1>7 DEF After
  <2>3. CASE f.type = "delta"
    <3>1. blocks' = [blocks EXCEPT ![f.block] = [old EXCEPT !.size = @ + f.size]]
      BY <1>1, <1>4, <2>3 DEF After
    <3>2. f.size \in 1 .. MaxEvents /\ ~old.signed /\ old.kind # "web_search_tool_result"
      BY <1>1, <2>3 DEF Legal
    <3>3. Messages!Delta(f.block)
      BY <2>1, <2>2, <3>1, <3>2 DEF Messages!Delta, Messages!Change
    <3> QED
      BY <2>1, <3>3 DEF Messages!Next
  <2>4. CASE f.type = "signature"
    <3>1. blocks' = [blocks EXCEPT ![f.block] = [old EXCEPT !.signed = TRUE]]
      BY <1>1, <1>4, <2>4 DEF After
    <3>2. ~old.signed /\ old.kind = "thinking"
      BY <1>1, <2>4 DEF Legal
    <3>3. Messages!Sign(f.block)
      BY <2>1, <2>2, <3>1, <3>2 DEF Messages!Sign, Messages!Change
    <3> QED
      BY <2>1, <3>3 DEF Messages!Next
  <2>5. CASE f.type = "stop"
    <3>1. blocks' = [blocks EXCEPT ![f.block] = [old EXCEPT !.stopped = TRUE]]
      BY <1>1, <1>4, <2>5 DEF After
    <3>2. old.kind = "thinking" => old.signed
      BY <1>1, <2>5 DEF Legal
    <3>3. Messages!BlockStop(f.block)
      BY <2>1, <2>2, <3>1, <3>2 DEF Messages!BlockStop, Messages!Change
    <3> QED
      BY <2>1, <3>3 DEF Messages!Next
  <2> QED
    BY <1>7, <2>3, <2>4, <2>5
<1>8. CASE f.type = "message_delta"
  <2>1. /\ phase = "open" /\ f.stop \in Reasons
        /\ \A n \in DOMAIN blocks : blocks[n].stopped
    BY <1>1, <1>3, <1>8 DEF Legal
  <2>2. phase' = "stopping" /\ stop' = f.stop /\ blocks' = blocks
    BY <1>1, <1>8 DEF After
  <2>3. Messages!MessageDelta
    BY <2>1, <2>2 DEF Messages!MessageDelta, Reasons
  <2> QED
    BY <2>3 DEF Messages!Next
<1>9. CASE f.type = "message_stop"
  BY <1>1, <1>9 DEF Legal, After, Messages!Next, Messages!MessageStop
<1>10. CASE f.type = "error"
  BY <1>1, <1>10 DEF Legal, After, Messages!Next, Messages!Error
<1>11. f.type \in {"message_start", "start", "delta", "signature", "stop",
                   "message_delta", "message_stop", "error"}
  BY DEF Frames
<1> QED
  BY <1>5, <1>6, <1>7, <1>8, <1>9, <1>10, <1>11

-----------------------------------------------------------------------------
(* What was emitted leads from a view to the next                          *)

Leads(s, v, t, w) ==
  \E frames \in Seq(Frames) : t.out = s.out \o frames /\ Path(Steps, frames, v, w)

LEMMA FramesJoin ==
  \A p, q, r \in Seq(Frames) : (p \o q) \o r = p \o (q \o r)
BY ConcatAssociative

LEMMA LeadsSame ==
  ASSUME NEW s, s.out \in Seq(Frames), NEW t, t.out = s.out, NEW v
  PROVE  Leads(s, v, t, v)
<1>1. t.out = s.out \o <<>> /\ <<>> \in Seq(Frames)
  OBVIOUS
<1> QED
  BY <1>1, PathEmpty DEF Leads

LEMMA LeadsOn ==
  ASSUME NEW s, s.out \in Seq(Frames), NEW t, NEW r, NEW u, NEW v, NEW w,
         Leads(s, u, t, v), Leads(t, v, r, w)
  PROVE  Leads(s, u, r, w)
<1>1. PICK a \in Seq(Frames) : t.out = s.out \o a /\ Path(Steps, a, u, v)
  BY DEF Leads
<1>2. PICK b \in Seq(Frames) : r.out = t.out \o b /\ Path(Steps, b, v, w)
  BY DEF Leads
<1>3. Path(Steps, a \o b, u, w)
  BY <1>1, <1>2, PathJoin
<1>4. a \o b \in Seq(Frames)
  OBVIOUS
<1>5. r.out = s.out \o (a \o b)
  <2>1. r.out = (s.out \o a) \o b
    BY <1>1, <1>2
  <2>2. \A x \in Seq(Frames) : (x \o a) \o b = x \o (a \o b)
    BY ConcatAssociative
  <2> QED
    BY <2>1, <2>2
<1> QED
  BY <1>3, <1>4, <1>5 DEF Leads

LEMMA LeadsOne ==
  ASSUME NEW s, NEW v \in View, NEW f \in Frames, Legal(v, f), NEW t, t.out = s.out \o <<f>>
  PROVE  Leads(s, v, t, After(v, f)) /\ After(v, f) \in View
<1>1. After(v, f) \in View /\ <<v, f, After(v, f)>> \in Steps
  BY LegalStep
<1>2. Path(Steps, <<f>>, v, After(v, f))
  BY <1>1, PathOne
<1>3. <<f>> \in Seq(Frames)
  OBVIOUS
<1> QED
  BY <1>1, <1>2, <1>3 DEF Leads

\* What the frames of the code do to a view.
Opened(v, kind, call) ==
  [phase |-> v.phase, blocks |-> Append(v.blocks, NewBlock(kind, call)), stop |-> v.stop]
Rewritten(v, n, b) ==
  [phase |-> v.phase, blocks |-> Replaced(v.blocks, n, b), stop |-> v.stop]
Grown(v, n, size) == Rewritten(v, n, [v.blocks[n] EXCEPT !.size = @ + size])
InPhase(v, p) == [phase |-> p, blocks |-> v.blocks, stop |-> v.stop]

LEMMA OpenedIs ==
  ASSUME NEW v \in View, NEW kind \in Messages!Kind, NEW call \in Call \cup {NoCall}
  PROVE  LET w == Opened(v, kind, call) IN
         /\ w \in View /\ w.phase = v.phase /\ w.stop = v.stop
         /\ Len(w.blocks) = Len(v.blocks) + 1
         /\ w.blocks[Len(v.blocks) + 1] = NewBlock(kind, call)
         /\ \A m \in 1 .. Len(v.blocks) : w.blocks[m] = v.blocks[m]
<1> DEFINE w == Opened(v, kind, call)
<1>1. /\ v.phase \in {"new", "open", "stopping", "stopped", "failed"}
      /\ v.blocks \in Seq(Messages!Block) /\ v.stop \in Reasons \cup {"none"}
  BY DEF View
<1>2. NewBlock(kind, call) \in Messages!Block
  BY BlockTypes
<1>3. w.blocks = Append(v.blocks, NewBlock(kind, call))
  BY DEF Opened
<1>4. /\ w.blocks \in Seq(Messages!Block)
      /\ Len(w.blocks) = Len(v.blocks) + 1
      /\ w.blocks[Len(v.blocks) + 1] = NewBlock(kind, call)
      /\ \A m \in 1 .. Len(v.blocks) : w.blocks[m] = v.blocks[m]
  BY <1>1, <1>2, <1>3
<1>5. w.phase = v.phase /\ w.stop = v.stop
  BY DEF Opened
<1>6. w \in View
  BY <1>1, <1>3, <1>4, ViewType DEF Opened
<1> QED
  BY <1>4, <1>5, <1>6

LEMMA RewrittenIs ==
  ASSUME NEW v \in View, NEW n, NEW b \in Messages!Block
  PROVE  LET w == Rewritten(v, n, b) IN
         /\ w \in View /\ w.phase = v.phase /\ w.stop = v.stop
         /\ Len(w.blocks) = Len(v.blocks)
         /\ \A m \in 1 .. Len(v.blocks) : w.blocks[m] = IF m = n THEN b ELSE v.blocks[m]
<1> DEFINE w == Rewritten(v, n, b)
<1>1. /\ v.phase \in {"new", "open", "stopping", "stopped", "failed"}
      /\ v.blocks \in Seq(Messages!Block) /\ v.stop \in Reasons \cup {"none"}
  BY DEF View
<1>2. w.blocks = Replaced(v.blocks, n, b)
  BY DEF Rewritten
<1>3. /\ w.blocks \in Seq(Messages!Block)
      /\ Len(w.blocks) = Len(v.blocks)
      /\ \A m \in 1 .. Len(v.blocks) : w.blocks[m] = IF m = n THEN b ELSE v.blocks[m]
  BY <1>1, <1>2, ReplacedType
<1>4. w.phase = v.phase /\ w.stop = v.stop
  BY DEF Rewritten
<1>5. w \in View
  BY <1>1, <1>2, <1>3, ViewType DEF Rewritten
<1> QED
  BY <1>3, <1>4, <1>5

\* A block that is open and not signed may grow.
Growing(v, n) ==
  /\ v.phase = "open" /\ n \in 1 .. Len(v.blocks)
  /\ ~v.blocks[n].stopped /\ ~v.blocks[n].signed
  /\ v.blocks[n].kind # "web_search_tool_result"

LEMMA GrownIs ==
  ASSUME NEW v \in View, NEW n, Growing(v, n), NEW size \in Nat
  PROVE  LET w == Grown(v, n, size) IN
         /\ w \in View /\ w.phase = v.phase /\ w.stop = v.stop
         /\ Len(w.blocks) = Len(v.blocks)
         /\ \A m \in 1 .. Len(v.blocks) :
              /\ w.blocks[m].kind = v.blocks[m].kind
              /\ w.blocks[m].call = v.blocks[m].call
              /\ w.blocks[m].signed = v.blocks[m].signed
              /\ w.blocks[m].stopped = v.blocks[m].stopped
              /\ w.blocks[m].size = v.blocks[m].size + (IF m = n THEN size ELSE 0)
<1> DEFINE b == v.blocks[n]
           g == [b EXCEPT !.size = @ + size]
           w == Rewritten(v, n, g)
<1>1. \A m \in 1 .. Len(v.blocks) : v.blocks[m] \in Messages!Block
  BY DEF View
<1>2. b \in Messages!Block
  BY <1>1 DEF Growing
<1>3. g \in Messages!Block
  BY <1>2, BlockTypes
<1>4. /\ g.kind = b.kind /\ g.call = b.call /\ g.signed = b.signed
      /\ g.stopped = b.stopped /\ g.size = b.size + size
  BY <1>2 DEF Messages!Block
<1>5. \A m \in 1 .. Len(v.blocks) : v.blocks[m].size \in Nat
  BY <1>1 DEF Messages!Block
<1> HIDE DEF g
<1>6. /\ w \in View /\ w.phase = v.phase /\ w.stop = v.stop
      /\ Len(w.blocks) = Len(v.blocks)
      /\ \A m \in 1 .. Len(v.blocks) : w.blocks[m] = IF m = n THEN g ELSE v.blocks[m]
  BY <1>3, RewrittenIs
<1> HIDE DEF w
<1>7. \A m \in 1 .. Len(v.blocks) :
        /\ w.blocks[m].kind = v.blocks[m].kind
        /\ w.blocks[m].call = v.blocks[m].call
        /\ w.blocks[m].signed = v.blocks[m].signed
        /\ w.blocks[m].stopped = v.blocks[m].stopped
        /\ w.blocks[m].size = v.blocks[m].size + (IF m = n THEN size ELSE 0)
  BY <1>4, <1>5, <1>6
<1>8. Grown(v, n, size) = w
  BY DEF Grown, w, g
<1> QED
  BY <1>6, <1>7, <1>8

\* Frames, and the views that they lead to.
LEMMA StartLeads ==
  ASSUME NEW s, NEW v \in View, v.phase = "open",
         NEW n \in Nat, NEW kind \in Messages!Kind, NEW call \in Call \cup {NoCall},
         kind = "tool_use" <=> call # NoCall,
         NEW t, t.out = s.out \o <<Start(n, kind, call)>>
  PROVE  Leads(s, v, t, Opened(v, kind, call))
<1> DEFINE f == Start(n, kind, call)
<1>1. f \in Frames
  BY FrameTypes
<1>2. f.type = "start" /\ f.kind = kind /\ f.call = call
  BY DEF Start, Frame
<1> HIDE DEF f
<1>3. Legal(v, f)
  BY <1>2 DEF Legal
<1>4. After(v, f) = Opened(v, kind, call)
  BY <1>2 DEF After, Opened
<1>5. t.out = s.out \o <<f>>
  BY DEF f
<1> QED
  BY <1>1, <1>3, <1>4, <1>5, LeadsOne

LEMMA DeltaLeads ==
  ASSUME NEW s, NEW v \in View, NEW n, Growing(v, n), NEW size \in 1 .. MaxEvents,
         NEW t, t.out = s.out \o <<Delta(n, size)>>
  PROVE  Leads(s, v, t, Grown(v, n, size))
<1> DEFINE f == Delta(n, size)
<1>1. size \in Nat /\ n \in Nat
  BY ConstantTypes DEF Growing
<1>2. f \in Frames
  BY <1>1, FrameTypes
<1>3. f.type = "delta" /\ f.block = n /\ f.size = size
  BY DEF Delta, Frame
<1> HIDE DEF f
<1>4. Legal(v, f)
  BY <1>3 DEF Legal, Growing, About
<1>5. After(v, f) = Grown(v, n, size)
  BY <1>3 DEF After, Grown, Rewritten
<1>6. t.out = s.out \o <<f>>
  BY DEF f
<1> QED
  BY <1>2, <1>4, <1>5, <1>6, LeadsOne

LEMMA PhaseLeads ==
  ASSUME NEW s, NEW v \in View, NEW t
  PROVE  /\ v.phase = "new" /\ t.out = s.out \o <<Frame("message_start", 0)>> =>
              Leads(s, v, t, InPhase(v, "open"))
         /\ v.phase \in {"new", "open"} /\ t.out = s.out \o <<Frame("error", 0)>> =>
              Leads(s, v, t, InPhase(v, "failed"))
         /\ \A p \in {"open", "failed"} : InPhase(v, p) \in View
<1>0. 0 \in Nat
  OBVIOUS
<1>1. ASSUME v.phase = "new", t.out = s.out \o <<Frame("message_start", 0)>>
      PROVE  Leads(s, v, t, InPhase(v, "open"))
  <2> DEFINE f == Frame("message_start", 0)
  <2>1. f \in Frames
    BY <1>0, FrameTypes
  <2>2. f.type = "message_start"
    BY DEF Frame
  <2> HIDE DEF f
  <2>3. Legal(v, f) /\ After(v, f) = InPhase(v, "open")
    BY <1>1, <2>2 DEF Legal, After, InPhase
  <2>4. t.out = s.out \o <<f>>
    BY <1>1 DEF f
  <2> QED
    BY <2>1, <2>3, <2>4, LeadsOne
<1>2. ASSUME v.phase \in {"new", "open"}, t.out = s.out \o <<Frame("error", 0)>>
      PROVE  Leads(s, v, t, InPhase(v, "failed"))
  <2> DEFINE f == Frame("error", 0)
  <2>1. f \in Frames
    BY <1>0, FrameTypes
  <2>2. f.type = "error"
    BY DEF Frame
  <2> HIDE DEF f
  <2>3. Legal(v, f) /\ After(v, f) = InPhase(v, "failed")
    BY <1>2, <2>2 DEF Legal, After, InPhase
  <2>4. t.out = s.out \o <<f>>
    BY <1>2 DEF f
  <2> QED
    BY <2>1, <2>3, <2>4, LeadsOne
<1>3. \A p \in {"open", "failed"} : InPhase(v, p) \in View
  BY ViewType DEF InPhase, View
<1> QED
  BY <1>1, <1>2, <1>3

-----------------------------------------------------------------------------
(* The handlers of a generation's events                                   *)

LEMMA EmitIs ==
  ASSUME NEW s \in StreamStates, NEW frames \in Seq(Frames)
  PROVE  LET t == Emit(s, frames) IN
         /\ t \in StreamStates /\ t.out = s.out \o frames
         /\ t.started = s.started /\ t.terminal = s.terminal /\ t.finish = s.finish
         /\ t.blocks = s.blocks /\ t.text = s.text /\ t.thinking = s.thinking
         /\ t.tools = s.tools /\ t.unexposed = s.unexposed
         /\ t.asked = s.asked /\ t.round_complete = s.round_complete
<1>1. s.out \o frames \in Seq(Frames)
  BY DEF StreamStates
<1> QED
  BY <1>1 DEF Emit, StreamStates

\* A stream whose message is open, and the view that fits it.
Going(s, v, n) == Core(s, v, n) /\ s.started /\ ~s.terminal

LEMMA GoingFacts ==
  ASSUME NEW s, NEW v, NEW n, Going(s, v, n)
  PROVE  /\ s \in StreamStates /\ v \in View /\ s.out \in Seq(Frames)
         /\ v.phase = "open" /\ Len(v.blocks) = Len(s.blocks) /\ Len(s.blocks) \in Nat
         /\ \A k \in 1 .. Len(s.blocks) :
              s.blocks[k] \in {"text", "thinking", "tool_use", "closed"}
<1>1. s \in StreamStates /\ v \in View /\ Phased(s, v) /\ s.started /\ ~s.terminal
  BY DEF Going, Core
<1>2. s.blocks \in Seq({"text", "thinking", "tool_use", "closed"}) /\ s.out \in Seq(Frames)
  BY <1>1 DEF StreamStates
<1>3. v.phase = "open" /\ Len(v.blocks) = Len(s.blocks)
  BY <1>1 DEF Phased
<1> QED
  BY <1>1, <1>2, <1>3

\* A block that is not closed may grow.
LEMMA GrowFits ==
  ASSUME NEW s, NEW v, NEW n, Going(s, v, n),
         NEW k \in 1 .. Len(s.blocks), s.blocks[k] # "closed", NEW size \in 1 .. MaxEvents
  PROVE  LET t == Emit(s, <<Delta(k, size)>>)
             w == Grown(v, k, size)
         IN  Leads(s, v, t, w) /\ Going(t, w, n) /\ (Searched(v) => Searched(w))
<1> DEFINE t == Emit(s, <<Delta(k, size)>>)
           w == Grown(v, k, size)
<1>1. /\ s \in StreamStates /\ v \in View /\ s.out \in Seq(Frames)
      /\ v.phase = "open" /\ Len(v.blocks) = Len(s.blocks) /\ Len(s.blocks) \in Nat
      /\ \A m \in 1 .. Len(s.blocks) :
           s.blocks[m] \in {"text", "thinking", "tool_use", "closed"}
  BY GoingFacts
<1>2. /\ Phased(s, v) /\ Matched(s, v) /\ Called(s, v, n)
      /\ s.unexposed => ~expose
      /\ s.started /\ ~s.terminal
  BY DEF Going, Core
<1>3. Growing(v, k)
  BY <1>1, <1>2 DEF Growing, Matched
<1>4. size \in Nat /\ k \in Nat
  BY <1>1, ConstantTypes
<1>5. <<Delta(k, size)>> \in Seq(Frames)
  BY <1>4, FrameTypes
<1>6. /\ t \in StreamStates /\ t.out = s.out \o <<Delta(k, size)>>
      /\ t.started = s.started /\ t.terminal = s.terminal /\ t.finish = s.finish
      /\ t.blocks = s.blocks /\ t.text = s.text /\ t.thinking = s.thinking
      /\ t.tools = s.tools /\ t.unexposed = s.unexposed
  BY <1>1, <1>5, EmitIs
<1>7. /\ w \in View /\ w.phase = v.phase
      /\ Len(w.blocks) = Len(v.blocks)
      /\ \A m \in 1 .. Len(v.blocks) :
           /\ w.blocks[m].kind = v.blocks[m].kind
           /\ w.blocks[m].signed = v.blocks[m].signed
           /\ w.blocks[m].stopped = v.blocks[m].stopped
  BY <1>1, <1>3, <1>4, GrownIs
<1> HIDE DEF t, w
<1>8. Leads(s, v, t, w)
  BY <1>1, <1>3, <1>6, DeltaLeads DEF w
<1>9. Phased(t, w)
  BY <1>2, <1>6, <1>7 DEF Phased
<1>10. Matched(t, w)
  <2>1. ASSUME NEW m \in 1 .. Len(s.blocks)
        PROVE  /\ s.blocks[m] = "closed" => w.blocks[m].stopped
               /\ s.blocks[m] # "closed" =>
                    w.blocks[m].kind = s.blocks[m] /\ ~w.blocks[m].signed /\ ~w.blocks[m].stopped
    <3>1. /\ s.blocks[m] = "closed" => v.blocks[m].stopped
          /\ s.blocks[m] # "closed" =>
               v.blocks[m].kind = s.blocks[m] /\ ~v.blocks[m].signed /\ ~v.blocks[m].stopped
      BY <1>2 DEF Matched
    <3>2. /\ w.blocks[m].kind = v.blocks[m].kind
          /\ w.blocks[m].signed = v.blocks[m].signed
          /\ w.blocks[m].stopped = v.blocks[m].stopped
      BY <1>1, <1>7
    <3> QED
      BY <3>1, <3>2
  <2>2. /\ s.text # 0 => s.text \in 1 .. Len(s.blocks) /\ s.blocks[s.text] = "text"
        /\ s.thinking # 0 =>
             s.thinking \in 1 .. Len(s.blocks) /\ s.blocks[s.thinking] = "thinking"
    BY <1>2 DEF Matched
  <2> QED
    BY <1>6, <2>1, <2>2, Zenon DEF Matched
<1>11. Called(t, w, n)
  <2>1. ASSUME NEW i \in DOMAIN s.tools
        PROVE  /\ s.tools[i].pending <= n /\ n > 0
               /\ s.tools[i].server <=> search /\ s.tools[i].name = "search"
               /\ s.tools[i].block # 0 =>
                    /\ s.tools[i].block \in 1 .. Len(s.blocks)
                    /\ s.blocks[s.tools[i].block] = "tool_use"
                    /\ w.blocks[s.tools[i].block].kind = "tool_use"
    BY <1>1, <1>2, <1>7 DEF Called
  <2>2. ASSUME NEW m \in 1 .. Len(w.blocks), w.blocks[m].kind = "tool_use"
        PROVE  \E i \in DOMAIN s.tools : s.tools[i].block = m
    BY <1>2, <1>7, <2>2 DEF Called
  <2>3. IsFiniteSet(DOMAIN s.tools)
    BY <1>2 DEF Called
  <2> QED
    BY <1>6, <2>1, <2>2, <2>3 DEF Called
<1>12. Searched(v) => Searched(w)
  BY <1>1, <1>7 DEF Searched
<1> QED
  BY <1>2, <1>6, <1>7, <1>8, <1>9, <1>10, <1>11, <1>12 DEF Going, Core, t, w

\* A new block of text or thinking.
LEMMA OpenFits ==
  ASSUME NEW s, NEW v, NEW n, Going(s, v, n), NEW kind \in {"text", "thinking"},
         NEW t \in StreamStates,
         t.started = s.started, t.terminal = s.terminal, t.finish = s.finish,
         t.tools = s.tools, t.unexposed = s.unexposed,
         t.blocks = Append(s.blocks, kind),
         t.out = s.out \o <<Start(Len(s.blocks) + 1, kind, NoCall)>>,
         t.text = (IF kind = "text" THEN Len(s.blocks) + 1 ELSE s.text),
         t.thinking = (IF kind = "thinking" THEN Len(s.blocks) + 1 ELSE s.thinking)
  PROVE  LET w == Opened(v, kind, NoCall)
         IN  Leads(s, v, t, w) /\ Going(t, w, n)
<1> DEFINE w == Opened(v, kind, NoCall)
           L == Len(s.blocks)
<1>1. /\ s \in StreamStates /\ v \in View /\ s.out \in Seq(Frames)
      /\ v.phase = "open" /\ Len(v.blocks) = L /\ L \in Nat
      /\ \A m \in 1 .. L : s.blocks[m] \in {"text", "thinking", "tool_use", "closed"}
  BY GoingFacts
<1>2. /\ Phased(s, v) /\ Matched(s, v) /\ Called(s, v, n)
      /\ s.unexposed => ~expose
      /\ s.started /\ ~s.terminal
  BY DEF Going, Core
<1>3. kind \in Messages!Kind /\ NoCall \in Call \cup {NoCall} /\ kind # "tool_use" /\ L + 1 \in Nat
  BY <1>1 DEF Messages!Kind
<1>4. Leads(s, v, t, w)
  BY <1>1, <1>3, StartLeads
<1>5. /\ w \in View /\ w.phase = v.phase
      /\ Len(w.blocks) = L + 1
      /\ w.blocks[L + 1] = NewBlock(kind, NoCall)
      /\ \A m \in 1 .. L : w.blocks[m] = v.blocks[m]
  BY <1>1, <1>3, OpenedIs
<1>6. /\ w.blocks[L + 1].kind = kind /\ ~w.blocks[L + 1].signed /\ ~w.blocks[L + 1].stopped
  BY <1>5 DEF NewBlock
<1>7. /\ Len(t.blocks) = L + 1 /\ t.blocks[L + 1] = kind
      /\ \A m \in 1 .. L : t.blocks[m] = s.blocks[m]
  BY <1>1 DEF StreamStates
<1>8. \A m \in 1 .. L + 1 : m \in 1 .. L \/ m = L + 1
  BY <1>1
<1>9. \A m \in 1 .. L : m \in 1 .. L + 1 /\ m # L + 1
  BY <1>1
<1> HIDE DEF w, L
<1>10. Phased(t, w)
  BY <1>1, <1>2, <1>5, <1>7 DEF Phased, L
<1>11. Matched(t, w)
  <2>1. ASSUME NEW m \in 1 .. L + 1
        PROVE  /\ t.blocks[m] = "closed" => w.blocks[m].stopped
               /\ t.blocks[m] # "closed" =>
                    w.blocks[m].kind = t.blocks[m] /\ ~w.blocks[m].signed /\ ~w.blocks[m].stopped
    <3>1. CASE m \in 1 .. L
      <4>1. /\ s.blocks[m] = "closed" => v.blocks[m].stopped
            /\ s.blocks[m] # "closed" =>
                 v.blocks[m].kind = s.blocks[m] /\ ~v.blocks[m].signed /\ ~v.blocks[m].stopped
        BY <1>2, <3>1 DEF Matched, L
      <4>2. w.blocks[m] = v.blocks[m] /\ t.blocks[m] = s.blocks[m]
        BY <1>5, <1>7, <3>1
      <4> QED
        BY <4>1, <4>2
    <3>2. CASE m = L + 1
      BY <1>6, <1>7, <3>2
    <3> QED
      BY <1>8, <3>1, <3>2
  <2>2. t.text # 0 => t.text \in 1 .. L + 1 /\ t.blocks[t.text] = "text"
    <3>1. CASE kind = "text"
      BY <1>1, <1>7, <3>1 DEF L
    <3>2. CASE kind # "text"
      BY <1>2, <1>7, <1>9, <3>2 DEF Matched, L
    <3> QED
      BY <3>1, <3>2
  <2>3. t.thinking # 0 => t.thinking \in 1 .. L + 1 /\ t.blocks[t.thinking] = "thinking"
    <3>1. CASE kind = "thinking"
      BY <1>1, <1>7, <3>1 DEF L
    <3>2. CASE kind # "thinking"
      BY <1>2, <1>7, <1>9, <3>2 DEF Matched, L
    <3> QED
      BY <3>1, <3>2
  <2> QED
    BY <1>7, <2>1, <2>2, <2>3 DEF Matched
<1>12. Called(t, w, n)
  <2>1. ASSUME NEW i \in DOMAIN t.tools
        PROVE  /\ t.tools[i].pending <= n /\ n > 0
               /\ t.tools[i].server <=> search /\ t.tools[i].name = "search"
               /\ t.tools[i].block # 0 =>
                    /\ t.tools[i].block \in 1 .. L + 1
                    /\ t.blocks[t.tools[i].block] = "tool_use"
                    /\ w.blocks[t.tools[i].block].kind = "tool_use"
    <3>1. /\ s.tools[i].pending <= n /\ n > 0
          /\ s.tools[i].server <=> search /\ s.tools[i].name = "search"
          /\ s.tools[i].block # 0 =>
               /\ s.tools[i].block \in 1 .. L
               /\ s.blocks[s.tools[i].block] = "tool_use"
               /\ v.blocks[s.tools[i].block].kind = "tool_use"
      BY <1>2 DEF Called, L
    <3> QED
      BY <1>5, <1>7, <1>9, <3>1
  <2>2. ASSUME NEW m \in 1 .. L + 1, w.blocks[m].kind = "tool_use"
        PROVE  \E i \in DOMAIN t.tools : t.tools[i].block = m
    <3>1. m \in 1 .. L
      BY <1>3, <1>6, <1>8, <2>2
    <3>2. v.blocks[m].kind = "tool_use" /\ m \in 1 .. Len(v.blocks)
      BY <1>1, <1>5, <2>2, <3>1
    <3> QED
      BY <1>2, <3>2 DEF Called
  <2> QED
    BY <1>2, <1>5, <1>7, <2>1, <2>2 DEF Called
<1> QED
  BY <1>2, <1>4, <1>5, <1>10, <1>11, <1>12 DEF Going, Core, w

\* A call gets its block: s becomes StartTool(s, i, tool), v this.
Shown(i, tool) ==
  [index |-> i, id |-> tool.id, name |-> IF tool.name = "" THEN "unknown" ELSE tool.name]
Started(v, i, tool) ==
  LET w == Opened(v, "tool_use", Shown(i, tool)) IN
  IF tool.pending = 0 THEN w ELSE Grown(w, Len(v.blocks) + 1, tool.pending)

Placed(tool, n) == [tool EXCEPT !.block = n, !.pending = 0]

\* What a call is before it has its block.
Startable(s, i, tool, n) ==
  /\ i \in ToolIndex /\ tool \in Tool /\ tool.pending <= n /\ n \in 1 .. MaxEvents
  /\ tool.server <=> search /\ tool.name = "search"
  /\ i \in DOMAIN s.tools => s.tools[i].block = 0

LEMMA ToolsTypes ==
  ASSUME NEW tools \in Tools
  PROVE  /\ DOMAIN tools \subseteq ToolIndex
         /\ \A i \in DOMAIN tools : tools[i] \in Tool
         /\ \A i \in ToolIndex, tool \in Tool : Put(tools, i, tool) \in Tools
<1>1. PICK I \in SUBSET ToolIndex : tools \in [I -> Tool]
  BY DEF Tools
<1>2. DOMAIN tools = I
  BY <1>1
<1>3. ASSUME NEW i \in ToolIndex, NEW tool \in Tool
      PROVE  Put(tools, i, tool) \in Tools
  <2>1. I \cup {i} \in SUBSET ToolIndex
    OBVIOUS
  <2>2. Put(tools, i, tool) \in [I \cup {i} -> Tool]
    BY <1>1, <1>2 DEF Put
  <2> QED
    BY <2>1, <2>2 DEF Tools
<1> QED
  BY <1>1, <1>2, <1>3

LEMMA ShownType ==
  ASSUME NEW i \in ToolIndex, NEW tool \in Tool
  PROVE  Shown(i, tool) \in Call /\ Shown(i, tool) # NoCall
<1>1. Shown(i, tool) \in Call
  BY DEF Shown, Tool, Call, Name
<1> QED
  BY <1>1, ConstantTypes

LEMMA StartToolFits ==
  ASSUME NEW s, NEW v, NEW n, Going(s, v, n), NEW i, NEW tool, Startable(s, i, tool, n)
  PROVE  LET t == StartTool(s, i, tool)
             w == Started(v, i, tool)
         IN  /\ Leads(s, v, t, w) /\ Going(t, w, n) /\ (Searched(v) => Searched(w))
             /\ t.tools = Put(s.tools, i, Placed(tool, Len(s.blocks) + 1))
             /\ t.finish = s.finish /\ t.text = s.text /\ t.thinking = s.thinking
<1> DEFINE L == Len(s.blocks)
           call == Shown(i, tool)
           new == Placed(tool, L + 1)
           r == OpenBlock([s EXCEPT !.tools = Put(@, i, new)], "tool_use", call)
           u == Opened(v, "tool_use", call)
           t == StartTool(s, i, tool)
           w == Started(v, i, tool)
<1>1. /\ s \in StreamStates /\ v \in View /\ s.out \in Seq(Frames)
      /\ v.phase = "open" /\ Len(v.blocks) = L /\ L \in Nat
      /\ \A m \in 1 .. L : s.blocks[m] \in {"text", "thinking", "tool_use", "closed"}
  BY GoingFacts
<1>2. /\ Phased(s, v) /\ Matched(s, v) /\ Called(s, v, n)
      /\ s.unexposed => ~expose
      /\ s.started /\ ~s.terminal
  BY DEF Going, Core
<1>3. /\ i \in ToolIndex /\ tool \in Tool /\ tool.pending <= n /\ n \in 1 .. MaxEvents
      /\ tool.server <=> search /\ tool.name = "search"
      /\ i \in DOMAIN s.tools => s.tools[i].block = 0
  BY DEF Startable
<1>4. /\ new \in Tool /\ new.block = L + 1 /\ new.pending = 0
      /\ new.server = tool.server /\ new.name = tool.name /\ new.id = tool.id
  <2> DEFINE K == L + 1
  <2>1. K \in Nat
    BY <1>1
  <2> HIDE DEF K
  <2> SUFFICES LET e == [tool EXCEPT !.block = K, !.pending = 0]
               IN  /\ e \in Tool /\ e.block = K /\ e.pending = 0
                   /\ e.server = tool.server /\ e.name = tool.name /\ e.id = tool.id
    BY DEF K, Placed
  <2> QED
    BY <1>3, <2>1 DEF Tool
<1>5. call \in Call /\ call # NoCall /\ "tool_use" \in Messages!Kind /\ L + 1 \in Nat
  BY <1>1, <1>3, ShownType DEF Messages!Kind
<1>6. s.tools \in Tools /\ s.blocks \in Seq({"text", "thinking", "tool_use", "closed"})
  BY <1>1 DEF StreamStates
<1> HIDE DEF new, call
<1>7. /\ Put(s.tools, i, new) \in Tools
      /\ Append(s.blocks, "tool_use") \in Seq({"text", "thinking", "tool_use", "closed"})
      /\ <<Start(L + 1, "tool_use", call)>> \in Seq(Frames)
      /\ s.out \o <<Start(L + 1, "tool_use", call)>> \in Seq(Frames)
  <2> DEFINE g == Start(L + 1, "tool_use", call)
  <2>1. Put(s.tools, i, new) \in Tools
    BY <1>3, <1>4, <1>6, ToolsTypes
  <2>2. Append(s.blocks, "tool_use") \in Seq({"text", "thinking", "tool_use", "closed"})
    BY <1>6
  <2>3. g \in Frames
    BY <1>5, FrameTypes
  <2> HIDE DEF g
  <2>4. <<g>> \in Seq(Frames) /\ s.out \o <<g>> \in Seq(Frames)
    BY <1>1, <2>3
  <2> QED
    BY <2>1, <2>2, <2>4 DEF g
<1>8. /\ r \in StreamStates /\ r.out = s.out \o <<Start(L + 1, "tool_use", call)>>
      /\ r.started = s.started /\ r.terminal = s.terminal /\ r.finish = s.finish
      /\ r.blocks = Append(s.blocks, "tool_use")
      /\ r.text = s.text /\ r.thinking = s.thinking /\ r.unexposed = s.unexposed
      /\ r.tools = Put(s.tools, i, new)
  BY <1>1, <1>7 DEF OpenBlock, Emit, StreamStates
<1>9. /\ t = IF tool.pending = 0 THEN r ELSE Emit(r, <<Delta(Len(r.blocks), tool.pending)>>)
      /\ w = IF tool.pending = 0 THEN u ELSE Grown(u, L + 1, tool.pending)
  BY <1>1 DEF StartTool, Started, Shown, Placed, new, call
<1>10. Leads(s, v, r, u)
  BY <1>1, <1>5, <1>8, StartLeads
<1>11. /\ u \in View /\ u.phase = v.phase
       /\ Len(u.blocks) = L + 1
       /\ u.blocks[L + 1] = NewBlock("tool_use", call)
       /\ \A m \in 1 .. L : u.blocks[m] = v.blocks[m]
  BY <1>1, <1>5, OpenedIs
<1>12. /\ u.blocks[L + 1].kind = "tool_use" /\ ~u.blocks[L + 1].signed
       /\ ~u.blocks[L + 1].stopped
  BY <1>11 DEF NewBlock
<1> HIDE DEF r, u
<1>13. /\ Len(r.blocks) = L + 1 /\ r.blocks[L + 1] = "tool_use"
       /\ \A m \in 1 .. L : r.blocks[m] = s.blocks[m]
  BY <1>1, <1>6, <1>8
<1>14. \A m \in 1 .. L + 1 : m \in 1 .. L \/ m = L + 1
  BY <1>1
<1>15. \A m \in 1 .. L : m \in 1 .. L + 1 /\ m # L + 1 /\ m # 0
  BY <1>1
<1>16. /\ DOMAIN r.tools = DOMAIN s.tools \cup {i} /\ r.tools[i] = new
       /\ \A j \in DOMAIN s.tools : j # i => r.tools[j] = s.tools[j]
  <2> DEFINE p == Put(s.tools, i, new)
  <2>1. r.tools = p
    BY <1>8
  <2>2. /\ DOMAIN p = DOMAIN s.tools \cup {i} /\ p[i] = new
        /\ \A j \in DOMAIN s.tools : j # i => p[j] = s.tools[j]
    BY DEF Put
  <2> HIDE DEF p
  <2> QED
    BY <2>1, <2>2
<1>17. L + 1 \in 1 .. L + 1 /\ L + 1 # 0
  BY <1>1
<1>18. Phased(r, u)
  BY <1>1, <1>2, <1>8, <1>11, <1>13 DEF Phased, L
<1>19. Matched(r, u)
  <2>1. ASSUME NEW m \in 1 .. L + 1
        PROVE  /\ r.blocks[m] = "closed" => u.blocks[m].stopped
               /\ r.blocks[m] # "closed" =>
                    u.blocks[m].kind = r.blocks[m] /\ ~u.blocks[m].signed /\ ~u.blocks[m].stopped
    <3>1. CASE m \in 1 .. L
      <4>1. /\ s.blocks[m] = "closed" => v.blocks[m].stopped
            /\ s.blocks[m] # "closed" =>
                 v.blocks[m].kind = s.blocks[m] /\ ~v.blocks[m].signed /\ ~v.blocks[m].stopped
        BY <1>2, <3>1 DEF Matched, L
      <4>2. u.blocks[m] = v.blocks[m] /\ r.blocks[m] = s.blocks[m]
        BY <1>11, <1>13, <3>1
      <4> QED
        BY <4>1, <4>2
    <3>2. CASE m = L + 1
      BY <1>12, <1>13, <3>2
    <3> QED
      BY <1>14, <3>1, <3>2
  <2>2. /\ r.text # 0 => r.text \in 1 .. L + 1 /\ r.blocks[r.text] = "text"
        /\ r.thinking # 0 => r.thinking \in 1 .. L + 1 /\ r.blocks[r.thinking] = "thinking"
    <3>1. /\ s.text # 0 => s.text \in 1 .. L /\ s.blocks[s.text] = "text"
          /\ s.thinking # 0 => s.thinking \in 1 .. L /\ s.blocks[s.thinking] = "thinking"
      BY <1>2 DEF Matched, L
    <3> QED
      BY <1>8, <1>13, <1>15, <3>1
  <2> QED
    BY <1>13, <2>1, <2>2 DEF Matched
<1>20. Called(r, u, n)
  <2>1. ASSUME NEW j \in DOMAIN r.tools
        PROVE  /\ r.tools[j].pending <= n /\ n > 0
               /\ r.tools[j].server <=> search /\ r.tools[j].name = "search"
               /\ r.tools[j].block # 0 =>
                    /\ r.tools[j].block \in 1 .. L + 1
                    /\ r.blocks[r.tools[j].block] = "tool_use"
                    /\ u.blocks[r.tools[j].block].kind = "tool_use"
    <3>1. CASE j = i
      <4>1. r.tools[j] = new
        BY <1>16, <3>1
      <4>2. n > 0 /\ 0 <= n
        BY <1>3, ConstantTypes
      <4> QED
        BY <1>3, <1>4, <1>12, <1>13, <1>17, <4>1, <4>2
    <3>2. CASE j # i
      <4>1. r.tools[j] = s.tools[j] /\ j \in DOMAIN s.tools
        BY <1>16, <3>2
      <4>2. /\ s.tools[j].pending <= n /\ n > 0
            /\ s.tools[j].server <=> search /\ s.tools[j].name = "search"
            /\ s.tools[j].block # 0 =>
                 /\ s.tools[j].block \in 1 .. L
                 /\ s.blocks[s.tools[j].block] = "tool_use"
                 /\ v.blocks[s.tools[j].block].kind = "tool_use"
        BY <1>2, <4>1 DEF Called, L
      <4> QED
        BY <1>11, <1>13, <1>15, <4>1, <4>2
    <3> QED
      BY <3>1, <3>2
  <2>2. ASSUME NEW m \in 1 .. L + 1, u.blocks[m].kind = "tool_use"
        PROVE  \E j \in DOMAIN r.tools : r.tools[j].block = m
    <3>1. CASE m \in 1 .. L
      <4>1. v.blocks[m].kind = "tool_use" /\ m \in 1 .. Len(v.blocks)
        BY <1>1, <1>11, <2>2, <3>1
      <4>2. PICK j \in DOMAIN s.tools : s.tools[j].block = m
        BY <1>2, <4>1 DEF Called
      <4>3. j # i
        BY <1>3, <1>15, <3>1, <4>2
      <4> QED
        BY <1>16, <4>2, <4>3
    <3>2. CASE m = L + 1
      BY <1>4, <1>16, <3>2
    <3> QED
      BY <1>14, <3>1, <3>2
  <2>3. IsFiniteSet(DOMAIN r.tools)
    <3>1. IsFiniteSet(DOMAIN s.tools)
      BY <1>2 DEF Called
    <3> QED
      BY <1>16, <3>1, FS_AddElement
  <2> QED
    BY <1>11, <1>13, <2>1, <2>2, <2>3 DEF Called
<1>21. Going(r, u, n)
  BY <1>2, <1>8, <1>11, <1>18, <1>19, <1>20 DEF Going, Core
<1>22. Searched(v) => Searched(u)
  BY <1>1, <1>11, <1>15 DEF Searched
<1>23. CASE tool.pending = 0
  BY <1>8, <1>9, <1>10, <1>21, <1>22, <1>23 DEF t, w, new, L
<1>24. CASE tool.pending # 0
  <2>1. tool.pending \in 1 .. MaxEvents /\ L + 1 \in 1 .. Len(r.blocks)
    BY <1>3, <1>13, <1>17, <1>24, ConstantTypes DEF Tool
  <2>2. /\ Leads(r, u, Emit(r, <<Delta(L + 1, tool.pending)>>), Grown(u, L + 1, tool.pending))
        /\ Going(Emit(r, <<Delta(L + 1, tool.pending)>>), Grown(u, L + 1, tool.pending), n)
        /\ Searched(u) => Searched(Grown(u, L + 1, tool.pending))
    BY <1>13, <1>21, <2>1, GrowFits
  <2>3. t = Emit(r, <<Delta(L + 1, tool.pending)>>) /\ w = Grown(u, L + 1, tool.pending)
    BY <1>9, <1>13, <1>24
  <2>4. Leads(r, u, t, w) /\ Going(t, w, n) /\ (Searched(v) => Searched(w))
    BY <1>22, <2>2, <2>3
  <2>5. Leads(s, v, t, w)
    BY <1>1, <1>10, <2>4, LeadsOn
  <2>6. <<Delta(L + 1, tool.pending)>> \in Seq(Frames)
    BY <1>5, <2>1, ConstantTypes, FrameTypes
  <2> HIDE DEF t, w
  <2>7. t.tools = r.tools /\ t.finish = r.finish /\ t.text = r.text /\ t.thinking = r.thinking
    BY <1>8, <2>3, <2>6, EmitIs
  <2> QED
    BY <1>8, <2>4, <2>5, <2>7 DEF t, w, new, L
<1> QED
  BY <1>23, <1>24

LEMMA LaterCore ==
  ASSUME NEW s, NEW v, NEW n \in Nat, Core(s, v, n)
  PROVE  Core(s, v, n + 1)
<1>1. Called(s, v, n)
  BY DEF Core
<1>2. ASSUME NEW i \in DOMAIN s.tools
      PROVE  s.tools[i].pending <= n + 1 /\ n + 1 > 0
  <2>1. s \in StreamStates
    BY DEF Core
  <2>2. s.tools \in Tools
    BY <2>1 DEF StreamStates
  <2>3. s.tools[i] \in Tool
    BY <2>2, ToolsTypes
  <2>4. s.tools[i].pending \in Nat
    BY <2>3 DEF Tool
  <2> QED
    BY <1>1, <2>4 DEF Called
<1>3. Called(s, v, n + 1)
  BY <1>1, <1>2 DEF Called
<1> QED
  BY <1>3 DEF Core

\* The first event opens the message.
Begun(s, v) == IF s.started THEN v ELSE InPhase(v, "open")

LEMMA BeginFits ==
  ASSUME NEW s, NEW v, NEW n, Fits(s, v, n), ~s.terminal
  PROVE  LET t == EnsureStarted(s)
             w == Begun(s, v)
         IN  /\ Leads(s, v, t, w) /\ Going(t, w, n) /\ Hidden(t)
             /\ t.finish = s.finish /\ t.text = s.text /\ t.thinking = s.thinking
             /\ t.tools = s.tools /\ t.blocks = s.blocks /\ t.unexposed = s.unexposed
             /\ w.blocks = v.blocks /\ w.phase = "open"
<1> DEFINE t == EnsureStarted(s)
           w == Begun(s, v)
<1>1. /\ s \in StreamStates /\ v \in View /\ Phased(s, v) /\ Matched(s, v) /\ Called(s, v, n)
      /\ s.unexposed => ~expose
      /\ Hidden(s)
  BY DEF Fits, Core
<1>2. s.out \in Seq(Frames)
  BY <1>1 DEF StreamStates
<1>3. CASE s.started
  <2>1. t = s /\ w = v
    BY <1>3 DEF EnsureStarted, Begun
  <2>2. Leads(s, v, t, w)
    BY <1>2, <2>1, LeadsSame
  <2> QED
    BY <1>1, <1>3, <2>1, <2>2 DEF Going, Fits, Phased
<1>4. CASE ~s.started
  <2> DEFINE f == Frame("message_start", 0)
  <2>1. <<f>> \in Seq(Frames)
    BY FrameTypes
  <2>2. /\ t \in StreamStates /\ t.out = s.out \o <<f>>
        /\ t.started /\ t.terminal = s.terminal /\ t.finish = s.finish
        /\ t.blocks = s.blocks /\ t.text = s.text /\ t.thinking = s.thinking
        /\ t.tools = s.tools /\ t.unexposed = s.unexposed
    <3> DEFINE r == [s EXCEPT !.started = TRUE]
    <3>1. /\ r \in StreamStates /\ r.out = s.out
          /\ r.started /\ r.terminal = s.terminal /\ r.finish = s.finish
          /\ r.blocks = s.blocks /\ r.text = s.text /\ r.thinking = s.thinking
          /\ r.tools = s.tools /\ r.unexposed = s.unexposed
      BY <1>1 DEF StreamStates
    <3> DEFINE fs == <<f>>
               e == Emit(r, fs)
    <3>2. t = e
      BY <1>4 DEF EnsureStarted
    <3>3. fs \in Seq(Frames)
      BY <2>1
    <3> HIDE DEF r, f, t, fs
    <3>4. /\ e \in StreamStates /\ e.out = r.out \o fs
          /\ e.started = r.started /\ e.terminal = r.terminal /\ e.finish = r.finish
          /\ e.blocks = r.blocks /\ e.text = r.text /\ e.thinking = r.thinking
          /\ e.tools = r.tools /\ e.unexposed = r.unexposed
      BY <3>1, <3>3, EmitIs
    <3> HIDE DEF e
    <3> QED
      BY <3>1, <3>2, <3>4 DEF fs
  <2>3. v.phase = "new"
    BY <1>1, <1>4 DEF Phased
  <2>4. w = InPhase(v, "open") /\ w \in View
    BY <1>1, <1>4, PhaseLeads DEF Begun
  <2>5. w.phase = "open" /\ w.blocks = v.blocks
    BY <2>4 DEF InPhase
  <2> HIDE DEF t, w
  <2>6. Leads(s, v, t, w)
    BY <1>1, <2>2, <2>3, <2>4, PhaseLeads
  <2>7. Phased(t, w)
    BY <1>1, <2>2, <2>5 DEF Phased
  <2>8. Matched(t, w) /\ Called(t, w, n) /\ Hidden(t)
    BY <1>1, <2>2, <2>5 DEF Matched, Called, Hidden
  <2> QED
    BY <1>1, <1>4, <2>2, <2>4, <2>5, <2>6, <2>7, <2>8 DEF Going, Core, t, w
<1> QED
  BY <1>3, <1>4

\* Text, and thinking, are added to their block, or to a new one.
Added(v, block, kind) ==
  IF block # 0 THEN Grown(v, block, 1)
  ELSE Grown(Opened(v, kind, NoCall), Len(v.blocks) + 1, 1)

LEMMA TextFits ==
  ASSUME NEW s, NEW v, NEW n \in 1 .. MaxEvents, Going(s, v, n)
  PROVE  LET t == HandleText(s)
             w == Added(v, s.text, "text")
         IN  /\ Leads(s, v, t, w) /\ Going(t, w, n)
             /\ t.tools = s.tools /\ t.finish = s.finish /\ t.thinking = s.thinking
             /\ t.text = (IF s.text = 0 THEN Len(s.blocks) + 1 ELSE s.text)
<1> DEFINE t == HandleText(s)
           w == Added(v, s.text, "text")
           L == Len(s.blocks)
<1>1. /\ s \in StreamStates /\ v \in View /\ s.out \in Seq(Frames)
      /\ v.phase = "open" /\ Len(v.blocks) = L /\ L \in Nat
  BY GoingFacts
<1>2. Matched(s, v)
  BY DEF Going, Core
<1>3. 1 \in 1 .. MaxEvents /\ 1 \in Nat
  BY ConstantTypes
<1>4. CASE s.text # 0
  <2>1. t = Emit(s, <<Delta(s.text, 1)>>) /\ w = Grown(v, s.text, 1)
    BY <1>4 DEF HandleText, EnsureText, Added
  <2>2. s.text \in 1 .. Len(s.blocks) /\ s.blocks[s.text] # "closed"
    BY <1>2, <1>4 DEF Matched
  <2>3. Leads(s, v, t, w) /\ Going(t, w, n)
    BY <1>3, <2>1, <2>2, GrowFits
  <2>4. /\ t.tools = s.tools /\ t.finish = s.finish /\ t.thinking = s.thinking
        /\ t.text = s.text
    BY <1>1, <2>1 DEF Emit, StreamStates
  <2> QED
    BY <1>4, <2>3, <2>4
<1>5. CASE s.text = 0
  <2> DEFINE r == EnsureText(s)
             u == Opened(v, "text", NoCall)
             f == Start(L + 1, "text", NoCall)
  <2>1. f \in Frames /\ L + 1 \in Nat
    <3>1. L + 1 \in Nat /\ "text" \in Messages!Kind
      BY <1>1 DEF Messages!Kind
    <3> QED
      BY <3>1, FrameTypes
  <2>2. /\ s.blocks \in Seq({"text", "thinking", "tool_use", "closed"})
        /\ Append(s.blocks, "text") \in Seq({"text", "thinking", "tool_use", "closed"})
        /\ s.out \o <<f>> \in Seq(Frames)
    BY <1>1, <2>1 DEF StreamStates
  <2>3. r = [Emit([s EXCEPT !.blocks = Append(@, "text")], <<f>>) EXCEPT !.text = L + 1]
    BY <1>5 DEF EnsureText, OpenBlock
  <2> HIDE DEF r, u, f
  <2>4. /\ r \in StreamStates /\ r.out = s.out \o <<f>>
        /\ r.started = s.started /\ r.terminal = s.terminal /\ r.finish = s.finish
        /\ r.tools = s.tools /\ r.unexposed = s.unexposed
        /\ r.blocks = Append(s.blocks, "text")
        /\ r.text = L + 1 /\ r.thinking = s.thinking
    BY <1>1, <2>1, <2>2, <2>3 DEF Emit, StreamStates
  <2>5. Leads(s, v, r, u) /\ Going(r, u, n)
    BY <2>4, OpenFits DEF u, f
  <2>6. /\ L + 1 \in 1 .. Len(r.blocks) /\ r.blocks[L + 1] # "closed"
    BY <1>1, <2>2, <2>4
  <2>7. t = Emit(r, <<Delta(L + 1, 1)>>) /\ w = Grown(u, L + 1, 1)
    BY <1>1, <1>5, <2>4 DEF HandleText, Added, r, u
  <2>8. Leads(r, u, t, w) /\ Going(t, w, n)
    BY <1>3, <2>5, <2>6, <2>7, GrowFits
  <2>9. Leads(s, v, t, w)
    BY <1>1, <2>5, <2>8, LeadsOn
  <2>10. /\ t.tools = s.tools /\ t.finish = s.finish /\ t.thinking = s.thinking
         /\ t.text = L + 1
    BY <2>4, <2>7 DEF Emit, StreamStates
  <2> QED
    BY <1>5, <2>8, <2>9, <2>10
<1> QED
  BY <1>4, <1>5

LEMMA ReasoningFits ==
  ASSUME NEW s, NEW v, NEW n \in 1 .. MaxEvents, Going(s, v, n), expose
  PROVE  LET t == HandleReasoning(s)
             w == Added(v, s.thinking, "thinking")
         IN  /\ Leads(s, v, t, w) /\ Going(t, w, n)
             /\ t.tools = s.tools /\ t.finish = s.finish /\ t.text = s.text
             /\ t.thinking = (IF s.thinking = 0 THEN Len(s.blocks) + 1 ELSE s.thinking)
<1> DEFINE t == HandleReasoning(s)
           w == Added(v, s.thinking, "thinking")
           L == Len(s.blocks)
<1>1. /\ s \in StreamStates /\ v \in View /\ s.out \in Seq(Frames)
      /\ v.phase = "open" /\ Len(v.blocks) = L /\ L \in Nat
  BY GoingFacts
<1>2. Matched(s, v)
  BY DEF Going, Core
<1>3. 1 \in 1 .. MaxEvents /\ 1 \in Nat
  BY ConstantTypes
<1>4. CASE s.thinking # 0
  <2>1. t = Emit(s, <<Delta(s.thinking, 1)>>) /\ w = Grown(v, s.thinking, 1)
    BY <1>4 DEF HandleReasoning, EnsureThinking, Added
  <2>2. s.thinking \in 1 .. Len(s.blocks) /\ s.blocks[s.thinking] # "closed"
    BY <1>2, <1>4 DEF Matched
  <2>3. Leads(s, v, t, w) /\ Going(t, w, n)
    BY <1>3, <2>1, <2>2, GrowFits
  <2>4. /\ t.tools = s.tools /\ t.finish = s.finish /\ t.text = s.text
        /\ t.thinking = s.thinking
    BY <1>1, <2>1 DEF Emit, StreamStates
  <2> QED
    BY <1>4, <2>3, <2>4
<1>5. CASE s.thinking = 0
  <2> DEFINE r == EnsureThinking(s)
             u == Opened(v, "thinking", NoCall)
             f == Start(L + 1, "thinking", NoCall)
  <2>1. f \in Frames /\ L + 1 \in Nat
    <3>1. L + 1 \in Nat /\ "thinking" \in Messages!Kind
      BY <1>1 DEF Messages!Kind
    <3> QED
      BY <3>1, FrameTypes
  <2>2. /\ s.blocks \in Seq({"text", "thinking", "tool_use", "closed"})
        /\ Append(s.blocks, "thinking") \in Seq({"text", "thinking", "tool_use", "closed"})
        /\ s.out \o <<f>> \in Seq(Frames)
    BY <1>1, <2>1 DEF StreamStates
  <2>3. r = [Emit([s EXCEPT !.blocks = Append(@, "thinking")], <<f>>) EXCEPT !.thinking = L + 1]
    BY <1>5 DEF EnsureThinking, OpenBlock
  <2> HIDE DEF r, u, f
  <2>4. /\ r \in StreamStates /\ r.out = s.out \o <<f>>
        /\ r.started = s.started /\ r.terminal = s.terminal /\ r.finish = s.finish
        /\ r.tools = s.tools /\ r.unexposed = s.unexposed
        /\ r.blocks = Append(s.blocks, "thinking")
        /\ r.thinking = L + 1 /\ r.text = s.text
    BY <1>1, <2>1, <2>2, <2>3 DEF Emit, StreamStates
  <2>5. Leads(s, v, r, u) /\ Going(r, u, n)
    BY <2>4, OpenFits DEF u, f
  <2>6. /\ L + 1 \in 1 .. Len(r.blocks) /\ r.blocks[L + 1] # "closed"
    BY <1>1, <2>2, <2>4
  <2>7. t = Emit(r, <<Delta(L + 1, 1)>>) /\ w = Grown(u, L + 1, 1)
    BY <1>1, <1>5, <2>4 DEF HandleReasoning, Added, r, u
  <2>8. Leads(r, u, t, w) /\ Going(t, w, n)
    BY <1>3, <2>5, <2>6, <2>7, GrowFits
  <2>9. Leads(s, v, t, w)
    BY <1>1, <2>5, <2>8, LeadsOn
  <2>10. /\ t.tools = s.tools /\ t.finish = s.finish /\ t.text = s.text
         /\ t.thinking = L + 1
    BY <2>4, <2>7 DEF Emit, StreamStates
  <2> QED
    BY <1>5, <2>8, <2>9, <2>10
<1> QED
  BY <1>4, <1>5

LEMMA KeptBackFits ==
  ASSUME NEW s, NEW v, NEW n, Going(s, v, n), ~expose
  PROVE  LET t == HandleReasoning(s)
         IN  /\ Leads(s, v, t, v) /\ Going(t, v, n)
             /\ t.tools = s.tools /\ t.finish = s.finish /\ t.thinking = s.thinking
             /\ t.text = s.text
<1> DEFINE t == HandleReasoning(s)
<1>1. s \in StreamStates /\ s.out \in Seq(Frames)
  BY GoingFacts
<1>2. /\ t \in StreamStates /\ t.out = s.out
      /\ t.started = s.started /\ t.terminal = s.terminal /\ t.finish = s.finish
      /\ t.blocks = s.blocks /\ t.text = s.text /\ t.thinking = s.thinking
      /\ t.tools = s.tools
  BY <1>1 DEF HandleReasoning, StreamStates
<1> HIDE DEF t
<1>3. Leads(s, v, t, v)
  BY <1>1, <1>2, LeadsSame
<1>4. Phased(t, v) /\ Matched(t, v) /\ Called(t, v, n)
  BY <1>2 DEF Going, Core, Phased, Matched, Called
<1>5. Going(t, v, n)
  BY <1>2, <1>4 DEF Going, Core
<1> QED
  BY <1>2, <1>3, <1>5 DEF t

\* What is known of a call, when a part of it has come, and whether it gets its
\* block then: as HandleTool has it.
Heard(s, f) ==
  LET old == IF f.index \in DOMAIN s.tools THEN s.tools[f.index] ELSE NewTool
      name == IF f.name = "" THEN old.name ELSE f.name
  IN  [old EXCEPT !.id = @ \/ f.id, !.name = name,
                  !.server = @ \/ (search /\ name = "search")]
Starts(s, f) ==
  Heard(s, f).block = 0 /\ ~search /\ (Heard(s, f).name # "" \/ f.args)
ToolSeen(s, v, f) ==
  LET tool == Heard(s, f) IN
  CASE Starts(s, f) /\ f.args ->
         Grown(Started(v, f.index, tool), Len(s.blocks) + 1, 1)
    [] Starts(s, f) /\ ~f.args -> Started(v, f.index, tool)
    [] ~Starts(s, f) /\ f.args /\ tool.block # 0 -> Grown(v, tool.block, 1)
    [] OTHER -> v

\* A call has one name.
Named(s, f) ==
  f.index \in DOMAIN s.tools /\ f.name # "" => s.tools[f.index].name \in {"", f.name}

LEMMA HeardIs ==
  ASSUME NEW s \in StreamStates, NEW f \in Fragment
  PROVE  LET old == IF f.index \in DOMAIN s.tools THEN s.tools[f.index] ELSE NewTool
             tool == Heard(s, f)
         IN  /\ f.index \in ToolIndex /\ f.name \in Name /\ f.id \in BOOLEAN /\ f.args \in BOOLEAN
             /\ old \in Tool /\ tool \in Tool
             /\ tool.block = old.block /\ tool.pending = old.pending
             /\ tool.id <=> old.id \/ f.id
             /\ tool.name = (IF f.name = "" THEN old.name ELSE f.name)
             /\ tool.server <=> old.server \/ (search /\ tool.name = "search")
<1> DEFINE old == IF f.index \in DOMAIN s.tools THEN s.tools[f.index] ELSE NewTool
           tool == Heard(s, f)
           name == IF f.name = "" THEN old.name ELSE f.name
           server == old.server \/ (search /\ name = "search")
           id == old.id \/ f.id
<1>1. f.index \in ToolIndex /\ f.name \in Name /\ f.id \in BOOLEAN /\ f.args \in BOOLEAN
  BY DEF Fragment
<1>2. s.tools \in Tools
  BY DEF StreamStates
<1>3. NewTool \in Tool
  BY DEF NewTool, Tool, Name
<1>4. old \in Tool
  BY <1>2, <1>3, ToolsTypes
<1>5. tool = [old EXCEPT !.id = id, !.name = name, !.server = server]
  BY DEF Heard
<1>6. name \in Name /\ server \in BOOLEAN /\ id \in BOOLEAN
  BY <1>1, <1>4 DEF Tool
<1> HIDE DEF tool, server, id, name, old
<1>7. /\ tool \in Tool /\ tool.block = old.block /\ tool.pending = old.pending
      /\ tool.id = id /\ tool.name = name /\ tool.server = server
  BY <1>4, <1>5, <1>6 DEF Tool
<1>8. (tool.id <=> id) /\ (tool.server <=> server)
  BY <1>7
<1> QED
  BY <1>1, <1>4, <1>7, <1>8 DEF tool, server, id, name, old

\* A call is written, and no block is shown.
Wrote(s, i, tool) == [s EXCEPT !.tools = Put(@, i, tool)]

LEMMA PutToolFits ==
  ASSUME NEW s, NEW v, NEW n, Going(s, v, n), NEW i \in ToolIndex, NEW tool \in Tool,
         tool.pending <= n, n > 0,
         tool.server <=> search /\ tool.name = "search",
         tool.block = (IF i \in DOMAIN s.tools THEN s.tools[i].block ELSE 0)
  PROVE  LET t == Wrote(s, i, tool)
         IN  /\ Leads(s, v, t, v) /\ Going(t, v, n)
             /\ t.tools = Put(s.tools, i, tool) /\ t.finish = s.finish
             /\ t.text = s.text /\ t.thinking = s.thinking /\ t.blocks = s.blocks
<1> DEFINE t == Wrote(s, i, tool)
           p == Put(s.tools, i, tool)
<1>1. s \in StreamStates /\ s.out \in Seq(Frames)
  BY GoingFacts
<1>2. /\ Phased(s, v) /\ Matched(s, v) /\ Called(s, v, n)
      /\ s.unexposed => ~expose
      /\ s.started /\ ~s.terminal /\ v \in View
  BY DEF Going, Core
<1>3. s.tools \in Tools
  BY <1>1 DEF StreamStates
<1>4. p \in Tools
  BY <1>3, ToolsTypes
<1>5. /\ DOMAIN p = DOMAIN s.tools \cup {i} /\ p[i] = tool
      /\ \A j \in DOMAIN s.tools : j # i => p[j] = s.tools[j]
  BY DEF Put
<1> HIDE DEF p
<1>6. /\ t \in StreamStates /\ t.out = s.out
      /\ t.started = s.started /\ t.terminal = s.terminal /\ t.finish = s.finish
      /\ t.blocks = s.blocks /\ t.text = s.text /\ t.thinking = s.thinking
      /\ t.unexposed = s.unexposed /\ t.tools = p
  BY <1>1, <1>4 DEF Wrote, StreamStates, p
<1> HIDE DEF t
<1>7. Leads(s, v, t, v)
  BY <1>1, <1>6, LeadsSame
<1>8. Phased(t, v) /\ Matched(t, v)
  BY <1>2, <1>6 DEF Phased, Matched
<1>9. Called(t, v, n)
  <2>1. ASSUME NEW j \in DOMAIN p
        PROVE  /\ p[j].pending <= n /\ n > 0
               /\ p[j].server <=> search /\ p[j].name = "search"
               /\ p[j].block # 0 =>
                    /\ p[j].block \in 1 .. Len(s.blocks)
                    /\ s.blocks[p[j].block] = "tool_use"
                    /\ v.blocks[p[j].block].kind = "tool_use"
    <3>1. \A k \in DOMAIN s.tools :
            /\ s.tools[k].pending <= n
            /\ s.tools[k].server <=> search /\ s.tools[k].name = "search"
            /\ s.tools[k].block # 0 =>
                 /\ s.tools[k].block \in 1 .. Len(s.blocks)
                 /\ s.blocks[s.tools[k].block] = "tool_use"
                 /\ v.blocks[s.tools[k].block].kind = "tool_use"
      BY <1>2 DEF Called
    <3>2. CASE j = i
      <4>1. p[j] = tool
        BY <1>5, <3>2
      <4> QED
        BY <3>1, <3>2, <4>1
    <3>3. CASE j # i
      <4>1. p[j] = s.tools[j] /\ j \in DOMAIN s.tools
        BY <1>5, <3>3
      <4> QED
        BY <3>1, <4>1
    <3> QED
      BY <3>2, <3>3
  <2>2. ASSUME NEW m \in 1 .. Len(v.blocks), v.blocks[m].kind = "tool_use"
        PROVE  \E j \in DOMAIN p : p[j].block = m
    <3>1. PICK j \in DOMAIN s.tools : s.tools[j].block = m
      BY <1>2, <2>2 DEF Called
    <3>2. p[j].block = m
      BY <1>5, <3>1
    <3> QED
      BY <1>5, <3>1, <3>2
  <2>3. IsFiniteSet(DOMAIN p)
    <3>1. IsFiniteSet(DOMAIN s.tools)
      BY <1>2 DEF Called
    <3> QED
      BY <1>5, <3>1, FS_AddElement
  <2> QED
    BY <1>6, <2>1, <2>2, <2>3 DEF Called
<1>10. Going(t, v, n)
  BY <1>2, <1>6, <1>8, <1>9 DEF Going, Core
<1> QED
  BY <1>6, <1>7, <1>10 DEF t, p

LEMMA ToolFits ==
  ASSUME NEW s, NEW v, NEW m \in Nat, m + 1 \in 1 .. MaxEvents, Going(s, v, m), Hidden(s),
         NEW f \in Fragment, Named(s, f)
  PROVE  LET t == HandleTool(s, f)
             w == ToolSeen(s, v, f)
             i == f.index
         IN  /\ Leads(s, v, t, w) /\ Going(t, w, m + 1) /\ Hidden(t)
             /\ t.finish = s.finish /\ t.text = s.text /\ t.thinking = s.thinking
             /\ DOMAIN t.tools = DOMAIN s.tools \cup {i}
             /\ \A j \in DOMAIN s.tools : j # i => t.tools[j] = s.tools[j]
             /\ t.tools[i].name = Heard(s, f).name /\ t.tools[i].id = Heard(s, f).id
             /\ t.tools[i].block = (IF Starts(s, f) THEN Len(s.blocks) + 1
                                    ELSE Heard(s, f).block)
<1> DEFINE i == f.index
           n == m + 1
           tool == Heard(s, f)
           t == HandleTool(s, f)
           w == ToolSeen(s, v, f)
           L == Len(s.blocks)
           known == IF Starts(s, f) THEN StartTool(s, i, tool)
                    ELSE Wrote(s, i, tool)
           u == IF Starts(s, f) THEN Started(v, i, tool) ELSE v
           block == IF Starts(s, f) THEN L + 1 ELSE tool.block
           noted == [tool EXCEPT !.block = block,
                                 !.pending = IF Starts(s, f) THEN 0 ELSE @]
<1> HIDE DEF tool, noted, known, u, t, w
<1>1. /\ s \in StreamStates /\ v \in View /\ s.out \in Seq(Frames) /\ L \in Nat
      /\ v.phase = "open" /\ Len(v.blocks) = L /\ Called(s, v, m)
      /\ s.tools \in Tools
  BY GoingFacts DEF Going, Core, StreamStates
<1>2. /\ i \in ToolIndex /\ f.args \in BOOLEAN /\ tool \in Tool
      /\ i \in DOMAIN s.tools =>
           /\ tool.block = s.tools[i].block /\ tool.pending = s.tools[i].pending
           /\ tool.server <=> s.tools[i].server \/ (search /\ tool.name = "search")
           /\ tool.name = (IF f.name = "" THEN s.tools[i].name ELSE f.name)
      /\ i \notin DOMAIN s.tools =>
           /\ tool.block = 0 /\ tool.pending = 0
           /\ tool.server <=> search /\ tool.name = "search"
  <2> DEFINE old == IF i \in DOMAIN s.tools THEN s.tools[i] ELSE NewTool
  <2>1. /\ i \in ToolIndex /\ f.args \in BOOLEAN /\ tool \in Tool
        /\ tool.block = old.block /\ tool.pending = old.pending
        /\ tool.name = (IF f.name = "" THEN old.name ELSE f.name)
        /\ tool.server <=> old.server \/ (search /\ tool.name = "search")
    BY <1>1, HeardIs DEF tool
  <2>2. i \in DOMAIN s.tools => old = s.tools[i]
    OBVIOUS
  <2>3. i \notin DOMAIN s.tools => old.block = 0 /\ old.pending = 0 /\ old.server = FALSE
    BY DEF NewTool
  <2> HIDE DEF old
  <2> QED
    BY <2>1, <2>2, <2>3
<1>3. Going(s, v, n)
  BY LaterCore DEF Going
<1>4. tool.pending <= m /\ tool.pending \in Nat /\ n > 0 /\ n \in Nat
  <2>1. tool.pending \in Nat
    BY <1>2 DEF Tool
  <2>2. tool.pending <= m
    <3>1. CASE i \in DOMAIN s.tools
      BY <1>1, <1>2, <3>1 DEF Called
    <3>2. CASE i \notin DOMAIN s.tools
      <4>1. tool.pending = 0
        BY <1>2, <3>2
      <4> QED
        BY <4>1
    <3> QED
      BY <3>1, <3>2
  <2> QED
    BY <2>1, <2>2
<1>5. tool.server <=> search /\ tool.name = "search"
  <2>1. CASE i \in DOMAIN s.tools
    <3>1. s.tools[i].server <=> search /\ s.tools[i].name = "search"
      BY <1>1, <2>1 DEF Called
    <3>2. s.tools[i].name = "search" => tool.name = "search"
      BY <1>2, <2>1 DEF Named
    <3> QED
      BY <1>2, <2>1, <3>1, <3>2
  <2>2. CASE i \notin DOMAIN s.tools
    BY <1>2, <2>2
  <2> QED
    BY <2>1, <2>2
<1>6. tool.block = (IF i \in DOMAIN s.tools THEN s.tools[i].block ELSE 0)
  BY <1>2
<1>7. block \in Nat /\ noted.block = block /\ noted.name = tool.name /\ noted.id = tool.id
  <2>1. tool.block \in Nat
    BY <1>2 DEF Tool
  <2>2. block \in Nat
    BY <1>1, <2>1
  <2> HIDE DEF block
  <2> QED
    BY <1>2, <2>2 DEF Tool, noted
<1>8. /\ Leads(s, v, known, u) /\ Going(known, u, n)
      /\ known.tools = Put(s.tools, i, noted)
      /\ known.finish = s.finish /\ known.text = s.text /\ known.thinking = s.thinking
  <2>1. CASE Starts(s, f)
    <3>1. Startable(s, i, tool, n)
      <4>1. tool.block = 0
        BY <2>1 DEF Starts, tool
      <4>2. tool.pending <= n
        BY <1>4
      <4> QED
        BY <1>2, <1>5, <1>6, <4>1, <4>2 DEF Startable
    <3>2. noted = Placed(tool, L + 1)
      BY <2>1 DEF noted, Placed
    <3>3. known = StartTool(s, i, tool) /\ u = Started(v, i, tool)
      BY <2>1 DEF known, u
    <3> HIDE DEF n, i
    <3>4. /\ Leads(s, v, StartTool(s, i, tool), Started(v, i, tool))
          /\ Going(StartTool(s, i, tool), Started(v, i, tool), n)
          /\ StartTool(s, i, tool).tools = Put(s.tools, i, Placed(tool, L + 1))
          /\ StartTool(s, i, tool).finish = s.finish
          /\ StartTool(s, i, tool).text = s.text
          /\ StartTool(s, i, tool).thinking = s.thinking
      BY <1>3, <3>1, StartToolFits
    <3> QED
      BY <3>2, <3>3, <3>4
  <2>2. CASE ~Starts(s, f)
    <3>1. noted = tool
      BY <1>2, <2>2 DEF Tool, noted
    <3>2. known = Wrote(s, i, tool) /\ u = v
      BY <2>2 DEF known, u
    <3>3. tool.pending <= n
      BY <1>4
    <3> DEFINE r == Wrote(s, i, tool)
    <3> HIDE DEF n, i
    <3>4. /\ Leads(s, v, r, v) /\ Going(r, v, n)
          /\ r.tools = Put(s.tools, i, tool) /\ r.finish = s.finish
          /\ r.text = s.text /\ r.thinking = s.thinking
      <4>1. Going(s, v, n) /\ i \in ToolIndex /\ tool \in Tool /\ n > 0
        BY <1>2, <1>3, <1>4
      <4>2. tool.server <=> search /\ tool.name = "search"
        BY <1>5
      <4>3. tool.block = (IF i \in DOMAIN s.tools THEN s.tools[i].block ELSE 0)
        BY <1>6
      <4> QED
        BY <4>1, <4>2, <4>3, <3>3, PutToolFits
    <3> HIDE DEF r
    <3> QED
      BY <3>1, <3>2, <3>4 DEF r
  <2> QED
    BY <2>1, <2>2
<1>9. /\ DOMAIN known.tools = DOMAIN s.tools \cup {i} /\ known.tools[i] = noted
      /\ \A j \in DOMAIN s.tools : j # i => known.tools[j] = s.tools[j]
  <2> DEFINE p == Put(s.tools, i, noted)
  <2>1. /\ DOMAIN p = DOMAIN s.tools \cup {i} /\ p[i] = noted
        /\ \A j \in DOMAIN s.tools : j # i => p[j] = s.tools[j]
    BY DEF Put
  <2> HIDE DEF p
  <2> QED
    BY <1>8, <2>1 DEF p
<1>10. search /\ ~s.terminal => ~Starts(s, f) /\ tool.block = 0
       /\ \A j \in DOMAIN s.tools : s.tools[j].block = 0
  BY <1>2 DEF Hidden, Starts, tool
<1>11. /\ t = CASE ~f.args -> known
                [] f.args /\ block # 0 -> Emit(known, <<Delta(block, 1)>>)
                [] f.args /\ block = 0 -> [known EXCEPT !.tools[i].pending = @ + 1]
  <2>1. known.tools[i].block = block
    BY <1>7, <1>9
  <2>2. t = CASE ~f.args -> known
              [] f.args /\ known.tools[i].block # 0 ->
                   Emit(known, <<Delta(known.tools[i].block, 1)>>)
              [] f.args /\ known.tools[i].block = 0 ->
                   [known EXCEPT !.tools[i].pending = @ + 1]
    BY DEF HandleTool, Heard, Starts, Wrote, t, known, tool
  <2> HIDE DEF block
  <2> QED
    BY <2>1, <2>2
<1>12. w = IF f.args /\ block # 0 THEN Grown(u, block, 1) ELSE u
  <2>1. w = CASE Starts(s, f) /\ f.args -> Grown(Started(v, i, tool), L + 1, 1)
              [] Starts(s, f) /\ ~f.args -> Started(v, i, tool)
              [] ~Starts(s, f) /\ f.args /\ tool.block # 0 -> Grown(v, tool.block, 1)
              [] OTHER -> v
    BY DEF w, ToolSeen, tool
  <2>2. CASE Starts(s, f)
    <3>1. u = Started(v, i, tool) /\ block = L + 1 /\ block # 0
      BY <1>1, <2>2 DEF u
    <3> QED
      BY <1>2, <2>1, <2>2, <3>1
  <2>3. CASE ~Starts(s, f)
    <3>1. u = v /\ block = tool.block
      BY <2>3 DEF u
    <3> QED
      BY <1>2, <2>1, <2>3, <3>1
  <2> QED
    BY <2>2, <2>3
<1>13. CASE ~f.args
  <2>1. t = known /\ w = u
    BY <1>11, <1>12, <1>13
  <2>2. Hidden(t)
    BY <1>7, <1>8, <1>9, <1>10, <2>1 DEF Hidden, Going
  <2> QED
    BY <1>7, <1>8, <1>9, <2>1, <2>2 DEF t, w, tool
<1>14. CASE f.args /\ block # 0
  <2>1. t = Emit(known, <<Delta(block, 1)>>) /\ w = Grown(u, block, 1)
    BY <1>11, <1>12, <1>14
  <2>2. block \in 1 .. Len(known.blocks) /\ known.blocks[block] = "tool_use"
    BY <1>7, <1>8, <1>9, <1>14 DEF Going, Core, Called
  <2>3. 1 \in 1 .. MaxEvents
    BY ConstantTypes
  <2>4. Leads(known, u, t, w) /\ Going(t, w, n)
    BY <1>8, <2>1, <2>2, <2>3, GrowFits
  <2>5. Leads(s, v, t, w)
    BY <1>1, <1>8, <2>4, LeadsOn
  <2>6. /\ t.tools = known.tools /\ t.finish = known.finish /\ t.text = known.text
        /\ t.thinking = known.thinking /\ t.terminal = known.terminal
    <3>1. known \in StreamStates
      BY <1>8 DEF Going, Core
    <3> QED
      BY <2>1, <3>1 DEF Emit, StreamStates
  <2>7. Hidden(t)
    BY <1>7, <1>8, <1>9, <1>10, <2>6 DEF Hidden, Going
  <2> QED
    BY <1>7, <1>8, <1>9, <2>4, <2>5, <2>6, <2>7 DEF t, w, tool
<1>15. CASE f.args /\ block = 0
  <2> DEFINE more == [noted EXCEPT !.pending = @ + 1]
  <2>1. ~Starts(s, f) /\ tool.block = 0
    BY <1>1, <1>15
  <2>2. noted = tool
    BY <1>2, <2>1 DEF noted, Tool
  <2>3. /\ more \in Tool /\ more.block = 0 /\ more.pending <= n
        /\ more.name = tool.name /\ more.id = tool.id /\ more.server = tool.server
    <3>1. tool.pending + 1 \in Nat /\ tool.pending + 1 <= n
      BY <1>4
    <3>2. more = [tool EXCEPT !.pending = tool.pending + 1]
      BY <2>2
    <3> DEFINE K == tool.pending + 1
    <3> HIDE DEF K, more
    <3>3. more = [tool EXCEPT !.pending = K]
      BY <3>2 DEF K
    <3>4. K \in Nat /\ K <= n
      BY <3>1 DEF K
    <3> QED
      BY <1>2, <2>1, <3>3, <3>4 DEF Tool
  <2> DEFINE r == Wrote(s, i, more)
             p == Put(s.tools, i, more)
  <2>4. known = [s EXCEPT !.tools = Put(@, i, tool)] /\ u = v /\ w = u
    BY <1>12, <1>15, <2>1 DEF known, u, Wrote
  <2>5. t = r
    <3>1. t = [known EXCEPT !.tools[i].pending = @ + 1]
      BY <1>11, <1>15
    <3>2. t = [known EXCEPT !.tools = [known.tools EXCEPT ![i] = more]]
      BY <1>9, <3>1
    <3>3. [known.tools EXCEPT ![i] = more] = p
      <4>1. known.tools = Put(s.tools, i, noted)
        BY <1>8
      <4> HIDE DEF more
      <4> QED
        BY <4>1 DEF Put
    <3>4. [known EXCEPT !.tools = p] = [s EXCEPT !.tools = p]
      <4> HIDE DEF p
      <4> QED
        BY <1>1, <2>4 DEF StreamStates
    <3> HIDE DEF p, more
    <3> QED
      BY <3>2, <3>3, <3>4 DEF p, Wrote
  <2>6. more.server <=> search /\ more.name = "search"
    BY <1>5, <2>3
  <2>7. more.block = (IF i \in DOMAIN s.tools THEN s.tools[i].block ELSE 0)
    BY <1>6, <2>1, <2>3
  <2> HIDE DEF more, n, i
  <2>8. /\ Leads(s, v, r, v) /\ Going(r, v, n)
        /\ r.tools = p /\ r.finish = s.finish
        /\ r.text = s.text /\ r.thinking = s.thinking
    <3>1. i \in ToolIndex /\ more \in Tool /\ more.pending <= n /\ n > 0
      BY <1>2, <1>4, <2>3
    <3> QED
      BY <1>3, <2>6, <2>7, <3>1, PutToolFits
  <2>9. /\ DOMAIN p = DOMAIN s.tools \cup {i} /\ p[i] = more
        /\ \A j \in DOMAIN s.tools : j # i => p[j] = s.tools[j]
    BY DEF Put
  <2> HIDE DEF r, p
  <2>10. Hidden(t)
    BY <1>10, <2>3, <2>5, <2>8, <2>9 DEF Hidden, Going
  <2> QED
    BY <2>1, <2>3, <2>4, <2>5, <2>8, <2>9, <2>10 DEF t, w, tool, n, i
<1> QED
  BY <1>2, <1>13, <1>14, <1>15

-----------------------------------------------------------------------------
(* The end of an answer                                                    *)

\* k is the function that StopAll is read off from; StartAll; Show.
Stops(s, N, k) ==
  k = [m \in 0 .. N |-> IF m = 0 THEN s ELSE Emit(k[m - 1], StopFrames(s, m))]

LEMMA StopsExists ==
  ASSUME NEW s, NEW N \in Nat
  PROVE  \E k : Stops(s, N, k)
<1> DEFINE Good == {m \in 0 .. N : \E k : Stops(s, m, k)}
<1>1. 0 \in Good
  <2> DEFINE k == [m \in 0 .. 0 |-> s]
  <2>1. Stops(s, 0, k)
    BY DEF Stops
  <2> QED
    BY <2>1
<1>2. ASSUME NEW m \in 0 .. N - 1, m \in Good
      PROVE  m + 1 \in Good
  <2>1. PICK k : Stops(s, m, k)
    BY <1>2
  <2> DEFINE last == Emit(k[m], StopFrames(s, m + 1))
             h == [i \in 0 .. m + 1 |-> IF i = m + 1 THEN last ELSE k[i]]
             H == [i \in 0 .. m + 1 |-> IF i = 0 THEN s ELSE Emit(h[i - 1], StopFrames(s, i))]
  <2>2. ASSUME NEW i \in 0 .. m + 1
        PROVE  h[i] = H[i]
    <3>1. CASE i = m + 1
      <4>1. h[i] = last /\ h[m] = k[m]
        BY <3>1
      <4> HIDE DEF h
      <4> QED
        BY <3>1, <4>1
    <3>2. CASE i \in 0 .. m
      <4>1. h[i] = k[i] /\ (i # 0 => h[i - 1] = k[i - 1])
        BY <3>2
      <4>2. k[i] = IF i = 0 THEN s ELSE Emit(k[i - 1], StopFrames(s, i))
        BY <2>1, <3>2 DEF Stops
      <4> HIDE DEF h
      <4> QED
        BY <3>2, <4>1, <4>2
    <3> QED
      BY <3>1, <3>2
  <2>3. h = H
    <3>1. h = [i \in 0 .. m + 1 |-> h[i]] /\ H = [i \in 0 .. m + 1 |-> H[i]]
      OBVIOUS
    <3> HIDE DEF h, H
    <3> QED
      BY <2>2, <3>1
  <2>4. Stops(s, m + 1, h)
    <3> HIDE DEF h
    <3> QED
      BY <2>3 DEF Stops
  <2> QED
    BY <2>4
<1>3. \A m \in 0 .. N : m \in Good
  <2> HIDE DEF Good
  <2> QED
    BY <1>1, <1>2, CountingInduction
<1> QED
  BY <1>3

Begins(s, order, N, k) ==
  k = [m \in 0 .. N |-> IF m = 0 THEN s ELSE StartTool(k[m - 1], order[m], k[m - 1].tools[order[m]])]

LEMMA BeginsExists ==
  ASSUME NEW s, NEW order, NEW N \in Nat
  PROVE  \E k : Begins(s, order, N, k)
<1> DEFINE Good == {m \in 0 .. N : \E k : Begins(s, order, m, k)}
<1>1. 0 \in Good
  <2> DEFINE k == [m \in 0 .. 0 |-> s]
  <2>1. Begins(s, order, 0, k)
    BY DEF Begins
  <2> QED
    BY <2>1
<1>2. ASSUME NEW m \in 0 .. N - 1, m \in Good
      PROVE  m + 1 \in Good
  <2>1. PICK k : Begins(s, order, m, k)
    BY <1>2
  <2> DEFINE last == StartTool(k[m], order[m + 1], k[m].tools[order[m + 1]])
             h == [i \in 0 .. m + 1 |-> IF i = m + 1 THEN last ELSE k[i]]
             H == [i \in 0 .. m + 1 |-> IF i = 0 THEN s ELSE StartTool(h[i - 1], order[i], h[i - 1].tools[order[i]])]
  <2>2. ASSUME NEW i \in 0 .. m + 1
        PROVE  h[i] = H[i]
    <3>1. CASE i = m + 1
      <4>1. h[i] = last /\ h[m] = k[m]
        BY <3>1
      <4> HIDE DEF h
      <4> QED
        BY <3>1, <4>1
    <3>2. CASE i \in 0 .. m
      <4>1. h[i] = k[i] /\ (i # 0 => h[i - 1] = k[i - 1])
        BY <3>2
      <4>2. k[i] = IF i = 0 THEN s ELSE StartTool(k[i - 1], order[i], k[i - 1].tools[order[i]])
        BY <2>1, <3>2 DEF Begins
      <4> HIDE DEF h
      <4> QED
        BY <3>2, <4>1, <4>2
    <3> QED
      BY <3>1, <3>2
  <2>3. h = H
    <3>1. h = [i \in 0 .. m + 1 |-> h[i]] /\ H = [i \in 0 .. m + 1 |-> H[i]]
      OBVIOUS
    <3> HIDE DEF h, H
    <3> QED
      BY <2>2, <3>1
  <2>4. Begins(s, order, m + 1, h)
    <3> HIDE DEF h
    <3> QED
      BY <2>3 DEF Begins
  <2> QED
    BY <2>4
<1>3. \A m \in 0 .. N : m \in Good
  <2> HIDE DEF Good
  <2> QED
    BY <1>1, <1>2, CountingInduction
<1> QED
  BY <1>3

Shows(s, kind, deltas, N, k) ==
  k = [m \in 0 .. N |-> IF m = 0 THEN s ELSE ShowOne(k[m - 1], kind, deltas)]

LEMMA ShowsExists ==
  ASSUME NEW s, NEW kind, NEW deltas, NEW N \in Nat
  PROVE  \E k : Shows(s, kind, deltas, N, k)
<1> DEFINE Good == {m \in 0 .. N : \E k : Shows(s, kind, deltas, m, k)}
<1>1. 0 \in Good
  <2> DEFINE k == [m \in 0 .. 0 |-> s]
  <2>1. Shows(s, kind, deltas, 0, k)
    BY DEF Shows
  <2> QED
    BY <2>1
<1>2. ASSUME NEW m \in 0 .. N - 1, m \in Good
      PROVE  m + 1 \in Good
  <2>1. PICK k : Shows(s, kind, deltas, m, k)
    BY <1>2
  <2> DEFINE last == ShowOne(k[m], kind, deltas)
             h == [i \in 0 .. m + 1 |-> IF i = m + 1 THEN last ELSE k[i]]
             H == [i \in 0 .. m + 1 |-> IF i = 0 THEN s ELSE ShowOne(h[i - 1], kind, deltas)]
  <2>2. ASSUME NEW i \in 0 .. m + 1
        PROVE  h[i] = H[i]
    <3>1. CASE i = m + 1
      <4>1. h[i] = last /\ h[m] = k[m]
        BY <3>1
      <4> HIDE DEF h
      <4> QED
        BY <3>1, <4>1
    <3>2. CASE i \in 0 .. m
      <4>1. h[i] = k[i] /\ (i # 0 => h[i - 1] = k[i - 1])
        BY <3>2
      <4>2. k[i] = IF i = 0 THEN s ELSE ShowOne(k[i - 1], kind, deltas)
        BY <2>1, <3>2 DEF Shows
      <4> HIDE DEF h
      <4> QED
        BY <3>2, <4>1, <4>2
    <3> QED
      BY <3>1, <3>2
  <2>3. h = H
    <3>1. h = [i \in 0 .. m + 1 |-> h[i]] /\ H = [i \in 0 .. m + 1 |-> H[i]]
      OBVIOUS
    <3> HIDE DEF h, H
    <3> QED
      BY <2>2, <3>1
  <2>4. Shows(s, kind, deltas, m + 1, h)
    <3> HIDE DEF h
    <3> QED
      BY <2>3 DEF Shows
  <2> QED
    BY <2>4
<1>3. \A m \in 0 .. N : m \in Good
  <2> HIDE DEF Good
  <2> QED
    BY <1>1, <1>2, CountingInduction
<1> QED
  BY <1>3

LEMMA StopLeads ==
  ASSUME NEW s, NEW v \in View, NEW n, v.phase = "open", n \in 1 .. Len(v.blocks),
         ~v.blocks[n].stopped, NEW t
  PROVE  LET b == v.blocks[n] IN
         /\ (b.kind = "thinking" => b.signed) /\ t.out = s.out \o <<Frame("stop", n)>> =>
              Leads(s, v, t, Rewritten(v, n, [b EXCEPT !.stopped = TRUE]))
         /\ b.kind = "thinking" /\ ~b.signed /\ t.out = s.out \o <<Frame("signature", n)>> =>
              Leads(s, v, t, Rewritten(v, n, [b EXCEPT !.signed = TRUE]))
<1> DEFINE b == v.blocks[n]
<1>1. n \in Nat
  OBVIOUS
<1>2. ASSUME b.kind = "thinking" => b.signed, t.out = s.out \o <<Frame("stop", n)>>
      PROVE  Leads(s, v, t, Rewritten(v, n, [b EXCEPT !.stopped = TRUE]))
  <2> DEFINE f == Frame("stop", n)
  <2>1. f \in Frames
    BY <1>1, FrameTypes
  <2>2. f.type = "stop" /\ f.block = n
    BY DEF Frame
  <2> HIDE DEF f
  <2>3. Legal(v, f)
    BY <1>2, <2>2 DEF Legal, About
  <2>4. After(v, f) = Rewritten(v, n, [b EXCEPT !.stopped = TRUE])
    BY <2>2 DEF After, Rewritten
  <2>5. t.out = s.out \o <<f>>
    BY <1>2 DEF f
  <2>6. Leads(s, v, t, After(v, f))
    BY <2>1, <2>3, <2>5, LeadsOne
  <2> QED
    BY <2>4, <2>6
<1>3. ASSUME b.kind = "thinking", ~b.signed, t.out = s.out \o <<Frame("signature", n)>>
      PROVE  Leads(s, v, t, Rewritten(v, n, [b EXCEPT !.signed = TRUE]))
  <2> DEFINE f == Frame("signature", n)
  <2>1. f \in Frames
    BY <1>1, FrameTypes
  <2>2. f.type = "signature" /\ f.block = n
    BY DEF Frame
  <2> HIDE DEF f
  <2>3. Legal(v, f)
    BY <1>3, <2>2 DEF Legal, About
  <2>4. After(v, f) = Rewritten(v, n, [b EXCEPT !.signed = TRUE])
    BY <2>2 DEF After, Rewritten
  <2>5. t.out = s.out \o <<f>>
    BY <1>3 DEF f
  <2>6. Leads(s, v, t, After(v, f))
    BY <2>1, <2>3, <2>5, LeadsOne
  <2> QED
    BY <2>4, <2>6
<1> QED
  BY <1>2, <1>3

LEMMA JoinTwo ==
  ASSUME NEW S, NEW seq \in Seq(S), NEW a \in S, NEW b \in S
  PROVE  seq \o <<a, b>> = (seq \o <<a>>) \o <<b>>
<1> DEFINE c == seq \o <<a, b>>
           d == (seq \o <<a>>) \o <<b>>
           N == Len(seq)
<1>1. c \in Seq(S) /\ d \in Seq(S) /\ Len(c) = N + 2 /\ Len(d) = N + 2 /\ N \in Nat
  OBVIOUS
<1>2. ASSUME NEW i \in 1 .. N + 2 PROVE c[i] = d[i]
  <2>1. CASE i <= N
    BY <2>1
  <2>2. CASE i = N + 1
    BY <2>2
  <2>3. CASE i = N + 2
    BY <2>3
  <2> QED
    BY <1>1, <2>1, <2>2, <2>3
<1> HIDE DEF c, d, N
<1>3. Len(c) = Len(d) /\ \A i \in 1 .. Len(c) : c[i] = d[i]
  BY <1>1, <1>2
<1>4. c = d
  BY <1>1, <1>3, SeqEqual
<1> QED
  BY <1>4 DEF c, d

\* w is u, with a block stopped: c.
WithStopped(u, k, c, w) ==
  /\ c \in Messages!Block /\ w \in View
  /\ c.kind = u.blocks[k].kind /\ c.call = u.blocks[k].call /\ c.size = u.blocks[k].size
  /\ c.stopped
  /\ w.phase = u.phase /\ w.stop = u.stop /\ Len(w.blocks) = Len(u.blocks)
  /\ \A m \in 1 .. Len(u.blocks) : w.blocks[m] = IF m = k THEN c ELSE u.blocks[m]

\* A block that is open, in the stream as in the view.
Stoppable(s, u, k) ==
  /\ s.blocks[k] \in {"text", "thinking", "tool_use"}
  /\ u \in View /\ u.phase = "open" /\ k \in 1 .. Len(u.blocks)
  /\ u.blocks[k].kind = s.blocks[k] /\ ~u.blocks[k].signed /\ ~u.blocks[k].stopped

\* It is signed, if it is thinking, and stopped.
LEMMA StopBlock ==
  ASSUME NEW s, NEW u, NEW k, Stoppable(s, u, k),
         NEW r, r.out \in Seq(Frames),
         NEW t, t.out = r.out \o StopFrames(s, k)
  PROVE  \E c, w : Leads(r, u, t, w) /\ WithStopped(u, k, c, w)
<1> DEFINE b == u.blocks[k]
           signed == [b EXCEPT !.signed = TRUE]
<1>0. /\ s.blocks[k] \in {"text", "thinking", "tool_use"}
      /\ u \in View /\ u.phase = "open" /\ k \in 1 .. Len(u.blocks)
      /\ u.blocks[k].kind = s.blocks[k] /\ ~u.blocks[k].signed /\ ~u.blocks[k].stopped
  BY DEF Stoppable
<1>1. k \in Nat /\ b \in Messages!Block
  BY <1>0 DEF View
<1>2. CASE s.blocks[k] = "thinking"
  <2> DEFINE a == Frame("signature", k)
             f == Frame("stop", k)
             q == [out |-> r.out \o <<a>>]
             x == Rewritten(u, k, signed)
             e == [x.blocks[k] EXCEPT !.stopped = TRUE]
             w == Rewritten(x, k, e)
  <2>1. b.kind = "thinking" /\ ~b.signed /\ ~b.stopped
    BY <1>0, <1>2
  <2>2. /\ signed \in Messages!Block /\ signed.kind = b.kind /\ signed.call = b.call
        /\ signed.size = b.size /\ ~signed.stopped /\ signed.signed
    BY <1>1, <2>1 DEF Messages!Block
  <2> HIDE DEF signed
  <2>3. /\ x \in View /\ x.phase = u.phase /\ x.stop = u.stop
        /\ Len(x.blocks) = Len(u.blocks)
        /\ \A m \in 1 .. Len(u.blocks) : x.blocks[m] = IF m = k THEN signed ELSE u.blocks[m]
    BY <1>0, <2>2, RewrittenIs
  <2> HIDE DEF x
  <2>4. x.blocks[k] = signed
    BY <1>0, <2>3
  <2>5. /\ e \in Messages!Block /\ e.kind = b.kind /\ e.call = b.call
        /\ e.size = b.size /\ e.stopped
    BY <2>2, <2>4 DEF Messages!Block
  <2>6. k \in 1 .. Len(x.blocks) /\ x.phase = "open"
    BY <1>0, <2>3
  <2>7. Leads(r, u, q, x)
    <3>1. q.out = r.out \o <<a>>
      OBVIOUS
    <3> HIDE DEF q
    <3> QED
      BY <1>0, <2>1, <3>1, StopLeads DEF x, signed
  <2>8. t.out = q.out \o <<f>>
    <3>1. StopFrames(s, k) = <<a, f>>
      BY <1>2 DEF StopFrames
    <3>2. a \in Frames /\ f \in Frames
      BY <1>1, FrameTypes
    <3> HIDE DEF a, f
    <3>3. r.out \o <<a, f>> = (r.out \o <<a>>) \o <<f>>
      BY <3>2, JoinTwo
    <3> QED
      BY <3>1, <3>3
  <2>9. Leads(q, x, t, w)
    <3> HIDE DEF q
    <3> QED
      BY <2>2, <2>3, <2>4, <2>6, <2>8, StopLeads
  <2>10. Leads(r, u, t, w)
    BY <2>7, <2>9, LeadsOn
  <2> HIDE DEF e
  <2>11. /\ w \in View /\ w.phase = x.phase /\ w.stop = x.stop
         /\ Len(w.blocks) = Len(x.blocks)
         /\ \A m \in 1 .. Len(x.blocks) : w.blocks[m] = IF m = k THEN e ELSE x.blocks[m]
    BY <2>3, <2>5, RewrittenIs
  <2> HIDE DEF w
  <2>12. \A m \in 1 .. Len(u.blocks) : w.blocks[m] = IF m = k THEN e ELSE u.blocks[m]
    BY <2>3, <2>11
  <2>13. WithStopped(u, k, e, w)
    BY <2>3, <2>5, <2>11, <2>12 DEF WithStopped
  <2> QED
    BY <2>10, <2>13
<1>3. CASE s.blocks[k] \in {"text", "tool_use"}
  <2> DEFINE e == [b EXCEPT !.stopped = TRUE]
             w == Rewritten(u, k, e)
  <2>1. b.kind # "thinking" /\ ~b.stopped
    BY <1>0, <1>3
  <2>2. /\ e \in Messages!Block /\ e.kind = b.kind /\ e.call = b.call
        /\ e.size = b.size /\ e.stopped
    BY <1>1 DEF Messages!Block
  <2>3. t.out = r.out \o <<Frame("stop", k)>>
    BY <1>3 DEF StopFrames
  <2>4. Leads(r, u, t, w)
    BY <1>0, <2>1, <2>3, StopLeads
  <2> HIDE DEF e
  <2>5. /\ w \in View /\ w.phase = u.phase /\ w.stop = u.stop
        /\ Len(w.blocks) = Len(u.blocks)
        /\ \A m \in 1 .. Len(u.blocks) : w.blocks[m] = IF m = k THEN e ELSE u.blocks[m]
    BY <1>0, <2>2, RewrittenIs
  <2> HIDE DEF w
  <2>6. WithStopped(u, k, e, w)
    BY <2>2, <2>5 DEF WithStopped
  <2> QED
    BY <2>4, <2>6
<1> QED
  BY <1>0, <1>2, <1>3

\* w is v, with its first blocks stopped.
Halted(v, w, k) ==
  /\ w \in View /\ w.phase = v.phase /\ w.stop = v.stop
  /\ Len(w.blocks) = Len(v.blocks)
  /\ \A m \in 1 .. Len(v.blocks) :
       /\ w.blocks[m].kind = v.blocks[m].kind
       /\ w.blocks[m].call = v.blocks[m].call
       /\ w.blocks[m].size = v.blocks[m].size
       /\ m <= k => w.blocks[m].stopped
       /\ m > k => w.blocks[m] = v.blocks[m]

LEMMA StopOne ==
  ASSUME NEW s, NEW v, NEW n, Going(s, v, n), NEW k \in 1 .. Len(s.blocks),
         NEW u, Halted(v, u, k - 1), NEW r, r.out \in Seq(Frames),
         NEW t, t.out = r.out \o StopFrames(s, k)
  PROVE  \E w : Leads(r, u, t, w) /\ Halted(v, w, k)
<1> DEFINE b == u.blocks[k]
<1>1. /\ v \in View /\ v.phase = "open" /\ Len(v.blocks) = Len(s.blocks)
      /\ s.blocks[k] \in {"text", "thinking", "tool_use", "closed"}
      /\ s.blocks[k] = "closed" => v.blocks[k].stopped
      /\ s.blocks[k] # "closed" =>
           v.blocks[k].kind = s.blocks[k] /\ ~v.blocks[k].signed /\ ~v.blocks[k].stopped
  BY GoingFacts DEF Going, Core, Matched
<1>2. /\ u \in View /\ u.phase = v.phase /\ u.stop = v.stop
      /\ Len(u.blocks) = Len(v.blocks) /\ Len(v.blocks) \in Nat
      /\ \A m \in 1 .. Len(v.blocks) :
           /\ u.blocks[m].kind = v.blocks[m].kind
           /\ u.blocks[m].call = v.blocks[m].call
           /\ u.blocks[m].size = v.blocks[m].size
           /\ m <= k - 1 => u.blocks[m].stopped
           /\ m > k - 1 => u.blocks[m] = v.blocks[m]
  BY <1>1 DEF Halted, View
<1>3. b = v.blocks[k] /\ b \in Messages!Block /\ k \in 1 .. Len(u.blocks)
  <2>1. k \in 1 .. Len(v.blocks) /\ k > k - 1
    BY <1>1
  <2>2. u.blocks \in Seq(Messages!Block)
    BY <1>2 DEF View
  <2> QED
    BY <1>2, <2>1, <2>2
<1>4. ASSUME NEW c \in Messages!Block, c.kind = b.kind, c.call = b.call, c.size = b.size,
             c.stopped,
             NEW w \in View, w.phase = u.phase, w.stop = u.stop, Len(w.blocks) = Len(u.blocks),
             \A m \in 1 .. Len(u.blocks) : w.blocks[m] = IF m = k THEN c ELSE u.blocks[m]
      PROVE  Halted(v, w, k)
  <2>1. ASSUME NEW m \in 1 .. Len(v.blocks)
        PROVE  /\ w.blocks[m].kind = v.blocks[m].kind
               /\ w.blocks[m].call = v.blocks[m].call
               /\ w.blocks[m].size = v.blocks[m].size
               /\ m <= k => w.blocks[m].stopped
               /\ m > k => w.blocks[m] = v.blocks[m]
    <3>1. CASE m = k
      <4>1. w.blocks[m] = c
        BY <1>2, <1>4, <3>1
      <4> QED
        BY <1>3, <1>4, <3>1, <4>1
    <3>2. CASE m # k
      <4>1. w.blocks[m] = u.blocks[m]
        BY <1>2, <1>4, <3>2
      <4>2. (m <= k => m <= k - 1) /\ (m > k => m > k - 1)
        BY <3>2
      <4> QED
        BY <1>2, <4>1, <4>2
    <3> QED
      BY <3>1, <3>2
  <2> QED
    BY <1>2, <1>4, <2>1 DEF Halted
<1>5. CASE s.blocks[k] = "closed"
  <2>1. t.out = r.out
    BY <1>5 DEF StopFrames
  <2>2. Leads(r, u, t, u)
    BY <2>1, LeadsSame
  <2>3. b.stopped
    BY <1>1, <1>3, <1>5
  <2>4. \A m \in 1 .. Len(u.blocks) : u.blocks[m] = IF m = k THEN b ELSE u.blocks[m]
    OBVIOUS
  <2> HIDE DEF b
  <2>5. Halted(v, u, k)
    BY <1>2, <1>3, <1>4, <2>3, <2>4
  <2> QED
    BY <2>2, <2>5
<1>6. CASE s.blocks[k] \in {"text", "thinking", "tool_use"}
  <2>1. Stoppable(s, u, k)
    BY <1>1, <1>2, <1>3, <1>6 DEF Stoppable
  <2> HIDE DEF b
  <2>2. PICK c, w : Leads(r, u, t, w) /\ WithStopped(u, k, c, w)
    BY <2>1, StopBlock
  <2>3. /\ c \in Messages!Block /\ w \in View
        /\ c.kind = b.kind /\ c.call = b.call /\ c.size = b.size /\ c.stopped
        /\ w.phase = u.phase /\ w.stop = u.stop /\ Len(w.blocks) = Len(u.blocks)
        /\ \A m \in 1 .. Len(u.blocks) : w.blocks[m] = IF m = k THEN c ELSE u.blocks[m]
    BY <2>2 DEF b, WithStopped
  <2>4. Halted(v, w, k)
    BY <1>4, <2>3
  <2> QED
    BY <2>2, <2>4
<1> QED
  BY <1>1, <1>5, <1>6

\* t is s, with more emitted.
Alike(s, t) ==
  /\ t \in StreamStates
  /\ t.started = s.started /\ t.terminal = s.terminal /\ t.finish = s.finish
  /\ t.blocks = s.blocks /\ t.text = s.text /\ t.thinking = s.thinking
  /\ t.tools = s.tools /\ t.unexposed = s.unexposed

LEMMA StopFramesType ==
  ASSUME NEW s \in StreamStates, NEW k \in 1 .. Len(s.blocks)
  PROVE  StopFrames(s, k) \in Seq(Frames)
<1>1. s.blocks[k] \in {"text", "thinking", "tool_use", "closed"}
  BY DEF StreamStates
<1>2. Frame("signature", k) \in Frames /\ Frame("stop", k) \in Frames
  BY FrameTypes
<1> QED
  BY <1>1, <1>2 DEF StopFrames

LEMMA StopAllLeads ==
  ASSUME NEW s, NEW v, NEW n, Going(s, v, n)
  PROVE  /\ Alike(s, StopAll(s))
         /\ \E w : Leads(s, v, StopAll(s), w) /\ Halted(v, w, Len(s.blocks))
<1> DEFINE N == Len(s.blocks)
           k == CHOOSE k : Stops(s, N, k)
           Good == {m \in 0 .. N :
                      /\ Alike(s, k[m])
                      /\ \E w : Leads(s, v, k[m], w) /\ Halted(v, w, m)}
<1>0. s \in StreamStates /\ s.out \in Seq(Frames) /\ N \in Nat
  BY GoingFacts
<1>1. Stops(s, N, k)
  BY <1>0, StopsExists
<1>2. StopAll(s) = k[N]
  BY DEF StopAll, Stops
<1> HIDE DEF k
<1>3. \A m \in 0 .. N : k[m] = IF m = 0 THEN s ELSE Emit(k[m - 1], StopFrames(s, m))
  BY <1>1 DEF Stops
<1> HIDE DEF N
<1>4. 0 \in Good
  <2>1. k[0] = s
    BY <1>0, <1>3
  <2>2. Alike(s, k[0])
    BY <1>0, <2>1 DEF Alike
  <2>3. Leads(s, v, k[0], v)
    BY <1>0, <2>1, LeadsSame
  <2>4. Halted(v, v, 0)
    BY GoingFacts DEF Halted
  <2> QED
    BY <1>0, <2>2, <2>3, <2>4
<1>5. ASSUME NEW m \in 0 .. N - 1, m \in Good
      PROVE  m + 1 \in Good
  <2>1. PICK u : Leads(s, v, k[m], u) /\ Halted(v, u, m)
    BY <1>5
  <2>2. Alike(s, k[m])
    BY <1>5
  <2> DEFINE j == m + 1
             fs == StopFrames(s, j)
             t == k[j]
  <2>3. /\ j \in 1 .. Len(s.blocks) /\ j \in 0 .. N /\ j # 0 /\ j - 1 = m
    BY <1>0 DEF N
  <2> HIDE DEF j
  <2>4. fs \in Seq(Frames)
    BY <1>0, <2>3, StopFramesType
  <2>5. t = Emit(k[m], fs)
    BY <1>3, <2>3
  <2> HIDE DEF fs, t
  <2>6. k[m] \in StreamStates /\ k[m].out \in Seq(Frames)
    BY <2>2 DEF Alike, StreamStates
  <2>7. t.out = k[m].out \o fs /\ Alike(s, t)
    BY <2>2, <2>4, <2>5, <2>6, EmitIs DEF Alike
  <2>8. PICK w : Leads(k[m], u, t, w) /\ Halted(v, w, j)
    BY <2>1, <2>3, <2>6, <2>7, StopOne DEF fs
  <2>9. Leads(s, v, t, w)
    BY <1>0, <2>1, <2>8, LeadsOn
  <2>10. j \in Good
    BY <2>3, <2>7, <2>8, <2>9 DEF t
  <2> QED
    BY <2>10 DEF j
<1>6. \A m \in 0 .. N : m \in Good
  <2> HIDE DEF Good
  <2> QED
    BY <1>0, <1>4, <1>5, CountingInduction
<1>7. N \in Good
  BY <1>0, <1>6
<1> QED
  BY <1>2, <1>7 DEF N

LEMMA StoppingLeads ==
  ASSUME NEW s, NEW v \in View, NEW t, NEW reason \in Reasons
  PROVE  /\ (/\ v.phase = "open"
             /\ \A m \in 1 .. Len(v.blocks) : v.blocks[m].stopped
             /\ t.out = s.out \o <<[Frame("message_delta", 0) EXCEPT !.stop = reason]>>)
              => Leads(s, v, t, [phase |-> "stopping", blocks |-> v.blocks, stop |-> reason])
         /\ v.phase = "stopping" /\ t.out = s.out \o <<Frame("message_stop", 0)>>
              => Leads(s, v, t, InPhase(v, "stopped"))
<1>1. ASSUME v.phase = "open", \A m \in 1 .. Len(v.blocks) : v.blocks[m].stopped,
             t.out = s.out \o <<[Frame("message_delta", 0) EXCEPT !.stop = reason]>>
      PROVE  Leads(s, v, t, [phase |-> "stopping", blocks |-> v.blocks, stop |-> reason])
  <2> DEFINE f == [Frame("message_delta", 0) EXCEPT !.stop = reason]
  <2>1. f \in Frames
    BY FrameTypes
  <2>2. f.type = "message_delta" /\ f.stop = reason
    BY DEF Frame
  <2>3. t.out = s.out \o <<f>>
    BY <1>1
  <2> HIDE DEF f
  <2>4. Legal(v, f)
    BY <1>1, <2>2 DEF Legal
  <2>5. After(v, f) = [phase |-> "stopping", blocks |-> v.blocks, stop |-> reason]
    BY <2>2 DEF After
  <2>6. Leads(s, v, t, After(v, f))
    BY <2>1, <2>3, <2>4, LeadsOne
  <2> QED
    BY <2>5, <2>6
<1>2. ASSUME v.phase = "stopping", t.out = s.out \o <<Frame("message_stop", 0)>>
      PROVE  Leads(s, v, t, InPhase(v, "stopped"))
  <2> DEFINE f == Frame("message_stop", 0)
  <2>1. f \in Frames
    BY FrameTypes
  <2>2. f.type = "message_stop"
    BY DEF Frame
  <2>3. t.out = s.out \o <<f>>
    BY <1>2
  <2> HIDE DEF f
  <2>4. Legal(v, f)
    BY <1>2, <2>2 DEF Legal
  <2>5. After(v, f) = InPhase(v, "stopped")
    BY <2>2 DEF After, InPhase
  <2>6. Leads(s, v, t, After(v, f))
    BY <2>1, <2>3, <2>4, LeadsOne
  <2> QED
    BY <2>5, <2>6
<1> QED
  BY <1>1, <1>2

\* w is v, with the message stopped for a reason.
Closed(v, w, reason) ==
  /\ w \in View /\ w.phase = "stopped" /\ w.stop = reason
  /\ Len(w.blocks) = Len(v.blocks)
  /\ \A m \in 1 .. Len(v.blocks) :
       /\ w.blocks[m].kind = v.blocks[m].kind
       /\ w.blocks[m].call = v.blocks[m].call
       /\ w.blocks[m].size = v.blocks[m].size

LEMMA FinishFits ==
  ASSUME NEW s, NEW v, NEW n, Going(s, v, n), NEW reason \in Reasons,
         Searched(v) \/ \A i \in DOMAIN s.tools : s.tools[i].block # 0
  PROVE  LET t == FinishWithStop(s, reason)
         IN  /\ t.terminal /\ t.finish = s.finish /\ t.tools = s.tools
             /\ t.text = s.text /\ t.thinking = s.thinking /\ t.unexposed = s.unexposed
             /\ \E w : Leads(s, v, t, w) /\ Fits(t, w, n) /\ Closed(v, w, reason)
<1> DEFINE r == StopAll(s)
           q == [r EXCEPT !.terminal = TRUE]
           a == [Frame("message_delta", 0) EXCEPT !.stop = reason]
           f == Frame("message_stop", 0)
           t == FinishWithStop(s, reason)
           L == Len(s.blocks)
<1>1. /\ s \in StreamStates /\ s.out \in Seq(Frames) /\ v \in View
      /\ v.phase = "open" /\ Len(v.blocks) = L /\ L \in Nat
      /\ Phased(s, v) /\ Matched(s, v) /\ Called(s, v, n)
      /\ s.unexposed => ~expose
      /\ s.started /\ ~s.terminal
  BY GoingFacts DEF Going, Core
<1>2. Alike(s, r)
  BY StopAllLeads
<1>3. PICK u : Leads(s, v, r, u) /\ Halted(v, u, L)
  BY StopAllLeads
<1>4. a \in Frames /\ f \in Frames
  BY FrameTypes
<1>5. t = Emit(q, <<a, f>>)
  BY DEF FinishWithStop
<1> HIDE DEF r, a, f, t, L
<1>6. /\ q \in StreamStates /\ q.out = r.out /\ q.terminal
      /\ q.started = s.started /\ q.finish = s.finish
      /\ q.blocks = s.blocks /\ q.text = s.text /\ q.thinking = s.thinking
      /\ q.tools = s.tools /\ q.unexposed = s.unexposed
  BY <1>2 DEF Alike, StreamStates
<1> HIDE DEF q
<1>7. /\ t \in StreamStates /\ t.out = r.out \o <<a, f>> /\ t.terminal
      /\ t.started = s.started /\ t.finish = s.finish
      /\ t.blocks = s.blocks /\ t.text = s.text /\ t.thinking = s.thinking
      /\ t.tools = s.tools /\ t.unexposed = s.unexposed
  <2> DEFINE fs == <<a, f>>
             e == Emit(q, fs)
  <2>1. fs \in Seq(Frames)
    BY <1>4
  <2> HIDE DEF fs
  <2>2. /\ e \in StreamStates /\ e.out = q.out \o fs /\ e.terminal = q.terminal
        /\ e.started = q.started /\ e.finish = q.finish
        /\ e.blocks = q.blocks /\ e.text = q.text /\ e.thinking = q.thinking
        /\ e.tools = q.tools /\ e.unexposed = q.unexposed
    BY <1>6, <2>1, EmitIs
  <2>3. t = e
    BY <1>5 DEF fs
  <2> HIDE DEF e
  <2> QED
    BY <1>6, <2>2, <2>3 DEF fs
<1> DEFINE p == [out |-> r.out \o <<a>>]
           x == [phase |-> "stopping", blocks |-> u.blocks, stop |-> reason]
           w == InPhase(x, "stopped")
<1>8. /\ u \in View /\ u.phase = "open" /\ Len(u.blocks) = L
      /\ \A m \in 1 .. L :
           /\ u.blocks[m].kind = v.blocks[m].kind
           /\ u.blocks[m].call = v.blocks[m].call
           /\ u.blocks[m].size = v.blocks[m].size
           /\ u.blocks[m].stopped
  BY <1>1, <1>3 DEF Halted
<1>9. x \in View /\ x.phase = "stopping" /\ w \in View
  BY <1>8, ViewType DEF View, InPhase
<1>10. w.phase = "stopped" /\ w.blocks = u.blocks /\ w.stop = reason
  BY DEF InPhase
<1>11. r.out \in Seq(Frames)
  BY <1>2 DEF Alike, StreamStates
<1>12. Leads(r, u, p, x)
  <2>1. p.out = r.out \o <<a>>
    OBVIOUS
  <2> HIDE DEF p
  <2> QED
    BY <1>8, <2>1, StoppingLeads DEF a
<1>13. Leads(p, x, t, w)
  <2>1. r.out \o <<a, f>> = (r.out \o <<a>>) \o <<f>>
    BY <1>4, <1>11, JoinTwo
  <2>2. t.out = p.out \o <<f>>
    BY <1>7, <2>1
  <2> HIDE DEF p, x
  <2> QED
    BY <1>9, <2>2, StoppingLeads DEF f
<1> HIDE DEF p, x, w
<1>14. Leads(s, v, t, w)
  <2>1. Leads(r, u, t, w)
    BY <1>11, <1>12, <1>13, LeadsOn
  <2> QED
    BY <1>1, <1>3, <2>1, LeadsOn
<1>15. Closed(v, w, reason)
  BY <1>1, <1>8, <1>9, <1>10 DEF Closed
<1>16. Phased(t, w)
  BY <1>1, <1>7, <1>8, <1>10 DEF Phased, L
<1>17. Matched(t, w)
  BY <1>1, <1>7 DEF Matched
<1>18. Called(t, w, n)
  <2>1. ASSUME NEW i \in DOMAIN s.tools
        PROVE  /\ s.tools[i].pending <= n /\ n > 0
               /\ s.tools[i].server <=> search /\ s.tools[i].name = "search"
               /\ s.tools[i].block # 0 =>
                    /\ s.tools[i].block \in 1 .. Len(s.blocks)
                    /\ s.blocks[s.tools[i].block] = "tool_use"
                    /\ w.blocks[s.tools[i].block].kind = "tool_use"
    BY <1>1, <1>8, <1>10 DEF Called, L
  <2>2. ASSUME NEW m \in 1 .. L, w.blocks[m].kind = "tool_use"
        PROVE  \E i \in DOMAIN s.tools : s.tools[i].block = m
    BY <1>1, <1>8, <1>10, <2>2 DEF Called
  <2>3. IsFiniteSet(DOMAIN s.tools) /\ Len(w.blocks) = L
    BY <1>1, <1>8, <1>10 DEF Called
  <2> QED
    BY <1>7, <2>1, <2>2, <2>3 DEF Called
<1>19. Searched(w) \/ \A i \in DOMAIN s.tools : s.tools[i].block # 0
  <2>1. CASE Searched(v)
    BY <1>1, <1>8, <1>10, <2>1 DEF Searched
  <2> QED
    BY <2>1
<1>20. Fits(t, w, n)
  BY <1>1, <1>7, <1>9, <1>16, <1>17, <1>18, <1>19 DEF Fits, Core, Hidden, Ended
<1> QED
  BY <1>7, <1>14, <1>15, <1>20 DEF t

\* Every call that is pending gets its block.
LEMMA StartAllFits ==
  ASSUME NEW s, NEW v, NEW n \in 0 .. MaxEvents, Going(s, v, n),
         NEW order \in SetToSeqs(Pending(s))
  PROVE  LET t == StartAll(s, order)
         IN  /\ t.finish = s.finish /\ t.text = s.text /\ t.thinking = s.thinking
             /\ DOMAIN t.tools = DOMAIN s.tools
             /\ \A i \in DOMAIN s.tools :
                  /\ t.tools[i].name = s.tools[i].name
                  /\ t.tools[i].block # 0 \/ s.tools[i].server
             /\ \E w : Leads(s, v, t, w) /\ Going(t, w, n) /\ (Searched(v) => Searched(w))
<1> DEFINE P == Pending(s)
           N == Cardinality(P)
           k == CHOOSE k : Begins(s, order, N, k)
           Same(t) == /\ t.finish = s.finish /\ t.text = s.text /\ t.thinking = s.thinking
                      /\ DOMAIN t.tools = DOMAIN s.tools
           Reached(t) == \E w : /\ Leads(s, v, t, w) /\ Going(t, w, n)
                                /\ Searched(v) => Searched(w)
           Kept(t, m) == \A i \in DOMAIN s.tools :
                           /\ t.tools[i].name = s.tools[i].name
                           /\ (\E j \in 1 .. m : order[j] = i) => t.tools[i].block # 0
                           /\ (\A j \in 1 .. m : order[j] # i) => t.tools[i] = s.tools[i]
           Good == {m \in 0 .. N : Same(k[m]) /\ Reached(k[m]) /\ Kept(k[m], m)}
<1>0. /\ s \in StreamStates /\ s.out \in Seq(Frames) /\ v \in View
      /\ Called(s, v, n) /\ s.tools \in Tools
  BY GoingFacts DEF Going, Core, StreamStates
<1>1. IsFiniteSet(P) /\ N \in Nat
  <2>1. P \subseteq DOMAIN s.tools /\ IsFiniteSet(DOMAIN s.tools)
    BY <1>0 DEF Pending, Called
  <2> HIDE DEF P
  <2>2. IsFiniteSet(P)
    BY <2>1, FS_Subset
  <2> QED
    BY <2>2, FS_CardinalityType
<1>2. /\ order \in [1 .. N -> P]
      /\ \A i, j \in 1 .. N : i # j => order[i] # order[j]
  BY DEF SetToSeqs
<1>3. Len(order) = N
  BY <1>1, <1>2
<1>4. \A i \in P : \E j \in 1 .. N : order[j] = i
  <2> DEFINE f == order
  <2>1. f \in Injection(1 .. N, P)
    BY <1>2 DEF Injection, IsInjective
  <2>2. IsFiniteSet(1 .. N) /\ Cardinality(1 .. N) = N /\ Cardinality(P) = N
    BY <1>1, FS_Interval
  <2> HIDE DEF P, N, f
  <2>3. f \in Surjection(1 .. N, P)
    BY <1>1, <2>1, <2>2, FS_Injection
  <2> QED
    BY <2>3 DEF Surjection, f
<1>5. Begins(s, order, N, k)
  BY <1>1, BeginsExists
<1>6. StartAll(s, order) = k[N]
  BY <1>3 DEF StartAll, Begins
<1> HIDE DEF k
<1>7. \A m \in 0 .. N :
        k[m] = IF m = 0 THEN s
               ELSE StartTool(k[m - 1], order[m], k[m - 1].tools[order[m]])
  BY <1>5 DEF Begins
<1>8. \A i \in P : i \in DOMAIN s.tools /\ s.tools[i].block = 0 /\ ~s.tools[i].server
  BY DEF Pending
<1> HIDE DEF N, P
<1>9. 0 \in Good
  <2>1. k[0] = s /\ 0 \in 0 .. N
    BY <1>1, <1>7
  <2>2. Leads(s, v, s, v)
    BY <1>0, LeadsSame
  <2> QED
    BY <2>1, <2>2
<1>10. ASSUME NEW m \in 0 .. N - 1, m \in Good
       PROVE  m + 1 \in Good
  <2> DEFINE j == m + 1
             i == order[j]
             r == k[m]
             tool == r.tools[i]
             t == k[j]
  <2>1. j \in 0 .. N /\ j \in 1 .. N /\ j # 0 /\ j - 1 = m /\ m \in 0 .. N
    BY <1>1
  <2>2. /\ \A l \in 1 .. m : l \in 1 .. N /\ l # j
        /\ \A l \in 1 .. j : l \in 1 .. m \/ l = j
        /\ \A l \in 1 .. m : l \in 1 .. j
        /\ j \in 1 .. j
    BY <1>1
  <2> HIDE DEF j
  <2>3. Same(r) /\ Kept(r, m)
    BY <1>10
  <2>4. PICK u : Leads(s, v, r, u) /\ Going(r, u, n) /\ (Searched(v) => Searched(u))
    BY <1>10
  <2>5. i \in P /\ i \in DOMAIN s.tools /\ s.tools[i].block = 0 /\ ~s.tools[i].server
    BY <1>2, <1>8, <2>1
  <2>6. \A l \in 1 .. m : order[l] # i
    BY <1>2, <2>1, <2>2
  <2>7. tool = s.tools[i]
    BY <2>3, <2>5, <2>6
  <2>8. t = StartTool(r, i, tool)
    BY <1>7, <2>1
  <2>9. /\ r \in StreamStates /\ Called(r, u, n)
    BY <2>4 DEF Going, Core
  <2>10. Startable(r, i, tool, n)
    <3>1. i \in ToolIndex /\ tool \in Tool
      BY <1>0, <2>5, <2>7, ToolsTypes
    <3>2. tool.pending <= n /\ n > 0 /\ (tool.server <=> search /\ tool.name = "search")
      BY <1>0, <2>5, <2>7 DEF Called
    <3>3. n \in 1 .. MaxEvents
      BY <3>2, ConstantTypes
    <3> QED
      BY <2>5, <2>7, <3>1, <3>2, <3>3 DEF Startable
  <2> DEFINE w == Started(u, i, tool)
             new == Placed(tool, Len(r.blocks) + 1)
  <2>11. /\ Leads(r, u, t, w) /\ Going(t, w, n) /\ (Searched(u) => Searched(w))
         /\ t.tools = Put(r.tools, i, new)
         /\ t.finish = r.finish /\ t.text = r.text /\ t.thinking = r.thinking
    <3> HIDE DEF i, r, tool, t
    <3> QED
      BY <2>4, <2>8, <2>10, StartToolFits
  <2>12. new.block # 0 /\ new.name = tool.name
    <3>1. tool \in Tool /\ Len(r.blocks) + 1 # 0
      BY <1>0, <2>4, <2>5, <2>7, ToolsTypes, GoingFacts
    <3> QED
      BY <3>1 DEF Tool, Placed
  <2>13. /\ DOMAIN t.tools = DOMAIN s.tools
         /\ t.tools[i] = new
         /\ \A l \in DOMAIN s.tools : l # i => t.tools[l] = r.tools[l]
    <3> DEFINE p == Put(r.tools, i, new)
    <3>1. /\ DOMAIN p = DOMAIN r.tools \cup {i} /\ p[i] = new
          /\ \A l \in DOMAIN r.tools : l # i => p[l] = r.tools[l]
      BY DEF Put
    <3> HIDE DEF p, new, r, i, t
    <3> QED
      BY <2>3, <2>5, <2>11, <3>1 DEF p
  <2> HIDE DEF new, tool, w, t, r, i
  <2>14. Reached(t)
    <3>1. Leads(s, v, t, w)
      BY <1>0, <2>4, <2>11, LeadsOn
    <3> QED
      BY <2>4, <2>11, <3>1
  <2>15. Same(t)
    BY <2>3, <2>11, <2>13
  <2>16. Kept(t, j)
    <3> SUFFICES ASSUME NEW l \in DOMAIN s.tools
                 PROVE  /\ t.tools[l].name = s.tools[l].name
                        /\ (\E x \in 1 .. j : order[x] = l) => t.tools[l].block # 0
                        /\ (\A x \in 1 .. j : order[x] # l) => t.tools[l] = s.tools[l]
      OBVIOUS
    <3>1. CASE l = i
      <4>1. \E x \in 1 .. j : order[x] = l
        BY <2>2, <3>1 DEF i
      <4> QED
        BY <2>7, <2>12, <2>13, <3>1, <4>1 DEF i
    <3>2. CASE l # i
      <4>1. t.tools[l] = r.tools[l]
        BY <2>13, <3>2
      <4>2. /\ r.tools[l].name = s.tools[l].name
            /\ (\E x \in 1 .. m : order[x] = l) => r.tools[l].block # 0
            /\ (\A x \in 1 .. m : order[x] # l) => r.tools[l] = s.tools[l]
        BY <2>3
      <4>3. order[j] # l
        BY <3>2 DEF i
      <4> QED
        BY <2>2, <4>1, <4>2, <4>3
    <3> QED
      BY <3>1, <3>2
  <2>17. j \in Good
    BY <2>1, <2>14, <2>15, <2>16 DEF t
  <2> QED
    BY <2>17 DEF j
<1>11. \A m \in 0 .. N : m \in Good
  <2> HIDE DEF Good
  <2> QED
    BY <1>1, <1>9, <1>10, CountingInduction
<1>12. N \in Good
  BY <1>1, <1>11
<1> DEFINE t == k[N]
<1>13. Same(t) /\ Reached(t) /\ Kept(t, N)
  BY <1>12
<1>14. \A i \in DOMAIN s.tools : t.tools[i].block # 0 \/ s.tools[i].server
  <2> SUFFICES ASSUME NEW i \in DOMAIN s.tools, ~s.tools[i].server
               PROVE  t.tools[i].block # 0
    OBVIOUS
  <2>1. CASE i \in P
    BY <1>4, <1>13, <2>1
  <2>2. CASE i \notin P
    <3>1. s.tools[i].block # 0
      BY <2>2 DEF P, Pending
    <3>2. CASE \E j \in 1 .. N : order[j] = i
      BY <1>13, <3>2
    <3>3. CASE \A j \in 1 .. N : order[j] # i
      <4>1. t.tools[i] = s.tools[i]
        BY <1>13, <3>3
      <4> QED
        BY <3>1, <4>1
    <3> QED
      BY <3>2, <3>3
  <2> QED
    BY <2>1, <2>2
<1> HIDE DEF t
<1> QED
  BY <1>6, <1>13, <1>14 DEF t

LEMMA StartNone ==
  ASSUME NEW s, Pending(s) = {}, NEW order \in SetToSeqs(Pending(s))
  PROVE  StartAll(s, order) = s
<1> DEFINE k == CHOOSE k : Begins(s, order, 0, k)
<1>1. Begins(s, order, 0, k)
  BY BeginsExists
<1>2. Cardinality(Pending(s)) = 0
  BY FS_EmptySet
<1>3. order \in [1 .. 0 -> {}]
  BY <1>2 DEF SetToSeqs
<1>4. order = <<>>
  BY <1>3
<1>5. StartAll(s, order) = k[0]
  <2>1. Len(order) = 0
    BY <1>4
  <2> QED
    BY <2>1 DEF StartAll, Begins
<1> HIDE DEF k
<1>6. k[0] = s
  BY <1>1 DEF Begins
<1> QED
  BY <1>5, <1>6

\* The answer ends with the calls that are pending and the stop reason: with no
\* server's call among them, or after the searches.
LEMMA FinalizeFits ==
  ASSUME NEW s, NEW v, NEW n \in 0 .. MaxEvents, Going(s, v, n), s.finish # "none",
         Searched(v) \/ \A i \in DOMAIN s.tools : ~s.tools[i].server,
         NEW order \in SetToSeqs(Pending(s))
  PROVE  LET t == Finalize(s, order)
         IN  /\ t.terminal /\ t.finish = s.finish
             /\ t.text = s.text /\ t.thinking = s.thinking
             /\ DOMAIN t.tools = DOMAIN s.tools
             /\ \A i \in DOMAIN s.tools : t.tools[i].name = s.tools[i].name
             /\ Pending(s) = {} => t.tools = s.tools
             /\ \E w : /\ Leads(s, v, t, w) /\ Fits(t, w, n) /\ w.phase = "stopped"
                       /\ Pending(s) = {} => Closed(v, w, StopReason(s.finish))
<1> DEFINE r == StartAll(s, order)
           reason == StopReason(s.finish)
           t == FinishWithStop(r, reason)
<1>1. s \in StreamStates /\ s.out \in Seq(Frames) /\ ~s.terminal
  BY GoingFacts DEF Going
<1>2. reason \in Reasons
  <2>1. s.finish \in Finish
    BY <1>1 DEF StreamStates
  <2> QED
    BY <2>1 DEF StopReason, Finish, Reasons
<1>3. /\ r.finish = s.finish /\ r.text = s.text /\ r.thinking = s.thinking
      /\ DOMAIN r.tools = DOMAIN s.tools
      /\ \A i \in DOMAIN s.tools :
           /\ r.tools[i].name = s.tools[i].name
           /\ r.tools[i].block # 0 \/ s.tools[i].server
      /\ \E u : Leads(s, v, r, u) /\ Going(r, u, n) /\ (Searched(v) => Searched(u))
  BY StartAllFits
<1>4. Pending(s) = {} => r = s
  BY StartNone
<1>5. PICK u : /\ Leads(s, v, r, u) /\ Going(r, u, n) /\ (Searched(v) => Searched(u))
               /\ Pending(s) = {} => u = v
  <2>1. CASE Pending(s) = {}
    <3>1. Leads(s, v, r, v) /\ Going(r, v, n)
      BY <1>1, <1>4, <2>1, LeadsSame
    <3> QED
      BY <3>1
  <2>2. CASE Pending(s) # {}
    BY <1>3, <2>2
  <2> QED
    BY <2>1, <2>2
<1>6. Finalize(s, order) = t
  BY <1>1 DEF Finalize
<1> HIDE DEF r, reason
<1>7. /\ t.terminal /\ t.finish = r.finish /\ t.tools = r.tools
      /\ t.text = r.text /\ t.thinking = r.thinking
      /\ \E w : Leads(r, u, t, w) /\ Fits(t, w, n) /\ Closed(u, w, reason)
  <2>1. Searched(u) \/ \A i \in DOMAIN r.tools : r.tools[i].block # 0
    BY <1>3, <1>5
  <2> QED
    BY <1>2, <1>5, <2>1, FinishFits
<1> HIDE DEF t
<1>8. PICK w : Leads(r, u, t, w) /\ Fits(t, w, n) /\ Closed(u, w, reason)
  BY <1>7
<1>9. Leads(s, v, t, w)
  BY <1>1, <1>5, <1>8, LeadsOn
<1>10. w.phase = "stopped" /\ (Pending(s) = {} => Closed(v, w, reason))
  BY <1>5, <1>8 DEF Closed
<1> QED
  BY <1>3, <1>4, <1>6, <1>7, <1>8, <1>9, <1>10 DEF reason

\* The answer ends with an error.
LEMMA FailFits ==
  ASSUME NEW s, NEW v, NEW n, Fits(s, v, n), ~s.terminal
  PROVE  LET t == Fail(s)
             w == InPhase(v, "failed")
         IN  /\ Leads(s, v, t, w) /\ Fits(t, w, n)
             /\ t.terminal /\ t.finish = s.finish /\ t.tools = s.tools
             /\ t.text = s.text /\ t.thinking = s.thinking
             /\ w.phase = "failed" /\ w.blocks = v.blocks
<1> DEFINE f == Frame("error", 0)
           fs == <<f>>
           r == [s EXCEPT !.terminal = TRUE]
           t == Emit(r, fs)
           w == InPhase(v, "failed")
<1>1. /\ s \in StreamStates /\ v \in View
      /\ Phased(s, v) /\ Matched(s, v) /\ Called(s, v, n)
      /\ s.unexposed => ~expose
  BY DEF Fits, Core
<1>2. Fail(s) = t
  BY DEF Fail
<1>3. fs \in Seq(Frames)
  BY FrameTypes
<1> HIDE DEF f
<1>4. /\ r \in StreamStates /\ r.out = s.out /\ r.terminal
      /\ r.started = s.started /\ r.finish = s.finish
      /\ r.blocks = s.blocks /\ r.text = s.text /\ r.thinking = s.thinking
      /\ r.tools = s.tools /\ r.unexposed = s.unexposed
  BY <1>1 DEF StreamStates
<1> HIDE DEF r, fs
<1>5. /\ t \in StreamStates /\ t.out = s.out \o fs /\ t.terminal
      /\ t.started = s.started /\ t.finish = s.finish
      /\ t.blocks = s.blocks /\ t.text = s.text /\ t.thinking = s.thinking
      /\ t.tools = s.tools /\ t.unexposed = s.unexposed
  <2>1. /\ t \in StreamStates /\ t.out = r.out \o fs /\ t.terminal = r.terminal
        /\ t.started = r.started /\ t.finish = r.finish
        /\ t.blocks = r.blocks /\ t.text = r.text /\ t.thinking = r.thinking
        /\ t.tools = r.tools /\ t.unexposed = r.unexposed
    BY <1>3, <1>4, EmitIs
  <2> HIDE DEF t
  <2> QED
    BY <1>4, <2>1
<1>6. v.phase \in {"new", "open"}
  BY <1>1 DEF Phased
<1>7. w \in View
  BY <1>1, PhaseLeads
<1>8. w.phase = "failed" /\ w.blocks = v.blocks
  BY DEF InPhase
<1> HIDE DEF t, w
<1>9. Leads(s, v, t, w)
  BY <1>1, <1>5, <1>6, PhaseLeads DEF w, f, fs
<1>10. Phased(t, w) /\ Matched(t, w) /\ Called(t, w, n)
  BY <1>1, <1>5, <1>8 DEF Phased, Matched, Called
<1>11. Fits(t, w, n)
  BY <1>1, <1>5, <1>7, <1>8, <1>10 DEF Fits, Core, Hidden, Ended
<1> QED
  BY <1>2, <1>5, <1>8, <1>9, <1>11 DEF w

-----------------------------------------------------------------------------
(* Streamed and whole                                                      *)

\* w is v, where block k, a new one perhaps, is now so.
Extends(v, w, k, kind, call, size) ==
  /\ w.phase = v.phase /\ w.stop = v.stop
  /\ Len(w.blocks) = (IF k = Len(v.blocks) + 1 THEN k ELSE Len(v.blocks))
  /\ k \in 1 .. Len(w.blocks)
  /\ \A m \in 1 .. Len(v.blocks) :
       /\ w.blocks[m].kind = v.blocks[m].kind
       /\ w.blocks[m].call = v.blocks[m].call
       /\ m # k => w.blocks[m].size = v.blocks[m].size
  /\ w.blocks[k].kind = kind /\ w.blocks[k].call = call /\ w.blocks[k].size = size

LEMMA ViewBlocks ==
  ASSUME NEW v \in View
  PROVE  /\ Len(v.blocks) \in Nat
         /\ \A m \in 1 .. Len(v.blocks) : /\ v.blocks[m] \in Messages!Block
                                         /\ v.blocks[m].size \in Nat
<1>1. v.blocks \in Seq(Messages!Block)
  BY DEF View
<1>2. \A b \in Messages!Block : b.size \in Nat
  BY DEF Messages!Block
<1> QED
  BY <1>1, <1>2

LEMMA ExtendsOld ==
  ASSUME NEW v \in View, NEW k \in 1 .. Len(v.blocks)
  PROVE  LET b == v.blocks[k] IN
         /\ Extends(v, v, k, b.kind, b.call, b.size)
         /\ Growing(v, k) => Extends(v, Grown(v, k, 1), k, b.kind, b.call, b.size + 1)
<1> DEFINE b == v.blocks[k]
           w == Grown(v, k, 1)
<1>1. Len(v.blocks) \in Nat /\ k # Len(v.blocks) + 1
  BY ViewBlocks
<1>2. \A m \in 1 .. Len(v.blocks) : v.blocks[m].size \in Nat
  BY ViewBlocks
<1>3. Extends(v, v, k, b.kind, b.call, b.size)
  BY <1>1 DEF Extends
<1>4. ASSUME Growing(v, k)
      PROVE  Extends(v, w, k, b.kind, b.call, b.size + 1)
  <2>1. /\ w.phase = v.phase /\ w.stop = v.stop
        /\ Len(w.blocks) = Len(v.blocks)
        /\ \A m \in 1 .. Len(v.blocks) :
             /\ w.blocks[m].kind = v.blocks[m].kind
             /\ w.blocks[m].call = v.blocks[m].call
             /\ w.blocks[m].size = v.blocks[m].size + (IF m = k THEN 1 ELSE 0)
    BY <1>4, GrownIs
  <2> HIDE DEF w
  <2>2. \A m \in 1 .. Len(v.blocks) : m # k => w.blocks[m].size = v.blocks[m].size
    BY <1>2, <2>1
  <2> QED
    BY <1>1, <2>1, <2>2 DEF Extends
<1> QED
  BY <1>3, <1>4

LEMMA ExtendsNew ==
  ASSUME NEW v \in View, v.phase = "open", NEW kind \in {"text", "thinking", "tool_use"},
         NEW call \in Call \cup {NoCall}
  PROVE  LET k == Len(v.blocks) + 1
             u == Opened(v, kind, call)
         IN  /\ Extends(v, u, k, kind, call, 0)
             /\ Extends(v, Grown(u, k, 1), k, kind, call, 1)
<1> DEFINE k == Len(v.blocks) + 1
           u == Opened(v, kind, call)
           w == Grown(u, k, 1)
<1>1. Len(v.blocks) \in Nat /\ k \in 1 .. k /\ \A m \in 1 .. Len(v.blocks) : m \in 1 .. k /\ m # k
  BY DEF View
<1>2. kind \in Messages!Kind
  BY DEF Messages!Kind
<1>3. /\ u \in View /\ u.phase = v.phase /\ u.stop = v.stop
      /\ Len(u.blocks) = k
      /\ u.blocks[k] = NewBlock(kind, call)
      /\ \A m \in 1 .. Len(v.blocks) : u.blocks[m] = v.blocks[m]
  BY <1>2, OpenedIs
<1>4. /\ u.blocks[k].kind = kind /\ u.blocks[k].call = call /\ u.blocks[k].size = 0
      /\ ~u.blocks[k].stopped /\ ~u.blocks[k].signed
  BY <1>3 DEF NewBlock
<1> HIDE DEF u
<1>5. Extends(v, u, k, kind, call, 0)
  BY <1>1, <1>3, <1>4 DEF Extends
<1>6. Growing(u, k)
  BY <1>1, <1>3, <1>4 DEF Growing
<1>7. Extends(u, w, k, kind, call, 1)
  <2>1. Extends(u, w, k, u.blocks[k].kind, u.blocks[k].call, u.blocks[k].size + 1)
    <3>1. k \in 1 .. Len(u.blocks)
      BY <1>1, <1>3
    <3> HIDE DEF k
    <3> QED
      BY <1>3, <1>6, <3>1, ExtendsOld
  <2>2. u.blocks[k].size + 1 = 1
    BY <1>4
  <2> QED
    BY <1>4, <2>1, <2>2
<1> HIDE DEF w
<1>8. Extends(v, w, k, kind, call, 1)
  BY <1>1, <1>3, <1>7 DEF Extends
<1> QED
  BY <1>5, <1>8 DEF u, w

LEMMA WholesTypes ==
  ASSUME NEW a \in Wholes
  PROVE  /\ a.text \in Nat /\ a.reasoning \in Nat /\ a.order \in Seq(ToolIndex)
         /\ a.finish \in Finish \cup {"none"} /\ a.failed \in BOOLEAN
         /\ a.tools \in Parts /\ DOMAIN a.tools \subseteq ToolIndex
         /\ \A i \in DOMAIN a.tools :
              a.tools[i] \in [id : BOOLEAN, name : Name, args : Nat]
<1>1. /\ a.text \in Nat /\ a.reasoning \in Nat /\ a.order \in Seq(ToolIndex)
      /\ a.finish \in Finish \cup {"none"} /\ a.failed \in BOOLEAN /\ a.tools \in Parts
  BY DEF Wholes
<1>2. PICK I \in SUBSET ToolIndex : a.tools \in [I -> [id : BOOLEAN, name : Name, args : Nat]]
  BY <1>1 DEF Parts
<1> QED
  BY <1>1, <1>2

\* Where Agrees puts the blocks: all of them have their place.
LEMMA AgreesAdded ==
  ASSUME NEW s, NEW v, NEW n, Going(s, v, n), NEW a, SameCalls(s, a), Agrees(s, v, a),
         NEW kind \in {"text", "thinking"}, kind = "thinking" => expose,
         NEW old, old = (IF kind = "text" THEN s.text ELSE s.thinking),
         NEW k, k = (IF old = 0 THEN Len(s.blocks) + 1 ELSE old),
         NEW t, t.finish = s.finish, t.tools = s.tools,
         t.text = (IF kind = "text" THEN k ELSE s.text),
         t.thinking = (IF kind = "thinking" THEN k ELSE s.thinking),
         NEW b, b.finish = a.finish, b.tools = a.tools, b.order = a.order,
         b.text = a.text + (IF kind = "text" THEN 1 ELSE 0),
         b.reasoning = a.reasoning + (IF kind = "thinking" THEN 1 ELSE 0)
  PROVE  Agrees(t, Added(v, old, kind), b)
<1> DEFINE w == Added(v, old, kind)
           L == Len(v.blocks)
           call == IF old = 0 THEN NoCall ELSE v.blocks[old].call
           size == IF old = 0 THEN 1 ELSE v.blocks[old].size + 1
<1>1. /\ v \in View /\ v.phase = "open" /\ Len(s.blocks) = L /\ L \in Nat
      /\ \A m \in 1 .. L : v.blocks[m].size \in Nat
  BY GoingFacts, ViewBlocks
<1>2. Matched(s, v) /\ Called(s, v, n) /\ ~s.terminal
  BY DEF Going, Core
<1>3. /\ old # 0 => old \in 1 .. L /\ v.blocks[old].kind = kind /\ Growing(v, old)
      /\ old = 0 => k = L + 1
      /\ old # 0 => k = old
  <2>1. old # 0 => old \in 1 .. L /\ s.blocks[old] = kind
    BY <1>1, <1>2 DEF Matched
  <2>2. old # 0 => /\ v.blocks[old].kind = kind /\ ~v.blocks[old].signed
                   /\ ~v.blocks[old].stopped
    BY <1>1, <1>2, <2>1 DEF Matched
  <2> QED
    BY <1>1, <2>1, <2>2 DEF Growing
<1>4. Extends(v, w, k, kind, call, size)
  <2>1. CASE old = 0
    <3>1. w = Grown(Opened(v, kind, NoCall), L + 1, 1)
      BY <2>1 DEF Added
    <3> HIDE DEF w
    <3> QED
      BY <1>1, <1>3, <2>1, <3>1, ExtendsNew
  <2>2. CASE old # 0
    <3>1. w = Grown(v, old, 1)
      BY <2>2 DEF Added
    <3> HIDE DEF w
    <3> QED
      BY <1>1, <1>3, <2>2, <3>1, ExtendsOld
  <2> QED
    BY <2>1, <2>2
<1>5. /\ s.finish = a.finish
      /\ \A m \in 1 .. L :
           /\ v.blocks[m].kind \in {"text", "thinking", "tool_use"}
           /\ v.blocks[m].kind = "text" <=> m = s.text
           /\ v.blocks[m].kind = "thinking" <=> m = s.thinking
           /\ v.blocks[m].kind # "tool_use" => v.blocks[m].call = NoCall
      /\ a.text = (IF s.text = 0 THEN 0 ELSE v.blocks[s.text].size)
      /\ s.text # 0 => a.text > 0
      /\ expose => a.reasoning = (IF s.thinking = 0 THEN 0 ELSE v.blocks[s.thinking].size)
      /\ s.thinking # 0 => expose /\ a.reasoning > 0
      /\ Elements(a.order) = DOMAIN a.tools
      /\ \A j, l \in 1 .. Len(a.order) :
           j < l => s.tools[a.order[j]].block < s.tools[a.order[l]].block
      /\ \A i \in DOMAIN s.tools :
           /\ s.tools[i].block # 0 /\ s.tools[i].name # "" /\ s.tools[i].id /\ a.tools[i].id
           /\ v.blocks[s.tools[i].block].size = a.tools[i].args
           /\ v.blocks[s.tools[i].block].call = [index |-> i, id |-> TRUE,
                                                 name |-> s.tools[i].name]
  BY DEF Agrees
<1>6. /\ call = NoCall /\ size \in Nat \ {0}
      /\ size = (IF kind = "text" THEN b.text ELSE b.reasoning)
      /\ \A m \in 1 .. L : m # k => v.blocks[m].kind # kind
  <2>1. CASE old = 0
    <3>1. a.text = 0 \/ kind # "text"
      BY <1>5, <2>1
    <3>2. a.reasoning = 0 \/ kind # "thinking"
      BY <1>5, <2>1
    <3>3. ASSUME NEW m \in 1 .. L PROVE v.blocks[m].kind # kind
      <4>1. m # old
        BY <2>1
      <4>2. /\ v.blocks[m].kind = "text" <=> m = s.text
            /\ v.blocks[m].kind = "thinking" <=> m = s.thinking
        BY <1>5
      <4> QED
        BY <4>1, <4>2
    <3> QED
      BY <2>1, <3>1, <3>2, <3>3
  <2>2. CASE old # 0
    <3>1. old \in 1 .. L /\ v.blocks[old].kind = kind /\ v.blocks[old].size \in Nat
      BY <1>1, <1>3, <2>2
    <3>2. v.blocks[old].call = NoCall
      BY <1>5, <3>1
    <3>3. v.blocks[old].size = (IF kind = "text" THEN a.text ELSE a.reasoning)
      BY <1>5, <2>2
    <3>4. \A m \in 1 .. L : v.blocks[m].kind = kind => m = old
      BY <1>5
    <3> QED
      BY <1>3, <2>2, <3>1, <3>2, <3>3, <3>4
  <2> QED
    BY <2>1, <2>2
<1> HIDE DEF w, L, call, size
<1>7. /\ w.phase = "open" /\ w.stop = v.stop
      /\ Len(w.blocks) = (IF k = L + 1 THEN k ELSE L)
      /\ k \in 1 .. Len(w.blocks)
      /\ \A m \in 1 .. L :
           /\ w.blocks[m].kind = v.blocks[m].kind
           /\ w.blocks[m].call = v.blocks[m].call
           /\ m # k => w.blocks[m].size = v.blocks[m].size
      /\ w.blocks[k].kind = kind /\ w.blocks[k].call = NoCall /\ w.blocks[k].size = size
  BY <1>1, <1>4, <1>6 DEF Extends, L
<1>8. /\ s.text # 0 => s.text \in 1 .. L
      /\ s.thinking # 0 => s.thinking \in 1 .. L
      /\ \A m \in 1 .. Len(w.blocks) : m \in 1 .. L \/ m = k
      /\ k # 0
  BY <1>1, <1>2, <1>3, <1>7 DEF Matched
<1>14. (kind = "text" => k # s.thinking) /\ (kind = "thinking" => k # s.text)
  <2>1. CASE old = 0
    BY <1>1, <1>3, <1>8, <2>1
  <2>2. CASE old # 0
    BY <1>3, <1>5, <2>2
  <2> QED
    BY <2>1, <2>2
<1>9. ASSUME NEW m \in 1 .. Len(w.blocks)
      PROVE  /\ w.blocks[m].kind \in {"text", "thinking", "tool_use"}
             /\ w.blocks[m].kind = "text" <=> m = t.text
             /\ w.blocks[m].kind = "thinking" <=> m = t.thinking
             /\ w.blocks[m].kind # "tool_use" => w.blocks[m].call = NoCall
  <2>1. CASE m = k
    BY <1>7, <1>14, <2>1
  <2>2. CASE m # k
    <3>1. m \in 1 .. L
      BY <1>8, <2>2
    <3>2. /\ w.blocks[m].kind = v.blocks[m].kind /\ w.blocks[m].call = v.blocks[m].call
          /\ v.blocks[m].kind # kind
      BY <1>6, <1>7, <2>2, <3>1
    <3>3. /\ v.blocks[m].kind \in {"text", "thinking", "tool_use"}
          /\ v.blocks[m].kind = "text" <=> m = s.text
          /\ v.blocks[m].kind = "thinking" <=> m = s.thinking
          /\ v.blocks[m].kind # "tool_use" => v.blocks[m].call = NoCall
      BY <1>5, <3>1
    <3>4. /\ w.blocks[m].kind \in {"text", "thinking", "tool_use"}
          /\ w.blocks[m].kind # "tool_use" => w.blocks[m].call = NoCall
      BY <3>2, <3>3
    <3>5. w.blocks[m].kind = "text" <=> m = t.text
      BY <1>5, <2>2, <3>2, <3>3
    <3>6. w.blocks[m].kind = "thinking" <=> m = t.thinking
      BY <1>5, <2>2, <3>2, <3>3
    <3> QED
      BY <3>4, <3>5, <3>6
  <2> QED
    BY <2>1, <2>2
<1>10. /\ b.text = (IF t.text = 0 THEN 0 ELSE w.blocks[t.text].size)
       /\ t.text # 0 => b.text > 0
  <2>1. CASE kind = "text"
    <3>1. t.text = k /\ w.blocks[t.text].size = size /\ b.text = size /\ b.text \in Nat \ {0}
      BY <1>6, <1>7, <2>1
    <3> QED
      BY <1>8, <3>1
  <2>2. CASE kind = "thinking"
    <3>1. a.text = b.text /\ t.text = s.text
      BY <2>2, WholesTypes DEF SameCalls
    <3>2. s.text # 0 => w.blocks[s.text].size = v.blocks[s.text].size
      BY <1>7, <1>8, <1>14, <2>2
    <3>3. CASE s.text = 0
      BY <1>5, <3>1, <3>3
    <3>4. CASE s.text # 0
      <4>1. a.text = v.blocks[s.text].size /\ a.text > 0
        BY <1>5, <3>4
      <4> QED
        BY <3>1, <3>2, <3>4, <4>1
    <3> QED
      BY <3>3, <3>4
  <2> QED
    BY <2>1, <2>2
<1>11. /\ expose => b.reasoning = (IF t.thinking = 0 THEN 0 ELSE w.blocks[t.thinking].size)
       /\ t.thinking # 0 => expose /\ b.reasoning > 0
  <2>1. CASE kind = "thinking"
    <3>1. /\ t.thinking = k /\ w.blocks[t.thinking].size = size
          /\ b.reasoning = size /\ b.reasoning \in Nat \ {0}
      BY <1>6, <1>7, <2>1
    <3> QED
      BY <1>8, <2>1, <3>1
  <2>2. CASE kind = "text"
    <3>1. a.reasoning = b.reasoning /\ t.thinking = s.thinking
      BY <2>2, WholesTypes DEF SameCalls
    <3>2. s.thinking # 0 => w.blocks[s.thinking].size = v.blocks[s.thinking].size
      BY <1>7, <1>8, <1>14, <2>2
    <3>3. CASE s.thinking = 0
      <4>1. expose => a.reasoning = 0
        BY <1>5, <3>3
      <4> QED
        BY <3>1, <3>3, <4>1
    <3>4. CASE s.thinking # 0
      <4>1. expose /\ a.reasoning > 0
        BY <1>5, <3>4
      <4>2. a.reasoning = v.blocks[s.thinking].size
        BY <1>5, <3>4, <4>1
      <4> QED
        BY <3>1, <3>2, <3>4, <4>1, <4>2
    <3> QED
      BY <3>3, <3>4
  <2> QED
    BY <2>1, <2>2
<1>12. ASSUME NEW i \in DOMAIN t.tools
       PROVE  /\ t.tools[i].block # 0 /\ t.tools[i].name # "" /\ t.tools[i].id /\ b.tools[i].id
              /\ w.blocks[t.tools[i].block].size = b.tools[i].args
              /\ w.blocks[t.tools[i].block].call = [index |-> i, id |-> TRUE,
                                                    name |-> t.tools[i].name]
  <2> DEFINE m == s.tools[i].block
  <2>0. i \in DOMAIN s.tools /\ m # 0
    BY <1>5
  <2>1. m \in 1 .. L /\ v.blocks[m].kind = "tool_use"
    <3>1. m \in 1 .. Len(s.blocks) /\ v.blocks[m].kind = "tool_use"
      BY <1>2, <2>0 DEF Called
    <3> QED
      BY <1>1, <3>1
  <2>2. m # k
    <3>1. k \in 1 .. L => v.blocks[k].kind = kind
      BY <1>7
    <3> QED
      BY <2>1, <3>1
  <2>3. w.blocks[m].size = v.blocks[m].size /\ w.blocks[m].call = v.blocks[m].call
    BY <1>7, <2>1, <2>2
  <2>4. /\ s.tools[i].block # 0 /\ s.tools[i].name # "" /\ s.tools[i].id /\ a.tools[i].id
        /\ v.blocks[m].size = a.tools[i].args
        /\ v.blocks[m].call = [index |-> i, id |-> TRUE, name |-> s.tools[i].name]
    BY <1>5, <2>0
  <2> HIDE DEF m
  <2>5. t.tools[i] = s.tools[i] /\ t.tools[i].block = m /\ b.tools[i] = a.tools[i]
    BY DEF m
  <2> QED
    BY <2>3, <2>4, <2>5
<1>13. Agrees(t, w, b)
  BY <1>5, <1>7, <1>9, <1>10, <1>11, <1>12 DEF Agrees
<1> QED
  BY <1>13 DEF w

LEMMA AggregateIs ==
  ASSUME NEW a \in Wholes, NEW f \in Fragment
  PROVE  LET b == AggregateTool(a, f)
             i == f.index
         IN  /\ b \in Wholes /\ b.text = a.text /\ b.reasoning = a.reasoning
             /\ b.finish = a.finish /\ b.failed = a.failed
             /\ DOMAIN b.tools = DOMAIN a.tools \cup {i}
             /\ \A j \in DOMAIN a.tools : j # i => b.tools[j] = a.tools[j]
             /\ i \in DOMAIN a.tools =>
                  /\ b.order = a.order
                  /\ b.tools[i].name = (IF a.tools[i].name = "" THEN f.name ELSE a.tools[i].name)
                  /\ b.tools[i].id <=> a.tools[i].id \/ f.id
                  /\ b.tools[i].args = a.tools[i].args + (IF f.args THEN 1 ELSE 0)
             /\ i \notin DOMAIN a.tools =>
                  /\ b.order = Append(a.order, i)
                  /\ b.tools[i].name = f.name
                  /\ b.tools[i].id <=> f.id
                  /\ b.tools[i].args = (IF f.args THEN 1 ELSE 0)
<1> DEFINE i == f.index
           b == AggregateTool(a, f)
           none == [id |-> FALSE, name |-> "", args |-> 0]
           old == IF i \in DOMAIN a.tools THEN a.tools[i] ELSE none
           id == old.id \/ f.id
           name == IF old.name = "" THEN f.name ELSE old.name
           args == old.args + (IF f.args THEN 1 ELSE 0)
           part == [id |-> id, name |-> name, args |-> args]
           p == Put(a.tools, i, part)
           order == IF i \in DOMAIN a.tools THEN a.order ELSE Append(a.order, i)
<1>1. i \in ToolIndex /\ f.name \in Name /\ f.id \in BOOLEAN /\ f.args \in BOOLEAN
  BY DEF Fragment
<1>2. old \in [id : BOOLEAN, name : Name, args : Nat]
  <2>1. none \in [id : BOOLEAN, name : Name, args : Nat]
    BY DEF Name
  <2> HIDE DEF none
  <2> QED
    BY <2>1, WholesTypes
<1>3. part \in [id : BOOLEAN, name : Name, args : Nat]
  <2>1. id \in BOOLEAN /\ name \in Name /\ args \in Nat
    <3> HIDE DEF old
    <3>1. old.id \in BOOLEAN /\ old.name \in Name /\ old.args \in Nat
      BY <1>2
    <3>2. id \in BOOLEAN /\ name \in Name
      BY <1>1, <3>1
    <3>3. args \in Nat
      BY <3>1
    <3> QED
      BY <3>2, <3>3
  <2> HIDE DEF id, name, args
  <2> QED
    BY <2>1
<1>4. b = [a EXCEPT !.tools = p, !.order = order]
  BY DEF AggregateTool
<1>5. /\ part.id <=> old.id \/ f.id
      /\ part.name = (IF old.name = "" THEN f.name ELSE old.name)
      /\ part.args = old.args + (IF f.args THEN 1 ELSE 0)
  OBVIOUS
<1> HIDE DEF part
<1>6. p \in Parts
  <2>1. PICK I \in SUBSET ToolIndex :
               a.tools \in [I -> [id : BOOLEAN, name : Name, args : Nat]]
    BY WholesTypes DEF Parts
  <2>2. I \cup {i} \in SUBSET ToolIndex
    BY <1>1
  <2>3. p \in [I \cup {i} -> [id : BOOLEAN, name : Name, args : Nat]]
    BY <1>3, <2>1 DEF Put
  <2> HIDE DEF p
  <2> QED
    BY <2>2, <2>3 DEF Parts
<1>7. order \in Seq(ToolIndex)
  BY <1>1, WholesTypes
<1>8. /\ DOMAIN p = DOMAIN a.tools \cup {i} /\ p[i] = part
      /\ \A j \in DOMAIN a.tools : j # i => p[j] = a.tools[j]
  BY DEF Put
<1> HIDE DEF p
<1>9. /\ b \in Wholes /\ b.text = a.text /\ b.reasoning = a.reasoning
      /\ b.finish = a.finish /\ b.failed = a.failed
      /\ b.tools = p /\ b.order = order
  <2> HIDE DEF order
  <2> QED
    BY <1>4, <1>6, <1>7 DEF Wholes
<1> HIDE DEF b
<1>10. CASE i \in DOMAIN a.tools
  <2>1. old = a.tools[i] /\ order = a.order
    BY <1>10
  <2> HIDE DEF old, order
  <2> QED
    BY <1>5, <1>8, <1>9, <1>10, <2>1 DEF b
<1>11. CASE i \notin DOMAIN a.tools
  <2>1. /\ old.id = FALSE /\ old.name = "" /\ old.args = 0
        /\ order = Append(a.order, i)
    BY <1>11
  <2>2. (part.id <=> f.id) /\ part.name = f.name /\ part.args = (IF f.args THEN 1 ELSE 0)
    <3> HIDE DEF old
    <3>1. (part.id <=> f.id) /\ part.name = f.name
      BY <1>5, <2>1
    <3>2. part.args = (IF f.args THEN 1 ELSE 0)
      <4>1. part.args = 0 + (IF f.args THEN 1 ELSE 0)
        BY <1>5, <2>1
      <4> QED
        BY <4>1
    <3> QED
      BY <3>1, <3>2
  <2> HIDE DEF old, order
  <2> QED
    BY <1>8, <1>9, <1>11, <2>1, <2>2 DEF b
<1> QED
  BY <1>10, <1>11

\* A part of a call, as the stream and as the aggregation have it.
LEMMA ToolSame ==
  ASSUME NEW s \in StreamStates, NEW a, SameCalls(s, a), NEW f \in Fragment, Named(s, f),
         NEW t, t.terminal = s.terminal,
         DOMAIN t.tools = DOMAIN s.tools \cup {f.index},
         \A j \in DOMAIN s.tools : j # f.index => t.tools[j] = s.tools[j],
         t.tools[f.index].name = Heard(s, f).name
  PROVE  SameCalls(t, AggregateTool(a, f))
<1> DEFINE i == f.index
           b == AggregateTool(a, f)
<1>1. /\ a \in Wholes /\ (~s.terminal => ~a.failed) /\ DOMAIN a.tools = DOMAIN s.tools
      /\ \A j \in DOMAIN s.tools : a.tools[j].name = s.tools[j].name
  BY DEF SameCalls
<1>2. /\ b \in Wholes /\ b.failed = a.failed
      /\ DOMAIN b.tools = DOMAIN a.tools \cup {i}
      /\ \A j \in DOMAIN a.tools : j # i => b.tools[j] = a.tools[j]
      /\ i \in DOMAIN a.tools =>
           b.tools[i].name = (IF a.tools[i].name = "" THEN f.name ELSE a.tools[i].name)
      /\ i \notin DOMAIN a.tools => b.tools[i].name = f.name
  <2>1. /\ b \in Wholes /\ b.failed = a.failed
        /\ DOMAIN b.tools = DOMAIN a.tools \cup {i}
        /\ \A j \in DOMAIN a.tools : j # i => b.tools[j] = a.tools[j]
    <3> HIDE DEF b, i
    <3>1. a \in Wholes
      BY <1>1
    <3> QED
      BY <3>1, AggregateIs DEF b, i
  <2>2. i \in DOMAIN a.tools =>
          b.tools[i].name = (IF a.tools[i].name = "" THEN f.name ELSE a.tools[i].name)
    BY <1>1, AggregateIs
  <2>3. i \notin DOMAIN a.tools => b.tools[i].name = f.name
    BY <1>1, AggregateIs
  <2> QED
    BY <2>1, <2>2, <2>3
<1> HIDE DEF b
<1>3. Heard(s, f).name =
        (IF f.name # "" THEN f.name ELSE IF i \in DOMAIN s.tools THEN s.tools[i].name ELSE "")
  <2> DEFINE old == IF i \in DOMAIN s.tools THEN s.tools[i] ELSE NewTool
  <2>1. Heard(s, f).name = (IF f.name = "" THEN old.name ELSE f.name)
    BY HeardIs
  <2>2. old.name = (IF i \in DOMAIN s.tools THEN s.tools[i].name ELSE "")
    BY DEF NewTool
  <2> HIDE DEF old
  <2> QED
    BY <2>1, <2>2
<1>4. b.tools[i].name = t.tools[i].name
  <2>1. CASE i \in DOMAIN s.tools
    BY <1>1, <1>2, <1>3, <2>1 DEF Named
  <2>2. CASE i \notin DOMAIN s.tools
    BY <1>1, <1>2, <1>3, <2>2
  <2> QED
    BY <2>1, <2>2
<1>5. \A j \in DOMAIN t.tools : b.tools[j].name = t.tools[j].name
  <2> TAKE j \in DOMAIN t.tools
  <2>1. CASE j = i
    BY <1>4, <2>1
  <2>2. CASE j # i
    <3>1. j \in DOMAIN s.tools
      BY <2>2
    <3> QED
      BY <1>1, <1>2, <2>2, <3>1
  <2> QED
    BY <2>1, <2>2
<1>6. SameCalls(t, b)
  BY <1>1, <1>2, <1>5 DEF SameCalls
<1> QED
  BY <1>6 DEF b

\* What HandleTool makes of a call.
Written(s, f, t) ==
  LET i == f.index IN
  /\ t.finish = s.finish /\ t.text = s.text /\ t.thinking = s.thinking
  /\ DOMAIN t.tools = DOMAIN s.tools \cup {i}
  /\ \A j \in DOMAIN s.tools : j # i => t.tools[j] = s.tools[j]
  /\ t.tools[i].name = Heard(s, f).name /\ t.tools[i].id = Heard(s, f).id
  /\ t.tools[i].block = (IF Starts(s, f) THEN Len(s.blocks) + 1 ELSE Heard(s, f).block)

\* The first part of a call is its head.
Headed(a, f) == f.index \in DOMAIN a.tools \/ (f.id /\ f.name # "")

\* With its head first, a call gets its block at once, after those before it.
LEMMA AgreesTool ==
  ASSUME NEW s, NEW v, NEW n, Going(s, v, n), NEW a, SameCalls(s, a), Agrees(s, v, a),
         ~search, NEW f \in Fragment, Named(s, f),
         Headed(a, f),
         NEW t, Written(s, f, t)
  PROVE  Agrees(t, ToolSeen(s, v, f), AggregateTool(a, f))
<1> DEFINE i == f.index
           tool == Heard(s, f)
           w == ToolSeen(s, v, f)
           b == AggregateTool(a, f)
           k == t.tools[i].block
           L == Len(v.blocks)
           call == [index |-> i, id |-> TRUE, name |-> t.tools[i].name]
           size == b.tools[i].args
<1>1. /\ s \in StreamStates /\ v \in View /\ v.phase = "open" /\ Len(s.blocks) = L /\ L \in Nat
      /\ \A m \in 1 .. L : v.blocks[m].size \in Nat
  BY GoingFacts, ViewBlocks
<1>2. Matched(s, v) /\ Called(s, v, n) /\ ~s.terminal
  BY DEF Going, Core
<1>3. /\ a \in Wholes /\ DOMAIN a.tools = DOMAIN s.tools
      /\ \A j \in DOMAIN s.tools : a.tools[j].name = s.tools[j].name
  BY DEF SameCalls
<1>4. /\ i \in ToolIndex /\ f.id \in BOOLEAN /\ tool \in Tool /\ f.name \in Name
      /\ i \in DOMAIN s.tools =>
           /\ tool.block = s.tools[i].block
           /\ tool.id <=> s.tools[i].id \/ f.id
           /\ tool.name = (IF f.name = "" THEN s.tools[i].name ELSE f.name)
      /\ i \notin DOMAIN s.tools =>
           /\ tool.block = 0 /\ tool.pending = 0 /\ tool.name = f.name
           /\ tool.id <=> f.id
  <2> DEFINE old == IF i \in DOMAIN s.tools THEN s.tools[i] ELSE NewTool
  <2>1. /\ i \in ToolIndex /\ f.id \in BOOLEAN /\ tool \in Tool /\ f.name \in Name
        /\ tool.block = old.block /\ tool.pending = old.pending
        /\ tool.name = (IF f.name = "" THEN old.name ELSE f.name)
        /\ tool.id <=> old.id \/ f.id
    BY <1>1, HeardIs
  <2>2. i \in DOMAIN s.tools => old = s.tools[i]
    OBVIOUS
  <2>3. i \notin DOMAIN s.tools =>
          old.block = 0 /\ old.pending = 0 /\ old.id = FALSE /\ old.name = ""
    BY DEF NewTool
  <2> HIDE DEF old, tool
  <2> QED
    BY <2>1, <2>2, <2>3
<1>5. /\ s.finish = a.finish
      /\ \A m \in 1 .. L :
           /\ v.blocks[m].kind \in {"text", "thinking", "tool_use"}
           /\ v.blocks[m].kind = "text" <=> m = s.text
           /\ v.blocks[m].kind = "thinking" <=> m = s.thinking
           /\ v.blocks[m].kind # "tool_use" => v.blocks[m].call = NoCall
      /\ a.text = (IF s.text = 0 THEN 0 ELSE v.blocks[s.text].size)
      /\ s.text # 0 => a.text > 0
      /\ expose => a.reasoning = (IF s.thinking = 0 THEN 0 ELSE v.blocks[s.thinking].size)
      /\ s.thinking # 0 => expose /\ a.reasoning > 0
      /\ Elements(a.order) = DOMAIN a.tools
      /\ \A j, l \in 1 .. Len(a.order) :
           j < l => s.tools[a.order[j]].block < s.tools[a.order[l]].block
      /\ \A j \in DOMAIN s.tools :
           /\ s.tools[j].block # 0 /\ s.tools[j].name # "" /\ s.tools[j].id /\ a.tools[j].id
           /\ v.blocks[s.tools[j].block].size = a.tools[j].args
           /\ v.blocks[s.tools[j].block].call = [index |-> j, id |-> TRUE,
                                                 name |-> s.tools[j].name]
  BY DEF Agrees
<1>6. /\ b.text = a.text /\ b.reasoning = a.reasoning
      /\ b.finish = a.finish /\ b.failed = a.failed
      /\ DOMAIN b.tools = DOMAIN a.tools \cup {i}
      /\ \A j \in DOMAIN a.tools : j # i => b.tools[j] = a.tools[j]
      /\ i \in DOMAIN a.tools =>
           /\ b.order = a.order
           /\ b.tools[i].id <=> a.tools[i].id \/ f.id
           /\ b.tools[i].args = a.tools[i].args + (IF f.args THEN 1 ELSE 0)
      /\ i \notin DOMAIN a.tools =>
           /\ b.order = Append(a.order, i)
           /\ b.tools[i].id <=> f.id
           /\ b.tools[i].args = (IF f.args THEN 1 ELSE 0)
  <2>1. a \in Wholes
    BY <1>3
  <2> HIDE DEF b, i
  <2> QED
    BY <2>1, AggregateIs DEF b, i
<1>7. \A j \in DOMAIN s.tools :
        s.tools[j].block \in 1 .. L /\ v.blocks[s.tools[j].block].kind = "tool_use"
  <2> TAKE j \in DOMAIN s.tools
  <2>1. s.tools[j].block # 0
    BY <1>5
  <2>2. s.tools[j].block \in 1 .. Len(s.blocks) /\ v.blocks[s.tools[j].block].kind = "tool_use"
    BY <1>2, <2>1 DEF Called
  <2> QED
    BY <1>1, <2>2
<1> HIDE DEF b, w, tool
<1>20. /\ t.finish = s.finish /\ t.text = s.text /\ t.thinking = s.thinking
       /\ DOMAIN t.tools = DOMAIN s.tools \cup {i}
       /\ \A j \in DOMAIN s.tools : j # i => t.tools[j] = s.tools[j]
       /\ t.tools[i].name = tool.name /\ t.tools[i].id = tool.id
       /\ Starts(s, f) => k = L + 1
       /\ ~Starts(s, f) => k = tool.block
  BY <1>1 DEF Written, tool
<1> HIDE DEF i
<1>8. /\ k = (IF i \in DOMAIN s.tools THEN s.tools[i].block ELSE L + 1)
      /\ t.tools[i].name # "" /\ t.tools[i].id /\ b.tools[i].id
      /\ i \in DOMAIN s.tools => t.tools[i].name = s.tools[i].name
      /\ Extends(v, w, k, "tool_use", call, size)
  <2>1. CASE i \in DOMAIN s.tools
    <3> DEFINE m == s.tools[i].block
    <3>1. /\ m # 0 /\ s.tools[i].name # "" /\ s.tools[i].id /\ a.tools[i].id
          /\ v.blocks[m].size = a.tools[i].args
          /\ v.blocks[m].call = [index |-> i, id |-> TRUE, name |-> s.tools[i].name]
          /\ m \in 1 .. L /\ v.blocks[m].kind = "tool_use"
      BY <1>5, <1>7, <2>1
    <3>2. tool.name = s.tools[i].name /\ tool.block = m /\ tool.id
      BY <1>4, <2>1, <3>1 DEF Named, i
    <3> HIDE DEF m
    <3>3. ~Starts(s, f)
      BY <3>1, <3>2 DEF Starts, tool
    <3>4. /\ k = m /\ t.tools[i].name = s.tools[i].name /\ t.tools[i].id /\ b.tools[i].id
          /\ t.tools[i].name # ""
      BY <1>3, <1>6, <1>20, <2>1, <3>1, <3>2, <3>3
    <3>5. Growing(v, m)
      <4>1. m \in 1 .. Len(s.blocks) /\ s.blocks[m] = "tool_use"
        BY <1>2, <2>1, <3>1 DEF Called, m
      <4>2. ~v.blocks[m].signed /\ ~v.blocks[m].stopped
        BY <1>2, <4>1 DEF Matched
      <4> QED
        BY <1>1, <3>1, <4>2 DEF Growing
    <3>6. w = IF f.args THEN Grown(v, m, 1) ELSE v
      BY <3>1, <3>2, <3>3 DEF w, ToolSeen, tool, i
    <3>7. call = v.blocks[m].call /\ size = v.blocks[m].size + (IF f.args THEN 1 ELSE 0)
      BY <1>3, <1>6, <2>1, <3>1, <3>4
    <3>8. v.blocks[m].size \in Nat
      BY <1>1, <3>1
    <3> HIDE DEF call, size, k
    <3>9. Extends(v, w, m, "tool_use", call, size)
      <4>1. CASE f.args
        <5>1. w = Grown(v, m, 1) /\ size = v.blocks[m].size + 1
          BY <3>6, <3>7, <4>1
        <5>2. Extends(v, Grown(v, m, 1), m, v.blocks[m].kind, v.blocks[m].call, v.blocks[m].size + 1)
          BY <1>1, <3>1, <3>5, ExtendsOld
        <5> QED
          BY <3>1, <3>7, <5>1, <5>2
      <4>2. CASE ~f.args
        <5>1. w = v /\ size = v.blocks[m].size
          BY <3>6, <3>7, <3>8, <4>2
        <5>2. Extends(v, v, m, v.blocks[m].kind, v.blocks[m].call, v.blocks[m].size)
          BY <1>1, <3>1, ExtendsOld
        <5> QED
          BY <3>1, <3>7, <5>1, <5>2
      <4> QED
        BY <4>1, <4>2
    <3> QED
      BY <2>1, <3>4, <3>9 DEF m
  <2>2. CASE i \notin DOMAIN s.tools
    <3>1. /\ tool.block = 0 /\ tool.pending = 0 /\ tool.name = f.name /\ f.name # "" /\ f.id
          /\ tool.id
      BY <1>3, <1>4, <2>2 DEF i, Headed
    <3>2. Starts(s, f)
      BY <3>1 DEF Starts, tool
    <3>3. k = L + 1 /\ t.tools[i].name = f.name /\ t.tools[i].id /\ b.tools[i].id
      BY <1>1, <1>3, <1>6, <1>20, <2>2, <3>1, <3>2
    <3>4. call = Shown(i, tool)
      <4>1. tool.id = TRUE
        BY <1>4, <3>1 DEF Tool
      <4> QED
        BY <3>1, <3>3, <4>1 DEF Shown
    <3>5. call \in Call \cup {NoCall}
      BY <1>4, <3>4, ShownType
    <3> DEFINE u == Opened(v, "tool_use", call)
    <3>6. w = IF f.args THEN Grown(u, L + 1, 1) ELSE u
      BY <1>1, <3>1, <3>2, <3>4 DEF w, ToolSeen, tool, Started, i
    <3>7. size = IF f.args THEN 1 ELSE 0
      BY <1>3, <1>6, <2>2
    <3> HIDE DEF call, size, k, u
    <3>8. Extends(v, u, L + 1, "tool_use", call, 0)
          /\ Extends(v, Grown(u, L + 1, 1), L + 1, "tool_use", call, 1)
      BY <1>1, <3>5, ExtendsNew DEF u
    <3>9. Extends(v, w, L + 1, "tool_use", call, size)
      BY <3>6, <3>7, <3>8
    <3> QED
      BY <2>2, <3>1, <3>3, <3>9
  <2> QED
    BY <2>1, <2>2
<1> HIDE DEF L, call, size, k
<1>9. /\ w.phase = "open" /\ w.stop = v.stop
      /\ Len(w.blocks) = (IF k = L + 1 THEN k ELSE L)
      /\ k \in 1 .. Len(w.blocks)
      /\ \A m \in 1 .. L :
           /\ w.blocks[m].kind = v.blocks[m].kind
           /\ w.blocks[m].call = v.blocks[m].call
           /\ m # k => w.blocks[m].size = v.blocks[m].size
      /\ w.blocks[k].kind = "tool_use" /\ w.blocks[k].call = call /\ w.blocks[k].size = size
  BY <1>1, <1>8 DEF Extends, L
<1>10. /\ s.text # 0 => s.text \in 1 .. L /\ v.blocks[s.text].kind = "text"
       /\ s.thinking # 0 => s.thinking \in 1 .. L /\ v.blocks[s.thinking].kind = "thinking"
       /\ \A m \in 1 .. Len(w.blocks) : m \in 1 .. L \/ m = k
       /\ k # 0
  <2>1. /\ s.text # 0 => s.text \in 1 .. Len(s.blocks)
        /\ s.thinking # 0 => s.thinking \in 1 .. Len(s.blocks)
    BY <1>2 DEF Matched
  <2>2. k # 0 /\ \A m \in 1 .. Len(w.blocks) : m \in 1 .. L \/ m = k
    BY <1>1, <1>9 DEF L
  <2> QED
    BY <1>1, <1>5, <2>1, <2>2
<1>11. k # s.text /\ k # s.thinking
  <2>1. k \in 1 .. L => v.blocks[k].kind = "tool_use"
    BY <1>9
  <2> QED
    BY <1>10, <2>1
<1>12. ASSUME NEW m \in 1 .. Len(w.blocks)
       PROVE  /\ w.blocks[m].kind \in {"text", "thinking", "tool_use"}
              /\ w.blocks[m].kind = "text" <=> m = t.text
              /\ w.blocks[m].kind = "thinking" <=> m = t.thinking
              /\ w.blocks[m].kind # "tool_use" => w.blocks[m].call = NoCall
  <2>1. CASE m = k
    BY <1>9, <1>11, <1>20, <2>1
  <2>2. CASE m # k
    <3>1. m \in 1 .. L
      BY <1>10, <2>2
    <3>2. w.blocks[m].kind = v.blocks[m].kind /\ w.blocks[m].call = v.blocks[m].call
      BY <1>9, <3>1
    <3>3. /\ v.blocks[m].kind \in {"text", "thinking", "tool_use"}
          /\ v.blocks[m].kind = "text" <=> m = s.text
          /\ v.blocks[m].kind = "thinking" <=> m = s.thinking
          /\ v.blocks[m].kind # "tool_use" => v.blocks[m].call = NoCall
      BY <1>5, <3>1
    <3> QED
      BY <1>20, <3>2, <3>3
  <2> QED
    BY <2>1, <2>2
<1>13. /\ b.text = (IF t.text = 0 THEN 0 ELSE w.blocks[t.text].size)
       /\ t.text # 0 => b.text > 0
  <2>1. CASE s.text = 0
    BY <1>5, <1>6, <1>20, <2>1
  <2>2. CASE s.text # 0
    <3>1. a.text = v.blocks[s.text].size /\ a.text > 0
      BY <1>5, <2>2
    <3>2. w.blocks[s.text].size = v.blocks[s.text].size
      BY <1>9, <1>10, <1>11, <2>2
    <3> QED
      BY <1>6, <1>20, <2>2, <3>1, <3>2
  <2> QED
    BY <2>1, <2>2
<1>14. /\ expose => b.reasoning = (IF t.thinking = 0 THEN 0 ELSE w.blocks[t.thinking].size)
       /\ t.thinking # 0 => expose /\ b.reasoning > 0
  <2>1. CASE s.thinking = 0
    <3>1. expose => a.reasoning = 0
      BY <1>5, <2>1
    <3> QED
      BY <1>6, <1>20, <2>1, <3>1
  <2>2. CASE s.thinking # 0
    <3>1. expose /\ a.reasoning > 0
      BY <1>5, <2>2
    <3>2. a.reasoning = v.blocks[s.thinking].size
      BY <1>5, <2>2, <3>1
    <3>3. w.blocks[s.thinking].size = v.blocks[s.thinking].size
      BY <1>9, <1>10, <1>11, <2>2
    <3> QED
      BY <1>6, <1>20, <2>2, <3>1, <3>2, <3>3
  <2> QED
    BY <2>1, <2>2
<1>15. ASSUME NEW j \in DOMAIN t.tools
       PROVE  /\ t.tools[j].block # 0 /\ t.tools[j].name # "" /\ t.tools[j].id /\ b.tools[j].id
              /\ w.blocks[t.tools[j].block].size = b.tools[j].args
              /\ w.blocks[t.tools[j].block].call = [index |-> j, id |-> TRUE,
                                                    name |-> t.tools[j].name]
  <2>1. CASE j = i
    BY <1>8, <1>9, <1>10, <2>1 DEF k, size, call
  <2>2. CASE j # i
    <3> DEFINE m == s.tools[j].block
    <3>1. j \in DOMAIN s.tools /\ t.tools[j] = s.tools[j]
      BY <1>20, <2>2
    <3>2. /\ m # 0 /\ s.tools[j].name # "" /\ s.tools[j].id /\ a.tools[j].id
          /\ v.blocks[m].size = a.tools[j].args
          /\ v.blocks[m].call = [index |-> j, id |-> TRUE, name |-> s.tools[j].name]
          /\ m \in 1 .. L
      BY <1>5, <1>7, <3>1
    <3> HIDE DEF m
    <3>3. m # k
      <4>1. CASE i \in DOMAIN s.tools
        <5>1. v.blocks[k].call = [index |-> i, id |-> TRUE, name |-> s.tools[i].name]
          BY <1>5, <1>8, <4>1
        <5>2. \A x, name : [index |-> x, id |-> TRUE, name |-> name].index = x
          OBVIOUS
        <5>3. v.blocks[m].call.index = j
          <6> DEFINE c == v.blocks[m].call
                     name == s.tools[j].name
          <6>1. c = [index |-> j, id |-> TRUE, name |-> name]
            BY <3>2
          <6> HIDE DEF c, name
          <6>2. c.index = j
            BY <6>1, <5>2
          <6> QED
            BY <6>2 DEF c
        <5>4. v.blocks[k].call.index = i
          BY <5>1, <5>2
        <5> QED
          BY <2>2, <5>3, <5>4
      <4>2. CASE i \notin DOMAIN s.tools
        <5>1. k = L + 1
          BY <1>8, <4>2
        <5>2. m \in 1 .. L /\ L \in Nat
          BY <1>1, <3>2
        <5> QED
          BY <5>1, <5>2
      <4> QED
        BY <4>1, <4>2
    <3>4. w.blocks[m].size = v.blocks[m].size /\ w.blocks[m].call = v.blocks[m].call
      BY <1>9, <3>2, <3>3
    <3>5. b.tools[j] = a.tools[j]
      BY <1>3, <1>6, <2>2, <3>1
    <3>6. t.tools[j].block = m
      BY <3>1 DEF m
    <3> QED
      BY <3>1, <3>2, <3>4, <3>5, <3>6
  <2> QED
    BY <2>1, <2>2
<1>16. \A j \in DOMAIN s.tools : t.tools[j].block = s.tools[j].block
  <2> TAKE j \in DOMAIN s.tools
  <2>1. CASE j = i
    BY <1>8, <2>1 DEF k
  <2>2. CASE j # i
    BY <1>20, <2>2
  <2> QED
    BY <2>1, <2>2
<1>17. /\ Elements(b.order) = DOMAIN b.tools
       /\ \A j, l \in 1 .. Len(b.order) :
            j < l => t.tools[b.order[j]].block < t.tools[b.order[l]].block
  <2>0. a.order \in Seq(ToolIndex) /\ \A j \in 1 .. Len(a.order) : a.order[j] \in DOMAIN s.tools
    <3>1. a.order \in Seq(ToolIndex)
      BY <1>3, WholesTypes
    <3>2. \A j \in 1 .. Len(a.order) : a.order[j] \in Elements(a.order)
      BY DEF Elements
    <3> QED
      BY <1>3, <1>5, <3>1, <3>2
  <2>1. CASE i \in DOMAIN s.tools
    <3>1. b.order = a.order /\ DOMAIN b.tools = DOMAIN a.tools
      BY <1>3, <1>6, <2>1
    <3>2. Elements(b.order) = DOMAIN b.tools
      BY <1>5, <3>1
    <3>3. ASSUME NEW j \in 1 .. Len(a.order), NEW l \in 1 .. Len(a.order), j < l
          PROVE  t.tools[a.order[j]].block < t.tools[a.order[l]].block
      <4>1. s.tools[a.order[j]].block < s.tools[a.order[l]].block
        BY <1>5, <3>3
      <4> QED
        BY <1>16, <2>0, <4>1
    <3> QED
      BY <3>1, <3>2, <3>3
  <2>2. CASE i \notin DOMAIN s.tools
    <3> DEFINE M == Len(a.order)
    <3>1. b.order = Append(a.order, i) /\ DOMAIN b.tools = DOMAIN a.tools \cup {i}
      BY <1>3, <1>6, <2>2
    <3>2. /\ M \in Nat /\ Len(b.order) = M + 1 /\ b.order[M + 1] = i
          /\ \A j \in 1 .. M : b.order[j] = a.order[j]
      <4>1. i \in ToolIndex
        BY <1>4
      <4> QED
        BY <2>0, <3>1, <4>1
    <3>3. \A j \in 1 .. M + 1 : j \in 1 .. M \/ j = M + 1
      BY <3>2
    <3>4. \A j \in 1 .. M : j \in 1 .. M + 1 /\ M + 1 \in 1 .. M + 1
      BY <3>2
    <3>5. M + 1 \in 1 .. M + 1
      BY <3>2
    <3> HIDE DEF M
    <3>6. Elements(b.order) = Elements(a.order) \cup {i}
      <4>1. Elements(a.order) = {a.order[j] : j \in 1 .. M}
        BY DEF Elements, M
      <4>2. Elements(b.order) = {b.order[j] : j \in 1 .. M + 1}
        BY <3>2 DEF Elements
      <4> QED
        BY <3>2, <3>3, <3>4, <3>5, <4>1, <4>2
    <3>7. ASSUME NEW j \in 1 .. M + 1, NEW l \in 1 .. M + 1, j < l
          PROVE  t.tools[b.order[j]].block < t.tools[b.order[l]].block
      <4>1. j \in 1 .. M
        BY <3>2, <3>7
      <4>2. b.order[j] = a.order[j] /\ a.order[j] \in DOMAIN s.tools
        BY <2>0, <3>2, <4>1 DEF M
      <4>3. t.tools[b.order[j]].block = s.tools[a.order[j]].block
        BY <1>16, <4>2
      <4>4. s.tools[a.order[j]].block \in 1 .. L
        BY <1>7, <4>2
      <4>5. CASE l = M + 1
        <5>1. t.tools[b.order[l]].block = L + 1
          BY <1>8, <2>2, <3>2, <4>5 DEF k
        <5> QED
          BY <1>1, <4>3, <4>4, <5>1
      <4>6. CASE l \in 1 .. M
        <5>1. b.order[l] = a.order[l] /\ a.order[l] \in DOMAIN s.tools
          BY <2>0, <3>2, <4>6 DEF M
        <5>2. s.tools[a.order[j]].block < s.tools[a.order[l]].block
          BY <1>5, <3>7, <4>1, <4>6 DEF M
        <5>3. t.tools[b.order[l]].block = s.tools[a.order[l]].block
          BY <1>16, <5>1
        <5> QED
          BY <4>3, <5>2, <5>3
      <4> QED
        BY <3>3, <4>5, <4>6
    <3> QED
      BY <1>5, <3>1, <3>2, <3>6, <3>7
  <2> QED
    BY <2>1, <2>2
<1>18. b.finish = s.finish /\ t.finish = b.finish
  BY <1>5, <1>6, <1>20
<1>19. Agrees(t, w, b)
  BY <1>9, <1>12, <1>13, <1>14, <1>15, <1>17, <1>18 DEF Agrees
<1> QED
  BY <1>19 DEF w, b

\* All that the invariant says of the stream, the view and the aggregation; g
\* says that the calls began with their heads.
Told(s, v, n, a, g) ==
  /\ Fits(s, v, n)
  /\ SameCalls(s, a)
  /\ ~search /\ g => Agrees(s, v, a)

\* The same, while the message is open.
Ready(s, v, n, a, g) ==
  /\ Going(s, v, n) /\ Hidden(s)
  /\ SameCalls(s, a)
  /\ ~search /\ g => Agrees(s, v, a)

LEMMA ReadyTold ==
  ASSUME NEW s, NEW v, NEW n, NEW a, NEW g, Ready(s, v, n, a, g)
  PROVE  Told(s, v, n, a, g)
<1>1. v.phase = "open"
  BY GoingFacts DEF Ready
<1>2. Ended(s, v)
  BY <1>1 DEF Ended
<1> QED
  BY <1>2 DEF Ready, Told, Going, Fits

LEMMA LaterReady ==
  ASSUME NEW s, NEW v, NEW n \in Nat, NEW a, NEW g, Ready(s, v, n, a, g)
  PROVE  Ready(s, v, n + 1, a, g)
BY LaterCore DEF Ready, Going

LEMMA LaterTold ==
  ASSUME NEW s, NEW v, NEW n \in Nat, NEW a, NEW g, Told(s, v, n, a, g)
  PROVE  Told(s, v, n + 1, a, g)
BY LaterCore DEF Told, Fits

LEMMA AgreesSame ==
  ASSUME NEW s, NEW v, NEW n, Core(s, v, n), NEW a, Agrees(s, v, a),
         NEW t, t.tools = s.tools, t.text = s.text, t.thinking = s.thinking,
         NEW b, b.text = a.text, expose => b.reasoning = a.reasoning,
         b.tools = a.tools, b.order = a.order, t.finish = b.finish,
         NEW w, Len(w.blocks) = Len(v.blocks),
         \A m \in 1 .. Len(v.blocks) :
           /\ w.blocks[m].kind = v.blocks[m].kind
           /\ w.blocks[m].call = v.blocks[m].call
           /\ w.blocks[m].size = v.blocks[m].size,
         w.phase = "stopped" => ~b.failed /\ w.stop = StopReason(t.finish) /\ t.finish # "none"
  PROVE  Agrees(t, w, b)
<1>1. /\ Phased(s, v) /\ Matched(s, v) /\ Called(s, v, n)
  BY DEF Core
<1>2. /\ s.text # 0 => s.text \in 1 .. Len(v.blocks)
      /\ s.thinking # 0 => s.thinking \in 1 .. Len(v.blocks)
  BY <1>1 DEF Matched, Phased
<1>3. /\ \A m \in 1 .. Len(v.blocks) :
           /\ v.blocks[m].kind \in {"text", "thinking", "tool_use"}
           /\ v.blocks[m].kind = "text" <=> m = s.text
           /\ v.blocks[m].kind = "thinking" <=> m = s.thinking
           /\ v.blocks[m].kind # "tool_use" => v.blocks[m].call = NoCall
      /\ a.text = (IF s.text = 0 THEN 0 ELSE v.blocks[s.text].size)
      /\ s.text # 0 => a.text > 0
      /\ expose => a.reasoning = (IF s.thinking = 0 THEN 0 ELSE v.blocks[s.thinking].size)
      /\ s.thinking # 0 => expose /\ a.reasoning > 0
      /\ Elements(a.order) = DOMAIN a.tools
      /\ \A j, l \in 1 .. Len(a.order) :
           j < l => s.tools[a.order[j]].block < s.tools[a.order[l]].block
      /\ \A i \in DOMAIN s.tools :
           /\ s.tools[i].block # 0 /\ s.tools[i].name # "" /\ s.tools[i].id /\ a.tools[i].id
           /\ v.blocks[s.tools[i].block].size = a.tools[i].args
           /\ v.blocks[s.tools[i].block].call = [index |-> i, id |-> TRUE,
                                                 name |-> s.tools[i].name]
  BY DEF Agrees
<1>4. ASSUME NEW m \in 1 .. Len(w.blocks)
      PROVE  /\ w.blocks[m].kind \in {"text", "thinking", "tool_use"}
             /\ w.blocks[m].kind = "text" <=> m = t.text
             /\ w.blocks[m].kind = "thinking" <=> m = t.thinking
             /\ w.blocks[m].kind # "tool_use" => w.blocks[m].call = NoCall
  <2>1. /\ v.blocks[m].kind \in {"text", "thinking", "tool_use"}
        /\ v.blocks[m].kind = "text" <=> m = s.text
        /\ v.blocks[m].kind = "thinking" <=> m = s.thinking
        /\ v.blocks[m].kind # "tool_use" => v.blocks[m].call = NoCall
    BY <1>3
  <2>2. w.blocks[m].kind = v.blocks[m].kind /\ w.blocks[m].call = v.blocks[m].call
    OBVIOUS
  <2> QED
    BY <2>1, <2>2
<1>5. /\ s.text # 0 => w.blocks[s.text].size = v.blocks[s.text].size
      /\ s.thinking # 0 => w.blocks[s.thinking].size = v.blocks[s.thinking].size
  BY <1>2
<1>6. b.text = (IF t.text = 0 THEN 0 ELSE w.blocks[t.text].size)
  <2>1. CASE s.text = 0
    BY <1>3, <2>1
  <2>2. CASE s.text # 0
    <3>1. a.text = v.blocks[s.text].size
      BY <1>3, <2>2
    <3> QED
      BY <1>5, <2>2, <3>1
  <2> QED
    BY <2>1, <2>2
<1>7. expose => b.reasoning = (IF t.thinking = 0 THEN 0 ELSE w.blocks[t.thinking].size)
  <2> SUFFICES ASSUME expose
               PROVE  b.reasoning = (IF t.thinking = 0 THEN 0 ELSE w.blocks[t.thinking].size)
    OBVIOUS
  <2>1. CASE s.thinking = 0
    <3>1. a.reasoning = 0
      BY <1>3, <2>1
    <3> QED
      BY <2>1, <3>1
  <2>2. CASE s.thinking # 0
    <3>1. a.reasoning = v.blocks[s.thinking].size
      BY <1>3, <2>2
    <3> QED
      BY <1>5, <2>2, <3>1
  <2> QED
    BY <2>1, <2>2
<1>8. (t.text # 0 => b.text > 0) /\ (t.thinking # 0 => expose /\ b.reasoning > 0)
  BY <1>3
<1>9. ASSUME NEW i \in DOMAIN t.tools
      PROVE  /\ t.tools[i].block # 0 /\ t.tools[i].name # "" /\ t.tools[i].id /\ b.tools[i].id
             /\ w.blocks[t.tools[i].block].size = b.tools[i].args
             /\ w.blocks[t.tools[i].block].call = [index |-> i, id |-> TRUE,
                                                   name |-> t.tools[i].name]
  <2> DEFINE m == s.tools[i].block
  <2>1. /\ m # 0 /\ s.tools[i].name # "" /\ s.tools[i].id /\ a.tools[i].id
        /\ v.blocks[m].size = a.tools[i].args
        /\ v.blocks[m].call = [index |-> i, id |-> TRUE, name |-> s.tools[i].name]
    BY <1>3
  <2>2. m \in 1 .. Len(v.blocks)
    BY <1>1, <2>1 DEF Called, Phased
  <2> HIDE DEF m
  <2>3. w.blocks[m].size = v.blocks[m].size /\ w.blocks[m].call = v.blocks[m].call
    BY <2>2
  <2>4. t.tools[i].block = m /\ t.tools[i] = s.tools[i] /\ b.tools[i] = a.tools[i]
    BY DEF m
  <2> QED
    BY <2>1, <2>3, <2>4
<1>10. /\ Elements(b.order) = DOMAIN b.tools
       /\ \A j, l \in 1 .. Len(b.order) :
            j < l => t.tools[b.order[j]].block < t.tools[b.order[l]].block
  BY <1>3
<1> QED
  BY <1>4, <1>6, <1>7, <1>8, <1>9, <1>10 DEF Agrees

LEMMA CallsSame ==
  ASSUME NEW s, NEW a, SameCalls(s, a),
         NEW t, DOMAIN t.tools = DOMAIN s.tools,
         \A i \in DOMAIN s.tools : t.tools[i].name = s.tools[i].name,
         NEW b \in Wholes, b.tools = a.tools, ~t.terminal => ~b.failed
  PROVE  SameCalls(t, b)
BY DEF SameCalls

LEMMA BeginReady ==
  ASSUME NEW s, NEW v, NEW n, NEW a, NEW g, Told(s, v, n, a, g), ~s.terminal
  PROVE  LET t == EnsureStarted(s)
             w == Begun(s, v)
         IN  /\ Leads(s, v, t, w) /\ Ready(t, w, n, a, g)
             /\ t.tools = s.tools
<1> DEFINE t == EnsureStarted(s)
           w == Begun(s, v)
<1>1. Fits(s, v, n) /\ SameCalls(s, a) /\ Core(s, v, n)
  BY DEF Told, Fits
<1>2. /\ Leads(s, v, t, w) /\ Going(t, w, n) /\ Hidden(t)
      /\ t.finish = s.finish /\ t.text = s.text /\ t.thinking = s.thinking
      /\ t.tools = s.tools
      /\ w.blocks = v.blocks /\ w.phase = "open"
  BY <1>1, BeginFits
<1> HIDE DEF t, w
<1>3. a \in Wholes /\ ~a.failed
  BY <1>1 DEF SameCalls
<1>4. SameCalls(t, a)
  BY <1>1, <1>2, <1>3, CallsSame
<1>5. ASSUME Agrees(s, v, a) PROVE Agrees(t, w, a)
  <2>1. t.finish = a.finish
    BY <1>2, <1>5 DEF Agrees
  <2> QED
    BY <1>1, <1>2, <1>5, <2>1, AgreesSame
<1>6. Ready(t, w, n, a, g)
  BY <1>2, <1>4, <1>5 DEF Told, Ready
<1> QED
  BY <1>2, <1>6 DEF t, w

LEMMA TextReady ==
  ASSUME NEW s, NEW v, NEW n \in 1 .. MaxEvents, NEW a, NEW g, Ready(s, v, n, a, g)
  PROVE  \E w : /\ Leads(s, v, HandleText(s), w)
                /\ Ready(HandleText(s), w, n, [a EXCEPT !.text = @ + 1], g)
<1> DEFINE t == HandleText(s)
           w == Added(v, s.text, "text")
           b == [a EXCEPT !.text = @ + 1]
<1>1. Going(s, v, n) /\ Hidden(s) /\ SameCalls(s, a)
  BY DEF Ready
<1>2. /\ Leads(s, v, t, w) /\ Going(t, w, n)
      /\ t.tools = s.tools /\ t.finish = s.finish /\ t.thinking = s.thinking
      /\ t.text = (IF s.text = 0 THEN Len(s.blocks) + 1 ELSE s.text)
  BY <1>1, TextFits
<1>3. a \in Wholes /\ ~a.failed
  BY <1>1 DEF SameCalls, Going
<1>4. /\ b \in Wholes /\ b.text = a.text + 1 /\ b.reasoning = a.reasoning
      /\ b.finish = a.finish /\ b.tools = a.tools /\ b.order = a.order /\ b.failed = a.failed
  BY <1>3 DEF Wholes
<1> HIDE DEF t, b
<1>5. SameCalls(t, b) /\ Hidden(t)
  <2>1. SameCalls(t, b)
    BY <1>1, <1>2, <1>3, <1>4, CallsSame
  <2> QED
    BY <1>1, <1>2, <2>1 DEF Hidden, Going
<1>6. ASSUME Agrees(s, v, a) PROVE Agrees(t, w, b)
  <2> DEFINE k == IF s.text = 0 THEN Len(s.blocks) + 1 ELSE s.text
  <2>1. b.reasoning = a.reasoning + 0
    BY <1>3, <1>4, WholesTypes
  <2>2. t.text = k
    BY <1>2
  <2> HIDE DEF k
  <2>3. k = (IF s.text = 0 THEN Len(s.blocks) + 1 ELSE s.text)
    BY DEF k
  <2> QED
    BY <1>1, <1>2, <1>4, <1>6, <2>1, <2>2, <2>3, AgreesAdded
<1> HIDE DEF w
<1>7. Ready(t, w, n, b, g)
  BY <1>2, <1>5, <1>6 DEF Ready
<1> QED
  BY <1>2, <1>7 DEF t, b

LEMMA ReasoningReady ==
  ASSUME NEW s, NEW v, NEW n \in 1 .. MaxEvents, NEW a, NEW g, Ready(s, v, n, a, g)
  PROVE  \E w : /\ Leads(s, v, HandleReasoning(s), w)
                /\ Ready(HandleReasoning(s), w, n, [a EXCEPT !.reasoning = @ + 1], g)
<1> DEFINE t == HandleReasoning(s)
           b == [a EXCEPT !.reasoning = @ + 1]
<1>1. Going(s, v, n) /\ Hidden(s) /\ SameCalls(s, a)
  BY DEF Ready
<1>2. a \in Wholes /\ ~a.failed
  BY <1>1 DEF SameCalls, Going
<1>3. /\ b \in Wholes /\ b.text = a.text /\ b.reasoning = a.reasoning + 1
      /\ b.finish = a.finish /\ b.tools = a.tools /\ b.order = a.order /\ b.failed = a.failed
  BY <1>2 DEF Wholes
<1> HIDE DEF b
<1>4. CASE expose
  <2> DEFINE w == Added(v, s.thinking, "thinking")
  <2>1. /\ Leads(s, v, t, w) /\ Going(t, w, n)
        /\ t.tools = s.tools /\ t.finish = s.finish /\ t.text = s.text
        /\ t.thinking = (IF s.thinking = 0 THEN Len(s.blocks) + 1 ELSE s.thinking)
    BY <1>1, <1>4, ReasoningFits
  <2> HIDE DEF t
  <2>2. SameCalls(t, b)
    BY <1>1, <1>2, <1>3, <2>1, CallsSame
  <2>3. Hidden(t)
    BY <1>1, <2>1 DEF Hidden, Going
  <2>4. ASSUME Agrees(s, v, a) PROVE Agrees(t, w, b)
    <3> DEFINE k == IF s.thinking = 0 THEN Len(s.blocks) + 1 ELSE s.thinking
    <3>1. b.text = a.text + 0
      BY <1>2, <1>3, WholesTypes
    <3>2. t.thinking = k
      BY <2>1
    <3> HIDE DEF k
    <3>3. k = (IF s.thinking = 0 THEN Len(s.blocks) + 1 ELSE s.thinking)
      BY DEF k
    <3> QED
      BY <1>1, <1>3, <1>4, <2>1, <2>4, <3>1, <3>2, <3>3, AgreesAdded
  <2> HIDE DEF w
  <2>5. Ready(t, w, n, b, g)
    BY <2>1, <2>2, <2>3, <2>4 DEF Ready
  <2> QED
    BY <2>1, <2>5 DEF t, b
<1>5. CASE ~expose
  <2>1. /\ Leads(s, v, t, v) /\ Going(t, v, n)
        /\ t.tools = s.tools /\ t.finish = s.finish /\ t.thinking = s.thinking
        /\ t.text = s.text
    BY <1>1, <1>5, KeptBackFits
  <2> HIDE DEF t
  <2>2. SameCalls(t, b)
    BY <1>1, <1>2, <1>3, <2>1, CallsSame
  <2>3. Hidden(t)
    BY <1>1, <2>1 DEF Hidden, Going
  <2>4. ASSUME Agrees(s, v, a) PROVE Agrees(t, v, b)
    <3>1. t.finish = b.finish
      BY <1>3, <2>1, <2>4 DEF Agrees
    <3>2. v.phase # "stopped"
      BY <1>1, GoingFacts
    <3>3. Core(s, v, n)
      BY <1>1 DEF Going
    <3> QED
      BY <1>3, <1>5, <2>1, <2>4, <3>1, <3>2, <3>3, AgreesSame
  <2>5. Ready(t, v, n, b, g)
    BY <2>1, <2>2, <2>3, <2>4 DEF Ready
  <2> QED
    BY <2>1, <2>5 DEF t, b
<1> QED
  BY <1>4, <1>5

LEMMA ReasonReady ==
  ASSUME NEW s, NEW v, NEW n, NEW a, NEW g, Ready(s, v, n, a, g), NEW x \in Finish
  PROVE  LET t == [s EXCEPT !.finish = x]
         IN  Leads(s, v, t, v) /\ Ready(t, v, n, [a EXCEPT !.finish = x], g)
<1> DEFINE t == [s EXCEPT !.finish = x]
           b == [a EXCEPT !.finish = x]
<1>1. Going(s, v, n) /\ Hidden(s) /\ SameCalls(s, a)
  BY DEF Ready
<1>2. /\ s \in StreamStates /\ v \in View /\ Core(s, v, n) /\ s.started /\ ~s.terminal
      /\ Phased(s, v) /\ Matched(s, v) /\ Called(s, v, n) /\ s.out \in Seq(Frames)
      /\ s.unexposed => ~expose
      /\ v.phase = "open"
  BY <1>1, GoingFacts DEF Going, Core
<1>3. a \in Wholes /\ ~a.failed
  BY <1>1 DEF SameCalls, Going
<1>4. /\ b \in Wholes /\ b.text = a.text /\ b.reasoning = a.reasoning
      /\ b.finish = x /\ b.tools = a.tools /\ b.order = a.order /\ b.failed = a.failed
  BY <1>3 DEF Wholes
<1>5. /\ t \in StreamStates /\ t.out = s.out
      /\ t.started = s.started /\ t.terminal = s.terminal /\ t.finish = x
      /\ t.blocks = s.blocks /\ t.text = s.text /\ t.thinking = s.thinking
      /\ t.unexposed = s.unexposed /\ t.tools = s.tools
  BY <1>2 DEF StreamStates
<1> HIDE DEF t, b
<1>6. Leads(s, v, t, v)
  BY <1>2, <1>5, LeadsSame
<1>7. Phased(t, v) /\ Matched(t, v) /\ Called(t, v, n) /\ Hidden(t)
  BY <1>1, <1>2, <1>5 DEF Phased, Matched, Called, Hidden
<1>8. Going(t, v, n)
  BY <1>2, <1>5, <1>7 DEF Going, Core
<1>9. SameCalls(t, b)
  BY <1>1, <1>3, <1>4, <1>5, CallsSame
<1>10. ASSUME Agrees(s, v, a) PROVE Agrees(t, v, b)
  <2>1. v.phase # "stopped" /\ t.finish = b.finish
    BY <1>2, <1>4, <1>5
  <2> QED
    BY <1>2, <1>4, <1>5, <1>10, <2>1, AgreesSame
<1>11. Ready(t, v, n, b, g)
  BY <1>7, <1>8, <1>9, <1>10 DEF Ready
<1> QED
  BY <1>6, <1>11 DEF t, b

LEMMA ToolReady ==
  ASSUME NEW s, NEW v, NEW m \in Nat, m + 1 \in 1 .. MaxEvents, NEW a, NEW g,
         Ready(s, v, m, a, g), NEW f \in Fragment, Named(s, f), NEW h, h => g,
         h => Headed(a, f)
  PROVE  LET t == HandleTool(s, f)
             w == ToolSeen(s, v, f)
         IN  Leads(s, v, t, w) /\ Ready(t, w, m + 1, AggregateTool(a, f), h)
<1> DEFINE t == HandleTool(s, f)
           w == ToolSeen(s, v, f)
           b == AggregateTool(a, f)
           i == f.index
<1>1. Going(s, v, m) /\ Hidden(s) /\ SameCalls(s, a) /\ s \in StreamStates
  BY GoingFacts DEF Ready
<1>2. /\ Leads(s, v, t, w) /\ Going(t, w, m + 1) /\ Hidden(t)
      /\ t.finish = s.finish /\ t.text = s.text /\ t.thinking = s.thinking
      /\ DOMAIN t.tools = DOMAIN s.tools \cup {i}
      /\ \A j \in DOMAIN s.tools : j # i => t.tools[j] = s.tools[j]
      /\ t.tools[i].name = Heard(s, f).name /\ t.tools[i].id = Heard(s, f).id
      /\ t.tools[i].block = (IF Starts(s, f) THEN Len(s.blocks) + 1
                             ELSE Heard(s, f).block)
  BY <1>1, ToolFits
<1> HIDE DEF t, w, b
<1>3. Written(s, f, t)
  BY <1>2 DEF Written
<1>4. SameCalls(t, b)
  <2>1. s.terminal = FALSE /\ t.terminal = FALSE
    <3>1. s \in StreamStates /\ t \in StreamStates /\ ~s.terminal /\ ~t.terminal
      BY <1>1, <1>2 DEF Going, Core
    <3>2. s.terminal \in BOOLEAN /\ t.terminal \in BOOLEAN
      BY <3>1 DEF StreamStates
    <3> QED
      BY <3>1, <3>2
  <2> QED
    BY <1>1, <1>2, <2>1, ToolSame DEF b
<1>5. ASSUME ~search, h PROVE Agrees(t, w, b)
  <2>1. Agrees(s, v, a) /\ Headed(a, f)
    BY <1>5 DEF Ready
  <2> QED
    BY <1>1, <1>3, <1>5, <2>1, AgreesTool DEF w, b
<1>6. Ready(t, w, m + 1, b, h)
  BY <1>2, <1>4, <1>5 DEF Ready
<1> QED
  BY <1>2, <1>6 DEF t, w, b

LEMMA FailTold ==
  ASSUME NEW s, NEW v, NEW n, NEW a, NEW g, Told(s, v, n, a, g), ~s.terminal,
         NEW b \in Wholes, b.text = a.text, b.reasoning = a.reasoning, b.tools = a.tools,
         b.order = a.order, b.finish = a.finish
  PROVE  LET t == Fail(s)
             w == InPhase(v, "failed")
         IN  /\ Leads(s, v, t, w) /\ Told(t, w, n, b, g) /\ t.terminal
             /\ w.phase = "failed"
<1> DEFINE t == Fail(s)
           w == InPhase(v, "failed")
<1>1. Fits(s, v, n) /\ SameCalls(s, a) /\ Core(s, v, n)
  BY DEF Told, Fits
<1>2. /\ Leads(s, v, t, w) /\ Fits(t, w, n)
      /\ t.terminal /\ t.finish = s.finish /\ t.tools = s.tools
      /\ t.text = s.text /\ t.thinking = s.thinking
      /\ w.phase = "failed" /\ w.blocks = v.blocks
  BY <1>1, FailFits
<1> HIDE DEF t, w
<1>3. SameCalls(t, b)
  BY <1>1, <1>2, CallsSame
<1>4. ASSUME Agrees(s, v, a) PROVE Agrees(t, w, b)
  <2>1. t.finish = b.finish
    BY <1>2, <1>4 DEF Agrees
  <2> QED
    BY <1>1, <1>2, <1>4, <2>1, AgreesSame
<1>5. Told(t, w, n, b, g)
  BY <1>2, <1>3, <1>4 DEF Told
<1> QED
  BY <1>2, <1>5 DEF t, w

LEMMA FinalizeTold ==
  ASSUME NEW s, NEW v, NEW n \in 0 .. MaxEvents, NEW a, NEW g, Ready(s, v, n, a, g),
         s.finish # "none",
         Searched(v) \/ \A i \in DOMAIN s.tools : ~s.tools[i].server,
         NEW order \in SetToSeqs(Pending(s))
  PROVE  LET t == Finalize(s, order)
         IN  t.terminal
             /\ \E w : Leads(s, v, t, w) /\ Told(t, w, n, a, g) /\ w.phase = "stopped"
<1> DEFINE t == Finalize(s, order)
<1>1. Going(s, v, n) /\ Hidden(s) /\ SameCalls(s, a) /\ Core(s, v, n)
  BY DEF Ready, Going
<1>2. /\ t.terminal /\ t.finish = s.finish
      /\ t.text = s.text /\ t.thinking = s.thinking
      /\ DOMAIN t.tools = DOMAIN s.tools
      /\ \A i \in DOMAIN s.tools : t.tools[i].name = s.tools[i].name
      /\ Pending(s) = {} => t.tools = s.tools
      /\ \E w : /\ Leads(s, v, t, w) /\ Fits(t, w, n) /\ w.phase = "stopped"
                /\ Pending(s) = {} => Closed(v, w, StopReason(s.finish))
  BY <1>1, FinalizeFits
<1> HIDE DEF t
<1>3. PICK w : /\ Leads(s, v, t, w) /\ Fits(t, w, n) /\ w.phase = "stopped"
               /\ Pending(s) = {} => Closed(v, w, StopReason(s.finish))
  BY <1>2
<1>4. a \in Wholes /\ ~a.failed
  BY <1>1 DEF SameCalls, Going
<1>5. SameCalls(t, a)
  BY <1>1, <1>2, <1>4, CallsSame
<1>6. ASSUME Agrees(s, v, a) PROVE Agrees(t, w, a)
  <2>1. \A i \in DOMAIN s.tools : s.tools[i].block # 0
    BY <1>6 DEF Agrees
  <2>2. Pending(s) = {}
    BY <2>1 DEF Pending
  <2>3. t.tools = s.tools /\ Closed(v, w, StopReason(s.finish))
    BY <1>2, <1>3, <2>2
  <2>4. t.finish = a.finish
    BY <1>2, <1>6 DEF Agrees
  <2>5. /\ Len(w.blocks) = Len(v.blocks)
        /\ w.stop = StopReason(t.finish)
        /\ \A m \in 1 .. Len(v.blocks) :
             /\ w.blocks[m].kind = v.blocks[m].kind
             /\ w.blocks[m].call = v.blocks[m].call
             /\ w.blocks[m].size = v.blocks[m].size
    BY <1>2, <2>3 DEF Closed
  <2> QED
    BY <1>1, <1>2, <1>4, <1>6, <2>3, <2>4, <2>5, AgreesSame
<1>7. Told(t, w, n, a, g)
  BY <1>3, <1>5, <1>6 DEF Told, Ready
<1> QED
  BY <1>2, <1>3, <1>7 DEF t

LEMMA WeakerTold ==
  ASSUME NEW s, NEW v, NEW n, NEW a, NEW g, Told(s, v, n, a, g), NEW h, h => g
  PROVE  Told(s, v, n, a, h)
BY DEF Told

\* The upstream has said that a generation is done.
LEMMA DoneTold ==
  ASSUME NEW s, NEW v, NEW n \in 0 .. MaxEvents, NEW a, NEW g, Told(s, v, n, a, g),
         ~s.terminal, NEW order \in SetToSeqs(Pending(s))
  PROVE  \E w : Leads(s, v, HandleDone(s, order), w) /\ Told(HandleDone(s, order), w, n, a, g)
<1> DEFINE t == HandleDone(s, order)
<1>1. Fits(s, v, n) /\ SameCalls(s, a) /\ Core(s, v, n)
  BY DEF Told, Fits
<1>2. /\ s \in StreamStates /\ v \in View /\ a \in Wholes
      /\ Phased(s, v) /\ Matched(s, v) /\ Called(s, v, n) /\ s.out \in Seq(Frames)
      /\ s.unexposed => ~expose
  BY <1>1 DEF Core, SameCalls, StreamStates
<1>3. CASE s.finish = "none"
  <2>1. t = Fail(s)
    BY <1>3 DEF HandleDone
  <2> HIDE DEF t
  <2>2. Leads(s, v, t, InPhase(v, "failed")) /\ Told(t, InPhase(v, "failed"), n, a, g)
    BY <1>2, <2>1, FailTold
  <2> QED
    BY <2>2 DEF t
<1>4. CASE s.finish # "none" /\ search
  <2>1. t = [s EXCEPT !.round_complete = TRUE]
    BY <1>4 DEF HandleDone
  <2>2. /\ t \in StreamStates /\ t.out = s.out
        /\ t.started = s.started /\ t.terminal = s.terminal /\ t.finish = s.finish
        /\ t.blocks = s.blocks /\ t.text = s.text /\ t.thinking = s.thinking
        /\ t.unexposed = s.unexposed /\ t.tools = s.tools
    BY <1>2, <2>1 DEF StreamStates
  <2> HIDE DEF t
  <2>3. Leads(s, v, t, v)
    BY <1>2, <2>2, LeadsSame
  <2>4. Phased(t, v) /\ Matched(t, v) /\ Called(t, v, n)
    BY <1>2, <2>2 DEF Phased, Matched, Called
  <2>5. Fits(t, v, n)
    <3>1. Hidden(t) /\ Ended(t, v)
      BY <1>1, <2>2 DEF Fits, Hidden, Ended
    <3> QED
      BY <1>2, <2>2, <2>4, <3>1 DEF Fits, Core
  <2>6. SameCalls(t, a)
    BY <1>1, <2>2 DEF SameCalls
  <2>7. Told(t, v, n, a, g)
    BY <1>4, <2>5, <2>6 DEF Told
  <2> QED
    BY <2>3, <2>7 DEF t
<1>5. CASE s.finish # "none" /\ ~search
  <2>1. t = Finalize(s, order)
    BY <1>5 DEF HandleDone
  <2>2. Going(s, v, n)
    BY <1>1, <1>2, <1>5 DEF Phased, Going
  <2>3. Ready(s, v, n, a, g)
    BY <1>1, <2>2 DEF Told, Ready, Fits
  <2>4. \A i \in DOMAIN s.tools : ~s.tools[i].server
    BY <1>2, <1>5 DEF Called
  <2> HIDE DEF t
  <2>5. \E w : Leads(s, v, t, w) /\ Told(t, w, n, a, g) /\ w.phase = "stopped"
    BY <1>5, <2>1, <2>3, <2>4, FinalizeTold
  <2> QED
    BY <2>5 DEF t
<1> QED
  BY <1>3, <1>4, <1>5

\* Whatever an event is, the stream goes on to emit what is legal, and to know
\* what it has said.
LEMMA HandleTold ==
  ASSUME NEW s, NEW v, NEW m \in Nat, m + 1 \in 1 .. MaxEvents, NEW a, NEW g,
         Told(s, v, m, a, g), ~s.terminal, NEW event \in Event,
         NEW order \in SetToSeqs(Pending(s)),
         event.type = "tool" => Named(s, event.fragment),
         NEW h, h => g, h => (event.type = "tool" => Headed(a, event.fragment))
  PROVE  \E w : /\ Leads(s, v, Handle(s, event, order), w)
                /\ Told(Handle(s, event, order), w, m + 1, Aggregate(a, event), h)
<1> DEFINE t == Handle(s, event, order)
           b == Aggregate(a, event)
           open == EnsureStarted(s)
           u == Begun(s, v)
           n == m + 1
<1>1. Fits(s, v, m) /\ SameCalls(s, a) /\ s \in StreamStates /\ s.out \in Seq(Frames)
  BY DEF Told, Fits, Core, StreamStates
<1>2. a \in Wholes /\ ~a.failed
  BY <1>1 DEF SameCalls
<1>3. m \in 0 .. MaxEvents
  BY ConstantTypes
<1>4. Told(s, v, m, a, h) /\ Told(s, v, n, a, h)
  BY LaterTold, WeakerTold
<1>5. /\ Leads(s, v, open, u) /\ Ready(open, u, m, a, g) /\ Ready(open, u, m, a, h)
      /\ open.tools = s.tools
  BY <1>4, BeginReady
<1>6. Ready(open, u, n, a, h)
  BY <1>5, LaterReady
<1>7. ASSUME NEW w, Leads(open, u, t, w), Told(t, w, n, b, h)
      PROVE  \E x : Leads(s, v, t, x) /\ Told(t, x, n, b, h)
  <2> HIDE DEF open, u, t, n, b
  <2>1. Leads(s, v, t, w)
    BY <1>1, <1>5, <1>7, LeadsOn
  <2> QED
    BY <1>7, <2>1
<1>8. CASE event.type = "done"
  <2>1. t = HandleDone(s, order) /\ b = a
    BY <1>8 DEF Handle, Aggregate
  <2> HIDE DEF t, b
  <2>2. PICK w : Leads(s, v, t, w) /\ Told(t, w, m, a, h)
    BY <1>3, <1>4, <2>1, DoneTold
  <2>3. Told(t, w, m + 1, a, h)
    BY <2>2, LaterTold
  <2> QED
    BY <2>1, <2>2, <2>3 DEF t, b
<1>9. CASE event.type = "broken"
  <2>1. t = Fail(s) /\ b = [a EXCEPT !.failed = TRUE]
    BY <1>2, <1>9 DEF Handle, Aggregate
  <2>2. /\ b \in Wholes /\ b.text = a.text /\ b.reasoning = a.reasoning
        /\ b.finish = a.finish /\ b.tools = a.tools /\ b.order = a.order
    BY <1>2, <2>1 DEF Wholes
  <2> HIDE DEF t, b, n
  <2>3. Leads(s, v, t, InPhase(v, "failed")) /\ Told(t, InPhase(v, "failed"), n, b, h)
    BY <1>4, <2>1, <2>2, FailTold
  <2> QED
    BY <2>3 DEF t, b, n
<1>10. CASE event.type = "usage"
  <2>1. t = open /\ b = a
    BY <1>10 DEF Handle, Aggregate
  <2> HIDE DEF t, b, n, open, u
  <2>2. Told(t, u, n, b, h) /\ Leads(s, v, t, u)
    BY <1>5, <1>6, <2>1, ReadyTold
  <2> QED
    BY <2>2 DEF t, b, n
<1>11. CASE event.type = "finish"
  <2>1. t = [open EXCEPT !.finish = event.finish] /\ b = [a EXCEPT !.finish = event.finish]
    BY <1>2, <1>11 DEF Handle, Aggregate
  <2>2. event.finish \in Finish
    BY <1>11 DEF Event
  <2> HIDE DEF t, b, n, open, u
  <2>3. Leads(open, u, t, u) /\ Ready(t, u, n, b, h)
    BY <1>6, <2>1, <2>2, ReasonReady
  <2>4. Told(t, u, n, b, h)
    BY <2>3, ReadyTold
  <2> QED
    BY <1>7, <2>3, <2>4 DEF t, b, n
<1>12. CASE event.type = "reasoning"
  <2>1. t = HandleReasoning(open) /\ b = [a EXCEPT !.reasoning = @ + 1]
    BY <1>2, <1>12 DEF Handle, Aggregate
  <2> HIDE DEF t, b, n, open, u
  <2>2. PICK w : Leads(open, u, t, w) /\ Ready(t, w, n, b, h)
    BY <1>6, <2>1, ReasoningReady DEF n
  <2>3. Told(t, w, n, b, h)
    BY <2>2, ReadyTold
  <2> QED
    BY <1>7, <2>2, <2>3 DEF t, b, n
<1>13. CASE event.type = "text"
  <2>1. t = HandleText(open) /\ b = [a EXCEPT !.text = @ + 1]
    BY <1>2, <1>13 DEF Handle, Aggregate
  <2> HIDE DEF t, b, n, open, u
  <2>2. PICK w : Leads(open, u, t, w) /\ Ready(t, w, n, b, h)
    BY <1>6, <2>1, TextReady DEF n
  <2>3. Told(t, w, n, b, h)
    BY <2>2, ReadyTold
  <2> QED
    BY <1>7, <2>2, <2>3 DEF t, b, n
<1>14. CASE event.type = "tool"
  <2> DEFINE f == event.fragment
             w == ToolSeen(open, u, f)
  <2>1. t = HandleTool(open, f) /\ b = AggregateTool(a, f)
    BY <1>2, <1>14 DEF Handle, Aggregate
  <2>2. f \in Fragment
    BY <1>14 DEF Event
  <2>3. Named(open, f)
    BY <1>5, <1>14 DEF Named
  <2>4. h => Headed(a, f)
    BY <1>14
  <2> HIDE DEF t, b, open, u, f
  <2>5. Leads(open, u, t, w) /\ Ready(t, w, m + 1, b, h)
    BY <1>5, <2>1, <2>2, <2>3, <2>4, ToolReady
  <2> HIDE DEF w
  <2>6. Told(t, w, m + 1, b, h)
    BY <2>5, ReadyTold
  <2> QED
    BY <1>7, <2>5, <2>6 DEF t, b
<1>15. event.type \in {"done", "broken", "usage", "finish", "reasoning", "text", "tool"}
  BY DEF Event
<1> QED
  BY <1>8, <1>9, <1>10, <1>11, <1>12, <1>13, <1>14, <1>15

-----------------------------------------------------------------------------
(* The searches                                                            *)

\* t is s, but for its blocks and its frames.
Kept(s, t) ==
  /\ t \in StreamStates
  /\ t.started = s.started /\ t.terminal = s.terminal /\ t.finish = s.finish
  /\ t.tools = s.tools /\ t.unexposed = s.unexposed

\* The block of text or thinking is stopped, if there is one.
LEMMA ClosedFits ==
  ASSUME NEW s, NEW v, NEW n, Going(s, v, n), s.text = 0, s.thinking = 0,
         NEW k, k # 0 => k \in 1 .. Len(s.blocks) /\ s.blocks[k] \in {"text", "thinking"},
         NEW t, Kept(s, t), t.text = 0, t.thinking = 0,
         k = 0 => t.blocks = s.blocks /\ t.out = s.out,
         k # 0 => /\ t.blocks = [s.blocks EXCEPT ![k] = "closed"]
                  /\ t.out = s.out \o StopFrames(s, k)
  PROVE  \E w : Leads(s, v, t, w) /\ Going(t, w, n) /\ (Searched(v) => Searched(w))
<1> DEFINE L == Len(s.blocks)
<1>1. /\ s \in StreamStates /\ v \in View /\ s.out \in Seq(Frames)
      /\ v.phase = "open" /\ Len(v.blocks) = L /\ L \in Nat
      /\ \A m \in 1 .. L : s.blocks[m] \in {"text", "thinking", "tool_use", "closed"}
  BY GoingFacts
<1>2. /\ Phased(s, v) /\ Matched(s, v) /\ Called(s, v, n)
      /\ s.unexposed => ~expose
      /\ s.started /\ ~s.terminal
  BY DEF Going, Core
<1>3. /\ t \in StreamStates
      /\ t.started = s.started /\ t.terminal = s.terminal /\ t.finish = s.finish
      /\ t.tools = s.tools /\ t.unexposed = s.unexposed
  BY DEF Kept
<1>4. CASE k = 0
  <2>1. Leads(s, v, t, v)
    BY <1>1, <1>4, LeadsSame
  <2>2. Phased(t, v) /\ Called(t, v, n)
    BY <1>2, <1>3, <1>4 DEF Phased, Called
  <2>3. Matched(t, v)
    BY <1>2, <1>3, <1>4 DEF Matched
  <2>4. Going(t, v, n)
    BY <1>1, <1>2, <1>3, <2>2, <2>3 DEF Going, Core
  <2> QED
    BY <2>1, <2>4
<1>5. CASE k # 0
  <2>1. k \in 1 .. L /\ s.blocks[k] \in {"text", "thinking"}
    BY <1>5
  <2>2. Stoppable(s, v, k)
    BY <1>1, <1>2, <2>1 DEF Stoppable, Matched
  <2>3. PICK c, w : Leads(s, v, t, w) /\ WithStopped(v, k, c, w)
    BY <1>1, <1>5, <2>2, StopBlock
  <2>4. /\ c.kind = v.blocks[k].kind /\ c.stopped /\ w \in View
        /\ w.phase = v.phase /\ Len(w.blocks) = L
        /\ \A m \in 1 .. L : w.blocks[m] = IF m = k THEN c ELSE v.blocks[m]
    BY <1>1, <2>3 DEF WithStopped
  <2>5. /\ s.blocks \in Seq({"text", "thinking", "tool_use", "closed"})
        /\ t.blocks = [s.blocks EXCEPT ![k] = "closed"]
    BY <1>1, <1>5 DEF StreamStates
  <2>6. /\ Len(t.blocks) = L
        /\ \A m \in 1 .. L : t.blocks[m] = IF m = k THEN "closed" ELSE s.blocks[m]
    BY <2>5
  <2>7. v.blocks[k].kind = s.blocks[k]
    BY <2>2 DEF Stoppable
  <2>8. \A m \in 1 .. L : w.blocks[m].kind = v.blocks[m].kind
    BY <2>4
  <2> HIDE DEF L
  <2>9. Phased(t, w)
    BY <1>1, <1>2, <1>3, <2>4, <2>6 DEF Phased, L
  <2>10. Matched(t, w)
    <3>1. ASSUME NEW m \in 1 .. L
          PROVE  /\ t.blocks[m] = "closed" => w.blocks[m].stopped
                 /\ t.blocks[m] # "closed" =>
                      w.blocks[m].kind = t.blocks[m] /\ ~w.blocks[m].signed
                      /\ ~w.blocks[m].stopped
      <4>1. CASE m = k
        BY <2>4, <2>6, <4>1
      <4>2. CASE m # k
        <5>1. w.blocks[m] = v.blocks[m] /\ t.blocks[m] = s.blocks[m]
          BY <2>4, <2>6, <4>2
        <5>2. /\ s.blocks[m] = "closed" => v.blocks[m].stopped
              /\ s.blocks[m] # "closed" =>
                   v.blocks[m].kind = s.blocks[m] /\ ~v.blocks[m].signed /\ ~v.blocks[m].stopped
          BY <1>2 DEF Matched, L
        <5> QED
          BY <5>1, <5>2
      <4> QED
        BY <4>1, <4>2
    <3> QED
      BY <2>6, <3>1 DEF Matched
  <2>11. Called(t, w, n)
    <3>1. ASSUME NEW i \in DOMAIN t.tools
          PROVE  /\ t.tools[i].pending <= n /\ n > 0
                 /\ t.tools[i].server <=> search /\ t.tools[i].name = "search"
                 /\ t.tools[i].block # 0 =>
                      /\ t.tools[i].block \in 1 .. L
                      /\ t.blocks[t.tools[i].block] = "tool_use"
                      /\ w.blocks[t.tools[i].block].kind = "tool_use"
      <4>1. /\ s.tools[i].pending <= n /\ n > 0
            /\ s.tools[i].server <=> search /\ s.tools[i].name = "search"
            /\ s.tools[i].block # 0 =>
                 /\ s.tools[i].block \in 1 .. L
                 /\ s.blocks[s.tools[i].block] = "tool_use"
                 /\ v.blocks[s.tools[i].block].kind = "tool_use"
        BY <1>2, <1>3 DEF Called, L
      <4> QED
        BY <1>3, <2>1, <2>6, <2>8, <4>1
    <3>2. ASSUME NEW m \in 1 .. L, w.blocks[m].kind = "tool_use"
          PROVE  \E i \in DOMAIN t.tools : t.tools[i].block = m
      <4>1. v.blocks[m].kind = "tool_use" /\ m \in 1 .. Len(v.blocks)
        BY <1>1, <2>8, <3>2
      <4> QED
        BY <1>2, <1>3, <4>1 DEF Called
    <3>3. IsFiniteSet(DOMAIN t.tools)
      BY <1>2, <1>3 DEF Called
    <3> QED
      BY <2>4, <2>6, <3>1, <3>2, <3>3 DEF Called
  <2>12. Going(t, w, n)
    BY <1>2, <1>3, <2>4, <2>9, <2>10, <2>11 DEF Going, Core
  <2>13. Searched(v) => Searched(w)
    BY <1>1, <2>4, <2>8 DEF Searched
  <2> QED
    BY <2>3, <2>12, <2>13
<1> QED
  BY <1>4, <1>5

LEMMA CloseOneIs ==
  ASSUME NEW s \in StreamStates, NEW k \in Nat, NEW kind \in {"text", "thinking"},
         k # 0 => k \in 1 .. Len(s.blocks) /\ s.blocks[k] = kind
  PROVE  LET t == CloseOne(s, k, kind)
         IN  /\ Kept(s, t) /\ t.text = s.text /\ t.thinking = s.thinking
             /\ k = 0 => t.blocks = s.blocks /\ t.out = s.out
             /\ k # 0 => /\ t.blocks = [s.blocks EXCEPT ![k] = "closed"]
                         /\ t.out = s.out \o StopFrames(s, k)
<1> DEFINE t == CloseOne(s, k, kind)
           r == [s EXCEPT !.blocks[k] = "closed"]
<1>1. CASE k = 0
  BY <1>1 DEF CloseOne, Kept
<1>2. CASE k # 0
  <2>1. t = Emit(r, StopFrames(s, k))
    BY <1>2 DEF CloseOne
  <2>2. /\ r \in StreamStates /\ r.blocks = [s.blocks EXCEPT ![k] = "closed"]
        /\ r.started = s.started /\ r.terminal = s.terminal /\ r.finish = s.finish
        /\ r.tools = s.tools /\ r.unexposed = s.unexposed
        /\ r.text = s.text /\ r.thinking = s.thinking /\ r.out = s.out
    <3>1. s.blocks \in Seq({"text", "thinking", "tool_use", "closed"})
      BY DEF StreamStates
    <3>2. [s.blocks EXCEPT ![k] = "closed"] \in Seq({"text", "thinking", "tool_use", "closed"})
      BY <1>2, <3>1, ExceptSeq
    <3> QED
      BY <3>2 DEF StreamStates
  <2>3. StopFrames(s, k) \in Seq(Frames)
    BY <1>2, StopFramesType
  <2> HIDE DEF r, t
  <2>4. /\ t \in StreamStates /\ t.out = r.out \o StopFrames(s, k)
        /\ t.started = r.started /\ t.terminal = r.terminal /\ t.finish = r.finish
        /\ t.blocks = r.blocks /\ t.text = r.text /\ t.thinking = r.thinking
        /\ t.tools = r.tools /\ t.unexposed = r.unexposed
    BY <2>1, <2>2, <2>3, EmitIs
  <2>5. Kept(s, t)
    BY <2>2, <2>4 DEF Kept
  <2> QED
    BY <1>2, <2>2, <2>4, <2>5 DEF t
<1> QED
  BY <1>1, <1>2

\* Before the searches are shown, the blocks of text and thinking are stopped.
LEMMA CloseContentFits ==
  ASSUME NEW s, NEW v, NEW n, Going(s, v, n)
  PROVE  LET t == CloseOpenContentBlocks(s)
         IN  /\ Kept(s, t)
             /\ \E w : Leads(s, v, t, w) /\ Going(t, w, n) /\ (Searched(v) => Searched(w))
<1> DEFINE t == CloseOpenContentBlocks(s)
           bare == [s EXCEPT !.text = 0, !.thinking = 0]
           i == s.thinking
           j == s.text
           p == CloseOne(s, i, "thinking")
           q == CloseOne(p, j, "text")
           r == [p EXCEPT !.text = 0, !.thinking = 0]
<1>1. /\ s \in StreamStates /\ v \in View /\ s.out \in Seq(Frames)
      /\ v.phase = "open" /\ Len(v.blocks) = Len(s.blocks) /\ Len(s.blocks) \in Nat
  BY GoingFacts
<1>2. /\ Phased(s, v) /\ Matched(s, v) /\ Called(s, v, n)
      /\ s.unexposed => ~expose
      /\ s.started /\ ~s.terminal
  BY DEF Going, Core
<1>3. /\ i \in Nat /\ j \in Nat
      /\ i # 0 => i \in 1 .. Len(s.blocks) /\ s.blocks[i] = "thinking"
      /\ j # 0 => j \in 1 .. Len(s.blocks) /\ s.blocks[j] = "text"
  BY <1>1, <1>2 DEF Matched, StreamStates
<1>4. /\ bare \in StreamStates /\ bare.text = 0 /\ bare.thinking = 0
      /\ bare.started = s.started /\ bare.terminal = s.terminal /\ bare.finish = s.finish
      /\ bare.tools = s.tools /\ bare.unexposed = s.unexposed
      /\ bare.blocks = s.blocks /\ bare.out = s.out
  BY <1>1 DEF StreamStates
<1>5. /\ Kept(s, p) /\ p.text = s.text /\ p.thinking = s.thinking
      /\ i = 0 => p.blocks = s.blocks /\ p.out = s.out
      /\ i # 0 => /\ p.blocks = [s.blocks EXCEPT ![i] = "closed"]
                  /\ p.out = s.out \o StopFrames(s, i)
  BY <1>1, <1>3, CloseOneIs
<1> HIDE DEF p
<1>6. p \in StreamStates /\ p.blocks \in Seq({"text", "thinking", "tool_use", "closed"})
  BY <1>5 DEF Kept, StreamStates
<1>7. j # 0 => j \in 1 .. Len(p.blocks) /\ p.blocks[j] = "text"
  <2>1. CASE i = 0
    BY <1>3, <1>5, <2>1
  <2>2. CASE i # 0
    <3>1. j # 0 => j # i
      BY <1>3, <2>2
    <3>2. s.blocks \in Seq({"text", "thinking", "tool_use", "closed"})
      BY <1>1 DEF StreamStates
    <3>3. /\ Len(p.blocks) = Len(s.blocks)
          /\ \A m \in 1 .. Len(s.blocks) : m # i => p.blocks[m] = s.blocks[m]
      <4>1. i \in 1 .. Len(s.blocks) /\ p.blocks = [s.blocks EXCEPT ![i] = "closed"]
        BY <1>3, <1>5, <2>2
      <4> HIDE DEF i
      <4> QED
        BY <3>2, <4>1, ExceptSeq
    <3> HIDE DEF i, j
    <3> QED
      BY <1>3, <3>1, <3>3
  <2> QED
    BY <2>1, <2>2
<1>8. /\ Kept(p, q) /\ q.text = p.text /\ q.thinking = p.thinking
      /\ j = 0 => q.blocks = p.blocks /\ q.out = p.out
      /\ j # 0 => /\ q.blocks = [p.blocks EXCEPT ![j] = "closed"]
                  /\ q.out = p.out \o StopFrames(p, j)
  BY <1>3, <1>6, <1>7, CloseOneIs
<1> HIDE DEF q
<1>9. t = [q EXCEPT !.thinking = 0, !.text = 0]
  BY DEF CloseOpenContentBlocks, p, q
<1>10. /\ t \in StreamStates /\ t.text = 0 /\ t.thinking = 0
       /\ t.started = q.started /\ t.terminal = q.terminal /\ t.finish = q.finish
       /\ t.tools = q.tools /\ t.unexposed = q.unexposed
       /\ t.blocks = q.blocks /\ t.out = q.out
  <2>1. q \in StreamStates
    BY <1>8 DEF Kept
  <2> HIDE DEF t
  <2> QED
    BY <1>9, <2>1 DEF StreamStates
<1>11. /\ r \in StreamStates /\ r.text = 0 /\ r.thinking = 0
       /\ r.started = p.started /\ r.terminal = p.terminal /\ r.finish = p.finish
       /\ r.tools = p.tools /\ r.unexposed = p.unexposed
       /\ r.blocks = p.blocks /\ r.out = p.out
  BY <1>6 DEF StreamStates
<1> HIDE DEF t, r, bare, i, j
<1>12. Kept(s, t) /\ Kept(bare, r) /\ Kept(r, t)
  BY <1>4, <1>5, <1>8, <1>10, <1>11 DEF Kept
<1>13. Going(bare, v, n)
  <2>1. Phased(bare, v) /\ Called(bare, v, n)
    BY <1>2, <1>4 DEF Phased, Called
  <2>2. Matched(bare, v)
    BY <1>2, <1>4 DEF Matched
  <2> QED
    BY <1>1, <1>2, <1>4, <2>1, <2>2 DEF Going, Core
<1>14. StopFrames(bare, i) = StopFrames(s, i) /\ StopFrames(r, j) = StopFrames(p, j)
  BY <1>4, <1>11 DEF StopFrames
<1>15. i # 0 => i \in 1 .. Len(bare.blocks) /\ bare.blocks[i] \in {"text", "thinking"}
  BY <1>3, <1>4
<1>16. /\ i = 0 => r.blocks = bare.blocks /\ r.out = bare.out
       /\ i # 0 => /\ r.blocks = [bare.blocks EXCEPT ![i] = "closed"]
                   /\ r.out = bare.out \o StopFrames(bare, i)
  BY <1>4, <1>5, <1>11, <1>14
<1>17. j # 0 => j \in 1 .. Len(r.blocks) /\ r.blocks[j] \in {"text", "thinking"}
  BY <1>7, <1>11
<1>18. /\ j = 0 => t.blocks = r.blocks /\ t.out = r.out
       /\ j # 0 => /\ t.blocks = [r.blocks EXCEPT ![j] = "closed"]
                   /\ t.out = r.out \o StopFrames(r, j)
  BY <1>8, <1>10, <1>11, <1>14
<1>19. PICK u : Leads(bare, v, r, u) /\ Going(r, u, n) /\ (Searched(v) => Searched(u))
  BY <1>4, <1>11, <1>12, <1>13, <1>15, <1>16, ClosedFits
<1>20. PICK w : Leads(r, u, t, w) /\ Going(t, w, n) /\ (Searched(u) => Searched(w))
  BY <1>10, <1>11, <1>12, <1>19, <1>17, <1>18, ClosedFits
<1>21. Leads(bare, v, t, w)
  BY <1>1, <1>4, <1>19, <1>20, LeadsOn
<1>22. Leads(s, v, t, w)
  BY <1>4, <1>21 DEF Leads
<1> QED
  BY <1>12, <1>19, <1>20, <1>22 DEF t

\* A block of a search and its result are shown whole.
LEMMA ShowOneFits ==
  ASSUME NEW s, NEW v, NEW n, Going(s, v, n),
         NEW kind \in {"server_tool_use", "web_search_tool_result"}, NEW deltas \in {0, 1},
         deltas = 1 => kind = "server_tool_use" /\ 1 \in 1 .. MaxEvents
  PROVE  LET t == ShowOne(s, kind, deltas)
         IN  /\ Kept(s, t) /\ t.text = s.text /\ t.thinking = s.thinking
             /\ \E w : /\ Leads(s, v, t, w) /\ Going(t, w, n)
                       /\ Searched(v) \/ kind = "server_tool_use" => Searched(w)
<1> DEFINE t == ShowOne(s, kind, deltas)
           L == Len(s.blocks)
           k == L + 1
           r == [s EXCEPT !.blocks = Append(@, "closed")]
           a == Start(k, kind, NoCall)
           d == Delta(k, 1)
           f == Frame("stop", k)
           x == [out |-> s.out \o <<a>>]
           y == IF deltas = 1 THEN [out |-> x.out \o <<d>>] ELSE x
           u == Opened(v, kind, NoCall)
           g == IF deltas = 1 THEN Grown(u, k, 1) ELSE u
           mid == [m \in 1 .. deltas |-> d]
           more == <<a>> \o mid \o <<f>>
<1>1. /\ s \in StreamStates /\ v \in View /\ s.out \in Seq(Frames)
      /\ v.phase = "open" /\ Len(v.blocks) = L /\ L \in Nat
      /\ \A m \in 1 .. L : s.blocks[m] \in {"text", "thinking", "tool_use", "closed"}
  BY GoingFacts
<1>2. /\ Phased(s, v) /\ Matched(s, v) /\ Called(s, v, n)
      /\ s.unexposed => ~expose
      /\ s.started /\ ~s.terminal
  BY DEF Going, Core
<1>3. kind \in Messages!Kind /\ NoCall \in Call \cup {NoCall} /\ kind # "tool_use" /\ k \in Nat
  BY <1>1 DEF Messages!Kind
<1>4. /\ a \in Frames /\ d \in Frames /\ f \in Frames
  BY <1>3, FrameTypes
<1>5. /\ r \in StreamStates /\ r.out = s.out
      /\ r.started = s.started /\ r.terminal = s.terminal /\ r.finish = s.finish
      /\ r.blocks = Append(s.blocks, "closed") /\ r.text = s.text /\ r.thinking = s.thinking
      /\ r.tools = s.tools /\ r.unexposed = s.unexposed
  <2>1. Append(s.blocks, "closed") \in Seq({"text", "thinking", "tool_use", "closed"})
    BY <1>1 DEF StreamStates
  <2> QED
    BY <1>1, <2>1 DEF StreamStates
<1>6. more \in Seq(Frames) /\ s.out \o more = y.out \o <<f>>
  <2> DEFINE b == s.out \o <<a>>
  <2> HIDE DEF a, d, f
  <2>1. mid \in Seq(Frames) /\ <<a>> \in Seq(Frames) /\ <<f>> \in Seq(Frames)
        /\ b \in Seq(Frames)
    BY <1>1, <1>4
  <2>2. y.out = b \o mid
    <3>1. CASE deltas = 0
      <4>1. mid = <<>> /\ y.out = b
        BY <3>1
      <4> HIDE DEF mid, y, b
      <4> QED
        BY <2>1, <4>1
    <3>2. CASE deltas = 1
      BY <3>2
    <3> QED
      BY <3>1, <3>2
  <2> HIDE DEF mid, y
  <2>3. /\ <<a>> \o mid \in Seq(Frames)
        /\ s.out \o (<<a>> \o mid) = b \o mid
        /\ (s.out \o (<<a>> \o mid)) \o <<f>> = s.out \o ((<<a>> \o mid) \o <<f>>)
    <3> DEFINE j == <<a>>
               l == <<f>>
               jm == j \o mid
    <3>1. j \in Seq(Frames) /\ l \in Seq(Frames) /\ s.out \in Seq(Frames)
      BY <1>1, <2>1
    <3> HIDE DEF j, l
    <3>2. jm \in Seq(Frames)
      BY <2>1, <3>1
    <3>3. \A q \in Seq(Frames) : (q \o j) \o mid = q \o jm
      BY <2>1, <3>1, FramesJoin
    <3> HIDE DEF jm
    <3>4. \A q \in Seq(Frames) : (q \o jm) \o l = q \o (jm \o l)
      BY <3>1, <3>2, FramesJoin
    <3> QED
      BY <3>1, <3>2, <3>3, <3>4 DEF j, l, jm
  <2>4. more \in Seq(Frames)
    BY <2>1, <2>3
  <2> QED
    BY <2>2, <2>3, <2>4
<1>7. t = Emit(r, more)
  BY DEF ShowOne
<1> HIDE DEF r, more, t
<1>8. /\ t \in StreamStates /\ t.out = y.out \o <<f>>
      /\ t.started = s.started /\ t.terminal = s.terminal /\ t.finish = s.finish
      /\ t.blocks = Append(s.blocks, "closed") /\ t.text = s.text /\ t.thinking = s.thinking
      /\ t.tools = s.tools /\ t.unexposed = s.unexposed
  <2> HIDE DEF y, f
  <2>1. /\ t \in StreamStates /\ t.out = r.out \o more
        /\ t.started = r.started /\ t.terminal = r.terminal /\ t.finish = r.finish
        /\ t.blocks = r.blocks /\ t.text = r.text /\ t.thinking = r.thinking
        /\ t.tools = r.tools /\ t.unexposed = r.unexposed
    BY <1>5, <1>6, <1>7, EmitIs
  <2> QED
    BY <1>5, <1>6, <2>1
<1>9. Kept(s, t)
  BY <1>8 DEF Kept
<1>10. /\ u \in View /\ u.phase = v.phase
       /\ Len(u.blocks) = k
       /\ u.blocks[k] = NewBlock(kind, NoCall)
       /\ \A m \in 1 .. L : u.blocks[m] = v.blocks[m]
  BY <1>1, <1>3, OpenedIs
<1>11. Leads(s, v, x, u)
  <2>1. x.out = s.out \o <<a>>
    OBVIOUS
  <2> HIDE DEF x, u
  <2> QED
    BY <1>1, <1>3, <2>1, StartLeads DEF u
<1>12. /\ u.blocks[k].kind = kind /\ ~u.blocks[k].signed /\ ~u.blocks[k].stopped
  BY <1>10 DEF NewBlock
<1> HIDE DEF u
<1>13. /\ Leads(s, v, y, g) /\ g \in View /\ g.phase = v.phase /\ Len(g.blocks) = k
       /\ g.blocks[k].kind = kind /\ ~g.blocks[k].signed /\ ~g.blocks[k].stopped
       /\ \A m \in 1 .. L : g.blocks[m].kind = v.blocks[m].kind
                            /\ g.blocks[m].signed = v.blocks[m].signed
                            /\ g.blocks[m].stopped = v.blocks[m].stopped
  <2>1. CASE deltas = 0
    <3>1. y = x /\ g = u
      BY <2>1
    <3> HIDE DEF y, x, g
    <3> QED
      BY <1>10, <1>11, <1>12, <3>1
  <2>2. CASE deltas = 1
    <3> DEFINE q == Grown(u, k, 1)
    <3>1. y.out = x.out \o <<d>> /\ g = q
      BY <2>2
    <3>2. k \in 1 .. Len(u.blocks) /\ Growing(u, k)
      BY <1>1, <1>3, <1>10, <1>12, <2>2 DEF Growing
    <3>3. /\ q \in View /\ q.phase = u.phase
          /\ Len(q.blocks) = Len(u.blocks)
          /\ \A m \in 1 .. Len(u.blocks) :
               /\ q.blocks[m].kind = u.blocks[m].kind
               /\ q.blocks[m].signed = u.blocks[m].signed
               /\ q.blocks[m].stopped = u.blocks[m].stopped
      BY <1>10, <3>2, GrownIs
    <3> HIDE DEF y, g, x
    <3>4. Leads(x, u, y, q)
      BY <1>10, <2>2, <3>1, <3>2, DeltaLeads
    <3> HIDE DEF q
    <3>5. Leads(s, v, y, q)
      BY <1>1, <1>11, <3>4, LeadsOn
    <3>6. \A m \in 1 .. L : m \in 1 .. Len(u.blocks)
      BY <1>1, <1>10
    <3>7. /\ q.blocks[k].kind = u.blocks[k].kind
          /\ q.blocks[k].signed = u.blocks[k].signed
          /\ q.blocks[k].stopped = u.blocks[k].stopped
      BY <3>2, <3>3
    <3>8. \A m \in 1 .. L : q.blocks[m].kind = v.blocks[m].kind
                            /\ q.blocks[m].signed = v.blocks[m].signed
                            /\ q.blocks[m].stopped = v.blocks[m].stopped
      BY <1>10, <3>3, <3>6
    <3> QED
      BY <1>10, <1>12, <3>1, <3>3, <3>5, <3>7, <3>8
  <2> QED
    BY <2>1, <2>2
<1> HIDE DEF g
<1>14. \A m \in 1 .. k : m \in 1 .. L \/ m = k
  BY <1>1
<1>15. \A m \in 1 .. L : m \in 1 .. k /\ m # k
  BY <1>1
<1>16. k \in 1 .. k
  BY <1>1
<1> DEFINE e == [g.blocks[k] EXCEPT !.stopped = TRUE]
           w == Rewritten(g, k, e)
<1>17. Leads(y, g, t, w)
  <2> HIDE DEF y, k
  <2> QED
    BY <1>1, <1>3, <1>8, <1>13, <1>16, StopLeads
<1>18. Leads(s, v, t, w)
  <2> HIDE DEF y, w, e, k
  <2> QED
    BY <1>1, <1>13, <1>17, LeadsOn
<1>19. /\ e \in Messages!Block /\ e.kind = kind /\ e.stopped
  <2>1. g.blocks[k] \in Messages!Block
    <3> HIDE DEF k
    <3> QED
      BY <1>13, <1>16 DEF View
  <2> QED
    BY <1>13, <2>1 DEF Messages!Block
<1> HIDE DEF e
<1>20. /\ w \in View /\ w.phase = g.phase
       /\ Len(w.blocks) = Len(g.blocks)
       /\ \A m \in 1 .. Len(g.blocks) : w.blocks[m] = IF m = k THEN e ELSE g.blocks[m]
  BY <1>13, <1>19, RewrittenIs
<1>21. /\ Len(t.blocks) = k /\ t.blocks[k] = "closed"
       /\ \A m \in 1 .. L : t.blocks[m] = s.blocks[m]
  BY <1>1, <1>8 DEF StreamStates
<1> HIDE DEF w, k, L
<1>22. /\ w.blocks[k] = e
       /\ \A m \in 1 .. L : w.blocks[m] = g.blocks[m]
  BY <1>13, <1>15, <1>16, <1>20
<1>23. Phased(t, w)
  BY <1>1, <1>2, <1>8, <1>13, <1>20, <1>21 DEF Phased
<1>24. Matched(t, w)
  <2>1. ASSUME NEW m \in 1 .. k
        PROVE  /\ t.blocks[m] = "closed" => w.blocks[m].stopped
               /\ t.blocks[m] # "closed" =>
                    w.blocks[m].kind = t.blocks[m] /\ ~w.blocks[m].signed /\ ~w.blocks[m].stopped
    <3>1. CASE m \in 1 .. L
      <4>1. /\ s.blocks[m] = "closed" => v.blocks[m].stopped
            /\ s.blocks[m] # "closed" =>
                 v.blocks[m].kind = s.blocks[m] /\ ~v.blocks[m].signed /\ ~v.blocks[m].stopped
        BY <1>2, <3>1 DEF Matched, L
      <4>2. w.blocks[m] = g.blocks[m] /\ t.blocks[m] = s.blocks[m]
        BY <1>21, <1>22, <3>1
      <4>3. /\ g.blocks[m].kind = v.blocks[m].kind
            /\ g.blocks[m].signed = v.blocks[m].signed
            /\ g.blocks[m].stopped = v.blocks[m].stopped
        BY <1>13, <3>1
      <4> QED
        BY <4>1, <4>2, <4>3
    <3>2. CASE m = k
      BY <1>19, <1>21, <1>22, <3>2
    <3> QED
      BY <1>14, <3>1, <3>2
  <2>2. t.text # 0 => t.text \in 1 .. k /\ t.blocks[t.text] = "text"
    BY <1>2, <1>8, <1>15, <1>21 DEF Matched, L
  <2>3. t.thinking # 0 => t.thinking \in 1 .. k /\ t.blocks[t.thinking] = "thinking"
    BY <1>2, <1>8, <1>15, <1>21 DEF Matched, L
  <2> QED
    BY <1>21, <2>1, <2>2, <2>3 DEF Matched
<1>25. Called(t, w, n)
  <2>1. ASSUME NEW i \in DOMAIN t.tools
        PROVE  /\ t.tools[i].pending <= n /\ n > 0
               /\ t.tools[i].server <=> search /\ t.tools[i].name = "search"
               /\ t.tools[i].block # 0 =>
                    /\ t.tools[i].block \in 1 .. k
                    /\ t.blocks[t.tools[i].block] = "tool_use"
                    /\ w.blocks[t.tools[i].block].kind = "tool_use"
    <3>1. /\ s.tools[i].pending <= n /\ n > 0
          /\ s.tools[i].server <=> search /\ s.tools[i].name = "search"
          /\ s.tools[i].block # 0 =>
               /\ s.tools[i].block \in 1 .. L
               /\ s.blocks[s.tools[i].block] = "tool_use"
               /\ v.blocks[s.tools[i].block].kind = "tool_use"
      BY <1>2, <1>8 DEF Called, L
    <3> DEFINE j == s.tools[i].block
    <3>2. ASSUME j # 0
          PROVE  j \in 1 .. k /\ t.blocks[j] = "tool_use" /\ w.blocks[j].kind = "tool_use"
      <4>1. j \in 1 .. L /\ s.blocks[j] = "tool_use" /\ v.blocks[j].kind = "tool_use"
        BY <3>1, <3>2
      <4> HIDE DEF j
      <4> QED
        BY <1>13, <1>15, <1>21, <1>22, <4>1
    <3>3. t.tools[i] = s.tools[i]
      BY <1>8
    <3> QED
      BY <3>1, <3>2, <3>3
  <2>2. ASSUME NEW m \in 1 .. k, w.blocks[m].kind = "tool_use"
        PROVE  \E i \in DOMAIN t.tools : t.tools[i].block = m
    <3>1. m \in 1 .. L
      BY <1>3, <1>14, <1>19, <1>22, <2>2
    <3>2. v.blocks[m].kind = "tool_use" /\ m \in 1 .. Len(v.blocks)
      BY <1>1, <1>13, <1>22, <2>2, <3>1
    <3> QED
      BY <1>2, <1>8, <3>2 DEF Called
  <2>3. IsFiniteSet(DOMAIN t.tools)
    BY <1>2, <1>8 DEF Called
  <2> QED
    BY <1>13, <1>20, <1>21, <2>1, <2>2, <2>3 DEF Called
<1>26. Going(t, w, n)
  BY <1>2, <1>8, <1>20, <1>23, <1>24, <1>25 DEF Going, Core
<1>27. Searched(v) \/ kind = "server_tool_use" => Searched(w)
  <2>1. ASSUME Searched(v) PROVE Searched(w)
    <3>1. PICK m \in 1 .. L : v.blocks[m].kind = "server_tool_use"
      BY <1>1, <2>1 DEF Searched
    <3>2. w.blocks[m].kind = "server_tool_use" /\ m \in 1 .. Len(w.blocks)
      BY <1>13, <1>15, <1>20, <1>22, <3>1
    <3> QED
      BY <3>2 DEF Searched
  <2>2. ASSUME kind = "server_tool_use" PROVE Searched(w)
    <3>1. w.blocks[k].kind = "server_tool_use" /\ k \in 1 .. Len(w.blocks)
      BY <1>13, <1>16, <1>19, <1>20, <1>22, <2>2
    <3> QED
      BY <3>1 DEF Searched
  <2> QED
    BY <2>1, <2>2
<1> QED
  BY <1>8, <1>9, <1>18, <1>26, <1>27 DEF t

LEMMA ShowFits ==
  ASSUME NEW s, NEW v, NEW n, Going(s, v, n),
         NEW kind \in {"server_tool_use", "web_search_tool_result"}, NEW deltas \in {0, 1},
         deltas = 1 => kind = "server_tool_use" /\ 1 \in 1 .. MaxEvents,
         NEW N \in Nat
  PROVE  LET t == Show(s, kind, deltas, N)
         IN  /\ Kept(s, t)
             /\ \E w : /\ Leads(s, v, t, w) /\ Going(t, w, n)
                       /\ Searched(v) \/ (kind = "server_tool_use" /\ N > 0) => Searched(w)
<1> DEFINE k == CHOOSE k : Shows(s, kind, deltas, N, k)
           Some(m) == kind = "server_tool_use" /\ m > 0
           Good == {m \in 0 .. N :
                      /\ Kept(s, k[m])
                      /\ \E w : /\ Leads(s, v, k[m], w) /\ Going(k[m], w, n)
                                /\ Searched(v) \/ Some(m) => Searched(w)}
<1>0. s \in StreamStates /\ s.out \in Seq(Frames)
  BY GoingFacts
<1>1. Shows(s, kind, deltas, N, k)
  BY ShowsExists
<1>2. Show(s, kind, deltas, N) = k[N]
  BY DEF Show, Shows
<1> HIDE DEF k
<1>3. \A m \in 0 .. N : k[m] = IF m = 0 THEN s ELSE ShowOne(k[m - 1], kind, deltas)
  BY <1>1 DEF Shows
<1>4. 0 \in Good
  <2>1. k[0] = s
    BY <1>3
  <2>2. Kept(s, k[0])
    BY <1>0, <2>1 DEF Kept
  <2>3. Leads(s, v, k[0], v)
    BY <1>0, <2>1, LeadsSame
  <2>4. Going(k[0], v, n) /\ ~Some(0)
    BY <2>1
  <2> HIDE DEF Some
  <2> QED
    BY <2>2, <2>3, <2>4
<1>5. ASSUME NEW m \in 0 .. N - 1, m \in Good
      PROVE  m + 1 \in Good
  <2>1. PICK u : /\ Leads(s, v, k[m], u) /\ Going(k[m], u, n)
                 /\ Searched(v) \/ Some(m) => Searched(u)
    BY <1>5
  <2>2. Kept(s, k[m])
    BY <1>5
  <2> DEFINE j == m + 1
             t == k[j]
  <2>3. j \in 0 .. N /\ j # 0 /\ j - 1 = m
    OBVIOUS
  <2>4. Some(j) => kind = "server_tool_use"
    OBVIOUS
  <2> HIDE DEF j, Some
  <2>5. t = ShowOne(k[m], kind, deltas)
    BY <1>3, <2>3
  <2>6. /\ Kept(k[m], t)
        /\ \E w : /\ Leads(k[m], u, t, w) /\ Going(t, w, n)
                  /\ Searched(u) \/ kind = "server_tool_use" => Searched(w)
    <3> DEFINE r == k[m]
    <3>1. Going(r, u, n) /\ t = ShowOne(r, kind, deltas)
      BY <2>1, <2>5
    <3> HIDE DEF r, t
    <3>2. /\ Kept(r, t)
          /\ \E w : /\ Leads(r, u, t, w) /\ Going(t, w, n)
                    /\ Searched(u) \/ kind = "server_tool_use" => Searched(w)
      BY <3>1, ShowOneFits
    <3> QED
      BY <3>2 DEF r
  <2> HIDE DEF t
  <2>7. Kept(s, t)
    BY <2>2, <2>6 DEF Kept
  <2>8. PICK w : /\ Leads(k[m], u, t, w) /\ Going(t, w, n)
                 /\ Searched(u) \/ kind = "server_tool_use" => Searched(w)
    BY <2>6
  <2>9. Leads(s, v, t, w)
    BY <1>0, <2>1, <2>8, LeadsOn
  <2>10. Searched(v) \/ Some(j) => Searched(w)
    BY <2>1, <2>4, <2>8
  <2>11. j \in Good
    BY <2>3, <2>7, <2>8, <2>9, <2>10 DEF t
  <2> QED
    BY <2>11 DEF j
<1>6. \A m \in 0 .. N : m \in Good
  <2> HIDE DEF Good
  <2> QED
    BY <1>4, <1>5, CountingInduction
<1>7. N \in Good
  BY <1>6
<1> QED
  BY <1>2, <1>7

\* A stream that goes on with the calls it has.
LEMMA KeptReady ==
  ASSUME NEW s, NEW v, NEW n, NEW a, NEW g, Ready(s, v, n, a, g), search,
         NEW t, Kept(s, t), NEW w, Going(t, w, n)
  PROVE  Ready(t, w, n, a, g)
<1>1. /\ t.tools = s.tools /\ t.terminal = s.terminal
  BY DEF Kept
<1>2. Hidden(t) /\ SameCalls(t, a)
  BY <1>1 DEF Ready, Hidden, SameCalls
<1> QED
  BY <1>2 DEF Ready

\* The searches of a generation are shown ...
LEMMA AskedReady ==
  ASSUME NEW s, NEW v, NEW n \in 0 .. MaxEvents, NEW a, NEW g, Ready(s, v, n, a, g), search,
         ServerCalls(s) # {}
  PROVE  LET t == EmitServerToolUse(s)
         IN  /\ Kept(s, t)
             /\ \E w : Leads(s, v, t, w) /\ Ready(t, w, n, a, g) /\ Searched(w)
<1> DEFINE t == EmitServerToolUse(s)
           N == Cardinality(ServerCalls(s))
           c == CloseOpenContentBlocks(s)
           h == Show(c, "server_tool_use", 1, N)
<1>1. Going(s, v, n) /\ Called(s, v, n) /\ s \in StreamStates /\ s.out \in Seq(Frames)
  BY GoingFacts DEF Ready, Going, Core
<1>2. N \in Nat /\ N > 0
  <2>1. IsFiniteSet(DOMAIN s.tools) /\ ServerCalls(s) \subseteq DOMAIN s.tools
    BY <1>1 DEF Called, ServerCalls
  <2>2. IsFiniteSet(ServerCalls(s))
    BY <2>1, FS_Subset
  <2>3. N \in Nat
    BY <2>2, FS_CardinalityType
  <2>4. N # 0
    BY <2>2, FS_EmptySet
  <2> QED
    BY <2>3, <2>4
<1>3. 1 \in 1 .. MaxEvents
  <2>1. PICK i \in DOMAIN s.tools : s.tools[i].name = "search"
    BY DEF ServerCalls
  <2>2. n > 0
    BY <1>1, <2>1 DEF Called
  <2> QED
    BY <2>2, ConstantTypes
<1>4. /\ Kept(s, c)
      /\ \E u : Leads(s, v, c, u) /\ Going(c, u, n)
  BY <1>1, CloseContentFits
<1>5. t = [h EXCEPT !.asked = N]
  BY DEF EmitServerToolUse
<1> HIDE DEF t, N, c
<1>6. PICK u : Leads(s, v, c, u) /\ Going(c, u, n)
  BY <1>4
<1>7. /\ Kept(c, h)
      /\ \E w : /\ Leads(c, u, h, w) /\ Going(h, w, n)
                /\ Searched(u) \/ ("server_tool_use" = "server_tool_use" /\ N > 0) => Searched(w)
  BY <1>2, <1>3, <1>6, ShowFits
<1> HIDE DEF h
<1>8. PICK w : Leads(c, u, h, w) /\ Going(h, w, n) /\ Searched(w)
  BY <1>2, <1>7
<1>9. h \in StreamStates /\ w \in View
  BY <1>8 DEF Going, Core
<1>10. /\ t \in StreamStates /\ t.out = h.out
       /\ t.started = h.started /\ t.terminal = h.terminal /\ t.finish = h.finish
       /\ t.blocks = h.blocks /\ t.text = h.text /\ t.thinking = h.thinking
       /\ t.tools = h.tools /\ t.unexposed = h.unexposed
  BY <1>2, <1>5, <1>9 DEF StreamStates
<1>11. Kept(s, t)
  BY <1>4, <1>7, <1>10 DEF Kept
<1>12. Going(t, w, n)
  <2>1. /\ Phased(h, w) /\ Matched(h, w) /\ Called(h, w, n)
        /\ h.unexposed => ~expose
        /\ h.started /\ ~h.terminal
    BY <1>8 DEF Going, Core
  <2>2. Phased(t, w) /\ Called(t, w, n)
    BY <1>10, <2>1 DEF Phased, Called
  <2>3. Matched(t, w)
    BY <1>10, <2>1 DEF Matched
  <2> QED
    BY <1>9, <1>10, <2>1, <2>2, <2>3 DEF Going, Core
<1>13. Leads(s, v, h, w)
  BY <1>1, <1>6, <1>8, LeadsOn
<1>14. Leads(s, v, t, w)
  BY <1>10, <1>13 DEF Leads
<1>15. Ready(t, w, n, a, g)
  BY <1>11, <1>12, KeptReady
<1> QED
  BY <1>8, <1>11, <1>14, <1>15 DEF t

\* ... and so are their results.
LEMMA AnsweredReady ==
  ASSUME NEW s, NEW v, NEW n \in 0 .. MaxEvents, NEW a, NEW g, Ready(s, v, n, a, g), search,
         Searched(v)
  PROVE  LET t == FinishServerToolRound(s)
         IN  /\ Kept(s, t)
             /\ \E w : Leads(s, v, t, w) /\ Ready(t, w, n, a, g) /\ Searched(w)
<1> DEFINE t == FinishServerToolRound(s)
           h == Show(s, "web_search_tool_result", 0, s.asked)
<1>1. Going(s, v, n) /\ s \in StreamStates
  BY DEF Ready, Going, Core
<1>2. s.asked \in Nat
  BY <1>1 DEF StreamStates
<1>3. t = [h EXCEPT !.asked = 0]
  BY DEF FinishServerToolRound
<1> HIDE DEF t
<1>4. /\ Kept(s, h)
      /\ \E w : Leads(s, v, h, w) /\ Going(h, w, n) /\ Searched(w)
  BY <1>1, <1>2, ShowFits
<1> HIDE DEF h
<1>5. PICK w : Leads(s, v, h, w) /\ Going(h, w, n) /\ Searched(w)
  BY <1>4
<1>6. h \in StreamStates /\ w \in View
  BY <1>5 DEF Going, Core
<1>7. /\ t \in StreamStates /\ t.out = h.out
      /\ t.started = h.started /\ t.terminal = h.terminal /\ t.finish = h.finish
      /\ t.blocks = h.blocks /\ t.text = h.text /\ t.thinking = h.thinking
      /\ t.tools = h.tools /\ t.unexposed = h.unexposed
  BY <1>3, <1>6 DEF StreamStates
<1>8. Kept(s, t)
  BY <1>4, <1>7 DEF Kept
<1>9. Going(t, w, n)
  <2>1. /\ Phased(h, w) /\ Matched(h, w) /\ Called(h, w, n)
        /\ h.unexposed => ~expose
        /\ h.started /\ ~h.terminal
    BY <1>5 DEF Going, Core
  <2>2. Phased(t, w) /\ Called(t, w, n)
    BY <1>7, <2>1 DEF Phased, Called
  <2>3. Matched(t, w)
    BY <1>7, <2>1 DEF Matched
  <2> QED
    BY <1>6, <1>7, <2>1, <2>2, <2>3 DEF Going, Core
<1>10. Leads(s, v, t, w)
  BY <1>5, <1>7 DEF Leads
<1>11. Ready(t, w, n, a, g)
  BY <1>8, <1>9, KeptReady
<1> QED
  BY <1>5, <1>8, <1>10, <1>11 DEF t

LEMMA NoTools ==
  <<>> \in Tools /\ <<>> \in Parts /\ DOMAIN <<>> = {}
<1>1. ASSUME NEW S PROVE <<>> \in UNION {[I -> S] : I \in SUBSET ToolIndex}
  <2>1. <<>> \in [{} -> S]
    OBVIOUS
  <2>2. {} \in SUBSET ToolIndex
    OBVIOUS
  <2> QED
    BY <2>1, <2>2, Zenon
<1>2. <<>> \in Tools
  BY <1>1 DEF Tools
<1>3. <<>> \in Parts
  BY <1>1 DEF Parts
<1>4. DOMAIN <<>> = {}
  OBVIOUS
<1> QED
  BY <1>2, <1>3, <1>4

\* A generation that asks for searches alone is forgotten, and its calls with it.
LEMMA NewRoundTold ==
  ASSUME NEW s, NEW v, NEW n, NEW a, NEW g, Ready(s, v, n, a, g), search
  PROVE  LET t == BeginNewRound(s)
         IN  Leads(s, v, t, v) /\ Told(t, v, n, NewWhole, g) /\ ~t.terminal
<1> DEFINE t == BeginNewRound(s)
<1>1. /\ Going(s, v, n) /\ s \in StreamStates /\ v \in View /\ s.out \in Seq(Frames)
      /\ v.phase = "open"
  BY GoingFacts DEF Ready
<1>2. /\ Phased(s, v) /\ Matched(s, v) /\ Called(s, v, n)
      /\ s.unexposed => ~expose
      /\ s.started /\ ~s.terminal
  BY <1>1 DEF Going, Core
<1>3. <<>> \in Tools /\ <<>> \in Parts /\ DOMAIN <<>> = {}
  BY NoTools
<1>4. /\ t \in StreamStates /\ t.out = s.out /\ t.finish = "none"
      /\ t.started = s.started /\ t.terminal = s.terminal
      /\ t.blocks = s.blocks /\ t.text = s.text /\ t.thinking = s.thinking
      /\ t.unexposed = s.unexposed /\ t.tools = <<>>
  <2>1. t = [s EXCEPT !.tools = <<>>, !.finish = "none", !.round_complete = FALSE]
    BY DEF BeginNewRound
  <2> HIDE DEF t
  <2> QED
    BY <1>1, <1>3, <2>1 DEF StreamStates
<1> HIDE DEF t
<1>5. Leads(s, v, t, v)
  BY <1>1, <1>4, LeadsSame
<1>6. \A m \in 1 .. Len(v.blocks) : v.blocks[m].kind # "tool_use"
  <2>1. \A i \in DOMAIN s.tools : s.tools[i].block = 0
    BY <1>2 DEF Ready, Hidden
  <2> QED
    BY <1>2, <2>1 DEF Called
<1>7. Called(t, v, n)
  <2>1. IsFiniteSet(DOMAIN t.tools)
    BY <1>3, <1>4, FS_EmptySet
  <2>2. DOMAIN t.tools = {}
    BY <1>3, <1>4
  <2> QED
    BY <1>6, <2>1, <2>2 DEF Called
<1>8. Phased(t, v)
  BY <1>2, <1>4 DEF Phased
<1>9. Matched(t, v)
  BY <1>2, <1>4 DEF Matched
<1>10. Hidden(t) /\ Ended(t, v)
  <2>1. DOMAIN t.tools = {}
    BY <1>3, <1>4
  <2> QED
    BY <2>1 DEF Hidden, Ended
<1>11. Fits(t, v, n)
  BY <1>1, <1>2, <1>4, <1>7, <1>8, <1>9, <1>10 DEF Fits, Core
<1>12. NewWhole \in Wholes
  <2>1. <<>> \in Seq(ToolIndex)
    OBVIOUS
  <2> QED
    BY <1>3, <2>1 DEF NewWhole, Wholes
<1>13. SameCalls(t, NewWhole)
  <2>1. DOMAIN NewWhole.tools = {} /\ ~NewWhole.failed
    BY <1>3 DEF NewWhole
  <2>2. DOMAIN t.tools = {}
    BY <1>3, <1>4
  <2> QED
    BY <1>12, <2>1, <2>2 DEF SameCalls
<1>14. Told(t, v, n, NewWhole, g)
  BY <1>11, <1>13 DEF Told
<1> QED
  BY <1>2, <1>4, <1>5, <1>14 DEF t

LEMMA PauseTold ==
  ASSUME NEW s, NEW v, NEW n, NEW a, NEW g, Ready(s, v, n, a, g), search, Searched(v)
  PROVE  LET t == FinalizeAsPaused(s)
         IN  t.terminal
             /\ \E w : Leads(s, v, t, w) /\ Told(t, w, n, a, g) /\ w.phase = "stopped"
<1> DEFINE t == FinalizeAsPaused(s)
<1>1. Going(s, v, n) /\ SameCalls(s, a) /\ "pause_turn" \in Reasons
  BY DEF Ready, Reasons
<1>2. t = FinishWithStop(s, "pause_turn")
  BY DEF FinalizeAsPaused
<1> HIDE DEF t
<1>3. /\ t.terminal /\ t.tools = s.tools
      /\ \E w : Leads(s, v, t, w) /\ Fits(t, w, n) /\ Closed(v, w, "pause_turn")
  BY <1>1, <1>2, FinishFits
<1>4. PICK w : Leads(s, v, t, w) /\ Fits(t, w, n) /\ Closed(v, w, "pause_turn")
  BY <1>3
<1>5. SameCalls(t, a)
  BY <1>1, <1>3 DEF SameCalls
<1>6. Told(t, w, n, a, g) /\ w.phase = "stopped"
  BY <1>4, <1>5 DEF Told, Closed
<1> QED
  BY <1>3, <1>4, <1>6 DEF t

-----------------------------------------------------------------------------
(* stream_body                                                             *)

\* While every frame is read, the client sees what it will see.
LEMMA AtRest ==
  ASSUME IInv, state.out = <<>>
  PROVE  Told(state, Seen, fed, whole, head_first) /\ Located(state, Seen)
<1>1. PICK v : Path(Steps, state.out, Seen, v) /\ Promised(v)
  BY DEF IInv
<1>2. v = Seen
  BY <1>1, PathEmpty
<1>3. Promised(Seen)
  BY <1>1, <1>2
<1> QED
  BY <1>3 DEF Promised, Told

LEMMA LeadsPath ==
  ASSUME NEW s, s.out = <<>>, NEW v, NEW t, NEW w, Leads(s, v, t, w)
  PROVE  Path(Steps, t.out, v, w)
<1>1. PICK frames \in Seq(Frames) : t.out = s.out \o frames /\ Path(Steps, frames, v, w)
  BY DEF Leads
<1>2. t.out = frames
  BY <1>1
<1> QED
  BY <1>1, <1>2

LEMMA ToldLater ==
  ASSUME NEW w, UNCHANGED request, Told(state', w, fed', whole', head_first')
  PROVE  /\ Fits(state, w, fed)' /\ SameCalls(state, whole)'
         /\ (~search /\ head_first => Agrees(state, w, whole))'
<1>1. expose' = expose /\ search' = search
  BY DEF request
<1>2. Core(state', w, fed') => Core(state, w, fed)'
  <2>1. Called(state', w, fed') => Called(state, w, fed)'
    BY <1>1 DEF Called
  <2> QED
    BY <1>1, <2>1 DEF Core
<1>3. Hidden(state') => Hidden(state)'
  BY <1>1 DEF Hidden
<1>4. Fits(state, w, fed)'
  BY <1>2, <1>3 DEF Told, Fits
<1>5. Agrees(state', w, whole') => Agrees(state, w, whole)'
  BY <1>1 DEF Agrees
<1> QED
  BY <1>1, <1>4, <1>5 DEF Told

\* The client's view stays, and more is emitted for it.
LEMMA MoreEmitted ==
  ASSUME IInv, state.out = <<>>, UNCHANGED <<request, view>>,
         NEW w, Leads(state, Seen, state', w), Told(state', w, fed', whole', head_first'),
         Located(state, w)', TypeOK', fed' \in 0 .. MaxEvents, head_first' \in BOOLEAN,
         ShadowFitsAnswer'
  PROVE  IInv'
<1>1. Path(Steps, state'.out, Seen, w)
  BY LeadsPath
<1>2. Seen' = Seen /\ Seen \in View
  BY DEF Seen, view, IInv
<1>3. /\ Fits(state, w, fed)' /\ SameCalls(state, whole)'
      /\ (~search /\ head_first => Agrees(state, w, whole))'
  BY ToldLater
<1>4. Promised(w)'
  BY <1>3 DEF Promised
<1>5. (\E v : Path(Steps, state.out, Seen, v) /\ Promised(v))'
  BY <1>1, <1>2, <1>4
<1> QED
  BY <1>2, <1>5 DEF IInv

\* Until it returns, stream_body has left the shadow and the telemetry alone.
LEMMA Undecided ==
  ASSUME IInv, pc # "done"
  PROVE  shadow = "kept" /\ outcome = "none"
<1>1. PICK v : Promised(v)
  BY DEF IInv
<1> QED
  BY <1>1 DEF Promised, Located

LEMMA Moved ==
  ASSUME IInv, state.out = <<>>, pc # "done", NEW then, NEW s, Move(then, s),
         then \in {"polling", "ended", "searching", "mixed", "pausing", "grounding",
                   "completing", "closing"},
         NEW w, Leads(state, Seen, s, w), Told(s, w, fed, whole, head_first),
         Located(state, w)'
  PROVE  IInv'
<1>1. /\ pc' = then /\ state' = s
      /\ UNCHANGED <<request, budgets, shadow, outcome, view, whole, history>>
  BY DEF Move
<1>2. shadow = "kept"
  BY Undecided
<1>3. TypeOK /\ fed \in 0 .. MaxEvents /\ head_first \in BOOLEAN
  BY DEF IInv
<1>4. TypeOK'
  BY <1>1, <1>3 DEF TypeOK, request, budgets, view
<1>5. ShadowFitsAnswer'
  BY <1>1, <1>2 DEF ShadowFitsAnswer
<1>6. /\ fed' = fed /\ whole' = whole /\ head_first' = head_first
      /\ UNCHANGED <<request, view>>
  BY <1>1 DEF history
<1>7. Told(state', w, fed', whole', head_first') /\ Leads(state, Seen, state', w)
  BY <1>1, <1>6
<1> QED
  BY <1>3, <1>4, <1>5, <1>6, <1>7, MoreEmitted

LEMMA StillReady ==
  ASSUME NEW s, NEW v, NEW n, NEW a, NEW g, Told(s, v, n, a, g), ~s.terminal,
         s.finish # "none"
  PROVE  Ready(s, v, n, a, g)
<1>1. Core(s, v, n) /\ Phased(s, v)
  BY DEF Told, Fits, Core
<1>2. s.started
  BY <1>1 DEF Phased
<1> QED
  BY <1>1, <1>2 DEF Told, Fits, Ready, Going

\* An event of the upstream, the last one included.
LEMMA TakeEventKeeps ==
  ASSUME IInv, NEW event \in Event, NEW then \in {"polling", "ended"},
         TakeEvent(event, then)
  PROVE  IInv'
<1>1. /\ pc = "polling" /\ state.out = <<>> /\ ~state.terminal /\ fed < MaxEvents
      /\ event.type = "tool" => OneName(event.fragment)
      /\ fed' = fed + 1
      /\ head_first' = (head_first /\ (event.type = "tool" => HeadFirst(event.fragment)))
      /\ whole' = Aggregate(whole, event)
      /\ pc' = then
      /\ UNCHANGED <<request, budgets, shadow, outcome, view>>
  BY DEF TakeEvent, Polling, At
<1>2. PICK order \in SetToSeqs(Pending(state)) : state' = Handle(state, event, order)
  BY DEF TakeEvent
<1>3. Told(state, Seen, fed, whole, head_first)
  BY <1>1, AtRest
<1>4. TypeOK /\ fed \in 0 .. MaxEvents /\ head_first \in BOOLEAN
  BY DEF IInv
<1>5. fed \in Nat /\ fed + 1 \in 1 .. MaxEvents /\ fed + 1 \in 0 .. MaxEvents
  BY <1>1, <1>4, ConstantTypes
<1>6. ASSUME event.type = "tool"
      PROVE  Named(state, event.fragment)
  <2>1. OneName(event.fragment) /\ SameCalls(state, whole)
    BY <1>1, <1>3, <1>6 DEF Told
  <2> QED
    BY <2>1 DEF OneName, SameCalls, Named
<1>7. head_first' => (event.type = "tool" => Headed(whole, event.fragment))
  BY <1>1 DEF HeadFirst, Headed
<1>8. head_first' \in BOOLEAN /\ (head_first' => head_first)
  BY <1>1
<1> DEFINE h == head_first'
<1> HIDE DEF h
<1>9. /\ h => head_first
      /\ h => (event.type = "tool" => Headed(whole, event.fragment))
  BY <1>7, <1>8 DEF h
<1>10. \E w : /\ Leads(state, Seen, Handle(state, event, order), w)
              /\ Told(Handle(state, event, order), w, fed + 1, Aggregate(whole, event), h)
  BY <1>1, <1>3, <1>5, <1>6, <1>9, HandleTold
<1>11. PICK w : /\ Leads(state, Seen, state', w)
                /\ Told(state', w, fed', whole', head_first')
  BY <1>1, <1>2, <1>10 DEF h
<1>12. shadow' = "kept" /\ outcome' = "none"
  BY <1>1, Undecided
<1>13. Located(state, w)'
  BY <1>1, <1>12 DEF Located
<1>14. TypeOK'
  BY <1>1, <1>4 DEF TypeOK, request, budgets, view
<1>15. ShadowFitsAnswer'
  BY <1>12 DEF ShadowFitsAnswer
<1>16. fed' \in 0 .. MaxEvents
  BY <1>1, <1>5
<1> QED
  BY <1>1, <1>8, <1>11, <1>13, <1>14, <1>15, <1>16, MoreEmitted

LEMMA BodyEndsKeeps ==
  ASSUME IInv, BodyEnds
  PROVE  IInv'
<1>1. pc = "polling" /\ state.out = <<>> /\ ~state.terminal
  BY DEF BodyEnds, Polling, At
<1>2. Move("ended", state) /\ pc' = "ended" /\ shadow' = shadow /\ outcome' = outcome
  BY DEF BodyEnds, Move
<1>3. Told(state, Seen, fed, whole, head_first)
  BY <1>1, AtRest
<1>4. Leads(state, Seen, state, Seen)
  BY <1>3, LeadsSame DEF Told, Fits, Core, StreamStates
<1>5. Located(state, Seen)'
  BY <1>1, <1>2, Undecided DEF Located
<1>6. Seen' = Seen
  BY DEF BodyEnds, Seen, view
<1> DEFINE w == Seen
<1>7. Leads(state, Seen, state, w) /\ Told(state, w, fed, whole, head_first)
  BY <1>3, <1>4
<1>8. Located(state, Seen)' => IInv'
  BY <1>1, <1>2, <1>3, <1>4, <1>6, Moved
<1> QED
  BY <1>5, <1>8

\* The upstream breaks, or the body ends too early, or the next request fails.
LEMMA FailKeeps ==
  ASSUME IInv, state.out = <<>>, ~state.terminal, pc # "done", Move("closing", Fail(state))
  PROVE  IInv'
<1> DEFINE s == Fail(state)
           w == InPhase(Seen, "failed")
<1>1. Told(state, Seen, fed, whole, head_first)
  BY AtRest
<1>2. whole \in Wholes
  BY <1>1 DEF Told, SameCalls
<1>3. /\ Leads(state, Seen, s, w) /\ Told(s, w, fed, whole, head_first) /\ s.terminal
      /\ w.phase = "failed"
  BY <1>1, <1>2, FailTold
<1> HIDE DEF s, w
<1>4. PICK u : u = w
  OBVIOUS
<1>5. pc' = "closing" /\ state' = s /\ shadow' = shadow /\ outcome' = outcome
  BY DEF Move, s
<1>6. Located(state, u)'
  BY <1>3, <1>4, <1>5, Undecided DEF Located
<1>7. Move("closing", s)
  BY DEF s
<1> QED
  BY <1>3, <1>4, <1>6, <1>7, Moved

\* The message ends with the calls that are pending.
LEMMA FinalizeKeeps ==
  ASSUME IInv, state.out = <<>>, ~state.terminal, state.finish # "none", pc # "done",
         Searched(Seen) \/ ~search \/ ServerCalls(state) = {},
         NEW order \in SetToSeqs(Pending(state)), Move("completing", Finalize(state, order))
  PROVE  IInv'
<1> DEFINE s == Finalize(state, order)
<1>1. Told(state, Seen, fed, whole, head_first)
  BY AtRest
<1>2. Ready(state, Seen, fed, whole, head_first)
  BY <1>1, StillReady
<1>3. fed \in 0 .. MaxEvents
  BY DEF IInv
<1>4. Searched(Seen) \/ \A i \in DOMAIN state.tools : ~state.tools[i].server
  <2>1. \A i \in DOMAIN state.tools :
          state.tools[i].server => search /\ i \in ServerCalls(state)
    BY <1>1 DEF Told, Fits, Core, Called, ServerCalls
  <2> QED
    BY <2>1
<1>5. /\ s.terminal
      /\ \E w : Leads(state, Seen, s, w) /\ Told(s, w, fed, whole, head_first)
                /\ w.phase = "stopped"
  BY <1>2, <1>3, <1>4, FinalizeTold
<1>6. Move("completing", s)
  OBVIOUS
<1> HIDE DEF s
<1>7. PICK w : /\ Leads(state, Seen, s, w) /\ Told(s, w, fed, whole, head_first)
               /\ w.phase = "stopped"
  BY <1>5
<1>8. pc' = "completing" /\ state' = s /\ shadow' = shadow /\ outcome' = outcome
  BY <1>6 DEF Move
<1>9. Located(state, w)'
  BY <1>5, <1>7, <1>8, Undecided DEF Located
<1> QED
  BY <1>6, <1>7, <1>9, Moved

LEMMA ShowSearchesKeeps ==
  ASSUME IInv, ShowSearches
  PROVE  IInv'
<1> DEFINE s == EmitServerToolUse(state)
<1>1. /\ pc = "ended" /\ state.out = <<>> /\ ~state.terminal /\ state.finish # "none"
      /\ search /\ ServerCalls(state) # {} /\ Move("searching", s)
  BY DEF ShowSearches, BodyEnded, At
<1>2. Told(state, Seen, fed, whole, head_first) /\ fed \in 0 .. MaxEvents
  BY <1>1, AtRest DEF IInv
<1>3. Ready(state, Seen, fed, whole, head_first)
  BY <1>1, <1>2, StillReady
<1>4. /\ Kept(state, s)
      /\ \E w : /\ Leads(state, Seen, s, w) /\ Ready(s, w, fed, whole, head_first)
                /\ Searched(w)
  BY <1>1, <1>2, <1>3, AskedReady
<1> HIDE DEF s
<1>5. PICK w : /\ Leads(state, Seen, s, w) /\ Ready(s, w, fed, whole, head_first)
               /\ Searched(w)
  BY <1>4
<1>6. Told(s, w, fed, whole, head_first)
  BY <1>5, ReadyTold
<1>7. /\ pc' = "searching" /\ state' = s /\ shadow' = shadow /\ outcome' = outcome
      /\ search' = search
  BY <1>1 DEF Move, request
<1>8. ServerCalls(s) = ServerCalls(state) /\ ~s.terminal /\ s.finish # "none"
  BY <1>1, <1>4 DEF Kept, ServerCalls
<1>9. ServerCalls(state)' = ServerCalls(s)
  BY <1>7 DEF ServerCalls
<1>10. Located(state, w)'
  BY <1>1, <1>5, <1>7, <1>8, <1>9, Undecided DEF Located
<1> QED
  BY <1>1, <1>5, <1>6, <1>10, Moved

\* The searches are made, and their results are shown.
LEMMA SearchKeeps ==
  ASSUME IInv, Search
  PROVE  IInv'
<1> DEFINE s == FinishServerToolRound(state)
<1>1. /\ pc = "searching" /\ state.out = <<>> /\ state' = s
      /\ pc' = (IF ClientCalls(state) # {} THEN "mixed"
                ELSE IF Exhausted THEN "pausing" ELSE "grounding")
      /\ UNCHANGED <<request, rounds, shadow, outcome, view, whole, history>>
  BY DEF Search, At
<1>2. /\ Told(state, Seen, fed, whole, head_first) /\ fed \in 0 .. MaxEvents
      /\ Located(state, Seen) /\ TypeOK /\ head_first \in BOOLEAN
  BY <1>1, AtRest DEF IInv
<1>3. /\ search /\ ~state.terminal /\ state.finish # "none"
      /\ ServerCalls(state) # {} /\ Searched(Seen)
  BY <1>1, <1>2 DEF Located
<1>4. Ready(state, Seen, fed, whole, head_first)
  BY <1>2, <1>3, StillReady
<1>5. /\ Kept(state, s)
      /\ \E w : /\ Leads(state, Seen, s, w) /\ Ready(s, w, fed, whole, head_first)
                /\ Searched(w)
  BY <1>2, <1>3, <1>4, AnsweredReady
<1> HIDE DEF s
<1>6. PICK w : /\ Leads(state, Seen, s, w) /\ Ready(s, w, fed, whole, head_first)
               /\ Searched(w)
  BY <1>5
<1>7. fed' = fed /\ whole' = whole /\ head_first' = head_first /\ search' = search
  BY <1>1 DEF history, request
<1>8. Told(state', w, fed', whole', head_first') /\ Leads(state, Seen, state', w)
  BY <1>1, <1>6, <1>7, ReadyTold
<1>9. /\ ServerCalls(s) = ServerCalls(state) /\ ClientCalls(s) = ClientCalls(state)
      /\ ~s.terminal /\ s.finish # "none"
  BY <1>3, <1>5 DEF Kept, ServerCalls, ClientCalls
<1>10. ServerCalls(state)' = ServerCalls(s) /\ ClientCalls(state)' = ClientCalls(s)
  BY <1>1 DEF ServerCalls, ClientCalls
<1>11. pc' = "grounding" => rounds' < MaxGenerations
  BY <1>1, <1>2, BoundsAssumption DEF Exhausted, TypeOK
<1>12. pc' \in {"mixed", "pausing", "grounding"}
       /\ (pc' \in {"pausing", "grounding"} => ClientCalls(state) = {})
  BY <1>1
<1>13. shadow' = "kept" /\ outcome' = "none"
  BY <1>1, Undecided
<1>14. Located(state, w)'
  BY <1>1, <1>3, <1>6, <1>7, <1>9, <1>10, <1>11, <1>12, <1>13 DEF Located
<1>15. uses_left' \in 0 .. MaxUses
  <2> DEFINE T == {uses_left, Cardinality(ServerCalls(state))}
  <2>1. PICK spent \in 0 .. Min(T) : uses_left' = uses_left - spent
    BY DEF Search
  <2>2. uses_left \in 0 .. MaxUses /\ MaxUses \in Nat
    BY <1>2, BoundsAssumption DEF TypeOK
  <2>3. Cardinality(ServerCalls(state)) \in Nat
    <3>1. IsFiniteSet(DOMAIN state.tools) /\ ServerCalls(state) \subseteq DOMAIN state.tools
      BY <1>2 DEF Told, Fits, Core, Called, ServerCalls
    <3> QED
      BY <3>1, FS_Subset, FS_CardinalityType
  <2>4. \E m \in T : \A k \in T : m <= k
    BY <2>2, <2>3
  <2>5. Min(T) \in T /\ \A k \in T : Min(T) <= k
    BY <2>4 DEF Min
  <2>6. Min(T) <= uses_left /\ Min(T) \in Nat
    BY <2>2, <2>3, <2>5
  <2> HIDE DEF T
  <2> QED
    BY <2>1, <2>2, <2>6
<1>16. TypeOK'
  BY <1>1, <1>2, <1>12, <1>15 DEF TypeOK, request, view
<1>17. ShadowFitsAnswer'
  BY <1>13 DEF ShadowFitsAnswer
<1>18. UNCHANGED <<request, view>> /\ fed' \in 0 .. MaxEvents /\ head_first' \in BOOLEAN
  BY <1>1, <1>2, <1>7
<1> QED
  BY <1>1, <1>8, <1>14, <1>16, <1>17, <1>18, MoreEmitted

LEMMA PauseKeeps ==
  ASSUME IInv, Pause
  PROVE  IInv'
<1> DEFINE s == FinalizeAsPaused(state)
<1>1. pc = "pausing" /\ state.out = <<>> /\ Move("completing", s)
  BY DEF Pause, At
<1>2. Told(state, Seen, fed, whole, head_first) /\ Located(state, Seen)
  BY <1>1, AtRest
<1>3. search /\ ~state.terminal /\ state.finish # "none" /\ Searched(Seen)
  BY <1>1, <1>2 DEF Located
<1>4. Ready(state, Seen, fed, whole, head_first)
  BY <1>2, <1>3, StillReady
<1>5. /\ s.terminal
      /\ \E w : Leads(state, Seen, s, w) /\ Told(s, w, fed, whole, head_first)
                /\ w.phase = "stopped"
  BY <1>3, <1>4, PauseTold
<1> HIDE DEF s
<1>6. PICK w : /\ Leads(state, Seen, s, w) /\ Told(s, w, fed, whole, head_first)
               /\ w.phase = "stopped"
  BY <1>5
<1>7. pc' = "completing" /\ state' = s /\ shadow' = shadow /\ outcome' = outcome
  BY <1>1 DEF Move
<1>8. Located(state, w)'
  BY <1>1, <1>5, <1>6, <1>7, Undecided DEF Located
<1> QED
  BY <1>1, <1>6, <1>8, Moved

LEMMA ContinueKeeps ==
  ASSUME IInv, Continue
  PROVE  IInv'
<1> DEFINE s == BeginNewRound(state)
<1>1. /\ pc = "grounding" /\ state.out = <<>>
      /\ rounds' = rounds + 1 /\ pc' = "polling" /\ state' = s /\ whole' = NewWhole
      /\ UNCHANGED <<request, uses_left, shadow, outcome, view, history>>
  BY DEF Continue, At
<1>2. /\ Told(state, Seen, fed, whole, head_first) /\ Located(state, Seen)
      /\ TypeOK /\ fed \in 0 .. MaxEvents /\ head_first \in BOOLEAN
  BY <1>1, AtRest DEF IInv
<1>3. search /\ ~state.terminal /\ state.finish # "none" /\ rounds < MaxGenerations
  BY <1>1, <1>2 DEF Located
<1>4. Ready(state, Seen, fed, whole, head_first)
  BY <1>2, <1>3, StillReady
<1>5. Leads(state, Seen, s, Seen) /\ Told(s, Seen, fed, NewWhole, head_first)
  BY <1>3, <1>4, NewRoundTold
<1> HIDE DEF s
<1>6. PICK w : w = Seen
  OBVIOUS
<1>7. fed' = fed /\ head_first' = head_first
  BY <1>1 DEF history
<1>8. Told(state', w, fed', whole', head_first') /\ Leads(state, Seen, state', w)
  BY <1>1, <1>5, <1>6, <1>7
<1>9. shadow' = "kept" /\ outcome' = "none"
  BY <1>1, Undecided
<1>10. Located(state, w)'
  BY <1>1, <1>9 DEF Located
<1>11. TypeOK'
  BY <1>1, <1>2, <1>3, BoundsAssumption DEF TypeOK, request, view
<1>12. ShadowFitsAnswer'
  BY <1>9 DEF ShadowFitsAnswer
<1>13. UNCHANGED <<request, view>> /\ fed' \in 0 .. MaxEvents /\ head_first' \in BOOLEAN
  BY <1>1, <1>2, <1>7
<1> QED
  BY <1>1, <1>8, <1>10, <1>11, <1>12, <1>13, MoreEmitted

\* stream_body returns, or is dropped: what was emitted stays as it is.
LEMMA Returned ==
  ASSUME IInv, NEW effect \in {"kept", "stored", "cleared"},
         NEW how \in {"complete", "protocol_error", "error", "client_disconnected"},
         Return(effect, how), ShadowFitsAnswer'
  PROVE  IInv'
<1>1. /\ pc' = "done" /\ shadow' = effect /\ outcome' = how
      /\ UNCHANGED <<request, state, budgets, view, whole, history>>
  BY DEF Return
<1>2. PICK v : Path(Steps, state.out, Seen, v) /\ Promised(v)
  BY DEF IInv
<1>3. /\ TypeOK /\ Seen \in View /\ fed \in 0 .. MaxEvents /\ head_first \in BOOLEAN
  BY DEF IInv
<1>4. /\ state' = state /\ fed' = fed /\ whole' = whole /\ head_first' = head_first
      /\ UNCHANGED <<request, view>>
  BY <1>1 DEF history
<1>5. TypeOK'
  BY <1>1, <1>3 DEF TypeOK, request, budgets, view
<1>6. Seen' = Seen
  BY <1>4 DEF Seen, view
<1>7. Told(state', v, fed', whole', head_first')
  BY <1>2, <1>4 DEF Promised, Told
<1>8. Located(state, v)'
  BY <1>1 DEF Located
<1>9. Promised(v)'
  BY <1>4, <1>7, <1>8, ToldLater DEF Promised
<1>10. Path(Steps, state.out, Seen, v)'
  BY <1>2, <1>4, <1>6
<1>11. (\E w : Path(Steps, state.out, Seen, w) /\ Promised(w))'
  BY <1>9, <1>10
<1> QED
  BY <1>3, <1>4, <1>5, <1>6, <1>11 DEF IInv

\* commit_shadow, when the answer has ended.
LEMMA ShadowDecided ==
  ASSUME IInv, state.out = <<>>, pc # "done", state.terminal,
         shadow' = ShadowAfter(state), UNCHANGED <<request, view>>
  PROVE  ShadowFitsAnswer' /\ shadow' \in {"kept", "stored", "cleared"}
<1>1. Told(state, Seen, fed, whole, head_first) /\ shadow = "kept"
  BY AtRest, Undecided
<1>2. /\ Called(state, Seen, fed) /\ Ended(state, Seen) /\ Seen \in View
      /\ state.unexposed => ~expose
  BY <1>1 DEF Told, Fits, Core
<1>3. /\ Seen.blocks = blocks /\ Seen.phase = phase /\ DOMAIN blocks = 1 .. Len(blocks)
  BY <1>2 DEF Seen, View
<1>4. phase' = phase /\ blocks' = blocks /\ expose' = expose
  BY DEF request, view
<1>5. CASE state.tools = <<>>
  <2>1. shadow' = "cleared"
    BY <1>5 DEF ShadowAfter
  <2>2. DOMAIN state.tools = {}
    BY <1>5
  <2>3. \A n \in DOMAIN blocks : blocks[n].kind # "tool_use"
    BY <1>2, <1>3, <2>2 DEF Called
  <2>4. {n \in DOMAIN blocks : blocks[n].kind = "tool_use"} = {}
    BY <2>3
  <2>5. ShownCalls = <<>>
    BY <2>4, ChosenFew DEF ShownCalls, Of
  <2>6. ShownCalls' = <<>>
    BY <1>4, <2>5 DEF ShownCalls, Of
  <2> QED
    BY <2>1, <2>6 DEF ShadowFitsAnswer
<1>6. CASE /\ state.tools # <<>> /\ state.unexposed
           /\ \E i \in DOMAIN state.tools : state.tools[i].id
  <2>1. shadow' = "stored" /\ ~expose'
    BY <1>2, <1>4, <1>6 DEF ShadowAfter
  <2>2. ASSUME phase = "stopped"
        PROVE  \E n \in DOMAIN blocks : blocks[n].kind \in {"tool_use", "server_tool_use"}
    <3>1. CASE Searched(Seen)
      BY <1>3, <3>1 DEF Searched
    <3>2. CASE \A i \in DOMAIN state.tools : state.tools[i].block # 0
      <4>1. PICK i \in DOMAIN state.tools : TRUE
        BY <1>6
      <4>2. Len(Seen.blocks) = Len(state.blocks)
        BY <1>1 DEF Told, Fits, Core, Phased
      <4>3. /\ state.tools[i].block \in 1 .. Len(Seen.blocks)
            /\ Seen.blocks[state.tools[i].block].kind = "tool_use"
        BY <1>2, <3>2, <4>1, <4>2 DEF Called
      <4> QED
        BY <1>3, <4>3
    <3> QED
      BY <1>2, <1>3, <2>2, <3>1, <3>2 DEF Ended
  <2> QED
    BY <1>4, <2>1, <2>2 DEF ShadowFitsAnswer
<1>7. CASE /\ state.tools # <<>>
           /\ ~(state.unexposed /\ \E i \in DOMAIN state.tools : state.tools[i].id)
  <2>1. shadow' = "kept"
    BY <1>1, <1>7 DEF ShadowAfter
  <2> QED
    BY <2>1 DEF ShadowFitsAnswer
<1> QED
  BY <1>5, <1>6, <1>7

LEMMA ReturnsKeep ==
  ASSUME IInv, TerminalEvent \/ TrailingTerminal \/ Complete \/ Close \/ ClientLeaves
  PROVE  IInv'
<1>1. ASSUME NEW how \in {"complete", "protocol_error"}, Return(ShadowAfter(state), how),
             state.out = <<>>, pc # "done", state.terminal
      PROVE  IInv'
  <2>1. shadow' = ShadowAfter(state) /\ UNCHANGED <<request, view>>
    BY <1>1 DEF Return
  <2>2. ShadowFitsAnswer' /\ shadow' \in {"kept", "stored", "cleared"}
    BY <1>1, <2>1, ShadowDecided
  <2> DEFINE effect == ShadowAfter(state)
  <2>3. effect \in {"kept", "stored", "cleared"} /\ Return(effect, how)
    BY <1>1, <2>1, <2>2
  <2> HIDE DEF effect
  <2> QED
    BY <2>2, <2>3, Returned
<1>2. ASSUME NEW how \in {"error", "client_disconnected"}, Return(shadow, how), pc # "done"
      PROVE  IInv'
  <2>1. shadow = "kept"
    BY <1>2, Undecided
  <2>2. shadow' = "kept"
    BY <1>2, <2>1 DEF Return
  <2>3. ShadowFitsAnswer'
    BY <2>2 DEF ShadowFitsAnswer
  <2>4. Return("kept", how)
    BY <1>2, <2>1
  <2> QED
    BY <2>3, <2>4, Returned
<1>3. CASE TerminalEvent
  <2> DEFINE how == IF state.finish = "none" THEN "protocol_error" ELSE "complete"
  <2>1. /\ pc = "polling" /\ state.out = <<>> /\ state.terminal
        /\ Return(ShadowAfter(state), how)
    BY <1>3 DEF TerminalEvent, At
  <2>2. how \in {"complete", "protocol_error"}
    OBVIOUS
  <2> HIDE DEF how
  <2> QED
    BY <1>1, <2>1, <2>2
<1>4. CASE TrailingTerminal
  BY <1>2, <1>4 DEF TrailingTerminal, At
<1>5. CASE Complete
  <2>1. pc = "completing" /\ state.out = <<>> /\ Return(ShadowAfter(state), "complete")
    BY <1>5 DEF Complete, At
  <2>2. state.terminal
    BY <2>1, AtRest DEF Located
  <2> QED
    BY <1>1, <2>1, <2>2
<1>6. CASE Close
  BY <1>2, <1>6 DEF Close, At
<1>7. CASE ClientLeaves
  BY <1>2, <1>7 DEF ClientLeaves
<1> QED
  BY <1>3, <1>4, <1>5, <1>6, <1>7

-----------------------------------------------------------------------------
(* The client                                                              *)

\* The next frame is legal, and the client has it in its view.
LEMMA NextFrame ==
  ASSUME IInv, ClientReads
  PROVE  LET f == Head(state.out)
         IN  /\ f \in Frames /\ Legal(Seen, f) /\ Seen' = After(Seen, f)
             /\ After(Seen, f) \in View
             /\ phase' = After(Seen, f).phase /\ blocks' = After(Seen, f).blocks
             /\ stop' = After(Seen, f).stop
             /\ \E v : Path(Steps, Tail(state.out), After(Seen, f), v) /\ Promised(v)
<1> DEFINE f == Head(state.out)
<1>1. /\ pc # "done" /\ state.out # <<>> /\ Read(f)
  BY DEF ClientReads
<1>2. PICK v : Path(Steps, state.out, Seen, v) /\ Promised(v)
  BY DEF IInv
<1>3. state.out \in Seq(Frames) /\ Seen \in View
  BY <1>2 DEF Promised, Fits, Core, StreamStates, IInv
<1>4. \E u : <<Seen, f, u>> \in Steps /\ Path(Steps, Tail(state.out), u, v)
  BY <1>1, <1>2, <1>3, PathFirst
<1>5. PICK u : <<Seen, f, u>> \in Steps /\ Path(Steps, Tail(state.out), u, v)
  BY <1>4
<1> HIDE DEF f
<1>6. f \in Frames /\ Legal(Seen, f) /\ u = After(Seen, f) /\ u \in View
  BY <1>5 DEF Steps
<1>7. /\ phase' = After(Seen, f).phase /\ blocks' = After(Seen, f).blocks
      /\ stop' = After(Seen, f).stop
  <2>1. Seen.phase = phase /\ Seen.blocks = blocks /\ Seen.stop = stop
    BY DEF Seen
  <2>2. phase' = After(Seen, f).phase
    BY <1>1, <2>1 DEF Read, After
  <2>3. stop' = After(Seen, f).stop
    BY <1>1, <2>1 DEF Read, After
  <2>4. blocks' = After(Seen, f).blocks
    BY <1>1, <2>1 DEF Read, After, Replaced, NewBlock
  <2> QED
    BY <2>2, <2>3, <2>4
<1>8. Seen' = After(Seen, f)
  <2>1. Seen' = [phase |-> phase', blocks |-> blocks', stop |-> stop']
    BY DEF Seen
  <2> QED
    BY <1>7, <2>1 DEF After
<1> QED
  BY <1>2, <1>5, <1>6, <1>7, <1>8 DEF f

LEMMA ClientReadsKeeps ==
  ASSUME IInv, ClientReads
  PROVE  IInv'
<1> DEFINE f == Head(state.out)
<1>1. /\ f \in Frames /\ Legal(Seen, f) /\ Seen' = After(Seen, f)
      /\ After(Seen, f) \in View
      /\ \E v : Path(Steps, Tail(state.out), After(Seen, f), v) /\ Promised(v)
  BY NextFrame
<1> HIDE DEF f
<1>2. PICK v : Path(Steps, Tail(state.out), After(Seen, f), v) /\ Promised(v)
  BY <1>1
<1>3. /\ pc # "done" /\ state' = [state EXCEPT !.out = Tail(@)] /\ state.out # <<>>
      /\ UNCHANGED <<request, pc, budgets, shadow, outcome, whole, history>>
  BY DEF ClientReads
<1>4. /\ state \in StreamStates /\ Tail(state.out) \in Seq(Frames)
  <2>1. state \in StreamStates
    BY <1>2 DEF Promised, Fits, Core
  <2> QED
    BY <1>3, <2>1 DEF StreamStates
<1>5. /\ state' \in StreamStates /\ state'.out = Tail(state.out)
      /\ state'.started = state.started /\ state'.terminal = state.terminal
      /\ state'.finish = state.finish /\ state'.blocks = state.blocks
      /\ state'.text = state.text /\ state'.thinking = state.thinking
      /\ state'.tools = state.tools /\ state'.unexposed = state.unexposed
  BY <1>3, <1>4 DEF StreamStates
<1>6. fed' = fed /\ whole' = whole /\ head_first' = head_first /\ search' = search
  BY <1>3 DEF history, request
<1>7. Told(state', v, fed', whole', head_first')
  <2>1. Fits(state, v, fed) /\ SameCalls(state, whole)
        /\ (~search /\ head_first => Agrees(state, v, whole))
    BY <1>2 DEF Promised
  <2>2. /\ v \in View /\ Phased(state, v) /\ Matched(state, v) /\ Called(state, v, fed)
        /\ (state.unexposed => ~expose) /\ Hidden(state) /\ Ended(state, v)
    BY <2>1 DEF Fits, Core
  <2>3. Phased(state', v)
    BY <1>5, <2>2 DEF Phased
  <2>4. Matched(state', v)
    BY <1>5, <2>2 DEF Matched
  <2>5. Called(state', v, fed)
    BY <1>5, <2>2 DEF Called
  <2>6. Hidden(state') /\ Ended(state', v)
    BY <1>5, <2>2 DEF Hidden, Ended
  <2>7. SameCalls(state', whole)
    BY <1>5, <2>1 DEF SameCalls
  <2>8. ASSUME Agrees(state, v, whole) PROVE Agrees(state', v, whole)
    <3>1. /\ state'.finish = whole.finish
          /\ v.phase = "stopped" =>
               ~whole.failed /\ v.stop = StopReason(state'.finish) /\ state'.finish # "none"
      BY <1>5, <2>8 DEF Agrees
    <3>2. PICK t : t = state'
      OBVIOUS
    <3>3. Agrees(t, v, whole)
      BY <1>5, <2>1, <2>8, <3>1, <3>2, AgreesSame DEF Fits
    <3> QED
      BY <3>2, <3>3
  <2> QED
    BY <1>5, <1>6, <2>1, <2>2, <2>3, <2>4, <2>5, <2>6, <2>7, <2>8 DEF Told, Fits, Core
<1>8. Located(state, v)'
  <2>1. ServerCalls(state)' = ServerCalls(state) /\ ClientCalls(state)' = ClientCalls(state)
    BY <1>5 DEF ServerCalls, ClientCalls
  <2>2. pc' = pc /\ rounds' = rounds /\ shadow' = shadow /\ outcome' = outcome
    BY <1>3 DEF budgets
  <2> QED
    BY <1>2, <1>5, <1>6, <2>1, <2>2 DEF Promised, Located
<1>9. Promised(v)'
  BY <1>3, <1>7, <1>8, ToldLater DEF Promised
<1>10. Path(Steps, state.out, Seen, v)'
  BY <1>1, <1>2, <1>5
<1>11. TypeOK'
  <2>1. Seen'.blocks \in Seq(Messages!Block) /\ Seen'.blocks = blocks'
    BY <1>1 DEF View, Seen
  <2>2. \A n \in DOMAIN blocks' : blocks'[n] \in Messages!Block
    BY <2>1
  <2>3. TypeOK
    BY DEF IInv
  <2> QED
    BY <1>3, <2>2, <2>3 DEF TypeOK, request, budgets
<1>12. ShadowFitsAnswer'
  <2>1. shadow' = "kept"
    BY <1>3, Undecided
  <2> QED
    BY <2>1 DEF ShadowFitsAnswer
<1>13. (\E u : Path(Steps, state.out, Seen, u) /\ Promised(u))'
  BY <1>9, <1>10
<1>14. fed' \in 0 .. MaxEvents /\ head_first' \in BOOLEAN
  BY <1>6 DEF IInv
<1> QED
  BY <1>1, <1>11, <1>12, <1>13, <1>14 DEF IInv

-----------------------------------------------------------------------------
(* The invariant                                                           *)

LEMMA InitInv == Init => IInv
<1> SUFFICES ASSUME Init PROVE IInv
  OBVIOUS
<1> DEFINE s == NewState
           v == Seen
           a == NewWhole
<1>1. /\ expose \in BOOLEAN /\ search \in BOOLEAN /\ pc = "polling" /\ state = s
      /\ uses_left = (IF search THEN MaxUses ELSE 0) /\ rounds = 1
      /\ shadow = "kept" /\ outcome = "none" /\ phase = "new" /\ blocks = <<>>
      /\ stop = "none" /\ whole = a /\ fed = 0 /\ head_first = TRUE
  BY DEF Init
<1>2. v \in View /\ v.phase = "new" /\ v.blocks = <<>> /\ Len(v.blocks) = 0
  <2>1. <<>> \in Seq(Messages!Block)
    OBVIOUS
  <2> QED
    BY <1>1, <2>1 DEF Seen, View
<1>3. /\ s \in StreamStates /\ ~s.started /\ ~s.terminal /\ s.blocks = <<>>
      /\ s.text = 0 /\ s.thinking = 0 /\ s.tools = <<>> /\ s.finish = "none"
      /\ ~s.unexposed /\ s.out = <<>> /\ Len(s.blocks) = 0
  <2>1. <<>> \in Seq({"text", "thinking", "tool_use", "closed"}) /\ <<>> \in Seq(Frames)
    OBVIOUS
  <2> QED
    BY <2>1, NoTools DEF NewState, StreamStates
<1>4. /\ a \in Wholes /\ ~a.failed /\ a.finish = "none" /\ a.text = 0 /\ a.reasoning = 0
      /\ a.tools = <<>> /\ a.order = <<>> /\ Len(a.order) = 0
  <2>1. <<>> \in Seq(ToolIndex)
    OBVIOUS
  <2> QED
    BY <2>1, NoTools DEF NewWhole, Wholes
<1> HIDE DEF s, v, a
<1>5. DOMAIN s.tools = {} /\ DOMAIN a.tools = {}
  BY <1>3, <1>4, NoTools
<1>6. Phased(s, v) /\ Matched(s, v)
  BY <1>2, <1>3 DEF Phased, Matched
<1>7. Called(s, v, 0)
  BY <1>2, <1>5, FS_EmptySet DEF Called
<1>8. Fits(s, v, 0)
  <2>1. Hidden(s) /\ Ended(s, v)
    BY <1>2, <1>5 DEF Hidden, Ended
  <2> QED
    BY <1>2, <1>3, <1>6, <1>7, <2>1 DEF Fits, Core
<1>9. SameCalls(s, a)
  BY <1>4, <1>5 DEF SameCalls
<1>10. Agrees(s, v, a)
  <2>1. Elements(a.order) = {}
    BY <1>4 DEF Elements
  <2> QED
    BY <1>2, <1>3, <1>4, <1>5, <2>1 DEF Agrees
<1>11. Located(s, v)
  BY <1>1 DEF Located
<1>12. Promised(v)
  BY <1>1, <1>8, <1>9, <1>10, <1>11 DEF Promised
<1>13. Path(Steps, state.out, Seen, v)
  BY <1>1, <1>3, PathEmpty DEF v
<1>14. \E w : Path(Steps, state.out, Seen, w) /\ Promised(w)
  BY <1>12, <1>13
<1>15. TypeOK
  BY <1>1, BoundsAssumption DEF TypeOK
<1>16. ShadowFitsAnswer
  BY <1>1 DEF ShadowFitsAnswer
<1>17. Seen \in View /\ fed \in 0 .. MaxEvents /\ head_first \in BOOLEAN
  BY <1>1, <1>2, ConstantTypes DEF v
<1> QED
  BY <1>14, <1>15, <1>16, <1>17 DEF IInv

LEMMA NextInv == IInv /\ [Next]_vars => IInv'
<1> SUFFICES ASSUME IInv, [Next]_vars PROVE IInv'
  OBVIOUS
<1>1. ASSUME NEW event \in Event, UpstreamEvent(event) \/ TrailingEvent(event)
      PROVE  IInv'
  BY <1>1, TakeEventKeeps DEF UpstreamEvent, TrailingEvent
<1>2. CASE BodyEnds
  BY <1>2, BodyEndsKeeps
<1>3. CASE StreamBreaks
  BY <1>3, FailKeeps DEF StreamBreaks, Polling, At
<1>4. CASE UnexpectedEnd
  BY <1>4, FailKeeps DEF UnexpectedEnd, BodyEnded, At
<1>5. CASE Answer
  <2>1. /\ pc = "ended" /\ state.out = <<>> /\ ~state.terminal /\ state.finish # "none"
        /\ search => ServerCalls(state) = {}
        /\ \E order \in SetToSeqs(Pending(state)) :
             Move("completing", Finalize(state, order))
    BY <1>5 DEF Answer, BodyEnded, At
  <2>2. Searched(Seen) \/ ~search \/ ServerCalls(state) = {}
    BY <2>1
  <2> QED
    BY <2>1, <2>2, FinalizeKeeps
<1>6. CASE ShowSearches
  BY <1>6, ShowSearchesKeeps
<1>7. CASE Search
  BY <1>7, SearchKeeps
<1>8. CASE MixedAnswer
  <2>1. /\ pc = "mixed" /\ state.out = <<>>
        /\ \E order \in SetToSeqs(Pending(state)) :
             Move("completing", Finalize(state, order))
    BY <1>8 DEF MixedAnswer, At
  <2>2. ~state.terminal /\ state.finish # "none" /\ Searched(Seen)
    BY <2>1, AtRest DEF Located
  <2> QED
    BY <2>1, <2>2, FinalizeKeeps
<1>9. CASE Pause
  BY <1>9, PauseKeeps
<1>10. CASE Continue
  BY <1>10, ContinueKeeps
<1>11. CASE ContinueFails
  <2>1. pc = "grounding" /\ state.out = <<>> /\ Move("closing", Fail(state))
    BY <1>11 DEF ContinueFails, At
  <2>2. ~state.terminal
    BY <2>1, AtRest DEF Located
  <2> QED
    BY <2>1, <2>2, FailKeeps
<1>12. CASE TerminalEvent \/ TrailingTerminal \/ Complete \/ Close \/ ClientLeaves
  BY <1>12, ReturnsKeep
<1>13. CASE ClientReads
  BY <1>13, ClientReadsKeeps
<1>14. CASE UNCHANGED vars
  <2>1. PICK v : Path(Steps, state.out, Seen, v) /\ Promised(v)
    BY DEF IInv
  <2>2. /\ state' = state /\ pc' = pc /\ rounds' = rounds /\ uses_left' = uses_left
        /\ shadow' = shadow /\ outcome' = outcome /\ fed' = fed /\ whole' = whole
        /\ head_first' = head_first /\ expose' = expose /\ search' = search
        /\ phase' = phase /\ blocks' = blocks /\ stop' = stop
    BY <1>14 DEF vars, request, budgets, view, history
  <2>3. Told(state', v, fed', whole', head_first')
    BY <2>1, <2>2 DEF Promised, Told
  <2>4. Located(state, v)'
    BY <2>1, <2>2 DEF Promised, Located, ServerCalls, ClientCalls
  <2>5. Promised(v)'
    BY <2>2, <2>3, <2>4, ToldLater DEF Promised, request
  <2>6. Seen' = Seen
    BY <2>2 DEF Seen
  <2>7. (\E w : Path(Steps, state.out, Seen, w) /\ Promised(w))'
    BY <2>1, <2>2, <2>5, <2>6
  <2>8. TypeOK'
    BY <2>2 DEF IInv, TypeOK
  <2>9. ShadowFitsAnswer'
    BY <2>2 DEF IInv, ShadowFitsAnswer, ShownCalls, Of
  <2>10. Seen \in View /\ fed \in 0 .. MaxEvents /\ head_first \in BOOLEAN
    BY DEF IInv
  <2> QED
    BY <2>2, <2>6, <2>7, <2>8, <2>9, <2>10 DEF IInv
<1> QED
  BY <1>1, <1>2, <1>3, <1>4, <1>5, <1>6, <1>7, <1>8, <1>9, <1>10, <1>11, <1>12, <1>13, <1>14
  DEF Next

\* In every state that stream_body reaches, what is emitted and not yet read leads
\* the client to a view that the state of the stream fits.
THEOREM StreamInvariant == Spec => []IInv
<1>1. Init => IInv
  BY InitInv
<1>2. IInv /\ [Next]_vars => IInv'
  BY NextInv
<1> QED
  BY <1>1, <1>2, PTL DEF Spec

-----------------------------------------------------------------------------
(* The same answer                                                         *)

Strip(b) == [kind |-> b.kind, call |-> b.call, size |-> b.size]
Stripped(seq) == [n \in DOMAIN seq |-> Strip(seq[n])]

LEMMA StrippedJoin ==
  ASSUME NEW S, NEW p \in Seq(S), NEW q \in Seq(S)
  PROVE  Stripped(p \o q) = Stripped(p) \o Stripped(q)
<1> DEFINE T == {Strip(b) : b \in S}
           l == Stripped(p \o q)
           a == Stripped(p)
           b == Stripped(q)
           r == a \o b
<1>1. /\ p \o q \in Seq(S) /\ Len(p \o q) = Len(p) + Len(q)
      /\ Len(p) \in Nat /\ Len(q) \in Nat
      /\ \A n \in 1 .. Len(p) : (p \o q)[n] = p[n]
      /\ \A n \in Len(p) + 1 .. Len(p) + Len(q) : (p \o q)[n] = q[n - Len(p)]
  OBVIOUS
<1>2. ASSUME NEW s \in Seq(S)
      PROVE  /\ Stripped(s) \in Seq(T) /\ Len(Stripped(s)) = Len(s)
             /\ \A n \in 1 .. Len(s) : Stripped(s)[n] = Strip(s[n])
  <2>1. Stripped(s) = [n \in 1 .. Len(s) |-> Strip(s[n])]
    BY DEF Stripped
  <2>2. \A n \in 1 .. Len(s) : Strip(s[n]) \in T
    OBVIOUS
  <2> HIDE DEF T
  <2> QED
    BY <2>1, <2>2
<1>3. /\ l \in Seq(T) /\ Len(l) = Len(p) + Len(q)
      /\ \A n \in 1 .. Len(p) + Len(q) : l[n] = Strip((p \o q)[n])
  <2> HIDE DEF T
  <2> QED
    BY <1>1, <1>2
<1>4. /\ a \in Seq(T) /\ Len(a) = Len(p)
      /\ \A n \in 1 .. Len(p) : a[n] = Strip(p[n])
      /\ b \in Seq(T) /\ Len(b) = Len(q)
      /\ \A n \in 1 .. Len(q) : b[n] = Strip(q[n])
  <2> HIDE DEF T
  <2> QED
    BY <1>2
<1> HIDE DEF l, a, b, T
<1>5. /\ r \in Seq(T) /\ Len(r) = Len(p) + Len(q)
      /\ \A n \in 1 .. Len(p) : r[n] = a[n]
      /\ \A n \in Len(p) + 1 .. Len(p) + Len(q) : r[n] = b[n - Len(p)]
  <2>1. ASSUME NEW x \in Seq(T), NEW y \in Seq(T)
        PROVE  /\ x \o y \in Seq(T) /\ Len(x \o y) = Len(x) + Len(y)
               /\ \A n \in 1 .. Len(x) : (x \o y)[n] = x[n]
               /\ \A n \in Len(x) + 1 .. Len(x) + Len(y) : (x \o y)[n] = y[n - Len(x)]
    OBVIOUS
  <2>2. a \in Seq(T) /\ b \in Seq(T) /\ Len(a) = Len(p) /\ Len(b) = Len(q)
    BY <1>4
  <2>3. /\ r \in Seq(T) /\ Len(r) = Len(a) + Len(b)
        /\ \A n \in 1 .. Len(a) : r[n] = a[n]
        /\ \A n \in Len(a) + 1 .. Len(a) + Len(b) : r[n] = b[n - Len(a)]
    BY <2>1, <2>2
  <2> QED
    BY <2>2, <2>3
<1> HIDE DEF r
<1>6. ASSUME NEW n \in 1 .. Len(p) + Len(q)
      PROVE  l[n] = r[n]
  <2>1. CASE n \in 1 .. Len(p)
    BY <1>1, <1>3, <1>4, <1>5, <2>1
  <2>2. CASE n \in Len(p) + 1 .. Len(p) + Len(q)
    <3>1. n - Len(p) \in 1 .. Len(q)
      BY <1>1, <2>2
    <3> QED
      BY <1>1, <1>3, <1>4, <1>5, <2>2, <3>1
  <2>3. n \in 1 .. Len(p) \/ n \in Len(p) + 1 .. Len(p) + Len(q)
    BY <1>1
  <2> QED
    BY <2>1, <2>2, <2>3
<1>7. l = r
  BY <1>3, <1>5, <1>6, SeqEqual
<1> QED
  BY <1>7 DEF l, r, a, b

\* A message that has stopped has been read to its end.
LEMMA StoppedIsSeen ==
  ASSUME IInv, phase = "stopped"
  PROVE  state.out = <<>>
<1>1. PICK v : Path(Steps, state.out, Seen, v) /\ Promised(v)
  BY DEF IInv
<1>2. state.out \in Seq(Frames)
  BY <1>1 DEF Promised, Fits, Core, StreamStates
<1>3. ASSUME state.out # <<>> PROVE FALSE
  <2>1. PICK u : <<Seen, Head(state.out), u>> \in Steps
    BY <1>1, <1>2, <1>3, PathFirst
  <2> DEFINE f == Head(state.out)
  <2>2. Legal(Seen, f) /\ f \in Frames
    BY <2>1 DEF Steps
  <2>3. Seen.phase = "stopped"
    BY DEF Seen
  <2>4. f.type \in {"message_start", "start", "delta", "signature", "stop",
                    "message_delta", "message_stop", "error"}
    BY <2>2 DEF Frames
  <2> HIDE DEF f
  <2> QED
    BY <2>2, <2>3, <2>4 DEF Legal, About
<1> QED
  BY <1>3

\* The blocks of text and of thinking: one at most.
LEMMA OneOf ==
  ASSUME NEW kind, NEW k \in Nat, NEW N \in Nat, DOMAIN blocks = 1 .. N, k # 0 => k \in 1 .. N,
         \A n \in 1 .. N : blocks[n].kind = kind <=> n = k
  PROVE  Of(kind) = IF k = 0 THEN <<>> ELSE <<blocks[k]>>
<1> DEFINE P == {n \in DOMAIN blocks : blocks[n].kind = kind}
<1>1. Of(kind) = Chosen(blocks, P)
  BY DEF Of
<1>2. CASE k = 0
  <2>1. P = {}
    BY <1>2
  <2> HIDE DEF P
  <2> QED
    BY <1>1, <1>2, <2>1, ChosenFew
<1>3. CASE k # 0
  <2>1. P = {k}
    BY <1>3
  <2> HIDE DEF P
  <2> QED
    BY <1>1, <1>3, <2>1, ChosenFew
<1> QED
  BY <1>2, <1>3

LEMMA ChosenBlocks ==
  ASSUME NEW P \in SUBSET Nat, NEW K \in Nat, NEW g \in [1 .. K -> P],
         \A i, j \in 1 .. K : i < j => g[i] < g[j],
         \A n \in P : \E i \in 1 .. K : g[i] = n
  PROVE  Chosen(blocks, P) = [i \in 1 .. K |-> blocks[g[i]]]
BY ChosenIs

\* The calls, in the order in which they came.
InOrder(s, w) ==
  /\ Len(blocks) \in Nat /\ DOMAIN blocks = 1 .. Len(blocks)
  /\ w.order \in Seq(ToolIndex) /\ Elements(w.order) = DOMAIN s.tools
  /\ \A j, k \in 1 .. Len(w.order) :
       j < k => s.tools[w.order[j]].block < s.tools[w.order[k]].block
  /\ \A i \in DOMAIN s.tools :
       s.tools[i].block \in 1 .. Len(blocks) /\ blocks[s.tools[i].block].kind = "tool_use"
  /\ \A m \in 1 .. Len(blocks) : blocks[m].kind = "tool_use" =>
       \E i \in DOMAIN s.tools : s.tools[i].block = m

LEMMA CallsOf ==
  ASSUME NEW s, NEW w, InOrder(s, w)
  PROVE  Of("tool_use") = [k \in 1 .. Len(w.order) |-> blocks[s.tools[w.order[k]].block]]
<1> DEFINE P == {n \in DOMAIN blocks : blocks[n].kind = "tool_use"}
           K == Len(w.order)
           g == [k \in 1 .. K |-> s.tools[w.order[k]].block]
<1>1. Of("tool_use") = Chosen(blocks, P)
  BY DEF Of
<1>2. K \in Nat /\ \A k \in 1 .. K : w.order[k] \in DOMAIN s.tools
  BY DEF InOrder, Elements
<1>3. P \in SUBSET Nat
  BY DEF InOrder
<1>4. \A k \in 1 .. K : s.tools[w.order[k]].block \in P
  BY <1>2 DEF InOrder
<1>5. \A n \in P : \E k \in 1 .. K : s.tools[w.order[k]].block = n
  <2> SUFFICES ASSUME NEW n \in P PROVE \E k \in 1 .. K : s.tools[w.order[k]].block = n
    OBVIOUS
  <2>1. PICK i \in DOMAIN s.tools : s.tools[i].block = n
    BY DEF InOrder
  <2>2. PICK k \in 1 .. K : w.order[k] = i
    BY <2>1 DEF InOrder, Elements
  <2> QED
    BY <2>1, <2>2
<1> HIDE DEF P, K
<1>6. g \in [1 .. K -> P]
  BY <1>4
<1>7. \A j, k \in 1 .. K : j < k => g[j] < g[k]
  BY DEF InOrder, K
<1>8. \A n \in P : \E k \in 1 .. K : g[k] = n
  BY <1>5
<1>9. \A k \in 1 .. K : g[k] = s.tools[w.order[k]].block
  OBVIOUS
<1> HIDE DEF g
<1>10. Chosen(blocks, P) = [k \in 1 .. K |-> blocks[g[k]]]
  <2>1. K \in Nat
    BY <1>2
  <2> QED
    BY <2>1, <1>3, <1>6, <1>7, <1>8, ChosenBlocks
<1>11. [k \in 1 .. K |-> blocks[g[k]]] = [k \in 1 .. K |-> blocks[s.tools[w.order[k]].block]]
  BY <1>9
<1> QED
  BY <1>1, <1>10, <1>11 DEF K

Part(kind, size) == [kind |-> kind, call |-> NoCall, size |-> size]

LEMMA StrippedFew ==
  /\ Stripped(<<>>) = <<>>
  /\ \A b : Stripped(<<b>>) = <<Strip(b)>>
BY DEF Stripped

\* What a message that has stopped looks like.
LEMMA AtStop ==
  ASSUME IInv, phase = "stopped", ~search, head_first
  PROVE  /\ Fits(state, Seen, fed) /\ SameCalls(state, whole) /\ Agrees(state, Seen, whole)
         /\ blocks \in Seq(Messages!Block) /\ Len(blocks) = Len(state.blocks)
         /\ Len(blocks) \in Nat /\ DOMAIN blocks = 1 .. Len(blocks)
<1>1. Told(state, Seen, fed, whole, head_first)
  BY StoppedIsSeen, AtRest
<1>2. Fits(state, Seen, fed) /\ SameCalls(state, whole) /\ Agrees(state, Seen, whole)
  BY <1>1 DEF Told
<1>3. Seen.blocks = blocks
  BY DEF Seen
<1>4. blocks \in Seq(Messages!Block)
  BY <1>3 DEF IInv, View
<1>5. Len(blocks) = Len(state.blocks)
  BY <1>2, <1>3 DEF Fits, Core, Phased
<1> QED
  BY <1>2, <1>4, <1>5

LEMMA TextAgrees ==
  ASSUME IInv, phase = "stopped", ~search, head_first
  PROVE  /\ Of("text") \in Seq(Messages!Block)
         /\ Stripped(Of("text"))
              = IF whole.text > 0 THEN <<Part("text", whole.text)>> ELSE <<>>
<1> DEFINE k == state.text
           N == Len(blocks)
<1>1. /\ Fits(state, Seen, fed) /\ Agrees(state, Seen, whole)
      /\ blocks \in Seq(Messages!Block) /\ N = Len(state.blocks)
      /\ N \in Nat /\ DOMAIN blocks = 1 .. N
  BY AtStop
<1>2. Seen.blocks = blocks
  BY DEF Seen
<1>3. k \in Nat /\ (k # 0 => k \in 1 .. N)
  BY <1>1 DEF Fits, Core, StreamStates, Matched
<1>4. /\ \A n \in 1 .. N : /\ blocks[n].kind = "text" <=> n = k
                           /\ blocks[n].kind # "tool_use" => blocks[n].call = NoCall
      /\ whole.text = (IF k = 0 THEN 0 ELSE blocks[k].size)
      /\ k # 0 => whole.text > 0
  BY <1>1, <1>2 DEF Agrees
<1> HIDE DEF k, N
<1>5. Of("text") = IF k = 0 THEN <<>> ELSE <<blocks[k]>>
  <2>1. \A n \in 1 .. N : blocks[n].kind = "text" <=> n = k
    BY <1>4
  <2> QED
    BY <1>1, <1>3, <2>1, OneOf
<1>6. Of("text") \in Seq(Messages!Block)
  <2>1. k # 0 => blocks[k] \in Messages!Block
    BY <1>1, <1>3
  <2> DEFINE b == blocks[k]
  <2> HIDE DEF b
  <2>2. CASE k = 0
    <3>1. Of("text") = <<>> /\ <<>> \in Seq(Messages!Block)
      BY <1>5, <2>2
    <3> QED
      BY <3>1
  <2>3. CASE k # 0
    <3>1. b \in Messages!Block
      BY <2>1, <2>3 DEF b
    <3>2. <<b>> \in Seq(Messages!Block)
      BY <3>1
    <3> QED
      <4>1. Of("text") = <<b>>
        BY <1>5, <2>3 DEF b
      <4> QED
        BY <3>2, <4>1
  <2> QED
    BY <2>2, <2>3
<1>7. Stripped(Of("text"))
        = IF whole.text > 0 THEN <<Part("text", whole.text)>> ELSE <<>>
  <2>1. CASE k = 0
    <3>1. ~(whole.text > 0)
      BY <1>4, <2>1
    <3> QED
      BY <1>5, <2>1, <3>1, StrippedFew
  <2>2. CASE k # 0
    <3> DEFINE b == blocks[k]
    <3>1. b.kind = "text" /\ b.call = NoCall /\ b.size = whole.text /\ whole.text > 0
      BY <1>3, <1>4, <2>2
    <3> HIDE DEF b
    <3>2. Strip(b) = Part("text", whole.text)
      BY <3>1 DEF Strip, Part
    <3> QED
      BY <1>5, <2>2, <3>1, <3>2, StrippedFew DEF b
  <2> QED
    BY <2>1, <2>2
<1> QED
  BY <1>6, <1>7

LEMMA ThinkingAgrees ==
  ASSUME IInv, phase = "stopped", ~search, head_first
  PROVE  /\ Of("thinking") \in Seq(Messages!Block)
         /\ Stripped(Of("thinking"))
              = IF expose /\ whole.reasoning > 0
                  THEN <<Part("thinking", whole.reasoning)>> ELSE <<>>
<1> DEFINE k == state.thinking
           N == Len(blocks)
<1>1. /\ Fits(state, Seen, fed) /\ Agrees(state, Seen, whole)
      /\ blocks \in Seq(Messages!Block) /\ N = Len(state.blocks)
      /\ N \in Nat /\ DOMAIN blocks = 1 .. N
  BY AtStop
<1>2. Seen.blocks = blocks
  BY DEF Seen
<1>3. k \in Nat /\ (k # 0 => k \in 1 .. N)
  BY <1>1 DEF Fits, Core, StreamStates, Matched
<1>4. /\ \A n \in 1 .. N : /\ blocks[n].kind = "thinking" <=> n = k
                           /\ blocks[n].kind # "tool_use" => blocks[n].call = NoCall
      /\ expose => whole.reasoning = (IF k = 0 THEN 0 ELSE blocks[k].size)
      /\ k # 0 => expose /\ whole.reasoning > 0
  BY <1>1, <1>2 DEF Agrees
<1> HIDE DEF k, N
<1>5. Of("thinking") = IF k = 0 THEN <<>> ELSE <<blocks[k]>>
  <2>1. \A n \in 1 .. N : blocks[n].kind = "thinking" <=> n = k
    BY <1>4
  <2> QED
    BY <1>1, <1>3, <2>1, OneOf
<1>6. Of("thinking") \in Seq(Messages!Block)
  <2>1. k # 0 => blocks[k] \in Messages!Block
    BY <1>1, <1>3
  <2> DEFINE b == blocks[k]
  <2> HIDE DEF b
  <2>2. CASE k = 0
    <3>1. Of("thinking") = <<>> /\ <<>> \in Seq(Messages!Block)
      BY <1>5, <2>2
    <3> QED
      BY <3>1
  <2>3. CASE k # 0
    <3>1. b \in Messages!Block
      BY <2>1, <2>3 DEF b
    <3>2. <<b>> \in Seq(Messages!Block)
      BY <3>1
    <3> QED
      <4>1. Of("thinking") = <<b>>
        BY <1>5, <2>3 DEF b
      <4> QED
        BY <3>2, <4>1
  <2> QED
    BY <2>2, <2>3
<1>7. Stripped(Of("thinking"))
        = IF expose /\ whole.reasoning > 0
            THEN <<Part("thinking", whole.reasoning)>> ELSE <<>>
  <2>1. CASE k = 0
    <3>1. ~(expose /\ whole.reasoning > 0)
      BY <1>4, <2>1
    <3> QED
      BY <1>5, <2>1, <3>1, StrippedFew
  <2>2. CASE k # 0
    <3> DEFINE b == blocks[k]
    <3>1. /\ b.kind = "thinking" /\ b.call = NoCall /\ b.size = whole.reasoning
          /\ expose /\ whole.reasoning > 0
      BY <1>3, <1>4, <2>2
    <3> HIDE DEF b
    <3>2. Strip(b) = Part("thinking", whole.reasoning)
      BY <3>1 DEF Strip, Part
    <3> QED
      BY <1>5, <2>2, <3>1, <3>2, StrippedFew DEF b
  <2> QED
    BY <2>1, <2>2
<1> QED
  BY <1>6, <1>7

\* The calls that the aggregation makes of its parts.
Answers(w, i) ==
  [kind |-> "tool_use", size |-> w.tools[i].args,
   call |-> [index |-> i, id |-> w.tools[i].id,
             name |-> IF w.tools[i].name = "" THEN "unknown" ELSE w.tools[i].name]]

LEMMA CallsAgree ==
  ASSUME IInv, phase = "stopped", ~search, head_first
  PROVE  /\ whole.order \in Seq(ToolIndex)
         /\ Of("tool_use") \in Seq(Messages!Block)
         /\ Stripped(Of("tool_use"))
              = [n \in 1 .. Len(whole.order) |-> Answers(whole, whole.order[n])]
         /\ \A n \in 1 .. Len(whole.order) : whole.tools[whole.order[n]].name # ""
<1> DEFINE w == whole
           s == state
           N == Len(blocks)
           at(n) == s.tools[w.order[n]].block
<1>1. /\ Fits(s, Seen, fed) /\ SameCalls(s, w) /\ Agrees(s, Seen, w)
      /\ blocks \in Seq(Messages!Block) /\ N = Len(s.blocks)
      /\ N \in Nat /\ DOMAIN blocks = 1 .. N
  BY AtStop
<1>2. Seen.blocks = blocks
  BY DEF Seen
<1>3. /\ w.order \in Seq(ToolIndex)
      /\ DOMAIN w.tools = DOMAIN s.tools
      /\ \A i \in DOMAIN s.tools : w.tools[i].name = s.tools[i].name
  BY <1>1 DEF SameCalls, Wholes
<1>4. /\ Elements(w.order) = DOMAIN s.tools
      /\ \A j, k \in 1 .. Len(w.order) :
           j < k => s.tools[w.order[j]].block < s.tools[w.order[k]].block
  BY <1>1, <1>3 DEF Agrees
<1>5. \A i \in DOMAIN s.tools :
        /\ s.tools[i].block # 0 /\ s.tools[i].name # "" /\ w.tools[i].id
        /\ blocks[s.tools[i].block].size = w.tools[i].args
        /\ blocks[s.tools[i].block].call = [index |-> i, id |-> TRUE,
                                            name |-> s.tools[i].name]
  BY <1>1, <1>2 DEF Agrees
<1>6. /\ \A i \in DOMAIN s.tools :
           s.tools[i].block \in 1 .. N /\ blocks[s.tools[i].block].kind = "tool_use"
      /\ \A m \in 1 .. N : blocks[m].kind = "tool_use" =>
           \E i \in DOMAIN s.tools : s.tools[i].block = m
  BY <1>1, <1>2, <1>5 DEF Fits, Core, Called
<1>7. \A i \in DOMAIN s.tools : w.tools[i].id = TRUE
  <2>1. \A i \in DOMAIN w.tools : w.tools[i].id \in BOOLEAN
    BY <1>1 DEF SameCalls, Wholes, Parts
  <2> QED
    BY <1>3, <1>5, <2>1
<1>8. \A n \in 1 .. Len(w.order) : w.order[n] \in DOMAIN s.tools
  BY <1>4 DEF Elements
<1>9. Len(w.order) \in Nat
  BY <1>3
<1> HIDE DEF w, s, N
<1>10. Of("tool_use") = [n \in 1 .. Len(w.order) |-> blocks[s.tools[w.order[n]].block]]
  <2>1. InOrder(s, w)
    BY <1>1, <1>3, <1>4, <1>6 DEF InOrder, N
  <2> QED
    BY <2>1, CallsOf
<1>11. Of("tool_use") \in Seq(Messages!Block)
  <2>1. \A n \in 1 .. Len(w.order) : blocks[s.tools[w.order[n]].block] \in Messages!Block
    BY <1>1, <1>6, <1>8 DEF N
  <2> QED
    BY <1>9, <1>10, <2>1
<1>12. ASSUME NEW n \in 1 .. Len(w.order)
       PROVE  Strip(blocks[at(n)]) = Answers(w, w.order[n])
  <2> DEFINE i == w.order[n]
             b == blocks[s.tools[i].block]
             p == w.tools[i]
  <2>1. i \in DOMAIN s.tools
    BY <1>8
  <2>2. /\ b.kind = "tool_use" /\ b.size = p.args
        /\ b.call = [index |-> i, id |-> TRUE, name |-> s.tools[i].name]
        /\ p.name = s.tools[i].name /\ p.name # "" /\ p.id = TRUE
    BY <1>3, <1>5, <1>6, <1>7, <2>1
  <2>3. Answers(w, i) = [kind |-> "tool_use", size |-> p.args,
                         call |-> [index |-> i, id |-> p.id,
                                   name |-> IF p.name = "" THEN "unknown" ELSE p.name]]
    BY DEF Answers
  <2>4. Strip(blocks[at(n)]) = Strip(b)
    OBVIOUS
  <2> HIDE DEF b, p, i, at
  <2>5. b.call = [index |-> i, id |-> p.id,
                  name |-> IF p.name = "" THEN "unknown" ELSE p.name]
    BY <2>2
  <2>6. Strip(b) = Answers(w, i)
    BY <2>2, <2>3, <2>5 DEF Strip
  <2> QED
    BY <2>4, <2>6 DEF i
<1>13. Stripped(Of("tool_use")) = [n \in 1 .. Len(w.order) |-> Strip(blocks[at(n)])]
  BY <1>10 DEF Stripped
<1>14. \A n \in 1 .. Len(w.order) : w.tools[w.order[n]].name # ""
  BY <1>3, <1>5, <1>8
<1> HIDE DEF at
<1>15. Stripped(Of("tool_use")) = [n \in 1 .. Len(w.order) |-> Answers(w, w.order[n])]
  BY <1>12, <1>13
<1> QED
  BY <1>3, <1>14, <1>15, <1>11 DEF w

LEMMA SeqDomain ==
  ASSUME NEW S, NEW seq \in Seq(S)
  PROVE  DOMAIN seq = 1 .. Len(seq) /\ Len(seq) \in Nat
OBVIOUS

LEMMA ChosenAll ==
  ASSUME NEW S, NEW seq \in Seq(S)
  PROVE  Chosen(seq, 1 .. Len(seq)) = seq
<1> DEFINE K == Len(seq)
           P == 1 .. K
           g == [n \in 1 .. K |-> n]
<1>1. K \in Nat /\ P \in SUBSET Nat /\ P = 1 .. K
  OBVIOUS
<1>2. seq = [i \in 1 .. K |-> seq[i]]
  OBVIOUS
<1> HIDE DEF P, K
<1>3. \A i \in 1 .. K : g[i] = i
  OBVIOUS
<1>4. g \in [1 .. K -> P]
  BY <1>1
<1> HIDE DEF g
<1>5. \A i, j \in 1 .. K : i < j => g[i] < g[j]
  BY <1>3
<1>6. \A n \in P : \E i \in 1 .. K : g[i] = n
  BY <1>1, <1>3
<1>7. Chosen(seq, P) = [i \in 1 .. K |-> seq[g[i]]]
  <2>1. K \in Nat /\ P \in SUBSET Nat
    BY <1>1
  <2> QED
    BY <2>1, <1>4, <1>5, <1>6, ChosenIs
<1>8. [i \in 1 .. K |-> seq[g[i]]] = [i \in 1 .. K |-> seq[i]]
  BY <1>3
<1> QED
  BY <1>2, <1>7, <1>8 DEF P, K

\* Every call that has begun with its name is usable, and they keep their order.
LEMMA AllUsable ==
  ASSUME NEW tools, NEW order \in Seq(ToolIndex),
         \A n \in 1 .. Len(order) : tools[order[n]].name # ""
  PROVE  Chosen(order, {n \in DOMAIN order :
                   tools[order[n]].name # "" \/ tools[order[n]].args > 0}) = order
<1> DEFINE P == {n \in DOMAIN order :
                   tools[order[n]].name # "" \/ tools[order[n]].args > 0}
<1>1. DOMAIN order = 1 .. Len(order)
  BY SeqDomain
<1>2. P = 1 .. Len(order)
  BY <1>1
<1> HIDE DEF P
<1>3. Chosen(order, P) = order
  BY <1>2, ChosenAll
<1> QED
  BY <1>3 DEF P

LEMMA ConvertedIs ==
  ASSUME NEW w, NEW order \in Seq(ToolIndex), w.order = order,
         \A n \in 1 .. Len(order) : w.tools[order[n]].name # ""
  PROVE  Converted(w)
           = (IF expose /\ w.reasoning > 0 THEN <<Part("thinking", w.reasoning)>> ELSE <<>>)
             \o (IF w.text > 0 THEN <<Part("text", w.text)>> ELSE <<>>)
             \o [n \in 1 .. Len(order) |-> Answers(w, order[n])]
<1> DEFINE usable == Chosen(order, {n \in DOMAIN order :
                       w.tools[order[n]].name # "" \/ w.tools[order[n]].args > 0})
<1>1. usable = order
  BY AllUsable
<1>2. DOMAIN order = 1 .. Len(order)
  BY SeqDomain
<1>3. Converted(w)
        = (IF expose /\ w.reasoning > 0 THEN <<Part("thinking", w.reasoning)>> ELSE <<>>)
          \o (IF w.text > 0 THEN <<Part("text", w.text)>> ELSE <<>>)
          \o [n \in DOMAIN usable |-> Answers(w, usable[n])]
  BY DEF Converted, Part, Answers
<1> HIDE DEF usable
<1> QED
  BY <1>1, <1>2, <1>3

LEMMA Agreement == IInv => StreamAndWholeAgree
<1> SUFFICES ASSUME IInv, phase = "stopped", ~search, head_first
             PROVE  ~whole.failed /\ Content = Converted(whole)
                    /\ stop = StopReason(whole.finish)
  BY DEF StreamAndWholeAgree
<1>1. ~whole.failed /\ stop = StopReason(whole.finish)
  <2>1. Agrees(state, Seen, whole)
    BY AtStop
  <2>2. Seen.phase = "stopped" /\ Seen.stop = stop
    BY DEF Seen
  <2> QED
    BY <2>1, <2>2 DEF Agrees
<1> DEFINE B == Messages!Block
           a == Of("thinking")
           b == Of("text")
           c == Of("tool_use")
<1>2. a \in Seq(B) /\ b \in Seq(B) /\ c \in Seq(B)
  BY TextAgrees, ThinkingAgrees, CallsAgree
<1> HIDE DEF B, a, b, c
<1>3. a \o b \in Seq(B)
  BY <1>2
<1>4. Stripped(a \o b \o c) = Stripped(a) \o Stripped(b) \o Stripped(c)
  <2>1. Stripped(a \o b) = Stripped(a) \o Stripped(b)
    BY <1>2, StrippedJoin
  <2>2. Stripped((a \o b) \o c) = Stripped(a \o b) \o Stripped(c)
    BY <1>2, <1>3, StrippedJoin
  <2> QED
    BY <2>1, <2>2
<1>5. Content = Stripped(a \o b \o c)
  BY DEF Content, Stripped, Strip, a, b, c
<1>6. Stripped(a) = IF expose /\ whole.reasoning > 0
                      THEN <<Part("thinking", whole.reasoning)>> ELSE <<>>
  BY ThinkingAgrees DEF a
<1>7. Stripped(b) = IF whole.text > 0 THEN <<Part("text", whole.text)>> ELSE <<>>
  BY TextAgrees DEF b
<1>8. /\ whole.order \in Seq(ToolIndex)
      /\ Stripped(c) = [n \in 1 .. Len(whole.order) |-> Answers(whole, whole.order[n])]
      /\ \A n \in 1 .. Len(whole.order) : whole.tools[whole.order[n]].name # ""
  BY CallsAgree DEF c
<1>9. Converted(whole) = Stripped(a) \o Stripped(b) \o Stripped(c)
  BY <1>6, <1>7, <1>8, ConvertedIs
<1> QED
  BY <1>1, <1>4, <1>5, <1>9

-----------------------------------------------------------------------------
(* What is promised                                                        *)

\* Every state is well formed, and whenever the message has stopped, without
\* searches and with calls that begin with their id and name, the client has
\* from StreamState the content and the stop reason that convert_response
\* makes of what NonStreamAccumulator has.
THEOREM AnthropicInvariant == Spec => []AnthropicInv
<1>1. IInv => AnthropicInv
  BY Agreement DEF IInv, AnthropicInv
<1> QED
  BY <1>1, StreamInvariant, PTL

\* commit_shadow: the reasoning is dropped only when the client was shown no
\* call that it has to answer, and stored only for a client that did not get it
\* and, if its message has stopped, has calls or searches to send back.
THEOREM ShadowFits == Spec => []ShadowFitsAnswer
<1>1. IInv => ShadowFitsAnswer
  BY DEF IInv
<1> QED
  BY <1>1, StreamInvariant, PTL

\* Whatever the client does not read leaves what it has seen alone.
LEMMA NextFollows ==
  ASSUME IInv, [Next]_vars
  PROVE  [Messages!Next]_(Messages!view)
<1>1. CASE ClientReads
  <2> DEFINE f == Head(state.out)
  <2>1. /\ f \in Frames /\ Legal(Seen, f)
        /\ phase' = After(Seen, f).phase /\ blocks' = After(Seen, f).blocks
        /\ stop' = After(Seen, f).stop
    BY <1>1, NextFrame
  <2> HIDE DEF f
  <2>2. Seen \in View
    BY DEF IInv
  <2> QED
    BY <2>1, <2>2, LegalIsMessages
<1>2. CASE ~ClientReads
  <2>1. UNCHANGED view
    <3>1. CASE UNCHANGED vars
      BY <3>1 DEF vars
    <3>2. CASE Next
      BY <1>2, <3>2
      DEF Next, UpstreamEvent, TrailingEvent, TakeEvent, BodyEnds, StreamBreaks, Move, Return,
          TerminalEvent, TrailingTerminal, UnexpectedEnd, Answer, ShowSearches, Search,
          MixedAnswer, Pause, Continue, ContinueFails, Complete, Close, ClientLeaves
    <3> QED
      BY <3>1, <3>2
  <2> QED
    BY <2>1 DEF view, Messages!view
<1> QED
  BY <1>1, <1>2

\* The stream that stream_body yields, frame by frame, is a behaviour of the
\* Messages protocol, whatever the upstream sends, over any number of searches.
THEOREM Follows == Spec => FollowsMessages
<1>1. Init => Messages!Init
  BY DEF Init, Messages!Init
<1>2. IInv /\ [Next]_vars => [Messages!Next]_(Messages!view)
  BY NextFollows
<1> QED
  BY <1>1, <1>2, StreamInvariant, PTL DEF Spec, FollowsMessages, Messages!Spec
==============================================================================
