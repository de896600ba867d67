-------------------------- MODULE ResponsesRequest --------------------------
(***************************************************************************)
(* The conversion of the input items of a Responses request into chat      *)
(* messages (src/src/responses/request.rs): one pass over the items, with  *)
(* the function calls that wait to be put into one assistant message.      *)
(* One action is one item of the client's.                                 *)
(***************************************************************************)
EXTENDS ChatMessages

CONSTANT MaxBlocks      \* items in the client's history

VARIABLES
  conv,     \* the conversion of the items so far
  phase     \* "reading", or "refused" when the last item was invalid

FreshConv ==
  [out |-> <<>>,       \* messages
   turn |-> 0,         \* items read
   size |-> 0,
   open |-> "none",    \* no item is read in parts
   calls |-> {},       \* pending_calls
   items |-> {}]       \* the items they came from

Reading == phase = "reading" /\ conv.size < MaxBlocks

Read(next) ==
  /\ phase' = "reading"
  /\ conv' = [next EXCEPT !.turn = conv.turn + 1, !.size = conv.size + 1]

Item == {conv.turn + 1}

\* flush_calls
Flushed(c) ==
  IF c.calls = {} THEN c.out
  ELSE Append(c.out, [Wire("assistant", c.items, "null") EXCEPT !.calls = c.calls])

Flush(c) == [c EXCEPT !.out = Flushed(c), !.calls = {}, !.items = {}]

\* The parts of a content are joined into one text.  The calls that wait are
\* not flushed.
MessageItem(role) ==
  /\ Reading
  /\ \E content \in IF role = "assistant" THEN {"string", "null"} ELSE {"string"} :
       Read([conv EXCEPT !.out = Append(@, Wire(role, Item, content))])

FunctionCall(id) ==
  /\ Reading
  /\ Read([conv EXCEPT !.calls = @ \cup {id}, !.items = @ \cup Item])

\* An output is taken whatever it answers.
FunctionCallOutput(id) ==
  /\ Reading
  /\ Read([Flush(conv) EXCEPT
             !.out = Append(@, [Wire("tool", Item, "string") EXCEPT !.answers = id])])

\* Reasoning of the history is dropped.
ReasoningItem == Reading /\ Read(Flush(conv))

\* A search of an earlier turn becomes a call and its result.
WebSearchCall(id) ==
  /\ Reading
  /\ Read([Flush(conv) EXCEPT
             !.out = @ \o <<[Wire("assistant", Item, "null") EXCEPT !.calls = {id}],
                            [Wire("tool", Item, "string") EXCEPT !.answers = id]>>])

\* item_reference, another type, or an item that is malformed.
Refuse == phase = "reading" /\ phase' = "refused" /\ UNCHANGED conv

ReadItem ==
  \/ \E role \in {"system", "user", "assistant"} : MessageItem(role)
  \/ ReasoningItem
  \/ \E id \in Id : FunctionCall(id) \/ FunctionCallOutput(id) \/ WebSearchCall(id)
  \/ Refuse

Init == conv = FreshConv /\ phase = "reading"

Spec == Init /\ [][ReadItem]_<<conv, phase>>

-----------------------------------------------------------------------------
(* Properties                                                              *)

\* Every call that came before an output stands before it, whatever stood
\* between the two: a client that sends well-formed items gets a well-formed
\* chain of calls and results ("matching how the model emits them").
CallsPrecedeOutputs ==
  LET out == Flushed(conv)
  IN  \A i, j \in 1 .. Len(out) :
        out[i].role = "tool" /\ out[j].calls # {} =>
          \A s \in out[j].turns, t \in out[i].turns : (s < t) => j < i

\* "ordering is replayed conversation state - never reordered"; calls are
\* "never merged across a message/output boundary".
ItemsKeepOrder == InOrder(Flushed(conv))
=============================================================================
