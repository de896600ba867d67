---------------------------- MODULE ResponsesEvents ----------------------------
(***************************************************************************)
(* What a client of the Responses API may see: the events that the head    *)
(* of src/src/responses/stream.rs lists, one per step.  A client that      *)
(* builds its state from these events alone never meets an event for an    *)
(* item it does not know, and ends with what the terminal event repeats.   *)
(***************************************************************************)
EXTENDS Naturals, Sequences, FiniteSets

CONSTANT Index          \* values of output_index, natural numbers

VARIABLES
  phase,     \* "new", "created", "open", or the terminal event
  items,     \* the output items, in the order in which they appeared
  output,    \* of the terminal event
  late       \* from outside: the number of calls that the upstream has begun
             \* without their name

view == <<phase, items, output>>

Kind == {"reasoning", "message", "function_call", "web_search_call"}
Texts == {"reasoning", "message"}
Stage == {"added", "part", "partDone", "done"}

\* text is the number of deltas, final what the event that closes the part
\* said of them.  A name and call_id are told apart from none only, and come
\* together.
Item == [index : Index, kind : Kind, stage : Stage, text : Nat, final : Nat,
         named : BOOLEAN]

Init == phase = "new" /\ items = <<>> /\ output = <<>>

\* response.created, response.in_progress
Created == phase = "new" /\ phase' = "created" /\ UNCHANGED <<items, output>>
InProgress == phase = "created" /\ phase' = "open" /\ UNCHANGED <<items, output>>

\* An item with an index beyond those before it.
Appear(i, kind, stage, named) ==
  /\ phase = "open"
  /\ \A n \in DOMAIN items : items[n].index < i
  /\ items' = Append(items, [index |-> i, kind |-> kind, stage |-> stage,
                             text |-> 0, final |-> 0, named |-> named])
  /\ UNCHANGED <<phase, output>>

\* Calls that the client knows without their names.
Nameless == {n \in DOMAIN items : items[n].kind = "function_call" /\ ~items[n].named}

\* response.output_item.added, which never comes "without call_id/name" for a
\* call.  One exception is made here that the list does not make: a call that
\* the upstream itself begins without a name.  See NamesComeFirst in
\* ResponsesStream.
Added(i) == \E kind \in Kind \ {"web_search_call"}, named \in BOOLEAN :
  /\ kind = "function_call" /\ ~named => Cardinality(Nameless) < late
  /\ Appear(i, kind, "added", named)

\* The only event of a search that has an item.
SearchDone(i) == Appear(i, "web_search_call", "done", TRUE)

\* An event for item number n, if its kind and stage are among those given.
Change(n, kinds, stages, item) ==
  /\ phase = "open"
  /\ items[n].kind \in kinds /\ items[n].stage \in stages
  /\ items' = [items EXCEPT ![n] = item]
  /\ UNCHANGED <<phase, output>>

\* response.content_part.added, response.reasoning_summary_part.added
PartAdded(n) == Change(n, Texts, {"added"}, [items[n] EXCEPT !.stage = "part"])

\* Text, a summary or arguments.  The text of a message may go on after its
\* item is done: see NoLateText in ResponsesStream.
Delta(n) ==
  LET longer == [items[n] EXCEPT !.text = @ + 1] IN
    \/ Change(n, {"reasoning"}, {"part"}, longer)
    \/ Change(n, {"message"}, {"part", "done"}, longer)
    \/ Change(n, {"function_call"}, {"added"}, longer)

\* The whole text, or the whole arguments: what the deltas were.
PartDone(n) ==
  LET closed == [items[n] EXCEPT !.stage = "partDone", !.final = items[n].text] IN
    \/ Change(n, Texts, {"part"}, closed)
    \/ Change(n, {"function_call"}, {"added"}, closed)

\* response.output_item.done: of an item whose part is done.
Done(n) == \E named \in {items[n].named, TRUE} :
  Change(n, Kind, {"partDone"}, [items[n] EXCEPT !.stage = "done", !.named = named])

\* What the output of a terminal event says of the items.
Replay == [n \in DOMAIN items |->
  [index |-> items[n].index, kind |-> items[n].kind, text |-> items[n].text]]

\* response.completed and response.incomplete: every item is done.
Ended ==
  /\ phase = "open"
  /\ \A n \in DOMAIN items : items[n].stage = "done"
  /\ phase' \in {"completed", "incomplete"}
  /\ output' = Replay
  /\ UNCHANGED items

\* response.failed may come at any time, even first.
Failed ==
  /\ phase \in {"new", "open"}
  /\ phase' = "failed"
  /\ output' = Replay
  /\ UNCHANGED items

Next ==
  \/ Created \/ InProgress
  \/ \E i \in Index : Added(i) \/ SearchDone(i)
  \/ \E n \in DOMAIN items : PartAdded(n) \/ Delta(n) \/ PartDone(n) \/ Done(n)
  \/ Ended \/ Failed

Spec == Init /\ [][Next]_view
===============================================================================
