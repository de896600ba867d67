---------------------------- MODULE MessagesEvents ----------------------------
(***************************************************************************)
(* What a client of the Messages API may see, one event per step: the      *)
(* order of message_start, content blocks, message_delta and message_stop  *)
(* that src/src/anthropic.rs produces for Claude Code.  Blocks may be open *)
(* side by side, but each is started before anything is said of it and     *)
(* stopped once, and all of them are stopped before the message is.        *)
(***************************************************************************)
EXTENDS Naturals, Sequences

CONSTANTS
  Call,      \* what a tool_use block says of its call
  NoCall,    \* of a block of another kind
  Size,      \* how much one delta may say
  Reason     \* of message_delta

VARIABLES
  phase,     \* "new", "open", "stopping", "stopped" or "failed"
  blocks,    \* the content blocks; a block's index is its position less one
  stop       \* the stop reason, or "none"

view == <<phase, blocks, stop>>

Kind == {"thinking", "text", "tool_use", "server_tool_use", "web_search_tool_result"}

\* size is what the deltas have said.  A signature ends a block of thinking.
Block == [kind : Kind, call : Call \cup {NoCall}, size : Nat, signed : BOOLEAN, stopped : BOOLEAN]

Init == phase = "new" /\ blocks = <<>> /\ stop = "none"

\* message_start
MessageStart == phase = "new" /\ phase' = "open" /\ UNCHANGED <<blocks, stop>>

\* content_block_start
BlockStart == \E kind \in Kind, call \in Call \cup {NoCall} :
  /\ phase = "open"
  /\ kind = "tool_use" <=> call # NoCall
  /\ blocks' = Append(blocks, [kind |-> kind, call |-> call, size |-> 0,
                               signed |-> FALSE, stopped |-> FALSE])
  /\ UNCHANGED <<phase, stop>>

Change(n, block) ==
  /\ phase = "open" /\ ~blocks[n].stopped
  /\ blocks' = [blocks EXCEPT ![n] = block]
  /\ UNCHANGED <<phase, stop>>

\* content_block_delta: thinking, text, or the JSON of a call.
Delta(n) ==
  /\ blocks[n].kind # "web_search_tool_result" /\ ~blocks[n].signed
  /\ \E more \in Size : Change(n, [blocks[n] EXCEPT !.size = @ + more])

\* content_block_delta: signature_delta
Sign(n) ==
  /\ blocks[n].kind = "thinking" /\ ~blocks[n].signed
  /\ Change(n, [blocks[n] EXCEPT !.signed = TRUE])

\* content_block_stop.  No thinking without a signature.
BlockStop(n) ==
  /\ blocks[n].kind = "thinking" => blocks[n].signed
  /\ Change(n, [blocks[n] EXCEPT !.stopped = TRUE])

\* message_delta, with the stop reason
MessageDelta ==
  /\ phase = "open" /\ \A n \in DOMAIN blocks : blocks[n].stopped
  /\ phase' = "stopping" /\ stop' \in Reason
  /\ UNCHANGED blocks

MessageStop ==
  phase = "stopping" /\ phase' = "stopped" /\ UNCHANGED <<blocks, stop>>

\* error: at any time, even first, but not after message_delta.
Error ==
  phase \in {"new", "open"} /\ phase' = "failed" /\ UNCHANGED <<blocks, stop>>

Next ==
  \/ MessageStart \/ BlockStart
  \/ \E n \in DOMAIN blocks : Delta(n) \/ Sign(n) \/ BlockStop(n)
  \/ MessageDelta \/ MessageStop \/ Error

Spec == Init /\ [][Next]_view
===============================================================================
