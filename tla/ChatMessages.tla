---------------------------- MODULE ChatMessages ----------------------------
(***************************************************************************)
(* The chat messages that every frontend turns its request into (the       *)
(* WireMessage of src/src/anthropic.rs and the bodies built by             *)
(* src/src/responses/request.rs), with their contents reduced to what the  *)
(* preparation of a prompt tells apart.                                    *)
(***************************************************************************)
EXTENDS Naturals, Sequences, FiniteSets

CONSTANTS
  Id,     \* ids of tool calls
  NoId    \* a message that answers no call

ASSUME IdAssumption == NoId \notin Id

\* turns: the messages or items of the client's request it was made from.
\* content: an array of blocks that is empty, one text, several texts, or has
\* an image or a document that is passed on as a file; a plain string; or null.
\* header: the billing header its text begins with, 0 for none.
Message ==
  [role : {"system", "user", "assistant", "tool"},
   turns : SUBSET Nat,
   content : {"empty", "one", "several", "media", "string", "null"},
   header : 0 .. 2,
   calls : SUBSET Id,
   answers : Id \cup {NoId},
   reasoning : {"none", "client", "restored"},
   arguments : {"raw", "canonical"}]

Wire(role, turns, content) ==
  [role |-> role, turns |-> turns, content |-> content, header |-> 0, calls |-> {},
   answers |-> NoId, reasoning |-> "none", arguments |-> "raw"]

\* One more text block in an array.
More(content) ==
  IF content = "empty" THEN "one" ELSE IF content = "one" THEN "several" ELSE content

-----------------------------------------------------------------------------
(* What a list of messages must be like for the upstream                   *)

\* The call that the message at i answers was made at j.
MadeAt(out, i, j) == out[j].role = "assistant" /\ out[i].answers \in out[j].calls

\* Every result answers a call of the turn it belongs to or of the one before,
\* with nothing but results and other parts of that turn between them.
AnswersTurn(out) ==
  \A i \in 1 .. Len(out) : out[i].role = "tool" =>
    \E j \in 1 .. i - 1 :
      /\ MadeAt(out, i, j)
      /\ \A k \in j + 1 .. i - 1 : out[k].role \in {"assistant", "tool"}
      /\ \A s \in out[j].turns, t \in out[i].turns : t \in {s, s + 1}

\* The results of one turn answer different calls.
AnswersOnce(out) ==
  \A i, j \in 1 .. Len(out) :
    /\ out[i].role = "tool" /\ out[j].role = "tool"
    /\ out[i].turns = out[j].turns /\ out[i].answers = out[j].answers
    => i = j

\* Messages stand in the order of what they were made from.
InOrder(out) ==
  \A i, j \in 1 .. Len(out) : i < j =>
    \A s \in out[i].turns, t \in out[j].turns : s <= t
=============================================================================
