---------------------------- MODULE PromptPolicy ----------------------------
(***************************************************************************)
(* What is done to the chat messages before they are sent: the shadow's    *)
(* reasoning is put back (restore_into), older reasoning is stripped and   *)
(* contents are compacted (src/src/optimize.rs), tool arguments are made   *)
(* canonical (src/src/cache.rs), the effort and the output bound are       *)
(* resolved (src/src/glm53/reasoning.rs), and the request is fitted into   *)
(* the context window (src/src/context_guard.rs).                          *)
(***************************************************************************)
EXTENDS ChatMessages, FiniteSetsExt

CONSTANTS
  Cap,        \* glm53.limits.max_output_tokens
  LowBudget,  \* LOW_BUDGET_LIMIT
  Window,     \* upstream_context_window_tokens, 0 when it is not set
  Margin,     \* context_safety_margin_tokens
  MinOutput   \* min_output_tokens

\* Config::validate
ASSUME WindowAssumption ==
  /\ {Cap, LowBudget, Window, Margin, MinOutput} \subseteq Nat
  /\ Cap > 0 /\ MinOutput > 0
  /\ Window = 0 \/ Window > Margin + MinOutput

\* The positions of the messages with one of these roles; the last of a set of
\* positions, or another when it is empty.
Positions(body, roles) == {i \in 1 .. Len(body) : body[i].role \in roles}
LastOr(S, none) == IF S = {} THEN none ELSE Max(S)

-----------------------------------------------------------------------------
(* Epochs of reasoning                                                     *)

EpochBoundary(body) == LastOr(Positions(body, {"user"}), Len(body) + 1)

\* request_starts_new_epoch
StartsNewEpoch(body) == Len(body) > 0 /\ body[Len(body)].role = "user"

\* Mutant: the boundary of the strip is the newest user or tool message.
StripBoundaryOfTools(body) ==
  LastOr(Positions(body, {"user", "tool"}), Len(body) + 1)

StripBoundary(body) == EpochBoundary(body)

\* One message of restore_into, at a position of the current epoch.
Restored(m, held) ==
  IF /\ m.role = "assistant" /\ m.reasoning = "none"
     /\ m.calls \cap held # {}
  THEN [m EXCEPT !.reasoning = "restored"] ELSE m

-----------------------------------------------------------------------------
(* optimize_messages and canonicalize_tool_arguments                       *)

Stripped(body) ==
  [i \in 1 .. Len(body) |->
     IF body[i].role = "assistant" /\ i < StripBoundary(body)
     THEN [body[i] EXCEPT !.reasoning = "none"] ELSE body[i]]

\* compact_content: only arrays, without loss.
Compacted(body) ==
  [i \in 1 .. Len(body) |->
     IF body[i].content \in {"empty", "one"}
     THEN [body[i] EXCEPT !.content = "string"] ELSE body[i]]

\* Arguments are made canonical up to the last user or tool message.
Canonical(body) ==
  LET last == LastOr(Positions(body, {"user", "tool"}), 0)
  IN  [i \in 1 .. Len(body) |->
         IF body[i].role = "assistant" /\ i < last /\ body[i].calls # {}
         THEN [body[i] EXCEPT !.arguments = "canonical"] ELSE body[i]]

\* Models of another family go as they are, but for the arguments.
Prepared(body, glm) == Canonical(IF glm THEN Compacted(Stripped(body)) ELSE body)

-----------------------------------------------------------------------------
(* resolve_reasoning_policy                                                *)

\* openai_effort_to_glm, then from_output_effort
OutputEffort(effort) ==
  CASE effort \in {"minimal", "low"} -> "low"
    [] effort \in {"medium", "high", "xhigh"} -> "high"
    [] effort = "max" -> "max"
    [] OTHER -> "invalid"

\* from_thinking
ThinkingEffort(thinking, budget, bound) ==
  CASE thinking = "disabled" -> "low"
    [] thinking = "adaptive" -> "high"
    [] thinking = "enabled" ->
         IF budget = 0 \/ budget >= bound THEN "invalid"
         ELSE IF budget < LowBudget THEN "low" ELSE "high"
    [] OTHER -> "invalid"

\* An explicit effort comes before thinking, and thinking before the default.
ResolvedEffort(thinking, budget, effort, bound) ==
  IF effort # "absent" THEN OutputEffort(effort)
  ELSE IF thinking = "absent" THEN "high"
  ELSE ThinkingEffort(thinking, budget, bound)

\* The output bound: min(client, configured), 0 when the client has none.
EffectiveOutput(asked) == IF asked = 0 \/ asked > Cap THEN Cap ELSE asked

-----------------------------------------------------------------------------
(* The context guard                                                       *)

\* The estimate takes every byte for a token, and must stay under a quarter.
WellBelowWindow(estimate, output) == 4 * (estimate + output + Margin) < Window

\* saturating_sub
Minus(x, y) == IF x < y THEN 0 ELSE x - y
Remaining(tokens) == Minus(Minus(Window, Margin), tokens)

RejectsInput(tokens) == Remaining(tokens) < MinOutput

\* Mutant: the safety margin is not kept.
AllowedOutputNoMargin(tokens, output) == Min({output, Minus(Window, tokens)})

\* Allow, or ReduceOutput.
AllowedOutput(tokens, output) == Min({output, Remaining(tokens)})

\* count_optimized_request reads the chat body as if it were a Messages request
\* (src/src/glm53/messages.rs): it fails on results and on images, and passes
\* over calls and reasoning.
Countable(body) ==
  \A i \in 1 .. Len(body) : body[i].role # "tool" /\ body[i].content # "media"

Overlooked(body) ==
  \E i \in 1 .. Len(body) : body[i].calls # {} \/ body[i].reasoning # "none"
=============================================================================
