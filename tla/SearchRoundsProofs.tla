-------------------------- MODULE SearchRoundsProofs --------------------------
(***************************************************************************)
(* Proofs about SearchRounds, for any caps, any declarations and any       *)
(* number of calls in a generation.                                        *)
(***************************************************************************)
EXTENDS SearchRounds, TLAPS

\* The clamp of max_uses yields a budget between one and the cap.
LEMMA ClampedInRange ==
  ASSUME NEW asked \in Asked
  PROVE  Clamped(asked) \in 1 .. MaxUsesPerRequest
<1>1. asked \in Nat \ {0} /\ MaxUsesPerRequest \in Nat \ {0}
  BY LimitsAssumption
<1>2. \E x \in {asked, MaxUsesPerRequest} : \A y \in {asked, MaxUsesPerRequest} : x =< y
  <2>1. CASE asked <= MaxUsesPerRequest
    BY <1>1, <2>1
  <2>2. CASE MaxUsesPerRequest <= asked
    BY <1>1, <2>2
  <2> QED
    BY <1>1, <2>1, <2>2
<1>3. /\ Clamped(asked) \in {asked, MaxUsesPerRequest}
      /\ Clamped(asked) =< MaxUsesPerRequest
  BY <1>2 DEF Clamped, Min
<1> QED
  BY <1>1, <1>3

\* The search calls of a generation are a sequence.
LEMMA RoundIsTyped ==
  ASSUME NEW rd \in Round
  PROVE  /\ rd.server \in Seq(ServerCall)
         /\ rd.client \in BOOLEAN
         /\ rd.finish \in {"none", "stop", "tool_calls"}
<1>1. PICK m \in 0 .. MaxCalls : rd.server \in [1 .. m -> ServerCall]
  BY DEF Round, BoundedSeq, SeqOf
<1>2. m \in Nat
  BY <1>1, LimitsAssumption
<1> QED
  BY <1>1, <1>2 DEF Round

LEMMA EmptyRoundIsRound == EmptyRound \in Round
<1>1. 0 \in 0 .. MaxCalls
  BY LimitsAssumption
<1>2. <<>> \in [1 .. 0 -> ServerCall]
  OBVIOUS
<1>3. <<>> \in BoundedSeq(ServerCall, MaxCalls)
  BY <1>1, <1>2 DEF BoundedSeq, SeqOf
<1> QED
  BY <1>3 DEF Round, EmptyRound

\* The effect on the shadow is one of the three.
LEMMA ShadowAfterIsEffect ==
  ASSUME frontend \in Messages \cup Responses, NEW rd \in Round
  PROVE  ShadowAfter(rd) \in Effect
<1>1. rd.client \in BOOLEAN /\ rd.finish \in {"none", "stop", "tool_calls"}
  BY RoundIsTyped
<1>2. CASE frontend \in Messages /\ (rd.server # <<>> \/ rd.client)
  BY <1>2 DEF ShadowAfter, Effect, Messages, Responses
<1>3. CASE frontend \in Messages /\ ~(rd.server # <<>> \/ rd.client)
  BY <1>3, <1>1 DEF ShadowAfter, Effect, Messages, Responses
<1>4. CASE frontend \in Responses
  BY <1>4, <1>1 DEF ShadowAfter, Effect, Messages, Responses
<1> QED
  BY <1>1, <1>2, <1>3, <1>4

\* Refusals answer every call of a round.
LEMMA RefusalsAnswer ==
  ASSUME NEW rd \in Round
  PROVE  LET refusals == [i \in DOMAIN rd.server |-> "refused"]
         IN  refusals \in Seq(Outcome) /\ Len(refusals) = Len(rd.server)
<1>1. rd.server \in Seq(ServerCall)
  BY RoundIsTyped
<1>2. DOMAIN rd.server = 1 .. Len(rd.server) /\ Len(rd.server) \in Nat
  BY <1>1
<1>3. "refused" \in Outcome
  BY DEF Outcome
<1> QED
  BY <1>2, <1>3

-----------------------------------------------------------------------------
(* Type correctness                                                        *)

LEMMA TypeInit == Init => TypeOK
<1> SUFFICES ASSUME Init PROVE TypeOK
  OBVIOUS
<1>1. max_uses \in 1 .. MaxUsesPerRequest
  BY ClampedInRange DEF Init
<1>2. {uses_left, rounds_left} \subseteq 0 .. max_uses
  BY <1>1, LimitsAssumption DEF Init
<1>3. round \in Round
  BY EmptyRoundIsRound DEF Init
<1> QED
  BY <1>1, <1>2, <1>3 DEF Init, TypeOK, NoVerdict, Effect

LEMMA TypeStep ==
  ASSUME TypeOK, [Next]_vars
  PROVE  TypeOK'
<1> USE DEF TypeOK, request, budgets, result
<1>0. frontend \in Messages \cup Responses
  BY FrontendAssumption
<1>1. ASSUME NEW rd \in Round, StreamBreaks(rd) PROVE TypeOK'
  <2>1. ShadowAfter(rd) \in Effect /\ "kept" \in Effect
    BY <1>0, ShadowAfterIsEffect DEF Effect
  <2> QED
    BY <1>1, <2>1 DEF StreamBreaks, Ends, Close
<1>2. ASSUME NEW rd \in Round, ErrorEvent(rd) PROVE TypeOK'
  <2>1. ShadowAfter(rd) \in Effect /\ "kept" \in Effect
    BY <1>0, ShadowAfterIsEffect DEF Effect
  <2> QED
    BY <1>2, <2>1 DEF ErrorEvent, Ends, Close
<1>3. ASSUME NEW rd \in Round, StreamTruncated(rd) PROVE TypeOK'
  BY <1>3 DEF StreamTruncated, Ends, Close, Effect
<1>4. ASSUME NEW rd \in Round, MessagesAnswer(rd) PROVE TypeOK'
  <2>1. ShadowAfter(rd) \in Effect
    BY <1>0, ShadowAfterIsEffect
  <2> QED
    BY <1>4, <2>1 DEF MessagesAnswer, Ends, Close
<1>5. ASSUME NEW rd \in Round, MessagesPause(rd) PROVE TypeOK'
  <2>1. ShadowAfter(rd) \in Effect
    BY <1>0, ShadowAfterIsEffect
  <2> QED
    BY <1>5, <2>1, RefusalsAnswer DEF MessagesPause, Ends, Close
<1>6. ASSUME NEW rd \in Round, MessagesSearch(rd) PROVE TypeOK'
  BY <1>6 DEF MessagesSearch, Ends
<1>7. ASSUME NEW rd \in Round, ResponsesSearch(rd) PROVE TypeOK'
  BY <1>7 DEF ResponsesSearch, PureSearch, Ends
<1>8. ASSUME NEW rd \in Round, ResponsesAnswer(rd) PROVE TypeOK'
  <2>1. ShadowAfter(rd) \in Effect
    BY <1>0, ShadowAfterIsEffect
  <2> QED
    BY <1>8, <2>1 DEF ResponsesAnswer, Ends, Close
<1>9. CASE Search
  <2>1. \A o \in Outcome : Append(outcomes, o) \in Seq(Outcome)
    OBVIOUS
  <2>2. outcomes' \in Seq(Outcome)
    BY <1>9, <2>1 DEF Search, Outcome
  <2>3. uses_left' \in 0 .. max_uses /\ searches' \in Nat
    BY <1>9 DEF Search
  <2> QED
    BY <1>9, <2>2, <2>3 DEF Search
<1>10. CASE MixedRoundEnds
  <2>1. ShadowAfter(round) \in Effect
    BY <1>0, ShadowAfterIsEffect
  <2> QED
    BY <1>10, <2>1 DEF MixedRoundEnds, Close
<1>11. CASE Ground
  BY <1>11 DEF Ground
<1>12. CASE Continue
  BY <1>12, EmptyRoundIsRound DEF Continue
<1>13. CASE ContinueFails
  BY <1>13 DEF ContinueFails, Close, Effect
<1>14. CASE Deliver
  BY <1>14 DEF Deliver
<1>15. CASE PumpNotices
  BY <1>15 DEF PumpNotices
<1>16. CASE ClientLeaves
  BY <1>16 DEF ClientLeaves
<1>17. CASE AnswerRead
  BY <1>17 DEF AnswerRead
<1>18. CASE UNCHANGED vars
  BY <1>18 DEF vars
<1> QED
  BY <1>1, <1>2, <1>3, <1>4, <1>5, <1>6, <1>7, <1>8, <1>9, <1>10, <1>11, <1>12,
     <1>13, <1>14, <1>15, <1>16, <1>17, <1>18 DEF Next, Gateway, GenerationEnds

\* Every variable of a request keeps its type: no budget falls below zero.
THEOREM TypeCorrect == Spec => []TypeOK
<1>1. Init => TypeOK
  BY TypeInit
<1>2. TypeOK /\ [Next]_vars => TypeOK'
  BY TypeStep
<1> QED
  BY <1>1, <1>2, PTL DEF Spec

-----------------------------------------------------------------------------
(* The invariant                                                           *)

LEMMA InvInit == Init => IInv
<1> SUFFICES ASSUME Init PROVE IInv
  OBVIOUS
<1>1. TypeOK
  BY TypeInit
<1>2. BudgetsAgree
  BY <1>1, LimitsAssumption DEF Init, BudgetsAgree, UnderWay, TypeOK
<1>3. CallsMatch
  BY DEF Init, CallsMatch, UnderWay
<1>4. VerdictLast
  BY DEF Init, VerdictLast, NoVerdict
<1> QED
  BY <1>1, <1>2, <1>3, <1>4 DEF IInv

\* A generation that is begun is paid for, by a search budget or by the count.
LEMMA BudgetStep ==
  ASSUME IInv, [Next]_vars
  PROVE  BudgetsAgree'
<1> USE DEF IInv, TypeOK, BudgetsAgree, UnderWay, request, budgets, result
<1>1. ASSUME NEW rd \in Round, MessagesSearch(rd) PROVE BudgetsAgree'
  BY <1>1, LimitsAssumption DEF MessagesSearch, Ends, Exhausted, Messages, Responses
<1>2. ASSUME NEW rd \in Round, ResponsesSearch(rd) PROVE BudgetsAgree'
  BY <1>2 DEF ResponsesSearch, PureSearch, Ends, Messages, Responses
<1>3. ASSUME NEW rd \in Round,
        \/ StreamBreaks(rd) \/ ErrorEvent(rd) \/ StreamTruncated(rd)
        \/ MessagesAnswer(rd) \/ MessagesPause(rd) \/ ResponsesAnswer(rd)
      PROVE BudgetsAgree'
  <2>1. pc' = "closing" /\ UNCHANGED <<request, budgets, searches>>
    BY <1>3 DEF StreamBreaks, ErrorEvent, StreamTruncated, MessagesAnswer, MessagesPause,
                ResponsesAnswer, Ends, Close
  <2> QED
    BY <2>1
<1>4. CASE Search
  BY <1>4 DEF Search
<1>5. CASE \/ MixedRoundEnds \/ ContinueFails \/ Deliver
           \/ PumpNotices \/ AnswerRead \/ ClientLeaves
  <2>1. /\ UNCHANGED <<request, budgets, round, searches>>
        /\ pc' = pc \/ pc' \in {"closing", "done"}
    BY <1>5 DEF MixedRoundEnds, ContinueFails, Deliver, PumpNotices, AnswerRead,
                ClientLeaves, Close
  <2> QED
    BY <2>1
<1>6. CASE Ground
  BY <1>6 DEF Ground, Searched
<1>7. CASE Continue
  BY <1>7, LimitsAssumption DEF Continue, CallsMatch
<1>8. CASE UNCHANGED vars
  BY <1>8 DEF vars
<1> QED
  BY <1>1, <1>2, <1>3, <1>4, <1>5, <1>6, <1>7, <1>8 DEF Next, Gateway, GenerationEnds

\* Outcomes answer calls in order, and a conversation goes on over no other.
LEMMA CallsStep ==
  ASSUME IInv, [Next]_vars
  PROVE  CallsMatch'
<1> USE DEF IInv, TypeOK, CallsMatch, UnderWay, request, budgets, result
<1>1. ASSUME NEW rd \in Round, MessagesSearch(rd) PROVE CallsMatch'
  <2>1. rd.server \in Seq(ServerCall)
    BY RoundIsTyped
  <2> QED
    BY <1>1, <2>1 DEF MessagesSearch, Ends, Messages, Responses
<1>2. ASSUME NEW rd \in Round, ResponsesSearch(rd) PROVE CallsMatch'
  <2>1. rd.server \in Seq(ServerCall)
    BY RoundIsTyped
  <2> QED
    BY <1>2, <2>1 DEF ResponsesSearch, PureSearch, Ends
<1>3. ASSUME NEW rd \in Round,
        \/ StreamBreaks(rd) \/ ErrorEvent(rd) \/ StreamTruncated(rd)
        \/ MessagesAnswer(rd) \/ MessagesPause(rd) \/ ResponsesAnswer(rd)
      PROVE CallsMatch'
  BY <1>3 DEF StreamBreaks, ErrorEvent, StreamTruncated, MessagesAnswer, MessagesPause,
              ResponsesAnswer, Ends, Close
<1>4. CASE Search
  <2>1. round.server \in Seq(ServerCall)
    BY RoundIsTyped
  <2>2. Len(outcomes') = Len(outcomes) + 1
    BY <1>4 DEF Search
  <2> QED
    BY <1>4, <2>1, <2>2 DEF Search, Unanswered
<1>5. CASE \/ MixedRoundEnds \/ ContinueFails \/ Deliver
           \/ PumpNotices \/ AnswerRead \/ ClientLeaves
  <2>1. /\ UNCHANGED <<request, round, outcomes>>
        /\ pc' = pc \/ pc' \in {"closing", "done"}
    BY <1>5 DEF MixedRoundEnds, ContinueFails, Deliver, PumpNotices, AnswerRead,
                ClientLeaves, Close
  <2> QED
    BY <2>1
<1>6. CASE Ground
  <2>1. round.server \in Seq(ServerCall)
    BY RoundIsTyped
  <2>2. frontend \in Messages \cup Responses
    BY FrontendAssumption
  <2> QED
    BY <1>6, <2>1, <2>2 DEF Ground, Searched, Unanswered
<1>7. CASE Continue
  BY <1>7 DEF Continue
<1>8. CASE UNCHANGED vars
  BY <1>8 DEF vars
<1> QED
  BY <1>1, <1>2, <1>3, <1>4, <1>5, <1>6, <1>7, <1>8 DEF Next, Gateway, GenerationEnds

\* Only an answer that is handed over to a client that is there settles the
\* shadow.
LEMMA VerdictStep ==
  ASSUME IInv, [Next]_vars
  PROVE  VerdictLast'
<1> USE DEF IInv, TypeOK, VerdictLast, NoVerdict, request, budgets, result
<1>1. ASSUME NEW rd \in Round,
        StreamBreaks(rd) \/ ErrorEvent(rd) \/ StreamTruncated(rd) \/ ResponsesAnswer(rd)
      PROVE VerdictLast'
  <2>1. /\ pc = "reading" /\ pc' = "closing"
        /\ UNCHANGED <<request, ending, shadow>>
        /\ \/ verdict'.ending = "error"
           \/ verdict'.ending = "complete" /\ frontend \in Responses
    BY <1>1 DEF StreamBreaks, ErrorEvent, StreamTruncated, ResponsesAnswer, Ends, Close
  <2> QED
    BY <2>1 DEF Messages, Responses
<1>2. ASSUME NEW rd \in Round, MessagesAnswer(rd) PROVE VerdictLast'
  <2>1. Len(outcomes') = 0 /\ Len(round'.server) = 0
    BY <1>2 DEF MessagesAnswer, Ends, CallsMatch
  <2> QED
    BY <1>2, <2>1 DEF MessagesAnswer, Ends, Close
<1>3. ASSUME NEW rd \in Round, MessagesPause(rd) PROVE VerdictLast'
  <2>1. Len(outcomes') = Len(round'.server)
    BY <1>3, RefusalsAnswer DEF MessagesPause, Ends
  <2>2. \A i \in DOMAIN outcomes' : outcomes'[i] = "refused"
    BY <1>3 DEF MessagesPause
  <2>3. Exhausted' /\ frontend' \in Messages
    BY <1>3 DEF MessagesPause, Ends, Exhausted
  <2> QED
    BY <1>3, <2>1, <2>2, <2>3 DEF MessagesPause, Ends, Close
<1>4. ASSUME NEW rd \in Round, MessagesSearch(rd) \/ ResponsesSearch(rd) PROVE VerdictLast'
  BY <1>4 DEF MessagesSearch, ResponsesSearch, Ends
<1>5. CASE Search \/ Ground \/ Continue
  BY <1>5 DEF Search, Ground, Searched, Continue
<1>6. CASE MixedRoundEnds
  <2>1. Len(outcomes) = Len(round.server)
    <3>1. round.server \in Seq(ServerCall)
      BY RoundIsTyped
    <3> QED
      BY <1>6, <3>1 DEF MixedRoundEnds, Searched, Unanswered, CallsMatch, UnderWay
  <2> QED
    BY <1>6, <2>1 DEF MixedRoundEnds, Searched, Close
<1>7. CASE ContinueFails
  BY <1>7 DEF ContinueFails, Close
<1>8. CASE Deliver
  BY <1>8 DEF Deliver, Exhausted
<1>9. CASE PumpNotices \/ AnswerRead \/ ClientLeaves
  BY <1>9 DEF PumpNotices, AnswerRead, ClientLeaves, Searched, Exhausted
<1>10. CASE UNCHANGED vars
  BY <1>10 DEF vars, Exhausted
<1> QED
  BY <1>1, <1>2, <1>3, <1>4, <1>5, <1>6, <1>7, <1>8, <1>9, <1>10
  DEF Next, Gateway, GenerationEnds

\* The budgets, the outcomes and the verdict of a request agree in every state.
THEOREM SearchInvariant == Spec => []IInv
<1>1. IInv /\ [Next]_vars => IInv'
  BY TypeStep, BudgetStep, CallsStep, VerdictStep DEF IInv
<1> QED
  BY <1>1, InvInit, PTL DEF Spec

\* max_uses is honored over all rounds of a Messages request, and generations
\* stay within the limits of each loop.
THEOREM CapsHold == Spec => []WithinCaps
<1>1. IInv => WithinCaps
  BY DEF IInv, TypeOK, BudgetsAgree, WithinCaps
<1> QED
  BY <1>1, SearchInvariant, PTL

\* No conversation goes on over a call without a result, and no Messages
\* answer shows one.
THEOREM CallsAreAnswered == Spec => []CallsAnswered
<1>1. IInv => CallsAnswered
  <2> SUFFICES ASSUME IInv PROVE CallsAnswered
    OBVIOUS
  <2>1. ending \in {"complete", "paused"} => verdict.ending = ending
    BY DEF IInv, VerdictLast
  <2> QED
    BY <2>1 DEF IInv, CallsMatch, UnderWay, VerdictLast, CallsAnswered
<1> QED
  BY <1>1, SearchInvariant, PTL

\* A turn is paused at a limit only, with every search it shows refused.
THEOREM PausesAtALimit == Spec => []PausesOnlyAtALimit
<1>1. IInv => PausesOnlyAtALimit
  <2> SUFFICES ASSUME IInv, ending = "paused" PROVE PausesOnlyAtALimit
    BY DEF PausesOnlyAtALimit
  <2>1. /\ frontend \in Messages /\ Exhausted
        /\ \A i \in DOMAIN outcomes : outcomes[i] = "refused"
    BY DEF IInv, VerdictLast
  <2>2. searches = max_uses \/ rounds = MaxGenerations
    BY <2>1, LimitsAssumption DEF IInv, TypeOK, BudgetsAgree, Exhausted
  <2> QED
    BY <2>1, <2>2 DEF PausesOnlyAtALimit
<1> QED
  BY <1>1, SearchInvariant, PTL

\* A client that leaves before the end of its answer is handed over costs its
\* session no reasoning.
THEOREM GoneKeepsShadow == Spec => []DisconnectKeepsShadow
<1>1. IInv => DisconnectKeepsShadow
  BY DEF IInv, VerdictLast, DisconnectKeepsShadow
<1> QED
  BY <1>1, SearchInvariant, PTL
==============================================================================
