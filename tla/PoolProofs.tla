------------------------------ MODULE PoolProofs ------------------------------
(***************************************************************************)
(* Proofs about the key pool, in memory and with its file, for any number  *)
(* of keys and requests, any set of cooldown durations and any bound on    *)
(* the clock.                                                              *)
(*                                                                         *)
(* The first part is about KeyPool, with the history of SelectHistory:     *)
(* types, cooldowns and probes, what select refuses.  The second is about  *)
(* PersistentPool, with the history of FlushHistory: what the state file   *)
(* says, whatever verdicts, failed stores, shutdowns, crashes and restarts *)
(* interleave.                                                             *)
(***************************************************************************)
EXTENDS SelectHistory, FlushHistory, TLAPS

\* The wrap-around index arithmetic of scan and advance_if_active stays in the
\* pool.
LEMMA RingIsKey ==
  ASSUME NEW k \in Key, NEW o \in Key
  PROVE  Ring(k, o) \in Key
<1>1. k + o \in Nat /\ KeyCount \in Nat /\ KeyCount > 0
  BY KeyCountAssumption DEF Key
<1>2. (k + o) % KeyCount \in 0 .. KeyCount - 1
  BY <1>1, KeyCountAssumption
<1> QED
  BY <1>2 DEF Ring, Key

LEMMA ZeroIsKey == 0 \in Key
  BY KeyCountAssumption DEF Key

-----------------------------------------------------------------------------
(* Type correctness                                                        *)

LEMMA TypeInit == Init => TypeOK
<1> SUFFICES ASSUME Init PROVE TypeOK
  OBVIOUS
<1> USE DEF Init
<1>1. now \in Nat /\ active \in Key /\ dirty \in BOOLEAN
  BY ZeroIsKey
<1>2. until \in [Key -> Nat \cup {NoDeadline}]
  OBVIOUS
<1>3. pc \in [Request -> PC]
  BY DEF PC
<1>4. attempted \in [Request -> SUBSET Key] /\ at \in [Request -> Nat]
  OBVIOUS
<1>5. seen \in [Request -> Key] /\ offset \in [Request -> Key] /\ target \in [Request -> Key]
  BY ZeroIsKey
<1>6. probing \subseteq Key /\ wide \subseteq Request /\ lease \subseteq Request
  OBVIOUS
<1> QED
  BY <1>1, <1>2, <1>3, <1>4, <1>5, <1>6 DEF TypeOK

LEMMA TypeStep == TypeOK /\ [Next]_vars => TypeOK'
<1> SUFFICES ASSUME TypeOK, [Next]_vars PROVE TypeOK'
  OBVIOUS
<1> USE ZeroIsKey DEF TypeOK, PC, Goto, ForgetScan, scanVars, localVars, poolVars
<1>1. CASE Tick
  BY <1>1 DEF Tick
<1>2. ASSUME NEW r \in Request, Arrive(r) PROVE TypeOK'
  BY <1>2 DEF Arrive
<1>3. ASSUME NEW r \in Request, SelectStart(r) PROVE TypeOK'
  BY <1>3 DEF SelectStart
<1>4. ASSUME NEW r \in Request, ScanSkip(r) PROVE TypeOK'
  BY <1>4, KeyCountAssumption DEF ScanSkip, Key
<1>5. ASSUME NEW r \in Request, ScanWiden(r) PROVE TypeOK'
  BY <1>5 DEF ScanWiden
<1>6. ASSUME NEW r \in Request, ScanReject(r) PROVE TypeOK'
  BY <1>6 DEF ScanReject, Return
<1>7. ASSUME NEW r \in Request, ScanTake(r) PROVE TypeOK'
  <2>1. Candidate(r) \in Key
    BY RingIsKey DEF Candidate
  <2> QED
    BY <1>7, <2>1 DEF ScanTake, Attempt
<1>8. ASSUME NEW r \in Request, SelectSwitch(r) PROVE TypeOK'
  BY <1>8 DEF SelectSwitch, SetActive
<1>9. ASSUME NEW r \in Request, EndWithoutVerdict(r) PROVE TypeOK'
  BY <1>9 DEF EndWithoutVerdict, Leave, Return
<1>10. ASSUME NEW r \in Request, MarkSuccess(r) PROVE TypeOK'
  BY <1>10 DEF MarkSuccess, SetCooldown
<1>11. ASSUME NEW r \in Request, NEW c \in Cooldowns, MarkHttp429(r, c) PROVE TypeOK'
  <2>1. now + c \in Nat
    BY CooldownsAssumption
  <2> QED
    BY <1>11, <2>1 DEF MarkHttp429, SetCooldown
<1>12. ASSUME NEW r \in Request, AdvanceIfActive(r) PROVE TypeOK'
  <2>1. CASE active = target[r] /\ KeyCount > 1
    <3>1. 1 \in Key
      BY <2>1, KeyCountAssumption DEF Key
    <3> QED
      BY <1>12, <2>1, <3>1 DEF AdvanceIfActive
  <2>2. CASE ~(active = target[r] /\ KeyCount > 1)
    BY <1>12, <2>2 DEF AdvanceIfActive
  <2> QED
    BY <2>1, <2>2
<1>13. ASSUME NEW r \in Request, AdvanceScan(r) PROVE TypeOK'
  <2>1. CASE UNCHANGED offset
    BY <1>13, <2>1 DEF AdvanceScan
  <2>2. CASE offset[r] + 1 < KeyCount /\ offset' = [offset EXCEPT ![r] = @ + 1] /\ UNCHANGED pc
    <3>1. offset[r] + 1 \in Key
      BY <2>2, KeyCountAssumption DEF Key
    <3> QED
      BY <1>13, <2>2, <3>1 DEF AdvanceScan
  <2> QED
    BY <1>13, <2>1, <2>2 DEF AdvanceScan
<1>14. ASSUME NEW r \in Request, AdvanceSet(r) PROVE TypeOK'
  <2>1. Successor(r) \in Key
    BY RingIsKey DEF Successor
  <2> QED
    BY <1>14, <2>1 DEF AdvanceSet, SetActive
<1>15. ASSUME NEW r \in Request, NotifyDirty(r) PROVE TypeOK'
  BY <1>15 DEF NotifyDirty, Leave, Return
<1>16. ASSUME NEW r \in Request, DropLease(r) PROVE TypeOK'
  BY <1>16 DEF DropLease, ReleaseProbe, Return
<1>17. CASE UNCHANGED vars
  BY <1>17 DEF vars
<1>18. ASSUME NEW r \in Request, NotifySuccess(r) PROVE TypeOK'
  BY <1>18 DEF NotifySuccess, Leave, Return
<1> QED
  BY <1>1, <1>2, <1>3, <1>4, <1>5, <1>6, <1>7, <1>8, <1>9, <1>10, <1>11,
     <1>12, <1>13, <1>14, <1>15, <1>16, <1>17, <1>18
     DEF Next, SendChat, Select, Answer, Advance

\* Every variable of the pool and of its requests keeps its type: indices stay
\* inside the key list, whatever they wrap around, and deadlines are instants
\* or the absence of one.
THEOREM TypeCorrect == Spec => []TypeOK
  BY TypeInit, TypeStep, PTL DEF Spec

-----------------------------------------------------------------------------
(* The inductive invariant                                                 *)

LEMMA InvInit == Init => IInv
<1> SUFFICES ASSUME Init PROVE IInv
  OBVIOUS
<1>1. TypeOK
  BY TypeInit
<1>2. LeaseLifetime /\ NoStrandedProbe /\ OnlyHalfOpenProbed
  BY DEF Init, LeaseLifetime, NoStrandedProbe, OnlyHalfOpenProbed
<1>3. CapturedInPast
  BY DEF Init, CapturedInPast
<1> QED
  BY <1>1, <1>2, <1>3 DEF IInv

LEMMA InvStep == IInv /\ [Next]_vars => IInv'
<1> SUFFICES ASSUME IInv, [Next]_vars PROVE IInv'
  OBVIOUS
<1> DEFINE Rest == LeaseLifetime /\ CapturedInPast /\ NoStrandedProbe
                     /\ OnlyHalfOpenProbed
<1>0. TypeOK'
  BY TypeStep DEF IInv
<1>a. TypeOK /\ Rest
  BY DEF IInv
<1> USE DEF TypeOK, LeaseLifetime, CapturedInPast, NoStrandedProbe, Leases,
            OnlyHalfOpenProbed, HalfOpen, Cooling,
            Goto, ForgetScan, scanVars, localVars, poolVars, NoDeadline
<1>1. ASSUME Tick PROVE Rest'
  BY <1>a, <1>1 DEF Tick
<1>2. ASSUME NEW r \in Request, Arrive(r) PROVE Rest'
  BY <1>a, <1>2 DEF Arrive
<1>3. ASSUME NEW r \in Request, SelectStart(r) PROVE Rest'
  BY <1>a, <1>3 DEF SelectStart
<1>4. ASSUME NEW r \in Request, ScanSkip(r) PROVE Rest'
  BY <1>a, <1>4 DEF ScanSkip
<1>5. ASSUME NEW r \in Request, ScanWiden(r) PROVE Rest'
  BY <1>a, <1>5 DEF ScanWiden
<1>6. ASSUME NEW r \in Request, ScanReject(r) PROVE Rest'
  BY <1>a, <1>6 DEF ScanReject, Return
<1>7. ASSUME NEW r \in Request, ScanTake(r) PROVE Rest'
  <2> DEFINE k == Candidate(r)
             isProbe == HalfOpen(k, at[r]) /\ k \notin probing
  <2>1. k \in Key /\ pc[r] = "scan" /\ r \notin lease
    BY <1>a, <1>7, RingIsKey DEF ScanTake, Candidate
  <2>2. pc' \in [Request -> PC] /\ pc'[r] \in {"switch", "send"}
          /\ \A s \in Request \ {r} : pc'[s] = pc[s]
    BY <1>a, <1>7 DEF ScanTake, PC
  <2>3. target'[r] = k /\ \A s \in Request \ {r} : target'[s] = target[s]
    BY <1>a, <1>7 DEF ScanTake, Attempt
  <2>4. \/ isProbe /\ probing' = probing \cup {k} /\ lease' = lease \cup {r}
        \/ probing' = probing /\ lease' = lease
    BY <1>7 DEF ScanTake, Attempt
  <2> HIDE DEF k
  <2>5. LeaseLifetime'
    BY <1>a, <2>2, <2>4
  <2>6. CapturedInPast'
    BY <1>a, <1>7 DEF ScanTake, Attempt
  <2>7. NoStrandedProbe'
    BY <1>a, <2>1, <2>2, <2>3, <2>4
  <2>8. OnlyHalfOpenProbed'
    <3>1. until' = until /\ now' = now /\ at[r] \in Nat /\ now \in Nat /\ at[r] <= now
      BY <1>a, <1>7 DEF ScanTake, Attempt
    <3> QED
      BY <1>a, <2>1, <2>4, <3>1
  <2> QED
    BY <2>5, <2>6, <2>7, <2>8
<1>8. ASSUME NEW r \in Request, SelectSwitch(r) PROVE Rest'
  BY <1>a, <1>8 DEF SelectSwitch
<1>9. ASSUME NEW r \in Request, EndWithoutVerdict(r) PROVE Rest'
  BY <1>a, <1>9 DEF EndWithoutVerdict, Leave, Return
<1>10. ASSUME NEW r \in Request, MarkSuccess(r) PROVE Rest'
  BY <1>a, <1>10 DEF MarkSuccess, SetCooldown
<1>11. ASSUME NEW r \in Request, NEW c \in Cooldowns, MarkHttp429(r, c) PROVE Rest'
  BY <1>a, <1>11, CooldownsAssumption DEF MarkHttp429, SetCooldown
<1>12. ASSUME NEW r \in Request, AdvanceIfActive(r) PROVE Rest'
  BY <1>a, <1>12 DEF AdvanceIfActive
<1>13. ASSUME NEW r \in Request, AdvanceScan(r) PROVE Rest'
  BY <1>a, <1>13 DEF AdvanceScan
<1>14. ASSUME NEW r \in Request, AdvanceSet(r) PROVE Rest'
  BY <1>a, <1>14 DEF AdvanceSet
<1>15. ASSUME NEW r \in Request, NotifyDirty(r) PROVE Rest'
  BY <1>a, <1>15 DEF NotifyDirty, Leave, Return
<1>16. ASSUME NEW r \in Request, DropLease(r) PROVE Rest'
  BY <1>a, <1>16 DEF DropLease, ReleaseProbe, Return
<1>17. ASSUME UNCHANGED vars PROVE Rest'
  BY <1>a, <1>17 DEF vars
<1>18. ASSUME NEW r \in Request, NotifySuccess(r) PROVE Rest'
  BY <1>a, <1>18 DEF NotifySuccess, Leave, Return
<1> HIDE DEF Rest
<1> QED
  BY <1>0, <1>1, <1>2, <1>3, <1>4, <1>5, <1>6, <1>7, <1>8, <1>9, <1>10, <1>11,
     <1>12, <1>13, <1>14, <1>15, <1>16, <1>17, <1>18
     DEF Next, SendChat, Select, Answer, Advance, IInv, Rest

\* Leases, captured instants and probe flags agree, however the requests of
\* src/src/pool.rs interleave.
THEOREM Invariant == Spec => []IInv
  BY InvInit, InvStep, PTL DEF Spec

\* A set probe flag always belongs to a request that will clear it, and lies on
\* a key whose cooldown has elapsed: no cancelled, failed or superseded probe
\* can take a key out of failover.
THEOREM ProbeFlagsOwned == Spec => [](NoStrandedProbe /\ OnlyHalfOpenProbed)
<1>1. IInv => NoStrandedProbe /\ OnlyHalfOpenProbed
  BY DEF IInv
<1> QED
  BY <1>1, Invariant, PTL

-----------------------------------------------------------------------------
(* What select refuses                                                     *)

\* Walking once around the ring from any key meets every key.
LEMMA RingIsOnto ==
  ASSUME NEW s \in Key, NEW k \in Key
  PROVE  \E o \in Key : Ring(s, o) = k
<1>1. CASE k >= s
  <2>1. k - s \in Key /\ s + (k - s) = k /\ k \in 0 .. KeyCount - 1
    BY <1>1, KeyCountAssumption DEF Key
  <2>2. k % KeyCount = k
    BY <2>1, KeyCountAssumption
  <2> QED
    BY <2>1, <2>2 DEF Ring
<1>2. CASE k < s
  <2>1. k - s + KeyCount \in Key /\ s + (k - s + KeyCount) = k + KeyCount /\ k \in 0 .. KeyCount - 1
    BY <1>2, KeyCountAssumption DEF Key
  <2>2. (k + KeyCount) % KeyCount = k
    BY <2>1, KeyCountAssumption
  <2> QED
    BY <2>1, <2>2 DEF Ring
<1> QED
  BY <1>1, <1>2, KeyCountAssumption DEF Key

\* Only ScanReject takes a request from its scan to its end.
LEMMA OnlyScanRejects ==
  ASSUME TypeOK, [Next]_vars, NEW r \in Request, pc[r] = "scan", pc'[r] = "idle"
  PROVE  ScanReject(r)
<1> USE DEF TypeOK, PC, Goto, ForgetScan
<1>1. ~Tick /\ ~UNCHANGED vars
  BY DEF Tick, vars
<1>2. ASSUME NEW s \in Request, Arrive(s) PROVE FALSE
  BY <1>2 DEF Arrive
<1>3. ASSUME NEW s \in Request, Select(s), ~ScanReject(r) PROVE FALSE
  <2>1. CASE SelectStart(s)
    BY <2>1 DEF SelectStart
  <2>2. CASE ScanSkip(s)
    BY <2>2 DEF ScanSkip
  <2>3. CASE ScanWiden(s)
    BY <2>3 DEF ScanWiden
  <2>4. CASE ScanReject(s)
    BY <1>3, <2>4 DEF ScanReject, Return
  <2>5. CASE ScanTake(s)
    BY <2>5 DEF ScanTake, Attempt
  <2>6. CASE SelectSwitch(s)
    BY <2>6 DEF SelectSwitch
  <2> QED
    BY <1>3, <2>1, <2>2, <2>3, <2>4, <2>5, <2>6 DEF Select
<1>4. ASSUME NEW s \in Request, Answer(s) PROVE FALSE
  BY <1>4 DEF Answer, EndWithoutVerdict, MarkSuccess, NotifySuccess, MarkHttp429, Leave, Return
<1>5. ASSUME NEW s \in Request, Advance(s) PROVE FALSE
  BY <1>5 DEF Advance, AdvanceIfActive, AdvanceScan, AdvanceSet
<1>6. ASSUME NEW s \in Request, NotifyDirty(s) PROVE FALSE
  BY <1>6 DEF NotifyDirty, Leave, Return
<1>7. ASSUME NEW s \in Request, DropLease(s) PROVE FALSE
  BY <1>7 DEF DropLease, ReleaseProbe, Return
<1> QED
  BY <1>1, <1>2, <1>3, <1>4, <1>5, <1>6, <1>7 DEF Next, SendChat


\* A scan is begun by SelectStart.
LEMMA OnlySelectStarts ==
  ASSUME TypeOK, [Next]_vars, NEW r \in Request, pc[r] # "scan", pc'[r] = "scan"
  PROVE  offset'[r] = 0 /\ r \notin wide'
<1> USE DEF TypeOK, PC, Goto, ForgetScan, scanVars, localVars
<1>1. ~Tick /\ ~UNCHANGED vars
  BY DEF Tick, vars
<1>2. ASSUME NEW s \in Request, Arrive(s) PROVE FALSE
  BY <1>2 DEF Arrive
<1>3. ASSUME NEW s \in Request, SelectStart(s) PROVE offset'[r] = 0 /\ r \notin wide'
  BY <1>3 DEF SelectStart
<1>4. ASSUME NEW s \in Request,
             ScanSkip(s) \/ ScanWiden(s) \/ ScanReject(s) \/ ScanTake(s) \/ SelectSwitch(s)
      PROVE  FALSE
  BY <1>4 DEF ScanSkip, ScanWiden, ScanReject, Return, ScanTake, SelectSwitch
<1>5. ASSUME NEW s \in Request, Answer(s) PROVE FALSE
  BY <1>5 DEF Answer, EndWithoutVerdict, MarkSuccess, NotifySuccess, MarkHttp429, Leave, Return
<1>6. ASSUME NEW s \in Request, Advance(s) PROVE FALSE
  BY <1>6 DEF Advance, AdvanceIfActive, AdvanceScan, AdvanceSet
<1>7. ASSUME NEW s \in Request, NotifyDirty(s) \/ DropLease(s) PROVE FALSE
  BY <1>7 DEF NotifyDirty, DropLease, ReleaseProbe, Leave, Return
<1> QED
  BY <1>1, <1>2, <1>3, <1>4, <1>5, <1>6, <1>7 DEF Next, SendChat, Select

\* A scan goes on by its own steps, and the others leave its locals alone.
LEMMA ScanGoesOn ==
  ASSUME TypeOK, [Next]_vars, NEW r \in Request, pc[r] = "scan", pc'[r] = "scan"
  PROVE  \/ ScanSkip(r)
         \/ ScanWiden(r)
         \/ /\ seen'[r] = seen[r] /\ offset'[r] = offset[r]
            /\ attempted'[r] = attempted[r]
            /\ r \in wide' <=> r \in wide
<1> DEFINE Frame == /\ seen'[r] = seen[r] /\ offset'[r] = offset[r]
                    /\ attempted'[r] = attempted[r]
                    /\ r \in wide' <=> r \in wide
<1> USE DEF TypeOK, PC, Goto, ForgetScan, scanVars, localVars, Return, Leave
<1>1. ASSUME Tick \/ UNCHANGED vars PROVE Frame
  BY <1>1 DEF Tick, vars
<1>2. ASSUME NEW s \in Request, Arrive(s) PROVE Frame
  BY <1>2 DEF Arrive
<1>3. ASSUME NEW s \in Request, SelectStart(s) PROVE Frame
  BY <1>3 DEF SelectStart
<1>4. ASSUME NEW s \in Request, ScanSkip(s), s # r PROVE Frame
  BY <1>4 DEF ScanSkip
<1>5. ASSUME NEW s \in Request, ScanWiden(s), s # r PROVE Frame
  BY <1>5 DEF ScanWiden
<1>6. ASSUME NEW s \in Request, ScanReject(s) PROVE Frame
  BY <1>6 DEF ScanReject
<1>7. ASSUME NEW s \in Request, ScanTake(s) PROVE Frame
  <2>1. s # r
    BY <1>7 DEF ScanTake
  <2>2. seen'[r] = seen[r] /\ offset'[r] = offset[r] /\ (r \in wide' <=> r \in wide)
    BY <1>7, <2>1 DEF ScanTake
  <2>3. attempted'[r] = attempted[r]
    BY <1>7, <2>1 DEF ScanTake, Attempt
  <2> QED
    BY <2>2, <2>3
<1>8. ASSUME NEW s \in Request, SelectSwitch(s) PROVE Frame
  BY <1>8 DEF SelectSwitch
<1>9. ASSUME NEW s \in Request, EndWithoutVerdict(s) PROVE Frame
  BY <1>9 DEF EndWithoutVerdict
<1>10. ASSUME NEW s \in Request, MarkSuccess(s) PROVE Frame
  BY <1>10 DEF MarkSuccess
<1>11. ASSUME NEW s \in Request, NEW c \in Cooldowns, MarkHttp429(s, c) PROVE Frame
  BY <1>11 DEF MarkHttp429
<1>12. ASSUME NEW s \in Request, Advance(s) PROVE Frame
  BY <1>12 DEF Advance, AdvanceIfActive, AdvanceScan, AdvanceSet
<1>13. ASSUME NEW s \in Request, NotifyDirty(s) PROVE Frame
  BY <1>13 DEF NotifyDirty
<1>14. ASSUME NEW s \in Request, DropLease(s) PROVE Frame
  BY <1>14 DEF DropLease, ReleaseProbe
<1>15. ASSUME NEW s \in Request, NotifySuccess(s) PROVE Frame
  BY <1>15 DEF NotifySuccess
<1> HIDE DEF Frame
<1> QED
  <2>1. ScanSkip(r) \/ ScanWiden(r) \/ Frame
    BY <1>1, <1>2, <1>3, <1>4, <1>5, <1>6, <1>7, <1>8, <1>9, <1>10, <1>11,
       <1>12, <1>13, <1>14, <1>15
       DEF Next, SendChat, Select, Answer
  <2> QED
    BY <2>1 DEF Frame

LEMMA CoverageStep ==
  ASSUME HistoryInv, [Next]_vars, Watch, UsableType',
         NEW r \in wide', pc'[r] = "scan", NEW o \in Key, o < offset'[r]
  PROVE  Covered(r, Ring(seen[r], o))'
<1> USE DEF HistoryInv
<1>1. pc[r] = "scan"
  <2>1. r \in Request
    BY TypeStep DEF TypeOK
  <2> QED
    BY <2>1, OnlySelectStarts DEF Key
<1>2. r \in Request /\ usable[r] \subseteq Key /\ usable'[r] \subseteq usable[r]
  <2>1. r \in Request
    BY TypeStep DEF TypeOK
  <2> QED
    BY <1>1, <2>1 DEF Watch, UsableType
<1>3. CASE ScanSkip(r)
  <2>1. seen' = seen /\ attempted' = attempted /\ r \in wide /\ offset'[r] = offset[r] + 1
    BY <1>2, <1>3 DEF ScanSkip, TypeOK
  <2>2. CASE o < offset[r]
    BY <1>1, <1>2, <2>1, <2>2 DEF ScanCoverage, Covered, Ring
  <2>3. CASE o = offset[r]
    <3>1. Skips(r, Ring(seen[r], o)) /\ r \in wide
      BY <1>3, <2>1, <2>3 DEF ScanSkip, Candidate
    <3>2. Ring(seen[r], o) \in attempted[r] \/ Ring(seen[r], o) \notin usable[r]
      BY <1>1, <1>2, <3>1 DEF Skips, UsableNow
    <3> QED
      BY <1>2, <2>1, <3>2 DEF Covered, Ring
  <2> QED
    BY <1>2, <2>1, <2>2, <2>3 DEF TypeOK, Key
<1>4. CASE ScanWiden(r)
  BY <1>2, <1>4 DEF ScanWiden, TypeOK, Key
<1>5. CASE /\ seen'[r] = seen[r] /\ offset'[r] = offset[r]
           /\ attempted'[r] = attempted[r]
           /\ r \in wide' <=> r \in wide
  BY <1>1, <1>2, <1>5 DEF ScanCoverage, Covered, Ring
<1> QED
  BY <1>1, <1>2, <1>3, <1>4, <1>5, ScanGoesOn

LEMMA HistoryStep == HistoryInv /\ [HistoryNext]_<<vars, usable>> => HistoryInv'
<1> SUFFICES ASSUME HistoryInv, [HistoryNext]_<<vars, usable>> PROVE HistoryInv'
  OBVIOUS
<1> USE DEF HistoryInv
<1>1. CASE HistoryNext
  <2>1. TypeOK' /\ Watch /\ [Next]_vars
    BY <1>1, TypeStep DEF HistoryNext
  <2>2. UsableType'
    BY <2>1 DEF Watch, UsableType
  <2>3. UsableNow'
    <3>1. ASSUME NEW r \in Request, NEW k \in usable'[r] PROVE ~(until'[k] > at'[r])
      <4>1. k \in Key /\ until'[k] <= at'[r]
        BY <2>1, <2>2, <3>1 DEF Watch, UsableType
      <4>2. until'[k] \in Nat \cup {-1} /\ at'[r] \in Nat
        BY <2>1, <3>1, <4>1 DEF TypeOK, NoDeadline
      <4> QED
        BY <4>1, <4>2
    <3> QED
      BY <3>1 DEF UsableNow, Cooling
  <2>4. ScanCoverage'
    BY <2>1, <2>2, CoverageStep DEF ScanCoverage
  <2> QED
    BY <2>1, <2>2, <2>3, <2>4
<1>2. CASE UNCHANGED <<vars, usable>>
  <2>1. TypeOK'
    BY <1>2, TypeStep
  <2> QED
    BY <1>2, <2>1 DEF vars, poolVars, localVars, scanVars, UsableType, UsableNow,
       ScanCoverage, Covered, Ring, Cooling
<1> QED
  BY <1>1, <1>2

\* select answers None only over keys the request has tried or that were cooling
\* at some moment of the select: races between its two passes and the other
\* requests never make it refuse a key it could have used all along.
THEOREM RejectsOnlyUnusable == HistorySpec => NeverRefusesUsable
<1>1. HistoryInit => HistoryInv
  BY TypeInit DEF HistoryInit, HistoryInv, UsableType, UsableNow, ScanCoverage, Init
<1>2. ASSUME HistoryInv, [Next]_vars, NEW r \in Request,
             pc[r] = "scan", pc'[r] = "idle", NEW k \in usable[r]
      PROVE  k \in attempted[r]
  <2> USE DEF HistoryInv
  <2>1. ScanReject(r)
    BY <1>2, OnlyScanRejects
  <2>2. seen[r] \in Key /\ offset[r] \in Key /\ r \in wide /\ offset[r] + 1 = KeyCount /\ k \in Key
    BY <1>2, <2>1 DEF TypeOK, ScanReject, UsableType
  <2>3. PICK o \in Key : Ring(seen[r], o) = k
    BY <2>2, RingIsOnto
  <2>4. CASE o < offset[r]
    BY <1>2, <2>2, <2>3, <2>4 DEF ScanCoverage, Covered
  <2>5. CASE o = offset[r]
    <3>1. Skips(r, k)
      BY <2>1, <2>3, <2>5 DEF ScanReject, Candidate
    <3> QED
      BY <1>2, <2>2, <3>1 DEF Skips, UsableNow
  <2> QED
    BY <2>2, <2>4, <2>5, KeyCountAssumption DEF Key
<1>3. HistoryInv /\ [HistoryNext]_<<vars, usable>> =>
        [\A r \in Request :
           pc[r] = "scan" /\ pc'[r] = "idle" => usable[r] \subseteq attempted[r]]_<<vars, usable>>
  <2> SUFFICES ASSUME HistoryInv, HistoryNext, NEW r \in Request,
                      pc[r] = "scan", pc'[r] = "idle", NEW k \in usable[r]
               PROVE  k \in attempted[r]
    OBVIOUS
  <2> QED
    BY <1>2 DEF HistoryNext
<1> QED
  BY <1>1, <1>3, HistoryStep, PTL DEF HistorySpec, NeverRefusesUsable

-----------------------------------------------------------------------------
(* Every key follows the documented life cycle                             *)

LEMMA PhaseKept ==
  ASSUME UNCHANGED <<now, until, probing>>
  PROVE  phase' = phase
BY DEF phase, PhaseOf, Cooling, HalfOpen

\* A step that touches the runtime of one key changes the phase of that key.
LEMMA PhaseOfOne ==
  ASSUME NEW k \in Key, now' = now,
         \A j \in Key \ {k} : until'[j] = until[j] /\ (j \in probing' <=> j \in probing)
  PROVE  phase' = [phase EXCEPT ![k] = PhaseOf(k)']
<1>1. \A j \in Key \ {k} : PhaseOf(j)' = PhaseOf(j)
  BY DEF PhaseOf, Cooling, HalfOpen
<1> QED
  BY <1>1 DEF phase

LEMMA PhaseValues ==
  ASSUME TypeOK, NEW k \in Key
  PROVE  /\ until[k] = NoDeadline => PhaseOf(k) = "healthy"
         /\ until[k] > now => PhaseOf(k) = "cooling"
         /\ HalfOpen(k, now) /\ k \in probing => PhaseOf(k) = "probing"
         /\ HalfOpen(k, now) /\ k \notin probing => PhaseOf(k) = "half_open"
<1>1. until[k] \in Nat \cup {-1} /\ now \in Nat
  BY DEF TypeOK, NoDeadline
<1> QED
  BY <1>1 DEF PhaseOf, Cooling, HalfOpen, NoDeadline

LEMMA PhaseTick ==
  ASSUME IInv, IInv', Tick
  PROVE  \E ks \in SUBSET Key : Lifecycle!Elapse(ks)
<1> DEFINE ks == {k \in Key : until[k] = now + 1}
<1>1. until' = until /\ probing' = probing /\ now' = now + 1
  BY DEF Tick, poolVars
<1>2. now \in Nat /\ \A k \in Key : until[k] \in Nat \cup {-1}
  BY DEF IInv, TypeOK, NoDeadline
<1>3. ASSUME NEW k \in ks PROVE PhaseOf(k) = "cooling" /\ PhaseOf(k)' = "half_open"
  <2>1. k \notin probing
    BY <1>2 DEF IInv, OnlyHalfOpenProbed, HalfOpen
  <2> QED
    BY <1>1, <1>2, <2>1 DEF PhaseOf, Cooling, HalfOpen, NoDeadline
<1>4. ASSUME NEW k \in Key \ ks PROVE PhaseOf(k)' = PhaseOf(k)
  BY <1>1, <1>2 DEF PhaseOf, Cooling, HalfOpen, NoDeadline
<1>5. phase' = [k \in Key |-> IF k \in ks THEN "half_open" ELSE phase[k]]
  BY <1>3, <1>4 DEF phase
<1>6. \A k \in ks : phase[k] = "cooling"
  BY <1>3 DEF phase
<1> QED
  BY <1>5, <1>6 DEF Lifecycle!Elapse

LEMMA PhaseStep == IInv /\ [Next]_vars => [Lifecycle!Next]_phase
<1> SUFFICES ASSUME IInv, [Next]_vars PROVE [Lifecycle!Next]_phase
  OBVIOUS
<1>a. IInv'
  BY InvStep
<1>b. TypeOK /\ TypeOK'
  BY <1>a DEF IInv
<1> USE DEF scanVars, localVars, poolVars
<1>1. CASE Tick
  BY <1>1, <1>a, PhaseTick DEF Lifecycle!Next
<1>2. ASSUME NEW r \in Request, ScanTake(r) PROVE [Lifecycle!Next]_phase
  <2>0. PICK k \in Key : k = Candidate(r)
    BY <1>b, RingIsKey DEF Candidate, TypeOK
  <2> DEFINE isProbe == HalfOpen(k, at[r]) /\ k \notin probing
  <2>1. CASE isProbe /\ probing' = probing \cup {k}
    <3>1. until' = until /\ now' = now
      BY <1>2 DEF ScanTake, Attempt
    <3>2. HalfOpen(k, now)
      BY <1>b, <2>0, <2>1 DEF IInv, CapturedInPast, HalfOpen, TypeOK, NoDeadline
    <3>3. PhaseOf(k) = "half_open" /\ PhaseOf(k)' = "probing"
      <4>1. HalfOpen(k, now)' /\ k \in probing'
        BY <2>1, <3>1, <3>2 DEF HalfOpen
      <4> QED
        BY <1>b, <2>0, <2>1, <3>2, <4>1, PhaseValues DEF PhaseOf, Cooling, HalfOpen, TypeOK, NoDeadline
    <3>4. phase' = [phase EXCEPT ![k] = "probing"]
      BY <2>0, <2>1, <3>1, <3>3, PhaseOfOne
    <3> QED
      BY <2>0, <3>3, <3>4 DEF Lifecycle!Next, Lifecycle!StartProbe, Lifecycle!Enter, phase
  <2>2. CASE probing' = probing
    BY <1>2, <2>2, PhaseKept DEF ScanTake, Attempt
  <2> QED
    BY <1>2, <2>0, <2>1, <2>2 DEF ScanTake, Attempt
<1>3. ASSUME NEW r \in Request, MarkSuccess(r) PROVE [Lifecycle!Next]_phase
  <2>0. PICK k \in Key : k = target[r]
    BY <1>b DEF TypeOK
  <2>1. now' = now
    BY <1>3, <1>b, <2>0 DEF MarkSuccess, SetCooldown, TypeOK
  <2>2. until'[k] = NoDeadline
    BY <1>3, <1>b, <2>0 DEF MarkSuccess, SetCooldown, TypeOK
  <2>3. \A j \in Key \ {k} : until'[j] = until[j] /\ (j \in probing' <=> j \in probing)
    BY <1>3, <1>b, <2>0 DEF MarkSuccess, SetCooldown, TypeOK
  <2>4. PhaseOf(k)' = "healthy"
    BY <1>b, <2>1, <2>2 DEF PhaseOf, Cooling, HalfOpen, NoDeadline, TypeOK
  <2>5. phase' = [phase EXCEPT ![k] = "healthy"]
    BY <2>1, <2>3, <2>4, PhaseOfOne
  <2> QED
    BY <2>1, <2>5 DEF Lifecycle!Next, Lifecycle!Heal, Lifecycle!Enter
<1>4. ASSUME NEW r \in Request, NEW c \in Cooldowns, MarkHttp429(r, c)
      PROVE  [Lifecycle!Next]_phase
  <2>0. PICK k \in Key : k = target[r]
    BY <1>b DEF TypeOK
  <2>1. now' = now /\ now \in Nat /\ c \in Nat
    BY <1>4, <1>b, CooldownsAssumption DEF MarkHttp429, SetCooldown, TypeOK
  <2>2. until'[k] = now + c /\ k \notin probing'
    BY <1>4, <1>b, <2>0, <2>1 DEF MarkHttp429, SetCooldown, TypeOK
  <2>3. \A j \in Key \ {k} : until'[j] = until[j] /\ (j \in probing' <=> j \in probing)
    BY <1>4, <1>b, <2>0 DEF MarkHttp429, SetCooldown, TypeOK
  <2>4. PhaseOf(k)' \in {"cooling", "half_open"}
    BY <2>1, <2>2 DEF PhaseOf, Cooling, HalfOpen, NoDeadline
  <2>5. phase' = [phase EXCEPT ![k] = PhaseOf(k)']
    BY <2>1, <2>3, PhaseOfOne
  <2> QED
    BY <2>1, <2>4, <2>5 DEF Lifecycle!Next, Lifecycle!RateLimit, Lifecycle!Enter
<1>5. ASSUME NEW r \in Request, DropLease(r) PROVE [Lifecycle!Next]_phase
  <2>0. PICK k \in Key : k = target[r]
    BY <1>b DEF TypeOK
  <2>1. now' = now /\ until' = until /\ probing' = probing \ {k}
    BY <1>5, <1>b, <2>0 DEF DropLease, ReleaseProbe, TypeOK
  <2>2. CASE k \in probing
    <3>1. HalfOpen(k, now) /\ HalfOpen(k, now)' /\ k \notin probing'
      BY <2>1, <2>2 DEF IInv, OnlyHalfOpenProbed, HalfOpen
    <3>2. PhaseOf(k) = "probing" /\ PhaseOf(k)' = "half_open"
      BY <1>b, <2>1, <2>2, <3>1, PhaseValues DEF PhaseOf, Cooling, HalfOpen, TypeOK, NoDeadline
    <3>3. phase' = [phase EXCEPT ![k] = "half_open"]
      BY <2>1, <3>2, PhaseOfOne
    <3> QED
      BY <2>1, <3>2, <3>3 DEF Lifecycle!Next, Lifecycle!ReleaseProbe, Lifecycle!Enter, phase
  <2>3. CASE k \notin probing
    <3>1. probing' = probing
      BY <2>1, <2>3
    <3> QED
      BY <2>1, <3>1, PhaseKept
  <2> QED
    BY <2>2, <2>3
<1>6. ASSUME NEW r \in Request,
             \/ Arrive(r) \/ SelectStart(r) \/ ScanSkip(r) \/ ScanWiden(r)
             \/ ScanReject(r) \/ SelectSwitch(r) \/ EndWithoutVerdict(r)
             \/ AdvanceIfActive(r) \/ AdvanceScan(r) \/ AdvanceSet(r) \/ NotifyDirty(r)
             \/ NotifySuccess(r)
      PROVE  [Lifecycle!Next]_phase
  <2>1. UNCHANGED <<now, until, probing>>
    BY <1>6 DEF Arrive, SelectStart, ScanSkip, ScanWiden, ScanReject, SelectSwitch,
         EndWithoutVerdict, AdvanceIfActive, AdvanceScan, AdvanceSet, NotifyDirty,
         NotifySuccess
  <2> QED
    BY <2>1, PhaseKept
<1>7. CASE UNCHANGED vars
  BY <1>7, PhaseKept DEF vars
<1> QED
  BY <1>1, <1>2, <1>3, <1>4, <1>5, <1>6, <1>7
     DEF Next, SendChat, Select, Answer, Advance

\* However many requests race, a key only ever moves along the life cycle that
\* KeyPhase documents: the detailed pool implements it.
THEOREM KeysFollowLifecycle == Spec => FollowsLifecycle
<1>1. Init => Lifecycle!Init
  BY TypeInit, PhaseValues DEF Init, Lifecycle!Init, phase
<1> QED
  BY <1>1, PhaseStep, Invariant, PTL DEF Spec, FollowsLifecycle, Lifecycle!Spec

-----------------------------------------------------------------------------
(* One request at a time                                                   *)

Rejected(k) == until[k] # NoDeadline

\* Where a request stands that has learned something of the keys it has tried.
Between == {"select", "scan", "advance", "candidates", "promote", "notify", "dropRetry"}

\* A request that is alone keeps what it has found: the keys it was refused by
\* stay refused, and the active key is the one it began with.
AloneInv(r) ==
  /\ pc[r] = "idle" => attempted[r] = {}
  /\ pc[r] \in Between => \A k \in attempted[r] : Rejected(k)
  /\ pc[r] \in {"switch", "send"} => \A k \in attempted[r] \ {target[r]} : Rejected(k)
  /\ pc[r] \in {"scan", "switch"} => seen[r] = active
  /\ pc[r] = "scan" /\ (offset[r] # 0 \/ r \in wide) => Rejected(active)
  /\ pc[r] = "switch" => Rejected(active) /\ ~Cooling(target[r], now)
  /\ pc[r] \in {"advance", "candidates", "promote"} => Rejected(target[r])
  /\ pc[r] \in {"candidates", "promote"} => target[r] = active
  /\ pc[r] = "promote" => ~Cooling(Successor(r), now)

LEMMA RingStarts ==
  ASSUME NEW k \in Key
  PROVE  Ring(k, 0) = k
<1>1. KeyCount \in Nat \ {0} /\ k \in 0 .. KeyCount - 1
  BY KeyCountAssumption DEF Key
<1> QED
  BY <1>1 DEF Ring

LEMMA AloneStep ==
  ASSUME NEW r \in Request, Request = {r}, IInv, AloneInv(r), [Next]_vars
  PROVE  AloneInv(r)'
<1>1. /\ until \in [Key -> Nat \cup {NoDeadline}] /\ active \in Key /\ now \in Nat
      /\ pc \in [Request -> PC] /\ attempted \in [Request -> SUBSET Key]
      /\ seen \in [Request -> Key] /\ at \in [Request -> Nat] /\ offset \in [Request -> Key]
      /\ target \in [Request -> Key] /\ at[r] <= now
      /\ Candidate(r) \in Key /\ Successor(r) \in Key
  BY RingIsKey DEF IInv, TypeOK, CapturedInPast, Candidate, Successor
<1> USE DEF scanVars, localVars, poolVars
<1>2. CASE Tick
  <2>1. /\ until' = until /\ pc' = pc /\ attempted' = attempted /\ target' = target
        /\ seen' = seen /\ active' = active /\ offset' = offset /\ wide' = wide
        /\ now' = now + 1
    BY <1>2 DEF Tick
  <2>2. \A k \in Key : ~Cooling(k, now) => ~Cooling(k, now')
    BY <1>1, <2>1 DEF Cooling, NoDeadline
  <2>3. Successor(r)' = Successor(r)
    BY <2>1 DEF Successor
  <2> QED
    BY <1>1, <2>1, <2>2, <2>3 DEF AloneInv, Rejected, Cooling
<1>3. CASE Arrive(r)
  BY <1>1, <1>3 DEF Arrive, Goto, AloneInv, Between
<1>4. CASE SelectStart(r)
  BY <1>1, <1>4 DEF SelectStart, Goto, AloneInv, Between, Rejected
<1>5. CASE ScanSkip(r) \/ ScanWiden(r)
  <2>1. pc[r] = "scan" /\ Skips(r, Candidate(r))
    BY <1>5 DEF ScanSkip, ScanWiden
  <2>2. Rejected(active)
    <3>1. CASE offset[r] = 0
      <4>1. Candidate(r) = active
        BY <1>1, <2>1, <3>1, RingStarts DEF Candidate, AloneInv
      <4> QED
        BY <1>1, <2>1, <4>1 DEF Skips, Cooling, HalfOpen, AloneInv, Between, Rejected, NoDeadline
    <3> QED
      BY <2>1, <3>1 DEF AloneInv
  <2>3. /\ pc'[r] = "scan" /\ seen' = seen /\ active' = active /\ until' = until
        /\ attempted' = attempted
    BY <1>1, <1>5, <2>1 DEF ScanSkip, ScanWiden
  <2> QED
    BY <2>1, <2>2, <2>3 DEF AloneInv, Between, Rejected
<1>6. ASSUME Return(r) PROVE AloneInv(r)'
  BY <1>1, <1>6 DEF Return, Goto, AloneInv, Between
<1>7. CASE ScanReject(r)
  BY <1>6, <1>7 DEF ScanReject
<1>8. CASE ScanTake(r)
  <2> DEFINE k == Candidate(r)
  <2>1. /\ pc[r] = "scan" /\ ~Skips(r, k) /\ target'[r] = k /\ until' = until /\ now' = now
        /\ active' = active /\ attempted'[r] = attempted[r] \cup {k}
        /\ \/ k # seen[r] /\ pc'[r] = "switch" /\ seen' = seen
           \/ k = seen[r] /\ pc'[r] = "send"
    BY <1>1, <1>8 DEF ScanTake, Attempt, Goto
  <2>2. \A j \in attempted[r] : Rejected(j)
    BY <2>1 DEF AloneInv, Between
  <2>3. ~Cooling(k, now)
    BY <1>1, <2>1 DEF Skips, Cooling, NoDeadline
  <2>4. k # seen[r] => Rejected(active) /\ seen[r] = active
    <3>1. offset[r] = 0 => k = seen[r]
      BY <1>1, RingStarts DEF Candidate
    <3> QED
      BY <2>1, <3>1 DEF AloneInv
  <2> HIDE DEF k
  <2> QED
    BY <2>1, <2>2, <2>3, <2>4 DEF AloneInv, Between, Rejected, Cooling
<1>9. CASE SelectSwitch(r)
  BY <1>1, <1>9 DEF SelectSwitch, Goto, AloneInv, Between, Rejected
<1>10. ASSUME Leave(r) PROVE AloneInv(r)'
  <2>1. CASE r \in lease
    BY <1>1, <1>10, <2>1 DEF Leave, Goto, AloneInv, Between
  <2> QED
    BY <1>6, <1>10, <2>1 DEF Leave
<1>11. CASE EndWithoutVerdict(r) \/ NotifySuccess(r)
  BY <1>10, <1>11 DEF EndWithoutVerdict, NotifySuccess
<1>12. CASE MarkSuccess(r)
  BY <1>1, <1>12 DEF MarkSuccess, Goto, AloneInv, Between
<1>13. ASSUME NEW c \in Cooldowns, MarkHttp429(r, c) PROVE AloneInv(r)'
  <2>1. /\ pc[r] = "send" /\ pc'[r] = "advance" /\ attempted' = attempted /\ target' = target
        /\ until' = [until EXCEPT ![target[r]] = now + c] /\ now + c # NoDeadline
    BY <1>1, <1>13, CooldownsAssumption DEF MarkHttp429, Goto, SetCooldown, NoDeadline
  <2>2. /\ target[r] \in Key /\ until'[target[r]] # NoDeadline
        /\ \A k \in attempted[r] \ {target[r]} : k \in Key /\ until'[k] = until[k]
    BY <1>1, <2>1
  <2> QED
    BY <2>1, <2>2 DEF AloneInv, Between, Rejected
<1>14. CASE AdvanceIfActive(r)
  BY <1>1, <1>14 DEF AdvanceIfActive, Goto, AloneInv, Between, Rejected
<1>15. CASE AdvanceScan(r)
  <2>1. /\ pc[r] = "candidates" /\ pc'[r] \in {"candidates", "promote", "notify"}
        /\ until' = until /\ now' = now /\ active' = active /\ target' = target
        /\ attempted' = attempted
        /\ pc'[r] = "promote" => offset' = offset /\ EligibleForAdvance(r, Successor(r))
    BY <1>1, <1>15 DEF AdvanceScan, Goto
  <2>2. pc'[r] = "promote" => Successor(r)' = Successor(r) /\ ~Cooling(Successor(r), now)
    BY <1>1, <2>1 DEF EligibleForAdvance, Cooling, Successor, NoDeadline
  <2> QED
    BY <2>1, <2>2 DEF AloneInv, Between, Rejected, Cooling
<1>16. CASE AdvanceSet(r)
  BY <1>1, <1>16 DEF AdvanceSet, Goto, AloneInv, Between, Rejected
<1>17. CASE NotifyDirty(r)
  <2>1. CASE Leave(r)
    BY <1>10, <2>1
  <2>2. CASE ~Leave(r)
    <3>1. /\ pc[r] = "notify" /\ pc'[r] \in {"select", "dropRetry"} /\ until' = until
          /\ attempted' = attempted
      BY <1>1, <1>17, <2>2 DEF NotifyDirty, Goto
    <3> QED
      BY <3>1 DEF AloneInv, Between, Rejected
  <2> QED
    BY <2>1, <2>2
<1>18. CASE DropLease(r)
  <2>1. CASE Return(r)
    BY <1>6, <2>1
  <2>2. CASE ~Return(r)
    <3>1. /\ pc[r] = "dropRetry" /\ pc'[r] = "select" /\ until' = until
          /\ attempted' = attempted
      BY <1>1, <1>18, <2>2 DEF DropLease, Goto
    <3> QED
      BY <3>1 DEF AloneInv, Between, Rejected
  <2> QED
    BY <2>1, <2>2
<1>19. CASE UNCHANGED vars
  BY <1>19 DEF vars, AloneInv, Rejected, Cooling, Successor, Ring
<1> QED
  BY <1>2, <1>3, <1>4, <1>5, <1>7, <1>8, <1>9, <1>11, <1>12, <1>13, <1>14, <1>15, <1>16,
     <1>17, <1>18, <1>19
     DEF Next, SendChat, Select, Answer, Advance

LEMMA ActiveStep ==
  ASSUME NEW r \in Request, Request = {r}, IInv, AloneInv(r), [Next]_vars, active' # active
  PROVE  \E k \in Key : Sticky!MoveActive(k)
<1>1. /\ TypeOK /\ active \in Key /\ now \in Nat /\ Successor(r) \in Key /\ target[r] \in Key
  BY RingIsKey DEF IInv, TypeOK, Successor
<1> USE DEF scanVars, localVars, poolVars
<1>2. SelectSwitch(r) \/ AdvanceSet(r)
  <2>1. ASSUME Leave(r) \/ Return(r), UNCHANGED <<now, until, probing, active>> PROVE FALSE
    BY <2>1
  <2> QED
    BY DEF Next, vars, SendChat, Select, Answer, Advance, Tick, Arrive, SelectStart,
           ScanSkip, ScanWiden, ScanReject, ScanTake, EndWithoutVerdict, MarkSuccess,
           NotifySuccess, MarkHttp429, AdvanceIfActive, AdvanceScan, NotifyDirty, DropLease
<1>3. PICK k \in {target[r], Successor(r)} :
        /\ Rejected(active) /\ ~Cooling(k, now) /\ active' = k
        /\ UNCHANGED <<now, until, probing>>
  <2>1. CASE SelectSwitch(r)
    BY <2>1 DEF SelectSwitch, SetActive, AloneInv
  <2>2. CASE AdvanceSet(r)
    BY <2>2 DEF AdvanceSet, SetActive, AloneInv
  <2> QED
    BY <1>2, <2>1, <2>2
<1>4. phase' = phase
  BY <1>3, PhaseKept
<1>5. phase[active] # "healthy" /\ phase[k] # "cooling"
  <2>1. k \in Key /\ \A j \in Key : until[j] \in Nat \cup {NoDeadline}
    BY <1>1, <1>3 DEF TypeOK
  <2>2. PhaseOf(active) # "healthy" /\ PhaseOf(k) # "cooling"
    BY <1>1, <1>3, <2>1 DEF PhaseOf, Rejected, Cooling, HalfOpen, NoDeadline
  <2> QED
    BY <1>1, <2>1, <2>2 DEF phase
<1> QED
  BY <1>1, <1>3, <1>4, <1>5 DEF Sticky!MoveActive

LEMMA StickyStep ==
  ASSUME NEW r \in Request, Request = {r}, IInv, AloneInv(r), [Next]_vars
  PROVE  [Sticky!Next]_<<phase, active>>
<1>1. CASE active' = active
  <2>1. [Lifecycle!Next]_phase
    BY PhaseStep
  <2>2. Lifecycle!Next => Sticky!Lifecycle!Next
    BY DEF Lifecycle!Next, Lifecycle!RateLimit, Lifecycle!Heal, Lifecycle!StartProbe,
           Lifecycle!ReleaseProbe, Lifecycle!Elapse, Lifecycle!Enter,
           Sticky!Lifecycle!Next, Sticky!Lifecycle!RateLimit, Sticky!Lifecycle!Heal,
           Sticky!Lifecycle!StartProbe, Sticky!Lifecycle!ReleaseProbe,
           Sticky!Lifecycle!Elapse, Sticky!Lifecycle!Enter
  <2> QED
    BY <1>1, <2>1, <2>2 DEF Sticky!Next, Sticky!KeyStep
<1>2. CASE active' # active
  BY <1>2, ActiveStep DEF Sticky!Next
<1> QED
  BY <1>1, <1>2

\* ADR 0002 of one request at a time: the active key is left only while it is not
\* healthy, and never for a key that is cooling down, whether select moves it or
\* advance_if_active does.  (Two requests that race may break this: one that has
\* tried a healthy key steps past it and takes the active index along.)
THEOREM SticksToKeys ==
  ASSUME NEW r, Request = {r}
  PROVE  Spec => FollowsStickyRouting
<1>1. r \in Request
  OBVIOUS
<1>2. Init => Sticky!Init
  BY TypeInit, PhaseValues, ZeroIsKey
     DEF Init, Sticky!Init, Sticky!Lifecycle!Init, phase
<1>3. Init => AloneInv(r)
  BY <1>1 DEF Init, AloneInv, Between
<1>4. IInv /\ AloneInv(r) /\ [Next]_vars => AloneInv(r)'
  BY <1>1, AloneStep
<1>5. IInv /\ AloneInv(r) /\ [Next]_vars => [Sticky!Next]_<<phase, active>>
  BY <1>1, StickyStep
<1> QED
  BY <1>2, <1>3, <1>4, <1>5, Invariant, PTL DEF Spec, FollowsStickyRouting, Sticky!Spec

-----------------------------------------------------------------------------
(* The pool with its file                                                  *)

-----------------------------------------------------------------------------
(* Types                                                                   *)

LEMMA NoStateIsPersisted == NoState \in Persisted
BY ZeroIsKey DEF NoState, Persisted

LEMMA KeysAreBelow ==
  /\ KeyCount \in Nat
  /\ \A k \in Key : k \in Nat /\ k < KeyCount
  /\ \A n \in 0 .. KeyCount : n < KeyCount => n \in Key
BY KeyCountAssumption DEF Key

LEMMA RestoredIsDeadline ==
  ASSUME now \in Nat, NEW d \in Nat \cup {NoDeadline}
  PROVE  Restored(d) \in Nat \cup {NoDeadline}
BY DEF Restored, NoDeadline

LEMMA ForgetTypes ==
  ASSUME TypeOK, Forget, now' = now
  PROVE  /\ TypeOK'
         /\ process' = "down" /\ writer' = "waiting" /\ cursor' = 0
         /\ draft' = NoState /\ healthy' = TRUE
BY ZeroIsKey DEF TypeOK, Forget, PC

LEMMA PersistentTypeStep ==
  ASSUME PersistentTypeOK, [PersistentNext]_pvars
  PROVE  PersistentTypeOK'
<1> USE DEF PersistentTypeOK
<1>1. ASSUME NEW r \in Request, Serve(r) PROVE PersistentTypeOK'
  <2>1. TypeOK'
    BY <1>1, TypeStep DEF Serve, Next
  <2> QED
    BY <1>1, <2>1 DEF Serve, fileVars
<1>2. CASE Time
  <2>1. TypeOK'
    BY <1>2, TypeStep DEF Time, Next
  <2> QED
    BY <1>2, <2>1 DEF Time, fileVars
<1>3. ASSUME UNCHANGED vars PROVE TypeOK'
  BY <1>3, TypeStep
<1>4. CASE WriterWake
  BY <1>4 DEF WriterWake, TypeOK, localVars, scanVars
<1>5. CASE DebounceElapses
  BY <1>5, <1>3, KeysAreBelow DEF DebounceElapses, BeginSnapshot
<1>6. CASE SnapshotKey
  <2>1. cursor \in Key /\ cursor + 1 \in 0 .. KeyCount
    BY <1>6, KeysAreBelow DEF SnapshotKey
  <2>2. until[cursor] \in Nat \cup {NoDeadline}
    BY <2>1 DEF TypeOK
  <2>3. draft' \in Persisted
    BY <1>6, <2>1, <2>2 DEF SnapshotKey, Persisted
  <2> QED
    BY <1>6, <1>3, <2>1, <2>3 DEF SnapshotKey
<1>7. CASE SnapshotActive
  <2>1. draft' \in Persisted
    BY <1>7 DEF SnapshotActive, Persisted, TypeOK
  <2> QED
    BY <1>7, <1>3, <2>1 DEF SnapshotActive
<1>8. CASE Store
  <2>1. CASE process \in {"up", "draining"}
    <3>1. /\ UNCHANGED vars
          /\ disk' \in {draft, disk} /\ healthy' \in BOOLEAN /\ process' = process
          /\ writer' = "waiting" /\ cursor' = 0 /\ draft' = NoState
      BY <1>8, <2>1 DEF Store
    <3>2. TypeOK'
      BY <3>1, <1>3
    <3> QED
      BY <3>1, <3>2, NoStateIsPersisted, KeysAreBelow
  <2>2. CASE process \notin {"up", "draining"}
    <3>1. Forget /\ now' = now /\ disk' \in {draft, disk}
      BY <1>8, <2>2 DEF Store
    <3> QED
      BY <3>1, ForgetTypes, NoStateIsPersisted, KeysAreBelow
  <2> QED
    BY <2>1, <2>2
<1>9. CASE ShutdownSignal
  BY <1>9, <1>3 DEF ShutdownSignal
<1>10. CASE FinalFlush
  BY <1>10, <1>3, KeysAreBelow DEF FinalFlush, BeginSnapshot
<1>11. CASE Crash
  BY <1>11, ForgetTypes, NoStateIsPersisted, KeysAreBelow DEF Crash
<1>12. CASE Restart
  <2>1. \A k \in Key : Restored(disk.until[k]) \in Nat \cup {NoDeadline}
    BY RestoredIsDeadline DEF Persisted, TypeOK
  <2>2. until' \in [Key -> Nat \cup {NoDeadline}] /\ active' \in Key
    BY <1>12, <2>1 DEF Restart, Persisted
  <2>3. TypeOK'
    BY <1>12, <2>2 DEF Restart, TypeOK, localVars, scanVars
  <2> QED
    BY <1>12, <2>3 DEF Restart
<1>13. CASE UNCHANGED pvars
  BY <1>13, <1>3 DEF pvars, fileVars
<1> QED
  BY <1>1, <1>2, <1>4, <1>5, <1>6, <1>7, <1>8, <1>9, <1>10, <1>11, <1>12, <1>13
     DEF PersistentNext, WriterTask

-----------------------------------------------------------------------------
(* What the writer owes to a key                                           *)

\* A verdict on k waits for the writer: it is signalled, or a request is between
\* its write to the key and its signal.
Owing == {"advance", "candidates", "promote", "notify", "notifySuccess"}
Owed(k) == dirty \/ \E r \in Request : pc[r] \in Owing /\ target[r] = k

\* A step of a request changes a deadline only together with a debt, and no
\* debt is forgotten on the way to the signal.
LEMMA RequestOwes ==
  ASSUME TypeOK, NEW r \in Request, Arrive(r) \/ SendChat(r), NEW k \in Key
  PROVE  /\ now' = now
         /\ Owed(k) => Owed(k)'
         /\ until'[k] = until[k] \/ Owed(k)'
<1> USE DEF TypeOK, PC, Owing, Owed, Goto, ForgetScan, scanVars, localVars, poolVars
<1> DEFINE Goal == /\ now' = now
                   /\ Owed(k) => Owed(k)'
                   /\ until'[k] = until[k] \/ Owed(k)'
<1>1. CASE Arrive(r)
  BY <1>1 DEF Arrive
<1>2. CASE SelectStart(r)
  BY <1>2 DEF SelectStart
<1>3. CASE ScanSkip(r)
  BY <1>3 DEF ScanSkip
<1>4. CASE ScanWiden(r)
  BY <1>4 DEF ScanWiden
<1>5. CASE ScanReject(r)
  BY <1>5 DEF ScanReject, Return
<1>6. CASE ScanTake(r)
  BY <1>6 DEF ScanTake, Attempt
<1>7. CASE SelectSwitch(r)
  BY <1>7 DEF SelectSwitch
<1>8. CASE EndWithoutVerdict(r)
  BY <1>8 DEF EndWithoutVerdict, Leave, Return
<1>9. CASE MarkSuccess(r)
  BY <1>9 DEF MarkSuccess, SetCooldown
<1>10. CASE NotifySuccess(r)
  BY <1>10 DEF NotifySuccess
<1>11. ASSUME NEW c \in Cooldowns, MarkHttp429(r, c)
       PROVE  Goal
  BY <1>11 DEF MarkHttp429, SetCooldown
<1>12. CASE AdvanceIfActive(r)
  BY <1>12 DEF AdvanceIfActive
<1>13. CASE AdvanceScan(r)
  BY <1>13 DEF AdvanceScan
<1>14. CASE AdvanceSet(r)
  BY <1>14 DEF AdvanceSet
<1>15. CASE NotifyDirty(r)
  BY <1>15 DEF NotifyDirty
<1>16. CASE DropLease(r)
  BY <1>16 DEF DropLease, Return
<1> QED
  BY <1>1, <1>2, <1>3, <1>4, <1>5, <1>6, <1>7, <1>8, <1>9, <1>10, <1>11,
     <1>12, <1>13, <1>14, <1>15, <1>16
     DEF SendChat, Select, Answer, Advance

\* Deadlines that mean the same go on to mean the same.
LEMMA SameLater ==
  ASSUME now \in Nat, now' = now \/ now' = now + 1,
         NEW d \in Nat \cup {NoDeadline}, NEW e \in Nat \cup {NoDeadline},
         Restored(d) = Restored(e)
  PROVE  SameCooldown(d, e)'
BY DEF Restored, SameCooldown, NoDeadline

-----------------------------------------------------------------------------
(* The inductive invariant                                                 *)

\* What has been written for k, by the writer or into the file, is what memory
\* says of it, unless the writer has been told to come back or is about to.
Recorded(k) ==
  /\ writer = "waiting" /\ healthy => SameCooldown(disk.until[k], until[k])
  /\ writer = "snapshot" /\ k < cursor => SameCooldown(draft.until[k], until[k])
  /\ writer = "store" => SameCooldown(draft.until[k], until[k])

FileFollows ==
  IF process = "down" THEN writer = "waiting"
  ELSE \A k \in Key : Owed(k) \/ Recorded(k)

FileInv == PersistentTypeOK /\ FileFollows

LEMMA FileStarts == PersistentInit => FileInv
<1> SUFFICES ASSUME PersistentInit PROVE FileInv
  OBVIOUS
<1>1. PersistentTypeOK
  BY TypeInit, NoStateIsPersisted, KeysAreBelow DEF PersistentInit, PersistentTypeOK
<1>2. FileFollows
  BY DEF PersistentInit, Init, NoState, FileFollows, Recorded, SameCooldown
<1> QED
  BY <1>1, <1>2 DEF FileInv

\* The deadlines that are compared are deadlines.
LEMMA Deadlines ==
  ASSUME PersistentTypeOK, NEW k \in Key
  PROVE  /\ now \in Nat
         /\ until[k] \in Nat \cup {NoDeadline}
         /\ disk.until[k] \in Nat \cup {NoDeadline}
         /\ draft.until[k] \in Nat \cup {NoDeadline}
BY DEF PersistentTypeOK, TypeOK, Persisted

\* A step that leaves the writer and the file alone keeps what is recorded, if
\* it changes no deadline.
LEMMA RecordedIsKept ==
  ASSUME PersistentTypeOK, UNCHANGED <<writer, cursor, draft, disk, healthy>>,
         now' = now \/ now' = now + 1,
         NEW k \in Key, until'[k] = until[k], Recorded(k)
  PROVE  Recorded(k)'
<1>1. \A d \in Nat \cup {NoDeadline} :
        SameCooldown(d, until[k]) => SameCooldown(d, until[k])'
  <2>1. SUFFICES ASSUME NEW d \in Nat \cup {NoDeadline}, SameCooldown(d, until[k])
                 PROVE  Restored(d)' = Restored(until[k])'
    BY DEF SameCooldown
  <2> QED
    BY <2>1, Deadlines DEF SameCooldown, Restored, NoDeadline
<1> QED
  BY <1>1, Deadlines DEF Recorded, SameCooldown, Restored

LEMMA PoolUntouched ==
  ASSUME UNCHANGED vars
  PROVE  /\ UNCHANGED <<now, until, active, dirty, pc, target>>
         /\ \A k \in Key : Owed(k) => Owed(k)'
BY DEF vars, poolVars, localVars, Owed

LEMMA FileKeeps ==
  ASSUME FileInv, [PersistentNext]_pvars
  PROVE  FileInv'
<1>0. PersistentTypeOK /\ PersistentTypeOK'
  BY PersistentTypeStep DEF FileInv
<1>a. FileFollows
  BY DEF FileInv
<1> SUFFICES FileFollows'
  BY <1>0 DEF FileInv
<1>1. ASSUME NEW r \in Request, Serve(r)
      PROVE  FileFollows'
  <2>1. UNCHANGED fileVars /\ process # "down"
    BY <1>1 DEF Serve, Serving
  <2>2. Arrive(r) \/ SendChat(r)
    BY <1>1 DEF Serve
  <2>3. \A k \in Key : Owed(k)' \/ Recorded(k)'
    <3> SUFFICES ASSUME NEW k \in Key, ~Owed(k)'
                 PROVE  Recorded(k)'
      OBVIOUS
    <3>1. now' = now /\ ~Owed(k) /\ until'[k] = until[k]
      BY <1>0, <2>2, RequestOwes DEF PersistentTypeOK
    <3>2. Recorded(k)
      BY <1>a, <2>1, <3>1 DEF FileFollows
    <3> QED
      BY <1>0, <2>1, <3>1, <3>2, RecordedIsKept DEF fileVars
  <2> QED
    BY <2>1, <2>3 DEF FileFollows, fileVars
<1>2. CASE Time
  <2>1. UNCHANGED fileVars /\ UNCHANGED <<until, active, dirty, pc, target>> /\ now' = now + 1
    BY <1>2 DEF Time, Tick, poolVars, localVars
  <2>2. \A k \in Key : (Owed(k) <=> Owed(k)') /\ (Recorded(k) => Recorded(k)')
    BY <1>0, <2>1, RecordedIsKept DEF fileVars, Owed
  <2> QED
    BY <1>a, <2>1, <2>2 DEF FileFollows, fileVars
<1>3. CASE WriterWake
  <2>1. process' = process /\ process \in {"up", "draining"} /\ writer' = "debounce"
    BY <1>3 DEF WriterWake
  <2> QED
    BY <2>1 DEF FileFollows, Recorded
<1>b. \A k \in Key : ~(k < 0)
  BY KeysAreBelow
<1>4. CASE DebounceElapses
  <2>1. /\ process' = process /\ process \in {"up", "draining"}
        /\ writer' = "snapshot" /\ cursor' = 0
    BY <1>4 DEF DebounceElapses, BeginSnapshot
  <2> QED
    BY <2>1, <1>b DEF FileFollows, Recorded
<1>5. CASE SnapshotKey
  <2>1. cursor \in Key /\ cursor' = cursor + 1 /\ writer = "snapshot" /\ writer' = writer
        /\ UNCHANGED vars /\ process' = process
    BY <1>0, <1>5, KeysAreBelow DEF SnapshotKey, PersistentTypeOK
  <2>0. /\ UNCHANGED <<now, until, active, dirty, pc, target>>
        /\ \A k \in Key : Owed(k) => Owed(k)'
    BY <2>1, PoolUntouched
  <2>2. \A k \in Key : draft'.until[k] = IF k = cursor THEN until[k] ELSE draft.until[k]
    BY <1>0, <1>5, <2>1 DEF SnapshotKey, PersistentTypeOK, Persisted
  <2>3. \A k \in Key : k < cursor' => k = cursor \/ k < cursor
    BY <2>1, KeysAreBelow
  <2>4. ASSUME NEW k \in Key, Recorded(k)
        PROVE  Recorded(k)'
    <3>1. SUFFICES ASSUME k < cursor'
                   PROVE  SameCooldown(draft.until[k], until[k])'
      BY <2>1 DEF Recorded
    <3>2. CASE k = cursor
      BY <2>0, <2>2, <3>2 DEF SameCooldown
    <3>3. CASE k # cursor
      <4>1. SameCooldown(draft.until[k], until[k]) /\ draft'.until[k] = draft.until[k]
        BY <2>1, <2>2, <2>3, <2>4, <3>1, <3>3 DEF Recorded
      <4> QED
        BY <2>0, <4>1 DEF SameCooldown, Restored
    <3> QED
      BY <3>2, <3>3
  <2>5. FileFollows'
    BY <1>a, <2>0, <2>1, <2>4 DEF FileFollows
  <2> QED
    BY <2>5
<1>6. CASE SnapshotActive
  <2>1. /\ UNCHANGED vars /\ process' = process
        /\ writer = "snapshot" /\ cursor = KeyCount /\ writer' = "store"
        /\ draft' = [draft EXCEPT !.active = active]
    BY <1>6 DEF SnapshotActive
  <2>2. draft' = [until |-> draft.until, active |-> active]
    BY <1>0, <2>1 DEF PersistentTypeOK, Persisted
  <2>0. /\ UNCHANGED <<now, until, active, dirty, pc, target>>
        /\ \A k \in Key : Owed(k) => Owed(k)'
    BY <2>1, PoolUntouched
  <2>6. ASSUME NEW k \in Key, Recorded(k)
        PROVE  Recorded(k)'
    <3>1. SameCooldown(draft.until[k], until[k]) /\ draft'.until[k] = draft.until[k]
      BY <2>1, <2>2, <2>6, KeysAreBelow DEF Recorded
    <3>2. SameCooldown(draft.until[k], until[k])'
      BY <2>0, <3>1 DEF SameCooldown, Restored
    <3> QED
      BY <2>1, <3>2 DEF Recorded
  <2>3. FileFollows'
    BY <1>a, <2>0, <2>1, <2>6 DEF FileFollows
  <2> QED
    BY <2>3
<1>7. CASE Store
  <2>1. CASE process \in {"up", "draining"}
    <3>1. /\ UNCHANGED vars /\ process' = process
          /\ writer = "store" /\ writer' = "waiting"
          /\ healthy' => disk' = draft
      BY <1>7, <2>1 DEF Store
    <3>2. /\ UNCHANGED <<now, until, active, dirty, pc, target>>
          /\ \A k \in Key : Owed(k) => Owed(k)'
      BY <3>1, PoolUntouched
    <3>3. ASSUME NEW k \in Key, Recorded(k)
          PROVE  Recorded(k)'
      <4>1. SameCooldown(draft.until[k], until[k])
        BY <3>1, <3>3 DEF Recorded
      <4>2. healthy' => SameCooldown(disk.until[k], until[k])'
        BY <3>1, <3>2, <4>1 DEF SameCooldown, Restored
      <4> QED
        BY <3>1, <4>2 DEF Recorded
    <3> QED
      BY <1>a, <2>1, <3>1, <3>2, <3>3 DEF FileFollows
  <2>2. CASE process \notin {"up", "draining"}
    BY <1>7, <2>2 DEF Store, Forget, FileFollows
  <2> QED
    BY <2>1, <2>2
<1>8. CASE ShutdownSignal
  <2>1. /\ UNCHANGED vars /\ UNCHANGED <<writer, cursor, draft, disk, healthy>>
        /\ process = "up" /\ process' = "draining"
    BY <1>8 DEF ShutdownSignal
  <2>2. /\ UNCHANGED <<now, until, active, dirty, pc, target>>
        /\ \A k \in Key : Owed(k) => Owed(k)'
    BY <2>1, PoolUntouched
  <2>3. \A k \in Key : Recorded(k) => Recorded(k)'
    BY <1>0, <2>1, <2>2, RecordedIsKept
  <2> QED
    BY <1>a, <2>1, <2>2, <2>3 DEF FileFollows
<1>9. CASE FinalFlush
  <2>1. writer' = "snapshot" /\ cursor' = 0 /\ process' = "flushing"
    BY <1>9 DEF FinalFlush, BeginSnapshot
  <2> QED
    BY <2>1, <1>b DEF FileFollows, Recorded
<1>10. CASE Crash
  BY <1>10 DEF Crash, Forget, FileFollows
<1>11. CASE Restart
  <2>1. /\ process = "down" /\ process' = "up" /\ writer = "waiting"
        /\ UNCHANGED <<now, writer, cursor, draft, disk, healthy>>
        /\ \A k \in Key : until'[k] = Restored(disk.until[k])
    BY <1>11, <1>a DEF Restart, FileFollows
  <2>2. ASSUME NEW k \in Key PROVE SameCooldown(disk.until[k], until[k])'
    BY <1>0, <2>1, Deadlines DEF SameCooldown, Restored, NoDeadline
  <2> QED
    BY <2>1, <2>2 DEF FileFollows, Recorded
<1>12. CASE UNCHANGED pvars
  <2>1. UNCHANGED vars /\ UNCHANGED <<process, writer, cursor, draft, disk, healthy>>
    BY <1>12 DEF pvars, fileVars
  <2>2. /\ UNCHANGED <<now, until, active, dirty, pc, target>>
        /\ \A k \in Key : Owed(k) => Owed(k)'
    BY <2>1, PoolUntouched
  <2>3. \A k \in Key : Recorded(k) => Recorded(k)'
    BY <1>0, <2>1, <2>2, RecordedIsKept
  <2> QED
    BY <1>a, <2>1, <2>2, <2>3 DEF FileFollows
<1> QED
  BY <1>1, <1>2, <1>3, <1>4, <1>5, <1>6, <1>7, <1>8, <1>9, <1>10, <1>11, <1>12
     DEF PersistentNext, WriterTask

LEMMA FileAlways == PersistentSpec => []FileInv
<1>1. FileInv /\ [PersistentNext]_pvars => FileInv'
  BY FileKeeps
<1> QED
  BY FileStarts, <1>1, PTL DEF PersistentSpec

\* The writer of src/src/server.rs loses no cooldown: whenever it sleeps with
\* nothing signalled and health good, the file says of every key what memory
\* says, over torn snapshots, failed stores, crashes and restarts.
THEOREM RestIsDurable == PersistentSpec => []PersistInv
<1>1. FileInv => PersistInv
  BY DEF FileInv, FileFollows, Recorded, Owed, Owing, Signalled, RestCostsNothing,
         PersistInv
<1> QED
  BY FileAlways, <1>1, PTL

-----------------------------------------------------------------------------
(* The final flush                                                         *)

LEMMA RecordStep ==
  ASSUME Record
  PROVE  /\ process' # "flushing" => during' = Unflushed
         /\ process' = "flushing" =>
              /\ during'.active = during.active \cup {active'}
              /\ \A k \in Key : during'.until[k] = during.until[k] \cup {until'[k]}
BY DEF Record

LEMMA DuringTypeStep ==
  ASSUME PersistentTypeOK', DuringType, Record
  PROVE  DuringType'
<1>1. until' \in [Key -> Nat \cup {NoDeadline}] /\ active' \in Key
  BY DEF PersistentTypeOK, TypeOK
<1> QED
  BY <1>1 DEF DuringType, Record, Unflushed

\* Only the final flush begins one.
LEMMA FlushBegins ==
  ASSUME [PersistentNext]_pvars, process # "flushing", process' = "flushing"
  PROVE  writer' = "snapshot" /\ cursor' = 0
<1> USE DEF fileVars
<1>1. ASSUME NEW r \in Request, Serve(r) PROVE FALSE
  BY <1>1 DEF Serve
<1>2. CASE FinalFlush
  BY <1>2 DEF FinalFlush, BeginSnapshot
<1> QED
  BY <1>1, <1>2 DEF PersistentNext, WriterTask, Time, WriterWake, DebounceElapses,
     SnapshotKey, SnapshotActive, Store, Forget, ShutdownSignal, Crash, Restart, pvars

\* What a step within the flush does with the draft.
LEMMA FlushGoesOn ==
  ASSUME [PersistentNext]_pvars, PersistentTypeOK, process = "flushing", process' = "flushing",
         writer \in {"snapshot", "store"}
  PROVE  \/ UNCHANGED <<writer, cursor, draft>>
         \/ /\ writer = "snapshot" /\ UNCHANGED <<writer, until, active>>
            /\ cursor \in Key /\ cursor' = cursor + 1
            /\ \A k \in Key : draft'.until[k] = IF k = cursor THEN until[k] ELSE draft.until[k]
         \/ /\ writer = "snapshot" /\ cursor = KeyCount /\ writer' = "store"
            /\ UNCHANGED <<until, active>>
            /\ draft'.until = draft.until /\ draft'.active = active
<1> USE DEF fileVars
<1>1. ASSUME NEW r \in Request, Serve(r) PROVE UNCHANGED <<writer, cursor, draft>>
  BY <1>1 DEF Serve
<1>2. CASE SnapshotKey
  <2>1. cursor \in Key
    BY <1>2, KeysAreBelow DEF SnapshotKey, PersistentTypeOK
  <2>2. UNCHANGED <<until, active>>
    BY <1>2 DEF SnapshotKey, vars, poolVars
  <2>3. \A k \in Key : draft'.until[k] = IF k = cursor THEN until[k] ELSE draft.until[k]
    BY <1>2, <2>1 DEF SnapshotKey, PersistentTypeOK, Persisted
  <2> QED
    BY <1>2, <2>1, <2>2, <2>3 DEF SnapshotKey
<1>3. CASE SnapshotActive
  <2>1. UNCHANGED <<until, active>>
    BY <1>3 DEF SnapshotActive, vars, poolVars
  <2>2. draft'.until = draft.until /\ draft'.active = active
    BY <1>3 DEF SnapshotActive, PersistentTypeOK, Persisted
  <2> QED
    BY <1>3, <2>1, <2>2 DEF SnapshotActive
<1>4. ASSUME Store PROVE FALSE
  BY <1>4 DEF Store, Forget
<1>5. CASE Time \/ UNCHANGED pvars
  BY <1>5 DEF Time, pvars
<1> QED
  BY <1>1, <1>2, <1>3, <1>4, <1>5 DEF PersistentNext, WriterTask, WriterWake, DebounceElapses,
     ShutdownSignal, FinalFlush, Crash, Forget, Restart

\* The draft holds nothing that was not there during the flush.
LEMMA DraftStep ==
  ASSUME PersistentTypeOK, DraftIsCurrent, [FlushNext]_<<pvars, during>>
  PROVE  DraftIsCurrent'
<1>1. CASE UNCHANGED <<pvars, during>>
  <2>1. UNCHANGED <<process, writer, cursor, draft, until, active, during>>
    BY <1>1 DEF pvars, fileVars, vars, poolVars
  <2> QED
    BY <2>1 DEF DraftIsCurrent
<1>2. CASE FlushNext
  <2> SUFFICES ASSUME process' = "flushing" PROVE DraftIsCurrent'
    BY DEF DraftIsCurrent
  <2>1. /\ during'.active = during.active \cup {active'}
        /\ \A k \in Key : during'.until[k] = during.until[k] \cup {until'[k]}
        /\ PersistentNext
    BY <1>2, RecordStep DEF FlushNext
  <2>2. CASE process # "flushing"
    BY <2>1, <2>2, FlushBegins, KeysAreBelow DEF DraftIsCurrent
  <2>3. CASE process = "flushing"
    <3>1. writer \in {"snapshot", "store"}
      BY <2>3 DEF DraftIsCurrent
    <3>2. CASE UNCHANGED <<writer, cursor, draft>>
      BY <2>1, <2>3, <3>2 DEF DraftIsCurrent
    <3>3. CASE /\ writer = "snapshot" /\ UNCHANGED <<writer, until, active>>
               /\ cursor \in Key /\ cursor' = cursor + 1
               /\ \A k \in Key :
                    draft'.until[k] = IF k = cursor THEN until[k] ELSE draft.until[k]
      <4>1. \A k \in Key : k < cursor' => k = cursor \/ k < cursor
        BY <3>3, KeysAreBelow
      <4>2. \A k \in Key : k < cursor' => draft'.until[k] \in during'.until[k]
        BY <2>1, <2>3, <3>3, <4>1 DEF DraftIsCurrent
      <4> QED
        BY <2>1, <3>3, <4>2 DEF DraftIsCurrent
    <3>4. CASE /\ writer = "snapshot" /\ cursor = KeyCount /\ writer' = "store"
               /\ UNCHANGED <<until, active>>
               /\ draft'.until = draft.until /\ draft'.active = active
      <4>1. \A k \in Key : draft.until[k] \in during.until[k]
        BY <2>3, <3>4, KeysAreBelow DEF DraftIsCurrent
      <4> QED
        BY <2>1, <3>4, <4>1 DEF DraftIsCurrent
    <3> QED
      BY <2>1, <2>3, <3>1, <3>2, <3>3, <3>4, FlushGoesOn
  <2> QED
    BY <2>2, <2>3
<1> QED
  BY <1>1, <1>2

LEMMA FlushAlways == FlushSpec => []FlushInv
<1>1. FlushInit => FlushInv
  <2> SUFFICES ASSUME FlushInit PROVE FlushInv
    OBVIOUS
  <2>1. PersistentTypeOK
    BY FileStarts DEF FlushInit, FileInv
  <2> QED
    BY <2>1 DEF FlushInit, PersistentInit, Unflushed, FlushInv, DuringType, DraftIsCurrent
<1>2. FlushInv /\ [FlushNext]_<<pvars, during>> => FlushInv'
  <2> SUFFICES ASSUME FlushInv, [FlushNext]_<<pvars, during>> PROVE FlushInv'
    OBVIOUS
  <2>1. PersistentTypeOK'
    BY PersistentTypeStep DEF FlushInv, FlushNext
  <2>2. DuringType'
    BY <2>1, DuringTypeStep DEF FlushInv, FlushNext, DuringType
  <2>3. DraftIsCurrent'
    BY DraftStep DEF FlushInv
  <2> QED
    BY <2>1, <2>2, <2>3 DEF FlushInv
<1> QED
  BY <1>1, <1>2, PTL DEF FlushSpec

\* Whatever requests and continuations do beside the final flush, the file it
\* leaves says of every key, and of the active one, what was so during the flush.
THEOREM FinalFlushHolds == FlushSpec => FinalFlushIsCurrent
<1>1. FlushInv /\ [FlushNext]_<<pvars, during>> =>
        [process = "flushing" /\ process' = "down" /\ disk' # disk =>
           /\ \A k \in Key : disk'.until[k] \in during.until[k]
           /\ disk'.active \in during.active]_<<pvars, during>>
  <2> SUFFICES ASSUME FlushInv, FlushNext,
                      process = "flushing", process' = "down", disk' # disk
               PROVE  /\ \A k \in Key : disk'.until[k] \in during.until[k]
                      /\ disk'.active \in during.active
    OBVIOUS
  <2>1. ASSUME NEW r \in Request, Serve(r) PROVE FALSE
    BY <2>1 DEF Serve, fileVars
  <2>2. Store
    BY <2>1 DEF FlushNext, PersistentNext, WriterTask, Time, fileVars, WriterWake,
       DebounceElapses, SnapshotKey, SnapshotActive, ShutdownSignal, FinalFlush, Crash, Restart
  <2>3. writer = "store" /\ disk' = draft
    BY <2>2 DEF Store
  <2> QED
    BY <2>3 DEF FlushInv, DraftIsCurrent
<1> QED
  BY <1>1, FlushAlways, PTL DEF FlushSpec, FinalFlushIsCurrent
===============================================================================
