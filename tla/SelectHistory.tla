---------------------------- MODULE SelectHistory ----------------------------
(***************************************************************************)
(* KeyPool with a history variable: the keys each request could have used  *)
(* at every moment since its current select began.  The history only       *)
(* watches: every step is a step of KeyPool.                               *)
(***************************************************************************)
EXTENDS KeyPool

VARIABLE usable

HistoryInit == Init /\ usable = [r \in Request |-> {}]

\* When a scan begins every key counts, afterwards those that have stayed free
\* of a cooldown running at the instant the scan goes by.
Watch ==
  usable' = [r \in Request |->
    {k \in IF pc[r] = "select" THEN Key ELSE usable[r] : until'[k] <= at'[r]}]

HistoryNext == Next /\ Watch

HistorySpec == HistoryInit /\ [][HistoryNext]_<<vars, usable>>

\* select gives up only over keys it may not use: whatever the other requests
\* do during its two passes, a key that was usable all along is never refused
\* to a request that has not tried it ("behavior is never worse than plain
\* request forwarding", the comment on KeyPool::select).
NeverRefusesUsable ==
  [][\A r \in Request :
       pc[r] = "scan" /\ pc'[r] = "idle" => usable[r] \subseteq attempted[r]]_<<vars, usable>>

-----------------------------------------------------------------------------
(* The inductive strengthening                                             *)

UsableType == usable \in [Request -> SUBSET Key]

UsableNow ==
  \A r \in Request : pc[r] = "scan" => \A k \in usable[r] : ~Cooling(k, at[r])

\* The second pass has passed over keys only that were tried or not usable.
Covered(r, k) == k \in attempted[r] \/ k \notin usable[r]
ScanCoverage ==
  \A r \in wide : pc[r] = "scan" =>
    \A o \in Key : o < offset[r] => Covered(r, Ring(seen[r], o))

HistoryInv == TypeOK /\ UsableType /\ UsableNow /\ ScanCoverage
==============================================================================
