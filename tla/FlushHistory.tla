----------------------------- MODULE FlushHistory -----------------------------
(***************************************************************************)
(* PersistentPool with a history variable: what each key, and the active   *)
(* index, has been since the final flush of serve (src/src/server.rs)      *)
(* began.  The history only watches: every step is a step of               *)
(* PersistentPool.                                                         *)
(***************************************************************************)
EXTENDS PersistentPool

VARIABLE during   \* empty but for the time of a final flush

Unflushed == [until |-> [k \in Key |-> {}], active |-> {}]

FlushInit == PersistentInit /\ during = Unflushed

Record ==
  during' = IF process' = "flushing"
              THEN [until |-> [k \in Key |-> during.until[k] \cup {until'[k]}],
                    active |-> during.active \cup {active'}]
              ELSE Unflushed

FlushNext == PersistentNext /\ Record

FlushSpec == FlushInit /\ [][FlushNext]_<<pvars, during>>

\* The runtime schedules the writer and the requests.  Nobody has to signal a
\* shutdown, and crashes owe nothing.
FlushFairSpec ==
  /\ FlushSpec
  /\ WF_pvars(WriterTask)
  /\ \A r \in Request : WF_pvars(SendChat(r) /\ UNCHANGED fileVars)

-----------------------------------------------------------------------------
(* Properties                                                              *)

\* "A final synchronous flush runs during graceful shutdown" (ADR 0001).
\* Requests and continuations go on beside it, so that the file need not be the
\* pool of any one moment; but what the last store says of a key, that key was
\* during the flush, and so was the active key.  A verdict given before is
\* therefore never lost, even if the writer had taken its signal and was aborted
\* in its debounce; and if nothing goes on beside the flush, the file is exact.
FinalFlushIsCurrent ==
  [][process = "flushing" /\ process' = "down" /\ disk' # disk =>
       /\ \A k \in Key : disk'.until[k] \in during.until[k]
       /\ disk'.active \in during.active]_<<pvars, during>>

-----------------------------------------------------------------------------
(* The inductive strengthening                                             *)

DuringType == during \in [until : [Key -> SUBSET (Nat \cup {NoDeadline})], active : SUBSET Key]

\* What the flush may read, and what it has read.
DraftIsCurrent ==
  process = "flushing" =>
    /\ \A k \in Key : until[k] \in during.until[k]
    /\ active \in during.active
    /\ writer \in {"snapshot", "store"}
    /\ writer = "snapshot" => \A k \in Key : k < cursor => draft.until[k] \in during.until[k]
    /\ writer = "store" => /\ \A k \in Key : draft.until[k] \in during.until[k]
                           /\ draft.active \in during.active

FlushInv == PersistentTypeOK /\ DuringType /\ DraftIsCurrent
===============================================================================
