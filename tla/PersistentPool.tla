---------------------------- MODULE PersistentPool ----------------------------
(***************************************************************************)
(* The key pool with its state file: the debounced writer task and the     *)
(* shutdown of server::run (src/src/server.rs), persisted_state and        *)
(* restore (src/src/pool.rs), load and store (src/src/state.rs), and a     *)
(* process that may crash at any moment and be started again.              *)
(*                                                                         *)
(* The wall clock and the monotonic clock advance together here: the one   *)
(* clock of KeyPool stands for both.                                       *)
(***************************************************************************)
EXTENDS KeyPool

VARIABLES
  process,   \* "up", "draining", "flushing" or "down"
  writer,    \* "waiting", "debounce", "snapshot" or "store"
  cursor,    \* the next key persisted_state reads, KeyCount when all are read
  draft,     \* the PersistedState under construction
  disk,      \* what the state file says
  healthy    \* persistence_healthy: the last store succeeded

fileVars == <<process, writer, cursor, draft, disk, healthy>>
pvars == <<vars, fileVars>>

Persisted == [until : [Key -> Nat \cup {NoDeadline}], active : Key]

\* A missing file: a pool that starts from it knows of no cooldown.
NoState == [until |-> [k \in Key |-> NoDeadline], active |-> 0]

PersistentTypeOK ==
  /\ TypeOK
  /\ process \in {"up", "draining", "flushing", "down"}
  /\ writer \in {"waiting", "debounce", "snapshot", "store"}
  /\ cursor \in 0 .. KeyCount
  /\ draft \in Persisted
  /\ disk \in Persisted
  /\ healthy \in BOOLEAN

PersistentInit ==
  /\ Init
  /\ process = "up"
  /\ writer = "waiting"
  /\ cursor = 0
  /\ draft = NoState
  /\ disk = NoState
  /\ healthy = TRUE

Serving == process # "down"

\* The listener stops with the signal, but calls of send_chat begin as long as
\* the process lives: of a handler that was accepted before, and of the pump of
\* a Responses stream, a task of its own, when it continues after a search.  So
\* keys change while the process drains, and while it flushes.
Serve(r) ==
  /\ Serving
  /\ Arrive(r) \/ SendChat(r)
  /\ UNCHANGED fileVars

Time == Tick /\ UNCHANGED fileVars

-----------------------------------------------------------------------------
(* The writer task: wait for a signal, debounce, snapshot, store            *)

WriterWake ==
  /\ process \in {"up", "draining"}
  /\ writer = "waiting"
  /\ dirty
  /\ dirty' = FALSE
  /\ writer' = "debounce"
  /\ UNCHANGED <<now, until, probing, active, pc, localVars,
                 process, cursor, draft, disk, healthy>>

\* flush_runtime_state begins; nothing in it awaits.
BeginSnapshot == writer' = "snapshot" /\ cursor' = 0

\* Mutant: every signal starts the debounce anew, but nobody takes the permit.
DebounceUntilQuiet ==
  /\ process \in {"up", "draining"}
  /\ writer = "debounce"
  /\ ~dirty
  /\ BeginSnapshot
  /\ UNCHANGED <<vars, process, draft, disk, healthy>>

DebounceElapses ==
  /\ process \in {"up", "draining"}
  /\ writer = "debounce"
  /\ BeginSnapshot
  /\ UNCHANGED <<vars, process, draft, disk, healthy>>

\* persisted_state locks one key at a time ...
SnapshotKey ==
  /\ writer = "snapshot"
  /\ cursor < KeyCount
  /\ draft' = [draft EXCEPT !.until[cursor] = until[cursor]]
  /\ cursor' = cursor + 1
  /\ UNCHANGED <<vars, process, writer, disk, healthy>>

\* Mutant: the signals that came meanwhile are taken for served.
SnapshotActiveClearingSignal ==
  /\ writer = "snapshot"
  /\ cursor = KeyCount
  /\ draft' = [draft EXCEPT !.active = active]
  /\ writer' = "store"
  /\ dirty' = FALSE
  /\ UNCHANGED <<now, until, probing, active, pc, localVars,
                 process, cursor, disk, healthy>>

\* ... and reads the active key last.
SnapshotActive ==
  /\ writer = "snapshot"
  /\ cursor = KeyCount
  /\ draft' = [draft EXCEPT !.active = active]
  /\ writer' = "store"
  /\ UNCHANGED <<vars, process, cursor, disk, healthy>>

\* What a process forgets when it ends: all but the clock and the file.
Forget ==
  /\ process' = "down"
  /\ writer' = "waiting" /\ cursor' = 0 /\ draft' = NoState /\ healthy' = TRUE
  /\ until' = [k \in Key |-> NoDeadline] /\ probing' = {} /\ active' = 0
  /\ dirty' = FALSE
  /\ pc' = [r \in Request |-> "idle"]
  /\ attempted' = [r \in Request |-> {}] /\ lease' = {} /\ wide' = {}
  /\ seen' = [r \in Request |-> 0] /\ at' = [r \in Request |-> 0]
  /\ offset' = [r \in Request |-> 0] /\ target' = [r \in Request |-> 0]

\* state::store replaces the file by a rename, or fails and leaves it alone.
\* The writer then waits for the next signal; a final flush ends the process.
Store ==
  /\ writer = "store"
  /\ \/ /\ process \in {"up", "draining"}
        /\ \/ disk' = draft /\ healthy' = TRUE
           \/ disk' = disk /\ healthy' = FALSE
        /\ writer' = "waiting" /\ cursor' = 0 /\ draft' = NoState
        /\ UNCHANGED <<vars, process>>
     \/ /\ process = "flushing"
        /\ disk' \in {draft, disk}
        /\ Forget
        /\ UNCHANGED now

-----------------------------------------------------------------------------
(* The end of a process and its beginning                                  *)

ShutdownSignal ==
  /\ process = "up"
  /\ process' = "draining"
  /\ UNCHANGED <<vars, writer, cursor, draft, disk, healthy>>

\* Mutant: the writer is not awaited, and the snapshot it has begun is the one
\* that lands last.
FinalFlushUnawaited ==
  /\ process = "draining"
  /\ process' = "flushing"
  /\ \/ writer \in {"waiting", "debounce"} /\ BeginSnapshot
     \/ writer \in {"snapshot", "store"} /\ UNCHANGED <<writer, cursor>>
  /\ UNCHANGED <<vars, draft, disk, healthy>>

\* The writer is aborted, which takes effect where it awaits, and the last
\* flush follows, whether the drain has ended or has timed out.
FinalFlush ==
  /\ process = "draining"
  /\ writer \in {"waiting", "debounce"}
  /\ process' = "flushing"
  /\ BeginSnapshot
  /\ UNCHANGED <<vars, draft, disk, healthy>>

Crash ==
  /\ Serving
  /\ Forget
  /\ UNCHANGED <<now, disk>>

\* restore: a deadline that has passed leaves its key half open.
Restored(deadline) ==
  CASE deadline = NoDeadline -> NoDeadline
    [] deadline >= now -> deadline
    [] OTHER -> now

Restart ==
  /\ process = "down"
  /\ process' = "up"
  /\ until' = [k \in Key |-> Restored(disk.until[k])]
  /\ active' = disk.active
  /\ UNCHANGED <<now, probing, dirty, pc, localVars, writer, cursor, draft, disk, healthy>>

-----------------------------------------------------------------------------
WriterTask == WriterWake \/ DebounceElapses \/ SnapshotKey \/ SnapshotActive \/ Store

PersistentNext ==
  \/ \E r \in Request : Serve(r)
  \/ Time \/ WriterTask \/ ShutdownSignal \/ FinalFlush \/ Crash \/ Restart

PersistentSpec == PersistentInit /\ [][PersistentNext]_pvars

-----------------------------------------------------------------------------
(* Properties                                                              *)

\* Two deadlines mean the same to a process that starts now.
SameCooldown(d, e) == Restored(d) = Restored(e)

\* No verdict is between its write to the key and its signal to the writer.
Signalled == \A r \in Request :
  pc[r] \notin {"advance", "candidates", "promote", "notify", "notifySuccess"}

\* Whenever the writer sleeps, nothing is signalled and health reports success,
\* a crash costs no cooldown: the file says of every key what memory says, no
\* matter which verdicts fell into the debounce or between two reads of a torn
\* snapshot.
RestCostsNothing ==
  (/\ process \in {"up", "draining"} /\ writer = "waiting" /\ ~dirty /\ healthy
   /\ Signalled)
    => \A k \in Key : SameCooldown(disk.until[k], until[k])

\* Every state is well formed, and a writer at rest owes the file nothing.
PersistInv == PersistentTypeOK /\ RestCostsNothing

\* A deadline that stays is on disk for good, if the process stays up and its
\* stores succeed: no signal is lost while the writer is busy.
CooldownsReachDisk ==
  \A k \in Key : \A d \in {NoDeadline} \cup 0 .. MaxTime :
    <>[](process = "up" /\ healthy /\ until[k] = d)
      => <>[](SameCooldown(disk.until[k], d))
=============================================================================
