------------------------------ MODULE LogWriter ------------------------------
(***************************************************************************)
(* The log of requests of src/src/obs.rs: handlers offer their records to  *)
(* a bounded queue and never wait; one thread takes them, rolls its file   *)
(* over, appends, deletes the oldest files when the directory outgrows its *)
(* quota, flushes, and reports what was dropped.  The directory outlives   *)
(* the process, which may stop at any moment and starts again.             *)
(***************************************************************************)
EXTENDS Collections, FiniteSets, SequencesExt

CONSTANTS
  Capacity,   \* QUEUE_CAPACITY
  MaxFile,    \* max_file_bytes
  MaxTotal,   \* max_total_bytes
  Target,     \* cleanup_target_bytes
  BufferSize, \* capacity of the BufWriter
  Size,       \* sizes of a record, with its newline
  Found,      \* sizes of the files found at the first start, by their number
  MaxRecords, \* bound: records ever offered
  MaxStarts   \* bound: starts of the process

\* Config::validate
ASSUME LimitsAssumption ==
  /\ {Capacity, MaxFile, MaxTotal, Target, BufferSize, MaxRecords, MaxStarts} \subseteq Nat
  /\ Size \subseteq Nat \ {0}
  /\ 0 < MaxFile /\ MaxFile <= MaxTotal /\ Target <= MaxTotal

\* A file events-NNNNNN.jsonl is its number.  0 is a *.jsonl file that somebody
\* else left there: its name sorts first and gives no number.
File == Nat
NoFile == -1

ASSUME FoundAssumption ==
  \A sizes \in Found :
    /\ IsFiniteSet(DOMAIN sizes) /\ DOMAIN sizes \subseteq File
    /\ \A f \in DOMAIN sizes : sizes[f] \in Nat

VARIABLES
  process,    \* "down", "starting", "up", or "closing" when serve has returned
  starts,     \* starts of the process so far
  offered,    \* records offered so far
  queue,      \* the channel: sizes of records
  dropped,    \* dropped
  reported,   \* last_dropped_reported
  pc,         \* the point the thread has reached
  hand,       \* the size of the record it writes
  segments,   \* segments, with the bytes it takes them to have
  total,      \* total_bytes
  active,     \* active_path, with writer
  buffer,     \* bytes in the BufWriter
  degraded,   \* degraded
  disk,       \* the directory: size and creator of its files
  stuck       \* files whose deletion has failed in this run

memory == <<queue, dropped, reported, pc, hand, segments, total, active, buffer, degraded, stuck>>
vars == <<process, starts, offered, memory, disk>>

BytesOf(segs) == SumOver([i \in 1 .. Len(segs) |-> segs[i].bytes], 1 .. Len(segs))
FilesOf(segs) == {segs[i].file : i \in 1 .. Len(segs)}

Init ==
  /\ process = "down" /\ starts = 0 /\ offered = 0
  /\ queue = <<>> /\ dropped = 0 /\ reported = 0 /\ pc = "stopped" /\ hand = 0
  /\ segments = <<>> /\ total = 0 /\ active = NoFile /\ buffer = 0 /\ degraded = FALSE
  /\ disk \in {[f \in DOMAIN sizes |-> [by |-> 0, bytes |-> sizes[f]]] : sizes \in Found}
  /\ stuck = {}

-----------------------------------------------------------------------------
(* Files                                                                   *)

\* flush, or the end of a BufWriter: what it holds, or a part of it, is written.
\* Nobody looks at the error.
Flushed(n) == IF active = NoFile THEN disk ELSE [disk EXCEPT ![active].bytes = @ + n]

\* Mutant: the newest file is opened again while it has room.
OpenUnderfilled(segs, files, run) ==
  LET last == segs[Len(segs)].file
      next == Max({0} \cup FilesOf(segs)) + 1
      file == IF segs # <<>> /\ segs[Len(segs)].bytes < MaxFile THEN last ELSE next
  IN  /\ active' = file
      /\ segments' = IF file = next THEN Append(segs, [file |-> file, bytes |-> 0]) ELSE segs
      /\ disk' = [f \in DOMAIN files \cup {file} |->
                    IF f \in DOMAIN files THEN files[f] ELSE [by |-> run, bytes |-> 0]]

\* The number after the highest one, past any that is taken.
Fresh(segs, files) ==
  LET next == Max({0} \cup FilesOf(segs)) + 1
  IN  Min({f \in next .. next + Cardinality(DOMAIN files) : f \notin DOMAIN files})

\* open_fresh_segment
OpenFresh(segs, files, run) ==
  /\ active' = Fresh(segs, files)
  /\ segments' = Append(segs, [file |-> active', bytes |-> 0])
  /\ disk' = [f \in DOMAIN files \cup {active'} |->
                IF f = active' THEN [by |-> run, bytes |-> 0] ELSE files[f]]

Sized(order, files) ==
  [i \in 1 .. Len(order) |-> [file |-> order[i], bytes |-> files[order[i]].bytes]]

OldestFirst(numbers) ==
  [i \in 1 .. Cardinality(numbers) |->
     CHOOSE f \in numbers : Cardinality({g \in numbers : g < f}) = i - 1]

\* Mutant: the files come as read_dir lists them.
ScanUnsorted(files) == Sized(Reverse(OldestFirst(DOMAIN files)), files)

\* Mutant: only files the writer could have named are counted.
ScanOwn(files) == Sized(OldestFirst(DOMAIN files \ {0}), files)

\* scan: every *.jsonl file of the directory, oldest first.
Scan(files) == Sized(OldestFirst(DOMAIN files), files)

-----------------------------------------------------------------------------
(* The process                                                             *)

\* spawn_writer.  The quota is enforced before the sink is handed out.
Start ==
  /\ process = "down" /\ starts < MaxStarts
  /\ starts' = starts + 1
  /\ OpenFresh(Scan(disk), disk, starts + 1)
  /\ total' = BytesOf(Scan(disk))
  /\ process' = "starting" /\ pc' = "cleaning"
  /\ UNCHANGED <<offered, queue, dropped, reported, hand, buffer, degraded, stuck>>

\* Memory is gone; the files stay as they are.
Gone ==
  /\ process' = "down"
  /\ queue' = <<>> /\ dropped' = 0 /\ reported' = 0 /\ pc' = "stopped" /\ hand' = 0
  /\ segments' = <<>> /\ total' = 0 /\ active' = NoFile /\ buffer' = 0
  /\ degraded' = FALSE /\ stuck' = {}
  /\ UNCHANGED <<starts, offered, disk>>

Crash == process # "down" /\ Gone

\* serve returns, and with it the last sink.
Shutdown ==
  /\ process = "up" /\ process' = "closing"
  /\ UNCHANGED <<starts, offered, memory, disk>>

\* main returns.  It has not joined the thread.
Exit == process = "closing" /\ Gone

-----------------------------------------------------------------------------
(* LogSink::emit                                                           *)

Emit ==
  /\ process = "up" /\ offered < MaxRecords
  /\ offered' = offered + 1
  /\ IF Len(queue) < Capacity
     THEN (\E size \in Size : queue' = Append(queue, size)) /\ UNCHANGED dropped
     ELSE dropped' = dropped + 1 /\ UNCHANGED queue
  /\ UNCHANGED <<process, starts, reported, pc, hand, segments, total, active, buffer,
                 degraded, disk, stuck>>

-----------------------------------------------------------------------------
(* The thread                                                              *)

Receive ==
  /\ pc = "waiting" /\ queue # <<>>
  /\ queue' = Tail(queue)
  /\ hand' = IF degraded THEN 0 ELSE Head(queue)
  /\ pc' = IF degraded THEN "flushing" ELSE "writing"
  /\ UNCHANGED <<process, starts, offered, dropped, reported, segments, total, active,
                 buffer, degraded, disk, stuck>>

\* The flush interval passes, or every sink is gone.
Timeout ==
  /\ pc = "waiting" /\ queue = <<>>
  /\ pc' = IF process = "closing" THEN "exiting" ELSE "flushing"
  /\ UNCHANGED <<process, starts, offered, queue, dropped, reported, hand, segments, total,
                 active, buffer, degraded, disk, stuck>>

ActiveFull ==
  active = NoFile \/ \E i \in 1 .. Len(segments) :
                        segments[i].file = active /\ segments[i].bytes >= MaxFile

\* rotate_if_needed: the old file is closed before the new one is opened.
Rotate ==
  /\ pc = "writing" /\ ActiveFull
  /\ \E n \in 0 .. buffer : OpenFresh(segments, Flushed(n), starts)
  /\ buffer' = 0
  /\ UNCHANGED <<process, starts, offered, queue, dropped, reported, pc, hand, total,
                 degraded, stuck>>

\* The first error ends the writing of files for good.
Degrade == degraded' = TRUE /\ hand' = 0 /\ pc' = "flushing"

RotateFails ==
  /\ pc = "writing" /\ ActiveFull
  /\ \E n \in 0 .. buffer : disk' = Flushed(n)
  /\ buffer' = 0 /\ active' = NoFile
  /\ Degrade
  /\ UNCHANGED <<process, starts, offered, queue, dropped, reported, segments, total, stuck>>

\* write_line gives the line and its newline to the buffer, which is written out
\* first if it would overflow; a line larger than the buffer goes past it.
Buffered(n) ==
  /\ IF buffer + hand <= BufferSize THEN n = 0
     ELSE buffer <= n /\ buffer + hand - n <= BufferSize
  /\ disk' = Flushed(n)
  /\ buffer' = buffer + hand - n

\* Mutant: the sum is not kept up.
WriteUncounted ==
  /\ pc = "writing" /\ ~ActiveFull
  /\ \E n \in 0 .. buffer + hand : Buffered(n)
  /\ segments' = [segments EXCEPT ![Len(segments)].bytes = @ + hand]
  /\ hand' = 0 /\ pc' = "cleaning"
  /\ UNCHANGED <<process, starts, offered, queue, dropped, reported, total, active, degraded, stuck>>

Write ==
  /\ pc = "writing" /\ ~ActiveFull
  /\ \E n \in 0 .. buffer + hand : Buffered(n)
  /\ segments' = [segments EXCEPT ![Len(segments)].bytes = @ + hand]
  /\ total' = total + hand
  /\ hand' = 0 /\ pc' = "cleaning"
  /\ UNCHANGED <<process, starts, offered, queue, dropped, reported, active, degraded, stuck>>

\* The error comes before the line is counted, of which a part may be through:
\* its newline is written by a call of its own.
WriteFails ==
  /\ pc = "writing" /\ ~ActiveFull /\ buffer + hand > BufferSize
  /\ \E part \in 0 .. hand - 1 : \E n \in 0 .. buffer + part :
       disk' = Flushed(n) /\ buffer' = buffer + part - n
  /\ Degrade
  /\ UNCHANGED <<process, starts, offered, queue, dropped, reported, segments, total, active,
                 stuck>>

\* At a start, the thread waits for its first record next.
Cleaned ==
  IF process = "starting" THEN process' = "up" /\ pc' = "waiting"
  ELSE UNCHANGED process /\ pc' = "flushing"

OverQuota == total > MaxTotal /\ segments # <<>> /\ Head(segments).file # active

\* One turn of enforce_quota.  A file that cannot be deleted is forgotten.
CleanOne ==
  /\ pc = "cleaning" /\ OverQuota
  /\ LET oldest == Head(segments)
     IN  /\ segments' = Tail(segments)
         /\ total' = total - oldest.bytes
         /\ \/ /\ disk' = [f \in DOMAIN disk \ {oldest.file} |-> disk[f]]
               /\ UNCHANGED stuck
            \/ UNCHANGED disk /\ stuck' = stuck \cup {oldest.file}
  /\ IF total' <= Target THEN Cleaned ELSE UNCHANGED <<process, pc>>
  /\ UNCHANGED <<starts, offered, queue, dropped, reported, hand, active, buffer, degraded>>

CleanDone ==
  /\ pc = "cleaning" /\ ~OverQuota
  /\ Cleaned
  /\ UNCHANGED <<starts, offered, queue, dropped, reported, hand, segments, total, active,
                 buffer, degraded, disk, stuck>>

\* After every record and every timeout, and once more at the end.
Flush ==
  /\ pc \in {"flushing", "exiting"}
  /\ \E n \in 0 .. buffer : disk' = Flushed(n) /\ buffer' = buffer - n
  /\ pc' = IF pc = "exiting" THEN "stopped" ELSE "reporting"
  /\ UNCHANGED <<process, starts, offered, queue, dropped, reported, hand, segments, total,
                 active, degraded, stuck>>

\* Mutant: a degraded writer reports nothing any more.
ReportUnlessDegraded ==
  /\ pc = "reporting" /\ pc' = "waiting"
  /\ reported' = IF dropped > reported /\ ~degraded THEN dropped ELSE reported
  /\ UNCHANGED <<process, starts, offered, queue, dropped, hand, segments, total, active,
                 buffer, degraded, disk, stuck>>

Report ==
  /\ pc = "reporting" /\ pc' = "waiting"
  /\ reported' = IF dropped > reported THEN dropped ELSE reported
  /\ UNCHANGED <<process, starts, offered, queue, dropped, hand, segments, total, active,
                 buffer, degraded, disk, stuck>>

Writer ==
  \/ Receive \/ Timeout
  \/ Rotate \/ RotateFails \/ Write \/ WriteFails
  \/ CleanOne \/ CleanDone \/ Flush \/ Report

Next == Start \/ Crash \/ Shutdown \/ Exit \/ Emit \/ Writer

\* The thread runs on, and a process that shuts down ends.
Spec == Init /\ [][Next]_vars /\ WF_vars(Writer) /\ WF_vars(Exit)

-----------------------------------------------------------------------------
(* Properties                                                              *)

TypeOK ==
  /\ process \in {"down", "starting", "up", "closing"}
  /\ starts \in 0 .. MaxStarts /\ offered \in 0 .. MaxRecords
  /\ queue \in Seq(Size) /\ Len(queue) <= Capacity
  /\ reported \in Nat /\ dropped \in Nat /\ reported <= dropped
  /\ pc \in {"stopped", "waiting", "writing", "cleaning", "flushing", "reporting", "exiting"}
  /\ hand \in Size \cup {0}
  /\ segments \in Seq([file : File, bytes : Nat])
  /\ total \in Nat /\ buffer \in Nat
  /\ active \in File \cup {NoFile} /\ degraded \in BOOLEAN
  /\ IsFiniteSet(DOMAIN disk) /\ DOMAIN disk \subseteq File
  /\ \A f \in DOMAIN disk : disk[f] \in [by : 0 .. starts, bytes : Nat]
  /\ stuck \subseteq DOMAIN disk

\* The bytes of a segment's file, and on the way to it.
Written(segment) ==
  disk[segment.file].bytes + (IF segment.file = active THEN buffer ELSE 0)

\* Retention is kept "in memory after one startup scan": through roll-overs,
\* deletions that fail, errors and restarts it stays what it stands for.  The sum
\* is that of the segments, they are the files of the directory but for those
\* that could not be deleted, and no file has more bytes than its segment, except
\* for a part of the one record that a writer has failed over.
AccountsForDirectory ==
  process # "down" =>
    /\ total = BytesOf(segments)
    /\ FilesOf(segments) = DOMAIN disk \ stuck
    /\ \A i \in 1 .. Len(segments) :
         /\ \/ Written(segments[i]) <= segments[i].bytes
            \/ /\ degraded /\ segments[i].file = active
               /\ \E size \in Size : Written(segments[i]) < segments[i].bytes + size
         /\ segments[i].file = active => i = Len(segments)

LogInv == TypeOK /\ AccountsForDirectory

\* When a record is done with, the directory keeps its quota, whatever was in it
\* at the start; only files that could not be deleted come on top, and a single
\* file may be larger.  A writer that has failed writes no more records, and
\* cleans up no more either.
QuotaKept ==
  pc = "waiting" /\ ~degraded =>
    \/ SumOver([f \in DOMAIN disk |-> disk[f].bytes], DOMAIN disk \ stuck) <= MaxTotal
    \/ Cardinality(DOMAIN disk \ stuck) = 1

\* A file changes only by growing, and only in the run of the process that has
\* created it: "existing files are never appended to or truncated".
OldFilesIntact ==
  [][\A f \in DOMAIN disk \cap DOMAIN disk' :
       disk'[f] # disk[f] =>
         /\ disk[f].by = starts
         /\ disk'[f].by = disk[f].by /\ disk'[f].bytes > disk[f].bytes]_vars

\* Only the oldest file goes, never the one that is being written, and only
\* when the quota is exceeded.
OldestGoesFirst ==
  [][\A f \in DOMAIN disk \ DOMAIN disk' :
       /\ f # active /\ total > MaxTotal
       /\ \A g \in DOMAIN disk \ stuck : f <= g]_vars

\* "The writer reports the counter periodically": every record that is dropped
\* is reported while the process lives, after an error too.
DropsReported == dropped > reported ~> (dropped = reported \/ process = "down")

\* "Oldest segments deleted to cleanup_target_percent (85%) of quota": a deletion
\* that does not reach the target is followed by another one.
CleansToTarget ==
  [][Len(segments') < Len(segments) =>
       total' <= Target \/ OverQuota' \/ Head(segments').file = active]_vars

\* The end of the process is "a bounded drain": no record is lost in it.
DrainedAtExit ==
  [][Exit => degraded \/ (queue = <<>> /\ hand = 0 /\ buffer = 0)]_vars
=============================================================================
