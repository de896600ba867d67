------------------------------ MODULE StreamWatch ------------------------------
(***************************************************************************)
(* The stall timers of one upstream stream, src/src/stream_watch.rs, and   *)
(* the select! loops that drive them: the Responses pump                   *)
(* (src/src/responses_pump.rs) and the Anthropic streams                   *)
(* (src/src/anthropic.rs).  All loops are biased, but the pump looks at    *)
(* its timer before the upstream, the others after it.                     *)
(*                                                                         *)
(* Instants appear only in differences, so each is kept as its age, and    *)
(* ages past every timeout are not told apart.                             *)
(***************************************************************************)
EXTENDS Integers, FiniteSetsExt

CONSTANTS
  FirstEvent, FirstSemantic, StreamIdle, SemanticIdle,
               \* the values each timeout may be configured to; 0 disables it
  MaxAge,      \* no age is counted beyond it
  Orders       \* the loops: those that poll the upstream before the timer
               \* (TRUE: anthropic.rs), and the one that does not (the pump)

AnyTimeout == FirstEvent \cup FirstSemantic \cup StreamIdle \cup SemanticIdle

ASSUME AgesAssumption ==
  /\ AnyTimeout \subseteq Nat /\ MaxAge \in Nat
  /\ \A t \in AnyTimeout : t < MaxAge
ASSUME OrdersAssumption == Orders \subseteq BOOLEAN

\* What a chunk brings: a part of a line, a line without progress, progress.
Chunk == {"bytes", "event", "semantic"}
Brings(c) ==
  CASE c = "semantic" -> {"event", "semantic"}
    [] c = "event" -> {"event"}
    [] c = "bytes" -> {}

StallKind == {"FirstEvent", "FirstSemantic", "StreamIdle", "SemanticIdle"}

VARIABLES
  timeouts,   \* StreamTimeouts, fixed at the start
  chunkFirst, \* the order of the branches of this loop, fixed by the code
  started, last_byte, last_semantic,  \* ages of the instants of StreamWatch
  got,                                \* got_first_event, got_first_semantic
  driver,     \* "reading", "blocked" on the client, "stalled" or "ended"
  stall,      \* the StallKind reported, or "none"
  pending,    \* the chunk that is ready to be read, or "none"
  quiet,      \* history: age of the last thing each kind of silence lacks
  made        \* history: what the upstream has produced in this round

watchVars == <<timeouts, chunkFirst, started, last_byte, last_semantic, got>>
vars == <<watchVars, driver, stall, pending, quiet, made>>

Age == 0 .. MaxAge

TypeOK ==
  /\ timeouts \in [first_event : FirstEvent, first_semantic : FirstSemantic,
                   stream_idle : StreamIdle, semantic_idle : SemanticIdle]
  /\ chunkFirst \in Orders
  /\ {started, last_byte, last_semantic} \subseteq Age
  /\ last_byte <= started /\ last_semantic <= started
  /\ got \subseteq {"event", "semantic"}
  /\ "semantic" \in got => "event" \in got
  /\ driver \in {"reading", "blocked", "stalled", "ended"}
  /\ stall \in StallKind \cup {"none"}
  /\ pending \in Chunk \cup {"none"}
  /\ quiet \in [{"bytes", "semantic"} -> Age]
  /\ made \subseteq {"event", "semantic"}

Init ==
  /\ timeouts \in [first_event : FirstEvent, first_semantic : FirstSemantic,
                   stream_idle : StreamIdle, semantic_idle : SemanticIdle]
  /\ chunkFirst \in Orders
  /\ started = 0 /\ last_byte = 0 /\ last_semantic = 0
  /\ got = {} /\ made = {}
  /\ quiet = [c \in {"bytes", "semantic"} |-> 0]
  /\ driver = "reading"
  /\ stall = "none"
  /\ pending = "none"

-----------------------------------------------------------------------------
(* StreamWatch                                                             *)

\* A timer that is not zero has run for its time.
Elapsed(timeout, age) == timeout # 0 /\ age >= timeout

\* check: the first timer that is over names the stall.
Check ==
  IF "event" \notin got /\ Elapsed(timeouts.first_event, started) THEN "FirstEvent"
  ELSE IF "semantic" \notin got /\ Elapsed(timeouts.first_semantic, started) THEN "FirstSemantic"
  ELSE IF Elapsed(timeouts.stream_idle, last_byte) THEN "StreamIdle"
  ELSE IF "semantic" \in got /\ Elapsed(timeouts.semantic_idle, last_semantic) THEN "SemanticIdle"
  ELSE "none"

\* The time left to a deadline; none when the timer is disabled.
Left(timeout, age) == IF timeout = 0 THEN {} ELSE {timeout - age}

\* Mutant: semantic silence is timed before any progress.
DeadlineOfAll ==
  Min({MaxAge} \cup Left(timeouts.stream_idle, last_byte)
        \cup (IF "event" \notin got THEN Left(timeouts.first_event, started) ELSE {})
        \cup (IF "semantic" \notin got THEN Left(timeouts.first_semantic, started) ELSE {})
        \cup Left(timeouts.semantic_idle, last_semantic))

\* next_deadline, as the time left to it.  MaxAge stands for the 365 days.
NextDeadline ==
  Min({MaxAge} \cup Left(timeouts.stream_idle, last_byte)
        \cup (IF "event" \notin got THEN Left(timeouts.first_event, started) ELSE {})
        \cup (IF "semantic" \in got
                THEN Left(timeouts.semantic_idle, last_semantic)
                ELSE Left(timeouts.first_semantic, started)))

Due == NextDeadline <= 0

-----------------------------------------------------------------------------
(* The world                                                               *)

Older(age) == IF age < MaxAge THEN age + 1 ELSE age

Tick ==
  /\ driver \in {"reading", "blocked"}
  /\ started' = Older(started)
  /\ last_byte' = Older(last_byte)
  /\ last_semantic' = Older(last_semantic)
  /\ quiet' = [c \in DOMAIN quiet |-> Older(quiet[c])]
  /\ UNCHANGED <<timeouts, chunkFirst, got, driver, stall, pending, made>>

Produce(c) ==
  /\ driver \in {"reading", "blocked"}
  /\ pending = "none"
  /\ pending' = c
  /\ quiet' = [k \in DOMAIN quiet |-> IF k \in {"bytes", c} THEN 0 ELSE quiet[k]]
  /\ made' = made \cup Brings(c)
  /\ UNCHANGED <<watchVars, driver, stall>>

-----------------------------------------------------------------------------
(* The loop                                                                *)

\* Output goes to the client, who may not be ready to take it.
Send == driver' \in {"reading", "blocked"}

ClientReads ==
  /\ driver = "blocked"
  /\ driver' = "reading"
  /\ UNCHANGED <<watchVars, stall, pending, quiet, made>>

\* on_upstream_bytes, then on_sse_event and on_semantic for what it completes
ReadChunk ==
  /\ driver = "reading" /\ pending # "none"
  /\ chunkFirst \/ ~Due
  /\ last_byte' = 0
  /\ got' = got \cup Brings(pending)
  /\ last_semantic' = IF pending = "semantic" THEN 0 ELSE last_semantic
  /\ pending' = "none"
  /\ Send
  /\ UNCHANGED <<timeouts, chunkFirst, started, stall, quiet, made>>

\* Mutant: the timer is looked at first.
TimerFiresFirst ==
  /\ driver = "reading" /\ Due
  /\ stall' = Check
  /\ driver' = IF Check = "none" THEN driver ELSE "stalled"
  /\ UNCHANGED <<watchVars, pending, quiet, made>>

\* The timer elapses.  A check that finds nothing rearms it.
TimerFires ==
  /\ driver = "reading" /\ Due
  /\ chunkFirst => pending = "none"
  /\ stall' = Check
  /\ driver' = IF Check = "none" THEN driver ELSE "stalled"
  /\ UNCHANGED <<watchVars, pending, quiet, made>>

\* Mutant: a ping counts as a sign of life.
PingRearming ==
  /\ driver = "reading"
  /\ Send
  /\ last_byte' = 0
  /\ UNCHANGED <<timeouts, chunkFirst, started, last_semantic, got, stall, pending, quiet, made>>

\* A ping to the client must not touch the watch.
Ping ==
  /\ driver = "reading"
  /\ Send
  /\ UNCHANGED <<watchVars, stall, pending, quiet, made>>

\* A search round ends: another upstream stream, and a new watch for it.
NewRound ==
  /\ driver = "reading"
  /\ started' = 0 /\ last_byte' = 0 /\ last_semantic' = 0
  /\ got' = {} /\ made' = {}
  /\ quiet' = [c \in DOMAIN quiet |-> 0]
  /\ pending' = "none"
  /\ UNCHANGED <<timeouts, chunkFirst, driver, stall>>

\* The upstream ends, or fails, or the client goes away.
EndOfStream ==
  /\ driver \in {"reading", "blocked"}
  /\ driver' = "ended"
  /\ UNCHANGED <<watchVars, stall, pending, quiet, made>>

Next ==
  \/ Tick
  \/ \E c \in Chunk : Produce(c)
  \/ ClientReads \/ ReadChunk \/ TimerFires \/ Ping \/ NewRound \/ EndOfStream

Spec == Init /\ [][Next]_vars

\* No time goes by while the loop has something to do: what is reported late is
\* late because of the client.
Waiting == driver = "blocked" \/ (pending = "none" /\ ~Due)
PromptSpec == Init /\ [][Next /\ (Tick => Waiting)]_vars

\* The loop is scheduled and time goes by.
FairSpec == Spec /\ WF_vars(Tick) /\ WF_vars(ReadChunk) /\ WF_vars(TimerFires)

-----------------------------------------------------------------------------
(* Properties                                                              *)

\* The loop sleeps to next_deadline and then calls check: they must agree in
\* every state, or the loop would spin on a deadline that has passed, or sleep
\* through a stall.
DeadlineIsExact == Due <=> Check # "none"

\* What the loop sleeps by, in every state it can be in.
WatchInv == TypeOK /\ DeadlineIsExact

\* What a stall says of the upstream is true where the upstream is polled
\* first: "no bytes", "no stream event", "no reasoning/text/tool progress" for
\* the configured time, whatever the client did to delay the loop.
StallIsReal == chunkFirst =>
  /\ stall = "FirstEvent" => "event" \notin made
  /\ stall = "FirstSemantic" => "semantic" \notin made
  /\ stall = "StreamIdle" => quiet["bytes"] >= timeouts.stream_idle
  /\ stall = "SemanticIdle" => quiet["semantic"] >= timeouts.semantic_idle

\* "upstream stream was idle (no bytes) beyond the configured limit", the
\* message of StreamIdle: bytes that came earlier, and wait to be read, are no
\* silence of the upstream.
IdleIsUpstreams ==
  stall = "StreamIdle" =>
    quiet["bytes"] = 0 \/ quiet["bytes"] >= timeouts.stream_idle

\* The loop runs for ever, is not held up by the client, and hears no more of
\* this kind.
HangsWithout(c) == <>[](driver = "reading" /\ quiet[c] > 0)

\* However many pings are sent, a stream on which nothing comes from upstream
\* any more does not hang: "local pings must never" keep a stall from being
\* seen.
SilenceEnds ==
  timeouts.stream_idle > 0 => ~HangsWithout("bytes")

\* "Semantic idle despite heartbeat bytes": neither does one on which bytes
\* and events come, but no progress, where the timer is polled first.
HeartbeatsEnd ==
  ~chunkFirst /\ timeouts.first_semantic > 0 /\ timeouts.semantic_idle > 0 => ~HangsWithout("semantic")

\* Neither silence nor heartbeats keep a stream open for ever.
NothingHangs == SilenceEnds /\ HeartbeatsEnd
===============================================================================
