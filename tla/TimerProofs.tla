------------------------------ MODULE TimerProofs ------------------------------
(***************************************************************************)
(* Proofs about the two components that live by a clock.                   *)
(*                                                                         *)
(* StreamWatch, for any configuration of the four timers: the deadline     *)
(* that a loop sleeps to and the check it then makes agree, and a loop     *)
(* that reads the upstream first reports no stall that is not one.         *)
(*                                                                         *)
(* ModelCatalog, for any handlers, any times to live and any clock:        *)
(* however many handlers queue, fetch and vanish, only the first of them   *)
(* fetches, and the upstream is left in peace between two fetches.         *)
(***************************************************************************)
EXTENDS StreamWatch, ModelCatalog, CollectionLemmas

-----------------------------------------------------------------------------
(* StreamWatch: the deadline                                               *)

Timeouts == [first_event : FirstEvent, first_semantic : FirstSemantic,
             stream_idle : StreamIdle, semantic_idle : SemanticIdle]

\* Every timeout is a number smaller than the largest age.
LEMMA TimeoutsAreSmall ==
  ASSUME timeouts \in Timeouts
  PROVE  /\ MaxAge \in Nat \ {0}
         /\ timeouts.first_event \in 0 .. MaxAge - 1
         /\ timeouts.first_semantic \in 0 .. MaxAge - 1
         /\ timeouts.stream_idle \in 0 .. MaxAge - 1
         /\ timeouts.semantic_idle \in 0 .. MaxAge - 1
<1>1. /\ timeouts.first_event \in AnyTimeout
      /\ timeouts.first_semantic \in AnyTimeout
      /\ timeouts.stream_idle \in AnyTimeout
      /\ timeouts.semantic_idle \in AnyTimeout
  BY DEF Timeouts, AnyTimeout
<1>2. MaxAge \in Nat /\ \A t \in AnyTimeout : t \in 0 .. MaxAge - 1
  BY AgesAssumption
<1> QED
  BY <1>1, <1>2

\* The smallest of a set of integers that has a smallest element.
LEMMA MinIsLeast ==
  ASSUME NEW S \in SUBSET Int, \E x \in S : \A y \in S : x =< y
  PROVE  Min(S) \in S /\ \A y \in S : Min(S) =< y
BY DEF Min

\* A set of a number and of at most four more has a smallest element.
LEMMA LeastExists ==
  ASSUME NEW a \in Int, NEW b \in Int, NEW c \in Int, NEW d \in Int
  PROVE  \E x \in {a, b, c, d} : \A y \in {a, b, c, d} : x =< y
<1> DEFINE ab == IF a =< b THEN a ELSE b
           cd == IF c =< d THEN c ELSE d
           m  == IF ab =< cd THEN ab ELSE cd
<1>1. m \in {a, b, c, d} /\ m =< a /\ m =< b /\ m =< c /\ m =< d
  OBVIOUS
<1> QED
  BY <1>1

\* A top element changes nothing about the least one.
LEMMA LeastUnderTop ==
  ASSUME NEW T \in SUBSET Int, NEW top \in Int, \E x \in T : \A y \in T : x =< y,
         \A y \in T : y =< top
  PROVE  /\ Min(T \cup {top}) \in T \cup {top}
         /\ \A y \in T \cup {top} : Min(T \cup {top}) =< y
<1>1. PICK x \in T : \A y \in T : x =< y
  OBVIOUS
<1>2. x \in T \cup {top} /\ \A y \in T \cup {top} : x =< y
  BY <1>1
<1>3. T \cup {top} \in SUBSET Int
  OBVIOUS
<1> QED
  BY <1>2, <1>3, MinIsLeast

\* The time left, or the largest age when the timer does not count.
LeftOr(counts, timeout, age) ==
  IF counts /\ timeout # 0 THEN timeout - age ELSE MaxAge

\* The deadline that the loop sleeps to has come if and only if a timer that
\* counts is over.
LEMMA DueIsOver ==
  ASSUME TypeOK
  PROVE  Due <=>
           \/ "event" \notin got /\ Elapsed(timeouts.first_event, started)
           \/ "semantic" \notin got /\ Elapsed(timeouts.first_semantic, started)
           \/ Elapsed(timeouts.stream_idle, last_byte)
           \/ "semantic" \in got /\ Elapsed(timeouts.semantic_idle, last_semantic)
<1>1. timeouts \in Timeouts /\ started \in Age /\ last_byte \in Age /\ last_semantic \in Age
  BY DEF TypeOK, Timeouts
<1> DEFINE hasEvent == "event" \in got
           hasSemantic == "semantic" \in got
           a == LeftOr(TRUE, timeouts.stream_idle, last_byte)
           b == LeftOr(~hasEvent, timeouts.first_event, started)
           c == LeftOr(hasSemantic, timeouts.semantic_idle, last_semantic)
           d == LeftOr(~hasSemantic, timeouts.first_semantic, started)
           S == {MaxAge} \cup Left(timeouts.stream_idle, last_byte)
                  \cup (IF ~hasEvent THEN Left(timeouts.first_event, started) ELSE {})
                  \cup (IF hasSemantic THEN Left(timeouts.semantic_idle, last_semantic)
                        ELSE Left(timeouts.first_semantic, started))
<1>2. MaxAge \in Nat \ {0} /\ a \in Int /\ b \in Int /\ c \in Int /\ d \in Int
  BY <1>1, TimeoutsAreSmall DEF LeftOr, Age
<1>3. S \cup {MaxAge} = {a, b, c, d} \cup {MaxAge} /\ S = S \cup {MaxAge}
  BY DEF LeftOr, Left
<1>4. a =< MaxAge /\ b =< MaxAge /\ c =< MaxAge /\ d =< MaxAge
  BY <1>1, TimeoutsAreSmall DEF LeftOr, Age
<1>5. \E x \in {a, b, c, d} : \A y \in {a, b, c, d} : x =< y
  <2> HIDE DEF a, b, c, d
  <2> QED
    BY <1>2, LeastExists
<1>6. S = {a, b, c, d} \cup {MaxAge}
  <2> HIDE DEF a, b, c, d
  <2>1. MaxAge \in S
    OBVIOUS
  <2> HIDE DEF S
  <2> QED
    BY <1>3, <2>1
<1>7. Min(S) <= 0 <=> a <= 0 \/ b <= 0 \/ c <= 0 \/ d <= 0
  <2> HIDE DEF S, a, b, c, d
  <2>1. {a, b, c, d} \in SUBSET Int /\ MaxAge \in Int /\ ~(MaxAge <= 0)
    BY <1>2
  <2>2. \A y \in {a, b, c, d} : y =< MaxAge
    BY <1>4
  <2>3. Min(S) \in {a, b, c, d} \cup {MaxAge}
        /\ \A y \in {a, b, c, d} \cup {MaxAge} : Min(S) =< y
    BY <1>5, <1>6, <2>1, <2>2, LeastUnderTop
  <2> QED
    BY <1>2, <2>1, <2>3
<1>8. /\ a <= 0 <=> Elapsed(timeouts.stream_idle, last_byte)
      /\ b <= 0 <=> ~hasEvent /\ Elapsed(timeouts.first_event, started)
      /\ c <= 0 <=> hasSemantic /\ Elapsed(timeouts.semantic_idle, last_semantic)
      /\ d <= 0 <=> ~hasSemantic /\ Elapsed(timeouts.first_semantic, started)
  BY <1>1, <1>2, TimeoutsAreSmall DEF LeftOr, Elapsed, Age
<1>9. Due <=> Min(S) <= 0
  BY DEF Due, NextDeadline
<1> QED
  BY <1>7, <1>8, <1>9

\* check finds a stall exactly when one of them is over.
LEMMA CheckIsOver ==
  Check # "none" <=>
    \/ "event" \notin got /\ Elapsed(timeouts.first_event, started)
    \/ "semantic" \notin got /\ Elapsed(timeouts.first_semantic, started)
    \/ Elapsed(timeouts.stream_idle, last_byte)
    \/ "semantic" \in got /\ Elapsed(timeouts.semantic_idle, last_semantic)
BY DEF Check

LEMMA TypeGivesExact == TypeOK => DeadlineIsExact
BY DueIsOver, CheckIsOver DEF DeadlineIsExact

-----------------------------------------------------------------------------
(* StreamWatch: the inductive invariant                                    *)

\* Where the upstream is polled first, the watch lags behind the upstream by the
\* chunk that waits to be read and by nothing else, and no age it keeps is larger
\* than the silence of the upstream.
KnowsUpstream ==
  chunkFirst /\ driver \in {"reading", "blocked"} =>
    /\ made = IF pending = "none" THEN got ELSE got \cup Brings(pending)
    /\ pending = "none" => last_byte <= quiet["bytes"]
    /\ pending # "semantic" => last_semantic <= quiet["semantic"]

\* A stall that was reported has ended the stream.
StallEnds == stall # "none" => driver = "stalled"

WatchIInv == TypeOK /\ KnowsUpstream /\ StallEnds /\ StallIsReal

LEMMA WatchStarts == Init => WatchIInv
<1> SUFFICES ASSUME Init PROVE WatchIInv
  OBVIOUS
<1>1. timeouts \in Timeouts
  BY DEF Init, Timeouts
<1>2. 0 \in Age
  BY <1>1, TimeoutsAreSmall DEF Age
<1> QED
  BY <1>2 DEF Init, WatchIInv, TypeOK, KnowsUpstream, StallEnds, StallIsReal, StallKind

LEMMA AgesGrow ==
  ASSUME MaxAge \in Nat
  PROVE  \A x, y \in Age : Older(x) \in Age /\ (x <= y => Older(x) <= Older(y))
BY DEF Age, Older

LEMMA CheckIsKind == Check \in StallKind \cup {"none"}
BY DEF Check, StallKind

LEMMA WatchKeeps == WatchIInv /\ [Next]_vars => WatchIInv'
<1> SUFFICES ASSUME WatchIInv, [Next]_vars PROVE WatchIInv'
  OBVIOUS
<1> USE DEF WatchIInv
<1>0. MaxAge \in Nat /\ timeouts \in Timeouts
  BY TimeoutsAreSmall DEF TypeOK, Timeouts
<1>1. CASE Tick
  <2>1. /\ started' \in Age /\ last_byte' \in Age /\ last_semantic' \in Age
        /\ last_byte' <= started' /\ last_semantic' <= started'
    BY <1>0, <1>1, AgesGrow DEF Tick, TypeOK
  <2>2. \A c \in {"bytes", "semantic"} : quiet'[c] = Older(quiet[c]) /\ quiet'[c] \in Age
    BY <1>0, <1>1, AgesGrow DEF Tick, TypeOK
  <2>3. quiet' \in [{"bytes", "semantic"} -> Age]
    BY <1>1, <2>2 DEF Tick, TypeOK
  <2>4. KnowsUpstream'
    BY <1>0, <1>1, <2>2, AgesGrow DEF Tick, TypeOK, KnowsUpstream
  <2>5. stall = "none" /\ StallIsReal' /\ StallEnds'
    BY <1>1 DEF Tick, StallEnds, StallIsReal
  <2> QED
    BY <1>1, <2>1, <2>3, <2>4, <2>5 DEF Tick, TypeOK
<1>2. ASSUME NEW c \in Chunk, Produce(c) PROVE WatchIInv'
  <2>1. 0 \in Age /\ quiet' \in [{"bytes", "semantic"} -> Age]
    BY <1>0, <1>2 DEF Produce, TypeOK, Age
  <2>2. TypeOK'
    BY <1>2, <2>1 DEF Produce, TypeOK, watchVars, Brings, Chunk
  <2>3. KnowsUpstream'
    BY <1>2 DEF Produce, TypeOK, watchVars, KnowsUpstream, Chunk
  <2>4. stall = "none" /\ StallIsReal' /\ StallEnds'
    BY <1>2 DEF Produce, watchVars, StallEnds, StallIsReal
  <2> QED
    BY <2>2, <2>3, <2>4
<1>3. CASE ClientReads
  BY <1>3 DEF ClientReads, watchVars, TypeOK, KnowsUpstream, StallEnds, StallIsReal
<1>4. CASE ReadChunk
  <2>1. TypeOK'
    BY <1>0, <1>4 DEF ReadChunk, Send, TypeOK, Brings, Chunk, Age
  <2>2. KnowsUpstream'
    <3>1. pending \in Chunk /\ last_byte' = 0 /\ pending' = "none" /\ quiet' = quiet
      BY <1>4 DEF ReadChunk, TypeOK
    <3>2. 0 <= quiet["bytes"] /\ 0 <= quiet["semantic"]
      BY DEF TypeOK, Age
    <3> QED
      BY <1>4, <3>1, <3>2 DEF ReadChunk, KnowsUpstream
  <2>3. stall = "none" /\ StallIsReal' /\ StallEnds'
    BY <1>4 DEF ReadChunk, StallEnds, StallIsReal
  <2> QED
    BY <2>1, <2>2, <2>3
<1>5. CASE TimerFires
  <2>1. TypeOK'
    BY <1>5, CheckIsKind DEF TimerFires, watchVars, TypeOK
  <2>2. KnowsUpstream'
    BY <1>5 DEF TimerFires, watchVars, KnowsUpstream
  <2>3. StallEnds'
    BY <1>5 DEF TimerFires, StallEnds
  <2>4. StallIsReal'
    <3> SUFFICES ASSUME chunkFirst PROVE StallIsReal'
      BY <1>5 DEF TimerFires, watchVars, StallIsReal
    <3>1. /\ made = got
          /\ last_byte <= quiet["bytes"]
          /\ last_semantic <= quiet["semantic"]
      BY <1>5 DEF TimerFires, KnowsUpstream
    <3>2. /\ stall' = Check /\ made' = made /\ quiet' = quiet /\ timeouts' = timeouts
      BY <1>5 DEF TimerFires, watchVars
    <3>3. /\ Check = "FirstEvent" => "event" \notin got
          /\ Check = "FirstSemantic" => "semantic" \notin got
          /\ Check = "StreamIdle" => last_byte >= timeouts.stream_idle
          /\ Check = "SemanticIdle" => last_semantic >= timeouts.semantic_idle
      BY DEF Check, Elapsed
    <3>4. /\ timeouts.stream_idle \in Nat /\ timeouts.semantic_idle \in Nat
          /\ last_byte \in Nat /\ last_semantic \in Nat
          /\ quiet["bytes"] \in Nat /\ quiet["semantic"] \in Nat
      BY <1>0, TimeoutsAreSmall DEF TypeOK, Age
    <3> QED
      BY <3>1, <3>2, <3>3, <3>4 DEF StallIsReal
  <2> QED
    BY <2>1, <2>2, <2>3, <2>4
<1>6. CASE Ping
  BY <1>6 DEF Ping, Send, watchVars, TypeOK, KnowsUpstream, StallEnds, StallIsReal
<1>7. CASE NewRound
  <2>1. 0 \in Age
    BY <1>0 DEF Age
  <2> QED
    BY <1>7, <2>1 DEF NewRound, TypeOK, KnowsUpstream, StallEnds, StallIsReal
<1>8. CASE EndOfStream
  BY <1>8 DEF EndOfStream, watchVars, TypeOK, KnowsUpstream, StallEnds, StallIsReal
<1>9. CASE UNCHANGED vars
  BY <1>9 DEF vars, watchVars, TypeOK, KnowsUpstream, StallEnds, StallIsReal, Brings
<1> QED
  BY <1>1, <1>2, <1>3, <1>4, <1>5, <1>6, <1>7, <1>8, <1>9 DEF Next

-----------------------------------------------------------------------------
(* StreamWatch: the theorems                                               *)

LEMMA WatchInvariant == Spec => []WatchIInv
<1> QED
  BY WatchStarts, WatchKeeps, PTL DEF Spec

\* WatchInv: in every state the loop can be in, the deadline it sleeps to
\* (next_deadline) has come if and only if check finds a stall, whatever the
\* timeouts are and whichever of them are disabled.
THEOREM DeadlineAgreesWithCheck == Spec => []WatchInv
<1>1. WatchIInv => WatchInv
  BY TypeGivesExact DEF WatchIInv, WatchInv
<1> QED
  BY WatchInvariant, <1>1, PTL

\* StallIsReal: a loop that polls the upstream first (anthropic.rs) never ends a
\* stream for a silence that the upstream did not keep.
THEOREM StallsAreReal == Spec => []StallIsReal
<1>1. WatchIInv => StallIsReal
  BY DEF WatchIInv
<1> QED
  BY WatchInvariant, <1>1, PTL

-----------------------------------------------------------------------------
(* ModelCatalog: what a fetch leaves                                       *)

Instants == {{}} \cup {{t} : t \in Int}

\* The pause that the history variable asks for is the one that the code
\* derives from fetched_at: an empty list counts from an instant in the past.
PauseIsKnown == rest = 0 \/ \E t \in fetched_at : rest = t + Ttl

CatalogInv == now \in Nat /\ fetched_at \in Instants /\ PauseIsKnown

LEMMA CatalogStarts == CatalogInit => CatalogInv
BY DEF CatalogInit, CatalogInv, Instants, PauseIsKnown

LEMMA KeepPauses ==
  ASSUME CatalogInv, NEW outcome, Keep(outcome)
  PROVE  fetched_at' \in Instants /\ PauseIsKnown'
<1>1. Ttl \in Nat /\ EmptyTtl \in Nat /\ now \in Nat
  BY TtlAssumption DEF CatalogInv
<1>2. CASE fetched_at' = {now} /\ rest' = now + Ttl
  BY <1>1, <1>2 DEF Instants, PauseIsKnown
<1>3. CASE fetched_at' = {now - (Ttl - EmptyTtl)} /\ rest' = now + EmptyTtl
  <2>1. now - (Ttl - EmptyTtl) \in Int /\ rest' = (now - (Ttl - EmptyTtl)) + Ttl
    BY <1>1, <1>3
  <2> QED
    BY <1>3, <2>1 DEF Instants, PauseIsKnown
<1> QED
  BY <1>2, <1>3 DEF Keep

LEMMA CatalogKeeps == CatalogInv /\ [CatalogNext]_catalogVars => CatalogInv'
<1> SUFFICES ASSUME CatalogInv, [CatalogNext]_catalogVars
             PROVE  CatalogInv'
  OBVIOUS
<1>1. CASE ClockTicks
  BY <1>1, TtlAssumption DEF ClockTicks, CatalogInv, PauseIsKnown
<1>2. ASSUME NEW c \in Caller, Arrive(c) \/ ServeCached(c) \/ StartFetch(c) \/ Disconnect(c)
      PROVE  CatalogInv'
  BY <1>2 DEF Arrive, ServeCached, StartFetch, Disconnect, CatalogInv, PauseIsKnown
<1>3. ASSUME NEW c \in Caller, EndFetch(c)
      PROVE  CatalogInv'
  BY <1>3, KeepPauses DEF EndFetch, CatalogInv
<1>4. CASE UNCHANGED catalogVars
  BY <1>4 DEF catalogVars, CatalogInv, PauseIsKnown
<1> QED
  BY <1>1, <1>2, <1>3, <1>4 DEF CatalogNext, Handle

-----------------------------------------------------------------------------
(* ModelCatalog: the lock                                                  *)

LEMMA TypeStarts == CatalogInit => CatalogTypeOK
<1> SUFFICES ASSUME CatalogInit PROVE CatalogTypeOK
  OBVIOUS
<1>1. queue \in Seq(Caller)
  BY DEF CatalogInit
<1> QED
  BY <1>1 DEF CatalogInit, CatalogTypeOK

\* What the handlers in the queue do to it.
LEMMA QueueKeeps ==
  ASSUME CatalogTypeOK, NEW c \in Caller,
         Arrive(c) \/ ServeCached(c) \/ StartFetch(c) \/ EndFetch(c) \/ Disconnect(c)
  PROVE  queue' \in Seq(Caller) /\ fetching' \subseteq {d \in Caller : Holds(d)'}
<1>1. queue \in Seq(Caller) /\ \A d \in fetching : d \in Caller /\ queue # <<>> /\ Head(queue) = d
  BY DEF CatalogTypeOK, Holds
<1>2. CASE Arrive(c)
  <2>1. queue' = Append(queue, c) /\ fetching' = fetching
    BY <1>2 DEF Arrive
  <2>2. /\ queue' \in Seq(Caller)
        /\ queue # <<>> => queue' # <<>> /\ Head(queue') = Head(queue)
    BY <1>1, <2>1
  <2> QED
    BY <1>1, <2>1, <2>2 DEF Holds
<1>3. CASE ServeCached(c)
  <2>1. queue # <<>> /\ queue' = Tail(queue) /\ fetching' = {}
    BY <1>1, <1>3 DEF ServeCached, Holds
  <2> QED
    BY <1>1, <2>1
<1>4. CASE StartFetch(c)
  BY <1>1, <1>4 DEF StartFetch, Holds
<1>5. CASE EndFetch(c)
  <2>1. queue # <<>> /\ queue' = Tail(queue) /\ fetching' = {}
    BY <1>1, <1>5 DEF EndFetch
  <2> QED
    BY <1>1, <2>1
<1>6. CASE Disconnect(c)
  <2>1. queue' = Without(queue, {c}) /\ fetching' = fetching \ {c}
    BY <1>6 DEF Disconnect
  <2>2. queue' \in Seq(Caller)
    BY <1>1, <2>1, WithoutKeeps
  <2>3. ASSUME NEW d \in fetching' PROVE d \in Caller /\ queue' # <<>> /\ Head(queue') = d
    <3>1. d \in Caller /\ queue # <<>> /\ Head(queue) = d /\ Head(queue) \notin {c}
      BY <1>1, <2>1
    <3> QED
      BY <1>1, <2>1, <3>1, WithoutHead
  <2> QED
    BY <2>2, <2>3 DEF Holds
<1> QED
  BY <1>2, <1>3, <1>4, <1>5, <1>6

LEMMA TypeKeeps == CatalogTypeOK /\ [CatalogNext]_catalogVars => CatalogTypeOK'
<1> SUFFICES ASSUME CatalogTypeOK, [CatalogNext]_catalogVars PROVE CatalogTypeOK'
  OBVIOUS
<1>0. Ttl \in Nat /\ EmptyTtl \in Nat /\ EmptyTtl <= Ttl /\ now \in Nat
  BY TtlAssumption DEF CatalogTypeOK
<1>1. CASE ClockTicks
  <2>1. now' \in Nat /\ \A t \in -Ttl .. now : t \in -Ttl .. now'
    BY <1>0, <1>1 DEF ClockTicks
  <2> QED
    BY <1>1, <2>1 DEF ClockTicks, CatalogTypeOK, Holds
<1>2. ASSUME NEW c \in Caller, Arrive(c) \/ ServeCached(c) \/ StartFetch(c) \/ Disconnect(c)
      PROVE  CatalogTypeOK'
  <2>1. queue' \in Seq(Caller) /\ fetching' \subseteq {d \in Caller : Holds(d)'}
    BY <1>2, QueueKeeps
  <2>2. UNCHANGED <<now, listed, fetched_at, rest>> /\ refresh_in_flight' \in BOOLEAN
    BY <1>2 DEF Arrive, ServeCached, StartFetch, Disconnect, CatalogTypeOK
  <2> QED
    BY <2>1, <2>2 DEF CatalogTypeOK
<1>3. ASSUME NEW c \in Caller, EndFetch(c)
      PROVE  CatalogTypeOK'
  <2>1. queue' \in Seq(Caller) /\ fetching' \subseteq {d \in Caller : Holds(d)'}
    BY <1>3, QueueKeeps
  <2>2. PICK outcome \in {"some", "empty", "failed"} : Keep(outcome)
    BY <1>3 DEF EndFetch
  <2>3. /\ listed' \in BOOLEAN /\ rest' \in Nat
        /\ fetched_at' = {now} \/ fetched_at' = {now - (Ttl - EmptyTtl)}
    <3>1. listed \in BOOLEAN /\ now + Ttl \in Nat /\ now + EmptyTtl \in Nat
      BY <1>0 DEF CatalogTypeOK
    <3>2. CASE listed' = TRUE /\ fetched_at' = {now} /\ rest' = now + Ttl
      BY <3>1, <3>2
    <3>3. CASE /\ listed' = FALSE /\ fetched_at' = {now - (Ttl - EmptyTtl)}
               /\ rest' = now + EmptyTtl
      BY <3>1, <3>3
    <3>4. CASE fetched_at' = {now} /\ rest' = now + Ttl /\ listed' = listed
      BY <3>1, <3>4
    <3> QED
      BY <2>2, <3>2, <3>3, <3>4, Zenon DEF Keep
  <2>4. now \in -Ttl .. now /\ now - (Ttl - EmptyTtl) \in -Ttl .. now
    BY <1>0
  <2>5. now' = now /\ refresh_in_flight' = FALSE
    BY <1>3 DEF EndFetch
  <2> QED
    BY <1>0, <2>1, <2>3, <2>4, <2>5 DEF CatalogTypeOK
<1>4. CASE UNCHANGED catalogVars
  BY <1>4 DEF catalogVars, CatalogTypeOK, Holds
<1> QED
  BY <1>1, <1>2, <1>3, <1>4 DEF CatalogNext, Handle

\* free_model_ids holds the lock over its fetch: whoever comes, serves, fetches
\* or vanishes, only the handler at the head of the queue fetches, and the list
\* counts from no instant to come.
THEOREM OneFetches == CatalogSpec => []CatalogTypeOK
BY TypeStarts, TypeKeeps, PTL DEF CatalogSpec

-----------------------------------------------------------------------------
(* ModelCatalog: the pause between two fetches                             *)

\* No step begins a fetch before its time: the only one that begins any is
\* StartFetch, which finds the list out of date.
LEMMA FetchIsDue ==
  ASSUME CatalogInv, [CatalogNext]_catalogVars, fetching = {}, fetching' # {}
  PROVE  now >= rest
<1>1. PICK c \in Caller : StartFetch(c)
  BY DEF CatalogNext, Handle, ClockTicks, Arrive, ServeCached, EndFetch, Disconnect, catalogVars
<1>2. \A t \in fetched_at : ~(now - t < Ttl)
  BY <1>1 DEF StartFetch, Fresh
<1>3. CASE rest = 0
  BY <1>3 DEF CatalogInv
<1>4. ASSUME NEW t \in fetched_at, rest = t + Ttl
      PROVE  now >= rest
  <2>1. t \in Int /\ now \in Nat /\ Ttl \in Nat
    BY TtlAssumption DEF CatalogInv, Instants
  <2> QED
    BY <1>2, <1>4, <2>1
<1> QED
  BY <1>3, <1>4 DEF CatalogInv, PauseIsKnown

\* free_model_ids of src/src/model_catalog.rs never becomes a loop of retries:
\* after a list, an empty list or a failure, the next fetch of whichever handler
\* waits for the time to live of what was left.
THEOREM FetchesRest == CatalogSpec => RestsBetweenFetches
<1>1. CatalogInv /\ [CatalogNext]_catalogVars => (fetching = {} /\ fetching' # {} => now >= rest)
  BY FetchIsDue
<1>2. CatalogInv /\ [CatalogNext]_catalogVars => [fetching = {} /\ fetching' # {} => now >= rest]_catalogVars
  BY <1>1
<1> QED
  BY CatalogStarts, CatalogKeeps, <1>2, PTL DEF CatalogSpec, RestsBetweenFetches
===============================================================================
