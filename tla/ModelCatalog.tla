----------------------------- MODULE ModelCatalog -----------------------------
(***************************************************************************)
(* The cached list of free models, src/src/model_catalog.rs, asked for by  *)
(* concurrent /v1/models handlers.                                         *)
(*                                                                         *)
(* The lock, which is granted in order of arrival, is held over the whole  *)
(* fetch.  A client that disconnects drops its handler where it awaits: in *)
(* the queue for the lock, or inside the fetch, with the lock and the flag *)
(* refresh_in_flight in its hands.                                         *)
(***************************************************************************)
EXTENDS Collections

CONSTANTS
  Caller,     \* handlers of /v1/models; one that returns may serve again
  Ttl,        \* refresh_ttl
  EmptyTtl,   \* how long an empty answer is kept: 15 minutes, or Ttl if less
  MaxTime     \* last value of the clock

ASSUME TtlAssumption == {Ttl, EmptyTtl, MaxTime} \subseteq Nat /\ EmptyTtl <= Ttl

VARIABLES
  now,                 \* the monotonic clock
  queue,               \* handlers at the mutex; the first one holds it
  fetching,            \* handlers that await the upstream's answer
  listed,              \* ids: is there a list to serve?
  fetched_at,          \* the instant the list counts from, {} for None
  refresh_in_flight,
  rest                 \* history: no fetch is due before this instant

catalogVars == <<now, queue, fetching, listed, fetched_at, refresh_in_flight, rest>>

Queued(c) == \E i \in 1 .. Len(queue) : queue[i] = c
Holds(c) == queue # <<>> /\ Head(queue) = c

CatalogTypeOK ==
  /\ now \in Nat
  /\ queue \in Seq(Caller)
  /\ fetching \subseteq {c \in Caller : Holds(c)}
  /\ listed \in BOOLEAN
  /\ fetched_at \in {{}} \cup {{t} : t \in (-Ttl) .. now}
  /\ refresh_in_flight \in BOOLEAN
  /\ rest \in Nat

CatalogInit ==
  /\ now = 0
  /\ queue = <<>>
  /\ fetching = {}
  /\ listed = FALSE
  /\ fetched_at = {}
  /\ refresh_in_flight = FALSE
  /\ rest = 0

ClockTicks ==
  /\ now < MaxTime
  /\ now' = now + 1
  /\ UNCHANGED <<queue, fetching, listed, fetched_at, refresh_in_flight, rest>>

-----------------------------------------------------------------------------
Arrive(c) ==
  /\ ~Queued(c)
  /\ queue' = Append(queue, c)
  /\ UNCHANGED <<now, fetching, listed, fetched_at, refresh_in_flight, rest>>

Fresh == \E t \in fetched_at : now - t < Ttl

\* Mutant: a handler waits for the refresh in flight to end.
ServeOnlyFresh(c) ==
  /\ Holds(c) /\ c \notin fetching
  /\ Fresh
  /\ queue' = Tail(queue)
  /\ UNCHANGED <<now, fetching, listed, fetched_at, refresh_in_flight, rest>>

ServeCached(c) ==
  /\ Holds(c) /\ c \notin fetching
  /\ Fresh \/ refresh_in_flight
  /\ queue' = Tail(queue)
  /\ UNCHANGED <<now, fetching, listed, fetched_at, refresh_in_flight, rest>>

StartFetch(c) ==
  /\ Holds(c) /\ c \notin fetching
  /\ ~Fresh /\ ~refresh_in_flight
  /\ refresh_in_flight' = TRUE
  /\ fetching' = {c}
  /\ UNCHANGED <<now, queue, listed, fetched_at, rest>>

\* Mutant: a failure leaves no mark.
KeepTrying(outcome) ==
  \/ outcome = "some" /\ listed' = TRUE /\ fetched_at' = {now} /\ rest' = now + Ttl
  \/ outcome = "empty" /\ listed' = FALSE /\ fetched_at' = {now - (Ttl - EmptyTtl)} /\ rest' = now + EmptyTtl
  \/ outcome = "failed" /\ rest' = now + Ttl /\ UNCHANGED <<listed, fetched_at>>

\* A list is kept for its time to live, an empty one for less; a failure keeps
\* the list there is, and counts as its refresh.
Keep(outcome) ==
  \/ outcome = "some" /\ listed' = TRUE /\ fetched_at' = {now} /\ rest' = now + Ttl
  \/ outcome = "empty" /\ listed' = FALSE /\ fetched_at' = {now - (Ttl - EmptyTtl)} /\ rest' = now + EmptyTtl
  \/ outcome = "failed" /\ fetched_at' = {now} /\ rest' = now + Ttl /\ UNCHANGED listed

EndFetch(c) ==
  /\ c \in fetching
  /\ \E outcome \in {"some", "empty", "failed"} : Keep(outcome)
  /\ refresh_in_flight' = FALSE
  /\ fetching' = {}
  /\ queue' = Tail(queue)
  /\ UNCHANGED now

\* Mutant: the fetch outlives its handler.
DisconnectBeside(c) ==
  /\ Queued(c)
  /\ queue' = Without(queue, {c})
  /\ UNCHANGED <<now, fetching, listed, fetched_at, refresh_in_flight, rest>>

\* The handler is dropped with its place in the queue, or with its lock; what
\* follows the fetch does not run.
Disconnect(c) ==
  /\ Queued(c)
  /\ queue' = Without(queue, {c})
  /\ fetching' = fetching \ {c}
  /\ UNCHANGED <<now, listed, fetched_at, refresh_in_flight, rest>>

Handle(c) == ServeCached(c) \/ StartFetch(c) \/ EndFetch(c)

CatalogNext == ClockTicks \/ \E c \in Caller : Arrive(c) \/ Handle(c) \/ Disconnect(c)

CatalogSpec == CatalogInit /\ [][CatalogNext]_catalogVars

\* Handlers are scheduled, and the fetch has a timeout of its own.
CatalogFairSpec == CatalogSpec /\ \A c \in Caller : WF_catalogVars(Handle(c))

-----------------------------------------------------------------------------
(* Properties                                                              *)

\* Every handler is answered, though others fetch, fail or vanish before it.
Answered == \A c \in Caller : Queued(c) ~> ~Queued(c)

\* "A flapping endpoint cannot turn /v1/models into a per-request retry loop":
\* between the end of one fetch and the start of the next, by whichever
\* handler, a full time to live goes by, or the shorter one of an empty list.
RestsBetweenFetches ==
  [][fetching = {} /\ fetching' # {} => now >= rest]_catalogVars

\* "Serves the cache within TTL; on expiry triggers one bounded refresh": what
\* is served without a fetch is fresh.
ServesFresh == [][\A c \in Caller : ServeCached(c) => Fresh]_catalogVars
===============================================================================
