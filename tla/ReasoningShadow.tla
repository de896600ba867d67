--------------------------- MODULE ReasoningShadow ---------------------------
(***************************************************************************)
(* The reasoning shadow store of src/src/reasoning_shadow.rs: the hidden   *)
(* reasoning of tool calls, kept per session until the next request of the *)
(* same epoch, under limits on sessions, bytes, entries and age.           *)
(*                                                                         *)
(* One mutex guards the store, so every call is one step.  Requests of any *)
(* session call it at any time, in any order.                              *)
(***************************************************************************)
EXTENDS Collections, FiniteSets

CONSTANTS
  Session,        \* session fingerprints
  Call,           \* tool call ids
  Size,           \* sizes of a reasoning text that are told apart
  MaxSessions, MaxTotalBytes, MaxEntryBytes, Ttl,   \* ShadowLimits
  MaxTime         \* last value of the clock

ASSUME LimitsAssumption ==
  /\ {MaxSessions, MaxTotalBytes, MaxEntryBytes, Ttl, MaxTime} \subseteq Nat
  /\ Size \subseteq Nat \ {0}
  /\ IsFiniteSet(Call)

VARIABLES
  now,    \* the monotonic clock
  store   \* ShadowInner

Entry == [size : 1 .. MaxEntryBytes, created : 0 .. now]

TypeOK ==
  /\ now \in Nat
  /\ DOMAIN store.held \subseteq Session
  /\ \A s \in DOMAIN store.held :
       /\ DOMAIN store.held[s] \subseteq Call
       /\ \A c \in DOMAIN store.held[s] : store.held[s][c] \in Entry
  /\ store.bytes \in [DOMAIN store.held -> Nat]
  /\ store.lru \in Seq(Session)
  /\ store.total \in Nat

Init ==
  /\ now = 0
  /\ store = [held |-> <<>>, bytes |-> <<>>, lru |-> <<>>, total |-> 0]

Sessions(st) == DOMAIN st.held
Old(entry) == now - entry.created > Ttl

-----------------------------------------------------------------------------
(* What a call does to the store                                           *)

\* Sessions are removed with what they account for, saturating at zero.
Drop(st, gone) ==
  LET left == Sessions(st) \ gone
      freed == SumOver(st.bytes, Sessions(st) \cap gone)
  IN  [held |-> Restrict(st.held, left),
       bytes |-> Restrict(st.bytes, left),
       lru |-> Without(st.lru, gone),
       total |-> IF freed > st.total THEN 0 ELSE st.total - freed]

Tick == now < MaxTime /\ now' = now + 1 /\ UNCHANGED store

\* Mutant: a new session enters at the front of the queue.
InsertAtFront(st, s, calls, size) ==
  LET known == s \in Sessions(st)
      fresh == [c \in calls |-> [size |-> size, created |-> now]]
      added == Cardinality(calls) * size
  IN  [held |-> Put(st.held, s, IF known THEN Over(fresh, st.held[s]) ELSE fresh),
       bytes |-> Put(st.bytes, s, IF known THEN st.bytes[s] + added ELSE added),
       lru |-> IF known THEN st.lru ELSE <<s>> \o st.lru,
       total |-> st.total + added]

\* The entries of one turn, all of them new or written over, are accounted for
\* once per call.
Insert(st, s, calls, size) ==
  LET known == s \in Sessions(st)
      old == IF known THEN st.held[s] ELSE <<>>
      before == IF known THEN st.bytes[s] ELSE 0
      added == Cardinality(calls) * size
      fresh == [c \in calls |-> [size |-> size, created |-> now]]
  IN  [held |-> Put(st.held, s, Over(fresh, old)),
       bytes |-> Put(st.bytes, s, before + added),
       lru |-> IF known THEN st.lru ELSE Append(st.lru, s),
       total |-> st.total + added]

\* Mutant: swept sessions stay in the queue.
SweepKeepingQueue(st) ==
  LET gone == {s \in Sessions(st) : \A c \in DOMAIN st.held[s] : Old(st.held[s][c])}
  IN  [Drop(st, gone) EXCEPT !.lru = st.lru]

\* A session is swept when all its entries are past their time to live.
Sweep(st) ==
  Drop(st, {s \in Sessions(st) : \A c \in DOMAIN st.held[s] : Old(st.held[s][c])})

\* The first n names of the queue are popped.
Pop(st, n) ==
  LET victims == {st.lru[i] : i \in 1 .. n}
  IN  [Drop(st, victims) EXCEPT !.lru = SubSeq(st.lru, n + 1, Len(st.lru))]

Fits(st) == st.total <= MaxTotalBytes /\ Cardinality(Sessions(st)) <= MaxSessions

\* Mutant: at most one session is evicted.
EvictOne(st) == IF Fits(st) THEN st ELSE Pop(st, 1)

\* Both loops pop the front of the queue until their limit holds.
Evict(st) ==
  LET enough == {n \in 0 .. Len(st.lru) : Fits(Pop(st, n)) \/ n = Len(st.lru)}
  IN  Pop(st, Min(enough))

-----------------------------------------------------------------------------
(* The operations                                                          *)

\* Oversized reasoning is skipped, never truncated.
StoreTurn(s, calls, size) ==
  /\ calls # {}
  /\ size <= MaxEntryBytes
  /\ store' = Evict(Sweep(Insert(store, s, calls, size)))
  /\ UNCHANGED now

\* restore finds an entry of the turn first that is too old, and removes it.
\* In all its other outcomes it changes nothing.
RestoreExpired(s, c) ==
  /\ s \in Sessions(store)
  /\ c \in DOMAIN store.held[s]
  /\ Old(store.held[s][c])
  /\ store' = [store EXCEPT !.held[s] = Restrict(@, DOMAIN @ \ {c})]
  /\ UNCHANGED now

\* A final answer, or a new human turn.
ClearSession(s) ==
  /\ s \in Sessions(store)
  /\ store' = Drop(store, {s})
  /\ UNCHANGED now

Next ==
  \/ Tick
  \/ \E s \in Session :
       \/ \E calls \in SUBSET Call, size \in Size : StoreTurn(s, calls, size)
       \/ \E c \in Call : RestoreExpired(s, c)
       \/ ClearSession(s)

Spec == Init /\ [][Next]_<<now, store>>

-----------------------------------------------------------------------------
(* Properties                                                              *)

\* The text a session really holds: every entry may be its own copy.
HeldBytes(s) == SumOver([c \in DOMAIN store.held[s] |-> store.held[s][c].size],
                    DOMAIN store.held[s])

\* "Bounded by session count, total bytes, per-entry bytes": between calls the
\* texts that are held stay within the limits, although the store counts only
\* what it adds and forgets what is written over or removed lazily.
WithinLimits ==
  /\ SumOver([s \in Sessions(store) |-> HeldBytes(s)], Sessions(store)) <= MaxTotalBytes
  /\ Cardinality(Sessions(store)) <= MaxSessions

\* Eviction by pressure works through the queue: every session must be in it
\* once, or it would be out of reach of the limits, and hold up the queue.
QueueIsSessions ==
  /\ {store.lru[i] : i \in 1 .. Len(store.lru)} = Sessions(store)
  /\ Len(store.lru) = Cardinality(Sessions(store))

\* The total never drifts from the sessions it sums up, so that a session that
\* goes frees all it was charged for, and the saturation is never needed.
TotalIsExact ==
  /\ store.total = SumOver(store.bytes, Sessions(store))
  /\ \A s \in Sessions(store) : HeldBytes(s) <= store.bytes[s]

\* The bookkeeping of the store between two calls.
ShadowInv == TypeOK /\ QueueIsSessions /\ TotalIsExact

\* Pressure and the sweep cost a new session nothing: the turn that has just
\* been stored for it is there for the next request, if it fits at all.
NewSessionSurvives ==
  [][\A s \in Session, calls \in SUBSET Call, size \in Size :
       /\ s \notin Sessions(store)
       /\ StoreTurn(s, calls, size)
       /\ MaxSessions > 0 /\ Cardinality(calls) * size <= MaxTotalBytes
       => s \in Sessions(store)' /\ calls \subseteq DOMAIN store'.held[s]]_<<now, store>>
==============================================================================
