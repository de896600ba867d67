------------------------- MODULE ReasoningShadowProofs -------------------------
(***************************************************************************)
(* Proofs about ReasoningShadow, for any sessions, calls and sizes, any    *)
(* limits and any clock: the books of the store are exact, whatever is     *)
(* stored, written over, expired, cleared, swept and evicted, and so its   *)
(* limits hold.                                                            *)
(***************************************************************************)
EXTENDS ReasoningShadow, CollectionLemmas

LEMMA LimitsAreNumbers ==
  /\ MaxSessions \in Nat /\ MaxTotalBytes \in Nat /\ MaxEntryBytes \in Nat
  /\ Ttl \in Nat /\ MaxTime \in Nat
  /\ \A size \in Size : size \in Nat /\ size > 0
BY LimitsAssumption

LEMMA CallsAreFinite == \A calls \in SUBSET Call : IsFiniteSet(calls)
BY LimitsAssumption, FS_Subset

-----------------------------------------------------------------------------
(* The inductive invariant                                                 *)

Sizes(st, s) == [c \in DOMAIN st.held[s] |-> st.held[s][c].size]
HeldIn(st, s) == SumOver(Sizes(st, s), DOMAIN st.held[s])

\* The types of a store, and its queue, at time t ...
Shaped(st, t) ==
  /\ DOMAIN st = {"held", "bytes", "lru", "total"}
  /\ Sessions(st) \subseteq Session
  /\ \A s \in Sessions(st) :
       /\ DOMAIN st.held[s] \subseteq Call
       /\ \A c \in DOMAIN st.held[s] :
            st.held[s][c] \in [size : 1 .. MaxEntryBytes, created : 0 .. t]
  /\ st.bytes \in [Sessions(st) -> Nat]
  /\ st.total \in Nat

Queued(st) ==
  /\ st.lru \in Seq(Session)
  /\ Elements(st.lru) = Sessions(st)
  /\ Distinct(st.lru)

\* ... and what its sessions are charged.
Charged(st) ==
  /\ st.total = SumOver(st.bytes, Sessions(st))
  /\ \A s \in Sessions(st) : HeldIn(st, s) <= st.bytes[s]

Books(st, t) == Shaped(st, t) /\ Queued(st) /\ Charged(st)

IInv == now \in Nat /\ Books(store, now) /\ Fits(store)

LEMMA QueuedIsFinite ==
  ASSUME NEW st, Queued(st)
  PROVE  IsFiniteSet(Sessions(st)) /\ Len(st.lru) = Cardinality(Sessions(st))
<1>1. IsFiniteSet(Elements(st.lru)) /\ Len(st.lru) = Cardinality(Elements(st.lru))
  BY DistinctCount DEF Queued
<1> QED
  BY <1>1, Zenon DEF Queued

LEMMA HeldIsNat ==
  ASSUME NEW st, NEW t, Shaped(st, t), NEW s \in Sessions(st)
  PROVE  /\ IsFiniteSet(DOMAIN st.held[s])
         /\ \A c \in DOMAIN st.held[s] : Sizes(st, s)[c] \in Nat
         /\ HeldIn(st, s) \in Nat
<1>1. IsFiniteSet(DOMAIN st.held[s])
  BY CallsAreFinite DEF Shaped
<1>2. \A c \in DOMAIN st.held[s] : Sizes(st, s)[c] \in Nat
  BY LimitsAreNumbers DEF Shaped, Sizes
<1> QED
  BY <1>1, <1>2, SumIsNat DEF HeldIn

LEMMA InvImplies == IInv => ShadowInv /\ WithinLimits
<1> SUFFICES ASSUME IInv PROVE ShadowInv /\ WithinLimits
  OBVIOUS
<1> DEFINE S == Sessions(store)
<1>1. \A s \in S : HeldBytes(s) = HeldIn(store, s)
  BY DEF HeldBytes, HeldIn, Sizes
<1>2. TypeOK
  BY DEF IInv, Books, Shaped, Queued, TypeOK, Entry, Sessions
<1>3. QueueIsSessions
  BY QueuedIsFinite DEF IInv, Books, Queued, QueueIsSessions, Elements
<1>4. TotalIsExact
  BY <1>1 DEF IInv, Books, Charged, TotalIsExact
<1>5. WithinLimits
  <2> DEFINE held == [s \in S |-> HeldBytes(s)]
  <2>1. IsFiniteSet(S)
    BY QueuedIsFinite DEF IInv, Books
  <2>2. ASSUME NEW s \in S
        PROVE  held[s] \in Nat /\ store.bytes[s] \in Nat /\ held[s] <= store.bytes[s]
    <3>1. held[s] = HeldIn(store, s) /\ HeldIn(store, s) \in Nat
      BY <1>1, HeldIsNat DEF IInv, Books
    <3>2. store.bytes[s] \in Nat /\ HeldIn(store, s) <= store.bytes[s]
      BY DEF IInv, Books, Shaped, Charged
    <3> HIDE DEF held
    <3> QED
      BY <3>1, <3>2
  <2>3. SumOver(held, S) <= SumOver(store.bytes, S) /\ SumOver(held, S) \in Nat
    <3> HIDE DEF held, S
    <3> QED
      BY <2>1, <2>2, SumMonotone, SumIsNat
  <2>4. SumOver(store.bytes, S) = store.total /\ store.total \in Nat /\ store.total <= MaxTotalBytes
    BY DEF IInv, Books, Shaped, Charged, Fits
  <2>5. Cardinality(S) <= MaxSessions
    BY DEF IInv, Fits
  <2>6. SumOver(held, S) <= MaxTotalBytes
    <3> HIDE DEF held, S
    <3> QED
      BY <2>3, <2>4, LimitsAreNumbers
  <2> QED
    BY <2>5, <2>6 DEF WithinLimits
<1> QED
  BY <1>2, <1>3, <1>4, <1>5 DEF ShadowInv

-----------------------------------------------------------------------------
(* What a call does to the books                                           *)

\* The entries of a turn are charged for, those they write over are not
\* forgotten: the charge only ever exceeds what is held.
LEMMA InsertKeepsBooks ==
  ASSUME now \in Nat, NEW st, Books(st, now),
         NEW s \in Session, NEW calls \in SUBSET Call,
         NEW size \in Size, size <= MaxEntryBytes
  PROVE  LET new == Insert(st, s, calls, size)
         IN  /\ Books(new, now)
             /\ Sessions(new) = Sessions(st) \cup {s}
             /\ calls \subseteq DOMAIN new.held[s]
             /\ \A c \in calls : new.held[s][c].created = now
             /\ s \notin Sessions(st) =>
                  /\ new.lru = Append(st.lru, s)
                  /\ new.bytes[s] = Cardinality(calls) * size
<1> DEFINE new == Insert(st, s, calls, size)
           S == Sessions(st)
           known == s \in S
           old == IF known THEN st.held[s] ELSE <<>>
           before == IF known THEN st.bytes[s] ELSE 0
           fresh == [c \in calls |-> [size |-> size, created |-> now]]
           added == Cardinality(calls) * size
           turn == Over(fresh, old)
<1>0. Shaped(st, now) /\ Queued(st) /\ Charged(st)
  BY DEF Books
<1>1. /\ new.held = Put(st.held, s, turn) /\ new.bytes = Put(st.bytes, s, before + added)
      /\ new.lru = IF known THEN st.lru ELSE Append(st.lru, s)
      /\ new.total = st.total + added
      /\ DOMAIN new = {"held", "bytes", "lru", "total"}
  BY DEF Insert
<1>2. added \in Nat /\ size \in Nat /\ size > 0 /\ IsFiniteSet(calls) /\ Cardinality(calls) \in Nat
  <2>1. size \in Nat /\ size > 0 /\ IsFiniteSet(calls) /\ Cardinality(calls) \in Nat
    BY LimitsAreNumbers, CallsAreFinite, FS_CardinalityType
  <2> QED
    BY <2>1
<1>3. before \in Nat
  BY <1>0 DEF Shaped
<1>4. /\ DOMAIN old \subseteq Call
      /\ \A c \in DOMAIN old : old[c] \in [size : 1 .. MaxEntryBytes, created : 0 .. now]
  <2>1. CASE known
    BY <1>0, <2>1 DEF Shaped
  <2>2. CASE ~known
    BY <2>2
  <2> QED
    BY <2>1, <2>2
<1>5. /\ DOMAIN turn = calls \cup DOMAIN old
      /\ \A c \in calls : turn[c] = [size |-> size, created |-> now]
      /\ \A c \in DOMAIN old : c \notin calls => turn[c] = old[c]
  BY DEF Over
<1>6. \A c \in DOMAIN turn : turn[c] \in [size : 1 .. MaxEntryBytes, created : 0 .. now]
  <2>1. [size |-> size, created |-> now] \in [size : 1 .. MaxEntryBytes, created : 0 .. now]
    BY <1>2, LimitsAreNumbers
  <2> HIDE DEF turn, old
  <2> QED
    BY <1>4, <1>5, <2>1
<1> HIDE DEF new, turn, old, before, added, fresh
<1>7. /\ Sessions(new) = S \cup {s}
      /\ new.held[s] = turn /\ \A r \in S : r # s => new.held[r] = st.held[r]
  BY <1>1 DEF Put, Sessions
<1>8. /\ new.bytes \in [S \cup {s} -> Nat]
      /\ new.bytes[s] = before + added /\ \A r \in S : r # s => new.bytes[r] = st.bytes[r]
  BY <1>0, <1>1, <1>2, <1>3 DEF Put, Shaped
<1>9. Shaped(new, now)
  <2>1. new.total \in Nat
    BY <1>0, <1>1, <1>2 DEF Shaped
  <2>2. S \cup {s} \subseteq Session
    BY <1>0 DEF Shaped
  <2>3. ASSUME NEW r \in S \cup {s}
        PROVE  /\ DOMAIN new.held[r] \subseteq Call
               /\ \A c \in DOMAIN new.held[r] :
                    new.held[r][c] \in [size : 1 .. MaxEntryBytes, created : 0 .. now]
    <3>1. CASE r = s
      BY <1>4, <1>5, <1>6, <1>7, <3>1
    <3>2. CASE r # s
      BY <1>0, <1>7, <2>3, <3>2 DEF Shaped
    <3> QED
      BY <3>1, <3>2
  <2> QED
    BY <1>1, <1>7, <1>8, <2>1, <2>2, <2>3 DEF Shaped
<1>10. Queued(new)
  <2>1. CASE known
    <3>1. Sessions(new) = S /\ new.lru = st.lru
      BY <1>1, <1>7, <2>1
    <3> QED
      BY <1>0, <3>1, Zenon DEF Queued
  <2>2. CASE ~known
    <3> DEFINE q == st.lru
    <3>1. q \in Seq(Session) /\ Elements(q) = S /\ Distinct(q) /\ new.lru = Append(q, s)
      BY <1>0, <1>1, <2>2 DEF Queued
    <3> HIDE DEF q
    <3>2. /\ Append(q, s) \in Seq(Session) /\ Len(Append(q, s)) = Len(q) + 1 /\ Len(q) \in Nat
          /\ \A i \in 1 .. Len(q) : Append(q, s)[i] = q[i]
          /\ Append(q, s)[Len(q) + 1] = s
      BY <3>1
    <3>3. Elements(Append(q, s)) = Elements(q) \cup {s}
      BY <3>2 DEF Elements
    <3>4. Distinct(Append(q, s))
      BY <2>2, <3>1, <3>2 DEF Elements, Distinct
    <3> QED
      BY <1>7, <3>1, <3>2, <3>3, <3>4 DEF Queued
  <2> QED
    BY <2>1, <2>2
<1>11. new.total = SumOver(new.bytes, Sessions(new))
  <2> DEFINE f == st.bytes
  <2>1. /\ DOMAIN f = S /\ IsFiniteSet(S) /\ (\A r \in S : f[r] \in Nat)
        /\ before + added \in Nat
    BY <1>0, <1>2, <1>3, QueuedIsFinite DEF Shaped
  <2>2. SumOver(f, S) \in Nat
    BY <2>1, SumIsNat
  <2>3. SumOver(Put(f, s, before + added), S \cup {s})
          = (before + added) + SumOver(f, S) - (IF s \in S THEN f[s] ELSE 0)
    <3>1. /\ IsFiniteSet(DOMAIN f) /\ \A r \in DOMAIN f : f[r] \in Nat
      BY <2>1
    <3>2. SumOver(Put(f, s, before + added), DOMAIN f \cup {s})
            = (before + added) + SumOver(f, DOMAIN f) - (IF s \in DOMAIN f THEN f[s] ELSE 0)
      <4> HIDE DEF f, S
      <4> QED
        BY <2>1, <3>1, SumPut
    <3> HIDE DEF f, S
    <3> QED
      BY <2>1, <3>2, Zenon
  <2>4. before = IF s \in S THEN f[s] ELSE 0
    BY DEF before
  <2>5. SumOver(new.bytes, Sessions(new)) = SumOver(Put(f, s, before + added), S \cup {s})
    <3> HIDE DEF S
    <3> QED
      BY <1>1, <1>7, Zenon
  <2>6. st.total = SumOver(f, S)
    BY <1>0 DEF Charged
  <2> HIDE DEF f, S
  <2>7. SumOver(new.bytes, Sessions(new)) = added + SumOver(f, S)
    BY <1>2, <1>3, <2>2, <2>3, <2>4, <2>5
  <2> QED
    BY <1>1, <1>2, <2>2, <2>6, <2>7
<1>12. HeldIn(new, s) <= new.bytes[s]
  <2> DEFINE f == [c \in DOMAIN turn |-> turn[c].size]
             g == [c \in DOMAIN old |-> old[c].size]
             D == DOMAIN turn
             R == DOMAIN old \ calls
  <2>1. HeldIn(new, s) = SumOver(f, D)
    BY <1>7 DEF HeldIn, Sizes
  <2>2. /\ IsFiniteSet(D) /\ IsFiniteSet(DOMAIN old) /\ IsFiniteSet(R)
        /\ \A c \in D : f[c] \in Nat
        /\ \A c \in DOMAIN old : g[c] \in Nat
    <3>1. D \in SUBSET Call /\ DOMAIN old \in SUBSET Call /\ R \in SUBSET Call
      BY <1>4, <1>5
    <3>2. /\ \A c \in D : f[c] \in Nat
          /\ \A c \in DOMAIN old : g[c] \in Nat
      BY <1>4, <1>6, LimitsAreNumbers
    <3> QED
      BY <3>1, <3>2, CallsAreFinite
  <2>3. D \cap calls = calls /\ D \ calls = R /\ DOMAIN old \ calls = R
    BY <1>5
  <2>4. /\ SumOver(f, D) = SumOver(f, calls) + SumOver(f, R)
        /\ SumOver(f, calls) \in Nat /\ SumOver(f, R) \in Nat
    <3> HIDE DEF f, D, R
    <3>1. SumOver(f, D \cap calls) \in Nat /\ SumOver(f, D \ calls) \in Nat
          /\ SumOver(f, D) = SumOver(f, D \cap calls) + SumOver(f, D \ calls)
      BY <2>2, SumSplit
    <3> QED
      BY <2>3, <3>1, Zenon
  <2>5. SumOver(f, calls) = added
    <3>1. \A c \in calls : f[c] = size
      BY <1>5
    <3> HIDE DEF f
    <3> QED
      BY <1>2, <3>1, SumOfConstant DEF added
  <2>6. SumOver(f, R) = SumOver(g, R)
    <3>1. \A c \in R : f[c] = g[c]
      BY <1>5
    <3> HIDE DEF f, g, R
    <3> QED
      BY <2>2, <3>1, SumSame
  <2>7. SumOver(g, R) <= SumOver(g, DOMAIN old) /\ SumOver(g, DOMAIN old) \in Nat
    <3> DEFINE E == DOMAIN old
    <3> HIDE DEF f, g, E
    <3>1. SumOver(g, E \cap calls) \in Nat /\ SumOver(g, E \ calls) \in Nat
          /\ SumOver(g, E) = SumOver(g, E \cap calls) + SumOver(g, E \ calls)
      BY <2>2, SumSplit DEF E
    <3>2. SumOver(g, E \ calls) = SumOver(g, R)
      BY <2>3, Zenon DEF E
    <3> HIDE DEF R
    <3>3. SumOver(g, R) <= SumOver(g, E) /\ SumOver(g, E) \in Nat
      BY <3>1, <3>2
    <3> QED
      BY <3>3 DEF E
  <2>8. SumOver(g, DOMAIN old) <= before
    <3>1. CASE known
      <4>1. SumOver(g, DOMAIN old) = HeldIn(st, s)
        BY <3>1 DEF old, HeldIn, Sizes
      <4> HIDE DEF g
      <4> QED
        BY <1>0, <3>1, <4>1 DEF Charged, before
    <3>2. CASE ~known
      <4>1. DOMAIN old = {} /\ before = 0
        BY <3>2 DEF old, before
      <4>2. SumOver(g, DOMAIN old) = SumOver(g, {})
        <5> HIDE DEF g
        <5> QED
          BY <4>1, Zenon
      <4> HIDE DEF g
      <4> QED
        BY <4>1, <4>2, SumEmpty
    <3> QED
      BY <3>1, <3>2
  <2> HIDE DEF f, g, D, R
  <2>9. SumOver(f, D) <= before + added
    BY <1>2, <1>3, <2>4, <2>5, <2>6, <2>7, <2>8
  <2> QED
    BY <1>8, <2>1, <2>9
<1>13. \A r \in S : r # s => HeldIn(new, r) <= new.bytes[r]
  <2>1. \A r \in S : r # s => HeldIn(new, r) = HeldIn(st, r)
    BY <1>7 DEF HeldIn, Sizes
  <2> QED
    BY <1>0, <1>8, <2>1 DEF Charged
<1>14. Charged(new)
  BY <1>7, <1>11, <1>12, <1>13 DEF Charged
<1>15. s \notin S => before + added = Cardinality(calls) * size
  BY <1>2 DEF before, added
<1>16. calls \subseteq DOMAIN new.held[s] /\ \A c \in calls : new.held[s][c].created = now
  BY <1>5, <1>7
<1> QED
  BY <1>1, <1>7, <1>8, <1>9, <1>10, <1>14, <1>15, <1>16 DEF Books, new

\* The sessions that stay keep their entries and their charge, and what those
\* that go were charged leaves the total with them: nothing is ever saturated.
LEMMA DropKeepsBooks ==
  ASSUME NEW t, NEW st, Books(st, t), NEW gone
  PROVE  LET new == Drop(st, gone)
         IN  /\ Books(new, t)
             /\ Sessions(new) = Sessions(st) \ gone
             /\ new.lru = Without(st.lru, gone)
             /\ DOMAIN new = {"held", "bytes", "lru", "total"}
             /\ \A s \in Sessions(new) : new.held[s] = st.held[s] /\ new.bytes[s] = st.bytes[s]
             /\ new.total <= st.total
<1> DEFINE new == Drop(st, gone)
           S == Sessions(st)
           left == S \ gone
           f == st.bytes
           freed == SumOver(f, S \cap gone)
<1>0. Shaped(st, t) /\ Queued(st) /\ Charged(st)
  BY DEF Books
<1>1. /\ new.held = [s \in left |-> st.held[s]] /\ new.bytes = [s \in left |-> f[s]]
      /\ new.lru = Without(st.lru, gone)
      /\ new.total = IF freed > st.total THEN 0 ELSE st.total - freed
      /\ DOMAIN new = {"held", "bytes", "lru", "total"}
  BY DEF Drop, Restrict
<1>2. /\ SumOver(f, S) = freed + SumOver(f, left)
      /\ freed \in Nat /\ SumOver(f, left) \in Nat
  <2>1. IsFiniteSet(S) /\ \A s \in S : f[s] \in Nat
    BY <1>0, QueuedIsFinite DEF Shaped
  <2> HIDE DEF f, S
  <2> QED
    BY <2>1, SumSplit
<1>3. st.total = SumOver(f, S) /\ st.total \in Nat
  BY <1>0 DEF Charged, Shaped
<1> HIDE DEF new
<1>4. /\ Sessions(new) = left
      /\ \A s \in left : new.held[s] = st.held[s] /\ new.bytes[s] = f[s]
  BY <1>1 DEF Sessions
<1>5. new.total = SumOver(f, left) /\ new.total <= st.total /\ new.total \in Nat
  <2> HIDE DEF f, left, freed
  <2> QED
    BY <1>1, <1>2, <1>3
<1>6. Shaped(new, t)
  <2>1. left \subseteq Session /\ new.bytes \in [left -> Nat]
    BY <1>0, <1>1 DEF Shaped
  <2>2. ASSUME NEW s \in left
        PROVE  /\ DOMAIN new.held[s] \subseteq Call
               /\ \A c \in DOMAIN new.held[s] :
                    new.held[s][c] \in [size : 1 .. MaxEntryBytes, created : 0 .. t]
    BY <1>0, <1>4 DEF Shaped
  <2> HIDE DEF left
  <2> QED
    BY <1>1, <1>4, <1>5, <2>1, <2>2 DEF Shaped
<1>7. Queued(new)
  <2>1. st.lru \in Seq(Session) /\ Elements(st.lru) = S /\ Distinct(st.lru)
    BY <1>0, Zenon DEF Queued
  <2>2. /\ new.lru \in Seq(Session)
        /\ Elements(new.lru) = Elements(st.lru) \ gone
        /\ Distinct(new.lru)
    BY <1>1, <2>1, WithoutKeeps
  <2>3. Elements(new.lru) = Sessions(new)
    BY <1>4, <2>1, <2>2, Zenon
  <2> QED
    BY <2>2, <2>3, Zenon DEF Queued
<1>8. Charged(new)
  <2>1. SumOver(new.bytes, Sessions(new)) = SumOver(f, left)
    <3>1. SumOver(new.bytes, Sessions(new)) = SumOver(new.bytes, left)
      <4> HIDE DEF left
      <4> QED
        BY <1>4, Zenon
    <3>2. IsFiniteSet(left)
      BY <1>0, QueuedIsFinite, FS_Subset
    <3>3. SumOver(new.bytes, left) = SumOver(f, left)
      <4> HIDE DEF left, f
      <4> QED
        BY <1>4, <3>2, SumSame
    <3> QED
      BY <3>1, <3>3, Zenon
  <2>2. ASSUME NEW s \in left PROVE HeldIn(new, s) <= new.bytes[s]
    <3>1. HeldIn(new, s) = HeldIn(st, s)
      BY <1>4 DEF HeldIn, Sizes
    <3> QED
      BY <1>0, <1>4, <3>1 DEF Charged
  <2>3. \A s \in Sessions(new) : HeldIn(new, s) <= new.bytes[s]
    BY <1>4, <2>2
  <2> QED
    BY <1>5, <2>1, <2>3 DEF Charged
<1> QED
  BY <1>1, <1>4, <1>5, <1>6, <1>7, <1>8 DEF Books, new

\* The front of the queue is taken off, and with it what those sessions held.
LEMMA PopKeepsBooks ==
  ASSUME NEW t, NEW st, Books(st, t), NEW n \in 0 .. Len(st.lru)
  PROVE  LET new == Pop(st, n)
         IN  /\ Books(new, t)
             /\ Sessions(new) = Sessions(st) \ {st.lru[i] : i \in 1 .. n}
             /\ Cardinality(Sessions(new)) = Len(st.lru) - n
             /\ n < Len(st.lru) => st.lru[Len(st.lru)] \in Sessions(new)
             /\ \A s \in Sessions(new) : new.held[s] = st.held[s] /\ new.bytes[s] = st.bytes[s]
<1> DEFINE new == Pop(st, n)
           victims == {st.lru[i] : i \in 1 .. n}
           rest == SubSeq(st.lru, n + 1, Len(st.lru))
           D == Drop(st, victims)
<1>1. /\ Books(D, t)
      /\ Sessions(D) = Sessions(st) \ victims
      /\ DOMAIN D = {"held", "bytes", "lru", "total"}
      /\ \A s \in Sessions(D) : D.held[s] = st.held[s] /\ D.bytes[s] = st.bytes[s]
  <2> HIDE DEF victims
  <2> QED
    BY DropKeepsBooks
<1>2. new = [D EXCEPT !.lru = rest]
  BY DEF Pop
<1> HIDE DEF new, D
<1>3. /\ new.held = D.held /\ new.bytes = D.bytes /\ new.total = D.total /\ new.lru = rest
      /\ DOMAIN new = DOMAIN D
  BY <1>1, <1>2
<1>4. Sessions(new) = Sessions(D)
  BY <1>3 DEF Sessions
<1>5. Shaped(new, t) /\ Charged(new)
  <2>1. Shaped(D, t) /\ Charged(D)
    BY <1>1 DEF Books
  <2>2. Shaped(new, t)
    BY <1>3, <2>1 DEF Shaped, Sessions
  <2>3. Charged(new)
    <3>1. SumOver(new.bytes, Sessions(new)) = SumOver(D.bytes, Sessions(D))
      BY <1>3, <1>4, Zenon
    <3>2. \A s \in Sessions(new) : HeldIn(new, s) = HeldIn(D, s)
      BY <1>3 DEF HeldIn, Sizes
    <3> QED
      BY <1>3, <1>4, <2>1, <3>1, <3>2 DEF Charged
  <2> QED
    BY <2>2, <2>3
<1>6. /\ st.lru \in Seq(Session) /\ Elements(st.lru) = Sessions(st) /\ Distinct(st.lru)
  BY DEF Books, Queued
<1>7. /\ rest \in Seq(Session) /\ Distinct(rest) /\ Len(rest) = Len(st.lru) - n
      /\ Elements(rest) = Elements(st.lru) \ victims
      /\ n < Len(st.lru) => rest[Len(rest)] = st.lru[Len(st.lru)]
  BY <1>6, DistinctTail
<1>8. Elements(rest) = Sessions(new)
  <2> HIDE DEF rest, victims
  <2> QED
    BY <1>1, <1>4, <1>6, <1>7, Zenon
<1>9. Queued(new)
  <2> HIDE DEF rest
  <2> QED
    BY <1>3, <1>7, <1>8, Zenon DEF Queued
<1>10. Cardinality(Sessions(new)) = Len(st.lru) - n
  <2> HIDE DEF rest
  <2> QED
    BY <1>3, <1>7, <1>9, QueuedIsFinite
<1>11. n < Len(st.lru) => st.lru[Len(st.lru)] \in Sessions(new)
  <2> SUFFICES ASSUME n < Len(st.lru) PROVE st.lru[Len(st.lru)] \in Sessions(new)
    OBVIOUS
  <2> DEFINE L == Len(rest)
  <2>1. Len(st.lru) \in Nat
    BY <1>6
  <2>2. L \in 1 .. L
    BY <1>7, <2>1
  <2>3. rest[L] \in Elements(rest)
    BY <2>2 DEF Elements
  <2>4. rest[L] = st.lru[Len(st.lru)]
    BY <1>7
  <2> HIDE DEF rest, L
  <2> QED
    BY <1>8, <2>3, <2>4
<1> QED
  BY <1>1, <1>3, <1>4, <1>5, <1>9, <1>10, <1>11, Zenon DEF Books, new

\* The loops stop, at the latest when the queue is empty, and no sooner than
\* they have to.
LEMMA EvictPops ==
  ASSUME NEW t, NEW st, Books(st, t)
  PROVE  \E n \in 0 .. Len(st.lru) :
            /\ Evict(st) = Pop(st, n)
            /\ Fits(Pop(st, n))
            /\ \A m \in 0 .. n - 1 : ~Fits(Pop(st, m))
<1> DEFINE L == Len(st.lru)
           stop(n) == Fits(Pop(st, n)) \/ n = L
           enough == {n \in 0 .. L : stop(n)}
<1>1. L \in Nat
  BY DEF Books, Queued
<1>2. enough \in SUBSET Nat /\ L \in enough
  BY <1>1
<1>3. \E n \in enough : \A m \in enough : n <= m
  <2> HIDE DEF enough
  <2> QED
    BY <1>2, LeastNumber
<1>4. Evict(st) = Pop(st, Min(enough))
  BY DEF Evict
<1>5. Min(enough) \in enough /\ \A m \in enough : Min(enough) <= m
  <2> HIDE DEF enough
  <2> QED
    BY <1>3 DEF Min
<1> DEFINE n == Min(enough)
<1>6. n \in 0 .. L /\ stop(n)
  BY <1>5
<1>7. ASSUME NEW m \in 0 .. n - 1 PROVE ~Fits(Pop(st, m))
  <2> SUFFICES ASSUME Fits(Pop(st, m)) PROVE FALSE
    OBVIOUS
  <2> HIDE DEF n
  <2>1. m \in 0 .. L /\ ~(n <= m)
    BY <1>1, <1>6
  <2> QED
    BY <1>5, <2>1 DEF n
<1>8. Fits(Pop(st, L))
  <2> DEFINE new == Pop(st, L)
  <2>1. /\ Books(new, t)
        /\ Cardinality(Sessions(new)) = Len(st.lru) - L
    <3> HIDE DEF new
    <3>1. L \in 0 .. L
      BY <1>1
    <3> QED
      BY <3>1, PopKeepsBooks DEF new
  <2>2. IsFiniteSet(Sessions(new)) /\ new.total = SumOver(new.bytes, Sessions(new))
    <3> HIDE DEF new
    <3> QED
      BY <2>1, QueuedIsFinite DEF Books, Charged
  <2> HIDE DEF new
  <2>3. Cardinality(Sessions(new)) = 0
    BY <1>1, <2>1
  <2>4. Sessions(new) = {}
    BY <2>2, <2>3, FS_EmptySet
  <2>5. new.total = 0
    <3>1. SumOver(new.bytes, Sessions(new)) = SumOver(new.bytes, {})
      BY <2>4, Zenon
    <3> QED
      BY <2>2, <3>1, SumEmpty
  <2> QED
    BY <2>3, <2>5, LimitsAreNumbers DEF Fits, new
<1>9. Fits(Pop(st, n))
  <2> HIDE DEF n
  <2> QED
    BY <1>6, <1>8
<1> HIDE DEF n
<1> QED
  BY <1>4, <1>6, <1>7, <1>9 DEF n

\* An entry that is too old goes without its charge.
LEMMA ExpireKeepsBooks ==
  ASSUME NEW t, NEW st, Books(st, t), NEW s \in Sessions(st), NEW c \in DOMAIN st.held[s]
  PROVE  LET new == [st EXCEPT !.held[s] = Restrict(@, DOMAIN @ \ {c})]
         IN  /\ Books(new, t)
             /\ new.total = st.total /\ Sessions(new) = Sessions(st)
<1> DEFINE new == [st EXCEPT !.held[s] = Restrict(@, DOMAIN @ \ {c})]
           S == Sessions(st)
           E == DOMAIN st.held[s]
<1>0. Shaped(st, t) /\ Queued(st) /\ Charged(st)
  BY DEF Books
<1>1. /\ DOMAIN new = {"held", "bytes", "lru", "total"}
      /\ new.bytes = st.bytes /\ new.lru = st.lru /\ new.total = st.total
      /\ DOMAIN new.held = S
      /\ new.held[s] = [x \in E \ {c} |-> st.held[s][x]]
      /\ \A r \in S : r # s => new.held[r] = st.held[r]
  BY <1>0 DEF Shaped, Sessions, Restrict
<1> HIDE DEF new
<1>2. Sessions(new) = S
  BY <1>1 DEF Sessions
<1>3. Shaped(new, t)
  <2>1. ASSUME NEW r \in S
        PROVE  /\ DOMAIN new.held[r] \subseteq Call
               /\ \A x \in DOMAIN new.held[r] :
                    new.held[r][x] \in [size : 1 .. MaxEntryBytes, created : 0 .. t]
    <3>1. CASE r = s
      BY <1>0, <1>1, <3>1 DEF Shaped
    <3>2. CASE r # s
      BY <1>0, <1>1, <3>2 DEF Shaped
    <3> QED
      BY <3>1, <3>2
  <2> QED
    BY <1>0, <1>1, <1>2, <2>1 DEF Shaped
<1>4. Queued(new)
  BY <1>0, <1>1, <1>2, Zenon DEF Queued
<1>5. Charged(new)
  <2>1. SumOver(new.bytes, Sessions(new)) = SumOver(st.bytes, S)
    BY <1>1, <1>2, Zenon
  <2>2. HeldIn(new, s) <= HeldIn(st, s) /\ HeldIn(st, s) \in Nat /\ HeldIn(new, s) \in Nat
    <3> DEFINE f == Sizes(st, s)
               g == Sizes(new, s)
               D == E \ {c}
    <3>1. IsFiniteSet(E) /\ \A x \in E : f[x] \in Nat
      BY <1>0, HeldIsNat
    <3>2. DOMAIN new.held[s] = D /\ \A x \in D : g[x] = f[x]
      BY <1>1 DEF Sizes
    <3>3. HeldIn(st, s) = SumOver(f, E)
      BY DEF HeldIn
    <3>4. HeldIn(new, s) = SumOver(g, D)
      <4>1. HeldIn(new, s) = SumOver(g, DOMAIN new.held[s])
        BY DEF HeldIn
      <4> HIDE DEF g, D
      <4> QED
        BY <3>2, <4>1, Zenon
    <3>5. f[c] \in Nat /\ IsFiniteSet(D) /\ \A x \in D : f[x] \in Nat
      <4> HIDE DEF f
      <4> QED
        BY <3>1, FS_Subset
    <3> HIDE DEF f, g
    <3>6. SumOver(f, E) = f[c] + SumOver(f, D)
      BY <3>1, SumRemove
    <3> HIDE DEF D
    <3>7. SumOver(g, D) = SumOver(f, D) /\ SumOver(f, D) \in Nat
      BY <3>2, <3>5, SumSame, SumIsNat
    <3> HIDE DEF E
    <3> QED
      BY <3>3, <3>4, <3>5, <3>6, <3>7
  <2>3. st.bytes[s] \in Nat /\ HeldIn(st, s) <= st.bytes[s]
    BY <1>0 DEF Charged, Shaped
  <2>4. HeldIn(new, s) <= new.bytes[s]
    BY <1>1, <2>2, <2>3
  <2>5. \A r \in S : r # s => HeldIn(new, r) = HeldIn(st, r)
    BY <1>1 DEF HeldIn, Sizes
  <2> QED
    BY <1>0, <1>1, <1>2, <2>1, <2>4, <2>5 DEF Charged
<1> QED
  BY <1>1, <1>2, <1>3, <1>4, <1>5 DEF Books, new

\* A store that is within its limits stays so when sessions go.
LEMMA SmallerFits ==
  ASSUME NEW st, NEW new, NEW t, Books(st, t), Books(new, t), Fits(st),
         new.total <= st.total, Sessions(new) \subseteq Sessions(st)
  PROVE  Fits(new)
<1>1. IsFiniteSet(Sessions(st))
  BY QueuedIsFinite DEF Books
<1>2. /\ Cardinality(Sessions(new)) <= Cardinality(Sessions(st))
      /\ Cardinality(Sessions(new)) \in Nat /\ Cardinality(Sessions(st)) \in Nat
  BY <1>1, FS_Subset, FS_CardinalityType
<1>3. st.total \in Nat /\ new.total \in Nat
  BY DEF Books, Shaped
<1> QED
  BY <1>2, <1>3, LimitsAreNumbers DEF Fits

-----------------------------------------------------------------------------
(* The theorems                                                            *)

LEMMA InvInit == Init => IInv
<1> SUFFICES ASSUME Init PROVE IInv
  OBVIOUS
<1> DEFINE e == <<>>
<1>1. /\ DOMAIN e = {} /\ e \in [{} -> Nat] /\ e \in Seq(Session)
      /\ Elements(e) = {} /\ Distinct(e)
  BY DEF Elements, Distinct
<1>2. /\ store.held = e /\ store.bytes = e /\ store.lru = e /\ store.total = 0
      /\ DOMAIN store = {"held", "bytes", "lru", "total"} /\ now = 0
  BY DEF Init
<1> HIDE DEF e
<1>3. Sessions(store) = {}
  BY <1>1, <1>2 DEF Sessions
<1>4. SumOver(store.bytes, Sessions(store)) = 0
  <2>1. SumOver(store.bytes, Sessions(store)) = SumOver(store.bytes, {})
    BY <1>3, Zenon
  <2> QED
    BY <2>1, SumEmpty
<1>5. Books(store, now)
  BY <1>1, <1>2, <1>3, <1>4 DEF Books, Shaped, Queued, Charged
<1>6. Cardinality(Sessions(store)) = 0
  BY <1>3, FS_EmptySet
<1> QED
  BY <1>2, <1>5, <1>6, LimitsAreNumbers DEF IInv, Fits

LEMMA InvNext == IInv /\ [Next]_<<now, store>> => IInv'
<1> SUFFICES ASSUME IInv, [Next]_<<now, store>> PROVE IInv'
  OBVIOUS
<1>0. now \in Nat /\ Books(store, now) /\ Fits(store)
  BY DEF IInv
<1>1. CASE Tick
  <2>1. now' \in Nat /\ now <= now' /\ store' = store
    BY <1>0, <1>1 DEF Tick
  <2>2. Shaped(store, now')
    <3>1. Shaped(store, now)
      BY <1>0 DEF Books
    <3>2. \A n \in 0 .. now : n \in 0 .. now'
      BY <1>0, <2>1
    <3> QED
      BY <3>1, <3>2 DEF Shaped
  <2>3. Books(store, now') /\ Fits(store)
    BY <1>0, <2>2 DEF Books
  <2> QED
    BY <2>1, <2>3 DEF IInv
<1>2. ASSUME NEW s \in Session, NEW calls \in SUBSET Call, NEW size \in Size,
             StoreTurn(s, calls, size)
      PROVE  IInv'
  <2> DEFINE st1 == Insert(store, s, calls, size)
             st2 == Sweep(st1)
  <2>1. size <= MaxEntryBytes /\ now' = now /\ store' = Evict(st2)
    BY <1>2 DEF StoreTurn
  <2>2. Books(st1, now)
    BY <1>0, <2>1, InsertKeepsBooks
  <2> HIDE DEF st1
  <2>3. Books(st2, now)
    BY <2>2, DropKeepsBooks DEF Sweep
  <2> HIDE DEF st2
  <2>4. PICK n \in 0 .. Len(st2.lru) : Evict(st2) = Pop(st2, n) /\ Fits(Pop(st2, n))
    BY <2>3, EvictPops
  <2>5. Books(Pop(st2, n), now)
    BY <2>3, PopKeepsBooks
  <2>6. Books(store', now') /\ Fits(store') /\ now' \in Nat
    BY <1>0, <2>1, <2>4, <2>5
  <2> QED
    BY <2>6 DEF IInv
<1>3. ASSUME NEW s \in Session, NEW c \in Call, RestoreExpired(s, c)
      PROVE  IInv'
  <2> DEFINE new == [store EXCEPT !.held[s] = Restrict(@, DOMAIN @ \ {c})]
  <2>1. s \in Sessions(store) /\ c \in DOMAIN store.held[s] /\ store' = new /\ now' = now
    BY <1>3 DEF RestoreExpired
  <2>2. Books(new, now) /\ new.total = store.total /\ Sessions(new) = Sessions(store)
    BY <1>0, <2>1, ExpireKeepsBooks
  <2> HIDE DEF new
  <2>3. Fits(new)
    BY <1>0, <2>2 DEF Fits
  <2>4. Books(store', now') /\ Fits(store') /\ now' \in Nat
    BY <1>0, <2>1, <2>2, <2>3
  <2> QED
    BY <2>4 DEF IInv
<1>4. ASSUME NEW s \in Session, ClearSession(s)
      PROVE  IInv'
  <2> DEFINE new == Drop(store, {s})
  <2>1. store' = new /\ now' = now
    BY <1>4 DEF ClearSession
  <2>2. Books(new, now) /\ new.total <= store.total /\ Sessions(new) \subseteq Sessions(store)
    BY <1>0, DropKeepsBooks
  <2> HIDE DEF new
  <2>3. Fits(new)
    BY <1>0, <2>2, SmallerFits
  <2>4. Books(store', now') /\ Fits(store') /\ now' \in Nat
    BY <1>0, <2>1, <2>2, <2>3
  <2> QED
    BY <2>4 DEF IInv
<1>5. CASE UNCHANGED <<now, store>>
  <2>1. now' = now /\ store' = store
    BY <1>5
  <2>2. Books(store', now') /\ Fits(store') /\ now' \in Nat
    BY <1>0, <2>1
  <2> QED
    BY <2>2 DEF IInv
<1> QED
  BY <1>1, <1>2, <1>3, <1>4, <1>5 DEF Next

\* Every call of ReasoningShadowStore leaves the queue, the charges and the total
\* agreeing with the sessions, and the limits kept.
THEOREM BooksAreKept == Spec => []IInv
<1> QED
  BY InvInit, InvNext, PTL DEF Spec

\* The bookkeeping of the store is exact between any two calls: the queue that
\* enforce_limits pops is the sessions, each once, and the total is what the
\* sessions were charged, which covers what they hold.
THEOREM ShadowInvHolds == Spec => []ShadowInv
<1>1. IInv => ShadowInv
  BY InvImplies
<1> QED
  BY <1>1, BooksAreKept, PTL

\* The texts that are held never exceed the limits, for any limits, any sizes
\* and any order of calls.
THEOREM LimitsHold == Spec => []WithinLimits
<1>1. IInv => WithinLimits
  BY InvImplies
<1> QED
  BY <1>1, BooksAreKept, PTL

\* The turn of a new session outlives the sweep, since it is not old, and the
\* eviction, since it is the last that the queue would give.
LEMMA FreshTurnStays ==
  ASSUME IInv, NEW s \in Session, NEW calls \in SUBSET Call, NEW size \in Size,
         s \notin Sessions(store), StoreTurn(s, calls, size),
         MaxSessions > 0, Cardinality(calls) * size <= MaxTotalBytes
  PROVE  s \in Sessions(store)' /\ calls \subseteq DOMAIN store'.held[s]
<1> DEFINE st1 == Insert(store, s, calls, size)
           gone == {r \in Sessions(st1) : \A c \in DOMAIN st1.held[r] : Old(st1.held[r][c])}
           st2 == Sweep(st1)
<1>0. now \in Nat /\ Books(store, now) /\ Ttl \in Nat
  BY LimitsAreNumbers DEF IInv
<1>1. size <= MaxEntryBytes /\ calls # {} /\ store' = Evict(st2)
  BY DEF StoreTurn
<1>2. /\ Books(st1, now) /\ Sessions(st1) = Sessions(store) \cup {s}
      /\ calls \subseteq DOMAIN st1.held[s]
      /\ \A c \in calls : st1.held[s][c].created = now
      /\ st1.lru = Append(store.lru, s)
      /\ st1.bytes[s] = Cardinality(calls) * size
  BY <1>0, <1>1, InsertKeepsBooks
<1>3. st2 = Drop(st1, gone)
  BY DEF Sweep
<1> HIDE DEF st1, st2
<1>4. s \in Sessions(st1) /\ s \notin gone
  <2>1. PICK c \in calls : TRUE
    BY <1>1
  <2>2. c \in DOMAIN st1.held[s] /\ st1.held[s][c].created = now
    BY <1>2, <2>1
  <2>3. ~Old(st1.held[s][c])
    BY <1>0, <2>2 DEF Old
  <2> QED
    BY <1>2, <2>2, <2>3
<1> HIDE DEF gone
<1>5. /\ Books(st2, now) /\ Sessions(st2) = Sessions(st1) \ gone
      /\ st2.lru = Without(st1.lru, gone)
      /\ \A r \in Sessions(st2) : st2.held[r] = st1.held[r] /\ st2.bytes[r] = st1.bytes[r]
  <2> DEFINE D == Drop(st1, gone)
  <2>1. /\ Books(D, now) /\ Sessions(D) = Sessions(st1) \ gone
        /\ D.lru = Without(st1.lru, gone)
        /\ \A r \in Sessions(D) : D.held[r] = st1.held[r] /\ D.bytes[r] = st1.bytes[r]
    <3>1. Books(st1, now)
      BY <1>2
    <3> QED
      BY <3>1, DropKeepsBooks
  <2> HIDE DEF D
  <2>2. st2 = D
    BY <1>3 DEF D
  <2> QED
    BY <2>1, <2>2
<1>6. s \in Sessions(st2)
  BY <1>4, <1>5
<1> DEFINE L == Len(st2.lru)
<1>7. L \in Nat /\ L > 0 /\ st2.lru[L] = s
  <2>1. store.lru \in Seq(Session)
    BY <1>0 DEF Books, Queued
  <2>2. /\ st1.lru \in Seq(Session) /\ st1.lru # <<>>
        /\ st1.lru[Len(st1.lru)] = s
    BY <1>2, <2>1
  <2> DEFINE q == Without(st1.lru, gone)
  <2>3. q \in Seq(Session) /\ q # <<>> /\ q[Len(q)] = s
    <3>1. st1.lru[Len(st1.lru)] \notin gone
      BY <1>4, <2>2
    <3> QED
      BY <2>2, <3>1, WithoutKeeps
  <2>4. st2.lru = q
    BY <1>5
  <2> HIDE DEF q
  <2>5. st2.lru \in Seq(Session) /\ st2.lru # <<>> /\ st2.lru[L] = s
    BY <2>3, <2>4
  <2> HIDE DEF L
  <2> QED
    BY <2>5 DEF L
<1>8. PICK n \in 0 .. L : /\ Evict(st2) = Pop(st2, n)
                          /\ \A m \in 0 .. n - 1 : ~Fits(Pop(st2, m))
  BY <1>5, EvictPops
<1>9. Fits(Pop(st2, L - 1))
  <2> DEFINE last == Pop(st2, L - 1)
  <2>1. /\ Books(last, now) /\ Cardinality(Sessions(last)) = L - (L - 1)
        /\ L - 1 < L => s \in Sessions(last)
        /\ \A r \in Sessions(last) : last.bytes[r] = st2.bytes[r]
    <3>1. L - 1 \in 0 .. L
      BY <1>7
    <3> QED
      BY <1>5, <1>7, <3>1, PopKeepsBooks
  <2> HIDE DEF last
  <2>2. Cardinality(Sessions(last)) = 1 /\ s \in Sessions(last)
    BY <1>7, <2>1
  <2>3. IsFiniteSet(Sessions(last)) /\ last.total = SumOver(last.bytes, Sessions(last))
    BY <2>1, QueuedIsFinite DEF Books, Charged
  <2>4. Sessions(last) = {s}
    BY <2>2, <2>3, FS_Singleton
  <2>5. last.bytes[s] \in Nat /\ last.bytes[s] = Cardinality(calls) * size
    <3>1. last.bytes[s] \in Nat
      BY <2>1, <2>2 DEF Books, Shaped
    <3>2. last.bytes[s] = st1.bytes[s]
      BY <1>5, <1>6, <2>1, <2>2
    <3> QED
      BY <1>2, <3>1, <3>2
  <2>6. last.total = last.bytes[s]
    <3> DEFINE f == last.bytes
    <3>1. SumOver(f, Sessions(last)) = SumOver(f, {s})
      BY <2>4, Zenon
    <3>2. IsFiniteSet({s}) /\ {s} \ {s} = {} /\ s \in {s}
      BY FS_Singleton
    <3>3. SumOver(f, {s}) = f[s] + SumOver(f, {s} \ {s})
      <4>1. \A x \in {s} : f[x] \in Nat
        BY <2>5
      <4> HIDE DEF f
      <4> QED
        BY <3>2, <4>1, SumRemove
    <3>4. SumOver(f, {s} \ {s}) = 0
      <4>1. SumOver(f, {s} \ {s}) = SumOver(f, {})
        BY <3>2, Zenon
      <4> QED
        BY <4>1, SumEmpty
    <3> QED
      BY <2>3, <2>5, <3>1, <3>3, <3>4
  <2> QED
    BY <2>2, <2>5, <2>6, LimitsAreNumbers DEF Fits, last
<1>10. n < L
  <2> SUFFICES ASSUME n = L PROVE FALSE
    BY <1>7
  <2>1. L - 1 \in 0 .. n - 1
    BY <1>7
  <2> QED
    BY <1>8, <1>9, <2>1
<1>11. s \in Sessions(Pop(st2, n)) /\ Pop(st2, n).held[s] = st2.held[s]
  BY <1>5, <1>7, <1>10, PopKeepsBooks
<1>12. store' = Pop(st2, n) /\ st2.held[s] = st1.held[s]
  BY <1>1, <1>5, <1>6, <1>8
<1>13. s \in Sessions(store')
  BY <1>11, <1>12
<1> QED
  BY <1>2, <1>11, <1>12, <1>13 DEF Sessions

\* Pressure costs a new session nothing, whatever the others hold.
THEOREM NewSessionIsKept == Spec => NewSessionSurvives
<1>1. IInv /\ [Next]_<<now, store>> =>
        [\A s \in Session, calls \in SUBSET Call, size \in Size :
           /\ s \notin Sessions(store)
           /\ StoreTurn(s, calls, size)
           /\ MaxSessions > 0 /\ Cardinality(calls) * size <= MaxTotalBytes
           => s \in Sessions(store)' /\ calls \subseteq DOMAIN store'.held[s]]_<<now, store>>
  BY FreshTurnStays
<1> QED
  BY <1>1, BooksAreKept, PTL DEF Spec, NewSessionSurvives
===============================================================================
