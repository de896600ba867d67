---------------------------- MODULE LogWriterProofs ----------------------------
(***************************************************************************)
(* Proofs about LogWriter, for any sizes of records, files, buffer, queue  *)
(* and quota, and any directory that the first process finds.              *)
(***************************************************************************)
EXTENDS LogWriter, CollectionLemmas

Segment == [file : File, bytes : Nat]

LEMMA LimitsAreNumbers ==
  /\ Capacity \in Nat /\ MaxFile \in Nat /\ MaxTotal \in Nat /\ Target \in Nat
  /\ BufferSize \in Nat /\ MaxRecords \in Nat /\ MaxStarts \in Nat
  /\ MaxFile > 0 /\ NoFile \notin Nat
  /\ \A size \in Size : size \in Nat /\ size > 0
BY LimitsAssumption DEF NoFile

-----------------------------------------------------------------------------
(* The sum of the segments                                                 *)

Bytes(segs) == [i \in 1 .. Len(segs) |-> segs[i].bytes]

LEMMA BytesAreNumbers ==
  ASSUME NEW segs \in Seq(Segment)
  PROVE  /\ Len(segs) \in Nat /\ IsFiniteSet(1 .. Len(segs))
         /\ DOMAIN segs = 1 .. Len(segs)
         /\ \A i \in 1 .. Len(segs) : segs[i] \in Segment /\ Bytes(segs)[i] \in Nat
         /\ BytesOf(segs) = SumOver(Bytes(segs), 1 .. Len(segs))
         /\ BytesOf(segs) \in Nat
<1>1. Len(segs) \in Nat /\ DOMAIN segs = 1 .. Len(segs)
  OBVIOUS
<1>2. IsFiniteSet(1 .. Len(segs))
  BY <1>1, FS_Interval
<1>3. \A i \in 1 .. Len(segs) : segs[i] \in Segment /\ Bytes(segs)[i] \in Nat
  <2>1. \A i \in 1 .. Len(segs) : segs[i] \in Segment
    OBVIOUS
  <2>2. \A i \in 1 .. Len(segs) : segs[i].bytes \in Nat
    BY <2>1 DEF Segment
  <2> QED
    BY <2>1, <2>2 DEF Bytes
<1>4. BytesOf(segs) = SumOver(Bytes(segs), 1 .. Len(segs))
  BY DEF BytesOf, Bytes
<1>5. SumOver(Bytes(segs), 1 .. Len(segs)) \in Nat
  BY <1>2, <1>3, SumIsNat
<1> QED
  BY <1>1, <1>2, <1>3, <1>4, <1>5

LEMMA BytesOfAppend ==
  ASSUME NEW segs \in Seq(Segment), NEW segment \in Segment
  PROVE  BytesOf(Append(segs, segment)) = BytesOf(segs) + segment.bytes
<1> DEFINE longer == Append(segs, segment)
           n == Len(segs)
           f == Bytes(segs)
           g == Bytes(longer)
           I == 1 .. n
<1>1. longer \in Seq(Segment) /\ Len(longer) = n + 1 /\ n \in Nat
  OBVIOUS
<1>2. longer[n + 1] = segment /\ \A i \in I : longer[i] = segs[i]
  OBVIOUS
<1>3. 1 .. Len(longer) = I \cup {n + 1} /\ n + 1 \notin I
  BY <1>1
<1>4. g[n + 1] = segment.bytes /\ \A i \in I : g[i] = f[i]
  BY <1>1, <1>2, <1>3 DEF Bytes
<1>5. /\ IsFiniteSet(I) /\ (\A i \in I : f[i] \in Nat)
      /\ BytesOf(segs) = SumOver(f, I) /\ BytesOf(longer) = SumOver(g, 1 .. Len(longer))
      /\ SumOver(f, I) \in Nat /\ segment.bytes \in Nat
  <2>1. segment.bytes \in Nat
    BY DEF Segment
  <2> HIDE DEF longer, f, g
  <2> QED
    BY <1>1, <2>1, BytesAreNumbers DEF f, g
<1> HIDE DEF longer, f, g, I, n
<1>6. SumOver(g, 1 .. Len(longer)) = SumOver(g, I \cup {n + 1})
  BY <1>3, Zenon
<1>7. \A i \in I \cup {n + 1} : g[i] \in Nat
  BY <1>4, <1>5
<1>8. SumOver(g, I \cup {n + 1}) = g[n + 1] + SumOver(g, I)
  BY <1>3, <1>5, <1>7, SumAdd
<1>9. SumOver(g, I) = SumOver(f, I)
  BY <1>4, <1>5, SumSame
<1> QED
  BY <1>4, <1>5, <1>6, <1>8, <1>9 DEF longer

LEMMA BytesOfTail ==
  ASSUME NEW segs \in Seq(Segment), segs # <<>>
  PROVE  /\ Head(segs).bytes \in Nat
         /\ BytesOf(segs) = Head(segs).bytes + BytesOf(Tail(segs))
<1> DEFINE rest == Tail(segs)
           n == Len(segs)
           f == Bytes(rest)
           g == Bytes(segs)
           S == 1 .. Len(rest)
           h == [i \in S |-> i + 1]
<1>1. /\ n \in Nat /\ n > 0 /\ rest \in Seq(Segment) /\ Len(rest) = n - 1
      /\ \A i \in 1 .. n - 1 : rest[i] = segs[i + 1]
      /\ Head(segs) = segs[1]
  OBVIOUS
<1>2. /\ IsFiniteSet(1 .. n) /\ (\A i \in 1 .. n : g[i] \in Nat)
      /\ IsFiniteSet(S) /\ (\A i \in S : f[i] \in Nat)
      /\ BytesOf(segs) = SumOver(g, 1 .. n) /\ BytesOf(rest) = SumOver(f, S)
      /\ BytesOf(rest) \in Nat
  <2> HIDE DEF rest, f, g
  <2> QED
    BY <1>1, BytesAreNumbers DEF f, g
<1>3. {h[i] : i \in S} = (1 .. n) \ {1}
  <2>1. \A i \in S : h[i] \in (1 .. n) \ {1}
    BY <1>1
  <2>2. \A j \in (1 .. n) \ {1} : j - 1 \in S /\ h[j - 1] = j
    BY <1>1
  <2> HIDE DEF h, S
  <2> QED
    BY <2>1, <2>2
<1>4. \A i, j \in S : h[i] = h[j] => i = j
  BY <1>1
<1>5. \A i \in S : f[i] = g[h[i]]
  BY <1>1 DEF Bytes
<1>6. g[1] = Head(segs).bytes /\ 1 \in 1 .. n
  BY <1>1 DEF Bytes
<1> HIDE DEF rest, f, g, S, h, n
<1>7. SumOver(f, S) = SumOver(g, {h[i] : i \in S})
  BY <1>2, <1>4, <1>5, SumRenamed
<1>8. SumOver(g, {h[i] : i \in S}) = SumOver(g, (1 .. n) \ {1})
  BY <1>3, Zenon
<1>9. SumOver(g, 1 .. n) = g[1] + SumOver(g, (1 .. n) \ {1})
  BY <1>2, <1>6, SumRemove
<1>10. g[1] \in Nat
  BY <1>2, <1>6
<1> QED
  BY <1>2, <1>6, <1>7, <1>8, <1>9, <1>10 DEF rest

\* The record that is written counts for the last segment.
LEMMA BytesOfGrown ==
  ASSUME NEW segs \in Seq(Segment), segs # <<>>, NEW k \in Nat
  PROVE  LET grown == [segs EXCEPT ![Len(segs)].bytes = @ + k]
         IN  /\ grown \in Seq(Segment) /\ Len(grown) = Len(segs)
             /\ \A i \in 1 .. Len(segs) :
                  /\ grown[i].file = segs[i].file
                  /\ grown[i].bytes = segs[i].bytes + (IF i = Len(segs) THEN k ELSE 0)
             /\ BytesOf(grown) = BytesOf(segs) + k
<1> DEFINE n == Len(segs)
           grown == [segs EXCEPT ![n].bytes = @ + k]
           I == 1 .. n
           f == Bytes(segs)
           g == Bytes(grown)
<1>1. n \in Nat /\ n > 0 /\ DOMAIN segs = I /\ n \in I /\ \A i \in I : segs[i] \in Segment
  OBVIOUS
<1>2. /\ DOMAIN grown = I
      /\ grown[n] = [file |-> segs[n].file, bytes |-> segs[n].bytes + k]
      /\ \A i \in I : i # n => grown[i] = segs[i]
  BY <1>1 DEF Segment
<1>3. \A i \in I : grown[i] \in Segment
  <2>1. segs[n].bytes \in Nat /\ segs[n].file \in File
    BY <1>1 DEF Segment
  <2>2. [file |-> segs[n].file, bytes |-> segs[n].bytes + k] \in Segment
    BY <2>1 DEF Segment
  <2> HIDE DEF grown, n
  <2> QED
    BY <1>1, <1>2, <2>2
<1>4. grown \in Seq(Segment) /\ Len(grown) = n
  <2>1. grown = [i \in I |-> grown[i]]
    BY <1>1, <1>2
  <2>2. [i \in I |-> grown[i]] \in Seq(Segment) /\ Len([i \in I |-> grown[i]]) = n
    <3> HIDE DEF grown
    <3> QED
      BY <1>1, <1>3
  <2> HIDE DEF grown
  <2> QED
    BY <2>1, <2>2
<1>5. \A i \in I : /\ grown[i].file = segs[i].file
                   /\ grown[i].bytes = segs[i].bytes + (IF i = n THEN k ELSE 0)
  <2> SUFFICES ASSUME NEW i \in I
               PROVE  /\ grown[i].file = segs[i].file
                      /\ grown[i].bytes = segs[i].bytes + (IF i = n THEN k ELSE 0)
    OBVIOUS
  <2>1. segs[i].bytes \in Nat
    BY <1>1 DEF Segment
  <2> HIDE DEF grown
  <2>2. CASE i = n
    BY <1>2, <2>1, <2>2
  <2>3. CASE i # n
    BY <1>2, <2>1, <2>3
  <2> QED
    BY <2>2, <2>3
<1> HIDE DEF grown
<1>6. /\ g[n] = f[n] + k /\ (\A i \in I \ {n} : g[i] = f[i])
      /\ \A i \in I : g[i] = grown[i].bytes
  <2>1. \A i \in I : f[i] = segs[i].bytes /\ g[i] = grown[i].bytes /\ segs[i].bytes \in Nat
    BY <1>1, <1>4 DEF Bytes, Segment
  <2> HIDE DEF f, g, n, I
  <2>2. g[n] = f[n] + k
    BY <1>1, <1>5, <2>1
  <2>3. ASSUME NEW i \in I \ {n} PROVE g[i] = f[i]
    <3>1. i \in I /\ i # n
      OBVIOUS
    <3>2. grown[i].bytes = segs[i].bytes + 0 /\ segs[i].bytes \in Nat
      BY <1>5, <2>1, <3>1
    <3> QED
      BY <2>1, <3>1, <3>2
  <2> QED
    BY <2>1, <2>2, <2>3
<1>7. /\ IsFiniteSet(I) /\ (\A i \in I : f[i] \in Nat) /\ (\A i \in I : g[i] \in Nat)
      /\ BytesOf(segs) = SumOver(f, I) /\ BytesOf(grown) = SumOver(g, I)
  <2> HIDE DEF f, g, n
  <2>1. BytesOf(grown) = SumOver(g, 1 .. Len(grown)) /\ \A i \in 1 .. Len(grown) : g[i] \in Nat
    BY <1>4, BytesAreNumbers DEF g
  <2>2. IsFiniteSet(I) /\ (\A i \in I : f[i] \in Nat) /\ BytesOf(segs) = SumOver(f, I)
    BY BytesAreNumbers DEF f, n
  <2>3. SumOver(g, 1 .. Len(grown)) = SumOver(g, I)
    BY <1>4, Zenon
  <2> QED
    BY <1>4, <2>1, <2>2, <2>3
<1> HIDE DEF f, g, I
<1>8. SumOver(g, I) = g[n] + SumOver(g, I \ {n}) /\ SumOver(f, I) = f[n] + SumOver(f, I \ {n})
  BY <1>1, <1>7, SumRemove
<1>9. IsFiniteSet(I \ {n}) /\ f[n] \in Nat /\ SumOver(f, I \ {n}) \in Nat
  <2>1. IsFiniteSet(I \ {n}) /\ \A i \in I \ {n} : f[i] \in Nat
    BY <1>7, FS_Subset
  <2> QED
    BY <1>1, <1>7, <2>1, SumIsNat
<1>10. SumOver(g, I \ {n}) = SumOver(f, I \ {n})
  BY <1>6, <1>9, SumSame
<1>11. BytesOf(grown) = BytesOf(segs) + k
  BY <1>6, <1>7, <1>8, <1>9, <1>10
<1> QED
  BY <1>4, <1>5, <1>11 DEF grown, I

-----------------------------------------------------------------------------
(* The inductive invariant                                                 *)

Ordered(segs) ==
  \A i, j \in 1 .. Len(segs) : i < j => segs[i].file < segs[j].file

\* Without a process there is no memory.
Asleep ==
  process = "down" =>
    /\ pc = "stopped" /\ segments = <<>> /\ active = NoFile /\ buffer = 0
    /\ degraded = FALSE /\ stuck = {}

\* The file that is written is the last segment, and of this run; without one
\* nothing is buffered.
Writing ==
  /\ active # NoFile =>
       /\ segments # <<>> /\ segments[Len(segments)].file = active
       /\ disk[active].by = starts
  /\ active = NoFile => buffer = 0

Phases ==
  /\ process = "starting" => pc = "cleaning"
  /\ pc \in {"writing", "cleaning"} => ~degraded
  /\ pc = "writing" => hand > 0

\* Cleaning comes after each record, so that the quota holds wherever a record
\* is waited for, and on the way there.
WithinQuota ==
  pc \in {"waiting", "flushing", "reporting"} /\ ~degraded =>
    total <= MaxTotal \/ Len(segments) <= 1

Directory == AccountsForDirectory /\ Ordered(segments) /\ Writing

Control == Asleep /\ Phases /\ WithinQuota

IInv == TypeOK /\ Directory /\ Control

-----------------------------------------------------------------------------
(* The directory                                                           *)

LEMMA FilesAreFinite ==
  ASSUME NEW segs \in Seq(Segment)
  PROVE  /\ IsFiniteSet(FilesOf(segs)) /\ FilesOf(segs) \subseteq Nat
         /\ \A i \in 1 .. Len(segs) : segs[i].file \in FilesOf(segs)
<1> DEFINE I == 1 .. Len(segs)
           h == [i \in I |-> segs[i].file]
           F == FilesOf(segs)
<1>1. IsFiniteSet(I) /\ \A i \in I : segs[i] \in Segment
  BY BytesAreNumbers
<1>2. F \subseteq Nat /\ \A i \in I : segs[i].file \in F
  BY <1>1 DEF FilesOf, Segment, File
<1>3. h \in Surjection(I, F)
  BY DEF FilesOf, Surjection
<1>4. IsFiniteSet(F)
  <2> HIDE DEF h, F, I
  <2> QED
    BY <1>1, <1>3, FS_Surjection
<1> QED
  BY <1>2, <1>4

\* scan lists every file once, oldest first, with its size.
LEMMA ScanLists ==
  ASSUME NEW files, IsFiniteSet(DOMAIN files), DOMAIN files \subseteq File,
         \A f \in DOMAIN files : files[f].bytes \in Nat
  PROVE  LET segs == Scan(files)
         IN  /\ segs \in Seq(Segment) /\ Ordered(segs)
             /\ FilesOf(segs) = DOMAIN files
             /\ \A i \in 1 .. Len(segs) : segs[i].bytes = files[segs[i].file].bytes
<1> DEFINE N == DOMAIN files
           n == Cardinality(N)
           rank(f) == Cardinality({g \in N : g < f})
           order == OldestFirst(N)
           segs == Scan(files)
<1>1. N \in SUBSET Nat /\ IsFiniteSet(N) /\ n \in Nat
  BY FS_CardinalityType DEF File
<1>2. /\ \A i \in 1 .. n : \E f \in N : rank(f) = i - 1
      /\ \A f, g \in N : rank(f) < rank(g) <=> f < g
      /\ \A f \in N : rank(f) \in 0 .. n - 1
  <2> HIDE DEF N
  <2> QED
    BY <1>1, RankIsTaken
<1>3. order = [i \in 1 .. n |-> CHOOSE f \in N : rank(f) = i - 1]
  BY DEF OldestFirst
<1>4. \A i \in 1 .. n : order[i] \in N /\ rank(order[i]) = i - 1
  <2> HIDE DEF rank, N, order
  <2> QED
    BY <1>2, <1>3
<1>5. DOMAIN order = 1 .. n /\ Len(order) = n
  <2>1. order \in [1 .. n -> N]
    <3> HIDE DEF rank, N, order
    <3> QED
      BY <1>3, <1>4
  <2>2. order \in Seq(N)
    BY <1>1, <2>1
  <2> HIDE DEF order, N
  <2> QED
    BY <1>1, <2>1, <2>2
<1>6. segs = [i \in 1 .. n |-> [file |-> order[i], bytes |-> files[order[i]].bytes]]
  <2>1. segs = [i \in 1 .. Len(order) |-> [file |-> order[i], bytes |-> files[order[i]].bytes]]
    BY DEF Scan, Sized
  <2> HIDE DEF order, segs
  <2> QED
    BY <1>5, <2>1
<1> HIDE DEF order, segs
<1>7. \A i \in 1 .. n : /\ segs[i] \in Segment
                        /\ segs[i].file = order[i] /\ segs[i].bytes = files[order[i]].bytes
  BY <1>1, <1>4, <1>6 DEF Segment, File
<1>8. segs \in Seq(Segment) /\ Len(segs) = n
  BY <1>1, <1>6, <1>7
<1>9. Ordered(segs)
  <2> SUFFICES ASSUME NEW i \in 1 .. n, NEW j \in 1 .. n, i < j
               PROVE  order[i] < order[j]
    BY <1>7, <1>8 DEF Ordered
  <2>1. rank(order[i]) = i - 1 /\ rank(order[j]) = j - 1 /\ order[i] \in N /\ order[j] \in N
    BY <1>4
  <2>2. i - 1 < j - 1
    BY <1>1
  <2> HIDE DEF rank, N
  <2> QED
    BY <1>2, <2>1, <2>2
<1>10. FilesOf(segs) = N
  <2>1. FilesOf(segs) = {order[i] : i \in 1 .. n}
    BY <1>7, <1>8 DEF FilesOf
  <2>2. ASSUME NEW f \in N PROVE \E i \in 1 .. n : order[i] = f
    <3>1. rank(f) + 1 \in 1 .. n /\ rank(f) \in Nat
      <4> HIDE DEF rank
      <4> QED
        BY <1>1, <1>2
    <3> DEFINE i == rank(f) + 1
    <3>2. order[i] \in N /\ rank(order[i]) = i - 1
      BY <1>4, <3>1
    <3>3. rank(order[i]) = rank(f)
      <4> HIDE DEF rank
      <4> QED
        BY <3>1, <3>2
    <3>4. ~(order[i] < f) /\ ~(f < order[i])
      <4> DEFINE g == order[i]
      <4>1. (rank(g) < rank(f) <=> g < f) /\ (rank(f) < rank(g) <=> f < g)
        BY <1>2, <3>2
      <4> HIDE DEF rank, g
      <4> QED
        BY <3>1, <3>3, <4>1 DEF g
    <3>5. order[i] \in Nat /\ f \in Nat
      BY <1>1, <3>2
    <3>6. order[i] = f
      <4> HIDE DEF i
      <4> QED
        BY <3>4, <3>5
    <3> QED
      BY <3>1, <3>6
  <2> QED
    BY <1>4, <2>1, <2>2
<1>11. \A i \in 1 .. n : segs[i].bytes = files[segs[i].file].bytes
  BY <1>7
<1> QED
  BY <1>8, <1>9, <1>10, <1>11 DEF segs

\* What open_fresh_segment makes of the segments and of the directory.
Opened(segs, files, run, new, longer, opened) ==
  /\ new = Fresh(segs, files)
  /\ longer = Append(segs, [file |-> new, bytes |-> 0])
  /\ opened = [f \in DOMAIN files \cup {new} |->
                 IF f = new THEN [by |-> run, bytes |-> 0] ELSE files[f]]

\* A number that is free, and higher than those of all segments; nothing else
\* changes.
FreshOpened(segs, files, run, new, longer, opened) ==
  /\ new \in Nat /\ new \notin DOMAIN files /\ new \notin FilesOf(segs)
  /\ longer \in Seq(Segment) /\ Ordered(longer)
  /\ FilesOf(longer) = FilesOf(segs) \cup {new}
  /\ BytesOf(longer) = BytesOf(segs)
  /\ Len(longer) = Len(segs) + 1 /\ Len(segs) \in Nat
  /\ longer[Len(segs) + 1] = [file |-> new, bytes |-> 0]
  /\ \A i \in 1 .. Len(segs) : longer[i] = segs[i] /\ segs[i].file # new
  /\ DOMAIN opened = DOMAIN files \cup {new}
  /\ opened[new] = [by |-> run, bytes |-> 0]
  /\ \A f \in DOMAIN files : opened[f] = files[f]

\* open_fresh_segment finds such a number.
LEMMA FreshIsNew ==
  ASSUME NEW segs \in Seq(Segment), Ordered(segs), NEW files, NEW run,
         IsFiniteSet(DOMAIN files), DOMAIN files \subseteq File,
         NEW new, NEW longer, NEW opened, Opened(segs, files, run, new, longer, opened)
  PROVE  FreshOpened(segs, files, run, new, longer, opened)
<1> DEFINE F == {0} \cup FilesOf(segs)
           top == Max(F)
           k == Cardinality(DOMAIN files)
           free == {f \in top + 1 .. top + 1 + k : f \notin DOMAIN files}
<1>1. F \in SUBSET Nat /\ IsFiniteSet(F) /\ F # {}
  <2>1. IsFiniteSet(FilesOf(segs)) /\ FilesOf(segs) \subseteq Nat
    BY FilesAreFinite
  <2>2. IsFiniteSet(FilesOf(segs) \cup {0})
    BY <2>1, FS_AddElement
  <2>3. F = FilesOf(segs) \cup {0} /\ 0 \in F
    OBVIOUS
  <2>4. F \in SUBSET Nat
    BY <2>1
  <2> HIDE DEF F
  <2>5. IsFiniteSet(F)
    BY <2>2, <2>3, Zenon
  <2> QED
    BY <2>3, <2>4, <2>5
<1>2. top \in F /\ \A f \in F : f <= top
  <2> HIDE DEF F
  <2>1. \E m \in F : \A f \in F : f <= m
    BY <1>1, GreatestNumber
  <2>2. \E m \in F : \A f \in F : m >= f
    BY <1>1, <2>1
  <2>3. top \in F /\ \A f \in F : top >= f
    BY <2>2 DEF Max
  <2> QED
    BY <1>1, <2>3
<1>3. top \in Nat /\ \A f \in FilesOf(segs) : f \in Nat /\ f <= top
  BY <1>1, <1>2
<1> HIDE DEF top
<1>4. k \in Nat
  BY FS_CardinalityType
<1>5. free \in SUBSET Nat /\ free # {}
  <2>1. free \in SUBSET Nat
    BY <1>3, <1>4
  <2>2. ASSUME free = {} PROVE FALSE
    <3> DEFINE J == top + 1 .. top + 1 + k
    <3>1. J \in SUBSET DOMAIN files
      BY <2>2
    <3>2. Cardinality(J) = k + 1
      <4> DEFINE a == top + 1
                 b == top + 1 + k
      <4>1. a \in Int /\ b \in Int /\ a <= b /\ b - a + 1 = k + 1
        BY <1>3, <1>4
      <4>2. J = a .. b
        OBVIOUS
      <4> HIDE DEF J, k, a, b
      <4>3. Cardinality(a .. b) = IF a > b THEN 0 ELSE b - a + 1
        BY <4>1, FS_Interval
      <4> QED
        BY <4>1, <4>2, <4>3
    <3>3. Cardinality(J) <= k
      <4> HIDE DEF J
      <4> QED
        BY <3>1, FS_Subset
    <3> HIDE DEF J, k
    <3> QED
      BY <1>4, <3>2, <3>3
  <2> QED
    BY <2>1, <2>2
<1>6. Min(free) \in free
  <2> HIDE DEF free
  <2>1. \E m \in free : \A f \in free : m <= f
    BY <1>5, LeastNumber
  <2> QED
    BY <2>1 DEF Min
<1>7. /\ new = Min(free)
      /\ longer = Append(segs, [file |-> new, bytes |-> 0])
      /\ opened = [f \in DOMAIN files \cup {new} |->
                    IF f = new THEN [by |-> run, bytes |-> 0] ELSE files[f]]
  BY DEF Opened, Fresh, top
<1>8. new \in Nat /\ new > top /\ new \notin DOMAIN files
  <2> DEFINE m == Min(free)
  <2>1. m \in top + 1 .. top + 1 + k /\ m \notin DOMAIN files
    BY <1>6
  <2> HIDE DEF m
  <2>2. m \in Nat /\ m > top
    BY <1>3, <1>4, <2>1
  <2> QED
    BY <1>7, <2>1, <2>2 DEF m
<1> DEFINE last == [file |-> new, bytes |-> 0]
           n == Len(segs)
<1>9. last \in Segment
  BY <1>8 DEF Segment, File
<1>10. /\ n \in Nat /\ longer \in Seq(Segment) /\ Len(longer) = n + 1
       /\ longer[n + 1] = last /\ \A i \in 1 .. n : longer[i] = segs[i]
  <2> HIDE DEF last
  <2> QED
    BY <1>7, <1>9 DEF last
<1>11. \A i \in 1 .. n : segs[i].file \in FilesOf(segs)
  BY FilesAreFinite
<1>12. \A f \in FilesOf(segs) : f < new
  BY <1>3, <1>8
<1>13. new \notin FilesOf(segs)
  BY <1>8, <1>12
<1>14. \A i \in 1 .. n : segs[i].file < new /\ segs[i].file # new
  BY <1>11, <1>12, <1>13
<1>15. Ordered(longer)
  <2> SUFFICES ASSUME NEW i \in 1 .. n + 1, NEW j \in 1 .. n + 1, i < j
               PROVE  longer[i].file < longer[j].file
    BY <1>10 DEF Ordered
  <2>1. i \in 1 .. n /\ longer[i] = segs[i]
    BY <1>10
  <2>2. CASE j \in 1 .. n
    BY <1>10, <2>1, <2>2 DEF Ordered
  <2>3. CASE j = n + 1
    BY <1>10, <1>14, <2>1, <2>3
  <2>4. j \in 1 .. n \/ j = n + 1
    BY <1>10
  <2> HIDE DEF n
  <2> QED
    BY <2>2, <2>3, <2>4
<1>16. FilesOf(longer) = FilesOf(segs) \cup {new}
  <2>1. FilesOf(longer) = {longer[i].file : i \in 1 .. n + 1}
    BY <1>10 DEF FilesOf
  <2>2. \A i \in 1 .. n + 1 : i \in 1 .. n \/ i = n + 1
    BY <1>10
  <2>3. n + 1 \in 1 .. n + 1 /\ \A i \in 1 .. n : i \in 1 .. n + 1
    BY <1>10
  <2>4. longer[n + 1].file = new /\ \A i \in 1 .. n : longer[i].file = segs[i].file
    BY <1>10
  <2> QED
    BY <2>1, <2>2, <2>3, <2>4 DEF FilesOf
<1>17. BytesOf(longer) = BytesOf(segs)
  <2>1. BytesOf(Append(segs, last)) = BytesOf(segs) + last.bytes
    BY <1>9, BytesOfAppend
  <2>2. BytesOf(segs) \in Nat
    BY BytesAreNumbers
  <2> QED
    BY <1>7, <2>1, <2>2
<1>18. /\ DOMAIN opened = DOMAIN files \cup {new}
       /\ opened[new] = [by |-> run, bytes |-> 0]
       /\ \A f \in DOMAIN files : opened[f] = files[f]
  BY <1>7, <1>8
<1> QED
  BY <1>7, <1>8, <1>10, <1>13, <1>14, <1>15, <1>16, <1>17, <1>18 DEF FreshOpened

-----------------------------------------------------------------------------
(* What the steps rest on                                                  *)

LEMMA ActiveIsLast ==
  ASSUME IInv, active # NoFile
  PROVE  /\ process # "down" /\ active \in Nat
         /\ Len(segments) \in 1 .. Len(segments) /\ segments[Len(segments)].file = active
         /\ active \in DOMAIN disk /\ active \notin stuck /\ disk[active].by = starts
         /\ \A i \in 1 .. Len(segments) : segments[i].file = active <=> i = Len(segments)
<1>1. segments \in Seq(Segment) /\ active \in Nat
  BY DEF IInv, TypeOK, Segment, File
<1>2. process # "down"
  BY DEF IInv, Control, Asleep
<1>3. segments # <<>> /\ segments[Len(segments)].file = active /\ disk[active].by = starts
  BY DEF IInv, Directory, Writing
<1>4. Len(segments) \in 1 .. Len(segments)
  BY <1>1, <1>3
<1>5. /\ FilesOf(segments) = DOMAIN disk \ stuck
      /\ \A i \in 1 .. Len(segments) : segments[i].file = active => i = Len(segments)
  BY <1>2 DEF IInv, Directory, AccountsForDirectory
<1>6. active \in FilesOf(segments)
  BY <1>1, <1>3, <1>4, FilesAreFinite
<1> QED
  BY <1>1, <1>2, <1>3, <1>4, <1>5, <1>6

LEMMA FlushedGrows ==
  ASSUME IInv, NEW n \in Nat
  PROVE  /\ DOMAIN Flushed(n) = DOMAIN disk
         /\ \A f \in DOMAIN disk :
              /\ Flushed(n)[f] \in [by : 0 .. starts, bytes : Nat]
              /\ Flushed(n)[f].by = disk[f].by
              /\ Flushed(n)[f].bytes = disk[f].bytes + (IF f = active THEN n ELSE 0)
              /\ f # active => Flushed(n)[f] = disk[f]
<1>0. /\ \A f \in DOMAIN disk : disk[f] \in [by : 0 .. starts, bytes : Nat]
      /\ DOMAIN disk \subseteq Nat
  BY DEF IInv, TypeOK, File
<1>1. CASE active = NoFile
  <2>1. Flushed(n) = disk /\ active \notin DOMAIN disk
    BY <1>0, <1>1, LimitsAreNumbers DEF Flushed
  <2>2. \A f \in DOMAIN disk : disk[f].bytes = disk[f].bytes + 0
    BY <1>0
  <2> QED
    BY <1>0, <2>1, <2>2
<1>2. CASE active # NoFile
  <2>1. Flushed(n) = [disk EXCEPT ![active].bytes = @ + n] /\ active \in DOMAIN disk
    BY <1>2, ActiveIsLast DEF Flushed
  <2>2. Flushed(n)[active] = [by |-> disk[active].by, bytes |-> disk[active].bytes + n]
    BY <1>0, <2>1
  <2>3. /\ DOMAIN Flushed(n) = DOMAIN disk
        /\ \A f \in DOMAIN disk : f # active => Flushed(n)[f] = disk[f]
    BY <2>1
  <2>4. \A f \in DOMAIN disk :
          /\ disk[f].bytes \in Nat /\ disk[f].by \in 0 .. starts
          /\ disk[f].bytes + 0 = disk[f].bytes
    BY <1>0
  <2>5. ASSUME NEW f \in DOMAIN disk, f = active
        PROVE  /\ Flushed(n)[f] \in [by : 0 .. starts, bytes : Nat]
               /\ Flushed(n)[f].by = disk[f].by
               /\ Flushed(n)[f].bytes = disk[f].bytes + n
    BY <2>2, <2>4, <2>5
  <2> QED
    BY <1>0, <2>3, <2>4, <2>5
<1> QED
  BY <1>1, <1>2

\* A step that leaves the directory and its accounts alone.
LEMMA DirectoryKept ==
  ASSUME IInv, process = "down" => process' = "down",
         UNCHANGED <<starts, segments, total, active, buffer, degraded, disk, stuck>>
  PROVE  Directory'
<1>1. AccountsForDirectory /\ Ordered(segments) /\ Writing
  BY DEF IInv, Directory
<1>2. /\ starts' = starts /\ segments' = segments /\ total' = total /\ active' = active
      /\ buffer' = buffer /\ degraded' = degraded /\ disk' = disk /\ stuck' = stuck
  OBVIOUS
<1>3. AccountsForDirectory'
  <2> SUFFICES ASSUME process' # "down"
               PROVE  (/\ total = BytesOf(segments)
                       /\ FilesOf(segments) = DOMAIN disk \ stuck
                       /\ \A i \in 1 .. Len(segments) :
                            /\ \/ Written(segments[i]) <= segments[i].bytes
                               \/ /\ degraded /\ segments[i].file = active
                                  /\ \E size \in Size :
                                       Written(segments[i]) < segments[i].bytes + size
                            /\ segments[i].file = active => i = Len(segments))'
    BY DEF AccountsForDirectory
  <2>1. BytesOf(segments)' = BytesOf(segments) /\ FilesOf(segments)' = FilesOf(segments)
    BY <1>2, Zenon DEF BytesOf, FilesOf
  <2>2. \A i \in 1 .. Len(segments) : Written(segments[i])' = Written(segments[i])
    BY <1>2 DEF Written
  <2> QED
    BY <1>1, <1>2, <2>1, <2>2 DEF AccountsForDirectory
<1>4. Ordered(segments)' /\ Writing'
  BY <1>1, <1>2 DEF Ordered, Writing
<1> QED
  BY <1>3, <1>4 DEF Directory

-----------------------------------------------------------------------------
(* The steps of the process and of the handlers                            *)

LEMMA EmptyFits ==
  /\ <<>> \in Seq(Size) /\ Len(<<>>) <= Capacity
  /\ <<>> \in Seq([file : File, bytes : Nat])
<1> DEFINE e == <<>>
<1>1. e \in Seq(Size) /\ e \in Seq([file : File, bytes : Nat]) /\ Len(e) = 0
  OBVIOUS
<1> QED
  BY <1>1, LimitsAreNumbers

LEMMA InitKeeps == Init => IInv
<1> SUFFICES ASSUME Init PROVE IInv
  OBVIOUS
<1>1. PICK sizes \in Found : disk = [f \in DOMAIN sizes |-> [by |-> 0, bytes |-> sizes[f]]]
  BY DEF Init
<1>2. /\ IsFiniteSet(DOMAIN disk) /\ DOMAIN disk \subseteq File
      /\ \A f \in DOMAIN disk : disk[f] \in [by : 0 .. 0, bytes : Nat]
  BY <1>1, FoundAssumption
<1>3. TypeOK
  <2>1. queue \in Seq(Size) /\ Len(queue) <= Capacity /\ segments \in Seq([file : File, bytes : Nat])
    BY LimitsAreNumbers, EmptyFits DEF Init
  <2>2. starts \in 0 .. MaxStarts /\ offered \in 0 .. MaxRecords /\ starts = 0
    BY LimitsAreNumbers DEF Init
  <2>3. \A f \in DOMAIN disk : disk[f] \in [by : 0 .. starts, bytes : Nat]
    BY <1>2, <2>2
  <2>4. /\ process = "down" /\ pc = "stopped" /\ hand = 0 /\ total = 0 /\ buffer = 0
        /\ dropped = 0 /\ reported = 0 /\ active = NoFile /\ degraded = FALSE /\ stuck = {}
    BY DEF Init
  <2>5. /\ IsFiniteSet(DOMAIN disk) /\ DOMAIN disk \subseteq File
        /\ (\A f \in DOMAIN disk : disk[f] \in [by : 0 .. starts, bytes : Nat])
        /\ stuck \subseteq DOMAIN disk
    BY <1>2, <2>3, <2>4
  <2>6. hand \in Size \cup {0} /\ active \in File \cup {NoFile} /\ degraded \in BOOLEAN
    BY <2>4
  <2> QED
    BY <2>1, <2>2, <2>4, <2>5, <2>6 DEF TypeOK
<1>4. Directory
  <2>1. process = "down" /\ active = NoFile /\ buffer = 0 /\ segments = <<>>
    BY DEF Init
  <2>2. Ordered(segments)
    BY <2>1 DEF Ordered
  <2> QED
    BY <2>1, <2>2 DEF Directory, AccountsForDirectory, Writing
<1>5. Control
  BY DEF Init, Control, Asleep, Phases, WithinQuota
<1> QED
  BY <1>3, <1>4, <1>5 DEF IInv

LEMMA StartOpens ==
  ASSUME IInv, Start
  PROVE  /\ FreshOpened(Scan(disk), disk, starts + 1, active', segments', disk')
         /\ Scan(disk) \in Seq(Segment) /\ FilesOf(Scan(disk)) = DOMAIN disk
         /\ \A i \in 1 .. Len(Scan(disk)) : Scan(disk)[i].bytes = disk[Scan(disk)[i].file].bytes
<1> DEFINE found == Scan(disk)
<1>1. /\ IsFiniteSet(DOMAIN disk) /\ DOMAIN disk \subseteq File
      /\ \A f \in DOMAIN disk : disk[f].bytes \in Nat
  BY DEF IInv, TypeOK
<1>2. /\ found \in Seq(Segment) /\ Ordered(found) /\ FilesOf(found) = DOMAIN disk
      /\ \A i \in 1 .. Len(found) : found[i].bytes = disk[found[i].file].bytes
  BY <1>1, ScanLists
<1>3. Opened(found, disk, starts + 1, active', segments', disk')
  BY DEF Start, OpenFresh, Opened
<1> HIDE DEF found
<1>4. FreshOpened(found, disk, starts + 1, active', segments', disk')
  BY <1>1, <1>2, <1>3, FreshIsNew
<1> QED
  BY <1>2, <1>4 DEF found

LEMMA StartKeeps == IInv /\ Start => IInv'
<1> SUFFICES ASSUME IInv, Start PROVE IInv'
  OBVIOUS
<1> DEFINE found == Scan(disk)
<1>1. /\ process = "down" /\ starts < MaxStarts /\ starts' = starts + 1
      /\ OpenFresh(found, disk, starts + 1) /\ total' = BytesOf(found)
      /\ process' = "starting" /\ pc' = "cleaning"
      /\ UNCHANGED <<offered, queue, dropped, reported, hand, buffer, degraded, stuck>>
  BY DEF Start
<1>2. /\ buffer = 0 /\ degraded = FALSE /\ stuck = {}
  BY <1>1 DEF IInv, Control, Asleep
<1>3. /\ IsFiniteSet(DOMAIN disk) /\ DOMAIN disk \subseteq File
      /\ \A f \in DOMAIN disk : disk[f] \in [by : 0 .. starts, bytes : Nat]
      /\ starts \in 0 .. MaxStarts
  BY DEF IInv, TypeOK
<1>4. /\ found \in Seq(Segment) /\ FilesOf(found) = DOMAIN disk
      /\ \A i \in 1 .. Len(found) : found[i].bytes = disk[found[i].file].bytes
  BY StartOpens
<1> HIDE DEF found
<1> DEFINE n == Len(found)
<1>5. /\ active' \in Nat /\ active' \notin DOMAIN disk
      /\ segments' \in Seq(Segment) /\ Ordered(segments')
      /\ FilesOf(segments') = FilesOf(found) \cup {active'}
      /\ BytesOf(segments') = BytesOf(found)
      /\ Len(segments') = n + 1 /\ n \in Nat
      /\ segments'[n + 1] = [file |-> active', bytes |-> 0]
      /\ \A i \in 1 .. n : segments'[i] = found[i] /\ found[i].file # active'
      /\ DOMAIN disk' = DOMAIN disk \cup {active'}
      /\ disk'[active'] = [by |-> starts + 1, bytes |-> 0]
      /\ \A f \in DOMAIN disk : disk'[f] = disk[f]
  <2>1. FreshOpened(found, disk, starts + 1, active', segments', disk')
    BY StartOpens DEF found
  <2> QED
    BY <2>1, Zenon DEF FreshOpened
<1>6. BytesOf(found) \in Nat /\ \A i \in 1 .. n : found[i].file \in DOMAIN disk
  BY <1>4, BytesAreNumbers, FilesAreFinite
<1>7. TypeOK'
  <2>1. IsFiniteSet(DOMAIN disk')
    BY <1>3, <1>5, FS_AddElement
  <2>2. starts' \in 0 .. MaxStarts /\ \A k \in 0 .. starts : k \in 0 .. starts'
    BY <1>1, <1>3, LimitsAreNumbers
  <2>3. \A f \in DOMAIN disk' : disk'[f] \in [by : 0 .. starts', bytes : Nat]
    <3>1. disk'[active'] \in [by : 0 .. starts', bytes : Nat]
      BY <1>1, <1>3, <1>5
    <3> QED
      BY <1>3, <1>5, <2>2, <3>1
  <2>4. segments' \in Seq([file : File, bytes : Nat])
    BY <1>5 DEF Segment
  <2> QED
    BY <1>1, <1>2, <1>3, <1>5, <1>6, <2>1, <2>2, <2>3, <2>4 DEF IInv, TypeOK, File
<1>8. Directory'
  <2>1. FilesOf(segments') = DOMAIN disk' \ stuck'
    BY <1>1, <1>2, <1>4, <1>5
  <2>2. ASSUME NEW i \in 1 .. Len(segments')
        PROVE  /\ disk'[segments'[i].file].bytes
                    + (IF segments'[i].file = active' THEN buffer' ELSE 0) <= segments'[i].bytes
               /\ segments'[i].file = active' => i = Len(segments')
    <3>1. CASE i = n + 1
      BY <1>1, <1>2, <1>5, <3>1
    <3>2. CASE i \in 1 .. n
      <4>1. segments'[i] = found[i] /\ found[i].file # active' /\ found[i].file \in DOMAIN disk
        BY <1>5, <1>6, <3>2
      <4>2. disk'[found[i].file] = disk[found[i].file]
            /\ found[i].bytes = disk[found[i].file].bytes /\ found[i].bytes \in Nat
        BY <1>3, <1>4, <1>5, <3>2, <4>1
      <4> QED
        BY <4>1, <4>2
    <3> QED
      BY <1>5, <2>2, <3>1, <3>2
  <2>3. AccountsForDirectory'
    BY <1>1, <1>5, <2>1, <2>2 DEF AccountsForDirectory, Written
  <2>4. Writing'
    <3>1. segments' # <<>>
      BY <1>5
    <3> QED
      BY <1>1, <1>2, <1>5, <3>1 DEF Writing
  <2> QED
    BY <1>5, <2>3, <2>4 DEF Directory
<1>9. Control'
  BY <1>1, <1>2 DEF Control, Asleep, Phases, WithinQuota
<1> QED
  BY <1>7, <1>8, <1>9 DEF IInv

LEMMA GoneKeeps == IInv /\ Gone => IInv'
<1> SUFFICES ASSUME IInv, Gone PROVE IInv'
  OBVIOUS
<1>1. TypeOK'
  <2>1. TypeOK
    BY DEF IInv
  <2>2. /\ queue' \in Seq(Size) /\ Len(queue') <= Capacity
        /\ segments' \in Seq([file : File, bytes : Nat])
    BY EmptyFits DEF Gone
  <2>3. /\ process' = "down" /\ pc' = "stopped" /\ hand' = 0 /\ total' = 0 /\ buffer' = 0
        /\ dropped' = 0 /\ reported' = 0 /\ active' = NoFile /\ degraded' = FALSE
        /\ stuck' = {} /\ starts' = starts /\ offered' = offered /\ disk' = disk
    BY DEF Gone
  <2>4. hand' \in Size \cup {0} /\ active' \in File \cup {NoFile} /\ degraded' \in BOOLEAN
    BY <2>3
  <2>5. /\ IsFiniteSet(DOMAIN disk') /\ DOMAIN disk' \subseteq File
        /\ (\A f \in DOMAIN disk' : disk'[f] \in [by : 0 .. starts', bytes : Nat])
        /\ stuck' \subseteq DOMAIN disk'
        /\ starts' \in 0 .. MaxStarts /\ offered' \in 0 .. MaxRecords
    BY <2>1, <2>3 DEF TypeOK
  <2> QED
    BY <2>2, <2>3, <2>4, <2>5 DEF TypeOK
<1>2. Directory'
  <2>1. process' = "down" /\ segments' = <<>> /\ active' = NoFile /\ buffer' = 0
    BY DEF Gone
  <2>2. Ordered(segments')
    BY <2>1 DEF Ordered
  <2> QED
    BY <2>1, <2>2 DEF Directory, AccountsForDirectory, Writing
<1>3. Control'
  BY DEF Gone, Control, Asleep, Phases, WithinQuota
<1> QED
  BY <1>1, <1>2, <1>3 DEF IInv

LEMMA HandlersKeep == IInv /\ (Shutdown \/ Emit) => IInv'
<1> SUFFICES ASSUME IInv, Shutdown \/ Emit PROVE IInv'
  OBVIOUS
<1>1. CASE Shutdown
  <2>1. Directory'
    BY <1>1, DirectoryKept DEF Shutdown, memory
  <2> QED
    BY <1>1, <2>1 DEF Shutdown, memory, IInv, TypeOK, Control, Asleep, Phases, WithinQuota
<1>2. CASE Emit
  <2>1. Directory'
    BY <1>2, DirectoryKept DEF Emit
  <2>2. /\ queue' \in Seq(Size) /\ Len(queue') <= Capacity
        /\ dropped' \in Nat /\ reported <= dropped'
    <3>1. /\ queue \in Seq(Size) /\ Len(queue) \in Nat /\ Len(queue) <= Capacity
          /\ dropped \in Nat /\ reported \in Nat /\ reported <= dropped
      BY DEF IInv, TypeOK
    <3>2. CASE Len(queue) < Capacity
      <4>1. PICK size \in Size : queue' = Append(queue, size) /\ dropped' = dropped
        BY <1>2, <3>2 DEF Emit
      <4> QED
        BY <3>1, <3>2, <4>1, LimitsAreNumbers
    <3>3. CASE ~(Len(queue) < Capacity)
      BY <1>2, <3>1, <3>3 DEF Emit
    <3> QED
      BY <3>2, <3>3
  <2>3. offered' \in 0 .. MaxRecords
    BY <1>2, LimitsAreNumbers DEF Emit, IInv, TypeOK
  <2>4. TypeOK'
    BY <1>2, <2>2, <2>3 DEF Emit, IInv, TypeOK
  <2>5. Control'
    BY <1>2 DEF Emit, IInv, Control, Asleep, Phases, WithinQuota
  <2> QED
    BY <2>1, <2>4, <2>5 DEF IInv
<1> QED
  BY <1>1, <1>2

-----------------------------------------------------------------------------
(* The steps of the thread                                                 *)

\* Those that leave the files and their accounts alone.
LEMMA WaitingKeeps ==
  IInv /\ (Receive \/ Timeout \/ CleanDone \/ Report) => IInv'
<1> SUFFICES ASSUME IInv, Receive \/ Timeout \/ CleanDone \/ Report PROVE IInv'
  OBVIOUS
<1>0. TypeOK /\ Control /\ process # "down"
  BY DEF IInv, Control, Asleep, Receive, Timeout, CleanDone, Report
<1>1. CASE Receive
  <2>1. Directory'
    BY <1>0, <1>1, DirectoryKept DEF Receive
  <2>2. Head(queue) \in Size /\ queue' \in Seq(Size) /\ Len(queue') <= Capacity
    <3>1. queue \in Seq(Size) /\ queue # <<>> /\ queue' = Tail(queue) /\ Len(queue) <= Capacity
      BY <1>0, <1>1 DEF TypeOK, Receive
    <3> QED
      BY <3>1, LimitsAreNumbers
  <2>3. hand' \in Size \cup {0}
    BY <1>1, <2>2 DEF Receive
  <2>4. TypeOK'
    BY <1>0, <1>1, <2>2, <2>3 DEF Receive, TypeOK
  <2>5. Control'
    <3>1. pc = "waiting" /\ process' = process /\ process # "starting"
      BY <1>0, <1>1 DEF Receive, Control, Phases
    <3>2. pc' = "writing" => hand' > 0
      BY <1>1, <2>2, LimitsAreNumbers DEF Receive
    <3> QED
      BY <1>0, <1>1, <3>1, <3>2 DEF Receive, Control, Asleep, Phases, WithinQuota
  <2> QED
    BY <2>1, <2>4, <2>5 DEF IInv
<1>2. CASE Timeout
  <2>1. Directory'
    BY <1>0, <1>2, DirectoryKept DEF Timeout
  <2>2. TypeOK'
    BY <1>0, <1>2 DEF Timeout, TypeOK
  <2>3. Control'
    BY <1>0, <1>2 DEF Timeout, Control, Asleep, Phases, WithinQuota
  <2> QED
    BY <2>1, <2>2, <2>3 DEF IInv
<1>3. CASE CleanDone
  <2>1. process' # "down"
    BY <1>0, <1>3 DEF CleanDone, Cleaned
  <2>2. Directory'
    BY <1>0, <1>3, <2>1, DirectoryKept DEF CleanDone
  <2>3. TypeOK'
    BY <1>0, <1>3 DEF CleanDone, Cleaned, TypeOK
  <2>4. total <= MaxTotal \/ Len(segments) <= 1
    <3>1. CASE ~(total > MaxTotal)
      BY <1>0, <3>1, LimitsAreNumbers DEF TypeOK
    <3>2. CASE segments = <<>>
      BY <3>2
    <3>3. CASE segments # <<>> /\ Head(segments).file = active
      <4>1. segments \in Seq(Segment)
        BY <1>0 DEF TypeOK, Segment
      <4>2. 1 \in 1 .. Len(segments) /\ segments[1].file = active
        BY <3>3, <4>1
      <4>3. 1 = Len(segments)
        BY <1>0, <4>2 DEF IInv, Directory, AccountsForDirectory
      <4>4. Len(segments) \in Nat /\ Len(segments) = 1
        BY <4>1, <4>3
      <4>5. Len(segments) <= 1
        BY <4>4
      <4> QED
        BY <4>5, Zenon
    <3>4. ~(total > MaxTotal) \/ segments = <<>> \/ Head(segments).file = active
      BY <1>3 DEF CleanDone, OverQuota
    <3> QED
      BY <3>1, <3>2, <3>3, <3>4, Zenon
  <2>5. Control'
    BY <1>0, <1>3, <2>4 DEF CleanDone, Cleaned, Control, Asleep, Phases, WithinQuota
  <2> QED
    BY <2>2, <2>3, <2>5 DEF IInv
<1>4. CASE Report
  <2>1. Directory'
    BY <1>0, <1>4, DirectoryKept DEF Report
  <2>2. TypeOK'
    BY <1>0, <1>4 DEF Report, TypeOK
  <2>3. Control'
    BY <1>0, <1>4 DEF Report, Control, Asleep, Phases, WithinQuota
  <2> QED
    BY <2>1, <2>2, <2>3 DEF IInv
<1> QED
  BY <1>1, <1>2, <1>3, <1>4

LEMMA RotateOpens ==
  ASSUME IInv, Rotate
  PROVE  \E n \in 0 .. buffer :
           FreshOpened(segments, Flushed(n), starts, active', segments', disk')
<1>1. PICK n \in 0 .. buffer : OpenFresh(segments, Flushed(n), starts)
  BY DEF Rotate
<1> DEFINE files == Flushed(n)
<1>2. Opened(segments, files, starts, active', segments', disk')
  BY <1>1 DEF OpenFresh, Opened
<1>3. /\ segments \in Seq(Segment) /\ buffer \in Nat
      /\ IsFiniteSet(DOMAIN disk) /\ DOMAIN disk \subseteq File /\ Ordered(segments)
  BY DEF IInv, TypeOK, Directory, Segment
<1>4. DOMAIN files = DOMAIN disk
  <2>1. n \in Nat
    BY <1>3
  <2> QED
    BY <2>1, FlushedGrows
<1> HIDE DEF files
<1>5. IsFiniteSet(DOMAIN files) /\ DOMAIN files \subseteq File
  BY <1>3, <1>4, Zenon
<1>6. FreshOpened(segments, files, starts, active', segments', disk')
  BY <1>2, <1>3, <1>5, FreshIsNew
<1> QED
  BY <1>6 DEF files

LEMMA RotateKeeps == IInv /\ Rotate => IInv'
<1> SUFFICES ASSUME IInv, Rotate PROVE IInv'
  OBVIOUS
<1>1. PICK n \in 0 .. buffer :
        FreshOpened(segments, Flushed(n), starts, active', segments', disk')
  BY RotateOpens
<1>2. /\ pc = "writing" /\ buffer' = 0
      /\ UNCHANGED <<process, starts, offered, queue, dropped, reported, pc, hand, total,
                     degraded, stuck>>
  BY DEF Rotate
<1>3. TypeOK /\ Directory /\ Control /\ process # "down" /\ ~degraded
  BY <1>2 DEF IInv, Control, Asleep, Phases
<1>4. /\ segments \in Seq(Segment) /\ buffer \in Nat /\ n \in Nat
      /\ IsFiniteSet(DOMAIN disk) /\ DOMAIN disk \subseteq File
      /\ stuck \subseteq DOMAIN disk /\ starts \in 0 .. MaxStarts
  BY <1>3 DEF TypeOK, Segment
<1> DEFINE files == Flushed(n)
           m == Len(segments)
<1>5. /\ DOMAIN files = DOMAIN disk
      /\ \A f \in DOMAIN disk :
           /\ files[f] \in [by : 0 .. starts, bytes : Nat]
           /\ files[f].bytes = disk[f].bytes + (IF f = active THEN n ELSE 0)
  BY <1>4, FlushedGrows
<1>6. FreshOpened(segments, files, starts, active', segments', disk')
  BY <1>1
<1> HIDE DEF files
<1>7. /\ active' \in Nat /\ active' \notin DOMAIN files
      /\ segments' \in Seq(Segment) /\ Ordered(segments')
      /\ FilesOf(segments') = FilesOf(segments) \cup {active'}
      /\ BytesOf(segments') = BytesOf(segments)
      /\ Len(segments') = m + 1 /\ m \in Nat
      /\ segments'[m + 1] = [file |-> active', bytes |-> 0]
      /\ \A i \in 1 .. m : segments'[i] = segments[i] /\ segments[i].file # active'
      /\ DOMAIN disk' = DOMAIN files \cup {active'}
      /\ disk'[active'] = [by |-> starts, bytes |-> 0]
      /\ \A f \in DOMAIN files : disk'[f] = files[f]
  BY <1>6, Zenon DEF FreshOpened
<1>8. DOMAIN disk' = DOMAIN disk \cup {active'} /\ active' \notin DOMAIN disk
  BY <1>5, <1>7, Zenon
<1>9. TypeOK'
  <2>1. IsFiniteSet(DOMAIN disk')
    <3>1. IsFiniteSet(DOMAIN disk \cup {active'})
      BY <1>4, FS_AddElement
    <3> QED
      BY <1>8, <3>1, Zenon
  <2>2. \A f \in DOMAIN disk' : disk'[f] \in [by : 0 .. starts, bytes : Nat]
    <3>1. disk'[active'] \in [by : 0 .. starts, bytes : Nat]
      BY <1>4, <1>7
    <3> QED
      BY <1>5, <1>7, <1>8, <3>1
  <2>3. /\ DOMAIN disk' \subseteq File /\ stuck' \subseteq DOMAIN disk'
        /\ active' \in File \cup {NoFile}
    BY <1>2, <1>4, <1>7, <1>8 DEF File
  <2>4. segments' \in Seq([file : File, bytes : Nat])
    BY <1>7 DEF Segment
  <2> QED
    BY <1>2, <1>3, <2>1, <2>2, <2>3, <2>4 DEF TypeOK
<1>10. Directory'
  <2>0. /\ total = BytesOf(segments) /\ FilesOf(segments) = DOMAIN disk \ stuck
        /\ \A i \in 1 .. m : Written(segments[i]) <= segments[i].bytes
    BY <1>3 DEF Directory, AccountsForDirectory
  <2>1. FilesOf(segments') = DOMAIN disk' \ stuck'
    <3>1. stuck' = stuck /\ active' \notin stuck
      BY <1>2, <1>4, <1>8
    <3> QED
      BY <1>7, <1>8, <2>0, <3>1
  <2>2. ASSUME NEW i \in 1 .. Len(segments')
        PROVE  /\ disk'[segments'[i].file].bytes
                    + (IF segments'[i].file = active' THEN buffer' ELSE 0) <= segments'[i].bytes
               /\ segments'[i].file = active' => i = Len(segments')
    <3>1. CASE i = m + 1
      BY <1>2, <1>7, <3>1
    <3>2. CASE i \in 1 .. m
      <4> DEFINE f == segments[i].file
      <4>1. segments'[i] = segments[i] /\ f # active' /\ f \in DOMAIN disk
        BY <1>4, <1>7, <2>0, <3>2, FilesAreFinite
      <4>2. disk'[f].bytes = disk[f].bytes + (IF f = active THEN n ELSE 0) /\ disk[f].bytes \in Nat
        BY <1>3, <1>5, <1>7, <4>1 DEF TypeOK
      <4>3. disk[f].bytes + (IF f = active THEN buffer ELSE 0) <= segments[i].bytes
            /\ segments[i].bytes \in Nat
        BY <1>4, <2>0, <3>2, BytesAreNumbers DEF Written, Segment
      <4> HIDE DEF f
      <4>4. disk'[f].bytes <= segments[i].bytes
        BY <1>4, <4>2, <4>3
      <4>5. disk'[f].bytes + 0 = disk'[f].bytes
        BY <1>4, <4>2
      <4> QED
        BY <4>1, <4>4, <4>5 DEF f
    <3>3. i = m + 1 \/ i \in 1 .. m
      BY <1>7
    <3> QED
      BY <3>1, <3>2, <3>3
  <2>3. AccountsForDirectory'
    BY <1>2, <1>7, <2>0, <2>1, <2>2 DEF AccountsForDirectory, Written
  <2>4. Writing'
    <3>1. segments' # <<>>
      BY <1>7
    <3> QED
      BY <1>2, <1>7, <3>1 DEF Writing
  <2> QED
    BY <1>7, <2>3, <2>4 DEF Directory
<1>11. Control'
  BY <1>2, <1>3 DEF Control, Asleep, Phases, WithinQuota
<1> QED
  BY <1>9, <1>10, <1>11 DEF IInv

\* The directory after a flush of n bytes.
LEMMA FlushedDisk ==
  ASSUME IInv, NEW n \in Nat, disk' = Flushed(n), starts' = starts, stuck' = stuck
  PROVE  /\ IsFiniteSet(DOMAIN disk') /\ DOMAIN disk' \subseteq File
         /\ \A f \in DOMAIN disk' : disk'[f] \in [by : 0 .. starts', bytes : Nat]
         /\ stuck' \subseteq DOMAIN disk' /\ DOMAIN disk' = DOMAIN disk
         /\ starts' \in 0 .. MaxStarts
         /\ \A f \in DOMAIN disk :
              /\ disk'[f].by = disk[f].by /\ disk[f].bytes \in Nat
              /\ disk'[f].bytes = disk[f].bytes + (IF f = active THEN n ELSE 0)
<1>1. /\ DOMAIN disk' = DOMAIN disk
      /\ \A f \in DOMAIN disk :
           /\ disk'[f] \in [by : 0 .. starts, bytes : Nat]
           /\ disk'[f].by = disk[f].by
           /\ disk'[f].bytes = disk[f].bytes + (IF f = active THEN n ELSE 0)
  BY FlushedGrows, Zenon
<1>2. /\ IsFiniteSet(DOMAIN disk) /\ DOMAIN disk \subseteq File /\ stuck \subseteq DOMAIN disk
      /\ starts \in 0 .. MaxStarts
      /\ \A f \in DOMAIN disk : disk[f].bytes \in Nat
  BY DEF IInv, TypeOK
<1> QED
  BY <1>1, <1>2, Zenon

LEMMA RotateFailsKeeps == IInv /\ RotateFails => IInv'
<1> SUFFICES ASSUME IInv, RotateFails PROVE IInv'
  OBVIOUS
<1>1. PICK n \in 0 .. buffer : disk' = Flushed(n)
  BY DEF RotateFails
<1>2. /\ pc = "writing" /\ buffer' = 0 /\ active' = NoFile
      /\ degraded' = TRUE /\ hand' = 0 /\ pc' = "flushing"
      /\ UNCHANGED <<process, starts, offered, queue, dropped, reported, segments, total, stuck>>
  BY DEF RotateFails, Degrade
<1>3. TypeOK /\ Directory /\ Control /\ process # "down" /\ ~degraded
  BY <1>2 DEF IInv, Control, Asleep, Phases
<1>4. buffer \in Nat /\ n \in Nat /\ n <= buffer /\ segments \in Seq(Segment)
  BY <1>3 DEF TypeOK, Segment
<1>5. /\ IsFiniteSet(DOMAIN disk') /\ DOMAIN disk' \subseteq File
      /\ \A f \in DOMAIN disk' : disk'[f] \in [by : 0 .. starts', bytes : Nat]
      /\ stuck' \subseteq DOMAIN disk' /\ DOMAIN disk' = DOMAIN disk
      /\ \A f \in DOMAIN disk :
           /\ disk[f].bytes \in Nat
           /\ disk'[f].bytes = disk[f].bytes + (IF f = active THEN n ELSE 0)
  BY <1>1, <1>2, <1>4, FlushedDisk
<1>6. TypeOK'
  BY <1>2, <1>3, <1>5 DEF TypeOK
<1>7. Directory'
  <2>1. /\ total = BytesOf(segments) /\ FilesOf(segments) = DOMAIN disk \ stuck
        /\ \A i \in 1 .. Len(segments) : Written(segments[i]) <= segments[i].bytes
    BY <1>3 DEF Directory, AccountsForDirectory
  <2>2. FilesOf(segments) = DOMAIN disk' \ stuck'
    BY <1>2, <1>5, <2>1, Zenon
  <2>3. ASSUME NEW i \in 1 .. Len(segments)
        PROVE  /\ disk'[segments[i].file].bytes + 0 <= segments[i].bytes
               /\ segments[i].file # NoFile
    <3> DEFINE f == segments[i].file
    <3>1. f \in DOMAIN disk /\ f \in Nat /\ segments[i].bytes \in Nat
      BY <1>4, <2>1, FilesAreFinite, BytesAreNumbers DEF Segment, File
    <3>2. disk[f].bytes + (IF f = active THEN buffer ELSE 0) <= segments[i].bytes
      BY <2>1 DEF Written
    <3> HIDE DEF f
    <3>3. disk'[f].bytes = disk[f].bytes + (IF f = active THEN n ELSE 0) /\ disk[f].bytes \in Nat
      BY <1>5, <3>1
    <3>4. disk'[f].bytes + 0 <= segments[i].bytes
      BY <1>4, <3>1, <3>2, <3>3
    <3> QED
      BY <3>1, <3>4, LimitsAreNumbers DEF f
  <2>4. AccountsForDirectory'
    BY <1>2, <2>1, <2>2, <2>3 DEF AccountsForDirectory, Written
  <2> QED
    BY <1>2, <1>3, <2>4 DEF Directory, Writing, Ordered
<1>8. Control'
  BY <1>2, <1>3 DEF Control, Asleep, Phases, WithinQuota
<1> QED
  BY <1>6, <1>7, <1>8 DEF IInv

LEMMA FlushKeeps == IInv /\ Flush => IInv'
<1> SUFFICES ASSUME IInv, Flush PROVE IInv'
  OBVIOUS
<1>1. PICK n \in 0 .. buffer : disk' = Flushed(n) /\ buffer' = buffer - n
  BY DEF Flush
<1>2. /\ pc \in {"flushing", "exiting"}
      /\ pc' = IF pc = "exiting" THEN "stopped" ELSE "reporting"
      /\ UNCHANGED <<process, starts, offered, queue, dropped, reported, hand, segments, total,
                     active, degraded, stuck>>
  BY DEF Flush
<1>3. TypeOK /\ Directory /\ Control /\ process # "down"
  BY <1>2 DEF IInv, Control, Asleep
<1>4. buffer \in Nat /\ n \in Nat /\ n <= buffer /\ segments \in Seq(Segment)
  BY <1>3 DEF TypeOK, Segment
<1>5. /\ IsFiniteSet(DOMAIN disk') /\ DOMAIN disk' \subseteq File
      /\ \A f \in DOMAIN disk' : disk'[f] \in [by : 0 .. starts', bytes : Nat]
      /\ stuck' \subseteq DOMAIN disk' /\ DOMAIN disk' = DOMAIN disk
      /\ \A f \in DOMAIN disk :
           /\ disk'[f].by = disk[f].by /\ disk[f].bytes \in Nat
           /\ disk'[f].bytes = disk[f].bytes + (IF f = active THEN n ELSE 0)
  BY <1>1, <1>2, <1>4, FlushedDisk
<1>6. buffer' \in Nat
  BY <1>1, <1>4
<1>7. TypeOK'
  BY <1>2, <1>3, <1>5, <1>6 DEF TypeOK
<1>8. Directory'
  <2>1. /\ total = BytesOf(segments) /\ FilesOf(segments) = DOMAIN disk \ stuck
        /\ \A i \in 1 .. Len(segments) :
             /\ \/ Written(segments[i]) <= segments[i].bytes
                \/ /\ degraded /\ segments[i].file = active
                   /\ \E size \in Size : Written(segments[i]) < segments[i].bytes + size
             /\ segments[i].file = active => i = Len(segments)
    BY <1>3 DEF Directory, AccountsForDirectory
  <2>2. FilesOf(segments) = DOMAIN disk' \ stuck'
    BY <1>2, <1>5, <2>1, Zenon
  <2>3. ASSUME NEW i \in 1 .. Len(segments)
        PROVE  disk'[segments[i].file].bytes + (IF segments[i].file = active THEN buffer' ELSE 0)
                 = Written(segments[i])
    <3> DEFINE f == segments[i].file
    <3>1. f \in DOMAIN disk
      BY <1>4, <2>1, FilesAreFinite
    <3> HIDE DEF f
    <3>2. disk'[f].bytes = disk[f].bytes + (IF f = active THEN n ELSE 0) /\ disk[f].bytes \in Nat
      BY <1>5, <3>1
    <3>3. disk'[f].bytes + (IF f = active THEN buffer' ELSE 0)
            = disk[f].bytes + (IF f = active THEN buffer ELSE 0)
      BY <1>1, <1>4, <3>2
    <3> QED
      BY <3>3 DEF Written, f
  <2>4. \A i \in 1 .. Len(segments) : Written(segments[i])' = Written(segments[i])
    BY <1>2, <2>3 DEF Written
  <2>5. AccountsForDirectory'
    <3>1. BytesOf(segments)' = BytesOf(segments) /\ FilesOf(segments)' = FilesOf(segments)
      BY <1>2, Zenon DEF BytesOf, FilesOf
    <3> HIDE DEF Written
    <3> QED
      BY <1>2, <2>1, <2>2, <2>4, <3>1 DEF AccountsForDirectory
  <2>6. Writing'
    <3>1. CASE active = NoFile
      BY <1>1, <1>2, <1>3, <1>4, <3>1 DEF Directory, Writing
    <3>2. CASE active # NoFile
      <4>1. active \in DOMAIN disk /\ disk[active].by = starts
        BY <3>2, ActiveIsLast
      <4> QED
        BY <1>2, <1>3, <1>5, <3>2, <4>1 DEF Directory, Writing
    <3> QED
      BY <3>1, <3>2
  <2> QED
    BY <1>2, <1>3, <2>5, <2>6 DEF Directory, Ordered
<1>9. Control'
  BY <1>2, <1>3 DEF Control, Asleep, Phases, WithinQuota
<1> QED
  BY <1>7, <1>8, <1>9 DEF IInv
LEMMA WriteKeeps == IInv /\ Write => IInv'
<1> SUFFICES ASSUME IInv, Write PROVE IInv'
  OBVIOUS
<1>1. PICK n \in 0 .. buffer + hand : disk' = Flushed(n) /\ buffer' = buffer + hand - n
  BY DEF Write, Buffered
<1>2. /\ pc = "writing" /\ active # NoFile
      /\ segments' = [segments EXCEPT ![Len(segments)].bytes = @ + hand]
      /\ total' = total + hand /\ hand' = 0 /\ pc' = "cleaning"
      /\ UNCHANGED <<process, starts, offered, queue, dropped, reported, active, degraded, stuck>>
  BY DEF Write, ActiveFull
<1>3. TypeOK /\ Directory /\ Control /\ process # "down" /\ ~degraded /\ hand > 0
  BY <1>2 DEF IInv, Control, Asleep, Phases
<1>4. /\ buffer \in Nat /\ hand \in Nat /\ n \in Nat /\ n <= buffer + hand
      /\ segments \in Seq(Segment) /\ segments # <<>> /\ total \in Nat
  <2>1. buffer \in Nat /\ hand \in Nat /\ segments \in Seq(Segment) /\ total \in Nat
    BY <1>3, LimitsAreNumbers DEF TypeOK, Segment
  <2>2. segments # <<>>
    BY <1>2, <1>3 DEF Directory, Writing
  <2> QED
    BY <2>1, <2>2
<1> DEFINE m == Len(segments)
<1>5. /\ segments' \in Seq(Segment) /\ Len(segments') = m
      /\ \A i \in 1 .. m :
           /\ segments'[i].file = segments[i].file
           /\ segments'[i].bytes = segments[i].bytes + (IF i = m THEN hand ELSE 0)
      /\ BytesOf(segments') = BytesOf(segments) + hand
  <2>1. LET grown == [segments EXCEPT ![Len(segments)].bytes = @ + hand]
        IN  /\ grown \in Seq(Segment) /\ Len(grown) = Len(segments)
            /\ \A i \in 1 .. Len(segments) :
                 /\ grown[i].file = segments[i].file
                 /\ grown[i].bytes = segments[i].bytes + (IF i = Len(segments) THEN hand ELSE 0)
            /\ BytesOf(grown) = BytesOf(segments) + hand
    BY <1>4, BytesOfGrown
  <2> QED
    BY <1>2, <2>1, Zenon
<1>6. /\ IsFiniteSet(DOMAIN disk') /\ DOMAIN disk' \subseteq File
      /\ \A f \in DOMAIN disk' : disk'[f] \in [by : 0 .. starts', bytes : Nat]
      /\ stuck' \subseteq DOMAIN disk' /\ DOMAIN disk' = DOMAIN disk
      /\ starts' \in 0 .. MaxStarts
      /\ \A f \in DOMAIN disk :
           /\ disk'[f].by = disk[f].by /\ disk[f].bytes \in Nat
           /\ disk'[f].bytes = disk[f].bytes + (IF f = active THEN n ELSE 0)
  BY <1>1, <1>2, <1>4, FlushedDisk
<1>7. buffer' \in Nat /\ total' \in Nat /\ hand' \in Size \cup {0}
  BY <1>1, <1>2, <1>4
<1>8. TypeOK'
  <2>1. segments' \in Seq([file : File, bytes : Nat])
    BY <1>5, Zenon DEF Segment
  <2> QED
    BY <1>2, <1>3, <1>6, <1>7, <2>1 DEF TypeOK
<1>9. /\ active \in DOMAIN disk /\ disk[active].by = starts
      /\ m \in 1 .. m /\ segments[m].file = active
      /\ \A i \in 1 .. m : segments[i].file = active <=> i = m
  BY <1>2, ActiveIsLast
<1> HIDE DEF m
<1>10. Directory'
  <2>1. /\ total = BytesOf(segments) /\ FilesOf(segments) = DOMAIN disk \ stuck
        /\ \A i \in 1 .. m : Written(segments[i]) <= segments[i].bytes
    BY <1>3 DEF Directory, AccountsForDirectory, m
  <2>2. FilesOf(segments') = DOMAIN disk' \ stuck'
    <3>1. FilesOf(segments') = {segments'[i].file : i \in 1 .. m}
      BY <1>5 DEF FilesOf
    <3>2. FilesOf(segments) = {segments[i].file : i \in 1 .. m}
      BY DEF FilesOf, m
    <3>3. FilesOf(segments') = FilesOf(segments)
      BY <1>5, <3>1, <3>2
    <3> QED
      BY <1>2, <1>6, <2>1, <3>3, Zenon
  <2>3. ASSUME NEW i \in 1 .. m
        PROVE  /\ disk'[segments'[i].file].bytes
                    + (IF segments'[i].file = active' THEN buffer' ELSE 0) <= segments'[i].bytes
               /\ segments'[i].file = active' => i = m
    <3> DEFINE f == segments[i].file
    <3>1. f \in DOMAIN disk /\ segments[i].bytes \in Nat /\ (f = active <=> i = m)
      BY <1>4, <1>9, <2>1, FilesAreFinite, BytesAreNumbers DEF Segment, m
    <3>2. disk[f].bytes + (IF f = active THEN buffer ELSE 0) <= segments[i].bytes
      BY <2>1 DEF Written
    <3>3. segments'[i].file = f /\ active' = active
      BY <1>2, <1>5
    <3>4. segments'[i].bytes = segments[i].bytes + (IF i = m THEN hand ELSE 0)
      BY <1>5
    <3> HIDE DEF f
    <3>5. disk'[f].bytes = disk[f].bytes + (IF f = active THEN n ELSE 0) /\ disk[f].bytes \in Nat
      BY <1>6, <3>1
    <3>6. disk'[f].bytes + (IF f = active THEN buffer' ELSE 0) <= segments'[i].bytes
      <4>1. CASE f = active
        BY <1>1, <1>4, <3>1, <3>2, <3>4, <3>5, <4>1
      <4>2. CASE f # active
        BY <1>4, <3>1, <3>2, <3>4, <3>5, <4>2
      <4> QED
        BY <4>1, <4>2
    <3> QED
      BY <3>1, <3>3, <3>6
  <2>4. AccountsForDirectory'
    <3>1. total' = BytesOf(segments')
      BY <1>2, <1>5, <2>1
    <3> QED
      BY <1>5, <2>2, <2>3, <3>1 DEF AccountsForDirectory, Written
  <2>5. Ordered(segments')
    BY <1>3, <1>5 DEF Directory, Ordered, m
  <2>6. Writing'
    <3>1. segments' # <<>>
      BY <1>5, <1>9
    <3>2. segments'[m].file = active /\ disk'[active].by = starts
      BY <1>5, <1>6, <1>9
    <3> QED
      BY <1>2, <1>5, <3>1, <3>2 DEF Writing
  <2> QED
    BY <2>4, <2>5, <2>6 DEF Directory
<1>11. Control'
  BY <1>2, <1>3 DEF Control, Asleep, Phases, WithinQuota
<1> QED
  BY <1>8, <1>10, <1>11 DEF IInv

LEMMA WriteFailsKeeps == IInv /\ WriteFails => IInv'
<1> SUFFICES ASSUME IInv, WriteFails PROVE IInv'
  OBVIOUS
<1>0. PICK part \in 0 .. hand - 1 :
        \E n \in 0 .. buffer + part : disk' = Flushed(n) /\ buffer' = buffer + part - n
  BY DEF WriteFails
<1>1. PICK n \in 0 .. buffer + part : disk' = Flushed(n) /\ buffer' = buffer + part - n
  BY <1>0
<1>2. /\ pc = "writing" /\ active # NoFile
      /\ degraded' = TRUE /\ hand' = 0 /\ pc' = "flushing"
      /\ UNCHANGED <<process, starts, offered, queue, dropped, reported, segments, total, active,
                     stuck>>
  BY DEF WriteFails, ActiveFull, Degrade
<1>3. TypeOK /\ Directory /\ Control /\ process # "down" /\ ~degraded /\ hand > 0
  BY <1>2 DEF IInv, Control, Asleep, Phases
<1>4. /\ buffer \in Nat /\ hand \in Size /\ hand \in Nat /\ segments \in Seq(Segment)
      /\ part \in Nat /\ part < hand /\ n \in Nat /\ n <= buffer + part
  <2>1. buffer \in Nat /\ hand \in Nat /\ segments \in Seq(Segment) /\ hand \in Size
    BY <1>3, LimitsAreNumbers DEF TypeOK, Segment
  <2> QED
    BY <1>0, <1>1, <2>1
<1>5. /\ IsFiniteSet(DOMAIN disk') /\ DOMAIN disk' \subseteq File
      /\ \A f \in DOMAIN disk' : disk'[f] \in [by : 0 .. starts', bytes : Nat]
      /\ stuck' \subseteq DOMAIN disk' /\ DOMAIN disk' = DOMAIN disk
      /\ starts' \in 0 .. MaxStarts
      /\ \A f \in DOMAIN disk :
           /\ disk'[f].by = disk[f].by /\ disk[f].bytes \in Nat
           /\ disk'[f].bytes = disk[f].bytes + (IF f = active THEN n ELSE 0)
  BY <1>1, <1>2, <1>4, FlushedDisk
<1>6. buffer' \in Nat
  BY <1>1, <1>4
<1>7. TypeOK'
  BY <1>2, <1>3, <1>5, <1>6 DEF TypeOK
<1>8. active \in DOMAIN disk /\ disk[active].by = starts
  BY <1>2, ActiveIsLast
<1>9. Directory'
  <2>1. /\ total = BytesOf(segments) /\ FilesOf(segments) = DOMAIN disk \ stuck
        /\ \A i \in 1 .. Len(segments) :
             /\ Written(segments[i]) <= segments[i].bytes
             /\ segments[i].file = active => i = Len(segments)
    BY <1>3 DEF Directory, AccountsForDirectory
  <2>2. FilesOf(segments) = DOMAIN disk' \ stuck'
    BY <1>2, <1>5, <2>1, Zenon
  <2>3. ASSUME NEW i \in 1 .. Len(segments)
        PROVE  LET f == segments[i].file
                   written == disk'[f].bytes + (IF f = active THEN buffer' ELSE 0)
               IN  \/ written <= segments[i].bytes
                   \/ f = active /\ \E size \in Size : written < segments[i].bytes + size
    <3> DEFINE f == segments[i].file
               written == disk'[f].bytes + (IF f = active THEN buffer' ELSE 0)
    <3>1. f \in DOMAIN disk /\ segments[i].bytes \in Nat
      BY <1>4, <2>1, FilesAreFinite, BytesAreNumbers DEF Segment
    <3>2. disk[f].bytes + (IF f = active THEN buffer ELSE 0) <= segments[i].bytes
      BY <2>1 DEF Written
    <3> HIDE DEF f
    <3>3. disk'[f].bytes = disk[f].bytes + (IF f = active THEN n ELSE 0) /\ disk[f].bytes \in Nat
      BY <1>5, <3>1
    <3>4. CASE f = active
      <4>1. written < segments[i].bytes + hand
        BY <1>1, <1>4, <3>1, <3>2, <3>3, <3>4
      <4> HIDE DEF written
      <4> QED
        BY <1>4, <3>4, <4>1 DEF f, written
    <3>5. CASE f # active
      <4>1. written <= segments[i].bytes
        BY <3>1, <3>2, <3>3, <3>5
      <4> QED
        BY <4>1 DEF f
    <3> QED
      BY <3>4, <3>5
  <2>4. AccountsForDirectory'
    BY <1>2, <2>1, <2>2, <2>3 DEF AccountsForDirectory, Written
  <2>5. Writing'
    BY <1>2, <1>3, <1>5, <1>8 DEF Directory, Writing
  <2> QED
    BY <1>2, <1>3, <2>4, <2>5 DEF Directory, Ordered
<1>10. Control'
  BY <1>2, <1>3 DEF Control, Asleep, Phases, WithinQuota
<1> QED
  BY <1>7, <1>9, <1>10 DEF IInv
LEMMA OrderedTail ==
  ASSUME NEW segs \in Seq(Segment), segs # <<>>, Ordered(segs)
  PROVE  /\ Tail(segs) \in Seq(Segment) /\ Ordered(Tail(segs))
         /\ Len(segs) \in Nat /\ Len(segs) > 0 /\ Len(Tail(segs)) = Len(segs) - 1
         /\ \A i \in 1 .. Len(segs) - 1 :
              /\ i + 1 \in 1 .. Len(segs) /\ Tail(segs)[i] = segs[i + 1]
              /\ segs[i + 1].file # Head(segs).file
         /\ Head(segs) \in Segment
         /\ FilesOf(Tail(segs)) = FilesOf(segs) \ {Head(segs).file}
         /\ Head(segs).file \in FilesOf(segs)
         /\ \A f \in FilesOf(segs) : Head(segs).file <= f
<1> DEFINE rest == Tail(segs)
           n == Len(segs)
           oldest == Head(segs).file
<1>1. /\ n \in Nat /\ n > 0 /\ rest \in Seq(Segment) /\ Len(rest) = n - 1
      /\ \A i \in 1 .. n - 1 : i + 1 \in 1 .. n /\ rest[i] = segs[i + 1]
      /\ Head(segs) = segs[1] /\ 1 \in 1 .. n
  OBVIOUS
<1>2. \A i \in 1 .. n : segs[i] \in Segment /\ segs[i].file \in Nat
  <2>1. \A i \in 1 .. n : segs[i] \in Segment
    OBVIOUS
  <2> QED
    BY <2>1 DEF Segment, File
<1> HIDE DEF rest
<1>3. \A i \in 1 .. n : i # 1 => oldest < segs[i].file
  BY <1>1 DEF Ordered
<1>4. \A i \in 1 .. n - 1 : segs[i + 1].file # oldest
  <2> SUFFICES ASSUME NEW i \in 1 .. n - 1 PROVE segs[i + 1].file # oldest
    OBVIOUS
  <2>1. i + 1 \in 1 .. n /\ i + 1 # 1
    BY <1>1
  <2> QED
    BY <1>1, <1>2, <1>3, <2>1
<1>5. Ordered(rest)
  <2> SUFFICES ASSUME NEW i \in 1 .. n - 1, NEW j \in 1 .. n - 1, i < j
               PROVE  segs[i + 1].file < segs[j + 1].file
    BY <1>1 DEF Ordered
  <2>1. i + 1 \in 1 .. n /\ j + 1 \in 1 .. n /\ i + 1 < j + 1
    BY <1>1
  <2> QED
    BY <2>1 DEF Ordered
<1>6. FilesOf(rest) = FilesOf(segs) \ {oldest}
  <2>1. FilesOf(rest) = {segs[i + 1].file : i \in 1 .. n - 1}
    BY <1>1 DEF FilesOf
  <2>2. \A i \in 1 .. n : i = 1 \/ (i - 1 \in 1 .. n - 1 /\ (i - 1) + 1 = i)
    BY <1>1
  <2>3. FilesOf(segs) = {segs[i].file : i \in 1 .. n}
    BY DEF FilesOf
  <2>4. ASSUME NEW f \in FilesOf(rest) PROVE f \in FilesOf(segs) \ {oldest}
    BY <1>1, <1>4, <2>1, <2>3
  <2>5. ASSUME NEW f \in FilesOf(segs) \ {oldest} PROVE f \in FilesOf(rest)
    <3>1. PICK i \in 1 .. n : f = segs[i].file
      BY <2>3
    <3>2. i - 1 \in 1 .. n - 1 /\ (i - 1) + 1 = i
      BY <1>1, <2>2, <3>1
    <3> QED
      BY <2>1, <3>1, <3>2
  <2> HIDE DEF oldest
  <2> QED
    BY <2>4, <2>5
<1>7. oldest \in FilesOf(segs) /\ \A f \in FilesOf(segs) : oldest <= f
  <2>1. oldest \in FilesOf(segs)
    BY <1>1 DEF FilesOf
  <2>2. ASSUME NEW f \in FilesOf(segs) PROVE oldest <= f
    <3>1. PICK i \in 1 .. n : f = segs[i].file
      BY DEF FilesOf
    <3> QED
      BY <1>1, <1>2, <1>3, <3>1
  <2> QED
    BY <2>1, <2>2
<1>8. Head(segs) \in Segment
  BY <1>1, <1>2
<1> QED
  BY <1>1, <1>4, <1>5, <1>6, <1>7, <1>8 DEF rest

LEMMA CleanOneKeeps == IInv /\ CleanOne => IInv'
<1> SUFFICES ASSUME IInv, CleanOne PROVE IInv'
  OBVIOUS
<1> DEFINE oldest == Head(segments)
           m == Len(segments)
<1>1. /\ pc = "cleaning" /\ total > MaxTotal /\ segments # <<>> /\ oldest.file # active
      /\ segments' = Tail(segments) /\ total' = total - oldest.bytes
      /\ \/ disk' = [f \in DOMAIN disk \ {oldest.file} |-> disk[f]] /\ stuck' = stuck
         \/ disk' = disk /\ stuck' = stuck \cup {oldest.file}
      /\ UNCHANGED <<starts, offered, queue, dropped, reported, hand, active, buffer, degraded>>
  BY DEF CleanOne, OverQuota
<1>2. \/ total' <= Target /\ process = "starting" /\ process' = "up" /\ pc' = "waiting"
      \/ total' <= Target /\ process # "starting" /\ process' = process /\ pc' = "flushing"
      \/ process' = process /\ pc' = pc
  BY DEF CleanOne, Cleaned
<1>3. TypeOK /\ Directory /\ Control /\ process # "down" /\ ~degraded
  BY <1>1 DEF IInv, Control, Asleep, Phases
<1>4. /\ segments \in Seq(Segment) /\ Ordered(segments) /\ total \in Nat
      /\ IsFiniteSet(DOMAIN disk) /\ DOMAIN disk \subseteq File /\ stuck \subseteq DOMAIN disk
      /\ \A f \in DOMAIN disk : disk[f] \in [by : 0 .. starts, bytes : Nat]
  BY <1>3 DEF TypeOK, Directory, Segment
<1>5. /\ segments' \in Seq(Segment) /\ Ordered(segments')
      /\ m \in Nat /\ m > 0 /\ Len(segments') = m - 1
      /\ \A i \in 1 .. m - 1 :
           /\ i + 1 \in 1 .. m /\ segments'[i] = segments[i + 1]
           /\ segments[i + 1].file # oldest.file
      /\ FilesOf(segments') = FilesOf(segments) \ {oldest.file}
      /\ oldest.file \in FilesOf(segments)
  BY <1>1, <1>4, OrderedTail
<1>6. /\ total = BytesOf(segments) /\ FilesOf(segments) = DOMAIN disk \ stuck
      /\ \A i \in 1 .. m :
           /\ Written(segments[i]) <= segments[i].bytes
           /\ segments[i].file = active => i = m
  BY <1>3 DEF Directory, AccountsForDirectory
<1>7. total' = BytesOf(segments') /\ total' \in Nat
  <2>1. oldest.bytes \in Nat /\ BytesOf(segments) = oldest.bytes + BytesOf(segments')
    BY <1>1, <1>4, BytesOfTail
  <2>2. BytesOf(segments') \in Nat
    BY <1>5, BytesAreNumbers
  <2> QED
    BY <1>1, <1>6, <2>1, <2>2
<1> HIDE DEF oldest, m
<1>8. /\ DOMAIN disk' \subseteq DOMAIN disk /\ stuck' \subseteq DOMAIN disk'
      /\ FilesOf(segments') = DOMAIN disk' \ stuck'
      /\ \A f \in DOMAIN disk' : disk'[f] = disk[f]
      /\ \A f \in DOMAIN disk : f # oldest.file => f \in DOMAIN disk'
  <2>1. CASE disk' = [f \in DOMAIN disk \ {oldest.file} |-> disk[f]] /\ stuck' = stuck
    <3>1. DOMAIN disk' = DOMAIN disk \ {oldest.file} /\ \A f \in DOMAIN disk' : disk'[f] = disk[f]
      BY <2>1
    <3>2. oldest.file \notin stuck
      BY <1>5, <1>6
    <3>3. (DOMAIN disk \ stuck) \ {oldest.file} = DOMAIN disk' \ stuck'
      BY <2>1, <3>1
    <3> QED
      BY <1>4, <1>5, <1>6, <2>1, <3>1, <3>2, <3>3
  <2>2. CASE disk' = disk /\ stuck' = stuck \cup {oldest.file}
    <3>1. (DOMAIN disk \ stuck) \ {oldest.file} = DOMAIN disk' \ stuck'
      BY <2>2
    <3>2. oldest.file \in DOMAIN disk
      BY <1>5, <1>6
    <3> QED
      BY <1>4, <1>5, <1>6, <2>2, <3>1, <3>2
  <2> QED
    BY <1>1, <2>1, <2>2
<1>9. TypeOK'
  <2>1. IsFiniteSet(DOMAIN disk') /\ DOMAIN disk' \subseteq File
    BY <1>4, <1>8, FS_Subset
  <2>2. \A f \in DOMAIN disk' : disk'[f] \in [by : 0 .. starts', bytes : Nat]
    BY <1>1, <1>4, <1>8
  <2>3. segments' \in Seq([file : File, bytes : Nat])
    BY <1>5 DEF Segment
  <2>4. process' \in {"starting", "up", "closing"}
        /\ pc' \in {"waiting", "flushing", "cleaning"}
    BY <1>1, <1>2, <1>3 DEF TypeOK
  <2>5. /\ starts' \in 0 .. MaxStarts /\ offered' \in 0 .. MaxRecords
        /\ queue' \in Seq(Size) /\ Len(queue') <= Capacity
        /\ reported' \in Nat /\ dropped' \in Nat /\ reported' <= dropped'
        /\ hand' \in Size \cup {0} /\ buffer' \in Nat
        /\ active' \in File \cup {NoFile} /\ degraded' \in BOOLEAN
    BY <1>1, <1>3 DEF TypeOK
  <2> QED
    BY <1>7, <1>8, <2>1, <2>2, <2>3, <2>4, <2>5 DEF TypeOK
<1>10. Directory'
  <2>1. ASSUME NEW i \in 1 .. Len(segments')
        PROVE  /\ disk'[segments'[i].file].bytes
                    + (IF segments'[i].file = active' THEN buffer' ELSE 0) <= segments'[i].bytes
               /\ segments'[i].file = active' => i = Len(segments')
    <3> DEFINE f == segments[i + 1].file
    <3>1. /\ i \in 1 .. m - 1 /\ i + 1 \in 1 .. m /\ segments'[i] = segments[i + 1]
          /\ f # oldest.file /\ i \in Nat
      BY <1>5
    <3>2. f \in DOMAIN disk /\ disk'[f] = disk[f]
      <4>1. f \in DOMAIN disk
        BY <1>4, <1>6, <3>1, FilesAreFinite DEF m
      <4> QED
        BY <1>8, <3>1, <4>1
    <3>3. disk[f].bytes + (IF f = active THEN buffer ELSE 0) <= segments[i + 1].bytes
      BY <1>6, <3>1 DEF Written
    <3>4. f = active => i + 1 = m
      BY <1>6, <3>1
    <3>5. f = active => i = Len(segments')
      BY <1>5, <3>1, <3>4
    <3> QED
      BY <1>1, <3>1, <3>2, <3>3, <3>5
  <2>2. AccountsForDirectory'
    BY <1>7, <1>8, <2>1 DEF AccountsForDirectory, Written
  <2>3. Writing'
    <3>1. CASE active = NoFile
      BY <1>1, <1>3, <3>1 DEF Directory, Writing
    <3>2. CASE active # NoFile
      <4>1. /\ active \in DOMAIN disk /\ disk[active].by = starts
            /\ m \in 1 .. m /\ segments[m].file = active
        BY <3>2, ActiveIsLast DEF m
      <4>2. m # 1
        <5>1. segments[1] = oldest
          BY <1>1, <1>4 DEF oldest
        <5> QED
          BY <1>1, <4>1, <5>1
      <4>3. m - 1 \in 1 .. m - 1 /\ (m - 1) + 1 = m
        BY <1>5, <4>2
      <4>4. segments'[m - 1].file = active /\ segments' # <<>>
        BY <1>5, <4>1, <4>3
      <4>5. disk'[active].by = starts
        BY <1>1, <1>8, <4>1
      <4> QED
        BY <1>1, <1>5, <3>2, <4>4, <4>5 DEF Writing
    <3> QED
      BY <3>1, <3>2
  <2> QED
    BY <1>5, <2>2, <2>3 DEF Directory
<1>11. Control'
  <2>1. total' <= Target => total' <= MaxTotal
    BY <1>7, LimitsAssumption, LimitsAreNumbers
  <2>2. Asleep'
    BY <1>2, <1>3 DEF Asleep
  <2>3. Phases'
    BY <1>1, <1>2, <1>3 DEF Phases, Control
  <2>4. WithinQuota'
    BY <1>1, <1>2, <2>1 DEF WithinQuota
  <2> QED
    BY <2>2, <2>3, <2>4 DEF Control
<1> QED
  BY <1>9, <1>10, <1>11 DEF IInv

-----------------------------------------------------------------------------
(* The theorems                                                            *)

LEMMA StepKeeps == IInv /\ [Next]_vars => IInv'
<1> SUFFICES ASSUME IInv, [Next]_vars PROVE IInv'
  OBVIOUS
<1>1. CASE Start
  BY <1>1, StartKeeps
<1>2. CASE Crash \/ Exit
  BY <1>2, GoneKeeps DEF Crash, Exit
<1>3. CASE Shutdown \/ Emit
  BY <1>3, HandlersKeep
<1>4. CASE Receive \/ Timeout \/ CleanDone \/ Report
  BY <1>4, WaitingKeeps
<1>5. CASE Rotate
  BY <1>5, RotateKeeps
<1>6. CASE RotateFails
  BY <1>6, RotateFailsKeeps
<1>7. CASE Write
  BY <1>7, WriteKeeps
<1>8. CASE WriteFails
  BY <1>8, WriteFailsKeeps
<1>9. CASE CleanOne
  BY <1>9, CleanOneKeeps
<1>10. CASE Flush
  BY <1>10, FlushKeeps
<1>11. CASE UNCHANGED vars
  <2>1. Directory'
    BY <1>11, DirectoryKept DEF vars, memory
  <2>2. TypeOK'
    BY <1>11 DEF vars, memory, IInv, TypeOK
  <2>3. Control'
    BY <1>11 DEF vars, memory, IInv, Control, Asleep, Phases, WithinQuota
  <2> QED
    BY <2>1, <2>2, <2>3 DEF IInv
<1> QED
  BY <1>1, <1>2, <1>3, <1>4, <1>5, <1>6, <1>7, <1>8, <1>9, <1>10, <1>11 DEF Next, Writer

\* What the writer believes of the directory, and what is there, whatever fails
\* and whenever the process stops.
THEOREM Accounted == Spec => []IInv
BY InitKeeps, StepKeeps, PTL DEF Spec

\* The sum, the list of segments and the files agree: retention decides in memory
\* after one scan (scan and enforce_quota of obs.rs).
THEOREM BooksBalance == Spec => []LogInv
<1>1. IInv => LogInv
  BY DEF IInv, Directory, LogInv
<1> QED
  BY <1>1, Accounted, PTL

LEMMA DiskWithinQuota == IInv => QuotaKept
<1> SUFFICES ASSUME IInv, pc = "waiting", ~degraded
             PROVE  \/ SumOver([f \in DOMAIN disk |-> disk[f].bytes], DOMAIN disk \ stuck) <= MaxTotal
                    \/ Cardinality(DOMAIN disk \ stuck) = 1
  BY DEF QuotaKept
<1> DEFINE I == 1 .. Len(segments)
           S == DOMAIN disk \ stuck
           size == [f \in DOMAIN disk |-> disk[f].bytes]
           h == [i \in I |-> segments[i].file]
           there == [i \in I |-> disk[segments[i].file].bytes]
           booked == Bytes(segments)
<1>1. process # "down" /\ (total <= MaxTotal \/ Len(segments) <= 1)
  BY DEF IInv, Control, Asleep, WithinQuota
<1>2. /\ segments \in Seq(Segment) /\ Ordered(segments) /\ buffer \in Nat /\ total \in Nat
      /\ \A f \in DOMAIN disk : disk[f].bytes \in Nat
  BY DEF IInv, TypeOK, Directory, Segment
<1>3. /\ total = BytesOf(segments) /\ FilesOf(segments) = S
      /\ \A i \in I : Written(segments[i]) <= segments[i].bytes
  BY <1>1 DEF IInv, Directory, AccountsForDirectory
<1>4. /\ Len(segments) \in Nat /\ IsFiniteSet(I)
      /\ \A i \in I : segments[i] \in Segment /\ booked[i] \in Nat
      /\ BytesOf(segments) = SumOver(booked, I)
  BY <1>2, BytesAreNumbers
<1>5. \A i \in I : segments[i].file \in DOMAIN disk
  BY <1>2, <1>3, FilesAreFinite
<1>6. \A i, j \in I : h[i] = h[j] => i = j
  <2> SUFFICES ASSUME NEW i \in I, NEW j \in I, segments[i].file = segments[j].file, i # j
               PROVE  FALSE
    OBVIOUS
  <2>1. segments[i].file \in Nat /\ segments[j].file \in Nat
    BY <1>4 DEF Segment, File
  <2>2. CASE i < j
    BY <1>2, <2>1, <2>2 DEF Ordered
  <2>3. CASE j < i
    BY <1>2, <2>1, <2>3 DEF Ordered
  <2> QED
    BY <1>4, <2>2, <2>3
<1>7. {h[i] : i \in I} = S
  <2>1. {h[i] : i \in I} = FilesOf(segments)
    BY DEF FilesOf
  <2> QED
    BY <1>3, <2>1
<1>8. ASSUME NEW i \in I
      PROVE  there[i] \in Nat /\ size[h[i]] = there[i] /\ there[i] <= booked[i]
  <2> DEFINE f == segments[i].file
  <2>1. f \in DOMAIN disk /\ disk[f].bytes \in Nat
    BY <1>2, <1>5
  <2>2. disk[f].bytes + (IF f = active THEN buffer ELSE 0) <= segments[i].bytes
    BY <1>3 DEF Written
  <2>3. segments[i].bytes \in Nat
    BY <1>4 DEF Segment
  <2>4. there[i] = disk[f].bytes /\ size[h[i]] = disk[f].bytes /\ booked[i] = segments[i].bytes
    BY <1>5 DEF Bytes
  <2> HIDE DEF f, there, booked, size, h
  <2>5. disk[f].bytes <= segments[i].bytes
    BY <1>2, <2>1, <2>2, <2>3
  <2> QED
    BY <2>1, <2>4, <2>5
<1> HIDE DEF I, S, size, h, there, booked
<1>9. SumOver(there, I) = SumOver(size, S)
  <2>1. SumOver(there, I) = SumOver(size, {h[i] : i \in I})
    <3>1. IsFiniteSet(I)
      BY <1>4
    <3>2. \A i, j \in I : h[i] = h[j] => i = j
      BY <1>6, Zenon
    <3>3. \A i \in I : there[i] \in Nat /\ size[h[i]] = there[i]
      BY <1>8, Zenon
    <3> QED
      BY <3>1, <3>2, <3>3, SumRenamed
  <2> QED
    BY <1>7, <2>1, Zenon
<1>10. SumOver(there, I) <= SumOver(booked, I)
  BY <1>4, <1>8, SumMonotone
<1>11. SumOver(size, S) <= total
  BY <1>3, <1>4, <1>9, <1>10
<1>12. SumOver(size, S) \in Nat
  <2>1. SumOver(there, I) \in Nat
    BY <1>4, <1>8, SumIsNat
  <2> QED
    BY <1>9, <2>1
<1>13. CASE total <= MaxTotal
  <2>1. SumOver(size, S) <= MaxTotal
    BY <1>2, <1>11, <1>12, <1>13, LimitsAreNumbers
  <2> QED
    BY <2>1, Zenon DEF size, S
<1>14. CASE Len(segments) = 1
  <2>1. I = {1}
    BY <1>14 DEF I
  <2>2. S = {segments[1].file}
    BY <1>7, <2>1 DEF h
  <2>3. Cardinality(S) = 1
    BY <2>2, FS_Singleton
  <2> QED
    BY <2>3 DEF S
<1>15. CASE Len(segments) = 0
  <2>1. I = {}
    BY <1>15 DEF I
  <2>2. total = 0
    BY <1>3, <1>4, <2>1, SumEmpty
  <2> QED
    BY <1>13, <2>2, LimitsAreNumbers
<1>16. total <= MaxTotal \/ Len(segments) = 1 \/ Len(segments) = 0
  <2>1. Len(segments) \in Nat
    BY <1>4
  <2>2. \A k \in Nat : k <= 1 => k = 1 \/ k = 0
    OBVIOUS
  <2> QED
    BY <1>1, <2>1, <2>2, Zenon
<1> QED
  BY <1>13, <1>14, <1>15, <1>16, Zenon

\* Wherever a record is waited for, the files of the directory keep the quota
\* (enforce_quota after each record and at a start).
THEOREM QuotaHolds == Spec => []QuotaKept
BY Accounted, DiskWithinQuota, PTL

\* A flush changes the active file alone, and by growing it.
LEMMA FlushLeavesOld ==
  ASSUME IInv, NEW n \in Nat, NEW f \in DOMAIN disk, Flushed(n)[f] # disk[f]
  PROVE  /\ disk[f].by = starts
         /\ Flushed(n)[f].by = disk[f].by /\ Flushed(n)[f].bytes > disk[f].bytes
<1> DEFINE g == Flushed(n)
<1>1. /\ g[f] \in [by : 0 .. starts, bytes : Nat] /\ g[f].by = disk[f].by
      /\ g[f].bytes = disk[f].bytes + (IF f = active THEN n ELSE 0)
      /\ f # active => g[f] = disk[f]
  BY FlushedGrows
<1>2. disk[f] \in [by : 0 .. starts, bytes : Nat] /\ disk[f].bytes \in Nat
  BY DEF IInv, TypeOK
<1>3. f = active /\ active # NoFile
  <2>1. f = active /\ f \in Nat
    BY <1>1 DEF IInv, TypeOK, File
  <2> QED
    BY <2>1, LimitsAreNumbers
<1>4. disk[f].by = starts
  BY <1>3, ActiveIsLast
<1>5. n # 0
  <2> SUFFICES ASSUME n = 0 PROVE FALSE
    OBVIOUS
  <2>1. g[f].by = disk[f].by /\ g[f].bytes = disk[f].bytes
    BY <1>1, <1>2
  <2>2. g[f] = [by |-> g[f].by, bytes |-> g[f].bytes] /\ disk[f] = [by |-> disk[f].by, bytes |-> disk[f].bytes]
    BY <1>1, <1>2
  <2> HIDE DEF g
  <2>3. g[f] = disk[f]
    BY <2>1, <2>2
  <2> QED
    BY <2>3 DEF g
<1> HIDE DEF g
<1>6. g[f].bytes > disk[f].bytes
  BY <1>1, <1>2, <1>3, <1>5
<1> QED
  BY <1>1, <1>4, <1>6 DEF g

LEMMA StepLeavesOld ==
  ASSUME IInv, [Next]_vars
  PROVE  \A f \in DOMAIN disk \cap DOMAIN disk' :
           disk'[f] # disk[f] =>
             /\ disk[f].by = starts
             /\ disk'[f].by = disk[f].by /\ disk'[f].bytes > disk[f].bytes
<1> SUFFICES ASSUME NEW f \in DOMAIN disk, f \in DOMAIN disk', disk'[f] # disk[f]
             PROVE  /\ disk[f].by = starts
                    /\ disk'[f].by = disk[f].by /\ disk'[f].bytes > disk[f].bytes
  OBVIOUS
<1>0. buffer \in Nat /\ hand \in Nat
  BY LimitsAreNumbers DEF IInv, TypeOK
<1>1. CASE Start
  BY <1>1, StartOpens, Zenon DEF FreshOpened
<1>2. CASE Rotate
  <2>1. PICK n \in 0 .. buffer :
          FreshOpened(segments, Flushed(n), starts, active', segments', disk')
    BY <1>2, RotateOpens
  <2>2. n \in Nat
    BY <1>0
  <2>3. DOMAIN Flushed(n) = DOMAIN disk
    BY <2>2, FlushedGrows
  <2>4. disk'[f] = Flushed(n)[f]
    BY <2>1, <2>3, Zenon DEF FreshOpened
  <2> QED
    BY <2>2, <2>4, FlushLeavesOld
<1>3. CASE RotateFails \/ Write \/ WriteFails \/ Flush
  <2>1. \E n \in Nat : disk' = Flushed(n)
    <3>1. CASE RotateFails
      BY <1>0, <3>1 DEF RotateFails
    <3>2. CASE Write
      BY <1>0, <3>2 DEF Write, Buffered
    <3>3. CASE WriteFails
      BY <1>0, <3>3 DEF WriteFails
    <3>4. CASE Flush
      BY <1>0, <3>4 DEF Flush
    <3> QED
      BY <1>3, <3>1, <3>2, <3>3, <3>4
  <2>2. PICK n \in Nat : disk' = Flushed(n)
    BY <2>1
  <2> QED
    BY <2>2, FlushLeavesOld
<1>4. CASE CleanOne
  BY <1>4 DEF CleanOne
<1>5. CASE Crash \/ Shutdown \/ Exit \/ Emit \/ Receive \/ Timeout \/ CleanDone \/ Report
  BY <1>5 DEF Crash, Exit, Gone, Shutdown, Emit, Receive, Timeout, CleanDone, Report
<1>6. CASE UNCHANGED vars
  BY <1>6 DEF vars
<1> QED
  BY <1>1, <1>2, <1>3, <1>4, <1>5, <1>6 DEF Next, Writer

\* "Existing files are never appended to or truncated": a file changes only by
\* growing, in the run that has created it (open_fresh_segment, write_line).
THEOREM OldFilesAreIntact == Spec => OldFilesIntact
<1>1. IInv /\ [Next]_vars
        => [\A f \in DOMAIN disk \cap DOMAIN disk' :
              disk'[f] # disk[f] =>
                /\ disk[f].by = starts
                /\ disk'[f].by = disk[f].by /\ disk'[f].bytes > disk[f].bytes]_vars
  BY StepLeavesOld
<1> QED
  BY <1>1, Accounted, PTL DEF Spec, OldFilesIntact

LEMMA StepTakesOldest ==
  ASSUME IInv, [Next]_vars
  PROVE  \A f \in DOMAIN disk \ DOMAIN disk' :
           /\ f # active /\ total > MaxTotal
           /\ \A g \in DOMAIN disk \ stuck : f <= g
<1> SUFFICES ASSUME NEW f \in DOMAIN disk \ DOMAIN disk'
             PROVE  /\ f # active /\ total > MaxTotal
                    /\ \A g \in DOMAIN disk \ stuck : f <= g
  OBVIOUS
<1>0. buffer \in Nat /\ hand \in Nat
  BY LimitsAreNumbers DEF IInv, TypeOK
<1>1. CASE Start
  BY <1>1, StartOpens, Zenon DEF FreshOpened
<1>2. CASE Rotate
  <2>1. PICK n \in 0 .. buffer :
          FreshOpened(segments, Flushed(n), starts, active', segments', disk')
    BY <1>2, RotateOpens
  <2>2. DOMAIN Flushed(n) = DOMAIN disk
    BY <1>0, FlushedGrows
  <2> QED
    BY <2>1, <2>2, Zenon DEF FreshOpened
<1>3. CASE RotateFails \/ Write \/ WriteFails \/ Flush
  <2>1. DOMAIN disk' = DOMAIN disk
    BY <1>3 DEF RotateFails, Write, Buffered, WriteFails, Flush, Flushed
  <2> QED
    BY <2>1
<1>4. CASE CleanOne
  <2>1. /\ total > MaxTotal /\ segments # <<>> /\ Head(segments).file # active
        /\ f = Head(segments).file /\ pc = "cleaning"
    BY <1>4 DEF CleanOne, OverQuota
  <2>2. segments \in Seq(Segment) /\ Ordered(segments)
    BY DEF IInv, TypeOK, Directory, Segment
  <2>3. FilesOf(segments) = DOMAIN disk \ stuck
    BY <2>1 DEF IInv, Control, Asleep, Directory, AccountsForDirectory
  <2>4. \A g \in FilesOf(segments) : Head(segments).file <= g
    BY <2>1, <2>2, OrderedTail
  <2> QED
    BY <2>1, <2>3, <2>4
<1>5. CASE Crash \/ Shutdown \/ Exit \/ Emit \/ Receive \/ Timeout \/ CleanDone \/ Report
  BY <1>5 DEF Crash, Exit, Gone, Shutdown, Emit, Receive, Timeout, CleanDone, Report
<1>6. CASE UNCHANGED vars
  BY <1>6 DEF vars
<1> QED
  BY <1>1, <1>2, <1>3, <1>4, <1>5, <1>6 DEF Next, Writer

\* enforce_quota deletes the oldest file there is, never the one in use, and only
\* over the quota.
THEOREM OldestIsTaken == Spec => OldestGoesFirst
<1>1. IInv /\ [Next]_vars
        => [\A f \in DOMAIN disk \ DOMAIN disk' :
              /\ f # active /\ total > MaxTotal
              /\ \A g \in DOMAIN disk \ stuck : f <= g]_vars
  BY StepTakesOldest
<1> QED
  BY <1>1, Accounted, PTL DEF Spec, OldestGoesFirst
===============================================================================
