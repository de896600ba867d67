----------------------------- MODULE Collections -----------------------------
(***************************************************************************)
(* Operators on collections that several components are built from, and    *)
(* that their proofs are about.  Put and Over are :> and @@ of TLC, and    *)
(* Without and Chosen are uses of SelectSeq, in a form that provers can    *)
(* expand.                                                                 *)
(***************************************************************************)
EXTENDS Integers, Sequences, FiniteSetsExt

\* The sum of the numbers that f gives to the elements of S.
SumOver(f, S) == MapThenSumSet(LAMBDA x : f[x], S)

\* f with a value for k.
Put(f, k, value) == [x \in DOMAIN f \cup {k} |-> IF x = k THEN value ELSE f[x]]

\* f, written over by g.
Over(g, f) ==
  [x \in DOMAIN g \cup DOMAIN f |-> IF x \in DOMAIN g THEN g[x] ELSE f[x]]

\* The elements of seq that are not in gone, in their order.
Without(seq, gone) ==
  LET kept[n \in 0 .. Len(seq)] ==
        IF n = 0 THEN <<>>
        ELSE IF seq[n] \in gone THEN kept[n - 1] ELSE Append(kept[n - 1], seq[n])
  IN  kept[Len(seq)]

\* The elements of seq at some positions, in their order.
Chosen(seq, positions) ==
  [i \in 1 .. Cardinality(positions) |->
     seq[CHOOSE n \in positions : Cardinality({m \in positions : m < n}) = i - 1]]
==============================================================================
