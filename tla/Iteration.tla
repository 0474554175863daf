------------------------------ MODULE Iteration ------------------------------
(***************************************************************************)
(* Induction for definitions by recursion over sequences.  What holds of   *)
(* all natural numbers is stated with the set of those for which it does,  *)
(* and a recursive definition with the function that has its steps.        *)
(***************************************************************************)
EXTENDS Naturals, Sequences, SequencesExt, SequenceTheorems, WellFoundedInduction, TLAPS

\* Every set of naturals that is not empty has a least element.
LEMMA LeastElement ==
    ASSUME NEW T \in SUBSET Nat, T # {}
    PROVE  \E n \in T : \A m \in T : n =< m
<1> DEFINE Less == {pair \in Nat \X Nat : pair[1] < pair[2]}
<1>1. IsWellFoundedOn(Less, Nat)
  BY NatLessThanWellFounded DEF OpToRel
<1> HIDE DEF Less
<1>2. PICK n \in T : \A m \in T : ~(<<m, n>> \in Less)
  BY <1>1, WFMin
<1>3. \A m \in T : ~(m < n)
  BY <1>2 DEF Less
<1> QED BY <1>3

\* A set that contains 0, and with each number below a bound the next one, contains all
\* numbers up to the bound.
LEMMA Induction ==
    ASSUME NEW T, NEW n \in Nat, 0 \in T, \A i \in 1 .. n : i - 1 \in T => i \in T
    PROVE  0 .. n \subseteq T
<1> DEFINE Others == {i \in 0 .. n : i \notin T}
<1> SUFFICES ASSUME Others # {} PROVE FALSE
  OBVIOUS
<1>1. Others \in SUBSET Nat
  OBVIOUS
<1> HIDE DEF Others
<1>2. PICK i \in Others : \A j \in Others : i =< j
  BY <1>1, LeastElement
<1> USE DEF Others
<1>3. i \in 1 .. n /\ i - 1 \in 0 .. n /\ i \notin T
  BY <1>2
<1>4. i - 1 \notin Others
  BY <1>2, <1>3
<1> QED BY <1>3, <1>4

\* run[i] is what the first i steps make of the start.
Runs(run, S, n, start, step) ==
    /\ run \in [0 .. n -> S] /\ run[0] = start
    /\ \A i \in 1 .. n : run[i] = step[i][run[i - 1]]

\* Steps that stay in a set can be taken one after the other.
LEMMA Iterates ==
    ASSUME NEW S, NEW n \in Nat, NEW start \in S, NEW step,
           \A i \in 1 .. n, s \in S : step[i][s] \in S
    PROVE  \E run : Runs(run, S, n, start, step)
<1> DEFINE T == {k \in 0 .. n : \E run : Runs(run, S, k, start, step)}
<1>1. 0 \in T
  <2>1. Runs([i \in 0 .. 0 |-> start], S, 0, start, step)
    BY DEF Runs
  <2> QED BY <2>1
<1>2. ASSUME NEW k \in 1 .. n, k - 1 \in T PROVE k \in T
  <2>1. PICK run : Runs(run, S, k - 1, start, step)
    BY <1>2
  <2> DEFINE next == [i \in 0 .. k |-> IF i = k THEN step[k][run[k - 1]] ELSE run[i]]
  <2>2. run[k - 1] \in S
    <3>1. k - 1 \in 0 .. k - 1
      OBVIOUS
    <3> QED BY <2>1, <3>1 DEF Runs
  <2>3. \A i \in 0 .. k - 1 : next[i] = run[i] /\ run[i] \in S
    BY <2>1 DEF Runs
  <2>4. next[k] = step[k][run[k - 1]] /\ next[k] \in S
    BY <2>2
  <2>5. next \in [0 .. k -> S]
    BY <2>3, <2>4
  <2>6. next[0] = start
    BY <2>1 DEF Runs
  <2>7. ASSUME NEW i \in 1 .. k PROVE next[i] = step[i][next[i - 1]]
    <3>1. next[i - 1] = run[i - 1]
      OBVIOUS
    <3>2. CASE i = k
      BY <2>4, <3>1, <3>2
    <3>3. CASE i # k
      <4>1. i \in 1 .. k - 1 /\ next[i] = run[i]
        BY <3>3
      <4> QED BY <2>1, <3>1, <4>1 DEF Runs
    <3> QED BY <3>2, <3>3
  <2> HIDE DEF next
  <2>8. Runs(next, S, k, start, step)
    BY <2>5, <2>6, <2>7 DEF Runs
  <2> QED BY <2>8
<1> HIDE DEF T
<1>3. 0 .. n \subseteq T
  BY <1>1, <1>2, Induction
<1>4. n \in T
  BY <1>3
<1> QED BY <1>4 DEF T

\* What starts equal and goes on equally stays equal.
GoAlike(f, g, n) ==
    f[0] = g[0] /\ \A i \in 1 .. n : f[i - 1] = g[i - 1] => f[i] = g[i]
Alike(f, g, n) == \A i \in 0 .. n : f[i] = g[i]

\* Two functions with the same first value and the same steps are alike.
LEMMA SameRun ==
    ASSUME NEW n \in Nat, NEW f, NEW g, GoAlike(f, g, n)
    PROVE  Alike(f, g, n)
<1> DEFINE T == {i \in Nat : f[i] = g[i]}
<1>1. 0 \in T /\ \A i \in 1 .. n : i - 1 \in T => i \in T
  BY DEF GoAlike
<1> HIDE DEF T
<1>2. 0 .. n \subseteq T
  BY <1>1, Induction
<1> QED BY <1>2 DEF T, Alike

\* A function on the first numbers is a sequence.
LEMMA SeqOfFunction ==
    ASSUME NEW S, NEW n \in Nat, NEW s \in [1 .. n -> S]
    PROVE  s \in Seq(S) /\ Len(s) = n
<1>1. s \in Seq(S)
  BY SeqDef
<1>2. DOMAIN s = 1 .. n /\ DOMAIN s = 1 .. Len(s) /\ Len(s) \in Nat
  BY <1>1, LenProperties
<1> QED BY <1>1, <1>2

-----------------------------------------------------------------------------
(* FlattenSeq                                                              *)

\* joined[i] is the first i sequences, one after the other.
Joins(joined, seqs, n) ==
    joined[0] = <<>> /\ \A i \in 1 .. n : joined[i] = joined[i - 1] \o seqs[i]

\* There are the sequences that joining one after the other leads through.
LEMMA JoinsExist ==
    ASSUME NEW S, NEW n \in Nat, NEW seqs, \A i \in 1 .. n : seqs[i] \in Seq(S)
    PROVE  \E joined : joined \in [0 .. n -> Seq(S)] /\ Joins(joined, seqs, n)
<1> DEFINE step == [i \in 1 .. n |-> [s \in Seq(S) |-> s \o seqs[i]]]
<1>1. \A i \in 1 .. n, s \in Seq(S) : step[i][s] = s \o seqs[i]
  OBVIOUS
<1>2. \A i \in 1 .. n, s \in Seq(S) : s \o seqs[i] \in Seq(S)
  BY ConcatProperties
<1>3. <<>> \in Seq(S)
  BY EmptySeq
<1> HIDE DEF step
<1>4. PICK run : Runs(run, Seq(S), n, <<>>, step)
  BY <1>1, <1>2, <1>3, Iterates, Zenon
<1>5. run \in [0 .. n -> Seq(S)] /\ run[0] = <<>>
  BY <1>4, Zenon DEF Runs
<1>6. ASSUME NEW i \in 1 .. n PROVE run[i] = run[i - 1] \o seqs[i]
  <2>1. i - 1 \in 0 .. n
    OBVIOUS
  <2>2. run[i - 1] \in Seq(S)
    BY <1>5, <2>1, Zenon
  <2> QED BY <1>1, <1>4, <2>2, Zenon DEF Runs
<1> QED BY <1>5, <1>6, Zenon DEF Joins

\* What joins them is determined ...
LEMMA JoinsUnique ==
    ASSUME NEW n \in Nat, NEW seqs, NEW f, NEW g, Joins(f, seqs, n), Joins(g, seqs, n)
    PROVE  f[n] = g[n]
<1>1. \A i \in 1 .. n : f[i - 1] = g[i - 1] => f[i] = g[i]
  BY DEF Joins
<1>2. f[0] = g[0]
  BY DEF Joins
<1>3. \A i \in 0 .. n : f[i] = g[i]
  BY <1>1, <1>2, SameRun DEF GoAlike, Alike
<1> QED BY <1>3

\* ... and is what flattening yields.
LEMMA FlattenIs ==
    ASSUME NEW S, NEW n \in Nat, NEW seqs, Len(seqs) = n, n # 0,
           \A i \in 1 .. n : seqs[i] \in Seq(S),
           NEW joined, joined \in [0 .. n -> Seq(S)], Joins(joined, seqs, n)
    PROVE  FlattenSeq(seqs) = joined[n]
<1> DEFINE Defines(f) == f = [i \in 1 .. n |-> IF i = 1 THEN seqs[i] ELSE f[i - 1] \o seqs[i]]
           flat == CHOOSE f : Defines(f)
           tail == [i \in 1 .. n |-> joined[i]]
           again == [i \in 0 .. n |-> IF i = 0 THEN <<>> ELSE flat[i]]
<1>1. FlattenSeq(seqs) = flat[n]
  BY DEF FlattenSeq
<1>2. seqs[1] = <<>> \o seqs[1]
  <2>1. seqs[1] \in Seq(S)
    OBVIOUS
  <2> QED BY <2>1, ConcatEmptySeq, Zenon
<1>3. joined[1] = seqs[1]
  <2>1. 1 \in 1 .. n /\ 1 - 1 = 0
    OBVIOUS
  <2>2. joined[1] = joined[0] \o seqs[1]
    BY <2>1, Zenon DEF Joins
  <2> QED BY <1>2, <2>2, Zenon DEF Joins
<1>4. Defines(tail)
  <2> SUFFICES ASSUME NEW i \in 1 .. n
               PROVE  tail[i] = IF i = 1 THEN seqs[i] ELSE tail[i - 1] \o seqs[i]
    OBVIOUS
  <2>1. CASE i = 1
    BY <1>3, <2>1
  <2>2. CASE i # 1
    <3>1. i - 1 \in 1 .. n
      BY <2>2
    <3> QED BY <2>2, <3>1 DEF Joins
  <2> QED BY <2>1, <2>2
<1> HIDE DEF tail, Defines
<1>5. Defines(flat)
  BY <1>4
<1> HIDE DEF flat
<1> USE DEF Defines
<1>6. \A i \in 1 .. n : flat[i] = IF i = 1 THEN seqs[i] ELSE flat[i - 1] \o seqs[i]
  BY <1>5
<1>7. Joins(again, seqs, n)
  <2>1. again[0] = <<>>
    OBVIOUS
  <2>2. ASSUME NEW i \in 1 .. n PROVE again[i] = again[i - 1] \o seqs[i]
    <3>1. CASE i = 1
      <4>1. again[i] = seqs[1]
        BY <1>6, <3>1
      <4>2. again[i - 1] = <<>>
        BY <3>1
      <4> QED BY <1>2, <3>1, <4>1, <4>2, Zenon
    <3>2. CASE i # 1
      <4>1. i - 1 \in 1 .. n
        BY <3>2
      <4>2. again[i - 1] = flat[i - 1] /\ again[i] = flat[i]
        BY <4>1
      <4> QED BY <1>6, <3>2, <4>2
    <3> QED BY <3>1, <3>2
  <2> QED BY <2>1, <2>2 DEF Joins
<1>8. again[n] = flat[n]
  OBVIOUS
<1> HIDE DEF again
<1> QED BY <1>1, <1>7, <1>8, JoinsUnique

\* Joining sequences over a set leads to a sequence over it.
LEMMA FlattenType ==
    ASSUME NEW S, NEW seqs \in Seq(Seq(S))
    PROVE  FlattenSeq(seqs) \in Seq(S)
<1> PICK n \in Nat : n = Len(seqs)
  OBVIOUS
<1>1. CASE n = 0
  <2>1. seqs = <<>>
    BY <1>1, EmptySeq
  <2>2. FlattenSeq(seqs) = <<>>
    BY <2>1 DEF FlattenSeq
  <2> QED BY <2>2, EmptySeq
<1>2. CASE n # 0
  <2>1. \A i \in 1 .. n : seqs[i] \in Seq(S)
    BY ElementOfSeq
  <2>2. PICK joined : joined \in [0 .. n -> Seq(S)] /\ Joins(joined, seqs, n)
    BY <2>1, JoinsExist, Zenon
  <2>3. FlattenSeq(seqs) = joined[n]
    BY <1>2, <2>1, <2>2, FlattenIs, Zenon
  <2>4. n \in 0 .. n
    OBVIOUS
  <2> QED BY <2>2, <2>3, <2>4, Zenon
<1> QED BY <1>1, <1>2

\* Joining no sequences leads to the empty one.
LEMMA FlattenEmpty == FlattenSeq(<<>>) = <<>>
BY DEF FlattenSeq

\* One sequence more appends its elements.
LEMMA FlattenAppend ==
    ASSUME NEW S, NEW seqs \in Seq(Seq(S)), NEW s \in Seq(S)
    PROVE  FlattenSeq(Append(seqs, s)) = FlattenSeq(seqs) \o s
<1> PICK n \in Nat : n = Len(seqs)
  OBVIOUS
<1> DEFINE more == Append(seqs, s)
<1>1. /\ more \in Seq(Seq(S)) /\ Len(more) = n + 1 /\ more[n + 1] = s
      /\ \A i \in 1 .. n : more[i] = seqs[i]
  BY AppendProperties
<1>2. \A i \in 1 .. n : seqs[i] \in Seq(S)
  BY ElementOfSeq
<1>3. PICK joined : joined \in [0 .. n -> Seq(S)] /\ Joins(joined, seqs, n)
  BY <1>2, JoinsExist, Zenon
<1>4. joined[n] \in Seq(S)
  <2>1. n \in 0 .. n
    OBVIOUS
  <2> QED BY <1>3, <2>1, Zenon
<1>5. FlattenSeq(seqs) = joined[n]
  <2>1. CASE n = 0
    <3>1. seqs = <<>>
      BY <2>1, EmptySeq
    <3> QED BY <1>3, <2>1, <3>1, FlattenEmpty, Zenon DEF Joins
  <2>2. CASE n # 0
    BY <1>2, <1>3, <2>2, FlattenIs, Zenon
  <2> QED BY <2>1, <2>2
<1> DEFINE longer == [i \in 0 .. n + 1 |-> IF i = n + 1 THEN joined[n] \o s ELSE joined[i]]
<1> HIDE DEF more
<1>6. longer \in [0 .. n + 1 -> Seq(S)]
  <2>1. joined[n] \o s \in Seq(S)
    BY <1>4, ConcatProperties
  <2> QED BY <1>3, <2>1
<1>7. Joins(longer, more, n + 1)
  <2>1. longer[0] = <<>>
    BY <1>3 DEF Joins
  <2>2. ASSUME NEW i \in 1 .. n + 1 PROVE longer[i] = longer[i - 1] \o more[i]
    <3>1. CASE i = n + 1
      <4>1. longer[i] = joined[n] \o s
        BY <3>1
      <4>2. i - 1 \in 0 .. n + 1 /\ i - 1 # n + 1 /\ i - 1 = n
        BY <3>1
      <4>3. longer[i - 1] = joined[n]
        BY <4>2
      <4> QED BY <1>1, <3>1, <4>1, <4>3, Zenon
    <3>2. CASE i # n + 1
      <4>1. i \in 1 .. n /\ i - 1 \in 0 .. n /\ i - 1 # n + 1
        BY <3>2
      <4>2. joined[i] = joined[i - 1] \o more[i]
        BY <1>1, <1>3, <4>1 DEF Joins
      <4>3. longer[i] = joined[i]
        BY <4>1
      <4>4. i - 1 \in 0 .. n + 1
        BY <4>1
      <4>5. longer[i - 1] = joined[i - 1]
        BY <4>1, <4>4, Zenon
      <4> QED BY <4>2, <4>3, <4>5, Zenon
    <3> QED BY <3>1, <3>2
  <2> QED BY <2>1, <2>2 DEF Joins
<1>8. longer[n + 1] = joined[n] \o s
  OBVIOUS
<1>9. n + 1 \in Nat /\ n + 1 # 0 /\ \A i \in 1 .. n + 1 : i \in 1 .. n \/ i = n + 1
  OBVIOUS
<1>10. \A i \in 1 .. n + 1 : more[i] \in Seq(S)
  BY <1>1, <1>2, <1>9, Zenon
<1> HIDE DEF longer
<1>11. FlattenSeq(more) = longer[n + 1]
  <2> PICK k \in Nat : k = n + 1
    BY <1>9
  <2>1. /\ Len(more) = k /\ k # 0 /\ \A i \in 1 .. k : more[i] \in Seq(S)
        /\ longer \in [0 .. k -> Seq(S)] /\ Joins(longer, more, k)
    BY <1>1, <1>6, <1>7, <1>9, <1>10, Zenon
  <2>2. FlattenSeq(more) = longer[k]
    BY <2>1, FlattenIs, Zenon
  <2> QED BY <2>2
<1> QED BY <1>5, <1>8, <1>11, Zenon DEF more
=============================================================================
