----------------------------- MODULE SequenceFacts -----------------------------
(***************************************************************************)
(* Facts about sequences and numbers that the proofs of several modules    *)
(* need.                                                                   *)
(***************************************************************************)
EXTENDS Lists, WellFoundedInduction, TLAPS

\* What a sequence looks like after append().
LEMMA AppendFacts ==
  ASSUME NEW S, NEW q \in Seq(S), NEW x \in S
  PROVE  /\ Append(q, x) \in Seq(S)
         /\ Len(Append(q, x)) = Len(q) + 1
         /\ \A i \in 1..Len(q) : Append(q, x)[i] = q[i]
         /\ Append(q, x)[Len(q) + 1] = x
         /\ Append(q, x) # <<>>
  OBVIOUS

\* What a sequence looks like after popleft().
LEMMA TailFacts ==
  ASSUME NEW S, NEW q \in Seq(S), q # <<>>
  PROVE  /\ Tail(q) \in Seq(S)
         /\ Len(q) \in Nat \ {0}
         /\ Len(Tail(q)) = Len(q) - 1
         /\ \A i \in 1..(Len(q) - 1) : Tail(q)[i] = q[i + 1]
         /\ Head(q) = q[1]
         /\ Head(q) \in S
  OBVIOUS

\* The elements of a sequence.
LEMMA ElementFacts ==
  ASSUME NEW S, NEW q \in Seq(S)
  PROVE  /\ Len(q) \in Nat
         /\ DOMAIN q = 1..Len(q)
         /\ \A i \in 1..Len(q) : q[i] \in S
         /\ q = <<>> <=> Len(q) = 0
  OBVIOUS

\* The end of a sequence, without its first k elements.
LEMMA SubSeqFacts ==
  ASSUME NEW S, NEW q \in Seq(S), NEW k \in 0..Len(q)
  PROVE  /\ SubSeq(q, k + 1, Len(q)) \in Seq(S)
         /\ Len(SubSeq(q, k + 1, Len(q))) = Len(q) - k
         /\ \A i \in 1..(Len(q) - k) : SubSeq(q, k + 1, Len(q))[i] = q[k + i]
  OBVIOUS

\* A function on 1..n is a sequence.
LEMMA ListFacts ==
  ASSUME NEW S, NEW n \in Nat, NEW f \in [1..n -> S]
  PROVE  f \in Seq(S) /\ Len(f) = n
  OBVIOUS

\* Sequences with the same elements are the same.
LEMMA SameElements ==
  ASSUME NEW S, NEW q \in Seq(S), NEW r \in Seq(S), Len(q) = Len(r),
         \A i \in 1..Len(q) : q[i] = r[i]
  PROVE  q = r
  OBVIOUS

-----------------------------------------------------------------------------
\* A set of natural numbers has a least element: induction, in the form the
\* provers can use.
LEMMA LeastNumber ==
  ASSUME NEW T, T \subseteq Nat, T # {}
  PROVE  \E x \in T : \A y \in T : x <= y
<1>1. PICK x \in T : \A y \in T : ~(<<y, x>> \in OpToRel(<, Nat))
  BY NatLessThanWellFounded, WFMin
<1>2. \A y \in T : ~(y < x)
  BY <1>1 DEF OpToRel
<1> QED
  BY <1>2

\* Induction up to n.
LEMMA UpTo ==
  ASSUME NEW n \in Nat, NEW T, 0 \in T, \A i \in 1..n : i - 1 \in T => i \in T
  PROVE  \A i \in 0..n : i \in T
<1> DEFINE Bad == {i \in 0..n : i \notin T}
<1>1. SUFFICES ASSUME Bad # {} PROVE FALSE
  OBVIOUS
<1>2. Bad \subseteq Nat
  OBVIOUS
<1>3. PICK i \in Bad : \A y \in Bad : i <= y
  <2> HIDE DEF Bad
  <2> QED
    BY <1>1, <1>2, LeastNumber
<1>4. i \in 1..n /\ i - 1 \in 0..n
  BY <1>3
<1>5. i - 1 \notin Bad
  BY <1>3, <1>4
<1> QED
  BY <1>3, <1>4, <1>5

-----------------------------------------------------------------------------
(***************************************************************************)
(* Loops that build a list.                                                *)
(***************************************************************************)

\* f[i] is what a loop has after its first i steps.
Looping(f, X, start, n, step) ==
  f \in [0..n -> X] /\ f[0] = start /\ \A i \in 1..n : f[i] = step[i][f[i - 1]]

\* A loop of n steps leaves a result after each of them.
LEMMA LoopExists ==
  ASSUME NEW X, NEW start \in X, NEW n \in Nat, NEW step \in [1..n -> [X -> X]]
  PROVE  \E f : Looping(f, X, start, n, step)
<1> DEFINE Runs(f, k) == Looping(f, X, start, k, step)
           T == {k \in 0..n : \E f : Runs(f, k)}
<1>1. 0 \in T
  <2>1. Runs([i \in 0..0 |-> start], 0)
    BY DEF Looping
  <2> HIDE DEF Runs
  <2> QED
    BY <2>1
<1>2. ASSUME NEW k \in 1..n, k - 1 \in T PROVE k \in T
  <2>1. PICK f : Runs(f, k - 1)
    BY <1>2
  <2> DEFINE g == [i \in 0..k |-> IF i = k THEN step[k][f[k - 1]] ELSE f[i]]
  <2>2. f[k - 1] \in X
    BY <2>1 DEF Looping
  <2>3. step[k] \in [X -> X]
    OBVIOUS
  <2>4. step[k][f[k - 1]] \in X
    BY <2>2, <2>3
  <2>5. g \in [0..k -> X] /\ g[0] = start
    BY <2>1, <2>4 DEF Looping
  <2>6. ASSUME NEW i \in 1..k PROVE g[i] = step[i][g[i - 1]]
    <3>1. CASE i = k
      BY <3>1
    <3>2. CASE i # k
      BY <2>1, <3>2 DEF Looping
    <3> QED
      BY <3>1, <3>2
  <2>7. Runs(g, k)
    BY <2>5, <2>6 DEF Looping
  <2> HIDE DEF Runs
  <2> QED
    BY <2>7
<1>3. n \in T
  <2> HIDE DEF T
  <2>1. \A k \in 0..n : k \in T
    BY <1>1, <1>2, UpTo
  <2> QED
    BY <2>1
<1> QED
  BY <1>3

\* What obeys the steps of a loop stays among its results.
LEMMA LoopIsTyped ==
  ASSUME NEW X, NEW start \in X, NEW n \in Nat, NEW step \in [1..n -> [X -> X]],
         NEW loop, loop[0] = start,
         \A i \in 1..n : loop[i - 1] \in X => loop[i] = step[i][loop[i - 1]]
  PROVE  \A i \in 0..n : loop[i] \in X
<1> DEFINE T == {i \in 0..n : loop[i] \in X}
<1>1. 0 \in T
  OBVIOUS
<1>2. ASSUME NEW i \in 1..n, i - 1 \in T PROVE i \in T
  <2>1. step[i] \in [X -> X] /\ loop[i - 1] \in X
    BY <1>2
  <2>2. step[i][loop[i - 1]] \in X
    BY <2>1
  <2> QED
    BY <2>1, <2>2
<1>3. \A i \in 0..n : i \in T
  <2> HIDE DEF T
  <2> QED
    BY <1>1, <1>2, UpTo
<1> QED
  BY <1>3

\* The results of the loop behind Sift.
Sifting(f, S, q, keep) ==
  /\ f \in [0..Len(q) -> Seq(S)]
  /\ f[0] = <<>>
  /\ \A i \in 1..Len(q) :
       f[i] = IF q[i] \in keep THEN Append(f[i - 1], q[i]) ELSE f[i - 1]
  /\ Sift(q, keep) = f[Len(q)]

LEMMA SiftLoop ==
  ASSUME NEW S, NEW q \in Seq(S), NEW keep
  PROVE  \E f : Sifting(f, S, q, keep)
<1> DEFINE n == Len(q)
           X == Seq(S)
           Longer(r, i) == IF q[i] \in keep THEN Append(r, q[i]) ELSE r
           Body(f) == [i \in 0..n |-> IF i = 0 THEN <<>> ELSE Longer(f[i - 1], i)]
           step == [i \in 1..n |-> [r \in X |-> Longer(r, i)]]
           loop == CHOOSE h : h = Body(h)
<1>1. n \in Nat /\ <<>> \in X
  BY ElementFacts
<1>2. \A i \in 1..n, r \in X : Longer(r, i) \in X
  BY ElementFacts, AppendFacts
<1>3. Sift(q, keep) = loop[n]
  BY DEF Sift
<1> HIDE DEF n, X, Longer
<1>4. step \in [1..n -> [X -> X]]
  BY <1>2
<1> DEFINE start == <<>>
<1>5. start \in X
  BY <1>1
<1>6. PICK f : Looping(f, X, start, n, step)
  <2> HIDE DEF step, start
  <2> QED
    BY <1>1, <1>4, <1>5, LoopExists
<1>7. f = Body(f)
  <2>1. f \in [0..n -> X] /\ f[0] = <<>> /\ \A i \in 1..n : f[i] = step[i][f[i - 1]]
    BY <1>6 DEF Looping
  <2>2. \A i \in 1..n : f[i - 1] \in X
    BY <1>1, <2>1
  <2>3. \A i \in 1..n : f[i] = Longer(f[i - 1], i)
    BY <2>1, <2>2
  <2>4. \A i \in 0..n : f[i] = IF i = 0 THEN <<>> ELSE Longer(f[i - 1], i)
    BY <1>1, <2>1, <2>3
  <2> QED
    BY <2>1, <2>4
<1>8. loop = Body(loop)
  BY <1>7
<1> HIDE DEF loop
<1>9. loop[0] = <<>>
  BY <1>1, <1>8
<1>10. ASSUME NEW i \in 1..n PROVE loop[i] = Longer(loop[i - 1], i)
  <2>1. Body(loop)[i] = Longer(loop[i - 1], i)
    BY <1>1
  <2> QED
    BY <1>8, <2>1
<1>11. loop = [i \in 0..n |-> loop[i]]
  BY <1>8
<1>12. \A i \in 1..n : loop[i - 1] \in X => loop[i] = step[i][loop[i - 1]]
  BY <1>10
<1>13. \A i \in 0..n : loop[i] \in X
  <2>1. loop[0] = start
    BY <1>9
  <2> HIDE DEF step, start
  <2> QED
    BY <1>1, <1>4, <1>5, <1>12, <2>1, LoopIsTyped
<1>14. Sifting(loop, S, q, keep)
  <2>1. loop \in [0..n -> X]
    BY <1>11, <1>13
  <2> QED
    BY <1>3, <1>9, <1>10, <2>1 DEF Sifting, n, X, Longer
<1> QED
  BY <1>14

\* What Sift keeps: the elements in keep, all of them, in their order.
LEMMA SiftFacts ==
  ASSUME NEW S, NEW q \in Seq(S), NEW keep
  PROVE  /\ Sift(q, keep) \in Seq(S)
         /\ \A j \in 1..Len(Sift(q, keep)) :
              Sift(q, keep)[j] \in keep /\ \E i \in 1..Len(q) : Sift(q, keep)[j] = q[i]
         /\ \A i \in 1..Len(q) :
              q[i] \in keep => \E j \in 1..Len(Sift(q, keep)) : Sift(q, keep)[j] = q[i]
         /\ \A j, k \in 1..Len(Sift(q, keep)) : j < k =>
              \E a, b \in 1..Len(q) :
                a < b /\ Sift(q, keep)[j] = q[a] /\ Sift(q, keep)[k] = q[b]
<1>0. PICK f : Sifting(f, S, q, keep)
  BY SiftLoop
<1> DEFINE n == Len(q)
           Kept(r, m) ==
             /\ \A j \in 1..Len(r) : r[j] \in keep /\ \E i \in 1..m : r[j] = q[i]
             /\ \A i \in 1..m : q[i] \in keep => \E j \in 1..Len(r) : r[j] = q[i]
             /\ \A j, k \in 1..Len(r) : j < k =>
                  \E a, b \in 1..m : a < b /\ r[j] = q[a] /\ r[k] = q[b]
<1>1. /\ f \in [0..n -> Seq(S)]
      /\ f[0] = <<>>
      /\ \A i \in 1..n : f[i] = IF q[i] \in keep THEN Append(f[i - 1], q[i]) ELSE f[i - 1]
      /\ Sift(q, keep) = f[n]
  BY <1>0 DEF Sifting
<1>2. n \in Nat /\ \A i \in 1..n : q[i] \in S
  BY ElementFacts
<1> DEFINE T == {m \in 0..n : Kept(f[m], m)}
<1>3. 0 \in T
  <2>1. Len(f[0]) = 0
    BY <1>1
  <2>2. Kept(f[0], 0)
    BY <2>1
  <2> HIDE DEF Kept
  <2> QED
    BY <1>2, <2>2
<1>4. ASSUME NEW m \in 1..n, m - 1 \in T PROVE m \in T
  <2> DEFINE r == f[m - 1]
             x == q[m]
  <2>1. Kept(r, m - 1)
    BY <1>4
  <2>2. m \in Nat /\ m - 1 \in 0..n /\ r \in Seq(S) /\ x \in S /\ Len(r) \in Nat
    BY <1>1, <1>2, SMTT(30)
  <2>3. CASE x \in keep
    <3> DEFINE s == Append(r, x)
    <3>1. f[m] = s
      BY <1>1, <2>3
    <3>2. /\ Len(s) = Len(r) + 1 /\ s[Len(r) + 1] = x
          /\ \A i \in 1..Len(r) : s[i] = r[i]
      BY <2>2, AppendFacts
    <3> HIDE DEF s, r
    <3>3. ASSUME NEW j \in 1..Len(s)
          PROVE  s[j] \in keep /\ \E i \in 1..m : s[j] = q[i]
      <4>1. CASE j = Len(r) + 1
        BY <2>2, <2>3, <3>2, <4>1
      <4>2. CASE j \in 1..Len(r)
        <5>1. PICK i \in 1..(m - 1) : r[j] = q[i]
          BY <2>1, <4>2
        <5>2. r[j] \in keep /\ i \in 1..m /\ s[j] = r[j]
          BY <2>1, <2>2, <3>2, <4>2
        <5> QED
          BY <5>1, <5>2
      <4> QED
        BY <2>2, <3>2, <4>1, <4>2
    <3>4. ASSUME NEW i \in 1..m, q[i] \in keep
          PROVE  \E j \in 1..Len(s) : s[j] = q[i]
      <4>1. CASE i = m
        BY <2>2, <3>2, <4>1
      <4>2. CASE i # m
        <5>1. PICK j \in 1..Len(r) : r[j] = q[i]
          BY <2>1, <2>2, <3>4, <4>2
        <5> QED
          BY <2>2, <3>2, <5>1
      <4> QED
        BY <4>1, <4>2
    <3>5. ASSUME NEW j \in 1..Len(s), NEW k \in 1..Len(s), j < k
          PROVE  \E a, b \in 1..m : a < b /\ s[j] = q[a] /\ s[k] = q[b]
      <4>1. j \in 1..Len(r) /\ s[j] = r[j]
        BY <2>2, <3>2, <3>5
      <4>2. CASE k = Len(r) + 1
        <5>1. PICK a \in 1..(m - 1) : r[j] = q[a]
          BY <2>1, <4>1
        <5>2. a \in 1..m /\ m \in 1..m /\ a < m
          BY <2>2
        <5> QED
          BY <3>2, <4>1, <4>2, <5>1, <5>2
      <4>3. CASE k \in 1..Len(r)
        <5>1. PICK a \in 1..(m - 1), b \in 1..(m - 1) : a < b /\ r[j] = q[a] /\ r[k] = q[b]
          BY <2>1, <3>5, <4>1, <4>3
        <5>2. a \in 1..m /\ b \in 1..m
          BY <2>2
        <5> QED
          BY <3>2, <4>1, <4>3, <5>1, <5>2
      <4> QED
        BY <2>2, <3>2, <4>2, <4>3, SMTT(30)
    <3>6. Kept(s, m)
      BY <3>3, <3>4, <3>5
    <3> HIDE DEF Kept
    <3> QED
      BY <3>1, <3>6
  <2>4. CASE x \notin keep
    <3>1. f[m] = r
      BY <1>1, <2>4
    <3> HIDE DEF r
    <3>2. \A i \in 1..(m - 1) : i \in 1..m
      BY <2>2
    <3>3. \A i \in 1..m : i = m \/ i \in 1..(m - 1)
      BY <2>2
    <3>4. Kept(r, m)
      BY <2>1, <2>4, <3>2, <3>3
    <3> HIDE DEF Kept
    <3> QED
      BY <3>1, <3>4
  <2> QED
    BY <2>3, <2>4
<1>5. \A m \in 0..n : m \in T
  <2> HIDE DEF T, n
  <2> QED
    BY <1>2, <1>3, <1>4, UpTo
<1>6. Kept(f[n], n) /\ f[n] \in Seq(S)
  <2> HIDE DEF Kept
  <2> QED
    BY <1>1, <1>2, <1>5
<1> QED
  BY <1>1, <1>6

\* Sift goes on where it was.
LEMMA SiftAppend ==
  ASSUME NEW S, NEW q \in Seq(S), NEW x \in S, NEW keep
  PROVE  Sift(Append(q, x), keep) =
           IF x \in keep THEN Append(Sift(q, keep), x) ELSE Sift(q, keep)
<1> DEFINE p == Append(q, x)
           n == Len(q)
<1>1. /\ p \in Seq(S) /\ Len(p) = n + 1 /\ p[n + 1] = x
      /\ \A i \in 1..n : p[i] = q[i]
      /\ n \in Nat
  BY AppendFacts, ElementFacts
<1> HIDE DEF p
<1>2. PICK f : Sifting(f, S, q, keep)
  BY SiftLoop
<1>3. PICK g : Sifting(g, S, p, keep)
  BY <1>1, SiftLoop
<1> HIDE DEF n
<1>4. /\ f[0] = <<>> /\ Sift(q, keep) = f[n]
      /\ \A i \in 1..n : f[i] = IF q[i] \in keep THEN Append(f[i - 1], q[i]) ELSE f[i - 1]
  BY <1>2 DEF Sifting, n
<1>5. /\ g[0] = <<>> /\ Sift(p, keep) = g[n + 1]
      /\ \A i \in 1..(n + 1) :
           g[i] = IF p[i] \in keep THEN Append(g[i - 1], p[i]) ELSE g[i - 1]
  BY <1>1, <1>3 DEF Sifting
<1> DEFINE T == {i \in 0..n : g[i] = f[i]}
<1>6. 0 \in T
  BY <1>1, <1>4, <1>5
<1>7. ASSUME NEW i \in 1..n, i - 1 \in T PROVE i \in T
  BY <1>1, <1>4, <1>5, <1>7
<1>8. \A i \in 0..n : i \in T
  <2> HIDE DEF T
  <2> QED
    BY <1>1, <1>6, <1>7, UpTo
<1>9. g[n] = f[n]
  BY <1>1, <1>8
<1>10. g[n + 1] = IF x \in keep THEN Append(g[n], x) ELSE g[n]
  BY <1>1, <1>5
<1> QED
  BY <1>4, <1>5, <1>9, <1>10 DEF p

\* Nothing is kept of an empty list.
LEMMA SiftEmpty == \A keep : Sift(<<>>, keep) = <<>>
<1> TAKE keep
<1>1. <<>> \in Seq({})
  OBVIOUS
<1>2. PICK f : Sifting(f, {}, <<>>, keep)
  BY <1>1, SiftLoop
<1>3. Len(<<>>) = 0
  OBVIOUS
<1> QED
  BY <1>2, <1>3 DEF Sifting

\* What a sequence looks like after extend().
LEMMA ConcatFacts ==
  ASSUME NEW S, NEW q \in Seq(S), NEW r \in Seq(S)
  PROVE  /\ q \o r \in Seq(S)
         /\ Len(q \o r) = Len(q) + Len(r)
         /\ \A i \in 1..Len(q) : (q \o r)[i] = q[i]
         /\ \A i \in 1..Len(r) : (q \o r)[Len(q) + i] = r[i]
  OBVIOUS

\* The results of the loop behind Joined.
Joining(f, S, lists) ==
  /\ f \in [0..Len(lists) -> Seq(S)]
  /\ f[0] = <<>>
  /\ \A i \in 1..Len(lists) : f[i] = f[i - 1] \o lists[i]
  /\ Joined(lists) = f[Len(lists)]

LEMMA JoinedLoop ==
  ASSUME NEW S, NEW lists \in Seq(Seq(S))
  PROVE  \E f : Joining(f, S, lists)
<1> DEFINE n == Len(lists)
           X == Seq(S)
           Longer(r, i) == r \o lists[i]
           Body(f) == [i \in 0..n |-> IF i = 0 THEN <<>> ELSE Longer(f[i - 1], i)]
           step == [i \in 1..n |-> [r \in X |-> Longer(r, i)]]
           loop == CHOOSE h : h = Body(h)
<1>1. n \in Nat /\ <<>> \in X
  BY ElementFacts
<1>2. \A i \in 1..n, r \in X : Longer(r, i) \in X
  BY ElementFacts, ConcatFacts
<1>3. Joined(lists) = loop[n]
  BY DEF Joined
<1> HIDE DEF n, X, Longer
<1>4. step \in [1..n -> [X -> X]]
  BY <1>2
<1> DEFINE start == <<>>
<1>5. start \in X
  BY <1>1
<1>6. PICK f : Looping(f, X, start, n, step)
  <2> HIDE DEF step, start
  <2> QED
    BY <1>1, <1>4, <1>5, LoopExists
<1>7. f = Body(f)
  <2>1. f \in [0..n -> X] /\ f[0] = <<>> /\ \A i \in 1..n : f[i] = step[i][f[i - 1]]
    BY <1>6 DEF Looping
  <2>2. \A i \in 1..n : f[i - 1] \in X
    BY <1>1, <2>1
  <2>3. \A i \in 1..n : f[i] = Longer(f[i - 1], i)
    BY <2>1, <2>2
  <2>4. \A i \in 0..n : f[i] = IF i = 0 THEN <<>> ELSE Longer(f[i - 1], i)
    BY <1>1, <2>1, <2>3
  <2> QED
    BY <2>1, <2>4
<1>8. loop = Body(loop)
  BY <1>7
<1> HIDE DEF loop
<1>9. loop[0] = <<>>
  BY <1>1, <1>8
<1>10. ASSUME NEW i \in 1..n PROVE loop[i] = Longer(loop[i - 1], i)
  <2>1. Body(loop)[i] = Longer(loop[i - 1], i)
    BY <1>1
  <2> QED
    BY <1>8, <2>1
<1>11. loop = [i \in 0..n |-> loop[i]]
  BY <1>8
<1>12. \A i \in 1..n : loop[i - 1] \in X => loop[i] = step[i][loop[i - 1]]
  BY <1>10
<1>13. \A i \in 0..n : loop[i] \in X
  <2>1. loop[0] = start
    BY <1>9
  <2> HIDE DEF step, start
  <2> QED
    BY <1>1, <1>4, <1>5, <1>12, <2>1, LoopIsTyped
<1>14. Joining(loop, S, lists)
  <2>1. loop \in [0..n -> X]
    BY <1>11, <1>13
  <2> QED
    BY <1>3, <1>9, <1>10, <2>1 DEF Joining, n, X, Longer
<1> QED
  BY <1>14

\* r is the n lists one after the other.
IsJoined(r, n, lists) ==
  /\ \A j \in 1..Len(r) : \E a \in 1..n : \E i \in 1..Len(lists[a]) : r[j] = lists[a][i]
  /\ \A a \in 1..n : \A i \in 1..Len(lists[a]) : \E j \in 1..Len(r) : r[j] = lists[a][i]
  /\ \A j, k \in 1..Len(r) : j < k =>
       \E a, b \in 1..n : \E c \in 1..Len(lists[a]), d \in 1..Len(lists[b]) :
         /\ a < b \/ (a = b /\ c < d)
         /\ r[j] = lists[a][c] /\ r[k] = lists[b][d]

LEMMA JoinedShape ==
  ASSUME NEW S, NEW lists \in Seq(Seq(S))
  PROVE  Joined(lists) \in Seq(S) /\ IsJoined(Joined(lists), Len(lists), lists)
<1>0. PICK f : Joining(f, S, lists)
  BY JoinedLoop
<1> DEFINE n == Len(lists)
           Comes(x, a, i, m) == a \in 1..m /\ i \in 1..Len(lists[a]) /\ x = lists[a][i]
           Made(r, m) ==
             /\ \A j \in 1..Len(r) : \E a, i : Comes(r[j], a, i, m)
             /\ \A a \in 1..m : \A i \in 1..Len(lists[a]) :
                  \E j \in 1..Len(r) : r[j] = lists[a][i]
             /\ \A j, k \in 1..Len(r) : j < k =>
                  \E a, b, c, d : /\ a < b \/ (a = b /\ c < d)
                                  /\ Comes(r[j], a, c, m) /\ Comes(r[k], b, d, m)
<1>1. /\ f \in [0..n -> Seq(S)]
      /\ f[0] = <<>>
      /\ \A i \in 1..n : f[i] = f[i - 1] \o lists[i]
      /\ Joined(lists) = f[n]
  BY <1>0 DEF Joining
<1>2. n \in Nat /\ \A i \in 1..n : lists[i] \in Seq(S)
  BY ElementFacts
<1> DEFINE T == {m \in 0..n : Made(f[m], m)}
<1>3. 0 \in T
  <2>1. Len(f[0]) = 0
    BY <1>1
  <2>2. Made(f[0], 0)
    BY <2>1
  <2> HIDE DEF Made
  <2> QED
    BY <1>2, <2>2
<1>4. ASSUME NEW m \in 1..n, m - 1 \in T PROVE m \in T
  <2> DEFINE r == f[m - 1]
             x == lists[m]
             s == r \o x
  <2>1. Made(r, m - 1)
    BY <1>4
  <2>2. /\ m \in Nat /\ m - 1 \in 0..n /\ r \in Seq(S) /\ x \in Seq(S)
        /\ Len(r) \in Nat /\ Len(x) \in Nat
    BY <1>1, <1>2
  <2>3. f[m] = s
    BY <1>1
  <2>4. /\ Len(s) = Len(r) + Len(x)
        /\ \A i \in 1..Len(r) : s[i] = r[i]
        /\ \A i \in 1..Len(x) : s[Len(r) + i] = x[i]
    <3> HIDE DEF r, x
    <3> QED
      BY <2>2, ConcatFacts
  <2> HIDE DEF s, r
  <2>5. \A j \in 1..Len(s) : j \in 1..Len(r) \/ \E i \in 1..Len(x) : j = Len(r) + i
    <3> SUFFICES ASSUME NEW j \in 1..Len(s), j \notin 1..Len(r)
                 PROVE  j - Len(r) \in 1..Len(x) /\ j = Len(r) + (j - Len(r))
      OBVIOUS
    <3>1. Len(s) = Len(r) + Len(x) /\ Len(r) \in Nat /\ Len(x) \in Nat
      BY <2>2, <2>4
    <3> HIDE DEF x
    <3> QED
      BY <3>1
  <2>6. \A y, a, i : Comes(y, a, i, m - 1) => Comes(y, a, i, m) /\ a < m
    BY <2>2
  <2>7. \A i \in 1..Len(x) : Comes(x[i], m, i, m)
    BY <2>2
  <2>8. \A i \in 1..Len(r) : i \in 1..Len(s)
    BY <2>2, <2>4
  <2>9. \A i \in 1..Len(x) : Len(r) + i \in 1..Len(s)
    BY <2>2, <2>4
  <2>10. ASSUME NEW a \in 1..m, NEW i \in 1..Len(lists[a])
         PROVE  \E j \in 1..Len(s) : s[j] = lists[a][i]
    <3>1. CASE a = m
      BY <2>4, <2>9, <3>1
    <3>2. CASE a # m
      <4>1. a \in 1..(m - 1)
        BY <2>2, <3>2
      <4>2. PICK j \in 1..Len(r) : r[j] = lists[a][i]
        BY <2>1, <4>1
      <4> QED
        BY <2>4, <2>8, <4>2
    <3> QED
      BY <3>1, <3>2
  <2> HIDE DEF Comes, x
  <2>11. ASSUME NEW j \in 1..Len(s)
         PROVE  \E a, i : Comes(s[j], a, i, m)
    <3>1. CASE j \in 1..Len(r)
      <4>1. PICK a, i : Comes(r[j], a, i, m - 1)
        BY <2>1, <3>1
      <4>2. s[j] = r[j]
        BY <2>4, <3>1
      <4> QED
        BY <2>6, <4>1, <4>2
    <3>2. CASE j \notin 1..Len(r)
      BY <2>4, <2>5, <2>7, <3>2
    <3> QED
      BY <3>1, <3>2
  <2>12. ASSUME NEW j \in 1..Len(s), NEW k \in 1..Len(s), j < k
         PROVE  \E a, b, c, d : /\ a < b \/ (a = b /\ c < d)
                                /\ Comes(s[j], a, c, m) /\ Comes(s[k], b, d, m)
    <3>1. CASE j \in 1..Len(r) /\ k \in 1..Len(r)
      <4>1. PICK a, b, c, d : /\ a < b \/ (a = b /\ c < d)
                              /\ Comes(r[j], a, c, m - 1) /\ Comes(r[k], b, d, m - 1)
        BY <2>1, <2>12, <3>1
      <4>2. s[j] = r[j] /\ s[k] = r[k]
        BY <2>4, <3>1
      <4>3. Comes(s[j], a, c, m) /\ Comes(s[k], b, d, m)
        BY <2>6, <4>1, <4>2
      <4> QED
        BY <4>1, <4>3
    <3>2. CASE j \in 1..Len(r) /\ k \notin 1..Len(r)
      <4>1. PICK a, c : Comes(r[j], a, c, m - 1)
        BY <2>1, <3>2
      <4>2. PICK d \in 1..Len(x) : k = Len(r) + d
        BY <2>5, <3>2
      <4>3. s[j] = r[j] /\ s[k] = x[d]
        BY <2>4, <3>2, <4>2
      <4>4. Comes(s[j], a, c, m) /\ Comes(s[k], m, d, m) /\ a < m
        BY <2>6, <2>7, <4>1, <4>3
      <4> QED
        BY <4>4
    <3>3. CASE j \notin 1..Len(r)
      <4>1. PICK c \in 1..Len(x) : j = Len(r) + c
        BY <2>5, <3>3
      <4>2. k \notin 1..Len(r)
        BY <2>2, <2>12, <4>1
      <4>3. PICK d \in 1..Len(x) : k = Len(r) + d
        BY <2>5, <4>2
      <4>4. c < d
        BY <2>2, <2>12, <4>1, <4>3
      <4>5. s[j] = x[c] /\ s[k] = x[d]
        BY <2>4, <4>1, <4>3
      <4>6. Comes(s[j], m, c, m) /\ Comes(s[k], m, d, m)
        BY <2>7, <4>5
      <4> QED
        BY <4>4, <4>6
    <3> QED
      BY <3>1, <3>2, <3>3
  <2>13. Made(s, m)
    BY <2>10, <2>11, <2>12
  <2> HIDE DEF Made
  <2> QED
    BY <2>3, <2>13
<1>5. \A m \in 0..n : m \in T
  <2> HIDE DEF T, n
  <2> QED
    BY <1>2, <1>3, <1>4, UpTo
<1>6. Made(f[n], n) /\ f[n] \in Seq(S)
  <2> HIDE DEF Made
  <2> QED
    BY <1>1, <1>2, <1>5
<1> DEFINE J == f[n]
<1> HIDE DEF J
<1>7. Made(J, n)
  BY <1>6 DEF J
<1>8. \A j \in 1..Len(J) : \E a \in 1..n : \E i \in 1..Len(lists[a]) : J[j] = lists[a][i]
  BY <1>7
<1>9. ASSUME NEW j \in 1..Len(J), NEW k \in 1..Len(J), j < k
      PROVE  \E a, b \in 1..n : \E c \in 1..Len(lists[a]), d \in 1..Len(lists[b]) :
               /\ a < b \/ (a = b /\ c < d)
               /\ J[j] = lists[a][c] /\ J[k] = lists[b][d]
  <2>1. PICK a, b, c, d : /\ a < b \/ (a = b /\ c < d)
                          /\ Comes(J[j], a, c, n) /\ Comes(J[k], b, d, n)
    <3> HIDE DEF Comes
    <3> QED
      BY <1>7, <1>9
  <2> QED
    BY <2>1
<1>10. \A a \in 1..n : \A i \in 1..Len(lists[a]) : \E j \in 1..Len(J) : J[j] = lists[a][i]
  BY <1>7
<1>11. IsJoined(J, n, lists)
  <2> HIDE DEF Made, Comes
  <2>1. \A j, k \in 1..Len(J) : j < k =>
          \E a, b \in 1..n : \E c \in 1..Len(lists[a]), d \in 1..Len(lists[b]) :
            /\ a < b \/ (a = b /\ c < d)
            /\ J[j] = lists[a][c] /\ J[k] = lists[b][d]
    BY <1>9
  <2> QED
    BY <1>8, <1>10, <2>1, Zenon DEF IsJoined
<1> QED
  BY <1>1, <1>6, <1>11 DEF J

\* What Joined makes: the elements of all lists, list by list.
LEMMA JoinedFacts ==
  ASSUME NEW S, NEW lists \in Seq(Seq(S))
  PROVE  /\ Joined(lists) \in Seq(S)
         /\ \A j \in 1..Len(Joined(lists)) :
              \E a \in 1..Len(lists) : \E i \in 1..Len(lists[a]) : Joined(lists)[j] = lists[a][i]
         /\ \A a \in 1..Len(lists) : \A i \in 1..Len(lists[a]) :
              \E j \in 1..Len(Joined(lists)) : Joined(lists)[j] = lists[a][i]
         /\ \A j, k \in 1..Len(Joined(lists)) : j < k =>
              \E a, b \in 1..Len(lists) :
                \E c \in 1..Len(lists[a]), d \in 1..Len(lists[b]) :
                  /\ a < b \/ (a = b /\ c < d)
                  /\ Joined(lists)[j] = lists[a][c] /\ Joined(lists)[k] = lists[b][d]
<1>1. Joined(lists) \in Seq(S) /\ IsJoined(Joined(lists), Len(lists), lists)
  BY JoinedShape
<1> QED
  BY <1>1, Zenon DEF IsJoined

LEMMA JoinedIsJoined ==
  ASSUME NEW S, NEW n \in Nat, NEW lists \in [1..n -> Seq(S)]
  PROVE  Joined(lists) \in Seq(S) /\ IsJoined(Joined(lists), n, lists)
<1> DEFINE X == Seq(S)
<1>1. lists \in Seq(X) /\ Len(lists) = n
  <2> HIDE DEF X
  <2>1. lists \in [1..n -> X]
    BY DEF X
  <2> QED
    BY <2>1, ListFacts
<1>2. lists \in Seq(Seq(S))
  BY <1>1
<1>3. Joined(lists) \in Seq(S) /\ IsJoined(Joined(lists), Len(lists), lists)
  BY <1>2, JoinedShape
<1> QED
  BY <1>1, <1>3

\* r is what is in keep of q: all of it, and in its order.
IsSifted(r, q, keep) ==
  /\ \A j \in 1..Len(r) : r[j] \in keep /\ \E i \in 1..Len(q) : r[j] = q[i]
  /\ \A i \in 1..Len(q) : q[i] \in keep => \E j \in 1..Len(r) : r[j] = q[i]
  /\ \A j, k \in 1..Len(r) : j < k =>
       \E a, b \in 1..Len(q) : a < b /\ r[j] = q[a] /\ r[k] = q[b]

LEMMA SiftIsSifted ==
  ASSUME NEW S, NEW q \in Seq(S), NEW keep
  PROVE  Sift(q, keep) \in Seq(S) /\ IsSifted(Sift(q, keep), q, keep)
<1> DEFINE r == Sift(q, keep)
<1>1. r \in Seq(S)
  BY SiftFacts
<1>2. \A j \in 1..Len(r) : r[j] \in keep /\ \E i \in 1..Len(q) : r[j] = q[i]
  BY SiftFacts
<1>3. \A i \in 1..Len(q) : q[i] \in keep => \E j \in 1..Len(r) : r[j] = q[i]
  BY SiftFacts
<1>4. \A j, k \in 1..Len(r) : j < k =>
        \E a, b \in 1..Len(q) : a < b /\ r[j] = q[a] /\ r[k] = q[b]
  BY SiftFacts
<1> HIDE DEF r
<1>5. IsSifted(r, q, keep)
  BY <1>2, <1>3, <1>4, Zenon DEF IsSifted
<1> QED
  BY <1>1, <1>5, Zenon DEF r

=================================================================================
