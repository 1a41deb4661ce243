----------------------------- MODULE RepoProofs -----------------------------
(***************************************************************************)
(* Proofs about the Realtime Database's Repo: for every tree of paths,     *)
(* every set of transactions and every bound, what is reported of a        *)
(* transaction is what happened to it, outstanding puts and answers match, *)
(* the client does not rest without its connection, and no transaction is  *)
(* forgotten before a second set().                                        *)
(***************************************************************************)
EXTENDS Repo, FiniteSetTheorems, SequenceTheorems, WellFoundedInduction, TLAPS

-----------------------------------------------------------------------------
(* Filter.                                                                 *)

FilterStep(kept, e, wanted) == IF e \in wanted THEN Append(kept, e) ELSE kept

Anything(d, i, p) == TRUE

Filtered == INSTANCE FoldTheorems WITH Op <- FilterStep, Inv <- Anything

(* Filter runs through its sequence.                                       *)
LEMMA FilterSteps ==
  ASSUME NEW S, NEW s \in Seq(S), NEW K
  PROVE  \E r : /\ r[0] = << >>
                /\ \A i \in 1 .. Len(s) :
                     r[i] = IF s[i] \in K THEN Append(r[i - 1], s[i]) ELSE r[i - 1]
                /\ Filter(s, K) = r[Len(s)]
<1>1. Filter(s, K) = Filtered!Run(<< >>, s, K)
  BY DEF Filter, FilterStep, FoldLeft, MapThenFoldSet, Max, Filtered!Run,
         Filtered!Last
<1>2. PICK r : /\ r[0] = << >>
               /\ \A i \in 1 .. Len(s) : r[i] = FilterStep(r[i - 1], s[i], K)
               /\ Filtered!Run(<< >>, s, K) = r[Len(s)]
  BY Filtered!RunSteps
<1> QED BY <1>1, <1>2 DEF FilterStep

(* Induction along a sequence, in the form in which it is cited below.     *)
LEMMA AtTheEnd ==
  ASSUME NEW n \in Nat, NEW T, 0 \in T, \A i \in 1 .. n : i - 1 \in T => i \in T
  PROVE  n \in T
<1>1. 0 .. n \subseteq T
  BY Filtered!Interval
<1> QED BY <1>1

(* What Filter returns is a sequence of elements of its argument's type.   *)
LEMMA FilterType ==
  ASSUME NEW S, NEW s \in Seq(S), NEW K
  PROVE  Filter(s, K) \in Seq(S)
<1> DEFINE n == Len(s)
<1>0. n \in Nat /\ \A i \in 1 .. n : s[i] \in S
  OBVIOUS
<1>1. PICK r : /\ r[0] = << >>
               /\ \A i \in 1 .. n :
                    r[i] = IF s[i] \in K THEN Append(r[i - 1], s[i]) ELSE r[i - 1]
               /\ Filter(s, K) = r[n]
  BY FilterSteps
<1> HIDE DEF n
<1> DEFINE T == {i \in 0 .. n : r[i] \in Seq(S)}
<1>2. 0 \in T
  <2>1. r[0] \in Seq(S)
    BY <1>1
  <2> QED BY <1>0, <2>1
<1>3. ASSUME NEW i \in 1 .. n, i - 1 \in T PROVE i \in T
  <2>1. r[i - 1] \in Seq(S) /\ s[i] \in S /\ i \in 0 .. n
    BY <1>0, <1>3
  <2>2. r[i] = IF s[i] \in K THEN Append(r[i - 1], s[i]) ELSE r[i - 1]
    BY <1>1
  <2>3. r[i] \in Seq(S)
    BY <2>1, <2>2
  <2> QED BY <2>1, <2>3
<1> HIDE DEF T
<1>4. n \in T
  BY <1>0, <1>2, <1>3, AtTheEnd
<1> QED BY <1>1, <1>4 DEF T

(* Append and concatenation, under names that the provers do not expand.   *)
Extended(q, e) == Append(q, e)

Joined(q, s) == q \o s

(* An element is appended to a concatenation by appending it to the second *)
(* part.                                                                   *)
LEMMA ExtendedJoined ==
  ASSUME NEW S, NEW x \in Seq(S), NEW y \in Seq(S), NEW z \in S
  PROVE  Extended(Joined(x, y), z) = Joined(x, Extended(y, z))
<1>1. Append(x \o y, z) \in Seq(S) /\ x \o Append(y, z) \in Seq(S)
  OBVIOUS
<1>2. Len(Append(x \o y, z)) = Len(x \o Append(y, z))
  OBVIOUS
<1>3. \A j \in 1 .. Len(Append(x \o y, z)) :
        Append(x \o y, z)[j] = (x \o Append(y, z))[j]
  OBVIOUS
<1>4. Append(x \o y, z) = x \o Append(y, z)
  BY <1>1, <1>2, <1>3, SeqEqual
<1> QED BY <1>4 DEF Extended, Joined

(* Filter of a concatenation.                                              *)
LEMMA FilterConcat ==
  ASSUME NEW S, NEW a \in Seq(S), NEW b \in Seq(S), NEW K
  PROVE  Filter(a \o b, K) = Filter(a, K) \o Filter(b, K)
<1> DEFINE ab == a \o b
           m == Len(a)
           n == Len(b)
           l == Len(ab)
<1>0. /\ m \in Nat /\ n \in Nat /\ ab \in Seq(S) /\ l = m + n
      /\ \A i \in 1 .. m : ab[i] = a[i]
      /\ \A i \in 1 .. n : ab[m + i] = b[i]
      /\ \A i \in 1 .. n : b[i] \in S
  OBVIOUS
<1>1. PICK r : /\ r[0] = << >>
               /\ \A i \in 1 .. l :
                    r[i] = IF ab[i] \in K THEN Append(r[i - 1], ab[i]) ELSE r[i - 1]
               /\ Filter(ab, K) = r[l]
  <2>1. ab \in Seq(S)
    BY <1>0
  <2> HIDE DEF ab
  <2> QED BY <2>1, FilterSteps
<1>2. PICK u : /\ u[0] = << >>
               /\ \A i \in 1 .. m :
                    u[i] = IF a[i] \in K THEN Append(u[i - 1], a[i]) ELSE u[i - 1]
               /\ Filter(a, K) = u[m]
  BY FilterSteps
<1>3. PICK v : /\ v[0] = << >>
               /\ \A i \in 1 .. n :
                    v[i] = IF b[i] \in K THEN Append(v[i - 1], b[i]) ELSE v[i - 1]
               /\ Filter(b, K) = v[n]
  BY FilterSteps
<1>4. u[m] \in Seq(S)
  BY <1>2, FilterType
<1> HIDE DEF m, n, l, ab
<1>5. r[m] = u[m]
  <2> DEFINE T == {i \in 0 .. m : r[i] = u[i]}
  <2>1. 0 \in T
    BY <1>0, <1>1, <1>2
  <2>2. ASSUME NEW i \in 1 .. m, i - 1 \in T PROVE i \in T
    BY <1>0, <1>1, <1>2, <2>2
  <2> HIDE DEF T
  <2>3. m \in T
    BY <1>0, <2>1, <2>2, AtTheEnd
  <2> QED BY <2>3 DEF T
<1> DEFINE P(i) == v[i] \in Seq(S) /\ r[m + i] = u[m] \o v[i]
           T == {i \in 0 .. n : P(i)}
<1>6. 0 \in T
  <2> SUFFICES P(0)
    <3> HIDE DEF P
    <3> QED BY <1>0
  <2>1. v[0] = << >> /\ r[m + 0] = u[m]
    BY <1>0, <1>3, <1>5
  <2>2. v[0] \in Seq(S) /\ u[m] \o v[0] = u[m]
    <3> DEFINE x == u[m]
    <3>1. x \in Seq(S)
      BY <1>4
    <3> HIDE DEF x
    <3>2. x \o << >> = x
      BY <3>1
    <3>3. u[m] \o v[0] = u[m] \o << >>
      BY <2>1
    <3>4. v[0] \in Seq(S)
      BY <2>1
    <3> QED BY <3>2, <3>3, <3>4 DEF x
  <2> QED BY <1>0, <2>1, <2>2
<1>7. ASSUME NEW i \in 1 .. n, i - 1 \in T PROVE i \in T
  <2>1. v[i - 1] \in Seq(S) /\ r[m + (i - 1)] = u[m] \o v[i - 1]
    BY <1>7
  <2>0. /\ m + i \in 1 .. l /\ (m + i) - 1 = m + (i - 1) /\ ab[m + i] = b[i]
        /\ i \in 0 .. n /\ b[i] \in S
    <3> HIDE DEF P, T
    <3>1. m \in Nat /\ n \in Nat /\ l = m + n
      BY <1>0
    <3>2. m + i \in 1 .. l /\ (m + i) - 1 = m + (i - 1) /\ i \in 0 .. n
      BY <3>1
    <3>3. ab[m + i] = b[i] /\ b[i] \in S
      BY <1>0
    <3> QED BY <3>2, <3>3
  <2>2. r[m + i] = IF b[i] \in K THEN Append(u[m] \o v[i - 1], b[i])
                   ELSE u[m] \o v[i - 1]
    BY <1>1, <2>0, <2>1
  <2>3. v[i] = IF b[i] \in K THEN Append(v[i - 1], b[i]) ELSE v[i - 1]
    BY <1>3
  <2>4. Append(u[m] \o v[i - 1], b[i]) = u[m] \o Append(v[i - 1], b[i])
    <3> DEFINE x == u[m]
               y == v[i - 1]
               z == b[i]
    <3>1. x \in Seq(S) /\ y \in Seq(S) /\ z \in S
      BY <1>4, <2>0, <2>1
    <3> HIDE DEF x, y, z
    <3>2. Extended(Joined(x, y), z) = Joined(x, Extended(y, z))
      BY <3>1, ExtendedJoined
    <3> QED BY <3>2 DEF x, y, z, Extended, Joined
  <2>6. Append(v[i - 1], b[i]) \in Seq(S)
    BY <2>0, <2>1
  <2>7. v[i] \in Seq(S) /\ r[m + i] = u[m] \o v[i]
    BY <2>1, <2>2, <2>3, <2>4, <2>6
  <2> QED BY <2>0, <2>7
<1> HIDE DEF T
<1>8. n \in T
  BY <1>0, <1>6, <1>7, AtTheEnd
<1> QED BY <1>0, <1>1, <1>2, <1>3, <1>8 DEF T, ab

(* Filter of a single element and of none.                                 *)
LEMMA FilterOne ==
  ASSUME NEW e, NEW K
  PROVE  /\ Filter(<< >>, K) = << >>
         /\ Filter(<<e>>, K) = IF e \in K THEN <<e>> ELSE << >>
<1>1. Filter(<< >>, K) = << >>
  <2> DEFINE s == << >>
  <2>2. s \in Seq({e}) /\ Len(s) = 0
    OBVIOUS
  <2> HIDE DEF s
  <2>3. PICK r : /\ r[0] = << >>
                 /\ \A i \in 1 .. Len(s) :
                      r[i] = IF s[i] \in K THEN Append(r[i - 1], s[i]) ELSE r[i - 1]
                 /\ Filter(s, K) = r[Len(s)]
    BY <2>2, FilterSteps
  <2> QED BY <2>2, <2>3 DEF s
<1>2. Filter(<<e>>, K) = IF e \in K THEN <<e>> ELSE << >>
  <2>1. <<e>> \in Seq({e}) /\ Len(<<e>>) = 1 /\ <<e>>[1] = e
    OBVIOUS
  <2>2. PICK r : /\ r[0] = << >>
                 /\ \A i \in 1 .. 1 :
                      r[i] = IF <<e>>[i] \in K THEN Append(r[i - 1], <<e>>[i]) ELSE r[i - 1]
                 /\ Filter(<<e>>, K) = r[1]
    <3> DEFINE s == <<e>>
    <3>1. s \in Seq({e}) /\ Len(s) = 1
      BY <2>1
    <3> HIDE DEF s
    <3>2. \E r : /\ r[0] = << >>
                 /\ \A i \in 1 .. Len(s) :
                      r[i] = IF s[i] \in K THEN Append(r[i - 1], s[i]) ELSE r[i - 1]
                 /\ Filter(s, K) = r[Len(s)]
      BY <3>1, FilterSteps
    <3> QED BY <3>1, <3>2 DEF s
  <2>3. r[1] = IF e \in K THEN Append(r[0], e) ELSE r[0]
    <3>1. 1 \in 1 .. 1 /\ 1 - 1 = 0
      OBVIOUS
    <3>2. r[1] = IF <<e>>[1] \in K THEN Append(r[1 - 1], <<e>>[1]) ELSE r[1 - 1]
      BY <2>2, <3>1
    <3> QED BY <2>1, <3>1, <3>2
  <2>4. Append(<< >>, e) = <<e>>
    OBVIOUS
  <2> QED BY <2>2, <2>3, <2>4
<1> QED BY <1>1, <1>2

(* Filter of a sequence with one more element.                             *)
LEMMA FilterAppend ==
  ASSUME NEW S, NEW s \in Seq(S), NEW e \in S, NEW K
  PROVE  Filter(Append(s, e), K) =
           IF e \in K THEN Append(Filter(s, K), e) ELSE Filter(s, K)
<1> DEFINE o == <<e>>
<1>1. Append(s, e) = s \o o
  OBVIOUS
<1>0. o \in Seq(S)
  OBVIOUS
<1>2. Filter(s, K) \in Seq(S)
  BY FilterType
<1>3. Filter(s \o o, K) = Filter(s, K) \o Filter(o, K)
  <2> HIDE DEF o
  <2> QED BY <1>0, FilterConcat
<1>4. CASE e \in K
  <2>1. Filter(o, K) = o
    BY <1>4, FilterOne
  <2> HIDE DEF o
  <2>2. Filter(Append(s, e), K) = Filter(s, K) \o o
    BY <1>1, <1>3, <2>1
  <2>3. Filter(s, K) \o o = Append(Filter(s, K), e)
    BY <1>2 DEF o
  <2> QED BY <1>4, <2>2, <2>3
<1>5. CASE e \notin K
  <2>1. Filter(o, K) = << >>
    BY <1>5, FilterOne
  <2> QED BY <1>1, <1>2, <1>3, <1>5, <2>1
<1> QED BY <1>4, <1>5

(* The elements of Filter come from its sequence, in their order.          *)
LEMMA FilterIndex ==
  ASSUME NEW S, NEW s \in Seq(S), NEW K
  PROVE  \E f : \A i \in 1 .. Len(Filter(s, K)) :
            /\ f[i] \in 1 .. Len(s) /\ s[f[i]] \in K
            /\ Filter(s, K)[i] = s[f[i]]
            /\ \A j \in 1 .. Len(Filter(s, K)) : i < j => f[i] < f[j]
<1> DEFINE n == Len(s)
<1>0. n \in Nat /\ \A i \in 1 .. n : s[i] \in S
  OBVIOUS
<1>1. PICK r : /\ r[0] = << >>
               /\ \A i \in 1 .. n :
                    r[i] = IF s[i] \in K THEN Append(r[i - 1], s[i]) ELSE r[i - 1]
               /\ Filter(s, K) = r[n]
  BY FilterSteps
<1> HIDE DEF n
<1> DEFINE Maps(f, q, k) ==
             \A i \in 1 .. Len(q) :
               /\ f[i] \in 1 .. k /\ s[f[i]] \in K /\ q[i] = s[f[i]]
               /\ \A j \in 1 .. Len(q) : i < j => f[i] < f[j]
           P(k) == r[k] \in Seq(S) /\ \E f : Maps(f, r[k], k)
           T == {k \in 0 .. n : P(k)}
<1>2. 0 \in T
  <2>1. r[0] \in Seq(S) /\ Len(r[0]) = 0
    BY <1>1
  <2>2. P(0)
    BY <2>1
  <2> HIDE DEF P
  <2> QED BY <1>0, <2>2
<1>3. ASSUME NEW k \in 1 .. n, k - 1 \in T PROVE k \in T
  <2>1. P(k - 1) /\ k \in 0 .. n /\ s[k] \in S
    <3> HIDE DEF P
    <3>1. P(k - 1)
      BY <1>3
    <3>2. k \in 0 .. n
      BY <1>0
    <3>3. s[k] \in S
      BY <1>0
    <3> QED BY <3>1, <3>2, <3>3
  <2> DEFINE q == r[k - 1]
  <2>2. q \in Seq(S)
    BY <2>1
  <2>3. PICK f : Maps(f, q, k - 1)
    BY <2>1
  <2>4. r[k] = IF s[k] \in K THEN Append(q, s[k]) ELSE q
    BY <1>1
  <2> HIDE DEF q
  <2>5. CASE s[k] \in K
    <3> DEFINE m == Len(q)
               g == [i \in 1 .. m + 1 |-> IF i = m + 1 THEN k ELSE f[i]]
    <3>1. /\ m \in Nat /\ Append(q, s[k]) \in Seq(S) /\ Len(Append(q, s[k])) = m + 1
          /\ \A i \in 1 .. m : Append(q, s[k])[i] = q[i]
          /\ Append(q, s[k])[m + 1] = s[k]
      BY <2>1, <2>2
    <3>2. \A i \in 1 .. m : /\ f[i] \in 1 .. k - 1 /\ s[f[i]] \in K /\ q[i] = s[f[i]]
                           /\ \A j \in 1 .. m : i < j => f[i] < f[j]
      BY <2>3
    <3> HIDE DEF m
    <3>3. Maps(g, Append(q, s[k]), k)
      <4> SUFFICES ASSUME NEW i \in 1 .. m + 1
                   PROVE  /\ g[i] \in 1 .. k /\ s[g[i]] \in K
                          /\ Append(q, s[k])[i] = s[g[i]]
                          /\ \A j \in 1 .. m + 1 : i < j => g[i] < g[j]
        BY <3>1
      <4>0. k \in Nat /\ k \in 1 .. k
        BY <1>0
      <4>1. CASE i = m + 1
        <5>1. g[i] = k
          BY <4>1
        <5>2. \A j \in 1 .. m + 1 : ~(i < j)
          BY <3>1, <4>1
        <5> HIDE DEF g
        <5> QED BY <2>5, <3>1, <4>0, <4>1, <5>1, <5>2
      <4>2. CASE i # m + 1
        <5>1. i \in 1 .. m /\ g[i] = f[i]
          BY <3>1, <4>2
        <5>2. /\ f[i] \in 1 .. k - 1 /\ s[f[i]] \in K /\ q[i] = s[f[i]]
              /\ \A j \in 1 .. m : i < j => f[i] < f[j]
          BY <3>2, <5>1
        <5>3. ASSUME NEW j \in 1 .. m + 1, i < j PROVE f[i] < g[j]
          <6>1. CASE j = m + 1
            BY <4>0, <5>2, <6>1
          <6>2. CASE j # m + 1
            <7>1. j \in 1 .. m /\ g[j] = f[j]
              BY <3>1, <6>2
            <7> QED BY <5>2, <5>3, <7>1
          <6> QED BY <6>1, <6>2
        <5>4. Append(q, s[k])[i] = s[f[i]]
          BY <3>1, <5>1, <5>2
        <5>5. f[i] \in 1 .. k
          BY <4>0, <5>2
        <5> HIDE DEF g
        <5> QED BY <5>1, <5>2, <5>3, <5>4, <5>5
      <4> QED BY <4>1, <4>2
    <3>4. r[k] = Append(q, s[k])
      BY <2>4, <2>5
    <3>5. P(k)
      <4> HIDE DEF Maps, g
      <4> QED BY <3>1, <3>3, <3>4
    <3> HIDE DEF P
    <3> QED BY <2>1, <3>5
  <2>6. CASE s[k] \notin K
    <3>1. r[k] = q
      BY <2>4, <2>6
    <3>2. Maps(f, q, k)
      BY <1>0, <2>3
    <3>3. P(k)
      <4> HIDE DEF Maps
      <4> QED BY <2>2, <3>1, <3>2
    <3> HIDE DEF P
    <3> QED BY <2>1, <3>3
  <2> QED BY <2>5, <2>6
<1> HIDE DEF T
<1>4. n \in T
  BY <1>0, <1>2, <1>3, AtTheEnd
<1>5. \E f : Maps(f, r[n], n)
  BY <1>4 DEF T
<1> QED BY <1>1, <1>5 DEF n

(* Every wanted element is in Filter.                                      *)
LEMMA FilterHas ==
  ASSUME NEW S, NEW s \in Seq(S), NEW K, NEW j \in 1 .. Len(s), s[j] \in K
  PROVE  \E i \in 1 .. Len(Filter(s, K)) : Filter(s, K)[i] = s[j]
<1> DEFINE n == Len(s)
<1>0. n \in Nat /\ j \in 1 .. n /\ \A i \in 1 .. n : s[i] \in S
  OBVIOUS
<1>1. PICK r : /\ r[0] = << >>
               /\ \A i \in 1 .. n :
                    r[i] = IF s[i] \in K THEN Append(r[i - 1], s[i]) ELSE r[i - 1]
               /\ Filter(s, K) = r[n]
  BY FilterSteps
<1> HIDE DEF n
<1> DEFINE Has(q) == \E i \in 1 .. Len(q) : q[i] = s[j]
           P(k) == r[k] \in Seq(S) /\ (j <= k => Has(r[k]))
           T == {k \in 0 .. n : P(k)}
<1>2. 0 \in T
  <2>1. r[0] \in Seq(S) /\ ~(j <= 0)
    BY <1>0, <1>1
  <2>2. P(0)
    BY <2>1
  <2> HIDE DEF P
  <2> QED BY <1>0, <2>2
<1>3. ASSUME NEW k \in 1 .. n, k - 1 \in T PROVE k \in T
  <2>1. P(k - 1) /\ k \in 0 .. n /\ s[k] \in S
    <3> HIDE DEF P
    <3>1. P(k - 1)
      BY <1>3
    <3>2. k \in 0 .. n
      BY <1>0
    <3>3. s[k] \in S
      BY <1>0
    <3> QED BY <3>1, <3>2, <3>3
  <2> DEFINE q == r[k - 1]
  <2>2. q \in Seq(S) /\ (j <= k - 1 => Has(q))
    BY <2>1
  <2>3. r[k] = IF s[k] \in K THEN Append(q, s[k]) ELSE q
    BY <1>1
  <2> HIDE DEF q
  <2>4. Append(q, s[k]) \in Seq(S) /\ (Has(q) \/ j = k => Has(Append(q, s[k])))
    <3> DEFINE m == Len(q)
    <3>1. /\ m \in Nat /\ Append(q, s[k]) \in Seq(S) /\ Len(Append(q, s[k])) = m + 1
          /\ \A i \in 1 .. m : Append(q, s[k])[i] = q[i]
          /\ Append(q, s[k])[m + 1] = s[k]
      BY <2>1, <2>2
    <3>2. Has(q) => \E i \in 1 .. m : q[i] = s[j]
      OBVIOUS
    <3> HIDE DEF m
    <3>3. (\E i \in 1 .. m : q[i] = s[j]) => Has(Append(q, s[k]))
      BY <3>1
    <3>4. j = k => Has(Append(q, s[k]))
      BY <3>1
    <3> QED BY <3>1, <3>2, <3>3, <3>4
  <2>5. j <= k => j <= k - 1 \/ j = k
    BY <1>0
  <2>6. j = k => s[k] \in K
    OBVIOUS
  <2>7. P(k)
    <3> HIDE DEF Has
    <3> QED BY <2>2, <2>3, <2>4, <2>5, <2>6
  <2> HIDE DEF P
  <2> QED BY <2>1, <2>7
<1> HIDE DEF T
<1>4. n \in T
  BY <1>0, <1>2, <1>3, AtTheEnd
<1>5. Has(r[n])
  <2> HIDE DEF Has
  <2> QED BY <1>0, <1>4 DEF T
<1> QED BY <1>1, <1>5

(* Filter depends on which elements of the sequence are wanted only.       *)
LEMMA FilterSame ==
  ASSUME NEW S, NEW s \in Seq(S), NEW K, NEW L,
         \A i \in 1 .. Len(s) : s[i] \in K <=> s[i] \in L
  PROVE  Filter(s, K) = Filter(s, L)
<1> DEFINE n == Len(s)
<1>0. n \in Nat
  OBVIOUS
<1>1. PICK r : /\ r[0] = << >>
               /\ \A i \in 1 .. n :
                    r[i] = IF s[i] \in K THEN Append(r[i - 1], s[i]) ELSE r[i - 1]
               /\ Filter(s, K) = r[n]
  BY FilterSteps
<1>2. PICK q : /\ q[0] = << >>
               /\ \A i \in 1 .. n :
                    q[i] = IF s[i] \in L THEN Append(q[i - 1], s[i]) ELSE q[i - 1]
               /\ Filter(s, L) = q[n]
  BY FilterSteps
<1> DEFINE T == {i \in 0 .. n : r[i] = q[i]}
<1>3. 0 \in T
  <2> HIDE DEF n
  <2> QED BY <1>0, <1>1, <1>2
<1>4. ASSUME NEW i \in 1 .. n, i - 1 \in T PROVE i \in T
  <2>1. r[i - 1] = q[i - 1] /\ (s[i] \in K <=> s[i] \in L) /\ i \in 0 .. n
    BY <1>0, <1>4
  <2>2. r[i] = IF s[i] \in K THEN Append(r[i - 1], s[i]) ELSE r[i - 1]
    BY <1>1
  <2>3. q[i] = IF s[i] \in L THEN Append(q[i - 1], s[i]) ELSE q[i - 1]
    BY <1>2
  <2>4. r[i] = q[i]
    BY <2>1, <2>2, <2>3
  <2> QED BY <2>1, <2>4
<1> HIDE DEF T, n
<1>5. n \in T
  BY <1>0, <1>3, <1>4, AtTheEnd
<1> QED BY <1>1, <1>2, <1>5 DEF T

(* Filter where everything is wanted.                                      *)
LEMMA FilterAll ==
  ASSUME NEW S, NEW s \in Seq(S), NEW K, \A i \in 1 .. Len(s) : s[i] \in K
  PROVE  Filter(s, K) = s
<1> DEFINE n == Len(s)
<1>0. n \in Nat /\ \A i \in 1 .. n : s[i] \in S /\ s[i] \in K
  OBVIOUS
<1>1. PICK r : /\ r[0] = << >>
               /\ \A i \in 1 .. n :
                    r[i] = IF s[i] \in K THEN Append(r[i - 1], s[i]) ELSE r[i - 1]
               /\ Filter(s, K) = r[n]
  BY FilterSteps
<1> HIDE DEF n
<1> DEFINE P(k) == r[k] \in Seq(S) /\ Len(r[k]) = k /\ \A i \in 1 .. k : r[k][i] = s[i]
           T == {k \in 0 .. n : P(k)}
<1>2. 0 \in T
  <2>1. r[0] \in Seq(S) /\ Len(r[0]) = 0
    BY <1>1
  <2>2. P(0)
    BY <2>1
  <2> HIDE DEF P
  <2> QED BY <1>0, <2>2
<1>3. ASSUME NEW k \in 1 .. n, k - 1 \in T PROVE k \in T
  <2>1. P(k - 1) /\ k \in 0 .. n /\ s[k] \in S /\ s[k] \in K
    BY <1>0, <1>3
  <2> DEFINE q == r[k - 1]
  <2>2. q \in Seq(S) /\ Len(q) = k - 1 /\ \A i \in 1 .. k - 1 : q[i] = s[i]
    BY <2>1
  <2>3. r[k] = Append(q, s[k])
    BY <1>1, <2>1
  <2> HIDE DEF q
  <2>4. /\ Append(q, s[k]) \in Seq(S) /\ Len(Append(q, s[k])) = k
        /\ \A i \in 1 .. k : Append(q, s[k])[i] = s[i]
    BY <1>0, <2>1, <2>2
  <2>5. P(k)
    BY <2>3, <2>4
  <2> HIDE DEF P
  <2> QED BY <2>1, <2>5
<1> HIDE DEF T
<1>4. n \in T
  BY <1>0, <1>2, <1>3, AtTheEnd
<1>5. P(n)
  BY <1>4 DEF T
<1>6. Filter(s, K) \in Seq(S) /\ Len(Filter(s, K)) = Len(s)
      /\ \A i \in 1 .. Len(s) : Filter(s, K)[i] = s[i]
  BY <1>1, <1>5 DEF n
<1> QED BY <1>6, SeqEqual
-----------------------------------------------------------------------------
(* The inductive invariant.  A client record s is related to its ground G: *)
(* what the operators on s leave alone while a callback runs.  This is the *)
(* history of the server, the messages that are under way, what kept the   *)
(* connection when the callback started, and, while sent transactions are  *)
(* cancelled, the puts that are not cancelled yet (kept) and the id of the *)
(* one that is being cancelled (x, otherwise 0).                           *)

IsSequence(q) == \E R : q \in Seq(R)

ClientFields == {"phase", "first", "reasons", "online", "puts", "up", "cache",
                 "complete", "writes", "queue", "txn", "nextId"}

TxnFields == {"status", "path", "write", "retries", "out", "reason", "outcome"}

IsPut(put) ==
  /\ DOMAIN put = {"id", "data", "hash", "txns", "write", "queued"}
  /\ put.id \in Nat \ {0}
  /\ put.txns \in Seq(Txns)
  /\ put.queued \in BOOLEAN

IsRequest(r) == /\ r.kind \in {"listen", "put"}
                /\ r.kind = "put" => IsPut(r.put)

IsMessage(m) ==
  /\ m.kind \in {"data", "listening", "answer"}
  /\ m.kind = "answer" => m.status \in {"ok", "datastale", "permission_denied"}

(* The parts of the client that matter here have their types.              *)
Shape(s) ==
  /\ DOMAIN s = ClientFields
  /\ s.phase \in {"idle", "scheduled", "connecting", "open"}
  /\ s.queue \in Seq(Txns)
  /\ s.nextId \in Nat \ {0}
  /\ DOMAIN s.txn = Txns
  /\ \A t \in Txns : DOMAIN s.txn[t] = TxnFields
  /\ IsSequence(s.puts) /\ \A i \in DOMAIN s.puts : IsPut(s.puts[i])
  /\ IsSequence(s.up) /\ \A k \in DOMAIN s.up : IsRequest(s.up[k])

(* What has become of a transaction: no put for it is under way or was     *)
(* applied, a put for it is outstanding, its put was cancelled and nobody  *)
(* knows what came of it, or it was committed.                             *)
Aborts == {"set", "maxretry", "nodata", "permission_denied"}

Unsent(tx) ==
  \/ tx.status \in {"NEW", "RUN"} /\ tx.outcome = "none"
  \/ /\ tx.status = "NEEDS_ABORT" /\ tx.outcome = "none"
     /\ tx.reason \in {"set", "permission_denied"}
  \/ tx.status = "COMPLETED" /\ tx.outcome \in Aborts

OnTheWire(tx) ==
  /\ tx.outcome = "none"
  /\ \/ tx.status = "SENT"
     \/ tx.status = "SENT_NEEDS_ABORT" /\ tx.reason = "set"

Doubtful(tx) ==
  \/ /\ tx.status = "NEEDS_ABORT" /\ tx.outcome = "none"
     /\ tx.reason = "disconnect"
  \/ tx.status = "COMPLETED" /\ tx.outcome = "disconnect"

Committed(tx) == tx.status = "COMPLETED" /\ tx.outcome = "committed"

Carries(put, t) == t \in Range(put.txns)

Requests(s, k, t) == s.up[k].kind = "put" /\ Carries(s.up[k].put, t)

(* Puts are numbered in their order.                                       *)
InOrder(s) ==
  /\ \A i, j \in DOMAIN s.puts : i < j => s.puts[i].id < s.puts[j].id
  /\ \A i \in DOMAIN s.puts : s.puts[i].id < s.nextId

(* The transactions of an outstanding put are on the wire, and in no other *)
(* put.                                                                    *)
Exclusive(s, G) ==
  \A i \in DOMAIN s.puts :
    \A t \in Range(s.puts[i].txns) :
      IF s.puts[i].id = G.x THEN Doubtful(s.txn[t])
      ELSE /\ OnTheWire(s.txn[t])
           /\ \A j \in DOMAIN s.puts : Carries(s.puts[j], t) => j = i

Untried(s, G, t) == G.applied[t] = 0 /\ \A k \in DOMAIN s.up : ~Requests(s, k, t)

(* What the server has done and may still do for a transaction.            *)
Counted(s, G) ==
  \A t \in Txns :
    /\ \/ Unsent(s.txn[t]) /\ Untried(s, G, t)
       \/ OnTheWire(s.txn[t]) \/ Doubtful(s.txn[t])
       \/ Committed(s.txn[t]) /\ G.applied[t] = 1
    /\ G.applied[t] \in {0, 1}
    /\ \A k \in DOMAIN s.up :
         Requests(s, k, t) =>
           /\ G.applied[t] = 0
           /\ \A l \in DOMAIN s.up : Requests(s, l, t) => l = k

AnswersIn(down) == Filter(down, {m \in Range(down) : m.kind = "answer"})

PutsIn(up) == Filter(up, {r \in Range(up) : r.kind = "put"})

(* On an open connection the answers that are under way, and then the      *)
(* requests, are those of the outstanding puts in their order.             *)
Matches(puts, A, R, G) ==
  /\ Len(puts) = Len(A) + Len(R)
  /\ \A i \in 1 .. Len(A) :
       /\ puts[i].id = A[i].id
       /\ \A t \in Range(puts[i].txns) :
            G.applied[t] = IF A[i].status = "ok" THEN 1 ELSE 0
  /\ \A j \in 1 .. Len(R) :
       /\ puts[Len(A) + j].id = R[j].put.id
       /\ puts[Len(A) + j].txns = R[j].put.txns

Awaited(s, G) ==
  s.phase = "open" => Matches(s.puts, AnswersIn(G.down), PutsIn(s.up), G)

(* On an open connection every put was sent.  Without one, the sent        *)
(* transactions are those that are about to be cancelled.                  *)
Unqueued(s, G) ==
  /\ s.phase = "open" => \A i \in DOMAIN s.puts : s.puts[i].queued
  /\ s.phase # "open" =>
       \A i \in DOMAIN s.puts :
         IF s.puts[i].queued
           THEN s.puts[i].txns # << >> => s.puts[i] \in G.kept
           ELSE \A t \in Range(s.puts[i].txns) : Untried(s, G, t)

Grounded(s, G) ==
  /\ s.reasons = G.reasons /\ s.online = G.online
  /\ \/ s.phase = G.phase
     \/ G.phase \notin {"connecting", "open"} /\ s.phase = "scheduled"
  /\ \A put \in G.kept : \E i \in DOMAIN s.puts : s.puts[i] = put
  /\ G.x \in Nat /\ G.x < s.nextId
  /\ IsSequence(G.down)

ClientInv(s, G) ==
  /\ Shape(s) /\ InOrder(s) /\ Exclusive(s, G) /\ Counted(s, G)
  /\ Awaited(s, G) /\ Unqueued(s, G) /\ Grounded(s, G)

(* The ground between callbacks.                                           *)
Rest(s, done, down) ==
  [x |-> 0, kept |-> {}, applied |-> done, down |-> down,
   phase |-> s.phase, reasons |-> s.reasons, online |-> s.online]

RepoInv ==
  /\ DOMAIN server = {"value", "listening", "down"}
  /\ ClientInv(c, Rest(c, applied, server.down))
  /\ \A i \in DOMAIN server.down : IsMessage(server.down[i])
  /\ c.phase # "open" => server.down = << >>
  /\ NeverStuck

-----------------------------------------------------------------------------
(* How the operators on the client keep the invariant.                     *)

(* A sequence has a length, and its indices.                               *)
LEMMA SequenceFacts ==
  ASSUME NEW q, IsSequence(q)
  PROVE  Len(q) \in Nat /\ DOMAIN q = 1 .. Len(q)
BY LenProperties DEF IsSequence

(* What has become of a transaction is one thing only.                     *)
LEMMA OneClass ==
  ASSUME NEW tx
  PROVE  /\ ~(Unsent(tx) /\ OnTheWire(tx)) /\ ~(Unsent(tx) /\ Doubtful(tx))
         /\ ~(Unsent(tx) /\ Committed(tx)) /\ ~(OnTheWire(tx) /\ Doubtful(tx))
         /\ ~(OnTheWire(tx) /\ Committed(tx)) /\ ~(Doubtful(tx) /\ Committed(tx))
BY DEF Unsent, OnTheWire, Doubtful, Committed, Aborts

(* s and d differ in their transactions, in the queue and in what the      *)
(* invariant does not mention.                                             *)
SamePuts(s, d) ==
  /\ d.phase = s.phase /\ d.reasons = s.reasons /\ d.online = s.online
  /\ d.puts = s.puts /\ d.up = s.up
  /\ d.nextId \in Nat /\ d.nextId >= s.nextId

HasTransactions(d) ==
  /\ DOMAIN d = ClientFields
  /\ d.queue \in Seq(Txns)
  /\ DOMAIN d.txn = Txns
  /\ \A t \in Txns : DOMAIN d.txn[t] = TxnFields

Uncarried(s, t) == \A i \in DOMAIN s.puts : ~Carries(s.puts[i], t)

(* A change of one transaction that the invariant allows.                  *)
Moves(s, d, G, t) ==
  \/ d.txn[t] = s.txn[t]
  \/ Unsent(s.txn[t]) /\ (Unsent(d.txn[t]) \/ OnTheWire(d.txn[t]))
  \/ OnTheWire(s.txn[t]) /\ OnTheWire(d.txn[t])
  \/ Doubtful(s.txn[t]) /\ Doubtful(d.txn[t])
  \/ /\ Uncarried(s, t)
     /\ \/ Unsent(d.txn[t]) /\ Untried(s, G, t)
        \/ Doubtful(d.txn[t])
        \/ Committed(d.txn[t]) /\ G.applied[t] = 1

(* Such changes keep the invariant.                                        *)
LEMMA MovesKeep ==
  ASSUME NEW s, NEW d, NEW G, ClientInv(s, G), SamePuts(s, d), HasTransactions(d),
         \A t \in Txns : Moves(s, d, G, t)
  PROVE  ClientInv(d, G)
<1>1. Shape(d)
  BY DEF ClientInv, Shape, SamePuts, HasTransactions
<1>2. InOrder(d)
  BY DEF ClientInv, Shape, InOrder, SamePuts, IsPut
<1>3. Exclusive(d, G)
  <2> SUFFICES ASSUME NEW i \in DOMAIN s.puts, NEW t \in Range(s.puts[i].txns)
               PROVE  IF s.puts[i].id = G.x THEN Doubtful(d.txn[t])
                      ELSE OnTheWire(d.txn[t])
    BY DEF ClientInv, Exclusive, SamePuts
  <2>1. Carries(s.puts[i], t) /\ t \in Txns
    <3>1. s.puts[i].txns \in Seq(Txns)
      BY DEF ClientInv, Shape, IsPut
    <3> QED BY <3>1, RangeOfSeq DEF Carries
  <2>2. Moves(s, d, G, t) /\ ~Uncarried(s, t)
    BY <2>1 DEF Uncarried
  <2>3. IF s.puts[i].id = G.x THEN Doubtful(s.txn[t]) ELSE OnTheWire(s.txn[t])
    BY DEF ClientInv, Exclusive
  <2> QED BY <2>2, <2>3, OneClass DEF Moves
<1>4. Counted(d, G)
  <2> SUFFICES ASSUME NEW t \in Txns
               PROVE  \/ Unsent(d.txn[t]) /\ Untried(s, G, t)
                      \/ OnTheWire(d.txn[t]) \/ Doubtful(d.txn[t])
                      \/ Committed(d.txn[t]) /\ G.applied[t] = 1
    BY DEF ClientInv, Counted, SamePuts, Untried, Requests
  <2>1. \/ Unsent(s.txn[t]) /\ Untried(s, G, t)
        \/ OnTheWire(s.txn[t]) \/ Doubtful(s.txn[t])
        \/ Committed(s.txn[t]) /\ G.applied[t] = 1
    BY DEF ClientInv, Counted
  <2> QED BY <2>1, OneClass DEF Moves
<1>5. Awaited(d, G)
  BY DEF ClientInv, Awaited, SamePuts
<1>6. Unqueued(d, G)
  BY DEF ClientInv, Unqueued, SamePuts, Untried, Requests
<1>7. Grounded(d, G)
  BY DEF ClientInv, Shape, Grounded, SamePuts
<1> QED BY <1>1, <1>2, <1>3, <1>4, <1>5, <1>6, <1>7 DEF ClientInv
(* What putInternal changes.                                               *)
LEMMA PutInternalFields ==
  ASSUME NEW s, NEW put, DOMAIN s = ClientFields,
         s.phase \in {"idle", "scheduled", "connecting", "open"}
  PROVE  LET d == PutInternal(s, put)
         IN  /\ DOMAIN d = ClientFields
             /\ d.reasons = s.reasons /\ d.online = s.online /\ d.queue = s.queue
             /\ d.txn = s.txn /\ d.nextId = s.nextId
             /\ s.phase = "open" =>
                  /\ d.phase = "open"
                  /\ d.puts = Append(s.puts, [put EXCEPT !.queued = TRUE])
                  /\ d.up = Append(s.up, [kind |-> "put", put |-> put])
             /\ s.phase # "open" =>
                  /\ \/ d.phase = s.phase
                     \/ s.phase \in {"idle", "scheduled"} /\ d.phase = "scheduled"
                  /\ d.puts = Append(s.puts, put)
                  /\ d.up = s.up
<1> DEFINE i == InitConnection(s)
<1>1. /\ DOMAIN i = ClientFields
      /\ i.reasons = s.reasons /\ i.online = s.online /\ i.queue = s.queue
      /\ i.txn = s.txn /\ i.nextId = s.nextId /\ i.puts = s.puts /\ i.up = s.up
      /\ \/ i.phase = s.phase
         \/ s.phase \in {"idle", "scheduled"} /\ i.phase = "scheduled"
  BY DEF InitConnection, ScheduleConnect, HasRealtime, ClientFields
<1> HIDE DEF i
<1>2. CASE i.phase = "open"
  <2>1. PutInternal(s, put) =
          SendPut([i EXCEPT !.puts = Append(@, [put EXCEPT !.queued = TRUE])], put)
    BY <1>2 DEF PutInternal, i
  <2> QED BY <1>1, <1>2, <2>1 DEF SendPut, ClientFields
<1>3. CASE i.phase # "open"
  <2>1. PutInternal(s, put) = [i EXCEPT !.puts = Append(@, put)]
    BY <1>3 DEF PutInternal, i
  <2> QED BY <1>1, <1>3, <2>1 DEF ClientFields
<1> QED BY <1>2, <1>3

(* A sequence with one more element.                                       *)
LEMMA AppendFacts ==
  ASSUME NEW q, IsSequence(q), NEW e
  PROVE  /\ IsSequence(Append(q, e))
         /\ Len(q) \in Nat /\ DOMAIN q = 1 .. Len(q)
         /\ Len(Append(q, e)) = Len(q) + 1
         /\ DOMAIN Append(q, e) = 1 .. Len(q) + 1
         /\ \A i \in 1 .. Len(q) : Append(q, e)[i] = q[i]
         /\ Append(q, e)[Len(q) + 1] = e
<1>1. PICK R : q \in Seq(R)
  BY DEF IsSequence
<1> DEFINE S == R \cup {e}
<1>2. q \in Seq(S) /\ e \in S
  BY <1>1
<1> HIDE DEF S
<1> QED BY <1>2, LenProperties, AppendProperties DEF IsSequence

(* The requests with puts after one more request.                          *)
LEMMA PutsInAppend ==
  ASSUME NEW up, IsSequence(up), NEW r
  PROVE  PutsIn(Append(up, r)) = IF r.kind = "put" THEN Append(PutsIn(up), r)
                                 ELSE PutsIn(up)
<1>1. PICK R : up \in Seq(R)
  BY DEF IsSequence
<1> DEFINE S == R \cup {r}
           all == Append(up, r)
           K == {m \in Range(all) : m.kind = "put"}
           L == {m \in Range(up) : m.kind = "put"}
<1>2. up \in Seq(S) /\ r \in S /\ all \in Seq(S)
  BY <1>1
<1>3. /\ Len(up) \in Nat /\ Len(all) = Len(up) + 1 /\ DOMAIN all = 1 .. Len(up) + 1
      /\ DOMAIN up = 1 .. Len(up)
      /\ \A i \in 1 .. Len(up) : all[i] = up[i]
      /\ all[Len(up) + 1] = r
  BY AppendFacts
<1>4. Filter(all, K) = IF r \in K THEN Append(Filter(up, K), r) ELSE Filter(up, K)
  <2> HIDE DEF S, K
  <2> QED BY <1>2, FilterAppend
<1>5. r \in K <=> r.kind = "put"
  <2> HIDE DEF all
  <2> QED BY <1>3 DEF Range
<1>6. Filter(up, K) = Filter(up, L)
  <2>1. \A i \in 1 .. Len(up) : up[i] \in K <=> up[i] \in L
    <3> SUFFICES ASSUME NEW i \in 1 .. Len(up) PROVE up[i] \in Range(all) /\ up[i] \in Range(up)
      OBVIOUS
    <3> HIDE DEF all
    <3> QED BY <1>3 DEF Range
  <2> HIDE DEF K, L
  <2> QED BY <1>1, <2>1, FilterSame
<1> QED BY <1>4, <1>5, <1>6 DEF PutsIn

(* What is in a filtered sequence, and that it is one.                     *)
LEMMA FilteredFacts ==
  ASSUME NEW q, IsSequence(q), NEW K
  PROVE  /\ IsSequence(Filter(q, K))
         /\ \A i \in DOMAIN Filter(q, K) :
              \E j \in DOMAIN q : q[j] \in K /\ Filter(q, K)[i] = q[j]
<1>1. PICK R : q \in Seq(R)
  BY DEF IsSequence
<1>2. Filter(q, K) \in Seq(R)
  BY <1>1, FilterType
<1>3. DOMAIN Filter(q, K) = 1 .. Len(Filter(q, K)) /\ DOMAIN q = 1 .. Len(q)
  BY <1>1, <1>2, LenProperties
<1>4. PICK f : \A i \in 1 .. Len(Filter(q, K)) :
            /\ f[i] \in 1 .. Len(q) /\ q[f[i]] \in K
            /\ Filter(q, K)[i] = q[f[i]]
            /\ \A j \in 1 .. Len(Filter(q, K)) : i < j => f[i] < f[j]
  BY <1>1, FilterIndex
<1>5. \A i \in DOMAIN Filter(q, K) :
              \E j \in DOMAIN q : q[j] \in K /\ Filter(q, K)[i] = q[j]
  BY <1>3, <1>4
<1> QED BY <1>2, <1>5 DEF IsSequence

(* A new put for transactions that are on the wire and in no other put.    *)
LEMMA AddPut ==
  ASSUME NEW s, NEW G, ClientInv(s, G), NEW put, IsPut(put), ~put.queued,
         put.id < s.nextId, put.id # G.x,
         \A i \in DOMAIN s.puts : s.puts[i].id < put.id,
         \A t \in Range(put.txns) :
           OnTheWire(s.txn[t]) /\ Uncarried(s, t) /\ Untried(s, G, t)
  PROVE  ClientInv(PutInternal(s, put), G)
<1> DEFINE d == PutInternal(s, put)
           n == Len(s.puts)
           new == IF s.phase = "open" THEN [put EXCEPT !.queued = TRUE] ELSE put
<1>1. Shape(s) /\ s.phase \in {"idle", "scheduled", "connecting", "open"}
  BY DEF ClientInv, Shape
<1>2. /\ DOMAIN d = ClientFields
      /\ d.reasons = s.reasons /\ d.online = s.online /\ d.queue = s.queue
      /\ d.txn = s.txn /\ d.nextId = s.nextId
      /\ s.phase = "open" =>
           /\ d.phase = "open"
           /\ d.up = Append(s.up, [kind |-> "put", put |-> put])
      /\ s.phase # "open" =>
           /\ \/ d.phase = s.phase
              \/ s.phase \in {"idle", "scheduled"} /\ d.phase = "scheduled"
           /\ d.up = s.up
      /\ d.puts = Append(s.puts, new)
  BY <1>1, PutInternalFields DEF Shape
<1>3. IsPut(new) /\ new.id = put.id /\ new.txns = put.txns
      /\ (s.phase # "open" => new = put) /\ (s.phase = "open" => new.queued)
  BY DEF IsPut
<1> HIDE DEF d, new
<1>4. IsSequence(s.puts) /\ IsSequence(s.up)
  BY <1>1 DEF Shape
<1>5. /\ IsSequence(d.puts) /\ n \in Nat /\ DOMAIN s.puts = 1 .. n
      /\ Len(d.puts) = n + 1 /\ DOMAIN d.puts = 1 .. n + 1
      /\ \A i \in 1 .. n : d.puts[i] = s.puts[i]
      /\ d.puts[n + 1] = new
  BY <1>2, <1>4, AppendFacts
<1> HIDE DEF n
<1>6. /\ IsSequence(d.up)
      /\ \A k \in DOMAIN s.up : k \in DOMAIN d.up /\ d.up[k] = s.up[k]
      /\ \A k \in DOMAIN d.up \ DOMAIN s.up :
           /\ s.phase = "open" /\ k = Len(s.up) + 1
           /\ d.up[k] = [kind |-> "put", put |-> put]
  <2>1. CASE s.phase = "open"
    <3> DEFINE r == [kind |-> "put", put |-> put]
    <3>1. d.up = Append(s.up, r)
      BY <1>2, <2>1
    <3> HIDE DEF r
    <3>2. /\ IsSequence(d.up) /\ Len(s.up) \in Nat
          /\ DOMAIN s.up = 1 .. Len(s.up) /\ DOMAIN d.up = 1 .. Len(s.up) + 1
          /\ \A i \in 1 .. Len(s.up) : d.up[i] = s.up[i]
          /\ d.up[Len(s.up) + 1] = r
      BY <1>4, <3>1, AppendFacts
    <3> QED BY <2>1, <3>2 DEF r
  <2>2. CASE s.phase # "open"
    BY <1>2, <1>4, <2>2
  <2> QED BY <2>1, <2>2
<1>7. Shape(d)
  <2>1. \A i \in DOMAIN d.puts : IsPut(d.puts[i])
    BY <1>1, <1>3, <1>5 DEF Shape
  <2>2. \A k \in DOMAIN d.up : IsRequest(d.up[k])
    <3>1. IsRequest([kind |-> "put", put |-> put])
      BY DEF IsRequest
    <3> QED BY <1>1, <1>6, <3>1 DEF Shape
  <2>3. d.phase \in {"idle", "scheduled", "connecting", "open"}
    BY <1>1, <1>2
  <2> QED BY <1>1, <1>2, <1>5, <1>6, <2>1, <2>2, <2>3 DEF Shape
<1>8. InOrder(d)
  <2>1. \A i \in 1 .. n : s.puts[i].id < s.nextId /\ s.puts[i].id < put.id
    BY <1>5 DEF ClientInv, InOrder
  <2>2. \A i, j \in 1 .. n : i < j => s.puts[i].id < s.puts[j].id
    BY <1>5 DEF ClientInv, InOrder
  <2>3. ASSUME NEW i \in 1 .. n + 1, NEW j \in 1 .. n + 1, i < j
        PROVE  d.puts[i].id < d.puts[j].id
    <3>1. i \in 1 .. n
      BY <1>5, <2>3
    <3>2. j \in 1 .. n \/ j = n + 1
      BY <1>5
    <3> QED BY <1>3, <1>5, <2>1, <2>2, <2>3, <3>1, <3>2
  <2>4. ASSUME NEW i \in 1 .. n + 1 PROVE d.puts[i].id < d.nextId
    <3>1. i \in 1 .. n \/ i = n + 1
      BY <1>5
    <3> QED BY <1>2, <1>3, <1>5, <2>1, <3>1
  <2> QED BY <1>5, <2>3, <2>4 DEF InOrder
<1>9. Exclusive(d, G)
  <2>1. ASSUME NEW i \in 1 .. n, NEW t \in Range(s.puts[i].txns)
        PROVE  /\ t \notin Range(put.txns)
               /\ IF s.puts[i].id = G.x THEN Doubtful(s.txn[t])
                  ELSE /\ OnTheWire(s.txn[t])
                       /\ \A j \in 1 .. n : Carries(s.puts[j], t) => j = i
    <3>1. i \in DOMAIN s.puts
      BY <1>5
    <3>2. IF s.puts[i].id = G.x THEN Doubtful(s.txn[t])
          ELSE /\ OnTheWire(s.txn[t])
               /\ \A j \in DOMAIN s.puts : Carries(s.puts[j], t) => j = i
      BY <3>1 DEF ClientInv, Exclusive
    <3>3. ~Uncarried(s, t)
      BY <3>1 DEF Uncarried, Carries
    <3> QED BY <1>5, <3>2, <3>3
  <2>2. ASSUME NEW t \in Range(put.txns)
        PROVE  OnTheWire(s.txn[t]) /\ \A j \in 1 .. n : ~Carries(s.puts[j], t)
    BY <1>5 DEF Uncarried
  <2> SUFFICES ASSUME NEW i \in 1 .. n + 1, NEW t \in Range(d.puts[i].txns)
               PROVE  IF d.puts[i].id = G.x THEN Doubtful(s.txn[t])
                      ELSE /\ OnTheWire(s.txn[t])
                           /\ \A j \in 1 .. n + 1 : Carries(d.puts[j], t) => j = i
    BY <1>2, <1>5 DEF Exclusive
  <2>3. i \in 1 .. n \/ i = n + 1
    BY <1>5
  <2>4. CASE i \in 1 .. n
    <3>1. d.puts[i] = s.puts[i] /\ t \in Range(s.puts[i].txns)
      BY <1>5, <2>4
    <3>2. ~Carries(d.puts[n + 1], t)
      BY <1>3, <1>5, <2>1, <2>4, <3>1 DEF Carries
    <3>3. \A j \in 1 .. n + 1 : j \in 1 .. n \/ j = n + 1
      BY <1>5
    <3> QED BY <1>5, <2>1, <2>4, <3>1, <3>2, <3>3
  <2>5. CASE i = n + 1
    <3>1. t \in Range(put.txns) /\ d.puts[i].id # G.x
      BY <1>3, <1>5, <2>5
    <3>2. \A j \in 1 .. n + 1 : j \in 1 .. n \/ j = n + 1
      BY <1>5
    <3> QED BY <1>5, <2>2, <2>5, <3>1, <3>2
  <2> QED BY <2>3, <2>4, <2>5
<1>10. ASSUME NEW t \in Txns
       PROVE  /\ t \notin Range(put.txns) =>
                   \A k \in DOMAIN d.up : Requests(d, k, t) => k \in DOMAIN s.up /\ Requests(s, k, t)
              /\ s.phase # "open" =>
                   \A k \in DOMAIN d.up : Requests(d, k, t) => k \in DOMAIN s.up /\ Requests(s, k, t)
              /\ \A k \in DOMAIN d.up \ DOMAIN s.up : k = Len(s.up) + 1
              /\ \A k \in DOMAIN s.up : Requests(d, k, t) <=> Requests(s, k, t)
  BY <1>6 DEF Requests, Carries
<1>11. Counted(d, G)
  <2> SUFFICES ASSUME NEW t \in Txns
               PROVE  /\ \/ Unsent(s.txn[t]) /\ Untried(d, G, t)
                         \/ OnTheWire(s.txn[t]) \/ Doubtful(s.txn[t])
                         \/ Committed(s.txn[t]) /\ G.applied[t] = 1
                      /\ G.applied[t] \in {0, 1}
                      /\ \A k \in DOMAIN d.up :
                           Requests(d, k, t) =>
                             /\ G.applied[t] = 0
                             /\ \A l \in DOMAIN d.up : Requests(d, l, t) => l = k
    BY <1>2 DEF Counted
  <2>1. /\ \/ Unsent(s.txn[t]) /\ Untried(s, G, t)
           \/ OnTheWire(s.txn[t]) \/ Doubtful(s.txn[t])
           \/ Committed(s.txn[t]) /\ G.applied[t] = 1
        /\ G.applied[t] \in {0, 1}
        /\ \A k \in DOMAIN s.up :
             Requests(s, k, t) =>
               /\ G.applied[t] = 0
               /\ \A l \in DOMAIN s.up : Requests(s, l, t) => l = k
    BY DEF ClientInv, Counted
  <2>2. CASE t \in Range(put.txns)
    <3>1. OnTheWire(s.txn[t]) /\ Untried(s, G, t)
      BY <2>2
    <3>2. \A k \in DOMAIN d.up : Requests(d, k, t) => k = Len(s.up) + 1
      BY <1>10, <3>1 DEF Untried
    <3> QED BY <2>1, <3>1, <3>2 DEF Untried
  <2>3. CASE t \notin Range(put.txns)
    BY <1>10, <2>1, <2>3 DEF Untried
  <2> QED BY <2>2, <2>3
<1>12. Awaited(d, G)
  <2> SUFFICES ASSUME s.phase = "open"
               PROVE  Matches(d.puts, AnswersIn(G.down), PutsIn(d.up), G)
    BY <1>1, <1>2 DEF Awaited
  <2> DEFINE A == AnswersIn(G.down)
             R == PutsIn(s.up)
             r == [kind |-> "put", put |-> put]
  <2>1. Matches(s.puts, A, R, G)
    BY DEF ClientInv, Awaited
  <2>2. PutsIn(d.up) = Append(R, r) /\ IsSequence(R)
    <3>1. d.up = Append(s.up, r) /\ r.kind = "put"
      BY <1>2
    <3> HIDE DEF r
    <3>2. PutsIn(d.up) = Append(R, r)
      BY <1>4, <3>1, PutsInAppend
    <3>3. IsSequence(R)
      BY <1>4, FilteredFacts DEF PutsIn
    <3> QED BY <3>2, <3>3
  <2>5. IsSequence(A)
    BY FilteredFacts DEF ClientInv, Grounded, AnswersIn
  <2>6. r.put.id = put.id /\ r.put.txns = put.txns
    OBVIOUS
  <2> DEFINE m == Len(R)
             l == Len(A)
  <2> HIDE DEF A, R, r
  <2>3. /\ m \in Nat /\ l \in Nat /\ Len(Append(R, r)) = m + 1
        /\ \A i \in 1 .. m : Append(R, r)[i] = R[i]
        /\ Append(R, r)[m + 1] = r
    BY <2>2, <2>5, AppendFacts, SequenceFacts
  <2>4. /\ n = l + m
        /\ \A i \in 1 .. l :
             /\ s.puts[i].id = A[i].id
             /\ \A t \in Range(s.puts[i].txns) :
                  G.applied[t] = IF A[i].status = "ok" THEN 1 ELSE 0
        /\ \A j \in 1 .. m :
             /\ s.puts[l + j].id = R[j].put.id
             /\ s.puts[l + j].txns = R[j].put.txns
    BY <2>1 DEF Matches, n
  <2> HIDE DEF l, m
  <2>7. \A i \in 1 .. l : i \in 1 .. n
    BY <1>5, <2>3, <2>4
  <2>8. ASSUME NEW j \in 1 .. m + 1
        PROVE  /\ d.puts[l + j].id = Append(R, r)[j].put.id
               /\ d.puts[l + j].txns = Append(R, r)[j].put.txns
    <3>1. CASE j = m + 1
      <4>1. l + j = n + 1
        BY <2>3, <2>4, <3>1
      <4> QED BY <1>3, <1>5, <2>3, <2>6, <3>1, <4>1
    <3>2. CASE j # m + 1
      <4>1. j \in 1 .. m /\ l + j \in 1 .. n
        BY <2>3, <2>4, <3>2
      <4> QED BY <1>5, <2>3, <2>4, <4>1
    <3> QED BY <3>1, <3>2
  <2>9. Len(d.puts) = l + (m + 1)
    BY <1>5, <2>3, <2>4
  <2>10. Matches(d.puts, A, Append(R, r), G)
    BY <1>5, <2>3, <2>4, <2>7, <2>8, <2>9 DEF Matches, l
  <2> QED BY <2>2, <2>10 DEF A
<1>13. Unqueued(d, G)
  <2> SUFFICES ASSUME s.phase # "open", NEW i \in 1 .. n + 1
               PROVE  IF d.puts[i].queued
                        THEN d.puts[i].txns # << >> => d.puts[i] \in G.kept
                        ELSE \A t \in Range(d.puts[i].txns) : Untried(d, G, t)
    <3>1. ASSUME s.phase = "open", NEW i \in 1 .. n + 1 PROVE d.puts[i].queued
      <4>1. CASE i = n + 1
        BY <1>3, <1>5, <3>1, <4>1
      <4>2. CASE i # n + 1
        <5>1. i \in 1 .. n
          BY <1>5, <4>2
        <5> QED BY <1>5, <3>1, <5>1 DEF ClientInv, Unqueued
      <4> QED BY <4>1, <4>2
    <3> QED BY <1>2, <1>5, <3>1 DEF Unqueued
  <2>1. \A t : Untried(s, G, t) => Untried(d, G, t)
    BY <1>2 DEF Untried, Requests
  <2>2. CASE i = n + 1
    BY <1>3, <1>5, <2>1, <2>2
  <2>3. CASE i # n + 1
    <3>1. i \in 1 .. n
      BY <1>5, <2>3
    <3>2. IF s.puts[i].queued
            THEN s.puts[i].txns # << >> => s.puts[i] \in G.kept
            ELSE \A t \in Range(s.puts[i].txns) : Untried(s, G, t)
      BY <1>5, <3>1 DEF ClientInv, Unqueued
    <3> QED BY <1>5, <2>1, <3>1, <3>2
  <2> QED BY <2>2, <2>3
<1>14. Grounded(d, G)
  <2>1. \/ d.phase = G.phase
        \/ G.phase \notin {"connecting", "open"} /\ d.phase = "scheduled"
    BY <1>1, <1>2 DEF ClientInv, Grounded
  <2>2. \A p \in G.kept : \E i \in DOMAIN d.puts : d.puts[i] = p
    <3> SUFFICES ASSUME NEW p \in G.kept PROVE \E i \in DOMAIN d.puts : d.puts[i] = p
      OBVIOUS
    <3>1. PICK i \in 1 .. n : s.puts[i] = p
      BY <1>5 DEF ClientInv, Grounded
    <3> QED BY <1>5, <3>1
  <2> QED BY <1>2, <2>1, <2>2 DEF ClientInv, Grounded
<1> QED BY <1>7, <1>8, <1>9, <1>11, <1>12, <1>13, <1>14 DEF ClientInv, d
(* A finite set as a sequence.                                             *)
LEMMA SetToSeqFacts ==
  ASSUME NEW S, IsFiniteSet(S)
  PROVE  /\ SetToSeq(S) \in Seq(S) /\ Range(SetToSeq(S)) = S
         /\ \A i, j \in DOMAIN SetToSeq(S) : SetToSeq(S)[i] = SetToSeq(S)[j] => i = j
<1> DEFINE n == Cardinality(S)
           w == SetToSeq(S)
<1>1. n \in Nat /\ \E f : f \in Bijection(1 .. n, S)
  BY FS_CardinalityType DEF ExistsBijection
<1>2. \E f \in [1 .. n -> S] : IsInjective(f)
  BY <1>1 DEF Bijection, Injection, IsInjective
<1>3. w \in [1 .. n -> S] /\ IsInjective(w)
  BY <1>2 DEF SetToSeq
<1>4. IsFiniteSet(1 .. n) /\ Cardinality(1 .. n) = n
  <2>1. n >= 1 \/ n = 0
    BY <1>1
  <2>2. CASE n = 0
    <3>1. 1 .. n = {}
      BY <2>2
    <3> QED BY <2>2, <3>1, FS_EmptySet
  <2>3. CASE n >= 1
    BY <1>1, <2>3, FS_Interval
  <2> QED BY <2>1, <2>2, <2>3
<1> HIDE DEF w
<1>5. w \in Surjection(1 .. n, S)
  <2>1. w \in Injection(1 .. n, S)
    BY <1>3 DEF Injection, IsInjective
  <2> QED BY <1>4, <2>1, FS_Injection
<1>6. Range(w) = S
  BY <1>3, <1>5 DEF Surjection, Range
<1> QED BY <1>1, <1>3, <1>6, SeqDef DEF IsInjective, w

(* What the invariant says of a client's fields.                           *)
LEMMA FieldFacts ==
  ASSUME NEW s, NEW G, ClientInv(s, G)
  PROVE  /\ HasTransactions(s) /\ SamePuts(s, s)
         /\ s.nextId \in Nat \ {0} /\ s.phase \in {"idle", "scheduled", "connecting", "open"}
         /\ IsSequence(s.puts) /\ \A i \in DOMAIN s.puts : IsPut(s.puts[i])
BY DEF ClientInv, Shape, HasTransactions, SamePuts

(* Moves in two steps.                                                     *)
LEMMA SamePutsTwice ==
  ASSUME NEW s, NEW d, NEW e, SamePuts(s, d), SamePuts(d, e), s.nextId \in Nat
  PROVE  SamePuts(s, e)
BY DEF SamePuts

(* The invariant does not depend on the pending writes and the cache.      *)
LEMMA ApplyUserOverwriteKeeps ==
  ASSUME NEW s, NEW G, ClientInv(s, G), NEW data
  PROVE  LET d == ApplyUserOverwrite(s, data)
         IN  /\ ClientInv(d, G) /\ HasTransactions(d) /\ SamePuts(s, d)
             /\ d.txn = s.txn /\ d.nextId = s.nextId + 1
<1> DEFINE d == ApplyUserOverwrite(s, data)
<1>1. HasTransactions(s) /\ s.nextId \in Nat
  BY FieldFacts
<1>2. /\ DOMAIN d = ClientFields /\ d.txn = s.txn /\ d.queue = s.queue
      /\ d.phase = s.phase /\ d.reasons = s.reasons /\ d.online = s.online
      /\ d.puts = s.puts /\ d.up = s.up /\ d.nextId = s.nextId + 1
  BY <1>1 DEF ApplyUserOverwrite, HasTransactions, ClientFields
<1> HIDE DEF d
<1>3. SamePuts(s, d) /\ HasTransactions(d) /\ \A t \in Txns : Moves(s, d, G, t)
  BY <1>1, <1>2 DEF SamePuts, HasTransactions, Moves
<1>4. ClientInv(d, G)
  BY <1>3, MovesKeep
<1> QED BY <1>2, <1>3, <1>4 DEF d

(* What taking a pending write off the list leaves alone.                  *)
LEMMA AckUserWriteFields ==
  ASSUME NEW s, DOMAIN s = ClientFields, NEW id
  PROVE  LET d == AckUserWrite(s, id)
         IN  /\ DOMAIN d = ClientFields /\ d.txn = s.txn /\ d.queue = s.queue
             /\ d.phase = s.phase /\ d.reasons = s.reasons /\ d.online = s.online
             /\ d.puts = s.puts /\ d.up = s.up /\ d.nextId = s.nextId
BY DEF AckUserWrite, ClientFields

(* A pending write goes, and the invariant does not mention it.            *)
LEMMA AckUserWriteKeeps ==
  ASSUME NEW s, NEW G, ClientInv(s, G), NEW id
  PROVE  ClientInv(AckUserWrite(s, id), G)
<1> DEFINE d == AckUserWrite(s, id)
<1>1. HasTransactions(s) /\ s.nextId \in Nat \ {0}
  BY FieldFacts
<1>2. /\ DOMAIN d = ClientFields /\ d.txn = s.txn /\ d.queue = s.queue
      /\ d.phase = s.phase /\ d.reasons = s.reasons /\ d.online = s.online
      /\ d.puts = s.puts /\ d.up = s.up /\ d.nextId = s.nextId
  BY <1>1, AckUserWriteFields DEF HasTransactions
<1> HIDE DEF d
<1>3. SamePuts(s, d) /\ HasTransactions(d) /\ \A t \in Txns : Moves(s, d, G, t)
  BY <1>1, <1>2 DEF SamePuts, HasTransactions, Moves
<1>4. ClientInv(d, G)
  BY <1>3, MovesKeep
<1> QED BY <1>4 DEF d

(* A transaction is settled.                                               *)
LEMMA SettleFields ==
  ASSUME NEW s, HasTransactions(s), s.nextId \in Nat, NEW t \in Txns, NEW outcome
  PROVE  LET d == Settle(s, t, outcome)
         IN  /\ HasTransactions(d) /\ SamePuts(s, d) /\ d.queue = s.queue
             /\ d.txn[t].status = "COMPLETED" /\ d.txn[t].outcome = outcome
             /\ \A u \in Txns : u # t => d.txn[u] = s.txn[u]
<1> DEFINE tx == [NewTransaction EXCEPT !.status = "COMPLETED", !.path = s.txn[t].path,
                                        !.outcome = outcome]
           e == [s EXCEPT !.txn[t] = tx]
           d == Settle(s, t, outcome)
<1>1. DOMAIN tx = TxnFields /\ tx.status = "COMPLETED" /\ tx.outcome = outcome
  BY DEF NewTransaction, TxnFields
<1>2. d = AckUserWrite(e, s.txn[t].write)
  BY DEF Settle
<1> HIDE DEF tx, d
<1>3. /\ DOMAIN e = ClientFields /\ e.queue = s.queue /\ e.txn = [s.txn EXCEPT ![t] = tx]
      /\ e.phase = s.phase /\ e.reasons = s.reasons /\ e.online = s.online
      /\ e.puts = s.puts /\ e.up = s.up /\ e.nextId = s.nextId
  BY DEF HasTransactions, ClientFields
<1> HIDE DEF e
<1>4. /\ DOMAIN d = ClientFields /\ d.queue = s.queue /\ d.txn = [s.txn EXCEPT ![t] = tx]
      /\ d.phase = s.phase /\ d.reasons = s.reasons /\ d.online = s.online
      /\ d.puts = s.puts /\ d.up = s.up /\ d.nextId = s.nextId
  BY <1>2, <1>3, AckUserWriteFields
<1>5. DOMAIN d.txn = Txns /\ d.txn[t] = tx /\ \A u \in Txns : u # t => d.txn[u] = s.txn[u]
  BY <1>4 DEF HasTransactions
<1> QED BY <1>1, <1>4, <1>5 DEF HasTransactions, SamePuts, d

(* Settling keeps the invariant if the outcome says what happened.         *)
LEMMA SettleKeeps ==
  ASSUME NEW s, NEW G, ClientInv(s, G), NEW t \in Txns, NEW outcome,
         \/ Unsent(s.txn[t]) /\ outcome \in Aborts
         \/ Doubtful(s.txn[t]) /\ outcome = "disconnect"
         \/ Uncarried(s, t) /\ G.applied[t] = 1 /\ outcome = "committed"
  PROVE  ClientInv(Settle(s, t, outcome), G)
<1> DEFINE d == Settle(s, t, outcome)
<1>0. HasTransactions(s) /\ s.nextId \in Nat
  BY FieldFacts
<1>1. /\ HasTransactions(d) /\ SamePuts(s, d) /\ d.queue = s.queue
      /\ d.txn[t].status = "COMPLETED" /\ d.txn[t].outcome = outcome
      /\ \A u \in Txns : u # t => d.txn[u] = s.txn[u]
  BY <1>0, SettleFields
<1> HIDE DEF d
<1>2. Moves(s, d, G, t)
  BY <1>1 DEF Moves, Unsent, Doubtful, Committed
<1>3. \A u \in Txns : Moves(s, d, G, u)
  BY <1>1, <1>2 DEF Moves
<1>4. ClientInv(d, G)
  BY <1>1, <1>3, MovesKeep
<1> QED BY <1>4 DEF d

(* The update function was run on a transaction that is not sent.          *)
LEMMA RanKeeps ==
  ASSUME NEW s, NEW G, ClientInv(s, G), NEW t \in Txns, Unsent(s.txn[t]),
         s.txn[t].outcome = "none", NEW out
  PROVE  ClientInv(Ran(s, t, out), G)
<1> DEFINE e == [s EXCEPT !.txn[t].status = "RUN", !.txn[t].out = out,
                          !.txn[t].write = s.nextId]
<1>0. HasTransactions(s) /\ s.nextId \in Nat
  BY FieldFacts
<1>1. /\ DOMAIN e = ClientFields /\ e.queue = s.queue
      /\ e.phase = s.phase /\ e.reasons = s.reasons /\ e.online = s.online
      /\ e.puts = s.puts /\ e.up = s.up /\ e.nextId = s.nextId
      /\ e.txn = [s.txn EXCEPT ![t] = [s.txn[t] EXCEPT !.status = "RUN", !.out = out,
                                                      !.write = s.nextId]]
  BY <1>0 DEF HasTransactions, ClientFields
<1> HIDE DEF e
<1>2. /\ DOMAIN e.txn = Txns /\ \A u \in Txns : u # t => e.txn[u] = s.txn[u]
      /\ DOMAIN e.txn[t] = TxnFields /\ e.txn[t].status = "RUN"
      /\ e.txn[t].outcome = "none"
  BY <1>0, <1>1 DEF HasTransactions, TxnFields
<1>3. HasTransactions(e) /\ SamePuts(s, e)
  BY <1>0, <1>1, <1>2 DEF HasTransactions, SamePuts
<1>4. \A u \in Txns : Moves(s, e, G, u)
  BY <1>2 DEF Moves, Unsent
<1>5. ClientInv(e, G)
  BY <1>3, <1>4, MovesKeep
<1> QED BY <1>5, ApplyUserOverwriteKeeps DEF Ran, e

(* The queues hold transactions.                                           *)
LEMMA QueueFacts ==
  ASSUME NEW s, s.queue \in Seq(Txns), NEW path
  PROVE  QueueBelow(s, path) \in Seq(Txns) /\ QueueAt(s, path) \in Seq(Txns)
BY FilterType DEF QueueBelow, QueueAt

(* A put for transactions that are all run.                                *)
LEMMA SendTransactionQueueKeeps ==
  ASSUME NEW s, NEW G, ClientInv(s, G), NEW path, NEW queue \in Seq(Txns),
         \A i \in DOMAIN queue : Status(s, queue[i]) = "RUN"
  PROVE  ClientInv(SendTransactionQueue(s, path, queue), G)
<1> DEFINE latest == LatestState(s, path, WritesOf(s, queue))
           sent   == MarkSent(s, queue)
           put    == [id |-> s.nextId, data |-> Results(s, latest, queue), hash |-> latest,
                      txns |-> queue, write |-> 0, queued |-> FALSE]
           txn    == [t \in Txns |->
                        IF t \in Range(queue)
                          THEN [s.txn[t] EXCEPT !.status = "SENT", !.retries = @ + 1]
                          ELSE s.txn[t]]
<1>1. SendTransactionQueue(s, path, queue) = PutInternal(sent, put)
  BY DEF SendTransactionQueue, SendResults
<1>2. HasTransactions(s) /\ s.nextId \in Nat \ {0}
  BY FieldFacts
<1>3. IsPut(put) /\ ~put.queued /\ put.id = s.nextId /\ put.txns = queue
  BY <1>2 DEF IsPut
<1> HIDE DEF latest, put
<1>4. /\ DOMAIN sent = ClientFields /\ sent.queue = s.queue
      /\ sent.phase = s.phase /\ sent.reasons = s.reasons /\ sent.online = s.online
      /\ sent.puts = s.puts /\ sent.up = s.up /\ sent.nextId = s.nextId + 1
      /\ sent.txn = txn
  <2>1. sent = [s EXCEPT !.txn = txn, !.nextId = s.nextId + 1]
    BY DEF MarkSent
  <2> HIDE DEF sent, txn
  <2> QED BY <1>2, <2>1 DEF HasTransactions, ClientFields
<1> HIDE DEF sent, txn
<1>5. ASSUME NEW t \in Txns
      PROVE  /\ DOMAIN sent.txn[t] = TxnFields
             /\ t \notin Range(queue) => sent.txn[t] = s.txn[t]
             /\ t \in Range(queue) =>
                  /\ s.txn[t].status = "RUN" /\ Unsent(s.txn[t]) /\ Untried(s, G, t)
                  /\ OnTheWire(sent.txn[t])
  <2>1. sent.txn[t] = IF t \in Range(queue)
                        THEN [s.txn[t] EXCEPT !.status = "SENT", !.retries = @ + 1]
                        ELSE s.txn[t]
    BY <1>4 DEF txn
  <2>2. DOMAIN s.txn[t] = TxnFields
    BY <1>2 DEF HasTransactions
  <2>3. CASE t \in Range(queue)
    <3>1. s.txn[t].status = "RUN"
      BY <2>3 DEF Range, Status
    <3>2. Unsent(s.txn[t]) /\ Untried(s, G, t)
      BY <3>1 DEF ClientInv, Counted, OnTheWire, Doubtful, Committed
    <3>3. s.txn[t].outcome = "none"
      BY <3>1, <3>2 DEF Unsent
    <3>4. DOMAIN sent.txn[t] = TxnFields /\ sent.txn[t].status = "SENT"
          /\ sent.txn[t].outcome = s.txn[t].outcome
      BY <2>1, <2>2, <2>3 DEF TxnFields
    <3> QED BY <2>3, <3>1, <3>2, <3>3, <3>4 DEF OnTheWire
  <2>4. CASE t \notin Range(queue)
    BY <2>1, <2>2, <2>4
  <2> QED BY <2>3, <2>4
<1>6. HasTransactions(sent) /\ SamePuts(s, sent)
  <2>1. DOMAIN sent.txn = Txns
    BY <1>4 DEF txn
  <2>2. sent.queue \in Seq(Txns) /\ \A t \in Txns : DOMAIN sent.txn[t] = TxnFields
    BY <1>2, <1>4, <1>5 DEF HasTransactions
  <2> QED BY <1>2, <1>4, <2>1, <2>2 DEF HasTransactions, SamePuts
<1>7. ClientInv(sent, G)
  <2>1. \A t \in Txns : Moves(s, sent, G, t)
    BY <1>5 DEF Moves
  <2> QED BY <1>6, <2>1, MovesKeep
<1>8. /\ put.id < sent.nextId /\ put.id # G.x
      /\ \A i \in DOMAIN sent.puts : sent.puts[i].id < put.id
  <2>1. G.x \in Nat /\ G.x < s.nextId /\ \A i \in DOMAIN s.puts : s.puts[i].id < s.nextId
    BY DEF ClientInv, InOrder, Grounded
  <2> QED BY <1>2, <1>3, <1>4, <2>1
<1>9. ASSUME NEW t \in Range(put.txns)
      PROVE  OnTheWire(sent.txn[t]) /\ Uncarried(sent, t) /\ Untried(sent, G, t)
  <2>1. t \in Range(queue) /\ t \in Txns
    BY <1>3, RangeOfSeq
  <2>2. Unsent(s.txn[t]) /\ Untried(s, G, t) /\ OnTheWire(sent.txn[t])
    BY <1>5, <2>1
  <2>3. Uncarried(s, t)
    <3> SUFFICES ASSUME NEW i \in DOMAIN s.puts, t \in Range(s.puts[i].txns) PROVE FALSE
      BY DEF Uncarried, Carries
    <3>1. Doubtful(s.txn[t]) \/ OnTheWire(s.txn[t])
      BY DEF ClientInv, Exclusive
    <3> QED BY <2>2, <3>1, OneClass
  <2> QED BY <1>4, <2>2, <2>3 DEF Uncarried, Untried, Requests
<1> QED BY <1>1, <1>3, <1>7, <1>8, <1>9, AddPut

(* The loop of repoSendReadyTransactions.                                  *)
SendTop(d, p, G) ==
  LET queue == QueueBelow(d, p)
  IN  IF \A i \in DOMAIN queue : Status(d, queue[i]) = "RUN"
        THEN SendTransactionQueue(d, p, queue) ELSE d

KeptSoFar(d, i, G) == ClientInv(d, G)

Sending == INSTANCE FoldTheorems WITH Op <- SendTop, Inv <- KeptSoFar

(* Every topmost queue that is all run is sent.                            *)
LEMMA SendReadyTransactionsKeeps ==
  ASSUME NEW s, NEW G, ClientInv(s, G)
  PROVE  ClientInv(SendReadyTransactions(s), G)
<1> DEFINE tops == {p \in Paths : HasQueue(s, p) /\ AncestorWithQueue(s, p) = p}
           w == SetToSeq(tops)
<1>1. w \in Seq(tops)
  BY FinitelyManyPaths, FS_Subset, SetToSeqFacts
<1>2. SendReadyTransactions(s) = Sending!Run(s, w, G)
  BY DEF SendReadyTransactions, SendTop, FoldLeft, MapThenFoldSet, Max, Sending!Run,
         Sending!Last
<1> HIDE DEF w
<1>3. ASSUME NEW d, NEW p, ClientInv(d, G) PROVE ClientInv(SendTop(d, p, G), G)
  <2>1. QueueBelow(d, p) \in Seq(Txns)
    BY <1>3, FieldFacts, QueueFacts DEF HasTransactions
  <2> QED BY <1>3, <2>1, SendTransactionQueueKeeps DEF SendTop
<1>4. ASSUME NEW i \in 1 .. Len(w), NEW d, KeptSoFar(d, i - 1, G)
      PROVE  KeptSoFar(SendTop(d, w[i], G), i, G)
  BY <1>3, <1>4 DEF KeptSoFar
<1>5. KeptSoFar(s, 0, G)
  BY DEF KeptSoFar
<1>6. KeptSoFar(Sending!Run(s, w, G), Len(w), G)
  BY <1>1, <1>4, <1>5, Sending!FoldKeeps
<1> QED BY <1>2, <1>6 DEF KeptSoFar

(* A transaction may be settled with an outcome that says what happened.   *)
Settleable(s, G, t, outcome) ==
  \/ Unsent(s.txn[t]) /\ outcome \in Aborts
  \/ Doubtful(s.txn[t]) /\ outcome = "disconnect"
  \/ Uncarried(s, t) /\ G.applied[t] = 1 /\ outcome = "committed"

SettleWith(d, t, p) == Settle(d, t, p.outcome)

SettledSoFar(d, i, p) ==
  /\ ClientInv(d, p.ground)
  /\ \A t \in p.ts : Settleable(d, p.ground, t, p.outcome)

Settling == INSTANCE FoldTheorems WITH Op <- SettleWith, Inv <- SettledSoFar

(* The loops that settle transactions.                                     *)
LEMMA SettleAllKeeps ==
  ASSUME NEW s, NEW G, ClientInv(s, G), NEW ts \in Seq(Txns), NEW outcome,
         \A t \in Range(ts) : Settleable(s, G, t, outcome)
  PROVE  ClientInv(SettleAll(s, ts, outcome), G)
<1> DEFINE p == [ground |-> G, ts |-> Range(ts), outcome |-> outcome]
<1>0. p.ground = G /\ p.ts = Range(ts) /\ p.outcome = outcome
  OBVIOUS
<1> HIDE DEF p
<1>1. SettleAll(s, ts, outcome) = Settling!Run(s, ts, p)
  BY <1>0 DEF SettleAll, SettleWith, FoldLeft, MapThenFoldSet, Max, Settling!Run,
         Settling!Last
<1>2. ASSUME NEW i \in 1 .. Len(ts), NEW d, SettledSoFar(d, i - 1, p)
      PROVE  SettledSoFar(SettleWith(d, ts[i], p), i, p)
  <2> DEFINE t == ts[i]
             e == Settle(d, t, outcome)
  <2>1. t \in Txns /\ t \in Range(ts)
    BY DEF Range
  <2>2. ClientInv(d, G) /\ \A u \in Range(ts) : Settleable(d, G, u, outcome)
    BY <1>0, <1>2 DEF SettledSoFar
  <2>3. \A u \in Range(ts) : u \in Txns
    BY RangeOfSeq
  <2> HIDE DEF t
  <2>4. ClientInv(e, G)
    BY <2>1, <2>2, SettleKeeps DEF Settleable
  <2>5. /\ SamePuts(d, e)
        /\ e.txn[t].status = "COMPLETED" /\ e.txn[t].outcome = outcome
        /\ \A u \in Txns : u # t => e.txn[u] = d.txn[u]
    BY <2>1, <2>2, FieldFacts, SettleFields
  <2> HIDE DEF e
  <2>6. ASSUME NEW u \in Range(ts) PROVE Settleable(e, G, u, outcome)
    <3>1. Settleable(d, G, u, outcome) /\ u \in Txns
      BY <2>2, <2>3
    <3>2. Uncarried(d, u) => Uncarried(e, u)
      BY <2>5 DEF Uncarried, SamePuts
    <3>3. CASE u = t
      BY <2>5, <3>1, <3>2, <3>3 DEF Settleable, Unsent, Doubtful
    <3>4. CASE u # t
      BY <2>5, <3>1, <3>2, <3>4 DEF Settleable
    <3> QED BY <3>3, <3>4
  <2>7. SettleWith(d, ts[i], p) = e
    BY <1>0 DEF SettleWith, e, t
  <2> QED BY <1>0, <2>4, <2>6, <2>7 DEF SettledSoFar
<1>3. SettledSoFar(s, 0, p)
  BY <1>0 DEF SettledSoFar
<1>4. SettledSoFar(Settling!Run(s, ts, p), Len(ts), p)
  BY <1>2, <1>3, Settling!FoldKeeps
<1> QED BY <1>0, <1>1, <1>4 DEF SettledSoFar

(* What is done to the queue only keeps the invariant.                     *)
LEMMA QueueOnlyKeeps ==
  ASSUME NEW s, NEW G, ClientInv(s, G), NEW K
  PROVE  ClientInv([s EXCEPT !.queue = Filter(@, K)], G)
<1> DEFINE q == Filter(s.queue, K)
           d == [s EXCEPT !.queue = q]
<1>1. HasTransactions(s) /\ s.nextId \in Nat \ {0}
  BY FieldFacts
<1>2. q \in Seq(Txns)
  BY <1>1, FilterType DEF HasTransactions
<1> HIDE DEF q
<1>3. /\ DOMAIN d = ClientFields /\ d.txn = s.txn /\ d.queue = q
      /\ d.phase = s.phase /\ d.reasons = s.reasons /\ d.online = s.online
      /\ d.puts = s.puts /\ d.up = s.up /\ d.nextId = s.nextId
  BY <1>1 DEF HasTransactions, ClientFields
<1> HIDE DEF d
<1>4. SamePuts(s, d) /\ HasTransactions(d) /\ \A t \in Txns : Moves(s, d, G, t)
  BY <1>1, <1>2, <1>3 DEF SamePuts, HasTransactions, Moves
<1>5. ClientInv(d, G)
  BY <1>4, MovesKeep
<1> QED BY <1>5 DEF d, q

(* repoPruneCompletedTransactionsBelowNode                                 *)
LEMMA PruneKeeps ==
  ASSUME NEW s, NEW G, ClientInv(s, G)
  PROVE  ClientInv(Prune(s), G)
<1> DEFINE K == {t \in Txns : Status(s, t) # "COMPLETED"}
<1>1. Prune(s) = [s EXCEPT !.queue = Filter(@, K)]
  BY DEF Prune
<1> HIDE DEF K
<1> QED BY <1>1, QueueOnlyKeeps

(* One transaction of a queue is rerun.                                    *)
LEMMA RerunTransactionKeeps ==
  ASSUME NEW s, NEW G, ClientInv(s, G), NEW t \in Txns, NEW ignore
  PROVE  ClientInv(RerunTransaction(s, t, ignore), G)
<1> DEFINE tx  == s.txn[t]
           out == Update(t, LatestState(s, tx.path, ignore))
           big == tx.retries >= MaxRetries
           few == tx.retries < MaxRetries
           d   == RerunTransaction(s, t, ignore)
<1>0. \/ Unsent(tx) \/ OnTheWire(tx) \/ Doubtful(tx) \/ Committed(tx)
  BY DEF ClientInv, Counted
<1>1. d = CASE tx.status = "NEEDS_ABORT" -> Settle(s, t, tx.reason)
            [] tx.status = "RUN" /\ big -> Settle(s, t, "maxretry")
            [] tx.status = "RUN" /\ few ->
                 IF out = NoHash THEN Settle(s, t, "nodata")
                 ELSE AckUserWrite(Ran(s, t, out), tx.write)
            [] OTHER -> s
  BY DEF RerunTransaction
<1> HIDE DEF out, big, few, d
<1>2. CASE tx.status = "NEEDS_ABORT"
  <2>1. Settleable(s, G, t, tx.reason)
    BY <1>0, <1>2 DEF Unsent, OnTheWire, Doubtful, Committed, Settleable, Aborts
  <2>2. d = Settle(s, t, tx.reason)
    BY <1>1, <1>2
  <2> HIDE DEF tx
  <2>3. ClientInv(Settle(s, t, tx.reason), G)
    BY <2>1, SettleKeeps DEF Settleable
  <2> QED BY <2>2, <2>3 DEF d
<1>3. CASE tx.status = "RUN"
  <2>1. Unsent(tx) /\ tx.outcome = "none"
    BY <1>0, <1>3 DEF Unsent, OnTheWire, Doubtful, Committed
  <2>2. ASSUME NEW o \in Aborts PROVE ClientInv(Settle(s, t, o), G)
    BY <2>1, SettleKeeps
  <2>3. ClientInv(AckUserWrite(Ran(s, t, out), tx.write), G)
    BY <2>1, RanKeeps, AckUserWriteKeeps
  <2>4. \/ d = Settle(s, t, "maxretry") \/ d = Settle(s, t, "nodata")
        \/ d = AckUserWrite(Ran(s, t, out), tx.write) \/ d = s
    BY <1>1, <1>3
  <2>5. "maxretry" \in Aborts /\ "nodata" \in Aborts
    BY DEF Aborts
  <2> HIDE DEF tx
  <2> QED BY <2>2, <2>3, <2>4, <2>5 DEF d
<1>4. CASE tx.status \notin {"NEEDS_ABORT", "RUN"}
  <2>1. d = s
    BY <1>1, <1>4
  <2> QED BY <2>1 DEF d
<1> QED BY <1>2, <1>3, <1>4

(* The loop of repoRerunTransactionQueue.                                  *)
RerunStep(d, i, p) ==
  RerunTransaction(d, p.queue[i],
    WritesOf(d, Filter(SubSeq(p.queue, i, Len(p.queue)),
                       {t \in Txns : Status(d, t) = "RUN"})))

RerunSoFar(d, i, p) == ClientInv(d, p.ground)

Rerunning == INSTANCE FoldTheorems WITH Op <- RerunStep, Inv <- RerunSoFar

(* The queue is rerun, pruned, and sent where it is ready.                 *)
LEMMA RerunTransactionQueueKeeps ==
  ASSUME NEW s, NEW G, ClientInv(s, G), NEW queue \in Seq(Txns)
  PROVE  ClientInv(RerunTransactionQueue(s, queue), G)
<1> DEFINE p == [ground |-> G, queue |-> queue]
           w == [i \in DOMAIN queue |-> i]
           ToRerun(d, from) ==
             WritesOf(d, Filter(SubSeq(queue, from, Len(queue)),
                                {t \in Txns : Status(d, t) = "RUN"}))
           Step(d, i) == RerunTransaction(d, queue[i], ToRerun(d, i))
           r == FoldLeft(Step, s, w)
<1>0. p.ground = G /\ p.queue = queue
  OBVIOUS
<1>1. /\ w \in Seq(DOMAIN queue) /\ DOMAIN queue = 1 .. Len(queue)
      /\ Len(w) = Len(queue) /\ \A i \in 1 .. Len(w) : w[i] \in 1 .. Len(queue)
  BY LenProperties
<1> HIDE DEF p, w
<1>2. r = Rerunning!Run(s, w, p)
  BY <1>0 DEF RerunStep, FoldLeft, MapThenFoldSet, Max, Rerunning!Run,
         Rerunning!Last
<1>3. RerunTransactionQueue(s, queue) =
        IF queue = << >> THEN s ELSE SendReadyTransactions(Prune(r))
  BY DEF RerunTransactionQueue, FoldLeft, MapThenFoldSet, Max, w
<1> HIDE DEF r
<1>4. ASSUME NEW i \in 1 .. Len(w), NEW d, RerunSoFar(d, i - 1, p)
      PROVE  RerunSoFar(RerunStep(d, w[i], p), i, p)
  <2>1. queue[w[i]] \in Txns
    BY <1>1
  <2>2. ClientInv(d, G)
    BY <1>0, <1>4 DEF RerunSoFar
  <2> QED BY <1>0, <2>1, <2>2, RerunTransactionKeeps DEF RerunStep, RerunSoFar
<1>5. RerunSoFar(s, 0, p)
  BY <1>0 DEF RerunSoFar
<1>6. RerunSoFar(Rerunning!Run(s, w, p), Len(w), p)
  BY <1>1, <1>4, <1>5, Rerunning!FoldKeeps
<1>7. ClientInv(r, G)
  BY <1>0, <1>2, <1>6 DEF RerunSoFar
<1> QED BY <1>3, <1>7, PruneKeeps, SendReadyTransactionsKeeps

(* repoRerunTransactions                                                   *)
LEMMA RerunTransactionsKeeps ==
  ASSUME NEW s, NEW G, ClientInv(s, G), NEW path
  PROVE  ClientInv(RerunTransactions(s, path), G)
<1>1. QueueBelow(s, AncestorWithQueue(s, path)) \in Seq(Txns)
  BY FieldFacts, QueueFacts DEF HasTransactions
<1> QED BY <1>1, RerunTransactionQueueKeeps DEF RerunTransactions

(* Where transactions are marked or aborted, at one location.              *)
LEMMA AbortTransactionsOnNodeKeeps ==
  ASSUME NEW s, NEW G, ClientInv(s, G), NEW path
  PROVE  ClientInv(AbortTransactionsOnNode(s, path), G)
<1> DEFINE queue == QueueAt(s, path)
           sent == Filter(queue, {t \in Txns : Status(s, t) = "SENT"})
           run  == Filter(queue, {t \in Txns : Status(s, t) = "RUN"})
           K == Txns \ (IF sent = << >> THEN Range(queue) ELSE Range(run))
           m == MarkForAbort(s, Range(sent))
           a == SettleAll(m, run, "set")
<1>1. AbortTransactionsOnNode(s, path) = [a EXCEPT !.queue = Filter(@, K)]
  BY DEF AbortTransactionsOnNode, AbortQueue, WithStatus
<1>2. HasTransactions(s) /\ s.nextId \in Nat \ {0}
  BY FieldFacts
<1>3. queue \in Seq(Txns)
  BY <1>2, QueueFacts DEF HasTransactions
<1> HIDE DEF queue
<1>4. run \in Seq(Txns) /\ sent \in Seq(Txns)
  BY <1>3, FilterType
<1>5. \A t \in Range(run) : t \in Txns /\ Status(s, t) = "RUN"
  <2> DEFINE L == {t \in Txns : Status(s, t) = "RUN"}
  <2>1. IsSequence(queue) /\ run = Filter(queue, L)
    BY <1>3 DEF IsSequence
  <2> HIDE DEF L
  <2>2. \A i \in DOMAIN run : run[i] \in L
    BY <2>1, FilteredFacts
  <2> QED BY <2>2 DEF Range, L
<1>6. \A t \in Range(sent) : t \in Txns /\ Status(s, t) = "SENT"
  <2> DEFINE L == {t \in Txns : Status(s, t) = "SENT"}
  <2>1. IsSequence(queue) /\ sent = Filter(queue, L)
    BY <1>3 DEF IsSequence
  <2> HIDE DEF L
  <2>2. \A i \in DOMAIN sent : sent[i] \in L
    BY <2>1, FilteredFacts
  <2> QED BY <2>2 DEF Range, L
<1> DEFINE ts == Range(sent)
<1> HIDE DEF ts
<1>7. m = [s EXCEPT !.txn = [t \in Txns |->
            IF t \in ts THEN [s.txn[t] EXCEPT !.status = "SENT_NEEDS_ABORT", !.reason = "set"]
            ELSE s.txn[t]]]
  BY DEF MarkForAbort, ts
<1> HIDE DEF sent, run, K, m
<1>8. /\ DOMAIN m = ClientFields /\ m.queue = s.queue
      /\ m.phase = s.phase /\ m.reasons = s.reasons /\ m.online = s.online
      /\ m.puts = s.puts /\ m.up = s.up /\ m.nextId = s.nextId
      /\ m.txn = [t \in Txns |->
            IF t \in ts THEN [s.txn[t] EXCEPT !.status = "SENT_NEEDS_ABORT", !.reason = "set"]
            ELSE s.txn[t]]
  BY <1>2, <1>7 DEF HasTransactions, ClientFields
<1>9. ASSUME NEW t \in Txns
      PROVE  /\ DOMAIN m.txn[t] = TxnFields /\ Moves(s, m, G, t)
             /\ t \notin ts => m.txn[t] = s.txn[t]
  <2>1. DOMAIN s.txn[t] = TxnFields
    BY <1>2 DEF HasTransactions
  <2>2. CASE t \in ts
    <3>1. s.txn[t].status = "SENT"
      BY <1>6, <2>2 DEF Status, ts
    <3>2. OnTheWire(s.txn[t])
      BY <3>1 DEF ClientInv, Counted, Unsent, OnTheWire, Doubtful, Committed
    <3>3. m.txn[t] = [s.txn[t] EXCEPT !.status = "SENT_NEEDS_ABORT", !.reason = "set"]
      BY <1>8, <2>2
    <3>4. DOMAIN m.txn[t] = TxnFields /\ m.txn[t].status = "SENT_NEEDS_ABORT"
          /\ m.txn[t].reason = "set" /\ m.txn[t].outcome = s.txn[t].outcome
      BY <2>1, <3>3 DEF TxnFields
    <3> QED BY <2>2, <3>2, <3>4 DEF Moves, OnTheWire
  <2>3. CASE t \notin ts
    <3>1. m.txn[t] = s.txn[t]
      BY <1>8, <2>3
    <3> QED BY <2>1, <3>1 DEF Moves
  <2> QED BY <2>2, <2>3
<1>10. HasTransactions(m) /\ SamePuts(s, m)
  <2>1. DOMAIN m.txn = Txns
    BY <1>8
  <2>2. \A t \in Txns : DOMAIN m.txn[t] = TxnFields
    BY <1>9
  <2>3. /\ DOMAIN m = ClientFields /\ m.queue = s.queue
        /\ m.phase = s.phase /\ m.reasons = s.reasons /\ m.online = s.online
        /\ m.puts = s.puts /\ m.up = s.up /\ m.nextId = s.nextId
    BY <1>8
  <2> QED BY <1>2, <2>1, <2>2, <2>3 DEF HasTransactions, SamePuts
<1>11. ClientInv(m, G)
  BY <1>9, <1>10, MovesKeep
<1>12. \A t \in Range(run) : Settleable(m, G, t, "set")
  <2> SUFFICES ASSUME NEW t \in Range(run) PROVE Settleable(m, G, t, "set")
    OBVIOUS
  <2>1. t \in Txns /\ s.txn[t].status = "RUN" /\ t \notin ts
    BY <1>5, <1>6 DEF Status, ts
  <2>2. Unsent(s.txn[t])
    BY <2>1 DEF ClientInv, Counted, Unsent, OnTheWire, Doubtful, Committed
  <2>3. m.txn[t] = s.txn[t]
    BY <1>9, <2>1
  <2> QED BY <2>2, <2>3 DEF Settleable, Aborts
<1>13. ClientInv(a, G)
  BY <1>4, <1>11, <1>12, SettleAllKeeps
<1> HIDE DEF a
<1> QED BY <1>1, <1>13, QueueOnlyKeeps

(* The loops of repoAbortTransactions.                                     *)
AbortAt(d, path, G) == AbortTransactionsOnNode(d, path)

Aborting == INSTANCE FoldTheorems WITH Op <- AbortAt, Inv <- KeptSoFar

(* Queues above, at and below a location are aborted.                      *)
LEMMA AbortTransactionsKeeps ==
  ASSUME NEW s, NEW G, ClientInv(s, G), NEW path
  PROVE  ClientInv(AbortTransactions(s, path), G)
<1> DEFINE related == {p \in Paths : p \subseteq path \/ path \subseteq p}
           w == SetToSeq(related)
<1>1. w \in Seq(related)
  BY FinitelyManyPaths, FS_Subset, SetToSeqFacts
<1>2. AbortTransactions(s, path) = Aborting!Run(s, w, G)
  BY DEF AbortTransactions, AbortAt, FoldLeft, MapThenFoldSet, Max, Aborting!Run,
         Aborting!Last
<1> HIDE DEF w
<1>3. ASSUME NEW i \in 1 .. Len(w), NEW d, KeptSoFar(d, i - 1, G)
      PROVE  KeptSoFar(AbortAt(d, w[i], G), i, G)
  BY <1>3, AbortTransactionsOnNodeKeeps DEF KeptSoFar, AbortAt
<1>4. KeptSoFar(s, 0, G)
  BY DEF KeptSoFar
<1>5. KeptSoFar(Aborting!Run(s, w, G), Len(w), G)
  BY <1>1, <1>3, <1>4, Aborting!FoldKeeps
<1> QED BY <1>2, <1>5 DEF KeptSoFar

-----------------------------------------------------------------------------
(* Sequences of messages and requests.                                     *)

(* A sequence without its first element.                                   *)
LEMMA TailFacts ==
  ASSUME NEW q, IsSequence(q), q # << >>
  PROVE  /\ IsSequence(Tail(q)) /\ Head(q) = q[1]
         /\ Len(q) \in Nat \ {0} /\ DOMAIN q = 1 .. Len(q)
         /\ Len(Tail(q)) = Len(q) - 1 /\ DOMAIN Tail(q) = 1 .. Len(q) - 1
         /\ \A i \in 1 .. Len(q) - 1 : Tail(q)[i] = q[i + 1]
<1>1. PICK R : q \in Seq(R)
  BY DEF IsSequence
<1>2. Tail(q) \in Seq(R) /\ Len(q) \in Nat \ {0} /\ Len(Tail(q)) = Len(q) - 1
  BY <1>1, LenProperties, HeadTailProperties, EmptySeq
<1>3. \A i \in 1 .. Len(q) - 1 : Tail(q)[i] = q[i + 1]
  BY <1>1, <1>2, HeadTailProperties
<1>4. Head(q) = q[1]
  BY <1>1
<1> QED BY <1>1, <1>2, <1>3, <1>4, LenProperties DEF IsSequence

(* Filter of a sequence and of its tail.                                   *)
LEMMA FilterTail ==
  ASSUME NEW q, IsSequence(q), q # << >>, NEW K
  PROVE  Filter(q, K) = IF q[1] \in K THEN <<q[1]>> \o Filter(Tail(q), K)
                        ELSE Filter(Tail(q), K)
<1>1. PICK R : q \in Seq(R)
  BY DEF IsSequence
<1> DEFINE h == <<q[1]>>
           l == Tail(q)
<1>2. Len(q) \in Nat \ {0} /\ Len(l) = Len(q) - 1 /\ l \in Seq(R) /\ q[1] \in R
  BY <1>1, TailFacts, HeadTailProperties
<1>3. h \in Seq(R) /\ Len(h) = 1 /\ h[1] = q[1]
  BY <1>2
<1>4. \A i \in 1 .. Len(q) - 1 : l[i] = q[i + 1]
  BY TailFacts
<1>5. q = h \o l
  <2> HIDE DEF h, l
  <2>0. /\ h \o l \in Seq(R) /\ Len(h \o l) = Len(h) + Len(l)
        /\ \A i \in 1 .. Len(h) + Len(l) :
             (h \o l)[i] = IF i <= Len(h) THEN h[i] ELSE l[i - Len(h)]
    BY <1>2, <1>3, ConcatProperties
  <2>1. /\ h \o l \in Seq(R) /\ Len(h \o l) = Len(q)
        /\ \A i \in 1 .. Len(q) : (h \o l)[i] = IF i <= 1 THEN h[i] ELSE l[i - 1]
    <3>1. Len(h) + Len(l) = Len(q)
      BY <1>2, <1>3
    <3> QED BY <1>3, <2>0, <3>1
  <2>2. \A i \in 1 .. Len(q) : (h \o l)[i] = q[i]
    <3> TAKE i \in 1 .. Len(q)
    <3>1. CASE i = 1
      BY <1>3, <2>1, <3>1
    <3>2. CASE i # 1
      <4>1. i - 1 \in 1 .. Len(q) - 1 /\ ~(i <= 1) /\ (i - 1) + 1 = i
        BY <1>2, <3>2
      <4> QED BY <1>4, <2>1, <4>1
    <3> QED BY <3>1, <3>2
  <2> QED BY <1>1, <2>1, <2>2, SeqEqual
<1>6. Filter(h, K) = IF q[1] \in K THEN h ELSE << >>
  BY FilterOne
<1>7. Filter(l, K) \in Seq(R)
  BY <1>2, FilterType
<1> HIDE DEF h, l
<1>8. Filter(q, K) = Filter(h, K) \o Filter(l, K)
  BY <1>2, <1>3, <1>5, FilterConcat
<1>9. << >> \o Filter(l, K) = Filter(l, K)
  BY <1>7
<1> QED BY <1>6, <1>8, <1>9 DEF h, l

(* The messages of one kind.                                               *)
OfKind(q, kind) == Filter(q, {m \in Range(q) : m.kind = kind})

(* They are a sequence, and of that kind.                                  *)
LEMMA OfKindType ==
  ASSUME NEW q, IsSequence(q), NEW kind
  PROVE  /\ IsSequence(OfKind(q, kind))
         /\ \A i \in DOMAIN OfKind(q, kind) :
              OfKind(q, kind)[i].kind = kind /\ OfKind(q, kind)[i] \in Range(q)
<1> DEFINE K == {m \in Range(q) : m.kind = kind}
<1> HIDE DEF K
<1>1. /\ IsSequence(Filter(q, K))
      /\ \A i \in DOMAIN Filter(q, K) : Filter(q, K)[i] \in K
  BY FilteredFacts
<1> QED BY <1>1 DEF OfKind, K

(* Of the tail.                                                            *)
LEMMA OfKindTail ==
  ASSUME NEW q, IsSequence(q), q # << >>, NEW kind
  PROVE  LET F == OfKind(q, kind)
             T == OfKind(Tail(q), kind)
         IN  /\ q[1].kind # kind => T = F
             /\ q[1].kind = kind =>
                  /\ F[1] = q[1] /\ Len(T) \in Nat /\ Len(F) = Len(T) + 1
                  /\ \A i \in 1 .. Len(T) : T[i] = F[i + 1]
<1> DEFINE K == {m \in Range(q) : m.kind = kind}
           L == {m \in Range(Tail(q)) : m.kind = kind}
           F == Filter(q, K)
           T == Filter(Tail(q), L)
<1>0. /\ IsSequence(Tail(q)) /\ Len(q) \in Nat \ {0} /\ DOMAIN q = 1 .. Len(q)
      /\ Len(Tail(q)) = Len(q) - 1 /\ DOMAIN Tail(q) = 1 .. Len(q) - 1
      /\ \A i \in 1 .. Len(q) - 1 : Tail(q)[i] = q[i + 1]
  BY TailFacts
<1>1. Filter(Tail(q), K) = T
  <2>1. \A i \in 1 .. Len(Tail(q)) : Tail(q)[i] \in K <=> Tail(q)[i] \in L
    <3> SUFFICES ASSUME NEW i \in 1 .. Len(q) - 1
                 PROVE  Tail(q)[i] \in Range(q) /\ Tail(q)[i] \in Range(Tail(q))
      BY <1>0
    <3>1. Tail(q)[i] = q[i + 1] /\ i + 1 \in 1 .. Len(q)
      BY <1>0
    <3> QED BY <1>0, <3>1 DEF Range
  <2>2. PICK R : Tail(q) \in Seq(R)
    BY <1>0 DEF IsSequence
  <2> HIDE DEF K, L
  <2> QED BY <2>1, <2>2, FilterSame
<1>2. q[1] \in K <=> q[1].kind = kind
  BY <1>0 DEF Range
<1>3. IsSequence(T)
  BY <1>0, FilteredFacts
<1> HIDE DEF K, L
<1>4. F = IF q[1] \in K THEN <<q[1]>> \o T ELSE T
  BY <1>1, FilterTail
<1>5. ASSUME q[1] \in K
      PROVE  /\ F[1] = q[1] /\ Len(T) \in Nat /\ Len(F) = Len(T) + 1
             /\ \A i \in 1 .. Len(T) : T[i] = F[i + 1]
  <2> DEFINE h == <<q[1]>>
             a == q[1]
  <2>1. PICK R : T \in Seq(R)
    BY <1>3 DEF IsSequence
  <2> DEFINE S == R \cup {a}
  <2>2. T \in Seq(S) /\ h \in Seq(S) /\ Len(h) = 1 /\ h[1] = a
    BY <2>1
  <2>3. F = h \o T
    BY <1>4, <1>5
  <2> HIDE DEF T, h, S, F, a
  <2>4. /\ Len(T) \in Nat /\ Len(F) = 1 + Len(T)
        /\ \A i \in 1 .. 1 + Len(T) : F[i] = IF i <= 1 THEN h[i] ELSE T[i - 1]
    <3>1. /\ Len(h \o T) = Len(h) + Len(T)
          /\ \A i \in 1 .. Len(h) + Len(T) :
               (h \o T)[i] = IF i <= Len(h) THEN h[i] ELSE T[i - Len(h)]
      BY <2>2, ConcatProperties
    <3>2. Len(T) \in Nat
      BY <2>2, LenProperties
    <3> QED BY <2>2, <2>3, <3>1, <3>2
  <2>5. \A i \in 1 .. Len(T) : i + 1 \in 1 .. 1 + Len(T) /\ ~(i + 1 <= 1) /\ (i + 1) - 1 = i
    BY <2>4
  <2>6. F[1] = a
    BY <2>2, <2>4
  <2> QED BY <2>4, <2>5, <2>6 DEF a
<1> HIDE DEF T, F
<1> QED BY <1>2, <1>4, <1>5 DEF OfKind, F, T, K, L

(* Of a concatenation.                                                     *)
LEMMA OfKindConcat ==
  ASSUME NEW q, IsSequence(q), NEW r, IsSequence(r), NEW kind
  PROVE  OfKind(q \o r, kind) = OfKind(q, kind) \o OfKind(r, kind)
<1>1. PICK R : q \in Seq(R)
  BY DEF IsSequence
<1>2. PICK S : r \in Seq(S)
  BY DEF IsSequence
<1> DEFINE U == R \cup S
           z == q \o r
           K == {m \in Range(z) : m.kind = kind}
           A == {m \in Range(q) : m.kind = kind}
           B == {m \in Range(r) : m.kind = kind}
<1>3. q \in Seq(U) /\ r \in Seq(U)
  BY <1>1, <1>2
<1> HIDE DEF U
<1>4. /\ z \in Seq(U) /\ Len(q) \in Nat /\ Len(r) \in Nat /\ Len(z) = Len(q) + Len(r)
      /\ DOMAIN z = 1 .. Len(q) + Len(r)
      /\ \A i \in 1 .. Len(q) + Len(r) :
           z[i] = IF i <= Len(q) THEN q[i] ELSE r[i - Len(q)]
      /\ DOMAIN q = 1 .. Len(q) /\ DOMAIN r = 1 .. Len(r)
  BY <1>3, ConcatProperties, LenProperties
<1> HIDE DEF z
<1>5. \A i \in 1 .. Len(q) : q[i] \in K <=> q[i] \in A
  <2> SUFFICES ASSUME NEW i \in 1 .. Len(q) PROVE q[i] \in Range(z) /\ q[i] \in Range(q)
    OBVIOUS
  <2>1. z[i] = q[i] /\ i \in 1 .. Len(q) + Len(r)
    BY <1>4
  <2> QED BY <1>4, <2>1 DEF Range
<1>6. \A i \in 1 .. Len(r) : r[i] \in K <=> r[i] \in B
  <2> SUFFICES ASSUME NEW i \in 1 .. Len(r) PROVE r[i] \in Range(z) /\ r[i] \in Range(r)
    OBVIOUS
  <2>1. /\ Len(q) + i \in 1 .. Len(q) + Len(r) /\ ~(Len(q) + i <= Len(q))
        /\ (Len(q) + i) - Len(q) = i
    BY <1>4
  <2>2. z[Len(q) + i] = r[i]
    BY <1>4, <2>1
  <2> QED BY <1>4, <2>1, <2>2 DEF Range
<1> HIDE DEF K, A, B
<1>7. Filter(q, K) = Filter(q, A)
  BY <1>3, <1>5, FilterSame
<1>8. Filter(r, K) = Filter(r, B)
  BY <1>3, <1>6, FilterSame
<1>9. Filter(q \o r, K) = Filter(q, K) \o Filter(r, K)
  BY <1>3, FilterConcat
<1> QED BY <1>7, <1>8, <1>9 DEF OfKind, K, A, B, z

(* Of one message.                                                         *)
LEMMA OfKindOne ==
  ASSUME NEW m, NEW kind
  PROVE  /\ OfKind(<< >>, kind) = << >>
         /\ OfKind(<<m>>, kind) = IF m.kind = kind THEN <<m>> ELSE << >>
         /\ IsSequence(<<m>>) /\ IsSequence(<< >>)
<1>1. Range(<<m>>) = {m}
  BY DEF Range
<1>2. <<m>> \in Seq({m}) /\ << >> \in Seq({m})
  OBVIOUS
<1> QED BY <1>1, <1>2, FilterOne DEF OfKind, IsSequence

-----------------------------------------------------------------------------
(* Answers.                                                                *)

(* A put is taken off the list.                                            *)
LEMMA ForgetFields ==
  ASSUME NEW s, DOMAIN s = ClientFields, NEW id
  PROVE  LET d == Forget(s, id)
         IN  /\ DOMAIN d = ClientFields /\ d.txn = s.txn /\ d.queue = s.queue
             /\ d.phase = s.phase /\ d.reasons = s.reasons /\ d.online = s.online
             /\ d.up = s.up /\ d.nextId = s.nextId
             /\ d.puts = Filter(s.puts, {put \in Range(s.puts) : put.id # id})
BY DEF Forget, ClientFields

LeavesOut(puts, q, id) ==
  /\ IsSequence(q)
  /\ \E f : \A i \in 1 .. Len(q) :
       /\ f[i] \in 1 .. Len(puts) /\ puts[f[i]].id # id
       /\ q[i] = puts[f[i]]
       /\ \A j \in 1 .. Len(q) : i < j => f[i] < f[j]
  /\ \A j \in 1 .. Len(puts) :
       puts[j].id # id => \E i \in 1 .. Len(q) : q[i] = puts[j]

(* What is left of the puts, by their indices.                             *)
LEMMA ForgetPuts ==
  ASSUME NEW s, NEW G, ClientInv(s, G), NEW id
  PROVE  LeavesOut(s.puts, Forget(s, id).puts, id)
<1> DEFINE K == {put \in Range(s.puts) : put.id # id}
           q == Filter(s.puts, K)
<1>1. Forget(s, id).puts = q
  <2>1. DOMAIN s = ClientFields
    BY FieldFacts DEF HasTransactions
  <2> QED BY <2>1, ForgetFields
<1>2. PICK R : s.puts \in Seq(R)
  BY DEF ClientInv, Shape, IsSequence
<1>3. \A p \in K : p.id # id
  OBVIOUS
<1>4. \A j \in 1 .. Len(s.puts) : s.puts[j].id # id => s.puts[j] \in K
  BY <1>2 DEF Range
<1> HIDE DEF K
<1>5. q \in Seq(R)
  BY <1>2, FilterType
<1>6. \E f : \A i \in 1 .. Len(q) :
         /\ f[i] \in 1 .. Len(s.puts) /\ s.puts[f[i]] \in K
         /\ q[i] = s.puts[f[i]]
         /\ \A j \in 1 .. Len(q) : i < j => f[i] < f[j]
  BY <1>2, FilterIndex
<1>7. \A j \in 1 .. Len(s.puts) : s.puts[j] \in K => \E i \in 1 .. Len(q) : q[i] = s.puts[j]
  BY <1>2, FilterHas
<1> HIDE DEF q
<1> QED BY <1>1, <1>3, <1>4, <1>5, <1>6, <1>7 DEF IsSequence, LeavesOut

(* It keeps the invariant if what remains is what is awaited: the put was  *)
(* answered or its transactions are cancelled.                             *)
LEMMA ForgetKeeps ==
  ASSUME NEW s, NEW G, ClientInv(s, G), NEW id, G.x \in {0, id},
         NEW H, H.x = 0, H.applied = G.applied, H.phase = G.phase,
         H.reasons = G.reasons, H.online = G.online, IsSequence(H.down),
         H.kept = {put \in G.kept : put.id # id},
         Awaited(Forget(s, id), H)
  PROVE  ClientInv(Forget(s, id), H)
<1> DEFINE d == Forget(s, id)
           q == d.puts
<1>1. Shape(s) /\ InOrder(s) /\ Exclusive(s, G) /\ Counted(s, G) /\ Unqueued(s, G) /\ Grounded(s, G)
  BY DEF ClientInv
<1>2. /\ DOMAIN d = ClientFields /\ d.txn = s.txn /\ d.queue = s.queue
      /\ d.phase = s.phase /\ d.reasons = s.reasons /\ d.online = s.online
      /\ d.up = s.up /\ d.nextId = s.nextId
  BY <1>1, ForgetFields DEF Shape
<1>3. LeavesOut(s.puts, q, id)
  BY ForgetPuts
<1>4. Awaited(d, H)
  OBVIOUS
<1> HIDE DEF d
<1>5. PICK f : \A i \in 1 .. Len(q) :
           /\ f[i] \in 1 .. Len(s.puts) /\ s.puts[f[i]].id # id
           /\ q[i] = s.puts[f[i]]
           /\ \A j \in 1 .. Len(q) : i < j => f[i] < f[j]
  BY <1>3 DEF LeavesOut
<1>6. /\ DOMAIN q = 1 .. Len(q) /\ Len(q) \in Nat
      /\ DOMAIN s.puts = 1 .. Len(s.puts) /\ Len(s.puts) \in Nat
  BY <1>1, <1>3, SequenceFacts DEF Shape, LeavesOut
<1>7. \A i \in DOMAIN q : \E j \in DOMAIN s.puts : q[i] = s.puts[j] /\ s.puts[j].id # id
  BY <1>5, <1>6
<1>8. Shape(d)
  BY <1>1, <1>2, <1>3, <1>7 DEF Shape, LeavesOut
<1>9. InOrder(d)
  <2>1. ASSUME NEW i \in DOMAIN q, NEW j \in DOMAIN q, i < j PROVE q[i].id < q[j].id
    <3>1. /\ f[i] \in DOMAIN s.puts /\ f[j] \in DOMAIN s.puts /\ f[i] < f[j]
          /\ q[i] = s.puts[f[i]] /\ q[j] = s.puts[f[j]]
      BY <1>5, <1>6, <2>1
    <3> QED BY <1>1, <3>1 DEF InOrder
  <2>2. \A i \in DOMAIN q : q[i].id < d.nextId
    BY <1>1, <1>2, <1>7 DEF InOrder
  <2> QED BY <2>1, <2>2 DEF InOrder
<1>10. Exclusive(d, H)
  <2> SUFFICES ASSUME NEW i \in DOMAIN q, NEW t \in Range(q[i].txns)
               PROVE  /\ q[i].id # 0 /\ OnTheWire(d.txn[t])
                      /\ \A j \in DOMAIN q : Carries(q[j], t) => j = i
    BY DEF Exclusive
  <2>1. f[i] \in DOMAIN s.puts /\ q[i] = s.puts[f[i]] /\ s.puts[f[i]].id # id
    BY <1>5, <1>6
  <2>2. q[i].id # 0
    BY <1>1, <2>1 DEF Shape, IsPut
  <2>3. /\ OnTheWire(s.txn[t])
        /\ \A j \in DOMAIN s.puts : Carries(s.puts[j], t) => j = f[i]
    BY <1>1, <2>1, <2>2 DEF Exclusive
  <2>4. ASSUME NEW j \in DOMAIN q, Carries(q[j], t) PROVE j = i
    <3>1. f[j] \in DOMAIN s.puts /\ q[j] = s.puts[f[j]]
      BY <1>5, <1>6
    <3>2. f[j] = f[i]
      BY <2>3, <2>4, <3>1
    <3>3. /\ i < j => f[i] < f[j]
          /\ j < i => f[j] < f[i]
      BY <1>5, <1>6
    <3>4. f[i] \in Nat /\ i \in Nat /\ j \in Nat
      BY <1>6, <2>1
    <3> QED BY <3>2, <3>3, <3>4
  <2> QED BY <1>2, <2>2, <2>3, <2>4
<1>11. Counted(d, H)
  BY <1>1, <1>2 DEF Counted, Untried, Requests
<1>12. Unqueued(d, H)
  <2> SUFFICES ASSUME s.phase # "open", NEW i \in DOMAIN q
               PROVE  IF q[i].queued
                        THEN q[i].txns # << >> => q[i] \in H.kept
                        ELSE \A t \in Range(q[i].txns) : Untried(d, H, t)
    BY <1>1, <1>2, <1>7 DEF Unqueued
  <2>1. PICK j \in DOMAIN s.puts : q[i] = s.puts[j] /\ s.puts[j].id # id
    BY <1>7
  <2>2. IF q[i].queued
          THEN q[i].txns # << >> => q[i] \in G.kept
          ELSE \A t \in Range(q[i].txns) : Untried(s, G, t)
    BY <1>1, <2>1 DEF Unqueued
  <2>3. q[i] \in G.kept => q[i] \in H.kept
    BY <2>1
  <2>4. \A t : Untried(s, G, t) => Untried(d, H, t)
    BY <1>2 DEF Untried, Requests
  <2> QED BY <2>2, <2>3, <2>4
<1>13. Grounded(d, H)
  <2>1. \A put \in H.kept : \E i \in DOMAIN q : q[i] = put
    <3> SUFFICES ASSUME NEW put \in G.kept, put.id # id PROVE \E i \in DOMAIN q : q[i] = put
      OBVIOUS
    <3>1. PICK j \in 1 .. Len(s.puts) : s.puts[j] = put
      BY <1>1, <1>6 DEF Grounded
    <3> QED BY <1>3, <1>6, <3>1 DEF LeavesOut
  <2>2. 0 < d.nextId
    BY <1>1, <1>2 DEF Shape
  <2> QED BY <1>1, <1>2, <2>1, <2>2 DEF Grounded
<1> QED BY <1>4, <1>8, <1>9, <1>10, <1>11, <1>12, <1>13 DEF ClientInv, d

(* Marking changes nothing but transactions.                               *)
LEMMA MarkedFields ==
  ASSUME NEW s, HasTransactions(s), s.nextId \in Nat, NEW ts, NEW status
  PROVE  LET m == MarkAnswered(s, ts, status)
         IN  /\ HasTransactions(m) /\ SamePuts(s, m)
             /\ \A t \in Txns : m.txn[t] = IF t \in ts THEN AfterAnswer(s.txn[t], status)
                                           ELSE s.txn[t]
<1> DEFINE txn == [t \in Txns |-> IF t \in ts THEN AfterAnswer(s.txn[t], status)
                                  ELSE s.txn[t]]
           m == [s EXCEPT !.txn = txn]
<1>1. /\ DOMAIN txn = Txns
      /\ \A t \in Txns : txn[t] = IF t \in ts THEN AfterAnswer(s.txn[t], status)
                                  ELSE s.txn[t]
  OBVIOUS
<1>2. \A t \in Txns : DOMAIN s.txn[t] = TxnFields => DOMAIN AfterAnswer(s.txn[t], status) = TxnFields
  BY DEF AfterAnswer
<1> HIDE DEF txn
<1>3. /\ DOMAIN m = ClientFields /\ m.queue = s.queue /\ m.txn = txn
      /\ m.phase = s.phase /\ m.reasons = s.reasons /\ m.online = s.online
      /\ m.puts = s.puts /\ m.up = s.up /\ m.nextId = s.nextId
  BY DEF HasTransactions, ClientFields
<1> HIDE DEF m
<1>4. \A t \in Txns : DOMAIN m.txn[t] = TxnFields
  BY <1>1, <1>2, <1>3 DEF HasTransactions
<1>5. HasTransactions(m) /\ SamePuts(s, m)
  BY <1>1, <1>3, <1>4 DEF HasTransactions, SamePuts
<1>6. MarkAnswered(s, ts, status) = m
  BY DEF MarkAnswered, m, txn
<1> QED BY <1>1, <1>3, <1>5, <1>6

(* What a transaction on the wire becomes.                                 *)
LEMMA AfterAnswerIs ==
  ASSUME NEW tx, DOMAIN tx = TxnFields, OnTheWire(tx), NEW status
  PROVE  /\ status \in {"datastale", "permission_denied"} => Unsent(AfterAnswer(tx, status))
         /\ status = "disconnect" => Doubtful(AfterAnswer(tx, status))
BY DEF OnTheWire, AfterAnswer, Unsent, Doubtful, TxnFields

(* The callback for the answer to a put that is off the list.              *)
LEMMA TransactionsAnsweredKeeps ==
  ASSUME NEW s, NEW G, ClientInv(s, G), NEW put, put.txns \in Seq(Txns),
         NEW status \in {"ok", "datastale", "permission_denied"},
         \A t \in Range(put.txns) :
           /\ OnTheWire(s.txn[t]) /\ Uncarried(s, t)
           /\ IF status = "ok" THEN G.applied[t] = 1 ELSE Untried(s, G, t)
  PROVE  ClientInv(TransactionsAnswered(s, put, status), G)
<1>1. CASE status = "ok"
  <2>1. \A t \in Range(put.txns) : Settleable(s, G, t, "committed")
    BY <1>1 DEF Settleable
  <2> DEFINE a == SettleAll(s, put.txns, "committed")
  <2>2. ClientInv(a, G)
    BY <2>1, SettleAllKeeps
  <2> HIDE DEF a
  <2>3. ClientInv(SendReadyTransactions(Prune(a)), G)
    BY <2>2, PruneKeeps, SendReadyTransactionsKeeps
  <2> QED BY <1>1, <2>3 DEF TransactionsAnswered, a
<1>2. CASE status # "ok"
  <2> DEFINE m == MarkAnswered(s, Range(put.txns), status)
  <2>1. HasTransactions(s) /\ s.nextId \in Nat \ {0}
    BY FieldFacts
  <2>2. /\ HasTransactions(m) /\ SamePuts(s, m)
        /\ \A t \in Txns : m.txn[t] = IF t \in Range(put.txns)
                                        THEN AfterAnswer(s.txn[t], status)
                                        ELSE s.txn[t]
    BY <2>1, MarkedFields
  <2> HIDE DEF m
  <2>3. \A t \in Txns : Moves(s, m, G, t)
    <3> SUFFICES ASSUME NEW t \in Txns PROVE Moves(s, m, G, t)
      OBVIOUS
    <3>1. CASE t \in Range(put.txns)
      <4>1. m.txn[t] = AfterAnswer(s.txn[t], status) /\ DOMAIN s.txn[t] = TxnFields
        BY <2>1, <2>2, <3>1 DEF HasTransactions
      <4>2. OnTheWire(s.txn[t]) /\ Uncarried(s, t) /\ Untried(s, G, t)
        BY <1>2, <3>1
      <4>3. Unsent(m.txn[t])
        BY <1>2, <4>1, <4>2, AfterAnswerIs
      <4> QED BY <4>2, <4>3 DEF Moves
    <3>2. CASE t \notin Range(put.txns)
      BY <2>2, <3>2 DEF Moves
    <3> QED BY <3>1, <3>2
  <2>4. ClientInv(m, G)
    BY <2>2, <2>3, MovesKeep
  <2> QED BY <1>2, <2>4, RerunTransactionsKeeps DEF m, TransactionsAnswered
<1> QED BY <1>1, <1>2

(* The put that is answered is the first one.                              *)
LEMMA ForgetFirst ==
  ASSUME NEW s, NEW G, ClientInv(s, G), s.puts # << >>
  PROVE  Forget(s, s.puts[1].id).puts = Tail(s.puts)
<1> DEFINE id == s.puts[1].id
           K == {put \in Range(s.puts) : put.id # id}
           l == Tail(s.puts)
<1>1. DOMAIN s = ClientFields /\ IsSequence(s.puts) /\ InOrder(s)
      /\ \A i \in DOMAIN s.puts : IsPut(s.puts[i])
  BY DEF ClientInv, Shape
<1>2. /\ IsSequence(l) /\ Len(s.puts) \in Nat \ {0} /\ DOMAIN s.puts = 1 .. Len(s.puts)
      /\ Len(l) = Len(s.puts) - 1
      /\ \A i \in 1 .. Len(s.puts) - 1 : l[i] = s.puts[i + 1]
  BY <1>1, TailFacts
<1>3. \A i \in 1 .. Len(l) : l[i] \in K
  <2> SUFFICES ASSUME NEW i \in 1 .. Len(l) PROVE l[i] \in K
    OBVIOUS
  <2> HIDE DEF l
  <2>1. l[i] = s.puts[i + 1] /\ i + 1 \in 1 .. Len(s.puts) /\ 1 \in 1 .. Len(s.puts) /\ 1 < i + 1
    BY <1>2
  <2>2. s.puts[1].id < s.puts[i + 1].id /\ s.puts[1].id \in Nat /\ s.puts[i + 1].id \in Nat
    <3>1. IsPut(s.puts[1]) /\ IsPut(s.puts[i + 1])
      BY <1>1, <1>2, <2>1
    <3>2. s.puts[1].id \in Nat /\ s.puts[i + 1].id \in Nat
      BY <3>1 DEF IsPut
    <3>3. s.puts[1].id < s.puts[i + 1].id
      BY <1>1, <1>2, <2>1 DEF InOrder
    <3> QED BY <3>2, <3>3
  <2>3. s.puts[i + 1].id # id
    BY <2>2
  <2> QED BY <1>2, <2>1, <2>3 DEF Range
<1>4. s.puts[1] \notin K
  OBVIOUS
<1>5. PICK R : l \in Seq(R)
  BY <1>2 DEF IsSequence
<1>6. Forget(s, id).puts = Filter(s.puts, K)
  <2>1. DOMAIN s = ClientFields
    BY <1>1
  <2> HIDE DEF l
  <2>2. "puts" \in DOMAIN s
    BY <2>1 DEF ClientFields
  <2>3. Forget(s, id) = [s EXCEPT !.puts = Filter(@, {put \in Range(@) : put.id # id})]
    BY DEF Forget
  <2> QED BY <2>2, <2>3
<1> HIDE DEF K
<1>7. Filter(s.puts, K) = Filter(l, K)
  BY <1>1, <1>4, FilterTail
<1> HIDE DEF l
<1>8. Filter(l, K) = l
  BY <1>3, <1>5, FilterAll
<1> QED BY <1>6, <1>7, <1>8 DEF l

(* An answer arrives on the open connection.                               *)
LEMMA PutAnsweredKeeps ==
  ASSUME NEW s, NEW G, ClientInv(s, G), G.x = 0, G.kept = {}, s.phase = "open",
         G.down # << >>, G.down[1].kind = "answer", IsMessage(G.down[1]),
         NEW i \in DOMAIN s.puts, s.puts[i].id = G.down[1].id,
         NEW H, H.x = 0, H.kept = {}, H.applied = G.applied, H.down = Tail(G.down),
         H.phase = G.phase, H.reasons = G.reasons, H.online = G.online
  PROVE  ClientInv(PutAnswered(s, s.puts[i], G.down[1].status), H)
<1> DEFINE A == AnswersIn(G.down)
           T == AnswersIn(Tail(G.down))
           R == PutsIn(s.up)
           put == s.puts[1]
           status == G.down[1].status
           d == Forget(s, put.id)
<1>1. Shape(s) /\ InOrder(s) /\ Exclusive(s, G) /\ Counted(s, G) /\ Grounded(s, G)
      /\ Matches(s.puts, A, R, G)
  BY DEF ClientInv, Awaited
<1>2. /\ A[1] = G.down[1] /\ Len(T) \in Nat /\ Len(A) = Len(T) + 1
      /\ \A j \in 1 .. Len(T) : T[j] = A[j + 1]
  <2>1. A = OfKind(G.down, "answer") /\ T = OfKind(Tail(G.down), "answer")
    BY DEF AnswersIn, OfKind
  <2>2. IsSequence(G.down)
    BY <1>1 DEF Grounded
  <2> QED BY <2>1, <2>2, OfKindTail
<1>3. IsSequence(s.puts) /\ DOMAIN s.puts = 1 .. Len(s.puts) /\ IsSequence(s.up)
      /\ DOMAIN s.up = 1 .. Len(s.up)
  BY <1>1, SequenceFacts DEF Shape
<1>4. Len(R) \in Nat
  <2>1. IsSequence(R)
    BY <1>3, FilteredFacts DEF PutsIn
  <2> QED BY <2>1, SequenceFacts
<1>5. /\ IsSequence(H.down) /\ H.down = Tail(G.down) /\ H.x = 0 /\ H.kept = {}
      /\ H.applied = G.applied /\ H.phase = G.phase /\ H.reasons = G.reasons
      /\ H.online = G.online
  <2>1. IsSequence(Tail(G.down))
    BY <1>1, TailFacts DEF Grounded
  <2> QED BY <2>1
<1> HIDE DEF A, T, R
<1>6. /\ Len(s.puts) = Len(A) + Len(R)
      /\ \A j \in 1 .. Len(A) :
           /\ s.puts[j].id = A[j].id
           /\ \A t \in Range(s.puts[j].txns) :
                G.applied[t] = IF A[j].status = "ok" THEN 1 ELSE 0
      /\ \A j \in 1 .. Len(R) :
           /\ s.puts[Len(A) + j].id = R[j].put.id
           /\ s.puts[Len(A) + j].txns = R[j].put.txns
  BY <1>1 DEF Matches
<1>7. i = 1 /\ 1 \in 1 .. Len(A) /\ 1 \in DOMAIN s.puts
  <2>1. 1 \in 1 .. Len(A) /\ 1 \in DOMAIN s.puts
    BY <1>2, <1>3, <1>4, <1>6
  <2>2. s.puts[1].id = s.puts[i].id
    BY <1>2, <1>6, <2>1
  <2>3. s.puts[1].id \in Nat /\ (i > 1 => s.puts[1].id < s.puts[i].id)
    BY <1>1, <2>1 DEF InOrder, Shape, IsPut
  <2> QED BY <1>3, <2>1, <2>2, <2>3
<1>8. IsPut(put) /\ put.txns \in Seq(Txns)
  BY <1>1, <1>7 DEF Shape, IsPut
<1>9. s.puts # << >>
  BY <1>7
<1>10. /\ d.puts = Tail(s.puts) /\ d.phase = s.phase /\ d.up = s.up /\ d.txn = s.txn
  BY <1>1, <1>9, ForgetFirst, ForgetFields DEF Shape
<1>11. /\ Len(d.puts) = Len(s.puts) - 1 /\ DOMAIN d.puts = 1 .. Len(s.puts) - 1
       /\ \A j \in 1 .. Len(s.puts) - 1 : d.puts[j] = s.puts[j + 1]
       /\ Len(s.puts) \in Nat \ {0}
  BY <1>3, <1>9, <1>10, TailFacts
<1> HIDE DEF d
<1>12. Awaited(d, H)
  <2> SUFFICES Matches(d.puts, T, R, H)
    BY <1>5, <1>10 DEF Awaited, T, R
  <2>1. Len(d.puts) = Len(T) + Len(R)
    BY <1>2, <1>4, <1>6, <1>11
  <2>2. ASSUME NEW j \in 1 .. Len(T)
        PROVE  /\ d.puts[j].id = T[j].id
               /\ \A t \in Range(d.puts[j].txns) :
                    H.applied[t] = IF T[j].status = "ok" THEN 1 ELSE 0
    <3>1. /\ j \in 1 .. Len(s.puts) - 1 /\ j + 1 \in 1 .. Len(A)
      BY <1>2, <1>4, <1>6, <1>11
    <3>2. d.puts[j] = s.puts[j + 1] /\ T[j] = A[j + 1]
      BY <1>2, <1>11, <3>1
    <3> QED BY <1>5, <1>6, <3>1, <3>2
  <2>3. ASSUME NEW j \in 1 .. Len(R)
        PROVE  /\ d.puts[Len(T) + j].id = R[j].put.id
               /\ d.puts[Len(T) + j].txns = R[j].put.txns
    <3>1. /\ Len(T) + j \in 1 .. Len(s.puts) - 1 /\ (Len(T) + j) + 1 = Len(A) + j
      BY <1>2, <1>4, <1>6, <1>11
    <3>2. d.puts[Len(T) + j] = s.puts[Len(A) + j]
      BY <1>11, <3>1
    <3> QED BY <1>6, <3>2
  <2> QED BY <2>1, <2>2, <2>3 DEF Matches
<1>13. ClientInv(d, H)
  <2>1. H.kept = {p \in G.kept : p.id # put.id} /\ G.x \in {0, put.id}
    BY <1>5
  <2>2. Awaited(Forget(s, put.id), H)
    BY <1>12 DEF d
  <2> DEFINE id == put.id
  <2> HIDE DEF put, id
  <2>3. /\ G.x \in {0, id} /\ H.x = 0 /\ H.applied = G.applied /\ H.phase = G.phase
        /\ H.reasons = G.reasons /\ H.online = G.online /\ IsSequence(H.down)
        /\ H.kept = {p \in G.kept : p.id # id} /\ Awaited(Forget(s, id), H)
    BY <1>5, <2>1, <2>2 DEF id
  <2>4. ClientInv(Forget(s, id), H)
    BY <2>3, ForgetKeeps
  <2> QED BY <2>4 DEF d, id
<1>14. ASSUME NEW t \in Range(put.txns)
       PROVE  /\ OnTheWire(d.txn[t]) /\ Uncarried(d, t)
              /\ IF status = "ok" THEN H.applied[t] = 1 ELSE Untried(d, H, t)
  <2>1. /\ put.id # G.x /\ OnTheWire(s.txn[t])
        /\ \A j \in DOMAIN s.puts : Carries(s.puts[j], t) => j = 1
    BY <1>1, <1>7, <1>8 DEF Exclusive, IsPut
  <2>2. Uncarried(d, t)
    <3> SUFFICES ASSUME NEW j \in 1 .. Len(s.puts) - 1, Carries(s.puts[j + 1], t) PROVE FALSE
      BY <1>11 DEF Uncarried
    <3>1. j + 1 \in DOMAIN s.puts /\ j + 1 # 1
      BY <1>3, <1>11
    <3> QED BY <2>1, <3>1
  <2>3. H.applied[t] = IF status = "ok" THEN 1 ELSE 0
    BY <1>2, <1>5, <1>6, <1>7
  <2>4. ASSUME NEW k \in DOMAIN s.up, Requests(s, k, t) PROVE FALSE
    <3> DEFINE K == {r \in Range(s.up) : r.kind = "put"}
    <3>1. R = Filter(s.up, K)
      BY DEF R, PutsIn
    <3>2. s.up[k] \in K
      BY <2>4 DEF Requests, Range
    <3>3. PICK Q : s.up \in Seq(Q)
      BY <1>3 DEF IsSequence
    <3> HIDE DEF K
    <3>4. PICK j \in 1 .. Len(R) : R[j] = s.up[k]
      <4>1. k \in 1 .. Len(s.up)
        BY <1>3
      <4>2. \E j \in 1 .. Len(Filter(s.up, K)) : Filter(s.up, K)[j] = s.up[k]
        BY <3>2, <3>3, <4>1, FilterHas
      <4> QED BY <3>1, <4>2
    <3>5. s.puts[Len(A) + j].txns = R[j].put.txns /\ Carries(R[j].put, t)
      BY <1>6, <2>4, <3>4 DEF Requests
    <3>6. Len(A) + j \in DOMAIN s.puts /\ Len(A) + j # 1
      BY <1>2, <1>3, <1>4, <1>6
    <3> QED BY <2>1, <3>5, <3>6 DEF Carries
  <2>5. status # "ok" => Untried(d, H, t)
    BY <1>10, <2>3, <2>4 DEF Untried, Requests
  <2> QED BY <1>10, <2>1, <2>2, <2>3, <2>5
<1>15. status \in {"ok", "datastale", "permission_denied"}
  BY DEF IsMessage
<1> HIDE DEF status
<1>16. ClientInv(TransactionsAnswered(d, put, status), H)
  BY <1>8, <1>13, <1>14, <1>15, TransactionsAnsweredKeeps
<1>17. ClientInv(AckUserWrite(d, put.write), H)
  BY <1>13, AckUserWriteKeeps
<1> QED BY <1>7, <1>16, <1>17 DEF PutAnswered, d, status

-----------------------------------------------------------------------------
(* What the client remembers: the pending writes, the queue and the puts.  *)

(* The transactions that have a pending write.                             *)
Pending(s) == {t \in Txns : s.txn[t].write # 0}

Ids(writes) == {writes[i].id : i \in DOMAIN writes}

(* The puts of set(), by their numbers.                                    *)
SetIds(s) == {s.puts[i].id : i \in {j \in DOMAIN s.puts : s.puts[j].txns = << >>}}

HasFields(s) ==
  /\ HasTransactions(s) /\ s.nextId \in Nat \ {0}
  /\ s.phase \in {"idle", "scheduled", "connecting", "open"}
  /\ IsSequence(s.puts) /\ \A i \in DOMAIN s.puts : IsPut(s.puts[i])
  /\ IsSequence(s.writes)

(* The pending writes are those of transactions and of outstanding sets,   *)
(* each its own.                                                           *)
Numbered(s) ==
  /\ Ids(s.writes) = {s.txn[t].write : t \in Pending(s)} \cup SetIds(s)
  /\ SetIds(s) \subseteq 1 .. s.nextId - 1
  /\ \A t \in Txns : s.txn[t].write \in 0 .. s.nextId - 1
  /\ \A t \in Pending(s) :
       /\ s.txn[t].write \notin SetIds(s)
       /\ \A u \in Txns : s.txn[u].write = s.txn[t].write => u = t
  /\ \A i \in DOMAIN s.puts : s.puts[i].txns = << >> => s.puts[i].write = s.puts[i].id

(* Transactions with a pending write are in the queue, others are not run  *)
(* yet or over.  Those to be aborted are among aborts, those to be aborted *)
(* if they come back among marks.                                          *)
Stage(s, aborts, marks, t) ==
  /\ IF s.txn[t].write # 0
       THEN /\ s.txn[t].status \in {"RUN", "SENT", "SENT_NEEDS_ABORT", "NEEDS_ABORT"}
            /\ t \in Range(s.queue) /\ s.txn[t].path # {}
       ELSE s.txn[t] = NewTransaction \/ s.txn[t].status = "COMPLETED"
  /\ s.txn[t].status = "NEEDS_ABORT" => t \in aborts
  /\ s.txn[t].status = "SENT_NEEDS_ABORT" => t \in marks

Staged(s, aborts, marks) == \A t \in Txns : Stage(s, aborts, marks, t)

(* A put is at or above the locations of its transactions.                 *)
Covers(put, s) == \A t \in Range(put.txns) : s.txn[t].path \subseteq DOMAIN put.data

Covering(s) == \A i \in DOMAIN s.puts : Covers(s.puts[i], s)

Remembered(s, aborts, marks) ==
  HasFields(s) /\ Numbered(s) /\ Staged(s, aborts, marks) /\ Covering(s)

(* More may be aborted and marked than is.                                 *)
LEMMA RememberedMore ==
  ASSUME NEW s, NEW A, NEW B, NEW M, NEW N, Remembered(s, A, M),
         \A t \in A : t \in B, \A t \in M : t \in N
  PROVE  Remembered(s, B, N)
BY DEF Remembered, Staged, Stage

(* What a pending write that goes leaves.                                  *)
LEMMA IdsFilter ==
  ASSUME NEW q, IsSequence(q), NEW id
  PROVE  LET f == Filter(q, {w \in Range(q) : w.id # id})
         IN  IsSequence(f) /\ Ids(f) = Ids(q) \ {id}
<1> DEFINE K == {w \in Range(q) : w.id # id}
           f == Filter(q, K)
<1>1. PICK R : q \in Seq(R)
  BY DEF IsSequence
<1>2. /\ IsSequence(f)
      /\ \A i \in DOMAIN f : \E j \in DOMAIN q : q[j] \in K /\ f[i] = q[j]
  <2> HIDE DEF K
  <2> QED BY FilteredFacts
<1>3. \A j \in 1 .. Len(q) : q[j] \in K => \E i \in 1 .. Len(f) : f[i] = q[j]
  <2> HIDE DEF K
  <2> QED BY <1>1, FilterHas
<1>4. DOMAIN q = 1 .. Len(q) /\ DOMAIN f = 1 .. Len(f)
  BY <1>2, SequenceFacts
<1> HIDE DEF f
<1>5. Ids(f) \subseteq Ids(q) \ {id}
  BY <1>2 DEF Ids
<1>6. \A j \in DOMAIN q : q[j].id # id => q[j].id \in Ids(f)
  <2> SUFFICES ASSUME NEW j \in DOMAIN q, q[j].id # id PROVE q[j].id \in Ids(f)
    OBVIOUS
  <2>1. q[j] \in K
    BY DEF Range
  <2>2. PICK i \in 1 .. Len(f) : f[i] = q[j]
    BY <1>3, <1>4, <2>1
  <2> QED BY <1>4, <2>2 DEF Ids
<1>7. Ids(q) \ {id} \subseteq Ids(f)
  BY <1>6 DEF Ids
<1> QED BY <1>2, <1>5, <1>7 DEF f

(* One more pending write.                                                 *)
LEMMA IdsAppend ==
  ASSUME NEW q, IsSequence(q), NEW e
  PROVE  IsSequence(Append(q, e)) /\ Ids(Append(q, e)) = Ids(q) \cup {e.id}
<1> DEFINE a == Append(q, e)
           n == Len(q)
<1>1. /\ IsSequence(a) /\ n \in Nat /\ DOMAIN q = 1 .. n /\ DOMAIN a = 1 .. n + 1
      /\ \A i \in 1 .. n : a[i] = q[i]
      /\ a[n + 1] = e
  BY AppendFacts
<1> HIDE DEF a, n
<1>2. \A i \in 1 .. n + 1 : i \in 1 .. n \/ i = n + 1
  BY <1>1
<1>3. n + 1 \in 1 .. n + 1 /\ \A i \in 1 .. n : i \in 1 .. n + 1
  BY <1>1
<1>4. Ids(a) = Ids(q) \cup {e.id}
  BY <1>1, <1>2, <1>3 DEF Ids
<1> QED BY <1>1, <1>4 DEF a

(* A change of the transaction t alone, which loses its pending write.     *)
LEMMA Released ==
  ASSUME NEW s, NEW A, NEW M, Remembered(s, A, M), NEW t \in Txns,
         NEW d, HasTransactions(d), d.phase = s.phase, d.puts = s.puts,
         d.queue = s.queue, d.nextId = s.nextId,
         IsSequence(d.writes), Ids(d.writes) = Ids(s.writes) \ {s.txn[t].write},
         d.txn[t].write = 0, d.txn[t].status = "COMPLETED",
         d.txn[t].path = s.txn[t].path \/ Uncarried(s, t),
         \A u \in Txns : u # t => d.txn[u] = s.txn[u]
  PROVE  Remembered(d, A \ {t}, M)
<1>1. HasFields(d)
  BY DEF Remembered, HasFields
<1>2. SetIds(d) = SetIds(s)
  BY DEF SetIds
<1>3. Pending(d) = Pending(s) \ {t}
  BY DEF Pending
<1>4. {d.txn[u].write : u \in Pending(d)} = {s.txn[u].write : u \in Pending(s)} \ {s.txn[t].write}
  BY <1>3 DEF Remembered, Numbered, Pending
<1>5. s.txn[t].write \notin SetIds(s)
  <2>1. CASE s.txn[t].write = 0
    BY <2>1 DEF Remembered, Numbered, HasFields
  <2>2. CASE s.txn[t].write # 0
    BY <2>2 DEF Remembered, Numbered, Pending
  <2> QED BY <2>1, <2>2
<1>6. Numbered(d)
  <2>1. Ids(d.writes) = {d.txn[u].write : u \in Pending(d)} \cup SetIds(d)
    BY <1>2, <1>4, <1>5 DEF Remembered, Numbered
  <2>2. \A u \in Txns : d.txn[u].write \in 0 .. d.nextId - 1
    BY DEF Remembered, Numbered, HasFields
  <2>3. ASSUME NEW u \in Pending(d)
        PROVE  /\ d.txn[u].write \notin SetIds(d)
               /\ \A v \in Txns : d.txn[v].write = d.txn[u].write => v = u
    <3>1. u \in Pending(s) /\ u # t /\ d.txn[u] = s.txn[u] /\ d.txn[u].write # 0
      BY <1>3, <2>3 DEF Pending
    <3> QED BY <1>2, <3>1 DEF Remembered, Numbered
  <2> QED BY <1>2, <2>1, <2>2, <2>3 DEF Remembered, Numbered
<1>7. Staged(d, A \ {t}, M)
  BY DEF Remembered, Staged, Stage
<1>8. Covering(d)
  <2> SUFFICES ASSUME NEW i \in DOMAIN s.puts, NEW u \in Range(s.puts[i].txns)
               PROVE  d.txn[u].path \subseteq DOMAIN s.puts[i].data
    BY DEF Covering, Covers
  <2>1. u \in Txns
    BY <1>1, RangeOfSeq DEF HasFields, IsPut
  <2>2. s.txn[u].path \subseteq DOMAIN s.puts[i].data
    BY DEF Remembered, Covering, Covers
  <2>3. ~Uncarried(s, u)
    BY DEF Uncarried, Carries
  <2> QED BY <2>1, <2>2, <2>3
<1> QED BY <1>1, <1>6, <1>7, <1>8 DEF Remembered

(* A transaction is settled.                                               *)
LEMMA SettleRemembers ==
  ASSUME NEW s, NEW A, NEW M, Remembered(s, A, M), NEW t \in Txns, NEW outcome
  PROVE  LET d == Settle(s, t, outcome)
         IN  /\ Remembered(d, A \ {t}, M)
             /\ d.puts = s.puts /\ d.queue = s.queue
             /\ d.txn[t].write = 0 /\ d.txn[t].path = s.txn[t].path
             /\ \A u \in Txns : u # t => d.txn[u] = s.txn[u]
<1> DEFINE n == [NewTransaction EXCEPT !.status = "COMPLETED",
                                       !.path = s.txn[t].path, !.outcome = outcome]
           e == [s EXCEPT !.txn[t] = n]
           id == s.txn[t].write
           d == Settle(s, t, outcome)
           K == {w \in Range(s.writes) : w.id # id}
<1>1. HasFields(s)
  BY DEF Remembered
<1>2. n.write = 0 /\ n.status = "COMPLETED" /\ n.path = s.txn[t].path
  BY DEF NewTransaction
<1> HIDE DEF n
<1>3. /\ DOMAIN e = ClientFields /\ e.puts = s.puts /\ e.queue = s.queue
      /\ e.writes = s.writes /\ e.phase = s.phase /\ e.nextId = s.nextId
      /\ e.txn = [s.txn EXCEPT ![t] = n]
  BY <1>1 DEF HasFields, HasTransactions, ClientFields
<1> HIDE DEF e
<1>4. d = AckUserWrite(e, id)
  BY DEF Settle, e, n
<1>5. /\ d.puts = s.puts /\ d.queue = s.queue /\ d.phase = s.phase /\ d.nextId = s.nextId
      /\ d.txn = e.txn /\ d.writes = Filter(s.writes, K)
  BY <1>3, <1>4 DEF AckUserWrite, ClientFields
<1>6. HasTransactions(d)
  BY <1>1, SettleFields DEF HasFields
<1>7. /\ d.txn[t].write = 0 /\ d.txn[t].status = "COMPLETED"
      /\ d.txn[t].path = s.txn[t].path
      /\ \A u \in Txns : u # t => d.txn[u] = s.txn[u]
  BY <1>1, <1>2, <1>3, <1>5 DEF HasFields, HasTransactions
<1>8. IsSequence(d.writes) /\ Ids(d.writes) = Ids(s.writes) \ {id}
  <2>1. /\ IsSequence(Filter(s.writes, K))
        /\ Ids(Filter(s.writes, K)) = Ids(s.writes) \ {id}
    BY <1>1, IdsFilter DEF HasFields
  <2> HIDE DEF K, d
  <2> QED BY <1>5, <2>1
<1> HIDE DEF d
<1>9. Remembered(d, A \ {t}, M)
  BY <1>5, <1>6, <1>7, <1>8, Released
<1> QED BY <1>5, <1>7, <1>9 DEF d

(* The loops that settle transactions.                                     *)
ReleasedSoFar(d, i, p) ==
  /\ Remembered(d, p.aborts \ {p.ts[j] : j \in 1 .. i}, p.marks)
  /\ d.puts = p.base.puts /\ d.queue = p.base.queue
  /\ \A j \in 1 .. i : d.txn[p.ts[j]].write = 0
  /\ \A u \in Txns : /\ d.txn[u].path = p.base.txn[u].path
                     /\ u \notin Range(p.ts) => d.txn[u] = p.base.txn[u]

Releasing == INSTANCE FoldTheorems WITH Op <- SettleWith, Inv <- ReleasedSoFar

(* Of two states of the client, the second has no pending write for ts and *)
(* differs in nothing else of the queue, the puts and other transactions.  *)
OnlySettled(s, d, ts) ==
  /\ d.puts = s.puts /\ d.queue = s.queue
  /\ \A t \in Range(ts) : d.txn[t].write = 0
  /\ \A u \in Txns : /\ d.txn[u].path = s.txn[u].path
                     /\ u \notin Range(ts) => d.txn[u] = s.txn[u]

(* All of them are over, and nothing else is.                              *)
LEMMA SettleAllRemembers ==
  ASSUME NEW s, NEW A, NEW M, Remembered(s, A, M), NEW ts \in Seq(Txns), NEW outcome
  PROVE  /\ Remembered(SettleAll(s, ts, outcome), A \ Range(ts), M)
         /\ OnlySettled(s, SettleAll(s, ts, outcome), ts)
<1> DEFINE r == SettleAll(s, ts, outcome)
           p == [base |-> s, ts |-> ts, outcome |-> outcome, aborts |-> A, marks |-> M]
<1>0. p.base = s /\ p.ts = ts /\ p.outcome = outcome /\ p.aborts = A /\ p.marks = M
  OBVIOUS
<1> HIDE DEF p
<1>1. r = Releasing!Run(s, ts, p)
  BY <1>0 DEF SettleAll, SettleWith, FoldLeft, MapThenFoldSet, Max, Releasing!Run,
         Releasing!Last
<1> HIDE DEF r
<1>2. Len(ts) \in Nat /\ DOMAIN ts = 1 .. Len(ts) /\ \A i \in 1 .. Len(ts) : ts[i] \in Txns
  BY LenProperties
<1>3. ASSUME NEW i \in 1 .. Len(ts), NEW d, ReleasedSoFar(d, i - 1, p)
      PROVE  ReleasedSoFar(SettleWith(d, ts[i], p), i, p)
  <2> DEFINE t == ts[i]
             e == Settle(d, t, outcome)
             B == A \ {ts[j] : j \in 1 .. i - 1}
  <2>1. t \in Txns /\ t \in Range(ts)
    BY <1>2 DEF Range
  <2>2. /\ Remembered(d, B, M) /\ d.puts = s.puts /\ d.queue = s.queue
        /\ \A j \in 1 .. i - 1 : d.txn[ts[j]].write = 0
        /\ \A u \in Txns : /\ d.txn[u].path = s.txn[u].path
                           /\ u \notin Range(ts) => d.txn[u] = s.txn[u]
    BY <1>0, <1>3 DEF ReleasedSoFar
  <2>3. \A j \in 1 .. i : j \in 1 .. i - 1 \/ j = i
    BY <1>2
  <2>4. B \ {t} = A \ {ts[j] : j \in 1 .. i}
    <3>1. i \in 1 .. i /\ \A j \in 1 .. i - 1 : j \in 1 .. i
      BY <1>2
    <3> QED BY <2>3, <3>1
  <2> HIDE DEF t, B
  <2>5. /\ Remembered(e, B \ {t}, M) /\ e.puts = d.puts /\ e.queue = d.queue
        /\ e.txn[t].write = 0 /\ e.txn[t].path = d.txn[t].path
        /\ \A u \in Txns : u # t => e.txn[u] = d.txn[u]
    <3>1. Remembered(e, B \ {t}, M)
      BY <2>1, <2>2, SettleRemembers
    <3>2. /\ e.puts = d.puts /\ e.queue = d.queue
          /\ e.txn[t].write = 0 /\ e.txn[t].path = d.txn[t].path
          /\ \A u \in Txns : u # t => e.txn[u] = d.txn[u]
      BY <2>1, <2>2, <3>1, SettleRemembers
    <3> QED BY <3>1, <3>2
  <2> HIDE DEF e
  <2>6. \A j \in 1 .. i : e.txn[ts[j]].write = 0
    <3> SUFFICES ASSUME NEW j \in 1 .. i PROVE e.txn[ts[j]].write = 0
      OBVIOUS
    <3>1. CASE ts[j] = t
      BY <2>5, <3>1
    <3>2. CASE ts[j] # t
      <4>1. j \in 1 .. i - 1 /\ ts[j] \in Txns
        BY <1>2, <2>3, <3>2 DEF t
      <4> QED BY <2>2, <2>5, <3>2, <4>1
    <3> QED BY <3>1, <3>2
  <2>7. \A u \in Txns : /\ e.txn[u].path = s.txn[u].path
                        /\ u \notin Range(ts) => e.txn[u] = s.txn[u]
    BY <2>1, <2>2, <2>5
  <2>8. SettleWith(d, ts[i], p) = e
    BY <1>0 DEF SettleWith, e, t
  <2>9. Remembered(e, p.aborts \ {p.ts[j] : j \in 1 .. i}, p.marks)
    BY <1>0, <2>4, <2>5
  <2>10. ReleasedSoFar(e, i, p)
    BY <1>0, <2>2, <2>5, <2>6, <2>7, <2>9 DEF ReleasedSoFar
  <2> QED BY <2>8, <2>10
<1>4. ReleasedSoFar(s, 0, p)
  <2>1. {ts[j] : j \in 1 .. 0} = {}
    OBVIOUS
  <2> QED BY <1>0, <2>1 DEF ReleasedSoFar
<1>5. ReleasedSoFar(r, Len(ts), p)
  BY <1>1, <1>3, <1>4, Releasing!FoldKeeps
<1>6. {ts[j] : j \in 1 .. Len(ts)} = Range(ts)
  BY <1>2 DEF Range
<1>7. /\ Remembered(r, A \ Range(ts), M)
      /\ r.puts = s.puts /\ r.queue = s.queue
      /\ \A j \in 1 .. Len(ts) : r.txn[ts[j]].write = 0
      /\ \A u \in Txns : /\ r.txn[u].path = s.txn[u].path
                         /\ u \notin Range(ts) => r.txn[u] = s.txn[u]
  <2>1. Remembered(r, A \ {ts[j] : j \in 1 .. Len(ts)}, M)
    BY <1>0, <1>5 DEF ReleasedSoFar
  <2>2. Remembered(r, A \ Range(ts), M)
    BY <1>6, <2>1
  <2>3. /\ r.puts = s.puts /\ r.queue = s.queue
        /\ \A j \in 1 .. Len(ts) : r.txn[ts[j]].write = 0
        /\ \A u \in Txns : /\ r.txn[u].path = s.txn[u].path
                           /\ u \notin Range(ts) => r.txn[u] = s.txn[u]
    BY <1>0, <1>5 DEF ReleasedSoFar
  <2> QED BY <2>2, <2>3
<1>8. \A t \in Range(ts) : r.txn[t].write = 0
  BY <1>2, <1>7 DEF Range
<1>9. OnlySettled(s, r, ts)
  BY <1>7, <1>8 DEF OnlySettled
<1> QED BY <1>7, <1>9 DEF r

(* What a filtered queue holds.                                            *)
LEMMA FilterRange ==
  ASSUME NEW q, IsSequence(q), NEW K
  PROVE  \A t : t \in Range(Filter(q, K)) <=> t \in Range(q) /\ t \in K
<1> DEFINE f == Filter(q, K)
<1>1. PICK R : q \in Seq(R)
  BY DEF IsSequence
<1>2. /\ IsSequence(f)
      /\ \A i \in DOMAIN f : \E j \in DOMAIN q : q[j] \in K /\ f[i] = q[j]
  BY FilteredFacts
<1>3. \A j \in 1 .. Len(q) : q[j] \in K => \E i \in 1 .. Len(f) : f[i] = q[j]
  BY <1>1, FilterHas
<1>4. DOMAIN q = 1 .. Len(q) /\ DOMAIN f = 1 .. Len(f)
  BY <1>2, SequenceFacts
<1> HIDE DEF f
<1> SUFFICES ASSUME NEW t PROVE t \in Range(f) <=> t \in Range(q) /\ t \in K
  BY DEF f
<1> QED BY <1>2, <1>3, <1>4 DEF Range

(* The queue is filtered, and no pending transaction falls out.            *)
LEMMA QueueRemembers ==
  ASSUME NEW s, NEW A, NEW M, Remembered(s, A, M), NEW K,
         \A t \in Pending(s) : t \in K
  PROVE  LET d == [s EXCEPT !.queue = Filter(@, K)]
         IN  /\ Remembered(d, A, M) /\ d.txn = s.txn /\ d.puts = s.puts
             /\ d.queue = Filter(s.queue, K)
<1> DEFINE q == Filter(s.queue, K)
           d == [s EXCEPT !.queue = q]
<1>1. HasFields(s)
  BY DEF Remembered
<1>2. q \in Seq(Txns)
  BY <1>1, FilterType DEF HasFields, HasTransactions
<1>3. \A t \in Range(s.queue) : t \in K => t \in Range(q)
  <2>1. IsSequence(s.queue)
    BY <1>1 DEF HasFields, HasTransactions, IsSequence
  <2> QED BY <2>1, FilterRange
<1> HIDE DEF q
<1>4. /\ DOMAIN d = ClientFields /\ d.txn = s.txn /\ d.queue = q /\ d.puts = s.puts
      /\ d.writes = s.writes /\ d.phase = s.phase /\ d.nextId = s.nextId
  BY <1>1 DEF HasFields, HasTransactions, ClientFields
<1> HIDE DEF d
<1>5. HasFields(d)
  BY <1>1, <1>2, <1>4 DEF HasFields, HasTransactions
<1>6. Numbered(d)
  <2>1. SetIds(d) = SetIds(s) /\ Pending(d) = Pending(s)
    BY <1>4 DEF SetIds, Pending
  <2> QED BY <1>4, <2>1 DEF Remembered, Numbered
<1>7. Staged(d, A, M)
  <2> SUFFICES ASSUME NEW t \in Txns PROVE Stage(d, A, M, t)
    BY DEF Staged
  <2>1. Stage(s, A, M, t)
    BY DEF Remembered, Staged
  <2>2. s.txn[t].write # 0 => t \in K
    BY DEF Pending
  <2> QED BY <1>3, <1>4, <2>1, <2>2 DEF Stage
<1>8. Covering(d)
  BY <1>4 DEF Remembered, Covering, Covers
<1> QED BY <1>4, <1>5, <1>6, <1>7, <1>8 DEF Remembered, d, q

(* repoPruneCompletedTransactionsBelowNode                                 *)
LEMMA PruneRemembers ==
  ASSUME NEW s, NEW A, NEW M, Remembered(s, A, M)
  PROVE  Remembered(Prune(s), A, M)
<1> DEFINE K == {t \in Txns : Status(s, t) # "COMPLETED"}
<1>1. Prune(s) = [s EXCEPT !.queue = Filter(@, K)]
  BY DEF Prune
<1>2. \A t \in Pending(s) : t \in K
  BY DEF Remembered, Staged, Stage, Pending, Status
<1> HIDE DEF K
<1> QED BY <1>1, <1>2, QueueRemembers

(* A change of the transaction t alone, which is run and gets a new        *)
(* pending write.                                                          *)
LEMMA Acquired ==
  ASSUME NEW s, NEW A, NEW M, Remembered(s, A, M), NEW t \in Txns,
         NEW d, HasTransactions(d), d.phase = s.phase, d.puts = s.puts,
         \A u \in Range(s.queue) \cup {t} : u \in Range(d.queue),
         d.nextId = s.nextId + 1, IsSequence(d.writes),
         Ids(d.writes) = (Ids(s.writes) \ {s.txn[t].write}) \cup {s.nextId},
         d.txn[t].write = s.nextId, d.txn[t].status = "RUN", d.txn[t].path # {},
         d.txn[t].path = s.txn[t].path \/ Uncarried(s, t),
         \A u \in Txns : u # t => d.txn[u] = s.txn[u]
  PROVE  Remembered(d, A \ {t}, M)
<1> DEFINE n == s.nextId
<1>0. n \in Nat \ {0}
  BY DEF Remembered, HasFields
<1>1. HasFields(d)
  BY <1>0 DEF Remembered, HasFields
<1>2. SetIds(d) = SetIds(s)
  BY DEF SetIds
<1>3. Pending(d) = Pending(s) \cup {t}
  BY <1>0 DEF Pending
<1>4. \A u \in Txns : s.txn[u].write # n
  BY <1>0 DEF Remembered, Numbered
<1>5. n \notin SetIds(s)
  BY <1>0 DEF Remembered, Numbered
<1>6. {d.txn[u].write : u \in Pending(d)} =
        ({s.txn[u].write : u \in Pending(s)} \ {s.txn[t].write}) \cup {n}
  <2>1. \A u \in Pending(s) : u # t => s.txn[u].write # s.txn[t].write
    BY DEF Remembered, Numbered, Pending
  <2>2. \A u \in Pending(s) : u # t => d.txn[u].write = s.txn[u].write
    BY DEF Pending
  <2> HIDE DEF Pending
  <2> QED BY <1>3, <2>1, <2>2
<1>7. s.txn[t].write \notin SetIds(s)
  <2>1. CASE s.txn[t].write = 0
    BY <1>0, <2>1 DEF Remembered, Numbered
  <2>2. CASE s.txn[t].write # 0
    BY <2>2 DEF Remembered, Numbered, Pending
  <2> QED BY <2>1, <2>2
<1>8. Numbered(d)
  <2>1. Ids(d.writes) = {d.txn[u].write : u \in Pending(d)} \cup SetIds(d)
    <3>1. Ids(s.writes) = {s.txn[u].write : u \in Pending(s)} \cup SetIds(s)
      BY DEF Remembered, Numbered
    <3> QED BY <1>2, <1>6, <1>7, <3>1
  <2>2. \A u \in Txns : d.txn[u].write \in 0 .. d.nextId - 1
    <3>1. \A u \in Txns : s.txn[u].write \in 0 .. n - 1
      BY DEF Remembered, Numbered
    <3>2. n \in 0 .. (n + 1) - 1 /\ \A k \in 0 .. n - 1 : k \in 0 .. (n + 1) - 1
      BY <1>0
    <3> QED BY <3>1, <3>2
  <2>3. SetIds(d) \subseteq 1 .. d.nextId - 1
    <3>1. SetIds(s) \subseteq 1 .. n - 1
      BY DEF Remembered, Numbered
    <3>2. \A k \in 1 .. n - 1 : k \in 1 .. (n + 1) - 1
      BY <1>0
    <3> QED BY <1>2, <3>1, <3>2
  <2>4. ASSUME NEW u \in Pending(d)
        PROVE  /\ d.txn[u].write \notin SetIds(d)
               /\ \A v \in Txns : d.txn[v].write = d.txn[u].write => v = u
    <3>1. CASE u = t
      BY <1>2, <1>4, <1>5, <3>1
    <3>2. CASE u # t
      <4>1. u \in Pending(s) /\ u \in Txns /\ d.txn[u] = s.txn[u] /\ d.txn[u].write # n
        BY <1>3, <1>4, <3>2 DEF Pending
      <4> QED BY <1>2, <4>1 DEF Remembered, Numbered
    <3> QED BY <3>1, <3>2
  <2>5. \A i \in DOMAIN d.puts : d.puts[i].txns = << >> => d.puts[i].write = d.puts[i].id
    BY DEF Remembered, Numbered
  <2> QED BY <2>1, <2>2, <2>3, <2>4, <2>5 DEF Numbered
<1>9. Staged(d, A \ {t}, M)
  <2> SUFFICES ASSUME NEW u \in Txns PROVE Stage(d, A \ {t}, M, u)
    BY DEF Staged
  <2>1. Stage(s, A, M, u)
    BY DEF Remembered, Staged
  <2>2. CASE u = t
    BY <1>0, <2>2 DEF Stage
  <2>3. CASE u # t
    <3>1. d.txn[u] = s.txn[u]
      BY <2>3
    <3> QED BY <2>1, <2>3, <3>1 DEF Stage
  <2> QED BY <2>2, <2>3
<1>10. Covering(d)
  <2> SUFFICES ASSUME NEW i \in DOMAIN s.puts, NEW u \in Range(s.puts[i].txns)
               PROVE  d.txn[u].path \subseteq DOMAIN s.puts[i].data
    BY DEF Covering, Covers
  <2>1. u \in Txns
    BY <1>1, RangeOfSeq DEF HasFields, IsPut
  <2>2. s.txn[u].path \subseteq DOMAIN s.puts[i].data
    BY DEF Remembered, Covering, Covers
  <2>3. ~Uncarried(s, u)
    BY DEF Uncarried, Carries
  <2> QED BY <2>1, <2>2, <2>3
<1> QED BY <1>1, <1>8, <1>9, <1>10 DEF Remembered

(* What is kept of a run of the update function is a pending write and the *)
(* state of its transaction.                                               *)
LEMMA RanFacts ==
  ASSUME NEW s, HasTransactions(s), IsSequence(s.writes), s.nextId \in Nat,
         NEW t \in Txns, NEW out
  PROVE  LET d == Ran(s, t, out)
         IN  /\ HasTransactions(d) /\ d.phase = s.phase /\ d.puts = s.puts
             /\ d.queue = s.queue /\ d.nextId = s.nextId + 1
             /\ IsSequence(d.writes) /\ Ids(d.writes) = Ids(s.writes) \cup {s.nextId}
             /\ d.txn[t].write = s.nextId /\ d.txn[t].status = "RUN"
             /\ d.txn[t].path = s.txn[t].path
             /\ \A u \in Txns : u # t => d.txn[u] = s.txn[u]
<1> DEFINE n == [s.txn[t] EXCEPT !.status = "RUN", !.out = out, !.write = s.nextId]
           e == [s EXCEPT !.txn[t].status = "RUN", !.txn[t].out = out,
                          !.txn[t].write = s.nextId]
           w == [id |-> s.nextId, data |-> out]
           d == Ran(s, t, out)
<1>1. DOMAIN s = ClientFields /\ DOMAIN s.txn = Txns /\ DOMAIN s.txn[t] = TxnFields
  BY DEF HasTransactions
<1>2. /\ n.status = "RUN" /\ n.write = s.nextId /\ n.path = s.txn[t].path
      /\ DOMAIN n = TxnFields
  BY <1>1 DEF TxnFields
<1>3. /\ DOMAIN e = ClientFields /\ e.txn = [s.txn EXCEPT ![t] = n]
      /\ e.puts = s.puts /\ e.queue = s.queue /\ e.phase = s.phase
      /\ e.nextId = s.nextId /\ e.writes = s.writes
  BY <1>1 DEF ClientFields
<1>4. d = [e EXCEPT !.writes = Append(@, [id |-> e.nextId, data |-> out]),
                    !.nextId = @ + 1]
  BY DEF Ran, ApplyUserOverwrite
<1> HIDE DEF e, n, d
<1>5. /\ DOMAIN d = ClientFields /\ d.txn = e.txn
      /\ d.puts = s.puts /\ d.queue = s.queue /\ d.phase = s.phase
      /\ d.nextId = s.nextId + 1 /\ d.writes = Append(s.writes, w)
  BY <1>3, <1>4 DEF ClientFields
<1>6. w.id = s.nextId
  OBVIOUS
<1> HIDE DEF w
<1>7. IsSequence(d.writes) /\ Ids(d.writes) = Ids(s.writes) \cup {s.nextId}
  BY <1>5, <1>6, IdsAppend
<1>8. /\ DOMAIN d.txn = Txns /\ d.txn[t] = n
      /\ \A u \in Txns : u # t => d.txn[u] = s.txn[u]
  BY <1>1, <1>3, <1>5
<1>9. HasTransactions(d)
  <2>1. \A u \in Txns : DOMAIN d.txn[u] = TxnFields
    BY <1>2, <1>8 DEF HasTransactions
  <2> QED BY <1>5, <1>8, <2>1 DEF HasTransactions
<1> QED BY <1>2, <1>5, <1>7, <1>8, <1>9 DEF d

(* One transaction of a queue is rerun, settled, or neither.               *)
LEMMA RerunRemembers ==
  ASSUME NEW s, NEW A, NEW M, Remembered(s, A, M), NEW t \in Txns, NEW ignore
  PROVE  Remembered(RerunTransaction(s, t, ignore), A \ {t}, M)
<1> DEFINE tx  == s.txn[t]
           out == Update(t, LatestState(s, tx.path, ignore))
           big == tx.retries >= MaxRetries
           few == tx.retries < MaxRetries
           d   == RerunTransaction(s, t, ignore)
           e   == AckUserWrite(Ran(s, t, out), tx.write)
<1>1. d = CASE tx.status = "NEEDS_ABORT" -> Settle(s, t, tx.reason)
            [] tx.status = "RUN" /\ big -> Settle(s, t, "maxretry")
            [] tx.status = "RUN" /\ few -> IF out = NoHash THEN Settle(s, t, "nodata") ELSE e
            [] OTHER -> s
  BY DEF RerunTransaction
<1>2. /\ HasTransactions(s) /\ s.nextId \in Nat \ {0} /\ IsSequence(s.writes)
      /\ Stage(s, A, M, t)
  BY DEF Remembered, HasFields, Staged
<1>3. NewTransaction.status = "NEW"
  BY DEF NewTransaction
<1> HIDE DEF out, big, few, d
<1>4. ASSUME NEW o PROVE Remembered(Settle(s, t, o), A \ {t}, M)
  BY SettleRemembers
<1>5. CASE tx.status = "RUN"
  <2>1. tx.write # 0 /\ tx.path # {} /\ t \in Range(s.queue)
    BY <1>2, <1>3, <1>5 DEF Stage
  <2>2. tx.write # s.nextId
    BY <1>2 DEF Remembered, Numbered
  <2> DEFINE r == Ran(s, t, out)
             K == {w \in Range(r.writes) : w.id # tx.write}
  <2>3. /\ HasTransactions(r) /\ r.phase = s.phase /\ r.puts = s.puts
        /\ r.queue = s.queue /\ r.nextId = s.nextId + 1
        /\ IsSequence(r.writes) /\ Ids(r.writes) = Ids(s.writes) \cup {s.nextId}
        /\ r.txn[t].write = s.nextId /\ r.txn[t].status = "RUN"
        /\ r.txn[t].path = tx.path
        /\ \A u \in Txns : u # t => r.txn[u] = s.txn[u]
    BY <1>2, RanFacts
  <2>4. IsSequence(Filter(r.writes, K))
        /\ Ids(Filter(r.writes, K)) = Ids(r.writes) \ {tx.write}
    BY <2>3, IdsFilter
  <2> HIDE DEF r, K
  <2>5. /\ DOMAIN e = ClientFields /\ e.phase = r.phase /\ e.puts = r.puts
        /\ e.queue = r.queue /\ e.nextId = r.nextId /\ e.txn = r.txn
        /\ e.writes = Filter(r.writes, K)
    BY <2>3 DEF AckUserWrite, HasTransactions, ClientFields, r, K
  <2> HIDE DEF e
  <2>6. HasTransactions(e)
    BY <2>3, <2>5 DEF HasTransactions
  <2>7. Ids(e.writes) = (Ids(s.writes) \ {tx.write}) \cup {s.nextId}
    BY <2>2, <2>3, <2>4, <2>5
  <2>8. Remembered(e, A \ {t}, M)
    <3>1. \A u \in Range(s.queue) \cup {t} : u \in Range(e.queue)
      BY <2>1, <2>3, <2>5
    <3> QED BY <2>1, <2>3, <2>4, <2>5, <2>6, <2>7, <3>1, Acquired
  <2>9. \/ d = Settle(s, t, "maxretry") \/ d = Settle(s, t, "nodata") \/ d = e \/ d = s
    BY <1>1, <1>5
  <2>10. Remembered(s, A \ {t}, M)
    <3>1. Staged(s, A \ {t}, M)
      BY <1>5 DEF Remembered, Staged, Stage
    <3> QED BY <3>1 DEF Remembered
  <2> QED BY <1>4, <2>8, <2>9, <2>10 DEF d
<1>6. CASE tx.status = "NEEDS_ABORT"
  <2>1. d = Settle(s, t, tx.reason)
    BY <1>1, <1>6
  <2> QED BY <1>4, <2>1 DEF d
<1>7. CASE tx.status \notin {"NEEDS_ABORT", "RUN"}
  <2>1. d = s
    BY <1>1, <1>7
  <2>2. Staged(s, A \ {t}, M)
    BY <1>7 DEF Remembered, Staged, Stage
  <2> QED BY <2>1, <2>2 DEF Remembered, d
<1> QED BY <1>5, <1>6, <1>7

(* What putInternal adds.                                                  *)
LEMMA PutFacts ==
  ASSUME NEW s, HasFields(s), NEW put, IsPut(put)
  PROVE  LET d == PutInternal(s, put)
         IN  /\ HasFields(d)
             /\ d.txn = s.txn /\ d.queue = s.queue /\ d.nextId = s.nextId
             /\ d.writes = s.writes
             /\ SetIds(d) = SetIds(s) \cup (IF put.txns = << >> THEN {put.id} ELSE {})
             /\ \A i \in DOMAIN d.puts :
                  \/ i \in DOMAIN s.puts /\ d.puts[i] = s.puts[i]
                  \/ /\ d.puts[i].id = put.id /\ d.puts[i].txns = put.txns
                     /\ d.puts[i].write = put.write /\ d.puts[i].data = put.data
<1> DEFINE d == PutInternal(s, put)
           n == Len(s.puts)
           new == IF s.phase = "open" THEN [put EXCEPT !.queued = TRUE] ELSE put
<1>1. /\ DOMAIN s = ClientFields
      /\ s.phase \in {"idle", "scheduled", "connecting", "open"} /\ IsSequence(s.puts)
  BY DEF HasFields, HasTransactions
<1>2. /\ DOMAIN d = ClientFields
      /\ d.reasons = s.reasons /\ d.online = s.online /\ d.queue = s.queue
      /\ d.txn = s.txn /\ d.nextId = s.nextId
      /\ s.phase = "open" =>
           /\ d.phase = "open"
           /\ d.up = Append(s.up, [kind |-> "put", put |-> put])
      /\ s.phase # "open" =>
           /\ \/ d.phase = s.phase
              \/ s.phase \in {"idle", "scheduled"} /\ d.phase = "scheduled"
           /\ d.up = s.up
      /\ d.puts = Append(s.puts, new)
  BY <1>1, PutInternalFields
<1>3. d.writes = s.writes
  BY <1>1 DEF PutInternal, SendPut, InitConnection, ScheduleConnect, HasRealtime,
              ClientFields
<1>4. /\ IsPut(new) /\ new.id = put.id /\ new.txns = put.txns
      /\ new.write = put.write /\ new.data = put.data
  BY DEF IsPut
<1> HIDE DEF d, new
<1>5. /\ IsSequence(d.puts) /\ n \in Nat /\ DOMAIN s.puts = 1 .. n
      /\ DOMAIN d.puts = 1 .. n + 1
      /\ \A i \in 1 .. n : d.puts[i] = s.puts[i]
      /\ d.puts[n + 1] = new
  BY <1>1, <1>2, AppendFacts
<1> HIDE DEF n
<1>6. \A i \in 1 .. n + 1 : i \in 1 .. n \/ i = n + 1
  BY <1>5
<1>7. n + 1 \in 1 .. n + 1 /\ \A i \in 1 .. n : i \in 1 .. n + 1
  BY <1>5
<1>8. HasFields(d)
  <2>1. \A i \in DOMAIN d.puts : IsPut(d.puts[i])
    BY <1>4, <1>5, <1>6 DEF HasFields
  <2>2. d.phase \in {"idle", "scheduled", "connecting", "open"}
    BY <1>1, <1>2
  <2> QED BY <1>2, <1>3, <1>5, <2>1, <2>2 DEF HasFields, HasTransactions
<1>9. SetIds(d) = SetIds(s) \cup (IF put.txns = << >> THEN {put.id} ELSE {})
  <2>1. SetIds(d) \subseteq SetIds(s) \cup (IF put.txns = << >> THEN {put.id} ELSE {})
    BY <1>4, <1>5, <1>6 DEF SetIds
  <2>2. SetIds(s) \subseteq SetIds(d)
    BY <1>5, <1>7 DEF SetIds
  <2>3. put.txns = << >> => put.id \in SetIds(d)
    BY <1>4, <1>5, <1>7 DEF SetIds
  <2> QED BY <2>1, <2>2, <2>3
<1>10. \A i \in DOMAIN d.puts :
         \/ i \in DOMAIN s.puts /\ d.puts[i] = s.puts[i]
         \/ /\ d.puts[i].id = put.id /\ d.puts[i].txns = put.txns
            /\ d.puts[i].write = put.write /\ d.puts[i].data = put.data
  BY <1>4, <1>5, <1>6
<1> QED BY <1>2, <1>3, <1>8, <1>9, <1>10 DEF d

(* A put for transactions at or below its location.                        *)
LEMMA PutRemembers ==
  ASSUME NEW s, NEW A, NEW M, Remembered(s, A, M),
         NEW put, IsPut(put), put.txns # << >>, Covers(put, s)
  PROVE  LET d == PutInternal(s, put)
         IN  Remembered(d, A, M) /\ d.txn = s.txn /\ d.queue = s.queue
<1> DEFINE d == PutInternal(s, put)
<1>1. HasFields(s)
  BY DEF Remembered
<1>2. /\ HasFields(d)
      /\ d.txn = s.txn /\ d.queue = s.queue /\ d.nextId = s.nextId
      /\ d.writes = s.writes /\ SetIds(d) = SetIds(s)
      /\ \A i \in DOMAIN d.puts :
           \/ i \in DOMAIN s.puts /\ d.puts[i] = s.puts[i]
           \/ d.puts[i].txns = put.txns /\ d.puts[i].data = put.data
  <2>1. HasFields(d)
    BY <1>1, PutFacts
  <2>2. /\ d.txn = s.txn /\ d.queue = s.queue /\ d.nextId = s.nextId
        /\ d.writes = s.writes
        /\ SetIds(d) = SetIds(s) \cup (IF put.txns = << >> THEN {put.id} ELSE {})
        /\ \A i \in DOMAIN d.puts :
             \/ i \in DOMAIN s.puts /\ d.puts[i] = s.puts[i]
             \/ /\ d.puts[i].id = put.id /\ d.puts[i].txns = put.txns
                /\ d.puts[i].write = put.write /\ d.puts[i].data = put.data
    BY <1>1, <2>1, PutFacts
  <2> HIDE DEF d
  <2> QED BY <2>1, <2>2
<1> HIDE DEF d
<1>3. Numbered(d)
  <2>1. Pending(d) = Pending(s)
    BY <1>2 DEF Pending
  <2>2. \A i \in DOMAIN d.puts : d.puts[i].txns = << >> => d.puts[i].write = d.puts[i].id
    BY <1>2 DEF Remembered, Numbered
  <2> QED BY <1>2, <2>1, <2>2 DEF Remembered, Numbered
<1>4. Staged(d, A, M)
  BY <1>2 DEF Remembered, Staged, Stage
<1>5. Covering(d)
  <2> SUFFICES ASSUME NEW i \in DOMAIN d.puts PROVE Covers(d.puts[i], d)
    BY DEF Covering
  <2>1. CASE i \in DOMAIN s.puts /\ d.puts[i] = s.puts[i]
    BY <1>2, <2>1 DEF Remembered, Covering, Covers
  <2>2. CASE d.puts[i].txns = put.txns /\ d.puts[i].data = put.data
    BY <1>2, <2>2 DEF Covers
  <2> QED BY <1>2, <2>1, <2>2
<1> QED BY <1>2, <1>3, <1>4, <1>5 DEF Remembered, d

(* The loop that lays the results of transactions over the latest state.   *)
LayOver(d, t, p) == Over(p.txn[t].out, d)

LaidSoFar(d, i, p) == p.path \subseteq DOMAIN d

Laying == INSTANCE FoldTheorems WITH Op <- LayOver, Inv <- LaidSoFar

(* A put for transactions has data at its whole location.                  *)
LEMMA ResultsDomain ==
  ASSUME NEW s, NEW data, NEW queue \in Seq(Txns)
  PROVE  DOMAIN data \subseteq DOMAIN Results(s, data, queue)
<1> DEFINE p == [txn |-> s.txn, path |-> DOMAIN data]
<1>0. p.txn = s.txn /\ p.path = DOMAIN data
  OBVIOUS
<1> HIDE DEF p
<1>1. Results(s, data, queue) = Laying!Run(data, queue, p)
  BY <1>0 DEF Results, LayOver, FoldLeft, MapThenFoldSet, Max, Laying!Run,
         Laying!Last
<1>2. ASSUME NEW i \in 1 .. Len(queue), NEW d, LaidSoFar(d, i - 1, p)
      PROVE  LaidSoFar(LayOver(d, queue[i], p), i, p)
  <2>1. DOMAIN LayOver(d, queue[i], p) = DOMAIN p.txn[queue[i]].out \cup DOMAIN d
    BY DEF LayOver, Over
  <2> QED BY <1>2, <2>1 DEF LaidSoFar
<1>3. LaidSoFar(data, 0, p)
  BY <1>0 DEF LaidSoFar
<1>4. LaidSoFar(Laying!Run(data, queue, p), Len(queue), p)
  BY <1>2, <1>3, Laying!FoldKeeps
<1> QED BY <1>0, <1>1, <1>4 DEF LaidSoFar

(* A put for transactions that are all run, at or below its location.      *)
LEMMA SendRemembers ==
  ASSUME NEW s, NEW A, NEW M, Remembered(s, A, M),
         NEW path, NEW queue \in Seq(Txns), queue # << >>,
         \A i \in DOMAIN queue : Status(s, queue[i]) = "RUN",
         \A t \in Range(queue) : s.txn[t].path \subseteq path
  PROVE  LET d == SendTransactionQueue(s, path, queue)
         IN  /\ Remembered(d, A, M) /\ d.queue = s.queue
             /\ \A t \in Txns : d.txn[t].path = s.txn[t].path
<1> DEFINE latest == LatestState(s, path, WritesOf(s, queue))
           data == Results(s, latest, queue)
           sent == MarkSent(s, queue)
           put  == [id |-> s.nextId, data |-> data, hash |-> latest,
                    txns |-> queue, write |-> 0, queued |-> FALSE]
           d == SendTransactionQueue(s, path, queue)
<1>1. d = PutInternal(sent, put)
  BY DEF SendTransactionQueue, SendResults
<1>2. /\ HasFields(s) /\ HasTransactions(s) /\ s.nextId \in Nat \ {0}
  BY DEF Remembered, HasFields
<1>3. /\ IsPut(put) /\ put.txns = queue /\ put.data = data
  BY <1>2 DEF IsPut
<1>4. path \subseteq DOMAIN data
  <2>1. DOMAIN latest = path
    BY DEF LatestState, At
  <2> HIDE DEF latest
  <2> QED BY <2>1, ResultsDomain
<1> HIDE DEF data, put, latest
<1>5. /\ DOMAIN sent = ClientFields /\ sent.phase = s.phase /\ sent.puts = s.puts
      /\ sent.queue = s.queue /\ sent.writes = s.writes /\ sent.nextId = s.nextId + 1
      /\ sent.txn = [t \in Txns |->
           IF t \in Range(queue)
             THEN [s.txn[t] EXCEPT !.status = "SENT", !.retries = @ + 1] ELSE s.txn[t]]
  BY <1>2 DEF MarkSent, HasTransactions, ClientFields
<1> HIDE DEF sent
<1>6. ASSUME NEW t \in Txns
      PROVE  /\ DOMAIN sent.txn[t] = TxnFields
             /\ sent.txn[t].write = s.txn[t].write /\ sent.txn[t].path = s.txn[t].path
             /\ t \in Range(queue) => sent.txn[t].status = "SENT" /\ s.txn[t].status = "RUN"
             /\ t \notin Range(queue) => sent.txn[t] = s.txn[t]
  <2>1. DOMAIN s.txn[t] = TxnFields
    BY <1>2 DEF HasTransactions
  <2>2. CASE t \in Range(queue)
    <3>1. sent.txn[t] = [s.txn[t] EXCEPT !.status = "SENT", !.retries = @ + 1]
      BY <1>5, <2>2
    <3>2. s.txn[t].status = "RUN"
      BY <2>2 DEF Range, Status
    <3> QED BY <2>1, <2>2, <3>1, <3>2 DEF TxnFields
  <2>3. CASE t \notin Range(queue)
    <3>1. sent.txn[t] = s.txn[t]
      BY <1>5, <2>3
    <3> QED BY <2>1, <2>3, <3>1
  <2> QED BY <2>2, <2>3
<1>7. HasFields(sent)
  <2>1. DOMAIN sent.txn = Txns
    BY <1>5
  <2>2. HasTransactions(sent)
    <3>1. DOMAIN sent = ClientFields /\ sent.queue \in Seq(Txns)
      BY <1>2, <1>5 DEF HasTransactions
    <3>2. \A t \in Txns : DOMAIN sent.txn[t] = TxnFields
      BY <1>6
    <3> QED BY <2>1, <3>1, <3>2 DEF HasTransactions
  <2>3. sent.nextId = s.nextId + 1 /\ s.nextId \in Nat
    BY <1>2, <1>5
  <2>4. sent.nextId \in Nat \ {0}
    BY <2>3
  <2>5. sent.phase = s.phase /\ sent.puts = s.puts /\ sent.writes = s.writes
    BY <1>5
  <2> QED BY <1>2, <2>2, <2>4, <2>5 DEF HasFields
<1>8. Numbered(sent)
  <2>0. sent.nextId = s.nextId + 1
    BY <1>5
  <2>1. SetIds(sent) = SetIds(s)
    BY <1>5 DEF SetIds
  <2>2. Pending(sent) = Pending(s)
    BY <1>6 DEF Pending
  <2>3. {sent.txn[t].write : t \in Pending(sent)} = {s.txn[t].write : t \in Pending(s)}
    BY <1>6, <2>2 DEF Pending
  <2>4. \A k \in 0 .. s.nextId - 1 : k \in 0 .. sent.nextId - 1
    BY <1>2, <2>0
  <2>5. \A k \in 1 .. s.nextId - 1 : k \in 1 .. sent.nextId - 1
    BY <1>2, <2>0
  <2>6. \A t \in Txns : sent.txn[t].write \in 0 .. sent.nextId - 1
    BY <1>6, <2>4 DEF Remembered, Numbered
  <2>7. SetIds(sent) \subseteq 1 .. sent.nextId - 1
    BY <2>1, <2>5 DEF Remembered, Numbered
  <2>8. \A t \in Pending(sent) :
          /\ sent.txn[t].write \notin SetIds(sent)
          /\ \A u \in Txns : sent.txn[u].write = sent.txn[t].write => u = t
    <3>1. \A t \in Pending(s) :
            /\ s.txn[t].write \notin SetIds(s)
            /\ \A u \in Txns : s.txn[u].write = s.txn[t].write => u = t
      BY DEF Remembered, Numbered
    <3>2. \A t \in Pending(s) : t \in Txns
      BY DEF Pending
    <3> QED BY <1>6, <2>1, <2>2, <3>1, <3>2
  <2>9. Ids(sent.writes) = {sent.txn[t].write : t \in Pending(sent)} \cup SetIds(sent)
    BY <1>5, <2>1, <2>3 DEF Remembered, Numbered
  <2>10. \A i \in DOMAIN sent.puts :
           sent.puts[i].txns = << >> => sent.puts[i].write = sent.puts[i].id
    BY <1>5 DEF Remembered, Numbered
  <2> QED BY <2>6, <2>7, <2>8, <2>9, <2>10 DEF Numbered
<1>9. Staged(sent, A, M)
  <2> SUFFICES ASSUME NEW t \in Txns PROVE Stage(sent, A, M, t)
    BY DEF Staged
  <2>1. Stage(s, A, M, t)
    BY DEF Remembered, Staged
  <2>2. NewTransaction.status = "NEW"
    BY DEF NewTransaction
  <2>3. CASE t \in Range(queue)
    BY <1>5, <1>6, <2>1, <2>2, <2>3 DEF Stage
  <2>4. CASE t \notin Range(queue)
    BY <1>5, <1>6, <2>1, <2>4 DEF Stage
  <2> QED BY <2>3, <2>4
<1>10. Covering(sent)
  <2> SUFFICES ASSUME NEW i \in DOMAIN s.puts, NEW t \in Range(s.puts[i].txns)
               PROVE  sent.txn[t].path \subseteq DOMAIN s.puts[i].data
    BY <1>5 DEF Covering, Covers
  <2>1. t \in Txns
    BY <1>2, RangeOfSeq DEF HasFields, IsPut
  <2> QED BY <1>6, <2>1 DEF Remembered, Covering, Covers
<1>11. Remembered(sent, A, M)
  BY <1>7, <1>8, <1>9, <1>10 DEF Remembered
<1>12. Covers(put, sent)
  <2> SUFFICES ASSUME NEW t \in Range(queue) PROVE sent.txn[t].path \subseteq DOMAIN data
    BY <1>3 DEF Covers
  <2>1. t \in Txns /\ s.txn[t].path \subseteq path
    BY RangeOfSeq
  <2> QED BY <1>4, <1>6, <2>1
<1>13. Remembered(d, A, M) /\ d.txn = sent.txn /\ d.queue = sent.queue
  BY <1>1, <1>3, <1>11, <1>12, PutRemembers
<1> HIDE DEF d
<1>14. d.queue = s.queue /\ \A t \in Txns : d.txn[t].path = s.txn[t].path
  BY <1>5, <1>6, <1>13
<1> QED BY <1>13, <1>14 DEF d

(* The loop of repoSendReadyTransactions.                                  *)
ReadySoFar(d, i, p) ==
  /\ Remembered(d, p.aborts, p.marks) /\ d.queue = p.base.queue
  /\ \A t \in Txns : d.txn[t].path = p.base.txn[t].path

Readying == INSTANCE FoldTheorems WITH Op <- SendTop, Inv <- ReadySoFar

(* Every topmost queue that is all run is sent.                            *)
LEMMA SendReadyRemembers ==
  ASSUME NEW s, NEW A, NEW M, Remembered(s, A, M)
  PROVE  Remembered(SendReadyTransactions(s), A, M)
<1> DEFINE tops == {p \in Paths : HasQueue(s, p) /\ AncestorWithQueue(s, p) = p}
           w == SetToSeq(tops)
           p == [base |-> s, aborts |-> A, marks |-> M]
<1>0. p.base = s /\ p.aborts = A /\ p.marks = M
  OBVIOUS
<1> HIDE DEF p
<1>1. w \in Seq(tops)
  BY FinitelyManyPaths, FS_Subset, SetToSeqFacts
<1>2. SendReadyTransactions(s) = Readying!Run(s, w, p)
  BY DEF SendReadyTransactions, SendTop, FoldLeft, MapThenFoldSet, Max, Readying!Run,
         Readying!Last
<1>3. s.queue \in Seq(Txns) /\ IsSequence(s.queue)
  BY DEF Remembered, HasFields, HasTransactions, IsSequence
<1> HIDE DEF w
<1>4. ASSUME NEW i \in 1 .. Len(w), NEW d, ReadySoFar(d, i - 1, p)
      PROVE  ReadySoFar(SendTop(d, w[i], p), i, p)
  <2> DEFINE top == w[i]
             queue == QueueBelow(d, top)
             K == {t \in Txns : d.txn[t].path \subseteq top}
  <2>1. HasQueue(s, top)
    BY <1>1
  <2> HIDE DEF top
  <2>2. /\ Remembered(d, A, M) /\ d.queue = s.queue
        /\ \A t \in Txns : d.txn[t].path = s.txn[t].path
    BY <1>0, <1>4 DEF ReadySoFar
  <2>3. queue = Filter(s.queue, K)
    BY <2>2 DEF QueueBelow
  <2>4. queue \in Seq(Txns)
    BY <1>3, <2>2, QueueFacts
  <2> HIDE DEF queue, K
  <2>5. \A t \in Range(queue) : d.txn[t].path \subseteq top
    <3>1. \A t \in Range(queue) : t \in K
      BY <1>3, <2>3, FilterRange
    <3> QED BY <3>1 DEF K
  <2>6. queue # << >>
    <3> DEFINE at == QueueAt(s, top)
               L == {t \in Txns : s.txn[t].path = top}
    <3>1. at # << >> /\ at \in Seq(Txns) /\ at = Filter(s.queue, L)
      BY <1>3, <2>1, QueueFacts DEF HasQueue, QueueAt
    <3> HIDE DEF at
    <3>2. at[1] \in Range(at)
      <4>1. Len(at) \in Nat \ {0} /\ DOMAIN at = 1 .. Len(at)
        BY <3>1, LenProperties, EmptySeq
      <4>2. 1 \in DOMAIN at
        BY <4>1
      <4> QED BY <4>2 DEF Range
    <3> HIDE DEF L
    <3>3. at[1] \in Range(s.queue) /\ at[1] \in L
      BY <1>3, <3>1, <3>2, FilterRange
    <3>4. at[1] \in K
      BY <2>2, <3>3 DEF K, L
    <3>5. at[1] \in Range(queue)
      BY <1>3, <2>3, <3>3, <3>4, FilterRange
    <3>6. Range(<< >>) = {}
      BY DEF Range
    <3> QED BY <3>5, <3>6
  <2>7. CASE \A j \in DOMAIN queue : Status(d, queue[j]) = "RUN"
    <3> DEFINE e == SendTransactionQueue(d, top, queue)
    <3>1. Remembered(e, A, M) /\ e.queue = d.queue
          /\ \A t \in Txns : e.txn[t].path = d.txn[t].path
      BY <2>2, <2>4, <2>5, <2>6, <2>7, SendRemembers
    <3>2. SendTop(d, top, p) = e
      BY <2>7 DEF SendTop, queue
    <3> HIDE DEF e
    <3> QED BY <1>0, <2>2, <3>1, <3>2 DEF ReadySoFar, top
  <2>8. CASE ~\A j \in DOMAIN queue : Status(d, queue[j]) = "RUN"
    <3>1. SendTop(d, top, p) = d
      BY <2>8 DEF SendTop, queue
    <3> QED BY <1>0, <2>2, <3>1 DEF ReadySoFar, top
  <2> QED BY <2>7, <2>8
<1>5. ReadySoFar(s, 0, p)
  BY <1>0 DEF ReadySoFar
<1>6. ReadySoFar(Readying!Run(s, w, p), Len(w), p)
  BY <1>1, <1>4, <1>5, Readying!FoldKeeps
<1> QED BY <1>0, <1>2, <1>6 DEF ReadySoFar

(* The loop of repoRerunTransactionQueue.                                  *)
RerunYet(d, i, p) ==
  Remembered(d, Range(p.queue) \ {p.queue[j] : j \in 1 .. i}, p.marks)

Repeating == INSTANCE FoldTheorems WITH Op <- RerunStep, Inv <- RerunYet

(* All transactions of a queue are rerun, and none of it is left to abort. *)
LEMMA RerunQueueRemembers ==
  ASSUME NEW s, NEW M, NEW queue \in Seq(Txns), Remembered(s, Range(queue), M)
  PROVE  Remembered(RerunTransactionQueue(s, queue), {}, M)
<1> DEFINE p == [queue |-> queue, marks |-> M]
           w == [i \in DOMAIN queue |-> i]
           ToRerun(d, from) ==
             WritesOf(d, Filter(SubSeq(queue, from, Len(queue)),
                                {t \in Txns : Status(d, t) = "RUN"}))
           Step(d, i) == RerunTransaction(d, queue[i], ToRerun(d, i))
           r == FoldLeft(Step, s, w)
<1>0. p.queue = queue /\ p.marks = M
  OBVIOUS
<1>1. /\ Len(queue) \in Nat /\ DOMAIN queue = 1 .. Len(queue)
      /\ \A i \in 1 .. Len(queue) : queue[i] \in Txns
  BY LenProperties
<1>2. /\ w \in Seq(DOMAIN queue) /\ Len(w) = Len(queue)
      /\ \A i \in 1 .. Len(queue) : w[i] = i
  BY <1>1, LenProperties
<1> HIDE DEF p, w
<1>3. r = Repeating!Run(s, w, p)
  BY <1>0 DEF RerunStep, FoldLeft, MapThenFoldSet, Max, Repeating!Run,
         Repeating!Last
<1>4. RerunTransactionQueue(s, queue) =
        IF queue = << >> THEN s ELSE SendReadyTransactions(Prune(r))
  BY DEF RerunTransactionQueue, FoldLeft, MapThenFoldSet, Max, w
<1> HIDE DEF r
<1>5. ASSUME NEW i \in 1 .. Len(w), NEW d, RerunYet(d, i - 1, p)
      PROVE  RerunYet(RerunStep(d, w[i], p), i, p)
  <2> DEFINE B == Range(queue) \ {queue[j] : j \in 1 .. i - 1}
             e == RerunStep(d, w[i], p)
  <2>1. queue[i] \in Txns /\ w[i] = i
    BY <1>1, <1>2, <1>5
  <2>2. Remembered(d, B, M)
    BY <1>0, <1>5 DEF RerunYet
  <2>3. B \ {queue[i]} = Range(queue) \ {queue[j] : j \in 1 .. i}
    <3>1. /\ i \in 1 .. i /\ \A j \in 1 .. i - 1 : j \in 1 .. i
          /\ \A j \in 1 .. i : j \in 1 .. i - 1 \/ j = i
      BY <1>1, <1>2
    <3> QED BY <3>1
  <2> HIDE DEF B
  <2>4. Remembered(e, B \ {queue[i]}, M)
    BY <1>0, <2>1, <2>2, RerunRemembers DEF RerunStep
  <2> HIDE DEF e
  <2> QED BY <1>0, <2>3, <2>4 DEF RerunYet, e
<1>6. RerunYet(s, 0, p)
  <2>1. {queue[j] : j \in 1 .. 0} = {}
    OBVIOUS
  <2>2. Range(queue) \ {} = Range(queue)
    OBVIOUS
  <2> QED BY <1>0, <2>1, <2>2 DEF RerunYet
<1>7. RerunYet(r, Len(w), p)
  BY <1>2, <1>3, <1>5, <1>6, Repeating!FoldKeeps
<1>8. Range(queue) \ {queue[j] : j \in 1 .. Len(queue)} = {}
  BY <1>1 DEF Range
<1>9. Remembered(r, {}, M)
  <2>1. Remembered(r, Range(queue) \ {queue[j] : j \in 1 .. Len(w)}, M)
    BY <1>0, <1>7 DEF RerunYet
  <2>2. Range(queue) \ {queue[j] : j \in 1 .. Len(w)} = {}
    BY <1>2, <1>8
  <2> QED BY <2>1, <2>2
<1>10. CASE queue = << >>
  <2>1. Range(queue) = {}
    BY <1>10 DEF Range
  <2> QED BY <1>4, <1>10, <2>1
<1>11. CASE queue # << >>
  BY <1>4, <1>9, <1>11, PruneRemembers, SendReadyRemembers
<1> QED BY <1>10, <1>11

(* Less may be aborted as long as all that is to be aborted is there.      *)
LEMMA RememberedLess ==
  ASSUME NEW s, NEW A, NEW B, NEW M, Remembered(s, A, M),
         \A t \in Txns : s.txn[t].status = "NEEDS_ABORT" => t \in B
  PROVE  Remembered(s, B, M)
BY DEF Remembered, Staged, Stage

AllAbove(paths, D) == \A p \in paths : D \subseteq p

(* Of locations above a common one that is not empty, one is above all.    *)
LEMMA TopOfChain ==
  ASSUME NEW D, D # {}, NEW above \in SUBSET Paths, above # {}, AllAbove(above, D)
  PROVE  \E p \in above : \A q \in above : q \subseteq p
<1> DEFINE w == SetToSeq(above)
           n == Len(w)
<1>1. IsFiniteSet(above)
  BY FinitelyManyPaths, FS_Subset
<1>2. w \in Seq(above) /\ Range(w) = above
  BY <1>1, SetToSeqFacts
<1> HIDE DEF w
<1>3. n \in Nat /\ DOMAIN w = 1 .. n /\ \A i \in 1 .. n : w[i] \in above
  BY <1>2, LenProperties
<1> HIDE DEF n
<1>4. \A p, q \in above : p \subseteq q \/ q \subseteq p
  <2> SUFFICES ASSUME NEW p \in above, NEW q \in above PROVE p \subseteq q \/ q \subseteq p
    OBVIOUS
  <2>1. D \subseteq p /\ D \subseteq q
    BY DEF AllAbove
  <2>2. p \cap q # {}
    BY <2>1
  <2> QED BY <2>2, PathsNest
<1> DEFINE P(k) == k = 0 \/ \E p \in above : \A i \in 1 .. k : w[i] \subseteq p
           T == {k \in 0 .. n : P(k)}
<1>5. 0 \in T
  BY <1>3
<1>6. ASSUME NEW k \in 1 .. n, k - 1 \in T PROVE k \in T
  <2>1. k \in 0 .. n /\ w[k] \in above /\ \A i \in 1 .. k : i \in 1 .. k - 1 \/ i = k
    BY <1>3
  <2>2. CASE k - 1 = 0
    <3>1. \A i \in 1 .. k : i = k
      BY <2>2
    <3>2. P(k)
      BY <2>1, <3>1
    <3> HIDE DEF P
    <3> QED BY <2>1, <3>2
  <2>3. CASE k - 1 # 0
    <3>1. PICK p \in above : \A i \in 1 .. k - 1 : w[i] \subseteq p
      BY <1>6, <2>3
    <3>2. p \subseteq w[k] \/ w[k] \subseteq p
      BY <1>4, <2>1
    <3>3. P(k)
      <4>1. CASE w[k] \subseteq p
        <5>1. \A i \in 1 .. k : w[i] \subseteq p
          BY <2>1, <3>1, <4>1
        <5> QED BY <5>1
      <4>2. CASE p \subseteq w[k]
        <5>1. \A i \in 1 .. k : w[i] \subseteq w[k]
          BY <2>1, <3>1, <4>2
        <5> QED BY <2>1, <5>1
      <4> QED BY <3>2, <4>1, <4>2
    <3> HIDE DEF P
    <3> QED BY <2>1, <3>3
  <2> QED BY <2>2, <2>3
<1> HIDE DEF T
<1>7. n \in T
  BY <1>3, <1>5, <1>6, AtTheEnd
<1>8. n # 0
  BY <1>2, <1>3 DEF Range
<1>9. PICK p \in above : \A i \in 1 .. n : w[i] \subseteq p
  BY <1>7, <1>8 DEF T
<1>10. \A q \in above : q \subseteq p
  BY <1>2, <1>3, <1>9 DEF Range
<1> QED BY <1>10

(* repoGetAncestorTransactionNode returns a location at or above its       *)
(* argument.                                                               *)
LEMMA AncestorAbove ==
  ASSUME NEW s, NEW D, D # {}
  PROVE  D \subseteq AncestorWithQueue(s, D)
<1> DEFINE above == {p \in Paths : D \subseteq p /\ HasQueue(s, p)}
           top == CHOOSE p \in above : \A q \in above : q \subseteq p
<1>1. AncestorWithQueue(s, D) = IF above = {} THEN D ELSE top
  BY DEF AncestorWithQueue
<1>2. CASE above = {}
  BY <1>1, <1>2
<1>3. CASE above # {}
  <2>1. above \in SUBSET Paths /\ AllAbove(above, D)
    BY DEF AllAbove
  <2> HIDE DEF above, top
  <2>2. \E p \in above : \A q \in above : q \subseteq p
    BY <1>3, <2>1, TopOfChain
  <2>3. top \in above
    BY <2>2 DEF top
  <2> QED BY <1>1, <1>3, <2>1, <2>3 DEF AllAbove
<1> QED BY <1>2, <1>3

(* What is to be aborted at or below a location is aborted when it is      *)
(* rerun.                                                                  *)
LEMMA RerunAllRemembers ==
  ASSUME NEW s, NEW A, NEW M, Remembered(s, A, M), NEW D,
         \A t \in Txns : s.txn[t].status = "NEEDS_ABORT" => s.txn[t].path \subseteq D
  PROVE  Remembered(RerunTransactions(s, D), {}, M)
<1> DEFINE top == AncestorWithQueue(s, D)
           K == {t \in Txns : s.txn[t].path \subseteq top}
           queue == QueueBelow(s, top)
<1>1. s.queue \in Seq(Txns) /\ IsSequence(s.queue)
  BY DEF Remembered, HasFields, HasTransactions, IsSequence
<1>2. queue \in Seq(Txns)
  BY <1>1, QueueFacts
<1>3. \A t \in Range(s.queue) : t \in K => t \in Range(queue)
  <2>1. queue = Filter(s.queue, K)
    BY DEF QueueBelow
  <2> HIDE DEF K, queue
  <2> QED BY <1>1, <2>1, FilterRange
<1>4. RerunTransactions(s, D) = RerunTransactionQueue(s, queue)
  BY DEF RerunTransactions
<1> HIDE DEF queue
<1>5. ASSUME NEW t \in Txns, s.txn[t].status = "NEEDS_ABORT" PROVE t \in Range(queue)
  <2>0. Stage(s, A, M, t) /\ NewTransaction.status = "NEW"
    BY DEF Remembered, Staged, NewTransaction
  <2>1. t \in Range(s.queue) /\ s.txn[t].path # {}
    BY <1>5, <2>0 DEF Stage
  <2>2. s.txn[t].path \subseteq D /\ D # {}
    BY <1>5, <2>1
  <2>3. D \subseteq top
    BY <2>2, AncestorAbove
  <2> HIDE DEF top
  <2>4. t \in K
    BY <2>2, <2>3
  <2> QED BY <1>3, <2>1, <2>4
<1>6. Remembered(s, Range(queue), M)
  BY <1>5, RememberedLess
<1> QED BY <1>2, <1>4, <1>6, RerunQueueRemembers

(* A change of what is to become of transactions.                          *)
LEMMA Restaged ==
  ASSUME NEW s, NEW A, NEW M, Remembered(s, A, M),
         NEW d, HasTransactions(d), d.phase = s.phase, d.puts = s.puts,
         d.nextId = s.nextId, d.writes = s.writes,
         \A t \in Txns : d.txn[t].write = s.txn[t].write /\ d.txn[t].path = s.txn[t].path,
         NEW B, NEW N, Staged(d, B, N)
  PROVE  Remembered(d, B, N)
<1>1. HasFields(d)
  BY DEF Remembered, HasFields
<1>2. SetIds(d) = SetIds(s) /\ Pending(d) = Pending(s)
  BY DEF SetIds, Pending
<1>3. {d.txn[t].write : t \in Pending(d)} = {s.txn[t].write : t \in Pending(s)}
  BY <1>2 DEF Pending
<1>4. Numbered(d)
  <2>1. \A t \in Pending(d) : /\ d.txn[t].write \notin SetIds(d)
                              /\ \A u \in Txns : d.txn[u].write = d.txn[t].write => u = t
    BY <1>2 DEF Remembered, Numbered, Pending
  <2> QED BY <1>2, <1>3, <2>1 DEF Remembered, Numbered
<1>5. Covering(d)
  <2> SUFFICES ASSUME NEW i \in DOMAIN s.puts, NEW t \in Range(s.puts[i].txns)
               PROVE  d.txn[t].path \subseteq DOMAIN s.puts[i].data
    BY DEF Covering, Covers
  <2>1. t \in Txns
    BY <1>1, RangeOfSeq DEF HasFields, IsPut
  <2> QED BY <2>1 DEF Remembered, Covering, Covers
<1> QED BY <1>1, <1>4, <1>5 DEF Remembered

(* What is sent is marked.                                                 *)
LEMMA MarkRemembers ==
  ASSUME NEW s, NEW M, Remembered(s, {}, M), NEW ts,
         \A t \in ts : t \in Txns /\ s.txn[t].status = "SENT"
  PROVE  LET m == MarkForAbort(s, ts)
         IN  /\ Remembered(m, {}, M \cup ts) /\ m.queue = s.queue
             /\ \A t \in Txns : /\ m.txn[t].path = s.txn[t].path
                                /\ t \notin ts => m.txn[t] = s.txn[t]
<1> DEFINE m == MarkForAbort(s, ts)
<1>1. HasFields(s)
  BY DEF Remembered
<1>2. /\ DOMAIN m = ClientFields /\ m.phase = s.phase /\ m.puts = s.puts
      /\ m.queue = s.queue /\ m.writes = s.writes /\ m.nextId = s.nextId
      /\ m.txn = [t \in Txns |->
            IF t \in ts THEN [s.txn[t] EXCEPT !.status = "SENT_NEEDS_ABORT", !.reason = "set"]
            ELSE s.txn[t]]
  BY <1>1 DEF MarkForAbort, HasFields, HasTransactions, ClientFields
<1> HIDE DEF m
<1>3. ASSUME NEW t \in Txns
      PROVE  /\ DOMAIN m.txn[t] = TxnFields
             /\ m.txn[t].write = s.txn[t].write /\ m.txn[t].path = s.txn[t].path
             /\ t \in ts => m.txn[t].status = "SENT_NEEDS_ABORT"
             /\ t \notin ts => m.txn[t] = s.txn[t]
  <2>1. DOMAIN s.txn[t] = TxnFields
    BY <1>1 DEF HasFields, HasTransactions
  <2>2. CASE t \in ts
    <3>1. m.txn[t] = [s.txn[t] EXCEPT !.status = "SENT_NEEDS_ABORT", !.reason = "set"]
      BY <1>2, <2>2
    <3> QED BY <2>1, <2>2, <3>1 DEF TxnFields
  <2>3. CASE t \notin ts
    <3>1. m.txn[t] = s.txn[t]
      BY <1>2, <2>3
    <3> QED BY <2>1, <2>3, <3>1
  <2> QED BY <2>2, <2>3
<1>4. HasTransactions(m)
  <2>1. DOMAIN m.txn = Txns
    BY <1>2
  <2>2. DOMAIN m = ClientFields /\ m.queue = s.queue
    BY <1>2
  <2> QED BY <1>1, <1>3, <2>1, <2>2 DEF HasFields, HasTransactions
<1>5. Staged(m, {}, M \cup ts)
  <2> SUFFICES ASSUME NEW t \in Txns PROVE Stage(m, {}, M \cup ts, t)
    BY DEF Staged
  <2>1. Stage(s, {}, M, t) /\ m.queue = s.queue
    BY <1>2 DEF Remembered, Staged
  <2>2. NewTransaction.status = "NEW"
    BY DEF NewTransaction
  <2>3. CASE t \in ts
    BY <1>3, <2>1, <2>2, <2>3 DEF Stage
  <2>4. CASE t \notin ts
    BY <1>3, <2>1, <2>4 DEF Stage
  <2> QED BY <2>3, <2>4
<1>6. /\ m.phase = s.phase /\ m.puts = s.puts /\ m.queue = s.queue
      /\ m.writes = s.writes /\ m.nextId = s.nextId
  BY <1>2
<1>7. Remembered(m, {}, M \cup ts)
  BY <1>3, <1>4, <1>5, <1>6, Restaged
<1> QED BY <1>3, <1>6, <1>7 DEF m

(* Where nothing is marked before, nothing that a put still carries falls  *)
(* out of the queue.                                                       *)
LEMMA AbortNodeRemembers ==
  ASSUME NEW s, NEW M, Remembered(s, {}, M), NEW path,
         \A t \in M : t \in Txns => s.txn[t].path # path,
         NEW N, \A t \in M : t \in N,
         \A t \in Txns : s.txn[t].path = path => t \in N
  PROVE  LET d == AbortTransactionsOnNode(s, path)
         IN  /\ Remembered(d, {}, N)
             /\ \A t \in Txns : d.txn[t].path = s.txn[t].path
<1> DEFINE here == {t \in Txns : s.txn[t].path = path}
           queue == QueueAt(s, path)
           SentOnes == {t \in Txns : Status(s, t) = "SENT"}
           RunOnes == {t \in Txns : Status(s, t) = "RUN"}
           sent == Filter(queue, SentOnes)
           run  == Filter(queue, RunOnes)
           K == Txns \ (IF sent = << >> THEN Range(queue) ELSE Range(run))
           m == MarkForAbort(s, Range(sent))
           a == SettleAll(m, run, "set")
           d == AbortTransactionsOnNode(s, path)
<1>1. d = [a EXCEPT !.queue = Filter(@, K)]
  BY DEF AbortTransactionsOnNode, AbortQueue, WithStatus
<1>2. s.queue \in Seq(Txns) /\ IsSequence(s.queue)
  BY DEF Remembered, HasFields, HasTransactions, IsSequence
<1>3. queue = Filter(s.queue, here)
  BY DEF QueueAt
<1>4. queue \in Seq(Txns) /\ IsSequence(queue)
  BY <1>2, QueueFacts DEF IsSequence
<1>5. \A t : t \in Range(queue) <=> t \in Range(s.queue) /\ t \in here
  <2> HIDE DEF here, queue
  <2> QED BY <1>2, <1>3, FilterRange
<1> HIDE DEF queue
<1>6. /\ run \in Seq(Txns) /\ sent \in Seq(Txns)
      /\ \A t : t \in Range(run) <=> t \in Range(queue) /\ t \in RunOnes
      /\ \A t : t \in Range(sent) <=> t \in Range(queue) /\ t \in SentOnes
  <2> HIDE DEF RunOnes, SentOnes
  <2> QED BY <1>4, FilterType, FilterRange
<1> HIDE DEF run, sent, d
<1>7. /\ \A t \in Range(sent) : t \in Txns /\ s.txn[t].status = "SENT" /\ t \in here
      /\ \A t \in Range(run) : t \in Txns /\ s.txn[t].status = "RUN"
  BY <1>5, <1>6 DEF Status
<1>8. /\ Remembered(m, {}, M \cup Range(sent)) /\ m.queue = s.queue
      /\ \A t \in Txns : /\ m.txn[t].path = s.txn[t].path
                         /\ t \notin Range(sent) => m.txn[t] = s.txn[t]
  <2>1. Remembered(m, {}, M \cup Range(sent))
    BY <1>7, MarkRemembers
  <2>2. /\ m.queue = s.queue
        /\ \A t \in Txns : /\ m.txn[t].path = s.txn[t].path
                           /\ t \notin Range(sent) => m.txn[t] = s.txn[t]
    BY <1>7, <2>1, MarkRemembers
  <2> QED BY <2>1, <2>2
<1> HIDE DEF m
<1>9. Remembered(m, {}, N)
  <2>1. \A t \in M \cup Range(sent) : t \in N
    BY <1>7
  <2> QED BY <1>8, <2>1, RememberedMore
<1>10. /\ Remembered(a, {}, N) /\ a.queue = m.queue
       /\ \A t \in Range(run) : a.txn[t].write = 0
       /\ \A u \in Txns : /\ a.txn[u].path = m.txn[u].path
                          /\ u \notin Range(run) => a.txn[u] = m.txn[u]
  <2> DEFINE none == {}
  <2>1. run \in Seq(Txns) /\ Remembered(m, none, N)
    BY <1>6, <1>9
  <2>2. none \ Range(run) = {}
    OBVIOUS
  <2> HIDE DEF none
  <2>3. Remembered(a, none \ Range(run), N) /\ OnlySettled(m, a, run)
    BY <2>1, SettleAllRemembers
  <2> HIDE DEF a
  <2> QED BY <2>2, <2>3 DEF OnlySettled
<1> HIDE DEF a
<1>11. ASSUME NEW t \in Pending(a) PROVE t \in K
  <2>1. t \in Txns /\ t \notin Range(run)
    BY <1>10 DEF Pending
  <2>2. CASE sent # << >>
    BY <2>1, <2>2
  <2>3. CASE sent = << >>
    <3>1. Range(sent) = {}
      BY <2>3 DEF Range
    <3>2. a.txn[t] = s.txn[t]
      BY <1>8, <1>10, <2>1, <3>1
    <3>3. s.txn[t].status \in {"RUN", "SENT", "SENT_NEEDS_ABORT", "NEEDS_ABORT"}
          /\ s.txn[t].status # "NEEDS_ABORT"
          /\ (s.txn[t].status = "SENT_NEEDS_ABORT" => t \in M)
      BY <2>1, <3>2 DEF Pending, Remembered, Staged, Stage
    <3>4. t \notin Range(queue)
      <4> SUFFICES ASSUME t \in Range(queue) PROVE FALSE
        OBVIOUS
      <4>1. s.txn[t].path = path
        BY <1>5
      <4>2. s.txn[t].status \in {"RUN", "SENT"}
        BY <2>1, <3>3, <4>1
      <4> QED BY <1>6, <2>1, <3>1, <4>2 DEF Status
    <3> QED BY <2>1, <2>3, <3>4
  <2> QED BY <2>2, <2>3
<1> HIDE DEF K
<1>12. Remembered(d, {}, N) /\ d.txn = a.txn
  <2> DEFINE e == [a EXCEPT !.queue = Filter(@, K)]
  <2>1. Remembered(e, {}, N)
    BY <1>10, <1>11, QueueRemembers
  <2>2. e.txn = a.txn
    BY <1>10, <1>11, <2>1, QueueRemembers
  <2> QED BY <1>1, <2>1, <2>2
<1> QED BY <1>8, <1>10, <1>12 DEF d

(* The loop of repoAbortTransactions.                                      *)
MarkedSoFar(d, i, p) ==
  /\ Remembered(d, {}, {t \in Txns : p.txn[t].path \in {p.w[j] : j \in 1 .. i}})
  /\ \A t \in Txns : d.txn[t].path = p.txn[t].path

Marking == INSTANCE FoldTheorems WITH Op <- AbortAt, Inv <- MarkedSoFar

(* The first set() marks what is sent and aborts what is not.              *)
LEMMA AbortRemembers ==
  ASSUME NEW s, Remembered(s, {}, {}), NEW path
  PROVE  Remembered(AbortTransactions(s, path), {}, Txns)
<1> DEFINE related == {q \in Paths : q \subseteq path \/ path \subseteq q}
           w == SetToSeq(related)
           p == [txn |-> s.txn, w |-> w]
           Marks(i) == {t \in Txns : s.txn[t].path \in {w[j] : j \in 1 .. i}}
<1>1. IsFiniteSet(related)
  BY FinitelyManyPaths, FS_Subset
<1>2. w \in Seq(related) /\ \A i, j \in DOMAIN w : w[i] = w[j] => i = j
  <2> HIDE DEF related
  <2> QED BY <1>1, SetToSeqFacts
<1>3. AbortTransactions(s, path) = Marking!Run(s, w, p)
  BY DEF AbortTransactions, AbortAt, FoldLeft, MapThenFoldSet, Max, Marking!Run,
         Marking!Last
<1> HIDE DEF w
<1>4. Len(w) \in Nat /\ DOMAIN w = 1 .. Len(w)
  BY <1>2, LenProperties
<1>5. p.txn = s.txn /\ p.w = w
  OBVIOUS
<1> HIDE DEF p
<1>6. \A d : \A i : MarkedSoFar(d, i, p) <=>
               /\ Remembered(d, {}, Marks(i))
               /\ \A t \in Txns : d.txn[t].path = s.txn[t].path
  BY <1>5 DEF MarkedSoFar
<1>7. ASSUME NEW i \in 1 .. Len(w), NEW d, MarkedSoFar(d, i - 1, p)
      PROVE  MarkedSoFar(AbortAt(d, w[i], p), i, p)
  <2> DEFINE e == AbortTransactionsOnNode(d, w[i])
             M == Marks(i - 1)
             N == Marks(i)
  <2>1. Remembered(d, {}, M) /\ \A t \in Txns : d.txn[t].path = s.txn[t].path
    BY <1>6, <1>7
  <2>2. /\ i \in 1 .. i /\ \A j \in 1 .. i - 1 : j \in 1 .. i /\ w[j] # w[i]
    BY <1>2, <1>4
  <2>3. /\ \A t \in M : t \in Txns => d.txn[t].path # w[i]
        /\ \A t \in M : t \in N
        /\ \A t \in Txns : d.txn[t].path = w[i] => t \in N
    BY <2>1, <2>2
  <2> HIDE DEF M, N
  <2>4. Remembered(e, {}, N)
    BY <2>1, <2>3, AbortNodeRemembers
  <2>5. \A t \in Txns : e.txn[t].path = d.txn[t].path
    BY <2>1, <2>3, <2>4, AbortNodeRemembers
  <2> HIDE DEF e
  <2>6. MarkedSoFar(e, i, p)
    BY <1>6, <2>1, <2>4, <2>5 DEF N
  <2> QED BY <2>6 DEF AbortAt, e
<1>8. MarkedSoFar(s, 0, p)
  <2>1. Marks(0) = {}
    OBVIOUS
  <2> HIDE DEF Marks
  <2> QED BY <1>6, <2>1
<1> DEFINE r == Marking!Run(s, w, p)
<1>9. MarkedSoFar(r, Len(w), p)
  BY <1>2, <1>7, <1>8, Marking!FoldKeeps
<1> HIDE DEF r
<1>10. Remembered(r, {}, Marks(Len(w)))
  BY <1>6, <1>9
<1>11. \A t \in Marks(Len(w)) : t \in Txns
  OBVIOUS
<1> HIDE DEF Marks
<1>12. Remembered(r, {}, Txns)
  BY <1>10, <1>11, RememberedMore
<1> QED BY <1>3, <1>12 DEF r

(* What comes back unsuccessfully is to be run again or aborted.           *)
LEMMA MarkAnsweredRemembers ==
  ASSUME NEW s, NEW A, NEW M, Remembered(s, A, M), NEW ts, NEW status,
         \A t \in ts : t \in Txns /\ s.txn[t].write # 0
  PROVE  /\ Remembered(MarkAnswered(s, ts, status), A \cup ts, M)
         /\ \A t \in Txns : MarkAnswered(s, ts, status).txn[t].path = s.txn[t].path
<1> DEFINE m == MarkAnswered(s, ts, status)
<1>1. HasFields(s) /\ HasTransactions(s) /\ s.nextId \in Nat
  BY DEF Remembered, HasFields
<1>2. /\ HasTransactions(m)
      /\ \A t \in Txns : m.txn[t] = IF t \in ts THEN AfterAnswer(s.txn[t], status)
                                    ELSE s.txn[t]
  BY <1>1, MarkedFields
<1>3. /\ m.phase = s.phase /\ m.puts = s.puts /\ m.queue = s.queue
      /\ m.writes = s.writes /\ m.nextId = s.nextId
  BY <1>1 DEF MarkAnswered, HasTransactions, ClientFields
<1> HIDE DEF m
<1>4. ASSUME NEW t \in Txns
      PROVE  /\ m.txn[t].write = s.txn[t].write /\ m.txn[t].path = s.txn[t].path
             /\ t \in ts => m.txn[t].status \in {"NEEDS_ABORT", "RUN"}
             /\ t \notin ts => m.txn[t] = s.txn[t]
  <2>1. DOMAIN s.txn[t] = TxnFields
    BY <1>1 DEF HasTransactions
  <2>2. CASE t \in ts
    <3>1. m.txn[t] = AfterAnswer(s.txn[t], status)
      BY <1>2, <2>2
    <3> QED BY <2>1, <2>2, <3>1 DEF AfterAnswer, TxnFields
  <2>3. CASE t \notin ts
    BY <1>2, <2>3
  <2> QED BY <2>2, <2>3
<1>5. Staged(m, A \cup ts, M)
  <2> SUFFICES ASSUME NEW t \in Txns PROVE Stage(m, A \cup ts, M, t)
    BY DEF Staged
  <2>1. Stage(s, A, M, t)
    BY DEF Remembered, Staged
  <2>2. CASE t \in ts
    BY <1>3, <1>4, <2>1, <2>2 DEF Stage
  <2>3. CASE t \notin ts
    <3>1. m.txn[t] = s.txn[t]
      BY <1>4, <2>3
    <3> QED BY <1>3, <2>1, <3>1 DEF Stage
  <2> QED BY <2>2, <2>3
<1>6. Remembered(m, A \cup ts, M)
  BY <1>2, <1>3, <1>4, <1>5, Restaged
<1> QED BY <1>4, <1>6 DEF m

(* The callback of a put for transactions whose pending writes are there.  *)
LEMMA AnsweredRemembers ==
  ASSUME NEW s, NEW M, Remembered(s, {}, M), NEW put, put.txns \in Seq(Txns),
         \A t \in Range(put.txns) : s.txn[t].write # 0, Covers(put, s), NEW status
  PROVE  Remembered(TransactionsAnswered(s, put, status), {}, M)
<1> DEFINE ts == Range(put.txns)
           none == {}
<1>1. Remembered(s, none, M) /\ \A t \in ts : t \in Txns /\ s.txn[t].write # 0
  BY RangeOfSeq
<1>2. none \ ts = {} /\ none \cup ts = ts
  OBVIOUS
<1> HIDE DEF none
<1>3. CASE status = "ok"
  <2> DEFINE a == SettleAll(s, put.txns, "committed")
  <2>1. Remembered(a, none \ ts, M)
    BY <1>1, SettleAllRemembers
  <2> HIDE DEF a, ts
  <2>2. Remembered(SendReadyTransactions(Prune(a)), none \ ts, M)
    BY <2>1, PruneRemembers, SendReadyRemembers
  <2> QED BY <1>2, <1>3, <2>2 DEF TransactionsAnswered, a
<1>4. CASE status # "ok"
  <2> DEFINE m == MarkAnswered(s, ts, status)
             D == DOMAIN put.data
  <2> HIDE DEF ts
  <2>1. /\ Remembered(m, none \cup ts, M)
        /\ \A t \in Txns : m.txn[t].path = s.txn[t].path
    BY <1>1, MarkAnsweredRemembers
  <2>2. TransactionsAnswered(s, put, status) = RerunTransactions(m, D)
    BY <1>4 DEF TransactionsAnswered, ts
  <2> HIDE DEF m, D
  <2>3. Remembered(m, ts, M)
    BY <1>2, <2>1
  <2>4. ASSUME NEW t \in Txns, m.txn[t].status = "NEEDS_ABORT" PROVE m.txn[t].path \subseteq D
    <3>1. t \in ts
      BY <2>3, <2>4 DEF Remembered, Staged, Stage
    <3> QED BY <2>1, <3>1 DEF Covers, ts, D
  <2>5. Remembered(RerunTransactions(m, D), {}, M)
    BY <2>3, <2>4, RerunAllRemembers
  <2> QED BY <2>2, <2>5
<1> QED BY <1>3, <1>4

(* A put goes, and with a put of set() its pending write.                  *)
LEMMA Forgotten ==
  ASSUME NEW s, NEW A, NEW M, Remembered(s, A, M), NEW X \in SUBSET SetIds(s),
         NEW d, HasTransactions(d), d.phase = s.phase, d.nextId = s.nextId,
         d.txn = s.txn, d.queue = s.queue, IsSequence(d.puts),
         \A i \in DOMAIN d.puts : \E j \in DOMAIN s.puts : d.puts[i] = s.puts[j],
         SetIds(d) = SetIds(s) \ X,
         IsSequence(d.writes), Ids(d.writes) = Ids(s.writes) \ X
  PROVE  Remembered(d, A, M)
<1>1. HasFields(d)
  BY DEF Remembered, HasFields
<1>2. Pending(d) = Pending(s)
  BY DEF Pending
<1>3. Numbered(d)
  <2>1. Ids(d.writes) = {d.txn[t].write : t \in Pending(d)} \cup SetIds(d)
    <3>1. Ids(s.writes) = {s.txn[t].write : t \in Pending(s)} \cup SetIds(s)
      BY DEF Remembered, Numbered
    <3>2. \A t \in Pending(s) : s.txn[t].write \notin X
      BY DEF Remembered, Numbered
    <3> QED BY <1>2, <3>1, <3>2
  <2>2. \A i \in DOMAIN d.puts : d.puts[i].txns = << >> => d.puts[i].write = d.puts[i].id
    BY DEF Remembered, Numbered
  <2>3. SetIds(d) \subseteq 1 .. d.nextId - 1
    BY DEF Remembered, Numbered
  <2>4. \A t \in Pending(d) :
          /\ d.txn[t].write \notin SetIds(d)
          /\ \A u \in Txns : d.txn[u].write = d.txn[t].write => u = t
    BY <1>2 DEF Remembered, Numbered
  <2> QED BY <2>1, <2>2, <2>3, <2>4 DEF Remembered, Numbered
<1>4. Staged(d, A, M)
  BY DEF Remembered, Staged, Stage
<1>5. Covering(d)
  BY DEF Remembered, Covering, Covers
<1> QED BY <1>1, <1>3, <1>4, <1>5 DEF Remembered

(* Which puts of set() are left.                                           *)
LEMMA ForgetSets ==
  ASSUME NEW s, HasFields(s), InOrder(s), NEW i \in DOMAIN s.puts
  PROVE  LET put == s.puts[i]
             d == Forget(s, put.id)
         IN  /\ HasTransactions(d) /\ d.phase = s.phase /\ d.nextId = s.nextId
             /\ d.txn = s.txn /\ d.queue = s.queue /\ d.writes = s.writes
             /\ IsSequence(d.puts)
             /\ \A k \in DOMAIN d.puts : \E j \in DOMAIN s.puts : d.puts[k] = s.puts[j]
             /\ SetIds(d) = SetIds(s) \ (IF put.txns = << >> THEN {put.id} ELSE {})
<1> DEFINE put == s.puts[i]
           d == Forget(s, put.id)
           K == {p \in Range(s.puts) : p.id # put.id}
           X == IF put.txns = << >> THEN {put.id} ELSE {}
<1>1. HasTransactions(s) /\ IsSequence(s.puts)
  BY DEF HasFields
<1>2. /\ DOMAIN d = ClientFields /\ d.txn = s.txn /\ d.queue = s.queue
      /\ d.phase = s.phase /\ d.nextId = s.nextId /\ d.puts = Filter(s.puts, K)
  BY <1>1, ForgetFields DEF HasTransactions
<1>3. d.writes = s.writes
  BY <1>1 DEF Forget, HasTransactions, ClientFields
<1> HIDE DEF d
<1>4. HasTransactions(d)
  BY <1>1, <1>2 DEF HasTransactions
<1>5. /\ IsSequence(d.puts)
      /\ \A k \in DOMAIN d.puts : \E j \in DOMAIN s.puts : d.puts[k] = s.puts[j]
      /\ \A p : p \in Range(d.puts) <=> p \in Range(s.puts) /\ p \in K
  <2>1. \A p : p \in Range(Filter(s.puts, K)) <=> p \in Range(s.puts) /\ p \in K
    <3> HIDE DEF K
    <3> QED BY <1>1, FilterRange
  <2>2. IsSequence(Filter(s.puts, K))
        /\ \A k \in DOMAIN Filter(s.puts, K) :
             \E j \in DOMAIN s.puts : s.puts[j] \in K /\ Filter(s.puts, K)[k] = s.puts[j]
    <3> HIDE DEF K
    <3> QED BY <1>1, FilteredFacts
  <2> HIDE DEF K
  <2> QED BY <1>2, <2>1, <2>2
<1>6. ASSUME NEW j \in DOMAIN s.puts, s.puts[j].id = put.id PROVE s.puts[j] = put
  <2>1. i \in Nat /\ j \in Nat
    BY <1>1, SequenceFacts
  <2>2. put.id \in Nat
    BY DEF HasFields, IsPut
  <2>3. (i < j => put.id < s.puts[j].id) /\ (j < i => s.puts[j].id < put.id)
    BY DEF InOrder
  <2>4. i = j
    BY <1>6, <2>1, <2>2, <2>3
  <2> QED BY <2>4
<1>7. SetIds(d) = SetIds(s) \ X
  <2>1. ASSUME NEW id \in SetIds(d) PROVE id \in SetIds(s) \ X
    <3>1. PICK k \in DOMAIN d.puts : d.puts[k].txns = << >> /\ d.puts[k].id = id
      BY <2>1 DEF SetIds
    <3>2. d.puts[k] \in K
      BY <1>5 DEF Range
    <3> HIDE DEF put
    <3>3. id # put.id
      BY <3>1, <3>2
    <3>4. id \in SetIds(s)
      BY <1>5, <3>1 DEF SetIds
    <3> QED BY <3>3, <3>4
  <2>2. ASSUME NEW id \in SetIds(s) \ X PROVE id \in SetIds(d)
    <3>1. PICK j \in DOMAIN s.puts : s.puts[j].txns = << >> /\ s.puts[j].id = id
      BY <2>2 DEF SetIds
    <3>2. id # put.id
      <4>1. CASE put.txns = << >>
        BY <2>2, <4>1
      <4>2. CASE put.txns # << >>
        BY <1>6, <3>1, <4>2
      <4> QED BY <4>1, <4>2
    <3>3. s.puts[j] \in Range(s.puts) /\ s.puts[j] \in K
      BY <3>1, <3>2 DEF Range
    <3>4. s.puts[j] \in Range(d.puts)
      BY <1>5, <3>3
    <3>5. PICK k \in DOMAIN d.puts : d.puts[k] = s.puts[j]
      BY <3>4 DEF Range
    <3> QED BY <3>1, <3>5 DEF SetIds
  <2> HIDE DEF X
  <2> QED BY <2>1, <2>2
<1> QED BY <1>2, <1>3, <1>4, <1>5, <1>7 DEF d

(* A put for transactions goes.                                            *)
LEMMA ForgetRemembers ==
  ASSUME NEW s, NEW A, NEW M, Remembered(s, A, M), InOrder(s),
         NEW i \in DOMAIN s.puts, s.puts[i].txns # << >>
  PROVE  Remembered(Forget(s, s.puts[i].id), A, M)
<1> DEFINE d == Forget(s, s.puts[i].id)
<1>1. HasFields(s) /\ IsSequence(s.writes)
  BY DEF Remembered, HasFields
<1>2. /\ HasTransactions(d) /\ d.phase = s.phase /\ d.nextId = s.nextId
      /\ d.txn = s.txn /\ d.queue = s.queue /\ d.writes = s.writes
      /\ IsSequence(d.puts)
      /\ \A k \in DOMAIN d.puts : \E j \in DOMAIN s.puts : d.puts[k] = s.puts[j]
      /\ SetIds(d) = SetIds(s) \ (IF s.puts[i].txns = << >> THEN {s.puts[i].id} ELSE {})
  BY <1>1, ForgetSets
<1> HIDE DEF d
<1> DEFINE X == {}
<1>3. X \in SUBSET SetIds(s) /\ SetIds(d) = SetIds(s) \ X /\ Ids(d.writes) = Ids(s.writes) \ X
  BY <1>2
<1> HIDE DEF X
<1>4. IsSequence(d.writes)
  BY <1>1, <1>2
<1>5. Remembered(d, A, M)
  BY <1>2, <1>3, <1>4, Forgotten
<1> QED BY <1>5 DEF d

(* A put of set() goes with its pending write.                             *)
LEMMA SetAnsweredRemembers ==
  ASSUME NEW s, NEW A, NEW M, Remembered(s, A, M), InOrder(s),
         NEW i \in DOMAIN s.puts, s.puts[i].txns = << >>
  PROVE  Remembered(AckUserWrite(Forget(s, s.puts[i].id), s.puts[i].write), A, M)
<1> DEFINE d == Forget(s, s.puts[i].id)
           id == s.puts[i].write
           e == AckUserWrite(d, id)
           K == {w \in Range(d.writes) : w.id # id}
<1>1. HasFields(s) /\ IsSequence(s.writes)
  BY DEF Remembered, HasFields
<1>2. /\ HasTransactions(d) /\ d.phase = s.phase /\ d.nextId = s.nextId
      /\ d.txn = s.txn /\ d.queue = s.queue /\ d.writes = s.writes
      /\ IsSequence(d.puts)
      /\ \A k \in DOMAIN d.puts : \E j \in DOMAIN s.puts : d.puts[k] = s.puts[j]
      /\ SetIds(d) = SetIds(s) \ (IF s.puts[i].txns = << >> THEN {s.puts[i].id} ELSE {})
  BY <1>1, ForgetSets
<1> HIDE DEF d
<1>3. id = s.puts[i].id /\ id \in SetIds(s)
  <2>1. id = s.puts[i].id
    BY DEF Remembered, Numbered
  <2> QED BY <2>1 DEF SetIds
<1>4. SetIds(d) = SetIds(s) \ {id}
  BY <1>2, <1>3
<1> HIDE DEF id
<1>5. /\ DOMAIN e = ClientFields /\ e.txn = d.txn /\ e.queue = d.queue
      /\ e.phase = d.phase /\ e.puts = d.puts /\ e.nextId = d.nextId
      /\ e.writes = Filter(d.writes, K)
  BY <1>2 DEF AckUserWrite, HasTransactions, ClientFields
<1>6. IsSequence(e.writes) /\ Ids(e.writes) = Ids(s.writes) \ {id}
  <2>1. IsSequence(Filter(d.writes, K)) /\ Ids(Filter(d.writes, K)) = Ids(d.writes) \ {id}
    BY <1>1, <1>2, IdsFilter
  <2> HIDE DEF K, e
  <2> QED BY <1>2, <1>5, <2>1
<1> HIDE DEF e, K
<1>7. HasTransactions(e)
  BY <1>2, <1>5 DEF HasTransactions
<1>8. SetIds(e) = SetIds(d)
  BY <1>5 DEF SetIds
<1> DEFINE X == {id}
<1>9. X \in SUBSET SetIds(s) /\ SetIds(e) = SetIds(s) \ X /\ Ids(e.writes) = Ids(s.writes) \ X
  BY <1>3, <1>4, <1>6, <1>8
<1> HIDE DEF X
<1>10. /\ e.phase = s.phase /\ e.nextId = s.nextId /\ e.txn = s.txn
       /\ e.queue = s.queue /\ IsSequence(e.puts)
  BY <1>2, <1>5
<1>11. \A k \in DOMAIN e.puts : \E j \in DOMAIN s.puts : e.puts[k] = s.puts[j]
  BY <1>2, <1>5
<1>12. IsSequence(e.writes)
  BY <1>6
<1>13. Remembered(e, A, M)
  BY <1>7, <1>9, <1>10, <1>11, <1>12, Forgotten
<1> QED BY <1>13 DEF e, d, id

(* set() adds a pending write and its put.                                 *)
LEMMA SetRemembers ==
  ASSUME NEW s, NEW A, NEW M, Remembered(s, A, M), NEW data,
         NEW put, IsPut(put), put.id = s.nextId, put.write = s.nextId,
         put.txns = << >>
  PROVE  Remembered(PutInternal(ApplyUserOverwrite(s, data), put), A, M)
<1> DEFINE u == ApplyUserOverwrite(s, data)
           w == [id |-> s.nextId, data |-> data]
           d == PutInternal(u, put)
           n == s.nextId
<1>1. HasFields(s) /\ HasTransactions(s) /\ IsSequence(s.writes) /\ n \in Nat \ {0}
  BY DEF Remembered, HasFields
<1>2. /\ DOMAIN u = ClientFields /\ u.txn = s.txn /\ u.queue = s.queue
      /\ u.phase = s.phase /\ u.puts = s.puts /\ u.nextId = n + 1
      /\ u.writes = Append(s.writes, w)
  BY <1>1 DEF ApplyUserOverwrite, HasTransactions, ClientFields
<1>3. w.id = n
  OBVIOUS
<1> HIDE DEF w, u
<1>4. IsSequence(u.writes) /\ Ids(u.writes) = Ids(s.writes) \cup {n}
  BY <1>1, <1>2, <1>3, IdsAppend
<1>5. HasFields(u)
  BY <1>1, <1>2, <1>4 DEF HasFields, HasTransactions
<1>6. SetIds(u) = SetIds(s)
  BY <1>2 DEF SetIds
<1>7. HasFields(d)
  BY <1>5, PutFacts
<1>8. /\ d.txn = u.txn /\ d.queue = u.queue /\ d.nextId = u.nextId
      /\ d.writes = u.writes
      /\ SetIds(d) = SetIds(u) \cup (IF put.txns = << >> THEN {put.id} ELSE {})
      /\ \A i \in DOMAIN d.puts :
           \/ i \in DOMAIN u.puts /\ d.puts[i] = u.puts[i]
           \/ /\ d.puts[i].id = put.id /\ d.puts[i].txns = put.txns
              /\ d.puts[i].write = put.write /\ d.puts[i].data = put.data
  BY <1>5, <1>7, PutFacts
<1> HIDE DEF d
<1>9. /\ d.txn = s.txn /\ d.queue = s.queue /\ d.nextId = n + 1
      /\ Ids(d.writes) = Ids(s.writes) \cup {n} /\ SetIds(d) = SetIds(s) \cup {n}
  BY <1>2, <1>4, <1>6, <1>8
<1>10. Numbered(d)
  <2>1. Pending(d) = Pending(s)
    BY <1>9 DEF Pending
  <2>2. {d.txn[t].write : t \in Pending(d)} = {s.txn[t].write : t \in Pending(s)}
    BY <1>9, <2>1
  <2>3. Ids(d.writes) = {d.txn[t].write : t \in Pending(d)} \cup SetIds(d)
    <3>1. Ids(s.writes) = {s.txn[t].write : t \in Pending(s)} \cup SetIds(s)
      BY DEF Remembered, Numbered
    <3> QED BY <1>9, <2>2, <3>1
  <2>4. /\ \A k \in 0 .. n - 1 : k \in 0 .. (n + 1) - 1 /\ k # n
        /\ \A k \in 1 .. n - 1 : k \in 1 .. (n + 1) - 1
        /\ n \in 1 .. (n + 1) - 1
    BY <1>1
  <2>5. \A t \in Txns : d.txn[t].write \in 0 .. (n + 1) - 1 /\ d.txn[t].write # n
    BY <1>9, <2>4 DEF Remembered, Numbered
  <2>6. SetIds(d) \subseteq 1 .. (n + 1) - 1
    <3>1. SetIds(s) \subseteq 1 .. n - 1
      BY DEF Remembered, Numbered
    <3> QED BY <1>9, <2>4, <3>1
  <2>7. \A t \in Pending(d) :
          /\ d.txn[t].write \notin SetIds(d)
          /\ \A v \in Txns : d.txn[v].write = d.txn[t].write => v = t
    <3>1. \A t \in Pending(s) :
            /\ t \in Txns /\ s.txn[t].write \notin SetIds(s)
            /\ \A v \in Txns : s.txn[v].write = s.txn[t].write => v = t
      BY DEF Remembered, Numbered, Pending
    <3> QED BY <1>9, <2>1, <2>5, <3>1
  <2>8. \A i \in DOMAIN d.puts : d.puts[i].txns = << >> => d.puts[i].write = d.puts[i].id
    BY <1>2, <1>8 DEF Remembered, Numbered
  <2> QED BY <1>9, <2>3, <2>5, <2>6, <2>7, <2>8 DEF Numbered
<1>11. Staged(d, A, M)
  BY <1>9 DEF Remembered, Staged, Stage
<1>12. Covering(d)
  <2> SUFFICES ASSUME NEW i \in DOMAIN d.puts PROVE Covers(d.puts[i], d)
    BY DEF Covering
  <2>1. CASE i \in DOMAIN u.puts /\ d.puts[i] = u.puts[i]
    BY <1>2, <1>9, <2>1 DEF Remembered, Covering, Covers
  <2>2. CASE d.puts[i].txns = << >>
    <3>1. Range(<< >>) = {}
      BY DEF Range
    <3> QED BY <2>2, <3>1 DEF Covers
  <2> QED BY <1>8, <2>1, <2>2
<1> QED BY <1>7, <1>10, <1>11, <1>12 DEF Remembered, d, u

(* What is on the wire has a pending write.                                *)
LEMMA SentWrites ==
  ASSUME NEW s, NEW G, ClientInv(s, G), NEW A, NEW M, Remembered(s, A, M),
         NEW i \in DOMAIN s.puts, s.puts[i].id # G.x
  PROVE  /\ s.puts[i].txns \in Seq(Txns)
         /\ \A t \in Range(s.puts[i].txns) : s.txn[t].write # 0
         /\ Covers(s.puts[i], s)
<1>1. s.puts[i].txns \in Seq(Txns)
  BY DEF ClientInv, Shape, IsPut
<1>2. ASSUME NEW t \in Range(s.puts[i].txns) PROVE s.txn[t].write # 0
  <2>1. t \in Txns
    BY <1>1, RangeOfSeq
  <2>2. s.txn[t].status \in {"SENT", "SENT_NEEDS_ABORT"}
    BY DEF ClientInv, Exclusive, OnTheWire
  <2>3. Stage(s, A, M, t)
    BY <2>1 DEF Remembered, Staged
  <2>4. NewTransaction.status = "NEW"
    BY DEF NewTransaction
  <2> QED BY <2>2, <2>3, <2>4 DEF Stage
<1>3. Covers(s.puts[i], s)
  BY DEF Remembered, Covering
<1> QED BY <1>1, <1>2, <1>3

(* An answer arrives.                                                      *)
LEMMA PutAnsweredRemembers ==
  ASSUME NEW s, NEW G, ClientInv(s, G), G.x = 0, NEW M, Remembered(s, {}, M),
         NEW i \in DOMAIN s.puts, NEW status
  PROVE  Remembered(PutAnswered(s, s.puts[i], status), {}, M)
<1> DEFINE put == s.puts[i]
           d == Forget(s, put.id)
<1>1. InOrder(s) /\ put.id # G.x /\ DOMAIN s = ClientFields
  BY DEF ClientInv, Shape, IsPut
<1>2. CASE put.txns = << >>
  <2>1. Remembered(AckUserWrite(d, put.write), {}, M)
    BY <1>1, <1>2, SetAnsweredRemembers
  <2> QED BY <1>2, <2>1 DEF PutAnswered
<1>3. CASE put.txns # << >>
  <2>1. Remembered(d, {}, M)
    BY <1>1, <1>3, ForgetRemembers
  <2>2. /\ put.txns \in Seq(Txns)
        /\ \A t \in Range(put.txns) : s.txn[t].write # 0
        /\ Covers(put, s)
    BY <1>1, SentWrites
  <2>3. d.txn = s.txn
    BY <1>1, ForgetFields
  <2>4. PutAnswered(s, put, status) = TransactionsAnswered(d, put, status)
    BY <1>3 DEF PutAnswered
  <2> HIDE DEF d, put
  <2>5. Covers(put, d)
    BY <2>2, <2>3 DEF Covers
  <2>6. Remembered(TransactionsAnswered(d, put, status), {}, M)
    BY <2>1, <2>2, <2>3, <2>5, AnsweredRemembers
  <2> QED BY <2>4, <2>6 DEF put
<1> QED BY <1>2, <1>3

(* The connection changes, and which puts are sent.                        *)
LEMMA ConnectionRemembers ==
  ASSUME NEW s, NEW A, NEW M, Remembered(s, A, M),
         NEW d, DOMAIN d = ClientFields,
         d.phase \in {"idle", "scheduled", "connecting", "open"},
         d.txn = s.txn, d.queue = s.queue, d.writes = s.writes, d.nextId = s.nextId,
         IsSequence(d.puts), DOMAIN d.puts = DOMAIN s.puts,
         \A i \in DOMAIN d.puts :
           /\ IsPut(d.puts[i]) /\ d.puts[i].id = s.puts[i].id
           /\ d.puts[i].txns = s.puts[i].txns /\ d.puts[i].write = s.puts[i].write
           /\ d.puts[i].data = s.puts[i].data
  PROVE  Remembered(d, A, M)
<1>1. HasFields(d)
  BY DEF Remembered, HasFields, HasTransactions
<1>2. SetIds(d) = SetIds(s)
  BY DEF SetIds
<1>3. Pending(d) = Pending(s)
  BY DEF Pending
<1>4. Numbered(d)
  <2>1. \A i \in DOMAIN d.puts : d.puts[i].txns = << >> => d.puts[i].write = d.puts[i].id
    BY DEF Remembered, Numbered
  <2>2. Ids(d.writes) = {d.txn[t].write : t \in Pending(d)} \cup SetIds(d)
    BY <1>2, <1>3 DEF Remembered, Numbered
  <2> QED BY <1>2, <1>3, <2>1, <2>2 DEF Remembered, Numbered
<1>5. Staged(d, A, M)
  BY DEF Remembered, Staged, Stage
<1>6. Covering(d)
  BY DEF Remembered, Covering, Covers
<1> QED BY <1>1, <1>4, <1>5, <1>6 DEF Remembered

-----------------------------------------------------------------------------
(* Lost connections.                                                       *)

(* The transactions of an outstanding put are marked: from now on they are *)
(* doubtful, and so is the put.                                            *)
LEMMA DoubtKeeps ==
  ASSUME NEW s, NEW G, ClientInv(s, G), G.x = 0, s.phase # "open",
         NEW i \in DOMAIN s.puts,
         NEW H, H.x = s.puts[i].id, H.kept = G.kept, H.applied = G.applied,
         H.phase = G.phase, H.reasons = G.reasons, H.online = G.online,
         H.down = G.down
  PROVE  ClientInv(MarkAnswered(s, Range(s.puts[i].txns), "disconnect"), H)
<1> DEFINE put == s.puts[i]
           ts == Range(put.txns)
           m == MarkAnswered(s, ts, "disconnect")
<1>1. Shape(s) /\ InOrder(s) /\ Exclusive(s, G) /\ Counted(s, G) /\ Unqueued(s, G) /\ Grounded(s, G)
  BY DEF ClientInv
<1>2. HasTransactions(s) /\ s.nextId \in Nat \ {0}
  BY FieldFacts
<1>3. /\ HasTransactions(m) /\ SamePuts(s, m)
      /\ \A t \in Txns : m.txn[t] = IF t \in ts THEN AfterAnswer(s.txn[t], "disconnect")
                                    ELSE s.txn[t]
  BY <1>2, MarkedFields
<1>4. IsPut(put) /\ put.id \in Nat \ {0} /\ put.id < s.nextId /\ put.txns \in Seq(Txns)
  BY <1>1 DEF Shape, InOrder, IsPut
<1>5. \A j \in DOMAIN s.puts : s.puts[j].id # G.x
  BY <1>1 DEF Shape, IsPut
<1> HIDE DEF m
<1>6. \A t \in ts : /\ t \in Txns
                    /\ \A j \in DOMAIN s.puts : Carries(s.puts[j], t) => j = i
                    /\ Doubtful(m.txn[t])
  <2> SUFFICES ASSUME NEW t \in ts
               PROVE  /\ t \in Txns
                      /\ \A j \in DOMAIN s.puts : Carries(s.puts[j], t) => j = i
                      /\ Doubtful(m.txn[t])
    OBVIOUS
  <2>1. t \in Txns
    BY <1>4, RangeOfSeq
  <2>2. /\ OnTheWire(s.txn[t])
        /\ \A j \in DOMAIN s.puts : Carries(s.puts[j], t) => j = i
    BY <1>1, <1>5 DEF Exclusive
  <2>3. m.txn[t] = AfterAnswer(s.txn[t], "disconnect") /\ DOMAIN s.txn[t] = TxnFields
    BY <1>2, <1>3, <2>1 DEF HasTransactions
  <2>4. Doubtful(m.txn[t])
    BY <2>2, <2>3, AfterAnswerIs
  <2> QED BY <2>1, <2>2, <2>4
<1>7. Shape(m)
  BY <1>1, <1>3 DEF Shape, SamePuts, HasTransactions
<1>8. InOrder(m)
  BY <1>1, <1>3 DEF Shape, InOrder, SamePuts, IsPut
<1>9. Exclusive(m, H)
  <2> SUFFICES ASSUME NEW j \in DOMAIN s.puts, NEW t \in Range(s.puts[j].txns)
               PROVE  IF s.puts[j].id = H.x THEN Doubtful(m.txn[t])
                      ELSE /\ OnTheWire(m.txn[t])
                           /\ \A k \in DOMAIN s.puts : Carries(s.puts[k], t) => k = j
    BY <1>3 DEF Exclusive, SamePuts
  <2>1. CASE j = i
    BY <1>6, <2>1
  <2>2. CASE j # i
    <3>1. s.puts[j].id # H.x
      <4>1. i \in Nat /\ j \in Nat
        BY <1>1, SequenceFacts DEF Shape
      <4>2. s.puts[j].id \in Nat
        BY <1>1 DEF Shape, IsPut
      <4>3. (i < j => s.puts[i].id < s.puts[j].id) /\ (j < i => s.puts[j].id < s.puts[i].id)
        BY <1>1 DEF InOrder
      <4> QED BY <1>4, <2>2, <4>1, <4>2, <4>3
    <3>2. /\ OnTheWire(s.txn[t])
          /\ \A k \in DOMAIN s.puts : Carries(s.puts[k], t) => k = j
      BY <1>1, <1>5 DEF Exclusive
    <3>3. t \notin ts /\ t \in Txns
      <4>1. t \notin ts
        BY <2>2, <3>2 DEF Carries
      <4>2. s.puts[j].txns \in Seq(Txns)
        BY <1>1 DEF Shape, IsPut
      <4> QED BY <4>1, <4>2, RangeOfSeq
    <3>4. m.txn[t] = s.txn[t]
      BY <1>3, <3>3
    <3> QED BY <3>1, <3>2, <3>4
  <2> QED BY <2>1, <2>2
<1>10. Counted(m, H)
  <2> SUFFICES ASSUME NEW t \in Txns
               PROVE  \/ Unsent(m.txn[t]) /\ Untried(s, G, t)
                      \/ OnTheWire(m.txn[t]) \/ Doubtful(m.txn[t])
                      \/ Committed(m.txn[t]) /\ G.applied[t] = 1
    BY <1>1, <1>3 DEF Counted, SamePuts, Untried, Requests
  <2>1. CASE t \in ts
    BY <1>6, <2>1
  <2>2. CASE t \notin ts
    BY <1>1, <1>3, <2>2 DEF Counted
  <2> QED BY <2>1, <2>2
<1>11. Awaited(m, H)
  BY <1>3 DEF Awaited, SamePuts
<1>12. Unqueued(m, H)
  BY <1>1, <1>3 DEF Unqueued, SamePuts, Untried, Requests
<1>13. Grounded(m, H)
  <2>1. H.x < m.nextId /\ H.x \in Nat
    BY <1>2, <1>3, <1>4 DEF SamePuts
  <2> QED BY <1>1, <1>3, <2>1 DEF Grounded, SamePuts
<1> QED BY <1>7, <1>8, <1>9, <1>10, <1>11, <1>12, <1>13 DEF ClientInv, m

(* cancelSentTransactions_, for one put: before it goes.                   *)
LEMMA CancelledKeeps ==
  ASSUME NEW s, NEW G, ClientInv(s, G), G.x = 0, G.phase # "open",
         DOMAIN G = {"x", "kept", "applied", "down", "phase", "reasons", "online"},
         NEW put \in G.kept
  PROVE  ClientInv(TransactionsAnswered(s, put, "disconnect"), [G EXCEPT !.x = put.id])
<1> DEFINE D == [G EXCEPT !.x = put.id]
           m == MarkAnswered(s, Range(put.txns), "disconnect")
<1>1. PICK i \in DOMAIN s.puts : s.puts[i] = put
  BY DEF ClientInv, Grounded
<1>2. s.phase # "open"
  BY DEF ClientInv, Grounded
<1>3. /\ D.x = put.id /\ D.kept = G.kept /\ D.applied = G.applied /\ D.down = G.down
      /\ D.phase = G.phase /\ D.reasons = G.reasons /\ D.online = G.online
  OBVIOUS
<1> HIDE DEF D
<1>4. ClientInv(m, D)
  BY <1>1, <1>2, <1>3, DoubtKeeps
<1>5. TransactionsAnswered(s, put, "disconnect") = RerunTransactions(m, DOMAIN put.data)
  BY DEF TransactionsAnswered
<1> HIDE DEF m
<1> QED BY <1>4, <1>5, RerunTransactionsKeeps DEF D

(* cancelSentTransactions_, for one put.                                   *)
LEMMA CancelKeeps ==
  ASSUME NEW s, NEW G, ClientInv(s, G), G.x = 0, G.phase # "open",
         DOMAIN G = {"x", "kept", "applied", "down", "phase", "reasons", "online"},
         NEW put \in G.kept,
         NEW H, H = [G EXCEPT !.kept = @ \ {put}]
  PROVE  ClientInv(Forget(TransactionsAnswered(s, put, "disconnect"), put.id), H)
<1> DEFINE D == [G EXCEPT !.x = put.id]
           r == TransactionsAnswered(s, put, "disconnect")
           id == put.id
<1>1. PICK i \in DOMAIN s.puts : s.puts[i] = put
  BY DEF ClientInv, Grounded
<1>2. Shape(s) /\ InOrder(s) /\ Grounded(s, G) /\ s.phase # "open"
  BY DEF ClientInv, Grounded
<1>3. /\ D.x = id /\ D.kept = G.kept /\ D.applied = G.applied /\ D.down = G.down
      /\ D.phase = G.phase /\ D.reasons = G.reasons /\ D.online = G.online
  OBVIOUS
<1>4. /\ H.x = 0 /\ H.kept = G.kept \ {put} /\ H.applied = G.applied /\ H.down = G.down
      /\ H.phase = G.phase /\ H.reasons = G.reasons /\ H.online = G.online
  OBVIOUS
<1>5. ClientInv(r, D)
  BY CancelledKeeps
<1> HIDE DEF D, r
<1>6. Awaited(Forget(r, id), H)
  <2>1. r.phase # "open" /\ DOMAIN r = ClientFields
    BY <1>3, <1>5 DEF ClientInv, Grounded, Shape
  <2>2. Forget(r, id).phase = r.phase
    BY <2>1, ForgetFields
  <2> QED BY <2>1, <2>2 DEF Awaited
<1>7. H.kept = {p \in G.kept : p.id # id}
  <2>1. ASSUME NEW p \in G.kept, p.id = id PROVE p = put
    <3>1. PICK j \in DOMAIN s.puts : s.puts[j] = p
      BY <1>2 DEF Grounded
    <3>2. i \in Nat /\ j \in Nat
      BY <1>2, SequenceFacts DEF Shape
    <3>3. IsPut(s.puts[i])
      BY <1>2 DEF Shape
    <3>4. s.puts[i].id \in Nat
      BY <3>3 DEF IsPut
    <3>5. (i < j => s.puts[i].id < s.puts[j].id) /\ (j < i => s.puts[j].id < s.puts[i].id)
      BY <1>2 DEF InOrder
    <3>6. s.puts[i].id = s.puts[j].id
      BY <1>1, <2>1, <3>1
    <3>7. i = j
      BY <3>2, <3>4, <3>5, <3>6
    <3> QED BY <1>1, <3>1, <3>7
  <2> HIDE DEF id
  <2>2. put.id = id
    BY DEF id
  <2> QED BY <1>4, <2>1, <2>2
<1> HIDE DEF id
<1>8. /\ D.x \in {0, id} /\ H.x = 0 /\ H.applied = D.applied /\ H.phase = D.phase
       /\ H.reasons = D.reasons /\ H.online = D.online /\ IsSequence(H.down)
       /\ H.kept = {p \in D.kept : p.id # id} /\ Awaited(Forget(r, id), H)
  BY <1>2, <1>3, <1>4, <1>6, <1>7 DEF Grounded
<1>9. ClientInv(Forget(r, id), H)
  BY <1>5, <1>8, ForgetKeeps
<1> QED BY <1>9 DEF id, r

(* With it the transactions are remembered.                                *)
LEMMA CancelRemembers ==
  ASSUME NEW s, NEW G, ClientInv(s, G), G.x = 0, G.phase # "open",
         DOMAIN G = {"x", "kept", "applied", "down", "phase", "reasons", "online"},
         NEW put \in G.kept, put.txns # << >>,
         NEW M, Remembered(s, {}, M)
  PROVE  Remembered(Forget(TransactionsAnswered(s, put, "disconnect"), put.id), {}, M)
<1> DEFINE r == TransactionsAnswered(s, put, "disconnect")
           D == [G EXCEPT !.x = put.id]
<1>1. PICK i \in DOMAIN s.puts : s.puts[i] = put
  BY DEF ClientInv, Grounded
<1>2. put.id # G.x
  BY <1>1 DEF ClientInv, Shape, IsPut
<1>3. /\ put.txns \in Seq(Txns)
      /\ \A t \in Range(put.txns) : s.txn[t].write # 0
      /\ Covers(put, s)
  BY <1>1, <1>2, SentWrites
<1>4. Remembered(r, {}, M)
  BY <1>3, AnsweredRemembers
<1>5. ClientInv(r, D)
  BY CancelledKeeps
<1>6. D.kept = G.kept
  OBVIOUS
<1> HIDE DEF r, D
<1>7. PICK j \in DOMAIN r.puts : r.puts[j] = put
  BY <1>5, <1>6 DEF ClientInv, Grounded
<1>8. InOrder(r)
  BY <1>5 DEF ClientInv
<1> DEFINE none == {}
<1> HIDE DEF none
<1>9. Remembered(r, none, M)
  BY <1>4 DEF none
<1>10. Remembered(Forget(r, r.puts[j].id), none, M)
  BY <1>7, <1>8, <1>9, ForgetRemembers
<1> QED BY <1>7, <1>10 DEF r, none

(* The connection changes: it may be lost, and what has kept it so far     *)
(* may change; then what was sent for transactions is to be cancelled.     *)
LEMMA ConnectionChanges ==
  ASSUME NEW s, NEW G, ClientInv(s, G), G.x = 0, G.kept = {},
         NEW d, DOMAIN d = ClientFields,
         d.puts = s.puts, d.up = s.up, d.txn = s.txn, d.queue = s.queue,
         d.nextId = s.nextId,
         d.phase \in {"idle", "scheduled", "connecting", "open"},
         d.phase = "open" => s.phase = "open",
         NEW H, H.x = 0, H.applied = G.applied, H.phase = d.phase,
         H.reasons = d.reasons, H.online = d.online, IsSequence(H.down),
         d.phase = "open" => H.down = G.down,
         H.kept \subseteq Range(s.puts),
         d.phase # "open" /\ s.phase = "open" =>
           \A put \in Range(s.puts) : IsSentTransaction(put) => put \in H.kept
  PROVE  ClientInv(d, H)
<1>1. Shape(s) /\ InOrder(s) /\ Exclusive(s, G) /\ Counted(s, G) /\ Awaited(s, G)
      /\ Unqueued(s, G) /\ Grounded(s, G)
  BY DEF ClientInv
<1>2. Shape(d)
  BY <1>1 DEF Shape
<1>3. InOrder(d)
  BY <1>1 DEF InOrder
<1>4. Exclusive(d, H)
  BY <1>1 DEF Exclusive
<1>5. Counted(d, H)
  BY <1>1 DEF Counted, Untried, Requests
<1>6. Awaited(d, H)
  BY <1>1 DEF Awaited, Matches
<1>7. Unqueued(d, H)
  <2>1. ASSUME d.phase # "open", NEW i \in DOMAIN d.puts
        PROVE  IF d.puts[i].queued
                 THEN d.puts[i].txns # << >> => d.puts[i] \in H.kept
                 ELSE \A t \in Range(d.puts[i].txns) : Untried(d, H, t)
    <3>1. \A t : Untried(s, G, t) => Untried(d, H, t)
      BY DEF Untried, Requests
    <3>2. CASE s.phase = "open"
      <4>1. s.puts[i].queued
        BY <1>1, <3>2 DEF Unqueued
      <4>2. s.puts[i] \in Range(s.puts)
        BY DEF Range
      <4> QED BY <2>1, <3>2, <4>1, <4>2 DEF IsSentTransaction
    <3>3. CASE s.phase # "open"
      BY <1>1, <3>1, <3>3 DEF Unqueued
    <3> QED BY <3>2, <3>3
  <2>2. d.phase = "open" => \A i \in DOMAIN d.puts : d.puts[i].queued
    BY <1>1 DEF Unqueued
  <2> QED BY <2>1, <2>2 DEF Unqueued
<1>8. Grounded(d, H)
  <2>1. \A put \in H.kept : \E i \in DOMAIN d.puts : d.puts[i] = put
    BY DEF Range
  <2> QED BY <1>1, <2>1 DEF Grounded
<1> QED BY <1>2, <1>3, <1>4, <1>5, <1>6, <1>7, <1>8 DEF ClientInv

(* The fields of the ground between callbacks.                             *)
LEMMA RestFacts ==
  ASSUME NEW s, NEW done, NEW down
  PROVE  LET G == Rest(s, done, down)
         IN  /\ DOMAIN G = {"x", "kept", "applied", "down", "phase", "reasons", "online"}
             /\ G.x = 0 /\ G.kept = {} /\ G.applied = done /\ G.down = down
             /\ G.phase = s.phase /\ G.reasons = s.reasons /\ G.online = s.online
BY DEF Rest

(* cancelSentTransactions_                                                 *)
CancelOne(d, put, p) == Forget(TransactionsAnswered(d, put, "disconnect"), put.id)

CancelledSoFar(d, i, p) ==
  /\ ClientInv(d, [p.ground EXCEPT !.kept = {p.w[j] : j \in i + 1 .. Len(p.w)}])
  /\ \A M : Remembered(p.idle, {}, M) => Remembered(d, {}, M)

Cancelling == INSTANCE FoldTheorems WITH Op <- CancelOne, Inv <- CancelledSoFar

(* onRealtimeDisconnect_                                                   *)
LEMMA OnRealtimeDisconnectKeeps ==
  ASSUME NEW s, NEW done, NEW down, ClientInv(s, Rest(s, done, down))
  PROVE  LET d == OnRealtimeDisconnect(s)
         IN  /\ ClientInv(d, Rest(d, done, << >>))
             /\ d.phase # "open" /\ (ShouldReconnect(d) => d.phase # "idle")
             /\ \A M : Remembered(s, {}, M) => Remembered(d, {}, M)
<1> DEFINE G == Rest(s, done, down)
           idle == [s EXCEPT !.phase = "idle"]
           K == {put \in Range(s.puts) : IsSentTransaction(put)}
           w == Filter(s.puts, K)
           D == Rest(idle, done, << >>)
           Kept(i) == {w[j] : j \in i + 1 .. Len(w)}
           p == [ground |-> D, w |-> w, idle |-> idle]
           r == Cancelling!Run(idle, w, p)
           d == ReconnectLater(r)
<1>1. OnRealtimeDisconnect(s) = d
  BY DEF OnRealtimeDisconnect, CancelOne, FoldLeft, MapThenFoldSet, Max, Cancelling!Run,
         Cancelling!Last
<1>2. Shape(s) /\ InOrder(s) /\ Grounded(s, G)
  BY DEF ClientInv
<1>3. PICK R : s.puts \in Seq(R)
  BY <1>2 DEF Shape, IsSequence
<1>4. w \in Seq(R) /\ Len(w) \in Nat /\ DOMAIN w = 1 .. Len(w)
  <2>1. w \in Seq(R)
    BY <1>3, FilterType
  <2> HIDE DEF w
  <2> QED BY <2>1, LenProperties
<1>5. PICK f : \A i \in 1 .. Len(w) :
                 /\ f[i] \in 1 .. Len(s.puts) /\ s.puts[f[i]] \in K
                 /\ w[i] = s.puts[f[i]]
                 /\ \A j \in 1 .. Len(w) : i < j => f[i] < f[j]
  <2> HIDE DEF K
  <2> QED BY <1>3, FilterIndex
<1>6. \A put \in K : \E i \in 1 .. Len(w) : w[i] = put
  <2> SUFFICES ASSUME NEW put \in K PROVE \E i \in 1 .. Len(w) : w[i] = put
    OBVIOUS
  <2>1. PICK j \in 1 .. Len(s.puts) : s.puts[j] = put
    BY <1>3, LenProperties DEF Range
  <2> HIDE DEF K
  <2> QED BY <1>3, <2>1, FilterHas
<1>7. DOMAIN s.puts = 1 .. Len(s.puts)
  BY <1>3
<1> HIDE DEF w, r
<1>8. ASSUME NEW i \in 1 .. Len(w) PROVE w[i].txns # << >> /\ w[i] \in Range(s.puts)
  BY <1>5 DEF IsSentTransaction
<1>9. ASSUME NEW i \in 1 .. Len(w), NEW j \in 1 .. Len(w), i < j PROVE w[i] # w[j]
  <2>1. /\ f[i] \in DOMAIN s.puts /\ f[j] \in DOMAIN s.puts /\ f[i] < f[j]
        /\ w[i] = s.puts[f[i]] /\ w[j] = s.puts[f[j]]
    BY <1>5, <1>7, <1>9
  <2>2. w[i].id < w[j].id
    BY <1>2, <2>1 DEF InOrder
  <2>3. IsPut(w[i])
    BY <1>2, <2>1 DEF Shape
  <2>4. w[i].id \in Nat
    BY <2>3 DEF IsPut
  <2> QED BY <2>2, <2>4
<1>10. /\ DOMAIN D = {"x", "kept", "applied", "down", "phase", "reasons", "online"}
       /\ D.x = 0 /\ D.applied = done /\ D.down = << >>
       /\ D.phase = "idle" /\ D.reasons = s.reasons /\ D.online = s.online
  BY <1>2 DEF Rest, Shape, ClientFields
<1>11. /\ DOMAIN idle = ClientFields /\ idle.phase = "idle"
       /\ idle.puts = s.puts /\ idle.up = s.up /\ idle.txn = s.txn
       /\ idle.queue = s.queue /\ idle.nextId = s.nextId
       /\ idle.reasons = s.reasons /\ idle.online = s.online
       /\ idle.writes = s.writes
  BY <1>2 DEF Shape, ClientFields
<1>12. G.x = 0 /\ G.kept = {} /\ G.applied = done
  BY RestFacts
<1>13. IsSequence(<< >>)
  BY OfKindOne
<1> HIDE DEF D, idle, G
<1>14. p.ground = D /\ p.w = w /\ p.idle = idle
  OBVIOUS
<1> HIDE DEF p
<1>15. Kept(0) = Range(w)
  BY <1>4 DEF Range
<1>16. CancelledSoFar(idle, 0, p)
  <2> DEFINE E == [D EXCEPT !.kept = Kept(0)]
  <2>1. /\ E.x = 0 /\ E.kept = Range(w) /\ E.applied = done /\ E.down = << >>
        /\ E.phase = "idle" /\ E.reasons = s.reasons /\ E.online = s.online
    BY <1>10, <1>15
  <2>2. ClientInv(idle, E) => CancelledSoFar(idle, 0, p)
    BY <1>14 DEF CancelledSoFar
  <2> HIDE DEF E, Kept
  <2>3. Range(w) \subseteq Range(s.puts)
    BY <1>4, <1>8 DEF Range
  <2>4. \A put \in Range(s.puts) : IsSentTransaction(put) => put \in E.kept
    BY <1>4, <1>6, <2>1 DEF Range
  <2> HIDE DEF K
  <2>5. ClientInv(s, G)
    BY DEF G
  <2>6. ClientInv(idle, E)
    BY <1>11, <1>12, <1>13, <2>1, <2>3, <2>4, <2>5, ConnectionChanges
  <2> QED BY <2>2, <2>6
<1>17. ASSUME NEW i \in 1 .. Len(w), NEW e, CancelledSoFar(e, i - 1, p)
       PROVE  CancelledSoFar(CancelOne(e, w[i], p), i, p)
  <2> DEFINE E == [D EXCEPT !.kept = Kept(i - 1)]
             H == [D EXCEPT !.kept = Kept(i)]
  <2>1. ClientInv(e, E)
    BY <1>14, <1>17 DEF CancelledSoFar
  <2>9. \A M : Remembered(p.idle, {}, M) => Remembered(e, {}, M)
    BY <1>17 DEF CancelledSoFar
  <2>2. /\ DOMAIN E = DOMAIN D /\ E.x = 0 /\ E.phase = "idle" /\ E.kept = Kept(i - 1)
        /\ H = [E EXCEPT !.kept = Kept(i)]
    BY <1>10
  <2>3. w[i] \in Kept(i - 1) /\ Kept(i) = Kept(i - 1) \ {w[i]}
    <3>1. i \in Nat /\ i \in (i - 1) + 1 .. Len(w)
      BY <1>4
    <3>2. \A j \in (i - 1) + 1 .. Len(w) : j = i \/ j \in i + 1 .. Len(w)
      BY <1>4
    <3>3. \A j \in i + 1 .. Len(w) : j \in (i - 1) + 1 .. Len(w) /\ w[j] # w[i]
      BY <1>4, <1>9
    <3> QED BY <3>1, <3>2, <3>3
  <2> HIDE DEF Kept
  <2>4. H = [E EXCEPT !.kept = @ \ {w[i]}]
    BY <2>2, <2>3
  <2> HIDE DEF E, H
  <2> DEFINE put == w[i]
  <2> HIDE DEF put
  <2>5. ClientInv(Forget(TransactionsAnswered(e, put, "disconnect"), put.id), H)
    <3>1. put \in E.kept /\ H = [E EXCEPT !.kept = @ \ {put}]
      BY <2>2, <2>3, <2>4 DEF put
    <3> QED BY <1>10, <2>1, <2>2, <3>1, CancelKeeps
  <2>6. ClientInv(CancelOne(e, w[i], p), H)
    BY <2>5 DEF CancelOne, put
  <2>7. ASSUME NEW M, Remembered(p.idle, {}, M)
        PROVE  Remembered(CancelOne(e, w[i], p), {}, M)
    <3>1. put.txns # << >> /\ put \in E.kept
      BY <1>8, <2>2, <2>3 DEF put
    <3>2. Remembered(e, {}, M)
      BY <2>9, <2>7
    <3>3. /\ DOMAIN E = {"x", "kept", "applied", "down", "phase", "reasons", "online"}
          /\ E.x = 0 /\ E.phase # "open"
      BY <1>10, <2>2
    <3>4. Remembered(Forget(TransactionsAnswered(e, put, "disconnect"), put.id), {}, M)
      BY <2>1, <3>1, <3>2, <3>3, CancelRemembers
    <3> QED BY <3>4 DEF CancelOne, put
  <2>8. ClientInv(CancelOne(e, w[i], p), [p.ground EXCEPT !.kept = Kept(i)])
    BY <1>14, <2>6 DEF H
  <2> QED BY <1>14, <2>7, <2>8 DEF CancelledSoFar, Kept
<1>18. CancelledSoFar(r, Len(w), p)
  BY <1>4, <1>16, <1>17, Cancelling!FoldKeeps DEF r
<1> DEFINE E == [D EXCEPT !.kept = Kept(Len(w))]
<1>19. ClientInv(r, E)
  BY <1>14, <1>18 DEF CancelledSoFar
<1>20. /\ E.x = 0 /\ E.kept = {} /\ E.applied = done /\ E.phase = "idle" /\ E.down = << >>
  BY <1>4, <1>10
<1> HIDE DEF E, Kept
<1>21. Shape(r) /\ Grounded(r, E) /\ r.phase # "open"
  BY <1>19, <1>20 DEF ClientInv, Grounded
<1>22. /\ DOMAIN d = ClientFields
       /\ d.puts = r.puts /\ d.up = r.up /\ d.txn = r.txn
       /\ d.queue = r.queue /\ d.nextId = r.nextId
       /\ d.reasons = r.reasons /\ d.online = r.online
       /\ d.writes = r.writes
       /\ d.phase = IF ShouldReconnect(r) THEN "scheduled" ELSE r.phase
  BY <1>21 DEF ReconnectLater, ScheduleConnect, Shape, ClientFields
<1> HIDE DEF d
<1>23. d.phase # "open" /\ d.phase \in {"idle", "scheduled", "connecting", "open"}
       /\ (ShouldReconnect(d) => d.phase # "idle")
  BY <1>21, <1>22 DEF Shape, ShouldReconnect
<1> DEFINE H == Rest(d, done, << >>)
<1>24. /\ H.x = 0 /\ H.kept = {} /\ H.applied = done /\ H.phase = d.phase
       /\ H.reasons = d.reasons /\ H.online = d.online /\ H.down = << >>
  BY RestFacts
<1> HIDE DEF H
<1>25. ClientInv(d, H)
  BY <1>13, <1>19, <1>20, <1>21, <1>22, <1>23, <1>24, ConnectionChanges
<1>26. ASSUME NEW M, Remembered(s, {}, M) PROVE Remembered(d, {}, M)
  <2>1. Remembered(idle, {}, M)
    BY <1>2, <1>11, <1>26, ConnectionRemembers DEF Shape
  <2>2. Remembered(r, {}, M)
    BY <1>14, <1>18, <2>1 DEF CancelledSoFar
  <2> QED BY <1>21, <1>22, <1>23, <2>2, ConnectionRemembers DEF Shape
<1> QED BY <1>1, <1>23, <1>25, <1>26 DEF H

-----------------------------------------------------------------------------
(* The actions keep the invariant.                                         *)

(* The step keeps what the client remembers.                               *)
Remembers == \A M : Remembered(c, {}, M) => Remembered(c', {}, M)

(* A callback has run on a ground with the messages that are left.         *)
LEMMA CallbackStep ==
  ASSUME RepoInv, applied' = applied, DOMAIN server' = DOMAIN server,
         \A i \in DOMAIN server'.down : IsMessage(server'.down[i]),
         c.phase # "open" => server'.down = << >>,
         ClientInv(c', Rest(c, applied, server'.down))
  PROVE  RepoInv'
<1> DEFINE down == server'.down
           G == Rest(c, applied, down)
           H == Rest(c', applied, down)
           d == c'
<1>1. /\ G.x = 0 /\ G.kept = {} /\ G.applied = applied /\ G.down = down
      /\ G.phase = c.phase /\ G.reasons = c.reasons /\ G.online = c.online
  BY RestFacts
<1>2. /\ H.x = 0 /\ H.kept = {} /\ H.applied = applied /\ H.down = down
      /\ H.phase = d.phase /\ H.reasons = d.reasons /\ H.online = d.online
  BY RestFacts
<1> HIDE DEF G, H, d, down
<1>3. ClientInv(d, G)
  BY DEF G, d, down
<1>4. Shape(d) /\ Grounded(d, G)
  BY <1>3 DEF ClientInv
<1>5. /\ DOMAIN d = ClientFields /\ IsSequence(G.down)
      /\ d.phase \in {"idle", "scheduled", "connecting", "open"}
  BY <1>4 DEF Shape, Grounded
<1>6. ClientInv(d, H)
  <2>1. H.kept \subseteq Range(d.puts) /\ IsSequence(H.down) /\ H.applied = G.applied
        /\ H.down = G.down
    BY <1>1, <1>2, <1>5
  <2> QED BY <1>1, <1>2, <1>3, <1>5, <2>1, ConnectionChanges
<1>7. /\ d.reasons = c.reasons /\ d.online = c.online
      /\ \/ d.phase = c.phase
         \/ c.phase # "open" /\ d.phase = "scheduled"
  <2>1. /\ d.reasons = G.reasons /\ d.online = G.online
        /\ \/ d.phase = G.phase
           \/ G.phase \notin {"connecting", "open"} /\ d.phase = "scheduled"
    BY <1>4 DEF Grounded
  <2> QED BY <1>1, <2>1
<1>8. NeverStuck'
  <2>1. ShouldReconnect(d) => d.phase # "idle"
    BY <1>7 DEF RepoInv, NeverStuck, ShouldReconnect
  <2> QED BY <2>1 DEF NeverStuck, d
<1>9. ClientInv(c', Rest(c', applied', server'.down))
  BY <1>6 DEF H, d, down
<1>10. c'.phase # "open" => server'.down = << >>
  BY <1>7 DEF d
<1>11. DOMAIN server' = {"value", "listening", "down"}
  BY DEF RepoInv
<1> QED BY <1>8, <1>9, <1>10, <1>11 DEF RepoInv

(* A step of the client that leaves the server alone.                      *)
LEMMA ClientStep ==
  ASSUME RepoInv, UNCHANGED <<server, applied>>,
         ClientInv(c', Rest(c, applied, server.down))
  PROVE  RepoInv'
<1>1. /\ DOMAIN server' = DOMAIN server
      /\ \A i \in DOMAIN server'.down : IsMessage(server'.down[i])
      /\ c.phase # "open" => server'.down = << >>
      /\ ClientInv(c', Rest(c, applied, server'.down))
  BY DEF RepoInv
<1> QED BY <1>1, CallbackStep

(* What differs between the client records before and after a change of    *)
(* its connection alone.                                                   *)
OnlyConnection(s, d) ==
  /\ DOMAIN d = ClientFields
  /\ d.puts = s.puts /\ d.up = s.up /\ d.txn = s.txn /\ d.queue = s.queue
  /\ d.nextId = s.nextId /\ d.writes = s.writes
  /\ d.phase \in {"idle", "scheduled", "connecting", "open"}
  /\ d.phase = "open" <=> s.phase = "open"

(* Such a change keeps the invariant.                                      *)
LEMMA OnlyConnectionKeeps ==
  ASSUME NEW s, NEW done, NEW down, ClientInv(s, Rest(s, done, down)),
         NEW d, OnlyConnection(s, d)
  PROVE  ClientInv(d, Rest(d, done, down))
<1> DEFINE G == Rest(s, done, down)
           H == Rest(d, done, down)
<1>1. /\ G.x = 0 /\ G.kept = {} /\ G.applied = done /\ G.down = down
      /\ H.x = 0 /\ H.kept = {} /\ H.applied = done /\ H.down = down
      /\ H.phase = d.phase /\ H.reasons = d.reasons /\ H.online = d.online
  BY RestFacts
<1>2. ClientInv(s, G)
  OBVIOUS
<1> HIDE DEF G, H
<1>3. IsSequence(G.down)
  BY <1>2 DEF ClientInv, Grounded
<1>4. H.kept \subseteq Range(s.puts) /\ IsSequence(H.down) /\ H.applied = G.applied
      /\ H.down = G.down
  BY <1>1, <1>3
<1>5. ClientInv(d, H)
  BY <1>1, <1>2, <1>4, ConnectionChanges DEF OnlyConnection
<1> QED BY <1>5 DEF H

(* It keeps what the client remembers.                                     *)
LEMMA OnlyConnectionRemembers ==
  ASSUME NEW s, NEW A, NEW M, Remembered(s, A, M), NEW d, OnlyConnection(s, d)
  PROVE  Remembered(d, A, M)
<1>1. HasFields(s)
  BY DEF Remembered
<1> QED BY <1>1, ConnectionRemembers DEF OnlyConnection, HasFields

(* A step that changes the connection, without closing it.                 *)
LEMMA ConnectionStep ==
  ASSUME RepoInv, UNCHANGED <<server, applied>>, OnlyConnection(c, c'),
         ShouldReconnect(c') => c'.phase # "idle"
  PROVE  RepoInv' /\ Remembers
<1>1. ClientInv(c', Rest(c', applied, server.down))
  BY OnlyConnectionKeeps DEF RepoInv
<1>2. ClientInv(c', Rest(c', applied', server'.down))
  BY <1>1
<1>3. c'.phase # "open" => server'.down = << >>
  BY DEF RepoInv, OnlyConnection
<1>4. NeverStuck'
  BY DEF NeverStuck
<1>5. Remembers
  BY OnlyConnectionRemembers DEF Remembers
<1> QED BY <1>2, <1>3, <1>4, <1>5 DEF RepoInv

(* A step that closes the connection, if there is one.                     *)
LEMMA ClosingStep ==
  ASSUME RepoInv, NEW i, OnlyConnection(c, i), HasRealtime(i) = HasRealtime(c),
         ShouldReconnect(i) /\ ~HasRealtime(i) => i.phase # "idle",
         c' = Close(i), applied' = applied,
         server' = [server EXCEPT !.down = << >>, !.listening = FALSE]
  PROVE  RepoInv' /\ Remembers
<1>1. DOMAIN server' = {"value", "listening", "down"} /\ server'.down = << >>
  BY DEF RepoInv
<1>2. ClientInv(i, Rest(i, applied, server.down))
  BY OnlyConnectionKeeps DEF RepoInv
<1>3. /\ ClientInv(c', Rest(c', applied, << >>))
      /\ ShouldReconnect(c') => c'.phase # "idle"
      /\ \A M : Remembered(i, {}, M) => Remembered(c', {}, M)
  <2>1. CASE HasRealtime(i)
    <3>1. c' = OnRealtimeDisconnect(i)
      BY <2>1 DEF Close
    <3>2. /\ ClientInv(OnRealtimeDisconnect(i), Rest(OnRealtimeDisconnect(i), applied, << >>))
          /\ ShouldReconnect(OnRealtimeDisconnect(i)) => OnRealtimeDisconnect(i).phase # "idle"
          /\ \A M : Remembered(i, {}, M) => Remembered(OnRealtimeDisconnect(i), {}, M)
      BY <1>2, OnRealtimeDisconnectKeeps
    <3> QED BY <3>1, <3>2
  <2>2. CASE ~HasRealtime(i)
    <3>1. c' = i /\ c.phase # "open"
      BY <2>2 DEF Close, HasRealtime
    <3>2. server.down = << >>
      BY <3>1 DEF RepoInv
    <3> QED BY <1>2, <2>2, <3>1, <3>2
  <2> QED BY <2>1, <2>2
<1>4. ClientInv(c', Rest(c', applied', server'.down))
  BY <1>1, <1>3
<1>5. NeverStuck'
  BY <1>3 DEF NeverStuck
<1>6. \A j \in DOMAIN server'.down : IsMessage(server'.down[j])
  BY <1>1
<1>7. Remembers
  <2>1. \A M : Remembered(c, {}, M) => Remembered(i, {}, M)
    BY OnlyConnectionRemembers
  <2> QED BY <1>3, <2>1 DEF Remembers
<1> QED BY <1>1, <1>4, <1>5, <1>6, <1>7 DEF RepoInv

(* The actions that may close the connection: goOffline(), ...             *)
LEMMA GoOfflineKeeps ==
  ASSUME RepoInv, GoOffline
  PROVE  RepoInv' /\ Remembers
<1> DEFINE i == Interrupt(c, "repo_interrupt")
<1>1. Shape(c)
  BY DEF RepoInv, ClientInv
<1>2. OnlyConnection(c, i) /\ HasRealtime(i) = HasRealtime(c) /\ ~ShouldReconnect(i)
  BY <1>1 DEF Interrupt, OnlyConnection, HasRealtime, ShouldReconnect, Shape, ClientFields
<1>3. /\ c' = Close(i) /\ applied' = applied
      /\ server' = [server EXCEPT !.down = << >>, !.listening = FALSE]
  BY DEF GoOffline
<1> HIDE DEF i
<1> QED BY <1>2, <1>3, ClosingStep

(* ... a kill by the server, ...                                           *)
LEMMA ServerKillsKeeps ==
  ASSUME RepoInv, ServerKills
  PROVE  RepoInv' /\ Remembers
<1> DEFINE i == Interrupt(c, "server_kill")
<1>1. Shape(c)
  BY DEF RepoInv, ClientInv
<1>2. OnlyConnection(c, i) /\ HasRealtime(i) = HasRealtime(c) /\ ~ShouldReconnect(i)
  BY <1>1 DEF Interrupt, OnlyConnection, HasRealtime, ShouldReconnect, Shape, ClientFields
<1>3. /\ c' = Close(i) /\ applied' = applied
      /\ server' = [server EXCEPT !.down = << >>, !.listening = FALSE]
  BY DEF ServerKills
<1> HIDE DEF i
<1> QED BY <1>2, <1>3, ClosingStep

(* ... the browser's offline event, ...                                    *)
LEMMA BrowserGoesOfflineKeeps ==
  ASSUME RepoInv, BrowserGoesOffline
  PROVE  RepoInv' /\ Remembers
<1> DEFINE i == OnOnline(c, FALSE)
<1>1. Shape(c)
  BY DEF RepoInv, ClientInv
<1>2. OnlyConnection(c, i) /\ HasRealtime(i) = HasRealtime(c) /\ ~ShouldReconnect(i)
  BY <1>1 DEF OnOnline, OnlyConnection, HasRealtime, ShouldReconnect, Shape, ClientFields
<1>3. /\ c' = Close(i) /\ applied' = applied
      /\ server' = [server EXCEPT !.down = << >>, !.listening = FALSE]
  BY DEF BrowserGoesOffline
<1> HIDE DEF i
<1> QED BY <1>2, <1>3, ClosingStep

(* ... and a connection that breaks.                                       *)
LEMMA ConnectionIsLostKeeps ==
  ASSUME RepoInv, ConnectionIsLost
  PROVE  RepoInv' /\ Remembers
<1>1. OnlyConnection(c, c)
  BY DEF RepoInv, ClientInv, Shape, OnlyConnection
<1>2. HasRealtime(c) /\ c' = Close(c)
  BY DEF ConnectionIsLost, Close
<1> QED BY <1>1, <1>2, ClosingStep DEF ConnectionIsLost

(* The actions that bring it about: goOnline(), ...                        *)
LEMMA GoOnlineKeeps ==
  ASSUME RepoInv, GoOnline
  PROVE  RepoInv' /\ Remembers
<1>1. Shape(c)
  BY DEF RepoInv, ClientInv
<1>2. OnlyConnection(c, Resume(c, "repo_interrupt"))
      /\ (ShouldReconnect(Resume(c, "repo_interrupt"))
            => Resume(c, "repo_interrupt").phase # "idle")
  BY <1>1 DEF Resume, ScheduleConnect, OnlyConnection, HasRealtime, ShouldReconnect, Shape,
              ClientFields
<1> QED BY <1>2, ConnectionStep DEF GoOnline

(* ... the browser's online event, ...                                     *)
LEMMA BrowserGoesOnlineKeeps ==
  ASSUME RepoInv, BrowserGoesOnline
  PROVE  RepoInv' /\ Remembers
<1>1. Shape(c)
  BY DEF RepoInv, ClientInv
<1>2. OnlyConnection(c, OnOnline(c, TRUE)) /\ OnOnline(c, TRUE).phase # "idle"
  BY <1>1 DEF OnOnline, ScheduleConnect, OnlyConnection, HasRealtime, Shape, ClientFields
<1> QED BY <1>2, ConnectionStep DEF BrowserGoesOnline

(* ... and the timer of scheduleConnect_.                                  *)
LEMMA TimerFiresKeeps ==
  ASSUME RepoInv, TimerFires
  PROVE  RepoInv' /\ Remembers
<1>1. Shape(c) /\ c.phase = "scheduled"
  BY DEF RepoInv, ClientInv, TimerFires
<1>2. OnlyConnection(c, EstablishConnection(c))
      /\ (ShouldReconnect(EstablishConnection(c)) => EstablishConnection(c).phase # "idle")
  BY <1>1 DEF EstablishConnection, OnlyConnection, ShouldReconnect, Shape, ClientFields
<1> QED BY <1>2, ConnectionStep DEF TimerFires

(* set()                                                                   *)
LEMMA SetValueKeeps ==
  ASSUME RepoInv, NEW path, SetValue(path)
  PROVE  RepoInv'
<1> DEFINE G == Rest(c, applied, server.down)
           data == [l \in path |-> [base |-> count.sets + 1, txns |-> {}]]
           seen == ApplyUserOverwrite(c, data)
           put  == [id |-> c.nextId, data |-> data, hash |-> NoHash,
                    txns |-> << >>, write |-> c.nextId, queued |-> FALSE]
           s == PutInternal(seen, put)
<1>1. ClientInv(c, G) /\ G.x = 0 /\ c.nextId \in Nat \ {0}
  BY RestFacts, FieldFacts DEF RepoInv
<1>2. \A i \in DOMAIN c.puts : c.puts[i].id < c.nextId
  BY <1>1 DEF ClientInv, InOrder
<1>3. c' = RerunTransactions(AbortTransactions(s, path), AncestorWithQueue(c, path))
      /\ UNCHANGED <<server, applied>>
  BY DEF SetValue
<1>4. IsPut(put) /\ ~put.queued /\ put.id = c.nextId /\ put.txns = << >>
  BY <1>1 DEF IsPut
<1> HIDE DEF data, put, G
<1>5. ClientInv(seen, G) /\ SamePuts(c, seen) /\ seen.nextId = c.nextId + 1
  BY <1>1, ApplyUserOverwriteKeeps
<1> HIDE DEF seen
<1>6. ClientInv(s, G)
  <2>1. put.id < seen.nextId /\ put.id # G.x
    BY <1>1, <1>4, <1>5
  <2>2. \A i \in DOMAIN seen.puts : seen.puts[i].id < put.id
    BY <1>2, <1>4, <1>5 DEF SamePuts
  <2>3. Range(put.txns) = {}
    BY <1>4 DEF Range
  <2> QED BY <1>4, <1>5, <2>1, <2>2, <2>3, AddPut
<1> HIDE DEF s
<1>7. ClientInv(c', G)
  BY <1>3, <1>6, AbortTransactionsKeeps, RerunTransactionsKeeps
<1> QED BY <1>3, <1>7, ClientStep DEF G

(* transaction()                                                           *)
LEMMA StartTransactionKeeps ==
  ASSUME RepoInv, NEW t \in Txns, NEW path, StartTransaction(t, path)
  PROVE  RepoInv' /\ Remembers
<1> DEFINE G == Rest(c, applied, server.down)
           out == Update(t, LatestState(c, path, {}))
           s == [c EXCEPT !.txn[t].path = path, !.queue = Append(@, t)]
           e == [c EXCEPT !.txn[t] = [@ EXCEPT !.status = "COMPLETED",
                                               !.path = path, !.outcome = "nodata"]]
<1>1. ClientInv(c, G) /\ HasTransactions(c) /\ c.nextId \in Nat
  BY FieldFacts DEF RepoInv
<1>2. /\ c.txn[t] = NewTransaction /\ UNCHANGED <<server, applied>>
      /\ c' = IF out = NoHash THEN e ELSE SendReadyTransactions(Ran(s, t, out))
  BY DEF StartTransaction
<1> HIDE DEF out, G
<1>3. /\ c.txn[t].status = "NEW" /\ c.txn[t].outcome = "none" /\ DOMAIN c.txn[t] = TxnFields
      /\ Unsent(c.txn[t])
  <2>1. NewTransaction.status = "NEW" /\ NewTransaction.outcome = "none"
        /\ DOMAIN NewTransaction = TxnFields
    BY DEF NewTransaction, TxnFields
  <2> QED BY <1>2, <2>1 DEF Unsent
<1>4. /\ DOMAIN s = ClientFields /\ s.queue = Append(c.queue, t)
      /\ s.txn = [c.txn EXCEPT ![t] = [c.txn[t] EXCEPT !.path = path]]
      /\ s.phase = c.phase /\ s.reasons = c.reasons /\ s.online = c.online
      /\ s.puts = c.puts /\ s.up = c.up /\ s.nextId = c.nextId
      /\ s.writes = c.writes
  BY <1>1 DEF HasTransactions, ClientFields
<1>5. /\ DOMAIN e = ClientFields /\ e.queue = c.queue
      /\ e.txn = [c.txn EXCEPT ![t] = [c.txn[t] EXCEPT !.status = "COMPLETED",
                                         !.path = path, !.outcome = "nodata"]]
      /\ e.phase = c.phase /\ e.reasons = c.reasons /\ e.online = c.online
      /\ e.puts = c.puts /\ e.up = c.up /\ e.nextId = c.nextId
      /\ e.writes = c.writes
  BY <1>1 DEF HasTransactions, ClientFields
<1> HIDE DEF s, e
<1>6. /\ DOMAIN s.txn = Txns /\ \A u \in Txns : u # t => s.txn[u] = c.txn[u]
      /\ DOMAIN s.txn[t] = TxnFields /\ s.txn[t].status = "NEW" /\ s.txn[t].outcome = "none"
  BY <1>1, <1>3, <1>4 DEF HasTransactions, TxnFields
<1>7. /\ DOMAIN e.txn = Txns /\ \A u \in Txns : u # t => e.txn[u] = c.txn[u]
      /\ DOMAIN e.txn[t] = TxnFields /\ e.txn[t].status = "COMPLETED"
      /\ e.txn[t].outcome = "nodata"
  BY <1>1, <1>3, <1>5 DEF HasTransactions, TxnFields
<1>8. ClientInv(s, G)
  <2>1. s.queue \in Seq(Txns)
    BY <1>1, <1>4 DEF HasTransactions
  <2>2. HasTransactions(s) /\ SamePuts(c, s)
    BY <1>1, <1>4, <1>6, <2>1 DEF HasTransactions, SamePuts
  <2>3. \A u \in Txns : Moves(c, s, G, u)
    BY <1>3, <1>6 DEF Moves, Unsent
  <2> QED BY <1>1, <2>2, <2>3, MovesKeep
<1>9. ClientInv(e, G)
  <2>1. HasTransactions(e) /\ SamePuts(c, e)
    BY <1>1, <1>5, <1>7 DEF HasTransactions, SamePuts
  <2>2. \A u \in Txns : Moves(c, e, G, u)
    BY <1>3, <1>7 DEF Moves, Unsent, Aborts
  <2> QED BY <1>1, <2>1, <2>2, MovesKeep
<1>10. ClientInv(Ran(s, t, out), G)
  BY <1>6, <1>8, RanKeeps DEF Unsent
<1>11. ClientInv(c', G)
  BY <1>2, <1>9, <1>10, SendReadyTransactionsKeeps
<1>12. RepoInv'
  BY <1>2, <1>11, ClientStep DEF G
<1>13. Uncarried(c, t)
  <2> SUFFICES ASSUME NEW i \in DOMAIN c.puts, t \in Range(c.puts[i].txns) PROVE FALSE
    BY DEF Uncarried, Carries
  <2>1. OnTheWire(c.txn[t]) \/ Doubtful(c.txn[t])
    BY <1>1 DEF ClientInv, Exclusive
  <2> QED BY <1>3, <2>1 DEF OnTheWire, Doubtful
<1>14. NewTransaction.write = 0
  BY DEF NewTransaction
<1>15. ASSUME NEW M, Remembered(c, {}, M) PROVE Remembered(c', {}, M)
  <2> DEFINE none == {}
             r == Ran(s, t, out)
  <2> HIDE DEF none
  <2>1. Remembered(c, none, M) /\ IsSequence(c.writes) /\ c.txn[t].write = 0
    BY <1>2, <1>14, <1>15 DEF none, Remembered, HasFields
  <2>2. 0 \notin Ids(c.writes)
    <3>1. 0 \notin SetIds(c)
      BY <1>1, <2>1 DEF Remembered, Numbered
    <3> QED BY <2>1, <3>1 DEF Remembered, Numbered, Pending
  <2>3. none \ {t} = none
    BY DEF none
  <2>4. Remembered(e, none, M)
    <3>1. HasTransactions(e)
      BY <1>1, <1>5, <1>7 DEF HasTransactions
    <3>2. Ids(e.writes) = Ids(c.writes) \ {c.txn[t].write} /\ IsSequence(e.writes)
      BY <1>5, <2>1, <2>2
    <3>3. e.txn[t].write = 0
      BY <1>1, <1>5, <2>1 DEF HasTransactions, TxnFields
    <3>4. Remembered(e, none \ {t}, M)
      BY <1>5, <1>7, <1>13, <2>1, <3>1, <3>2, <3>3, Released
    <3> QED BY <2>3, <3>4
  <2>5. ASSUME out # NoHash PROVE Remembered(r, none, M)
    <3>1. path # {}
      BY <2>5 DEF out, Update, LatestState, At, NoHash
    <3>2. s.queue \in Seq(Txns) /\ \A u \in Range(c.queue) \cup {t} : u \in Range(s.queue)
      <4>1. c.queue \in Seq(Txns) /\ IsSequence(c.queue)
        BY <1>1 DEF HasTransactions, IsSequence
      <4>2. s.queue \in Seq(Txns)
        BY <1>4, <4>1
      <4>3. /\ Len(c.queue) \in Nat /\ DOMAIN c.queue = 1 .. Len(c.queue)
            /\ DOMAIN s.queue = 1 .. Len(c.queue) + 1
            /\ \A i \in 1 .. Len(c.queue) : s.queue[i] = c.queue[i]
            /\ s.queue[Len(c.queue) + 1] = t
        BY <1>4, <4>1, AppendFacts
      <4>4. /\ Len(c.queue) + 1 \in DOMAIN s.queue
            /\ \A i \in 1 .. Len(c.queue) : i \in DOMAIN s.queue
        BY <4>3
      <4> QED BY <4>2, <4>3, <4>4 DEF Range
    <3>3. HasTransactions(s) /\ IsSequence(s.writes) /\ s.nextId \in Nat
      BY <1>1, <1>4, <1>6, <2>1, <3>2 DEF HasTransactions
    <3>4. /\ HasTransactions(r) /\ r.phase = s.phase /\ r.puts = s.puts
          /\ r.queue = s.queue /\ r.nextId = s.nextId + 1
          /\ IsSequence(r.writes) /\ Ids(r.writes) = Ids(s.writes) \cup {s.nextId}
          /\ r.txn[t].write = s.nextId /\ r.txn[t].status = "RUN"
          /\ r.txn[t].path = s.txn[t].path
          /\ \A u \in Txns : u # t => r.txn[u] = s.txn[u]
      BY <3>3, RanFacts
    <3> HIDE DEF r
    <3>5. s.txn[t].path = path
      BY <1>1, <1>4 DEF HasTransactions, TxnFields
    <3>6. /\ r.phase = c.phase /\ r.puts = c.puts /\ r.nextId = c.nextId + 1
          /\ \A u \in Range(c.queue) \cup {t} : u \in Range(r.queue)
          /\ r.txn[t].write = c.nextId /\ r.txn[t].path # {}
          /\ \A u \in Txns : u # t => r.txn[u] = c.txn[u]
      BY <1>4, <1>6, <3>1, <3>2, <3>4, <3>5
    <3>7. Ids(r.writes) = (Ids(c.writes) \ {c.txn[t].write}) \cup {c.nextId}
      BY <1>4, <2>1, <2>2, <3>4
    <3>8. Remembered(r, none \ {t}, M)
      BY <1>13, <2>1, <3>4, <3>6, <3>7, Acquired
    <3> QED BY <2>3, <3>8
  <2> HIDE DEF r
  <2>6. out # NoHash => Remembered(SendReadyTransactions(r), none, M)
    BY <2>5, SendReadyRemembers
  <2> QED BY <1>2, <2>4, <2>6 DEF none, r
<1> QED BY <1>12, <1>15 DEF Remembers

(* restoreState_: the requests are one for the listen and one for each put *)
(* in their order.                                                         *)
SendNext(d, put, p) == SendPut(d, put)

RestoredSoFar(d, i, p) ==
  /\ DOMAIN d = ClientFields /\ d.puts = p.sent.puts /\ d.txn = p.sent.txn
  /\ d.queue = p.sent.queue /\ d.nextId = p.sent.nextId /\ d.phase = p.sent.phase
  /\ d.writes = p.sent.writes
  /\ d.reasons = p.sent.reasons /\ d.online = p.sent.online
  /\ IsSequence(d.up) /\ Len(d.up) = i + 1 /\ d.up[1].kind = "listen"
  /\ \A j \in 1 .. i : d.up[j + 1].kind = "put" /\ d.up[j + 1].put = p.puts[j]
  /\ Len(PutsIn(d.up)) = i /\ IsSequence(PutsIn(d.up))
  /\ \A j \in 1 .. i : PutsIn(d.up)[j].put = p.puts[j]

Restoring == INSTANCE FoldTheorems WITH Op <- SendNext, Inv <- RestoredSoFar

(* restoreState_ leaves one request for every put, after the listen.       *)
LEMMA OnReadyFields ==
  ASSUME NEW s, Shape(s)
  PROVE  LET d == OnReady(s)
             n == Len(s.puts)
         IN  /\ DOMAIN d = ClientFields /\ d.phase = "open" /\ d.reasons = s.reasons
             /\ d.online = s.online /\ d.txn = s.txn /\ d.queue = s.queue
             /\ d.nextId = s.nextId /\ d.writes = s.writes
             /\ d.puts = [i \in 1 .. n |-> [s.puts[i] EXCEPT !.queued = TRUE]]
             /\ IsSequence(d.up) /\ Len(d.up) = n + 1 /\ d.up[1].kind = "listen"
             /\ \A j \in 1 .. n : d.up[j + 1].kind = "put" /\ d.up[j + 1].put = s.puts[j]
             /\ Len(PutsIn(d.up)) = n
             /\ \A j \in 1 .. n : PutsIn(d.up)[j].put = s.puts[j]
<1> DEFINE n == Len(s.puts)
           listen == [kind |-> "listen", hash |-> s.cache]
           queued == [i \in DOMAIN s.puts |-> [s.puts[i] EXCEPT !.queued = TRUE]]
           open == [s EXCEPT !.phase = "open", !.first = FALSE]
           sent == [open EXCEPT !.puts = queued, !.up = <<listen>>]
           w == s.puts
           p == [sent |-> sent, puts |-> w]
           d == Restoring!Run(sent, w, p)
<1>1. /\ DOMAIN open = ClientFields /\ open.phase = "open" /\ open.reasons = s.reasons
      /\ open.online = s.online /\ open.txn = s.txn /\ open.queue = s.queue
      /\ open.nextId = s.nextId /\ open.puts = s.puts /\ open.cache = s.cache
      /\ open.writes = s.writes
  BY DEF Shape, ClientFields
<1>2. OnReady(s) = d
  <2> HIDE DEF open
  <2>1. OnReady(s) = FoldLeft(SendPut, sent, w)
    BY <1>1 DEF OnReady, RestoreState, open, FoldLeft, MapThenFoldSet
  <2> HIDE DEF sent, w
  <2> QED BY <2>1 DEF SendNext, FoldLeft, MapThenFoldSet, Max, Restoring!Run,
             Restoring!Last
<1> HIDE DEF open
<1>3. /\ DOMAIN sent = ClientFields /\ sent.phase = "open" /\ sent.reasons = s.reasons
      /\ sent.online = s.online /\ sent.txn = s.txn /\ sent.queue = s.queue
      /\ sent.nextId = s.nextId /\ sent.puts = queued /\ sent.up = <<listen>>
      /\ sent.writes = s.writes
  BY <1>1 DEF ClientFields
<1>4. IsSequence(w) /\ n \in Nat /\ DOMAIN w = 1 .. n
  BY SequenceFacts DEF Shape
<1>5. p.sent = sent /\ p.puts = w
  OBVIOUS
<1>6. listen.kind = "listen"
  OBVIOUS
<1> HIDE DEF sent, p, w, d, listen, n, queued
<1>7. RestoredSoFar(sent, 0, p)
  <2> DEFINE u == <<listen>>
  <2>1. IsSequence(u) /\ Len(u) = 1 /\ u[1] = listen
    BY OfKindOne
  <2>2. PutsIn(u) = << >>
    <3>1. OfKind(<<listen>>, "put") = << >>
      BY <1>6, OfKindOne
    <3> QED BY <3>1 DEF PutsIn, OfKind
  <2>3. Len(<< >>) = 0 /\ IsSequence(<< >>)
    BY OfKindOne
  <2> HIDE DEF u
  <2>4. sent.up = u
    BY <1>3 DEF u
  <2> QED BY <1>3, <1>5, <1>6, <2>1, <2>2, <2>3, <2>4 DEF RestoredSoFar
<1>8. ASSUME NEW i \in 1 .. n, NEW e, RestoredSoFar(e, i - 1, p)
      PROVE  RestoredSoFar(SendNext(e, w[i], p), i, p)
  <2> DEFINE r == [kind |-> "put", put |-> w[i]]
             f == SendNext(e, w[i], p)
             P == PutsIn(e.up)
  <2>1. /\ IsSequence(e.up) /\ Len(e.up) = (i - 1) + 1 /\ e.up[1].kind = "listen"
        /\ \A j \in 1 .. i - 1 : e.up[j + 1].kind = "put" /\ e.up[j + 1].put = p.puts[j]
        /\ Len(P) = i - 1 /\ IsSequence(P)
        /\ \A j \in 1 .. i - 1 : P[j].put = p.puts[j]
    BY <1>8 DEF RestoredSoFar
  <2>2. /\ DOMAIN f = ClientFields /\ f.puts = e.puts /\ f.txn = e.txn
        /\ f.queue = e.queue /\ f.nextId = e.nextId /\ f.phase = e.phase
        /\ f.reasons = e.reasons /\ f.online = e.online /\ f.writes = e.writes
        /\ f.up = Append(e.up, r)
    BY <1>8 DEF SendNext, SendPut, RestoredSoFar, ClientFields
  <2>3. r.kind = "put" /\ r.put = p.puts[i]
    BY <1>5
  <2> HIDE DEF r, f, P
  <2>4. PutsIn(f.up) = Append(P, r)
    BY <2>1, <2>2, <2>3, PutsInAppend DEF P
  <2>5. /\ IsSequence(f.up) /\ Len(f.up) = i + 1
        /\ \A j \in 1 .. i : f.up[j] = e.up[j]
        /\ f.up[i + 1] = r
    <3>1. /\ IsSequence(f.up) /\ Len(f.up) = Len(e.up) + 1
          /\ \A j \in 1 .. Len(e.up) : f.up[j] = e.up[j]
          /\ f.up[Len(e.up) + 1] = r
      BY <2>1, <2>2, AppendFacts
    <3>2. Len(e.up) = i
      BY <1>4, <2>1
    <3> QED BY <3>1, <3>2
  <2>6. /\ IsSequence(PutsIn(f.up)) /\ Len(PutsIn(f.up)) = i
        /\ \A j \in 1 .. i - 1 : PutsIn(f.up)[j] = P[j]
        /\ PutsIn(f.up)[i] = r
    <3>1. /\ IsSequence(Append(P, r)) /\ Len(Append(P, r)) = Len(P) + 1
          /\ \A j \in 1 .. Len(P) : Append(P, r)[j] = P[j]
          /\ Append(P, r)[Len(P) + 1] = r
      BY <2>1, AppendFacts
    <3>2. Len(P) = i - 1 /\ (i - 1) + 1 = i
      BY <1>4, <2>1
    <3> QED BY <2>4, <3>1, <3>2
  <2>7. ASSUME NEW j \in 1 .. i
        PROVE  /\ f.up[j + 1].kind = "put" /\ f.up[j + 1].put = p.puts[j]
               /\ PutsIn(f.up)[j].put = p.puts[j]
    <3>1. CASE j = i
      BY <2>3, <2>5, <2>6, <3>1
    <3>2. CASE j # i
      <4>1. j \in 1 .. i - 1 /\ j + 1 \in 1 .. i
        BY <1>4, <3>2
      <4> QED BY <2>1, <2>5, <2>6, <4>1
    <3> QED BY <3>1, <3>2
  <2>8. f.up[1].kind = "listen"
    <3>1. 1 \in 1 .. i
      BY <1>4
    <3> QED BY <2>1, <2>5, <3>1
  <2>9. RestoredSoFar(f, i, p)
    BY <1>8, <2>2, <2>5, <2>6, <2>7, <2>8 DEF RestoredSoFar
  <2> QED BY <2>9 DEF f
<1>9. RestoredSoFar(d, n, p)
  <2>1. PICK R : w \in Seq(R)
    BY <1>4 DEF IsSequence
  <2> QED BY <1>7, <1>8, <2>1, Restoring!FoldKeeps DEF d, n, w
<1>10. queued = [i \in 1 .. n |-> [s.puts[i] EXCEPT !.queued = TRUE]]
  BY <1>4 DEF queued, w
<1> QED BY <1>2, <1>3, <1>5, <1>9, <1>10 DEF RestoredSoFar, w, n

(* The handshake is over.                                                  *)
LEMMA ConnectionIsReadyKeeps ==
  ASSUME RepoInv, ConnectionIsReady
  PROVE  RepoInv' /\ Remembers
<1> DEFINE d == OnReady(c)
           n == Len(c.puts)
           G == Rest(c, applied, << >>)
           H == Rest(d, applied, << >>)
<1>1. /\ c.phase = "connecting" /\ c' = d /\ UNCHANGED <<server, applied>>
      /\ server.down = << >>
  BY DEF ConnectionIsReady, RepoInv
<1>2. /\ Shape(c) /\ InOrder(c) /\ Exclusive(c, G) /\ Counted(c, G) /\ Unqueued(c, G)
  BY <1>1 DEF RepoInv, ClientInv
<1>3. G.x = 0 /\ G.kept = {} /\ G.applied = applied
  BY RestFacts
<1>4. /\ H.x = 0 /\ H.kept = {} /\ H.applied = applied /\ H.down = << >>
      /\ H.phase = d.phase /\ H.reasons = d.reasons /\ H.online = d.online
  BY RestFacts
<1>5. /\ DOMAIN d = ClientFields /\ d.phase = "open" /\ d.reasons = c.reasons
      /\ d.online = c.online /\ d.txn = c.txn /\ d.queue = c.queue
      /\ d.nextId = c.nextId /\ d.writes = c.writes
      /\ d.puts = [i \in 1 .. n |-> [c.puts[i] EXCEPT !.queued = TRUE]]
      /\ IsSequence(d.up) /\ Len(d.up) = n + 1 /\ d.up[1].kind = "listen"
      /\ \A j \in 1 .. n : d.up[j + 1].kind = "put" /\ d.up[j + 1].put = c.puts[j]
      /\ Len(PutsIn(d.up)) = n
      /\ \A j \in 1 .. n : PutsIn(d.up)[j].put = c.puts[j]
  BY <1>2, OnReadyFields
<1> HIDE DEF d, G, H
<1>6. IsSequence(c.puts) /\ n \in Nat /\ DOMAIN c.puts = 1 .. n
  BY <1>2, SequenceFacts DEF Shape
<1>7. /\ DOMAIN d.puts = 1 .. n /\ IsSequence(d.puts) /\ Len(d.puts) = n
      /\ \A i \in 1 .. n : d.puts[i] = [c.puts[i] EXCEPT !.queued = TRUE]
  <2> DEFINE T == {[c.puts[i] EXCEPT !.queued = TRUE] : i \in 1 .. n}
  <2>0. d.puts = [i \in 1 .. n |-> [c.puts[i] EXCEPT !.queued = TRUE]]
    BY <1>5
  <2>1. d.puts \in [1 .. n -> T]
    BY <2>0
  <2>2. DOMAIN d.puts = 1 .. n /\ \A i \in 1 .. n : d.puts[i] = [c.puts[i] EXCEPT !.queued = TRUE]
    BY <1>5
  <2> HIDE DEF T, n
  <2>3. d.puts \in Seq(T)
    BY <1>6, <2>1, SeqDef
  <2>4. Len(d.puts) = n
    BY <1>6, <2>2, <2>3, LenProperties
  <2> QED BY <2>2, <2>3, <2>4 DEF IsSequence
<1>8. DOMAIN d.up = 1 .. n + 1
  BY <1>5, SequenceFacts
<1> HIDE DEF n
<1>9. \A i \in 1 .. n : /\ IsPut(c.puts[i]) /\ IsPut(d.puts[i]) /\ d.puts[i].queued
                        /\ d.puts[i].id = c.puts[i].id /\ d.puts[i].txns = c.puts[i].txns
                        /\ d.puts[i].write = c.puts[i].write /\ d.puts[i].data = c.puts[i].data
  <2> SUFFICES ASSUME NEW i \in 1 .. n
               PROVE  /\ IsPut(c.puts[i]) /\ IsPut(d.puts[i]) /\ d.puts[i].queued
                      /\ d.puts[i].id = c.puts[i].id /\ d.puts[i].txns = c.puts[i].txns
                      /\ d.puts[i].write = c.puts[i].write /\ d.puts[i].data = c.puts[i].data
    OBVIOUS
  <2>1. IsPut(c.puts[i]) /\ d.puts[i] = [c.puts[i] EXCEPT !.queued = TRUE]
    BY <1>2, <1>6, <1>7 DEF Shape
  <2> QED BY <2>1 DEF IsPut
<1>10. \A k \in 1 .. n + 1 : k = 1 \/ (k - 1 \in 1 .. n /\ (k - 1) + 1 = k)
  BY <1>6
<1>11. ASSUME NEW k \in DOMAIN d.up, NEW t, Requests(d, k, t)
       PROVE  k - 1 \in DOMAIN c.puts /\ Carries(c.puts[k - 1], t) /\ k \in Nat
  <2>1. k # 1
    BY <1>5, <1>11 DEF Requests
  <2>2. k - 1 \in 1 .. n /\ (k - 1) + 1 = k
    BY <1>8, <1>10, <2>1
  <2>3. d.up[(k - 1) + 1].put = c.puts[k - 1]
    BY <1>5, <2>2
  <2> QED BY <1>6, <1>8, <1>11, <2>2, <2>3 DEF Requests
<1>12. ASSUME NEW i \in DOMAIN c.puts, NEW t, Carries(c.puts[i], t)
       PROVE  /\ OnTheWire(c.txn[t]) /\ applied[t] = 0
              /\ \A j \in DOMAIN c.puts : Carries(c.puts[j], t) => j = i
  <2>1. c.puts[i].id # G.x /\ t \in Range(c.puts[i].txns)
    BY <1>3, <1>6, <1>9, <1>12 DEF IsPut, Carries
  <2>2. /\ OnTheWire(c.txn[t])
        /\ \A j \in DOMAIN c.puts : Carries(c.puts[j], t) => j = i
    BY <1>2, <2>1 DEF Exclusive
  <2>3. Untried(c, G, t)
    <3>1. c.puts[i].txns # << >>
      BY <2>1 DEF Range
    <3> QED BY <1>1, <1>2, <1>3, <2>1, <3>1 DEF Unqueued
  <2> QED BY <1>3, <2>2, <2>3 DEF Untried
<1>13. Shape(d)
  <2>0. /\ DOMAIN d = ClientFields /\ d.phase = "open"
        /\ IsSequence(d.puts) /\ IsSequence(d.up) /\ d.up[1].kind = "listen"
    BY <1>5, <1>7
  <2>4. \A j \in 1 .. n : d.up[j + 1].kind = "put" /\ d.up[j + 1].put = c.puts[j]
    BY <1>5
  <2>1. \A i \in DOMAIN d.puts : IsPut(d.puts[i])
    BY <1>7, <1>9
  <2> HIDE DEF n
  <2>2. \A k \in DOMAIN d.up : IsRequest(d.up[k])
    <3> SUFFICES ASSUME NEW k \in 1 .. n + 1 PROVE IsRequest(d.up[k])
      BY <1>8
    <3>1. CASE k = 1
      BY <2>0, <3>1 DEF IsRequest
    <3>2. CASE k # 1
      <4>1. k - 1 \in 1 .. n /\ (k - 1) + 1 = k
        BY <1>10, <3>2
      <4>2. d.up[k].kind = "put" /\ d.up[k].put = c.puts[k - 1]
        <5>1. d.up[(k - 1) + 1].kind = "put" /\ d.up[(k - 1) + 1].put = c.puts[k - 1]
          BY <2>4, <4>1
        <5> QED BY <4>1, <5>1
      <4> QED BY <1>9, <4>1, <4>2 DEF IsRequest
    <3> QED BY <3>1, <3>2
  <2>3. /\ d.queue \in Seq(Txns) /\ d.nextId \in Nat \ {0} /\ DOMAIN d.txn = Txns
        /\ \A t \in Txns : DOMAIN d.txn[t] = TxnFields
    BY <1>2, <1>5 DEF Shape
  <2> QED BY <2>0, <2>1, <2>2, <2>3 DEF Shape
<1>14. InOrder(d)
  BY <1>2, <1>5, <1>6, <1>7, <1>9 DEF InOrder
<1>15. Exclusive(d, H)
  <2> SUFFICES ASSUME NEW i \in 1 .. n, NEW t \in Range(d.puts[i].txns)
               PROVE  /\ OnTheWire(d.txn[t]) /\ d.puts[i].id # H.x
                      /\ \A j \in 1 .. n : Carries(d.puts[j], t) => j = i
    BY <1>7 DEF Exclusive
  <2>1. Carries(c.puts[i], t) /\ i \in DOMAIN c.puts
    BY <1>6, <1>9 DEF Carries
  <2>2. d.puts[i].id # H.x
    BY <1>4, <1>9 DEF IsPut
  <2> QED BY <1>5, <1>6, <1>9, <1>12, <2>1, <2>2 DEF Carries
<1>16. Counted(d, H)
  <2> SUFFICES ASSUME NEW t \in Txns
               PROVE  /\ \/ Unsent(d.txn[t]) /\ Untried(d, H, t)
                         \/ OnTheWire(d.txn[t]) \/ Doubtful(d.txn[t])
                         \/ Committed(d.txn[t]) /\ H.applied[t] = 1
                      /\ H.applied[t] \in {0, 1}
                      /\ \A k \in DOMAIN d.up :
                           Requests(d, k, t) =>
                             /\ H.applied[t] = 0
                             /\ \A l \in DOMAIN d.up : Requests(d, l, t) => l = k
    BY DEF Counted
  <2>1. /\ \/ Unsent(c.txn[t]) /\ G.applied[t] = 0
           \/ OnTheWire(c.txn[t]) \/ Doubtful(c.txn[t])
           \/ Committed(c.txn[t]) /\ G.applied[t] = 1
        /\ G.applied[t] \in {0, 1}
    BY <1>2 DEF Counted, Untried
  <2>2. ASSUME NEW k \in DOMAIN d.up, Requests(d, k, t)
        PROVE  /\ OnTheWire(c.txn[t]) /\ applied[t] = 0
               /\ \A l \in DOMAIN d.up : Requests(d, l, t) => l = k
    <3>1. k - 1 \in DOMAIN c.puts /\ Carries(c.puts[k - 1], t) /\ k \in Nat
      BY <1>11, <2>2
    <3>2. /\ OnTheWire(c.txn[t]) /\ applied[t] = 0
          /\ \A j \in DOMAIN c.puts : Carries(c.puts[j], t) => j = k - 1
      BY <1>12, <3>1
    <3>3. ASSUME NEW l \in DOMAIN d.up, Requests(d, l, t) PROVE l = k
      <4>1. l - 1 \in DOMAIN c.puts /\ Carries(c.puts[l - 1], t) /\ l \in Nat
        BY <1>11, <3>3
      <4>2. l - 1 = k - 1
        BY <3>2, <4>1
      <4> QED BY <3>1, <4>1, <4>2
    <3> QED BY <3>2, <3>3
  <2>3. Unsent(c.txn[t]) /\ G.applied[t] = 0 => Untried(d, H, t)
    BY <1>3, <1>4, <2>2, OneClass DEF Untried
  <2> QED BY <1>3, <1>4, <1>5, <2>1, <2>2, <2>3
<1>17. Awaited(d, H)
  <2>1. AnswersIn(H.down) = << >>
    <3>1. OfKind(<< >>, "answer") = << >>
      BY OfKindOne
    <3> QED BY <1>4, <3>1 DEF AnswersIn, OfKind
  <2>2. Matches(d.puts, << >>, PutsIn(d.up), H)
    <3> DEFINE A == << >>
               R == PutsIn(d.up)
    <3>1. Len(A) = 0
      OBVIOUS
    <3> HIDE DEF A, R
    <3>2. Len(d.puts) = Len(A) + Len(R) /\ Len(R) = n /\ \A j \in 1 .. n : Len(A) + j = j
      BY <1>5, <1>6, <1>7, <3>1 DEF R
    <3>3. \A j \in 1 .. n : R[j].put = c.puts[j]
      BY <1>5 DEF R
    <3>4. Matches(d.puts, A, R, H)
      BY <1>6, <1>9, <3>1, <3>2, <3>3 DEF Matches
    <3> QED BY <3>4 DEF A, R
  <2> QED BY <2>1, <2>2 DEF Awaited
<1>18. Unqueued(d, H)
  BY <1>5, <1>7, <1>9 DEF Unqueued
<1>19. Grounded(d, H)
  <2>1. IsSequence(<< >>)
    BY OfKindOne
  <2>2. 0 < d.nextId
    BY <1>13 DEF Shape
  <2> QED BY <1>4, <2>1, <2>2 DEF Grounded
<1>20. ClientInv(d, H)
  BY <1>13, <1>14, <1>15, <1>16, <1>17, <1>18, <1>19 DEF ClientInv
<1>21. ClientInv(c', Rest(c', applied', server'.down))
  BY <1>1, <1>20 DEF H
<1>22. c'.phase = "open"
  BY <1>1, <1>5
<1>23. NeverStuck'
  BY <1>22 DEF NeverStuck
<1>24. ASSUME NEW M, Remembered(c, {}, M) PROVE Remembered(c', {}, M)
  <2>1. Remembered(d, {}, M)
    <3>1. /\ DOMAIN d = ClientFields /\ d.txn = c.txn /\ d.queue = c.queue
          /\ d.phase \in {"idle", "scheduled", "connecting", "open"}
          /\ d.writes = c.writes /\ d.nextId = c.nextId
          /\ IsSequence(d.puts) /\ DOMAIN d.puts = DOMAIN c.puts
      BY <1>5, <1>6, <1>7
    <3>2. \A i \in DOMAIN d.puts :
            /\ IsPut(d.puts[i]) /\ d.puts[i].id = c.puts[i].id
            /\ d.puts[i].txns = c.puts[i].txns /\ d.puts[i].write = c.puts[i].write
            /\ d.puts[i].data = c.puts[i].data
      BY <1>7, <1>9
    <3> QED BY <1>24, <3>1, <3>2, ConnectionRemembers
  <2> QED BY <1>1, <2>1
<1> QED BY <1>1, <1>21, <1>22, <1>23, <1>24 DEF RepoInv, Remembers

(* The messages to the client change, but not the answers among them.      *)
LEMMA DownChanges ==
  ASSUME NEW s, NEW done, NEW down, ClientInv(s, Rest(s, done, down)),
         NEW new, IsSequence(new),
         s.phase = "open" => AnswersIn(new) = AnswersIn(down)
  PROVE  ClientInv(s, Rest(s, done, new))
<1> DEFINE G == Rest(s, done, down)
           H == Rest(s, done, new)
<1>1. /\ G.x = 0 /\ G.kept = {} /\ G.applied = done /\ G.down = down
      /\ H.x = 0 /\ H.kept = {} /\ H.applied = done /\ H.down = new
      /\ H.phase = s.phase /\ H.reasons = s.reasons /\ H.online = s.online
      /\ G.phase = s.phase /\ G.reasons = s.reasons /\ G.online = s.online
  BY RestFacts
<1>2. ClientInv(s, G)
  OBVIOUS
<1> HIDE DEF G, H
<1>3. Exclusive(s, H)
  BY <1>1, <1>2 DEF ClientInv, Exclusive
<1>4. Counted(s, H)
  BY <1>1, <1>2 DEF ClientInv, Counted, Untried
<1>5. Awaited(s, H)
  BY <1>1, <1>2 DEF ClientInv, Awaited, Matches
<1>6. Unqueued(s, H)
  BY <1>1, <1>2 DEF ClientInv, Unqueued, Untried
<1>7. Grounded(s, H)
  BY <1>1, <1>2 DEF ClientInv, Grounded
<1>8. ClientInv(s, H)
  BY <1>2, <1>3, <1>4, <1>5, <1>6, <1>7 DEF ClientInv
<1> QED BY <1>8 DEF H

(* A message arrives.                                                      *)
LEMMA ReceiveKeeps ==
  ASSUME RepoInv, Receive
  PROVE  RepoInv' /\ Remembers
<1> DEFINE down == server.down
           m == Head(down)
           l == Tail(down)
           G == Rest(c, applied, down)
           H == Rest(c, applied, l)
<1>1. /\ c.phase = "open" /\ down # << >> /\ applied' = applied
      /\ server' = [server EXCEPT !.down = l]
  BY DEF Receive, MessageArrives
<1>2. /\ ClientInv(c, G) /\ DOMAIN server = {"value", "listening", "down"}
      /\ \A i \in DOMAIN down : IsMessage(down[i])
  BY DEF RepoInv
<1>3. /\ G.x = 0 /\ G.kept = {} /\ G.down = down /\ H.x = 0 /\ H.kept = {}
      /\ H.applied = G.applied /\ H.down = Tail(G.down) /\ H.phase = G.phase
      /\ H.reasons = G.reasons /\ H.online = G.online
  BY RestFacts
<1>4. IsSequence(down)
  BY <1>2, <1>3 DEF ClientInv, Grounded
<1>5. /\ IsSequence(l) /\ m = down[1] /\ IsMessage(down[1])
      /\ \A i \in DOMAIN l : IsMessage(l[i])
  <2>1. /\ IsSequence(l) /\ m = down[1]
        /\ Len(down) \in Nat \ {0} /\ DOMAIN down = 1 .. Len(down)
        /\ DOMAIN l = 1 .. Len(down) - 1
        /\ \A i \in 1 .. Len(down) - 1 : l[i] = down[i + 1]
    BY <1>1, <1>4, TailFacts
  <2> HIDE DEF down, l, m
  <2>2. 1 \in DOMAIN down /\ \A i \in 1 .. Len(down) - 1 : i + 1 \in DOMAIN down
    BY <2>1
  <2> QED BY <1>2, <2>1, <2>2
<1>6. server'.down = l /\ DOMAIN server' = DOMAIN server
  BY <1>1, <1>2
<1>7. ASSUME m.kind # "answer" PROVE ClientInv(c, H)
  <2> HIDE DEF down, l, m
  <2>1. OfKind(l, "answer") = OfKind(down, "answer")
    BY <1>1, <1>4, <1>5, <1>7, OfKindTail DEF l
  <2>2. AnswersIn(l) = AnswersIn(down)
    BY <2>1 DEF AnswersIn, OfKind
  <2> QED BY <1>2, <1>5, <2>2, DownChanges
<1>8. ASSUME NEW s, DOMAIN s = ClientFields, s.phase = c.phase, s.reasons = c.reasons,
             s.online = c.online, s.puts = c.puts, s.up = c.up, s.nextId = c.nextId,
             s.queue = c.queue, s.txn = c.txn, ClientInv(c, H)
      PROVE  ClientInv(s, H)
  <2> HIDE DEF H
  <2>1. HasTransactions(c) /\ c.nextId \in Nat
    BY <1>8, FieldFacts
  <2>2. SamePuts(c, s) /\ HasTransactions(s) /\ \A t \in Txns : Moves(c, s, H, t)
    BY <1>8, <2>1 DEF SamePuts, HasTransactions, Moves
  <2> QED BY <1>8, <2>2, MovesKeep
<1>9. DOMAIN c = ClientFields
  BY <1>2 DEF ClientInv, Shape
<1>10. ClientInv(c', H)
  <2>1. CASE m.kind = "data" /\ c' = OnDataUpdate(c, m.data)
    <3> DEFINE after == [c EXCEPT !.cache = Over(m.data, @), !.complete = TRUE]
    <3>1. ClientInv(c, H)
      BY <1>7, <2>1
    <3>2. /\ DOMAIN after = ClientFields /\ after.phase = c.phase
          /\ after.reasons = c.reasons /\ after.online = c.online
          /\ after.puts = c.puts /\ after.up = c.up /\ after.nextId = c.nextId
          /\ after.queue = c.queue /\ after.txn = c.txn
      BY <1>9 DEF ClientFields
    <3>3. c' = IF RaisesEvents(c, after, DOMAIN m.data)
                 THEN RerunTransactions(after, DOMAIN m.data) ELSE after
      BY <2>1 DEF OnDataUpdate
    <3> HIDE DEF after, H, m
    <3>4. ClientInv(after, H)
      BY <1>8, <3>1, <3>2
    <3> QED BY <3>3, <3>4, RerunTransactionsKeeps
  <2>2. CASE m.kind = "listening" /\ c' = [c EXCEPT !.complete = TRUE]
    <3> DEFINE after == [c EXCEPT !.complete = TRUE]
    <3>1. ClientInv(c, H)
      BY <1>7, <2>2
    <3>2. /\ DOMAIN after = ClientFields /\ after.phase = c.phase
          /\ after.reasons = c.reasons /\ after.online = c.online
          /\ after.puts = c.puts /\ after.up = c.up /\ after.nextId = c.nextId
          /\ after.queue = c.queue /\ after.txn = c.txn
      BY <1>9 DEF ClientFields
    <3> HIDE DEF H
    <3>3. ClientInv(after, H)
      <4> HIDE DEF after
      <4> QED BY <1>8, <3>1, <3>2
    <3> QED BY <2>2, <3>3
  <2>3. ASSUME m.kind = "answer", NEW i \in DOMAIN c.puts, c.puts[i].id = m.id,
               c' = PutAnswered(c, c.puts[i], m.status)
        PROVE  ClientInv(c', H)
    <3> HIDE DEF m, G, H, l, down
    <3>1. /\ ClientInv(c, G) /\ G.x = 0 /\ G.kept = {} /\ c.phase = "open"
          /\ G.down # << >> /\ G.down[1].kind = "answer" /\ IsMessage(G.down[1])
          /\ i \in DOMAIN c.puts /\ c.puts[i].id = G.down[1].id
          /\ H.x = 0 /\ H.kept = {} /\ H.applied = G.applied /\ H.down = Tail(G.down)
          /\ H.phase = G.phase /\ H.reasons = G.reasons /\ H.online = G.online
      BY <1>1, <1>2, <1>3, <1>5, <2>3
    <3>2. ClientInv(PutAnswered(c, c.puts[i], G.down[1].status), H)
      BY <3>1, PutAnsweredKeeps
    <3>3. m.status = G.down[1].status
      BY <1>3, <1>5
    <3> QED BY <2>3, <3>2, <3>3
  <2> QED BY <2>1, <2>2, <2>3 DEF Receive
<1>11. ClientInv(c', Rest(c, applied, server'.down))
  BY <1>6, <1>10
<1>12. \A i \in DOMAIN server'.down : IsMessage(server'.down[i])
  BY <1>5, <1>6
<1>13. RepoInv'
  BY <1>1, <1>6, <1>11, <1>12, CallbackStep
<1>14. ASSUME NEW M, Remembered(c, {}, M) PROVE Remembered(c', {}, M)
  <2> DEFINE none == {}
  <2> HIDE DEF none
  <2>1. Remembered(c, none, M)
    BY <1>14 DEF none
  <2>2. ASSUME NEW s, OnlyConnection(c, s) PROVE Remembered(s, none, M)
    BY <2>1, <2>2, OnlyConnectionRemembers
  <2>3. CASE c' = OnDataUpdate(c, m.data)
    <3> DEFINE after == [c EXCEPT !.cache = Over(m.data, @), !.complete = TRUE]
               D == DOMAIN m.data
    <3>1. OnlyConnection(c, after)
      BY <1>1, <1>9 DEF OnlyConnection, ClientFields
    <3>2. c' = IF RaisesEvents(c, after, D) THEN RerunTransactions(after, D) ELSE after
      BY <2>3 DEF OnDataUpdate
    <3> HIDE DEF after, D
    <3>3. Remembered(after, none, M)
      BY <2>2, <3>1
    <3>4. \A t \in Txns : after.txn[t].status # "NEEDS_ABORT"
      BY <3>3 DEF Remembered, Staged, Stage, none
    <3>5. Remembered(RerunTransactions(after, D), {}, M)
      BY <3>3, <3>4, RerunAllRemembers
    <3> QED BY <3>2, <3>3, <3>5 DEF none
  <2>4. CASE c' = [c EXCEPT !.complete = TRUE]
    <3>1. OnlyConnection(c, c')
      BY <1>1, <1>9, <2>4 DEF OnlyConnection, ClientFields
    <3> QED BY <2>2, <3>1 DEF none
  <2>5. ASSUME NEW i \in DOMAIN c.puts, c' = PutAnswered(c, c.puts[i], m.status)
        PROVE  Remembered(c', {}, M)
    <3> DEFINE status == m.status
    <3> HIDE DEF status, G
    <3>1. Remembered(c, {}, M) /\ ClientInv(c, G) /\ G.x = 0
      BY <1>2, <1>3, <1>14
    <3>2. Remembered(PutAnswered(c, c.puts[i], status), {}, M)
      BY <3>1, PutAnsweredRemembers
    <3> QED BY <2>5, <3>2 DEF status
  <2> QED BY <2>3, <2>4, <2>5 DEF Receive
<1> QED BY <1>13, <1>14 DEF Remembers

-----------------------------------------------------------------------------
(* The server.                                                             *)

(* Two sequences of messages, one after the other.                         *)
LEMMA TwoParts ==
  ASSUME NEW a, NEW b, IsSequence(a), IsSequence(b),
         \A i \in DOMAIN a : IsMessage(a[i]), \A i \in DOMAIN b : IsMessage(b[i])
  PROVE  /\ IsSequence(a \o b) /\ \A i \in DOMAIN (a \o b) : IsMessage((a \o b)[i])
         /\ OfKind(a \o b, "answer") = OfKind(a, "answer") \o OfKind(b, "answer")
<1>1. PICK R : a \in Seq(R)
  BY DEF IsSequence
<1>2. PICK S : b \in Seq(S)
  BY DEF IsSequence
<1> DEFINE U == R \cup S
           z == a \o b
<1>3. a \in Seq(U) /\ b \in Seq(U)
  BY <1>1, <1>2
<1> HIDE DEF U
<1>4. /\ z \in Seq(U) /\ Len(a) \in Nat /\ Len(b) \in Nat
      /\ DOMAIN z = 1 .. Len(a) + Len(b)
      /\ \A i \in 1 .. Len(a) + Len(b) :
           z[i] = IF i <= Len(a) THEN a[i] ELSE b[i - Len(a)]
      /\ DOMAIN a = 1 .. Len(a) /\ DOMAIN b = 1 .. Len(b)
  BY <1>3, ConcatProperties, LenProperties
<1> HIDE DEF z
<1>5. \A i \in DOMAIN z : IsMessage(z[i])
  <2> SUFFICES ASSUME NEW i \in 1 .. Len(a) + Len(b) PROVE IsMessage(z[i])
    BY <1>4
  <2>1. CASE i <= Len(a)
    <3>1. i \in 1 .. Len(a) /\ z[i] = a[i]
      BY <1>4, <2>1
    <3> QED BY <1>4, <3>1
  <2>2. CASE ~(i <= Len(a))
    <3>1. i - Len(a) \in 1 .. Len(b) /\ z[i] = b[i - Len(a)]
      BY <1>4, <2>2
    <3> QED BY <1>4, <3>1
  <2> QED BY <2>1, <2>2
<1>6. OfKind(a \o b, "answer") = OfKind(a, "answer") \o OfKind(b, "answer")
  BY OfKindConcat
<1> QED BY <1>4, <1>5, <1>6 DEF IsSequence, z

(* What it sends reaches an open connection only.                          *)
LEMMA SentFacts ==
  ASSUME RepoInv, NEW ms, IsSequence(ms), \A i \in DOMAIN ms : IsMessage(ms[i])
  PROVE  /\ IsSequence(Sent(ms)) /\ \A i \in DOMAIN Sent(ms) : IsMessage(Sent(ms)[i])
         /\ c.phase # "open" => Sent(ms) = << >>
         /\ c.phase = "open" =>
              AnswersIn(Sent(ms)) = AnswersIn(server.down) \o OfKind(ms, "answer")
<1> DEFINE down == server.down
<1>1. IsSequence(down) /\ \A i \in DOMAIN down : IsMessage(down[i])
  BY RestFacts DEF RepoInv, ClientInv, Grounded
<1> HIDE DEF down
<1>2. CASE c.phase = "open"
  <2>1. Sent(ms) = down \o ms
    BY <1>2 DEF Sent, down
  <2>2. /\ IsSequence(down \o ms) /\ \A i \in DOMAIN (down \o ms) : IsMessage((down \o ms)[i])
        /\ OfKind(down \o ms, "answer") = OfKind(down, "answer") \o OfKind(ms, "answer")
    BY <1>1, TwoParts
  <2>3. AnswersIn(Sent(ms)) = AnswersIn(server.down) \o OfKind(ms, "answer")
    BY <2>1, <2>2 DEF AnswersIn, OfKind, down
  <2> QED BY <1>2, <2>1, <2>2, <2>3
<1>3. CASE c.phase # "open"
  <2>1. Sent(ms) = << >>
    BY <1>3 DEF Sent
  <2>2. IsSequence(<< >>)
    BY OfKindOne
  <2> QED BY <1>3, <2>1, <2>2
<1> QED BY <1>2, <1>3

(* The server takes the first request from those that are under way.       *)
LEMMA TakenFacts ==
  ASSUME NEW s, NEW G, ClientInv(s, G), s.up # << >>,
         NEW d, DOMAIN d = ClientFields, d.up = Tail(s.up), d.puts = s.puts,
         d.txn = s.txn, d.queue = s.queue, d.nextId = s.nextId, d.phase = s.phase
  PROVE  /\ Shape(d) /\ InOrder(d)
         /\ \A H : H.x = G.x => Exclusive(d, H)
         /\ 1 \in DOMAIN s.up /\ IsRequest(s.up[1])
         /\ \A k \in DOMAIN d.up : k + 1 \in DOMAIN s.up /\ k \in Nat /\ k + 1 # 1
                                   /\ \A t : Requests(d, k, t) <=> Requests(s, k + 1, t)
<1>1. Shape(s) /\ InOrder(s) /\ Exclusive(s, G)
  BY DEF ClientInv
<1>2. IsSequence(s.up) /\ \A k \in DOMAIN s.up : IsRequest(s.up[k])
  BY <1>1 DEF Shape
<1>3. /\ IsSequence(d.up) /\ Len(s.up) \in Nat \ {0} /\ DOMAIN s.up = 1 .. Len(s.up)
      /\ DOMAIN d.up = 1 .. Len(s.up) - 1
      /\ \A i \in 1 .. Len(s.up) - 1 : d.up[i] = s.up[i + 1]
  BY <1>2, TailFacts
<1>4. \A k \in DOMAIN d.up : /\ k + 1 \in DOMAIN s.up /\ k \in Nat /\ k + 1 # 1
                             /\ d.up[k] = s.up[k + 1]
  BY <1>3
<1>5. Shape(d)
  BY <1>1, <1>2, <1>3, <1>4 DEF Shape
<1>6. InOrder(d)
  BY <1>1 DEF InOrder
<1>7. \A H : H.x = G.x => Exclusive(d, H)
  BY <1>1 DEF Exclusive
<1>8. 1 \in DOMAIN s.up /\ IsRequest(s.up[1])
  BY <1>2, <1>3
<1>9. \A k \in DOMAIN d.up : \A t : Requests(d, k, t) <=> Requests(s, k + 1, t)
  BY <1>4 DEF Requests
<1> QED BY <1>4, <1>5, <1>6, <1>7, <1>8, <1>9

(* The server answers a put: it applies it, or not.                        *)
LEMMA AnswerKeeps ==
  ASSUME NEW s, NEW G, ClientInv(s, G), G.x = 0, G.kept = {},
         s.up # << >>, s.up[1].kind = "put",
         NEW d, DOMAIN d = ClientFields, d.up = Tail(s.up), d.puts = s.puts,
         d.txn = s.txn, d.queue = s.queue, d.nextId = s.nextId, d.phase = s.phase,
         d.reasons = s.reasons, d.online = s.online,
         NEW ok \in BOOLEAN,
         NEW H, H.x = 0, H.kept = {}, H.phase = d.phase, H.reasons = d.reasons,
         H.online = d.online, IsSequence(H.down),
         \A t \in Txns : H.applied[t] = IF ok /\ Carries(s.up[1].put, t)
                                          THEN G.applied[t] + 1 ELSE G.applied[t],
         s.phase = "open" =>
           LET A == AnswersIn(G.down)
               B == AnswersIn(H.down)
           IN  /\ Len(B) = Len(A) + 1
               /\ \A i \in 1 .. Len(A) : B[i] = A[i]
               /\ B[Len(A) + 1].id = s.up[1].put.id
               /\ (B[Len(A) + 1].status = "ok") = ok
  PROVE  ClientInv(d, H)
<1> DEFINE put == s.up[1].put
<1>1. /\ Shape(s) /\ Exclusive(s, G) /\ Counted(s, G) /\ Awaited(s, G)
      /\ Unqueued(s, G) /\ Grounded(s, G)
  BY DEF ClientInv
<1>2. /\ Shape(d) /\ InOrder(d) /\ Exclusive(d, H)
      /\ 1 \in DOMAIN s.up /\ IsRequest(s.up[1])
      /\ \A k \in DOMAIN d.up : k + 1 \in DOMAIN s.up /\ k \in Nat /\ k + 1 # 1
                                /\ \A t : Requests(d, k, t) <=> Requests(s, k + 1, t)
  <2>1. ClientInv(s, G) /\ s.up # << >> /\ DOMAIN d = ClientFields /\ d.up = Tail(s.up)
        /\ d.puts = s.puts /\ d.txn = s.txn /\ d.queue = s.queue
        /\ d.nextId = s.nextId /\ d.phase = s.phase
    OBVIOUS
  <2>2. H.x = G.x
    OBVIOUS
  <2> HIDE DEF put
  <2>3. \A K : K.x = G.x => Exclusive(d, K)
    BY <2>1, TakenFacts
  <2>4. /\ Shape(d) /\ InOrder(d) /\ 1 \in DOMAIN s.up /\ IsRequest(s.up[1])
        /\ \A k \in DOMAIN d.up : k + 1 \in DOMAIN s.up /\ k \in Nat /\ k + 1 # 1
                                  /\ \A t : Requests(d, k, t) <=> Requests(s, k + 1, t)
    BY <2>1, TakenFacts
  <2> QED BY <2>2, <2>3, <2>4
<1>3. \A t : Carries(put, t) <=> Requests(s, 1, t)
  BY DEF Requests
<1>4. \A t \in Txns : H.applied[t] = IF ok /\ Carries(put, t) THEN G.applied[t] + 1
                                     ELSE G.applied[t]
  OBVIOUS
<1> HIDE DEF put
<1>5. ASSUME NEW t \in Txns, Carries(put, t)
      PROVE  /\ G.applied[t] = 0 /\ H.applied[t] = IF ok THEN 1 ELSE 0
             /\ \A k \in DOMAIN d.up : ~Requests(d, k, t)
  <2>1. G.applied[t] = 0 /\ \A l \in DOMAIN s.up : Requests(s, l, t) => l = 1
    BY <1>1, <1>2, <1>3, <1>5 DEF Counted
  <2>2. H.applied[t] = IF ok THEN 1 ELSE 0
    BY <1>4, <1>5, <2>1
  <2> QED BY <1>2, <2>1, <2>2
<1>6. ASSUME NEW t \in Txns, Untried(s, G, t)
      PROVE  Untried(d, H, t) /\ ~Carries(put, t)
  <2>1. ~Carries(put, t)
    BY <1>2, <1>3, <1>6 DEF Untried
  <2> QED BY <1>2, <1>4, <1>6, <2>1 DEF Untried
<1>7. Counted(d, H)
  <2> SUFFICES ASSUME NEW t \in Txns
               PROVE  /\ \/ Unsent(d.txn[t]) /\ Untried(d, H, t)
                         \/ OnTheWire(d.txn[t]) \/ Doubtful(d.txn[t])
                         \/ Committed(d.txn[t]) /\ H.applied[t] = 1
                      /\ H.applied[t] \in {0, 1}
                      /\ \A k \in DOMAIN d.up :
                           Requests(d, k, t) =>
                             /\ H.applied[t] = 0
                             /\ \A l \in DOMAIN d.up : Requests(d, l, t) => l = k
    BY DEF Counted
  <2>1. /\ \/ Unsent(s.txn[t]) /\ Untried(s, G, t)
           \/ OnTheWire(s.txn[t]) \/ Doubtful(s.txn[t])
           \/ Committed(s.txn[t]) /\ G.applied[t] = 1
        /\ G.applied[t] \in {0, 1}
        /\ \A k \in DOMAIN s.up :
             Requests(s, k, t) =>
               /\ G.applied[t] = 0
               /\ \A l \in DOMAIN s.up : Requests(s, l, t) => l = k
    BY <1>1 DEF Counted
  <2>2. CASE Carries(put, t)
    BY <1>5, <1>6, <2>1, <2>2
  <2>3. CASE ~Carries(put, t)
    <3>1. H.applied[t] = G.applied[t]
      BY <1>4, <2>3
    <3>2. ASSUME NEW k \in DOMAIN d.up, Requests(d, k, t)
          PROVE  /\ H.applied[t] = 0
                 /\ \A l \in DOMAIN d.up : Requests(d, l, t) => l = k
      <4>1. k + 1 \in DOMAIN s.up /\ Requests(s, k + 1, t) /\ k \in Nat
        BY <1>2, <3>2
      <4>2. ASSUME NEW l \in DOMAIN d.up, Requests(d, l, t) PROVE l = k
        <5>1. l + 1 \in DOMAIN s.up /\ Requests(s, l + 1, t) /\ l \in Nat
          BY <1>2, <4>2
        <5>2. l + 1 = k + 1
          BY <2>1, <4>1, <5>1
        <5> QED BY <4>1, <5>1, <5>2
      <4> QED BY <2>1, <3>1, <4>1, <4>2
    <3> QED BY <1>6, <2>1, <3>1, <3>2
  <2> QED BY <2>2, <2>3
<1>8. Awaited(d, H)
  <2> SUFFICES ASSUME s.phase = "open"
               PROVE  Matches(s.puts, AnswersIn(H.down), PutsIn(d.up), H)
    BY DEF Awaited
  <2> DEFINE A == AnswersIn(G.down)
             B == AnswersIn(H.down)
             R == PutsIn(s.up)
             Q == PutsIn(d.up)
             n == Len(A) + 1
  <2>1. /\ R[1].put = put /\ Len(Q) \in Nat /\ Len(R) = Len(Q) + 1
        /\ \A i \in 1 .. Len(Q) : Q[i] = R[i + 1]
    <3>1. R = OfKind(s.up, "put") /\ Q = OfKind(Tail(s.up), "put")
      BY DEF PutsIn, OfKind
    <3>2. IsSequence(s.up)
      BY <1>1 DEF Shape
    <3> HIDE DEF R, Q
    <3>3. /\ R[1] = s.up[1] /\ Len(Q) \in Nat /\ Len(R) = Len(Q) + 1
          /\ \A i \in 1 .. Len(Q) : Q[i] = R[i + 1]
      BY <3>1, <3>2, OfKindTail
    <3> QED BY <3>3 DEF put
  <2>2. /\ Len(B) = n /\ \A i \in 1 .. Len(A) : B[i] = A[i]
        /\ B[n].id = put.id /\ (B[n].status = "ok") = ok
    BY DEF put
  <2>3. Matches(s.puts, A, R, G)
    BY <1>1 DEF Awaited
  <2>4. Len(A) \in Nat /\ IsSequence(s.puts) /\ \A i \in DOMAIN s.puts : IsPut(s.puts[i])
    <3>1. IsSequence(A)
      BY <1>1, FilteredFacts DEF Grounded, AnswersIn
    <3> QED BY <1>1, <3>1, SequenceFacts DEF Shape
  <2> HIDE DEF A, B, R, Q
  <2>5. /\ Len(s.puts) = Len(A) + Len(R)
        /\ \A i \in 1 .. Len(A) :
             /\ s.puts[i].id = A[i].id
             /\ \A t \in Range(s.puts[i].txns) :
                  G.applied[t] = IF A[i].status = "ok" THEN 1 ELSE 0
        /\ \A j \in 1 .. Len(R) :
             /\ s.puts[Len(A) + j].id = R[j].put.id
             /\ s.puts[Len(A) + j].txns = R[j].put.txns
    BY <2>3 DEF Matches
  <2>6. DOMAIN s.puts = 1 .. Len(s.puts) /\ n \in DOMAIN s.puts /\ n \in Nat
    BY <2>1, <2>4, <2>5, SequenceFacts
  <2>7. s.puts[n].id = put.id /\ s.puts[n].txns = put.txns
    BY <2>1, <2>4, <2>5
  <2>8. \A i \in DOMAIN s.puts : \A t \in Range(s.puts[i].txns) : t \in Txns
    BY <2>4 DEF IsPut, Range
  <2>9. ASSUME NEW i \in 1 .. n
        PROVE  /\ s.puts[i].id = B[i].id
               /\ \A t \in Range(s.puts[i].txns) :
                    H.applied[t] = IF B[i].status = "ok" THEN 1 ELSE 0
    <3>1. CASE i = n
      <4>1. \A t \in Range(s.puts[n].txns) : H.applied[t] = IF ok THEN 1 ELSE 0
        BY <1>5, <2>6, <2>7, <2>8 DEF Carries
      <4> QED BY <2>2, <2>7, <3>1, <4>1
    <3>2. CASE i # n
      <4>1. i \in 1 .. Len(A) /\ i \in DOMAIN s.puts
        BY <2>1, <2>4, <2>5, <2>6, <3>2
      <4>2. s.puts[i].id = B[i].id /\ A[i] = B[i]
        BY <2>2, <2>5, <4>1
      <4>3. ASSUME NEW t \in Range(s.puts[i].txns)
            PROVE  H.applied[t] = G.applied[t]
        <5>1. ~Carries(put, t)
          <6>1. s.puts[i].id # G.x
            BY <2>4, <4>1 DEF IsPut
          <6>2. \A j \in DOMAIN s.puts : Carries(s.puts[j], t) => j = i
            BY <1>1, <4>1, <4>3, <6>1 DEF Exclusive
          <6> QED BY <2>6, <2>7, <3>2, <6>2 DEF Carries
        <5> QED BY <1>4, <2>8, <4>1, <4>3, <5>1
      <4> QED BY <2>5, <4>1, <4>2, <4>3
    <3> QED BY <3>1, <3>2
  <2>10. ASSUME NEW j \in 1 .. Len(Q)
         PROVE  /\ s.puts[n + j].id = Q[j].put.id
                /\ s.puts[n + j].txns = Q[j].put.txns
    <3>1. j + 1 \in 1 .. Len(R) /\ Len(A) + (j + 1) = n + j /\ Q[j] = R[j + 1]
      BY <2>1, <2>4
    <3> QED BY <2>5, <3>1
  <2>11. Len(s.puts) = n + Len(Q)
    BY <2>1, <2>4, <2>5
  <2> HIDE DEF n
  <2>12. Matches(s.puts, B, Q, H)
    BY <2>2, <2>9, <2>10, <2>11 DEF Matches
  <2> QED BY <2>12 DEF B, Q
<1>9. Unqueued(d, H)
  <2>1. d.phase = "open" => \A i \in DOMAIN d.puts : d.puts[i].queued
    BY <1>1 DEF Unqueued
  <2>2. ASSUME d.phase # "open", NEW i \in DOMAIN d.puts
        PROVE  IF d.puts[i].queued
                 THEN d.puts[i].txns # << >> => d.puts[i] \in H.kept
                 ELSE \A t \in Range(d.puts[i].txns) : Untried(d, H, t)
    <3>1. IF s.puts[i].queued
            THEN s.puts[i].txns # << >> => s.puts[i] \in G.kept
            ELSE \A t \in Range(s.puts[i].txns) : Untried(s, G, t)
      BY <1>1, <2>2 DEF Unqueued
    <3>2. \A t \in Range(s.puts[i].txns) : t \in Txns
      BY <1>1 DEF Shape, IsPut, Range
    <3> QED BY <1>6, <3>1, <3>2
  <2> QED BY <2>1, <2>2 DEF Unqueued
<1>10. Grounded(d, H)
  <2>1. 0 < d.nextId
    BY <1>2 DEF Shape
  <2> QED BY <2>1 DEF Grounded
<1> QED BY <1>2, <1>7, <1>8, <1>9, <1>10 DEF ClientInv

(* A step of the server.                                                   *)
LEMMA ServerStep ==
  ASSUME RepoInv, DOMAIN server' = DOMAIN server, NEW ms, IsSequence(ms),
         \A i \in DOMAIN ms : IsMessage(ms[i]), server'.down = Sent(ms),
         c'.phase = c.phase, c'.reasons = c.reasons, c'.online = c.online,
         ClientInv(c', Rest(c', applied', Sent(ms)))
  PROVE  RepoInv'
<1>1. /\ IsSequence(Sent(ms)) /\ \A i \in DOMAIN Sent(ms) : IsMessage(Sent(ms)[i])
      /\ c.phase # "open" => Sent(ms) = << >>
  BY SentFacts
<1>2. NeverStuck'
  BY DEF RepoInv, NeverStuck, ShouldReconnect
<1>3. DOMAIN server' = {"value", "listening", "down"}
  BY DEF RepoInv
<1> QED BY <1>1, <1>2, <1>3 DEF RepoInv

(* A sequence and one more message.                                        *)
LEMMA OneMore ==
  ASSUME NEW q, IsSequence(q), NEW a
  PROVE  /\ Len(q \o <<a>>) = Len(q) + 1 /\ (q \o <<a>>)[Len(q) + 1] = a
         /\ \A i \in 1 .. Len(q) : (q \o <<a>>)[i] = q[i]
<1>1. PICK R : q \in Seq(R)
  BY DEF IsSequence
<1> DEFINE U == R \cup {a}
           o == <<a>>
<1>2. q \in Seq(U) /\ o \in Seq(U) /\ Len(o) = 1 /\ o[1] = a
  BY <1>1
<1> HIDE DEF U, o
<1>3. /\ Len(q) \in Nat /\ Len(q \o o) = Len(q) + 1
      /\ \A i \in 1 .. Len(q) + 1 : (q \o o)[i] = IF i <= Len(q) THEN q[i] ELSE o[i - Len(q)]
  BY <1>2, ConcatProperties, LenProperties
<1>4. (q \o o)[Len(q) + 1] = a
  BY <1>2, <1>3
<1>5. \A i \in 1 .. Len(q) : (q \o o)[i] = q[i]
  BY <1>3
<1> QED BY <1>3, <1>4, <1>5 DEF o

(* The server handles a put, and of its messages one is the answer.        *)
LEMMA HandledKeeps ==
  ASSUME RepoInv, Asks("put"), c' = [c EXCEPT !.up = Tail(@)],
         DOMAIN server' = DOMAIN server,
         NEW status \in {"ok", "datastale", "permission_denied"},
         NEW ms, IsSequence(ms), \A i \in DOMAIN ms : IsMessage(ms[i]),
         OfKind(ms, "answer") = <<Answer(Head(c.up).put, status)>>,
         server'.down = Sent(ms),
         \A t \in Txns :
           applied'[t] = IF status = "ok" /\ Carries(Head(c.up).put, t)
                           THEN applied[t] + 1 ELSE applied[t]
  PROVE  RepoInv'
<1> DEFINE d == c'
           G == Rest(c, applied, server.down)
           done == applied'
           new == Sent(ms)
           H == Rest(d, done, new)
           a == Answer(Head(c.up).put, status)
           ok == status = "ok"
<1>1. /\ G.x = 0 /\ G.kept = {} /\ G.applied = applied /\ G.down = server.down
      /\ H.x = 0 /\ H.kept = {} /\ H.applied = applied' /\ H.down = Sent(ms)
      /\ H.phase = d.phase /\ H.reasons = d.reasons /\ H.online = d.online
  <2>1. /\ G.x = 0 /\ G.kept = {} /\ G.applied = applied /\ G.down = server.down
    BY RestFacts
  <2> HIDE DEF d, done, new
  <2>2. /\ H.x = 0 /\ H.kept = {} /\ H.applied = done /\ H.down = new
        /\ H.phase = d.phase /\ H.reasons = d.reasons /\ H.online = d.online
    BY RestFacts
  <2> QED BY <2>1, <2>2 DEF done, new
<1>2. ClientInv(c, G) /\ Shape(c) /\ IsSequence(G.down)
  BY DEF RepoInv, ClientInv, Grounded
<1>3. /\ DOMAIN d = ClientFields /\ d.up = Tail(c.up) /\ d.puts = c.puts
      /\ d.txn = c.txn /\ d.queue = c.queue /\ d.nextId = c.nextId
      /\ d.phase = c.phase /\ d.reasons = c.reasons /\ d.online = c.online
  BY <1>2 DEF Shape, ClientFields
<1>4. c.up # << >> /\ c.up[1].kind = "put" /\ Head(c.up) = c.up[1]
  <2>1. IsSequence(c.up) /\ c.up # << >> /\ Head(c.up).kind = "put"
    BY <1>2 DEF Shape, Asks
  <2>2. Head(c.up) = c.up[1]
    BY <2>1, TailFacts
  <2> QED BY <2>1, <2>2
<1>5. a.id = c.up[1].put.id /\ a.status = status
  BY <1>4 DEF Answer
<1> HIDE DEF G, H, a, d
<1>6. /\ IsSequence(H.down)
      /\ c.phase = "open" => AnswersIn(H.down) = AnswersIn(G.down) \o <<a>>
  BY <1>1, SentFacts DEF a
<1>7. IsSequence(AnswersIn(G.down))
  BY <1>2, FilteredFacts DEF AnswersIn
<1>8. ASSUME c.phase = "open"
      PROVE  LET A == AnswersIn(G.down)
                 B == AnswersIn(H.down)
             IN  /\ Len(B) = Len(A) + 1
                 /\ \A i \in 1 .. Len(A) : B[i] = A[i]
                 /\ B[Len(A) + 1].id = c.up[1].put.id
                 /\ (B[Len(A) + 1].status = "ok") = ok
  <2> DEFINE A == AnswersIn(G.down)
             B == AnswersIn(H.down)
  <2>1. B = A \o <<a>> /\ IsSequence(A)
    BY <1>6, <1>7, <1>8
  <2> HIDE DEF A, B
  <2>2. /\ Len(B) = Len(A) + 1 /\ B[Len(A) + 1] = a
        /\ \A i \in 1 .. Len(A) : B[i] = A[i]
    BY <2>1, OneMore
  <2>3. (B[Len(A) + 1].status = "ok") = ok
    BY <1>5, <2>2
  <2>4. /\ Len(B) = Len(A) + 1
        /\ \A i \in 1 .. Len(A) : B[i] = A[i]
        /\ B[Len(A) + 1].id = c.up[1].put.id
        /\ (B[Len(A) + 1].status = "ok") = ok
    BY <1>5, <2>2, <2>3
  <2> QED BY <2>4 DEF A, B
<1>9. \A t \in Txns : H.applied[t] = IF ok /\ Carries(c.up[1].put, t)
                                       THEN G.applied[t] + 1 ELSE G.applied[t]
  BY <1>1, <1>4
<1>10. ok \in BOOLEAN
  OBVIOUS
<1> HIDE DEF ok
<1>11. ClientInv(d, H)
  BY <1>1, <1>2, <1>3, <1>4, <1>6, <1>8, <1>9, <1>10, AnswerKeeps
<1>12. ClientInv(c', Rest(c', applied', Sent(ms)))
  BY <1>11 DEF H, d
<1>13. c'.phase = c.phase /\ c'.reasons = c.reasons /\ c'.online = c.online
  BY <1>3 DEF d
<1> QED BY <1>12, <1>13, ServerStep

(* What the server tells of data is no answer.                             *)
LEMMA ToldFacts ==
  ASSUME NEW data
  PROVE  /\ IsSequence(Told(data)) /\ \A i \in DOMAIN Told(data) : IsMessage(Told(data)[i])
         /\ OfKind(Told(data), "answer") = << >>
<1> DEFINE m == Data(data)
<1>1. m.kind = "data" /\ IsMessage(m)
  BY DEF Data, IsMessage
<1>2. Told(data) = IF server.listening THEN <<m>> ELSE << >>
  BY DEF Told
<1> HIDE DEF m
<1>3. DOMAIN <<m>> = {1} /\ <<m>>[1] = m
  OBVIOUS
<1>4. /\ IsSequence(<<m>>) /\ IsSequence(<< >>)
      /\ OfKind(<<m>>, "answer") = << >> /\ OfKind(<< >>, "answer") = << >>
  BY <1>1, OfKindOne
<1> QED BY <1>1, <1>2, <1>3, <1>4

(* The server applies a put, or refuses it.                                *)
LEMMA ServerHandlesPutKeeps ==
  ASSUME RepoInv, ServerHandlesPut
  PROVE  RepoInv'
<1> DEFINE put == Head(c.up).put
           told == Told(put.data)
           Handled(ms, status) ==
             /\ IsSequence(ms) /\ \A i \in DOMAIN ms : IsMessage(ms[i])
             /\ OfKind(ms, "answer") = <<Answer(put, status)>>
<1>1. Asks("put") /\ c' = [c EXCEPT !.up = Tail(@)]
  BY DEF ServerHandlesPut
<1>2. DOMAIN server = {"value", "listening", "down"}
  BY DEF RepoInv
<1>3. ASSUME NEW status \in {"ok", "datastale", "permission_denied"}
      PROVE  Handled(<<Answer(put, status)>>, status)
  <2> DEFINE a == Answer(put, status)
  <2>1. a.kind = "answer" /\ IsMessage(a)
    BY <1>3 DEF Answer, IsMessage
  <2> HIDE DEF a
  <2>2. DOMAIN <<a>> = {1} /\ <<a>>[1] = a
    OBVIOUS
  <2>3. IsSequence(<<a>>) /\ OfKind(<<a>>, "answer") = <<a>>
    BY <2>1, OfKindOne
  <2>4. IsSequence(<<a>>) /\ (\A i \in DOMAIN <<a>> : IsMessage(<<a>>[i]))
        /\ OfKind(<<a>>, "answer") = <<a>>
    BY <2>1, <2>2, <2>3
  <2> QED BY <2>4 DEF a
<1>4. Handled(told \o <<Answer(put, "ok")>>, "ok")
  <2> DEFINE o == <<Answer(put, "ok")>>
  <2>1. /\ IsSequence(told) /\ \A i \in DOMAIN told : IsMessage(told[i])
        /\ OfKind(told, "answer") = << >>
    BY ToldFacts
  <2>2. /\ IsSequence(o) /\ \A i \in DOMAIN o : IsMessage(o[i])
        /\ OfKind(o, "answer") = o
    BY <1>3
  <2> HIDE DEF told, o
  <2>3. /\ IsSequence(told \o o) /\ \A i \in DOMAIN (told \o o) : IsMessage((told \o o)[i])
        /\ OfKind(told \o o, "answer") = << >> \o o
    BY <2>1, <2>2, TwoParts
  <2>4. << >> \o o = o
    BY <2>2 DEF IsSequence
  <2> QED BY <2>3, <2>4 DEF o
<1> HIDE DEF told, Handled
<1>5. \A t : Carries(put, t) <=> t \in Range(put.txns)
  BY DEF Carries
<1>6. ASSUME NEW status \in {"ok", "datastale", "permission_denied"}, NEW ms,
             Handled(ms, status), server'.down = Sent(ms), DOMAIN server' = DOMAIN server,
             \A t \in Txns : applied'[t] = IF status = "ok" /\ Carries(put, t)
                                             THEN applied[t] + 1 ELSE applied[t]
      PROVE  RepoInv'
  <2>1. /\ IsSequence(ms) /\ \A i \in DOMAIN ms : IsMessage(ms[i])
        /\ OfKind(ms, "answer") = <<Answer(Head(c.up).put, status)>>
    BY <1>6 DEF Handled
  <2> QED BY <1>1, <1>6, <2>1, HandledKeeps
<1>7. \A t \in Txns : applied[t] \in {0, 1}
  BY RestFacts DEF RepoInv, ClientInv, Counted
<1>8. \/ /\ server' = [server EXCEPT !.value = Over(put.data, @),
                                     !.down = Sent(told \o <<Answer(put, "ok")>>)]
         /\ applied' = [t \in Txns |-> applied[t] + IF t \in Range(put.txns) THEN 1 ELSE 0]
      \/ /\ server' = [server EXCEPT !.down = Sent(<<Answer(put, "datastale")>>)]
         /\ applied' = applied
      \/ /\ server' = [server EXCEPT !.down = Sent(<<Answer(put, "permission_denied")>>)]
         /\ applied' = applied
  BY DEF ServerHandlesPut, told
<1> HIDE DEF put
<1>9. CASE /\ server' = [server EXCEPT !.value = Over(put.data, @),
                                       !.down = Sent(told \o <<Answer(put, "ok")>>)]
           /\ applied' = [t \in Txns |-> applied[t] + IF t \in Range(put.txns) THEN 1 ELSE 0]
  <2>1. \A t \in Txns : applied'[t] = IF Carries(put, t) THEN applied[t] + 1 ELSE applied[t]
    BY <1>5, <1>7, <1>9
  <2>2. /\ server'.down = Sent(told \o <<Answer(put, "ok")>>)
        /\ DOMAIN server' = DOMAIN server
    BY <1>2, <1>9
  <2> QED BY <1>4, <1>6, <2>1, <2>2
<1>10. ASSUME NEW status \in {"datastale", "permission_denied"},
              server' = [server EXCEPT !.down = Sent(<<Answer(put, status)>>)],
              applied' = applied
       PROVE  RepoInv'
  <2>1. /\ server'.down = Sent(<<Answer(put, status)>>)
        /\ DOMAIN server' = DOMAIN server
    BY <1>2, <1>10
  <2> QED BY <1>3, <1>6, <1>10, <2>1
<1> QED BY <1>8, <1>9, <1>10

(* A request that is no put is taken, and the messages to the client get   *)
(* no answer.                                                              *)
LEMMA ListenedKeeps ==
  ASSUME NEW s, NEW G, ClientInv(s, G), G.x = 0, G.kept = {},
         s.up # << >>, s.up[1].kind # "put",
         NEW d, DOMAIN d = ClientFields, d.up = Tail(s.up), d.puts = s.puts,
         d.txn = s.txn, d.queue = s.queue, d.nextId = s.nextId, d.phase = s.phase,
         d.reasons = s.reasons, d.online = s.online,
         NEW H, H.x = 0, H.kept = {}, H.phase = d.phase, H.reasons = d.reasons,
         H.online = d.online, IsSequence(H.down), H.applied = G.applied,
         s.phase = "open" => AnswersIn(H.down) = AnswersIn(G.down)
  PROVE  ClientInv(d, H)
<1>1. /\ Shape(s) /\ Counted(s, G) /\ Awaited(s, G) /\ Unqueued(s, G)
  BY DEF ClientInv
<1>2. /\ Shape(d) /\ InOrder(d) /\ Exclusive(d, H)
      /\ \A k \in DOMAIN d.up : k + 1 \in DOMAIN s.up /\ k \in Nat
                                /\ \A t : Requests(d, k, t) <=> Requests(s, k + 1, t)
  <2>1. ClientInv(s, G) /\ s.up # << >> /\ DOMAIN d = ClientFields /\ d.up = Tail(s.up)
        /\ d.puts = s.puts /\ d.txn = s.txn /\ d.queue = s.queue
        /\ d.nextId = s.nextId /\ d.phase = s.phase
    OBVIOUS
  <2>2. H.x = G.x
    OBVIOUS
  <2>3. \A K : K.x = G.x => Exclusive(d, K)
    BY <2>1, TakenFacts
  <2>4. /\ Shape(d) /\ InOrder(d)
        /\ \A k \in DOMAIN d.up : k + 1 \in DOMAIN s.up /\ k \in Nat
                                  /\ \A t : Requests(d, k, t) <=> Requests(s, k + 1, t)
    BY <2>1, TakenFacts
  <2> QED BY <2>2, <2>3, <2>4
<1>3. \A t : Untried(s, G, t) => Untried(d, H, t)
  BY <1>2 DEF Untried
<1>4. Counted(d, H)
  <2> SUFFICES ASSUME NEW t \in Txns
               PROVE  /\ \/ Unsent(d.txn[t]) /\ Untried(d, H, t)
                         \/ OnTheWire(d.txn[t]) \/ Doubtful(d.txn[t])
                         \/ Committed(d.txn[t]) /\ H.applied[t] = 1
                      /\ H.applied[t] \in {0, 1}
                      /\ \A k \in DOMAIN d.up :
                           Requests(d, k, t) =>
                             /\ H.applied[t] = 0
                             /\ \A l \in DOMAIN d.up : Requests(d, l, t) => l = k
    BY DEF Counted
  <2>1. /\ \/ Unsent(s.txn[t]) /\ Untried(s, G, t)
           \/ OnTheWire(s.txn[t]) \/ Doubtful(s.txn[t])
           \/ Committed(s.txn[t]) /\ G.applied[t] = 1
        /\ G.applied[t] \in {0, 1}
        /\ \A k \in DOMAIN s.up :
             Requests(s, k, t) =>
               /\ G.applied[t] = 0
               /\ \A l \in DOMAIN s.up : Requests(s, l, t) => l = k
    BY <1>1 DEF Counted
  <2>2. ASSUME NEW k \in DOMAIN d.up, Requests(d, k, t)
        PROVE  /\ H.applied[t] = 0
               /\ \A l \in DOMAIN d.up : Requests(d, l, t) => l = k
    <3>1. k + 1 \in DOMAIN s.up /\ Requests(s, k + 1, t) /\ k \in Nat
      BY <1>2, <2>2
    <3>2. ASSUME NEW l \in DOMAIN d.up, Requests(d, l, t) PROVE l = k
      <4>1. l + 1 \in DOMAIN s.up /\ Requests(s, l + 1, t) /\ l \in Nat
        BY <1>2, <3>2
      <4>2. l + 1 = k + 1
        BY <2>1, <3>1, <4>1
      <4> QED BY <3>1, <4>1, <4>2
    <3> QED BY <2>1, <3>1, <3>2
  <2> QED BY <1>3, <2>1, <2>2
<1>5. PutsIn(d.up) = PutsIn(s.up)
  <2>1. IsSequence(s.up)
    BY <1>1 DEF Shape
  <2>2. OfKind(Tail(s.up), "put") = OfKind(s.up, "put")
    BY <2>1, OfKindTail
  <2> QED BY <2>2 DEF PutsIn, OfKind
<1>6. Awaited(d, H)
  BY <1>1, <1>5 DEF Awaited, Matches
<1>7. Unqueued(d, H)
  BY <1>1, <1>3 DEF Unqueued
<1>8. Grounded(d, H)
  <2>1. 0 < d.nextId
    BY <1>2 DEF Shape
  <2> QED BY <2>1 DEF Grounded
<1> QED BY <1>2, <1>4, <1>6, <1>7, <1>8 DEF ClientInv

(* The server takes the listen.                                            *)
LEMMA ServerListensKeeps ==
  ASSUME RepoInv, ServerListens
  PROVE  RepoInv'
<1> DEFINE d == c'
           first == IF Head(c.up).hash = server.value THEN << >> ELSE <<Data(server.value)>>
           o == <<[kind |-> "listening"]>>
           ms == first \o o
           new == Sent(ms)
           G == Rest(c, applied, server.down)
           H == Rest(d, applied, new)
<1>1. /\ Asks("listen") /\ c' = [c EXCEPT !.up = Tail(@)] /\ applied' = applied
      /\ server' = [server EXCEPT !.listening = c.phase = "open", !.down = new]
  BY DEF ServerListens
<1>2. DOMAIN server = {"value", "listening", "down"}
  BY DEF RepoInv
<1>3. DOMAIN server' = DOMAIN server /\ server'.down = new
  BY <1>1, <1>2
<1>4. /\ IsSequence(first) /\ \A i \in DOMAIN first : IsMessage(first[i])
      /\ OfKind(first, "answer") = << >>
  <2> DEFINE m == Data(server.value)
  <2>1. m.kind = "data" /\ IsMessage(m)
    BY DEF Data, IsMessage
  <2> HIDE DEF m
  <2>2. DOMAIN <<m>> = {1} /\ <<m>>[1] = m
    OBVIOUS
  <2>3. /\ IsSequence(<<m>>) /\ IsSequence(<< >>)
        /\ OfKind(<<m>>, "answer") = << >> /\ OfKind(<< >>, "answer") = << >>
    BY <2>1, OfKindOne
  <2>4. first = << >> \/ first = <<m>>
    BY DEF m
  <2> QED BY <2>1, <2>2, <2>3, <2>4
<1>5. /\ IsSequence(o) /\ \A i \in DOMAIN o : IsMessage(o[i])
      /\ OfKind(o, "answer") = << >>
  <2> DEFINE m == [kind |-> "listening"]
  <2>1. m.kind = "listening" /\ IsMessage(m)
    BY DEF IsMessage
  <2> HIDE DEF m
  <2>2. DOMAIN <<m>> = {1} /\ <<m>>[1] = m
    OBVIOUS
  <2>3. IsSequence(<<m>>) /\ OfKind(<<m>>, "answer") = << >>
    BY <2>1, OfKindOne
  <2>4. o = <<m>>
    BY DEF m
  <2> QED BY <2>1, <2>2, <2>3, <2>4
<1> HIDE DEF first, o
<1>6. /\ IsSequence(ms) /\ \A i \in DOMAIN ms : IsMessage(ms[i])
      /\ OfKind(ms, "answer") = << >>
  <2>1. OfKind(ms, "answer") = << >> \o << >>
    BY <1>4, <1>5, TwoParts
  <2>2. << >> \o << >> = << >>
    OBVIOUS
  <2> QED BY <1>4, <1>5, <2>1, <2>2, TwoParts
<1>7. /\ G.x = 0 /\ G.kept = {} /\ G.applied = applied /\ G.down = server.down
  BY RestFacts
<1>8. /\ H.x = 0 /\ H.kept = {} /\ H.applied = applied /\ H.down = new
      /\ H.phase = d.phase /\ H.reasons = d.reasons /\ H.online = d.online
  <2> HIDE DEF d, new
  <2> QED BY RestFacts
<1>9. ClientInv(c, G) /\ Shape(c) /\ IsSequence(G.down)
  BY DEF RepoInv, ClientInv, Grounded
<1>10. /\ DOMAIN d = ClientFields /\ d.up = Tail(c.up) /\ d.puts = c.puts
       /\ d.txn = c.txn /\ d.queue = c.queue /\ d.nextId = c.nextId
       /\ d.phase = c.phase /\ d.reasons = c.reasons /\ d.online = c.online
  BY <1>1, <1>9 DEF Shape, ClientFields
<1>11. c.up # << >> /\ c.up[1].kind # "put"
  <2>1. IsSequence(c.up) /\ c.up # << >> /\ Head(c.up).kind = "listen"
    BY <1>1, <1>9 DEF Shape, Asks
  <2>2. Head(c.up) = c.up[1]
    BY <2>1, TailFacts
  <2> QED BY <2>1, <2>2
<1> HIDE DEF ms
<1>12. IsSequence(new) /\ (c.phase = "open" => AnswersIn(new) = AnswersIn(G.down))
  <2>1. /\ IsSequence(new)
        /\ c.phase = "open" => AnswersIn(new) = AnswersIn(server.down) \o << >>
    BY <1>6, SentFacts
  <2> DEFINE A == AnswersIn(server.down)
  <2>2. IsSequence(A)
    BY <1>7, <1>9, FilteredFacts DEF AnswersIn
  <2> HIDE DEF A
  <2>3. A \o << >> = A
    BY <2>2 DEF IsSequence
  <2> QED BY <1>7, <2>1, <2>3 DEF A
<1> HIDE DEF G, H, d, new
<1>13. ClientInv(d, H)
  BY <1>7, <1>8, <1>9, <1>10, <1>11, <1>12, ListenedKeeps
<1>14. ClientInv(c', Rest(c', applied', Sent(ms)))
  BY <1>1, <1>13 DEF H, d, new
<1>15. c'.phase = c.phase /\ c'.reasons = c.reasons /\ c'.online = c.online
  BY <1>10 DEF d
<1> QED BY <1>3, <1>6, <1>14, <1>15, ServerStep DEF new

(* Another client writes.                                                  *)
LEMMA OthersChangeKeeps ==
  ASSUME RepoInv, NEW leaf \in Leaves, OthersChange(leaf)
  PROVE  RepoInv'
<1> DEFINE data == [l \in {leaf} |-> [base |-> -(count.changes + 1), txns |-> {}]]
           ms == Told(data)
           new == Sent(ms)
           A == AnswersIn(server.down)
<1>1. /\ server' = [server EXCEPT !.value = Over(data, @), !.down = new]
      /\ c' = c /\ applied' = applied
  BY DEF OthersChange
<1> HIDE DEF data
<1>2. DOMAIN server = {"value", "listening", "down"}
  BY DEF RepoInv
<1>3. DOMAIN server' = DOMAIN server /\ server'.down = new
  BY <1>1, <1>2
<1>4. /\ IsSequence(ms) /\ \A i \in DOMAIN ms : IsMessage(ms[i])
      /\ OfKind(ms, "answer") = << >>
  BY ToldFacts
<1> HIDE DEF ms
<1>5. /\ IsSequence(new)
      /\ c.phase = "open" => AnswersIn(new) = A \o << >>
  BY <1>4, SentFacts
<1>6. A \o << >> = A
  <2>1. IsSequence(A)
    BY RestFacts, FilteredFacts DEF RepoInv, ClientInv, Grounded, AnswersIn
  <2> HIDE DEF A
  <2> QED BY <2>1 DEF IsSequence
<1>7. ClientInv(c, Rest(c, applied, new))
  <2>1. ClientInv(c, Rest(c, applied, server.down))
    BY DEF RepoInv
  <2> HIDE DEF new
  <2> QED BY <1>5, <1>6, <2>1, DownChanges DEF A
<1>8. ClientInv(c', Rest(c', applied', Sent(ms)))
  BY <1>1, <1>7
<1>9. c'.phase = c.phase /\ c'.reasons = c.reasons /\ c'.online = c.online
  BY <1>1
<1> QED BY <1>3, <1>4, <1>8, <1>9, ServerStep

-----------------------------------------------------------------------------
(* What the client remembers, until a second set().                        *)

(* set() marks what is sent; nothing is marked before the first one.       *)
MemoryInv ==
  /\ DOMAIN count = {"sets", "changes", "events"} /\ count.sets \in Nat
  /\ count.sets <= 1 => Remembered(c, {}, IF count.sets = 0 THEN {} ELSE Txns)

(* A step other than set() keeps it.                                       *)
LEMMA MemoryStep ==
  ASSUME MemoryInv, Remembers,
         \/ count' = count
         \/ \E what \in {"changes", "events"} : \E bound : Count(what, bound)
  PROVE  MemoryInv'
<1>1. DOMAIN count' = DOMAIN count /\ count'.sets = count.sets
  <2>1. ASSUME NEW what \in {"changes", "events"}, NEW bound, Count(what, bound)
        PROVE  DOMAIN count' = DOMAIN count /\ count'.sets = count.sets
    <3>1. count' = [count EXCEPT ![what] = @ + 1] /\ what # "sets"
      BY <2>1 DEF Count
    <3> QED BY <3>1 DEF MemoryInv
  <2> QED BY <2>1
<1> DEFINE marks == IF count.sets = 0 THEN {} ELSE Txns
<1>2. count.sets <= 1 => Remembered(c', {}, marks)
  BY DEF MemoryInv, Remembers
<1> QED BY <1>1, <1>2 DEF MemoryInv

(* The first set() marks what it finds sent.                               *)
LEMMA SetValueRemembers ==
  ASSUME RepoInv, MemoryInv, NEW path, SetValue(path)
  PROVE  MemoryInv'
<1> DEFINE data == [l \in path |-> [base |-> count.sets + 1, txns |-> {}]]
           put  == [id |-> c.nextId, data |-> data, hash |-> NoHash,
                    txns |-> << >>, write |-> c.nextId, queued |-> FALSE]
           s == PutInternal(ApplyUserOverwrite(c, data), put)
           a == AbortTransactions(s, path)
           D == AncestorWithQueue(c, path)
           none == {}
<1>1. c.nextId \in Nat \ {0}
  BY FieldFacts DEF RepoInv
<1>2. c' = RerunTransactions(a, D)
  BY DEF SetValue
<1>3. IsPut(put) /\ put.id = c.nextId /\ put.write = c.nextId /\ put.txns = << >>
  BY <1>1 DEF IsPut
<1>4. DOMAIN count' = DOMAIN count /\ count'.sets = count.sets + 1
  <2>1. count' = [count EXCEPT !["sets"] = @ + 1]
    BY DEF SetValue, Count
  <2> QED BY <2>1 DEF MemoryInv
<1> HIDE DEF data, put, a, D, none
<1>5. ASSUME count.sets = 0 PROVE Remembered(c', {}, Txns)
  <2>1. Remembered(c, none, none)
    BY <1>5 DEF MemoryInv, none
  <2>2. Remembered(s, none, none)
    BY <1>3, <2>1, SetRemembers
  <2> HIDE DEF s
  <2>3. Remembered(s, {}, {})
    BY <2>2 DEF none
  <2>4. Remembered(a, none, Txns)
    <3>1. Remembered(AbortTransactions(s, path), {}, Txns)
      BY <2>3, AbortRemembers
    <3> QED BY <3>1 DEF a, none
  <2>5. \A t \in Txns : a.txn[t].status # "NEEDS_ABORT"
    BY <2>4 DEF Remembered, Staged, Stage, none
  <2>6. Remembered(RerunTransactions(a, D), {}, Txns)
    BY <2>4, <2>5, RerunAllRemembers
  <2> QED BY <1>2, <2>6
<1>6. count'.sets # 0 /\ count'.sets \in Nat /\ (count'.sets <= 1 => count.sets = 0)
  BY <1>4 DEF MemoryInv
<1> QED BY <1>4, <1>5, <1>6 DEF MemoryInv

(* At the start there is nothing to remember.                              *)
LEMMA InitRemembers ==
  ASSUME Init
  PROVE  MemoryInv
<1>1. /\ c.phase = "scheduled" /\ c.puts = << >> /\ c.writes = << >> /\ c.queue = << >>
      /\ c.nextId = 1 /\ DOMAIN c = ClientFields /\ DOMAIN c.txn = Txns
      /\ \A t \in Txns : c.txn[t] = NewTransaction
  BY DEF Init, ClientFields
<1>2. /\ DOMAIN NewTransaction = TxnFields /\ NewTransaction.write = 0
      /\ NewTransaction.status = "NEW"
  BY DEF NewTransaction, TxnFields
<1>3. IsSequence(<< >>) /\ DOMAIN << >> = {} /\ << >> \in Seq(Txns)
  <2>1. IsSequence(<< >>)
    BY OfKindOne
  <2>2. DOMAIN << >> = {} /\ << >> \in Seq(Txns)
    OBVIOUS
  <2> QED BY <2>1, <2>2
<1>4. HasFields(c)
  BY <1>1, <1>2, <1>3 DEF HasFields, HasTransactions
<1>5. Pending(c) = {} /\ SetIds(c) = {} /\ Ids(c.writes) = {}
  BY <1>1, <1>2, <1>3 DEF Pending, SetIds, Ids
<1>6. Numbered(c)
  <2>1. {c.txn[t].write : t \in Pending(c)} = {}
    BY <1>5
  <2> QED BY <1>1, <1>2, <1>3, <1>5, <2>1 DEF Numbered
<1>7. Staged(c, {}, {}) /\ Covering(c)
  BY <1>1, <1>2, <1>3 DEF Staged, Stage, Covering
<1>8. Remembered(c, {}, {})
  BY <1>4, <1>6, <1>7 DEF Remembered
<1>9. DOMAIN count = {"sets", "changes", "events"} /\ count.sets = 0
  BY DEF Init
<1> QED BY <1>8, <1>9 DEF MemoryInv

(* Every step keeps it.                                                    *)
LEMMA NextRemembers ==
  ASSUME RepoInv, MemoryInv, [Next]_vars
  PROVE  MemoryInv'
<1>1. CASE UNCHANGED vars
  BY <1>1 DEF vars, MemoryInv
<1>2. ASSUME NEW path \in Paths, SetValue(path) PROVE MemoryInv'
  BY <1>2, SetValueRemembers
<1>3. ASSUME NEW path \in Paths, NEW t \in Txns, StartTransaction(t, path) PROVE MemoryInv'
  BY <1>3, StartTransactionKeeps, MemoryStep DEF StartTransaction
<1>4. ASSUME NEW leaf \in Leaves, OthersChange(leaf) PROVE MemoryInv'
  BY <1>4, MemoryStep DEF OthersChange, Remembers
<1>5. CASE GoOffline
  BY <1>5, GoOfflineKeeps, MemoryStep DEF GoOffline
<1>6. CASE GoOnline
  BY <1>6, GoOnlineKeeps, MemoryStep DEF GoOnline
<1>7. CASE BrowserGoesOffline
  BY <1>7, BrowserGoesOfflineKeeps, MemoryStep DEF BrowserGoesOffline
<1>8. CASE BrowserGoesOnline
  BY <1>8, BrowserGoesOnlineKeeps, MemoryStep DEF BrowserGoesOnline
<1>9. CASE TimerFires
  BY <1>9, TimerFiresKeeps, MemoryStep DEF TimerFires
<1>10. CASE ConnectionIsReady
  BY <1>10, ConnectionIsReadyKeeps, MemoryStep DEF ConnectionIsReady
<1>11. CASE ConnectionIsLost
  BY <1>11, ConnectionIsLostKeeps, MemoryStep DEF ConnectionIsLost
<1>12. CASE ServerKills
  BY <1>12, ServerKillsKeeps, MemoryStep DEF ServerKills
<1>13. CASE Receive
  BY <1>13, ReceiveKeeps, MemoryStep DEF Receive
<1>14. ASSUME c' = [c EXCEPT !.up = Tail(@)] PROVE Remembers
  <2>1. DOMAIN c = ClientFields /\ c.phase \in {"idle", "scheduled", "connecting", "open"}
        /\ IsSequence(c.puts) /\ \A i \in DOMAIN c.puts : IsPut(c.puts[i])
    BY DEF RepoInv, ClientInv, Shape
  <2>2. /\ DOMAIN c' = ClientFields /\ c'.phase = c.phase /\ c'.txn = c.txn
        /\ c'.queue = c.queue /\ c'.writes = c.writes /\ c'.nextId = c.nextId
        /\ c'.puts = c.puts
    BY <1>14, <2>1 DEF ClientFields
  <2> QED BY <2>1, <2>2, ConnectionRemembers DEF Remembers
<1>15. CASE ServerListens
  BY <1>14, <1>15, MemoryStep DEF ServerListens
<1>16. CASE ServerHandlesPut
  BY <1>14, <1>16, MemoryStep DEF ServerHandlesPut
<1> QED BY <1>1, <1>2, <1>3, <1>4, <1>5, <1>6, <1>7, <1>8, <1>9, <1>10, <1>11, <1>12,
           <1>13, <1>15, <1>16 DEF Next

-----------------------------------------------------------------------------
(* The theorems.                                                           *)

(* At the start nothing is queued, outstanding or under way.               *)
LEMMA InitKeeps ==
  ASSUME Init
  PROVE  RepoInv
<1> DEFINE down == server.down
           G == Rest(c, applied, down)
<1>1. /\ c.phase = "scheduled" /\ c.puts = << >> /\ c.up = << >> /\ c.queue = << >>
      /\ c.nextId = 1 /\ DOMAIN c = ClientFields /\ DOMAIN c.txn = Txns
      /\ \A t \in Txns : c.txn[t] = NewTransaction
  BY DEF Init, ClientFields
<1>2. down = << >> /\ DOMAIN server = {"value", "listening", "down"}
      /\ \A t \in Txns : applied[t] = 0
  BY DEF Init
<1>3. /\ G.x = 0 /\ G.kept = {} /\ G.applied = applied /\ G.down = down
      /\ G.phase = c.phase /\ G.reasons = c.reasons /\ G.online = c.online
  BY RestFacts
<1> HIDE DEF G, down
<1>4. IsSequence(<< >>) /\ DOMAIN << >> = {}
  <2>1. IsSequence(<< >>)
    BY OfKindOne
  <2>2. DOMAIN << >> = {}
    OBVIOUS
  <2> QED BY <2>1, <2>2
<1>5. /\ DOMAIN NewTransaction = TxnFields /\ Unsent(NewTransaction)
  BY DEF NewTransaction, TxnFields, Unsent
<1>6. Shape(c)
  BY <1>1, <1>4, <1>5 DEF Shape
<1>7. InOrder(c) /\ Exclusive(c, G) /\ Unqueued(c, G) /\ Awaited(c, G)
  BY <1>1, <1>4 DEF InOrder, Exclusive, Unqueued, Awaited
<1>8. Counted(c, G)
  BY <1>1, <1>2, <1>3, <1>4, <1>5 DEF Counted, Untried
<1>9. Grounded(c, G)
  BY <1>1, <1>2, <1>3, <1>4 DEF Grounded
<1>10. ClientInv(c, Rest(c, applied, server.down))
  BY <1>6, <1>7, <1>8, <1>9 DEF ClientInv, G, down
<1>11. \A i \in DOMAIN server.down : IsMessage(server.down[i])
  BY <1>2, <1>4 DEF down
<1>12. NeverStuck
  BY <1>1 DEF NeverStuck
<1> QED BY <1>2, <1>10, <1>11, <1>12 DEF RepoInv, down

(* Every step keeps the invariant.                                         *)
LEMMA NextKeeps ==
  ASSUME RepoInv, [Next]_vars
  PROVE  RepoInv'
<1>1. CASE UNCHANGED vars
  <2>1. c' = c /\ server' = server /\ applied' = applied
    BY <1>1 DEF vars
  <2> QED BY <2>1 DEF RepoInv, NeverStuck
<1>2. ASSUME NEW path \in Paths, SetValue(path) PROVE RepoInv'
  BY <1>2, SetValueKeeps
<1>3. ASSUME NEW path \in Paths, NEW t \in Txns, StartTransaction(t, path) PROVE RepoInv'
  BY <1>3, StartTransactionKeeps
<1>4. ASSUME NEW leaf \in Leaves, OthersChange(leaf) PROVE RepoInv'
  BY <1>4, OthersChangeKeeps
<1>5. CASE GoOffline
  BY <1>5, GoOfflineKeeps
<1>6. CASE GoOnline
  BY <1>6, GoOnlineKeeps
<1>7. CASE BrowserGoesOffline
  BY <1>7, BrowserGoesOfflineKeeps
<1>8. CASE BrowserGoesOnline
  BY <1>8, BrowserGoesOnlineKeeps
<1>9. CASE TimerFires
  BY <1>9, TimerFiresKeeps
<1>10. CASE ConnectionIsReady
  BY <1>10, ConnectionIsReadyKeeps
<1>11. CASE ConnectionIsLost
  BY <1>11, ConnectionIsLostKeeps
<1>12. CASE ServerKills
  BY <1>12, ServerKillsKeeps
<1>13. CASE Receive
  BY <1>13, ReceiveKeeps
<1>14. CASE ServerListens
  BY <1>14, ServerListensKeeps
<1>15. CASE ServerHandlesPut
  BY <1>15, ServerHandlesPutKeeps
<1> QED BY <1>1, <1>2, <1>3, <1>4, <1>5, <1>6, <1>7, <1>8, <1>9, <1>10, <1>11, <1>12,
           <1>13, <1>14, <1>15 DEF Next

(* The inductive invariant holds throughout.                               *)
THEOREM RepoInvariant == Spec => []RepoInv
<1>1. Init => RepoInv
  BY InitKeeps
<1>2. RepoInv /\ [Next]_vars => RepoInv'
  BY NextKeeps
<1> QED BY <1>1, <1>2, PTL DEF Spec

(* A transaction that repoSendTransactionQueue's callback reports as       *)
(* committed was applied by the server once, one that it or                *)
(* repoRerunTransactionQueue reports as aborted was not applied and will   *)
(* not be, and none is applied twice, through any number of lost           *)
(* connections, retries and conflicting calls of set().                    *)
THEOREM OutcomesTrue == Spec => []OutcomesAreTrue
<1>1. RepoInv => OutcomesAreTrue
  <2> SUFFICES ASSUME RepoInv, NEW t \in Txns
               PROVE  /\ applied[t] <= 1
                      /\ c.txn[t].outcome = "committed" => applied[t] = 1
                      /\ c.txn[t].outcome \in {"set", "maxretry", "nodata", "permission_denied"}
                           => applied[t] = 0
    BY DEF OutcomesAreTrue
  <2> DEFINE G == Rest(c, applied, server.down)
  <2>1. Counted(c, G) /\ G.applied = applied
    BY RestFacts DEF RepoInv, ClientInv
  <2> HIDE DEF G
  <2>2. /\ \/ Unsent(c.txn[t]) /\ applied[t] = 0
           \/ OnTheWire(c.txn[t]) \/ Doubtful(c.txn[t])
           \/ Committed(c.txn[t]) /\ applied[t] = 1
        /\ applied[t] \in {0, 1}
    BY <2>1 DEF Counted, Untried
  <2> QED BY <2>2 DEF Unsent, OnTheWire, Doubtful, Committed, Aborts
<1> QED BY <1>1, RepoInvariant, PTL

(* The puts, the answers and the requests match by their ids.              *)
SameIds(puts, A, R) ==
  [i \in DOMAIN puts |-> puts[i].id] =
    [i \in DOMAIN A |-> A[i].id] \o [i \in DOMAIN R |-> R[i].put.id]

(* Puts that match their answers and requests have their ids.              *)
LEMMA AwaitedIds ==
  ASSUME NEW puts, IsSequence(puts), NEW A, IsSequence(A), NEW R, IsSequence(R),
         NEW G, Matches(puts, A, R, G)
  PROVE  SameIds(puts, A, R)
<1> DEFINE p == [i \in DOMAIN puts |-> puts[i].id]
           a == [i \in DOMAIN A |-> A[i].id]
           r == [i \in DOMAIN R |-> R[i].put.id]
           S == {puts[i].id : i \in DOMAIN puts} \cup {A[i].id : i \in DOMAIN A}
                  \cup {R[i].put.id : i \in DOMAIN R}
<1>1. /\ Len(puts) \in Nat /\ DOMAIN puts = 1 .. Len(puts)
      /\ Len(A) \in Nat /\ DOMAIN A = 1 .. Len(A)
      /\ Len(R) \in Nat /\ DOMAIN R = 1 .. Len(R)
  BY SequenceFacts
<1>2. /\ \A i \in DOMAIN puts : puts[i].id \in S
      /\ \A i \in DOMAIN A : A[i].id \in S
      /\ \A i \in DOMAIN R : R[i].put.id \in S
  OBVIOUS
<1> HIDE DEF S
<1>3. /\ p \in Seq(S) /\ Len(p) = Len(puts) /\ a \in Seq(S) /\ Len(a) = Len(A)
      /\ r \in Seq(S) /\ Len(r) = Len(R)
  BY <1>1, <1>2, SeqDef, LenProperties
<1>4. /\ \A i \in 1 .. Len(puts) : p[i] = puts[i].id
      /\ \A i \in 1 .. Len(A) : a[i] = A[i].id
      /\ \A i \in 1 .. Len(R) : r[i] = R[i].put.id
  BY <1>1
<1>5. /\ Len(puts) = Len(A) + Len(R)
      /\ \A i \in 1 .. Len(A) : puts[i].id = A[i].id
      /\ \A j \in 1 .. Len(R) : puts[Len(A) + j].id = R[j].put.id
  BY DEF Matches
<1> HIDE DEF p, a, r
<1>6. /\ a \o r \in Seq(S) /\ Len(a \o r) = Len(A) + Len(R)
      /\ \A i \in 1 .. Len(A) + Len(R) :
           (a \o r)[i] = IF i <= Len(A) THEN a[i] ELSE r[i - Len(A)]
  <2>1. /\ a \o r \in Seq(S) /\ Len(a \o r) = Len(a) + Len(r)
        /\ \A i \in 1 .. Len(a) + Len(r) :
             (a \o r)[i] = IF i <= Len(a) THEN a[i] ELSE r[i - Len(a)]
    BY <1>3, ConcatProperties
  <2> QED BY <1>3, <2>1
<1>7. \A i \in 1 .. Len(p) : p[i] = (a \o r)[i]
  <2> TAKE i \in 1 .. Len(p)
  <2>1. CASE i <= Len(A)
    <3>1. i \in 1 .. Len(A) /\ i \in 1 .. Len(puts) /\ i \in 1 .. Len(A) + Len(R)
      BY <1>1, <1>3, <1>5, <2>1
    <3> QED BY <1>4, <1>5, <1>6, <2>1, <3>1
  <2>2. CASE ~(i <= Len(A))
    <3>1. /\ i - Len(A) \in 1 .. Len(R) /\ i \in 1 .. Len(puts)
          /\ i \in 1 .. Len(A) + Len(R) /\ Len(A) + (i - Len(A)) = i
      BY <1>1, <1>3, <1>5, <2>2
    <3>2. puts[i].id = R[i - Len(A)].put.id
      BY <1>5, <3>1
    <3> QED BY <1>4, <1>6, <2>2, <3>1, <3>2
  <2> QED BY <2>1, <2>2
<1>8. p = a \o r
  BY <1>3, <1>5, <1>6, <1>7, SeqEqual
<1> QED BY <1>8 DEF SameIds, p, a, r

(* On an open connection the outstanding puts of PersistentConnection,     *)
(* whose callbacks are found by request number, are those that the server  *)
(* has answered or has been sent, each once and in one order.              *)
THEOREM PutsAwait == Spec => []PutsAwaitAnswers
<1>1. RepoInv => PutsAwaitAnswers
  <2> SUFFICES ASSUME RepoInv, c.phase = "open" PROVE PutsAwaitAnswers
    BY DEF PutsAwaitAnswers
  <2> DEFINE G == Rest(c, applied, server.down)
             A == Filter(server.down, {m \in Range(server.down) : m.kind = "answer"})
             R == Filter(c.up, {r \in Range(c.up) : r.kind = "put"})
  <2>1. ClientInv(c, G) /\ G.down = server.down
    BY RestFacts DEF RepoInv
  <2>2. IsSequence(c.puts) /\ IsSequence(c.up) /\ IsSequence(server.down)
    BY <2>1 DEF ClientInv, Shape, Grounded
  <2>3. IsSequence(A) /\ IsSequence(R)
    BY <2>2, FilteredFacts
  <2>4. Matches(c.puts, A, R, G)
    BY <2>1 DEF ClientInv, Awaited, AnswersIn, PutsIn
  <2> HIDE DEF A, R, G
  <2>5. SameIds(c.puts, A, R)
    BY <2>2, <2>3, <2>4, AwaitedIds
  <2> QED BY <2>5 DEF PutsAwaitAnswers, SameIds, A, R
<1> QED BY <1>1, RepoInvariant, PTL

(* Whatever interrupts and resumes the connection, and in whatever order:  *)
(* with no reason to stay offline, the client is connected, connecting, or *)
(* its timer is set.                                                       *)
THEOREM NeverRestsUnconnected == Spec => []NeverStuck
<1>1. RepoInv => NeverStuck
  BY DEF RepoInv
<1> QED BY <1>1, RepoInvariant, PTL

(* "Used when an already-sent transaction needs to be aborted ... If it    *)
(* comes back as unsuccessful, we'll abort it.": until the application     *)
(* calls set() a second time, a transaction that was started and has not   *)
(* settled is in the queue, where its answer or the next server data finds *)
(* it, and the pending writes are those of such transactions and of        *)
(* outstanding sets (the run rtdb_forgotten shows what a second set() may  *)
(* do).                                                                    *)
THEOREM FirstSetForgetsNone == Spec => [](count.sets <= 1 => NoneForgotten)
<1>1. Init => RepoInv /\ MemoryInv
  BY InitKeeps, InitRemembers
<1>2. RepoInv /\ MemoryInv /\ [Next]_vars => (RepoInv /\ MemoryInv)'
  BY NextKeeps, NextRemembers
<1>3. ASSUME RepoInv, MemoryInv, count.sets <= 1 PROVE NoneForgotten
  <2> DEFINE unsettled == {t \in Txns : c.txn[t].outcome = "none" /\ c.txn[t] # NewTransaction}
             K == {put \in Range(c.puts) : put.txns = << >>}
             sets == Filter(c.puts, K)
             G == Rest(c, applied, server.down)
             marks == IF count.sets = 0 THEN {} ELSE Txns
  <2>1. Remembered(c, {}, marks) /\ ClientInv(c, G)
    BY <1>3 DEF MemoryInv, RepoInv
  <2> HIDE DEF G, marks
  <2>2. Pending(c) = unsettled
    <3>1. ASSUME NEW t \in Txns PROVE t \in Pending(c) <=> t \in unsettled
      <4>1. Unsent(c.txn[t]) \/ OnTheWire(c.txn[t]) \/ Doubtful(c.txn[t]) \/ Committed(c.txn[t])
        BY <2>1 DEF ClientInv, Counted
      <4>2. c.txn[t].outcome = "none" <=> c.txn[t].status # "COMPLETED"
        BY <4>1 DEF Unsent, OnTheWire, Doubtful, Committed, Aborts
      <4>3. IF c.txn[t].write # 0
              THEN c.txn[t].status \in {"RUN", "SENT", "SENT_NEEDS_ABORT", "NEEDS_ABORT"}
              ELSE c.txn[t] = NewTransaction \/ c.txn[t].status = "COMPLETED"
        BY <2>1 DEF Remembered, Staged, Stage
      <4>4. NewTransaction.write = 0
        BY DEF NewTransaction
      <4> QED BY <4>2, <4>3, <4>4 DEF Pending
    <3> QED BY <3>1 DEF Pending
  <2>3. \A t \in unsettled : t \in Range(c.queue)
    BY <2>1, <2>2 DEF Remembered, Staged, Stage, Pending
  <2> HIDE DEF unsettled
  <2>4. {sets[i].write : i \in DOMAIN sets} = SetIds(c)
    <3>1. IsSequence(c.puts)
      BY <2>1 DEF Remembered, HasFields
    <3>2. \A put : put \in Range(sets) <=> put \in Range(c.puts) /\ put \in K
      <4> HIDE DEF K
      <4> QED BY <3>1, FilterRange
    <3> HIDE DEF sets
    <3>3. \A i \in DOMAIN c.puts : c.puts[i].txns = << >> => c.puts[i].write = c.puts[i].id
      BY <2>1 DEF Remembered, Numbered
    <3>4. ASSUME NEW i \in DOMAIN sets PROVE sets[i].write \in SetIds(c)
      <4>1. sets[i] \in Range(c.puts) /\ sets[i].txns = << >>
        BY <3>2 DEF Range
      <4> QED BY <3>3, <4>1 DEF Range, SetIds
    <3>5. ASSUME NEW id \in SetIds(c) PROVE \E i \in DOMAIN sets : sets[i].write = id
      <4>1. PICK i \in DOMAIN c.puts : c.puts[i].txns = << >> /\ c.puts[i].id = id
        BY DEF SetIds
      <4>2. c.puts[i] \in Range(sets)
        BY <3>2, <4>1 DEF Range
      <4> QED BY <3>3, <4>1, <4>2 DEF Range
    <3> QED BY <3>4, <3>5
  <2> HIDE DEF sets
  <2>5. Ids(c.writes) = {c.txn[t].write : t \in unsettled} \cup {sets[i].write : i \in DOMAIN sets}
    BY <2>1, <2>2, <2>4 DEF Remembered, Numbered
  <2> QED BY <2>3, <2>5 DEF NoneForgotten, Ids, unsettled, sets, K
<1> QED BY <1>1, <1>2, <1>3, PTL DEF Spec

=============================================================================
