---------------------------- MODULE FoldTheorems ----------------------------
(***************************************************************************)
(* Induction along the folds that model the loops of the code.  A module   *)
(* that folds an operator over a sequence takes an instance of this one    *)
(* with its operator for Op and its loop invariant for Inv; p stands for   *)
(* what the operator takes from the scope of the loop.                     *)
(***************************************************************************)
EXTENDS Integers, Sequences, WellFoundedInduction

CONSTANTS Op(_, _, _), Inv(_, _, _)

Last(s) == CHOOSE x \in s : \A y \in s : x >= y

(* FoldLeft(LAMBDA d, t : Op(d, t, p), base, w), written out: an instance  *)
(* brings in what this module extends, and should bring in little.         *)
Run(base, w, p) ==
  LET iter[s \in SUBSET DOMAIN w] ==
        IF s = {} THEN base
        ELSE LET x == Last(s) IN Op(iter[s \ {x}], w[x], p)
  IN  iter[DOMAIN w]

(* Induction over an interval, for a set instead of a predicate.           *)
LEMMA Interval ==
  ASSUME NEW n \in Nat, NEW T, 0 \in T, \A i \in 1 .. n : i - 1 \in T => i \in T
  PROVE  0 .. n \subseteq T
<1> DEFINE B == {i \in 0 .. n : i \notin T}
<1> SUFFICES ASSUME B # {} PROVE FALSE
  OBVIOUS
<1>1. B \subseteq Nat
  OBVIOUS
<1>2. PICK m \in B : \A k \in B : m <= k
  <2> DEFINE R == OpToRel(<, Nat)
  <2>1. IsWellFoundedOn(R, Nat)
    BY NatLessThanWellFounded
  <2>2. \A x, y \in Nat : <<y, x>> \notin R => x <= y
    BY DEF OpToRel
  <2> HIDE DEF R, B
  <2>3. \E x \in B : \A y \in B : ~(<<y, x>> \in R)
    BY <1>1, <2>1, WFMin
  <2> QED BY <1>1, <2>2, <2>3
<1>3. m \in 1 .. n /\ m - 1 \in 0 .. n /\ m - 1 < m
  BY <1>2
<1>4. m - 1 \in T
  BY <1>2, <1>3
<1> QED BY <1>2, <1>3, <1>4

(* The last index of an interval is its maximum.                           *)
LEMMA Top ==
  ASSUME NEW n \in Nat, NEW s \in SUBSET (1 .. n), n \in s
  PROVE  Last(s) = n
<1>1. \A y \in s : y <= n /\ y \in Nat
  OBVIOUS
<1>2. \E x \in s : \A y \in s : x >= y
  BY <1>1
<1>3. Last(s) \in s /\ \A y \in s : Last(s) >= y
  BY <1>2 DEF Last
<1>4. Last(s) \in Nat /\ Last(s) <= n /\ Last(s) >= n
  BY <1>1, <1>3
<1> QED BY <1>4

(* A fold runs through the elements of its sequence, one step for each.    *)
LEMMA RunSteps ==
  ASSUME NEW p, NEW base, NEW D, NEW w \in Seq(D)
  PROVE  \E r : /\ r[0] = base
                /\ \A i \in 1 .. Len(w) : r[i] = Op(r[i - 1], w[i], p)
                /\ Run(base, w, p) = r[Len(w)]
<1> DEFINE n == Len(w)
           Fold(g, s) == IF s = {} THEN base ELSE Op(g[s \ {Last(s)}], w[Last(s)], p)
           T == {k \in 0 .. n : \E g : g = [s \in SUBSET (1 .. k) |-> Fold(g, s)]}
<1>1. n \in Nat /\ DOMAIN w = 1 .. n
  OBVIOUS
<1>2. 0 \in T
  <2> DEFINE g == [s \in SUBSET (1 .. 0) |-> base]
  <2>1. SUBSET (1 .. 0) = {{}}
    OBVIOUS
  <2>2. g = [s \in SUBSET (1 .. 0) |-> Fold(g, s)]
    BY <2>1
  <2> HIDE DEF g, Fold
  <2> QED BY <1>1, <2>2
<1>3. ASSUME NEW k \in 1 .. n, k - 1 \in T PROVE k \in T
  <2>1. PICK g : g = [s \in SUBSET (1 .. k - 1) |-> Fold(g, s)]
    BY <1>3
  <2> DEFINE h == [s \in SUBSET (1 .. k) |->
                     IF k \in s THEN Op(g[s \ {k}], w[k], p) ELSE g[s]]
  <2>2. ASSUME NEW s \in SUBSET (1 .. k) PROVE h[s] = Fold(h, s)
    <3>1. CASE k \in s
      <4>1. Last(s) = k /\ s # {} /\ s \ {k} \in SUBSET (1 .. k) /\ k \notin s \ {k}
        BY <3>1, Top, <1>1
      <4> QED BY <3>1, <4>1
    <3>2. CASE k \notin s
      <4>1. s \in SUBSET (1 .. k - 1)
        BY <3>2, <1>1
      <4>2. h[s] = Fold(g, s)
        <5>1. h[s] = g[s]
          BY <3>2
        <5> HIDE DEF Fold, h
        <5> QED BY <2>1, <4>1, <5>1
      <4>3. s # {} => h[s \ {Last(s)}] = g[s \ {Last(s)}]
        <5>1. s \ {Last(s)} \in SUBSET (1 .. k) /\ k \notin s \ {Last(s)}
          BY <3>2
        <5> QED BY <5>1
      <4> HIDE DEF h
      <4> QED BY <4>2, <4>3
    <3> QED BY <3>1, <3>2
  <2>3. h = [s \in SUBSET (1 .. k) |-> Fold(h, s)]
    <3>1. h = [s \in SUBSET (1 .. k) |-> h[s]]
      OBVIOUS
    <3> HIDE DEF h, Fold
    <3> QED BY <3>1, <2>2
  <2> HIDE DEF h, Fold
  <2> QED BY <2>3
<1>4. n \in T
  <2> HIDE DEF T, n
  <2>1. 0 .. n \subseteq T
    BY <1>1, <1>2, <1>3, Interval
  <2> QED BY <1>1, <2>1
<1> DEFINE g == CHOOSE g : g = [s \in SUBSET (1 .. n) |-> Fold(g, s)]
<1>5. g = [s \in SUBSET (1 .. n) |-> Fold(g, s)]
  <2> HIDE DEF Fold
  <2> QED BY <1>4
<1>6. Run(base, w, p) = g[1 .. n]
  BY <1>1 DEF Run
<1> HIDE DEF g, n, T
<1>7. \A i \in 1 .. n : g[1 .. i] = Op(g[1 .. i - 1], w[i], p)
  <2> TAKE i \in 1 .. n
  <2>0. i \in Nat /\ i \in 1 .. i /\ 1 .. i \in SUBSET (1 .. i)
    BY <1>1
  <2>1. (1 .. i) \ {i} = 1 .. i - 1 /\ 1 .. i # {} /\ 1 .. i \in SUBSET (1 .. n)
    BY <1>1
  <2>2. Last(1 .. i) = i
    BY <2>0, Top
  <2> QED BY <1>5, <2>1, <2>2
<1>8. g[1 .. 0] = base
  BY <1>5, <1>1
<1> DEFINE r == [i \in 0 .. n |-> g[1 .. i]]
<1>9. r[0] = base /\ r[n] = Run(base, w, p) /\ \A i \in 1 .. n : r[i] = Op(r[i - 1], w[i], p)
  BY <1>1, <1>6, <1>7, <1>8
<1> HIDE DEF r
<1> QED BY <1>9 DEF n

(* What the first value of a fold satisfies and every step keeps, its last *)
(* value satisfies.                                                        *)
LEMMA FoldKeeps ==
  ASSUME NEW p, NEW base, NEW D, NEW w \in Seq(D),
         Inv(base, 0, p),
         ASSUME NEW i \in 1 .. Len(w), NEW d, Inv(d, i - 1, p)
         PROVE  Inv(Op(d, w[i], p), i, p)
  PROVE  Inv(Run(base, w, p), Len(w), p)
<1>0. Len(w) \in Nat
  OBVIOUS
<1>1. PICK r : /\ r[0] = base
               /\ \A i \in 1 .. Len(w) : r[i] = Op(r[i - 1], w[i], p)
               /\ Run(base, w, p) = r[Len(w)]
  BY RunSteps
<1> DEFINE T == {i \in 0 .. Len(w) : Inv(r[i], i, p)}
<1>2. 0 \in T
  BY <1>0, <1>1
<1>3. ASSUME NEW i \in 1 .. Len(w), i - 1 \in T PROVE i \in T
  <2>1. Inv(r[i - 1], i - 1, p)
    BY <1>3
  <2>2. Inv(Op(r[i - 1], w[i], p), i, p)
    BY <2>1
  <2> QED BY <1>0, <1>1, <2>2
<1>4. 0 .. Len(w) \subseteq T
  <2> HIDE DEF T
  <2> QED BY <1>0, <1>2, <1>3, Interval
<1> QED BY <1>0, <1>1, <1>4

=============================================================================
