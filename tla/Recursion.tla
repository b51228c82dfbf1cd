----------------------------- MODULE Recursion -----------------------------
(***************************************************************************)
(* Induction and recursion stated about sets and functions, so that they   *)
(* can be cited of a recursive definition: a recursive function is         *)
(* CHOOSE f : f = [x \in X |-> ... f[y] ...], and what it computes can be   *)
(* said as soon as there is such an f.                                     *)
(***************************************************************************)
EXTENDS Integers, FiniteSetTheorems, WellFoundedInduction, TLAPS

(* A set of natural numbers has a least element: the intervals from 0 to    *)
(* its elements are finite sets, of which one is least.                     *)
LEMMA LeastNat ==
    ASSUME NEW S, S \subseteq Nat, S # {}
    PROVE  \E m \in S : \A n \in S : m <= n
  <1> DEFINE T == {0..n : n \in S}
  <1>1. T \subseteq FiniteSubsetsOf(Nat) /\ T # {}
    <2>1. ASSUME NEW n \in S PROVE 0..n \in FiniteSubsetsOf(Nat)
      <3>1. IsFiniteSet(0..n) /\ 0..n \subseteq Nat
        BY FS_Interval
      <3> QED
        BY <3>1 DEF FiniteSubsetsOf
    <2> QED
      BY <2>1
  <1>2. PICK x \in T : \A y \in T : <<y, x>> \notin StrictSubsetOrdering(Nat)
    <2> HIDE DEF T
    <2> QED
      BY <1>1, WFMin, FS_StrictSubsetOrderingWellFounded
  <1>3. PICK m \in S : x = 0..m
    BY <1>2
  <1>4. ASSUME NEW n \in S PROVE m <= n
    <2>1. <<0..n, 0..m>> \notin StrictSubsetOrdering(Nat)
      BY <1>2, <1>3
    <2>2. ~(0..n \subseteq 0..m /\ 0..n # 0..m)
      BY <2>1 DEF StrictSubsetOrdering
    <2> QED
      BY <2>2
  <1> QED
    BY <1>4

(* Induction: a set of natural numbers that has 0, and with a number the    *)
(* next one, has all of them.                                              *)
LEMMA Induction ==
    ASSUME NEW P, 0 \in P, \A n \in Nat : n \in P => n + 1 \in P
    PROVE  \A n \in Nat : n \in P
  <1> SUFFICES ASSUME Nat \ P # {} PROVE FALSE
    OBVIOUS
  <1>1. PICK m \in Nat \ P : \A n \in Nat \ P : m <= n
    BY LeastNat
  <1>2. m # 0 /\ m - 1 \in Nat
    BY <1>1
  <1>3. m - 1 \in P
    BY <1>1, <1>2
  <1> QED
    BY <1>1, <1>2, <1>3

(* Within an interval, upwards and downwards.                              *)
Upward(a, b, P) == (a <= b => a \in P) /\ \A i \in a..(b - 1) : i \in P => i + 1 \in P
Downward(a, b, P) == (a <= b => b \in P) /\ \A i \in a..(b - 1) : i + 1 \in P => i \in P

(* What holds at the low end, and next to where it holds, holds of all ... *)
LEMMA UpwardInduction ==
    ASSUME NEW a \in Int, NEW b \in Int, NEW P, Upward(a, b, P)
    PROVE  a..b \subseteq P
  <1> DEFINE Q == {n \in Nat : a + n <= b => a + n \in P}
  <1>1. 0 \in Q
    BY DEF Upward
  <1>2. ASSUME NEW n \in Nat, n \in Q PROVE n + 1 \in Q
    <2> SUFFICES ASSUME a + (n + 1) <= b PROVE a + (n + 1) \in P
      OBVIOUS
    <2>1. a + n \in a..(b - 1) /\ a + n \in P /\ (a + n) + 1 = a + (n + 1)
      BY <1>2
    <2> QED
      BY <2>1 DEF Upward
  <1>3. \A n \in Nat : n \in Q
    <2> HIDE DEF Q
    <2> QED
      BY <1>1, <1>2, Induction
  <1>4. ASSUME NEW i \in a..b PROVE i \in P
    <2>1. i - a \in Nat /\ a + (i - a) = i
      OBVIOUS
    <2> QED
      BY <1>3, <2>1
  <1> QED
    BY <1>4

(* ... and so it does from the high end down.                              *)
LEMMA DownwardInduction ==
    ASSUME NEW a \in Int, NEW b \in Int, NEW P, Downward(a, b, P)
    PROVE  a..b \subseteq P
  <1> DEFINE Q == {i \in a..b : (a + b) - i \in P}
  <1>1. a <= b => a \in Q
    BY DEF Downward
  <1>2. ASSUME NEW i \in a..(b - 1), i \in Q PROVE i + 1 \in Q
    <2>1. (a + b) - (i + 1) \in a..(b - 1) /\ ((a + b) - (i + 1)) + 1 = (a + b) - i
      OBVIOUS
    <2> QED
      BY <1>2, <2>1 DEF Downward
  <1>3. a..b \subseteq Q
    <2> HIDE DEF Q
    <2>1. Upward(a, b, Q)
      BY <1>1, <1>2 DEF Upward
    <2> QED
      BY <2>1, UpwardInduction
  <1>4. ASSUME NEW i \in a..b PROVE i \in P
    <2>1. (a + b) - i \in a..b /\ (a + b) - ((a + b) - i) = i
      OBVIOUS
    <2> QED
      BY <1>3, <2>1
  <1> QED
    BY <1>4

-----------------------------------------------------------------------------
(* One step of a recursion: a value at once, or one made of the value for   *)
(* the next argument.                                                      *)
Step(stop, base, next, comb, f, x) == IF x \in stop THEN base[x] ELSE comb[<<x, f[next[x]]>>]

Solves(X, S, stop, base, next, comb, size, n) ==
    {f \in [X -> S] : \A x \in X : size[x] < n => f[x] = Step(stop, base, next, comb, f, x)}

(* Its argument gets smaller, and its values are in S.                     *)
Descends(X, S, stop, base, next, comb, size) ==
    /\ size \in [X -> Nat]
    /\ \A x \in X : base[x] \in S
    /\ \A x \in X \ stop : next[x] \in X /\ size[next[x]] < size[x]
    /\ \A x \in X \ stop, s \in S : comb[<<x, s>>] \in S

(* Such a recursion has a solution.                                        *)
LEMMA RecursionExists ==
    ASSUME NEW X, NEW S, NEW stop, NEW base, NEW next, NEW comb, NEW size,
           Descends(X, S, stop, base, next, comb, size)
    PROVE  \E f \in [X -> S] : \A x \in X : f[x] = Step(stop, base, next, comb, f, x)
  <1>0. /\ size \in [X -> Nat]
        /\ \A x \in X : base[x] \in S
        /\ \A x \in X \ stop : next[x] \in X /\ size[next[x]] < size[x]
        /\ \A x \in X \ stop, s \in S : comb[<<x, s>>] \in S
    BY DEF Descends
  <1> USE <1>0
  <1> DEFINE Sol(n) == Solves(X, S, stop, base, next, comb, size, n)
             St(f, x) == Step(stop, base, next, comb, f, x)
  (* The value at x depends on smaller arguments only.                      *)
  <1>1. ASSUME NEW f, NEW g, NEW x \in X, \A y \in X : size[y] < size[x] => f[y] = g[y]
        PROVE  St(f, x) = St(g, x)
    BY <1>1 DEF Step
  <1>2. ASSUME NEW f \in [X -> S], NEW x \in X PROVE St(f, x) \in S
    BY <1>2 DEF Step
  (* There is a solution up to each size ...                                *)
  <1>3. \A n \in Nat : Sol(n) # {}
    <2> DEFINE P == {n \in Nat : Sol(n) # {}}
    <2>1. 0 \in P
      <3>1. [x \in X |-> base[x]] \in Sol(0)
        BY DEF Solves
      <3> QED
        BY <3>1
    <2>2. ASSUME NEW n \in Nat, n \in P PROVE n + 1 \in P
      <3>1. PICK f : f \in Sol(n)
        BY <2>2
      <3> DEFINE g == [x \in X |-> IF size[x] < n THEN f[x] ELSE St(f, x)]
      <3>2. f \in [X -> S] /\ \A x \in X : size[x] < n => f[x] = St(f, x)
        BY <3>1 DEF Solves
      <3>3. g \in [X -> S]
        BY <1>2, <3>2
      <3>4. ASSUME NEW x \in X, size[x] < n + 1 PROVE g[x] = St(g, x)
        <4>1. \A y \in X : size[y] < size[x] => g[y] = f[y]
          BY <3>4
        <4>2. St(g, x) = St(f, x)
          <5> HIDE DEF g, St
          <5> QED
            BY <1>1, <4>1
        <4>3. g[x] = St(f, x)
          BY <3>2
        <4> QED
          BY <4>2, <4>3
      <3>5. g \in Sol(n + 1)
        <4> HIDE DEF g
        <4> QED
          BY <3>3, <3>4 DEF Solves
      <3> QED
        BY <3>5
    <2> HIDE DEF P
    <2>3. \A n \in Nat : n \in P
      BY <2>1, <2>2, Induction
    <2> QED
      BY <2>3 DEF P
  (* ... and two of them agree as far as both go.                           *)
  <1>4. ASSUME NEW m \in Nat, NEW n \in Nat, NEW f \in Sol(m), NEW g \in Sol(n),
               NEW x \in X, size[x] < m, size[x] < n
        PROVE  f[x] = g[x]
    <2> DEFINE Bad == {size[y] : y \in {y \in X : size[y] < m /\ size[y] < n /\ f[y] # g[y]}}
    <2> SUFFICES ASSUME Bad # {} PROVE FALSE
      BY <1>4
    <2>1. Bad \subseteq Nat
      OBVIOUS
    <2>2. PICK k \in Bad : \A j \in Bad : k <= j
      <3> HIDE DEF Bad
      <3> QED
        BY <2>1, LeastNat
    <2>3. PICK y \in X : k = size[y] /\ size[y] < m /\ size[y] < n /\ f[y] # g[y]
      BY <2>2
    <2>4. \A z \in X : size[z] < size[y] => f[z] = g[z]
      BY <2>2, <2>3
    <2>5. St(f, y) = St(g, y)
      <3> HIDE DEF St
      <3> QED
        BY <1>1, <2>4
    <2> QED
      BY <2>3, <2>5 DEF Solves
  <1> DEFINE sol(n) == CHOOSE f : f \in Sol(n)
             F == [x \in X |-> sol(size[x] + 1)[x]]
  <1>5. \A n \in Nat : sol(n) \in Sol(n)
    BY <1>3
  <1>6. \A n \in Nat : sol(n) \in [X -> S] /\ \A x \in X : size[x] < n => sol(n)[x] = St(sol(n), x)
    BY <1>5 DEF Solves
  <1>7. F \in [X -> S]
    BY <1>6
  <1>8. ASSUME NEW x \in X PROVE F[x] = St(F, x)
    <2> DEFINE n == size[x] + 1
    <2>1. n \in Nat /\ size[x] < n
      OBVIOUS
    <2>2. F[x] = St(sol(n), x)
      BY <1>6, <2>1
    <2>3. ASSUME NEW y \in X, size[y] < size[x] PROVE F[y] = sol(n)[y]
      <3>1. size[y] + 1 \in Nat /\ size[y] < size[y] + 1 /\ size[y] < n
        BY <2>1, <2>3
      <3>2. sol(size[y] + 1)[y] = sol(n)[y]
        <4> HIDE DEF sol, Sol, n
        <4> QED
          BY <1>4, <1>5, <2>1, <3>1
      <3> QED
        BY <3>2
    <2>4. St(F, x) = St(sol(n), x)
      <3> HIDE DEF F, St, sol, n
      <3> QED
        BY <1>1, <2>3
    <2> QED
      BY <2>2, <2>4
  <1> HIDE DEF F
  <1> QED
    BY <1>7, <1>8

(* Induction along a descent.                                              *)
LEMMA DescentInduction ==
    ASSUME NEW X, NEW size \in [X -> Nat], NEW P,
           \A x \in X : (\A y \in X : size[y] < size[x] => y \in P) => x \in P
    PROVE  X \subseteq P
  <1> DEFINE Bad == {size[y] : y \in X \ P}
  <1> SUFFICES ASSUME Bad # {} PROVE FALSE
    OBVIOUS
  <1>1. Bad \subseteq Nat
    OBVIOUS
  <1>2. PICK k \in Bad : \A j \in Bad : k <= j
    <2> HIDE DEF Bad
    <2> QED
      BY <1>1, LeastNat
  <1>3. PICK x \in X \ P : k = size[x]
    BY <1>2
  <1>4. ASSUME NEW y \in X, size[y] < size[x] PROVE y \in P
    <2> SUFFICES ASSUME y \notin P PROVE FALSE
      OBVIOUS
    <2>1. size[y] \in Bad
      OBVIOUS
    <2> DEFINE p == size[x]
               q == size[y]
    <2> HIDE DEF p, q, Bad
    <2>2. p \in Nat /\ q \in Nat /\ q < p /\ p <= q
      BY <1>2, <1>3, <1>4, <2>1 DEF p, q
    <2> QED
      BY <2>2
  <1> QED
    BY <1>3, <1>4
=============================================================================
