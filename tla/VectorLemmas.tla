---------------------------- MODULE VectorLemmas ----------------------------
(***************************************************************************)
(* Facts about vectors, and about vectors of vectors that are put one      *)
(* behind the other.  Offsets and FlattenSeq are recursive: that they are  *)
(* what their equations say, and what they compute, is shown by induction, *)
(* which is stated here for a set of numbers.                              *)
(***************************************************************************)
EXTENDS Vectors, SequencesExt, SequenceTheorems, WellFoundedInduction, TLAPS

-----------------------------------------------------------------------------
(* Vectors *)

(* A function on 1 .. n is a vector of length n. *)
LEMMA Vector ==
  ASSUME NEW s, NEW n \in Nat, s = [k \in 1 .. n |-> s[k]]
  PROVE  IsVector(s) /\ Len(s) = n /\ DOMAIN s = 1 .. n
<1>1. s \in Seq({s[k] : k \in DOMAIN s})
  <2> DEFINE S == {s[k] : k \in DOMAIN s}
  <2>1. DOMAIN s = 1 .. n
    OBVIOUS
  <2>2. \A k \in 1 .. n : s[k] \in S
    BY <2>1
  <2>3. s \in [1 .. n -> S]
    BY <2>2
  <2> QED BY <2>3
<1> QED BY <1>1 DEF IsVector

(* A vector is a function on 1 .. Len. *)
LEMMA VectorShape ==
  ASSUME NEW s, IsVector(s)
  PROVE  Len(s) \in Nat /\ DOMAIN s = 1 .. Len(s) /\ s = [k \in 1 .. Len(s) |-> s[k]]
BY DEF IsVector

(* push_back, pop_back, and replacing one element. *)
LEMMA VectorAppend ==
  ASSUME NEW s, IsVector(s), NEW x
  PROVE  /\ IsVector(Append(s, x)) /\ Len(Append(s, x)) = Len(s) + 1
         /\ \A k \in 1 .. Len(s) : Append(s, x)[k] = s[k]
         /\ Append(s, x)[Len(s) + 1] = x
<1> DEFINE S == {s[k] : k \in DOMAIN s} \cup {x}
<1>1. s \in Seq(S)
  <2>1. s = [k \in 1 .. Len(s) |-> s[k]] /\ Len(s) \in Nat /\ DOMAIN s = 1 .. Len(s)
    BY VectorShape
  <2>2. \A k \in 1 .. Len(s) : s[k] \in S
    BY <2>1
  <2> HIDE DEF S
  <2>3. s \in [1 .. Len(s) -> S]
    BY <2>1, <2>2
  <2> QED BY <2>1, <2>3
<1>2. x \in S
  OBVIOUS
<1> HIDE DEF S
<1>3. /\ Append(s, x) \in Seq(S) /\ Len(Append(s, x)) = Len(s) + 1
      /\ \A k \in 1 .. Len(s) : Append(s, x)[k] = s[k]
      /\ Append(s, x)[Len(s) + 1] = x
  BY <1>1, <1>2
<1>4. Append(s, x) = [k \in 1 .. Len(s) + 1 |-> Append(s, x)[k]] /\ Len(s) + 1 \in Nat
  <2> DEFINE t == Append(s, x)
  <2>1. t \in Seq(S) /\ Len(t) = Len(s) + 1
    BY <1>3
  <2> HIDE DEF t
  <2>2. t = [k \in 1 .. Len(t) |-> t[k]] /\ Len(t) \in Nat
    BY <2>1
  <2> QED BY <2>1, <2>2 DEF t
<1> QED BY <1>3, <1>4, Vector

(* Dropping the last element keeps the others. *)
LEMMA VectorPop ==
  ASSUME NEW s, IsVector(s), Len(s) >= 1
  PROVE  LET t == SubSeq(s, 1, Len(s) - 1)
         IN /\ IsVector(t) /\ Len(t) = Len(s) - 1
            /\ \A k \in 1 .. Len(s) - 1 : t[k] = s[k]
<1> DEFINE n == Len(s) - 1
           t == SubSeq(s, 1, n)
           S == {s[k] : k \in DOMAIN s}
<1>1. s \in Seq(S) /\ n \in Nat /\ n <= Len(s)
  BY VectorShape DEF IsVector
<1> HIDE DEF S
<1>2. Len(t) = n /\ \A k \in 1 .. n : t[k] = s[k]
  BY <1>1
<1>3. t = [k \in 1 .. n |-> t[k]]
  BY <1>1
<1>4. IsVector(t)
  BY <1>1, <1>3, Vector
<1> QED BY <1>2, <1>4

(* Replacing one element keeps the length. *)
LEMMA VectorExcept ==
  ASSUME NEW s, IsVector(s), NEW k \in 1 .. Len(s), NEW x
  PROVE  LET t == [s EXCEPT ![k] = x]
         IN IsVector(t) /\ Len(t) = Len(s)
<1> DEFINE t == [s EXCEPT ![k] = x]
<1>1. Len(s) \in Nat /\ DOMAIN s = 1 .. Len(s)
  BY VectorShape
<1>2. t = [j \in 1 .. Len(s) |-> t[j]]
  BY <1>1
<1> QED BY <1>1, <1>2, Vector

(* Putting one vector behind another keeps the elements of both, in order. *)
LEMMA VectorConcat ==
  ASSUME NEW s, NEW t, IsVector(s), IsVector(t)
  PROVE  /\ IsVector(s \o t) /\ Len(s \o t) = Len(s) + Len(t)
         /\ \A k \in 1 .. Len(s) : (s \o t)[k] = s[k]
         /\ \A k \in 1 .. Len(t) : (s \o t)[Len(s) + k] = t[k]
<1> DEFINE S == {s[k] : k \in DOMAIN s} \cup {t[k] : k \in DOMAIN t}
<1>1. s \in Seq(S) /\ t \in Seq(S)
  BY DEF IsVector
<1>2. Len(s) \in Nat /\ Len(t) \in Nat
  BY <1>1
<1> HIDE DEF S
<1>3. /\ s \o t \in Seq(S) /\ Len(s \o t) = Len(s) + Len(t)
      /\ \A k \in 1 .. Len(s) + Len(t) : (s \o t)[k] = IF k <= Len(s) THEN s[k]
                                                       ELSE t[k - Len(s)]
  BY <1>1, ConcatProperties
<1>4. \A k \in 1 .. Len(s) : (s \o t)[k] = s[k]
  BY <1>2, <1>3
<1>5. ASSUME NEW k \in 1 .. Len(t) PROVE (s \o t)[Len(s) + k] = t[k]
  <2>1. Len(s) + k \in 1 .. Len(s) + Len(t) /\ ~ (Len(s) + k <= Len(s)) /\ (Len(s) + k) - Len(s) = k
    BY <1>2
  <2> QED BY <2>1, <1>3
<1>6. IsVector(s \o t)
  <2> DEFINE u == s \o t
  <2>1. u \in Seq(S)
    BY <1>3
  <2> HIDE DEF u
  <2>2. u = [k \in 1 .. Len(u) |-> u[k]] /\ Len(u) \in Nat
    BY <2>1
  <2> QED BY <2>2, Vector DEF u
<1> QED BY <1>3, <1>4, <1>5, <1>6

-----------------------------------------------------------------------------
(* Induction and recursion *)

(* One number is before a larger one. *)
Before == {p \in Nat \X Nat : p[1] < p[2]}

(* Nothing is before itself, by any number of steps. *)
LEMMA BeforeWellFounded == IsWellFoundedOn(Before, Nat)
<1>1. OpToRel(<, Nat) = Before
  BY DEF OpToRel, Before
<1> QED BY <1>1, NatLessThanWellFounded

(* A set with 0 and the successor of each of its numbers has all numbers. *)
LEMMA Induction ==
  ASSUME NEW S, 0 \in S, \A n \in Nat : n \in S => n + 1 \in S
  PROVE  Nat \subseteq S
<1> DEFINE T == Nat \ S
<1>1. SUFFICES ASSUME T # {} PROVE FALSE
  OBVIOUS
<1>2. PICK x \in T : \A y \in T : ~ (<<y, x>> \in Before)
  <2>1. T \subseteq Nat
    OBVIOUS
  <2> HIDE DEF T
  <2> QED BY <1>1, <2>1, BeforeWellFounded, WFMin
<1>3. x # 0 /\ x - 1 \in Nat
  BY <1>2
<1>4. <<x - 1, x>> \in Before
  BY <1>2, <1>3 DEF Before
<1>5. x - 1 \notin T
  BY <1>2, <1>4
<1> QED BY <1>2, <1>3, <1>5

(* The functions on 0 .. n that follow the recursion: the value at i is    *)
(* D[i] of the value at i - 1.                                             *)
Recursive(X, b, D, n) ==
  {g \in [0 .. n -> X] : g[0] = b /\ \A i \in 1 .. n : g[i] = D[i][g[i - 1]]}

(* A function that follows the recursion up to n goes on to n + 1. *)
LEMMA RecursiveExtends ==
  ASSUME NEW X, NEW b \in X, NEW D \in [Nat -> [X -> X]], NEW n \in Nat,
         NEW g \in Recursive(X, b, D, n)
  PROVE  \E h : h \in Recursive(X, b, D, n + 1) /\ \A i \in 0 .. n : h[i] = g[i]
<1> DEFINE e == D[n + 1][g[n]]
           h == [i \in 0 .. n + 1 |-> IF i = n + 1 THEN e ELSE g[i]]
<1>1. g \in [0 .. n -> X] /\ g[0] = b /\ \A i \in 1 .. n : g[i] = D[i][g[i - 1]]
  BY DEF Recursive
<1>2. e \in X
  <2>1. g[n] \in X /\ D[n + 1] \in [X -> X]
    BY <1>1
  <2> QED BY <2>1
<1>3. h \in [0 .. n + 1 -> X] /\ \A i \in 0 .. n : h[i] = g[i]
  <2> HIDE DEF e
  <2> QED BY <1>1, <1>2
<1>4. h[n + 1] = e
  OBVIOUS
<1> HIDE DEF h
<1>5. ASSUME NEW i \in 1 .. n + 1
      PROVE  h[i] = D[i][h[i - 1]]
  <2>1. i - 1 \in 0 .. n /\ h[i - 1] = g[i - 1]
    BY <1>3
  <2>2. CASE i = n + 1
    BY <2>1, <2>2, <1>4
  <2>3. CASE i # n + 1
    BY <2>1, <2>3, <1>1, <1>3
  <2> QED BY <2>2, <2>3
<1> QED BY <1>1, <1>3, <1>5 DEF Recursive

(* There is a function that follows the recursion up to any n. *)
LEMMA RecursiveExists ==
  ASSUME NEW X, NEW b \in X, NEW D \in [Nat -> [X -> X]], NEW n \in Nat
  PROVE  \E g : g \in Recursive(X, b, D, n)
<1> DEFINE S == {k \in Nat : \E g : g \in Recursive(X, b, D, k)}
<1>1. 0 \in S
  <2>1. [i \in 0 .. 0 |-> b] \in Recursive(X, b, D, 0)
    BY DEF Recursive
  <2> QED BY <2>1
<1>2. \A k \in Nat : k \in S => k + 1 \in S
  BY RecursiveExtends
<1>3. Nat \subseteq S
  <2> HIDE DEF S
  <2> QED BY <1>1, <1>2, Induction
<1> QED BY <1>3

(* The same for a recursion that starts at 1. *)
RecursiveFromOne(X, b, D, n) ==
  {g \in [1 .. n -> X] : g[1] = b /\ \A i \in 2 .. n : g[i] = D[i][g[i - 1]]}

(* A recursion from 1 has a function too. *)
LEMMA RecursionFromOne ==
  ASSUME NEW X, NEW b \in X, NEW D \in [Nat -> [X -> X]], NEW m \in Nat \ {0}
  PROVE  \E f : f \in RecursiveFromOne(X, b, D, m)
<1> DEFINE E == [n \in Nat |-> D[n + 1]]
<1>1. E \in [Nat -> [X -> X]] /\ \A n \in Nat : E[n] = D[n + 1]
  OBVIOUS
<1>2. m - 1 \in Nat
  OBVIOUS
<1> HIDE DEF E
<1>3. PICK g : g \in Recursive(X, b, E, m - 1)
  BY <1>1, <1>2, RecursiveExists
<1>6. /\ g \in [0 .. m - 1 -> X] /\ g[0] = b
      /\ \A n \in 1 .. m - 1 : g[n] = E[n][g[n - 1]]
  BY <1>3 DEF Recursive
<1> DEFINE f == [n \in 1 .. m |-> g[n - 1]]
<1>7. f \in [1 .. m -> X]
  BY <1>2, <1>6
<1>8. \A n \in 1 .. m : f[n] = g[n - 1]
  OBVIOUS
<1> HIDE DEF f
<1>4. ASSUME NEW n \in 2 .. m
      PROVE  f[n] = D[n][f[n - 1]]
  <2>1. n - 1 \in 1 .. m - 1 /\ n - 1 \in 1 .. m
    OBVIOUS
  <2>2. g[n - 1] = E[n - 1][g[(n - 1) - 1]] /\ f[n - 1] = g[(n - 1) - 1] /\ f[n] = g[n - 1]
    BY <2>1, <1>6, <1>8
  <2>3. E[n - 1] = D[n]
    BY <1>1
  <2> QED BY <2>2, <2>3
<1>5. f[1] = b
  BY <1>6, <1>8
<1> QED BY <1>7, <1>4, <1>5 DEF RecursiveFromOne

-----------------------------------------------------------------------------
(* Vectors of vectors *)

Nested(ss) == IsVector(ss) /\ \A k \in 1 .. Len(ss) : IsVector(ss[k])

(* Offsets adds up the lengths: the recursion that defines it has a        *)
(* solution.                                                               *)
LEMMA OffsetsShape ==
  ASSUME NEW ss, Nested(ss)
  PROVE  /\ Offsets(ss) \in [0 .. Len(ss) -> Nat]
         /\ Offsets(ss)[0] = 0
         /\ \A k \in 1 .. Len(ss) : Offsets(ss)[k] = Offsets(ss)[k - 1] + Len(ss[k])
<1> DEFINE l(k) == IF k \in 1 .. Len(ss) THEN Len(ss[k]) ELSE 0
           D == [k \in Nat |-> [x \in Nat |-> x + l(k)]]
<1>1. Len(ss) \in Nat /\ \A k \in 1 .. Len(ss) : Len(ss[k]) \in Nat
  BY VectorShape DEF Nested
<1>2. D \in [Nat -> [Nat -> Nat]] /\ \A k \in Nat : \A x \in Nat : D[k][x] = x + l(k)
  <2>1. \A k \in Nat : l(k) \in Nat
    BY <1>1
  <2> HIDE DEF l
  <2> QED BY <2>1
<1> HIDE DEF D
<1>5. PICK f : f \in Recursive(Nat, 0, D, Len(ss))
  BY <1>1, <1>2, RecursiveExists
<1>6. f \in [0 .. Len(ss) -> Nat] /\ f[0] = 0 /\ \A n \in 1 .. Len(ss) : f[n] = D[n][f[n - 1]]
  BY <1>5 DEF Recursive
<1>7. ASSUME NEW n \in 0 .. Len(ss)
      PROVE  f[n] = IF n = 0 THEN 0 ELSE f[n - 1] + Len(ss[n])
  <2>1. CASE n = 0
    BY <2>1, <1>6
  <2>2. CASE n # 0
    <3>1. n \in 1 .. Len(ss) /\ n - 1 \in 0 .. Len(ss) /\ n \in Nat
      BY <2>2, <1>1
    <3>2. f[n - 1] \in Nat /\ f[n] = D[n][f[n - 1]] /\ l(n) = Len(ss[n])
      BY <3>1, <1>6
    <3> HIDE DEF l
    <3>3. D[n][f[n - 1]] = f[n - 1] + l(n)
      BY <3>1, <3>2, <1>2
    <3> QED BY <3>2, <3>3, <2>2
  <2> QED BY <2>1, <2>2
<1>8. f = [n \in 0 .. Len(ss) |-> IF n = 0 THEN 0 ELSE f[n - 1] + Len(ss[n])]
  BY <1>6, <1>7
<1> DEFINE o == Offsets(ss)
<1>9. o = [n \in 0 .. Len(ss) |-> IF n = 0 THEN 0 ELSE o[n - 1] + Len(ss[n])]
  BY <1>8 DEF Offsets
<1> HIDE DEF o
<1> DEFINE S == {n \in Nat : n <= Len(ss) => o[n] \in Nat}
<1>10. 0 \in S
  BY <1>1, <1>9
<1>11. ASSUME NEW n \in Nat, n \in S
      PROVE  n + 1 \in S
  <2> SUFFICES ASSUME n + 1 <= Len(ss)
               PROVE  o[n + 1] \in Nat
    OBVIOUS
  <2>1. o[n + 1] = o[n] + Len(ss[n + 1])
    BY <1>1, <1>9
  <2> QED BY <2>1, <1>1, <1>11
<1>12. Nat \subseteq S
  <2> HIDE DEF S
  <2> QED BY <1>10, <1>11, Induction
<1>13. \A n \in 0 .. Len(ss) : o[n] \in Nat
  BY <1>12, <1>1
<1>14. o \in [0 .. Len(ss) -> Nat]
  BY <1>9, <1>13
<1>3. ASSUME NEW k \in 0 .. Len(ss)
       PROVE  o[k] = IF k = 0 THEN 0 ELSE o[k - 1] + Len(ss[k])
  BY <1>9
<1>4. o[0] = 0 /\ \A k \in 1 .. Len(ss) : o[k] = o[k - 1] + Len(ss[k])
  BY <1>1, <1>3
<1> QED BY <1>14, <1>4 DEF o

(* FlattenSeq appends the elements one after the other. *)
LEMMA FlattenSteps ==
  ASSUME NEW ss, Nested(ss), Len(ss) # 0
  PROVE  \E f : /\ FlattenSeq(ss) = f[Len(ss)]
                /\ f[1] = ss[1]
                /\ \A k \in 2 .. Len(ss) : f[k] = f[k - 1] \o ss[k]
<1> DEFINE n == Len(ss)
           U == UNION {{ss[k][j] : j \in DOMAIN ss[k]} : k \in 1 .. n}
           X == Seq(U)
           D == [k \in Nat |-> [x \in X |-> IF k \in 1 .. n THEN x \o ss[k] ELSE x]]
<1>1. n \in Nat \ {0}
  BY VectorShape DEF Nested
<1>2. \A k \in 1 .. n : ss[k] \in X
  <2> TAKE k \in 1 .. n
  <2>1. ss[k] \in Seq({ss[k][j] : j \in DOMAIN ss[k]})
    BY DEF Nested, IsVector
  <2>2. {ss[k][j] : j \in DOMAIN ss[k]} \subseteq U
    OBVIOUS
  <2> HIDE DEF U
  <2> QED BY <2>1, <2>2
<1> HIDE DEF U
<1>3. D \in [Nat -> [X -> X]]
  BY <1>2
<1>4. \A k \in 1 .. n : \A x \in X : D[k][x] = x \o ss[k]
  BY <1>1
<1> HIDE DEF D, X, n
<1>7. PICK f : f \in RecursiveFromOne(X, ss[1], D, n)
  <2>1. ss[1] \in X
    BY <1>1, <1>2
  <2> QED BY <2>1, <1>1, <1>3, RecursionFromOne
<1>8. f \in [1 .. n -> X] /\ f[1] = ss[1] /\ \A k \in 2 .. n : f[k] = D[k][f[k - 1]]
  BY <1>7 DEF RecursiveFromOne
<1>9. ASSUME NEW k \in 1 .. n
      PROVE  f[k] = IF k = 1 THEN ss[k] ELSE f[k - 1] \o ss[k]
  <2>1. CASE k = 1
    BY <2>1, <1>8
  <2>2. CASE k # 1
    <3>1. k \in 2 .. n /\ k - 1 \in 1 .. n
      BY <2>2, <1>1
    <3>2. f[k - 1] \in X /\ f[k] = D[k][f[k - 1]]
      BY <3>1, <1>8
    <3> QED BY <3>2, <1>4, <2>2
  <2> QED BY <2>1, <2>2
<1>10. f = [k \in 1 .. n |-> IF k = 1 THEN ss[k] ELSE f[k - 1] \o ss[k]]
  BY <1>8, <1>9
<1> DEFINE g == CHOOSE g : g = [k \in 1 .. n |-> IF k = 1 THEN ss[k] ELSE g[k - 1] \o ss[k]]
<1>11. FlattenSeq(ss) = g[n]
  BY <1>1 DEF FlattenSeq, n
<1>12. g = [k \in 1 .. n |-> IF k = 1 THEN ss[k] ELSE g[k - 1] \o ss[k]]
  BY <1>10
<1> HIDE DEF g
<1>5. \A k \in 1 .. n : g[k] = IF k = 1 THEN ss[k] ELSE g[k - 1] \o ss[k]
  BY <1>12
<1>6. g[1] = ss[1] /\ \A k \in 2 .. n : g[k] = g[k - 1] \o ss[k]
  <2>1. 1 \in 1 .. n /\ \A k \in 2 .. n : k \in 1 .. n /\ k # 1
    BY <1>1
  <2> QED BY <2>1, <1>5
<1> QED BY <1>11, <1>6 DEF n

(* Offsets only grow. *)
LEMMA OffsetsGrow ==
  ASSUME NEW ss, Nested(ss), NEW m \in 0 .. Len(ss), NEW k \in 0 .. m
  PROVE  Offsets(ss)[k] <= Offsets(ss)[m]
<1> DEFINE o == Offsets(ss)
           n == Len(ss)
           S == {l \in Nat : k <= l /\ l <= n => o[k] <= o[l]}
<1>1. n \in Nat /\ \A i \in 1 .. n : Len(ss[i]) \in Nat
  BY VectorShape DEF Nested
<1>2. /\ o \in [0 .. n -> Nat]
      /\ \A i \in 1 .. n : o[i] = o[i - 1] + Len(ss[i])
  BY OffsetsShape
<1> HIDE DEF o, n
<1>3. 0 \in S
  BY <1>1, <1>2
<1>4. ASSUME NEW l \in Nat, l \in S
      PROVE  l + 1 \in S
  <2> SUFFICES ASSUME k <= l + 1, l + 1 <= n
               PROVE  o[k] <= o[l + 1]
    OBVIOUS
  <2>1. l \in 0 .. n /\ l + 1 \in 1 .. n /\ k \in 0 .. n
    BY <1>1 DEF n
  <2>2. o[k] \in Nat /\ o[l] \in Nat /\ o[l + 1] = o[l] + Len(ss[l + 1]) /\ Len(ss[l + 1]) \in Nat
    BY <2>1, <1>1, <1>2
  <2>3. CASE k = l + 1
    BY <2>2, <2>3
  <2>4. CASE k # l + 1
    <3>1. o[k] <= o[l]
      BY <1>4, <2>4, <2>1, <1>1
    <3> QED BY <3>1, <2>2
  <2> QED BY <2>3, <2>4
<1>5. m \in S
  <2> HIDE DEF S
  <2> QED BY <1>3, <1>4, Induction, <1>1 DEF n
<1> QED BY <1>5, <1>1 DEF o, n

(* Offsets depend on the lengths only. *)
LEMMA OffsetsSame ==
  ASSUME NEW ss, NEW tt, Nested(ss), Nested(tt), Len(ss) = Len(tt),
         \A k \in 1 .. Len(ss) : Len(ss[k]) = Len(tt[k])
  PROVE  Offsets(ss) = Offsets(tt)
<1> DEFINE o == Offsets(ss)
           q == Offsets(tt)
           n == Len(ss)
           S == {l \in Nat : l <= n => o[l] = q[l]}
<1>1. n \in Nat
  BY VectorShape DEF Nested
<1>2. /\ o \in [0 .. n -> Nat] /\ o[0] = 0
      /\ \A k \in 1 .. n : o[k] = o[k - 1] + Len(ss[k])
  BY OffsetsShape
<1>3. /\ q \in [0 .. n -> Nat] /\ q[0] = 0
      /\ \A k \in 1 .. n : q[k] = q[k - 1] + Len(ss[k])
  BY OffsetsShape
<1> HIDE DEF o, q, n
<1>4. 0 \in S
  BY <1>2, <1>3
<1>5. ASSUME NEW l \in Nat, l \in S
      PROVE  l + 1 \in S
  <2> SUFFICES ASSUME l + 1 <= n
               PROVE  o[l + 1] = q[l + 1]
    OBVIOUS
  <2>1. l + 1 \in 1 .. n /\ (l + 1) - 1 = l /\ l <= n
    BY <1>1
  <2> QED BY <2>1, <1>2, <1>3, <1>5
<1>6. Nat \subseteq S
  <2> HIDE DEF S
  <2> QED BY <1>4, <1>5, Induction
<1>7. \A l \in 0 .. n : o[l] = q[l]
  BY <1>1, <1>6
<1>8. o = q
  <2>1. o = [l \in 0 .. n |-> o[l]] /\ q = [l \in 0 .. n |-> q[l]]
    BY <1>2, <1>3
  <2> QED BY <2>1, <1>7
<1> QED BY <1>8 DEF o, q

(* Element k of ss begins behind Offsets(ss)[k - 1] in FlattenSeq(ss). *)
LEMMA FlattenPlaces ==
  ASSUME NEW ss, Nested(ss)
  PROVE  /\ IsVector(FlattenSeq(ss)) /\ Len(FlattenSeq(ss)) = Offsets(ss)[Len(ss)]
         /\ \A k \in 1 .. Len(ss) : \A j \in 1 .. Len(ss[k]) :
              FlattenSeq(ss)[Offsets(ss)[k - 1] + j] = ss[k][j]
<1> DEFINE o == Offsets(ss)
           n == Len(ss)
<1>1. n \in Nat /\ \A k \in 1 .. n : IsVector(ss[k]) /\ Len(ss[k]) \in Nat
  BY VectorShape DEF Nested
<1>2. /\ o \in [0 .. n -> Nat] /\ o[0] = 0
      /\ \A k \in 1 .. n : o[k] = o[k - 1] + Len(ss[k])
  BY OffsetsShape
<1>3. CASE n = 0
  <2>1. FlattenSeq(ss) = ss
    BY <1>3 DEF FlattenSeq
  <2>2. Len(ss) = 0 /\ IsVector(ss)
    BY <1>3 DEF Nested
  <2> QED BY <2>1, <2>2, <1>2, <1>3
<1>4. CASE n # 0
  <2>1. PICK f : /\ FlattenSeq(ss) = f[n] /\ f[1] = ss[1]
                 /\ \A k \in 2 .. n : f[k] = f[k - 1] \o ss[k]
    BY <1>4, FlattenSteps
  <2> HIDE DEF o, n
  <2> DEFINE P(m) == /\ IsVector(f[m]) /\ Len(f[m]) = o[m]
                     /\ \A k \in 1 .. m : \A j \in 1 .. Len(ss[k]) :
                          f[m][o[k - 1] + j] = ss[k][j]
             S == {m \in Nat : m \in 1 .. n => P(m)}
  <2>2. 0 \in S
    OBVIOUS
  <2>3. ASSUME NEW m \in Nat, m \in S
        PROVE  m + 1 \in S
    <3> SUFFICES ASSUME m + 1 \in 1 .. n
                 PROVE  P(m + 1)
      OBVIOUS
    <3>1. CASE m = 0
      <4>1. f[m + 1] = ss[1] /\ o[m] = 0 /\ o[m + 1] = o[m] + Len(ss[1]) /\ IsVector(ss[1])
            /\ Len(ss[1]) \in Nat
        BY <3>1, <2>1, <1>1, <1>2
      <4>2. ASSUME NEW k \in 1 .. m + 1, NEW j \in 1 .. Len(ss[k])
            PROVE  f[m + 1][o[k - 1] + j] = ss[k][j]
        <5>1. k = 1 /\ k - 1 = 0
          BY <3>1
        <5> QED BY <5>1, <4>1, <1>2
      <4> QED BY <4>1, <4>2
    <3>2. CASE m # 0
      <4>1. m \in 1 .. n /\ m + 1 \in 2 .. n /\ (m + 1) - 1 = m
        BY <3>2, <1>1
      <4>2. P(m)
        BY <2>3, <4>1
      <4>3. f[m + 1] = f[m] \o ss[m + 1] /\ o[m + 1] = o[m] + Len(ss[m + 1])
        BY <4>1, <2>1, <1>2
      <4>4. /\ IsVector(f[m + 1]) /\ Len(f[m + 1]) = o[m + 1]
            /\ \A k \in 1 .. o[m] : f[m + 1][k] = f[m][k]
            /\ \A k \in 1 .. Len(ss[m + 1]) : f[m + 1][o[m] + k] = ss[m + 1][k]
        <5>1. IsVector(f[m]) /\ IsVector(ss[m + 1]) /\ Len(f[m]) = o[m]
          BY <4>2, <1>1
        <5> DEFINE u == f[m]
                   v == ss[m + 1]
        <5>2. /\ IsVector(u \o v) /\ Len(u \o v) = Len(u) + Len(v)
              /\ \A k \in 1 .. Len(u) : (u \o v)[k] = u[k]
              /\ \A k \in 1 .. Len(v) : (u \o v)[Len(u) + k] = v[k]
          <6> HIDE DEF u, v
          <6>1. IsVector(u) /\ IsVector(v)
            BY <5>1 DEF u, v
          <6> QED BY <6>1, VectorConcat
        <5> QED BY <5>1, <5>2, <4>3
      <4>5. ASSUME NEW k \in 1 .. m + 1, NEW j \in 1 .. Len(ss[k])
            PROVE  f[m + 1][o[k - 1] + j] = ss[k][j]
        <5>1. CASE k = m + 1
          BY <5>1, <4>4, <4>1
        <5>2. CASE k \in 1 .. m
          <6>1. f[m][o[k - 1] + j] = ss[k][j]
            BY <5>2, <4>2
          <6>2. o[k - 1] + j \in 1 .. o[k]
            BY <5>2, <4>1, <1>1, <1>2
          <6>3. o[k] <= o[m]
            BY <5>2, <4>1, <1>1, OffsetsGrow DEF o, n
          <6>4. o[k - 1] + j \in 1 .. o[m]
            <7>1. k \in 0 .. n /\ k - 1 \in 0 .. n /\ m \in 0 .. n
              BY <5>2, <4>1, <1>1
            <7>2. o[k] \in Nat /\ o[k - 1] \in Nat /\ o[m] \in Nat
              BY <7>1, <1>2
            <7> QED BY <7>2, <6>2, <6>3
          <6> QED BY <6>1, <6>4, <4>4
        <5> QED BY <5>1, <5>2
      <4> QED BY <4>4, <4>5
    <3> QED BY <3>1, <3>2
  <2>4. n \in S
    <3> HIDE DEF S
    <3> QED BY <2>2, <2>3, Induction, <1>1
  <2>5. P(n)
    BY <2>4, <1>1, <1>4
  <2> QED BY <2>1, <2>5 DEF o, n
<1> QED BY <1>3, <1>4

(* Every position of FlattenSeq(ss) lies in one element of ss. *)
LEMMA PlaceExists ==
  ASSUME NEW ss, Nested(ss), NEW i \in 1 .. Offsets(ss)[Len(ss)]
  PROVE  \E k \in 1 .. Len(ss) : \E j \in 1 .. Len(ss[k]) : i = Offsets(ss)[k - 1] + j
<1> DEFINE o == Offsets(ss)
           n == Len(ss)
           S == {l \in Nat : l <= n /\ i <= o[l]
                               => \E k \in 1 .. n : \E j \in 1 .. Len(ss[k]) : i = o[k - 1] + j}
<1>1. n \in Nat /\ \A k \in 1 .. n : Len(ss[k]) \in Nat
  BY VectorShape DEF Nested
<1>2. /\ o \in [0 .. n -> Nat] /\ o[0] = 0
      /\ \A k \in 1 .. n : o[k] = o[k - 1] + Len(ss[k])
  BY OffsetsShape
<1>3. i \in 1 .. o[n]
  OBVIOUS
<1> HIDE DEF o, n
<1>4. 0 \in S
  BY <1>1, <1>2, <1>3
<1>5. ASSUME NEW l \in Nat, l \in S
      PROVE  l + 1 \in S
  <2> SUFFICES ASSUME l + 1 <= n, i <= o[l + 1]
               PROVE  \E k \in 1 .. n : \E j \in 1 .. Len(ss[k]) : i = o[k - 1] + j
    OBVIOUS
  <2>1. l + 1 \in 1 .. n /\ l \in 0 .. n /\ (l + 1) - 1 = l /\ o[l] \in Nat
    BY <1>1, <1>2
  <2>2. CASE i <= o[l]
    BY <2>2, <1>5, <2>1
  <2>3. CASE ~ (i <= o[l])
    <3>1. i - o[l] \in 1 .. Len(ss[l + 1]) /\ i = o[l] + (i - o[l])
      BY <2>1, <2>3, <1>1, <1>2, <1>3
    <3> QED BY <3>1, <2>1
  <2> QED BY <2>2, <2>3
<1>6. n \in S
  <2> HIDE DEF S
  <2> QED BY <1>4, <1>5, Induction, <1>1
<1> QED BY <1>6, <1>1, <1>2, <1>3 DEF o, n

(* What FlattenSeq(ss) has at a position comes from one element of ss. *)
LEMMA FlattenFrom ==
  ASSUME NEW ss, Nested(ss), NEW i \in 1 .. Len(FlattenSeq(ss))
  PROVE  \E k \in 1 .. Len(ss) : \E j \in 1 .. Len(ss[k]) :
           i = Offsets(ss)[k - 1] + j /\ FlattenSeq(ss)[i] = ss[k][j]
<1>1. i \in 1 .. Offsets(ss)[Len(ss)]
  BY FlattenPlaces
<1>2. PICK k \in 1 .. Len(ss) : \E j \in 1 .. Len(ss[k]) : i = Offsets(ss)[k - 1] + j
  BY <1>1, PlaceExists
<1>3. PICK j \in 1 .. Len(ss[k]) : i = Offsets(ss)[k - 1] + j
  BY <1>2
<1>4. FlattenSeq(ss)[Offsets(ss)[k - 1] + j] = ss[k][j]
  BY FlattenPlaces
<1> QED BY <1>3, <1>4
=============================================================================
