--------------------------- MODULE ScheduleProofs ---------------------------
(***************************************************************************)
(* Proofs about Schedule: what a tick computes by recursion over the       *)
(* minutes and by lists of jobs, the types, and that over stops, crashes   *)
(* and changes each due minute is scheduled once.                          *)
(***************************************************************************)
EXTENDS Schedule, SequenceTheorems, FiniteSetTheorems, WellFoundedInduction, TLAPS

-----------------------------------------------------------------------------
(* Induction and recursion over the natural numbers. *)

LEMMA LessThan == \A a, b \in Nat : a < b => <<a, b>> \in OpToRel(<, Nat)
BY Zenon DEF OpToRel

(* Induction over a set of numbers. *)
LEMMA Inductive ==
  ASSUME NEW T, 0 \in T, \A n \in Nat : n \in T => n + 1 \in T
  PROVE  Nat \subseteq T
<1> DEFINE U == Nat \ T
<1>1. SUFFICES ASSUME U # {} PROVE FALSE
  OBVIOUS
<1>2. U \subseteq Nat
  OBVIOUS
<1>3. \E n \in U : \A m \in U : ~(<<m, n>> \in OpToRel(<, Nat))
  BY <1>1, <1>2, NatLessThanWellFounded, WFMin
<1>4. PICK n \in U : \A m \in U : ~(<<m, n>> \in OpToRel(<, Nat))
  BY <1>3
<1>5. \A m \in U : ~(m < n)
  BY <1>2, <1>4, LessThan, Zenon
<1>6. n \in Nat /\ n # 0 /\ n \notin T
  OBVIOUS
<1>7. n - 1 \in Nat /\ n - 1 < n /\ n = (n - 1) + 1
  BY <1>6
<1>8. n - 1 \in T
  BY <1>5, <1>7
<1> QED
  BY <1>6, <1>7, <1>8

(* A function defined by recursion over the numbers exists. *)
Continued(f, step, n) == \A m \in 0..(n - 1) : f[m + 1] = step[<<m, f[m]>>]

LEMMA RecursionTo ==
  ASSUME NEW T, NEW b \in T, NEW step \in [Nat \X T -> T]
  PROVE  \A n \in Nat : \E f \in [Nat -> T] : f[0] = b /\ Continued(f, step, n)
<1> DEFINE Good == {n \in Nat : \E f \in [Nat -> T] : f[0] = b /\ Continued(f, step, n)}
<1>1. 0 \in Good
  <2>1. [n \in Nat |-> b] \in [Nat -> T]
    OBVIOUS
  <2>2. Continued([n \in Nat |-> b], step, 0)
    BY DEF Continued
  <2> QED
    BY <2>1, <2>2
<1>2. ASSUME NEW n \in Nat, n \in Good
      PROVE  n + 1 \in Good
  <2>1. PICK f \in [Nat -> T] : f[0] = b /\ Continued(f, step, n)
    BY <1>2
  <2>2. PICK g \in [Nat -> T] : \A m \in Nat : g[m] = IF m = n + 1 THEN step[<<n, f[n]>>] ELSE f[m]
    <3>1. step[<<n, f[n]>>] \in T
      OBVIOUS
    <3>2. [m \in Nat |-> IF m = n + 1 THEN step[<<n, f[n]>>] ELSE f[m]] \in [Nat -> T]
      BY <3>1
    <3> QED
      BY <3>2
  <2>3. Continued(g, step, n + 1)
    <3>1. SUFFICES ASSUME NEW m \in 0..n PROVE g[m + 1] = step[<<m, g[m]>>]
      BY DEF Continued
    <3>2. g[m] = f[m]
      BY <2>2
    <3>3. CASE m = n
      BY <2>2, <3>2, <3>3
    <3>4. CASE m # n
      BY <2>1, <2>2, <3>2, <3>4 DEF Continued
    <3> QED
      BY <3>3, <3>4
  <2>4. g[0] = b
    BY <2>1, <2>2
  <2> QED
    BY <2>3, <2>4
<1> HIDE DEF Good
<1>3. Nat \subseteq Good
  BY <1>1, <1>2, Inductive
<1> QED
  BY <1>3 DEF Good

LEMMA RecursionUnique ==
  ASSUME NEW T, NEW step, NEW n \in Nat
  PROVE  \A f, g \in [Nat -> T] :
           f[0] = g[0] /\ Continued(f, step, n) /\ Continued(g, step, n)
             => \A m \in 0..n : f[m] = g[m]
<1> SUFFICES ASSUME NEW f \in [Nat -> T], NEW g \in [Nat -> T], f[0] = g[0],
                    Continued(f, step, n), Continued(g, step, n)
             PROVE  \A m \in 0..n : f[m] = g[m]
  OBVIOUS
<1> DEFINE Same == {m \in Nat : m <= n => f[m] = g[m]}
<1>1. 0 \in Same
  OBVIOUS
<1>2. ASSUME NEW m \in Nat, m \in Same
      PROVE  m + 1 \in Same
  <2>1. SUFFICES ASSUME m + 1 <= n PROVE f[m + 1] = g[m + 1]
    OBVIOUS
  <2>2. m \in 0..(n - 1) /\ f[m] = g[m]
    BY <1>2, <2>1
  <2>3. f[m + 1] = step[<<m, f[m]>>] /\ g[m + 1] = step[<<m, g[m]>>]
    BY <2>2 DEF Continued
  <2> QED
    BY <2>2, <2>3
<1> HIDE DEF Same
<1>3. Nat \subseteq Same
  BY <1>1, <1>2, Inductive
<1> QED
  BY <1>3 DEF Same

Follows(f, b, step) == f[0] = b /\ \A m \in Nat : f[m + 1] = step[<<m, f[m]>>]
LEMMA RecursionExists ==
  ASSUME NEW T
  PROVE  \A b \in T, step \in [Nat \X T -> T] :
           \E f \in [Nat -> T] : Follows(f, b, step)
<1> SUFFICES ASSUME NEW b \in T, NEW step \in [Nat \X T -> T]
             PROVE  \E f \in [Nat -> T] : Follows(f, b, step)
  OBVIOUS
<1> DEFINE Up(n) == CHOOSE f \in [Nat -> T] : f[0] = b /\ Continued(f, step, n)
           f == [n \in Nat |-> Up(n)[n]]
<1>1. \A n \in Nat : Up(n) \in [Nat -> T] /\ Up(n)[0] = b /\ Continued(Up(n), step, n)
  BY RecursionTo, Zenon
<1> HIDE DEF Up
<1>2. f \in [Nat -> T] /\ f[0] = b
  BY <1>1
<1>3. ASSUME NEW m \in Nat
      PROVE  f[m + 1] = step[<<m, f[m]>>]
  <2>1. Continued(Up(m + 1), step, m)
    BY <1>1 DEF Continued
  <2>2. Up(m + 1)[m] = Up(m)[m]
    <3> DEFINE p == Up(m + 1)
               q == Up(m)
    <3>0. /\ p \in [Nat -> T] /\ p[0] = b /\ Continued(p, step, m)
          /\ q \in [Nat -> T] /\ q[0] = b /\ Continued(q, step, m)
      BY <1>1, <2>1
    <3> HIDE DEF p, q
    <3>1. \A k \in 0..m : p[k] = q[k]
      <4>1. p[0] = q[0]
        BY <3>0
      <4>2. step \in [Nat \X T -> T] /\ m \in Nat
        BY <1>3
      <4> QED
        BY <3>0, <4>1, <4>2, RecursionUnique
    <3> QED
      BY <3>1 DEF p, q
  <2>3. Up(m + 1)[m + 1] = step[<<m, Up(m + 1)[m]>>]
    BY <1>1 DEF Continued
  <2> QED
    BY <2>2, <2>3
<1> QED
  BY <1>2, <1>3 DEF Follows

(* A function that is constant up to c and goes on from each value to the next. *)
GoesOn(f, b, c, step) == \A m \in Nat : f[m] = IF m <= c THEN b ELSE step[<<m, f[m - 1]>>]
LEMMA RecursionFrom ==
  ASSUME NEW T
  PROVE  \A b \in T, c \in Nat, step \in [Nat \X T -> T] :
           \E f \in [Nat -> T] : GoesOn(f, b, c, step)
<1> SUFFICES ASSUME NEW b \in T, NEW c \in Nat, NEW step \in [Nat \X T -> T]
             PROVE  \E f \in [Nat -> T] : GoesOn(f, b, c, step)
  OBVIOUS
<1>1. PICK next \in [Nat \X T -> T] :
         \A n \in Nat, x \in T : next[<<n, x>>] = IF n + 1 <= c THEN b ELSE step[<<n + 1, x>>]
  <2> DEFINE next == [p \in Nat \X T |-> IF p[1] + 1 <= c THEN b ELSE step[<<p[1] + 1, p[2]>>]]
  <2>1. next \in [Nat \X T -> T]
    OBVIOUS
  <2> QED
    BY <2>1
<1>2. PICK f \in [Nat -> T] : Follows(f, b, next)
  BY RecursionExists
<1>3. ASSUME NEW m \in Nat
      PROVE  f[m] = IF m <= c THEN b ELSE step[<<m, f[m - 1]>>]
  <2>1. CASE m = 0
    BY <1>2, <2>1 DEF Follows
  <2>2. CASE m # 0
    <3>1. m - 1 \in Nat /\ (m - 1) + 1 = m /\ f[m - 1] \in T
      BY <2>2
    <3>2. f[m] = next[<<m - 1, f[m - 1]>>]
      BY <1>2, <3>1 DEF Follows
    <3> QED
      BY <1>1, <3>1, <3>2
  <2> QED
    BY <2>1, <2>2
<1> QED
  BY <1>3 DEF GoesOn

-----------------------------------------------------------------------------
(* Arithmetic. *)

LEMMA Division ==
  ASSUME NEW d \in Nat, NEW n \in Nat \ {0}
  PROVE  d = n * (d \div n) + (d % n) /\ d \div n \in Nat /\ d % n \in 0..(n - 1)
OBVIOUS

LEMMA Remainder ==
  ASSUME NEW d \in Nat, NEW n \in Nat \ {0}, NEW q \in Nat, NEW r \in Nat, r < n, d = n * q + r
  PROVE  d % n = r
OBVIOUS

LEMMA ModNext ==
  ASSUME NEW d \in Nat, NEW n \in Nat \ {0}
  PROVE  (d + 1) % n = IF d % n = n - 1 THEN 0 ELSE (d % n) + 1
<1> DEFINE q == d \div n
           r == d % n
<1>1. d = n * q + r /\ q \in Nat /\ r \in 0..(n - 1)
  BY Division
<1> HIDE DEF q, r
<1>2. CASE r = n - 1
  <2>1. d + 1 = n * (q + 1) + 0
    BY <1>1, <1>2
  <2>2. (d + 1) % n = 0
    BY <1>1, <2>1, Remainder
  <2> QED
    BY <1>2, <2>2 DEF r
<1>3. CASE r # n - 1
  <2>1. d + 1 = n * q + (r + 1) /\ r + 1 < n /\ r + 1 \in Nat
    BY <1>1, <1>3
  <2>2. (d + 1) % n = r + 1
    BY <1>1, <2>1, Remainder
  <2> QED
    BY <1>3, <2>2 DEF r
<1> QED
  BY <1>2, <1>3
-----------------------------------------------------------------------------
(* Lists. *)

(* A list of lists, one after the other. *)
LEMMA FlattenDefined ==
  ASSUME NEW S, NEW ss \in Seq(Seq(S)), Len(ss) # 0
  PROVE  \E f : /\ FlattenSeq(ss) = f[Len(ss)]
                /\ \A i \in 1..Len(ss) : f[i] = IF i = 1 THEN ss[i] ELSE f[i - 1] \o ss[i]
<1> DEFINE n == Len(ss)
           body(f) == [i \in 1..n |-> IF i = 1 THEN ss[i] ELSE f[i - 1] \o ss[i]]
           flatten == CHOOSE f : f = body(f)
<1>1. n \in Nat /\ n # 0 /\ ss \in [1..n -> Seq(S)]
  OBVIOUS
<1> HIDE DEF n, body, flatten
<1>2. \E step \in [Nat \X Seq(S) -> Seq(S)] :
        \A i \in 1..n : \A x \in Seq(S) : step[<<i, x>>] = x \o ss[i]
  <2> DEFINE step == [p \in Nat \X Seq(S) |-> IF p[1] \in 1..n THEN p[2] \o ss[p[1]] ELSE p[2]]
  <2>1. \A x, y \in Seq(S) : x \o y \in Seq(S)
    OBVIOUS
  <2>2. step \in [Nat \X Seq(S) -> Seq(S)]
    BY <1>1, <2>1
  <2>3. ASSUME NEW i \in 1..n, NEW x \in Seq(S)
        PROVE  step[<<i, x>>] = x \o ss[i]
    <3>1. <<i, x>> \in Nat \X Seq(S)
      BY <1>1
    <3> QED
      BY <3>1
  <2> QED
    BY <2>2, <2>3
<1>3. PICK step \in [Nat \X Seq(S) -> Seq(S)] :
        \A i \in 1..n : \A x \in Seq(S) : step[<<i, x>>] = x \o ss[i]
  BY <1>2
<1>4. PICK first \in Seq(S) : first = ss[1]
  BY <1>1
<1>5. PICK g \in [Nat -> Seq(S)] : GoesOn(g, first, 1, step)
  BY RecursionFrom
<1>6. ASSUME NEW i \in 1..n
      PROVE  g[i] = IF i = 1 THEN ss[i] ELSE g[i - 1] \o ss[i]
  <2>1. i \in Nat /\ g[i] = IF i <= 1 THEN first ELSE step[<<i, g[i - 1]>>]
    <3>1. i \in Nat
      BY <1>1, <1>6
    <3> QED
      BY <1>5, <3>1 DEF GoesOn
  <2>2. CASE i = 1
    BY <1>4, <2>1, <2>2
  <2>3. CASE i # 1
    <3>1. i - 1 \in Nat /\ ~(i <= 1)
      BY <1>1, <1>6, <2>3
    <3>2. g[i - 1] \in Seq(S)
      BY <3>1
    <3> QED
      BY <1>3, <2>1, <2>3, <3>1, <3>2
  <2> QED
    BY <2>2, <2>3
<1>7. PICK f : f = [i \in 1..n |-> g[i]]
  OBVIOUS
<1>8. f = body(f)
  <2>1. \A i \in 1..n : i # 1 => i - 1 \in 1..n
    BY <1>1
  <2>2. \A i \in 1..n : f[i] = IF i = 1 THEN ss[i] ELSE f[i - 1] \o ss[i]
    BY <1>6, <1>7, <2>1
  <2> QED
    BY <1>7, <2>2 DEF body
<1>9. FlattenSeq(ss) = flatten[n]
  BY <1>1, Zenon DEF FlattenSeq, n, body, flatten
<1>10. flatten = body(flatten)
  BY <1>8, Zenon DEF flatten
<1>11. \A i \in 1..n : flatten[i] = IF i = 1 THEN ss[i] ELSE flatten[i - 1] \o ss[i]
  <2>1. PICK h : h = flatten
    OBVIOUS
  <2>2. h = body(h)
    BY <1>10, <2>1
  <2>3. \A i \in 1..n : h[i] = IF i = 1 THEN ss[i] ELSE h[i - 1] \o ss[i]
    BY <2>2 DEF body
  <2> QED
    BY <2>1, <2>3
<1> QED
  BY <1>9, <1>11 DEF n

LEMMA RangeConcat ==
  ASSUME NEW S, NEW s \in Seq(S), NEW t \in Seq(S)
  PROVE  Range(s \o t) = Range(s) \cup Range(t)
<1>1. DOMAIN (s \o t) = 1..(Len(s) + Len(t)) /\ DOMAIN s = 1..Len(s) /\ DOMAIN t = 1..Len(t)
  OBVIOUS
<1>2. \A i \in 1..Len(s) : (s \o t)[i] = s[i]
  OBVIOUS
<1>3. \A i \in 1..Len(t) : (s \o t)[Len(s) + i] = t[i]
  OBVIOUS
<1>4. \A i \in 1..(Len(s) + Len(t)) : i \in 1..Len(s) \/ (i - Len(s) \in 1..Len(t) /\ i = Len(s) + (i - Len(s)))
  OBVIOUS
<1>5. Len(s) \in Nat /\ Len(t) \in Nat
  OBVIOUS
<1>6. ASSUME NEW x \in Range(s \o t)
      PROVE  x \in Range(s) \cup Range(t)
  <2>1. PICK i \in 1..(Len(s) + Len(t)) : x = (s \o t)[i]
    BY <1>1, <1>6 DEF Range
  <2>2. CASE i \in 1..Len(s)
    BY <1>1, <1>2, <2>1, <2>2 DEF Range
  <2>3. CASE i - Len(s) \in 1..Len(t) /\ i = Len(s) + (i - Len(s))
    BY <1>1, <1>3, <2>1, <2>3 DEF Range
  <2> QED
    BY <1>4, <2>2, <2>3
<1>7. ASSUME NEW x \in Range(s)
      PROVE  x \in Range(s \o t)
  <2>1. PICK i \in 1..Len(s) : x = s[i]
    BY <1>1, <1>7 DEF Range
  <2>2. i \in 1..(Len(s) + Len(t))
    BY <1>5
  <2> QED
    BY <1>1, <1>2, <2>1, <2>2 DEF Range
<1>8. ASSUME NEW x \in Range(t)
      PROVE  x \in Range(s \o t)
  <2>1. PICK i \in 1..Len(t) : x = t[i]
    BY <1>1, <1>8 DEF Range
  <2>2. Len(s) + i \in 1..(Len(s) + Len(t))
    BY <1>5
  <2> QED
    BY <1>1, <1>3, <2>1, <2>2 DEF Range
<1> QED
  BY <1>6, <1>7, <1>8

LEMMA FlattenType ==
  ASSUME NEW S, NEW ss \in Seq(Seq(S))
  PROVE  /\ FlattenSeq(ss) \in Seq(S)
         /\ \A x : x \in Range(FlattenSeq(ss)) <=> \E i \in DOMAIN ss : x \in Range(ss[i])
<1>1. CASE Len(ss) = 0
  <2>1. FlattenSeq(ss) = ss /\ DOMAIN ss = {}
    BY <1>1 DEF FlattenSeq
  <2>2. ss = <<>>
    BY <1>1
  <2>3. ss \in Seq(S) /\ Range(ss) = {}
    BY <2>1, <2>2 DEF Range
  <2> QED
    BY <2>1, <2>3
<1>2. CASE Len(ss) # 0
  <2> DEFINE n == Len(ss)
  <2>1. n \in Nat /\ n # 0 /\ DOMAIN ss = 1..n /\ \A i \in 1..n : ss[i] \in Seq(S)
    BY <1>2
  <2>2. PICK f : /\ FlattenSeq(ss) = f[n]
                 /\ \A i \in 1..n : f[i] = IF i = 1 THEN ss[i] ELSE f[i - 1] \o ss[i]
    BY <1>2, FlattenDefined
  <2> DEFINE Good(i) == f[i] \in Seq(S) /\ \A x : x \in Range(f[i]) <=> \E k \in 1..i : x \in Range(ss[k])
             T == {i \in Nat : i \in 1..n => Good(i)}
  <2> HIDE DEF n, Good
  <2>3. 0 \in T
    OBVIOUS
  <2>4. ASSUME NEW i \in Nat, i \in T
        PROVE  i + 1 \in T
    <3>1. SUFFICES ASSUME i + 1 \in 1..n
                   PROVE  Good(i + 1)
      OBVIOUS
    <3>2. CASE i = 0
      <4>1. f[1] = ss[1] /\ ss[1] \in Seq(S) /\ 1..1 = {1}
        BY <2>1, <2>2
      <4> QED
        BY <3>2, <4>1 DEF Good
    <3>3. CASE i # 0
      <4>1. i \in 1..n /\ Good(i)
        BY <2>1, <2>4, <3>1, <3>3
      <4>2. f[i + 1] = f[i] \o ss[i + 1] /\ ss[i + 1] \in Seq(S)
        <5>1. (i + 1) - 1 = i /\ i + 1 # 1
          BY <2>4, <3>3
        <5> QED
          BY <2>1, <2>2, <3>1, <5>1
      <4>3. Range(f[i + 1]) = Range(f[i]) \cup Range(ss[i + 1])
        BY <4>1, <4>2, RangeConcat DEF Good
      <4>4. 1..(i + 1) = (1..i) \cup {i + 1}
        OBVIOUS
      <4>5. f[i + 1] \in Seq(S)
        BY <4>1, <4>2 DEF Good
      <4> HIDE DEF T
      <4> QED
        BY <4>1, <4>3, <4>4, <4>5 DEF Good
    <3> QED
      BY <3>2, <3>3
  <2>5. n \in T
    <3> HIDE DEF T
    <3>1. Nat \subseteq T
      BY <2>3, <2>4, Inductive
    <3> QED
      BY <2>1, <3>1
  <2>6. Good(n)
    BY <2>1, <2>5
  <2> HIDE DEF T
  <2> QED
    BY <2>1, <2>2, <2>6 DEF Good
<1> QED
  BY <1>1, <1>2

(* A finite set as a list. *)
LEMMA SetToSeqType ==
  ASSUME NEW S, IsFiniteSet(S)
  PROVE  SetToSeq(S) \in Seq(S) /\ \A x : x \in S <=> \E i \in DOMAIN SetToSeq(S) : SetToSeq(S)[i] = x
<1> DEFINE n == Cardinality(S)
           s == SetToSeq(S)
<1>1. n \in Nat /\ \E f \in [1..n -> S] : IsInjective(f) /\ \A x \in S : \E i \in 1..n : f[i] = x
  BY FS_CardinalityType DEF ExistsBijection, Bijection, Injection, Surjection
<1>2. s \in [1..n -> S] /\ IsInjective(s)
  BY <1>1, Zenon DEF SetToSeq
<1>3. IsFiniteSet(1..n) /\ Cardinality(1..n) = n
  BY <1>1, FS_Interval
<1>4. s \in Surjection(1..n, S)
  <2>1. s \in Injection(1..n, S)
    BY <1>2 DEF Injection
  <2> HIDE DEF s, n
  <2> QED
    BY <1>3, <2>1, FS_Injection DEF n
<1> HIDE DEF s, n
<1>5. \A x \in S : \E i \in 1..n : s[i] = x
  BY <1>4 DEF Surjection
<1>6. s \in Seq(S) /\ DOMAIN s = 1..n
  BY <1>1, <1>2
<1>7. \A x : x \in S <=> \E i \in DOMAIN s : s[i] = x
  BY <1>2, <1>5, <1>6
<1> QED
  BY <1>6, <1>7 DEF s
-----------------------------------------------------------------------------
(* What a tick computes as the cursor passes the minutes. *)

(* The Nth counter. *)
CountDown(e, m, c) == IF ~Due(e, m) THEN c ELSE IF c <= 1 THEN Setup[e].every ELSE c - 1

LEMMA CountDownType ==
  ASSUME NEW e \in Events, NEW m, NEW c \in Nat
  PROVE  CountDown(e, m, c) \in Nat
BY ScheduleAssumption DEF CountDown

LEMMA CounterDefined ==
  ASSUME NEW e \in Events, Cursor(e) \in Nat, state.nth[e] \in Nat
  PROVE  /\ \A m \in Nat : Counter(e)[m] \in Nat
         /\ \A m \in Nat : Counter(e)[m] = IF m <= Cursor(e) THEN state.nth[e]
                                           ELSE CountDown(e, m, Counter(e)[m - 1])
<1> DEFINE body(f) == [m \in Nat |-> IF m <= Cursor(e) THEN state.nth[e]
                                     ELSE IF ~Due(e, m) THEN f[m - 1]
                                     ELSE IF f[m - 1] <= 1 THEN Setup[e].every ELSE f[m - 1] - 1]
<1>1. PICK step \in [Nat \X Nat -> Nat] : \A m, c \in Nat : step[<<m, c>>] = CountDown(e, m, c)
  <2> DEFINE step == [p \in Nat \X Nat |-> CountDown(e, p[1], p[2])]
  <2>1. step \in [Nat \X Nat -> Nat]
    BY CountDownType
  <2>2. \A m, c \in Nat : step[<<m, c>>] = CountDown(e, m, c)
    OBVIOUS
  <2> QED
    BY <2>1, <2>2
<1>2. PICK f \in [Nat -> Nat] : GoesOn(f, state.nth[e], Cursor(e), step)
  BY RecursionFrom
<1>3. ASSUME NEW m \in Nat
      PROVE  f[m] = IF m <= Cursor(e) THEN state.nth[e] ELSE CountDown(e, m, f[m - 1])
  <2>1. CASE m <= Cursor(e)
    BY <1>2, <2>1 DEF GoesOn
  <2>2. CASE ~(m <= Cursor(e))
    <3>1. m - 1 \in Nat /\ f[m - 1] \in Nat
      BY <1>3, <2>2
    <3> QED
      BY <1>1, <1>2, <2>2, <3>1 DEF GoesOn
  <2> QED
    BY <2>1, <2>2
<1>4. f = body(f)
  BY <1>3 DEF CountDown
<1>5. Counter(e) = CHOOSE g : g = body(g)
  BY Zenon DEF Counter
<1> HIDE DEF body
<1>6. Counter(e) = body(Counter(e))
  BY <1>4, <1>5, Zenon
<1>7. PICK c : c = Counter(e)
  OBVIOUS
<1>8. c = body(c)
  BY <1>6, <1>7
<1>9. \A m \in Nat : c[m] = IF m <= Cursor(e) THEN state.nth[e] ELSE CountDown(e, m, c[m - 1])
  BY <1>8 DEF body, CountDown
<1> DEFINE T == {m \in Nat : c[m] \in Nat}
<1>10. 0 \in T
  BY <1>9
<1>11. ASSUME NEW m \in Nat, m \in T
       PROVE  m + 1 \in T
  <2>1. c[m + 1] = IF m + 1 <= Cursor(e) THEN state.nth[e] ELSE CountDown(e, m + 1, c[m])
    BY <1>9
  <2> QED
    BY <1>11, <2>1, CountDownType
<1>12. Nat \subseteq T
  <2> HIDE DEF T
  <2> QED
    BY <1>10, <1>11, Inductive
<1> QED
  BY <1>7, <1>9, <1>12

(* The seconds. *)
Offset == 0..(SecondsPerMinute - 1)
Ahead(e, m, s) ==
  IF Intervals(e, m) = {} THEN s
  ELSE IntervalHitsPerMinute(Setup[e].triggers[Max(Intervals(e, m))], m)

LEMMA HitsType ==
  ASSUME NEW t, NEW m
  PROVE  IntervalHitsPerMinute(t, m) \in SUBSET Offset
BY DEF IntervalHitsPerMinute, Offset

LEMMA SecondsDefined ==
  ASSUME NEW e \in Events, Cursor(e) \in Nat
  PROVE  /\ \A m \in Nat : Seconds(e)[m] \in SUBSET Offset
         /\ \A m \in Nat : Seconds(e)[m] = IF m <= Cursor(e) THEN Setup[e].precision
                                           ELSE Ahead(e, m, Seconds(e)[m - 1])
<1> DEFINE body(f) == [m \in Nat |->
                         IF m <= Cursor(e) THEN Setup[e].precision
                         ELSE IF Intervals(e, m) = {} THEN f[m - 1]
                         ELSE IntervalHitsPerMinute(Setup[e].triggers[Max(Intervals(e, m))], m)]
           S == SUBSET Offset
<1>0. \A m \in Nat : \A s \in S : Ahead(e, m, s) \in S
  BY HitsType DEF Ahead
<1>1. PICK step \in [Nat \X S -> S] : \A m \in Nat : \A s \in S : step[<<m, s>>] = Ahead(e, m, s)
  <2> DEFINE step == [p \in Nat \X S |-> Ahead(e, p[1], p[2])]
  <2> HIDE DEF S
  <2>1. step \in [Nat \X S -> S]
    BY <1>0
  <2>2. \A m \in Nat : \A s \in S : step[<<m, s>>] = Ahead(e, m, s)
    OBVIOUS
  <2> QED
    BY <2>1, <2>2
<1>2. Setup[e].precision \in S
  BY ScheduleAssumption DEF Offset
<1> HIDE DEF S
<1>3. PICK f \in [Nat -> S] : GoesOn(f, Setup[e].precision, Cursor(e), step)
  BY <1>2, RecursionFrom
<1>4. ASSUME NEW m \in Nat
      PROVE  f[m] = IF m <= Cursor(e) THEN Setup[e].precision ELSE Ahead(e, m, f[m - 1])
  <2>1. CASE m <= Cursor(e)
    BY <1>3, <2>1 DEF GoesOn
  <2>2. CASE ~(m <= Cursor(e))
    <3>1. m - 1 \in Nat /\ f[m - 1] \in S
      BY <1>4, <2>2
    <3> QED
      BY <1>1, <1>3, <2>2, <3>1 DEF GoesOn
  <2> QED
    BY <2>1, <2>2
<1>5. f = body(f)
  BY <1>4 DEF Ahead
<1>6. Seconds(e) = CHOOSE g : g = body(g)
  BY Zenon DEF Seconds
<1> HIDE DEF body
<1>7. Seconds(e) = body(Seconds(e))
  BY <1>5, <1>6, Zenon
<1>8. PICK c : c = Seconds(e)
  OBVIOUS
<1>9. c = body(c)
  BY <1>7, <1>8
<1>10. \A m \in Nat : c[m] = IF m <= Cursor(e) THEN Setup[e].precision ELSE Ahead(e, m, c[m - 1])
  BY <1>9 DEF body, Ahead
<1> DEFINE T == {m \in Nat : c[m] \in S}
<1>11. 0 \in T
  BY <1>2, <1>10
<1>12. ASSUME NEW m \in Nat, m \in T
       PROVE  m + 1 \in T
  <2>1. c[m + 1] = IF m + 1 <= Cursor(e) THEN Setup[e].precision ELSE Ahead(e, m + 1, c[m])
    BY <1>10
  <2> QED
    BY <1>0, <1>2, <1>12, <2>1
<1>13. Nat \subseteq T
  <2> HIDE DEF T
  <2> QED
    BY <1>11, <1>12, Inductive
<1> QED
  BY <1>8, <1>10, <1>13 DEF S
-----------------------------------------------------------------------------
(* The jobs of a tick. *)

LEMMA OffsetsType ==
  ASSUME NEW e \in Events, Cursor(e) \in Nat, NEW m \in Nat
  PROVE  Offsets(e, m) \in SUBSET Offset
<1>1. Seconds(e)[m] \in SUBSET Offset /\ 0 \in Offset
  BY SecondsDefined, ScheduleAssumption DEF Offset
<1> QED
  BY <1>1 DEF Offsets

LEMMA JobAtType ==
  ASSUME NEW e \in Events, NEW m \in 0..MaxMinute, NEW i \in DOMAIN Setup[e].triggers,
         NEW s \in Offset
  PROVE  JobAt(e, m, i, s) \in Job
<1>1. i \in Nat
  BY ScheduleAssumption
<1> QED
  BY <1>1 DEF JobAt, Job, Offset

LEMMA JobsOfTriggerAre ==
  ASSUME NEW e \in Events, Cursor(e) \in Nat, NEW m \in 0..MaxMinute,
         NEW i \in DOMAIN Setup[e].triggers
  PROVE  /\ JobsOfTrigger(e, m, i) \in Seq(Job)
         /\ \A x : x \in Range(JobsOfTrigger(e, m, i)) <=> \E s \in Offsets(e, m) : x = JobAt(e, m, i, s)
<1> DEFINE list(k) == IF k - 1 \in Offsets(e, m) THEN <<JobAt(e, m, i, k - 1)>> ELSE <<>>
<1>1. PICK ss : ss = [k \in 1..SecondsPerMinute |-> list(k)]
  OBVIOUS
<1>2. Offsets(e, m) \in SUBSET Offset /\ SecondsPerMinute \in Nat /\ m \in Nat
  BY OffsetsType, ScheduleAssumption
<1>3. \A k \in 1..SecondsPerMinute :
        /\ list(k) \in Seq(Job)
        /\ \A x : x \in Range(list(k)) <=> k - 1 \in Offsets(e, m) /\ x = JobAt(e, m, i, k - 1)
  <2>1. SUFFICES ASSUME NEW k \in 1..SecondsPerMinute
                 PROVE  /\ list(k) \in Seq(Job)
                        /\ \A x : x \in Range(list(k)) <=> k - 1 \in Offsets(e, m) /\ x = JobAt(e, m, i, k - 1)
    OBVIOUS
  <2>2. CASE k - 1 \in Offsets(e, m)
    <3>1. PICK j \in Job : j = JobAt(e, m, i, k - 1)
      BY <1>2, <2>2, JobAtType
    <3>2. list(k) = <<j>> /\ <<j>> \in Seq(Job) /\ Range(<<j>>) = {j}
      BY <2>2, <3>1 DEF Range
    <3> QED
      BY <2>2, <3>1, <3>2
  <2>3. CASE k - 1 \notin Offsets(e, m)
    <3>1. list(k) = <<>> /\ <<>> \in Seq(Job) /\ Range(<<>>) = {}
      BY <2>3 DEF Range
    <3> QED
      BY <2>3, <3>1
  <2> QED
    BY <2>2, <2>3
<1> HIDE DEF list
<1>4. ss \in Seq(Seq(Job)) /\ DOMAIN ss = 1..SecondsPerMinute
  BY <1>1, <1>2, <1>3
<1>5. JobsOfTrigger(e, m, i) = FlattenSeq(ss)
  BY <1>1 DEF JobsOfTrigger, list
<1>6. \A s \in Offsets(e, m) : s + 1 \in 1..SecondsPerMinute /\ (s + 1) - 1 = s
  BY <1>2 DEF Offset
<1>7. \A x : x \in Range(FlattenSeq(ss)) <=> \E s \in Offsets(e, m) : x = JobAt(e, m, i, s)
  <2>1. \A x : x \in Range(FlattenSeq(ss)) <=> \E k \in 1..SecondsPerMinute : x \in Range(list(k))
    <3>1. \A x : x \in Range(FlattenSeq(ss)) <=> \E k \in DOMAIN ss : x \in Range(ss[k])
      BY <1>4, FlattenType
    <3>2. \A k \in 1..SecondsPerMinute : ss[k] = list(k)
      BY <1>1
    <3> QED
      BY <1>4, <3>1, <3>2
  <2> QED
    BY <1>3, <1>6, <2>1
<1> QED
  BY <1>4, <1>5, <1>7, FlattenType

LEMMA JobsAtAre ==
  ASSUME NEW e \in Events, Cursor(e) \in Nat, NEW m \in 0..MaxMinute
  PROVE  /\ JobsAt(e, m) \in Seq(Job)
         /\ \A x : x \in Range(JobsAt(e, m)) <=>
                     \E i \in Chosen(e, m), s \in Offsets(e, m) : x = JobAt(e, m, i, s)
<1> DEFINE list(i) == IF i \in Chosen(e, m) THEN JobsOfTrigger(e, m, i) ELSE <<>>
           D == DOMAIN Setup[e].triggers
<1>1. PICK ss : ss = [i \in D |-> list(i)]
  OBVIOUS
<1>2. PICK n \in Nat : D = 1..n
  BY ScheduleAssumption
<1>3. \A i \in D :
        /\ list(i) \in Seq(Job)
        /\ \A x : x \in Range(list(i)) <=>
                    i \in Chosen(e, m) /\ \E s \in Offsets(e, m) : x = JobAt(e, m, i, s)
  <2>1. SUFFICES ASSUME NEW i \in D
                 PROVE  /\ list(i) \in Seq(Job)
                        /\ \A x : x \in Range(list(i)) <=>
                             i \in Chosen(e, m) /\ \E s \in Offsets(e, m) : x = JobAt(e, m, i, s)
    OBVIOUS
  <2>2. CASE i \in Chosen(e, m)
    BY <2>2, JobsOfTriggerAre
  <2>3. CASE i \notin Chosen(e, m)
    <3>1. list(i) = <<>> /\ <<>> \in Seq(Job) /\ Range(<<>>) = {}
      BY <2>3 DEF Range
    <3> QED
      BY <2>3, <3>1
  <2> QED
    BY <2>2, <2>3
<1> HIDE DEF list
<1>4. ss \in Seq(Seq(Job)) /\ DOMAIN ss = D
  BY <1>1, <1>2, <1>3
<1>5. JobsAt(e, m) = FlattenSeq(ss)
  BY <1>1 DEF JobsAt, list
<1>6. \A x : x \in Range(FlattenSeq(ss)) <=>
               \E i \in Chosen(e, m), s \in Offsets(e, m) : x = JobAt(e, m, i, s)
  <2>1. \A x : x \in Range(FlattenSeq(ss)) <=> \E i \in D : x \in Range(list(i))
    BY <1>1, <1>4, FlattenType
  <2>2. Chosen(e, m) \subseteq D
    BY DEF Chosen
  <2> HIDE DEF D
  <2> QED
    BY <1>3, <2>1, <2>2
<1> QED
  BY <1>4, <1>5, <1>6, FlattenType

LEMMA PickedType ==
  ASSUME NEW e \in Events, Cursor(e) \in Nat, now \in Nat, now + 1 \in 0..MaxMinute
  PROVE  Picked(e) \subseteq 1..(now + 1) /\ \A m \in Picked(e) : m \in 1..MaxMinute /\ m > Cursor(e)
BY ScheduleAssumption DEF Picked

LEMMA JobsOfEventAre ==
  ASSUME NEW e \in Events, Cursor(e) \in Nat, now \in Nat, now + 1 \in 0..MaxMinute
  PROVE  /\ JobsOfEvent(e) \in Seq(Job)
         /\ \A x : x \in Range(JobsOfEvent(e)) <=>
                     \E m \in Picked(e) : \E i \in Chosen(e, m), s \in Offsets(e, m) : x = JobAt(e, m, i, s)
<1> DEFINE list(m) == IF m \in Picked(e) THEN JobsAt(e, m) ELSE <<>>
<1>1. PICK ss : ss = [m \in 1..(now + 1) |-> list(m)]
  OBVIOUS
<1>2. \A m \in 1..(now + 1) :
        /\ list(m) \in Seq(Job)
        /\ \A x : x \in Range(list(m)) <=>
             m \in Picked(e) /\ \E i \in Chosen(e, m), s \in Offsets(e, m) : x = JobAt(e, m, i, s)
  <2>1. SUFFICES ASSUME NEW m \in 1..(now + 1)
                 PROVE  /\ list(m) \in Seq(Job)
                        /\ \A x : x \in Range(list(m)) <=>
                             /\ m \in Picked(e)
                             /\ \E i \in Chosen(e, m), s \in Offsets(e, m) : x = JobAt(e, m, i, s)
    OBVIOUS
  <2>2. CASE m \in Picked(e)
    <3>1. m \in 0..MaxMinute
      BY ScheduleAssumption
    <3> QED
      BY <2>2, <3>1, JobsAtAre
  <2>3. CASE m \notin Picked(e)
    <3>1. list(m) = <<>> /\ <<>> \in Seq(Job) /\ Range(<<>>) = {}
      BY <2>3 DEF Range
    <3> QED
      BY <2>3, <3>1
  <2> QED
    BY <2>2, <2>3
<1> HIDE DEF list
<1>3. ss \in Seq(Seq(Job)) /\ DOMAIN ss = 1..(now + 1)
  BY <1>1, <1>2
<1>4. JobsOfEvent(e) = FlattenSeq(ss)
  BY <1>1 DEF JobsOfEvent, list
<1>5. \A x : x \in Range(FlattenSeq(ss)) <=>
        \E m \in Picked(e) : \E i \in Chosen(e, m), s \in Offsets(e, m) : x = JobAt(e, m, i, s)
  <2>1. \A x : x \in Range(FlattenSeq(ss)) <=> \E m \in 1..(now + 1) : x \in Range(list(m))
    <3>1. \A x : x \in Range(FlattenSeq(ss)) <=> \E m \in DOMAIN ss : x \in Range(ss[m])
      BY <1>3, FlattenType
    <3>2. \A m \in 1..(now + 1) : ss[m] = list(m)
      BY <1>1
    <3> QED
      BY <1>3, <3>1, <3>2
  <2>2. Picked(e) \subseteq 1..(now + 1)
    BY PickedType
  <2> QED
    BY <1>2, <2>1, <2>2
<1> QED
  BY <1>3, <1>4, <1>5, FlattenType

(* A job of event e that this tick makes. *)
Makes(e, x) ==
  \E m \in Picked(e) : \E i \in Chosen(e, m), s \in Offsets(e, m) : x = JobAt(e, m, i, s)

LEMMA JobsOfEventsAre ==
  ASSUME NEW W \in SUBSET Events, \A e \in W : Cursor(e) \in Nat,
         now \in Nat, now + 1 \in 0..MaxMinute
  PROVE  /\ JobsOfEvents(W) \in Seq(Job)
         /\ \A x : x \in Range(JobsOfEvents(W)) <=> \E e \in W : Makes(e, x)
<1>1. IsFiniteSet(W)
  BY ScheduleAssumption, FS_Subset
<1>2. PICK es \in Seq(W) : es = SetToSeq(W) /\ \A x : x \in W <=> \E i \in DOMAIN es : es[i] = x
  BY <1>1, SetToSeqType
<1>3. PICK ss : ss = [i \in DOMAIN es |-> JobsOfEvent(es[i])]
  OBVIOUS
<1>4. \A e \in W : JobsOfEvent(e) \in Seq(Job) /\ \A x : x \in Range(JobsOfEvent(e)) <=> Makes(e, x)
  BY JobsOfEventAre DEF Makes
<1>5. \A i \in DOMAIN es : es[i] \in W
  BY <1>2
<1>6. ss \in Seq(Seq(Job)) /\ DOMAIN ss = DOMAIN es
  <2>1. PICK n \in Nat : DOMAIN es = 1..n
    BY <1>2
  <2> QED
    BY <1>3, <1>4, <1>5, <2>1
<1>7. JobsOfEvents(W) = FlattenSeq(ss)
  BY <1>2, <1>3 DEF JobsOfEvents
<1>8. \A x : x \in Range(FlattenSeq(ss)) <=> \E i \in DOMAIN es : x \in Range(JobsOfEvent(es[i]))
  BY <1>3, <1>6, FlattenType
<1>9. \A x : x \in Range(FlattenSeq(ss)) <=> \E e \in W : Makes(e, x)
  BY <1>2, <1>4, <1>5, <1>8
<1> QED
  BY <1>6, <1>7, <1>9, FlattenType

(* The jobs of the events that a start or a change triggers. *)
LEMMA JobsOfType ==
  ASSUME NEW W \in SUBSET Events, now \in 0..MaxMinute,
         NEW source \in {"startup", "activity"}
  PROVE  JobsOf(W, source) \in Seq(Job)
<1>1. IsFiniteSet(W)
  BY ScheduleAssumption, FS_Subset
<1>2. PICK es \in Seq(W) : es = SetToSeq(W)
  BY <1>1, SetToSeqType
<1>3. PICK n \in Nat : DOMAIN es = 1..n
  BY <1>2
<1>4. 0 \in 0..(SecondsPerMinute - 1) /\ 0 \in Nat
  BY ScheduleAssumption
<1>5. \A i \in 1..n : [event |-> es[i], trigger |-> 0, minute |-> now, second |-> 0,
                       source |-> source] \in Job
  BY <1>2, <1>3, <1>4 DEF Job
<1>6. [i \in 1..n |-> [event |-> es[i], trigger |-> 0, minute |-> now, second |-> 0,
                       source |-> source]] \in Seq(Job)
  BY <1>5
<1> QED
  BY <1>2, <1>3, <1>6 DEF JobsOf

(* The jobs of a batch that a plugin lets through. *)
LEMMA AnswerType ==
  ASSUME NEW batch \in Seq(Job), NEW yes
  PROVE  FlattenSeq([i \in DOMAIN batch |-> IF batch[i] \in yes /\ batch[i].event \in listed
                                            THEN <<batch[i]>> ELSE <<>>]) \in Seq(Job)
<1> DEFINE list(i) == IF batch[i] \in yes /\ batch[i].event \in listed THEN <<batch[i]>> ELSE <<>>
<1>1. PICK n \in Nat : DOMAIN batch = 1..n /\ \A i \in 1..n : batch[i] \in Job
  OBVIOUS
<1>2. \A i \in 1..n : list(i) \in Seq(Job)
  BY <1>1
<1> HIDE DEF list
<1>3. [i \in 1..n |-> list(i)] \in Seq(Seq(Job))
  BY <1>2
<1>4. FlattenSeq([i \in 1..n |-> list(i)]) \in Seq(Job)
  BY <1>3, FlattenType
<1> QED
  BY <1>1, <1>4 DEF list
-----------------------------------------------------------------------------
(* The inductive invariant. *)

(* A cursor has not fallen behind its base, and nothing is scheduled ahead of time. *)
Timely(st, e) == st.cursor[e] # 0 => st.base[e] <= st.cursor[e]
Clocks ==
  /\ conductor = "down" => state = saved
  /\ \A e \in Events : Timely(state, e) /\ Timely(saved, e) /\ scheduled[e] \subseteq 1..now

(* The minutes up to m in which e is due, and the Nth counter after d of them. *)
DueFrom(e, from) == {m \in (from + 1)..MaxMinute : Due(e, m)}
Passed(e, from, m) == Cardinality({k \in DueFrom(e, from) : k <= m})
Turn(e, s, d) == d >= s /\ (d - s) % Setup[e].every = 0
OnCount(e, c, s, d) ==
  LET r == (d - s) % Setup[e].every
  IN IF d < s THEN c = s + 1 - d
     ELSE (c <= 1 <=> r = 0) /\ (r # 0 => c = Setup[e].every + 1 - r)
Counted(st, e, d) == Setup[e].every # 0 => OnCount(e, st.nth[e], st.skip[e], d)

(* What a state, in memory or stored, says of e is true.                     *)
After(minutes, from) == {m \in minutes : m > from}
NthUpTo(e, from, s, m) == {k \in NthDue(e, from, s) : k <= m}
Exact(st, e) ==
  /\ st.cursor[e] = 0 => since[e] <= now /\ Counted(st, e, 0)
  /\ st.cursor[e] # 0 =>
       /\ st.base[e] >= since[e]
       /\ After(scheduled[e], st.base[e]) \subseteq NthDue(e, st.base[e], st.skip[e])
       /\ NthUpTo(e, st.base[e], st.skip[e], st.cursor[e]) \subseteq scheduled[e]
       /\ Counted(st, e, Passed(e, st.base[e], st.cursor[e]))

(* What is stored and what is in memory are about the same setting of the cursor. *)
Linked(e) ==
  /\ saved.skip[e] = state.skip[e]
  /\ saved.cursor[e] # 0 => state.cursor[e] # 0 /\ state.base[e] = saved.base[e]
Accurate(e) ==
  kept[e] => /\ e \in catchup /\ Exact(state, e)
             /\ e \notin unsaved => Exact(saved, e) /\ Linked(e)

(* A minute the cursor has not passed yet is scheduled only if a crash or a   *)
(* pause of catch-up says so.                                               *)
Accounted(e) ==
  state.cursor[e] # 0 => \A m \in scheduled[e] : m > state.cursor[e] => m \in replay[e]

Settled == Clocks /\ \A e \in Events : Accurate(e) /\ Accounted(e)
Inv == TypeOK /\ Settled

-----------------------------------------------------------------------------
(* Types. *)

LEMMA StateType ==
  ASSUME NEW st
  PROVE  st \in State <=>
           /\ st = [enabled |-> st.enabled, cursor |-> st.cursor, nth |-> st.nth,
                    base |-> st.base, skip |-> st.skip]
           /\ st.enabled \in BOOLEAN /\ st.cursor \in [Events -> 0..MaxMinute]
           /\ st.nth \in [Events -> Nat] /\ st.base \in [Events -> 0..MaxMinute]
           /\ st.skip \in [Events -> Nat]
BY DEF State

LEMMA CursorType ==
  ASSUME TypeOK, NEW e \in Events
  PROVE  Cursor(e) \in 0..MaxMinute /\ Cursor(e) \in Nat /\ state.nth[e] \in Nat
<1>1. state.cursor[e] \in 0..MaxMinute /\ now \in 0..MaxMinute /\ state.nth[e] \in Nat
  BY ScheduleAssumption DEF TypeOK, State, Minutes
<1> QED
  BY <1>1, ScheduleAssumption DEF Cursor

LEMMA TickedType ==
  ASSUME TypeOK, now < MaxMinute, NEW e \in Events
  PROVE  /\ Ticked(e).cursor \in 0..MaxMinute /\ Ticked(e).nth \in Nat
         /\ Ticked(e).base \in 0..MaxMinute
<1>1. /\ now \in 0..MaxMinute /\ now + 1 \in 0..MaxMinute /\ now + 1 \in Nat
      /\ state.cursor[e] \in 0..MaxMinute /\ state.base[e] \in 0..MaxMinute /\ state.nth[e] \in Nat
  BY ScheduleAssumption DEF TypeOK, State, Minutes
<1>2. Counter(e)[now + 1] \in Nat
  BY <1>1, CursorType, CounterDefined
<1> QED
  BY <1>1, <1>2 DEF Ticked

LEMMA PickedMinutes ==
  ASSUME TypeOK, now < MaxMinute, NEW e \in Events
  PROVE  Picked(e) \in SUBSET Minutes /\ \A m \in Picked(e) : m > Cursor(e) /\ m <= now + 1
<1>1. now \in Nat /\ now + 1 \in 0..MaxMinute
  BY ScheduleAssumption DEF TypeOK, Minutes
<1>2. Cursor(e) \in Nat
  BY CursorType
<1>3. Picked(e) \subseteq 1..(now + 1) /\ \A m \in Picked(e) : m \in 1..MaxMinute /\ m > Cursor(e)
  BY <1>1, <1>2, PickedType
<1> QED
  BY <1>1, <1>3 DEF Minutes

LEMMA TickType ==
  ASSUME TypeOK, now < MaxMinute, SchedulerMinuteTick
  PROVE  /\ state' \in State /\ queue' \in Seq(Job) /\ \A b \in deferred' : b \in Seq(Job)
         /\ scheduled' \in [Events -> SUBSET Minutes] /\ replay' \in [Events -> SUBSET Minutes]
         /\ \A e \in Events : replay'[e] \subseteq scheduled'[e]
<1> DEFINE picked == [e \in Events |-> IF Runs(e) THEN Picked(e) ELSE {}]
<1>1. now \in Nat /\ now + 1 \in 0..MaxMinute
  BY ScheduleAssumption DEF TypeOK, Minutes
<1>2. state' \in State
  <2>1. state' = [state EXCEPT !.cursor = [e \in Events |-> Ticked(e).cursor],
                               !.nth    = [e \in Events |-> Ticked(e).nth],
                               !.base   = [e \in Events |-> Ticked(e).base]]
    BY DEF SchedulerMinuteTick
  <2>2. \A e \in Events : /\ Ticked(e).cursor \in 0..MaxMinute /\ Ticked(e).nth \in Nat
                          /\ Ticked(e).base \in 0..MaxMinute
    BY TickedType
  <2> QED
    BY <2>1, <2>2 DEF TypeOK, State
<1>3. \A W \in SUBSET Events : JobsOfEvents(W) \in Seq(Job)
  BY <1>1, CursorType, JobsOfEventsAre
<1>4. queue' \in Seq(Job)
  <2>1. JobsOfEvents({e \in {x \in Events : Runs(x)} : ~Setup[e].plugin}) \in Seq(Job)
    BY <1>3
  <2> QED
    BY <2>1 DEF SchedulerMinuteTick, TypeOK
<1>5. \A b \in deferred' : b \in Seq(Job)
  <2>1. JobsOfEvents({e \in {x \in Events : Runs(x)} : Setup[e].plugin}) \in Seq(Job)
    BY <1>3
  <2> QED
    BY <2>1 DEF SchedulerMinuteTick, TypeOK
<1>6. picked \in [Events -> SUBSET Minutes]
  BY PickedMinutes
<1>7. /\ scheduled' = [e \in Events |-> scheduled[e] \cup picked[e]]
      /\ replay' = [e \in Events |->
                      (replay[e] \ picked[e]) \cup {m \in picked[e] : LeftBehind(e, m)}]
  BY DEF SchedulerMinuteTick
<1> HIDE DEF picked
<1>8. scheduled' \in [Events -> SUBSET Minutes] /\ replay' \in [Events -> SUBSET Minutes]
  BY <1>6, <1>7 DEF TypeOK
<1>9. \A e \in Events : replay'[e] \subseteq scheduled'[e]
  BY <1>7 DEF TypeOK
<1> QED
  BY <1>2, <1>4, <1>5, <1>8, <1>9

LEMMA MinuteType ==
  ASSUME TypeOK, Minute
  PROVE  TypeOK'
<1>1. now < MaxMinute /\ now' = now + 1 /\ now' \in Minutes
  BY ScheduleAssumption DEF TypeOK, Minute, Minutes
<1>2. CASE Master /\ state.enabled
  <2>1. SchedulerMinuteTick
    BY <1>2 DEF Minute
  <2>2. /\ state' \in State /\ queue' \in Seq(Job) /\ \A b \in deferred' : b \in Seq(Job)
        /\ scheduled' \in [Events -> SUBSET Minutes] /\ replay' \in [Events -> SUBSET Minutes]
        /\ \A e \in Events : replay'[e] \subseteq scheduled'[e]
    BY <1>1, <2>1, TickType
  <2> QED
    BY <1>1, <2>2 DEF TypeOK, Minute, events
<1>3. CASE ~(Master /\ state.enabled)
  BY <1>1, <1>3 DEF TypeOK, Minute, events
<1> QED
  BY <1>2, <1>3

LEMMA SetStateType ==
  ASSUME TypeOK, NEW e \in Events, NEW c \in 0..MaxMinute, NEW n \in Nat, SetState(e, c, n)
  PROVE  /\ state' \in State
         /\ scheduled' \in [Events -> SUBSET Minutes] /\ replay' \in [Events -> SUBSET Minutes]
         /\ \A x \in Events : replay'[x] \subseteq scheduled'[x]
         /\ kept' \in [Events -> BOOLEAN] /\ since' \in [Events -> Minutes]
         /\ unsaved' \subseteq Events
<1> DEFINE s == IF n <= 1 THEN 0 ELSE n - 1
<1>1. /\ state.enabled \in BOOLEAN /\ state.cursor \in [Events -> 0..MaxMinute]
      /\ state.nth \in [Events -> Nat] /\ state.base \in [Events -> 0..MaxMinute]
      /\ state.skip \in [Events -> Nat]
  BY DEF TypeOK, State
<1>2. s \in Nat
  OBVIOUS
<1>3. state' = [state EXCEPT !.cursor[e] = c, !.nth[e] = n, !.base[e] = c, !.skip[e] = s]
  BY DEF SetState
<1> HIDE DEF s
<1>4. state' \in State
  <2>1. [state.cursor EXCEPT ![e] = c] \in [Events -> 0..MaxMinute]
    BY <1>1
  <2>2. [state.nth EXCEPT ![e] = n] \in [Events -> Nat]
    BY <1>1
  <2>3. [state.base EXCEPT ![e] = c] \in [Events -> 0..MaxMinute]
    BY <1>1
  <2>4. [state.skip EXCEPT ![e] = s] \in [Events -> Nat]
    BY <1>1, <1>2
  <2>5. state' = [enabled |-> state.enabled, cursor |-> [state.cursor EXCEPT ![e] = c],
                  nth |-> [state.nth EXCEPT ![e] = n], base |-> [state.base EXCEPT ![e] = c],
                  skip |-> [state.skip EXCEPT ![e] = s]]
    BY <1>3 DEF TypeOK, State
  <2> QED
    BY <1>1, <2>1, <2>2, <2>3, <2>4, <2>5 DEF State
<1>5. /\ scheduled' \in [Events -> SUBSET Minutes] /\ replay' \in [Events -> SUBSET Minutes]
      /\ \A x \in Events : replay'[x] \subseteq scheduled'[x]
  BY DEF SetState, TypeOK
<1>6. kept' \in [Events -> BOOLEAN] /\ unsaved' \subseteq Events
  BY DEF SetState, TypeOK
<1>7. since' \in [Events -> Minutes]
  <2>1. c # 0 => c \in Minutes
    BY ScheduleAssumption DEF Minutes
  <2>2. since' = [since EXCEPT ![e] = IF c = 0 THEN now ELSE c]
    BY DEF SetState
  <2> QED
    BY <2>1, <2>2 DEF TypeOK
<1> QED
  BY <1>4, <1>5, <1>6, <1>7

(* A user sets the cursor or the counter, not both. *)
LEMMA SetSomeIs ==
  ASSUME TypeOK, NEW e \in Events, SetSome(e)
  PROVE  \E c \in 0..MaxMinute, n \in Nat : SetState(e, c, n)
<1>1. state.cursor[e] \in 0..MaxMinute /\ state.nth[e] \in Nat
  BY DEF TypeOK, State
<1>2. Cursors \subseteq 0..MaxMinute /\ Counters \subseteq Nat
  BY ScheduleAssumption
<1> QED
  BY <1>1, <1>2 DEF SetSome

LEMMA CreatedIs ==
  ASSUME NEW e, CreateEvent(e)
  PROVE  \E c \in 0..MaxMinute, n \in Nat : SetState(e, c, n)
<1>1. Cursors \cup {0} \subseteq 0..MaxMinute /\ Counters \cup {0} \subseteq Nat
  BY ScheduleAssumption
<1>2. \E c \in Cursors \cup {0}, n \in Counters \cup {0} : SetState(e, c, n)
  BY DEF CreateEvent
<1> QED
  BY <1>1, <1>2

LEMMA TriggersType ==
  ASSUME TypeOK, NEW activity, NEW on, CheckActivityTriggers(activity, on)
  PROVE  queue' \in Seq(Job)
<1> DEFINE W == {e \in Events : Runs(e) /\ activity \in Setup[e].activities}
<1>1. now \in 0..MaxMinute /\ W \in SUBSET Events
  BY ScheduleAssumption DEF TypeOK, Minutes
<1> HIDE DEF W
<1>2. JobsOf(W, "activity") \in Seq(Job)
  BY <1>1, JobsOfType
<1>3. queue' = IF on THEN queue \o JobsOf(W, "activity") ELSE queue
  BY DEF CheckActivityTriggers, W
<1> QED
  BY <1>2, <1>3 DEF TypeOK

LEMMA ChangeType ==
  ASSUME TypeOK, Change
  PROVE  edits' \in 0..MaxEdits
BY ScheduleAssumption DEF TypeOK, Change

LEMMA FaultType ==
  ASSUME TypeOK, Fault
  PROVE  faults' \in 0..MaxFaults
BY ScheduleAssumption DEF TypeOK, Fault

LEMMA CreateEventType ==
  ASSUME TypeOK, NEW e \in Events, CreateEvent(e)
  PROVE  TypeOK'
<1>1. queue' \in Seq(Job) /\ edits' \in 0..MaxEdits
  BY TriggersType, ChangeType DEF CreateEvent
<1>2. listed' \subseteq Events /\ enabled' \subseteq Events /\ catchup' \subseteq Events
  BY DEF CreateEvent, TypeOK
<1>3. PICK c \in 0..MaxMinute, n \in Nat : SetState(e, c, n)
  BY CreatedIs
<1>4. /\ state' \in State
      /\ scheduled' \in [Events -> SUBSET Minutes] /\ replay' \in [Events -> SUBSET Minutes]
      /\ \A x \in Events : replay'[x] \subseteq scheduled'[x]
      /\ kept' \in [Events -> BOOLEAN] /\ since' \in [Events -> Minutes] /\ unsaved' \subseteq Events
  BY <1>3, SetStateType
<1> QED
  BY <1>1, <1>2, <1>4 DEF CreateEvent, TypeOK

LEMMA UpdateEventType ==
  ASSUME TypeOK, NEW e \in Events, UpdateEvent(e)
  PROVE  TypeOK'
<1>1. queue' \in Seq(Job) /\ edits' \in 0..MaxEdits
  BY TriggersType, ChangeType DEF UpdateEvent
<1>2. /\ Change /\ UNCHANGED <<now, conductor, startup, listed, saved, deferred, faults>>
      /\ \/ enabled' = SymDiff(enabled, {e}) /\ UNCHANGED <<catchup, state, ghosts>>
         \/ /\ catchup' = SymDiff(catchup, {e}) /\ kept' = [kept EXCEPT ![e] = FALSE]
            /\ UNCHANGED <<enabled, state, scheduled, replay, since, unsaved>>
         \/ UNCHANGED <<enabled, catchup>> /\ SetSome(e)
  BY DEF UpdateEvent
<1>3. CASE enabled' = SymDiff(enabled, {e}) /\ UNCHANGED <<catchup, state, ghosts>>
  BY <1>1, <1>2, <1>3 DEF TypeOK, SymDiff, ghosts
<1>4. CASE /\ catchup' = SymDiff(catchup, {e}) /\ kept' = [kept EXCEPT ![e] = FALSE]
           /\ UNCHANGED <<enabled, state, scheduled, replay, since, unsaved>>
  BY <1>1, <1>2, <1>4 DEF TypeOK, SymDiff
<1>5. CASE UNCHANGED <<enabled, catchup>> /\ SetSome(e)
  <2>1. PICK c \in 0..MaxMinute, n \in Nat : SetState(e, c, n)
    BY <1>5, SetSomeIs
  <2>2. /\ state' \in State
        /\ scheduled' \in [Events -> SUBSET Minutes] /\ replay' \in [Events -> SUBSET Minutes]
        /\ \A x \in Events : replay'[x] \subseteq scheduled'[x]
        /\ kept' \in [Events -> BOOLEAN] /\ since' \in [Events -> Minutes] /\ unsaved' \subseteq Events
    BY <2>1, SetStateType
  <2> QED
    BY <1>1, <1>2, <1>5, <2>2 DEF TypeOK
<1> QED
  BY <1>2, <1>3, <1>4, <1>5

LEMMA DeleteEventType ==
  ASSUME TypeOK, NEW e \in Events, DeleteEvent(e)
  PROVE  TypeOK'
<1>1. queue' \in Seq(Job) /\ edits' \in 0..MaxEdits
  BY TriggersType, ChangeType DEF DeleteEvent
<1>2. 0 \in 0..MaxMinute /\ 0 \in Nat /\ SetState(e, 0, 0)
  BY ScheduleAssumption DEF DeleteEvent
<1>3. /\ state' \in State
      /\ scheduled' \in [Events -> SUBSET Minutes] /\ replay' \in [Events -> SUBSET Minutes]
      /\ \A x \in Events : replay'[x] \subseteq scheduled'[x]
      /\ kept' \in [Events -> BOOLEAN] /\ since' \in [Events -> Minutes] /\ unsaved' \subseteq Events
  BY <1>2, SetStateType
<1> QED
  BY <1>1, <1>3 DEF DeleteEvent, TypeOK

LEMMA UpdateGlobalStateType ==
  ASSUME TypeOK, UpdateGlobalState
  PROVE  TypeOK'
<1>1. queue' \in Seq(Job) /\ edits' \in 0..MaxEdits
  BY TriggersType, ChangeType DEF UpdateGlobalState
<1>2. UNCHANGED <<events, now, conductor, startup, saved, deferred, faults>>
  BY DEF UpdateGlobalState
<1>3. CASE state' = [state EXCEPT !.enabled = ~@] /\ UNCHANGED ghosts
  <2>1. state' \in State
    BY <1>3 DEF TypeOK, State
  <2> QED
    BY <1>1, <1>2, <1>3, <2>1 DEF TypeOK, ghosts, events
<1>4. ASSUME NEW e \in Editable, SetSome(e)
      PROVE  TypeOK'
  <2>1. e \in Events
    BY ScheduleAssumption
  <2>2. PICK c \in 0..MaxMinute, n \in Nat : SetState(e, c, n)
    BY <1>4, <2>1, SetSomeIs
  <2>3. /\ state' \in State
        /\ scheduled' \in [Events -> SUBSET Minutes] /\ replay' \in [Events -> SUBSET Minutes]
        /\ \A x \in Events : replay'[x] \subseteq scheduled'[x]
        /\ kept' \in [Events -> BOOLEAN] /\ since' \in [Events -> Minutes] /\ unsaved' \subseteq Events
    BY <2>1, <2>2, SetStateType
  <2> QED
    BY <1>1, <1>2, <2>3 DEF TypeOK, events
<1> QED
  BY <1>3, <1>4 DEF UpdateGlobalState

LEMMA QueueStepsType ==
  ASSUME TypeOK, StartupCheck \/ PluginReturns \/ DequeueLaunch
  PROVE  TypeOK'
<1>1. CASE StartupCheck
  <2>1. queue' \in Seq(Job)
    <3> DEFINE W == {e \in Events : Runs(e) /\ Setup[e].startup}
    <3>1. now \in 0..MaxMinute /\ W \in SUBSET Events
      BY ScheduleAssumption DEF TypeOK, Minutes
    <3> HIDE DEF W
    <3>2. JobsOf(W, "startup") \in Seq(Job)
      BY <3>1, JobsOfType
    <3>3. queue' = IF state.enabled THEN queue \o JobsOf(W, "startup") ELSE queue
      BY <1>1 DEF StartupCheck, W
    <3> QED
      BY <3>2, <3>3 DEF TypeOK
  <2> QED
    BY <1>1, <2>1 DEF StartupCheck, TypeOK, ghosts, events
<1>2. CASE PluginReturns
  <2>1. PICK batch \in deferred : \E yes \in SUBSET Range(batch) :
          /\ deferred' = deferred \ {batch}
          /\ queue' = queue \o FlattenSeq([i \in DOMAIN batch |->
                                  IF batch[i] \in yes /\ batch[i].event \in listed
                                  THEN <<batch[i]>> ELSE <<>>])
    BY <1>2 DEF PluginReturns
  <2>2. PICK yes : queue' = queue \o FlattenSeq([i \in DOMAIN batch |->
                                  IF batch[i] \in yes /\ batch[i].event \in listed
                                  THEN <<batch[i]>> ELSE <<>>])
    BY <2>1
  <2>3. batch \in Seq(Job)
    BY DEF TypeOK
  <2>4. PICK answer \in Seq(Job) : queue' = queue \o answer
    BY <2>2, <2>3, AnswerType
  <2>5. queue' \in Seq(Job) /\ \A b \in deferred' : b \in Seq(Job)
    <3>1. queue \in Seq(Job) /\ \A b \in deferred : b \in Seq(Job)
      BY DEF TypeOK
    <3>2. queue' \in Seq(Job)
      BY <2>4, <3>1
    <3>3. deferred' = deferred \ {batch}
      BY <2>1
    <3> QED
      BY <3>1, <3>2, <3>3
  <2> QED
    BY <1>2, <2>5 DEF PluginReturns, TypeOK, ghosts, events
<1>3. CASE DequeueLaunch
  <2>1. queue' \in Seq(Job)
    BY <1>3 DEF DequeueLaunch, TypeOK
  <2> QED
    BY <1>3, <2>1 DEF DequeueLaunch, TypeOK, ghosts, events
<1> QED
  BY <1>1, <1>2, <1>3

LEMMA StopsType ==
  ASSUME TypeOK, SaveState \/ Shutdown \/ Exit \/ Crash \/ BecomeMaster
  PROVE  TypeOK'
<1>0. <<>> \in Seq(Job)
  OBVIOUS
<1>1. CASE SaveState
  BY <1>1 DEF SaveState, TypeOK, ghosts, events
<1>2. CASE Shutdown
  BY <1>0, <1>2, FaultType DEF Shutdown, TypeOK, ghosts, events
<1>3. CASE Exit
  BY <1>3 DEF Exit, TypeOK, ghosts, events
<1>4. CASE Crash
  <2>1. replay' \in [Events -> SUBSET Minutes] /\ \A e \in Events : replay'[e] \subseteq scheduled[e]
    BY <1>4 DEF Crash, TypeOK
  <2>2. kept' \in [Events -> BOOLEAN]
    BY <1>4 DEF Crash, TypeOK
  <2> QED
    BY <1>0, <1>4, <2>1, <2>2, FaultType DEF Crash, TypeOK, events
<1>5. CASE BecomeMaster
  BY <1>5 DEF BecomeMaster, TypeOK, ghosts, events
<1> QED
  BY <1>1, <1>2, <1>3, <1>4, <1>5

LEMMA TypeInit ==
  ASSUME Init
  PROVE  TypeOK
<1>1. <<>> \in Seq(Job)
  OBVIOUS
<1>2. 1 \in Minutes /\ 0 \in 0..MaxMinute
  BY ScheduleAssumption DEF Minutes
<1>3. state \in State
  BY <1>2 DEF Init, State
<1> QED
  BY <1>1, <1>2, <1>3, ScheduleAssumption DEF Init, TypeOK

LEMMA TypeStep ==
  ASSUME TypeOK, [Next]_vars
  PROVE  TypeOK'
<1>1. CASE UNCHANGED vars
  BY <1>1 DEF vars, ghosts, events, TypeOK
<1>2. CASE Next
  <2>1. \A e \in Editable : e \in Events
    BY ScheduleAssumption
  <2> QED
    BY <1>2, <2>1, MinuteType, QueueStepsType, StopsType, UpdateGlobalStateType,
       CreateEventType, UpdateEventType, DeleteEventType DEF Next
<1> QED
  BY <1>1, <1>2-----------------------------------------------------------------------------
(* The minutes a tick picks are those of the Nth rule. *)

LEMMA PassedType ==
  ASSUME NEW e, NEW from \in Nat, NEW m
  PROVE  IsFiniteSet({k \in DueFrom(e, from) : k <= m}) /\ Passed(e, from, m) \in Nat
<1>0. from + 1 \in Int /\ MaxMinute \in Int
  BY ScheduleAssumption
<1>1. IsFiniteSet((from + 1)..MaxMinute)
  BY <1>0, FS_Interval
<1>2. {k \in DueFrom(e, from) : k <= m} \subseteq (from + 1)..MaxMinute
  BY DEF DueFrom
<1>3. IsFiniteSet({k \in DueFrom(e, from) : k <= m})
  BY <1>1, <1>2, FS_Subset
<1> QED
  BY <1>3, FS_CardinalityType DEF Passed

LEMMA PassedNone ==
  ASSUME NEW e, NEW from \in Nat
  PROVE  Passed(e, from, from) = 0
<1>1. {k \in DueFrom(e, from) : k <= from} = {}
  BY ScheduleAssumption DEF DueFrom
<1> QED
  BY <1>1, FS_EmptySet DEF Passed

LEMMA PassedNext ==
  ASSUME NEW e, NEW from \in Nat, NEW m \in Nat, from <= m, m + 1 <= MaxMinute
  PROVE  Passed(e, from, m + 1) = IF Due(e, m + 1) THEN Passed(e, from, m) + 1 ELSE Passed(e, from, m)
<1> DEFINE D == {k \in DueFrom(e, from) : k <= m}
           D1 == {k \in DueFrom(e, from) : k <= m + 1}
<1>1. IsFiniteSet(D)
  BY PassedType
<1>2. CASE Due(e, m + 1)
  <2>1. D1 = D \cup {m + 1} /\ m + 1 \notin D
    BY <1>2, ScheduleAssumption DEF DueFrom
  <2>2. Cardinality(D1) = Cardinality(D) + 1
    <3> HIDE DEF D, D1
    <3> QED
      BY <1>1, <2>1, FS_AddElement
  <2> QED
    BY <1>2, <2>2 DEF Passed
<1>3. CASE ~Due(e, m + 1)
  <2>1. D1 = D
    BY <1>3, ScheduleAssumption DEF DueFrom
  <2> QED
    BY <1>3, <2>1 DEF Passed
<1> QED
  BY <1>2, <1>3

LEMMA NthDueIs ==
  ASSUME NEW e, NEW from \in Nat, NEW s, NEW m \in Nat
  PROVE  m + 1 \in NthDue(e, from, s) <=>
           /\ from <= m /\ m + 1 <= MaxMinute /\ Due(e, m + 1)
           /\ Setup[e].every = 0 \/ Turn(e, s, Passed(e, from, m))
<1>1. {k \in DueFrom(e, from) : k < m + 1} = {k \in DueFrom(e, from) : k <= m}
  BY ScheduleAssumption DEF DueFrom
<1>2. m + 1 \in DueFrom(e, from) <=> from <= m /\ m + 1 <= MaxMinute /\ Due(e, m + 1)
  BY ScheduleAssumption DEF DueFrom
<1>3. NthDue(e, from, s) = {k \in DueFrom(e, from) :
                              \/ Setup[e].every = 0
                              \/ Turn(e, s, Cardinality({x \in DueFrom(e, from) : x < k}))}
  BY DEF NthDue, DueFrom, Turn
<1> QED
  BY <1>1, <1>2, <1>3 DEF Passed

LEMMA NthDueType ==
  ASSUME NEW e, NEW from \in Nat, NEW s
  PROVE  NthDue(e, from, s) \subseteq Nat /\ \A m \in NthDue(e, from, s) : m > from
BY ScheduleAssumption DEF NthDue

LEMMA OnCountStep ==
  ASSUME NEW e \in Events, Setup[e].every # 0, NEW c \in Nat, NEW s \in Nat, NEW d \in Nat,
         OnCount(e, c, s, d)
  PROVE  OnCount(e, IF c <= 1 THEN Setup[e].every ELSE c - 1, s, d + 1)
<1> DEFINE n == Setup[e].every
<1>1. n \in Nat \ {0}
  BY ScheduleAssumption
<1>2. CASE d < s
  <2>1. c = s + 1 - d /\ c > 1 /\ c - 1 = s + 1 - (d + 1)
    BY <1>2 DEF OnCount
  <2>2. CASE d + 1 < s
    BY <2>1, <2>2 DEF OnCount
  <2>3. CASE ~(d + 1 < s)
    <3>1. d + 1 = s /\ c - 1 = 1 /\ (d + 1) - s = 0
      BY <1>2, <2>1, <2>3
    <3>2. 0 % n = 0
      BY <1>1
    <3>3. ~(d + 1 < s) /\ ((d + 1) - s) % n = 0
      BY <2>3, <3>1, <3>2
    <3> QED
      BY <2>1, <3>1, <3>3 DEF OnCount
  <2> QED
    BY <2>2, <2>3
<1>3. CASE ~(d < s)
  <2> DEFINE r == (d - s) % n
             r1 == ((d + 1) - s) % n
  <2>0. d - s \in Nat /\ (d + 1) - s = (d - s) + 1 /\ ~(d + 1 < s)
    BY <1>3
  <2>1. r \in 0..(n - 1) /\ r1 = IF r = n - 1 THEN 0 ELSE r + 1
    BY <1>1, <2>0, Division, ModNext
  <2>2. (c <= 1 <=> r = 0) /\ (r # 0 => c = n + 1 - r)
    BY <1>3 DEF OnCount
  <2>3. SUFFICES LET c1 == IF c <= 1 THEN n ELSE c - 1
                 IN (c1 <= 1 <=> r1 = 0) /\ (r1 # 0 => c1 = n + 1 - r1)
    BY <2>0 DEF OnCount
  <2> HIDE DEF n, r, r1
  <2> QED
    BY <1>1, <2>1, <2>2
<1> QED
  BY <1>2, <1>3

LEMMA OnCountTurn ==
  ASSUME NEW e, NEW c \in Nat, NEW s \in Nat, NEW d \in Nat, OnCount(e, c, s, d)
  PROVE  c <= 1 <=> Turn(e, s, d)
<1>1. CASE d < s
  BY <1>1 DEF OnCount, Turn
<1>2. CASE ~(d < s)
  BY <1>2 DEF OnCount, Turn
<1> QED
  BY <1>1, <1>2

(* A counter that was just set. *)
LEMMA OnCountSet ==
  ASSUME NEW e \in Events, Setup[e].every # 0, NEW n \in Nat
  PROVE  OnCount(e, n, IF n <= 1 THEN 0 ELSE n - 1, 0)
<1>1. 0 % Setup[e].every = 0
  BY ScheduleAssumption
<1>2. CASE n <= 1
  BY <1>1, <1>2 DEF OnCount
<1>3. CASE ~(n <= 1)
  <2>1. 0 < n - 1 /\ n = (n - 1) + 1 - 0
    BY <1>3
  <2> QED
    BY <1>3, <2>1 DEF OnCount
<1> QED
  BY <1>2, <1>3

(* The counter keeps to the count as the cursor passes the minutes. *)
LEMMA CounterOnCount ==
  ASSUME NEW e \in Events, Cursor(e) \in Nat, state.nth[e] \in Nat, Setup[e].every # 0,
         NEW from \in Nat, from <= Cursor(e), NEW s \in Nat,
         OnCount(e, state.nth[e], s, Passed(e, from, Cursor(e)))
  PROVE  \A m \in Nat :
           Cursor(e) <= m /\ m <= MaxMinute => OnCount(e, Counter(e)[m], s, Passed(e, from, m))
<1> DEFINE Good(m) == Cursor(e) <= m /\ m <= MaxMinute => OnCount(e, Counter(e)[m], s, Passed(e, from, m))
           T == {m \in Nat : Good(m)}
<1>1. \A m \in Nat : /\ Counter(e)[m] \in Nat
                     /\ Counter(e)[m] = IF m <= Cursor(e) THEN state.nth[e]
                                        ELSE CountDown(e, m, Counter(e)[m - 1])
  BY CounterDefined
<1>2. Good(Cursor(e))
  BY <1>1
<1>3. 0 \in T
  <2>1. Cursor(e) <= 0 => Cursor(e) = 0
    OBVIOUS
  <2> HIDE DEF Good
  <2>2. Cursor(e) <= 0 => Good(0)
    BY <1>2, <2>1
  <2>3. ~(Cursor(e) <= 0) => Good(0)
    BY DEF Good
  <2> QED
    BY <2>2, <2>3
<1>4. ASSUME NEW m \in Nat, m \in T
      PROVE  m + 1 \in T
  <2>1. SUFFICES ASSUME Cursor(e) <= m + 1, m + 1 <= MaxMinute
                 PROVE  OnCount(e, Counter(e)[m + 1], s, Passed(e, from, m + 1))
    OBVIOUS
  <2>2. CASE Cursor(e) = m + 1
    <3> HIDE DEF Good
    <3>1. Good(m + 1)
      BY <1>2, <2>2
    <3> QED
      BY <2>1, <3>1 DEF Good
  <2>3. CASE Cursor(e) # m + 1
    <3>1. Cursor(e) <= m /\ m <= MaxMinute /\ from <= m /\ ~(m + 1 <= Cursor(e))
      BY <2>1, <2>3, ScheduleAssumption
    <3>2. OnCount(e, Counter(e)[m], s, Passed(e, from, m))
      BY <1>4, <3>1
    <3>3. PICK c \in Nat : c = Counter(e)[m]
      BY <1>1
    <3>4. Counter(e)[m + 1] = CountDown(e, m + 1, c)
      <4>1. m + 1 \in Nat /\ (m + 1) - 1 = m
        OBVIOUS
      <4> QED
        BY <1>1, <3>1, <3>3, <4>1
    <3>5. PICK d \in Nat : d = Passed(e, from, m)
      BY PassedType
    <3>6. CASE Due(e, m + 1)
      <4>1. Passed(e, from, m + 1) = d + 1
        BY <2>1, <3>1, <3>5, <3>6, PassedNext
      <4>2. CountDown(e, m + 1, c) = IF c <= 1 THEN Setup[e].every ELSE c - 1
        BY <3>6 DEF CountDown
      <4>3. OnCount(e, IF c <= 1 THEN Setup[e].every ELSE c - 1, s, d + 1)
        BY <3>2, <3>3, <3>5, OnCountStep
      <4> QED
        BY <3>4, <4>1, <4>2, <4>3
    <3>7. CASE ~Due(e, m + 1)
      <4>1. Passed(e, from, m + 1) = d
        BY <2>1, <3>1, <3>5, <3>7, PassedNext
      <4>2. CountDown(e, m + 1, c) = c
        BY <3>7 DEF CountDown
      <4> QED
        BY <3>2, <3>3, <3>4, <3>5, <4>1, <4>2
    <3> QED
      BY <3>6, <3>7
  <2> QED
    BY <2>2, <2>3
<1> HIDE DEF T
<1>5. Nat \subseteq T
  BY <1>3, <1>4, Inductive
<1> QED
  BY <1>5 DEF T

LEMMA PickedExact ==
  ASSUME NEW e \in Events, Cursor(e) \in Nat, state.nth[e] \in Nat,
         NEW from \in Nat, from <= Cursor(e), NEW s \in Nat,
         Setup[e].every # 0 => OnCount(e, state.nth[e], s, Passed(e, from, Cursor(e))),
         now \in Nat, now + 1 <= MaxMinute
  PROVE  \A m : m \in Picked(e) <=> m \in NthDue(e, from, s) /\ Cursor(e) < m /\ m <= now + 1
<1>1. ASSUME NEW n \in Nat, Cursor(e) <= n, n <= now
      PROVE  n + 1 \in Picked(e) <=> n + 1 \in NthDue(e, from, s)
  <2>1. n + 1 \in (Cursor(e) + 1)..(now + 1) /\ (n + 1) - 1 = n /\ from <= n /\ n + 1 <= MaxMinute
        /\ n <= MaxMinute
    BY <1>1, ScheduleAssumption
  <2>2. n + 1 \in Picked(e) <=> Due(e, n + 1) /\ (Setup[e].every = 0 \/ Counter(e)[n] <= 1)
    BY <2>1 DEF Picked
  <2>3. n + 1 \in NthDue(e, from, s) <=>
          Due(e, n + 1) /\ (Setup[e].every = 0 \/ Turn(e, s, Passed(e, from, n)))
    BY <2>1, NthDueIs
  <2>4. Setup[e].every # 0 => (Counter(e)[n] <= 1 <=> Turn(e, s, Passed(e, from, n)))
    <3>1. SUFFICES ASSUME Setup[e].every # 0
                   PROVE  Counter(e)[n] <= 1 <=> Turn(e, s, Passed(e, from, n))
      OBVIOUS
    <3>2. OnCount(e, Counter(e)[n], s, Passed(e, from, n))
      BY <1>1, <2>1, <3>1, CounterOnCount
    <3>3. Counter(e)[n] \in Nat /\ Passed(e, from, n) \in Nat
      BY CounterDefined, PassedType
    <3> QED
      BY <3>2, <3>3, OnCountTurn
  <2> QED
    BY <2>2, <2>3, <2>4
<1>2. ASSUME NEW m, m \in Picked(e)
      PROVE  m \in NthDue(e, from, s) /\ Cursor(e) < m /\ m <= now + 1
  <2>1. m \in (Cursor(e) + 1)..(now + 1)
    BY <1>2 DEF Picked
  <2>2. m - 1 \in Nat /\ Cursor(e) <= m - 1 /\ m - 1 <= now /\ m = (m - 1) + 1
    BY <2>1
  <2>3. m \in NthDue(e, from, s)
    BY <1>1, <1>2, <2>2
  <2> QED
    BY <2>1, <2>3
<1>3. ASSUME NEW m \in NthDue(e, from, s), Cursor(e) < m, m <= now + 1
      PROVE  m \in Picked(e)
  <2>1. m \in Nat
    BY NthDueType
  <2>2. m - 1 \in Nat /\ Cursor(e) <= m - 1 /\ m - 1 <= now /\ m = (m - 1) + 1
    BY <1>3, <2>1
  <2> QED
    BY <1>1, <1>3, <2>2
<1> QED
  BY <1>2, <1>3
-----------------------------------------------------------------------------
(* The invariant is kept. *)

LEMMA CursorTypes ==
  ASSUME TypeOK, NEW e \in Events
  PROVE  /\ now \in Nat /\ now >= 1 /\ now <= MaxMinute
         /\ state.cursor[e] \in Nat /\ state.nth[e] \in Nat /\ state.base[e] \in Nat
         /\ saved.cursor[e] \in Nat /\ saved.nth[e] \in Nat /\ saved.base[e] \in Nat
         /\ state.skip[e] \in Nat /\ saved.skip[e] \in Nat
         /\ since[e] \in Nat /\ scheduled[e] \subseteq Nat
<1>1. /\ state.cursor[e] \in 0..MaxMinute /\ state.nth[e] \in Nat
      /\ state.base[e] \in 0..MaxMinute /\ state.skip[e] \in Nat
  BY DEF TypeOK, State
<1>2. /\ saved.cursor[e] \in 0..MaxMinute /\ saved.nth[e] \in Nat
      /\ saved.base[e] \in 0..MaxMinute /\ saved.skip[e] \in Nat
  BY DEF TypeOK, State
<1>3. now \in Minutes /\ since[e] \in Minutes /\ scheduled[e] \in SUBSET Minutes
  BY DEF TypeOK
<1> QED
  BY <1>1, <1>2, <1>3, ScheduleAssumption DEF Minutes

(* What is said of an event to which nothing happens. *)
LEMMA SameEvent ==
  ASSUME NEW x, Accurate(x), Accounted(x), now' = now,
         state'.cursor[x] = state.cursor[x], state'.nth[x] = state.nth[x],
         state'.base[x] = state.base[x], state'.skip[x] = state.skip[x],
         saved' = saved, scheduled'[x] = scheduled[x], replay'[x] = replay[x],
         kept'[x] = kept[x], since'[x] = since[x],
         x \in unsaved' <=> x \in unsaved, x \in catchup' <=> x \in catchup
  PROVE  Accurate(x)' /\ Accounted(x)'
<1>1. CASE kept[x]
  <2>1. x \in catchup /\ Exact(state, x) /\ (x \notin unsaved => Exact(saved, x) /\ Linked(x))
    BY <1>1 DEF Accurate
  <2>2. Exact(state, x)'
    BY <2>1 DEF Exact, After, NthUpTo, Counted
  <2>3. Exact(saved, x) => Exact(saved, x)'
    BY DEF Exact, After, NthUpTo, Counted
  <2>4. Linked(x) => Linked(x)'
    BY DEF Linked
  <2> QED
    BY <2>1, <2>2, <2>3, <2>4 DEF Accurate, Accounted
<1>2. CASE ~kept[x]
  BY <1>2 DEF Accurate, Accounted
<1> QED
  BY <1>1, <1>2

(* A step that leaves the cursors and all they are about as they are. *)
LEMMA Undisturbed ==
  ASSUME Inv, UNCHANGED <<now, saved, scheduled, replay, kept, since, unsaved, catchup>>,
         state'.cursor = state.cursor, state'.nth = state.nth,
         state'.base = state.base, state'.skip = state.skip,
         conductor' = "down" => state' = saved'
  PROVE  Settled'
<1>1. Clocks'
  BY DEF Inv, Settled, Clocks, Timely
<1>2. ASSUME NEW x \in Events
      PROVE  Accurate(x)' /\ Accounted(x)'
  <2>1. Accurate(x) /\ Accounted(x)
    BY DEF Inv, Settled
  <2> QED
    BY <2>1, SameEvent
<1> QED
  BY <1>1, <1>2 DEF Settled

(* A cursor or a counter is set. *)
LEMMA SetStateKeeps ==
  ASSUME Inv, NEW e \in Events, NEW c \in 0..MaxMinute, NEW n \in Nat, SetState(e, c, n),
         now' = now, saved' = saved, conductor' = "up",
         \A x \in Events : x # e => (x \in catchup' <=> x \in catchup)
  PROVE  Settled'
<1>0. c \in Nat /\ now \in Nat /\ TypeOK
  BY CursorTypes DEF Inv
<1>1. \A x \in Events : x # e => /\ state'.cursor[x] = state.cursor[x] /\ state'.nth[x] = state.nth[x]
                                 /\ state'.base[x] = state.base[x] /\ state'.skip[x] = state.skip[x]
                                 /\ scheduled'[x] = scheduled[x] /\ replay'[x] = replay[x]
                                 /\ kept'[x] = kept[x] /\ since'[x] = since[x]
                                 /\ (x \in unsaved' <=> x \in unsaved)
  BY <1>0 DEF SetState, TypeOK, State
<1>2. /\ state'.cursor[e] = c /\ state'.nth[e] = n /\ state'.base[e] = c
      /\ state'.skip[e] = (IF n <= 1 THEN 0 ELSE n - 1)
  BY <1>0 DEF SetState, TypeOK, State
<1>3. /\ scheduled'[e] = {m \in scheduled[e] : c = 0 \/ m <= c}
      /\ (kept'[e] => e \in catchup') /\ since'[e] = (IF c = 0 THEN now ELSE c) /\ e \in unsaved'
  BY <1>0 DEF SetState, TypeOK
<1>4. Clocks'
  <2>1. ASSUME NEW x \in Events
        PROVE  Timely(state, x)' /\ Timely(saved, x)' /\ scheduled'[x] \subseteq 1..now'
    <3>1. Timely(state, x) /\ Timely(saved, x) /\ scheduled[x] \subseteq 1..now
      BY DEF Inv, Settled, Clocks
    <3>2. CASE x = e
      BY <1>0, <1>2, <1>3, <3>1, <3>2 DEF Timely
    <3>3. CASE x # e
      BY <1>1, <3>1, <3>3 DEF Timely
    <3> QED
      BY <3>2, <3>3
  <2> QED
    BY <2>1 DEF Clocks
<1>5. Counted(state, e, 0)'
  <2>1. Setup[e].every # 0 => OnCount(e, n, IF n <= 1 THEN 0 ELSE n - 1, 0)
    BY OnCountSet
  <2> QED
    BY <1>2, <2>1 DEF Counted
<1>6. Exact(state, e)'
  <2>1. CASE c = 0
    BY <1>0, <1>2, <1>3, <1>5, <2>1 DEF Exact
  <2>2. CASE c # 0
    <3> DEFINE s == state'.skip[e]
    <3>1. After(scheduled'[e], c) = {}
      <4>1. scheduled[e] \subseteq Nat
        BY <1>0, CursorTypes
      <4> QED
        BY <1>0, <1>3, <2>2, <4>1 DEF After
    <3>2. NthUpTo(e, c, s, c) = {}
      <4>1. NthDue(e, c, s) \subseteq Nat /\ \A m \in NthDue(e, c, s) : m > c
        BY <1>0, NthDueType
      <4> QED
        BY <1>0, <4>1 DEF NthUpTo
    <3>3. Passed(e, c, c) = 0
      BY <1>0, PassedNone
    <3>4. Counted(state, e, Passed(e, state.base[e], state.cursor[e]))'
      BY <1>2, <1>5, <3>3 DEF Counted
    <3>5. /\ state'.base[e] >= since'[e]
          /\ After(scheduled'[e], state'.base[e]) \subseteq NthDue(e, state'.base[e], state'.skip[e])
          /\ NthUpTo(e, state'.base[e], state'.skip[e], state'.cursor[e]) \subseteq scheduled'[e]
      BY <1>0, <1>2, <1>3, <2>2, <3>1, <3>2
    <3> QED
      BY <1>2, <2>2, <3>4, <3>5 DEF Exact, NthUpTo
  <2> QED
    BY <2>1, <2>2
<1>7. ASSUME NEW x \in Events
      PROVE  Accurate(x)' /\ Accounted(x)'
  <2>1. CASE x = e
    <3>1. Accurate(e)'
      BY <1>3, <1>6 DEF Accurate
    <3>2. Accounted(e)'
      <4>1. scheduled[e] \subseteq Nat
        BY <1>0, CursorTypes
      <4>2. c # 0 => \A m \in scheduled'[e] : ~(m > c)
        BY <1>0, <1>3, <4>1
      <4> QED
        BY <1>2, <4>2 DEF Accounted
    <3> QED
      BY <2>1, <3>1, <3>2
  <2>2. CASE x # e
    <3>1. Accurate(x) /\ Accounted(x)
      BY DEF Inv, Settled
    <3> QED
      BY <1>1, <2>2, <3>1, SameEvent
  <2> QED
    BY <2>1, <2>2
<1> QED
  BY <1>4, <1>7 DEF Settled

LEMMA QueueStepsKeep ==
  ASSUME Inv, StartupCheck \/ PluginReturns \/ DequeueLaunch \/ Shutdown \/ BecomeMaster
  PROVE  Settled'
<1>1. CASE StartupCheck
  BY <1>1, Undisturbed DEF StartupCheck, ghosts, events, Master
<1>2. CASE PluginReturns
  BY <1>2, Undisturbed DEF PluginReturns, ghosts, events, Master
<1>3. CASE DequeueLaunch
  BY <1>3, Undisturbed DEF DequeueLaunch, ghosts, events, Master
<1>4. CASE Shutdown
  BY <1>4, Undisturbed DEF Shutdown, ghosts, events, Master
<1>5. CASE BecomeMaster
  <2>1. state' = state /\ conductor' = "up"
    BY <1>5 DEF BecomeMaster, Inv, Settled, Clocks
  <2> QED
    BY <1>5, <2>1, Undisturbed DEF BecomeMaster, ghosts, events
<1> QED
  BY <1>1, <1>2, <1>3, <1>4, <1>5

LEMMA UpdateGlobalStateKeeps ==
  ASSUME Inv, UpdateGlobalState
  PROVE  Settled'
<1>1. conductor' = "up" /\ UNCHANGED <<now, saved, catchup>> /\ TypeOK
  BY DEF UpdateGlobalState, Change, Master, events, Inv
<1>2. CASE state' = [state EXCEPT !.enabled = ~@] /\ UNCHANGED ghosts
  <2>1. /\ state'.cursor = state.cursor /\ state'.nth = state.nth
        /\ state'.base = state.base /\ state'.skip = state.skip
    BY <1>1, <1>2 DEF TypeOK, State
  <2> QED
    BY <1>1, <1>2, <2>1, Undisturbed DEF ghosts
<1>3. ASSUME NEW e \in Editable, SetSome(e)
      PROVE  Settled'
  <2>1. e \in Events
    BY ScheduleAssumption
  <2>2. PICK c \in 0..MaxMinute, n \in Nat : SetState(e, c, n)
    BY <1>1, <1>3, <2>1, SetSomeIs
  <2> QED
    BY <1>1, <2>1, <2>2, SetStateKeeps
<1> QED
  BY <1>2, <1>3 DEF UpdateGlobalState

(* The state in memory becomes what is stored. *)
LEMMA SavesKeep ==
  ASSUME Inv, SaveState \/ Exit
  PROVE  Settled'
<1>1. /\ saved' = state /\ state' = state /\ unsaved' = {}
      /\ UNCHANGED <<now, scheduled, replay, kept, since, catchup>>
      /\ conductor' = "down" => conductor # "down"
  BY DEF SaveState, Exit, events
<1>2. Clocks'
  BY <1>1 DEF Inv, Settled, Clocks, Timely
<1>3. ASSUME NEW x \in Events
      PROVE  Accurate(x)' /\ Accounted(x)'
  <2>1. Accurate(x) /\ Accounted(x)
    BY DEF Inv, Settled
  <2>2. Exact(state, x) => Exact(state, x)' /\ Exact(saved, x)'
    BY <1>1 DEF Exact, After, NthUpTo, Counted
  <2>3. Linked(x)'
    BY <1>1 DEF Linked
  <2>4. Accurate(x)'
    BY <1>1, <2>1, <2>2, <2>3 DEF Accurate
  <2>5. Accounted(x)'
    BY <1>1, <2>1 DEF Accounted
  <2> QED
    BY <2>4, <2>5
<1> QED
  BY <1>2, <1>3 DEF Settled

(* What is stored becomes the state in memory. *)
LEMMA CrashKeeps ==
  ASSUME Inv, Crash
  PROVE  Settled'
<1>1. /\ state' = saved /\ saved' = saved
      /\ UNCHANGED <<now, scheduled, since, unsaved, catchup>>
  BY DEF Crash, events
<1>2. Clocks'
  BY <1>1 DEF Inv, Settled, Clocks, Timely
<1>3. ASSUME NEW x \in Events
      PROVE  Accurate(x)' /\ Accounted(x)'
  <2>1. kept'[x] => kept[x] /\ x \notin unsaved
    BY DEF Crash
  <2>2. Accurate(x)
    BY DEF Inv, Settled
  <2>3. Exact(saved, x) => Exact(state, x)' /\ Exact(saved, x)'
    BY <1>1 DEF Exact, After, NthUpTo, Counted
  <2>4. Linked(x)'
    BY <1>1 DEF Linked
  <2>5. Accurate(x)'
    BY <1>1, <2>1, <2>2, <2>3, <2>4 DEF Accurate
  <2>6. replay'[x] = IF saved.cursor[x] = 0 THEN replay[x]
                     ELSE replay[x] \cup {k \in scheduled[x] : k > saved.cursor[x]}
    BY DEF Crash
  <2>7. Accounted(x)'
    BY <1>1, <2>6 DEF Accounted
  <2> QED
    BY <2>5, <2>7
<1> QED
  BY <1>2, <1>3 DEF Settled

LEMMA CreateEventKeeps ==
  ASSUME Inv, NEW e \in Events, CreateEvent(e)
  PROVE  Settled'
<1>1. now' = now /\ saved' = saved /\ conductor' = "up"
  BY DEF CreateEvent, Change, Master
<1>2. \A x \in Events : x # e => (x \in catchup' <=> x \in catchup)
  BY DEF CreateEvent
<1>3. PICK c \in 0..MaxMinute, n \in Nat : SetState(e, c, n)
  BY CreatedIs
<1> QED
  BY <1>1, <1>2, <1>3, SetStateKeeps

LEMMA DeleteEventKeeps ==
  ASSUME Inv, NEW e \in Events, DeleteEvent(e)
  PROVE  Settled'
<1>1. UNCHANGED <<now, saved, catchup>> /\ conductor' = "up"
  BY DEF DeleteEvent, Change, Master
<1>2. 0 \in 0..MaxMinute /\ 0 \in Nat /\ SetState(e, 0, 0)
  BY ScheduleAssumption DEF DeleteEvent
<1> QED
  BY <1>1, <1>2, SetStateKeeps

LEMMA UpdateEventKeeps ==
  ASSUME Inv, NEW e \in Events, UpdateEvent(e)
  PROVE  Settled'
<1>1. UNCHANGED <<now, saved>> /\ conductor' = "up" /\ TypeOK
  BY DEF UpdateEvent, Change, Master, Inv
<1>2. CASE UNCHANGED <<catchup, state, ghosts>>
  BY <1>1, <1>2, Undisturbed DEF ghosts
<1>3. CASE /\ catchup' = SymDiff(catchup, {e}) /\ kept' = [kept EXCEPT ![e] = FALSE]
           /\ UNCHANGED <<enabled, state, scheduled, replay, since, unsaved>>
  <2>1. Clocks'
    BY <1>1, <1>3 DEF Inv, Settled, Clocks, Timely
  <2>2. ASSUME NEW x \in Events
        PROVE  Accurate(x)' /\ Accounted(x)'
    <3>1. Accurate(x) /\ Accounted(x)
      BY DEF Inv, Settled
    <3>2. CASE x = e
      <4>1. ~kept'[x]
        BY <1>1, <1>3, <3>2 DEF TypeOK
      <4> QED
        BY <1>3, <3>1, <4>1 DEF Accurate, Accounted
    <3>3. CASE x # e
      <4>1. kept'[x] = kept[x] /\ (x \in catchup' <=> x \in catchup)
        BY <1>1, <1>3, <3>3 DEF TypeOK, SymDiff
      <4> QED
        BY <1>1, <1>3, <3>1, <4>1, SameEvent
    <3> QED
      BY <3>2, <3>3
  <2> QED
    BY <2>1, <2>2 DEF Settled
<1>4. CASE UNCHANGED <<enabled, catchup>> /\ SetSome(e)
  <2>1. PICK c \in 0..MaxMinute, n \in Nat : SetState(e, c, n)
    BY <1>1, <1>4, SetSomeIs
  <2> QED
    BY <1>1, <1>4, <2>1, SetStateKeeps
<1> QED
  BY <1>2, <1>3, <1>4 DEF UpdateEvent

-----------------------------------------------------------------------------
(* The tick keeps the invariant. *)

(* What the tick picks completes what is scheduled; a cursor ahead of the clock stays. *)
Reached(e) == IF Cursor(e) <= now THEN now + 1 ELSE Cursor(e)
LEMMA Advance ==
  ASSUME TypeOK, NEW e \in Events, now + 1 <= MaxMinute,
         NEW from \in Nat, from <= Cursor(e), NEW s \in Nat,
         Setup[e].every # 0 => OnCount(e, state.nth[e], s, Passed(e, from, Cursor(e))),
         After(scheduled[e], from) \subseteq NthDue(e, from, s),
         NthUpTo(e, from, s, Cursor(e)) \subseteq scheduled[e],
         scheduled'[e] = scheduled[e] \cup Picked(e)
  PROVE  /\ After(scheduled'[e], from) \subseteq NthDue(e, from, s)
         /\ NthUpTo(e, from, s, Reached(e)) \subseteq scheduled'[e]
         /\ Setup[e].every # 0 =>
              OnCount(e, Counter(e)[now + 1], s, Passed(e, from, Reached(e)))
<1>1. now \in Nat /\ now + 1 \in Nat /\ Cursor(e) \in Nat /\ state.nth[e] \in Nat /\ Reached(e) \in Nat
  BY CursorTypes, CursorType DEF Reached
<1>2. \A m : m \in Picked(e) <=> m \in NthDue(e, from, s) /\ Cursor(e) < m /\ m <= now + 1
  BY <1>1, PickedExact
<1>3. After(scheduled'[e], from) \subseteq NthDue(e, from, s)
  BY <1>2 DEF After
<1>4. ASSUME NEW k \in NthUpTo(e, from, s, Reached(e))
      PROVE  k \in scheduled'[e]
  <2>1. k \in NthDue(e, from, s) /\ k <= Reached(e) /\ k \in Nat
    BY NthDueType DEF NthUpTo
  <2>2. CASE k <= Cursor(e)
    BY <2>1, <2>2 DEF NthUpTo
  <2>3. CASE ~(k <= Cursor(e))
    <3>1. k <= now + 1 /\ Cursor(e) < k
      BY <1>1, <2>1, <2>3 DEF Reached
    <3>2. k \in Picked(e)
      BY <1>2, <2>1, <3>1
    <3> QED
      BY <3>2
  <2> QED
    BY <2>2, <2>3
<1>5. ASSUME Setup[e].every # 0
      PROVE  OnCount(e, Counter(e)[now + 1], s, Passed(e, from, Reached(e)))
  <2>1. CASE Cursor(e) <= now
    <3>1. Reached(e) = now + 1 /\ Cursor(e) <= now + 1
      BY <1>1, <2>1 DEF Reached
    <3>2. OnCount(e, Counter(e)[now + 1], s, Passed(e, from, now + 1))
      BY <1>1, <1>5, <3>1, CounterOnCount
    <3> QED
      BY <3>1, <3>2
  <2>2. CASE ~(Cursor(e) <= now)
    <3>1. Reached(e) = Cursor(e) /\ now + 1 <= Cursor(e)
      BY <1>1, <2>2 DEF Reached
    <3>2. Counter(e)[now + 1] = state.nth[e]
      BY <1>1, <3>1, CounterDefined
    <3> QED
      BY <1>5, <3>1, <3>2
  <2> QED
    BY <2>1, <2>2
<1> QED
  BY <1>3, <1>4, <1>5

(* What the tick does to one event. *)
Catching(e) == Runs(e) /\ e \in catchup
LEMMA TickDoes ==
  ASSUME TypeOK, SchedulerMinuteTick, NEW e \in Events
  PROVE  /\ state'.cursor[e] = IF Catching(e) THEN Reached(e) ELSE state.cursor[e]
         /\ state'.nth[e] = IF Runs(e) /\ Setup[e].every # 0 THEN Counter(e)[now + 1] ELSE state.nth[e]
         /\ state'.base[e] = IF Catching(e) /\ state.cursor[e] = 0 THEN now ELSE state.base[e]
         /\ state'.skip[e] = state.skip[e]
         /\ scheduled'[e] = IF Runs(e) THEN scheduled[e] \cup Picked(e) ELSE scheduled[e]
         /\ replay[e] \subseteq replay'[e] \cup (IF Runs(e) THEN Picked(e) ELSE {})
         /\ Runs(e) => \A m \in Picked(e) : LeftBehind(e, m) => m \in replay'[e]
         /\ ~Runs(e) => replay'[e] = replay[e]
<1>1. /\ state'.cursor[e] = Ticked(e).cursor
      /\ state'.nth[e] = Ticked(e).nth
      /\ state'.base[e] = Ticked(e).base
      /\ state'.skip[e] = state.skip[e]
  BY DEF SchedulerMinuteTick, TypeOK, State
<1>2. scheduled'[e] = scheduled[e] \cup (IF Runs(e) THEN Picked(e) ELSE {})
  BY DEF SchedulerMinuteTick
<1>3. replay'[e] = (replay[e] \ (IF Runs(e) THEN Picked(e) ELSE {}))
                      \cup {m \in (IF Runs(e) THEN Picked(e) ELSE {}) : LeftBehind(e, m)}
  BY DEF SchedulerMinuteTick
<1>4. Ticked(e).cursor = IF Catching(e) THEN Reached(e) ELSE state.cursor[e]
  <2>1. now \in Nat /\ Cursor(e) \in Nat
    BY CursorTypes, CursorType
  <2>2. Catching(e) /\ ~(Cursor(e) <= now) => Cursor(e) = state.cursor[e]
    BY <2>1 DEF Cursor, Catching
  <2> QED
    BY <2>2 DEF Ticked, Catching, Reached
<1> QED
  BY <1>1, <1>2, <1>3, <1>4 DEF Ticked, Catching

(* The base of a cursor that catches up, and what it stands for. *)
LEMMA CatchesUp ==
  ASSUME Inv, SchedulerMinuteTick, now + 1 <= MaxMinute, NEW e \in Events, Catching(e), kept[e]
  PROVE  /\ After(scheduled'[e], state'.base[e]) \subseteq NthDue(e, state'.base[e], state.skip[e])
         /\ NthUpTo(e, state'.base[e], state.skip[e], Reached(e)) \subseteq scheduled'[e]
         /\ Setup[e].every # 0 =>
              OnCount(e, state'.nth[e], state.skip[e], Passed(e, state'.base[e], Reached(e)))
         /\ state'.base[e] >= since[e]
<1>0. /\ TypeOK /\ Runs(e) /\ e \in catchup /\ now \in Nat
      /\ state.cursor[e] \in Nat /\ state.base[e] \in Nat /\ since[e] \in Nat
      /\ state.skip[e] \in Nat
  BY CursorTypes DEF Inv, Catching
<1>1. /\ scheduled'[e] = scheduled[e] \cup Picked(e)
      /\ Setup[e].every # 0 => state'.nth[e] = Counter(e)[now + 1]
      /\ state'.base[e] = IF state.cursor[e] = 0 THEN now ELSE state.base[e]
  BY <1>0, TickDoes
<1>2. PICK from \in Nat : from = state'.base[e]
  BY <1>0, <1>1
<1>3. PICK s \in Nat : s = state.skip[e]
  BY <1>0
<1>4. /\ from <= Cursor(e) /\ from >= since[e]
      /\ Setup[e].every # 0 => OnCount(e, state.nth[e], s, Passed(e, from, Cursor(e)))
      /\ After(scheduled[e], from) \subseteq NthDue(e, from, s)
      /\ NthUpTo(e, from, s, Cursor(e)) \subseteq scheduled[e]
  <2>0. Exact(state, e) /\ Timely(state, e) /\ scheduled[e] \subseteq 1..now
    BY DEF Inv, Settled, Accurate, Clocks
  <2>1. CASE state.cursor[e] = 0
    <3>1. from = now /\ Cursor(e) = now /\ since[e] <= now /\ Counted(state, e, 0)
      BY <1>0, <1>1, <1>2, <2>0, <2>1 DEF Cursor, Exact
    <3>2. Passed(e, now, now) = 0
      BY <1>0, PassedNone
    <3>3. After(scheduled[e], from) = {}
      BY <1>0, <2>0, <3>1 DEF After
    <3>4. NthUpTo(e, from, s, Cursor(e)) = {}
      BY <1>0, <3>1, NthDueType DEF NthUpTo
    <3> QED
      BY <1>0, <1>3, <3>1, <3>2, <3>3, <3>4 DEF Counted
  <2>2. CASE state.cursor[e] # 0
    <3>1. from = state.base[e] /\ Cursor(e) = state.cursor[e]
      BY <1>0, <1>1, <1>2, <2>2 DEF Cursor
    <3>2. state.base[e] <= state.cursor[e]
      BY <2>0, <2>2 DEF Timely
    <3>3. /\ state.base[e] >= since[e]
          /\ After(scheduled[e], state.base[e]) \subseteq NthDue(e, state.base[e], state.skip[e])
          /\ NthUpTo(e, state.base[e], state.skip[e], state.cursor[e]) \subseteq scheduled[e]
          /\ Counted(state, e, Passed(e, state.base[e], state.cursor[e]))
      BY <2>0, <2>2 DEF Exact
    <3> QED
      BY <1>3, <3>1, <3>2, <3>3 DEF Counted
  <2> QED
    BY <2>1, <2>2
<1>5. /\ After(scheduled'[e], from) \subseteq NthDue(e, from, s)
      /\ NthUpTo(e, from, s, Reached(e)) \subseteq scheduled'[e]
      /\ Setup[e].every # 0 => OnCount(e, Counter(e)[now + 1], s, Passed(e, from, Reached(e)))
  BY <1>0, <1>1, <1>4, Advance
<1> QED
  BY <1>1, <1>2, <1>3, <1>4, <1>5

LEMMA TickAccurate ==
  ASSUME Inv, SchedulerMinuteTick, now + 1 <= MaxMinute, now' = now + 1,
         UNCHANGED <<saved, kept, since, unsaved, catchup>>, NEW e \in Events
  PROVE  Accurate(e)'
<1>0. /\ TypeOK /\ now \in Nat /\ state.cursor[e] \in Nat /\ state.base[e] \in Nat
      /\ saved.cursor[e] \in Nat /\ saved.base[e] \in Nat /\ since[e] \in Nat /\ Cursor(e) \in Nat
  BY CursorTypes, CursorType DEF Inv
<1>1. /\ state'.cursor[e] = IF Catching(e) THEN Reached(e) ELSE state.cursor[e]
      /\ state'.base[e] = IF Catching(e) /\ state.cursor[e] = 0 THEN now ELSE state.base[e]
      /\ state'.skip[e] = state.skip[e]
      /\ ~Runs(e) => state'.nth[e] = state.nth[e] /\ scheduled'[e] = scheduled[e]
      /\ scheduled[e] \subseteq scheduled'[e]
  BY <1>0, TickDoes
<1>2. Accurate(e)
  BY DEF Inv, Settled
<1>3. CASE ~kept[e]
  BY <1>3 DEF Accurate
<1>4. CASE kept[e] /\ Catching(e)
  <2>0. /\ e \in catchup /\ Exact(state, e)
        /\ e \notin unsaved => Exact(saved, e) /\ Linked(e)
    BY <1>2, <1>4 DEF Accurate
  <2>1. /\ After(scheduled'[e], state'.base[e]) \subseteq NthDue(e, state'.base[e], state.skip[e])
        /\ NthUpTo(e, state'.base[e], state.skip[e], Reached(e)) \subseteq scheduled'[e]
        /\ Setup[e].every # 0 =>
             OnCount(e, state'.nth[e], state.skip[e], Passed(e, state'.base[e], Reached(e)))
        /\ state'.base[e] >= since[e]
    BY <1>4, CatchesUp
  <2>2. state'.cursor[e] = Reached(e) /\ Reached(e) # 0
    BY <1>0, <1>1, <1>4 DEF Reached
  <2>3. Exact(state, e)'
    <3>1. Counted(state, e, Passed(e, state.base[e], state.cursor[e]))'
      BY <1>1, <2>1, <2>2 DEF Counted
    <3>2. /\ state'.base[e] >= since'[e]
          /\ After(scheduled'[e], state'.base[e]) \subseteq NthDue(e, state'.base[e], state'.skip[e])
          /\ NthUpTo(e, state'.base[e], state'.skip[e], state'.cursor[e]) \subseteq scheduled'[e]
      BY <1>1, <2>1, <2>2
    <3> QED
      BY <2>2, <3>1, <3>2 DEF Exact, NthUpTo
  <2>4. ASSUME e \notin unsaved
        PROVE  Exact(saved, e)' /\ Linked(e)'
    <3>1. Exact(saved, e) /\ Linked(e)
      BY <2>0, <2>4
    <3>2. Linked(e)'
      BY <1>1, <2>2, <3>1 DEF Linked
    <3>3. CASE saved.cursor[e] = 0
      <4>1. since[e] <= now /\ Counted(saved, e, 0)
        BY <3>1, <3>3 DEF Exact
      <4> QED
        BY <1>0, <3>2, <3>3, <4>1 DEF Exact, Counted
    <3>4. CASE saved.cursor[e] # 0
      <4>1. saved.base[e] = state'.base[e] /\ saved.skip[e] = state.skip[e]
        BY <1>1, <3>1, <3>4 DEF Linked
      <4>2. After(scheduled'[e], saved.base[e]) \subseteq NthDue(e, saved.base[e], saved.skip[e])
        BY <2>1, <4>1
      <4>3. /\ saved.base[e] >= since[e]
            /\ NthUpTo(e, saved.base[e], saved.skip[e], saved.cursor[e]) \subseteq scheduled'[e]
            /\ Counted(saved, e, Passed(e, saved.base[e], saved.cursor[e]))
        BY <1>1, <3>1, <3>4 DEF Exact
      <4>4. Exact(saved, e)'
        BY <3>4, <4>2, <4>3 DEF Exact, NthUpTo, Counted
      <4> QED
        BY <3>2, <4>4
    <3> QED
      BY <3>3, <3>4
  <2> QED
    BY <2>0, <2>3, <2>4 DEF Accurate
<1>5. CASE kept[e] /\ ~Catching(e)
  <2>0. /\ e \in catchup /\ Exact(state, e)
        /\ e \notin unsaved => Exact(saved, e) /\ Linked(e)
    BY <1>2, <1>5 DEF Accurate
  <2>1. ~Runs(e)
    BY <1>5, <2>0 DEF Catching
  <2>2. /\ state'.cursor[e] = state.cursor[e] /\ state'.base[e] = state.base[e]
        /\ state'.nth[e] = state.nth[e] /\ state'.skip[e] = state.skip[e] /\ scheduled'[e] = scheduled[e]
    BY <1>1, <1>5, <2>1
  <2>3. since[e] <= now => since[e] <= now'
    BY <1>0
  <2>4. Exact(state, e)' /\ (Exact(saved, e) => Exact(saved, e)')
    BY <2>0, <2>2, <2>3 DEF Exact, After, NthUpTo, Counted
  <2>5. Linked(e) => Linked(e)'
    BY <2>2 DEF Linked
  <2> QED
    BY <2>0, <2>4, <2>5 DEF Accurate
<1> QED
  BY <1>3, <1>4, <1>5

LEMMA MinuteKeeps ==
  ASSUME Inv, Minute
  PROVE  Settled'
<1>1. /\ TypeOK /\ now \in Nat /\ now' = now + 1 /\ now + 1 <= MaxMinute
      /\ UNCHANGED <<conductor, saved, kept, since, unsaved, catchup>>
  <2>1. TypeOK /\ now < MaxMinute /\ now' = now + 1
    BY DEF Inv, Minute
  <2>2. now \in Nat /\ now + 1 <= MaxMinute
    BY <2>1, ScheduleAssumption DEF TypeOK, Minutes
  <2>3. UNCHANGED <<conductor, saved, kept, since, unsaved, catchup>>
    BY DEF Minute, events
  <2> QED
    BY <2>1, <2>2, <2>3
<1>2. CASE Master /\ state.enabled
  <2>1. SchedulerMinuteTick /\ conductor # "down"
    BY <1>2 DEF Minute, Master
  <2>2. ASSUME NEW e \in Events
        PROVE  (Timely(state, e) /\ Timely(saved, e))' /\ scheduled'[e] \subseteq 1..(now + 1)
    <3>1. /\ state.cursor[e] \in Nat /\ state.base[e] \in Nat /\ saved.cursor[e] \in Nat
          /\ saved.base[e] \in Nat /\ Cursor(e) \in Nat
      BY <1>1, CursorTypes, CursorType
    <3>2. Timely(state, e) /\ Timely(saved, e) /\ scheduled[e] \subseteq 1..now
      BY DEF Inv, Settled, Clocks
    <3>3. /\ state'.cursor[e] = IF Catching(e) THEN Reached(e) ELSE state.cursor[e]
          /\ state'.base[e] = IF Catching(e) /\ state.cursor[e] = 0 THEN now ELSE state.base[e]
          /\ scheduled'[e] \subseteq scheduled[e] \cup Picked(e)
      BY <1>1, <2>1, TickDoes
    <3>4. Picked(e) \subseteq 1..(now + 1)
      BY <1>1, <3>1, PickedType, ScheduleAssumption
    <3>5. Timely(state, e)'
      <4>1. CASE Catching(e)
        <5>1. Cursor(e) = (IF state.cursor[e] # 0 THEN state.cursor[e] ELSE now)
          BY <4>1 DEF Catching, Cursor
        <5>2. Reached(e) >= now + 1 /\ Reached(e) >= Cursor(e) /\ Reached(e) \in Nat
          BY <1>1, <3>1 DEF Reached
        <5> QED
          BY <1>1, <3>1, <3>2, <3>3, <4>1, <5>1, <5>2 DEF Timely
      <4>2. CASE ~Catching(e)
        BY <3>2, <3>3, <4>2 DEF Timely
      <4> QED
        BY <4>1, <4>2
    <3>6. Timely(saved, e)'
      BY <1>1, <3>2 DEF Timely
    <3> QED
      BY <1>1, <3>1, <3>2, <3>3, <3>4, <3>5, <3>6
  <2>3. Clocks'
    BY <1>1, <2>1, <2>2 DEF Clocks
  <2>4. \A e \in Events : Accurate(e)'
    BY <1>1, <2>1, TickAccurate
  <2>5. ASSUME NEW e \in Events
        PROVE  Accounted(e)'
    <3>0. SUFFICES ASSUME state'.cursor[e] # 0, NEW m \in scheduled'[e], m > state'.cursor[e]
                   PROVE  m \in replay'[e]
      BY DEF Accounted
    <3>1. m <= now + 1 /\ m \in Nat /\ state.cursor[e] \in Nat /\ Cursor(e) \in Nat
      BY <1>1, <2>2, CursorTypes, CursorType
    <3>2. /\ state'.cursor[e] = IF Catching(e) THEN Reached(e) ELSE state.cursor[e]
          /\ scheduled'[e] = IF Runs(e) THEN scheduled[e] \cup Picked(e) ELSE scheduled[e]
          /\ replay[e] \subseteq replay'[e] \cup (IF Runs(e) THEN Picked(e) ELSE {})
          /\ Runs(e) => \A k \in Picked(e) : LeftBehind(e, k) => k \in replay'[e]
          /\ ~Runs(e) => replay'[e] = replay[e]
      BY <1>1, <2>1, TickDoes
    <3>3. ~Catching(e) /\ state.cursor[e] # 0 /\ m > state.cursor[e]
      <4>1. Reached(e) >= now + 1 /\ Reached(e) \in Nat
        BY <1>1, <3>1 DEF Reached
      <4> QED
        BY <1>1, <3>0, <3>1, <3>2, <4>1
    <3>4. m \in scheduled[e] => m \in replay[e]
      BY <3>3 DEF Inv, Settled, Accounted
    <3>5. Runs(e) => LeftBehind(e, m)
      BY <3>3 DEF LeftBehind, Catching
    <3> QED
      BY <3>0, <3>2, <3>4, <3>5
  <2> QED
    BY <2>3, <2>4, <2>5 DEF Settled
<1>3. CASE ~(Master /\ state.enabled)
  <2>1. UNCHANGED <<state, scheduled, replay>>
    BY <1>3 DEF Minute
  <2>2. Clocks'
    <3>1. ASSUME NEW e \in Events
          PROVE  (Timely(state, e) /\ Timely(saved, e))' /\ scheduled'[e] \subseteq 1..(now + 1)
      <4>1. Timely(state, e) /\ Timely(saved, e) /\ scheduled[e] \subseteq 1..now
        BY DEF Inv, Settled, Clocks
      <4> QED
        BY <1>1, <2>1, <4>1 DEF Timely
    <3> QED
      BY <1>1, <2>1, <3>1 DEF Clocks, Inv, Settled
  <2>3. ASSUME NEW e \in Events
        PROVE  (Accurate(e) /\ Accounted(e))'
    <3>1. Accurate(e) /\ Accounted(e)
      BY DEF Inv, Settled
    <3>2. since[e] \in Nat /\ (since[e] <= now => since[e] <= now')
      BY <1>1, CursorTypes
    <3>3. /\ Exact(state, e) => Exact(state, e)'
          /\ Exact(saved, e) => Exact(saved, e)'
      BY <1>1, <2>1, <3>2 DEF Exact, After, NthUpTo, Counted
    <3> QED
      BY <1>1, <2>1, <3>1, <3>3 DEF Accurate, Accounted, Linked
  <2> QED
    BY <2>2, <2>3 DEF Settled
<1> QED
  BY <1>2, <1>3

LEMMA InvInit ==
  ASSUME Init
  PROVE  Inv
<1>1. TypeOK
  BY TypeInit
<1>2. \A e \in Events : /\ state.cursor[e] = 0 /\ state.nth[e] = 0 /\ state.skip[e] = 0
                        /\ scheduled[e] = {} /\ since[e] = 1 /\ e \in catchup
  BY DEF Init
<1>3. saved = state /\ now = 1
  BY DEF Init
<1>4. Clocks
  BY <1>2, <1>3 DEF Clocks, Timely
<1>5. ASSUME NEW e \in Events
      PROVE  Accurate(e) /\ Accounted(e)
  <2>1. Setup[e].every # 0 => OnCount(e, 0, 0, 0)
    <3>1. Setup[e].every # 0 => OnCount(e, 0, IF 0 <= 1 THEN 0 ELSE 0 - 1, 0)
      BY OnCountSet
    <3> QED
      BY <3>1
  <2>2. Exact(state, e)
    BY <1>2, <1>3, <2>1 DEF Exact, Counted
  <2> QED
    BY <1>2, <1>3, <2>2 DEF Accurate, Accounted, Linked
<1> QED
  BY <1>1, <1>4, <1>5 DEF Inv, Settled

LEMMA InvStep ==
  ASSUME Inv, [Next]_vars
  PROVE  Inv'
<1>1. TypeOK'
  BY TypeStep DEF Inv
<1>2. CASE UNCHANGED vars
  <2>1. conductor' = "down" => state' = saved'
    BY <1>2 DEF Inv, Settled, Clocks, vars
  <2>2. /\ UNCHANGED <<now, saved, scheduled, replay, kept, since, unsaved, catchup>>
        /\ state'.cursor = state.cursor /\ state'.nth = state.nth
        /\ state'.base = state.base /\ state'.skip = state.skip
    BY <1>2 DEF vars, ghosts, events
  <2> QED
    BY <1>1, <2>1, <2>2, Undisturbed DEF Inv
<1>3. CASE Next
  <2>1. \A e \in Editable : e \in Events
    BY ScheduleAssumption
  <2>2. Settled'
    BY <1>3, <2>1, MinuteKeeps, QueueStepsKeep, SavesKeep, CrashKeeps, UpdateGlobalStateKeeps,
       CreateEventKeeps, UpdateEventKeeps, DeleteEventKeeps DEF Next
  <2> QED
    BY <1>1, <2>2 DEF Inv
<1> QED
  BY <1>2, <1>3

-----------------------------------------------------------------------------
(* The results. *)

(* The types of the variables hold in every state of Schedule.             *)
THEOREM ScheduleTypeCorrect == Spec => []TypeOK
<1>1. Init => TypeOK
  BY TypeInit
<1>2. TypeOK /\ [Next]_vars => TypeOK'
  BY TypeStep
<1> QED
  BY <1>1, <1>2, PTL DEF Spec

LEMMA InvCorrect == Spec => []Inv
<1>1. Init => Inv
  BY InvInit
<1>2. Inv /\ [Next]_vars => Inv'
  BY InvStep
<1> QED
  BY <1>1, <1>2, PTL DEF Spec

(* Catch-up leaves no due minute out and adds none, for every set of events, *)
(* triggers and Nth rules, over any number of stops, crashes and changes,  *)
(* users setting the cursor and the counter among them.                    *)
THEOREM CatchUpExactCorrect == Spec => []CatchUpExact
<1>1. Inv => CatchUpExact
  <2>1. SUFFICES ASSUME Inv, NEW e \in Events, kept[e], state.cursor[e] # 0
                 PROVE  LET due == NthDue(e, state.base[e], state.skip[e])
                        IN /\ state.base[e] >= since[e]
                           /\ {m \in scheduled[e] : m > state.base[e]} \subseteq due
                           /\ {m \in due : m <= state.cursor[e]} \subseteq scheduled[e]
    BY DEF CatchUpExact
  <2>2. Exact(state, e)
    BY <2>1 DEF Inv, Settled, Accurate
  <2> QED
    BY <2>1, <2>2 DEF Exact, After, NthUpTo
<1> QED
  BY <1>1, InvCorrect, PTL

(* The jobs that a tick adds to the queue and hands to the plugins. *)
LEMMA AppendedAre ==
  ASSUME NEW s \in Seq(Job), NEW t \in Seq(Job)
  PROVE  {(s \o t)[i] : i \in (Len(s) + 1)..Len(s \o t)} = Range(t)
<1>1. /\ Len(s) \in Nat /\ Len(t) \in Nat /\ Len(s \o t) = Len(s) + Len(t) /\ DOMAIN t = 1..Len(t)
      /\ \A i \in 1..Len(t) : (s \o t)[Len(s) + i] = t[i]
  OBVIOUS
<1>2. ASSUME NEW i \in (Len(s) + 1)..(Len(s) + Len(t))
      PROVE  (s \o t)[i] \in Range(t)
  <2>1. i - Len(s) \in 1..Len(t) /\ Len(s) + (i - Len(s)) = i
    BY <1>1
  <2>2. (s \o t)[i] = t[i - Len(s)]
    BY <1>1, <2>1
  <2> QED
    BY <1>1, <2>1, <2>2 DEF Range
<1>3. ASSUME NEW x \in Range(t)
      PROVE  \E i \in (Len(s) + 1)..(Len(s) + Len(t)) : (s \o t)[i] = x
  <2>1. PICK k \in 1..Len(t) : t[k] = x
    BY <1>1, <1>3 DEF Range
  <2>2. Len(s) + k \in (Len(s) + 1)..(Len(s) + Len(t))
    BY <1>1
  <2> QED
    BY <1>1, <2>1, <2>2
<1> QED
  BY <1>1, <1>2, <1>3

LEMMA NewJobsAre ==
  ASSUME TypeOK, now + 1 <= MaxMinute, SchedulerMinuteTick
  PROVE  /\ \A x \in NewJobs : \E e \in Events : Runs(e) /\ Makes(e, x)
         /\ \A e \in Events : Runs(e) /\ ~Setup[e].plugin => \A x : Makes(e, x) => x \in NewJobs
<1> DEFINE W == {e \in {x \in Events : Runs(x)} : ~Setup[e].plugin}
           P == {e \in {x \in Events : Runs(x)} : Setup[e].plugin}
<1>1. now \in Nat /\ now + 1 \in 0..MaxMinute
  BY ScheduleAssumption DEF TypeOK, Minutes
<1>2. \A S \in SUBSET Events :
        /\ JobsOfEvents(S) \in Seq(Job)
        /\ \A x : x \in Range(JobsOfEvents(S)) <=> \E e \in S : Makes(e, x)
  BY <1>1, CursorType, JobsOfEventsAre
<1>3. W \in SUBSET Events /\ P \in SUBSET Events
  OBVIOUS
<1>4. /\ queue' = queue \o JobsOfEvents(W)
      /\ deferred' = IF JobsOfEvents(P) = <<>> THEN deferred ELSE deferred \cup {JobsOfEvents(P)}
  BY DEF SchedulerMinuteTick
<1>5. \A e \in Events : /\ e \in W <=> Runs(e) /\ ~Setup[e].plugin
                        /\ e \in P => Runs(e)
  OBVIOUS
<1> HIDE DEF W, P
<1>6. {queue'[i] : i \in (Len(queue) + 1)..Len(queue')} = Range(JobsOfEvents(W))
  BY <1>2, <1>3, <1>4, AppendedAre DEF TypeOK
<1>7. UNION {Range(b) : b \in deferred' \ deferred} \subseteq Range(JobsOfEvents(P))
  BY <1>4
<1>8. NewJobs \subseteq Range(JobsOfEvents(W)) \cup Range(JobsOfEvents(P))
      /\ Range(JobsOfEvents(W)) \subseteq NewJobs
  BY <1>6, <1>7 DEF NewJobs
<1>9. ASSUME NEW x \in NewJobs
      PROVE  \E e \in Events : Runs(e) /\ Makes(e, x)
  BY <1>2, <1>3, <1>5, <1>8
<1>10. ASSUME NEW e \in Events, Runs(e), ~Setup[e].plugin, NEW x, Makes(e, x)
       PROVE  x \in NewJobs
  BY <1>2, <1>3, <1>5, <1>8, <1>10
<1> QED
  BY <1>9, <1>10

(* The clock moves on in Minute alone. *)
LEMMA OnlyMinute ==
  ASSUME [Next]_vars, now' # now
  PROVE  Minute
BY DEF Next, vars, events, ghosts, StartupCheck, PluginReturns, DequeueLaunch, SaveState,
       UpdateGlobalState, Shutdown, Exit, Crash, BecomeMaster, CreateEvent, UpdateEvent, DeleteEvent

(* No minute is scheduled again unless a crash or a user has taken the cursor *)
(* back to before it or catch-up was off while it passed: no interleaving of *)
(* ticks, plugins, saves, stops and changes makes a job of a minute twice.  *)
THEOREM OncePerMinuteCorrect == Spec => OncePerMinute
<1> DEFINE Once == now' # now =>
             \A j \in NewJobs : j.minute \in scheduled[j.event] => j.minute \in replay[j.event]
<1>1. ASSUME Inv, [Next]_vars
      PROVE  Once
  <2>1. SUFFICES ASSUME now' # now, NEW j \in NewJobs, j.minute \in scheduled[j.event]
                 PROVE  j.minute \in replay[j.event]
    OBVIOUS
  <2>2. /\ Minute /\ TypeOK /\ now \in Nat /\ now + 1 <= MaxMinute
    <3>1. Minute /\ TypeOK
      BY <1>1, <2>1, OnlyMinute DEF Inv
    <3> QED
      BY <3>1, ScheduleAssumption DEF Minute, TypeOK, Minutes
  <2>3. CASE Master /\ state.enabled
    <3>1. SchedulerMinuteTick
      BY <2>2, <2>3 DEF Minute
    <3>2. PICK e \in Events : Runs(e) /\ Makes(e, j)
      BY <2>2, <3>1, NewJobsAre
    <3>3. PICK m \in Picked(e) : j.event = e /\ j.minute = m
      BY <3>2 DEF Makes, JobAt
    <3>4. /\ scheduled[e] \subseteq 1..now /\ state.cursor[e] \in Nat /\ m > Cursor(e)
      BY <1>1, <2>2, CursorTypes, PickedMinutes, ScheduleAssumption DEF Inv, Settled, Clocks
    <3>5. m \in scheduled[e] /\ m <= now
      BY <2>1, <2>2, <3>3, <3>4
    <3>6. state.cursor[e] # 0 /\ m > state.cursor[e]
      BY <2>2, <3>4, <3>5 DEF Cursor
    <3> QED
      BY <1>1, <3>3, <3>5, <3>6 DEF Inv, Settled, Accounted
  <2>4. CASE ~(Master /\ state.enabled)
    <3>1. queue' = queue /\ deferred' = deferred /\ queue \in Seq(Job)
      BY <2>2, <2>4 DEF Minute, TypeOK
    <3>2. NewJobs = {}
      BY <3>1 DEF NewJobs
    <3> QED
      BY <2>1, <3>2
  <2> QED
    BY <2>3, <2>4
<1>2. OncePerMinute <=> [][Once]_vars
  BY DEF OncePerMinute
<1> HIDE DEF Once
<1>3. Inv /\ [Next]_vars => Once
  BY <1>1
<1> QED
  BY <1>2, <1>3, InvCorrect, PTL DEF Spec

(* Arithmetic of the interval trigger. *)
LEMMA Times ==
  ASSUME NEW x \in Nat, NEW y \in Nat, NEW d \in Nat, x <= y
  PROVE  x * d <= y * d /\ x * d \in Nat /\ y * d \in Nat
<1>1. PICK k \in Nat : y = x + k
  <2>1. y - x \in Nat /\ y = x + (y - x)
    OBVIOUS
  <2> QED
    BY <2>1
<1>2. y * d = x * d + k * d /\ k * d \in Nat /\ x * d \in Nat
  BY <1>1
<1> QED
  BY <1>2

LEMMA HitsAreBeats ==
  ASSUME NEW t, t.start \in Nat, t.duration \in Nat \ {0}, NEW m \in Nat,
         t.start <= m * SecondsPerMinute
  PROVE  IntervalHitsPerMinute(t, m) = Beats(t, m)
<1> DEFINE epoch == m * SecondsPerMinute
           d == t.duration
           a == epoch - t.start
           c == (a + d - 1) \div d
<1>1. epoch \in Nat /\ SecondsPerMinute \in Nat /\ d \in Nat /\ d >= 1 /\ t.start \in Nat
      /\ (m + 1) * SecondsPerMinute = epoch + SecondsPerMinute
  BY ScheduleAssumption
<1>2. a \in Nat /\ a + d - 1 \in Nat /\ epoch = t.start + a
  BY <1>1
<1>3. PICK r \in 0..(d - 1) : a + d - 1 = d * c + r /\ c \in Nat
  <2>1. \A n \in Nat : n = d * (n \div d) + (n % d) /\ n \div d \in Nat /\ n % d \in 0..(d - 1)
    BY <1>1, Division
  <2> QED
    BY <1>2, <2>1
<1>4. FirstHit(t, epoch) = t.start + c * d
  BY DEF FirstHit, CeilDiv
<1>5. IntervalHitsPerMinute(t, m) =
        {s \in 0..(SecondsPerMinute - 1) :
           epoch + s >= FirstHit(t, epoch) /\ (epoch + s - FirstHit(t, epoch)) % d = 0}
  BY <1>1 DEF IntervalHitsPerMinute
<1>6. Beats(t, m) = {s \in 0..(SecondsPerMinute - 1) :
                       \E n \in 0..((m + 1) * SecondsPerMinute) : t.start + n * d = epoch + s}
  BY DEF Beats
<1> HIDE DEF epoch, d, a, c
<1>7. PICK p \in Nat : p = c * d /\ a <= p /\ p < a + d
  <2>1. c * d \in Nat /\ d * c = c * d
    BY <1>1, <1>3
  <2> QED
    BY <1>1, <1>2, <1>3, <2>1
<1>8. ASSUME NEW s \in 0..(SecondsPerMinute - 1)
      PROVE  (epoch + s >= t.start + p /\ (epoch + s - (t.start + p)) % d = 0) <=>
             \E n \in 0..((m + 1) * SecondsPerMinute) : t.start + n * d = epoch + s
  <2>0. s \in Nat /\ s < SecondsPerMinute
    BY <1>1, <1>8
  <2>1. ASSUME epoch + s >= t.start + p, (epoch + s - (t.start + p)) % d = 0
        PROVE  \E n \in 0..((m + 1) * SecondsPerMinute) : t.start + n * d = epoch + s
    <3>1. epoch + s - (t.start + p) \in Nat
      BY <1>1, <2>0, <2>1
    <3>2. PICK k \in Nat : epoch + s - (t.start + p) = d * k
      <4>1. PICK x \in Nat : x = epoch + s - (t.start + p) /\ x % d = 0
        BY <2>1, <3>1
      <4>2. d \in Nat \ {0}
        BY <1>1
      <4>3. x = d * (x \div d) + (x % d) /\ x \div d \in Nat
        BY <4>2, Division
      <4>4. PICK k \in Nat : x = d * k + 0
        BY <4>1, <4>3
      <4>5. x = d * k
        BY <1>1, <4>4
      <4> QED
        BY <4>1, <4>5
    <3>3. c + k \in Nat /\ (c + k) * d = p + d * k
      BY <1>1, <1>3, <1>7, <3>2
    <3>4. t.start + (c + k) * d = epoch + s
      BY <1>1, <1>7, <2>0, <3>1, <3>2, <3>3
    <3>5. c + k <= (c + k) * d
      BY <1>1, <3>3, Times
    <3>6. c + k <= (m + 1) * SecondsPerMinute
      BY <1>1, <1>7, <2>0, <3>2, <3>3, <3>4, <3>5
    <3>7. c + k \in 0..((m + 1) * SecondsPerMinute)
      <4>1. PICK top \in Nat : top = (m + 1) * SecondsPerMinute
        BY <1>1
      <4> QED
        BY <3>3, <3>6, <4>1
    <3> QED
      BY <3>4, <3>7
  <2>2. ASSUME NEW n \in 0..((m + 1) * SecondsPerMinute), t.start + n * d = epoch + s
        PROVE  epoch + s >= t.start + p /\ (epoch + s - (t.start + p)) % d = 0
    <3>1. n \in Nat /\ n * d \in Nat /\ n * d = a + s
      BY <1>1, <1>2, <2>0, <2>2
    <3>2. c <= n
      <4>1. SUFFICES ASSUME n + 1 <= c PROVE FALSE
        BY <1>3, <3>1
      <4>2. (n + 1) * d <= p
        BY <1>1, <1>3, <1>7, <3>1, <4>1, Times
      <4>3. (n + 1) * d = n * d + d
        BY <1>1, <3>1
      <4> QED
        BY <1>1, <1>2, <1>7, <2>0, <3>1, <4>2, <4>3
    <3>3. PICK k \in Nat : n = c + k
      <4>1. n - c \in Nat /\ n = c + (n - c)
        BY <1>3, <3>1, <3>2
      <4> QED
        BY <4>1
    <3>4. n * d = p + d * k /\ d * k \in Nat
      BY <1>1, <1>3, <1>7, <3>3
    <3>5. epoch + s - (t.start + p) = d * k + 0 /\ epoch + s >= t.start + p
      BY <1>1, <1>2, <1>7, <2>0, <3>1, <3>4
    <3>6. (d * k + 0) % d = 0
      BY <1>1, <3>4, Remainder
    <3> QED
      BY <3>5, <3>6
  <2> QED
    BY <2>1, <2>2
<1> QED
  BY <1>4, <1>5, <1>6, <1>7, <1>8
(* The jobs of an event with nothing but an interval. *)
LEMMA IntervalSeconds ==
  ASSUME TypeOK, NEW e \in Events, OnlyInterval(e), NEW m \in Nat, m > Cursor(e), m <= now + 1
  PROVE  /\ Intervals(e, m) = {} <=> IntervalHitsPerMinute(Setup[e].triggers[1], m) = {}
         /\ m \in Picked(e) <=> IntervalHitsPerMinute(Setup[e].triggers[1], m) # {}
         /\ m \in Picked(e) => /\ Chosen(e, m) = {1}
                               /\ Offsets(e, m) = IntervalHitsPerMinute(Setup[e].triggers[1], m)
<1> DEFINE t == Setup[e].triggers[1]
           hits == IntervalHitsPerMinute(t, m)
<1>1. DOMAIN Setup[e].triggers = {1} /\ t.type = "interval"
  <2>1. Setup[e].triggers \in Seq(Trigger) /\ Len(Setup[e].triggers) = 1 /\ 1..1 = {1}
    BY ScheduleAssumption DEF OnlyInterval
  <2>2. DOMAIN Setup[e].triggers = 1..1
    BY <2>1
  <2> QED
    BY <2>1, <2>2 DEF OnlyInterval
<1>2. Cursor(e) \in Nat /\ now \in Nat
  BY CursorType, CursorTypes
<1>3. Chosen(e, m) = IF hits # {} THEN {1} ELSE {}
  BY <1>1 DEF Chosen, Hit
<1>4. Intervals(e, m) = IF hits # {} THEN {1} ELSE {}
  BY <1>1 DEF Intervals
<1> HIDE DEF t, hits
<1>5. Due(e, m) <=> hits # {}
  BY <1>3 DEF Due, OnlyInterval, BlackedOut
<1>6. m \in Picked(e) <=> hits # {}
  BY <1>2, <1>5 DEF Picked, OnlyInterval
<1>7. hits # {} => Offsets(e, m) = hits
  <2>1. SUFFICES ASSUME hits # {} PROVE Offsets(e, m) = hits
    OBVIOUS
  <2>2. Max(Intervals(e, m)) = 1
    BY <1>4, <2>1 DEF Max
  <2>3. Seconds(e)[m] = Ahead(e, m, Seconds(e)[m - 1])
    BY <1>2, SecondsDefined
  <2>4. Seconds(e)[m] = hits
    BY <1>4, <2>1, <2>2, <2>3 DEF Ahead, hits, t
  <2> QED
    BY <2>1, <2>4 DEF Offsets, OnlyInterval
<1> QED
  BY <1>3, <1>4, <1>6, <1>7 DEF hits, t

(* Every interval keeps its beat: a tick schedules an event with nothing but *)
(* an interval for exactly the multiples of its duration, in each minute   *)
(* the cursor passes, however many minutes a tick has to make up for.      *)
THEOREM OnTheBeatCorrect == Spec => OnTheBeat
<1> DEFINE OnBeat == now' # now /\ Master /\ state.enabled =>
             \A e \in {x \in Events : OnlyInterval(x) /\ Runs(x)} :
               LET t == Setup[e].triggers[1]
               IN \A m \in (Cursor(e) + 1)..now' :
                    SecondsOf(e, m) = IF t.start > m * SecondsPerMinute THEN {} ELSE Beats(t, m)
<1>1. ASSUME TypeOK, [Next]_vars
      PROVE  OnBeat
  <2>1. SUFFICES ASSUME now' # now, Master, state.enabled, NEW e \in Events, OnlyInterval(e), Runs(e),
                        NEW m \in (Cursor(e) + 1)..now'
                 PROVE  SecondsOf(e, m) = IF Setup[e].triggers[1].start > m * SecondsPerMinute THEN {}
                                          ELSE Beats(Setup[e].triggers[1], m)
    OBVIOUS
  <2>2. Minute /\ SchedulerMinuteTick
    BY <1>1, <2>1, OnlyMinute DEF Minute
  <2>3. /\ now \in Nat /\ now' = now + 1 /\ now + 1 <= MaxMinute /\ Cursor(e) \in Nat
    <3>1. now \in Nat /\ Cursor(e) \in Nat
      BY <1>1, CursorTypes, CursorType
    <3> QED
      BY <2>2, <3>1, ScheduleAssumption DEF Minute
  <2>4. m \in Nat /\ m > Cursor(e) /\ m <= now + 1
    BY <2>1, <2>3
  <2> DEFINE t == Setup[e].triggers[1]
             hits == IntervalHitsPerMinute(t, m)
  <2>5. /\ m \in Picked(e) <=> hits # {}
        /\ m \in Picked(e) => Chosen(e, m) = {1} /\ Offsets(e, m) = hits
    BY <1>1, <2>1, <2>4, IntervalSeconds
  <2>6. t.start \in Nat /\ t.duration \in Nat \ {0}
    <3>1. Setup[e].triggers \in Seq(Trigger) /\ Len(Setup[e].triggers) = 1
      BY ScheduleAssumption, <2>1 DEF OnlyInterval
    <3>2. t \in Trigger /\ t.type = "interval"
      BY <2>1, <3>1 DEF OnlyInterval
    <3> HIDE DEF t
    <3> QED
      BY <3>2 DEF Trigger
  <2> HIDE DEF t, hits
  <2>7. ~Setup[e].plugin
    BY <2>1 DEF OnlyInterval
  <2>8. /\ \A x \in NewJobs : \E f \in Events : Runs(f) /\ Makes(f, x)
        /\ \A x : Makes(e, x) => x \in NewJobs
    BY <1>1, <2>1, <2>2, <2>3, <2>7, NewJobsAre
  <2>9. ASSUME NEW s \in SecondsOf(e, m)
        PROVE  s \in hits
    <3>1. PICK j \in NewJobs : j.event = e /\ j.minute = m /\ j.second = s
      BY <2>9 DEF SecondsOf
    <3>2. PICK f \in Events : Makes(f, j)
      BY <2>8, <3>1
    <3>3. PICK k \in Picked(f) : \E i \in Chosen(f, k), x \in Offsets(f, k) : j = JobAt(f, k, i, x)
      BY <3>2 DEF Makes
    <3>4. PICK i \in Chosen(f, k), x \in Offsets(f, k) : j = JobAt(f, k, i, x)
      BY <3>3
    <3>5. f = e /\ k = m /\ x = s
      BY <3>1, <3>4 DEF JobAt
    <3> QED
      BY <2>5, <3>3, <3>4, <3>5
  <2>10. ASSUME NEW s \in hits
         PROVE  s \in SecondsOf(e, m)
    <3>1. m \in Picked(e) /\ 1 \in Chosen(e, m) /\ s \in Offsets(e, m)
      BY <2>5, <2>10
    <3>2. Makes(e, JobAt(e, m, 1, s))
      BY <3>1 DEF Makes
    <3>3. JobAt(e, m, 1, s) \in NewJobs
      BY <2>8, <3>2
    <3>4. JobAt(e, m, 1, s).event = e /\ JobAt(e, m, 1, s).minute = m /\ JobAt(e, m, 1, s).second = s
      BY DEF JobAt
    <3> QED
      BY <3>3, <3>4 DEF SecondsOf
  <2>11. SecondsOf(e, m) = hits
    BY <2>9, <2>10
  <2>12. hits = IF t.start > m * SecondsPerMinute THEN {} ELSE Beats(t, m)
    <3>1. CASE t.start > m * SecondsPerMinute
      BY <3>1 DEF hits, IntervalHitsPerMinute
    <3>2. CASE ~(t.start > m * SecondsPerMinute)
      <4>1. m * SecondsPerMinute \in Nat
        BY <2>4, ScheduleAssumption
      <4>2. t.start <= m * SecondsPerMinute
        BY <2>6, <3>2, <4>1
      <4> QED
        BY <2>4, <2>6, <3>2, <4>2, HitsAreBeats DEF hits
    <3> QED
      BY <3>1, <3>2
  <2> QED
    BY <2>11, <2>12 DEF t
<1>2. OnTheBeat <=> [][OnBeat]_vars
  BY DEF OnTheBeat
<1> HIDE DEF OnBeat
<1>3. TypeOK /\ [Next]_vars => OnBeat
  BY <1>1
<1> QED
  BY <1>2, <1>3, ScheduleTypeCorrect, PTL DEF Spec
=============================================================================
