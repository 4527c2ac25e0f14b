----------------------------- MODULE DataLemmas -----------------------------
(***************************************************************************)
(* Facts about data that the proofs of several components need: what a fold*)
(* computes, step by step, how often a value is in a sequence, and how to  *)
(* reckon modulo a number that is not known.                               *)
(*                                                                         *)
(* A fold of the community modules is a recursion over sets of numbers.    *)
(* The induction principle here is about sets, not about predicates, which *)
(* is what lets a recursion be reasoned about at all.                      *)
(***************************************************************************)
EXTENDS Integers, FiniteSets, SequencesExt, SequenceTheorems, FiniteSetTheorems,
        WellFoundedInduction, TLAPS

-----------------------------------------------------------------------------
(* The parts of sequences.                                                 *)

LEMMA ConcatShape ==
  ASSUME NEW S, NEW s \in Seq(S), NEW t \in Seq(S)
  PROVE  /\ s \o t \in Seq(S) /\ Len(s \o t) = Len(s) + Len(t)
         /\ \A i \in 1 .. Len(s) : (s \o t)[i] = s[i]
         /\ \A i \in 1 .. Len(t) : (s \o t)[Len(s) + i] = t[i]
OBVIOUS

LEMMA Joined ==
  ASSUME NEW S, NEW s, NEW t, s \in Seq(S), t \in Seq(S), NEW v, v = s \o t
  PROVE  /\ v \in Seq(S) /\ Len(v) = Len(s) + Len(t)
         /\ \A i \in 1 .. Len(s) : v[i] = s[i]
         /\ \A i \in 1 .. Len(t) : v[Len(s) + i] = t[i]
OBVIOUS

LEMMA SubSeqShape ==
  ASSUME NEW S, NEW s \in Seq(S), NEW a \in 1 .. Len(s) + 1, NEW b \in 0 .. Len(s), a <= b + 1
  PROVE  /\ SubSeq(s, a, b) \in Seq(S) /\ Len(SubSeq(s, a, b)) = b - a + 1
         /\ \A i \in 1 .. b - a + 1 : SubSeq(s, a, b)[i] = s[a + i - 1]
OBVIOUS

LEMMA SplitShape ==
  ASSUME NEW S, NEW s, s \in Seq(S), NEW k \in 0 .. Len(s)
  PROVE  /\ SubSeq(s, 1, k) \in Seq(S) /\ Len(SubSeq(s, 1, k)) = k
         /\ \A i \in 1 .. k : SubSeq(s, 1, k)[i] = s[i]
         /\ SubSeq(s, k + 1, Len(s)) \in Seq(S) /\ Len(SubSeq(s, k + 1, Len(s))) = Len(s) - k
         /\ \A i \in 1 .. Len(s) - k : SubSeq(s, k + 1, Len(s))[i] = s[i + k]
<1>1. k \in Nat /\ Len(s) \in Nat /\ k <= Len(s)
  OBVIOUS
<1>2. /\ SubSeq(s, 1, k) \in Seq(S) /\ Len(SubSeq(s, 1, k)) = k
      /\ \A i \in 1 .. k : SubSeq(s, 1, k)[i] = s[i]
  BY <1>1
<1>3. /\ SubSeq(s, k + 1, Len(s)) \in Seq(S) /\ Len(SubSeq(s, k + 1, Len(s))) = Len(s) - k
      /\ \A i \in 1 .. Len(s) - k : SubSeq(s, k + 1, Len(s))[i] = s[i + k]
  BY <1>1
<1> QED BY <1>2, <1>3

-----------------------------------------------------------------------------
(* Recursions.                                                             *)

\* t lists the values of a recursion over 1 .. n.
Trace(t, n, base, step) ==
  t[0] = base /\ \A k \in 1 .. n : t[k] = step[k][t[k - 1]]

\* v is the last value of a recursion through values in D.
EndsTrace(v, n, D, base, step) ==
  \E t \in [0 .. n -> D] : Trace(t, n, base, step) /\ t[n] = v

\* f solves the recursion over sets of numbers by which the library folds a sequence.
FoldsAt(f, s, base, step) ==
  f[s] = IF s = {} THEN base ELSE step[Max(s)][f[s \ {Max(s)}]]
Folds(f, n, base, step) == \A s \in SUBSET (1 .. n) : FoldsAt(f, s, base, step)

\* The same, as far as the values are known to lie in D.
FoldsWithin(f, n, D, base, step) ==
  /\ f[{}] = base
  /\ \A s \in SUBSET (1 .. n) :
       s # {} /\ f[s \ {Max(s)}] \in D => f[s] = step[Max(s)][f[s \ {Max(s)}]]

-----------------------------------------------------------------------------
\* A set of numbers that is not empty has a least element.
LEMMA LeastIn ==
  ASSUME NEW T \in SUBSET Nat, T # {}
  PROVE  \E x \in T : \A y \in T : x <= y
<1> DEFINE R == OpToRel(<, Nat)
<1>1. IsWellFoundedOn(R, Nat)
  BY NatLessThanWellFounded
<1>2. \A x, y \in Nat : <<x, y>> \in R <=> x < y
  BY DEF OpToRel
<1> HIDE DEF R
<1>3. PICK x \in T : \A y \in T : ~(<<y, x>> \in R)
  BY <1>1, WFMin
<1>4. \A y \in T : ~(y < x)
  BY <1>2, <1>3
<1>5. \A y \in T : x <= y
  BY <1>3, <1>4
<1> QED BY <1>5

\* A set of numbers that has 0, and n + 1 with every n, has them all.
LEMMA Induction ==
  ASSUME NEW P \in SUBSET Nat, 0 \in P, \A n \in P : n + 1 \in P
  PROVE  P = Nat
<1> SUFFICES ASSUME Nat \ P # {} PROVE FALSE
  OBVIOUS
<1> DEFINE T == Nat \ P
<1>1. PICK x \in T : \A y \in T : x <= y
  <2>1. T \in SUBSET Nat /\ T # {}
    OBVIOUS
  <2> HIDE DEF T
  <2> QED BY <2>1, LeastIn
<1>2. x # 0 /\ x - 1 \in Nat /\ (x - 1) + 1 = x /\ ~ x <= x - 1
  BY <1>1
<1>3. x - 1 \in P
  BY <1>1, <1>2
<1> QED BY <1>1, <1>2, <1>3

\* A recursion over the first n numbers has a solution.
LEMMA RecursionExists ==
  ASSUME NEW n \in Nat, NEW D, NEW base \in D, NEW step \in [1 .. n -> [D -> D]]
  PROVE  \E t \in [0 .. n -> D] : Trace(t, n, base, step)
<1> USE DEF Trace
<1> DEFINE Solves(f, m) == Trace(f, m, base, step)
           Solvable(m) == \E f \in [0 .. m -> D] : Solves(f, m)
           P == {m \in Nat : m <= n => Solvable(m)}
<1>1. 0 \in P
  <2>1. [k \in 0 .. 0 |-> base] \in [0 .. 0 -> D] /\ Solves([k \in 0 .. 0 |-> base], 0)
    OBVIOUS
  <2> QED BY <2>1
<1>2. ASSUME NEW m \in P PROVE m + 1 \in P
  <2> SUFFICES ASSUME m + 1 <= n PROVE Solvable(m + 1)
    <3> HIDE DEF Solvable
    <3> QED OBVIOUS
  <2>1. PICK f \in [0 .. m -> D] : Solves(f, m)
    OBVIOUS
  <2> DEFINE g == [k \in 0 .. m + 1 |-> IF k = m + 1 THEN step[m + 1][f[m]] ELSE f[k]]
  <2>2. f[m] \in D /\ m + 1 \in 1 .. n
    OBVIOUS
  <2>3. g \in [0 .. m + 1 -> D]
    BY <2>2
  <2>4. g[0] = base
    BY <2>1
  <2>5. ASSUME NEW k \in 1 .. m + 1 PROVE g[k] = step[k][g[k - 1]]
    <3>1. CASE k = m + 1
      BY <3>1
    <3>2. CASE k \in 1 .. m
      BY <2>1, <3>2
    <3> QED BY <3>1, <3>2
  <2> HIDE DEF g
  <2> QED BY <2>3, <2>4, <2>5
<1>3. n \in P
  <2>1. P \in SUBSET Nat
    <3> HIDE DEF Solvable
    <3> QED OBVIOUS
  <2> HIDE DEF P
  <2> QED BY <1>1, <1>2, <2>1, Induction
<1>4. Solvable(n)
  <2> HIDE DEF Solvable
  <2> QED BY <1>3
<1> QED BY <1>4

\* A set of numbers up to n that is not empty has a largest element.
LEMMA MaxIn ==
  ASSUME NEW n \in Nat, NEW s \in SUBSET (1 .. n), s # {}
  PROVE  Max(s) \in s /\ \A y \in s : y <= Max(s)
<1> DEFINE P == {m \in Nat : (\E x \in s : x + m >= n) => \E x \in s : \A y \in s : x >= y}
<1>1. 0 \in P
  BY DEF P
<1>2. ASSUME NEW m \in P PROVE m + 1 \in P
  <2> SUFFICES ASSUME NEW x \in s, x + (m + 1) >= n, \A z \in s : ~(z + m >= n)
               PROVE  \A y \in s : x >= y
    OBVIOUS
  <2> QED OBVIOUS
<1>3. n \in P
  <2>1. P \in SUBSET Nat
    OBVIOUS
  <2> HIDE DEF P
  <2> QED BY <1>1, <1>2, <2>1, Induction
<1>4. PICK x : x \in s
  OBVIOUS
<1>5. x + n >= n
  BY <1>4
<1>6. Max(s) \in s /\ \A y \in s : Max(s) >= y
  BY <1>3, <1>4, <1>5 DEF Max
<1>7. \A y \in s : y \in Int
  OBVIOUS
<1> HIDE DEF Max
<1> QED BY <1>6, <1>7

\* The largest element of a set of numbers up to m + 1 that has m + 1.
LEMMA MaxIsLast ==
  ASSUME NEW m \in Nat, NEW s \in SUBSET (1 .. m + 1), m + 1 \in s
  PROVE  Max(s) = m + 1
<1>1. \A x \in s : x \in Int /\ x <= m + 1
  OBVIOUS
<1>2. \A y \in s : m + 1 >= y
  BY <1>1
<1>3. Max(s) \in s /\ \A y \in s : Max(s) >= y
  BY <1>2 DEF Max
<1>4. Max(s) \in Int /\ Max(s) <= m + 1
  BY <1>1, <1>3
<1>5. m + 1 <= Max(s)
  BY <1>3, <1>4
<1> HIDE DEF Max
<1> QED BY <1>4, <1>5

\* A recursion over the sets of the first n numbers that takes their largest element
\* away has a solution: this is how the library folds a sequence.
LEMMA FoldExists ==
  ASSUME NEW n \in Nat, NEW D, NEW base \in D, NEW step \in [1 .. n -> [D -> D]]
  PROVE  \E f \in [SUBSET (1 .. n) -> D] : Folds(f, n, base, step)
<1> USE DEF Folds, FoldsAt
<1> DEFINE Solves(f, m) == Folds(f, m, base, step)
           Solvable(m) == \E f \in [SUBSET (1 .. m) -> D] : Solves(f, m)
           P == {m \in Nat : m <= n => Solvable(m)}
<1>1. 0 \in P
  <2>0. SUBSET (1 .. 0) = {{}}
    OBVIOUS
  <2>1. [s \in {{}} |-> base] \in [SUBSET (1 .. 0) -> D] /\ Solves([s \in {{}} |-> base], 0)
    BY <2>0
  <2>2. Solvable(0)
    BY <2>1
  <2> HIDE DEF Solvable
  <2> QED BY <2>2
<1>2. ASSUME NEW m \in P PROVE m + 1 \in P
  <2> SUFFICES ASSUME m + 1 <= n PROVE Solvable(m + 1)
    <3> HIDE DEF Solvable
    <3> QED OBVIOUS
  <2>0. m \in Nat /\ Solvable(m)
    <3> HIDE DEF Solvable
    <3> QED OBVIOUS
  <2>1. PICK f \in [SUBSET (1 .. m) -> D] : Solves(f, m)
    BY <2>0
  <2> DEFINE g == [s \in SUBSET (1 .. m + 1) |->
                     IF m + 1 \in s THEN step[m + 1][f[s \ {m + 1}]] ELSE f[s]]
  <2> HIDE DEF P, Solvable
  <2>2. ASSUME NEW s \in SUBSET (1 .. m + 1)
        PROVE  /\ m + 1 \in s => s \ {m + 1} \in SUBSET (1 .. m) /\ Max(s) = m + 1
               /\ m + 1 \notin s => s \in SUBSET (1 .. m)
               /\ g[s] \in D
    <3>1. ASSUME m + 1 \in s PROVE s \ {m + 1} \in SUBSET (1 .. m) /\ Max(s) = m + 1
      BY <2>0, <3>1, MaxIsLast
    <3>2. ASSUME m + 1 \notin s PROVE s \in SUBSET (1 .. m)
      BY <2>0, <3>2
    <3> QED BY <2>0, <3>1, <3>2
  <2>3. g \in [SUBSET (1 .. m + 1) -> D]
    BY <2>2
  <2>4. ASSUME NEW s \in SUBSET (1 .. m + 1) PROVE FoldsAt(g, s, base, step)
    <3>1. CASE m + 1 \in s
      <4>1. s \ {m + 1} \in SUBSET (1 .. m + 1) /\ g[s \ {m + 1}] = f[s \ {m + 1}]
        OBVIOUS
      <4> QED BY <2>2, <3>1, <4>1
    <3>2. CASE m + 1 \notin s
      <4>1. s \in SUBSET (1 .. m) /\ g[s] = f[s]
        BY <2>2, <3>2
      <4>2. s \ {Max(s)} \in SUBSET (1 .. m)
        BY <4>1
      <4>3. m + 1 \notin s \ {Max(s)} /\ s \ {Max(s)} \in SUBSET (1 .. m + 1)
        BY <3>2
      <4>4. g[s \ {Max(s)}] = f[s \ {Max(s)}]
        BY <4>3
      <4>5. FoldsAt(f, s, base, step)
        BY <2>1, <4>1
      <4> QED BY <4>1, <4>4, <4>5
    <3> QED BY <3>1, <3>2
  <2>5. Solves(g, m + 1)
    BY <2>4
  <2> HIDE DEF g, Solves
  <2> QED BY <2>3, <2>5 DEF Solvable
<1>3. n \in P
  <2>1. P \in SUBSET Nat
    <3> HIDE DEF Solvable
    <3> QED OBVIOUS
  <2> HIDE DEF P
  <2> QED BY <1>1, <1>2, <2>1, Induction
<1>4. Solvable(n)
  <2> HIDE DEF Solvable
  <2> QED BY <1>3
<1> QED BY <1>4

\* Along 1 .. n, the sets 1 .. k give the trace of a fold.
LEMMA FoldTrace ==
  ASSUME NEW n \in Nat, NEW D, NEW base \in D, NEW step \in [1 .. n -> [D -> D]],
         NEW f, FoldsWithin(f, n, D, base, step)
  PROVE  EndsTrace(f[1 .. n], n, D, base, step)
<1> USE DEF FoldsWithin
<1> DEFINE t == [k \in 0 .. n |-> f[1 .. k]]
           P == {m \in Nat : m <= n => f[1 .. m] \in D}
<1>1. ASSUME NEW k \in 1 .. n, f[1 .. k - 1] \in D
      PROVE  f[1 .. k] = step[k][f[1 .. k - 1]] /\ f[1 .. k] \in D
  <2>1. k - 1 \in Nat /\ (k - 1) + 1 = k /\ k \in 1 .. k
    OBVIOUS
  <2>2. Max(1 .. k) = k
    BY <2>1, MaxIsLast
  <2>3. (1 .. k) \ {k} = 1 .. k - 1 /\ 1 .. k \in SUBSET (1 .. n) /\ 1 .. k # {}
    BY <2>1
  <2>4. f[1 .. k] = step[k][f[1 .. k - 1]]
    BY <1>1, <2>2, <2>3
  <2> QED BY <1>1, <2>4
<1>2. 1 .. 0 = {}
  OBVIOUS
<1>3. 0 \in P
  BY <1>2
<1>4. ASSUME NEW m \in P PROVE m + 1 \in P
  <2>1. m + 1 <= n => m + 1 \in 1 .. n /\ (m + 1) - 1 = m /\ m <= n
    OBVIOUS
  <2> QED BY <1>1, <2>1
<1>5. P = Nat
  <2>1. P \in SUBSET Nat
    OBVIOUS
  <2> HIDE DEF P
  <2> QED BY <1>3, <1>4, <2>1, Induction
<1>6. \A k \in 0 .. n : f[1 .. k] \in D
  BY <1>5
<1>7. t \in [0 .. n -> D] /\ t[n] = f[1 .. n]
  BY <1>6
<1>8. Trace(t, n, base, step)
  <2>1. \A k \in 1 .. n : k - 1 \in 0 .. n /\ k \in 0 .. n
    OBVIOUS
  <2> QED BY <1>1, <1>2, <1>6, <2>1 DEF Trace
<1> HIDE DEF t
<1> QED BY <1>7, <1>8 DEF EndsTrace

-----------------------------------------------------------------------------
(* How often a value is in a sequence.                                     *)

\* Where v is in q, and how often.
PlacesOf(q, v) == {k \in 1 .. Len(q) : q[k] = v}
Count(q, v)  == Cardinality(PlacesOf(q, v))

\* A count is a number.
LEMMA CountFinite ==
  ASSUME NEW S, NEW q \in Seq(S), NEW v
  PROVE  IsFiniteSet(PlacesOf(q, v)) /\ Count(q, v) \in Nat
<1>1. IsFiniteSet(1 .. Len(q))
  BY FS_Interval
<1>2. IsFiniteSet(PlacesOf(q, v))
  BY <1>1, FS_Subset DEF PlacesOf
<1> QED BY <1>2, FS_CardinalityType DEF Count

\* An appended value counts once more.
LEMMA CountAppend ==
  ASSUME NEW S, NEW q \in Seq(S), NEW v, NEW w \in S
  PROVE  Count(Append(q, w), v) = IF w = v THEN Count(q, v) + 1 ELSE Count(q, v)
<1> DEFINE P == PlacesOf(q, v)
           A == PlacesOf(Append(q, w), v)
<1>1. /\ Len(q) \in Nat /\ Len(Append(q, w)) = Len(q) + 1
      /\ Append(q, w)[Len(q) + 1] = w
      /\ \A k \in 1 .. Len(q) : Append(q, w)[k] = q[k]
  BY AppendProperties
<1>2. A = IF w = v THEN P \cup {Len(q) + 1} ELSE P
  <2>1. ASSUME NEW k \in 1 .. Len(q) + 1 PROVE k \in 1 .. Len(q) \/ k = Len(q) + 1
    BY <1>1
  <2> QED BY <1>1, <2>1 DEF PlacesOf
<1>3. IsFiniteSet(P)
  BY CountFinite
<1>4. Len(q) + 1 \notin P
  BY <1>1 DEF PlacesOf
<1> QED BY <1>2, <1>3, <1>4, FS_AddElement DEF Count

\* The head of a sequence counts once less in its tail.
LEMMA CountTail ==
  ASSUME NEW S, NEW q \in Seq(S), NEW v, q # << >>
  PROVE  Count(Tail(q), v) = IF Head(q) = v THEN Count(q, v) - 1 ELSE Count(q, v)
<1> DEFINE P == PlacesOf(q, v)
           T == PlacesOf(Tail(q), v)
           f == [k \in T |-> k + 1]
<1>1. /\ Len(q) \in Nat \ {0} /\ Len(Tail(q)) = Len(q) - 1
      /\ Head(q) = q[1]
      /\ \A k \in 1 .. Len(Tail(q)) : Tail(q)[k] = q[k + 1]
  BY HeadTailProperties, EmptySeq
<1>2. f \in Bijection(T, P \ {1})
  <2>1. \A k \in T : k + 1 \in P \ {1}
    BY <1>1 DEF PlacesOf
  <2>2. ASSUME NEW j \in P \ {1} PROVE j - 1 \in T /\ (j - 1) + 1 = j
    <3>1. j - 1 \in 1 .. Len(Tail(q))
      BY <1>1 DEF PlacesOf
    <3>2. Tail(q)[j - 1] = q[(j - 1) + 1] /\ (j - 1) + 1 = j
      BY <1>1, <3>1 DEF PlacesOf
    <3> QED BY <3>1, <3>2 DEF PlacesOf
  <2>3. f \in [T -> P \ {1}]
    BY <2>1
  <2>4. \A a, b \in T : f[a] = f[b] => a = b
    BY <1>1 DEF PlacesOf
  <2>5. \A j \in P \ {1} : \E k \in T : f[k] = j
    BY <2>2
  <2> HIDE DEF f, T, P
  <2> QED BY <2>3, <2>4, <2>5 DEF Bijection, Injection, Surjection, IsInjective
<1>3. IsFiniteSet(P) /\ IsFiniteSet(T) /\ IsFiniteSet(P \ {1})
  <2>1. Tail(q) \in Seq(S)
    BY HeadTailProperties
  <2>2. IsFiniteSet(P) /\ IsFiniteSet(T)
    BY <2>1, CountFinite
  <2> QED BY <2>2, FS_RemoveElement
<1>4. Cardinality(T) = Cardinality(P \ {1})
  <2>1. ExistsBijection(T, P \ {1})
    BY <1>2 DEF ExistsBijection
  <2> HIDE DEF T, P
  <2> QED BY <1>3, <2>1, FS_Bijection
<1>5. Cardinality(P \ {1}) = IF 1 \in P THEN Cardinality(P) - 1 ELSE Cardinality(P)
  BY <1>3, FS_RemoveElement
<1>6. 1 \in P <=> Head(q) = v
  BY <1>1 DEF PlacesOf
<1> QED BY <1>4, <1>5, <1>6 DEF Count

-----------------------------------------------------------------------------
(* Remainders.                                                             *)

\* What \div and % are.
LEMMA DivRange ==
  ASSUME NEW a \in Int, NEW n \in Nat \ {0}
  PROVE  /\ a % n \in 0 .. n - 1
         /\ a \div n \in Int
         /\ a = n * (a \div n) + (a % n)
OBVIOUS

\* A positive multiple of n is not below n.
LEMMA Multiple ==
  ASSUME NEW n \in Nat \ {0}, NEW x \in Int, x > 0
  PROVE  n * x >= n
OBVIOUS

\* A remainder is unique.
LEMMA Remainder ==
  ASSUME NEW n \in Nat \ {0}, NEW q \in Int, NEW r \in 0 .. n - 1
  PROVE  (n * q + r) % n = r
<1> DEFINE a == n * q + r
<1>1. a \in Int
  OBVIOUS
<1> HIDE DEF a
<1> DEFINE p == a \div n
           s == a % n
<1>2. p \in Int /\ s \in 0 .. n - 1 /\ a = n * p + s
  BY <1>1, DivRange
<1> HIDE DEF p, s
<1>3. n * q + r = n * p + s
  BY <1>2 DEF a
<1>4. n * (q - p) = s - r /\ n * (p - q) = r - s
  BY <1>2, <1>3
<1>5. ~ q - p > 0
  <2> SUFFICES ASSUME q - p > 0 PROVE FALSE
    OBVIOUS
  <2>1. n * (q - p) >= n
    BY <1>2, Multiple
  <2> QED BY <2>1, <1>2, <1>4
<1>6. ~ p - q > 0
  <2> SUFFICES ASSUME p - q > 0 PROVE FALSE
    OBVIOUS
  <2>1. n * (p - q) >= n
    BY <1>2, Multiple
  <2> QED BY <2>1, <1>2, <1>4
<1>7. p = q
  BY <1>2, <1>5, <1>6
<1>8. s = r
  BY <1>7, <1>2, <1>3
<1> QED BY <1>8 DEF s, a

\* Multiples of n do not count.
LEMMA AddMultiple ==
  ASSUME NEW n \in Nat \ {0}, NEW a \in Int, NEW k \in Int
  PROVE  (a + n * k) % n = a % n
<1>1. a % n \in 0 .. n - 1 /\ a \div n \in Int /\ a = n * (a \div n) + (a % n)
  BY DivRange
<1> DEFINE q == a \div n
           r == a % n
<1> HIDE DEF q, r
<1>2. r \in 0 .. n - 1 /\ q \in Int /\ a = n * q + r
  BY <1>1 DEF q, r
<1>3. a + n * k = n * (q + k) + r /\ q + k \in Int
  BY <1>2
<1>4. (n * (q + k) + r) % n = r
  BY <1>2, <1>3, Remainder
<1> QED BY <1>3, <1>4 DEF r

\* What counts modulo n may be reduced before it is added or subtracted.
LEMMA ReducedSum ==
  ASSUME NEW n \in Nat \ {0}, NEW a \in Int, NEW b \in Int
  PROVE  /\ ((a % n) + b) % n = (a + b) % n
         /\ ((a % n) - b) % n = (a - b) % n
         /\ (b - (a % n)) % n = (b - a) % n
<1>1. a % n \in 0 .. n - 1 /\ a \div n \in Int /\ a = n * (a \div n) + (a % n)
  BY DivRange
<1> DEFINE q == a \div n
           r == a % n
<1> HIDE DEF q, r
<1>2. r \in 0 .. n - 1 /\ q \in Int /\ a = n * q + r
  BY <1>1 DEF q, r
<1>3. a + b = (r + b) + n * q /\ a - b = (r - b) + n * q /\ b - r = (b - a) + n * q
  BY <1>2
<1>4. ((r + b) + n * q) % n = (r + b) % n
  <2>1. r + b \in Int
    BY <1>2
  <2> QED BY <2>1, <1>2, AddMultiple
<1>5. ((r - b) + n * q) % n = (r - b) % n
  <2>1. r - b \in Int
    BY <1>2
  <2> QED BY <2>1, <1>2, AddMultiple
<1>6. ((b - a) + n * q) % n = (b - a) % n
  <2>1. b - a \in Int
    BY <1>2
  <2> QED BY <2>1, <1>2, AddMultiple
<1> QED BY <1>3, <1>4, <1>5, <1>6 DEF r

\* What is below n is its own remainder.
LEMMA SmallRemainder ==
  ASSUME NEW n \in Nat \ {0}, NEW a \in 0 .. n - 1
  PROVE  a % n = a
<1>1. (n * 0 + a) % n = a
  BY Remainder
<1> QED BY <1>1

\* As long as it does not wrap around, a remainder goes along with its number.
LEMMA NoWrap ==
  ASSUME NEW n \in Nat \ {0}, NEW a \in Int, NEW k \in Nat, (a % n) + k < n
  PROVE  (a + k) % n = (a % n) + k
<1>1. a % n \in 0 .. n - 1
  BY DivRange
<1>2. ((a % n) + k) % n = (a % n) + k
  <2>1. (a % n) + k \in 0 .. n - 1
    BY <1>1
  <2> QED BY <2>1, SmallRemainder
<1>3. ((a % n) + k) % n = (a + k) % n
  <2>1. k \in Int
    OBVIOUS
  <2> QED BY <2>1, ReducedSum
<1> QED BY <1>2, <1>3

\* A remainder of a number is not larger than the number.
LEMMA RemainderSmall ==
  ASSUME NEW n \in Nat \ {0}, NEW a \in Nat
  PROVE  a % n \in 0 .. n - 1 /\ a % n <= a
<1> DEFINE r == a % n
           q == a \div n
<1>1. r \in 0 .. n - 1 /\ q \in Int /\ a = n * q + r
  BY DivRange
<1> HIDE DEF r, q
<1>2. CASE a < n
  <2>1. a \in 0 .. n - 1
    BY <1>2
  <2>2. a % n = a
    BY <2>1, SmallRemainder
  <2> QED BY <1>1, <2>2 DEF r
<1>3. CASE a >= n
  <2>1. r <= a
    BY <1>1, <1>3
  <2> QED BY <1>1, <2>1 DEF r
<1> QED BY <1>2, <1>3
=============================================================================
