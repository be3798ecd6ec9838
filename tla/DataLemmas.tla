----------------------------- MODULE DataLemmas -----------------------------
(***************************************************************************)
(* Induction over the naturals and definition by recursion, stated with    *)
(* sets and functions in place of operator parameters: the property is a   *)
(* set of numbers, the step of a recursion a function.  And what the       *)
(* proofs need of sequences.                                               *)
(***************************************************************************)
EXTENDS Integers, Sequences, WellFoundedInduction, TLAPS

\* A set of naturals that is not empty has a least element.
LEMMA LeastNumber ==
    ASSUME NEW T, T \subseteq Nat, T # {}
    PROVE  \E x \in T : \A y \in T : x <= y
<1>1. PICK x \in T : \A y \in T : ~(<<y, x>> \in OpToRel(<, Nat))
  BY NatLessThanWellFounded, WFMin
<1>2. \A y \in T : ~(y < x)
  BY <1>1, Zenon DEF OpToRel
<1> QED BY <1>2

\* A set that holds zero, and the successor of every natural it holds, holds
\* every natural.
LEMMA Induction ==
    ASSUME NEW S, 0 \in S, \A n \in Nat : n \in S => n + 1 \in S
    PROVE  \A n \in Nat : n \in S
<1> SUFFICES ASSUME Nat \ S # {} PROVE FALSE
  OBVIOUS
<1>1. PICK x \in Nat \ S : \A y \in Nat \ S : x <= y
  BY LeastNumber, Zenon
<1>2. x # 0 /\ x - 1 \in Nat /\ ~(x <= x - 1) /\ (x - 1) + 1 = x
  BY <1>1
<1>3. x - 1 \in S
  BY <1>1, <1>2
<1> QED BY <1>1, <1>2, <1>3

\* What a recursion computes up to n.
Computes(g, n, base, step) ==
    /\ g[0] = base
    /\ \A i \in Nat : i < n => g[i + 1] = step[<<i, g[i]>>]

\* f is what the recursion defines, a function to T.
Solves(f, T, base, step) ==
    /\ f \in [Nat -> T] /\ f[0] = base
    /\ \A n \in Nat : f[n + 1] = step[<<n, f[n]>>]

\* A recursion whose step is a function has a solution.
LEMMA Recursion ==
    ASSUME NEW T, NEW base \in T, NEW step \in [Nat \X T -> T]
    PROVE  \E f : Solves(f, T, base, step)
<1> DEFINE S == {n \in Nat : \E g \in [Nat -> T] : Computes(g, n, base, step)}
<1>1. \A n \in Nat : n \in S
  <2>1. 0 \in S
    <3> DEFINE g == [i \in Nat |-> base]
    <3>1. g \in [Nat -> T] /\ Computes(g, 0, base, step)
      BY DEF Computes
    <3> QED BY <3>1
  <2>2. ASSUME NEW n \in Nat, n \in S PROVE n + 1 \in S
    <3>1. PICK g \in [Nat -> T] : Computes(g, n, base, step)
      BY <2>2
    <3> DEFINE h == [g EXCEPT ![n + 1] = step[<<n, g[n]>>]]
    <3>2. step[<<n, g[n]>>] \in T
      OBVIOUS
    <3>3. h \in [Nat -> T] /\ h[n + 1] = step[<<n, g[n]>>]
          /\ \A i \in Nat : i # n + 1 => h[i] = g[i]
      BY <3>2
    <3> HIDE DEF h
    <3>4. ASSUME NEW i \in Nat, i < n + 1 PROVE h[i + 1] = step[<<i, h[i]>>]
      <4>1. CASE i = n
        BY <3>3, <4>1
      <4>2. CASE i < n
        <5>1. h[i + 1] = g[i + 1] /\ h[i] = g[i]
          BY <3>3, <4>2
        <5> QED BY <3>1, <4>2, <5>1 DEF Computes
      <4> QED BY <3>4, <4>1, <4>2
    <3>5. h[0] = base
      BY <3>1, <3>3 DEF Computes
    <3>6. Computes(h, n + 1, base, step)
      BY <3>4, <3>5 DEF Computes
    <3> QED BY <3>3, <3>6
  <2> HIDE DEF S
  <2> QED BY <2>1, <2>2, Induction
<1> DEFINE U == {n \in Nat : \A g, h \in [Nat -> T] :
                    \A m \in Nat : n <= m /\ Computes(g, n, base, step) /\ Computes(h, m, base, step)
                        => g[n] = h[n]}
<1>2. \A n \in Nat : n \in U
  <2>1. 0 \in U
    BY DEF Computes
  <2>2. ASSUME NEW n \in Nat, n \in U PROVE n + 1 \in U
    <3> SUFFICES ASSUME NEW g \in [Nat -> T], NEW h \in [Nat -> T], NEW m \in Nat, n + 1 <= m,
                        Computes(g, n + 1, base, step), Computes(h, m, base, step)
                 PROVE  g[n + 1] = h[n + 1]
      OBVIOUS
    <3>1. Computes(g, n, base, step) /\ n <= m
      BY DEF Computes
    <3>2. g[n] = h[n]
      BY <2>2, <3>1
    <3>3. g[n + 1] = step[<<n, g[n]>>] /\ h[n + 1] = step[<<n, h[n]>>]
      BY DEF Computes
    <3> QED BY <3>2, <3>3
  <2> HIDE DEF U
  <2> QED BY <2>1, <2>2, Induction
<1> DEFINE pick == [n \in Nat |-> CHOOSE g \in [Nat -> T] : Computes(g, n, base, step)]
           f == [n \in Nat |-> pick[n][n]]
<1>3. \A n \in Nat : pick[n] \in [Nat -> T] /\ Computes(pick[n], n, base, step)
  BY <1>1
<1> HIDE DEF pick, S
<1>4. f \in [Nat -> T] /\ \A n \in Nat : f[n] = pick[n][n]
  BY <1>3
<1> HIDE DEF f
<1>5. f[0] = base
  BY <1>3, <1>4 DEF Computes
<1>6. ASSUME NEW n \in Nat PROVE f[n + 1] = step[<<n, f[n]>>]
  <2>1. pick[n][n] = pick[n + 1][n]
    BY <1>2, <1>3
  <2>2. pick[n + 1][n + 1] = step[<<n, pick[n + 1][n]>>]
    BY <1>3 DEF Computes
  <2> QED BY <1>4, <2>1, <2>2
<1> QED BY <1>4, <1>5, <1>6 DEF Solves

------------------------------------------------------------------------------
(* Sequences put together. *)

\* A function that grows with every step grows over any number of steps.
LEMMA Ascends ==
    ASSUME NEW n \in Nat, NEW e \in [0 .. n -> Nat],
           \A k \in 1 .. n : e[k - 1] <= e[k]
    PROVE  \A i, j \in 0 .. n : i <= j => e[i] <= e[j]
<1> SUFFICES ASSUME NEW i \in 0 .. n PROVE \A j \in 0 .. n : i <= j => e[i] <= e[j]
  OBVIOUS
<1> DEFINE S == {d \in Nat : i + d <= n => e[i] <= e[i + d]}
<1>1. 0 \in S
  <2>1. i + 0 = i /\ e[i] \in Nat
    OBVIOUS
  <2> QED BY <2>1
<1>2. ASSUME NEW d \in Nat, d \in S PROVE d + 1 \in S
  <2> SUFFICES ASSUME i + (d + 1) <= n PROVE e[i] <= e[i + (d + 1)]
    OBVIOUS
  <2>1. i + d <= n /\ i + (d + 1) \in 1 .. n /\ (i + (d + 1)) - 1 = i + d /\ i + d \in 0 .. n
        /\ i + (d + 1) \in 0 .. n
    OBVIOUS
  <2>2. e[i + d] <= e[i + (d + 1)]
    BY <2>1
  <2>3. e[i] <= e[i + d]
    BY <1>2, <2>1
  <2>4. e[i] \in Nat /\ e[i + d] \in Nat /\ e[i + (d + 1)] \in Nat
    BY <2>1
  <2> QED BY <2>2, <2>3, <2>4
<1> HIDE DEF S
<1>3. \A d \in Nat : d \in S
  BY <1>1, <1>2, Induction, Zenon
<1>4. ASSUME NEW j \in 0 .. n, i <= j PROVE e[i] <= e[j]
  <2>1. j - i \in Nat /\ i + (j - i) = j /\ j <= n
    BY <1>4
  <2>2. j - i \in S
    BY <1>3, <2>1
  <2> QED BY <2>1, <2>2 DEF S
<1> QED BY <1>4

\* The length and the domain of a sequence.
LEMMA SeqShape ==
    ASSUME NEW S, NEW seq \in Seq(S)
    PROVE  /\ Len(seq) \in Nat /\ seq \in [1 .. Len(seq) -> S] /\ DOMAIN seq = 1 .. Len(seq)
           /\ seq # <<>> => Len(seq) # 0
<1>1. Len(seq) \in Nat /\ seq \in [1 .. Len(seq) -> S] /\ DOMAIN seq = 1 .. Len(seq)
  OBVIOUS
<1>2. seq # <<>> => Len(seq) # 0
  OBVIOUS
<1> QED BY <1>1, <1>2, Zenon

\* Sequences of the same elements are the same.
LEMMA SeqSame ==
    ASSUME NEW S, NEW s \in Seq(S), NEW t \in Seq(S),
           Len(s) = Len(t), \A i \in 1 .. Len(s) : s[i] = t[i]
    PROVE  s = t
  OBVIOUS

\* A part of a sequence, by position.
LEMMA SubSeqAt ==
    ASSUME NEW S, NEW s, NEW m \in Int, NEW n \in Int, \A i \in m .. n : s[i] \in S
    PROVE  /\ SubSeq(s, m, n) \in Seq(S)
           /\ Len(SubSeq(s, m, n)) = IF m <= n THEN n - m + 1 ELSE 0
           /\ \A i \in 1 .. n - m + 1 : SubSeq(s, m, n)[i] = s[m + i - 1]
  OBVIOUS

\* The smallest part of a sequence and the largest.
LEMMA SubSeqEnds ==
    ASSUME NEW S, NEW seq \in Seq(S)
    PROVE  /\ SubSeq(seq, 1, 0) = <<>> /\ SubSeq(seq, 1, Len(seq)) = seq
           /\ seq \o <<>> = seq
<1>1. SubSeq(seq, 1, 0) = <<>>
  OBVIOUS
<1>2. SubSeq(seq, 1, Len(seq)) = seq
  OBVIOUS
<1>3. seq \o <<>> = seq
  OBVIOUS
<1> QED BY <1>1, <1>2, <1>3

\* Append by position.
LEMMA AppendAt ==
    ASSUME NEW S, NEW seq \in Seq(S), NEW elt \in S
    PROVE  /\ Append(seq, elt) \in Seq(S) /\ Len(Append(seq, elt)) = Len(seq) + 1
           /\ \A i \in 1 .. Len(seq) : Append(seq, elt)[i] = seq[i]
           /\ Append(seq, elt)[Len(seq) + 1] = elt
  OBVIOUS

\* Concatenation by position.
LEMMA ConcatAt ==
    ASSUME NEW S, NEW a \in Seq(S), NEW b \in Seq(S)
    PROVE  /\ a \o b \in Seq(S) /\ Len(a) \in Nat /\ Len(b) \in Nat
           /\ Len(a \o b) = Len(a) + Len(b)
           /\ \A i \in 1 .. Len(a) : (a \o b)[i] = a[i]
           /\ \A i \in 1 .. Len(b) : (a \o b)[Len(a) + i] = b[i]
<1>1. Len(a) \in Nat /\ Len(b) \in Nat
  OBVIOUS
<1>2. /\ a \o b \in Seq(S) /\ Len(a \o b) = Len(a) + Len(b)
      /\ \A i \in 1 .. Len(a) + Len(b) :
            (a \o b)[i] = IF i <= Len(a) THEN a[i] ELSE b[i - Len(a)]
  OBVIOUS
<1> DEFINE m == Len(a)
           n == Len(b)
           c == a \o b
<1> HIDE DEF m, n, c
<1>3. ASSUME NEW i \in 1 .. m PROVE c[i] = a[i]
  <2>1. i \in 1 .. m + n /\ i <= m
    BY <1>1 DEF m, n
  <2> QED BY <1>2, <2>1 DEF m, n, c
<1>4. ASSUME NEW i \in 1 .. n PROVE c[m + i] = b[i]
  <2>1. m + i \in 1 .. m + n /\ ~(m + i <= m) /\ (m + i) - m = i
    BY <1>1 DEF m, n
  <2> QED BY <1>2, <2>1 DEF m, n, c
<1> QED BY <1>1, <1>2, <1>3, <1>4 DEF m, n, c

Begins(a, b) == \A p \in 1 .. Len(a) : p \in 1 .. Len(b) /\ b[p] = a[p]

\* Appending keeps what a sequence begins with.
LEMMA BeginsConcat ==
    ASSUME NEW S, NEW a \in Seq(S), NEW b \in Seq(S), NEW c \in Seq(S), Begins(a, b)
    PROVE  Begins(a, b \o c)
<1> SUFFICES ASSUME NEW p \in 1 .. Len(a) PROVE p \in 1 .. Len(b \o c) /\ (b \o c)[p] = a[p]
  BY DEF Begins
<1>1. p \in 1 .. Len(b) /\ b[p] = a[p]
  BY DEF Begins
<1>2. /\ Len(b) \in Nat /\ Len(c) \in Nat /\ Len(b \o c) = Len(b) + Len(c)
      /\ (b \o c)[p] = b[p]
  BY <1>1, ConcatAt
<1> QED BY <1>1, <1>2

\* f appends one sequence after the other.
Joins(f, seqs, n) == \A i \in 1 .. n : f[i] = f[i - 1] \o seqs[i]

\* What has been appended stays in place.
LEMMA PrefixKept ==
    ASSUME NEW S, NEW n \in Nat, NEW f \in [0 .. n -> Seq(S)], NEW seqs \in [1 .. n -> Seq(S)],
           NEW k \in 0 .. n, Joins(f, seqs, n)
    PROVE  \A j \in k .. n : Begins(f[k], f[j])
<1> DEFINE T == {d \in Nat : k + d <= n => Begins(f[k], f[k + d])}
<1>1. 0 \in T
  <2>1. k + 0 = k
    OBVIOUS
  <2> QED BY <2>1 DEF Begins
<1>2. ASSUME NEW d \in Nat, d \in T PROVE d + 1 \in T
  <2> SUFFICES ASSUME k + (d + 1) <= n PROVE Begins(f[k], f[k + (d + 1)])
    OBVIOUS
  <2> DEFINE j == k + d
             m == k + (d + 1)
  <2>1. j \in Nat /\ m \in 1 .. n /\ m - 1 = j /\ j <= n /\ k \in Nat
    OBVIOUS
  <2>2. Begins(f[k], f[j])
    BY <1>2, <2>1
  <2> HIDE DEF j, m
  <2>3. f[m] = f[j] \o seqs[m]
    BY <2>1, Zenon DEF Joins
  <2>4. f[k] \in Seq(S) /\ f[j] \in Seq(S) /\ seqs[m] \in Seq(S)
    BY <2>1
  <2>5. Begins(f[k], f[m])
    BY <2>2, <2>3, <2>4, BeginsConcat, Zenon
  <2> QED BY <2>5 DEF m
<1> HIDE DEF T
<1>3. \A d \in Nat : d \in T
  BY <1>1, <1>2, Induction, Zenon
<1>4. ASSUME NEW j \in k .. n PROVE Begins(f[k], f[j])
  <2>1. j - k \in Nat /\ k + (j - k) = j /\ j <= n
    OBVIOUS
  <2>2. j - k \in T
    BY <1>3, <2>1
  <2> QED BY <2>1, <2>2 DEF T
<1> QED BY <1>4

Holds(c, n, piece) == \A i \in 1 .. Len(piece) : c[n + i] = piece[i]

\* Where a piece is found in what begins with it.
LEMMA PieceAt ==
    ASSUME NEW S, NEW a \in Seq(S), NEW piece \in Seq(S), NEW c \in Seq(S),
           Begins(a \o piece, c)
    PROVE  Holds(c, Len(a), piece)
<1> SUFFICES ASSUME NEW i \in 1 .. Len(piece) PROVE c[Len(a) + i] = piece[i]
  BY DEF Holds
<1>1. /\ Len(a) \in Nat /\ Len(piece) \in Nat /\ Len(a \o piece) = Len(a) + Len(piece)
      /\ (a \o piece)[Len(a) + i] = piece[i]
  BY ConcatAt
<1> DEFINE p == Len(a) + i
<1>2. p \in 1 .. Len(a \o piece)
  BY <1>1
<1> QED BY <1>1, <1>2 DEF Begins

\* Appending one more element of x.
LEMMA AppendTake ==
    ASSUME NEW S, NEW a \in Seq(S), NEW x \in Seq(S), NEW d \in Nat, d + 1 <= Len(x)
    PROVE  Append(a \o SubSeq(x, 1, d), x[d + 1]) = a \o SubSeq(x, 1, d + 1)
<1> DEFINE y == SubSeq(x, 1, d)
           z == SubSeq(x, 1, d + 1)
           m == Len(a)
           c == a \o y
           v == x[d + 1]
           lhs == Append(c, v)
           rhs == a \o z
<1>1. Len(x) \in Nat /\ \A i \in 1 .. Len(x) : x[i] \in S
  OBVIOUS
<1>2. y \in Seq(S) /\ Len(y) = d /\ \A i \in 1 .. d : y[i] = x[i]
  BY <1>1, SubSeqAt
<1>3. z \in Seq(S) /\ Len(z) = d + 1 /\ \A i \in 1 .. d + 1 : z[i] = x[i]
  BY <1>1, SubSeqAt
<1>4. v \in S
  BY <1>1
<1> HIDE DEF y, z, v, c, m, rhs
<1>5. /\ c \in Seq(S) /\ m \in Nat /\ Len(c) = m + d
      /\ \A i \in 1 .. m : c[i] = a[i]
      /\ \A i \in 1 .. d : c[m + i] = y[i]
  <2>1. Len(y) = d
    BY <1>2
  <2>2. /\ a \o y \in Seq(S) /\ Len(a) \in Nat /\ Len(a \o y) = Len(a) + Len(y)
        /\ \A i \in 1 .. Len(a) : (a \o y)[i] = a[i]
        /\ \A i \in 1 .. Len(y) : (a \o y)[Len(a) + i] = y[i]
    <3>1. y \in Seq(S)
      BY <1>2
    <3> QED BY <3>1, ConcatAt
  <2> QED BY <2>1, <2>2, Zenon DEF m, c
<1>6. /\ rhs \in Seq(S) /\ Len(rhs) = m + (d + 1)
      /\ \A i \in 1 .. m : rhs[i] = a[i]
      /\ \A i \in 1 .. d + 1 : rhs[m + i] = z[i]
  <2>1. Len(z) = d + 1
    BY <1>3
  <2>2. /\ a \o z \in Seq(S) /\ Len(a \o z) = Len(a) + Len(z)
        /\ \A i \in 1 .. Len(a) : (a \o z)[i] = a[i]
        /\ \A i \in 1 .. Len(z) : (a \o z)[Len(a) + i] = z[i]
    <3>1. z \in Seq(S)
      BY <1>3
    <3> QED BY <3>1, ConcatAt
  <2> QED BY <2>1, <2>2, Zenon DEF m, rhs
<1>7. /\ lhs \in Seq(S) /\ Len(lhs) = Len(c) + 1
      /\ \A i \in 1 .. Len(c) : lhs[i] = c[i]
      /\ lhs[Len(c) + 1] = v
  BY <1>4, <1>5, AppendAt
<1> HIDE DEF lhs
<1>8. ASSUME NEW i \in 1 .. Len(lhs) PROVE lhs[i] = rhs[i]
  <2>1. i \in Nat /\ i >= 1 /\ i <= m + d + 1
    BY <1>5, <1>7
  <2>2. CASE i <= m
    <3>1. i \in 1 .. m /\ i \in 1 .. Len(c)
      BY <1>5, <2>1, <2>2
    <3> QED BY <1>5, <1>6, <1>7, <3>1
  <2>3. CASE i > m /\ i <= m + d
    <3> DEFINE q == i - m
    <3>1. q \in 1 .. d /\ q \in 1 .. d + 1 /\ m + q = i /\ i \in 1 .. Len(c)
      BY <1>5, <2>1, <2>3
    <3> HIDE DEF q
    <3>2. lhs[i] = c[i]
      BY <1>7, <3>1
    <3>3. c[i] = y[q] /\ rhs[i] = z[q]
      BY <1>5, <1>6, <3>1
    <3>4. y[q] = x[q] /\ z[q] = x[q]
      BY <1>2, <1>3, <3>1
    <3> QED BY <3>2, <3>3, <3>4
  <2>4. CASE i = m + d + 1
    <3>0. m \in Nat /\ Len(c) = m + d
      BY <1>5, Zenon
    <3>1. i = Len(c) + 1 /\ i = m + (d + 1) /\ d + 1 \in 1 .. d + 1
      BY <2>4, <3>0
    <3>2. lhs[i] = v
      BY <1>7, <3>1
    <3>3. rhs[i] = z[d + 1] /\ z[d + 1] = x[d + 1]
      BY <1>3, <1>6, <3>1
    <3> QED BY <3>2, <3>3 DEF v
  <2> QED BY <1>5, <2>1, <2>2, <2>3, <2>4
<1>9. Len(lhs) = Len(rhs)
  BY <1>5, <1>6, <1>7
<1>10. lhs = rhs
  BY <1>6, <1>7, <1>8, <1>9, SeqSame
<1> QED BY <1>10, Zenon DEF lhs, rhs, c, v, y, z

=============================================================================
