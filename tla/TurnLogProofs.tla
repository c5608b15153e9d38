------------------------ MODULE TurnLogProofs ------------------------
(***************************************************************************)
(* Proofs about the log of turns, for any number of calls, events, crashes *)
(* and budgets.                                                            *)
(*                                                                         *)
(* IInv, for any number of facades: only answers make calls, each once;    *)
(* what tells of a call is in the thread that made it; every summary       *)
(* covers what precedes what it keeps.  It gives the type invariant and    *)
(* NothingForgotten.                                                       *)
(*                                                                         *)
(* SInv, for one facade: what is told of a call is told once, a START      *)
(* before its END, in the log or in what the recovery still has to append. *)
(* It gives CallsArePaired, and with the sanitizer ContextWellFormed: the  *)
(* sanitizer makes a well formed sequence of every clean one, in which no  *)
(* call is made twice and none is answered twice.                          *)
(***************************************************************************)
EXTENDS TurnLog, TLAPS, NaturalsInduction, WellFoundedInduction, FiniteSetTheorems, SequenceTheorems

------------------------------------------------------------------------------
(* Concatenation: Flat, by the least prefix that would be wrong.           *)

\* A set of numbers that is not empty has a least element: the induction this module uses.
LEMMA LeastOf == ASSUME NEW T \in SUBSET Nat, T # {} PROVE \E s \in T : \A q \in T : s <= q
<1> DEFINE R == {ss \in Nat \X Nat : ss[1] < ss[2]}
<1>1. IsWellFoundedOn(R, Nat)
  BY NatLessThanWellFounded DEF OpToRel
<1> HIDE DEF R
<1>2. PICK s \in T : \A q \in T : ~(<<q, s>> \in R)
  BY <1>1, WFMin
<1>3. ASSUME NEW q \in T PROVE s <= q
  <2>1. ~(<<q, s>> \in R)
    BY <1>2
  <2> QED BY <2>1 DEF R
<1> QED BY <1>3

\* f has the concatenation of the first i sequences at i.
Joins(f, ss, n) == f = [i \in 0 .. n |-> IF i = 0 THEN <<>> ELSE f[i - 1] \o ss[i]]

\* The prefixes of a concatenation are those of its definition.
LEMMA Joinable ==
  ASSUME NEW ss, NEW n \in Nat PROVE \E f : Joins(f, ss, n)
<1> DEFINE Bad == {N \in Nat : ~\E f : Joins(f, ss, N)}
<1>1. SUFFICES ASSUME Bad # {} PROVE FALSE
  OBVIOUS
<1>2. PICK N \in Bad : \A M \in Bad : N <= M
  BY <1>1, LeastOf
<1>3. CASE N = 0
  <2>1. Joins([i \in 0 .. 0 |-> <<>>], ss, 0)
    BY DEF Joins
  <2> QED BY <1>2, <1>3, <2>1
<1>4. CASE N # 0
  <2>1. N - 1 \in Nat /\ N - 1 \notin Bad
    BY <1>2, <1>4
  <2>2. PICK f : Joins(f, ss, N - 1)
    BY <2>1
  <2> DEFINE g == [i \in 0 .. N |-> IF i <= N - 1 THEN f[i]
                                    ELSE IF i = 0 THEN <<>> ELSE f[i - 1] \o ss[i]]
  <2>3. \A i \in 0 .. N - 1 : g[i] = f[i]
    BY <2>1
  <2>4. \A i \in 0 .. N : g[i] = IF i = 0 THEN <<>> ELSE g[i - 1] \o ss[i]
    <3> SUFFICES ASSUME NEW i \in 0 .. N
                 PROVE  g[i] = IF i = 0 THEN <<>> ELSE g[i - 1] \o ss[i]
      OBVIOUS
    <3>1. CASE i = 0
      <4>1. f[0] = <<>>
        BY <2>1, <2>2 DEF Joins
      <4> QED BY <3>1, <4>1, <2>1
    <3>2. CASE i # 0
      <4>1. i - 1 \in 0 .. N - 1 /\ g[i - 1] = f[i - 1]
        BY <2>3, <3>2, <2>1
      <4>2. i <= N - 1 => f[i] = f[i - 1] \o ss[i]
        BY <2>1, <2>2, <3>2 DEF Joins
      <4>3. CASE i <= N - 1
        <5>1. g[i] = f[i]
          BY <2>3, <4>3
        <5> HIDE DEF g
        <5> QED BY <5>1, <4>1, <4>2, <4>3, <3>2
      <4>4. CASE ~(i <= N - 1)
        <5>1. g[i] = f[i - 1] \o ss[i]
          BY <4>4, <3>2
        <5> HIDE DEF g
        <5> QED BY <5>1, <4>1, <3>2
      <4> QED BY <4>3, <4>4
    <3> QED BY <3>1, <3>2
  <2>5. g = [i \in 0 .. N |-> IF i = 0 THEN <<>> ELSE g[i - 1] \o ss[i]]
    <3>1. g = [i \in 0 .. N |-> g[i]]
      OBVIOUS
    <3> HIDE DEF g
    <3> QED BY <3>1, <2>4
  <2> HIDE DEF g
  <2>6. Joins(g, ss, N)
    BY <2>5 DEF Joins
  <2> QED BY <2>6
<1> QED BY <1>3, <1>4

\* Flat joins one piece after the other.
LEMMA FlatJoins ==
  ASSUME NEW ss, NEW n \in Nat
  PROVE  \E f : Joins(f, ss, n) /\ Flat(ss, n) = f[n]
<1> DEFINE f == CHOOSE f : f = [i \in 0 .. n |-> IF i = 0 THEN <<>> ELSE f[i - 1] \o ss[i]]
<1>1. Flat(ss, n) = f[n]
  BY DEF Flat
<1>2. f = [i \in 0 .. n |-> IF i = 0 THEN <<>> ELSE f[i - 1] \o ss[i]]
  <2>1. \E g : g = [i \in 0 .. n |-> IF i = 0 THEN <<>> ELSE g[i - 1] \o ss[i]]
    <3>1. PICK g : Joins(g, ss, n)
      BY Joinable
    <3> QED BY <3>1 DEF Joins
  <2> QED BY <2>1, Zenon
<1> HIDE DEF f
<1> QED BY <1>1, <1>2 DEF Joins

\* off is where each of the first n sequences ends in their concatenation.
Offsets(off, ss, n) ==
  /\ off \in [0 .. n -> Nat] /\ off[0] = 0
  /\ \A i \in 1 .. n : off[i] = off[i - 1] + Len(ss[i])
Measured(ss, n) == \A i \in 1 .. n : Len(ss[i]) \in Nat
\* r is laid out along off.
Laid(off, ss, n, r) ==
  /\ Offsets(off, ss, n) /\ Len(r) = off[n]
  /\ \A i \in 1 .. n : \A j \in 1 .. Len(ss[i]) : r[off[i - 1] + j] = ss[i][j]
Pieces(ss, n, E) == \A i \in 1 .. n : ss[i] \in Seq(E)

\* What is joined of sequences over S is a sequence over S.
LEMMA JoinTypes ==
  ASSUME NEW E, NEW ss, NEW n \in Nat, Pieces(ss, n, E), NEW f, Joins(f, ss, n)
  PROVE  /\ \A i \in 0 .. n : f[i] \in Seq(E)
         /\ f[0] = <<>> /\ \A i \in 1 .. n : f[i] = f[i - 1] \o ss[i]
<1>1. f[0] = <<>> /\ \A i \in 1 .. n : f[i] = f[i - 1] \o ss[i]
  BY DEF Joins
<1> DEFINE Bad == {i \in Nat : i \in 0 .. n /\ f[i] \notin Seq(E)}
<1>2. SUFFICES ASSUME Bad # {} PROVE FALSE
  <2>1. ASSUME Bad = {} PROVE \A i \in 0 .. n : f[i] \in Seq(E)
    <3> SUFFICES ASSUME NEW i \in 0 .. n PROVE f[i] \in Seq(E)
      OBVIOUS
    <3>1. i \in Nat
      OBVIOUS
    <3> QED BY <2>1, <3>1
  <2> HIDE DEF Bad
  <2> QED BY <1>1, <2>1
<1>3. PICK i \in Bad : \A k \in Bad : i <= k
  BY <1>2, LeastOf
<1>4. i # 0
  <2>1. f[0] \in Seq(E)
    BY <1>1, EmptySeq
  <2> QED BY <1>3, <2>1
<1>5. i \in 1 .. n /\ i - 1 \in 0 .. n /\ i - 1 \notin Bad
  BY <1>3, <1>4
<1>6. f[i - 1] \in Seq(E) /\ ss[i] \in Seq(E)
  BY <1>5 DEF Pieces
<1>7. f[i] \in Seq(E)
  BY <1>1, <1>5, <1>6, ConcatProperties
<1> QED BY <1>3, <1>7

\* Offsets never fall.
LEMMA OffsetsGrow ==
  ASSUME NEW ss, NEW n \in Nat, NEW off, Offsets(off, ss, n),
         Measured(ss, n),
         NEW i \in 0 .. n, NEW k \in 0 .. n, i <= k
  PROVE  off[i] <= off[k]
<1> DEFINE Bad == {m \in Nat : m \in 0 .. n /\ m >= i /\ ~(off[i] <= off[m])}
<1>1. SUFFICES ASSUME Bad # {} PROVE FALSE
  OBVIOUS
<1>2. PICK m \in Bad : \A l \in Bad : m <= l
  BY <1>1, LeastOf
<1>3. off[i] \in Nat /\ off[m] \in Nat
  BY <1>2 DEF Offsets
<1>4. m # i
  BY <1>2, <1>3
<1>5. m - 1 \in 0 .. n /\ m - 1 >= i /\ m - 1 \notin Bad /\ m \in 1 .. n
  BY <1>2, <1>4
<1>6. off[i] <= off[m - 1] /\ off[m - 1] \in Nat
  BY <1>5 DEF Offsets
<1>7. off[m] = off[m - 1] + Len(ss[m]) /\ Len(ss[m]) \in Nat
  BY <1>5 DEF Offsets, Measured
<1> QED BY <1>2, <1>3, <1>6, <1>7

\* Each piece of Flat lies at its offset.
LEMMA FlatLaid ==
  ASSUME NEW E, NEW ss, NEW n \in Nat, Pieces(ss, n, E)
  PROVE  Flat(ss, n) \in Seq(E) /\ \E off : Laid(off, ss, n, Flat(ss, n))
<1>1. PICK f : Joins(f, ss, n) /\ Flat(ss, n) = f[n]
  BY FlatJoins
<1>2. /\ \A i \in 0 .. n : f[i] \in Seq(E)
      /\ f[0] = <<>> /\ \A i \in 1 .. n : f[i] = f[i - 1] \o ss[i]
  BY <1>1, JoinTypes
<1> DEFINE off == [i \in 0 .. n |-> Len(f[i])]
<1>3. Offsets(off, ss, n)
  <2>1. off \in [0 .. n -> Nat] /\ off[0] = 0
    BY <1>2, EmptySeq, LenProperties
  <2>2. ASSUME NEW i \in 1 .. n PROVE off[i] = off[i - 1] + Len(ss[i])
    <3>1. i - 1 \in 0 .. n /\ i \in 0 .. n
      OBVIOUS
    <3>2. f[i - 1] \in Seq(E) /\ ss[i] \in Seq(E) /\ f[i] = f[i - 1] \o ss[i]
      BY <1>2, <3>1 DEF Pieces
    <3>3. Len(f[i]) = Len(f[i - 1]) + Len(ss[i])
      BY <3>2, ConcatProperties
    <3> QED BY <3>1, <3>3
  <2> HIDE DEF off
  <2> QED BY <2>1, <2>2 DEF Offsets
<1>4. \A i \in 1 .. n : ss[i] \in Seq(E) /\ Len(ss[i]) \in Nat
  BY LenProperties DEF Pieces
<1>5. \A i \in 0 .. n : Len(f[i]) = off[i]
  OBVIOUS
<1> HIDE DEF off
<1>6. ASSUME NEW i \in 1 .. n, NEW j \in 1 .. Len(ss[i]) PROVE f[n][off[i - 1] + j] = ss[i][j]
  <2> DEFINE Bad == {m \in Nat : m \in 0 .. n /\ m >= i /\ f[m][off[i - 1] + j] # ss[i][j]}
  <2>1. SUFFICES ASSUME Bad # {} PROVE FALSE
    OBVIOUS
  <2>2. PICK m \in Bad : \A l \in Bad : m <= l
    BY <2>1, LeastOf
  <2>3. m \in 1 .. n /\ m - 1 \in 0 .. n
    BY <2>2
  <2>4. f[m - 1] \in Seq(E) /\ ss[m] \in Seq(E) /\ f[m] = f[m - 1] \o ss[m]
    BY <1>2, <1>4, <2>3
  <2>5. off[i - 1] \in Nat /\ off[i] \in Nat /\ off[m - 1] \in Nat /\ off[i] = off[i - 1] + Len(ss[i])
    BY <1>3, <2>3 DEF Offsets
  <2>6. CASE m = i
    <3>1. Len(f[i - 1]) = off[i - 1]
      BY <1>5
    <3>2. f[i] = f[i - 1] \o ss[i]
      BY <2>4, <2>6
    <3>3. f[i][off[i - 1] + j] = ss[i][j]
      <4> DEFINE a == f[i - 1]
                 b == ss[i]
      <4>1. a \in Seq(E) /\ b \in Seq(E) /\ f[i] = a \o b /\ off[i - 1] = Len(a) /\ j \in 1 .. Len(b)
        BY <3>1, <2>4, <2>6
      <4> HIDE DEF a, b
      <4>2. Len(a) \in Nat /\ Len(b) \in Nat
        BY <4>1, LenProperties
      <4>3. Len(a) + j \in 1 .. Len(a) + Len(b) /\ ~(Len(a) + j <= Len(a)) /\ (Len(a) + j) - Len(a) = j
        BY <4>1, <4>2
      <4>4. (a \o b)[Len(a) + j] = b[j]
        BY <4>1, <4>3, ConcatProperties
      <4> QED BY <4>1, <4>4 DEF b
    <3> QED BY <2>2, <2>6, <3>3
  <2>7. CASE m # i
    <3>1. m - 1 >= i /\ m - 1 \notin Bad
      BY <2>2, <2>3, <2>7
    <3>2. off[i] <= off[m - 1]
      <4>1. Measured(ss, n)
        BY <1>4 DEF Measured
      <4> QED BY <1>3, <2>3, <3>1, <4>1, OffsetsGrow
    <3>3. off[i - 1] + j \in 1 .. Len(f[m - 1])
      <4>1. Len(f[m - 1]) = off[m - 1] /\ Len(ss[i]) \in Nat
        BY <1>4, <1>5, <2>3
      <4> DEFINE x == off[i - 1]
                 y == off[i]
                 z == off[m - 1]
                 w == Len(ss[i])
      <4>2. x \in Nat /\ y \in Nat /\ z \in Nat /\ w \in Nat /\ y = x + w /\ y <= z /\ j \in 1 .. w
        BY <4>1, <2>5, <3>2
      <4> HIDE DEF x, y, z, w
      <4>3. x + j \in 1 .. z
        BY <4>2
      <4> QED BY <4>1, <4>3 DEF x, z
    <3>4. f[m][off[i - 1] + j] = f[m - 1][off[i - 1] + j]
      <4> DEFINE a == f[m - 1]
                 b == ss[m]
                 x == off[i - 1] + j
      <4>1. a \in Seq(E) /\ b \in Seq(E) /\ f[m] = a \o b /\ x \in 1 .. Len(a)
        BY <2>4, <3>3
      <4> HIDE DEF a, b, x
      <4>2. Len(a) \in Nat /\ Len(b) \in Nat
        BY <4>1, LenProperties
      <4>3. (a \o b)[x] = a[x]
        BY <4>1, <4>2, ConcatProperties
      <4> QED BY <4>1, <4>3 DEF a, x
    <3> QED BY <2>2, <2>3, <3>1, <3>4
  <2> QED BY <2>6, <2>7
<1>7. Laid(off, ss, n, f[n])
  BY <1>3, <1>5, <1>6 DEF Laid
<1> QED BY <1>1, <1>2, <1>7

\* Every place of the whole is in one of the pieces.
LEMMA OffsetsCover ==
  ASSUME NEW ss, NEW n \in Nat, NEW off, Offsets(off, ss, n),
         Measured(ss, n), NEW k \in 1 .. off[n]
  PROVE  \E i \in 1 .. n : \E j \in 1 .. Len(ss[i]) : k = off[i - 1] + j
<1> DEFINE T == {i \in Nat : i \in 0 .. n /\ k <= off[i]}
<1>1. off[n] \in Nat /\ off[0] = 0 /\ \A i \in 0 .. n : off[i] \in Nat
  BY DEF Offsets
<1>2. n \in T
  BY <1>1
<1>3. PICK i \in T : \A l \in T : i <= l
  BY <1>2, LeastOf
<1>4. i # 0
  BY <1>1, <1>3
<1>5. i \in 1 .. n /\ i - 1 \in 0 .. n /\ i - 1 \notin T
  BY <1>3, <1>4
<1>6. off[i - 1] < k /\ k <= off[i] /\ off[i] = off[i - 1] + Len(ss[i]) /\ off[i - 1] \in Nat
  BY <1>1, <1>3, <1>5 DEF Offsets
<1>7. k - off[i - 1] \in 1 .. Len(ss[i]) /\ k = off[i - 1] + (k - off[i - 1])
  BY <1>5, <1>6 DEF Measured
<1> QED BY <1>5, <1>7

\* Where things stand in the concatenation is their order in the pieces.
LEMMA OffsetsOrder ==
  ASSUME NEW ss, NEW n \in Nat, NEW off, Offsets(off, ss, n),
         Measured(ss, n),
         NEW i \in 1 .. n, NEW k \in 1 .. n, NEW j \in 1 .. Len(ss[i]), NEW l \in 1 .. Len(ss[k]),
         off[i - 1] + j <= off[k - 1] + l
  PROVE  i < k \/ (i = k /\ j <= l)
<1>1. off[i - 1] \in Nat /\ off[k - 1] \in Nat /\ off[k] \in Nat
  BY DEF Offsets
<1>2. off[k] = off[k - 1] + Len(ss[k])
  BY DEF Offsets
<1>3. k < i => off[k] <= off[i - 1]
  BY OffsetsGrow
<1>4. ~(k < i)
  BY <1>1, <1>2, <1>3
<1> QED BY <1>1, <1>4 DEF Measured

------------------------------------------------------------------------------
(* Filter and InOrder.                                                     *)

\* r is what h picks of s: every entry in S, in its order.
Picks(h, s, S, r) ==
  /\ h \in [1 .. Len(r) -> 1 .. Len(s)]
  /\ \A k \in 1 .. Len(r) : r[k] = s[h[k]] /\ r[k] \in S
  /\ \A k, l \in 1 .. Len(r) : k < l => h[k] < h[l]
  /\ \A i \in 1 .. Len(s) : s[i] \in S => \E k \in 1 .. Len(r) : h[k] = i

\* Filter keeps the members of S, all of them, in their order.
LEMMA FilterPicks ==
  ASSUME NEW E, NEW s \in Seq(E), NEW S
  PROVE  Filter(s, S) \in Seq(E) /\ \E h : Picks(h, s, S, Filter(s, S))
<1> DEFINE n == Len(s)
           ss == [i \in DOMAIN s |-> IF s[i] \in S THEN <<s[i]>> ELSE <<>>]
           r == Filter(s, S)
<1>1. n \in Nat /\ DOMAIN s = 1 .. n /\ \A i \in 1 .. n : s[i] \in E
  BY LenProperties
<1>2. r = Flat(ss, n)
  BY DEF Filter
<1>3. \A i \in 1 .. n : ss[i] = IF s[i] \in S THEN <<s[i]>> ELSE <<>>
  BY <1>1
<1> HIDE DEF ss, r, n
<1>4. \A i \in 1 .. n : /\ ss[i] \in Seq(E) /\ Len(ss[i]) \in Nat
                        /\ Len(ss[i]) = IF s[i] \in S THEN 1 ELSE 0
                        /\ s[i] \in S => ss[i][1] = s[i]
  <2> SUFFICES ASSUME NEW i \in 1 .. n
               PROVE  /\ ss[i] \in Seq(E) /\ Len(ss[i]) \in Nat
                      /\ Len(ss[i]) = IF s[i] \in S THEN 1 ELSE 0
                      /\ s[i] \in S => ss[i][1] = s[i]
    OBVIOUS
  <2>1. CASE s[i] \in S
    <3>1. ss[i] = <<s[i]>> /\ s[i] \in E
      BY <1>1, <1>3, <2>1
    <3> QED BY <3>1, <2>1
  <2>2. CASE s[i] \notin S
    <3>1. ss[i] = <<>>
      BY <1>3, <2>2
    <3> QED BY <3>1, <2>2
  <2> QED BY <2>1, <2>2
<1>4a. Measured(ss, n)
  BY <1>4 DEF Measured
<1>5. Pieces(ss, n, E)
  BY <1>4 DEF Pieces
<1>6. r \in Seq(E) /\ \E off : Laid(off, ss, n, r)
  BY <1>1, <1>2, <1>5, FlatLaid
<1>7. PICK off : Laid(off, ss, n, r)
  BY <1>6
<1>8. /\ Offsets(off, ss, n) /\ Len(r) = off[n]
      /\ \A i \in 1 .. n : s[i] \in S => r[off[i - 1] + 1] = s[i]
  BY <1>4, <1>7 DEF Laid
<1>8a. Offsets(off, ss, n) /\ Len(r) = off[n]
  BY <1>8
<1>9. Len(r) \in Nat /\ \A i \in 0 .. n : off[i] \in Nat
  BY <1>1, <1>8 DEF Offsets
<1>10. ASSUME NEW k \in 1 .. Len(r)
       PROVE  \E i \in 1 .. n : s[i] \in S /\ k = off[i - 1] + 1
  <2>1. PICK i \in 1 .. n : \E j \in 1 .. Len(ss[i]) : k = off[i - 1] + j
    <3>1. k \in 1 .. off[n]
      BY <1>8a
    <3>2. n \in Nat /\ Offsets(off, ss, n)
      BY <1>1, <1>8a
    <3> QED BY <1>4a, <3>1, <3>2, OffsetsCover
  <2>2. s[i] \in S /\ k = off[i - 1] + 1
    BY <2>1, <1>4
  <2> QED BY <2>1, <2>2
<1> DEFINE h == [k \in 1 .. Len(r) |-> CHOOSE i \in 1 .. n : s[i] \in S /\ k = off[i - 1] + 1]
<1>11. \A k \in 1 .. Len(r) : h[k] \in 1 .. n /\ s[h[k]] \in S /\ k = off[h[k] - 1] + 1
  BY <1>10
<1>12. h \in [1 .. Len(r) -> 1 .. n]
  BY <1>11
<1> HIDE DEF h
<1>13. ASSUME NEW k \in 1 .. Len(r), NEW l \in 1 .. Len(r), k < l PROVE h[k] < h[l]
  <2> DEFINE i == h[k]
             m == h[l]
  <2>1. i \in 1 .. n /\ m \in 1 .. n /\ s[i] \in S /\ s[m] \in S /\ k = off[i - 1] + 1 /\ l = off[m - 1] + 1
    BY <1>11
  <2> HIDE DEF i, m
  <2>2. 1 \in 1 .. Len(ss[i]) /\ 1 \in 1 .. Len(ss[m])
    BY <1>4, <2>1
  <2>3. off[i - 1] + 1 <= off[m - 1] + 1
    BY <1>13, <2>1
  <2>4. i < m \/ i = m
    BY <1>1, <1>4a, <1>8a, <2>1, <2>2, <2>3, OffsetsOrder
  <2>5. i # m
    BY <1>13, <2>1
  <2> QED BY <2>4, <2>5 DEF i, m
<1>14. \A k \in 1 .. Len(r) : r[k] = s[h[k]] /\ r[k] \in S
  BY <1>8, <1>11
<1>15. ASSUME NEW i \in 1 .. n, s[i] \in S PROVE \E k \in 1 .. Len(r) : h[k] = i
  <2> DEFINE k == off[i - 1] + 1
  <2>1. i - 1 \in 0 .. n /\ i \in 0 .. n /\ n \in 0 .. n /\ i <= n
    BY <1>1
  <2>2. off[i] <= off[n]
    BY <1>1, <1>4a, <1>8a, <2>1, OffsetsGrow
  <2>3. off[i] = off[i - 1] + 1 /\ off[i - 1] \in Nat /\ off[i] \in Nat
    BY <1>4, <1>8, <1>9, <1>15, <2>1 DEF Offsets
  <2>4. k \in 1 .. Len(r)
    BY <1>8, <1>9, <2>2, <2>3
  <2> DEFINE m == h[k]
  <2>5. m \in 1 .. n /\ s[m] \in S /\ off[i - 1] + 1 = off[m - 1] + 1
    BY <1>11, <2>4
  <2> HIDE DEF m
  <2>6. 1 \in 1 .. Len(ss[i]) /\ 1 \in 1 .. Len(ss[m]) /\ off[i - 1] + 1 <= off[m - 1] + 1
        /\ off[m - 1] + 1 <= off[i - 1] + 1
    <3>1. m - 1 \in 0 .. n
      BY <1>1, <2>5
    <3>2. off[m - 1] \in Nat /\ off[i - 1] \in Nat
      BY <3>1, <1>9, <2>3
    <3> QED BY <1>4, <1>15, <2>5, <3>2
  <2>7. (i < m \/ i = m) /\ (m < i \/ m = i)
    BY <1>1, <1>4a, <1>8a, <2>5, <2>6, OffsetsOrder
  <2>8. m = i
    BY <2>7, <2>5
  <2> QED BY <2>4, <2>8 DEF m
<1>16. Picks(h, s, S, r)
  BY <1>12, <1>13, <1>14, <1>15 DEF Picks, n
<1> QED BY <1>6, <1>16 DEF r

\* What InOrder lists of a set, without gaps and without repetition.
LEMMA InOrderIs ==
  ASSUME NEW S, NEW n \in Nat
  PROVE  /\ InOrder(S, n) \in Seq(1 .. n)
         /\ \A k, l \in 1 .. Len(InOrder(S, n)) : k < l => InOrder(S, n)[k] < InOrder(S, n)[l]
         /\ \A k \in 1 .. Len(InOrder(S, n)) : InOrder(S, n)[k] \in S
         /\ \A i \in 1 .. n : i \in S => \E k \in 1 .. Len(InOrder(S, n)) : InOrder(S, n)[k] = i
<1> DEFINE s == [i \in 1 .. n |-> i]
           r == InOrder(S, n)
<1>1. r = Filter(s, S)
  BY DEF InOrder
<1>2. s \in Seq(1 .. n) /\ Len(s) = n /\ \A i \in 1 .. n : s[i] = i
  OBVIOUS
<1> HIDE DEF s, r
<1>3. PICK h : Picks(h, s, S, r) /\ r \in Seq(1 .. n)
  BY <1>1, <1>2, FilterPicks
<1>4. \A k \in 1 .. Len(r) : r[k] = h[k] /\ h[k] \in 1 .. n /\ r[k] \in S
  BY <1>2, <1>3 DEF Picks
<1> QED BY <1>2, <1>3, <1>4 DEF Picks, r

------------------------------------------------------------------------------
(* Messages: the calls they make and the answers they are.                 *)

Msgs ==
  [role : {"assistant", "result", "summary", "user"}, calls : SUBSET Calls,
   call : Calls \cup {None}, empty : BOOLEAN]

\* What the sanitizer relies on: calls and results are there once.
MakesOK(ms) ==
  /\ \A i \in 1 .. Len(ms) : ms[i].role # "assistant" => ms[i].calls = {}
  /\ \A i, j \in 1 .. Len(ms) : ms[i].calls \cap ms[j].calls # {} => i = j
ResultsOnce(ms) ==
  \A i, j \in 1 .. Len(ms) :
    ms[i].role = "result" /\ ms[j].role = "result" /\ ms[i].call = ms[j].call => i = j
Clean(ms) == ms \in Seq(Msgs) /\ MakesOK(ms) /\ ResultsOnce(ms)

\* The results that answer C: one of each call.
Answers(r, C) ==
  /\ r \in Seq(Msgs)
  /\ \A k \in 1 .. Len(r) : r[k].role = "result" /\ r[k].calls = {} /\ r[k].call \in C
  /\ \A c \in C : \E k \in 1 .. Len(r) : r[k].call = c
  /\ \A k, l \in 1 .. Len(r) : r[k].call = r[l].call => k = l

\* The answers of a call are the answers in both halves.
LEMMA AnswersConcat ==
  ASSUME NEW C, NEW D, NEW a, NEW b, Answers(a, C), Answers(b, D), C \cap D = {}
  PROVE  Answers(a \o b, C \cup D)
<1> DEFINE r == a \o b
           n == Len(a)
           m == Len(b)
<1>1. a \in Seq(Msgs) /\ b \in Seq(Msgs)
  BY DEF Answers
<1>2. n \in Nat /\ m \in Nat /\ r \in Seq(Msgs) /\ Len(r) = n + m
      /\ \A k \in 1 .. n + m : r[k] = IF k <= n THEN a[k] ELSE b[k - n]
  BY <1>1, LenProperties, ConcatProperties
<1>3. /\ \A k \in 1 .. n : a[k].role = "result" /\ a[k].calls = {} /\ a[k].call \in C
      /\ \A k \in 1 .. m : b[k].role = "result" /\ b[k].calls = {} /\ b[k].call \in D
      /\ \A c \in C : \E k \in 1 .. n : a[k].call = c
      /\ \A c \in D : \E k \in 1 .. m : b[k].call = c
      /\ \A k, l \in 1 .. n : a[k].call = a[l].call => k = l
      /\ \A k, l \in 1 .. m : b[k].call = b[l].call => k = l
  BY DEF Answers
<1> HIDE DEF r, n, m
<1>4. \A k \in 1 .. n : r[k] = a[k]
  BY <1>2
<1>5. \A k \in 1 .. m : r[n + k] = b[k] /\ n + k \in 1 .. n + m
  BY <1>2
<1>6. \A k \in 1 .. n + m : k \in 1 .. n \/ (k - n \in 1 .. m /\ k = n + (k - n))
  BY <1>2
<1>7. \A k \in 1 .. n + m : r[k].role = "result" /\ r[k].calls = {} /\ r[k].call \in C \cup D
  BY <1>3, <1>4, <1>5, <1>6
<1>8. \A c \in C \cup D : \E k \in 1 .. n + m : r[k].call = c
  <2>1. ASSUME NEW c \in C PROVE \E k \in 1 .. n + m : r[k].call = c
    <3>1. PICK k \in 1 .. n : a[k].call = c
      BY <1>3
    <3>2. k \in 1 .. n + m
      BY <1>2
    <3> QED BY <3>1, <3>2, <1>4
  <2>2. ASSUME NEW c \in D PROVE \E k \in 1 .. n + m : r[k].call = c
    <3>1. PICK k \in 1 .. m : b[k].call = c
      BY <1>3
    <3> QED BY <3>1, <1>5
  <2> QED BY <2>1, <2>2
<1>9. ASSUME NEW k \in 1 .. n + m, NEW l \in 1 .. n + m, r[k].call = r[l].call PROVE k = l
  <2>1. CASE k \in 1 .. n /\ l \in 1 .. n
    BY <1>3, <1>4, <1>9, <2>1
  <2>2. CASE k \in 1 .. n /\ l \notin 1 .. n
    <3>1. r[k].call \in C /\ r[l].call \in D
      BY <1>3, <1>4, <1>5, <1>6, <2>2
    <3> QED BY <3>1, <1>9
  <2>3. CASE k \notin 1 .. n /\ l \in 1 .. n
    <3>1. r[k].call \in D /\ r[l].call \in C
      BY <1>3, <1>4, <1>5, <1>6, <2>3
    <3> QED BY <3>1, <1>9
  <2>4. CASE k \notin 1 .. n /\ l \notin 1 .. n
    <3>1. k - n \in 1 .. m /\ l - n \in 1 .. m /\ k = n + (k - n) /\ l = n + (l - n)
      BY <1>6, <2>4
    <3>2. r[k] = b[k - n] /\ r[l] = b[l - n]
      BY <3>1, <1>5
    <3>3. k - n = l - n
      BY <1>3, <1>9, <3>1, <3>2
    <3> QED BY <3>1, <3>3
  <2> QED BY <2>1, <2>2, <2>3, <2>4
<1> QED BY <1>2, <1>7, <1>8, <1>9 DEF Answers, r

\* What follows a message answers its calls, one by one.
LEMMA ResultsAfterAnswer ==
  ASSUME NEW ms, Clean(ms), NEW i \in 1 .. Len(ms)
  PROVE  Answers(ResultsAfter(ms, i), ms[i].calls)
<1> DEFINE C == ms[i].calls
           S == {m \in Range(ms) : m.role = "result" /\ Owns(ms, i, m.call)}
           found == ResultsOf(ms, i)
           F == {r.call : r \in Range(found)}
           missing == InOrder(C \ F, MaxCalls)
           synth == [k \in DOMAIN missing |-> Synthetic(missing[k])]
<1>1. ms \in Seq(Msgs)
  BY DEF Clean
<1>2. found = Filter(ms, S)
  BY DEF ResultsOf
<1>3. ResultsAfter(ms, i) = found \o synth
  BY DEF ResultsAfter
<1>4. \A m \in S : m.role = "result" /\ m.call \in C
  BY DEF Owns
<1> HIDE DEF S
<1>5. PICK h : found \in Seq(Msgs) /\ Picks(h, ms, S, found)
  BY <1>1, <1>2, FilterPicks
<1>6. C \subseteq Calls
  <2>1. ms[i] \in Msgs
    BY <1>1, LenProperties
  <2> QED BY <2>1 DEF Msgs
<1> HIDE DEF found
<1>7. DOMAIN found = 1 .. Len(found) /\ Range(found) = {found[k] : k \in 1 .. Len(found)}
  BY <1>5, LenProperties DEF Range
<1>8. F \subseteq C
  BY <1>4, <1>5, <1>7 DEF Picks
<1>9. Answers(found, F)
  <2>1. ASSUME NEW k \in 1 .. Len(found)
        PROVE  found[k].role = "result" /\ found[k].calls = {} /\ found[k].call \in F
    <3>1. found[k] \in S /\ found[k] = ms[h[k]] /\ h[k] \in 1 .. Len(ms)
      BY <1>5 DEF Picks
    <3>2. found[k].role = "result" /\ found[k].call \in F
      BY <1>4, <1>7, <3>1
    <3> QED BY <3>1, <3>2 DEF Clean, MakesOK
  <2>2. ASSUME NEW k \in 1 .. Len(found), NEW l \in 1 .. Len(found), found[k].call = found[l].call
        PROVE  k = l
    <3>1. /\ found[k] = ms[h[k]] /\ h[k] \in 1 .. Len(ms)
          /\ found[l] = ms[h[l]] /\ h[l] \in 1 .. Len(ms)
      BY <1>5 DEF Picks
    <3>2. h[k] = h[l]
      BY <2>1, <2>2, <3>1 DEF Clean, ResultsOnce
    <3>3. ~(k < l) /\ ~(l < k)
      BY <1>5, <3>1, <3>2 DEF Picks
    <3> QED BY <3>3
  <2>3. \A c \in F : \E k \in 1 .. Len(found) : found[k].call = c
    BY <1>7
  <2> QED BY <1>5, <2>1, <2>2, <2>3 DEF Answers
<1> HIDE DEF F
<1>10. /\ missing \in Seq(1 .. MaxCalls)
       /\ \A k, l \in 1 .. Len(missing) : k < l => missing[k] < missing[l]
       /\ \A k \in 1 .. Len(missing) : missing[k] \in C \ F
       /\ \A c \in 1 .. MaxCalls : c \in C \ F => \E k \in 1 .. Len(missing) : missing[k] = c
  <2> DEFINE D == C \ F
  <2>1. missing = InOrder(D, MaxCalls)
    OBVIOUS
  <2> HIDE DEF C, D, missing
  <2>2. MaxCalls \in Nat
    BY TurnLogAssumption
  <2>3. /\ missing \in Seq(1 .. MaxCalls)
        /\ \A k, l \in 1 .. Len(missing) : k < l => missing[k] < missing[l]
        /\ \A k \in 1 .. Len(missing) : missing[k] \in D
        /\ \A c \in 1 .. MaxCalls : c \in D => \E k \in 1 .. Len(missing) : missing[k] = c
    BY <2>1, <2>2, InOrderIs
  <2> QED BY <2>3 DEF D
<1> HIDE DEF C, missing
<1>11. DOMAIN missing = 1 .. Len(missing) /\ Len(missing) \in Nat
       /\ \A k \in 1 .. Len(missing) : missing[k] \in 1 .. MaxCalls
  BY <1>10, LenProperties
<1>12. Answers(synth, C \ F)
  <2>1. \A k \in 1 .. Len(missing) :
          /\ synth[k] = Synthetic(missing[k]) /\ synth[k] \in Msgs
          /\ synth[k].role = "result" /\ synth[k].calls = {} /\ synth[k].call = missing[k]
    BY <1>11 DEF Synthetic, Msgs, Calls
  <2>2. Len(synth) = Len(missing) /\ synth \in Seq(Msgs)
    BY <1>11, <2>1
  <2> HIDE DEF synth
  <2>3. \A c \in C \ F : \E k \in 1 .. Len(synth) : synth[k].call = c
    BY <1>6, <1>10, <2>1, <2>2 DEF Calls
  <2>4. ASSUME NEW k \in 1 .. Len(synth), NEW l \in 1 .. Len(synth), synth[k].call = synth[l].call
        PROVE  k = l
    <3>1. missing[k] = missing[l] /\ missing[k] \in 1 .. MaxCalls
      BY <1>11, <2>1, <2>2, <2>4
    <3>2. ~(k < l) /\ ~(l < k)
      BY <1>10, <2>2, <3>1
    <3> QED BY <3>2
  <2> QED BY <1>10, <2>1, <2>2, <2>3, <2>4 DEF Answers
<1> HIDE DEF synth
<1>13. Answers(found \o synth, F \cup (C \ F))
  BY <1>9, <1>12, AnswersConcat
<1>14. F \cup (C \ F) = C
  BY <1>8
<1> QED BY <1>3, <1>13, <1>14 DEF C

\* A piece with one answer for each call has as many answers as calls.
LEMMA AnswersCount ==
  ASSUME NEW r, NEW C, Answers(r, C)
  PROVE  Cardinality(C) = Len(r) /\ Len(r) \in Nat
<1> DEFINE f == [k \in 1 .. Len(r) |-> r[k].call]
<1>1. Len(r) \in Nat
  BY LenProperties DEF Answers
<1>2. f \in Bijection(1 .. Len(r), C)
  BY DEF Answers, Bijection, Injection, Surjection, IsInjective
<1>3. ExistsBijection(1 .. Len(r), C)
  BY <1>2 DEF ExistsBijection
<1> QED BY <1>1, <1>3, FS_CountingElements

------------------------------------------------------------------------------
(* What the sanitizer builds.                                              *)

Dropped(m) == m.role = "result" \/ (m.role = "assistant" /\ m.empty)
Block(ms, i) == IF Dropped(ms[i]) THEN <<>> ELSE <<ms[i]>> \o ResultsAfter(ms, i)

\* B is what becomes of the message m: nothing, or m and an answer to each of its calls.
BlockOf(B, m) ==
  /\ B \in Seq(Msgs) /\ Cardinality(m.calls) \in Nat
  /\ Len(B) = IF Dropped(m) THEN 0 ELSE 1 + Cardinality(m.calls)
  /\ ~Dropped(m) => B[1] = m
  /\ \A j \in 2 .. Len(B) : B[j].role = "result" /\ B[j].calls = {} /\ B[j].call \in m.calls
  /\ ~Dropped(m) => \A c \in m.calls : \E j \in 2 .. Len(B) : B[j].call = c
  /\ \A j, l \in 2 .. Len(B) : B[j].call = B[l].call => j = l

\* What Sanitize makes of one message: nothing, the message, or the message and one result
\* for each call it owns.
LEMMA BlockIs ==
  ASSUME NEW ms, Clean(ms), NEW i \in 1 .. Len(ms)
  PROVE  BlockOf(Block(ms, i), ms[i])
<1> DEFINE m == ms[i]
           r == ResultsAfter(ms, i)
           B == Block(ms, i)
           n == Len(r)
<1>1. m \in Msgs
  BY LenProperties DEF Clean
<1>2. Answers(r, m.calls)
  BY ResultsAfterAnswer
<1>3. Cardinality(m.calls) = n /\ n \in Nat
  BY <1>2, AnswersCount
<1>4. B = IF Dropped(m) THEN <<>> ELSE <<m>> \o r
  BY DEF Block
<1> HIDE DEF B, m, r
<1>5. CASE Dropped(m)
  <2>1. B = <<>> /\ Len(B) = 0 /\ B \in Seq(Msgs)
    BY <1>4, <1>5
  <2>2. \A j \in 2 .. Len(B) : FALSE
    BY <2>1
  <2> QED BY <1>3, <1>5, <2>1, <2>2 DEF BlockOf, B, m
<1>6. CASE ~Dropped(m)
  <2>1. <<m>> \in Seq(Msgs) /\ r \in Seq(Msgs) /\ Len(<<m>>) = 1
    BY <1>1, <1>2 DEF Answers
  <2>2. B \in Seq(Msgs) /\ Len(B) = 1 + n
        /\ \A k \in 1 .. 1 + n : B[k] = IF k <= 1 THEN <<m>>[k] ELSE r[k - 1]
    BY <1>4, <1>6, <2>1, ConcatProperties
  <2>3. B[1] = m
    BY <1>3, <2>2
  <2> HIDE DEF n
  <2>4. \A j \in 2 .. 1 + n : B[j] = r[j - 1] /\ j - 1 \in 1 .. n
    BY <1>3, <2>2
  <2>5. \A k \in 1 .. n : B[k + 1] = r[k] /\ k + 1 \in 2 .. 1 + n
    <3> SUFFICES ASSUME NEW k \in 1 .. n PROVE B[k + 1] = r[k] /\ k + 1 \in 2 .. 1 + n
      OBVIOUS
    <3>1. k + 1 \in 2 .. 1 + n /\ (k + 1) - 1 = k
      BY <1>3
    <3> QED BY <3>1, <2>4
  <2>6. \A j \in 2 .. 1 + n : B[j].role = "result" /\ B[j].calls = {} /\ B[j].call \in m.calls
    <3>1. \A k \in 1 .. n : r[k].role = "result" /\ r[k].calls = {} /\ r[k].call \in m.calls
      BY <1>2 DEF Answers, n
    <3> QED BY <2>4, <3>1
  <2>7. \A c \in m.calls : \E j \in 2 .. 1 + n : B[j].call = c
    <3> SUFFICES ASSUME NEW c \in m.calls PROVE \E j \in 2 .. 1 + n : B[j].call = c
      OBVIOUS
    <3>1. PICK k \in 1 .. n : r[k].call = c
      BY <1>2 DEF Answers, n
    <3> QED BY <3>1, <2>5
  <2>8. ASSUME NEW j \in 2 .. 1 + n, NEW l \in 2 .. 1 + n, B[j].call = B[l].call PROVE j = l
    <3>1. j - 1 \in 1 .. n /\ l - 1 \in 1 .. n /\ r[j - 1].call = r[l - 1].call
      BY <2>4, <2>8
    <3>2. j - 1 = l - 1
      BY <1>2, <3>1 DEF Answers, n
    <3> QED BY <3>2
  <2> QED BY <1>3, <1>6, <2>2, <2>3, <2>6, <2>7, <2>8 DEF BlockOf, B, m
<1> QED BY <1>5, <1>6

Blocks(ms) == [i \in 1 .. Len(ms) |-> Block(ms, i)]

\* At k of the sanitized messages there is the j-th of the block of message i.
Stands(ms, off, r, k, i, j) ==
  /\ i \in 1 .. Len(ms) /\ j \in 1 .. Len(Blocks(ms)[i]) /\ k = off[i - 1] + j
  /\ r[k] = Blocks(ms)[i][j]
\* r is made of the blocks of ms.
Built(ms, off, r) ==
  /\ Clean(ms) /\ Len(ms) \in Nat /\ r \in Seq(Msgs) /\ Len(r) \in Nat
  /\ Offsets(off, Blocks(ms), Len(ms)) /\ Measured(Blocks(ms), Len(ms)) /\ Len(r) = off[Len(ms)]
  /\ \A i \in 1 .. Len(ms) : BlockOf(Blocks(ms)[i], ms[i])
  /\ \A i \in 1 .. Len(ms) : \A j \in 1 .. Len(Blocks(ms)[i]) :
       Stands(ms, off, r, off[i - 1] + j, i, j)

\* The output of Sanitize is built from such blocks, one after the other.
LEMMA SanitizeBuilt ==
  ASSUME NEW ms, Clean(ms)
  PROVE  \E off : Built(ms, off, Sanitize(ms))
<1> DEFINE n == Len(ms)
           ss == Blocks(ms)
           r == Sanitize(ms)
<1>1. ms \in Seq(Msgs) /\ n \in Nat /\ DOMAIN ms = 1 .. n
  BY LenProperties DEF Clean
<1>2. r = Flat(ss, n)
  BY <1>1 DEF Sanitize, Blocks, Block, Dropped
<1>3. \A i \in 1 .. n : ss[i] = Block(ms, i)
  BY DEF Blocks
<1> HIDE DEF ss, r, n
<1>4. \A i \in 1 .. n : BlockOf(ss[i], ms[i])
  BY <1>3, BlockIs DEF n
<1>5. Pieces(ss, n, Msgs)
  BY <1>4 DEF Pieces, BlockOf
<1>6. Measured(ss, n)
  BY <1>5, LenProperties DEF Pieces, Measured
<1>7. r \in Seq(Msgs) /\ \E off : Laid(off, ss, n, r)
  BY <1>1, <1>2, <1>5, FlatLaid
<1>8. PICK off : Laid(off, ss, n, r)
  BY <1>7
<1>9. Len(r) \in Nat
  BY <1>7, LenProperties
<1>10. \A i \in 1 .. n : \A j \in 1 .. Len(ss[i]) : Stands(ms, off, r, off[i - 1] + j, i, j)
  BY <1>8 DEF Laid, Stands, ss, n
<1>11. Built(ms, off, r)
  BY <1>1, <1>4, <1>6, <1>7, <1>8, <1>9, <1>10 DEF Built, Laid, ss, n
<1> QED BY <1>11 DEF r

\* Everything stands somewhere.
LEMMA StandsSomewhere ==
  ASSUME NEW ms, NEW off, NEW r, Built(ms, off, r), NEW k \in 1 .. Len(r)
  PROVE  \E i, j : Stands(ms, off, r, k, i, j)
<1>1. k \in 1 .. off[Len(ms)]
  BY DEF Built
<1>2. Len(ms) \in Nat /\ Offsets(off, Blocks(ms), Len(ms)) /\ Measured(Blocks(ms), Len(ms))
  BY DEF Built
<1>3. \E i \in 1 .. Len(ms) : \E j \in 1 .. Len(Blocks(ms)[i]) : k = off[i - 1] + j
  BY <1>1, <1>2, OffsetsCover
<1> QED BY <1>3 DEF Built

\* In such an output the results of a message follow it directly.
LEMMA StandsInOrder ==
  ASSUME NEW ms, NEW off, NEW r, Built(ms, off, r),
         NEW k, NEW i, NEW j, Stands(ms, off, r, k, i, j),
         NEW l, NEW m, NEW o, Stands(ms, off, r, l, m, o), k <= l
  PROVE  i < m \/ (i = m /\ j <= o)
<1>1. /\ i \in 1 .. Len(ms) /\ j \in 1 .. Len(Blocks(ms)[i])
      /\ m \in 1 .. Len(ms) /\ o \in 1 .. Len(Blocks(ms)[m])
      /\ off[i - 1] + j <= off[m - 1] + o
  BY DEF Stands
<1>2. Len(ms) \in Nat /\ Offsets(off, Blocks(ms), Len(ms)) /\ Measured(Blocks(ms), Len(ms))
  BY DEF Built
<1> QED BY <1>1, <1>2, OffsetsOrder

\* What stands first in its block is a message of ms, what stands later an answer.
LEMMA StandsAs ==
  ASSUME NEW ms, NEW off, NEW r, Built(ms, off, r), NEW k, NEW i, NEW j, Stands(ms, off, r, k, i, j)
  PROVE  /\ i \in 1 .. Len(ms) /\ j \in Nat /\ j >= 1 /\ ~Dropped(ms[i])
         /\ j <= 1 + Cardinality(ms[i].calls) /\ Cardinality(ms[i].calls) \in Nat
         /\ off[i - 1] \in Nat /\ k = off[i - 1] + j /\ off[i] = off[i - 1] + 1 + Cardinality(ms[i].calls)
         /\ off[i] \in Nat /\ off[i] <= Len(r)
         /\ j = 1 => r[k] = ms[i]
         /\ j # 1 => r[k].role = "result" /\ r[k].calls = {} /\ r[k].call \in ms[i].calls
<1> DEFINE B == Blocks(ms)[i]
<1>1. i \in 1 .. Len(ms) /\ j \in 1 .. Len(B) /\ k = off[i - 1] + j /\ r[k] = B[j]
  BY DEF Stands
<1>2. BlockOf(B, ms[i]) /\ Len(ms) \in Nat /\ Offsets(off, Blocks(ms), Len(ms))
      /\ Measured(Blocks(ms), Len(ms)) /\ Len(r) = off[Len(ms)]
  BY <1>1 DEF Built
<1>3. off[i - 1] \in Nat /\ off[i] = off[i - 1] + Len(B) /\ off[i] \in Nat
  <2>1. i - 1 \in 0 .. Len(ms) /\ i \in 0 .. Len(ms)
    BY <1>1, <1>2
  <2> QED BY <1>1, <1>2, <2>1 DEF Offsets
<1>4. off[i] <= Len(r)
  <2>1. i \in 0 .. Len(ms) /\ Len(ms) \in 0 .. Len(ms) /\ i <= Len(ms)
    BY <1>1, <1>2
  <2> QED BY <1>2, <2>1, OffsetsGrow
<1> HIDE DEF B
<1>5. ~Dropped(ms[i]) /\ Len(B) = 1 + Cardinality(ms[i].calls) /\ Cardinality(ms[i].calls) \in Nat
  BY <1>1, <1>2 DEF BlockOf
<1>6. j = 1 => r[k] = ms[i]
  BY <1>1, <1>2, <1>5 DEF BlockOf
<1>7. j # 1 => r[k].role = "result" /\ r[k].calls = {} /\ r[k].call \in ms[i].calls
  <2>1. j # 1 => j \in 2 .. Len(B)
    BY <1>1, <1>5
  <2> QED BY <1>1, <1>2, <2>1 DEF BlockOf
<1> DEFINE c == Cardinality(ms[i].calls)
           o == off[i - 1]
           e == off[i]
<1>8. c \in Nat /\ o \in Nat /\ e = o + Len(B) /\ Len(B) = 1 + c /\ j \in 1 .. Len(B)
  BY <1>1, <1>3, <1>5
<1>9. j \in Nat /\ j >= 1 /\ j <= 1 + c /\ e = o + 1 + c
  <2> HIDE DEF c, o, e
  <2> QED BY <1>8
<1> QED BY <1>1, <1>3, <1>4, <1>5, <1>6, <1>7, <1>9

\* A block that is there is there as a whole.
LEMMA StandsAll ==
  ASSUME NEW ms, NEW off, NEW r, Built(ms, off, r), NEW i \in 1 .. Len(ms), ~Dropped(ms[i])
  PROVE  /\ \A j \in 1 .. 1 + Cardinality(ms[i].calls) : Stands(ms, off, r, off[i - 1] + j, i, j)
         /\ \A c \in ms[i].calls : \E j \in 2 .. 1 + Cardinality(ms[i].calls) :
              r[off[i - 1] + j].call = c
<1> DEFINE B == Blocks(ms)[i]
<1>1. BlockOf(B, ms[i]) /\ \A j \in 1 .. Len(B) : Stands(ms, off, r, off[i - 1] + j, i, j)
  BY DEF Built
<1>2. \A j \in 1 .. Len(B) : r[off[i - 1] + j] = B[j]
  BY <1>1 DEF Stands
<1> HIDE DEF B
<1>3. Len(B) = 1 + Cardinality(ms[i].calls)
  BY <1>1 DEF BlockOf
<1>4. \A c \in ms[i].calls : \E j \in 2 .. Len(B) : B[j].call = c
  BY <1>1 DEF BlockOf
<1>5. \A j \in 2 .. Len(B) : j \in 1 .. Len(B)
  OBVIOUS
<1> QED BY <1>1, <1>2, <1>3, <1>4, <1>5

\* Sanitized messages are well formed.
LEMMA SanitizeWellFormed ==
  ASSUME NEW ms, Clean(ms)
  PROVE  WellFormed(Sanitize(ms))
<1> DEFINE r == Sanitize(ms)
<1>1. PICK off : Built(ms, off, r)
  BY SanitizeBuilt
<1> HIDE DEF r
<1>2. Len(r) \in Nat /\ DOMAIN r = 1 .. Len(r)
  BY <1>1, LenProperties DEF Built
<1>3. ASSUME NEW k \in 1 .. Len(r), r[k].role = "assistant"
      PROVE  ~r[k].empty /\ Answered(r, k)
  <2>1. PICK i, j : Stands(ms, off, r, k, i, j)
    BY <1>1, StandsSomewhere
  <2> DEFINE n == Cardinality(ms[i].calls)
             o == off[i - 1]
  <2>2. /\ i \in 1 .. Len(ms) /\ ~Dropped(ms[i]) /\ n \in Nat /\ o \in Nat
        /\ k = o + j /\ off[i] = o + 1 + n /\ off[i] <= Len(r)
        /\ j = 1 => r[k] = ms[i]
        /\ j # 1 => r[k].role = "result"
    BY <1>1, <2>1, StandsAs
  <2>3. j = 1 /\ r[k] = ms[i] /\ k = o + 1
    BY <1>3, <2>2
  <2>4. /\ \A l \in 1 .. 1 + n : Stands(ms, off, r, o + l, i, l)
        /\ \A c \in ms[i].calls : \E l \in 2 .. 1 + n : r[o + l].call = c
    BY <1>1, <2>2, StandsAll
  <2> HIDE DEF n, o
  <2>5. ~r[k].empty
    BY <1>3, <2>2, <2>3 DEF Dropped
  <2>6. k + n <= Len(r) /\ k + n = o + 1 + n
    BY <2>2, <2>3
  <2>7. ASSUME NEW l \in k + 1 .. k + n PROVE r[l].role = "result" /\ r[l].call \in ms[i].calls
    <3>1. l - o \in 1 .. 1 + n /\ l = o + (l - o) /\ l - o # 1
      BY <2>2, <2>3
    <3>2. Stands(ms, off, r, l, i, l - o)
      BY <2>4, <3>1
    <3> QED BY <1>1, <3>1, <3>2, StandsAs
  <2>8. ASSUME NEW c \in ms[i].calls PROVE \E l \in k + 1 .. k + n : r[l].call = c
    <3>1. PICK l \in 2 .. 1 + n : r[o + l].call = c
      BY <2>4
    <3>2. o + l \in k + 1 .. k + n
      BY <2>2, <2>3
    <3> QED BY <3>1, <3>2
  <2>9. ASSUME k + n + 1 \in DOMAIN r PROVE r[k + n + 1].role # "result"
    <3> DEFINE x == k + n + 1
               y == k + n
    <3>1. x \in 1 .. Len(r) /\ y = o + (1 + n) /\ x = y + 1 /\ y \in Nat
      BY <1>2, <2>2, <2>3, <2>9
    <3>2. PICK m, l : Stands(ms, off, r, x, m, l)
      BY <1>1, <3>1, StandsSomewhere
    <3>3. Stands(ms, off, r, y, i, 1 + n)
      <4>1. 1 + n \in 1 .. 1 + n
        BY <2>2
      <4> QED BY <2>4, <3>1, <4>1
    <3> HIDE DEF x, y
    <3>4. /\ m \in 1 .. Len(ms) /\ ~Dropped(ms[m]) /\ l \in Nat /\ l >= 1
          /\ l <= 1 + Cardinality(ms[m].calls) /\ Cardinality(ms[m].calls) \in Nat
          /\ x = off[m - 1] + l /\ off[m - 1] \in Nat
          /\ l = 1 => r[x] = ms[m]
      BY <1>1, <3>2, StandsAs
    <3>5. l = 1
      <4> SUFFICES ASSUME l # 1 PROVE FALSE
        OBVIOUS
      <4> DEFINE c == Cardinality(ms[m].calls)
                 b == off[m - 1]
      <4>0. /\ l \in Nat /\ l >= 1 /\ l # 1 /\ l <= 1 + c /\ c \in Nat /\ b \in Nat /\ y \in Nat
            /\ x = b + l /\ x = y + 1
        BY <3>1, <3>4
      <4>1. l - 1 \in 1 .. 1 + c /\ y = b + (l - 1)
        <5> HIDE DEF c, b
        <5> QED BY <4>0
      <4>2. Stands(ms, off, r, y, m, l - 1)
        BY <1>1, <3>4, <4>1, StandsAll
      <4>3. y <= y
        BY <3>1
      <4>4. (m < i \/ (m = i /\ l - 1 <= 1 + n)) /\ (i < m \/ (i = m /\ 1 + n <= l - 1))
        BY <1>1, <3>3, <4>2, <4>3, StandsInOrder
      <4>5. m = i /\ 1 + n <= l - 1
        BY <4>4, <3>4, <2>2
      <4> QED BY <3>4, <4>5, <2>2 DEF n
    <3>6. r[x] = ms[m] /\ ms[m].role # "result"
      BY <3>4, <3>5 DEF Dropped
    <3> QED BY <3>6 DEF x
  <2>10. {r[l].call : l \in k + 1 .. k + n} = ms[i].calls
    BY <2>7, <2>8
  <2>11. r[k].calls = ms[i].calls /\ Cardinality(r[k].calls) = n
    BY <2>3 DEF n
  <2>12. Answered(r, k)
    BY <2>6, <2>7, <2>9, <2>10, <2>11 DEF Answered
  <2> QED BY <2>5, <2>12
<1>4. ASSUME NEW k \in 1 .. Len(r), r[k].role = "result"
      PROVE  k > 1 /\ r[k - 1].role \in {"assistant", "result"}
  <2>1. PICK i, j : Stands(ms, off, r, k, i, j)
    BY <1>1, StandsSomewhere
  <2>2. /\ i \in 1 .. Len(ms) /\ ~Dropped(ms[i]) /\ Cardinality(ms[i].calls) \in Nat
        /\ off[i - 1] \in Nat /\ j \in Nat /\ j >= 1 /\ j <= 1 + Cardinality(ms[i].calls)
        /\ k = off[i - 1] + j
        /\ j = 1 => r[k] = ms[i]
        /\ j # 1 => r[k].call \in ms[i].calls
    BY <1>1, <2>1, StandsAs
  <2>3. j # 1 /\ r[k].call \in ms[i].calls
    BY <1>4, <2>2 DEF Dropped
  <2>4. ms[i].role = "assistant"
    BY <1>1, <2>2, <2>3 DEF Built, Clean, MakesOK
  <2> DEFINE c == Cardinality(ms[i].calls)
             o == off[i - 1]
  <2>a. c \in Nat /\ o \in Nat /\ j \in Nat /\ j >= 1 /\ j <= 1 + c /\ k = o + j /\ j # 1
    BY <2>2, <2>3
  <2>5. j - 1 \in 1 .. 1 + c /\ k - 1 = o + (j - 1) /\ k > 1
    <3> HIDE DEF c, o
    <3> QED BY <2>a
  <2>6. Stands(ms, off, r, k - 1, i, j - 1)
    <3>1. Stands(ms, off, r, o + (j - 1), i, j - 1)
      BY <1>1, <2>2, <2>5, StandsAll
    <3> QED BY <2>5, <3>1
  <2>7. r[k - 1] = ms[i] \/ r[k - 1].role = "result"
    BY <1>1, <2>6, StandsAs
  <2> QED BY <2>4, <2>5, <2>7
<1> QED BY <1>2, <1>3, <1>4 DEF WellFormed, r

------------------------------------------------------------------------------
(* What makes messages clean.                                              *)

\* Every call that is made, and every result, is of C.
CallsIn(ms, C) == \A i \in 1 .. Len(ms) : ms[i].calls \subseteq C
Within(ms, C) ==
  \A i \in 1 .. Len(ms) : ms[i].calls \subseteq C /\ (ms[i].role = "result" => ms[i].call \in C)

\* What stands in the sanitized messages is clean again.
LEMMA SanitizeClean ==
  ASSUME NEW ms, Clean(ms)
  PROVE  Clean(Sanitize(ms)) /\ \A C : CallsIn(ms, C) => Within(Sanitize(ms), C)
<1> DEFINE r == Sanitize(ms)
<1>1. PICK off : Built(ms, off, r)
  BY SanitizeBuilt
<1> HIDE DEF r
<1>2. r \in Seq(Msgs) /\ Len(r) \in Nat
  BY <1>1 DEF Built
<1>3. ASSUME NEW k \in 1 .. Len(r)
      PROVE  r[k].role # "assistant" => r[k].calls = {}
  <2>1. PICK i, j : Stands(ms, off, r, k, i, j)
    BY <1>1, StandsSomewhere
  <2>2. i \in 1 .. Len(ms) /\ (j = 1 => r[k] = ms[i]) /\ (j # 1 => r[k].calls = {})
    BY <1>1, <2>1, StandsAs
  <2> QED BY <2>2 DEF Clean, MakesOK
<1>4. ASSUME NEW k \in 1 .. Len(r), NEW l \in 1 .. Len(r), r[k].calls \cap r[l].calls # {}
      PROVE  k = l
  <2>1. PICK i, j : Stands(ms, off, r, k, i, j)
    BY <1>1, StandsSomewhere
  <2>2. PICK m, o : Stands(ms, off, r, l, m, o)
    BY <1>1, StandsSomewhere
  <2>3. /\ i \in 1 .. Len(ms) /\ (j = 1 => r[k] = ms[i]) /\ (j # 1 => r[k].calls = {})
        /\ k = off[i - 1] + j
    BY <1>1, <2>1, StandsAs
  <2>4. /\ m \in 1 .. Len(ms) /\ (o = 1 => r[l] = ms[m]) /\ (o # 1 => r[l].calls = {})
        /\ l = off[m - 1] + o
    BY <1>1, <2>2, StandsAs
  <2>5. j = 1 /\ o = 1
    BY <1>4, <2>3, <2>4
  <2>6. i = m
    BY <1>4, <2>3, <2>4, <2>5 DEF Clean, MakesOK
  <2> QED BY <2>3, <2>4, <2>5, <2>6
<1>5. ASSUME NEW k \in 1 .. Len(r), r[k].role = "result"
      PROVE  \E i \in 1 .. Len(ms) : \E j \in 2 .. Len(Blocks(ms)[i]) :
               /\ k = off[i - 1] + j /\ r[k] = Blocks(ms)[i][j] /\ r[k].call \in ms[i].calls
  <2>1. PICK i, j : Stands(ms, off, r, k, i, j)
    BY <1>1, StandsSomewhere
  <2>2. /\ i \in 1 .. Len(ms) /\ ~Dropped(ms[i])
        /\ j = 1 => r[k] = ms[i]
        /\ j # 1 => r[k].call \in ms[i].calls
    BY <1>1, <2>1, StandsAs
  <2>3. j # 1 /\ r[k].call \in ms[i].calls
    BY <1>5, <2>2 DEF Dropped
  <2>4. j \in 1 .. Len(Blocks(ms)[i]) /\ k = off[i - 1] + j /\ r[k] = Blocks(ms)[i][j]
    BY <2>1 DEF Stands
  <2>5. j \in 2 .. Len(Blocks(ms)[i])
    BY <2>3, <2>4
  <2> QED BY <2>2, <2>3, <2>4, <2>5
<1>6. ASSUME NEW k \in 1 .. Len(r), NEW l \in 1 .. Len(r), r[k].role = "result", r[l].role = "result",
             r[k].call = r[l].call
      PROVE  k = l
  <2>1. PICK i \in 1 .. Len(ms) : \E j \in 2 .. Len(Blocks(ms)[i]) :
               /\ k = off[i - 1] + j /\ r[k] = Blocks(ms)[i][j] /\ r[k].call \in ms[i].calls
    BY <1>5, <1>6
  <2>2. PICK j \in 2 .. Len(Blocks(ms)[i]) :
               /\ k = off[i - 1] + j /\ r[k] = Blocks(ms)[i][j] /\ r[k].call \in ms[i].calls
    BY <2>1
  <2>3. PICK m \in 1 .. Len(ms) : \E o \in 2 .. Len(Blocks(ms)[m]) :
               /\ l = off[m - 1] + o /\ r[l] = Blocks(ms)[m][o] /\ r[l].call \in ms[m].calls
    BY <1>5, <1>6
  <2>4. PICK o \in 2 .. Len(Blocks(ms)[m]) :
               /\ l = off[m - 1] + o /\ r[l] = Blocks(ms)[m][o] /\ r[l].call \in ms[m].calls
    BY <2>3
  <2>5. i = m
    BY <1>6, <2>2, <2>4 DEF Clean, MakesOK
  <2>6. BlockOf(Blocks(ms)[i], ms[i])
    BY <1>1 DEF Built
  <2>7. j = o
    BY <1>6, <2>2, <2>4, <2>5, <2>6 DEF BlockOf
  <2> QED BY <2>2, <2>4, <2>5, <2>7
<1>7. Clean(r)
  BY <1>2, <1>3, <1>4, <1>6 DEF Clean, MakesOK, ResultsOnce
<1>8. ASSUME NEW C, CallsIn(ms, C) PROVE Within(r, C)
  <2> SUFFICES ASSUME NEW k \in 1 .. Len(r)
               PROVE  r[k].calls \subseteq C /\ (r[k].role = "result" => r[k].call \in C)
    BY DEF Within
  <2>1. PICK i, j : Stands(ms, off, r, k, i, j)
    BY <1>1, StandsSomewhere
  <2>2. i \in 1 .. Len(ms) /\ (j = 1 => r[k] = ms[i]) /\ (j # 1 => r[k].calls = {})
    BY <1>1, <2>1, StandsAs
  <2>3. r[k].calls \subseteq C
    BY <1>8, <2>2 DEF CallsIn
  <2>4. r[k].role = "result" => r[k].call \in C
    BY <1>5, <1>8 DEF CallsIn
  <2> QED BY <2>3, <2>4
<1> QED BY <1>7, <1>8 DEF r

\* r is made of messages of s, each taken once.
Drawn(h, s, r) ==
  /\ r \in Seq(Msgs) /\ h \in [1 .. Len(r) -> 1 .. Len(s)]
  /\ \A k \in 1 .. Len(r) : r[k] = s[h[k]]
  /\ \A k, l \in 1 .. Len(r) : h[k] = h[l] => k = l

\* Messages drawn from clean ones, each once and in order, are clean.
LEMMA DrawnClean ==
  ASSUME NEW h, NEW s, NEW r, Clean(s), Drawn(h, s, r)
  PROVE  Clean(r)
<1>1. \A k \in 1 .. Len(r) : h[k] \in 1 .. Len(s) /\ r[k] = s[h[k]]
  BY DEF Drawn
<1>2. MakesOK(r)
  <2>1. \A k \in 1 .. Len(r) : r[k].role # "assistant" => r[k].calls = {}
    BY <1>1 DEF Clean, MakesOK
  <2>2. ASSUME NEW k \in 1 .. Len(r), NEW l \in 1 .. Len(r), r[k].calls \cap r[l].calls # {}
        PROVE  k = l
    <3>1. h[k] = h[l]
      BY <1>1, <2>2 DEF Clean, MakesOK
    <3> QED BY <3>1 DEF Drawn
  <2> QED BY <2>1, <2>2 DEF MakesOK
<1>3. ResultsOnce(r)
  BY <1>1 DEF Clean, ResultsOnce, Drawn
<1> QED BY <1>2, <1>3 DEF Clean, Drawn

\* Two clean sequences that share no call make a clean one.
LEMMA ConcatClean ==
  ASSUME NEW a, NEW b, NEW C, NEW D, Clean(a), Clean(b), Within(a, C), Within(b, D), C \cap D = {}
  PROVE  Clean(a \o b)
<1> DEFINE r == a \o b
           n == Len(a)
           m == Len(b)
<1>1. a \in Seq(Msgs) /\ b \in Seq(Msgs)
  BY DEF Clean
<1>2. n \in Nat /\ m \in Nat /\ r \in Seq(Msgs) /\ Len(r) = n + m
      /\ \A k \in 1 .. n + m : r[k] = IF k <= n THEN a[k] ELSE b[k - n]
  BY <1>1, LenProperties, ConcatProperties
<1>3. ASSUME NEW k \in 1 .. Len(r)
      PROVE  \/ k \in 1 .. n /\ r[k] = a[k]
             \/ k - n \in 1 .. m /\ r[k] = b[k - n] /\ k = (k - n) + n
  <2> HIDE DEF r, n, m
  <2>1. k \in 1 .. n + m
    BY <1>2
  <2>2. CASE k <= n
    BY <1>2, <2>1, <2>2
  <2>3. CASE ~(k <= n)
    BY <1>2, <2>1, <2>3
  <2> QED BY <2>2, <2>3
<1> HIDE DEF r
<1>4. \A k \in 1 .. n : /\ a[k].calls \subseteq C /\ (a[k].role = "result" => a[k].call \in C)
                        /\ (a[k].role # "assistant" => a[k].calls = {})
  BY DEF Within, Clean, MakesOK
<1>5. \A k \in 1 .. m : /\ b[k].calls \subseteq D /\ (b[k].role = "result" => b[k].call \in D)
                        /\ (b[k].role # "assistant" => b[k].calls = {})
  BY DEF Within, Clean, MakesOK
<1>6. \A k, l \in 1 .. n : /\ a[k].calls \cap a[l].calls # {} => k = l
                           /\ a[k].role = "result" /\ a[l].role = "result" /\ a[k].call = a[l].call => k = l
  BY DEF Clean, MakesOK, ResultsOnce
<1>7. \A k, l \in 1 .. m : /\ b[k].calls \cap b[l].calls # {} => k = l
                           /\ b[k].role = "result" /\ b[l].role = "result" /\ b[k].call = b[l].call => k = l
  BY DEF Clean, MakesOK, ResultsOnce
<1> HIDE DEF n, m
<1>8. \A k \in 1 .. Len(r) : r[k].role # "assistant" => r[k].calls = {}
  BY <1>3, <1>4, <1>5
<1>9. ASSUME NEW k \in 1 .. Len(r), NEW l \in 1 .. Len(r),
             \/ r[k].calls \cap r[l].calls # {}
             \/ r[k].role = "result" /\ r[l].role = "result" /\ r[k].call = r[l].call
      PROVE  k = l
  <2>1. CASE k \in 1 .. n /\ r[k] = a[k] /\ l \in 1 .. n /\ r[l] = a[l]
    BY <1>9, <1>6, <2>1
  <2>2. CASE k - n \in 1 .. m /\ r[k] = b[k - n] /\ k = (k - n) + n
             /\ l - n \in 1 .. m /\ r[l] = b[l - n] /\ l = (l - n) + n
    <3>1. k - n = l - n
      BY <1>9, <1>7, <2>2
    <3> QED BY <2>2, <3>1
  <2>3. CASE k \in 1 .. n /\ r[k] = a[k] /\ l - n \in 1 .. m /\ r[l] = b[l - n]
    BY <1>9, <1>4, <1>5, <2>3
  <2>4. CASE l \in 1 .. n /\ r[l] = a[l] /\ k - n \in 1 .. m /\ r[k] = b[k - n]
    BY <1>9, <1>4, <1>5, <2>4
  <2> QED BY <1>3, <2>1, <2>2, <2>3, <2>4
<1>10. MakesOK(r)
  BY <1>8, <1>9 DEF MakesOK
<1>11. ResultsOnce(r)
  BY <1>9 DEF ResultsOnce
<1> QED BY <1>2, <1>10, <1>11 DEF Clean, r

------------------------------------------------------------------------------
(* The invariants, and the context as it follows from them.                *)

(* The log: whatever the facades do. *)

\* Only an answer makes calls, and a call is made once.
CallsOK ==
  /\ \A p \in DOMAIN log : log[p].calls # {} => Is(p, {"assistant"})
  /\ \A p, q \in DOMAIN log : log[p].calls \cap log[q].calls # {} => p = q

\* The answer that makes a call is in the thread t.
MadeIn(c, t) == \E p \in DOMAIN log : c \in log[p].calls /\ log[p].thread = t
Tells(e) == e.type \in {"start", "end"}

\* A START or an END is in the thread of the answer that makes the call.
HomeOK == \A p \in DOMAIN log : Tells(log[p]) => MadeIn(log[p].call, log[p].thread)

Conversation == ContextTypes \ {"summary", "mask"}
\* The summary e covers what its session has before the first event it keeps.
Covered(e) ==
  e.type = "summary" =>
    /\ e.first <= Len(log)
    /\ \A p \in DOMAIN log :
         log[p].thread = e.thread /\ p > Session(e.thread).start /\ Is(p, Conversation)
           /\ p < e.first => p \in e.covers
CoversOK == \A p \in DOMAIN log : Covered(log[p])

(* The process. *)

\* A boundary that is awaited covers what comes before it, whatever is appended in the
\* meantime and whichever thread it will be stamped with.
CompOK(f, e) ==
  e # None => /\ e.type \in {"summary", "mask"} /\ e.calls = {}
              /\ Covered(Stamped(f, e))
\* A closed facade does nothing; the calls a turn waits for are of its thread.
FacadeOK(f, x) ==
  /\ x \in Facade
  /\ ~x.open => x = Closed
  /\ CompOK(f, x.comp) /\ CompOK(f, x.stray)
  /\ x.ph \notin {"answered", "tools"} => x.wait = {}
  /\ \A c \in x.wait : MadeIn(c, Thread(f))
FacadesOK == \A f \in Facades : FacadeOK(f, fac[f])
OpeningOK == (Free => plan = <<>>) /\ (~Free => ~fac[opening].open)
PlanHome ==
  \A k \in 1 .. Len(plan) :
    /\ plan[k].type \in {"start", "end", "completed"} /\ plan[k].calls = {}
    /\ Tells(plan[k]) => MadeIn(plan[k].call, plan[k].thread)

IInv ==
  TypeOK /\ CallsOK /\ HomeOK /\ CoversOK /\ FacadesOK /\ OpeningOK /\ PlanHome

(* One facade: nothing else writes the log. *)

Once ==
  \A p, q \in DOMAIN log :
    Tells(log[p]) /\ log[p].type = log[q].type /\ log[p].call = log[q].call => p = q
\* A call that has ended was started.
Ahead == \A p \in DOMAIN log : Is(p, {"end"}) => Having("start", log[p].call) # {}
\* What the turn is to tell of its calls is not in the log.
TurnNew ==
  \A f \in Facades : \A c \in fac[f].wait :
    /\ Having("end", c) = {}
    /\ fac[f].ph = "answered" \/ c \notin fac[f].begun <=> Having("start", c) = {}
\* No two of r tell the same of a call.
OnceIn(r) ==
  \A k, l \in 1 .. Len(r) :
    Tells(r[k]) /\ r[k].type = r[l].type /\ r[k].call = r[l].call => k = l
\* A START comes before the END of the call, here or in the log.
StartsFirst(r) ==
  \A k \in 1 .. Len(r) : r[k].type = "end" =>
    \/ Having("start", r[k].call) # {}
    \/ \E l \in 1 .. k - 1 : r[l].type = "start" /\ r[l].call = r[k].call
PlanNew ==
  /\ \A k \in 1 .. Len(plan) : Tells(plan[k]) => Having(plan[k].type, plan[k].call) = {}
  /\ OnceIn(plan) /\ StartsFirst(plan)

\* What tells of the call is in the log or still planned.
Told(type, c) ==
  Having(type, c) # {} \/ \E k \in 1 .. Len(plan) : plan[k].type = type /\ plan[k].call = c
\* The calls an earlier process left behind are told of.
Repaired == \A p \in 1 .. since : \A c \in log[p].calls : Told("start", c) /\ Told("end", c)
RepairOK == (Open # {} \/ ~Free) /\ ~gaveUp => Repaired
SInv == Once /\ Ahead /\ TurnNew /\ PlanNew /\ RepairOK

\* Latest is the greatest member of a set of positions that is not empty.
LEMMA LatestOf ==
  ASSUME NEW n \in Nat, NEW P \in SUBSET (0 .. n), P # {}
  PROVE  Latest(P) \in P /\ \A q \in P : q <= Latest(P)
<1> DEFINE T == {m \in Nat : \A q \in P : q <= m}
<1>1. n \in T
  OBVIOUS
<1>2. PICK m \in T : \A l \in T : m <= l
  BY <1>1, LeastOf
<1>3. m \in P
  <2> SUFFICES ASSUME m \notin P PROVE FALSE
    OBVIOUS
  <2>1. m # 0
    <3>1. PICK q \in P : q \in 0 .. n
      OBVIOUS
    <3>2. q <= m
      OBVIOUS
    <3> QED BY <3>1, <3>2
  <2>2. m - 1 \in T
    <3> SUFFICES ASSUME NEW q \in P PROVE q <= m - 1
      BY <1>2, <2>1
    <3>1. q <= m /\ q # m /\ q \in 0 .. n
      BY <1>2
    <3> QED BY <3>1, <1>2
  <2> QED BY <1>2, <2>1, <2>2
<1>4. \E p \in P : \A q \in P : q <= p
  BY <1>2, <1>3
<1> QED BY <1>4 DEF Latest

\* The end of a sequence is drawn from it.
LEMMA Suffix ==
  ASSUME NEW E, NEW s \in Seq(E), NEW from \in 1 .. Len(s) + 1
  PROVE  /\ SubSeq(s, from, Len(s)) \in Seq(E)
         /\ Len(SubSeq(s, from, Len(s))) = Len(s) - from + 1
         /\ \A k \in 1 .. Len(s) - from + 1 :
              /\ SubSeq(s, from, Len(s))[k] = s[from + k - 1]
              /\ from + k - 1 \in 1 .. Len(s)
<1> DEFINE e == Len(s)
           sub == SubSeq(s, from, e)
<1>1. e \in Nat /\ DOMAIN s = 1 .. e /\ \A i \in 1 .. e : s[i] \in E
  BY LenProperties
<1>2. from \in 1 .. e + 1
  OBVIOUS
<1>3. sub = [k \in 1 .. e - from + 1 |-> s[from + k - 1]]
  BY <1>1, <1>2
<1> HIDE DEF e, sub
<1>4. \A k \in 1 .. e - from + 1 : from + k - 1 \in 1 .. e
  BY <1>1, <1>2
<1>5. e - from + 1 \in Nat
  BY <1>1, <1>2
<1>6. sub \in Seq(E) /\ Len(sub) = e - from + 1 /\ \A k \in 1 .. e - from + 1 : sub[k] = s[from + k - 1]
  BY <1>1, <1>3, <1>4, <1>5
<1> QED BY <1>4, <1>6 DEF e, sub

\* A budget leaves clean messages clean (_truncateByTokens).
LEMMA TruncateClean ==
  ASSUME NEW ms, Clean(ms), NEW n \in Nat
  PROVE  Clean(Truncate(ms, n))
<1> DEFINE S == {m \in Range(ms) : m.role = "summary"}
           T == {m \in Range(ms) : m.role # "summary"}
           sum == Filter(ms, S)
           other == Filter(ms, T)
           from == IF n > 0 /\ Len(other) > n THEN Len(other) - n + 1 ELSE 1
           sub == SubSeq(other, from, Len(other))
<1>1. Truncate(ms, n) = IF Len(ms) <= n THEN ms ELSE sum \o sub
  BY DEF Truncate
<1>2. ms \in Seq(Msgs)
  BY DEF Clean
<1>3. \A m \in S : m.role = "summary"
  OBVIOUS
<1> HIDE DEF S, T
<1>4. PICK h : sum \in Seq(Msgs) /\ Picks(h, ms, S, sum)
  BY <1>2, FilterPicks
<1>5. PICK g : other \in Seq(Msgs) /\ Picks(g, ms, T, other)
  BY <1>2, FilterPicks
<1> HIDE DEF sum, other
<1>6. Len(sum) \in Nat /\ Len(other) \in Nat
  BY <1>4, <1>5, LenProperties
<1>7. Clean(sum)
  <2>1. \A k, l \in 1 .. Len(sum) : h[k] = h[l] => k = l
    <3> SUFFICES ASSUME NEW k \in 1 .. Len(sum), NEW l \in 1 .. Len(sum), h[k] = h[l] PROVE k = l
      OBVIOUS
    <3>1. h[k] \in 1 .. Len(ms) /\ h[l] \in 1 .. Len(ms)
      BY <1>4 DEF Picks
    <3>2. ~(k < l) /\ ~(l < k)
      BY <1>4, <3>1 DEF Picks
    <3> QED BY <3>2
  <2>2. Drawn(h, ms, sum)
    BY <1>4, <2>1 DEF Picks, Drawn
  <2> QED BY <2>2, DrawnClean
<1>8. from \in 1 .. Len(other) + 1
  BY <1>6
<1> HIDE DEF from
<1>9. /\ sub \in Seq(Msgs) /\ Len(sub) = Len(other) - from + 1
      /\ \A k \in 1 .. Len(sub) : sub[k] = other[from + k - 1] /\ from + k - 1 \in 1 .. Len(other)
  BY <1>5, <1>8, Suffix
<1>10. Clean(sub)
  <2> DEFINE f == [k \in 1 .. Len(sub) |-> g[from + k - 1]]
  <2> HIDE DEF sub
  <2>1. \A k \in 1 .. Len(sub) : f[k] = g[from + k - 1] /\ f[k] \in 1 .. Len(ms) /\ sub[k] = ms[f[k]]
    <3> SUFFICES ASSUME NEW k \in 1 .. Len(sub)
                 PROVE  g[from + k - 1] \in 1 .. Len(ms) /\ sub[k] = ms[g[from + k - 1]]
      OBVIOUS
    <3>1. from + k - 1 \in 1 .. Len(other) /\ sub[k] = other[from + k - 1]
      BY <1>9
    <3> QED BY <1>5, <3>1 DEF Picks
  <2>2. f \in [1 .. Len(sub) -> 1 .. Len(ms)]
    BY <2>1
  <2> HIDE DEF f
  <2>3. ASSUME NEW k \in 1 .. Len(sub), NEW l \in 1 .. Len(sub), f[k] = f[l] PROVE k = l
    <3> DEFINE x == from + k - 1
               y == from + l - 1
    <3>1. x \in 1 .. Len(other) /\ y \in 1 .. Len(other)
      BY <1>9
    <3>2. g[x] \in 1 .. Len(ms) /\ g[y] \in 1 .. Len(ms) /\ g[x] = g[y]
      BY <2>1, <2>3
    <3>3. (x < y => g[x] < g[y]) /\ (y < x => g[y] < g[x])
      <4> HIDE DEF x, y
      <4> QED BY <1>5, <3>1 DEF Picks
    <3>4. x = y
      <4> HIDE DEF x, y
      <4> QED BY <3>1, <3>2, <3>3
    <3> QED BY <3>4, <1>8
  <2>4. Drawn(f, ms, sub)
    BY <1>9, <2>1, <2>2, <2>3 DEF Drawn
  <2> QED BY <2>4, DrawnClean
<1>11. Within(sum, {})
  <2> SUFFICES ASSUME NEW k \in 1 .. Len(sum)
               PROVE  sum[k].calls = {} /\ sum[k].role # "result"
    BY DEF Within
  <2>1. sum[k].role = "summary"
    BY <1>3, <1>4 DEF Picks
  <2> QED BY <1>7, <2>1 DEF Clean, MakesOK
<1> HIDE DEF sub
<1>12. Within(sub, Calls \cup {None})
  <2>1. \A k \in 1 .. Len(sub) : sub[k] \in Msgs
    BY <1>9, LenProperties
  <2> QED BY <2>1 DEF Within, Msgs
<1>13. Clean(sum \o sub)
  <2>1. {} \cap (Calls \cup {None}) = {}
    OBVIOUS
  <2> QED BY <1>7, <1>10, <1>11, <1>12, <2>1, ConcatClean
<1> QED BY <1>1, <1>13

\* The events of a context, each once.
Listed(ps, P) ==
  /\ ps \in Seq(P) /\ Len(ps) \in Nat
  /\ \A k, l \in 1 .. Len(ps) : ps[k] = ps[l] => k = l

\* InOrder lists a set of positions, each once and in order.
LEMMA InOrderListed ==
  ASSUME NEW n \in Nat, NEW P \in SUBSET (1 .. n)
  PROVE  Listed(InOrder(P, n), P)
<1> DEFINE r == InOrder(P, n)
<1>1. /\ r \in Seq(1 .. n)
      /\ \A k, l \in 1 .. Len(r) : k < l => r[k] < r[l]
      /\ \A k \in 1 .. Len(r) : r[k] \in P
  BY InOrderIs
<1> HIDE DEF r
<1>2. Len(r) \in Nat /\ \A k \in 1 .. Len(r) : r[k] \in 1 .. n
  BY <1>1, LenProperties
<1>3. r \in Seq(P)
  <2>1. r \in [1 .. Len(r) -> P]
    BY <1>1, <1>2
  <2> QED BY <1>2, <2>1
<1>4. \A k, l \in 1 .. Len(r) : r[k] = r[l] => k = l
  <2> SUFFICES ASSUME NEW k \in 1 .. Len(r), NEW l \in 1 .. Len(r), r[k] = r[l] PROVE k = l
    OBVIOUS
  <2>1. ~(k < l) /\ ~(l < k)
    BY <1>1, <1>2
  <2> QED BY <2>1
<1> QED BY <1>2, <1>3, <1>4 DEF Listed, r

\* What a context is made of are events of the range, each listed once.
LEMMA BoundedListed ==
  ASSUME TypeOK, NEW P \in SUBSET (DOMAIN log)
  PROVE  Listed(Bounded(P), P)
<1> DEFINE n == Len(log)
<1>1. n \in Nat /\ DOMAIN log = 1 .. n
  BY LenProperties DEF TypeOK
<1> HIDE DEF n
<1>2. Rest(P) \subseteq P /\ Summaries(P) \subseteq P
  BY DEF Rest, Summaries
<1>3. CASE Summaries(P) = {}
  <2>1. Bounded(P) = InOrder(Rest(P), n)
    BY <1>3 DEF Bounded, n
  <2>2. Rest(P) \in SUBSET (1 .. n)
    BY <1>1, <1>2
  <2> DEFINE R == Rest(P)
  <2> HIDE DEF R
  <2>3. Listed(InOrder(R, n), R)
    BY <1>1, <2>2, InOrderListed DEF R
  <2>4. \A r : Listed(r, R) => Listed(r, P)
    BY <1>2 DEF Listed, R
  <2> QED BY <2>1, <2>3, <2>4 DEF R
<1>4. CASE Summaries(P) # {}
  <2> DEFINE s == Latest(Summaries(P))
             R == KeptBy(Rest(P), s)
             r == InOrder(R, n)
             b == <<s>> \o r
  <2>1. Bounded(P) = b
    BY <1>4 DEF Bounded, n
  <2>2. s \in Summaries(P)
    <3>1. Summaries(P) \in SUBSET (0 .. n)
      BY <1>1, <1>2
    <3> QED BY <1>1, <1>4, <3>1, LatestOf
  <2>3. R \subseteq P /\ s \in P /\ s \notin R
    <3>1. R \subseteq Rest(P)
      BY DEF KeptBy
    <3>2. s \notin Rest(P)
      BY <2>2 DEF Rest, Summaries, Is
    <3> QED BY <1>2, <2>2, <3>1, <3>2
  <2> HIDE DEF s, R
  <2>4. Listed(r, R)
    <3>1. R \in SUBSET (1 .. n)
      BY <1>1, <2>3
    <3> QED BY <1>1, <3>1, InOrderListed
  <2> HIDE DEF r
  <2>5. r \in Seq(P) /\ <<s>> \in Seq(P) /\ Len(<<s>>) = 1 /\ Len(r) \in Nat
    BY <2>3, <2>4 DEF Listed
  <2>6. b \in Seq(P) /\ Len(b) = 1 + Len(r)
        /\ \A k \in 1 .. 1 + Len(r) : b[k] = IF k <= 1 THEN <<s>>[k] ELSE r[k - 1]
    BY <2>5, ConcatProperties
  <2> HIDE DEF b
  <2>7. \A k \in 1 .. Len(b) : b[k] = IF k = 1 THEN s ELSE r[k - 1]
    BY <2>5, <2>6
  <2>8. \A k \in 1 .. Len(b) : k # 1 => k - 1 \in 1 .. Len(r) /\ r[k - 1] \in R
    BY <2>4, <2>5, <2>6 DEF Listed
  <2>9. ASSUME NEW k \in 1 .. Len(b), NEW l \in 1 .. Len(b), b[k] = b[l] PROVE k = l
    <3>1. CASE k = 1 \/ l = 1
      BY <2>3, <2>7, <2>8, <2>9, <3>1
    <3>2. CASE k # 1 /\ l # 1
      <4>1. k - 1 = l - 1
        BY <2>4, <2>7, <2>8, <2>9, <3>2 DEF Listed
      <4> QED BY <4>1
    <3> QED BY <3>1, <3>2
  <2> QED BY <2>1, <2>5, <2>6, <2>9 DEF Listed
<1> QED BY <1>3, <1>4

MadeCalls(t) == {c \in Calls : MadeIn(c, t)}

\* The messages of events of one thread.
LEMMA MessagesClean ==
  ASSUME TypeOK, CallsOK, HomeOK, Once, NEW P \in SUBSET (DOMAIN log), NEW ps, Listed(ps, P),
         NEW t, \A p \in P : log[p].thread = t
  PROVE  Clean(Messages(ps)) /\ Within(Messages(ps), MadeCalls(t))
<1> DEFINE ms == Messages(ps)
<1>1. ps \in Seq(P) /\ Len(ps) \in Nat /\ DOMAIN ps = 1 .. Len(ps)
      /\ \A k \in 1 .. Len(ps) : ps[k] \in P
  BY LenProperties DEF Listed
<1>2. Len(ms) = Len(ps) /\ DOMAIN ms = 1 .. Len(ps) /\ \A k \in 1 .. Len(ps) : ms[k] = Message(ps[k])
  BY <1>1 DEF Messages
<1>3. ASSUME NEW p \in DOMAIN log
      PROVE  /\ Message(p) \in Msgs
             /\ Message(p).calls = log[p].calls /\ Message(p).call = log[p].call
             /\ Message(p).role = "result" <=> log[p].type = "end"
             /\ log[p].calls # {} => Message(p).role = "assistant"
  <2>1. log[p] \in Events
    BY <1>3, LenProperties DEF TypeOK
  <2>2. Role(p) \in {"assistant", "result", "summary", "user"}
    BY DEF Role
  <2>3. Message(p).role = Role(p) /\ Message(p).calls = log[p].calls /\ Message(p).call = log[p].call
    BY DEF Message
  <2>4. Message(p) \in Msgs
    BY <2>1, <2>2 DEF Message, Msgs, Events
  <2>5. Role(p) = "result" <=> log[p].type = "end"
    BY DEF Role, Is
  <2>6. log[p].calls # {} => Role(p) = "assistant"
    BY DEF CallsOK, Role, Is
  <2> QED BY <2>3, <2>4, <2>5, <2>6
<1> HIDE DEF ms
<1>4. \A k \in 1 .. Len(ps) : ps[k] \in DOMAIN log
  BY <1>1
<1>5. ms \in Seq(Msgs)
  <2>1. ms \in [1 .. Len(ps) -> Msgs]
    <3>1. \A k \in 1 .. Len(ps) : ms[k] \in Msgs
      BY <1>2, <1>3, <1>4
    <3>2. ms = [k \in 1 .. Len(ps) |-> ms[k]]
      BY <1>1, <1>2 DEF ms, Messages
    <3> QED BY <3>1, <3>2
  <2> QED BY <1>1, <2>1
<1>6. MakesOK(ms)
  <2>1. \A k \in 1 .. Len(ms) : ms[k].role # "assistant" => ms[k].calls = {}
    BY <1>2, <1>3, <1>4
  <2>2. ASSUME NEW k \in 1 .. Len(ms), NEW l \in 1 .. Len(ms), ms[k].calls \cap ms[l].calls # {}
        PROVE  k = l
    <3>1. ps[k] = ps[l]
      BY <1>2, <1>3, <1>4, <2>2 DEF CallsOK
    <3> QED BY <1>2, <3>1 DEF Listed
  <2> QED BY <2>1, <2>2 DEF MakesOK
<1>7. ResultsOnce(ms)
  <2> SUFFICES ASSUME NEW k \in 1 .. Len(ms), NEW l \in 1 .. Len(ms),
                      ms[k].role = "result", ms[l].role = "result", ms[k].call = ms[l].call
               PROVE  k = l
    BY DEF ResultsOnce
  <2>1. /\ log[ps[k]].type = "end" /\ log[ps[l]].type = "end"
        /\ log[ps[k]].call = log[ps[l]].call
        /\ ps[k] \in DOMAIN log /\ ps[l] \in DOMAIN log
    BY <1>2, <1>3, <1>4
  <2>2. ps[k] = ps[l]
    BY <2>1 DEF Once, Tells
  <2> QED BY <1>2, <2>2 DEF Listed
<1>8. Within(ms, MadeCalls(t))
  <2> SUFFICES ASSUME NEW k \in 1 .. Len(ms)
               PROVE  /\ ms[k].calls \subseteq MadeCalls(t)
                      /\ ms[k].role = "result" => ms[k].call \in MadeCalls(t)
    BY DEF Within
  <2> DEFINE p == ps[k]
  <2>1. /\ p \in DOMAIN log /\ log[p].thread = t /\ ms[k].calls = log[p].calls /\ ms[k].call = log[p].call
        /\ ms[k].role = "result" => log[p].type = "end"
    BY <1>1, <1>2, <1>3, <1>4
  <2> HIDE DEF p
  <2>2. log[p] \in Events
    BY <2>1, LenProperties DEF TypeOK
  <2>3. ms[k].calls \subseteq MadeCalls(t)
    BY <2>1, <2>2 DEF MadeCalls, MadeIn, Events
  <2>4. log[p].type = "end" => MadeIn(log[p].call, t)
    BY <2>1 DEF HomeOK, Tells
  <2>5. \A c : MadeIn(c, t) => c \in Calls
    <3> SUFFICES ASSUME NEW c, MadeIn(c, t) PROVE c \in Calls
      OBVIOUS
    <3>1. PICK q \in DOMAIN log : c \in log[q].calls
      BY DEF MadeIn
    <3>2. log[q] \in Events
      BY <3>1, LenProperties DEF TypeOK
    <3> QED BY <3>1, <3>2 DEF Events
  <2> QED BY <2>1, <2>3, <2>4, <2>5 DEF MadeCalls
<1> QED BY <1>5, <1>6, <1>7, <1>8 DEF Clean, ms

\* The messages of one session are clean: no call is made twice, and no result comes twice.
LEMMA OwnClean ==
  ASSUME TypeOK, CallsOK, HomeOK, Once, NEW t
  PROVE  Clean(Messages(OwnEvents(t))) /\ Within(Messages(OwnEvents(t)), MadeCalls(t))
<1> DEFINE P == Raw(Session(t))
           ps == OwnEvents(t)
<1>1. P \in SUBSET (DOMAIN log) /\ \A p \in P : log[p].thread = t
  BY DEF Raw, Session
<1>2. ps = Bounded(P)
  BY DEF OwnEvents
<1> HIDE DEF P, ps
<1>3. Listed(ps, P)
  BY <1>1, <1>2, BoundedListed
<1>4. Clean(Messages(ps)) /\ Within(Messages(ps), MadeCalls(t))
  BY <1>1, <1>3, MessagesClean
<1> QED BY <1>4 DEF ps

\* Calls and their results are within one thread, in any order the log has them.
LEMMA WellFormedWhen ==
  ASSUME TypeOK, CallsOK, HomeOK, Once
  PROVE  ContextWellFormed
<1> SUFFICES ASSUME NEW t
             PROVE  /\ WellFormed(Context(t))
                    /\ \A n \in Budgets : WellFormed(Budgeted(Context(t), n))
  BY DEF ContextWellFormed
<1> DEFINE own == Messages(OwnEvents(t))
           par == ParentContext(t)
           ms == Sanitize(par \o own)
<1>1. Clean(own) /\ Within(own, MadeCalls(t))
  BY OwnClean
<1>4. Clean(par \o own)
  <2>1. CASE Session(t).parent = None
    <3>1. par = <<>>
      BY <2>1 DEF ParentContext
    <3>2. Clean(<<>>) /\ Within(<<>>, {})
      BY EmptySeq DEF Clean, MakesOK, ResultsOnce, Within
    <3> HIDE DEF own
    <3>3. Clean(<<>> \o own)
      <4>1. {} \cap MadeCalls(t) = {}
        OBVIOUS
      <4> QED BY <1>1, <3>2, <4>1, ConcatClean
    <3> QED BY <3>1, <3>3
  <2>2. CASE Session(t).parent # None
    <3>1. t = 2 /\ Session(t).parent = 1
      BY <2>2 DEF Session
    <3>2. par = Sanitize(Messages(OwnEvents(1)))
      BY <2>2, <3>1 DEF ParentContext
    <3> DEFINE old == Messages(OwnEvents(1))
    <3>3. Clean(old) /\ Within(old, MadeCalls(1))
      BY OwnClean
    <3> HIDE DEF old
    <3>4. Clean(Sanitize(old)) /\ Within(Sanitize(old), MadeCalls(1))
      <4>1. CallsIn(old, MadeCalls(1))
        BY <3>3 DEF CallsIn, Within
      <4> QED BY <3>3, <4>1, SanitizeClean
    <3>5. MadeCalls(1) \cap MadeCalls(t) = {}
      <4> SUFFICES ASSUME NEW c, MadeIn(c, 1), MadeIn(c, 2) PROVE FALSE
        BY <3>1 DEF MadeCalls
      <4>1. PICK p \in DOMAIN log : c \in log[p].calls /\ log[p].thread = 1
        BY DEF MadeIn
      <4>2. PICK q \in DOMAIN log : c \in log[q].calls /\ log[q].thread = 2
        BY DEF MadeIn
      <4>3. p = q
        BY <4>1, <4>2 DEF CallsOK
      <4> QED BY <4>1, <4>2, <4>3
    <3> HIDE DEF own, par
    <3>6. Clean(Sanitize(old) \o own)
      BY <1>1, <3>4, <3>5, ConcatClean
    <3> QED BY <3>2, <3>6 DEF old
  <2> QED BY <2>1, <2>2
<1>5. Context(t) = ms
  BY DEF Context
<1> HIDE DEF par, own
<1>6. Clean(ms) /\ WellFormed(ms)
  BY <1>4, SanitizeClean, SanitizeWellFormed
<1> HIDE DEF ms
<1>7. ASSUME NEW n \in Budgets PROVE WellFormed(Budgeted(ms, n))
  <2>1. n \in Nat
    BY TurnLogAssumption
  <2>2. Clean(Truncate(ms, n))
    BY <1>6, <2>1, TruncateClean
  <2> QED BY <2>2, SanitizeWellFormed DEF Budgeted
<1> QED BY <1>5, <1>6, <1>7

------------------------------------------------------------------------------
(* What a context shows.                                                   *)

\* The boundary: a summary comes first, what follows is in the order of the log, and
\* what is left out comes before what the summary keeps.
Shows(b, P) ==
  /\ \A k, l \in 1 .. Len(b) : k < l => /\ ~Is(b[l], {"summary"})
                                        /\ ~Is(b[k], {"summary"}) => b[k] < b[l]
  /\ \A p \in Rest(P) : \/ \E k \in 1 .. Len(b) : b[k] = p
                        \/ \E k \in 1 .. Len(b) : Is(b[k], {"summary"}) /\ p < log[b[k]].first

\* The compaction boundary shows the last summary and everything it keeps.
LEMMA BoundedShows ==
  ASSUME TypeOK, NEW P \in SUBSET (DOMAIN log)
  PROVE  Shows(Bounded(P), P)
<1> DEFINE n == Len(log)
<1>1. n \in Nat /\ DOMAIN log = 1 .. n
  BY LenProperties DEF TypeOK
<1> HIDE DEF n
<1>2. Rest(P) \subseteq P /\ Summaries(P) \subseteq P /\ \A p \in Rest(P) : ~Is(p, {"summary"})
  BY DEF Rest, Summaries, Is
<1>3. CASE Summaries(P) = {}
  <2>1. Bounded(P) = InOrder(Rest(P), n)
    BY <1>3 DEF Bounded, n
  <2> DEFINE R == Rest(P)
             r == InOrder(R, n)
  <2>2. /\ r \in Seq(1 .. n)
        /\ \A k, l \in 1 .. Len(r) : k < l => r[k] < r[l]
        /\ \A k \in 1 .. Len(r) : r[k] \in R
        /\ \A i \in 1 .. n : i \in R => \E k \in 1 .. Len(r) : r[k] = i
    <3> HIDE DEF R
    <3> QED BY <1>1, InOrderIs
  <2>3. R \subseteq 1 .. n
    BY <1>1, <1>2
  <2> HIDE DEF r
  <2>4. Shows(r, P)
    BY <1>2, <2>2, <2>3 DEF Shows
  <2> QED BY <2>1, <2>4 DEF r
<1>4. CASE Summaries(P) # {}
  <2> DEFINE s == Latest(Summaries(P))
             R == KeptBy(Rest(P), s)
             r == InOrder(R, n)
             b == <<s>> \o r
  <2>1. Bounded(P) = b
    BY <1>4 DEF Bounded, n
  <2>2. s \in Summaries(P)
    <3>1. Summaries(P) \in SUBSET (0 .. n)
      BY <1>1, <1>2
    <3> QED BY <1>1, <1>4, <3>1, LatestOf
  <2>3. R \subseteq Rest(P) /\ s \in P /\ Is(s, {"summary"}) /\ \A p \in Rest(P) : p \in R \/ ~(p >= log[s].first)
    BY <2>2 DEF KeptBy, Summaries
  <2>4. log[s] \in Events
    <3>1. s \in 1 .. n
      BY <1>1, <2>3
    <3> QED BY <3>1, LenProperties DEF TypeOK, n
  <2>4a. log[s].first \in Nat
    BY <2>4 DEF Events
  <2> HIDE DEF s, R
  <2>5. /\ r \in Seq(1 .. n)
        /\ \A k, l \in 1 .. Len(r) : k < l => r[k] < r[l]
        /\ \A k \in 1 .. Len(r) : r[k] \in R
        /\ \A i \in 1 .. n : i \in R => \E k \in 1 .. Len(r) : r[k] = i
    BY <1>1, InOrderIs
  <2> HIDE DEF r
  <2>6. Len(r) \in Nat /\ s \in 1 .. n
    BY <1>1, <2>3, <2>5, LenProperties
  <2>7. Len(b) = 1 + Len(r) /\ \A k \in 1 .. 1 + Len(r) : b[k] = IF k = 1 THEN s ELSE r[k - 1]
    <3>1. <<s>> \in Seq(1 .. n) /\ Len(<<s>>) = 1 /\ <<s>>[1] = s
      BY <2>6
    <3>2. Len(b) = 1 + Len(r) /\ \A k \in 1 .. 1 + Len(r) : b[k] = IF k <= 1 THEN <<s>>[k] ELSE r[k - 1]
      BY <2>5, <3>1, ConcatProperties
    <3> QED BY <2>6, <3>1, <3>2
  <2> HIDE DEF b
  <2>8. \A k \in 1 .. Len(b) : k # 1 => k - 1 \in 1 .. Len(r) /\ b[k] = r[k - 1] /\ b[k] \in Rest(P)
    BY <2>3, <2>5, <2>6, <2>7
  <2>9. ASSUME NEW k \in 1 .. Len(b), NEW l \in 1 .. Len(b), k < l
        PROVE  ~Is(b[l], {"summary"}) /\ (~Is(b[k], {"summary"}) => b[k] < b[l])
    <3>1. l # 1 /\ ~Is(b[l], {"summary"})
      BY <1>2, <2>8, <2>9
    <3>2. CASE k = 1
      <4>1. Is(b[k], {"summary"})
        BY <2>3, <2>6, <2>7, <3>2
      <4> QED BY <3>1, <4>1
    <3>3. CASE k # 1
      <4>1. k - 1 < l - 1
        BY <2>9
      <4> QED BY <2>5, <2>8, <3>1, <3>3, <4>1
    <3> QED BY <3>2, <3>3
  <2>10. ASSUME NEW p \in Rest(P)
         PROVE  \/ \E k \in 1 .. Len(b) : b[k] = p
                \/ \E k \in 1 .. Len(b) : Is(b[k], {"summary"}) /\ p < log[b[k]].first
    <3>1. CASE p \in R
      <4>1. p \in 1 .. n
        BY <1>1, <1>2
      <4>2. PICK k \in 1 .. Len(r) : r[k] = p
        BY <2>5, <3>1, <4>1
      <4>3. k + 1 \in 1 .. 1 + Len(r) /\ k + 1 # 1 /\ (k + 1) - 1 = k
        BY <2>6
      <4> QED BY <2>7, <4>2, <4>3
    <3>2. CASE p \notin R
      <4>1. 1 \in 1 .. Len(b) /\ b[1] = s
        BY <2>6, <2>7
      <4>2. p \in 1 .. n
        BY <1>1, <1>2
      <4>3. p < log[s].first
        <5> DEFINE e == log[s].first
        <5>1. ~(p >= e) /\ p \in Nat /\ e \in Nat
          BY <2>3, <2>4a, <3>2, <4>2
        <5> HIDE DEF e
        <5>2. p < e
          BY <5>1
        <5> QED BY <5>2 DEF e
      <4> QED BY <2>3, <4>1, <4>3
    <3> QED BY <3>1, <3>2
  <2> QED BY <2>1, <2>9, <2>10 DEF Shows
<1> QED BY <1>3, <1>4

\* The events of a session and of the one it continues.
LEMMA OwnShows ==
  ASSUME TypeOK, NEW t
  PROVE  Listed(OwnEvents(t), Raw(Session(t))) /\ Shows(OwnEvents(t), Raw(Session(t)))
<1>1. Raw(Session(t)) \in SUBSET (DOMAIN log)
  BY DEF Raw
<1> DEFINE P == Raw(Session(t))
<1> HIDE DEF P
<1>2. Listed(Bounded(P), P) /\ Shows(Bounded(P), P)
  BY <1>1, BoundedListed, BoundedShows DEF P
<1> QED BY <1>2 DEF OwnEvents, P

\* Where the parent's events and the session's own are among those of the context.
Layout(t, par, own) ==
  /\ par = (IF Session(t).parent = None THEN <<>> ELSE OwnEvents(1)) /\ own = OwnEvents(t)
  /\ Len(par) \in Nat /\ Len(own) \in Nat
  /\ EventsOf(t) \in Seq(DOMAIN log) /\ Len(EventsOf(t)) = Len(par) + Len(own)
  /\ \A k \in 1 .. Len(par) : EventsOf(t)[k] = par[k]
  /\ \A k \in 1 .. Len(own) : EventsOf(t)[Len(par) + k] = own[k]
  /\ \A x \in 1 .. Len(par) + Len(own) : x \in 1 .. Len(par)
       \/ (x - Len(par) \in 1 .. Len(own) /\ x = Len(par) + (x - Len(par)))

\* The events of a session are those of the one it continues and its own.
LEMMA EventsLaid ==
  ASSUME TypeOK, NEW t
  PROVE  \E par, own : Layout(t, par, own)
<1> DEFINE par == IF Session(t).parent = None THEN <<>> ELSE OwnEvents(1)
           own == OwnEvents(t)
           D == DOMAIN log
<1>1. EventsOf(t) = par \o own
  BY DEF EventsOf, Session
<1>2. \A u : OwnEvents(u) \in Seq(D)
  <2> SUFFICES ASSUME NEW u PROVE OwnEvents(u) \in Seq(D)
    OBVIOUS
  <2>1. Raw(Session(u)) \subseteq D
    BY DEF Raw
  <2>2. OwnEvents(u) \in Seq(Raw(Session(u)))
    BY OwnShows DEF Listed
  <2> QED BY <2>1, <2>2
<1> HIDE DEF D
<1>3. par \in Seq(D) /\ own \in Seq(D)
  BY <1>2, EmptySeq
<1> HIDE DEF own
<1>4. par = (IF Session(t).parent = None THEN <<>> ELSE OwnEvents(1)) /\ own = OwnEvents(t)
  BY DEF own
<1> HIDE DEF par
<1> DEFINE es == par \o own
           n == Len(par)
           m == Len(own)
<1>5. /\ n \in Nat /\ m \in Nat /\ es \in Seq(D) /\ Len(es) = n + m
      /\ \A k \in 1 .. n + m : es[k] = IF k <= n THEN par[k] ELSE own[k - n]
  BY <1>3, LenProperties, ConcatProperties
<1> HIDE DEF es, n, m
<1>6. \A k \in 1 .. n : es[k] = par[k]
  BY <1>5
<1>7. \A k \in 1 .. m : es[n + k] = own[k]
  <2> SUFFICES ASSUME NEW k \in 1 .. m PROVE es[n + k] = own[k]
    OBVIOUS
  <2>1. n + k \in 1 .. n + m /\ ~(n + k <= n) /\ (n + k) - n = k
    BY <1>5
  <2> QED BY <1>5, <2>1
<1>8. \A x \in 1 .. n + m : x \in 1 .. n \/ (x - n \in 1 .. m /\ x = n + (x - n))
  BY <1>5
<1>9. Layout(t, par, own)
  BY <1>1, <1>4, <1>5, <1>6, <1>7, <1>8 DEF Layout, n, m, es, D
<1> QED BY <1>9

\* What the context leaves out of the session is among what its summary was made of.
LEMMA OwnCovered ==
  ASSUME TypeOK, CoversOK, NEW t, NEW p \in Rest(Raw(Session(t)))
  PROVE  \/ \E k \in 1 .. Len(OwnEvents(t)) : OwnEvents(t)[k] = p
         \/ \E k \in 1 .. Len(OwnEvents(t)) :
              Is(OwnEvents(t)[k], {"summary"}) /\ p \in log[OwnEvents(t)[k]].covers
<1> DEFINE own == OwnEvents(t)
           P == Raw(Session(t))
<1>1. Listed(own, P) /\ Shows(own, P)
  BY OwnShows
<1>2. /\ p \in DOMAIN log /\ log[p].thread = t /\ p > Session(t).start /\ Is(p, Conversation)
      /\ \A q \in P : q \in DOMAIN log /\ log[q].thread = t
  BY DEF Rest, Raw, Is, Conversation, Session
<1>3. \A k \in 1 .. Len(own) : own[k] \in P
  BY <1>1, LenProperties DEF Listed
<1> HIDE DEF own, P
<1>4. ASSUME NEW k \in 1 .. Len(own), Is(own[k], {"summary"}), p < log[own[k]].first
      PROVE  p \in log[own[k]].covers
  <2> DEFINE q == own[k]
  <2>1. q \in DOMAIN log /\ log[q].thread = t /\ log[q].type = "summary" /\ p < log[q].first
    BY <1>2, <1>3, <1>4 DEF Is
  <2> HIDE DEF q
  <2>2. Covered(log[q])
    BY <2>1 DEF CoversOK
  <2>3. p \in log[q].covers
    BY <1>2, <2>1, <2>2 DEF Covered
  <2> QED BY <2>3 DEF q
<1>5. \/ \E k \in 1 .. Len(own) : own[k] = p
      \/ \E k \in 1 .. Len(own) : Is(own[k], {"summary"}) /\ p < log[own[k]].first
  BY <1>1 DEF Shows, P
<1>6. \/ \E k \in 1 .. Len(own) : own[k] = p
      \/ \E k \in 1 .. Len(own) : Is(own[k], {"summary"}) /\ p \in log[own[k]].covers
  BY <1>4, <1>5
<1> QED BY <1>6 DEF own

\* Where every summary covers what it cuts off, nothing is forgotten.
LEMMA ForgottenWhen ==
  ASSUME TypeOK, CoversOK
  PROVE  NothingForgotten
<1> SUFFICES ASSUME NEW f \in Facades,
                    NEW p \in Rest(Raw(Session(Thread(f)))
                                   \cup (IF Session(Thread(f)).parent = None THEN {}
                                         ELSE Raw(Session(Session(Thread(f)).parent))))
             PROVE  \/ p \in Range(EventsOf(Thread(f)))
                    \/ \E s \in Summaries(Range(EventsOf(Thread(f)))) : p \in log[s].covers
  BY DEF NothingForgotten
<1> DEFINE t == Thread(f)
           es == EventsOf(t)
<1>1. PICK par, own : Layout(t, par, own)
  BY EventsLaid
<1>2. DOMAIN es = 1 .. Len(es)
  BY <1>1, LenProperties DEF Layout
<1> HIDE DEF t, es
<1>3. Range(es) = {es[k] : k \in 1 .. Len(es)}
  BY <1>2 DEF Range
<1>4. p \in Rest(Raw(Session(t))) \/ (Session(t).parent # None /\ p \in Rest(Raw(Session(1))))
  BY DEF Rest, Session, t
<1>5. CASE p \in Rest(Raw(Session(t)))
  <2>1. \/ \E k \in 1 .. Len(own) : own[k] = p
        \/ \E k \in 1 .. Len(own) : Is(own[k], {"summary"}) /\ p \in log[own[k]].covers
    BY <1>1, <1>5, OwnCovered DEF Layout
  <2>2. \A k \in 1 .. Len(own) : own[k] \in Range(es)
    <3> SUFFICES ASSUME NEW k \in 1 .. Len(own) PROVE own[k] \in Range(es)
      OBVIOUS
    <3>1. Len(par) + k \in 1 .. Len(es) /\ es[Len(par) + k] = own[k]
      BY <1>1 DEF Layout, es
    <3> QED BY <1>3, <3>1
  <2>3. p \in Range(es) \/ \E s \in Summaries(Range(es)) : p \in log[s].covers
    BY <2>1, <2>2 DEF Summaries
  <2> QED BY <2>3 DEF es, t
<1>6. CASE Session(t).parent # None /\ p \in Rest(Raw(Session(1)))
  <2>1. \/ \E k \in 1 .. Len(par) : par[k] = p
        \/ \E k \in 1 .. Len(par) : Is(par[k], {"summary"}) /\ p \in log[par[k]].covers
    <3>1. par = OwnEvents(1)
      BY <1>1, <1>6 DEF Layout
    <3> QED BY <1>6, <3>1, OwnCovered
  <2>2. \A k \in 1 .. Len(par) : par[k] \in Range(es)
    <3> SUFFICES ASSUME NEW k \in 1 .. Len(par) PROVE par[k] \in Range(es)
      OBVIOUS
    <3>1. k \in 1 .. Len(es) /\ es[k] = par[k]
      BY <1>1 DEF Layout, es
    <3> QED BY <1>3, <3>1
  <2>3. p \in Range(es) \/ \E s \in Summaries(Range(es)) : p \in log[s].covers
    BY <2>1, <2>2 DEF Summaries
  <2> QED BY <2>3 DEF es, t
<1> QED BY <1>4, <1>5, <1>6

------------------------------------------------------------------------------
(* What a summary covers.                                                  *)

\* Where the compactable events are among those of the context.
LEMMA CompactableIs ==
  ASSUME TypeOK, NEW f \in Facades
  PROVE  \E last \in 0 .. Len(EventsOf(Thread(f))) :
           /\ Compactable(f) \in Seq(DOMAIN log)
           /\ Len(Compactable(f)) = Len(EventsOf(Thread(f))) - last
           /\ \A k \in 1 .. Len(Compactable(f)) :
                Compactable(f)[k] = EventsOf(Thread(f))[last + k]
           /\ last # 0 => Is(EventsOf(Thread(f))[last], {"summary"})
           /\ \A k \in 1 .. Len(EventsOf(Thread(f))) :
                Is(EventsOf(Thread(f))[k], {"summary"}) => k <= last
<1> DEFINE es == EventsOf(Thread(f))
           D == DOMAIN log
           n == Len(es)
           X == {0} \cup {i \in DOMAIN es : Is(es[i], {"summary"})}
           last == Latest(X)
           ps == SubSeq(es, last + 1, n)
<1>1. Compactable(f) = ps
  BY DEF Compactable
<1>2. es \in Seq(D)
  <2>1. PICK par, own : Layout(Thread(f), par, own)
    BY EventsLaid
  <2> QED BY <2>1 DEF Layout
<1> HIDE DEF D, es
<1>3. n \in Nat /\ DOMAIN es = 1 .. n
  BY <1>2, LenProperties
<1> HIDE DEF n
<1>4. X \in SUBSET (0 .. n) /\ X # {}
  BY <1>3
<1>5. \A k \in 1 .. n : Is(es[k], {"summary"}) => k \in X
  BY <1>3
<1>6. \A x \in X : x # 0 => Is(es[x], {"summary"})
  OBVIOUS
<1> HIDE DEF X
<1>7. last \in X /\ \A q \in X : q <= last
  BY <1>3, <1>4, LatestOf
<1> HIDE DEF last
<1>8. last \in 0 .. n
  BY <1>4, <1>7
<1>9. /\ ps \in Seq(D) /\ Len(ps) = n - last
      /\ \A k \in 1 .. Len(ps) : ps[k] = es[last + k]
  <2> DEFINE from == last + 1
  <2>1. from \in 1 .. Len(es) + 1
    BY <1>3, <1>8 DEF n
  <2>2. ps = SubSeq(es, from, Len(es))
    BY DEF n
  <2> HIDE DEF from, ps
  <2>3. /\ ps \in Seq(D) /\ Len(ps) = Len(es) - from + 1
        /\ \A k \in 1 .. Len(es) - from + 1 : ps[k] = es[from + k - 1]
    BY <1>2, <2>1, <2>2, Suffix
  <2>4. Len(es) - from + 1 = n - last /\ \A k \in 1 .. n - last : from + k - 1 = last + k
    BY <1>3, <1>8 DEF from, n
  <2> QED BY <2>3, <2>4
<1> HIDE DEF ps
<1> QED BY <1>1, <1>5, <1>6, <1>7, <1>8, <1>9 DEF n, D, es

\* A summary that keeps what follows a message of the user covers all that comes before.
LEMMA SummaryCovers ==
  ASSUME TypeOK, CoversOK, NEW f \in Facades, NEW i \in 2 .. Len(Compactable(f)),
         Is(Compactable(f)[i], {"user", "bash"}),
         NEW e, e.type = "summary", e.thread = Thread(f), e.first = Compactable(f)[i],
         e.covers = Summarized(Compactable(f), i) \cup Earlier(f)
  PROVE  Covered(e)
<1> DEFINE t == Thread(f)
           es == EventsOf(t)
           ps == Compactable(f)
           n == Len(log)
<1>1. PICK last \in 0 .. Len(es) :
           /\ ps \in Seq(DOMAIN log) /\ Len(ps) = Len(es) - last
           /\ \A k \in 1 .. Len(ps) : ps[k] = es[last + k]
           /\ last # 0 => Is(es[last], {"summary"})
           /\ \A k \in 1 .. Len(es) : Is(es[k], {"summary"}) => k <= last
  BY CompactableIs
<1>2. PICK par, own : Layout(t, par, own)
  BY EventsLaid
<1>3. n \in Nat /\ DOMAIN log = 1 .. n
  BY LenProperties DEF TypeOK
<1>4. Is(ps[i], {"user", "bash"}) /\ i \in 2 .. Len(ps) /\ e.first = ps[i] /\ e.thread = t
      /\ e.covers = Summarized(ps, i) \cup Earlier(f)
  OBVIOUS
<1>5. t # 1 \/ cont = 0
  BY DEF Thread, t
<1>6. Earlier(f) = UNION {log[p].covers : p \in Summaries(Range(es))}
  BY DEF Earlier
<1> HIDE DEF t, es, ps, n
<1>7. /\ Len(par) \in Nat /\ Len(own) \in Nat /\ es \in Seq(DOMAIN log) /\ Len(es) = Len(par) + Len(own)
      /\ \A k \in 1 .. Len(par) : es[k] = par[k]
      /\ \A k \in 1 .. Len(own) : es[Len(par) + k] = own[k]
      /\ \A x \in 1 .. Len(par) + Len(own) : x \in 1 .. Len(par)
           \/ (x - Len(par) \in 1 .. Len(own) /\ x = Len(par) + (x - Len(par)))
      /\ own = OwnEvents(t)
  BY <1>2 DEF Layout, es
<1>8. DOMAIN es = 1 .. Len(es) /\ Range(es) = {es[k] : k \in 1 .. Len(es)}
  BY <1>7, LenProperties DEF Range
<1>9. ps[i] \in 1 .. n
  BY <1>1, <1>3, <1>4, LenProperties
<1>10. ASSUME NEW p \in DOMAIN log, log[p].thread = t, p > Session(t).start, Is(p, Conversation), p < ps[i]
       PROVE  p \in e.covers
  <2>1. p \in Rest(Raw(Session(t)))
    <3>1. Session(t).end = n + 1 /\ Session(t).thread = t
      BY <1>5 DEF Session, n
    <3>2. p < Session(t).end
      BY <1>3, <3>1
    <3> QED BY <1>10, <3>1, <3>2 DEF Rest, Raw, Is, Conversation
  <2>2. CASE \E k \in 1 .. Len(own) : Is(own[k], {"summary"}) /\ p \in log[own[k]].covers
    <3>1. PICK k \in 1 .. Len(own) : Is(own[k], {"summary"}) /\ p \in log[own[k]].covers
      BY <2>2
    <3>2. Len(par) + k \in 1 .. Len(es)
      BY <1>7
    <3>3. own[k] \in Range(es)
      BY <1>7, <1>8, <3>2
    <3> QED BY <1>4, <1>6, <3>1, <3>3 DEF Summaries
  <2>3. CASE \E k \in 1 .. Len(own) : own[k] = p
    <3>1. PICK k \in 1 .. Len(own) : own[k] = p
      BY <2>3
    <3>2. Listed(own, Raw(Session(t))) /\ Shows(own, Raw(Session(t)))
      BY <1>7, OwnShows
    <3>3. ~Is(p, {"summary"}) /\ ~Is(ps[i], {"summary"})
      BY <1>4, <1>10 DEF Is, Conversation
    <3> DEFINE x == Len(par) + k
               y == last + i
               N == Len(par)
    <3>4. x \in 1 .. Len(es) /\ es[x] = p
      BY <1>7, <3>1
    <3>5. y \in 1 .. Len(es) /\ es[y] = ps[i]
      <4>1. i \in 1 .. Len(ps) /\ last + i \in 1 .. Len(es)
        BY <1>1, <1>4
      <4> QED BY <1>1, <4>1
    <3>6. x > last
      <4>1. CASE last \in 1 .. Len(par)
        BY <1>7, <4>1
      <4>2. CASE last = 0
        BY <1>7, <4>2
      <4>3. CASE last - Len(par) \in 1 .. Len(own) /\ last = Len(par) + (last - Len(par))
        <5> DEFINE m == last - Len(par)
        <5>1. m \in 1 .. Len(own) /\ last = Len(par) + m
          BY <4>3
        <5> HIDE DEF m
        <5>2. last # 0
          BY <1>7, <5>1
        <5>3. Is(own[m], {"summary"})
          BY <1>1, <1>7, <5>1, <5>2
        <5>4. ~(k < m)
          BY <3>2, <5>1, <5>3 DEF Shows
        <5>5. k # m
          BY <3>1, <3>3, <5>3
        <5> QED BY <1>7, <5>1, <5>4, <5>5
      <4>4. last \in 1 .. Len(par) + Len(own) \/ last = 0
        BY <1>7
      <4> QED BY <1>7, <4>1, <4>2, <4>3, <4>4
    <3>7. x < y
      <4> SUFFICES ASSUME y <= x PROVE FALSE
        BY <3>4, <3>5
      <4>1. CASE y \in 1 .. N
        <5>1. par # <<>> /\ es[y] = par[y]
          BY <1>7, <4>1
        <5>2. Session(t).parent # None /\ par = OwnEvents(1)
          BY <1>2, <5>1 DEF Layout
        <5>3. t = 2 /\ cont # 0
          BY <5>2 DEF Session
        <5>4. Listed(par, Raw(Session(1)))
          BY <5>2, OwnShows
        <5>5. par[y] \in Raw(Session(1))
          BY <4>1, <5>4, LenProperties DEF Listed
        <5>6. ps[i] < cont
          BY <3>5, <5>1, <5>3, <5>5 DEF Raw, Session
        <5>7. p > cont
          BY <1>10, <5>3 DEF Session
        <5>8. cont \in Nat
          BY DEF TypeOK
        <5> QED BY <1>3, <1>9, <1>10, <5>6, <5>7, <5>8
      <4>2. CASE y - N \in 1 .. Len(own) /\ y = N + (y - N)
        <5> DEFINE m == y - N
        <5>1. m \in 1 .. Len(own) /\ y = N + m
          BY <4>2
        <5> HIDE DEF m
        <5>2. own[m] = ps[i]
          BY <1>7, <3>5, <5>1
        <5>3. m <= k
          BY <1>7, <3>1, <5>1
        <5>4. m < k => own[m] < own[k]
          BY <3>2, <3>3, <5>1, <5>2 DEF Shows
        <5>5. m = k => own[m] = own[k]
          OBVIOUS
        <5> QED BY <1>3, <1>9, <1>10, <3>1, <5>1, <5>2, <5>3, <5>4, <5>5
      <4> QED BY <1>7, <3>5, <4>1, <4>2
    <3> HIDE DEF x, y
    <3>8. PICK j \in 1 .. i - 1 : x = last + j
      <4>1. x - last \in 1 .. i - 1 /\ x = last + (x - last)
        BY <1>1, <1>4, <3>4, <3>6, <3>7 DEF y
      <4> QED BY <4>1
    <3>9. ps[j] = p
      <4>1. j \in 1 .. Len(ps)
        BY <1>4
      <4> QED BY <1>1, <3>4, <3>8, <4>1
    <3>10. p \in Summarized(ps, i)
      BY <3>9 DEF Summarized
    <3> QED BY <1>4, <3>10
  <2> QED BY <1>7, <2>1, <2>2, <2>3, OwnCovered
<1> QED BY <1>3, <1>4, <1>9, <1>10 DEF Covered, n

------------------------------------------------------------------------------
(* What a recovery plans.                                                  *)

\* r has what the pieces have, and nothing else.
Gathers(r, ss, n) ==
  /\ r \in Seq(Events) /\ Len(r) \in Nat
  /\ \A k \in 1 .. Len(r) : \E i \in 1 .. n : \E j \in 1 .. Len(ss[i]) : r[k] = ss[i][j]
  /\ \A i \in 1 .. n : \A j \in 1 .. Len(ss[i]) : \E k \in 1 .. Len(r) : r[k] = ss[i][j]
EachOnce(ss, n) == \A i \in 1 .. n : OnceIn(ss[i])
EachFirst(ss, n) == \A i \in 1 .. n : StartsFirst(ss[i])
\* Different pieces tell of different calls.
Apart(ss, n) ==
  \A i, m \in 1 .. n : \A j \in 1 .. Len(ss[i]) : \A o \in 1 .. Len(ss[m]) :
    ss[i][j].call = ss[m][o].call => i = m

\* Flat gathers its pieces: what holds once, or in order, in every piece holds in the whole.
LEMMA FlatGathers ==
  ASSUME NEW n \in Nat, NEW ss, Pieces(ss, n, Events)
  PROVE  /\ Gathers(Flat(ss, n), ss, n)
         /\ EachOnce(ss, n) /\ Apart(ss, n) => OnceIn(Flat(ss, n))
         /\ EachFirst(ss, n) => StartsFirst(Flat(ss, n))
<1> DEFINE r == Flat(ss, n)
<1>1. r \in Seq(Events) /\ \E off : Laid(off, ss, n, r)
  BY FlatLaid
<1> HIDE DEF r
<1>2. PICK off : Laid(off, ss, n, r)
  BY <1>1
<1>3. Len(r) \in Nat
  BY <1>1, LenProperties
<1>4. Measured(ss, n)
  BY LenProperties DEF Pieces, Measured
<1>5. Offsets(off, ss, n) /\ Len(r) = off[n]
      /\ \A i \in 1 .. n : \A j \in 1 .. Len(ss[i]) : r[off[i - 1] + j] = ss[i][j]
  BY <1>2 DEF Laid
<1>6. ASSUME NEW k \in 1 .. Len(r)
      PROVE  \E i \in 1 .. n : \E j \in 1 .. Len(ss[i]) : k = off[i - 1] + j /\ r[k] = ss[i][j]
  <2>1. k \in 1 .. off[n]
    BY <1>5
  <2>2. PICK i \in 1 .. n : \E j \in 1 .. Len(ss[i]) : k = off[i - 1] + j
    BY <1>4, <1>5, <2>1, OffsetsCover
  <2> QED BY <1>5, <2>2
<1>7. ASSUME NEW i \in 1 .. n, NEW j \in 1 .. Len(ss[i])
      PROVE  \E k \in 1 .. Len(r) : r[k] = ss[i][j]
  <2>1. i - 1 \in 0 .. n /\ i \in 0 .. n /\ n \in 0 .. n /\ i <= n
    OBVIOUS
  <2>2. off[i] <= off[n]
    BY <1>4, <1>5, <2>1, OffsetsGrow
  <2>3. off[i] = off[i - 1] + Len(ss[i]) /\ off[i - 1] \in Nat /\ off[i] \in Nat /\ Len(ss[i]) \in Nat
    BY <1>4, <1>5, <2>1 DEF Offsets, Measured
  <2>4. off[i - 1] + j \in 1 .. Len(r)
    <3> DEFINE x == off[i - 1]
               y == off[i]
               z == off[n]
               w == Len(ss[i])
    <3>1. x \in Nat /\ y = x + w /\ w \in Nat /\ y <= z /\ z = Len(r) /\ j \in 1 .. w
      BY <1>5, <2>2, <2>3
    <3> HIDE DEF x, y, z, w
    <3>2. x + j \in 1 .. Len(r)
      BY <1>3, <3>1
    <3> QED BY <3>2 DEF x
  <2> QED BY <1>5, <2>4
<1>8. ASSUME EachOnce(ss, n), Apart(ss, n),
             NEW k \in 1 .. Len(r), NEW l \in 1 .. Len(r),
             Tells(r[k]), r[k].type = r[l].type, r[k].call = r[l].call
      PROVE  k = l
  <2>1. PICK i \in 1 .. n : \E j \in 1 .. Len(ss[i]) : k = off[i - 1] + j /\ r[k] = ss[i][j]
    BY <1>6
  <2>2. PICK j \in 1 .. Len(ss[i]) : k = off[i - 1] + j /\ r[k] = ss[i][j]
    BY <2>1
  <2>3. PICK m \in 1 .. n : \E o \in 1 .. Len(ss[m]) : l = off[m - 1] + o /\ r[l] = ss[m][o]
    BY <1>6
  <2>4. PICK o \in 1 .. Len(ss[m]) : l = off[m - 1] + o /\ r[l] = ss[m][o]
    BY <2>3
  <2>5. i = m
    BY <1>8, <2>2, <2>4 DEF Apart
  <2>6. OnceIn(ss[i])
    BY <1>8 DEF EachOnce
  <2>7. j = o
    BY <1>8, <2>2, <2>4, <2>5, <2>6 DEF OnceIn
  <2> QED BY <2>2, <2>4, <2>5, <2>7
<1>9. Gathers(r, ss, n)
  BY <1>1, <1>3, <1>6, <1>7 DEF Gathers
<1>10. EachOnce(ss, n) /\ Apart(ss, n) => OnceIn(r)
  BY <1>8 DEF OnceIn
<1>11. EachFirst(ss, n) => StartsFirst(r)
  <2> SUFFICES ASSUME EachFirst(ss, n), NEW k \in 1 .. Len(r), r[k].type = "end",
                      Having("start", r[k].call) = {}
               PROVE  \E l \in 1 .. k - 1 : r[l].type = "start" /\ r[l].call = r[k].call
    BY DEF StartsFirst
  <2>1. PICK i \in 1 .. n : \E j \in 1 .. Len(ss[i]) : k = off[i - 1] + j /\ r[k] = ss[i][j]
    BY <1>6
  <2>2. PICK j \in 1 .. Len(ss[i]) : k = off[i - 1] + j /\ r[k] = ss[i][j]
    BY <2>1
  <2>3. StartsFirst(ss[i])
    BY DEF EachFirst
  <2>4. PICK l \in 1 .. j - 1 : ss[i][l].type = "start" /\ ss[i][l].call = ss[i][j].call
    BY <2>2, <2>3 DEF StartsFirst
  <2>5. off[i - 1] \in Nat /\ Len(ss[i]) \in Nat
    <3>1. i - 1 \in 0 .. n
      OBVIOUS
    <3> QED BY <1>4, <1>5, <3>1 DEF Offsets, Measured
  <2>6. off[i - 1] + l \in 1 .. k - 1 /\ l \in 1 .. Len(ss[i])
    <3> DEFINE x == off[i - 1]
               w == Len(ss[i])
    <3>1. x \in Nat /\ w \in Nat /\ k = x + j /\ j \in 1 .. w /\ l \in 1 .. j - 1
      BY <2>2, <2>5
    <3> HIDE DEF x, w
    <3>2. x + l \in 1 .. k - 1 /\ l \in 1 .. w
      BY <3>1
    <3> QED BY <3>2 DEF x, w
  <2>7. r[off[i - 1] + l] = ss[i][l]
    BY <1>5, <2>6
  <2> QED BY <2>2, <2>4, <2>6, <2>7
<1> QED BY <1>9, <1>10, <1>11 DEF r

\* e repairs a call the answer p has left open: it is not in the log yet.
Repairs(e, p) ==
  /\ e.type \in {"start", "end"} /\ e.thread = log[p].thread /\ e.calls = {}
  /\ e.call \in Unresolved(p) /\ Having(e.type, e.call) = {}
\* r has what the calls C lack.
Completes(r, C) ==
  \A c \in C : /\ \E k \in 1 .. Len(r) : r[k].type = "end" /\ r[k].call = c
               /\ Having("start", c) = {} => \E k \in 1 .. Len(r) : r[k].type = "start" /\ r[k].call = c

\* A position of the log holds an event.
LEMMA EventOf ==
  ASSUME TypeOK, NEW p \in DOMAIN log
  PROVE  log[p] \in Events /\ p \in 1 .. Len(log) /\ Len(log) \in Nat
<1>1. DOMAIN log = 1 .. Len(log) /\ Len(log) \in Nat /\ log \in Seq(Events)
  BY LenProperties DEF TypeOK
<1> QED BY <1>1, ElementOfSeq

\* The event that tells of a call.
LEMMA CallEvent ==
  ASSUME NEW type \in Types, NEW th \in Threads, NEW c \in Calls \cup {None}
  PROVE  /\ CallEv(type, th, c) \in Events /\ CallEv(type, th, c).type = type
         /\ CallEv(type, th, c).thread = th
         /\ CallEv(type, th, c).calls = {} /\ CallEv(type, th, c).call = c
<1> DEFINE e == CallEv(type, th, c)
<1>1. e = [Ev(type, th) EXCEPT !.call = c]
  BY DEF CallEv
<1> HIDE DEF e
<1>2. e \in Events /\ e.type = type /\ e.thread = th /\ e.calls = {} /\ e.call = c
  BY <1>1 DEF Ev, Events
<1> QED BY <1>2 DEF e

\* A repair of one call: an END, after a START if there is none yet.
LEMMA CompensateIs ==
  ASSUME TypeOK, NEW p \in DOMAIN log, NEW c \in Unresolved(p)
  PROVE  /\ Compensate(p, c) \in Seq(Events)
         /\ \A k \in 1 .. Len(Compensate(p, c)) :
              Repairs(Compensate(p, c)[k], p) /\ Compensate(p, c)[k].call = c
         /\ OnceIn(Compensate(p, c)) /\ StartsFirst(Compensate(p, c))
         /\ Completes(Compensate(p, c), {c})
<1> DEFINE th == log[p].thread
           start == CallEv("start", th, c)
           end == CallEv("end", th, c)
           r == Compensate(p, c)
<1>1. log[p] \in Events
  BY EventOf
<1>2. th \in Threads /\ c \in Calls /\ c \in log[p].calls /\ Having("end", c) = {}
  BY <1>1 DEF Events, Unresolved
<1>3. /\ start \in Events /\ start.type = "start" /\ start.thread = th /\ start.calls = {} /\ start.call = c
      /\ end \in Events /\ end.type = "end" /\ end.thread = th /\ end.calls = {} /\ end.call = c
  <2>1. "start" \in Types /\ "end" \in Types
    BY DEF Types, ContextTypes
  <2>2. start = CallEv("start", th, c) /\ end = CallEv("end", th, c)
    OBVIOUS
  <2> HIDE DEF start, end, th
  <2>3. th \in Threads /\ c \in Calls \cup {None}
    BY <1>2
  <2>4. start \in Events /\ start.type = "start" /\ start.thread = th /\ start.calls = {} /\ start.call = c
    BY <2>1, <2>2, <2>3, CallEvent
  <2>5. end \in Events /\ end.type = "end" /\ end.thread = th /\ end.calls = {} /\ end.call = c
    BY <2>1, <2>2, <2>3, CallEvent
  <2> QED BY <2>4, <2>5
<1>4. r = (IF Having("start", c) # {} THEN <<>> ELSE <<start>>) \o <<end>>
  BY DEF Compensate
<1>5. th = log[p].thread
  OBVIOUS
<1> HIDE DEF start, end, r, th
<1>6. CASE Having("start", c) # {}
  <2>1. r = <<end>> /\ Len(r) = 1
    BY <1>4, <1>6
  <2>2. r \in Seq(Events) /\ \A k \in 1 .. Len(r) : k = 1 /\ r[k] = end
    BY <1>3, <2>1
  <2>3. Repairs(end, p)
    BY <1>2, <1>3, <1>5 DEF Repairs
  <2>4. \A k \in 1 .. Len(r) : Repairs(r[k], p) /\ r[k].call = c
    BY <1>3, <2>2, <2>3
  <2>5. OnceIn(r)
    BY <2>2 DEF OnceIn
  <2>6. Completes(r, {c})
    <3>1. 1 \in 1 .. Len(r) /\ r[1] = end
      BY <2>1
    <3> QED BY <1>3, <1>6, <3>1 DEF Completes
  <2>7. StartsFirst(r)
    BY <1>6, <2>4 DEF StartsFirst
  <2> QED BY <2>2, <2>4, <2>5, <2>6, <2>7 DEF r
<1>7. CASE Having("start", c) = {}
  <2>1. r = <<start>> \o <<end>>
    BY <1>4, <1>7
  <2>2. /\ r \in Seq(Events) /\ Len(r) = 2 /\ r[1] = start /\ r[2] = end
        /\ \A k \in 1 .. Len(r) : (k = 1 /\ r[k] = start) \/ (k = 2 /\ r[k] = end)
    <3>1. /\ <<start>> \in Seq(Events) /\ Len(<<start>>) = 1 /\ <<start>>[1] = start
          /\ <<end>> \in Seq(Events) /\ Len(<<end>>) = 1 /\ <<end>>[1] = end
      BY <1>3
    <3>2. r \in Seq(Events) /\ Len(r) = 1 + 1
          /\ \A k \in 1 .. 1 + 1 : r[k] = IF k <= 1 THEN <<start>>[k] ELSE <<end>>[k - 1]
      BY <2>1, <3>1, ConcatProperties
    <3>3. Len(r) = 2 /\ r[1] = start /\ r[2] = end
      BY <3>1, <3>2
    <3> QED BY <3>2, <3>3
  <2>3. Repairs(end, p) /\ Repairs(start, p)
    BY <1>2, <1>3, <1>5, <1>7 DEF Repairs
  <2>4. \A k \in 1 .. Len(r) : Repairs(r[k], p) /\ r[k].call = c
    BY <1>3, <2>2, <2>3
  <2>5. OnceIn(r)
    BY <1>3, <2>2 DEF OnceIn
  <2>6. Completes(r, {c})
    <3>1. 1 \in 1 .. Len(r) /\ r[1] = start /\ 2 \in 1 .. Len(r) /\ r[2] = end
      BY <2>2
    <3> QED BY <1>3, <3>1 DEF Completes
  <2>7. StartsFirst(r)
    <3> SUFFICES ASSUME NEW k \in 1 .. Len(r), r[k].type = "end"
                 PROVE  \E l \in 1 .. k - 1 : r[l].type = "start" /\ r[l].call = r[k].call
      BY DEF StartsFirst
    <3>1. k = 2 /\ 1 \in 1 .. k - 1
      BY <1>3, <2>2
    <3> QED BY <1>3, <2>2, <3>1
  <2> QED BY <2>2, <2>4, <2>5, <2>6, <2>7 DEF r
<1> QED BY <1>6, <1>7

\* The repair of one answer.
RepairOf(p) == Flat([c \in Calls |-> IF c \in Unresolved(p) THEN Compensate(p, c) ELSE <<>>], MaxCalls)
RepairIs(r, p) ==
  /\ r \in Seq(Events) /\ OnceIn(r) /\ StartsFirst(r) /\ Completes(r, Unresolved(p))
  /\ \A k \in 1 .. Len(r) : Repairs(r[k], p)

\* The repair of an answer completes the calls it left open, and touches no other.
LEMMA RepairOfIs ==
  ASSUME TypeOK, NEW p \in DOMAIN log
  PROVE  RepairIs(RepairOf(p), p)
<1> DEFINE ss == [c \in Calls |-> IF c \in Unresolved(p) THEN Compensate(p, c) ELSE <<>>]
           r == RepairOf(p)
           n == MaxCalls
<1>1. n \in Nat /\ Calls = 1 .. n
  BY TurnLogAssumption DEF Calls
<1>2. r = Flat(ss, n)
  BY DEF RepairOf
<1>3. \A c \in 1 .. n : ss[c] = IF c \in Unresolved(p) THEN Compensate(p, c) ELSE <<>>
  BY <1>1
<1> HIDE DEF ss, r, n
<1>4. ASSUME NEW c \in 1 .. n
      PROVE  /\ ss[c] \in Seq(Events) /\ OnceIn(ss[c]) /\ StartsFirst(ss[c])
             /\ \A k \in 1 .. Len(ss[c]) : Repairs(ss[c][k], p) /\ ss[c][k].call = c
             /\ c \in Unresolved(p) => Completes(ss[c], {c})
  <2>1. CASE c \in Unresolved(p)
    <3>1. ss[c] = Compensate(p, c)
      BY <1>3, <2>1
    <3> DEFINE x == Compensate(p, c)
    <3>2. /\ x \in Seq(Events) /\ \A k \in 1 .. Len(x) : Repairs(x[k], p) /\ x[k].call = c
          /\ OnceIn(x) /\ StartsFirst(x) /\ Completes(x, {c})
      BY <2>1, CompensateIs
    <3> HIDE DEF x
    <3>3. ss[c] = x
      BY <3>1 DEF x
    <3> QED BY <3>2, <3>3
  <2>2. CASE c \notin Unresolved(p)
    <3>1. ss[c] = <<>>
      BY <1>3, <2>2
    <3>2. ss[c] \in Seq(Events) /\ \A k \in 1 .. Len(ss[c]) : FALSE
      BY <3>1
    <3> QED BY <2>2, <3>2 DEF OnceIn, StartsFirst
  <2> QED BY <2>1, <2>2
<1>5. Pieces(ss, n, Events) /\ EachOnce(ss, n) /\ EachFirst(ss, n)
  BY <1>4 DEF Pieces, EachOnce, EachFirst
<1>6. Apart(ss, n)
  BY <1>4 DEF Apart
<1>7. Gathers(r, ss, n) /\ OnceIn(r) /\ StartsFirst(r)
  BY <1>1, <1>2, <1>5, <1>6, FlatGathers
<1>8. \A k \in 1 .. Len(r) : Repairs(r[k], p)
  BY <1>4, <1>7 DEF Gathers
<1>9. Completes(r, Unresolved(p))
  <2> SUFFICES ASSUME NEW c \in Unresolved(p)
               PROVE  /\ \E k \in 1 .. Len(r) : r[k].type = "end" /\ r[k].call = c
                      /\ Having("start", c) = {} => \E k \in 1 .. Len(r) : r[k].type = "start" /\ r[k].call = c
    BY DEF Completes
  <2>1. c \in 1 .. n
    <3>1. log[p] \in Events
      BY EventOf
    <3> QED BY <1>1, <3>1 DEF Unresolved, Events
  <2>2. /\ \E k \in 1 .. Len(ss[c]) : ss[c][k].type = "end" /\ ss[c][k].call = c
        /\ Having("start", c) = {} => \E k \in 1 .. Len(ss[c]) : ss[c][k].type = "start" /\ ss[c][k].call = c
    BY <1>4, <2>1 DEF Completes
  <2>3. \A j \in 1 .. Len(ss[c]) : \E k \in 1 .. Len(r) : r[k] = ss[c][j]
    BY <1>7, <2>1 DEF Gathers
  <2> QED BY <2>2, <2>3
<1> QED BY <1>7, <1>8, <1>9 DEF Gathers, RepairIs, r

CompensationsOK(r) ==
  /\ r \in Seq(Events) /\ Len(r) \in Nat /\ OnceIn(r) /\ StartsFirst(r)
  /\ \A p \in DOMAIN log : Completes(r, Unresolved(p))
  /\ \A k \in 1 .. Len(r) : \E p \in DOMAIN log : Repairs(r[k], p)

\* The repair of the log completes the calls of every answer.
LEMMA CompensationsIs ==
  ASSUME TypeOK, CallsOK
  PROVE  CompensationsOK(Compensations)
<1> DEFINE ss == [p \in DOMAIN log |-> RepairOf(p)]
           n == Len(log)
           r == Compensations
<1>1. n \in Nat /\ DOMAIN log = 1 .. n
  BY LenProperties DEF TypeOK
<1>2. r = Flat(ss, n)
  BY DEF Compensations, RepairOf
<1>3. \A p \in 1 .. n : ss[p] = RepairOf(p)
  BY <1>1
<1> HIDE DEF ss, r, n
<1>4. \A p \in 1 .. n : RepairIs(ss[p], p)
  BY <1>1, <1>3, RepairOfIs
<1>5. Pieces(ss, n, Events) /\ EachOnce(ss, n) /\ EachFirst(ss, n)
  BY <1>4 DEF Pieces, EachOnce, EachFirst, RepairIs
<1>6. Apart(ss, n)
  <2> SUFFICES ASSUME NEW i \in 1 .. n, NEW m \in 1 .. n,
                      NEW j \in 1 .. Len(ss[i]), NEW o \in 1 .. Len(ss[m]), ss[i][j].call = ss[m][o].call
               PROVE  i = m
    BY DEF Apart
  <2>1. Repairs(ss[i][j], i) /\ Repairs(ss[m][o], m)
    BY <1>4 DEF RepairIs
  <2>2. ss[i][j].call \in log[i].calls /\ ss[m][o].call \in log[m].calls
    BY <2>1 DEF Repairs, Unresolved
  <2>3. log[i].calls \cap log[m].calls # {}
    BY <2>2
  <2> QED BY <1>1, <2>3 DEF CallsOK
<1>7. Gathers(r, ss, n) /\ OnceIn(r) /\ StartsFirst(r)
  BY <1>1, <1>2, <1>5, <1>6, FlatGathers
<1>8. \A k \in 1 .. Len(r) : \E p \in DOMAIN log : Repairs(r[k], p)
  <2> SUFFICES ASSUME NEW k \in 1 .. Len(r) PROVE \E p \in 1 .. n : Repairs(r[k], p)
    BY <1>1
  <2>1. PICK i \in 1 .. n : \E j \in 1 .. Len(ss[i]) : r[k] = ss[i][j]
    BY <1>7 DEF Gathers
  <2> QED BY <1>4, <2>1 DEF RepairIs
<1>9. ASSUME NEW p \in DOMAIN log PROVE Completes(r, Unresolved(p))
  <2>1. p \in 1 .. n
    BY <1>1, <1>9
  <2>2. \A j \in 1 .. Len(ss[p]) : \E k \in 1 .. Len(r) : r[k] = ss[p][j]
    BY <1>7, <2>1 DEF Gathers
  <2>3. Completes(ss[p], Unresolved(p))
    BY <1>4, <2>1 DEF RepairIs
  <2> QED BY <2>2, <2>3 DEF Completes
<1> QED BY <1>7, <1>8, <1>9 DEF Gathers, CompensationsOK, r

\* The plan of a recovery tells of each open call once, START first, and completes all of
\* them (recoverDanglingTurnState).
LEMMA RecoveryPlanIs ==
  ASSUME TypeOK, CallsOK
  PROVE  /\ RecoveryPlan \in Seq(Events) /\ OnceIn(RecoveryPlan) /\ StartsFirst(RecoveryPlan)
         /\ \A p \in DOMAIN log : Completes(RecoveryPlan, Unresolved(p))
         /\ \A k \in 1 .. Len(RecoveryPlan) :
              \/ \E p \in DOMAIN log : Repairs(RecoveryPlan[k], p)
              \/ RecoveryPlan[k].type = "completed" /\ RecoveryPlan[k].calls = {}
<1> DEFINE a == Compensations
           ts == InOrder(Interrupted, NumFacades + 1)
           b == [i \in DOMAIN ts |-> Ev("completed", ts[i])]
           r == RecoveryPlan
<1>1. r = a \o b
  BY DEF RecoveryPlan
<1>2. CompensationsOK(a)
  BY CompensationsIs
<1>3. ts \in Seq(Threads)
  <2>1. NumFacades + 1 \in Nat /\ Threads = 1 .. NumFacades + 1
    BY TurnLogAssumption DEF Threads
  <2> DEFINE S == Interrupted
             N == NumFacades + 1
  <2> HIDE DEF S, N
  <2>2. InOrder(S, N) \in Seq(1 .. N)
    BY <2>1, InOrderIs DEF N
  <2> QED BY <2>1, <2>2 DEF S, N
<1> HIDE DEF ts, a, r
<1>4. Len(ts) \in Nat /\ DOMAIN ts = 1 .. Len(ts) /\ \A i \in 1 .. Len(ts) : ts[i] \in Threads
  BY <1>3, LenProperties
<1>5. \A i \in 1 .. Len(ts) : b[i] \in Events /\ b[i].type = "completed" /\ b[i].calls = {}
  BY <1>4 DEF Ev, Events, Types
<1>6. b \in Seq(Events) /\ Len(b) = Len(ts)
  BY <1>4, <1>5
<1> HIDE DEF b
<1> DEFINE n == Len(a)
           m == Len(b)
<1>7. a \in Seq(Events) /\ n \in Nat /\ m \in Nat /\ r \in Seq(Events) /\ Len(r) = n + m
      /\ \A k \in 1 .. n + m : r[k] = IF k <= n THEN a[k] ELSE b[k - n]
  <2>1. a \in Seq(Events)
    BY <1>2 DEF CompensationsOK
  <2> QED BY <1>1, <1>4, <1>6, <2>1, LenProperties, ConcatProperties
<1>8. \A k \in 1 .. n : r[k] = a[k] /\ k \in 1 .. Len(r)
  <2> HIDE DEF n, m
  <2> QED BY <1>7
<1>9. \A k \in 1 .. Len(r) : k \in 1 .. n \/ (r[k].type = "completed" /\ r[k].calls = {})
  <2> SUFFICES ASSUME NEW k \in 1 .. Len(r), k \notin 1 .. n
               PROVE  r[k].type = "completed" /\ r[k].calls = {}
    OBVIOUS
  <2>1. r[k] = b[k - n] /\ k - n \in 1 .. m
    <3> HIDE DEF n, m
    <3> QED BY <1>7
  <2> QED BY <1>5, <1>6, <2>1
<1>10. OnceIn(r)
  <2> SUFFICES ASSUME NEW k \in 1 .. Len(r), NEW l \in 1 .. Len(r),
                      Tells(r[k]), r[k].type = r[l].type, r[k].call = r[l].call
               PROVE  k = l
    BY DEF OnceIn
  <2>1. k \in 1 .. n /\ l \in 1 .. n
    BY <1>9 DEF Tells
  <2> QED BY <1>2, <1>8, <2>1 DEF CompensationsOK, OnceIn
<1>11. \A p \in DOMAIN log : Completes(r, Unresolved(p))
  BY <1>2, <1>8 DEF CompensationsOK, Completes
<1>12. \A k \in 1 .. Len(r) : \/ \E p \in DOMAIN log : Repairs(r[k], p)
                              \/ r[k].type = "completed" /\ r[k].calls = {}
  BY <1>2, <1>8, <1>9 DEF CompensationsOK
<1>13. StartsFirst(r)
  <2> SUFFICES ASSUME NEW k \in 1 .. Len(r), r[k].type = "end", Having("start", r[k].call) = {}
               PROVE  \E l \in 1 .. k - 1 : r[l].type = "start" /\ r[l].call = r[k].call
    BY DEF StartsFirst
  <2>1. k \in 1 .. n /\ r[k] = a[k] /\ n \in Nat
    BY <1>7, <1>8, <1>9
  <2>2. PICK l \in 1 .. k - 1 : a[l].type = "start" /\ a[l].call = a[k].call
    BY <1>2, <2>1 DEF CompensationsOK, StartsFirst
  <2>3. l \in 1 .. n
    <3> HIDE DEF n
    <3> QED BY <2>1
  <2> QED BY <1>8, <2>1, <2>2, <2>3
<1> QED BY <1>7, <1>10, <1>11, <1>12, <1>13 DEF r

------------------------------------------------------------------------------
(* What a step does to the log. *)

Adds(e) == log' = Append(log, e)
\* What may be appended: calls that nobody made, news of a call in its thread, and a
\* summary of all that comes before.
Fits(e) ==
  /\ e.calls \subseteq FreshCalls /\ (e.calls # {} => e.type = "assistant")
  /\ Tells(e) => MadeIn(e.call, e.thread)
  /\ Covered(e)
Grows == log' = log \/ \E e \in Events : Adds(e)
LogStep == log' = log \/ \E e \in Events : Adds(e) /\ Fits(e)
ContStep == cont' \in Nat /\ cont <= cont'

\* An append leaves what was there where it was.
LEMMA AddsIs ==
  ASSUME TypeOK, NEW e \in Events, Adds(e)
  PROVE  /\ log' \in Seq(Events) /\ Len(log) \in Nat /\ Len(log') = Len(log) + 1
         /\ DOMAIN log' = 1 .. Len(log) + 1 /\ DOMAIN log = 1 .. Len(log)
         /\ \A p \in DOMAIN log : log'[p] = log[p] /\ p \in DOMAIN log'
         /\ log'[Len(log) + 1] = e
<1>1. log \in Seq(Events) /\ Len(log) \in Nat /\ DOMAIN log = 1 .. Len(log)
  BY LenProperties DEF TypeOK
<1>2. /\ log' \in Seq(Events) /\ Len(log') = Len(log) + 1
      /\ \A i \in 1 .. Len(log) : log'[i] = log[i]
      /\ log'[Len(log) + 1] = e
  BY <1>1, AppendProperties DEF Adds
<1>3. DOMAIN log' = 1 .. Len(log) + 1
  BY <1>2, LenProperties
<1>4. \A p \in DOMAIN log : log'[p] = log[p] /\ p \in DOMAIN log'
  BY <1>1, <1>2, <1>3
<1> QED BY <1>1, <1>2, <1>3, <1>4

\* So does a step that may append.
LEMMA GrowsIs ==
  ASSUME TypeOK, Grows
  PROVE  /\ log' \in Seq(Events) /\ Len(log) \in Nat /\ Len(log') \in Nat /\ Len(log) <= Len(log')
         /\ \A p \in DOMAIN log : log'[p] = log[p] /\ p \in DOMAIN log'
         /\ \A p \in DOMAIN log' : p \in DOMAIN log \/ p > Len(log)
         /\ DOMAIN log = 1 .. Len(log) /\ DOMAIN log' = 1 .. Len(log')
<1>1. CASE log' = log
  <2>1. log \in Seq(Events) /\ Len(log) \in Nat /\ DOMAIN log = 1 .. Len(log)
    BY LenProperties DEF TypeOK
  <2> QED BY <1>1, <2>1
<1>2. CASE \E e \in Events : Adds(e)
  <2>1. PICK e \in Events : Adds(e)
    BY <1>2
  <2> QED BY <2>1, AddsIs
<1> QED BY <1>1, <1>2 DEF Grows

\* A call that was made stays made, in its thread.
LEMMA MadeStays ==
  ASSUME TypeOK, Grows
  PROVE  \A c, t : MadeIn(c, t) => MadeIn(c, t)'
<1> SUFFICES ASSUME NEW c, NEW t, MadeIn(c, t) PROVE MadeIn(c, t)'
  OBVIOUS
<1>1. PICK p \in DOMAIN log : c \in log[p].calls /\ log[p].thread = t
  BY DEF MadeIn
<1>2. log'[p] = log[p] /\ p \in DOMAIN log'
  BY GrowsIs
<1> QED BY <1>1, <1>2 DEF MadeIn

\* A summary keeps covering what precedes what it keeps: what is appended comes later.
LEMMA CoveredStays ==
  ASSUME TypeOK, Grows, ContStep, NEW e \in Events, Covered(e)
  PROVE  Covered(e)'
<1> SUFFICES ASSUME e.type = "summary"
             PROVE  /\ e.first <= Len(log')
                    /\ \A p \in DOMAIN log' :
                         log'[p].thread = e.thread /\ p > Session(e.thread)'.start /\ Is(p, Conversation)'
                           /\ p < e.first => p \in e.covers
  BY DEF Covered
<1>1. /\ Len(log) \in Nat /\ Len(log') \in Nat /\ Len(log) <= Len(log')
      /\ \A p \in DOMAIN log : log'[p] = log[p] /\ p \in DOMAIN log'
      /\ \A p \in DOMAIN log' : p \in DOMAIN log \/ p > Len(log)
      /\ DOMAIN log' = 1 .. Len(log')
  BY GrowsIs
<1>2. e.first \in Nat /\ e.first <= Len(log)
  BY DEF Covered, Events
<1>3. ASSUME NEW p \in DOMAIN log', log'[p].thread = e.thread, p > Session(e.thread)'.start,
             Is(p, Conversation)', p < e.first
      PROVE  p \in e.covers
  <2>1. p \in DOMAIN log /\ log'[p] = log[p]
    BY <1>1, <1>2, <1>3
  <2>2. p > Session(e.thread).start
    <3>1. p \in Nat
      BY <1>1
    <3>2. Session(e.thread).start = (IF e.thread = 2 THEN cont ELSE 0)
          /\ Session(e.thread)'.start = (IF e.thread = 2 THEN cont' ELSE 0)
      BY DEF Session
    <3>3. cont \in Nat
      BY DEF TypeOK
    <3> QED BY <1>3, <3>1, <3>2, <3>3 DEF ContStep
  <2>3. Is(p, Conversation)
    BY <1>3, <2>1 DEF Is
  <2> QED BY <1>3, <2>1, <2>2, <2>3 DEF Covered
<1> QED BY <1>1, <1>2, <1>3

\* A step that appends what fits leaves the log in order.
LEMMA LogKept ==
  ASSUME TypeOK, CallsOK, HomeOK, CoversOK, LogStep, ContStep
  PROVE  Grows /\ log' \in Seq(Events) /\ CallsOK' /\ HomeOK' /\ CoversOK'
<1>1. Grows
  BY DEF LogStep, Grows
<1>2. log' \in Seq(Events)
  BY <1>1, GrowsIs
<1>3. CASE log' = log
  <2>1. CallsOK'
    BY <1>3 DEF CallsOK, Is
  <2>2. HomeOK'
    BY <1>3 DEF HomeOK, MadeIn
  <2>3. CoversOK'
    <3> SUFFICES ASSUME NEW p \in DOMAIN log PROVE Covered(log[p])'
      BY <1>3 DEF CoversOK
    <3> DEFINE e == log[p]
    <3>1. e \in Events
      BY EventOf
    <3>2. Covered(e)
      BY DEF CoversOK
    <3>3. \A x \in Events : Covered(x) => Covered(x)'
      BY <1>1, CoveredStays
    <3> QED BY <1>3, <3>1, <3>2, <3>3
  <2> QED BY <1>1, <1>2, <2>1, <2>2, <2>3
<1>4. CASE \E e \in Events : Adds(e) /\ Fits(e)
  <2>1. PICK e \in Events : Adds(e) /\ Fits(e)
    BY <1>4
  <2> DEFINE n == Len(log)
  <2>2. /\ n \in Nat /\ DOMAIN log' = 1 .. n + 1 /\ DOMAIN log = 1 .. n
        /\ \A p \in DOMAIN log : log'[p] = log[p] /\ p \in DOMAIN log'
        /\ log'[n + 1] = e
    BY <2>1, AddsIs
  <2> HIDE DEF n
  <2>3. \A p \in DOMAIN log' : p \in DOMAIN log \/ p = n + 1
    BY <2>2
  <2>4. CallsOK'
    <3>1. \A p \in DOMAIN log' : log'[p].calls # {} => log'[p].type = "assistant"
      BY <2>1, <2>2, <2>3 DEF CallsOK, Is, Fits
    <3>2. \A p \in DOMAIN log : log[p].calls \cap e.calls = {}
      BY <2>1 DEF Fits, FreshCalls
    <3>3. \A p, q \in DOMAIN log' : log'[p].calls \cap log'[q].calls # {} => p = q
      <4> SUFFICES ASSUME NEW p \in DOMAIN log', NEW q \in DOMAIN log', log'[p].calls \cap log'[q].calls # {}
                   PROVE  p = q
        OBVIOUS
      <4>1. CASE p \in DOMAIN log /\ q \in DOMAIN log
        BY <2>2, <4>1 DEF CallsOK
      <4>2. CASE p \in DOMAIN log /\ q = n + 1
        BY <2>2, <3>2, <4>2
      <4>3. CASE p = n + 1 /\ q \in DOMAIN log
        BY <2>2, <3>2, <4>3
      <4> QED BY <2>3, <4>1, <4>2, <4>3
    <3> QED BY <3>1, <3>3 DEF CallsOK, Is
  <2>5. HomeOK'
    <3> SUFFICES ASSUME NEW p \in DOMAIN log', NEW c, NEW t, Tells(log'[p]),
                        c = log'[p].call, t = log'[p].thread
                 PROVE  MadeIn(c, t)'
      BY DEF HomeOK, Tells, MadeIn
    <3>1. \A d, u : MadeIn(d, u) => MadeIn(d, u)'
      BY <1>1, MadeStays
    <3>2. MadeIn(c, t)
      BY <2>1, <2>2, <2>3 DEF HomeOK, Fits, Tells
    <3> QED BY <3>1, <3>2
  <2>6. CoversOK'
    <3> SUFFICES ASSUME NEW p \in DOMAIN log', NEW x, x = log'[p] PROVE Covered(x)'
      BY DEF CoversOK, Covered
    <3>1. \A y \in Events : Covered(y) => Covered(y)'
      BY <1>1, CoveredStays
    <3>2. x \in Events /\ Covered(x)
      <4>1. CASE p \in DOMAIN log
        BY <2>2, <4>1, EventOf DEF CoversOK
      <4>2. CASE p = n + 1
        BY <2>1, <2>2, <4>2 DEF Fits
      <4> QED BY <2>3, <4>1, <4>2
    <3> QED BY <3>1, <3>2
  <2> QED BY <1>1, <1>2, <2>4, <2>5, <2>6
<1> QED BY <1>3, <1>4 DEF LogStep

------------------------------------------------------------------------------
(* The facades.                                                            *)

\* A facade works in a thread.
LEMMA ThreadIs ==
  ASSUME TypeOK, NEW f \in Facades
  PROVE  Thread(f) \in Threads
<1>1. NumFacades \in Nat /\ f \in 1 .. NumFacades
  BY TurnLogAssumption DEF Facades
<1> QED BY <1>1 DEF Thread, Threads

\* An event that is stamped again is an event.
LEMMA StampedIs ==
  ASSUME TypeOK, NEW f \in Facades, NEW e \in Events
  PROVE  /\ Stamped(f, e) \in Events /\ Stamped(f, e).thread = Thread(f)
         /\ Stamped(f, e).type = e.type /\ Stamped(f, e).calls = e.calls
         /\ Stamped(f, e).first = e.first /\ Stamped(f, e).covers = e.covers
         /\ e.thread = Thread(f) => Stamped(f, e) = e
<1>1. Thread(f) \in Threads
  BY ThreadIs
<1>2. PICK t : t = Thread(f)
  OBVIOUS
<1> QED BY <1>1, <1>2 DEF Stamped, Events

\* A boundary that is awaited still covers what comes before it when the log has grown.
LEMMA CompStays ==
  ASSUME TypeOK, Grows, cont' = cont, NEW f \in Facades, NEW e \in Events \cup {None}, CompOK(f, e)
  PROVE  CompOK(f, e)'
<1> SUFFICES ASSUME e # None PROVE Covered(Stamped(f, e))'
  BY DEF CompOK
<1>1. e \in Events
  OBVIOUS
<1>2. PICK x : x = Stamped(f, e)
  OBVIOUS
<1>3. x \in Events /\ Covered(x)
  BY <1>1, <1>2, StampedIs DEF CompOK
<1>4. ContStep
  BY DEF ContStep, TypeOK
<1>5. Covered(x)'
  BY <1>3, <1>4, CoveredStays
<1>6. x = Stamped(f, e)'
  BY <1>2 DEF Stamped, Thread
<1> QED BY <1>5, <1>6 DEF Covered

\* A facade that is not touched stays as it should be when the log grows.
LEMMA FacadeStays ==
  ASSUME TypeOK, Grows, cont' = cont, NEW f \in Facades, NEW x, FacadeOK(f, x)
  PROVE  FacadeOK(f, x)'
<1>1. \A c, t : MadeIn(c, t) => MadeIn(c, t)'
  BY MadeStays
<1>2. x \in Facade
  BY DEF FacadeOK
<1>3. Thread(f)' = Thread(f)
  BY DEF Thread
<1>4. \A e \in Events \cup {None} : CompOK(f, e) => CompOK(f, e)'
  BY CompStays
<1>5. x.comp \in Events \cup {None} /\ x.stray \in Events \cup {None}
  BY <1>2 DEF Facade
<1>6. \A c \in x.wait : MadeIn(c, Thread(f))'
  <2> SUFFICES ASSUME NEW c \in x.wait, NEW t, t = Thread(f) PROVE MadeIn(c, t)'
    BY <1>3 DEF MadeIn
  <2> QED BY <1>1 DEF FacadeOK
<1>7. CompOK(f, x.comp)' /\ CompOK(f, x.stray)'
  BY <1>4, <1>5 DEF FacadeOK
<1> QED BY <1>3, <1>6, <1>7 DEF FacadeOK

\* Every facade but f is as before.
Others(f) == fac' \in [Facades -> Facade] /\ \A g \in Facades \ {f} : fac'[g] = fac[g]

\* A step of one facade leaves the others as they should be.
LEMMA FacadesStep ==
  ASSUME TypeOK, FacadesOK, Grows, cont' = cont, NEW f \in Facades, Others(f), FacadeOK(f, fac[f])'
  PROVE  FacadesOK'
<1> SUFFICES ASSUME NEW g \in Facades PROVE FacadeOK(g, fac[g])'
  BY DEF FacadesOK
<1>1. CASE g = f
  BY <1>1
<1>2. CASE g # f
  <2>1. fac'[g] = fac[g] /\ FacadeOK(g, fac[g])
    BY <1>2 DEF Others, FacadesOK
  <2>2. PICK x : x = fac[g]
    OBVIOUS
  <2>3. FacadeOK(g, x)
    BY <2>1, <2>2
  <2>4. FacadeOK(g, x)'
    BY <2>3, FacadeStays
  <2>5. x = fac'[g]
    BY <2>1, <2>2
  <2> QED BY <2>4, <2>5 DEF FacadeOK, CompOK, Stamped, Covered
<1> QED BY <1>1, <1>2

\* So does a step of none.
LEMMA FacadesSame ==
  ASSUME TypeOK, FacadesOK, Grows, cont' = cont, fac' = fac
  PROVE  FacadesOK'
<1> SUFFICES ASSUME NEW g \in Facades PROVE FacadeOK(g, fac[g])'
  BY DEF FacadesOK
<1>1. PICK x : x = fac[g]
  OBVIOUS
<1>2. FacadeOK(g, x)
  BY <1>1 DEF FacadesOK
<1>3. FacadeOK(g, x)'
  BY <1>2, FacadeStays
<1>4. x = fac'[g]
  BY <1>1
<1> QED BY <1>3, <1>4 DEF FacadeOK, CompOK, Stamped, Covered

\* What a step of an open facade must keep to.
LEMMA FreeStep ==
  ASSUME IInv, Free, Quiet, LogStep, fac' = fac \/ \E f \in Facades : Others(f) /\ FacadeOK(f, fac[f])'
  PROVE  IInv'
<1>1. /\ TypeOK /\ CallsOK /\ HomeOK /\ CoversOK /\ FacadesOK /\ OpeningOK /\ PlanHome
  BY DEF IInv
<1>2. ContStep /\ cont' = cont
  BY <1>1 DEF ContStep, TypeOK, Quiet
<1>3. Grows /\ log' \in Seq(Events) /\ CallsOK' /\ HomeOK' /\ CoversOK'
  BY <1>1, <1>2, LogKept
<1>4. fac' \in [Facades -> Facade] /\ FacadesOK'
  <2>1. CASE fac' = fac
    <3>1. fac' \in [Facades -> Facade]
      BY <1>1, <2>1 DEF TypeOK
    <3> QED BY <1>1, <1>2, <1>3, <2>1, <3>1, FacadesSame
  <2>2. CASE \E f \in Facades : Others(f) /\ FacadeOK(f, fac[f])'
    <3>1. PICK f \in Facades : Others(f) /\ FacadeOK(f, fac[f])'
      BY <2>2
    <3>2. FacadesOK'
      BY <1>1, <1>2, <1>3, <3>1, FacadesStep
    <3> QED BY <3>1, <3>2 DEF Others
  <2> QED BY <2>1, <2>2
<1>5. TypeOK'
  <2>1. Len(log) <= Len(log') /\ Len(log) \in Nat /\ Len(log') \in Nat
    BY <1>1, <1>3, GrowsIs
  <2>2. since' \in 0 .. Len(log') /\ cont' \in 0 .. Len(log')
    BY <1>1, <2>1 DEF TypeOK, Quiet
  <2> QED BY <1>1, <1>3, <1>4, <2>2 DEF TypeOK, Quiet
<1>6. OpeningOK' /\ PlanHome'
  <2>1. plan' = <<>> /\ opening' = None
    BY <1>1 DEF OpeningOK, Free, Quiet
  <2> QED BY <2>1 DEF OpeningOK, PlanHome, Free
<1> QED BY <1>3, <1>4, <1>5, <1>6 DEF IInv

\* What the invariant says of one facade.
LEMMA FacadeIs ==
  ASSUME IInv, NEW f \in Facades
  PROVE  /\ fac[f] \in Facade /\ fac \in [Facades -> Facade] /\ TypeOK /\ FacadeOK(f, fac[f])
         /\ fac[f].ph # "idle" \/ fac[f].comp # None \/ fac[f].stray # None => fac[f].open
<1>1. FacadeOK(f, fac[f]) /\ fac \in [Facades -> Facade] /\ TypeOK
  BY DEF IInv, FacadesOK, TypeOK
<1>2. Closed.ph = "idle" /\ Closed.comp = None /\ Closed.stray = None
  BY DEF Closed
<1> QED BY <1>1, <1>2 DEF FacadeOK

\* The compactions of f go on.
SameComps(f) == fac'[f].comp = fac[f].comp /\ fac'[f].stray = fac[f].stray

\* A turn of an open facade, whether it is being compacted or not.
LEMMA TurnStep ==
  ASSUME IInv, NEW f \in Facades, LogStep, Quiet, fac'[f] \in Facade, fac'[f].open, SameComps(f),
         fac'[f].ph \notin {"answered", "tools"} => fac'[f].wait = {},
         \A c \in fac'[f].wait : MadeIn(c, Thread(f))'
  PROVE  FacadeOK(f, fac[f])'
<1>1. TypeOK /\ FacadeOK(f, fac[f])
  BY FacadeIs
<1>2. Grows /\ cont' = cont
  BY DEF LogStep, Grows, Quiet
<1>3. PICK d : d = fac[f].comp
  OBVIOUS
<1>4. PICK e : e = fac[f].stray
  OBVIOUS
<1>5. d \in Events \cup {None} /\ e \in Events \cup {None} /\ CompOK(f, d) /\ CompOK(f, e)
  BY <1>1, <1>3, <1>4 DEF FacadeOK, Facade
<1>6. CompOK(f, d)' /\ CompOK(f, e)'
  BY <1>1, <1>2, <1>5, CompStays
<1>7. d = fac'[f].comp /\ e = fac'[f].stray
  BY <1>3, <1>4 DEF SameComps
<1>8. CompOK(f, fac[f].comp)'
  BY <1>6, <1>7 DEF CompOK, Stamped, Covered
<1>9. CompOK(f, fac[f].stray)'
  BY <1>6, <1>7 DEF CompOK, Stamped, Covered
<1> QED BY <1>8, <1>9 DEF FacadeOK

\* An event that makes no call and tells of none.
LEMMA PlainEvent ==
  ASSUME NEW type \in Types \ {"start", "end", "summary"}, NEW th \in Threads
  PROVE  Ev(type, th) \in Events /\ Ev(type, th).type = type /\ Ev(type, th).calls = {} /\ Fits(Ev(type, th))
<1> DEFINE e == Ev(type, th)
<1>1. e \in Events /\ e.type = type /\ e.calls = {}
  BY DEF Ev, Events
<1> HIDE DEF e
<1>2. Fits(e)
  BY <1>1 DEF Fits, Tells, Covered
<1> QED BY <1>1, <1>2 DEF e

\* An event that tells of no call may be appended.
LEMMA PlainLog ==
  ASSUME TypeOK, NEW type \in Types \ {"start", "end", "summary"}, NEW th \in Threads,
         Emit(Ev(type, th))
  PROVE  LogStep
<1>1. Adds(Ev(type, th))
  BY DEF Emit, Adds
<1> QED BY <1>1, PlainEvent DEF LogStep

------------------------------------------------------------------------------
(* The steps of a turn.                                                    *)

\* A prompt keeps the invariant.
LEMMA PromptKeeps ==
  ASSUME IInv, NEW f \in Facades, Prompt(f)
  PROVE  IInv'
<1>1. /\ fac[f] \in Facade /\ fac \in [Facades -> Facade] /\ TypeOK /\ FacadeOK(f, fac[f])
  BY FacadeIs
<1>2. /\ Free /\ fac[f].open /\ fac[f].ph = "idle"
      /\ Emit(Ev("user", Thread(f))) /\ Quiet
      /\ fac' = [fac EXCEPT ![f].ph = "asking", ![f].stop = FALSE]
  BY DEF Prompt
<1>3. /\ Others(f) /\ fac'[f] \in Facade /\ fac'[f].open /\ SameComps(f)
      /\ fac'[f].wait = fac[f].wait
  BY <1>1, <1>2 DEF Others, SameComps, Facade
<1>4. fac[f].wait = {}
  BY <1>1, <1>2 DEF FacadeOK
<1>5. LogStep
  <2>1. "user" \in Types \ {"start", "end", "summary"}
    BY DEF Types, ContextTypes
  <2> QED BY <1>1, <1>2, <2>1, ThreadIs, PlainLog
<1>6. FacadeOK(f, fac[f])'
  BY <1>2, <1>3, <1>4, <1>5, TurnStep
<1> QED BY <1>2, <1>3, <1>5, <1>6, FreeStep

\* A shell command of the user keeps the invariant.
LEMMA BashKeeps ==
  ASSUME IInv, NEW f \in Facades, Bash(f)
  PROVE  IInv'
<1>1. TypeOK
  BY DEF IInv
<1>2. Free /\ Emit(Ev("bash", Thread(f))) /\ Quiet /\ fac' = fac
  BY DEF Bash
<1>3. LogStep
  <2>1. "bash" \in Types \ {"start", "end", "summary"}
    BY DEF Types, ContextTypes
  <2> QED BY <1>1, <1>2, <2>1, ThreadIs, PlainLog
<1> QED BY <1>2, <1>3, FreeStep

\* The end of a turn keeps the invariant.
LEMMA EndTurnKeeps ==
  ASSUME IInv, NEW f \in Facades, EndTurn(f)
  PROVE  IInv'
<1>1. /\ fac[f] \in Facade /\ fac \in [Facades -> Facade] /\ TypeOK /\ FacadeOK(f, fac[f])
      /\ fac[f].ph # "idle" => fac[f].open
  BY FacadeIs
<1>2. /\ Free /\ fac[f].ph = "ending" /\ Emit(Ev("completed", Thread(f))) /\ Quiet
      /\ fac' = [fac EXCEPT ![f].ph = "idle"]
  BY DEF EndTurn, Turn
<1>3. /\ Others(f) /\ fac'[f] \in Facade /\ fac'[f].open = fac[f].open /\ SameComps(f)
      /\ fac'[f].wait = fac[f].wait
  BY <1>1, <1>2 DEF Others, SameComps, Facade
<1>4. fac[f].wait = {} /\ fac[f].open
  BY <1>1, <1>2 DEF FacadeOK
<1>5. LogStep
  <2>1. "completed" \in Types \ {"start", "end", "summary"}
    BY DEF Types
  <2> QED BY <1>1, <1>2, <2>1, ThreadIs, PlainLog
<1>6. FacadeOK(f, fac[f])'
  BY <1>2, <1>3, <1>4, <1>5, TurnStep
<1> QED BY <1>2, <1>3, <1>5, <1>6, FreeStep

\* A turn goes on with the calls it has, or with fewer.
LEMMA SameCalls ==
  ASSUME IInv, NEW f \in Facades, Grows, cont' = cont, fac'[f].wait \subseteq fac[f].wait
  PROVE  \A c \in fac'[f].wait : MadeIn(c, Thread(f))'
<1> SUFFICES ASSUME NEW c \in fac'[f].wait, NEW t, t = Thread(f) PROVE MadeIn(c, t)'
  BY DEF MadeIn, Thread
<1>1. MadeIn(c, t) /\ TypeOK
  BY FacadeIs DEF FacadeOK
<1> QED BY <1>1, MadeStays

\* The dispatch of the calls of an answer keeps the invariant.
LEMMA DispatchKeeps ==
  ASSUME IInv, NEW f \in Facades, Dispatch(f)
  PROVE  IInv'
<1>1. /\ fac[f] \in Facade /\ fac \in [Facades -> Facade] /\ TypeOK /\ FacadeOK(f, fac[f])
      /\ fac[f].ph # "idle" => fac[f].open
  BY FacadeIs
<1>2. /\ Free /\ fac[f].ph = "answered" /\ log' = log /\ Quiet
      /\ \/ fac' = [fac EXCEPT ![f].ph = "ending", ![f].wait = {}]
         \/ fac' = [fac EXCEPT ![f].ph = "tools", ![f].begun = {}]
  BY DEF Dispatch
<1>3. LogStep /\ Grows
  BY <1>2 DEF LogStep, Grows
<1>4. CASE fac' = [fac EXCEPT ![f].ph = "ending", ![f].wait = {}]
  <2>1. /\ Others(f) /\ fac'[f] \in Facade /\ fac'[f].open = fac[f].open /\ SameComps(f)
        /\ fac'[f].wait = {}
    BY <1>1, <1>4 DEF Others, SameComps, Facade
  <2>2. FacadeOK(f, fac[f])'
    BY <1>1, <1>2, <1>3, <2>1, TurnStep
  <2> QED BY <1>2, <1>3, <2>1, <2>2, FreeStep
<1>5. CASE fac' = [fac EXCEPT ![f].ph = "tools", ![f].begun = {}]
  <2>1. /\ Others(f) /\ fac'[f] \in Facade /\ fac'[f].open = fac[f].open /\ SameComps(f)
        /\ fac'[f].wait = fac[f].wait /\ fac'[f].ph = "tools"
    BY <1>1, <1>5 DEF Others, SameComps, Facade
  <2>2. \A c \in fac'[f].wait : MadeIn(c, Thread(f))'
    BY <1>2, <1>3, <2>1, SameCalls DEF Quiet
  <2>3. FacadeOK(f, fac[f])'
    BY <1>1, <1>2, <1>3, <2>1, <2>2, TurnStep
  <2> QED BY <1>2, <1>3, <2>1, <2>3, FreeStep
<1> QED BY <1>2, <1>4, <1>5

\* An interrupt keeps the invariant.
LEMMA AbortKeeps ==
  ASSUME IInv, NEW f \in Facades, Abort(f)
  PROVE  IInv'
<1>1. /\ fac[f] \in Facade /\ fac \in [Facades -> Facade] /\ TypeOK /\ FacadeOK(f, fac[f])
      /\ fac[f].ph # "idle" => fac[f].open
  BY FacadeIs
<1>2. /\ Free /\ fac[f].ph \in {"asking", "answered", "tools"} /\ log' = log /\ Quiet
      /\ fac' = [fac EXCEPT ![f].stop = TRUE, ![f].ph = IF @ = "asking" THEN "ending" ELSE @]
  BY DEF Abort
<1>3. LogStep /\ Grows
  BY <1>2 DEF LogStep, Grows
<1>4. /\ Others(f) /\ fac'[f] \in Facade /\ fac'[f].open = fac[f].open /\ SameComps(f)
      /\ fac'[f].wait = fac[f].wait
      /\ fac'[f].ph = (IF fac[f].ph = "asking" THEN "ending" ELSE fac[f].ph)
  BY <1>1, <1>2 DEF Others, SameComps, Facade
<1>5. \A c \in fac'[f].wait : MadeIn(c, Thread(f))'
  BY <1>2, <1>3, <1>4, SameCalls DEF Quiet
<1>6. fac'[f].ph \notin {"answered", "tools"} => fac'[f].wait = {}
  BY <1>1, <1>2, <1>4 DEF FacadeOK
<1>7. FacadeOK(f, fac[f])'
  BY <1>1, <1>2, <1>3, <1>4, <1>5, <1>6, TurnStep
<1> QED BY <1>2, <1>3, <1>4, <1>7, FreeStep

\* The start of a tool keeps the invariant.
LEMMA StartToolKeeps ==
  ASSUME IInv, NEW f \in Facades, NEW c \in Calls, StartTool(f, c)
  PROVE  IInv'
<1>1. /\ fac[f] \in Facade /\ fac \in [Facades -> Facade] /\ TypeOK /\ FacadeOK(f, fac[f])
      /\ fac[f].ph # "idle" => fac[f].open
  BY FacadeIs
<1>2. /\ Free /\ fac[f].ph = "tools" /\ c \in fac[f].wait \ fac[f].begun
      /\ Emit(CallEv("start", Thread(f), c)) /\ Quiet
      /\ fac' = [fac EXCEPT ![f].begun = @ \cup {c}]
  BY DEF StartTool
<1>3. LogStep /\ Grows
  <2>1. PICK e : e = CallEv("start", Thread(f), c)
    OBVIOUS
  <2>2. "start" \in Types /\ Thread(f) \in Threads /\ c \in Calls \cup {None}
    BY <1>1, ThreadIs DEF Types
  <2>3. e \in Events /\ e.type = "start" /\ e.thread = Thread(f) /\ e.calls = {} /\ e.call = c
    BY <2>1, <2>2, CallEvent
  <2>4. MadeIn(e.call, e.thread)
    BY <1>1, <1>2, <2>3 DEF FacadeOK
  <2>5. Fits(e) /\ Adds(e)
    BY <1>2, <2>1, <2>3, <2>4 DEF Fits, Adds, Emit, Covered
  <2> QED BY <2>3, <2>5 DEF LogStep, Grows
<1>4. /\ Others(f) /\ fac'[f] \in Facade /\ fac'[f].open = fac[f].open /\ SameComps(f)
      /\ fac'[f].wait = fac[f].wait /\ fac'[f].ph = fac[f].ph
  BY <1>1, <1>2 DEF Others, SameComps, Facade
<1>5. \A d \in fac'[f].wait : MadeIn(d, Thread(f))'
  BY <1>2, <1>3, <1>4, SameCalls DEF Quiet
<1>6. FacadeOK(f, fac[f])'
  BY <1>1, <1>2, <1>3, <1>4, <1>5, TurnStep
<1> QED BY <1>2, <1>3, <1>4, <1>6, FreeStep

\* The end of a tool keeps the invariant.
LEMMA EndToolKeeps ==
  ASSUME IInv, NEW f \in Facades, NEW c \in Calls, EndTool(f, c)
  PROVE  IInv'
<1>1. /\ fac[f] \in Facade /\ fac \in [Facades -> Facade] /\ TypeOK /\ FacadeOK(f, fac[f])
      /\ fac[f].ph # "idle" => fac[f].open
  BY FacadeIs
<1>2. /\ Free /\ fac[f].ph = "tools" /\ c \in fac[f].wait \cap fac[f].begun
      /\ Emit(CallEv("end", Thread(f), c)) /\ Quiet
      /\ fac' = [fac EXCEPT ![f].wait = @ \ {c},
                            ![f].ph = IF fac[f].wait # {c} THEN @
                                      ELSE IF fac[f].stop THEN "ending" ELSE "asking"]
  BY DEF EndTool
<1>3. LogStep /\ Grows
  <2>1. PICK e : e = CallEv("end", Thread(f), c)
    OBVIOUS
  <2>2. "end" \in Types /\ Thread(f) \in Threads /\ c \in Calls \cup {None}
    BY <1>1, ThreadIs DEF Types, ContextTypes
  <2>3. e \in Events /\ e.type = "end" /\ e.thread = Thread(f) /\ e.calls = {} /\ e.call = c
    BY <2>1, <2>2, CallEvent
  <2>4. MadeIn(e.call, e.thread)
    BY <1>1, <1>2, <2>3 DEF FacadeOK
  <2>5. Fits(e) /\ Adds(e)
    BY <1>2, <2>1, <2>3, <2>4 DEF Fits, Adds, Emit, Covered
  <2> QED BY <2>3, <2>5 DEF LogStep, Grows
<1>4. /\ Others(f) /\ fac'[f] \in Facade /\ fac'[f].open = fac[f].open /\ SameComps(f)
      /\ fac'[f].wait = fac[f].wait \ {c}
      /\ fac'[f].ph = (IF fac[f].wait # {c} THEN fac[f].ph
                       ELSE IF fac[f].stop THEN "ending" ELSE "asking")
  BY <1>1, <1>2 DEF Others, SameComps, Facade
<1>5. \A d \in fac'[f].wait : MadeIn(d, Thread(f))'
  BY <1>2, <1>3, <1>4, SameCalls DEF Quiet
<1>6. fac'[f].ph \notin {"answered", "tools"} => fac'[f].wait = {}
  BY <1>2, <1>4
<1>7. FacadeOK(f, fac[f])'
  BY <1>1, <1>2, <1>3, <1>4, <1>5, <1>6, TurnStep
<1> QED BY <1>2, <1>3, <1>4, <1>7, FreeStep

\* The answers of a model.
LEMMA RespondIs ==
  ASSUME NEW f \in Facades, Respond(f)
  PROVE  \/ \E calls \in SUBSET FreshCalls :
              /\ Emit([Ev("assistant", Thread(f)) EXCEPT !.calls = calls])
              /\ fac' = [fac EXCEPT ![f].ph = "answered", ![f].wait = calls]
         \/ Emit([Ev("assistant", Thread(f)) EXCEPT !.empty = TRUE]) /\ Turn(f, "ending")
<1>1. CASE \E last \in 0 .. MaxCalls :
        LET calls == {c \in FreshCalls : c <= last}
        IN  /\ Emit([Ev("assistant", Thread(f)) EXCEPT !.calls = calls])
            /\ fac' = [fac EXCEPT ![f].ph = "answered", ![f].wait = calls]
  <2>1. PICK last \in 0 .. MaxCalls :
        LET calls == {c \in FreshCalls : c <= last}
        IN  /\ Emit([Ev("assistant", Thread(f)) EXCEPT !.calls = calls])
            /\ fac' = [fac EXCEPT ![f].ph = "answered", ![f].wait = calls]
    BY <1>1
  <2>2. PICK calls : calls = {c \in FreshCalls : c <= last}
    OBVIOUS
  <2>3. calls \in SUBSET FreshCalls
    BY <2>2
  <2> QED BY <2>1, <2>2, <2>3
<1> QED BY <1>1, Zenon DEF Respond

\* An answer of the model keeps the invariant.
LEMMA RespondKeeps ==
  ASSUME IInv, NEW f \in Facades, Respond(f)
  PROVE  IInv'
<1>1. /\ fac[f] \in Facade /\ fac \in [Facades -> Facade] /\ TypeOK /\ FacadeOK(f, fac[f])
      /\ fac[f].ph # "idle" => fac[f].open
  BY FacadeIs
<1>2. Free /\ fac[f].ph = "asking" /\ Quiet
  BY DEF Respond
<1>3. PICK t : t = Thread(f)
  OBVIOUS
<1>4. t \in Threads /\ Thread(f)' = t
  BY <1>1, <1>2, <1>3, ThreadIs DEF Quiet, Thread
<1>5. ASSUME NEW calls \in SUBSET FreshCalls,
             Emit([Ev("assistant", Thread(f)) EXCEPT !.calls = calls]),
             fac' = [fac EXCEPT ![f].ph = "answered", ![f].wait = calls]
      PROVE  IInv'
  <2>1. PICK e : e = [Ev("assistant", t) EXCEPT !.calls = calls]
    OBVIOUS
  <2>2. calls \subseteq Calls
    BY DEF FreshCalls
  <2>3. e \in Events /\ e.type = "assistant" /\ e.calls = calls /\ e.thread = t
    BY <1>4, <2>1, <2>2 DEF Ev, Events, Types, ContextTypes
  <2>4. Fits(e) /\ Adds(e)
    BY <1>3, <1>5, <2>1, <2>3 DEF Fits, Tells, Covered, Emit, Adds
  <2>5. LogStep
    BY <2>3, <2>4 DEF LogStep
  <2>6. /\ Others(f) /\ fac'[f] \in Facade /\ fac'[f].open = fac[f].open /\ SameComps(f)
        /\ fac'[f].wait = calls /\ fac'[f].ph = "answered"
    BY <1>1, <1>5, <2>2 DEF Others, SameComps, Facade
  <2>7. \A c \in fac'[f].wait : MadeIn(c, Thread(f))'
    <3> SUFFICES ASSUME NEW c \in calls PROVE MadeIn(c, t)'
      BY <1>4, <2>6 DEF MadeIn
    <3>1. Len(log) + 1 \in DOMAIN log' /\ log'[Len(log) + 1] = e
      BY <1>1, <2>3, <2>4, AddsIs
    <3> QED BY <2>3, <3>1 DEF MadeIn
  <2>8. FacadeOK(f, fac[f])'
    BY <1>1, <1>2, <2>5, <2>6, <2>7, TurnStep
  <2> QED BY <1>2, <2>5, <2>6, <2>8, FreeStep
<1>6. ASSUME Emit([Ev("assistant", Thread(f)) EXCEPT !.empty = TRUE]), Turn(f, "ending")
      PROVE  IInv'
  <2>1. PICK e : e = [Ev("assistant", t) EXCEPT !.empty = TRUE]
    OBVIOUS
  <2>2. e \in Events /\ e.type = "assistant" /\ e.calls = {}
    BY <1>4, <2>1 DEF Ev, Events, Types, ContextTypes
  <2>3. Fits(e) /\ Adds(e)
    BY <1>3, <1>6, <2>1, <2>2 DEF Fits, Tells, Covered, Emit, Adds
  <2>4. LogStep
    BY <2>2, <2>3 DEF LogStep
  <2>5. /\ Others(f) /\ fac'[f] \in Facade /\ fac'[f].open = fac[f].open /\ SameComps(f)
        /\ fac'[f].wait = fac[f].wait
    BY <1>1, <1>6 DEF Others, SameComps, Facade, Turn
  <2>6. fac[f].wait = {}
    BY <1>1, <1>2 DEF FacadeOK
  <2>7. FacadeOK(f, fac[f])'
    BY <1>1, <1>2, <2>4, <2>5, <2>6, TurnStep
  <2> QED BY <1>2, <2>4, <2>5, <2>7, FreeStep
<1> QED BY <1>5, <1>6, RespondIs

------------------------------------------------------------------------------
(* The other steps.                                                        *)

\* The continuation of a session keeps the invariant.
LEMMA ContinueKeeps ==
  ASSUME IInv, NEW f \in Facades, Continue(f)
  PROVE  IInv'
<1>1. /\ TypeOK /\ CallsOK /\ HomeOK /\ CoversOK /\ FacadesOK /\ OpeningOK
  BY DEF IInv
<1>2. /\ Free /\ f = 1 /\ fac[f].ph = "idle" /\ cont = 0 /\ NumFacades = 1
      /\ Emit(Ev("jumped", 1)) /\ cont' = Len(log) + 1
      /\ fac' = fac /\ opening' = opening /\ plan' = plan /\ since' = since /\ crashes' = crashes
      /\ gaveUp' = gaveUp
  BY DEF Continue
<1>3. LogStep
  <2>1. "jumped" \in Types \ {"start", "end", "summary"} /\ 1 \in Threads
    BY TurnLogAssumption DEF Types, Threads
  <2> QED BY <1>1, <1>2, <2>1, PlainLog
<1>4. Grows
  BY <1>3 DEF LogStep, Grows
<1>5. /\ Len(log) <= Len(log') /\ Len(log) \in Nat /\ Len(log') \in Nat /\ Len(log') = Len(log) + 1
      /\ log' \in Seq(Events)
  <2>1. "jumped" \in Types \ {"start", "end", "summary"} /\ 1 \in Threads
    BY TurnLogAssumption DEF Types, Threads
  <2>2. Ev("jumped", 1) \in Events /\ Adds(Ev("jumped", 1))
    BY <1>2, <2>1, PlainEvent DEF Emit, Adds
  <2> QED BY <1>1, <2>2, AddsIs
<1>6. ContStep
  BY <1>2, <1>5 DEF ContStep
<1>7. CallsOK' /\ HomeOK' /\ CoversOK'
  BY <1>1, <1>3, <1>6, LogKept
<1>8. TypeOK'
  BY <1>1, <1>2, <1>5 DEF TypeOK
<1>9. FacadesOK'
  <2> SUFFICES ASSUME NEW g \in Facades PROVE FacadeOK(g, fac[g])'
    BY DEF FacadesOK
  <2>1. g = f /\ g = 1
    BY <1>2 DEF Facades
  <2>2. PICK x : x = fac[g]
    OBVIOUS
  <2>3. FacadeOK(g, x) /\ x \in Facade /\ x.ph = "idle"
    BY <1>1, <1>2, <2>1, <2>2 DEF FacadesOK, FacadeOK
  <2>4. ASSUME NEW e \in Events \cup {None}, CompOK(g, e) PROVE CompOK(g, e)'
    <3> SUFFICES ASSUME e # None PROVE Covered(Stamped(g, e))'
      BY <2>4 DEF CompOK
    <3>1. e \in Events /\ Covered(Stamped(g, e))
      BY <2>4 DEF CompOK
    <3>2. PICK y : y = Stamped(g, e)'
      OBVIOUS
    <3>3. y.thread = 2 /\ y.type = e.type /\ y.first = e.first /\ y.covers = e.covers
      BY <1>2, <1>5, <2>1, <3>1, <3>2 DEF Stamped, Thread, Events
    <3>4. e.type = "summary" => e.first <= Len(log)
      BY <1>1, <3>1, StampedIs DEF Covered
    <3>5. e.first \in Nat /\ DOMAIN log' = 1 .. Len(log')
      BY <1>5, <3>1, LenProperties DEF Events
    <3>6. Session(2)'.start = Len(log) + 1
      BY <1>2 DEF Session
    <3>7. Covered(y)'
      BY <1>5, <3>3, <3>4, <3>5, <3>6 DEF Covered
    <3> QED BY <3>2, <3>7 DEF Covered
  <2>5. x.comp \in Events \cup {None} /\ x.stray \in Events \cup {None} /\ CompOK(g, x.comp) /\ CompOK(g, x.stray)
    BY <2>3 DEF FacadeOK, Facade
  <2>6. CompOK(g, x.comp)' /\ CompOK(g, x.stray)'
    BY <2>4, <2>5
  <2>7. FacadeOK(g, x)'
    BY <2>3, <2>6 DEF FacadeOK
  <2>8. x = fac'[g]
    BY <1>2, <2>2
  <2> QED BY <2>7, <2>8 DEF FacadeOK, CompOK, Stamped, Covered
<1>10. OpeningOK' /\ PlanHome'
  <2>1. plan' = <<>> /\ opening' = None
    BY <1>1, <1>2 DEF OpeningOK, Free
  <2> QED BY <2>1 DEF OpeningOK, PlanHome, Free
<1> QED BY <1>7, <1>8, <1>9, <1>10 DEF IInv

\* What a step that touches the compactions of f only must keep to.
LEMMA CompsStep ==
  ASSUME IInv, NEW f \in Facades, Free, LogStep, Quiet, Others(f), fac'[f] \in Facade,
         fac[f].open, fac'[f].open, fac'[f].ph = fac[f].ph, fac'[f].wait = fac[f].wait,
         CompOK(f, fac[f].comp)', CompOK(f, fac[f].stray)'
  PROVE  IInv'
<1>1. FacadeOK(f, fac[f])
  BY FacadeIs
<1>2. Grows /\ cont' = cont
  BY DEF LogStep, Grows, Quiet
<1>3. \A c \in fac'[f].wait : MadeIn(c, Thread(f))'
  BY <1>2, SameCalls
<1>4. FacadeOK(f, fac[f])'
  BY <1>1, <1>3 DEF FacadeOK
<1> QED BY <1>4, FreeStep

\* What was awaited may be appended.
LEMMA LandsWell ==
  ASSUME TypeOK, NEW f \in Facades, NEW e \in Events, e # None, CompOK(f, e), Emit(Stamped(f, e))
  PROVE  LogStep
<1>1. PICK x : x = Stamped(f, e)
  OBVIOUS
<1>2. x \in Events /\ x.type \in {"summary", "mask"} /\ x.calls = {} /\ Covered(x)
  BY <1>1, StampedIs DEF CompOK
<1>3. Fits(x) /\ Adds(x)
  BY <1>1, <1>2 DEF Fits, Tells, Emit, Adds
<1> QED BY <1>2, <1>3 DEF LogStep

\* The summary's arrival keeps the invariant.
LEMMA EndCompactionKeeps ==
  ASSUME IInv, NEW f \in Facades, EndCompaction(f)
  PROVE  IInv'
<1>1. /\ fac[f] \in Facade /\ fac \in [Facades -> Facade] /\ TypeOK /\ FacadeOK(f, fac[f])
      /\ fac[f].comp # None => fac[f].open
  BY FacadeIs
<1>2. /\ Free /\ fac[f].comp # None /\ Emit(Stamped(f, fac[f].comp)) /\ Quiet
      /\ fac' = [fac EXCEPT ![f].comp = None]
  BY DEF EndCompaction
<1>3. LogStep
  <2>1. PICK e : e = fac[f].comp
    OBVIOUS
  <2>2. e \in Events /\ e # None /\ CompOK(f, e)
    BY <1>1, <1>2, <2>1 DEF FacadeOK, Facade
  <2> QED BY <1>1, <1>2, <2>1, <2>2, LandsWell
<1>4. Grows /\ cont' = cont
  BY <1>2, <1>3 DEF LogStep, Grows, Quiet
<1>5. PICK d : d = fac[f].stray
  OBVIOUS
<1>6. d \in Events \cup {None} /\ CompOK(f, d)
  BY <1>1, <1>5 DEF FacadeOK, Facade
<1>7. CompOK(f, d)'
  BY <1>1, <1>4, <1>6, CompStays
<1>8. /\ Others(f) /\ fac'[f] \in Facade /\ fac'[f].open = fac[f].open /\ fac'[f].comp = None
      /\ fac'[f].wait = fac[f].wait /\ fac'[f].ph = fac[f].ph /\ fac'[f].stray = d
  BY <1>1, <1>2, <1>5 DEF Others, Facade
<1>9. CompOK(f, fac[f].comp)'
  BY <1>8 DEF CompOK
<1>10. CompOK(f, fac[f].stray)'
  BY <1>7, <1>8 DEF CompOK, Stamped, Covered
<1> QED BY <1>1, <1>2, <1>3, <1>8, <1>9, <1>10, CompsStep

\* A compaction that is aborted keeps the invariant.
LEMMA AbortCompactionKeeps ==
  ASSUME IInv, NEW f \in Facades, AbortCompaction(f)
  PROVE  IInv'
<1>1. /\ fac[f] \in Facade /\ fac \in [Facades -> Facade] /\ TypeOK /\ FacadeOK(f, fac[f])
      /\ fac[f].comp # None => fac[f].open
  BY FacadeIs
<1>2. /\ Free /\ fac[f].comp # None /\ log' = log /\ Quiet
      /\ fac' = [fac EXCEPT ![f].comp = None]
  BY DEF AbortCompaction
<1>3. LogStep
  BY <1>2 DEF LogStep
<1>4. Grows /\ cont' = cont
  BY <1>2, <1>3 DEF LogStep, Grows, Quiet
<1>5. PICK d : d = fac[f].stray
  OBVIOUS
<1>6. d \in Events \cup {None} /\ CompOK(f, d)
  BY <1>1, <1>5 DEF FacadeOK, Facade
<1>7. CompOK(f, d)'
  BY <1>1, <1>4, <1>6, CompStays
<1>8. /\ Others(f) /\ fac'[f] \in Facade /\ fac'[f].open = fac[f].open /\ fac'[f].comp = None
      /\ fac'[f].wait = fac[f].wait /\ fac'[f].ph = fac[f].ph /\ fac'[f].stray = d
  BY <1>1, <1>2, <1>5 DEF Others, Facade
<1>9. CompOK(f, fac[f].comp)'
  BY <1>8 DEF CompOK
<1>10. CompOK(f, fac[f].stray)'
  BY <1>7, <1>8 DEF CompOK, Stamped, Covered
<1> QED BY <1>1, <1>2, <1>3, <1>8, <1>9, <1>10, CompsStep

\* So does the arrival of a summary whose reactor was stopped,
LEMMA EndStrayKeeps ==
  ASSUME IInv, NEW f \in Facades, EndStray(f)
  PROVE  IInv'
<1>1. /\ fac[f] \in Facade /\ fac \in [Facades -> Facade] /\ TypeOK /\ FacadeOK(f, fac[f])
      /\ fac[f].stray # None => fac[f].open
  BY FacadeIs
<1>2. /\ Free /\ fac[f].stray # None /\ Emit(Stamped(f, fac[f].stray)) /\ Quiet
      /\ fac' = [fac EXCEPT ![f].stray = None]
  BY DEF EndStray
<1>3. LogStep
  <2>1. PICK e : e = fac[f].stray
    OBVIOUS
  <2>2. e \in Events /\ e # None /\ CompOK(f, e)
    BY <1>1, <1>2, <2>1 DEF FacadeOK, Facade
  <2> QED BY <1>1, <1>2, <2>1, <2>2, LandsWell
<1>4. Grows /\ cont' = cont
  BY <1>2, <1>3 DEF LogStep, Grows, Quiet
<1>5. PICK d : d = fac[f].comp
  OBVIOUS
<1>6. d \in Events \cup {None} /\ CompOK(f, d)
  BY <1>1, <1>5 DEF FacadeOK, Facade
<1>7. CompOK(f, d)'
  BY <1>1, <1>4, <1>6, CompStays
<1>8. /\ Others(f) /\ fac'[f] \in Facade /\ fac'[f].open = fac[f].open /\ fac'[f].stray = None
      /\ fac'[f].wait = fac[f].wait /\ fac'[f].ph = fac[f].ph /\ fac'[f].comp = d
  BY <1>1, <1>2, <1>5 DEF Others, Facade
<1>9. CompOK(f, fac[f].stray)'
  BY <1>8 DEF CompOK
<1>10. CompOK(f, fac[f].comp)'
  BY <1>7, <1>8 DEF CompOK, Stamped, Covered
<1> QED BY <1>1, <1>2, <1>3, <1>8, <1>9, <1>10, CompsStep

\* and its failure.
LEMMA AbortStrayKeeps ==
  ASSUME IInv, NEW f \in Facades, AbortStray(f)
  PROVE  IInv'
<1>1. /\ fac[f] \in Facade /\ fac \in [Facades -> Facade] /\ TypeOK /\ FacadeOK(f, fac[f])
      /\ fac[f].stray # None => fac[f].open
  BY FacadeIs
<1>2. /\ Free /\ fac[f].stray # None /\ log' = log /\ Quiet
      /\ fac' = [fac EXCEPT ![f].stray = None]
  BY DEF AbortStray
<1>3. LogStep
  BY <1>2 DEF LogStep
<1>4. Grows /\ cont' = cont
  BY <1>2, <1>3 DEF LogStep, Grows, Quiet
<1>5. PICK d : d = fac[f].comp
  OBVIOUS
<1>6. d \in Events \cup {None} /\ CompOK(f, d)
  BY <1>1, <1>5 DEF FacadeOK, Facade
<1>7. CompOK(f, d)'
  BY <1>1, <1>4, <1>6, CompStays
<1>8. /\ Others(f) /\ fac'[f] \in Facade /\ fac'[f].open = fac[f].open /\ fac'[f].stray = None
      /\ fac'[f].wait = fac[f].wait /\ fac'[f].ph = fac[f].ph /\ fac'[f].comp = d
  BY <1>1, <1>2, <1>5 DEF Others, Facade
<1>9. CompOK(f, fac[f].stray)'
  BY <1>8 DEF CompOK
<1>10. CompOK(f, fac[f].comp)'
  BY <1>7, <1>8 DEF CompOK, Stamped, Covered
<1> QED BY <1>1, <1>2, <1>3, <1>8, <1>9, <1>10, CompsStep

\* The reactor that is stopped leaves its compaction running.
LEMMA StopReactorKeeps ==
  ASSUME IInv, NEW f \in Facades, StopReactor(f)
  PROVE  IInv'
<1>1. /\ fac[f] \in Facade /\ fac \in [Facades -> Facade] /\ TypeOK /\ FacadeOK(f, fac[f])
      /\ fac[f].comp # None => fac[f].open
  BY FacadeIs
<1>2. /\ Free /\ fac[f].comp # None /\ log' = log /\ Quiet
      /\ fac' = [fac EXCEPT ![f].stray = fac[f].comp, ![f].comp = None]
  BY DEF StopReactor
<1>3. LogStep /\ Grows /\ cont' = cont
  BY <1>2 DEF LogStep, Grows, Quiet
<1>4. PICK d : d = fac[f].comp
  OBVIOUS
<1>5. d \in Events \cup {None} /\ CompOK(f, d)
  BY <1>1, <1>4 DEF FacadeOK, Facade
<1>6. CompOK(f, d)'
  BY <1>1, <1>3, <1>5, CompStays
<1>7. /\ Others(f) /\ fac'[f] \in Facade /\ fac'[f].open = fac[f].open /\ fac'[f].comp = None
      /\ fac'[f].wait = fac[f].wait /\ fac'[f].ph = fac[f].ph /\ fac'[f].stray = d
  BY <1>1, <1>2, <1>4, <1>5 DEF Others, Facade
<1>8. CompOK(f, fac[f].comp)'
  BY <1>7 DEF CompOK
<1>9. CompOK(f, fac[f].stray)'
  BY <1>6, <1>7 DEF CompOK, Stamped, Covered
<1> QED BY <1>1, <1>2, <1>3, <1>7, <1>8, <1>9, CompsStep

\* What a compaction is about to append.
LEMMA CompactionIs ==
  ASSUME IInv, NEW f \in Facades, StartCompaction(f)
  PROVE  \E e \in Events :
           /\ e.type \in {"summary", "mask"} /\ e.calls = {} /\ e.thread = Thread(f) /\ Covered(e)
           /\ fac' = [fac EXCEPT ![f].comp = e]
<1> DEFINE ps == Compactable(f)
           t == Thread(f)
<1>1. TypeOK /\ CoversOK
  BY DEF IInv
<1>2. PICK i \in 2 .. Len(ps) :
        \/ /\ Is(ps[i], {"user", "bash"})
           /\ fac' = [fac EXCEPT ![f].comp =
                [Ev("summary", Thread(f)) EXCEPT
                   !.first = ps[i], !.covers = Summarized(ps, i) \cup Earlier(f)]]
        \/ fac' = [fac EXCEPT ![f].comp = [Ev("mask", Thread(f)) EXCEPT !.first = ps[1]]]
  BY DEF StartCompaction
<1>3. t \in Threads
  BY <1>1, ThreadIs
<1>4. DOMAIN log \subseteq Nat /\ ps \in Seq(DOMAIN log) /\ \A k \in 1 .. Len(ps) : ps[k] \in DOMAIN log
  <2>1. ps \in Seq(DOMAIN log)
    <3>1. \E last \in 0 .. Len(EventsOf(Thread(f))) : ps \in Seq(DOMAIN log)
      BY <1>1, CompactableIs
    <3> QED BY <3>1
  <2>2. DOMAIN log = 1 .. Len(log)
    BY <1>1, LenProperties DEF TypeOK
  <2> QED BY <2>1, <2>2, ElementOfSeq
<1>5. i \in 1 .. Len(ps) /\ 1 \in 1 .. Len(ps) /\ ps[i] \in Nat /\ ps[1] \in Nat /\ Len(ps) \in Nat
  BY <1>4, LenProperties
<1>6. CASE /\ Is(ps[i], {"user", "bash"})
           /\ fac' = [fac EXCEPT ![f].comp =
                [Ev("summary", Thread(f)) EXCEPT
                   !.first = ps[i], !.covers = Summarized(ps, i) \cup Earlier(f)]]
  <2>1. PICK cs : cs = Summarized(ps, i) \cup Earlier(f)
    OBVIOUS
  <2>2. PICK n : n = ps[i]
    OBVIOUS
  <2>3. cs \subseteq Nat
    <3>1. Summarized(ps, i) \subseteq Nat
      BY <1>4, <1>5 DEF Summarized
    <3>2. EventsOf(t) \in Seq(DOMAIN log)
      <4>1. PICK par, own : Layout(t, par, own)
        BY <1>1, EventsLaid
      <4> QED BY <4>1 DEF Layout
    <3>3. Range(EventsOf(t)) \subseteq DOMAIN log
      BY <3>2, LenProperties, ElementOfSeq DEF Range
    <3>4. \A p \in DOMAIN log : log[p].covers \subseteq Nat
      BY <1>1, EventOf DEF Events
    <3>5. Earlier(f) \subseteq Nat
      BY <3>3, <3>4 DEF Earlier, Summaries
    <3> QED BY <2>1, <3>1, <3>5
  <2>4. PICK e : e = [Ev("summary", t) EXCEPT !.first = n, !.covers = cs]
    OBVIOUS
  <2>5. n \in Nat
    BY <1>5, <2>2
  <2> HIDE DEF ps, t
  <2>6. e \in Events /\ e.type = "summary" /\ e.calls = {} /\ e.thread = t /\ e.first = n /\ e.covers = cs
    BY <1>3, <2>3, <2>4, <2>5 DEF Ev, Events, Types, ContextTypes
  <2>7. Covered(e)
    BY <1>1, <1>6, <2>1, <2>2, <2>6, SummaryCovers DEF ps, t
  <2>8. fac' = [fac EXCEPT ![f].comp = e]
    BY <1>6, <2>1, <2>2, <2>4 DEF t
  <2> QED BY <2>6, <2>7, <2>8 DEF t
<1>7. CASE fac' = [fac EXCEPT ![f].comp = [Ev("mask", Thread(f)) EXCEPT !.first = ps[1]]]
  <2>1. PICK n : n = ps[1]
    OBVIOUS
  <2>2. PICK e : e = [Ev("mask", t) EXCEPT !.first = n]
    OBVIOUS
  <2>3. n \in Nat
    BY <1>5, <2>1
  <2> HIDE DEF ps, t
  <2>4. e \in Events /\ e.type = "mask" /\ e.calls = {} /\ e.thread = t
    BY <1>3, <2>2, <2>3 DEF Ev, Events, Types, ContextTypes
  <2>5. Covered(e)
    BY <2>4 DEF Covered
  <2>6. fac' = [fac EXCEPT ![f].comp = e]
    BY <1>7, <2>1, <2>2 DEF t
  <2> QED BY <2>4, <2>5, <2>6 DEF t
<1> QED BY <1>2, <1>6, <1>7

\* The choice of a cut keeps the invariant, in the middle of a turn as well.
LEMMA StartCompactionKeeps ==
  ASSUME IInv, NEW f \in Facades, StartCompaction(f)
  PROVE  IInv'
<1>1. /\ fac[f] \in Facade /\ fac \in [Facades -> Facade] /\ TypeOK /\ FacadeOK(f, fac[f])
  BY FacadeIs
<1>2. /\ Free /\ fac[f].open /\ log' = log /\ Quiet
  BY DEF StartCompaction
<1>3. PICK e \in Events :
           /\ e.type \in {"summary", "mask"} /\ e.calls = {} /\ e.thread = Thread(f) /\ Covered(e)
           /\ fac' = [fac EXCEPT ![f].comp = e]
  BY CompactionIs
<1>4. LogStep /\ Grows /\ cont' = cont
  BY <1>2 DEF LogStep, Grows, Quiet
<1>5. CompOK(f, e)
  <2>1. Stamped(f, e) = e
    BY <1>1, <1>3, StampedIs
  <2> QED BY <1>3, <2>1 DEF CompOK
<1>6. PICK d : d = fac[f].stray
  OBVIOUS
<1>7. d \in Events \cup {None} /\ CompOK(f, d)
  BY <1>1, <1>6 DEF FacadeOK, Facade
<1>8. CompOK(f, e)' /\ CompOK(f, d)'
  BY <1>1, <1>4, <1>5, <1>7, CompStays
<1>9. /\ Others(f) /\ fac'[f] \in Facade /\ fac'[f].open = fac[f].open /\ fac'[f].comp = e
      /\ fac'[f].wait = fac[f].wait /\ fac'[f].ph = fac[f].ph /\ fac'[f].stray = d
  BY <1>1, <1>3, <1>6 DEF Others, Facade
<1>10. CompOK(f, fac[f].comp)'
  BY <1>8, <1>9 DEF CompOK, Stamped, Covered
<1>11. CompOK(f, fac[f].stray)'
  BY <1>8, <1>9 DEF CompOK, Stamped, Covered
<1> QED BY <1>1, <1>2, <1>4, <1>9, <1>10, <1>11, CompsStep

\* The planning of a recovery keeps the invariant.
LEMMA OpenFacadeKeeps ==
  ASSUME IInv, NEW f \in Facades, OpenFacade(f)
  PROVE  IInv'
<1>1. /\ TypeOK /\ CallsOK /\ HomeOK /\ CoversOK /\ FacadesOK
  BY DEF IInv
<1>2. /\ ~fac[f].open /\ opening' = f /\ plan' = RecoveryPlan
      /\ since' = (IF Open = {} THEN Len(log) ELSE since)
      /\ log' = log /\ fac' = fac /\ cont' = cont /\ crashes' = crashes
      /\ gaveUp' = (Open # {} /\ gaveUp)
  BY DEF OpenFacade
<1>3. /\ RecoveryPlan \in Seq(Events)
      /\ \A k \in 1 .. Len(RecoveryPlan) :
              \/ \E p \in DOMAIN log : Repairs(RecoveryPlan[k], p)
              \/ RecoveryPlan[k].type = "completed" /\ RecoveryPlan[k].calls = {}
  BY <1>1, RecoveryPlanIs
<1>4. TypeOK'
  <2>1. Len(log) \in Nat
    BY <1>1, LenProperties DEF TypeOK
  <2>2. since' \in 0 .. Len(log)
    BY <1>1, <1>2, <2>1 DEF TypeOK
  <2> QED BY <1>1, <1>2, <1>3, <2>2 DEF TypeOK
<1>5. Grows /\ LogStep /\ ContStep
  BY <1>1, <1>2 DEF Grows, LogStep, ContStep, TypeOK
<1>6. CallsOK' /\ HomeOK' /\ CoversOK' /\ FacadesOK'
  BY <1>1, <1>2, <1>5, LogKept, FacadesSame
<1>7. OpeningOK'
  <2>1. f # None
    BY TurnLogAssumption DEF Facades
  <2> QED BY <1>2, <2>1 DEF OpeningOK, Free
<1>8. PlanHome'
  <2> SUFFICES ASSUME NEW k \in 1 .. Len(RecoveryPlan), NEW e, e = RecoveryPlan[k]
               PROVE  /\ e.type \in {"start", "end", "completed"} /\ e.calls = {}
                      /\ Tells(e) => MadeIn(e.call, e.thread)
    <3>1. PICK pl : pl = RecoveryPlan
      OBVIOUS
    <3>2. plan' = pl /\ log' = log
      BY <1>2, <3>1
    <3>3. \A c, t : MadeIn(c, t) => MadeIn(c, t)'
      BY <3>2 DEF MadeIn
    <3>4. \A k \in 1 .. Len(pl) :
            /\ pl[k].type \in {"start", "end", "completed"} /\ pl[k].calls = {}
            /\ Tells(pl[k]) => MadeIn(pl[k].call, pl[k].thread)
      BY <3>1
    <3> QED BY <3>2, <3>3, <3>4 DEF PlanHome, Tells
  <2>1. CASE \E p \in DOMAIN log : Repairs(e, p)
    BY <2>1 DEF Repairs, Unresolved, MadeIn
  <2>2. CASE e.type = "completed" /\ e.calls = {}
    BY <2>2 DEF Tells
  <2> QED BY <1>3, <2>1, <2>2
<1> QED BY <1>4, <1>6, <1>7, <1>8 DEF IInv

\* A step of a recovery keeps the invariant.
LEMMA RecoverStepKeeps ==
  ASSUME IInv, RecoverStep
  PROVE  IInv'
<1>1. /\ TypeOK /\ CallsOK /\ HomeOK /\ CoversOK /\ FacadesOK /\ OpeningOK /\ PlanHome
  BY DEF IInv
<1>2. /\ plan # <<>> /\ Emit(Head(plan)) /\ plan' = Tail(plan)
      /\ fac' = fac /\ opening' = opening /\ since' = since /\ cont' = cont /\ crashes' = crashes
      /\ gaveUp' = gaveUp
  BY DEF RecoverStep
<1>3. plan \in Seq(Events) /\ Len(plan) \in Nat /\ 1 \in 1 .. Len(plan) /\ Head(plan) = plan[1]
  BY <1>1, <1>2, EmptySeq, LenProperties DEF TypeOK
<1>4. /\ plan' \in Seq(Events) /\ Len(plan') = Len(plan) - 1
      /\ \A k \in 1 .. Len(plan') : plan'[k] = plan[k + 1] /\ k + 1 \in 1 .. Len(plan)
  <2>1. /\ Tail(plan) \in Seq(Events) /\ Len(Tail(plan)) = Len(plan) - 1
        /\ \A i \in 1 .. Len(Tail(plan)) : Tail(plan)[i] = plan[i + 1]
    BY <1>2, <1>3, HeadTailProperties
  <2> QED BY <1>2, <1>3, <2>1
<1>5. PICK e : e = plan[1]
  OBVIOUS
<1>6. e \in Events /\ Adds(e) /\ Fits(e)
  <2>1. e \in Events /\ Adds(e)
    BY <1>2, <1>3, <1>5, ElementOfSeq DEF Emit, Adds
  <2>2. /\ e.type \in {"start", "end", "completed"} /\ e.calls = {}
        /\ Tells(e) => MadeIn(e.call, e.thread)
    BY <1>1, <1>3, <1>5 DEF PlanHome
  <2> QED BY <2>1, <2>2 DEF Fits, Covered
<1>7. LogStep /\ Grows /\ ContStep
  BY <1>1, <1>2, <1>6 DEF LogStep, Grows, ContStep, TypeOK
<1>8. log' \in Seq(Events) /\ CallsOK' /\ HomeOK' /\ CoversOK' /\ FacadesOK'
  BY <1>1, <1>2, <1>7, LogKept, FacadesSame
<1>9. TypeOK'
  <2>1. Len(log) <= Len(log') /\ Len(log) \in Nat /\ Len(log') \in Nat
    BY <1>1, <1>7, GrowsIs
  <2>2. since' \in 0 .. Len(log') /\ cont' \in 0 .. Len(log')
    BY <1>1, <1>2, <2>1 DEF TypeOK
  <2> QED BY <1>1, <1>2, <1>4, <1>8, <2>2 DEF TypeOK
<1>10. OpeningOK'
  BY <1>1, <1>2 DEF OpeningOK, Free
<1>11. PlanHome'
  <2> SUFFICES ASSUME NEW k \in 1 .. Len(plan'), NEW x, x = plan'[k]
               PROVE  /\ x.type \in {"start", "end", "completed"} /\ x.calls = {}
                      /\ Tells(x) => MadeIn(x.call, x.thread)'
    BY DEF PlanHome, MadeIn, Tells
  <2>1. x = plan[k + 1] /\ k + 1 \in 1 .. Len(plan)
    BY <1>4
  <2>2. /\ x.type \in {"start", "end", "completed"} /\ x.calls = {}
        /\ Tells(x) => MadeIn(x.call, x.thread)
    BY <1>1, <2>1 DEF PlanHome
  <2>3. \A c, t : MadeIn(c, t) => MadeIn(c, t)'
    BY <1>1, <1>7, MadeStays
  <2> QED BY <2>2, <2>3
<1> QED BY <1>8, <1>9, <1>10, <1>11 DEF IInv

\* A recovery that fails keeps the invariant.
LEMMA RecoveryFailsKeeps ==
  ASSUME IInv, RecoveryFails
  PROVE  IInv'
<1>1. /\ TypeOK /\ CallsOK /\ HomeOK /\ CoversOK /\ FacadesOK /\ OpeningOK
  BY DEF IInv
<1>2. /\ plan' = <<>> /\ gaveUp' = TRUE /\ log' = log
      /\ fac' = fac /\ opening' = opening /\ since' = since /\ cont' = cont /\ crashes' = crashes
  BY DEF RecoveryFails
<1>3. Grows /\ LogStep /\ ContStep
  BY <1>1, <1>2 DEF Grows, LogStep, ContStep, TypeOK
<1>4. CallsOK' /\ HomeOK' /\ CoversOK' /\ FacadesOK'
  BY <1>1, <1>2, <1>3, LogKept, FacadesSame
<1>5. TypeOK'
  BY <1>1, <1>2, EmptySeq DEF TypeOK
<1>6. OpeningOK' /\ PlanHome'
  BY <1>1, <1>2 DEF OpeningOK, PlanHome, Free
<1> QED BY <1>4, <1>5, <1>6 DEF IInv

\* A facade that has just been opened, or closed, is as it should be.
LEMMA ClosedIs ==
  ASSUME NEW f, NEW b \in BOOLEAN, NEW x, x = [Closed EXCEPT !.open = b]
  PROVE  x \in Facade /\ FacadeOK(f, x) /\ FacadeOK(f, x)'
<1>1. x \in Facade /\ x.comp = None /\ x.stray = None /\ x.wait = {} /\ x.open = b
  BY DEF Closed, Facade
<1>2. ~b => x = Closed
  BY DEF Closed
<1> QED BY <1>1, <1>2 DEF FacadeOK, CompOK

\* The end of a recovery keeps the invariant.
LEMMA OpenedKeeps ==
  ASSUME IInv, Opened
  PROVE  IInv'
<1>1. /\ TypeOK /\ CallsOK /\ HomeOK /\ CoversOK /\ FacadesOK
  BY DEF IInv
<1>2. /\ ~Free /\ plan = <<>> /\ opening' = None
      /\ fac' = [fac EXCEPT ![opening] = [Closed EXCEPT !.open = TRUE]]
      /\ log' = log /\ plan' = plan /\ since' = since /\ cont' = cont /\ crashes' = crashes
      /\ gaveUp' = gaveUp
  BY DEF Opened
<1>3. PICK f : f = opening
  OBVIOUS
<1>4. f \in Facades
  BY <1>1, <1>2, <1>3 DEF TypeOK, Free
<1>5. PICK x : x = [Closed EXCEPT !.open = TRUE]
  OBVIOUS
<1>6. x \in Facade /\ FacadeOK(f, x)'
  BY <1>5, ClosedIs
<1>7. Others(f) /\ fac'[f] = x
  BY <1>1, <1>2, <1>3, <1>4, <1>5, <1>6 DEF Others, TypeOK
<1>8. FacadeOK(f, fac[f])'
  BY <1>6, <1>7 DEF FacadeOK, Covered
<1>9. Grows /\ LogStep /\ ContStep
  BY <1>1, <1>2 DEF Grows, LogStep, ContStep, TypeOK
<1>10. CallsOK' /\ HomeOK' /\ CoversOK' /\ FacadesOK'
  BY <1>1, <1>2, <1>4, <1>7, <1>8, <1>9, LogKept, FacadesStep
<1>11. TypeOK'
  BY <1>1, <1>2, <1>7 DEF TypeOK, Others
<1>12. OpeningOK' /\ PlanHome'
  BY <1>2 DEF OpeningOK, PlanHome, Free
<1> QED BY <1>10, <1>11, <1>12 DEF IInv

\* The death of the process keeps the invariant.
LEMMA CrashKeeps ==
  ASSUME IInv, Crash
  PROVE  IInv'
<1>1. /\ TypeOK /\ CallsOK /\ HomeOK /\ CoversOK
  BY DEF IInv
<1>2. /\ crashes' = crashes + 1 /\ fac' = [f \in Facades |-> Closed] /\ opening' = None /\ plan' = <<>>
      /\ log' = log /\ since' = since /\ cont' = cont /\ gaveUp' = gaveUp
  BY DEF Crash
<1>3. Grows /\ LogStep /\ ContStep
  BY <1>1, <1>2 DEF Grows, LogStep, ContStep, TypeOK
<1>4. CallsOK' /\ HomeOK' /\ CoversOK'
  BY <1>1, <1>3, LogKept
<1>5. PICK x : x = [Closed EXCEPT !.open = FALSE]
  OBVIOUS
<1>6. x = Closed
  BY <1>5 DEF Closed
<1>7. x \in Facade /\ \A f : FacadeOK(f, x)'
  BY <1>5, ClosedIs
<1>8. fac' \in [Facades -> Facade] /\ FacadesOK'
  <2>1. \A f \in Facades : fac'[f] = x
    BY <1>2, <1>6
  <2>2. FacadesOK'
    BY <1>7, <2>1 DEF FacadesOK, FacadeOK, Covered
  <2> QED BY <1>2, <1>6, <1>7, <2>2
<1>9. TypeOK'
  BY <1>1, <1>2, <1>8, EmptySeq DEF TypeOK
<1>10. OpeningOK' /\ PlanHome'
  BY <1>2 DEF OpeningOK, PlanHome, Free
<1> QED BY <1>4, <1>8, <1>9, <1>10 DEF IInv

\* The invariant holds at first.
LEMMA InitHolds == Init => IInv
<1> SUFFICES ASSUME Init PROVE IInv
  OBVIOUS
<1>1. /\ log = <<>> /\ fac = [f \in Facades |-> Closed] /\ opening = None /\ plan = <<>>
      /\ since = 0 /\ cont = 0 /\ crashes = 0 /\ gaveUp = FALSE
  BY DEF Init
<1>2. Len(log) = 0 /\ DOMAIN log = {} /\ log \in Seq(Events) /\ plan \in Seq(Events) /\ Len(plan) = 0
  BY <1>1, EmptySeq
<1>3. PICK x : x = [Closed EXCEPT !.open = FALSE]
  OBVIOUS
<1>4. x = Closed
  BY <1>3 DEF Closed
<1>5. x \in Facade /\ \A f : FacadeOK(f, x)
  BY <1>3, ClosedIs
<1>6. fac \in [Facades -> Facade] /\ FacadesOK
  BY <1>1, <1>4, <1>5 DEF FacadesOK
<1>7. TypeOK
  <2>1. gaveUp \in BOOLEAN
    BY <1>1
  <2>2. opening \in Facades \cup {None}
    BY <1>1
  <2>3. since \in 0 .. Len(log) /\ cont \in 0 .. Len(log) /\ crashes \in Nat
    BY <1>1, <1>2
  <2> QED BY <1>2, <1>6, <2>1, <2>2, <2>3 DEF TypeOK
<1>8. CallsOK /\ HomeOK /\ CoversOK
  BY <1>2 DEF CallsOK, HomeOK, CoversOK
<1>9. OpeningOK /\ PlanHome
  BY <1>1, <1>2 DEF OpeningOK, PlanHome, Free
<1> QED BY <1>6, <1>7, <1>8, <1>9 DEF IInv

\* A step of something else keeps the invariant.
LEMMA StutterKeeps ==
  ASSUME IInv, UNCHANGED vars
  PROVE  IInv'
<1>1. /\ TypeOK /\ CallsOK /\ HomeOK /\ CoversOK /\ FacadesOK /\ OpeningOK /\ PlanHome
  BY DEF IInv
<1>2. /\ log' = log /\ fac' = fac /\ opening' = opening /\ plan' = plan /\ since' = since
      /\ cont' = cont /\ crashes' = crashes /\ gaveUp' = gaveUp
  BY DEF vars
<1>3. Grows /\ LogStep /\ ContStep
  BY <1>1, <1>2 DEF Grows, LogStep, ContStep, TypeOK
<1>4. CallsOK' /\ HomeOK' /\ CoversOK' /\ FacadesOK'
  BY <1>1, <1>2, <1>3, LogKept, FacadesSame
<1>5. TypeOK'
  BY <1>1, <1>2 DEF TypeOK
<1>6. OpeningOK' /\ PlanHome'
  BY <1>1, <1>2 DEF OpeningOK, PlanHome, Free, MadeIn
<1> QED BY <1>4, <1>5, <1>6 DEF IInv

\* Every step keeps the invariant.
LEMMA NextKeeps ==
  ASSUME IInv, [Next]_vars
  PROVE  IInv'
<1>1. CASE RecoverStep \/ RecoveryFails \/ Opened \/ Crash
  BY <1>1, RecoverStepKeeps, RecoveryFailsKeeps, OpenedKeeps, CrashKeeps
<1>2. ASSUME NEW f \in Facades,
             \/ OpenFacade(f) \/ Prompt(f) \/ Respond(f) \/ Dispatch(f) \/ EndTurn(f)
             \/ Abort(f) \/ Bash(f) \/ Continue(f)
             \/ StartCompaction(f) \/ EndCompaction(f) \/ AbortCompaction(f)
             \/ StopReactor(f) \/ EndStray(f) \/ AbortStray(f)
      PROVE  IInv'
  BY <1>2, OpenFacadeKeeps, PromptKeeps, RespondKeeps, DispatchKeeps, EndTurnKeeps, AbortKeeps, BashKeeps,
     ContinueKeeps, StartCompactionKeeps, EndCompactionKeeps, AbortCompactionKeeps,
     StopReactorKeeps, EndStrayKeeps, AbortStrayKeeps
<1>3. ASSUME NEW f \in Facades, NEW c \in Calls, StartTool(f, c) \/ EndTool(f, c) PROVE IInv'
  BY <1>3, StartToolKeeps, EndToolKeeps
<1>4. CASE UNCHANGED vars
  BY <1>4, StutterKeeps
<1> QED BY <1>1, <1>2, <1>3, <1>4 DEF Next

\* The invariant of any number of facades.
LEMMA Invariant == Spec => []IInv
<1>1. Init => IInv
  BY InitHolds
<1>2. IInv /\ [Next]_vars => IInv'
  BY NextKeeps
<1> QED BY <1>1, <1>2, PTL DEF Spec

\* The type invariant, for any number of facades, calls, crashes and any log: whatever a
\* process appends, or leaves half done, is an event of a thread of the workspace.
THEOREM TypeCorrect == Spec => []TypeOK
<1>1. IInv => TypeOK
  BY DEF IInv
<1> QED BY <1>1, Invariant, PTL

\* For any number of facades, any log and any sequence of turns, compactions, masks, aborts,
\* continuations and crashes: every event of a session is in its context or was in the hands
\* of the summary in force (session-projection.ts, compaction-engine.ts).
THEOREM NothingIsForgotten == Spec => []NothingForgotten
<1>1. IInv => NothingForgotten
  BY ForgottenWhen DEF IInv
<1> QED BY <1>1, Invariant, PTL

------------------------------------------------------------------------------
(* One facade: what is told of the calls.                                  *)

\* What an append tells of a call.
LEMMA HavingAdds ==
  ASSUME TypeOK, NEW e \in Events, Adds(e), NEW type, NEW c
  PROVE  Having(type, c)' # {} <=> Having(type, c) # {} \/ (e.type = type /\ e.call = c)
<1> DEFINE n == Len(log)
<1>1. /\ DOMAIN log' = 1 .. n + 1 /\ DOMAIN log = 1 .. n /\ n \in Nat
      /\ \A p \in DOMAIN log : log'[p] = log[p] /\ p \in DOMAIN log'
      /\ log'[n + 1] = e
  BY AddsIs
<1> HIDE DEF n
<1>2. \A p \in DOMAIN log' : p \in DOMAIN log \/ p = n + 1
  BY <1>1
<1>3. n + 1 \in DOMAIN log'
  BY <1>1
<1> QED BY <1>1, <1>2, <1>3 DEF Having

\* A step that says nothing new of a call.
Silent == log' = log \/ \E e \in Events : Adds(e) /\ ~Tells(e)

\* A silent step tells nothing.
LEMMA HavingSilent ==
  ASSUME TypeOK, Silent, NEW type \in {"start", "end"}, NEW c
  PROVE  Having(type, c)' # {} <=> Having(type, c) # {}
<1>1. CASE log' = log
  BY <1>1 DEF Having
<1>2. CASE \E e \in Events : Adds(e) /\ ~Tells(e)
  <2>1. PICK e \in Events : Adds(e) /\ ~Tells(e)
    BY <1>2
  <2>2. e.type # type
    BY <2>1 DEF Tells
  <2> QED BY <2>1, <2>2, HavingAdds
<1> QED BY <1>1, <1>2 DEF Silent

\* What has been told stays told.
LEMMA HavingGrows ==
  ASSUME TypeOK, Grows, NEW type, NEW c, Having(type, c) # {}
  PROVE  Having(type, c)' # {}
<1>1. \A p \in DOMAIN log : log'[p] = log[p] /\ p \in DOMAIN log'
  BY GrowsIs
<1> QED BY <1>1 DEF Having

\* What is appended tells of a call once, and ends what was started.
LEMMA TellsOnce ==
  ASSUME TypeOK, Once, Ahead, NEW e \in Events, Adds(e),
         Tells(e) => Having(e.type, e.call) = {},
         e.type = "end" => Having("start", e.call) # {}
  PROVE  Once' /\ Ahead'
<1> DEFINE n == Len(log)
<1>1. /\ DOMAIN log' = 1 .. n + 1 /\ DOMAIN log = 1 .. n /\ n \in Nat
      /\ \A p \in DOMAIN log : log'[p] = log[p] /\ p \in DOMAIN log'
      /\ log'[n + 1] = e
  BY AddsIs
<1> HIDE DEF n
<1>2. \A p \in DOMAIN log' : p \in DOMAIN log \/ p = n + 1
  BY <1>1
<1>3. \A p \in DOMAIN log : Tells(e) => ~(log[p].type = e.type /\ log[p].call = e.call)
  BY DEF Having
<1>4. Once'
  <2> SUFFICES ASSUME NEW p \in DOMAIN log', NEW q \in DOMAIN log', Tells(log'[p]),
                      log'[p].type = log'[q].type, log'[p].call = log'[q].call
               PROVE  p = q
    BY DEF Once, Tells
  <2>1. CASE p \in DOMAIN log /\ q \in DOMAIN log
    BY <1>1, <2>1 DEF Once
  <2>2. CASE p = n + 1 /\ q \in DOMAIN log
    BY <1>1, <1>3, <2>2
  <2>3. CASE p \in DOMAIN log /\ q = n + 1
    BY <1>1, <1>3, <2>3 DEF Tells
  <2> QED BY <1>2, <2>1, <2>2, <2>3
<1>5. Ahead'
  <2> SUFFICES ASSUME NEW p \in DOMAIN log', log'[p].type = "end", NEW c, c = log'[p].call
               PROVE  Having("start", c)' # {}
    BY DEF Ahead, Is, Having
  <2>1. Having("start", c) # {}
    BY <1>1, <1>2 DEF Ahead, Is
  <2>2. Grows
    BY DEF Grows
  <2> QED BY <2>1, <2>2, HavingGrows
<1> QED BY <1>4, <1>5

\* A silent step leaves what was told of each call as it was.
LEMMA SilentOnce ==
  ASSUME TypeOK, Once, Ahead, Silent
  PROVE  Grows /\ Once' /\ Ahead'
<1>1. CASE log' = log
  BY <1>1 DEF Once, Ahead, Grows, Is, Having
<1>2. CASE \E e \in Events : Adds(e) /\ ~Tells(e)
  <2>1. PICK e \in Events : Adds(e) /\ ~Tells(e)
    BY <1>2
  <2>2. Once' /\ Ahead'
    BY <2>1, TellsOnce DEF Tells
  <2> QED BY <2>1, <2>2 DEF Grows
<1> QED BY <1>1, <1>2 DEF Silent

\* Calls that are told of stay so.
LEMMA RepairedStays ==
  ASSUME TypeOK, Repaired, Grows, plan' = plan, since' = since
  PROVE  Repaired'
<1> SUFFICES ASSUME NEW p \in 1 .. since, NEW c \in log'[p].calls, NEW type \in {"start", "end"}
             PROVE  Told(type, c)'
  BY DEF Repaired
<1>1. log'[p] = log[p]
  <2>1. p \in DOMAIN log
    BY GrowsIs DEF TypeOK
  <2> QED BY <2>1, GrowsIs
<1>2. Told(type, c)
  BY <1>1 DEF Repaired
<1>3. Having(type, c) # {} => Having(type, c)' # {}
  BY HavingGrows
<1> QED BY <1>2, <1>3 DEF Told

\* The plan of a process that recovers nothing.
LEMMA NoPlan ==
  ASSUME plan' = <<>>
  PROVE  PlanNew'
<1>1. \A k \in 1 .. Len(plan') : FALSE
  OBVIOUS
<1> QED BY <1>1 DEF PlanNew, OnceIn, StartsFirst

\* What a step of the only facade that tells nothing of a call must keep to.
LEMMA SilentStep ==
  ASSUME NumFacades = 1, IInv, SInv, NEW f \in Facades, Free, fac[f].open,
         opening' = opening, plan' = plan, since' = since, gaveUp' = gaveUp, Silent,
         \A c \in fac'[f].wait :
           /\ c \in fac[f].wait
           /\ (fac'[f].ph = "answered" \/ c \notin fac'[f].begun)
                <=> (fac[f].ph = "answered" \/ c \notin fac[f].begun)
  PROVE  SInv'
<1>1. TypeOK /\ OpeningOK /\ Once /\ Ahead /\ TurnNew /\ RepairOK
  BY DEF IInv, SInv
<1>2. Grows /\ Once' /\ Ahead'
  BY <1>1, SilentOnce
<1>3. TurnNew'
  <2> SUFFICES ASSUME NEW g \in Facades, NEW c \in fac'[g].wait
               PROVE  /\ Having("end", c)' = {}
                      /\ fac'[g].ph = "answered" \/ c \notin fac'[g].begun <=> Having("start", c)' = {}
    BY DEF TurnNew
  <2>1. g = f
    BY DEF Facades
  <2>2. /\ Having("end", c)' # {} <=> Having("end", c) # {}
        /\ Having("start", c)' # {} <=> Having("start", c) # {}
    BY <1>1, HavingSilent
  <2>3. /\ Having("end", c) = {}
        /\ fac[f].ph = "answered" \/ c \notin fac[f].begun <=> Having("start", c) = {}
    BY <1>1, <2>1 DEF TurnNew
  <2> QED BY <2>1, <2>2, <2>3
<1>4. PlanNew'
  BY <1>1, NoPlan DEF OpeningOK
<1>5. RepairOK'
  <2>1. ~gaveUp => Repaired
    BY <1>1 DEF RepairOK, Open
  <2> QED BY <1>1, <1>2, <2>1, RepairedStays DEF RepairOK
<1> QED BY <1>2, <1>3, <1>4, <1>5 DEF SInv

\* An event that tells of no call is silent.
LEMMA PlainSilent ==
  ASSUME TypeOK, NEW type \in Types \ {"start", "end", "summary"}, NEW th \in Threads, Emit(Ev(type, th))
  PROVE  Silent
<1>1. PICK e : e = Ev(type, th)
  OBVIOUS
<1>2. e \in Events /\ e.type = type /\ Adds(e)
  BY <1>1, PlainEvent DEF Emit, Adds
<1> QED BY <1>2 DEF Silent, Tells

------------------------------------------------------------------------------
(* The steps of the only facade.                                           *)

\* An idle facade, and one that asks or ends, waits for no call.
LEMMA QuietSays ==
  ASSUME NumFacades = 1, IInv, SInv, NEW f \in Facades,
         Prompt(f) \/ Bash(f) \/ EndTurn(f) \/ Continue(f)
  PROVE  SInv'
<1>1. /\ fac[f] \in Facade /\ fac \in [Facades -> Facade] /\ TypeOK /\ FacadeOK(f, fac[f])
      /\ fac[f].ph # "idle" => fac[f].open
  BY FacadeIs
<1>2. Thread(f) \in Threads
  BY <1>1, ThreadIs
<1>3. \A type \in {"user", "bash", "completed", "jumped"} : type \in Types \ {"start", "end", "summary"}
  BY DEF Types, ContextTypes
<1>4. CASE Bash(f)
  <2>1. Free /\ fac[f].open /\ Emit(Ev("bash", Thread(f))) /\ Quiet /\ fac' = fac
    BY <1>4 DEF Bash
  <2>2. Silent
    BY <1>1, <1>2, <1>3, <2>1, PlainSilent
  <2> QED BY <2>1, <2>2, SilentStep DEF Quiet
<1>5. CASE ~Bash(f)
  <2>1. /\ Free /\ fac[f].open /\ fac[f].ph \in {"idle", "ending"}
        /\ opening' = opening /\ plan' = plan /\ since' = since /\ gaveUp' = gaveUp
    <3>1. CASE Prompt(f)
      BY <3>1 DEF Prompt, Quiet
    <3>2. CASE EndTurn(f)
      BY <1>1, <3>2 DEF EndTurn, Quiet
    <3>3. CASE Continue(f)
      BY <3>3 DEF Continue
    <3> QED BY <1>5, <3>1, <3>2, <3>3
  <2>2. fac[f].wait = {}
    BY <1>1, <2>1 DEF FacadeOK
  <2>3. fac'[f].wait = fac[f].wait
    <3>1. CASE Prompt(f)
      BY <1>1, <3>1 DEF Prompt, Facade
    <3>2. CASE EndTurn(f)
      BY <1>1, <3>2 DEF EndTurn, Turn, Facade
    <3>3. CASE Continue(f)
      BY <3>3 DEF Continue
    <3> QED BY <1>5, <3>1, <3>2, <3>3
  <2>4. Silent
    <3>1. CASE Prompt(f)
      <4>1. Emit(Ev("user", Thread(f)))
        BY <3>1 DEF Prompt
      <4> QED BY <1>1, <1>2, <1>3, <4>1, PlainSilent
    <3>2. CASE EndTurn(f)
      <4>1. Emit(Ev("completed", Thread(f)))
        BY <3>2 DEF EndTurn
      <4> QED BY <1>1, <1>2, <1>3, <4>1, PlainSilent
    <3>3. CASE Continue(f)
      <4>1. Emit(Ev("jumped", 1)) /\ 1 \in Threads
        BY <3>3, TurnLogAssumption DEF Continue, Threads
      <4> QED BY <1>1, <1>3, <4>1, PlainSilent
    <3> QED BY <1>5, <3>1, <3>2, <3>3
  <2> QED BY <2>1, <2>2, <2>3, <2>4, SilentStep
<1> QED BY <1>4, <1>5

\* A boundary tells nothing of the calls, whether it lands in a turn or not.
LEMMA CompsSays ==
  ASSUME NumFacades = 1, IInv, SInv, NEW f \in Facades,
         \/ StartCompaction(f) \/ EndCompaction(f) \/ AbortCompaction(f)
         \/ StopReactor(f) \/ EndStray(f) \/ AbortStray(f)
  PROVE  SInv'
<1>1. /\ fac[f] \in Facade /\ fac \in [Facades -> Facade] /\ TypeOK /\ FacadeOK(f, fac[f])
      /\ fac[f].comp # None \/ fac[f].stray # None => fac[f].open
  BY FacadeIs
<1>2. /\ Free /\ fac[f].open /\ Quiet
  <2>1. CASE StartCompaction(f)
    BY <2>1 DEF StartCompaction
  <2>2. CASE EndCompaction(f)
    BY <1>1, <2>2 DEF EndCompaction
  <2>3. CASE AbortCompaction(f)
    BY <1>1, <2>3 DEF AbortCompaction
  <2>4. CASE StopReactor(f)
    BY <1>1, <2>4 DEF StopReactor
  <2>5. CASE EndStray(f)
    BY <1>1, <2>5 DEF EndStray
  <2>6. CASE AbortStray(f)
    BY <1>1, <2>6 DEF AbortStray
  <2> QED BY <2>1, <2>2, <2>3, <2>4, <2>5, <2>6
<1>3. fac'[f].wait = fac[f].wait /\ fac'[f].ph = fac[f].ph /\ fac'[f].begun = fac[f].begun
  <2>1. CASE StartCompaction(f)
    <3>1. PICK e : fac' = [fac EXCEPT ![f].comp = e]
      BY <2>1, CompactionIs
    <3> QED BY <1>1, <3>1 DEF Facade
  <2>2. CASE EndCompaction(f)
    BY <1>1, <2>2 DEF EndCompaction, Facade
  <2>3. CASE AbortCompaction(f)
    BY <1>1, <2>3 DEF AbortCompaction, Facade
  <2>4. CASE StopReactor(f)
    BY <1>1, <2>4 DEF StopReactor, Facade
  <2>5. CASE EndStray(f)
    BY <1>1, <2>5 DEF EndStray, Facade
  <2>6. CASE AbortStray(f)
    BY <1>1, <2>6 DEF AbortStray, Facade
  <2> QED BY <2>1, <2>2, <2>3, <2>4, <2>5, <2>6
<1>4. ASSUME NEW d \in Events, d # None, CompOK(f, d), Emit(Stamped(f, d)) PROVE Silent
  <2>1. PICK e : e = Stamped(f, d)
    OBVIOUS
  <2>2. e \in Events /\ e.type \in {"summary", "mask"} /\ Adds(e)
    BY <1>1, <1>4, <2>1, StampedIs DEF CompOK, Emit, Adds
  <2> QED BY <2>2 DEF Silent, Tells
<1>5. Silent
  <2>1. CASE log' = log
    BY <2>1 DEF Silent
  <2>2. CASE EndCompaction(f)
    <3>1. fac[f].comp \in Events /\ fac[f].comp # None /\ CompOK(f, fac[f].comp) /\ Emit(Stamped(f, fac[f].comp))
      BY <1>1, <2>2 DEF EndCompaction, FacadeOK, Facade
    <3> QED BY <1>4, <3>1
  <2>3. CASE EndStray(f)
    <3>1. fac[f].stray \in Events /\ fac[f].stray # None /\ CompOK(f, fac[f].stray) /\ Emit(Stamped(f, fac[f].stray))
      BY <1>1, <2>3 DEF EndStray, FacadeOK, Facade
    <3> QED BY <1>4, <3>1
  <2> QED BY <2>1, <2>2, <2>3 DEF StartCompaction, AbortCompaction, StopReactor, AbortStray
<1> QED BY <1>2, <1>3, <1>5, SilentStep DEF Quiet

\* The dispatch of the calls of an answer tells nothing of them.
LEMMA DispatchSays ==
  ASSUME NumFacades = 1, IInv, SInv, NEW f \in Facades, Dispatch(f)
  PROVE  SInv'
<1>1. /\ fac[f] \in Facade /\ fac \in [Facades -> Facade]
      /\ fac[f].ph # "idle" => fac[f].open
  BY FacadeIs
<1>2. /\ Free /\ fac[f].ph = "answered" /\ log' = log /\ Quiet
      /\ \/ fac' = [fac EXCEPT ![f].ph = "ending", ![f].wait = {}]
         \/ fac' = [fac EXCEPT ![f].ph = "tools", ![f].begun = {}]
  BY DEF Dispatch
<1>3. \/ fac'[f].wait = {}
      \/ fac'[f].wait = fac[f].wait /\ fac'[f].begun = {}
  BY <1>1, <1>2 DEF Facade
<1>4. Silent
  BY <1>2 DEF Silent
<1> QED BY <1>1, <1>2, <1>3, <1>4, SilentStep DEF Quiet

\* Nor does an interrupt.
LEMMA AbortSays ==
  ASSUME NumFacades = 1, IInv, SInv, NEW f \in Facades, Abort(f)
  PROVE  SInv'
<1>1. /\ fac[f] \in Facade /\ fac \in [Facades -> Facade] /\ FacadeOK(f, fac[f])
      /\ fac[f].ph # "idle" => fac[f].open
  BY FacadeIs
<1>2. /\ Free /\ fac[f].ph \in {"asking", "answered", "tools"} /\ log' = log /\ Quiet
      /\ fac' = [fac EXCEPT ![f].stop = TRUE, ![f].ph = IF @ = "asking" THEN "ending" ELSE @]
  BY DEF Abort
<1>3. /\ fac'[f].wait = fac[f].wait /\ fac'[f].begun = fac[f].begun
      /\ fac'[f].ph = (IF fac[f].ph = "asking" THEN "ending" ELSE fac[f].ph)
  BY <1>1, <1>2 DEF Facade
<1>4. fac[f].ph = "asking" => fac[f].wait = {}
  BY <1>1 DEF FacadeOK
<1>5. Silent
  BY <1>2 DEF Silent
<1> QED BY <1>1, <1>2, <1>3, <1>4, <1>5, SilentStep DEF Quiet

\* What the only facade says of its calls must be new, and so must stay what it has to say.
LEMMA SayingStep ==
  ASSUME NumFacades = 1, IInv, SInv, NEW f \in Facades, Free, fac[f].open,
         opening' = opening, plan' = plan, since' = since, gaveUp' = gaveUp, NEW e \in Events, Adds(e),
         Tells(e) => Having(e.type, e.call) = {},
         e.type = "end" => Having("start", e.call) # {},
         \A c \in fac'[f].wait :
           /\ Having("end", c) = {} /\ ~(e.type = "end" /\ e.call = c)
           /\ (fac'[f].ph = "answered" \/ c \notin fac'[f].begun)
                <=> (Having("start", c) = {} /\ ~(e.type = "start" /\ e.call = c))
  PROVE  SInv'
<1>1. TypeOK /\ OpeningOK /\ Once /\ Ahead /\ TurnNew /\ RepairOK
  BY DEF IInv, SInv
<1>2. Grows /\ Once' /\ Ahead'
  BY <1>1, TellsOnce DEF Grows
<1>3. TurnNew'
  <2> SUFFICES ASSUME NEW g \in Facades, NEW c \in fac'[g].wait
               PROVE  /\ Having("end", c)' = {}
                      /\ fac'[g].ph = "answered" \/ c \notin fac'[g].begun <=> Having("start", c)' = {}
    BY DEF TurnNew
  <2>1. g = f
    BY DEF Facades
  <2>2. /\ Having("end", c)' # {} <=> Having("end", c) # {} \/ (e.type = "end" /\ e.call = c)
        /\ Having("start", c)' # {} <=> Having("start", c) # {} \/ (e.type = "start" /\ e.call = c)
    BY <1>1, HavingAdds
  <2> QED BY <2>1, <2>2
<1>4. PlanNew'
  BY <1>1, NoPlan DEF OpeningOK
<1>5. RepairOK'
  <2>1. ~gaveUp => Repaired
    BY <1>1 DEF RepairOK, Open
  <2> QED BY <1>1, <1>2, <2>1, RepairedStays DEF RepairOK
<1> QED BY <1>2, <1>3, <1>4, <1>5 DEF SInv

\* A tool is started once.
LEMMA StartToolSays ==
  ASSUME NumFacades = 1, IInv, SInv, NEW f \in Facades, NEW c \in Calls, StartTool(f, c)
  PROVE  SInv'
<1>1. /\ fac[f] \in Facade /\ fac \in [Facades -> Facade] /\ TypeOK
      /\ fac[f].ph # "idle" => fac[f].open
  BY FacadeIs
<1>2. /\ Free /\ fac[f].ph = "tools" /\ c \in fac[f].wait \ fac[f].begun
      /\ Emit(CallEv("start", Thread(f), c)) /\ Quiet
      /\ fac' = [fac EXCEPT ![f].begun = @ \cup {c}]
  BY DEF StartTool
<1>3. PICK e : e = CallEv("start", Thread(f), c)
  OBVIOUS
<1>4. e \in Events /\ e.type = "start" /\ e.call = c /\ Adds(e)
  <2>1. "start" \in Types /\ Thread(f) \in Threads /\ c \in Calls \cup {None}
    BY <1>1, ThreadIs DEF Types
  <2> QED BY <1>2, <1>3, <2>1, CallEvent DEF Emit, Adds
<1>5. /\ fac'[f].wait = fac[f].wait /\ fac'[f].ph = "tools" /\ fac'[f].begun = fac[f].begun \cup {c}
  BY <1>1, <1>2 DEF Facade
<1>6. \A d \in fac[f].wait : /\ Having("end", d) = {}
                             /\ d \notin fac[f].begun <=> Having("start", d) = {}
  BY <1>2 DEF SInv, TurnNew
<1>7. Having("start", c) = {}
  BY <1>2, <1>6
<1> QED BY <1>1, <1>2, <1>4, <1>5, <1>6, <1>7, SayingStep DEF Quiet

\* A tool that was started ends once.
LEMMA EndToolSays ==
  ASSUME NumFacades = 1, IInv, SInv, NEW f \in Facades, NEW c \in Calls, EndTool(f, c)
  PROVE  SInv'
<1>1. /\ fac[f] \in Facade /\ fac \in [Facades -> Facade] /\ TypeOK
      /\ fac[f].ph # "idle" => fac[f].open
  BY FacadeIs
<1>2. /\ Free /\ fac[f].ph = "tools" /\ c \in fac[f].wait \cap fac[f].begun
      /\ Emit(CallEv("end", Thread(f), c)) /\ Quiet
      /\ fac' = [fac EXCEPT ![f].wait = @ \ {c},
                            ![f].ph = IF fac[f].wait # {c} THEN @
                                      ELSE IF fac[f].stop THEN "ending" ELSE "asking"]
  BY DEF EndTool
<1>3. PICK e : e = CallEv("end", Thread(f), c)
  OBVIOUS
<1>4. e \in Events /\ e.type = "end" /\ e.call = c /\ Adds(e)
  <2>1. "end" \in Types /\ Thread(f) \in Threads /\ c \in Calls \cup {None}
    BY <1>1, ThreadIs DEF Types, ContextTypes
  <2> QED BY <1>2, <1>3, <2>1, CallEvent DEF Emit, Adds
<1>5. /\ fac'[f].wait = fac[f].wait \ {c} /\ fac'[f].begun = fac[f].begun
      /\ fac'[f].ph = (IF fac[f].wait # {c} THEN fac[f].ph
                       ELSE IF fac[f].stop THEN "ending" ELSE "asking")
  BY <1>1, <1>2 DEF Facade
<1>6. \A d \in fac[f].wait : /\ Having("end", d) = {}
                             /\ d \notin fac[f].begun <=> Having("start", d) = {}
  BY <1>2 DEF SInv, TurnNew
<1>7. Having("end", c) = {} /\ Having("start", c) # {}
  BY <1>2, <1>6
<1>8. \A d \in fac'[f].wait : d \in fac[f].wait /\ d # c /\ fac'[f].ph = "tools"
  BY <1>2, <1>5
<1> QED BY <1>1, <1>2, <1>4, <1>5, <1>6, <1>7, <1>8, SayingStep DEF Quiet

\* Of a call that is made now nothing has been told.
LEMMA RespondSays ==
  ASSUME NumFacades = 1, IInv, SInv, NEW f \in Facades, Respond(f)
  PROVE  SInv'
<1>1. /\ fac[f] \in Facade /\ fac \in [Facades -> Facade] /\ TypeOK /\ FacadeOK(f, fac[f])
      /\ fac[f].ph # "idle" => fac[f].open
  BY FacadeIs
<1>2. Free /\ fac[f].ph = "asking" /\ Quiet
  BY DEF Respond
<1>3. PICK t : t = Thread(f)
  OBVIOUS
<1>4. t \in Threads
  BY <1>1, <1>3, ThreadIs
<1>5. ASSUME NEW calls \in SUBSET FreshCalls,
             Emit([Ev("assistant", Thread(f)) EXCEPT !.calls = calls]),
             fac' = [fac EXCEPT ![f].ph = "answered", ![f].wait = calls]
      PROVE  SInv'
  <2>1. PICK e : e = [Ev("assistant", t) EXCEPT !.calls = calls]
    OBVIOUS
  <2>2. calls \subseteq Calls
    BY DEF FreshCalls
  <2>3. e \in Events /\ e.type = "assistant" /\ Adds(e)
    BY <1>3, <1>4, <1>5, <2>1, <2>2 DEF Ev, Events, Types, ContextTypes, Emit, Adds
  <2>4. fac'[f].wait = calls /\ fac'[f].ph = "answered"
    BY <1>1, <1>5, <2>2 DEF Facade
  <2>5. \A c \in calls : Having("end", c) = {} /\ Having("start", c) = {}
    BY DEF IInv, HomeOK, Having, Tells, MadeIn, FreshCalls
  <2> QED BY <1>1, <1>2, <2>3, <2>4, <2>5, SayingStep DEF Quiet, Tells
<1>6. ASSUME Emit([Ev("assistant", Thread(f)) EXCEPT !.empty = TRUE]), Turn(f, "ending")
      PROVE  SInv'
  <2>1. PICK e : e = [Ev("assistant", t) EXCEPT !.empty = TRUE]
    OBVIOUS
  <2>2. e \in Events /\ e.type = "assistant" /\ Adds(e)
    BY <1>3, <1>4, <1>6, <2>1 DEF Ev, Events, Types, ContextTypes, Emit, Adds
  <2>3. fac'[f].wait = fac[f].wait /\ fac[f].wait = {}
    BY <1>1, <1>2, <1>6 DEF Turn, Facade, FacadeOK
  <2> QED BY <1>1, <1>2, <2>2, <2>3, SayingStep DEF Quiet, Tells
<1> QED BY <1>5, <1>6, RespondIs

------------------------------------------------------------------------------
(* Its recovery.                                                           *)

\* While the only facade is being opened, or none is, nothing waits for a call.
LEMMA NothingWaits ==
  ASSUME NumFacades = 1, IInv, ~Free, NEW f \in Facades
  PROVE  opening = f /\ ~fac[f].open /\ fac[f].wait = {}
<1>1. opening = f
  BY DEF IInv, TypeOK, Free, Facades
<1>2. ~fac[f].open
  BY <1>1 DEF IInv, OpeningOK
<1>3. Closed.wait = {}
  BY DEF Closed
<1> QED BY <1>1, <1>2, <1>3, FacadeIs DEF FacadeOK

\* The recovery plans for every call of the log what is missing, and nothing else.
LEMMA OpenFacadeSays ==
  ASSUME NumFacades = 1, IInv, SInv, NEW f \in Facades, OpenFacade(f)
  PROVE  SInv'
<1>1. TypeOK /\ CallsOK /\ Once /\ Ahead /\ TurnNew
  BY DEF IInv, SInv
<1>2. /\ ~fac[f].open /\ opening' = f /\ plan' = RecoveryPlan
      /\ since' = (IF Open = {} THEN Len(log) ELSE since)
      /\ log' = log /\ fac' = fac
  BY DEF OpenFacade
<1>3. since' = Len(log)
  BY <1>2 DEF Open, Facades
<1>4. Once' /\ Ahead' /\ TurnNew'
  BY <1>1, <1>2 DEF Once, Ahead, TurnNew, Is, Having
<1>5. PICK r : r = RecoveryPlan
  OBVIOUS
<1>6. /\ OnceIn(r) /\ StartsFirst(r)
      /\ \A p \in DOMAIN log : Completes(r, Unresolved(p))
      /\ \A k \in 1 .. Len(r) : (\E p \in DOMAIN log : Repairs(r[k], p)) \/ r[k].type = "completed"
  <2>1. /\ OnceIn(RecoveryPlan) /\ StartsFirst(RecoveryPlan)
        /\ \A p \in DOMAIN log : Completes(RecoveryPlan, Unresolved(p))
        /\ \A k \in 1 .. Len(RecoveryPlan) :
              \/ \E p \in DOMAIN log : Repairs(RecoveryPlan[k], p)
              \/ RecoveryPlan[k].type = "completed" /\ RecoveryPlan[k].calls = {}
    BY <1>1, RecoveryPlanIs
  <2> QED BY <1>5, <2>1
<1>7. plan' = r /\ \A type, c : Having(type, c)' = Having(type, c)
  BY <1>2, <1>5 DEF Having
<1>8. PlanNew'
  <2>1. \A k \in 1 .. Len(r) : Tells(r[k]) => Having(r[k].type, r[k].call) = {}
    BY <1>6 DEF Repairs, Tells
  <2>2. OnceIn(plan)'
    BY <1>6, <1>7 DEF OnceIn, Tells
  <2>3. StartsFirst(plan)'
    BY <1>2, <1>6, <1>7 DEF StartsFirst, Having
  <2>4. (\A k \in 1 .. Len(plan) : Tells(plan[k]) => Having(plan[k].type, plan[k].call) = {})'
    BY <1>2, <1>7, <2>1 DEF Having, Tells
  <2> QED BY <2>2, <2>3, <2>4 DEF PlanNew
<1>9. Repaired'
  <2> SUFFICES ASSUME NEW p \in 1 .. Len(log), NEW c \in log[p].calls
               PROVE  Told("start", c)' /\ Told("end", c)'
    BY <1>2, <1>3 DEF Repaired
  <2>1. p \in DOMAIN log
    BY <1>1, LenProperties DEF TypeOK
  <2>2. Is(p, {"assistant"})
    BY <1>1, <2>1 DEF CallsOK
  <2>3. CASE Having("end", c) = {}
    <3>1. c \in Unresolved(p)
      BY <2>2, <2>3 DEF Unresolved
    <3>2. Completes(r, Unresolved(p))
      BY <1>6, <2>1
    <3>3. /\ \E k \in 1 .. Len(r) : r[k].type = "end" /\ r[k].call = c
          /\ Having("start", c) = {} => \E k \in 1 .. Len(r) : r[k].type = "start" /\ r[k].call = c
      BY <3>1, <3>2 DEF Completes
    <3> QED BY <1>7, <3>3 DEF Told
  <2>4. CASE Having("end", c) # {}
    <3>1. PICK q \in DOMAIN log : log[q].type = "end" /\ log[q].call = c
      BY <2>4 DEF Having
    <3>2. Having("start", c) # {}
      BY <1>1, <3>1 DEF Ahead, Is
    <3> QED BY <1>7, <2>4, <3>2 DEF Told
  <2> QED BY <2>3, <2>4
<1> QED BY <1>4, <1>8, <1>9 DEF SInv, RepairOK

\* What a step of the recovery appends is new, and is no longer planned.
LEMMA RecoverStepSays ==
  ASSUME NumFacades = 1, IInv, SInv, RecoverStep
  PROVE  SInv'
<1>1. TypeOK /\ OpeningOK /\ Once /\ Ahead /\ PlanNew /\ RepairOK
  BY DEF IInv, SInv
<1>2. /\ plan # <<>> /\ Emit(Head(plan)) /\ plan' = Tail(plan)
      /\ fac' = fac /\ opening' = opening /\ since' = since /\ gaveUp' = gaveUp
  BY DEF RecoverStep
<1>3. plan \in Seq(Events) /\ Len(plan) \in Nat /\ 1 \in 1 .. Len(plan) /\ Head(plan) = plan[1]
  BY <1>1, <1>2, EmptySeq, LenProperties DEF TypeOK
<1>4. /\ Len(plan') = Len(plan) - 1
      /\ \A k \in 1 .. Len(plan') : plan'[k] = plan[k + 1] /\ k + 1 \in 1 .. Len(plan)
  <2>1. /\ Len(Tail(plan)) = Len(plan) - 1
        /\ \A i \in 1 .. Len(Tail(plan)) : Tail(plan)[i] = plan[i + 1]
    BY <1>2, <1>3, HeadTailProperties
  <2> QED BY <1>2, <1>3, <2>1
<1>5. PICK e : e = plan[1]
  OBVIOUS
<1>6. e \in Events /\ Adds(e)
  BY <1>2, <1>3, <1>5, ElementOfSeq DEF Emit, Adds
<1>7. /\ Tells(e) => Having(e.type, e.call) = {}
      /\ e.type = "end" => Having("start", e.call) # {}
  <2>1. \A l \in 1 .. 1 - 1 : FALSE
    OBVIOUS
  <2> QED BY <1>1, <1>3, <1>5, <2>1 DEF PlanNew, StartsFirst
<1>8. Once' /\ Ahead' /\ Grows
  BY <1>1, <1>6, <1>7, TellsOnce DEF Grows
<1>9. ~Free
  BY <1>1, <1>2 DEF OpeningOK
<1>10. TurnNew'
  <2>1. \A f \in Facades : fac'[f].wait = {}
    BY <1>2, <1>9, NothingWaits
  <2> QED BY <2>1 DEF TurnNew
<1>11. \A type, c : Having(type, c)' # {} <=> Having(type, c) # {} \/ (e.type = type /\ e.call = c)
  BY <1>1, <1>6, HavingAdds
<1>12. PlanNew'
  <2>1. OnceIn(plan) /\ StartsFirst(plan)
        /\ \A k \in 1 .. Len(plan) : Tells(plan[k]) => Having(plan[k].type, plan[k].call) = {}
    BY <1>1 DEF PlanNew
  <2>2. ASSUME NEW k \in 1 .. Len(plan'), Tells(plan'[k]), NEW type, NEW c,
               type = plan'[k].type, c = plan'[k].call
        PROVE  Having(type, c)' = {}
    <3>1. plan'[k] = plan[k + 1] /\ k + 1 \in 1 .. Len(plan) /\ k + 1 # 1
      BY <1>3, <1>4
    <3>2. Having(type, c) = {}
      BY <2>1, <2>2, <3>1
    <3>3. ~(e.type = type /\ e.call = c)
      BY <1>3, <1>5, <2>1, <2>2, <3>1 DEF OnceIn
    <3> QED BY <1>11, <3>2, <3>3
  <2>3. ASSUME NEW k \in 1 .. Len(plan'), NEW l \in 1 .. Len(plan'), Tells(plan'[k]),
               plan'[k].type = plan'[l].type, plan'[k].call = plan'[l].call
        PROVE  k = l
    <3>1. plan'[k] = plan[k + 1] /\ k + 1 \in 1 .. Len(plan)
          /\ plan'[l] = plan[l + 1] /\ l + 1 \in 1 .. Len(plan)
      BY <1>4
    <3>2. k + 1 = l + 1
      BY <2>1, <2>3, <3>1 DEF OnceIn
    <3> QED BY <3>2
  <2>4. ASSUME NEW k \in 1 .. Len(plan'), plan'[k].type = "end", NEW c, c = plan'[k].call
        PROVE  \/ Having("start", c)' # {}
               \/ \E l \in 1 .. k - 1 : plan'[l].type = "start" /\ plan'[l].call = c
    <3>1. plan'[k] = plan[k + 1] /\ k + 1 \in 1 .. Len(plan)
      BY <1>4
    <3>2. CASE Having("start", c) # {}
      BY <1>11, <3>2
    <3>3. CASE Having("start", c) = {}
      <4>1. PICK l \in 1 .. (k + 1) - 1 : plan[l].type = "start" /\ plan[l].call = c
        BY <2>1, <2>4, <3>1, <3>3 DEF StartsFirst
      <4>2. CASE l = 1
        BY <1>5, <1>11, <4>1, <4>2
      <4>3. CASE l # 1
        <5>1. l - 1 \in 1 .. k - 1 /\ l - 1 \in 1 .. Len(plan') /\ (l - 1) + 1 = l
          BY <1>3, <1>4, <4>3
        <5>2. plan'[l - 1] = plan[l]
          BY <1>4, <5>1
        <5> QED BY <4>1, <5>1, <5>2
      <4> QED BY <4>2, <4>3
    <3> QED BY <3>2, <3>3
  <2>5. (\A k \in 1 .. Len(plan) : Tells(plan[k]) => Having(plan[k].type, plan[k].call) = {})'
    BY <2>2 DEF Having, Tells
  <2>6. StartsFirst(plan)'
    BY <2>4 DEF StartsFirst, Having
  <2>7. OnceIn(plan)'
    BY <2>3 DEF OnceIn, Tells
  <2> QED BY <2>5, <2>6, <2>7 DEF PlanNew
<1>13. ASSUME ~gaveUp PROVE Repaired'
  <2> SUFFICES ASSUME NEW p \in 1 .. since, NEW c \in log'[p].calls, NEW type \in {"start", "end"}
               PROVE  Told(type, c)'
    BY <1>2 DEF Repaired
  <2>1. log'[p] = log[p]
    <3>1. p \in DOMAIN log
      BY <1>1, <1>8, GrowsIs DEF TypeOK
    <3> QED BY <1>1, <1>8, <3>1, GrowsIs
  <2>2. Told(type, c)
    BY <1>1, <1>9, <1>13, <2>1 DEF RepairOK, Repaired
  <2>3. CASE Having(type, c) # {}
    BY <1>11, <2>3 DEF Told
  <2>4. CASE \E k \in 1 .. Len(plan) : plan[k].type = type /\ plan[k].call = c
    <3>1. PICK k \in 1 .. Len(plan) : plan[k].type = type /\ plan[k].call = c
      BY <2>4
    <3>2. CASE k = 1
      <4>1. Having(type, c)' # {}
        BY <1>5, <1>11, <3>1, <3>2
      <4> QED BY <4>1 DEF Told
    <3>3. CASE k # 1
      <4>1. k - 1 \in 1 .. Len(plan') /\ (k - 1) + 1 = k
        BY <1>3, <1>4, <3>3
      <4>2. plan'[k - 1] = plan[k]
        BY <1>4, <4>1
      <4> QED BY <3>1, <4>1, <4>2 DEF Told
    <3> QED BY <3>2, <3>3
  <2> QED BY <2>2, <2>3, <2>4 DEF Told
<1> QED BY <1>2, <1>8, <1>10, <1>12, <1>13 DEF SInv, RepairOK

\* A recovery that fails leaves the log as it is.
LEMMA RecoveryFailsSays ==
  ASSUME NumFacades = 1, IInv, SInv, RecoveryFails
  PROVE  SInv'
<1>1. TypeOK /\ OpeningOK /\ Once /\ Ahead
  BY DEF IInv, SInv
<1>2. plan # <<>> /\ plan' = <<>> /\ gaveUp' /\ log' = log /\ fac' = fac
  BY DEF RecoveryFails
<1>3. Once' /\ Ahead'
  BY <1>1, <1>2 DEF Once, Ahead, Is, Having
<1>4. TurnNew'
  <2>1. ~Free
    BY <1>1, <1>2 DEF OpeningOK
  <2>2. \A f \in Facades : fac'[f].wait = {}
    BY <1>2, <2>1, NothingWaits
  <2> QED BY <2>2 DEF TurnNew
<1>5. PlanNew'
  BY <1>2, NoPlan
<1> QED BY <1>2, <1>3, <1>4, <1>5 DEF SInv, RepairOK

\* When the plan is empty everything is told.
LEMMA OpenedSays ==
  ASSUME NumFacades = 1, IInv, SInv, Opened
  PROVE  SInv'
<1>1. TypeOK /\ Once /\ Ahead /\ RepairOK
  BY DEF IInv, SInv
<1>2. /\ ~Free /\ plan = <<>> /\ fac' = [fac EXCEPT ![opening] = [Closed EXCEPT !.open = TRUE]]
      /\ log' = log /\ plan' = plan /\ since' = since /\ gaveUp' = gaveUp
  BY DEF Opened
<1>3. Grows /\ Once' /\ Ahead'
  BY <1>1, <1>2 DEF Grows, Once, Ahead, Is, Having
<1>4. TurnNew'
  <2>1. \A f \in Facades : fac'[f].wait = {}
    <3> SUFFICES ASSUME NEW f \in Facades PROVE fac'[f].wait = {}
      OBVIOUS
    <3>1. opening = f /\ fac \in [Facades -> Facade]
      BY <1>1, <1>2, NothingWaits DEF TypeOK
    <3>2. fac'[f] = [Closed EXCEPT !.open = TRUE]
      BY <1>2, <3>1
    <3> QED BY <3>2 DEF Closed
  <2> QED BY <2>1 DEF TurnNew
<1>5. PlanNew'
  BY <1>2, NoPlan
<1>6. RepairOK'
  <2>1. ~gaveUp => Repaired
    BY <1>1, <1>2 DEF RepairOK
  <2> QED BY <1>1, <1>2, <1>3, <2>1, RepairedStays DEF RepairOK
<1> QED BY <1>3, <1>4, <1>5, <1>6 DEF SInv

\* A process that dies leaves the log as it is, in the middle of a recovery as well.
LEMMA CrashSays ==
  ASSUME IInv, SInv, Crash
  PROVE  SInv'
<1>1. Once /\ Ahead
  BY DEF SInv
<1>2. /\ fac' = [f \in Facades |-> Closed] /\ opening' = None /\ plan' = <<>> /\ log' = log
  BY DEF Crash
<1>3. Once' /\ Ahead'
  BY <1>1, <1>2 DEF Once, Ahead, Is, Having
<1>4. \A f \in Facades : fac'[f].wait = {} /\ ~fac'[f].open
  BY <1>2 DEF Closed
<1>5. TurnNew' /\ PlanNew'
  BY <1>2, <1>4, NoPlan DEF TurnNew
<1>6. RepairOK'
  BY <1>2, <1>4 DEF RepairOK, Open, Free
<1> QED BY <1>3, <1>5, <1>6 DEF SInv

\* It holds at first.
LEMMA InitSays == Init => SInv
<1> SUFFICES ASSUME Init PROVE SInv
  OBVIOUS
<1>1. log = <<>> /\ fac = [f \in Facades |-> Closed] /\ opening = None /\ plan = <<>>
  BY DEF Init
<1>2. DOMAIN log = {} /\ \A k \in 1 .. Len(plan) : FALSE
  BY <1>1, EmptySeq
<1>3. \A f \in Facades : fac[f].wait = {} /\ ~fac[f].open
  BY <1>1 DEF Closed
<1>4. Once /\ Ahead /\ TurnNew
  BY <1>2, <1>3 DEF Once, Ahead, TurnNew
<1>5. PlanNew
  BY <1>2 DEF PlanNew, OnceIn, StartsFirst
<1>6. RepairOK
  BY <1>1, <1>3 DEF RepairOK, Open, Free
<1> QED BY <1>4, <1>5, <1>6 DEF SInv

\* A step of something else keeps it.
LEMMA StutterSays ==
  ASSUME IInv, SInv, UNCHANGED vars
  PROVE  SInv'
<1>1. TypeOK /\ Once /\ Ahead /\ TurnNew /\ PlanNew /\ RepairOK
  BY DEF IInv, SInv
<1>2. /\ log' = log /\ fac' = fac /\ opening' = opening /\ plan' = plan /\ since' = since
      /\ gaveUp' = gaveUp
  BY DEF vars
<1>3. Once' /\ Ahead' /\ TurnNew'
  BY <1>1, <1>2 DEF Once, Ahead, TurnNew, Is, Having
<1>4. PlanNew'
  BY <1>1, <1>2 DEF PlanNew, OnceIn, StartsFirst, Having
<1>5. RepairOK'
  <2>1. Grows
    BY <1>2 DEF Grows
  <2> QED BY <1>1, <1>2, <2>1, RepairedStays DEF RepairOK, Open, Free
<1> QED BY <1>3, <1>4, <1>5 DEF SInv

\* Every step of a process with one facade keeps it.
LEMMA NextSays ==
  ASSUME NumFacades = 1, IInv, SInv, [Next]_vars
  PROVE  SInv'
<1>1. CASE RecoverStep \/ RecoveryFails \/ Opened \/ Crash
  BY <1>1, RecoverStepSays, RecoveryFailsSays, OpenedSays, CrashSays
<1>2. ASSUME NEW f \in Facades,
             \/ OpenFacade(f) \/ Prompt(f) \/ Respond(f) \/ Dispatch(f) \/ EndTurn(f)
             \/ Abort(f) \/ Bash(f) \/ Continue(f)
             \/ StartCompaction(f) \/ EndCompaction(f) \/ AbortCompaction(f)
             \/ StopReactor(f) \/ EndStray(f) \/ AbortStray(f)
      PROVE  SInv'
  BY <1>2, OpenFacadeSays, RespondSays, DispatchSays, AbortSays, QuietSays, CompsSays
<1>3. ASSUME NEW f \in Facades, NEW c \in Calls, StartTool(f, c) \/ EndTool(f, c) PROVE SInv'
  BY <1>3, StartToolSays, EndToolSays
<1>4. CASE UNCHANGED vars
  BY <1>4, StutterSays
<1> QED BY <1>1, <1>2, <1>3, <1>4 DEF Next

\* The invariant of one facade.
LEMMA OneFacade ==
  ASSUME NumFacades = 1
  PROVE  Spec => [](IInv /\ SInv)
<1>1. Init => IInv /\ SInv
  BY InitHolds, InitSays
<1>2. (IInv /\ SInv) /\ [Next]_vars => (IInv /\ SInv)'
  BY NextKeeps, NextSays
<1> QED BY <1>1, <1>2, PTL DEF Spec

\* With one facade, for any number of calls, any budgets, any log and any number of crashes:
\* the context of every session is well formed at any moment (context-sanitizer.ts).  With two
\* it is not: the second recovers the turn the first is in (README).
THEOREM ContextIsWellFormed ==
  ASSUME NumFacades = 1
  PROVE  Spec => []ContextWellFormed
<1>1. IInv /\ SInv => ContextWellFormed
  BY WellFormedWhen DEF IInv, SInv
<1> QED BY <1>1, OneFacade, PTL

\* With one facade, for any number of calls and crashes, in the middle of a recovery and after
\* one that failed: no call has two STARTs or two ENDs, and where the last recovery was done,
\* those any earlier process left behind have both (crash-recovery.ts).
THEOREM CallsStayPaired ==
  ASSUME NumFacades = 1
  PROVE  Spec => []CallsArePaired
<1>1. IInv /\ SInv => CallsArePaired
  <2> SUFFICES ASSUME IInv, SInv PROVE CallsArePaired
    OBVIOUS
  <2>1. \A p, q \in DOMAIN log : Is(p, {"start", "end"}) /\ log[p].type = log[q].type
                                 /\ log[p].call = log[q].call => p = q
    BY DEF SInv, Once, Tells, Is
  <2>2. ASSUME Open # {}, Free, ~gaveUp, NEW p \in 1 .. since, NEW c \in log[p].calls
        PROVE  Having("start", c) # {} /\ Having("end", c) # {}
    <3>1. Told("start", c) /\ Told("end", c)
      BY <2>2 DEF SInv, RepairOK, Repaired
    <3>2. \A k \in 1 .. Len(plan) : FALSE
      BY <2>2 DEF IInv, OpeningOK
    <3> QED BY <3>1, <3>2 DEF Told
  <2> QED BY <2>1, <2>2 DEF CallsArePaired, LeftBehindIsPaired
<1> QED BY <1>1, OneFacade, PTL
======================================================================
