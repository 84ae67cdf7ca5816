---------------------------- MODULE Mensajes_proofs ----------------------------
(***************************************************************************)
(* What the streams of Mensajes carry, for scripts and PCBs of any length:  *)
(* a PCB comes out of a socket as it went in, and so does the message of a  *)
(* console up to its first ill written line; past that line what comes out  *)
(* is still instructions.                                                   *)
(*                                                                          *)
(* Where something starts in a stream is a sum of lengths (Sumas).  That    *)
(* the recursive definitions have a value, and what it is, is shown on the  *)
(* set of the lengths for which it is so (Induccion).                       *)
(***************************************************************************)
EXTENDS Mensajes, TLAPS, SequenceTheorems, FiniteSetTheorems, NaturalsInduction,
        WellFoundedInduction

-----------------------------------------------------------------------------
(* Induction on a set, and sums of lengths.                                 *)

\* A set of naturals that is not empty has a least element.
LEMMA MenorNat ==
    ASSUME NEW S, S \subseteq Nat, S # {}
    PROVE  \E x \in S : \A y \in S : x <= y
<1> DEFINE R == {ss \in Nat \X Nat : ss[1] < ss[2]}
<1>0. IsWellFoundedOn(R, Nat)
  BY NatLessThanWellFounded DEF OpToRel
<1>1. \E x \in S : \A y \in S : ~ (<<y, x>> \in R)
  <2> HIDE DEF R
  <2>. QED  BY ONLY <1>0, WFMin, S \subseteq Nat, S # {}
<1>2. PICK x \in S : \A y \in S : ~ (<<y, x>> \in R)  BY <1>1
<1>3. ASSUME NEW y \in S, ~ x <= y
      PROVE  FALSE
  <2>1. y \in Nat /\ x \in Nat /\ y < x  BY <1>3
  <2>2. <<y, x>> \in Nat \X Nat /\ <<y, x>>[1] < <<y, x>>[2]  BY <2>1
  <2>3. <<y, x>> \in R  BY <2>2
  <2>. QED  BY <2>3, <1>2, <1>3
<1>. QED  BY <1>3

\* A set with 0 and with the successor of each of its naturals has them all.
LEMMA Induccion ==
    ASSUME NEW S, 0 \in S, \A n \in Nat : n \in S => n + 1 \in S
    PROVE  Nat \subseteq S
<1>1. SUFFICES ASSUME Nat \ S # {} PROVE FALSE  OBVIOUS
<1>2. PICK x \in Nat \ S : \A y \in Nat \ S : x <= y  BY <1>1, MenorNat
<1>3. x # 0 /\ x - 1 \in Nat /\ ~ x <= x - 1 /\ (x - 1) + 1 = x  BY <1>2
<1>. QED  BY <1>2, <1>3

\* o[i] is the sum of the first i lengths.
Sumas(o, largo) ==
    LET n == Len(largo) IN
    /\ o \in [0 .. n -> Nat]
    /\ o[0] = 0
    /\ \A i \in 1 .. n : o[i] = o[i - 1] + largo[i]

\* The sums exist.
LEMMA SumasHay ==
    ASSUME NEW largo \in Seq(Nat)
    PROVE  \E o : Sumas(o, largo)
<1> DEFINE n == Len(largo)
           Es(m, o) == /\ o \in [0 .. m -> Nat] /\ o[0] = 0
                       /\ \A i \in 1 .. m : o[i] = o[i - 1] + largo[i]
           B == {m \in Nat : m <= n => \E o : Es(m, o)}
<1>0. n \in Nat /\ \A i \in 1 .. n : largo[i] \in Nat  OBVIOUS
<1>1. 0 \in B
  <2>1. Es(0, [i \in 0 .. 0 |-> 0])  OBVIOUS
  <2>. QED  BY <2>1
<1>2. ASSUME NEW m \in Nat, m \in B PROVE m + 1 \in B
  <2>1. SUFFICES ASSUME m + 1 <= n PROVE \E o : Es(m + 1, o)
    <3>. HIDE DEF Es
    <3>. QED  OBVIOUS
  <2>2. PICK o : Es(m, o)  BY <1>0, <1>2, <2>1
  <2> DEFINE q == [i \in 0 .. m + 1 |-> IF i <= m THEN o[i] ELSE o[m] + largo[m + 1]]
  <2>3. o[m] \in Nat /\ largo[m + 1] \in Nat  BY <1>0, <2>1, <2>2
  <2>4. q \in [0 .. m + 1 -> Nat]  BY <2>2, <2>3
  <2>5. ASSUME NEW i \in 1 .. m + 1 PROVE q[i] = q[i - 1] + largo[i]
    <3>1. i - 1 \in 0 .. m /\ q[i - 1] = o[i - 1]  OBVIOUS
    <3>2. CASE i <= m  BY <2>2, <3>1, <3>2
    <3>3. CASE i = m + 1  BY <2>2, <3>1, <3>3
    <3>. QED  BY <3>2, <3>3
  <2>6. q[0] = 0  BY <2>2
  <2>7. Es(m + 1, q)  BY <2>4, <2>5, <2>6
  <2>. QED  BY <2>7
<1>3. n \in B
  <2>. HIDE DEF B
  <2>. QED  BY <1>0, <1>1, <1>2, Induccion
<1>. QED  BY <1>0, <1>3 DEF Sumas

\* Each sum is a number, the one before and a length.
LEMMA SumasDe ==
    ASSUME NEW largo \in Seq(Nat), NEW o, Sumas(o, largo)
    PROVE  /\ Len(largo) \in Nat /\ o[0] = 0
           /\ \A i \in 0 .. Len(largo) : o[i] \in Nat
           /\ \A i \in 1 .. Len(largo) : /\ i - 1 \in 0 .. Len(largo) /\ o[i - 1] \in Nat
                                       /\ largo[i] \in Nat /\ o[i] = o[i - 1] + largo[i]
<1>1. Len(largo) \in Nat /\ \A i \in 1 .. Len(largo) : largo[i] \in Nat  OBVIOUS
<1>2. /\ o \in [0 .. Len(largo) -> Nat] /\ o[0] = 0
      /\ \A i \in 1 .. Len(largo) : o[i] = o[i - 1] + largo[i]
  BY DEF Sumas
<1>3. \A i \in 1 .. Len(largo) : i - 1 \in 0 .. Len(largo)  BY <1>1
<1>. QED  BY <1>1, <1>2, <1>3

\* And there is one of them only.
LEMMA SumasUnicas ==
    ASSUME NEW largo \in Seq(Nat), NEW o, NEW q, Sumas(o, largo), Sumas(q, largo)
    PROVE  o = q
<1> DEFINE n == Len(largo)
           B == {m \in Nat : m <= n => o[m] = q[m]}
<1>0. n \in Nat  OBVIOUS
<1>1. 0 \in B  BY DEF Sumas
<1>2. ASSUME NEW m \in Nat, m \in B PROVE m + 1 \in B
  BY <1>0, <1>2 DEF Sumas
<1>3. Nat \subseteq B
  <2>. HIDE DEF B
  <2>. QED  BY <1>1, <1>2, Induccion
<1>. QED  BY <1>0, <1>3 DEF Sumas

\* They grow.
LEMMA SumasCrecen ==
    ASSUME NEW largo \in Seq(Nat), NEW o, Sumas(o, largo),
           NEW i \in 0 .. Len(largo), NEW j \in i .. Len(largo)
    PROVE  o[i] <= o[j]
<1> DEFINE n == Len(largo)
           B == {m \in Nat : i + m <= n => o[i] <= o[i + m]}
<1>0. n \in Nat  OBVIOUS
<1>1. 0 \in B
  <2>. i + 0 = i /\ o[i] \in Nat  BY SumasDe
  <2>. QED  OBVIOUS
<1>2. ASSUME NEW m \in Nat, m \in B PROVE m + 1 \in B
  <2>1. SUFFICES ASSUME i + (m + 1) <= n PROVE o[i] <= o[i + (m + 1)]  OBVIOUS
  <2>2. i + m \in 0 .. n /\ i + (m + 1) \in 1 .. n /\ (i + (m + 1)) - 1 = i + m
    BY <1>0, <2>1
  <2>3. largo[i + (m + 1)] \in Nat /\ o[i] \in Nat /\ o[i + m] \in Nat
        /\ o[i + (m + 1)] = o[i + m] + largo[i + (m + 1)]
    BY <2>2, SumasDe
  <2>. QED  BY <1>2, <2>2, <2>3
<1>3. Nat \subseteq B
  <2>. HIDE DEF B
  <2>. QED  BY <1>1, <1>2, Induccion
<1>4. j - i \in Nat /\ i + (j - i) = j  BY <1>0
<1>. QED  BY <1>0, <1>3, <1>4

\* What is before a sum is in one of the lengths.
LEMMA SumasCubren ==
    ASSUME NEW largo \in Seq(Nat), NEW o, Sumas(o, largo),
           NEW k \in 1 .. o[Len(largo)]
    PROVE  \E i \in 1 .. Len(largo) : \E j \in 1 .. largo[i] : k = o[i - 1] + j
<1> DEFINE n == Len(largo)
           B == {i \in 0 .. n : k <= o[i]}
<1>0. n \in Nat /\ o[n] \in Nat /\ k \in Nat /\ 1 <= k /\ k <= o[n]  BY DEF Sumas
<1>1. PICK i \in B : \A y \in B : i <= y
  <2>1. n \in B /\ B \subseteq Nat  BY <1>0
  <2>. QED  BY <2>1, MenorNat
<1>2. i # 0  BY <1>0, <1>1 DEF Sumas
<1>3. i \in 1 .. n /\ i - 1 \in 0 .. n /\ ~ i <= i - 1  BY <1>0, <1>1, <1>2
<1>4. ~ k <= o[i - 1]  BY <1>1, <1>3
<1>5. o[i - 1] \in Nat /\ largo[i] \in Nat /\ o[i] = o[i - 1] + largo[i] /\ k <= o[i]
  BY <1>1, <1>3, SumasDe
<1>6. k - o[i - 1] \in 1 .. largo[i] /\ k = o[i - 1] + (k - o[i - 1])  BY <1>0, <1>4, <1>5
<1>. QED  BY <1>3, <1>6

-----------------------------------------------------------------------------
(* FlattenSeq: sequences one after another.                                 *)

\* The lengths of sequences.
Largos(s) == [i \in 1 .. Len(s) |-> Len(s[i])]

LEMMA LargosTipo ==
    ASSUME NEW S, NEW s \in Seq(Seq(S))
    PROVE  /\ Largos(s) \in Seq(Nat) /\ Len(Largos(s)) = Len(s) /\ Len(s) \in Nat
           /\ \A i \in 1 .. Len(s) : /\ s[i] \in Seq(S) /\ Largos(s)[i] = Len(s[i])
                                     /\ Len(s[i]) \in Nat
<1>1. Len(s) \in Nat /\ \A i \in 1 .. Len(s) : s[i] \in Seq(S)  OBVIOUS
<1>2. \A i \in 1 .. Len(s) : Len(s[i]) \in Nat  BY <1>1
<1>. QED  BY <1>1, <1>2 DEF Largos

\* f[i] is what the first i sequences make.
Pegados(s, m, f, S) ==
    /\ f \in [1 .. m -> Seq(S)]
    /\ \A i \in 1 .. m : f[i] = IF i = 1 THEN s[i] ELSE f[i - 1] \o s[i]

\* The recursion of FlattenSeq has a value.
LEMMA PegadosHay ==
    ASSUME NEW S, NEW s \in Seq(Seq(S)), Len(s) # 0
    PROVE  \E f : Pegados(s, Len(s), f, S) /\ FlattenSeq(s) = f[Len(s)]
<1> DEFINE n == Len(s)
           B == {m \in Nat : m <= n => \E f : Pegados(s, m, f, S)}
           F(g) == [i \in 1 .. n |-> IF i = 1 THEN s[i] ELSE g[i - 1] \o s[i]]
<1>0. n \in Nat \ {0} /\ \A i \in 1 .. n : s[i] \in Seq(S)  BY LargosTipo
<1>1. 0 \in B
  <2>1. Pegados(s, 0, [i \in 1 .. 0 |-> <<>>], S)  BY DEF Pegados
  <2>. QED  BY <2>1
<1>2. ASSUME NEW m \in Nat, m \in B PROVE m + 1 \in B
  <2>1. SUFFICES ASSUME m + 1 <= n PROVE \E f : Pegados(s, m + 1, f, S)  OBVIOUS
  <2>2. PICK f : Pegados(s, m, f, S)  BY <1>0, <1>2, <2>1
  <2> DEFINE ultima == IF m = 0 THEN s[1] ELSE f[m] \o s[m + 1]
             q == [i \in 1 .. m + 1 |-> IF i <= m THEN f[i] ELSE ultima]
  <2>3. ultima \in Seq(S)
    <3>1. s[m + 1] \in Seq(S) /\ s[1] \in Seq(S)  BY <1>0, <2>1
    <3>2. m # 0 => f[m] \in Seq(S)  BY <2>2 DEF Pegados
    <3>. QED  BY <3>1, <3>2, ConcatProperties
  <2>. HIDE DEF ultima
  <2>4. q \in [1 .. m + 1 -> Seq(S)]
    <3>1. f \in [1 .. m -> Seq(S)]  BY <2>2 DEF Pegados
    <3>2. ASSUME NEW i \in 1 .. m + 1 PROVE (IF i <= m THEN f[i] ELSE ultima) \in Seq(S)
      BY <2>3, <3>1
    <3>. QED  BY <3>2
  <2>5. ASSUME NEW i \in 1 .. m + 1
        PROVE  q[i] = IF i = 1 THEN s[i] ELSE q[i - 1] \o s[i]
    <3>1. CASE i <= m
      <4>1. i # 1 => q[i - 1] = f[i - 1]  BY <3>1
      <4>2. i \in 1 .. m /\ q[i] = f[i]  BY <3>1
      <4>3. f[i] = IF i = 1 THEN s[i] ELSE f[i - 1] \o s[i]  BY <2>2, <4>2 DEF Pegados
      <4>. HIDE DEF q
      <4>. QED  BY <4>1, <4>2, <4>3
    <3>2. CASE i = m + 1
      <4>1. i # 1 => q[i - 1] = f[i - 1]  BY <3>2
      <4>. QED  BY <3>2, <4>1 DEF ultima
    <3>. QED  BY <3>1, <3>2
  <2>6. Pegados(s, m + 1, q, S)
    <3>. HIDE DEF q
    <3>. QED  BY <2>4, <2>5 DEF Pegados
  <2>. QED  BY <2>6
<1>3. n \in B
  <2>. HIDE DEF B
  <2>. QED  BY <1>0, <1>1, <1>2, Induccion
<1>4. PICK f : Pegados(s, n, f, S)  BY <1>0, <1>3
<1>5. f = F(f)  BY <1>4 DEF Pegados
<1> DEFINE g == CHOOSE h : h = F(h)
<1>6. g = F(g)  BY <1>5
<1>7. FlattenSeq(s) = g[n]  BY <1>0 DEF FlattenSeq
<1> DEFINE C == {m \in Nat : m + 1 <= n => g[m + 1] = f[m + 1]}
<1>. HIDE DEF g
<1>. HIDE DEF F
<1>8. 0 \in C
  <2>1. 0 + 1 = 1 /\ 1 \in 1 .. n  BY <1>0
  <2>2. \A h : F(h)[1] = s[1]  BY <2>1 DEF F
  <2>. QED  BY <1>5, <1>6, <2>1, <2>2
<1>9. ASSUME NEW m \in Nat, m \in C PROVE m + 1 \in C
  <2>1. SUFFICES ASSUME (m + 1) + 1 <= n PROVE g[(m + 1) + 1] = f[(m + 1) + 1]  OBVIOUS
  <2>2. (m + 1) + 1 \in 1 .. n /\ (m + 1) + 1 # 1 /\ ((m + 1) + 1) - 1 = m + 1 /\ m + 1 <= n
    BY <1>0, <2>1
  <2>3. g[m + 1] = f[m + 1]  BY <1>9, <2>2
  <2>4. \A h : F(h)[(m + 1) + 1] = h[m + 1] \o s[(m + 1) + 1]  BY <2>2 DEF F
  <2>. QED  BY <1>5, <1>6, <2>3, <2>4
<1>10. Nat \subseteq C
  <2>. HIDE DEF C
  <2>. QED  BY <1>8, <1>9, Induccion
<1>11. g[n] = f[n]
  <2>. HIDE DEF n
  <2>1. n - 1 \in Nat /\ (n - 1) + 1 = n /\ (n - 1) + 1 <= n  BY <1>0
  <2>2. n - 1 \in C  BY <1>10, <2>1
  <2>. QED  BY <2>1, <2>2
<1>. QED  BY <1>4, <1>7, <1>11

\* One sequence after another.
LEMMA Junto ==
    ASSUME NEW S, NEW a \in Seq(S), NEW b \in Seq(S)
    PROVE  /\ a \o b \in Seq(S) /\ Len(a) \in Nat /\ Len(b) \in Nat
           /\ Len(a \o b) = Len(a) + Len(b)
           /\ \A i \in 1 .. Len(a) : (a \o b)[i] = a[i]
           /\ \A i \in 1 .. Len(b) : (a \o b)[Len(a) + i] = b[i]
<1>1. Len(a) \in Nat /\ Len(b) \in Nat  OBVIOUS
<1>2. /\ a \o b \in Seq(S) /\ Len(a \o b) = Len(a) + Len(b)
      /\ \A i \in 1 .. Len(a) + Len(b) :
            (a \o b)[i] = IF i <= Len(a) THEN a[i] ELSE b[i - Len(a)]
  BY ConcatProperties
<1>3. ASSUME NEW i \in 1 .. Len(b) PROVE (a \o b)[Len(a) + i] = b[i]
  <2>1. Len(a) + i \in 1 .. Len(a) + Len(b) /\ ~ Len(a) + i <= Len(a)
        /\ (Len(a) + i) - Len(a) = i
    BY <1>1
  <2>. QED  BY <1>2, <2>1
<1>4. ASSUME NEW i \in 1 .. Len(a) PROVE (a \o b)[i] = a[i]
  <2>1. i \in 1 .. Len(a) + Len(b) /\ i <= Len(a)  BY <1>1
  <2>. QED  BY <1>2, <2>1
<1>. QED  BY <1>1, <1>2, <1>3, <1>4

LEMMA JuntoNat ==
    ASSUME NEW a, NEW b, a \in Seq(Nat), b \in Seq(Nat)
    PROVE  /\ a \o b \in Seq(Nat) /\ Len(a) \in Nat /\ Len(b) \in Nat
           /\ Len(a \o b) = Len(a) + Len(b)
           /\ \A i \in 1 .. Len(a) : (a \o b)[i] = a[i]
           /\ \A i \in 1 .. Len(b) : (a \o b)[Len(a) + i] = b[i]
<1> DEFINE S == Nat
<1>1. a \in Seq(S) /\ b \in Seq(S)  OBVIOUS
<1>2. /\ a \o b \in Seq(S) /\ Len(a) \in Nat /\ Len(b) \in Nat
      /\ Len(a \o b) = Len(a) + Len(b)
      /\ \A i \in 1 .. Len(a) : (a \o b)[i] = a[i]
      /\ \A i \in 1 .. Len(b) : (a \o b)[Len(a) + i] = b[i]
  <2>. HIDE DEF S
  <2>. QED  BY ONLY <1>1, Junto
<1>. QED  BY <1>2

\* What FlattenSeq makes: sequence i begins after the first i - 1.
LEMMA Aplanado ==
    ASSUME NEW S, NEW s \in Seq(Seq(S)), NEW o, Sumas(o, Largos(s))
    PROVE  /\ FlattenSeq(s) \in Seq(S) /\ Len(FlattenSeq(s)) = o[Len(s)]
           /\ \A i \in 1 .. Len(s) : \A j \in 1 .. Len(s[i]) :
                  FlattenSeq(s)[o[i - 1] + j] = s[i][j]
<1> DEFINE n == Len(s)
<1>0. n \in Nat /\ \A i \in 1 .. n : s[i] \in Seq(S) /\ Len(s[i]) \in Nat  BY LargosTipo
<1>1. /\ o[0] = 0 /\ \A i \in 0 .. n : o[i] \in Nat
      /\ \A i \in 1 .. n : i - 1 \in 0 .. n /\ o[i - 1] \in Nat /\ o[i] = o[i - 1] + Len(s[i])
  BY LargosTipo, SumasDe
<1>2. CASE n = 0
  <2>1. s = <<>>  BY <1>2, EmptySeq
  <2>2. FlattenSeq(s) = <<>>  BY <1>2, <2>1 DEF FlattenSeq
  <2>3. FlattenSeq(s) \in Seq(S) /\ Len(FlattenSeq(s)) = 0  BY <2>2
  <2>. QED  BY <1>1, <1>2, <2>3
<1>3. CASE n # 0
  <2>1. PICK f : Pegados(s, n, f, S) /\ FlattenSeq(s) = f[n]  BY <1>3, PegadosHay
  <2> DEFINE Bien(m) == /\ Len(f[m]) = o[m]
                        /\ \A i \in 1 .. m : \A j \in 1 .. Len(s[i]) : f[m][o[i - 1] + j] = s[i][j]
             B == {m \in Nat : m + 1 <= n => Bien(m + 1)}
  <2>2. \A m \in 1 .. n : f[m] \in Seq(S) /\ f[m] = IF m = 1 THEN s[1] ELSE f[m - 1] \o s[m]
    BY <1>0, <2>1 DEF Pegados
  <2>3. 0 \in B
    <3>1. SUFFICES ASSUME 1 <= n PROVE Bien(1)
      <4>. HIDE DEF Bien
      <4>. QED  OBVIOUS
    <3>2. 1 \in 1 .. n /\ 1 - 1 = 0  BY <1>0, <3>1
    <3>3. f[1] = s[1] /\ o[1] = Len(s[1]) /\ Len(s[1]) \in Nat  BY <1>0, <1>1, <2>2, <3>2
    <3>4. ASSUME NEW i \in 1 .. 1, NEW j \in 1 .. Len(s[i]) PROVE f[1][o[i - 1] + j] = s[i][j]
      BY <1>1, <3>2, <3>3
    <3>. QED  BY <3>3, <3>4
  <2>4. ASSUME NEW m \in Nat, m \in B PROVE m + 1 \in B
    <3> DEFINE k == m + 1
    <3>1. SUFFICES ASSUME k + 1 <= n PROVE Bien(k + 1)
      <4>. HIDE DEF Bien
      <4>. QED  OBVIOUS
    <3>2. k \in 1 .. n /\ k + 1 \in 1 .. n /\ k + 1 # 1 /\ (k + 1) - 1 = k  BY <1>0, <3>1
    <3>3. Bien(k)
      <4>. HIDE DEF Bien
      <4>. QED  BY <2>4, <3>2
    <3>. HIDE DEF k
    <3>4. f[k] \in Seq(S) /\ s[k + 1] \in Seq(S) /\ f[k + 1] = f[k] \o s[k + 1]
      BY <1>0, <2>2, <3>2
    <3>5. /\ Len(f[k + 1]) = Len(f[k]) + Len(s[k + 1])
          /\ \A x \in 1 .. Len(f[k]) : f[k + 1][x] = f[k][x]
          /\ \A x \in 1 .. Len(s[k + 1]) : f[k + 1][Len(f[k]) + x] = s[k + 1][x]
      <4> DEFINE a == f[k]
                 b == s[k + 1]
      <4>1. a \in Seq(S) /\ b \in Seq(S) /\ f[k + 1] = a \o b  BY <3>4
      <4>. HIDE DEF a, b
      <4>2. /\ Len(a \o b) = Len(a) + Len(b)
            /\ \A x \in 1 .. Len(a) : (a \o b)[x] = a[x]
            /\ \A x \in 1 .. Len(b) : (a \o b)[Len(a) + x] = b[x]
        BY <4>1, Junto
      <4>. QED  BY <4>1, <4>2 DEF a, b
    <3>6. o[k] \in Nat /\ o[k + 1] = o[k] + Len(s[k + 1]) /\ Len(s[k + 1]) \in Nat
      BY <1>0, <1>1, <3>2
    <3>7. Len(f[k + 1]) = o[k + 1]  BY <3>3, <3>5, <3>6
    <3>8. ASSUME NEW i \in 1 .. k + 1, NEW j \in 1 .. Len(s[i])
          PROVE  f[k + 1][o[i - 1] + j] = s[i][j]
      <4>1. CASE i = k + 1
        <5>1. i - 1 = k /\ Len(f[k]) = o[k] /\ j \in 1 .. Len(s[k + 1])  BY <3>2, <3>3, <4>1
        <5>. QED  BY <3>5, <4>1, <5>1
      <4>2. CASE i # k + 1
        <5>1. i \in 1 .. k /\ i \in 1 .. n /\ k \in 0 .. n /\ k \in i .. n  BY <1>0, <3>2, <4>2
        <5>2. f[k][o[i - 1] + j] = s[i][j]  BY <3>3, <5>1
        <5>3. o[i] <= o[k]  BY <5>1, SumasCrecen, LargosTipo
        <5>4. o[i - 1] \in Nat /\ o[i] = o[i - 1] + Len(s[i]) /\ Len(s[i]) \in Nat  BY <1>0, <1>1, <5>1
        <5>5. o[i - 1] + j \in 1 .. o[k]
          <6>. HIDE DEF n, Bien, B
          <6>. QED  BY <3>6, <5>3, <5>4
        <5>. QED  BY <3>3, <3>5, <5>2, <5>5
      <4>. QED  BY <4>1, <4>2
    <3>. QED  BY <3>7, <3>8
  <2>5. Nat \subseteq B
    <3>. HIDE DEF B
    <3>. QED  BY <2>3, <2>4, Induccion
  <2>6. Bien(n)
    <3>. HIDE DEF n, Bien
    <3>1. n - 1 \in Nat /\ (n - 1) + 1 = n /\ (n - 1) + 1 <= n  BY <1>0, <1>3
    <3>2. n - 1 \in B  BY <2>5, <3>1
    <3>. QED  BY <3>1, <3>2
  <2>7. n \in 1 .. n  BY <1>0, <1>3
  <2>. QED  BY <2>1, <2>2, <2>6, <2>7
<1>. QED  BY <1>2, <1>3

-----------------------------------------------------------------------------
(* The space of the instructions.                                           *)

\* What each instruction takes in a stream.
Tamanos(I) == [i \in 1 .. Len(I) |-> 1 + 4 * Len(I[i].parametros)]

\* A set of the first k numbers has its greatest.
LEMMA MaximoDe ==
    ASSUME NEW k \in Nat, NEW s \in SUBSET (1 .. k), s # {}
    PROVE  Max(s) \in s /\ \A y \in s : y <= Max(s)
<1> DEFINE T == {k - x : x \in s}
<1>1. T \subseteq Nat /\ T # {}
  <2>1. \A x \in s : x \in Nat /\ x <= k  OBVIOUS
  <2>2. \A x \in s : k - x \in Nat  BY <2>1
  <2>. QED  BY <2>2
<1>2. PICK t \in T : \A y \in T : t <= y  BY <1>1, MenorNat
<1>3. PICK x \in s : t = k - x  BY <1>2
<1>4. \A y \in s : x >= y
  <2>1. TAKE y \in s
  <2>2. k - y \in T /\ x \in Nat /\ y \in Nat  OBVIOUS
  <2>. QED  BY <1>2, <1>3, <2>2
<1>5. Max(s) \in s /\ \A y \in s : Max(s) >= y
  <2>1. \E z \in s : \A y \in s : z >= y  BY <1>4
  <2>. QED  BY <2>1 DEF Max
<1>6. s \subseteq Nat  OBVIOUS
<1>. QED  BY <1>5, <1>6

LEMMA MaximoEs ==
    ASSUME NEW k \in Nat, NEW s \in SUBSET (1 .. k), NEW x \in s, \A y \in s : y <= x
    PROVE  Max(s) = x
<1>1. Max(s) \in s /\ x <= Max(s)  BY MaximoDe
<1>2. Max(s) <= x /\ Max(s) \in Nat /\ x \in Nat
  <2>1. \A y \in s : y \in Nat  OBVIOUS
  <2>. QED  BY <1>1, <2>1
<1>. QED  BY <1>1, <1>2

\* it adds up a set of instructions, the last of them last.
Suma(I, it, S) ==
    \A s \in S : it[s] = IF s = {} THEN 4
                         ELSE it[s \ {Max(s)}] + 1 + 4 * Len(I[Max(s)].parametros)

\* The recursion of the fold has a value.
LEMMA SumaHay ==
    ASSUME NEW I, NEW n \in Nat
    PROVE  \E it : it = [s \in SUBSET (1 .. n) |->
                            IF s = {} THEN 4
                            ELSE it[s \ {Max(s)}] + 1 + 4 * Len(I[Max(s)].parametros)]
<1> DEFINE Es(m, it) == it = [s \in SUBSET (1 .. m) |-> it[s]] /\ Suma(I, it, SUBSET (1 .. m))
           B == {m \in Nat : \E it : Es(m, it)}
<1>1. 0 \in B
  <2> DEFINE it == [s \in SUBSET (1 .. 0) |-> 4]
  <2>1. \A s \in SUBSET (1 .. 0) : s = {} /\ it[s] = 4  OBVIOUS
  <2>2. it = [s \in SUBSET (1 .. 0) |-> it[s]]  OBVIOUS
  <2>3. Es(0, it)
    <3>. HIDE DEF it
    <3>. QED  BY <2>1, <2>2 DEF Suma
  <2>. QED  BY <2>3
<1>2. ASSUME NEW m \in Nat, m \in B PROVE m + 1 \in B
  <2>1. PICK it : Es(m, it)  BY <1>2
  <2> DEFINE q == [s \in SUBSET (1 .. m + 1) |->
                      IF s \subseteq 1 .. m THEN it[s]
                      ELSE it[s \ {m + 1}] + 1 + 4 * Len(I[m + 1].parametros)]
  <2>2. \A s \in SUBSET (1 .. m + 1) :
            q[s] = IF s \subseteq 1 .. m THEN it[s]
                   ELSE it[s \ {m + 1}] + 1 + 4 * Len(I[m + 1].parametros)
    OBVIOUS
  <2>3. q = [s \in SUBSET (1 .. m + 1) |-> q[s]]  OBVIOUS
  <2>. HIDE DEF q
  <2>4. ASSUME NEW s \in SUBSET (1 .. m + 1)
        PROVE  q[s] = IF s = {} THEN 4
                      ELSE q[s \ {Max(s)}] + 1 + 4 * Len(I[Max(s)].parametros)
    <3>1. CASE s \subseteq 1 .. m
      <4>1. s \ {Max(s)} \in SUBSET (1 .. m + 1) /\ s \ {Max(s)} \subseteq 1 .. m
        BY <3>1
      <4>2. q[s] = it[s] /\ q[s \ {Max(s)}] = it[s \ {Max(s)}]  BY <2>2, <3>1, <4>1
      <4>. QED  BY <2>1, <3>1, <4>2 DEF Suma
    <3>2. CASE ~ s \subseteq 1 .. m
      <4>1. m + 1 \in s /\ s # {}  BY <3>2
      <4>2. Max(s) = m + 1
        <5>1. m + 1 \in Nat /\ \A y \in s : y <= m + 1  OBVIOUS
        <5>. QED  BY <4>1, <5>1, MaximoEs
      <4>3. s \ {m + 1} \in SUBSET (1 .. m + 1) /\ s \ {m + 1} \subseteq 1 .. m  OBVIOUS
      <4>4. q[s \ {m + 1}] = it[s \ {m + 1}]  BY <2>2, <4>3
      <4>5. q[s] = it[s \ {m + 1}] + 1 + 4 * Len(I[m + 1].parametros)  BY <2>2, <3>2
      <4>. QED  BY <4>1, <4>2, <4>4, <4>5
    <3>. QED  BY <3>1, <3>2
  <2>5. Es(m + 1, q)  BY <2>3, <2>4 DEF Suma
  <2>. QED  BY <2>5
<1>3. n \in B
  <2>. HIDE DEF B
  <2>. QED  BY <1>1, <1>2, Induccion
<1>4. PICK it : Es(n, it)  BY <1>3
<1>. QED  BY <1>4 DEF Suma

\* calcular_espacio_instrucciones counts the bytes of each.
LEMMA Espacio ==
    ASSUME NEW I, NEW n \in Nat, Len(I) = n, DOMAIN I = 1 .. n,
           \A i \in 1 .. n : Len(I[i].parametros) \in Nat, NEW o, Sumas(o, Tamanos(I))
    PROVE  calcular_espacio_instrucciones(I) = 4 + o[n]
<1>0. Tamanos(I) \in Seq(Nat)  BY DEF Tamanos
<1> DEFINE G(it) == [s \in SUBSET (1 .. n) |->
                        IF s = {} THEN 4
                        ELSE it[s \ {Max(s)}] + 1 + 4 * Len(I[Max(s)].parametros)]
           g == CHOOSE it : it = G(it)
<1>1. g = G(g)  BY SumaHay
<1>2. calcular_espacio_instrucciones(I) = g[1 .. n]
  BY DEF calcular_espacio_instrucciones, FoldLeft, MapThenFoldSet
<1>. HIDE DEF g
<1>3. \A s \in SUBSET (1 .. n) : g[s] = IF s = {} THEN 4
              ELSE g[s \ {Max(s)}] + 1 + 4 * Len(I[Max(s)].parametros)
  BY <1>1
<1> DEFINE B == {m \in Nat : m <= n => g[1 .. m] = 4 + o[m]}
<1>4. Len(Tamanos(I)) = n  BY DEF Tamanos
<1>5. 0 \in B
  <2>1. 1 .. 0 = {} /\ {} \in SUBSET (1 .. n)  OBVIOUS
  <2>2. o[0] = 0  BY <1>0, SumasDe
  <2>3. g[{}] = 4  BY <1>3, <2>1
  <2>4. g[1 .. 0] = 4  BY <2>1, <2>3
  <2>. HIDE DEF g
  <2>. QED  BY <2>2, <2>4
<1>6. ASSUME NEW m \in Nat, m \in B PROVE m + 1 \in B
  <2>1. SUFFICES ASSUME m + 1 <= n PROVE g[1 .. m + 1] = 4 + o[m + 1]  OBVIOUS
  <2> DEFINE s == 1 .. m + 1
  <2>2. s \in SUBSET (1 .. n) /\ m + 1 \in s /\ m + 1 \in 1 .. n /\ (m + 1) - 1 = m  BY <2>1
  <2>3. s \ {m + 1} = 1 .. m  OBVIOUS
  <2>4. Max(s) = m + 1
    <3>1. m + 1 \in Nat /\ s \in SUBSET (1 .. m + 1) /\ \A y \in s : y <= m + 1  OBVIOUS
    <3>. HIDE DEF s
    <3>. QED  BY <2>2, <3>1, MaximoEs
  <2>. HIDE DEF s
  <2>5. g[s] = g[1 .. m] + 1 + 4 * Len(I[m + 1].parametros)  BY <1>3, <2>2, <2>3, <2>4
  <2>6. Tamanos(I)[m + 1] = 1 + 4 * Len(I[m + 1].parametros)  BY <2>2 DEF Tamanos
  <2>7. o[m + 1] = o[m] + Tamanos(I)[m + 1] /\ o[m] \in Nat /\ Tamanos(I)[m + 1] \in Nat
    <3>1. \A i \in 1 .. n : /\ o[i - 1] \in Nat /\ Tamanos(I)[i] \in Nat
                           /\ o[i] = o[i - 1] + Tamanos(I)[i]
      BY <1>0, <1>4, SumasDe
    <3>. HIDE DEF G, B
    <3>. QED  BY <2>2, <3>1
  <2>8. g[1 .. m] = 4 + o[m]  BY <1>6, <2>1
  <2>9. Len(I[m + 1].parametros) \in Nat  BY <2>2
  <2>10. g[s] = 4 + o[m + 1]
    <3> DEFINE L == Len(I[m + 1].parametros)
               v == g[1 .. m]
               w == g[s]
               t == Tamanos(I)[m + 1]
    <3>1. /\ w = v + 1 + 4 * L /\ t = 1 + 4 * L /\ o[m + 1] = o[m] + t
          /\ v = 4 + o[m] /\ o[m] \in Nat /\ L \in Nat
      BY <2>5, <2>6, <2>7, <2>8, <2>9
    <3>. HIDE DEF L, v, w, t, G, B
    <3>2. w = 4 + o[m + 1]  BY <3>1
    <3>. QED  BY <3>2 DEF w
  <2>. QED  BY <2>10 DEF s
<1>7. n \in B
  <2>. HIDE DEF B
  <2>. QED  BY <1>5, <1>6, Induccion
<1>. QED  BY <1>2, <1>7

-----------------------------------------------------------------------------
(* Numbers in four bytes.                                                   *)

\* A uint32_t is read as it was written.
LEMMA Uint32 ==
    ASSUME NEW n \in Nat
    PROVE  /\ uint32(n) \in Seq(Nat) /\ Len(uint32(n)) = 4
           /\ \A s, i : (\A j \in 1 .. 4 : s[i + j - 1] = uint32(n)[j]) /\ i \in Nat
                  => Valor(s, i) = n
<1> DEFINE b1 == n % 256
           b2 == (n \div 256) % 256
           b3 == (n \div 65536) % 256
           b4 == n \div 16777216
<1>1. b1 \in Nat /\ b2 \in Nat /\ b3 \in Nat /\ b4 \in Nat  BY SMT
<1>2. b1 + 256 * b2 + 65536 * b3 + 16777216 * b4 = n  BY SMT
<1>3. uint32(n) = <<b1, b2, b3, b4>>  BY DEF uint32
<1>. HIDE DEF b1, b2, b3, b4
<1>4. uint32(n) \in Seq(Nat) /\ Len(uint32(n)) = 4  BY <1>1, <1>3
<1>5. ASSUME NEW s, NEW i \in Nat, \A j \in 1 .. 4 : s[i + j - 1] = uint32(n)[j]
      PROVE  Valor(s, i) = n
  <2>1. /\ s[i + 1 - 1] = b1 /\ s[i + 2 - 1] = b2 /\ s[i + 3 - 1] = b3 /\ s[i + 4 - 1] = b4
    BY <1>3, <1>5
  <2>2. /\ i + 1 - 1 = i /\ i + 2 - 1 = i + 1 /\ i + 3 - 1 = i + 2 /\ i + 4 - 1 = i + 3
    OBVIOUS
  <2>3. s[i] = b1 /\ s[i + 1] = b2 /\ s[i + 2] = b3 /\ s[i + 3] = b4  BY <2>1, <2>2
  <2>. QED  BY <1>2, <2>3 DEF Valor
<1>. QED  BY <1>4, <1>5

LEMMA BytesDeUint32 ==
    ASSUME NEW n \in Numero
    PROVE  uint32(n) \in Seq(Byte)
<1>0. n \in Nat /\ n \div 16777216 \in 0 .. 255  BY SMT DEF Numero, Byte
<1>1. n % 256 \in 0 .. 255  BY <1>0, SMT
<1>2. (n \div 256) % 256 \in 0 .. 255  BY <1>0, SMT
<1>3. (n \div 65536) % 256 \in 0 .. 255  BY <1>0, SMT
<1>. QED  BY <1>0, <1>1, <1>2, <1>3 DEF uint32, Byte

\* Four bytes make a number.
LEMMA ValorDeBytes ==
    ASSUME NEW s, NEW i \in Nat, \A j \in i .. i + 3 : s[j] \in Byte
    PROVE  Valor(s, i) \in Nat
<1>1. s[i] \in 0 .. 255 /\ s[i + 1] \in 0 .. 255 /\ s[i + 2] \in 0 .. 255 /\ s[i + 3] \in 0 .. 255
  BY DEF Byte
<1> DEFINE b1 == s[i]
           b2 == s[i + 1]
           b3 == s[i + 2]
           b4 == s[i + 3]
<1>2. b1 \in Nat /\ b2 \in Nat /\ b3 \in Nat /\ b4 \in Nat  BY <1>1
<1>3. Valor(s, i) = b1 + 256 * b2 + 65536 * b3 + 16777216 * b4  BY DEF Valor
<1>. HIDE DEF b1, b2, b3, b4
<1>. QED  BY <1>2, <1>3, SMT

\* A list of numbers in a stream.
LEMMA DeUint32Bien ==
    ASSUME NEW T, T \subseteq Nat, NEW numeros \in Seq(T),
           NEW S, \A n \in T : uint32(n) \in Seq(S)
    PROVE  /\ DeUint32(numeros) \in Seq(S)
           /\ Len(DeUint32(numeros)) = 4 * Len(numeros)
           /\ \A k \in 1 .. Len(numeros) : \A j \in 1 .. 4 :
                  DeUint32(numeros)[4 * (k - 1) + j] = uint32(numeros[k])[j]
<1> DEFINE n == Len(numeros)
           s == [i \in 1 .. n |-> uint32(numeros[i])]
           o == [i \in 0 .. n |-> 4 * i]
<1>1. n \in Nat /\ DOMAIN numeros = 1 .. n /\ \A i \in 1 .. n : numeros[i] \in T  OBVIOUS
<1>2. DeUint32(numeros) = FlattenSeq(s)  BY <1>1 DEF DeUint32
<1>3. \A i \in 1 .. n : s[i] \in Seq(S) /\ s[i] = uint32(numeros[i]) /\ Len(s[i]) = 4
  BY <1>1, Uint32
<1>4. s \in Seq(Seq(S)) /\ Len(s) = n  BY <1>1, <1>3
<1>5. Sumas(o, Largos(s))
  <2>1. Len(Largos(s)) = n /\ \A i \in 1 .. n : Largos(s)[i] = 4
    BY <1>1, <1>3, <1>4 DEF Largos
  <2>2. \A i \in 1 .. n : o[i] = o[i - 1] + 4  BY <1>1
  <2>3. o[0] = 0 /\ o \in [0 .. n -> Nat]  BY <1>1
  <2>. QED  BY <2>1, <2>2, <2>3 DEF Sumas
<1>. HIDE DEF s, o
<1>6. /\ FlattenSeq(s) \in Seq(S) /\ Len(FlattenSeq(s)) = o[n]
      /\ \A i \in 1 .. n : \A j \in 1 .. Len(s[i]) : FlattenSeq(s)[o[i - 1] + j] = s[i][j]
  BY <1>4, <1>5, Aplanado
<1>7. o[n] = 4 * n /\ \A i \in 1 .. n : o[i - 1] = 4 * (i - 1)  BY <1>1 DEF o
<1>. QED  BY <1>2, <1>3, <1>6, <1>7

-----------------------------------------------------------------------------
(* The stream of the instructions.                                          *)

\* Instructions with parameters in T.
Instrucciones(T) == Seq([id : Byte, parametros : Seq(T)])

LEMMA TamanosTipo ==
    ASSUME NEW T, NEW I \in Instrucciones(T)
    PROVE  /\ Len(I) \in Nat /\ DOMAIN I = 1 .. Len(I)
           /\ \A i \in 1 .. Len(I) : /\ I[i].id \in Byte /\ I[i].parametros \in Seq(T)
                                     /\ Len(I[i].parametros) \in Nat
                                     /\ Tamanos(I)[i] = 1 + 4 * Len(I[i].parametros)
           /\ Tamanos(I) \in Seq(Nat) /\ Len(Tamanos(I)) = Len(I)
<1> DEFINE R == [id : Byte, parametros : Seq(T)]
<1>1. /\ Len(I) \in Nat /\ DOMAIN I = 1 .. Len(I)
      /\ \A i \in 1 .. Len(I) : I[i] \in R
  <2>1. I \in Seq(R)  BY DEF Instrucciones
  <2>. HIDE DEF R
  <2>. QED  BY <2>1
<1>2. \A i \in 1 .. Len(I) : /\ I[i].id \in Byte /\ I[i].parametros \in Seq(T)
                             /\ Len(I[i].parametros) \in Nat
  BY <1>1
<1>3. \A i \in 1 .. Len(I) : 1 + 4 * Len(I[i].parametros) \in Nat  BY <1>2
<1>. QED  BY <1>1, <1>2, <1>3 DEF Tamanos

\* Where instruction i is in stream A, and its parameters.
EstaEn(A, d, ins) ==
    /\ A[d] = ins.id
    /\ \A k \in 1 .. Len(ins.parametros) : \A j \in 1 .. 4 :
          A[d + 4 * (k - 1) + j] = uint32(ins.parametros[k])[j]

\* The bytes of a number of T are in S.
Cabe(T, S) ==
    /\ T \subseteq Nat /\ Byte \subseteq S /\ S \subseteq Nat
    /\ \A n \in T : uint32(n) \in Seq(S)

Una(id, p) == <<id>> \o DeUint32(p)

\* x is the stream of one instruction: its id and its parameters.
EsUna(x, id, p, S) ==
    /\ x \in Seq(S) /\ Len(x) = 1 + 4 * Len(p) /\ x[1] = id
    /\ \A k \in 1 .. Len(p) : \A j \in 1 .. 4 :
           /\ 1 + 4 * (k - 1) + j \in 1 .. Len(x)
           /\ x[1 + 4 * (k - 1) + j] = uint32(p[k])[j]

LEMMA StreamDeUna ==
    ASSUME NEW T, NEW S, Cabe(T, S),
           NEW id, id \in Byte, NEW p, p \in Seq(T), NEW x, x = Una(id, p)
    PROVE  EsUna(x, id, p, S)
<1> DEFINE m == Len(p)
           u == DeUint32(p)
           c == <<id>>
<1>0. /\ T \subseteq Nat /\ Byte \subseteq S /\ S \subseteq Nat
      /\ \A n \in T : uint32(n) \in Seq(S)
  BY DEF Cabe
<1>1. m \in Nat /\ id \in S  BY <1>0
<1>2. /\ u \in Seq(S) /\ Len(u) = 4 * m
      /\ \A k \in 1 .. m : \A j \in 1 .. 4 : u[4 * (k - 1) + j] = uint32(p[k])[j]
  BY <1>0, DeUint32Bien
<1>3. c \in Seq(S) /\ Len(c) = 1 /\ c[1] = id  BY <1>1
<1>4. x = c \o u  BY DEF Una
<1>. HIDE DEF c, u, m
<1>5. /\ x \in Seq(S) /\ Len(x) = Len(c) + Len(u)
      /\ \A i \in 1 .. Len(c) : x[i] = c[i]
      /\ \A i \in 1 .. Len(u) : x[Len(c) + i] = u[i]
  <2>1. c \in Seq(S) /\ u \in Seq(S)  BY <1>2, <1>3
  <2>2. /\ c \o u \in Seq(S) /\ Len(c \o u) = Len(c) + Len(u)
        /\ \A i \in 1 .. Len(c) : (c \o u)[i] = c[i]
        /\ \A i \in 1 .. Len(u) : (c \o u)[Len(c) + i] = u[i]
    BY ONLY <2>1, Junto
  <2>. QED  BY <2>2, <1>4
<1>6. Len(x) = 1 + 4 * m /\ x[1] = id  BY <1>1, <1>2, <1>3, <1>5
<1>7. ASSUME NEW k \in 1 .. m, NEW j \in 1 .. 4
      PROVE  /\ 1 + 4 * (k - 1) + j \in 1 .. Len(x)
             /\ x[1 + 4 * (k - 1) + j] = uint32(p[k])[j]
  <2>1. 4 * (k - 1) + j \in 1 .. 4 * m /\ 1 + 4 * (k - 1) + j = 1 + (4 * (k - 1) + j)
        /\ 1 + 4 * (k - 1) + j \in 1 .. 1 + 4 * m
    BY <1>1
  <2> DEFINE q == 4 * (k - 1) + j
  <2>2. u[q] = uint32(p[k])[j] /\ q \in 1 .. Len(u)  BY <1>2, <2>1
  <2>. HIDE DEF q
  <2>3. x[1 + q] = u[q]  BY <1>3, <1>5, <2>2
  <2>. QED  BY <1>6, <2>1, <2>2, <2>3 DEF q
<1>. QED  BY <1>5, <1>6, <1>7 DEF m, EsUna

\* armar_stream_instruccion: the number of instructions, and each of them.
LEMMA Armado ==
    ASSUME NEW T, NEW S, Cabe(T, S),
           NEW I \in Instrucciones(T), NEW o, Sumas(o, Tamanos(I)),
           NEW A, A = armar_stream_instruccion(I)
    PROVE  /\ A \in Seq(Nat) /\ Len(A) = 4 + o[Len(I)]
           /\ \A x \in 5 .. Len(A) : A[x] \in S
           /\ \A j \in 1 .. 4 : A[j] = uint32(Len(I))[j]
           /\ \A i \in 1 .. Len(I) : EstaEn(A, 5 + o[i - 1], I[i])
<1> DEFINE n == Len(I)
           U(i) == DeUint32(I[i].parametros)
           s == [i \in 1 .. n |-> <<I[i].id>> \o U(i)]
           N == uint32(n)
           F == FlattenSeq(s)
<1>1. n \in Nat /\ DOMAIN I = 1 .. n /\ Tamanos(I) \in Seq(Nat) /\ Len(Tamanos(I)) = n
      /\ \A i \in 1 .. n : /\ I[i].id \in Byte /\ I[i].parametros \in Seq(T)
                           /\ Len(I[i].parametros) \in Nat
                           /\ Tamanos(I)[i] = 1 + 4 * Len(I[i].parametros)
  BY TamanosTipo
<1>2. A = N \o F  BY <1>1 DEF armar_stream_instruccion
<1>3. ASSUME NEW i \in 1 .. n
      PROVE  /\ s[i] \in Seq(S) /\ Len(s[i]) = 1 + 4 * Len(I[i].parametros)
             /\ s[i][1] = I[i].id
             /\ \A k \in 1 .. Len(I[i].parametros) : \A j \in 1 .. 4 :
                    /\ 1 + 4 * (k - 1) + j \in 1 .. Len(s[i])
                    /\ s[i][1 + 4 * (k - 1) + j] = uint32(I[i].parametros[k])[j]
  <2> DEFINE p == I[i].parametros
             id == I[i].id
             x == s[i]
  <2>1. p \in Seq(T) /\ id \in Byte  BY <1>1
  <2>2. x = Una(id, p)  BY DEF Una
  <2>. HIDE DEF p, id, x
  <2>3. /\ x \in Seq(S) /\ Len(x) = 1 + 4 * Len(p) /\ x[1] = id
        /\ \A k \in 1 .. Len(p) : \A j \in 1 .. 4 :
               /\ 1 + 4 * (k - 1) + j \in 1 .. Len(x)
               /\ x[1 + 4 * (k - 1) + j] = uint32(p[k])[j]
    <3>1. /\ Cabe(T, S) /\ id \in Byte /\ p \in Seq(T) /\ x = Una(id, p)
      BY <2>1, <2>2
    <3>2. EsUna(x, id, p, S)  BY ONLY <3>1, StreamDeUna
    <3>. QED  BY ONLY <3>2 DEF EsUna
  <2>. QED  BY <2>3 DEF p, id, x
<1>4. s \in Seq(Seq(S)) /\ Len(s) = n
  <2>1. \A i \in 1 .. n : s[i] \in Seq(S)  BY <1>3
  <2>2. s = [i \in 1 .. n |-> s[i]]  OBVIOUS
  <2>. HIDE DEF s
  <2>. QED  BY <1>1, <2>1, <2>2
<1>5. Largos(s) = Tamanos(I)
  <2>. HIDE DEF s, U
  <2>. QED  BY <1>3, <1>4 DEF Largos, Tamanos
<1>. HIDE DEF s, U
<1>6. /\ F \in Seq(S) /\ Len(F) = o[n]
      /\ \A i \in 1 .. n : \A j \in 1 .. Len(s[i]) : F[o[i - 1] + j] = s[i][j]
  BY <1>4, <1>5, Aplanado
<1>7. N \in Seq(Nat) /\ Len(N) = 4  BY <1>1, Uint32
<1>. HIDE DEF F, N
<1>. HIDE DEF n
<1>8. /\ A \in Seq(Nat) /\ Len(A) = 4 + o[n] /\ Len(F) \in Nat
      /\ \A j \in 1 .. 4 : A[j] = N[j]
      /\ \A x \in 1 .. Len(F) : A[4 + x] = F[x] /\ F[x] \in S
  <2> DEFINE Z == Nat
  <2>1. F \in Seq(Z) /\ N \in Seq(Z)  BY <1>6, <1>7, SeqMonotonic DEF Cabe
  <2>. HIDE DEF Z
  <2>2. \A x \in 1 .. Len(F) : F[x] \in S  BY <1>6
  <2>3. /\ N \o F \in Seq(Nat) /\ Len(F) \in Nat /\ Len(N \o F) = Len(N) + Len(F)
        /\ \A i \in 1 .. Len(N) : (N \o F)[i] = N[i]
        /\ \A i \in 1 .. Len(F) : (N \o F)[Len(N) + i] = F[i]
    <3>1. /\ N \o F \in Seq(Z) /\ Len(F) \in Nat /\ Len(N \o F) = Len(N) + Len(F)
          /\ \A i \in 1 .. Len(N) : (N \o F)[i] = N[i]
          /\ \A i \in 1 .. Len(F) : (N \o F)[Len(N) + i] = F[i]
      BY ONLY <2>1, Junto
    <3>. QED  BY <3>1 DEF Z
  <2>. QED  BY <1>2, <1>6, <1>7, <2>2, <2>3
<1>9. \A x \in 5 .. Len(A) : A[x] \in S
  <2>1. TAKE x \in 5 .. Len(A)
  <2>2. x - 4 \in 1 .. Len(F) /\ 4 + (x - 4) = x  BY <1>6, <1>8
  <2>. QED  BY <1>8, <2>2
<1>10. ASSUME NEW i \in 1 .. n PROVE EstaEn(A, 5 + o[i - 1], I[i])
  <2>1. /\ o[i - 1] \in Nat /\ o[i] = o[i - 1] + Len(s[i]) /\ o[i] <= Len(F)
        /\ Len(s[i]) \in Nat /\ Len(s[i]) = 1 + 4 * Len(I[i].parametros)
    <3>1. o[i - 1] \in Nat /\ o[i] = o[i - 1] + Tamanos(I)[i]  BY <1>1, SumasDe
    <3>2. o[i] <= o[n]
      <4>1. i \in 0 .. Len(Tamanos(I)) /\ n \in i .. Len(Tamanos(I))  BY <1>1
      <4>. QED  BY <1>1, <4>1, SumasCrecen
    <3>3. Tamanos(I)[i] = Len(s[i]) /\ Len(s[i]) \in Nat  BY <1>1, <1>3
    <3>. QED  BY <1>3, <1>6, <3>1, <3>2, <3>3
  <2>2. ASSUME NEW j \in 1 .. Len(s[i])
        PROVE  A[4 + o[i - 1] + j] = s[i][j]
    <3> DEFINE q == o[i - 1]
               l == Len(s[i])
               f == Len(F)
    <3>0. q \in Nat /\ l \in Nat /\ f \in Nat /\ q + l <= f  BY <1>8, <2>1
    <3>1. o[i - 1] + j \in 1 .. Len(F) /\ 4 + o[i - 1] + j = 4 + (o[i - 1] + j)
      <4>1. j \in 1 .. l  OBVIOUS
      <4>. HIDE DEF q, l, f
      <4>2. q + j \in 1 .. f /\ 4 + q + j = 4 + (q + j)  BY <3>0, <4>1
      <4>. QED  BY <4>2 DEF q, f
    <3>2. F[o[i - 1] + j] = s[i][j]  BY <1>6
    <3>. QED  BY <1>8, <3>1, <3>2
  <2>3. A[5 + o[i - 1]] = I[i].id
    <3>1. 1 \in 1 .. Len(s[i]) /\ 4 + o[i - 1] + 1 = 5 + o[i - 1]  BY <1>1, <2>1
    <3>. QED  BY <1>3, <2>2, <3>1
  <2>4. ASSUME NEW k \in 1 .. Len(I[i].parametros), NEW j \in 1 .. 4
        PROVE  A[5 + o[i - 1] + 4 * (k - 1) + j] = uint32(I[i].parametros[k])[j]
    <3>1. /\ 1 + 4 * (k - 1) + j \in 1 .. Len(s[i])
          /\ s[i][1 + 4 * (k - 1) + j] = uint32(I[i].parametros[k])[j]
      BY <1>3
    <3>2. A[4 + o[i - 1] + (1 + 4 * (k - 1) + j)] = uint32(I[i].parametros[k])[j]
      BY <2>2, <3>1
    <3>3. 4 + o[i - 1] + (1 + 4 * (k - 1) + j) = 5 + o[i - 1] + 4 * (k - 1) + j
      <4> DEFINE q == o[i - 1]
      <4>1. q \in Nat /\ k \in Int  BY <1>1, <2>1
      <4>. HIDE DEF q
      <4>2. 4 + q + (1 + 4 * (k - 1) + j) = 5 + q + 4 * (k - 1) + j  BY <4>1
      <4>. QED  BY <4>2 DEF q
    <3>. QED  BY <3>2, <3>3
  <2>. QED  BY <2>3, <2>4 DEF EstaEn
<1>. QED  BY <1>8, <1>9, <1>10 DEF N, n

-----------------------------------------------------------------------------
(* Reading instructions.                                                    *)

\* g[i] is where deserializar_instrucciones finds instruction i of n.
DesdeDonde(stream, d, n, g) ==
    /\ DOMAIN g = 1 .. n
    /\ \A i \in 1 .. n : g[i] = IF i = 1 THEN d + 4 ELSE Siguiente(stream)[g[i - 1]]

\* The recursion of deserializar_instrucciones has a value.
LEMMA DesdeHay ==
    ASSUME NEW stream, NEW d, NEW n \in Nat, Valor(stream, d) = n
    PROVE  \E g : /\ DesdeDonde(stream, d, n, g)
                  /\ deserializar_instrucciones(stream, d)
                        = [i \in 1 .. n |-> InstruccionEn(stream, g[i])]
<1> DEFINE F(g) == [i \in 1 .. n |-> IF i = 1 THEN d + 4 ELSE Siguiente(stream)[g[i - 1]]]
           Es(m, g) == /\ DOMAIN g = 1 .. m /\ g = [i \in 1 .. m |-> g[i]]
                       /\ \A i \in 1 .. m :
                             g[i] = IF i = 1 THEN d + 4 ELSE Siguiente(stream)[g[i - 1]]
           B == {m \in Nat : \E g : Es(m, g)}
<1>1. 0 \in B
  <2>1. Es(0, [i \in 1 .. 0 |-> 0])  OBVIOUS
  <2>. QED  BY <2>1
<1>2. ASSUME NEW m \in Nat, m \in B PROVE m + 1 \in B
  <2>1. PICK f : Es(m, f)  BY <1>2
  <2> DEFINE ultimo == IF m = 0 THEN d + 4 ELSE Siguiente(stream)[f[m]]
             q == [i \in 1 .. m + 1 |-> IF i <= m THEN f[i] ELSE ultimo]
  <2>2. ASSUME NEW i \in 1 .. m + 1
        PROVE  q[i] = IF i = 1 THEN d + 4 ELSE Siguiente(stream)[q[i - 1]]
    <3>1. CASE i <= m
      <4>1. i # 1 => q[i - 1] = f[i - 1]  BY <3>1
      <4>2. i \in 1 .. m /\ q[i] = f[i]  BY <3>1
      <4>3. f[i] = IF i = 1 THEN d + 4 ELSE Siguiente(stream)[f[i - 1]]  BY <2>1, <4>2
      <4>. HIDE DEF q
      <4>. QED  BY <4>1, <4>2, <4>3
    <3>2. CASE i = m + 1
      <4>1. i # 1 => q[i - 1] = f[m] /\ m # 0  BY <3>2
      <4>2. q[i] = ultimo /\ (i = 1 <=> m = 0)  BY <3>2
      <4>. HIDE DEF q
      <4>. QED  BY <3>2, <4>1, <4>2 DEF ultimo
    <3>. QED  BY <3>1, <3>2
  <2>3. q = [i \in 1 .. m + 1 |-> q[i]] /\ DOMAIN q = 1 .. m + 1  OBVIOUS
  <2>4. PICK z : z = q  OBVIOUS
  <2>5. /\ z = [i \in 1 .. m + 1 |-> z[i]] /\ DOMAIN z = 1 .. m + 1
        /\ \A i \in 1 .. m + 1 : z[i] = IF i = 1 THEN d + 4 ELSE Siguiente(stream)[z[i - 1]]
    <3>. HIDE DEF q
    <3>. QED  BY <2>2, <2>3, <2>4
  <2>6. \E f0 : Es(m + 1, f0)
    <3>. HIDE DEF q, ultimo
    <3>. QED  BY <2>5
  <2>. HIDE DEF Es
  <2>. QED  BY <2>6
<1>3. n \in B
  <2>. HIDE DEF B
  <2>. QED  BY <1>1, <1>2, Induccion
<1>4. PICK h : Es(n, h)  BY <1>3
<1>5. h = F(h)
  <2>1. h = [i \in 1 .. n |-> h[i]]  BY <1>4
  <2>2. \A i \in 1 .. n : h[i] = IF i = 1 THEN d + 4 ELSE Siguiente(stream)[h[i - 1]]
    BY <1>4
  <2>3. [i \in 1 .. n |-> h[i]] = F(h)  BY <2>2
  <2>. QED  BY ONLY <2>1, <2>3
<1> DEFINE g == CHOOSE f : f = F(f)
<1>6. g = F(g)
  <2>. HIDE DEF F
  <2>. QED  BY <1>5
<1>7. deserializar_instrucciones(stream, d)
        = [i \in 1 .. n |-> InstruccionEn(stream, g[i])]
  BY DEF deserializar_instrucciones
<1>. HIDE DEF g
<1>8. DesdeDonde(stream, d, n, g)  BY <1>6 DEF DesdeDonde
<1>. QED  BY <1>7, <1>8

\* An instruction as the code makes it of a stream.
Leida == {ins \in [id : Byte, parametros : Seq(Nat)] :
            Len(ins.parametros) = getCantidadParametros(ins.id)}

LEMMA Parametros ==
    ASSUME NEW id PROVE getCantidadParametros(id) \in {0, 1, 2}
BY DEF getCantidadParametros

\* Bytes make an instruction, whichever they are.
LEMMA UnaLeida ==
    ASSUME NEW s \in Seq(Nat), NEW d \in Nat \ {0}, d + 8 <= Len(s),
           \A x \in d .. d + 8 : s[x] \in Byte
    PROVE  InstruccionEn(s, d) \in Leida /\ Siguiente(s)[d] \in d + 1 .. d + 9
<1> DEFINE c == getCantidadParametros(s[d])
<1>1. c \in {0, 1, 2}  BY Parametros
<1>. HIDE DEF c
<1>2. ASSUME NEW k \in 1 .. c PROVE Valor(s, d + 4 * k - 3) \in Nat
  <2>1. d + 4 * k - 3 \in Nat  BY <1>1
  <2>2. \A j \in d + 4 * k - 3 .. d + 4 * k - 3 + 3 : j \in d .. d + 8  BY <1>1
  <2> DEFINE i == d + 4 * k - 3
  <2>3. i \in Nat /\ \A j \in i .. i + 3 : s[j] \in Byte  BY <2>1, <2>2
  <2>. HIDE DEF i
  <2>4. Valor(s, i) \in Nat  BY <2>3, ValorDeBytes
  <2>. QED  BY <2>4 DEF i
<1> DEFINE p == [k \in 1 .. c |-> Valor(s, d + 4 * k - 3)]
<1>3. p \in Seq(Nat) /\ Len(p) = c  BY <1>1, <1>2
<1>4. s[d] \in Byte /\ d \in DOMAIN s  OBVIOUS
<1>5. InstruccionEn(s, d) = [id |-> s[d], parametros |-> p]  BY DEF InstruccionEn, c
<1>. HIDE DEF p
<1>6. InstruccionEn(s, d) \in Leida  BY <1>3, <1>4, <1>5 DEF Leida, c
<1>7. Siguiente(s)[d] = d + 1 + 4 * c  BY <1>4 DEF Siguiente, c
<1>. QED  BY <1>1, <1>6, <1>7

\* What is read is instructions, as far as there are bytes for them.
LEMMA LeidasTipo ==
    ASSUME NEW s, s \in Seq(Nat), NEW d, d \in Nat \ {0}, NEW n, n \in Nat, Valor(s, d) = n,
           d + 3 + 9 * n <= Len(s), \A x \in d + 4 .. Len(s) : s[x] \in Byte
    PROVE  /\ deserializar_instrucciones(s, d) \in Seq(Leida)
           /\ Len(deserializar_instrucciones(s, d)) = n
<1>1. PICK g : /\ DesdeDonde(s, d, n, g)
               /\ deserializar_instrucciones(s, d) = [i \in 1 .. n |-> InstruccionEn(s, g[i])]
  BY DesdeHay
<1>2. \A i \in 1 .. n : g[i] = IF i = 1 THEN d + 4 ELSE Siguiente(s)[g[i - 1]]
  BY <1>1 DEF DesdeDonde
<1>3. ASSUME NEW i \in 1 .. n, g[i] \in d + 4 .. d + 4 + 9 * (i - 1)
      PROVE  /\ InstruccionEn(s, g[i]) \in Leida
             /\ Siguiente(s)[g[i]] \in d + 4 .. d + 4 + 9 * i
  <2> DEFINE e == g[i]
  <2>0. e \in d + 4 .. d + 4 + 9 * (i - 1)  BY <1>3
  <2>1. e \in Nat \ {0} /\ e + 8 <= d + 3 + 9 * n /\ d + 4 <= e /\ e + 9 <= d + 4 + 9 * i
    <3>. HIDE DEF e
    <3>. QED  BY <2>0
  <2>. HIDE DEF e
  <2>2. e + 8 <= Len(s)  BY <2>1
  <2>3. \A x \in e .. e + 8 : s[x] \in Byte  BY <2>1, <2>2
  <2>4. InstruccionEn(s, e) \in Leida /\ Siguiente(s)[e] \in e + 1 .. e + 9
    BY <2>1, <2>2, <2>3, UnaLeida
  <2>5. Siguiente(s)[e] \in d + 4 .. d + 4 + 9 * i  BY <2>1, <2>4
  <2>. QED  BY <2>4, <2>5 DEF e
<1> DEFINE B == {m \in Nat : m + 1 <= n => g[m + 1] \in d + 4 .. d + 4 + 9 * m}
<1>4. 0 \in B
  <2>1. 1 <= n => g[1] = d + 4  BY <1>2
  <2>. QED  BY <2>1
<1>5. ASSUME NEW m \in Nat, m \in B PROVE m + 1 \in B
  <2>1. SUFFICES ASSUME (m + 1) + 1 <= n
                 PROVE  g[(m + 1) + 1] \in d + 4 .. d + 4 + 9 * (m + 1)
    OBVIOUS
  <2> DEFINE i == m + 1
  <2>2. i \in 1 .. n /\ i + 1 \in 1 .. n /\ i + 1 # 1 /\ (i + 1) - 1 = i  BY <2>1
  <2>3. g[i] \in d + 4 .. d + 4 + 9 * (i - 1)  BY <1>5, <2>2
  <2>. HIDE DEF i
  <2>4. Siguiente(s)[g[i]] \in d + 4 .. d + 4 + 9 * i  BY <1>3, <2>2, <2>3
  <2>5. g[i + 1] = Siguiente(s)[g[i]]  BY <1>2, <2>2
  <2>. QED  BY <2>4, <2>5 DEF i
<1>6. Nat \subseteq B
  <2>. HIDE DEF B
  <2>. QED  BY <1>4, <1>5, Induccion
<1>7. \A i \in 1 .. n : InstruccionEn(s, g[i]) \in Leida
  <2>1. TAKE i \in 1 .. n
  <2>2. i - 1 \in Nat /\ (i - 1) + 1 = i  OBVIOUS
  <2> DEFINE k == i - 1
  <2>4. g[k + 1] \in d + 4 .. d + 4 + 9 * k
    <3>1. k \in B  BY <1>6, <2>2
    <3>. HIDE DEF k
    <3>2. k + 1 <= n  BY <2>2 DEF k
    <3>. QED  BY <3>1, <3>2
  <2>3. g[i] \in d + 4 .. d + 4 + 9 * (i - 1)  BY <2>2, <2>4
  <2>. QED  BY <1>3, <2>3
<1>. QED  BY <1>1, <1>7

\* An instruction with the parameters its id calls for is read as it is.
LEMMA UnaReleida ==
    ASSUME NEW s \in Seq(Nat), NEW e \in Nat \ {0}, e <= Len(s), NEW ins \in Leida,
           EstaEn(s, e, ins)
    PROVE  InstruccionEn(s, e) = ins /\ Siguiente(s)[e] = e + 1 + 4 * Len(ins.parametros)
<1> DEFINE p == ins.parametros
           c == Len(p)
<1>1. /\ ins.id \in Byte /\ p \in Seq(Nat) /\ c \in Nat /\ c = getCantidadParametros(ins.id)
      /\ ins = [id |-> ins.id, parametros |-> p]
  BY DEF Leida
<1>2. /\ s[e] = ins.id
      /\ \A k \in 1 .. c : \A j \in 1 .. 4 : s[e + 4 * (k - 1) + j] = uint32(p[k])[j]
  BY DEF EstaEn
<1>3. e \in DOMAIN s  OBVIOUS
<1>4. p = [k \in 1 .. c |-> p[k]] /\ \A k \in 1 .. c : p[k] \in Nat  BY <1>1
<1>. HIDE DEF p, c
<1>5. ASSUME NEW k \in 1 .. c PROVE Valor(s, e + 4 * k - 3) = p[k]
  <2> DEFINE i == e + 4 * k - 3
  <2>1. i \in Nat /\ \A j \in 1 .. 4 : i + j - 1 = e + 4 * (k - 1) + j  BY <1>1
  <2>2. \A j \in 1 .. 4 : s[i + j - 1] = uint32(p[k])[j]  BY <1>2, <2>1
  <2>3. p[k] \in Nat  BY <1>4
  <2>. HIDE DEF i
  <2> DEFINE x == p[k]
  <2>5. x \in Nat /\ i \in Nat /\ \A j \in 1 .. 4 : s[i + j - 1] = uint32(x)[j]
    BY <2>1, <2>2, <2>3
  <2>. HIDE DEF x
  <2>4. Valor(s, i) = p[k]
    <3>1. Valor(s, i) = x  BY ONLY <2>5, Uint32
    <3>. QED  BY <3>1 DEF x
  <2>. QED  BY <2>4 DEF i
<1>6. InstruccionEn(s, e) = [id |-> ins.id, parametros |-> [k \in 1 .. c |-> p[k]]]
  BY <1>1, <1>2, <1>5 DEF InstruccionEn
<1>7. Siguiente(s)[e] = e + 1 + 4 * c  BY <1>1, <1>2, <1>3 DEF Siguiente
<1>. QED  BY <1>1, <1>4, <1>6, <1>7 DEF c, p

\* The first m instructions of I are in stream s, from byte d on, with the
\* parameters their ids call for.
EstanHasta(s, d, I, o, m) ==
    /\ s \in Seq(Nat) /\ d \in Nat \ {0} /\ I \in Instrucciones(Nat)
    /\ Valor(s, d) = Len(I) /\ Sumas(o, Tamanos(I)) /\ m \in 0 .. Len(I)
    /\ \A i \in 1 .. m : /\ I[i] \in Leida /\ d + 4 + o[i - 1] <= Len(s)
                          /\ EstaEn(s, d + 4 + o[i - 1], I[i])

\* deserializar_instrucciones undoes armar_stream_instruccion up to the first
\* instruction whose parameters are not those its id calls for.
LEMMA LeidasHasta ==
    ASSUME NEW s, NEW d, NEW I, NEW o, NEW m, EstanHasta(s, d, I, o, m)
    PROVE  /\ DOMAIN deserializar_instrucciones(s, d) = 1 .. Len(I)
           /\ \A i \in 1 .. m : deserializar_instrucciones(s, d)[i] = I[i]
<1> DEFINE n == Len(I)
<1>a. /\ s \in Seq(Nat) /\ d \in Nat \ {0} /\ I \in Instrucciones(Nat)
      /\ Valor(s, d) = n /\ Sumas(o, Tamanos(I)) /\ m \in 0 .. n
      /\ \A i \in 1 .. m : /\ I[i] \in Leida /\ d + 4 + o[i - 1] <= Len(s)
                            /\ EstaEn(s, d + 4 + o[i - 1], I[i])
  BY DEF EstanHasta
<1>0. /\ n \in Nat /\ Tamanos(I) \in Seq(Nat) /\ Len(Tamanos(I)) = n
      /\ \A i \in 1 .. n : Len(I[i].parametros) \in Nat
                           /\ Tamanos(I)[i] = 1 + 4 * Len(I[i].parametros)
  BY <1>a, TamanosTipo
<1>b. m \in Nat /\ m <= n /\ \A i \in 1 .. m : i \in 1 .. n
  <2>1. m \in 0 .. n  BY <1>a
  <2>. HIDE DEF n
  <2>. QED  BY ONLY <1>0, <2>1
<1>1. PICK g : /\ DesdeDonde(s, d, n, g)
               /\ deserializar_instrucciones(s, d) = [i \in 1 .. n |-> InstruccionEn(s, g[i])]
  BY <1>0, <1>a, DesdeHay
<1>2. \A i \in 1 .. n : g[i] = IF i = 1 THEN d + 4 ELSE Siguiente(s)[g[i - 1]]
  BY <1>1 DEF DesdeDonde
<1>3. /\ o[0] = 0 /\ \A i \in 0 .. n : o[i] \in Nat
      /\ \A i \in 1 .. n : o[i - 1] \in Nat /\ o[i] = o[i - 1] + Tamanos(I)[i]
  BY <1>0, <1>a, SumasDe
<1>4. ASSUME NEW i \in 1 .. m, g[i] = d + 4 + o[i - 1]
      PROVE  InstruccionEn(s, g[i]) = I[i] /\ Siguiente(s)[g[i]] = d + 4 + o[i]
  <2> DEFINE e == d + 4 + o[i - 1]
             ins == I[i]
             L == Len(ins.parametros)
  <2>1. o[i - 1] \in Nat /\ o[i] = o[i - 1] + (1 + 4 * L) /\ L \in Nat
    <3>1. i \in 1 .. n  BY <1>b
    <3>2. o[i - 1] \in Nat /\ o[i] = o[i - 1] + Tamanos(I)[i] /\ L \in Nat
          /\ Tamanos(I)[i] = 1 + 4 * L
      BY <1>0, <1>3, <3>1
    <3>. QED  BY ONLY <3>2
  <2>2. e \in Nat \ {0} /\ e <= Len(s) /\ ins \in Leida /\ EstaEn(s, e, ins)  BY <1>a, <2>1
  <2>. HIDE DEF e, ins
  <2>3. InstruccionEn(s, e) = ins /\ Siguiente(s)[e] = e + 1 + 4 * L
    BY <1>a, <2>2, UnaReleida
  <2>. HIDE DEF L
  <2>4. Siguiente(s)[e] = d + 4 + o[i]  BY <1>a, <2>1, <2>3 DEF e
  <2>. QED  BY <1>4, <2>3, <2>4 DEF e, ins
<1> DEFINE B == {k \in Nat : k + 1 <= m => g[k + 1] = d + 4 + o[k]}
<1>5. 0 \in B
  <2>1. 1 <= m => g[1] = d + 4
    <3>1. 1 <= m => 1 \in 1 .. n  BY <1>b
    <3>. QED  BY <1>2, <3>1
  <2>2. o[0] = 0 /\ d \in Nat  BY <1>a, <1>3
  <2>. QED  BY <2>1, <2>2
<1>6. ASSUME NEW k \in Nat, k \in B PROVE k + 1 \in B
  <2>1. SUFFICES ASSUME (k + 1) + 1 <= m PROVE g[(k + 1) + 1] = d + 4 + o[k + 1]
    OBVIOUS
  <2> DEFINE i == k + 1
  <2>2. /\ i \in 1 .. m /\ i + 1 \in 1 .. n /\ i + 1 # 1 /\ (i + 1) - 1 = i /\ i - 1 = k
    BY <1>0, <1>a, <2>1
  <2>3. g[i] = d + 4 + o[i - 1]  BY <1>6, <2>2
  <2>. HIDE DEF i
  <2>4. Siguiente(s)[g[i]] = d + 4 + o[i]  BY <1>4, <2>2, <2>3
  <2>5. g[i + 1] = Siguiente(s)[g[i]]  BY <1>2, <2>2
  <2>. QED  BY <2>4, <2>5 DEF i
<1>7. Nat \subseteq B
  <2>. HIDE DEF B
  <2>. QED  BY <1>5, <1>6, Induccion
<1>8. \A i \in 1 .. m : InstruccionEn(s, g[i]) = I[i]
  <2>1. TAKE i \in 1 .. m
  <2> DEFINE k == i - 1
  <2>2. k \in Nat /\ k + 1 = i /\ k + 1 <= m  OBVIOUS
  <2>. HIDE DEF k
  <2>3. g[k + 1] = d + 4 + o[k]  BY <1>7, <2>2
  <2>4. g[i] = d + 4 + o[i - 1]  BY <2>2, <2>3 DEF k
  <2>. QED  BY <1>4, <2>4
<1>. HIDE DEF n
<1>. QED  BY <1>b, <1>1, <1>8 DEF n

\* An instruction stays where it is when bytes are put before and after the stream.
LEMMA Corrido ==
    ASSUME NEW I \in Instrucciones(Nat), NEW o, Sumas(o, Tamanos(I)), NEW i \in 1 .. Len(I),
           NEW A, Len(A) = 4 + o[Len(I)], EstaEn(A, 5 + o[i - 1], I[i]),
           NEW s, NEW c \in Nat, \A x \in 1 .. Len(A) : s[c + x] = A[x]
    PROVE  /\ o[i - 1] \in Nat /\ 5 + o[i - 1] <= Len(A) /\ Len(A) \in Nat
           /\ EstaEn(s, c + 5 + o[i - 1], I[i])
<1> DEFINE n == Len(I)
           ins == I[i]
           p == ins.parametros
           L == Len(p)
           q == o[i - 1]
           f == Len(A)
<1>0. /\ n \in Nat /\ Tamanos(I) \in Seq(Nat) /\ Len(Tamanos(I)) = n
      /\ L \in Nat /\ Tamanos(I)[i] = 1 + 4 * L
  BY TamanosTipo
<1>1. q \in Nat /\ o[i] = q + 1 + 4 * L
  <2>1. q \in Nat /\ o[i] = q + Tamanos(I)[i]  BY <1>0, SumasDe
  <2>. HIDE DEF L, q
  <2>. QED  BY <1>0, <2>1
<1>2. o[i] <= o[n] /\ o[n] \in Nat
  <2>1. i \in 0 .. Len(Tamanos(I)) /\ n \in i .. Len(Tamanos(I)) /\ n \in 0 .. Len(Tamanos(I))
    BY <1>0
  <2>. QED  BY <1>0, <2>1, SumasCrecen, SumasDe
<1> DEFINE on == o[n]
           oi == o[i]
<1>3. f = 4 + on /\ on \in Nat /\ oi <= on /\ oi = q + 1 + 4 * L /\ q \in Nat /\ L \in Nat
  BY <1>0, <1>1, <1>2
<1>4. A[5 + q] = ins.id
      /\ \A k \in 1 .. L : \A j \in 1 .. 4 : A[5 + q + 4 * (k - 1) + j] = uint32(p[k])[j]
  BY DEF EstaEn
<1>5. \A x \in 1 .. f : s[c + x] = A[x]  OBVIOUS
<1>. HIDE DEF n, ins, p, L, q, f, on, oi
<1>6. f \in Nat /\ 5 + q + 4 * L <= f  BY ONLY <1>3
<1>7. s[c + 5 + q] = ins.id
  <2>1. 5 + q \in 1 .. f /\ c + (5 + q) = c + 5 + q  BY ONLY <1>3, <1>6, c \in Nat
  <2>. QED  BY <1>4, <1>5, <2>1
<1>8. ASSUME NEW k \in 1 .. L, NEW j \in 1 .. 4
      PROVE  s[c + 5 + q + 4 * (k - 1) + j] = uint32(p[k])[j]
  <2> DEFINE x == 5 + q + 4 * (k - 1) + j
  <2>1. x \in 1 .. f /\ c + x = c + 5 + q + 4 * (k - 1) + j
    BY ONLY <1>3, <1>6, c \in Nat, k \in 1 .. L, j \in 1 .. 4
  <2>2. A[x] = uint32(p[k])[j]  BY <1>4
  <2>. HIDE DEF x
  <2>. QED  BY <1>5, <2>1, <2>2
<1>9. /\ s[c + 5 + q] = ins.id
      /\ \A k \in 1 .. L : \A j \in 1 .. 4 : s[c + 5 + q + 4 * (k - 1) + j] = uint32(p[k])[j]
  BY <1>7, <1>8
<1>10. EstaEn(s, c + 5 + q, ins)  BY ONLY <1>9, Zenon DEF EstaEn, p, L
<1>11. 5 + q <= f  BY ONLY <1>3, <1>6
<1>. QED  BY <1>3, <1>6, <1>10, <1>11 DEF ins, q, f

-----------------------------------------------------------------------------
(* Packets and PCBs.                                                        *)

\* A part of a sequence.
LEMMA Trozo ==
    ASSUME NEW s \in Seq(Nat), NEW A \in Seq(Nat), NEW m \in Nat, m + Len(A) <= Len(s),
           \A i \in 1 .. Len(A) : s[m + i] = A[i]
    PROVE  SubSeq(s, m + 1, m + Len(A)) = A
<1> DEFINE t == Len(A)
           x == SubSeq(s, m + 1, m + t)
<1>1. t \in Nat /\ Len(s) \in Nat /\ m + t <= Len(s)  OBVIOUS
<1>2. \A i \in 1 .. t : s[m + i] = A[i]  OBVIOUS
<1>3. A = [i \in 1 .. t |-> A[i]]  OBVIOUS
<1>. HIDE DEF t
<1>4. (m + t) - (m + 1) + 1 = t /\ \A i \in 1 .. t : (m + 1) + i - 1 = m + i  BY <1>1
<1>5. x = [i \in 1 .. (m + t) - (m + 1) + 1 |-> s[(m + 1) + i - 1]]  BY <1>1
<1>6. [i \in 1 .. t |-> s[(m + 1) + i - 1]] = [i \in 1 .. t |-> A[i]]  BY <1>2, <1>4
<1>. QED  BY <1>3, <1>4, <1>5, <1>6 DEF t

\* The socket s has the packet of stream A, and R behind it.
Empaquetado(s, c, A, R) ==
    /\ c \in Nat /\ A \in Seq(Nat) /\ R \in Seq(Nat)
    /\ s = Paquete(c, Len(A), A) \o R

\* A packet is received as its stream, and what follows it stays in the socket.
LEMMA Recibido ==
    ASSUME NEW s, NEW c, NEW A, NEW R, Empaquetado(s, c, A, R)
    PROVE  /\ s \in Seq(Nat) /\ s # <<>>
           /\ StreamRecibido(s) = A /\ Resto(s) = R
<1> DEFINE t == Len(A)
           a == <<c>>
           b == uint32(t)
           S == Nat
<1>0. /\ c \in Nat /\ A \in Seq(Nat) /\ R \in Seq(Nat)
      /\ s = Paquete(c, t, A) \o R
  BY DEF Empaquetado
<1>1. t \in Nat /\ a \in Seq(S) /\ Len(a) = 1  BY <1>0
<1>2. b \in Seq(S) /\ Len(b) = 4
  <2>. HIDE DEF t
  <2>. QED  BY <1>1, Uint32
<1>3. SubSeq(A, 1, t) = A  BY <1>0, SubSeqFull
<1>4. s = ((a \o b) \o A) \o R
  <2>1. s = Paquete(c, t, A) \o R  BY <1>0
  <2>. HIDE DEF t
  <2>. QED  BY ONLY <1>3, <2>1, Zenon DEF Paquete
<1> DEFINE ab == a \o b
           abA == ab \o A
<1>5. A \in Seq(S) /\ R \in Seq(S)  BY <1>0
<1>6. s = abA \o R /\ abA = ab \o A /\ ab = a \o b  BY ONLY <1>4
<1>7. /\ ab \in Seq(S) /\ Len(ab) = 5
      /\ \A i \in 1 .. 4 : ab[1 + i] = b[i]
  <2>. HIDE DEF a, b, S, ab
  <2>1. /\ ab \in Seq(S) /\ Len(ab) = Len(a) + Len(b)
        /\ \A i \in 1 .. Len(b) : ab[Len(a) + i] = b[i]
    <3>1. a \in Seq(S) /\ b \in Seq(S)  BY <1>1, <1>2
    <3>2. /\ a \o b \in Seq(S) /\ Len(a \o b) = Len(a) + Len(b)
          /\ \A i \in 1 .. Len(b) : (a \o b)[Len(a) + i] = b[i]
      BY ONLY <3>1, Junto
    <3>. QED  BY <3>2, <1>6
  <2>. QED  BY <1>1, <1>2, <2>1
<1>. HIDE DEF t, a, b, ab
<1>8. /\ abA \in Seq(S) /\ Len(abA) = 5 + t
      /\ \A i \in 1 .. 5 : abA[i] = ab[i]
      /\ \A i \in 1 .. t : abA[5 + i] = A[i]
  <2>. HIDE DEF S, abA
  <2>2. /\ ab \o A \in Seq(S) /\ Len(ab \o A) = Len(ab) + Len(A)
        /\ \A i \in 1 .. Len(ab) : (ab \o A)[i] = ab[i]
        /\ \A i \in 1 .. Len(A) : (ab \o A)[Len(ab) + i] = A[i]
    <3>1. ab \in Seq(Nat) /\ A \in Seq(Nat)  BY <1>5, <1>7 DEF S
    <3>2. /\ ab \o A \in Seq(Nat) /\ Len(ab \o A) = Len(ab) + Len(A)
          /\ \A i \in 1 .. Len(ab) : (ab \o A)[i] = ab[i]
          /\ \A i \in 1 .. Len(A) : (ab \o A)[Len(ab) + i] = A[i]
      BY ONLY <3>1, JuntoNat
    <3>. QED  BY <3>2 DEF S
  <2>. QED  BY <2>2, <1>6, <1>7 DEF t
<1>. HIDE DEF abA
<1>9. /\ s \in Seq(S) /\ Len(s) = 5 + t + Len(R) /\ Len(R) \in Nat
      /\ \A i \in 1 .. 5 + t : s[i] = abA[i]
      /\ \A i \in 1 .. Len(R) : s[5 + t + i] = R[i]
  <2>. HIDE DEF S
  <2>2. /\ abA \o R \in Seq(S) /\ Len(abA \o R) = Len(abA) + Len(R) /\ Len(R) \in Nat
        /\ \A i \in 1 .. Len(abA) : (abA \o R)[i] = abA[i]
        /\ \A i \in 1 .. Len(R) : (abA \o R)[Len(abA) + i] = R[i]
    <3>1. abA \in Seq(Nat) /\ R \in Seq(Nat)  BY <1>5, <1>8 DEF S
    <3>2. /\ abA \o R \in Seq(Nat) /\ Len(abA \o R) = Len(abA) + Len(R) /\ Len(R) \in Nat
          /\ \A i \in 1 .. Len(abA) : (abA \o R)[i] = abA[i]
          /\ \A i \in 1 .. Len(R) : (abA \o R)[Len(abA) + i] = R[i]
      BY ONLY <3>1, JuntoNat
    <3>. QED  BY <3>2 DEF S
  <2>. QED  BY <2>2, <1>6, <1>8
<1>10. \A i \in 1 .. 4 : s[1 + i] = b[i]
  <2>1. TAKE i \in 1 .. 4
  <2>2. 1 + i \in 1 .. 5 + t /\ 1 + i \in 1 .. 5  BY <1>1
  <2>. QED  BY <2>2, <1>7, <1>8, <1>9
<1>11. \A i \in 1 .. t : s[5 + i] = A[i]
  <2>1. TAKE i \in 1 .. t
  <2>2. 5 + i \in 1 .. 5 + t  BY <1>1
  <2>. QED  BY <2>2, <1>8, <1>9
<1>12. TamanoRecibido(s) = t
  <2>1. \A j \in 1 .. 4 : s[2 + j - 1] = uint32(t)[j]
    <3>1. TAKE j \in 1 .. 4
    <3>2. 2 + j - 1 = 1 + j  OBVIOUS
    <3>. QED  BY <3>2, <1>10 DEF b
  <2>2. Valor(s, 2) = t  BY ONLY <1>1, <2>1, Uint32
  <2>. QED  BY <2>2 DEF TamanoRecibido
<1> DEFINE r == Len(R)
<1>13. r \in Nat /\ Len(s) = 5 + t + r /\ r = Len(R)  BY <1>9
<1>. HIDE DEF r
<1>14. StreamRecibido(s) = A
  <2>1. 5 + t <= Len(s) /\ s \in Seq(Nat) /\ A \in Seq(Nat)  BY <1>0, <1>1, <1>9, <1>13 DEF S
  <2>2. SubSeq(s, 5 + 1, 5 + Len(A)) = A  BY <1>11, <2>1, Trozo DEF t
  <2>3. SubSeq(s, 6, 5 + t) = A
    <3>1. 5 + 1 = 6  OBVIOUS
    <3>. QED  BY ONLY <2>2, <3>1 DEF t
  <2>. QED  BY <1>12, <2>3 DEF StreamRecibido
<1>15. Resto(s) = R
  <2>1. (5 + t) + r <= Len(s) /\ s \in Seq(Nat) /\ R \in Seq(Nat) /\ 5 + t \in Nat
    BY <1>0, <1>1, <1>9, <1>13 DEF S
  <2>2. SubSeq(s, (5 + t) + 1, (5 + t) + Len(R)) = R  BY <1>9, <1>13, <2>1, Trozo
  <2>3. (5 + t) + 1 = 6 + t /\ (5 + t) + Len(R) = Len(s)  BY <1>1, <1>13
  <2>. QED  BY ONLY <1>12, <2>2, <2>3 DEF Resto
<1>16. s # <<>>  BY <1>1, <1>13
<1>. QED  BY <1>9, <1>14, <1>15, <1>16 DEF S

LEMMA CabeNat == Cabe(Nat, Nat)
BY Uint32 DEF Cabe, Byte

\* Instructions read from a stream are instructions with numbers.
LEMMA LeidasSon ==
    ASSUME NEW I \in Seq(Leida)
    PROVE  /\ I \in Instrucciones(Nat) /\ Len(I) \in Nat
           /\ \A i \in 1 .. Len(I) : I[i] \in Leida
<1> DEFINE R == [id : Byte, parametros : Seq(Nat)]
<1>1. Leida \subseteq R  BY DEF Leida
<1>. HIDE DEF R
<1>2. I \in Seq(R)  BY <1>1, SeqMonotonic
<1>3. Len(I) \in Nat /\ \A i \in 1 .. Len(I) : I[i] \in Leida  OBVIOUS
<1>. QED  BY <1>2, <1>3 DEF R, Instrucciones

\* The stream of instructions is as long as calcular_espacio_instrucciones says,
\* and wherever it lies it is read as the instructions.
LEMMA IdaYVuelta ==
    ASSUME NEW I \in Seq(Leida), NEW A, A = armar_stream_instruccion(I)
    PROVE  /\ A \in Seq(Nat) /\ Len(A) = calcular_espacio_instrucciones(I)
           /\ \A s \in Seq(Nat), c \in Nat :
                 c + Len(A) <= Len(s) /\ (\A x \in 1 .. Len(A) : s[c + x] = A[x])
                 => deserializar_instrucciones(s, c + 1) = I
<1> DEFINE n == Len(I)
<1>1. /\ n \in Nat /\ I \in Instrucciones(Nat) /\ DOMAIN I = 1 .. n
      /\ \A i \in 1 .. n : I[i] \in Leida /\ Len(I[i].parametros) \in Nat
      /\ Tamanos(I) \in Seq(Nat) /\ Len(Tamanos(I)) = n
  BY LeidasSon, TamanosTipo
<1>2. PICK o : Sumas(o, Tamanos(I))  BY <1>1, SumasHay
<1>3. /\ A \in Seq(Nat) /\ Len(A) = 4 + o[n]
      /\ \A j \in 1 .. 4 : A[j] = uint32(n)[j]
      /\ \A i \in 1 .. n : EstaEn(A, 5 + o[i - 1], I[i])
  <2>1. /\ Cabe(Nat, Nat) /\ I \in Instrucciones(Nat) /\ Sumas(o, Tamanos(I))
        /\ A = armar_stream_instruccion(I)
    BY <1>1, <1>2, CabeNat
  <2>. QED  BY ONLY <2>1, Armado
<1>4. calcular_espacio_instrucciones(I) = 4 + o[n]
  <2>1. n \in Nat /\ Len(I) = n /\ DOMAIN I = 1 .. n /\ Sumas(o, Tamanos(I))
        /\ \A i \in 1 .. n : Len(I[i].parametros) \in Nat
    BY <1>1, <1>2
  <2>. HIDE DEF n
  <2>. QED  BY ONLY <2>1, Espacio
<1>5. ASSUME NEW s \in Seq(Nat), NEW c \in Nat, c + Len(A) <= Len(s),
             \A x \in 1 .. Len(A) : s[c + x] = A[x]
      PROVE  deserializar_instrucciones(s, c + 1) = I
  <2> DEFINE d == c + 1
             Y == deserializar_instrucciones(s, d)
  <2>1. Valor(s, d) = n
    <3>1. \A j \in 1 .. 4 : s[d + j - 1] = uint32(n)[j]
      <4>1. TAKE j \in 1 .. 4
      <4>2. o[n] \in Nat
        <5>1. n \in 0 .. Len(Tamanos(I))  BY <1>1
        <5>. QED  BY <1>1, <1>2, <5>1, SumasDe
      <4>3. j \in 1 .. Len(A) /\ d + j - 1 = c + j  BY <1>3, <4>2
      <4>. QED  BY <1>3, <1>5, <4>3
    <3>2. d \in Nat /\ n \in Nat  BY <1>1
    <3>. HIDE DEF d, n
    <3>. QED  BY ONLY <3>1, <3>2, Uint32
  <2>2. \A i \in 1 .. n : /\ I[i] \in Leida /\ d + 4 + o[i - 1] <= Len(s)
                          /\ EstaEn(s, d + 4 + o[i - 1], I[i])
    <3>1. TAKE i \in 1 .. n
    <3>2. /\ o[i - 1] \in Nat /\ 5 + o[i - 1] <= Len(A) /\ Len(A) \in Nat
          /\ EstaEn(s, c + 5 + o[i - 1], I[i])
      <4>1. /\ I \in Instrucciones(Nat) /\ Sumas(o, Tamanos(I)) /\ i \in 1 .. Len(I)
            /\ Len(A) = 4 + o[Len(I)] /\ EstaEn(A, 5 + o[i - 1], I[i])
            /\ c \in Nat /\ \A x \in 1 .. Len(A) : s[c + x] = A[x]
        BY <1>1, <1>2, <1>3, <1>5
      <4>. QED  BY ONLY <4>1, Corrido
    <3> DEFINE q == o[i - 1]
               a == Len(A)
               l == Len(s)
    <3>3. q \in Nat /\ 5 + q <= a /\ a \in Nat /\ l \in Nat /\ c + a <= l
      BY <1>5, <3>2
    <3>. HIDE DEF q, a, l
    <3>4. d + 4 + q <= l /\ d + 4 + q = c + 5 + q  BY ONLY <3>3, c \in Nat
    <3>. QED  BY <1>1, <3>2, <3>4 DEF q, l
  <2>3. d \in Nat \ {0} /\ n \in 0 .. Len(I)  BY <1>1
  <2>4. DOMAIN Y = 1 .. n /\ \A i \in 1 .. n : Y[i] = I[i]
    <3>. HIDE DEF d
    <3>1. /\ s \in Seq(Nat) /\ d \in Nat \ {0} /\ I \in Instrucciones(Nat)
          /\ Valor(s, d) = Len(I) /\ Sumas(o, Tamanos(I)) /\ Len(I) \in 0 .. Len(I)
          /\ \A i \in 1 .. Len(I) : /\ I[i] \in Leida /\ d + 4 + o[i - 1] <= Len(s)
                                    /\ EstaEn(s, d + 4 + o[i - 1], I[i])
      BY <1>1, <1>2, <2>1, <2>2, <2>3
    <3>2. EstanHasta(s, d, I, o, Len(I))  BY <3>1 DEF EstanHasta
    <3>. HIDE DEF Y
    <3>3. /\ DOMAIN deserializar_instrucciones(s, d) = 1 .. Len(I)
          /\ \A i \in 1 .. Len(I) : deserializar_instrucciones(s, d)[i] = I[i]
      BY ONLY <3>2, LeidasHasta
    <3>. QED  BY <3>3 DEF Y
  <2>5. Y = [i \in 1 .. n |-> Y[i]]
    <3>1. PICK g : Y = [i \in 1 .. n |-> InstruccionEn(s, g[i])]
      <4>1. n \in Nat /\ Valor(s, d) = n  BY <1>1, <2>1
      <4>. HIDE DEF d, n
      <4>. QED  BY ONLY <4>1, DesdeHay
    <3>. HIDE DEF Y, n
    <3>. QED  BY ONLY <3>1
  <2>6. I = [i \in 1 .. n |-> I[i]]  BY <1>1
  <2>. HIDE DEF Y, n
  <2>7. [i \in 1 .. n |-> Y[i]] = [i \in 1 .. n |-> I[i]]  BY <2>4
  <2>8. Y = I  BY ONLY <2>5, <2>6, <2>7
  <2>. QED  BY <2>8 DEF Y
<1>. QED  BY <1>3, <1>4, <1>5

\* A PCB whose numbers are numbers and whose instructions were read from a stream.
PcbSano ==
    [pid : Nat, tamano : Nat, program_counter : Nat, estimado_rafaga : Nat,
     estado : Nat, tiempo_block : Nat, tabla_paginas : Nat,
     tiempo_ejecucion : Nat, instrucciones : Seq(Leida)]

\* A PCB comes out of a socket as it went in, and leaves nothing there
\* (pcb_serializar, recibirPCB): both CPU and Kernel work on the same process.
THEOREM PcbIdaYVuelta ==
    ASSUME NEW p \in PcbSano, NEW c \in Nat
    PROVE  /\ recibirPCB(pcb_serializar(p, c)) = {p}
           /\ Resto(pcb_serializar(p, c)) = <<>>
           /\ pcb_serializar(p, c) # <<>> /\ pcb_serializar(p, c) \in Seq(Nat)
<1> DEFINE I == p.instrucciones
           A == armar_stream_instruccion(I)
           z == <<p.pid, p.tamano, p.program_counter, p.estimado_rafaga, p.estado,
                  p.tiempo_block, p.tabla_paginas, p.tiempo_ejecucion>>
           D == DeUint32(z)
           s == D \o A
<1>1. /\ p.pid \in Nat /\ p.tamano \in Nat /\ p.program_counter \in Nat
      /\ p.estimado_rafaga \in Nat /\ p.estado \in Nat /\ p.tiempo_block \in Nat
      /\ p.tabla_paginas \in Nat /\ p.tiempo_ejecucion \in Nat /\ I \in Seq(Leida)
  BY DEF PcbSano
<1>2. z \in Seq(Nat) /\ Len(z) = 8  BY <1>1
<1>3. /\ A \in Seq(Nat) /\ Len(A) = calcular_espacio_instrucciones(I)
      /\ \A t \in Seq(Nat), x \in Nat :
            x + Len(A) <= Len(t) /\ (\A y \in 1 .. Len(A) : t[x + y] = A[y])
            => deserializar_instrucciones(t, x + 1) = I
  BY <1>1, IdaYVuelta
<1>4. s = pcb_armar_stream(p)  BY DEF pcb_armar_stream
<1>5. /\ D \in Seq(Nat) /\ Len(D) = 32
      /\ \A k \in 1 .. 8 : \A j \in 1 .. 4 : D[4 * (k - 1) + j] = uint32(z[k])[j]
  <2>1. \A n \in Nat : uint32(n) \in Seq(Nat)  BY Uint32
  <2>. HIDE DEF z
  <2>2. /\ DeUint32(z) \in Seq(Nat) /\ Len(DeUint32(z)) = 4 * Len(z)
        /\ \A k \in 1 .. Len(z) : \A j \in 1 .. 4 :
               DeUint32(z)[4 * (k - 1) + j] = uint32(z[k])[j]
    BY <1>2, <2>1, DeUint32Bien
  <2>. QED  BY <1>2, <2>2
<1>. HIDE DEF D, A
<1>6. /\ s \in Seq(Nat) /\ Len(s) = 32 + Len(A) /\ Len(A) \in Nat
      /\ \A i \in 1 .. 32 : s[i] = D[i]
      /\ \A i \in 1 .. Len(A) : s[32 + i] = A[i]
  <2>1. D \in Seq(Nat) /\ A \in Seq(Nat)  BY <1>3, <1>5
  <2>2. /\ D \o A \in Seq(Nat) /\ Len(D \o A) = Len(D) + Len(A) /\ Len(A) \in Nat
        /\ \A i \in 1 .. Len(D) : (D \o A)[i] = D[i]
        /\ \A i \in 1 .. Len(A) : (D \o A)[Len(D) + i] = A[i]
    BY ONLY <2>1, JuntoNat
  <2>. QED  BY <1>5, <2>2
<1>. HIDE DEF s, I
<1>7. Len(s) = pcb_calcular_espacio(p)
  <2>1. pcb_calcular_espacio(p) = Len(A) + 4 * 8
    BY ONLY <1>3 DEF pcb_calcular_espacio, I
  <2>. QED  BY <1>6, <2>1
<1>8. deserializar_instrucciones(s, 33) = I
  <2>1. 32 + Len(A) <= Len(s) /\ 32 \in Nat /\ 32 + 1 = 33  BY <1>6
  <2>2. deserializar_instrucciones(s, 32 + 1) = I  BY <1>3, <1>6, <2>1
  <2>. QED  BY <2>1, <2>2
<1>9. ASSUME NEW k \in 1 .. 8 PROVE Valor(s, 4 * (k - 1) + 1) = z[k]
  <2> DEFINE i == 4 * (k - 1) + 1
             x == z[k]
  <2>1. x \in Nat /\ i \in Nat  BY <1>2
  <2>2. \A j \in 1 .. 4 : s[i + j - 1] = uint32(x)[j]
    <3>1. TAKE j \in 1 .. 4
    <3>2. 4 * (k - 1) + j \in 1 .. 32 /\ i + j - 1 = 4 * (k - 1) + j  OBVIOUS
    <3>. HIDE DEF z
    <3>. QED  BY <1>5, <1>6, <3>2
  <2>. HIDE DEF i, x
  <2>3. Valor(s, i) = x  BY ONLY <2>1, <2>2, Uint32
  <2>. QED  BY <2>3 DEF i, x
<1>10. /\ Valor(s, 1) = p.pid /\ Valor(s, 5) = p.tamano /\ Valor(s, 9) = p.program_counter
       /\ Valor(s, 13) = p.estimado_rafaga /\ Valor(s, 17) = p.estado
       /\ Valor(s, 21) = p.tiempo_block /\ Valor(s, 25) = p.tabla_paginas
       /\ Valor(s, 29) = p.tiempo_ejecucion
  <2>1. /\ Valor(s, 4 * (1 - 1) + 1) = z[1] /\ Valor(s, 4 * (2 - 1) + 1) = z[2]
        /\ Valor(s, 4 * (3 - 1) + 1) = z[3] /\ Valor(s, 4 * (4 - 1) + 1) = z[4]
        /\ Valor(s, 4 * (5 - 1) + 1) = z[5] /\ Valor(s, 4 * (6 - 1) + 1) = z[6]
        /\ Valor(s, 4 * (7 - 1) + 1) = z[7] /\ Valor(s, 4 * (8 - 1) + 1) = z[8]
    <3>. HIDE DEF z
    <3>. QED  BY <1>9
  <2>. QED  BY <2>1
<1>11. pcb_deserializar(s) = p
  <2>1. p = [pid |-> p.pid, tamano |-> p.tamano, program_counter |-> p.program_counter,
             estimado_rafaga |-> p.estimado_rafaga, estado |-> p.estado,
             tiempo_block |-> p.tiempo_block, tabla_paginas |-> p.tabla_paginas,
             tiempo_ejecucion |-> p.tiempo_ejecucion, instrucciones |-> p.instrucciones]
    BY DEF PcbSano
  <2>. QED  BY <1>8, <1>10, <2>1 DEF pcb_deserializar, I
<1>12. pcb_serializar(p, c) = Paquete(c, Len(s), s)
  BY <1>4, <1>7 DEF pcb_serializar
<1> DEFINE S == Paquete(c, Len(s), s)
<1>13. Paquete(c, Len(s), s) \in Seq(Nat)
  <2> DEFINE t == Len(s)
  <2>1. t \in Nat /\ <<c>> \in Seq(Nat) /\ uint32(t) \in Seq(Nat)
    <3>1. t \in Nat  BY <1>6
    <3>. HIDE DEF t
    <3>. QED  BY <3>1, Uint32
  <2>2. SubSeq(s, 1, t) = s  BY <1>6, SubSeqFull
  <2>. HIDE DEF t
  <2>3. <<c>> \o uint32(t) \in Seq(Nat)  BY <2>1, JuntoNat
  <2>4. (<<c>> \o uint32(t)) \o s \in Seq(Nat)  BY <1>6, <2>3, JuntoNat
  <2>. QED  BY <2>2, <2>4 DEF Paquete, t
<1>14. Paquete(c, Len(s), s) = Paquete(c, Len(s), s) \o <<>>
  <2>. HIDE DEF S
  <2>1. \A x \in Seq(Nat) : x \o <<>> = x  OBVIOUS
  <2>. QED  BY <1>13, <2>1
<1>15. /\ S \in Seq(Nat) /\ S # <<>> /\ StreamRecibido(S) = s /\ Resto(S) = <<>>
  <2> DEFINE R == <<>>
  <2>1. c \in Nat /\ s \in Seq(Nat) /\ R \in Seq(Nat)  BY <1>6
  <2>2. S = Paquete(c, Len(s), s) \o R  BY <1>14
  <2>. HIDE DEF S, R
  <2>4. Empaquetado(S, c, s, R)  BY ONLY <2>1, <2>2 DEF Empaquetado
  <2>3. S \in Seq(Nat) /\ S # <<>> /\ StreamRecibido(S) = s /\ Resto(S) = R
    BY ONLY <2>4, Recibido
  <2>. QED  BY <2>3 DEF R
<1>16. recibirPCB(S) = {p}  BY <1>11, <1>15 DEF recibirPCB
<1>. QED  BY <1>12, <1>15, <1>16

-----------------------------------------------------------------------------
(* The message of a console.                                                *)

LEMMA CabeNumero == Cabe(Numero, Byte)
<1>1. Numero \subseteq Nat  BY DEF Numero
<1>2. Byte \subseteq Nat  BY DEF Byte
<1>. QED  BY <1>1, <1>2, BytesDeUint32 DEF Cabe

LEMMA InstruccionesCrecen ==
    ASSUME NEW I \in Instrucciones(Numero) PROVE I \in Instrucciones(Nat)
<1> DEFINE R == [id : Byte, parametros : Seq(Numero)]
           S == [id : Byte, parametros : Seq(Nat)]
<1>1. Seq(Numero) \subseteq Seq(Nat)
  <2>1. Numero \subseteq Nat  BY DEF Numero
  <2>. QED  BY <2>1, SeqMonotonic
<1>2. R \subseteq S  BY <1>1
<1>. HIDE DEF R, S
<1>3. Seq(R) \subseteq Seq(S)  BY <1>2, SeqMonotonic
<1>. QED  BY <1>3 DEF R, S, Instrucciones

\* Bytes behind a stream.
LEMMA ConResto ==
    ASSUME NEW A, A \in Seq(Nat), NEW n, n \in Nat, Valor(A, 1) = n, NEW resto, resto \in Byte,
           NEW s, s = PasadoElFinal(A, resto)
    PROVE  /\ s \in Seq(Nat) /\ Len(s) = Len(A) + 9 * n /\ Len(A) \in Nat
           /\ \A x \in 1 .. Len(A) : s[x] = A[x]
           /\ \A x \in Len(A) + 1 .. Len(s) : s[x] \in Byte
<1> DEFINE R == [i \in 1 .. 9 * n |-> resto]
           a == Len(A)
<1>1. resto \in Nat /\ a \in Nat  BY DEF Byte
<1>2. R \in Seq(Nat) /\ Len(R) = 9 * n /\ \A i \in 1 .. 9 * n : R[i] = resto
  BY <1>1
<1>3. s = A \o R  BY DEF PasadoElFinal
<1>. HIDE DEF R
<1>4. /\ A \o R \in Seq(Nat) /\ Len(A \o R) = Len(A) + Len(R)
      /\ \A i \in 1 .. Len(A) : (A \o R)[i] = A[i]
      /\ \A i \in 1 .. Len(R) : (A \o R)[Len(A) + i] = R[i]
  <2>1. A \in Seq(Nat) /\ R \in Seq(Nat)  BY <1>2
  <2>. QED  BY ONLY <2>1, JuntoNat
<1>. HIDE DEF a
<1>5. /\ s \in Seq(Nat) /\ Len(s) = a + 9 * n /\ \A i \in 1 .. a : s[i] = A[i]
      /\ \A i \in 1 .. 9 * n : s[a + i] = resto
  BY <1>2, <1>3, <1>4 DEF a
<1>6. ASSUME NEW x \in a + 1 .. a + 9 * n PROVE s[x] \in Byte
  <2>1. x - a \in 1 .. 9 * n /\ a + (x - a) = x  BY <1>1
  <2>. QED  BY <1>5, <2>1
<1>. QED  BY <1>1, <1>5, <1>6 DEF a

\* The instructions of m are those of I up to the first one whose parameters
\* are not those its id calls for.
LeidaHasta(m, I) ==
    /\ m \in Seq(Leida) /\ Len(m) = Len(I)
    /\ \A k \in 0 .. Len(I) :
          (\A i \in 1 .. k : I[i] \in Leida) => \A i \in 1 .. k : m[i] = I[i]

\* What the Kernel reads of the stream of a console, with anything behind it.
LEMMA InstruccionesDelMensaje ==
    ASSUME NEW I, I \in Instrucciones(Numero), NEW resto, resto \in Byte,
           NEW A, A = armar_stream_instruccion(I)
    PROVE  /\ A \in Seq(Nat) /\ Len(A) = calcular_espacio_instrucciones(I)
           /\ LeidaHasta(deserializar_instrucciones(PasadoElFinal(A, resto), 1), I)
<1> DEFINE n == Len(I)
           s == PasadoElFinal(A, resto)
           m == deserializar_instrucciones(s, 1)
<1>0. I \in Instrucciones(Nat)  BY InstruccionesCrecen
<1>1. /\ n \in Nat /\ DOMAIN I = 1 .. n /\ \A i \in 1 .. n : Len(I[i].parametros) \in Nat
      /\ Tamanos(I) \in Seq(Nat) /\ Len(Tamanos(I)) = n
  BY <1>0, TamanosTipo
<1>2. PICK o : Sumas(o, Tamanos(I))  BY <1>1, SumasHay
<1>3. /\ A \in Seq(Nat) /\ Len(A) = 4 + o[n]
      /\ \A x \in 5 .. Len(A) : A[x] \in Byte
      /\ \A j \in 1 .. 4 : A[j] = uint32(n)[j]
      /\ \A i \in 1 .. n : EstaEn(A, 5 + o[i - 1], I[i])
  <2>1. /\ Cabe(Numero, Byte) /\ I \in Instrucciones(Numero) /\ Sumas(o, Tamanos(I))
        /\ A = armar_stream_instruccion(I)
    BY <1>2, CabeNumero
  <2>. QED  BY ONLY <2>1, Armado
<1>4. Len(A) = calcular_espacio_instrucciones(I)
  <2>1. n \in Nat /\ Len(I) = n /\ DOMAIN I = 1 .. n /\ Sumas(o, Tamanos(I))
        /\ \A i \in 1 .. n : Len(I[i].parametros) \in Nat
    BY <1>1, <1>2
  <2>. HIDE DEF n
  <2>2. calcular_espacio_instrucciones(I) = 4 + o[n]  BY ONLY <2>1, Espacio
  <2>. QED  BY <1>3, <2>2
<1>5. o[n] \in Nat
  <2>1. n \in 0 .. Len(Tamanos(I))  BY <1>1
  <2>. QED  BY <1>1, <1>2, <2>1, SumasDe
<1>. HIDE DEF n
<1>6. \A t : (\A x \in 1 .. Len(A) : t[x] = A[x]) => Valor(t, 1) = n
  <2>1. TAKE t
  <2>2. HAVE \A x \in 1 .. Len(A) : t[x] = A[x]
  <2>3. \A j \in 1 .. 4 : t[1 + j - 1] = uint32(n)[j]
    <3>1. TAKE j \in 1 .. 4
    <3>2. j \in 1 .. Len(A) /\ 1 + j - 1 = j  BY <1>3, <1>5
    <3>. QED  BY <1>3, <2>2, <3>2
  <2>4. 1 \in Nat /\ n \in Nat  BY <1>1
  <2>. QED  BY ONLY <2>3, <2>4, Uint32
<1>7. Valor(A, 1) = n  BY <1>6
<1>8. /\ s \in Seq(Nat) /\ Len(s) = Len(A) + 9 * n /\ Len(A) \in Nat
      /\ \A x \in 1 .. Len(A) : s[x] = A[x]
      /\ \A x \in Len(A) + 1 .. Len(s) : s[x] \in Byte
  <2>1. A \in Seq(Nat) /\ n \in Nat /\ Valor(A, 1) = n /\ resto \in Byte  BY <1>1, <1>3, <1>7
  <2>. QED  BY ONLY <2>1, ConResto
<1>. HIDE DEF s
<1>9. Valor(s, 1) = n  BY <1>6, <1>8
<1>10. m \in Seq(Leida) /\ Len(m) = n
  <2>1. 1 + 3 + 9 * n <= Len(s)
    <3> DEFINE on == o[n]
               a == Len(A)
               l == Len(s)
    <3>1. n \in Nat /\ on \in Nat /\ a = 4 + on /\ l = a + 9 * n  BY <1>1, <1>3, <1>5, <1>8
    <3>. HIDE DEF on, a, l
    <3>2. 1 + 3 + 9 * n <= l  BY ONLY <3>1
    <3>. QED  BY <3>2 DEF l
  <2>2. \A x \in 1 + 4 .. Len(s) : s[x] \in Byte
    <3>1. TAKE x \in 1 + 4 .. Len(s)
    <3>2. x \in 5 .. Len(A) \/ x \in Len(A) + 1 .. Len(s)  BY <1>8
    <3>3. x \in 5 .. Len(A) => x \in 1 .. Len(A)  OBVIOUS
    <3>. QED  BY <1>3, <1>8, <3>2, <3>3
  <2>3. 1 \in Nat \ {0}  OBVIOUS
  <2>. HIDE DEF m
  <2>4. s \in Seq(Nat) /\ n \in Nat  BY <1>1, <1>8
  <2>5. /\ deserializar_instrucciones(s, 1) \in Seq(Leida)
        /\ Len(deserializar_instrucciones(s, 1)) = n
    BY ONLY <1>9, <2>1, <2>2, <2>3, <2>4, LeidasTipo
  <2>. QED  BY <2>5 DEF m
<1>11. ASSUME NEW k \in 0 .. n, \A i \in 1 .. k : I[i] \in Leida
       PROVE  \A i \in 1 .. k : m[i] = I[i]
  <2>1. ASSUME NEW i \in 1 .. k
        PROVE  /\ I[i] \in Leida /\ 1 + 4 + o[i - 1] <= Len(s)
               /\ EstaEn(s, 1 + 4 + o[i - 1], I[i])
    <3>1. i \in 1 .. Len(I)
      <4>1. k \in 0 .. n /\ i \in 1 .. k  OBVIOUS
      <4>2. i \in 1 .. n  BY ONLY <1>1, <4>1
      <4>. QED  BY <4>2 DEF n
    <3>2. \A x \in 1 .. Len(A) : s[0 + x] = A[x]
      <4>1. TAKE x \in 1 .. Len(A)
      <4>2. 0 + x = x  OBVIOUS
      <4>. QED  BY <1>8, <4>2
    <3>3. /\ o[i - 1] \in Nat /\ 5 + o[i - 1] <= Len(A) /\ Len(A) \in Nat
          /\ EstaEn(s, 0 + 5 + o[i - 1], I[i])
      <4>1. /\ I \in Instrucciones(Nat) /\ Sumas(o, Tamanos(I)) /\ i \in 1 .. Len(I)
            /\ Len(A) = 4 + o[Len(I)] /\ EstaEn(A, 5 + o[i - 1], I[i])
            /\ 0 \in Nat /\ \A x \in 1 .. Len(A) : s[0 + x] = A[x]
        BY <1>0, <1>2, <1>3, <3>1, <3>2 DEF n
      <4>. QED  BY ONLY <4>1, Corrido
    <3> DEFINE q == o[i - 1]
               a == Len(A)
               l == Len(s)
    <3>4. q \in Nat /\ 5 + q <= a /\ a \in Nat /\ l = a + 9 * n /\ n \in Nat
      BY <1>1, <1>8, <3>3
    <3>. HIDE DEF q, a, l
    <3>5. 1 + 4 + q <= l /\ 1 + 4 + q = 0 + 5 + q  BY ONLY <3>4
    <3>. QED  BY <1>11, <3>3, <3>5 DEF q, l
  <2>2. 1 \in Nat \ {0} /\ k \in 0 .. Len(I)  BY DEF n
  <2>3. EstanHasta(s, 1, I, o, k)
    BY <1>0, <1>2, <1>8, <1>9, <2>1, <2>2 DEF EstanHasta, n
  <2>. QED  BY <2>3, LeidasHasta
<1>. QED  BY <1>3, <1>4, <1>10, <1>11 DEF LeidaHasta, n, s

\* The instructions and the size that a console sends reach the Kernel, whatever
\* lies behind the stream, up to the first line whose numbers are not as many as
\* its name calls for (serializar_mensaje, deserializar_mensaje).
THEOREM MensajeIdaYVuelta ==
    ASSUME NEW I, I \in Instrucciones(Numero), NEW tamano, tamano \in Nat,
           NEW resto, resto \in Byte
    PROVE  LET s == serializar_mensaje(I, tamano)
               m == deserializar_mensaje(s, resto)
           IN  s # <<>> /\ m.tamano = tamano /\ LeidaHasta(m.instrucciones, I)
<1> DEFINE A == armar_stream_instruccion(I)
           R == uint32(tamano)
           s == serializar_mensaje(I, tamano)
           m == deserializar_mensaje(s, resto)
<1>1. /\ A \in Seq(Nat) /\ Len(A) = calcular_espacio_instrucciones(I)
      /\ LeidaHasta(deserializar_instrucciones(PasadoElFinal(A, resto), 1), I)
  BY InstruccionesDelMensaje
<1>2. R \in Seq(Nat)  BY Uint32
<1>3. Valor(R, 1) = tamano
  <2>1. \A j \in 1 .. 4 : R[1 + j - 1] = uint32(tamano)[j]
    <3>1. TAKE j \in 1 .. 4
    <3>2. 1 + j - 1 = j  OBVIOUS
    <3>. QED  BY <3>2
  <2>2. 1 \in Nat /\ tamano \in Nat  OBVIOUS
  <2>. HIDE DEF R
  <2>. QED  BY ONLY <2>1, <2>2, Uint32
<1>4. s = Paquete(0, Len(A), A) \o R  BY <1>1 DEF serializar_mensaje
<1>. HIDE DEF A, R, s
<1>5. Empaquetado(s, 0, A, R)
  <2>1. 0 \in Nat  OBVIOUS
  <2>. QED  BY <1>1, <1>2, <1>4, <2>1 DEF Empaquetado
<1>6. s # <<>> /\ StreamRecibido(s) = A /\ Resto(s) = R  BY ONLY <1>5, Recibido
<1>7. /\ m.instrucciones = deserializar_instrucciones(PasadoElFinal(A, resto), 1)
      /\ m.tamano = tamano
  BY <1>3, <1>6 DEF deserializar_mensaje
<1>. HIDE DEF m
<1>. QED  BY <1>1, <1>6, <1>7 DEF s, m

-----------------------------------------------------------------------------
(* The lines of a script.                                                   *)

\* The lines of a script with NO_OP n in place of n lines.
Renglones(lineas) ==
    FlattenSeq([i \in DOMAIN lineas |->
        IF lineas[i].nombre = "NO_OP" THEN [j \in 1 .. lineas[i].numeros[1] |-> lineas[i]]
                                      ELSE <<lineas[i]>>])

\* The instruction of a line.
DelRenglon(linea) ==
    [id |-> definirCodigo(linea.nombre),
     parametros |-> IF linea.nombre = "NO_OP" THEN <<>> ELSE linea.numeros]

LEMMA CodigoNoOp ==
    ASSUME NEW nombre \in STRING
    PROVE  definirCodigo(nombre) \in Byte /\ (definirCodigo(nombre) = NO_OP <=> nombre = "NO_OP")
BY DEF definirCodigo, NO_OP, I_O, WRITE, COPY, READ, EXIT, DESCONOCIDA, Byte

LEMMA DelRenglonTipo ==
    ASSUME NEW linea \in Renglon
    PROVE  DelRenglon(linea) \in [id : Byte, parametros : Seq(Numero)]
<1>1. linea.nombre \in STRING /\ linea.numeros \in Seq(Numero)  BY DEF Renglon
<1>2. definirCodigo(linea.nombre) \in Byte  BY <1>1, CodigoNoOp
<1>3. (IF linea.nombre = "NO_OP" THEN <<>> ELSE linea.numeros) \in Seq(Numero)  BY <1>1
<1>. QED  BY <1>2, <1>3 DEF DelRenglon

\* As many lines as instructions.
Veces(linea) ==
    IF linea.nombre = "NO_OP" THEN [j \in 1 .. linea.numeros[1] |-> linea] ELSE <<linea>>

\* Line l in the instructions x and in the script y.
EsRenglon(x, y, l) ==
    /\ x \in Seq([id : Byte, parametros : Seq(Numero)]) /\ y \in Seq(Renglon)
    /\ Len(x) = Len(y) /\ Len(x) \in Nat
    /\ \A j \in 1 .. Len(x) : x[j] = DelRenglon(l) /\ y[j] = l

LEMMA UnRenglon ==
    ASSUME NEW l, l \in Renglon, NEW x, NEW y, x = DeLinea(l),
           y = Veces(l)
    PROVE  EsRenglon(x, y, l)
<1> DEFINE S == [id : Byte, parametros : Seq(Numero)]
           z == DelRenglon(l)
<1>1. l.nombre \in STRING /\ l.numeros \in Seq(Numero) /\ z \in S
  BY DelRenglonTipo DEF Renglon
<1>2. definirCodigo(l.nombre) = NO_OP <=> l.nombre = "NO_OP"  BY <1>1, CodigoNoOp
<1>3. CASE l.nombre = "NO_OP"
  <2> DEFINE n == l.numeros[1]
  <2>1. l.numeros # <<>>  BY <1>3 DEF Renglon
  <2>2. n \in Numero
    <3>1. Len(l.numeros) # 0  BY <1>1, <2>1, EmptySeq
    <3>2. 1 \in 1 .. Len(l.numeros)  BY <1>1, <3>1
    <3>. QED  BY <1>1, <3>2, ElementOfSeq
  <2>3. n \in Nat  BY <2>2 DEF Numero
  <2>4. z = [id |-> NO_OP, parametros |-> <<>>]  BY <1>2, <1>3 DEF DelRenglon
  <2>5. x = [i \in 1 .. n |-> z]  BY <1>2, <1>3, <2>4 DEF DeLinea
  <2>6. y = [i \in 1 .. n |-> l]  BY <1>3 DEF Veces
  <2>. HIDE DEF n, z, S
  <2>7. x \in Seq(S) /\ Len(x) = n /\ \A j \in 1 .. n : x[j] = z  BY <1>1, <2>3, <2>5
  <2>8. y \in Seq(Renglon) /\ Len(y) = n /\ \A j \in 1 .. n : y[j] = l
    <3>1. l \in Renglon  OBVIOUS
    <3>. QED  BY ONLY <2>3, <2>6, <3>1
  <2>. QED  BY <2>3, <2>7, <2>8 DEF z, S, EsRenglon
<1>4. CASE l.nombre # "NO_OP"
  <2>1. z = [id |-> definirCodigo(l.nombre), parametros |-> l.numeros]
    BY <1>4 DEF DelRenglon
  <2>2. x = <<z>>  BY <1>2, <1>4, <2>1 DEF DeLinea
  <2>3. y = <<l>>  BY <1>4 DEF Veces
  <2>. HIDE DEF z, S
  <2>6. z \in S /\ l \in Renglon  BY <1>1
  <2>4. x \in Seq(S) /\ Len(x) = 1 /\ \A j \in 1 .. 1 : x[j] = z  BY ONLY <2>2, <2>6
  <2>5. y \in Seq(Renglon) /\ Len(y) = 1 /\ \A j \in 1 .. 1 : y[j] = l
    BY ONLY <2>3, <2>6
  <2>. QED  BY <2>4, <2>5 DEF z, S, EsRenglon
<1>. QED  BY <1>3, <1>4

\* Instruction k that the Consola makes of a script is that of line k.
LEMMA Traducidas ==
    ASSUME NEW lineas, lineas \in Seq(Renglon), NEW I, I = obtener_intrucciones(lineas),
           NEW s, s = Renglones(lineas)
    PROVE  /\ I \in Instrucciones(Numero) /\ s \in Seq(Renglon)
           /\ Len(I) = Len(s) /\ Len(s) \in Nat
           /\ \A k \in 1 .. Len(s) : I[k] = DelRenglon(s[k]) /\ s[k] \in Renglon
<1> DEFINE n == Len(lineas)
           S == [id : Byte, parametros : Seq(Numero)]
           x == [i \in DOMAIN lineas |-> DeLinea(lineas[i])]
           y == [i \in DOMAIN lineas |->
                    IF lineas[i].nombre = "NO_OP"
                    THEN [j \in 1 .. lineas[i].numeros[1] |-> lineas[i]]
                    ELSE <<lineas[i]>>]
<1>1. n \in Nat /\ DOMAIN lineas = 1 .. n /\ \A i \in 1 .. n : lineas[i] \in Renglon  OBVIOUS
<1>2. ASSUME NEW i \in 1 .. n
      PROVE  /\ x[i] \in Seq(S) /\ y[i] \in Seq(Renglon)
             /\ Len(x[i]) = Len(y[i]) /\ Len(x[i]) \in Nat
             /\ \A j \in 1 .. Len(x[i]) : x[i][j] = DelRenglon(lineas[i]) /\ y[i][j] = lineas[i]
  <2> DEFINE l == lineas[i]
             xi == x[i]
             yi == y[i]
  <2>1. l \in Renglon  BY <1>1
  <2>2. xi = DeLinea(l)  BY <1>1
  <2>3. yi = Veces(l)  BY <1>1 DEF Veces
  <2>. HIDE DEF l, xi, yi
  <2>4. /\ xi \in Seq([id : Byte, parametros : Seq(Numero)]) /\ yi \in Seq(Renglon)
        /\ Len(xi) = Len(yi) /\ Len(xi) \in Nat
        /\ \A j \in 1 .. Len(xi) : xi[j] = DelRenglon(l) /\ yi[j] = l
    <3>1. EsRenglon(xi, yi, l)  BY ONLY <2>1, <2>2, <2>3, UnRenglon
    <3>. QED  BY ONLY <3>1 DEF EsRenglon
  <2>. QED  BY <2>4 DEF l, xi, yi
<1>3. x = [i \in 1 .. n |-> x[i]] /\ y = [i \in 1 .. n |-> y[i]]  BY <1>1
<1>4. I = FlattenSeq(x)  BY DEF obtener_intrucciones
<1>5. s = FlattenSeq(y)  BY DEF Renglones
<1>. HIDE DEF x, y, S, n
<1>6. x \in Seq(Seq(S)) /\ Len(x) = n  BY <1>1, <1>2, <1>3
<1>7. y \in Seq(Seq(Renglon)) /\ Len(y) = n  BY <1>1, <1>2, <1>3
<1>8. Largos(x) = Largos(y) /\ Largos(x) \in Seq(Nat) /\ Len(Largos(x)) = n
      /\ \A i \in 1 .. n : Largos(x)[i] = Len(x[i])
  <2>1. Largos(x) = [i \in 1 .. n |-> Len(x[i])]  BY <1>6 DEF Largos
  <2>2. Largos(y) = [i \in 1 .. n |-> Len(y[i])]  BY <1>7 DEF Largos
  <2>3. [i \in 1 .. n |-> Len(x[i])] = [i \in 1 .. n |-> Len(y[i])]  BY <1>2
  <2>4. \A i \in 1 .. n : Len(x[i]) \in Nat  BY <1>2
  <2>. QED  BY <1>1, <2>1, <2>2, <2>3, <2>4
<1>9. PICK o : Sumas(o, Largos(x))  BY <1>8, SumasHay
<1>10. /\ I \in Seq(S) /\ Len(I) = o[n]
       /\ \A i \in 1 .. n : \A j \in 1 .. Len(x[i]) : I[o[i - 1] + j] = x[i][j]
  BY <1>4, <1>6, <1>9, Aplanado
<1>11. /\ s \in Seq(Renglon) /\ Len(s) = o[n]
       /\ \A i \in 1 .. n : \A j \in 1 .. Len(y[i]) : s[o[i - 1] + j] = y[i][j]
  <2>1. y \in Seq(Seq(Renglon)) /\ Sumas(o, Largos(y))  BY <1>7, <1>8, <1>9
  <2>2. /\ FlattenSeq(y) \in Seq(Renglon) /\ Len(FlattenSeq(y)) = o[Len(y)]
        /\ \A i \in 1 .. Len(y) : \A j \in 1 .. Len(y[i]) :
               FlattenSeq(y)[o[i - 1] + j] = y[i][j]
    BY ONLY <2>1, Aplanado
  <2>. QED  BY ONLY <1>5, <1>7, <2>2
<1>12. ASSUME NEW k \in 1 .. Len(s)
       PROVE  I[k] = DelRenglon(s[k]) /\ s[k] \in Renglon
  <2>1. k \in 1 .. o[Len(Largos(x))]  BY <1>8, <1>11
  <2>2. PICK i \in 1 .. n : \E j \in 1 .. Largos(x)[i] : k = o[i - 1] + j
    BY <1>8, <1>9, <2>1, SumasCubren
  <2>3. PICK j \in 1 .. Len(x[i]) : k = o[i - 1] + j  BY <1>8, <2>2
  <2>4. I[k] = x[i][j] /\ s[k] = y[i][j]  BY <1>2, <1>10, <1>11, <2>3
  <2>. QED  BY <1>1, <1>2, <2>4
<1>. QED  BY <1>10, <1>11, <1>12 DEF S, Instrucciones
=============================================================================
