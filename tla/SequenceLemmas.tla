---------------------------- MODULE SequenceLemmas ----------------------------
(***************************************************************************)
(* Facts about sequences that the proofs about more than one component     *)
(* need: FlattenSeq, which joins the parts of a packet and the texts of a  *)
(* frame, and what follows from the least element of a set of numbers.     *)
(***************************************************************************)
EXTENDS Integers, SequencesExt, SequenceTheorems, WellFoundedInduction, TLAPS

-----------------------------------------------------------------------------
(* Numbers.  A set of them has a least element, and one that holds 0 and   *)
(* every successor is Nat.                                                 *)

LEMMA LeastExists ==
  ASSUME NEW S \in SUBSET Nat, S # {}
  PROVE  \E x \in S : \A y \in S : x <= y
<1> DEFINE R == {ss \in Nat \X Nat : ss[1] < ss[2]}
<1>1. IsWellFoundedOn(R, Nat)
  BY NatLessThanWellFounded DEF OpToRel
<1>2. PICK x \in S : \A y \in S : ~ (<<y, x>> \in R)
  <2> HIDE DEF R
  <2> QED BY <1>1, WFMin
<1>3. ASSUME NEW y \in S, y < x PROVE <<y, x>> \in R
  <2>1. <<y, x>> \in Nat \X Nat
    OBVIOUS
  <2>2. <<y, x>>[1] < <<y, x>>[2]
    BY <1>3
  <2> QED BY <2>1, <2>2
<1> HIDE DEF R
<1>4. \A y \in S : ~ (y < x)
  BY <1>2, <1>3
<1> QED BY <1>4

LEMMA EveryNatural ==
    ASSUME NEW S \in SUBSET Nat, 0 \in S, \A n \in S : n + 1 \in S
    PROVE  S = Nat
<1>1. ASSUME Nat \ S # {} PROVE FALSE
  <2>1. PICK x \in Nat \ S : \A y \in Nat \ S : x <= y
    BY <1>1, LeastExists
  <2>2. x # 0 /\ x - 1 \in Nat /\ ~ (x <= x - 1)
    BY <2>1
  <2>3. x - 1 \in S => x - 1 + 1 \in S
    OBVIOUS
  <2> QED BY <2>1, <2>2, <2>3
<1> QED BY <1>1

-----------------------------------------------------------------------------
(* Sequences that become longer.                                           *)

LEMMA ConcatAppend ==
    ASSUME NEW V, NEW s \in Seq(V), NEW t \in Seq(V), NEW c \in V
    PROVE  s \o Append(t, c) = Append(s \o t, c)
<1>1. Append(t, c) = t \o <<c>> /\ <<c>> \in Seq(V)
  BY AppendIsConcat
<1>2. s \o t \in Seq(V)
  BY ConcatProperties
<1>3. Append(s \o t, c) = (s \o t) \o <<c>>
  BY <1>2, AppendIsConcat
<1> QED BY <1>1, <1>3, ConcatAssociative

LEMMA Longer ==
    ASSUME NEW V, NEW s \in Seq(V), NEW k \in 1 .. Len(s)
    PROVE  SubSeq(s, 1, k) = Append(SubSeq(s, 1, k - 1), s[k])
<1>1. s[k] \in V /\ k \in Nat /\ k - 1 \in Nat /\ Len(s) \in Nat /\ k <= Len(s)
  OBVIOUS
<1>2. /\ SubSeq(s, 1, k) \in Seq(V) /\ Len(SubSeq(s, 1, k)) = k
      /\ \A i \in 1 .. k : SubSeq(s, 1, k)[i] = s[i]
  BY <1>1
<1>3. /\ SubSeq(s, 1, k - 1) \in Seq(V) /\ Len(SubSeq(s, 1, k - 1)) = k - 1
      /\ \A i \in 1 .. k - 1 : SubSeq(s, 1, k - 1)[i] = s[i]
  BY <1>1
<1> DEFINE a == SubSeq(s, 1, k - 1)
           b == Append(a, s[k])
<1>4. b \in Seq(V) /\ Len(b) = k /\ \A i \in 1 .. k : b[i] = IF i <= k - 1 THEN a[i] ELSE s[k]
  <2>1. a \in Seq(V) /\ Len(a) = k - 1
    BY <1>3
  <2> HIDE DEF a
  <2> QED BY <1>1, <2>1
<1>5. ASSUME NEW i \in 1 .. k PROVE b[i] = s[i]
  <2>1. CASE i <= k - 1
    BY <1>1, <1>3, <1>4, <2>1
  <2>2. CASE ~ (i <= k - 1)
    <3>1. i = k
      BY <1>1, <2>2
    <3> QED BY <1>4, <2>2, <3>1
  <2> QED BY <2>1, <2>2
<1> HIDE DEF b
<1>6. SubSeq(s, 1, k) = b
  BY <1>1, <1>2, <1>4, <1>5
<1> QED BY <1>6 DEF b

-----------------------------------------------------------------------------
(* FlattenSeq is defined by a recursive function.  That the function       *)
(* exists, and what it becomes when a sequence joins the others at the     *)
(* end, is shown with the set of the lengths for which it holds.           *)

(* The equation that defines the function, up to n.                        *)
Defines(f, ss, n) ==
    f = [i \in 1 .. n |-> IF i = 1 THEN ss[i] ELSE f[i - 1] \o ss[i]]

(* The same, point by point.                                               *)
Joined(s, t) == s \o t

Flattens(f, ss, n) ==
    \A i \in 1 .. n : f[i] = IF i = 1 THEN ss[i] ELSE Joined(f[i - 1], ss[i])

LEMMA FlattenFunction ==
    ASSUME NEW V, NEW ss \in Seq(Seq(V)), NEW n \in Nat, n <= Len(ss)
    PROVE  \E f \in [1 .. n -> Seq(V)] : Defines(f, ss, n)
<1> DEFINE S == {m \in Nat : m <= Len(ss) => \E f \in [1 .. m -> Seq(V)] : Defines(f, ss, m)}
<1>1. 0 \in S
  <2>1. <<>> \in [1 .. 0 -> Seq(V)] /\ Defines(<<>>, ss, 0)
    BY DEF Defines
  <2> QED BY <2>1
<1>2. ASSUME NEW m \in S PROVE m + 1 \in S
  <2> SUFFICES ASSUME m + 1 <= Len(ss)
               PROVE  \E f \in [1 .. m + 1 -> Seq(V)] : Defines(f, ss, m + 1)
    OBVIOUS
  <2>1. m \in Nat /\ Len(ss) \in Nat
    OBVIOUS
  <2>2. PICK f \in [1 .. m -> Seq(V)] : Defines(f, ss, m)
    BY <2>1
  <2> DEFINE g == [i \in 1 .. m + 1 |->
                     IF i <= m THEN f[i] ELSE IF i = 1 THEN ss[i] ELSE f[m] \o ss[i]]
  <2>3. ASSUME NEW i \in 1 .. m + 1
        PROVE  g[i] = (IF i = 1 THEN ss[i] ELSE g[i - 1] \o ss[i]) /\ g[i] \in Seq(V)
    <3>0. ss[i] \in Seq(V)
      BY <2>1
    <3>1. CASE i <= m
      <4>0. i \in 1 .. m
        BY <2>1, <3>1
      <4>1. f[i] = (IF i = 1 THEN ss[i] ELSE f[i - 1] \o ss[i]) /\ f[i] \in Seq(V)
        BY <2>2, <4>0, Zenon DEF Defines
      <4>2. i # 1 => i - 1 \in 1 .. m
        BY <2>1, <3>1
      <4>3. g[i] = f[i] /\ (i # 1 => g[i - 1] = f[i - 1])
        BY <2>1, <3>1, <4>0, <4>2
      <4> HIDE DEF g
      <4> QED BY <4>1, <4>3
    <3>2. CASE i = m + 1 /\ i = 1
      BY <2>1, <3>0, <3>2
    <3>3. CASE i = m + 1 /\ i # 1
      <4>1. m \in 1 .. m /\ i - 1 = m /\ ~ (i <= m)
        BY <2>1, <3>3
      <4>2. g[i - 1] = f[m] /\ g[i] = f[m] \o ss[i]
        BY <2>1, <3>3, <4>1
      <4>3. f[m] \o ss[i] \in Seq(V)
        BY <2>2, <3>0, <4>1, ConcatProperties
      <4> HIDE DEF g
      <4> QED BY <3>3, <4>2, <4>3
    <3> QED BY <2>1, <3>1, <3>2, <3>3
  <2>4. DOMAIN g = 1 .. m + 1 /\ g = [i \in 1 .. m + 1 |-> g[i]]
    OBVIOUS
  <2> HIDE DEF g
  <2>5. g = [i \in 1 .. m + 1 |-> IF i = 1 THEN ss[i] ELSE g[i - 1] \o ss[i]]
    BY <2>3, <2>4
  <2>6. g \in [1 .. m + 1 -> Seq(V)]
    BY <2>3, <2>4
  <2> QED BY <2>5, <2>6 DEF Defines
<1> HIDE DEF S
<1>3. S = Nat
  <2>1. S \in SUBSET Nat
    BY DEF S
  <2> QED BY <1>1, <1>2, <2>1, EveryNatural
<1> QED BY <1>3 DEF S

LEMMA DefinesFlattens ==
    ASSUME NEW f, NEW ss, NEW n, Defines(f, ss, n)
    PROVE  Flattens(f, ss, n)
<1> DEFINE g == [k \in 1 .. n |-> IF k = 1 THEN ss[k] ELSE f[k - 1] \o ss[k]]
<1>1. f = g
  BY Zenon DEF Defines
<1>2. \A i \in 1 .. n : g[i] = IF i = 1 THEN ss[i] ELSE Joined(f[i - 1], ss[i])
  BY Zenon DEF Joined
<1> HIDE DEF g
<1> QED BY <1>1, <1>2 DEF Flattens

Agree(s, t, n) == \A i \in 1 .. n : s[i] = t[i]

(* Where the sequences agree, so do the functions.                         *)
LEMMA FlattensAgree ==
    ASSUME NEW f, NEW g, NEW ss, NEW tt, NEW n \in Nat, NEW m \in Nat, n <= m,
           Flattens(f, ss, n), Flattens(g, tt, m),
           Agree(ss, tt, n)
    PROVE  Agree(f, g, n)
<1> DEFINE S == {i \in Nat : i \in 1 .. n => f[i] = g[i]}
<1>1. 0 \in S
  OBVIOUS
<1>2. ASSUME NEW i \in S PROVE i + 1 \in S
  <2> SUFFICES ASSUME i + 1 \in 1 .. n PROVE f[i + 1] = g[i + 1]
    OBVIOUS
  <2>1. i \in Nat /\ i + 1 \in 1 .. m /\ i + 1 - 1 = i
    OBVIOUS
  <2>2. f[i + 1] = IF i + 1 = 1 THEN ss[i + 1] ELSE Joined(f[i + 1 - 1], ss[i + 1])
    BY DEF Flattens
  <2>3. g[i + 1] = IF i + 1 = 1 THEN tt[i + 1] ELSE Joined(g[i + 1 - 1], tt[i + 1])
    BY <2>1 DEF Flattens
  <2>4. i + 1 # 1 => f[i] = g[i]
    BY <2>1
  <2>5. ss[i + 1] = tt[i + 1]
    BY DEF Agree
  <2> QED BY <2>1, <2>2, <2>3, <2>4, <2>5, Zenon
<1> HIDE DEF S
<1>3. S = Nat
  <2>1. S \in SUBSET Nat
    BY DEF S
  <2> QED BY <1>1, <1>2, <2>1, EveryNatural
<1>4. \A i \in 1 .. n : i \in Nat
  OBVIOUS
<1> QED BY <1>3, <1>4 DEF S, Agree

LEMMA FlattenUnfolds ==
    ASSUME NEW V, NEW ss \in Seq(Seq(V)), Len(ss) # 0
    PROVE  \E f \in [1 .. Len(ss) -> Seq(V)] : Flattens(f, ss, Len(ss)) /\ FlattenSeq(ss) = f[Len(ss)]
<1> DEFINE flatten[i \in 1 .. Len(ss)] == IF i = 1 THEN ss[i] ELSE flatten[i - 1] \o ss[i]
<1>1. FlattenSeq(ss) = flatten[Len(ss)]
  BY DEF FlattenSeq
<1>2. Len(ss) \in Nat /\ Len(ss) <= Len(ss)
  OBVIOUS
<1>3. \E f : Defines(f, ss, Len(ss))
  BY <1>2, FlattenFunction
<1>4. Defines(flatten, ss, Len(ss))
  BY <1>3 DEF Defines
<1> HIDE DEF flatten
<1>5. PICK f \in [1 .. Len(ss) -> Seq(V)] : Defines(f, ss, Len(ss))
  BY <1>2, FlattenFunction
<1>0. Flattens(f, ss, Len(ss)) /\ Flattens(flatten, ss, Len(ss))
  BY <1>4, <1>5, DefinesFlattens
<1>6. Agree(f, flatten, Len(ss))
  BY <1>0, <1>2, FlattensAgree DEF Agree
<1>7. Len(ss) \in 1 .. Len(ss)
  BY <1>2
<1> QED BY <1>0, <1>1, <1>6, <1>7 DEF Agree

LEMMA FlattenNothing == FlattenSeq(<<>>) = <<>>
BY DEF FlattenSeq

LEMMA FlattenIsSeq ==
    ASSUME NEW V, NEW ss \in Seq(Seq(V))
    PROVE  FlattenSeq(ss) \in Seq(V)
<1>1. CASE Len(ss) = 0
  <2>1. ss = <<>>
    BY <1>1
  <2>2. <<>> \in Seq(V)
    OBVIOUS
  <2> QED BY <2>1, <2>2, FlattenNothing, Zenon
<1>2. CASE Len(ss) # 0
  <2>1. Len(ss) \in 1 .. Len(ss)
    BY <1>2
  <2>2. PICK f \in [1 .. Len(ss) -> Seq(V)] : FlattenSeq(ss) = f[Len(ss)]
    BY <1>2, FlattenUnfolds
  <2> QED BY <2>1, <2>2
<1> QED BY <1>1, <1>2

(* A sequence more at the end.                                             *)
LEMMA FlattensAppend ==
    ASSUME NEW f, NEW g, NEW ss, NEW tt, NEW n \in Nat \ {0}, NEW m \in Nat, m = n + 1,
           Flattens(f, ss, n), Flattens(g, tt, m),
           Agree(ss, tt, n)
    PROVE  g[m] = Joined(f[n], tt[m])
<1>1. n \in Nat /\ n <= m
  OBVIOUS
<1>2. Agree(f, g, n)
  BY <1>1, FlattensAgree
<1>3. n \in 1 .. n /\ m \in 1 .. m /\ m # 1 /\ m - 1 = n
  OBVIOUS
<1>4. g[m] = Joined(g[m - 1], tt[m])
  BY <1>3 DEF Flattens
<1> QED BY <1>2, <1>3, <1>4 DEF Agree

LEMMA FlattenAppend ==
    ASSUME NEW V, NEW ss \in Seq(Seq(V)), NEW s \in Seq(V)
    PROVE  FlattenSeq(Append(ss, s)) = FlattenSeq(ss) \o s
<1>1. PICK n \in Nat : n = Len(ss)
  OBVIOUS
<1>2. PICK tt : tt = Append(ss, s)
  OBVIOUS
<1>3. PICK m \in Nat : m = n + 1
  OBVIOUS
<1>4. tt \in Seq(Seq(V)) /\ Len(tt) = m /\ Len(tt) # 0 /\ m \in 1 .. m
  BY <1>1, <1>2, <1>3
<1>5. tt[m] = s /\ Agree(ss, tt, n)
  BY <1>1, <1>2, <1>3 DEF Agree
<1>6. PICK g : Flattens(g, tt, m) /\ FlattenSeq(tt) = g[m]
  BY <1>4, FlattenUnfolds
<1>7. CASE n = 0
  <2>1. Len(ss) = 0 => ss = <<>>
    OBVIOUS
  <2>2. FlattenSeq(ss) \o s = s
    BY <1>1, <1>7, <2>1, FlattenNothing, ConcatEmptySeq
  <2>3. m = 1 => g[m] = tt[m]
    BY <1>4, <1>6 DEF Flattens
  <2> QED BY <1>2, <1>3, <1>5, <1>6, <1>7, <2>2, <2>3
<1>8. CASE n # 0
  <2>1. PICK f : Flattens(f, ss, n) /\ FlattenSeq(ss) = f[n]
    BY <1>1, <1>8, FlattenUnfolds
  <2>2. n \in Nat \ {0}
    BY <1>8
  <2>3. g[m] = Joined(f[n], tt[m])
    BY <1>3, <1>5, <1>6, <2>1, <2>2, FlattensAppend
  <2> QED BY <1>2, <1>5, <1>6, <2>1, <2>3 DEF Joined
<1> QED BY <1>7, <1>8

(* A sequence more at the beginning.                                       *)
LEMMA FlattenCons ==
    ASSUME NEW V, NEW ss \in Seq(Seq(V)), NEW s \in Seq(V)
    PROVE  FlattenSeq(<<s>> \o ss) = s \o FlattenSeq(ss)
<1> DEFINE P(tt) == FlattenSeq(<<s>> \o tt) = s \o FlattenSeq(tt)
<1> HIDE DEF P
<1> DEFINE S == {n \in Nat : \A tt \in Seq(Seq(V)) : Len(tt) = n => P(tt)}
<1>0. <<s>> \in Seq(Seq(V))
  OBVIOUS
<1>1. 0 \in S
  <2> SUFFICES ASSUME NEW tt \in Seq(Seq(V)), Len(tt) = 0 PROVE P(tt)
    OBVIOUS
  <2>1. tt = <<>> /\ <<s>> \o tt = <<s>> /\ <<>> \in Seq(Seq(V)) /\ <<>> \in Seq(V)
    BY <1>0, ConcatEmptySeq, EmptySeq
  <2>2. <<s>> = Append(<<>>, s)
    OBVIOUS
  <2>3. FlattenSeq(Append(<<>>, s)) = FlattenSeq(<<>>) \o s
    BY <2>1, FlattenAppend
  <2>4. <<>> \o s = s /\ s \o <<>> = s
    BY ConcatEmptySeq
  <2> QED BY <2>1, <2>2, <2>3, <2>4, FlattenNothing, Zenon DEF P
<1>2. ASSUME NEW n \in S PROVE n + 1 \in S
  <2> SUFFICES ASSUME NEW tt \in Seq(Seq(V)), Len(tt) = n + 1 PROVE P(tt)
    OBVIOUS
  <2>1. n \in Nat /\ tt # <<>>
    <3>1. Len(tt) \in Nat /\ (tt = <<>> => Len(tt) = 0) /\ n \in Nat
      OBVIOUS
    <3> QED BY <3>1
  <2> DEFINE f == SubSeq(tt, 1, n)
             l == tt[n + 1]
  <2>2. f \in Seq(Seq(V)) /\ l \in Seq(V) /\ Len(f) = n /\ tt = Append(f, l)
    <3>1. n + 1 \in 1 .. Len(tt) /\ n + 1 - 1 = n
      BY <2>1
    <3>2. SubSeq(tt, 1, n + 1) = Append(SubSeq(tt, 1, n), tt[n + 1])
      BY <3>1, Longer
    <3>3. SubSeq(tt, 1, Len(tt)) = tt
      OBVIOUS
    <3>4. SubSeq(tt, 1, n) \in Seq(Seq(V)) /\ Len(SubSeq(tt, 1, n)) = n
      BY <2>1
    <3> QED BY <3>1, <3>2, <3>3, <3>4
  <2>3. P(f)
    BY <2>2
  <2> HIDE DEF f, l
  <2>4. <<s>> \o tt = Append(<<s>> \o f, l) /\ <<s>> \o f \in Seq(Seq(V))
    BY <1>0, <2>2, ConcatAppend, ConcatProperties
  <2>5. FlattenSeq(<<s>> \o tt) = FlattenSeq(<<s>> \o f) \o l
    BY <2>2, <2>4, FlattenAppend
  <2>6. FlattenSeq(tt) = FlattenSeq(f) \o l /\ FlattenSeq(f) \in Seq(V)
    BY <2>2, FlattenAppend, FlattenIsSeq
  <2>7. (s \o FlattenSeq(f)) \o l = s \o (FlattenSeq(f) \o l)
    BY <2>2, <2>6, ConcatAssociative
  <2> QED BY <2>3, <2>5, <2>6, <2>7, Zenon DEF P
<1> HIDE DEF S
<1>3. S = Nat
  <2>1. S \in SUBSET Nat
    BY DEF S
  <2> QED BY <1>1, <1>2, <2>1, EveryNatural
<1>4. Len(ss) \in S
  BY <1>3
<1> QED BY <1>4 DEF S, P
===============================================================================
