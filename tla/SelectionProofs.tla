-------------------------- MODULE SelectionProofs ---------------------------
(***************************************************************************)
(* Lemmas for proofs about sequences: induction over the numbers in a form *)
(* that the provers can use, what Kept selects, and sequences of           *)
(* consecutive numbers that grow at their end.                             *)
(***************************************************************************)
EXTENDS Selection, SequenceTheorems, WellFoundedInduction, TLAPS

-----------------------------------------------------------------------------
(* Induction over sets of numbers *)

LEMMA LeastNumber ==
  ASSUME NEW T, T \subseteq Nat, T # {}
  PROVE  \E m \in T : \A n \in T : m <= n
<1> DEFINE R == {ss \in Nat \X Nat : ss[1] < ss[2]}
<1>1. IsWellFoundedOn(R, Nat)
  BY NatLessThanWellFounded DEF OpToRel
<1>2. PICK x \in T : \A y \in T : ~ (<<y, x>> \in R)
  <2> HIDE DEF R
  <2> QED BY <1>1, WFMin
<1>3. \A y \in T : ~ (y < x)
  BY <1>2
<1> QED BY <1>3

LEMMA Induction ==
  ASSUME NEW P, 0 \in P, \A n \in Nat : n \in P => n + 1 \in P
  PROVE  Nat \subseteq P
<1> SUFFICES ASSUME ~ (Nat \subseteq P) PROVE FALSE
  OBVIOUS
<1>1. PICK m \in Nat \ P : \A n \in Nat \ P : m <= n
  <2>1. Nat \ P \subseteq Nat /\ Nat \ P # {}
    OBVIOUS
  <2> QED BY <2>1, LeastNumber
<1>2. m # 0 /\ m - 1 \in Nat
  BY <1>1
<1>3. m - 1 \in P
  BY <1>1, <1>2
<1> QED BY <1>1, <1>2, <1>3

-----------------------------------------------------------------------------
(* Kept *)

IsKept(f, s, X, n) ==
  f = [m \in 0 .. n |-> IF m = 0 THEN <<>>
                        ELSE IF s[m] \in X THEN Append(f[m - 1], s[m]) ELSE f[m - 1]]

\* The recursive function of Kept exists, and is unique.
LEMMA KeptExists ==
  ASSUME NEW s, NEW X, NEW n \in Nat
  PROVE  \E f : IsKept(f, s, X, n)
<1> DEFINE P == {k \in Nat : \E f : IsKept(f, s, X, k)}
<1>1. 0 \in P
  <2>1. IsKept([m \in 0 .. 0 |-> <<>>], s, X, 0)
    BY DEF IsKept
  <2> QED BY <2>1
<1>2. ASSUME NEW k \in Nat, k \in P PROVE k + 1 \in P
  <2>1. PICK f : IsKept(f, s, X, k)
    BY <1>2
  <2> DEFINE h == [m \in 0 .. k + 1 |->
                     IF m = k + 1
                     THEN IF s[k + 1] \in X THEN Append(f[k], s[k + 1]) ELSE f[k]
                     ELSE f[m]]
  <2>2. \A m \in 0 .. k : f[m] = IF m = 0 THEN <<>>
                                 ELSE IF s[m] \in X THEN Append(f[m - 1], s[m]) ELSE f[m - 1]
    BY <2>1 DEF IsKept
  <2>3. ASSUME NEW m \in 0 .. k + 1
        PROVE  h[m] = IF m = 0 THEN <<>>
                      ELSE IF s[m] \in X THEN Append(h[m - 1], s[m]) ELSE h[m - 1]
    <3>1. CASE m = k + 1
      BY <3>1
    <3>2. CASE m # k + 1
      <4>1. m \in 0 .. k /\ h[m] = f[m] /\ (m # 0 => h[m - 1] = f[m - 1])
        BY <3>2
      <4> QED BY <4>1, <2>2
    <3> QED BY <3>1, <3>2
  <2>4. IsKept(h, s, X, k + 1)
    BY <2>3 DEF IsKept
  <2> QED BY <2>4
<1>3. Nat \subseteq P
  <2> HIDE DEF P
  <2> QED BY <1>1, <1>2, Induction
<1> QED BY <1>3

LEMMA KeptUnique ==
  ASSUME NEW s, NEW X, NEW n \in Nat, NEW k \in Nat, n <= k,
         NEW f, IsKept(f, s, X, n), NEW g, IsKept(g, s, X, k)
  PROVE  \A m \in 0 .. n : f[m] = g[m]
<1> DEFINE P == {m \in Nat : m <= n => f[m] = g[m]}
<1>0. /\ \A m \in 0 .. n : f[m] = IF m = 0 THEN <<>>
                                ELSE IF s[m] \in X THEN Append(f[m - 1], s[m]) ELSE f[m - 1]
      /\ \A m \in 0 .. k : g[m] = IF m = 0 THEN <<>>
                                ELSE IF s[m] \in X THEN Append(g[m - 1], s[m]) ELSE g[m - 1]
  BY DEF IsKept
<1>1. 0 \in P
  BY <1>0
<1>2. ASSUME NEW m \in Nat, m \in P PROVE m + 1 \in P
  <2> SUFFICES ASSUME m + 1 <= n PROVE f[m + 1] = g[m + 1]
    OBVIOUS
  <2>1. f[m] = g[m] /\ m + 1 \in 0 .. n /\ m + 1 \in 0 .. k /\ m + 1 # 0 /\ m + 1 - 1 = m
    BY <1>2
  <2> QED BY <1>0, <2>1
<1>3. Nat \subseteq P
  <2> HIDE DEF P
  <2> QED BY <1>1, <1>2, Induction
<1> QED BY <1>3

LEMMA KeptIs ==
  ASSUME NEW s, NEW X, Len(s) \in Nat
  PROVE  \E f : IsKept(f, s, X, Len(s)) /\ Kept(s, X) = f[Len(s)]
<1> DEFINE f == CHOOSE g : IsKept(g, s, X, Len(s))
<1>1. IsKept(f, s, X, Len(s))
  BY KeptExists
<1>2. Kept(s, X) = f[Len(s)]
  BY DEF Kept, IsKept
<1> HIDE DEF f
<1> QED BY <1>1, <1>2

LEMMA KeptOfNone == ASSUME NEW X PROVE Kept(<<>>, X) = <<>>
<1>1. PICK f : IsKept(f, <<>>, X, 0) /\ Kept(<<>>, X) = f[0]
  <2>1. Len(<<>>) = 0
    OBVIOUS
  <2> QED BY <2>1, KeptIs
<1>2. f[0] = <<>>
  BY <1>1 DEF IsKept
<1> QED BY <1>1, <1>2

\* What is kept of a sequence is of the type of its elements that are kept.
LEMMA KeptType ==
  ASSUME NEW S, NEW s \in Seq(S), NEW X, NEW T, S \cap X \subseteq T
  PROVE  Kept(s, X) \in Seq(T)
<1>0. Len(s) \in Nat /\ \A m \in 1 .. Len(s) : s[m] \in S
  OBVIOUS
<1>1. PICK f : IsKept(f, s, X, Len(s)) /\ Kept(s, X) = f[Len(s)]
  BY <1>0, KeptIs
<1> DEFINE P == {m \in Nat : m <= Len(s) => f[m] \in Seq(T)}
<1>2. \A m \in 0 .. Len(s) : f[m] = IF m = 0 THEN <<>>
                           ELSE IF s[m] \in X THEN Append(f[m - 1], s[m]) ELSE f[m - 1]
  BY <1>1 DEF IsKept
<1>3. 0 \in P
  <2>1. <<>> \in Seq(T) /\ f[0] = <<>>
    BY <1>0, <1>2
  <2> QED BY <2>1
<1>4. ASSUME NEW m \in Nat, m \in P PROVE m + 1 \in P
  <2> SUFFICES ASSUME m + 1 <= Len(s) PROVE f[m + 1] \in Seq(T)
    OBVIOUS
  <2>1. /\ f[m] \in Seq(T) /\ m + 1 \in 0 .. Len(s) /\ m + 1 \in 1 .. Len(s)
        /\ m + 1 # 0 /\ m + 1 - 1 = m
    BY <1>0, <1>4
  <2>2. f[m + 1] = IF s[m + 1] \in X THEN Append(f[m], s[m + 1]) ELSE f[m]
    BY <1>2, <2>1
  <2>3. s[m + 1] \in X => s[m + 1] \in T
    BY <1>0, <2>1
  <2> QED BY <2>1, <2>2, <2>3, AppendProperties
<1>5. Nat \subseteq P
  <2> HIDE DEF P
  <2> QED BY <1>3, <1>4, Induction
<1> QED BY <1>0, <1>1, <1>5

\* A new element is kept after the others, or not at all.
LEMMA KeptAppend ==
  ASSUME NEW S, NEW s \in Seq(S), NEW X, NEW e \in S
  PROVE  Kept(Append(s, e), X) = IF e \in X THEN Append(Kept(s, X), e) ELSE Kept(s, X)
<1> PICK t, n : t = Append(s, e) /\ n = Len(s)
  OBVIOUS
<1>0. /\ n \in Nat /\ Len(t) = n + 1 /\ t[n + 1] = e /\ \A m \in 1 .. n : t[m] = s[m]
  OBVIOUS
<1>1. PICK f : IsKept(f, s, X, n) /\ Kept(s, X) = f[n]
  BY <1>0, KeptIs
<1>2. PICK g : IsKept(g, t, X, n + 1) /\ Kept(t, X) = g[n + 1]
  <2>1. n + 1 \in Nat
    BY <1>0
  <2> QED BY <1>0, <2>1, KeptIs
<1>3. \A m \in 0 .. n + 1 : g[m] = IF m = 0 THEN <<>>
                           ELSE IF t[m] \in X THEN Append(g[m - 1], t[m]) ELSE g[m - 1]
  BY <1>2 DEF IsKept
<1>4. PICK h : h = [m \in 0 .. n |-> g[m]]
  OBVIOUS
<1>5. IsKept(h, s, X, n)
  <2>1. ASSUME NEW m \in 0 .. n
        PROVE  h[m] = IF m = 0 THEN <<>>
                      ELSE IF s[m] \in X THEN Append(h[m - 1], s[m]) ELSE h[m - 1]
    <3>1. m \in 0 .. n + 1 /\ h[m] = g[m]
      BY <1>0, <1>4
    <3>2. CASE m = 0
      BY <1>3, <3>1, <3>2
    <3>3. CASE m # 0
      <4>1. m - 1 \in 0 .. n /\ m \in 1 .. n
        BY <1>0, <3>3
      <4>2. h[m - 1] = g[m - 1] /\ t[m] = s[m]
        BY <1>0, <1>4, <4>1
      <4> QED BY <1>3, <3>1, <3>3, <4>2
    <3> QED BY <3>2, <3>3
  <2>2. h = [m \in 0 .. n |-> h[m]]
    BY <1>4
  <2> QED BY <2>1, <2>2 DEF IsKept
<1>6. h[n] = f[n] /\ h[n] = g[n]
  <2>1. \A m \in 0 .. n : h[m] = f[m]
    BY <1>0, <1>1, <1>5, KeptUnique
  <2> QED BY <1>0, <1>4, <2>1
<1>7. g[n + 1] = IF e \in X THEN Append(g[n], e) ELSE g[n]
  <2>1. n + 1 \in 0 .. n + 1 /\ n + 1 # 0 /\ n + 1 - 1 = n
    BY <1>0
  <2> QED BY <1>0, <1>3, <2>1
<1> QED BY <1>1, <1>2, <1>6, <1>7

-----------------------------------------------------------------------------
(* Sequences of numbers *)

LEMMA Associative ==
  ASSUME NEW a \in Seq(Nat), NEW b \in Seq(Nat), NEW c \in Seq(Nat)
  PROVE  (a \o b) \o c = a \o (b \o c)
BY ConcatAssociative

\* The next number at the end.
LEMMA NumbersAppend ==
  ASSUME NEW low \in Nat, NEW high \in Nat, low <= high + 1,
         NEW lost, lost \subseteq 1 .. high,
         NEW e \in Seq(Nat), Numbers(e, low, high, lost),
         NEW one, one = <<high + 1>>, NEW f, f = e \o one
  PROVE  Numbers(f, low, high + 1, lost)
<1>0. Increasing(e) /\ Range(e) = (low .. high) \ lost
  BY DEF Numbers
<1>1. one \in Seq(Nat) /\ Len(one) = 1 /\ one[1] = high + 1
  OBVIOUS
<1>2. /\ f \in Seq(Nat) /\ Len(f) = Len(e) + 1 /\ Len(e) \in Nat
      /\ DOMAIN f = 1 .. Len(f) /\ DOMAIN e = 1 .. Len(e)
      /\ \A i \in 1 .. Len(e) : f[i] = e[i]
      /\ f[Len(e) + 1] = high + 1
  <2>1. /\ f \in Seq(Nat) /\ Len(f) = Len(e) + Len(one)
        /\ \A i \in 1 .. Len(e) + Len(one) :
             f[i] = IF i <= Len(e) THEN e[i] ELSE one[i - Len(e)]
    BY <1>1, ConcatProperties
  <2>2. Len(e) \in Nat /\ DOMAIN e = 1 .. Len(e) /\ DOMAIN f = 1 .. Len(f)
    BY <2>1, LenProperties
  <2>3. Len(f) = Len(e) + 1
    BY <1>1, <2>1
  <2>4. \A i \in 1 .. Len(e) : f[i] = e[i]
    BY <1>1, <2>1, <2>2
  <2>5. f[Len(e) + 1] = high + 1
    <3>1. Len(e) + 1 \in 1 .. Len(e) + Len(one) /\ ~ (Len(e) + 1 <= Len(e))
          /\ Len(e) + 1 - Len(e) = 1
      BY <1>1, <2>2
    <3>2. f[Len(e) + 1] = one[Len(e) + 1 - Len(e)]
      BY <3>1, <2>1
    <3> QED BY <3>1, <3>2, <1>1
  <2> QED BY <2>1, <2>2, <2>3, <2>4, <2>5
<1>3. \A i \in DOMAIN e : e[i] \in low .. high
  <2>1. \A i \in DOMAIN e : e[i] \in Range(e)
    BY DEF Range
  <2> QED BY <1>0, <2>1
<1>4. ASSUME NEW i \in DOMAIN f, NEW j \in DOMAIN f, i < j PROVE f[i] < f[j]
  <2>1. i \in 1 .. Len(e) /\ i \in DOMAIN e
    BY <1>2, <1>4
  <2>2. CASE j \in 1 .. Len(e)
    BY <1>0, <1>2, <1>4, <2>1, <2>2 DEF Increasing
  <2>3. CASE j = Len(e) + 1
    BY <1>2, <1>3, <2>1, <2>3
  <2> QED BY <1>2, <2>2, <2>3
<1>5. Range(f) = Range(e) \cup {high + 1}
  <2>1. \A y : y \in Range(f) <=> \E i \in 1 .. Len(e) + 1 : y = f[i]
    BY <1>2 DEF Range
  <2>2. \A y : y \in Range(e) <=> \E i \in 1 .. Len(e) : y = e[i]
    BY <1>2 DEF Range
  <2>3. \A i \in 1 .. Len(e) + 1 : i \in 1 .. Len(e) \/ i = Len(e) + 1
    BY <1>2
  <2>4. \A i \in 1 .. Len(e) : i \in 1 .. Len(e) + 1
    BY <1>2
  <2>5. Len(e) + 1 \in 1 .. Len(e) + 1
    BY <1>2
  <2>6. ASSUME NEW y \in Range(f) PROVE y \in Range(e) \cup {high + 1}
    <3>1. PICK i \in 1 .. Len(e) + 1 : y = f[i]
      BY <2>1, <2>6
    <3>2. CASE i \in 1 .. Len(e)
      BY <1>2, <2>2, <3>1, <3>2
    <3>3. CASE i = Len(e) + 1
      BY <1>2, <3>1, <3>3
    <3> QED BY <2>3, <3>2, <3>3
  <2>7. ASSUME NEW y \in Range(e) \cup {high + 1} PROVE y \in Range(f)
    <3>1. CASE y \in Range(e)
      BY <1>2, <2>1, <2>2, <2>4, <3>1
    <3>2. CASE y = high + 1
      BY <1>2, <2>1, <2>5, <3>2
    <3> QED BY <2>7, <3>1, <3>2
  <2> QED BY <2>6, <2>7
<1>6. (low .. high + 1) \ lost = ((low .. high) \ lost) \cup {high + 1}
  OBVIOUS
<1>7. Increasing(f)
  BY <1>4 DEF Increasing
<1> QED BY <1>0, <1>5, <1>6, <1>7 DEF Numbers
=============================================================================
