-------------------------- MODULE LibraryLemmas --------------------------
(* What several modules of proofs need to know of sequences, and of          *)
(* recursion and induction.                                                  *)
EXTENDS Integers, Sequences, SequenceTheorems, WellFoundedInduction, TLAPS

-----------------------------------------------------------------------------
(* Sequences: built by a function constructor, cut, appended to, and popped. *)

\* A function on 1 .. n is a sequence of length n.
LEMMA FunctionIsSeq ==
    ASSUME NEW S, NEW n \in Nat, NEW f \in [1 .. n -> S]
    PROVE  f \in Seq(S) /\ Len(f) = n /\ DOMAIN f = 1 .. n
<1>1. f \in Seq(S)
  BY SeqDef
<1> QED
  BY <1>1, LenProperties

\* Appending adds one element and keeps the others.
LEMMA AppendEffect ==
    ASSUME NEW S, NEW s \in Seq(S), NEW e \in S
    PROVE  /\ Append(s, e) \in Seq(S)
           /\ Len(Append(s, e)) = Len(s) + 1
           /\ \A i \in 1 .. Len(s) : Append(s, e)[i] = s[i]
           /\ Append(s, e)[Len(s) + 1] = e
  OBVIOUS

\* Popping removes the last element and keeps the others.
LEMMA PopEffect ==
    ASSUME NEW S, NEW s \in Seq(S), s # <<>>
    PROVE  /\ SubSeq(s, 1, Len(s) - 1) \in Seq(S)
           /\ Len(SubSeq(s, 1, Len(s) - 1)) = Len(s) - 1
           /\ \A i \in 1 .. Len(s) - 1 : SubSeq(s, 1, Len(s) - 1)[i] = s[i]
<1>1. Len(s) \in Nat /\ Len(s) > 0
  BY EmptySeq, LenProperties
<1>2. \A i \in 1 .. Len(s) - 1 : s[i] \in S
  BY <1>1, ElementOfSeq
<1>3. Len(s) - 1 \in Int
  BY <1>1
<1> DEFINE n == Len(s) - 1
           t == SubSeq(s, 1, n)
<1>4. /\ t \in Seq(S)
      /\ Len(t) = IF 1 <= n THEN n - 1 + 1 ELSE 0
      /\ \A i \in 1 .. n - 1 + 1 : t[i] = s[1 + i - 1]
  BY <1>2, <1>3, SubSeqProperties
<1>5. n \in Nat
  BY <1>1
<1> HIDE DEF t, n
<1>6. Len(t) = n /\ \A i \in 1 .. n : t[i] = s[i]
  BY <1>4, <1>5
<1> QED
  BY <1>4, <1>6 DEF t, n

\* What a sequence has between its first w elements and its last ones.
LEMMA PartOf ==
    ASSUME NEW S, NEW s \in Seq(S), NEW w \in Nat, NEW m \in Nat, w + m <= Len(s)
    PROVE  /\ SubSeq(s, w + 1, w + m) \in Seq(S)
           /\ Len(SubSeq(s, w + 1, w + m)) = m
           /\ \A i \in 1 .. m : SubSeq(s, w + 1, w + m)[i] = s[w + i]
<1> DEFINE x == w + 1
           y == w + m
           t == SubSeq(s, x, y)
<1>1. Len(s) \in Nat  BY LenProperties
<1>2. x \in Int /\ y \in Int /\ (m = 0 => y < x) /\ (m # 0 => x <= y) /\ y - x + 1 = m  OBVIOUS
<1>3. \A i \in x .. y : s[i] \in S
  <2>1. \A i \in x .. y : i \in 1 .. Len(s)  BY <1>1
  <2> QED  BY <2>1, ElementOfSeq
<1>4. \A i \in 1 .. m : x + i - 1 = w + i  OBVIOUS
<1> HIDE DEF x, y
<1>5. /\ t \in Seq(S) /\ Len(t) = IF x <= y THEN y - x + 1 ELSE 0
      /\ \A i \in 1 .. y - x + 1 : t[i] = s[x + i - 1]
  BY <1>2, <1>3, SubSeqProperties
<1> HIDE DEF t
<1>6. Len(t) = m
  BY <1>2, <1>5
<1>7. \A i \in 1 .. m : t[i] = s[w + i]
  BY <1>2, <1>4, <1>5
<1> QED  BY <1>5, <1>6, <1>7 DEF t, x, y

\* A sequence that agrees with another on all but one last element was appended to.
LEMMA IsAppend ==
    ASSUME NEW S, NEW s \in Seq(S), NEW e \in S, NEW t \in Seq(S),
           Len(t) = Len(s) + 1, \A i \in 1 .. Len(s) : t[i] = s[i], t[Len(s) + 1] = e
    PROVE  t = Append(s, e)
<1>1. /\ Append(s, e) \in Seq(S) /\ Len(Append(s, e)) = Len(t)
      /\ \A i \in 1 .. Len(s) : Append(s, e)[i] = t[i]
      /\ Append(s, e)[Len(s) + 1] = t[Len(s) + 1]
  BY AppendEffect
<1>2. Len(s) \in Nat  BY LenProperties
<1>3. \A i \in 1 .. Len(t) : Append(s, e)[i] = t[i]  BY <1>1, <1>2
<1> QED  BY <1>1, <1>3, SeqEqual

\* A sequence that is another one shifted by a place is its tail.
LEMMA IsTail ==
    ASSUME NEW S, NEW s \in Seq(S), s # <<>>, NEW t \in Seq(S),
           Len(t) = Len(s) - 1, \A i \in 1 .. Len(t) : t[i] = s[i + 1]
    PROVE  t = Tail(s)
<1>1. /\ Tail(s) \in Seq(S) /\ Len(Tail(s)) = Len(s) - 1
      /\ \A i \in 1 .. Len(Tail(s)) : Tail(s)[i] = s[i + 1]
  BY HeadTailProperties
<1> QED  BY <1>1, SeqEqual

-----------------------------------------------------------------------------
(* Induction and recursion.  The theorems of the library take a predicate or  *)
(* an operator, which the provers cannot instantiate; sets and functions they *)
(* can.                                                                       *)

\* A set of natural numbers has a least element: the form of induction that the provers
\* can use.
LEMMA LeastNatural ==
    ASSUME NEW B \in SUBSET Nat, B # {}
    PROVE  \E m \in B : \A n \in B : m <= n
<1> DEFINE R == {p \in Nat \X Nat : p[1] < p[2]}
<1>1. IsWellFoundedOn(R, Nat)
  BY NatLessThanWellFounded DEF OpToRel
<1>2. PICK m \in B : \A n \in B : <<n, m>> \notin R
  <2> HIDE DEF R
  <2> QED BY <1>1, WFMin
<1>3. \A n \in B : m <= n
  <2> SUFFICES ASSUME NEW n \in B PROVE m <= n  OBVIOUS
  <2>1. m \in Nat /\ n \in Nat  OBVIOUS
  <2>2. <<n, m>> \notin R  BY <1>2
  <2>3. ~(n < m)
    <3> SUFFICES ASSUME n < m PROVE <<n, m>> \in R  BY <2>2
    <3> QED  BY <2>1
  <2> QED  BY <2>1, <2>3
<1> QED  BY <1>3

\* Induction for a set of natural numbers.
LEMMA InductionOn ==
    ASSUME NEW N \in SUBSET Nat, NEW n \in Nat, 0 \in N, \A i \in 0 .. n - 1 : i \in N => i + 1 \in N
    PROVE  0 .. n \subseteq N
<1> DEFINE B == (0 .. n) \ N
<1> SUFFICES ASSUME B # {} PROVE FALSE  OBVIOUS
<1>1. B \in SUBSET Nat  OBVIOUS
<1>2. PICK m \in B : \A k \in B : m <= k
  <2> HIDE DEF B
  <2> QED  BY <1>1, LeastNatural
<1>3. m \in 0 .. n /\ m \notin N /\ m # 0  BY <1>2
<1>4. m - 1 \in 0 .. n - 1 /\ (m - 1) + 1 = m /\ ~(m <= m - 1)  BY <1>3
<1>5. m - 1 \notin N  BY <1>3, <1>4
<1>6. m - 1 \in B  BY <1>3, <1>5
<1> QED  BY <1>2, <1>4, <1>6

\* What a loop of n rounds computes: f[i] is the state after i rounds, a member of S.
IsLoop(f, S, n, z, Step) ==
    /\ f \in [0 .. n -> S]
    /\ f[0] = z
    /\ \A i \in 1 .. n : f[i] = Step[<<i, f[i - 1]>>]

\* A loop whose rounds are defined on S, and stay in it, computes something.
LEMMA LoopExists ==
    ASSUME NEW S, NEW n \in Nat, NEW z \in S, NEW Step \in [(1 .. n) \X S -> S]
    PROVE  \E f : IsLoop(f, S, n, z, Step)
<1> USE DEF IsLoop
<1> DEFINE Series(k) == {f \in [0 .. k -> S] : IsLoop(f, S, k, z, Step)}
           N == {k \in Nat : Series(k) # {}}
<1>1. 0 \in N
  <2> DEFINE f == [i \in 0 .. 0 |-> z]
  <2>1. f \in [0 .. 0 -> S] /\ f[0] = z /\ \A i \in 1 .. 0 : FALSE  OBVIOUS
  <2>2. f \in Series(0)  BY <2>1
  <2> QED  BY <2>2
<1>2. ASSUME NEW k \in 0 .. n - 1, k \in N PROVE k + 1 \in N
  <2>1. PICK f : f \in Series(k)  BY <1>2
  <2> DEFINE g == [i \in 0 .. k + 1 |-> IF i = k + 1 THEN Step[<<k + 1, f[k]>>] ELSE f[i]]
  <2>2. f \in [0 .. k -> S] /\ f[0] = z /\ \A i \in 1 .. k : f[i] = Step[<<i, f[i - 1]>>]
    BY <2>1
  <2>3. k \in Nat /\ k + 1 \in 1 .. n /\ k \in 0 .. k /\ k + 1 \in Nat /\ 0 # k + 1  OBVIOUS
  <2>4. Step[<<k + 1, f[k]>>] \in S  BY <2>2, <2>3
  <2>5. \A i \in 0 .. k + 1 : i # k + 1 => i \in 0 .. k  OBVIOUS
  <2>6. g \in [0 .. k + 1 -> S]  BY <2>2, <2>4, <2>5
  <2>7. g[0] = z  BY <2>2, <2>3
  <2>8. ASSUME NEW i \in 1 .. k + 1 PROVE g[i] = Step[<<i, g[i - 1]>>]
    <3>1. i \in 0 .. k + 1 /\ i - 1 \in 0 .. k + 1 /\ i - 1 # k + 1  BY <2>3
    <3>2. g[i - 1] = f[i - 1]  BY <3>1
    <3>3. CASE i = k + 1
      <4>1. g[i] = Step[<<k + 1, f[k]>>] /\ i - 1 = k  BY <2>3, <3>1, <3>3
      <4> QED  BY <3>2, <3>3, <4>1
    <3>4. CASE i # k + 1
      <4>1. g[i] = f[i] /\ i \in 1 .. k  BY <2>3, <3>1, <3>4
      <4> QED  BY <2>2, <3>2, <4>1
    <3> QED  BY <3>3, <3>4
  <2> HIDE DEF g
  <2>9. g \in Series(k + 1)  BY <2>6, <2>7, <2>8
  <2> HIDE DEF Series
  <2> QED  BY <2>3, <2>9
<1> HIDE DEF N
<1>3. n \in N
  <2>1. N \in SUBSET Nat  BY DEF N
  <2>2. n \in 0 .. n  OBVIOUS
  <2> QED  BY <1>1, <1>2, <2>1, <2>2, InductionOn
<1> QED  BY <1>3 DEF N

\* A function that obeys the recursion as long as it stays in S obeys it throughout.
LEMMA IsTheLoop ==
    ASSUME NEW S, NEW n \in Nat, NEW z \in S, NEW Step \in [(1 .. n) \X S -> S],
           NEW g, DOMAIN g = 0 .. n, g = [i \in DOMAIN g |-> g[i]], g[0] = z,
           \A i \in 1 .. n : g[i - 1] \in S => g[i] = Step[<<i, g[i - 1]>>]
    PROVE  IsLoop(g, S, n, z, Step)
<1> DEFINE N == {k \in Nat : g[k] \in S}
<1>1. ASSUME NEW k \in 0 .. n - 1, k \in N PROVE k + 1 \in N
  <2>1. k + 1 \in 1 .. n /\ (k + 1) - 1 = k /\ k + 1 \in Nat /\ g[k] \in S  BY <1>1
  <2> DEFINE i == k + 1
  <2>2. i \in 1 .. n /\ i - 1 = k  BY <2>1
  <2> HIDE DEF i
  <2>3. g[i] = Step[<<i, g[k]>>]  BY <2>1, <2>2
  <2>4. g[i] \in S  BY <2>1, <2>2, <2>3
  <2> QED  BY <2>1, <2>4 DEF i
<1>2. 0 .. n \subseteq N
  <2>1. N \in SUBSET Nat /\ 0 \in N  OBVIOUS
  <2> HIDE DEF N
  <2> QED  BY <1>1, <2>1, InductionOn
<1>3. \A i \in 0 .. n : g[i] \in S  BY <1>2
<1>4. g \in [0 .. n -> S]  BY <1>3
<1>5. \A i \in 1 .. n : i - 1 \in 0 .. n  OBVIOUS
<1> QED  BY <1>3, <1>4, <1>5 DEF IsLoop
=============================================================================
