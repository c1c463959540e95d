---------------------------- MODULE FoldTheorems ----------------------------
(***************************************************************************)
(* What the folds of the community modules compute: the sum of the values  *)
(* of a function over a finite set or of a sequence, and the concatenation *)
(* of a sequence of sequences.  A fold is a recursive function, which is a *)
(* CHOOSE: that there is a function with its equation is shown first, then *)
(* that there is only one.                                                 *)
(***************************************************************************)
EXTENDS Integers, Sequences, FiniteSets, SequencesExt, SequenceTheorems,
        FiniteSetTheorems, WellFoundedInduction, TLAPS

-----------------------------------------------------------------------------
(* Induction, about sets: the set of all numbers, or of all subsets, that  *)
(* have a property.                                                        *)

LEMMA NatSet ==
  ASSUME NEW S, 0 \in S, \A n \in Nat : n \in S => n + 1 \in S
  PROVE  Nat \subseteq S
<1> SUFFICES ASSUME Nat \ S # {} PROVE FALSE
  OBVIOUS
<1> DEFINE R == OpToRel(<, Nat)
<1>1. PICK x \in Nat \ S : \A y \in Nat \ S : ~(<<y, x>> \in R)
  <2>1. IsWellFoundedOn(R, Nat)
    BY NatLessThanWellFounded
  <2>2. Nat \ S \subseteq Nat
    OBVIOUS
  <2> HIDE DEF R
  <2> QED BY <2>1, <2>2, WFMin
<1>2. x - 1 \in Nat /\ (x - 1) + 1 = x
  OBVIOUS
<1>3. <<x - 1, x>> \in R
  BY <1>2 DEF OpToRel
<1> HIDE DEF R
<1>4. x - 1 \in S
  BY <1>1, <1>2, <1>3
<1> QED BY <1>2, <1>4

LEMMA SubsetsSet ==
  ASSUME NEW S, IsFiniteSet(S), NEW F, {} \in F,
         \A A \in SUBSET S, x \in S : A \in F /\ x \notin A => A \cup {x} \in F
  PROVE  SUBSET S \subseteq F
<1> DEFINE N == {n \in Nat : \A A \in SUBSET S : Cardinality(A) = n => A \in F}
<1>1. 0 \in N
  <2> SUFFICES ASSUME NEW A \in SUBSET S, Cardinality(A) = 0 PROVE A \in F
    OBVIOUS
  <2>1. IsFiniteSet(A)
    BY FS_Subset
  <2> QED BY <2>1, FS_EmptySet
<1>2. ASSUME NEW n \in Nat, n \in N PROVE n + 1 \in N
  <2> SUFFICES ASSUME NEW A \in SUBSET S, Cardinality(A) = n + 1 PROVE A \in F
    OBVIOUS
  <2>1. IsFiniteSet(A)
    BY FS_Subset
  <2>2. PICK x \in A : TRUE
    BY <2>1, FS_EmptySet
  <2>3. Cardinality(A \ {x}) = n
    <3>1. Cardinality(A \ {x}) = Cardinality(A) - 1
      BY <2>1, <2>2, FS_RemoveElement
    <3> QED BY <3>1
  <2>4. A \ {x} \in F
    BY <1>2, <2>3
  <2>5. A = (A \ {x}) \cup {x}
    BY <2>2
  <2> QED BY <2>2, <2>4, <2>5
<1>3. Nat \subseteq N
  <2> HIDE DEF N
  <2> QED BY <1>1, <1>2, NatSet
<1>4. ASSUME NEW A \in SUBSET S PROVE A \in F
  <2>1. Cardinality(A) \in Nat
    BY FS_Subset, FS_CardinalityType
  <2> QED BY <1>3, <2>1
<1> QED BY <1>4

-----------------------------------------------------------------------------
(* Sums over a finite set.                                                 *)

Pick(s) == CHOOSE x \in s : TRUE

\* The equation of the recursive function inside the fold.
Adds(g, w, S) ==
  g = [s \in SUBSET S |-> IF s = {} THEN 0 ELSE w[Pick(s)] + g[s \ {Pick(s)}]]

LEMMA AddsExists ==
  ASSUME NEW S, IsFiniteSet(S), NEW w, \A x \in S : w[x] \in Nat
  PROVE  \E g \in [SUBSET S -> Nat] : Adds(g, w, S)
<1> DEFINE Upto(g, n) ==
             \A s \in SUBSET S : Cardinality(s) <= n =>
               g[s] = IF s = {} THEN 0 ELSE w[Pick(s)] + g[s \ {Pick(s)}]
           N == {n \in Nat : \E g \in [SUBSET S -> Nat] : Upto(g, n)}
<1>0. ASSUME NEW s \in SUBSET S, s # {}
      PROVE  /\ Pick(s) \in S /\ Pick(s) \in s /\ s \ {Pick(s)} \in SUBSET S
             /\ Cardinality(s) \in Nat
             /\ Cardinality(s \ {Pick(s)}) = Cardinality(s) - 1
  <2>1. Pick(s) \in s
    BY <1>0 DEF Pick
  <2>2. IsFiniteSet(s)
    BY FS_Subset
  <2> QED BY <2>1, <2>2, FS_RemoveElement, FS_CardinalityType
<1>1. 0 \in N
  <2> DEFINE g == [s \in SUBSET S |-> 0]
  <2>1. g \in [SUBSET S -> Nat]
    OBVIOUS
  <2>2. Upto(g, 0)
    <3> SUFFICES ASSUME NEW s \in SUBSET S, Cardinality(s) <= 0 PROVE s = {}
      OBVIOUS
    <3>1. IsFiniteSet(s)
      BY FS_Subset
    <3>2. Cardinality(s) = 0
      BY <3>1, FS_CardinalityType
    <3> QED BY <3>1, <3>2, FS_EmptySet
  <2> QED BY <2>1, <2>2
<1>2. ASSUME NEW n \in Nat, n \in N PROVE n + 1 \in N
  <2>1. PICK g \in [SUBSET S -> Nat] : Upto(g, n)
    BY <1>2
  <2> DEFINE h == [s \in SUBSET S |->
                     IF s = {} THEN 0 ELSE w[Pick(s)] + g[s \ {Pick(s)}]]
  <2>2. h \in [SUBSET S -> Nat]
    <3> SUFFICES ASSUME NEW s \in SUBSET S PROVE h[s] \in Nat
      OBVIOUS
    <3>1. CASE s = {}
      BY <3>1
    <3>2. CASE s # {}
      <4>1. w[Pick(s)] \in Nat /\ g[s \ {Pick(s)}] \in Nat
        BY <1>0, <3>2
      <4> QED BY <3>2, <4>1
    <3> QED BY <3>1, <3>2
  <2>3. Upto(h, n + 1)
    <3> SUFFICES ASSUME NEW s \in SUBSET S, Cardinality(s) <= n + 1, s # {}
                 PROVE  h[s] = w[Pick(s)] + h[s \ {Pick(s)}]
      OBVIOUS
    <3> DEFINE r == s \ {Pick(s)}
    <3>1. r \in SUBSET S /\ Cardinality(r) <= n
      BY <1>0
    <3>2. g[r] = h[r]
      BY <2>1, <3>1
    <3> QED BY <3>2
  <2> HIDE DEF h, Upto
  <2> QED BY <2>2, <2>3
<1>3. Cardinality(S) \in N
  <2>1. Nat \subseteq N
    <3> HIDE DEF N
    <3> QED BY <1>1, <1>2, NatSet
  <2> QED BY <2>1, FS_CardinalityType
<1>4. PICK g \in [SUBSET S -> Nat] : Upto(g, Cardinality(S))
  BY <1>3
<1>5. \A s \in SUBSET S : Cardinality(s) <= Cardinality(S)
  BY FS_Subset
<1>6. g = [s \in SUBSET S |-> g[s]]
  OBVIOUS
<1> QED BY <1>4, <1>5, <1>6 DEF Adds

\* The sum over a subset is the same whichever set it is part of.
LEMMA AddsUnique ==
  ASSUME NEW S, IsFiniteSet(S), NEW g, NEW w, Adds(g, w, S),
         NEW T \in SUBSET S, NEW h, NEW v, Adds(h, v, T), \A x \in T : v[x] = w[x]
  PROVE  g[T] = h[T]
<1> DEFINE N == {n \in Nat : \A s \in SUBSET T : Cardinality(s) = n => g[s] = h[s]}
<1>1. IsFiniteSet(T) /\ \A s \in SUBSET T : IsFiniteSet(s) /\ Cardinality(s) \in Nat
  BY FS_Subset, FS_CardinalityType
<1>2. \A s \in SUBSET T : g[s] = IF s = {} THEN 0 ELSE w[Pick(s)] + g[s \ {Pick(s)}]
  BY DEF Adds
<1>3. \A s \in SUBSET T : h[s] = IF s = {} THEN 0 ELSE v[Pick(s)] + h[s \ {Pick(s)}]
  BY DEF Adds
<1>4. 0 \in N
  <2> SUFFICES ASSUME NEW s \in SUBSET T, Cardinality(s) = 0 PROVE g[s] = h[s]
    OBVIOUS
  <2>1. s = {}
    BY <1>1, FS_EmptySet
  <2> QED BY <1>2, <1>3, <2>1
<1>5. ASSUME NEW n \in Nat, n \in N PROVE n + 1 \in N
  <2> SUFFICES ASSUME NEW s \in SUBSET T, Cardinality(s) = n + 1 PROVE g[s] = h[s]
    OBVIOUS
  <2>1. s # {}
    BY <1>1, FS_EmptySet
  <2>2. Pick(s) \in s
    BY <2>1 DEF Pick
  <2>3. Cardinality(s \ {Pick(s)}) = n /\ s \ {Pick(s)} \in SUBSET T
    <3>1. Cardinality(s \ {Pick(s)}) = Cardinality(s) - 1
      BY <1>1, <2>2, FS_RemoveElement
    <3> QED BY <3>1
  <2>4. g[s \ {Pick(s)}] = h[s \ {Pick(s)}]
    BY <1>5, <2>3
  <2>5. w[Pick(s)] = v[Pick(s)]
    BY <2>2
  <2> QED BY <1>2, <1>3, <2>1, <2>4, <2>5
<1>6. Cardinality(T) \in N
  <2>1. Nat \subseteq N
    <3> HIDE DEF N
    <3> QED BY <1>4, <1>5, NatSet
  <2> QED BY <1>1, <2>1
<1> QED BY <1>6

\* The sum of the weights `w` of a finite set.
Total(w, S) == (CHOOSE g : Adds(g, w, S))[S]

Weighs(w, S) == IsFiniteSet(S) /\ \A x \in S : w[x] \in Nat

LEMMA WeighsPart ==
  ASSUME NEW w, NEW S, Weighs(w, S), NEW T \in SUBSET S
  PROVE  Weighs(w, T)
BY FS_Subset DEF Weighs

\* Whatever function adds up the weights, the sum is the same.
LEMMA TotalIs ==
  ASSUME NEW w, NEW S, Weighs(w, S)
  PROVE  /\ Total(w, S) \in Nat
         /\ \A g : Adds(g, w, S) => g[S] = Total(w, S)
<1> DEFINE c == CHOOSE g : Adds(g, w, S)
<1>1. PICK h \in [SUBSET S -> Nat] : Adds(h, w, S)
  BY AddsExists DEF Weighs
<1>2. Adds(c, w, S)
  BY <1>1
<1>3. Total(w, S) = c[S]
  BY DEF Total
<1> HIDE DEF c
<1>4. \A g : Adds(g, w, S) => g[S] = c[S]
  BY <1>2, AddsUnique DEF Weighs
<1>5. h[S] \in Nat
  OBVIOUS
<1> QED BY <1>1, <1>3, <1>4, <1>5

\* The sum depends on the weights in the set alone.
LEMMA TotalSame ==
  ASSUME NEW w, NEW v, NEW S, Weighs(w, S), \A x \in S : v[x] = w[x]
  PROVE  Total(v, S) = Total(w, S)
<1>1. Weighs(v, S)
  BY DEF Weighs
<1>2. PICK g : Adds(g, w, S)
  BY AddsExists DEF Weighs
<1>3. PICK h : Adds(h, v, S)
  BY <1>1, AddsExists DEF Weighs
<1>4. g[S] = h[S]
  BY <1>2, <1>3, AddsUnique DEF Weighs
<1> QED BY <1>1, <1>2, <1>3, <1>4, TotalIs

LEMMA TotalEmpty ==
  ASSUME NEW w
  PROVE  Total(w, {}) = 0
<1>1. Weighs(w, {})
  BY FS_EmptySet DEF Weighs
<1>2. PICK g : Adds(g, w, {})
  BY <1>1, AddsExists DEF Weighs
<1>3. g[{}] = 0
  BY <1>2 DEF Adds
<1> QED BY <1>1, <1>2, <1>3, TotalIs

LEMMA TotalPick ==
  ASSUME NEW w, NEW S, Weighs(w, S), S # {}
  PROVE  Pick(S) \in S /\ Total(w, S) = w[Pick(S)] + Total(w, S \ {Pick(S)})
<1> DEFINE T == S \ {Pick(S)}
<1>1. Pick(S) \in S /\ T \in SUBSET S
  BY DEF Pick
<1>2. Weighs(w, T)
  BY <1>1, WeighsPart
<1>3. PICK g : Adds(g, w, S)
  BY AddsExists DEF Weighs
<1>4. PICK h : Adds(h, w, T)
  BY <1>2, AddsExists DEF Weighs
<1>5. g[T] = h[T]
  BY <1>1, <1>3, <1>4, AddsUnique DEF Weighs
<1>6. g[S] = w[Pick(S)] + g[T]
  BY <1>3 DEF Adds
<1>7. g[S] = Total(w, S) /\ h[T] = Total(w, T)
  BY <1>2, <1>3, <1>4, TotalIs
<1> QED BY <1>1, <1>5, <1>6, <1>7

\* The sum does not depend on the order in which the elements are taken.
LEMMA TotalRemove ==
  ASSUME NEW w, NEW S, Weighs(w, S), NEW y \in S
  PROVE  Total(w, S) = w[y] + Total(w, S \ {y})
<1> DEFINE N == {n \in Nat : \A s \in SUBSET S : Cardinality(s) = n =>
                   \A x \in s : Total(w, s) = w[x] + Total(w, s \ {x})}
<1>1. \A s \in SUBSET S : /\ Weighs(w, s) /\ IsFiniteSet(s) /\ Cardinality(s) \in Nat
                          /\ Total(w, s) \in Nat
  BY WeighsPart, TotalIs, FS_CardinalityType DEF Weighs
<1>2. 0 \in N
  <2> SUFFICES ASSUME NEW s \in SUBSET S, Cardinality(s) = 0, NEW x \in s PROVE FALSE
    OBVIOUS
  <2> QED BY <1>1, FS_EmptySet
<1>3. ASSUME NEW n \in Nat, n \in N PROVE n + 1 \in N
  <2> SUFFICES ASSUME NEW s \in SUBSET S, Cardinality(s) = n + 1, NEW x \in s
               PROVE  Total(w, s) = w[x] + Total(w, s \ {x})
    OBVIOUS
  <2> DEFINE p == Pick(s)
  <2>1. p \in s /\ Total(w, s) = w[p] + Total(w, s \ {p})
    BY <1>1, TotalPick
  <2> HIDE DEF p
  <2>2. CASE x = p
    BY <2>1, <2>2
  <2>3. CASE x # p
    <3>1. Cardinality(s \ {p}) = n /\ Cardinality(s \ {x}) = n
      <4>1. /\ Cardinality(s \ {p}) = Cardinality(s) - 1
            /\ Cardinality(s \ {x}) = Cardinality(s) - 1
        BY <1>1, <2>1, FS_RemoveElement
      <4> QED BY <4>1
    <3>2. x \in s \ {p} /\ p \in s \ {x}
      BY <2>1, <2>3
    <3>3. Total(w, s \ {p}) = w[x] + Total(w, (s \ {p}) \ {x})
      BY <1>3, <3>1, <3>2
    <3>4. Total(w, s \ {x}) = w[p] + Total(w, (s \ {x}) \ {p})
      BY <1>3, <3>1, <3>2
    <3>5. (s \ {p}) \ {x} = (s \ {x}) \ {p}
      OBVIOUS
    <3>6. Total(w, (s \ {x}) \ {p}) \in Nat /\ w[x] \in Nat /\ w[p] \in Nat
      BY <1>1, <2>1 DEF Weighs
    <3> DEFINE c == Total(w, (s \ {p}) \ {x})
    <3>7. Total(w, s) = w[p] + (w[x] + c) /\ Total(w, s \ {x}) = w[p] + c
      BY <2>1, <3>3, <3>4, <3>5
    <3>8. c \in Nat /\ w[x] \in Nat /\ w[p] \in Nat
      BY <3>5, <3>6
    <3> HIDE DEF c
    <3> QED BY <3>7, <3>8
  <2> QED BY <2>2, <2>3
<1>4. Nat \subseteq N
  <2> HIDE DEF N
  <2> QED BY <1>2, <1>3, NatSet
<1>5. Cardinality(S) \in N
  BY <1>1, <1>4
<1> QED BY <1>5

\* A part weighs no more than the whole.
LEMMA TotalPart ==
  ASSUME NEW w, NEW S, Weighs(w, S), NEW T \in SUBSET S
  PROVE  Total(w, T) <= Total(w, S)
<1> DEFINE F == {A \in SUBSET (S \ T) : Total(w, T) <= Total(w, T \cup A)}
<1>1. \A A \in SUBSET (S \ T) : Weighs(w, T \cup A) /\ Total(w, T \cup A) \in Nat
  <2> SUFFICES ASSUME NEW A \in SUBSET (S \ T)
               PROVE  Weighs(w, T \cup A) /\ Total(w, T \cup A) \in Nat
    OBVIOUS
  <2>1. T \cup A \in SUBSET S
    OBVIOUS
  <2> QED BY <2>1, WeighsPart, TotalIs
<1>2. Total(w, T) \in Nat
  BY WeighsPart, TotalIs
<1>3. {} \in F
  <2>1. T \cup {} = T
    OBVIOUS
  <2> QED BY <1>2, <2>1
<1>4. ASSUME NEW A \in SUBSET (S \ T), NEW x \in S \ T, A \in F, x \notin A
      PROVE  A \cup {x} \in F
  <2> DEFINE B == T \cup (A \cup {x})
  <2>1. A \cup {x} \in SUBSET (S \ T) /\ x \in B /\ B \ {x} = T \cup A
    BY <1>4
  <2>2. Weighs(w, B)
    BY <1>1, <2>1
  <2>3. w[x] \in Nat /\ Total(w, T \cup A) \in Nat /\ Total(w, T) <= Total(w, T \cup A)
    BY <1>1, <1>4 DEF Weighs
  <2> HIDE DEF B
  <2>4. Total(w, B) = w[x] + Total(w, T \cup A)
    BY <2>1, <2>2, TotalRemove
  <2>5. Total(w, T) <= Total(w, B)
    BY <1>2, <2>3, <2>4
  <2> QED BY <2>1, <2>5 DEF B
<1>5. IsFiniteSet(S \ T)
  BY FS_Subset DEF Weighs
<1>6. SUBSET (S \ T) \subseteq F
  <2> DEFINE D == S \ T
  <2>1. \A A \in SUBSET D, x \in D : A \in F /\ x \notin A => A \cup {x} \in F
    BY <1>4
  <2>2. IsFiniteSet(D) /\ {} \in F
    BY <1>3, <1>5
  <2> HIDE DEF F, D
  <2>3. SUBSET D \subseteq F
    BY <2>1, <2>2, SubsetsSet
  <2> QED BY <2>3 DEF D
<1>7. S \ T \in F /\ T \cup (S \ T) = S
  BY <1>6
<1> QED BY <1>7

\* What is met several times in a sequence is weighed once in its range; if
\* nothing is, the sums are the same.
LEMMA TotalRange ==
  ASSUME NEW es, IsFiniteSet(DOMAIN es), NEW w, \A i \in DOMAIN es : w[es[i]] \in Nat
  PROVE  /\ Weighs(w, Range(es))
         /\ Total(w, Range(es)) <= Total([i \in DOMAIN es |-> w[es[i]]], DOMAIN es)
         /\ IsInjective(es) =>
              Total(w, Range(es)) = Total([i \in DOMAIN es |-> w[es[i]]], DOMAIN es)
<1> DEFINE D == DOMAIN es
           v == [i \in D |-> w[es[i]]]
           image(A) == {es[i] : i \in A}
           F == {A \in SUBSET D : /\ Weighs(w, image(A))
                                  /\ Total(w, image(A)) <= Total(v, A)
                                  /\ IsInjective(es) =>
                                       Total(w, image(A)) = Total(v, A)}
<1>1. \A A \in SUBSET D : Weighs(v, A) /\ Total(v, A) \in Nat
  <2>1. Weighs(v, D)
    BY DEF Weighs
  <2> HIDE DEF v, D
  <2> QED BY <2>1, WeighsPart, TotalIs
<1>2. {} \in F
  <2>1. image({}) = {}
    OBVIOUS
  <2>2. Weighs(w, {})
    BY FS_EmptySet DEF Weighs
  <2>3. Total(w, {}) = 0 /\ Total(v, {}) = 0
    BY TotalEmpty
  <2> HIDE DEF image, v
  <2> QED BY <2>1, <2>2, <2>3
<1>3. ASSUME NEW A \in SUBSET D, NEW x \in D, A \in F, x \notin A
      PROVE  A \cup {x} \in F
  <2> DEFINE B == image(A)
             e == es[x]
             AX == A \cup {x}
  <2>1. image(AX) = B \cup {e}
    OBVIOUS
  <2>2. /\ Weighs(w, B) /\ w[e] \in Nat /\ Total(w, B) <= Total(v, A) /\ v[x] = w[e]
        /\ IsInjective(es) => Total(w, B) = Total(v, A)
    BY <1>3
  <2>9. IsInjective(es) => e \notin B
    BY <1>3 DEF IsInjective
  <2>3. Weighs(w, B \cup {e})
    BY <2>2, FS_AddElement DEF Weighs
  <2>4. Total(v, AX) = v[x] + Total(v, A)
    <3>1. AX \in SUBSET D /\ x \in AX /\ AX \ {x} = A
      BY <1>3
    <3> HIDE DEF AX, v
    <3>2. Total(v, AX) = v[x] + Total(v, AX \ {x})
      BY <1>1, <3>1, TotalRemove
    <3> QED BY <3>1, <3>2
  <2>5. /\ Total(w, B \cup {e}) <= w[e] + Total(w, B)
        /\ e \notin B => Total(w, B \cup {e}) = w[e] + Total(w, B)
    <3> HIDE DEF B, e
    <3>1. CASE e \in B
      <4>1. B \cup {e} = B
        BY <3>1
      <4>2. Total(w, B) \in Nat /\ w[e] \in Nat
        BY <2>2, TotalIs
      <4>3. Total(w, B) <= w[e] + Total(w, B)
        BY <4>2
      <4> QED BY <3>1, <4>1, <4>3
    <3>2. CASE e \notin B
      <4>1. (B \cup {e}) \ {e} = B /\ e \in B \cup {e}
        BY <3>2
      <4>2. Total(w, B \cup {e}) = w[e] + Total(w, (B \cup {e}) \ {e})
        BY <2>3, <4>1, TotalRemove
      <4>3. Total(w, B) \in Nat /\ w[e] \in Nat
        BY <2>2, TotalIs
      <4>4. Total(w, B \cup {e}) = w[e] + Total(w, B)
        BY <4>1, <4>2
      <4> QED BY <4>3, <4>4
    <3> QED BY <3>1, <3>2
  <2>6. Total(w, B) \in Nat /\ Total(v, A) \in Nat /\ Total(w, B \cup {e}) \in Nat
    BY <1>1, <2>2, <2>3, TotalIs
  <2>7. AX \in SUBSET D
    OBVIOUS
  <2> HIDE DEF image, v, B, e, AX
  <2>8. /\ Total(w, B \cup {e}) <= Total(v, AX)
        /\ IsInjective(es) => Total(w, B \cup {e}) = Total(v, AX)
    BY <2>2, <2>4, <2>5, <2>6, <2>9
  <2> QED BY <2>1, <2>3, <2>7, <2>8 DEF AX
<1>4. SUBSET D \subseteq F
  <2>1. IsFiniteSet(D)
    OBVIOUS
  <2>2. \A A \in SUBSET D, x \in D : A \in F /\ x \notin A => A \cup {x} \in F
    BY <1>3
  <2> HIDE DEF F, D
  <2> QED BY <1>2, <2>1, <2>2, SubsetsSet
<1>5. D \in F
  <2> HIDE DEF F
  <2> QED BY <1>4
<1>6. image(D) = Range(es)
  BY DEF Range
<1> HIDE DEF image
<1> QED BY <1>5, <1>6

-----------------------------------------------------------------------------
(* Sums over a sequence.                                                   *)

LEMMA SumIsTotal ==
  ASSUME NEW s
  PROVE  FoldSeq(+, 0, s) = Total(s, DOMAIN s)
BY Zenon DEF FoldSeq, FoldFunction, FoldFunctionOnSet, MapThenFoldSet, Total, Adds, Pick

SizesOf(es) == FoldSeq(LAMBDA e, sum : e.size + sum, 0, es)

LEMMA SizesAreTotal ==
  ASSUME NEW es, IsFiniteSet(DOMAIN es), \A i \in DOMAIN es : es[i].size \in Nat
  PROVE  SizesOf(es) = Total([i \in DOMAIN es |-> es[i].size], DOMAIN es)
<1> DEFINE D == DOMAIN es
           w == [i \in D |-> es[i].size]
           Eq(g) == g = [s \in SUBSET D |->
                           IF s = {} THEN 0
                           ELSE es[CHOOSE x \in s : TRUE].size
                                + g[s \ {CHOOSE x \in s : TRUE}]]
<1>1. SizesOf(es) = (CHOOSE g : Eq(g))[D]
  BY Zenon DEF SizesOf, FoldSeq, FoldFunction, FoldFunctionOnSet, MapThenFoldSet
<1>2. ASSUME NEW g PROVE Eq(g) <=> Adds(g, w, D)
  <2>1. \A s \in SUBSET D : s # {} => w[Pick(s)] = es[Pick(s)].size
    BY DEF Pick
  <2> HIDE DEF w
  <2>2. [s \in SUBSET D |-> IF s = {} THEN 0
                            ELSE es[Pick(s)].size + g[s \ {Pick(s)}]]
        = [s \in SUBSET D |-> IF s = {} THEN 0 ELSE w[Pick(s)] + g[s \ {Pick(s)}]]
    BY <2>1
  <2> QED BY <2>2, Zenon DEF Adds, Pick
<1>3. Weighs(w, D)
  BY DEF Weighs
<1> HIDE DEF w, D, Eq
<1>4. PICK h : Adds(h, w, D)
  BY <1>3, AddsExists DEF Weighs
<1>5. Eq(CHOOSE g : Eq(g))
  BY <1>2, <1>4
<1>6. Adds((CHOOSE g : Eq(g)), w, D)
  BY <1>2, <1>5
<1>7. (CHOOSE g : Eq(g))[D] = Total(w, D)
  BY <1>3, <1>6, TotalIs
<1> QED BY <1>1, <1>7 DEF w, D

-----------------------------------------------------------------------------
(* Concatenations.                                                         *)

Flattens(f, ss) ==
  f = [i \in 1 .. Len(ss) |-> IF i = 1 THEN ss[i] ELSE f[i - 1] \o ss[i]]

LEMMA FlattensExists ==
  ASSUME NEW S, NEW ss \in Seq(Seq(S))
  PROVE  \E f \in [1 .. Len(ss) -> Seq(S)] : Flattens(f, ss)
<1> DEFINE n == Len(ss)
           Upto(f, m) == \A i \in 1 .. n : i <= m =>
                           f[i] = IF i = 1 THEN ss[i] ELSE f[i - 1] \o ss[i]
           N == {m \in Nat : \E f \in [1 .. n -> Seq(S)] : Upto(f, m)}
<1>1. n \in Nat /\ \A i \in 1 .. n : ss[i] \in Seq(S)
  OBVIOUS
<1>2. 0 \in N
  <2> DEFINE f == [i \in 1 .. n |-> <<>>]
  <2>1. f \in [1 .. n -> Seq(S)]
    OBVIOUS
  <2>2. Upto(f, 0)
    OBVIOUS
  <2> QED BY <2>1, <2>2
<1>3. ASSUME NEW m \in Nat, m \in N PROVE m + 1 \in N
  <2>1. PICK f \in [1 .. n -> Seq(S)] : Upto(f, m)
    BY <1>3
  <2> DEFINE h == [i \in 1 .. n |-> IF i = 1 THEN ss[i] ELSE f[i - 1] \o ss[i]]
  <2>2. h \in [1 .. n -> Seq(S)]
    <3> SUFFICES ASSUME NEW i \in 1 .. n PROVE h[i] \in Seq(S)
      OBVIOUS
    <3>1. CASE i = 1
      BY <1>1, <3>1
    <3>2. CASE i # 1
      <4>1. i - 1 \in 1 .. n
        BY <1>1, <3>2
      <4>2. f[i - 1] \in Seq(S) /\ ss[i] \in Seq(S)
        BY <1>1, <4>1
      <4>3. f[i - 1] \o ss[i] \in Seq(S)
        BY <4>2
      <4> QED BY <3>2, <4>3
    <3> QED BY <3>1, <3>2
  <2>3. Upto(h, m + 1)
    <3> SUFFICES ASSUME NEW i \in 1 .. n, i <= m + 1, i # 1 PROVE h[i - 1] = f[i - 1]
      OBVIOUS
    <3>1. i - 1 \in 1 .. n /\ i - 1 <= m
      BY <1>1
    <3>2. f[i - 1] = IF i - 1 = 1 THEN ss[i - 1] ELSE f[(i - 1) - 1] \o ss[i - 1]
      BY <2>1, <3>1
    <3> QED BY <3>1, <3>2
  <2> HIDE DEF h, Upto
  <2> QED BY <2>2, <2>3
<1>4. Nat \subseteq N
  <2> HIDE DEF N
  <2> QED BY <1>2, <1>3, NatSet
<1>5. PICK f \in [1 .. n -> Seq(S)] : Upto(f, n)
  BY <1>1, <1>4
<1>6. f = [i \in 1 .. n |-> IF i = 1 THEN ss[i] ELSE f[i - 1] \o ss[i]]
  <2>1. f = [i \in 1 .. n |-> f[i]]
    OBVIOUS
  <2>2. ASSUME NEW i \in 1 .. n
        PROVE  f[i] = IF i = 1 THEN ss[i] ELSE f[i - 1] \o ss[i]
    <3>1. i <= n
      BY <1>1
    <3> QED BY <1>5, <3>1
  <2> QED BY <2>1, <2>2
<1> QED BY <1>6 DEF Flattens

\* Any two functions that flatten are the same.
LEMMA FlattensUnique ==
  ASSUME NEW ss, Len(ss) \in Nat, NEW f, Flattens(f, ss), NEW h, Flattens(h, ss)
  PROVE  f = h
<1> DEFINE n == Len(ss)
           N == {m \in Nat : m \in 1 .. n => f[m] = h[m]}
<1>1. /\ \A i \in 1 .. n : f[i] = IF i = 1 THEN ss[i] ELSE f[i - 1] \o ss[i]
      /\ \A i \in 1 .. n : h[i] = IF i = 1 THEN ss[i] ELSE h[i - 1] \o ss[i]
  BY DEF Flattens
<1>6. f = [i \in 1 .. n |-> f[i]] /\ h = [i \in 1 .. n |-> h[i]]
  BY DEF Flattens
<1>2. 0 \in N
  OBVIOUS
<1>3. ASSUME NEW m \in Nat, m \in N PROVE m + 1 \in N
  <2> SUFFICES ASSUME m + 1 \in 1 .. n PROVE f[m + 1] = h[m + 1]
    OBVIOUS
  <2>1. CASE m = 0
    <3>1. m + 1 = 1
      BY <2>1
    <3> QED BY <1>1, <3>1
  <2>2. CASE m # 0
    <3>1. m \in 1 .. n /\ m + 1 # 1 /\ (m + 1) - 1 = m
      BY <2>2
    <3>2. f[m] = h[m]
      BY <1>3, <3>1
    <3>3. /\ f[m + 1] = f[(m + 1) - 1] \o ss[m + 1]
          /\ h[m + 1] = h[(m + 1) - 1] \o ss[m + 1]
      BY <1>1, <3>1
    <3> QED BY <3>1, <3>2, <3>3
  <2> QED BY <2>1, <2>2
<1>4. Nat \subseteq N
  <2> HIDE DEF N
  <2> QED BY <1>2, <1>3, NatSet
<1>5. \A i \in 1 .. n : f[i] = h[i]
  BY <1>4
<1> QED BY <1>5, <1>6

LEMMA FlattenEmpty == FlattenSeq(<<>>) = <<>>
<1>1. Len(<<>>) = 0
  OBVIOUS
<1> QED BY <1>1, Zenon DEF FlattenSeq

LEMMA FlattenIs ==
  ASSUME NEW S, NEW ss \in Seq(Seq(S)), Len(ss) > 0, NEW f, Flattens(f, ss)
  PROVE  FlattenSeq(ss) = f[Len(ss)]
<1> DEFINE c == CHOOSE g : Flattens(g, ss)
<1>1. Flattens(c, ss)
  BY FlattensExists
<1>2. Len(ss) # 0 /\ Len(ss) \in Nat
  OBVIOUS
<1>3. FlattenSeq(ss) = IF Len(ss) = 0 THEN ss ELSE c[Len(ss)]
  BY Zenon DEF FlattenSeq, Flattens
<1> HIDE DEF c
<1>4. c = f
  BY <1>1, <1>2, FlattensUnique
<1> QED BY <1>2, <1>3, <1>4

\* The sum of the first weights.
Upto(w, k) == Total(w, 1 .. k)

LEMMA UptoStep ==
  ASSUME NEW n \in Nat, NEW w \in [1 .. n -> Nat]
  PROVE  /\ Upto(w, 0) = 0
         /\ \A k \in 0 .. n : Upto(w, k) \in Nat
         /\ \A k \in 1 .. n : Upto(w, k) = w[k] + Upto(w, k - 1)
<1>1. ASSUME NEW k \in 0 .. n PROVE Weighs(w, 1 .. k) /\ Upto(w, k) \in Nat
  <2>1. IsFiniteSet(1 .. k)
    BY FS_Interval
  <2>2. Weighs(w, 1 .. k)
    BY <2>1 DEF Weighs
  <2> QED BY <2>2, TotalIs DEF Upto
<1>2. Upto(w, 0) = 0
  <2>1. 1 .. 0 = {}
    OBVIOUS
  <2> QED BY <2>1, TotalEmpty DEF Upto
<1>3. ASSUME NEW k \in 1 .. n PROVE Upto(w, k) = w[k] + Upto(w, k - 1)
  <2>1. k \in 1 .. k /\ (1 .. k) \ {k} = 1 .. (k - 1) /\ k \in 0 .. n
    OBVIOUS
  <2>3. Weighs(w, 1 .. k)
    BY <1>1, <2>1
  <2>2. Total(w, 1 .. k) = w[k] + Total(w, (1 .. k) \ {k})
    BY <2>1, <2>3, TotalRemove
  <2> QED BY <2>1, <2>2 DEF Upto
<1> QED BY <1>1, <1>2, <1>3

Lengths(ss) == [j \in 1 .. Len(ss) |-> Len(ss[j])]

\* A concatenation has the elements of each sequence, behind all those of the
\* sequences before it.
LEMMA FlattenContents ==
  ASSUME NEW S, NEW ss \in Seq(Seq(S)), Len(ss) > 0
  PROVE  /\ FlattenSeq(ss) \in Seq(S)
         /\ Len(FlattenSeq(ss)) = Upto(Lengths(ss), Len(ss))
         /\ \A k \in 1 .. Len(ss) : \A i \in 1 .. Len(ss[k]) :
              FlattenSeq(ss)[Upto(Lengths(ss), k - 1) + i] = ss[k][i]
<1> DEFINE n == Len(ss)
           w == Lengths(ss)
<1>1. n \in Nat /\ \A i \in 1 .. n : ss[i] \in Seq(S) /\ Len(ss[i]) \in Nat /\ w[i] = Len(ss[i])
  BY DEF Lengths
<1>2. w \in [1 .. n -> Nat]
  BY <1>1 DEF Lengths
<1>3. /\ Upto(w, 0) = 0
      /\ \A k \in 0 .. n : Upto(w, k) \in Nat
      /\ \A k \in 1 .. n : Upto(w, k) = w[k] + Upto(w, k - 1)
  BY <1>1, <1>2, UptoStep
<1>4. PICK f \in [1 .. n -> Seq(S)] : Flattens(f, ss)
  BY FlattensExists
<1>5. FlattenSeq(ss) = f[n]
  BY <1>4, FlattenIs
<1>6. \A i \in 1 .. n : f[i] = IF i = 1 THEN ss[i] ELSE f[i - 1] \o ss[i]
  BY <1>4 DEF Flattens
<1> HIDE DEF n, w
<1> DEFINE Holds(m) == /\ Len(f[m]) = Upto(w, m)
                       /\ \A k \in 1 .. m : \A i \in 1 .. Len(ss[k]) :
                            f[m][Upto(w, k - 1) + i] = ss[k][i]
           N == {m \in Nat : m + 1 \in 1 .. n => Holds(m + 1)}
<1>7. 0 \in N
  <2> SUFFICES ASSUME 1 \in 1 .. n PROVE Holds(1)
    OBVIOUS
  <2>1. f[1] = ss[1] /\ Upto(w, 1) = Len(ss[1])
    <3>1. Upto(w, 1) = w[1] + Upto(w, 1 - 1) /\ 1 - 1 = 0
      BY <1>3
    <3>2. w[1] = Len(ss[1]) /\ Len(ss[1]) \in Nat /\ f[1] = ss[1]
      BY <1>1, <1>6
    <3> QED BY <1>3, <3>1, <3>2
  <2>2. ASSUME NEW k \in 1 .. 1, NEW i \in 1 .. Len(ss[k])
        PROVE  f[1][Upto(w, k - 1) + i] = ss[k][i]
    <3>1. k = 1 /\ k - 1 = 0
      OBVIOUS
    <3>2. Upto(w, k - 1) + i = i
      BY <1>3, <3>1
    <3> QED BY <2>1, <3>1, <3>2
  <2> QED BY <2>1, <2>2
<1>8. ASSUME NEW m \in Nat, m \in N PROVE m + 1 \in N
  <2> DEFINE p == m + 1
             q == m + 1 + 1
  <2> SUFFICES ASSUME q \in 1 .. n PROVE Holds(q)
    OBVIOUS
  <2>1. /\ p \in 1 .. n /\ q - 1 = p /\ q # 1 /\ p \in Nat /\ q = p + 1
        /\ q \in 1 .. n /\ p \in 0 .. n
    BY <1>1
  <2>2. Holds(p)
    BY <1>8, <2>1
  <2> HIDE DEF p, q
  <2>3. f[q] = f[p] \o ss[q] /\ f[p] \in Seq(S) /\ ss[q] \in Seq(S)
    BY <1>1, <1>6, <2>1
  <2>4. /\ Len(f[q]) = Len(f[p]) + Len(ss[q])
        /\ \A i \in 1 .. Len(f[p]) : f[q][i] = f[p][i]
        /\ \A i \in 1 .. Len(ss[q]) : f[q][Len(f[p]) + i] = ss[q][i]
    <3>1. \A i \in 1 .. Len(f[p]) + Len(ss[q]) :
            f[q][i] = IF i <= Len(f[p]) THEN f[p][i] ELSE ss[q][i - Len(f[p])]
      BY <2>3, ConcatProperties
    <3>2. Len(f[q]) = Len(f[p]) + Len(ss[q])
      BY <2>3, ConcatProperties
    <3>3. Len(f[p]) \in Nat /\ Len(ss[q]) \in Nat
      BY <2>3
    <3>4. ASSUME NEW i \in 1 .. Len(ss[q])
          PROVE  f[q][Len(f[p]) + i] = ss[q][i]
      <4> DEFINE a == Len(f[p])
                 b == Len(ss[q])
      <4>1. a \in Nat /\ b \in Nat /\ i \in 1 .. b
        BY <3>3, Zenon
      <4>2. \A j \in 1 .. a + b : f[q][j] = IF j <= a THEN f[p][j] ELSE ss[q][j - a]
        BY <3>1
      <4> HIDE DEF a, b
      <4>3. a + i \in 1 .. a + b /\ ~(a + i <= a) /\ (a + i) - a = i
        BY <4>1
      <4>4. f[q][a + i] = ss[q][i]
        BY <4>2, <4>3
      <4> QED BY <4>4 DEF a
    <3>5. ASSUME NEW i \in 1 .. Len(f[p]) PROVE f[q][i] = f[p][i]
      <4> DEFINE a == Len(f[p])
                 b == Len(ss[q])
      <4>1. a \in Nat /\ b \in Nat /\ i \in 1 .. a
        BY <3>3, Zenon
      <4> HIDE DEF a, b
      <4>2. i \in 1 .. a + b /\ i <= a
        BY <4>1
      <4> QED BY <3>1, <4>2 DEF a, b
    <3> QED BY <3>2, <3>4, <3>5
  <2>5. Len(f[q]) = Upto(w, q)
    <3>1. Upto(w, q) = w[q] + Upto(w, p) /\ w[q] = Len(ss[q])
      BY <1>1, <1>3, <2>1
    <3>2. Len(f[p]) = Upto(w, p) /\ Upto(w, p) \in Nat /\ Len(ss[q]) \in Nat
      BY <1>1, <1>3, <2>1, <2>2
    <3> QED BY <2>4, <3>1, <3>2
  <2>6. ASSUME NEW k \in 1 .. q, NEW i \in 1 .. Len(ss[k])
        PROVE  f[q][Upto(w, k - 1) + i] = ss[k][i]
    <3>1. CASE k = q
      BY <2>1, <2>2, <2>4, <3>1
    <3>2. CASE k # q
      <4>1. k \in 1 .. p /\ k \in 1 .. n
        BY <1>1, <2>1, <3>2
      <4>2. f[p][Upto(w, k - 1) + i] = ss[k][i]
        BY <2>2, <4>1
      <4>3. Upto(w, k - 1) + i \in 1 .. Len(f[p])
        <5>1. Upto(w, k) = Len(ss[k]) + Upto(w, k - 1) /\ Upto(w, k - 1) \in Nat
          BY <1>1, <1>3, <4>1
        <5>2. Upto(w, k) <= Upto(w, p)
          <6>1. Weighs(w, 1 .. p)
            <7>1. IsFiniteSet(1 .. p)
              BY <2>1, FS_Interval
            <7>2. \A x \in 1 .. p : w[x] \in Nat
              BY <1>1, <1>2, <2>1
            <7> QED BY <7>1, <7>2 DEF Weighs
          <6>2. 1 .. k \in SUBSET (1 .. p)
            BY <2>1, <4>1
          <6> QED BY <6>1, <6>2, TotalPart DEF Upto
        <5>3. Len(f[p]) = Upto(w, p) /\ Upto(w, p) \in Nat
          BY <1>3, <2>1, <2>2
        <5>4. Len(ss[k]) \in Nat
          BY <1>1, <4>1
        <5> QED BY <5>1, <5>2, <5>3, <5>4, SMTT(30)
      <4> QED BY <2>4, <4>2, <4>3
    <3> QED BY <3>1, <3>2
  <2> HIDE DEF Holds
  <2>7. Holds(q)
    BY <2>5, <2>6 DEF Holds
  <2> QED BY <2>7
<1>9. Nat \subseteq N
  <2> HIDE DEF N
  <2> QED BY <1>7, <1>8, NatSet
<1>10. Holds(n)
  <2>1. n - 1 \in Nat /\ (n - 1) + 1 = n /\ n \in 1 .. n
    BY <1>1 DEF n
  <2> HIDE DEF Holds
  <2> QED BY <1>9, <2>1
<1>11. f[n] \in Seq(S)
  BY <1>1 DEF n
<1> QED BY <1>5, <1>10, <1>11 DEF n, w

\* A sum does not depend on the direction.
LEMMA TotalReverse ==
  ASSUME NEW m \in Nat, NEW w \in [1 .. m -> Nat]
  PROVE  Total(w, 1 .. m) = Total([j \in 1 .. m |-> w[m + 1 - j]], 1 .. m)
<1> DEFINE es == [j \in 1 .. m |-> m + 1 - j]
<1>1. /\ DOMAIN es = 1 .. m /\ IsFiniteSet(1 .. m)
      /\ \A j \in 1 .. m : es[j] = m + 1 - j /\ es[j] \in 1 .. m /\ w[es[j]] \in Nat
  <2>1. IsFiniteSet(1 .. m)
    BY FS_Interval
  <2>2. \A j \in 1 .. m : m + 1 - j \in 1 .. m
    OBVIOUS
  <2> QED BY <2>1, <2>2
<1>2. IsInjective(es)
  BY <1>1 DEF IsInjective
<1>3. Range(es) = 1 .. m
  <2>1. ASSUME NEW x \in 1 .. m PROVE x \in Range(es)
    <3>1. m + 1 - x \in 1 .. m /\ es[m + 1 - x] = x
      OBVIOUS
    <3> QED BY <1>1, <3>1 DEF Range
  <2> QED BY <1>1, <2>1 DEF Range
<1>4. [j \in 1 .. m |-> w[es[j]]] = [j \in 1 .. m |-> w[m + 1 - j]]
  BY <1>1
<1> HIDE DEF es
<1>5. Total(w, Range(es)) = Total([j \in DOMAIN es |-> w[es[j]]], DOMAIN es)
  BY <1>1, <1>2, TotalRange
<1> QED BY <1>1, <1>3, <1>4, <1>5

-----------------------------------------------------------------------------
(* Powers.                                                                 *)

\* A table of the first powers.
PowersTo(a, n) ==
  {g \in [0 .. n -> Nat \ {0}] : g[0] = 1 /\ \A k \in 1 .. n : g[k] = a * g[k - 1]}

LEMMA PowersExist ==
  ASSUME NEW a \in Nat \ {0}
  PROVE  \E f \in [Nat -> Nat \ {0}] :
           f = [k \in Nat |-> IF k = 0 THEN 1 ELSE a * f[k - 1]]
<1> DEFINE E == {n \in Nat : PowersTo(a, n) # {}}
<1>1. Nat \subseteq E
  <2>1. 0 \in E
    <3>1. [k \in 0 .. 0 |-> 1] \in PowersTo(a, 0)
      BY DEF PowersTo
    <3> QED BY <3>1
  <2>2. ASSUME NEW n \in Nat, n \in E PROVE n + 1 \in E
    <3>1. PICK g : g \in PowersTo(a, n)
      BY <2>2
    <3> DEFINE h == [k \in 0 .. n + 1 |-> IF k = n + 1 THEN a * g[n] ELSE g[k]]
    <3>2. /\ g \in [0 .. n -> Nat \ {0}] /\ g[0] = 1
          /\ \A k \in 1 .. n : g[k] = a * g[k - 1]
      BY <3>1 DEF PowersTo
    <3>3. h \in [0 .. n + 1 -> Nat \ {0}]
      <4>1. g[n] \in Nat \ {0}
        BY <3>2
      <4>2. a * g[n] \in Nat \ {0}
        <5> DEFINE b == g[n]
        <5>1. b \in Nat \ {0}
          BY <4>1
        <5> HIDE DEF b
        <5>2. a * b \in Nat \ {0}
          BY <5>1
        <5> QED BY <5>2 DEF b
      <4>3. \A k \in 0 .. n + 1 : k # n + 1 => g[k] \in Nat \ {0}
        BY <3>2
      <4> QED BY <4>2, <4>3
    <3>4. h[0] = 1
      BY <3>2
    <3>5. ASSUME NEW k \in 1 .. n + 1 PROVE h[k] = a * h[k - 1]
      <4>1. k - 1 \in 0 .. n + 1 /\ k - 1 # n + 1 /\ h[k - 1] = g[k - 1]
        OBVIOUS
      <4>2. CASE k = n + 1
        <5>1. h[k] = a * g[n] /\ k - 1 = n
          BY <4>2
        <5> QED BY <4>1, <5>1
      <4>3. CASE k # n + 1
        <5>1. k \in 1 .. n /\ h[k] = g[k]
          BY <4>3
        <5> QED BY <3>2, <4>1, <5>1
      <4> QED BY <4>2, <4>3
    <3> HIDE DEF h
    <3>6. h \in PowersTo(a, n + 1)
      BY <3>3, <3>4, <3>5 DEF PowersTo
    <3> QED BY <3>6
  <2> HIDE DEF E
  <2> QED BY <2>1, <2>2, NatSet
<1> DEFINE U == {k \in Nat : \A n, m \in Nat : \A g \in PowersTo(a, n), h \in PowersTo(a, m) :
                   k <= n /\ k <= m => g[k] = h[k]}
<1>2. Nat \subseteq U
  <2>1. 0 \in U
    BY DEF PowersTo
  <2>2. ASSUME NEW k \in Nat, k \in U PROVE k + 1 \in U
    <3> SUFFICES ASSUME NEW n \in Nat, NEW m \in Nat,
                        NEW g \in PowersTo(a, n), NEW h \in PowersTo(a, m),
                        k + 1 <= n, k + 1 <= m
                 PROVE  g[k + 1] = h[k + 1]
      OBVIOUS
    <3>1. g[k] = h[k]
      BY <2>2
    <3>2. k + 1 \in 1 .. n /\ k + 1 \in 1 .. m /\ (k + 1) - 1 = k
      OBVIOUS
    <3>3. g[k + 1] = a * g[k] /\ h[k + 1] = a * h[k]
      BY <3>2 DEF PowersTo
    <3> QED BY <3>1, <3>3
  <2> HIDE DEF U
  <2> QED BY <2>1, <2>2, NatSet
<1> DEFINE t(n) == CHOOSE g : g \in PowersTo(a, n)
           f == [n \in Nat |-> t(n)[n]]
<1>3. ASSUME NEW n \in Nat PROVE t(n) \in PowersTo(a, n)
  BY <1>1
<1> HIDE DEF t
<1>4. \A n \in Nat : t(n)[n] \in Nat \ {0}
  <2> SUFFICES ASSUME NEW n \in Nat PROVE t(n)[n] \in Nat \ {0}
    OBVIOUS
  <2>1. t(n) \in [0 .. n -> Nat \ {0}] /\ n \in 0 .. n
    BY <1>3 DEF PowersTo
  <2> QED BY <2>1
<1>5. t(0)[0] = 1
  BY <1>3 DEF PowersTo
<1>6. ASSUME NEW n \in Nat, n # 0 PROVE t(n)[n] = a * t(n - 1)[n - 1]
  <2>1. n - 1 \in Nat /\ n \in 1 .. n /\ n - 1 <= n /\ n - 1 <= n - 1
    BY <1>6
  <2>2. t(n) \in PowersTo(a, n) /\ t(n - 1) \in PowersTo(a, n - 1)
    BY <1>3, <2>1
  <2>3. t(n)[n] = a * t(n)[n - 1]
    BY <2>1, <2>2 DEF PowersTo
  <2>4. t(n)[n - 1] = t(n - 1)[n - 1]
    BY <1>2, <2>1, <2>2
  <2> QED BY <2>3, <2>4
<1>7. f = [k \in Nat |-> IF k = 0 THEN 1 ELSE a * f[k - 1]]
  <2>1. ASSUME NEW k \in Nat PROVE f[k] = IF k = 0 THEN 1 ELSE a * f[k - 1]
    <3>1. k # 0 => k - 1 \in Nat
      OBVIOUS
    <3> QED BY <1>5, <1>6, <3>1
  <2>2. f = [k \in Nat |-> f[k]]
    OBVIOUS
  <2> HIDE DEF f
  <2> QED BY <2>1, <2>2
<1>8. f \in [Nat -> Nat \ {0}]
  BY <1>4
<1> QED BY <1>7, <1>8
=============================================================================
