---------------------------- MODULE SumTheorems -----------------------------
(***************************************************************************)
(* Sums of a function over a finite set: SumFunctionOnSet of the community *)
(* module Functions, in which the models count money.  The models' proofs  *)
(* use the lemmas from SumEmpty on; the ones before show that the          *)
(* recursive function in the operator's definition exists.                 *)
(***************************************************************************)
EXTENDS Integers, Functions, FiniteSetTheorems, WellFoundedInduction, TLAPS

-----------------------------------------------------------------------------
(* Induction, with the property given as the set of those that have it *)

\* Every non-empty set of natural numbers has a least element.
LEMMA LeastNumber ==
  ASSUME NEW S, S \subseteq Nat, S # {}
  PROVE  \E x \in S : \A y \in S : x <= y
<1> DEFINE Less == OpToRel(<, Nat)
<1>1. IsWellFoundedOn(Less, Nat)
  BY NatLessThanWellFounded
<1> HIDE DEF Less
<1>2. PICK x \in S : \A y \in S : ~ (<<y, x>> \in Less)
  BY <1>1, WFMin
<1>3. ASSUME NEW y \in S, ~ (x <= y) PROVE FALSE
  <2>1. <<y, x>> \in Nat \X Nat /\ y < x
    BY <1>3
  <2>2. <<y, x>> \in Less
    BY <2>1 DEF Less, OpToRel
  <2> QED BY <1>2, <2>2
<1> QED BY <1>3

\* What is true of a set whenever it is true of its proper subsets is true of
\* every finite set.
LEMMA FiniteInduction ==
  ASSUME NEW S, IsFiniteSet(S), NEW Good,
         \A T \in SUBSET S : (\A U \in SUBSET T : U # T => U \in Good) => T \in Good
  PROVE  S \in Good
<1> SUFFICES ASSUME S \notin Good PROVE FALSE
  OBVIOUS
<1> DEFINE Bad == {T \in SUBSET S : T \notin Good}
           Sizes == {n \in Nat : \E T \in Bad : Cardinality(T) = n}
<1>1. S \in Bad /\ Cardinality(S) \in Nat
  BY FS_CardinalityType
<1>2. Cardinality(S) \in Sizes
  BY <1>1
<1>3. PICK n \in Sizes : \A m \in Sizes : n <= m
  BY <1>2, LeastNumber
<1>4. PICK T \in Bad : Cardinality(T) = n
  OBVIOUS
<1>5. PICK U \in SUBSET T : U # T /\ U \notin Good
  BY <1>4
<1>6. IsFiniteSet(T)
  BY FS_Subset
<1>7. U \in Bad
  BY <1>5
<1>8. Cardinality(U) <= Cardinality(T) /\ Cardinality(U) # Cardinality(T)
  BY <1>5, <1>6, FS_Subset
<1>9. Cardinality(U) \in Nat
  BY <1>5, <1>6, FS_Subset, FS_CardinalityType
<1>10. Cardinality(U) \in Sizes
  BY <1>7, <1>9
<1> QED BY <1>3, <1>4, <1>8, <1>9, <1>10

LEMMA NumberInduction ==
  ASSUME NEW Good, 0 \in Good, \A n \in Nat : n \in Good => n + 1 \in Good
  PROVE  Nat \subseteq Good
<1> DEFINE Bad == Nat \ Good
<1> SUFFICES ASSUME Bad # {} PROVE FALSE
  OBVIOUS
<1>1. PICK n \in Bad : \A m \in Bad : n <= m
  BY LeastNumber
<1>2. n # 0 /\ n \in Nat
  OBVIOUS
<1>3. n - 1 \in Nat /\ ~ (n <= n - 1)
  BY <1>2
<1>4. n - 1 \in Good
  BY <1>1, <1>3
<1>5. (n - 1) + 1 \in Good
  BY <1>3, <1>4
<1>6. (n - 1) + 1 = n
  BY <1>2
<1> QED BY <1>5, <1>6

-----------------------------------------------------------------------------
(* The recursive function exists and is unique *)

Picked(s) == CHOOSE x \in s : TRUE
SumRule(g, f, s) == IF s = {} THEN 0 ELSE f[Picked(s)] + g[s \ {Picked(s)}]
Sums(g, f, S) == g = [s \in SUBSET S |-> SumRule(g, f, s)]
\* The same, of the subsets with at most n elements.
UpTo(S, n) == {s \in SUBSET S : Cardinality(s) <= n}
SumsUpTo(g, f, S, n) == g = [s \in UpTo(S, n) |-> SumRule(g, f, s)]

LEMMA Unfolded ==
  ASSUME NEW f, NEW S
  PROVE  SumFunctionOnSet(f, S) = (CHOOSE g : Sums(g, f, S))[S]
  BY DEF SumFunctionOnSet, FoldFunctionOnSet, MapThenFoldSet, Sums, SumRule, Picked

\* Taking one element out leaves a smaller subset.
LEMMA Smaller ==
  ASSUME NEW S, IsFiniteSet(S), NEW s \in SUBSET S, s # {}
  PROVE  /\ Picked(s) \in s
         /\ IsFiniteSet(s)
         /\ s \ {Picked(s)} \in SUBSET S
         /\ Cardinality(s) \in Nat
         /\ Cardinality(s \ {Picked(s)}) = Cardinality(s) - 1
         /\ Cardinality(s \ {Picked(s)}) \in Nat
<1>1. Picked(s) \in s
  BY DEF Picked
<1>2. IsFiniteSet(s)
  BY FS_Subset
<1> QED BY <1>1, <1>2, FS_RemoveElement, FS_CardinalityType

LEMMA SumsExist ==
  ASSUME NEW f, NEW S, IsFiniteSet(S)
  PROVE  \E g : Sums(g, f, S)
<1> DEFINE Good == {n \in Nat : \E g : SumsUpTo(g, f, S, n)}
<1>1. 0 \in Good
  <2> DEFINE g == [s \in UpTo(S, 0) |-> 0]
  <2>1. ASSUME NEW s \in UpTo(S, 0) PROVE s = {}
    <3>1. IsFiniteSet(s) /\ Cardinality(s) <= 0
      BY FS_Subset DEF UpTo
    <3> QED BY <3>1, FS_CardinalityType, FS_EmptySet
  <2>2. SumsUpTo(g, f, S, 0)
    BY <2>1 DEF SumsUpTo, SumRule
  <2> QED BY <2>2
<1>2. ASSUME NEW n \in Nat, n \in Good PROVE n + 1 \in Good
  <2>1. PICK g : SumsUpTo(g, f, S, n)
    BY <1>2
  <2> DEFINE h == [s \in UpTo(S, n + 1) |-> SumRule(g, f, s)]
  <2>2. ASSUME NEW s \in UpTo(S, n + 1) PROVE SumRule(h, f, s) = SumRule(g, f, s)
    <3>1. CASE s = {}
      BY <3>1 DEF SumRule
    <3>2. CASE s # {}
      <4> DEFINE t == s \ {Picked(s)}
      <4>1. s \in SUBSET S /\ Cardinality(s) <= n + 1
        BY DEF UpTo
      <4>2. t \in SUBSET S /\ Cardinality(t) <= n
        BY <3>2, <4>1, Smaller
      <4>3. Cardinality(t) <= n + 1
        BY <3>2, <4>1, <4>2, Smaller
      <4>4. t \in UpTo(S, n) /\ t \in UpTo(S, n + 1)
        BY <4>2, <4>3 DEF UpTo
      <4>5. h[t] = SumRule(g, f, t) /\ g[t] = SumRule(g, f, t)
        BY <2>1, <4>4 DEF SumsUpTo
      <4> QED BY <4>5 DEF SumRule
    <3> QED BY <3>1, <3>2
  <2>3. SumsUpTo(h, f, S, n + 1)
    BY <2>2 DEF SumsUpTo
  <2> QED BY <2>3
<1> HIDE DEF Good
<1>3. Cardinality(S) \in Nat /\ Nat \subseteq Good
  BY <1>1, <1>2, NumberInduction, FS_CardinalityType
<1>4. PICK g : SumsUpTo(g, f, S, Cardinality(S))
  BY <1>3 DEF Good
<1>5. UpTo(S, Cardinality(S)) = SUBSET S
  BY FS_Subset DEF UpTo
<1> QED BY <1>4, <1>5 DEF SumsUpTo, Sums

\* Functions built for two sets agree where both are defined.
LEMMA SumsAgree ==
  ASSUME NEW f, NEW S, IsFiniteSet(S), NEW R, R \subseteq S,
         NEW g, Sums(g, f, S), NEW h, Sums(h, f, R)
  PROVE  g[R] = h[R]
<1> DEFINE Good == {s \in SUBSET R : g[s] = h[s]}
<1>1. IsFiniteSet(R)
  BY FS_Subset
<1>2. ASSUME NEW T \in SUBSET R, \A U \in SUBSET T : U # T => U \in Good
      PROVE  T \in Good
  <2>1. g[T] = SumRule(g, f, T) /\ h[T] = SumRule(h, f, T)
    BY DEF Sums
  <2>2. CASE T = {}
    BY <2>1, <2>2 DEF SumRule
  <2>3. CASE T # {}
    <3>1. Picked(T) \in T
      BY <2>3 DEF Picked
    <3>2. T \ {Picked(T)} \in Good
      BY <1>2, <3>1
    <3> QED BY <2>1, <2>3, <3>2 DEF SumRule
  <2> QED BY <2>2, <2>3
<1> HIDE DEF Good
<1>3. R \in Good
  BY <1>1, <1>2, FiniteInduction
<1> QED BY <1>3 DEF Good

-----------------------------------------------------------------------------
(* Sums *)

LEMMA SumEmpty ==
  ASSUME NEW f
  PROVE  SumFunctionOnSet(f, {}) = 0
<1> DEFINE g == CHOOSE g : Sums(g, f, {})
<1>1. Sums(g, f, {})
  BY SumsExist, FS_EmptySet
<1>2. g[{}] = SumRule(g, f, {})
  BY <1>1 DEF Sums
<1> HIDE DEF g
<1>3. SumFunctionOnSet(f, {}) = g[{}]
  BY Unfolded DEF g
<1> QED BY <1>2, <1>3 DEF SumRule

LEMMA SumStep ==
  ASSUME NEW f, NEW S, IsFiniteSet(S), S # {}
  PROVE  SumFunctionOnSet(f, S) = f[Picked(S)] + SumFunctionOnSet(f, S \ {Picked(S)})
<1> DEFINE g == CHOOSE g : Sums(g, f, S)
           R == S \ {Picked(S)}
           h == CHOOSE h : Sums(h, f, R)
<1>1. Sums(g, f, S)
  BY SumsExist
<1>2. IsFiniteSet(R) /\ R \subseteq S
  BY FS_Subset
<1>3. Sums(h, f, R)
  BY <1>2, SumsExist
<1>4. SumFunctionOnSet(f, S) = g[S] /\ SumFunctionOnSet(f, R) = h[R]
  BY Unfolded
<1> HIDE DEF g, h
<1>5. g[S] = SumRule(g, f, S)
  BY <1>1 DEF Sums
<1>6. g[R] = h[R]
  BY <1>1, <1>2, <1>3, SumsAgree
<1> QED BY <1>4, <1>5, <1>6 DEF SumRule

LEMMA SumInt ==
  ASSUME NEW f, NEW S, IsFiniteSet(S), \A x \in S : f[x] \in Int
  PROVE  SumFunctionOnSet(f, S) \in Int
<1> DEFINE Good == {s \in SUBSET S : SumFunctionOnSet(f, s) \in Int}
<1>1. ASSUME NEW T \in SUBSET S, \A U \in SUBSET T : U # T => U \in Good
      PROVE  T \in Good
  <2>1. CASE T = {}
    BY <2>1, SumEmpty
  <2>2. CASE T # {}
    <3>1. Picked(T) \in T /\ IsFiniteSet(T)
      BY <2>2, Smaller
    <3>2. T \ {Picked(T)} \in Good
      BY <1>1, <3>1
    <3>3. SumFunctionOnSet(f, T) = f[Picked(T)] + SumFunctionOnSet(f, T \ {Picked(T)})
      BY <2>2, <3>1, SumStep
    <3>4. f[Picked(T)] \in Int
      BY <3>1
    <3> QED BY <3>2, <3>3, <3>4
  <2> QED BY <2>1, <2>2
<1> HIDE DEF Good
<1>2. S \in Good
  BY <1>1, FiniteInduction
<1> QED BY <1>2 DEF Good

\* Any element may be taken first.
LEMMA SumRemove ==
  ASSUME NEW f, NEW S, IsFiniteSet(S), \A x \in S : f[x] \in Int, NEW e \in S
  PROVE  SumFunctionOnSet(f, S) = f[e] + SumFunctionOnSet(f, S \ {e})
<1> DEFINE Sum(s) == SumFunctionOnSet(f, s)
           Good == {s \in SUBSET S : \A x \in s : Sum(s) = f[x] + Sum(s \ {x})}
<1>1. ASSUME NEW T \in SUBSET S, \A U \in SUBSET T : U # T => U \in Good
      PROVE  T \in Good
  <2> SUFFICES ASSUME NEW x \in T PROVE Sum(T) = f[x] + Sum(T \ {x})
    OBVIOUS
  <2> DEFINE p == Picked(T)
             rest == (T \ {p}) \ {x}
  <2>1. p \in T /\ IsFiniteSet(T)
    BY Smaller
  <2>2. Sum(T) = f[p] + Sum(T \ {p})
    BY <2>1, SumStep
  <2>3. CASE x = p
    BY <2>2, <2>3
  <2>4. CASE x # p
    <3>1. T \ {p} \in Good /\ T \ {x} \in Good
      BY <1>1, <2>1
    <3>2. Sum(T \ {p}) = f[x] + Sum(rest)
      BY <2>4, <3>1
    <3>3. p \in T \ {x}
      BY <2>1, <2>4
    <3>3a. Sum(T \ {x}) = f[p] + Sum((T \ {x}) \ {p})
      BY <3>1, <3>3
    <3>3b. (T \ {x}) \ {p} = rest
      OBVIOUS
    <3>4. Sum(T \ {x}) = f[p] + Sum(rest)
      BY <3>3a, <3>3b
    <3>5. f[x] \in Int /\ f[p] \in Int
      BY <2>1
    <3>6. IsFiniteSet(rest) /\ \A y \in rest : f[y] \in Int
      BY <2>1, FS_Subset
    <3>7. Sum(rest) \in Int
      BY <3>6, SumInt
    <3> HIDE DEF Sum, p, rest
    <3> QED BY <2>2, <3>2, <3>4, <3>5, <3>7
  <2> QED BY <2>3, <2>4
<1> HIDE DEF Good
<1>2. S \in Good
  BY <1>1, FiniteInduction
<1> QED BY <1>2 DEF Good

LEMMA SumAdd ==
  ASSUME NEW f, NEW S, IsFiniteSet(S), NEW e, e \notin S, \A x \in S \cup {e} : f[x] \in Int
  PROVE  SumFunctionOnSet(f, S \cup {e}) = f[e] + SumFunctionOnSet(f, S)
<1>1. IsFiniteSet(S \cup {e}) /\ (S \cup {e}) \ {e} = S /\ e \in S \cup {e}
  BY FS_AddElement
<1> QED BY <1>1, SumRemove

LEMMA SumNat ==
  ASSUME NEW f, NEW S, IsFiniteSet(S), \A x \in S : f[x] \in Nat
  PROVE  SumFunctionOnSet(f, S) \in Nat
<1> DEFINE Good == {s \in SUBSET S : SumFunctionOnSet(f, s) \in Nat}
<1>1. ASSUME NEW T \in SUBSET S, \A U \in SUBSET T : U # T => U \in Good
      PROVE  T \in Good
  <2>1. CASE T = {}
    BY <2>1, SumEmpty
  <2>2. CASE T # {}
    <3>1. Picked(T) \in T /\ IsFiniteSet(T)
      BY <2>2, Smaller
    <3>2. T \ {Picked(T)} \in Good
      BY <1>1, <3>1
    <3>3. SumFunctionOnSet(f, T) = f[Picked(T)] + SumFunctionOnSet(f, T \ {Picked(T)})
      BY <2>2, <3>1, SumStep
    <3>4. f[Picked(T)] \in Nat
      BY <3>1
    <3> QED BY <3>2, <3>3, <3>4
  <2> QED BY <2>1, <2>2
<1> HIDE DEF Good
<1>2. S \in Good
  BY <1>1, FiniteInduction
<1> QED BY <1>2 DEF Good

\* Only the values on the set matter.
LEMMA SumSame ==
  ASSUME NEW f, NEW g, NEW S, IsFiniteSet(S), \A x \in S : f[x] = g[x]
  PROVE  SumFunctionOnSet(f, S) = SumFunctionOnSet(g, S)
<1> DEFINE Good == {s \in SUBSET S : SumFunctionOnSet(f, s) = SumFunctionOnSet(g, s)}
<1>1. ASSUME NEW T \in SUBSET S, \A U \in SUBSET T : U # T => U \in Good
      PROVE  T \in Good
  <2>1. CASE T = {}
    BY <2>1, SumEmpty
  <2>2. CASE T # {}
    <3>1. Picked(T) \in T /\ IsFiniteSet(T)
      BY <2>2, Smaller
    <3>2. T \ {Picked(T)} \in Good
      BY <1>1, <3>1
    <3>3. SumFunctionOnSet(f, T) = f[Picked(T)] + SumFunctionOnSet(f, T \ {Picked(T)})
      BY <2>2, <3>1, SumStep
    <3>4. SumFunctionOnSet(g, T) = g[Picked(T)] + SumFunctionOnSet(g, T \ {Picked(T)})
      BY <2>2, <3>1, SumStep
    <3>5. f[Picked(T)] = g[Picked(T)]
      BY <3>1
    <3> QED BY <3>2, <3>3, <3>4, <3>5
  <2> QED BY <2>1, <2>2
<1> HIDE DEF Good
<1>2. S \in Good
  BY <1>1, FiniteInduction
<1> QED BY <1>2 DEF Good

LEMMA SumOfOne ==
  ASSUME NEW f, NEW e, f[e] \in Int
  PROVE  SumFunctionOnSet(f, {e}) = f[e]
<1>1. IsFiniteSet({e}) /\ {e} \ {e} = {}
  BY FS_Singleton
<1> QED BY <1>1, SumRemove, SumEmpty

\* Two functions that differ in one place.
LEMMA SumChange ==
  ASSUME NEW f, NEW g, NEW S, IsFiniteSet(S), NEW e \in S,
         \A x \in S : f[x] \in Int, g[e] \in Int, \A x \in S \ {e} : g[x] = f[x]
  PROVE  SumFunctionOnSet(g, S) = SumFunctionOnSet(f, S) - f[e] + g[e]
<1> DEFINE rest == S \ {e}
<1>1. IsFiniteSet(rest) /\ \A x \in S : g[x] \in Int
  BY FS_Subset
<1>2. SumFunctionOnSet(f, S) = f[e] + SumFunctionOnSet(f, rest)
  BY SumRemove
<1>3. SumFunctionOnSet(g, S) = g[e] + SumFunctionOnSet(g, rest)
  BY <1>1, SumRemove
<1>4. SumFunctionOnSet(g, rest) = SumFunctionOnSet(f, rest)
  BY <1>1, SumSame
<1>5. SumFunctionOnSet(f, rest) \in Int /\ f[e] \in Int
  BY <1>1, SumInt
<1> QED BY <1>2, <1>3, <1>4, <1>5

LEMMA SumUnion ==
  ASSUME NEW f, NEW R, IsFiniteSet(R), NEW S, IsFiniteSet(S), R \cap S = {},
         \A x \in R \cup S : f[x] \in Int
  PROVE  SumFunctionOnSet(f, R \cup S) = SumFunctionOnSet(f, R) + SumFunctionOnSet(f, S)
<1> DEFINE Sum(s) == SumFunctionOnSet(f, s)
           Good == {s \in SUBSET S : Sum(R \cup s) = Sum(R) + Sum(s)}
<1>1. Sum(R) \in Int
  BY SumInt
<1>2. ASSUME NEW T \in SUBSET S, \A U \in SUBSET T : U # T => U \in Good
      PROVE  T \in Good
  <2>1. CASE T = {}
    <3>1. Sum(T) = 0 /\ R \cup T = R
      BY <2>1, SumEmpty
    <3> HIDE DEF Sum
    <3> QED BY <1>1, <3>1
  <2>2. CASE T # {}
    <3> DEFINE p == Picked(T)
               rest == T \ {p}
    <3>0. p \in T /\ IsFiniteSet(T) /\ IsFiniteSet(rest)
      BY <2>2, Smaller, FS_Subset
    <3>1. p \in T /\ IsFiniteSet(T) /\ IsFiniteSet(rest) /\ f[p] \in Int /\ \A x \in T : f[x] \in Int
      BY <3>0
    <3>2. rest \in Good
      BY <1>2, <3>1
    <3>3. Sum(T) = f[p] + Sum(rest)
      BY <3>1, SumRemove
    <3>4. /\ IsFiniteSet(R \cup T) /\ p \in R \cup T
          /\ (R \cup T) \ {p} = R \cup rest
      BY <3>1, FS_Union
    <3>5. Sum(R \cup T) = f[p] + Sum(R \cup rest)
      BY <3>4, SumRemove
    <3>6. Sum(rest) \in Int
      BY <3>1, SumInt
    <3>7. Sum(R \cup rest) = Sum(R) + Sum(rest)
      BY <3>2
    <3> HIDE DEF Sum, p, rest
    <3> QED BY <1>1, <3>1, <3>3, <3>5, <3>6, <3>7
  <2> QED BY <2>1, <2>2
<1> HIDE DEF Good
<1>3. S \in Good
  BY <1>2, FiniteInduction
<1> QED BY <1>3 DEF Good

\* One function is the sum of two others.
LEMMA SumPlus ==
  ASSUME NEW f, NEW g, NEW h, NEW S, IsFiniteSet(S),
         \A x \in S : f[x] \in Int /\ g[x] \in Int /\ h[x] = f[x] + g[x]
  PROVE  SumFunctionOnSet(h, S) = SumFunctionOnSet(f, S) + SumFunctionOnSet(g, S)
<1> DEFINE Good == {s \in SUBSET S :
                SumFunctionOnSet(h, s) = SumFunctionOnSet(f, s) + SumFunctionOnSet(g, s)}
<1>1. ASSUME NEW T \in SUBSET S, \A U \in SUBSET T : U # T => U \in Good
      PROVE  T \in Good
  <2>1. CASE T = {}
    BY <2>1, SumEmpty
  <2>2. CASE T # {}
    <3> DEFINE p == Picked(T)
               rest == T \ {p}
    <3>1. p \in T /\ IsFiniteSet(T) /\ IsFiniteSet(rest)
      BY <2>2, Smaller, FS_Subset
    <3>2. rest \in Good
      BY <1>1, <3>1
    <3>3. /\ SumFunctionOnSet(h, T) = h[p] + SumFunctionOnSet(h, rest)
          /\ SumFunctionOnSet(f, T) = f[p] + SumFunctionOnSet(f, rest)
          /\ SumFunctionOnSet(g, T) = g[p] + SumFunctionOnSet(g, rest)
      BY <2>2, <3>1, SumStep
    <3>4. f[p] \in Int /\ g[p] \in Int /\ h[p] = f[p] + g[p]
      BY <3>1
    <3>5. SumFunctionOnSet(f, rest) \in Int /\ SumFunctionOnSet(g, rest) \in Int
      BY <3>1, SumInt
    <3>6. SumFunctionOnSet(h, rest) = SumFunctionOnSet(f, rest) + SumFunctionOnSet(g, rest)
      BY <3>2
    <3> HIDE DEF p, rest
    <3> QED BY <3>3, <3>4, <3>5, <3>6
  <2> QED BY <2>1, <2>2
<1> HIDE DEF Good
<1>2. S \in Good
  BY <1>1, FiniteInduction
<1> QED BY <1>2 DEF Good

LEMMA SumTimes ==
  ASSUME NEW f, NEW h, NEW c \in Int, NEW S, IsFiniteSet(S),
         \A x \in S : f[x] \in Int /\ h[x] = c * f[x]
  PROVE  SumFunctionOnSet(h, S) = c * SumFunctionOnSet(f, S)
<1> DEFINE Good == {s \in SUBSET S : SumFunctionOnSet(h, s) = c * SumFunctionOnSet(f, s)}
<1>1. ASSUME NEW T \in SUBSET S, \A U \in SUBSET T : U # T => U \in Good
      PROVE  T \in Good
  <2>1. CASE T = {}
    BY <2>1, SumEmpty
  <2>2. CASE T # {}
    <3> DEFINE p == Picked(T)
               rest == T \ {p}
    <3>1. p \in T /\ IsFiniteSet(T) /\ IsFiniteSet(rest)
      BY <2>2, Smaller, FS_Subset
    <3>2. rest \in Good
      BY <1>1, <3>1
    <3>3. /\ SumFunctionOnSet(h, T) = h[p] + SumFunctionOnSet(h, rest)
          /\ SumFunctionOnSet(f, T) = f[p] + SumFunctionOnSet(f, rest)
      BY <2>2, <3>1, SumStep
    <3>4. f[p] \in Int /\ h[p] = c * f[p]
      BY <3>1
    <3>5. SumFunctionOnSet(f, rest) \in Int
      BY <3>1, SumInt
    <3>6. SumFunctionOnSet(h, rest) = c * SumFunctionOnSet(f, rest)
      BY <3>2
    <3> HIDE DEF p, rest
    <3>7. \A y, z \in Int : c * y + c * z = c * (y + z)
      OBVIOUS
    <3> QED BY <3>3, <3>4, <3>5, <3>6, <3>7
  <2> QED BY <2>1, <2>2
<1> HIDE DEF Good
<1>2. S \in Good
  BY <1>1, FiniteInduction
<1> QED BY <1>2 DEF Good

LEMMA SumLess ==
  ASSUME NEW f, NEW g, NEW S, IsFiniteSet(S),
         \A x \in S : f[x] \in Int /\ g[x] \in Int /\ f[x] <= g[x]
  PROVE  SumFunctionOnSet(f, S) <= SumFunctionOnSet(g, S)
<1> DEFINE d == [x \in S |-> g[x] - f[x]]
<1>1. \A x \in S : d[x] \in Nat /\ d[x] \in Int /\ g[x] = f[x] + d[x]
  OBVIOUS
<1>2. SumFunctionOnSet(g, S) = SumFunctionOnSet(f, S) + SumFunctionOnSet(d, S)
  BY <1>1, SumPlus
<1>3. SumFunctionOnSet(d, S) \in Nat
  BY <1>1, SumNat
<1>4. SumFunctionOnSet(f, S) \in Int
  BY SumInt
<1> HIDE DEF d
<1> QED BY <1>2, <1>3, <1>4

\* Summands that are 0 do not count.
LEMMA SumSupport ==
  ASSUME NEW f, NEW S, IsFiniteSet(S), NEW R, R \subseteq S,
         \A x \in S : f[x] \in Int, \A x \in S \ R : f[x] = 0
  PROVE  SumFunctionOnSet(f, S) = SumFunctionOnSet(f, R)
<1> DEFINE rest == S \ R
           zero == [x \in rest |-> 0]
<1>1. IsFiniteSet(R) /\ IsFiniteSet(rest) /\ R \cup rest = S
  BY FS_Subset
<1>2. SumFunctionOnSet(f, S) = SumFunctionOnSet(f, R) + SumFunctionOnSet(f, rest)
  BY <1>1, SumUnion
<1>3. SumFunctionOnSet(f, rest) = 0 * SumFunctionOnSet(f, rest)
  BY <1>1, SumTimes
<1>4. SumFunctionOnSet(f, rest) \in Int /\ SumFunctionOnSet(f, R) \in Int
  BY <1>1, SumInt
<1> HIDE DEF rest
<1> QED BY <1>2, <1>3, <1>4

\* Counting is adding ones.
LEMMA SumOfOnes ==
  ASSUME NEW f, NEW S, IsFiniteSet(S), \A x \in S : f[x] = 1
  PROVE  SumFunctionOnSet(f, S) = Cardinality(S)
<1> DEFINE Good == {s \in SUBSET S : SumFunctionOnSet(f, s) = Cardinality(s)}
<1>1. ASSUME NEW T \in SUBSET S, \A U \in SUBSET T : U # T => U \in Good
      PROVE  T \in Good
  <2>1. CASE T = {}
    BY <2>1, SumEmpty, FS_EmptySet
  <2>2. CASE T # {}
    <3> DEFINE p == Picked(T)
               rest == T \ {p}
    <3>1. /\ p \in T /\ IsFiniteSet(T) /\ IsFiniteSet(rest)
          /\ Cardinality(T) \in Nat /\ Cardinality(rest) = Cardinality(T) - 1
      BY <2>2, Smaller, FS_Subset
    <3>2. rest \in Good
      BY <1>1, <3>1
    <3>3. SumFunctionOnSet(f, T) = f[p] + SumFunctionOnSet(f, rest)
      BY <2>2, <3>1, SumStep
    <3>4. f[p] = 1
      BY <3>1
    <3>5. SumFunctionOnSet(f, rest) = Cardinality(rest)
      BY <3>2
    <3> HIDE DEF p, rest
    <3> QED BY <3>1, <3>3, <3>4, <3>5
  <2> QED BY <2>1, <2>2
<1> HIDE DEF Good
<1>2. S \in Good
  BY <1>1, FiniteInduction
<1> QED BY <1>2 DEF Good

\* Summands with other names: m is one to one on S.
LEMMA SumRenamed ==
  ASSUME NEW f, NEW m, NEW S, IsFiniteSet(S), \A x \in S : f[m[x]] \in Int,
         \A x, y \in S : m[x] = m[y] => x = y
  PROVE  SumFunctionOnSet(f, {m[x] : x \in S}) = SumFunctionOnSet([x \in S |-> f[m[x]]], S)
<1> DEFINE g == [x \in S |-> f[m[x]]]
           Image(s) == {m[x] : x \in s}
           Good == {s \in SUBSET S : /\ IsFiniteSet(Image(s))
                                    /\ SumFunctionOnSet(f, Image(s)) = SumFunctionOnSet(g, s)}
<1>1. ASSUME NEW T \in SUBSET S, \A U \in SUBSET T : U # T => U \in Good
      PROVE  T \in Good
  <2>1. CASE T = {}
    <3>1. Image(T) = {}
      BY <2>1
    <3> QED BY <2>1, <3>1, SumEmpty, FS_EmptySet
  <2>2. CASE T # {}
    <3> DEFINE p == Picked(T)
               rest == T \ {p}
    <3>1. p \in T /\ IsFiniteSet(T) /\ IsFiniteSet(rest)
      BY <2>2, Smaller, FS_Subset
    <3>2. rest \in Good
      BY <1>1, <3>1
    <3>3. SumFunctionOnSet(g, T) = g[p] + SumFunctionOnSet(g, rest)
      BY <2>2, <3>1, SumStep
    <3>4. IsFiniteSet(Image(rest))
      BY <3>2
    <3>5. Image(T) = Image(rest) \cup {m[p]} /\ m[p] \notin Image(rest)
      BY <3>1
    <3>5a. IsFiniteSet(Image(T))
      <4>1. IsFiniteSet(Image(rest) \cup {m[p]})
        BY <3>4, FS_AddElement
      <4> QED BY <3>5, <4>1
    <3>6. \A y \in Image(rest) \cup {m[p]} : f[y] \in Int
      BY <3>1
    <3>7. SumFunctionOnSet(f, Image(T)) = f[m[p]] + SumFunctionOnSet(f, Image(rest))
      BY <3>4, <3>5, <3>6, SumAdd
    <3>8. g[p] = f[m[p]]
      BY <3>1
    <3> QED BY <3>2, <3>3, <3>5a, <3>7, <3>8
  <2> QED BY <2>1, <2>2
<1> HIDE DEF Good
<1>2. S \in Good
  BY <1>1, FiniteInduction
<1> QED BY <1>2 DEF Good

\* Adding up group by group: key[x] is the group of x.
LEMMA SumGrouped ==
  ASSUME NEW f, NEW key, NEW S, IsFiniteSet(S), NEW K, IsFiniteSet(K),
         \A x \in S : f[x] \in Int /\ key[x] \in K
  PROVE  SumFunctionOnSet([k \in K |-> SumFunctionOnSet(f, {x \in S : key[x] = k})], K)
           = SumFunctionOnSet(f, S)
<1> DEFINE Group(s, k) == {x \in s : key[x] = k}
           Groups(s) == [k \in K |-> SumFunctionOnSet(f, Group(s, k))]
           Good == {s \in SUBSET S : SumFunctionOnSet(Groups(s), K) = SumFunctionOnSet(f, s)}
<1>1. ASSUME NEW s \in SUBSET S, NEW k \in K PROVE IsFiniteSet(Group(s, k)) /\ Groups(s)[k] \in Int
  <2>1. IsFiniteSet(Group(s, k)) /\ \A x \in Group(s, k) : f[x] \in Int
    BY FS_Subset
  <2> QED BY <2>1, SumInt
<1>2. ASSUME NEW T \in SUBSET S, \A U \in SUBSET T : U # T => U \in Good
      PROVE  T \in Good
  <2>1. CASE T = {}
    <3>1. \A k \in K : Group(T, k) = {}
      BY <2>1
    <3>2. \A k \in K : Groups(T)[k] = 0 /\ Groups(T)[k] \in Int
      BY <3>1, SumEmpty
    <3>3. SumFunctionOnSet(Groups(T), K) = SumFunctionOnSet(Groups(T), {})
      BY <3>2, SumSupport
    <3> QED BY <2>1, <3>3, SumEmpty
  <2>2. CASE T # {}
    <3> DEFINE p == Picked(T)
               rest == T \ {p}
    <3>1. p \in T /\ IsFiniteSet(T) /\ IsFiniteSet(rest) /\ f[p] \in Int /\ key[p] \in K
      BY <2>2, Smaller, FS_Subset
    <3>2. rest \in Good
      BY <1>2, <3>1
    <3>3. SumFunctionOnSet(f, T) = f[p] + SumFunctionOnSet(f, rest)
      BY <2>2, <3>1, SumStep
    <3>4. Group(T, key[p]) = Group(rest, key[p]) \cup {p} /\ p \notin Group(rest, key[p])
      BY <3>1
    <3>5. \A x \in Group(rest, key[p]) \cup {p} : f[x] \in Int
      BY <3>1
    <3>6. Groups(T)[key[p]] = f[p] + Groups(rest)[key[p]]
      <4>1. IsFiniteSet(Group(rest, key[p]))
        BY <3>1, <1>1
      <4>2. SumFunctionOnSet(f, Group(T, key[p])) = f[p] + SumFunctionOnSet(f, Group(rest, key[p]))
        BY <3>4, <3>5, <4>1, SumAdd
      <4> QED BY <3>1, <4>2
    <3>7. ASSUME NEW k \in K \ {key[p]} PROVE Groups(T)[k] = Groups(rest)[k]
      <4>1. Group(T, k) = Group(rest, k)
        BY <3>1
      <4> QED BY <4>1
    <3>8. (\A k \in K : Groups(rest)[k] \in Int) /\ Groups(T)[key[p]] \in Int
      BY <1>1, <3>1
    <3> HIDE DEF Groups, Group, p, rest
    <3>9. SumFunctionOnSet(Groups(T), K)
            = SumFunctionOnSet(Groups(rest), K) - Groups(rest)[key[p]] + Groups(T)[key[p]]
      BY <3>1, <3>7, <3>8, SumChange
    <3>10. SumFunctionOnSet(Groups(rest), K) \in Int
      BY <3>8, SumInt
    <3>11. SumFunctionOnSet(Groups(rest), K) = SumFunctionOnSet(f, rest)
      BY <3>2
    <3>11a. SumFunctionOnSet(f, rest) \in Int
      BY <3>10, <3>11
    <3>12. Groups(rest)[key[p]] \in Int
      BY <3>1, <3>8
    <3>13. SumFunctionOnSet(Groups(T), K) = SumFunctionOnSet(f, T)
      BY <3>1, <3>3, <3>6, <3>9, <3>10, <3>11, <3>12
    <3> QED BY <3>13
  <2> QED BY <2>1, <2>2
<1> HIDE DEF Good
<1>3. S \in Good
  BY <1>2, FiniteInduction
<1> QED BY <1>3 DEF Good
=============================================================================
