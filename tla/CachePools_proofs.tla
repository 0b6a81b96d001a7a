-------------------------- MODULE CachePools_proofs --------------------------
(***************************************************************************)
(* Proofs about the allocation of the caches, for any deployments and any  *)
(* number of refusals.  What a page, a slot and a rank's shards take is    *)
(* sums over tensors and groups, so sums come first.                       *)
(***************************************************************************)
EXTENDS Weights_proofs

(***************************************************************************)
(* Sums over finite sets.  The fold that defines them is a recursive       *)
(* function on the subsets of a set, which exists: one for the subsets of  *)
(* at most n elements, for the least n that would have none, is made from  *)
(* one for n - 1.                                                          *)
(***************************************************************************)
Some(s) == CHOOSE x \in s : TRUE
Unfolds(g, f, D) ==
  g = [s \in D |-> IF s = {} THEN 0 ELSE f[Some(s)] + g[s \ {Some(s)}]]
UpTo(S, n) == {s \in SUBSET S : Cardinality(s) <= n}

LEMMA SubsetSizes ==
  ASSUME NEW S, IsFiniteSet(S)
  PROVE  /\ Cardinality(S) \in Nat
         /\ \A s \in SUBSET S : /\ IsFiniteSet(s) /\ Cardinality(s) \in Nat
                                /\ Cardinality(s) <= Cardinality(S)
                                /\ Cardinality(s) = 0 <=> s = {}
                                /\ s # {} => /\ Some(s) \in s /\ s \ {Some(s)} \in SUBSET S
                                             /\ Cardinality(s \ {Some(s)}) = Cardinality(s) - 1
<1>1. Cardinality(S) \in Nat
  BY FS_CardinalityType
<1> SUFFICES ASSUME NEW s \in SUBSET S
             PROVE  /\ IsFiniteSet(s) /\ Cardinality(s) \in Nat
                    /\ Cardinality(s) <= Cardinality(S)
                    /\ Cardinality(s) = 0 <=> s = {}
                    /\ s # {} => /\ Some(s) \in s /\ s \ {Some(s)} \in SUBSET S
                                 /\ Cardinality(s \ {Some(s)}) = Cardinality(s) - 1
  BY <1>1
<1>2. IsFiniteSet(s) /\ Cardinality(s) <= Cardinality(S)
  BY FS_Subset
<1>3. Cardinality(s) \in Nat /\ (Cardinality(s) = 0 <=> s = {})
  BY <1>2, FS_CardinalityType, FS_EmptySet
<1>4. s # {} => Some(s) \in s
  BY DEF Some
<1>5. s # {} => Cardinality(s \ {Some(s)}) = Cardinality(s) - 1
  BY <1>2, <1>4, FS_RemoveElement
<1> QED
  BY <1>2, <1>3, <1>4, <1>5

LEMMA UnfoldingExists ==
  ASSUME NEW S, IsFiniteSet(S), NEW f
  PROVE  \E g : Unfolds(g, f, SUBSET S)
<1> DEFINE bad == {n \in Nat : ~ \E g : Unfolds(g, f, UpTo(S, n))}
<1>1. ASSUME bad # {} PROVE FALSE
  <2>1. PICK n \in bad : \A k \in bad : n <= k
    BY <1>1, LeastExists
  <2>2. CASE n = 0
    <3> DEFINE g == [s \in UpTo(S, 0) |-> 0]
    <3>1. ASSUME NEW s \in UpTo(S, 0) PROVE s = {}
      <4>1. s \in SUBSET S /\ Cardinality(s) <= 0
        BY DEF UpTo
      <4>2. Cardinality(s) \in Nat /\ (Cardinality(s) = 0 <=> s = {})
        BY <4>1, SubsetSizes
      <4> QED
        BY <4>1, <4>2
    <3>2. Unfolds(g, f, UpTo(S, 0))
      BY <3>1 DEF Unfolds
    <3> QED
      BY <2>2, <3>2
  <2>3. CASE n # 0
    <3>1. n - 1 \in Nat /\ n - 1 \notin bad
      BY <2>1, <2>3
    <3>2. PICK h : Unfolds(h, f, UpTo(S, n - 1))
      BY <3>1
    <3> DEFINE g == [s \in UpTo(S, n) |-> IF s = {} THEN 0 ELSE f[Some(s)] + h[s \ {Some(s)}]]
    <3>3. ASSUME NEW s \in UpTo(S, n), s # {}
          PROVE  s \ {Some(s)} \in UpTo(S, n - 1) /\ s \ {Some(s)} \in UpTo(S, n)
      BY <3>1, <3>3, SubsetSizes DEF UpTo
    <3>4. ASSUME NEW s \in UpTo(S, n - 1) PROVE s \in UpTo(S, n) /\ g[s] = h[s]
      <4>1. s \in UpTo(S, n)
        <5>1. s \in SUBSET S /\ Cardinality(s) <= n - 1
          BY DEF UpTo
        <5>2. Cardinality(s) \in Nat
          BY <5>1, SubsetSizes
        <5> QED
          BY <3>1, <5>1, <5>2 DEF UpTo
      <4>2. h[s] = IF s = {} THEN 0 ELSE f[Some(s)] + h[s \ {Some(s)}]
        BY <3>2 DEF Unfolds
      <4> QED
        BY <4>1, <4>2
    <3>5. ASSUME NEW s \in UpTo(S, n)
          PROVE  g[s] = IF s = {} THEN 0 ELSE f[Some(s)] + g[s \ {Some(s)}]
      BY <3>3, <3>4
    <3>6. g = [s \in UpTo(S, n) |-> g[s]]
      OBVIOUS
    <3> HIDE DEF g
    <3>7. Unfolds(g, f, UpTo(S, n))
      BY <3>5, <3>6 DEF Unfolds
    <3> QED
      BY <3>7
  <2> QED
    BY <2>2, <2>3
<1>2. Cardinality(S) \in Nat /\ UpTo(S, Cardinality(S)) = SUBSET S
  BY SubsetSizes DEF UpTo
<1>3. \E g : Unfolds(g, f, UpTo(S, Cardinality(S)))
  BY <1>1, <1>2
<1> QED
  BY <1>2, <1>3

\* Two of them agree where both are defined.
LEMMA UnfoldingUnique ==
  ASSUME NEW S, IsFiniteSet(S), NEW T \in SUBSET S, NEW f, NEW g, NEW h,
         Unfolds(g, f, SUBSET S), Unfolds(h, f, SUBSET T)
  PROVE  g[T] = h[T]
<1> DEFINE bad == {n \in Nat : \E s \in SUBSET T : Cardinality(s) = n /\ g[s] # h[s]}
<1>1. ASSUME bad # {} PROVE FALSE
  <2>1. PICK n \in bad : \A k \in bad : n <= k
    BY <1>1, LeastExists
  <2>2. PICK s \in SUBSET T : Cardinality(s) = n /\ g[s] # h[s]
    BY <2>1
  <2>3. /\ g[s] = IF s = {} THEN 0 ELSE f[Some(s)] + g[s \ {Some(s)}]
        /\ h[s] = IF s = {} THEN 0 ELSE f[Some(s)] + h[s \ {Some(s)}]
    BY DEF Unfolds
  <2>4. s # {}
    BY <2>2, <2>3
  <2>5. s \in SUBSET S
    OBVIOUS
  <2>6. /\ s \ {Some(s)} \in SUBSET T
        /\ Cardinality(s \ {Some(s)}) = n - 1 /\ n - 1 \in Nat
    BY <2>2, <2>4, <2>5, SubsetSizes
  <2>7. g[s \ {Some(s)}] = h[s \ {Some(s)}]
    BY <2>1, <2>6
  <2> QED
    BY <2>2, <2>3, <2>4, <2>7
<1>2. T \in SUBSET T /\ Cardinality(T) \in Nat
  BY SubsetSizes
<1> QED
  BY <1>1, <1>2

LEMMA SumUnfolds ==
  ASSUME NEW S, IsFiniteSet(S), NEW f
  PROVE  SumFunctionOnSet(f, S)
         = IF S = {} THEN 0 ELSE f[Some(S)] + SumFunctionOnSet(f, S \ {Some(S)})
<1> DEFINE fold(T) == CHOOSE g : Unfolds(g, f, SUBSET T)
<1>1. ASSUME NEW T PROVE SumFunctionOnSet(f, T) = fold(T)[T]
  BY DEF SumFunctionOnSet, FoldFunctionOnSet, MapThenFoldSet, Unfolds, Some
<1>2. ASSUME NEW T, IsFiniteSet(T) PROVE Unfolds(fold(T), f, SUBSET T)
  BY <1>2, UnfoldingExists
<1> HIDE DEF fold
<1>3. fold(S)[S] = IF S = {} THEN 0 ELSE f[Some(S)] + fold(S)[S \ {Some(S)}]
  BY <1>2 DEF Unfolds
<1>4. CASE S # {}
  <2> DEFINE T == S \ {Some(S)}
  <2>1. T \in SUBSET S /\ IsFiniteSet(T)
    BY FS_Subset
  <2>2. Unfolds(fold(S), f, SUBSET S) /\ Unfolds(fold(T), f, SUBSET T)
    BY <1>2, <2>1
  <2>3. fold(S)[T] = fold(T)[T]
    BY <2>1, <2>2, UnfoldingUnique
  <2> QED
    BY <1>1, <1>3, <1>4, <2>3
<1> QED
  BY <1>1, <1>3, <1>4

LEMMA OneLess ==
  ASSUME NEW S, IsFiniteSet(S), NEW T \in SUBSET S, NEW x \in T
  PROVE  /\ T \ {x} \in SUBSET S /\ Cardinality(T) - 1 \in Nat
         /\ Cardinality(T \ {x}) = Cardinality(T) - 1
<1>1. IsFiniteSet(T) /\ Cardinality(T) \in Nat /\ Cardinality(T) # 0
  BY SubsetSizes
<1>2. Cardinality(T \ {x}) = Cardinality(T) - 1
  BY <1>1, FS_RemoveElement
<1> QED
  BY <1>1, <1>2

\* Any element of the set may be taken first.
LEMMA SumTakes ==
  ASSUME NEW S, IsFiniteSet(S), NEW f, \A x \in S : f[x] \in Int
  PROVE  /\ SumFunctionOnSet(f, S) \in Int
         /\ \A x \in S : SumFunctionOnSet(f, S) = f[x] + SumFunctionOnSet(f, S \ {x})
<1> DEFINE sum(T) == SumFunctionOnSet(f, T)
           good(T) == sum(T) \in Int /\ \A x \in T : sum(T) = f[x] + sum(T \ {x})
           bad == {n \in Nat : \E T \in SUBSET S : Cardinality(T) = n /\ ~good(T)}
<1>1. ASSUME NEW T \in SUBSET S
      PROVE  sum(T) = IF T = {} THEN 0 ELSE f[Some(T)] + sum(T \ {Some(T)})
  BY SubsetSizes, SumUnfolds
<1> HIDE DEF sum
<1>2. ASSUME bad # {} PROVE FALSE
  <2>1. PICK n \in bad : \A k \in bad : n <= k
    BY <1>2, LeastExists
  <2>2. PICK T \in SUBSET S : Cardinality(T) = n /\ ~good(T)
    BY <2>1
  <2> DEFINE c == Some(T)
  <2>3. ASSUME T = {} PROVE FALSE
    <3>1. sum(T) = 0
      BY <1>1, <2>3
    <3>2. good(T)
      BY <2>3, <3>1
    <3> QED
      BY <2>2, <3>2
  <2>4. c \in T /\ Cardinality(T \ {c}) = n - 1 /\ n - 1 \in Nat /\ n - 1 \notin bad
    <3>1. c \in T
      BY <2>3 DEF Some
    <3>2. Cardinality(T \ {c}) = n - 1 /\ n - 1 \in Nat
      BY <2>2, <3>1, OneLess
    <3> QED
      BY <2>1, <3>1, <3>2
  <2>5. ASSUME NEW x \in T PROVE good(T \ {x})
    <3>1. Cardinality(T \ {x}) = n - 1
      BY <2>2, OneLess
    <3> QED
      BY <2>4, <3>1
  <2>6. sum(T) = f[c] + sum(T \ {c})
    BY <1>1, <2>3
  <2>7. ASSUME NEW x \in T, x # c PROVE sum(T) = f[x] + sum(T \ {x})
    <3>1. x \in T \ {c} /\ c \in T \ {x}
      BY <2>4, <2>7
    <3>2. good(T \ {c}) /\ good(T \ {x})
      BY <2>4, <2>5
    <3>3. /\ sum(T \ {c}) = f[x] + sum((T \ {c}) \ {x})
          /\ sum(T \ {x}) = f[c] + sum((T \ {x}) \ {c})
      BY <3>1, <3>2
    <3>4. (T \ {c}) \ {x} = (T \ {x}) \ {c}
      OBVIOUS
    <3>5. f[x] \in Int /\ f[c] \in Int /\ sum((T \ {x}) \ {c}) \in Int
      <4>1. sum(T \ {x}) \in Int /\ f[x] \in Int /\ f[c] \in Int
        BY <2>4, <3>2
      <4>2. good((T \ {x}) \ {c})
        <5>1. T \ {x} \in SUBSET S /\ Cardinality(T \ {x}) = n - 1
          BY <2>2, OneLess
        <5>2. /\ (T \ {x}) \ {c} \in SUBSET S /\ (n - 1) - 1 \in Nat
              /\ Cardinality((T \ {x}) \ {c}) = (n - 1) - 1
          BY <3>1, <5>1, OneLess
        <5>3. ~ (n <= (n - 1) - 1)
          BY <2>1
        <5>4. (n - 1) - 1 \notin bad
          BY <2>1, <5>3
        <5> QED
          BY <5>2, <5>4
      <4> QED
        BY <4>1, <4>2
    <3> DEFINE u == sum((T \ {x}) \ {c})
               p == sum(T \ {c})
               q == sum(T \ {x})
    <3>6. p = f[x] + u /\ q = f[c] + u /\ sum(T) = f[c] + p /\ u \in Int
      BY <2>6, <3>3, <3>4, <3>5
    <3> HIDE DEF c, u, p, q
    <3>7. sum(T) = f[x] + q
      BY <3>5, <3>6
    <3> QED
      BY <3>7 DEF q
  <2>8. f[c] \in Int /\ sum(T \ {c}) \in Int
    BY <2>4, <2>5
  <2>9. good(T)
    <3> HIDE DEF c
    <3>1. sum(T) \in Int
      BY <2>6, <2>8
    <3>2. \A x \in T : sum(T) = f[x] + sum(T \ {x})
      BY <2>6, <2>7
    <3> QED
      BY <3>1, <3>2
  <2> QED
    BY <2>2, <2>9
<1>3. Cardinality(S) \in Nat
  BY SubsetSizes
<1>4. good(S)
  BY <1>2, <1>3
<1> QED
  BY <1>4 DEF sum

LEMMA SumEmpty ==
  ASSUME NEW f
  PROVE  SumFunctionOnSet(f, {}) = 0
BY SumUnfolds, FS_EmptySet

LEMMA SumPut ==
  ASSUME NEW S, IsFiniteSet(S), NEW x, x \notin S, NEW f, \A y \in S \cup {x} : f[y] \in Int
  PROVE  SumFunctionOnSet(f, S \cup {x}) = f[x] + SumFunctionOnSet(f, S)
<1>1. IsFiniteSet(S \cup {x}) /\ (S \cup {x}) \ {x} = S
  BY FS_AddElement
<1> QED
  BY <1>1, SumTakes

\* Induction over the subsets of a finite set: P is the set of those for which
\* a property holds.
LEMMA SubsetInduction ==
  ASSUME NEW S, IsFiniteSet(S), NEW P, {} \in P,
         \A T \in SUBSET S : \A x \in S \ T : T \in P => T \cup {x} \in P
  PROVE  S \in P
<1> DEFINE bad == {n \in Nat : \E T \in SUBSET S : Cardinality(T) = n /\ T \notin P}
<1>1. ASSUME bad # {} PROVE FALSE
  <2>1. PICK n \in bad : \A k \in bad : n <= k
    BY <1>1, LeastExists
  <2>2. PICK T \in SUBSET S : Cardinality(T) = n /\ T \notin P
    BY <2>1
  <2>3. T # {}
    BY <2>2
  <2> DEFINE c == Some(T)
  <2>4. c \in T /\ Cardinality(T \ {c}) = n - 1 /\ n - 1 \in Nat /\ n - 1 \notin bad
    <3>1. c \in T
      BY <2>3 DEF Some
    <3>2. Cardinality(T \ {c}) = n - 1 /\ n - 1 \in Nat
      BY <2>2, <3>1, OneLess
    <3> QED
      BY <2>1, <3>1, <3>2
  <2> HIDE DEF c
  <2>5. T \ {c} \in P /\ T \ {c} \in SUBSET S /\ c \in S \ (T \ {c})
    BY <2>4
  <2>6. (T \ {c}) \cup {c} = T
    BY <2>4
  <2> QED
    BY <2>2, <2>5, <2>6
<1>2. Cardinality(S) \in Nat
  BY SubsetSizes
<1> QED
  BY <1>1, <1>2

LEMMA SumSame ==
  ASSUME NEW S, IsFiniteSet(S), NEW f, NEW g, \A x \in S : f[x] \in Int /\ g[x] = f[x]
  PROVE  SumFunctionOnSet(f, S) = SumFunctionOnSet(g, S)
<1> DEFINE P == {T \in SUBSET S : SumFunctionOnSet(f, T) = SumFunctionOnSet(g, T)}
<1>1. {} \in P
  BY SumEmpty
<1>2. ASSUME NEW T \in SUBSET S, NEW x \in S \ T, T \in P PROVE T \cup {x} \in P
  <2>1. IsFiniteSet(T)
    BY FS_Subset
  <2>2. /\ SumFunctionOnSet(f, T \cup {x}) = f[x] + SumFunctionOnSet(f, T)
        /\ SumFunctionOnSet(g, T \cup {x}) = g[x] + SumFunctionOnSet(g, T)
    BY <2>1, SumPut
  <2> QED
    BY <1>2, <2>2
<1>3. S \in P
  <2> HIDE DEF P
  <2> QED
    BY <1>1, <1>2, SubsetInduction
<1> QED
  BY <1>3

LEMMA SumNat ==
  ASSUME NEW S, IsFiniteSet(S), NEW f, \A x \in S : f[x] \in Nat
  PROVE  /\ SumFunctionOnSet(f, S) \in Nat
         /\ \A x \in S : f[x] <= SumFunctionOnSet(f, S)
<1> DEFINE P == {T \in SUBSET S : SumFunctionOnSet(f, T) \in Nat}
<1>1. {} \in P
  BY SumEmpty
<1>2. ASSUME NEW T \in SUBSET S, NEW x \in S \ T, T \in P PROVE T \cup {x} \in P
  <2>1. IsFiniteSet(T) /\ f[x] \in Nat
    BY FS_Subset
  <2>2. SumFunctionOnSet(f, T \cup {x}) = f[x] + SumFunctionOnSet(f, T)
    BY <2>1, SumPut
  <2> QED
    BY <1>2, <2>1, <2>2
<1>3. ASSUME NEW R \in SUBSET S PROVE SumFunctionOnSet(f, R) \in Nat
  <2> DEFINE Q == {T \in SUBSET R : SumFunctionOnSet(f, T) \in Nat}
  <2>1. {} \in Q /\ IsFiniteSet(R)
    BY SumEmpty, FS_Subset
  <2>2. ASSUME NEW T \in SUBSET R, NEW x \in R \ T, T \in Q PROVE T \cup {x} \in Q
    BY <1>2, <2>2
  <2>3. R \in Q
    <3> HIDE DEF Q
    <3> QED
      BY <2>1, <2>2, SubsetInduction
  <2> QED
    BY <2>3
<1>4. ASSUME NEW x \in S PROVE f[x] <= SumFunctionOnSet(f, S)
  <2>1. SumFunctionOnSet(f, S) = f[x] + SumFunctionOnSet(f, S \ {x})
    BY SumTakes
  <2>2. SumFunctionOnSet(f, S \ {x}) \in Nat /\ f[x] \in Nat
    BY <1>3
  <2> QED
    BY <2>1, <2>2
<1> QED
  BY <1>3, <1>4

LEMMA SumLinear ==
  ASSUME NEW S, IsFiniteSet(S), NEW f, NEW g, NEW h, NEW a \in Int, NEW b \in Int,
         \A x \in S : f[x] \in Int /\ g[x] \in Int /\ h[x] = a * f[x] + b * g[x]
  PROVE  SumFunctionOnSet(h, S) = a * SumFunctionOnSet(f, S) + b * SumFunctionOnSet(g, S)
<1> DEFINE P == {T \in SUBSET S : SumFunctionOnSet(h, T)
                      = a * SumFunctionOnSet(f, T) + b * SumFunctionOnSet(g, T)}
<1>1. {} \in P
  BY SumEmpty
<1>2. ASSUME NEW T \in SUBSET S, NEW x \in S \ T, T \in P PROVE T \cup {x} \in P
  <2> DEFINE u == SumFunctionOnSet(f, T)
             v == SumFunctionOnSet(g, T)
             w == SumFunctionOnSet(h, T)
  <2>1. IsFiniteSet(T) /\ \A y \in T \cup {x} : f[y] \in Int /\ g[y] \in Int /\ h[y] \in Int
    <3>1. \A y \in S : h[y] \in Int
      OBVIOUS
    <3> QED
      BY <3>1, FS_Subset
  <2>2. /\ SumFunctionOnSet(f, T \cup {x}) = f[x] + u
        /\ SumFunctionOnSet(g, T \cup {x}) = g[x] + v
        /\ SumFunctionOnSet(h, T \cup {x}) = h[x] + w
    BY <2>1, SumPut
  <2>3. u \in Int /\ v \in Int /\ w \in Int
    BY <2>1, SumTakes
  <2>4. w = a * u + b * v
    BY <1>2
  <2>5. h[x] = a * f[x] + b * g[x] /\ f[x] \in Int /\ g[x] \in Int
    OBVIOUS
  <2> HIDE DEF u, v, w
  <2>6. /\ a * (f[x] + u) = a * f[x] + a * u /\ b * (g[x] + v) = b * g[x] + b * v
        /\ a * f[x] \in Int /\ a * u \in Int /\ b * g[x] \in Int /\ b * v \in Int
    BY <2>3, <2>5
  <2>7. h[x] + w = a * (f[x] + u) + b * (g[x] + v)
    BY <2>4, <2>5, <2>6
  <2> QED
    BY <2>2, <2>7
<1>3. S \in P
  <2> HIDE DEF P
  <2> QED
    BY <1>1, <1>2, SubsetInduction
<1> QED
  BY <1>3

LEMMA SumBump ==
  ASSUME NEW S, IsFiniteSet(S), NEW f, NEW g, NEW y \in S, NEW d \in Int,
         \A x \in S : f[x] \in Int, g[y] = f[y] + d, \A x \in S \ {y} : g[x] = f[x]
  PROVE  SumFunctionOnSet(g, S) = SumFunctionOnSet(f, S) + d
<1>1. \A x \in S : g[x] \in Int
  OBVIOUS
<1>2. /\ SumFunctionOnSet(g, S) = g[y] + SumFunctionOnSet(g, S \ {y})
      /\ SumFunctionOnSet(f, S) = f[y] + SumFunctionOnSet(f, S \ {y})
  BY <1>1, SumTakes
<1>3. IsFiniteSet(S \ {y}) /\ \A x \in S \ {y} : f[x] \in Int /\ g[x] = f[x]
  BY FS_RemoveElement
<1>4. SumFunctionOnSet(f, S \ {y}) = SumFunctionOnSet(g, S \ {y})
  BY <1>3, SumSame
<1>5. SumFunctionOnSet(f, S \ {y}) \in Int
  BY <1>3, SumTakes
<1>6. f[y] \in Int /\ g[y] = f[y] + d
  OBVIOUS
<1> QED
  BY <1>2, <1>4, <1>5, <1>6

\* A sum over the elements h[x].
LEMMA SumOverImage ==
  ASSUME NEW S, IsFiniteSet(S), NEW h, NEW f, NEW g,
         \A x, y \in S : h[x] = h[y] => x = y,
         \A x \in S : f[x] \in Int /\ g[h[x]] = f[x]
  PROVE  SumFunctionOnSet(g, {h[x] : x \in S}) = SumFunctionOnSet(f, S)
<1> DEFINE P == {T \in SUBSET S : SumFunctionOnSet(g, {h[x] : x \in T}) = SumFunctionOnSet(f, T)}
<1>1. {} \in P
  <2>1. {h[x] : x \in {}} = {}
    OBVIOUS
  <2> QED
    BY <2>1, SumEmpty
<1>2. ASSUME NEW T \in SUBSET S, NEW y \in S \ T, T \in P PROVE T \cup {y} \in P
  <2> DEFINE I == {h[x] : x \in T}
  <2>1. /\ IsFiniteSet(T) /\ h[y] \notin I
        /\ {h[x] : x \in T \cup {y}} = I \cup {h[y]}
    BY FS_Subset
  <2>2. IsFiniteSet(I)
    <3> DEFINE m == [x \in T |-> h[x]]
    <3>1. m \in Surjection(T, I)
      BY DEF Surjection
    <3> QED
      BY <2>1, <3>1, FS_Surjection
  <2>3. \A z \in I \cup {h[y]} : g[z] \in Int
    OBVIOUS
  <2>4. SumFunctionOnSet(f, T \cup {y}) = f[y] + SumFunctionOnSet(f, T)
    BY <2>1, SumPut
  <2> HIDE DEF I
  <2>5. SumFunctionOnSet(g, I \cup {h[y]}) = g[h[y]] + SumFunctionOnSet(g, I)
    BY <2>1, <2>2, <2>3, SumPut
  <2>6. SumFunctionOnSet(g, I) = SumFunctionOnSet(f, T)
    BY <1>2 DEF I
  <2>7. g[h[y]] = f[y]
    OBVIOUS
  <2>8. SumFunctionOnSet(g, {h[x] : x \in T \cup {y}}) = SumFunctionOnSet(f, T \cup {y})
    BY <2>1, <2>4, <2>5, <2>6, <2>7
  <2> QED
    BY <2>8
<1>3. S \in P
  <2> HIDE DEF P
  <2> QED
    BY <1>1, <1>2, SubsetInduction
<1> QED
  BY <1>3

\* A sum over elements of groups, group by group.
Parts(A, G, of, c, row) == [g \in G |-> c[g] * SumFunctionOnSet(row, {t \in A : of[t] = g})]

LEMMA SumOfParts ==
  ASSUME NEW A, IsFiniteSet(A), NEW G, IsFiniteSet(G), NEW of, \A t \in A : of[t] \in G,
         NEW c, \A g \in G : c[g] \in Int, NEW row, \A t \in A : row[t] \in Int,
         NEW each, \A t \in A : each[t] = c[of[t]] * row[t]
  PROVE  /\ SumFunctionOnSet(each, A) = SumFunctionOnSet(Parts(A, G, of, c, row), G)
         /\ \A g \in G : Parts(A, G, of, c, row)[g] \in Int
<1> DEFINE perGroup(T) == [g \in G |-> c[g] * SumFunctionOnSet(row, {t \in T : of[t] = g})]
           P == {T \in SUBSET A : SumFunctionOnSet(each, T) = SumFunctionOnSet(perGroup(T), G)}
<1>1. ASSUME NEW T \in SUBSET A, NEW g \in G
      PROVE  /\ IsFiniteSet({t \in T : of[t] = g})
             /\ SumFunctionOnSet(row, {t \in T : of[t] = g}) \in Int
             /\ perGroup(T)[g] \in Int
  <2>1. {t \in T : of[t] = g} \in SUBSET A
    OBVIOUS
  <2>2. IsFiniteSet({t \in T : of[t] = g}) /\ \A t \in {t \in T : of[t] = g} : row[t] \in Int
    BY <2>1, FS_Subset
  <2>3. SumFunctionOnSet(row, {t \in T : of[t] = g}) \in Int
    BY <2>2, SumTakes
  <2> QED
    BY <2>2, <2>3
<1>2. \A t \in A : each[t] \in Int
  OBVIOUS
<1>3. {} \in P
  <2> DEFINE zero == perGroup({})
  <2>1. SumFunctionOnSet(each, {}) = 0
    BY SumEmpty
  <2>2. \A g \in G : zero[g] = 0
    <3>1. ASSUME NEW g \in G PROVE SumFunctionOnSet(row, {t \in {} : of[t] = g}) = 0
      <4>1. {t \in {} : of[t] = g} = {}
        OBVIOUS
      <4> QED
        BY <4>1, SumEmpty
    <3> QED
      BY <3>1
  <2> HIDE DEF zero
  <2>3. \A g \in G : zero[g] \in Int /\ zero[g] = 0 * zero[g] + 0 * zero[g]
    BY <2>2
  <2>4. SumFunctionOnSet(zero, G) = 0 * SumFunctionOnSet(zero, G) + 0 * SumFunctionOnSet(zero, G)
    BY <2>3, SumLinear
  <2>5. SumFunctionOnSet(zero, G) \in Int
    BY <2>3, SumTakes
  <2>6. SumFunctionOnSet(zero, G) = 0
    BY <2>4, <2>5
  <2> QED
    BY <2>1, <2>6 DEF zero
<1>4. ASSUME NEW T \in SUBSET A, NEW x \in A \ T, T \in P PROVE T \cup {x} \in P
  <2> DEFINE d == c[of[x]] * row[x]
             u == perGroup(T)
             v == perGroup(T \cup {x})
  <2>1. d \in Int /\ of[x] \in G
    OBVIOUS
  <2>2. IsFiniteSet(T)
    BY FS_Subset
  <2>3. SumFunctionOnSet(each, T \cup {x}) = d + SumFunctionOnSet(each, T)
    BY <1>2, <2>2, SumPut
  <2>4. ASSUME NEW g \in G PROVE u[g] \in Int /\ v[g] = IF g = of[x] THEN u[g] + d ELSE u[g]
    <3> DEFINE old == {t \in T : of[t] = g}
               new == {t \in T \cup {x} : of[t] = g}
    <3>1. CASE g # of[x]
      <4>1. new = old
        BY <3>1
      <4> QED
        BY <1>1, <3>1, <4>1
    <3>2. CASE g = of[x]
      <4>1. new = old \cup {x} /\ x \notin old
        BY <3>2
      <4>2. IsFiniteSet(old) /\ SumFunctionOnSet(row, old) \in Int /\ \A t \in old \cup {x} : row[t] \in Int
        BY <1>1
      <4> HIDE DEF old, new
      <4>3. SumFunctionOnSet(row, new) = row[x] + SumFunctionOnSet(row, old)
        BY <4>1, <4>2, SumPut
      <4>4. u[g] = c[g] * SumFunctionOnSet(row, old) /\ v[g] = c[g] * SumFunctionOnSet(row, new)
        BY DEF old, new
      <4>5. c[g] \in Int /\ row[x] \in Int /\ d = c[g] * row[x]
        BY <3>2
      <4> HIDE DEF u, v, d
      <4>6. c[g] * (row[x] + SumFunctionOnSet(row, old)) = c[g] * row[x] + c[g] * SumFunctionOnSet(row, old)
        BY <4>2, <4>5
      <4>7. c[g] * SumFunctionOnSet(row, old) \in Int /\ c[g] * row[x] \in Int
        BY <4>2, <4>5
      <4> QED
        BY <3>2, <4>3, <4>4, <4>5, <4>6, <4>7
    <3> QED
      BY <3>1, <3>2
  <2> HIDE DEF d, u, v
  <2>5. SumFunctionOnSet(v, G) = SumFunctionOnSet(u, G) + d
    <3>1. \A g \in G : u[g] \in Int
      BY <2>4
    <3>2. v[of[x]] = u[of[x]] + d
      BY <2>1, <2>4
    <3>3. \A g \in G \ {of[x]} : v[g] = u[g]
      BY <2>4
    <3> DEFINE y == of[x]
    <3>4. y \in G /\ v[y] = u[y] + d /\ \A g \in G \ {y} : v[g] = u[g]
      BY <2>1, <3>2, <3>3
    <3> HIDE DEF y
    <3> QED
      BY <2>1, <3>1, <3>4, SumBump
  <2>6. SumFunctionOnSet(u, G) \in Int
    BY <2>4, SumTakes
  <2>7. SumFunctionOnSet(each, T) = SumFunctionOnSet(u, G)
    BY <1>4 DEF u
  <2>8. SumFunctionOnSet(each, T \cup {x}) = SumFunctionOnSet(v, G)
    BY <2>1, <2>3, <2>5, <2>6, <2>7
  <2> QED
    BY <2>8 DEF v
<1>5. A \in P
  <2> HIDE DEF P
  <2> QED
    BY <1>3, <1>4, SubsetInduction
<1>6. \A g \in G : perGroup(A)[g] \in Int
  BY <1>1
<1>7. SumFunctionOnSet(each, A) = SumFunctionOnSet(perGroup(A), G)
  BY <1>5
<1> QED
  BY <1>6, <1>7 DEF Parts

LEMMA SumByGroup ==
  ASSUME NEW A, IsFiniteSet(A), NEW G, IsFiniteSet(G), NEW of, \A t \in A : of[t] \in G,
         NEW c, \A g \in G : c[g] \in Int, NEW row, \A t \in A : row[t] \in Int,
         NEW each, \A t \in A : each[t] = c[of[t]] * row[t],
         NEW sub, \A g \in G : \A t : t \in sub[g] <=> t \in A /\ of[t] = g,
         NEW group, \A g \in G : group[g] = c[g] * SumFunctionOnSet(row, sub[g])
  PROVE  SumFunctionOnSet(each, A) = SumFunctionOnSet(group, G)
<1> DEFINE all == Parts(A, G, of, c, row)
<1>1. SumFunctionOnSet(each, A) = SumFunctionOnSet(all, G) /\ \A g \in G : all[g] \in Int
  BY SumOfParts, SMTT(30)
<1>2. ASSUME NEW g \in G PROVE group[g] = all[g]
  <2>1. sub[g] = {t \in A : of[t] = g}
    OBVIOUS
  <2> QED
    BY <2>1 DEF Parts
<1> HIDE DEF all
<1>3. SumFunctionOnSet(all, G) = SumFunctionOnSet(group, G)
  BY <1>1, <1>2, SumSame
<1> QED
  BY <1>1, <1>3

-----------------------------------------------------------------------------
(***************************************************************************)
(* The sizes of the pools.                                                 *)
(***************************************************************************)
\* Bytes of a group's tensors in a page, without the MTP layer's.
GroupRow(g) == SumFunctionOnSet(deploy.row, {t \in Tensors : deploy.of[t] = g})
Pages == [g \in Groups |-> PageBytes(g)]
SlotShare == [g \in Groups |-> deploy.perSeq[g] * PageBytes(g)]

LEMMA PoolFacts ==
  ASSUME deploy \in Deployments
  PROVE  /\ deploy.ranks \in Nat \ {0} /\ deploy.spec \in Nat /\ deploy.total \in Nat
         /\ deploy.util \in Nat /\ deploy.pages \in Nat /\ deploy.floor \in Nat \ {0}
         /\ deploy.mtpRow \in Nat /\ deploy.committed \in Nat
         /\ \A k \in RankIds : deploy.free[k] \in Nat /\ deploy.free[k] <= deploy.total
         /\ RankIds = 0 .. deploy.ranks - 1 /\ 0 \in RankIds
         /\ IsFiniteSet(Tensors) /\ Tensors # {} /\ "mtp" \notin Tensors
         /\ IsFiniteSet(Groups) /\ "ori" \in Groups
         /\ \A g \in Groups : deploy.perSeq[g] \in Nat \ {0}
         /\ \A t \in Tensors : deploy.of[t] \in Groups /\ deploy.row[t] \in Nat \ {0}
         /\ ScratchPages \in Nat
         /\ IsDeepSeek \/ (deploy.family = "qwen" /\ RankIds = {0} /\ ~HasMtp)
<1>0. /\ deploy.family \in {"deepseek", "qwen"} /\ deploy.ranks \in Nat \ {0} /\ deploy.spec \in Nat
      /\ (deploy.family = "qwen" => deploy.ranks = 1)
      /\ deploy.perSeq \in [DOMAIN deploy.perSeq -> Nat \ {0}] /\ "ori" \in DOMAIN deploy.perSeq
      /\ IsFiniteSet(DOMAIN deploy.perSeq)
      /\ deploy.tensors \in Seq(Range(deploy.tensors)) /\ deploy.tensors # <<>>
      /\ "mtp" \notin Range(deploy.tensors)
      /\ \A t \in Range(deploy.tensors) : deploy.of[t] \in DOMAIN deploy.perSeq /\ deploy.row[t] \in Nat \ {0}
      /\ deploy.mtpRow \in Nat /\ deploy.committed \in Nat
      /\ deploy.total \in Nat /\ deploy.free \in [0 .. deploy.ranks - 1 -> 0 .. deploy.total]
      /\ deploy.util \in 0 .. 100 /\ deploy.pages \in Nat /\ deploy.floor \in Nat \ {0}
  BY DeploymentsAssumption, Zenon
<1>1. deploy.util \in Nat /\ \A g \in DOMAIN deploy.perSeq : deploy.perSeq[g] \in Nat \ {0}
  <2>1. deploy.util \in 0 .. 100
    BY <1>0
  <2>2. deploy.perSeq \in [DOMAIN deploy.perSeq -> Nat \ {0}]
    BY <1>0
  <2> QED
    BY <2>1, <2>2
<1>3. RankIds = 0 .. deploy.ranks - 1 /\ 0 \in RankIds
  BY <1>0 DEF RankIds
<1>4. \A k \in RankIds : deploy.free[k] \in Nat /\ deploy.free[k] <= deploy.total
  <2> DEFINE free == deploy.free
             total == deploy.total
  <2>1. free \in [RankIds -> 0 .. total] /\ total \in Nat
    BY <1>0, <1>3, Zenon
  <2> HIDE DEF free, total
  <2>2. \A k \in RankIds : free[k] \in Nat /\ free[k] <= total
    BY <2>1
  <2> QED
    BY <2>2 DEF free, total
<1>5. IsFiniteSet(Tensors) /\ Tensors # {}
  <2> DEFINE q == deploy.tensors
             n == Len(q)
  <2>1. n \in Nat /\ n # 0 /\ DOMAIN q = 1 .. n
    BY <1>0
  <2>2. Tensors = {q[i] : i \in 1 .. n}
    BY <2>1 DEF Tensors, Range
  <2> HIDE DEF n, q
  <2> DEFINE m == [i \in 1 .. n |-> q[i]]
  <2>3. m \in Surjection(1 .. n, Tensors)
    BY <2>2 DEF Surjection
  <2>4. IsFiniteSet(1 .. n)
    BY <2>1, FS_Interval
  <2>5. IsFiniteSet(Tensors)
    BY <2>3, <2>4, FS_Surjection
  <2>6. q[1] \in Tensors
    BY <2>1, <2>2
  <2> QED
    BY <2>5, <2>6
<1>6. ScratchPages \in Nat
  BY <1>0 DEF ScratchPages, TileTokens, TileWidth
<1>7. IsDeepSeek \/ (deploy.family = "qwen" /\ RankIds = {0} /\ ~HasMtp)
  BY <1>0, <1>3 DEF IsDeepSeek, HasMtp
<1> QED
  BY <1>0, <1>1, <1>3, <1>4, <1>5, <1>6, <1>7 DEF Tensors, Groups

LEMMA PoolSums ==
  ASSUME deploy \in Deployments
  PROVE  /\ \A g \in Groups : GroupRow(g) \in Nat
         /\ \A g \in Groups :
              PageBytes(g) = GroupRow(g) + (IF g = "ori" /\ deploy.spec = 1 THEN MtpRow ELSE 0)
         /\ \A g \in Groups : Pages[g] \in Nat /\ SlotShare[g] \in Nat
         /\ SumFunctionOnSet(Pages, Groups) \in Nat /\ SumFunctionOnSet(SlotShare, Groups) \in Nat
         /\ MultiMtpPageBytes \in Nat
         /\ SlotBytes = SumFunctionOnSet(SlotShare, Groups) + deploy.perSeq["ori"] * MultiMtpPageBytes
         /\ ScratchBytes = ScratchPages * (SumFunctionOnSet(Pages, Groups) + MultiMtpPageBytes)
         /\ SlotBytes \in Nat \ {0} /\ ScratchBytes \in Nat
         /\ QwenPageBytes \in Nat \ {0}
         /\ Smallest \in Nat \ {0}
<1>1. ASSUME NEW g \in Groups
      PROVE  /\ GroupRow(g) \in Nat
             /\ \A t \in Tensors : deploy.of[t] = g => deploy.row[t] <= GroupRow(g)
  <2> DEFINE S == {t \in Tensors : deploy.of[t] = g}
             row == deploy.row
  <2>1. IsFiniteSet(S) /\ \A t \in S : row[t] \in Nat
    BY PoolFacts, FS_Subset
  <2> HIDE DEF S, row
  <2>2. SumFunctionOnSet(row, S) \in Nat /\ \A t \in S : row[t] <= SumFunctionOnSet(row, S)
    BY <2>1, SumNat
  <2> QED
    BY <2>2 DEF GroupRow, S, row
<1>2. ASSUME NEW g \in Groups
      PROVE  PageBytes(g) = GroupRow(g) + (IF g = "ori" /\ deploy.spec = 1 THEN MtpRow ELSE 0)
  BY DEF PageBytes, GroupRow
<1>3. MtpRow \in Nat /\ MultiMtpPageBytes \in Nat
  BY PoolFacts DEF MtpRow, MultiMtpPageBytes
<1>4. ASSUME NEW g \in Groups PROVE PageBytes(g) \in Nat /\ GroupRow(g) <= PageBytes(g)
  BY <1>1, <1>2, <1>3
<1>5. \A g \in Groups : Pages[g] \in Nat /\ SlotShare[g] \in Nat
  BY <1>4, PoolFacts, SMTT(40) DEF Pages, SlotShare
<1>6. /\ SumFunctionOnSet(Pages, Groups) \in Nat
      /\ SumFunctionOnSet(SlotShare, Groups) \in Nat
      /\ \A g \in Groups : SlotShare[g] <= SumFunctionOnSet(SlotShare, Groups)
  BY <1>5, PoolFacts, SumNat
<1>7. SlotBytes = SumFunctionOnSet(SlotShare, Groups) + deploy.perSeq["ori"] * MultiMtpPageBytes
  BY DEF SlotBytes, SlotShare
<1>8. ScratchBytes = ScratchPages * (SumFunctionOnSet(Pages, Groups) + MultiMtpPageBytes)
  BY DEF ScratchBytes, Pages
<1>9. SlotBytes \in Nat \ {0}
  <2>1. PICK t \in Tensors : TRUE
    BY PoolFacts
  <2> DEFINE g == deploy.of[t]
  <2>2. g \in Groups /\ deploy.row[t] \in Nat \ {0} /\ deploy.perSeq[g] \in Nat \ {0}
    BY PoolFacts
  <2>3. PageBytes(g) \in Nat \ {0}
    BY <1>1, <1>4, <2>2
  <2>4. deploy.perSeq[g] * PageBytes(g) \in Nat \ {0}
    BY <2>2, <2>3
  <2>5. SlotShare[g] \in Nat \ {0} /\ SlotShare[g] <= SumFunctionOnSet(SlotShare, Groups)
    BY <1>6, <2>2, <2>4 DEF SlotShare
  <2>6. deploy.perSeq["ori"] * MultiMtpPageBytes \in Nat
    BY <1>3, PoolFacts, SMTT(40)
  <2> QED
    BY <1>6, <1>7, <2>5, <2>6
<1>10. ScratchBytes \in Nat
  <2> DEFINE x == SumFunctionOnSet(Pages, Groups) + MultiMtpPageBytes
  <2>1. x \in Nat /\ ScratchPages \in Nat
    BY <1>3, <1>6, PoolFacts
  <2>2. ScratchBytes = ScratchPages * x
    BY <1>8
  <2> HIDE DEF x
  <2> QED
    BY <2>1, <2>2
<1>11. QwenPageBytes \in Nat \ {0}
  <2> DEFINE row == deploy.row
  <2>1. PICK t \in Tensors : row[t] \in Nat \ {0}
    BY PoolFacts
  <2>2. IsFiniteSet(Tensors) /\ \A u \in Tensors : row[u] \in Nat
    BY PoolFacts
  <2> HIDE DEF row
  <2>3. SumFunctionOnSet(row, Tensors) \in Nat /\ row[t] <= SumFunctionOnSet(row, Tensors)
    BY <2>2, SumNat
  <2> QED
    BY <2>1, <2>3 DEF QwenPageBytes, row
<1>12. Smallest \in Nat \ {0}
  BY PoolFacts DEF Smallest
<1> QED
  BY <1>1, <1>2, <1>3, <1>5, <1>6, <1>7, <1>8, <1>9, <1>10, <1>11, <1>12

\* What an attempt takes of a rank is what its slots, or pages, were sized for.
LEMMA ResidentBytes ==
  ASSUME deploy \in Deployments, size \in Nat, NEW each, \A t \in Tensors : each[t] = TensorBytes(t, size)
  PROVE  /\ \A t \in Tensors : each[t] \in Nat
         /\ MtpBytes(size) \in Nat
         /\ SumFunctionOnSet(each, Tensors) + (IF HasMtp THEN MtpBytes(size) ELSE 0)
            = IF IsDeepSeek THEN size * SlotBytes + ScratchBytes ELSE size * QwenPageBytes
<1> DEFINE row == deploy.row
           of == deploy.of
           per == deploy.perSeq
           c == [g \in Groups |-> size * per[g] + ScratchPages]
           group == [g \in Groups |-> c[g] * GroupRow(g)]
           a == SumFunctionOnSet(SlotShare, Groups)
           b == SumFunctionOnSet(Pages, Groups)
           m == MtpRow
           o == per["ori"]
           p == ScratchPages
<1>1. /\ IsFiniteSet(Tensors) /\ IsFiniteSet(Groups) /\ "ori" \in Groups
      /\ \A t \in Tensors : row[t] \in Nat /\ of[t] \in Groups
      /\ \A g \in Groups : per[g] \in Nat
      /\ p \in Nat /\ m \in Nat /\ o \in Nat
  BY PoolFacts DEF MtpRow
<1>2. \A g \in Groups : size * per[g] \in Nat /\ c[g] \in Nat
  BY <1>1
<1>3. MtpBytes(size) = (size * o + p) * m
  BY DEF MtpBytes, PhysicalBlocks, GroupBlocks
<1>4. MtpBytes(size) \in Nat
  <2>1. size * o + p \in Nat
    BY <1>1
  <2> HIDE DEF o, p, m
  <2> QED
    BY <1>1, <1>3, <2>1
<1>5. CASE ~IsDeepSeek
  <2>1. \A t \in Tensors : each[t] = size * row[t]
    BY <1>5 DEF TensorBytes
  <2>2. \A t \in Tensors : each[t] \in Nat
    BY <1>1, <2>1
  <2> DEFINE z == 0
  <2>3. z \in Int /\ \A t \in Tensors : row[t] \in Int /\ each[t] = size * row[t] + z * row[t]
    BY <1>1, <2>1
  <2> HIDE DEF row, z
  <2>8. SumFunctionOnSet(each, Tensors) = size * SumFunctionOnSet(row, Tensors) + z * SumFunctionOnSet(row, Tensors)
    BY <1>1, <2>3, SumLinear
  <2>4. SumFunctionOnSet(each, Tensors) = size * SumFunctionOnSet(row, Tensors) + 0 * SumFunctionOnSet(row, Tensors)
    BY <2>8 DEF z
  <2>5. SumFunctionOnSet(row, Tensors) = QwenPageBytes /\ QwenPageBytes \in Nat /\ ~HasMtp
    BY <1>5, PoolSums, PoolFacts DEF QwenPageBytes, row
  <2>6. size * QwenPageBytes \in Nat
    BY <2>5
  <2>7. SumFunctionOnSet(each, Tensors) = size * QwenPageBytes
    BY <2>4, <2>5, <2>6
  <2> QED
    BY <1>4, <1>5, <2>2, <2>5, <2>6, <2>7
<1>6. CASE IsDeepSeek
  <2>1. ASSUME NEW t \in Tensors PROVE each[t] = c[of[t]] * row[t] /\ each[t] \in Nat
    <3>1. each[t] = (size * per[of[t]] + ScratchPages) * row[t]
      BY <1>6 DEF TensorBytes, PhysicalBlocks, GroupBlocks
    <3>2. c[of[t]] = size * per[of[t]] + ScratchPages /\ c[of[t]] \in Nat /\ row[t] \in Nat
      BY <1>1, <1>2
    <3> QED
      BY <3>1, <3>2
  <2> DEFINE sub == [g \in Groups |-> {t \in Tensors : of[t] = g}]
  <2>2. /\ \A g \in Groups : group[g] = c[g] * SumFunctionOnSet(row, sub[g])
        /\ \A g \in Groups : \A t : t \in sub[g] <=> t \in Tensors /\ of[t] = g
    BY DEF GroupRow
  <2>3. SumFunctionOnSet(each, Tensors) = SumFunctionOnSet(group, Groups)
    <3>1. /\ \A g \in Groups : c[g] \in Int
          /\ \A t \in Tensors : row[t] \in Int /\ of[t] \in Groups /\ each[t] = c[of[t]] * row[t]
      BY <1>1, <1>2, <2>1
    <3>2. IsFiniteSet(Tensors) /\ IsFiniteSet(Groups)
      BY <1>1
    <3>3. \A t \in Tensors : of[t] \in Groups
      BY <3>1
    <3>4. \A t \in Tensors : row[t] \in Int
      BY <3>1
    <3>5. \A t \in Tensors : each[t] = c[of[t]] * row[t]
      BY <3>1
    <3>6. \A g \in Groups : c[g] \in Int
      BY <3>1
    <3> HIDE DEF row, of, c, group, sub
    <3> QED
      BY <2>2, <3>2, <3>3, <3>4, <3>5, <3>6, SumByGroup
  <2> DEFINE full == [g \in Groups |-> size * SlotShare[g] + p * Pages[g]]
  <2>4. /\ a \in Nat /\ b \in Nat /\ SumFunctionOnSet(full, Groups) = size * a + p * b
    <3>1. /\ \A g \in Groups : SlotShare[g] \in Int /\ Pages[g] \in Int
          /\ \A g \in Groups : full[g] = size * SlotShare[g] + p * Pages[g]
          /\ a \in Nat /\ b \in Nat
      BY PoolSums
    <3>2. size \in Int /\ p \in Int
      BY <1>1
    <3> HIDE DEF full, p
    <3> QED
      BY <1>1, <3>1, <3>2, SumLinear
  <2>5. ASSUME NEW g \in Groups
        PROVE  /\ group[g] \in Nat
               /\ full[g] = group[g] + (IF g = "ori" /\ deploy.spec = 1 THEN c[g] * m ELSE 0)
    <3> DEFINE r == GroupRow(g)
               x == IF g = "ori" /\ deploy.spec = 1 THEN m ELSE 0
               s == per[g]
    <3>1. r \in Nat /\ x \in Nat /\ s \in Nat /\ Pages[g] = r + x /\ SlotShare[g] = s * (r + x)
      BY <1>1, PoolSums DEF Pages, SlotShare
    <3>2. full[g] = size * (s * (r + x)) + p * (r + x) /\ group[g] = (size * s + p) * r
          /\ c[g] = size * s + p
      BY <3>1
    <3>3. (IF g = "ori" /\ deploy.spec = 1 THEN c[g] * m ELSE 0) = c[g] * x /\ c[g] \in Nat
      BY <1>1, <1>2
    <3>4. p \in Nat
      BY <1>1
    <3> HIDE DEF r, x, s, p, c, full, group
    <3>5. size * (s * (r + x)) + p * (r + x) = (size * s + p) * r + (size * s + p) * x
      BY <3>1, <3>4
    <3>6. (size * s + p) * r \in Nat
      BY <3>1, <3>4
    <3> QED
      BY <3>2, <3>3, <3>5, <3>6
  <2>6. SumFunctionOnSet(full, Groups)
        = SumFunctionOnSet(group, Groups) + (IF deploy.spec = 1 THEN MtpBytes(size) ELSE 0)
    <3>1. CASE deploy.spec # 1
      <4>1. \A g \in Groups : group[g] \in Int /\ full[g] = group[g]
        BY <2>5, <3>1
      <4>2. SumFunctionOnSet(group, Groups) \in Int
        <5> HIDE DEF group
        <5> QED
          BY <1>1, <4>1, SumTakes
      <4>3. SumFunctionOnSet(group, Groups) = SumFunctionOnSet(full, Groups)
        <5> HIDE DEF group, full
        <5> QED
          BY <1>1, <4>1, SumSame
      <4> QED
        BY <3>1, <4>2, <4>3
    <3>2. CASE deploy.spec = 1
      <4>1. /\ \A g \in Groups : group[g] \in Int
            /\ full["ori"] = group["ori"] + MtpBytes(size)
            /\ \A g \in Groups \ {"ori"} : full[g] = group[g]
        <5>1. c["ori"] * m = MtpBytes(size)
          BY <1>1, <1>3
        <5>2. full["ori"] = group["ori"] + c["ori"] * m
          BY <1>1, <2>5, <3>2
        <5>3. \A g \in Groups \ {"ori"} : full[g] = group[g]
          BY <2>5
        <5> QED
          BY <2>5, <5>1, <5>2, <5>3
      <4> HIDE DEF group, full
      <4>2. SumFunctionOnSet(full, Groups) = SumFunctionOnSet(group, Groups) + MtpBytes(size)
        BY <1>1, <1>4, <4>1, SumBump
      <4> QED
        BY <3>2, <4>2
    <3> QED
      BY <3>1, <3>2
  <2> DEFINE v == IF deploy.spec > 1 THEN m ELSE 0
  <2>7. /\ SlotBytes = a + o * v /\ ScratchBytes = p * (b + v)
        /\ HasMtp <=> deploy.spec > 0
    BY <1>6, PoolSums DEF MultiMtpPageBytes, HasMtp
  <2>8. v \in Nat /\ o \in Nat /\ p \in Nat /\ deploy.spec \in Nat
    BY <1>1, PoolFacts
  <2>9. SumFunctionOnSet(group, Groups) \in Int
    <3>1. \A g \in Groups : group[g] \in Int
      BY <2>5
    <3> HIDE DEF group
    <3> QED
      BY <1>1, <3>1, SumTakes
  <2>10. IF deploy.spec > 1 THEN (size * o + p) * v = MtpBytes(size) ELSE (size * o + p) * v = 0
    BY <1>1, <1>3, <2>8
  <2> HIDE DEF a, b, v, o, p, m, group, full
  <2>11. size * (a + o * v) + p * (b + v) = size * a + p * b + (size * o + p) * v
    BY <2>4, <2>8
  <2> DEFINE x == SumFunctionOnSet(each, Tensors)
             y == MtpBytes(size)
             w == size * a + p * b
             q == (size * o + p) * v
  <2>12. /\ size * SlotBytes + ScratchBytes = w + q /\ y \in Nat /\ x \in Int
         /\ w = x + (IF deploy.spec = 1 THEN y ELSE 0)
         /\ IF deploy.spec > 1 THEN q = y ELSE q = 0
         /\ HasMtp <=> deploy.spec > 0
    BY <1>4, <2>3, <2>4, <2>6, <2>7, <2>9, <2>10, <2>11
  <2> HIDE DEF x, y, w, q
  <2>13. x + (IF HasMtp THEN y ELSE 0) = w + q
    BY <2>8, <2>12
  <2>14. x + (IF HasMtp THEN y ELSE 0) = size * SlotBytes + ScratchBytes
    BY <2>12, <2>13
  <2> QED
    BY <1>4, <1>6, <2>1, <2>14 DEF x, y
<1> QED
  BY <1>5, <1>6

\* What an attempt and its budget depend on.
LEMMA DeployFixed ==
  ASSUME deploy' = deploy
  PROVE  /\ IsDeepSeek' = IsDeepSeek /\ HasMtp' = HasMtp /\ Tensors' = Tensors
         /\ RankIds' = RankIds /\ Groups' = Groups
         /\ Smallest' = Smallest /\ SlotBytes' = SlotBytes /\ ScratchBytes' = ScratchBytes
         /\ QwenPageBytes' = QwenPageBytes
<1>1. IsDeepSeek' = IsDeepSeek /\ HasMtp' = HasMtp /\ Tensors' = Tensors
      /\ RankIds' = RankIds /\ Groups' = Groups /\ Smallest' = Smallest
  BY DEF IsDeepSeek, HasMtp, Tensors, RankIds, Groups, Smallest
<1>2. Pages' = Pages /\ SlotShare' = SlotShare /\ MultiMtpPageBytes' = MultiMtpPageBytes
      /\ ScratchPages' = ScratchPages
  BY <1>1 DEF Pages, SlotShare, PageBytes, MtpRow, MultiMtpPageBytes, ScratchPages, TileTokens, TileWidth
<1>3. QwenPageBytes' = QwenPageBytes
  BY <1>1 DEF QwenPageBytes
<1>4. SlotBytes' = SlotBytes
  BY <1>1, <1>2 DEF SlotBytes, SlotShare
<1>5. ScratchBytes' = ScratchBytes
  BY <1>1, <1>2 DEF ScratchBytes, Pages
<1> QED
  BY <1>1, <1>3, <1>4, <1>5

LEMMA AttemptFixed ==
  ASSUME deploy' = deploy, size' = size
  PROVE  MainSet' = MainSet /\ MtpSet' = MtpSet /\ (SizeFits => SizeFits')
<1>1. MainSet' = MainSet
  BY DeployFixed DEF MainSet, TensorBytes, PhysicalBlocks, GroupBlocks, ScratchPages, TileTokens, TileWidth, Shard
<1>2. MtpSet' = MtpSet
  BY DeployFixed DEF MtpSet, MtpBytes, PhysicalBlocks, GroupBlocks, ScratchPages, TileTokens, TileWidth, Shard, MtpRow
<1>3. SizeFits => SizeFits'
  BY DeployFixed DEF SizeFits, Room
<1> QED
  BY <1>1, <1>2, <1>3

LEMMA RoomIs ==
  ASSUME deploy \in Deployments, NEW k \in RankIds
  PROVE  Room(k) \in Int /\ Room(k) + deploy.total \in Nat
         /\ Room(k) = (deploy.total * deploy.util) \div 100 - (deploy.total - deploy.free[k])
         /\ (deploy.total * deploy.util) \div 100 \in Nat
<1>1. deploy.total \in Nat /\ deploy.util \in Nat /\ deploy.free[k] \in Nat
  BY PoolFacts
<1>2. deploy.total * deploy.util \in Nat
  BY <1>1
<1>3. (deploy.total * deploy.util) \div 100 \in Nat
  BY <1>2
<1> QED
  BY <1>1, <1>3 DEF Room

LEMMA NothingResident ==
  ASSUME resident = {}, deploy \in Deployments, NEW k \in RankIds
  PROVE  FreeBytes(k) = deploy.free[k]
<1>1. {s \in resident : s.rank = k} = {}
  OBVIOUS
<1>2. Used(k) = 0
  BY <1>1, SumEmpty DEF Used
<1> QED
  BY <1>2, PoolFacts DEF FreeBytes

LEMMA MinOfInts ==
  ASSUME NEW S \in SUBSET Int, S # {}, NEW b \in Nat, \A x \in S : x + b \in Nat
  PROVE  Min(S) \in S /\ \A y \in S : Min(S) <= y
<1> DEFINE T == {x + b : x \in S}
<1>1. T \in SUBSET Nat /\ T # {}
  OBVIOUS
<1>2. Min(T) \in T /\ \A y \in T : Min(T) <= y
  <2> HIDE DEF T
  <2> QED
    BY <1>1, LeastExists
<1>3. PICK m \in S : Min(T) = m + b
  BY <1>2
<1>4. ASSUME NEW y \in S PROVE m <= y
  <2>1. y + b \in T
    OBVIOUS
  <2> HIDE DEF T
  <2> QED
    BY <1>2, <1>3, <2>1
<1> QED
  BY <1>4 DEF Min

LEMMA MaxOfTwo ==
  ASSUME NEW a \in Int, NEW b \in Int, NEW S, S = {a, b}
  PROVE  Max(S) \in Int /\ Max(S) >= a /\ Max(S) >= b /\ Max(S) \in {a, b}
<1>1. \E x \in {a, b} : \A y \in {a, b} : x >= y
  OBVIOUS
<1>2. Max(S) \in {a, b} /\ \A y \in S : Max(S) >= y
  BY <1>1 DEF Max
<1> QED
  BY <1>2

LEMMA MaxOfThree ==
  ASSUME NEW a \in Int, NEW b \in Int, NEW c \in Int, NEW S, S = {a, b, c}
  PROVE  /\ Max(S) \in Int /\ Max(S) >= a /\ Max(S) >= b /\ Max(S) >= c
         /\ Max(S) \in {a, b, c}
<1>1. \E x \in {a, b, c} : \A y \in {a, b, c} : x >= y
  <2>1. CASE a >= b /\ a >= c
    BY <2>1
  <2>2. CASE b >= a /\ b >= c
    BY <2>2
  <2>3. CASE c >= a /\ c >= b
    BY <2>3
  <2> QED
    BY <2>1, <2>2, <2>3
<1>2. Max(S) \in {a, b, c} /\ \A y \in S : Max(S) >= y
  BY <1>1 DEF Max
<1> QED
  BY <1>2

LEMMA QuotientFits ==
  ASSUME NEW n \in Int, NEW d \in Nat \ {0}
  PROVE  n \div d \in Int /\ (n \div d) * d <= n /\ (n >= 0 => n \div d \in Nat)
<1>1. n = (n \div d) * d + (n % d) /\ n \div d \in Int /\ n % d \in 0 .. d - 1
  OBVIOUS
<1>2. n >= 0 => n \div d \in Nat
  OBVIOUS
<1> QED
  BY <1>1, <1>2

\* The slots that fit next to the scratch pages on the rank with the least room.
LEMMA SlotsFit ==
  ASSUME deploy \in Deployments, resident = {}
  PROVE  /\ CapacitySlots \in Nat
         /\ deploy.pages = 0 /\ CapacitySlots # 0 =>
              \A k \in RankIds : CapacitySlots * SlotBytes + ScratchBytes <= Room(k)
<1> DEFINE budgets == [k \in RankIds |-> Budget(k)]
           B == KvBudget(budgets)
           S == Range(budgets)
           o == deploy.perSeq["ori"]
<1>1. ASSUME NEW k \in RankIds PROVE Budget(k) = Room(k)
  BY NothingResident DEF Budget, Room
<1>2. S = {Room(k) : k \in RankIds}
  BY <1>1 DEF Range
<1>3. /\ S \in SUBSET Int /\ S # {} /\ deploy.total \in Nat
      /\ \A x \in S : x + deploy.total \in Nat
  <2>1. 0 \in RankIds /\ deploy.total \in Nat
    BY PoolFacts
  <2>2. \A k \in RankIds : Room(k) \in Int /\ Room(k) + deploy.total \in Nat
    BY RoomIs
  <2>3. Room(0) \in S
    BY <1>2, <2>1
  <2>4. S \in SUBSET Int /\ \A x \in S : x + deploy.total \in Nat
    BY <1>2, <2>2
  <2> QED
    BY <2>1, <2>3, <2>4
<1>4. B \in Int /\ \A k \in RankIds : B <= Room(k)
  <2>1. Min(S) \in S /\ \A y \in S : Min(S) <= y
    <3> HIDE DEF S
    <3> QED
      BY <1>3, MinOfInts
  <2> QED
    BY <1>2, <1>3, <2>1 DEF KvBudget
<1>5. CapacitySlots = IF deploy.pages > 0 THEN deploy.pages \div o
                      ELSE IF B < ScratchBytes + SlotBytes THEN 0
                      ELSE (B - ScratchBytes) \div SlotBytes
  BY DEF CapacitySlots
<1>6. deploy.pages \in Nat /\ o \in Nat \ {0} /\ SlotBytes \in Nat \ {0} /\ ScratchBytes \in Nat
  BY PoolFacts, PoolSums
<1> HIDE DEF B, o
<1>7. CASE deploy.pages > 0
  <2>1. deploy.pages \div o \in Nat
    BY <1>6
  <2> QED
    BY <1>5, <1>7, <2>1
<1>8. CASE ~(deploy.pages > 0) /\ B < ScratchBytes + SlotBytes
  BY <1>5, <1>8
<1>9. CASE ~(deploy.pages > 0) /\ ~(B < ScratchBytes + SlotBytes)
  <2> DEFINE n == B - ScratchBytes
             q == n \div SlotBytes
  <2>1. n \in Int /\ n >= 0 /\ n + ScratchBytes = B
    BY <1>4, <1>6, <1>9
  <2>2. CapacitySlots = q
    BY <1>5, <1>9
  <2> HIDE DEF n
  <2>3. q \in Nat /\ q * SlotBytes <= n
    BY <1>6, <2>1, QuotientFits
  <2> HIDE DEF q
  <2>4. q * SlotBytes \in Nat
    BY <1>6, <2>3
  <2>5. \A k \in RankIds : q * SlotBytes + ScratchBytes <= Room(k)
    BY <1>4, <1>6, <2>1, <2>3, <2>4, RoomIs
  <2> QED
    BY <2>2, <2>3, <2>5
<1> QED
  BY <1>7, <1>8, <1>9

\* Qwen's pages fit, or are the floor.
LEMMA PagesFit ==
  ASSUME deploy \in Deployments, resident = {}, ~IsDeepSeek
  PROVE  /\ QwenPages \in Nat /\ QwenPages >= deploy.floor
         /\ QwenPages = deploy.floor \/ \A k \in RankIds : QwenPages * QwenPageBytes <= Room(k)
<1> DEFINE Q == QwenPageBytes
           f == deploy.floor
           x == deploy.total - deploy.free[0]
           u == (deploy.total * deploy.util) \div 100
           e == deploy.committed
           M == {x, e}
           m == Max(M)
           q == (u - m) \div Q
<1>1. RankIds = {0} /\ f \in Nat \ {0} /\ Q \in Nat \ {0} /\ e \in Nat
  BY PoolFacts, PoolSums DEF IsDeepSeek
<1>2. x \in Int /\ u \in Nat /\ Room(0) = u - x
  BY <1>1, PoolFacts, RoomIs
<1>3. FreeBytes(0) = deploy.free[0]
  BY <1>1, NothingResident
<1>4. QwenPages = Max({q, 1, f})
  BY <1>3 DEF QwenPages, QwenBudget
<1> HIDE DEF x, u, Q, f, e
<1>5. m \in Int /\ m >= x
  <2> DEFINE L == M
  <2>1. x \in Int /\ e \in Int /\ L = {x, e}
    BY <1>1, <1>2
  <2> HIDE DEF L
  <2>2. Max(L) \in Int /\ Max(L) >= x
    BY <2>1, MaxOfTwo
  <2> QED
    BY <2>2 DEF L
<1> HIDE DEF m
<1>6. q \in Int /\ q * Q <= u - m
  <2>1. u - m \in Int
    BY <1>2, <1>5
  <2> QED
    BY <1>1, <2>1, QuotientFits
<1> HIDE DEF q
<1>7. /\ QwenPages \in Int /\ QwenPages >= 1 /\ QwenPages >= f
      /\ QwenPages = q \/ QwenPages = 1 \/ QwenPages = f
  <2> DEFINE L == {q, 1, f}
             one == 1
  <2>1. q \in Int /\ one \in Int /\ f \in Int /\ L = {q, one, f} /\ QwenPages = Max(L)
    BY <1>1, <1>4, <1>6
  <2> HIDE DEF L, one
  <2>2. Max(L) \in Int /\ Max(L) >= one /\ Max(L) >= f /\ Max(L) \in {q, one, f}
    BY <2>1, MaxOfThree
  <2> QED
    BY <2>1, <2>2 DEF one
<1>8. QwenPages = f \/ QwenPages = q
  BY <1>1, <1>7
<1>9. q * Q <= Room(0)
  <2>1. q * Q \in Int
    BY <1>1, <1>6
  <2> QED
    BY <1>2, <1>5, <1>6, <2>1
<1>10. QwenPages = f \/ \A k \in RankIds : QwenPages * Q <= Room(k)
  BY <1>1, <1>8, <1>9
<1>11. QwenPages \in Nat /\ QwenPages >= f
  BY <1>1, <1>7
<1> QED
  BY <1>10, <1>11 DEF Q, f

(***************************************************************************)
(* The shards of an attempt.                                               *)
(***************************************************************************)
LEMMA IndexSplits ==
  ASSUME NEW n \in Nat, NEW r \in Nat \ {0}, NEW x \in Nat, x < n * r
  PROVE  x \div r \in 0 .. n - 1 /\ x % r \in 0 .. r - 1
<1> DEFINE j == x \div r
           k == x % r
<1>1. x = j * r + k /\ j \in Nat /\ k \in 0 .. r - 1
  OBVIOUS
<1> HIDE DEF j, k
<1>2. j * r \in Nat /\ n * r \in Nat
  BY <1>1
<1>3. n <= j => n * r <= j * r
  <2>1. n < j => n * r + r <= j * r
    BY <1>1, MultiplesApart
  <2> QED
    BY <1>1, <1>2, <2>1
<1>4. j \in 0 .. n - 1
  BY <1>1, <1>2, <1>3
<1> QED
  BY <1>1, <1>4 DEF j, k

LEMMA ListsShards ==
  ASSUME deploy \in Deployments, size \in Nat
  PROVE  /\ Range(MainShards) = MainSet /\ Range(MtpShards) = MtpSet
         /\ DOMAIN MainShards \subseteq Nat /\ DOMAIN MtpShards \subseteq Nat
<1> DEFINE q == deploy.tensors
           n == Len(q)
           r == deploy.ranks
           bytes == [t \in Tensors |-> TensorBytes(t, size)]
<1>1. /\ n \in Nat /\ r \in Nat \ {0} /\ RankIds = 0 .. r - 1
      /\ Tensors = {q[j] : j \in 1 .. n}
  <2>1. q \in Seq(Range(q))
    BY DeploymentsAssumption, Zenon
  <2>2. n \in Nat /\ DOMAIN q = 1 .. n
    BY <2>1
  <2> QED
    BY <2>2, PoolFacts DEF Tensors, Range
<1>2. MainShards = [i \in 1 .. n * r |->
                      Shard(q[((i - 1) \div r) + 1], (i - 1) % r, TensorBytes(q[((i - 1) \div r) + 1], size))]
  BY DEF MainShards
<1>3. DOMAIN MainShards = 1 .. n * r
  BY <1>2
<1> HIDE DEF n, r, q
<1>4. ASSUME NEW i \in 1 .. n * r
      PROVE  MainShards[i] \in MainSet
  <2> DEFINE x == i - 1
  <2>1. n * r \in Nat /\ x \in Nat /\ x < n * r
    BY <1>1
  <2> DEFINE j == x \div r
             k == x % r
  <2>2. j \in 0 .. n - 1 /\ k \in 0 .. r - 1
    <3> HIDE DEF x
    <3> QED
      BY <1>1, <2>1, IndexSplits
  <2> HIDE DEF j, k
  <2>4. j + 1 \in 1 .. n
    BY <1>1, <2>2
  <2>5. q[j + 1] \in Tensors /\ k \in RankIds
    BY <1>1, <2>2, <2>4
  <2>6. MainShards[i] = Shard(q[j + 1], k, TensorBytes(q[j + 1], size))
    BY <1>2 DEF j, k
  <2> HIDE DEF x
  <2> QED
    BY <2>5, <2>6 DEF MainSet
<1>5. ASSUME NEW t \in Tensors, NEW k \in RankIds
      PROVE  \E i \in 1 .. n * r : MainShards[i] = Shard(t, k, TensorBytes(t, size))
  <2>1. PICK j \in 1 .. n : t = q[j]
    BY <1>1
  <2> DEFINE y == j - 1
             x == y * r + k
             i == x + 1
  <2>2. y \in 0 .. n - 1 /\ y \in Nat /\ k \in 0 .. r - 1 /\ y + 1 = j
    BY <1>1, <2>1
  <2>3. x \in 0 .. r * n - 1 /\ r * n = n * r
    <3> HIDE DEF y
    <3> QED
      BY <1>1, <2>2, SliceFits
  <2>4. x \div r = y /\ x % r = k
    <3> HIDE DEF y
    <3> QED
      BY <1>1, <2>2, QuotientUnique
  <2> HIDE DEF x, y
  <2>5. i \in 1 .. n * r /\ i - 1 = x
    <3>1. r * n \in Nat
      BY <1>1
    <3> QED
      BY <2>3, <3>1
  <2>6. MainShards[i] = Shard(q[(x \div r) + 1], x % r, TensorBytes(q[(x \div r) + 1], size))
    BY <1>2, <2>5
  <2> QED
    BY <2>1, <2>2, <2>4, <2>5, <2>6
<1>6. Range(MainShards) = MainSet
  <2>1. Range(MainShards) = {MainShards[i] : i \in 1 .. n * r}
    BY <1>3 DEF Range
  <2>2. MainSet \subseteq {MainShards[i] : i \in 1 .. n * r}
    BY <1>5 DEF MainSet
  <2> QED
    BY <1>4, <2>1, <2>2
<1>7. Range(MtpShards) = MtpSet /\ DOMAIN MtpShards \subseteq Nat
  <2>1. CASE ~HasMtp
    BY <2>1 DEF MtpShards, MtpSet, Range
  <2>2. CASE HasMtp
    <3>1. MtpShards = [i \in 1 .. r |-> Shard("mtp", i - 1, MtpBytes(size))]
      BY <2>2 DEF MtpShards, r
    <3>2. \A k \in RankIds : k + 1 \in 1 .. r /\ (k + 1) - 1 = k
      BY <1>1
    <3>3. \A i \in 1 .. r : i - 1 \in RankIds
      BY <1>1
    <3>4. MtpSet = {Shard("mtp", k, MtpBytes(size)) : k \in RankIds}
      BY <2>2 DEF MtpSet
    <3>5. Range(MtpShards) = {Shard("mtp", i - 1, MtpBytes(size)) : i \in 1 .. r}
      BY <3>1 DEF Range
    <3> DEFINE all == Range(MtpShards)
    <3>6. ASSUME NEW s \in all PROVE s \in MtpSet
      BY <3>3, <3>4, <3>5
    <3>7. ASSUME NEW k \in RankIds PROVE Shard("mtp", k, MtpBytes(size)) \in all
      BY <3>2, <3>5
    <3>8. DOMAIN MtpShards = 1 .. r /\ 1 .. r \subseteq Nat
      BY <1>1, <3>1
    <3> QED
      BY <3>4, <3>6, <3>7, <3>8
  <2> QED
    BY <2>1, <2>2
<1>8. 1 .. n * r \subseteq Nat
  BY <1>1
<1> QED
  BY <1>3, <1>6, <1>7, <1>8

LEMMA WantedIs ==
  ASSUME deploy \in Deployments, size \in Nat
  PROVE  /\ Missing # {} => Wanted \in Range(ToBuild) \ resident
         /\ Missing = {} => Range(ToBuild) \subseteq resident
         /\ stack = 0 => Range(ToBuild) = MainSet
         /\ stack # 0 /\ mtpStack = 0 => Range(ToBuild) = MtpSet
         /\ stack # 0 /\ mtpStack # 0 => Missing = {}
<1>1. DOMAIN ToBuild \subseteq Nat
  BY ListsShards DEF ToBuild
<1>2. Missing \in SUBSET Nat
  BY <1>1 DEF Missing
<1>3. ASSUME Missing # {} PROVE Wanted \in Range(ToBuild) \ resident
  <2>1. Min(Missing) \in Missing
    BY <1>2, <1>3, LeastExists
  <2> QED
    BY <2>1 DEF Wanted, Missing, Range
<1>4. Missing = {} => Range(ToBuild) \subseteq resident
  BY DEF Missing, Range
<1>5. stack # 0 /\ mtpStack # 0 => Missing = {}
  BY DEF Missing, ToBuild
<1> QED
  BY <1>3, <1>4, <1>5, ListsShards DEF ToBuild

\* Every rank has a first shard to allocate, and the MTP cache is its own.
LEMMA ShardSets ==
  ASSUME deploy \in Deployments
  PROVE  /\ MainSet # {} /\ (HasMtp => MtpSet # {}) /\ (~HasMtp => MtpSet = {})
         /\ MainSet \cap MtpSet = {}
         /\ \A s, u \in MainSet \cup MtpSet : s.tensor = u.tensor /\ s.rank = u.rank => s = u
<1>1. Tensors # {} /\ 0 \in RankIds /\ "mtp" \notin Tensors
  BY PoolFacts
<1>2. MainSet # {}
  <2>1. PICK t \in Tensors : TRUE
    BY <1>1
  <2>2. Shard(t, 0, TensorBytes(t, size)) \in MainSet
    BY <1>1 DEF MainSet
  <2> QED
    BY <2>2
<1>3. (HasMtp => Shard("mtp", 0, MtpBytes(size)) \in MtpSet) /\ (~HasMtp => MtpSet = {})
  BY <1>1 DEF MtpSet
<1>4. \A s \in MainSet : s.tensor \in Tensors /\ s = Shard(s.tensor, s.rank, TensorBytes(s.tensor, size))
  BY DEF MainSet, Shard
<1>5. \A s \in MtpSet : s.tensor = "mtp" /\ s = Shard("mtp", s.rank, MtpBytes(size))
  BY DEF MtpSet, Shard
<1> QED
  BY <1>1, <1>2, <1>3, <1>4, <1>5

(***************************************************************************)
(* Every step keeps the invariant.                                         *)
(***************************************************************************)
LEMMA WarmUpKeeps ==
  ASSUME PoolsInv, WarmUp
  PROVE  PoolsInv'
BY DEF PoolsInv, WarmUp

LEMMA SizeKeeps ==
  ASSUME PoolsInv, Size
  PROVE  PoolsInv'
<1>1. /\ deploy \in Deployments /\ resident = {} /\ stack = 0 /\ mtpStack = 0
      /\ deploy' = deploy /\ resident' = {} /\ stack' = 0 /\ mtpStack' = 0
      /\ size' = IF IsDeepSeek THEN CapacitySlots ELSE QwenPages
      /\ stage' = IF size' = 0 THEN "failed" ELSE "alloc"
  BY DEF PoolsInv, Size
<1>2. size' \in Nat
  BY <1>1, SlotsFit, PagesFit
<1>3. MainSet' # {}
  <2>1. Tensors' # {} /\ 0 \in RankIds'
    BY <1>1, DeployFixed, PoolFacts
  <2> QED
    BY <2>1 DEF MainSet
<1>4. StacksBuilt'
  BY <1>1, <1>3 DEF StacksBuilt
<1>5. ASSUME size' # 0 PROVE size' >= Smallest' /\ SizeFits'
  <2>1. CASE IsDeepSeek
    <3>1. size' >= Smallest
      BY <1>2, <1>5, <2>1 DEF Smallest
    <3>2. deploy.pages = 0 => \A k \in RankIds : size' * SlotBytes + ScratchBytes <= Room(k)
      BY <1>1, <1>5, <2>1, SlotsFit
    <3> QED
      BY <1>1, <2>1, <3>1, <3>2, DeployFixed DEF SizeFits, Room
  <2>2. CASE ~IsDeepSeek
    <3>1. size' >= Smallest
      BY <1>1, <2>2, PagesFit DEF Smallest
    <3>2. size' = deploy.floor \/ \A k \in RankIds : size' * QwenPageBytes <= Room(k)
      BY <1>1, <2>2, PagesFit
    <3> QED
      BY <1>1, <2>2, <3>1, <3>2, DeployFixed DEF SizeFits, Room
  <2> QED
    BY <2>1, <2>2
<1> QED
  BY <1>1, <1>2, <1>4, <1>5 DEF PoolsInv

LEMMA AllocateKeeps ==
  ASSUME PoolsInv, AllocateShard
  PROVE  PoolsInv'
<1>1. /\ deploy \in Deployments /\ size \in Nat /\ size >= Smallest /\ SizeFits /\ StacksBuilt
      /\ deploy' = deploy /\ size' = size /\ stage' = "alloc" /\ stage = "alloc"
      /\ Missing # {} /\ resident' = resident \cup {Wanted}
      /\ stack' = IF stack = 0 /\ Range(ToBuild) \subseteq resident' THEN size ELSE stack
      /\ mtpStack' = IF stack # 0 /\ Range(ToBuild) \subseteq resident' THEN size ELSE mtpStack
  BY DEF PoolsInv, AllocateShard
<1>2. Smallest' = Smallest /\ MainSet' = MainSet /\ MtpSet' = MtpSet /\ SizeFits' /\ HasMtp' = HasMtp
  BY <1>1, DeployFixed, AttemptFixed
<1>3. size # 0
  BY <1>1, PoolSums
<1>4. StacksBuilt'
  <2>1. CASE stack = 0
    <3>1. Range(ToBuild) = MainSet /\ Wanted \in MainSet \ resident
      BY <1>1, <2>1, WantedIs
    <3>2. resident \subseteq MainSet /\ mtpStack = 0
      BY <1>1, <1>3, <2>1 DEF StacksBuilt
    <3>3. resident' \subseteq MainSet /\ mtpStack' = 0
      BY <1>1, <2>1, <3>1, <3>2
    <3>4. HasMtp => ~(MtpSet \subseteq resident')
      BY <1>1, <3>3, ShardSets
    <3> QED
      BY <1>1, <1>2, <2>1, <3>1, <3>3, <3>4 DEF StacksBuilt
  <2>2. CASE stack # 0 /\ mtpStack = 0
    <3>1. Range(ToBuild) = MtpSet /\ Wanted \in MtpSet \ resident
      BY <1>1, <2>2, WantedIs
    <3>2. HasMtp
      BY <1>1, <3>1, ShardSets
    <3>3. stack = size /\ MainSet \subseteq resident /\ resident \subseteq MainSet \cup MtpSet
      BY <1>1, <1>3, <2>2 DEF StacksBuilt
    <3>4. stack' = size /\ MainSet \subseteq resident' /\ resident' \subseteq MainSet \cup MtpSet
      BY <1>1, <2>2, <3>1, <3>3
    <3> QED
      BY <1>1, <1>2, <2>2, <3>1, <3>2, <3>4 DEF StacksBuilt
  <2>3. CASE stack # 0 /\ mtpStack # 0
    BY <1>1, <2>3, WantedIs
  <2> QED
    BY <2>1, <2>2, <2>3
<1> QED
  BY <1>1, <1>2, <1>4 DEF PoolsInv

LEMMA HalvedIs ==
  ASSUME deploy \in Deployments, NEW n \in Nat, n >= Smallest, Halved(n) # 0
  PROVE  Halved(n) \in Nat /\ Halved(n) >= Smallest /\ Halved(n) <= n /\ n > Smallest
<1> DEFINE h == n \div 2
           s == Smallest
           S == {h, s}
<1>1. s \in Nat \ {0} /\ h \in Int /\ h <= n
  BY PoolSums
<1>2. n > s /\ Halved(n) = Max(S)
  BY <1>1 DEF Halved
<1> HIDE DEF h, s
<1>3. Max(S) \in Int /\ Max(S) >= s /\ Max(S) \in {h, s}
  <2> DEFINE L == S
  <2>1. s \in Int /\ L = {h, s}
    BY <1>1
  <2> HIDE DEF L
  <2>2. Max(L) \in Int /\ Max(L) >= s /\ Max(L) \in {h, s}
    BY <1>1, <2>1, MaxOfTwo
  <2> QED
    BY <2>2 DEF L
<1>4. Halved(n) \in Nat /\ Halved(n) >= s /\ Halved(n) <= n /\ n > s
  BY <1>1, <1>2, <1>3
<1> QED
  BY <1>4 DEF s

LEMMA LessFits ==
  ASSUME NEW n \in Nat, NEW m \in Nat, m <= n, NEW d \in Nat
  PROVE  m * d <= n * d /\ m * d \in Nat /\ n * d \in Nat
OBVIOUS

LEMMA RefuseKeeps ==
  ASSUME PoolsInv, Refuse
  PROVE  PoolsInv'
<1>1. /\ deploy \in Deployments /\ size \in Nat /\ size >= Smallest /\ SizeFits /\ StacksBuilt
      /\ deploy' = deploy /\ stage = "alloc"
      /\ Missing # {} /\ resident' = resident \ FreedOnFailure
      /\ stack' = 0 /\ mtpStack' = 0 /\ size' = Halved(size)
      /\ stage' = IF size' = 0 THEN "failed" ELSE "alloc"
  BY DEF PoolsInv, Refuse, StackAfterFree
<1>2. resident' = {}
  <2>1. CASE stack = 0
    <3>1. Range(ToBuild) = MainSet /\ resident \subseteq MainSet
      BY <1>1, <2>1, WantedIs, PoolSums DEF StacksBuilt
    <3> QED
      BY <1>1, <3>1 DEF FreedOnFailure, PartialShards
  <2>2. CASE stack # 0
    BY <1>1, <2>2 DEF FreedOnFailure
  <2> QED
    BY <2>1, <2>2
<1>3. MainSet' # {}
  <2>1. Tensors' # {} /\ 0 \in RankIds'
    BY <1>1, DeployFixed, PoolFacts
  <2> QED
    BY <2>1 DEF MainSet
<1>4. StacksBuilt'
  BY <1>1, <1>2, <1>3 DEF StacksBuilt
<1>5. ASSUME size' # 0 PROVE size' \in Nat /\ size' >= Smallest' /\ SizeFits'
  <2>1. size' \in Nat /\ size' >= Smallest /\ size' <= size /\ size > Smallest
    BY <1>1, <1>5, HalvedIs
  <2>2. Smallest' = Smallest
    BY <1>1, DeployFixed
  <2>3. CASE IsDeepSeek
    <3> DEFINE n == size'
    <3>1. SlotBytes \in Nat /\ ScratchBytes \in Nat
      BY <1>1, PoolSums
    <3>2. n \in Nat /\ n <= size
      BY <2>1
    <3> HIDE DEF n
    <3>3. n * SlotBytes <= size * SlotBytes /\ n * SlotBytes \in Nat /\ size * SlotBytes \in Nat
      BY <1>1, <3>1, <3>2, LessFits
    <3>4. deploy.pages = 0 => \A k \in RankIds : n * SlotBytes + ScratchBytes <= Room(k)
      <4>1. deploy.pages = 0 => \A k \in RankIds : size * SlotBytes + ScratchBytes <= Room(k)
        BY <1>1, <2>3 DEF SizeFits
      <4>2. \A k \in RankIds : Room(k) \in Int
        BY <1>1, RoomIs
      <4> QED
        BY <3>1, <3>3, <4>1, <4>2
    <3>5. SizeFits'
      BY <1>1, <2>3, <3>4, DeployFixed DEF SizeFits, Room, n
    <3> QED
      BY <2>1, <2>2, <3>5
  <2>4. CASE ~IsDeepSeek
    <3> DEFINE n == size'
    <3>1. QwenPageBytes \in Nat
      BY <1>1, PoolSums
    <3>2. n \in Nat /\ n <= size /\ size # deploy.floor
      BY <1>1, <2>1, <2>4, PoolFacts DEF Smallest
    <3> HIDE DEF n
    <3>3. n * QwenPageBytes <= size * QwenPageBytes /\ n * QwenPageBytes \in Nat /\ size * QwenPageBytes \in Nat
      BY <1>1, <3>1, <3>2, LessFits
    <3>4. deploy.pages = 0 => \A k \in RankIds : n * QwenPageBytes <= Room(k)
      <4>1. deploy.pages = 0 => \A k \in RankIds : size * QwenPageBytes <= Room(k)
        BY <1>1, <2>4, <3>2 DEF SizeFits
      <4>2. \A k \in RankIds : Room(k) \in Int
        BY <1>1, RoomIs
      <4> QED
        BY <3>3, <4>1, <4>2
    <3>5. SizeFits'
      BY <1>1, <2>4, <3>4, DeployFixed DEF SizeFits, Room, n
    <3> QED
      BY <2>1, <2>2, <3>5
  <2> QED
    BY <2>3, <2>4
<1>6. size' \in Nat
  BY <1>5
<1> QED
  BY <1>1, <1>2, <1>4, <1>5, <1>6 DEF PoolsInv

LEMMA ReadyKeeps ==
  ASSUME PoolsInv, Ready
  PROVE  PoolsInv'
<1>1. /\ deploy \in Deployments /\ size \in Nat /\ size >= Smallest /\ SizeFits /\ StacksBuilt
      /\ deploy' = deploy /\ size' = size /\ resident' = resident /\ stage' = "ready"
      /\ Missing = {}
      /\ report' = IF IsDeepSeek THEN GroupBlocks("ori", size) ELSE size
  BY DEF PoolsInv, Ready
<1>2. Smallest' = Smallest /\ MainSet' = MainSet /\ MtpSet' = MtpSet /\ SizeFits' /\ IsDeepSeek' = IsDeepSeek
  BY <1>1, DeployFixed, AttemptFixed
<1>3. Range(ToBuild) \subseteq resident /\ size # 0
  BY <1>1, WantedIs, PoolSums
<1>4. resident = MainSet \cup MtpSet
  <2>1. CASE stack = 0
    BY <1>1, <1>3, <2>1, WantedIs DEF StacksBuilt
  <2>2. CASE stack # 0 /\ mtpStack = 0
    BY <1>1, <1>3, <2>2, WantedIs, ShardSets DEF StacksBuilt
  <2>3. CASE stack # 0 /\ mtpStack # 0
    BY <1>1, <2>3 DEF StacksBuilt
  <2> QED
    BY <2>1, <2>2, <2>3
<1>5. report' = (IF IsDeepSeek THEN GroupBlocks("ori", size) ELSE size)'
  BY <1>1, <1>2 DEF GroupBlocks
<1> QED
  BY <1>1, <1>2, <1>4, <1>5 DEF PoolsInv

LEMMA PoolStutterKeeps ==
  ASSUME PoolsInv, UNCHANGED kvars
  PROVE  PoolsInv'
<1>1. deploy' = deploy /\ size' = size /\ stage' = stage /\ resident' = resident /\ stack' = stack
      /\ mtpStack' = mtpStack /\ report' = report
  BY DEF kvars
<1>2. Smallest' = Smallest /\ MainSet' = MainSet /\ MtpSet' = MtpSet /\ (SizeFits => SizeFits')
      /\ HasMtp' = HasMtp /\ IsDeepSeek' = IsDeepSeek
  BY <1>1, DeployFixed, AttemptFixed
<1>3. StacksBuilt => StacksBuilt'
  BY <1>1, <1>2 DEF StacksBuilt
<1>4. (IF IsDeepSeek THEN GroupBlocks("ori", size) ELSE size)' = IF IsDeepSeek THEN GroupBlocks("ori", size) ELSE size
  BY <1>1, <1>2 DEF GroupBlocks
<1> QED
  BY <1>1, <1>2, <1>3, <1>4 DEF PoolsInv

(***************************************************************************)
(* What the invariant says of a start-up that is over.                     *)
(***************************************************************************)
\* What is resident on a rank, in bytes.
LEMMA UsedIs ==
  ASSUME deploy \in Deployments, size \in Nat, resident = MainSet \cup MtpSet, NEW k \in RankIds
  PROVE  Used(k) = IF IsDeepSeek THEN size * SlotBytes + ScratchBytes ELSE size * QwenPageBytes
<1> DEFINE each == [t \in Tensors |-> TensorBytes(t, size)]
           h == [t \in Tensors |-> Shard(t, k, each[t])]
           g == [s \in resident |-> s.bytes]
           shards == {h[t] : t \in Tensors}
           w == Shard("mtp", k, MtpBytes(size))
           sum == SumFunctionOnSet(each, Tensors)
<1>1. IsFiniteSet(Tensors) /\ "mtp" \notin Tensors
  BY PoolFacts
<1>2. /\ \A t \in Tensors : each[t] \in Nat
      /\ MtpBytes(size) \in Nat
      /\ sum + (IF HasMtp THEN MtpBytes(size) ELSE 0)
         = IF IsDeepSeek THEN size * SlotBytes + ScratchBytes ELSE size * QwenPageBytes
  <2>1. \A t \in Tensors : each[t] = TensorBytes(t, size)
    OBVIOUS
  <2> HIDE DEF each
  <2> QED
    BY <2>1, ResidentBytes
<1>3. shards \subseteq resident /\ shards = {s \in MainSet : s.rank = k}
  BY DEF MainSet, Shard
<1>4. {s \in MtpSet : s.rank = k} = IF HasMtp THEN {w} ELSE {}
  BY DEF MtpSet, Shard
<1>5. {s \in resident : s.rank = k} = IF HasMtp THEN shards \cup {w} ELSE shards
  BY <1>3, <1>4
<1>6. \A t \in Tensors : h[t] \in resident /\ g[h[t]] = each[t] /\ each[t] \in Int
  BY <1>2, <1>3 DEF Shard
<1>7. \A t, u \in Tensors : h[t] = h[u] => t = u
  BY DEF Shard
<1>8. HasMtp => w \in resident /\ g[w] = MtpBytes(size) /\ w \notin shards
  <2>1. \A t \in Tensors : h[t].tensor = t
    BY DEF Shard
  <2>2. w.tensor = "mtp" /\ w.bytes = MtpBytes(size)
    BY DEF Shard
  <2>3. HasMtp => w \in resident
    BY <1>4
  <2> QED
    BY <1>1, <2>1, <2>2, <2>3
<1>9. IsFiniteSet(shards) /\ \A s \in shards : g[s] \in Int
  <2>1. IsFiniteSet(shards)
    <3> DEFINE f == [t \in Tensors |-> h[t]]
    <3> HIDE DEF h
    <3>1. f \in Surjection(Tensors, shards)
      BY DEF Surjection
    <3> QED
      BY <1>1, <3>1, FS_Surjection
  <2> QED
    BY <1>6, <2>1
<1> HIDE DEF each, h, g, w
<1>10. SumFunctionOnSet(g, shards) = sum
  BY <1>1, <1>6, <1>7, SumOverImage
<1> HIDE DEF shards
<1>11. SumFunctionOnSet(g, {s \in resident : s.rank = k}) = sum + (IF HasMtp THEN MtpBytes(size) ELSE 0)
  <2>1. sum \in Int
    BY <1>1, <1>6, SumTakes
  <2> HIDE DEF sum
  <2>2. CASE ~HasMtp
    <3>1. {s \in resident : s.rank = k} = shards
      BY <1>5, <2>2
    <3>2. SumFunctionOnSet(g, {s \in resident : s.rank = k}) = sum
      BY <1>10, <3>1
    <3> QED
      BY <2>1, <2>2, <3>2
  <2>3. CASE HasMtp
    <3>1. \A s \in shards \cup {w} : g[s] \in Int
      BY <1>2, <1>8, <1>9, <2>3
    <3>2. SumFunctionOnSet(g, shards \cup {w}) = g[w] + SumFunctionOnSet(g, shards)
      BY <1>8, <1>9, <2>3, <3>1, SumPut
    <3>3. g[w] = MtpBytes(size) /\ MtpBytes(size) \in Nat
      BY <1>2, <1>8, <2>3
    <3>4. {s \in resident : s.rank = k} = shards \cup {w}
      BY <1>5, <2>3
    <3>5. SumFunctionOnSet(g, {s \in resident : s.rank = k}) = MtpBytes(size) + sum
      BY <1>10, <3>2, <3>3, <3>4
    <3> QED
      BY <2>1, <2>3, <3>3, <3>5
  <2> QED
    BY <2>2, <2>3
<1> QED
  BY <1>2, <1>11 DEF Used, g

LEMMA PoolsFollow ==
  ASSUME PoolsInv
  PROVE  PoolsSound
<1>1. deploy \in Deployments /\ size \in Nat
  BY DEF PoolsInv
<1>2. NothingOrphaned
  <2>1. resident = {} \/ resident \subseteq MainSet \cup MtpSet
    BY DEF PoolsInv, StacksBuilt
  <2>2. \A s, u \in resident : s.tensor = u.tensor /\ s.rank = u.rank => s = u
    BY <1>1, <2>1, ShardSets
  <2> QED
    BY <2>2 DEF PoolsInv, NothingOrphaned
<1>3. WithinBudget
  <2> SUFFICES ASSUME stage = "ready", deploy.pages = 0, NEW k \in RankIds
               PROVE  \/ deploy.total - deploy.free[k] + Used(k) <= (deploy.total * deploy.util) \div 100
                      \/ ~IsDeepSeek /\ size = deploy.floor
    BY DEF WithinBudget
  <2>1. resident = MainSet \cup MtpSet /\ SizeFits
    BY DEF PoolsInv
  <2> DEFINE B == (deploy.total * deploy.util) \div 100
             u == IF IsDeepSeek THEN size * SlotBytes + ScratchBytes ELSE size * QwenPageBytes
             x == deploy.total
             y == deploy.free[k]
  <2>2. Used(k) = u
    BY <1>1, <2>1, UsedIs
  <2>3. u <= Room(k) \/ (~IsDeepSeek /\ size = deploy.floor)
    BY <2>1 DEF SizeFits
  <2>4. Room(k) = B - (x - y) /\ B \in Nat /\ x \in Nat /\ y \in Nat
    BY <1>1, RoomIs, PoolFacts
  <2>5. u \in Nat
    <3>1. SlotBytes \in Nat /\ ScratchBytes \in Nat /\ QwenPageBytes \in Nat
      BY <1>1, PoolSums
    <3> QED
      BY <1>1, <3>1
  <2> HIDE DEF B, u, x, y
  <2>6. x - y + u <= B \/ (~IsDeepSeek /\ size = deploy.floor)
    BY <2>3, <2>4, <2>5
  <2> QED
    BY <2>2, <2>6 DEF B, x, y
<1>4. PoolsMatchReport
  <2> SUFFICES ASSUME stage = "ready" PROVE PoolsMatchReport
    BY DEF PoolsMatchReport
  <2>1. resident = MainSet \cup MtpSet /\ report = IF IsDeepSeek THEN GroupBlocks("ori", size) ELSE size
    BY DEF PoolsInv
  <2>2. ASSUME IsDeepSeek, NEW g PROVE ManagerBlocks(g) = GroupBlocks(g, size)
    <3> DEFINE o == deploy.perSeq["ori"]
    <3>1. o \in Nat \ {0} /\ report = size * o
      BY <1>1, <2>1, <2>2, PoolFacts DEF GroupBlocks
    <3> DEFINE z == 0
    <3>2. z \in 0 .. o - 1 /\ size * o + z = report
      BY <1>1, <3>1
    <3> HIDE DEF o, z
    <3>3. report \div o = size
      BY <1>1, <3>1, <3>2, QuotientUnique
    <3> QED
      BY <3>3 DEF ManagerBlocks, GroupBlocks, o
  <2>3. ASSUME NEW t \in Tensors
        PROVE  TensorBytes(t, size) = deploy.row[t] *
                 (IF IsDeepSeek THEN ManagerBlocks(deploy.of[t]) + ScratchPages ELSE report)
    <3> DEFINE g == deploy.of[t]
               r == deploy.row[t]
    <3>1. g \in Groups /\ r \in Nat /\ ScratchPages \in Nat /\ deploy.perSeq[g] \in Nat
      BY <1>1, PoolFacts
    <3> HIDE DEF g, r
    <3>2. CASE IsDeepSeek
      <4> DEFINE b == GroupBlocks(g, size)
                 p == ScratchPages
      <4>1. b \in Nat /\ p \in Nat
        BY <1>1, <3>1 DEF GroupBlocks
      <4>2. TensorBytes(t, size) = (b + p) * r
        BY <3>2 DEF TensorBytes, PhysicalBlocks, g, r
      <4>3. ManagerBlocks(g) = b
        BY <2>2, <3>2
      <4> HIDE DEF b, p
      <4>4. (b + p) * r = r * (b + p)
        BY <3>1, <4>1
      <4> QED
        BY <3>2, <4>2, <4>3, <4>4 DEF p, g, r
    <3>3. CASE ~IsDeepSeek
      <4>1. TensorBytes(t, size) = size * r /\ report = size
        BY <2>1, <3>3 DEF TensorBytes, r
      <4>2. size * r = r * size
        BY <1>1, <3>1
      <4> QED
        BY <3>3, <4>1, <4>2 DEF r
    <3> QED
      BY <3>2, <3>3
  <2>4. ASSUME NEW t \in Tensors, NEW k \in RankIds
        PROVE  \E s \in resident : /\ s.tensor = t /\ s.rank = k
                               /\ s.bytes = TensorBytes(t, size)
    <3> DEFINE s == Shard(t, k, TensorBytes(t, size))
    <3>1. s \in resident
      BY <2>1 DEF MainSet
    <3>2. s.tensor = t /\ s.rank = k /\ s.bytes = TensorBytes(t, size)
      BY DEF Shard
    <3> QED
      BY <3>1, <3>2
  <2>5. ASSUME HasMtp, NEW k \in RankIds
        PROVE  Shard("mtp", k, MtpRow * (ManagerBlocks("ori") + ScratchPages)) \in resident
    <3> DEFINE b == GroupBlocks("ori", size)
               p == ScratchPages
               m == MtpRow
    <3>1. b \in Nat /\ p \in Nat /\ m \in Nat
      BY <1>1, PoolFacts, SMTT(30) DEF GroupBlocks, MtpRow
    <3>2. MtpBytes(size) = (b + p) * m
      BY DEF MtpBytes, PhysicalBlocks
    <3>3. ManagerBlocks("ori") = b
      BY <2>2, <2>5 DEF HasMtp
    <3>4. Shard("mtp", k, MtpBytes(size)) \in resident
      BY <2>1, <2>5 DEF MtpSet
    <3> HIDE DEF b, p, m
    <3>5. (b + p) * m = m * (b + p)
      BY <3>1
    <3> QED
      BY <3>2, <3>3, <3>4, <3>5 DEF p, m
  <2> QED
    BY <2>3, <2>4, <2>5 DEF PoolsMatchReport
<1> QED
  BY <1>2, <1>3, <1>4 DEF PoolsSound

\* However often an allocation is refused, and whatever the deployment, what
\* init_kv_cache reports is resident on every rank, with the scratch pages; a
\* refused attempt leaves nothing on the devices; and what is allocated is
\* within the share of memory the operator allowed, an explicit number of pages
\* and Qwen's floor apart (_compute_kv_cache_capacity_slots,
\* _compute_kv_cache_pages, _alloc_kv_cache_with_retry).
THEOREM PoolsCorrect == WeightsSpec => []PoolsSound
<1>1. WeightsInit => PoolsInv
  BY DEF WeightsInit, KInit, PoolsInv
<1>2. PoolsInv /\ [WeightsNext]_allVars => PoolsInv'
  <2> SUFFICES ASSUME PoolsInv, [WeightsNext]_allVars PROVE PoolsInv'
    OBVIOUS
  <2>1. CASE KNext
    BY <2>1, WarmUpKeeps, SizeKeeps, AllocateKeeps, RefuseKeeps, ReadyKeeps DEF KNext
  <2>2. CASE UNCHANGED kvars
    BY <2>2, PoolStutterKeeps
  <2> QED
    BY <2>1, <2>2 DEF WeightsNext, allVars
<1>3. PoolsInv => PoolsSound
  BY PoolsFollow
<1> QED
  BY <1>1, <1>2, <1>3, PTL DEF WeightsSpec
=============================================================================
