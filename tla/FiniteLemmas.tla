----------------------------- MODULE FiniteLemmas -----------------------------
(***************************************************************************)
(* Facts about finite sets that the proofs of several components need.     *)
(* Induction over finite sets is used in the form that the provers can     *)
(* apply: a non-empty set of finite sets has a minimal member.             *)
(***************************************************************************)
EXTENDS Integers, FiniteSets, FiniteSetsExt, FiniteSetTheorems, TLAPS

-----------------------------------------------------------------------------
(* Minimal sets and least numbers                                          *)

\* A non-empty set of finite sets has a member that contains no other one.
LEMMA MinimalSet ==
    ASSUME NEW S, NEW T, T \subseteq FiniteSubsetsOf(S), T # {}
    PROVE  \E U \in T : \A V \in T : V \subseteq U => V = U
<1>1. IsWellFoundedOn(StrictSubsetOrdering(S), FiniteSubsetsOf(S))
  BY FS_StrictSubsetOrderingWellFounded
<1>2. PICK U \in T : \A V \in T : ~ (<<V, U>> \in StrictSubsetOrdering(S))
  <2>1. \E U \in T : \A V \in T : ~ (<<V, U>> \in StrictSubsetOrdering(S))
    BY <1>1, WFMin
  <2> QED
    BY <2>1
<1>3. \A V \in T : V \subseteq S
  BY DEF FiniteSubsetsOf
<1> QED
  BY <1>2, <1>3 DEF StrictSubsetOrdering

\* The least member of a non-empty set of naturals exists.
LEMMA LeastOf ==
    ASSUME NEW S, S \subseteq Nat, S # {}
    PROVE  Min(S) \in S /\ \A y \in S : Min(S) <= y
<1> DEFINE T == {0 .. x : x \in S}
<1>1. \A x \in S : 0 .. x \in FiniteSubsetsOf(Nat)
  BY FS_Interval DEF FiniteSubsetsOf
<1>2. T \subseteq FiniteSubsetsOf(Nat) /\ T # {}
  BY <1>1
<1> HIDE DEF T
<1>3. PICK U \in T : \A V \in T : V \subseteq U => V = U
  BY <1>2, MinimalSet
<1> USE DEF T
<1>4. PICK x \in S : U = 0 .. x
  OBVIOUS
<1>5. ASSUME NEW y \in S, y < x
      PROVE  FALSE
  <2>1. 0 .. y \subseteq U /\ 0 .. y # U
    BY <1>4, <1>5
  <2> QED
    BY <1>3, <2>1
<1>6. \A y \in S : x <= y
  BY <1>5
<1> QED
  BY <1>6 DEF Min

-----------------------------------------------------------------------------
(* Sums                                                                    *)

\* So does the greatest member of a bounded set of naturals.
LEMMA GreatestOf ==
    ASSUME NEW n \in Nat, NEW S, S \subseteq 0 .. n, S # {}
    PROVE  Max(S) \in S /\ \A y \in S : y <= Max(S)
<1> DEFINE T == {n - x : x \in S}
<1>1. T \subseteq Nat /\ T # {}
  <2>1. \A x \in S : n - x \in Nat
    OBVIOUS
  <2> QED
    BY <2>1
<1>2. Min(T) \in T /\ \A y \in T : Min(T) <= y
  <2> HIDE DEF T
  <2> QED
    BY <1>1, LeastOf
<1>3. PICK x \in S : Min(T) = n - x
  BY <1>2
<1>4. ASSUME NEW y \in S
      PROVE  y <= x
  <2>1. n - y \in T
    OBVIOUS
  <2>2. n - x <= n - y
    BY <1>2, <1>3, <2>1
  <2> QED
    BY <2>2
<1>5. \A y \in S : x >= y
  BY <1>4
<1>6. Max(S) \in S /\ \A y \in S : Max(S) >= y
  BY <1>5 DEF Max
<1> QED
  BY <1>6

\* Induction over the subsets of a finite set: of those that have a property
\* one has no proper subset that does.
LEMMA SmallestSubset ==
    ASSUME NEW S, IsFiniteSet(S), NEW Bad, Bad \subseteq SUBSET S, Bad # {}
    PROVE  \E U \in Bad : IsFiniteSet(U) /\ \A V \in SUBSET U : V # U => V \notin Bad
<1>1. Bad \subseteq FiniteSubsetsOf(S)
  BY FS_Subset DEF FiniteSubsetsOf
<1>2. PICK U \in Bad : \A V \in Bad : V \subseteq U => V = U
  <2>1. \E U \in Bad : \A V \in Bad : V \subseteq U => V = U
    BY <1>1, MinimalSet
  <2> QED
    BY <2>1
<1> QED
  BY <1>2, FS_Subset

Pick(s) == CHOOSE x \in s : TRUE

\* The function that MapThenSumSet defines by recursion on the subsets.
IsSum(it, f, S) ==
    it = [s \in SUBSET S |-> IF s = {} THEN 0 ELSE f[Pick(s)] + it[s \ {Pick(s)}]]

LEMMA SumUnfolds ==
    ASSUME NEW f, NEW S, NEW it, IsSum(it, f, S), NEW s \in SUBSET S
    PROVE  it[s] = IF s = {} THEN 0 ELSE f[Pick(s)] + it[s \ {Pick(s)}]
BY DEF IsSum

\* Two such functions agree where both are defined.
LEMMA SumsAgree ==
    ASSUME NEW f, NEW S, IsFiniteSet(S), NEW T \in SUBSET S, NEW a, NEW b,
           IsSum(a, f, S), IsSum(b, f, T)
    PROVE  a[T] = b[T]
<1> DEFINE Bad == {U \in SUBSET T : a[U] # b[U]}
<1>1. SUFFICES ASSUME Bad # {} PROVE FALSE
  OBVIOUS
<1>2. IsFiniteSet(T) /\ Bad \subseteq SUBSET T
  BY FS_Subset
<1>3. PICK U \in Bad : \A V \in SUBSET U : V # U => V \notin Bad
  <2> HIDE DEF Bad
  <2>1. \E U \in Bad : IsFiniteSet(U) /\ \A V \in SUBSET U : V # U => V \notin Bad
    BY <1>1, <1>2, SmallestSubset
  <2> QED
    BY <2>1
<1>4. U \in SUBSET T /\ U \in SUBSET S
  OBVIOUS
<1>5. a[U] = (IF U = {} THEN 0 ELSE f[Pick(U)] + a[U \ {Pick(U)}])
  BY <1>4 DEF IsSum
<1>6. b[U] = (IF U = {} THEN 0 ELSE f[Pick(U)] + b[U \ {Pick(U)}])
  BY <1>4, SumUnfolds
<1>7. CASE U = {}
  BY <1>5, <1>6, <1>7
<1>8. CASE U # {}
  <2>1. Pick(U) \in U
    BY <1>8 DEF Pick
  <2>2. U \ {Pick(U)} \in SUBSET U /\ U \ {Pick(U)} # U /\ U \ {Pick(U)} \in SUBSET T
    BY <2>1
  <2>3. a[U \ {Pick(U)}] = b[U \ {Pick(U)}]
    BY <1>3, <2>2
  <2> QED
    BY <1>5, <1>6, <1>8, <2>3
<1> QED
  BY <1>7, <1>8

\* There is such a function.
LEMMA SumExists ==
    ASSUME NEW f, NEW S, IsFiniteSet(S)
    PROVE  \E it : IsSum(it, f, S)
<1> DEFINE Bad == {U \in SUBSET S : ~ \E it : IsSum(it, f, U)}
<1>1. SUFFICES ASSUME Bad # {} PROVE FALSE
  OBVIOUS
<1>2. PICK T \in Bad : IsFiniteSet(T) /\ \A V \in SUBSET T : V # T => V \notin Bad
  <2>1. Bad \subseteq SUBSET S
    OBVIOUS
  <2> HIDE DEF Bad
  <2> QED
    BY <1>1, <2>1, SmallestSubset
<1>3. T \in SUBSET S /\ ~ \E it : IsSum(it, f, T)
  OBVIOUS
<1> HIDE DEF Bad
<1> DEFINE G(U) == CHOOSE it : IsSum(it, f, U)
           D(s) == s \ {Pick(s)}
           g == [s \in SUBSET T |-> IF s = {} THEN 0 ELSE f[Pick(s)] + G(D(s))[D(s)]]
<1>4. \A V \in SUBSET T : V # T => IsSum(G(V), f, V)
  <2> SUFFICES ASSUME NEW V \in SUBSET T, V # T PROVE IsSum(G(V), f, V)
    OBVIOUS
  <2>1. \E it : IsSum(it, f, V)
    BY <1>2, <1>3 DEF Bad
  <2> QED
    BY <2>1
<1> HIDE DEF G
<1>5. ASSUME NEW s \in SUBSET T, s # {}
      PROVE  D(s) \in SUBSET T /\ D(s) \in SUBSET s /\ D(s) # s /\ D(s) # T
  <2>1. Pick(s) \in s
    BY <1>5 DEF Pick
  <2> QED
    BY <2>1
<1>6. ASSUME NEW V \in SUBSET T, V # T
      PROVE  g[V] = G(V)[V]
  <2>1. IsSum(G(V), f, V)
    BY <1>4, <1>6
  <2>2. G(V)[V] = IF V = {} THEN 0 ELSE f[Pick(V)] + G(V)[D(V)]
    BY <2>1, SumUnfolds
  <2>3. ASSUME V # {}
        PROVE  G(V)[D(V)] = G(D(V))[D(V)]
    <3>1. IsFiniteSet(V) /\ D(V) \in SUBSET V /\ IsSum(G(D(V)), f, D(V))
      BY <1>2, <1>4, <1>5, <2>3, FS_Subset
    <3> HIDE DEF D
    <3> QED
      BY <2>1, <3>1, SumsAgree
  <2> QED
    BY <2>2, <2>3
<1>7. ASSUME NEW s \in SUBSET T, s # {}
      PROVE  g[D(s)] = G(D(s))[D(s)]
  BY <1>5, <1>6, <1>7
<1>8. g = [s \in SUBSET T |-> IF s = {} THEN 0 ELSE f[Pick(s)] + g[s \ {Pick(s)}]]
  BY <1>7
<1>9. IsSum(g, f, T)
  <2> HIDE DEF g
  <2> QED
    BY <1>8 DEF IsSum
<1> QED
  BY <1>3, <1>9

Total(f, S) == MapThenSumSet(LAMBDA x : f[x], S)

\* Whatever function of this kind is taken, the sum is its value.
LEMMA TotalIsSum ==
    ASSUME NEW f, NEW S, IsFiniteSet(S), NEW it, IsSum(it, f, S)
    PROVE  Total(f, S) = it[S]
<1> DEFINE c == CHOOSE n : n = [s \in SUBSET S |-> IF s = {} THEN 0
                                   ELSE LET x == CHOOSE x \in s : TRUE IN f[x] + n[s \ {x}]]
<1>1. Total(f, S) = c[S]
  BY DEF Total, MapThenSumSet, MapThenFoldSet
<1>2. \E n : n = [s \in SUBSET S |-> IF s = {} THEN 0
                                   ELSE LET x == CHOOSE x \in s : TRUE IN f[x] + n[s \ {x}]]
  BY DEF IsSum, Pick
<1>3. IsSum(c, f, S)
  BY <1>2 DEF IsSum, Pick
<1> HIDE DEF c
<1> QED
  BY <1>1, <1>3, SumsAgree

LEMMA TotalEmpty == ASSUME NEW f PROVE Total(f, {}) = 0
<1>1. IsFiniteSet({})
  BY FS_EmptySet
<1>2. PICK it : IsSum(it, f, {})
  BY <1>1, SumExists
<1>3. Total(f, {}) = it[{}]
  BY <1>1, <1>2, TotalIsSum
<1> QED
  BY <1>2, <1>3 DEF IsSum

LEMMA TotalPick ==
    ASSUME NEW f, NEW S, IsFiniteSet(S), S # {}
    PROVE  Total(f, S) = f[Pick(S)] + Total(f, S \ {Pick(S)})
<1> DEFINE R == S \ {Pick(S)}
<1>1. PICK it : IsSum(it, f, S)
  BY SumExists
<1>2. Total(f, S) = it[S]
  BY <1>1, TotalIsSum
<1>3. it[S] = f[Pick(S)] + it[R]
  BY <1>1 DEF IsSum
<1>4. IsFiniteSet(R) /\ R \in SUBSET S
  BY FS_Subset
<1> HIDE DEF R
<1>5. PICK r : IsSum(r, f, R)
  BY <1>4, SumExists
<1>6. it[R] = r[R]
  BY <1>1, <1>4, <1>5, SumsAgree
<1>7. Total(f, R) = r[R]
  BY <1>4, <1>5, TotalIsSum
<1>8. Total(f, S) = f[Pick(S)] + Total(f, R)
  BY <1>2, <1>3, <1>6, <1>7
<1> QED
  BY <1>8 DEF R

\* A sum of naturals is a natural.
LEMMA TotalType ==
    ASSUME NEW f, NEW S, IsFiniteSet(S), \A x \in S : f[x] \in Nat
    PROVE  Total(f, S) \in Nat
<1> DEFINE Bad == {U \in SUBSET S : Total(f, U) \notin Nat}
<1>1. SUFFICES ASSUME Bad # {} PROVE FALSE
  OBVIOUS
<1>2. PICK U \in Bad : IsFiniteSet(U) /\ \A V \in SUBSET U : V # U => V \notin Bad
  <2>1. Bad \subseteq SUBSET S
    OBVIOUS
  <2> HIDE DEF Bad
  <2> QED
    BY <1>1, <2>1, SmallestSubset
<1>3. U \in SUBSET S /\ Total(f, U) \notin Nat
  OBVIOUS
<1>4. U # {}
  BY <1>3, TotalEmpty
<1>5. Pick(U) \in U
  BY <1>4 DEF Pick
<1>6. Total(f, U \ {Pick(U)}) \in Nat
  BY <1>2, <1>3, <1>5
<1> QED
  BY <1>2, <1>3, <1>4, <1>5, <1>6, TotalPick

\* Any member may be taken out first.
LEMMA TotalRemove ==
    ASSUME NEW f, NEW S, IsFiniteSet(S), \A x \in S : f[x] \in Nat, NEW e \in S
    PROVE  Total(f, S) = f[e] + Total(f, S \ {e})
<1> DEFINE Bad == {U \in SUBSET S : \E x \in U : Total(f, U) # f[x] + Total(f, U \ {x})}
<1>1. SUFFICES ASSUME Bad # {} PROVE FALSE
  OBVIOUS
<1>2. PICK U \in Bad : IsFiniteSet(U) /\ \A V \in SUBSET U : V # U => V \notin Bad
  <2>1. Bad \subseteq SUBSET S
    OBVIOUS
  <2> HIDE DEF Bad
  <2> QED
    BY <1>1, <2>1, SmallestSubset
<1>3. U \in SUBSET S
  OBVIOUS
<1>4. PICK x \in U : Total(f, U) # f[x] + Total(f, U \ {x})
  OBVIOUS
<1> DEFINE p == Pick(U)
           rest == U \ {p, x}
<1>5. p \in U
  BY DEF Pick
<1> HIDE DEF p
<1>6. Total(f, U) = f[p] + Total(f, U \ {p})
  BY <1>2, TotalPick DEF p
<1>7. p # x
  BY <1>4, <1>6
<1>8. Total(f, U \ {p}) = f[x] + Total(f, rest)
  <2>1. U \ {p} \in SUBSET U /\ U \ {p} # U /\ x \in U \ {p} /\ (U \ {p}) \ {x} = rest
    BY <1>5, <1>7
  <2> QED
    BY <1>2, <1>3, <2>1
<1>9. Total(f, U \ {x}) = f[p] + Total(f, rest)
  <2>1. U \ {x} \in SUBSET U /\ U \ {x} # U /\ p \in U \ {x} /\ (U \ {x}) \ {p} = rest
    BY <1>5, <1>7
  <2> QED
    BY <1>2, <1>3, <2>1
<1>10. f[p] \in Nat /\ f[x] \in Nat
  BY <1>3, <1>5
<1>11. Total(f, rest) \in Nat
  <2>1. rest \in SUBSET S /\ IsFiniteSet(rest)
    BY <1>3, FS_Subset
  <2> HIDE DEF rest
  <2> QED
    BY <2>1, TotalType
<1> QED
  BY <1>4, <1>6, <1>8, <1>9, <1>10, <1>11

\* Sums keep the order, and equality, of what is added.
LEMMA TotalMonotonic ==
    ASSUME NEW f, NEW g, NEW S, IsFiniteSet(S),
           \A x \in S : f[x] \in Nat /\ g[x] \in Nat /\ f[x] <= g[x]
    PROVE  Total(f, S) <= Total(g, S)
<1> DEFINE Bad == {U \in SUBSET S : ~(Total(f, U) <= Total(g, U))}
<1>1. SUFFICES ASSUME Bad # {} PROVE FALSE
  OBVIOUS
<1>2. PICK U \in Bad : IsFiniteSet(U) /\ \A V \in SUBSET U : V # U => V \notin Bad
  <2>1. Bad \subseteq SUBSET S
    OBVIOUS
  <2> HIDE DEF Bad
  <2> QED
    BY <1>1, <2>1, SmallestSubset
<1>3. U \in SUBSET S /\ ~(Total(f, U) <= Total(g, U))
  OBVIOUS
<1>4. U # {}
  BY <1>3, TotalEmpty
<1> DEFINE p == Pick(U)
           rest == U \ {p}
<1>5. p \in U
  BY <1>4 DEF Pick
<1>6. Total(f, U) = f[p] + Total(f, rest) /\ Total(g, U) = g[p] + Total(g, rest)
  BY <1>2, <1>4, TotalPick
<1>7. Total(f, rest) <= Total(g, rest)
  BY <1>2, <1>3, <1>5
<1>8. Total(f, rest) \in Nat /\ Total(g, rest) \in Nat
  <2>1. rest \in SUBSET S /\ IsFiniteSet(rest)
    BY <1>2, <1>3, FS_Subset
  <2> HIDE DEF rest
  <2> QED
    BY <2>1, TotalType
<1>9. f[p] \in Nat /\ g[p] \in Nat /\ f[p] <= g[p]
  BY <1>3, <1>5
<1> HIDE DEF p, rest
<1> QED
  BY <1>3, <1>6, <1>7, <1>8, <1>9

LEMMA TotalEqual ==
    ASSUME NEW f, NEW g, NEW S, IsFiniteSet(S),
           \A x \in S : f[x] \in Nat /\ g[x] = f[x]
    PROVE  Total(f, S) = Total(g, S)
<1>1. Total(f, S) <= Total(g, S) /\ Total(g, S) <= Total(f, S)
  BY TotalMonotonic
<1>2. Total(f, S) \in Nat /\ Total(g, S) \in Nat
  BY TotalType
<1> QED
  BY <1>1, <1>2

\* Changing the value at one member changes the sum by as much.
LEMMA TotalChange ==
    ASSUME NEW f, NEW g, NEW S, IsFiniteSet(S), NEW e \in S,
           \A x \in S : f[x] \in Nat /\ g[x] \in Nat,
           \A x \in S \ {e} : g[x] = f[x]
    PROVE  Total(g, S) = Total(f, S) + (g[e] - f[e])
<1>1. IsFiniteSet(S \ {e})
  BY FS_Subset
<1>2. Total(f, S) = f[e] + Total(f, S \ {e})
  BY TotalRemove
<1>3. Total(g, S) = g[e] + Total(g, S \ {e})
  BY TotalRemove
<1>4. Total(f, S \ {e}) = Total(g, S \ {e})
  BY <1>1, TotalEqual
<1>5. Total(f, S \ {e}) \in Nat
  BY <1>1, TotalType
<1> QED
  BY <1>2, <1>3, <1>4, <1>5

\* A member of value zero does not count.
LEMMA TotalZero ==
    ASSUME NEW f, NEW S, IsFiniteSet(S), \A x \in S : f[x] \in Nat, NEW e, e \in S => f[e] = 0
    PROVE  Total(f, S) = Total(f, S \ {e})
<1>1. CASE e \in S
  <2>1. Total(f, S) = f[e] + Total(f, S \ {e})
    BY <1>1, TotalRemove
  <2>2. Total(f, S \ {e}) \in Nat
    BY FS_Subset, TotalType
  <2> QED
    BY <1>1, <2>1, <2>2
<1>2. CASE e \notin S
  <2>1. S \ {e} = S
    BY <1>2
  <2> QED
    BY <2>1
<1> QED
  BY <1>1, <1>2

\* A sum of sums is the sum of both.
LEMMA TotalAdds ==
    ASSUME NEW f, NEW g, NEW h, NEW S, IsFiniteSet(S),
           \A x \in S : f[x] \in Nat /\ g[x] \in Nat /\ h[x] = f[x] + g[x]
    PROVE  Total(h, S) = Total(f, S) + Total(g, S)
<1> DEFINE Bad == {U \in SUBSET S : Total(h, U) # Total(f, U) + Total(g, U)}
<1>1. SUFFICES ASSUME Bad # {} PROVE FALSE
  OBVIOUS
<1>2. PICK U \in Bad : IsFiniteSet(U) /\ \A V \in SUBSET U : V # U => V \notin Bad
  <2>1. Bad \subseteq SUBSET S
    OBVIOUS
  <2> HIDE DEF Bad
  <2> QED
    BY <1>1, <2>1, SmallestSubset
<1>3. U \in SUBSET S /\ Total(h, U) # Total(f, U) + Total(g, U)
  OBVIOUS
<1>4. U # {}
  BY <1>3, TotalEmpty
<1> DEFINE p == Pick(U)
           rest == U \ {p}
<1>5. p \in U
  BY <1>4 DEF Pick
<1>6. /\ Total(f, U) = f[p] + Total(f, rest) /\ Total(g, U) = g[p] + Total(g, rest)
      /\ Total(h, U) = h[p] + Total(h, rest)
  BY <1>2, <1>4, TotalPick
<1>7. Total(h, rest) = Total(f, rest) + Total(g, rest)
  BY <1>2, <1>3, <1>5
<1>8. Total(f, rest) \in Nat /\ Total(g, rest) \in Nat
  <2>1. rest \in SUBSET S /\ IsFiniteSet(rest)
    BY <1>2, <1>3, FS_Subset
  <2> HIDE DEF rest
  <2> QED
    BY <2>1, TotalType
<1>9. f[p] \in Nat /\ g[p] \in Nat /\ h[p] = f[p] + g[p]
  BY <1>3, <1>5
<1> HIDE DEF p, rest
<1> QED
  BY <1>3, <1>6, <1>7, <1>8, <1>9

\* A sum of zeros is zero.
LEMMA TotalNothing ==
    ASSUME NEW f, NEW S, IsFiniteSet(S), \A x \in S : f[x] = 0
    PROVE  Total(f, S) = 0
<1>1. \A x \in S : f[x] + f[x] = f[x] /\ f[x] \in Nat
  OBVIOUS
<1>2. Total(f, S) = Total(f, S) + Total(f, S)
  BY <1>1, TotalAdds
<1>3. Total(f, S) \in Nat
  BY <1>1, TotalType
<1>4. \A n \in Nat : n = n + n => n = 0
  OBVIOUS
<1> QED
  BY <1>2, <1>3, <1>4

\* The sum over a part of a set is no more than the sum over the set.
LEMMA TotalSubset ==
    ASSUME NEW f, NEW S, IsFiniteSet(S), \A x \in S : f[x] \in Nat, NEW T, T \subseteq S
    PROVE  Total(f, T) <= Total(f, S)
<1> DEFINE Bad == {U \in SUBSET S : ~(Total(f, U \cap T) <= Total(f, U))}
<1>1. SUFFICES ASSUME Bad # {} PROVE FALSE
  <2>1. S \cap T = T
    OBVIOUS
  <2> QED
    BY <2>1
<1>2. PICK U \in Bad : IsFiniteSet(U) /\ \A V \in SUBSET U : V # U => V \notin Bad
  <2>1. Bad \subseteq SUBSET S
    OBVIOUS
  <2> HIDE DEF Bad
  <2> QED
    BY <1>1, <2>1, SmallestSubset
<1>3. U \in SUBSET S /\ ~(Total(f, U \cap T) <= Total(f, U))
  OBVIOUS
<1>4. U # {}
  <2>1. ASSUME U = {} PROVE FALSE
    <3>1. U \cap T = {}
      BY <2>1
    <3> QED
      BY <1>3, <2>1, <3>1, TotalEmpty
  <2> QED
    BY <2>1
<1>5. PICK e \in U : TRUE
  BY <1>4
<1> DEFINE V == U \ {e}
<1>6. Total(f, V \cap T) <= Total(f, V)
  BY <1>2, <1>3
<1>7. IsFiniteSet(V) /\ IsFiniteSet(V \cap T) /\ IsFiniteSet(U \cap T)
  BY <1>2, FS_Subset
<1>8. f[e] \in Nat /\ Total(f, V) \in Nat /\ Total(f, V \cap T) \in Nat
  BY <1>3, <1>7, TotalType
<1>9. Total(f, U) = f[e] + Total(f, V)
  BY <1>2, <1>3, TotalRemove
<1>10. Total(f, U \cap T) = Total(f, V \cap T) \/ Total(f, U \cap T) = f[e] + Total(f, V \cap T)
  <2>1. CASE e \in T
    <3>1. (U \cap T) \ {e} = V \cap T /\ e \in U \cap T
      BY <2>1
    <3>2. \A x \in U \cap T : f[x] \in Nat
      BY <1>3
    <3>3. Total(f, U \cap T) = f[e] + Total(f, (U \cap T) \ {e})
      BY <1>7, <3>1, <3>2, TotalRemove
    <3> QED
      BY <3>1, <3>3
  <2>2. CASE e \notin T
    <3>1. U \cap T = V \cap T
      BY <2>2
    <3> QED
      BY <3>1
  <2> QED
    BY <2>1, <2>2
<1> HIDE DEF V
<1> QED
  BY <1>3, <1>6, <1>8, <1>9, <1>10

\* A sum of the same value over the members of a part.
LEMMA TotalOfPart ==
    ASSUME NEW S, IsFiniteSet(S), NEW X, X \subseteq S, NEW c \in Nat,
           NEW f, \A x \in S : f[x] = IF x \in X THEN c ELSE 0
    PROVE  Total(f, S) = Cardinality(X) * c
<1> DEFINE Bad == {U \in SUBSET S : Total(f, U) # Cardinality(U \cap X) * c}
<1>1. SUFFICES ASSUME Bad # {} PROVE FALSE
  <2>1. Bad = {} => Total(f, S) = Cardinality(S \cap X) * c
    OBVIOUS
  <2>2. S \cap X = X
    OBVIOUS
  <2> QED
    BY <2>1, <2>2
<1>2. PICK U \in Bad : IsFiniteSet(U) /\ \A V \in SUBSET U : V # U => V \notin Bad
  <2>1. Bad \subseteq SUBSET S
    OBVIOUS
  <2> HIDE DEF Bad
  <2> QED
    BY <1>1, <2>1, SmallestSubset
<1>3. U \in SUBSET S /\ Total(f, U) # Cardinality(U \cap X) * c
  OBVIOUS
<1>4. U # {}
  <2>1. SUFFICES ASSUME U = {} PROVE FALSE
    OBVIOUS
  <2>2. U \cap X = {} /\ Cardinality({}) = 0 /\ Total(f, {}) = 0
    BY <2>1, FS_EmptySet, TotalEmpty
  <2>3. 0 * c = 0
    OBVIOUS
  <2> QED
    BY <1>3, <2>1, <2>2, <2>3
<1>5. PICK e \in U : TRUE
  BY <1>4
<1> DEFINE V == U \ {e}
<1>6. Total(f, V) = Cardinality(V \cap X) * c
  BY <1>2, <1>3, <1>5
<1>7. Total(f, U) = f[e] + Total(f, V)
  BY <1>2, <1>3, <1>5, TotalRemove
<1>8. IsFiniteSet(U \cap X) /\ IsFiniteSet(V \cap X)
  BY <1>2, FS_Subset
<1>9. Cardinality(V \cap X) \in Nat /\ Cardinality(U \cap X) \in Nat
  BY <1>8, FS_CardinalityType
<1>10. CASE e \in X
  <2>1. U \cap X = (V \cap X) \cup {e} /\ e \notin V \cap X
    BY <1>5, <1>10
  <2>2. Cardinality(U \cap X) = Cardinality(V \cap X) + 1
    BY <1>8, <2>1, FS_AddElement
  <2>3. f[e] = c
    BY <1>3, <1>5, <1>10
  <2>4. \A n \in Nat : (n + 1) * c = c + n * c
    OBVIOUS
  <2> QED
    BY <1>3, <1>6, <1>7, <1>9, <2>2, <2>3, <2>4
<1>11. CASE e \notin X
  <2>1. U \cap X = V \cap X
    BY <1>11
  <2>2. f[e] = 0
    BY <1>3, <1>5, <1>11
  <2>3. \A n \in Nat : 0 + n * c = n * c
    OBVIOUS
  <2> QED
    BY <1>3, <1>6, <1>7, <1>9, <2>1, <2>2, <2>3
<1> QED
  BY <1>10, <1>11

\* What is zero outside a part adds nothing there.
LEMMA TotalWithin ==
    ASSUME NEW S, IsFiniteSet(S), NEW T, T \subseteq S, NEW f, \A x \in S : f[x] \in Nat, \A x \in S \ T : f[x] = 0
    PROVE  Total(f, S) = Total(f, T)
<1> DEFINE Bad == {U \in SUBSET S : Total(f, U) # Total(f, U \cap T)}
<1>1. SUFFICES ASSUME Bad # {} PROVE FALSE
  <2>1. Bad = {} => Total(f, S) = Total(f, S \cap T)
    OBVIOUS
  <2>2. S \cap T = T
    OBVIOUS
  <2> QED
    BY <2>1, <2>2
<1>2. PICK U \in Bad : IsFiniteSet(U) /\ \A V \in SUBSET U : V # U => V \notin Bad
  <2>1. Bad \subseteq SUBSET S
    OBVIOUS
  <2> HIDE DEF Bad
  <2> QED
    BY <1>1, <2>1, SmallestSubset
<1>3. U \in SUBSET S /\ Total(f, U) # Total(f, U \cap T)
  OBVIOUS
<1>4. PICK e \in U \ T : TRUE
  <2>1. U \subseteq T => U \cap T = U
    OBVIOUS
  <2> QED
    BY <1>3, <2>1
<1> DEFINE V == U \ {e}
<1>5. Total(f, V) = Total(f, V \cap T)
  BY <1>2, <1>3, <1>4
<1>6. V \cap T = U \cap T
  BY <1>4
<1>7. Total(f, U) = f[e] + Total(f, V)
  BY <1>2, <1>3, <1>4, TotalRemove
<1>8. f[e] = 0 /\ Total(f, V) \in Nat
  <2>1. IsFiniteSet(V) /\ \A x \in V : f[x] \in Nat
    BY <1>2, <1>3, FS_Subset
  <2> QED
    BY <1>3, <1>4, <2>1, TotalType
<1> HIDE DEF V
<1>9. Total(f, U) = Total(f, V)
  BY <1>7, <1>8
<1>10. Total(f, V) = Total(f, U \cap T)
  BY <1>5, <1>6
<1> QED
  BY <1>3, <1>9, <1>10

\* Each of the numbers m .. k - 1 adds the same.
LEMMA TotalGrows ==
    ASSUME NEW f, NEW m \in Nat, NEW k \in Nat, m <= k, NEW A, A \subseteq 0 .. m - 1, NEW c \in Nat,
           \A x \in A : f[x] \in Nat, \A x \in m .. k - 1 : f[x] = c
    PROVE  Total(f, A \cup (m .. k - 1)) = Total(f, A) + (k - m) * c
<1> DEFINE B == m .. k - 1
           S == A \cup B
           g == [x \in S |-> IF x \in A THEN f[x] ELSE 0]
           h == [x \in S |-> IF x \in B THEN c ELSE 0]
<1>1. IsFiniteSet(S) /\ IsFiniteSet(A) /\ IsFiniteSet(B)
  <2>1. S \subseteq 0 .. k - 1 /\ A \subseteq S /\ B \subseteq S
    OBVIOUS
  <2>2. IsFiniteSet(0 .. k - 1)
    BY FS_Interval
  <2> HIDE DEF S, B
  <2> QED
    BY <2>1, <2>2, FS_Subset
<1>2. A \cap B = {} /\ Cardinality(B) = k - m
  <2>1. Cardinality(B) = IF m > k - 1 THEN 0 ELSE (k - 1) - m + 1
    BY FS_Interval
  <2> QED
    BY <2>1
<1>3. \A x \in S : g[x] \in Nat /\ h[x] \in Nat /\ f[x] = g[x] + h[x]
  BY <1>2
<1>4. Total(f, S) = Total(g, S) + Total(h, S)
  <2> HIDE DEF S, g, h
  <2> QED
    BY <1>1, <1>3, TotalAdds
<1>5. Total(h, S) = (k - m) * c
  <2>1. B \subseteq S /\ \A x \in S : h[x] = IF x \in B THEN c ELSE 0
    OBVIOUS
  <2> HIDE DEF S, B, h
  <2> QED
    BY <1>1, <1>2, <2>1, TotalOfPart
<1>6. Total(g, S) = Total(f, A)
  <2>1. A \subseteq S /\ \A x \in A : g[x] = f[x] /\ f[x] \in Nat
    OBVIOUS
  <2>2. \A x \in S \ A : g[x] = 0
    OBVIOUS
  <2> HIDE DEF S, B, g
  <2>3. Total(g, S) = Total(g, A)
    BY <1>1, <1>3, <2>1, <2>2, TotalWithin
  <2>4. Total(g, A) = Total(f, A)
    BY <1>1, <2>1, TotalEqual
  <2> QED
    BY <2>3, <2>4
<1> QED
  BY <1>4, <1>5, <1>6

\* A sum does not depend on the names of what is summed.
LEMMA TotalRenamed ==
    ASSUME NEW f, NEW g, NEW p, NEW S, IsFiniteSet(S),
           \A x \in S : g[x] \in Nat /\ f[p[x]] = g[x],
           \A x, y \in S : p[x] = p[y] => x = y
    PROVE  Total(f, {p[x] : x \in S}) = Total(g, S)
<1> DEFINE Image(U) == {p[x] : x \in U}
           Bad == {U \in SUBSET S : Total(f, Image(U)) # Total(g, U)}
<1>1. SUFFICES ASSUME Bad # {} PROVE FALSE
  OBVIOUS
<1>2. PICK U \in Bad : IsFiniteSet(U) /\ \A V \in SUBSET U : V # U => V \notin Bad
  <2>1. Bad \subseteq SUBSET S
    OBVIOUS
  <2> HIDE DEF Bad
  <2> QED
    BY <1>1, <2>1, SmallestSubset
<1>3. U \in SUBSET S /\ Total(f, Image(U)) # Total(g, U)
  OBVIOUS
<1>4. U # {}
  <2>1. ASSUME U = {} PROVE FALSE
    <3>1. Image(U) = {}
      BY <2>1
    <3> QED
      BY <1>3, <2>1, <3>1, TotalEmpty
  <2> QED
    BY <2>1
<1>5. PICK e \in U : TRUE
  BY <1>4
<1>6. Total(f, Image(U \ {e})) = Total(g, U \ {e})
  BY <1>2, <1>3
<1>7. Total(g, U) = g[e] + Total(g, U \ {e})
  BY <1>2, <1>3, TotalRemove
<1>8. Image(U) \ {p[e]} = Image(U \ {e}) /\ p[e] \in Image(U)
  BY <1>3
<1>9. IsFiniteSet(Image(U))
  <2>1. [x \in U |-> p[x]] \in Surjection(U, Image(U))
    BY DEF Surjection
  <2> QED
    BY <1>2, <2>1, FS_Surjection
<1>10. \A y \in Image(U) : f[y] \in Nat
  BY <1>3
<1>11. Total(f, Image(U)) = f[p[e]] + Total(f, Image(U) \ {p[e]})
  <2> HIDE DEF Image
  <2> QED
    BY <1>8, <1>9, <1>10, TotalRemove
<1> QED
  BY <1>3, <1>6, <1>7, <1>8, <1>11

-----------------------------------------------------------------------------
(* Sorting                                                                 *)

Increasing(q, n) == \A a, b \in 1 .. n : a < b => q[a] < q[b]

Listed(U) == \E q \in [1 .. Cardinality(U) -> U] : Increasing(q, Cardinality(U))

\* The members of a finite set of naturals can be listed in increasing order.
LEMMA IncreasingExists ==
    ASSUME NEW S, S \subseteq Nat, IsFiniteSet(S)
    PROVE  Listed(S)
<1> DEFINE Bad == {U \in SUBSET S : ~ Listed(U)}
<1>1. SUFFICES ASSUME Bad # {} PROVE FALSE
  OBVIOUS
<1>2. PICK U \in Bad : IsFiniteSet(U) /\ \A V \in SUBSET U : V # U => V \notin Bad
  <2>1. Bad \subseteq SUBSET S
    OBVIOUS
  <2> HIDE DEF Bad
  <2> QED
    BY <1>1, <2>1, SmallestSubset
<1>3. U \in SUBSET S /\ ~ Listed(U)
  OBVIOUS
<1>4. U # {}
  <2>1. ASSUME U = {}
        PROVE  FALSE
    <3>1. Cardinality(U) = 0
      BY <2>1, FS_EmptySet
    <3>2. [n \in 1 .. 0 |-> n] \in [1 .. Cardinality(U) -> U]
      BY <3>1
    <3>3. Increasing([n \in 1 .. 0 |-> n], Cardinality(U))
      BY <3>1 DEF Increasing
    <3> QED
      BY <1>3, <3>2, <3>3 DEF Listed
  <2> QED
    BY <2>1
<1> DEFINE m == Min(U)
           V == U \ {m}
           n == Cardinality(U)
<1>5. m \in U /\ \A y \in U : m <= y
  BY <1>3, <1>4, LeastOf
<1>6. n \in Nat /\ IsFiniteSet(V) /\ Cardinality(V) = n - 1
  BY <1>2, <1>5, FS_RemoveElement, FS_CardinalityType
<1>7. Listed(V)
  <2>1. V \in SUBSET U /\ V # U
    BY <1>5
  <2> QED
    BY <1>2, <1>3, <2>1
<1>8. PICK q \in [1 .. n - 1 -> V] : Increasing(q, n - 1)
  BY <1>6, <1>7 DEF Listed
<1> DEFINE r == [k \in 1 .. n |-> IF k = 1 THEN m ELSE q[k - 1]]
<1> HIDE DEF n, m, Bad
<1>9. r \in [1 .. n -> U]
  BY <1>5, <1>6, <1>8
<1>10. Increasing(r, n)
  <2> SUFFICES ASSUME NEW a \in 1 .. n, NEW b \in 1 .. n, a < b PROVE r[a] < r[b]
    BY DEF Increasing
  <2>1. r[b] = q[b - 1] /\ b - 1 \in 1 .. n - 1 /\ q[b - 1] \in V
    BY <1>6, <1>8
  <2>2. CASE a = 1
    <3>1. r[a] = m /\ q[b - 1] \in U /\ q[b - 1] # m
      BY <1>6, <2>1, <2>2
    <3>2. m \in Nat /\ q[b - 1] \in Nat /\ m <= q[b - 1]
      BY <1>3, <1>5, <3>1
    <3> QED
      BY <2>1, <3>1, <3>2
  <2>3. CASE a # 1
    <3>1. r[a] = q[a - 1] /\ a - 1 \in 1 .. n - 1 /\ a - 1 < b - 1
      BY <1>6, <2>3
    <3> QED
      BY <1>8, <2>1, <3>1 DEF Increasing
  <2> QED
    BY <2>2, <2>3
<1> QED
  BY <1>3, <1>9, <1>10 DEF n, Listed

\* Such a list holds every member exactly once.
LEMMA IncreasingLists ==
    ASSUME NEW S, S \subseteq Nat, IsFiniteSet(S), NEW q \in [1 .. Cardinality(S) -> S],
           Increasing(q, Cardinality(S))
    PROVE  /\ \A a, b \in 1 .. Cardinality(S) : q[a] = q[b] => a = b
           /\ \A x \in S : \E a \in 1 .. Cardinality(S) : q[a] = x
<1> DEFINE n == Cardinality(S)
<1>1. n \in Nat
  BY FS_CardinalityType
<1>2. \A a, b \in 1 .. n : q[a] = q[b] => a = b
  <2> SUFFICES ASSUME NEW a \in 1 .. n, NEW b \in 1 .. n, a # b PROVE q[a] # q[b]
    OBVIOUS
  <2>1. q[a] \in S /\ q[b] \in S /\ (a < b \/ b < a)
    BY <1>1
  <2>2. q[a] < q[b] \/ q[b] < q[a]
    BY <2>1 DEF Increasing
  <2>3. q[a] \in Nat /\ q[b] \in Nat
    BY <2>1
  <2> QED
    BY <2>2, <2>3
<1>3. q \in Injection(1 .. n, S)
  BY <1>2 DEF Injection, IsInjective
<1>4. IsFiniteSet(1 .. n) /\ Cardinality(1 .. n) = n
  BY <1>1, FS_Interval
<1>5. q \in Surjection(1 .. n, S)
  BY <1>3, <1>4, FS_Injection
<1> QED
  BY <1>2, <1>5 DEF Surjection
=============================================================================
