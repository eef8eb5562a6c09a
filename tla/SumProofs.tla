------------------------------ MODULE SumProofs ------------------------------
(***************************************************************************)
(* What a sum over a finite set is, for every function and every finite    *)
(* set.  SumFunctionOnSet is a fold, defined by recursion over the subsets *)
(* of its set; that the recursion defines a function, and every fact about *)
(* it, is proved here without an induction scheme: the subsets of a finite *)
(* set that refute a fact would have a smallest one among them.            *)
(***************************************************************************)
EXTENDS Integers, FiniteSets, FiniteSetTheorems, WellFoundedInduction, TLAPS

\* A smallest counterexample.
LEMMA MinimalSubset ==
    ASSUME NEW S, IsFiniteSet(S), NEW T \in SUBSET (SUBSET S), T # {}
    PROVE  \E U \in T : \A V \in T : V \subseteq U => V = U
<1>1. T \subseteq FiniteSubsetsOf(S)
  BY FS_FiniteSubsetsOfFinite
<1>2. IsWellFoundedOn(StrictSubsetOrdering(S), FiniteSubsetsOf(S))
  BY FS_StrictSubsetOrderingWellFounded
<1>3. \E U \in T : \A V \in T : ~ (<<V, U>> \in StrictSubsetOrdering(S))
  BY <1>1, <1>2, WFMin
<1> QED
  BY <1>3 DEF StrictSubsetOrdering

-----------------------------------------------------------------------------
(* The recursion. *)

Pick(s) == CHOOSE x \in s : TRUE

SumsTo(it, f, S) ==
    it = [s \in SUBSET S |-> IF s = {} THEN 0 ELSE f[Pick(s)] + it[s \ {Pick(s)}]]

LEMMA SumsStep ==
    ASSUME NEW it, NEW f, NEW S, SumsTo(it, f, S)
    PROVE  \A s \in SUBSET S :
               it[s] = IF s = {} THEN 0 ELSE f[Pick(s)] + it[s \ {Pick(s)}]
BY DEF SumsTo

\* Only the terms of a set decide its sum, whatever larger set the
\* recursion is made for.
LEMMA SumsAgree ==
    ASSUME NEW f, NEW g, NEW V, NEW W, NEW i, NEW j, SumsTo(i, f, V), SumsTo(j, g, W),
           NEW S, IsFiniteSet(S), S \subseteq V, S \subseteq W, \A x \in S : f[x] = g[x]
    PROVE  i[S] = j[S]
<1> SUFFICES ASSUME i[S] # j[S] PROVE FALSE
  OBVIOUS
<1>i. \A s \in SUBSET V : i[s] = IF s = {} THEN 0 ELSE f[Pick(s)] + i[s \ {Pick(s)}]
  BY SumsStep
<1>j. \A s \in SUBSET W : j[s] = IF s = {} THEN 0 ELSE g[Pick(s)] + j[s \ {Pick(s)}]
  BY SumsStep
<1> DEFINE Bad == {s \in SUBSET S : i[s] # j[s]}
<1>1. Bad \in SUBSET (SUBSET S) /\ Bad # {}
  <2>1. S \in Bad
    OBVIOUS
  <2> QED
    BY <2>1
<1>2. \E s \in Bad : \A t \in Bad : t \subseteq s => t = s
  <2> HIDE DEF Bad
  <2> QED
    BY <1>1, MinimalSubset
<1>least. PICK s \in Bad : \A t \in Bad : t \subseteq s => t = s
  BY <1>2
<1>3. s # {}
  <2>1. i[{}] = 0 /\ j[{}] = 0
    BY <1>i, <1>j
  <2> QED
    BY <1>least, <2>1
<1>4. Pick(s) \in s
  BY <1>3 DEF Pick
<1>5. s \ {Pick(s)} \in SUBSET S /\ s \ {Pick(s)} \notin Bad
  BY <1>least, <1>4
<1>6. i[s \ {Pick(s)}] = j[s \ {Pick(s)}] /\ f[Pick(s)] = g[Pick(s)]
  BY <1>least, <1>4, <1>5
<1>7. s \in SUBSET V /\ s \in SUBSET W /\ i[s] # j[s]
  BY <1>least
<1>8. i[s] = f[Pick(s)] + i[s \ {Pick(s)}]
  BY <1>3, <1>7, <1>i
<1>9. j[s] = g[Pick(s)] + j[s \ {Pick(s)}]
  BY <1>3, <1>7, <1>j
<1> QED
  BY <1>6, <1>7, <1>8, <1>9

LEMMA SumsExist ==
    ASSUME NEW f, NEW S, IsFiniteSet(S)
    PROVE  \E it : SumsTo(it, f, S)
<1> SUFFICES ASSUME ~ \E it : SumsTo(it, f, S) PROVE FALSE
  OBVIOUS
<1> DEFINE Bad == {s \in SUBSET S : ~ \E it : SumsTo(it, f, s)}
<1>1. Bad \in SUBSET (SUBSET S) /\ Bad # {}
  <2>1. S \in Bad
    OBVIOUS
  <2> QED
    BY <2>1
<1>least. \E U \in Bad : \A t \in Bad : t \subseteq U => t = U
  <2> HIDE DEF Bad
  <2> QED
    BY <1>1, MinimalSubset
<1>2. PICK U \in Bad : \A t \in Bad : t \subseteq U => t = U
  BY <1>least
<1> DEFINE It(s) == CHOOSE it : SumsTo(it, f, s)
           Rest(s) == s \ {Pick(s)}
           new == [s \in SUBSET U |-> IF s = {} THEN 0 ELSE f[Pick(s)] + It(Rest(s))[Rest(s)]]
<1>3. ASSUME NEW s \in SUBSET U, s # U PROVE SumsTo(It(s), f, s)
  <2>1. \E it : SumsTo(it, f, s)
    BY <1>2, <1>3
  <2> QED
    BY <2>1
<1>4. ASSUME NEW s \in SUBSET U, s # {} PROVE Rest(s) \in SUBSET U /\ Rest(s) # U
  BY <1>4 DEF Pick
<1>5. ASSUME NEW s \in SUBSET U, s # U PROVE new[s] = It(s)[s]
  <2>1. It(s)[s] = IF s = {} THEN 0 ELSE f[Pick(s)] + It(s)[Rest(s)]
    BY <1>3, <1>5, SumsStep
  <2>2. CASE s # {}
    <3>1. SumsTo(It(s), f, s) /\ SumsTo(It(Rest(s)), f, Rest(s))
      BY <1>3, <1>4, <1>5, <2>2
    <3>2. IsFiniteSet(Rest(s)) /\ Rest(s) \subseteq s
      BY <1>2, FS_Subset
    <3> HIDE DEF It, Rest
    <3>3. It(s)[Rest(s)] = It(Rest(s))[Rest(s)]
      BY <3>1, <3>2, SumsAgree
    <3> QED
      BY <2>1, <2>2, <3>3
  <2> QED
    BY <2>1, <2>2
<1>6. ASSUME NEW s \in SUBSET U
      PROVE  new[s] = IF s = {} THEN 0 ELSE f[Pick(s)] + new[s \ {Pick(s)}]
  <2>1. CASE s = {}
    BY <2>1
  <2>2. CASE s # {}
    <3>1. new[s] = f[Pick(s)] + It(Rest(s))[Rest(s)]
      BY <2>2
    <3>2. Rest(s) \in SUBSET U /\ Rest(s) # U
      BY <1>4, <2>2
    <3> HIDE DEF It, new
    <3>3. new[Rest(s)] = It(Rest(s))[Rest(s)]
      BY <1>5, <3>2
    <3> QED
      BY <2>2, <3>1, <3>3
  <2> QED
    BY <2>1, <2>2
<1>7. SumsTo(new, f, U)
  <2>1. new = [s \in SUBSET U |-> new[s]]
    OBVIOUS
  <2> HIDE DEF new
  <2>2. [s \in SUBSET U |-> new[s]]
          = [s \in SUBSET U |-> IF s = {} THEN 0 ELSE f[Pick(s)] + new[s \ {Pick(s)}]]
    BY <1>6
  <2> QED
    BY <2>1, <2>2 DEF SumsTo
<1> QED
  BY <1>2, <1>7

LEMMA SumIs ==
    ASSUME NEW f, NEW S
    PROVE  SumFunctionOnSet(f, S) = (CHOOSE it : SumsTo(it, f, S))[S]
BY DEF SumFunctionOnSet, FoldFunctionOnSet, MapThenFoldSet, SumsTo, Pick

\* The two equations a sum satisfies.
LEMMA SumEmpty == ASSUME NEW f PROVE SumFunctionOnSet(f, {}) = 0
<1>1. \E it : SumsTo(it, f, {})
  BY FS_EmptySet, SumsExist
<1> DEFINE it == CHOOSE it : SumsTo(it, f, {})
<1>2. SumsTo(it, f, {})
  BY <1>1
<1> HIDE DEF it
<1>3. it[{}] = 0
  BY <1>2, SumsStep
<1> QED
  BY <1>3, SumIs DEF it

LEMMA SumPick ==
    ASSUME NEW f, NEW S, IsFiniteSet(S), S # {}
    PROVE  /\ Pick(S) \in S
           /\ SumFunctionOnSet(f, S) = f[Pick(S)] + SumFunctionOnSet(f, S \ {Pick(S)})
<1> DEFINE R == S \ {Pick(S)}
           i == CHOOSE it : SumsTo(it, f, S)
           j == CHOOSE it : SumsTo(it, f, R)
<1>1. IsFiniteSet(R) /\ R \subseteq S
  BY FS_Subset
<1>2. SumsTo(i, f, S) /\ SumsTo(j, f, R)
  BY <1>1, SumsExist
<1> HIDE DEF i, j
<1>3. i[S] = f[Pick(S)] + i[R]
  BY <1>2, SumsStep
<1>4. i[R] = j[R]
  BY <1>1, <1>2, SumsAgree
<1>5. SumFunctionOnSet(f, S) = i[S] /\ SumFunctionOnSet(f, R) = j[R]
  BY SumIs DEF i, j
<1> QED
  BY <1>3, <1>4, <1>5 DEF Pick

\* Induction over the subsets of a finite set, with a set for the predicate.
LEMMA SubsetInduction ==
    ASSUME NEW S, IsFiniteSet(S), NEW Good, {} \in Good,
           \A U \in SUBSET S : U # {} /\ U \ {Pick(U)} \in Good => U \in Good
    PROVE  S \in Good
<1> SUFFICES ASSUME S \notin Good PROVE FALSE
  OBVIOUS
<1> DEFINE Bad == {U \in SUBSET S : U \notin Good}
<1>1. Bad \in SUBSET (SUBSET S) /\ Bad # {}
  <2>1. S \in Bad
    OBVIOUS
  <2> QED
    BY <2>1
<1>2. \E U \in Bad : \A V \in Bad : V \subseteq U => V = U
  <2> HIDE DEF Bad
  <2> QED
    BY <1>1, MinimalSubset
<1>3. PICK U \in Bad : \A V \in Bad : V \subseteq U => V = U
  BY <1>2
<1>4. U # {} /\ U \ {Pick(U)} \in SUBSET S /\ U \ {Pick(U)} # U
  BY <1>3 DEF Pick
<1>5. U \ {Pick(U)} \notin Bad
  <2> HIDE DEF Bad
  <2> QED
    BY <1>3, <1>4
<1> QED
  BY <1>3, <1>4, <1>5

\* The next element of a set under such an induction.
LEMMA SumPicks ==
    ASSUME NEW S, IsFiniteSet(S)
    PROVE  \A U \in SUBSET S :
               /\ IsFiniteSet(U)
               /\ U # {} => Pick(U) \in U
               /\ \A f : U # {} => SumFunctionOnSet(f, U)
                                      = f[Pick(U)] + SumFunctionOnSet(f, U \ {Pick(U)})
BY SumPick, FS_Subset

-----------------------------------------------------------------------------
(* Facts about sums. *)

LEMMA SumInt ==
    ASSUME NEW S, IsFiniteSet(S), NEW f, \A x \in S : f[x] \in Int
    PROVE  SumFunctionOnSet(f, S) \in Int
<1> DEFINE Good == {U \in SUBSET S : SumFunctionOnSet(f, U) \in Int}
<1>1. {} \in Good
  BY SumEmpty
<1>2. ASSUME NEW U \in SUBSET S, U # {}, U \ {Pick(U)} \in Good PROVE U \in Good
  <2>1. f[Pick(U)] \in Int /\ SumFunctionOnSet(f, U \ {Pick(U)}) \in Int
    BY <1>2, SumPicks
  <2>2. SumFunctionOnSet(f, U) = f[Pick(U)] + SumFunctionOnSet(f, U \ {Pick(U)})
    BY <1>2, SumPicks
  <2> QED
    BY <2>1, <2>2
<1> HIDE DEF Good
<1>3. S \in Good
  BY <1>1, <1>2, SubsetInduction
<1> QED
  BY <1>3 DEF Good

LEMMA SumNat ==
    ASSUME NEW S, IsFiniteSet(S), NEW f, \A x \in S : f[x] \in Nat
    PROVE  SumFunctionOnSet(f, S) \in Nat
<1> DEFINE Good == {U \in SUBSET S : SumFunctionOnSet(f, U) \in Nat}
<1>1. {} \in Good
  BY SumEmpty
<1>2. ASSUME NEW U \in SUBSET S, U # {}, U \ {Pick(U)} \in Good PROVE U \in Good
  <2>1. f[Pick(U)] \in Nat /\ SumFunctionOnSet(f, U \ {Pick(U)}) \in Nat
    BY <1>2, SumPicks
  <2>2. SumFunctionOnSet(f, U) = f[Pick(U)] + SumFunctionOnSet(f, U \ {Pick(U)})
    BY <1>2, SumPicks
  <2> QED
    BY <2>1, <2>2
<1> HIDE DEF Good
<1>3. S \in Good
  BY <1>1, <1>2, SubsetInduction
<1> QED
  BY <1>3 DEF Good

\* The sum of equal terms is equal.
LEMMA SumSame ==
    ASSUME NEW S, IsFiniteSet(S), NEW f, NEW g, \A x \in S : f[x] = g[x]
    PROVE  SumFunctionOnSet(f, S) = SumFunctionOnSet(g, S)
<1> DEFINE Good == {U \in SUBSET S : SumFunctionOnSet(f, U) = SumFunctionOnSet(g, U)}
<1>1. {} \in Good
  BY SumEmpty
<1>2. ASSUME NEW U \in SUBSET S, U # {}, U \ {Pick(U)} \in Good PROVE U \in Good
  BY <1>2, SumPicks
<1> HIDE DEF Good
<1>3. S \in Good
  BY <1>1, <1>2, SubsetInduction
<1> QED
  BY <1>3 DEF Good

\* Term by term.
LEMMA SumMonotone ==
    ASSUME NEW S, IsFiniteSet(S), NEW f, NEW g,
           \A x \in S : f[x] \in Int /\ g[x] \in Int /\ f[x] =< g[x]
    PROVE  SumFunctionOnSet(f, S) =< SumFunctionOnSet(g, S)
<1> DEFINE Good == {U \in SUBSET S : SumFunctionOnSet(f, U) =< SumFunctionOnSet(g, U)}
<1>1. {} \in Good
  BY SumEmpty
<1>2. ASSUME NEW U \in SUBSET S, U # {}, U \ {Pick(U)} \in Good PROVE U \in Good
  <2>1. Pick(U) \in S /\ IsFiniteSet(U \ {Pick(U)})
    BY <1>2, SumPicks
  <2>2. SumFunctionOnSet(f, U \ {Pick(U)}) \in Int /\ SumFunctionOnSet(g, U \ {Pick(U)}) \in Int
    BY <2>1, SumInt
  <2>3. /\ SumFunctionOnSet(f, U) = f[Pick(U)] + SumFunctionOnSet(f, U \ {Pick(U)})
        /\ SumFunctionOnSet(g, U) = g[Pick(U)] + SumFunctionOnSet(g, U \ {Pick(U)})
    BY <1>2, SumPicks
  <2>4. f[Pick(U)] \in Int /\ g[Pick(U)] \in Int /\ f[Pick(U)] =< g[Pick(U)]
    BY <2>1
  <2>5. SumFunctionOnSet(f, U \ {Pick(U)}) =< SumFunctionOnSet(g, U \ {Pick(U)})
    BY <1>2
  <2> QED
    BY <2>2, <2>3, <2>4, <2>5
<1> HIDE DEF Good
<1>3. S \in Good
  BY <1>1, <1>2, SubsetInduction
<1> QED
  BY <1>3 DEF Good

\* One term changes, and the sum with it.
LEMMA SumUpdate ==
    ASSUME NEW S, IsFiniteSet(S), NEW f, NEW g, NEW e \in S, NEW d \in Int,
           \A x \in S : f[x] \in Int /\ (x # e => g[x] = f[x]),
           g[e] = f[e] + d
    PROVE  SumFunctionOnSet(g, S) = SumFunctionOnSet(f, S) + d
<1> DEFINE Good == {U \in SUBSET S :
               SumFunctionOnSet(g, U) = SumFunctionOnSet(f, U) + (IF e \in U THEN d ELSE 0)}
<1>1. {} \in Good
  BY SumEmpty
<1>2. ASSUME NEW U \in SUBSET S, U # {}, U \ {Pick(U)} \in Good PROVE U \in Good
  <2> DEFINE x == Pick(U)
             R == U \ {x}
  <2>1. x \in U /\ x \in S /\ IsFiniteSet(R) /\ R \subseteq S
    BY <1>2, SumPicks
  <2>2. SumFunctionOnSet(f, R) \in Int
    BY <2>1, SumInt
  <2>3. /\ SumFunctionOnSet(f, U) = f[x] + SumFunctionOnSet(f, R)
        /\ SumFunctionOnSet(g, U) = g[x] + SumFunctionOnSet(g, R)
    BY <1>2, SumPicks
  <2>4. SumFunctionOnSet(g, R) = SumFunctionOnSet(f, R) + (IF e \in R THEN d ELSE 0)
    BY <1>2
  <2>5. f[x] \in Int
    BY <2>1
  <2>6. CASE x = e
    <3>1. e \notin R /\ e \in U /\ g[x] = f[x] + d
      BY <2>1, <2>6
    <3> HIDE DEF x, R
    <3> QED
      BY <2>2, <2>3, <2>4, <2>5, <3>1
  <2>7. CASE x # e
    <3>1. (e \in R <=> e \in U) /\ g[x] = f[x]
      BY <2>1, <2>7
    <3> HIDE DEF x, R
    <3> QED
      BY <2>2, <2>3, <2>4, <2>5, <3>1
  <2> QED
    BY <2>6, <2>7
<1> HIDE DEF Good
<1>3. S \in Good
  BY <1>1, <1>2, SubsetInduction
<1> QED
  BY <1>3 DEF Good

\* Any element may be taken out of a sum, not only the one the fold picks.
LEMMA SumTake ==
    ASSUME NEW S, IsFiniteSet(S), NEW f, \A x \in S : f[x] \in Int, NEW e \in S
    PROVE  SumFunctionOnSet(f, S) = f[e] + SumFunctionOnSet(f, S \ {e})
<1> DEFINE Takes(U) == \A x \in U :
               SumFunctionOnSet(f, U) = f[x] + SumFunctionOnSet(f, U \ {x})
           Bad == {U \in SUBSET S : ~ Takes(U)}
<1> SUFFICES ASSUME Bad # {} PROVE FALSE
  <2>1. S \notin Bad => Takes(S)
    OBVIOUS
  <2> QED
    BY <2>1
<1>1. \E U \in Bad : \A V \in Bad : V \subseteq U => V = U
  <2>1. Bad \in SUBSET (SUBSET S)
    OBVIOUS
  <2> HIDE DEF Bad
  <2> QED
    BY <2>1, MinimalSubset
<1>2. PICK U \in Bad : \A V \in Bad : V \subseteq U => V = U
  BY <1>1
<1>3. PICK x \in U : SumFunctionOnSet(f, U) # f[x] + SumFunctionOnSet(f, U \ {x})
  BY <1>2
<1> DEFINE p == Pick(U)
<1>4. ASSUME NEW V \in SUBSET U, V # U, NEW y \in V
      PROVE  SumFunctionOnSet(f, V) = f[y] + SumFunctionOnSet(f, V \ {y})
  <2>1. V \in SUBSET S /\ V \notin Bad
    BY <1>2, <1>4
  <2> QED
    BY <2>1
<1>5. /\ U \in SUBSET S /\ IsFiniteSet(U) /\ p \in U
      /\ SumFunctionOnSet(f, U) = f[p] + SumFunctionOnSet(f, U \ {p})
  BY <1>2, <1>3, SumPicks
<1> HIDE DEF p, Bad, Takes
<1>6. x # p
  BY <1>3, <1>5
<1> DEFINE W == (U \ {p}) \ {x}
<1>7. (U \ {x}) \ {p} = W
  OBVIOUS
<1>8. /\ SumFunctionOnSet(f, U \ {p}) = f[x] + SumFunctionOnSet(f, W)
      /\ SumFunctionOnSet(f, U \ {x}) = f[p] + SumFunctionOnSet(f, W)
  <2>1. x \in U \ {p} /\ p \in U \ {x} /\ U \ {p} # U /\ U \ {x} # U
    BY <1>5, <1>6
  <2> QED
    BY <1>4, <1>7, <2>1
<1>9. f[x] \in Int /\ f[p] \in Int /\ SumFunctionOnSet(f, W) \in Int
  <2>1. IsFiniteSet(W)
    BY <1>5, FS_Subset
  <2> QED
    BY <1>5, <2>1, SumInt
<1> HIDE DEF W
<1> QED
  BY <1>3, <1>5, <1>8, <1>9

\* What counts for nothing may be left out of a sum.
LEMMA SumOfPart ==
    ASSUME NEW S, IsFiniteSet(S), NEW f, \A x \in S : f[x] \in Int,
           NEW P \in SUBSET S, \A x \in S \ P : f[x] = 0
    PROVE  SumFunctionOnSet(f, S) = SumFunctionOnSet(f, P)
<1> DEFINE Rest == S \ P
           Good == {U \in SUBSET Rest : SumFunctionOnSet(f, P \cup U) = SumFunctionOnSet(f, P)}
<1>1. {} \in Good
  OBVIOUS
<1>2. ASSUME NEW U \in SUBSET Rest, U # {}, U \ {Pick(U)} \in Good PROVE U \in Good
  <2> DEFINE x == Pick(U)
             V == P \cup U
  <2>1. x \in U
    BY <1>2 DEF Pick
  <2>2. V \ {x} = P \cup (U \ {x}) /\ x \in V /\ f[x] = 0 /\ V \in SUBSET S
    BY <2>1
  <2>3. IsFiniteSet(V) /\ IsFiniteSet(V \ {x})
    BY <2>2, FS_Subset
  <2>4. (\A y \in V : f[y] \in Int) /\ (\A y \in V \ {x} : f[y] \in Int)
    BY <2>2
  <2>5. SumFunctionOnSet(f, V \ {x}) = SumFunctionOnSet(f, P)
    BY <1>2, <2>2
  <2> HIDE DEF x, V
  <2>6. SumFunctionOnSet(f, V) = f[x] + SumFunctionOnSet(f, V \ {x})
    BY <2>2, <2>3, <2>4, SumTake
  <2>7. SumFunctionOnSet(f, V \ {x}) \in Int
    BY <2>3, <2>4, SumInt
  <2>8. SumFunctionOnSet(f, V) = SumFunctionOnSet(f, P)
    BY <2>2, <2>5, <2>6, <2>7
  <2> QED
    BY <2>8 DEF V
<1>3. IsFiniteSet(Rest)
  BY FS_Subset
<1> HIDE DEF Good
<1>4. Rest \in Good
  <2> HIDE DEF Rest
  <2> QED
    BY <1>1, <1>2, <1>3, SubsetInduction
<1>5. P \cup Rest = S
  OBVIOUS
<1> QED
  BY <1>4, <1>5 DEF Good

\* The sum of nothing but zeros, and of nothing but ones.
LEMMA SumZeros ==
    ASSUME NEW S, IsFiniteSet(S), NEW f, \A x \in S : f[x] = 0
    PROVE  SumFunctionOnSet(f, S) = 0
<1> DEFINE Good == {U \in SUBSET S : SumFunctionOnSet(f, U) = 0}
<1>1. {} \in Good
  BY SumEmpty
<1>2. ASSUME NEW U \in SUBSET S, U # {}, U \ {Pick(U)} \in Good PROVE U \in Good
  BY <1>2, SumPicks
<1> HIDE DEF Good
<1>3. S \in Good
  BY <1>1, <1>2, SubsetInduction
<1> QED
  BY <1>3 DEF Good

LEMMA SumOnes ==
    ASSUME NEW S, IsFiniteSet(S), NEW f, \A x \in S : f[x] = 1
    PROVE  SumFunctionOnSet(f, S) = Cardinality(S)
<1> DEFINE Good == {U \in SUBSET S : SumFunctionOnSet(f, U) = Cardinality(U)}
<1>1. {} \in Good
  BY SumEmpty, FS_EmptySet
<1>2. ASSUME NEW U \in SUBSET S, U # {}, U \ {Pick(U)} \in Good PROVE U \in Good
  <2>1. Pick(U) \in U /\ IsFiniteSet(U)
    BY <1>2, SumPicks
  <2>2. Cardinality(U \ {Pick(U)}) = Cardinality(U) - 1 /\ Cardinality(U) \in Nat
    BY <2>1, FS_RemoveElement, FS_CardinalityType
  <2>3. SumFunctionOnSet(f, U) = f[Pick(U)] + SumFunctionOnSet(f, U \ {Pick(U)})
    BY <1>2, SumPicks
  <2>4. f[Pick(U)] = 1 /\ SumFunctionOnSet(f, U \ {Pick(U)}) = Cardinality(U \ {Pick(U)})
    BY <1>2, <2>1
  <2> QED
    BY <2>2, <2>3, <2>4
<1> HIDE DEF Good
<1>3. S \in Good
  BY <1>1, <1>2, SubsetInduction
<1> QED
  BY <1>3 DEF Good

\* Where no term is above one and some term is below, the sum is less than
\* the number of terms.
LEMMA SumShort ==
    ASSUME NEW S, IsFiniteSet(S), NEW f, \A x \in S : f[x] \in Nat /\ f[x] =< 1,
           NEW e \in S, f[e] = 0
    PROVE  SumFunctionOnSet(f, S) < Cardinality(S)
<1> DEFINE g == [x \in S |-> IF x = e THEN 1 ELSE f[x]]
           ones == [x \in S |-> 1]
<1>1. SumFunctionOnSet(g, S) = SumFunctionOnSet(f, S) + 1
  <2>1. \A x \in S : f[x] \in Int /\ (x # e => g[x] = f[x])
    OBVIOUS
  <2>2. g[e] = f[e] + 1
    OBVIOUS
  <2> DEFINE d == 1
  <2>3. d \in Int /\ g[e] = f[e] + d
    BY <2>2
  <2> HIDE DEF g, ones, d
  <2>4. SumFunctionOnSet(g, S) = SumFunctionOnSet(f, S) + d
    BY ONLY IsFiniteSet(S), e \in S, <2>1, <2>3, SumUpdate, Zenon
  <2> QED
    BY <2>4 DEF d
<1>2. SumFunctionOnSet(g, S) =< SumFunctionOnSet(ones, S)
  <2>1. \A x \in S : g[x] \in Int /\ ones[x] \in Int /\ g[x] =< ones[x]
    OBVIOUS
  <2> HIDE DEF g, ones
  <2> QED
    BY <2>1, SumMonotone
<1>3. SumFunctionOnSet(ones, S) = Cardinality(S)
  <2>1. \A x \in S : ones[x] = 1
    OBVIOUS
  <2> HIDE DEF ones
  <2> QED
    BY <2>1, SumOnes
<1>4. SumFunctionOnSet(f, S) \in Nat /\ Cardinality(S) \in Nat
  BY SumNat, FS_CardinalityType
<1> HIDE DEF g, ones
<1> QED
  BY <1>1, <1>2, <1>3, <1>4

-----------------------------------------------------------------------------
(* Natural numbers. *)

LEMMA LeastNatural ==
    ASSUME NEW T \in SUBSET Nat, T # {}
    PROVE  \E n \in T : \A m \in T : n =< m
<1>1. PICK n \in T : TRUE
  OBVIOUS
<1> DEFINE Below == {1..m : m \in {k \in T : k =< n}}
<1>2. IsFiniteSet(1..n)
  BY FS_Interval
<1>3. Below \in SUBSET (SUBSET (1..n)) /\ Below # {}
  <2>1. 1..n \in Below
    BY <1>1
  <2>2. ASSUME NEW U \in Below PROVE U \subseteq 1..n
    OBVIOUS
  <2> QED
    BY <2>1, <2>2
<1>4. \E U \in Below : \A V \in Below : V \subseteq U => V = U
  <2> DEFINE S == 1..n
  <2>1. IsFiniteSet(S) /\ Below \in SUBSET (SUBSET S) /\ Below # {}
    BY <1>2, <1>3
  <2> HIDE DEF Below, S
  <2> QED
    BY <2>1, MinimalSubset
<1>5. PICK m \in T : m =< n /\ \A V \in Below : V \subseteq 1..m => V = 1..m
  BY <1>4
<1>6. ASSUME NEW k \in T, k < m PROVE FALSE
  <2>1. 1..k \in Below /\ 1..k \subseteq 1..m
    BY <1>1, <1>5, <1>6
  <2>2. m \in 1..m /\ m \notin 1..k
    BY <1>6
  <2> QED
    BY <1>5, <2>1, <2>2
<1> QED
  BY <1>6

\* Induction over the naturals, with a set for the predicate.
LEMMA NaturalInduction ==
    ASSUME NEW Good, 0 \in Good, \A n \in Nat : n \in Good => n + 1 \in Good
    PROVE  Nat \subseteq Good
<1> SUFFICES ASSUME Nat \ Good # {} PROVE FALSE
  OBVIOUS
<1>1. PICK n \in Nat \ Good : \A m \in Nat \ Good : n =< m
  BY LeastNatural
<1>2. n # 0 /\ n - 1 \in Nat /\ n - 1 < n
  BY <1>1
<1>3. n - 1 \in Good
  BY <1>1, <1>2
<1>4. (n - 1) + 1 \in Good
  BY <1>2, <1>3
<1> QED
  BY <1>1, <1>4

\* Of finitely many things one has the least number and one the greatest.
LEMMA Extremes ==
    ASSUME NEW S, IsFiniteSet(S), S # {}, NEW f \in [S -> Int]
    PROVE  /\ \E x \in S : \A y \in S : f[x] =< f[y]
           /\ \E x \in S : \A y \in S : f[y] =< f[x]
<1> DEFINE Good == {U \in SUBSET S : U # {} =>
               /\ \E x \in U : \A y \in U : f[x] =< f[y]
               /\ \E x \in U : \A y \in U : f[y] =< f[x]}
<1>1. {} \in Good
  OBVIOUS
<1>2. ASSUME NEW U \in SUBSET S, U # {}, U \ {Pick(U)} \in Good PROVE U \in Good
  <2> DEFINE z == Pick(U)
  <2>1. z \in U /\ \A x \in U : f[x] \in Int
    BY <1>2 DEF Pick
  <2>2. CASE U \ {z} = {}
    <3>1. U = {z}
      BY <2>1, <2>2
    <3> QED
      BY <2>1, <3>1
  <2>3. CASE U \ {z} # {}
    <3>1. PICK lo \in U \ {z} : \A y \in U \ {z} : f[lo] =< f[y]
      BY <1>2, <2>3
    <3>2. PICK hi \in U \ {z} : \A y \in U \ {z} : f[y] =< f[hi]
      BY <1>2, <2>3
    <3> HIDE DEF z
    <3>3. \E x \in U : \A y \in U : f[x] =< f[y]
      <4>1. CASE f[z] =< f[lo]
        <5>1. \A y \in U : f[z] =< f[y]
          BY <2>1, <3>1, <4>1
        <5> QED
          BY <2>1, <5>1
      <4>2. CASE f[lo] =< f[z]
        <5>1. \A y \in U : f[lo] =< f[y]
          BY <2>1, <3>1, <4>2
        <5> QED
          BY <5>1
      <4> QED
        BY <2>1, <4>1, <4>2
    <3>4. \E x \in U : \A y \in U : f[y] =< f[x]
      <4>1. CASE f[hi] =< f[z]
        <5>1. \A y \in U : f[y] =< f[z]
          BY <2>1, <3>2, <4>1
        <5> QED
          BY <2>1, <5>1
      <4>2. CASE f[z] =< f[hi]
        <5>1. \A y \in U : f[y] =< f[hi]
          BY <2>1, <3>2, <4>2
        <5> QED
          BY <5>1
      <4> QED
        BY <2>1, <4>1, <4>2
    <3> QED
      BY <3>3, <3>4
  <2> QED
    BY <2>2, <2>3
<1> HIDE DEF Good
<1>3. S \in Good
  BY <1>1, <1>2, SubsetInduction
<1> QED
  BY <1>3 DEF Good
=============================================================================
