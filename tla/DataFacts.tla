------------------------------ MODULE DataFacts -----------------------------
(***************************************************************************)
(* Facts about data that the proofs of several components need: induction  *)
(* over numbers and finite sets, with sets in the place of predicates;     *)
(* sums over finite sets (SumFunctionOnSet); and what the folds over       *)
(* sequences of the library come to, one element after another (FoldLeft,  *)
(* FlattenSeq).                                                            *)
(***************************************************************************)
EXTENDS Naturals, Sequences, FiniteSets, SequencesExt, FiniteSetTheorems, WellFoundedInduction,
        TLAPS

LEMMA LeastNat ==
  ASSUME NEW T \in SUBSET Nat, T # {}
  PROVE  \E m \in T : \A k \in T : m <= k
<1> DEFINE R == OpToRel(<, Nat)
<1>1. IsWellFoundedOn(R, Nat)
  BY NatLessThanWellFounded
<1>2. \A x, y \in Nat : y < x => <<y, x>> \in R
  BY DEF OpToRel
<1>3. T \subseteq Nat
  OBVIOUS
<1> HIDE DEF R
<1>4. PICK x \in T : \A y \in T : ~ (<<y, x>> \in R)
  BY <1>1, <1>3, WFMin
<1>5. \A y \in T : ~ (y < x)
  BY <1>2, <1>4
<1> QED
  BY <1>5

LEMMA NatSetInduction ==
  ASSUME NEW T \in SUBSET Nat, 0 \in T, \A n \in T : n + 1 \in T
  PROVE  T = Nat
<1> SUFFICES ASSUME T # Nat PROVE FALSE
  OBVIOUS
<1>1. PICK m \in Nat \ T : \A k \in Nat \ T : m <= k
  BY LeastNat
<1> QED
  BY <1>1

\* A family of finite sets that has the empty set, and a set whenever it has that set
\* without one of its elements, has all subsets of a finite set.
LEMMA FiniteSetInduction ==
  ASSUME NEW S, IsFiniteSet(S), NEW F,
         {} \in F,
         \A T \in SUBSET S : (T # {} /\ \A x \in T : T \ {x} \in F) => T \in F
  PROVE  SUBSET S \subseteq F
<1> DEFINE Sizes == {n \in Nat : \A T \in SUBSET S : Cardinality(T) = n => T \in F}
<1>1. \A T \in SUBSET S : IsFiniteSet(T) /\ Cardinality(T) \in Nat
  BY FS_Subset, FS_CardinalityType
<1>2. 0 \in Sizes
  BY <1>1, FS_EmptySet
<1>3. ASSUME NEW n \in Sizes PROVE n + 1 \in Sizes
  <2> SUFFICES ASSUME NEW T \in SUBSET S, Cardinality(T) = n + 1 PROVE T \in F
    OBVIOUS
  <2>1. T # {}
    <3>1. Cardinality({}) = 0
      BY FS_EmptySet
    <3>2. n + 1 # 0
      OBVIOUS
    <3> QED
      BY <3>1, <3>2
  <2>2. ASSUME NEW x \in T PROVE T \ {x} \in F
    <3>1. Cardinality(T \ {x}) = Cardinality(T) - 1
      BY <1>1, FS_RemoveElement
    <3> QED
      BY <3>1
  <2> QED
    BY <2>1, <2>2
<1> HIDE DEF Sizes
<1>4. Sizes \in SUBSET Nat
  BY DEF Sizes
<1>5. Sizes = Nat
  BY <1>2, <1>3, <1>4, NatSetInduction
<1> QED
  BY <1>1, <1>5 DEF Sizes
-----------------------------------------------------------------------------
\* The recursion by which the sum over a set is defined, for all subsets of S.
First(s) == CHOOSE x \in s : TRUE
Sums(w, S, sums) == [s \in SUBSET S |-> IF s = {} THEN 0 ELSE w[First(s)] + sums[s \ {First(s)}]]
SumsOver(w, S) == CHOOSE sums : sums = Sums(w, S, sums)

LEMMA FirstIsElement ==
  ASSUME NEW s, s # {}
  PROVE  First(s) \in s
  BY DEF First

LEMMA SumIsRecursive ==
  ASSUME NEW w, NEW S
  PROVE  SumFunctionOnSet(w, S) = SumsOver(w, S)[S]
  BY Zenon DEF SumFunctionOnSet, FoldFunctionOnSet, MapThenFoldSet, SumsOver, Sums, First

LEMMA SumsExist ==
  ASSUME NEW w, NEW S, IsFiniteSet(S)
  PROVE  \E sums : sums = Sums(w, S, sums)
<1> DEFINE upto(n) == {s \in SUBSET S : Cardinality(s) <= n}
           step(g, n) == [s \in upto(n) |-> IF s = {} THEN 0 ELSE w[First(s)] + g[s \ {First(s)}]]
           T == {n \in Nat : \E g : g = step(g, n)}
<1>1. \A s \in SUBSET S : IsFiniteSet(s) /\ Cardinality(s) \in Nat
  BY FS_Subset, FS_CardinalityType
<1>2. \A n \in Nat : \A s \in upto(n + 1) : s # {} => s \ {First(s)} \in upto(n)
  <2> SUFFICES ASSUME NEW n \in Nat, NEW s \in upto(n + 1), s # {}
               PROVE  s \ {First(s)} \in upto(n)
    OBVIOUS
  <2>1. First(s) \in s
    BY FirstIsElement
  <2>2. Cardinality(s \ {First(s)}) = Cardinality(s) - 1
    BY <1>1, <2>1, FS_RemoveElement
  <2> QED
    BY <1>1, <2>2
<1>3. 0 \in T
  <2>1. \A s \in upto(0) : s = {}
    BY <1>1, FS_EmptySet
  <2>2. [s \in upto(0) |-> 0] = step([s \in upto(0) |-> 0], 0)
    BY <2>1
  <2> QED
    BY <2>2
<1>4. ASSUME NEW n \in T PROVE n + 1 \in T
  <2> HIDE DEF upto
  <2>1. PICK g : g = step(g, n)
    BY <1>4
  <2> DEFINE h == step(g, n + 1)
  <2>2. ASSUME NEW s \in upto(n + 1), s # {} PROVE h[s \ {First(s)}] = g[s \ {First(s)}]
    <3>1. s \ {First(s)} \in upto(n)
      BY <1>2, <2>2
    <3>2. upto(n) \subseteq upto(n + 1)
      BY <1>1 DEF upto
    <3> DEFINE t == s \ {First(s)}
    <3>3. h[t] = IF t = {} THEN 0 ELSE w[First(t)] + g[t \ {First(t)}]
      BY <3>1, <3>2
    <3>4. g[t] = IF t = {} THEN 0 ELSE w[First(t)] + g[t \ {First(t)}]
      BY <2>1, <3>1
    <3> QED
      BY <3>3, <3>4
  <2>3. h = step(h, n + 1)
    BY <2>2
  <2>4. n + 1 \in Nat
    OBVIOUS
  <2> QED
    BY <2>3, <2>4
<1>5. T = Nat
  <2> HIDE DEF T
  <2>1. T \in SUBSET Nat
    BY DEF T
  <2> QED
    BY <1>3, <1>4, <2>1, NatSetInduction
<1>6. PICK g : g = step(g, Cardinality(S))
  BY <1>1, <1>5
<1>7. upto(Cardinality(S)) = SUBSET S
  BY FS_Subset
<1> QED
  BY <1>6, <1>7 DEF Sums

LEMMA SumsUnfold ==
  ASSUME NEW w, NEW S, IsFiniteSet(S), NEW s \in SUBSET S
  PROVE  SumsOver(w, S)[s] =
           IF s = {} THEN 0 ELSE w[First(s)] + SumsOver(w, S)[s \ {First(s)}]
<1>1. \E sums : sums = Sums(w, S, sums)
  BY SumsExist
<1>2. SumsOver(w, S) = Sums(w, S, SumsOver(w, S))
  BY <1>1, Zenon DEF SumsOver
<1> QED
  BY <1>2 DEF Sums

\* A sum does not depend on the set over which the recursion was built, nor on the values
\* of the function elsewhere.
LEMMA SumsAgree ==
  ASSUME NEW v, NEW w, NEW R, NEW S, IsFiniteSet(R), IsFiniteSet(S),
         NEW s \in SUBSET R, s \subseteq S, \A x \in s : v[x] = w[x]
  PROVE  SumsOver(v, R)[s] = SumsOver(w, S)[s]
<1> DEFINE F == {t \in SUBSET s : SumsOver(v, R)[t] = SumsOver(w, S)[t]}
<1>1. {} \in F
  BY SumsUnfold
<1>2. ASSUME NEW t \in SUBSET s, t # {}, \A x \in t : t \ {x} \in F PROVE t \in F
  <2>1. First(t) \in t
    BY <1>2, FirstIsElement
  <2> t \in SUBSET R /\ t \in SUBSET S /\ t # {}
    BY <1>2
  <2>2. SumsOver(v, R)[t] = v[First(t)] + SumsOver(v, R)[t \ {First(t)}]
    BY SumsUnfold, SMTT(30)
  <2>3. SumsOver(w, S)[t] = w[First(t)] + SumsOver(w, S)[t \ {First(t)}]
    BY SumsUnfold, SMTT(30)
  <2>4. SumsOver(v, R)[t \ {First(t)}] = SumsOver(w, S)[t \ {First(t)}]
    BY <1>2, <2>1
  <2>5. v[First(t)] = w[First(t)]
    BY <2>1
  <2> QED
    BY <2>2, <2>3, <2>4, <2>5
<1>3. IsFiniteSet(s)
  BY FS_Subset
<1> HIDE DEF F
<1>4. SUBSET s \subseteq F
  BY <1>1, <1>2, <1>3, FiniteSetInduction
<1>5. s \in F
  BY <1>4
<1> QED
  BY <1>5 DEF F

LEMMA SumEmpty ==
  ASSUME NEW w
  PROVE  SumFunctionOnSet(w, {}) = 0
  BY SumIsRecursive, SumsUnfold, FS_EmptySet

LEMMA SumFirst ==
  ASSUME NEW w, NEW S, IsFiniteSet(S), S # {}
  PROVE  \E x \in S : SumFunctionOnSet(w, S) = w[x] + SumFunctionOnSet(w, S \ {x})
<1> DEFINE x == First(S)
<1>1. x \in S
  BY FirstIsElement
<1> S \in SUBSET S
  OBVIOUS
<1>2. SumsOver(w, S)[S] = w[x] + SumsOver(w, S)[S \ {x}]
  BY SumsUnfold
<1> HIDE DEF x
<1>3. SumsOver(w, S)[S \ {x}] = SumsOver(w, S \ {x})[S \ {x}]
  BY SumsAgree, FS_Subset
<1> QED
  BY <1>1, <1>2, <1>3, SumIsRecursive

LEMMA SumSame ==
  ASSUME NEW v, NEW w, NEW S, IsFiniteSet(S), \A x \in S : v[x] = w[x]
  PROVE  SumFunctionOnSet(v, S) = SumFunctionOnSet(w, S)
  BY SumsAgree, SumIsRecursive

LEMMA SumZero ==
  ASSUME NEW w, NEW S, IsFiniteSet(S), \A x \in S : w[x] = 0
  PROVE  SumFunctionOnSet(w, S) = 0
<1> DEFINE F == {t \in SUBSET S : SumFunctionOnSet(w, t) = 0}
<1>1. {} \in F
  BY SumEmpty
<1>2. ASSUME NEW t \in SUBSET S, t # {}, \A x \in t : t \ {x} \in F PROVE t \in F
  <2>1. IsFiniteSet(t)
    BY FS_Subset
  <2>2. PICK x \in t : SumFunctionOnSet(w, t) = w[x] + SumFunctionOnSet(w, t \ {x})
    BY <1>2, <2>1, SumFirst
  <2>3. SumFunctionOnSet(w, t \ {x}) = 0 /\ w[x] = 0
    BY <1>2
  <2> QED
    BY <2>2, <2>3
<1> HIDE DEF F
<1>3. SUBSET S \subseteq F
  BY <1>1, <1>2, FiniteSetInduction, Zenon
<1> QED
  BY <1>3 DEF F

LEMMA SumNat ==
  ASSUME NEW w, NEW S, IsFiniteSet(S), \A x \in S : w[x] \in Nat
  PROVE  SumFunctionOnSet(w, S) \in Nat
<1> DEFINE F == {t \in SUBSET S : SumFunctionOnSet(w, t) \in Nat}
<1>1. {} \in F
  BY SumEmpty
<1>2. ASSUME NEW t \in SUBSET S, t # {}, \A x \in t : t \ {x} \in F PROVE t \in F
  <2>1. PICK x \in t : SumFunctionOnSet(w, t) = w[x] + SumFunctionOnSet(w, t \ {x})
    BY <1>2, SumFirst, FS_Subset
  <2> QED
    BY <1>2, <2>1
<1> HIDE DEF F
<1>3. SUBSET S \subseteq F
  BY <1>1, <1>2, FiniteSetInduction
<1> QED
  BY <1>3 DEF F

\* Any element may be taken first.
LEMMA SumTake ==
  ASSUME NEW w, NEW S, IsFiniteSet(S), \A x \in S : w[x] \in Nat, NEW e \in S
  PROVE  SumFunctionOnSet(w, S) = w[e] + SumFunctionOnSet(w, S \ {e})
<1> DEFINE total(t) == SumFunctionOnSet(w, t)
           F == {t \in SUBSET S : \A x \in t : total(t) = w[x] + total(t \ {x})}
<1>0. \A t \in SUBSET S : IsFiniteSet(t) /\ total(t) \in Nat
  BY FS_Subset, SumNat
<1>1. {} \in F
  OBVIOUS
<1>2. ASSUME NEW t \in SUBSET S, t # {}, \A x \in t : t \ {x} \in F PROVE t \in F
  <2>1. PICK y \in t : total(t) = w[y] + total(t \ {y})
    BY <1>0, <1>2, SumFirst
  <2> SUFFICES ASSUME NEW x \in t, x # y PROVE total(t) = w[x] + total(t \ {x})
    BY <2>1
  <2>2. t \ {x} \in F /\ t \ {y} \in F
    BY <1>2
  <2> HIDE DEF total
  <2>3. total(t \ {x}) = w[y] + total((t \ {x}) \ {y})
    BY <2>2
  <2>4. total(t \ {y}) = w[x] + total((t \ {y}) \ {x})
    BY <2>2
  <2>5. (t \ {x}) \ {y} = (t \ {y}) \ {x}
    OBVIOUS
  <2>6. w[x] \in Nat /\ w[y] \in Nat /\ total((t \ {x}) \ {y}) \in Nat
    BY <1>0
  <2> QED
    BY <2>1, <2>3, <2>4, <2>5, <2>6
<1> HIDE DEF F
<1>3. SUBSET S \subseteq F
  BY <1>1, <1>2, FiniteSetInduction
<1> QED
  BY <1>3 DEF F

\* The sums over two sets without a common element are the sum over both.
LEMMA SumSplit ==
  ASSUME NEW w, NEW S, NEW R, IsFiniteSet(S), IsFiniteSet(R), S \cap R = {},
         \A x \in S \cup R : w[x] \in Nat
  PROVE  SumFunctionOnSet(w, S \cup R) = SumFunctionOnSet(w, S) + SumFunctionOnSet(w, R)
<1> DEFINE total(t) == SumFunctionOnSet(w, t)
           F == {t \in SUBSET S : total(t \cup R) = total(t) + total(R)}
<1>0. \A t \in SUBSET S : /\ IsFiniteSet(t) /\ IsFiniteSet(t \cup R)
                          /\ total(t) \in Nat /\ total(t \cup R) \in Nat
  <2> SUFFICES ASSUME NEW t \in SUBSET S
               PROVE  /\ IsFiniteSet(t) /\ IsFiniteSet(t \cup R)
                      /\ total(t) \in Nat /\ total(t \cup R) \in Nat
    OBVIOUS
  <2>1. IsFiniteSet(t)
    BY FS_Subset
  <2>2. IsFiniteSet(t \cup R)
    BY <2>1, FS_Union
  <2> QED
    BY <2>1, <2>2, SumNat
<1> HIDE DEF total
<1>1. {} \in F
  <2>1. {} \cup R = R /\ total({}) = 0 /\ total(R) \in Nat
    BY SumEmpty, SumNat DEF total
  <2> QED
    BY <2>1
<1>2. ASSUME NEW t \in SUBSET S, t # {}, \A x \in t : t \ {x} \in F PROVE t \in F
  <2>1. PICK x \in t : TRUE
    BY <1>2
  <2> USE DEF total
  <2> DEFINE u == t \cup R
  <2>a. /\ IsFiniteSet(t) /\ IsFiniteSet(u) /\ x \in u
        /\ \A y \in t : w[y] \in Nat
        /\ \A y \in u : w[y] \in Nat
    BY <1>0
  <2>2. total(t) = w[x] + total(t \ {x})
    BY <2>a, SumTake
  <2> HIDE DEF u
  <2>b. total(u) = w[x] + total(u \ {x})
    BY <2>a, SumTake
  <2>3. total(t \cup R) = w[x] + total((t \cup R) \ {x})
    BY <2>b DEF u
  <2>4. (t \cup R) \ {x} = (t \ {x}) \cup R
    OBVIOUS
  <2>5. total((t \ {x}) \cup R) = total(t \ {x}) + total(R)
    BY <1>2
  <2>6. w[x] \in Nat /\ total(t \ {x}) \in Nat /\ total(R) \in Nat
    BY <1>0, SumNat
  <2> HIDE DEF total
  <2>7. total(t \cup R) = w[x] + (total(t \ {x}) + total(R))
    BY <2>3, <2>4, <2>5
  <2>8. total(t \cup R) = total(t) + total(R)
    BY <2>2, <2>6, <2>7
  <2> QED
    BY <2>8
<1> HIDE DEF F
<1>3. SUBSET S \subseteq F
  BY <1>1, <1>2, FiniteSetInduction
<1> QED
  BY <1>3 DEF F, total

\* The sets f[x] have no element in common.
Disjoint(f, S) == \A x, y \in S : x # y => f[x] \cap f[y] = {}

\* A union of sets that have no element in common has as many elements as they together.
LEMMA SumOfSizes ==
  ASSUME NEW f, NEW w, NEW S, NEW union, IsFiniteSet(S), Disjoint(f, S),
         \A x \in S : IsFiniteSet(f[x]) /\ w[x] = Cardinality(f[x]),
         \A e : e \in union <=> \E x \in S : e \in f[x]
  PROVE  IsFiniteSet(union) /\ Cardinality(union) = SumFunctionOnSet(w, S)
<1> DEFINE all(t) == UNION {f[x] : x \in t}
           F == {t \in SUBSET S : /\ IsFiniteSet(all(t))
                                 /\ Cardinality(all(t)) = SumFunctionOnSet(w, t)}
<1>1. {} \in F
  <2>1. all({}) = {}
    OBVIOUS
  <2> QED
    BY <2>1, SumEmpty, FS_EmptySet
<1>2. ASSUME NEW t \in SUBSET S, t # {}, \A x \in t : t \ {x} \in F PROVE t \in F
  <2>1. PICK x \in t : TRUE
    BY <1>2
  <2> DEFINE rest == t \ {x}
  <2>2. IsFiniteSet(all(rest)) /\ Cardinality(all(rest)) = SumFunctionOnSet(w, rest)
    BY <1>2
  <2>3. all(t) = f[x] \cup all(rest) /\ f[x] \cap all(rest) = {}
    BY DEF Disjoint
  <2>4. IsFiniteSet(f[x]) /\ w[x] = Cardinality(f[x])
    OBVIOUS
  <2>5. IsFiniteSet(t) /\ \A y \in t : w[y] \in Nat
    BY FS_Subset, FS_CardinalityType
  <2>6. SumFunctionOnSet(w, t) = w[x] + SumFunctionOnSet(w, rest)
    BY <2>5, SumTake
  <2> HIDE DEF all, rest
  <2>7. /\ IsFiniteSet(f[x] \cup all(rest))
        /\ Cardinality(f[x] \cup all(rest))
             = Cardinality(f[x]) + Cardinality(all(rest)) - Cardinality(f[x] \cap all(rest))
    BY <2>2, <2>4, FS_Union
  <2>8. Cardinality(f[x] \cap all(rest)) = 0
    BY <2>3, FS_EmptySet
  <2>9. Cardinality(f[x]) \in Nat /\ Cardinality(all(rest)) \in Nat
    BY <2>2, <2>4, FS_CardinalityType
  <2>10. Cardinality(all(t)) = SumFunctionOnSet(w, t)
    BY <2>2, <2>3, <2>4, <2>6, <2>7, <2>8, <2>9
  <2> QED
    BY <2>3, <2>7, <2>10
<1> HIDE DEF F
<1>3. SUBSET S \subseteq F
  BY <1>1, <1>2, FiniteSetInduction
<1>4. IsFiniteSet(all(S)) /\ Cardinality(all(S)) = SumFunctionOnSet(w, S)
  BY <1>3 DEF F
<1>5. all(S) = union
  OBVIOUS
<1> QED
  BY <1>4, <1>5

\* A sequence without repetitions has as many places as elements.
LEMMA DistinctSize ==
  ASSUME NEW R, NEW s \in Seq(R), \A i, j \in DOMAIN s : s[i] = s[j] => i = j
  PROVE  /\ IsFiniteSet({s[i] : i \in DOMAIN s})
         /\ Cardinality({s[i] : i \in DOMAIN s}) = Len(s)
<1> DEFINE all == {s[i] : i \in DOMAIN s}
<1>1. DOMAIN s = 1 .. Len(s) /\ Len(s) \in Nat
  OBVIOUS
<1>2. IsFiniteSet(1 .. Len(s)) /\ Cardinality(1 .. Len(s)) = Len(s)
  <2>1. IsFiniteSet(1 .. Len(s)) /\ Cardinality(1 .. Len(s)) = IF 1 <= Len(s) THEN Len(s) - 1 + 1 ELSE 0
    BY <1>1, FS_Interval
  <2> QED
    BY <1>1, <2>1
<1>3. [i \in 1 .. Len(s) |-> s[i]] \in Bijection(1 .. Len(s), all)
  BY <1>1 DEF Bijection, Injection, Surjection, IsInjective
<1>4. ExistsBijection(1 .. Len(s), all)
  BY <1>3 DEF ExistsBijection
<1> HIDE DEF all
<1>5. IsFiniteSet(all) /\ Cardinality(all) = Cardinality(1 .. Len(s))
  BY <1>2, <1>4, FS_Bijection, FS_SameCardinalityBij
<1> QED
  BY <1>2, <1>5 DEF all

\* One element more adds its value.
LEMMA SumAdd ==
  ASSUME NEW v, NEW w, NEW S, NEW e, IsFiniteSet(S), e \notin S,
         \A x \in S : v[x] = w[x] /\ w[x] \in Nat, v[e] \in Nat
  PROVE  /\ IsFiniteSet(S \cup {e})
         /\ SumFunctionOnSet(v, S \cup {e}) = SumFunctionOnSet(w, S) + v[e]
<1>1. IsFiniteSet(S \cup {e}) /\ e \in S \cup {e} /\ (S \cup {e}) \ {e} = S
  BY FS_AddElement
<1>2. \A x \in S \cup {e} : v[x] \in Nat
  OBVIOUS
<1>3. SumFunctionOnSet(v, S \cup {e}) = v[e] + SumFunctionOnSet(v, (S \cup {e}) \ {e})
  BY <1>1, <1>2, SumTake
<1>4. SumFunctionOnSet(v, S) = SumFunctionOnSet(w, S)
  BY SumSame
<1>5. SumFunctionOnSet(w, S) \in Nat
  BY SumNat
<1>6. SumFunctionOnSet(v, S \cup {e}) = v[e] + SumFunctionOnSet(w, S)
  BY <1>1, <1>3, <1>4, Zenon
<1>7. \A m, n \in Nat : m + n = n + m
  OBVIOUS
<1> QED
  BY <1>1, <1>5, <1>6, <1>7, Zenon

\* A recursion over the first numbers has a function: step[x, n] is the value at n if x is
\* the one before.
Recurs(f, N, base, step) ==
  \A n \in 0 .. N : f[n] = IF n = 0 THEN base ELSE step[<<f[n - 1], n>>]

LEMMA RecursionExists ==
  ASSUME NEW N \in Nat, NEW V, NEW base \in V, NEW step \in [V \X (1 .. N) -> V]
  PROVE  \E f \in [0 .. N -> V] : Recurs(f, N, base, step)
<1> DEFINE Follows(f, n) == f[n] = IF n = 0 THEN base ELSE step[<<f[n - 1], n>>]
           T == {n \in Nat : n <= N => \E f \in [0 .. n -> V] : \A m \in 0 .. n : Follows(f, m)}
<1>1. 0 \in T
  <2> DEFINE f == [m \in 0 .. 0 |-> base]
  <2>1. f \in [0 .. 0 -> V] /\ \A m \in 0 .. 0 : m = 0 /\ Follows(f, m)
    OBVIOUS
  <2> QED
    BY <2>1
<1>2. ASSUME NEW n \in T PROVE n + 1 \in T
  <2> SUFFICES ASSUME n + 1 <= N
               PROVE  \E f \in [0 .. n + 1 -> V] : \A m \in 0 .. n + 1 : Follows(f, m)
    OBVIOUS
  <2>1. n \in Nat /\ n <= N /\ n + 1 \in 1 .. N
    OBVIOUS
  <2>2. PICK g \in [0 .. n -> V] : \A m \in 0 .. n : Follows(g, m)
    BY <2>1
  <2> DEFINE next == step[<<g[n], n + 1>>]
             f == [m \in 0 .. n + 1 |-> IF m = n + 1 THEN next ELSE g[m]]
  <2>3. g[n] \in V /\ next \in V
    <3>1. g[n] \in V
      BY <2>1
    <3>2. <<g[n], n + 1>> \in V \X (1 .. N)
      BY <2>1, <3>1
    <3> QED
      BY <3>1, <3>2
  <2>4. ASSUME NEW m \in 0 .. n + 1 PROVE f[m] \in V /\ Follows(f, m)
    <3>1. CASE m = n + 1
      <4>1. f[m] = next /\ f[m - 1] = g[n] /\ m # 0
        BY <2>1, <3>1
      <4> HIDE DEF f
      <4> QED
        BY <2>3, <3>1, <4>1
    <3>2. CASE m # n + 1
      <4>1. m \in 0 .. n /\ f[m] = g[m] /\ (m # 0 => m - 1 \in 0 .. n /\ f[m - 1] = g[m - 1])
        BY <2>1, <3>2
      <4> HIDE DEF f
      <4> QED
        BY <2>2, <4>1
    <3> QED
      BY <3>1, <3>2
  <2>5. f \in [0 .. n + 1 -> V]
    <3> HIDE DEF next
    <3> QED
      BY <2>4
  <2> QED
    BY <2>4, <2>5
<1>3. T \in SUBSET Nat
  OBVIOUS
<1> HIDE DEF T
<1>4. T = Nat
  BY <1>1, <1>2, <1>3, NatSetInduction
<1>5. \E f \in [0 .. N -> V] : \A n \in 0 .. N : Follows(f, n)
  BY <1>4 DEF T
<1> QED
  BY <1>5 DEF Recurs

\* What a function makes of distinct elements, when it keeps them apart, is as many.
LEMMA ImageSize ==
  ASSUME NEW f, NEW S, IsFiniteSet(S), \A x, y \in S : f[x] = f[y] => x = y
  PROVE  IsFiniteSet({f[x] : x \in S}) /\ Cardinality({f[x] : x \in S}) = Cardinality(S)
<1> DEFINE all == {f[x] : x \in S}
<1>1. [x \in S |-> f[x]] \in Bijection(S, all)
  BY DEF Bijection, Injection, Surjection, IsInjective
<1>2. ExistsBijection(S, all)
  BY <1>1 DEF ExistsBijection
<1> HIDE DEF all
<1>3. IsFiniteSet(all) /\ Cardinality(all) = Cardinality(S)
  BY <1>2, FS_Bijection
<1> QED
  BY <1>3 DEF all

LEMMA ImageFinite ==
  ASSUME NEW f, NEW S, IsFiniteSet(S)
  PROVE  IsFiniteSet({f[x] : x \in S})
<1> DEFINE all == {f[x] : x \in S}
<1>1. [x \in S |-> f[x]] \in Surjection(S, all)
  BY DEF Surjection
<1> HIDE DEF all
<1>2. IsFiniteSet(all)
  BY <1>1, FS_Surjection
<1> QED
  BY <1>2 DEF all

\* One less for each element.
LEMMA SumLessOne ==
  ASSUME NEW v, NEW w, NEW S, IsFiniteSet(S),
         \A x \in S : v[x] \in Nat /\ w[x] \in Nat /\ w[x] = v[x] + 1
  PROVE  SumFunctionOnSet(v, S) = SumFunctionOnSet(w, S) - Cardinality(S)
<1> DEFINE F == {t \in SUBSET S : SumFunctionOnSet(w, t) = SumFunctionOnSet(v, t) + Cardinality(t)}
<1>1. {} \in F
  BY SumEmpty, FS_EmptySet
<1>2. ASSUME NEW t \in SUBSET S, t # {}, \A x \in t : t \ {x} \in F PROVE t \in F
  <2>1. PICK x \in t : TRUE
    BY <1>2
  <2>2. PICK rest : rest = t \ {x}
    OBVIOUS
  <2>3. IsFiniteSet(t) /\ IsFiniteSet(rest) /\ Cardinality(rest) = Cardinality(t) - 1
    BY <2>2, FS_Subset, FS_RemoveElement
  <2>4. /\ SumFunctionOnSet(v, t) = v[x] + SumFunctionOnSet(v, rest)
        /\ SumFunctionOnSet(w, t) = w[x] + SumFunctionOnSet(w, rest)
    BY <2>2, <2>3, SumTake
  <2>5. SumFunctionOnSet(v, rest) \in Nat /\ Cardinality(t) \in Nat
    BY <2>2, <2>3, SumNat, FS_CardinalityType
  <2>6. SumFunctionOnSet(w, rest) = SumFunctionOnSet(v, rest) + Cardinality(rest)
    BY <1>2, <2>2
  <2>7. v[x] \in Nat /\ w[x] = v[x] + 1
    OBVIOUS
  <2>8. SumFunctionOnSet(w, t) = SumFunctionOnSet(v, t) + Cardinality(t)
    BY <2>3, <2>4, <2>5, <2>6, <2>7
  <2> QED
    BY <2>8
<1> HIDE DEF F
<1>3. SUBSET S \subseteq F
  BY <1>1, <1>2, FiniteSetInduction
<1>4. SumFunctionOnSet(w, S) = SumFunctionOnSet(v, S) + Cardinality(S)
  BY <1>3 DEF F
<1>5. SumFunctionOnSet(v, S) \in Nat /\ Cardinality(S) \in Nat
  BY SumNat, FS_CardinalityType
<1> QED
  BY <1>4, <1>5

\* The recursion by which a fold over a sequence is defined, for all sets of its indices:
\* step[x, n] is the value with the element n, if x is the value without it.
Folding(f, base, step, S) ==
  \A s \in SUBSET S : f[s] = IF s = {} THEN base ELSE step[<<f[s \ {Max(s)}], Max(s)>>]

LEMMA MaxIsElement ==
  ASSUME NEW N \in Nat, NEW s \in SUBSET (1 .. N), s # {}
  PROVE  Max(s) \in s
<1> DEFINE T == {n \in Nat : N - n \in s}
<1>1. T # {}
  <2>1. PICK x \in s : TRUE
    OBVIOUS
  <2>2. x \in 1 .. N
    OBVIOUS
  <2>3. N - x \in Nat /\ N - (N - x) = x
    BY <2>2
  <2> QED
    BY <2>3
<1>2. PICK m \in T : \A k \in T : m <= k
  BY <1>1, LeastNat
<1>3. \A y \in s : N - m >= y
  <2> TAKE y \in s
  <2>1. y \in 1 .. N
    OBVIOUS
  <2>2. N - y \in Nat /\ N - (N - y) = y
    BY <2>1
  <2> QED
    BY <1>2, <2>1, <2>2
<1> QED
  BY <1>2, <1>3 DEF Max

LEMMA FoldingExists ==
  ASSUME NEW N \in Nat, NEW V, NEW base \in V, NEW step \in [V \X (1 .. N) -> V]
  PROVE  \E f \in [SUBSET (1 .. N) -> V] : Folding(f, base, step, 1 .. N)
<1> DEFINE S == 1 .. N
           less(s) == s \ {Max(s)}
           upto(n) == {s \in SUBSET S : Cardinality(s) <= n}
           Follows(f, s) == f[s] = IF s = {} THEN base ELSE step[<<f[less(s)], Max(s)>>]
           T == {n \in Nat : \E f \in [upto(n) -> V] : \A s \in upto(n) : Follows(f, s)}
<1>1. IsFiniteSet(S) /\ \A s \in SUBSET S : IsFiniteSet(s) /\ Cardinality(s) \in Nat
  <2>1. IsFiniteSet(S)
    BY FS_Interval
  <2> HIDE DEF S
  <2> QED
    BY <2>1, FS_Subset, FS_CardinalityType
<1>2. \A s \in SUBSET S : s # {} => Max(s) \in s
  BY MaxIsElement
<1>3. \A n \in Nat : \A s \in upto(n + 1) : s # {} => less(s) \in upto(n)
  <2> SUFFICES ASSUME NEW n \in Nat, NEW s \in upto(n + 1), s # {}
               PROVE  less(s) \in upto(n)
    OBVIOUS
  <2>1. Max(s) \in s
    BY <1>2
  <2>2. Cardinality(less(s)) = Cardinality(s) - 1
    BY <1>1, <2>1, FS_RemoveElement
  <2>3. Cardinality(s) \in Nat /\ Cardinality(s) <= n + 1
    BY <1>1
  <2>4. Cardinality(s) - 1 <= n
    BY <2>3
  <2> QED
    BY <2>2, <2>4
<1>4. 0 \in T
  <2>1. \A s \in upto(0) : s = {}
    BY <1>1, FS_EmptySet
  <2> DEFINE f == [s \in upto(0) |-> base]
  <2>2. f \in [upto(0) -> V] /\ \A s \in upto(0) : Follows(f, s)
    BY <2>1
  <2> QED
    BY <2>2
<1>5. ASSUME NEW n \in T PROVE n + 1 \in T
  <2>1. PICK g \in [upto(n) -> V] : \A s \in upto(n) : Follows(g, s)
    BY <1>5
  <2> DEFINE f == [s \in upto(n + 1) |-> IF s = {} THEN base ELSE step[<<g[less(s)], Max(s)>>]]
  <2> HIDE DEF upto, less
  <2>2. \A s \in upto(n + 1) : s # {} => g[less(s)] \in V /\ Max(s) \in S
    <3>1. \A s \in upto(n + 1) : s \in SUBSET S
      BY DEF upto
    <3> QED
      BY <1>2, <1>3, <3>1
  <2>3. f \in [upto(n + 1) -> V]
    BY <2>2
  <2>4. \A s \in upto(n) : s \in upto(n + 1) /\ f[s] = g[s]
    <3>1. \A s \in upto(n) : s \in upto(n + 1)
      BY <1>1 DEF upto
    <3> QED
      BY <2>1, <3>1
  <2>5. \A s \in upto(n + 1) : Follows(f, s)
    BY <1>3, <2>4
  <2>6. n + 1 \in Nat
    OBVIOUS
  <2> QED
    BY <2>3, <2>5, <2>6
<1>6. T = Nat
  <2> HIDE DEF T
  <2>1. T \in SUBSET Nat
    BY DEF T
  <2> QED
    BY <1>4, <1>5, <2>1, NatSetInduction
<1>7. upto(Cardinality(S)) = SUBSET S /\ Cardinality(S) \in Nat
  BY <1>1, FS_Subset
<1>8. \E f \in [SUBSET S -> V] : \A s \in SUBSET S : Follows(f, s)
  <2> HIDE DEF upto, less
  <2>1. Cardinality(S) \in T
    BY <1>6, <1>7
  <2> HIDE DEF S
  <2> QED
    BY <1>7, <2>1
<1> QED
  BY <1>8 DEF Folding

LEMMA MaxOfPrefix ==
  ASSUME NEW n \in Nat \ {0}
  PROVE  Max(1 .. n) = n /\ (1 .. n) \ {n} = 1 .. n - 1
<1>1. n \in 1 .. n /\ \A y \in 1 .. n : n >= y
  OBVIOUS
<1>2. \A x \in 1 .. n : (\A y \in 1 .. n : x >= y) => x = n
  OBVIOUS
<1> QED
  BY <1>1, <1>2 DEF Max

\* What FlattenSeq computes, by the number of sequences it has joined.
Joined(s) == CHOOSE f : f = [i \in 1 .. Len(s) |-> IF i = 1 THEN s[i] ELSE f[i - 1] \o s[i]]

LEMMA FlattenIsJoined ==
  ASSUME NEW s, Len(s) # 0
  PROVE  FlattenSeq(s) = Joined(s)[Len(s)]
  BY Zenon DEF FlattenSeq, Joined

LEMMA JoinedStep ==
  ASSUME NEW R, NEW s \in Seq(Seq(R))
  PROVE  \A i \in 1 .. Len(s) :
           /\ Joined(s)[i] \in Seq(R)
           /\ Joined(s)[i] = IF i = 1 THEN s[i] ELSE Joined(s)[i - 1] \o s[i]
<1> DEFINE N == Len(s)
           V == Seq(R)
           step == [x \in V \X (1 .. N) |-> IF x[2] = 1 THEN s[1] ELSE x[1] \o s[x[2]]]
<1>1. N \in Nat /\ \A i \in 1 .. N : s[i] \in V
  OBVIOUS
<1>2. step \in [V \X (1 .. N) -> V]
  BY <1>1
<1>3. \A x \in V, i \in 1 .. N : step[<<x, i>>] = IF i = 1 THEN s[1] ELSE x \o s[i]
  OBVIOUS
<1>4. <<>> \in V
  OBVIOUS
<1> HIDE DEF V, step, N
<1>5. PICK g \in [0 .. N -> V] : Recurs(g, N, <<>>, step)
  BY <1>1, <1>2, <1>4, RecursionExists
<1>6. \A i \in 1 .. N : g[i] = IF i = 1 THEN s[i] ELSE g[i - 1] \o s[i]
  <2> TAKE i \in 1 .. N
  <2>1. i - 1 \in 0 .. N /\ i \in 0 .. N /\ i # 0
    BY <1>1
  <2>2. g[i] = step[<<g[i - 1], i>>]
    BY <1>5, <2>1 DEF Recurs
  <2>3. g[i - 1] \in V
    BY <2>1
  <2> QED
    BY <1>3, <2>2, <2>3
<1> DEFINE h == [i \in 1 .. N |-> g[i]]
<1>7. h = [i \in 1 .. N |-> IF i = 1 THEN s[i] ELSE h[i - 1] \o s[i]]
  <2>1. \A i \in 1 .. N : i # 1 => i - 1 \in 1 .. N
    BY <1>1
  <2> QED
    BY <1>6, <2>1
<1> HIDE DEF h
<1>8. Joined(s) = [i \in 1 .. N |-> IF i = 1 THEN s[i] ELSE Joined(s)[i - 1] \o s[i]]
  <2>1. \E f : f = [i \in 1 .. Len(s) |-> IF i = 1 THEN s[i] ELSE f[i - 1] \o s[i]]
    BY <1>7 DEF N
  <2> QED
    BY <2>1, Zenon DEF Joined, N
<1> DEFINE T == {n \in Nat : n \in 1 .. N => Joined(s)[n] \in V}
<1>9. 0 \in T
  BY <1>1
<1>10. ASSUME NEW n \in T PROVE n + 1 \in T
  <2> SUFFICES ASSUME n + 1 \in 1 .. N PROVE Joined(s)[n + 1] \in V
    OBVIOUS
  <2>1. CASE n = 0
    BY <1>1, <1>8, <2>1
  <2>2. CASE n # 0
    <3>1. n \in 1 .. N /\ (n + 1) - 1 = n /\ n + 1 # 1
      BY <1>1, <2>2
    <3>2. Joined(s)[n] \in V /\ s[n + 1] \in V
      BY <1>1, <3>1
    <3>3. Joined(s)[n + 1] = Joined(s)[n] \o s[n + 1]
      BY <1>8, <3>1
    <3> QED
      BY <3>2, <3>3 DEF V
  <2> QED
    BY <2>1, <2>2
<1>11. T = Nat
  <2> HIDE DEF T
  <2>1. T \in SUBSET Nat
    BY DEF T
  <2> QED
    BY <1>9, <1>10, <2>1, NatSetInduction
<1>12. \A i \in 1 .. N : Joined(s)[i] \in V
  BY <1>1, <1>11
<1> QED
  BY <1>8, <1>12 DEF V, N

LEMMA FlattenType ==
  ASSUME NEW R, NEW s \in Seq(Seq(R))
  PROVE  FlattenSeq(s) \in Seq(R)
<1>1. CASE Len(s) = 0
  BY <1>1 DEF FlattenSeq
<1>2. CASE Len(s) # 0
  <2>1. Len(s) \in 1 .. Len(s)
    BY <1>2
  <2> QED
    BY <1>2, <2>1, FlattenIsJoined, JoinedStep
<1> QED
  BY <1>1, <1>2

LEMMA FlattenAppend ==
  ASSUME NEW R, NEW s \in Seq(Seq(R)), NEW e \in Seq(R)
  PROVE  FlattenSeq(Append(s, e)) = FlattenSeq(s) \o e
<1> DEFINE t == Append(s, e)
           N == Len(s)
<1>1. /\ t \in Seq(Seq(R)) /\ Len(t) = N + 1 /\ N \in Nat /\ t[N + 1] = e
      /\ \A i \in 1 .. N : t[i] = s[i]
  OBVIOUS
<1> HIDE DEF t
<1>2. FlattenSeq(t) = Joined(t)[N + 1]
  BY <1>1, FlattenIsJoined
<1>3. CASE N = 0
  <2>1. FlattenSeq(t) = e
    BY <1>1, <1>2, <1>3, JoinedStep
  <2>2. FlattenSeq(s) = <<>>
    BY <1>3 DEF FlattenSeq
  <2> QED
    BY <2>1, <2>2 DEF t
<1>4. CASE N # 0
  <2> DEFINE T == {n \in Nat : n \in 1 .. N => Joined(t)[n] = Joined(s)[n]}
  <2>1. 0 \in T
    BY <1>1
  <2>2. ASSUME NEW n \in T PROVE n + 1 \in T
    <3> SUFFICES ASSUME n + 1 \in 1 .. N PROVE Joined(t)[n + 1] = Joined(s)[n + 1]
      OBVIOUS
    <3>1. n + 1 \in 1 .. Len(t) /\ n + 1 \in 1 .. Len(s) /\ t[n + 1] = s[n + 1]
      BY <1>1
    <3>2. /\ Joined(t)[n + 1] = IF n + 1 = 1 THEN t[n + 1] ELSE Joined(t)[(n + 1) - 1] \o t[n + 1]
          /\ Joined(s)[n + 1] = IF n + 1 = 1 THEN s[n + 1] ELSE Joined(s)[(n + 1) - 1] \o s[n + 1]
      BY <1>1, <3>1, JoinedStep
    <3>3. n + 1 # 1 => n \in 1 .. N /\ (n + 1) - 1 = n
      BY <1>1
    <3> QED
      BY <3>1, <3>2, <3>3
  <2>3. T = Nat
    <3> HIDE DEF T
    <3>1. T \in SUBSET Nat
      BY DEF T
    <3> QED
      BY <2>1, <2>2, <3>1, NatSetInduction
  <2>4. Joined(t)[N] = Joined(s)[N]
    BY <1>1, <1>4, <2>3, SMTT(30)
  <2>5. Joined(t)[N + 1] = Joined(t)[N] \o e
    <3>1. N + 1 \in 1 .. Len(t) /\ N + 1 # 1 /\ (N + 1) - 1 = N
      BY <1>1, <1>4
    <3> QED
      BY <1>1, <3>1, JoinedStep
  <2>6. FlattenSeq(s) = Joined(s)[N]
    BY <1>4, FlattenIsJoined
  <2> QED
    BY <1>2, <2>4, <2>5, <2>6 DEF t
<1> QED
  BY <1>3, <1>4

LEMMA ConcatAppend ==
  ASSUME NEW R, NEW s \in Seq(R), NEW t \in Seq(R), NEW e \in R
  PROVE  s \o Append(t, e) = Append(s \o t, e) /\ s \o t \in Seq(R)
<1>1. s \o t \in Seq(R) /\ Append(t, e) \in Seq(R)
  OBVIOUS
<1> PICK u, v : u = s \o Append(t, e) /\ v = Append(s \o t, e)
  OBVIOUS
<1>2. /\ u \in Seq(R) /\ v \in Seq(R)
      /\ Len(u) = Len(s) + Len(t) + 1 /\ Len(v) = Len(s) + Len(t) + 1
  BY <1>1
<1>3. \A i \in 1 .. Len(u) : u[i] = v[i]
  <2> TAKE i \in 1 .. Len(u)
  <2>1. CASE i <= Len(s)
    <3>1. u[i] = s[i] /\ v[i] = s[i]
      BY <1>1, <1>2, <2>1
    <3> QED
      BY <3>1
  <2>2. CASE i > Len(s) /\ i <= Len(s) + Len(t)
    <3>1. u[i] = t[i - Len(s)] /\ v[i] = t[i - Len(s)]
      BY <1>1, <1>2, <2>2
    <3> QED
      BY <3>1
  <2>3. CASE i = Len(s) + Len(t) + 1
    <3>1. u[i] = e /\ v[i] = e
      BY <1>1, <1>2, <2>3
    <3> QED
      BY <3>1
  <2> QED
    BY <1>2, <2>1, <2>2, <2>3
<1>4. u = v
  BY <1>2, <1>3
<1> QED
  BY <1>1, <1>4

LEMMA SumNext ==
  ASSUME NEW w, NEW m \in Nat, \A i \in 1 .. m : w[i] \in Nat, w[m + 1] \in Nat
  PROVE  SumFunctionOnSet(w, 1 .. m + 1) = SumFunctionOnSet(w, 1 .. m) + w[m + 1]
<1> PICK S, e : S = 1 .. m /\ e = m + 1
  OBVIOUS
<1>1. IsFiniteSet(S)
  BY FS_Interval
<1>2. e \notin S /\ S \cup {e} = 1 .. m + 1 /\ e \in S \cup {e} /\ (S \cup {e}) \ {e} = S
  OBVIOUS
<1> PICK U : U = S \cup {e}
  OBVIOUS
<1>3. IsFiniteSet(U) /\ e \in U /\ U \ {e} = S /\ \A x \in U : w[x] \in Nat
  BY <1>1, <1>2, FS_AddElement
<1>4. SumFunctionOnSet(w, U) = w[e] + SumFunctionOnSet(w, U \ {e})
  BY <1>3, SumTake
<1>5. SumFunctionOnSet(w, S) \in Nat /\ \A x \in S : w[x] \in Nat
  <2>1. \A x \in S : w[x] \in Nat
    OBVIOUS
  <2> QED
    BY <1>1, <2>1, SumNat, Zenon
<1> PICK sum, last : sum = SumFunctionOnSet(w, S) /\ last = w[e]
  OBVIOUS
<1>6. SumFunctionOnSet(w, U) = last + sum
  BY <1>3, <1>4, Zenon
<1>7. sum \in Nat /\ last \in Nat
  BY <1>5
<1>8. last + sum = sum + last
  BY <1>7
<1>9. SumFunctionOnSet(w, U) = SumFunctionOnSet(w, S) + w[e]
  BY <1>6, <1>8, Zenon
<1>10. U = 1 .. m + 1
  BY <1>2
<1> QED
  BY <1>9, <1>10, Zenon
LEMMA PrefixFinite ==
  ASSUME NEW n \in Nat
  PROVE  IsFiniteSet(1 .. n)
  BY FS_Interval

\* R orders S, and how many elements are before x.
StrictOrder(R, S) ==
  /\ \A x \in S : <<x, x>> \notin R
  /\ \A x, y, z \in S : <<x, y>> \in R /\ <<y, z>> \in R => <<x, z>> \in R
  /\ \A x, y \in S : x # y => <<x, y>> \in R \/ <<y, x>> \in R
Place(R, S, x) == Cardinality({y \in S : <<y, x>> \in R})

LEMMA PlacesGrow ==
  ASSUME NEW S, IsFiniteSet(S), NEW R, StrictOrder(R, S), NEW x \in S
  PROVE  /\ Place(R, S, x) \in Nat /\ Place(R, S, x) < Cardinality(S)
         /\ \A y \in S : <<x, y>> \in R => Place(R, S, x) < Place(R, S, y)
<1> DEFINE below(y) == {z \in S : <<z, y>> \in R}
<1>1. \A y \in S : below(y) \in SUBSET S /\ IsFiniteSet(below(y)) /\ Cardinality(below(y)) \in Nat
  <2> TAKE y \in S
  <2>1. below(y) \in SUBSET S
    OBVIOUS
  <2> HIDE DEF below
  <2>2. IsFiniteSet(below(y))
    BY <2>1, FS_Subset
  <2> QED
    BY <2>1, <2>2, FS_CardinalityType
<1>2. x \notin below(x)
  BY DEF StrictOrder
<1>3. \A y \in S : <<x, y>> \in R => below(x) \subseteq below(y) /\ x \in below(y)
  BY DEF StrictOrder
<1>4. Place(R, S, x) = Cardinality(below(x)) /\ \A y \in S : Place(R, S, y) = Cardinality(below(y))
  BY DEF Place
<1> HIDE DEF below
<1>5. Cardinality(below(x)) < Cardinality(S)
  BY <1>1, <1>2, FS_Subset, FS_CardinalityType
<1>6. ASSUME NEW y \in S, <<x, y>> \in R PROVE Cardinality(below(x)) < Cardinality(below(y))
  <2>1. below(x) \in SUBSET below(y) /\ below(x) # below(y)
    BY <1>2, <1>3, <1>6
  <2>2. Cardinality(below(x)) <= Cardinality(below(y)) /\ Cardinality(below(x)) # Cardinality(below(y))
    BY <1>1, <2>1, FS_Subset
  <2> QED
    BY <1>1, <2>2
<1> QED
  BY <1>1, <1>4, <1>5, <1>6

\* There is one element for each place.
LEMMA PlacesAreAll ==
  ASSUME NEW S, IsFiniteSet(S), NEW R, StrictOrder(R, S)
  PROVE  /\ \A n \in 1 .. Cardinality(S) : \E x \in S : Place(R, S, x) = n - 1
         /\ \A x, y \in S : Place(R, S, x) = Place(R, S, y) => x = y
<1> DEFINE N == Cardinality(S)
           f == [x \in S |-> Place(R, S, x)]
<1>1. N \in Nat
  BY FS_CardinalityType
<1>2. \A x \in S : Place(R, S, x) \in 0 .. N - 1
  BY <1>1, PlacesGrow
<1>3. \A x, y \in S : Place(R, S, x) = Place(R, S, y) => x = y
  <2> SUFFICES ASSUME NEW x \in S, NEW y \in S, x # y PROVE Place(R, S, x) # Place(R, S, y)
    OBVIOUS
  <2>1. <<x, y>> \in R \/ <<y, x>> \in R
    BY DEF StrictOrder
  <2> QED
    BY <2>1, PlacesGrow
<1>4. f \in Injection(S, 0 .. N - 1)
  BY <1>2, <1>3 DEF Injection, IsInjective
<1>5. IsFiniteSet(0 .. N - 1) /\ Cardinality(0 .. N - 1) = N
  BY <1>1, FS_Interval
<1>6. f \in Surjection(S, 0 .. N - 1)
  <2> HIDE DEF f
  <2> QED
    BY <1>4, <1>5, FS_Injection
<1>7. \A m \in 0 .. N - 1 : \E x \in S : Place(R, S, x) = m
  BY <1>6 DEF Surjection
<1>8. \A n \in 1 .. N : n - 1 \in 0 .. N - 1
  BY <1>1
<1> QED
  BY <1>3, <1>7, <1>8

\* The elements of a sequence in the order R, as numbers of their places.
Ranks(R, N) == [n \in 1 .. N |-> CHOOSE i \in 1 .. N : Place(R, 1 .. N, i) = n - 1]

LEMMA RanksSort ==
  ASSUME NEW N \in Nat, NEW R, StrictOrder(R, 1 .. N)
  PROVE  LET p == Ranks(R, N)
         IN /\ p \in [1 .. N -> 1 .. N]
            /\ \A m, n \in 1 .. N : p[m] = p[n] => m = n
            /\ \A i \in 1 .. N : \E n \in 1 .. N : p[n] = i
            /\ \A m, n \in 1 .. N : m < n <=> <<p[m], p[n]>> \in R
<1> DEFINE S == 1 .. N
<1> PICK p : p = Ranks(R, N)
  OBVIOUS
<1>1. IsFiniteSet(S) /\ Cardinality(S) = N
  <2>1. IsFiniteSet(S)
    BY FS_Interval
  <2>2. Cardinality(1 .. N) = IF 1 > N THEN 0 ELSE N - 1 + 1
    BY FS_Interval
  <2> QED
    BY <2>1, <2>2
<1>0. StrictOrder(R, S) /\ S = 1 .. N /\ \A n \in S : n \in Nat
  OBVIOUS
<1> HIDE DEF S
<1>2. /\ \A n \in S : \E x \in S : Place(R, S, x) = n - 1
      /\ \A x, y \in S : Place(R, S, x) = Place(R, S, y) => x = y
  <2>1. /\ \A n \in 1 .. Cardinality(S) : \E x \in S : Place(R, S, x) = n - 1
        /\ \A x, y \in S : Place(R, S, x) = Place(R, S, y) => x = y
    BY <1>0, <1>1, PlacesAreAll
  <2> QED
    BY <1>0, <1>1, <2>1, Zenon
<1>3. \A n \in S : p[n] \in S /\ Place(R, S, p[n]) = n - 1
  BY <1>2 DEF Ranks, S
<1>4. p \in [S -> S]
  BY <1>3 DEF Ranks, S
<1>5. \A m, n \in S : p[m] = p[n] => m = n
  BY <1>3 DEF S
<1>6. ASSUME NEW i \in S PROVE \E n \in S : p[n] = i
  <2>1. Place(R, S, i) \in Nat /\ Place(R, S, i) < N
    BY <1>1, PlacesGrow DEF S
  <2>2. Place(R, S, i) + 1 \in S
    BY <2>1 DEF S
  <2>3. Place(R, S, p[Place(R, S, i) + 1]) = Place(R, S, i)
    BY <1>3, <2>1, <2>2
  <2> QED
    BY <1>2, <1>3, <2>2, <2>3
<1>7. ASSUME NEW m \in S, NEW n \in S PROVE m < n <=> <<p[m], p[n]>> \in R
  <2>0. \A x, y \in S : <<x, y>> \in R => Place(R, S, x) < Place(R, S, y)
    BY <1>0, <1>1, PlacesGrow
  <2>1. <<p[m], p[n]>> \in R => m - 1 < n - 1
    BY <1>3, <2>0
  <2>2. <<p[n], p[m]>> \in R => n - 1 < m - 1
    BY <1>3, <2>0
  <2>3. p[m] # p[n] => <<p[m], p[n]>> \in R \/ <<p[n], p[m]>> \in R
    BY <1>0, <1>3 DEF StrictOrder
  <2> QED
    BY <1>0, <1>3, <1>5, <2>1, <2>2, <2>3
<1> QED
  BY <1>4, <1>5, <1>6, <1>7 DEF S

\* A sum over elements that f keeps apart is the sum over what f makes of them.
LEMMA SumImage ==
  ASSUME NEW S, IsFiniteSet(S), NEW f, NEW v, NEW w, \A x, y \in S : f[x] = f[y] => x = y,
         \A x \in S : v[x] = w[f[x]] /\ v[x] \in Nat,
         NEW T, \A y : y \in T <=> \E x \in S : y = f[x]
  PROVE  SumFunctionOnSet(v, S) = SumFunctionOnSet(w, T)
<1> DEFINE image(t) == {f[x] : x \in t}
           F == {t \in SUBSET S : SumFunctionOnSet(v, t) = SumFunctionOnSet(w, image(t))}
<1>1. {} \in F
  <2>1. image({}) = {}
    OBVIOUS
  <2> QED
    BY <2>1, SumEmpty
<1>2. ASSUME NEW t \in SUBSET S, t # {}, \A x \in t : t \ {x} \in F PROVE t \in F
  <2>1. PICK x \in t : TRUE
    BY <1>2
  <2>2. IsFiniteSet(t) /\ IsFiniteSet(image(t))
    BY FS_Subset, ImageFinite
  <2>3. f[x] \in image(t) /\ image(t \ {x}) = image(t) \ {f[x]}
    OBVIOUS
  <2>4. \A y \in image(t) : w[y] \in Nat
    OBVIOUS
  <2>5. SumFunctionOnSet(v, t \ {x}) = SumFunctionOnSet(w, image(t \ {x}))
    BY <1>2
  <2> HIDE DEF image
  <2>6. SumFunctionOnSet(w, image(t)) = w[f[x]] + SumFunctionOnSet(w, image(t) \ {f[x]})
    BY <2>2, <2>3, <2>4, SumTake
  <2>7. \A y \in t : v[y] \in Nat
    OBVIOUS
  <2>8. SumFunctionOnSet(v, t) = v[x] + SumFunctionOnSet(v, t \ {x})
    BY <2>2, <2>7, SumTake
  <2>9. v[x] = w[f[x]]
    OBVIOUS
  <2>10. SumFunctionOnSet(v, t) = SumFunctionOnSet(w, image(t))
    BY <2>3, <2>5, <2>6, <2>8, <2>9, Zenon
  <2> QED
    BY <2>10
<1> HIDE DEF F
<1>3. SUBSET S \subseteq F
  BY <1>1, <1>2, FiniteSetInduction
<1>4. image(S) = T
  OBVIOUS
<1> QED
  BY <1>3, <1>4 DEF F

\* How many elements the first m sequences of s have.
Total(s, m) == SumFunctionOnSet([l \in DOMAIN s |-> Len(s[l])], 1 .. m)

LEMMA TotalNext ==
  ASSUME NEW X, NEW s \in Seq(Seq(X))
  PROVE  /\ Total(s, 0) = 0
         /\ \A m \in 0 .. Len(s) : Total(s, m) \in Nat
         /\ \A m \in 0 .. Len(s) - 1 : Total(s, m + 1) = Total(s, m) + Len(s[m + 1])
<1> DEFINE w == [l \in DOMAIN s |-> Len(s[l])]
<1>1. DOMAIN s = 1 .. Len(s) /\ Len(s) \in Nat
  OBVIOUS
<1>2. \A l \in 1 .. Len(s) : w[l] = Len(s[l]) /\ w[l] \in Nat
  <2> TAKE l \in 1 .. Len(s)
  <2>1. s[l] \in Seq(X)
    OBVIOUS
  <2>2. w[l] = Len(s[l])
    BY <1>1
  <2> HIDE DEF w
  <2> QED
    BY <2>1, <2>2
<1>3. \A m : Total(s, m) = SumFunctionOnSet(w, 1 .. m)
  BY DEF Total
<1> HIDE DEF w
<1>4. Total(s, 0) = 0
  <2>1. 1 .. 0 = {}
    OBVIOUS
  <2> QED
    BY <1>3, <2>1, SumEmpty, Zenon
<1>5. \A m \in 0 .. Len(s) : Total(s, m) \in Nat
  <2> TAKE m \in 0 .. Len(s)
  <2>1. \A l \in 1 .. m : w[l] \in Nat
    BY <1>1, <1>2
  <2>2. IsFiniteSet(1 .. m)
    BY <1>1, FS_Interval
  <2> QED
    BY <1>3, <2>1, <2>2, SumNat
<1>6. ASSUME NEW m \in 0 .. Len(s) - 1 PROVE Total(s, m + 1) = Total(s, m) + Len(s[m + 1])
  <2>1. m \in Nat /\ m + 1 \in 1 .. Len(s) /\ \A l \in 1 .. m : l \in 1 .. Len(s)
    BY <1>1
  <2>2. (\A l \in 1 .. m : w[l] \in Nat) /\ w[m + 1] \in Nat
    BY <1>2, <2>1
  <2>3. SumFunctionOnSet(w, 1 .. m + 1) = SumFunctionOnSet(w, 1 .. m) + w[m + 1]
    BY <2>1, <2>2, SumNext
  <2>4. w[m + 1] = Len(s[m + 1])
    BY <1>2, <2>1
  <2> QED
    BY <1>3, <2>3, <2>4, Zenon
<1> QED
  BY <1>4, <1>5, <1>6

\* f holds the elements of the first m sequences of s, in order.
Holds(s, f, m) ==
  /\ Len(f) = Total(s, m)
  /\ \A i \in 1 .. m : \A j \in 1 .. Len(s[i]) :
       Total(s, i - 1) + j \in 1 .. Len(f) /\ f[Total(s, i - 1) + j] = s[i][j]
  /\ \A q \in 1 .. Len(f) : \E i \in 1 .. m : \E j \in 1 .. Len(s[i]) : q = Total(s, i - 1) + j

LEMMA HoldsNext ==
  ASSUME NEW X, NEW s \in Seq(Seq(X)), NEW f \in Seq(X), NEW m \in 0 .. Len(s) - 1, Holds(s, f, m)
  PROVE  Holds(s, f \o s[m + 1], m + 1)
<1> PICK e : e = s[m + 1]
  OBVIOUS
<1> PICK g : g = f \o e
  OBVIOUS
<1>1. m \in Nat /\ m + 1 \in 1 .. Len(s) /\ e \in Seq(X)
  OBVIOUS
<1>2. /\ Len(g) = Len(f) + Len(e) /\ Len(f) \in Nat /\ Len(e) \in Nat
      /\ \A q \in 1 .. Len(f) : g[q] = f[q]
      /\ \A j \in 1 .. Len(e) : g[Len(f) + j] = e[j]
  BY <1>1
<1>3. Total(s, m) = Len(f)
  BY DEF Holds
<1>4. Total(s, m + 1) = Len(f) + Len(e)
  BY <1>3, TotalNext
<1>5. \A i \in 1 .. m + 1 : i \in 1 .. m \/ (i = m + 1 /\ i - 1 = m)
  BY <1>1
<1>6. ASSUME NEW i \in 1 .. m + 1, NEW j \in 1 .. Len(s[i])
      PROVE  Total(s, i - 1) + j \in 1 .. Len(g) /\ g[Total(s, i - 1) + j] = s[i][j]
  <2>1. CASE i \in 1 .. m
    <3>1. Total(s, i - 1) + j \in 1 .. Len(f) /\ f[Total(s, i - 1) + j] = s[i][j]
      BY <2>1 DEF Holds
    <3>2. \A q \in 1 .. Len(f) : q \in 1 .. Len(g)
      BY <1>2
    <3> QED
      BY <1>2, <3>1, <3>2
  <2>2. CASE i = m + 1 /\ i - 1 = m
    <3>1. j \in 1 .. Len(e) /\ Total(s, i - 1) + j = Len(f) + j /\ s[i] = e
      BY <1>3, <2>2
    <3>2. Len(f) + j \in 1 .. Len(g)
      BY <1>2, <3>1
    <3> QED
      BY <1>2, <3>1, <3>2
  <2> QED
    BY <1>5, <2>1, <2>2
<1>7. ASSUME NEW q \in 1 .. Len(g)
      PROVE  \E i \in 1 .. m + 1 : \E j \in 1 .. Len(s[i]) : q = Total(s, i - 1) + j
  <2>1. CASE q \in 1 .. Len(f)
    <3>1. PICK i \in 1 .. m : \E j \in 1 .. Len(s[i]) : q = Total(s, i - 1) + j
      BY <2>1 DEF Holds
    <3>2. i \in 1 .. m + 1
      BY <1>1
    <3> QED
      BY <3>1, <3>2
  <2>2. CASE q \notin 1 .. Len(f)
    <3>1. q - Len(f) \in 1 .. Len(e) /\ q = Len(f) + (q - Len(f))
      BY <1>2, <2>2
    <3>2. m + 1 \in 1 .. m + 1 /\ (m + 1) - 1 = m
      BY <1>1
    <3>3. Total(s, (m + 1) - 1) + (q - Len(f)) = q
      BY <1>3, <3>1, <3>2
    <3> QED
      BY <3>1, <3>2, <3>3
  <2> QED
    BY <2>1, <2>2
<1>8. Len(g) = Total(s, m + 1)
  BY <1>2, <1>4
<1>9. Holds(s, g, m + 1)
  BY <1>6, <1>7, <1>8 DEF Holds
<1> QED
  BY <1>9

\* Where FlattenSeq puts the elements.
LEMMA FlattenAt ==
  ASSUME NEW X, NEW s \in Seq(Seq(X))
  PROVE  FlattenSeq(s) \in Seq(X) /\ Holds(s, FlattenSeq(s), Len(s))
<1> DEFINE J(m) == IF m = 0 THEN <<>> ELSE Joined(s)[m]
           T == {m \in Nat : m \in 0 .. Len(s) => J(m) \in Seq(X) /\ Holds(s, J(m), m)}
<1>1. 0 \in T
  <2>1. Holds(s, <<>>, 0)
    BY TotalNext DEF Holds
  <2> QED
    BY <2>1
<1>2. ASSUME NEW m \in T PROVE m + 1 \in T
  <2> SUFFICES ASSUME m + 1 \in 0 .. Len(s) PROVE J(m + 1) \in Seq(X) /\ Holds(s, J(m + 1), m + 1)
    OBVIOUS
  <2>1. m \in 0 .. Len(s) - 1 /\ m + 1 \in 1 .. Len(s) /\ m \in Nat /\ (m + 1) - 1 = m /\ m \in 0 .. Len(s)
    OBVIOUS
  <2>2. J(m) \in Seq(X) /\ Holds(s, J(m), m)
    BY <2>1
  <2>3. J(m + 1) = J(m) \o s[m + 1] /\ J(m + 1) \in Seq(X)
    <3>1. /\ Joined(s)[m + 1] \in Seq(X)
          /\ Joined(s)[m + 1] = IF m + 1 = 1 THEN s[m + 1] ELSE Joined(s)[(m + 1) - 1] \o s[m + 1]
      BY <2>1, JoinedStep
    <3>2. s[m + 1] \in Seq(X) /\ m + 1 # 0
      BY <2>1
    <3>3. <<>> \o s[m + 1] = s[m + 1]
      BY <3>2
    <3>4. J(m + 1) = Joined(s)[m + 1]
      BY <3>2
    <3>5. CASE m = 0
      <4>1. J(m) = <<>> /\ Joined(s)[m + 1] = s[m + 1]
        BY <3>1, <3>5
      <4> QED
        BY <3>1, <3>3, <3>4, <4>1, Zenon
    <3>6. CASE m # 0
      <4>1. J(m) = Joined(s)[m] /\ m + 1 # 1
        BY <2>1, <3>6
      <4> QED
        BY <2>1, <3>1, <3>4, <4>1, Zenon
    <3> QED
      BY <3>5, <3>6
  <2> HIDE DEF J
  <2> QED
    BY <2>1, <2>2, <2>3, HoldsNext
<1> HIDE DEF T
<1>3. T = Nat
  <2>1. T \in SUBSET Nat
    BY DEF T
  <2> QED
    BY <1>1, <1>2, <2>1, NatSetInduction
<1>4. Len(s) \in Nat /\ Len(s) \in 0 .. Len(s)
  OBVIOUS
<1>5. J(Len(s)) \in Seq(X) /\ Holds(s, J(Len(s)), Len(s))
  BY <1>3, <1>4 DEF T
<1>6. FlattenSeq(s) = J(Len(s))
  <2>1. CASE Len(s) = 0
    BY <2>1 DEF FlattenSeq
  <2>2. CASE Len(s) # 0
    BY <2>2, FlattenIsJoined
  <2> QED
    BY <2>1, <2>2
<1> QED
  BY <1>5, <1>6

\* Elements that count nothing may be left out.
LEMMA SumNonzero ==
  ASSUME NEW w, NEW S, NEW R, IsFiniteSet(S), IsFiniteSet(R), \A x \in S \cup R : w[x] \in Nat,
         \A x \in S \ R : w[x] = 0, \A x \in R \ S : w[x] = 0
  PROVE  SumFunctionOnSet(w, S) = SumFunctionOnSet(w, R)
<1> PICK both, A, B : both = S \cap R /\ A = S \ R /\ B = R \ S
  OBVIOUS
<1>1. IsFiniteSet(both) /\ IsFiniteSet(A) /\ IsFiniteSet(B)
  BY FS_Intersection, FS_Difference
<1>2. S = both \cup A /\ R = both \cup B /\ both \cap A = {} /\ both \cap B = {}
  OBVIOUS
<1>3. /\ \A x \in both \cup A : w[x] \in Nat
      /\ \A x \in both \cup B : w[x] \in Nat
  BY <1>2
<1>4. /\ SumFunctionOnSet(w, S) = SumFunctionOnSet(w, both) + SumFunctionOnSet(w, A)
      /\ SumFunctionOnSet(w, R) = SumFunctionOnSet(w, both) + SumFunctionOnSet(w, B)
  BY <1>1, <1>2, <1>3, SumSplit
<1>5. SumFunctionOnSet(w, A) = 0 /\ SumFunctionOnSet(w, B) = 0
  BY <1>1, SumZero
<1> QED
  BY <1>4, <1>5, Zenon

LEMMA SameElements ==
  ASSUME NEW X, NEW f \in Seq(X), NEW g \in Seq(X), Len(f) = Len(g),
         \A q \in 1 .. Len(g) : g[q] = f[q]
  PROVE  g = f
  OBVIOUS

\* t[n] is s[p[n]], each once, and those that are not empty keep their order.
Rearranged(t, s, p, N) ==
  /\ p \in [1 .. N -> 1 .. N]
  /\ \A m, n \in 1 .. N : p[m] = p[n] => m = n
  /\ \A i \in 1 .. N : \E n \in 1 .. N : p[n] = i
  /\ \A n \in 1 .. N : t[n] = s[p[n]]
  /\ \A m, n \in 1 .. N : m < n /\ Len(t[m]) # 0 /\ Len(t[n]) # 0 => p[m] < p[n]

\* Sequences joined in another order are the same if those that are not empty keep theirs.
LEMMA FlattenRearranged ==
  ASSUME NEW X, NEW s \in Seq(Seq(X)), NEW t \in Seq(Seq(X)), NEW p,
         Len(t) = Len(s), Rearranged(t, s, p, Len(s))
  PROVE  FlattenSeq(t) = FlattenSeq(s)
<1> DEFINE v == [l \in DOMAIN t |-> Len(t[l])]
           w == [l \in DOMAIN s |-> Len(s[l])]
           K(n) == 1 .. n
           image(n) == {p[l] : l \in K(n)}
<1> PICK N : N = Len(s)
  OBVIOUS
<1>1. DOMAIN s = 1 .. N /\ DOMAIN t = 1 .. N /\ N \in Nat
  OBVIOUS
<1>2. /\ \A l \in 1 .. N : w[l] = Len(s[l]) /\ w[l] \in Nat
      /\ \A l \in 1 .. N : v[l] = Len(t[l]) /\ v[l] \in Nat
  <2>1. \A l \in 1 .. N : w[l] = Len(s[l]) /\ v[l] = Len(t[l])
    BY <1>1
  <2>2. \A l \in 1 .. N : s[l] \in Seq(X) /\ t[l] \in Seq(X)
    BY <1>1
  <2> HIDE DEF v, w
  <2>3. \A e \in Seq(X) : Len(e) \in Nat
    OBVIOUS
  <2> QED
    BY <2>1, <2>2, <2>3, Zenon
<1>3. \A m : Total(s, m) = SumFunctionOnSet(w, K(m)) /\ Total(t, m) = SumFunctionOnSet(v, K(m))
  BY DEF Total
<1> HIDE DEF v, w
<1>4. \A n \in 1 .. N : p[n] \in 1 .. N /\ t[n] = s[p[n]] /\ v[n] = w[p[n]]
  <2>1. \A n \in 1 .. N : p[n] \in 1 .. N /\ t[n] = s[p[n]]
    BY DEF Rearranged
  <2>2. \A n \in 1 .. N : v[n] = Len(t[n]) /\ w[p[n]] = Len(s[p[n]])
    BY <1>2, <2>1
  <2> QED
    BY <2>1, <2>2
<1>5. /\ \A m, n \in 1 .. N : p[m] = p[n] => m = n
      /\ \A i \in 1 .. N : \E n \in 1 .. N : p[n] = i
  BY DEF Rearranged
<1>6. \A m, n \in 1 .. N : m < n /\ v[m] # 0 /\ v[n] # 0 => p[m] < p[n]
  BY <1>2 DEF Rearranged
<1>7. FlattenSeq(s) \in Seq(X) /\ Holds(s, FlattenSeq(s), N)
  BY FlattenAt
<1>8. FlattenSeq(t) \in Seq(X) /\ Holds(t, FlattenSeq(t), N)
  BY FlattenAt
<1>9. \A n \in 0 .. N : IsFiniteSet(K(n)) /\ K(n) \subseteq 1 .. N
  <2> TAKE n \in 0 .. N
  <2>1. IsFiniteSet(K(n))
    BY <1>1, FS_Interval
  <2> QED
    BY <1>1, <2>1
<1>10. \A n \in 0 .. N :
         /\ IsFiniteSet(image(n)) /\ Total(t, n) = SumFunctionOnSet(w, image(n))
         /\ \A i \in image(n) : w[i] \in Nat
  <2> TAKE n \in 0 .. N
  <2> HIDE DEF K
  <2>1. IsFiniteSet(K(n)) /\ \A l \in K(n) : l \in 1 .. N
    BY <1>9
  <2>2. IsFiniteSet(image(n))
    BY <2>1, ImageFinite
  <2>3. \A i \in image(n) : w[i] \in Nat
    BY <1>2, <1>4, <2>1
  <2>4. /\ \A x, y \in K(n) : p[x] = p[y] => x = y
        /\ \A x \in K(n) : v[x] = w[p[x]] /\ v[x] \in Nat
    BY <1>2, <1>4, <1>5, <2>1
  <2> PICK A : A = K(n)
    OBVIOUS
  <2> PICK B : B = image(n)
    OBVIOUS
  <2>5. SumFunctionOnSet(v, A) = SumFunctionOnSet(w, B)
    <3>1. IsFiniteSet(A)
      BY <2>1
    <3>2. /\ \A x, y \in A : p[x] = p[y] => x = y
          /\ \A x \in A : v[x] = w[p[x]] /\ v[x] \in Nat
      BY <2>4
    <3>3. \A y : y \in B <=> \E x \in A : y = p[x]
      OBVIOUS
    <3> QED
      BY <3>1, <3>2, <3>3, SumImage
  <2> QED
    BY <1>3, <2>2, <2>3, <2>5
<1>11. Total(t, N) = Total(s, N)
  <2>1. image(N) = K(N)
    <3>1. \A i \in image(N) : i \in 1 .. N
      BY <1>4
    <3>2. \A i \in 1 .. N : i \in image(N)
      BY <1>5
    <3> HIDE DEF image
    <3> QED
      BY <3>1, <3>2
  <2>2. N \in 0 .. N
    BY <1>1
  <2> QED
    BY <1>3, <1>10, <2>1, <2>2
<1>12. ASSUME NEW n \in 1 .. N, v[n] # 0 PROVE Total(t, n - 1) = Total(s, p[n] - 1)
  <2>1. n - 1 \in 0 .. N /\ p[n] - 1 \in 0 .. N
    <3>1. p[n] \in 1 .. N
      BY <1>4
    <3> QED
      BY <1>1, <3>1
  <2> PICK A, B : A = image(n - 1) /\ B = K(p[n] - 1)
    OBVIOUS
  <2>2. \A i \in A : i \notin B => w[i] = 0
    <3> SUFFICES ASSUME NEW m \in K(n - 1), p[m] \notin K(p[n] - 1) PROVE w[p[m]] = 0
      OBVIOUS
    <3>1. m \in 1 .. N /\ m < n
      BY <1>1
    <3>2. p[m] \in 1 .. N /\ p[n] \in 1 .. N
      BY <1>4, <3>1
    <3>3. ~(p[m] < p[n])
      BY <1>1, <3>2
    <3> QED
      BY <1>4, <1>6, <1>12, <3>1, <3>3, Zenon
  <2>3. \A i \in B : i \notin A => w[i] = 0
    <3> SUFFICES ASSUME NEW i \in K(p[n] - 1), i \notin image(n - 1) PROVE w[i] = 0
      OBVIOUS
    <3>0. p[n] \in 1 .. N
      BY <1>4
    <3>1. i \in 1 .. N /\ i < p[n]
      <4>0. PICK P : P = p[n]
        OBVIOUS
      <4>1. P \in 1 .. N /\ i \in 1 .. P - 1
        BY <3>0, <4>0
      <4>2. i \in 1 .. N /\ i < P
        BY <1>1, <4>1
      <4> QED
        BY <4>0, <4>2
    <3>2. PICK m \in 1 .. N : p[m] = i
      BY <1>5, <3>1
    <3>3. ~(m < n)
      <4>1. m < n => m \in K(n - 1)
        BY <1>1
      <4> QED
        BY <3>2, <4>1
    <3>4. n < m
      BY <1>1, <3>0, <3>1, <3>2, <3>3
    <3>5. ~(p[n] < p[m])
      BY <1>1, <3>0, <3>1, <3>2
    <3> QED
      BY <1>4, <1>6, <1>12, <3>2, <3>4, <3>5, Zenon
  <2>4. \A i \in B : w[i] \in Nat
    <3>1. B \subseteq 1 .. N
      BY <1>9, <2>1
    <3> QED
      BY <1>2, <3>1
  <2> HIDE DEF K, image
  <2>5. IsFiniteSet(A) /\ IsFiniteSet(B) /\ \A i \in A \cup B : w[i] \in Nat
    BY <1>9, <1>10, <2>1, <2>4
  <2>6. (\A i \in A \ B : w[i] = 0) /\ (\A i \in B \ A : w[i] = 0)
    BY <2>2, <2>3
  <2>7. SumFunctionOnSet(w, A) = SumFunctionOnSet(w, B)
    BY <2>5, <2>6, SumNonzero
  <2> QED
    BY <1>3, <1>10, <2>1, <2>7
<1> PICK f, g : f = FlattenSeq(s) /\ g = FlattenSeq(t)
  OBVIOUS
<1>13. Len(f) = Len(g)
  BY <1>7, <1>8, <1>11 DEF Holds
<1>14. \A q \in 1 .. Len(g) : g[q] = f[q]
  <2> TAKE q \in 1 .. Len(g)
  <2>1. PICK n \in 1 .. N : \E j \in 1 .. Len(t[n]) : q = Total(t, n - 1) + j
    BY <1>8 DEF Holds
  <2>2. PICK j \in 1 .. Len(t[n]) : q = Total(t, n - 1) + j
    BY <2>1
  <2>3. g[q] = t[n][j]
    BY <1>8, <2>2 DEF Holds
  <2>4. v[n] # 0
    BY <1>2
  <2>5. q = Total(s, p[n] - 1) + j
    BY <1>12, <2>2, <2>4
  <2>6. t[n] = s[p[n]] /\ p[n] \in 1 .. N
    BY <1>4
  <2>7. j \in 1 .. Len(s[p[n]])
    BY <2>6
  <2>8. f[Total(s, p[n] - 1) + j] = s[p[n]][j]
    BY <1>7, <2>6, <2>7, Zenon DEF Holds
  <2> QED
    BY <2>3, <2>5, <2>6, <2>8
<1>15. f \in Seq(X) /\ g \in Seq(X)
  BY <1>7, <1>8
<1>16. g = f
  BY <1>13, <1>14, <1>15, SameElements
<1> QED
  BY <1>16
=============================================================================
