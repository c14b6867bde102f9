----------------------------- MODULE SumProofs -----------------------------
(***************************************************************************)
(* What the accounts of the gateway are proved from: how a sum over a      *)
(* finite set of rows (SumFunctionOnSet) changes when a row is added or    *)
(* one of its values is corrected.  SumFunctionOnSet is a function defined *)
(* by recursion over the subsets of the set; that such a function exists,  *)
(* and that it does not matter in which order the rows are taken, is shown *)
(* by induction on the number of rows.  The library's induction theorems   *)
(* take an operator, which the provers cannot instantiate: AllNaturals     *)
(* states induction for a set of numbers instead.                          *)
(***************************************************************************)
EXTENDS Integers, FiniteSetsExt, FiniteSetTheorems, TLAPS

-----------------------------------------------------------------------------
(* Induction.                                                              *)

\* A set of naturals that holds 0 and with n also n + 1 holds all of them.
LEMMA AllNaturals ==
    ASSUME NEW G, 0 \in G, \A n \in Nat : n \in G => n + 1 \in G
    PROVE  Nat \subseteq G
<1> DEFINE R == OpToRel(<, Nat)
<1> DEFINE Bad == Nat \ G
<1> SUFFICES ASSUME Bad # {} PROVE FALSE OBVIOUS
<1>1. IsWellFoundedOn(R, Nat) BY NatLessThanWellFounded
<1>2. PICK n \in Bad : \A m \in Bad : ~ (<<m, n>> \in R)
  <2> HIDE DEF R
  <2>1. Bad \subseteq Nat OBVIOUS
  <2> HIDE DEF Bad
  <2> QED BY <1>1, <2>1, WFMin
<1>3. n \in Nat /\ n # 0 OBVIOUS
<1>4. n - 1 \in Nat /\ n = (n - 1) + 1 BY <1>3
<1>5. <<n - 1, n>> \in R BY <1>3, <1>4 DEF OpToRel
<1>6. n - 1 \in G BY <1>2, <1>4, <1>5
<1> QED BY <1>4, <1>6

-----------------------------------------------------------------------------
(* The recursion behind SumFunctionOnSet.                                  *)

Pick(s) == CHOOSE x \in s : TRUE

\* One unfolding of the recursion, and the functions it has as solutions.
Unfold(f, g, s) == IF s = {} THEN 0 ELSE f[Pick(s)] + g[s \ {Pick(s)}]
SumsUp(g, f, S) == g = [s \in SUBSET S |-> Unfold(f, g, s)]

LEMMA PickIsIn == ASSUME NEW s, s # {} PROVE Pick(s) \in s
BY DEF Pick

\* The recursion has a solution on every finite set.
LEMMA SumsUpExists ==
    ASSUME NEW S, IsFiniteSet(S), NEW f
    PROVE  \E g : SumsUp(g, f, S)
<1> DEFINE Small(n) == {s \in SUBSET S : Cardinality(s) <= n}
<1> DEFINE H == {n \in Nat : \E g : g = [s \in Small(n) |-> Unfold(f, g, s)]}
<1>0. \A s \in SUBSET S : /\ IsFiniteSet(s) /\ Cardinality(s) \in Nat
                          /\ Cardinality(s) <= Cardinality(S)
    BY FS_Subset, FS_CardinalityType
<1>1. 0 \in H
  <2> DEFINE g == [s \in Small(0) |-> 0]
  <2>1. \A s \in Small(0) : s = {} BY <1>0, FS_EmptySet
  <2>2. g = [s \in Small(0) |-> Unfold(f, g, s)] BY <2>1 DEF Unfold
  <2> QED BY <2>2
<1>2. ASSUME NEW n \in Nat, n \in H PROVE n + 1 \in H
  <2>1. PICK h : h = [s \in Small(n) |-> Unfold(f, h, s)] BY <1>2
  <2> DEFINE g == [s \in Small(n + 1) |-> Unfold(f, h, s)]
  <2>2. ASSUME NEW s \in Small(n + 1) PROVE Unfold(f, h, s) = Unfold(f, g, s)
    <3>1. CASE s = {} BY <3>1 DEF Unfold
    <3>2. CASE s # {}
      <4> DEFINE t == s \ {Pick(s)}
      <4>1. Pick(s) \in s BY <3>2, PickIsIn
      <4>2. Cardinality(t) = Cardinality(s) - 1 BY <1>0, <4>1, FS_RemoveElement
      <4>3. t \in Small(n) /\ t \in Small(n + 1) BY <1>0, <4>2
      <4>4. h[t] = Unfold(f, h, t) BY <2>1, <4>3
      <4>5. g[t] = Unfold(f, h, t) BY <4>3
      <4> QED BY <3>2, <4>4, <4>5 DEF Unfold
    <3> QED BY <3>1, <3>2
  <2>3. g = [s \in Small(n + 1) |-> Unfold(f, g, s)] BY <2>2
  <2>4. \E k : k = [s \in Small(n + 1) |-> Unfold(f, k, s)]
    <3> HIDE DEF g
    <3> QED BY <2>3, Zenon
  <2>5. n + 1 \in Nat OBVIOUS
  <2> QED BY <2>4, <2>5, Zenon
<1>3. Nat \subseteq H
  <2> HIDE DEF H
  <2> QED BY <1>1, <1>2, AllNaturals
<1>4. Cardinality(S) \in Nat BY FS_CardinalityType
<1>5. Small(Cardinality(S)) = SUBSET S BY <1>0
<1> QED BY <1>3, <1>4, <1>5 DEF SumsUp

\* Its values are integers when the summed values are.
LEMMA SumsUpType ==
    ASSUME NEW S, IsFiniteSet(S), NEW f, \A x \in S : f[x] \in Int,
           NEW g, SumsUp(g, f, S)
    PROVE  \A s \in SUBSET S : g[s] \in Int
<1>0. \A s \in SUBSET S : g[s] = Unfold(f, g, s) BY DEF SumsUp
<1> DEFINE H == {n \in Nat : \A s \in SUBSET S : Cardinality(s) = n => g[s] \in Int}
<1>1. \A s \in SUBSET S : IsFiniteSet(s) /\ Cardinality(s) \in Nat
    BY FS_Subset, FS_CardinalityType
<1>2. 0 \in H
  <2>1. g[{}] = 0 BY <1>0 DEF Unfold
  <2> QED BY <1>1, <2>1, FS_EmptySet
<1>3. ASSUME NEW n \in Nat, n \in H PROVE n + 1 \in H
  <2> SUFFICES ASSUME NEW s \in SUBSET S, Cardinality(s) = n + 1 PROVE g[s] \in Int
      OBVIOUS
  <2>1. s # {}
    <3>1. n + 1 # 0 OBVIOUS
    <3> QED BY <3>1, FS_EmptySet, Zenon
  <2>2. Pick(s) \in s BY <2>1, PickIsIn
  <2>3. Cardinality(s \ {Pick(s)}) = n BY <1>1, <2>2, FS_RemoveElement
  <2>4. g[s \ {Pick(s)}] \in Int BY <1>3, <2>3
  <2>5. f[Pick(s)] \in Int BY <2>2
  <2> QED BY <1>0, <2>1, <2>4, <2>5 DEF Unfold
<1>4. Nat \subseteq H
  <2> HIDE DEF H
  <2> QED BY <1>2, <1>3, AllNaturals
<1> QED BY <1>1, <1>4

\* Two solutions agree wherever the summed values do.
LEMMA SumsUpAgree ==
    ASSUME NEW S, IsFiniteSet(S), NEW T \in SUBSET S, NEW f, NEW e,
           \A x \in T : f[x] = e[x],
           NEW g, SumsUp(g, f, S), NEW h, SumsUp(h, e, T)
    PROVE  \A s \in SUBSET T : g[s] = h[s]
<1>0. /\ \A s \in SUBSET S : g[s] = Unfold(f, g, s)
      /\ \A s \in SUBSET T : h[s] = Unfold(e, h, s)
    BY DEF SumsUp
<1> DEFINE H == {n \in Nat : \A s \in SUBSET T : Cardinality(s) = n => g[s] = h[s]}
<1>1. \A s \in SUBSET T : IsFiniteSet(s) /\ Cardinality(s) \in Nat
    BY FS_Subset, FS_CardinalityType
<1>2. 0 \in H
  <2>1. g[{}] = 0 /\ h[{}] = 0 BY <1>0 DEF Unfold
  <2> QED BY <1>1, <2>1, FS_EmptySet
<1>3. ASSUME NEW n \in Nat, n \in H PROVE n + 1 \in H
  <2> SUFFICES ASSUME NEW s \in SUBSET T, Cardinality(s) = n + 1 PROVE g[s] = h[s]
      OBVIOUS
  <2>1. s # {}
    <3>1. n + 1 # 0 OBVIOUS
    <3> QED BY <3>1, FS_EmptySet, Zenon
  <2>2. Pick(s) \in s BY <2>1, PickIsIn
  <2>3. Cardinality(s \ {Pick(s)}) = n BY <1>1, <2>2, FS_RemoveElement
  <2>4. g[s \ {Pick(s)}] = h[s \ {Pick(s)}] BY <1>3, <2>3
  <2>5. f[Pick(s)] = e[Pick(s)] BY <2>2
  <2> QED BY <1>0, <2>1, <2>4, <2>5 DEF Unfold
<1>4. Nat \subseteq H
  <2> HIDE DEF H
  <2> QED BY <1>2, <1>3, AllNaturals
<1> QED BY <1>1, <1>4

\* Any row may be taken first.
AnyOrder(g, f, S) == \A s \in SUBSET S : \A a \in s : g[s] = f[a] + g[s \ {a}]

LEMMA SumsUpAnyOrder ==
    ASSUME NEW S, IsFiniteSet(S), NEW f, \A x \in S : f[x] \in Int,
           NEW g, SumsUp(g, f, S)
    PROVE  AnyOrder(g, f, S)
<1> DEFINE P(s) == \A a \in s : g[s] = f[a] + g[s \ {a}]
<1>0. \A s \in SUBSET S : g[s] = Unfold(f, g, s) BY DEF SumsUp
<1> DEFINE H == {n \in Nat : \A s \in SUBSET S : Cardinality(s) = n => P(s)}
<1>1. \A s \in SUBSET S : IsFiniteSet(s) /\ Cardinality(s) \in Nat /\ g[s] \in Int
    BY FS_Subset, FS_CardinalityType, SumsUpType
<1>2. 0 \in H BY <1>1, FS_EmptySet
<1>3. ASSUME NEW n \in Nat, n \in H PROVE n + 1 \in H
  <2> SUFFICES ASSUME NEW s \in SUBSET S, Cardinality(s) = n + 1, NEW a \in s
               PROVE  g[s] = f[a] + g[s \ {a}]
      OBVIOUS
  <2> DEFINE x == Pick(s)
  <2>1. x \in s BY PickIsIn
  <2>2. g[s] = f[x] + g[s \ {x}] BY <1>0 DEF Unfold
  <2>3. CASE x = a BY <2>2, <2>3
  <2>4. CASE x # a
    <3> HIDE DEF x
    <3>0. ASSUME NEW y \in s PROVE Cardinality(s \ {y}) = n
      <4>1. IsFiniteSet(s) BY <1>1
      <4>2. Cardinality(s \ {y}) = Cardinality(s) - 1 BY <4>1, FS_RemoveElement
      <4> QED BY <4>2
    <3>1. Cardinality(s \ {x}) = n /\ Cardinality(s \ {a}) = n BY <2>1, <3>0
    <3>2. a \in s \ {x} /\ x \in s \ {a} BY <2>1, <2>4
    <3>3. g[s \ {x}] = f[a] + g[(s \ {x}) \ {a}] BY <1>3, <3>1, <3>2
    <3>4. g[s \ {a}] = f[x] + g[(s \ {a}) \ {x}] BY <1>3, <3>1, <3>2
    <3>5. (s \ {x}) \ {a} = (s \ {a}) \ {x} OBVIOUS
    <3>6. g[(s \ {x}) \ {a}] \in Int /\ f[a] \in Int /\ f[x] \in Int BY <1>1, <2>1
    <3>7. PICK r \in Int : r = g[(s \ {x}) \ {a}] BY <3>6
    <3>8. g[s \ {x}] = f[a] + r /\ g[s \ {a}] = f[x] + r BY <3>3, <3>4, <3>5, <3>7
    <3>9. f[x] + (f[a] + r) = f[a] + (f[x] + r) BY <3>6
    <3> QED BY <2>2, <3>8, <3>9
  <2> QED BY <2>3, <2>4
<1>4. Nat \subseteq H
  <2> HIDE DEF H
  <2> QED BY <1>2, <1>3, AllNaturals
<1> QED BY <1>1, <1>4 DEF AnyOrder

-----------------------------------------------------------------------------
(* The sums the invariants speak of.                                       *)

LEMMA SumUnfolds ==
    ASSUME NEW S, IsFiniteSet(S), NEW f
    PROVE  \E g : SumsUp(g, f, S) /\ SumFunctionOnSet(f, S) = g[S]
<1> DEFINE solution == CHOOSE g : SumsUp(g, f, S)
<1>1. SumFunctionOnSet(f, S) = solution[S]
    BY DEF SumFunctionOnSet, FoldFunctionOnSet, MapThenFoldSet, SumsUp, Unfold, Pick
<1>2. SumsUp(solution, f, S) BY SumsUpExists, Zenon
<1> QED BY <1>1, <1>2, Zenon

\* A sum depends on the summed rows only.
LEMMA SumAgrees ==
    ASSUME NEW S, IsFiniteSet(S), NEW f, NEW e, \A x \in S : f[x] = e[x]
    PROVE  SumFunctionOnSet(f, S) = SumFunctionOnSet(e, S)
<1>1. PICK g : SumsUp(g, f, S) /\ SumFunctionOnSet(f, S) = g[S] BY SumUnfolds
<1>2. PICK h : SumsUp(h, e, S) /\ SumFunctionOnSet(e, S) = h[S] BY SumUnfolds
<1>3. \A s \in SUBSET S : g[s] = h[s]
  <2>1. S \in SUBSET S OBVIOUS
  <2> QED BY <1>1, <1>2, <2>1, SumsUpAgree
<1> QED BY <1>1, <1>2, <1>3

LEMMA SumIsInt ==
    ASSUME NEW S, IsFiniteSet(S), NEW f, \A x \in S : f[x] \in Int
    PROVE  SumFunctionOnSet(f, S) \in Int
<1>1. PICK g : SumsUp(g, f, S) /\ SumFunctionOnSet(f, S) = g[S] BY SumUnfolds
<1>2. \A s \in SUBSET S : g[s] \in Int BY <1>1, SumsUpType
<1> QED BY <1>1, <1>2

LEMMA SumOfNothing == ASSUME NEW f PROVE SumFunctionOnSet(f, {}) = 0
<1>1. IsFiniteSet({}) BY FS_EmptySet
<1>2. PICK g : SumsUp(g, f, {}) /\ SumFunctionOnSet(f, {}) = g[{}] BY <1>1, SumUnfolds
<1> QED BY <1>2 DEF SumsUp, Unfold

\* One row of a sum, apart from the others.
LEMMA SumTakesOut ==
    ASSUME NEW S, IsFiniteSet(S), NEW f, \A x \in S : f[x] \in Int, NEW a \in S
    PROVE  SumFunctionOnSet(f, S) = f[a] + SumFunctionOnSet(f, S \ {a})
<1> DEFINE T == S \ {a}
<1>1. PICK g : SumsUp(g, f, S) /\ SumFunctionOnSet(f, S) = g[S] BY SumUnfolds
<1>2. IsFiniteSet(T) BY FS_RemoveElement
<1>3. PICK h : SumsUp(h, f, T) /\ SumFunctionOnSet(f, T) = h[T] BY <1>2, SumUnfolds
<1>4. \A s \in SUBSET T : g[s] = h[s]
  <2>1. T \in SUBSET S OBVIOUS
  <2> HIDE DEF T
  <2> QED BY <1>1, <1>3, <2>1, SumsUpAgree
<1>5. g[S] = f[a] + g[T]
  <2>1. AnyOrder(g, f, S) BY <1>1, SumsUpAnyOrder
  <2> QED BY <2>1 DEF AnyOrder
<1> QED BY <1>1, <1>3, <1>4, <1>5

\* A row is added.
LEMMA SumGrows ==
    ASSUME NEW S, IsFiniteSet(S), NEW a, a \notin S, NEW T, T = S \cup {a},
           NEW f, NEW e, NEW n \in Int,
           \A x \in S : f[x] \in Int, \A x \in S : e[x] = f[x], e[a] = n
    PROVE  SumFunctionOnSet(e, T) = SumFunctionOnSet(f, S) + n
<1>1. IsFiniteSet(T) BY FS_AddElement
<1>2. \A x \in T : e[x] \in Int OBVIOUS
<1>3. SumFunctionOnSet(e, T) = e[a] + SumFunctionOnSet(e, T \ {a})
  <2>1. a \in T OBVIOUS
  <2> QED BY <1>1, <1>2, <2>1, SumTakesOut
<1>4. T \ {a} = S OBVIOUS
<1>5. SumFunctionOnSet(e, S) = SumFunctionOnSet(f, S) BY SumAgrees
<1>6. PICK r \in Int : r = SumFunctionOnSet(f, S) BY SumIsInt
<1>7. SumFunctionOnSet(e, T) = e[a] + r BY <1>3, <1>4, <1>5, <1>6
<1>8. e[a] + r = r + e[a] OBVIOUS
<1> QED BY <1>6, <1>7, <1>8

\* The value of one row changes.
LEMMA SumMoves ==
    ASSUME NEW S, IsFiniteSet(S), NEW a \in S, NEW f, NEW e,
           \A x \in S : f[x] \in Int, NEW n \in Int, e[a] = f[a] + n,
           \A x \in S : x # a => e[x] = f[x]
    PROVE  SumFunctionOnSet(e, S) = SumFunctionOnSet(f, S) + n
<1> DEFINE T == S \ {a}
<1>1. IsFiniteSet(T) BY FS_RemoveElement
<1>2. SumFunctionOnSet(e, S) = e[a] + SumFunctionOnSet(e, T)
  <2>1. \A x \in S : e[x] \in Int OBVIOUS
  <2> QED BY <2>1, SumTakesOut
<1>3. SumFunctionOnSet(f, S) = f[a] + SumFunctionOnSet(f, T) BY SumTakesOut
<1>4. SumFunctionOnSet(e, T) = SumFunctionOnSet(f, T)
  <2>1. \A x \in T : e[x] = f[x] OBVIOUS
  <2> HIDE DEF T
  <2> QED BY <1>1, <2>1, SumAgrees
<1>5. SumFunctionOnSet(f, T) \in Int
  <2>1. \A x \in T : f[x] \in Int OBVIOUS
  <2> HIDE DEF T
  <2> QED BY <1>1, <2>1, SumIsInt
<1>6. PICK r \in Int : r = SumFunctionOnSet(f, T) BY <1>5
<1>7. e[a] + r = (f[a] + r) + n OBVIOUS
<1> QED BY <1>2, <1>3, <1>4, <1>6, <1>7

LEMMA SumIsNat ==
    ASSUME NEW S, IsFiniteSet(S), NEW f, \A x \in S : f[x] \in Nat
    PROVE  SumFunctionOnSet(f, S) \in Nat
<1> DEFINE H == {n \in Nat : \A s \in SUBSET S :
                     Cardinality(s) = n => SumFunctionOnSet(f, s) \in Nat}
<1>0. \A s \in SUBSET S : IsFiniteSet(s) /\ Cardinality(s) \in Nat
    BY FS_Subset, FS_CardinalityType
<1>1. 0 \in H BY <1>0, FS_EmptySet, SumOfNothing
<1>2. ASSUME NEW n \in Nat, n \in H PROVE n + 1 \in H
  <2> SUFFICES ASSUME NEW s \in SUBSET S, Cardinality(s) = n + 1
               PROVE  SumFunctionOnSet(f, s) \in Nat
      OBVIOUS
  <2>1. s # {}
    <3>1. n + 1 # 0 OBVIOUS
    <3> QED BY <3>1, FS_EmptySet, Zenon
  <2>2. PICK a : a \in s BY <2>1
  <2>3. IsFiniteSet(s) BY <1>0
  <2>4. Cardinality(s \ {a}) = n
    <3>1. Cardinality(s \ {a}) = Cardinality(s) - 1 BY <2>2, <2>3, FS_RemoveElement
    <3> QED BY <3>1
  <2>5. SumFunctionOnSet(f, s \ {a}) \in Nat BY <1>2, <2>4
  <2>6. \A x \in s : f[x] \in Int
    <3>1. \A x \in s : f[x] \in Nat OBVIOUS
    <3> QED BY <3>1
  <2>7. SumFunctionOnSet(f, s) = f[a] + SumFunctionOnSet(f, s \ {a})
      BY <2>2, <2>3, <2>6, SumTakesOut
  <2>8. f[a] \in Nat BY <2>2
  <2> QED BY <2>5, <2>7, <2>8
<1>3. Nat \subseteq H
  <2> HIDE DEF H
  <2> QED BY <1>1, <1>2, AllNaturals
<1> QED BY <1>0, <1>3

\* Rows of B correct rows of M, each at most one of them: what the rows of M
\* bring covers what the corrections take away.
LEMMA SumCovers ==
    ASSUME NEW M, IsFiniteSet(M), NEW B, IsFiniteSet(B),
           NEW f, \A x \in M : f[x] \in Nat,
           NEW key, \A b \in B : key[b] \in M,
           \A b, c \in B : key[b] = key[c] => b = c,
           NEW g, \A b \in B : g[b] \in Int /\ f[key[b]] + g[b] \in Nat
    PROVE  SumFunctionOnSet(f, M) + SumFunctionOnSet(g, B) \in Nat
<1> DEFINE P(N, C) == SumFunctionOnSet(f, N) + SumFunctionOnSet(g, C) \in Nat
<1> DEFINE H == {n \in Nat : \A N \in SUBSET M, C \in SUBSET B :
                     Cardinality(C) = n /\ (\A b \in C : key[b] \in N) => P(N, C)}
<1>0. /\ \A N \in SUBSET M : IsFiniteSet(N)
      /\ \A C \in SUBSET B : IsFiniteSet(C) /\ Cardinality(C) \in Nat
    BY FS_Subset, FS_CardinalityType
<1>1. 0 \in H
  <2> SUFFICES ASSUME NEW N \in SUBSET M, NEW C \in SUBSET B, Cardinality(C) = 0
               PROVE  P(N, C)
      OBVIOUS
  <2>1. C = {} BY <1>0, FS_EmptySet
  <2>2. SumFunctionOnSet(g, C) = 0 BY <2>1, SumOfNothing
  <2>3. \A x \in N : f[x] \in Nat OBVIOUS
  <2>4. SumFunctionOnSet(f, N) \in Nat BY <1>0, <2>3, SumIsNat
  <2> QED BY <2>2, <2>4
<1>2. ASSUME NEW n \in Nat, n \in H PROVE n + 1 \in H
  <2> SUFFICES ASSUME NEW N \in SUBSET M, NEW C \in SUBSET B,
                      Cardinality(C) = n + 1, \A b \in C : key[b] \in N
               PROVE  P(N, C)
      OBVIOUS
  <2>1. C # {}
    <3>1. n + 1 # 0 OBVIOUS
    <3> QED BY <3>1, FS_EmptySet, Zenon
  <2>2. PICK b : b \in C BY <2>1
  <2>3. PICK k : k = key[b] OBVIOUS
  <2>4. k \in N BY <2>2, <2>3
  <2>5. IsFiniteSet(N) /\ IsFiniteSet(C) BY <1>0
  <2>6. Cardinality(C \ {b}) = n
    <3>1. Cardinality(C \ {b}) = Cardinality(C) - 1 BY <2>2, <2>5, FS_RemoveElement
    <3> QED BY <3>1
  <2>7. \A c \in C \ {b} : key[c] \in N \ {k} BY <2>2, <2>3
  <2>8. P(N \ {k}, C \ {b})
    <3>1. N \ {k} \in SUBSET M /\ C \ {b} \in SUBSET B OBVIOUS
    <3> QED BY <1>2, <2>6, <2>7, <3>1
  <2>9. SumFunctionOnSet(f, N) = f[k] + SumFunctionOnSet(f, N \ {k})
    <3>1. \A x \in N : f[x] \in Nat OBVIOUS
    <3>2. \A x \in N : f[x] \in Int BY <3>1
    <3> QED BY <2>4, <2>5, <3>2, SumTakesOut
  <2>10. \A c \in C : g[c] \in Int OBVIOUS
  <2>11. SumFunctionOnSet(g, C) = g[b] + SumFunctionOnSet(g, C \ {b})
      BY <2>2, <2>5, <2>10, SumTakesOut
  <2>12. SumFunctionOnSet(f, N \ {k}) \in Int
    <3>1. \A x \in N \ {k} : f[x] \in Nat OBVIOUS
    <3>2. IsFiniteSet(N \ {k}) BY <2>5, FS_RemoveElement
    <3>3. SumFunctionOnSet(f, N \ {k}) \in Nat BY <3>1, <3>2, SumIsNat
    <3> QED BY <3>3
  <2>13. SumFunctionOnSet(g, C \ {b}) \in Int
    <3>1. \A c \in C \ {b} : g[c] \in Int OBVIOUS
    <3>2. IsFiniteSet(C \ {b}) BY <2>5, FS_RemoveElement
    <3> QED BY <3>1, <3>2, SumIsInt
  <2>14. PICK x \in Int, y \in Int : /\ x = SumFunctionOnSet(f, N \ {k})
                                     /\ y = SumFunctionOnSet(g, C \ {b})
      BY <2>12, <2>13
  <2>15. PICK p \in Nat, q \in Int : p = f[k] /\ q = g[b] BY <2>2, <2>3
  <2>16. p + q \in Nat /\ x + y \in Nat BY <2>2, <2>3, <2>8, <2>14, <2>15
  <2>17. (p + x) + (q + y) = (p + q) + (x + y) OBVIOUS
  <2>18. (p + x) + (q + y) \in Nat BY <2>16, <2>17
  <2> QED BY <2>9, <2>11, <2>14, <2>15, <2>18
<1>3. Nat \subseteq H
  <2> HIDE DEF H
  <2> QED BY <1>1, <1>2, AllNaturals
<1>4. Cardinality(B) \in Nat BY FS_CardinalityType
<1>5. M \in SUBSET M /\ B \in SUBSET B OBVIOUS
<1>6. P(M, B) BY <1>3, <1>4, <1>5
<1> QED BY <1>6

\* Counting is summing ones.
LEMMA SumOfConstant ==
    ASSUME NEW S, IsFiniteSet(S), NEW f, NEW c \in {0, 1}, \A x \in S : f[x] = c
    PROVE  SumFunctionOnSet(f, S) = c * Cardinality(S)
<1> DEFINE H == {n \in Nat : \A s \in SUBSET S :
                     Cardinality(s) = n => SumFunctionOnSet(f, s) = c * n}
<1>0. \A s \in SUBSET S : IsFiniteSet(s) /\ Cardinality(s) \in Nat
    BY FS_Subset, FS_CardinalityType
<1>1. 0 \in H
  <2> SUFFICES ASSUME NEW s \in SUBSET S, Cardinality(s) = 0 PROVE SumFunctionOnSet(f, s) = c * 0
      OBVIOUS
  <2>1. s = {} BY <1>0, FS_EmptySet
  <2>2. SumFunctionOnSet(f, s) = 0 BY <2>1, SumOfNothing
  <2>3. c * 0 = 0 OBVIOUS
  <2> QED BY <2>2, <2>3
<1>2. ASSUME NEW n \in Nat, n \in H PROVE n + 1 \in H
  <2> SUFFICES ASSUME NEW s \in SUBSET S, Cardinality(s) = n + 1
               PROVE  SumFunctionOnSet(f, s) = c * (n + 1)
      OBVIOUS
  <2>1. s # {}
    <3>1. n + 1 # 0 OBVIOUS
    <3> QED BY <3>1, FS_EmptySet, Zenon
  <2>2. PICK a : a \in s BY <2>1
  <2>3. IsFiniteSet(s) BY <1>0
  <2>4. Cardinality(s \ {a}) = n
    <3>1. Cardinality(s \ {a}) = Cardinality(s) - 1 BY <2>2, <2>3, FS_RemoveElement
    <3> QED BY <3>1
  <2>5. SumFunctionOnSet(f, s \ {a}) = c * n BY <1>2, <2>4
  <2>6. \A x \in s : f[x] \in Int OBVIOUS
  <2>7. SumFunctionOnSet(f, s) = f[a] + SumFunctionOnSet(f, s \ {a})
      BY <2>2, <2>3, <2>6, SumTakesOut
  <2>8. f[a] = c BY <2>2
  <2>9. c + c * n = c * (n + 1) OBVIOUS
  <2> QED BY <2>5, <2>7, <2>8, <2>9
<1>3. Nat \subseteq H
  <2> HIDE DEF H
  <2> QED BY <1>1, <1>2, AllNaturals
<1> QED BY <1>0, <1>3

\* A sum taken group by group, whatever the groups are.
LEMMA SumByKey ==
    ASSUME NEW S, IsFiniteSet(S), NEW f, \A x \in S : f[x] \in Int,
           NEW K, IsFiniteSet(K), NEW key, \A x \in S : key[x] \in K
    PROVE  SumFunctionOnSet([k \in K |-> SumFunctionOnSet(f, {x \in S : key[x] = k})], K)
             = SumFunctionOnSet(f, S)
<1> DEFINE part(s, k) == {x \in s : key[x] = k}
           h(s) == [k \in K |-> SumFunctionOnSet(f, part(s, k))]
           H == {n \in Nat : \A s \in SUBSET S :
                   Cardinality(s) = n => SumFunctionOnSet(h(s), K) = SumFunctionOnSet(f, s)}
<1>0. \A s \in SUBSET S : IsFiniteSet(s) /\ Cardinality(s) \in Nat
    BY FS_Subset, FS_CardinalityType
<1>a. ASSUME NEW s \in SUBSET S, NEW k \in K
      PROVE  part(s, k) \in SUBSET S /\ IsFiniteSet(part(s, k)) /\ SumFunctionOnSet(f, part(s, k)) \in Int
  <2>1. part(s, k) \in SUBSET S OBVIOUS
  <2>2. \A x \in part(s, k) : f[x] \in Int OBVIOUS
  <2> HIDE DEF part
  <2> QED BY <1>0, <2>1, <2>2, SumIsInt
<1>1. 0 \in H
  <2> SUFFICES ASSUME NEW s \in SUBSET S, Cardinality(s) = 0
               PROVE  SumFunctionOnSet(h(s), K) = SumFunctionOnSet(f, s)
      OBVIOUS
  <2>1. s = {} BY <1>0, FS_EmptySet
  <2>2. \A k \in K : part(s, k) = {} BY <2>1
  <2>3. \A k \in K : h(s)[k] = 0
    <3> HIDE DEF part
    <3> QED BY <2>2, SumOfNothing
  <2> HIDE DEF h
  <2>4. SumFunctionOnSet(h(s), K) = 0 * Cardinality(K) BY <2>3, SumOfConstant
  <2>5. Cardinality(K) \in Nat BY FS_CardinalityType
  <2> QED BY <2>1, <2>4, <2>5, SumOfNothing
<1>2. ASSUME NEW n \in Nat, n \in H PROVE n + 1 \in H
  <2> SUFFICES ASSUME NEW s \in SUBSET S, Cardinality(s) = n + 1
               PROVE  SumFunctionOnSet(h(s), K) = SumFunctionOnSet(f, s)
      OBVIOUS
  <2>1. s # {}
    <3>1. n + 1 # 0 OBVIOUS
    <3> QED BY <3>1, FS_EmptySet, Zenon
  <2>2. PICK a : a \in s BY <2>1
  <2>3. IsFiniteSet(s) BY <1>0
  <2> DEFINE r == s \ {a}
  <2>4. Cardinality(r) = n
    <3>1. Cardinality(s \ {a}) = Cardinality(s) - 1 BY <2>2, <2>3, FS_RemoveElement
    <3> QED BY <3>1
  <2>5. SumFunctionOnSet(h(r), K) = SumFunctionOnSet(f, r) /\ r \in SUBSET S
    <3> HIDE DEF h
    <3> QED BY <1>2, <2>4
  <2>6. \A x \in s : f[x] \in Int OBVIOUS
  <2>7. SumFunctionOnSet(f, s) = f[a] + SumFunctionOnSet(f, r)
      BY <2>2, <2>3, <2>6, SumTakesOut
  <2>8. key[a] \in K /\ f[a] \in Int BY <2>2
  <2>9. \A k \in K : k # key[a] => part(s, k) = part(r, k) OBVIOUS
  <2>10. part(r, key[a]) = part(s, key[a]) \ {a} /\ a \in part(s, key[a]) BY <2>2
  <2>11. \A x \in part(s, key[a]) : f[x] \in Int OBVIOUS
  <2> HIDE DEF part, r
  <2>12. SumFunctionOnSet(f, part(s, key[a])) = f[a] + SumFunctionOnSet(f, part(r, key[a]))
    BY <1>a, <2>8, <2>10, <2>11, SumTakesOut
  <2>13. \A k \in K : h(r)[k] \in Int BY <1>a, <2>5
  <2>14. h(s)[key[a]] = h(r)[key[a]] + f[a] BY <1>a, <2>5, <2>8, <2>12
  <2>15. \A k \in K : k # key[a] => h(s)[k] = h(r)[k] BY <2>9
  <2> HIDE DEF h
  <2>16. SumFunctionOnSet(h(s), K) = SumFunctionOnSet(h(r), K) + f[a]
    BY <2>8, <2>13, <2>14, <2>15, SumMoves
  <2>17. SumFunctionOnSet(f, r) \in Int BY <1>0, <2>5, SumIsInt
  <2> QED BY <2>5, <2>7, <2>8, <2>16, <2>17
<1>3. Nat \subseteq H
  <2> HIDE DEF H
  <2> QED BY <1>1, <1>2, AllNaturals
<1>4. S \in SUBSET S OBVIOUS
<1>5. SumFunctionOnSet(h(S), K) = SumFunctionOnSet(f, S)
  <2> HIDE DEF h
  <2> QED BY <1>0, <1>3, <1>4
<1> QED BY <1>5
=============================================================================
