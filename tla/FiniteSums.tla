----------------------------- MODULE FiniteSums -----------------------------
(***************************************************************************)
(* Induction over the naturals, least and greatest elements, and finite    *)
(* sums: the facts about Min, Max and SumFunction the proofs of the other  *)
(* modules rest on.  The library's induction theorems have an operator as  *)
(* parameter; here the induction hypothesis is a set of naturals.          *)
(***************************************************************************)
EXTENDS Integers, FiniteSets, FiniteSetsExt, Functions, FiniteSetTheorems,
        WellFoundedInduction, TLAPS

\* A set of naturals that is not empty has a least element.
LEMMA LeastNat ==
    ASSUME NEW S \in SUBSET Nat, S # {}
    PROVE  \E x \in S : \A y \in S : x <= y
<1> DEFINE R == {p \in Nat \X Nat : p[1] < p[2]}
<1>1. IsWellFoundedOn(R, Nat)
  BY NatLessThanWellFounded DEF OpToRel
<1> HIDE DEF R
<1>2. PICK x \in S : \A y \in S : ~(<<y, x>> \in R)
  BY <1>1, WFMin
<1>3. \A y \in S : ~(y < x)
  BY <1>2 DEF R
<1> QED BY <1>3

\* Induction: a set that holds 0 and the successor of each natural it holds
\* holds every natural.
LEMMA SetInduction ==
    ASSUME NEW S, 0 \in S, \A n \in Nat : n \in S => n + 1 \in S
    PROVE  \A n \in Nat : n \in S
<1> SUFFICES ASSUME Nat \ S # {} PROVE FALSE
  OBVIOUS
<1>1. PICK x \in Nat \ S : \A y \in Nat \ S : x <= y
  BY LeastNat
<1>2. x # 0
  OBVIOUS
<1>3. x - 1 \in Nat /\ ~(x <= x - 1)
  BY <1>2
<1>4. x - 1 \in S
  BY <1>1, <1>3
<1>5. (x - 1) + 1 \in S
  BY <1>3, <1>4
<1> QED BY <1>5

\* What Min returns on a set of naturals.
LEMMA MinNat ==
    ASSUME NEW S \in SUBSET Nat, S # {}
    PROVE  Min(S) \in S /\ \A y \in S : Min(S) <= y
BY LeastNat DEF Min

\* One element less.
LEMMA OneLess ==
    ASSUME NEW S, IsFiniteSet(S), NEW x \in S, NEW n \in Nat, Cardinality(S) = n + 1
    PROVE  IsFiniteSet(S \ {x}) /\ Cardinality(S \ {x}) = n
<1>1. IsFiniteSet(S \ {x}) /\ Cardinality(S \ {x}) = Cardinality(S) - 1
  BY FS_RemoveElement
<1> QED BY <1>1

\* A finite set of naturals that is not empty has a greatest element.
LEMMA GreatestNat ==
    ASSUME NEW S \in SUBSET Nat, S # {}, IsFiniteSet(S)
    PROVE  \E x \in S : \A y \in S : y <= x
<1> DEFINE P == {n \in Nat : \A T \in SUBSET Nat :
                    IsFiniteSet(T) /\ Cardinality(T) = n /\ T # {}
                        => \E x \in T : \A y \in T : y <= x}
<1>1. 0 \in P
  BY FS_EmptySet
<1>2. ASSUME NEW n \in Nat, n \in P PROVE n + 1 \in P
  <2> SUFFICES ASSUME NEW T \in SUBSET Nat, IsFiniteSet(T), Cardinality(T) = n + 1, T # {}
               PROVE  \E x \in T : \A y \in T : y <= x
    OBVIOUS
  <2>1. PICK a \in T : TRUE
    OBVIOUS
  <2> DEFINE U == T \ {a}
  <2>2. IsFiniteSet(U) /\ Cardinality(U) = n
    BY OneLess
  <2>3. CASE U = {}
    BY <2>3
  <2>4. CASE U # {}
    <3>1. PICK b \in U : \A y \in U : y <= b
      BY <1>2, <2>2, <2>4
    <3>2. CASE a <= b
      BY <3>1, <3>2
    <3>3. CASE b <= a
      BY <3>1, <3>3
    <3> QED BY <3>2, <3>3
  <2> QED BY <2>3, <2>4
<1>3. \A n \in Nat : n \in P
  <2> HIDE DEF P
  <2> QED BY <1>1, <1>2, SetInduction
<1> QED BY <1>3, FS_CardinalityType

---------------------------------------------------------------------------
\* The element a sum takes next, and the table of the sums of f over the sets
\* in D, each computed from the sum over one element less.
PickOf(s) == CHOOSE x \in s : TRUE
SumTable(g, f, D) ==
    g = [s \in D |-> IF s = {} THEN 0 ELSE f[PickOf(s)] + g[s \ {PickOf(s)}]]

LEMMA PickIn == ASSUME NEW s, s # {} PROVE PickOf(s) \in s
BY DEF PickOf

\* SumFunctionOnSet is read off such a table over all subsets.
LEMMA SumIsTable ==
    ASSUME NEW f, NEW S
    PROVE  SumFunctionOnSet(f, S) = (CHOOSE g : SumTable(g, f, SUBSET S))[S]
BY DEF SumFunctionOnSet, FoldFunctionOnSet, MapThenFoldSet, SumTable, PickOf

\* Over a finite set the table exists.
LEMMA SumTableExists ==
    ASSUME NEW f, NEW S, IsFiniteSet(S)
    PROVE  \E g : SumTable(g, f, SUBSET S)
<1> DEFINE D(n) == {s \in SUBSET S : Cardinality(s) <= n}
           P == {n \in Nat : \E g : SumTable(g, f, D(n))}
<1>0. \A s \in SUBSET S : IsFiniteSet(s) /\ Cardinality(s) \in Nat
  BY FS_Subset, FS_CardinalityType
<1>1. 0 \in P
  <2>1. \A s \in D(0) : s = {}
    BY <1>0, FS_EmptySet
  <2> DEFINE g == [s \in D(0) |-> 0]
  <2> HIDE DEF D
  <2>2. SumTable(g, f, D(0))
    BY <2>1 DEF SumTable
  <2> QED BY <2>2
<1>2. ASSUME NEW n \in Nat, n \in P PROVE n + 1 \in P
  <2>1. PICK g : SumTable(g, f, D(n))
    BY <1>2
  <2> DEFINE h == [s \in D(n + 1) |-> IF s = {} THEN 0 ELSE f[PickOf(s)] + g[s \ {PickOf(s)}]]
  <2>2. \A s \in D(n + 1) : s # {} => s \ {PickOf(s)} \in D(n) /\ s \ {PickOf(s)} \in D(n + 1)
    <3> SUFFICES ASSUME NEW s \in D(n + 1), s # {}
                 PROVE  s \ {PickOf(s)} \in D(n) /\ s \ {PickOf(s)} \in D(n + 1)
      OBVIOUS
    <3>1. PickOf(s) \in s
      BY PickIn
    <3>2. Cardinality(s \ {PickOf(s)}) = Cardinality(s) - 1
      BY <1>0, <3>1, FS_RemoveElement
    <3> QED BY <1>0, <3>2
  <2>3. D(n) \subseteq D(n + 1)
    BY <1>0
  <2> HIDE DEF D
  <2>4. \A s \in D(n) : h[s] = g[s]
    BY <2>1, <2>3 DEF SumTable
  <2>5. \A s \in D(n + 1) : h[s] = IF s = {} THEN 0 ELSE f[PickOf(s)] + h[s \ {PickOf(s)}]
    <3> HIDE DEF h
    <3>1. \A s \in D(n + 1) : h[s] = IF s = {} THEN 0 ELSE f[PickOf(s)] + g[s \ {PickOf(s)}]
      BY DEF h
    <3> QED BY <2>2, <2>4, <3>1
  <2>6. h = [s \in D(n + 1) |-> h[s]]
    OBVIOUS
  <2> HIDE DEF h
  <2>7. SumTable(h, f, D(n + 1))
    BY <2>5, <2>6 DEF SumTable
  <2> QED BY <2>7
<1>3. \A n \in Nat : n \in P
  <2> HIDE DEF P
  <2> QED BY <1>1, <1>2, SetInduction
<1>4. D(Cardinality(S)) = SUBSET S
  BY <1>0, FS_Subset
<1>5. Cardinality(S) \in Nat
  BY FS_CardinalityType
<1> QED BY <1>3, <1>4, <1>5

\* Tables over larger sets agree with those over smaller ones.
LEMMA SumTablesAgree ==
    ASSUME NEW f, NEW S, IsFiniteSet(S), NEW T \in SUBSET S, NEW g, NEW h,
           SumTable(g, f, SUBSET S), SumTable(h, f, SUBSET T)
    PROVE  \A s \in SUBSET T : g[s] = h[s]
<1> DEFINE P == {n \in Nat : \A s \in SUBSET T : Cardinality(s) = n => g[s] = h[s]}
<1>0. \A s \in SUBSET T : IsFiniteSet(s) /\ Cardinality(s) \in Nat
  BY FS_Subset, FS_CardinalityType
<1>a. \A s \in SUBSET T :
         /\ g[s] = IF s = {} THEN 0 ELSE f[PickOf(s)] + g[s \ {PickOf(s)}]
         /\ h[s] = IF s = {} THEN 0 ELSE f[PickOf(s)] + h[s \ {PickOf(s)}]
  BY DEF SumTable
<1>1. 0 \in P
  <2> SUFFICES ASSUME NEW s \in SUBSET T, Cardinality(s) = 0 PROVE g[s] = h[s]
    OBVIOUS
  <2>1. s = {}
    BY <1>0, FS_EmptySet
  <2> QED BY <1>a, <2>1
<1>2. ASSUME NEW n \in Nat, n \in P PROVE n + 1 \in P
  <2> SUFFICES ASSUME NEW s \in SUBSET T, Cardinality(s) = n + 1 PROVE g[s] = h[s]
    OBVIOUS
  <2>1. s # {}
    BY FS_EmptySet
  <2>2. PickOf(s) \in s
    BY <2>1, PickIn
  <2>3. Cardinality(s \ {PickOf(s)}) = n
    BY <1>0, <2>2, OneLess
  <2>4. g[s \ {PickOf(s)}] = h[s \ {PickOf(s)}]
    BY <1>2, <2>3
  <2> QED BY <1>a, <2>1, <2>4
<1>3. \A n \in Nat : n \in P
  <2> HIDE DEF P
  <2> QED BY <1>1, <1>2, SetInduction
<1> QED BY <1>0, <1>3

\* The equation of a finite sum: nothing over the empty set, otherwise one
\* element and the sum over the rest.
LEMMA SumUnfolds ==
    ASSUME NEW f, NEW S, IsFiniteSet(S)
    PROVE  SumFunctionOnSet(f, S) =
              IF S = {} THEN 0
              ELSE f[PickOf(S)] + SumFunctionOnSet(f, S \ {PickOf(S)})
<1> DEFINE U == S \ {PickOf(S)}
           g == CHOOSE x : SumTable(x, f, SUBSET S)
           h == CHOOSE x : SumTable(x, f, SUBSET U)
<1>1. IsFiniteSet(U) /\ U \in SUBSET S
  BY FS_RemoveElement
<1>2. SumTable(g, f, SUBSET S)
  BY SumTableExists
<1>3. SumTable(h, f, SUBSET U)
  BY <1>1, SumTableExists
<1>4. SumFunctionOnSet(f, S) = g[S] /\ SumFunctionOnSet(f, U) = h[U]
  BY SumIsTable
<1> HIDE DEF g, h
<1>5. g[U] = h[U]
  <2> HIDE DEF U
  <2>1. \A s \in SUBSET U : g[s] = h[s]
    BY <1>1, <1>2, <1>3, SumTablesAgree
  <2> QED BY <2>1
<1>6. g[S] = IF S = {} THEN 0 ELSE f[PickOf(S)] + g[U]
  BY <1>2 DEF SumTable
<1> QED BY <1>4, <1>5, <1>6

\* A finite sum of integers is an integer, of naturals a natural.
LEMMA SumType ==
    ASSUME NEW f, NEW S, IsFiniteSet(S)
    PROVE  /\ (\A i \in S : f[i] \in Int) => SumFunctionOnSet(f, S) \in Int
           /\ (\A i \in S : f[i] \in Nat) => SumFunctionOnSet(f, S) \in Nat
<1> DEFINE Z(A) == SumFunctionOnSet(f, A)
           Q(A) == /\ (\A i \in A : f[i] \in Int) => Z(A) \in Int
                   /\ (\A i \in A : f[i] \in Nat) => Z(A) \in Nat
           P == {n \in Nat : \A T : IsFiniteSet(T) /\ Cardinality(T) = n => Q(T)}
<1>1. 0 \in P
  <2> SUFFICES ASSUME NEW T, IsFiniteSet(T), Cardinality(T) = 0 PROVE Q(T)
    OBVIOUS
  <2>1. Z(T) = 0
    BY FS_EmptySet, SumUnfolds
  <2> QED BY <2>1
<1>2. ASSUME NEW n \in Nat, n \in P PROVE n + 1 \in P
  <2> SUFFICES ASSUME NEW T, IsFiniteSet(T), Cardinality(T) = n + 1 PROVE Q(T)
    OBVIOUS
  <2> DEFINE p == PickOf(T)
             U == T \ {p}
  <2>1. T # {}
    BY FS_EmptySet
  <2>2. p \in T
    BY <2>1, PickIn
  <2>3. Z(T) = f[p] + Z(U)
    BY <2>1, SumUnfolds
  <2>4. IsFiniteSet(U) /\ Cardinality(U) = n
    BY <2>2, OneLess
  <2> HIDE DEF p, Z
  <2>5. Q(U)
    BY <1>2, <2>4
  <2> QED BY <2>2, <2>3, <2>5
<1>3. \A n \in Nat : n \in P
  <2> HIDE DEF P
  <2> QED BY <1>1, <1>2, SetInduction
<1>4. Cardinality(S) \in Nat
  BY FS_CardinalityType
<1> QED BY <1>3, <1>4

\* The elements of a finite sum may be taken in any order.
LEMMA SumTakes ==
    ASSUME NEW f, NEW S, IsFiniteSet(S), \A i \in S : f[i] \in Int, NEW x \in S
    PROVE  SumFunctionOnSet(f, S) = f[x] + SumFunctionOnSet(f, S \ {x})
<1> DEFINE P == {n \in Nat : \A T : IsFiniteSet(T) /\ Cardinality(T) = n /\ (\A i \in T : f[i] \in Int)
                    => /\ SumFunctionOnSet(f, T) \in Int
                       /\ \A y \in T : SumFunctionOnSet(f, T) = f[y] + SumFunctionOnSet(f, T \ {y})}
<1>1. 0 \in P
  <2> SUFFICES ASSUME NEW T, IsFiniteSet(T), Cardinality(T) = 0
               PROVE  /\ SumFunctionOnSet(f, T) \in Int
                      /\ \A y \in T : SumFunctionOnSet(f, T) = f[y] + SumFunctionOnSet(f, T \ {y})
    OBVIOUS
  <2>1. T = {}
    BY FS_EmptySet
  <2>2. SumFunctionOnSet(f, T) = 0
    BY <2>1, SumUnfolds
  <2> QED BY <2>1, <2>2
<1>2. ASSUME NEW n \in Nat, n \in P PROVE n + 1 \in P
  <2> SUFFICES ASSUME NEW T, IsFiniteSet(T), Cardinality(T) = n + 1, \A i \in T : f[i] \in Int
               PROVE  /\ SumFunctionOnSet(f, T) \in Int
                      /\ \A y \in T : SumFunctionOnSet(f, T) = f[y] + SumFunctionOnSet(f, T \ {y})
    OBVIOUS
  <2> DEFINE p == PickOf(T)
             Z(A) == SumFunctionOnSet(f, A)
  <2>0. T # {}
    BY FS_EmptySet
  <2>1. p \in T
    BY <2>0, PickIn
  <2>2. Z(T) = f[p] + Z(T \ {p})
    BY <2>0, SumUnfolds
  <2>3. \A y \in T : IsFiniteSet(T \ {y}) /\ Cardinality(T \ {y}) = n
    BY OneLess
  <2>4. \A A : IsFiniteSet(A) /\ Cardinality(A) = n /\ (\A i \in A : f[i] \in Int)
           => Z(A) \in Int /\ \A y \in A : Z(A) = f[y] + Z(A \ {y})
    BY <1>2
  <2>5. \A y \in T : Z(T \ {y}) \in Int /\ \A z \in T \ {y} : Z(T \ {y}) = f[z] + Z((T \ {y}) \ {z})
    BY <2>3, <2>4
  <2> HIDE DEF Z, p, P
  <2>6. ASSUME NEW y \in T PROVE Z(T) = f[y] + Z(T \ {y})
    <3>1. CASE y = p
      BY <2>2, <3>1
    <3>2. CASE y # p
      <4>1. Z(T \ {p}) = f[y] + Z((T \ {p}) \ {y})
        BY <2>1, <2>5, <3>2
      <4>2. Z(T \ {y}) = f[p] + Z((T \ {y}) \ {p})
        BY <2>1, <2>5, <3>2
      <4>3. (T \ {p}) \ {y} = (T \ {y}) \ {p}
        OBVIOUS
      <4>4. IsFiniteSet((T \ {y}) \ {p})
        BY <2>3, FS_RemoveElement
      <4>5. Z((T \ {y}) \ {p}) \in Int
        BY <4>4, SumType DEF Z
      <4>6. f[p] \in Int /\ f[y] \in Int
        BY <2>1
      <4>7. Z((T \ {p}) \ {y}) = Z((T \ {y}) \ {p})
        BY <4>3
      <4>8. \A a, b, c \in Int : a + (b + c) = b + (a + c)
        OBVIOUS
      <4>9. Z(T) = f[p] + (f[y] + Z((T \ {y}) \ {p}))
        BY <2>2, <4>1, <4>7
      <4>10. Z(T) = f[y] + (f[p] + Z((T \ {y}) \ {p}))
        BY <4>5, <4>6, <4>8, <4>9
      <4> QED BY <4>2, <4>10
    <3> QED BY <3>1, <3>2
  <2>7. Z(T) \in Int
    BY <2>1, <2>2, <2>5
  <2> QED BY <2>6, <2>7 DEF Z
<1>3. \A n \in Nat : n \in P
  <2> HIDE DEF P
  <2> QED BY <1>1, <1>2, SetInduction
<1>4. Cardinality(S) \in Nat
  BY FS_CardinalityType
<1> QED BY <1>3, <1>4

\* Functions that agree on a finite set have the same sum over it.
LEMMA SumAgrees ==
    ASSUME NEW f, NEW g, NEW S, IsFiniteSet(S), \A i \in S : f[i] = g[i]
    PROVE  SumFunctionOnSet(f, S) = SumFunctionOnSet(g, S)
<1> DEFINE Q(A) == SumFunctionOnSet(f, A) = SumFunctionOnSet(g, A)
           P == {n \in Nat : \A T \in SUBSET S : IsFiniteSet(T) /\ Cardinality(T) = n => Q(T)}
<1>1. 0 \in P
  <2> SUFFICES ASSUME NEW T \in SUBSET S, IsFiniteSet(T), Cardinality(T) = 0 PROVE Q(T)
    OBVIOUS
  <2>1. SumFunctionOnSet(f, T) = 0 /\ SumFunctionOnSet(g, T) = 0
    BY FS_EmptySet, SumUnfolds
  <2> QED BY <2>1
<1>2. ASSUME NEW n \in Nat, n \in P PROVE n + 1 \in P
  <2> SUFFICES ASSUME NEW T \in SUBSET S, IsFiniteSet(T), Cardinality(T) = n + 1 PROVE Q(T)
    OBVIOUS
  <2> DEFINE p == PickOf(T)
             U == T \ {p}
  <2>1. T # {}
    BY FS_EmptySet
  <2>2. p \in T
    BY <2>1, PickIn
  <2>3. /\ SumFunctionOnSet(f, T) = f[p] + SumFunctionOnSet(f, U)
        /\ SumFunctionOnSet(g, T) = g[p] + SumFunctionOnSet(g, U)
    BY <2>1, SumUnfolds
  <2>4. IsFiniteSet(U) /\ Cardinality(U) = n /\ U \in SUBSET S
    BY <2>2, OneLess
  <2> HIDE DEF p
  <2>5. Q(U)
    BY <1>2, <2>4
  <2> QED BY <2>2, <2>3, <2>5
<1>3. \A n \in Nat : n \in P
  <2> HIDE DEF P
  <2> QED BY <1>1, <1>2, SetInduction
<1>4. Cardinality(S) \in Nat
  BY FS_CardinalityType
<1> QED BY <1>3, <1>4

\* A sum of zeros is zero.
LEMMA SumZero ==
    ASSUME NEW f, NEW S, IsFiniteSet(S), \A i \in S : f[i] = 0
    PROVE  SumFunctionOnSet(f, S) = 0
<1> DEFINE Q(A) == SumFunctionOnSet(f, A) = 0
           P == {n \in Nat : \A T \in SUBSET S : IsFiniteSet(T) /\ Cardinality(T) = n => Q(T)}
<1>1. 0 \in P
  <2> SUFFICES ASSUME NEW T \in SUBSET S, IsFiniteSet(T), Cardinality(T) = 0 PROVE Q(T)
    OBVIOUS
  <2> QED BY FS_EmptySet, SumUnfolds
<1>2. ASSUME NEW n \in Nat, n \in P PROVE n + 1 \in P
  <2> SUFFICES ASSUME NEW T \in SUBSET S, IsFiniteSet(T), Cardinality(T) = n + 1 PROVE Q(T)
    OBVIOUS
  <2> DEFINE p == PickOf(T)
             U == T \ {p}
  <2>1. T # {}
    BY FS_EmptySet
  <2>2. p \in T
    BY <2>1, PickIn
  <2>3. SumFunctionOnSet(f, T) = f[p] + SumFunctionOnSet(f, U)
    BY <2>1, SumUnfolds
  <2>4. IsFiniteSet(U) /\ Cardinality(U) = n /\ U \in SUBSET S
    BY <2>2, OneLess
  <2> HIDE DEF p
  <2>5. Q(U)
    BY <1>2, <2>4
  <2> QED BY <2>2, <2>3, <2>5
<1>3. \A n \in Nat : n \in P
  <2> HIDE DEF P
  <2> QED BY <1>1, <1>2, SetInduction
<1>4. Cardinality(S) \in Nat
  BY FS_CardinalityType
<1> QED BY <1>3, <1>4

\* Changing one value changes a finite sum by the difference.
LEMMA SumUpdate ==
    ASSUME NEW S, IsFiniteSet(S), NEW f, NEW g, \A i \in S : f[i] \in Int /\ g[i] \in Int,
           NEW x \in S, \A i \in S \ {x} : g[i] = f[i]
    PROVE  /\ SumFunctionOnSet(f, S) \in Int
           /\ SumFunctionOnSet(g, S) = SumFunctionOnSet(f, S) - f[x] + g[x]
<1> DEFINE A == SumFunctionOnSet(f, S)
           B == SumFunctionOnSet(g, S)
           C == SumFunctionOnSet(f, S \ {x})
<1>1. IsFiniteSet(S \ {x})
  BY FS_RemoveElement
<1>2. SumFunctionOnSet(g, S \ {x}) = C
  BY <1>1, SumAgrees
<1>3. A = f[x] + C
  BY SumTakes
<1>4. B = g[x] + C
  BY <1>2, SumTakes
<1>5. A \in Int /\ C \in Int
  BY <1>1, SumType
<1> HIDE DEF A, B, C
<1>6. f[x] \in Int /\ g[x] \in Int
  OBVIOUS
<1>7. A \in Int /\ B = A - f[x] + g[x]
  BY <1>3, <1>4, <1>5, <1>6
<1> QED BY <1>7 DEF A, B

\* One index more adds its value to a finite sum.
LEMMA SumExtend ==
    ASSUME NEW T, IsFiniteSet(T), NEW x \in T, NEW f, NEW g, \A i \in T : g[i] \in Int,
           \A i \in T \ {x} : g[i] = f[i]
    PROVE  /\ SumFunctionOnSet(f, T \ {x}) \in Int
           /\ SumFunctionOnSet(g, T) = SumFunctionOnSet(f, T \ {x}) + g[x]
<1> DEFINE S == T \ {x}
           A == SumFunctionOnSet(f, S)
           B == SumFunctionOnSet(g, T)
<1>1. IsFiniteSet(S)
  BY FS_RemoveElement
<1>2. SumFunctionOnSet(g, S) = A
  BY <1>1, SumAgrees
<1>3. B = g[x] + SumFunctionOnSet(g, S)
  BY SumTakes
<1>4. A \in Int
  BY <1>1, SumType
<1>5. B = g[x] + A
  BY <1>2, <1>3
<1> HIDE DEF A, B
<1>6. A \in Int /\ B = A + g[x]
  BY <1>4, <1>5
<1> QED BY <1>6 DEF A, B
=============================================================================
