-------------------------------- MODULE Sums --------------------------------
(***************************************************************************)
(* Sums over finite sets: what MapThenSumSet of the community modules      *)
(* computes, for every finite set.  Its definition is a recursive function *)
(* that takes the elements in an arbitrary order; the facts below are      *)
(* proved by induction over the number of elements, and the induction from *)
(* the well-foundedness of < on the naturals.                              *)
(***************************************************************************)
EXTENDS Integers, FiniteSets, FiniteSetsExt, FiniteSetTheorems, TLAPS

\* The sum of f over S.
Total(f, S) == MapThenSumSet(LAMBDA x : f[x], S)

Some(S) == CHOOSE x \in S : TRUE

\* g is the sum of f for each set of the family.
Sums(g, f, family) ==
    g = [s \in family |-> IF s = {} THEN 0 ELSE f[Some(s)] + g[s \ {Some(s)}]]

\* Numbers that include each one whose predecessors they include are all numbers.
LEMMA Induction ==
  ASSUME NEW Q \in SUBSET Nat,
         \A n \in Nat : (\A m \in Nat : m < n => m \in Q) => n \in Q
  PROVE  Q = Nat
<1> DEFINE rest == Nat \ Q
<1>1. SUFFICES ASSUME rest # {} PROVE FALSE
  OBVIOUS
<1>2. PICK n \in rest : \A m \in rest : ~(<<m, n>> \in OpToRel(<, Nat))
  BY <1>1, NatLessThanWellFounded, WFMin
<1>3. \A m \in Nat : m < n => m \in Q
  <2>1. ASSUME NEW m \in Nat, m < n, m \notin Q PROVE FALSE
    <3>1. <<m, n>> \in Nat \X Nat /\ <<m, n>>[1] < <<m, n>>[2]
      BY <1>2, <2>1
    <3>2. QED
      BY <1>2, <2>1, <3>1 DEF OpToRel
  <2>2. QED
    BY <2>1
<1>4. QED
  BY <1>2, <1>3

\* Taking the chosen element away leaves one element less.
LEMMA SomeRemoved ==
  ASSUME NEW S, IsFiniteSet(S), S # {}
  PROVE  /\ Some(S) \in S
         /\ IsFiniteSet(S \ {Some(S)})
         /\ Cardinality(S) \in Nat /\ Cardinality(S \ {Some(S)}) = Cardinality(S) - 1
         /\ Cardinality(S \ {Some(S)}) \in Nat
<1>1. Some(S) \in S
  BY DEF Some
<1>2. QED
  BY <1>1, FS_RemoveElement, FS_CardinalityType

\* Sets of at most n elements, of S.
Small(S, n) == {s \in SUBSET S : IsFiniteSet(s) /\ Cardinality(s) <= n}

\* There is such a function for the sets of at most n elements.
LEMMA SumsExistUpTo ==
  ASSUME NEW f, NEW S, NEW n \in Nat
  PROVE  \E g : Sums(g, f, Small(S, n))
<1> DEFINE Q == {k \in Nat : \E g : Sums(g, f, Small(S, k))}
<1>1. ASSUME NEW k \in Nat, \A m \in Nat : m < k => m \in Q
      PROVE  k \in Q
  <2>1. PICK g : k # 0 => Sums(g, f, Small(S, k - 1))
    BY <1>1
  <2> DEFINE h == [s \in Small(S, k) |-> IF s = {} THEN 0 ELSE f[Some(s)] + g[s \ {Some(s)}]]
  <2>2. ASSUME NEW s \in Small(S, k), s # {}
        PROVE  s \ {Some(s)} \in Small(S, k - 1) /\ s \ {Some(s)} \in Small(S, k) /\ k # 0
    <3>1. s \in SUBSET S /\ IsFiniteSet(s) /\ Cardinality(s) <= k
      BY <2>2 DEF Small
    <3>2. /\ IsFiniteSet(s \ {Some(s)}) /\ Cardinality(s) \in Nat
          /\ Cardinality(s \ {Some(s)}) = Cardinality(s) - 1
          /\ Cardinality(s \ {Some(s)}) \in Nat
      BY <2>2, <3>1, SomeRemoved
    <3>3. Cardinality(s \ {Some(s)}) <= k - 1 /\ Cardinality(s \ {Some(s)}) <= k /\ k # 0
      BY <1>1, <3>1, <3>2
    <3>4. s \ {Some(s)} \in SUBSET S
      BY <3>1
    <3>5. QED
      BY <3>2, <3>3, <3>4 DEF Small
  <2>3. ASSUME NEW s \in Small(S, k), NEW r \in Small(S, k - 1), r \in Small(S, k), k # 0
        PROVE  h[r] = g[r]
    BY <2>1, <2>3 DEF Sums
  <2>4. \A s \in Small(S, k) : s # {} => h[s \ {Some(s)}] = g[s \ {Some(s)}]
    BY <2>2, <2>3
  <2>5. Sums(h, f, Small(S, k))
    BY <2>4 DEF Sums
  <2>6. QED
    BY <2>5
<1>2. Q = Nat
  <2> HIDE DEF Q
  <2>1. Q \in SUBSET Nat
    BY DEF Q
  <2>2. QED
    BY <1>1, <2>1, Induction
<1>3. QED
  BY <1>2

\* There is one for all subsets of a finite set.
LEMMA SumsExist ==
  ASSUME NEW f, NEW S, IsFiniteSet(S)
  PROVE  \E g : Sums(g, f, SUBSET S)
<1>1. Cardinality(S) \in Nat
  BY FS_CardinalityType
<1>2. Small(S, Cardinality(S)) = SUBSET S
  BY FS_Subset DEF Small
<1>3. \E g : Sums(g, f, Small(S, Cardinality(S)))
  BY <1>1, SumsExistUpTo
<1>4. QED
  BY <1>2, <1>3

\* Two of them agree where both are defined.
LEMMA SumsAgree ==
  ASSUME NEW f, NEW S, NEW T, NEW g, NEW h,
         Sums(g, f, SUBSET S), Sums(h, f, SUBSET T),
         NEW s \in SUBSET S, s \in SUBSET T, IsFiniteSet(s)
  PROVE  g[s] = h[s]
<1> DEFINE Q == {k \in Nat : \A r \in SUBSET S :
                    r \in SUBSET T /\ IsFiniteSet(r) /\ Cardinality(r) = k => g[r] = h[r]}
<1>1. ASSUME NEW k \in Nat, \A m \in Nat : m < k => m \in Q
      PROVE  k \in Q
  <2>1. SUFFICES ASSUME NEW r \in SUBSET S, r \in SUBSET T, IsFiniteSet(r), Cardinality(r) = k
                 PROVE  g[r] = h[r]
    OBVIOUS
  <2>2. CASE r = {}
    BY <2>1, <2>2 DEF Sums
  <2>3. CASE r # {}
    <3> DEFINE rest == r \ {Some(r)}
    <3>1. /\ rest \in SUBSET S /\ rest \in SUBSET T /\ IsFiniteSet(rest)
          /\ Cardinality(rest) \in Nat /\ Cardinality(rest) < k
      <4>1. IsFiniteSet(r) /\ r # {} /\ Cardinality(r) = k
        BY <2>1, <2>3
      <4>2. IsFiniteSet(rest) /\ Cardinality(rest) \in Nat /\ Cardinality(rest) = k - 1
        BY <4>1, SomeRemoved
      <4>3. QED
        BY <2>1, <4>2
    <3>2. g[rest] = h[rest]
      BY <1>1, <3>1
    <3>3. g[r] = f[Some(r)] + g[rest] /\ h[r] = f[Some(r)] + h[rest]
      BY <2>1, <2>3 DEF Sums
    <3>4. QED
      BY <3>2, <3>3
  <2>4. QED
    BY <2>2, <2>3
<1>2. Q = Nat
  <2>1. Q \in SUBSET Nat
    OBVIOUS
  <2> HIDE DEF Q
  <2>2. QED
    BY <1>1, <2>1, Induction
<1>3. QED
  BY <1>2, FS_CardinalityType

\* What the definition of the community modules computes.
LEMMA TotalIsSum ==
  ASSUME NEW f, NEW S, IsFiniteSet(S)
  PROVE  \E g : Sums(g, f, SUBSET S) /\ Total(f, S) = g[S]
<1> DEFINE iter == CHOOSE g : Sums(g, f, SUBSET S)
<1>1. Sums(iter, f, SUBSET S)
  BY SumsExist
<1>2. Total(f, S) = iter[S]
  BY DEF Total, MapThenSumSet, MapThenFoldSet, Sums, Some
<1>3. QED
  BY <1>1, <1>2

\* Nothing sums up to 0.
LEMMA TotalOfNone ==
  ASSUME NEW f
  PROVE  Total(f, {}) = 0
<1>1. PICK g : Sums(g, f, SUBSET {}) /\ Total(f, {}) = g[{}]
  BY TotalIsSum, FS_EmptySet
<1>2. QED
  BY <1>1 DEF Sums

\* A sum is the chosen element and the sum of the rest.
LEMMA TotalUnfolds ==
  ASSUME NEW f, NEW S, IsFiniteSet(S), S # {}
  PROVE  Total(f, S) = f[Some(S)] + Total(f, S \ {Some(S)})
<1> DEFINE rest == S \ {Some(S)}
<1>1. PICK g : Sums(g, f, SUBSET S) /\ Total(f, S) = g[S]
  BY TotalIsSum
<1>2. IsFiniteSet(rest)
  BY SomeRemoved
<1>3. PICK h : Sums(h, f, SUBSET rest) /\ Total(f, rest) = h[rest]
  BY <1>2, TotalIsSum
<1>4. g[rest] = h[rest]
  <2>1. rest \in SUBSET S /\ rest \in SUBSET rest
    OBVIOUS
  <2> HIDE DEF rest
  <2>2. QED
    BY <1>1, <1>2, <1>3, <2>1, SumsAgree
<1>5. g[S] = f[Some(S)] + g[rest]
  BY <1>1 DEF Sums
<1>6. QED
  BY <1>1, <1>3, <1>4, <1>5

\* The integers f takes on S sum up to an integer.
LEMMA TotalType ==
  ASSUME NEW f, NEW S, IsFiniteSet(S), \A x \in S : f[x] \in Int
  PROVE  Total(f, S) \in Int
<1> DEFINE Q == {k \in Nat : \A T \in SUBSET S :
                    IsFiniteSet(T) /\ Cardinality(T) = k => Total(f, T) \in Int}
<1>1. ASSUME NEW k \in Nat, \A m \in Nat : m < k => m \in Q
      PROVE  k \in Q
  <2>1. SUFFICES ASSUME NEW T \in SUBSET S, IsFiniteSet(T), Cardinality(T) = k
                 PROVE  Total(f, T) \in Int
    OBVIOUS
  <2>2. CASE T = {}
    BY <2>2, TotalOfNone
  <2>3. CASE T # {}
    <3> DEFINE rest == T \ {Some(T)}
    <3>1. /\ Some(T) \in T /\ IsFiniteSet(rest)
          /\ Cardinality(rest) \in Nat /\ Cardinality(rest) = k - 1
      BY <2>1, <2>3, SomeRemoved
    <3>2. Total(f, T) = f[Some(T)] + Total(f, rest)
      BY <2>1, <2>3, TotalUnfolds
    <3>3. rest \in SUBSET S /\ Cardinality(rest) < k
      BY <2>1, <3>1
    <3> HIDE DEF rest
    <3>4. Total(f, rest) \in Int
      BY <1>1, <3>1, <3>3
    <3>5. f[Some(T)] \in Int
      BY <2>1, <3>1
    <3>6. QED
      BY <3>2, <3>4, <3>5
  <2>4. QED
    BY <2>2, <2>3
<1>2. Q = Nat
  <2>1. Q \in SUBSET Nat
    OBVIOUS
  <2> HIDE DEF Q
  <2>2. QED
    BY <1>1, <2>1, Induction
<1>3. Cardinality(S) \in Q
  BY <1>2, FS_CardinalityType
<1>4. QED
  BY <1>3

\* Any element may be taken out first.
LEMMA TotalRemoves ==
  ASSUME NEW f, NEW S, IsFiniteSet(S), \A y \in S : f[y] \in Int, NEW x \in S
  PROVE  Total(f, S) = f[x] + Total(f, S \ {x})
<1> DEFINE Q == {k \in Nat : \A T \in SUBSET S :
                    IsFiniteSet(T) /\ Cardinality(T) = k =>
                        \A e \in T : Total(f, T) = f[e] + Total(f, T \ {e})}
<1>1. ASSUME NEW k \in Nat, \A m \in Nat : m < k => m \in Q
      PROVE  k \in Q
  <2>1. SUFFICES ASSUME NEW T \in SUBSET S, IsFiniteSet(T), Cardinality(T) = k, NEW e \in T
                 PROVE  Total(f, T) = f[e] + Total(f, T \ {e})
    OBVIOUS
  <2> DEFINE c == Some(T)
  <2>2. /\ c \in T /\ IsFiniteSet(T \ {c})
        /\ Cardinality(T \ {c}) \in Nat /\ Cardinality(T \ {c}) = k - 1
    BY <2>1, SomeRemoved
  <2>3. Total(f, T) = f[c] + Total(f, T \ {c})
    BY <2>1, TotalUnfolds
  <2> HIDE DEF c
  <2>4. CASE e = c
    BY <2>3, <2>4
  <2>5. CASE e # c
    <3> DEFINE T1 == T \ {e}
               T2 == T \ {c}
               T12 == T2 \ {e}
    <3>1. /\ IsFiniteSet(T1) /\ IsFiniteSet(T2) /\ IsFiniteSet(T12)
          /\ Cardinality(T1) \in Nat /\ Cardinality(T1) = k - 1
      BY <2>1, <2>2, FS_RemoveElement, FS_CardinalityType
    <3>2. /\ T1 \in SUBSET S /\ T2 \in SUBSET S /\ T12 \in SUBSET S
          /\ T1 \ {c} = T12 /\ e \in T2 /\ c \in T1
      BY <2>1, <2>2, <2>5
    <3>3. Cardinality(T1) < k /\ Cardinality(T2) < k
      BY <2>2, <3>1
    <3>4. Total(f, T2) = f[e] + Total(f, T2 \ {e})
      <4> HIDE DEF T1, T2, T12
      <4>1. Cardinality(T2) \in Q
        BY <1>1, <2>2, <3>3 DEF T2
      <4>2. QED
        BY <3>1, <3>2, <4>1
    <3>5. Total(f, T1) = f[c] + Total(f, T1 \ {c})
      <4> HIDE DEF T1, T2, T12
      <4>1. Cardinality(T1) \in Q
        BY <1>1, <3>1, <3>3
      <4>2. QED
        BY <3>1, <3>2, <4>1
    <3>6. \A y \in T12 : f[y] \in Int
      BY <3>2
    <3>7. Total(f, T12) \in Int
      <4> HIDE DEF T12
      <4>1. QED
        BY <3>1, <3>6, TotalType
    <3>8. f[e] \in Int /\ f[c] \in Int
      BY <2>1, <2>2
    <3>9. Total(f, T1) = f[c] + Total(f, T12)
      BY <3>2, <3>5
    <3>10. Total(f, T2) = f[e] + Total(f, T12)
      BY <3>4
    <3>11. Total(f, T) = f[c] + Total(f, T2)
      BY <2>3
    <3> HIDE DEF T1, T2, T12
    <3>12. Total(f, T) = f[e] + Total(f, T1)
      BY <3>7, <3>8, <3>9, <3>10, <3>11
    <3>13. QED
      BY <3>12 DEF T1
  <2>6. QED
    BY <2>4, <2>5
<1>2. Q = Nat
  <2>1. Q \in SUBSET Nat
    OBVIOUS
  <2> HIDE DEF Q
  <2>2. QED
    BY <1>1, <2>1, Induction
<1>3. Cardinality(S) \in Q
  BY <1>2, FS_CardinalityType
<1>4. QED
  BY <1>3

\* An element that was not there adds what it is worth.
LEMMA TotalAdds ==
  ASSUME NEW f, NEW S, IsFiniteSet(S), NEW x, x \notin S, \A y \in S \cup {x} : f[y] \in Int
  PROVE  Total(f, S \cup {x}) = f[x] + Total(f, S)
<1> DEFINE T == S \cup {x}
<1>1. IsFiniteSet(T)
  BY FS_AddElement
<1>2. x \in T /\ T \ {x} = S
  OBVIOUS
<1> HIDE DEF T
<1>3. \A y \in T : f[y] \in Int
  BY DEF T
<1>4. QED
  BY <1>1, <1>2, <1>3, TotalRemoves DEF T

\* Functions that agree on a set have the same sum there.
LEMMA TotalSame ==
  ASSUME NEW f, NEW h, NEW S, IsFiniteSet(S), \A x \in S : f[x] = h[x]
  PROVE  Total(f, S) = Total(h, S)
<1> DEFINE Q == {k \in Nat : \A T \in SUBSET S :
                    IsFiniteSet(T) /\ Cardinality(T) = k => Total(f, T) = Total(h, T)}
<1>1. ASSUME NEW k \in Nat, \A m \in Nat : m < k => m \in Q
      PROVE  k \in Q
  <2>1. SUFFICES ASSUME NEW T \in SUBSET S, IsFiniteSet(T), Cardinality(T) = k
                 PROVE  Total(f, T) = Total(h, T)
    OBVIOUS
  <2>2. CASE T = {}
    BY <2>2, TotalOfNone
  <2>3. CASE T # {}
    <3> DEFINE rest == T \ {Some(T)}
    <3>1. /\ Some(T) \in T /\ IsFiniteSet(rest)
          /\ Cardinality(rest) \in Nat /\ Cardinality(rest) = k - 1
      BY <2>1, <2>3, SomeRemoved
    <3>2. Total(f, T) = f[Some(T)] + Total(f, rest)
      BY <2>1, <2>3, TotalUnfolds
    <3>3. Total(h, T) = h[Some(T)] + Total(h, rest)
      BY <2>1, <2>3, TotalUnfolds
    <3>4. rest \in SUBSET S /\ Cardinality(rest) < k
      BY <2>1, <3>1
    <3> HIDE DEF rest
    <3>5. Total(f, rest) = Total(h, rest)
      BY <1>1, <3>1, <3>4
    <3>6. f[Some(T)] = h[Some(T)]
      BY <2>1, <3>1
    <3>7. QED
      BY <3>2, <3>3, <3>5, <3>6
  <2>4. QED
    BY <2>2, <2>3
<1>2. Q = Nat
  <2>1. Q \in SUBSET Nat
    OBVIOUS
  <2> HIDE DEF Q
  <2>2. QED
    BY <1>1, <2>1, Induction
<1>3. Cardinality(S) \in Q
  BY <1>2, FS_CardinalityType
<1>4. QED
  BY <1>3

\* Functions that agree but at one element differ there, in value and in sum, by the same.
LEMMA TotalChanges ==
  ASSUME NEW f, NEW h, NEW S, IsFiniteSet(S), NEW x \in S,
         \A y \in S : f[y] \in Int /\ h[y] \in Int,
         \A y \in S \ {x} : f[y] = h[y]
  PROVE  /\ Total(f, S) \in Int /\ Total(h, S) \in Int
         /\ Total(h, S) - Total(f, S) = h[x] - f[x]
<1> DEFINE rest == S \ {x}
<1>1. IsFiniteSet(rest)
  BY FS_RemoveElement
<1>2. Total(f, S) = f[x] + Total(f, rest)
  BY TotalRemoves
<1>3. Total(h, S) = h[x] + Total(h, rest)
  BY TotalRemoves
<1>4. \A y \in rest : f[y] \in Int /\ f[y] = h[y]
  OBVIOUS
<1> HIDE DEF rest
<1>5. Total(f, rest) = Total(h, rest)
  BY <1>1, <1>4, TotalSame
<1>6. Total(f, rest) \in Int
  BY <1>1, <1>4, TotalType
<1>7. QED
  BY <1>2, <1>3, <1>5, <1>6

\* Functions that agree but for one more at one element.
LEMMA TotalOneMore ==
  ASSUME NEW f, NEW h, NEW S, IsFiniteSet(S), NEW x \in S,
         \A y \in S : f[y] \in Int /\ h[y] \in Int,
         \A y \in S \ {x} : f[y] = h[y],
         h[x] = f[x] + 1
  PROVE  Total(h, S) = Total(f, S) + 1
<1>1. /\ Total(f, S) \in Int /\ Total(h, S) \in Int
      /\ Total(h, S) - Total(f, S) = h[x] - f[x]
  BY TotalChanges
<1>2. f[x] \in Int
  OBVIOUS
<1>3. h[x] - f[x] = 1
  BY <1>2
<1>4. QED
  BY <1>1, <1>3

\* Zeros sum up to 0.
LEMMA TotalOfZeros ==
  ASSUME NEW f, NEW S, IsFiniteSet(S), \A x \in S : f[x] = 0
  PROVE  Total(f, S) = 0
<1> DEFINE Q == {k \in Nat : \A T \in SUBSET S :
                    IsFiniteSet(T) /\ Cardinality(T) = k => Total(f, T) = 0}
<1>1. ASSUME NEW k \in Nat, \A m \in Nat : m < k => m \in Q
      PROVE  k \in Q
  <2>1. SUFFICES ASSUME NEW T \in SUBSET S, IsFiniteSet(T), Cardinality(T) = k
                 PROVE  Total(f, T) = 0
    OBVIOUS
  <2>2. CASE T = {}
    BY <2>2, TotalOfNone
  <2>3. CASE T # {}
    <3> DEFINE rest == T \ {Some(T)}
    <3>1. /\ Some(T) \in T /\ IsFiniteSet(rest)
          /\ Cardinality(rest) \in Nat /\ Cardinality(rest) = k - 1
      BY <2>1, <2>3, SomeRemoved
    <3>2. Total(f, T) = f[Some(T)] + Total(f, rest)
      BY <2>1, <2>3, TotalUnfolds
    <3>3. rest \in SUBSET S /\ Cardinality(rest) < k
      BY <2>1, <3>1
    <3> HIDE DEF rest
    <3>4. Total(f, rest) = 0
      BY <1>1, <3>1, <3>3
    <3>5. f[Some(T)] = 0
      BY <2>1, <3>1
    <3>6. QED
      BY <3>2, <3>4, <3>5
  <2>4. QED
    BY <2>2, <2>3
<1>2. Q = Nat
  <2>1. Q \in SUBSET Nat
    OBVIOUS
  <2> HIDE DEF Q
  <2>2. QED
    BY <1>1, <2>1, Induction
<1>3. Cardinality(S) \in Q
  BY <1>2, FS_CardinalityType
<1>4. QED
  BY <1>3

\* What is not negative makes no sum smaller.
LEMMA TotalOfSubset ==
  ASSUME NEW f, NEW S, IsFiniteSet(S), \A x \in S : f[x] \in Nat, NEW T \in SUBSET S
  PROVE  Total(f, T) \in Nat /\ Total(f, S) \in Nat /\ Total(f, T) <= Total(f, S)
<1> DEFINE Q == {k \in Nat : \A A \in SUBSET S, B \in SUBSET S :
                    /\ A \subseteq B /\ Cardinality(B \ A) = k
                    => Total(f, A) <= Total(f, B)}
<1>1. ASSUME NEW A \in SUBSET S
      PROVE  IsFiniteSet(A) /\ Total(f, A) \in Int /\ \A x \in A : f[x] \in Int /\ f[x] >= 0
  <2>1. IsFiniteSet(A) /\ \A x \in A : f[x] \in Int /\ f[x] >= 0
    BY FS_Subset
  <2>2. QED
    BY <2>1, TotalType
<1>2. ASSUME NEW k \in Nat, \A m \in Nat : m < k => m \in Q
      PROVE  k \in Q
  <2>1. SUFFICES ASSUME NEW A \in SUBSET S, NEW B \in SUBSET S, A \subseteq B, Cardinality(B \ A) = k
                 PROVE  Total(f, A) <= Total(f, B)
    OBVIOUS
  <2>2. CASE B = A
    BY <1>1, <2>2
  <2>3. CASE B # A
    <3>1. PICK x \in B : x \notin A
      BY <2>1, <2>3
    <3> DEFINE C == B \ {x}
    <3>2. C \in SUBSET S /\ A \subseteq C /\ C \ A = (B \ A) \ {x} /\ x \in B \ A
      BY <2>1, <3>1
    <3>3. IsFiniteSet(B \ A) /\ B \ A \in SUBSET S
      <4>1. B \ A \in SUBSET S
        OBVIOUS
      <4>2. QED
        BY <1>1, <4>1
    <3>4. Cardinality(C \ A) = k - 1 /\ Cardinality(C \ A) \in Nat
      <4>1. IsFiniteSet(C \ A) /\ Cardinality((B \ A) \ {x}) = Cardinality(B \ A) - 1
        BY <3>2, <3>3, FS_RemoveElement
      <4>2. QED
        BY <2>1, <3>2, <4>1, FS_CardinalityType
    <3>5. Total(f, B) = f[x] + Total(f, C)
      BY <1>1, TotalRemoves
    <3> HIDE DEF C
    <3>6. Total(f, A) <= Total(f, C)
      <4>1. Cardinality(C \ A) \in Q
        <5> HIDE DEF Q
        <5>1. Cardinality(C \ A) < k
          BY <3>4
        <5>2. QED
          BY <1>2, <3>4, <5>1
      <4>2. QED
        BY <3>2, <4>1
    <3>7. Total(f, A) \in Int /\ Total(f, C) \in Int /\ f[x] \in Int /\ f[x] >= 0
      BY <1>1, <3>2
    <3>8. QED
      BY <3>5, <3>6, <3>7
  <2>4. QED
    BY <2>2, <2>3
<1>3. Q = Nat
  <2>1. Q \in SUBSET Nat
    OBVIOUS
  <2> HIDE DEF Q
  <2>2. QED
    BY <1>2, <2>1, Induction
<1>4. ASSUME NEW A \in SUBSET S, NEW B \in SUBSET S, A \subseteq B
      PROVE  Total(f, A) <= Total(f, B)
  <2>1. B \ A \in SUBSET S
    OBVIOUS
  <2>2. Cardinality(B \ A) \in Q
    BY <1>1, <1>3, <2>1, FS_CardinalityType
  <2>3. QED
    BY <1>4, <2>2
<1>5. Total(f, {}) <= Total(f, T) /\ Total(f, T) <= Total(f, S) /\ Total(f, {}) = 0
  BY <1>4, TotalOfNone
<1>6. QED
  BY <1>1, <1>5

=============================================================================
