-------------------------------- MODULE Sums --------------------------------
(***************************************************************************)
(* Sums over finite sets and along sequences, for the proofs: what         *)
(* SumFunctionOnSet, a fold by a recursive function, computes.             *)
(***************************************************************************)
EXTENDS Integers, Sequences, FiniteSets, Functions, FiniteSetTheorems, SequenceTheorems,
        WellFoundedInduction, TLAPS

----------------------------------------------------------------------------
(* Induction, over the members of a set: the first-order form of it *)

\* A set of naturals that is not empty has a least element.
LEMMA LeastNatural ==
  ASSUME NEW U \in SUBSET Nat, U # {}
  PROVE  \E m \in U : \A n \in U : ~(n < m)
<1> DEFINE R == OpToRel(<, Nat)
<1>1. \A x, y \in Nat : <<x, y>> \in R <=> x < y
  BY DEF OpToRel
<1>2. \E m \in U : \A n \in U : ~(<<n, m>> \in R)
  BY NatLessThanWellFounded, WFMin
<1> HIDE DEF R
<1> QED
  BY <1>1, <1>2

\* Induction on the naturals over a set, for which no operator is a parameter.
LEMMA NaturalsIn ==
  ASSUME NEW X, 0 \in X, \A n \in Nat : n \in X => n + 1 \in X
  PROVE  \A n \in Nat : n \in X
<1> DEFINE U == {n \in Nat : n \notin X}
<1>1. SUFFICES ASSUME U # {} PROVE FALSE
  OBVIOUS
<1>2. PICK m \in U : \A n \in U : ~(n < m)
  BY <1>1, LeastNatural
<1>3. m \in Nat \ {0} /\ m \notin X
  OBVIOUS
<1>4. m - 1 \in Nat /\ m - 1 < m /\ (m - 1) + 1 = m
  BY <1>3
<1>5. m - 1 \in X
  BY <1>2, <1>4
<1> QED
  BY <1>3, <1>4, <1>5

\* A property that passes to a set from the sets with one member less holds of
\* every subset of a finite set.
LEMMA SubsetsIn ==
  ASSUME NEW T, IsFiniteSet(T), NEW X, {} \in X,
         \A s \in SUBSET T : s # {} /\ (\A x \in s : s \ {x} \in X) => s \in X
  PROVE  \A s \in SUBSET T : s \in X
<1> DEFINE Y == {n \in Nat : \A s \in SUBSET T : Cardinality(s) = n => s \in X}
<1>1. \A s \in SUBSET T : IsFiniteSet(s) /\ Cardinality(s) \in Nat
  BY FS_Subset, FS_CardinalityType
<1>2. 0 \in Y
  BY <1>1, FS_EmptySet
<1>3. ASSUME NEW n \in Nat, n \in Y PROVE n + 1 \in Y
  <2> SUFFICES ASSUME NEW s \in SUBSET T, Cardinality(s) = n + 1 PROVE s \in X
    OBVIOUS
  <2>1. s # {}
    BY <1>1, FS_EmptySet
  <2>2. ASSUME NEW x \in s PROVE s \ {x} \in X
    <3>1. Cardinality(s \ {x}) = n /\ s \ {x} \in SUBSET T
      BY <1>1, FS_RemoveElement
    <3> QED
      BY <3>1, <1>3
  <2> QED
    BY <2>1, <2>2
<1> HIDE DEF Y
<1>4. \A n \in Nat : n \in Y
  BY <1>2, <1>3, NaturalsIn
<1> QED
  BY <1>1, <1>4 DEF Y

----------------------------------------------------------------------------
(* The fold that SumFunctionOnSet is *)

Chosen(s) == CHOOSE x \in s : TRUE

Unfolded(g, f, s) == IF s = {} THEN 0 ELSE f[Chosen(s)] + g[s \ {Chosen(s)}]

IsFold(g, f, S) == g = [s \in SUBSET S |-> Unfolded(g, f, s)]

\* The sum of the community modules is the value at S of a fold that CHOOSE picks.
LEMMA SumIsChosen ==
  ASSUME NEW f, NEW S
  PROVE  SumFunctionOnSet(f, S) = (CHOOSE g : IsFold(g, f, S))[S]
BY DEF SumFunctionOnSet, FoldFunctionOnSet, MapThenFoldSet, IsFold, Unfolded, Chosen

\* The element a fold takes off next is one of the set.
LEMMA ChosenIn == \A s : s # {} => Chosen(s) \in s
BY DEF Chosen

\* Over a finite set there is a fold: it is built one element at a time.
LEMMA FoldExists ==
  ASSUME NEW f, NEW S, IsFiniteSet(S)
  PROVE  \E g : IsFold(g, f, S)
<1> DEFINE X == {n \in Nat : \E g : \A s \in SUBSET S :
                               Cardinality(s) <= n => g[s] = Unfolded(g, f, s)}
<1>1. \A s \in SUBSET S : IsFiniteSet(s) /\ Cardinality(s) \in Nat
  BY FS_Subset, FS_CardinalityType
<1>2. \A s \in SUBSET S : s # {} =>
        s \ {Chosen(s)} \in SUBSET S /\ Cardinality(s \ {Chosen(s)}) = Cardinality(s) - 1
  BY <1>1, ChosenIn, FS_RemoveElement
<1>3. 0 \in X
  <2> DEFINE g == [s \in SUBSET S |-> 0]
  <2>1. \A s \in SUBSET S : Cardinality(s) <= 0 => s = {}
    BY <1>1, FS_EmptySet
  <2>2. \A s \in SUBSET S : Cardinality(s) <= 0 => g[s] = Unfolded(g, f, s)
    BY <2>1 DEF Unfolded
  <2> HIDE DEF g
  <2> QED
    BY <2>2
<1>4. ASSUME NEW n \in Nat, n \in X PROVE n + 1 \in X
  <2>1. PICK g : \A s \in SUBSET S : Cardinality(s) <= n => g[s] = Unfolded(g, f, s)
    BY <1>4
  <2> DEFINE h == [s \in SUBSET S |-> Unfolded(g, f, s)]
  <2>2. \A s \in SUBSET S : h[s] = Unfolded(g, f, s)
    OBVIOUS
  <2> HIDE DEF h
  <2>3. ASSUME NEW s \in SUBSET S, Cardinality(s) <= n + 1 PROVE h[s] = Unfolded(h, f, s)
    <3>1. CASE s = {}
      BY <3>1, <2>2 DEF Unfolded
    <3>2. CASE s # {}
      <4> DEFINE t == s \ {Chosen(s)}
      <4>1. t \in SUBSET S /\ Cardinality(t) <= n
        BY <3>2, <1>1, <1>2, <2>3
      <4> HIDE DEF t
      <4>2. g[t] = h[t]
        BY <4>1, <2>1, <2>2
      <4> QED
        BY <3>2, <4>2, <2>2 DEF Unfolded, t
    <3> QED
      BY <3>1, <3>2
  <2> QED
    BY <2>3
<1> HIDE DEF X
<1>5. Cardinality(S) \in X
  BY <1>1, <1>3, <1>4, NaturalsIn
<1>6. PICK g : \A s \in SUBSET S : Cardinality(s) <= Cardinality(S) => g[s] = Unfolded(g, f, s)
  BY <1>5 DEF X
<1> DEFINE h == [s \in SUBSET S |-> g[s]]
<1>7. ASSUME NEW s \in SUBSET S PROVE h[s] = Unfolded(h, f, s)
  <2>1. Cardinality(s) <= Cardinality(S)
    BY FS_Subset
  <2>2. s # {} => h[s \ {Chosen(s)}] = g[s \ {Chosen(s)}]
    BY <1>2
  <2> QED
    BY <2>1, <2>2, <1>6 DEF Unfolded
<1>8. IsFold(h, f, S)
  <2> HIDE DEF h
  <2>1. h = [s \in SUBSET S |-> h[s]]
    BY DEF h
  <2> QED
    BY <2>1, <1>7 DEF IsFold
<1> QED
  BY <1>8

\* Two folds agree wherever both are defined, so the choice does not matter.
LEMMA FoldUnique ==
  ASSUME NEW f, NEW S, IsFiniteSet(S), NEW T, NEW g, IsFold(g, f, S), NEW h, IsFold(h, f, T)
  PROVE  \A s \in SUBSET S : s \in SUBSET T => g[s] = h[s]
<1> DEFINE X == {s \in SUBSET S : s \in SUBSET T => g[s] = h[s]}
<1>1. /\ \A s \in SUBSET S : g[s] = Unfolded(g, f, s)
      /\ \A s \in SUBSET T : h[s] = Unfolded(h, f, s)
  BY DEF IsFold
<1>2. {} \in X
  BY <1>1 DEF Unfolded
<1>3. ASSUME NEW s \in SUBSET S, s # {}, \A x \in s : s \ {x} \in X PROVE s \in X
  <2> SUFFICES ASSUME s \in SUBSET T PROVE g[s] = h[s]
    OBVIOUS
  <2>1. g[s \ {Chosen(s)}] = h[s \ {Chosen(s)}]
    BY <1>3, ChosenIn
  <2> QED
    BY <2>1, <1>1, <1>3 DEF Unfolded
<1> HIDE DEF X
<1>4. \A s \in SUBSET S : s \in X
  BY <1>2, <1>3, SubsetsIn
<1> QED
  BY <1>4 DEF X

\* The equation of the fold, over smaller sets of its own.
LEMMA SumUnfolds ==
  ASSUME NEW f, NEW S, IsFiniteSet(S)
  PROVE  SumFunctionOnSet(f, S) =
           IF S = {} THEN 0 ELSE f[Chosen(S)] + SumFunctionOnSet(f, S \ {Chosen(S)})
<1> DEFINE T == S \ {Chosen(S)}
           g == CHOOSE g : IsFold(g, f, S)
           h == CHOOSE h : IsFold(h, f, T)
<1>1. IsFiniteSet(T)
  BY FS_RemoveElement
<1>2. IsFold(g, f, S) /\ IsFold(h, f, T)
  BY <1>1, FoldExists
<1>3. SumFunctionOnSet(f, S) = g[S] /\ SumFunctionOnSet(f, T) = h[T]
  BY SumIsChosen
<1> HIDE DEF g, h
<1>4. g[T] = h[T]
  BY <1>1, <1>2, FoldUnique
<1>5. g[S] = Unfolded(g, f, S)
  BY <1>2 DEF IsFold
<1> QED
  BY <1>3, <1>4, <1>5 DEF Unfolded

----------------------------------------------------------------------------
(* Sums over finite sets *)

\* The sum over no element.
LEMMA SumEmpty == \A f : SumFunctionOnSet(f, {}) = 0
BY SumUnfolds, FS_EmptySet

\* A sum of integers is an integer.
LEMMA SumType ==
  ASSUME NEW S, IsFiniteSet(S), NEW f, \A x \in S : f[x] \in Int
  PROVE  SumFunctionOnSet(f, S) \in Int
<1> DEFINE X == {s \in SUBSET S : SumFunctionOnSet(f, s) \in Int}
<1>1. {} \in X
  BY SumEmpty
<1>2. ASSUME NEW s \in SUBSET S, s # {}, \A x \in s : s \ {x} \in X PROVE s \in X
  <2>1. Chosen(s) \in s /\ IsFiniteSet(s)
    BY <1>2, ChosenIn, FS_Subset
  <2>2. SumFunctionOnSet(f, s) = f[Chosen(s)] + SumFunctionOnSet(f, s \ {Chosen(s)})
    BY <2>1, <1>2, SumUnfolds
  <2> QED
    BY <2>1, <2>2, <1>2
<1> HIDE DEF X
<1>3. \A s \in SUBSET S : s \in X
  BY <1>1, <1>2, SubsetsIn
<1> QED
  BY <1>3 DEF X

\* Any member may be split off, not the chosen one only.
LEMMA SumRemove ==
  ASSUME NEW S, IsFiniteSet(S), NEW f, \A x \in S : f[x] \in Int, NEW a \in S
  PROVE  SumFunctionOnSet(f, S) = f[a] + SumFunctionOnSet(f, S \ {a})
<1> DEFINE sum(s) == SumFunctionOnSet(f, s)
           X == {s \in SUBSET S : \A x \in s : sum(s) = f[x] + sum(s \ {x})}
<1>1. \A s \in SUBSET S : IsFiniteSet(s) /\ sum(s) \in Int
  BY SumType, FS_Subset
<1>2. ASSUME NEW s \in SUBSET S, s # {}
      PROVE  Chosen(s) \in s /\ sum(s) = f[Chosen(s)] + sum(s \ {Chosen(s)})
  BY <1>1, <1>2, ChosenIn, SumUnfolds
<1> HIDE DEF sum
<1>3. {} \in X
  OBVIOUS
<1>4. ASSUME NEW s \in SUBSET S, s # {}, \A x \in s : s \ {x} \in X PROVE s \in X
  <2> SUFFICES ASSUME NEW x \in s PROVE sum(s) = f[x] + sum(s \ {x})
    OBVIOUS
  <2> DEFINE c == Chosen(s)
  <2>1. c \in s /\ sum(s) = f[c] + sum(s \ {c})
    BY <1>2, <1>4
  <2> HIDE DEF c
  <2>2. CASE x = c
    BY <2>1, <2>2
  <2>3. CASE x # c
    <3>1. sum(s \ {c}) = f[x] + sum((s \ {c}) \ {x})
      BY <2>1, <2>3, <1>4
    <3>2. sum(s \ {x}) = f[c] + sum((s \ {x}) \ {c})
      BY <2>1, <2>3, <1>4
    <3>3. (s \ {c}) \ {x} = (s \ {x}) \ {c} /\ (s \ {x}) \ {c} \in SUBSET S
      OBVIOUS
    <3>4. f[x] \in Int /\ f[c] \in Int /\ sum((s \ {x}) \ {c}) \in Int
      BY <2>1, <3>3, <1>1
    <3>5. sum(s) = f[c] + (f[x] + sum((s \ {x}) \ {c}))
      BY <2>1, <3>1, <3>3
    <3> HIDE DEF X
    <3> QED
      BY <3>2, <3>4, <3>5
  <2> QED
    BY <2>2, <2>3
<1> HIDE DEF X
<1>5. \A s \in SUBSET S : s \in X
  BY <1>3, <1>4, SubsetsIn
<1> QED
  BY <1>5 DEF X, sum

\* An element that joins adds its value.
LEMMA SumAdd ==
  ASSUME NEW S, IsFiniteSet(S), NEW f, NEW a, a \notin S, \A x \in S \cup {a} : f[x] \in Int
  PROVE  SumFunctionOnSet(f, S \cup {a}) = f[a] + SumFunctionOnSet(f, S)
<1>1. IsFiniteSet(S \cup {a}) /\ (S \cup {a}) \ {a} = S
  BY FS_AddElement
<1> QED
  BY <1>1, SumRemove

\* The sum over the image of a set under a one-to-one m.
LEMMA SumImage ==
  ASSUME NEW S, IsFiniteSet(S), NEW f, \A x \in S : f[x] \in Int,
         NEW T, NEW m \in [S -> T], \A x, y \in S : m[x] = m[y] => x = y,
         NEW g, \A x \in S : g[m[x]] = f[x]
  PROVE  SumFunctionOnSet(f, S) = SumFunctionOnSet(g, {m[x] : x \in S})
<1> DEFINE image(s) == {m[x] : x \in s}
           X == {s \in SUBSET S : /\ IsFiniteSet(image(s))
                                  /\ SumFunctionOnSet(f, s) = SumFunctionOnSet(g, image(s))}
<1>1. {} \in X
  <2>1. image({}) = {}
    OBVIOUS
  <2> QED
    BY <2>1, SumEmpty, FS_EmptySet
<1>2. ASSUME NEW s \in SUBSET S, s # {}, \A x \in s : s \ {x} \in X PROVE s \in X
  <2>1. PICK a \in s : TRUE
    BY <1>2
  <2> DEFINE t == s \ {a}
  <2>2. image(s) = image(t) \cup {m[a]} /\ m[a] \notin image(t)
    OBVIOUS
  <2>3. t \in SUBSET S /\ IsFiniteSet(t) /\ a \notin t /\ s = t \cup {a} /\ IsFiniteSet(s)
    BY FS_Subset
  <2>4. IsFiniteSet(image(t)) /\ SumFunctionOnSet(f, t) = SumFunctionOnSet(g, image(t))
    BY <1>2
  <2>5. \A y \in image(t) \cup {m[a]} : g[y] \in Int
    OBVIOUS
  <2> HIDE DEF image, t
  <2>6. SumFunctionOnSet(f, s) = f[a] + SumFunctionOnSet(f, t)
    BY <2>3, SumAdd
  <2>7. SumFunctionOnSet(g, image(s)) = g[m[a]] + SumFunctionOnSet(g, image(t))
    BY <2>2, <2>4, <2>5, SumAdd
  <2>8. IsFiniteSet(image(s))
    BY <2>2, <2>4, FS_AddElement
  <2> QED
    BY <2>4, <2>6, <2>7, <2>8
<1> HIDE DEF X
<1>3. \A s \in SUBSET S : s \in X
  BY <1>1, <1>2, SubsetsIn
<1> QED
  BY <1>3 DEF X

\* Sums over sets between which m is a bijection, value to value.
LEMMA SumMapped ==
  ASSUME NEW S, IsFiniteSet(S), NEW f, \A x \in S : f[x] \in Int,
         NEW T, NEW m \in [S -> T], \A x, y \in S : m[x] = m[y] => x = y,
         \A y \in T : \E x \in S : m[x] = y,
         NEW g, \A x \in S : g[m[x]] = f[x]
  PROVE  SumFunctionOnSet(f, S) = SumFunctionOnSet(g, T)
<1>1. {m[x] : x \in S} = T
  OBVIOUS
<1>2. SumFunctionOnSet(f, S) = SumFunctionOnSet(g, {m[x] : x \in S})
  BY SumImage
<1> QED
  BY <1>1, <1>2

\* Two functions that agree on a set have one sum over it.
LEMMA SumSame ==
  ASSUME NEW S, IsFiniteSet(S), NEW f, NEW g, \A x \in S : f[x] \in Int /\ g[x] = f[x]
  PROVE  SumFunctionOnSet(f, S) = SumFunctionOnSet(g, S)
<1> DEFINE m == [x \in S |-> x]
<1>1. m \in [S -> S] /\ \A x \in S : m[x] = x
  OBVIOUS
<1> HIDE DEF m
<1> QED
  BY <1>1, SumMapped

\* One value changed.
LEMMA SumUpdate ==
  ASSUME NEW S, IsFiniteSet(S), NEW f, NEW g, NEW a \in S,
         \A x \in S : f[x] \in Int /\ g[x] \in Int,
         \A x \in S : x # a => g[x] = f[x]
  PROVE  SumFunctionOnSet(g, S) = SumFunctionOnSet(f, S) - f[a] + g[a]
<1> DEFINE T == S \ {a}
<1>1. IsFiniteSet(T)
  BY FS_RemoveElement
<1>2. SumFunctionOnSet(f, T) = SumFunctionOnSet(g, T) /\ SumFunctionOnSet(f, T) \in Int
  BY <1>1, SumSame, SumType
<1>3. SumFunctionOnSet(f, S) = f[a] + SumFunctionOnSet(f, T)
  BY SumRemove
<1>4. SumFunctionOnSet(g, S) = g[a] + SumFunctionOnSet(g, T)
  BY SumRemove
<1> HIDE DEF T
<1> QED
  BY <1>2, <1>3, <1>4

\* A sum of naturals is a natural.
LEMMA SumNatural ==
  ASSUME NEW S, IsFiniteSet(S), NEW f, \A x \in S : f[x] \in Nat
  PROVE  SumFunctionOnSet(f, S) \in Nat
<1> DEFINE X == {s \in SUBSET S : SumFunctionOnSet(f, s) \in Nat}
<1>1. {} \in X
  BY SumEmpty
<1>2. ASSUME NEW s \in SUBSET S, s # {}, \A x \in s : s \ {x} \in X PROVE s \in X
  <2>1. Chosen(s) \in s /\ IsFiniteSet(s)
    BY <1>2, ChosenIn, FS_Subset
  <2>2. SumFunctionOnSet(f, s) = f[Chosen(s)] + SumFunctionOnSet(f, s \ {Chosen(s)})
    BY <2>1, <1>2, SumUnfolds
  <2> QED
    BY <2>1, <2>2, <1>2
<1> HIDE DEF X
<1>3. \A s \in SUBSET S : s \in X
  BY <1>1, <1>2, SubsetsIn
<1> QED
  BY <1>3 DEF X

\* A sum of zeros is zero.
LEMMA SumZero ==
  ASSUME NEW S, IsFiniteSet(S), NEW f, \A x \in S : f[x] = 0
  PROVE  SumFunctionOnSet(f, S) = 0
<1> DEFINE X == {s \in SUBSET S : SumFunctionOnSet(f, s) = 0}
<1>1. {} \in X
  BY SumEmpty
<1>2. ASSUME NEW s \in SUBSET S, s # {}, \A x \in s : s \ {x} \in X PROVE s \in X
  <2>1. Chosen(s) \in s /\ IsFiniteSet(s)
    BY <1>2, ChosenIn, FS_Subset
  <2>2. SumFunctionOnSet(f, s) = f[Chosen(s)] + SumFunctionOnSet(f, s \ {Chosen(s)})
    BY <2>1, <1>2, SumUnfolds
  <2> QED
    BY <2>1, <2>2, <1>2
<1> HIDE DEF X
<1>3. \A s \in SUBSET S : s \in X
  BY <1>1, <1>2, SubsetsIn
<1> QED
  BY <1>3 DEF X

----------------------------------------------------------------------------
(* Sums along a sequence of integers *)

\* A function on 1..n is a sequence of length n.
LEMMA FunctionIsSequence ==
  ASSUME NEW S, NEW n \in Nat, NEW f \in [1..n -> S]
  PROVE  f \in Seq(S) /\ Len(f) = n
<1>1. f \in Seq(S)
  BY SeqDef
<1>2. Len(f) \in Nat /\ 1..Len(f) = 1..n
  BY <1>1, LenProperties
<1> QED
  BY <1>1, <1>2

\* The sum of a sequence is the sum of its values over its positions.
LEMMA SequenceSum ==
  ASSUME NEW v \in Seq(Int)
  PROVE  /\ SumFunction(v) = SumFunctionOnSet(v, DOMAIN v)
         /\ IsFiniteSet(DOMAIN v) /\ \A i \in DOMAIN v : v[i] \in Int
         /\ SumFunction(v) \in Int
<1>1. Len(v) \in Nat /\ DOMAIN v = 1..Len(v) /\ \A i \in DOMAIN v : v[i] \in Int
  BY LenProperties, ElementOfSeq
<1>2. IsFiniteSet(DOMAIN v)
  BY <1>1, FS_Interval
<1> QED
  BY <1>1, <1>2, SumType DEF SumFunction

\* The sum of the empty sequence.
LEMMA SumOfEmpty == SumFunction(<<>>) = 0
<1>1. DOMAIN <<>> = {}
  BY EmptySeq
<1> QED
  BY <1>1, SumEmpty DEF SumFunction

\* A value appended to a sequence adds to its sum.
LEMMA SumOfAppend ==
  ASSUME NEW v \in Seq(Int), NEW n \in Int
  PROVE  SumFunction(Append(v, n)) = SumFunction(v) + n
<1> DEFINE w == Append(v, n)
           a == Len(v) + 1
<1>1. Len(v) \in Nat /\ DOMAIN v = 1..Len(v)
  BY LenProperties
<1>2. w \in Seq(Int) /\ Len(w) = a /\ w[a] = n /\ \A i \in 1..Len(v) : w[i] = v[i]
  BY AppendProperties
<1> HIDE DEF w
<1>3. DOMAIN w = DOMAIN v \cup {a} /\ a \notin DOMAIN v
  <2>1. DOMAIN w = 1..(Len(v) + 1)
    BY <1>2, LenProperties
  <2> QED
    BY <2>1, <1>1
<1>4. SumFunctionOnSet(w, DOMAIN v \cup {a}) = w[a] + SumFunctionOnSet(w, DOMAIN v)
  BY <1>2, <1>3, SequenceSum, SumAdd
<1>5. SumFunctionOnSet(v, DOMAIN v) = SumFunctionOnSet(w, DOMAIN v)
  BY <1>1, <1>2, SequenceSum, SumSame
<1>6. /\ SumFunction(v) = SumFunctionOnSet(v, DOMAIN v) /\ SumFunction(v) \in Int
      /\ SumFunction(w) = SumFunctionOnSet(w, DOMAIN w)
  BY <1>2, SequenceSum
<1> QED
  BY <1>2, <1>3, <1>4, <1>5, <1>6 DEF w

\* A sequence with one place more.
LEMMA SumOfMore ==
  ASSUME NEW v \in Seq(Int), NEW w \in Seq(Int), Len(w) = Len(v) + 1,
         \A i \in 1..Len(v) : w[i] = v[i]
  PROVE  SumFunction(w) = SumFunction(v) + w[Len(v) + 1]
<1> DEFINE n == w[Len(v) + 1]
           u == Append(v, n)
<1>1. Len(v) \in Nat /\ n \in Int
  BY LenProperties, ElementOfSeq
<1> HIDE DEF n
<1>2. /\ u \in Seq(Int) /\ Len(u) = Len(v) + 1 /\ u[Len(v) + 1] = n
      /\ \A i \in 1..Len(v) : u[i] = v[i]
  BY <1>1, AppendProperties
<1>3. SumFunction(u) = SumFunction(v) + n
  BY <1>1, SumOfAppend
<1> HIDE DEF u
<1>4. ASSUME NEW i \in 1..Len(u) PROVE u[i] = w[i]
  <2>1. i \in 1..Len(v) \/ i = Len(v) + 1
    BY <1>1, <1>2
  <2> QED
    BY <2>1, <1>2 DEF n
<1>5. u = w
  BY <1>2, <1>4, SeqEqual
<1> QED
  BY <1>3, <1>5 DEF n

\* One value of a sequence that changes moves the sum by the difference.
LEMMA SumOfUpdate ==
  ASSUME NEW v \in Seq(Int), NEW w \in Seq(Int), Len(w) = Len(v), NEW a \in DOMAIN v,
         \A i \in DOMAIN v : i # a => w[i] = v[i]
  PROVE  SumFunction(w) = SumFunction(v) - v[a] + w[a]
<1>1. DOMAIN w = DOMAIN v
  BY LenProperties
<1>2. /\ SumFunction(v) = SumFunctionOnSet(v, DOMAIN v) /\ IsFiniteSet(DOMAIN v)
      /\ SumFunction(w) = SumFunctionOnSet(w, DOMAIN v)
      /\ \A i \in DOMAIN v : v[i] \in Int /\ w[i] \in Int
  BY <1>1, SequenceSum
<1>3. SumFunctionOnSet(w, DOMAIN v) = SumFunctionOnSet(v, DOMAIN v) - v[a] + w[a]
  BY <1>2, SumUpdate
<1> QED
  BY <1>2, <1>3

\* A place taken out of 1..n, those behind it moved up.
LEMMA SumWithout ==
  ASSUME NEW n \in Nat, NEW a \in 1..n, NEW v, NEW w, \A i \in 1..(n - 1) : w[i] \in Int,
         \A i \in 1..(n - 1) : i < a => w[i] = v[i],
         \A i \in 1..(n - 1) : ~(i < a) => w[i] = v[i + 1]
  PROVE  SumFunctionOnSet(w, 1..(n - 1)) = SumFunctionOnSet(v, (1..n) \ {a})
<1> DEFINE D == 1..(n - 1)
           T == (1..n) \ {a}
           m == [i \in D |-> IF i < a THEN i ELSE i + 1]
<1>1. IsFiniteSet(D) /\ \A i \in D : w[i] \in Int
  BY FS_Interval
<1>2. m \in [D -> T]
  OBVIOUS
<1>3. \A i, j \in D : m[i] = m[j] => i = j
  OBVIOUS
<1>4. ASSUME NEW k \in T PROVE \E i \in D : m[i] = k
  <2>1. CASE k < a
    <3>1. k \in D /\ m[k] = k
      BY <2>1
    <3> QED
      BY <3>1
  <2>2. CASE ~(k < a)
    <3>1. k - 1 \in D /\ m[k - 1] = k
      BY <2>2
    <3> QED
      BY <3>1
  <2> QED
    BY <2>1, <2>2
<1>5. ASSUME NEW i \in D PROVE v[m[i]] = w[i]
  <2>1. CASE i < a
    BY <2>1
  <2>2. CASE ~(i < a)
    BY <2>2
  <2> QED
    BY <2>1, <2>2
<1> HIDE DEF D, T, m
<1>6. SumFunctionOnSet(w, D) = SumFunctionOnSet(v, T)
  BY <1>1, <1>2, <1>3, <1>4, <1>5, SumMapped
<1> QED
  BY <1>6 DEF D, T

\* One place taken out of a sequence.
LEMMA SumOfRemove ==
  ASSUME NEW v \in Seq(Int), NEW a \in DOMAIN v, NEW w \in Seq(Int), Len(w) = Len(v) - 1,
         \A i \in 1..(Len(v) - 1) : w[i] = IF i < a THEN v[i] ELSE v[i + 1]
  PROVE  SumFunction(w) = SumFunction(v) - v[a]
<1>1. Len(v) \in Nat /\ DOMAIN v = 1..Len(v) /\ DOMAIN w = 1..(Len(v) - 1) /\ a \in 1..Len(v)
  BY LenProperties
<1>2. /\ IsFiniteSet(DOMAIN v) /\ \A i \in DOMAIN v : v[i] \in Int
      /\ \A i \in DOMAIN w : w[i] \in Int
      /\ SumFunction(v) = SumFunctionOnSet(v, DOMAIN v)
      /\ SumFunction(w) = SumFunctionOnSet(w, DOMAIN w) /\ SumFunction(w) \in Int
  BY SequenceSum
<1>3. SumFunctionOnSet(w, DOMAIN w) = SumFunctionOnSet(v, DOMAIN v \ {a})
  <2> DEFINE n == Len(v)
  <2>1. n \in Nat /\ a \in 1..n /\ \A i \in 1..(n - 1) : w[i] \in Int
    BY <1>1, <1>2
  <2>2. /\ \A i \in 1..(n - 1) : i < a => w[i] = v[i]
        /\ \A i \in 1..(n - 1) : ~(i < a) => w[i] = v[i + 1]
    OBVIOUS
  <2> HIDE DEF n
  <2>3. SumFunctionOnSet(w, 1..(n - 1)) = SumFunctionOnSet(v, (1..n) \ {a})
    BY <2>1, <2>2, SumWithout
  <2> QED
    BY <2>3, <1>1 DEF n
<1>4. SumFunctionOnSet(v, DOMAIN v) = v[a] + SumFunctionOnSet(v, DOMAIN v \ {a})
  BY <1>2, SumRemove
<1> QED
  BY <1>2, <1>3, <1>4
=============================================================================
