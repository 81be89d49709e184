-------------------------------- MODULE Sums ---------------------------------
(***************************************************************************)
(* Lemmas about SumFunctionOnSet, the sum of a function over a finite set, *)
(* which the counters are compared with.  The community modules define it  *)
(* by a recursion that chooses the elements in some order; the lemmas say  *)
(* that the order does not matter.  They are proved from the smallest      *)
(* counterexample: a set of numbers, or of finite sets, has a least one.   *)
(***************************************************************************)
EXTENDS Integers, FiniteSets, FiniteSetsExt, Functions, FiniteSetTheorems, WellFoundedInduction, TLAPS

\* A set of natural numbers that is not empty has a least one.
LEMMA LeastNat ==
  ASSUME NEW T, T \subseteq Nat, T # {}
  PROVE  \E x \in T : \A y \in T : x <= y
<1> DEFINE R == {ss \in Nat \X Nat : ss[1] < ss[2]}
<1>0. IsWellFoundedOn(R, Nat)
  BY NatLessThanWellFounded DEF OpToRel
<1> HIDE DEF R
<1>1. PICK x \in T : \A y \in T : ~(<<y, x>> \in R)
  BY <1>0, WFMin
<1>2. ASSUME NEW y \in T PROVE x <= y
  <2>1. x \in Nat /\ y \in Nat
    OBVIOUS
  <2>2. ~(y < x)
    BY <1>1, <2>1 DEF R
  <2> QED BY <2>1, <2>2
<1> QED BY <1>2

\* Among finite sets there is a smallest one.
LEMMA SmallestSet ==
  ASSUME NEW T, T # {}, \A s \in T : IsFiniteSet(s)
  PROVE  \E s \in T : \A t \in T : Cardinality(s) <= Cardinality(t)
<1> DEFINE N == {Cardinality(s) : s \in T}
<1>1. N \subseteq Nat /\ N # {}
  BY FS_CardinalityType
<1>2. PICK n \in N : \A m \in N : n <= m
  <2> HIDE DEF N
  <2> QED
    BY <1>1, LeastNat
<1> QED
  BY <1>2

\* One step of the recursion that defines the sum.
Part(f, g, s) == IF s = {} THEN 0 ELSE LET x == CHOOSE x \in s : TRUE IN f[x] + g[s \ {x}]

Parts(g, f, S) == g = [s \in SUBSET S |-> Part(f, g, s)]

LEMMA SumIsPart ==
  ASSUME NEW f, NEW S
  PROVE  SumFunctionOnSet(f, S) = (CHOOSE g : Parts(g, f, S))[S]
BY DEF SumFunctionOnSet, FoldFunctionOnSet, MapThenFoldSet, Part, Parts

LEMMA WithoutOne ==
  ASSUME NEW s, IsFiniteSet(s), NEW x \in s
  PROVE  /\ IsFiniteSet(s \ {x}) /\ Cardinality(s) \in Nat /\ Cardinality(s \ {x}) \in Nat
         /\ Cardinality(s \ {x}) = Cardinality(s) - 1
BY FS_RemoveElement, FS_CardinalityType

LEMMA PartsExist ==
  ASSUME NEW f, NEW S, IsFiniteSet(S)
  PROVE  \E g : Parts(g, f, S)
<1> DEFINE Up(n) == {s \in SUBSET S : Cardinality(s) <= n}
           Ok(n) == \E g : g = [s \in Up(n) |-> Part(f, g, s)]
           Bad == {n \in Nat : ~Ok(n)}
<1>1. \A s \in SUBSET S : IsFiniteSet(s) /\ Cardinality(s) \in Nat /\ Cardinality(s) <= Cardinality(S)
  BY FS_Subset, FS_CardinalityType
<1>2. Ok(0)
  <2> DEFINE g == [s \in Up(0) |-> 0]
  <2>1. \A s \in Up(0) : s = {}
    BY <1>1, FS_EmptySet
  <2>2. g = [s \in Up(0) |-> Part(f, g, s)]
    BY <2>1 DEF Part
  <2> QED
    BY <2>2
<1>3. ASSUME NEW n \in Nat, Ok(n) PROVE Ok(n + 1)
  <2>1. PICK g : g = [s \in Up(n) |-> Part(f, g, s)]
    BY <1>3
  <2> DEFINE h == [s \in Up(n + 1) |-> Part(f, g, s)]
  <2>2. Up(n) \subseteq Up(n + 1)
    BY <1>1
  <2>3. \A s \in Up(n) : h[s] = g[s]
    BY <2>1, <2>2
  <2>4. ASSUME NEW s \in Up(n + 1) PROVE h[s] = Part(f, h, s)
    <3>1. CASE s = {}
      BY <3>1 DEF Part
    <3>2. CASE s # {}
      <4> DEFINE x == CHOOSE x \in s : TRUE
      <4>1. x \in s
        BY <3>2
      <4> HIDE DEF x
      <4>2. Cardinality(s \ {x}) = Cardinality(s) - 1 /\ Cardinality(s) \in Nat
        BY <1>1, <2>4, <4>1, WithoutOne
      <4>3. s \ {x} \in Up(n)
        BY <2>4, <4>2
      <4>4. h[s \ {x}] = g[s \ {x}]
        BY <2>3, <4>3
      <4>5. h[s] = f[x] + g[s \ {x}]
        BY <2>4, <3>2 DEF Part, x
      <4>6. Part(f, h, s) = f[x] + h[s \ {x}]
        BY <3>2 DEF Part, x
      <4> QED
        BY <4>4, <4>5, <4>6
    <3> QED
      BY <3>1, <3>2
  <2>5. h = [s \in Up(n + 1) |-> Part(f, h, s)]
    BY <2>4
  <2> QED
    BY <2>5
<1>4. \A n \in Nat : Ok(n)
  <2> HIDE DEF Ok
  <2>1. SUFFICES Bad = {}
    OBVIOUS
  <2>2. SUFFICES ASSUME Bad # {} PROVE FALSE
    OBVIOUS
  <2>3. PICK n \in Bad : \A m \in Bad : n <= m
    BY <2>2, LeastNat
  <2>4. n # 0 /\ n \in Nat /\ ~Ok(n)
    BY <1>2, <2>3
  <2>5. n - 1 \in Nat /\ n - 1 \notin Bad /\ (n - 1) + 1 = n
    BY <2>3, <2>4
  <2> QED
    BY <1>3, <2>4, <2>5
<1>5. Up(Cardinality(S)) = SUBSET S /\ Cardinality(S) \in Nat
  BY <1>1
<1> QED
  BY <1>4, <1>5 DEF Parts

LEMMA PartsUnique ==
  ASSUME NEW f, NEW S, NEW T, NEW g, NEW h, Parts(g, f, S), Parts(h, f, T),
         NEW s, s \subseteq S, s \subseteq T, IsFiniteSet(s)
  PROVE  g[s] = h[s]
<1> DEFINE Bad == {t \in SUBSET s : g[t] # h[t]}
<1> SUFFICES ASSUME Bad # {} PROVE FALSE
  OBVIOUS
<1>1. \A t \in Bad : IsFiniteSet(t)
  BY FS_Subset
<1>2. PICK t \in Bad : \A u \in Bad : Cardinality(t) <= Cardinality(u)
  <2> HIDE DEF Bad
  <2> QED
    BY <1>1, SmallestSet
<1>3. g[t] = Part(f, g, t) /\ h[t] = Part(f, h, t)
  BY DEF Parts
<1>4. t # {}
  BY <1>2, <1>3 DEF Part
<1> DEFINE x == CHOOSE x \in t : TRUE
<1>5. x \in t
  BY <1>4
<1> HIDE DEF x
<1>6. Cardinality(t \ {x}) = Cardinality(t) - 1 /\ Cardinality(t) \in Nat
  BY <1>1, <1>5, WithoutOne
<1>7. t \ {x} \notin Bad
  BY <1>2, <1>6
<1>8. g[t \ {x}] = h[t \ {x}]
  BY <1>7
<1>9. g[t] = f[x] + g[t \ {x}] /\ h[t] = f[x] + h[t \ {x}]
  BY <1>3, <1>4 DEF Part, x
<1> QED
  BY <1>2, <1>8, <1>9

\* The sum takes one summand after the other, in some order.
LEMMA SumStep ==
  ASSUME NEW f, NEW S, IsFiniteSet(S)
  PROVE  /\ SumFunctionOnSet(f, {}) = 0
         /\ S # {} => \E x \in S : SumFunctionOnSet(f, S) = f[x] + SumFunctionOnSet(f, S \ {x})
<1>1. ASSUME NEW T, IsFiniteSet(T) PROVE \E g : Parts(g, f, T) /\ SumFunctionOnSet(f, T) = g[T]
  BY <1>1, PartsExist, SumIsPart
<1>2. SumFunctionOnSet(f, {}) = 0
  BY <1>1, FS_EmptySet DEF Parts, Part
<1>3. ASSUME S # {} PROVE \E x \in S : SumFunctionOnSet(f, S) = f[x] + SumFunctionOnSet(f, S \ {x})
  <2> DEFINE x == CHOOSE x \in S : TRUE
  <2>1. x \in S
    BY <1>3
  <2> HIDE DEF x
  <2>2. PICK g : Parts(g, f, S) /\ SumFunctionOnSet(f, S) = g[S]
    BY <1>1
  <2>3. IsFiniteSet(S \ {x})
    BY <2>1, WithoutOne
  <2>4. PICK h : Parts(h, f, S \ {x}) /\ SumFunctionOnSet(f, S \ {x}) = h[S \ {x}]
    BY <1>1, <2>3
  <2>5. g[S \ {x}] = h[S \ {x}]
    BY <2>2, <2>3, <2>4, PartsUnique
  <2>6. g[S] = f[x] + g[S \ {x}]
    BY <1>3, <2>2 DEF Parts, Part, x
  <2> QED
    BY <2>1, <2>2, <2>4, <2>5, <2>6
<1> QED
  BY <1>2, <1>3

LEMMA SumType ==
  ASSUME NEW f, NEW S, IsFiniteSet(S), \A x \in S : f[x] \in Int
  PROVE  SumFunctionOnSet(f, S) \in Int
<1> DEFINE Bad == {s \in SUBSET S : SumFunctionOnSet(f, s) \notin Int}
<1> SUFFICES ASSUME Bad # {} PROVE FALSE
  OBVIOUS
<1>1. \A s \in Bad : IsFiniteSet(s)
  BY FS_Subset
<1>2. PICK s \in Bad : \A u \in Bad : Cardinality(s) <= Cardinality(u)
  <2> HIDE DEF Bad
  <2> QED
    BY <1>1, SmallestSet
<1>3. s # {}
  <2>1. SumFunctionOnSet(f, {}) = 0
    BY SumStep
  <2> QED
    BY <1>2, <2>1
<1>4. PICK x \in s : SumFunctionOnSet(f, s) = f[x] + SumFunctionOnSet(f, s \ {x})
  BY <1>1, <1>3, SumStep
<1>5. Cardinality(s \ {x}) = Cardinality(s) - 1 /\ Cardinality(s) \in Nat
  BY <1>1, WithoutOne
<1>6. s \ {x} \notin Bad
  BY <1>2, <1>5
<1>7. SumFunctionOnSet(f, s \ {x}) \in Int /\ f[x] \in Int
  BY <1>6
<1> QED
  BY <1>2, <1>4, <1>7

\* ... and any summand may be the first.
LEMMA SumTake ==
  ASSUME NEW f, NEW S, IsFiniteSet(S), \A x \in S : f[x] \in Int, NEW a \in S
  PROVE  SumFunctionOnSet(f, S) = f[a] + SumFunctionOnSet(f, S \ {a})
<1> DEFINE Bad == {s \in SUBSET S : \E b \in s : SumFunctionOnSet(f, s) # f[b] + SumFunctionOnSet(f, s \ {b})}
<1> SUFFICES ASSUME Bad # {} PROVE FALSE
  OBVIOUS
<1>1. \A s \in Bad : IsFiniteSet(s)
  BY FS_Subset
<1>2. PICK s \in Bad : \A u \in Bad : Cardinality(s) <= Cardinality(u)
  <2> HIDE DEF Bad
  <2> QED
    BY <1>1, SmallestSet
<1>3. PICK b \in s : SumFunctionOnSet(f, s) # f[b] + SumFunctionOnSet(f, s \ {b})
  OBVIOUS
<1>4. PICK x \in s : SumFunctionOnSet(f, s) = f[x] + SumFunctionOnSet(f, s \ {x})
  BY <1>1, SumStep
<1>5. /\ Cardinality(s \ {x}) = Cardinality(s) - 1 /\ Cardinality(s) \in Nat
      /\ Cardinality(s \ {b}) = Cardinality(s) - 1
  BY <1>1, WithoutOne
<1>6. s \ {x} \notin Bad /\ s \ {b} \notin Bad
  BY SMTT(60), <1>2, <1>5
<1>7. x # b
  BY <1>3, <1>4
<1>8. /\ SumFunctionOnSet(f, s \ {x}) = f[b] + SumFunctionOnSet(f, (s \ {x}) \ {b})
      /\ SumFunctionOnSet(f, s \ {b}) = f[x] + SumFunctionOnSet(f, (s \ {b}) \ {x})
  BY <1>6, <1>7
<1>9. (s \ {x}) \ {b} = (s \ {b}) \ {x}
  OBVIOUS
<1>10. f[x] \in Int /\ f[b] \in Int /\ SumFunctionOnSet(f, (s \ {b}) \ {x}) \in Int
  <2>1. IsFiniteSet((s \ {b}) \ {x})
    BY <1>1, FS_Subset
  <2> QED
    BY <2>1, SumType
<1> DEFINE rest == SumFunctionOnSet(f, (s \ {b}) \ {x})
<1>11. SumFunctionOnSet(f, s) = f[x] + (f[b] + rest) /\ SumFunctionOnSet(f, s \ {b}) = f[x] + rest /\ rest \in Int
  BY <1>4, <1>8, <1>9, <1>10
<1> HIDE DEF rest
<1> QED
  BY <1>3, <1>10, <1>11

\* The sum depends on the summands only.
LEMMA SumSame ==
  ASSUME NEW f, NEW g, NEW S, IsFiniteSet(S), \A x \in S : f[x] = g[x]
  PROVE  SumFunctionOnSet(f, S) = SumFunctionOnSet(g, S)
<1>1. PICK p : Parts(p, f, S) /\ SumFunctionOnSet(f, S) = p[S]
  BY PartsExist, SumIsPart
<1>2. ASSUME NEW s \in SUBSET S PROVE Part(f, p, s) = Part(g, p, s)
  <2>1. CASE s = {}
    BY <2>1 DEF Part
  <2>2. CASE s # {}
    <3> DEFINE x == CHOOSE x \in s : TRUE
    <3>1. x \in s
      BY <2>2
    <3> HIDE DEF x
    <3>2. Part(f, p, s) = f[x] + p[s \ {x}] /\ Part(g, p, s) = g[x] + p[s \ {x}]
      BY <2>2 DEF Part, x
    <3> QED
      BY <3>1, <3>2
  <2> QED
    BY <2>1, <2>2
<1>3. Parts(p, g, S)
  BY <1>1, <1>2 DEF Parts
<1>4. PICK q : Parts(q, g, S) /\ SumFunctionOnSet(g, S) = q[S]
  BY PartsExist, SumIsPart
<1> QED
  BY <1>1, <1>3, <1>4, PartsUnique

\* One summand changes.
LEMMA SumChange ==
  ASSUME NEW f, NEW g, NEW S, IsFiniteSet(S), NEW a \in S,
         \A x \in S : f[x] \in Int, g[a] \in Int, \A x \in S \ {a} : g[x] = f[x]
  PROVE  SumFunctionOnSet(g, S) = SumFunctionOnSet(f, S) - f[a] + g[a]
<1>1. IsFiniteSet(S \ {a})
  BY FS_Subset
<1>2. SumFunctionOnSet(g, S \ {a}) = SumFunctionOnSet(f, S \ {a}) /\ SumFunctionOnSet(f, S \ {a}) \in Int
  BY <1>1, SumSame, SumType
<1>3. SumFunctionOnSet(f, S) = f[a] + SumFunctionOnSet(f, S \ {a}) /\ SumFunctionOnSet(g, S) = g[a] + SumFunctionOnSet(g, S \ {a})
  BY SumTake
<1> QED
  BY <1>2, <1>3

LEMMA SumOfZeros ==
  ASSUME NEW f, NEW S, IsFiniteSet(S), \A x \in S : f[x] = 0
  PROVE  SumFunctionOnSet(f, S) = 0
<1> DEFINE Bad == {s \in SUBSET S : SumFunctionOnSet(f, s) # 0}
<1> SUFFICES ASSUME Bad # {} PROVE FALSE
  OBVIOUS
<1>1. \A s \in Bad : IsFiniteSet(s)
  BY FS_Subset
<1>2. PICK s \in Bad : \A u \in Bad : Cardinality(s) <= Cardinality(u)
  <2> HIDE DEF Bad
  <2> QED
    BY <1>1, SmallestSet
<1>3. s # {}
  <2>1. SumFunctionOnSet(f, {}) = 0
    BY SumStep
  <2> QED
    BY <1>2, <2>1
<1>4. PICK x \in s : SumFunctionOnSet(f, s) = f[x] + SumFunctionOnSet(f, s \ {x})
  BY <1>1, <1>3, SumStep
<1>5. Cardinality(s \ {x}) = Cardinality(s) - 1 /\ Cardinality(s) \in Nat
  BY <1>1, WithoutOne
<1>6. s \ {x} \notin Bad
  BY <1>2, <1>5
<1>7. SumFunctionOnSet(f, s \ {x}) = 0 /\ f[x] = 0
  BY <1>6
<1> QED
  BY <1>2, <1>4, <1>7
\* One more is added, to a part or as a new part.
LEMMA SumOneMore ==
  ASSUME NEW f, NEW g, NEW S, IsFiniteSet(S), NEW a, \A x \in S \cup {a} : f[x] \in Int,
         \A x \in S : x # a => g[x] = f[x], a \in S => g[a] = f[a] + 1,
         a \notin S => g[a] = 1
  PROVE  SumFunctionOnSet(g, S \cup {a}) = SumFunctionOnSet(f, S) + 1
<1>1. PICK T : T = S \cup {a}
  OBVIOUS
<1>2. IsFiniteSet(T) /\ a \in T
  BY <1>1, FS_AddElement
<1>3. \A x \in T : f[x] \in Int
  BY <1>1
<1>4. f[a] \in Int /\ g[a] \in Int
  BY <1>1
<1>5. \A x \in T \ {a} : g[x] = f[x]
  BY <1>1
<1>6. SumFunctionOnSet(g, T) = SumFunctionOnSet(f, T) - f[a] + g[a]
  BY <1>2, <1>3, <1>4, <1>5, SumChange
<1>7. SumFunctionOnSet(f, S) \in Int
  BY SumType
<1>8. CASE a \in S
  <2>1. T = S
    BY <1>1, <1>8
  <2>2. g[a] = f[a] + 1
    BY <1>8
  <2>3. SumFunctionOnSet(g, S) = SumFunctionOnSet(f, S) - f[a] + g[a]
    BY <1>6, <2>1
  <2>4. SumFunctionOnSet(g, S) = SumFunctionOnSet(f, S) + 1
    BY <1>4, <1>7, <2>2, <2>3
  <2>5. S \cup {a} = S
    BY <1>8
  <2> QED
    BY <2>4, <2>5
<1>9. CASE a \notin S
  <2>1. T \ {a} = S
    BY <1>1, <1>9
  <2>2. SumFunctionOnSet(f, T) = f[a] + SumFunctionOnSet(f, T \ {a})
    BY <1>2, <1>3, SumTake
  <2> QED
    BY <1>1, <1>4, <1>6, <1>7, <1>9, <2>1, <2>2
<1> QED
  BY <1>8, <1>9

\* The lesser and the greater of two numbers, as FiniteSetsExt defines them.
LEMMA MinMax ==
  ASSUME NEW a \in Nat, NEW b \in Nat
  PROVE  /\ Min({a, b}) \in {a, b} /\ Min({a, b}) <= a /\ Min({a, b}) <= b
         /\ Max({a, b}) \in {a, b} /\ a <= Max({a, b}) /\ b <= Max({a, b})
<1>1. \E x \in {a, b} : \A y \in {a, b} : x <= y
  <2>1. CASE a <= b
    BY <2>1
  <2>2. CASE b <= a
    BY <2>2
  <2> QED
    BY <2>1, <2>2
<1>2. \E x \in {a, b} : \A y \in {a, b} : x >= y
  <2>1. CASE a <= b
    BY <2>1
  <2>2. CASE b <= a
    BY <2>2
  <2> QED
    BY <2>1, <2>2
<1> QED
  BY <1>1, <1>2 DEF Min, Max
=============================================================================
