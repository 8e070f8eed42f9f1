----------------------------- MODULE Induccion -----------------------------
(***************************************************************************)
(* What the sums and folds of the models compute, for any finite set and   *)
(* any sequence.  Induction is done by the least counterexample: a set of  *)
(* naturals, or of finite sets, with something in it has a least one.      *)
(***************************************************************************)
EXTENDS Integers, FiniteSets, FiniteSetsExt, SequencesExt, FiniteSetTheorems, TLAPS

\* A set of naturals with something in it has a least element.
LEMMA Menor ==
  ASSUME NEW T \in SUBSET Nat, T # {}
  PROVE  \E m \in T : \A k \in T : m <= k
<1>1. IsWellFoundedOn(OpToRel(<, Nat), Nat)
  BY NatLessThanWellFounded
<1>2. PICK m \in T : \A k \in T : ~(<<k, m>> \in OpToRel(<, Nat))
  BY <1>1, WFMin
<1>3. \A k \in T : k < m => <<k, m>> \in OpToRel(<, Nat)
  BY DEF OpToRel
<1>4. ASSUME NEW k \in T
      PROVE  m <= k
  <2>1. k \in Nat /\ m \in Nat /\ ~(k < m)
    BY <1>2, <1>3
  <2>. QED BY <2>1
<1>. QED BY <1>4

\* Induction: a set of naturals with 0 and with the next of each of its elements has
\* them all.
LEMMA Todos ==
  ASSUME NEW T \in SUBSET Nat, 0 \in T, \A n \in T : n + 1 \in T
  PROVE  T = Nat
<1>. SUFFICES ASSUME Nat \ T # {} PROVE FALSE
  OBVIOUS
<1>1. PICK m \in Nat \ T : \A k \in Nat \ T : m <= k
  BY Menor
<1>2. m - 1 \in T
  BY <1>1
<1>. QED BY <1>1, <1>2

-----------------------------------------------------------------------------
(* Sums over a finite set. *)

\* The element that a fold over a set takes.
Alguno(s) == CHOOSE e \in s : TRUE

\* a takes an element of each part of S.
Elige(a, S) == \A s \in SUBSET S : s # {} => a[s] \in s

\* Induction: a set of parts of S with the empty one, and with each part that it has
\* without the element that a takes, has them all.
LEMMA PartesPor ==
  ASSUME NEW S, IsFiniteSet(S), NEW a, Elige(a, S),
         NEW T \in SUBSET SUBSET S, {} \in T,
         \A s \in SUBSET S : s # {} /\ s \ {a[s]} \in T => s \in T
  PROVE  T = SUBSET S
<1>. SUFFICES ASSUME (SUBSET S) \ T # {} PROVE FALSE
  OBVIOUS
<1>. DEFINE F == (SUBSET S) \ T
<1>1. IsWellFoundedOn(StrictSubsetOrdering(S), SUBSET S)
  <2>1. FiniteSubsetsOf(S) = SUBSET S
    BY FS_FiniteSubsetsOfFinite
  <2>2. IsWellFoundedOn(StrictSubsetOrdering(S), FiniteSubsetsOf(S))
    BY FS_StrictSubsetOrderingWellFounded
  <2>. QED BY <2>1, <2>2
<1>2. PICK m \in F : \A k \in F : ~(<<k, m>> \in StrictSubsetOrdering(S))
  <2>1. F \subseteq SUBSET S /\ F # {}
    OBVIOUS
  <2>. HIDE DEF F
  <2>. QED BY <1>1, <2>1, WFMin
<1>3. m # {} /\ a[m] \in m
  BY DEF Elige
<1>4. m \ {a[m]} \in F
  BY <1>3
<1>5. <<m \ {a[m]}, m>> \in StrictSubsetOrdering(S)
  BY <1>3, <1>4 DEF StrictSubsetOrdering
<1>. QED BY <1>2, <1>4, <1>5

\* Induction, with the element that a fold takes.
LEMMA Partes ==
  ASSUME NEW S, IsFiniteSet(S), NEW T \in SUBSET SUBSET S, {} \in T,
         \A s \in SUBSET S : s # {} /\ s \ {Alguno(s)} \in T => s \in T
  PROVE  T = SUBSET S
<1>. DEFINE a == [s \in SUBSET S |-> Alguno(s)]
<1>1. \A s \in SUBSET S : a[s] = Alguno(s) /\ (s # {} => a[s] \in s)
  BY DEF Alguno
<1>. HIDE DEF a
<1>2. \A s \in SUBSET S : s # {} /\ s \ {a[s]} \in T => s \in T
  BY <1>1
<1>3. Elige(a, S)
  BY <1>1 DEF Elige
<1>. QED BY <1>2, <1>3, PartesPor

\* it is what a fold computes of f, for each part of S, if a takes the elements.
SumaPor(it, S, f, a) ==
  \A s \in SUBSET S : it[s] = IF s = {} THEN 0 ELSE f[a[s]] + it[s \ {a[s]}]

\* There is such an it: one that is right for the sets of up to n elements can be made
\* right for those of n + 1.
LEMMA HaySumaPor ==
  ASSUME NEW S, IsFiniteSet(S), NEW f \in [S -> Nat],
         NEW a, Elige(a, S)
  PROVE  \E it \in [SUBSET S -> Nat] : SumaPor(it, S, f, a)
<1>. DEFINE Paso(it, s) == IF s = {} THEN 0 ELSE f[a[s]] + it[s \ {a[s]}]
            Hasta(n) == \E it \in [SUBSET S -> Nat] :
                          \A s \in SUBSET S : Cardinality(s) <= n => it[s] = Paso(it, s)
            T == {n \in Nat : Hasta(n)}
<1>1. ASSUME NEW s \in SUBSET S
      PROVE  /\ IsFiniteSet(s) /\ Cardinality(s) \in Nat
             /\ s # {} => /\ a[s] \in s
                          /\ Cardinality(s \ {a[s]}) = Cardinality(s) - 1
             /\ Cardinality(s) = 0 => s = {}
  <2>1. IsFiniteSet(s) /\ Cardinality(s) \in Nat
    BY FS_Subset, FS_CardinalityType
  <2>2. s # {} => a[s] \in s
    BY DEF Elige
  <2>. QED BY <2>1, <2>2, FS_RemoveElement, FS_EmptySet
<1>2. 0 \in T
  <2>. DEFINE it == [s \in SUBSET S |-> 0]
  <2>1. it \in [SUBSET S -> Nat]
    OBVIOUS
  <2>2. ASSUME NEW s \in SUBSET S, Cardinality(s) <= 0
        PROVE  it[s] = Paso(it, s)
    <3>0. Cardinality(s) \in Nat
      BY <1>1
    <3>1. Cardinality(s) = 0
      BY <2>2, <3>0
    <3>2. s = {}
      BY <1>1, <3>1
    <3>. QED BY <3>2
  <2>3. Hasta(0)
    <3>. HIDE DEF it, Paso
    <3>. QED BY <2>1, <2>2
  <2>. HIDE DEF Hasta
  <2>. QED BY <2>3
<1>3. ASSUME NEW n \in T
      PROVE  n + 1 \in T
  <2>1. PICK it \in [SUBSET S -> Nat] :
          \A s \in SUBSET S : Cardinality(s) <= n => it[s] = Paso(it, s)
    OBVIOUS
  <2>. DEFINE mas == [s \in SUBSET S |-> IF Cardinality(s) <= n THEN it[s] ELSE Paso(it, s)]
  <2>2. mas \in [SUBSET S -> Nat]
    <3>1. ASSUME NEW s \in SUBSET S
          PROVE  Paso(it, s) \in Nat
      <4>1. CASE s = {}
        BY <4>1
      <4>2. CASE s # {}
        <5>1. a[s] \in S /\ s \ {a[s]} \in SUBSET S
          BY <1>1, <4>2
        <5>2. f[a[s]] \in Nat /\ it[s \ {a[s]}] \in Nat
          BY <5>1
        <5>. QED BY <4>2, <5>2
      <4>. QED BY <4>1, <4>2
    <3>. HIDE DEF Paso
    <3>. QED BY <3>1
  <2>3. ASSUME NEW s \in SUBSET S, Cardinality(s) <= n + 1
        PROVE  mas[s] = Paso(mas, s)
    <3>1. mas[s] = Paso(it, s)
      BY <2>1
    <3>2. CASE s = {}
      BY <3>1, <3>2
    <3>3. CASE s # {}
      <4>. DEFINE u == s \ {a[s]}
      <4>1. u \in SUBSET S /\ Cardinality(u) <= n
        <5>1. Cardinality(u) = Cardinality(s) - 1 /\ Cardinality(s) \in Nat
          BY <1>1, <3>3
        <5>. QED BY <2>3, <5>1
      <4>2. mas[u] = it[u]
        BY <4>1
      <4>. QED BY <3>1, <3>3, <4>2
    <3>. QED BY <3>2, <3>3
  <2>4. Hasta(n + 1)
    <3>. HIDE DEF Paso, mas
    <3>. QED BY <2>2, <2>3
  <2>. HIDE DEF Hasta
  <2>. QED BY <2>4
<1>4. T = Nat
  <2>. HIDE DEF T
  <2>1. T \in SUBSET Nat
    BY DEF T
  <2>. QED BY <1>2, <1>3, <2>1, Todos
<1>5. Cardinality(S) \in T /\ \A s \in SUBSET S : Cardinality(s) <= Cardinality(S)
  BY <1>1, <1>4, FS_Subset
<1>6. PICK it \in [SUBSET S -> Nat] : \A s \in SUBSET S : it[s] = Paso(it, s)
  BY <1>5
<1>. QED BY <1>6 DEF SumaPor

\* it is what MapThenSumSet computes of f, for each part of S.
Suma(it, S, f) ==
  \A s \in SUBSET S : it[s] = IF s = {} THEN 0 ELSE f[Alguno(s)] + it[s \ {Alguno(s)}]

\* v is the sum of f over S.
EsSuma(v, S, f) == \E it : Suma(it, S, f) /\ v = it[S]

\* There is one of those that MapThenSumSet computes.
LEMMA HaySuma ==
  ASSUME NEW S, IsFiniteSet(S), NEW f \in [S -> Nat]
  PROVE  \E it \in [SUBSET S -> Nat] : Suma(it, S, f)
<1>. DEFINE a == [s \in SUBSET S |-> Alguno(s)]
<1>1. \A s \in SUBSET S : a[s] = Alguno(s) /\ (s # {} => a[s] \in s)
  BY DEF Alguno
<1>. HIDE DEF a
<1>2. Elige(a, S)
  BY <1>1 DEF Elige
<1>3. PICK it \in [SUBSET S -> Nat] : SumaPor(it, S, f, a)
  BY <1>2, HaySumaPor
<1>4. ASSUME NEW s \in SUBSET S
      PROVE  it[s] = IF s = {} THEN 0 ELSE f[Alguno(s)] + it[s \ {Alguno(s)}]
  <2>1. it[s] = IF s = {} THEN 0 ELSE f[a[s]] + it[s \ {a[s]}]
    BY <1>3 DEF SumaPor
  <2>. QED BY <1>1, <2>1
<1>5. Suma(it, S, f)
  BY <1>4 DEF Suma
<1>. QED BY <1>5

\* The sum of a row, and of a column of a table.
Fila(S, f) == MapThenSumSet(LAMBDA e : f[e], S)
Columna(S, f, n) == MapThenSumSet(LAMBDA e : f[e][n], S)

\* A row: the sum of a function.
LEMMA SumaFila ==
  ASSUME NEW S, IsFiniteSet(S), NEW f \in [S -> Nat]
  PROVE  EsSuma(Fila(S, f), S, f)
<1>1. PICK it \in [SUBSET S -> Nat] : Suma(it, S, f)
  BY HaySuma
<1>. DEFINE R(g) == g = [s \in SUBSET S |->
                          IF s = {} THEN 0
                          ELSE f[CHOOSE e \in s : TRUE] + g[s \ {CHOOSE e \in s : TRUE}]]
<1>2. R(it)
  BY <1>1 DEF Suma, Alguno
<1>3. R(CHOOSE g : R(g)) /\ Fila(S, f) = (CHOOSE g : R(g))[S]
  BY <1>2, ZenonT(60) DEF Fila, MapThenSumSet, MapThenFoldSet
<1>. DEFINE h == CHOOSE g : R(g)
<1>4. Suma(h, S, f)
  <2>1. R(h)
    BY <1>3
  <2>. HIDE DEF h
  <2>. QED BY <2>1 DEF Suma, Alguno
<1>. QED BY <1>3, <1>4 DEF EsSuma

\* A column: the sum of one of the values of each function of a table.
LEMMA SumaColumna ==
  ASSUME NEW S, IsFiniteSet(S), NEW P, NEW n \in P, NEW f \in [S -> [P -> Nat]]
  PROVE  EsSuma(Columna(S, f, n), S, [e \in S |-> f[e][n]])
<1>. DEFINE c == [e \in S |-> f[e][n]]
<1>0. c \in [S -> Nat] /\ \A e \in S : c[e] = f[e][n]
  OBVIOUS
<1>1. PICK it \in [SUBSET S -> Nat] : Suma(it, S, c)
  BY <1>0, HaySuma
<1>. HIDE DEF c
<1>. DEFINE R(g) == g = [s \in SUBSET S |->
                          IF s = {} THEN 0
                          ELSE f[CHOOSE e \in s : TRUE][n] + g[s \ {CHOOSE e \in s : TRUE}]]
            Q(g) == g = [s \in SUBSET S |->
                          IF s = {} THEN 0 ELSE f[Alguno(s)][n] + g[s \ {Alguno(s)}]]
<1>a. \A s \in SUBSET S : s # {} => c[Alguno(s)] = f[Alguno(s)][n]
  BY <1>0 DEF Alguno
<1>2. R(it)
  <2>1. Q(it)
    BY <1>1, <1>a DEF Suma
  <2>. QED BY <2>1 DEF Alguno
<1>3. R(CHOOSE g : R(g)) /\ Columna(S, f, n) = (CHOOSE g : R(g))[S]
  BY <1>2, ZenonT(60) DEF Columna, MapThenSumSet, MapThenFoldSet
<1>. DEFINE h == CHOOSE g : R(g)
<1>4. Suma(h, S, c)
  <2>1. R(h)
    BY <1>3
  <2>. HIDE DEF h
  <2>2. Q(h)
    BY <2>1 DEF Alguno
  <2>. QED BY <1>a, <2>2 DEF Suma
<1>5. EsSuma(Columna(S, f, n), S, c)
  BY <1>3, <1>4 DEF EsSuma
<1>. QED BY <1>5 DEF c

\* A sum is a natural.
LEMMA SumaTipo ==
  ASSUME NEW S, IsFiniteSet(S), NEW f \in [S -> Nat], NEW it, Suma(it, S, f)
  PROVE  \A s \in SUBSET S : it[s] \in Nat
<1>. DEFINE T == {s \in SUBSET S : it[s] \in Nat}
<1>1. {} \in T
  BY DEF Suma
<1>2. ASSUME NEW s \in SUBSET S, s # {}, s \ {Alguno(s)} \in T
      PROVE  s \in T
  <2>1. Alguno(s) \in S
    BY <1>2 DEF Alguno
  <2>2. it[s] = f[Alguno(s)] + it[s \ {Alguno(s)}]
    BY <1>2 DEF Suma
  <2>. QED BY <1>2, <2>1, <2>2
<1>3. T = SUBSET S
  <2>. HIDE DEF T
  <2>1. T \in SUBSET SUBSET S
    BY DEF T
  <2>. QED BY <1>1, <1>2, <2>1, Partes
<1>. QED BY <1>3

\* The sum of zeros.
LEMMA SumaCeros ==
  ASSUME NEW S, IsFiniteSet(S), NEW f \in [S -> Nat], \A e \in S : f[e] = 0,
         NEW v, EsSuma(v, S, f)
  PROVE  v = 0
<1>1. PICK it : Suma(it, S, f) /\ v = it[S]
  BY DEF EsSuma
<1>. DEFINE T == {s \in SUBSET S : it[s] = 0}
<1>2. {} \in T
  BY <1>1 DEF Suma
<1>3. ASSUME NEW s \in SUBSET S, s # {}, s \ {Alguno(s)} \in T
      PROVE  s \in T
  <2>1. Alguno(s) \in S
    BY <1>3 DEF Alguno
  <2>2. it[s] = f[Alguno(s)] + it[s \ {Alguno(s)}]
    BY <1>1, <1>3 DEF Suma
  <2>. QED BY <1>3, <2>1, <2>2
<1>4. T = SUBSET S
  <2>. HIDE DEF T
  <2>1. T \in SUBSET SUBSET S
    BY DEF T
  <2>. QED BY <1>2, <1>3, <2>1, Partes
<1>. QED BY <1>1, <1>4

\* Two functions that differ in one element have sums that differ as much.
LEMMA SumaCambia ==
  ASSUME NEW S, IsFiniteSet(S), NEW f \in [S -> Nat], NEW g \in [S -> Nat], NEW e \in S,
         \A d \in S \ {e} : g[d] = f[d],
         NEW v, EsSuma(v, S, f), NEW w, EsSuma(w, S, g)
  PROVE  v \in Nat /\ w \in Nat /\ v + g[e] = w + f[e]
<1>1. PICK it : Suma(it, S, f) /\ v = it[S]
  BY DEF EsSuma
<1>2. PICK ti : Suma(ti, S, g) /\ w = ti[S]
  BY DEF EsSuma
<1>3. \A s \in SUBSET S : it[s] \in Nat /\ ti[s] \in Nat
  BY <1>1, <1>2, SumaTipo
<1>. DEFINE T == {s \in SUBSET S : IF e \in s THEN it[s] + g[e] = ti[s] + f[e] ELSE it[s] = ti[s]}
<1>4. {} \in T
  BY <1>1, <1>2 DEF Suma
<1>5. ASSUME NEW s \in SUBSET S, s # {}, s \ {Alguno(s)} \in T
      PROVE  s \in T
  <2>. DEFINE a == Alguno(s)
              r == s \ {a}
  <2>1. a \in s /\ a \in S
    BY <1>5 DEF Alguno
  <2>2. it[s] = f[a] + it[r] /\ ti[s] = g[a] + ti[r]
    BY <1>1, <1>2, <1>5 DEF Suma
  <2>3. /\ it[r] \in Nat /\ ti[r] \in Nat /\ f[a] \in Nat /\ g[a] \in Nat
        /\ f[e] \in Nat /\ g[e] \in Nat
    BY <1>3, <2>1
  <2>4. CASE a = e
    <3>1. it[r] = ti[r]
      BY <1>5, <2>4
    <3>2. it[s] + g[e] = ti[s] + f[e] /\ e \in s
      BY <2>1, <2>2, <2>3, <2>4, <3>1
    <3>. QED BY <3>2
  <2>5. CASE a # e
    <3>1. f[a] = g[a] /\ (e \in r <=> e \in s)
      BY <2>1, <2>5
    <3>2. IF e \in r THEN it[r] + g[e] = ti[r] + f[e] ELSE it[r] = ti[r]
      BY <1>5
    <3>. HIDE DEF a, r
    <3>. QED BY <2>2, <2>3, <3>1, <3>2
  <2>. QED BY <2>4, <2>5
<1>6. T = SUBSET S
  <2>. HIDE DEF T
  <2>1. T \in SUBSET SUBSET S
    BY DEF T
  <2>. QED BY <1>4, <1>5, <2>1, Partes
<1>7. S \in T
  BY <1>6
<1>. QED BY <1>1, <1>2, <1>3, <1>7

\* One more in one place.
LEMMA SumaUno ==
  ASSUME NEW S, IsFiniteSet(S), NEW f \in [S -> Nat], NEW g \in [S -> Nat], NEW n \in S,
         g[n] = f[n] + 1, \A d \in S \ {n} : g[d] = f[d], NEW v, EsSuma(v, S, f)
  PROVE  v \in Nat /\ EsSuma(v + 1, S, g)
<1>1. PICK it : Suma(it, S, g)
  BY HaySuma
<1>2. EsSuma(it[S], S, g)
  BY <1>1 DEF EsSuma
<1>3. v \in Nat /\ it[S] \in Nat /\ v + g[n] = it[S] + f[n]
  BY <1>2, SumaCambia
<1>4. it[S] = v + 1
  <2>1. f[n] \in Nat
    OBVIOUS
  <2>. QED BY <1>3, <2>1
<1>. QED BY <1>2, <1>3, <1>4

\* There is only one sum.
LEMMA SumaUnica ==
  ASSUME NEW S, IsFiniteSet(S), NEW f \in [S -> Nat],
         NEW v, EsSuma(v, S, f), NEW w, EsSuma(w, S, f)
  PROVE  v = w
<1>1. PICK it : Suma(it, S, f) /\ v = it[S]
  BY DEF EsSuma
<1>2. PICK ti : Suma(ti, S, f) /\ w = ti[S]
  BY DEF EsSuma
<1>. DEFINE T == {s \in SUBSET S : it[s] = ti[s]}
<1>3. {} \in T
  BY <1>1, <1>2 DEF Suma
<1>4. ASSUME NEW s \in SUBSET S, s # {}, s \ {Alguno(s)} \in T
      PROVE  s \in T
  BY <1>1, <1>2, <1>4 DEF Suma
<1>5. T = SUBSET S
  <2>. HIDE DEF T
  <2>1. T \in SUBSET SUBSET S
    BY DEF T
  <2>. QED BY <1>3, <1>4, <2>1, Partes
<1>. QED BY <1>1, <1>2, <1>5

-----------------------------------------------------------------------------
(* Folds of a sequence, which take the last element first. *)

\* A set of indices with something in it has a last one, which is what Max gives.
LEMMA Ultima ==
  ASSUME NEW n \in Nat, NEW s \in SUBSET (1..n), s # {}
  PROVE  Max(s) \in s /\ \A i \in s : i <= Max(s)
<1>. DEFINE T == {k \in 0..n : \A i \in s : i <= k}
<1>1. T \in SUBSET Nat /\ n \in T
  OBVIOUS
<1>2. PICK k \in T : \A j \in T : k <= j
  <2>. HIDE DEF T
  <2>. QED BY <1>1, Menor
<1>3. k \in s
  <2>. SUFFICES ASSUME k \notin s
                PROVE  FALSE
    OBVIOUS
  <2>1. k \in 0..n /\ \A i \in s : i <= k /\ i # k /\ i \in 1..n
    BY <1>2
  <2>2. \A i \in s : i <= k - 1 /\ 1 <= i
    BY <2>1
  <2>3. k - 1 \in 0..n
    <3>1. PICK e \in s : e \in 1..n
      OBVIOUS
    <3>. QED BY <2>1, <2>2, <3>1
  <2>4. k - 1 \in T
    BY <2>2, <2>3
  <2>. QED BY <1>2, <2>1, <2>4
<1>. QED BY <1>2, <1>3 DEF Max

\* The fold of a sequence that adds up what f gives of each index.
Recorre(it, n, f) ==
  it = [s \in SUBSET (1..n) |-> IF s = {} THEN 0 ELSE it[s \ {Max(s)}] + f[Max(s)]]

LEMMA HayRecorrido ==
  ASSUME NEW n \in Nat, NEW f \in [1..n -> Nat]
  PROVE  \E it : Recorre(it, n, f)
<1>. DEFINE a == [s \in SUBSET (1..n) |-> Max(s)]
<1>1. \A s \in SUBSET (1..n) : a[s] = Max(s) /\ (s # {} => a[s] \in s)
  BY Ultima
<1>. HIDE DEF a
<1>2. IsFiniteSet(1..n)
  BY FS_Interval
<1>3. PICK it \in [SUBSET (1..n) -> Nat] : SumaPor(it, 1..n, f, a)
  <2>1. Elige(a, 1..n)
    BY <1>1 DEF Elige
  <2>. QED BY <1>2, <2>1, HaySumaPor
<1>4. ASSUME NEW s \in SUBSET (1..n)
      PROVE  it[s] = IF s = {} THEN 0 ELSE it[s \ {Max(s)}] + f[Max(s)]
  <2>1. it[s] = IF s = {} THEN 0 ELSE f[a[s]] + it[s \ {a[s]}]
    BY <1>3 DEF SumaPor
  <2>2. CASE s = {}
    BY <2>1, <2>2
  <2>3. CASE s # {}
    <3>1. f[Max(s)] \in Nat /\ it[s \ {Max(s)}] \in Nat
      BY <1>1, <2>3
    <3>2. f[Max(s)] + it[s \ {Max(s)}] = it[s \ {Max(s)}] + f[Max(s)]
      BY <3>1
    <3>3. it[s] = f[Max(s)] + it[s \ {Max(s)}]
      BY <1>1, <2>1, <2>3
    <3>. QED BY <2>3, <3>2, <3>3
  <2>. QED BY <2>2, <2>3
<1>5. it = [s \in SUBSET (1..n) |-> IF s = {} THEN 0 ELSE it[s \ {Max(s)}] + f[Max(s)]]
  BY <1>4
<1>. QED BY <1>5 DEF Recorre

\* It is a natural; and if there is one element, what f gives of it.
LEMMA Recorrido ==
  ASSUME NEW n \in Nat, NEW f \in [1..n -> Nat], NEW it, Recorre(it, n, f)
  PROVE  it[1..n] \in Nat /\ (n = 1 => it[1..n] = f[1])
<1>. DEFINE a == [s \in SUBSET (1..n) |-> Max(s)]
            T == {s \in SUBSET (1..n) : it[s] \in Nat}
<1>1. \A s \in SUBSET (1..n) : a[s] = Max(s) /\ (s # {} => a[s] \in s)
  BY Ultima
<1>2. IsFiniteSet(1..n)
  BY FS_Interval
<1>3. {} \in T
  BY DEF Recorre
<1>4. ASSUME NEW s \in SUBSET (1..n), s # {}, s \ {a[s]} \in T
      PROVE  s \in T
  <2>1. f[Max(s)] \in Nat /\ it[s \ {Max(s)}] \in Nat
    BY <1>1, <1>4
  <2>2. it[s] = it[s \ {Max(s)}] + f[Max(s)]
    BY <1>4 DEF Recorre
  <2>. QED BY <2>1, <2>2
<1>5. T = SUBSET (1..n)
  <2>. HIDE DEF a, T
  <2>1. T \in SUBSET SUBSET (1..n)
    BY DEF T
  <2>2. Elige(a, 1..n)
    BY <1>1 DEF Elige
  <2>3. \A s \in SUBSET (1..n) : s # {} /\ s \ {a[s]} \in T => s \in T
    BY <1>4
  <2>4. ASSUME NEW D, D = 1..n
        PROVE  T = SUBSET D
    <3>1. IsFiniteSet(D) /\ T \in SUBSET SUBSET D /\ Elige(a, D)
      BY <1>2, <2>1, <2>2, <2>4
    <3>2. \A s \in SUBSET D : s # {} /\ s \ {a[s]} \in T => s \in T
      BY <2>3, <2>4
    <3>. QED BY <1>3, <3>1, <3>2, PartesPor
  <2>. QED BY <2>4
<1>6. ASSUME n = 1
      PROVE  it[1..n] = f[1]
  <2>1. 1..n = {1}
    BY <1>6
  <2>2. Max({1}) = 1
    BY <1>6, <2>1, Ultima
  <2>3. it[{1}] = it[{}] + f[1] /\ it[{}] = 0
    BY <2>1, <2>2, ZenonT(60) DEF Recorre
  <2>4. f[1] \in Nat
    BY <2>1
  <2>. QED BY <2>1, <2>3, <2>4
<1>. QED BY <1>5, <1>6
-----------------------------------------------------------------------------
(* Recursion over the naturals. *)

\* g follows F from b for n steps.
Itera(g, b, F, n) == g[0] = b /\ \A j \in Nat : j < n => g[j + 1] = F[j, g[j]]

\* Two that do agree as far as both go.
LEMMA IteraUna ==
  ASSUME NEW g, NEW h, NEW b, NEW F, NEW n \in Nat, Itera(g, b, F, n), Itera(h, b, F, n)
  PROVE  \A j \in 0..n : g[j] = h[j]
<1>. DEFINE T == {j \in Nat : j <= n => g[j] = h[j]}
<1>1. 0 \in T
  BY DEF Itera
<1>2. ASSUME NEW j \in T
      PROVE  j + 1 \in T
  <2>1. j \in Nat /\ j + 1 \in Nat /\ (j <= n => g[j] = h[j])
    OBVIOUS
  <2>2. ASSUME j + 1 <= n
        PROVE  g[j + 1] = h[j + 1]
    <3>1. j < n /\ j <= n
      BY <2>1, <2>2
    <3>2. g[j + 1] = F[j, g[j]] /\ h[j + 1] = F[j, h[j]]
      BY <2>1, <3>1 DEF Itera
    <3>. QED BY <2>1, <3>1, <3>2
  <2>. QED BY <2>1, <2>2
<1>3. T = Nat
  <2>. HIDE DEF T
  <2>1. T \in SUBSET Nat
    BY DEF T
  <2>. QED BY <1>1, <1>2, <2>1, Todos
<1>. QED BY <1>3

\* There is one that goes on for ever.
IteraSiempre(g, b, F) == g[0] = b /\ \A j \in Nat : g[j + 1] = F[j, g[j]]

LEMMA HayItera ==
  ASSUME NEW X, NEW b \in X, NEW F \in [Nat \X X -> X]
  PROVE  \E g \in [Nat -> X] : IteraSiempre(g, b, F)
<1>. DEFINE T == {n \in Nat : \E g \in [Nat -> X] : Itera(g, b, F, n)}
<1>1. 0 \in T
  <2>1. PICK g \in [Nat -> X] : g = [j \in Nat |-> b]
    OBVIOUS
  <2>2. g[0] = b /\ \A j \in Nat : ~(j < 0)
    BY <2>1
  <2>3. Itera(g, b, F, 0)
    BY <2>2 DEF Itera
  <2>. QED BY <2>3
<1>2. ASSUME NEW n \in T
      PROVE  n + 1 \in T
  <2>1. PICK g \in [Nat -> X] : Itera(g, b, F, n)
    OBVIOUS
  <2>. DEFINE h == [g EXCEPT ![n + 1] = F[n, g[n]]]
  <2>a. n \in Nat /\ n + 1 \in Nat
    OBVIOUS
  <2>. HIDE DEF T
  <2>b. F[n, g[n]] \in X
    <3>1. <<n, g[n]>> \in Nat \X X
      BY <2>a
    <3>. QED BY <3>1
  <2>2. n \in Nat /\ n + 1 \in Nat /\ h \in [Nat -> X]
    BY <2>a, <2>b
  <2>3. \A j \in Nat : h[j] = IF j = n + 1 THEN F[n, g[n]] ELSE g[j]
    BY <2>2
  <2>. HIDE DEF h
  <2>4. h[0] = b
    <3>1. 0 \in Nat /\ 0 # n + 1
      BY <2>a
    <3>. QED BY <2>1, <2>3, <3>1 DEF Itera
  <2>5. ASSUME NEW j \in Nat, j < n + 1
        PROVE  h[j + 1] = F[j, h[j]]
    <3>0. j # n + 1
      BY <2>a, <2>5
    <3>1. j # n + 1 /\ h[j] = g[j]
      BY <2>3, <3>0
    <3>2. CASE j = n
      BY <2>2, <2>3, <3>1, <3>2
    <3>3. CASE j # n
      <4>1. j < n /\ j + 1 # n + 1 /\ j + 1 \in Nat
        BY <2>2, <2>5, <3>3
      <4>2. h[j + 1] = g[j + 1] /\ g[j + 1] = F[j, g[j]]
        BY <2>1, <2>3, <4>1 DEF Itera
      <4>. QED BY <3>1, <4>2
    <3>. QED BY <3>2, <3>3
  <2>6. Itera(h, b, F, n + 1)
    BY <2>4, <2>5 DEF Itera
  <2>. QED BY <2>2, <2>6 DEF T
<1>3. T = Nat
  <2>. HIDE DEF T
  <2>1. T \in SUBSET Nat
    BY DEF T
  <2>. QED BY <1>1, <1>2, <2>1, Todos
<1>. DEFINE a == [n \in Nat |-> CHOOSE g \in [Nat -> X] : Itera(g, b, F, n)]
            d == [n \in Nat |-> a[n][n]]
<1>4. ASSUME NEW n \in Nat
      PROVE  a[n] \in [Nat -> X] /\ Itera(a[n], b, F, n)
  <2>1. \E g \in [Nat -> X] : Itera(g, b, F, n)
    BY <1>3
  <2>2. a[n] = CHOOSE g \in [Nat -> X] : Itera(g, b, F, n)
    OBVIOUS
  <2>. HIDE DEF a
  <2>. QED BY <2>1, <2>2, Zenon
<1>. HIDE DEF a, T
<1>5. d \in [Nat -> X]
  BY <1>4
<1>6. d[0] = b
  BY <1>4 DEF Itera
<1>7. ASSUME NEW j \in Nat
      PROVE  d[j + 1] = F[j, d[j]]
  <2>1. j + 1 \in Nat /\ j < j + 1
    OBVIOUS
  <2>2. Itera(a[j + 1], b, F, j)
    <3>1. \A i \in Nat : i < j => i < j + 1
      OBVIOUS
    <3>2. Itera(a[j + 1], b, F, j + 1)
      BY <1>4, <2>1
    <3>. QED BY <3>1, <3>2 DEF Itera
  <2>3. a[j + 1][j] = a[j][j]
    <3>1. \A i \in 0..j : a[j + 1][i] = a[j][i]
      BY <1>4, <2>2, IteraUna
    <3>. QED BY <3>1
  <2>4. a[j + 1][j + 1] = F[j, a[j + 1][j]]
    BY <1>4, <2>1 DEF Itera
  <2>. QED BY <2>1, <2>3, <2>4
<1>. HIDE DEF d
<1>. QED BY <1>5, <1>6, <1>7 DEF IteraSiempre
=============================================================================
