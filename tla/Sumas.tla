---- MODULE Sumas ----
(* Sums over finite sets, for the proofs of the models that count with them (Anuncios,    *)
(* Limitador, Metricas, Busquedas, Tableros), and ranks.                                  *)
EXTENDS Integers, FiniteSets, Functions, FiniteSetTheorems, WellFoundedInduction, TLAPS

\* The sum of f over S, as the models write it.
Sumatoria(f, S) == FoldFunctionOnSet(+, 0, f, S)

\* A set of naturals has a least one, and one of subsets of a finite set a smallest one:
\* how induction is done here, by the smallest counterexample.
LEMMA MenorNat == ASSUME NEW T, T \subseteq Nat, T # {} PROVE \E n \in T : \A m \in T : n <= m
<1>1. PICK n \in T : \A m \in T : ~(<<m, n>> \in OpToRel(<, Nat))  BY NatLessThanWellFounded, WFMin
<1>2. \A m \in T : ~(m < n)  BY <1>1 DEF OpToRel
<1> QED BY <1>2

LEMMA MenorParte ==
    ASSUME NEW S, IsFiniteSet(S), NEW T, T \subseteq SUBSET S, T # {}
    PROVE  \E x \in T : \A y \in T : ~(y \subseteq x /\ y # x)
<1>0. FiniteSubsetsOf(S) = SUBSET S  BY FS_Subset DEF FiniteSubsetsOf
<1>1. IsWellFoundedOn(StrictSubsetOrdering(S), SUBSET S)
  BY <1>0, FS_StrictSubsetOrderingWellFounded
<1>2. PICK x \in T : \A y \in T : ~ (<<y, x>> \in StrictSubsetOrdering(S))  BY <1>1, WFMin
<1> QED BY <1>2 DEF StrictSubsetOrdering

\* MapThenFoldSet takes any element first: a table of the sums of the parts of S.
AlgunoDe(s) == CHOOSE x \in s : TRUE
Parcial(f, g, s) == IF s = {} THEN 0 ELSE f[AlgunoDe(s)] + g[s \ {AlgunoDe(s)}]
Parciales(f, D, g) == g = [s \in D |-> Parcial(f, g, s)]

LEMMA AlgunoEsta == ASSUME NEW s, s # {} PROVE AlgunoDe(s) \in s
  BY DEF AlgunoDe

\* There is such a table, which the fold is the last row of.
LEMMA HayParciales ==
    ASSUME NEW f, NEW S, IsFiniteSet(S)
    PROVE  \E g : Parciales(f, SUBSET S, g)
<1> DEFINE D(n) == {s \in SUBSET S : Cardinality(s) <= n}
           T == {n \in Nat : ~ \E g : Parciales(f, D(n), g)}
<1>0. \A s \in SUBSET S : IsFiniteSet(s) /\ Cardinality(s) \in Nat
          /\ Cardinality(s) <= Cardinality(S)
  BY FS_Subset, FS_CardinalityType
<1>1. T = {}
  <2> SUFFICES ASSUME T # {} PROVE FALSE  OBVIOUS
  <2>1. PICK n \in T : \A m \in T : n <= m  BY MenorNat
  <2>2. CASE n = 0
    <3>1. D(0) = {{}}
      <4>1. \A s \in D(0) : s = {}  BY <1>0, FS_EmptySet
      <4>2. {} \in D(0)  BY FS_EmptySet
      <4> QED BY <4>1, <4>2
    <3>2. PICK g : g = [s \in D(0) |-> 0]  OBVIOUS
    <3>3. Parciales(f, D(0), g)  BY <3>1, <3>2 DEF Parciales, Parcial
    <3> QED BY <2>1, <2>2, <3>3
  <2>3. CASE n # 0
    <3>0. n \in Nat /\ n - 1 \in Nat  BY <2>1, <2>3
    <3>1. n \in Nat /\ n - 1 \in Nat /\ n - 1 \notin T
      <4> HIDE DEF T
      <4>1. ~(n <= n - 1)  BY <3>0
      <4> QED BY <2>1, <3>0, <4>1
    <3>2. PICK g : Parciales(f, D(n - 1), g)  BY <3>1
    <3>3. PICK h : h = [s \in D(n) |-> IF s \in D(n - 1) THEN g[s] ELSE Parcial(f, g, s)]  OBVIOUS
    <3>4. \A s \in D(n) : s # {} => s \ {AlgunoDe(s)} \in D(n - 1)
      <4> SUFFICES ASSUME NEW s \in D(n), s # {} PROVE s \ {AlgunoDe(s)} \in D(n - 1)  OBVIOUS
      <4>1. Cardinality(s \ {AlgunoDe(s)}) = Cardinality(s) - 1
        BY <1>0, AlgunoEsta, FS_RemoveElement
      <4>2. Cardinality(s) \in Nat /\ Cardinality(s) <= n  BY <1>0
      <4> QED BY <3>1, <4>1, <4>2
    <3>5. \A s \in D(n - 1) : s \in D(n) /\ g[s] = Parcial(f, g, s)
      <4>1. \A s \in D(n - 1) : g[s] = Parcial(f, g, s)  BY <3>2 DEF Parciales
      <4>2. \A s \in D(n - 1) : s \in D(n)  BY <1>0, <3>1
      <4> QED BY <4>1, <4>2
    <3> HIDE DEF D
    <3>6. \A s \in D(n - 1) : h[s] = g[s]  BY <3>3, <3>5
    <3>7. \A s \in D(n) : h[s] = Parcial(f, g, s) /\ Parcial(f, g, s) = Parcial(f, h, s)
      BY <3>3, <3>4, <3>5, <3>6 DEF Parcial
    <3>8. h = [s \in D(n) |-> Parcial(f, h, s)]  BY <3>3, <3>7
    <3> QED BY <2>1, <3>8 DEF Parciales
  <2> QED BY <2>2, <2>3
<1>2. D(Cardinality(S)) = SUBSET S  BY <1>0
<1>3. Cardinality(S) \in Nat  BY FS_CardinalityType
<1> HIDE DEF D
<1> QED BY <1>1, <1>2, <1>3

LEMMA SumaTabulada ==
    ASSUME NEW f, NEW S, IsFiniteSet(S)
    PROVE  \E g : Parciales(f, SUBSET S, g) /\ Sumatoria(f, S) = g[S]
<1> DEFINE g == CHOOSE g : Parciales(f, SUBSET S, g)
<1>1. Parciales(f, SUBSET S, g)  BY HayParciales
<1>2. Sumatoria(f, S) = g[S]
  BY DEF Sumatoria, FoldFunctionOnSet, MapThenFoldSet, Parciales, Parcial, AlgunoDe
<1> QED BY <1>1, <1>2

\* Two tables of partial sums agree where both are defined.
LEMMA ParcialesIguales ==
    ASSUME NEW f, NEW h, NEW S, IsFiniteSet(S), NEW g1, NEW g2,
           Parciales(f, SUBSET S, g1), Parciales(h, SUBSET S, g2), \A i \in S : f[i] = h[i]
    PROVE  g1[S] = g2[S]
<1> DEFINE T == {s \in SUBSET S : g1[s] # g2[s]}
<1>1. T = {}
  <2> SUFFICES ASSUME T # {} PROVE FALSE  OBVIOUS
  <2>1. PICK s \in T : \A t \in T : ~(t \subseteq s /\ t # s)
    <3>1. T \subseteq SUBSET S  OBVIOUS
    <3> HIDE DEF T
    <3> QED BY <3>1, MenorParte
  <2>2. g1[s] = Parcial(f, g1, s) /\ g2[s] = Parcial(h, g2, s)  BY <2>1 DEF Parciales
  <2>3. CASE s = {}  BY <2>1, <2>2, <2>3 DEF Parcial
  <2>4. CASE s # {}
    <3>1. AlgunoDe(s) \in s  BY <2>4, AlgunoEsta
    <3>2. s \ {AlgunoDe(s)} \notin T /\ s \ {AlgunoDe(s)} \subseteq S /\ AlgunoDe(s) \in S
      BY <2>1, <3>1
    <3> QED BY <2>1, <2>2, <2>4, <3>2 DEF Parcial
  <2> QED BY <2>3, <2>4
<1> QED BY <1>1

LEMMA SumaVacia == ASSUME NEW f PROVE Sumatoria(f, {}) = 0
  BY DEF Sumatoria, FoldFunctionOnSet, MapThenFoldSet

\* The recursion that the fold stands for: with the element it chooses, then (SumaQuita)
\* with any other.
LEMMA SumaElige ==
    ASSUME NEW f, NEW S, IsFiniteSet(S), S # {}
    PROVE  Sumatoria(f, S) = f[AlgunoDe(S)] + Sumatoria(f, S \ {AlgunoDe(S)})
<1>1. PICK g1 : Parciales(f, SUBSET S, g1) /\ Sumatoria(f, S) = g1[S]  BY SumaTabulada
<1>2. PICK R : R = S \ {AlgunoDe(S)}  OBVIOUS
<1>3. IsFiniteSet(R) /\ R \subseteq S  BY <1>2, FS_Subset
<1>4. PICK g2 : Parciales(f, SUBSET R, g2) /\ Sumatoria(f, R) = g2[R]  BY <1>3, SumaTabulada
<1>5. g1[R] = g2[R]
  <2>1. PICK g3 : g3 = [s \in SUBSET R |-> g1[s]]  OBVIOUS
  <2>2. \A s \in SUBSET R : g3[s] = Parcial(f, g3, s)
    <3>1. \A s \in SUBSET R : g1[s] = Parcial(f, g1, s)  BY <1>1, <1>3 DEF Parciales
    <3>2. \A s \in SUBSET R : s \ {AlgunoDe(s)} \in SUBSET R  OBVIOUS
    <3> QED BY <2>1, <3>1, <3>2 DEF Parcial
  <2>3. Parciales(f, SUBSET R, g3)  BY <2>1, <2>2 DEF Parciales
  <2>4. g3[R] = g2[R]  BY <1>3, <1>4, <2>3, ParcialesIguales
  <2> QED BY <2>1, <2>4
<1>6. g1[S] = f[AlgunoDe(S)] + g1[R]  BY <1>1, <1>2 DEF Parciales, Parcial
<1> QED BY <1>1, <1>2, <1>4, <1>5, <1>6

\* Sums of the same numbers.
LEMMA SumaIgual ==
    ASSUME NEW f, NEW h, NEW S, IsFiniteSet(S), \A i \in S : f[i] = h[i]
    PROVE  Sumatoria(f, S) = Sumatoria(h, S)
<1>1. PICK g1 : Parciales(f, SUBSET S, g1) /\ Sumatoria(f, S) = g1[S]  BY SumaTabulada
<1>2. PICK g2 : Parciales(h, SUBSET S, g2) /\ Sumatoria(h, S) = g2[S]  BY SumaTabulada
<1> QED BY <1>1, <1>2, ParcialesIguales

LEMMA SumaInt ==
    ASSUME NEW f, NEW S, IsFiniteSet(S), \A i \in S : f[i] \in Int
    PROVE  Sumatoria(f, S) \in Int
<1> DEFINE T == {s \in SUBSET S : Sumatoria(f, s) \notin Int}
<1>1. T = {}
  <2> SUFFICES ASSUME T # {} PROVE FALSE  OBVIOUS
  <2>1. PICK s \in T : \A t \in T : ~(t \subseteq s /\ t # s)
    <3>1. T \subseteq SUBSET S  OBVIOUS
    <3> HIDE DEF T
    <3> QED BY <3>1, MenorParte
  <2>2. s # {} /\ IsFiniteSet(s) /\ s \subseteq S
    <3>1. s \in SUBSET S  BY <2>1
    <3>2. IsFiniteSet(s)  BY <3>1, FS_Subset
    <3>3. CASE s = {}  BY <2>1, <3>3, SumaVacia
    <3> QED BY <3>1, <3>2, <3>3
  <2>3. AlgunoDe(s) \in s  BY <2>2, AlgunoEsta
  <2>4. Sumatoria(f, s \ {AlgunoDe(s)}) \in Int  BY <2>1, <2>2, <2>3
  <2>5. Sumatoria(f, s) = f[AlgunoDe(s)] + Sumatoria(f, s \ {AlgunoDe(s)})  BY <2>2, SumaElige
  <2>6. f[AlgunoDe(s)] \in Int  BY <2>2, <2>3
  <2>7. Sumatoria(f, s) \in Int  BY <2>4, <2>5, <2>6
  <2> QED BY <2>1, <2>7
<1> QED BY <1>1

\* Any element may be taken out.
LEMMA SumaQuita ==
    ASSUME NEW f, NEW S, IsFiniteSet(S), \A i \in S : f[i] \in Int, NEW x \in S
    PROVE  Sumatoria(f, S) = f[x] + Sumatoria(f, S \ {x})
<1> DEFINE T == {s \in SUBSET S : \E y \in s : Sumatoria(f, s) # f[y] + Sumatoria(f, s \ {y})}
<1>1. T = {}
  <2> SUFFICES ASSUME T # {} PROVE FALSE  OBVIOUS
  <2>1. PICK s \in T : \A t \in T : ~(t \subseteq s /\ t # s)
    <3>1. T \subseteq SUBSET S  OBVIOUS
    <3> HIDE DEF T
    <3> QED BY <3>1, MenorParte
  <2>2. PICK y \in s : Sumatoria(f, s) # f[y] + Sumatoria(f, s \ {y})  BY <2>1
  <2>3. PICK c : c = AlgunoDe(s)  OBVIOUS
  <2>4. c \in s /\ IsFiniteSet(s) /\ s \subseteq S  BY <2>1, <2>2, <2>3, AlgunoEsta, FS_Subset
  <2>5. Sumatoria(f, s) = f[c] + Sumatoria(f, s \ {c})  BY <2>2, <2>3, <2>4, SumaElige
  <2>6. c # y  BY <2>2, <2>5
  <2>7. s \ {c} \notin T /\ s \ {y} \notin T /\ s \ {c} \subseteq S /\ s \ {y} \subseteq S
    BY <2>1, <2>2, <2>4
  <2>8. /\ Sumatoria(f, s \ {c}) = f[y] + Sumatoria(f, (s \ {c}) \ {y})
        /\ Sumatoria(f, s \ {y}) = f[c] + Sumatoria(f, (s \ {y}) \ {c})
    BY <2>2, <2>4, <2>6, <2>7
  <2>9. PICK r : r = (s \ {c}) \ {y} /\ r = (s \ {y}) \ {c}  OBVIOUS
  <2>10. IsFiniteSet(r) /\ r \subseteq S  BY <2>4, <2>9, FS_Subset
  <2>11. Sumatoria(f, r) \in Int  BY <2>10, SumaInt
  <2>12. f[c] \in Int /\ f[y] \in Int  BY <2>2, <2>4
  <2>13. PICK a, b, k : a = f[c] /\ b = f[y] /\ k = Sumatoria(f, r)  OBVIOUS
  <2>14. Sumatoria(f, s) = a + (b + k) /\ Sumatoria(f, s \ {y}) = a + k  BY <2>5, <2>8, <2>9, <2>13
  <2>15. a + (b + k) = b + (a + k)  BY <2>11, <2>12, <2>13
  <2> QED BY <2>2, <2>13, <2>14, <2>15
<1> QED BY <1>1

\* One number changes.
LEMMA SumaCambia ==
    ASSUME NEW f, NEW h, NEW S, IsFiniteSet(S), NEW x \in S,
           \A i \in S : f[i] \in Int /\ h[i] \in Int, \A i \in S : i # x => f[i] = h[i]
    PROVE  Sumatoria(h, S) = Sumatoria(f, S) - f[x] + h[x]
<1>1. PICK R : R = S \ {x}  OBVIOUS
<1>2. IsFiniteSet(R) /\ R \subseteq S  BY <1>1, FS_Subset
<1>3. Sumatoria(f, S) = f[x] + Sumatoria(f, R) /\ Sumatoria(h, S) = h[x] + Sumatoria(h, R)
  BY <1>1, SumaQuita
<1>4. Sumatoria(f, R) = Sumatoria(h, R) /\ Sumatoria(f, R) \in Int
  BY <1>1, <1>2, SumaIgual, SumaInt
<1>5. f[x] \in Int /\ h[x] \in Int  OBVIOUS
<1>6. PICK a, b, k : a = f[x] /\ b = h[x] /\ k = Sumatoria(f, R)  OBVIOUS
<1>7. b + k = (a + k) - a + b  BY <1>4, <1>5, <1>6
<1> QED BY <1>3, <1>4, <1>6, <1>7

\* An element that was not there.
LEMMA SumaPone ==
    ASSUME NEW f, NEW S, IsFiniteSet(S), NEW x, x \notin S, \A i \in S \cup {x} : f[i] \in Int
    PROVE  Sumatoria(f, S \cup {x}) = f[x] + Sumatoria(f, S)
<1>1. IsFiniteSet(S \cup {x}) /\ (S \cup {x}) \ {x} = S  BY FS_AddElement
<1> QED BY <1>1, SumaQuita

\* Greater numbers give no smaller a sum.
LEMMA SumaMonotona ==
    ASSUME NEW f, NEW h, NEW S, IsFiniteSet(S), \A i \in S : f[i] \in Int /\ h[i] \in Int,
           \A i \in S : f[i] <= h[i]
    PROVE  Sumatoria(f, S) <= Sumatoria(h, S)
<1> DEFINE T == {s \in SUBSET S : ~(Sumatoria(f, s) <= Sumatoria(h, s))}
<1>1. T = {}
  <2> SUFFICES ASSUME T # {} PROVE FALSE  OBVIOUS
  <2>1. PICK s \in T : \A t \in T : ~(t \subseteq s /\ t # s)
    <3>1. T \subseteq SUBSET S  OBVIOUS
    <3> HIDE DEF T
    <3> QED BY <3>1, MenorParte
  <2>2. s # {} /\ IsFiniteSet(s) /\ s \subseteq S
    <3>1. s \in SUBSET S  BY <2>1
    <3>2. IsFiniteSet(s)  BY <3>1, FS_Subset
    <3>3. CASE s = {}  BY <2>1, <3>3, SumaVacia
    <3> QED BY <3>1, <3>2, <3>3
  <2>3. PICK c \in s : c = AlgunoDe(s)  BY <2>2, AlgunoEsta
  <2>4. PICK r : r = s \ {c}  OBVIOUS
  <2>5. r \notin T /\ r \subseteq S /\ IsFiniteSet(r)  BY <2>1, <2>2, <2>3, <2>4, FS_Subset
  <2>6. Sumatoria(f, s) = f[c] + Sumatoria(f, r) /\ Sumatoria(h, s) = h[c] + Sumatoria(h, r)
    BY <2>2, <2>3, <2>4, SumaElige
  <2>7. Sumatoria(f, r) <= Sumatoria(h, r) /\ Sumatoria(f, r) \in Int /\ Sumatoria(h, r) \in Int
    BY <2>5, SumaInt
  <2>8. PICK a, b : a = f[c] /\ b = h[c]  OBVIOUS
  <2>9. a \in Int /\ b \in Int /\ a <= b  BY <2>2, <2>8
  <2>10. Sumatoria(f, s) <= Sumatoria(h, s)  BY <2>6, <2>7, <2>8, <2>9
  <2> QED BY <2>1, <2>10
<1> QED BY <1>1

LEMMA SumaCeros ==
    ASSUME NEW f, NEW S, IsFiniteSet(S), \A i \in S : f[i] = 0
    PROVE  Sumatoria(f, S) = 0
<1> DEFINE T == {s \in SUBSET S : Sumatoria(f, s) # 0}
<1>1. T = {}
  <2> SUFFICES ASSUME T # {} PROVE FALSE  OBVIOUS
  <2>1. PICK s \in T : \A t \in T : ~(t \subseteq s /\ t # s)
    <3>1. T \subseteq SUBSET S  OBVIOUS
    <3> HIDE DEF T
    <3> QED BY <3>1, MenorParte
  <2>2. s # {} /\ IsFiniteSet(s) /\ s \subseteq S
    <3>1. s \in SUBSET S  BY <2>1
    <3>2. IsFiniteSet(s)  BY <3>1, FS_Subset
    <3>3. CASE s = {}  BY <2>1, <3>3, SumaVacia
    <3> QED BY <3>1, <3>2, <3>3
  <2>3. PICK c \in s : c = AlgunoDe(s)  BY <2>2, AlgunoEsta
  <2>4. Sumatoria(f, s \ {c}) = 0 /\ f[c] = 0  BY <2>1, <2>2, <2>3
  <2>5. Sumatoria(f, s) = f[c] + Sumatoria(f, s \ {c})  BY <2>2, <2>3, SumaElige
  <2> QED BY <2>1, <2>4, <2>5
<1> QED BY <1>1

LEMMA SumaNat ==
    ASSUME NEW f, NEW S, IsFiniteSet(S), \A i \in S : f[i] \in Nat
    PROVE  Sumatoria(f, S) \in Nat
<1>1. PICK z : z = [i \in S |-> 0]  OBVIOUS
<1>2. Sumatoria(z, S) = 0  BY <1>1, SumaCeros
<1>3. \A i \in S : f[i] \in Int /\ z[i] \in Int /\ z[i] <= f[i]  BY <1>1
<1>4. Sumatoria(z, S) <= Sumatoria(f, S)  BY <1>3, SumaMonotona
<1>5. Sumatoria(f, S) \in Int  BY SumaInt
<1> QED BY <1>2, <1>4, <1>5

\* The sum of the sums.
LEMMA SumaMas ==
    ASSUME NEW f, NEW h, NEW g, NEW S, IsFiniteSet(S),
           \A i \in S : f[i] \in Int /\ h[i] \in Int /\ g[i] = f[i] + h[i]
    PROVE  Sumatoria(g, S) = Sumatoria(f, S) + Sumatoria(h, S)
<1> DEFINE T == {s \in SUBSET S : Sumatoria(g, s) # Sumatoria(f, s) + Sumatoria(h, s)}
<1>1. T = {}
  <2> SUFFICES ASSUME T # {} PROVE FALSE  OBVIOUS
  <2>1. PICK s \in T : \A t \in T : ~(t \subseteq s /\ t # s)
    <3>1. T \subseteq SUBSET S  OBVIOUS
    <3> HIDE DEF T
    <3> QED BY <3>1, MenorParte
  <2>2. s # {} /\ IsFiniteSet(s) /\ s \subseteq S
    <3>1. s \in SUBSET S  BY <2>1
    <3>2. IsFiniteSet(s)  BY <3>1, FS_Subset
    <3>3. CASE s = {}  BY <2>1, <3>3, SumaVacia
    <3> QED BY <3>1, <3>2, <3>3
  <2>3. PICK c \in s : c = AlgunoDe(s)  BY <2>2, AlgunoEsta
  <2>4. PICK r : r = s \ {c}  OBVIOUS
  <2>5. r \notin T /\ r \subseteq S /\ IsFiniteSet(r)  BY <2>1, <2>2, <2>3, <2>4, FS_Subset
  <2>6. /\ Sumatoria(f, s) = f[c] + Sumatoria(f, r) /\ Sumatoria(h, s) = h[c] + Sumatoria(h, r)
        /\ Sumatoria(g, s) = g[c] + Sumatoria(g, r)
    BY <2>2, <2>3, <2>4, SumaElige
  <2>7. Sumatoria(g, r) = Sumatoria(f, r) + Sumatoria(h, r) /\ Sumatoria(f, r) \in Int
            /\ Sumatoria(h, r) \in Int
    BY <2>5, SumaInt
  <2>8. PICK a, b : a = f[c] /\ b = h[c]  OBVIOUS
  <2>9. a \in Int /\ b \in Int /\ g[c] = a + b  BY <2>2, <2>8
  <2>10. Sumatoria(g, s) = Sumatoria(f, s) + Sumatoria(h, s)  BY <2>6, <2>7, <2>8, <2>9
  <2> QED BY <2>1, <2>10
<1> QED BY <1>1

LEMMA MayorDe ==
    ASSUME NEW S, IsFiniteSet(S), S \subseteq Int, S # {}
    PROVE  \E x \in S : \A y \in S : x >= y
<1> DEFINE T == {s \in SUBSET S : s # {} /\ ~ \E x \in s : \A y \in s : x >= y}
<1>1. T = {}
  <2> SUFFICES ASSUME T # {} PROVE FALSE  OBVIOUS
  <2>1. PICK s \in T : \A t \in T : ~(t \subseteq s /\ t # s)
    <3>1. T \subseteq SUBSET S  OBVIOUS
    <3> HIDE DEF T
    <3>2. \E x \in T : \A y \in T : ~(y \subseteq x /\ y # x)
      BY ONLY IsFiniteSet(S), T # {}, <3>1, MenorParte
    <3> QED BY <3>2
  <2>2. PICK c \in s : TRUE  BY <2>1
  <2>3. PICK r : r = s \ {c}  OBVIOUS
  <2>4. r \notin T /\ r \subseteq S /\ c \in Int  BY <2>1, <2>2, <2>3
  <2>5. CASE r = {}
    <3>1. \A y \in s : y = c  BY <2>3, <2>5
    <3> QED BY <2>1, <2>2, <2>4, <3>1
  <2>6. CASE r # {}
    <3>1. PICK x \in r : \A y \in r : x >= y  BY <2>4, <2>6
    <3>2. x \in Int /\ x \in s  BY <2>3, <2>4, <3>1
    <3>3. CASE x >= c  BY <2>1, <2>3, <3>1, <3>2, <3>3
    <3>4. CASE c >= x
      <4>1. \A y \in r : c >= y  BY <2>4, <3>1, <3>2, <3>4
      <4>2. \A y \in s : c >= y  BY <2>3, <2>4, <4>1
      <4> QED BY <2>1, <2>2, <4>2
    <3> QED BY <2>4, <3>2, <3>3, <3>4
  <2> QED BY <2>5, <2>6
<1>2. S \notin T  BY <1>1
<1> QED BY <1>2

\* Numbers of two sets with nothing in common.
LEMMA SumaDisjunta ==
    ASSUME NEW f, NEW A, NEW B, IsFiniteSet(A), IsFiniteSet(B), A \cap B = {},
           \A i \in A \cup B : f[i] \in Int
    PROVE  Sumatoria(f, A \cup B) = Sumatoria(f, A) + Sumatoria(f, B)
<1> DEFINE T == {b \in SUBSET B : Sumatoria(f, A \cup b) # Sumatoria(f, A) + Sumatoria(f, b)}
<1>0. Sumatoria(f, A) \in Int  BY SumaInt
<1>1. T = {}
  <2> SUFFICES ASSUME T # {} PROVE FALSE  OBVIOUS
  <2>1. PICK b \in T : \A t \in T : ~(t \subseteq b /\ t # b)
    <3>1. T \subseteq SUBSET B  OBVIOUS
    <3> HIDE DEF T
    <3>2. \E x \in T : \A y \in T : ~(y \subseteq x /\ y # x)
      BY ONLY IsFiniteSet(B), T # {}, <3>1, MenorParte
    <3> QED BY <3>2
  <2>2. b # {} /\ b \subseteq B
    <3>1. CASE b = {}
      <4>1. A \cup b = A  BY <3>1
      <4> QED BY <1>0, <2>1, <3>1, <4>1, SumaVacia
    <3> QED BY <2>1, <3>1
  <2>3. PICK c \in b : TRUE  BY <2>2
  <2>4. PICK r : r = b \ {c}  OBVIOUS
  <2>5. r \notin T /\ r \subseteq B  BY <2>1, <2>2, <2>3, <2>4
  <2>6. Sumatoria(f, A \cup r) = Sumatoria(f, A) + Sumatoria(f, r)  BY <2>5
  <2>7. IsFiniteSet(b) /\ IsFiniteSet(r)  BY <2>2, <2>5, FS_Subset
  <2>8. PICK u : u = A \cup b  OBVIOUS
  <2>9. IsFiniteSet(u) /\ c \in u /\ u \ {c} = A \cup r /\ \A i \in u : f[i] \in Int
    BY <2>2, <2>3, <2>4, <2>7, <2>8, FS_Union
  <2>10. Sumatoria(f, u) = f[c] + Sumatoria(f, u \ {c})  BY ONLY <2>9, SumaQuita
  <2>11. Sumatoria(f, b) = f[c] + Sumatoria(f, r)
    <3>1. \A i \in b : f[i] \in Int  BY <2>2
    <3> QED BY ONLY <2>3, <2>4, <2>7, <3>1, SumaQuita
  <2>12. Sumatoria(f, r) \in Int /\ f[c] \in Int
    <3>1. \A i \in r : f[i] \in Int  BY <2>5
    <3> QED BY <2>2, <2>3, <2>7, <3>1, SumaInt
  <2>13. PICK x, y, z : x = f[c] /\ y = Sumatoria(f, A) /\ z = Sumatoria(f, r)  OBVIOUS
  <2>14. x + (y + z) = y + (x + z)  BY <1>0, <2>12, <2>13
  <2>15. Sumatoria(f, A \cup b) = Sumatoria(f, A) + Sumatoria(f, b)
    BY <2>6, <2>8, <2>9, <2>10, <2>11, <2>13, <2>14
  <2> QED BY <2>1, <2>15
<1>2. B \notin T  BY <1>1
<1> QED BY <1>2

\* Some of the numbers, none negative.
LEMMA SumaParte ==
    ASSUME NEW f, NEW S, IsFiniteSet(S), \A i \in S : f[i] \in Nat, NEW R, R \subseteq S
    PROVE  /\ Sumatoria(f, R) <= Sumatoria(f, S) /\ Sumatoria(f, R) \in Nat
                  /\ Sumatoria(f, S) \in Nat
           /\ (\A i \in S \ R : f[i] = 0) => Sumatoria(f, R) = Sumatoria(f, S)
<1>1. PICK B : B = S \ R  OBVIOUS
<1>2. IsFiniteSet(R) /\ IsFiniteSet(B) /\ R \cap B = {} /\ R \cup B = S  BY <1>1, FS_Subset
<1>3. Sumatoria(f, R \cup B) = Sumatoria(f, R) + Sumatoria(f, B)
  <2>1. \A i \in R \cup B : f[i] \in Int  BY <1>2
  <2> QED BY ONLY <1>2, <2>1, SumaDisjunta
<1>4. Sumatoria(f, R) \in Nat  BY <1>2, SumaNat
<1>5. Sumatoria(f, B) \in Nat  BY <1>1, <1>2, SumaNat
<1>6. (\A i \in B : f[i] = 0) => Sumatoria(f, B) = 0  BY <1>2, SumaCeros
<1>7. PICK a, b, c : a = Sumatoria(f, S) /\ b = Sumatoria(f, R) /\ c = Sumatoria(f, B)  OBVIOUS
<1>8. a = b + c /\ b \in Nat /\ c \in Nat  BY <1>2, <1>3, <1>4, <1>5, <1>7
<1>9. b <= a /\ a \in Nat /\ (c = 0 => b = a)  BY <1>8
<1>10. (\A i \in S \ R : f[i] = 0) => c = 0  BY <1>1, <1>6, <1>7
<1> QED BY <1>7, <1>8, <1>9, <1>10

\* A sum is no less than any of its numbers, and is it when the others are none.
LEMMA SumaUno ==
    ASSUME NEW f, NEW S, IsFiniteSet(S), \A i \in S : f[i] \in Nat, NEW x \in S
    PROVE  /\ f[x] <= Sumatoria(f, S)
           /\ (\A i \in S : i # x => f[i] = 0) => Sumatoria(f, S) = f[x]
<1>1. PICK R : R = S \ {x}  OBVIOUS
<1>2. IsFiniteSet(R) /\ R \subseteq S  BY <1>1, FS_Subset
<1>3. Sumatoria(f, S) = f[x] + Sumatoria(f, R)
  <2>1. \A i \in S : f[i] \in Int  OBVIOUS
  <2> QED BY ONLY <1>1, <2>1, IsFiniteSet(S), x \in S, SumaQuita
<1>4. Sumatoria(f, R) \in Nat  BY <1>2, SumaNat
<1>5. (\A i \in R : f[i] = 0) => Sumatoria(f, R) = 0  BY <1>2, SumaCeros
<1>6. PICK a, b, c : a = Sumatoria(f, S) /\ b = f[x] /\ c = Sumatoria(f, R)  OBVIOUS
<1>7. a = b + c /\ b \in Nat /\ c \in Nat  BY <1>3, <1>4, <1>6
<1>8. b <= a /\ (c = 0 => a = b)  BY <1>7
<1>9. (\A i \in S : i # x => f[i] = 0) => c = 0  BY <1>1, <1>5, <1>6
<1> QED BY <1>6, <1>8, <1>9

\* The sum of ones is how many there are.
LEMMA SumaDeUnos ==
    ASSUME NEW f, NEW S, IsFiniteSet(S), \A i \in S : f[i] = 1
    PROVE  Sumatoria(f, S) = Cardinality(S)
<1> DEFINE T == {s \in SUBSET S : Sumatoria(f, s) # Cardinality(s)}
<1>1. T = {}
  <2> SUFFICES ASSUME T # {} PROVE FALSE  OBVIOUS
  <2>1. PICK s \in T : \A y \in T : ~(y \subseteq s /\ y # s)
    <3>1. T \subseteq SUBSET S  OBVIOUS
    <3> HIDE DEF T
    <3> QED BY <3>1, MenorParte
  <2>2. s \subseteq S /\ Sumatoria(f, s) # Cardinality(s)  OBVIOUS
  <2>3. s # {}  BY <2>2, SumaVacia, FS_EmptySet
  <2>4. PICK x : x \in s  BY <2>3
  <2>5. PICK r : r = s \ {x}  OBVIOUS
  <2>6. r \subseteq S /\ r \subseteq s /\ r # s  BY <2>2, <2>4, <2>5
  <2>7. Sumatoria(f, r) = Cardinality(r)  BY <2>1, <2>6
  <2>8. IsFiniteSet(s) /\ IsFiniteSet(r)  BY <2>2, <2>6, FS_Subset
  <2>9. Sumatoria(f, s) = f[x] + Sumatoria(f, r)
    <3>1. \A i \in s : f[i] \in Int  BY <2>2
    <3> QED BY ONLY <2>4, <2>5, <2>8, <3>1, SumaQuita
  <2>10. Cardinality(r) = Cardinality(s) - 1  BY ONLY <2>4, <2>5, <2>8, FS_RemoveElement
  <2>11. PICK a, b \in Nat : a = Cardinality(s) /\ b = Cardinality(r)  BY <2>8, FS_CardinalityType
  <2>12. Sumatoria(f, s) = 1 + b /\ b = a - 1  BY <2>2, <2>4, <2>7, <2>9, <2>10, <2>11
  <2> QED BY <2>2, <2>11, <2>12
<1> QED BY <1>1

\* What there is under each key, added up.
ConClave(S, clave, k) == {i \in S : clave[i] = k}
LEMMA SumaPorClave ==
    ASSUME NEW f, NEW S, IsFiniteSet(S), \A i \in S : f[i] \in Int,
           NEW clave, NEW K, IsFiniteSet(K), \A i \in S : clave[i] \in K,
           NEW g, \A k \in K : g[k] = Sumatoria(f, ConClave(S, clave, k))
    PROVE  Sumatoria(g, K) = Sumatoria(f, S)
<1> DEFINE De(L) == {i \in S : clave[i] \in L}
           T == {L \in SUBSET K : Sumatoria(g, L) # Sumatoria(f, De(L))}
<1>1. T = {}
  <2> SUFFICES ASSUME T # {} PROVE FALSE  OBVIOUS
  <2>1. PICK L \in T : \A y \in T : ~(y \subseteq L /\ y # L)
    <3>1. T \subseteq SUBSET K  OBVIOUS
    <3> HIDE DEF T
    <3> QED BY <3>1, MenorParte
  <2>2. L \subseteq K /\ Sumatoria(g, L) # Sumatoria(f, De(L))  OBVIOUS
  <2>3. L # {}
    <3>1. De({}) = {}  OBVIOUS
    <3>2. Sumatoria(g, {}) = 0 /\ Sumatoria(f, {}) = 0  BY SumaVacia
    <3> QED BY <2>2, <3>1, <3>2
  <2>4. PICK k : k \in L  BY <2>3
  <2>5. PICK R : R = L \ {k}  OBVIOUS
  <2>6. R \subseteq K /\ R \subseteq L /\ R # L  BY <2>2, <2>4, <2>5
  <2>7. Sumatoria(g, R) = Sumatoria(f, De(R))  BY <2>1, <2>6
  <2>8. IsFiniteSet(L)  BY <2>2, FS_Subset
  <2>9. PICK A, B : A = ConClave(S, clave, k) /\ B = De(R)  OBVIOUS
  <2>10. A \subseteq S /\ B \subseteq S /\ A \cap B = {} /\ A \cup B = De(L)
    BY <2>4, <2>5, <2>9 DEF ConClave
  <2>11. IsFiniteSet(A) /\ IsFiniteSet(B) /\ \A i \in A \cup B : f[i] \in Int  BY <2>10, FS_Subset
  <2>12. Sumatoria(f, A \cup B) = Sumatoria(f, A) + Sumatoria(f, B)
    BY ONLY <2>10, <2>11, SumaDisjunta
  <2>13. \A j \in L : g[j] \in Int
    <3> SUFFICES ASSUME NEW j \in L PROVE g[j] \in Int  OBVIOUS
    <3>1. PICK C : C = ConClave(S, clave, j)  OBVIOUS
    <3>2. IsFiniteSet(C) /\ \A i \in C : f[i] \in Int  BY <3>1, FS_Subset DEF ConClave
    <3>3. Sumatoria(f, C) \in Int  BY ONLY <3>2, SumaInt
    <3> QED BY <2>2, <3>1, <3>3
  <2>14. Sumatoria(g, L) = g[k] + Sumatoria(g, R)  BY ONLY <2>4, <2>5, <2>8, <2>13, SumaQuita
  <2>15. g[k] = Sumatoria(f, A)  BY <2>2, <2>4, <2>9
  <2> QED BY <2>2, <2>7, <2>9, <2>10, <2>12, <2>14, <2>15
<1>2. De(K) = S  OBVIOUS
<1> QED BY <1>1, <1>2

\* The keys of a finite set.
LEMMA ClavesFinitas ==
    ASSUME NEW S, IsFiniteSet(S), NEW clave
    PROVE  IsFiniteSet({clave[i] : i \in S})
<1>1. PICK K : K = {clave[i] : i \in S}  OBVIOUS
<1>2. PICK h : h = [i \in S |-> clave[i]]  OBVIOUS
<1>3. h \in Surjection(S, K)  BY <1>1, <1>2 DEF Surjection
<1> QED BY <1>1, <1>3, FS_Surjection

\* In a finite set that D orders (D[i] is what comes before i), an element is told by how many
\* come before it, and every number below the size tells one.
LEMMA RangosDistintos ==
    ASSUME NEW S, IsFiniteSet(S), NEW D \in [S -> SUBSET S],
           \A i \in S : i \notin D[i],
           \A i, j \in S : i \in D[j] => D[i] \subseteq D[j],
           \A i, j \in S : i = j \/ i \in D[j] \/ j \in D[i]
    PROVE  /\ \A i, j \in S : i \in D[j] => Cardinality(D[i]) < Cardinality(D[j])
           /\ \A i, j \in S : Cardinality(D[i]) = Cardinality(D[j]) => i = j
           /\ \A i \in S : Cardinality(D[i]) \in 0 .. Cardinality(S) - 1
           /\ \A n \in 0 .. Cardinality(S) - 1 : \E i \in S : Cardinality(D[i]) = n
<1>0. \A i \in S : D[i] \subseteq S /\ IsFiniteSet(D[i]) /\ Cardinality(D[i]) \in Nat
  BY FS_Subset, FS_CardinalityType
<1>00. Cardinality(S) \in Nat  BY FS_CardinalityType
<1>1. ASSUME NEW i \in S, NEW j \in S, i \in D[j] PROVE Cardinality(D[i]) < Cardinality(D[j])
  <2>1. D[i] \subseteq D[j] /\ D[i] # D[j]  BY <1>1
  <2>2. IsFiniteSet(D[i]) /\ IsFiniteSet(D[j]) /\ Cardinality(D[i]) \in Nat
            /\ Cardinality(D[j]) \in Nat
    BY <1>0
  <2>3. Cardinality(D[i]) <= Cardinality(D[j])
            /\ (Cardinality(D[i]) = Cardinality(D[j]) => D[i] = D[j])
    BY ONLY <2>1, <2>2, FS_Subset
  <2> QED BY <2>1, <2>2, <2>3
<1>2. \A i, j \in S : Cardinality(D[i]) = Cardinality(D[j]) => i = j  BY <1>0, <1>1
<1>3. ASSUME NEW i \in S PROVE Cardinality(D[i]) \in 0 .. Cardinality(S) - 1
  <2>1. D[i] \subseteq S /\ D[i] # S  BY <1>0
  <2>2. Cardinality(D[i]) <= Cardinality(S) /\ (Cardinality(D[i]) = Cardinality(S) => D[i] = S)
    BY ONLY IsFiniteSet(S), <2>1, FS_Subset
  <2>3. Cardinality(D[i]) \in Nat  BY <1>0
  <2> QED BY <1>00, <2>1, <2>2, <2>3
<1>4. ASSUME NEW n \in 0 .. Cardinality(S) - 1, \A i \in S : Cardinality(D[i]) # n PROVE FALSE
  <2> DEFINE R == 0 .. Cardinality(S) - 1
             T == R \ {n}
             f == [i \in S |-> Cardinality(D[i])]
  <2>1. f \in Injection(S, T)  BY <1>2, <1>3, <1>4 DEF Injection, IsInjective
  <2>2. IsFiniteSet(R) /\ Cardinality(R) = Cardinality(S)  BY <1>00, FS_Interval
  <2>3. IsFiniteSet(T) /\ Cardinality(T) = Cardinality(R) - 1  BY <2>2, FS_RemoveElement
  <2> HIDE DEF f, T, R
  <2>4. Cardinality(S) <= Cardinality(T)  BY <2>1, <2>3, FS_Injection
  <2> QED BY <1>00, <2>2, <2>3, <2>4
<1> QED BY <1>1, <1>2, <1>3, <1>4
====
